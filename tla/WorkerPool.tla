----------------------------- MODULE WorkerPool -----------------------------
(***************************************************************************)
(* How the machines of a pool share out the workers without talking to     *)
(* each other (queue_runner.py, the start of runner.py, machine_types.py). *)
(* Each master loads its settings, adds the queues that tasks and cron     *)
(* rows imply, and deals every worker of the pool to a machine in turn,    *)
(* keeping those dealt to itself.  A new release is put on one machine     *)
(* after the other, and its master restarted.                              *)
(*                                                                         *)
(* Of the workers of a machine one stands for all, since they load the     *)
(* same settings.  A queue is its place in the sorted order of names.      *)
(***************************************************************************)
EXTENDS Settings, Integers

CONSTANTS
  MachineCount,   \* `--of`
  Masters,        \* `--machine` of each master; some may be wrong
  Deployments,    \* pairs of releases, each [django, extra: layers (extra may be
                  \* NoFile), tasks, crons: the queues that these name]
  NoFile,
  OnlyQueues,     \* what `--only-queue` may be: queues, or NoQueue
  CRON_QUEUE_NAME

NoQueue  == 0
Machines == 1..MachineCount

ASSUME WorkerPoolAssumption ==
  /\ MachineCount \in Nat \ {0} /\ Machines \subseteq Masters /\ Masters \subseteq Int
  /\ CRON_QUEUE_NAME \in Nat \ {0}
  /\ OnlyQueues \subseteq Nat
  /\ \A d \in Deployments : \A v \in {1, 2} :
       /\ \A queues \in {d[v].tasks, d[v].crons} : IsFiniteSet(queues) /\ queues \subseteq Nat \ {0}
       /\ d[v].django # NoFile
       /\ \A layer \in {d[v].django} \cup ({d[v].extra} \ {NoFile}) : "WORKERS" \in DOMAIN layer =>
            LET queues == DOMAIN layer.WORKERS
            IN  /\ IsFiniteSet(queues) /\ queues \subseteq Nat \ {0}
                /\ layer.WORKERS \in [queues -> Nat]

VARIABLES
  releases,     \* the old release and the new
  exact,        \* `--exact-configuration`
  only_queue,
  release,      \* the one on each machine
  phase,        \* how far the master is
  layers,       \* its settings
  worker_names,
  child         \* a worker of the machine

given  == <<releases, exact, only_queue>>
master == <<release, phase, layers, worker_names>>
vars   == <<given, master, child>>

Gone == [pc |-> "none", layers |-> <<>>, job_duration |-> FALSE, atomic |-> FALSE]

TypeOK ==
  /\ releases \in Deployments /\ exact \in BOOLEAN /\ only_queue \in OnlyQueues
  /\ release \in [Masters -> {1, 2}]
  /\ phase \in [Masters -> {"import", "handle", "configure", "enumerate", "run", "refused"}]
  /\ \A m \in Masters :
       /\ Len(layers[m]) \in 2..3
       /\ IsFiniteSet(worker_names[m]) /\ worker_names[m] \subseteq (Nat \ {0}) \X (Nat \ {0})
       /\ child[m].pc \in {"none", "imported", "ready", "served", "dead"}
       /\ child[m] # Gone => phase[m] = "run" /\ worker_names[m] # {}

Given(r) == IF r.extra = NoFile THEN <<>> ELSE <<r.extra>>
Django(r) == <<Defaults, r.django>>

Init ==
  /\ releases \in Deployments /\ exact \in BOOLEAN /\ only_queue \in OnlyQueues
  /\ release = [m \in Masters |-> 1]
  /\ phase = [m \in Masters |-> "import"]
  /\ layers = [m \in Masters |-> Django(releases[1])]
  /\ worker_names = [m \in Masters |-> {}]
  /\ child = [m \in Masters |-> Gone]

Loaded(m) == releases[release[m]]

GoTo(m, next) == phase' = [phase EXCEPT ![m] = next]

-----------------------------------------------------------------------------
(* The master. *)

(* load_all_tasks, when Django is ready. *)
ImportTasks(m) ==
  /\ phase[m] = "import"
  /\ layers' = [layers EXCEPT ![m] = Contribute(@, Loaded(m).tasks)]
  /\ GoTo(m, "handle")
  /\ UNCHANGED <<given, release, worker_names, child>>

(* validate_and_normalise; `--exact-configuration` is for one machine, the  *)
(* others of the pool have been given their numbers.                        *)
Refused(m) ==
  IF exact THEN Loaded(m).extra = NoFile \/ m # 1 \/ only_queue # NoQueue
           ELSE m > MachineCount

Handle(m) ==
  /\ phase[m] = "handle"
  /\ layers' = [layers EXCEPT ![m] = IF Loaded(m).extra = NoFile THEN @
                                     ELSE add_layer(@, Loaded(m).extra)]
  /\ GoTo(m, IF Refused(m) THEN "refused" ELSE "configure")
  /\ UNCHANGED <<given, release, worker_names, child>>

(* Mutant: any machine runs cron. *)
run_cron_anywhere(m) == ~exact /\ only_queue \in {NoQueue, CRON_QUEUE_NAME}

run_cron(m) == ~exact /\ m = 1 /\ only_queue \in {NoQueue, CRON_QUEUE_NAME}

(* Mutant: cron is configured only where it is run. *)
ConfigureCron_whereRun(m) ==
  /\ phase[m] = "configure"
  /\ layers' = [layers EXCEPT ![m] = IF run_cron(m) THEN Contribute(@, Loaded(m).crons) ELSE @]
  /\ GoTo(m, "enumerate")
  /\ UNCHANGED <<given, release, worker_names, child>>

(* ensure_queue_workers_for_config, on every machine of a pool. *)
ConfigureCron(m) ==
  /\ phase[m] = "configure"
  /\ layers' = [layers EXCEPT ![m] = IF exact THEN @ ELSE Contribute(@, Loaded(m).crons)]
  /\ GoTo(m, "enumerate")
  /\ UNCHANGED <<given, release, worker_names, child>>

(* Every worker of the pool, and its place in the order of the loops.       *)
AllWorkers(counts) ==
  UNION {{q} \X (1..counts[q]) : q \in {p \in DOMAIN counts : only_queue \in {NoQueue, p}}}

JobNumber(x, all) ==
  Cardinality({y \in all : y[1] < x[1] \/ (y[1] = x[1] /\ y[2] <= x[2])})

(* Mutants: the workers of each queue are dealt from the first machine on,  *)
(* and each machine has a block of the list.                                *)
Mine_byQueue(m, x, all) == (x[2] % MachineCount) + 1 = m

Mine_inBlocks(m, x, all) ==
  ((JobNumber(x, all) - 1) * MachineCount) \div Cardinality(all) + 1 = m

Mine(m, x, all) == (JobNumber(x, all) % MachineCount) + 1 = m

(* worker_names, then backend.startup for their queues, cron, the loop.     *)
Enumerate(m) ==
  /\ phase[m] = "enumerate"
  /\ LET all == AllWorkers(Setting(layers[m], "WORKERS"))
     IN  worker_names' = [worker_names EXCEPT ![m] = {x \in all : exact \/ Mine(m, x, all)}]
  /\ GoTo(m, "run")
  /\ UNCHANGED <<given, release, layers, child>>

(* Mutant: the workers are left behind. *)
Restart_orphans(m) ==
  /\ phase[m] \in {"run", "refused"}
  /\ release[m] = 1
  /\ release' = [release EXCEPT ![m] = 2]
  /\ layers' = [layers EXCEPT ![m] = Django(releases[2])]
  /\ worker_names' = [worker_names EXCEPT ![m] = {}]
  /\ GoTo(m, "import")
  /\ UNCHANGED <<given, child>>

(* With the new release: the old master has ended by then, and its workers. *)
Restart(m) ==
  /\ phase[m] \in {"run", "refused"}
  /\ release[m] = 1
  /\ release' = [release EXCEPT ![m] = 2]
  /\ layers' = [layers EXCEPT ![m] = Django(releases[2])]
  /\ worker_names' = [worker_names EXCEPT ![m] = {}]
  /\ child' = [child EXCEPT ![m] = Gone]
  /\ GoTo(m, "import")
  /\ UNCHANGED given

-----------------------------------------------------------------------------
(* A worker process, started with the master's extra settings file. *)

(* Tasks read ATOMIC_JOBS when they are declared, and worker.py reads       *)
(* ENABLE_PROMETHEUS when queue_worker.py imports it.                       *)
Spawn(m) ==
  /\ phase[m] = "run" /\ worker_names[m] # {}
  /\ child[m].pc \in {"none", "dead"}
  /\ LET django == Django(Loaded(m))
     IN  child' = [child EXCEPT ![m] =
           [pc |-> "imported", layers |-> django,
            job_duration |-> Setting(django, "ENABLE_PROMETHEUS"),
            atomic |-> Setting(django, "ATOMIC_JOBS")]]
  /\ UNCHANGED <<given, master>>

ChildHandles(m) ==
  /\ child[m].pc = "imported"
  /\ child' = [child EXCEPT ![m].pc = "ready", ![m].layers = @ \o Given(Loaded(m))]
  /\ UNCHANGED <<given, master>>

(* The first process() is over.  A NameError if there is no job_duration.   *)
ChildServes(m) ==
  /\ child[m].pc = "ready"
  /\ child' = [child EXCEPT ![m].pc =
       IF Setting(child[m].layers, "ENABLE_PROMETHEUS") /\ ~child[m].job_duration
       THEN "dead" ELSE "served"]
  /\ UNCHANGED <<given, master>>

Next ==
  \E m \in Masters :
    \/ ImportTasks(m) \/ Handle(m) \/ ConfigureCron(m) \/ Enumerate(m)
    \/ Restart(m) \/ Spawn(m) \/ ChildHandles(m) \/ ChildServes(m)

Spec == Init /\ [][Next]_vars

-----------------------------------------------------------------------------
(* Properties. *)

(* The pool is up with one release. *)
Up(v) == \A m \in Masters : release[m] = v /\ phase[m] \in {"run", "refused"}

(* What a release asks for: the counts of the file that gives them, and one *)
(* worker for a queue that is only implied.  Those that tasks imply count   *)
(* where the Django settings do; an exact configuration knows no cron.      *)
Wanted(v) ==
  LET r == releases[v]
      counts(layer) == IF "WORKERS" \in DOMAIN layer THEN layer.WORKERS ELSE NoWorkers
      base == IF r.extra # NoFile /\ "WORKERS" \in DOMAIN r.extra
              THEN counts(r.extra)
              ELSE setdefault(counts(r.django), r.tasks)
  IN  IF exact THEN IF Refused(1) THEN {} ELSE AllWorkers(base)
               ELSE AllWorkers(setdefault(base, r.crons))

(* Every worker wanted is run by exactly one machine of the pool, even if   *)
(* others with wrong numbers are about (README.md:145-150, 183-197).        *)
EachWorkerOnce ==
  \A v \in {1, 2} : Up(v) =>
    /\ UNION {worker_names[m] : m \in Masters} = Wanted(v)
    /\ \A m, o \in Masters : m # o => worker_names[m] \cap worker_names[o] = {}

(* No machine of the pool has two workers more than another.                *)
Balanced ==
  \A v \in {1, 2} : Up(v) /\ ~exact =>
    \A m, o \in Machines : Cardinality(worker_names[m]) <= Cardinality(worker_names[o]) + 1

(* In the middle of a change of release no worker number is run by two      *)
(* machines, provided that the workers of both releases have the same place *)
(* in the list of each: workers are only added or dropped at its end.       *)
SafeToRoll ==
  (\A x \in Wanted(1) \cap Wanted(2) : JobNumber(x, Wanted(1)) = JobNumber(x, Wanted(2)))
    => \A m, o \in Masters : m # o => worker_names[m] \cap worker_names[o] = {}

(* Cron rows are enqueued by one machine at most, at any time; and in a     *)
(* pool that does so, each queue they name is looked after by a worker,     *)
(* unless it was given none or left out with `--only-queue`.                *)
CronIsServed ==
  LET crons == {m \in Masters : phase[m] = "run" /\ run_cron(m)}
  IN  /\ Cardinality(crons) <= 1
      /\ \A v \in {1, 2} : Up(v) /\ crons # {} =>
           \A q \in releases[v].crons :
             \/ \E m \in Masters : \E x \in worker_names[m] : x[1] = q
             \/ only_queue \notin {NoQueue, q}
             \/ \E layer \in {releases[v].django, releases[v].extra} \ {NoFile} :
                  "WORKERS" \in DOMAIN layer /\ q \in DOMAIN layer.WORKERS /\ layer.WORKERS[q] = 0

(* "in preference to settings from the Django environment" (README.md:76):  *)
(* what a worker that is told of a settings file goes by, when it is done   *)
(* with its first job, is what the file says.                               *)
ExtraSettingsPrevail ==
  \A m \in Masters : child[m].pc \in {"served", "dead"} =>
    /\ child[m].job_duration = Setting(child[m].layers, "ENABLE_PROMETHEUS")
    /\ child[m].atomic = Setting(child[m].layers, "ATOMIC_JOBS")
=============================================================================
