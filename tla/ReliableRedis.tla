--------------------------- MODULE ReliableRedis ---------------------------
(***************************************************************************)
(* One queue of `ReliableRedisBackend` (backends/reliable_redis.py) with   *)
(* everything that touches its Redis keys at the same time: clients that   *)
(* enqueue, the worker processes of one or several machines, the start-up  *)
(* of those machines, and the management commands that deduplicate, pause  *)
(* and clear the queue.                                                    *)
(*                                                                         *)
(* Redis runs a command, or a MULTI/EXEC, in one step; so does an action   *)
(* here.  Between two commands of one process anything may happen.         *)
(*                                                                         *)
(* A job is named by its place in the order of first pushes, so a greater  *)
(* number is a newer job.  Two jobs have the same Identity when they would *)
(* be the same job but for `created_time` (Job.identity_without_created).  *)
(***************************************************************************)
EXTENDS SequencesExt, Integers

CONSTANTS
  JobCount,       \* how many jobs are ever enqueued
  MaxBatch,       \* the largest batch a client pushes at once
  Identity,       \* the identity of each job
  Poison,         \* the jobs that never end within their timeout
  MachineCount,   \* the machines of the pool, each with one runner
  WorkerCounts,   \* the values settings may give the queue's worker count
  Procs,          \* worker processes, reused after they die
  Dedupers,       \* concurrent queue_deduplicate commands
  Events,         \* the events of the environment that may happen
  Budget          \* how many of them may happen

Raws     == 1..JobCount
Machines == 1..MachineCount
Nums     == UNION {1..n : n \in WorkerCounts}   \* worker numbers ever in use
Phases   == {"down", "keys", "watch", "read", "up", "stopping"}
PCs      == {"down", "idle", "checked", "empty", "running", "ran"}
NoJob    == 0
NoHost   == 0

ASSUME ConstantsAssumption ==
  /\ JobCount \in Nat /\ MaxBatch \in Nat /\ Budget \in Nat
  /\ MachineCount \in Nat \ {0}
  /\ WorkerCounts \subseteq Nat \ {0}
  /\ Poison \subseteq Raws
  /\ DOMAIN Identity = Raws

VARIABLES
  main,      \* the queue's list: LPUSH at the head (1), pops at the tail
  proc,      \* the processing list of each worker number
  paused,    \* whether the pause key exists
  created,   \* the jobs pushed so far are 1..created
  unacked,   \* a batch whose push got no reply, kept by BulkEnqueueHelper
  worker,    \* each worker process
  boot,      \* each machine's runner, and where its start-up is
  snap,      \* the list each deduper has read
  todo,      \* the positions in it that it has still to remove
  budget,    \* how many events the environment has left
  \* History, read by properties only:
  unrun,     \* jobs pushed, not cleared, that have not been run themselves
  owed,      \* those of them no identical job was run for since the push
  dropped    \* jobs a deduper has taken off the queue

redis == <<main, proc, paused>>
dedup == <<snap, todo>>
history == <<unrun, owed, dropped>>
vars == <<redis, created, unacked, worker, boot, dedup, budget, history>>

Off    == [pc |-> "down", host |-> NoHost, slot |-> 0, job |-> NoJob, covers |-> {}]
Halted == [phase |-> "down", workers |-> 0, stale |-> {}, unread |-> {},
           gathered |-> <<>>, touched |-> FALSE]

Workers == [pc: PCs, host: Machines \cup {NoHost}, slot: Nums \cup {0},
            job: Raws \cup {NoJob}, covers: SUBSET Raws]
Runners == [phase: Phases, workers: WorkerCounts \cup {0}, stale: SUBSET Nums,
            unread: SUBSET Nums, gathered: Seq(Raws), touched: BOOLEAN]

ListsOK ==
  /\ main \in Seq(Raws) /\ proc \in [Nums -> Seq(Raws)] /\ unacked \in Seq(Raws)

WorkersOK ==
  /\ worker \in [Procs -> Workers]
  /\ \A p \in Procs : worker[p].job = NoJob <=> worker[p].pc \notin {"running", "ran"}
  /\ \A p \in Procs : worker[p].slot = 0 <=> worker[p].pc = "down"

RunnersOK ==
  /\ boot \in [Machines -> Runners]
  /\ \A m \in Machines : boot[m].unread \subseteq boot[m].stale
  /\ \A m \in Machines : boot[m].unread # {} => boot[m].phase = "read"

DedupOK ==
  /\ snap \in [Dedupers -> Seq(Raws)] /\ todo \in [Dedupers -> SUBSET Nat]
  /\ \A d \in Dedupers : todo[d] \subseteq DOMAIN snap[d]

CountsOK ==
  /\ paused \in BOOLEAN /\ created \in 0..JobCount /\ budget \in 0..Budget
  /\ unrun \subseteq Raws /\ owed \subseteq Raws /\ dropped \subseteq Raws

TypeOK == ListsOK /\ WorkersOK /\ RunnersOK /\ DedupOK /\ CountsOK

Init ==
  /\ main = <<>> /\ proc = [w \in Nums |-> <<>>] /\ paused = FALSE
  /\ created = 0 /\ unacked = <<>>
  /\ worker = [p \in Procs |-> Off] /\ boot = [m \in Machines |-> Halted]
  /\ snap = [d \in Dedupers |-> <<>>] /\ todo = [d \in Dedupers |-> {}]
  /\ budget = Budget
  /\ unrun = {} /\ owed = {} /\ dropped = {}

(* An event the environment is allowed, and has budget for. *)
Spend(event) == event \in Events /\ budget > 0 /\ budget' = budget - 1

-----------------------------------------------------------------------------
(* Clients. *)

(* Mutant: the batch keeps its order at the head of the list. *)
LPush_unreversed(list, batch) == batch \o list

LPush(list, batch) == Reverse(batch) \o list
Batch(hi) == [i \in 1..(hi - created) |-> created + i]

(* bulk_enqueue: one LPUSH of the whole batch.  When its reply is lost, the *)
(* exception leaves the batch in the BulkEnqueueHelper that pushed it.      *)
BulkEnqueue(hi, lost) ==
  /\ hi - created <= MaxBatch
  /\ main' = LPush(main, Batch(hi))
  /\ created' = hi
  /\ unrun' = unrun \cup (created + 1)..hi
  /\ owed' = owed \cup (created + 1)..hi
  /\ \/ ~lost /\ UNCHANGED <<unacked, budget>>
     \/ lost /\ unacked = <<>> /\ unacked' = Batch(hi) /\ Spend("lost_reply")
  /\ UNCHANGED <<proc, paused, worker, boot, dedup, dropped>>

(* BulkEnqueueHelper.__exit__ flushes what the failed flush has kept: the   *)
(* same bytes are pushed a second time.                                     *)
RetryEnqueue ==
  /\ unacked # <<>>
  /\ main' = LPush(main, unacked)
  /\ unacked' = <<>>
  /\ UNCHANGED <<proc, paused, created, worker, boot, dedup, budget, history>>

(* queue_clear: DEL of the main list.  Jobs in flight are not affected. *)
InFlight == UNION {ToSet(proc[w]) : w \in Nums}

Clear ==
  /\ Spend("clear")
  /\ main # <<>>
  /\ main' = <<>>
  /\ unrun' = unrun \cap InFlight
  /\ owed' = owed \cap InFlight
  /\ UNCHANGED <<proc, paused, created, unacked, worker, boot, dedup, dropped>>

Pause ==
  /\ Spend("pause")
  /\ ~paused /\ paused' = TRUE
  /\ UNCHANGED <<main, proc, created, unacked, worker, boot, dedup, history>>

(* queue_resume deletes the pause key, or the key expires. *)
Unpause ==
  /\ paused /\ paused' = FALSE
  /\ UNCHANGED <<main, proc, created, unacked, worker, boot, dedup, budget, history>>

-----------------------------------------------------------------------------
(* Worker processes: Worker.process with dequeue and processed_job. *)

(* Mutant: no WATCH on the stale lists. *)
Touch_nothing(ws) == boot

(* WATCH: a change of any of these processing lists aborts the transaction  *)
(* of a start-up that has read it.                                          *)
Touch(ws) ==
  [m \in Machines |-> [boot[m] EXCEPT
     !.touched = @ \/ (boot[m].phase = "read" /\ ws \cap boot[m].stale # {})]]

(* The worker has a job: those it will do the work of are the identical     *)
(* ones pushed before it took this one.                                     *)
TakeJob(p, j) ==
  worker' = [worker EXCEPT ![p] = [@ EXCEPT !.pc = "running", !.job = j,
               !.covers = {r \in owed : Identity[r] = Identity[j]}]]

GoTo(p, pc) == worker' = [worker EXCEPT ![p] = [@ EXCEPT !.pc = pc]]

CheckPause(p) ==
  /\ worker[p].pc = "idle"
  /\ ~paused
  /\ GoTo(p, "checked")
  /\ UNCHANGED <<redis, created, unacked, boot, dedup, budget, history>>

(* Mutant: the processing list is not looked at. *)
PeekProcessing_skipped(p) ==
  /\ worker[p].pc = "checked"
  /\ GoTo(p, "empty")
  /\ UNCHANGED <<redis, created, unacked, boot, dedup, budget, history>>

(* LINDEX -1: a job left by a worker of this number that died. *)
PeekProcessing(p) ==
  /\ worker[p].pc = "checked"
  /\ LET mine == proc[worker[p].slot]
     IN  \/ mine # <<>> /\ TakeJob(p, Last(mine))
         \/ mine = <<>> /\ GoTo(p, "empty")
  /\ UNCHANGED <<redis, created, unacked, boot, dedup, budget, history>>

(* BRPOPLPUSH, with and without a job before its timeout. *)
PopMain(p) ==
  /\ worker[p].pc = "empty"
  /\ main # <<>>
  /\ main' = Front(main)
  /\ proc' = [proc EXCEPT ![worker[p].slot] = <<Last(main)>> \o @]
  /\ boot' = Touch({worker[p].slot})
  /\ TakeJob(p, Last(main))
  /\ UNCHANGED <<paused, created, unacked, dedup, budget, history>>

PopTimeout(p) ==
  /\ worker[p].pc = "empty"
  /\ main = <<>>
  /\ GoTo(p, "idle")
  /\ UNCHANGED <<redis, created, unacked, boot, dedup, budget, history>>

(* job.run returns, whether the task succeeded or not. *)
Finish(p) ==
  /\ worker[p].pc = "running"
  /\ worker[p].job \notin Poison
  /\ unrun' = unrun \ {worker[p].job}
  /\ owed' = owed \ worker[p].covers
  /\ GoTo(p, "ran")
  /\ UNCHANGED <<redis, created, unacked, boot, dedup, budget, dropped>>

(* SIGALRM takes the whole process: the job stays in the processing list. *)
TimesOut(p) ==
  /\ worker[p].pc = "running"
  /\ worker[p].job \in Poison
  /\ worker' = [worker EXCEPT ![p] = Off]
  /\ UNCHANGED <<redis, created, unacked, boot, dedup, budget, history>>

(* Mutant: the worker goes back to its loop with the job still in hand. *)
Processed_keepsJob(p) ==
  /\ worker[p].pc = "ran"
  /\ GoTo(p, "idle")
  /\ proc' = [proc EXCEPT ![worker[p].slot] = RemoveFirst(@, worker[p].job)]
  /\ UNCHANGED <<main, paused, created, unacked, boot, dedup, budget, history>>

(* processed_job: LREM with count=1. *)
Processed(p) ==
  /\ worker[p].pc = "ran"
  /\ LET w == worker[p].slot
         r == worker[p].job
     IN  /\ proc' = [proc EXCEPT ![w] = RemoveFirst(@, r)]
         /\ boot' = IF r \in ToSet(proc[w]) THEN Touch({w}) ELSE boot
  /\ worker' = [worker EXCEPT ![p] = [@ EXCEPT !.pc = "idle", !.job = NoJob, !.covers = {}]]
  /\ UNCHANGED <<main, paused, created, unacked, dedup, budget, history>>

(* A worker process ends for a reason of its own: a crash, an exception, a  *)
(* kill, a timeout, the idle limit, the limit of jobs.                      *)
Die(p) ==
  /\ worker[p].pc # "down"
  /\ Spend("crash")
  /\ worker' = [worker EXCEPT ![p] = Off]
  /\ UNCHANGED <<redis, created, unacked, boot, dedup, history>>

-----------------------------------------------------------------------------
(* Machines: backend.startup, then the supervision of the workers. *)

WorkerNames(m, n) == {w \in 1..n : (w % MachineCount) + 1 = m}
Children(m) == {p \in Procs : worker[p].pc # "down" /\ worker[p].host = m}

(* The runner starts with the worker count of its settings; to differ from  *)
(* a runner that is up is a rolling change of the settings.  Start-up is    *)
(* run only for a queue this machine has workers for.                       *)
Boot(m, n) ==
  /\ boot[m].phase = "down"
  /\ IF \E o \in Machines : boot[o].phase # "down" /\ boot[o].workers # n
     THEN Spend("reconfigure") ELSE UNCHANGED budget
  /\ boot' = [boot EXCEPT ![m] = [Halted EXCEPT !.workers = n,
                !.phase = IF WorkerNames(m, n) = {} THEN "up" ELSE "keys"]]
  /\ UNCHANGED <<redis, created, unacked, worker, dedup, history>>

(* Mutants: no processing list is taken for stale, and every one is. *)
FindStale_none(m) ==
  /\ boot[m].phase = "keys"
  /\ boot' = [boot EXCEPT ![m] = [@ EXCEPT !.phase = "up"]]
  /\ UNCHANGED <<redis, created, unacked, worker, dedup, budget, history>>

FindStale_live(m) ==
  /\ boot[m].phase = "keys"
  /\ LET stale == {w \in Nums : proc[w] # <<>>}
     IN  boot' = [boot EXCEPT ![m] = [@ EXCEPT !.stale = stale,
                    !.phase = IF stale = {} THEN "up" ELSE "watch"]]
  /\ UNCHANGED <<redis, created, unacked, worker, dedup, budget, history>>

(* KEYS, less the processing keys of the expected worker numbers. *)
FindStale(m) ==
  /\ boot[m].phase = "keys"
  /\ LET stale == {w \in Nums : proc[w] # <<>>} \ 1..boot[m].workers
     IN  boot' = [boot EXCEPT ![m] = [@ EXCEPT !.stale = stale,
                    !.phase = IF stale = {} THEN "up" ELSE "watch"]]
  /\ UNCHANGED <<redis, created, unacked, worker, dedup, budget, history>>

Watch(m) ==
  /\ boot[m].phase = "watch"
  /\ boot' = [boot EXCEPT ![m] = [@ EXCEPT !.phase = "read", !.touched = FALSE,
                !.unread = boot[m].stale, !.gathered = <<>>]]
  /\ UNCHANGED <<redis, created, unacked, worker, dedup, budget, history>>

(* LRANGE of one key; the order of the keys is that of a Python set. *)
ReadKey(m, w) ==
  /\ boot[m].phase = "read"
  /\ w \in boot[m].unread
  /\ boot' = [boot EXCEPT ![m] = [@ EXCEPT !.unread = boot[m].unread \ {w},
                                          !.gathered = boot[m].gathered \o proc[w]]]
  /\ UNCHANGED <<redis, created, unacked, worker, dedup, budget, history>>

(* Mutants: a transaction that commits although a watched key has changed,  *)
(* and one that lacks the DEL.                                              *)
Exec_unwatched(m) ==
  /\ boot[m].phase = "read" /\ boot[m].unread = {}
  /\ main' = main \o boot[m].gathered
  /\ proc' = [w \in Nums |-> IF w \in boot[m].stale THEN <<>> ELSE proc[w]]
  /\ boot' = [boot EXCEPT ![m] = [Halted EXCEPT !.phase = "up", !.workers = boot[m].workers]]
  /\ UNCHANGED <<paused, created, unacked, worker, dedup, budget, history>>

Exec_withoutDel(m) ==
  /\ boot[m].phase = "read" /\ boot[m].unread = {} /\ ~boot[m].touched
  /\ main' = main \o boot[m].gathered
  /\ boot' = [boot EXCEPT ![m] = [Halted EXCEPT !.phase = "up", !.workers = boot[m].workers]]
  /\ UNCHANGED <<proc, paused, created, unacked, worker, dedup, budget, history>>

(* EXEC: the RPUSH to the main list and the DEL of the stale keys. *)
Exec(m) ==
  /\ boot[m].phase = "read" /\ boot[m].unread = {} /\ ~boot[m].touched
  /\ LET stale == boot[m].stale
     IN  /\ main' = main \o boot[m].gathered
         /\ proc' = [w \in Nums |-> IF w \in stale THEN <<>> ELSE proc[w]]
         /\ boot' = [Touch({w \in stale : proc[w] # <<>>}) EXCEPT
                       ![m] = [Halted EXCEPT !.phase = "up", !.workers = boot[m].workers]]
  /\ UNCHANGED <<paused, created, unacked, worker, dedup, budget, history>>

(* EXEC fails with WatchError: client.transaction starts it over. *)
ExecAborts(m) ==
  /\ boot[m].phase = "read" /\ boot[m].unread = {} /\ boot[m].touched
  /\ boot' = [boot EXCEPT ![m] = [@ EXCEPT !.phase = "watch"]]
  /\ UNCHANGED <<redis, created, unacked, worker, dedup, budget, history>>

(* The runner's loop starts a process for each worker number that has none. *)
SpawnWorker(p, m, w) ==
  /\ boot[m].phase = "up"
  /\ w \in WorkerNames(m, boot[m].workers)
  /\ \A q \in Children(m) : worker[q].slot # w
  /\ worker[p].pc = "down"
  /\ worker' = [worker EXCEPT ![p] = [Off EXCEPT !.pc = "idle", !.host = m, !.slot = w]]
  /\ UNCHANGED <<redis, created, unacked, boot, dedup, budget, history>>

(* SIGTERM: the runner signals its workers.  Each ends, at once or later:   *)
(* when depends on its signal handling, which is the subject of Worker.     *)
Stop(m) ==
  /\ boot[m].phase = "up"
  /\ Spend("stop")
  /\ boot' = [boot EXCEPT ![m] = [@ EXCEPT !.phase = "stopping"]]
  /\ UNCHANGED <<redis, created, unacked, worker, dedup, history>>

WorkerStops(p) ==
  /\ \E m \in Machines : p \in Children(m) /\ boot[m].phase = "stopping"
  /\ worker' = [worker EXCEPT ![p] = Off]
  /\ UNCHANGED <<redis, created, unacked, boot, dedup, budget, history>>

Stopped(m) ==
  /\ boot[m].phase = "stopping"
  /\ Children(m) = {}
  /\ boot' = [boot EXCEPT ![m] = Halted]
  /\ UNCHANGED <<redis, created, unacked, worker, dedup, budget, history>>

(* The runner is killed, during its start-up or over the workers it has     *)
(* started; these go on without it.                                         *)
KillRunner(m) ==
  /\ boot[m].phase # "down"
  /\ Spend(IF Children(m) = {} THEN "crash" ELSE "orphan")
  /\ boot' = [boot EXCEPT ![m] = Halted]
  /\ worker' = [p \in Procs |-> IF p \in Children(m)
                                THEN [worker[p] EXCEPT !.host = NoHost] ELSE worker[p]]
  /\ UNCHANGED <<redis, created, unacked, dedup, history>>

-----------------------------------------------------------------------------
(* queue_deduplicate. *)

Twins(list, i) == {j \in DOMAIN list : Identity[list[j]] = Identity[list[i]]}

(* Mutant: `raw_jobs[1:]`. *)
Surplus_keepsNewest(list) == {i \in DOMAIN list : \E j \in Twins(list, i) : j < i}

(* All but the oldest of each identity: `raw_jobs[:-1]`. *)
Surplus(list) == {i \in DOMAIN list : \E j \in Twins(list, i) : i < j}

(* The order of removals: by identity, as first met, then newest first. *)
Before(list, i, j) ==
  \/ Min(Twins(list, i)) < Min(Twins(list, j))
  \/ Min(Twins(list, i)) = Min(Twins(list, j)) /\ i <= j

Scan(d) ==
  /\ todo[d] = {}
  /\ Surplus(main) # {}
  /\ Spend("dedup")
  /\ snap' = [snap EXCEPT ![d] = main]
  /\ todo' = [todo EXCEPT ![d] = Surplus(main)]
  /\ UNCHANGED <<redis, created, unacked, worker, boot, history>>

(* Mutant: removal by the position that was read, not by value. *)
RemoveTwin_byPosition(d) ==
  \E i \in todo[d] :
    /\ \A j \in todo[d] : Before(snap[d], i, j)
    /\ main' = IF i \in DOMAIN main THEN RemoveAt(main, i) ELSE main
    /\ todo' = [todo EXCEPT ![d] = @ \ {i}]
    /\ snap' = IF todo[d] = {i} THEN [snap EXCEPT ![d] = <<>>] ELSE snap
    /\ UNCHANGED <<proc, paused, created, unacked, worker, boot, budget, history>>

RemoveTwin(d) ==
  \E i \in todo[d] :
    /\ \A j \in todo[d] : Before(snap[d], i, j)
    /\ main' = RemoveFirst(main, snap[d][i])
    /\ dropped' = IF snap[d][i] \in ToSet(main) THEN dropped \cup {snap[d][i]} ELSE dropped
    /\ todo' = [todo EXCEPT ![d] = @ \ {i}]
    /\ snap' = IF todo[d] = {i} THEN [snap EXCEPT ![d] = <<>>] ELSE snap
    /\ UNCHANGED <<proc, paused, created, unacked, worker, boot, budget, unrun, owed>>

(* The command is interrupted, or loses its connection. *)
DedupCrash(d) ==
  /\ todo[d] # {}
  /\ Spend("crash")
  /\ todo' = [todo EXCEPT ![d] = {}]
  /\ snap' = [snap EXCEPT ![d] = <<>>]
  /\ UNCHANGED <<redis, created, unacked, worker, boot, history>>

-----------------------------------------------------------------------------
WorkerStep(p) ==
  \/ CheckPause(p) \/ PeekProcessing(p) \/ PopMain(p) \/ PopTimeout(p)
  \/ Finish(p) \/ TimesOut(p) \/ Processed(p)

StartupStep(m) ==
  \/ FindStale(m) \/ Watch(m) \/ Exec(m) \/ ExecAborts(m)
  \/ \E w \in Nums : ReadKey(m, w)

Next ==
  \/ \E hi \in (created + 1)..JobCount, lost \in BOOLEAN : BulkEnqueue(hi, lost)
  \/ RetryEnqueue \/ Clear \/ Pause \/ Unpause
  \/ \E p \in Procs : WorkerStep(p) \/ Die(p) \/ WorkerStops(p)
  \/ \E m \in Machines :
       \/ \E n \in WorkerCounts : Boot(m, n)
       \/ StartupStep(m) \/ Stop(m) \/ Stopped(m) \/ KillRunner(m)
       \/ \E p \in Procs, w \in Nums : SpawnWorker(p, m, w)
  \/ \E d \in Dedupers : Scan(d) \/ RemoveTwin(d) \/ DedupCrash(d)

Spec == Init /\ [][Next]_vars

(* Processes and runners that are alive go on; a runner that has ended is   *)
(* started again by whatever supervises it; a pause expires.                *)
Fairness ==
  /\ \A p \in Procs : WF_vars(WorkerStep(p)) /\ WF_vars(WorkerStops(p))
  /\ \A m \in Machines :
       /\ WF_vars(StartupStep(m)) /\ WF_vars(Stopped(m))
       /\ WF_vars(\E n \in WorkerCounts : Boot(m, n))
       /\ \A w \in Nums : WF_vars(\E p \in Procs : SpawnWorker(p, m, w))
  /\ WF_vars(Unpause)

FairSpec == Spec /\ Fairness

-----------------------------------------------------------------------------
(* Properties. *)

InRedis == ToSet(main) \cup InFlight

(* At-least-once (reliable_redis.py:41): a job that has been pushed stays   *)
(* in Redis until it has been run to the end, whatever dies in between,     *)
(* unless it is cleared or deduplicated.                                    *)
KeptUntilRun == unrun \ dropped \subseteq InRedis

(* Deduplication may not lose work either: for each job that no identical   *)
(* job was run for, an identical job is still in Redis.                     *)
NothingLost ==
  \A r \in owed : \E x \in InRedis : Identity[x] = Identity[r]

(* Moving jobs between lists never copies one: whatever is not a push, a    *)
(* first or a repeated one, leaves a job at no more places than before.     *)
Places(r) ==
  {<<0, i>> : i \in {i \in DOMAIN main : main[i] = r}} \cup
  UNION {{<<w, i>> : i \in {i \in DOMAIN proc[w] : proc[w][i] = r}} : w \in Nums}
NeverCopies ==
  [][created' = created /\ unacked' = unacked =>
       \A r \in Raws : Cardinality(Places(r)') <= Cardinality(Places(r))]_vars

(* While runners outlive their workers and agree on the number of workers,  *)
(* no job is run by two processes at once: a start-up leaves alone the      *)
(* lists of the workers it will have, which live on another machine while   *)
(* it runs, and a worker is started again only once the last one is gone.   *)
Exclusive ==
  \A p, q \in Procs : p # q /\ worker[p].job # NoJob => worker[p].job # worker[q].job

(* Likewise a worker takes a new job only once its last one is dealt with,  *)
(* even when it was started again in between.                               *)
OneInFlight == \A w \in Nums : Len(proc[w]) <= 1

(* First in, first out, recovery included: the main list is ordered from    *)
(* newest to oldest.  With more than one list to recover their order is     *)
(* arbitrary, so this needs settings that differ by one worker at most.     *)
MainNewestFirst == \A i, j \in DOMAIN main : i < j => main[i] > main[j]

(* Deduplication leaves the oldest of the identical jobs (:169): it drops   *)
(* a job only in favour of an older one.                                    *)
DroppedHasElder ==
  \A r \in dropped : \E q \in 1..(r - 1) : Identity[q] = Identity[r]

(* A deduper that comes to its end has left at most one of each identity    *)
(* among the jobs it read, however the queue has moved meanwhile.           *)
DedupLeavesNoTwins ==
  [][\A d \in Dedupers : todo[d] # {} /\ todo'[d] = {} /\ budget' = budget =>
       \A i, j \in DOMAIN main' :
         /\ main'[i] \in ToSet(snap[d]) /\ main'[j] \in ToSet(snap[d])
         /\ Identity[main'[i]] = Identity[main'[j]]
         => i = j]_vars

(* A start-up transaction takes what the stale lists hold when it commits,  *)
(* not what they held when it read them.                                    *)
StartupMovesAll ==
  [][\A m \in Machines : boot[m].phase = "read" /\ boot'[m].phase = "up" =>
       ToSet(main') = ToSet(main) \cup UNION {ToSet(proc[w]) : w \in boot[m].stale}]_vars

(* Redis as a whole behaves like the set of jobs AtLeastOnce describes: the *)
(* moves between its lists, whoever makes them, neither lose a job nor      *)
(* bring back one that was acknowledged, cleared or deduplicated.  A push   *)
(* that a client repeats does bring jobs back, so this is stated without    *)
(* such pushes; KeptUntilRun and NeverCopies cover them.                    *)
Promise == INSTANCE AtLeastOnce WITH Jobs <- Raws, pushed <- 1..created, held <- InRedis
KeepsPromise == Promise!Spec

(* Every job that can be run is run in the end, although workers and        *)
(* runners die and are started again.                                       *)
EveryJobRuns == \A r \in Raws \ Poison : r \in owed ~> r \notin owed

(* reliable_redis.py:36-39 says that start-up keeps jobs from being lost    *)
(* when the number of workers is lowered.  So it should however the         *)
(* machines are restarted, once they agree on the number.                   *)
Settled ==
  \A m, o \in Machines : boot[m].phase = "up" /\ boot[m].workers = boot[o].workers
LoweringWorkersIsSafe == <>[]Settled => EveryJobRuns
=============================================================================
