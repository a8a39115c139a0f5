------------------------------- MODULE JobRun -------------------------------
(***************************************************************************)
(* One job at a time, from the moment it is in a worker's processing list  *)
(* to its acknowledgement: Job.run with the middleware around the task     *)
(* (job.py), the transaction around an atomic task, and its three callers: *)
(* Worker.process, SynchronousBackend.enqueue and the debug_run view.      *)
(*                                                                         *)
(* A task writes to the database Writes times, and may change the          *)
(* arguments it was given.  Each hook, each write and each exit is a step, *)
(* and each may raise.  An "Exception" is caught by `except Exception`, a  *)
(* "BaseException" (SystemExit of a management command) is not.            *)
(***************************************************************************)
EXTENDS Naturals, Sequences

CONSTANTS
  Hooks,       \* the MIDDLEWARE setting: a sequence of sets of hooks
  Optional,    \* the places in it whose class may raise MiddlewareNotUsed
  Callers,     \* a subset of {"worker", "synchronous", "debug"}
  JobCount,    \* how many jobs a worker finds
  Historic,    \* the jobs that as_dict() does not give back byte for byte
  TouchFile,   \* whether there is a --touch-file
  MaxFaults    \* how much may go wrong: raising and dying

Places == DOMAIN Hooks
Writes == 2
Kinds  == {"Exception", "BaseException"}

ASSUME JobRunAssumption ==
  /\ Hooks \in Seq(SUBSET {"process_job", "process_result", "process_exception"})
  /\ Optional \subseteq Places
  /\ Callers \subseteq {"worker", "synchronous", "debug"}
  /\ JobCount \in Nat /\ Historic \subseteq Nat /\ TouchFile \in BOOLEAN /\ MaxFaults \in Nat

VARIABLES
  caller,      \* who calls run()
  atomic,      \* task.atomic
  pc,
  at,          \* where in the middleware, or which write
  ret,         \* what run() has returned
  loaded,      \* get_middleware(): has been called in this process
  middleware,  \* and the places it has returned
  entry,       \* whether the job is in the processing list
  left,        \* how many jobs are behind it
  raw,         \* whether job._json is the bytes of that entry
  changed,     \* whether as_dict() would be dumped to other bytes
  pending,     \* the writes of the open transaction
  db,          \* how often each write of this job has been committed
  faults,
  told,        \* history: the hooks called in this run
  lives        \* history: the processes this job has ended

object == <<raw, changed>>
queue  == <<entry, left>>
cache  == <<loaded, middleware>>
data   == <<pending, db>>
vars   == <<caller, atomic, pc, at, ret, cache, queue, object, data, faults, told, lives>>
given  == <<caller, atomic>>

NoWrites == [k \in 1..Writes |-> 0]
Has(place, hook) == place \in middleware /\ hook \in Hooks[place]

SwitchesOK ==
  /\ atomic \in BOOLEAN /\ ret \in BOOLEAN /\ loaded \in BOOLEAN
  /\ entry \in BOOLEAN /\ raw \in BOOLEAN /\ changed \in BOOLEAN

ControlOK ==
  /\ caller \in Callers
  /\ pc \in {"idle", "load", "before", "task", "write", "after", "failed", "returned",
             "ack", "dead", "end"}
  /\ at \in 0..(Len(Hooks) + Writes + 1)
  /\ left \in 0..JobCount /\ faults \in 0..MaxFaults /\ lives \in Nat
  /\ pc \in {"after", "failed"} => at <= Len(Hooks)

DataOK ==
  /\ middleware \subseteq Places
  /\ told \subseteq Places \X {"process_job", "process_result", "process_exception"}
  /\ pending \subseteq 1..Writes /\ db \in [1..Writes -> Nat]
  /\ pending # {} => pc \notin {"idle", "load", "ack", "dead", "end"}

TypeOK == SwitchesOK /\ ControlOK /\ DataOK

(* A worker fetches its jobs; the other callers have theirs in hand. *)
Init ==
  /\ caller \in Callers /\ atomic \in BOOLEAN
  /\ pc = IF caller = "worker" THEN "idle" ELSE "load"
  /\ at = 0 /\ ret = FALSE
  /\ loaded = FALSE /\ middleware = {}
  /\ entry = FALSE /\ left = IF caller = "worker" THEN JobCount ELSE 0
  /\ raw = TRUE /\ changed = FALSE
  /\ pending = {} /\ db = NoWrites
  /\ faults = 0 /\ told = {} /\ lives = 0

-----------------------------------------------------------------------------
(* What exceptions do. *)

Fault == faults < MaxFaults /\ faults' = faults + 1

(* Out of run(): a worker ends, and with it its cached middleware; a client *)
(* or a request has failed.  Any open transaction is rolled back.           *)
Escapes ==
  /\ pc' = IF caller = "worker" THEN "dead" ELSE "end"
  /\ pending' = {}
  /\ loaded' = FALSE /\ middleware' = {}
  /\ lives' = IF pc = "idle" THEN lives ELSE lives + 1
  /\ UNCHANGED <<given, at, ret, queue, object, db, told>>

(* Inside the `try` of run(): on to the process_exception hooks.            *)
Caught == pc' = "failed" /\ at' = Len(Hooks)

(* SIGALRM, SIGUSR2, SIGKILL, or the end of the machine. *)
Dies ==
  /\ pc \notin {"dead", "end"}
  /\ Fault
  /\ Escapes

Restart ==
  /\ pc = "dead"
  /\ pc' = "idle"
  /\ UNCHANGED <<given, at, ret, cache, queue, object, data, faults, told, lives>>

-----------------------------------------------------------------------------
(* The worker: dequeue, up to Job.from_json. *)

From_json(job) == raw' = TRUE /\ changed' = (job \in Historic)

(* Mutant: the job that a dead worker has left is not looked for. *)
Dequeue_popOnly ==
  /\ pc = "idle"
  /\ ~entry /\ left > 0
  /\ entry' = TRUE /\ left' = left - 1
  /\ db' = NoWrites /\ lives' = 0
  /\ From_json(JobCount - left')
  /\ pc' = "load"
  /\ UNCHANGED <<given, at, ret, cache, pending, faults, told>>

(* LINDEX finds a job that a dead worker has left; else BRPOPLPUSH. *)
Dequeue ==
  /\ pc = "idle"
  /\ \/ entry /\ UNCHANGED <<queue, db, lives>>
     \/ /\ ~entry /\ left > 0
        /\ entry' = TRUE /\ left' = left - 1
        /\ db' = NoWrites /\ lives' = 0
  /\ From_json(JobCount - left')
  /\ pc' = "load"
  /\ UNCHANGED <<given, at, ret, cache, pending, faults, told>>

NoneLeft ==
  /\ pc = "idle" /\ ~entry /\ left = 0
  /\ pc' = "end"
  /\ UNCHANGED <<given, at, ret, cache, queue, object, data, faults, told, lives>>

-----------------------------------------------------------------------------
(* Job.run *)

(* get_middleware() is cached once it has returned.                         *)
Load ==
  /\ pc = "load"
  /\ \/ /\ \/ loaded /\ UNCHANGED cache
           \/ ~loaded /\ loaded' = TRUE
              /\ \E unused \in SUBSET Optional : middleware' = Places \ unused
        /\ pc' = "before" /\ at' = 1 /\ told' = {}
        /\ UNCHANGED <<given, ret, queue, object, data, faults, lives>>
     \/ ~loaded /\ Fault /\ Escapes

(* A hook is called if the instance has it, and may change the job.         *)
Call(hook) ==
  IF Has(at, hook)
  THEN told' = told \cup {<<at, hook>>} /\ changed' \in {changed, TRUE}
  ELSE UNCHANGED <<told, changed>>

(* These are called outside of the `try`.                                   *)
ProcessJob ==
  /\ pc = "before" /\ at <= Len(Hooks)
  /\ \/ Call("process_job") /\ at' = at + 1
        /\ UNCHANGED <<given, pc, ret, cache, queue, raw, data, faults, lives>>
     \/ Has(at, "process_job") /\ Fault /\ Escapes

(* get_task_instance, which may fail to import, and the transaction begins. *)
StartTask ==
  /\ pc \in {"before", "task"} /\ at = Len(Hooks) + 1
  /\ \/ /\ pc = "before" /\ pc' = "task"
        /\ UNCHANGED <<given, at, ret, cache, queue, object, data, faults, told, lives>>
     \/ /\ pc = "task" /\ pc' = "write" /\ at' = 1
        /\ UNCHANGED <<given, ret, cache, queue, object, data, faults, told, lives>>
     \/ /\ pc = "task" /\ Fault /\ Caught
        /\ UNCHANGED <<given, ret, cache, queue, object, data, told, lives>>

(* Mutant: the task's setting is ignored. *)
InTransaction_view == caller = "debug"

(* In the view's transaction a task is never on its own.                    *)
InTransaction == atomic \/ caller = "debug"

Write ==
  /\ pc = "write" /\ at <= Writes
  /\ IF InTransaction
     THEN pending' = pending \cup {at} /\ UNCHANGED db
     ELSE db' = [db EXCEPT ![at] = @ + 1] /\ UNCHANGED pending
  /\ at' = at + 1
  /\ changed' \in {changed, TRUE}
  /\ UNCHANGED <<given, pc, ret, cache, queue, raw, faults, told, lives>>

(* The task raises: its own transaction is rolled back.                     *)
TaskRaises(kind) ==
  /\ pc = "write"
  /\ Fault
  /\ IF kind = "Exception"
     THEN /\ Caught
          /\ pending' = IF atomic THEN {} ELSE pending
          /\ UNCHANGED <<given, ret, cache, queue, object, db, told, lives>>
     ELSE Escapes

(* ... or committed, within the view's only to a savepoint.                 *)
TaskReturns ==
  /\ pc = "write" /\ at > Writes
  /\ IF caller = "debug"
     THEN UNCHANGED data
     ELSE db' = [k \in 1..Writes |-> IF k \in pending THEN db[k] + 1 ELSE db[k]]
          /\ pending' = {}
  /\ pc' = "after" /\ at' = Len(Hooks)
  /\ UNCHANGED <<given, ret, cache, queue, object, faults, told, lives>>

(* In reverse order, and still in the `try`.                                *)
ProcessResult ==
  /\ pc = "after" /\ at > 0
  /\ \/ Call("process_result") /\ at' = at - 1
        /\ UNCHANGED <<given, pc, ret, cache, queue, raw, data, faults, lives>>
     \/ Has(at, "process_result") /\ Fault
        /\ \/ Caught /\ UNCHANGED <<given, ret, cache, queue, object, data, told, lives>>
           \/ Escapes

(* Mutant: the first hook that raises is the last. *)
ProcessException_stops ==
  /\ pc = "failed" /\ at > 0
  /\ \/ Call("process_exception") /\ at' = at - 1 /\ UNCHANGED faults
     \/ Call("process_exception") /\ at' = 0 /\ Fault
  /\ UNCHANGED <<given, pc, ret, cache, queue, raw, data, lives>>

(* What one of these raises does not keep the next from being called.       *)
ProcessException ==
  /\ pc = "failed" /\ at > 0
  /\ \/ /\ Call("process_exception") /\ at' = at - 1
        /\ UNCHANGED faults \/ (Has(at, "process_exception") /\ Fault)
        /\ UNCHANGED <<given, pc, ret, cache, queue, raw, data, lives>>
     \/ Has(at, "process_exception") /\ Fault /\ Escapes

Return ==
  /\ pc \in {"after", "failed"} /\ at = 0
  /\ ret' = (pc = "after")
  /\ pc' = "returned"
  /\ UNCHANGED <<given, at, cache, queue, object, data, faults, told, lives>>

-----------------------------------------------------------------------------
(* Its callers. *)

(* Mutant: the view leaves its transaction to be committed. *)
Respond_commits ==
  /\ pc = "returned" /\ caller = "debug"
  /\ db' = [k \in 1..Writes |-> IF k \in pending THEN db[k] + 1 ELSE db[k]]
  /\ pending' = {}
  /\ pc' = "end"
  /\ UNCHANGED <<given, at, ret, cache, queue, object, faults, told, lives>>

(* transaction.set_rollback(rollback=True) *)
Respond ==
  /\ pc = "returned" /\ caller = "debug"
  /\ pending' = {}
  /\ pc' = "end"
  /\ UNCHANGED <<given, at, ret, cache, queue, object, db, faults, told, lives>>

(* SynchronousBackend.enqueue drops what run() returns. *)
Enqueued ==
  /\ pc = "returned" /\ caller = "synchronous"
  /\ pc' = "end"
  /\ UNCHANGED <<given, at, ret, cache, queue, object, data, faults, told, lives>>

(* The file may not be writable.                                            *)
Touch ==
  /\ pc = "returned" /\ caller = "worker"
  /\ \/ pc' = "ack"
        /\ UNCHANGED <<given, at, ret, cache, queue, object, data, faults, told, lives>>
     \/ ret /\ TouchFile /\ Fault /\ Escapes

(* What LREM is given, the cached bytes or new ones, is in the list.        *)
ToJsonMatches == raw \/ ~changed

(* Mutant: only successful jobs are acknowledged. *)
Acknowledge_success ==
  /\ pc = "ack"
  /\ entry' = (entry /\ ~(ret /\ ToJsonMatches))
  /\ pc' = "idle"
  /\ UNCHANGED <<given, at, ret, cache, left, object, data, faults, told, lives>>

(* processed_job, whatever run() has returned. *)
Acknowledge ==
  /\ pc = "ack"
  /\ entry' = (entry /\ ~ToJsonMatches)
  /\ pc' = "idle"
  /\ UNCHANGED <<given, at, ret, cache, left, object, data, faults, told, lives>>

-----------------------------------------------------------------------------
Run ==
  \/ Load \/ ProcessJob \/ StartTask \/ Write \/ TaskReturns \/ ProcessResult
  \/ ProcessException \/ Return
  \/ \E kind \in Kinds : TaskRaises(kind)

Step == Run \/ Restart \/ Dequeue \/ NoneLeft \/ Touch \/ Acknowledge \/ Respond \/ Enqueued

Next == Step \/ Dies

Spec == Init /\ [][Next]_vars

(* The process is scheduled, and the master starts it again. *)
FairSpec == Spec /\ WF_vars(Step)

-----------------------------------------------------------------------------
(* Properties. *)

(* What a job writes is written again only if its process has died since    *)
(* (reliable_redis.py:41, synchronous.py:10): neither a failure that was    *)
(* caught, nor what the task or the middleware did to the job object, nor a *)
(* job of an older release (job.py:47) leaves an entry that was done.       *)
OncePerLife ==
  \A k \in 1..Writes : db[k] <= IF caller = "worker" THEN lives + 1 ELSE 1

(* "The task will be run inside a database transaction" (task.py:61): dying *)
(* or raising at any point leaves all of its writes or none.                *)
AllOrNothing == atomic => \A j, k \in 1..Writes : db[j] = db[k]

(* run() returns True only if every middleware has been told the result and *)
(* all is written, and False only if every one has been told of an          *)
(* exception, even if another one's hook raised.                            *)
ReturnIsHonest ==
  pc = "returned" =>
    /\ \A p \in middleware : Has(p, "process_job") => <<p, "process_job">> \in told
    /\ LET hook == IF ret THEN "process_result" ELSE "process_exception"
       IN  \A p \in middleware : Has(p, hook) => <<p, hook>> \in told
    /\ ret => /\ \A p \in Places : <<p, "process_exception">> \notin told
              /\ \A k \in 1..Writes : db[k] > 0 \/ k \in pending

(* "Run a task ... within a transaction which will always be rolled back"   *)
(* (views.py:18): nothing is committed whether the task is atomic or not,   *)
(* returns, raises or exits.                                                *)
DebugLeavesNothing == caller = "debug" => db = NoWrites

(* A worker gets through its jobs: with no more faults to come, each leaves *)
(* the processing list.                                                     *)
JobsLeave == <>[](pc = "end" /\ ~entry /\ left = 0)
=============================================================================
