---------------------------- MODULE JobRunProofs ----------------------------
(***************************************************************************)
(* What run() commits and reports, for any middleware, any number of jobs  *)
(* and of faults.                                                          *)
(*                                                                         *)
(* The invariant adds to TypeOK where the loops are, what the open         *)
(* transaction holds, and when the job is in the processing list; the four *)
(* properties then need what db and told hold at each point.               *)
(***************************************************************************)
EXTENDS JobRun, TLAPS

-----------------------------------------------------------------------------
(* Types. *)

AtOK ==
  /\ pc = "before" => at \in 1..(Len(Hooks) + 1)
  /\ pc = "task" => at = Len(Hooks) + 1
  /\ pc = "write" => at \in 1..(Writes + 1)

(* A transaction is open during the task, and in the debug view until the   *)
(* response; it holds what has been written so far.                         *)
PendingOK ==
  /\ pc \in {"idle", "load", "before", "task", "ack", "dead", "end"} => pending = {}
  /\ caller # "debug" /\ pc # "write" => pending = {}
  /\ ~InTransaction => pending = {}
  /\ pc = "write" /\ InTransaction => pending = 1..(at - 1)

(* Only a worker starts again. *)
CallerOK == pc \in {"idle", "ack", "dead"} => caller = "worker"

TypeInv == TypeOK /\ AtOK /\ PendingOK /\ CallerOK

LEMMA Bounds ==
  /\ JobCount \in Nat /\ MaxFaults \in Nat
  /\ Len(Hooks) \in Nat /\ Places = 1..Len(Hooks)
  BY JobRunAssumption DEF Places

LEMMA CallersKnown == ControlOK => caller \in {"worker", "synchronous", "debug"}
  BY JobRunAssumption DEF ControlOK

LEMMA FaultCounts == ControlOK /\ Fault => faults' \in 0..MaxFaults
  BY Bounds DEF ControlOK, Fault

LEMMA TypeInit == Init => TypeInv
<1> SUFFICES ASSUME Init PROVE TypeInv
  OBVIOUS
<1>1. SwitchesOK
  BY Zenon DEF Init, SwitchesOK
<1>2. ControlOK /\ AtOK /\ CallerOK
  BY Bounds DEF Init, ControlOK, AtOK, CallerOK, Writes
<1>3. DataOK /\ PendingOK
  BY Bounds DEF Init, DataOK, PendingOK, Writes, NoWrites
<1> QED
  BY <1>1, <1>2, <1>3 DEF TypeInv, TypeOK

LEMMA SwitchesStep ==
  ASSUME SwitchesOK, [Next]_vars PROVE SwitchesOK'
<1> USE DEF SwitchesOK, given, cache, queue, object, data
<1>1. CASE Escapes
  BY <1>1, Zenon DEF Escapes
<1>2. CASE ~Escapes /\ (Load \/ ProcessJob \/ StartTask)
  BY <1>2, Zenon DEF Load, ProcessJob, StartTask, Caught, Call
<1>3. CASE ~Escapes /\ (Write \/ TaskReturns \/ \E kind \in Kinds : TaskRaises(kind))
  BY <1>3, Zenon DEF Write, TaskReturns, TaskRaises, Caught
<1>4. CASE ~Escapes /\ (ProcessResult \/ ProcessException \/ Return)
  BY <1>4, Zenon DEF ProcessResult, ProcessException, Return, Caught, Call
<1>5. CASE ~Escapes /\ (Restart \/ NoneLeft)
  BY <1>5, Zenon DEF Restart, NoneLeft
<1>6. CASE Dequeue
  <2>1. entry' \in BOOLEAN
    BY <1>6, Zenon DEF Dequeue
  <2>2. raw' = TRUE /\ changed' = (JobCount - left' \in Historic)
    BY <1>6, Zenon DEF Dequeue, From_json
  <2>3. UNCHANGED <<given, at, ret, cache, pending, faults, told>>
    BY <1>6, Zenon DEF Dequeue
  <2>4. UNCHANGED <<atomic, ret, loaded>>
    BY <2>3
  <2>5. raw' \in BOOLEAN
    BY <2>2, Zenon
  <2>6. changed' \in BOOLEAN
    BY <2>2, SMT
  <2> QED
    BY <2>1, <2>4, <2>5, <2>6, Zenon
<1>7. CASE ~Escapes /\ (Touch \/ Acknowledge \/ Respond \/ Enqueued)
  BY <1>7, Zenon DEF Touch, Acknowledge, Respond, Enqueued
<1>8. CASE ~Escapes /\ Dies
  BY <1>8 DEF Dies
<1>9. CASE UNCHANGED vars
  BY <1>9 DEF vars
<1> QED
  BY <1>1, <1>2, <1>3, <1>4, <1>5, <1>6, <1>7, <1>8, <1>9 DEF Next, Step, Run

LEMMA ControlStep ==
  ASSUME TypeInv, [Next]_vars PROVE ControlOK' /\ AtOK' /\ CallerOK'
<1> USE Bounds, CallersKnown
    DEF TypeInv, TypeOK, ControlOK, AtOK, CallerOK, given, cache, queue, object, data, Writes
<1> DEFINE Out == Fault /\ Escapes
<1>1. CASE Out
  BY <1>1, FaultCounts DEF Escapes
<1>2. CASE ~Out /\ (Load \/ ProcessJob \/ StartTask)
  BY <1>2, FaultCounts DEF Load, ProcessJob, StartTask, Caught
<1>3. CASE Write
  BY <1>3 DEF Write
<1>4. CASE TaskReturns
  BY <1>4 DEF TaskReturns
<1>5. ASSUME NEW kind \in Kinds, TaskRaises(kind), ~Out
      PROVE  ControlOK' /\ AtOK' /\ CallerOK'
  BY <1>5, FaultCounts DEF TaskRaises, Caught
<1>6. CASE ~Out /\ ProcessResult
  <2>1. \/ at' = at - 1 /\ pc' = pc /\ faults' = faults
        \/ at' = Len(Hooks) /\ pc' = "failed" /\ Fault
    BY <1>6 DEF ProcessResult, Caught
  <2>2. UNCHANGED <<caller, left, lives>> /\ pc = "after" /\ at > 0
    BY <1>6 DEF ProcessResult
  <2> QED
    BY <2>1, <2>2, FaultCounts
<1>7. CASE ~Out /\ ProcessException
  <2>1. at' = at - 1 /\ pc' = "failed" /\ at > 0
    BY <1>7 DEF ProcessException
  <2>2. UNCHANGED <<caller, left, lives>> /\ faults' \in 0..MaxFaults
    BY <1>7, FaultCounts DEF ProcessException
  <2> QED
    BY <2>1, <2>2, <1>7 DEF ProcessException
<1>8. CASE Return
  BY <1>8 DEF Return
<1>9. CASE Restart \/ Dequeue \/ NoneLeft
  BY <1>9 DEF Restart, Dequeue, NoneLeft
<1>10. CASE ~Out /\ (Touch \/ Acknowledge \/ Respond \/ Enqueued)
  BY <1>10, FaultCounts DEF Touch, Acknowledge, Respond, Enqueued
<1>11. CASE ~Out /\ Dies
  BY <1>11 DEF Dies
<1>12. CASE UNCHANGED vars
  BY <1>12 DEF vars
<1> QED
  BY <1>1, <1>2, <1>3, <1>4, <1>5, <1>6, <1>7, <1>8, <1>9, <1>10, <1>11, <1>12
  DEF Next, Step, Run

LEMMA CallTells ==
  ASSUME NEW hook \in {"process_job", "process_result", "process_exception"},
         DataOK, Call(hook)
  PROVE  told' \subseteq Places \X {"process_job", "process_result", "process_exception"}
<1>1. CASE Has(at, hook)
  <2>1. at \in Places /\ told' = told \cup {<<at, hook>>}
    BY <1>1 DEF Has, DataOK, Call
  <2> QED
    BY <2>1 DEF DataOK
<1>2. CASE ~Has(at, hook)
  BY <1>2 DEF DataOK, Call
<1> QED
  BY <1>1, <1>2

LEMMA DataStep ==
  ASSUME TypeInv, [Next]_vars PROVE DataOK' /\ PendingOK'
<1> USE Bounds
    DEF TypeInv, TypeOK, DataOK, ControlOK, AtOK, PendingOK, CallerOK, InTransaction,
        given, cache, queue, object, data, Writes
<1>1. CASE Escapes
  BY <1>1, CallersKnown DEF Escapes
<1>2. CASE Load /\ ~Escapes
  <2>1. middleware' \subseteq Places
    BY <1>2 DEF Load
  <2>2. told' = {} /\ UNCHANGED <<caller, atomic, pending, db>> /\ pc = "load" /\ pc' = "before"
    BY <1>2 DEF Load
  <2> QED
    BY <2>1, <2>2
<1>3. CASE StartTask
  <2>1. UNCHANGED <<caller, atomic, middleware, pending, db, told>> /\ pc \in {"before", "task"}
    BY <1>3 DEF StartTask
  <2>2. pc' \in {"task", "failed"} \/ (pc' = "write" /\ at' = 1)
    BY <1>3 DEF StartTask, Caught
  <2>3. pending = {} /\ 1..(1 - 1) = {}
    BY <2>1
  <2> QED
    BY <2>1, <2>2, <2>3
<1>4. CASE ProcessJob /\ ~Escapes
  <2>1. UNCHANGED <<caller, atomic, pc, middleware, pending, db>> /\ pc = "before"
    BY <1>4 DEF ProcessJob
  <2> QED
    BY <2>1, <1>4, CallTells DEF ProcessJob
<1>5. CASE Write
  <2>1. UNCHANGED <<caller, atomic, pc, middleware, told>> /\ pc = "write" /\ at' = at + 1
    BY <1>5 DEF Write
  <2>2. CASE InTransaction
    <3>1. pending' = pending \cup {at} /\ db' = db /\ at \in 1..Writes
      BY <1>5, <2>2 DEF Write
    <3>2. pending = 1..(at - 1) /\ pending' = 1..at
      BY <2>1, <2>2, <3>1
    <3> QED
      BY <2>1, <2>2, <3>1, <3>2
  <2>3. CASE ~InTransaction
    <3>1. pending' = pending /\ db' = [db EXCEPT ![at] = @ + 1] /\ at \in 1..Writes
      BY <1>5, <2>3 DEF Write
    <3> QED
      BY <2>1, <2>3, <3>1
  <2> QED
    BY <2>2, <2>3
<1>6. CASE TaskReturns
  BY <1>6 DEF TaskReturns
<1>7. ASSUME NEW kind \in Kinds, TaskRaises(kind), ~Escapes
      PROVE  DataOK' /\ PendingOK'
  BY <1>7 DEF TaskRaises, Caught
<1>8. CASE ProcessResult /\ ~Escapes
  <2>1. UNCHANGED <<caller, atomic, middleware, pending, db>> /\ pc = "after"
    BY <1>8 DEF ProcessResult
  <2>2. \/ pc' = "failed" /\ told' = told
        \/ pc' = "after" /\ Call("process_result")
    BY <1>8 DEF ProcessResult, Caught
  <2>3. told' \subseteq Places \X {"process_job", "process_result", "process_exception"}
    BY <2>2, CallTells
  <2> QED
    BY <2>1, <2>2, <2>3
<1>9. CASE ProcessException /\ ~Escapes
  <2>1. UNCHANGED <<caller, atomic, pc, middleware, pending, db>> /\ pc = "failed"
    BY <1>9 DEF ProcessException
  <2> QED
    BY <2>1, <1>9, CallTells DEF ProcessException
<1>10. CASE Return
  BY <1>10 DEF Return
<1>11. CASE Restart \/ NoneLeft
  BY <1>11 DEF Restart, NoneLeft
<1>12. CASE Dequeue
  BY <1>12 DEF Dequeue, NoWrites
<1>13. CASE ~Escapes /\ (Touch \/ Acknowledge \/ Respond \/ Enqueued)
  BY <1>13, CallersKnown DEF Touch, Acknowledge, Respond, Enqueued
<1>14. CASE ~Escapes /\ Dies
  BY <1>14 DEF Dies
<1>15. CASE UNCHANGED vars
  BY <1>15 DEF vars
<1> QED
  BY <1>1, <1>2, <1>3, <1>4, <1>5, <1>6, <1>7, <1>8, <1>9, <1>10, <1>11, <1>12, <1>13,
     <1>14, <1>15 DEF Next, Step, Run

LEMMA TypeStep == TypeInv /\ [Next]_vars => TypeInv'
  BY SwitchesStep, ControlStep, DataStep DEF TypeInv, TypeOK

(* Each variable stays in its type, and the loops in their bounds, for every *)
(* middleware setting (job.py:71-117).                                       *)
THEOREM JobTypeCorrect == Spec => []TypeOK
<1>1. TypeInv => TypeOK
  BY DEF TypeInv
<1> QED
  BY <1>1, TypeInit, TypeStep, PTL DEF Spec

-----------------------------------------------------------------------------
(* What is committed. *)

LEMMA Writers ==
  [Next]_vars => \/ UNCHANGED <<db, caller, atomic>>
                 \/ Write \/ TaskReturns \/ Dequeue
  BY Zenon DEF Next, Step, Run, Load, ProcessJob, StartTask, TaskRaises, ProcessResult,
     ProcessException, Return, Restart, NoneLeft, Touch, Acknowledge, Respond, Enqueued,
     Dies, Escapes, given, data, vars

(* Atomic tasks: the open transaction has all the writes when it commits.   *)
LEMMA AtomicStep == TypeInv /\ AllOrNothing /\ [Next]_vars => AllOrNothing'
<1> SUFFICES ASSUME TypeInv, AllOrNothing, [Next]_vars PROVE AllOrNothing'
  OBVIOUS
<1> USE DEF AllOrNothing, given, data
<1>1. CASE UNCHANGED <<db, caller, atomic>>
  BY <1>1
<1>2. CASE Write
  BY <1>2 DEF Write, InTransaction
<1>3. CASE TaskReturns
  <2>1. UNCHANGED atomic /\ pc = "write" /\ at > Writes
    BY <1>3 DEF TaskReturns
  <2>2. atomic => pending = 1..Writes
    BY <2>1 DEF TypeInv, AtOK, PendingOK, InTransaction, Writes
  <2>3. CASE caller = "debug"
    BY <1>3, <2>1, <2>3 DEF TaskReturns
  <2>4. CASE caller # "debug"
    <3>1. db' = [k \in 1..Writes |-> IF k \in pending THEN db[k] + 1 ELSE db[k]]
      BY <1>3, <2>4 DEF TaskReturns
    <3> QED
      BY <2>1, <2>2, <3>1
  <2> QED
    BY <2>3, <2>4
<1>4. CASE Dequeue
  BY <1>4 DEF Dequeue, NoWrites
<1> QED
  BY <1>1, <1>2, <1>3, <1>4, Writers

(* An atomic task's writes are committed together, for every number of      *)
(* faults: "The task will be run inside a database transaction" (task.py).  *)
THEOREM AtomicHolds == Spec => []AllOrNothing
<1>1. Init => AllOrNothing
  BY DEF Init, AllOrNothing, NoWrites
<1> QED
  BY <1>1, TypeInit, TypeStep, AtomicStep, PTL DEF Spec

(* In the view nothing is committed: it has no worker's retry, and its      *)
(* transaction is open until it is rolled back.                             *)
LEMMA DebugStep == TypeInv /\ DebugLeavesNothing /\ [Next]_vars => DebugLeavesNothing'
<1> SUFFICES ASSUME TypeInv, DebugLeavesNothing, [Next]_vars PROVE DebugLeavesNothing'
  OBVIOUS
<1> USE DEF DebugLeavesNothing, given, data, NoWrites
<1>1. CASE UNCHANGED <<db, caller, atomic>>
  BY <1>1
<1>2. CASE Write
  BY <1>2 DEF Write, InTransaction
<1>3. CASE TaskReturns
  BY <1>3 DEF TaskReturns
<1>4. CASE Dequeue
  BY <1>4 DEF Dequeue, TypeInv, CallerOK
<1> QED
  BY <1>1, <1>2, <1>3, <1>4, Writers

(* "within a transaction which will always be rolled back" (views.py:18).   *)
THEOREM DebugHolds == Spec => []DebugLeavesNothing
<1>1. Init => DebugLeavesNothing
  BY DEF Init, DebugLeavesNothing
<1> QED
  BY <1>1, TypeInit, TypeStep, DebugStep, PTL DEF Spec

-----------------------------------------------------------------------------
(* How often it is committed.  A worker that has the job has ended Base of  *)
(* its processes: outside of a run, an entry that is left has been written  *)
(* at most that often, since the run that acknowledges has removed it.      *)

Base == IF caller = "worker" THEN lives ELSE 0

HeldOK == caller = "worker" /\ pc \notin {"idle", "dead", "end"} => entry

WrittenOK == \A k \in 1..Writes :
  /\ db[k] <= Base + 1
  /\ pc \in {"load", "before", "task"} => db[k] <= Base
  /\ pc \in {"idle", "dead"} /\ entry => db[k] <= Base
  /\ pc = "write" /\ (k >= at \/ InTransaction) => db[k] <= Base

OnceInv == raw /\ HeldOK /\ WrittenOK

LEMMA HeldStep == TypeInv /\ raw /\ HeldOK /\ [Next]_vars => (raw /\ HeldOK)'
<1> SUFFICES ASSUME TypeInv, raw, HeldOK, [Next]_vars PROVE raw' /\ HeldOK'
  BY Zenon
<1> USE DEF HeldOK, given, cache, queue, object, data
<1>1. CASE Escapes
  BY <1>1, Zenon DEF Escapes
<1>2. CASE ~Escapes /\ (Load \/ ProcessJob \/ StartTask)
  <2>1. UNCHANGED <<raw, entry, caller>>
    BY <1>2, Zenon DEF Load, ProcessJob, StartTask
  <2>2. pc \in {"load", "before", "task"}
    BY <1>2, Zenon DEF Load, ProcessJob, StartTask
  <2> QED
    BY <2>1, <2>2, Zenon
<1>3. CASE ~Escapes /\ (Write \/ TaskReturns \/ \E kind \in Kinds : TaskRaises(kind))
  BY <1>3, Zenon DEF Write, TaskReturns, TaskRaises, Caught
<1>4. CASE ~Escapes /\ (ProcessResult \/ ProcessException \/ Return)
  <2>1. UNCHANGED <<raw, entry, caller>>
    BY <1>4, Zenon DEF ProcessResult, ProcessException, Return
  <2>2. pc \in {"after", "failed"}
    BY <1>4, Zenon DEF ProcessResult, ProcessException, Return
  <2> QED
    BY <2>1, <2>2, Zenon
<1>5. CASE ~Escapes /\ (Restart \/ NoneLeft)
  BY <1>5, Zenon DEF Restart, NoneLeft
<1>6. CASE Dequeue
  BY <1>6, Zenon DEF Dequeue, From_json
<1>7. CASE ~Escapes /\ (Touch \/ Acknowledge \/ Respond \/ Enqueued)
  <2>1. raw' = raw /\ caller' = caller
    BY <1>7, Zenon DEF Touch, Acknowledge, Respond, Enqueued
  <2>2. pc' \in {"idle", "end"} \/ (entry' = entry /\ pc = "returned")
    BY <1>7, Zenon DEF Touch, Acknowledge, Respond, Enqueued
  <2> QED
    BY <2>1, <2>2, Zenon
<1>8. CASE ~Escapes /\ Dies
  BY <1>8 DEF Dies
<1>9. CASE UNCHANGED vars
  BY <1>9, Zenon DEF vars
<1> QED
  BY <1>1, <1>2, <1>3, <1>4, <1>5, <1>6, <1>7, <1>8, <1>9 DEF Next, Step, Run

LEMMA WrittenStep == TypeInv /\ OnceInv /\ [Next]_vars => WrittenOK'
<1> SUFFICES ASSUME TypeInv, OnceInv, [Next]_vars PROVE WrittenOK'
  OBVIOUS
<1> USE DEF OnceInv, WrittenOK, Base, InTransaction, given, cache, queue, object, data
<1>0. /\ at \in Nat /\ lives \in Nat /\ db \in [1..Writes -> Nat]
      /\ Writes \in Nat /\ caller \in {"worker", "synchronous", "debug"}
  BY CallersKnown DEF TypeInv, TypeOK, ControlOK, DataOK, Writes
<1>1. CASE Escapes
  BY <1>0, <1>1, <1>1 DEF Escapes, TypeInv, CallerOK
<1>2. CASE ~Escapes /\ (Load \/ ProcessJob)
  <2>1. UNCHANGED <<db, caller, atomic, lives, entry>> /\ pc' \in {"before"} /\ pc \in {"load", "before"}
    BY <1>2 DEF Load, ProcessJob
  <2> QED
    BY <1>0, <2>1
<1>3. CASE StartTask
  <2>1. /\ UNCHANGED <<db, caller, atomic, lives, entry>>
        /\ pc \in {"before", "task"} /\ pc' \in {"task", "write", "failed"}
    BY <1>3 DEF StartTask, Caught
  <2> QED
    BY <1>0, <2>1
<1>4. CASE Write
  BY <1>0, <1>4 DEF Write
<1>5. CASE TaskReturns
  <2>1. pc = "write" /\ pc' = "after" /\ UNCHANGED <<caller, lives>>
    BY <1>5 DEF TaskReturns
  <2>2. ASSUME NEW k \in 1..Writes PROVE db'[k] <= Base + 1
    <3>1. db[k] <= Base + 1 /\ db[k] \in Nat /\ Base \in Nat
      BY <1>0
    <3>2. CASE db'[k] = db[k]
      BY <3>1, <3>2
    <3>3. CASE db'[k] # db[k]
      <4>1. db'[k] = db[k] + 1 /\ k \in pending
        BY <1>5, <3>3 DEF TaskReturns
      <4>2. InTransaction
        BY <4>1 DEF TypeInv, PendingOK
      <4>3. db[k] <= Base
        BY <2>1, <4>2
      <4> QED
        BY <4>1, <4>3, <3>1
    <3> QED
      BY <3>2, <3>3
  <2> QED
    BY <2>1, <2>2
<1>6. ASSUME ~Escapes, \/ \E kind \in Kinds : TaskRaises(kind)
                       \/ ProcessResult \/ ProcessException \/ Return
      PROVE  WrittenOK'
  <2>1. /\ UNCHANGED <<db, caller, lives>>
        /\ pc' \in {"after", "failed", "returned"}
    BY <1>6 DEF TaskRaises, ProcessResult, ProcessException, Return, Caught
  <2> QED
    BY <1>0, <2>1
<1>7. CASE Restart \/ NoneLeft
  BY <1>0, <1>7 DEF Restart, NoneLeft
<1>8. CASE Dequeue
  <2>1. pc = "idle" /\ pc' = "load" /\ caller' = caller /\ caller = "worker"
    BY <1>8 DEF Dequeue, TypeInv, CallerOK
  <2>2. (entry /\ UNCHANGED <<db, lives>>) \/ (db' = NoWrites /\ lives' = 0)
    BY <1>8 DEF Dequeue
  <2> QED
    BY <1>0, <2>1, <2>2 DEF NoWrites
<1>9. CASE ~Escapes /\ (Touch \/ Respond \/ Enqueued)
  BY <1>0, <1>9 DEF Touch, Respond, Enqueued
<1>10. CASE Acknowledge
  <2>1. entry' = FALSE
    BY <1>10, Zenon DEF Acknowledge, ToJsonMatches
  <2>2. UNCHANGED <<db, caller, lives>> /\ pc' = "idle"
    BY <1>10 DEF Acknowledge
  <2> QED
    BY <1>0, <2>1, <2>2
<1>11. CASE ~Escapes /\ Dies
  BY <1>11 DEF Dies
<1>12. CASE UNCHANGED vars
  BY <1>12 DEF vars
<1> QED
  BY <1>1, <1>2, <1>3, <1>4, <1>5, <1>6, <1>7, <1>8, <1>9, <1>10, <1>11, <1>12
  DEF Next, Step, Run

(* A write is repeated only after the process of the job has died, whatever *)
(* the hooks and the task raise or change (reliable_redis.py:41).           *)
THEOREM OnceHolds == Spec => []OncePerLife
<1>1. Init => OnceInv
  <2> SUFFICES ASSUME Init PROVE OnceInv
    OBVIOUS
  <2>1. raw /\ HeldOK
    BY Zenon DEF Init, HeldOK
  <2>2. WrittenOK
    BY DEF Init, WrittenOK, Base, NoWrites
  <2> QED
    BY <2>1, <2>2 DEF OnceInv
<1>2. TypeInv /\ OnceInv /\ [Next]_vars => OnceInv'
  BY HeldStep, WrittenStep DEF OnceInv
<1>3. TypeInv /\ OnceInv => OncePerLife
  BY DEF OnceInv, WrittenOK, Base, OncePerLife
<1> QED
  BY <1>1, <1>2, <1>3, TypeInit, TypeStep, PTL DEF Spec

-----------------------------------------------------------------------------
(* What the middleware is told.  Each loop has told the places it has       *)
(* passed; nothing has failed until the third one begins.                   *)

Told(hook, places) ==
  \A p \in middleware \cap places : hook \in Hooks[p] => <<p, hook>> \in told

Calm == \A p \in Places : <<p, "process_exception">> \notin told

Written(k) == db[k] > 0 \/ k \in pending

ToldOK ==
  /\ pc = "before" => Told("process_job", 1..(at - 1))
  /\ pc \in {"task", "write", "after", "failed", "returned"} => Told("process_job", Places)
  /\ pc = "after" => Told("process_result", (at + 1)..Len(Hooks))
  /\ pc = "failed" => Told("process_exception", (at + 1)..Len(Hooks))
  /\ pc = "returned" => Told(IF ret THEN "process_result" ELSE "process_exception", Places)

CalmOK ==
  /\ pc \in {"before", "task", "write", "after"} => Calm
  /\ pc = "returned" /\ ret => Calm

DoneOK ==
  /\ pc = "write" => \A k \in 1..(at - 1) : Written(k)
  /\ pc = "after" => \A k \in 1..Writes : Written(k)
  /\ pc = "returned" /\ ret => \A k \in 1..Writes : Written(k)

HonestInv == ToldOK /\ CalmOK /\ DoneOK

LEMMA HonestIsEnough == TypeInv /\ HonestInv => ReturnIsHonest
  BY Zenon DEF HonestInv, ToldOK, CalmOK, DoneOK, ReturnIsHonest, Told, Calm, Written,
     Has, TypeInv, TypeOK, DataOK

(* A call passes its place.                                                 *)
LEMMA CallIsTold ==
  ASSUME NEW hook \in {"process_job", "process_result", "process_exception"},
         NEW places, Told(hook, places), Call(hook)
  PROVE  \A p \in middleware \cap (places \cup {at}) :
           hook \in Hooks[p] => <<p, hook>> \in told'
<1>1. CASE Has(at, hook)
  <2>1. told' = told \cup {<<at, hook>>}
    BY <1>1 DEF Call
  <2> QED
    BY <2>1 DEF Told
<1>2. CASE ~Has(at, hook)
  <2>1. told' = told
    BY <1>2 DEF Call
  <2> QED
    BY <1>2, <2>1 DEF Told, Has
<1> QED
  BY <1>1, <1>2

LEMMA CallKeeps ==
  ASSUME NEW hook, NEW other, NEW places, Told(other, places), Call(hook), UNCHANGED middleware
  PROVE  Told(other, places)'
  BY DEF Told, Call

LEMMA CallIsCalm ==
  ASSUME NEW hook \in {"process_job", "process_result"}, Calm, Call(hook)
  PROVE  Calm'
<1>1. hook # "process_exception"
  OBVIOUS
<1>2. told' \subseteq told \cup {<<at, hook>>}
  BY DEF Call
<1> QED
  BY <1>1, <1>2 DEF Calm

LEMMA HonestStep == TypeInv /\ HonestInv /\ [Next]_vars => HonestInv'
<1> SUFFICES ASSUME TypeInv, HonestInv, [Next]_vars PROVE HonestInv'
  OBVIOUS
<1> USE DEF HonestInv, ToldOK, CalmOK, DoneOK, given, cache, queue, object, data
<1>0. /\ at \in Nat /\ Len(Hooks) \in Nat /\ Places = 1..Len(Hooks) /\ Writes = 2
      /\ pc \in {"after", "failed"} => at <= Len(Hooks)
      /\ middleware \subseteq Places /\ db \in [1..Writes -> Nat] /\ pending \subseteq 1..Writes
  BY Bounds DEF TypeInv, TypeOK, ControlOK, DataOK, Writes
(* A step that touches neither told nor db need only show where it goes.    *)
<1> DEFINE Same == UNCHANGED <<told, middleware>>
           Kept == UNCHANGED <<db, pending>>
<1>1. CASE Escapes
  BY <1>1 DEF Escapes
<1>2. CASE Load /\ ~Escapes
  <2>1. pc' = "before" /\ at' = 1 /\ told' = {}
    BY <1>2 DEF Load
  <2>2. 1..(1 - 1) = {}
    OBVIOUS
  <2> QED
    BY <2>1, <2>2 DEF Told, Calm
<1>3. CASE ProcessJob /\ ~Escapes
  <2>1. /\ pc = "before" /\ pc' = "before" /\ at' = at + 1 /\ Call("process_job")
        /\ UNCHANGED middleware
    BY <1>3 DEF ProcessJob
  <2>2. (1..(at - 1)) \cup {at} = 1..(at' - 1)
    BY <2>1 DEF TypeInv, AtOK
  <2>3. Told("process_job", 1..(at - 1))
    BY <2>1
  <2>4. Told("process_job", 1..(at - 1))'
    <3>1. \A p \in middleware \cap ((1..(at - 1)) \cup {at}) :
             "process_job" \in Hooks[p] => <<p, "process_job">> \in told'
      BY <2>1, <2>2, <2>3, CallIsTold
    <3> QED
      BY <2>1, <2>2, <2>3, <3>1 DEF Told
  <2>5. Calm'
    BY <2>1, CallIsCalm
  <2> QED
    BY <2>1, <2>4, <2>5
<1>4. CASE StartTask
  <2>1. pc \in {"before", "task"} /\ at = Len(Hooks) + 1 /\ Same /\ Kept
    BY <1>4 DEF StartTask
  <2>2. Told("process_job", Places) /\ Calm
    <3>1. 1..(at - 1) = Places
      BY <1>0, <2>1
    <3> QED
      BY <2>1, <3>1
  <2>3. Told("process_job", Places)' /\ Calm'
    BY <2>1, <2>2 DEF Told, Calm
  <2>4. \/ pc' = "task"
        \/ pc' = "write" /\ at' = 1
        \/ pc' = "failed" /\ at' = Len(Hooks)
    BY <1>4 DEF StartTask, Caught
  <2>5. 1..(1 - 1) = {} /\ (Len(Hooks) + 1)..Len(Hooks) = {}
    BY <1>0
  <2> QED
    BY <2>3, <2>4, <2>5 DEF Told
<1>5. CASE Write
  <2>1. /\ pc = "write" /\ pc' = "write" /\ at' = at + 1 /\ at \in 1..Writes /\ Same
        /\ \/ pending' = pending \cup {at} /\ db' = db
           \/ db' = [db EXCEPT ![at] = @ + 1] /\ pending' = pending
    BY <1>5 DEF Write, TypeInv, AtOK
  <2>2. ASSUME NEW k \in 1..(at' - 1) PROVE Written(k)'
    BY <1>0, <2>1 DEF Written
  <2>3. Told("process_job", Places)' /\ Calm'
    BY <2>1 DEF Told, Calm
  <2> QED
    BY <2>1, <2>2, <2>3
<1>6. CASE TaskReturns
  <2>1. /\ pc = "write" /\ at > Writes /\ pc' = "after" /\ at' = Len(Hooks) /\ Same
        /\ \/ Kept
           \/ db' = [k \in 1..Writes |-> IF k \in pending THEN db[k] + 1 ELSE db[k]]
    BY <1>6 DEF TaskReturns
  <2>2. ASSUME NEW k \in 1..Writes PROVE Written(k)'
    <3>1. Written(k)
      BY <1>0, <2>1
    <3> QED
      BY <1>0, <2>1, <3>1 DEF Written
  <2>3. Told("process_job", Places)' /\ Calm'
    BY <2>1 DEF Told, Calm
  <2>4. (Len(Hooks) + 1)..Len(Hooks) = {}
    BY <1>0
  <2> QED
    BY <2>1, <2>2, <2>3, <2>4 DEF Told
<1>7. ASSUME NEW kind \in Kinds, TaskRaises(kind), ~Escapes PROVE HonestInv'
  <2>1. pc = "write" /\ pc' = "failed" /\ at' = Len(Hooks) /\ Same
    BY <1>7 DEF TaskRaises, Caught
  <2>2. (Len(Hooks) + 1)..Len(Hooks) = {}
    BY <1>0
  <2> QED
    BY <2>1, <2>2 DEF Told
<1>8. CASE ProcessResult /\ ~Escapes
  <2>1. pc = "after" /\ at > 0 /\ UNCHANGED middleware /\ Kept
    BY <1>8 DEF ProcessResult
  <2>2. CASE pc' = "failed"
    <3>1. at' = Len(Hooks) /\ told' = told
      BY <1>8, <2>1, <2>2 DEF ProcessResult, Caught
    <3>2. (Len(Hooks) + 1)..Len(Hooks) = {}
      BY <1>0
    <3> QED
      BY <2>1, <2>2, <3>1, <3>2 DEF Told
  <2>3. CASE pc' # "failed"
    <3>1. pc' = "after" /\ at' = at - 1 /\ Call("process_result")
      BY <1>8, <2>1, <2>3 DEF ProcessResult, Caught
    <3>2. ((at + 1)..Len(Hooks)) \cup {at} = (at' + 1)..Len(Hooks)
      BY <1>0, <2>1, <3>1
    <3>3. Told("process_result", (at + 1)..Len(Hooks))'
      <4>1. \A p \in middleware \cap (((at + 1)..Len(Hooks)) \cup {at}) :
               "process_result" \in Hooks[p] => <<p, "process_result">> \in told'
        BY <2>1, <3>1, <3>2, CallIsTold
      <4> QED
        BY <2>1, <3>1, <3>2, <4>1 DEF Told
    <3>4. Told("process_job", Places)'
      BY <2>1, <3>1, CallKeeps
    <3>5. Calm'
      BY <2>1, <3>1, CallIsCalm
    <3> QED
      BY <2>1, <3>1, <3>3, <3>4, <3>5 DEF Written
  <2> QED
    BY <2>2, <2>3
<1>9. CASE ProcessException /\ ~Escapes
  <2>1. /\ pc = "failed" /\ pc' = "failed" /\ at > 0 /\ at' = at - 1 /\ UNCHANGED middleware
        /\ Call("process_exception")
    BY <1>9 DEF ProcessException
  <2>2. ((at + 1)..Len(Hooks)) \cup {at} = (at' + 1)..Len(Hooks)
    BY <1>0, <2>1
  <2>3. Told("process_exception", (at + 1)..Len(Hooks))'
    <3>1. \A p \in middleware \cap (((at + 1)..Len(Hooks)) \cup {at}) :
             "process_exception" \in Hooks[p] => <<p, "process_exception">> \in told'
      BY <2>1, <2>2, CallIsTold
    <3> QED
      BY <2>1, <2>2, <3>1 DEF Told
  <2>4. Told("process_job", Places)'
    BY <2>1, CallKeeps
  <2> QED
    BY <2>1, <2>3, <2>4
<1>10. CASE Return
  <2>1. /\ pc \in {"after", "failed"} /\ at = 0 /\ ret' = (pc = "after") /\ pc' = "returned"
        /\ Same /\ Kept
    BY <1>10 DEF Return
  <2>2. (0 + 1)..Len(Hooks) = Places
    BY <1>0
  <2>3. Told("process_job", Places)'
    BY <2>1 DEF Told
  <2>4. CASE pc = "after"
    <3>1. Told("process_result", Places)' /\ Calm' /\ ret'
      BY <2>1, <2>2, <2>4 DEF Told, Calm
    <3> QED
      BY <2>1, <2>3, <2>4, <3>1 DEF Written
  <2>5. CASE pc = "failed"
    <3>1. Told("process_exception", Places)' /\ ~ret'
      BY <2>1, <2>2, <2>5 DEF Told
    <3> QED
      BY <2>1, <2>3, <2>5, <3>1
  <2> QED
    BY <2>1, <2>4, <2>5
<1>11. CASE ~Escapes /\ (Restart \/ Dequeue \/ NoneLeft \/ Touch \/ Acknowledge \/ Respond \/ Enqueued)
  <2>1. pc' \in {"idle", "load", "end", "ack"}
    BY <1>11 DEF Restart, Dequeue, NoneLeft, Touch, Acknowledge, Respond, Enqueued
  <2> QED
    BY <2>1
<1>12. CASE ~Escapes /\ Dies
  BY <1>12 DEF Dies
<1>13. CASE UNCHANGED vars
  BY <1>13 DEF vars, Told, Calm, Written
<1> QED
  BY <1>1, <1>2, <1>3, <1>4, <1>5, <1>6, <1>7, <1>8, <1>9, <1>10, <1>11, <1>12, <1>13
  DEF Next, Step, Run

(* run() returns True only when every middleware was told the result and    *)
(* all is written, False only when every one was told of an exception       *)
(* (job.py:71-117), for any number of middleware that may raise anywhere.   *)
THEOREM HonestHolds == Spec => []ReturnIsHonest
<1>1. Init => HonestInv
  BY DEF Init, HonestInv, ToldOK, CalmOK, DoneOK
<1> QED
  BY <1>1, TypeInit, TypeStep, HonestStep, HonestIsEnough, PTL DEF Spec
=============================================================================
