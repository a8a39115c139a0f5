---------------------------- MODULE RunnerProofs ----------------------------
(***************************************************************************)
(* Proofs about the master and its workers (Runner, Worker).               *)
(***************************************************************************)
EXTENDS Runner, TLAPS

USE WorkerAssumption

(* A worker past the top of its loop has items left to do before it ends.  *)
ItemsLeft ==
  \A w \in Workers :
    pc[w] \in {"process", "dequeue", "got", "run", "ran"} => items[w] <= ItemLimit

(* SIGUSR2 is handled during a job exactly when the job is not to be killed *)
(* on a stop, and a worker without a job yet has the default action.        *)
HandlerFits ==
  \A w \in Workers :
    /\ pc[w] \in {"boot", "dequeue", "got"} => usr2[w] = "default"
    /\ pc[w] \in {"run", "ran"} => usr2[w] = (IF held[w].stop THEN "default" ELSE "handler")

(* A worker that was told to stop has cleared `self.running`; what it has   *)
(* started since, it has not started before it passed the top again.        *)
ToldStops ==
  \A w \in Workers :
    /\ told[w] => ~going[w]
    /\ ~told[w] => more[w] = 0
    /\ pc[w] \in {"process", "dequeue", "got"} => more[w] = 0

(* The workers that the master has waited for are not there any more.       *)
WaitedFor == rpc = "wait" => \A w \in Workers : w < turn => ~Alive(w)

RunnerIInv ==
  /\ RunnerTypeOK
  /\ ItemsLeft
  /\ HandlerFits
  /\ ToldStops
  /\ WaitedFor
  /\ AlarmIsForThisJob
  /\ OneMoreJobAtMost
  /\ NoneLeftBehind

(* What the loop of a worker keeps, for that worker and for the others.     *)
WorkerIInv ==
  /\ WorkerTypeOK
  /\ ItemsLeft
  /\ HandlerFits
  /\ ToldStops
  /\ AlarmIsForThisJob
  /\ OneMoreJobAtMost

(* A process that ends keeps what is known of it.                           *)
LEMMA EndsKeeps ==
  ASSUME WorkerIInv, NEW w \in Workers, Ends(w), crashes' \in 0..MaxCrashes
  PROVE  WorkerIInv'
  BY DEF WorkerIInv, WorkerTypeOK, Workers, ItemsLeft, HandlerFits, ToldStops,
         AlarmIsForThisJob, OneMoreJobAtMost, Ends

(* A new process starts from nothing.                                       *)
LEMMA StartKeeps ==
  ASSUME WorkerIInv, NEW w \in Workers, Start(w)
  PROVE  WorkerIInv'
  BY DEF WorkerIInv, WorkerTypeOK, Workers, ItemsLeft, HandlerFits, ToldStops,
         AlarmIsForThisJob, OneMoreJobAtMost, Start

(* The loop of run(), one step at a time.                                   *)
LEMMA LoopKeeps ==
  ASSUME WorkerIInv, NEW w \in Workers, WorkerStep(w)
  PROVE  WorkerIInv'
<1> USE DEF WorkerIInv, WorkerTypeOK, Workers, ItemsLeft, HandlerFits, ToldStops,
            AlarmIsForThisJob, OneMoreJobAtMost
<1>1. CASE Boot(w)
  BY <1>1 DEF Boot
<1>2. CASE Leave(w)
  BY <1>2, EndsKeeps DEF Leave
<1>3. CASE Continue(w)
  BY <1>3 DEF Continue
<1>4. CASE AllowStop(w)
  BY <1>4 DEF AllowStop
<1>5. CASE Dequeue(w)
  <2>1. PICK j \in Jobs : held' = [held EXCEPT ![w] = j] /\ (held[w] # NoJob => j = held[w])
    BY <1>5 DEF Dequeue
  <2>2. /\ pc[w] = "dequeue" /\ pc' = [pc EXCEPT ![w] = "got"]
        /\ UNCHANGED <<usr2, going, alarm, items, rested, told, more, crashes>>
    BY <1>5 DEF Dequeue
  <2>3. WorkerTypeOK'
    BY <2>1, <2>2
  <2>4. ItemsLeft' /\ HandlerFits'
    BY <2>1, <2>2
  <2>5. ToldStops' /\ AlarmIsForThisJob' /\ OneMoreJobAtMost'
    BY <2>1, <2>2
  <2> QED
    BY <2>3, <2>4, <2>5
<1>6. CASE DequeueNone(w)
  <2>1. /\ pc[w] = "dequeue" /\ held[w] = NoJob /\ pc' = [pc EXCEPT ![w] = "top"]
        /\ items' = [items EXCEPT ![w] = items[w] + 1]
        /\ rested' = [rested EXCEPT ![w] = TRUE]
        /\ UNCHANGED <<held, usr2, going, alarm, told, more, crashes>>
    BY <1>6 DEF DequeueNone
  <2>2. WorkerTypeOK'
    <3>1. items[w] + 1 \in 0..(ItemLimit + 1)
      BY <2>1
    <3>2. items' \in [Workers -> 0..(ItemLimit + 1)] /\ rested' \in [Workers -> BOOLEAN]
      BY <2>1, <3>1
    <3>3. pc' \in [Workers -> {"none", "dead", "boot", "top", "process", "dequeue", "got", "run", "ran"}]
      BY <2>1
    <3>4. ASSUME NEW v \in Workers, pc'[v] \in {"got", "run", "ran"}
          PROVE  held'[v] # NoJob
      BY <2>1, <3>4
    <3> QED
      BY <2>1, <3>2, <3>3, <3>4
  <2>3. ItemsLeft' /\ HandlerFits'
    BY <2>1
  <2>4. ToldStops' /\ AlarmIsForThisJob' /\ OneMoreJobAtMost'
    BY <2>1
  <2> QED
    BY <2>2, <2>3, <2>4
<1>7. CASE StartJob(w)
  <2>1. /\ pc[w] = "got" /\ pc' = [pc EXCEPT ![w] = "run"]
        /\ usr2' = [usr2 EXCEPT ![w] = IF held[w].stop THEN "default" ELSE "handler"]
        /\ alarm' = [alarm EXCEPT ![w] = held[w].timed]
        /\ more' = [more EXCEPT ![w] = IF told[w] THEN @ + 1 ELSE @]
        /\ UNCHANGED <<going, items, rested, told, held, crashes>>
    BY <1>7 DEF StartJob
  <2>2. held[w] \in [stop: BOOLEAN, timed: BOOLEAN, slow: BOOLEAN]
    BY <2>1
  <2>3. WorkerTypeOK'
    BY <2>1, <2>2
  <2>4. ItemsLeft' /\ HandlerFits'
    BY <2>1, <2>2
  <2>5. ToldStops' /\ OneMoreJobAtMost'
    BY <2>1, <2>2
  <2>6. AlarmIsForThisJob'
    <3>1. alarm' = [alarm EXCEPT ![w] = held[w].timed] /\ alarm \in [Workers -> BOOLEAN]
      BY <2>1
    <3>2. alarm'[w] = held'[w].timed /\ \A v \in Workers \ {w} : alarm'[v] = alarm[v]
      BY <3>1, <2>1, Zenon
    <3>3. pc'[w] = "run" /\ \A v \in Workers \ {w} : pc'[v] = pc[v]
      BY <2>1
    <3>4. held' = held
      BY <2>1
    <3> SUFFICES ASSUME NEW v \in Workers, alarm'[v]
                 PROVE  \/ pc'[v] \in {"run", "ran"} /\ held'[v].timed
                        \/ pc'[v] \in {"top", "process"}
      OBVIOUS
    <3>5. CASE v = w
      BY <3>2, <3>3, <3>5
    <3>6. CASE v # w
      BY <3>2, <3>3, <3>4, <3>6
    <3> QED
      BY <3>5, <3>6
  <2> QED
    BY <2>3, <2>4, <2>5, <2>6
<1>8. CASE JobReturns(w)
  BY <1>8 DEF JobReturns
<1>9. CASE Acknowledge(w)
  <2>1. /\ pc[w] = "ran" /\ pc' = [pc EXCEPT ![w] = "top"]
        /\ held' = [held EXCEPT ![w] = NoJob]
        /\ items' = [items EXCEPT ![w] = @ + 1]
        /\ rested' = [rested EXCEPT ![w] = FALSE]
        /\ UNCHANGED <<usr2, going, alarm, told, more, crashes>>
    BY <1>9 DEF Acknowledge
  <2>2. WorkerTypeOK'
    BY <2>1
  <2>3. ItemsLeft' /\ HandlerFits'
    BY <2>1
  <2>4. ToldStops' /\ AlarmIsForThisJob' /\ OneMoreJobAtMost'
    BY <2>1
  <2> QED
    BY <2>2, <2>3, <2>4
<1> QED
  BY <1>1, <1>2, <1>3, <1>4, <1>5, <1>6, <1>7, <1>8, <1>9 DEF WorkerStep

(* A signal or a crash either ends the process or, with a handler in place, *)
(* clears `self.running`.                                                   *)
LEMMA SignalKeeps ==
  ASSUME WorkerIInv, NEW w \in Workers, Sigusr2(w) \/ Sigalrm(w) \/ Crash(w)
  PROVE  WorkerIInv'
<1>0. crashes \in 0..MaxCrashes
  BY DEF WorkerIInv, WorkerTypeOK
<1>1. CASE Ends(w) /\ UNCHANGED crashes
  BY <1>0, <1>1, EndsKeeps
<1>2. CASE Crash(w)
  BY <1>0, <1>2, EndsKeeps DEF Crash
<1>3. CASE Sigusr2(w) /\ usr2[w] # "default"
  <2>1. /\ pc[w] \notin {"none", "dead", "boot", "dequeue", "got"}
        /\ going' = [going EXCEPT ![w] = FALSE]
        /\ told' = [told EXCEPT ![w] = TRUE]
        /\ UNCHANGED <<pc, usr2, alarm, items, rested, more, held, crashes>>
    BY <1>3 DEF Sigusr2, Alive, WorkerIInv, HandlerFits
  <2> QED
    BY <2>1 DEF WorkerIInv, WorkerTypeOK, Workers, ItemsLeft, HandlerFits, ToldStops,
         AlarmIsForThisJob, OneMoreJobAtMost
<1> QED
  BY <1>1, <1>2, <1>3 DEF Sigusr2, Sigalrm

(* A step of the master alone.                                              *)
LEMMA WorkersUnchanged ==
  ASSUME WorkerIInv, UNCHANGED workerVars
  PROVE  WorkerIInv'
<1>1. UNCHANGED <<pc, usr2, going, alarm, items, rested, told, more, held, crashes>>
  BY DEF workerVars, processes
<1> QED
  BY <1>1 DEF WorkerIInv, WorkerTypeOK, Workers, ItemsLeft, HandlerFits, ToldStops,
       AlarmIsForThisJob, OneMoreJobAtMost

(* Whatever a worker does by itself, a worker that is not there stays away. *)
LEMMA NoneReturns ==
  ASSUME NEW w \in Workers, WorkerStep(w) \/ Sigalrm(w) \/ Crash(w), WorkerTypeOK, NEW v \in Workers, ~Alive(v)
  PROVE  ~Alive(v)'
<1>1. \E p \in {"dead", "top", "process", "dequeue", "got", "run", "ran"} :
         pc' = [pc EXCEPT ![w] = p] /\ (p # "dead" => Alive(w))
  BY DEF WorkerStep, Boot, Leave, Continue, AllowStop, Dequeue, DequeueNone, StartJob, JobReturns,
         Acknowledge, Sigalrm, Crash, Ends, Alive, WorkerTypeOK
<1> QED
  BY <1>1 DEF Alive, WorkerTypeOK

(* The inductive invariant, the workers' part and the master's.             *)
LEMMA RunnerIInvParts == RunnerIInv <=>
  /\ WorkerIInv /\ WaitedFor /\ NoneLeftBehind
  /\ rpc \in {"startup", "check", "loop", "sleep", "signal", "wait", "done", "killed"}
  /\ turn \in 1..(Count + 1) /\ running \in BOOLEAN
  BY DEF RunnerIInv, WorkerIInv, RunnerTypeOK

(* It holds before the first worker is started ...                          *)
LEMMA RunnerInit == Init => RunnerIInv
<1> SUFFICES ASSUME Init PROVE RunnerIInv
  OBVIOUS
<1> USE DEF Init, WorkerInit
<1>1. RunnerTypeOK
  <2>1. 0 \in 0..(ItemLimit + 1) /\ 0 \in 0..MaxCrashes /\ 1 \in 1..(Count + 1)
    OBVIOUS
  <2>2. WorkerTypeOK
    BY <2>1 DEF WorkerTypeOK
  <2> QED
    BY <2>1, <2>2 DEF RunnerTypeOK
<1>2. ItemsLeft /\ HandlerFits /\ ToldStops /\ AlarmIsForThisJob /\ OneMoreJobAtMost
  BY DEF ItemsLeft, HandlerFits, ToldStops, AlarmIsForThisJob, OneMoreJobAtMost
<1>3. WaitedFor /\ NoneLeftBehind
  BY DEF WaitedFor, NoneLeftBehind
<1> QED
  BY <1>1, <1>2, <1>3 DEF RunnerIInv

(* ... and every step of the master and of the workers keeps it.            *)
LEMMA RunnerNext == RunnerIInv /\ [Next]_vars => RunnerIInv'
<1> SUFFICES ASSUME RunnerIInv, [Next]_vars PROVE RunnerIInv'
  OBVIOUS
<1>0. /\ WorkerIInv /\ WaitedFor /\ NoneLeftBehind
      /\ rpc \in {"startup", "check", "loop", "sleep", "signal", "wait", "done", "killed"}
      /\ turn \in 1..(Count + 1) /\ running \in BOOLEAN
  BY RunnerIInvParts
<1>t. WorkerTypeOK
  BY <1>0 DEF WorkerIInv
(* It is enough to look at the workers and at the master apart. *)
<1> SUFFICES
      /\ WorkerIInv' /\ WaitedFor' /\ NoneLeftBehind'
      /\ rpc' \in {"startup", "check", "loop", "sleep", "signal", "wait", "done", "killed"}
      /\ turn' \in 1..(Count + 1) /\ running' \in BOOLEAN
  BY DEF RunnerIInv, WorkerIInv, RunnerTypeOK
<1> DEFINE Master == /\ rpc' \in {"startup", "check", "loop", "sleep", "signal", "wait", "done", "killed"}
                     /\ turn' \in 1..(Count + 1) /\ running' \in BOOLEAN
<1>2. CASE StartedUp
  BY <1>0, <1>2, WorkersUnchanged DEF StartedUp, GoTo, WaitedFor, NoneLeftBehind
<1>3. CASE Check
  BY <1>0, <1>3, WorkersUnchanged DEF Check, GoTo, WaitedFor, NoneLeftBehind
<1>4. CASE EnsureWorker
  <2>1. turn \in Workers
    BY <1>0, <1>4 DEF EnsureWorker, Workers
  <2>2. WorkerIInv'
    BY <1>0, <1>4, <2>1, WorkersUnchanged, StartKeeps DEF EnsureWorker
  <2> QED
    BY <1>0, <1>4, <2>2 DEF EnsureWorker, WaitedFor, NoneLeftBehind
<1>5. CASE LoopEnds
  BY <1>0, <1>5, WorkersUnchanged DEF LoopEnds, GoTo, WaitedFor, NoneLeftBehind
<1>6. CASE Wake
  BY <1>0, <1>6, WorkersUnchanged DEF Wake, GoTo, WaitedFor, NoneLeftBehind
<1>7. CASE SignalWorker
  <2>1. turn \in Workers
    BY <1>0, <1>7 DEF SignalWorker, Workers
  <2>2. WorkerIInv'
    BY <1>0, <1>7, <2>1, WorkersUnchanged, SignalKeeps DEF SignalWorker
  <2> QED
    BY <1>0, <1>7, <2>2 DEF SignalWorker, WaitedFor, NoneLeftBehind
<1>8. CASE AllSignalled
  BY <1>0, <1>8, WorkersUnchanged DEF AllSignalled, GoTo, WaitedFor, NoneLeftBehind, Workers
<1>9. CASE WaitFor
  <2>1. /\ rpc = "wait" /\ turn <= Count /\ ~Alive(turn) /\ turn' = turn + 1
        /\ UNCHANGED <<rpc, running>> /\ UNCHANGED workerVars
    BY <1>9 DEF WaitFor
  <2>2. pc' = pc
    BY <2>1 DEF workerVars, processes
  <2>3. WaitedFor' /\ NoneLeftBehind'
    BY <1>0, <2>1, <2>2 DEF WaitedFor, NoneLeftBehind, Alive, Workers
  <2> QED
    BY <1>0, <2>1, <2>3, WorkersUnchanged
<1>10. CASE Finished
  <2>1. /\ rpc = "wait" /\ turn > Count /\ rpc' = "done" /\ turn' = 1
        /\ UNCHANGED running /\ UNCHANGED workerVars
    BY <1>10 DEF Finished, GoTo
  <2>2. pc' = pc
    BY <2>1 DEF workerVars, processes
  <2>3. WaitedFor' /\ NoneLeftBehind'
    BY <1>0, <2>1, <2>2 DEF WaitedFor, NoneLeftBehind, Alive, Workers
  <2> QED
    BY <1>0, <2>1, <2>3, WorkersUnchanged
<1>11. CASE Sigterm
  <2>1. UNCHANGED workerVars /\ (\/ rpc' = "killed" /\ turn' = 1 /\ running' = running
                                 \/ rpc' = rpc /\ turn' = turn /\ running' = FALSE)
    BY <1>11 DEF Sigterm, GoTo
  <2>2. pc' = pc
    BY <2>1 DEF workerVars, processes
  <2>3. WaitedFor' /\ NoneLeftBehind'
    BY <1>0, <2>1, <2>2 DEF WaitedFor, NoneLeftBehind, Alive
  <2>4. WorkerIInv'
    BY <1>0, <2>1, WorkersUnchanged
  <2>5. CASE rpc' = "killed" /\ turn' = 1 /\ running' = running
    BY <1>0, <2>3, <2>4, <2>5
  <2>6. CASE rpc' = rpc /\ turn' = turn /\ running' = FALSE
    BY <1>0, <2>3, <2>4, <2>6
  <2> QED
    BY <2>1, <2>5, <2>6
<1>12. ASSUME NEW w \in Workers, WorkerStep(w) \/ Sigalrm(w) \/ Crash(w), UNCHANGED runnerVars
       PROVE  WorkerIInv' /\ WaitedFor' /\ NoneLeftBehind' /\ Master
  <2>1. WorkerIInv'
    BY <1>0, <1>12, LoopKeeps, SignalKeeps
  <2>2. UNCHANGED <<rpc, turn, running>>
    BY <1>12 DEF runnerVars
  <2>3. \A v \in Workers : ~Alive(v) => ~Alive(v)'
    BY <1>12, <1>t, NoneReturns
  <2>4. WaitedFor' /\ NoneLeftBehind'
    BY <1>0, <2>2, <2>3 DEF WaitedFor, NoneLeftBehind
  <2> QED
    BY <1>0, <2>1, <2>2, <2>4
<1>13. CASE UNCHANGED vars
  <2>1. UNCHANGED workerVars /\ UNCHANGED <<rpc, turn, running>>
    BY <1>13 DEF vars, runnerVars
  <2>2. pc' = pc
    BY <2>1 DEF workerVars, processes
  <2>3. WaitedFor' /\ NoneLeftBehind'
    BY <1>0, <2>1, <2>2 DEF WaitedFor, NoneLeftBehind, Alive
  <2> QED
    BY <1>0, <2>1, <2>3, WorkersUnchanged
<1> QED
  BY <1>2, <1>3, <1>4, <1>5, <1>6, <1>7, <1>8, <1>9, <1>10, <1>11, <1>12, <1>13
     DEF Next, RunnerStep

-----------------------------------------------------------------------------

(* The inductive invariant: what the worker loop keeps (worker.py) and what *)
(* the master knows of the workers it has waited for (runner.py).           *)
THEOREM RunnerInductive == Spec => []RunnerIInv
  BY RunnerInit, RunnerNext, PTL DEF Spec

(* RunnerTypeOK: the master and every worker are always at a known place,   *)
(* with a job in hand from dequeue to processed_job (worker.py).            *)
THEOREM RunnerTypeCorrect == Spec => []RunnerTypeOK
<1>1. RunnerIInv => RunnerTypeOK
  BY DEF RunnerIInv
<1> QED
  BY <1>1, RunnerInductive, PTL

(* AlarmIsForThisJob: the alarm that the worker sets for a job is cancelled *)
(* or replaced before another job is fetched (configure_cancellation).      *)
THEOREM AlarmsAreForTheJobInHand == Spec => []AlarmIsForThisJob
<1>1. RunnerIInv => AlarmIsForThisJob
  BY DEF RunnerIInv
<1> QED
  BY <1>1, RunnerInductive, PTL

(* OneMoreJobAtMost: after SIGUSR2 was handled, a worker starts at most the *)
(* one job it may already be on its way to (worker.py:157-158).             *)
THEOREM ToldWorkersStop == Spec => []OneMoreJobAtMost
<1>1. RunnerIInv => OneMoreJobAtMost
  BY DEF RunnerIInv
<1> QED
  BY <1>1, RunnerInductive, PTL

(* NoneLeftBehind: the master returns only when every worker has ended.     *)
THEOREM MasterWaitsForAll == Spec => []NoneLeftBehind
<1>1. RunnerIInv => NoneLeftBehind
  BY DEF RunnerIInv
<1> QED
  BY <1>1, RunnerInductive, PTL

(* ShutdownSparesJobs: the SIGUSR2 of an orderly shutdown ends no worker in *)
(* the middle of a job that is not marked sigkill_on_stop.                  *)
THEOREM ShutdownLetsJobsFinish == Spec => ShutdownSparesJobs
<1>1. RunnerIInv /\ [Next]_vars =>
        [\A w \in Workers : SignalWorker /\ turn = w /\ pc[w] \in {"run", "ran"} /\ ~held[w].stop
           => pc'[w] = pc[w]]_vars
  <2> SUFFICES ASSUME RunnerIInv, NEW w \in Workers, SignalWorker, turn = w,
                      pc[w] \in {"run", "ran"}, ~held[w].stop
               PROVE  pc'[w] = pc[w]
    OBVIOUS
  <2>1. usr2[w] = "handler" /\ Alive(w)
    BY DEF RunnerIInv, HandlerFits, Alive
  <2> QED
    BY <2>1 DEF SignalWorker, Sigusr2
<1> QED
  BY <1>1, RunnerInductive, PTL DEF Spec, ShutdownSparesJobs
=============================================================================
