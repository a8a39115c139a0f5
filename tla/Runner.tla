------------------------------- MODULE Runner -------------------------------
(***************************************************************************)
(* The master process of a machine (runner.py) and its workers: start-up,  *)
(* the loop that starts missing workers, SIGTERM, and the orderly end.     *)
(***************************************************************************)
EXTENDS Worker

VARIABLES
  rpc,       \* where the master is
  turn,      \* the worker its current `for` loop is at
  running    \* `running`, cleared by the handler of SIGTERM

runnerVars == <<rpc, turn, running>>
vars == <<workerVars, runnerVars>>

RunnerTypeOK ==
  /\ WorkerTypeOK
  /\ rpc \in {"startup", "check", "loop", "sleep", "signal", "wait", "done", "killed"}
  /\ turn \in 1..(Count + 1) /\ running \in BOOLEAN

Init ==
  /\ WorkerInit
  /\ rpc = "startup" /\ turn = 1 /\ running = TRUE

GoTo(next) == rpc' = next /\ turn' = 1

(* backend.startup for each queue; only then is SIGTERM handled. *)
StartedUp ==
  /\ rpc = "startup"
  /\ GoTo("check")
  /\ UNCHANGED <<workerVars, running>>

(* Mutant: `while True` *)
Check_forever ==
  /\ rpc = "check"
  /\ GoTo("loop")
  /\ UNCHANGED <<workerVars, running>>

(* `while running` *)
Check ==
  /\ rpc = "check"
  /\ GoTo(IF running THEN "loop" ELSE "signal")
  /\ UNCHANGED <<workerVars, running>>

(* Mutant: only a worker that never ran is started. *)
EnsureWorker_once ==
  /\ rpc = "loop" /\ turn <= Count
  /\ IF pc[turn] = "none" THEN Start(turn) ELSE UNCHANGED workerVars
  /\ turn' = turn + 1
  /\ UNCHANGED <<rpc, running>>

(* The body of the loop for one worker: poll, and start it when missing. *)
EnsureWorker ==
  /\ rpc = "loop" /\ turn <= Count
  /\ IF Alive(turn) THEN UNCHANGED workerVars ELSE Start(turn)
  /\ turn' = turn + 1
  /\ UNCHANGED <<rpc, running>>

LoopEnds ==
  /\ rpc = "loop" /\ turn > Count
  /\ GoTo("sleep")
  /\ UNCHANGED <<workerVars, running>>

Wake ==
  /\ rpc = "sleep"
  /\ GoTo("check")
  /\ UNCHANGED <<workerVars, running>>

(* signal_workers(SIGUSR2); a worker never started is None. *)
SignalWorker ==
  /\ rpc = "signal" /\ turn <= Count
  /\ IF Alive(turn) THEN Sigusr2(turn) ELSE UNCHANGED workerVars
  /\ turn' = turn + 1
  /\ UNCHANGED <<rpc, running>>

AllSignalled ==
  /\ rpc = "signal" /\ turn > Count
  /\ GoTo("wait")
  /\ UNCHANGED <<workerVars, running>>

(* Mutant: poll() for wait(). *)
WaitFor_poll ==
  /\ rpc = "wait" /\ turn <= Count
  /\ turn' = turn + 1
  /\ UNCHANGED <<workerVars, rpc, running>>

WaitFor ==
  /\ rpc = "wait" /\ turn <= Count
  /\ ~Alive(turn)
  /\ turn' = turn + 1
  /\ UNCHANGED <<workerVars, rpc, running>>

Finished ==
  /\ rpc = "wait" /\ turn > Count
  /\ GoTo("done")
  /\ UNCHANGED <<workerVars, running>>

(* SIGTERM ends a master that is still starting up. *)
Sigterm ==
  /\ \/ rpc = "startup" /\ GoTo("killed") /\ UNCHANGED running
     \/ rpc \notin {"startup", "done", "killed"} /\ running
        /\ running' = FALSE /\ UNCHANGED <<rpc, turn>>
  /\ UNCHANGED workerVars

RunnerStep ==
  \/ StartedUp \/ Check \/ EnsureWorker \/ LoopEnds \/ Wake
  \/ SignalWorker \/ AllSignalled \/ WaitFor \/ Finished

Next ==
  \/ RunnerStep \/ Sigterm
  \/ \E w \in Workers : (WorkerStep(w) \/ Sigalrm(w) \/ Crash(w)) /\ UNCHANGED runnerVars

Spec == Init /\ [][Next]_vars

(* The master and its workers are scheduled, and alarms go off. *)
Fairness ==
  /\ WF_vars(RunnerStep)
  /\ \A w \in Workers :
       /\ WF_vars(WorkerStep(w) /\ UNCHANGED runnerVars)
       /\ WF_vars(Sigalrm(w) /\ UNCHANGED runnerVars)

FairSpec == Spec /\ Fairness

-----------------------------------------------------------------------------
(* Properties. *)

(* task.py:58-59: by default a job runs to completion when the queue        *)
(* processor is shut down; SIGUSR2 ends no worker in the middle of one.     *)
ShutdownSparesJobs ==
  [][\A w \in Workers : SignalWorker /\ turn = w /\ pc[w] \in {"run", "ran"} /\ ~held[w].stop
       => pc'[w] = pc[w]]_vars

(* An alarm is scheduled for the job in hand only: none set for an earlier  *)
(* job can go off during a later one, or while a job is being fetched.      *)
AlarmIsForThisJob ==
  \A w \in Workers : alarm[w] =>
    \/ pc[w] \in {"run", "ran"} /\ held[w].timed
    \/ pc[w] \in {"top", "process"}

(* A worker told to stop starts at most one more job (worker.py:157-158).   *)
OneMoreJobAtMost == \A w \in Workers : more[w] <= 1

(* When the master ends by itself it leaves no worker behind.               *)
NoneLeftBehind == rpc = "done" => \A w \in Workers : ~Alive(w)

(* A machine told to terminate does so, whatever its workers are doing,     *)
(* provided that slow jobs have a timeout.                                  *)
Terminates == rpc = "killed" \/ ~running ~> rpc \in {"done", "killed"}

(* Until then a worker that has died is started again.                      *)
WorkersRestart ==
  \A w \in Workers : pc[w] = "dead" /\ running ~> pc[w] # "dead" \/ ~running

(* Every job that is begun is done with, its worker being killed or not.    *)
JobsEnd == \A w \in Workers : pc[w] = "run" ~> pc[w] # "run"
=============================================================================
