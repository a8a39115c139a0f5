------------------------------- MODULE Worker -------------------------------
(***************************************************************************)
(* The worker processes of one machine (worker.py): the loop over jobs,    *)
(* and what SIGUSR2, SIGALRM and a crash do to it at each point.  There is *)
(* at most one process for each worker number; Runner starts and signals   *)
(* them.                                                                   *)
(*                                                                         *)
(* A signal is taken between two steps.  Its default action ends the       *)
(* process; the handler of SIGUSR2 clears `self.running`; the handler of   *)
(* SIGALRM ends the process too.                                           *)
(***************************************************************************)
EXTENDS Naturals

CONSTANTS
  Count,       \* the worker numbers of the machine are 1..Count
  Jobs,        \* kinds of jobs: [stop: sigkill_on_stop, timed: has a timeout,
               \*                 slow: does not end by itself]
  NoJob,
  ItemLimit,   \* 1000 in the code
  MaxCrashes   \* how many workers may crash

ASSUME WorkerAssumption ==
  /\ Jobs \subseteq [stop: BOOLEAN, timed: BOOLEAN, slow: BOOLEAN]
  /\ NoJob \notin Jobs
  /\ Count \in Nat /\ ItemLimit \in Nat /\ MaxCrashes \in Nat

Workers == 1..Count

VARIABLES
  pc,        \* where the process is
  usr2,      \* the disposition of SIGUSR2
  going,     \* self.running
  alarm,     \* whether an alarm is scheduled
  held,      \* the job in the worker's processing list
  items,     \* item_count
  rested,    \* whether the last call of process() found no job
  crashes,
  told,      \* history: whether this process got a SIGUSR2
  more       \* history: the jobs it has started since

processes == <<pc, usr2, going, alarm, items, rested, told, more>>
workerVars == <<processes, held, crashes>>

Alive(w) == pc[w] \notin {"none", "dead"}

WorkerTypeOK ==
  /\ pc \in [Workers -> {"none", "dead", "boot", "top", "process", "dequeue", "got", "run", "ran"}]
  /\ usr2 \in [Workers -> {"default", "handler"}]
  /\ going \in [Workers -> BOOLEAN] /\ alarm \in [Workers -> BOOLEAN]
  /\ held \in [Workers -> Jobs \cup {NoJob}]
  /\ items \in [Workers -> 0..(ItemLimit + 1)] /\ rested \in [Workers -> BOOLEAN]
  /\ crashes \in 0..MaxCrashes
  /\ told \in [Workers -> BOOLEAN] /\ more \in [Workers -> Nat]
  /\ \A w \in Workers : pc[w] \in {"got", "run", "ran"} => held[w] # NoJob

WorkerInit ==
  /\ pc = [w \in Workers |-> "none"]
  /\ usr2 = [w \in Workers |-> "default"]
  /\ going = [w \in Workers |-> TRUE]
  /\ alarm = [w \in Workers |-> FALSE]
  /\ held = [w \in Workers |-> NoJob]
  /\ items = [w \in Workers |-> 0]
  /\ rested = [w \in Workers |-> FALSE]
  /\ crashes = 0
  /\ told = [w \in Workers |-> FALSE]
  /\ more = [w \in Workers |-> 0]

(* A new process has the default signal handling and `self.running` set. *)
Start(w) ==
  /\ pc' = [pc EXCEPT ![w] = "boot"]
  /\ usr2' = [usr2 EXCEPT ![w] = "default"]
  /\ going' = [going EXCEPT ![w] = TRUE]
  /\ alarm' = [alarm EXCEPT ![w] = FALSE]
  /\ items' = [items EXCEPT ![w] = 0]
  /\ rested' = [rested EXCEPT ![w] = FALSE]
  /\ told' = [told EXCEPT ![w] = FALSE]
  /\ more' = [more EXCEPT ![w] = 0]
  /\ UNCHANGED <<held, crashes>>

(* What the process held in memory is gone, its processing list is not. *)
Ends(w) ==
  /\ pc' = [pc EXCEPT ![w] = "dead"]
  /\ alarm' = [alarm EXCEPT ![w] = FALSE]
  /\ UNCHANGED <<usr2, going, items, rested, told, more, held>>

-----------------------------------------------------------------------------
(* The loop of run(). *)

Boot(w) ==
  /\ pc[w] = "boot"
  /\ pc' = [pc EXCEPT ![w] = "top"]
  /\ UNCHANGED <<usr2, going, alarm, items, rested, told, more, held, crashes>>

(* The three reasons to break; 30 minutes pass without a job at any time.   *)
Leave(w) ==
  /\ pc[w] = "top"
  /\ ~going[w] \/ rested[w] \/ items[w] > ItemLimit
  /\ Ends(w)
  /\ UNCHANGED crashes

(* Mutants: one item too many, and a deaf loop. *)
Continue_offByOne(w) ==
  /\ pc[w] = "top"
  /\ going[w]
  /\ items[w] <= ItemLimit + 1
  /\ pc' = [pc EXCEPT ![w] = "process"]
  /\ UNCHANGED <<usr2, going, alarm, items, rested, told, more, held, crashes>>

Continue_deaf(w) ==
  /\ pc[w] = "top"
  /\ items[w] <= ItemLimit
  /\ pc' = [pc EXCEPT ![w] = "process"]
  /\ UNCHANGED <<usr2, going, alarm, items, rested, told, more, held, crashes>>

Continue(w) ==
  /\ pc[w] = "top"
  /\ going[w]
  /\ items[w] <= ItemLimit
  /\ pc' = [pc EXCEPT ![w] = "process"]
  /\ UNCHANGED <<usr2, going, alarm, items, rested, told, more, held, crashes>>

(* Mutant: `timeout is None` leaves the alarm scheduled. *)
AllowStop_keepsAlarm(w) ==
  /\ pc[w] = "process"
  /\ usr2' = [usr2 EXCEPT ![w] = "default"]
  /\ pc' = [pc EXCEPT ![w] = "dequeue"]
  /\ UNCHANGED <<going, alarm, items, rested, told, more, held, crashes>>

(* configure_cancellation(timeout=None, sigkill_on_stop=True) *)
AllowStop(w) ==
  /\ pc[w] = "process"
  /\ usr2' = [usr2 EXCEPT ![w] = "default"]
  /\ alarm' = [alarm EXCEPT ![w] = FALSE]
  /\ pc' = [pc EXCEPT ![w] = "dequeue"]
  /\ UNCHANGED <<going, items, rested, told, more, held, crashes>>

(* dequeue: the job left in the processing list, or another, or none. *)
Dequeue(w) ==
  /\ pc[w] = "dequeue"
  /\ held' \in {[held EXCEPT ![w] = j] : j \in IF held[w] = NoJob THEN Jobs ELSE {held[w]}}
  /\ pc' = [pc EXCEPT ![w] = "got"]
  /\ UNCHANGED <<usr2, going, alarm, items, rested, told, more, crashes>>

DequeueNone(w) ==
  /\ pc[w] = "dequeue"
  /\ held[w] = NoJob
  /\ pc' = [pc EXCEPT ![w] = "top"]
  /\ items' = [items EXCEPT ![w] = @ + 1]
  /\ rested' = [rested EXCEPT ![w] = TRUE]
  /\ UNCHANGED <<usr2, going, alarm, told, more, held, crashes>>

(* Mutants: the job's own settings are not applied, or not its timeout. *)
StartJob_unconfigured(w) ==
  /\ pc[w] = "got"
  /\ pc' = [pc EXCEPT ![w] = "run"]
  /\ more' = [more EXCEPT ![w] = IF told[w] THEN @ + 1 ELSE @]
  /\ UNCHANGED <<usr2, going, alarm, items, rested, told, held, crashes>>

StartJob_untimed(w) ==
  /\ pc[w] = "got"
  /\ usr2' = [usr2 EXCEPT ![w] = IF held[w].stop THEN "default" ELSE "handler"]
  /\ pc' = [pc EXCEPT ![w] = "run"]
  /\ more' = [more EXCEPT ![w] = IF told[w] THEN @ + 1 ELSE @]
  /\ UNCHANGED <<going, alarm, items, rested, told, held, crashes>>

(* configure_cancellation for the job, then job.run begins.  (In between no *)
(* signal has another effect than before or after both.)                    *)
StartJob(w) ==
  /\ pc[w] = "got"
  /\ usr2' = [usr2 EXCEPT ![w] = IF held[w].stop THEN "default" ELSE "handler"]
  /\ alarm' = [alarm EXCEPT ![w] = held[w].timed]
  /\ pc' = [pc EXCEPT ![w] = "run"]
  /\ more' = [more EXCEPT ![w] = IF told[w] THEN @ + 1 ELSE @]
  /\ UNCHANGED <<going, items, rested, told, held, crashes>>

JobReturns(w) ==
  /\ pc[w] = "run"
  /\ ~held[w].slow
  /\ pc' = [pc EXCEPT ![w] = "ran"]
  /\ UNCHANGED <<usr2, going, alarm, items, rested, told, more, held, crashes>>

(* processed_job, and back to the top; the alarm stays scheduled. *)
Acknowledge(w) ==
  /\ pc[w] = "ran"
  /\ held' = [held EXCEPT ![w] = NoJob]
  /\ pc' = [pc EXCEPT ![w] = "top"]
  /\ items' = [items EXCEPT ![w] = @ + 1]
  /\ rested' = [rested EXCEPT ![w] = FALSE]
  /\ UNCHANGED <<usr2, going, alarm, told, more, crashes>>

-----------------------------------------------------------------------------
(* Signals and crashes. *)

Sigusr2(w) ==
  /\ Alive(w)
  /\ IF usr2[w] = "default"
     THEN Ends(w)
     ELSE /\ going' = [going EXCEPT ![w] = FALSE]
          /\ told' = [told EXCEPT ![w] = TRUE]
          /\ UNCHANGED <<pc, usr2, alarm, items, rested, more, held>>
  /\ UNCHANGED crashes

Sigalrm(w) ==
  /\ Alive(w)
  /\ alarm[w]
  /\ Ends(w)
  /\ UNCHANGED crashes

Crash(w) ==
  /\ Alive(w)
  /\ crashes < MaxCrashes
  /\ crashes' = crashes + 1
  /\ Ends(w)

WorkerStep(w) ==
  \/ Boot(w) \/ Leave(w) \/ Continue(w) \/ AllowStop(w) \/ Dequeue(w) \/ DequeueNone(w)
  \/ StartJob(w) \/ JobReturns(w) \/ Acknowledge(w)
=============================================================================
