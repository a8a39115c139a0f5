---------------------------- MODULE RedisBackend ----------------------------
(***************************************************************************)
(* One queue of `RedisBackend` (backends/redis.py) between the code that   *)
(* enqueues, by calling a task or through a BulkEnqueueHelper (task.py),   *)
(* and the worker processes.  There is no processing list: once popped, a  *)
(* job is in the memory of one worker only.                                *)
(*                                                                         *)
(* A command may fail for its client in two ways: it never reached Redis,  *)
(* or Redis executed it and the reply was lost.                            *)
(***************************************************************************)
EXTENDS SequencesExt, Integers

CONSTANTS
  Callers,     \* clients that call the task once for each job
  Helpers,     \* clients that use `with task.bulk_enqueue()`
  PerClient,   \* how many jobs a client enqueues
  BatchSize,   \* batch_size of the helpers
  Procs,       \* worker processes, reused after they die
  Events,      \* the events of the environment that may happen
  Budget       \* how many of them may happen

Clients == Callers \cup Helpers
Jobs    == Clients \X (1..PerClient)   \* those of a client in its order

ASSUME RedisBackendAssumption ==
  /\ Callers \cap Helpers = {}
  /\ PerClient \in Nat /\ Budget \in Nat
  /\ BatchSize \in Nat \ {0}

VARIABLES
  queue,      \* the queue's list: LPUSH at the head (1), BRPOP at the tail
  paused,     \* whether the pause key exists
  client,     \* each client: where it is, its jobs so far, `_to_create`
  worker,     \* the job of each worker process, when it has one
  budget,
  \* History:
  pushes,     \* how often Redis has executed a push of the job
  starts      \* how often a worker has started it

vars == <<queue, paused, client, worker, budget, pushes, starts>>

ClientPCs == {"body", "flush", "exit", "returned", "raised"}
Idle(pc)  == [pc |-> pc, job |-> <<>>]

TypeOK ==
  /\ queue \in Seq(Jobs) /\ paused \in BOOLEAN
  /\ client \in [Clients -> [pc: ClientPCs, made: 0..PerClient, failed: BOOLEAN,
                             to_create: Seq(Jobs)]]
  /\ \A p \in Procs :
       \/ worker[p] \in {Idle("down"), Idle("idle"), Idle("checked")}
       \/ worker[p].pc = "running" /\ worker[p].job \in Jobs
  /\ budget \in 0..Budget
  /\ pushes \in [Jobs -> Nat] /\ starts \in [Jobs -> Nat]

Init ==
  /\ queue = <<>> /\ paused = FALSE
  /\ client = [c \in Clients |-> [pc |-> "body", made |-> 0, failed |-> FALSE,
                                  to_create |-> <<>>]]
  /\ worker = [p \in Procs |-> Idle("down")]
  /\ budget = Budget
  /\ pushes = [j \in Jobs |-> 0] /\ starts = [j \in Jobs |-> 0]

Spend(event) == event \in Events /\ budget > 0 /\ budget' = budget - 1

-----------------------------------------------------------------------------
(* Clients. *)

(* Mutant: the batch keeps its order at the head of the list. *)
Push_unreversed(batch) ==
  /\ queue' = batch \o queue
  /\ pushes' = [j \in Jobs |-> pushes[j] + IF j \in ToSet(batch) THEN 1 ELSE 0]

(* LPUSH of a batch, as Redis executes it. *)
Push(batch) ==
  /\ queue' = Reverse(batch) \o queue
  /\ pushes' = [j \in Jobs |-> pushes[j] + IF j \in ToSet(batch) THEN 1 ELSE 0]

(* The batch is enqueued and the client knows; or the call raises, with the *)
(* batch pushed or not.                                                     *)
Answered(batch)    == Push(batch) /\ UNCHANGED budget
ReplyLost(batch)   == Push(batch) /\ Spend("lost_push")
RequestLost(batch) == Spend("lost_request") /\ UNCHANGED <<queue, pushes>>
Raises(batch)      == ReplyLost(batch) \/ RequestLost(batch)

(* my_task(...): TaskWrapper.__call__ enqueues one job. *)
Call(c) ==
  /\ c \in Callers
  /\ client[c].pc = "body" /\ client[c].made < PerClient
  /\ LET n == client[c].made + 1
     IN  \/ /\ Answered(<< <<c, n>> >>)
            /\ client' = [client EXCEPT ![c].made = n]
         \/ /\ Raises(<< <<c, n>> >>)
            /\ client' = [client EXCEPT ![c].made = n, ![c].pc = "raised"]
  /\ UNCHANGED <<paused, worker, starts>>

(* BulkEnqueueHelper._create *)
Create(c) ==
  /\ c \in Helpers
  /\ client[c].pc = "body" /\ client[c].made < PerClient
  /\ LET n     == client[c].made + 1
         batch == Append(client[c].to_create, <<c, n>>)
     IN  client' = [client EXCEPT ![c].made = n, ![c].to_create = batch,
                      ![c].pc = IF Len(batch) >= BatchSize THEN "flush" ELSE "body"]
  /\ UNCHANGED <<queue, paused, worker, budget, pushes, starts>>

(* The body of the `with` ends, by itself or with an exception of its own. *)
LeaveBlock(c, failed) ==
  /\ client[c].pc = "body"
  /\ IF failed THEN c \in Helpers ELSE client[c].made = PerClient
  /\ client' = [client EXCEPT ![c].pc = IF c \in Helpers THEN "exit" ELSE "returned",
                              ![c].failed = failed]
  /\ UNCHANGED <<queue, paused, worker, budget, pushes, starts>>

(* Mutant: `_to_create` is not emptied. *)
Flushed_keepsBatch(c) ==
  /\ client[c].pc \in {"flush", "exit"}
  /\ IF client[c].to_create = <<>> THEN UNCHANGED <<queue, pushes, budget>>
                                   ELSE Answered(client[c].to_create)
  /\ client' = [client EXCEPT ![c].pc = IF client[c].pc = "flush" THEN "body" ELSE "returned"]
  /\ UNCHANGED <<paused, worker, starts>>

(* flush(), from _create or from __exit__: `_to_create` is emptied only     *)
(* when the push has returned.                                              *)
Flushed(c) ==
  /\ client[c].pc \in {"flush", "exit"}
  /\ IF client[c].to_create = <<>> THEN UNCHANGED <<queue, pushes, budget>>
                                   ELSE Answered(client[c].to_create)
  /\ client' = [client EXCEPT ![c].to_create = <<>>,
                  ![c].pc = IF client[c].pc = "flush" THEN "body"
                            ELSE IF client[c].failed THEN "raised" ELSE "returned"]
  /\ UNCHANGED <<paused, worker, starts>>

(* An exception in the body, the helper's own included, leaves by __exit__. *)
FlushRaises(c) ==
  /\ client[c].pc \in {"flush", "exit"}
  /\ client[c].to_create # <<>>
  /\ Raises(client[c].to_create)
  /\ client' = [client EXCEPT ![c].failed = TRUE,
                  ![c].pc = IF client[c].pc = "flush" THEN "exit" ELSE "raised"]
  /\ UNCHANGED <<paused, worker, starts>>

Clear ==
  /\ Spend("clear")
  /\ queue # <<>>
  /\ queue' = <<>>
  /\ UNCHANGED <<paused, client, worker, pushes, starts>>

Pause ==
  /\ Spend("pause")
  /\ ~paused /\ paused' = TRUE
  /\ UNCHANGED <<queue, client, worker, pushes, starts>>

Unpause ==
  /\ paused /\ paused' = FALSE
  /\ UNCHANGED <<queue, client, worker, budget, pushes, starts>>

-----------------------------------------------------------------------------
(* Worker processes: Worker.process with dequeue. *)

Spawn(p) ==
  /\ worker[p].pc = "down"
  /\ worker' = [worker EXCEPT ![p] = Idle("idle")]
  /\ UNCHANGED <<queue, paused, client, budget, pushes, starts>>

CheckPause(p) ==
  /\ worker[p].pc = "idle"
  /\ ~paused
  /\ worker' = [worker EXCEPT ![p] = Idle("checked")]
  /\ UNCHANGED <<queue, paused, client, budget, pushes, starts>>

(* Mutant: the job is read without being taken. *)
Pop_peeks(p) ==
  /\ worker[p].pc = "checked"
  /\ queue # <<>>
  /\ worker' = [worker EXCEPT ![p] = [pc |-> "running", job |-> Last(queue)]]
  /\ starts' = [starts EXCEPT ![Last(queue)] = @ + 1]
  /\ UNCHANGED <<queue, paused, client, budget, pushes>>

(* BRPOP, and the job is run. *)
Pop(p) ==
  /\ worker[p].pc = "checked"
  /\ queue # <<>>
  /\ queue' = Front(queue)
  /\ worker' = [worker EXCEPT ![p] = [pc |-> "running", job |-> Last(queue)]]
  /\ starts' = [starts EXCEPT ![Last(queue)] = @ + 1]
  /\ UNCHANGED <<paused, client, budget, pushes>>

(* BRPOP is executed, its reply is lost: the exception ends the process. *)
PopLost(p) ==
  /\ worker[p].pc = "checked"
  /\ queue # <<>>
  /\ Spend("lost_pop")
  /\ queue' = Front(queue)
  /\ worker' = [worker EXCEPT ![p] = Idle("down")]
  /\ UNCHANGED <<paused, client, pushes, starts>>

PopTimeout(p) ==
  /\ worker[p].pc = "checked"
  /\ queue = <<>>
  /\ worker' = [worker EXCEPT ![p] = Idle("idle")]
  /\ UNCHANGED <<queue, paused, client, budget, pushes, starts>>

(* Mutant: the job stays with the worker. *)
Finish_keepsJob(p) ==
  /\ worker[p].pc = "running"
  /\ worker' = [worker EXCEPT ![p].pc = "idle"]
  /\ UNCHANGED <<queue, paused, client, budget, pushes, starts>>

(* job.run returns; processed_job does nothing for this backend. *)
Finish(p) ==
  /\ worker[p].pc = "running"
  /\ worker' = [worker EXCEPT ![p] = Idle("idle")]
  /\ UNCHANGED <<queue, paused, client, budget, pushes, starts>>

(* Mutant: a worker that is dying puts its job back. *)
Die_requeues(p) ==
  /\ worker[p].pc = "running"
  /\ Spend("crash")
  /\ worker' = [worker EXCEPT ![p] = Idle("down")]
  /\ queue' = Append(queue, worker[p].job)
  /\ UNCHANGED <<paused, client, pushes, starts>>

Die(p) ==
  /\ worker[p].pc # "down"
  /\ Spend("crash")
  /\ worker' = [worker EXCEPT ![p] = Idle("down")]
  /\ UNCHANGED <<queue, paused, client, pushes, starts>>

-----------------------------------------------------------------------------
ClientStep(c) ==
  \/ Call(c) \/ Create(c) \/ Flushed(c) \/ FlushRaises(c)
  \/ \E failed \in BOOLEAN : LeaveBlock(c, failed)

WorkerStep(p) ==
  Spawn(p) \/ CheckPause(p) \/ Pop(p) \/ PopTimeout(p) \/ Finish(p)

Next ==
  \/ \E c \in Clients : ClientStep(c)
  \/ \E p \in Procs : WorkerStep(p) \/ PopLost(p) \/ Die(p)
  \/ Clear \/ Pause \/ Unpause

Spec == Init /\ [][Next]_vars

-----------------------------------------------------------------------------
(* Properties. *)

(* "This backend has at-most-once semantics." (redis.py:16): no entry of    *)
(* the queue is started twice, whatever fails.  (A job may have two, when   *)
(* its client has pushed it again because a reply was lost.)                *)
Copies(j) == Cardinality({i \in DOMAIN queue : queue[i] = j})
Promise == INSTANCE AtMostOnce WITH waiting <- [j \in Jobs |-> Copies(j)]
KeepsPromise == Promise!Spec

(* task.py:199-205: bulk_enqueue is equivalent to calling the task for each *)
(* job.  When the block returns normally every job it made was pushed once. *)
BulkIsEquivalent ==
  \A c \in Clients : client[c].pc = "returned" =>
    \A i \in 1..PerClient : pushes[<<c, i>>] = 1

(* A job that a worker starts has left no older job of its client behind,   *)
(* except one that a lost reply has made its client push again.             *)
StartedInOrder ==
  [][\A j \in Jobs : starts'[j] > starts[j] =>
       \A i \in 1..(j[2] - 1) :
         <<j[1], i>> \in ToSet(queue') => pushes[<<j[1], i>>] > 1]_vars
=============================================================================
