----------------------------- MODULE AtMostOnce -----------------------------
(***************************************************************************)
(* What `RedisBackend` promises (redis.py:16): an entry of the queue is    *)
(* started once, or is lost; what has been started never waits again.  A   *)
(* job has as many entries as Redis has executed pushes of it.             *)
(***************************************************************************)
EXTENDS Naturals

CONSTANT Jobs

VARIABLES
  pushes,    \* how often each job was enqueued
  waiting,   \* how many entries of it are not taken yet
  starts     \* how many a worker has started

vars == <<pushes, waiting, starts>>

Init ==
  /\ pushes  = [j \in Jobs |-> 0]
  /\ waiting = [j \in Jobs |-> 0]
  /\ starts  = [j \in Jobs |-> 0]

OneMore(f, S) == [j \in Jobs |-> f[j] + IF j \in S THEN 1 ELSE 0]

Enqueue(S) ==
  /\ pushes'  = OneMore(pushes, S)
  /\ waiting' = OneMore(waiting, S)
  /\ UNCHANGED starts

Start(j) ==
  /\ waiting[j] > 0
  /\ waiting' = [waiting EXCEPT ![j] = @ - 1]
  /\ starts'  = [starts EXCEPT ![j] = @ + 1]
  /\ UNCHANGED pushes

Lose ==
  /\ waiting' \in [Jobs -> Nat]
  /\ \A j \in Jobs : waiting'[j] <= waiting[j]
  /\ UNCHANGED <<pushes, starts>>

Next == (\E S \in SUBSET Jobs : Enqueue(S)) \/ (\E j \in Jobs : Start(j)) \/ Lose

Spec == Init /\ [][Next]_vars
=============================================================================
