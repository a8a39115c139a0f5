---------------------------- MODULE AtLeastOnce ----------------------------
(***************************************************************************)
(* What `ReliableRedisBackend` promises (reliable_redis.py:41), without    *)
(* lists, machines or processes: the queue holds a set of jobs.  A job     *)
(* enters it once, when it is pushed, and leaves it for one of three       *)
(* reasons only: it has been run, the queue is cleared, or deduplication   *)
(* found that another run will do or has done its work.  What has left the *)
(* queue does not come back, and only what it holds is run.                *)
(***************************************************************************)
EXTENDS Naturals

CONSTANTS Jobs, Identity

VARIABLES
  pushed,  \* the jobs enqueued so far
  held,    \* the jobs the queue holds
  unrun,   \* the jobs enqueued that have not been run themselves
  owed     \* the jobs no identical job was run for since they were enqueued

vars == <<pushed, held, unrun, owed>>

Alike(S, j) == {x \in S : Identity[x] = Identity[j]}

Init == pushed = {} /\ held = {} /\ unrun = {} /\ owed = {}

Enqueue(S) ==
  /\ S \cap pushed = {}
  /\ pushed' = pushed \cup S
  /\ held' = held \cup S
  /\ unrun' = unrun \cup S
  /\ owed' = owed \cup S

(* A run also does the work of the identical jobs enqueued before it. *)
Run(j, S) ==
  /\ j \in held
  /\ S \subseteq Alike(owed, j)
  /\ unrun' = unrun \ {j}
  /\ owed' = owed \ S
  /\ UNCHANGED <<pushed, held>>

Forget(j) ==
  /\ j \in held \ unrun
  /\ held' = held \ {j}
  /\ UNCHANGED <<pushed, unrun, owed>>

Merge(j) ==
  /\ j \in held
  /\ j \in owed => Alike(held, j) # {j}
  /\ held' = held \ {j}
  /\ UNCHANGED <<pushed, unrun, owed>>

Cancel(S) ==
  /\ held' = held \ S
  /\ unrun' = unrun \ S
  /\ owed' = owed \ S
  /\ UNCHANGED pushed

Next ==
  \/ \E S \in SUBSET Jobs : Enqueue(S) \/ Cancel(S)
  \/ \E j \in Jobs, S \in SUBSET Jobs : Run(j, S)
  \/ \E j \in Jobs : Forget(j) \/ Merge(j)

Spec == Init /\ [][Next]_vars
=============================================================================
