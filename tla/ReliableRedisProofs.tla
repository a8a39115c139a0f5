------------------------ MODULE ReliableRedisProofs ------------------------
(***************************************************************************)
(* For every number of jobs, workers, machines, dedupers and events: a job *)
(* that has been pushed stays in Redis until it has been run, is cleared,  *)
(* or is removed as a duplicate (AtLeastOnceHolds), and a start-up moves   *)
(* all there is to move (StartupTakesWhatIsThere) and copies nothing       *)
(* (MovesNeverCopy).                                                       *)
(*                                                                         *)
(* When machines are replaced one after the other (Orderly), no job is in  *)
(* two places (OnePlace), so none runs twice at once.  When the settings   *)
(* differ by one worker at most (OneStray) the lists are in the order of   *)
(* the pushes as well; then the deduplicater does what it says, and the    *)
(* module implements AtLeastOnce.                                          *)
(***************************************************************************)
EXTENDS ReliableRedis, ListLemmas

(* A worker acknowledges a job (LREM) only after running it. *)
RanIsDone == \A p \in Procs : worker[p].pc = "ran" => worker[p].job \notin unrun

(* Nothing refers to a job before its first push. *)
OnlyPushed ==
  /\ InRedis \subseteq 1..created
  /\ ToSet(unacked) \subseteq 1..created
  /\ \A p \in Procs : worker[p].job \in 1..created \cup {NoJob}
  /\ \A m \in Machines : ToSet(boot[m].gathered) \subseteq 1..created

(* What an undisturbed start-up has read so far is all there is. *)
GatheredAll ==
  \A m \in Machines : boot[m].phase = "read" /\ ~boot[m].touched =>
    \A w \in boot[m].stale \ boot[m].unread : ToSet(proc[w]) \subseteq ToSet(boot[m].gathered)

IInv == TypeOK /\ RanIsDone /\ OnlyPushed /\ GatheredAll /\ KeptUntilRun

-----------------------------------------------------------------------------
LEMMA NumsPositive == Nums \subseteq Nat \ {0}
  BY ConstantsAssumption DEF Nums

LEMMA OffType == Off \in Workers /\ Off.job = NoJob /\ Off.slot = 0 /\ Off.pc = "down"
  BY DEF Off, Workers, PCs, NoJob, NoHost

LEMMA HaltedType ==
  Halted \in Runners /\ Halted.phase = "down" /\ Halted.unread = {} /\ Halted.stale = {}
                     /\ Halted.gathered = <<>>
  BY DEF Halted, Runners, Phases

(* A write to a processing list marks the start-ups that watch it, and does *)
(* nothing else to them.                                                    *)
LEMMA TouchOnlyMarks ==
  ASSUME RunnersOK, NEW ws
  PROVE  /\ Touch(ws) \in [Machines -> Runners]
         /\ \A m \in Machines :
              /\ Touch(ws)[m].phase = boot[m].phase
              /\ Touch(ws)[m].workers = boot[m].workers
              /\ Touch(ws)[m].stale = boot[m].stale
              /\ Touch(ws)[m].unread = boot[m].unread
              /\ Touch(ws)[m].gathered = boot[m].gathered
              /\ Touch(ws)[m].touched =
                   (boot[m].touched \/ (boot[m].phase = "read" /\ ws \cap boot[m].stale # {}))
<1> DEFINE mark(m) == boot[m].touched \/ (boot[m].phase = "read" /\ ws \cap boot[m].stale # {})
<1>1. ASSUME NEW m \in Machines
      PROVE  /\ Touch(ws)[m] = [boot[m] EXCEPT !.touched = mark(m)]
             /\ boot[m] \in Runners /\ mark(m) \in BOOLEAN
  BY <1>1 DEF Touch, RunnersOK, Runners
<1> HIDE DEF mark
<1>2. ASSUME NEW m \in Machines
      PROVE  Touch(ws)[m] \in Runners
  BY <1>1 DEF Runners
<1>3. Touch(ws) \in [Machines -> Runners]
  BY <1>2 DEF Touch
<1>4. QED
  BY <1>1, <1>3 DEF Runners, mark

(* The jobs a client pushes in one batch. *)
LEMMA BatchType ==
  ASSUME TypeOK, NEW hi \in (created + 1)..JobCount
  PROVE  /\ Batch(hi) \in Seq(1..hi) /\ Batch(hi) \in Seq(Raws)
         /\ ToSet(Batch(hi)) = (created + 1)..hi
<1>1. created \in Nat /\ hi \in Nat /\ hi - created \in Nat
  BY ConstantsAssumption DEF TypeOK, CountsOK
<1>2. Batch(hi) \in Seq(1..hi) /\ Len(Batch(hi)) = hi - created
  BY <1>1 DEF Batch
<1>3. ASSUME NEW r \in (created + 1)..hi
      PROVE  r \in ToSet(Batch(hi))
  <2>1. r - created \in 1..Len(Batch(hi)) /\ Batch(hi)[r - created] = r
    BY <1>1, <1>2 DEF Batch
  <2>2. QED
    BY <1>2, <2>1, InToSet
<1>4. ASSUME NEW r \in ToSet(Batch(hi))
      PROVE  r \in (created + 1)..hi
  <2>1. PICK i \in 1..Len(Batch(hi)) : Batch(hi)[i] = r
    BY <1>2, <1>4, InToSet
  <2>2. QED
    BY <1>1, <1>2, <2>1 DEF Batch
<1>5. Batch(hi) \in Seq(Raws)
  BY <1>1, ConstantsAssumption DEF Batch, Raws
<1>6. QED
  BY <1>2, <1>3, <1>4, <1>5

-----------------------------------------------------------------------------
(* Types.  A worker goes to another point of its loop, or gets a job; the   *)
(* rest of the state is typed action by action.                             *)
LEMMA GoToType ==
  ASSUME WorkersOK, NEW p \in Procs, NEW pc \in PCs, GoTo(p, pc),
         worker[p].pc # "down", pc # "down",
         worker[p].pc \in {"running", "ran"} <=> pc \in {"running", "ran"}
  PROVE  WorkersOK'
<1>1. worker[p] \in Workers
  BY DEF WorkersOK
<1>2. worker'[p] = [worker[p] EXCEPT !.pc = pc] /\ \A q \in Procs \ {p} : worker'[q] = worker[q]
  BY DEF GoTo, WorkersOK
<1>3. /\ worker'[p] \in Workers /\ worker'[p].pc = pc
      /\ worker'[p].job = worker[p].job /\ worker'[p].slot = worker[p].slot
  BY <1>1, <1>2 DEF Workers
<1>4. worker' \in [Procs -> Workers]
  BY <1>2, <1>3 DEF GoTo, WorkersOK
<1>5. ASSUME NEW q \in Procs
      PROVE  /\ worker'[q].job = NoJob <=> worker'[q].pc \notin {"running", "ran"}
             /\ worker'[q].slot = 0 <=> worker'[q].pc = "down"
  <2>1. /\ worker[q].job = NoJob <=> worker[q].pc \notin {"running", "ran"}
        /\ worker[q].slot = 0 <=> worker[q].pc = "down"
    BY DEF WorkersOK
  <2>2. CASE q = p
    BY <1>3, <2>1, <2>2
  <2>3. CASE q # p
    BY <1>2, <2>1, <2>3
  <2>4. QED
    BY <2>2, <2>3
<1>6. QED
  BY <1>4, <1>5 DEF WorkersOK

LEMMA TakeJobType ==
  ASSUME WorkersOK, CountsOK, NEW p \in Procs, NEW j \in Raws, TakeJob(p, j),
         worker[p].pc # "down"
  PROVE  /\ WorkersOK'
         /\ worker'[p].job = j /\ worker'[p].pc = "running"
         /\ \A q \in Procs \ {p} : worker'[q] = worker[q]
<1> DEFINE alike == {r \in owed : Identity[r] = Identity[j]}
<1>1. worker[p] \in Workers /\ alike \in SUBSET Raws
  BY DEF WorkersOK, CountsOK
<1>2. /\ worker'[p] = [worker[p] EXCEPT !.pc = "running", !.job = j, !.covers = alike]
      /\ \A q \in Procs \ {p} : worker'[q] = worker[q]
  BY DEF TakeJob, WorkersOK
<1> HIDE DEF alike
<1>3. /\ worker'[p] \in Workers /\ worker'[p].pc = "running"
      /\ worker'[p].job = j /\ worker'[p].slot = worker[p].slot
  BY <1>1, <1>2 DEF Workers, PCs
<1>4. worker' \in [Procs -> Workers]
  BY <1>2, <1>3 DEF TakeJob, WorkersOK
<1>5. j # NoJob
  BY ConstantsAssumption DEF Raws, NoJob
<1>6. ASSUME NEW q \in Procs
      PROVE  /\ worker'[q].job = NoJob <=> worker'[q].pc \notin {"running", "ran"}
             /\ worker'[q].slot = 0 <=> worker'[q].pc = "down"
  <2>1. CASE q = p
    BY <1>3, <1>5, <2>1 DEF WorkersOK
  <2>2. CASE q # p
    BY <1>2, <2>2 DEF WorkersOK
  <2> QED
    BY <2>1, <2>2
<1> QED
  BY <1>2, <1>3, <1>4, <1>6 DEF WorkersOK

LEMMA OffStaysTyped ==
  ASSUME WorkersOK, NEW p \in Procs, worker' = [worker EXCEPT ![p] = Off]
  PROVE  /\ WorkersOK' /\ worker'[p] = Off
         /\ \A q \in Procs \ {p} : worker'[q] = worker[q]
  BY OffType DEF WorkersOK

LEMMA SlotType ==
  ASSUME WorkersOK, NEW p \in Procs, worker[p].pc # "down"
  PROVE  worker[p].slot \in Nums /\ worker[p].job \in Raws \cup {NoJob}
  BY DEF WorkersOK, Workers

(* A runner that goes on keeps its record's type. *)
LEMMA RunnerType ==
  ASSUME RunnersOK, NEW m \in Machines, NEW r \in Runners, r.unread \subseteq r.stale,
         r.unread # {} => r.phase = "read",
         boot' = [boot EXCEPT ![m] = r]
  PROVE  /\ RunnersOK' /\ boot'[m] = r
         /\ \A o \in Machines \ {m} : boot'[o] = boot[o]
  BY DEF RunnersOK

LEMMA TouchType ==
  ASSUME RunnersOK, NEW ws, boot' = Touch(ws)
  PROVE  RunnersOK'
  BY TouchOnlyMarks DEF RunnersOK

LEMMA TypeStep == TypeOK /\ [Next]_vars => TypeOK'
<1> SUFFICES ASSUME TypeOK, [Next]_vars
             PROVE  TypeOK'
  OBVIOUS
<1> USE DEF redis, dedup, history
<1>a. ListsOK /\ WorkersOK /\ RunnersOK /\ DedupOK /\ CountsOK
  BY DEF TypeOK
<1>b. ASSUME NEW event, Spend(event)
      PROVE  budget' \in 0..Budget
  BY <1>a, <1>b, ConstantsAssumption DEF Spend, CountsOK
<1>c. InFlight \subseteq Raws
  BY <1>a, InToSet DEF InFlight, ListsOK
<1>1. ASSUME NEW hi \in (created + 1)..JobCount, NEW lost \in BOOLEAN, BulkEnqueue(hi, lost)
      PROVE  TypeOK'
  <2>1. /\ Batch(hi) \in Seq(Raws) /\ hi \in 0..JobCount
        /\ (created + 1)..hi \subseteq Raws
    BY <1>a, BatchType, ConstantsAssumption DEF CountsOK, Raws
  <2>2. main' \in Seq(Raws)
    BY <1>a, <1>1, <2>1, ReverseKeeps, ConcatKeeps DEF BulkEnqueue, LPush, ListsOK
  <2>3. unacked' \in Seq(Raws) /\ budget' \in 0..Budget
    BY <1>a, <1>b, <1>1, <2>1 DEF BulkEnqueue, ListsOK, CountsOK
  <2>4. ListsOK' /\ CountsOK'
    BY <1>a, <1>1, <2>1, <2>2, <2>3 DEF BulkEnqueue, ListsOK, CountsOK
  <2>5. WorkersOK' /\ RunnersOK' /\ DedupOK'
    BY <1>a, <1>1 DEF BulkEnqueue, WorkersOK, RunnersOK, DedupOK
  <2>6. QED
    BY <2>4, <2>5 DEF TypeOK
<1>2. CASE RetryEnqueue
  <2>1. main' \in Seq(Raws)
    BY <1>a, <1>2, ReverseKeeps, ConcatKeeps DEF RetryEnqueue, LPush, ListsOK
  <2>2. ListsOK' /\ CountsOK'
    BY <1>a, <1>2, <2>1 DEF RetryEnqueue, ListsOK, CountsOK
  <2>3. WorkersOK' /\ RunnersOK' /\ DedupOK'
    BY <1>a, <1>2 DEF RetryEnqueue, WorkersOK, RunnersOK, DedupOK
  <2>4. QED
    BY <2>2, <2>3 DEF TypeOK
<1>3. CASE Clear
  <2>1. budget' \in 0..Budget
    BY <1>b, <1>3 DEF Clear
  <2>2. ListsOK' /\ CountsOK'
    BY <1>a, <1>c, <1>3, <2>1 DEF Clear, ListsOK, CountsOK
  <2>3. WorkersOK' /\ RunnersOK' /\ DedupOK'
    BY <1>a, <1>3 DEF Clear, WorkersOK, RunnersOK, DedupOK
  <2>4. QED
    BY <2>2, <2>3 DEF TypeOK
<1>4. CASE Pause \/ Unpause
  <2>1. budget' \in 0..Budget /\ paused' \in BOOLEAN
    BY <1>a, <1>b, <1>4 DEF Pause, Unpause, CountsOK
  <2>2. ListsOK' /\ CountsOK'
    BY <1>a, <1>4, <2>1 DEF Pause, Unpause, ListsOK, CountsOK
  <2>3. WorkersOK' /\ RunnersOK' /\ DedupOK'
    BY <1>a, <1>4 DEF Pause, Unpause, WorkersOK, RunnersOK, DedupOK
  <2>4. QED
    BY <2>2, <2>3 DEF TypeOK
<1>5. ASSUME NEW p \in Procs, CheckPause(p) \/ PopTimeout(p)
      PROVE  TypeOK'
  <2>1. WorkersOK'
    BY <1>a, <1>5, GoToType DEF CheckPause, PopTimeout, PCs
  <2>2. ListsOK' /\ RunnersOK' /\ DedupOK' /\ CountsOK'
    BY <1>a, <1>5 DEF CheckPause, PopTimeout, ListsOK, RunnersOK, DedupOK, CountsOK
  <2>3. QED
    BY <2>1, <2>2 DEF TypeOK
<1>6. ASSUME NEW p \in Procs, PeekProcessing(p)
      PROVE  TypeOK'
  <2> DEFINE mine == proc[worker[p].slot]
  <2>1. mine \in Seq(Raws)
    BY <1>a, <1>6, SlotType DEF PeekProcessing, ListsOK
  <2>2. WorkersOK'
    <3>1. CASE mine = <<>>
      BY <1>a, <1>6, <3>1, GoToType DEF PeekProcessing, PCs
    <3>2. CASE mine # <<>>
      <4>1. Last(mine) \in Raws
        BY <2>1, <3>2, TailOfList
      <4>2. QED
        BY <1>a, <1>6, <3>2, <4>1, TakeJobType DEF PeekProcessing
    <3>3. QED
      BY <3>1, <3>2
  <2>3. ListsOK' /\ RunnersOK' /\ DedupOK' /\ CountsOK'
    BY <1>a, <1>6 DEF PeekProcessing, ListsOK, RunnersOK, DedupOK, CountsOK
  <2>4. QED
    BY <2>2, <2>3 DEF TypeOK
<1>7. ASSUME NEW p \in Procs, PopMain(p)
      PROVE  TypeOK'
  <2>1. worker[p].slot \in Nums /\ Last(main) \in Raws /\ Front(main) \in Seq(Raws)
    BY <1>a, <1>7, SlotType, TailOfList DEF PopMain, ListsOK
  <2>2. WorkersOK'
    BY <1>a, <1>7, <2>1, TakeJobType DEF PopMain
  <2>3. RunnersOK'
    BY <1>a, <1>7, TouchType DEF PopMain
  <2>4. ListsOK'
    <3>1. <<Last(main)>> \o proc[worker[p].slot] \in Seq(Raws)
      BY <1>a, <2>1, ConcatKeeps DEF ListsOK
    <3>2. QED
      BY <1>a, <1>7, <2>1, <3>1 DEF PopMain, ListsOK
  <2>5. DedupOK' /\ CountsOK'
    BY <1>a, <1>7 DEF PopMain, DedupOK, CountsOK
  <2>6. QED
    BY <2>2, <2>3, <2>4, <2>5 DEF TypeOK
<1>8. ASSUME NEW p \in Procs, Finish(p)
      PROVE  TypeOK'
  <2>1. WorkersOK'
    BY <1>a, <1>8, GoToType DEF Finish, PCs
  <2>2. ListsOK' /\ RunnersOK' /\ DedupOK' /\ CountsOK'
    BY <1>a, <1>8 DEF Finish, ListsOK, RunnersOK, DedupOK, CountsOK
  <2>3. QED
    BY <2>1, <2>2 DEF TypeOK
<1>9. ASSUME NEW p \in Procs, TimesOut(p) \/ Die(p) \/ WorkerStops(p)
      PROVE  TypeOK'
  <2>1. WorkersOK'
    BY <1>a, <1>9, OffStaysTyped DEF TimesOut, Die, WorkerStops
  <2>2. budget' \in 0..Budget
    BY <1>a, <1>b, <1>9 DEF TimesOut, Die, WorkerStops, CountsOK
  <2>3. ListsOK' /\ RunnersOK' /\ DedupOK' /\ CountsOK'
    BY <1>a, <1>9, <2>2
       DEF TimesOut, Die, WorkerStops, ListsOK, RunnersOK, DedupOK, CountsOK
  <2>4. QED
    BY <2>1, <2>3 DEF TypeOK
<1>10. ASSUME NEW p \in Procs, Processed(p)
       PROVE  TypeOK'
  <2>1. worker[p] \in Workers /\ worker[p].slot \in Nums
    BY <1>a, <1>10, SlotType DEF Processed, WorkersOK
  <2>2. ListsOK'
    BY <1>a, <1>10, <2>1, RemoveFirstKeeps DEF Processed, ListsOK
  <2>3. RunnersOK'
    <3>1. CASE worker[p].job \in ToSet(proc[worker[p].slot])
      BY <1>a, <1>10, <3>1, TouchType DEF Processed
    <3>2. CASE worker[p].job \notin ToSet(proc[worker[p].slot])
      BY <1>a, <1>10, <3>2 DEF Processed, RunnersOK
    <3>3. QED
      BY <3>1, <3>2
  <2>4. WorkersOK'
    <3>1. /\ worker'[p] = [worker[p] EXCEPT !.pc = "idle", !.job = NoJob, !.covers = {}]
          /\ \A q \in Procs \ {p} : worker'[q] = worker[q]
      BY <1>a, <1>10 DEF Processed, WorkersOK
    <3>2. /\ worker'[p] \in Workers /\ worker'[p].pc = "idle"
          /\ worker'[p].job = NoJob /\ worker'[p].slot \in Nums
      BY <2>1, <3>1 DEF Workers, PCs
    <3>3. worker' \in [Procs -> Workers]
      BY <1>a, <1>10, <3>1, <3>2 DEF Processed, WorkersOK
    <3>4. worker'[p].slot # 0
      BY <3>2, NumsPositive
    <3>5. ASSUME NEW q \in Procs
          PROVE  /\ worker'[q].job = NoJob <=> worker'[q].pc \notin {"running", "ran"}
                 /\ worker'[q].slot = 0 <=> worker'[q].pc = "down"
      <4>1. CASE q = p
        BY <3>2, <3>4, <4>1 DEF NoJob
      <4>2. CASE q # p
        BY <1>a, <3>1, <4>2 DEF WorkersOK
      <4> QED
        BY <4>1, <4>2
    <3> QED
      BY <3>3, <3>5 DEF WorkersOK
  <2>5. DedupOK' /\ CountsOK'
    BY <1>a, <1>10 DEF Processed, DedupOK, CountsOK
  <2>6. QED
    BY <2>2, <2>3, <2>4, <2>5 DEF TypeOK
<1>11. ASSUME NEW m \in Machines, NEW n \in WorkerCounts, Boot(m, n)
       PROVE  TypeOK'
  <2> DEFINE r == [Halted EXCEPT !.workers = n,
                     !.phase = IF WorkerNames(m, n) = {} THEN "up" ELSE "keys"]
  <2>1. r \in Runners /\ r.unread = {}
    BY HaltedType DEF Runners, Phases
  <2>2. RunnersOK'
    BY <1>a, <1>11, <2>1, RunnerType DEF Boot
  <2>3. budget' \in 0..Budget
    BY <1>a, <1>b, <1>11 DEF Boot, CountsOK
  <2>4. ListsOK' /\ WorkersOK' /\ DedupOK' /\ CountsOK'
    BY <1>a, <1>11, <2>3 DEF Boot, ListsOK, WorkersOK, DedupOK, CountsOK
  <2>5. QED
    BY <2>2, <2>4 DEF TypeOK
<1>d. ASSUME NEW m \in Machines
      PROVE  /\ boot[m] \in Runners /\ boot[m].unread \subseteq boot[m].stale
             /\ boot[m].unread # {} => boot[m].phase = "read"
  <2>1. boot[m] \in Runners
    BY <1>a DEF RunnersOK
  <2>2. boot[m].unread \subseteq boot[m].stale
    BY <1>a DEF RunnersOK
  <2>3. boot[m].unread # {} => boot[m].phase = "read"
    BY <1>a DEF RunnersOK
  <2>4. QED
    BY <2>1, <2>2, <2>3
<1>12. ASSUME NEW m \in Machines, FindStale(m)
       PROVE  TypeOK'
  <2> DEFINE stale == {w \in Nums : proc[w] # <<>>} \ 1..boot[m].workers
             r == [boot[m] EXCEPT !.stale = stale,
                     !.phase = IF stale = {} THEN "up" ELSE "watch"]
  <2>1. r \in Runners /\ r.unread = {}
    BY <1>d, <1>12 DEF FindStale, Runners, Phases
  <2>2. RunnersOK'
    BY <1>a, <1>12, <2>1, RunnerType DEF FindStale
  <2>3. ListsOK' /\ WorkersOK' /\ DedupOK' /\ CountsOK'
    BY <1>a, <1>12 DEF FindStale, ListsOK, WorkersOK, DedupOK, CountsOK
  <2>4. QED
    BY <2>2, <2>3 DEF TypeOK
<1>13. ASSUME NEW m \in Machines, Watch(m)
       PROVE  TypeOK'
  <2> DEFINE r == [boot[m] EXCEPT !.phase = "read", !.touched = FALSE,
                     !.unread = boot[m].stale, !.gathered = <<>>]
  <2>1. r \in Runners /\ r.unread \subseteq r.stale /\ r.phase = "read"
    <3>1. <<>> \in Seq(Raws)
      OBVIOUS
    <3>2. r \in Runners
      BY <1>d, <3>1 DEF Runners, Phases
    <3>3. r.unread = boot[m].stale /\ r.stale = boot[m].stale /\ r.phase = "read"
      BY <1>d DEF Runners
    <3>4. QED
      BY <3>2, <3>3
  <2>2. RunnersOK'
    BY <1>a, <1>13, <2>1, RunnerType DEF Watch
  <2>3. ListsOK' /\ WorkersOK' /\ DedupOK' /\ CountsOK'
    BY <1>a, <1>13 DEF Watch, ListsOK, WorkersOK, DedupOK, CountsOK
  <2>4. QED
    BY <2>2, <2>3 DEF TypeOK
<1>14. ASSUME NEW m \in Machines, NEW w \in Nums, ReadKey(m, w)
       PROVE  TypeOK'
  <2> DEFINE r == [boot[m] EXCEPT !.unread = @ \ {w}, !.gathered = @ \o proc[w]]
  <2>1. boot[m].gathered \o proc[w] \in Seq(Raws)
    BY <1>a, <1>d, ConcatKeeps DEF ListsOK, Runners
  <2>2. r \in Runners /\ r.unread \subseteq r.stale /\ r.phase = "read"
    BY <1>d, <1>14, <2>1 DEF ReadKey, Runners
  <2>3. RunnersOK'
    BY <1>a, <1>14, <2>2, RunnerType DEF ReadKey
  <2>4. ListsOK' /\ WorkersOK' /\ DedupOK' /\ CountsOK'
    BY <1>a, <1>14 DEF ReadKey, ListsOK, WorkersOK, DedupOK, CountsOK
  <2>5. QED
    BY <2>3, <2>4 DEF TypeOK
<1>15. ASSUME NEW m \in Machines, Exec(m)
       PROVE  TypeOK'
  <2> DEFINE r == [Halted EXCEPT !.phase = "up", !.workers = boot[m].workers]
             t == Touch({w \in boot[m].stale : proc[w] # <<>>})
  <2>1. r \in Runners /\ r.unread = {}
    BY <1>d, HaltedType DEF Runners, Phases
  <2>2. /\ t \in [Machines -> Runners]
        /\ \A o \in Machines : /\ t[o].unread \subseteq t[o].stale
                               /\ t[o].unread # {} => t[o].phase = "read"
    BY <1>a, <1>d, TouchOnlyMarks
  <2>3. boot' = [t EXCEPT ![m] = r]
    BY <1>15 DEF Exec
  <2> HIDE DEF r, t
  <2>4. RunnersOK'
    BY <2>1, <2>2, <2>3 DEF RunnersOK
  <2>5. boot[m].gathered \in Seq(Raws)
    BY <1>d DEF Runners
  <2>6. main' \in Seq(Raws) /\ proc' \in [Nums -> Seq(Raws)]
    BY <1>a, <1>15, <2>5, ConcatKeeps DEF Exec, ListsOK
  <2>7. ListsOK' /\ WorkersOK' /\ DedupOK' /\ CountsOK'
    BY <1>a, <1>15, <2>6 DEF Exec, ListsOK, WorkersOK, DedupOK, CountsOK
  <2>8. QED
    BY <2>4, <2>7 DEF TypeOK
<1>16. ASSUME NEW m \in Machines, ExecAborts(m) \/ Stop(m)
       PROVE  TypeOK'
  <2>1. boot[m].unread = {}
    BY <1>d, <1>16 DEF ExecAborts, Stop
  <2>2. PICK phase \in Phases : boot' = [boot EXCEPT ![m] = [boot[m] EXCEPT !.phase = phase]]
    BY <1>16 DEF ExecAborts, Stop, Phases
  <2> DEFINE r == [boot[m] EXCEPT !.phase = phase]
  <2>3. r \in Runners /\ r.unread = {}
    BY <1>d, <2>1 DEF Runners
  <2>4. RunnersOK'
    BY <1>a, <2>2, <2>3, RunnerType
  <2>5. budget' \in 0..Budget
    BY <1>a, <1>b, <1>16 DEF ExecAborts, Stop, CountsOK
  <2>6. ListsOK' /\ WorkersOK' /\ DedupOK' /\ CountsOK'
    BY <1>a, <1>16, <2>5 DEF ExecAborts, Stop, ListsOK, WorkersOK, DedupOK, CountsOK
  <2>7. QED
    BY <2>4, <2>6 DEF TypeOK
<1>17. ASSUME NEW m \in Machines, Stopped(m)
       PROVE  TypeOK'
  <2>1. RunnersOK'
    BY <1>a, <1>17, HaltedType, RunnerType DEF Stopped
  <2>2. ListsOK' /\ WorkersOK' /\ DedupOK' /\ CountsOK'
    BY <1>a, <1>17 DEF Stopped, ListsOK, WorkersOK, DedupOK, CountsOK
  <2>3. QED
    BY <2>1, <2>2 DEF TypeOK
<1>18. ASSUME NEW m \in Machines, KillRunner(m)
       PROVE  TypeOK'
  <2>1. RunnersOK'
    BY <1>a, <1>18, HaltedType, RunnerType DEF KillRunner
  <2>2. budget' \in 0..Budget
    BY <1>b, <1>18 DEF KillRunner
  <2>3. ASSUME NEW p \in Procs
        PROVE  /\ worker'[p] \in Workers /\ worker'[p].pc = worker[p].pc
               /\ worker'[p].job = worker[p].job /\ worker'[p].slot = worker[p].slot
    <3>1. worker[p] \in Workers
      BY <1>a DEF WorkersOK
    <3>2. worker'[p] = worker[p] \/ worker'[p] = [worker[p] EXCEPT !.host = NoHost]
      BY <1>18 DEF KillRunner
    <3>3. QED
      BY <3>1, <3>2 DEF Workers
  <2>4. worker' \in [Procs -> Workers]
    BY <1>18, <2>3 DEF KillRunner
  <2>5. WorkersOK'
    BY <1>a, <2>3, <2>4 DEF WorkersOK
  <2>6. ListsOK' /\ DedupOK' /\ CountsOK'
    BY <1>a, <1>18, <2>2 DEF KillRunner, ListsOK, DedupOK, CountsOK
  <2>7. QED
    BY <2>1, <2>5, <2>6 DEF TypeOK
<1>19. ASSUME NEW m \in Machines, NEW p \in Procs, NEW w \in Nums, SpawnWorker(p, m, w)
       PROVE  TypeOK'
  <2> DEFINE r == [Off EXCEPT !.pc = "idle", !.host = m, !.slot = w]
  <2>1. r \in Workers /\ r.pc = "idle" /\ r.job = NoJob /\ r.slot # 0
    BY OffType, NumsPositive DEF Workers, PCs
  <2>2. worker' = [worker EXCEPT ![p] = r]
    BY <1>19 DEF SpawnWorker
  <2> HIDE DEF r
  <2>3. WorkersOK'
    BY <1>a, <2>1, <2>2 DEF WorkersOK
  <2>4. ListsOK' /\ RunnersOK' /\ DedupOK' /\ CountsOK'
    BY <1>a, <1>19 DEF SpawnWorker, ListsOK, RunnersOK, DedupOK, CountsOK
  <2>5. QED
    BY <2>3, <2>4 DEF TypeOK
<1>20. ASSUME NEW d \in Dedupers, Scan(d)
       PROVE  TypeOK'
  <2>1. main \in Seq(Raws) /\ Surplus(main) \subseteq DOMAIN main /\ DOMAIN main \subseteq Nat
    BY <1>a DEF ListsOK, Surplus
  <2>2. DedupOK'
    BY <1>a, <1>20, <2>1 DEF Scan, DedupOK
  <2>3. budget' \in 0..Budget
    BY <1>b, <1>20 DEF Scan
  <2>4. ListsOK' /\ WorkersOK' /\ RunnersOK' /\ CountsOK'
    BY <1>a, <1>20, <2>3 DEF Scan, ListsOK, WorkersOK, RunnersOK, CountsOK
  <2>5. QED
    BY <2>2, <2>4 DEF TypeOK
<1>21. ASSUME NEW d \in Dedupers, RemoveTwin(d)
       PROVE  TypeOK'
  <2>1. PICK i \in todo[d] :
          /\ main' = RemoveFirst(main, snap[d][i])
          /\ dropped' = IF snap[d][i] \in ToSet(main) THEN dropped \cup {snap[d][i]} ELSE dropped
          /\ todo' = [todo EXCEPT ![d] = @ \ {i}]
          /\ snap' = IF todo[d] = {i} THEN [snap EXCEPT ![d] = <<>>] ELSE snap
          /\ UNCHANGED <<proc, paused, created, unacked, worker, boot, budget, unrun, owed>>
    BY <1>21 DEF RemoveTwin
  <2>2. snap[d] \in Seq(Raws) /\ i \in DOMAIN snap[d] /\ snap[d][i] \in Raws
    BY <1>a DEF DedupOK
  <2>3. DedupOK'
    BY <1>a, <2>1 DEF DedupOK
  <2>4. main' \in Seq(Raws)
    BY <1>a, <2>1, RemoveFirstKeeps DEF ListsOK
  <2>5. ListsOK' /\ WorkersOK' /\ RunnersOK' /\ CountsOK'
    BY <1>a, <2>1, <2>2, <2>4 DEF ListsOK, WorkersOK, RunnersOK, CountsOK
  <2>6. QED
    BY <2>3, <2>5 DEF TypeOK
<1>22. ASSUME NEW d \in Dedupers, DedupCrash(d)
       PROVE  TypeOK'
  <2>1. DedupOK'
    BY <1>a, <1>22 DEF DedupCrash, DedupOK
  <2>2. budget' \in 0..Budget
    BY <1>b, <1>22 DEF DedupCrash
  <2>3. ListsOK' /\ WorkersOK' /\ RunnersOK' /\ CountsOK'
    BY <1>a, <1>22, <2>2 DEF DedupCrash, ListsOK, WorkersOK, RunnersOK, CountsOK
  <2>4. QED
    BY <2>1, <2>3 DEF TypeOK
<1>23. CASE UNCHANGED vars
  BY <1>23 DEF TypeOK, vars, ListsOK, WorkersOK, RunnersOK, DedupOK, CountsOK
<1>24. QED
  BY <1>1, <1>2, <1>3, <1>4, <1>5, <1>6, <1>7, <1>8, <1>9, <1>10, <1>11, <1>12, <1>13,
     <1>14, <1>15, <1>16, <1>17, <1>18, <1>19, <1>20, <1>21, <1>22, <1>23
     DEF Next, WorkerStep, StartupStep

LEMMA TypeInit == Init => TypeOK
<1> SUFFICES ASSUME Init
             PROVE  TypeOK
  OBVIOUS
<1>1. ListsOK /\ CountsOK /\ DedupOK
  <2>1. ListsOK
    BY DEF Init, ListsOK
  <2>2. CountsOK
    <3>1. 0 \in 0..JobCount /\ Budget \in 0..Budget
      BY ConstantsAssumption
    <3>2. QED
      BY <3>1 DEF Init, CountsOK
  <2>3. DedupOK
    BY DEF Init, DedupOK
  <2>4. QED
    BY <2>1, <2>2, <2>3
<1>2. WorkersOK /\ RunnersOK
  BY OffType, HaltedType DEF Init, WorkersOK, RunnersOK
<1>3. QED
  BY <1>1, <1>2 DEF TypeOK

(* Every reachable state has the declared types, and a worker process has a *)
(* job exactly between taking one and acknowledging it.                     *)
THEOREM TypeCorrect == Spec => []TypeOK
  BY TypeInit, TypeStep, PTL DEF Spec

-----------------------------------------------------------------------------
(* At-least-once. *)

(* Steps that leave the lists alone, and the jobs of the workers except for *)
(* taking some away, preserve everything but what start-ups have gathered.  *)
LEMMA QuietStep ==
  ASSUME TypeOK, IInv, TypeOK',
         UNCHANGED <<main, proc, unacked, created, unrun>>, dropped \subseteq dropped',
         \A p \in Procs : \/ worker'[p].job = worker[p].job /\ worker'[p].pc = worker[p].pc
                          \/ worker'[p].job \in {worker[p].job, NoJob} /\ worker'[p].pc # "ran",
         \A m \in Machines : ToSet(boot'[m].gathered) \subseteq ToSet(boot[m].gathered),
         GatheredAll'
  PROVE  IInv'
<1>1. RanIsDone'
  BY DEF IInv, RanIsDone
<1>2. InRedis' = InRedis
  BY DEF InRedis, InFlight
<1>3. OnlyPushed'
  BY <1>2 DEF IInv, OnlyPushed
<1>4. KeptUntilRun'
  BY <1>2 DEF IInv, KeptUntilRun
<1>5. QED
  BY <1>1, <1>3, <1>4 DEF IInv

(* GatheredAll looks at the processing lists and the runners only. *)
LEMMA SameGathered ==
  ASSUME GatheredAll, UNCHANGED <<proc, boot>>
  PROVE  GatheredAll'
  BY DEF GatheredAll

(* A write to the processing lists ws that marks the start-ups watching     *)
(* them leaves the others with what they have gathered.                     *)
LEMMA WriteGathered ==
  ASSUME RunnersOK, GatheredAll, NEW ws, boot' = Touch(ws),
         \A w \in Nums \ ws : ToSet(proc'[w]) \subseteq ToSet(proc[w])
  PROVE  GatheredAll'
<1> SUFFICES ASSUME NEW m \in Machines, boot'[m].phase = "read", ~boot'[m].touched,
                    NEW w \in boot'[m].stale \ boot'[m].unread
             PROVE  ToSet(proc'[w]) \subseteq ToSet(boot'[m].gathered)
  BY DEF GatheredAll
<1>1. /\ boot[m].phase = "read" /\ ~boot[m].touched /\ ws \cap boot[m].stale = {}
      /\ w \in boot[m].stale \ boot[m].unread
      /\ boot'[m].gathered = boot[m].gathered
  <2>1. /\ boot[m].phase = "read" /\ w \in boot[m].stale \ boot[m].unread
        /\ boot'[m].gathered = boot[m].gathered
    BY TouchOnlyMarks
  <2>2. ~ (boot[m].touched \/ (boot[m].phase = "read" /\ ws \cap boot[m].stale # {}))
    BY TouchOnlyMarks, Zenon
  <2>3. QED
    BY <2>1, <2>2, Zenon
<1>2. w \in Nums \ ws
  BY <1>1 DEF RunnersOK, Runners
<1>3. QED
  BY <1>1, <1>2 DEF GatheredAll

LEMMA KeptStep == IInv /\ [Next]_vars => IInv'
<1> SUFFICES ASSUME IInv, [Next]_vars
             PROVE  IInv'
  OBVIOUS
<1> USE DEF redis, dedup, history
<1>a. /\ ListsOK /\ WorkersOK /\ RunnersOK /\ DedupOK /\ CountsOK /\ TypeOK
      /\ RanIsDone /\ OnlyPushed /\ GatheredAll /\ KeptUntilRun
  BY DEF IInv, TypeOK
<1>b. TypeOK'
  BY TypeStep DEF IInv
<1>c. ASSUME NEW x
      PROVE  x \in InRedis <=> x \in ToSet(main) \/ \E w \in Nums : x \in ToSet(proc[w])
  BY DEF InRedis, InFlight
<1>d. ASSUME NEW x
      PROVE  x \in InRedis' <=> x \in ToSet(main') \/ \E w \in Nums : x \in ToSet(proc'[w])
  BY DEF InRedis, InFlight
<1>e. created \in Nat
  BY <1>a, ConstantsAssumption DEF CountsOK
<1>1. ASSUME NEW hi \in (created + 1)..JobCount, NEW lost \in BOOLEAN, BulkEnqueue(hi, lost)
      PROVE  IInv'
  <2>1. /\ Batch(hi) \in Seq(Raws) /\ ToSet(Batch(hi)) = (created + 1)..hi
    BY <1>a, BatchType
  <2>2. ToSet(main') = ((created + 1)..hi) \cup ToSet(main)
    <3>1. main' = Reverse(Batch(hi)) \o main
      BY <1>1 DEF BulkEnqueue, LPush
    <3>2. /\ Reverse(Batch(hi)) \in Seq(Raws)
          /\ ToSet(Reverse(Batch(hi))) = (created + 1)..hi
      BY <2>1, ReverseKeeps
    <3>3. main \in Seq(Raws)
      BY <1>a DEF ListsOK
    <3> DEFINE b == Reverse(Batch(hi))
    <3>4. b \in Seq(Raws)
      BY <3>2
    <3> HIDE DEF b
    <3>5. ToSet(b \o main) = ToSet(b) \cup ToSet(main)
      BY <3>3, <3>4, ConcatKeeps
    <3>6. QED
      BY <3>1, <3>2, <3>5 DEF b
  <2>3. /\ proc' = proc /\ worker' = worker /\ boot' = boot /\ dropped' = dropped
        /\ created' = hi /\ unrun' = unrun \cup (created + 1)..hi
        /\ unacked' = unacked \/ unacked' = Batch(hi)
    BY <1>1 DEF BulkEnqueue
  <2>4. 1..created \subseteq 1..hi /\ (created + 1)..hi \subseteq 1..hi
        /\ (1..created) \cap ((created + 1)..hi) = {}
    BY <1>e
  <2>5. RanIsDone'
    <3> SUFFICES ASSUME NEW p \in Procs, worker[p].pc = "ran"
                 PROVE  worker[p].job \notin unrun'
      BY <2>3 DEF RanIsDone
    <3>1. worker[p].job \in 1..created
      BY <1>a DEF OnlyPushed, WorkersOK
    <3>2. QED
      BY <1>a, <2>3, <2>4, <3>1 DEF RanIsDone
  <2>6. InRedis' = InRedis \cup (created + 1)..hi
    BY <2>2, <2>3 DEF InRedis, InFlight
  <2>7. OnlyPushed'
    BY <1>a, <1>e, <2>1, <2>3, <2>4, <2>6 DEF OnlyPushed
  <2>8. KeptUntilRun'
    BY <1>a, <2>3, <2>6 DEF KeptUntilRun
  <2>9. QED
    BY <1>a, <1>b, <2>3, <2>5, <2>7, <2>8, SameGathered DEF IInv
<1>2. CASE RetryEnqueue
  <2>1. ToSet(main') = ToSet(unacked) \cup ToSet(main)
    BY <1>a, <1>2, ReverseKeeps, ConcatKeeps DEF RetryEnqueue, LPush, ListsOK
  <2>2. InRedis' = InRedis \cup ToSet(unacked)
    BY <1>2, <2>1 DEF RetryEnqueue, InRedis, InFlight
  <2>3. OnlyPushed'
    <3>1. ToSet(unacked') = {}
      BY <1>2 DEF RetryEnqueue, ToSet
    <3>2. QED
      BY <1>a, <1>2, <2>2, <3>1 DEF RetryEnqueue, OnlyPushed
  <2>4. KeptUntilRun' /\ RanIsDone' /\ GatheredAll'
    BY <1>a, <1>2, <2>2, SameGathered DEF RetryEnqueue, KeptUntilRun, RanIsDone
  <2>5. QED
    BY <1>b, <2>3, <2>4 DEF IInv
<1>3. CASE Clear
  <2>1. InRedis' = InFlight /\ InFlight \subseteq InRedis
    <3>1. ToSet(main') = {}
      BY <1>3 DEF Clear, ToSet
    <3>2. QED
      BY <1>3, <3>1 DEF Clear, InRedis, InFlight
  <2>2. OnlyPushed'
    BY <1>a, <1>3, <2>1 DEF Clear, OnlyPushed
  <2>3. KeptUntilRun' /\ RanIsDone' /\ GatheredAll'
    BY <1>a, <1>3, <2>1, SameGathered DEF Clear, KeptUntilRun, RanIsDone
  <2>4. QED
    BY <1>b, <2>2, <2>3 DEF IInv
<1>4. CASE Pause \/ Unpause \/ \E d \in Dedupers : Scan(d) \/ DedupCrash(d)
  <2>1. UNCHANGED <<main, proc, unacked, created, unrun, dropped, worker, boot>>
    BY <1>4 DEF Pause, Unpause, Scan, DedupCrash
  <2>2. QED
    BY <1>a, <1>b, <2>1, SameGathered, QuietStep
<1>5. ASSUME NEW p \in Procs,
             \/ CheckPause(p) \/ PopTimeout(p) \/ TimesOut(p) \/ Die(p) \/ WorkerStops(p)
             \/ \E m \in Machines, w \in Nums : SpawnWorker(p, m, w)
      PROVE  IInv'
  <2>1. UNCHANGED <<main, proc, unacked, created, unrun, dropped, boot>>
    BY <1>5 DEF CheckPause, PopTimeout, TimesOut, Die, WorkerStops, SpawnWorker
  <2>2. ASSUME NEW q \in Procs
        PROVE  \/ worker'[q].job = worker[q].job /\ worker'[q].pc = worker[q].pc
               \/ worker'[q].job \in {worker[q].job, NoJob} /\ worker'[q].pc # "ran"
    <3>1. worker[p] \in Workers
      BY <1>a DEF WorkersOK
    <3>2. CASE q # p
      BY <1>a, <1>5, <3>2
         DEF CheckPause, PopTimeout, TimesOut, Die, WorkerStops, SpawnWorker, GoTo, WorkersOK
    <3>3. CASE q = p /\ (CheckPause(p) \/ PopTimeout(p))
      <4>1. \/ worker'[p] = [worker[p] EXCEPT !.pc = "checked"]
            \/ worker'[p] = [worker[p] EXCEPT !.pc = "idle"]
        BY <1>a, <3>3 DEF CheckPause, PopTimeout, GoTo, WorkersOK
      <4>2. worker'[p].job = worker[p].job /\ worker'[p].pc # "ran"
        BY <3>1, <4>1 DEF Workers
      <4>3. QED
        BY <3>3, <4>2
    <3>4. CASE q = p /\ (TimesOut(p) \/ Die(p) \/ WorkerStops(p))
      <4>1. worker'[p] = Off
        BY <1>a, <3>4, OffStaysTyped DEF TimesOut, Die, WorkerStops
      <4>2. QED
        BY <3>4, <4>1, OffType
    <3>5. CASE q = p /\ \E m \in Machines, w \in Nums : SpawnWorker(p, m, w)
      <4>1. PICK m \in Machines, w \in Nums :
              worker'[p] = [Off EXCEPT !.pc = "idle", !.host = m, !.slot = w]
        BY <1>a, <3>5 DEF SpawnWorker, WorkersOK
      <4>2. worker'[p].job = NoJob /\ worker'[p].pc = "idle"
        BY <4>1, OffType DEF Workers
      <4>3. QED
        BY <3>5, <4>2
    <3>6. QED
      BY <1>5, <3>2, <3>3, <3>4, <3>5
  <2>3. QED
    BY <1>a, <1>b, <2>1, <2>2, SameGathered, QuietStep
<1>6. ASSUME NEW p \in Procs, PeekProcessing(p)
      PROVE  IInv'
  <2> DEFINE mine == proc[worker[p].slot]
  <2>1. /\ UNCHANGED <<main, proc, unacked, created, unrun, dropped, boot>>
        /\ worker[p] \in Workers /\ worker[p].slot \in Nums /\ mine \in Seq(Raws)
    BY <1>a, <1>6, SlotType DEF PeekProcessing, ListsOK, WorkersOK
  <2>2. CASE mine = <<>>
    <3>1. worker' = [worker EXCEPT ![p] = [worker[p] EXCEPT !.pc = "empty"]]
      BY <1>6, <2>2 DEF PeekProcessing, GoTo
    <3>2. /\ \A q \in Procs \ {p} : worker'[q] = worker[q]
          /\ worker'[p].job = worker[p].job /\ worker'[p].pc = "empty"
      BY <1>a, <2>1, <3>1 DEF WorkersOK, Workers
    <3>3. QED
      BY <1>a, <1>b, <2>1, <3>2, SameGathered, QuietStep
  <2>3. CASE mine # <<>>
    <3>1. Last(mine) \in Raws /\ Last(mine) \in InRedis
      BY <1>c, <2>1, <2>3, TailOfList
    <3>2. /\ worker'[p].job = Last(mine) /\ worker'[p].pc = "running"
          /\ \A q \in Procs \ {p} : worker'[q] = worker[q]
      BY <1>a, <1>6, <2>3, <3>1, TakeJobType DEF PeekProcessing
    <3>3. InRedis' = InRedis
      BY <2>1 DEF InRedis, InFlight
    <3>4. OnlyPushed' /\ RanIsDone' /\ KeptUntilRun'
      BY <1>a, <2>1, <3>1, <3>2, <3>3 DEF OnlyPushed, RanIsDone, KeptUntilRun
    <3>5. QED
      BY <1>a, <1>b, <2>1, <3>4, SameGathered DEF IInv
  <2>4. QED
    BY <2>2, <2>3
<1>7. ASSUME NEW p \in Procs, PopMain(p)
      PROVE  IInv'
  <2> DEFINE w == worker[p].slot
             j == Last(main)
  <2>1. /\ w \in Nums /\ j \in Raws /\ j \in ToSet(main) /\ Front(main) \in Seq(Raws)
        /\ ToSet(main) = ToSet(Front(main)) \cup {j}
    BY <1>a, <1>7, SlotType, TailOfList DEF PopMain, ListsOK
  <2>2. /\ main' = Front(main) /\ proc' = [proc EXCEPT ![w] = <<j>> \o @]
        /\ boot' = Touch({w}) /\ UNCHANGED <<unacked, created, unrun, dropped>>
    BY <1>7 DEF PopMain
  <2>3. /\ worker'[p].job = j /\ worker'[p].pc = "running"
        /\ \A q \in Procs \ {p} : worker'[q] = worker[q]
    BY <1>a, <1>7, <2>1, TakeJobType DEF PopMain
  <2>4. /\ ToSet(proc'[w]) = {j} \cup ToSet(proc[w])
        /\ \A v \in Nums \ {w} : proc'[v] = proc[v]
    <3> DEFINE b == <<j>>
    <3>1. b \in Seq(Raws) /\ ToSet(b) = {j}
      BY <2>1 DEF ToSet
    <3> HIDE DEF b
    <3>2. proc[w] \in Seq(Raws)
      BY <1>a, <2>1 DEF ListsOK
    <3>3. ToSet(b \o proc[w]) = ToSet(b) \cup ToSet(proc[w])
      BY <3>1, <3>2, ConcatKeeps
    <3>4. proc'[w] = <<j>> \o proc[w] /\ \A v \in Nums \ {w} : proc'[v] = proc[v]
      BY <1>a, <2>1, <2>2 DEF ListsOK
    <3>5. QED
      BY <3>1, <3>3, <3>4 DEF b
  <2>5. InRedis' = InRedis
    <3>1. ASSUME NEW x
          PROVE  x \in InRedis' <=> x \in InRedis
      BY <1>c, <1>d, <2>1, <2>2, <2>4
    <3>2. QED
      BY <3>1
  <2>6. GatheredAll'
    BY <1>a, <2>2, <2>4, WriteGathered
  <2>7. \A m \in Machines : boot'[m].gathered = boot[m].gathered
    BY <1>a, <2>2, TouchOnlyMarks
  <2>8. OnlyPushed' /\ RanIsDone' /\ KeptUntilRun'
    <3>1. j \in 1..created
      BY <1>a, <1>c, <2>1 DEF OnlyPushed
    <3>2. QED
      BY <1>a, <2>2, <2>3, <2>5, <2>7, <3>1 DEF OnlyPushed, RanIsDone, KeptUntilRun
  <2>9. QED
    BY <1>b, <2>6, <2>8 DEF IInv
<1>8. ASSUME NEW p \in Procs, Finish(p)
      PROVE  IInv'
  <2>1. /\ UNCHANGED <<main, proc, unacked, created, dropped, boot>>
        /\ unrun' = unrun \ {worker[p].job} /\ worker[p] \in Workers
        /\ worker' = [worker EXCEPT ![p] = [worker[p] EXCEPT !.pc = "ran"]]
    BY <1>a, <1>8 DEF Finish, GoTo, WorkersOK
  <2>2. /\ worker'[p].job = worker[p].job
        /\ \A q \in Procs \ {p} : worker'[q] = worker[q]
    BY <1>a, <2>1 DEF WorkersOK, Workers
  <2>3. InRedis' = InRedis
    BY <2>1 DEF InRedis, InFlight
  <2>4. OnlyPushed' /\ RanIsDone' /\ KeptUntilRun'
    BY <1>a, <2>1, <2>2, <2>3 DEF OnlyPushed, RanIsDone, KeptUntilRun
  <2>5. QED
    BY <1>a, <1>b, <2>1, <2>4, SameGathered DEF IInv
<1>9. ASSUME NEW p \in Procs, Processed(p)
      PROVE  IInv'
  <2> DEFINE w == worker[p].slot
             r == worker[p].job
  <2>1. /\ w \in Nums /\ worker[p] \in Workers /\ r \notin unrun
        /\ proc' = [proc EXCEPT ![w] = RemoveFirst(@, r)]
        /\ UNCHANGED <<main, unacked, created, unrun, dropped>>
    BY <1>a, <1>9, SlotType DEF Processed, WorkersOK, RanIsDone
  <2>2. /\ worker'[p].job = NoJob /\ worker'[p].pc = "idle"
        /\ \A q \in Procs \ {p} : worker'[q] = worker[q]
    <3>1. /\ worker'[p] = [worker[p] EXCEPT !.pc = "idle", !.job = NoJob, !.covers = {}]
          /\ \A q \in Procs \ {p} : worker'[q] = worker[q]
      BY <1>a, <1>9 DEF Processed, WorkersOK
    <3>2. QED
      BY <2>1, <3>1 DEF Workers
  <2>3. /\ ToSet(proc'[w]) \subseteq ToSet(proc[w])
        /\ ToSet(proc[w]) \subseteq ToSet(proc'[w]) \cup {r}
        /\ r \notin ToSet(proc[w]) => proc'[w] = proc[w]
        /\ \A v \in Nums \ {w} : proc'[v] = proc[v]
    BY <1>a, <2>1, RemoveFirstKeeps DEF ListsOK
  <2>4. InRedis' \subseteq InRedis /\ InRedis \subseteq InRedis' \cup {r}
    <3>1. ASSUME NEW x, x \in InRedis'
          PROVE  x \in InRedis
      BY <1>c, <1>d, <2>1, <2>3, <3>1
    <3>2. ASSUME NEW x, x \in InRedis, x # r
          PROVE  x \in InRedis'
      BY <1>c, <1>d, <2>1, <2>3, <3>2
    <3>3. QED
      BY <3>1, <3>2
  <2>5. GatheredAll' /\ \A m \in Machines : boot'[m].gathered = boot[m].gathered
    <3>1. CASE r \in ToSet(proc[w])
      <4>1. boot' = Touch({w})
        BY <1>9, <3>1 DEF Processed
      <4>2. QED
        BY <1>a, <2>3, <4>1, TouchOnlyMarks, WriteGathered
    <3>2. CASE r \notin ToSet(proc[w])
      <4>1. boot' = boot /\ \A v \in Nums : proc'[v] = proc[v]
        BY <1>9, <2>3, <3>2 DEF Processed
      <4>2. \A m \in Machines : boot[m].stale \subseteq Nums
        BY <1>a DEF RunnersOK, Runners
      <4>3. QED
        BY <1>a, <4>1, <4>2 DEF GatheredAll
    <3>3. QED
      BY <3>1, <3>2
  <2>6. OnlyPushed' /\ RanIsDone' /\ KeptUntilRun'
    BY <1>a, <2>1, <2>2, <2>4, <2>5 DEF OnlyPushed, RanIsDone, KeptUntilRun
  <2>7. QED
    BY <1>b, <2>5, <2>6 DEF IInv
<1>10. ASSUME NEW m \in Machines, NEW r \in Runners, boot' = [boot EXCEPT ![m] = r],
              ToSet(r.gathered) \subseteq ToSet(boot[m].gathered), r.phase # "read",
              UNCHANGED <<main, proc, unacked, created, unrun, dropped>>,
              \A p \in Procs : worker'[p].job = worker[p].job /\ worker'[p].pc = worker[p].pc
       PROVE  IInv'
  <2>1. boot'[m] = r /\ \A o \in Machines \ {m} : boot'[o] = boot[o]
    BY <1>a, <1>10 DEF RunnersOK
  <2>2. GatheredAll'
    BY <1>a, <1>10, <2>1 DEF GatheredAll
  <2>3. \A o \in Machines : ToSet(boot'[o].gathered) \subseteq ToSet(boot[o].gathered)
    BY <1>10, <2>1
  <2>4. QED
    BY <1>a, <1>b, <1>10, <2>2, <2>3, QuietStep
<1>11. ASSUME NEW m \in Machines,
              \/ (\E n \in WorkerCounts : Boot(m, n)) \/ Stopped(m)
              \/ FindStale(m) \/ ExecAborts(m) \/ Stop(m)
       PROVE  IInv'
  <2>1. /\ UNCHANGED <<main, proc, unacked, created, unrun, dropped, worker>>
        /\ boot[m] \in Runners
    BY <1>a, <1>11 DEF Boot, Stopped, FindStale, ExecAborts, Stop, RunnersOK
  <2>2. ToSet(Halted.gathered) = {}
    BY DEF Halted, ToSet
  <2>3. CASE \E n \in WorkerCounts : Boot(m, n)
    <3>1. PICK n \in WorkerCounts, phase \in {"up", "keys"} :
            boot' = [boot EXCEPT ![m] = [Halted EXCEPT !.workers = n, !.phase = phase]]
      BY <2>3 DEF Boot
    <3> DEFINE r == [Halted EXCEPT !.workers = n, !.phase = phase]
    <3>2. r \in Runners /\ r.gathered = Halted.gathered /\ r.phase # "read"
      BY HaltedType DEF Runners, Phases
    <3> HIDE DEF r
    <3>3. QED
      BY <1>10, <2>1, <2>2, <3>1, <3>2 DEF r
  <2>4. CASE Stopped(m)
    BY <1>10, <2>1, <2>2, <2>4, HaltedType DEF Stopped
  <2>5. CASE FindStale(m)
    <3>1. PICK stale \in SUBSET Nums, phase \in {"up", "watch"} :
            boot' = [boot EXCEPT ![m] = [boot[m] EXCEPT !.stale = stale, !.phase = phase]]
      BY <2>5 DEF FindStale
    <3> DEFINE r == [boot[m] EXCEPT !.stale = stale, !.phase = phase]
    <3>2. r \in Runners /\ r.gathered = boot[m].gathered /\ r.phase # "read"
      BY <2>1 DEF Runners, Phases
    <3> HIDE DEF r
    <3>3. QED
      BY <1>10, <2>1, <3>1, <3>2 DEF r
  <2>6. CASE ExecAborts(m) \/ Stop(m)
    <3>1. PICK phase \in {"watch", "stopping"} :
            boot' = [boot EXCEPT ![m] = [boot[m] EXCEPT !.phase = phase]]
      BY <2>6 DEF ExecAborts, Stop
    <3> DEFINE r == [boot[m] EXCEPT !.phase = phase]
    <3>2. r \in Runners /\ r.gathered = boot[m].gathered /\ r.phase # "read"
      BY <2>1 DEF Runners, Phases
    <3> HIDE DEF r
    <3>3. QED
      BY <1>10, <2>1, <3>1, <3>2 DEF r
  <2>7. QED
    BY <1>11, <2>3, <2>4, <2>5, <2>6
<1>12. ASSUME NEW m \in Machines, KillRunner(m)
       PROVE  IInv'
  <2>1. ASSUME NEW p \in Procs
        PROVE  worker'[p].job = worker[p].job /\ worker'[p].pc = worker[p].pc
    <3>1. worker[p] \in Workers
      BY <1>a DEF WorkersOK
    <3>2. worker'[p] = worker[p] \/ worker'[p] = [worker[p] EXCEPT !.host = NoHost]
      BY <1>12 DEF KillRunner
    <3>3. QED
      BY <3>1, <3>2 DEF Workers
  <2>2. /\ UNCHANGED <<main, proc, unacked, created, unrun, dropped>>
        /\ boot' = [boot EXCEPT ![m] = Halted] /\ ToSet(Halted.gathered) = {}
    BY <1>12 DEF KillRunner, Halted, ToSet
  <2>3. QED
    BY <1>10, <2>1, <2>2, HaltedType
<1>13. ASSUME NEW m \in Machines, Watch(m)
       PROVE  IInv'
  <2>1. /\ UNCHANGED <<main, proc, unacked, created, unrun, dropped, worker>>
        /\ \A o \in Machines \ {m} : boot'[o] = boot[o]
        /\ boot'[m] = [boot[m] EXCEPT !.phase = "read", !.touched = FALSE,
                         !.unread = boot[m].stale, !.gathered = <<>>]
        /\ boot[m] \in Runners
    BY <1>a, <1>13 DEF Watch, RunnersOK
  <2>2. boot'[m].unread = boot'[m].stale /\ boot'[m].gathered = <<>>
    BY <2>1 DEF Runners
  <2>3. ToSet(boot'[m].gathered) = {}
    BY <2>2 DEF ToSet
  <2>4. GatheredAll'
    BY <1>a, <2>1, <2>2 DEF GatheredAll
  <2>5. \A o \in Machines : ToSet(boot'[o].gathered) \subseteq ToSet(boot[o].gathered)
    BY <2>1, <2>3
  <2>6. QED
    BY <1>a, <1>b, <2>1, <2>4, <2>5, QuietStep
<1>14. ASSUME NEW m \in Machines, NEW w \in Nums, ReadKey(m, w)
       PROVE  IInv'
  <2>1. /\ UNCHANGED <<main, proc, unacked, created, unrun, dropped, worker>>
        /\ \A o \in Machines \ {m} : boot'[o] = boot[o]
        /\ boot'[m] = [boot[m] EXCEPT !.unread = boot[m].unread \ {w},
                         !.gathered = boot[m].gathered \o proc[w]]
        /\ boot[m] \in Runners /\ proc[w] \in Seq(Raws)
    BY <1>a, <1>14 DEF ReadKey, RunnersOK, ListsOK
  <2>2. /\ boot'[m].phase = boot[m].phase /\ boot'[m].touched = boot[m].touched
        /\ boot'[m].stale = boot[m].stale /\ boot'[m].unread = boot[m].unread \ {w}
        /\ boot'[m].gathered = boot[m].gathered \o proc[w]
        /\ boot[m].gathered \in Seq(Raws)
    BY <2>1 DEF Runners
  <2>3. ToSet(boot'[m].gathered) = ToSet(boot[m].gathered) \cup ToSet(proc[w])
    BY <2>1, <2>2, ConcatKeeps
  <2>4. GatheredAll'
    <3>1. ASSUME NEW v \in boot'[m].stale \ boot'[m].unread,
                 boot'[m].phase = "read", ~boot'[m].touched
          PROVE  ToSet(proc'[v]) \subseteq ToSet(boot'[m].gathered)
      <4>1. CASE v = w
        BY <2>1, <2>3, <4>1
      <4>2. CASE v # w
        BY <1>a, <2>1, <2>2, <2>3, <3>1, <4>2 DEF GatheredAll
      <4> QED
        BY <4>1, <4>2
    <3> QED
      BY <1>a, <2>1, <3>1 DEF GatheredAll
  <2>5. InRedis' = InRedis /\ ToSet(proc[w]) \subseteq InRedis
    BY <1>14, <2>1 DEF InRedis, InFlight
  <2>6. OnlyPushed' /\ RanIsDone' /\ KeptUntilRun'
    BY <1>a, <2>1, <2>3, <2>5 DEF OnlyPushed, RanIsDone, KeptUntilRun
  <2>7. QED
    BY <1>b, <2>4, <2>6 DEF IInv
<1>15. ASSUME NEW m \in Machines, Exec(m)
       PROVE  IInv'
  <2> DEFINE stale == boot[m].stale
             written == {w \in stale : proc[w] # <<>>}
             r == [Halted EXCEPT !.phase = "up", !.workers = boot[m].workers]
  <2>1. /\ UNCHANGED <<unacked, created, unrun, dropped, worker>>
        /\ main' = main \o boot[m].gathered
        /\ proc' = [w \in Nums |-> IF w \in stale THEN <<>> ELSE proc[w]]
        /\ boot' = [Touch(written) EXCEPT ![m] = r]
        /\ boot[m].phase = "read" /\ boot[m].unread = {} /\ ~boot[m].touched
    BY <1>15 DEF Exec
  <2>2. boot[m] \in Runners /\ boot[m].gathered \in Seq(Raws) /\ stale \subseteq Nums
    BY <1>a DEF RunnersOK, Runners
  <2>3. ToSet(main') = ToSet(main) \cup ToSet(boot[m].gathered)
    BY <1>a, <2>1, <2>2, ConcatKeeps DEF ListsOK
  <2>4. \A w \in stale : ToSet(proc[w]) \subseteq ToSet(boot[m].gathered)
    BY <1>a, <2>1 DEF GatheredAll
  <2>5. /\ \A w \in stale : ToSet(proc'[w]) = {}
        /\ \A w \in Nums \ stale : proc'[w] = proc[w]
    BY <2>1, <2>2 DEF ToSet
  <2>6. InRedis \subseteq InRedis' /\ InRedis' \subseteq InRedis \cup ToSet(boot[m].gathered)
    <3>1. ASSUME NEW x, x \in InRedis
          PROVE  x \in InRedis'
      <4>1. CASE x \in ToSet(main)
        BY <1>d, <2>3, <4>1
      <4>2. ASSUME NEW w \in Nums, x \in ToSet(proc[w])
            PROVE  x \in InRedis'
        BY <1>d, <2>3, <2>4, <2>5, <4>2
      <4>3. QED
        BY <1>c, <3>1, <4>1, <4>2
    <3>2. ASSUME NEW x, x \in InRedis'
          PROVE  x \in InRedis \cup ToSet(boot[m].gathered)
      BY <1>c, <1>d, <2>2, <2>3, <2>5, <3>2
    <3>3. QED
      BY <3>1, <3>2
  <2>7. r.phase = "up" /\ r.gathered = <<>>
    BY HaltedType DEF Halted
  <2>8. /\ Touch(written) \in [Machines -> Runners]
        /\ boot'[m] = r /\ \A o \in Machines \ {m} : boot'[o] = Touch(written)[o]
    BY <1>a, <2>1, TouchOnlyMarks
  <2> HIDE DEF r, written
  <2>9. \A o \in Machines : ToSet(boot'[o].gathered) \subseteq ToSet(boot[o].gathered)
    <3>1. ToSet(r.gathered) = {}
      BY <2>7 DEF ToSet
    <3>2. QED
      BY <1>a, <2>8, <3>1, TouchOnlyMarks
  <2>10. GatheredAll'
    <3> SUFFICES ASSUME NEW o \in Machines, boot'[o].phase = "read", ~boot'[o].touched,
                        NEW w \in boot'[o].stale \ boot'[o].unread
                 PROVE  ToSet(proc'[w]) \subseteq ToSet(boot'[o].gathered)
      BY DEF GatheredAll
    <3>1. o # m /\ boot'[o] = Touch(written)[o]
      BY <2>7, <2>8
    <3>2. /\ boot[o].phase = "read" /\ w \in boot[o].stale \ boot[o].unread
          /\ boot'[o].gathered = boot[o].gathered
      BY <1>a, <3>1, TouchOnlyMarks
    <3>3. ~ boot[o].touched
      BY <1>a, <3>1, TouchOnlyMarks, Zenon
    <3>4. w \in Nums /\ ToSet(proc[w]) \subseteq ToSet(boot[o].gathered)
      BY <1>a, <3>2, <3>3 DEF GatheredAll, RunnersOK, Runners
    <3>5. ToSet(proc'[w]) \subseteq ToSet(proc[w])
      BY <2>5, <3>4
    <3>6. QED
      BY <3>2, <3>4, <3>5
  <2>11. OnlyPushed' /\ RanIsDone' /\ KeptUntilRun'
    BY <1>a, <2>1, <2>6, <2>9 DEF OnlyPushed, RanIsDone, KeptUntilRun
  <2>12. QED
    BY <1>b, <2>10, <2>11 DEF IInv
<1>16. ASSUME NEW d \in Dedupers, RemoveTwin(d)
       PROVE  IInv'
  <2>1. PICK i \in todo[d] :
          /\ main' = RemoveFirst(main, snap[d][i])
          /\ dropped' = IF snap[d][i] \in ToSet(main) THEN dropped \cup {snap[d][i]} ELSE dropped
          /\ UNCHANGED <<proc, created, unacked, worker, boot, unrun>>
    BY <1>16 DEF RemoveTwin
  <2> DEFINE e == snap[d][i]
  <2>2. /\ ToSet(main') \subseteq ToSet(main) /\ ToSet(main) \subseteq ToSet(main') \cup {e}
        /\ e \notin ToSet(main) => main' = main
    BY <1>a, <2>1, RemoveFirstKeeps DEF ListsOK
  <2>3. InRedis' \subseteq InRedis /\ InRedis \ dropped' \subseteq InRedis'
    BY <2>1, <2>2 DEF InRedis, InFlight
  <2>4. OnlyPushed' /\ RanIsDone'
    BY <1>a, <2>1, <2>3 DEF OnlyPushed, RanIsDone
  <2>5. KeptUntilRun'
    <3>1. dropped \subseteq dropped'
      BY <2>1
    <3>2. QED
      BY <1>a, <2>1, <2>3, <3>1 DEF KeptUntilRun
  <2>6. QED
    BY <1>a, <1>b, <2>1, <2>4, <2>5, SameGathered DEF IInv
<1>17. CASE UNCHANGED vars
  <2>1. UNCHANGED <<main, proc, unacked, created, unrun, dropped, worker, boot>>
    BY <1>17 DEF vars
  <2>2. QED
    BY <1>a, <1>b, <2>1, SameGathered, QuietStep
<1>18. QED
  BY <1>1, <1>2, <1>3, <1>4, <1>5, <1>6, <1>7, <1>8, <1>9, <1>11, <1>12, <1>13, <1>14,
     <1>15, <1>16, <1>17
     DEF Next, WorkerStep, StartupStep

LEMMA KeptInit == Init => IInv
<1> SUFFICES ASSUME Init
             PROVE  IInv
  OBVIOUS
<1>1. TypeOK
  BY TypeInit
<1>2. InRedis = {} /\ ToSet(unacked) = {}
  BY DEF Init, InRedis, InFlight, ToSet
<1>3. \A p \in Procs : worker[p].job = NoJob /\ worker[p].pc = "down"
  BY OffType DEF Init
<1>4. \A m \in Machines : ToSet(boot[m].gathered) = {} /\ boot[m].phase = "down"
  BY HaltedType DEF Init, ToSet
<1>5. QED
  BY <1>1, <1>2, <1>3, <1>4 DEF Init, IInv, RanIsDone, OnlyPushed, GatheredAll, KeptUntilRun

(* At-least-once (reliable_redis.py:41).  A job that has been pushed stays  *)
(* in one of the Redis lists until it has been run to its end, is cleared,  *)
(* or is removed as a duplicate.  Processes and runners may die, machines   *)
(* start and stop with any worker counts, in any order, two processes may   *)
(* even share a worker number, and pushes may be repeated.                  *)
THEOREM AtLeastOnceHolds == Spec => []KeptUntilRun
<1>1. IInv => KeptUntilRun
  BY DEF IInv
<1>2. QED
  BY <1>1, KeptInit, KeptStep, PTL DEF Spec
-----------------------------------------------------------------------------
(* What a start-up that nobody has disturbed by the end of a step has seen  *)
(* of it: it has just begun to read, it has read one more list, or nothing. *)
LEMMA Undisturbed ==
  ASSUME TypeOK, [Next]_vars, NEW m \in Machines,
         boot'[m].phase = "read", ~boot'[m].touched
  PROVE  \/ /\ Watch(m) /\ UNCHANGED proc
            /\ boot'[m].gathered = <<>> /\ boot'[m].unread = boot'[m].stale
            /\ boot'[m].stale = boot[m].stale
         \/ \E w \in boot[m].unread :
              /\ boot[m].phase = "read" /\ ~boot[m].touched /\ UNCHANGED proc
              /\ boot'[m].stale = boot[m].stale /\ boot'[m].unread = boot[m].unread \ {w}
              /\ boot'[m].gathered = boot[m].gathered \o proc[w]
         \/ /\ boot[m].phase = "read" /\ ~boot[m].touched
            /\ boot'[m].stale = boot[m].stale /\ boot'[m].unread = boot[m].unread
            /\ boot'[m].gathered = boot[m].gathered
            /\ \A w \in boot[m].stale : proc'[w] = proc[w]
<1> USE DEF redis, dedup, history
<1>a. ListsOK /\ WorkersOK /\ RunnersOK /\ boot[m] \in Runners /\ boot[m].stale \subseteq Nums
  BY DEF TypeOK, RunnersOK, Runners
<1>1. CASE UNCHANGED <<proc, boot>>
  BY <1>1
<1>2. ASSUME NEW ws, boot'[m] = Touch(ws)[m], \A v \in Nums \ ws : proc'[v] = proc[v]
      PROVE  /\ boot[m].phase = "read" /\ ~boot[m].touched
             /\ boot'[m].stale = boot[m].stale /\ boot'[m].unread = boot[m].unread
             /\ boot'[m].gathered = boot[m].gathered
             /\ \A w \in boot[m].stale : proc'[w] = proc[w]
  <2>1. /\ boot[m].phase = "read"
        /\ boot'[m].stale = boot[m].stale /\ boot'[m].unread = boot[m].unread
        /\ boot'[m].gathered = boot[m].gathered
    BY <1>a, <1>2, TouchOnlyMarks
  <2>2. ~ (boot[m].touched \/ (boot[m].phase = "read" /\ ws \cap boot[m].stale # {}))
    BY <1>a, <1>2, TouchOnlyMarks, Zenon
  <2>3. ~boot[m].touched /\ ws \cap boot[m].stale = {}
    BY <2>1, <2>2, Zenon
  <2> QED
    BY <1>a, <1>2, <2>1, <2>3
<1>3. ASSUME NEW o \in Machines, NEW r, boot' = [boot EXCEPT ![o] = r], r.phase # "read",
             UNCHANGED proc
      PROVE  UNCHANGED proc /\ boot'[m] = boot[m]
  BY <1>a, <1>3 DEF RunnersOK
<1>4. ASSUME NEW p \in Procs, PopMain(p) \/ Processed(p)
      PROVE  \/ UNCHANGED <<proc, boot>>
             \/ \E w \in Nums : boot' = Touch({w}) /\ \A v \in Nums \ {w} : proc'[v] = proc[v]
  <2>1. worker[p].slot \in Nums
    BY <1>a, <1>4, SlotType DEF PopMain, Processed
  <2>2. CASE PopMain(p)
    BY <1>a, <2>1, <2>2 DEF PopMain, ListsOK
  <2>3. CASE Processed(p)
    <3>1. CASE worker[p].job \in ToSet(proc[worker[p].slot])
      BY <1>a, <2>1, <2>3, <3>1 DEF Processed, ListsOK
    <3>2. CASE worker[p].job \notin ToSet(proc[worker[p].slot])
      <4>1. RemoveFirst(proc[worker[p].slot], worker[p].job) = proc[worker[p].slot]
        BY <1>a, <2>1, <3>2, RemoveFirstKeeps DEF ListsOK
      <4>2. boot' = boot /\ proc' = [proc EXCEPT ![worker[p].slot] = proc[worker[p].slot]]
        BY <2>3, <3>2, <4>1 DEF Processed
      <4> QED
        BY <1>a, <4>2 DEF ListsOK
    <3> QED
      BY <3>1, <3>2
  <2> QED
    BY <1>4, <2>2, <2>3
<1>5. ASSUME NEW o \in Machines,
             \/ \E n \in WorkerCounts : Boot(o, n)
             \/ FindStale(o) \/ ExecAborts(o) \/ Stop(o) \/ Stopped(o) \/ KillRunner(o)
      PROVE  UNCHANGED proc /\ boot'[m] = boot[m]
  <2>1. boot[o] \in Runners
    BY <1>a DEF RunnersOK
  <2>2. UNCHANGED proc
    BY <1>5 DEF Boot, FindStale, ExecAborts, Stop, Stopped, KillRunner
  <2>3. CASE \E n \in WorkerCounts : Boot(o, n)
    <3>1. PICK n \in WorkerCounts, phase \in {"up", "keys"} :
            boot' = [boot EXCEPT ![o] = [Halted EXCEPT !.workers = n, !.phase = phase]]
      BY <2>3 DEF Boot
    <3> DEFINE r == [Halted EXCEPT !.workers = n, !.phase = phase]
    <3>2. r.phase # "read"
      BY DEF Halted
    <3> HIDE DEF r
    <3> QED
      BY <1>3, <2>2, <3>1, <3>2 DEF r
  <2>4. CASE FindStale(o)
    <3>1. PICK stale \in SUBSET Nums, phase \in {"up", "watch"} :
            boot' = [boot EXCEPT ![o] = [boot[o] EXCEPT !.stale = stale, !.phase = phase]]
      BY <2>4 DEF FindStale
    <3> DEFINE r == [boot[o] EXCEPT !.stale = stale, !.phase = phase]
    <3>2. r.phase # "read"
      BY <2>1 DEF Runners
    <3> HIDE DEF r
    <3> QED
      BY <1>3, <2>2, <3>1, <3>2 DEF r
  <2>5. CASE ExecAborts(o) \/ Stop(o)
    <3>1. PICK phase \in {"watch", "stopping"} :
            boot' = [boot EXCEPT ![o] = [boot[o] EXCEPT !.phase = phase]]
      BY <2>5 DEF ExecAborts, Stop
    <3> DEFINE r == [boot[o] EXCEPT !.phase = phase]
    <3>2. r.phase # "read"
      BY <2>1 DEF Runners
    <3> HIDE DEF r
    <3> QED
      BY <1>3, <2>2, <3>1, <3>2 DEF r
  <2>6. CASE Stopped(o) \/ KillRunner(o)
    <3>1. boot' = [boot EXCEPT ![o] = Halted] /\ Halted.phase # "read"
      BY <2>6, HaltedType DEF Stopped, KillRunner
    <3> QED
      BY <1>3, <2>2, <3>1
  <2> QED
    BY <1>5, <2>3, <2>4, <2>5, <2>6
<1>6. CASE \E o \in Machines : Watch(o)
  <2>1. PICK o \in Machines : Watch(o)
    BY <1>6
  <2>2. boot[o] \in Runners /\ boot[o].phase = "watch"
    BY <1>a, <2>1 DEF RunnersOK, Watch
  <2>3. CASE o = m
    <3>1. boot'[m] = [boot[m] EXCEPT !.phase = "read", !.touched = FALSE,
                        !.unread = boot[m].stale, !.gathered = <<>>]
      BY <1>a, <2>1, <2>3 DEF Watch, RunnersOK
    <3>2. /\ boot'[m].gathered = <<>> /\ boot'[m].unread = boot[m].stale
          /\ boot'[m].stale = boot[m].stale
      BY <1>a, <3>1 DEF Runners
    <3> QED
      BY <2>1, <2>3, <3>2 DEF Watch
  <2>4. CASE o # m
    BY <1>a, <2>1, <2>4 DEF Watch, RunnersOK
  <2> QED
    BY <2>3, <2>4
<1>7. CASE \E o \in Machines, w \in Nums : ReadKey(o, w)
  <2>1. PICK o \in Machines, w \in Nums : ReadKey(o, w)
    BY <1>7
  <2>2. CASE o = m
    <3>1. /\ boot'[m] = [boot[m] EXCEPT !.unread = boot[m].unread \ {w},
                           !.gathered = boot[m].gathered \o proc[w]]
          /\ w \in boot[m].unread /\ boot[m].phase = "read" /\ UNCHANGED proc
      BY <1>a, <2>1, <2>2 DEF ReadKey, RunnersOK
    <3>2. boot'[m].touched = boot[m].touched /\ boot'[m].stale = boot[m].stale
          /\ boot'[m].unread = boot[m].unread \ {w}
          /\ boot'[m].gathered = boot[m].gathered \o proc[w]
      BY <1>a, <3>1 DEF Runners
    <3> QED
      BY <3>1, <3>2
  <2>3. CASE o # m
    BY <1>a, <2>1, <2>3 DEF ReadKey, RunnersOK
  <2> QED
    BY <2>2, <2>3
<1>8. CASE \E o \in Machines : Exec(o)
  <2>1. PICK o \in Machines : Exec(o)
    BY <1>8
  <2> DEFINE written == {w \in boot[o].stale : proc[w] # <<>>}
             r == [Halted EXCEPT !.phase = "up", !.workers = boot[o].workers]
  <2>2. /\ boot' = [Touch(written) EXCEPT ![o] = r]
        /\ proc' = [w \in Nums |-> IF w \in boot[o].stale THEN <<>> ELSE proc[w]]
    BY <2>1 DEF Exec
  <2>3. Touch(written) \in [Machines -> Runners] /\ r.phase = "up"
    BY <1>a, TouchOnlyMarks, HaltedType DEF Halted
  <2>4. \A v \in Nums \ written : proc'[v] = proc[v]
    BY <2>2
  <2> HIDE DEF written, r
  <2>5. o # m /\ boot'[m] = Touch(written)[m]
    BY <2>2, <2>3
  <2> QED
    BY <1>2, <2>4, <2>5
<1>9. CASE \E p \in Procs : PopMain(p) \/ Processed(p)
  <2>1. \/ UNCHANGED <<proc, boot>>
        \/ \E w \in Nums : boot' = Touch({w}) /\ \A v \in Nums \ {w} : proc'[v] = proc[v]
    BY <1>4, <1>9
  <2> QED
    BY <1>1, <1>2, <2>1
<1>10. CASE \E o \in Machines :
             \/ \E n \in WorkerCounts : Boot(o, n)
             \/ FindStale(o) \/ ExecAborts(o) \/ Stop(o) \/ Stopped(o) \/ KillRunner(o)
  BY <1>a, <1>5, <1>10
<1>11. \/ UNCHANGED <<proc, boot>>
       \/ \E o \in Machines : Watch(o) \/ Exec(o)
       \/ \E o \in Machines, w \in Nums : ReadKey(o, w)
       \/ \E p \in Procs : PopMain(p) \/ Processed(p)
       \/ \E o \in Machines :
             \/ \E n \in WorkerCounts : Boot(o, n)
             \/ FindStale(o) \/ ExecAborts(o) \/ Stop(o) \/ Stopped(o) \/ KillRunner(o)
  <2>1. CASE UNCHANGED vars
    BY <2>1 DEF vars
  <2>2. CASE RetryEnqueue \/ Clear \/ Pause \/ Unpause
             \/ \E hi \in (created + 1)..JobCount, lost \in BOOLEAN : BulkEnqueue(hi, lost)
    BY <2>2 DEF RetryEnqueue, Clear, Pause, Unpause, BulkEnqueue
  <2>3. CASE \E p \in Procs : WorkerStep(p) \/ Die(p) \/ WorkerStops(p)
    BY <2>3 DEF WorkerStep, CheckPause, PeekProcessing, PopTimeout, Finish, TimesOut, Die, WorkerStops
  <2>4. CASE \E d \in Dedupers : Scan(d) \/ RemoveTwin(d) \/ DedupCrash(d)
    BY <2>4 DEF Scan, RemoveTwin, DedupCrash
  <2>5. CASE \E o \in Machines, p \in Procs, w \in Nums : SpawnWorker(p, o, w)
    BY <2>5 DEF SpawnWorker
  <2> QED
    BY <2>1, <2>2, <2>3, <2>4, <2>5 DEF Next, StartupStep
<1> QED
  BY <1>1, <1>6, <1>7, <1>8, <1>9, <1>10, <1>11

-----------------------------------------------------------------------------
(* The start-up transaction takes all there is, and nothing else. *)

(* What an undisturbed start-up has read is still where it read it.         *)
GatheredOnly ==
  \A m \in Machines : boot[m].phase = "read" /\ ~boot[m].touched =>
    \A x \in ToSet(boot[m].gathered) :
      \E w \in boot[m].stale \ boot[m].unread : x \in ToSet(proc[w])

LEMMA GatheredOnlyInit == Init => GatheredOnly
  BY HaltedType DEF Init, GatheredOnly

LEMMA GatheredOnlyStep == TypeOK /\ GatheredOnly /\ [Next]_vars => GatheredOnly'
<1> SUFFICES ASSUME TypeOK, GatheredOnly, [Next]_vars,
                    NEW m \in Machines, boot'[m].phase = "read", ~boot'[m].touched,
                    NEW x \in ToSet(boot'[m].gathered)
             PROVE  \E w \in boot'[m].stale \ boot'[m].unread : x \in ToSet(proc'[w])
  BY DEF GatheredOnly
<1>1. CASE boot'[m].gathered = <<>>
  BY <1>1 DEF ToSet
<1>2. ASSUME NEW w \in boot[m].unread, boot[m].phase = "read", ~boot[m].touched, UNCHANGED proc,
             boot'[m].stale = boot[m].stale, boot'[m].unread = boot[m].unread \ {w},
             boot'[m].gathered = boot[m].gathered \o proc[w]
      PROVE  \E v \in boot'[m].stale \ boot'[m].unread : x \in ToSet(proc'[v])
  <2>1. boot[m].gathered \in Seq(Raws) /\ proc[w] \in Seq(Raws) /\ w \in boot[m].stale
    BY DEF TypeOK, RunnersOK, Runners, ListsOK
  <2>2. x \in ToSet(boot[m].gathered) \/ x \in ToSet(proc[w])
    BY <1>2, <2>1, ConcatKeeps
  <2> QED
    BY <1>2, <2>1, <2>2 DEF GatheredOnly
<1>3. CASE /\ boot[m].phase = "read" /\ ~boot[m].touched
           /\ boot'[m].stale = boot[m].stale /\ boot'[m].unread = boot[m].unread
           /\ boot'[m].gathered = boot[m].gathered
           /\ \A w \in boot[m].stale : proc'[w] = proc[w]
  BY <1>3 DEF GatheredOnly
<1> QED
  BY <1>1, <1>2, <1>3, Undisturbed

(* Only EXEC ends the reading, so it is EXEC that the property is about.    *)
LEMMA OnlyExecEnds ==
  ASSUME TypeOK, [Next]_vars, NEW m \in Machines,
         boot[m].phase = "read", boot'[m].phase = "up"
  PROVE  Exec(m)
<1> USE DEF redis, dedup, history
<1>a. RunnersOK /\ \A o \in Machines : boot[o] \in Runners
  BY DEF TypeOK, RunnersOK
<1>1. ASSUME NEW ws, boot'[m] = Touch(ws)[m]
      PROVE  FALSE
  BY <1>a, <1>1, TouchOnlyMarks
<1>2. CASE UNCHANGED boot
  BY <1>2
<1>3. ASSUME NEW p \in Procs, PopMain(p) \/ Processed(p)
      PROVE  FALSE
  BY <1>1, <1>2, <1>3 DEF PopMain, Processed
<1>4. ASSUME NEW o \in Machines,
             \/ \E n \in WorkerCounts : Boot(o, n)
             \/ FindStale(o) \/ ExecAborts(o) \/ Stop(o) \/ Stopped(o) \/ KillRunner(o)
             \/ Watch(o) \/ \E w \in Nums : ReadKey(o, w)
      PROVE  FALSE
  <2>1. o = m
    BY <1>a, <1>4 DEF Boot, FindStale, ExecAborts, Stop, Stopped, KillRunner, Watch, ReadKey,
                      RunnersOK
  <2>2. CASE ExecAborts(m)
    <3>1. boot'[m] = [boot[m] EXCEPT !.phase = "watch"]
      BY <1>a, <2>2 DEF ExecAborts, RunnersOK
    <3> QED
      BY <1>a, <3>1 DEF Runners
  <2>3. CASE KillRunner(m)
    BY <1>a, <2>3, HaltedType DEF KillRunner, RunnersOK
  <2>4. CASE \E w \in Nums : ReadKey(m, w)
    <3>1. PICK w \in Nums : ReadKey(m, w)
      BY <2>4
    <3>2. boot'[m] = [boot[m] EXCEPT !.unread = boot[m].unread \ {w},
                                     !.gathered = boot[m].gathered \o proc[w]]
      BY <1>a, <3>1 DEF ReadKey, RunnersOK
    <3> QED
      BY <1>a, <3>2 DEF Runners
  <2> QED
    BY <1>4, <2>1, <2>2, <2>3, <2>4 DEF Boot, FindStale, Stop, Stopped, Watch
<1>5. ASSUME NEW o \in Machines, Exec(o), o # m
      PROVE  FALSE
  <2>1. boot'[m] = Touch({w \in boot[o].stale : proc[w] # <<>>})[m]
    BY <1>a, <1>5, TouchOnlyMarks DEF Exec
  <2> QED
    BY <1>1, <2>1
<1>6. CASE \/ UNCHANGED vars \/ RetryEnqueue \/ Clear \/ Pause \/ Unpause
           \/ \E hi \in (created + 1)..JobCount, lost \in BOOLEAN : BulkEnqueue(hi, lost)
  BY <1>2, <1>6 DEF vars, RetryEnqueue, Clear, Pause, Unpause, BulkEnqueue
<1>7. CASE \E p \in Procs : WorkerStep(p) \/ Die(p) \/ WorkerStops(p)
  BY <1>2, <1>3, <1>7
     DEF WorkerStep, CheckPause, PeekProcessing, PopTimeout, Finish, TimesOut, Die, WorkerStops
<1>8. CASE \E d \in Dedupers : Scan(d) \/ RemoveTwin(d) \/ DedupCrash(d)
  BY <1>2, <1>8 DEF Scan, RemoveTwin, DedupCrash
<1>9. CASE \E o \in Machines, p \in Procs, w \in Nums : SpawnWorker(p, o, w)
  BY <1>2, <1>9 DEF SpawnWorker
<1> QED
  BY <1>4, <1>5, <1>6, <1>7, <1>8, <1>9 DEF Next, StartupStep

(* StartupMovesAll: the EXEC of a start-up appends to the main list just    *)
(* what the stale processing lists hold at that moment, whatever happened   *)
(* since it read them (startup, reliable_redis.py:68-110).                  *)
THEOREM StartupTakesWhatIsThere == Spec => StartupMovesAll
<1>1. IInv /\ GatheredOnly /\ [Next]_vars =>
        [\A m \in Machines : boot[m].phase = "read" /\ boot'[m].phase = "up" =>
           ToSet(main') = ToSet(main) \cup UNION {ToSet(proc[w]) : w \in boot[m].stale}]_vars
  <2> SUFFICES ASSUME IInv, GatheredOnly, [Next]_vars,
                      NEW m \in Machines, boot[m].phase = "read", boot'[m].phase = "up"
               PROVE  ToSet(main') = ToSet(main) \cup UNION {ToSet(proc[w]) : w \in boot[m].stale}
    OBVIOUS
  <2>1. Exec(m)
    BY OnlyExecEnds DEF IInv
  <2>2. main' = main \o boot[m].gathered /\ boot[m].unread = {} /\ ~boot[m].touched
    BY <2>1 DEF Exec
  <2>3. main \in Seq(Raws) /\ boot[m].gathered \in Seq(Raws)
    BY DEF IInv, TypeOK, ListsOK, RunnersOK, Runners
  <2>4. ToSet(main') = ToSet(main) \cup ToSet(boot[m].gathered)
    BY <2>2, <2>3, ConcatKeeps
  <2>5. ToSet(boot[m].gathered) = UNION {ToSet(proc[w]) : w \in boot[m].stale}
    BY <2>2 DEF IInv, GatheredAll, GatheredOnly
  <2> QED
    BY <2>4, <2>5
<1>2. IInv => TypeOK
  BY DEF IInv
<1> QED
  BY <1>1, <1>2, KeptInit, KeptStep, GatheredOnlyInit, GatheredOnlyStep, PTL DEF Spec, StartupMovesAll

-----------------------------------------------------------------------------
(* Moving jobs between the lists never copies one. *)

(* The lists by number: the main list is number 0, as in Places.            *)
List(k) == IF k = 0 THEN main ELSE proc[k]
Slots == {s \in ({0} \cup Nums) \X Nat : s[2] \in DOMAIN List(s[1])}
At(s) == List(s[1])[s[2]]

(* Every job in the lists after a step comes from a place of its own.       *)
Sourced ==
  \E g \in [Slots' -> Slots] :
    \A s \in Slots' : At(g[s]) = At(s)' /\ \A t \in Slots' : g[s] = g[t] => s = t

(* So does what an undisturbed start-up has gathered.                       *)
Witnessed(m) ==
  \E f \in [DOMAIN boot[m].gathered -> Nums \X Nat] :
    \A i \in DOMAIN boot[m].gathered :
      /\ f[i][1] \in boot[m].stale \ boot[m].unread
      /\ f[i][2] \in DOMAIN proc[f[i][1]]
      /\ proc[f[i][1]][f[i][2]] = boot[m].gathered[i]
      /\ \A j \in DOMAIN boot[m].gathered : f[i] = f[j] => i = j

GatheredOnce ==
  \A m \in Machines : boot[m].phase = "read" /\ ~boot[m].touched => Witnessed(m)

LEMMA ListType ==
  ASSUME ListsOK
  PROVE  /\ \A k \in {0} \cup Nums :
              /\ List(k) \in Seq(Raws) /\ DOMAIN List(k) = 1..Len(List(k)) /\ Len(List(k)) \in Nat
         /\ \A w \in Nums : List(w) = proc[w] /\ w # 0
         /\ List(0) = main
<1>1. \A w \in Nums : w # 0
  BY NumsPositive
<1>2. \A k \in {0} \cup Nums : List(k) \in Seq(Raws)
  BY DEF List, ListsOK
<1> QED
  BY <1>1, <1>2 DEF List

LEMMA SlotsAre ==
  ASSUME ListsOK
  PROVE  /\ \A s \in Slots : /\ s[1] \in {0} \cup Nums /\ s[2] \in DOMAIN List(s[1])
                             /\ s = <<s[1], s[2]>>
         /\ \A k \in {0} \cup Nums : \A i \in DOMAIN List(k) :
              <<k, i>> \in Slots /\ At(<<k, i>>) = List(k)[i]
<1>1. \A k \in {0} \cup Nums : \A i \in DOMAIN List(k) : i \in Nat
  BY ListType
<1> QED
  BY <1>1 DEF Slots, At

(* The count of NeverCopies is of slots. *)
LEMMA PlacesAreSlots ==
  ASSUME ListsOK, NEW r
  PROVE  Places(r) = {s \in Slots : At(s) = r}
<1>1. ASSUME NEW s \in Places(r)
      PROVE  s \in Slots /\ At(s) = r
  <2>1. CASE s \in {<<0, i>> : i \in {i \in DOMAIN main : main[i] = r}}
    BY <2>1, ListType, SlotsAre
  <2>2. CASE s \in UNION {{<<w, i>> : i \in {i \in DOMAIN proc[w] : proc[w][i] = r}} : w \in Nums}
    BY <2>2, ListType, SlotsAre
  <2> QED
    BY <1>1, <2>1, <2>2 DEF Places
<1>2. ASSUME NEW s \in Slots, At(s) = r
      PROVE  s \in Places(r)
  <2>1. /\ s[1] \in {0} \cup Nums /\ s[2] \in DOMAIN List(s[1]) /\ s = <<s[1], s[2]>>
        /\ List(s[1])[s[2]] = r
    BY <1>2, SlotsAre DEF At
  <2>2. CASE s[1] = 0
    BY <2>1, <2>2, ListType DEF Places
  <2>3. CASE s[1] \in Nums
    <3>1. s[2] \in {i \in DOMAIN proc[s[1]] : proc[s[1]][i] = r}
      BY <2>1, <2>3, ListType
    <3> QED
      BY <2>1, <2>3, <3>1 DEF Places
  <2> QED
    BY <2>1, <2>2, <2>3
<1> QED
  BY <1>1, <1>2

LEMMA PlacesFinite ==
  ASSUME ListsOK, IsFiniteSet(Nums), NEW r
  PROVE  IsFiniteSet(Places(r))
<1> DEFINE K == {0} \cup Nums
           InList(k) == {s \in Slots : s[1] = k}
           f == [k \in K |-> InList(k)]
           T == {InList(k) : k \in K}
<1>1. IsFiniteSet(K)
  <2>1. K = Nums \cup {0}
    OBVIOUS
  <2> QED
    BY <2>1, FS_AddElement
<1>2. ASSUME NEW k \in K
      PROVE  IsFiniteSet(InList(k))
  <2> DEFINE h == [s \in InList(k) |-> s[2]]
  <2>1. IsFiniteSet(1..Len(List(k)))
    BY ListType, FS_Interval
  <2>2. \A s \in InList(k) : s[2] \in 1..Len(List(k)) /\ s = <<k, s[2]>>
    BY ListType, SlotsAre
  <2>3. h \in [InList(k) -> 1..Len(List(k))]
    BY <2>2
  <2>4. \A s, t \in InList(k) : h[s] = h[t] => s = t
    BY <2>2
  <2>5. h \in Injection(InList(k), 1..Len(List(k)))
    BY <2>3, <2>4 DEF Injection, IsInjective
  <2> QED
    BY <2>1, <2>5, FS_Injection
<1>3. f \in Surjection(K, T)
  BY DEF Surjection
<1>4. IsFiniteSet(T)
  BY <1>1, <1>3, FS_Surjection
<1>5. IsFiniteSet(UNION T)
  BY <1>2, <1>4, FS_UNION
<1>6. Slots \subseteq UNION T
  BY SlotsAre
<1>7. Places(r) \in SUBSET (UNION T)
  BY <1>6, PlacesAreSlots
<1> QED
  BY <1>5, <1>7, FS_Subset

LEMMA NoMorePlaces ==
  ASSUME ListsOK, ListsOK', IsFiniteSet(Nums), Sourced, NEW r
  PROVE  Cardinality(Places(r)') <= Cardinality(Places(r))
<1>1. PICK g \in [Slots' -> Slots] :
        \A s \in Slots' : At(g[s]) = At(s)' /\ \A t \in Slots' : g[s] = g[t] => s = t
  BY DEF Sourced
<1> DEFINE h == [s \in Places(r)' |-> g[s]]
<1>2. Places(r)' = {s \in Slots' : At(s)' = r} /\ Places(r) = {s \in Slots : At(s) = r}
  <2>1. Places(r) = {s \in Slots : At(s) = r}
    BY PlacesAreSlots
  <2>2. (Places(r) = {s \in Slots : At(s) = r})'
    BY PlacesAreSlots, PTL
  <2> QED
    BY <2>1, <2>2
<1>3. h \in Injection(Places(r)', Places(r))
  BY <1>1, <1>2 DEF Injection, IsInjective
<1> QED
  BY <1>3, PlacesFinite, FS_Injection

(* The slots after a step, and what is in them. *)
LEMMA SlotsHold ==
  ListsOK =>
    /\ \A s \in Slots : /\ s[1] \in {0} \cup Nums /\ s[2] \in DOMAIN List(s[1])
                        /\ s = <<s[1], s[2]>> /\ At(s) = List(s[1])[s[2]]
    /\ \A k \in {0} \cup Nums : DOMAIN List(k) = 1..Len(List(k)) /\ Len(List(k)) \in Nat
  BY SlotsAre, ListType DEF At

LEMMA SlotsNext ==
  ASSUME ListsOK'
  PROVE  /\ \A s \in Slots' : /\ s[1] \in {0} \cup Nums /\ s[2] \in DOMAIN List(s[1])'
                              /\ s = <<s[1], s[2]>> /\ At(s)' = List(s[1])'[s[2]]
         /\ \A k \in {0} \cup Nums : DOMAIN List(k)' = 1..Len(List(k)') /\ Len(List(k)') \in Nat
<1>1. (ListsOK =>
         /\ \A s \in Slots : /\ s[1] \in {0} \cup Nums /\ s[2] \in DOMAIN List(s[1])
                             /\ s = <<s[1], s[2]>> /\ At(s) = List(s[1])[s[2]]
         /\ \A k \in {0} \cup Nums :
              DOMAIN List(k) = 1..Len(List(k)) /\ Len(List(k)) \in Nat)'
  BY SlotsHold, PTL
<1> QED
  BY <1>1

(* Where a list is as it was, or empty, its jobs are where they were. *)
LEMMA KeptOrEmptied ==
  ASSUME ListsOK, ListsOK', \A k \in {0} \cup Nums : List(k)' = List(k) \/ List(k)' = <<>>
  PROVE  Sourced
<1> DEFINE g == [s \in Slots' |-> s]
<1>1. ASSUME NEW s \in Slots'
      PROVE  s \in Slots /\ At(s) = At(s)'
  <2>1. List(s[1])' = List(s[1])
    BY SlotsNext
  <2> QED
    BY <2>1, SlotsNext, SlotsAre
<1>2. g \in [Slots' -> Slots]
  BY <1>1
<1> QED
  BY <1>1, <1>2 DEF Sourced

(* LREM moves what is behind the job it removes. *)
LEMMA OneRemoved ==
  ASSUME ListsOK, ListsOK', NEW l \in {0} \cup Nums, NEW e,
         List(l)' = RemoveFirst(List(l), e),
         \A k \in {0} \cup Nums : k # l => List(k)' = List(k)
  PROVE  Sourced
<1>1. CASE e \notin ToSet(List(l))
  <2>1. List(l)' = List(l)
    BY <1>1, ListType, RemoveFirstKeeps
  <2> QED
    BY <2>1, KeptOrEmptied
<1>2. CASE e \in ToSet(List(l))
  <2>1. PICK n \in 1..Len(List(l)) :
          /\ Len(List(l)') = Len(List(l)) - 1
          /\ \A i \in 1..(Len(List(l)) - 1) :
               List(l)'[i] = IF i < n THEN List(l)[i] ELSE List(l)[i + 1]
    <3>1. List(l) \in Seq(Raws)
      BY ListType
    <3>2. PICK n \in 1..Len(List(l)) :
            /\ List(l)[n] = e
            /\ Len(RemoveFirst(List(l), e)) = Len(List(l)) - 1
            /\ \A i \in 1..(Len(List(l)) - 1) :
                 RemoveFirst(List(l), e)[i] = IF i < n THEN List(l)[i] ELSE List(l)[i + 1]
      BY <1>2, <3>1, RemoveFirstShifts, Zenon
    <3> QED
      BY <3>2
  <2> DEFINE from(s) == IF s[1] = l /\ ~(s[2] < n) THEN <<l, s[2] + 1>> ELSE s
             g == [s \in Slots' |-> from(s)]
  <2>2. ASSUME NEW s \in Slots'
        PROVE  from(s) \in Slots /\ At(from(s)) = At(s)' /\ s[2] \in Nat
    <3>1. CASE s[1] = l
      <4>1. Len(List(l)) \in Nat /\ s[2] \in 1..(Len(List(l)) - 1) /\ At(s)' = List(l)'[s[2]]
        BY <2>1, <3>1, ListType, SlotsNext
      <4>2. s[2] \in 1..Len(List(l)) /\ s[2] + 1 \in 1..Len(List(l)) /\ s[2] \in Nat
        BY <4>1
      <4>3. <<l, s[2]>> \in Slots /\ <<l, s[2] + 1>> \in Slots /\ s = <<l, s[2]>>
            /\ At(<<l, s[2]>>) = List(l)[s[2]] /\ At(<<l, s[2] + 1>>) = List(l)[s[2] + 1]
        BY <3>1, <4>2, ListType, SlotsAre, SlotsNext
      <4> QED
        BY <2>1, <3>1, <4>1, <4>2, <4>3
    <3>2. CASE s[1] # l
      BY <3>2, SlotsNext, SlotsAre, ListType
    <3> QED
      BY <3>1, <3>2
  <2>3. ASSUME NEW s \in Slots', NEW t \in Slots', from(s) = from(t)
        PROVE  s = t
    <3>1. s = <<s[1], s[2]>> /\ t = <<t[1], t[2]>> /\ s[2] \in Nat /\ t[2] \in Nat /\ n \in Nat
      BY <2>2, SlotsNext
    <3>2. from(s)[1] = s[1] /\ from(t)[1] = t[1]
      BY <3>1
    <3>3. from(s)[2] = IF s[1] = l /\ ~(s[2] < n) THEN s[2] + 1 ELSE s[2]
      BY <3>1
    <3>4. from(t)[2] = IF t[1] = l /\ ~(t[2] < n) THEN t[2] + 1 ELSE t[2]
      BY <3>1
    <3>5. s[1] = t[1] /\ s[2] = t[2]
      BY <2>3, <3>1, <3>2, <3>3, <3>4
    <3> QED
      BY <3>1, <3>5
  <2> HIDE DEF from
  <2>4. g \in [Slots' -> Slots]
    BY <2>2
  <2> QED
    BY <2>2, <2>3, <2>4 DEF Sourced
<1> QED
  BY <1>1, <1>2

(* BRPOPLPUSH moves the tail of the main list to the head of another. *)
LEMMA TailMoved ==
  ASSUME ListsOK, ListsOK', main # <<>>, main' = Front(main), NEW l \in Nums,
         proc'[l] = <<Last(main)>> \o proc[l],
         \A w \in Nums : w # l => proc'[w] = proc[w]
  PROVE  Sourced
<1> DEFINE n == Len(main)
           from(s) == IF s[1] # l THEN s
                      ELSE IF s[2] = 1 THEN <<0, n>> ELSE <<l, s[2] - 1>>
           g == [s \in Slots' |-> from(s)]
<1>1. /\ n \in Nat /\ n > 0 /\ Last(main) = main[n] /\ Last(main) \in Raws /\ main \in Seq(Raws)
      /\ Len(Front(main)) = n - 1 /\ \A i \in 1..(n - 1) : Front(main)[i] = main[i]
  <2>1. main \in Seq(Raws)
    BY DEF ListsOK
  <2> QED
    BY <2>1, FrontOf
<1>2. /\ Len(proc[l]) \in Nat /\ Len(proc'[l]) = 1 + Len(proc[l])
      /\ \A i \in 1..(1 + Len(proc[l])) :
           proc'[l][i] = IF i <= 1 THEN Last(main) ELSE proc[l][i - 1]
  <2>1. proc[l] \in Seq(Raws) /\ <<Last(main)>> \in Seq(Raws)
    BY <1>1 DEF ListsOK
  <2>2. Len(<<Last(main)>>) = 1 /\ <<Last(main)>>[1] = Last(main)
    OBVIOUS
  <2>3. /\ Len(<<Last(main)>> \o proc[l]) = Len(<<Last(main)>>) + Len(proc[l])
        /\ \A i \in 1..(Len(<<Last(main)>>) + Len(proc[l])) :
             (<<Last(main)>> \o proc[l])[i] = IF i <= Len(<<Last(main)>>) THEN <<Last(main)>>[i]
                                              ELSE proc[l][i - Len(<<Last(main)>>)]
    BY <2>1, ConcatAt
  <2> QED
    BY <2>1, <2>2, <2>3
<1>3. /\ List(0) = main /\ List(0)' = main' /\ List(l) = proc[l] /\ List(l)' = proc'[l] /\ l # 0
      /\ \A w \in Nums : w # l => List(w)' = List(w)
  BY NumsPositive DEF List
<1> HIDE DEF n
<1>4. ASSUME NEW s \in Slots'
      PROVE  /\ from(s) \in Slots /\ At(from(s)) = At(s)' /\ s[2] \in Nat
             /\ (s[1] = 0 => s[2] < n) /\ (s[1] = l => s[2] > 0)
  <2>1. CASE s[1] = l
    <3>1. s[2] \in 1..(1 + Len(proc[l])) /\ At(s)' = proc'[l][s[2]] /\ s[2] \in Nat /\ s[2] > 0
      <4>1. s[2] \in DOMAIN List(l)' /\ DOMAIN List(l)' = 1..Len(List(l)') /\ At(s)' = List(l)'[s[2]]
        BY <2>1, SlotsNext
      <4>2. s[2] \in 1..(1 + Len(proc[l])) /\ At(s)' = proc'[l][s[2]]
        BY <1>2, <1>3, <4>1
      <4> QED
        BY <1>2, <4>2
    <3>2. CASE s[2] = 1
      <4>1. At(s)' = main[n] /\ n \in 1..n
        BY <1>1, <1>2, <3>1, <3>2
      <4>2. <<0, n>> \in Slots /\ At(<<0, n>>) = main[n]
        BY <1>3, <4>1, ListType, SlotsAre DEF n
      <4> QED
        BY <1>3, <2>1, <3>1, <3>2, <4>1, <4>2
    <3>3. CASE s[2] # 1
      <4>1. s[2] - 1 \in 1..Len(proc[l]) /\ At(s)' = proc[l][s[2] - 1]
        BY <1>2, <3>1, <3>3
      <4>2. <<l, s[2] - 1>> \in Slots /\ At(<<l, s[2] - 1>>) = proc[l][s[2] - 1]
        BY <1>3, <4>1, ListType, SlotsAre
      <4> QED
        BY <1>3, <2>1, <3>1, <3>3, <4>1, <4>2
    <3> QED
      BY <3>2, <3>3
  <2>2. CASE s[1] = 0
    <3>1. s[2] \in 1..(n - 1) /\ At(s)' = main'[s[2]] /\ s = <<0, s[2]>>
      BY <1>1, <1>3, <2>2, SlotsNext
    <3>2. s[2] \in 1..n /\ At(s)' = main[s[2]] /\ s[2] \in Nat /\ s[2] < n
      BY <1>1, <3>1
    <3>3. <<0, s[2]>> \in Slots /\ At(<<0, s[2]>>) = main[s[2]]
      BY <1>3, <3>2, ListType, SlotsAre DEF n
    <3> QED
      BY <1>3, <2>2, <3>1, <3>2, <3>3
  <2>3. CASE s[1] # 0 /\ s[1] # l
    <3>1. s[1] \in Nums /\ List(s[1])' = List(s[1])
      BY <1>3, <2>3, SlotsNext
    <3> QED
      BY <2>3, <3>1, SlotsNext, SlotsAre, ListType
  <2> QED
    BY <2>1, <2>2, <2>3
<1>5. ASSUME NEW s \in Slots', NEW t \in Slots', from(s) = from(t)
      PROVE  s = t
  <2>1. /\ s = <<s[1], s[2]>> /\ t = <<t[1], t[2]>> /\ s[2] \in Nat /\ t[2] \in Nat
        /\ (s[1] = 0 => s[2] < n) /\ (t[1] = 0 => t[2] < n) /\ n \in Nat /\ l # 0
    BY <1>1, <1>3, <1>4, SlotsNext
  <2>2. CASE s[1] # l /\ t[1] # l
    BY <1>5, <2>2
  <2>3. CASE s[1] = l /\ t[1] = l
    <3>1. ASSUME NEW x \in {s, t}
          PROVE  /\ x[2] = 1 => from(x)[1] = 0 /\ from(x)[2] = n
                 /\ x[2] # 1 => from(x)[1] = l /\ from(x)[2] = x[2] - 1
      BY <2>1, <2>3
    <3>2. s[2] = t[2]
      BY <1>5, <2>1, <3>1
    <3> QED
      BY <2>1, <2>3, <3>2
  <2>4. ASSUME NEW x \in {s, t}, NEW y \in {s, t}, x[1] # l, y[1] = l, from(x) = from(y)
        PROVE  FALSE
    BY <2>1, <2>4
  <2> QED
    BY <1>5, <2>2, <2>3, <2>4
<1> HIDE DEF from
<1>6. g \in [Slots' -> Slots]
  BY <1>4
<1> QED
  BY <1>4, <1>5, <1>6 DEF Sourced

(* EXEC moves the stale lists to the tail of the main list: what is appended *)
(* comes from them, and they are emptied.                                    *)
LEMMA StaleMoved ==
  ASSUME TypeOK, ListsOK', NEW m \in Machines, Exec(m), Witnessed(m)
  PROVE  Sourced
<1> DEFINE n == Len(main)
           c == boot[m].gathered
           stale == boot[m].stale
<1>1. /\ n \in Nat /\ c \in Seq(Raws) /\ main \in Seq(Raws) /\ stale \subseteq Nums /\ ListsOK
      /\ DOMAIN c = 1..Len(c) /\ Len(c) \in Nat
  BY DEF TypeOK, ListsOK, RunnersOK, Runners
<1>2. main' = main \o c /\ \A w \in Nums : proc'[w] = IF w \in stale THEN <<>> ELSE proc[w]
  BY DEF Exec
<1>3. PICK f \in [DOMAIN c -> Nums \X Nat] :
        \A i \in DOMAIN c :
          /\ f[i][1] \in stale /\ f[i][2] \in DOMAIN proc[f[i][1]]
          /\ proc[f[i][1]][f[i][2]] = c[i]
          /\ \A j \in DOMAIN c : f[i] = f[j] => i = j
  BY DEF Witnessed
<1> HIDE DEF c, stale, n
<1>4. ASSUME NEW i \in DOMAIN c
      PROVE  /\ f[i] \in Slots /\ At(f[i]) = c[i]
             /\ f[i][1] \in stale /\ f[i][1] # 0
  <2>1. f[i] = <<f[i][1], f[i][2]>> /\ f[i][1] \in Nums
    BY <1>3
  <2> QED
    BY <1>1, <1>3, <2>1, ListType, SlotsAre
<1> DEFINE from(s) == IF s[1] = 0 /\ n < s[2] THEN f[s[2] - n] ELSE s
           g == [s \in Slots' |-> from(s)]
<1>5. /\ Len(main') = n + Len(c)
      /\ \A i \in 1..(n + Len(c)) : main'[i] = IF i <= n THEN main[i] ELSE c[i - n]
  BY <1>1, <1>2, ConcatAt DEF n
<1>6. List(0)' = main' /\ List(0) = main /\ \A w \in Nums : List(w)' = proc'[w] /\ w # 0
  BY NumsPositive DEF List
<1>7. ASSUME NEW s \in Slots'
      PROVE  /\ from(s) \in Slots /\ At(from(s)) = At(s)' /\ s[2] \in Nat
             /\ s[1] = 0 /\ n < s[2] => s[2] - n \in DOMAIN c
             /\ s[1] # 0 => s[1] \notin stale
  <2>1. CASE s[1] = 0
    <3>1. s[2] \in 1..(n + Len(c)) /\ At(s)' = main'[s[2]] /\ s = <<0, s[2]>> /\ s[2] \in Nat
      BY <1>1, <1>5, <1>6, <2>1, SlotsNext
    <3>2. CASE n < s[2]
      <4>1. s[2] - n \in DOMAIN c /\ At(s)' = c[s[2] - n]
        BY <1>1, <1>5, <3>1, <3>2
      <4> QED
        BY <1>4, <2>1, <3>1, <3>2, <4>1
    <3>3. CASE ~(n < s[2])
      <4>1. s[2] \in 1..n /\ At(s)' = main[s[2]]
        BY <1>1, <1>5, <3>1, <3>3
      <4>2. <<0, s[2]>> \in Slots /\ At(<<0, s[2]>>) = main[s[2]]
        BY <1>1, <1>6, <4>1, ListType, SlotsAre DEF n
      <4> QED
        BY <2>1, <3>1, <3>3, <4>1, <4>2
    <3> QED
      BY <3>2, <3>3
  <2>2. CASE s[1] # 0
    <3>1. s[1] \in Nums /\ s[2] \in DOMAIN proc'[s[1]] /\ At(s)' = proc'[s[1]][s[2]]
          /\ s = <<s[1], s[2]>>
      BY <1>6, <2>2, SlotsNext
    <3>2. s[1] \notin stale /\ proc'[s[1]] = proc[s[1]]
      BY <1>2, <3>1
    <3>3. s[2] \in Nat
      BY <1>6, <3>1, SlotsNext
    <3> QED
      BY <1>1, <2>2, <3>1, <3>2, <3>3, ListType, SlotsAre
  <2> QED
    BY <2>1, <2>2
<1>8. ASSUME NEW s \in Slots', NEW t \in Slots', from(s) = from(t)
      PROVE  s = t
  <2>1. s = <<s[1], s[2]>> /\ t = <<t[1], t[2]>> /\ s[2] \in Nat /\ t[2] \in Nat /\ n \in Nat
    BY <1>1, <1>7, SlotsNext
  <2>2. CASE (s[1] = 0 /\ n < s[2]) /\ (t[1] = 0 /\ n < t[2])
    <3>1. f[s[2] - n] = f[t[2] - n] /\ s[2] - n \in DOMAIN c /\ t[2] - n \in DOMAIN c
      BY <1>7, <1>8, <2>2
    <3>2. s[2] - n = t[2] - n
      BY <1>3, <3>1
    <3>3. s[2] = t[2]
      BY <2>1, <3>2
    <3> QED
      BY <2>1, <2>2, <3>3
  <2>3. CASE ~(s[1] = 0 /\ n < s[2]) /\ ~(t[1] = 0 /\ n < t[2])
    BY <1>8, <2>3
  <2>4. ASSUME NEW x \in Slots', NEW y \in Slots', x[1] = 0 /\ n < x[2], ~(y[1] = 0 /\ n < y[2]),
               from(x) = from(y)
        PROVE  FALSE
    <3>1. f[x[2] - n] = y /\ x[2] - n \in DOMAIN c
      BY <1>7, <2>4
    <3>2. y[1] \in stale /\ y[1] # 0
      BY <1>4, <3>1
    <3> QED
      BY <1>7, <3>2
  <2> QED
    BY <1>8, <2>2, <2>3, <2>4
<1> HIDE DEF from
<1>9. g \in [Slots' -> Slots]
  BY <1>7
<1> QED
  BY <1>7, <1>8, <1>9 DEF Sourced

LEMMA GatheredOnceInit == Init => GatheredOnce
  BY HaltedType DEF Init, GatheredOnce

LEMMA GatheredOnceStep == TypeOK /\ GatheredOnce /\ [Next]_vars => GatheredOnce'
<1> SUFFICES ASSUME TypeOK, GatheredOnce, [Next]_vars,
                    NEW m \in Machines, boot'[m].phase = "read", ~boot'[m].touched
             PROVE  Witnessed(m)'
  BY DEF GatheredOnce
<1> DEFINE c == boot[m].gathered
           d == boot'[m].gathered
<1>1. CASE boot'[m].gathered = <<>>
  <2> DEFINE f == [i \in {} |-> <<1, 1>>]
  <2>1. DOMAIN d = {}
    BY <1>1
  <2>2. f \in [DOMAIN d -> Nums \X Nat] /\ \A i \in DOMAIN d : FALSE
    BY <2>1
  <2> HIDE DEF f
  <2> QED
    BY <2>2 DEF Witnessed
<1>2. ASSUME NEW w \in boot[m].unread, boot[m].phase = "read", ~boot[m].touched, UNCHANGED proc,
             boot'[m].stale = boot[m].stale, boot'[m].unread = boot[m].unread \ {w},
             boot'[m].gathered = boot[m].gathered \o proc[w]
      PROVE  Witnessed(m)'
  <2> DEFINE n == Len(c)
             k == Len(proc[w])
  <2>1. /\ c \in Seq(Raws) /\ proc[w] \in Seq(Raws) /\ n \in Nat /\ k \in Nat
        /\ w \in boot[m].stale /\ w \in Nums
        /\ DOMAIN c = 1..n /\ DOMAIN proc[w] = 1..k
    BY DEF TypeOK, RunnersOK, Runners, ListsOK
  <2>2. /\ Len(d) = n + k /\ d \in Seq(Raws)
        /\ \A i \in 1..(n + k) : d[i] = IF i <= n THEN c[i] ELSE proc[w][i - n]
    <3>1. d = c \o proc[w]
      BY <1>2
    <3> HIDE DEF c, d
    <3>2. c \in Seq(Raws) /\ proc[w] \in Seq(Raws)
      BY <2>1
    <3> QED
      BY <3>1, <3>2, ConcatAt
  <2>3. DOMAIN d = 1..(n + k)
    <3> HIDE DEF d
    <3> QED
      BY <2>2
  <2>4. PICK f \in [DOMAIN c -> Nums \X Nat] :
          \A i \in DOMAIN c :
            /\ f[i][1] \in boot[m].stale \ boot[m].unread
            /\ f[i][2] \in DOMAIN proc[f[i][1]]
            /\ proc[f[i][1]][f[i][2]] = c[i]
            /\ \A j \in DOMAIN c : f[i] = f[j] => i = j
    BY <1>2 DEF GatheredOnce, Witnessed
  <2> HIDE DEF c, d, n, k
  <2> DEFINE h == [i \in DOMAIN d |-> IF i <= n THEN f[i] ELSE <<w, i - n>>]
  <2>5. ASSUME NEW i \in DOMAIN d
        PROVE  \/ /\ i \in DOMAIN c /\ i <= n /\ d[i] = c[i]
               \/ /\ ~(i <= n) /\ i - n \in DOMAIN proc[w] /\ i - n \in Nat /\ d[i] = proc[w][i - n]
    BY <2>1, <2>2, <2>3
  <2>6. ASSUME NEW i \in DOMAIN d
        PROVE  /\ h[i] \in Nums \X Nat
               /\ h[i][1] \in boot[m].stale \ (boot[m].unread \ {w})
               /\ h[i][2] \in DOMAIN proc[h[i][1]]
               /\ proc[h[i][1]][h[i][2]] = d[i]
               /\ h[i][1] = w <=> ~(i <= n)
    <3>1. CASE i \in DOMAIN c /\ i <= n /\ d[i] = c[i]
      BY <2>4, <3>1
    <3>2. CASE ~(i <= n) /\ i - n \in DOMAIN proc[w] /\ i - n \in Nat /\ d[i] = proc[w][i - n]
      BY <2>1, <3>2
    <3> QED
      BY <2>5, <3>1, <3>2
  <2>7. ASSUME NEW i \in DOMAIN d, NEW j \in DOMAIN d, h[i] = h[j]
        PROVE  i = j
    <3>1. i <= n <=> j <= n
      BY <2>6, <2>7
    <3>2. CASE i <= n
      <4>1. h[i] = f[i] /\ h[j] = f[j] /\ i \in DOMAIN c /\ j \in DOMAIN c
        BY <2>5, <3>1, <3>2
      <4> QED
        BY <2>4, <2>7, <4>1
    <3>3. CASE ~(i <= n)
      <4>1. i - n = j - n /\ i \in Int /\ j \in Int
        BY <2>1, <2>3, <2>7, <3>1, <3>3
      <4> QED
        BY <2>1, <4>1
    <3> QED
      BY <3>2, <3>3
  <2>8. h \in [DOMAIN d -> Nums \X Nat]
    BY <2>6
  <2> HIDE DEF h
  <2>9. /\ boot'[m].stale \ boot'[m].unread = boot[m].stale \ (boot[m].unread \ {w})
        /\ proc' = proc
    BY <1>2
  <2> QED
    BY <2>6, <2>7, <2>8, <2>9 DEF Witnessed, d
<1>3. CASE /\ boot[m].phase = "read" /\ ~boot[m].touched
           /\ boot'[m].stale = boot[m].stale /\ boot'[m].unread = boot[m].unread
           /\ boot'[m].gathered = boot[m].gathered
           /\ \A w \in boot[m].stale : proc'[w] = proc[w]
  <2>1. PICK f \in [DOMAIN c -> Nums \X Nat] :
          \A i \in DOMAIN c :
            /\ f[i][1] \in boot[m].stale \ boot[m].unread
            /\ f[i][2] \in DOMAIN proc[f[i][1]]
            /\ proc[f[i][1]][f[i][2]] = c[i]
            /\ \A j \in DOMAIN c : f[i] = f[j] => i = j
    BY <1>3 DEF GatheredOnce, Witnessed
  <2>2. \A i \in DOMAIN c : proc'[f[i][1]] = proc[f[i][1]]
    BY <1>3, <2>1
  <2> QED
    BY <1>3, <2>1, <2>2 DEF Witnessed
<1> QED
  BY <1>1, <1>2, <1>3, Undisturbed

(* Whatever is not a push is one of these moves, or none. *)
LEMMA EveryMoveSourced ==
  ASSUME TypeOK, ListsOK', GatheredOnce, [Next]_vars,
         created' = created, unacked' = unacked
  PROVE  Sourced
<1> USE DEF redis, dedup, history
<1>a. ListsOK /\ WorkersOK /\ DOMAIN proc = Nums /\ \A w \in Nums : w # 0
  BY NumsPositive DEF TypeOK, ListsOK
<1>1. CASE UNCHANGED <<main, proc>>
  <2>1. \A k \in {0} \cup Nums : List(k)' = List(k)
    BY <1>1 DEF List
  <2> QED
    BY <1>a, <2>1, KeptOrEmptied
<1>2. CASE Clear
  <2>1. \A k \in {0} \cup Nums : List(k)' = List(k) \/ List(k)' = <<>>
    BY <1>2 DEF List, Clear
  <2> QED
    BY <1>a, <2>1, KeptOrEmptied
<1>3. ASSUME NEW p \in Procs, PopMain(p)
      PROVE  Sourced
  <2>1. worker[p].slot \in Nums
    BY <1>a, <1>3, SlotType DEF PopMain
  <2>2. proc' = [proc EXCEPT ![worker[p].slot] = <<Last(main)>> \o proc[worker[p].slot]]
        /\ main # <<>> /\ main' = Front(main)
    BY <1>3 DEF PopMain
  <2>3. proc'[worker[p].slot] = <<Last(main)>> \o proc[worker[p].slot]
        /\ \A w \in Nums : w # worker[p].slot => proc'[w] = proc[w]
    BY <1>a, <2>1, <2>2
  <2> QED
    BY <1>a, <2>1, <2>2, <2>3, TailMoved
<1>4. ASSUME NEW p \in Procs, Processed(p)
      PROVE  Sourced
  <2>1. PICK l \in Nums : l = worker[p].slot
    BY <1>a, <1>4, SlotType DEF Processed
  <2>2. PICK e : proc' = [proc EXCEPT ![l] = RemoveFirst(proc[l], e)] /\ main' = main
    BY <1>4, <2>1 DEF Processed
  <2>3. List(l)' = RemoveFirst(List(l), e)
        /\ \A k \in {0} \cup Nums : k # l => List(k)' = List(k)
    BY <1>a, <2>2 DEF List
  <2> QED
    BY <1>a, <2>3, OneRemoved
<1>5. ASSUME NEW d \in Dedupers, RemoveTwin(d)
      PROVE  Sourced
  <2>1. PICK e : main' = RemoveFirst(main, e)
    BY <1>5 DEF RemoveTwin
  <2>2. proc' = proc
    BY <1>5 DEF RemoveTwin
  <2>3. List(0)' = RemoveFirst(List(0), e) /\ \A k \in {0} \cup Nums : k # 0 => List(k)' = List(k)
    BY <2>1, <2>2 DEF List
  <2> QED
    BY <1>a, <2>3, OneRemoved
<1>6. ASSUME NEW m \in Machines, Exec(m)
      PROVE  Sourced
  <2>1. Witnessed(m)
    BY <1>6 DEF Exec, GatheredOnce
  <2> QED
    BY <1>6, <2>1, StaleMoved
<1>7. ASSUME NEW hi \in (created + 1)..JobCount, NEW lost \in BOOLEAN, BulkEnqueue(hi, lost)
      PROVE  FALSE
  <2>1. created' = hi /\ created \in Int
    BY <1>7 DEF BulkEnqueue, TypeOK, CountsOK
  <2> QED
    BY <2>1
<1>8. CASE RetryEnqueue
  BY <1>8 DEF RetryEnqueue
<1>9. CASE UNCHANGED vars \/ Pause \/ Unpause
  BY <1>1, <1>9 DEF vars, Pause, Unpause
<1>10. CASE \E p \in Procs : WorkerStep(p) \/ Die(p) \/ WorkerStops(p)
  BY <1>1, <1>3, <1>4, <1>10
     DEF WorkerStep, CheckPause, PeekProcessing, PopTimeout, Finish, TimesOut, Die, WorkerStops
<1>11. CASE \E d \in Dedupers : Scan(d) \/ RemoveTwin(d) \/ DedupCrash(d)
  BY <1>1, <1>5, <1>11 DEF Scan, DedupCrash
<1>12. CASE \E m \in Machines : \/ \E n \in WorkerCounts : Boot(m, n)
                               \/ StartupStep(m) \/ Stop(m) \/ Stopped(m) \/ KillRunner(m)
                               \/ \E p \in Procs, w \in Nums : SpawnWorker(p, m, w)
  BY <1>1, <1>6, <1>12 DEF StartupStep, Boot, FindStale, Watch, ReadKey, ExecAborts, Stop, Stopped,
                           KillRunner, SpawnWorker
<1> QED
  BY <1>2, <1>7, <1>8, <1>9, <1>10, <1>11, <1>12 DEF Next

(* NeverCopies: start-ups, workers, deduplication and whatever else is not  *)
(* a push leave no job at more places than it was, with any number of       *)
(* start-ups at work on the same lists (startup, reliable_redis.py:68-110). *)
THEOREM MovesNeverCopy ==
  ASSUME IsFiniteSet(Nums)
  PROVE  Spec => NeverCopies
<1>1. TypeOK /\ TypeOK' /\ GatheredOnce /\ [Next]_vars =>
        [created' = created /\ unacked' = unacked =>
           \A r \in Raws : Cardinality(Places(r)') <= Cardinality(Places(r))]_vars
  <2> SUFFICES ASSUME TypeOK, TypeOK', GatheredOnce, [Next]_vars,
                      created' = created, unacked' = unacked, NEW r \in Raws
               PROVE  Cardinality(Places(r)') <= Cardinality(Places(r))
    OBVIOUS
  <2>1. ListsOK /\ ListsOK'
    BY DEF TypeOK
  <2> QED
    BY <2>1, EveryMoveSourced, NoMorePlaces
<1> QED
  BY <1>1, TypeInit, TypeStep, GatheredOnceInit, GatheredOnceStep, PTL DEF Spec, NeverCopies

-----------------------------------------------------------------------------
(* The settings of the Recovery run: runners outlive their workers and      *)
(* agree on the number of workers, and no push is repeated.                 *)
Orderly == Events \cap {"orphan", "reconfigure", "lost_reply"} = {}

(* Runners that are there have read the same worker count.                  *)
Agreed ==
  \A m, o \in Machines :
    boot[m].phase # "down" /\ boot[o].phase # "down" => boot[m].workers = boot[o].workers

(* A worker has a runner, which has started it under a number of its own.   *)
Hosted ==
  \A p \in Procs : worker[p].pc # "down" =>
    /\ worker[p].host \in Machines
    /\ boot[worker[p].host].phase \in {"up", "stopping"}
    /\ worker[p].slot \in WorkerNames(worker[p].host, boot[worker[p].host].workers)

(* No two workers have the same number.                                     *)
OneEach ==
  \A p, q \in Procs :
    p # q /\ worker[p].pc # "down" /\ worker[q].pc # "down" => worker[p].slot # worker[q].slot

(* Start-up takes for stale only what no worker of the pool may be using.   *)
StaleAbove ==
  \A m \in Machines : \A w \in boot[m].stale :
    w \notin 1..boot[m].workers /\ boot[m].phase \in {"watch", "read"}

Owners == Agreed /\ Hosted /\ OneEach /\ StaleAbove

(* The processing list of a worker is what it has in hand.                  *)
InHand ==
  \A p \in Procs :
    /\ worker[p].pc = "empty" => proc[worker[p].slot] = <<>>
    /\ worker[p].job # NoJob => proc[worker[p].slot] = <<worker[p].job>>

Own == Owners /\ InHand /\ OneInFlight /\ unacked = <<>>

-----------------------------------------------------------------------------
(* Owners. *)

(* Workers go on, or end, under runners that do not change.                 *)
LEMMA FewerWorkers ==
  ASSUME Owners,
         \A p \in Procs : \/ worker'[p].pc = "down"
                          \/ /\ worker[p].pc # "down"
                             /\ worker'[p].host = worker[p].host /\ worker'[p].slot = worker[p].slot,
         \A m \in Machines : /\ boot'[m].phase = boot[m].phase
                             /\ boot'[m].workers = boot[m].workers
                             /\ boot'[m].stale = boot[m].stale
  PROVE  Owners'
<1>1. Agreed'
  BY DEF Owners, Agreed
<1>2. Hosted'
  BY DEF Owners, Hosted, WorkerNames
<1>3. OneEach'
  BY DEF Owners, OneEach
<1>4. StaleAbove'
  BY DEF Owners, StaleAbove
<1> QED
  BY <1>1, <1>2, <1>3, <1>4 DEF Owners

(* A runner goes on with its start-up, or to its end.                       *)
LEMMA RunnerGoesOn ==
  ASSUME Owners, RunnersOK, NEW m \in Machines, NEW r,
         \A p \in Procs : worker'[p].pc = worker[p].pc /\ worker'[p].slot = worker[p].slot
                            /\ (worker'[p].pc # "down" => worker'[p].host = worker[p].host),
         boot' = [boot EXCEPT ![m] = r],
         r.workers = boot[m].workers, boot[m].phase # "down", r.phase # "down",
         boot[m].phase \in {"up", "stopping"} => r.phase \in {"up", "stopping"},
         \A w \in r.stale : w \notin 1..r.workers /\ r.phase \in {"watch", "read"}
  PROVE  Owners'
<1>1. boot'[m] = r /\ \A o \in Machines \ {m} : boot'[o] = boot[o]
  BY DEF RunnersOK
<1>2. Agreed'
  BY <1>1 DEF Owners, Agreed
<1>3. Hosted'
  BY <1>1 DEF Owners, Hosted, WorkerNames
<1>4. OneEach'
  BY DEF Owners, OneEach
<1>5. StaleAbove'
  BY <1>1 DEF Owners, StaleAbove
<1> QED
  BY <1>2, <1>3, <1>4, <1>5 DEF Owners

(* A runner without workers ends, or starts.                                *)
LEMMA RunnerComesOrGoes ==
  ASSUME Owners, RunnersOK, NEW m \in Machines, NEW r,
         UNCHANGED worker, \A p \in Procs : worker[p].pc # "down" => worker[p].host # m,
         boot' = [boot EXCEPT ![m] = r], r.stale = {},
         \A o \in Machines \ {m} :
           boot[o].phase # "down" /\ r.phase # "down" => boot[o].workers = r.workers
  PROVE  Owners'
<1>1. boot'[m] = r /\ \A o \in Machines \ {m} : boot'[o] = boot[o]
  BY DEF RunnersOK
<1>2. Agreed'
  BY <1>1 DEF Owners, Agreed
<1>3. Hosted'
  BY <1>1 DEF Owners, Hosted, WorkerNames
<1>4. OneEach'
  BY DEF Owners, OneEach
<1>5. StaleAbove'
  BY <1>1 DEF Owners, StaleAbove
<1> QED
  BY <1>2, <1>3, <1>4, <1>5 DEF Owners

LEMMA OwnersStep ==
  ASSUME Orderly, TypeOK, Owners, [Next]_vars
  PROVE  Owners'
<1> USE DEF redis, dedup, history
<1>a. WorkersOK /\ RunnersOK /\ \A m \in Machines : boot[m] \in Runners
  BY DEF TypeOK, RunnersOK
<1>b. \A p \in Procs : worker[p] \in Workers
  BY <1>a DEF WorkersOK
<1>1. CASE UNCHANGED <<worker, boot>>
  BY <1>1 DEF Owners, Agreed, Hosted, OneEach, StaleAbove, WorkerNames
<1>2. ASSUME NEW p \in Procs, NEW r, worker' = [worker EXCEPT ![p] = r],
             worker[p].pc # "down",
             r.pc = "down" \/ (r.host = worker[p].host /\ r.slot = worker[p].slot),
             \/ boot' = boot \/ \E ws : boot' = Touch(ws)
      PROVE  Owners'
  <2>1. \A m \in Machines : /\ boot'[m].phase = boot[m].phase
                            /\ boot'[m].workers = boot[m].workers
                            /\ boot'[m].stale = boot[m].stale
    BY <1>a, <1>2, TouchOnlyMarks
  <2>2. worker'[p] = r /\ \A q \in Procs \ {p} : worker'[q] = worker[q]
    BY <1>a, <1>2 DEF WorkersOK
  <2> QED
    BY <1>2, <2>1, <2>2, FewerWorkers
<1>3. ASSUME NEW p \in Procs, WorkerStep(p) \/ Die(p) \/ WorkerStops(p)
      PROVE  Owners'
  <2>1. worker[p].pc # "down" /\ (boot' = boot \/ \E ws : boot' = Touch(ws))
    BY <1>3 DEF WorkerStep, CheckPause, PeekProcessing, PopMain, PopTimeout, Finish, TimesOut, Processed,
                Die, WorkerStops, Children
  <2>2. CASE worker' = [worker EXCEPT ![p] = Off]
    BY <1>2, <2>1, <2>2, OffType
  <2>3. ASSUME NEW pc, GoTo(p, pc)
        PROVE  Owners'
    <3> DEFINE r == [worker[p] EXCEPT !.pc = pc]
    <3>1. worker' = [worker EXCEPT ![p] = r]
      BY <2>3 DEF GoTo
    <3>2. r.host = worker[p].host /\ r.slot = worker[p].slot
      BY <1>b DEF Workers
    <3> HIDE DEF r
    <3> QED
      BY <1>2, <2>1, <3>1, <3>2
  <2>4. ASSUME NEW j, TakeJob(p, j)
        PROVE  Owners'
    <3> DEFINE c == {x \in owed : Identity[x] = Identity[j]}
               r == [worker[p] EXCEPT !.pc = "running", !.job = j, !.covers = c]
    <3>1. worker' = [worker EXCEPT ![p] = r]
      BY <2>4 DEF TakeJob
    <3> HIDE DEF c
    <3>2. r.host = worker[p].host /\ r.slot = worker[p].slot
      BY <1>b DEF Workers
    <3> HIDE DEF r
    <3> QED
      BY <1>2, <2>1, <3>1, <3>2
  <2>5. CASE Processed(p)
    <3> DEFINE r == [worker[p] EXCEPT !.pc = "idle", !.job = NoJob, !.covers = {}]
    <3>1. worker' = [worker EXCEPT ![p] = r]
      BY <2>5 DEF Processed
    <3>2. r.host = worker[p].host /\ r.slot = worker[p].slot
      BY <1>b DEF Workers
    <3> HIDE DEF r
    <3> QED
      BY <1>2, <2>1, <3>1, <3>2
  <2> QED
    BY <1>3, <2>2, <2>3, <2>4, <2>5
       DEF WorkerStep, CheckPause, PeekProcessing, PopMain, PopTimeout, Finish, TimesOut,
           Die, WorkerStops
<1>4. ASSUME NEW m \in Machines, NEW n \in WorkerCounts, Boot(m, n)
      PROVE  Owners'
  <2> DEFINE r == [Halted EXCEPT !.workers = n,
                     !.phase = IF WorkerNames(m, n) = {} THEN "up" ELSE "keys"]
  <2>1. r.workers = n /\ r.stale = {}
    BY DEF Halted
  <2>2. /\ boot' = [boot EXCEPT ![m] = r] /\ UNCHANGED worker /\ boot[m].phase = "down"
    BY <1>4 DEF Boot
  <2> HIDE DEF r
  <2>3. \A o \in Machines : boot[o].phase # "down" => boot[o].workers = n
    BY <1>4 DEF Boot, Spend, Orderly
  <2>4. \A p \in Procs : worker[p].pc # "down" => worker[p].host # m
    BY <2>2 DEF Owners, Hosted
  <2> QED
    BY <1>a, <2>1, <2>2, <2>3, <2>4, RunnerComesOrGoes
<1>5. ASSUME NEW m \in Machines, NEW r, boot' = [boot EXCEPT ![m] = r],
             UNCHANGED worker, r.workers = boot[m].workers, boot[m].phase # "down", r.phase # "down",
             boot[m].phase \in {"up", "stopping"} => r.phase \in {"up", "stopping"},
             \A w \in r.stale : w \notin 1..r.workers /\ r.phase \in {"watch", "read"}
      PROVE  Owners'
  BY <1>a, <1>5, RunnerGoesOn
<1>6. ASSUME NEW m \in Machines, FindStale(m)
      PROVE  Owners'
  <2> DEFINE stale == {w \in Nums : proc[w] # <<>>} \ 1..boot[m].workers
             r == [boot[m] EXCEPT !.stale = stale, !.phase = IF stale = {} THEN "up" ELSE "watch"]
  <2>1. /\ r.workers = boot[m].workers /\ r.stale = stale
        /\ r.phase = IF stale = {} THEN "up" ELSE "watch"
    BY <1>a DEF Runners
  <2>2. /\ boot' = [boot EXCEPT ![m] = r] /\ UNCHANGED worker /\ boot[m].phase = "keys"
    BY <1>6 DEF FindStale
  <2>3. \A w \in stale : w \notin 1..boot[m].workers
    OBVIOUS
  <2> HIDE DEF r, stale
  <2> QED
    BY <1>5, <2>1, <2>2, <2>3
<1>7. ASSUME NEW m \in Machines,
             \/ Watch(m) \/ ExecAborts(m) \/ Stop(m) \/ \E w \in Nums : ReadKey(m, w)
      PROVE  Owners'
  <2>1. PICK r \in Runners :
           /\ boot' = [boot EXCEPT ![m] = r] /\ UNCHANGED worker
           /\ r.workers = boot[m].workers /\ r.stale = boot[m].stale
           /\ \/ boot[m].phase \in {"watch", "read"} /\ r.phase \in {"watch", "read"}
              \/ boot[m].phase = "up" /\ r.phase = "stopping"
    <3>1. CASE Watch(m)
      <4> DEFINE r == [boot[m] EXCEPT !.phase = "read", !.touched = FALSE,
                         !.unread = boot[m].stale, !.gathered = <<>>]
      <4>1. <<>> \in Seq(Raws)
        OBVIOUS
      <4>2. /\ r \in Runners /\ r.workers = boot[m].workers /\ r.stale = boot[m].stale
            /\ r.phase = "read"
        BY <1>a, <4>1 DEF Runners, Phases
      <4>3. boot' = [boot EXCEPT ![m] = r] /\ UNCHANGED worker /\ boot[m].phase = "watch"
        BY <3>1 DEF Watch
      <4> HIDE DEF r
      <4> QED
        BY <4>2, <4>3
    <3>2. ASSUME NEW w \in Nums, ReadKey(m, w)
          PROVE  \E r \in Runners :
                   /\ boot' = [boot EXCEPT ![m] = r] /\ UNCHANGED worker
                   /\ r.workers = boot[m].workers /\ r.stale = boot[m].stale
                   /\ boot[m].phase = "read" /\ r.phase = "read"
      <4> DEFINE r == [boot[m] EXCEPT !.unread = @ \ {w}, !.gathered = @ \o proc[w]]
      <4>1. boot[m].gathered \o proc[w] \in Seq(Raws) /\ boot[m].phase = "read"
        BY <1>a, <3>2, ConcatKeeps DEF TypeOK, ListsOK, Runners, ReadKey
      <4>2. /\ r \in Runners /\ r.workers = boot[m].workers /\ r.stale = boot[m].stale
            /\ r.phase = "read"
        BY <1>a, <4>1 DEF Runners
      <4>3. boot' = [boot EXCEPT ![m] = r] /\ UNCHANGED worker
        BY <3>2 DEF ReadKey
      <4> HIDE DEF r
      <4> QED
        BY <4>1, <4>2, <4>3
    <3>3. ASSUME NEW phase \in {"watch", "stopping"},
                 boot' = [boot EXCEPT ![m] = [boot[m] EXCEPT !.phase = phase]]
          PROVE  \E r \in Runners :
                   /\ boot' = [boot EXCEPT ![m] = r]
                   /\ r.workers = boot[m].workers /\ r.stale = boot[m].stale /\ r.phase = phase
      <4> DEFINE r == [boot[m] EXCEPT !.phase = phase]
      <4>1. /\ r \in Runners /\ r.workers = boot[m].workers /\ r.stale = boot[m].stale
            /\ r.phase = phase
        BY <1>a DEF Runners, Phases
      <4> HIDE DEF r
      <4> QED
        BY <3>3, <4>1 DEF r
    <3> QED
      BY <1>7, <3>1, <3>2, <3>3 DEF ExecAborts, Stop
  <2>2. \A w \in boot[m].stale :
          w \notin 1..boot[m].workers /\ boot[m].phase \in {"watch", "read"}
    BY DEF Owners, StaleAbove
  <2> QED
    BY <1>5, <2>1, <2>2
<1>8. ASSUME NEW m \in Machines, Stopped(m) \/ KillRunner(m)
      PROVE  Owners'
  <2>1. Children(m) = {} /\ boot' = [boot EXCEPT ![m] = Halted]
    BY <1>8 DEF Stopped, KillRunner, Spend, Orderly
  <2>2. UNCHANGED worker
    <3>1. CASE KillRunner(m)
      BY <1>a, <2>1, <3>1 DEF KillRunner, WorkersOK
    <3> QED
      BY <1>8, <3>1 DEF Stopped
  <2>3. \A p \in Procs : worker[p].pc # "down" => worker[p].host # m
    BY <2>1 DEF Children
  <2> QED
    BY <1>a, <2>1, <2>2, <2>3, HaltedType, RunnerComesOrGoes
<1>9. ASSUME NEW m \in Machines, Exec(m)
      PROVE  Owners'
  <2> DEFINE t == Touch({w \in boot[m].stale : proc[w] # <<>>})
             r == [Halted EXCEPT !.phase = "up", !.workers = boot[m].workers]
  <2>1. boot' = [t EXCEPT ![m] = r] /\ UNCHANGED worker /\ boot[m].phase = "read"
    BY <1>9 DEF Exec
  <2>2. r.phase = "up" /\ r.workers = boot[m].workers /\ r.stale = {}
    BY DEF Halted
  <2>3. /\ t \in [Machines -> Runners]
        /\ \A o \in Machines : /\ t[o].phase = boot[o].phase /\ t[o].workers = boot[o].workers
                               /\ t[o].stale = boot[o].stale
    BY <1>a, TouchOnlyMarks
  <2> HIDE DEF t, r
  <2>4. boot'[m] = r /\ \A o \in Machines \ {m} : boot'[o] = t[o]
    BY <2>1, <2>3
  <2>5. Agreed'
    BY <2>1, <2>2, <2>3, <2>4 DEF Owners, Agreed
  <2>6. Hosted'
    BY <2>1, <2>2, <2>3, <2>4 DEF Owners, Hosted, WorkerNames
  <2>7. OneEach' /\ StaleAbove'
    BY <2>1, <2>2, <2>3, <2>4 DEF Owners, OneEach, StaleAbove
  <2> QED
    BY <2>5, <2>6, <2>7 DEF Owners
<1>10. ASSUME NEW p \in Procs, NEW m \in Machines, NEW w \in Nums, SpawnWorker(p, m, w)
       PROVE  Owners'
  <2> DEFINE r == [Off EXCEPT !.pc = "idle", !.host = m, !.slot = w]
  <2>1. /\ worker' = [worker EXCEPT ![p] = r] /\ UNCHANGED boot /\ boot[m].phase = "up"
        /\ w \in WorkerNames(m, boot[m].workers)
        /\ \A q \in Children(m) : worker[q].slot # w
    BY <1>10 DEF SpawnWorker
  <2>2. r.pc = "idle" /\ r.host = m /\ r.slot = w
    BY DEF Off
  <2> HIDE DEF r
  <2>3. worker'[p] = r /\ \A q \in Procs \ {p} : worker'[q] = worker[q]
    BY <1>a, <2>1 DEF WorkersOK
  <2>4. Agreed' /\ StaleAbove'
    BY <2>1 DEF Owners, Agreed, StaleAbove
  <2>5. Hosted'
    BY <2>1, <2>2, <2>3 DEF Owners, Hosted, WorkerNames
  <2>6. ASSUME NEW q \in Procs, worker[q].pc # "down"
        PROVE  worker[q].slot # w
    <3>1. worker[q].slot = w => worker[q].host = m
      BY <2>1, <2>6 DEF Owners, Hosted, WorkerNames
    <3> QED
      BY <2>1, <2>6, <3>1 DEF Children
  <2>7. OneEach'
    BY <2>2, <2>3, <2>6 DEF Owners, OneEach
  <2> QED
    BY <2>4, <2>5, <2>7 DEF Owners
<1>11. CASE \/ UNCHANGED vars \/ RetryEnqueue \/ Clear \/ Pause \/ Unpause
            \/ \E hi \in (created + 1)..JobCount, lost \in BOOLEAN : BulkEnqueue(hi, lost)
            \/ \E d \in Dedupers : Scan(d) \/ RemoveTwin(d) \/ DedupCrash(d)
  BY <1>1, <1>11 DEF vars, RetryEnqueue, Clear, Pause, Unpause, BulkEnqueue, Scan, RemoveTwin,
                     DedupCrash
<1> QED
  BY <1>3, <1>4, <1>6, <1>7, <1>8, <1>9, <1>10, <1>11 DEF Next, StartupStep

-----------------------------------------------------------------------------
(* What the workers have in hand. *)

(* Workers put a job away, or keep it, while no list changes.               *)
LEMMA SameHands ==
  ASSUME InHand, OneInFlight, UNCHANGED proc,
         \A p \in Procs :
           \/ worker'[p].job = NoJob /\ worker'[p].pc # "empty"
           \/ /\ worker'[p].job = worker[p].job /\ worker'[p].slot = worker[p].slot
              /\ worker'[p].pc = "empty" => worker[p].pc = "empty"
  PROVE  InHand' /\ OneInFlight'
  BY DEF InHand, OneInFlight

LEMMA HandsStep ==
  ASSUME Orderly, TypeOK, Own, [Next]_vars
  PROVE  InHand' /\ OneInFlight' /\ unacked' = <<>>
<1> USE DEF redis, dedup, history
<1>a. /\ ListsOK /\ WorkersOK /\ RunnersOK /\ \A m \in Machines : boot[m] \in Runners
      /\ Owners /\ InHand /\ OneInFlight /\ unacked = <<>>
  BY DEF TypeOK, RunnersOK, Own
<1>b. \A p \in Procs : /\ worker[p] \in Workers
                       /\ worker[p].job = NoJob <=> worker[p].pc \notin {"running", "ran"}
  BY <1>a DEF WorkersOK
<1>c. unacked' = <<>>
  <2>1. CASE RetryEnqueue
    BY <2>1 DEF RetryEnqueue
  <2>2. ASSUME NEW hi, NEW lost, BulkEnqueue(hi, lost)
        PROVE  unacked' = <<>>
    BY <1>a, <2>2 DEF BulkEnqueue, Spend, Orderly
  <2>3. CASE UNCHANGED unacked
    BY <1>a, <2>3
  <2>4. CASE UNCHANGED vars \/ Clear \/ Pause \/ Unpause
    BY <2>3, <2>4 DEF vars, Clear, Pause, Unpause
  <2>5. CASE \E p \in Procs : WorkerStep(p) \/ Die(p) \/ WorkerStops(p)
    BY <2>3, <2>5 DEF WorkerStep, CheckPause, PeekProcessing, PopMain, PopTimeout, Finish, TimesOut,
                Processed, Die, WorkerStops
  <2>6. CASE \E d \in Dedupers : Scan(d) \/ RemoveTwin(d) \/ DedupCrash(d)
    BY <2>3, <2>6 DEF Scan, RemoveTwin, DedupCrash
  <2>7. CASE \E m \in Machines :
       \/ \E n \in WorkerCounts : Boot(m, n)
       \/ StartupStep(m) \/ Stop(m) \/ Stopped(m) \/ KillRunner(m)
       \/ \E p \in Procs, w \in Nums : SpawnWorker(p, m, w)
    BY <2>3, <2>7 DEF Boot, StartupStep, FindStale, Watch, Exec, ExecAborts, ReadKey, Stop, Stopped,
                      KillRunner, SpawnWorker
  <2> QED
    BY <2>1, <2>2, <2>4, <2>5, <2>6, <2>7 DEF Next
<1>1. ASSUME UNCHANGED <<proc, worker>>
      PROVE  InHand' /\ OneInFlight'
  <2>1. proc' = proc /\ \A p \in Procs : worker'[p] = worker[p]
    BY <1>1
  <2> QED
    BY <1>a, <2>1, SameHands
<1>2. ASSUME NEW p \in Procs, NEW r, worker' = [worker EXCEPT ![p] = r], UNCHANGED proc,
             \/ r.job = NoJob /\ r.pc # "empty"
             \/ /\ r.job = worker[p].job /\ r.slot = worker[p].slot
                /\ r.pc = "empty" => worker[p].pc = "empty"
      PROVE  InHand' /\ OneInFlight'
  <2>1. worker'[p] = r /\ \A q \in Procs \ {p} : worker'[q] = worker[q]
    BY <1>a, <1>2 DEF WorkersOK
  <2> QED
    BY <1>a, <1>2, <2>1, SameHands
<1>3. ASSUME NEW p \in Procs, NEW pc, GoTo(p, pc), UNCHANGED proc, pc # "empty"
      PROVE  InHand' /\ OneInFlight'
  <2> DEFINE r == [worker[p] EXCEPT !.pc = pc]
  <2>1. r.job = worker[p].job /\ r.slot = worker[p].slot /\ r.pc = pc
    BY <1>b DEF Workers
  <2>2. worker' = [worker EXCEPT ![p] = r]
    BY <1>3 DEF GoTo
  <2> HIDE DEF r
  <2> QED
    BY <1>2, <1>3, <2>1, <2>2
<1>4. ASSUME NEW p \in Procs, CheckPause(p) \/ PopTimeout(p) \/ Finish(p)
      PROVE  InHand' /\ OneInFlight'
  BY <1>3, <1>4 DEF CheckPause, PopTimeout, Finish
<1>5. ASSUME NEW p \in Procs, TimesOut(p) \/ Die(p) \/ WorkerStops(p)
      PROVE  InHand' /\ OneInFlight'
  BY <1>2, <1>5, OffType DEF TimesOut, Die, WorkerStops
<1>6. ASSUME NEW p \in Procs, PeekProcessing(p)
      PROVE  InHand' /\ OneInFlight'
  <2> DEFINE mine == proc[worker[p].slot]
  <2>1. mine \in Seq(Raws) /\ Len(mine) <= 1 /\ worker[p].slot \in Nums
    BY <1>a, <1>6, SlotType DEF PeekProcessing, ListsOK, OneInFlight
  <2>2. CASE mine # <<>> /\ TakeJob(p, Last(mine))
    <3> DEFINE j == Last(mine)
               c == {x \in owed : Identity[x] = Identity[j]}
               r == [worker[p] EXCEPT !.pc = "running", !.job = j, !.covers = c]
    <3>1. worker' = [worker EXCEPT ![p] = r] /\ mine = <<j>> /\ UNCHANGED proc
      BY <1>6, <2>1, <2>2, ShortList DEF TakeJob, PeekProcessing
    <3> HIDE DEF c
    <3>2. r.job = j /\ r.slot = worker[p].slot /\ r.pc = "running"
      BY <1>b DEF Workers
    <3> HIDE DEF r, j
    <3>3. worker'[p] = r /\ \A q \in Procs \ {p} : worker'[q] = worker[q]
      BY <1>a, <3>1 DEF WorkersOK
    <3>4. InHand'
      BY <1>a, <3>1, <3>2, <3>3 DEF InHand
    <3> QED
      BY <1>a, <3>1, <3>4 DEF OneInFlight
  <2>3. CASE mine = <<>> /\ GoTo(p, "empty")
    <3> DEFINE r == [worker[p] EXCEPT !.pc = "empty"]
    <3>1. worker' = [worker EXCEPT ![p] = r] /\ UNCHANGED proc
      BY <1>6, <2>3 DEF GoTo, PeekProcessing
    <3>2. r.job = worker[p].job /\ r.slot = worker[p].slot /\ r.pc = "empty"
      BY <1>b DEF Workers
    <3>3. worker[p].job = NoJob
      BY <1>b, <1>6 DEF PeekProcessing
    <3> HIDE DEF r
    <3>4. worker'[p] = r /\ \A q \in Procs \ {p} : worker'[q] = worker[q]
      BY <1>a, <3>1 DEF WorkersOK
    <3>5. InHand'
      BY <1>a, <2>3, <3>1, <3>2, <3>3, <3>4 DEF InHand
    <3> QED
      BY <1>a, <3>1, <3>5 DEF OneInFlight
  <2> QED
    BY <1>6, <2>2, <2>3 DEF PeekProcessing
(* A list of one worker changes: it is of no concern to the others.         *)
<1>7. ASSUME NEW p \in Procs, worker[p].pc # "down", NEW l, Len(l) <= 1,
             proc' = [proc EXCEPT ![worker[p].slot] = l],
             \A q \in Procs \ {p} : worker'[q] = worker[q],
             worker'[p].slot = worker[p].slot,
             worker'[p].pc = "empty" => l = <<>>,
             worker'[p].job # NoJob => l = <<worker'[p].job>>
      PROVE  InHand' /\ OneInFlight'
  <2>1. worker[p].slot \in Nums
    BY <1>a, <1>7, SlotType
  <2>2. proc'[worker[p].slot] = l /\ \A w \in Nums \ {worker[p].slot} : proc'[w] = proc[w]
    BY <1>a, <1>7, <2>1 DEF ListsOK
  <2>3. OneInFlight'
    BY <1>a, <1>7, <2>2 DEF OneInFlight
  <2>4. ASSUME NEW q \in Procs, q # p, worker[q].pc = "empty" \/ worker[q].job # NoJob
        PROVE  proc'[worker[q].slot] = proc[worker[q].slot]
    <3>1. worker[q].pc # "down"
      BY <1>b, <2>4
    <3>2. worker[q].slot \in Nums /\ worker[q].slot # worker[p].slot
      BY <1>a, <1>7, <2>4, <3>1, SlotType DEF Owners, OneEach
    <3> QED
      BY <2>2, <3>2
  <2>5. InHand'
    <3> SUFFICES ASSUME NEW q \in Procs
                 PROVE  /\ worker'[q].pc = "empty" => proc'[worker'[q].slot] = <<>>
                        /\ worker'[q].job # NoJob => proc'[worker'[q].slot] = <<worker'[q].job>>
      BY DEF InHand
    <3>1. CASE q = p
      BY <1>7, <2>2, <3>1
    <3>2. CASE q # p
      BY <1>a, <1>7, <2>4, <3>2 DEF InHand
    <3> QED
      BY <3>1, <3>2
  <2> QED
    BY <2>3, <2>5
<1>8. ASSUME NEW p \in Procs, PopMain(p)
      PROVE  InHand' /\ OneInFlight'
  <2> DEFINE j == Last(main)
             c == {x \in owed : Identity[x] = Identity[j]}
             r == [worker[p] EXCEPT !.pc = "running", !.job = j, !.covers = c]
  <2>1. /\ worker[p].pc = "empty" /\ worker' = [worker EXCEPT ![p] = r]
        /\ proc' = [proc EXCEPT ![worker[p].slot] = <<j>> \o @]
    BY <1>8 DEF PopMain, TakeJob
  <2> HIDE DEF c, j
  <2>2. r.job = j /\ r.slot = worker[p].slot /\ r.pc = "running"
    BY <1>b DEF Workers
  <2> HIDE DEF r
  <2>3. worker'[p] = r /\ \A q \in Procs \ {p} : worker'[q] = worker[q]
    BY <1>a, <2>1 DEF WorkersOK
  <2>4. proc[worker[p].slot] = <<>>
    BY <1>a, <2>1 DEF InHand
  <2>5. proc' = [proc EXCEPT ![worker[p].slot] = <<j>>]
    <3>1. <<j>> \o <<>> = <<j>>
      OBVIOUS
    <3>2. proc' = [proc EXCEPT ![worker[p].slot] = <<j>> \o proc[worker[p].slot]]
      BY <2>1
    <3> QED
      BY <2>4, <3>1, <3>2
  <2>6. /\ Len(<<j>>) <= 1 /\ worker[p].pc # "down" /\ worker'[p].slot = worker[p].slot
        /\ worker'[p].pc # "empty" /\ worker'[p].job = j
    BY <2>1, <2>2, <2>3
  <2> DEFINE l == <<j>>
  <2> HIDE DEF l
  <2> QED
    BY <1>7, <2>3, <2>5, <2>6 DEF l
<1>9. ASSUME NEW p \in Procs, Processed(p)
      PROVE  InHand' /\ OneInFlight'
  <2> DEFINE r == [worker[p] EXCEPT !.pc = "idle", !.job = NoJob, !.covers = {}]
  <2>1. /\ worker[p].pc = "ran" /\ worker' = [worker EXCEPT ![p] = r]
        /\ proc' = [proc EXCEPT ![worker[p].slot] = RemoveFirst(@, worker[p].job)]
    BY <1>9 DEF Processed
  <2>2. r.job = NoJob /\ r.slot = worker[p].slot /\ r.pc = "idle"
    BY <1>b DEF Workers
  <2> HIDE DEF r
  <2>3. worker'[p] = r /\ \A q \in Procs \ {p} : worker'[q] = worker[q]
    BY <1>a, <2>1 DEF WorkersOK
  <2>4. proc[worker[p].slot] = <<worker[p].job>>
    BY <1>a, <1>b, <2>1 DEF InHand
  <2>5. proc' = [proc EXCEPT ![worker[p].slot] = <<>>]
    <3>1. worker[p].job \in Raws
      BY <1>b, <2>1 DEF Workers
    <3>2. RemoveFirst(<<worker[p].job>>, worker[p].job) = <<>>
      BY <3>1, RemoveOnly
    <3>3. proc' = [proc EXCEPT ![worker[p].slot] = RemoveFirst(proc[worker[p].slot], worker[p].job)]
      BY <2>1
    <3> QED
      BY <2>4, <3>2, <3>3
  <2>6. /\ Len(<<>>) <= 1 /\ worker[p].pc # "down" /\ worker'[p].slot = worker[p].slot
        /\ worker'[p].pc # "empty" /\ worker'[p].job = NoJob
    BY <2>1, <2>2, <2>3
  <2> DEFINE l == <<>>
  <2> HIDE DEF l
  <2> QED
    BY <1>7, <2>3, <2>5, <2>6 DEF l
<1>10. ASSUME NEW m \in Machines, Exec(m)
       PROVE  InHand' /\ OneInFlight'
  <2>1. /\ UNCHANGED worker /\ boot[m].phase = "read"
        /\ proc' = [w \in Nums |-> IF w \in boot[m].stale THEN <<>> ELSE proc[w]]
    BY <1>10 DEF Exec
  <2>2. OneInFlight'
    BY <1>a, <2>1 DEF OneInFlight
  <2>3. ASSUME NEW p \in Procs, worker[p].pc # "down"
        PROVE  proc'[worker[p].slot] = proc[worker[p].slot]
    <3>1. worker[p].slot \in Nums
      BY <1>a, <2>3, SlotType
    <3>2. worker[p].slot \in 1..boot[worker[p].host].workers /\ worker[p].host \in Machines
          /\ boot[worker[p].host].phase # "down"
      BY <1>a, <2>3 DEF Owners, Hosted, WorkerNames
    <3>3. boot[worker[p].host].workers = boot[m].workers
      BY <1>a, <2>1, <3>2 DEF Owners, Agreed
    <3>4. worker[p].slot \notin boot[m].stale
      BY <1>a, <3>2, <3>3 DEF Owners, StaleAbove
    <3> QED
      BY <2>1, <3>1, <3>4
  <2>4. InHand'
    BY <1>a, <1>b, <2>1, <2>3 DEF InHand
  <2> QED
    BY <2>2, <2>4
<1>11. ASSUME NEW m \in Machines, KillRunner(m)
       PROVE  InHand' /\ OneInFlight'
  <2>1. Children(m) = {}
    BY <1>11 DEF KillRunner, Spend, Orderly
  <2>2. UNCHANGED <<proc, worker>>
    BY <1>a, <1>11, <2>1 DEF KillRunner, WorkersOK
  <2> QED
    BY <1>1, <2>2
<1>12. ASSUME NEW p \in Procs, NEW m \in Machines, NEW w \in Nums, SpawnWorker(p, m, w)
       PROVE  InHand' /\ OneInFlight'
  <2> DEFINE r == [Off EXCEPT !.pc = "idle", !.host = m, !.slot = w]
  <2>1. worker' = [worker EXCEPT ![p] = r] /\ UNCHANGED proc
    BY <1>12 DEF SpawnWorker
  <2>2. r.pc = "idle" /\ r.job = NoJob
    BY DEF Off
  <2> HIDE DEF r
  <2> QED
    BY <1>2, <2>1, <2>2
<1>13. ASSUME \/ UNCHANGED vars \/ RetryEnqueue \/ Clear \/ Pause \/ Unpause
              \/ \E hi \in (created + 1)..JobCount, lost \in BOOLEAN : BulkEnqueue(hi, lost)
              \/ \E d \in Dedupers : Scan(d) \/ RemoveTwin(d) \/ DedupCrash(d)
       PROVE  InHand' /\ OneInFlight'
  BY <1>1, <1>13 DEF vars, RetryEnqueue, Clear, Pause, Unpause, BulkEnqueue, Scan, RemoveTwin,
                     DedupCrash
<1>14. ASSUME NEW m \in Machines,
              \/ \E n \in WorkerCounts : Boot(m, n)
              \/ FindStale(m) \/ Watch(m) \/ ExecAborts(m) \/ Stop(m) \/ Stopped(m)
              \/ \E w \in Nums : ReadKey(m, w)
       PROVE  InHand' /\ OneInFlight'
  BY <1>1, <1>14 DEF Boot, FindStale, Watch, ExecAborts, ReadKey, Stop, Stopped
<1>15. InHand' /\ OneInFlight'
  BY <1>4, <1>5, <1>6, <1>8, <1>9, <1>10, <1>11, <1>12, <1>13, <1>14
     DEF Next, WorkerStep, StartupStep
<1> QED
  BY <1>c, <1>15

LEMMA OwnInit == Init => Own
<1> SUFFICES ASSUME Init
             PROVE  Own
  OBVIOUS
<1>1. \A p \in Procs : worker[p].pc = "down" /\ worker[p].job = NoJob
  BY OffType DEF Init
<1>2. \A m \in Machines : boot[m].phase = "down" /\ boot[m].stale = {}
  BY HaltedType DEF Init
<1>3. Owners
  BY <1>1, <1>2 DEF Owners, Agreed, Hosted, OneEach, StaleAbove
<1>4. InHand /\ OneInFlight /\ unacked = <<>>
  BY <1>1 DEF Init, InHand, OneInFlight
<1> QED
  BY <1>3, <1>4 DEF Own

-----------------------------------------------------------------------------
(* No job at two places. *)

OnePlace ==
  /\ Distinct(main)
  /\ \A w \in Nums : ToSet(proc[w]) \cap ToSet(main) = {}
  /\ \A v, w \in Nums : v # w => ToSet(proc[v]) \cap ToSet(proc[w]) = {}

GatheredDistinct ==
  \A m \in Machines : boot[m].phase = "read" /\ ~boot[m].touched => Distinct(boot[m].gathered)

(* Jobs that are taken off a list and put nowhere else.                     *)
LEMMA FewerPlaces ==
  ASSUME OnePlace, Distinct(main'), ToSet(main') \subseteq ToSet(main),
         \A w \in Nums : ToSet(proc'[w]) \subseteq ToSet(proc[w])
  PROVE  OnePlace'
<1>1. \A w \in Nums : ToSet(proc'[w]) \cap ToSet(main') = {}
  BY DEF OnePlace
<1>2. \A v, w \in Nums : v # w => ToSet(proc'[v]) \cap ToSet(proc'[w]) = {}
  BY DEF OnePlace
<1> QED
  BY <1>1, <1>2 DEF OnePlace

LEMMA OnePlaceStep ==
  ASSUME IInv, Own, OnePlace, GatheredOnly, GatheredDistinct, [Next]_vars
  PROVE  OnePlace'
<1> USE DEF redis, dedup, history
<1>a. /\ ListsOK /\ WorkersOK /\ RunnersOK /\ DedupOK /\ TypeOK /\ created \in Nat
      /\ InHand /\ unacked = <<>> /\ OnlyPushed
  BY ConstantsAssumption DEF IInv, TypeOK, CountsOK, Own
<1>b. /\ ToSet(main) \subseteq 1..created
      /\ \A w \in Nums : proc[w] \in Seq(Raws) /\ ToSet(proc[w]) \subseteq 1..created
      /\ main \in Seq(Raws)
  BY <1>a DEF OnlyPushed, InRedis, InFlight, ListsOK
<1>1. CASE UNCHANGED <<main, proc>>
  BY <1>1 DEF OnePlace
<1>2. ASSUME NEW hi \in (created + 1)..JobCount, NEW lost \in BOOLEAN, BulkEnqueue(hi, lost)
      PROVE  OnePlace'
  <2> DEFINE b == Batch(hi)
             r == Reverse(b)
  <2>1. /\ b \in Seq(Raws) /\ ToSet(b) = (created + 1)..hi
        /\ main' = r \o main /\ UNCHANGED proc
    BY <1>a, <1>2, BatchType DEF BulkEnqueue, LPush
  <2>2. Distinct(b)
    <3>1. hi \in Nat /\ DOMAIN b = 1..(hi - created) /\ \A i \in 1..(hi - created) : b[i] = created + i
      BY <1>a, ConstantsAssumption DEF Batch
    <3> HIDE DEF b
    <3>2. \A i, j \in 1..(hi - created) : created + i = created + j => i = j
      BY <1>a, <3>1
    <3> QED
      BY <3>1, <3>2 DEF Distinct
  <2> HIDE DEF b
  <2>3. r \in Seq(Raws) /\ ToSet(r) = (created + 1)..hi /\ Distinct(r)
    BY <2>1, <2>2, ReverseKeeps, ReverseDistinct
  <2> HIDE DEF r
  <2>4. ToSet(r) \cap (1..created) = {}
    BY <1>a, <2>3
  <2>5. Distinct(main')
    <3>1. ToSet(r) \cap ToSet(main) = {} /\ Distinct(main)
      BY <1>b, <2>4 DEF OnePlace
    <3> QED
      BY <1>b, <2>1, <2>3, <3>1, ConcatDistinct
  <2>6. ToSet(main') = ToSet(r) \cup ToSet(main)
    <3>1. main \in Seq(Raws) /\ main' = r \o main /\ r \in Seq(Raws)
      BY <1>b, <2>1, <2>3
    <3> QED
      BY <3>1, ConcatKeeps
  <2>7. \A w \in Nums : ToSet(proc'[w]) \cap ToSet(main') = {}
    BY <1>b, <2>1, <2>4, <2>6 DEF OnePlace
  <2> QED
    BY <2>1, <2>5, <2>7 DEF OnePlace
<1>3. CASE RetryEnqueue
  BY <1>a, <1>3 DEF RetryEnqueue
<1>4. CASE Clear
  <2>1. main' = <<>> /\ UNCHANGED proc
    BY <1>4 DEF Clear
  <2>2. Distinct(main') /\ ToSet(main') = {}
    BY <2>1 DEF Distinct, ToSet
  <2> QED
    BY <2>1, <2>2, FewerPlaces
<1>5. ASSUME NEW p \in Procs, PopMain(p)
      PROVE  OnePlace'
  <2> DEFINE j == Last(main)
             s == worker[p].slot
  <2>1. /\ s \in Nums /\ main # <<>> /\ main' = Front(main) /\ proc[s] = <<>>
        /\ proc' = [proc EXCEPT ![s] = <<j>> \o proc[s]]
    BY <1>a, <1>5, SlotType DEF PopMain, InHand
  <2>2. /\ j \in ToSet(main) /\ ToSet(main') \subseteq ToSet(main)
        /\ Distinct(main') /\ j \notin ToSet(main')
    BY <1>b, <2>1, TailOfList, FrontDistinct DEF OnePlace
  <2>3. <<j>> \o <<>> = <<j>> /\ ToSet(<<j>>) = {j}
    BY DEF ToSet
  <2> HIDE DEF j, s
  <2>4. ToSet(proc'[s]) = {j} /\ \A w \in Nums \ {s} : proc'[w] = proc[w]
    BY <1>a, <2>1, <2>3 DEF ListsOK
  <2>5. \A w \in Nums : ToSet(proc'[w]) \cap ToSet(main') = {}
    BY <2>2, <2>4 DEF OnePlace
  <2>6. \A v, w \in Nums : v # w => ToSet(proc'[v]) \cap ToSet(proc'[w]) = {}
    BY <2>1, <2>2, <2>4 DEF OnePlace
  <2> QED
    BY <2>2, <2>5, <2>6 DEF OnePlace
<1>6. ASSUME NEW p \in Procs, Processed(p)
      PROVE  OnePlace'
  <2> DEFINE s == worker[p].slot
  <2>1. /\ s \in Nums /\ UNCHANGED main
        /\ proc' = [proc EXCEPT ![s] = RemoveFirst(proc[s], worker[p].job)]
    BY <1>a, <1>6, SlotType DEF Processed
  <2>2. ToSet(RemoveFirst(proc[s], worker[p].job)) \subseteq ToSet(proc[s])
    BY <1>b, <2>1, RemoveFirstKeeps
  <2> HIDE DEF s
  <2>3. \A w \in Nums : ToSet(proc'[w]) \subseteq ToSet(proc[w])
    BY <1>a, <2>1, <2>2 DEF ListsOK
  <2> QED
    BY <2>1, <2>3, FewerPlaces DEF OnePlace
<1>7. ASSUME NEW m \in Machines, Exec(m)
      PROVE  OnePlace'
  <2> DEFINE g == boot[m].gathered
             stale == boot[m].stale
  <2>1. /\ main' = main \o g
        /\ proc' = [w \in Nums |-> IF w \in stale THEN <<>> ELSE proc[w]]
        /\ boot[m].phase = "read" /\ boot[m].unread = {} /\ ~boot[m].touched
    BY <1>7 DEF Exec
  <2>2. g \in Seq(Raws) /\ stale \subseteq Nums /\ Distinct(g)
    BY <1>a, <2>1 DEF RunnersOK, Runners, GatheredDistinct
  <2>3. \A x \in ToSet(g) : \E w \in stale : x \in ToSet(proc[w])
    BY <2>1 DEF GatheredOnly
  <2> HIDE DEF g, stale
  <2>4. ToSet(main) \cap ToSet(g) = {} /\ \A w \in Nums \ stale : ToSet(proc[w]) \cap ToSet(g) = {}
    BY <2>2, <2>3 DEF OnePlace
  <2>5. Distinct(main') /\ ToSet(main') = ToSet(main) \cup ToSet(g)
    BY <1>b, <2>1, <2>2, <2>4, ConcatDistinct, ConcatKeeps DEF OnePlace
  <2>6. /\ \A w \in Nums \cap stale : ToSet(proc'[w]) = {}
        /\ \A w \in Nums \ stale : proc'[w] = proc[w]
    BY <2>1 DEF ToSet
  <2>7. \A w \in Nums : ToSet(proc'[w]) \cap ToSet(main') = {}
    BY <2>4, <2>5, <2>6 DEF OnePlace
  <2>8. \A v, w \in Nums : v # w => ToSet(proc'[v]) \cap ToSet(proc'[w]) = {}
    BY <2>6 DEF OnePlace
  <2> QED
    BY <2>5, <2>7, <2>8 DEF OnePlace
<1>8. ASSUME NEW d \in Dedupers, RemoveTwin(d)
      PROVE  OnePlace'
  <2>1. PICK i \in todo[d] : main' = RemoveFirst(main, snap[d][i]) /\ UNCHANGED proc
    BY <1>8 DEF RemoveTwin
  <2>2. Distinct(main') /\ ToSet(main') \subseteq ToSet(main)
    BY <1>b, <2>1, RemoveDistinct, RemoveFirstKeeps DEF OnePlace
  <2> QED
    BY <2>1, <2>2, FewerPlaces
<1>9. CASE UNCHANGED vars \/ Pause \/ Unpause
  BY <1>1, <1>9 DEF vars, Pause, Unpause
<1>10. ASSUME NEW p \in Procs,
              \/ CheckPause(p) \/ PeekProcessing(p) \/ PopTimeout(p) \/ Finish(p) \/ TimesOut(p)
              \/ Die(p) \/ WorkerStops(p)
       PROVE  OnePlace'
  BY <1>1, <1>10 DEF CheckPause, PeekProcessing, PopTimeout, Finish, TimesOut, Die, WorkerStops
<1>11. ASSUME NEW m \in Machines,
              \/ \E n \in WorkerCounts : Boot(m, n)
              \/ FindStale(m) \/ Watch(m) \/ ExecAborts(m) \/ Stop(m) \/ Stopped(m) \/ KillRunner(m)
              \/ \E w \in Nums : ReadKey(m, w)
              \/ \E p \in Procs, w \in Nums : SpawnWorker(p, m, w)
       PROVE  OnePlace'
  BY <1>1, <1>11 DEF Boot, FindStale, Watch, ExecAborts, ReadKey, Stop, Stopped, KillRunner, SpawnWorker
<1>12. ASSUME NEW d \in Dedupers, Scan(d) \/ DedupCrash(d)
       PROVE  OnePlace'
  BY <1>1, <1>12 DEF Scan, DedupCrash
<1> QED
  BY <1>2, <1>3, <1>4, <1>5, <1>6, <1>7, <1>8, <1>9, <1>10, <1>11, <1>12
     DEF Next, WorkerStep, StartupStep

LEMMA GatheredDistinctStep ==
  ASSUME TypeOK, OneInFlight, OnePlace, GatheredOnly, GatheredDistinct, [Next]_vars
  PROVE  GatheredDistinct'
<1> SUFFICES ASSUME NEW m \in Machines, boot'[m].phase = "read", ~boot'[m].touched
             PROVE  Distinct(boot'[m].gathered)
  BY DEF GatheredDistinct
<1>1. CASE boot'[m].gathered = <<>>
  BY <1>1 DEF Distinct
<1>2. ASSUME NEW w \in boot[m].unread, boot[m].phase = "read", ~boot[m].touched,
             boot'[m].gathered = boot[m].gathered \o proc[w]
      PROVE  Distinct(boot'[m].gathered)
  <2>1. /\ boot[m].gathered \in Seq(Raws) /\ w \in Nums /\ boot[m].stale \subseteq Nums
        /\ proc[w] \in Seq(Raws)
    BY DEF TypeOK, RunnersOK, Runners, ListsOK
  <2>2. Distinct(boot[m].gathered)
    BY <1>2 DEF GatheredDistinct
  <2>4. Distinct(proc[w])
    <3>1. DOMAIN proc[w] = 1..Len(proc[w]) /\ Len(proc[w]) \in Nat /\ Len(proc[w]) <= 1
      BY <2>1 DEF OneInFlight
    <3> QED
      BY <3>1 DEF Distinct
  <2>3. ToSet(boot[m].gathered) \cap ToSet(proc[w]) = {}
    <3>1. \A x \in ToSet(boot[m].gathered) :
            \E v \in boot[m].stale \ boot[m].unread : x \in ToSet(proc[v])
      BY <1>2, Zenon DEF GatheredOnly
    <3>2. \A v \in boot[m].stale \ boot[m].unread : ToSet(proc[v]) \cap ToSet(proc[w]) = {}
      BY <2>1, Zenon DEF OnePlace
    <3> QED
      BY <3>1, <3>2
  <2> QED
    BY <1>2, <2>1, <2>2, <2>3, <2>4, ConcatDistinct
<1>3. CASE boot[m].phase = "read" /\ ~boot[m].touched /\ boot'[m].gathered = boot[m].gathered
  BY <1>3 DEF GatheredDistinct
<1> QED
  BY <1>1, <1>2, <1>3, Undisturbed

-----------------------------------------------------------------------------
(* All that holds while runners outlive their workers and agree.            *)
OrderlyIInv == IInv /\ GatheredOnly /\ Own /\ OnePlace /\ GatheredDistinct

LEMMA OrderlyInit == Init => OrderlyIInv
<1>1. Init => GatheredDistinct /\ OnePlace
  BY HaltedType DEF Init, GatheredDistinct, OnePlace, Distinct, ToSet
<1> QED
  BY <1>1, KeptInit, GatheredOnlyInit, OwnInit DEF OrderlyIInv

LEMMA OrderlyStep ==
  ASSUME Orderly, OrderlyIInv, [Next]_vars
  PROVE  OrderlyIInv'
<1>1. /\ IInv /\ TypeOK /\ GatheredOnly /\ Own /\ Owners /\ OneInFlight /\ OnePlace
      /\ GatheredDistinct
  BY DEF OrderlyIInv, IInv, Own
<1>2. IInv' /\ GatheredOnly'
  BY <1>1, KeptStep, GatheredOnlyStep
<1>3. Own'
  BY <1>1, OwnersStep, HandsStep DEF Own
<1>4. OnePlace' /\ GatheredDistinct'
  BY <1>1, OnePlaceStep, GatheredDistinctStep
<1> QED
  BY <1>2, <1>3, <1>4 DEF OrderlyIInv

(* Exclusive: while runners outlive their workers and agree on the number   *)
(* of workers, no job is run by two processes at once.                      *)
THEOREM NoJobRunsTwiceAtOnce ==
  ASSUME Orderly
  PROVE  Spec => []Exclusive
<1>1. OrderlyIInv => Exclusive
  <2> SUFFICES ASSUME OrderlyIInv, NEW p \in Procs, NEW q \in Procs, p # q,
                      worker[p].job # NoJob, worker[q].job = worker[p].job
               PROVE  FALSE
    BY DEF Exclusive
  <2>1. /\ WorkersOK /\ InHand /\ OneEach /\ OnePlace
    BY DEF OrderlyIInv, IInv, TypeOK, Own, Owners
  <2>2. worker[p].pc # "down" /\ worker[q].pc # "down"
    BY <2>1 DEF WorkersOK
  <2>3. worker[p].slot \in Nums /\ worker[q].slot \in Nums /\ worker[p].slot # worker[q].slot
    BY <2>1, <2>2, SlotType DEF OneEach
  <2>4. proc[worker[p].slot] = <<worker[p].job>> /\ proc[worker[q].slot] = <<worker[p].job>>
    BY <2>1 DEF InHand
  <2>5. worker[p].job \in ToSet(<<worker[p].job>>)
    BY DEF ToSet
  <2> QED
    BY <2>1, <2>3, <2>4, <2>5 DEF OnePlace
<1>2. OrderlyIInv /\ [Next]_vars => OrderlyIInv'
  BY OrderlyStep
<1> QED
  BY <1>1, <1>2, OrderlyInit, PTL DEF Spec

(* A worker number has at most one job in hand: whoever holds the number    *)
(* pops the next job only after the last one is acknowledged or recovered,  *)
(* restarts of the worker and of its runner included.                       *)
THEOREM OneJobPerNumber ==
  ASSUME Orderly
  PROVE  Spec => []OneInFlight
<1>1. OrderlyIInv => OneInFlight
  BY DEF OrderlyIInv, Own
<1>2. OrderlyIInv /\ [Next]_vars => OrderlyIInv'
  BY OrderlyStep
<1> QED
  BY <1>1, <1>2, OrderlyInit, PTL DEF Spec

-----------------------------------------------------------------------------
(* A runner that is there has workers to start, number 1 among them.        *)
Counted == \A m \in Machines : boot[m].phase # "down" => boot[m].workers \in WorkerCounts

LEMMA CountedStep ==
  ASSUME TypeOK, Counted, [Next]_vars
  PROVE  Counted'
<1> USE DEF redis, dedup, history
<1>a. /\ ListsOK /\ WorkersOK /\ RunnersOK /\ \A m \in Machines : boot[m] \in Runners
  BY DEF TypeOK, RunnersOK
<1>1. CASE UNCHANGED boot
  BY <1>1 DEF Counted
<1>2. ASSUME NEW ws, boot' = Touch(ws)
      PROVE  Counted'
  BY <1>a, <1>2, TouchOnlyMarks DEF Counted
<1>3. ASSUME NEW m \in Machines, NEW r, boot' = [boot EXCEPT ![m] = r],
             r.phase # "down" => r.workers \in WorkerCounts
      PROVE  Counted'
  BY <1>a, <1>3 DEF Counted, RunnersOK
<1>4. ASSUME NEW m \in Machines, NEW n \in WorkerCounts, Boot(m, n)
      PROVE  Counted'
  <2>1. PICK phase \in {"up", "keys"} :
          boot' = [boot EXCEPT ![m] = [Halted EXCEPT !.workers = n, !.phase = phase]]
    BY <1>4 DEF Boot
  <2> DEFINE r == [Halted EXCEPT !.workers = n, !.phase = phase]
  <2>2. r.workers = n
    BY DEF Halted
  <2> HIDE DEF r
  <2> QED
    BY <1>3, <2>1, <2>2 DEF r
<1>5. ASSUME NEW m \in Machines, FindStale(m) \/ Watch(m) \/ ExecAborts(m) \/ Stop(m)
                                  \/ \E w \in Nums : ReadKey(m, w)
      PROVE  Counted'
  <2>1. boot[m] \in Runners /\ boot[m].workers \in WorkerCounts
    BY <1>a, <1>5 DEF FindStale, Watch, ExecAborts, Stop, ReadKey, Counted
  <2>2. CASE FindStale(m)
    <3>1. PICK stale, phase : boot' = [boot EXCEPT ![m] = [boot[m] EXCEPT !.stale = stale, !.phase = phase]]
      BY <2>2 DEF FindStale
    <3> DEFINE r == [boot[m] EXCEPT !.stale = stale, !.phase = phase]
    <3>2. r.workers = boot[m].workers
      BY <2>1 DEF Runners
    <3> HIDE DEF r
    <3> QED
      BY <1>3, <2>1, <3>1, <3>2 DEF r
  <2>3. CASE Watch(m)
    <3> DEFINE r == [boot[m] EXCEPT !.phase = "read", !.touched = FALSE,
                                    !.unread = boot[m].stale, !.gathered = <<>>]
    <3>1. boot' = [boot EXCEPT ![m] = r]
      BY <2>3 DEF Watch
    <3>2. r.workers = boot[m].workers
      BY <2>1 DEF Runners
    <3> HIDE DEF r
    <3> QED
      BY <1>3, <2>1, <3>1, <3>2
  <2>4. CASE ExecAborts(m) \/ Stop(m)
    <3>1. PICK phase : boot' = [boot EXCEPT ![m] = [boot[m] EXCEPT !.phase = phase]]
      BY <2>4 DEF ExecAborts, Stop
    <3> DEFINE r == [boot[m] EXCEPT !.phase = phase]
    <3>2. r.workers = boot[m].workers
      BY <2>1 DEF Runners
    <3> HIDE DEF r
    <3> QED
      BY <1>3, <2>1, <3>1, <3>2 DEF r
  <2>5. CASE \E w \in Nums : ReadKey(m, w)
    <3>1. PICK w \in Nums : ReadKey(m, w)
      BY <2>5
    <3> DEFINE r == [boot[m] EXCEPT !.unread = boot[m].unread \ {w},
                                    !.gathered = boot[m].gathered \o proc[w]]
    <3>2. boot' = [boot EXCEPT ![m] = r]
      BY <3>1 DEF ReadKey
    <3>3. r.workers = boot[m].workers
      BY <2>1 DEF Runners
    <3> HIDE DEF r
    <3> QED
      BY <1>3, <2>1, <3>2, <3>3
  <2> QED
    BY <1>5, <2>2, <2>3, <2>4, <2>5
<1>6. ASSUME NEW m \in Machines, Exec(m)
      PROVE  Counted'
  <2> DEFINE t == Touch({w \in boot[m].stale : proc[w] # <<>>})
             r == [Halted EXCEPT !.phase = "up", !.workers = boot[m].workers]
  <2>1. boot' = [t EXCEPT ![m] = r] /\ boot[m].phase = "read" /\ r.workers = boot[m].workers
    BY <1>6 DEF Exec, Halted
  <2>2. t \in [Machines -> Runners]
        /\ \A o \in Machines : t[o].phase = boot[o].phase /\ t[o].workers = boot[o].workers
    BY <1>a, TouchOnlyMarks
  <2> HIDE DEF t, r
  <2>3. boot'[m] = r /\ \A o \in Machines \ {m} : boot'[o] = t[o]
    BY <2>1, <2>2
  <2> QED
    BY <2>1, <2>2, <2>3 DEF Counted
<1>7. ASSUME NEW m \in Machines, Stopped(m) \/ KillRunner(m)
      PROVE  Counted'
  BY <1>3, <1>7, HaltedType DEF Stopped, KillRunner
<1>8. ASSUME NEW p \in Procs, WorkerStep(p) \/ Die(p) \/ WorkerStops(p)
                               \/ \E m \in Machines, w \in Nums : SpawnWorker(p, m, w)
      PROVE  Counted'
  <2>1. CASE PopMain(p)
    BY <1>2, <2>1 DEF PopMain
  <2>2. CASE Processed(p)
    BY <1>1, <1>2, <2>2 DEF Processed
  <2> QED
    BY <1>1, <1>8, <2>1, <2>2 DEF WorkerStep, CheckPause, PeekProcessing, PopTimeout, Finish, TimesOut,
         Die, WorkerStops, SpawnWorker
<1>9. CASE UNCHANGED vars \/ RetryEnqueue \/ Clear \/ Pause \/ Unpause
           \/ (\E hi \in (created + 1)..JobCount, lost \in BOOLEAN : BulkEnqueue(hi, lost))
           \/ (\E d \in Dedupers : Scan(d) \/ RemoveTwin(d) \/ DedupCrash(d))
  BY <1>1, <1>9 DEF vars, RetryEnqueue, Clear, Pause, Unpause, BulkEnqueue, Scan, RemoveTwin, DedupCrash
<1> QED
  BY <1>4, <1>5, <1>6, <1>7, <1>8, <1>9 DEF Next, StartupStep

-----------------------------------------------------------------------------
(* The worker numbers that some settings have no worker for: the only ones  *)
(* whose lists a start-up recovers. With OneStray they are one at most.     *)
Strays == {w \in Nums : \E n \in WorkerCounts : w \notin 1..n}
OneStray == \A v, w \in Strays : v = w

(* What a step may do to the lists while the workers own what they hold.    *)
PushBatch(hi) ==
  /\ hi \in (created + 1)..JobCount
  /\ main' = Reverse(Batch(hi)) \o main /\ UNCHANGED proc /\ created' = hi
Taken(s) ==
  /\ s \in Nums /\ main # <<>> /\ proc[s] = <<>> /\ UNCHANGED created
  /\ main' = Front(main)
  /\ proc' \in [Nums -> Seq(Raws)] /\ proc'[s] = <<Last(main)>>
  /\ \A w \in Nums \ {s} : proc'[w] = proc[w]
Done(s) ==
  /\ s \in Nums /\ UNCHANGED <<main, created>>
  /\ proc' \in [Nums -> Seq(Raws)] /\ proc'[s] = <<>>
  /\ \A w \in Nums \ {s} : proc'[w] = proc[w]
Recovered(stale, g) ==
  /\ stale \subseteq Strays /\ UNCHANGED created
  /\ g \in Seq(Raws) /\ Distinct(g)
  /\ \A x \in ToSet(g) : \E w \in stale : x \in ToSet(proc[w])
  /\ \A w \in stale : ToSet(proc[w]) \subseteq ToSet(g)
  /\ main' = main \o g
  /\ proc' \in [Nums -> Seq(Raws)]
  /\ \A w \in Nums : proc'[w] = IF w \in stale THEN <<>> ELSE proc[w]

LEMMA ListStep ==
  ASSUME Orderly, OrderlyIInv, Counted, [Next]_vars
  PROVE  \/ UNCHANGED <<main, proc, created>>
         \/ (\E hi \in (created + 1)..JobCount, lost \in BOOLEAN : BulkEnqueue(hi, lost) /\ PushBatch(hi))
         \/ Clear
         \/ (\E p \in Procs : PopMain(p) /\ Taken(worker[p].slot))
         \/ (\E p \in Procs : Processed(p) /\ Done(worker[p].slot))
         \/ (\E m \in Machines : Exec(m) /\ Recovered(boot[m].stale, boot[m].gathered))
         \/ (\E d \in Dedupers : RemoveTwin(d) /\ UNCHANGED <<proc, created>>)
<1> USE DEF redis, dedup, history
<1>a. /\ ListsOK /\ WorkersOK /\ RunnersOK /\ \A m \in Machines : boot[m] \in Runners
      /\ InHand /\ unacked = <<>> /\ GatheredOnly /\ GatheredAll /\ GatheredDistinct /\ StaleAbove
  BY DEF OrderlyIInv, IInv, TypeOK, RunnersOK, Own, Owners
<1>1. ASSUME NEW hi \in (created + 1)..JobCount, NEW lost \in BOOLEAN, BulkEnqueue(hi, lost)
      PROVE  PushBatch(hi)
  BY <1>1 DEF BulkEnqueue, PushBatch, LPush
<1>2. ~RetryEnqueue
  BY <1>a DEF RetryEnqueue
<1>3. ASSUME NEW p \in Procs, PopMain(p)
      PROVE  Taken(worker[p].slot)
  <2> DEFINE s == worker[p].slot
             j == Last(main)
  <2>1. /\ s \in Nums /\ main # <<>> /\ main' = Front(main) /\ proc[s] = <<>> /\ UNCHANGED created
        /\ proc' = [proc EXCEPT ![s] = <<j>> \o proc[s]]
    BY <1>a, <1>3, SlotType DEF PopMain, InHand
  <2>2. j \in Raws /\ <<j>> \o <<>> = <<j>>
    BY <1>a, <2>1, TailOfList DEF ListsOK
  <2> HIDE DEF s, j
  <2>3. proc' = [proc EXCEPT ![s] = <<j>>] /\ <<j>> \in Seq(Raws)
    BY <2>1, <2>2
  <2>4. proc' \in [Nums -> Seq(Raws)] /\ proc'[s] = <<j>> /\ \A w \in Nums \ {s} : proc'[w] = proc[w]
    BY <1>a, <2>1, <2>3 DEF ListsOK
  <2> QED
    BY <2>1, <2>4 DEF Taken, s, j
<1>4. ASSUME NEW p \in Procs, Processed(p)
      PROVE  Done(worker[p].slot)
  <2> DEFINE s == worker[p].slot
             j == worker[p].job
  <2>1. /\ s \in Nums /\ j \in Raws /\ proc[s] = <<j>> /\ UNCHANGED <<main, created>>
        /\ proc' = [proc EXCEPT ![s] = RemoveFirst(proc[s], j)]
    <3>1. worker[p].pc # "down" /\ worker[p].job # NoJob
      BY <1>a, <1>4 DEF Processed, WorkersOK
    <3> QED
      BY <1>a, <1>4, <3>1, SlotType DEF Processed, InHand
  <2> HIDE DEF s, j
  <2>2. RemoveFirst(proc[s], j) = <<>> /\ <<>> \in Seq(Raws)
    BY <2>1, RemoveOnly
  <2>3. proc' \in [Nums -> Seq(Raws)] /\ proc'[s] = <<>> /\ \A w \in Nums \ {s} : proc'[w] = proc[w]
    BY <1>a, <2>1, <2>2 DEF ListsOK
  <2> QED
    BY <2>1, <2>3 DEF Done, s
<1>5. ASSUME NEW m \in Machines, Exec(m)
      PROVE  Recovered(boot[m].stale, boot[m].gathered)
  <2> DEFINE stale == boot[m].stale
             g == boot[m].gathered
  <2>1. /\ main' = main \o g /\ UNCHANGED created
        /\ proc' = [w \in Nums |-> IF w \in stale THEN <<>> ELSE proc[w]]
        /\ boot[m].phase = "read" /\ boot[m].unread = {} /\ ~boot[m].touched
    BY <1>5 DEF Exec
  <2>2. g \in Seq(Raws) /\ stale \subseteq Nums /\ Distinct(g)
    BY <1>a, <2>1 DEF Runners, GatheredDistinct
  <2>3. \A x \in ToSet(g) : \E w \in stale : x \in ToSet(proc[w])
    BY <1>a, <2>1 DEF GatheredOnly
  <2>4. \A w \in stale : ToSet(proc[w]) \subseteq ToSet(g)
    BY <1>a, <2>1 DEF GatheredAll
  <2>5. stale \subseteq Strays
    <3>1. boot[m].workers \in WorkerCounts
      BY <2>1 DEF Counted
    <3>2. \A w \in stale : w \notin 1..boot[m].workers
      BY <1>a DEF StaleAbove
    <3> QED
      BY <2>2, <3>1, <3>2 DEF Strays
  <2> HIDE DEF stale, g
  <2>6. proc' \in [Nums -> Seq(Raws)] /\ \A w \in Nums : proc'[w] = IF w \in stale THEN <<>> ELSE proc[w]
    <3>1. \A w \in Nums : proc[w] \in Seq(Raws) /\ <<>> \in Seq(Raws)
      BY <1>a DEF ListsOK
    <3> QED
      BY <2>1, <3>1
  <2> QED
    BY <2>1, <2>2, <2>3, <2>4, <2>5, <2>6 DEF Recovered, stale, g
<1>6. ASSUME NEW d \in Dedupers, RemoveTwin(d)
      PROVE  UNCHANGED <<proc, created>>
  BY <1>6 DEF RemoveTwin
<1>9. CASE UNCHANGED vars \/ Pause \/ Unpause
  BY <1>9 DEF vars, Pause, Unpause
<1>10. ASSUME NEW p \in Procs,
              \/ CheckPause(p) \/ PeekProcessing(p) \/ PopTimeout(p) \/ Finish(p) \/ TimesOut(p)
              \/ Die(p) \/ WorkerStops(p)
       PROVE  UNCHANGED <<main, proc, created>>
  BY <1>10 DEF CheckPause, PeekProcessing, PopTimeout, Finish, TimesOut, Die, WorkerStops
<1>11. ASSUME NEW m \in Machines,
              \/ \E n \in WorkerCounts : Boot(m, n)
              \/ FindStale(m) \/ Watch(m) \/ ExecAborts(m) \/ Stop(m) \/ Stopped(m) \/ KillRunner(m)
              \/ \E w \in Nums : ReadKey(m, w)
              \/ \E p \in Procs, w \in Nums : SpawnWorker(p, m, w)
       PROVE  UNCHANGED <<main, proc, created>>
  BY <1>11 DEF Boot, FindStale, Watch, ExecAborts, ReadKey, Stop, Stopped, KillRunner, SpawnWorker
<1>12. ASSUME NEW d \in Dedupers, Scan(d) \/ DedupCrash(d)
       PROVE  UNCHANGED <<main, proc, created>>
  BY <1>12 DEF Scan, DedupCrash
<1> HIDE DEF redis, dedup, history
<1> QED
  BY <1>1, <1>2, <1>3, <1>4, <1>5, <1>6, <1>9, <1>10, <1>11, <1>12
     DEF Next, WorkerStep, StartupStep

-----------------------------------------------------------------------------
(* First in, first out, with at most one list to recover. *)

(* What a recovery may bring back has been pushed before all that waits.    *)
StaleOlder == \A w \in Strays : \A x \in ToSet(proc[w]), y \in ToSet(main) : x < y

LEMMA RawsNat == Raws \subseteq Nat
  BY ConstantsAssumption DEF Raws

LEMMA BatchDescends ==
  ASSUME TypeOK, NEW hi \in (created + 1)..JobCount
  PROVE  Descends(Reverse(Batch(hi)))
<1> DEFINE b == Batch(hi)
           r == Reverse(b)
           n == hi - created
<1>1. created \in Nat /\ hi \in Nat /\ n \in Nat
  BY ConstantsAssumption DEF TypeOK, CountsOK
<1>2. b \in Seq(Raws) /\ Len(b) = n /\ \A i \in 1..n : b[i] = created + i
  <2>1. b \in Seq(Raws)
    BY BatchType
  <2> QED
    BY <1>1, <2>1 DEF Batch
<1> HIDE DEF b
<1>3. /\ r \in Seq(Raws) /\ Len(r) = n
      /\ \A i \in 1..n : (n - i) + 1 \in 1..n /\ r[i] = b[(n - i) + 1]
  BY <1>2, ReverseAt
<1> HIDE DEF r
<1>4. DOMAIN r = 1..n
  BY <1>3
<1>5. \A i \in 1..n : r[i] = created + ((n - i) + 1)
  BY <1>2, <1>3
<1>6. \A i, j \in 1..n : i < j => created + ((n - i) + 1) > created + ((n - j) + 1)
  BY <1>1
<1> QED
  BY <1>4, <1>5, <1>6 DEF Descends, r, b

(* With one stray number, at most one job is recovered at a time. *)
LEMMA OneRecovered ==
  ASSUME TypeOK, OneInFlight, OneStray, NEW stale, NEW g, Recovered(stale, g)
  PROVE  Len(g) <= 1
<1>1. /\ g \in Seq(Raws) /\ Distinct(g) /\ stale \subseteq Strays
      /\ \A x \in ToSet(g) : \E w \in stale : x \in ToSet(proc[w])
  BY DEF Recovered
<1>2. ASSUME NEW x \in ToSet(g), NEW y \in ToSet(g)
      PROVE  x = y
  <2>1. PICK w \in Strays : x \in ToSet(proc[w]) /\ y \in ToSet(proc[w])
    BY <1>1, <1>2 DEF OneStray
  <2>2. proc[w] \in Seq(Raws) /\ Len(proc[w]) <= 1
    BY <2>1 DEF TypeOK, ListsOK, OneInFlight, Strays
  <2>3. PICK i \in 1..Len(proc[w]), j \in 1..Len(proc[w]) : proc[w][i] = x /\ proc[w][j] = y
    BY <2>1, <2>2, InToSet
  <2>4. i = j
    BY <2>2, <2>3
  <2> QED
    BY <2>3, <2>4
<1> QED
  BY <1>1, <1>2, OneDistinct

LEMMA OrderStep ==
  ASSUME Orderly, OneStray, OrderlyIInv, Counted, MainNewestFirst, StaleOlder, [Next]_vars
  PROVE  MainNewestFirst' /\ StaleOlder'
<1>a. /\ TypeOK /\ OneInFlight /\ OnlyPushed /\ created \in Nat
      /\ main \in Seq(Raws) /\ \A w \in Nums : proc[w] \in Seq(Raws)
      /\ Descends(main)
  BY ConstantsAssumption
     DEF OrderlyIInv, IInv, Own, TypeOK, CountsOK, ListsOK, MainNewestFirst, Descends
<1>b. /\ ToSet(main) \subseteq 1..created
      /\ \A w \in Nums : ToSet(proc[w]) \subseteq 1..created
      /\ Strays \subseteq Nums
  BY <1>a DEF OnlyPushed, InRedis, InFlight, Strays
<1>0. SUFFICES Descends(main') /\ StaleOlder'
  BY DEF Descends, MainNewestFirst
<1>1. CASE UNCHANGED <<main, proc, created>>
  BY <1>1, <1>a DEF StaleOlder
<1>2. ASSUME NEW hi \in (created + 1)..JobCount, PushBatch(hi)
      PROVE  Descends(main') /\ StaleOlder'
  <2> DEFINE r == Reverse(Batch(hi))
  <2>1. r \in Seq(Raws) /\ ToSet(r) = (created + 1)..hi /\ Descends(r)
    BY <1>a, BatchType, BatchDescends, ReverseKeeps
  <2> HIDE DEF r
  <2>2. main' = r \o main /\ UNCHANGED proc
    BY <1>2 DEF PushBatch, r
  <2>3. \A x \in ToSet(r), y \in 1..created : x > y
    BY <1>a, <2>1
  <2>4. \A x \in ToSet(r), y \in ToSet(main) : x > y
    BY <1>b, <2>3
  <2>5. r \in Seq(Raws) /\ main \in Seq(Raws) /\ Descends(r) /\ Descends(main)
    BY <1>a, <2>1
  <2>6. Descends(r \o main)
    BY <2>4, <2>5, RawsNat, ConcatDescends
  <2>7. ToSet(r \o main) = ToSet(r) \cup ToSet(main)
    BY <2>5, ConcatKeeps
  <2>8. \A x \in 1..created, y \in ToSet(r) : x < y
    BY <1>a, <2>1
  <2> QED
    BY <1>b, <2>2, <2>6, <2>7, <2>8 DEF StaleOlder
<1>3. CASE Clear
  <2>1. main' = <<>> /\ UNCHANGED proc
    BY <1>3 DEF Clear
  <2>2. Descends(main') /\ ToSet(main') = {}
    BY <2>1 DEF Descends, ToSet
  <2> QED
    BY <2>2 DEF StaleOlder
<1>4. ASSUME NEW s, Taken(s)
      PROVE  Descends(main') /\ StaleOlder'
  <2> DEFINE j == Last(main)
  <2>1. /\ main # <<>> /\ main' = Front(main) /\ proc'[s] = <<j>> /\ s \in Nums
        /\ \A w \in Nums \ {s} : proc'[w] = proc[w]
    BY <1>4 DEF Taken
  <2>2. Descends(Front(main)) /\ \A x \in ToSet(Front(main)) : j < x
    BY <1>a, <2>1, RawsNat, FrontDescends
  <2>3. ToSet(Front(main)) \subseteq ToSet(main)
    BY <1>a, <2>1, TailOfList
  <2>4. ToSet(<<j>>) = {j}
    BY DEF ToSet
  <2> HIDE DEF j
  <2> QED
    BY <1>b, <2>1, <2>2, <2>3, <2>4 DEF StaleOlder
<1>5. ASSUME NEW s, Done(s)
      PROVE  Descends(main') /\ StaleOlder'
  <2>1. UNCHANGED main /\ proc'[s] = <<>> /\ \A w \in Nums \ {s} : proc'[w] = proc[w]
    BY <1>5 DEF Done
  <2>2. ToSet(<<>>) = {}
    BY DEF ToSet
  <2> QED
    BY <1>a, <1>b, <2>1, <2>2 DEF StaleOlder
<1>6. ASSUME NEW stale, NEW g, Recovered(stale, g)
      PROVE  Descends(main') /\ StaleOlder'
  <2>1. /\ g \in Seq(Raws) /\ main' = main \o g /\ stale \subseteq Strays
        /\ \A x \in ToSet(g) : \E w \in stale : x \in ToSet(proc[w])
        /\ \A w \in Nums : proc'[w] = IF w \in stale THEN <<>> ELSE proc[w]
    BY <1>6 DEF Recovered
  <2>2. Descends(g)
    BY <1>6, <1>a, <2>1, OneRecovered, ShortDescends
  <2>3. \A y \in ToSet(main), x \in ToSet(g) : x < y
    BY <2>1 DEF StaleOlder
  <2>4. ToSet(main) \subseteq Nat /\ ToSet(g) \subseteq Nat
    BY <1>a, <2>1, InToSet, RawsNat
  <2>5. \A y \in ToSet(main), x \in ToSet(g) : y > x
    BY <2>3, <2>4
  <2>6. Descends(main')
    BY <1>a, <2>1, <2>2, <2>5, RawsNat, ConcatDescends
  <2>7. ToSet(main') = ToSet(main) \cup ToSet(g)
    BY <1>a, <2>1, ConcatKeeps
  <2>8. StaleOlder'
    <3>1. SUFFICES ASSUME NEW w \in Strays, NEW x \in ToSet(proc'[w]), NEW y \in ToSet(main')
                   PROVE  x < y
      BY DEF StaleOlder
    <3>0. ToSet(<<>>) = {}
      BY DEF ToSet
    <3>2. w \notin stale /\ x \in ToSet(proc[w])
      <4>1. w \in Nums /\ (w \in stale => proc'[w] = <<>>) /\ (w \notin stale => proc'[w] = proc[w])
        BY <2>1 DEF Strays
      <4>2. x \in ToSet(proc'[w])
        BY <3>1
      <4> QED
        BY <3>0, <4>1, <4>2
    <3>3. ToSet(g) = {}
      <4>1. \A v \in stale : v = w
        BY <2>1 DEF OneStray
      <4>2. stale = {}
        BY <3>2, <4>1
      <4> QED
        BY <2>1, <4>2
    <3> QED
      BY <2>7, <3>1, <3>2, <3>3 DEF StaleOlder
  <2> QED
    BY <2>6, <2>8
<1>7. ASSUME NEW d \in Dedupers, RemoveTwin(d)
      PROVE  Descends(main') /\ StaleOlder'
  <2>1. PICK i \in todo[d] : main' = RemoveFirst(main, snap[d][i]) /\ UNCHANGED proc
    BY <1>7 DEF RemoveTwin, redis
  <2>2. Descends(main') /\ ToSet(main') \subseteq ToSet(main)
    BY <1>a, <2>1, RawsNat, RemoveDescends, RemoveFirstKeeps
  <2> QED
    BY <2>1, <2>2 DEF StaleOlder
<1> QED
  BY <1>1, <1>2, <1>3, <1>4, <1>5, <1>6, <1>7, ListStep

-----------------------------------------------------------------------------
(* What the dedupers have read, and what they still remove of it. *)
SnapOrdered ==
  \A d \in Dedupers :
    /\ todo[d] \subseteq Surplus(snap[d])
    /\ Descends(snap[d])
    /\ ToSet(snap[d]) \subseteq 1..created

(* The dedupers' own steps, and those of everybody else.                    *)
LEMMA DedupStep ==
  ASSUME TypeOK, [Next]_vars, NEW d \in Dedupers
  PROVE  \/ snap'[d] = snap[d] /\ todo'[d] = todo[d]
         \/ Scan(d) /\ snap'[d] = main /\ todo'[d] = Surplus(main)
         \/ /\ RemoveTwin(d)
            /\ \E i \in todo[d] :
                 /\ main' = RemoveFirst(main, snap[d][i])
                 /\ todo'[d] = todo[d] \ {i}
                 /\ snap'[d] = IF todo[d] = {i} THEN <<>> ELSE snap[d]
         \/ DedupCrash(d) /\ snap'[d] = <<>> /\ todo'[d] = {}
<1>a. snap \in [Dedupers -> Seq(Raws)] /\ todo \in [Dedupers -> SUBSET Nat]
  BY DEF TypeOK, DedupOK
<1>1. CASE UNCHANGED <<snap, todo>>
  BY <1>1
<1>2. ASSUME NEW e \in Dedupers, Scan(e) \/ RemoveTwin(e) \/ DedupCrash(e), e # d
      PROVE  snap'[d] = snap[d] /\ todo'[d] = todo[d]
  <2>1. CASE Scan(e)
    BY <1>a, <1>2, <2>1 DEF Scan
  <2>2. CASE RemoveTwin(e)
    BY <1>a, <1>2, <2>2 DEF RemoveTwin
  <2>3. CASE DedupCrash(e)
    BY <1>a, <1>2, <2>3 DEF DedupCrash
  <2> QED
    BY <1>2, <2>1, <2>2, <2>3
<1>3. ASSUME Scan(d)
      PROVE  snap'[d] = main /\ todo'[d] = Surplus(main)
  BY <1>a, <1>3 DEF Scan
<1>4. ASSUME RemoveTwin(d)
      PROVE  \E i \in todo[d] :
                 /\ main' = RemoveFirst(main, snap[d][i])
                 /\ todo'[d] = todo[d] \ {i}
                 /\ snap'[d] = IF todo[d] = {i} THEN <<>> ELSE snap[d]
  BY <1>a, <1>4 DEF RemoveTwin
<1>5. ASSUME DedupCrash(d)
      PROVE  snap'[d] = <<>> /\ todo'[d] = {}
  BY <1>a, <1>5 DEF DedupCrash
<1>6. CASE UNCHANGED vars \/ RetryEnqueue \/ Clear \/ Pause \/ Unpause
           \/ (\E hi \in (created + 1)..JobCount, lost \in BOOLEAN : BulkEnqueue(hi, lost))
  BY <1>1, <1>6 DEF vars, RetryEnqueue, Clear, Pause, Unpause, BulkEnqueue, dedup
<1>7. CASE \E p \in Procs : WorkerStep(p) \/ Die(p) \/ WorkerStops(p)
  BY <1>1, <1>7 DEF WorkerStep, CheckPause, PeekProcessing, PopMain, PopTimeout, Finish, TimesOut,
       Processed, Die, WorkerStops, dedup
<1>8. CASE \E m \in Machines :
       \/ \E n \in WorkerCounts : Boot(m, n)
       \/ StartupStep(m) \/ Stop(m) \/ Stopped(m) \/ KillRunner(m)
       \/ \E p \in Procs, w \in Nums : SpawnWorker(p, m, w)
  BY <1>1, <1>8 DEF Boot, StartupStep, FindStale, Watch, Exec, ExecAborts, ReadKey, Stop, Stopped,
                    KillRunner, SpawnWorker, dedup
<1> QED
  BY <1>2, <1>3, <1>4, <1>5, <1>6, <1>7, <1>8 DEF Next

-----------------------------------------------------------------------------
(* What may still be put back on the main list, or is on it.                *)
Returning == ToSet(main) \cup UNION {ToSet(proc[w]) : w \in Strays}

(* Of two identical jobs that a deduper has read, the newer of which it has *)
(* dealt with, at most one can still be on the queue or come back to it.    *)
NotBoth ==
  \A d \in Dedupers : \A i, j \in DOMAIN snap[d] :
    i < j /\ i \notin todo[d] /\ Identity[snap[d][i]] = Identity[snap[d][j]]
      => ~ (snap[d][i] \in Returning /\ snap[d][j] \in Returning)

LEMMA CreatedGrows ==
  ASSUME TypeOK, [Next]_vars
  PROVE  created \in Nat /\ created' \in Nat /\ created <= created'
<1>0. created \in Nat /\ JobCount \in Nat
  BY ConstantsAssumption DEF TypeOK, CountsOK
<1>1. CASE UNCHANGED created
  BY <1>0, <1>1
<1>2. ASSUME NEW hi \in (created + 1)..JobCount, NEW lost \in BOOLEAN, BulkEnqueue(hi, lost)
      PROVE  created \in Nat /\ created' \in Nat /\ created <= created'
  BY <1>0, <1>2 DEF BulkEnqueue
<1>3. CASE UNCHANGED vars \/ RetryEnqueue \/ Clear \/ Pause \/ Unpause
           \/ \E d \in Dedupers : Scan(d) \/ RemoveTwin(d) \/ DedupCrash(d)
  BY <1>1, <1>3 DEF vars, RetryEnqueue, Clear, Pause, Unpause, Scan, RemoveTwin, DedupCrash
<1>4. CASE \E p \in Procs : WorkerStep(p) \/ Die(p) \/ WorkerStops(p)
  BY <1>1, <1>4 DEF WorkerStep, CheckPause, PeekProcessing, PopMain, PopTimeout, Finish, TimesOut,
       Processed, Die, WorkerStops
<1>5. CASE \E m \in Machines :
       \/ \E n \in WorkerCounts : Boot(m, n)
       \/ StartupStep(m) \/ Stop(m) \/ Stopped(m) \/ KillRunner(m)
       \/ \E p \in Procs, w \in Nums : SpawnWorker(p, m, w)
  BY <1>1, <1>5 DEF Boot, StartupStep, FindStale, Watch, Exec, ExecAborts, ReadKey, Stop, Stopped,
                    KillRunner, SpawnWorker
<1> QED
  BY <1>2, <1>3, <1>4, <1>5 DEF Next

LEMMA SnapStep ==
  ASSUME OrderlyIInv, MainNewestFirst, SnapOrdered, [Next]_vars
  PROVE  SnapOrdered'
<1>a. /\ TypeOK /\ ToSet(main) \subseteq 1..created /\ Descends(main)
  BY DEF OrderlyIInv, IInv, OnlyPushed, InRedis, MainNewestFirst, Descends
<1>b. 1..created \subseteq 1..created'
  BY <1>a, CreatedGrows
<1>1. SUFFICES ASSUME NEW d \in Dedupers
               PROVE  /\ todo'[d] \subseteq Surplus(snap'[d])
                      /\ Descends(snap'[d])
                      /\ ToSet(snap'[d]) \subseteq 1..created
  BY <1>b DEF SnapOrdered, Surplus, Descends, Twins
<1>2. CASE snap'[d] = snap[d] /\ todo'[d] \subseteq todo[d]
  BY <1>2 DEF SnapOrdered
<1>3. CASE snap'[d] = main /\ todo'[d] = Surplus(main)
  BY <1>a, <1>3
<1>4. CASE snap'[d] = <<>> /\ todo'[d] = {}
  BY <1>4 DEF Descends, ToSet
<1>5. ASSUME NEW i \in todo[d], todo'[d] = todo[d] \ {i},
             snap'[d] = IF todo[d] = {i} THEN <<>> ELSE snap[d]
      PROVE  /\ todo'[d] \subseteq Surplus(snap'[d])
             /\ Descends(snap'[d])
             /\ ToSet(snap'[d]) \subseteq 1..created
  BY <1>2, <1>4, <1>5
<1> QED
  BY <1>a, <1>2, <1>3, <1>4, <1>5, DedupStep

(* Jobs leave what may come back for good: only a push brings new ones.     *)
LEMMA ReturningShrinks ==
  ASSUME Orderly, OrderlyIInv, Counted, [Next]_vars
  PROVE  Returning' \cap 1..created \subseteq Returning
<1>a. /\ TypeOK /\ main \in Seq(Raws) /\ \A w \in Nums : proc[w] \in Seq(Raws)
      /\ created \in Nat
  BY ConstantsAssumption DEF OrderlyIInv, IInv, TypeOK, CountsOK, ListsOK
<1>b. ToSet(<<>>) = {} /\ Strays \subseteq Nums
  BY DEF ToSet, Strays
<1>1. ASSUME \A w \in Strays : ToSet(proc'[w]) \subseteq Returning,
             ToSet(main') \cap 1..created \subseteq Returning
      PROVE  Returning' \cap 1..created \subseteq Returning
  BY <1>1 DEF Returning
<1>2. ToSet(main) \subseteq Returning /\ \A w \in Strays : ToSet(proc[w]) \subseteq Returning
  BY DEF Returning
<1>3. CASE UNCHANGED <<main, proc, created>>
  BY <1>1, <1>2, <1>3
<1>4. ASSUME NEW hi \in (created + 1)..JobCount, PushBatch(hi)
      PROVE  Returning' \cap 1..created \subseteq Returning
  <2> DEFINE r == Reverse(Batch(hi))
  <2>1. r \in Seq(Raws) /\ ToSet(r) = (created + 1)..hi
    BY <1>a, BatchType, ReverseKeeps
  <2> HIDE DEF r
  <2>2. main' = r \o main /\ UNCHANGED proc
    BY <1>4 DEF PushBatch, r
  <2>3. ToSet(r \o main) = ToSet(r) \cup ToSet(main)
    BY <1>a, <2>1, ConcatKeeps
  <2>4. ToSet(r) \cap 1..created = {}
    BY <1>a, <2>1
  <2> QED
    BY <1>1, <1>2, <1>b, <2>2, <2>3, <2>4
<1>5. CASE Clear
  <2>1. main' = <<>> /\ UNCHANGED proc
    BY <1>5 DEF Clear
  <2> QED
    BY <1>1, <1>2, <1>b, <2>1
<1>6. ASSUME NEW s, Taken(s)
      PROVE  Returning' \cap 1..created \subseteq Returning
  <2> DEFINE j == Last(main)
  <2>1. /\ main # <<>> /\ main' = Front(main) /\ proc'[s] = <<j>> /\ s \in Nums
        /\ \A w \in Nums \ {s} : proc'[w] = proc[w]
    BY <1>6 DEF Taken
  <2>2. ToSet(Front(main)) \subseteq ToSet(main) /\ j \in ToSet(main)
    BY <1>a, <2>1, TailOfList
  <2>3. ToSet(<<j>>) = {j}
    BY DEF ToSet
  <2> HIDE DEF j
  <2> QED
    BY <1>1, <1>2, <1>b, <2>1, <2>2, <2>3
<1>7. ASSUME NEW s, Done(s)
      PROVE  Returning' \cap 1..created \subseteq Returning
  <2>1. UNCHANGED main /\ proc'[s] = <<>> /\ \A w \in Nums \ {s} : proc'[w] = proc[w]
    BY <1>7 DEF Done
  <2>2. \A w \in Strays : ToSet(proc'[w]) \subseteq Returning
    BY <1>2, <1>b, <2>1
  <2> QED
    BY <1>1, <1>2, <2>1, <2>2
<1>8. ASSUME NEW stale, NEW g, Recovered(stale, g)
      PROVE  Returning' \cap 1..created \subseteq Returning
  <2>1. /\ g \in Seq(Raws) /\ main' = main \o g /\ stale \subseteq Strays
        /\ \A x \in ToSet(g) : \E w \in stale : x \in ToSet(proc[w])
        /\ \A w \in Nums : proc'[w] = IF w \in stale THEN <<>> ELSE proc[w]
    BY <1>8 DEF Recovered
  <2>2. ToSet(main') = ToSet(main) \cup ToSet(g)
    BY <1>a, <2>1, ConcatKeeps
  <2>3. ToSet(main') \subseteq Returning
    BY <1>2, <2>1, <2>2
  <2>4. \A w \in Strays : proc'[w] = <<>> \/ proc'[w] = proc[w]
    BY <1>b, <2>1
  <2> QED
    BY <1>1, <1>2, <1>b, <2>3, <2>4
<1>9. ASSUME NEW d \in Dedupers, RemoveTwin(d)
      PROVE  Returning' \cap 1..created \subseteq Returning
  <2>1. PICK i \in todo[d] : main' = RemoveFirst(main, snap[d][i]) /\ UNCHANGED proc
    BY <1>9 DEF RemoveTwin, redis
  <2>2. ToSet(main') \subseteq ToSet(main)
    BY <1>a, <2>1, RemoveFirstKeeps
  <2> QED
    BY <1>1, <1>2, <2>1, <2>2
<1> QED
  BY <1>3, <1>4, <1>5, <1>6, <1>7, <1>8, <1>9, ListStep

LEMMA NotBothStep ==
  ASSUME Orderly, OneStray, OrderlyIInv, Counted, StaleOlder, SnapOrdered, NotBoth,
         [Next]_vars
  PROVE  NotBoth'
<1>a. /\ TypeOK /\ OneInFlight /\ OnePlace /\ main \in Seq(Raws)
      /\ \A w \in Nums : proc[w] \in Seq(Raws)
      /\ snap \in [Dedupers -> Seq(Raws)]
  BY DEF OrderlyIInv, IInv, TypeOK, ListsOK, DedupOK, Own
<1>1. SUFFICES ASSUME NEW d \in Dedupers, NEW i \in DOMAIN snap'[d], NEW j \in DOMAIN snap'[d],
                      i < j, i \notin todo'[d], Identity[snap'[d][i]] = Identity[snap'[d][j]],
                      snap'[d][i] \in Returning', snap'[d][j] \in Returning'
               PROVE  FALSE
  BY DEF NotBoth
<1>2. ASSUME snap'[d] = snap[d]
      PROVE  snap[d][i] \in Returning /\ snap[d][j] \in Returning
  <2>1. snap[d][i] \in 1..created /\ snap[d][j] \in 1..created
    BY <1>2 DEF SnapOrdered, ToSet
  <2> QED
    BY <1>1, <1>2, <2>1, ReturningShrinks
<1>3. CASE snap'[d] = snap[d] /\ todo'[d] = todo[d]
  BY <1>1, <1>2, <1>3 DEF NotBoth
<1>4. CASE snap'[d] = main /\ todo'[d] = Surplus(main)
  BY <1>1, <1>4 DEF Surplus, Twins
<1>5. CASE snap'[d] = <<>>
  BY <1>1, <1>5
<1>6. ASSUME RemoveTwin(d), NEW k \in todo[d], main' = RemoveFirst(main, snap[d][k]),
             todo'[d] = todo[d] \ {k}, snap'[d] = snap[d]
      PROVE  FALSE
  <2>1. snap[d][i] \in Returning /\ snap[d][j] \in Returning
    BY <1>2, <1>6
  <2>2. i = k
    BY <1>1, <1>6, <2>1 DEF NotBoth
  <2>3. snap[d][k] \notin ToSet(main')
    BY <1>6, <1>a, RemoveDistinct DEF OnePlace
  <2>4. PICK w \in Strays : snap[d][k] \in ToSet(proc[w])
    <3>1. PICK w \in Strays : snap[d][k] \in ToSet(proc'[w])
      BY <1>1, <1>6, <2>2, <2>3 DEF Returning
    <3>2. UNCHANGED proc
      BY <1>6 DEF RemoveTwin
    <3> QED
      BY <3>1, <3>2
  <2>5. /\ snap[d][k] > snap[d][j] /\ snap[d][k] \in Nat /\ snap[d][j] \in Nat
    <3>1. snap[d] \in Seq(Raws) /\ k \in DOMAIN snap[d] /\ j \in DOMAIN snap[d] /\ k < j
      BY <1>1, <1>6, <1>a, <2>2
    <3>2. snap[d][k] > snap[d][j]
      BY <3>1 DEF SnapOrdered, Descends
    <3>3. snap[d][k] \in Raws /\ snap[d][j] \in Raws
      BY <3>1
    <3> QED
      BY <3>2, <3>3, RawsNat
  <2>6. snap[d][j] \notin ToSet(main)
    <3>1. snap[d][j] \in ToSet(main) => snap[d][k] < snap[d][j]
      BY <2>4 DEF StaleOlder
    <3> QED
      BY <2>5, <3>1
  <2>7. snap[d][j] \in ToSet(proc[w])
    <3>1. PICK v \in Strays : snap[d][j] \in ToSet(proc[v])
      BY <2>1, <2>6 DEF Returning
    <3> QED
      BY <2>4, <3>1 DEF OneStray
  <2>8. proc[w] \in Seq(Raws) /\ Len(proc[w]) <= 1 /\ Len(proc[w]) \in Nat
    BY <1>a DEF OneInFlight, Strays
  <2>9. PICK a \in 1..Len(proc[w]), b \in 1..Len(proc[w]) :
          proc[w][a] = snap[d][j] /\ proc[w][b] = snap[d][k]
    BY <2>4, <2>7, <2>8, InToSet
  <2>10. a = b
    BY <2>8
  <2> QED
    BY <2>5, <2>9, <2>10
<1> QED
  BY <1>a, <1>3, <1>4, <1>5, <1>6, DedupStep

(* A job is dropped only while there is, further down in what the deduper   *)
(* has read, an identical one: it is older.                                 *)
LEMMA DroppedStep ==
  ASSUME TypeOK, SnapOrdered, DroppedHasElder, [Next]_vars
  PROVE  DroppedHasElder'
<1>1. CASE UNCHANGED dropped
  BY <1>1 DEF DroppedHasElder
<1>2. ASSUME NEW d \in Dedupers, RemoveTwin(d)
      PROVE  DroppedHasElder'
  <2>1. PICK i \in todo[d] : dropped' \subseteq dropped \cup {snap[d][i]}
    BY <1>2 DEF RemoveTwin
  <2>2. PICK j \in DOMAIN snap[d] : i \in DOMAIN snap[d] /\ i < j
                                      /\ Identity[snap[d][j]] = Identity[snap[d][i]]
    BY DEF SnapOrdered, Surplus, Twins
  <2>3. snap[d][j] < snap[d][i] /\ snap[d][i] \in Raws /\ snap[d][j] \in Raws
    <3>1. snap[d] \in Seq(Raws)
      BY DEF TypeOK, DedupOK
    <3>2. snap[d][i] > snap[d][j]
      BY <2>2 DEF SnapOrdered, Descends
    <3>3. snap[d][i] \in Raws /\ snap[d][j] \in Raws
      BY <2>2, <3>1
    <3> QED
      BY <3>2, <3>3, RawsNat
  <2>4. snap[d][j] \in 1..(snap[d][i] - 1)
    BY <2>3, ConstantsAssumption DEF Raws
  <2> QED
    BY <2>1, <2>2, <2>4 DEF DroppedHasElder
<1>3. CASE UNCHANGED vars \/ RetryEnqueue \/ Clear \/ Pause \/ Unpause
           \/ (\E hi \in (created + 1)..JobCount, lost \in BOOLEAN : BulkEnqueue(hi, lost))
           \/ \E d \in Dedupers : Scan(d) \/ DedupCrash(d)
  BY <1>1, <1>3 DEF vars, RetryEnqueue, Clear, Pause, Unpause, BulkEnqueue, Scan, DedupCrash, history
<1>4. CASE \E p \in Procs : WorkerStep(p) \/ Die(p) \/ WorkerStops(p)
  BY <1>1, <1>4 DEF WorkerStep, CheckPause, PeekProcessing, PopMain, PopTimeout, Finish, TimesOut,
       Processed, Die, WorkerStops, history
<1>5. CASE \E m \in Machines :
       \/ \E n \in WorkerCounts : Boot(m, n)
       \/ StartupStep(m) \/ Stop(m) \/ Stopped(m) \/ KillRunner(m)
       \/ \E p \in Procs, w \in Nums : SpawnWorker(p, m, w)
  BY <1>1, <1>5 DEF Boot, StartupStep, FindStale, Watch, Exec, ExecAborts, ReadKey, Stop, Stopped,
                    KillRunner, SpawnWorker, history
<1> QED
  BY <1>2, <1>3, <1>4, <1>5 DEF Next

-----------------------------------------------------------------------------
FifoIInv ==
  /\ OrderlyIInv /\ Counted /\ MainNewestFirst /\ StaleOlder
  /\ SnapOrdered /\ NotBoth /\ DroppedHasElder

LEMMA FifoInit == Init => FifoIInv
<1> SUFFICES ASSUME Init
             PROVE  FifoIInv
  OBVIOUS
<1>0. ToSet(<<>>) = {}
  BY DEF ToSet
<1>1. Counted
  BY HaltedType DEF Init, Counted
<1>2. MainNewestFirst /\ StaleOlder /\ DroppedHasElder
  BY <1>0 DEF Init, MainNewestFirst, StaleOlder, DroppedHasElder
<1>3. SnapOrdered
  BY <1>0 DEF Init, SnapOrdered, Descends
<1>4. NotBoth
  BY DEF Init, NotBoth
<1> QED
  BY <1>1, <1>2, <1>3, <1>4, OrderlyInit DEF FifoIInv

LEMMA FifoStep ==
  ASSUME Orderly, OneStray, FifoIInv, [Next]_vars
  PROVE  FifoIInv'
<1>1. /\ OrderlyIInv /\ Counted /\ MainNewestFirst /\ StaleOlder
      /\ SnapOrdered /\ NotBoth /\ DroppedHasElder /\ TypeOK
  BY DEF FifoIInv, OrderlyIInv, IInv
<1>2. OrderlyIInv' /\ Counted'
  BY <1>1, OrderlyStep, CountedStep
<1>3. MainNewestFirst' /\ StaleOlder'
  BY <1>1, OrderStep
<1>4. SnapOrdered' /\ DroppedHasElder'
  BY <1>1, SnapStep, DroppedStep
<1>5. NotBoth'
  BY <1>1, NotBothStep
<1> QED
  BY <1>2, <1>3, <1>4, <1>5 DEF FifoIInv

(* MainNewestFirst: where at most one list is ever recovered, the queue     *)
(* stays ordered from newest to oldest through every recovery.              *)
THEOREM FirstInFirstOut ==
  ASSUME Orderly, OneStray
  PROVE  Spec => []MainNewestFirst
<1>1. FifoIInv => MainNewestFirst
  BY DEF FifoIInv
<1>2. FifoIInv /\ [Next]_vars => FifoIInv'
  BY FifoStep
<1> QED
  BY <1>1, <1>2, FifoInit, PTL DEF Spec

(* DroppedHasElder: a deduper drops a job only in favour of an older one.   *)
THEOREM DedupSparesTheOldest ==
  ASSUME Orderly, OneStray
  PROVE  Spec => []DroppedHasElder
<1>1. FifoIInv => DroppedHasElder
  BY DEF FifoIInv
<1>2. FifoIInv /\ [Next]_vars => FifoIInv'
  BY FifoStep
<1> QED
  BY <1>1, <1>2, FifoInit, PTL DEF Spec

(* DedupLeavesNoTwins: a deduper that comes to its end leaves at most one   *)
(* of each identity among the jobs it read.                                 *)
THEOREM DedupIsThorough ==
  ASSUME Orderly, OneStray
  PROVE  Spec => DedupLeavesNoTwins
<1> DEFINE Thorough ==
      \A d \in Dedupers : todo[d] # {} /\ todo'[d] = {} /\ budget' = budget =>
       \A i, j \in DOMAIN main' :
         /\ main'[i] \in ToSet(snap[d]) /\ main'[j] \in ToSet(snap[d])
         /\ Identity[main'[i]] = Identity[main'[j]]
         => i = j
<1>1. ASSUME FifoIInv, [Next]_vars
      PROVE  Thorough
  <2>a. /\ TypeOK /\ OnePlace /\ main \in Seq(Raws) /\ NotBoth /\ budget \in Nat
        /\ snap \in [Dedupers -> Seq(Raws)]
    BY <1>1, ConstantsAssumption DEF FifoIInv, OrderlyIInv, IInv, TypeOK, ListsOK, DedupOK, CountsOK
  <2>1. SUFFICES ASSUME NEW d \in Dedupers, todo[d] # {}, todo'[d] = {}, budget' = budget,
                        NEW i \in DOMAIN main', NEW j \in DOMAIN main',
                        main'[i] \in ToSet(snap[d]), main'[j] \in ToSet(snap[d]),
                        Identity[main'[i]] = Identity[main'[j]]
                 PROVE  i = j
    OBVIOUS
  <2>2. ~Scan(d) /\ ~DedupCrash(d)
    BY <2>1, <2>a DEF Scan, DedupCrash, Spend
  <2>3. PICK k \in todo[d] : main' = RemoveFirst(main, snap[d][k]) /\ todo'[d] = todo[d] \ {k}
    BY <1>1, <2>1, <2>2, <2>a, DedupStep
  <2>4. Distinct(main') /\ snap[d][k] \notin ToSet(main') /\ ToSet(main') \subseteq ToSet(main)
    BY <2>3, <2>a, RemoveDistinct, RemoveFirstKeeps DEF OnePlace
  <2>5. PICK a \in DOMAIN snap[d], b \in DOMAIN snap[d] : snap[d][a] = main'[i] /\ snap[d][b] = main'[j]
    BY <2>1 DEF ToSet
  <2>6. main'[i] \in ToSet(main') /\ main'[j] \in ToSet(main')
    BY <2>1 DEF ToSet
  <2>7. a # k /\ b # k /\ a \notin todo[d] /\ b \notin todo[d]
    BY <2>1, <2>3, <2>4, <2>5, <2>6
  <2>8. snap[d][a] \in Returning /\ snap[d][b] \in Returning
    BY <2>4, <2>5, <2>6 DEF Returning
  <2>9. ~ (a < b) /\ ~ (b < a)
    BY <2>1, <2>5, <2>7, <2>8, <2>a DEF NotBoth
  <2>10. a \in Nat /\ b \in Nat
    BY <2>5, <2>a
  <2>11. main'[i] = main'[j]
    BY <2>5, <2>9, <2>10
  <2> QED
    BY <2>1, <2>4, <2>11 DEF Distinct
<1>2. FifoIInv /\ [Next]_vars => FifoIInv'
  BY FifoStep
<1>3. []FifoIInv /\ [][Next]_vars => [][Thorough]_vars
  BY <1>1, PTL
<1> QED
  BY <1>2, <1>3, FifoInit, PTL DEF Spec, DedupLeavesNoTwins

-----------------------------------------------------------------------------
(* What a run does the work of is identical to the job it runs.             *)
CoversAlike == \A p \in Procs : \A r \in worker[p].covers : Identity[r] = Identity[worker[p].job]

(* For each job that a deduper has still to remove there is an identical,   *)
(* older one that it will leave.  While nothing has done the work of the    *)
(* job, and it can be on the queue when its turn comes, the older one is    *)
(* still there; and who runs it does the work of both.                      *)
ElderStays ==
  \A d \in Dedupers : \A i \in todo[d] :
    \E k \in DOMAIN snap[d] \ Surplus(snap[d]) :
      /\ Identity[snap[d][k]] = Identity[snap[d][i]]
      /\ snap[d][i] \in owed /\ snap[d][i] \in Returning =>
           /\ snap[d][k] \in InRedis
           /\ \A p \in Procs : worker[p].job = snap[d][k] =>
                worker[p].pc = "running" /\ snap[d][i] \in worker[p].covers

(* What a step may do to the job of a worker.                               *)
LEMMA JobStep ==
  ASSUME TypeOK, [Next]_vars, NEW p \in Procs
  PROVE  \/ worker'[p].job = NoJob /\ worker'[p].covers = {}
         \/ /\ worker'[p].job = worker[p].job /\ worker'[p].covers = worker[p].covers
            /\ worker'[p].pc = worker[p].pc \/ worker[p].job = NoJob
         \/ /\ worker'[p].pc = "running"
            /\ worker'[p].covers = {r \in owed : Identity[r] = Identity[worker'[p].job]}
         \/ /\ worker'[p].job = worker[p].job /\ worker'[p].covers = worker[p].covers
            /\ owed' = owed \ worker[p].covers
<1> DEFINE Fine == 
         \/ worker'[p].job = NoJob /\ worker'[p].covers = {}
         \/ /\ worker'[p].job = worker[p].job /\ worker'[p].covers = worker[p].covers
            /\ worker'[p].pc = worker[p].pc \/ worker[p].job = NoJob
         \/ /\ worker'[p].pc = "running"
            /\ worker'[p].covers = {r \in owed : Identity[r] = Identity[worker'[p].job]}
         \/ /\ worker'[p].job = worker[p].job /\ worker'[p].covers = worker[p].covers
            /\ owed' = owed \ worker[p].covers
<1> USE DEF redis, dedup, history
<1>a. /\ worker \in [Procs -> Workers] /\ \A q \in Procs : worker[q] \in Workers
      /\ \A q \in Procs : worker[q].job = NoJob <=> worker[q].pc \notin {"running", "ran"}
  BY DEF TypeOK, WorkersOK
<1>b. Off.job = NoJob /\ Off.covers = {}
  BY DEF Off
<1>1. ASSUME worker'[p] = worker[p]
      PROVE  Fine
  BY <1>1
<1>2. ASSUME NEW q \in Procs, NEW r, worker' = [worker EXCEPT ![q] = r], q # p
      PROVE  worker'[p] = worker[p]
  BY <1>a, <1>2
<1>3. ASSUME NEW pc, GoTo(p, pc), worker[p].pc \notin {"running", "ran"}
      PROVE  Fine
  <2>1. worker'[p] = [worker[p] EXCEPT !.pc = pc] /\ worker[p] \in Workers /\ worker[p].job = NoJob
    BY <1>3, <1>a DEF GoTo
  <2>2. worker'[p].job = worker[p].job /\ worker'[p].covers = worker[p].covers
    BY <2>1 DEF Workers
  <2> QED
    BY <2>1, <2>2
<1>4. ASSUME NEW j, TakeJob(p, j)
      PROVE  Fine
  <2> DEFINE alike == {r \in owed : Identity[r] = Identity[j]}
  <2>1. worker'[p] = [worker[p] EXCEPT !.pc = "running", !.job = j, !.covers = alike]
        /\ worker[p] \in Workers
    BY <1>4, <1>a DEF TakeJob
  <2> HIDE DEF alike
  <2>2. worker'[p].pc = "running" /\ worker'[p].job = j /\ worker'[p].covers = alike
    BY <2>1 DEF Workers
  <2> QED
    BY <2>2 DEF alike
<1>5. ASSUME NEW q \in Procs, WorkerStep(q) \/ Die(q) \/ WorkerStops(q)
      PROVE  Fine
  <2>0. CASE q # p
    <3>1. CASE CheckPause(q) \/ PeekProcessing(q) \/ PopMain(q) \/ PopTimeout(q)
      BY <1>1, <1>2, <2>0, <3>1 DEF CheckPause, PeekProcessing, PopMain, PopTimeout, GoTo, TakeJob
    <3>2. CASE Finish(q) \/ TimesOut(q) \/ Processed(q) \/ Die(q) \/ WorkerStops(q)
      BY <1>1, <1>2, <2>0, <3>2 DEF Finish, TimesOut, Processed, Die, WorkerStops, GoTo
    <3> QED
      BY <1>5, <3>1, <3>2 DEF WorkerStep
  <2>1. CASE q = p /\ (CheckPause(p) \/ PopTimeout(p))
    BY <1>3, <2>1 DEF CheckPause, PopTimeout
  <2>2. CASE q = p /\ (PeekProcessing(p) \/ PopMain(p))
    BY <1>3, <1>4, <2>2 DEF PeekProcessing, PopMain
  <2>3. CASE q = p /\ (TimesOut(p) \/ Die(p) \/ WorkerStops(p))
    <3>1. worker'[p] = Off
      BY <1>a, <2>3 DEF TimesOut, Die, WorkerStops
    <3> QED
      BY <1>b, <3>1
  <2>4. CASE q = p /\ Processed(p)
    <3>1. worker'[p] = [worker[p] EXCEPT !.pc = "idle", !.job = NoJob, !.covers = {}]
      BY <1>a, <2>4 DEF Processed
    <3>2. worker'[p].job = NoJob /\ worker'[p].covers = {}
      BY <1>a, <3>1 DEF Workers
    <3> QED
      BY <3>2
  <2>5. CASE q = p /\ Finish(p)
    <3>1. worker'[p] = [worker[p] EXCEPT !.pc = "ran"] /\ owed' = owed \ worker[p].covers
      BY <1>a, <2>5 DEF Finish, GoTo
    <3>2. worker'[p].job = worker[p].job /\ worker'[p].covers = worker[p].covers
      BY <1>a, <3>1 DEF Workers
    <3> QED
      BY <3>1, <3>2
  <2> QED
    BY <1>5, <2>0, <2>1, <2>2, <2>3, <2>4, <2>5 DEF WorkerStep
<1>6. ASSUME NEW q \in Procs, NEW m \in Machines, NEW w \in Nums, SpawnWorker(q, m, w)
      PROVE  Fine
  <2>1. CASE q # p
    BY <1>1, <1>2, <1>6, <2>1 DEF SpawnWorker
  <2>2. CASE q = p
    <3> DEFINE r == [Off EXCEPT !.pc = "idle", !.host = m, !.slot = w]
    <3>1. r.job = NoJob /\ r.covers = {}
      BY DEF Off
    <3> HIDE DEF r
    <3>2. worker'[p] = r
      BY <1>6, <1>a, <2>2 DEF SpawnWorker, r
    <3> QED
      BY <3>1, <3>2
  <2> QED
    BY <2>1, <2>2
<1>7. ASSUME NEW m \in Machines, KillRunner(m)
      PROVE  Fine
  <2>1. worker'[p] = IF p \in Children(m) THEN [worker[p] EXCEPT !.host = NoHost] ELSE worker[p]
    BY <1>7 DEF KillRunner
  <2> DEFINE r == [worker[p] EXCEPT !.host = NoHost]
  <2>2. r.job = worker[p].job /\ r.covers = worker[p].covers /\ r.pc = worker[p].pc
    BY <1>a DEF Workers
  <2> HIDE DEF r
  <2>3. worker'[p] = r \/ worker'[p] = worker[p]
    BY <2>1 DEF r
  <2> QED
    BY <1>1, <2>2, <2>3
<1>8. ASSUME NEW m \in Machines,
             (\E n \in WorkerCounts : Boot(m, n)) \/ StartupStep(m) \/ Stop(m) \/ Stopped(m)
      PROVE  Fine
  BY <1>1, <1>8 DEF Boot, StartupStep, FindStale, Watch, Exec, ExecAborts, ReadKey, Stop, Stopped
<1>9. ASSUME UNCHANGED vars \/ RetryEnqueue \/ Clear \/ Pause \/ Unpause
             \/ (\E hi \in (created + 1)..JobCount, lost \in BOOLEAN : BulkEnqueue(hi, lost))
             \/ (\E d \in Dedupers : Scan(d) \/ RemoveTwin(d) \/ DedupCrash(d))
      PROVE  Fine
  BY <1>1, <1>9 DEF vars, RetryEnqueue, Clear, Pause, Unpause, BulkEnqueue, Scan, RemoveTwin, DedupCrash
<1> HIDE DEF Fine
<1>10. Fine
  BY <1>5, <1>6, <1>7, <1>8, <1>9 DEF Next
<1> QED
  BY <1>10 DEF Fine

LEMMA CoversStep ==
  ASSUME TypeOK, CoversAlike, [Next]_vars
  PROVE  CoversAlike'
<1>1. SUFFICES ASSUME NEW p \in Procs, NEW r \in worker'[p].covers
               PROVE  Identity[r] = Identity[worker'[p].job]
  BY DEF CoversAlike
<1>2. CASE worker'[p].covers = {}
  BY <1>1, <1>2
<1>3. CASE worker'[p].job = worker[p].job /\ worker'[p].covers = worker[p].covers
  BY <1>1, <1>3 DEF CoversAlike
<1>4. CASE worker'[p].covers = {x \in owed : Identity[x] = Identity[worker'[p].job]}
  BY <1>1, <1>4
<1> QED
  BY <1>2, <1>3, <1>4, JobStep

-----------------------------------------------------------------------------
(* What a step may do to the jobs in Redis, and to what is owed.            *)
LEMMA HistoryStep ==
  ASSUME [Next]_vars
  PROVE  \/ UNCHANGED <<created, unrun, owed>>
         \/ (\E hi \in (created + 1)..JobCount, lost \in BOOLEAN : BulkEnqueue(hi, lost))
         \/ Clear
         \/ (\E p \in Procs : Finish(p))
<1> USE DEF history
<1>1. CASE UNCHANGED vars \/ RetryEnqueue \/ Pause \/ Unpause
           \/ (\E d \in Dedupers : Scan(d) \/ RemoveTwin(d) \/ DedupCrash(d))
  BY <1>1 DEF vars, RetryEnqueue, Pause, Unpause, Scan, RemoveTwin, DedupCrash
<1>2. CASE \E p \in Procs : CheckPause(p) \/ PeekProcessing(p) \/ PopMain(p) \/ PopTimeout(p)
             \/ TimesOut(p) \/ Processed(p) \/ Die(p) \/ WorkerStops(p)
  BY <1>2 DEF CheckPause, PeekProcessing, PopMain, PopTimeout, TimesOut, Processed, Die, WorkerStops
<1>3. CASE \E m \in Machines :
       \/ \E n \in WorkerCounts : Boot(m, n)
       \/ StartupStep(m) \/ Stop(m) \/ Stopped(m) \/ KillRunner(m)
       \/ \E p \in Procs, w \in Nums : SpawnWorker(p, m, w)
  <2>1. ASSUME NEW m \in Machines, StartupStep(m)
        PROVE  UNCHANGED <<created, unrun, owed>>
    BY <2>1 DEF StartupStep, FindStale, Watch, Exec, ExecAborts, ReadKey
  <2>2. ASSUME NEW m \in Machines,
               \/ \E n \in WorkerCounts : Boot(m, n)
               \/ Stop(m) \/ Stopped(m) \/ KillRunner(m)
               \/ \E p \in Procs, w \in Nums : SpawnWorker(p, m, w)
        PROVE  UNCHANGED <<created, unrun, owed>>
    BY <2>2 DEF Boot, Stop, Stopped, KillRunner, SpawnWorker
  <2> QED
    BY <1>3, <2>1, <2>2
<1> HIDE DEF history
<1> QED
  BY <1>1, <1>2, <1>3 DEF Next, WorkerStep

LEMMA HeldStep ==
  ASSUME Orderly, OrderlyIInv, Counted, [Next]_vars
  PROVE  \/ (\E hi \in (created + 1)..JobCount, lost \in BOOLEAN :
               BulkEnqueue(hi, lost) /\ InRedis' = InRedis \cup (created + 1)..hi)
         \/ Clear /\ InRedis' = InFlight
         \/ (\E p \in Procs :
               /\ Processed(p) /\ worker[p].job \in InRedis
               /\ InRedis' = InRedis \ {worker[p].job})
         \/ (\E d \in Dedupers : \E i \in todo[d] :
               /\ RemoveTwin(d) /\ snap[d][i] \in ToSet(main)
               /\ InRedis' = InRedis \ {snap[d][i]})
         \/ InRedis' = InRedis /\ UNCHANGED <<created, unrun, owed>>
         \/ InRedis' = InRedis /\ \E p \in Procs : Finish(p)
<1>a. /\ TypeOK /\ main \in Seq(Raws) /\ \A w \in Nums : proc[w] \in Seq(Raws)
      /\ created \in Nat /\ OnePlace /\ InHand /\ WorkersOK
  BY ConstantsAssumption DEF OrderlyIInv, IInv, TypeOK, CountsOK, ListsOK, Own
<1>b. ToSet(<<>>) = {} /\ \A j : ToSet(<<j>>) = {j}
  BY DEF ToSet
<1>1. CASE UNCHANGED <<main, proc, created>>
  <2>1. InRedis' = InRedis
    BY <1>1 DEF InRedis, InFlight
  <2>2. ~Clear
    BY <1>1 DEF Clear
  <2>3. ~ \E hi \in (created + 1)..JobCount, lost \in BOOLEAN : BulkEnqueue(hi, lost)
    BY <1>1, <1>a, ConstantsAssumption DEF BulkEnqueue
  <2> QED
    BY <2>1, <2>2, <2>3, HistoryStep
<1>2. ASSUME NEW hi \in (created + 1)..JobCount, NEW lost \in BOOLEAN,
             BulkEnqueue(hi, lost), PushBatch(hi)
      PROVE  InRedis' = InRedis \cup (created + 1)..hi
  <2> DEFINE r == Reverse(Batch(hi))
  <2>1. r \in Seq(Raws) /\ ToSet(r) = (created + 1)..hi
    BY <1>a, BatchType, ReverseKeeps
  <2> HIDE DEF r
  <2>2. main' = r \o main /\ UNCHANGED proc
    BY <1>2 DEF PushBatch, r
  <2>3. ToSet(r \o main) = ToSet(r) \cup ToSet(main)
    BY <1>a, <2>1, ConcatKeeps
  <2> QED
    BY <2>1, <2>2, <2>3 DEF InRedis, InFlight
<1>3. ASSUME Clear
      PROVE  InRedis' = InFlight
  <2>1. main' = <<>> /\ UNCHANGED proc
    BY <1>3 DEF Clear
  <2> QED
    BY <1>b, <2>1 DEF InRedis, InFlight
<1>4. ASSUME NEW p \in Procs, PopMain(p), Taken(worker[p].slot)
      PROVE  InRedis' = InRedis /\ UNCHANGED <<created, unrun, owed>>
  <2> DEFINE j == Last(main)
             s == worker[p].slot
  <2>1. /\ main # <<>> /\ main' = Front(main) /\ proc'[s] = <<j>> /\ proc[s] = <<>> /\ s \in Nums
        /\ \A w \in Nums \ {s} : proc'[w] = proc[w]
    BY <1>4 DEF Taken
  <2>2. ToSet(main) = ToSet(Front(main)) \cup {j}
    BY <1>a, <2>1, TailOfList
  <2> HIDE DEF j, s
  <2>3. InFlight' = InFlight \cup {j}
    <3>1. /\ ToSet(proc'[s]) = {j} /\ ToSet(proc[s]) = {} /\ s \in Nums
          /\ \A w \in Nums \ {s} : ToSet(proc'[w]) = ToSet(proc[w])
      BY <1>b, <2>1
    <3>2. \A x : (\E w \in Nums : x \in ToSet(proc'[w])) <=> x = j \/ \E w \in Nums : x \in ToSet(proc[w])
      BY <3>1
    <3> QED
      BY <3>2 DEF InFlight
  <2>4. InRedis' = InRedis
    BY <2>1, <2>2, <2>3 DEF InRedis
  <2> QED
    BY <1>4, <2>4 DEF PopMain, history
<1>5. ASSUME NEW p \in Procs, Processed(p), Done(worker[p].slot)
      PROVE  worker[p].job \in InRedis /\ InRedis' = InRedis \ {worker[p].job}
  <2> DEFINE s == worker[p].slot
             j == worker[p].job
  <2>1. UNCHANGED main /\ proc'[s] = <<>> /\ \A w \in Nums \ {s} : proc'[w] = proc[w] /\ s \in Nums
    BY <1>5 DEF Done
  <2>2. proc[s] = <<j>>
    BY <1>5, <1>a DEF Processed, WorkersOK, InHand
  <2>3. s \in Nums
    BY <1>5 DEF Done
  <2> HIDE DEF s, j
  <2>4. j \notin ToSet(main) /\ \A w \in Nums \ {s} : j \notin ToSet(proc[w])
    <3>1. j \in ToSet(proc[s])
      BY <1>b, <2>2
    <3> QED
      BY <1>a, <2>3, <3>1 DEF OnePlace
  <2>5. InFlight' = InFlight \ {j} /\ j \in InFlight
    <3>1. /\ ToSet(proc'[s]) = {} /\ ToSet(proc[s]) = {j}
          /\ \A w \in Nums \ {s} : ToSet(proc'[w]) = ToSet(proc[w])
      BY <1>b, <2>1, <2>2
    <3>2. \A x : (\E w \in Nums : x \in ToSet(proc'[w])) <=> x # j /\ \E w \in Nums : x \in ToSet(proc[w])
      BY <2>3, <2>4, <3>1
    <3>3. \E w \in Nums : j \in ToSet(proc[w])
      BY <2>3, <3>1
    <3> QED
      BY <3>2, <3>3 DEF InFlight
  <2> QED
    BY <2>1, <2>4, <2>5 DEF InRedis, j
<1>6. ASSUME NEW m \in Machines, Exec(m), Recovered(boot[m].stale, boot[m].gathered)
      PROVE  InRedis' = InRedis /\ UNCHANGED <<created, unrun, owed>>
  <2> DEFINE stale == boot[m].stale
             g == boot[m].gathered
  <2>1. /\ g \in Seq(Raws) /\ main' = main \o g /\ stale \subseteq Nums
        /\ \A x \in ToSet(g) : \E w \in stale : x \in ToSet(proc[w])
        /\ \A w \in stale : ToSet(proc[w]) \subseteq ToSet(g)
        /\ \A w \in Nums : proc'[w] = IF w \in stale THEN <<>> ELSE proc[w]
    BY <1>6 DEF Recovered, Strays
  <2> HIDE DEF stale, g
  <2>2. ToSet(main') = ToSet(main) \cup ToSet(g)
    BY <1>a, <2>1, ConcatKeeps
  <2>3. \A x : x \in ToSet(g) <=> \E w \in stale : x \in ToSet(proc[w])
    BY <2>1
  <2>4. \A x : x \in InFlight' <=> \E w \in Nums \ stale : x \in ToSet(proc[w])
    BY <1>b, <2>1 DEF InFlight
  <2>5. \A x : x \in InFlight <=> x \in InFlight' \/ x \in ToSet(g)
    BY <2>1, <2>3, <2>4 DEF InFlight
  <2>6. InRedis' = InRedis
    BY <2>2, <2>5 DEF InRedis
  <2> QED
    BY <1>6, <2>6 DEF Exec, history
<1>7. ASSUME NEW d \in Dedupers, RemoveTwin(d)
      PROVE  \/ (\E i \in todo[d] :
               /\ RemoveTwin(d) /\ snap[d][i] \in ToSet(main)
               /\ InRedis' = InRedis \ {snap[d][i]})
             \/ InRedis' = InRedis /\ UNCHANGED <<created, unrun, owed>>
  <2>1. PICK i \in todo[d] : main' = RemoveFirst(main, snap[d][i]) /\ UNCHANGED <<proc, created, unrun, owed>>
    BY <1>7 DEF RemoveTwin
  <2>2. CASE snap[d][i] \notin ToSet(main)
    <3>1. main' = main
      BY <1>a, <2>1, <2>2, RemoveFirstKeeps
    <3> QED
      BY <2>1, <3>1 DEF InRedis, InFlight
  <2>3. CASE snap[d][i] \in ToSet(main)
    <3>1. ToSet(main') = ToSet(main) \ {snap[d][i]}
      <4>1. ToSet(main') \subseteq ToSet(main) /\ ToSet(main) \subseteq ToSet(main') \cup {snap[d][i]}
        BY <1>a, <2>1, RemoveFirstKeeps
      <4>2. snap[d][i] \notin ToSet(main')
        BY <1>a, <2>1, RemoveDistinct DEF OnePlace
      <4> QED
        BY <4>1, <4>2
    <3>2. snap[d][i] \notin InFlight
      BY <1>a, <2>3 DEF OnePlace, InFlight
    <3>3. InRedis' = InRedis \ {snap[d][i]}
      BY <2>1, <3>1, <3>2 DEF InRedis, InFlight
    <3> QED
      BY <1>7, <2>3, <3>3
  <2> QED
    BY <2>2, <2>3
<1> QED
  BY <1>1, <1>2, <1>3, <1>4, <1>5, <1>6, <1>7, ListStep

-----------------------------------------------------------------------------
(* Each surplus job has an identical one further down that is not surplus.  *)
LEMMA OldestTwin ==
  ASSUME NEW S, NEW s \in Seq(S), NEW i \in Surplus(s)
  PROVE  \E k \in DOMAIN s \ Surplus(s) : k > i /\ Identity[s[k]] = Identity[s[i]]
<1> DEFINE n == Len(s)
           I == {m \in 0..n : (n - m) \in Twins(s, i)}
<1>1. /\ n \in Nat /\ DOMAIN s = 1..n /\ i \in 1..n /\ Twins(s, i) \subseteq 1..n
      /\ i \in Twins(s, i) /\ \E j \in Twins(s, i) : i < j
  BY DEF Surplus, Twins
<1>2. I \in SUBSET Nat /\ I # {}
  <2>1. n - i \in 0..n /\ n - (n - i) = i
    BY <1>1
  <2>2. n - i \in I
    BY <1>1, <2>1
  <2>3. I \subseteq 0..n /\ 0..n \subseteq Nat
    BY <1>1
  <2> QED
    BY <2>2, <2>3
<1>3. PICK m \in I : \A o \in I : m <= o
  BY <1>2, LeastElement
<1> DEFINE k == n - m
<1>4. k \in Twins(s, i) /\ k \in 1..n
  BY <1>1, <1>3
<1>5. \A j \in Twins(s, i) : j <= k
  <2>1. SUFFICES ASSUME NEW j \in Twins(s, i)
                 PROVE  j <= k
    OBVIOUS
  <2>2. n - j \in 0..n /\ n - (n - j) = j
    BY <1>1, <2>1
  <2>3. m <= n - j
    BY <1>3, <2>2
  <2> QED
    BY <1>1, <1>2, <2>2, <2>3
<1> HIDE DEF k, n
<1>6. Identity[s[k]] = Identity[s[i]] /\ Twins(s, k) = Twins(s, i)
  BY <1>1, <1>4 DEF Twins
<1>7. k \notin Surplus(s)
  BY <1>1, <1>4, <1>5, <1>6 DEF Surplus
<1>8. k > i
  <2>1. PICK j \in Twins(s, i) : i < j
    BY <1>1
  <2>2. j <= k /\ j \in 1..n
    BY <1>1, <1>5
  <2> QED
    BY <1>1, <1>4, <2>1, <2>2
<1> QED
  BY <1>1, <1>4, <1>6, <1>7, <1>8

LEMMA ElderStep ==
  ASSUME Orderly, OneStray, \A d, e \in Dedupers : d = e, FifoIInv,
         ElderStays, [Next]_vars
  PROVE  ElderStays'
<1>a. /\ OrderlyIInv /\ Counted /\ SnapOrdered /\ StaleOlder
      /\ TypeOK /\ OnePlace /\ InHand /\ WorkersOK /\ created \in Nat
      /\ main \in Seq(Raws) /\ \A w \in Nums : proc[w] \in Seq(Raws)
      /\ snap \in [Dedupers -> Seq(Raws)]
  BY ConstantsAssumption
     DEF FifoIInv, OrderlyIInv, IInv, TypeOK, ListsOK, DedupOK, CountsOK, Own
<1>b. Raws \subseteq Nat /\ NoJob \notin Raws
  BY ConstantsAssumption DEF Raws, NoJob
<1>1. SUFFICES ASSUME NEW d \in Dedupers, NEW i \in todo'[d]
               PROVE  \E k \in DOMAIN snap'[d] \ Surplus(snap'[d]) :
                        /\ Identity[snap'[d][k]] = Identity[snap'[d][i]]
                        /\ snap'[d][i] \in owed' /\ snap'[d][i] \in Returning' =>
                             /\ snap'[d][k] \in InRedis'
                             /\ \A p \in Procs : worker'[p].job = snap'[d][k] =>
                                  worker'[p].pc = "running" /\ snap'[d][i] \in worker'[p].covers
  BY DEF ElderStays, Surplus, Twins
<1>2. ASSUME Scan(d), snap'[d] = main, todo'[d] = Surplus(main)
      PROVE  \E k \in DOMAIN main \ Surplus(main) :
               /\ Identity[main[k]] = Identity[main[i]]
               /\ main[k] \in InRedis'
               /\ \A p \in Procs : worker'[p].job # main[k]
  <2>1. PICK k \in DOMAIN main \ Surplus(main) : Identity[main[k]] = Identity[main[i]]
    BY <1>1, <1>2, <1>a, OldestTwin
  <2>2. main[k] \in ToSet(main) /\ main[k] \in Raws
    BY <1>a DEF ToSet
  <2>3. UNCHANGED <<main, proc, worker>>
    BY <1>2 DEF Scan, redis
  <2>4. main[k] \in InRedis'
    BY <2>2, <2>3 DEF InRedis
  <2>5. ASSUME NEW p \in Procs, worker[p].job = main[k]
        PROVE  FALSE
    <3>1. worker[p].job # NoJob /\ worker[p].pc # "down"
      BY <1>a, <1>b, <2>2, <2>5 DEF WorkersOK
    <3>2. worker[p].slot \in Nums /\ proc[worker[p].slot] = <<worker[p].job>>
      BY <1>a, <3>1, SlotType DEF InHand
    <3>3. worker[p].job \in ToSet(<<worker[p].job>>)
      BY DEF ToSet
    <3> QED
      BY <1>a, <2>2, <2>5, <3>2, <3>3 DEF OnePlace
  <2> QED
    BY <2>1, <2>3, <2>4, <2>5
<1>3. ASSUME snap'[d] = snap[d], i \in todo[d],
             NEW k \in DOMAIN snap[d] \ Surplus(snap[d]),
             Identity[snap[d][k]] = Identity[snap[d][i]],
             snap[d][i] \in owed /\ snap[d][i] \in Returning =>
               /\ snap[d][k] \in InRedis
               /\ \A p \in Procs : worker[p].job = snap[d][k] =>
                    worker[p].pc = "running" /\ snap[d][i] \in worker[p].covers,
             snap[d][i] \in owed', snap[d][i] \in Returning'
      PROVE  /\ snap[d][k] \in InRedis'
             /\ \A p \in Procs : worker'[p].job = snap[d][k] =>
                  worker'[p].pc = "running" /\ snap[d][i] \in worker'[p].covers
  <2> DEFINE x == snap[d][i]
             y == snap[d][k]
  <2>1. /\ i \in DOMAIN snap[d] /\ i \in Surplus(snap[d]) /\ snap[d] \in Seq(Raws)
        /\ x \in 1..created /\ y \in Raws /\ Descends(snap[d])
    BY <1>3, <1>a DEF SnapOrdered, Surplus, ToSet
  <2>2. k > i
    <3>1. PICK j \in DOMAIN snap[d] : i < j /\ Identity[snap[d][j]] = Identity[snap[d][i]]
      BY <2>1 DEF Surplus, Twins
    <3>2. j <= k
      <4>1. ~ (k < j)
        BY <1>3, <3>1 DEF Surplus, Twins
      <4> QED
        BY <2>1, <4>1
    <3> QED
      BY <2>1, <3>1, <3>2
  <2>3. y < x
    <3>1. x > y
      BY <2>1, <2>2 DEF Descends
    <3> QED
      BY <2>1, <1>b, <1>a, <3>1
  <2>4. x \in owed
    <3>1. CASE UNCHANGED owed
      BY <1>3, <3>1
    <3>2. ASSUME NEW hi \in (created + 1)..JobCount, NEW lost \in BOOLEAN, BulkEnqueue(hi, lost)
          PROVE  x \in owed
      <4>1. x \in owed \cup (created + 1)..hi
        BY <1>3, <3>2 DEF BulkEnqueue
      <4>2. x \notin (created + 1)..hi
        BY <1>a, <2>1
      <4> QED
        BY <4>1, <4>2
    <3>3. CASE Clear \/ \E p \in Procs : Finish(p)
      BY <1>3, <3>3 DEF Clear, Finish
    <3> QED
      BY <3>1, <3>2, <3>3, HistoryStep
  <2>5. x \in Returning
    BY <1>3, <1>a, <2>1, ReturningShrinks
  <2>6. /\ y \in InRedis
        /\ \A p \in Procs : worker[p].job = y => worker[p].pc = "running" /\ x \in worker[p].covers
    BY <1>3, <2>4, <2>5
  <2>7. y \in InRedis'
    <3>1. ASSUME Clear, InRedis' = InFlight
          PROVE  y \in InRedis'
      <4>1. main' = <<>> /\ UNCHANGED proc /\ ToSet(<<>>) = {}
        BY <3>1 DEF Clear, ToSet
      <4>0. ToSet(main') = {}
        BY <4>1
      <4>2. PICK w \in Strays : x \in ToSet(proc[w])
        BY <1>3, <4>0, <4>1 DEF Returning
      <4>3. y \notin ToSet(main)
        <5>1. y \in ToSet(main) => x < y
          BY <1>a, <4>2 DEF StaleOlder
        <5>2. x \in 1..created /\ y \in Raws /\ created \in Nat
          BY <1>a, <2>1
        <5> HIDE DEF x, y
        <5>3. x \in Nat /\ y \in Nat
          BY <1>b, <5>2
        <5> QED
          BY <2>3, <5>1, <5>3
      <4> QED
        BY <2>6, <3>1, <4>3 DEF InRedis
    <3>2. ASSUME NEW p \in Procs, Processed(p), InRedis' = InRedis \ {worker[p].job}
          PROVE  y \in InRedis'
      BY <2>6, <3>2 DEF Processed
    <3>3. ASSUME NEW e \in Dedupers, NEW a \in todo[e], InRedis' = InRedis \ {snap[e][a]}
          PROVE  y \in InRedis'
      <4>1. e = d /\ a \in todo[d] /\ a \in Surplus(snap[d]) /\ a \in DOMAIN snap[d]
        BY <3>3, <1>a DEF SnapOrdered, Surplus
      <4>2. a # k
        BY <1>3, <4>1
      <4>3. snap[d][a] # y
        <5>1. a < k => snap[d][a] > y
          BY <2>1, <4>1 DEF Descends
        <5>2. k < a => y > snap[d][a]
          BY <2>1, <4>1 DEF Descends
        <5>3. snap[d][a] \in Nat /\ y \in Nat /\ a \in Nat /\ k \in Nat
          <6>1. snap[d][a] \in Raws
            BY <2>1, <4>1
          <6>2. DOMAIN snap[d] \subseteq Nat
            BY <2>1
          <6> QED
            BY <1>b, <2>1, <4>1, <6>1, <6>2
        <5> QED
          BY <4>2, <5>1, <5>2, <5>3
      <4> QED
        BY <2>6, <3>3, <4>1, <4>3
    <3>4. CASE InRedis \subseteq InRedis'
      BY <2>6, <3>4
    <3> HIDE DEF x, y
    <3> QED
      BY <1>a, <3>1, <3>2, <3>3, <3>4, HeldStep
  <2>8. ASSUME NEW p \in Procs, worker'[p].job = y
        PROVE  worker'[p].pc = "running" /\ x \in worker'[p].covers
    <3>1. CASE worker'[p].job = NoJob
      BY <1>b, <2>1, <2>8, <3>1
    <3>2. CASE /\ worker'[p].job = worker[p].job /\ worker'[p].covers = worker[p].covers
               /\ worker'[p].pc = worker[p].pc \/ worker[p].job = NoJob
      BY <1>b, <2>1, <2>6, <2>8, <3>2
    <3>3. CASE /\ worker'[p].pc = "running"
               /\ worker'[p].covers = {r \in owed : Identity[r] = Identity[worker'[p].job]}
      BY <1>3, <2>4, <2>8, <3>3
    <3>4. CASE /\ worker'[p].job = worker[p].job /\ worker'[p].covers = worker[p].covers
               /\ owed' = owed \ worker[p].covers
      BY <1>3, <2>6, <2>8, <3>4
    <3> QED
      BY <1>a, <3>1, <3>2, <3>3, <3>4, JobStep
  <2> QED
    BY <2>7, <2>8
<1>4. CASE snap'[d] = snap[d] /\ i \in todo[d]
  BY <1>3, <1>4 DEF ElderStays
<1>5. CASE Scan(d) /\ snap'[d] = main /\ todo'[d] = Surplus(main)
  BY <1>2, <1>5
<1>6. CASE \E a \in todo[d] : /\ todo'[d] = todo[d] \ {a}
                              /\ snap'[d] = IF todo[d] = {a} THEN <<>> ELSE snap[d]
  BY <1>1, <1>4, <1>6
<1>7. CASE todo'[d] = {}
  BY <1>1, <1>7
<1> QED
  BY <1>a, <1>1, <1>4, <1>5, <1>6, <1>7, DedupStep

-----------------------------------------------------------------------------
PromiseIInv == FifoIInv /\ CoversAlike /\ ElderStays

LEMMA PromiseInit == Init => PromiseIInv /\ Promise!Init
<1> SUFFICES ASSUME Init
             PROVE  PromiseIInv /\ Promise!Init
  OBVIOUS
<1>1. FifoIInv
  BY FifoInit
<1>2. CoversAlike
  BY DEF Init, Off, CoversAlike
<1>3. ElderStays
  BY DEF Init, ElderStays
<1>4. InRedis = {} /\ 1..created = {} /\ unrun = {} /\ owed = {}
  BY DEF Init, InRedis, InFlight, ToSet
<1> QED
  BY <1>1, <1>2, <1>3, <1>4 DEF PromiseIInv, Promise!Init

LEMMA PromiseStep ==
  ASSUME Orderly, OneStray, \A d, e \in Dedupers : d = e, PromiseIInv, [Next]_vars
  PROVE  PromiseIInv' /\ [Promise!Next]_(Promise!vars)
<1>a. /\ FifoIInv /\ CoversAlike /\ ElderStays /\ OrderlyIInv /\ Counted /\ TypeOK /\ RanIsDone /\ InHand
      /\ OnePlace /\ WorkersOK /\ unrun \subseteq Raws /\ owed \subseteq Raws /\ SnapOrdered
      /\ InRedis \subseteq Raws /\ created \in Nat
  <2>1. InRedis \subseteq 1..created /\ created \in 0..JobCount
    BY DEF PromiseIInv, FifoIInv, OrderlyIInv, IInv, OnlyPushed, TypeOK, CountsOK
  <2>2. InRedis \subseteq Raws /\ created \in Nat
    BY <2>1, ConstantsAssumption DEF Raws
  <2> QED
    BY <2>2 DEF PromiseIInv, FifoIInv, OrderlyIInv, IInv, Own, TypeOK, CountsOK
<1>1. PromiseIInv'
  BY <1>a, FifoStep, CoversStep, ElderStep DEF PromiseIInv
<1>2. ASSUME NEW hi \in (created + 1)..JobCount, NEW lost \in BOOLEAN,
             BulkEnqueue(hi, lost), InRedis' = InRedis \cup (created + 1)..hi
      PROVE  Promise!Next
  <2>1. (created + 1)..hi \in SUBSET Raws
    BY <1>a, ConstantsAssumption DEF Raws
  <2>2. /\ (created + 1)..hi \cap 1..created = {}
        /\ 1..created' = 1..created \cup (created + 1)..hi
    BY <1>2, <1>a DEF BulkEnqueue
  <2>3. Promise!Enqueue((created + 1)..hi)
    BY <1>2, <2>2 DEF BulkEnqueue, Promise!Enqueue
  <2> QED
    BY <2>1, <2>3 DEF Promise!Next
<1>3. ASSUME Clear, InRedis' = InFlight
      PROVE  Promise!Next
  <2> DEFINE S == Raws \ InFlight
  <2>1. InRedis' = InRedis \ S /\ unrun' = unrun \ S /\ owed' = owed \ S
    <3>1. InFlight \subseteq InRedis
      BY DEF InRedis
    <3> QED
      BY <1>3, <1>a, <3>1 DEF Clear
  <2>2. S \in SUBSET Raws
    OBVIOUS
  <2> HIDE DEF S
  <2>3. Promise!Cancel(S)
    BY <1>3, <2>1 DEF Clear, Promise!Cancel
  <2> QED
    BY <2>2, <2>3 DEF Promise!Next
<1>4. ASSUME NEW p \in Procs, Processed(p), worker[p].job \in InRedis,
             InRedis' = InRedis \ {worker[p].job}
      PROVE  Promise!Next
  <2>1. worker[p].job \notin unrun /\ UNCHANGED <<created, unrun, owed>>
    BY <1>4, <1>a DEF Processed, RanIsDone, history
  <2>2. Promise!Forget(worker[p].job)
    BY <1>4, <2>1 DEF Promise!Forget
  <2>3. worker[p].job \in Raws
    BY <1>4, <1>a
  <2> QED
    BY <2>2, <2>3 DEF Promise!Next
<1>5. ASSUME NEW d \in Dedupers, NEW i \in todo[d], RemoveTwin(d), snap[d][i] \in ToSet(main),
             InRedis' = InRedis \ {snap[d][i]}
      PROVE  Promise!Next
  <2> DEFINE x == snap[d][i]
  <2>1. x \in InRedis /\ x \in Returning /\ UNCHANGED <<created, unrun, owed>>
    BY <1>5 DEF InRedis, Returning, RemoveTwin
  <2>2. PICK k \in DOMAIN snap[d] \ Surplus(snap[d]) :
          /\ Identity[snap[d][k]] = Identity[x]
          /\ x \in owed => snap[d][k] \in InRedis
    BY <1>a, <2>1 DEF ElderStays
  <2>3. snap[d][k] # x
    <3>1. snap[d] \in Seq(Raws) /\ i \in DOMAIN snap[d] /\ i \in Surplus(snap[d]) /\ Descends(snap[d])
      BY <1>a DEF SnapOrdered, Surplus, TypeOK, DedupOK
    <3>2. i # k
      BY <3>1
    <3>3. (i < k => snap[d][i] > snap[d][k]) /\ (k < i => snap[d][k] > snap[d][i])
      BY <3>1 DEF Descends
    <3>4. snap[d][i] \in Raws /\ snap[d][k] \in Raws /\ DOMAIN snap[d] \subseteq Nat
      BY <3>1
    <3>5. i \in Nat /\ k \in Nat
      BY <3>1, <3>4
    <3>6. snap[d][i] \in Nat /\ snap[d][k] \in Nat
      BY <3>4, RawsNat
    <3> QED
      BY <3>2, <3>3, <3>5, <3>6
  <2>4. x \in owed => Promise!Alike(InRedis, x) # {x}
    BY <2>2, <2>3 DEF Promise!Alike
  <2> HIDE DEF x
  <2>5. Promise!Merge(x)
    BY <1>5, <2>1, <2>4 DEF Promise!Merge, x
  <2> QED
    BY <1>a, <2>1, <2>5 DEF Promise!Next
<1>6. ASSUME NEW p \in Procs, Finish(p), InRedis' = InRedis
      PROVE  Promise!Next
  <2> DEFINE j == worker[p].job
             S == worker[p].covers \cap owed
  <2>1. unrun' = unrun \ {j} /\ owed' = owed \ S /\ UNCHANGED created
    BY <1>6 DEF Finish
  <2>2. S \subseteq Promise!Alike(owed, j)
    BY <1>a DEF CoversAlike, Promise!Alike
  <2>3. j \in Raws /\ S \in SUBSET Raws
    <3>1. j # NoJob /\ worker[p] \in Workers
      BY <1>6, <1>a DEF Finish, WorkersOK
    <3> QED
      BY <1>a, <3>1 DEF Workers
  <2>4. j \in InRedis
    <3>1. worker[p].slot \in Nums /\ proc[worker[p].slot] = <<j>>
      BY <1>6, <1>a, SlotType DEF Finish, WorkersOK, InHand
    <3>2. j \in ToSet(<<j>>)
      BY DEF ToSet
    <3> QED
      BY <3>1, <3>2 DEF InRedis, InFlight
  <2> HIDE DEF j, S
  <2>5. Promise!Run(j, S)
    BY <1>6, <2>1, <2>2, <2>4 DEF Promise!Run
  <2> QED
    BY <2>3, <2>5 DEF Promise!Next
<1>7. CASE InRedis' = InRedis /\ UNCHANGED <<created, unrun, owed>>
  BY <1>1, <1>7 DEF Promise!vars
<1> QED
  BY <1>a, <1>1, <1>2, <1>3, <1>4, <1>5, <1>6, <1>7, HeldStep

(* KeepsPromise: with one deduper at a time and at most one list that is    *)
(* recovered, the lists implement the set of jobs of AtLeastOnce, in which  *)
(* no job that has left comes back.                                         *)
THEOREM ImplementsAtLeastOnce ==
  ASSUME Orderly, OneStray, \A d, e \in Dedupers : d = e
  PROVE  Spec => KeepsPromise
<1>1. PromiseIInv /\ [Next]_vars => PromiseIInv' /\ [Promise!Next]_(Promise!vars)
  BY PromiseStep
<1>2. Spec => []PromiseIInv /\ Promise!Init
  BY <1>1, PromiseInit, PTL DEF Spec
<1> QED
  BY <1>1, <1>2, PTL DEF Spec, KeepsPromise, Promise!Spec
=============================================================================
