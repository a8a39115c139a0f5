------------------------ MODULE RedisBackendProofs ------------------------
(***************************************************************************)
(* What the plain Redis backend promises, for every number of clients,     *)
(* jobs, workers and failures: entries are started at most once and in     *)
(* order, and bulk_enqueue is equivalent to calling the task.              *)
(***************************************************************************)
EXTENDS RedisBackend, ListLemmas

(* The jobs that a client has made and not pushed, or not to its knowledge. *)
Pending(c) == (client[c].made - Len(client[c].to_create) + 1)..client[c].made

BatchOf(c) ==
  /\ Len(client[c].to_create) <= client[c].made
  /\ \A i \in 1..Len(client[c].to_create) :
       client[c].to_create[i] = <<c, (client[c].made - Len(client[c].to_create)) + i>>

(* How a client comes to leave its block. *)
OnItsWay(c) ==
  /\ client[c].pc \in {"body", "flush"} => ~client[c].failed
  /\ client[c].pc = "exit" /\ ~client[c].failed => client[c].made = PerClient
  /\ c \in Callers => client[c].pc \notin {"flush", "exit"} /\ client[c].to_create = <<>>

Unmade(c) == \A i \in 1..PerClient : i > client[c].made => pushes[<<c, i>>] = 0

(* While nothing has failed, what is not pending was pushed once.           *)
Sent(c) ==
  client[c].pc \in {"body", "flush", "exit"} /\ ~client[c].failed =>
    \A i \in 1..client[c].made : pushes[<<c, i>>] = IF i \in Pending(c) THEN 0 ELSE 1

(* A batch is pushed as a whole. *)
Together(c) == \A i, k \in Pending(c) : pushes[<<c, i>>] = pushes[<<c, k>>]

Complete(c) == client[c].pc = "returned" => \A i \in 1..PerClient : pushes[<<c, i>>] = 1

ClientOK(c) == BatchOf(c) /\ OnItsWay(c) /\ Unmade(c) /\ Sent(c) /\ Together(c) /\ Complete(c)
ClientsOK   == \A c \in Clients : ClientOK(c)

ClientType == [pc: ClientPCs, made: 0..PerClient, failed: BOOLEAN, to_create: Seq(Jobs)]

Typed ==
  /\ TypeOK
  /\ DOMAIN worker = Procs

-----------------------------------------------------------------------------
LEMMA JobsArePairs ==
  ASSUME NEW c \in Clients, NEW i
  PROVE  <<c, i>> \in Jobs <=> i \in 1..PerClient
  BY DEF Jobs

(* Redis counts each job of a batch once more. *)
LEMMA PushCounts ==
  ASSUME TypeOK, NEW batch \in Seq(Jobs), Push(batch)
  PROVE  /\ queue' \in Seq(Jobs) /\ pushes' \in [Jobs -> Nat]
         /\ \A j \in Jobs : pushes'[j] = IF j \in ToSet(batch) THEN pushes[j] + 1 ELSE pushes[j]
<1>1. queue' \in Seq(Jobs)
  BY ReverseKeeps, ConcatKeeps DEF Push, TypeOK
<1>2. \A j \in Jobs : pushes[j] \in Nat
  BY DEF TypeOK
<1>3. \A j \in Jobs : pushes'[j] = IF j \in ToSet(batch) THEN pushes[j] + 1 ELSE pushes[j]
  BY <1>2 DEF Push
<1>4. pushes' \in [Jobs -> Nat]
  BY <1>2 DEF Push
<1> QED
  BY <1>1, <1>3, <1>4

LEMMA SpendType ==
  ASSUME TypeOK, NEW event, Spend(event)
  PROVE  budget' \in 0..Budget
  BY RedisBackendAssumption DEF TypeOK, Spend

(* What the push of a batch may end in. *)
LEMMA PushEnds ==
  ASSUME TypeOK, NEW batch \in Seq(Jobs), Answered(batch) \/ Raises(batch)
  PROVE  /\ queue' \in Seq(Jobs) /\ pushes' \in [Jobs -> Nat] /\ budget' \in 0..Budget
         /\ \/ Push(batch) /\ \A j \in Jobs : pushes'[j] = IF j \in ToSet(batch) THEN pushes[j] + 1
                                                                               ELSE pushes[j]
            \/ UNCHANGED <<queue, pushes>> /\ Raises(batch)
<1>1. CASE Answered(batch)
  BY <1>1, PushCounts DEF Answered, TypeOK
<1>2. CASE ReplyLost(batch)
  BY <1>2, PushCounts, SpendType DEF ReplyLost
<1>3. CASE RequestLost(batch)
  <2>1. UNCHANGED <<queue, pushes>> /\ budget' \in 0..Budget
    BY <1>3, SpendType DEF RequestLost
  <2> QED
    BY <1>3, <2>1 DEF TypeOK, Raises
<1> QED
  BY <1>1, <1>2, <1>3 DEF Raises

-----------------------------------------------------------------------------
(* Types. *)
LEMMA TypedClient ==
  ASSUME TypeOK, NEW c \in Clients, NEW r \in ClientType, client' = [client EXCEPT ![c] = r]
  PROVE  /\ client' \in [Clients -> ClientType] /\ client'[c] = r
         /\ \A d \in Clients \ {c} : client'[d] = client[d]
  BY DEF TypeOK, ClientType

LEMMA TypedWorker ==
  ASSUME Typed, NEW p \in Procs, NEW r, worker' = [worker EXCEPT ![p] = r],
         \/ r \in {Idle("down"), Idle("idle"), Idle("checked")}
         \/ r.pc = "running" /\ r.job \in Jobs
  PROVE  /\ DOMAIN worker' = Procs
         /\ \A q \in Procs :
              \/ worker'[q] \in {Idle("down"), Idle("idle"), Idle("checked")}
              \/ worker'[q].pc = "running" /\ worker'[q].job \in Jobs
<1>1. worker'[p] = r /\ \A q \in Procs \ {p} : worker'[q] = worker[q]
  BY DEF Typed
<1>2. DOMAIN worker' = Procs
  BY DEF Typed
<1>3. \A q \in Procs :
              \/ worker[q] \in {Idle("down"), Idle("idle"), Idle("checked")}
              \/ worker[q].pc = "running" /\ worker[q].job \in Jobs
  BY DEF Typed, TypeOK
<1> QED
  BY <1>1, <1>2, <1>3

(* The batch of a helper, and the jobs in it. *)
LEMMA BatchIs ==
  ASSUME TypeOK, ClientsOK, NEW c \in Clients
  PROVE  /\ client[c].to_create \in Seq(Jobs) /\ client[c].made \in 0..PerClient
         /\ Len(client[c].to_create) \in Nat
         /\ Pending(c) \subseteq 1..client[c].made
         /\ \A d \in Clients : \A i \in 1..PerClient :
              <<d, i>> \in ToSet(client[c].to_create) <=> d = c /\ i \in Pending(c)
<1> DEFINE b == client[c].to_create
           m == client[c].made
           n == Len(b)
<1>1. /\ b \in Seq(Jobs) /\ m \in 0..PerClient /\ n \in Nat /\ n <= m /\ PerClient \in Nat
      /\ \A i \in 1..n : b[i] = <<c, (m - n) + i>>
  BY RedisBackendAssumption DEF TypeOK, ClientsOK, ClientOK, BatchOf
<1>2. Pending(c) = ((m - n) + 1)..m
  BY <1>1 DEF Pending
<1> HIDE DEF b, m, n
<1>3. ASSUME NEW d \in Clients, NEW i \in 1..PerClient
      PROVE  <<d, i>> \in ToSet(b) <=> d = c /\ i \in Pending(c)
  <2>1. ASSUME <<d, i>> \in ToSet(b)
        PROVE  d = c /\ i \in Pending(c)
    <3>1. PICK k \in 1..n : b[k] = <<d, i>>
      BY <1>1, <2>1, InToSet DEF n
    <3>2. d = c /\ i = (m - n) + k
      BY <1>1, <3>1
    <3> QED
      BY <1>1, <1>2, <3>2
  <2>2. ASSUME d = c, i \in Pending(c)
        PROVE  <<d, i>> \in ToSet(b)
    <3>1. i - (m - n) \in 1..n /\ (m - n) + (i - (m - n)) = i
      BY <1>1, <1>2, <2>2
    <3>2. b[i - (m - n)] = <<d, i>>
      BY <1>1, <2>2, <3>1
    <3> QED
      BY <1>1, <3>1, <3>2, InToSet DEF n
  <2> QED
    BY <2>1, <2>2
<1>4. Pending(c) \subseteq 1..m
  BY <1>1, <1>2
<1> QED
  BY <1>1, <1>3, <1>4 DEF b, m, n

-----------------------------------------------------------------------------
(* The steps of a client: what becomes of it, and of the counts of pushes.  *)
SameOthers(c) ==
  /\ client' \in [Clients -> ClientType]
  /\ \A d \in Clients \ {c} : client'[d] = client[d]

SentOr(S) ==
  /\ pushes' \in [Jobs -> Nat] /\ queue' \in Seq(Jobs) /\ budget' \in 0..Budget
  /\ \/ \A j \in Jobs : pushes'[j] = IF j \in S THEN pushes[j] + 1 ELSE pushes[j]
     \/ UNCHANGED <<pushes, queue>>

LEMMA ClientAt ==
  ASSUME TypeOK, NEW c \in Clients
  PROVE  client[c] \in ClientType /\ PerClient \in Nat
  BY RedisBackendAssumption DEF TypeOK, ClientType

LEMMA CallMoves ==
  ASSUME TypeOK, ClientsOK, NEW c \in Clients, Call(c)
  PROVE  LET n == client[c].made + 1 IN
         /\ c \in Callers /\ client[c].pc = "body" /\ n \in 1..PerClient
         /\ SameOthers(c) /\ SentOr({<<c, n>>})
         /\ client'[c].made = n /\ client'[c].failed = client[c].failed
         /\ client'[c].to_create = <<>>
         /\ \/ /\ client'[c].pc = "body" /\ Push(<< <<c, n>> >>)
               /\ pushes'[<<c, n>>] = pushes[<<c, n>>] + 1
            \/ client'[c].pc = "raised" /\ (Push(<< <<c, n>> >>) \/ UNCHANGED <<pushes, queue>>)
<1> DEFINE n == client[c].made + 1
           j == <<c, n>>
           ok == [client[c] EXCEPT !.made = n]
           bad == [client[c] EXCEPT !.made = n, !.pc = "raised"]
<1>1. /\ client[c] \in ClientType /\ PerClient \in Nat /\ c \in Callers /\ client[c].pc = "body"
      /\ client[c].made < PerClient /\ client[c].to_create = <<>>
  BY ClientAt DEF Call, ClientsOK, ClientOK, OnItsWay
<1>2. n \in 1..PerClient /\ j \in Jobs
  <2>1. n \in 1..PerClient
    BY <1>1 DEF ClientType
  <2> QED
    BY <2>1, JobsArePairs
<1>3. \/ Answered(<<j>>) /\ client' = [client EXCEPT ![c] = ok]
      \/ Raises(<<j>>) /\ client' = [client EXCEPT ![c] = bad]
  BY DEF Call
<1>4. /\ ok \in ClientType /\ ok.made = n /\ ok.pc = "body" /\ ok.failed = client[c].failed
      /\ ok.to_create = <<>>
  BY <1>1, <1>2 DEF ClientType
<1>5. /\ bad \in ClientType /\ bad.made = n /\ bad.pc = "raised" /\ bad.failed = client[c].failed
      /\ bad.to_create = <<>>
  <2>1. n \in 0..PerClient /\ "raised" \in ClientPCs
    BY <1>2 DEF ClientPCs
  <2> HIDE DEF n
  <2>2. bad \in ClientType
    BY <1>1, <2>1 DEF ClientType
  <2>3. bad.made = n /\ bad.pc = "raised" /\ bad.to_create = <<>>
    BY <1>1 DEF ClientType
  <2>4. bad.failed = client[c].failed
    BY <1>1 DEF ClientType
  <2> QED
    BY <2>2, <2>3, <2>4
<1>6. <<j>> \in Seq(Jobs) /\ ToSet(<<j>>) = {j}
  BY <1>2 DEF ToSet
<1> HIDE DEF ok, bad, j, n
<1>7. SentOr({j})
  BY <1>3, <1>6, PushEnds DEF SentOr
<1>8. CASE Answered(<<j>>) /\ client' = [client EXCEPT ![c] = ok]
  <2>1. SameOthers(c) /\ client'[c] = ok
    BY <1>4, <1>8, TypedClient DEF SameOthers
  <2>2. Push(<<j>>)
    BY <1>8 DEF Answered
  <2>3. pushes'[j] = pushes[j] + 1
    BY <1>2, <1>6, <2>2, PushCounts
  <2> QED
    BY <1>1, <1>2, <1>4, <1>7, <2>1, <2>2, <2>3 DEF n, j
<1>9. CASE Raises(<<j>>) /\ client' = [client EXCEPT ![c] = bad]
  <2>1. SameOthers(c) /\ client'[c] = bad
    BY <1>5, <1>9, TypedClient DEF SameOthers
  <2>2. Push(<<j>>) \/ UNCHANGED <<pushes, queue>>
    BY <1>9 DEF Raises, ReplyLost, RequestLost
  <2> QED
    BY <1>1, <1>2, <1>5, <1>7, <2>1, <2>2 DEF n, j
<1> QED
  BY <1>3, <1>8, <1>9

LEMMA CreateMoves ==
  ASSUME TypeOK, ClientsOK, NEW c \in Clients, Create(c)
  PROVE  LET n == client[c].made + 1 IN
         /\ c \in Helpers /\ client[c].pc = "body" /\ n \in 1..PerClient
         /\ SameOthers(c) /\ UNCHANGED <<queue, budget, pushes>>
         /\ client'[c].made = n /\ client'[c].failed = client[c].failed
         /\ client'[c].to_create = Append(client[c].to_create, <<c, n>>)
         /\ client'[c].pc \in {"body", "flush"}
<1> DEFINE n == client[c].made + 1
           batch == Append(client[c].to_create, <<c, n>>)
           pc == IF Len(batch) >= BatchSize THEN "flush" ELSE "body"
           r == [client[c] EXCEPT !.made = n, !.to_create = batch, !.pc = pc]
<1>1. /\ client[c] \in ClientType /\ PerClient \in Nat /\ c \in Helpers /\ client[c].pc = "body"
      /\ client[c].made < PerClient
  BY ClientAt DEF Create
<1>2. n \in 1..PerClient /\ <<c, n>> \in Jobs
  <2>1. n \in 1..PerClient
    BY <1>1 DEF ClientType
  <2> QED
    BY <2>1, JobsArePairs
<1>3. batch \in Seq(Jobs) /\ pc \in {"body", "flush"}
  BY <1>1, <1>2 DEF ClientType
<1>4. client' = [client EXCEPT ![c] = r] /\ UNCHANGED <<queue, budget, pushes>>
  BY DEF Create
<1> HIDE DEF batch, pc
<1>5. /\ r \in ClientType /\ r.made = n /\ r.pc = pc /\ r.failed = client[c].failed
      /\ r.to_create = batch
  <2>1. n \in 0..PerClient /\ pc \in ClientPCs
    BY <1>2, <1>3 DEF ClientPCs
  <2> HIDE DEF n
  <2>2. r \in ClientType
    BY <1>1, <1>3, <2>1 DEF ClientType
  <2>3. r.made = n /\ r.pc = pc /\ r.to_create = batch
    BY <1>1 DEF ClientType
  <2>4. r.failed = client[c].failed
    BY <1>1 DEF ClientType
  <2> QED
    BY <2>2, <2>3, <2>4
<1> HIDE DEF r
<1>6. SameOthers(c) /\ client'[c] = r
  BY <1>4, <1>5, TypedClient DEF SameOthers
<1> QED
  BY <1>1, <1>2, <1>3, <1>4, <1>5, <1>6 DEF batch

LEMMA LeaveMoves ==
  ASSUME TypeOK, ClientsOK, NEW c \in Clients, NEW failed \in BOOLEAN, LeaveBlock(c, failed)
  PROVE  /\ client[c].pc = "body" /\ ~client[c].failed
         /\ SameOthers(c) /\ UNCHANGED <<queue, budget, pushes>>
         /\ client'[c].made = client[c].made /\ client'[c].to_create = client[c].to_create
         /\ client'[c].failed = failed
         /\ \/ c \in Helpers /\ client'[c].pc = "exit" /\ (failed \/ client[c].made = PerClient)
            \/ c \notin Helpers /\ client'[c].pc = "returned" /\ client[c].made = PerClient
<1> DEFINE pc == IF c \in Helpers THEN "exit" ELSE "returned"
           r == [client[c] EXCEPT !.pc = pc, !.failed = failed]
<1>1. client[c] \in ClientType /\ client[c].pc = "body" /\ ~client[c].failed
  BY ClientAt DEF LeaveBlock, ClientsOK, ClientOK, OnItsWay
<1>2. client' = [client EXCEPT ![c] = r] /\ UNCHANGED <<queue, budget, pushes>>
  BY DEF LeaveBlock
<1>3. IF failed THEN c \in Helpers ELSE client[c].made = PerClient
  BY DEF LeaveBlock
<1>4. pc \in ClientPCs
  BY DEF ClientPCs
<1> HIDE DEF pc
<1>5. r \in ClientType /\ r.made = client[c].made /\ r.pc = pc /\ r.to_create = client[c].to_create
  BY <1>1, <1>4 DEF ClientType
<1>6. r.failed = failed
  BY <1>1 DEF ClientType
<1> HIDE DEF r
<1>7. SameOthers(c) /\ client'[c] = r
  BY <1>2, <1>5, TypedClient DEF SameOthers
<1>8. /\ client'[c].made = client[c].made /\ client'[c].to_create = client[c].to_create
      /\ client'[c].pc = pc
  BY <1>5, <1>7
<1>9. client'[c].failed = failed
  BY <1>6, <1>7
<1> QED
  BY <1>1, <1>2, <1>3, <1>7, <1>8, <1>9, Zenon DEF pc

LEMMA FlushedMoves ==
  ASSUME TypeOK, ClientsOK, NEW c \in Clients, Flushed(c)
  PROVE  /\ c \in Helpers /\ client[c].pc \in {"flush", "exit"}
         /\ SameOthers(c)
         /\ pushes' \in [Jobs -> Nat] /\ queue' \in Seq(Jobs) /\ budget' \in 0..Budget
         /\ \A j \in Jobs : pushes'[j] = IF j \in ToSet(client[c].to_create) THEN pushes[j] + 1
                                                                               ELSE pushes[j]
         /\ Push(client[c].to_create) \/ UNCHANGED <<pushes, queue>>
         /\ client'[c].made = client[c].made /\ client'[c].to_create = <<>>
         /\ client'[c].failed = client[c].failed
         /\ client'[c].pc = IF client[c].pc = "flush" THEN "body"
                            ELSE IF client[c].failed THEN "raised" ELSE "returned"
<1> DEFINE b == client[c].to_create
           pc == IF client[c].pc = "flush" THEN "body"
                            ELSE IF client[c].failed THEN "raised" ELSE "returned"
           r == [client[c] EXCEPT !.to_create = <<>>, !.pc = pc]
<1>1. /\ client[c] \in ClientType /\ client[c].pc \in {"flush", "exit"} /\ c \in Helpers
      /\ b \in Seq(Jobs) /\ <<>> \in Seq(Jobs)
  BY ClientAt DEF Flushed, ClientsOK, ClientOK, OnItsWay, Clients, ClientType
<1>2. client' = [client EXCEPT ![c] = r]
  BY DEF Flushed
<1>3. pc \in ClientPCs
  BY DEF ClientPCs
<1>4. Answered(b) \/ (b = <<>> /\ UNCHANGED <<queue, pushes, budget>>)
  BY DEF Flushed
<1> HIDE DEF pc
<1>5. r \in ClientType /\ r.made = client[c].made /\ r.pc = pc /\ r.to_create = <<>>
      /\ r.failed = client[c].failed
  BY <1>1, <1>3 DEF ClientType
<1> HIDE DEF r, b
<1>6. SameOthers(c) /\ client'[c] = r
  BY <1>2, <1>5, TypedClient DEF SameOthers
<1>7. /\ pushes' \in [Jobs -> Nat] /\ queue' \in Seq(Jobs) /\ budget' \in 0..Budget
      /\ \A j \in Jobs : pushes'[j] = IF j \in ToSet(b) THEN pushes[j] + 1 ELSE pushes[j]
      /\ Push(b) \/ UNCHANGED <<pushes, queue>>
  <2>1. CASE Answered(b)
    <3>1. Push(b) /\ UNCHANGED budget
      BY <2>1 DEF Answered
    <3> QED
      BY <1>1, <3>1, PushCounts DEF TypeOK
  <2>2. CASE b = <<>> /\ UNCHANGED <<queue, pushes, budget>>
    <3>1. ToSet(b) = {}
      BY <2>2 DEF ToSet
    <3> QED
      BY <2>2, <3>1 DEF TypeOK
  <2> QED
    BY <1>4, <2>1, <2>2
<1>8. /\ client'[c].made = client[c].made /\ client'[c].pc = pc /\ client'[c].to_create = <<>>
      /\ client'[c].failed = client[c].failed
  BY <1>5, <1>6
<1> QED
  BY <1>1, <1>6, <1>7, <1>8, Zenon DEF b, pc

LEMMA FlushRaisesMoves ==
  ASSUME TypeOK, ClientsOK, NEW c \in Clients, FlushRaises(c)
  PROVE  /\ c \in Helpers /\ client[c].pc \in {"flush", "exit"}
         /\ SameOthers(c) /\ SentOr(ToSet(client[c].to_create))
         /\ Push(client[c].to_create) \/ UNCHANGED <<pushes, queue>>
         /\ client'[c].made = client[c].made /\ client'[c].to_create = client[c].to_create
         /\ client'[c].failed = TRUE
         /\ client'[c].pc = IF client[c].pc = "flush" THEN "exit" ELSE "raised"
<1> DEFINE b == client[c].to_create
           pc == IF client[c].pc = "flush" THEN "exit" ELSE "raised"
           r == [client[c] EXCEPT !.failed = TRUE, !.pc = pc]
<1>1. /\ client[c] \in ClientType /\ client[c].pc \in {"flush", "exit"} /\ c \in Helpers
      /\ b \in Seq(Jobs)
  BY ClientAt DEF FlushRaises, ClientsOK, ClientOK, OnItsWay, Clients, ClientType
<1>2. client' = [client EXCEPT ![c] = r] /\ Raises(b)
  BY DEF FlushRaises
<1>3. pc \in ClientPCs
  BY DEF ClientPCs
<1> HIDE DEF pc
<1>5. r \in ClientType /\ r.made = client[c].made /\ r.pc = pc /\ r.to_create = b
      /\ r.failed = TRUE
  BY <1>1, <1>3 DEF ClientType
<1> HIDE DEF r, b
<1>6. SameOthers(c) /\ client'[c] = r
  BY <1>2, <1>5, TypedClient DEF SameOthers
<1>7. SentOr(ToSet(b))
  BY <1>1, <1>2, PushEnds DEF SentOr
<1>8. Push(b) \/ UNCHANGED <<pushes, queue>>
  BY <1>2 DEF Raises, ReplyLost, RequestLost
<1>9. /\ client'[c].made = client[c].made /\ client'[c].pc = pc /\ client'[c].to_create = b
      /\ client'[c].failed = TRUE
  BY <1>5, <1>6
<1> QED
  BY <1>1, <1>6, <1>7, <1>8, <1>9, Zenon DEF b, pc

-----------------------------------------------------------------------------
LEMMA OtherClients ==
  ASSUME ClientsOK, NEW c \in Clients, SameOthers(c), ClientOK(c)',
         \A d \in Clients \ {c} : \A i \in 1..PerClient : pushes'[<<d, i>>] = pushes[<<d, i>>],
         TypeOK
  PROVE  ClientsOK'
<1>1. SUFFICES ASSUME NEW d \in Clients, d # c
               PROVE  ClientOK(d)'
  BY DEF ClientsOK
<1>2. /\ ClientOK(d) /\ client'[d] = client[d] /\ client[d].made \in 0..PerClient
      /\ \A i \in 1..PerClient : pushes'[<<d, i>>] = pushes[<<d, i>>]
  BY <1>1 DEF ClientsOK, SameOthers, TypeOK
<1>3. Pending(d)' = Pending(d) /\ Pending(d) \subseteq 1..client[d].made /\ 1..client[d].made \subseteq 1..PerClient
  BY <1>2, BatchIs, RedisBackendAssumption DEF Pending
<1>4. BatchOf(d)' /\ OnItsWay(d)'
  BY <1>2 DEF ClientOK, BatchOf, OnItsWay
<1>5. Unmade(d)' /\ Complete(d)'
  BY <1>2 DEF ClientOK, Unmade, Complete
<1>6. Sent(d)' /\ Together(d)'
  BY <1>2, <1>3 DEF ClientOK, Sent, Together
<1> QED
  BY <1>4, <1>5, <1>6 DEF ClientOK

LEMMA ClientsCall ==
  ASSUME TypeOK, ClientsOK, NEW c \in Clients, Call(c)
  PROVE  ClientsOK'
<1> DEFINE n == client[c].made + 1
<1>0. n = client[c].made + 1 /\ client[c].made \in 0..PerClient /\ client[c].made \in Nat
      /\ PerClient \in Nat /\ client[c].to_create = <<>> /\ ClientOK(c) /\ ~client[c].failed
      /\ n \in 1..PerClient
  BY ClientAt, CallMoves DEF ClientType, ClientsOK, ClientOK, OnItsWay, Call
<1>1. /\ c \in Callers /\ client[c].pc = "body"
      /\ SameOthers(c) /\ SentOr({<<c, n>>})
      /\ client'[c].made = n /\ client'[c].failed = client[c].failed
      /\ client'[c].to_create = <<>>
      /\ \/ client'[c].pc = "body" /\ pushes'[<<c, n>>] = pushes[<<c, n>>] + 1
         \/ client'[c].pc = "raised"
  BY CallMoves
<1> HIDE DEF n
<1>2. /\ \A d \in Clients \ {c} : \A i \in 1..PerClient : pushes'[<<d, i>>] = pushes[<<d, i>>]
      /\ \A i \in (1..PerClient) \ {n} : pushes'[<<c, i>>] = pushes[<<c, i>>]
  BY <1>1, JobsArePairs DEF SentOr
<1>3. Pending(c) = {} /\ Pending(c)' = {}
  BY <1>0, <1>1 DEF Pending
<1>4. BatchOf(c)' /\ OnItsWay(c)' /\ Complete(c)'
  <2>1. Len(<<>>) = 0 /\ Len(<<>>) <= n /\ 1..Len(<<>>) = {}
    BY <1>0
  <2>2. BatchOf(c)'
    BY <1>1, <2>1 DEF BatchOf
  <2>3. OnItsWay(c)' /\ Complete(c)'
    BY <1>0, <1>1 DEF OnItsWay, Complete
  <2> QED
    BY <2>2, <2>3
<1>5. Unmade(c)'
  BY <1>0, <1>1, <1>2 DEF Unmade, ClientOK
<1>6. Together(c)'
  BY <1>3 DEF Together
<1>7. Sent(c)'
  <2>1. SUFFICES ASSUME client'[c].pc = "body"
                 PROVE  \A i \in 1..n : pushes'[<<c, i>>] = 1
    BY <1>1, <1>3 DEF Sent
  <2>2. pushes[<<c, n>>] = 0
    BY <1>0 DEF ClientOK, Unmade
  <2>3. \A i \in 1..client[c].made : pushes[<<c, i>>] = 1
    BY <1>0, <1>1, <1>3 DEF ClientOK, Sent
  <2>4. pushes'[<<c, n>>] = 1
    BY <1>1, <2>1, <2>2
  <2>5. \A i \in 1..n : i = n \/ (i \in 1..client[c].made /\ i \in (1..PerClient) \ {n})
    BY <1>0
  <2> QED
    BY <1>2, <2>3, <2>4, <2>5
<1>8. ClientOK(c)'
  BY <1>4, <1>5, <1>6, <1>7 DEF ClientOK
<1> QED
  BY <1>1, <1>2, <1>8, OtherClients

LEMMA ClientsCreate ==
  ASSUME TypeOK, ClientsOK, NEW c \in Clients, Create(c)
  PROVE  ClientsOK'
<1> DEFINE m == client[c].made
           n == m + 1
           b == client[c].to_create
           l == Len(b)
<1>0. /\ m \in Nat /\ m <= PerClient /\ PerClient \in Nat /\ b \in Seq(Jobs) /\ l \in Nat /\ l <= m
      /\ ClientOK(c) /\ ~client[c].failed
  <2>1. client[c] \in ClientType /\ PerClient \in Nat /\ ClientOK(c) /\ client[c].pc = "body"
    BY ClientAt, CreateMoves DEF ClientsOK
  <2>2. l <= m /\ ~client[c].failed
    BY <2>1 DEF ClientOK, BatchOf, OnItsWay
  <2> QED
    BY <2>1, <2>2 DEF ClientType
<1>1. /\ c \in Helpers /\ client[c].pc = "body" /\ n \in 1..PerClient
      /\ SameOthers(c) /\ UNCHANGED <<queue, budget, pushes>>
      /\ client'[c].made = n /\ client'[c].failed = client[c].failed
      /\ client'[c].to_create = Append(b, <<c, n>>)
      /\ client'[c].pc \in {"body", "flush"}
  BY CreateMoves
<1>2. \A i \in 1..l : b[i] = <<c, (m - l) + i>>
  BY <1>0 DEF ClientOK, BatchOf
<1>3. Pending(c) = ((m - l) + 1)..m
  BY <1>0 DEF Pending
<1> HIDE DEF m, b, l
<1>4. /\ Len(Append(b, <<c, n>>)) = l + 1
      /\ \A i \in 1..l : Append(b, <<c, n>>)[i] = b[i]
      /\ Append(b, <<c, n>>)[l + 1] = <<c, n>>
  BY <1>0 DEF l
<1> DEFINE a == Append(b, <<c, n>>)
<1> HIDE DEF a
<1>5. Pending(c)' = ((m - l) + 1)..n
  <2>1. Pending(c)' = (n - (l + 1) + 1)..n
    BY <1>1, <1>4 DEF Pending, a
  <2> QED
    BY <1>0, <2>1
<1>6. BatchOf(c)'
  <2>1. client'[c].to_create = a /\ client'[c].made = n /\ Len(a) = l + 1
    BY <1>1, <1>4 DEF a
  <2>2. ASSUME NEW i \in 1..(l + 1)
        PROVE  a[i] = <<c, (n - (l + 1)) + i>>
    <3>1. CASE i = l + 1
      <4>1. (n - (l + 1)) + i = n
        BY <1>0, <3>1
      <4> QED
        BY <1>4, <3>1, <4>1 DEF a
    <3>2. CASE i # l + 1
      <4>1. i \in 1..l /\ (n - (l + 1)) + i = (m - l) + i
        BY <1>0, <3>2
      <4> QED
        BY <1>2, <1>4, <4>1 DEF a
    <3> QED
      BY <3>1, <3>2
  <2>3. l + 1 <= n
    BY <1>0
  <2> HIDE DEF n
  <2> QED
    BY <2>1, <2>2, <2>3 DEF BatchOf
<1>7. OnItsWay(c)' /\ Complete(c)'
  <2>1. c \notin Callers
    BY <1>1, RedisBackendAssumption
  <2> QED
    BY <1>0, <1>1, <2>1 DEF OnItsWay, Complete
<1>8. /\ \A i \in 1..m : pushes[<<c, i>>] = IF i \in Pending(c) THEN 0 ELSE 1
      /\ \A i \in 1..PerClient : i > m => pushes[<<c, i>>] = 0
  BY <1>0, <1>1 DEF ClientOK, Sent, Unmade, m
<1>9. \A i \in 1..n : pushes[<<c, i>>] = IF i \in Pending(c)' THEN 0 ELSE 1
  <2>1. SUFFICES ASSUME NEW i \in 1..n
                 PROVE  pushes[<<c, i>>] = IF i \in ((m - l) + 1)..n THEN 0 ELSE 1
    BY <1>5
  <2>2. CASE i = n
    <3>1. i \in 1..PerClient /\ i > m /\ i \in ((m - l) + 1)..n
      BY <1>0, <1>1, <2>2
    <3> QED
      BY <1>8, <3>1
  <2>3. CASE i # n
    <3>1. i \in 1..m /\ (i \in ((m - l) + 1)..n <=> i \in ((m - l) + 1)..m)
      BY <1>0, <2>3
    <3> QED
      BY <1>3, <1>8, <3>1
  <2> QED
    BY <2>2, <2>3
<1>10. Unmade(c)'
  BY <1>0, <1>1, <1>8 DEF Unmade
<1>11. Sent(c)' /\ Together(c)'
  <2>1. Pending(c)' \subseteq 1..n
    BY <1>0, <1>5
  <2> HIDE DEF n
  <2>2. Sent(c)'
    BY <1>1, <1>9 DEF Sent
  <2>3. Together(c)'
    BY <1>1, <1>9, <2>1 DEF Together
  <2> QED
    BY <2>2, <2>3
<1>12. ClientOK(c)'
  BY <1>6, <1>7, <1>10, <1>11 DEF ClientOK
<1> QED
  BY <1>1, <1>12, OtherClients

LEMMA ClientsLeave ==
  ASSUME TypeOK, ClientsOK, NEW c \in Clients, NEW failed \in BOOLEAN, LeaveBlock(c, failed)
  PROVE  ClientsOK'
<1>0. /\ client[c] \in ClientType /\ PerClient \in Nat /\ ClientOK(c) /\ client[c].made \in 0..PerClient
  BY ClientAt DEF ClientsOK, ClientType
<1>1. /\ client[c].pc = "body" /\ ~client[c].failed
      /\ SameOthers(c) /\ UNCHANGED <<queue, budget, pushes>>
      /\ client'[c].made = client[c].made /\ client'[c].to_create = client[c].to_create
      /\ client'[c].failed = failed
      /\ \/ c \in Helpers /\ client'[c].pc = "exit" /\ (failed \/ client[c].made = PerClient)
         \/ c \notin Helpers /\ client'[c].pc = "returned" /\ client[c].made = PerClient
  BY LeaveMoves
<1>2. Pending(c)' = Pending(c)
  BY <1>1 DEF Pending
<1>3. BatchOf(c)' /\ Unmade(c)' /\ Together(c)'
  BY <1>0, <1>1, <1>2 DEF ClientOK, BatchOf, Unmade, Together
<1>4. OnItsWay(c)'
  <2>1. CASE c \in Helpers
    <3>1. c \notin Callers
      BY <2>1, RedisBackendAssumption
    <3> QED
      BY <1>1, <2>1, <3>1 DEF OnItsWay
  <2>2. CASE c \notin Helpers
    <3>1. client[c].to_create = <<>>
      BY <1>0, <2>2 DEF ClientOK, OnItsWay, Clients
    <3> QED
      BY <1>1, <2>2, <3>1 DEF OnItsWay
  <2> QED
    BY <2>1, <2>2
<1>5. Sent(c)'
  BY <1>0, <1>1, <1>2 DEF ClientOK, Sent
<1>6. Complete(c)'
  <2>1. SUFFICES ASSUME client'[c].pc = "returned"
                 PROVE  \A i \in 1..PerClient : pushes[<<c, i>>] = 1
    BY <1>1 DEF Complete
  <2>2. client[c].to_create = <<>> /\ client[c].made = PerClient
    BY <1>0, <1>1, <2>1 DEF ClientOK, OnItsWay, Clients
  <2>3. Pending(c) = {}
    BY <1>0, <2>2 DEF Pending
  <2> QED
    BY <1>0, <1>1, <2>2, <2>3 DEF ClientOK, Sent
<1>7. ClientOK(c)'
  BY <1>3, <1>4, <1>5, <1>6 DEF ClientOK
<1> QED
  BY <1>1, <1>7, OtherClients

LEMMA ClientsFlushed ==
  ASSUME TypeOK, ClientsOK, NEW c \in Clients, Flushed(c)
  PROVE  ClientsOK'
<1>0. /\ client[c] \in ClientType /\ PerClient \in Nat /\ ClientOK(c) /\ client[c].made \in 0..PerClient
  BY ClientAt DEF ClientsOK, ClientType
<1>1. /\ c \in Helpers /\ client[c].pc \in {"flush", "exit"}
      /\ SameOthers(c)
      /\ \A j \in Jobs : pushes'[j] = IF j \in ToSet(client[c].to_create) THEN pushes[j] + 1
                                                                            ELSE pushes[j]
      /\ client'[c].made = client[c].made /\ client'[c].to_create = <<>>
      /\ client'[c].failed = client[c].failed
      /\ client'[c].pc = IF client[c].pc = "flush" THEN "body"
                         ELSE IF client[c].failed THEN "raised" ELSE "returned"
  BY FlushedMoves
<1>2. \A d \in Clients, i \in 1..PerClient : <<d, i>> \in Jobs
  BY JobsArePairs
<1>3. /\ \A d \in Clients \ {c} : \A i \in 1..PerClient : pushes'[<<d, i>>] = pushes[<<d, i>>]
      /\ \A i \in 1..PerClient : pushes'[<<c, i>>] = IF i \in Pending(c) THEN pushes[<<c, i>>] + 1
                                                     ELSE pushes[<<c, i>>]
  BY <1>1, <1>2, BatchIs
<1>4. Pending(c) \subseteq 1..client[c].made /\ Pending(c)' = {}
  BY <1>0, <1>1, BatchIs DEF Pending
<1>5. BatchOf(c)' /\ Together(c)'
  <2>1. Len(<<>>) = 0 /\ Len(<<>>) <= client[c].made /\ 1..Len(<<>>) = {}
    BY <1>0
  <2> QED
    BY <1>1, <1>4, <2>1 DEF BatchOf, Together
<1>6. c \notin Callers
  BY <1>1, RedisBackendAssumption
<1>7. OnItsWay(c)'
  BY <1>0, <1>1, <1>6 DEF ClientOK, OnItsWay
<1>8. Unmade(c)'
  BY <1>0, <1>1, <1>3, <1>4 DEF ClientOK, Unmade
<1>9. ASSUME ~client[c].failed, NEW i \in 1..client[c].made
      PROVE  pushes'[<<c, i>>] = 1
  <2>1. i \in 1..PerClient
    BY <1>0
  <2>2. pushes[<<c, i>>] = IF i \in Pending(c) THEN 0 ELSE 1
    BY <1>0, <1>1, <1>9 DEF ClientOK, Sent
  <2> QED
    BY <1>3, <2>1, <2>2
<1>10. Sent(c)'
  BY <1>1, <1>4, <1>9 DEF Sent
<1>11. Complete(c)'
  <2>1. SUFFICES ASSUME client'[c].pc = "returned"
                 PROVE  \A i \in 1..PerClient : pushes'[<<c, i>>] = 1
    BY DEF Complete
  <2>2. client[c].pc = "exit" /\ ~client[c].failed
    BY <1>1, <2>1
  <2>3. client[c].made = PerClient
    BY <1>0, <2>2 DEF ClientOK, OnItsWay
  <2> QED
    BY <1>9, <2>2, <2>3
<1>12. ClientOK(c)'
  BY <1>5, <1>7, <1>8, <1>10, <1>11 DEF ClientOK
<1> QED
  BY <1>1, <1>3, <1>12, OtherClients

LEMMA ClientsFlushRaises ==
  ASSUME TypeOK, ClientsOK, NEW c \in Clients, FlushRaises(c)
  PROVE  ClientsOK'
<1>0. /\ client[c] \in ClientType /\ PerClient \in Nat /\ ClientOK(c) /\ client[c].made \in 0..PerClient
  BY ClientAt DEF ClientsOK, ClientType
<1>1. /\ c \in Helpers /\ client[c].pc \in {"flush", "exit"}
      /\ SameOthers(c) /\ SentOr(ToSet(client[c].to_create))
      /\ client'[c].made = client[c].made /\ client'[c].to_create = client[c].to_create
      /\ client'[c].failed = TRUE
      /\ client'[c].pc = IF client[c].pc = "flush" THEN "exit" ELSE "raised"
  BY FlushRaisesMoves
<1>2. \A d \in Clients, i \in 1..PerClient : <<d, i>> \in Jobs
  BY JobsArePairs
<1>3. /\ \A d \in Clients \ {c} : \A i \in 1..PerClient : pushes'[<<d, i>>] = pushes[<<d, i>>]
      /\ \/ \A i \in 1..PerClient : pushes'[<<c, i>>] = IF i \in Pending(c) THEN pushes[<<c, i>>] + 1
                                                        ELSE pushes[<<c, i>>]
         \/ UNCHANGED pushes
  BY <1>1, <1>2, BatchIs DEF SentOr
<1>4. Pending(c) \subseteq 1..client[c].made /\ Pending(c)' = Pending(c)
  BY <1>0, <1>1, BatchIs DEF Pending
<1>5. BatchOf(c)'
  BY <1>0, <1>1 DEF ClientOK, BatchOf
<1>6. Together(c)'
  <2>1. \A i \in Pending(c) : i \in 1..PerClient
    BY <1>0, <1>4
  <2> QED
    BY <1>0, <1>3, <1>4, <2>1 DEF ClientOK, Together
<1>7. OnItsWay(c)'
  <2>1. c \notin Callers
    BY <1>1, RedisBackendAssumption
  <2> QED
    BY <1>1, <2>1 DEF OnItsWay
<1>8. Unmade(c)'
  BY <1>0, <1>1, <1>3, <1>4 DEF ClientOK, Unmade
<1>9. Sent(c)' /\ Complete(c)'
  BY <1>1 DEF Sent, Complete
<1>10. ClientOK(c)'
  BY <1>5, <1>6, <1>7, <1>8, <1>9 DEF ClientOK
<1> QED
  BY <1>1, <1>3, <1>10, OtherClients

-----------------------------------------------------------------------------
(* Taking the last entry of the queue. *)
LEMMA LastOut ==
  ASSUME TypeOK, queue # <<>>
  PROVE  /\ Front(queue) \in Seq(Jobs) /\ Last(queue) \in Jobs /\ Len(queue) \in Nat \ {0}
         /\ Len(Front(queue)) = Len(queue) - 1
         /\ \A i \in 1..(Len(queue) - 1) : Front(queue)[i] = queue[i]
         /\ Last(queue) = queue[Len(queue)]
<1>1. queue \in Seq(Jobs) /\ Len(queue) \in Nat
  BY DEF TypeOK
<1>2. Last(queue) \in Jobs
  BY <1>1, TailOfList
<1> QED
  BY <1>1, <1>2, FrontOf

(* The steps of one client keep the types and what is known of all clients. *)
LEMMA ClientTypeStep ==
  ASSUME Typed, ClientsOK, NEW c \in Clients, ClientStep(c)
  PROVE  Typed' /\ ClientsOK'
<1> USE DEF Typed
<1>1. CASE Call(c)
  <2>1. SameOthers(c) /\ \E S : SentOr(S)
    BY <1>1, CallMoves
  <2>2. UNCHANGED <<paused, worker, starts>>
    BY <1>1 DEF Call
  <2> QED
    BY <1>1, <2>1, <2>2, ClientsCall DEF TypeOK, SameOthers, SentOr, ClientType
<1>2. CASE Create(c)
  <2>1. SameOthers(c)
    BY <1>2, CreateMoves
  <2>2. UNCHANGED <<queue, paused, worker, budget, pushes, starts>>
    BY <1>2 DEF Create
  <2> QED
    BY <1>2, <2>1, <2>2, ClientsCreate DEF TypeOK, SameOthers, ClientType
<1>3. CASE Flushed(c)
  <2>1. SameOthers(c) /\ pushes' \in [Jobs -> Nat] /\ queue' \in Seq(Jobs) /\ budget' \in 0..Budget
    BY <1>3, FlushedMoves
  <2>2. UNCHANGED <<paused, worker, starts>>
    BY <1>3 DEF Flushed
  <2> QED
    BY <1>3, <2>1, <2>2, ClientsFlushed DEF TypeOK, SameOthers, ClientType
<1>4. CASE FlushRaises(c)
  <2>1. SameOthers(c) /\ \E S : SentOr(S)
    BY <1>4, FlushRaisesMoves
  <2>2. UNCHANGED <<paused, worker, starts>>
    BY <1>4 DEF FlushRaises
  <2> QED
    BY <1>4, <2>1, <2>2, ClientsFlushRaises DEF TypeOK, SameOthers, SentOr, ClientType
<1>5. ASSUME NEW failed \in BOOLEAN, LeaveBlock(c, failed)
      PROVE  Typed' /\ ClientsOK'
  <2>1. SameOthers(c)
    BY <1>5, LeaveMoves
  <2>2. UNCHANGED <<queue, paused, worker, budget, pushes, starts>>
    BY <1>5 DEF LeaveBlock
  <2> QED
    BY <1>5, <2>1, <2>2, ClientsLeave DEF TypeOK, SameOthers, ClientType
<1> QED
  BY <1>1, <1>2, <1>3, <1>4, <1>5 DEF ClientStep

(* A step that is not a client's leaves the clients and the counts alone. *)
LEMMA ClientsStay ==
  ASSUME ClientsOK, UNCHANGED <<client, pushes>>
  PROVE  ClientsOK'
<1>1. ASSUME NEW c \in Clients
      PROVE  ClientOK(c)'
  <2>1. ClientOK(c) /\ client' = client /\ pushes' = pushes
    BY DEF ClientsOK
  <2>2. Pending(c)' = Pending(c)
    BY <2>1 DEF Pending
  <2>3. BatchOf(c)' /\ OnItsWay(c)' /\ Unmade(c)' /\ Complete(c)'
    BY <2>1 DEF ClientOK, BatchOf, OnItsWay, Unmade, Complete
  <2>4. Sent(c)' /\ Together(c)'
    BY <2>1, <2>2 DEF ClientOK, Sent, Together
  <2> QED
    BY <2>3, <2>4 DEF ClientOK
<1> QED
  BY <1>1 DEF ClientsOK

(* The steps of a worker process. *)
LEMMA WorkerTypeStep ==
  ASSUME Typed, NEW p \in Procs, WorkerStep(p) \/ PopLost(p) \/ Die(p)
  PROVE  Typed' /\ UNCHANGED <<client, pushes>>
<1> DEFINE Moved(r) == worker' = [worker EXCEPT ![p] = r]
<1>0. \A pc \in {"down", "idle", "checked"} : Moved(Idle(pc)) =>
         /\ DOMAIN worker' = Procs
         /\ \A q \in Procs :
              \/ worker'[q] \in {Idle("down"), Idle("idle"), Idle("checked")}
              \/ worker'[q].pc = "running" /\ worker'[q].job \in Jobs
  BY TypedWorker
<1>1. CASE Spawn(p) \/ CheckPause(p) \/ PopTimeout(p) \/ Finish(p)
  <2>1. /\ \E pc \in {"down", "idle", "checked"} : Moved(Idle(pc))
        /\ UNCHANGED <<queue, paused, client, budget, pushes, starts>>
    BY <1>1 DEF Spawn, CheckPause, PopTimeout, Finish
  <2> QED
    BY <1>0, <2>1 DEF Typed, TypeOK
<1>2. CASE Die(p)
  <2>1. /\ Moved(Idle("down")) /\ Spend("crash")
        /\ UNCHANGED <<queue, paused, client, pushes, starts>>
    BY <1>2 DEF Die
  <2>2. budget' \in 0..Budget
    BY <2>1, SpendType DEF Typed
  <2> QED
    BY <1>0, <2>1, <2>2 DEF Typed, TypeOK
<1>3. CASE PopLost(p)
  <2>1. /\ Moved(Idle("down")) /\ Spend("lost_pop") /\ queue # <<>> /\ queue' = Front(queue)
        /\ UNCHANGED <<paused, client, pushes, starts>>
    BY <1>3 DEF PopLost
  <2>2. budget' \in 0..Budget /\ queue' \in Seq(Jobs)
    BY <2>1, SpendType, LastOut DEF Typed
  <2> QED
    BY <1>0, <2>1, <2>2 DEF Typed, TypeOK
<1>4. CASE Pop(p)
  <2> DEFINE r == [pc |-> "running", job |-> Last(queue)]
  <2>1. /\ Moved(r) /\ queue # <<>> /\ queue' = Front(queue)
        /\ starts' = [starts EXCEPT ![Last(queue)] = @ + 1]
        /\ UNCHANGED <<paused, client, budget, pushes>>
    BY <1>4 DEF Pop
  <2>2. queue' \in Seq(Jobs) /\ Last(queue) \in Jobs
    BY <2>1, LastOut DEF Typed
  <2>3. r.pc = "running" /\ r.job \in Jobs
    BY <2>2
  <2> HIDE DEF r
  <2>4. /\ DOMAIN worker' = Procs
        /\ \A q \in Procs :
              \/ worker'[q] \in {Idle("down"), Idle("idle"), Idle("checked")}
              \/ worker'[q].pc = "running" /\ worker'[q].job \in Jobs
    BY <2>1, <2>3, TypedWorker
  <2>5. starts' \in [Jobs -> Nat]
    BY <2>1, <2>2 DEF Typed, TypeOK
  <2> QED
    BY <2>1, <2>2, <2>4, <2>5 DEF Typed, TypeOK
<1> QED
  BY <1>1, <1>2, <1>3, <1>4 DEF WorkerStep

(* The strengthened invariant holds at first, and every step keeps it. *)
LEMMA BulkInit == Init => Typed /\ ClientsOK
<1> SUFFICES ASSUME Init
             PROVE  Typed /\ ClientsOK
  OBVIOUS
<1> DEFINE r == [pc |-> "body", made |-> 0, failed |-> FALSE, to_create |-> <<>>]
<1>1. PerClient \in Nat /\ Budget \in Nat
  BY RedisBackendAssumption
<1>2. r \in ClientType
  BY <1>1 DEF ClientType, ClientPCs
<1>3. client \in [Clients -> ClientType] /\ \A c \in Clients : client[c] = r
  BY <1>2 DEF Init
<1>4. Typed
  <2>1. queue \in Seq(Jobs) /\ budget \in 0..Budget
    BY <1>1 DEF Init
  <2>4. paused \in BOOLEAN
    BY Zenon DEF Init
  <2>2. DOMAIN worker = Procs /\ \A p \in Procs : worker[p] = Idle("down")
    BY DEF Init
  <2>3. pushes \in [Jobs -> Nat] /\ starts \in [Jobs -> Nat]
    BY DEF Init
  <2> QED
    BY <1>3, <2>1, <2>2, <2>3, <2>4 DEF Typed, TypeOK, ClientType
<1>5. ASSUME NEW c \in Clients
      PROVE  ClientOK(c)
  <2>1. /\ client[c].pc = "body" /\ client[c].made = 0 /\ ~client[c].failed
        /\ client[c].to_create = <<>> /\ Len(<<>>) = 0
    BY <1>3
  <2>2. Pending(c) = {} /\ 1..0 = {}
    BY <2>1 DEF Pending
  <2>3. BatchOf(c) /\ OnItsWay(c)
    BY <2>1, <2>2 DEF BatchOf, OnItsWay
  <2>4. Unmade(c)
    BY JobsArePairs DEF Init, Unmade
  <2>5. Sent(c) /\ Together(c) /\ Complete(c)
    BY <2>1, <2>2 DEF Sent, Together, Complete
  <2> QED
    BY <2>3, <2>4, <2>5 DEF ClientOK
<1> QED
  BY <1>4, <1>5 DEF ClientsOK

LEMMA BulkStep == Typed /\ ClientsOK /\ [Next]_vars => Typed' /\ ClientsOK'
<1> SUFFICES ASSUME Typed, ClientsOK, [Next]_vars
             PROVE  Typed' /\ ClientsOK'
  OBVIOUS
<1>1. ASSUME NEW c \in Clients, ClientStep(c)
      PROVE  Typed' /\ ClientsOK'
  BY <1>1, ClientTypeStep
<1>2. ASSUME NEW p \in Procs, WorkerStep(p) \/ PopLost(p) \/ Die(p)
      PROVE  Typed' /\ ClientsOK'
  BY <1>2, WorkerTypeStep, ClientsStay
<1>3. CASE Clear
  <2>1. budget' \in 0..Budget
    BY <1>3, SpendType DEF Clear, Typed
  <2>2. queue' = <<>> /\ UNCHANGED <<paused, client, worker, pushes, starts>>
    BY <1>3 DEF Clear
  <2> QED
    BY <2>1, <2>2, ClientsStay DEF Typed, TypeOK
<1>4. CASE Pause
  <2>1. budget' \in 0..Budget
    BY <1>4, SpendType DEF Pause, Typed
  <2>2. paused' = TRUE /\ UNCHANGED <<queue, client, worker, pushes, starts>>
    BY <1>4 DEF Pause
  <2> QED
    BY <2>1, <2>2, ClientsStay DEF Typed, TypeOK
<1>5. CASE Unpause
  BY <1>5, ClientsStay DEF Unpause, Typed, TypeOK
<1>6. CASE UNCHANGED vars
  <2>1. UNCHANGED <<queue, paused, client, worker, budget, pushes, starts>>
    BY <1>6 DEF vars
  <2> QED
    BY <2>1, ClientsStay DEF Typed, TypeOK
<1> QED
  BY <1>1, <1>2, <1>3, <1>4, <1>5, <1>6 DEF Next

LEMMA BulkInvariant == Spec => [](Typed /\ ClientsOK)
<1>1. Init => Typed /\ ClientsOK
  BY BulkInit
<1>2. (Typed /\ ClientsOK) /\ [Next]_vars => (Typed /\ ClientsOK)'
  BY BulkStep
<1> QED
  BY <1>1, <1>2, PTL DEF Spec

(* The queue, the clients and the workers keep their types. *)
THEOREM RedisBackendTypeCorrect == Spec => []TypeOK
<1>1. Typed /\ ClientsOK => TypeOK
  BY DEF Typed
<1> QED
  BY <1>1, BulkInvariant, PTL

(* task.py:199-205: when the block of bulk_enqueue returns normally, or the *)
(* last of a client's calls, every job was pushed, and only once.           *)
THEOREM BulkPushesEachOnce == Spec => []BulkIsEquivalent
<1>1. Typed /\ ClientsOK => BulkIsEquivalent
  BY DEF ClientsOK, ClientOK, Complete, BulkIsEquivalent
<1> QED
  BY <1>1, BulkInvariant, PTL

-----------------------------------------------------------------------------
(* The order of the queue. *)

(* What is in the queue was pushed. *)
QueuePushed == \A i \in DOMAIN queue : pushes[queue[i]] > 0

(* Nearer to the tail is older, except after a push that was repeated. *)
QueueInOrder ==
  \A a, b \in DOMAIN queue :
    a < b /\ queue[a][1] = queue[b][1] /\ queue[a][2] < queue[b][2] => pushes[queue[a]] > 1

(* Pushing jobs of one client in its order keeps both, when whatever the    *)
(* client has pushed after a job of the batch, it has pushed after that job. *)
LEMMA OrderPush ==
  ASSUME TypeOK, QueuePushed, QueueInOrder, NEW c \in Clients, NEW batch \in Seq(Jobs),
         NEW base \in Nat, \A i \in 1..Len(batch) : batch[i] = <<c, base + i>>,
         \A i \in 1..Len(batch), k \in 1..PerClient :
           k > base + i /\ pushes[<<c, k>>] > 0 => pushes[batch[i]] > 0,
         Push(batch)
  PROVE  QueuePushed' /\ QueueInOrder'
<1> DEFINE r == Reverse(batch)
           n == Len(batch)
           m == Len(queue)
<1>1. /\ r \in Seq(Jobs) /\ Len(r) = n /\ n \in Nat /\ m \in Nat /\ queue \in Seq(Jobs)
      /\ \A i \in 1..n : (n - i) + 1 \in 1..n /\ r[i] = batch[(n - i) + 1]
  BY ReverseAt DEF TypeOK
<1>2. /\ \A j \in Jobs : pushes[j] \in Nat
      /\ \A j \in Jobs : pushes'[j] = IF j \in ToSet(batch) THEN pushes[j] + 1 ELSE pushes[j]
  BY PushCounts DEF TypeOK
<1>3. queue' = r \o queue
  BY DEF Push
<1>4. \A i \in 1..n : batch[i] \in Jobs /\ batch[i] \in ToSet(batch)
  BY InToSet
<1> HIDE DEF r, n, m
<1>5. /\ DOMAIN queue' = 1..(n + m)
      /\ \A i \in 1..(n + m) : queue'[i] = IF i <= n THEN r[i] ELSE queue[i - n]
  <2>1. /\ r \o queue \in Seq(Jobs) /\ Len(r \o queue) = Len(r) + Len(queue)
        /\ \A i \in 1..(Len(r) + Len(queue)) :
             (r \o queue)[i] = IF i <= Len(r) THEN r[i] ELSE queue[i - Len(r)]
    <3>1. r \in Seq(Jobs) /\ queue \in Seq(Jobs)
      BY <1>1
    <3> QED
      BY <3>1, ConcatAt, Zenon
  <2>2. Len(r) = n /\ Len(queue) = m
    BY <1>1 DEF m
  <2> QED
    BY <1>3, <2>1, <2>2
<1>6. \A i \in 1..n : pushes'[r[i]] = pushes[r[i]] + 1 /\ r[i] \in Jobs
  <2>1. \A i \in 1..n : batch[i] \in Jobs /\ pushes'[batch[i]] = pushes[batch[i]] + 1
    BY <1>2, <1>4 DEF n
  <2> QED
    BY <1>1, <2>1
<1>7. \A i \in 1..m : /\ queue[i] \in Jobs /\ pushes[queue[i]] > 0 /\ pushes[queue[i]] \in Nat
                      /\ pushes'[queue[i]] >= pushes[queue[i]] /\ pushes'[queue[i]] \in Nat
  <2>1. \A i \in 1..m : queue[i] \in Jobs /\ pushes[queue[i]] > 0
    BY <1>1 DEF QueuePushed, m
  <2> QED
    BY <1>2, <2>1
<1>8. QueuePushed'
  <2>1. ASSUME NEW i \in 1..(n + m)
        PROVE  pushes'[queue'[i]] > 0
    <3>1. CASE i <= n
      <4>1. i \in 1..n /\ queue'[i] = r[i]
        BY <1>1, <1>5, <3>1
      <4>2. pushes[r[i]] \in Nat
        BY <1>2, <1>6, <4>1
      <4> QED
        BY <1>6, <4>1, <4>2
    <3>2. CASE ~ (i <= n)
      <4>1. i - n \in 1..m /\ queue'[i] = queue[i - n]
        BY <1>1, <1>5, <3>2
      <4> QED
        BY <1>7, <4>1
    <3> QED
      BY <3>1, <3>2
  <2> QED
    BY <1>5, <2>1 DEF QueuePushed
<1>9. ASSUME NEW a \in 1..(n + m), NEW b \in 1..(n + m), a < b,
             queue'[a][1] = queue'[b][1], queue'[a][2] < queue'[b][2]
      PROVE  pushes'[queue'[a]] > 1
  <2>1. CASE b <= n
    <3>1. a \in 1..n /\ b \in 1..n /\ queue'[a] = r[a] /\ queue'[b] = r[b]
      BY <1>1, <1>5, <1>9, <2>1
    <3>2. queue'[a] = <<c, base + ((n - a) + 1)>> /\ queue'[b] = <<c, base + ((n - b) + 1)>>
      BY <1>1, <3>1 DEF n
    <3>3. base + ((n - a) + 1) > base + ((n - b) + 1)
      BY <1>1, <1>9
    <3> QED
      BY <1>1, <1>9, <3>2, <3>3
  <2>2. CASE ~ (a <= n)
    <3>1. /\ a - n \in 1..m /\ b - n \in 1..m /\ a - n < b - n
          /\ queue'[a] = queue[a - n] /\ queue'[b] = queue[b - n]
      BY <1>1, <1>5, <1>9, <2>2
    <3>2. pushes[queue[a - n]] > 1
      <4>1. \A x, y \in 1..m :
              x < y /\ queue[x][1] = queue[y][1] /\ queue[x][2] < queue[y][2] => pushes[queue[x]] > 1
        <5>1. DOMAIN queue = 1..m
          BY <1>1 DEF m
        <5> QED
          BY <5>1 DEF QueueInOrder
      <4>2. queue[a - n][1] = queue[b - n][1] /\ queue[a - n][2] < queue[b - n][2]
        BY <1>9, <3>1
      <4> QED
        BY <3>1, <4>1, <4>2
    <3> QED
      BY <1>7, <3>1, <3>2
  <2>3. CASE a <= n /\ ~ (b <= n)
    <3>1. /\ a \in 1..n /\ b - n \in 1..m
          /\ queue'[a] = r[a] /\ queue'[b] = queue[b - n]
      BY <1>1, <1>5, <1>9, <2>3
    <3> DEFINE i == (n - a) + 1
    <3>2. i \in 1..n /\ queue'[a] = batch[i] /\ batch[i] = <<c, base + i>>
      BY <1>1, <3>1 DEF n
    <3> HIDE DEF i
    <3>3. PICK k \in 1..PerClient : queue[b - n] = <<c, k>>
      <4>1. queue[b - n] \in Jobs
        BY <1>7, <3>1
      <4>2. queue[b - n][1] = c
        BY <1>9, <3>1, <3>2
      <4>3. queue[b - n] = <<queue[b - n][1], queue[b - n][2]>> /\ queue[b - n][2] \in 1..PerClient
        BY <4>1 DEF Jobs
      <4> QED
        BY <4>2, <4>3
    <3>4. k > base + i
      <4>1. queue'[a][2] = base + i /\ queue'[b][2] = k
        BY <3>1, <3>2, <3>3
      <4>2. base + i < k
        BY <1>9, <4>1
      <4> QED
        BY <3>2, <4>2, RedisBackendAssumption
    <3>5. pushes[batch[i]] > 0
      BY <1>7, <3>1, <3>2, <3>3, <3>4 DEF n
    <3>6. pushes[batch[i]] \in Nat /\ pushes'[batch[i]] = pushes[batch[i]] + 1
      BY <1>2, <1>4, <3>2 DEF n
    <3>7. pushes'[batch[i]] > 1
      BY <3>5, <3>6
    <3> QED
      BY <3>2, <3>7
  <2> QED
    BY <2>1, <2>2, <2>3
<1>10. QueueInOrder'
  BY <1>5, <1>9 DEF QueueInOrder
<1> QED
  BY <1>8, <1>10

(* So does taking the oldest entry. *)
LEMMA OrderPop ==
  ASSUME TypeOK, QueuePushed, QueueInOrder, queue # <<>>, queue' = Front(queue), UNCHANGED pushes
  PROVE  QueuePushed' /\ QueueInOrder'
<1>1. /\ Front(queue) \in Seq(Jobs) /\ Len(Front(queue)) = Len(queue) - 1 /\ Len(queue) \in Nat \ {0}
      /\ \A i \in 1..(Len(queue) - 1) : Front(queue)[i] = queue[i]
  BY LastOut
<1>2. DOMAIN queue' = 1..(Len(queue) - 1) /\ DOMAIN queue = 1..Len(queue)
  BY <1>1 DEF TypeOK
<1>3. \A i \in DOMAIN queue' : i \in DOMAIN queue /\ queue'[i] = queue[i]
  BY <1>1, <1>2
<1>4. QueuePushed'
  BY <1>3 DEF QueuePushed
<1>5. QueueInOrder'
  BY <1>3 DEF QueueInOrder
<1> QED
  BY <1>4, <1>5

Ordered == QueuePushed /\ QueueInOrder

(* The batch of a client is such a batch. *)
LEMMA OrderClient ==
  ASSUME Typed, ClientsOK, Ordered, NEW c \in Clients, ClientStep(c)
  PROVE  Ordered'
<1>0. TypeOK /\ ClientOK(c) /\ QueuePushed /\ QueueInOrder
  BY DEF Typed, ClientsOK, Ordered
<1>1. ASSUME UNCHANGED <<queue, pushes>>
      PROVE  Ordered'
  BY <1>0, <1>1 DEF Ordered, QueuePushed, QueueInOrder
<1>2. /\ client[c].made \in Nat /\ client[c].made <= PerClient /\ PerClient \in Nat
      /\ \A i \in 1..PerClient : i > client[c].made => pushes[<<c, i>>] = 0
  BY <1>0, ClientAt DEF ClientType, ClientOK, Unmade
<1>3. ASSUME Call(c)
      PROVE  Ordered'
  <2> DEFINE n == client[c].made + 1
             batch == << <<c, n>> >>
  <2>1. n \in 1..PerClient /\ (Push(batch) \/ UNCHANGED <<pushes, queue>>)
    BY <1>0, <1>3, CallMoves
  <2>2. batch \in Seq(Jobs) /\ Len(batch) = 1 /\ batch[1] = <<c, client[c].made + 1>>
    BY <2>1, JobsArePairs
  <2>3. ASSUME NEW i \in 1..Len(batch), NEW k \in 1..PerClient, k > client[c].made + i, pushes[<<c, k>>] > 0
        PROVE  FALSE
    <3>1. i = 1 /\ k > client[c].made
      BY <1>2, <2>2, <2>3
    <3> QED
      BY <1>2, <2>3, <3>1
  <2>4. \A i \in 1..Len(batch) : batch[i] = <<c, client[c].made + i>>
    BY <2>2
  <2> HIDE DEF batch
  <2>5. ASSUME Push(batch)
        PROVE  Ordered'
    BY <1>0, <1>2, <2>2, <2>3, <2>4, <2>5, OrderPush DEF Ordered
  <2> QED
    BY <1>1, <2>1, <2>5
<1>4. ASSUME Push(client[c].to_create)
      PROVE  Ordered'
  <2> DEFINE batch == client[c].to_create
             base == client[c].made - Len(batch)
  <2>1. /\ batch \in Seq(Jobs) /\ Len(batch) \in Nat /\ Len(batch) <= client[c].made
        /\ \A i \in 1..Len(batch) : batch[i] = <<c, base + i>>
        /\ Pending(c) = (base + 1)..client[c].made
        /\ \A i, k \in Pending(c) : pushes[<<c, i>>] = pushes[<<c, k>>]
    BY <1>0, ClientAt DEF ClientType, ClientOK, BatchOf, Together, Pending
  <2> HIDE DEF batch
  <2>2. base \in Nat /\ base + Len(batch) = client[c].made
    BY <1>2, <2>1
  <2> HIDE DEF base
  <2>3. ASSUME NEW i \in 1..Len(batch), NEW k \in 1..PerClient, k > base + i, pushes[<<c, k>>] > 0
        PROVE  pushes[batch[i]] > 0
    <3>1. k <= client[c].made
      BY <1>2, <2>3
    <3>2. k \in Pending(c) /\ base + i \in Pending(c)
      BY <1>2, <2>1, <2>2, <2>3, <3>1
    <3>3. pushes[<<c, base + i>>] = pushes[<<c, k>>]
      BY <2>1, <3>2
    <3> QED
      BY <2>1, <2>3, <3>3
  <2>4. Push(batch)
    BY <1>4 DEF batch
  <2> QED
    BY <1>0, <2>1, <2>2, <2>3, <2>4, OrderPush DEF Ordered
<1>5. CASE Create(c)
  BY <1>1, <1>5 DEF Create
<1>6. CASE Flushed(c)
  BY <1>0, <1>1, <1>4, <1>6, FlushedMoves
<1>7. CASE FlushRaises(c)
  BY <1>0, <1>1, <1>4, <1>7, FlushRaisesMoves
<1>8. CASE \E failed \in BOOLEAN : LeaveBlock(c, failed)
  BY <1>1, <1>8 DEF LeaveBlock
<1> QED
  BY <1>3, <1>5, <1>6, <1>7, <1>8 DEF ClientStep

LEMMA OrderStep == Typed /\ ClientsOK /\ Ordered /\ [Next]_vars => Ordered'
<1> SUFFICES ASSUME Typed, ClientsOK, Ordered, [Next]_vars
             PROVE  Ordered'
  OBVIOUS
<1>1. ASSUME UNCHANGED <<queue, pushes>>
      PROVE  Ordered'
  BY <1>1 DEF Ordered, QueuePushed, QueueInOrder
<1>2. ASSUME NEW c \in Clients, ClientStep(c)
      PROVE  Ordered'
  BY <1>2, OrderClient
<1>3. ASSUME NEW p \in Procs, WorkerStep(p) \/ PopLost(p) \/ Die(p)
      PROVE  Ordered'
  <2>1. CASE Pop(p) \/ PopLost(p)
    <3>1. queue # <<>> /\ queue' = Front(queue) /\ UNCHANGED pushes
      BY <2>1 DEF Pop, PopLost
    <3> QED
      BY <3>1, OrderPop DEF Ordered, Typed
  <2>2. CASE Spawn(p) \/ CheckPause(p) \/ PopTimeout(p) \/ Finish(p) \/ Die(p)
    <3>1. UNCHANGED <<queue, pushes>>
      BY <2>2 DEF Spawn, CheckPause, PopTimeout, Finish, Die
    <3> QED
      BY <1>1, <3>1
  <2> QED
    BY <1>3, <2>1, <2>2 DEF WorkerStep
<1>4. CASE Clear
  <2>1. queue' = <<>>
    BY <1>4 DEF Clear
  <2> QED
    BY <2>1 DEF Ordered, QueuePushed, QueueInOrder
<1>5. CASE Pause \/ Unpause
  BY <1>1, <1>5 DEF Pause, Unpause
<1>6. CASE UNCHANGED vars
  BY <1>1, <1>6 DEF vars
<1> QED
  BY <1>2, <1>3, <1>4, <1>5, <1>6 DEF Next

LEMMA OrderInvariant == Spec => [](Typed /\ ClientsOK /\ Ordered)
<1>1. Init => Ordered
  BY DEF Init, Ordered, QueuePushed, QueueInOrder
<1> QED
  BY <1>1, BulkInvariant, OrderStep, PTL DEF Spec

(* Only a pop starts a job, the last of the queue. *)
LEMMA StartsLast ==
  ASSUME Typed, [Next]_vars, NEW j \in Jobs, starts'[j] > starts[j]
  PROVE  \E p \in Procs : Pop(p) /\ j = Last(queue)
<1>0. starts[j] \in Nat
  BY DEF Typed, TypeOK
<1>1. ASSUME UNCHANGED starts
      PROVE  FALSE
  BY <1>0, <1>1
<1>2. ASSUME NEW c \in Clients, ClientStep(c)
      PROVE  FALSE
  <2>1. UNCHANGED starts
    BY <1>2 DEF ClientStep, Call, Create, LeaveBlock, Flushed, FlushRaises
  <2> QED
    BY <1>1, <2>1
<1>3. ASSUME NEW p \in Procs, WorkerStep(p) \/ PopLost(p) \/ Die(p)
      PROVE  Pop(p) /\ j = Last(queue)
  <2>1. CASE Pop(p)
    <3>1. starts' = [starts EXCEPT ![Last(queue)] = @ + 1]
      BY <2>1 DEF Pop
    <3>2. j # Last(queue) => starts'[j] = starts[j]
      BY <3>1 DEF Typed, TypeOK
    <3> QED
      BY <1>0, <2>1, <3>2
  <2>2. CASE Spawn(p) \/ CheckPause(p) \/ PopTimeout(p) \/ Finish(p) \/ Die(p) \/ PopLost(p)
    <3>1. UNCHANGED starts
      BY <2>2 DEF Spawn, CheckPause, PopTimeout, Finish, Die, PopLost
    <3> QED
      BY <1>1, <3>1
  <2> QED
    BY <1>3, <2>1, <2>2 DEF WorkerStep
<1>4. CASE Clear \/ Pause \/ Unpause
  BY <1>1, <1>4 DEF Clear, Pause, Unpause
<1>5. CASE UNCHANGED vars
  BY <1>1, <1>5 DEF vars
<1> QED
  BY <1>2, <1>3, <1>4, <1>5 DEF Next

(* A job that is started leaves no older job of its client in the queue,    *)
(* unless that one was pushed again after a lost reply.                     *)
THEOREM StartsFollowTheClient == Spec => StartedInOrder
<1> DEFINE Now == \A j \in Jobs : starts'[j] > starts[j] =>
                    \A i \in 1..(j[2] - 1) :
                      <<j[1], i>> \in ToSet(queue') => pushes[<<j[1], i>>] > 1
<1>1. ASSUME Typed, Ordered, [Next]_vars
      PROVE  Now
  <2>1. SUFFICES ASSUME NEW j \in Jobs, starts'[j] > starts[j], NEW i \in 1..(j[2] - 1),
                        <<j[1], i>> \in ToSet(queue')
                 PROVE  pushes[<<j[1], i>>] > 1
    OBVIOUS
  <2>2. queue # <<>> /\ queue' = Front(queue) /\ j = Last(queue)
    BY <1>1, <2>1, StartsLast DEF Pop
  <2>3. /\ Front(queue) \in Seq(Jobs) /\ Len(Front(queue)) = Len(queue) - 1 /\ Len(queue) \in Nat \ {0}
        /\ \A k \in 1..(Len(queue) - 1) : Front(queue)[k] = queue[k]
        /\ j = queue[Len(queue)] /\ queue \in Seq(Jobs)
    BY <1>1, <2>2, LastOut DEF Typed, TypeOK
  <2>4. PICK k \in 1..(Len(queue) - 1) : queue[k] = <<j[1], i>>
    <3>1. \E k \in 1..Len(Front(queue)) : Front(queue)[k] = <<j[1], i>>
      BY <2>1, <2>2, <2>3, InToSet
    <3> QED
      BY <2>3, <3>1
  <2>5. /\ k \in DOMAIN queue /\ Len(queue) \in DOMAIN queue /\ k < Len(queue)
        /\ queue[k][1] = j[1] /\ queue[k][2] = i
    BY <2>3, <2>4
  <2>6. i < j[2]
    BY <2>1 DEF Jobs
  <2> QED
    BY <1>1, <2>3, <2>4, <2>5, <2>6 DEF Ordered, QueueInOrder
<1>2. Typed /\ Ordered /\ [Next]_vars => [Now]_vars
  BY <1>1
<1> QED
  BY <1>2, OrderInvariant, PTL DEF Spec, StartedInOrder

-----------------------------------------------------------------------------
(* The promise: at most once. *)
Waiting == [j \in Jobs |-> Copies(j)]

LEMMA CopiesOf ==
  ASSUME TypeOK, NEW j \in Jobs
  PROVE  /\ Copies(j) = Cardinality(Positions(queue, j)) /\ Copies(j) \in Nat
         /\ Waiting[j] = Copies(j) /\ Copies(j)' = Cardinality(Positions(queue', j))
         /\ Waiting'[j] = Copies(j)'
<1>1. queue \in Seq(Jobs)
  BY DEF TypeOK
<1>2. Copies(j) = Cardinality(Positions(queue, j)) /\ Copies(j)' = Cardinality(Positions(queue', j))
  BY DEF Copies, Positions
<1> QED
  BY <1>1, <1>2, PositionsFinite DEF Waiting

(* A push without repetitions adds an entry for each of its jobs. *)
LEMMA PushEnqueues ==
  ASSUME TypeOK, NEW batch \in Seq(Jobs), Distinct(batch), Push(batch), UNCHANGED starts
  PROVE  Promise!Next
<1>1. /\ Reverse(batch) \in Seq(Jobs) /\ Distinct(Reverse(batch)) /\ queue \in Seq(Jobs)
      /\ ToSet(Reverse(batch)) = ToSet(batch) /\ ToSet(batch) \subseteq Jobs
  BY ReverseKeeps, ReverseDistinct, InToSet DEF TypeOK
<1>2. ASSUME NEW j \in Jobs
      PROVE  Copies(j)' = Copies(j) + IF j \in ToSet(batch) THEN 1 ELSE 0
  <2> DEFINE r == Reverse(batch)
             b == IF j \in ToSet(batch) THEN 1 ELSE 0
  <2>1. queue' = r \o queue
    BY DEF Push
  <2>2. Cardinality(Positions(r, j)) = b
    BY <1>1, CountDistinct
  <2> HIDE DEF r
  <2>3. r \in Seq(Jobs) /\ queue \in Seq(Jobs)
    BY <1>1 DEF r
  <2>4. Cardinality(Positions(r \o queue, j)) = Cardinality(Positions(r, j)) + Cardinality(Positions(queue, j))
    BY <2>3, CountConcat
  <2>5. Copies(j)' = b + Copies(j)
    BY <2>1, <2>2, <2>4, CopiesOf
  <2> QED
    BY <2>5, CopiesOf
<1>3. Waiting' = Promise!OneMore(Waiting, ToSet(batch))
  <2>1. \A j \in Jobs : Waiting[j] = Copies(j)
    BY DEF Waiting
  <2>2. Waiting' = [j \in Jobs |-> Copies(j)']
    BY DEF Waiting
  <2> QED
    BY <1>2, <2>1, <2>2 DEF Promise!OneMore
<1>4. pushes' = Promise!OneMore(pushes, ToSet(batch))
  BY DEF Push, Promise!OneMore
<1>5. Promise!Enqueue(ToSet(batch))
  BY <1>3, <1>4 DEF Promise!Enqueue, Waiting
<1> QED
  BY <1>1, <1>5 DEF Promise!Next

(* What a client pushes has no repetition. *)
LEMMA BatchDistinct ==
  ASSUME TypeOK, ClientsOK, NEW c \in Clients
  PROVE  client[c].to_create \in Seq(Jobs) /\ Distinct(client[c].to_create)
<1> DEFINE b == client[c].to_create
           base == client[c].made - Len(b)
<1>1. b \in Seq(Jobs) /\ Len(b) \in Nat /\ client[c].made \in Nat /\ Len(b) <= client[c].made
      /\ \A i \in 1..Len(b) : b[i] = <<c, base + i>>
  BY ClientAt, RedisBackendAssumption DEF ClientType, ClientsOK, ClientOK, BatchOf
<1>2. base \in Nat /\ DOMAIN b = 1..Len(b)
  BY <1>1
<1> HIDE DEF b, base
<1>3. ASSUME NEW i \in DOMAIN b, NEW k \in DOMAIN b, b[i] = b[k]
      PROVE  i = k
  <2>1. base + i = base + k
    BY <1>1, <1>2, <1>3
  <2> QED
    BY <1>2, <2>1
<1> QED
  BY <1>1, <1>3 DEF Distinct, b

LEMMA PromiseStays ==
  ASSUME UNCHANGED <<queue, pushes, starts>>
  PROVE  UNCHANGED Promise!vars
<1>1. \A j \in Jobs : Copies(j)' = Copies(j)
  BY DEF Copies
<1>2. Waiting' = Waiting
  BY <1>1 DEF Waiting
<1> QED
  BY <1>2 DEF Promise!vars, Waiting

(* Entries may only disappear. *)
LEMMA PromiseLoses ==
  ASSUME TypeOK, UNCHANGED <<pushes, starts>>,
         \A j \in Jobs : Copies(j)' \in Nat /\ Copies(j)' <= Copies(j)
  PROVE  Promise!Next
<1>1. Waiting' \in [Jobs -> Nat] /\ \A j \in Jobs : Waiting'[j] <= Waiting[j]
  BY DEF Waiting
<1>2. Promise!Lose
  BY <1>1 DEF Promise!Lose, Waiting
<1> QED
  BY <1>2 DEF Promise!Next

LEMMA PromiseClient ==
  ASSUME Typed, ClientsOK, NEW c \in Clients, ClientStep(c)
  PROVE  [Promise!Next]_(Promise!vars)
<1>0. TypeOK
  BY DEF Typed
<1>1. UNCHANGED starts
  BY DEF ClientStep, Call, Create, LeaveBlock, Flushed, FlushRaises
<1>2. ASSUME UNCHANGED <<queue, pushes>>
      PROVE  UNCHANGED Promise!vars
  BY <1>1, <1>2, PromiseStays
<1>3. ASSUME Push(client[c].to_create)
      PROVE  Promise!Next
  BY <1>0, <1>1, <1>3, BatchDistinct, PushEnqueues
<1>4. CASE Call(c)
  <2> DEFINE n == client[c].made + 1
             batch == << <<c, n>> >>
  <2>1. n \in 1..PerClient /\ (Push(batch) \/ UNCHANGED <<pushes, queue>>)
    BY <1>0, <1>4, CallMoves
  <2>2. batch \in Seq(Jobs) /\ Distinct(batch)
    BY <2>1, JobsArePairs DEF Distinct
  <2> HIDE DEF batch
  <2> QED
    BY <1>0, <1>1, <1>2, <2>1, <2>2, PushEnqueues
<1>5. CASE Create(c) \/ \E failed \in BOOLEAN : LeaveBlock(c, failed)
  BY <1>2, <1>5 DEF Create, LeaveBlock
<1>6. CASE Flushed(c)
  BY <1>0, <1>2, <1>3, <1>6, FlushedMoves
<1>7. CASE FlushRaises(c)
  BY <1>0, <1>2, <1>3, <1>7, FlushRaisesMoves
<1> QED
  BY <1>4, <1>5, <1>6, <1>7 DEF ClientStep

LEMMA PromiseWorker ==
  ASSUME Typed, NEW p \in Procs, WorkerStep(p) \/ PopLost(p) \/ Die(p)
  PROVE  [Promise!Next]_(Promise!vars)
<1>0. TypeOK
  BY DEF Typed
<1>a. ASSUME queue # <<>>, queue' = Front(queue)
      PROVE  /\ Last(queue) \in Jobs
             /\ \A j \in Jobs : /\ Copies(j) \in Nat /\ Copies(j)' \in Nat
                                /\ j = Last(queue) => Copies(j) = Copies(j)' + 1
                                /\ j # Last(queue) => Copies(j) = Copies(j)'
  <2>1. Last(queue) \in Jobs /\ Front(queue) \in Seq(Jobs) /\ queue \in Seq(Jobs)
    BY <1>0, <1>a, LastOut DEF TypeOK
  <2>2. ASSUME NEW j \in Jobs
        PROVE  /\ Copies(j) \in Nat /\ Copies(j)' \in Nat
               /\ j = Last(queue) => Copies(j) = Copies(j)' + 1
               /\ j # Last(queue) => Copies(j) = Copies(j)'
    <3>1. Copies(j) = Cardinality(Positions(queue, j)) /\ Copies(j) \in Nat
          /\ Copies(j)' = Cardinality(Positions(Front(queue), j))
      BY <1>0, <1>a, CopiesOf
    <3>2. Cardinality(Positions(Front(queue), j)) \in Nat
      BY <2>1, PositionsFinite
    <3>3. /\ j = Last(queue) => Cardinality(Positions(queue, j)) = Cardinality(Positions(Front(queue), j)) + 1
          /\ j # Last(queue) => Cardinality(Positions(queue, j)) = Cardinality(Positions(Front(queue), j))
      BY <1>a, <2>1, CountFront
    <3> QED
      BY <3>1, <3>2, <3>3
  <2> QED
    BY <2>1, <2>2
<1>1. CASE Pop(p)
  <2> DEFINE last == Last(queue)
  <2>1. /\ queue # <<>> /\ queue' = Front(queue) /\ starts' = [starts EXCEPT ![last] = @ + 1]
        /\ UNCHANGED pushes
    BY <1>1 DEF Pop
  <2>2. last \in Jobs
    BY <1>a, <2>1
  <2>3. Copies(last) > 0 /\ \A j \in Jobs : Copies(j)' = IF j = last THEN Copies(j) - 1 ELSE Copies(j)
    BY <1>a, <2>1
  <2> HIDE DEF last
  <2>4. Waiting' = [Waiting EXCEPT ![last] = @ - 1] /\ Waiting[last] > 0
    BY <2>2, <2>3 DEF Waiting
  <2>5. Promise!Start(last)
    BY <2>1, <2>4 DEF Promise!Start, Waiting
  <2> QED
    BY <2>2, <2>5 DEF Promise!Next
<1>2. CASE PopLost(p)
  <2>1. queue # <<>> /\ queue' = Front(queue) /\ UNCHANGED <<pushes, starts>>
    BY <1>2 DEF PopLost
  <2>2. \A j \in Jobs : Copies(j)' \in Nat /\ Copies(j)' <= Copies(j)
    BY <1>a, <2>1
  <2> QED
    BY <1>0, <2>1, <2>2, PromiseLoses
<1>3. CASE Spawn(p) \/ CheckPause(p) \/ PopTimeout(p) \/ Finish(p) \/ Die(p)
  <2>1. UNCHANGED <<queue, pushes, starts>>
    BY <1>3 DEF Spawn, CheckPause, PopTimeout, Finish, Die
  <2> QED
    BY <2>1, PromiseStays
<1> QED
  BY <1>1, <1>2, <1>3 DEF WorkerStep

LEMMA AtMostOnceInit == Init => Promise!Init
<1> SUFFICES ASSUME Init
             PROVE  Promise!Init
  OBVIOUS
<1>1. ASSUME NEW j \in Jobs
      PROVE  Copies(j) = 0
  <2>1. DOMAIN queue = {}
    BY DEF Init
  <2>2. {i \in DOMAIN queue : queue[i] = j} = {}
    BY <2>1
  <2> QED
    BY <2>2, FS_EmptySet DEF Copies
<1>2. Waiting = [j \in Jobs |-> 0]
  BY <1>1 DEF Waiting
<1> QED
  BY <1>2 DEF Init, Promise!Init, Waiting

LEMMA AtMostOnceStep ==
  Typed /\ ClientsOK /\ [Next]_vars => [Promise!Next]_(Promise!vars)
<1> SUFFICES ASSUME Typed, ClientsOK, [Next]_vars
             PROVE  [Promise!Next]_(Promise!vars)
  OBVIOUS
<1>1. ASSUME NEW c \in Clients, ClientStep(c)
      PROVE  [Promise!Next]_(Promise!vars)
  BY <1>1, PromiseClient
<1>2. ASSUME NEW p \in Procs, WorkerStep(p) \/ PopLost(p) \/ Die(p)
      PROVE  [Promise!Next]_(Promise!vars)
  BY <1>2, PromiseWorker
<1>3. CASE Clear
  <2>1. TypeOK /\ queue' = <<>> /\ UNCHANGED <<pushes, starts>>
    BY <1>3 DEF Clear, Typed
  <2>2. ASSUME NEW j \in Jobs
        PROVE  Copies(j)' \in Nat /\ Copies(j)' <= Copies(j)
    <3>1. {i \in DOMAIN queue' : queue'[i] = j} = {}
      BY <2>1
    <3>2. Copies(j)' = 0
      BY <3>1, FS_EmptySet DEF Copies
    <3> QED
      BY <2>1, <3>2, CopiesOf
  <2> QED
    BY <2>1, <2>2, PromiseLoses
<1>4. CASE Pause \/ Unpause
  <2>1. UNCHANGED <<queue, pushes, starts>>
    BY <1>4 DEF Pause, Unpause
  <2> QED
    BY <2>1, PromiseStays
<1>5. CASE UNCHANGED vars
  <2>1. UNCHANGED <<queue, pushes, starts>>
    BY <1>5 DEF vars
  <2> QED
    BY <2>1, PromiseStays
<1> QED
  BY <1>1, <1>2, <1>3, <1>4, <1>5 DEF Next

(* "This backend has at-most-once semantics." (redis.py:16): every step is  *)
(* one of AtMostOnce, where an entry is started once or lost.               *)
THEOREM ImplementsAtMostOnce == Spec => KeepsPromise
<1>1. Spec => [](Typed /\ ClientsOK)
  BY BulkInvariant
<1>2. Spec => Promise!Init
  BY AtMostOnceInit DEF Spec
<1> QED
  BY <1>1, <1>2, AtMostOnceStep, PTL DEF Spec, KeepsPromise, Promise!Spec
=============================================================================
