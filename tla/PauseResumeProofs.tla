------------------------- MODULE PauseResumeProofs -------------------------
(***************************************************************************)
(* The bounds on how late a pause and a resume take effect, for timeouts,  *)
(* pauses and numbers of workers and commands of any size.                 *)
(*                                                                         *)
(* Each follows from when a worker's next step is due: nobody is late by   *)
(* more than a unit (OnTime), so it is enough to bound due by the moment   *)
(* at which the worker last saw the key.                                   *)
(***************************************************************************)
EXTENDS PauseResume, TLAPS

USE PauseAssumption

-----------------------------------------------------------------------------
(* Types. *)

LEMMA MinOfTwo ==
  ASSUME NEW x \in Nat, NEW y \in Nat
  PROVE  Min({x, y}) \in Nat /\ Min({x, y}) <= x /\ Min({x, y}) <= y
<1>1. \E m \in {x, y} : \A n \in {x, y} : m <= n
  <2>1. CASE x <= y
    BY <2>1
  <2>2. CASE ~(x <= y)
    BY <2>2
  <2> QED
    BY <2>1, <2>2
<1>2. Min({x, y}) \in {x, y} /\ \A n \in {x, y} : Min({x, y}) <= n
  BY <1>1 DEF Min
<1> QED
  BY <1>2

(* What int() of the seconds leaves of a time.                              *)
LEMMA WholeSeconds ==
  ASSUME NEW x \in Nat
  PROVE  LET s == Second * (x \div Second) IN s \in Nat /\ s <= x /\ x < s + Second
  OBVIOUS

LEMMA SecondsInNat ==
  ASSUME NEW x \in Nat
  PROVE  x \div Second \in Nat /\ Second * x \in Nat
  OBVIOUS

LEMMA TypeInit == Init => TypeOK
  BY DEF Init, TypeOK, NoCommand, Idle, WorkerPCs, Waiting

LEMMA TypeStep == TypeOK /\ [Next]_vars => TypeOK'
<1> SUFFICES ASSUME TypeOK, [Next]_vars PROVE TypeOK'
  OBVIOUS
<1> USE DEF TypeOK, key, GoTo, Return, Idle, NoCommand, WorkerPCs, Waiting
<1>1. CASE Advance
  BY <1>1 DEF Advance
<1>2. ASSUME NEW c \in Commands, NEW length \in Lengths, Parse(c, length) PROVE TypeOK'
  <2>1. now + length \in Nat
    OBVIOUS
  <2>2. /\ UNCHANGED <<now, key, worker>>
        /\ command' = [command EXCEPT ![c] = [@ EXCEPT !.pc = "parsed", !.until = now + length]]
    BY <1>2 DEF Parse
  <2>3. [command[c] EXCEPT !.pc = "parsed", !.until = now + length]
          \in [pc: {"none", "parsed", "checked", "send"}, until: Nat, seconds: Nat, left: Nat]
    BY <2>1
  <2> QED
    BY <2>2, <2>3
<1>3. ASSUME NEW c \in Commands, Handle(c) PROVE TypeOK'
  BY <1>3 DEF Handle
<1>4. ASSUME NEW c \in Commands, Pause(c) PROVE TypeOK'
  <2> DEFINE left == IF command[c].until > now THEN command[c].until - now ELSE 0
  <2>1. left \in Nat
    OBVIOUS
  <2>3. left \div Second \in Nat
    BY <2>1, SecondsInNat
  <2>2. /\ UNCHANGED <<now, key, worker>>
        /\ command' = [command EXCEPT ![c] =
             [pc |-> "send", until |-> 0, seconds |-> left \div Second, left |-> left]]
    BY <1>4 DEF Pause
  <2> HIDE DEF left
  <2> QED
    BY <2>1, <2>2, <2>3
<1>5. ASSUME NEW c \in Commands, Setex(c) PROVE TypeOK'
  <2>1. Second * command[c].seconds \in Nat
    BY SecondsInNat
  <2> QED
    BY <1>5, <2>1 DEF Setex
<1>6. CASE Resume
  BY <1>6 DEF Resume
<1>7. ASSUME NEW w \in Workers, Dequeue(w) \/ Peek(w) \/ BeginPop(w)
      PROVE  TypeOK'
  BY <1>7 DEF Dequeue, Peek, BeginPop
<1>8. ASSUME NEW w \in Workers, Pop(w) \/ PopTimeout(w) \/ Done(w)
      PROVE  TypeOK'
  BY <1>8 DEF Pop, PopTimeout, Done
<1>9. ASSUME NEW w \in Workers, Enter(w) \/ SetEnd(w) \/ Poll(w) \/ Wake(w) PROVE TypeOK'
  BY <1>9 DEF Enter, SetEnd, Poll, Wake
<1>10. ASSUME NEW w \in Workers, CheckEnd(w) PROVE TypeOK'
  <2>1. CASE now > worker[w].end
    BY <1>10, <2>1 DEF CheckEnd
  <2>2. CASE ~(now > worker[w].end)
    <3>1. GoTo(w, "sleep", now + Min({Frequency, worker[w].end - now}))
      BY <1>10, <2>2 DEF CheckEnd
    <3>2. worker[w].end \in Nat /\ worker[w].end - now \in Nat
      BY <2>2
    <3>3. Min({Frequency, worker[w].end - now}) \in Nat
      BY <3>2, MinOfTwo
    <3> QED
      BY <1>10, <3>1, <3>3 DEF CheckEnd
  <2> QED
    BY <2>1, <2>2
<1>11. CASE UNCHANGED vars
  BY <1>11 DEF vars
<1> QED
  BY <1>1, <1>2, <1>3, <1>4, <1>5, <1>6, <1>7, <1>8, <1>9, <1>10, <1>11
     DEF Next, WorkerStep, CommandStep

(* The clock, the key, the commands and each worker stay in their types,    *)
(* however the times are cut and subtracted (queue_pause.py, utils.py:162). *)
THEOREM PauseTypeCorrect == Spec => []TypeOK
  BY TypeInit, TypeStep, PTL DEF Spec

-----------------------------------------------------------------------------
(* When the key expires. *)

KeyOK ==
  IF expires > 0
  THEN now < expires /\ expires <= promised /\ promised < expires + Second
  ELSE promised < now + Second

(* A SETEX on its way asks for the whole seconds in what was left.          *)
SendOK ==
  \A c \in Commands : command[c].pc = "send" => command[c].seconds = command[c].left \div Second

(* The key that a SETEX sets. *)
LEMMA KeySet ==
  ASSUME TypeOK, SendOK, NEW c \in Commands, Setex(c), command[c].seconds > 0
  PROVE  /\ now < expires' /\ expires' <= promised' /\ promised' < expires' + Second
         /\ since' = (IF is_paused THEN since ELSE now)
         /\ UNCHANGED <<now, worker>>
<1> DEFINE s == Second * command[c].seconds
<1>1. now \in Nat /\ command[c].left \in Nat /\ command[c].seconds \in Nat
  BY DEF TypeOK
<1>2. s \in Nat /\ s > 0
  BY <1>1
<1>3. s <= command[c].left /\ command[c].left < s + Second
  <2>1. command[c].seconds = command[c].left \div Second
    BY DEF SendOK, Setex
  <2> QED
    BY <1>1, <2>1, WholeSeconds
<1>4. expires' = now + s /\ promised' = now + command[c].left
  BY DEF Setex
<1> HIDE DEF s
<1>5. /\ since' = (IF is_paused THEN since ELSE now)
      /\ UNCHANGED <<now, worker>>
  BY DEF Setex
<1> QED
  BY <1>1, <1>2, <1>3, <1>4, <1>5

LEMMA SendStep == TypeOK /\ SendOK /\ [Next]_vars => SendOK'
<1> SUFFICES ASSUME TypeOK, SendOK, [Next]_vars PROVE SendOK'
  OBVIOUS
<1>a. command \in [Commands -> [pc: {"none", "parsed", "checked", "send"},
                               until: Nat, seconds: Nat, left: Nat]]
  BY DEF TypeOK
<1>1. CASE UNCHANGED command
  BY <1>1 DEF SendOK
<1>2. ASSUME NEW c \in Commands, CommandStep(c)
      PROVE  SendOK'
  <2>1. ASSUME NEW r, command' = [command EXCEPT ![c] = r],
               r.pc = "send" => r.seconds = r.left \div Second
        PROVE  SendOK'
    BY <1>a, <2>1 DEF SendOK
  <2>2. ASSUME NEW length \in Lengths, Parse(c, length)
        PROVE  SendOK'
    BY <1>a, <2>2 DEF SendOK, Parse
  <2>3. CASE Handle(c)
    BY <1>a, <2>3 DEF SendOK, Handle, NoCommand
  <2>4. CASE Pause(c)
    <3> DEFINE left == IF command[c].until > now THEN command[c].until - now ELSE 0
               r == [pc |-> "send", until |-> 0, seconds |-> left \div Second, left |-> left]
    <3>1. command' = [command EXCEPT ![c] = r]
      BY <2>4 DEF Pause
    <3>2. r.seconds = r.left \div Second
      OBVIOUS
    <3> HIDE DEF r
    <3> QED
      BY <2>1, <3>1, <3>2
  <2>5. CASE Setex(c)
    BY <2>1, <2>5 DEF Setex, NoCommand
  <2> QED
    BY <1>2, <2>2, <2>3, <2>4, <2>5 DEF CommandStep
<1>3. CASE Advance \/ Resume \/ (\E w \in Workers : WorkerStep(w)) \/ UNCHANGED vars
  BY <1>1, <1>3 DEF Advance, Resume, WorkerStep, Dequeue, Peek, BeginPop, Pop, PopTimeout, Done,
     Enter, SetEnd, Poll, CheckEnd, Wake, vars
<1> QED
  BY <1>2, <1>3 DEF Next

LEMMA KeyStep == TypeOK /\ SendOK /\ KeyOK /\ [Next]_vars => KeyOK'
<1> SUFFICES ASSUME TypeOK, SendOK, KeyOK, [Next]_vars PROVE KeyOK'
  OBVIOUS
<1>1. CASE UNCHANGED <<now, promised, expires>>
  BY <1>1 DEF KeyOK
<1>2. ASSUME NEW c \in Commands, Setex(c)
      PROVE  KeyOK'
  <2>1. CASE command[c].seconds > 0
    <3>1. now \in Nat /\ now' = now /\ expires' > now
      BY <1>2, <2>1, KeySet DEF TypeOK
    <3>2. expires' \in Nat
      BY TypeStep DEF TypeOK
    <3> QED
      BY <1>2, <2>1, <3>1, <3>2, KeySet DEF KeyOK
  <2>2. CASE ~(command[c].seconds > 0)
    BY <1>1, <1>2, <2>2 DEF Setex, key
  <2> QED
    BY <2>1, <2>2
<1>3. CASE Advance
  BY <1>3 DEF Advance, KeyOK, TypeOK
<1>4. CASE Resume
  BY <1>4 DEF Resume, KeyOK, TypeOK
<1>5. ASSUME NEW c \in Commands, CommandStep(c)
      PROVE  KeyOK'
  BY <1>1, <1>2, <1>5 DEF CommandStep, Parse, Handle, Pause, key
<1>6. CASE (\E w \in Workers : WorkerStep(w)) \/ UNCHANGED vars
  BY <1>1, <1>6 DEF WorkerStep, Dequeue, Peek, BeginPop, Pop, PopTimeout, Done,
     Enter, SetEnd, Poll, CheckEnd, Wake, key, vars
<1> QED
  BY <1>3, <1>4, <1>5, <1>6 DEF Next

(* The queue reactivates at the time asked for (queue_pause.py:70) or less  *)
(* than a second before it, and as much later as SETEX comes after the look *)
(* at the clock (reliable_redis.py:216-225), for a second of any length and *)
(* any commands.                                                            *)
THEOREM PauseEndsHolds == Spec => []PauseEndsOnTime
<1>1. Init => KeyOK /\ SendOK
  BY DEF Init, KeyOK, SendOK, NoCommand
<1>2. TypeOK /\ KeyOK => PauseEndsOnTime
  BY DEF TypeOK, KeyOK, PauseEndsOnTime, is_paused
<1> QED
  BY <1>1, <1>2, TypeInit, TypeStep, SendStep, KeyStep, PTL DEF Spec

-----------------------------------------------------------------------------
(* The workers. *)

OnTime(w) == worker[w].pc # "work" => now <= worker[w].due + 1

(* Where the wait ends. *)
BlockOK(w) ==
  /\ worker[w].pc = "block" => worker[w].due = worker[w].began
  /\ worker[w].pc = "enter" => worker[w].due <= worker[w].began + 1
  /\ worker[w].pc \in {"poll", "check", "sleep"} => worker[w].end <= worker[w].began + 2 + Timeout
  /\ worker[w].pc = "poll"  => worker[w].due <= worker[w].end + 1
  /\ worker[w].pc = "check" => worker[w].due <= worker[w].end + 2
  /\ worker[w].pc = "sleep" => worker[w].due <= worker[w].end

(* When the worker has last seen the key: there if it blocks ...            *)
SeenOK(w) ==
  /\ worker[w].pc \in {"block", "enter", "check"} =>
       worker[w].due <= now /\ (~is_paused => worker[w].due <= since)
  /\ worker[w].pc = "poll" =>
       worker[w].due <= now /\ (~is_paused => worker[w].due <= since + Frequency + 2)
  /\ worker[w].pc = "sleep" =>
       /\ worker[w].due <= now + Frequency
       /\ ~is_paused => worker[w].due <= since + Frequency + 1

(* ... and not there if it goes on to pop. *)
UnseenOK(w) ==
  /\ worker[w].pc = "checked" =>
       worker[w].due <= now /\ (is_paused => worker[w].due <= since)
  /\ worker[w].pc = "peeked" =>
       worker[w].due <= now /\ (is_paused => worker[w].due <= since + 1)
  /\ worker[w].pc = "pop" =>
       /\ worker[w].due = worker[w].end /\ worker[w].end <= now + Timeout
       /\ is_paused => worker[w].end <= since + Timeout + 2

WorkerOK(w) == OnTime(w) /\ BlockOK(w) /\ SeenOK(w) /\ UnseenOK(w)

(* The clock and the key move; the workers stay where they are.             *)
LEMMA KeyMoves ==
  ASSUME TypeOK, SendOK, Advance \/ Resume \/ \E c \in Commands : Setex(c),
         NEW w \in Workers, WorkerOK(w)
  PROVE  WorkerOK(w)'
<1> USE DEF WorkerOK, OnTime, BlockOK, SeenOK, UnseenOK, is_paused, key
<1>1. UNCHANGED worker
  BY DEF Advance, Setex, Resume
<1>2. worker[w] \in [pc: WorkerPCs, due: Nat, end: Nat, began: Nat]
  BY DEF TypeOK
<1>3. now \in Nat /\ expires \in Nat /\ since \in Nat /\ since <= now
  BY DEF TypeOK
<1>4. CASE Advance
  <2>1. /\ now' = now + 1 /\ expires' = IF expires <= now' THEN 0 ELSE expires
        /\ since' = IF expires = now' THEN now' ELSE since
        /\ worker[w].pc = "work" \/ worker[w].due >= now
    BY <1>4 DEF Advance
  <2> QED
    BY <1>1, <1>2, <1>3, <2>1
<1>5. ASSUME NEW c \in Commands, Setex(c)
      PROVE  WorkerOK(w)'
  <2>1. CASE command[c].seconds > 0
    <3>1. since' = (IF is_paused THEN since ELSE now) /\ now' = now /\ expires' > now
      BY <1>5, <2>1, KeySet
    <3> QED
      BY <1>1, <1>2, <1>3, <3>1
  <2>2. CASE ~(command[c].seconds > 0)
    BY <1>1, <1>2, <1>5, <2>2 DEF Setex
  <2> QED
    BY <2>1, <2>2
<1>6. CASE Resume
  BY <1>1, <1>2, <1>3, <1>6 DEF Resume
<1> QED
  BY <1>4, <1>5, <1>6

(* A worker that moves does so on time.                                     *)
LEMMA WorkerMoves ==
  ASSUME TypeOK, NEW w \in Workers, WorkerStep(w), WorkerOK(w)
  PROVE  WorkerOK(w)'
<1> USE DEF WorkerOK, OnTime, BlockOK, SeenOK, UnseenOK, is_paused, key, GoTo, Return, Idle
<1>1. worker \in [Workers -> [pc: WorkerPCs, due: Nat, end: Nat, began: Nat]]
  BY DEF TypeOK
<1>2. now \in Nat /\ expires \in Nat /\ since \in Nat /\ since <= now
  BY DEF TypeOK
<1>3. CASE Dequeue(w)
  BY <1>1, <1>2, <1>3 DEF Dequeue
<1>4. CASE Peek(w) \/ BeginPop(w)
  BY <1>1, <1>2, <1>4 DEF Peek, BeginPop
<1>5. CASE Pop(w) \/ PopTimeout(w) \/ Done(w)
  BY <1>1, <1>2, <1>5 DEF Pop, PopTimeout, Done
<1>6. CASE Enter(w) \/ SetEnd(w)
  BY <1>1, <1>2, <1>6 DEF Enter, SetEnd
<1>7. CASE Poll(w)
  BY <1>1, <1>2, <1>7 DEF Poll
<1>8. CASE CheckEnd(w)
  <2>1. CASE now > worker[w].end
    BY <1>1, <1>2, <1>8, <2>1 DEF CheckEnd
  <2>2. CASE ~(now > worker[w].end)
    <3> DEFINE pause == Min({Frequency, worker[w].end - now})
    <3>1. worker[w].end \in Nat /\ worker[w].end - now \in Nat
      BY <1>1, <1>2, <2>2
    <3>2. pause \in Nat /\ pause <= Frequency /\ pause <= worker[w].end - now
      BY <3>1, MinOfTwo
    <3>3. /\ worker[w].pc = "check" /\ GoTo(w, "sleep", now + pause)
          /\ UNCHANGED <<now, key>>
      BY <1>8, <2>2 DEF CheckEnd
    <3> HIDE DEF pause
    <3> QED
      BY <1>1, <1>2, <3>1, <3>2, <3>3
  <2> QED
    BY <2>1, <2>2
<1>9. CASE Wake(w)
  BY <1>1, <1>2, <1>9 DEF Wake
<1> QED
  BY <1>3, <1>4, <1>5, <1>6, <1>7, <1>8, <1>9 DEF WorkerStep

LEMMA WorkersStep ==
  ASSUME TypeOK, SendOK, \A w \in Workers : WorkerOK(w), [Next]_vars
  PROVE  \A w \in Workers : WorkerOK(w)'
<1> TAKE w \in Workers
<1>1. CASE Advance \/ Resume \/ \E c \in Commands : Setex(c)
  BY <1>1, KeyMoves
<1>2. CASE WorkerStep(w)
  BY <1>2, WorkerMoves
<1>3. CASE UNCHANGED <<now, key>> /\ worker'[w] = worker[w]
  BY <1>3 DEF WorkerOK, OnTime, BlockOK, SeenOK, UnseenOK, is_paused, key
<1>4. ASSUME NEW v \in Workers, WorkerStep(v), v # w
      PROVE  UNCHANGED <<now, key>> /\ worker'[w] = worker[w]
  BY <1>4 DEF WorkerStep, Dequeue, Peek, BeginPop, Pop, PopTimeout, Done, Enter, SetEnd, Poll,
     CheckEnd, Wake, GoTo, Return, TypeOK
<1>5. CASE UNCHANGED vars \/ \E c \in Commands :
             (\E length \in Lengths : Parse(c, length)) \/ Handle(c) \/ Pause(c)
  BY <1>3, <1>5 DEF Handle, Parse, Pause, vars
<1> QED
  BY <1>1, <1>2, <1>3, <1>4, <1>5 DEF Next, CommandStep

PauseInv == TypeOK /\ SendOK /\ \A w \in Workers : WorkerOK(w)

LEMMA PauseInvHolds == Spec => []PauseInv
<1>1. Init => PauseInv
  BY TypeInit DEF Init, PauseInv, SendOK, WorkerOK, OnTime, BlockOK, SeenOK, UnseenOK, TypeOK,
     NoCommand, Idle
<1>2. PauseInv /\ [Next]_vars => PauseInv'
  BY TypeStep, SendStep, WorkersStep DEF PauseInv
<1> QED
  BY <1>1, <1>2, PTL DEF Spec

(* A worker notices within check_frequency that a pause is over             *)
(* (utils.py:162), whatever commands came between.                          *)
THEOREM ResumeNoticedHolds == Spec => []ResumeIsNoticed
<1>1. PauseInv => ResumeIsNoticed
  <2> SUFFICES ASSUME PauseInv, NEW w \in Workers, Blocked(w), ~is_paused
               PROVE  now - since <= Frequency + 3
    BY DEF ResumeIsNoticed
  <2>1. now \in Nat /\ since \in Nat /\ worker[w].due \in Nat
    BY DEF PauseInv, TypeOK
  <2> QED
    BY <2>1 DEF PauseInv, WorkerOK, OnTime, SeenOK, Blocked, Waiting
<1> QED
  BY <1>1, PauseInvHolds, PTL

(* Blocking ends by itself, however long the pause is (utils.py:153).       *)
THEOREM BlockingEndsHolds == Spec => []BlockingEnds
<1>1. PauseInv => BlockingEnds
  <2> SUFFICES ASSUME PauseInv, NEW w \in Workers, Blocked(w)
               PROVE  now - worker[w].began <= Timeout + 5
    BY DEF BlockingEnds
  <2>1. /\ now \in Nat /\ worker[w].due \in Nat /\ worker[w].began \in Nat
        /\ worker[w].end \in Nat
    BY DEF PauseInv, TypeOK
  <2> QED
    BY <2>1 DEF PauseInv, WorkerOK, OnTime, BlockOK, Blocked, Waiting
<1> QED
  BY <1>1, PauseInvHolds, PTL

(* A job that is taken after the pause was taken by a worker that had       *)
(* looked before it (reliable_redis.py:116-135), so within the timeout of   *)
(* the pop it went on to.                                                   *)
THEOREM TakesHoldHolds == Spec => PauseTakesHold
<1> DEFINE Late(w) == is_paused /\ worker[w].pc # "work" /\ worker'[w].pc = "work"
<1>1. PauseInv /\ [Next]_vars => [\A w \in Workers : Late(w) => now - since <= Timeout + 2]_vars
  <2> SUFFICES ASSUME PauseInv, [Next]_vars, NEW w \in Workers, Late(w)
               PROVE  now - since <= Timeout + 2
    OBVIOUS
  <2>1. /\ now \in Nat /\ since \in Nat
        /\ worker \in [Workers -> [pc: WorkerPCs, due: Nat, end: Nat, began: Nat]]
    BY DEF PauseInv, TypeOK
  <2>2. Peek(w) \/ Pop(w)
    <3>1. CASE \E v \in Workers : WorkerStep(v)
      BY <2>1, <3>1 DEF WorkerStep, Dequeue, Peek, BeginPop, Pop, PopTimeout, Done, Enter, SetEnd,
         Poll, CheckEnd, Wake, GoTo, Return, Idle
    <3>2. CASE UNCHANGED worker
      BY <3>2
    <3> QED
      BY <3>1, <3>2 DEF Next, CommandStep, vars, Advance, Handle, Pause, Setex, Resume, Parse
  <2>3. worker[w].due \in Nat /\ worker[w].end \in Nat
    BY <2>1
  <2> QED
    BY <2>1, <2>2, <2>3 DEF PauseInv, WorkerOK, OnTime, UnseenOK, Pop, Peek
<1> QED
  BY <1>1, PauseInvHolds, PTL DEF Spec, PauseTakesHold
=============================================================================
