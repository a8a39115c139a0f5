------------------------ MODULE CronSchedulerProofs ------------------------
(***************************************************************************)
(* No cron row is enqueued twice in a minute, whatever the length of the   *)
(* minute, the configuration, the delays, the failures and the restarts.   *)
(* In a minute it is not late for, it enqueues those that are due.         *)
(*                                                                         *)
(* `AtMostOncePerMinute` is not inductive: it does not say why the next    *)
(* tick cannot find work again.  The reason is the sleep to the boundary   *)
(* of a second.  A thread about to call tick() in the first second of a    *)
(* minute has come there from the minute before, so nothing of this minute *)
(* is enqueued yet (FreshWhenAwake); within the loop the rows still ahead  *)
(* are not (FreshAhead); and a master that has ended after enqueueing has  *)
(* not been down for longer than this second has lasted (DownSince).       *)
(***************************************************************************)
EXTENDS CronScheduler, TLAPS

Fresh == \A r \in Rows : enqueued[r] = 0

FreshWhenAwake == pc \in {"awake", "load"} /\ second = 0 => Fresh

FreshAhead == pc = "rows" => \A r \in Rows : r >= row => enqueued[r] = 0

DownSince == pc = "down" /\ second = 0 => Fresh \/ down <= half

CronInv == TypeOK /\ AtMostOncePerMinute /\ FreshWhenAwake /\ FreshAhead /\ DownSince

(* The clock stays a clock when it moves. *)
LEMMA NextTimeType == ASSUME TypeOK PROVE NextTime \in Times
  <1> DEFINE minute == (time.minutes + 1) % Minutes
             hour   == IF minute = 0 THEN (time.hours + 1) % Hours ELSE time.hours
             day    == IF minute = 0 /\ hour = 0 THEN (time.days % Days) + 1 ELSE time.days
  <1>0. /\ time.minutes \in 0..(Minutes - 1)
        /\ time.hours \in 0..(Hours - 1)
        /\ time.days \in 1..Days
    BY DEF TypeOK, Times, Fields
  <1>1. minute \in 0..(Minutes - 1)
    BY <1>0, CronAssumption
  <1>2. hour \in 0..(Hours - 1)
    BY <1>0, CronAssumption
  <1>3. day \in 1..Days
    BY <1>0, CronAssumption
  <1> HIDE DEF minute, hour, day
  <1>4. [minutes |-> minute, hours |-> hour, days |-> day] \in Times
    BY <1>1, <1>2, <1>3 DEF Times, Fields
  <1> QED
    BY <1>4 DEF NextTime, minute, hour, day

LEMMA NextSecondType ==
  ASSUME TypeOK, NextSecond
  PROVE  /\ time' \in Times
         /\ second' \in 0..(Seconds - 1)
  <1>1. (second + 1) % Seconds \in 0..(Seconds - 1)
    BY CronAssumption DEF TypeOK
  <1> QED
    BY <1>1, NextTimeType DEF NextSecond, TypeOK

(* The program starts with nothing enqueued. *)
LEMMA CronInit == Init => CronInv
  <1> SUFFICES ASSUME Init PROVE CronInv
    OBVIOUS
  <1>0. ontime \in BOOLEAN
    BY Zenon DEF Init
  <1>1. Len(config) \in Nat
    BY CronAssumption DEF Init
  <1>2. TypeOK
    BY <1>0, <1>1, CronAssumption DEF Init, TypeOK, Nothing, Rows
  <1>3. AtMostOncePerMinute /\ FreshWhenAwake /\ FreshAhead /\ DownSince
    BY DEF Init, AtMostOncePerMinute, FreshWhenAwake, FreshAhead, DownSince, Fresh, Nothing
  <1> QED
    BY <1>2, <1>3 DEF CronInv

(* Time passes. *)
LEMMA CronAdvance == ASSUME CronInv, Advance PROVE CronInv'
  <1> USE CronAssumption DEF CronInv, AtMostOncePerMinute, FreshWhenAwake, FreshAhead,
                             DownSince, Fresh, Rows
  <1>0. ontime' \in BOOLEAN
    <2>1. CASE half = 1 /\ second' = 0
      <3>1. ontime' = (pc = "sleep")
        BY <2>1 DEF Advance, NextSecond
      <3> QED
        BY <3>1, Zenon
    <2>2. CASE half = 1 /\ second' # 0
      <3>1. ontime' = (ontime /\ pc # "awake")
        BY <2>2 DEF Advance, NextSecond
      <3> QED
        BY <3>1, Zenon
    <2>3. CASE half # 1
      <3>1. ontime' = ontime
        BY <2>3 DEF Advance, history
      <3> QED
        BY <3>1, Zenon DEF TypeOK
    <2> QED
      BY <2>1, <2>2, <2>3
  <1>1. Len(config) \in Nat
    BY DEF TypeOK
  <1>2. CASE half = 0
    BY <1>0, <1>1, <1>2 DEF Advance, TypeOK, history
  <1>3. CASE half = 1
    <2>1. time' \in Times /\ second' \in 0..(Seconds - 1)
      BY <1>3, NextSecondType DEF Advance
    <2>2. CASE second' = 0
      BY <1>0, <1>1, <1>3, <2>1, <2>2 DEF Advance, NextSecond, TypeOK, Nothing
    <2>3. CASE second' # 0
      BY <1>0, <1>1, <1>3, <2>1, <2>3 DEF Advance, NextSecond, TypeOK, history
    <2> QED
      BY <2>2, <2>3
  <1>4. half = 0 \/ half = 1
    BY DEF TypeOK
  <1> HIDE DEF CronInv
  <1> QED
    BY <1>2, <1>3, <1>4

(* Every step keeps the invariant. *)
LEMMA CronStep == CronInv /\ [Next]_vars => CronInv'
  <1> SUFFICES ASSUME CronInv, [Next]_vars PROVE CronInv'
    OBVIOUS
  <1> USE CronAssumption DEF CronInv, AtMostOncePerMinute, FreshWhenAwake, FreshAhead,
                             DownSince, Fresh, Rows
  <1>0. Len(config) \in Nat
    BY DEF TypeOK
  <1>1. CASE Advance
    BY <1>1, CronAdvance
  <1>2. CASE Load
    BY <1>0, <1>2 DEF Load, TypeOK, clock, history
  <1>3. CASE Tick
    BY <1>0, <1>3 DEF Tick, TypeOK, clock, history
  <1>4. CASE Skip
    BY <1>0, <1>4 DEF Skip, TypeOK, clock, history
  <1>5. CASE Execute
    BY <1>0, <1>5 DEF Execute, TypeOK, clock
  <1>6. CASE ExecuteRaises
    <2>1. ontime' \in BOOLEAN
      BY <1>6, Zenon DEF ExecuteRaises, TypeOK
    <2>2. CASE UNCHANGED enqueued
      BY <1>0, <1>6, <2>1, <2>2 DEF ExecuteRaises, TypeOK, clock
    <2>3. CASE enqueued' = [enqueued EXCEPT ![row] = @ + 1]
      BY <1>0, <1>6, <2>1, <2>3 DEF ExecuteRaises, TypeOK, clock
    <2> QED
      BY <1>6, <2>2, <2>3 DEF ExecuteRaises
  <1>7. CASE TickEnds \/ Sleep
    BY <1>0, <1>7 DEF TickEnds, Sleep, TypeOK, clock, history
  <1>8. CASE Dies
    <2>1. ontime' \in BOOLEAN
      BY <1>8, Zenon DEF Dies
    <2> QED
      BY <1>0, <1>8, <2>1 DEF Dies, TypeOK, clock
  <1>9. CASE Replaced
    <2>1. down = MinDown /\ down > half
      BY <1>9 DEF Replaced, TypeOK
    <2>2. second = 0 => Fresh
      BY <1>9, <2>1 DEF Replaced, TypeOK
    <2> QED
      BY <1>0, <1>9, <2>2 DEF Replaced, TypeOK, clock, history
  <1>10. CASE UNCHANGED vars
    BY <1>10 DEF vars, TypeOK, clock, history
  <1> QED
    BY <1>1, <1>2, <1>3, <1>4, <1>5, <1>6, <1>7, <1>8, <1>9, <1>10 DEF Next

(* The state of the cron thread is well-typed for every configuration.      *)
THEOREM CronTypeCorrect == Spec => []TypeOK
  <1>1. CronInv => TypeOK
    BY DEF CronInv
  <1> QED
    BY CronInit, CronStep, <1>1, PTL DEF Spec

(* No row of the cron configuration is enqueued twice in one minute         *)
(* (cron_scheduler.py:66, 76-78), for every configuration.                  *)
THEOREM CronAtMostOnce == Spec => []AtMostOncePerMinute
  <1>1. CronInv => AtMostOncePerMinute
    BY DEF CronInv
  <1> QED
    BY CronInit, CronStep, <1>1, PTL DEF Spec

-----------------------------------------------------------------------------
(* The minutes that the thread is not late for are served. A thread that    *)
(* slept as the minute began wakes in its first second, and is in its loop  *)
(* before that second is over (OnTimeAwake), so that it works with the time *)
(* of this minute (OnTimeLoop): what it has passed is served, and nothing   *)
(* is enqueued beyond (Served).                                             *)

(* Whether a row is due in the current minute. *)
IsDue(r) == \A field \in {"minutes", "hours", "days"} :
              config[r][field] \in {Star, Missing} \/ time[field] \in config[r][field]

Up == pc \in {"awake", "rows", "ticked", "sleep"}

(* Whether the loop of this minute has come to row r, or has ended after it. *)
Reached(r) == (failed # 0 => r < failed) /\ (pc = "rows" => r < row)

AcceptedWhenUp ==
  Up => \A r \in Rows : /\ Accepted(config[r].minutes, "minutes")
                        /\ Accepted(config[r].hours, "hours")
                        /\ Accepted(DaysOf(r), "days")

OnTimeUp == ontime => Up

OnTimeLoop == ontime /\ pc = "rows" => t = time /\ failed = 0

(* Woken in the first second, the thread has still to look at the clock.    *)
OnTimeAwake == ontime /\ pc = "awake" /\ second = 0 => failed = 0

Served ==
  ontime /\ ~(pc = "awake" /\ second = 0) =>
    \A r \in Rows \ {failed} : enqueued[r] = IF IsDue(r) /\ Reached(r) THEN 1 ELSE 0

MinuteInv ==
  /\ CronInv
  /\ AcceptedWhenUp /\ OnTimeUp /\ OnTimeLoop /\ OnTimeAwake /\ Served

(* Where a row is accepted, the loop matches it just when it is due. *)
LEMMA MatchesWhenDue ==
  ASSUME TypeOK, AcceptedWhenUp, Up, t = time, NEW r \in Rows
  PROVE  Matches(r) <=> IsDue(r)
<1>1. /\ Accepted(config[r].minutes, "minutes") /\ Accepted(config[r].hours, "hours")
      /\ Accepted(DaysOf(r), "days")
  BY DEF AcceptedWhenUp
<1>2. /\ time.minutes \in Fields.minutes /\ time.hours \in Fields.hours /\ time.days \in Fields.days
  BY DEF TypeOK, Times
<1>3. t.minutes \in Matcher(config[r].minutes, "minutes")
        <=> config[r].minutes \in {Star, Missing} \/ time.minutes \in config[r].minutes
  BY <1>1, <1>2 DEF Accepted, Matcher
<1>4. t.hours \in Matcher(config[r].hours, "hours")
        <=> config[r].hours \in {Star, Missing} \/ time.hours \in config[r].hours
  BY <1>1, <1>2 DEF Accepted, Matcher
<1>5. t.days \in Matcher(DaysOf(r), "days")
        <=> config[r].days \in {Star, Missing} \/ time.days \in config[r].days
  BY <1>2 DEF DaysOf, Matcher
<1>6. IsDue(r) <=> /\ config[r].minutes \in {Star, Missing} \/ time.minutes \in config[r].minutes
                   /\ config[r].hours \in {Star, Missing} \/ time.hours \in config[r].hours
                   /\ config[r].days \in {Star, Missing} \/ time.days \in config[r].days
  BY DEF IsDue
<1> QED
  BY <1>3, <1>4, <1>5, <1>6 DEF Matches

LEMMA SecondGoesOn ==
  ASSUME TypeOK
  PROVE  /\ (second + 1) % Seconds = IF second = Seconds - 1 THEN 0 ELSE second + 1
         /\ second \in Nat /\ Seconds \in Nat /\ Seconds > 1
  BY CronAssumption DEF TypeOK

(* Time passes: a minute begins, or the thread is as much behind as before. *)
LEMMA MinuteAdvance ==
  ASSUME MinuteInv, Advance
  PROVE  AcceptedWhenUp' /\ OnTimeUp' /\ OnTimeLoop' /\ OnTimeAwake' /\ Served'
<1> USE DEF MinuteInv, CronInv
<1>1. /\ UNCHANGED <<config, t, row>> /\ half \in {0, 1}
      /\ pc' = IF pc = "sleep" /\ half = 1 THEN "awake" ELSE pc
      /\ half = 0 => UNCHANGED <<time, second, enqueued, failed, ontime>>
      /\ half = 1 => second' = (second + 1) % Seconds
  BY DEF Advance, NextSecond, TypeOK, history
<1>2. Rows' = Rows
  BY <1>1 DEF Rows
<1>3. AcceptedWhenUp'
  BY <1>1, <1>2 DEF AcceptedWhenUp, Up, DaysOf
<1>4. CASE half = 1 /\ second' = 0
  <2>1. ontime' = (pc = "sleep") /\ failed' = 0
    BY <1>4 DEF Advance, NextSecond
  <2>2. ontime' => pc' = "awake"
    BY <1>1, <1>4, <2>1, Zenon
  <2> QED
    BY <1>3, <1>4, <2>1, <2>2 DEF OnTimeUp, Up, OnTimeLoop, OnTimeAwake, Served
<1>5. CASE ~(half = 1 /\ second' = 0)
  <2>1. UNCHANGED <<time, enqueued, failed>>
    BY <1>1, <1>5 DEF Advance, NextSecond
  <2>2. ontime' => ontime /\ (pc = "awake" => half = 0)
    <3>1. half = 1 => ontime' = (ontime /\ pc # "awake")
      BY <1>5 DEF Advance, NextSecond
    <3> QED
      BY <1>1, <3>1, Zenon
  <2>3. OnTimeUp' /\ OnTimeLoop'
    BY <1>1, <2>1, <2>2 DEF OnTimeUp, OnTimeLoop, Up
  <2>4. OnTimeAwake'
    BY <1>1, <1>5, <2>1, <2>2 DEF OnTimeAwake
  <2>5. ASSUME ontime', ~(pc' = "awake" /\ second' = 0), NEW r \in Rows \ {failed}
        PROVE  enqueued[r] = IF IsDue(r)' /\ Reached(r)' THEN 1 ELSE 0
    <3>1. ontime /\ ~(pc = "awake" /\ second = 0)
      BY <1>1, <2>2, <2>5
    <3>2. IsDue(r)' = IsDue(r)
      BY <1>1, <2>1 DEF IsDue
    <3>3. Reached(r)' = Reached(r)
      BY <1>1, <2>1 DEF Reached
    <3> QED
      BY <2>5, <3>1, <3>2, <3>3 DEF Served
  <2>6. Served'
    BY <1>2, <2>1, <2>5 DEF Served
  <2> QED
    BY <1>3, <2>3, <2>4, <2>6
<1> QED
  BY <1>4, <1>5

LEMMA MinuteInit == Init => MinuteInv
<1> SUFFICES ASSUME Init
             PROVE  MinuteInv
  OBVIOUS
<1>1. pc = "load" /\ ontime = FALSE
  BY DEF Init
<1>2. ~ontime
  BY <1>1, Zenon
<1> QED
  BY <1>1, <1>2, CronInit
     DEF MinuteInv, AcceptedWhenUp, Up, OnTimeUp, OnTimeLoop, OnTimeAwake, Served

LEMMA MinuteStep == MinuteInv /\ [Next]_vars => MinuteInv'
<1> SUFFICES ASSUME MinuteInv, [Next]_vars
             PROVE  MinuteInv'
  OBVIOUS
<1>a. /\ CronInv /\ CronInv' /\ TypeOK /\ FreshAhead /\ FreshWhenAwake
      /\ AcceptedWhenUp /\ OnTimeUp /\ OnTimeLoop /\ OnTimeAwake /\ Served
  BY CronStep DEF MinuteInv, CronInv
<1>b. Len(config) \in Nat /\ row \in Nat /\ enqueued \in [Rows -> Nat]
  BY <1>a, CronAssumption DEF TypeOK
<1>c. config' = config /\ Rows' = Rows
  BY DEF Next, vars, Advance, Load, Tick, Skip, Execute, ExecuteRaises, TickEnds, Sleep, Dies, Replaced, Rows
<1>d. ASSUME time' = time
      PROVE  \A r : IsDue(r)' = IsDue(r)
  BY <1>c, <1>d DEF IsDue
<1>1. CASE Advance
  BY <1>1, <1>a, MinuteAdvance DEF MinuteInv
<1>2. CASE Load \/ Dies \/ Replaced
  <2>1. ~ontime'
    <3>1. CASE Load \/ Replaced
      <4>1. ontime' = ontime /\ ~Up
        BY <3>1 DEF Load, Replaced, history, Up
      <4> QED
        BY <1>a, <4>1, Zenon DEF OnTimeUp
    <3>2. CASE Dies
      <4>1. ontime' = FALSE
        BY <3>2 DEF Dies
      <4> QED
        BY <4>1, Zenon
    <3> QED
      BY <1>2, <3>1, <3>2
  <2>2. AcceptedWhenUp'
    BY <1>2, <1>c DEF Load, Dies, Replaced, AcceptedWhenUp, Up, DaysOf
  <2> QED
    BY <1>a, <2>1, <2>2 DEF MinuteInv, OnTimeUp, OnTimeLoop, OnTimeAwake, Served
<1>3. ASSUME Tick \/ Skip \/ Execute \/ ExecuteRaises \/ TickEnds \/ Sleep,
             OnTimeLoop', Served'
      PROVE  MinuteInv'
  <2>1. Up /\ Up' /\ pc' # "awake" /\ ontime' = ontime
    BY <1>3 DEF Tick, Skip, Execute, ExecuteRaises, TickEnds, Sleep, history, Up
  <2>2. AcceptedWhenUp'
    BY <1>a, <1>c, <2>1 DEF AcceptedWhenUp, DaysOf
  <2> QED
    BY <1>3, <1>a, <2>1, <2>2 DEF MinuteInv, OnTimeUp, OnTimeAwake
<1>4. CASE Tick
  <2>1. UNCHANGED <<time, second, enqueued, failed, ontime>> /\ pc = "awake"
    BY <1>4 DEF Tick, clock, history
  <2>2. CASE second = 0
    <3>1. pc' = "rows" /\ t' = time /\ row' = 1
      BY <1>4, <2>2 DEF Tick
    <3>2. \A r \in Rows : enqueued[r] = 0 /\ ~(r < 1)
      BY <1>a, <1>b, <2>1, <2>2 DEF FreshWhenAwake, Fresh, Rows
    <3>3. OnTimeLoop'
      BY <1>a, <2>1, <2>2, <3>1 DEF OnTimeLoop, OnTimeAwake
    <3>4. Served'
      BY <1>c, <2>1, <3>1, <3>2 DEF Served, Reached
    <3> QED
      BY <1>3, <1>4, <3>3, <3>4
  <2>3. CASE second # 0
    <3>1. pc' = "ticked"
      BY <1>4, <2>3 DEF Tick
    <3>2. \A r : Reached(r)' = Reached(r)
      BY <2>1, <3>1 DEF Reached
    <3>3. Served'
      BY <1>a, <1>c, <1>d, <2>1, <2>3, <3>2 DEF Served
    <3> QED
      BY <1>3, <1>4, <3>1, <3>3 DEF OnTimeLoop
  <2> QED
    BY <2>2, <2>3
<1>5. CASE Skip \/ Execute
  <2>1. /\ pc = "rows" /\ pc' = "rows" /\ row \in Rows /\ row' = row + 1
        /\ UNCHANGED <<time, t, failed, ontime>>
    BY <1>5 DEF Skip, Execute, clock, history
  <2>2. OnTimeLoop'
    BY <1>a, <2>1 DEF OnTimeLoop
  <2>3. ASSUME ontime, NEW r \in Rows
        PROVE  enqueued'[r] = IF IsDue(r) /\ r < row + 1 THEN 1 ELSE 0
    <3>1. t = time /\ failed = 0 /\ r \in Rows \ {failed}
      BY <1>a, <2>1, <2>3 DEF OnTimeLoop, Rows
    <3>2. enqueued[r] = IF IsDue(r) /\ r < row THEN 1 ELSE 0
      BY <1>a, <2>1, <2>3, <3>1 DEF Served, Reached
    <3>3. Matches(row) <=> IsDue(row)
      BY <1>a, <2>1, <3>1, MatchesWhenDue DEF Up
    <3>4. enqueued'[r] = IF r = row /\ Matches(row) THEN enqueued[r] + 1 ELSE enqueued[r]
      <4>1. CASE Skip
        BY <4>1 DEF Skip, history
      <4>2. CASE Execute
        BY <1>b, <4>2 DEF Execute
      <4> QED
        BY <1>5, <4>1, <4>2
    <3>5. r \in Nat /\ (r < row + 1 <=> r < row \/ r = row) /\ (r = row => ~(r < row))
      BY <1>b DEF Rows
    <3> QED
      BY <3>2, <3>3, <3>4, <3>5
  <2>4. Served'
    BY <1>a, <1>c, <1>d, <2>1, <2>3 DEF Served, Reached, OnTimeLoop
  <2> QED
    BY <1>3, <1>5, <2>2, <2>4
<1>6. CASE ExecuteRaises
  <2>1. /\ pc = "rows" /\ pc' = "ticked" /\ row \in Rows /\ failed' = row
        /\ UNCHANGED <<time, ontime>>
        /\ \A r \in Rows \ {row} : enqueued'[r] = enqueued[r]
    BY <1>6, <1>b DEF ExecuteRaises, clock
  <2>2. ASSUME ontime, NEW r \in Rows \ {row}
        PROVE  enqueued'[r] = IF IsDue(r) /\ r < row THEN 1 ELSE 0
    <3>1. failed = 0 /\ r \in Rows \ {failed}
      BY <1>a, <2>1, <2>2 DEF OnTimeLoop, Rows
    <3> QED
      BY <1>a, <2>1, <2>2, <3>1 DEF Served, Reached
  <2>3. row # 0
    BY <2>1 DEF Rows
  <2>4. Served'
    BY <1>c, <1>d, <2>1, <2>2, <2>3 DEF Served, Reached
  <2> QED
    BY <1>3, <1>6, <2>1, <2>4 DEF OnTimeLoop
<1>7. CASE TickEnds \/ Sleep
  <2>1. /\ pc \in {"rows", "ticked"} /\ pc' \in {"ticked", "sleep"}
        /\ UNCHANGED <<time, enqueued, failed, ontime, row>>
    BY <1>7 DEF TickEnds, Sleep, clock, history
  <2>2. pc = "rows" => \A r \in Rows : r < row
    BY <1>7, <1>a DEF TickEnds, Sleep, TypeOK, Rows
  <2>3. \A r \in Rows : Reached(r)' = Reached(r)
    BY <2>1, <2>2 DEF Reached
  <2>4. Served'
    BY <1>a, <1>c, <1>d, <2>1, <2>3 DEF Served
  <2> QED
    BY <1>3, <1>7, <2>1, <2>4 DEF OnTimeLoop
<1>8. CASE UNCHANGED vars
  BY <1>8, <1>a, <1>c, <1>d DEF vars, clock, history, MinuteInv, AcceptedWhenUp, Up,
     DaysOf, OnTimeUp, OnTimeLoop, OnTimeAwake, Served, Reached
<1> QED
  BY <1>1, <1>2, <1>4, <1>5, <1>6, <1>7, <1>8 DEF Next

(* "Run once per minute" (cron_scheduler.py:76): in a minute that found the *)
(* thread asleep, and in which it was not a second late to look at the      *)
(* clock, each row that was due has been enqueued once and no other, as far *)
(* as the loop has come or an enqueue that failed has let it, whatever the  *)
(* configuration says and whatever happened in the minutes before.          *)
THEOREM CronServesEveryMinute == Spec => EveryMinuteRuns
<1>1. MinuteInv /\ [Next]_vars =>
        [time' # time /\ ontime =>
           LET due(r) == \A field \in {"minutes", "hours", "days"} :
                           config[r][field] \in {Star, Missing} \/ time[field] \in config[r][field]
               reached(r) == (failed # 0 => r < failed) /\ (pc = "rows" => r < row)
           IN  \A r \in Rows \ {failed} :
                 enqueued[r] = IF due(r) /\ reached(r) THEN 1 ELSE 0]_vars
  <2> SUFFICES ASSUME MinuteInv, [Next]_vars, time' # time, ontime
               PROVE  \A r \in Rows \ {failed} :
                        enqueued[r] = IF IsDue(r) /\ Reached(r) THEN 1 ELSE 0
    BY DEF IsDue, Reached
  <2>1. Advance /\ half = 1 /\ second' = 0
    BY DEF Next, vars, clock, Advance, NextSecond, Load, Tick, Skip, Execute, ExecuteRaises, TickEnds,
           Sleep, Dies, Replaced
  <2>2. second # 0
    BY <2>1, SecondGoesOn DEF Advance, NextSecond, MinuteInv, CronInv
  <2> QED
    BY <2>2 DEF MinuteInv, Served
<1> QED
  BY <1>1, MinuteInit, MinuteStep, PTL DEF Spec, EveryMinuteRuns
=============================================================================
