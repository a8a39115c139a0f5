--------------------------- MODULE CronScheduler ---------------------------
(***************************************************************************)
(* The cron thread of the first machine (cron_scheduler.py): it wakes at   *)
(* each second, and in the first second of a minute enqueues the rows that *)
(* match, one after the other.  It ends with the master process, and       *)
(* another master may take its place.                                      *)
(*                                                                         *)
(* Time goes by in half seconds, so that the thread can be late within a   *)
(* second and by more than one.  It passes while the thread sleeps, and    *)
(* between any two of its steps: the process is not scheduled, or the      *)
(* backend is slow to take a job.                                          *)
(***************************************************************************)
EXTENDS Naturals, Sequences

CONSTANTS
  Seconds,    \* seconds in a minute, 60 in reality
  Minutes,    \* minutes in an hour
  Hours,      \* hours in a day
  Days,       \* days in a week
  Configs,    \* what the cron.py files may hold: sequences of rows, each with
              \* [minutes, hours, days], which are sets of numbers, Star or
              \* Missing
  Star,       \* '*'
  Missing,    \* no value
  MinDown     \* the half seconds, at least, until the next one has started

Fields == [minutes |-> 0..(Minutes - 1), hours |-> 0..(Hours - 1), days |-> 1..Days]
Times  == [minutes: Fields.minutes, hours: Fields.hours, days: Fields.days]

ASSUME CronAssumption ==
  /\ Seconds \in Nat \ {0, 1} /\ Minutes \in Nat \ {0} /\ Hours \in Nat \ {0} /\ Days \in Nat \ {0}
  /\ MinDown \in Nat \ {0, 1}
  /\ \A c \in Configs : Len(c) \in Nat

VARIABLES
  config,     \* the rows of the cron.py files
  time,       \* the clock: minute, hour and day,
  second,     \* the second in the minute,
  half,       \* and whether half of that has gone (1) or not (0)
  pc,         \* "load", "awake" (tick() is to be called), "rows", "ticked"
              \* (tick() is over), "sleep", "down", "refused"
  t,          \* the time tick() has read
  row,        \* the row its loop is at
  down,       \* how long the master has been down, up to MinDown
  \* History of the current minute:
  enqueued,   \* how often each row was enqueued
  failed,     \* the row whose enqueue has raised, 0 if none has
  ontime      \* the thread slept as the minute began, it is still there, and
              \* has read the clock in the second in which it woke

history == <<enqueued, failed, ontime>>
clock   == <<time, second, half>>
vars    == <<config, clock, pc, t, row, down, history>>

Rows == 1..Len(config)

TypeOK ==
  /\ config \in Configs
  /\ time \in Times /\ second \in 0..(Seconds - 1) /\ half \in 0..1
  /\ pc \in {"load", "awake", "rows", "ticked", "sleep", "down", "refused"}
  /\ t \in Times /\ row \in 1..(Len(config) + 1) /\ down \in 0..MinDown
  /\ enqueued \in [Rows -> Nat] /\ failed \in 0..Len(config) /\ ontime \in BOOLEAN

Nothing == [r \in Rows |-> 0]

(* The master is started at any time. *)
Init ==
  /\ config \in Configs
  /\ time \in Times /\ second \in 0..(Seconds - 1) /\ half \in 0..1
  /\ pc = "load"
  /\ t = time /\ row = 1 /\ down = 0
  /\ enqueued = Nothing /\ failed = 0 /\ ontime = FALSE

-----------------------------------------------------------------------------
(* The clock. *)

NextTime ==
  LET minute == (time.minutes + 1) % Minutes
      hour   == IF minute = 0 THEN (time.hours + 1) % Hours ELSE time.hours
      day    == IF minute = 0 /\ hour = 0 THEN (time.days % Days) + 1 ELSE time.days
  IN  [minutes |-> minute, hours |-> hour, days |-> day]

NextSecond ==
  /\ second' = (second + 1) % Seconds
  /\ IF second' = 0
     THEN time' = NextTime /\ enqueued' = Nothing /\ failed' = 0 /\ ontime' = (pc = "sleep")
     ELSE UNCHANGED <<time, enqueued, failed>> /\ ontime' = (ontime /\ pc # "awake")

(* time.sleep(1 - time.time() % 1) ends when the next second begins. *)
Advance ==
  /\ half' = 1 - half
  /\ IF half = 1 THEN NextSecond ELSE UNCHANGED <<time, second, history>>
  /\ pc' = IF pc = "sleep" /\ half = 1 THEN "awake" ELSE pc
  /\ down' = IF pc = "down" /\ down < MinDown THEN down + 1 ELSE down
  /\ UNCHANGED <<config, t, row>>

-----------------------------------------------------------------------------
(* The configuration. *)

(* get_matcher raises if there is no value, or a number that is out of      *)
(* range; otherwise it gives the numbers that match.                        *)
Accepted(value, field) == value = Star \/ (value # Missing /\ value \subseteq Fields[field])
Matcher(value, field) == IF value = Star THEN Fields[field] ELSE value

DaysOf(r) == IF config[r].days = Missing THEN Star ELSE config[r].days

Matches(r) ==
  /\ t.hours \in Matcher(config[r].hours, "hours")
  /\ t.minutes \in Matcher(config[r].minutes, "minutes")
  /\ t.days \in Matcher(DaysOf(r), "days")

(* get_cron_config: with a row that is wrong the master does not start.     *)
Load ==
  /\ pc = "load"
  /\ pc' = IF \A r \in Rows : /\ Accepted(config[r].minutes, "minutes")
                              /\ Accepted(config[r].hours, "hours")
                              /\ Accepted(DaysOf(r), "days")
           THEN "awake" ELSE "refused"
  /\ UNCHANGED <<config, clock, t, row, down, history>>

-----------------------------------------------------------------------------
(* The thread. *)

(* Mutants: a tick only at the very start of the minute, and a row too far. *)
Tick_exact ==
  /\ pc = "awake"
  /\ IF second = 0 /\ half = 0
     THEN pc' = "rows" /\ t' = time /\ row' = 1
     ELSE pc' = "ticked" /\ UNCHANGED <<t, row>>
  /\ UNCHANGED <<config, clock, down, history>>

Tick_fromZero ==
  /\ pc = "awake"
  /\ IF second = 0
     THEN pc' = "rows" /\ t' = time /\ row' = 0
     ELSE pc' = "ticked" /\ UNCHANGED <<t, row>>
  /\ UNCHANGED <<config, clock, down, history>>

(* tick() reads the time, and returns in any but the first second. *)
Tick ==
  /\ pc = "awake"
  /\ IF second = 0
     THEN pc' = "rows" /\ t' = time /\ row' = 1
     ELSE pc' = "ticked" /\ UNCHANGED <<t, row>>
  /\ UNCHANGED <<config, clock, down, history>>

Skip ==
  /\ pc = "rows" /\ row \in Rows
  /\ ~Matches(row)
  /\ row' = row + 1
  /\ UNCHANGED <<config, clock, pc, t, down, history>>

Execute ==
  /\ pc = "rows" /\ row \in Rows
  /\ Matches(row)
  /\ enqueued' = [enqueued EXCEPT ![row] = @ + 1]
  /\ row' = row + 1
  /\ UNCHANGED <<config, clock, pc, t, down, failed, ontime>>

(* The enqueue raises, the job being in the queue or not: the exception is  *)
(* logged by run(), the rest of the rows are not looked at.                 *)
ExecuteRaises ==
  /\ pc = "rows" /\ row \in Rows
  /\ Matches(row)
  /\ \/ enqueued' = [enqueued EXCEPT ![row] = @ + 1]
     \/ UNCHANGED enqueued
  /\ failed' = row
  /\ pc' = "ticked"
  /\ UNCHANGED <<config, clock, t, row, down, ontime>>

TickEnds ==
  /\ pc = "rows" /\ row \notin Rows
  /\ pc' = "ticked"
  /\ UNCHANGED <<config, clock, t, row, down, history>>

(* Mutant: no sleep between two calls of tick(). *)
Sleep_none ==
  /\ pc = "ticked" /\ pc' = "awake"
  /\ UNCHANGED <<config, clock, t, row, down, history>>

Sleep ==
  /\ pc = "ticked" /\ pc' = "sleep"
  /\ UNCHANGED <<config, clock, t, row, down, history>>

(* The thread is a daemon: it goes on while the master waits for its        *)
(* workers, and ends with the process, at any point.                        *)
Dies ==
  /\ pc \in {"awake", "rows", "ticked", "sleep"}
  /\ pc' = "down" /\ down' = 0
  /\ ontime' = FALSE
  /\ UNCHANGED <<config, clock, t, row, enqueued, failed>>

(* The next master has loaded Django, run its start-ups, and starts it.     *)
Replaced ==
  /\ pc = "down" /\ down = MinDown
  /\ pc' = "load"
  /\ UNCHANGED <<config, clock, t, row, down, history>>

Next ==
  \/ Advance \/ Load \/ Tick \/ Skip \/ Execute \/ ExecuteRaises \/ TickEnds
  \/ Sleep \/ Dies \/ Replaced

Spec == Init /\ [][Next]_vars

-----------------------------------------------------------------------------
(* Properties. *)

(* No row is enqueued twice in one minute, however late the thread is and   *)
(* whatever fails: it never calls tick() twice in the same second, and one  *)
(* that replaces it, a second later at least, finds that second over.       *)
AtMostOncePerMinute == \A r \in Rows : enqueued[r] <= 1

(* "Run once per minute" (cron_scheduler.py:76), with "values 1-7 to match  *)
(* isoweekday()" (README.md:212): when a minute ends that found the thread  *)
(* asleep, and in which it was not a second late to look at the clock, the  *)
(* rows due in it have been enqueued and no others, as far as its loop has  *)
(* come. A loop that an enqueue ends has come to that row, which may be in  *)
(* the queue or not; whatever was late or failed in other minutes is over.  *)
EveryMinuteRuns ==
  [][time' # time /\ ontime =>
       LET due(r) == \A field \in {"minutes", "hours", "days"} :
                       config[r][field] \in {Star, Missing} \/ time[field] \in config[r][field]
           reached(r) == (failed # 0 => r < failed) /\ (pc = "rows" => r < row)
       IN  \A r \in Rows \ {failed} :
             enqueued[r] = IF due(r) /\ reached(r) THEN 1 ELSE 0]_vars
=============================================================================
