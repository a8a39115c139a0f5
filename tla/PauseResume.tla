---------------------------- MODULE PauseResume ----------------------------
(***************************************************************************)
(* Pausing and resuming a queue, in time: the queue_pause command, the     *)
(* pause key with its expiry, the two steps of dequeue on either side of   *)
(* it (the same in redis.py and reliable_redis.py), and block_for_time     *)
(* (utils.py).                                                             *)
(*                                                                         *)
(* Each call to Redis and each look at the clock is a step of its own, so  *)
(* that other commands and time itself come between them.  Time goes by in *)
(* units.  A worker takes each of its steps in the unit when it is due or  *)
(* in the next one; a sleep, or a pop that finds no job, ends when its     *)
(* time is up.  A command takes what time it takes.                        *)
(***************************************************************************)
EXTENDS FiniteSetsExt, Naturals

CONSTANTS
  Workers,
  Commands,     \* the queue_pause commands that may run at the same time
  Timeout,      \* of dequeue: 15 seconds in worker.py
  Frequency,    \* check_frequency: 5 seconds
  Second,       \* how many units a second has
  Lengths,      \* for how long a command may ask to pause the queue
  Horizon       \* when the clock stops

ASSUME PauseAssumption ==
  /\ Timeout \in Nat \ {0} /\ Frequency \in Nat \ {0} /\ Second \in Nat \ {0}
  /\ Lengths \subseteq Nat /\ Horizon \in Nat

VARIABLES
  now,       \* the clock
  expires,   \* when the pause key expires, 0 if there is none
  worker,    \* each worker: where it is in dequeue, when its next step is due,
             \* the end of its wait, and (history) when it began to block
  command,   \* each queue_pause: how far it is, the `until` it has parsed, the
             \* seconds it then asks for, and (history) how far off `until` was
  promised,  \* history: when the pause last set is to end; 0 if it was resumed,
             \* or that time has come and the key is gone
  since      \* history: when the queue was last paused, or stopped being so

key  == <<expires, promised, since>>
vars == <<now, key, worker, command>>

is_paused == now < expires

(* Where a worker is in block_for_time.                                     *)
Waiting == {"block", "enter", "poll", "check", "sleep"}
Blocked(w) == worker[w].pc \in Waiting

WorkerPCs == {"idle", "checked", "peeked", "pop", "work"} \cup Waiting

TypeOK ==
  /\ now \in 0..Horizon /\ expires \in Nat /\ promised \in Nat /\ since \in 0..now
  /\ command \in [Commands -> [pc: {"none", "parsed", "checked", "send"},
                               until: Nat, seconds: Nat, left: Nat]]
  /\ worker \in [Workers -> [pc: WorkerPCs, due: Nat, end: Nat, began: Nat]]

NoCommand == [pc |-> "none", until |-> 0, seconds |-> 0, left |-> 0]
Idle      == [pc |-> "idle", due |-> now, end |-> 0, began |-> 0]

Init ==
  /\ now = 0 /\ expires = 0 /\ promised = 0 /\ since = 0
  /\ command = [c \in Commands |-> NoCommand]
  /\ worker = [w \in Workers |-> Idle]

GoTo(w, pc, due) == worker' = [worker EXCEPT ![w].pc = pc, ![w].due = due]
Return(w)        == worker' = [worker EXCEPT ![w] = Idle]

(* Nobody is late by more than a unit; a job takes what it takes.           *)
Advance ==
  /\ now < Horizon
  /\ \A w \in Workers : worker[w].pc = "work" \/ worker[w].due >= now
  /\ now' = now + 1
  /\ since' = IF expires = now' THEN now' ELSE since
  /\ promised' = IF promised <= now' /\ expires <= now' THEN 0 ELSE promised
  /\ expires' = IF expires <= now' THEN 0 ELSE expires
  /\ UNCHANGED <<worker, command>>

-----------------------------------------------------------------------------
(* Commands. *)

(* parse_duration_to_time or parse_time: when the pause is to end.          *)
Parse(c, length) ==
  /\ command[c].pc = "none"
  /\ command' = [command EXCEPT ![c].pc = "parsed", ![c].until = now + length]
  /\ UNCHANGED <<now, key, worker>>

(* handle() refuses a time in the past.                                     *)
Handle(c) ==
  /\ command[c].pc = "parsed"
  /\ command' = [command EXCEPT ![c] = IF @.until < now THEN NoCommand ELSE [@ EXCEPT !.pc = "checked"]]
  /\ UNCHANGED <<now, key, worker>>

(* Mutant: the time is rounded up. *)
Pause_roundedUp(c) ==
  /\ command[c].pc = "checked"
  /\ LET left == IF command[c].until > now THEN command[c].until - now ELSE 0
     IN  command' = [command EXCEPT
           ![c] = [pc |-> "send", until |-> 0, seconds |-> (left + Second - 1) \div Second, left |-> left]]
  /\ UNCHANGED <<now, key, worker>>

(* backend.pause reads the clock again: how many whole seconds are left.    *)
Pause(c) ==
  /\ command[c].pc = "checked"
  /\ LET left == IF command[c].until > now THEN command[c].until - now ELSE 0
     IN  command' = [command EXCEPT
           ![c] = [pc |-> "send", until |-> 0, seconds |-> left \div Second, left |-> left]]
  /\ UNCHANGED <<now, key, worker>>

(* SETEX refuses less than one second, and the command fails.  The key is   *)
(* to last from now on, which is later than the look at the clock: so much  *)
(* later than `until` does the pause end.                                   *)
Setex(c) ==
  /\ command[c].pc = "send"
  /\ command' = [command EXCEPT ![c] = NoCommand]
  /\ IF command[c].seconds > 0
     THEN /\ expires' = now + Second * command[c].seconds
          /\ promised' = now + command[c].left
          /\ since' = IF is_paused THEN since ELSE now
     ELSE UNCHANGED key
  /\ UNCHANGED <<now, worker>>

Resume ==
  /\ is_paused
  /\ expires' = 0
  /\ since' = now /\ promised' = 0
  /\ UNCHANGED <<now, worker, command>>

-----------------------------------------------------------------------------
(* dequeue *)

(* The look at the pause comes first ...                                    *)
Dequeue(w) ==
  /\ worker[w].pc = "idle"
  /\ \/ is_paused /\ worker' = [worker EXCEPT ![w].pc = "block", ![w].due = now,
                                              ![w].began = now]
     \/ ~is_paused /\ GoTo(w, "checked", now)
  /\ UNCHANGED <<now, key, command>>

(* ... then reliable_redis.py looks for a job left in its processing list,  *)
(* and runs it ...                                                          *)
Peek(w) ==
  /\ worker[w].pc = "checked"
  /\ GoTo(w, "work", 0) \/ GoTo(w, "peeked", now)
  /\ UNCHANGED <<now, key, command>>

(* ... and last comes the pop; in redis.py at once.                         *)
BeginPop(w) ==
  /\ worker[w].pc \in {"checked", "peeked"}
  /\ worker' = [worker EXCEPT ![w].pc = "pop", ![w].due = now + Timeout, ![w].end = now + Timeout]
  /\ UNCHANGED <<now, key, command>>

(* BRPOP or BRPOPLPUSH returns a job, or none in time. *)
Pop(w) ==
  /\ worker[w].pc = "pop"
  /\ now <= worker[w].end
  /\ GoTo(w, "work", 0)
  /\ UNCHANGED <<now, key, command>>

(* Mutant: the next pop is begun without a look at the pause. *)
PopTimeout_late(w) ==
  /\ worker[w].pc = "pop"
  /\ now >= worker[w].end
  /\ worker' = [worker EXCEPT ![w].due = now + Timeout, ![w].end = now + Timeout]
  /\ UNCHANGED <<now, key, command>>

PopTimeout(w) ==
  /\ worker[w].pc = "pop"
  /\ now >= worker[w].end
  /\ Return(w)
  /\ UNCHANGED <<now, key, command>>

Done(w) ==
  /\ worker[w].pc = "work"
  /\ Return(w)
  /\ UNCHANGED <<now, key, command>>

-----------------------------------------------------------------------------
(* block_for_time *)

(* It looks once before it computes the end of its wait ... *)
Enter(w) ==
  /\ worker[w].pc = "block"
  /\ IF is_paused THEN GoTo(w, "enter", now) ELSE Return(w)
  /\ UNCHANGED <<now, key, command>>

SetEnd(w) ==
  /\ worker[w].pc = "enter"
  /\ worker' = [worker EXCEPT ![w].pc = "poll", ![w].due = now, ![w].end = now + Timeout]
  /\ UNCHANGED <<now, key, command>>

(* ... and then each time it wakes, before it reads the clock. *)
Poll(w) ==
  /\ worker[w].pc = "poll"
  /\ IF is_paused THEN GoTo(w, "check", now) ELSE Return(w)
  /\ UNCHANGED <<now, key, command>>

(* Mutants: it sleeps to the end at once, and it has no end. *)
CheckEnd_once(w) ==
  /\ worker[w].pc = "check"
  /\ IF now > worker[w].end THEN Return(w) ELSE GoTo(w, "sleep", worker[w].end)
  /\ UNCHANGED <<now, key, command>>

CheckEnd_endless(w) ==
  /\ worker[w].pc = "check"
  /\ GoTo(w, "sleep", now + Frequency)
  /\ UNCHANGED <<now, key, command>>

(* At the very end it sleeps no time, and looks again until the end is past. *)
CheckEnd(w) ==
  /\ worker[w].pc = "check"
  /\ IF now > worker[w].end
     THEN Return(w)
     ELSE GoTo(w, "sleep", now + Min({Frequency, worker[w].end - now}))
  /\ UNCHANGED <<now, key, command>>

Wake(w) ==
  /\ worker[w].pc = "sleep"
  /\ now >= worker[w].due
  /\ GoTo(w, "poll", now)
  /\ UNCHANGED <<now, key, command>>

-----------------------------------------------------------------------------
WorkerStep(w) ==
  \/ Dequeue(w) \/ Peek(w) \/ BeginPop(w) \/ Pop(w) \/ PopTimeout(w) \/ Done(w)
  \/ Enter(w) \/ SetEnd(w) \/ Poll(w) \/ CheckEnd(w) \/ Wake(w)

CommandStep(c) == (\E length \in Lengths : Parse(c, length)) \/ Handle(c) \/ Pause(c) \/ Setex(c)

Next ==
  \/ Advance \/ Resume
  \/ \E c \in Commands : CommandStep(c)
  \/ \E w \in Workers : WorkerStep(w)

Spec == Init /\ [][Next]_vars

-----------------------------------------------------------------------------
(* Properties. *)

(* A worker that has looked before the pause may still take a job, but only *)
(* until the timeout of the pop it goes on to (and two units for the steps  *)
(* it may be late with): after that a paused queue is left alone.           *)
PauseTakesHold ==
  [][\A w \in Workers : is_paused /\ worker[w].pc # "work" /\ worker'[w].pc = "work"
       => now - since <= Timeout + 2]_vars

(* "The time at which the queue should reactivate" (queue_pause.py:70): the *)
(* pause last set lasts beyond it by no more than its SETEX was late after  *)
(* the look at the clock, and unless someone has resumed it the queue was   *)
(* paused until less than a second before, whatever commands came between.  *)
PauseEndsOnTime ==
  /\ is_paused => now < promised
  /\ promised > 0 /\ ~is_paused => now + Second > promised

(* A worker notices within check_frequency that the queue is not paused any *)
(* more (and three units for the steps it may be late with).                *)
ResumeIsNoticed ==
  \A w \in Workers : Blocked(w) /\ ~is_paused => now - since <= Frequency + 3

(* A worker comes back to its loop, where it looks whether it has to stop,  *)
(* no later than if it had waited for a job, however long the pause is.     *)
BlockingEnds ==
  \A w \in Workers : Blocked(w) => now - worker[w].began <= Timeout + 5
=============================================================================
