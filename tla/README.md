# A verification development for django-lightweight-queue

The library lets Django code enqueue jobs in Redis, and runs them in worker
processes that a master process on each machine supervises. The TLA+ modules
here model its concurrent core, the run of a single job and the set-up of a
pool of machines; TLC checks them on small instances, and TLAPS proves the main
results for every value of the constants. Paths below are relative to
`src/django_lightweight_queue/`.

## Inventory

| Component | State | Operations | Interacts with |
|---|---|---|---|
| `backends/reliable_redis.py` | one main list, one processing list per worker number, a pause key, all in Redis | `enqueue`, `bulk_enqueue`, `dequeue`, `processed_job`, `startup`, `deduplicate`, `pause`, `resume`, `clear` | clients, workers, masters and management commands, all at once, one Redis command at a time |
| `backends/redis.py` | one main list, a pause key | the same without `startup`, `processed_job`, `deduplicate` | as above |
| `task.py` | `_to_create` of a `BulkEnqueueHelper`; the queue names that tasks imply; `atomic` of a task | `__call__`, `bulk_enqueue`, `flush` | backend, `utils.py` |
| `worker.py` | `running`, signal dispositions, the pending alarm, `item_count`, idle time | `run`, `process`, `configure_cancellation`, signal handlers | backend, `job.py`, signals of the master |
| `job.py`, `middleware/`, `get_middleware` in `utils.py` | the job, its serialised form `_json`, the cached middleware, the transaction of the task | `run`, `to_json`, `from_json`, `identity_without_created` | its callers: worker, synchronous backend, debug view |
| `runner.py` | `running`, the worker processes | start-up, supervision loop, SIGTERM, shutdown | `machine_types.py`, backend start-up, workers, cron thread |
| `management/commands/queue_runner.py`, `machine_types.py`, `utils.py` | `app_settings.WORKERS`, `_accepting_implied_queues` | validation, `worker_names`, `contribute_implied_queue_name`, `block_for_time` | settings, runner |
| `app_settings.py`, `command_utils.py` | layers of settings | `add_layer`, lookup, `load_extra_settings` | every process, at import and later |
| `cron_scheduler.py` | the clock, the configuration rows | `get_cron_config`, `run`, `tick`, `ensure_queue_workers_for_config` | enqueues through `task.py` |
| `queue_pause`, `queue_resume`, `queue_clear`, `queue_deduplicate` | none | a time parsed and checked, one backend call each | backends |
| `backends/synchronous.py`, `views.py`, `backends/debug_web.py`, `exposition.py` | none (the view: a transaction) | run a job inline, print a URL, serve metrics | `job.py` |

What is hard here: several processes change the same Redis keys between each
other's commands; processes die or are killed at any point and their
replacements find what they left; start-up moves jobs under `WATCH` while
workers of other machines are alive; deduplication works from a snapshot; a
reply may be lost after its command was executed; signals arrive between any
two steps of a worker; middleware, tasks and the touch file may raise at any
point of a run, inside and outside of its `try` and its transaction; masters
that never talk to each other must agree on who runs what, also while one
after the other gets new settings; settings are read at different times; and
time: timeouts, the expiry of a pause, the first second of a minute.
`PROJECT.json` lists these hazards at their lines, with the properties that
look for each.

What makes each component correct:

* the reliable backend: a job is in Redis until it has been run (at least
  once); moves neither lose nor copy jobs; deduplication keeps the oldest; no
  job is run twice at once in ordinary operation; every job is run in the end;
* the plain backend: an entry is started at most once, in order;
* a run: an atomic task is all or nothing, what `run()` returns is what the
  middleware was told, the debug view leaves nothing, and what was done is
  acknowledged and not done again unless the process died;
* workers and masters: alarms hit only the job they were set for, shutdown
  spares jobs, a machine told to end does end and leaves no process behind;
* the pool: each worker on exactly one machine, each cron queue with a worker,
  one machine that runs cron;
* cron: no row twice in a minute, none forgotten by a thread that is on time;
* pausing: a pause takes hold and ends when it was said to, a resume is
  noticed, and blocking ends.

## The modules

`ReliableRedis` is the core. One action is one Redis command, or one MULTI/EXEC,
of one process; what the process does in memory until its next command is part
of the action. `main` and `proc[w]` are the lists. `worker[p]` is a worker
process: `idle` (before `is_paused`), `checked` (before LINDEX), `empty` (in
BRPOPLPUSH), `running` (in `Job.run`), `ran` (before LREM). `boot[m]` is a
master: `keys`, `watch` and `read` are the steps of `startup`, with the keys
still unread, the data gathered and whether a watched key has been touched;
`up` is its supervision loop. A deduper's `snap[d]` is the list it read and
`todo[d]` the positions it has still to LREM. `unacked` is the batch a
`BulkEnqueueHelper` keeps when its push raised. A worker process that outlives
its master goes on with `host = NoHost`. Three history variables serve
properties: `unrun` (pushed, not run), `owed` (no identical job was run since
the push) and `dropped` (taken off by a deduper). The events of the environment
(`Events`) are crashes, orderly stops, masters killed over live workers, rolling
changes of the worker count, pausing, clearing, deduplication and lost replies;
each spends one unit of `Budget`.

`AtLeastOnce` is its abstract specification: a set of jobs held, which a job
enters once, when it is pushed, and the three reasons for which one may leave it,
never to come back. `ReliableRedis!KeepsPromise` states the refinement, with all
lists mapped to one set. It is stated without the events `"lost_reply"` (a push
that is repeated does bring jobs back); `KeptUntilRun` and `NeverCopies` cover
those.

`RedisBackend` is the plain backend between clients (`TaskWrapper.__call__` and
the life of a `BulkEnqueueHelper`, with its double flush) and workers. A
command may fail for its client with the request lost or with the reply lost;
a pop whose reply is lost takes its job with it. `AtMostOnce` is its abstract
specification, `RedisBackend!KeepsPromise` the refinement: it counts entries of
the list, since a flush that is repeated pushes a second one.

`JobRun` takes one job from the processing list to its acknowledgement.
`pc` and `at` say where `Job.run` is: `load` (`get_middleware`), `before` (the
`process_job` hooks), `task` (`get_task_instance`), `write` (in the task),
`after` and `failed` (the other hooks, in reverse), `returned`; and for a worker
`idle`, `ack` and `dead`. `caller` is who called `run()`: `Worker.process`,
`SynchronousBackend.enqueue`, or the view `debug_run`. The task writes twice to
the database, into `db` at once or into the open transaction `pending`. `raw`
and `changed` say whether `to_json` gives back the bytes of the entry, which is
what LREM goes by. Anything may raise an `Exception`, which `run()` catches
within its `try`, or a `BaseException`, which ends the process; and the process
may die at any step.

`Worker` is the loop of `Worker.run` and `Worker.process` for the workers of
one machine, cut at the points where a signal makes a difference, with the
handlers; of the backend only the job in the worker's processing list is kept.
`Runner` EXTENDS it with the master: start-up, one action per turn of each
`for` loop, SIGTERM and the wait for the workers.

`Settings` has the layers of `app_settings.py` as functions from names to
values. `WorkerPool` EXTENDS it: every master of a pool imports its tasks,
handles its command line and settings file, adds the cron queues, and deals the
workers (`worker_names`) in the order of queue and number; then a new release
is put on one machine after the other (`Restart`). A queue is a number, its
place in the sorted names. `child[m]` is one worker process of the machine,
which loads the settings file after its imports. The masters share nothing, so
their steps interleave freely.

`PauseResume` is `queue_pause` from the parsed argument to SETEX, for several
commands at once, the pause key with its expiry, `dequeue` and
`block_for_time`, in discrete time. Each call to Redis and each look at the clock
is an action of its own: a command parses, checks `until`, computes what is left,
and sends SETEX; a worker is `checked` between EXISTS and LINDEX, `peeked`
between LINDEX and the pop, and in `block_for_time` `enter`, `poll`, `check` and
`sleep` are its places between the looks at the key and at the clock. A worker
may be late by one unit with each of its steps; commands take any time.

`CronScheduler` is the check of the cron configuration and the cron thread
against a clock of half seconds with a calendar, with enqueues that raise and
masters that die and are replaced. Time may pass between any two of its steps
without limit. `ticked` is the place between the end of `tick()` and the sleep.
The history is that of the current minute only: how often each row was
`enqueued`, the row whose enqueue `failed`, and whether the thread is `ontime`
(asleep as the minute began, still there, and it read the clock in the second in
which it woke).

Modules whose names begin with `MC` give TLC the constants that a .cfg cannot
write. Operators named after a definition with a suffix (`Exec_unwatched`,
`CheckEnd_once`, ...) are mutants: the same definition with a plausible bug. Each
property checked has one that it catches.

## The runs

| Run | Question | Distinct states |
|---|---|---|
| `Recovery` | two machines of one pool that stop, crash and come back with two or three workers, the start-up of one beside live workers of the other, next to a deduplication, which may be interrupted, and a clear: no job twice at once, one job per processing list, FIFO, the oldest twin stays, a deduplication that ends leaves no twins, refinement of `AtLeastOnce` | 951 thousand |
| `Rolling` | start-up against workers that outlived their master, on two machines with different counts, and repeated pushes: nothing lost, nothing copied | 1.15 million |
| `Drains` | liveness with a poison job, pauses, crashes, and fewer workers after a restart | 74 thousand |
| `Supervision` | signals at every point; nothing left behind; shutdown, restarts and timeouts come to an end | 309 thousand |
| `RedisQueue` | no entry started twice, order, bulk blocks, refinement of `AtMostOnce` | 222 thousand |
| `Jobs` | three middlewares, three callers, atomic tasks and others, up to four faults: what is committed, told, returned and acknowledged; a worker gets through its jobs | 46 thousand |
| `Pool` | from one release to the next: each wanted worker on one machine, evenly; none on two during a change that keeps their places; cron is served | 320 thousand |
| `Cron` | rows accepted or refused; no row twice; none missed, and none run at other times, in a minute in which the thread read the clock in time | 52 thousand |
| `Pausing` | two pause commands at once and a resume, between any two steps of a worker: bounds on how late a pause and a resume take effect, and on when a pause ends | 8.7 million (up to symmetry) |

Three more runs show that a sentence of the documentation does not hold of the
code (`findings` in `PROJECT.json`):

* `TwoDedupers`: two deduplications at once can remove every copy of a job.
* `RollingStrands`: a worker count lowered machine by machine leaves a job
  stranded in the list of a worker that is no more.
* `StaleSettings`: a settings file that turns metrics on is loaded after
  `worker.py` has looked, and every worker ends after its first `process()`.

Other disagreements are in the models without a run of their own. A worker that
has looked at the pause key takes a job after the pause (`queue_pause.py:43`;
`PauseTakesHold` bounds for how long). The clock is read twice by `queue_pause`
and `int()` cuts the rest, so `--for 5s` pauses for four seconds and `--for 1s`
is refused by SETEX (`PauseEndsOnTime` bounds the loss by one second); and a
pause outlasts `until` by what SETEX comes later than the second look at the
clock (`promised` is that much later). Start-up empties only the lists of worker
numbers no longer in use (`reliable_redis.py:34`; `Exclusive` needs it to). When
the reply of a push is lost, `BulkEnqueueHelper.__exit__` pushes the same jobs
again, so that a job may be started twice where `redis.py:16` says at most once
(`KeepsPromise` counts entries). A settings file with `WORKERS` hides the queues
that tasks imply, which `task.py:50` says are given a worker (`Wanted` in
`WorkerPool`). A `sigkill_on_stop` job begun after the signal runs to its end
(`task.py:57`; `OneMoreJobAtMost` bounds how many). A cron thread late by a
second skips a minute (`cron_scheduler.py:76`; hence the condition `ontime` in
`EveryMinuteRuns`), and one whose enqueue raises skips the rows after it.
Outside of the models: the README speaks of `LIGHTWEIGHT_QUEUE_SITE_URL` where
`debug_web.py` reads `SITE_URL`, and `queue_configuration` does not list the
queues that cron rows imply.

**Bounds.** Jobs: two or three are enough for a job to be overtaken, repeated or
merged; `Recovery` has three, of which two are identical. It has two machines
and counts {2, 3}: each machine has a live worker while the other starts up, and
list 3 is the one that can become stale. In `Rolling` counts {1, 2} give one
list that can become stale, and there is a third process, since two can hold the
same number only then. `Drains` has counts {2, 3}: one worker alone never gets
past a job that kills it each time, and as many entries of such a job as there
are workers would stop them all. `Budget` counts events: four in `Recovery`,
three in `Rolling`, two in `Drains`; the mutants are caught within it. In
`Supervision` a worker may handle three jobs before it reaches its limit (1001
in reality), so that one told to stop during the first could begin two more. In
`Jobs` the three middlewares have all hooks, only the first two kinds and only
the last two, one may be unused, and four faults are enough for a job to be
begun in three processes with an exception handled in the last; two writes tell
a partial commit from none and all. `Pool` has two machines and a third master
with number 0, up to seven workers in four queues, and every combination of a
settings file, implied queues, `--only-queue` and `--exact-configuration`; a
release adds a queue at either end, adds cron rows, or drops the configuration.
In `Cron` delays, failures and replacements are not bounded at all; a minute has
three seconds, and two minutes, hours and days carry over into each other. In
`Pausing` the horizon is more than twice the timeout, two commands overlap in
any order (`--for` five units, longer than the timeout, or less once the command
is delayed), one worker is enough since workers do not touch the key, and the
bounds of its properties are exact: with any of the three numbers one smaller
TLC finds a counterexample. Workers are interchangeable, so the safety runs of
the backends use symmetry, as `Pausing` does for its commands; the liveness runs
do not. `MainNewestFirst` and `OneInFlight` are checked where one list at most
is stale and no worker outlives its master, since neither holds otherwise:
start-up gathers several lists in the order of a Python set.

**Deadlock** is checked except where the system stops: `Runner` (the master
ends), `Jobs` (no job is left, or the call is over), `Pool` (every machine has
the new release) and `Pausing` (the clock ends).

**Fairness** is weak, per process. Worker and master processes that are alive
are scheduled by the operating system; a master that has ended is started again
by its supervisor; a loop over worker numbers reaches each; a pause key expires;
an alarm that is due goes off (in `Runner`). In `JobRun` the process takes its
next step and, if it is dead, is started again; deaths and exceptions are
bounded by `MaxFaults` and not fair. Nothing is assumed of clients, crashes or
commands, and jobs outside `Poison` (or those not `slow`) return.

**Time between masters.** `CronScheduler` assumes that a master which has ended
is replaced a second later at the earliest (`MinDown`): it loads Django and runs
the start-ups of its queues first. Two masters of one machine that overlap, or
change faster than that, may both enqueue the rows of a minute.

## What is proved

All theorems hold for all values of the constants that satisfy the module's one
named assumption.

**`ReliableRedisProofs`**, from `ConstantsAssumption`, in three layers, each with
an invariant that contains the one before.

For all values of the constants:

* `TypeCorrect`: `Spec => []TypeOK`. `TypeOK` includes that a worker has a job
  exactly when it runs one and that a start-up has unread keys only among the
  stale ones it watches.
* `AtLeastOnceHolds`: `Spec => []KeptUntilRun`. Not inductive as it stands: an
  acknowledgement removes a job from the lists, so the job must have been run
  (`RanIsDone`); and EXEC deletes lists, so what it gathered must be what they
  still hold unless a touch was noted (`GatheredAll`, the reason for `WATCH`).
  `OnlyPushed` keeps new batches apart from jobs that have been run. The
  invariant `IInv` conjoins these; each action has its step, and `KeptStep` is
  their union.
* `StartupTakesWhatIsThere` (the action property `StartupMovesAll`): the converse,
  that what an undisturbed start-up has gathered is still where it read it
  (`GatheredOnly`). The lemma `Undisturbed` says what a step does to a start-up
  that no one has touched by the end of it.
* `MovesNeverCopy` (the action property `NeverCopies`), for a finite set of worker
  numbers, without which the places of a job could not be counted. Every step but
  a push has an injection from the places after it to those before it that keeps
  their jobs (`Sourced`). For EXEC this takes an invariant: what an undisturbed
  start-up has gathered is witnessed by as many different places in the stale
  lists (`GatheredOnce`).

For `Orderly` settings: the environment does not kill a master over its workers,
restart machines with different counts, or lose the reply of a push (`"orphan"`,
`"reconfigure"` and `"lost_reply"` are not in `Events`). These are the settings of
the run `Recovery`: any number of machines, the start-up of each beside the live
workers of the others, as long as all that are up have read the same count. Each
of the three breaks what is stated: an orphan goes on
with the job that the successor of its number finds; a machine with a lower count
takes for stale the list of a worker that another machine still runs; and a push
repeated after a lost reply puts the job into the queue twice.

* `NoJobRunsTwiceAtOnce` (`Exclusive`) and `OneJobPerNumber` (`OneInFlight`). The
  invariant `OrderlyIInv` adds who may do what (`Owners`: masters that are up
  agree on the count; a worker has a host that is up and a number that the host
  gives it; no two have the same number; a start-up has only lists above the
  count for stale), that the job in a worker's hand is what its list holds
  (`InHand`), and that no job is in two places (`OnePlace`), which for EXEC
  needs that what is gathered is without repetition (`GatheredDistinct`).

For `Orderly` settings whose numbers of workers differ by one at most
(`OneStray`: one number at most is in the range of some setting and not of all,
as with {2, 3}), so that one list at most is ever stale: several stale lists
come back in the arbitrary order of a Python set, and the queue is then not in
order. Deduplication relies on that order, as it calls the tail of the list the
oldest job.

* `FirstInFirstOut` (`MainNewestFirst`), from `StaleOlder`: what can still be
  recovered is older than all that waits.
* `DedupSparesTheOldest` (`DroppedHasElder`) and `DedupIsThorough` (the action
  property `DedupLeavesNoTwins`), for any number of dedupers at once. The snapshot
  of each is ordered and it removes surplus positions only (`SnapOrdered`); of two
  identical jobs of which it has dealt with the newer one, one is neither on the
  queue nor able to come back to it (`NotBoth`). The invariant is `FifoIInv`.
* `ImplementsAtLeastOnce` (`KeepsPromise`), with one deduper at a time: the
  refinement of `AtLeastOnce`, each action mapped to a step of it or to a stutter
  (`PromiseStep`). A job that a deduper removes must have an identical one left, or
  its work must be done. That is `ElderStays`: for each position it still has to
  remove there is an older twin which it leaves; while the work of the newer one is
  owed and it can be on the queue, the twin is in Redis, and who runs the twin
  does the work of both. The run `TwoDedupers` shows why only one deduper.

`ListLemmas` has the facts about `Reverse`, concatenation, `Front`/`Last` and
`RemoveFirst` on which the steps rest: what each keeps of the set of elements, of
their order (`Descends`) and of there being no repetition (`Distinct`), where
elements move, and how often an element is in the result (`CountConcat`,
`CountFront`).

**`RedisBackendProofs`**, from the assumption of `RedisBackend`, for any number of
clients, jobs, workers and losses:

* `RedisBackendTypeCorrect` and `BulkPushesEachOnce` (`BulkIsEquivalent`), from an
  invariant per client (`ClientOK`): its batch are the jobs it made last, in order
  (`BatchOf`), and was pushed as a whole if at all (`Together`); jobs not yet made
  have not been pushed (`Unmade`); while nothing has failed, the jobs of the batch
  have not been pushed and all before them once (`Sent`); and the block is left
  without an exception only at its end (`OnItsWay`).
* `StartsFollowTheClient` (the action property `StartedInOrder`): what is in the
  queue has been pushed (`QueuePushed`), and a job of a client that is behind a
  newer one of it was pushed twice (`QueueInOrder`).
* `ImplementsAtMostOnce` (`KeepsPromise`): the refinement of `AtMostOnce`, by
  counting: a push adds one entry for each job of the batch, a pop takes one.

**`RunnerProofs`**, from `WorkerAssumption`, for any number
of workers and kinds of jobs. `RunnerIInv` adds where the limit of items stands
(`ItemsLeft`), which action SIGUSR2 has at each place of the loop
(`HandlerFits`), that a worker which was told to stop will pass the top of its
loop without a job (`ToldStops`), and that the workers the master has waited for
are gone (`WaitedFor`). With it: `RunnerTypeCorrect`, `AlarmsAreForTheJobInHand`
(`AlarmIsForThisJob`), `ToldWorkersStop` (`OneMoreJobAtMost`), `MasterWaitsForAll`
(`NoneLeftBehind`) and `ShutdownLetsJobsFinish` (the action property
`ShutdownSparesJobs`).

**`WorkerPoolProofs`**, from `WorkerPoolAssumption` (numbers of queues are positive,
`WORKERS` is a finite dict of counts wherever it is given, Django's settings
always exist), for any number of machines, queues and releases. `PoolIInv` says
of each master how far its settings have come (`MasterOK`: the layers are what
the release gives, then with implied queues, with the file, with cron queues)
and that its workers are its share of those that its own release asks for. With
it:

* `WorkerPoolTypeCorrect`; `EveryWorkerRunsOnce` (`EachWorkerOnce`): the share of
  a machine is given by the place of a worker in the list modulo the number of
  machines, so the shares are a partition of the list;
* `RollingIsSafe` (`SafeToRoll`): a worker that keeps its place keeps its machine;
* `SharesAreEven` (`Balanced`): places are the numbers from 0 to the length of the
  list, each once (`PlacesInTurn`), and the residue classes of that interval differ in
  size by one at most;
* `CronHasWorkers` (`CronIsServed`).

**`CronSchedulerProofs`**, from `CronAssumption`: `CronTypeCorrect` (`TypeOK`, with
the calendar) and `CronAtMostOnce`: `Spec => []AtMostOncePerMinute`, for minutes
of any length. The strengthening says why the next tick has no work: a thread
that is awake in second zero has come from the minute before (`FreshWhenAwake`),
because it sleeps to a boundary of a second; and a master that ended in second
zero is still down when that second is over (`DownSince`).

`CronServesEveryMinute` is the action property `EveryMinuteRuns`, for any delays,
failures and replacements in other minutes. A thread that slept as the minute
began wakes in its first second and, as long as it is `ontime`, has either still
to look at the clock in that second (`OnTimeAwake`) or works with the time of this
minute (`OnTimeLoop`). So each row that is due and that the loop has come to has
been enqueued once, and no other (`Served`), whether the loop is over, is still
going when the minute ends, or was ended by an enqueue that raised. It is up for
all of that (`OnTimeUp`), with a configuration that was accepted
(`AcceptedWhenUp`), and for accepted rows the matchers say what the row says
(`MatchesWhenDue`). `MinuteInv` conjoins these.

**`JobRunProofs`**, from `JobRunAssumption`, for any middleware setting and any
number of jobs and faults. `TypeInv` is `TypeOK` with where the loops are, what
the open transaction holds (`PendingOK`: the writes so far) and that only a
worker starts again. With it:

* `JobTypeCorrect`; `AtomicHolds` (`AllOrNothing`) and `DebugHolds`
  (`DebugLeavesNothing`), since only two actions write to `db`;
* `OnceHolds` (`OncePerLife`), from `WrittenOK`: outside of a run an entry that
  is left was written at most as often as its processes have ended, because
  every run that returns removes it, which needs that `_json` is the bytes read
  (`raw`) whatever has become of the job object;
* `HonestHolds` (`ReturnIsHonest`), from loop invariants: each loop over the
  middleware has told the places it has passed.

**`PauseResumeProofs`**, from `PauseAssumption`, for any timeouts and any number of
workers and commands: `PauseTypeCorrect`; `PauseEndsHolds` (`PauseEndsOnTime`);
`ResumeNoticedHolds`, `BlockingEndsHolds` and `TakesHoldHolds` (the action
property `PauseTakesHold`). A command that is about to send SETEX sends the whole
seconds of what was left at its look at the clock (`SendOK`), so the key ends less
than a second before what is `promised` and never after it (`KeyOK`). Nobody is
late by more than a unit (`OnTime`), so it is enough to bound when a worker's next
step is due: by where its wait began (`BlockOK`), by when it last saw the key
(`SeenOK`), and, for one that has not seen the key and goes on to a pop, by when
the pause began (`UnseenOK`). `PauseInv` conjoins these.

The type invariants of `JobRun` and `PauseResume` are proved and not in a run.

Only model-checked: the liveness properties, since the prover does not reach
fairness or ENABLED: `EveryJobRuns`, `Terminates`, `WorkersRestart`, `JobsEnd` and
`JobsLeave`; and the three findings, which are
counterexamples. The results for `Orderly` settings are proved for them
only; the run `Recovery` has no others either. The modules use no recursive
operators.

## Not modelled

* The metrics: the server of `exposition.py` answers with the names of the
  master's workers and keeps nothing; what is observed has no effect (but see
  `StaleSettings`).
* `queue_configuration`, `queue_deduplicate` and `queue_clear` beyond the
  backend call: they print and prompt. `DebugWebBackend` prints a URL.
* The pid file and daemonising of `queue_runner`; formats of times and
  durations; what is logged; `types.py` and the base classes, which are
  declarations.
* Building and validating a job in `task.py`, and serialisation (a job is its
  place in the order of pushes, with an identity; in `JobRun`, whether its bytes
  are still those of its entry).
* The clock being set. Redis executes each command atomically and does not lose
  what it acknowledged. Two masters of the same machine at once are considered
  only as far as workers of a killed master may go on next to those of its
  successor.
* Deduplication together with a worker that outlived its master and a change of
  the worker count: a twin can then be lost, as in `TwoDedupers`. `Recovery` and
  `Rolling` have these events apart.

## Plan

1. `ReliableRedis` with settings that differ by more than one worker: what
   `KeepsPromise` needs in place of the order of the queue once several lists can
   be stale.
2. Worker names over several queues composed with start-up (which machine starts
   up which queue during a change).
