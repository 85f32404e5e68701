# RDST in TLA+

Specifications of the parts of [RDST](../src/README.md) that run concurrently, checked with
TLC on small instances and proved about with TLAPS. RDST is a Python command line and local
HTTP server (`cli/`) that watches databases, analyzes their queries with an LLM and reports
on them; a React interface (`web/`) and an Electron shell (`desktop/`) sit on top of it.

Modelled is what runs beside something else: the durable job queue of Deep Analyze, the
performance reports, the scheduler that reads the databases, the monitor loop and the
renames and removals beside it, the watch that notices an outage, and the registry of
background runs. It is where a lost fence, a stale read or a
forgotten wake costs a user an analysis, a reading or money.

## 1. Inventory

| Part | Source (under `cli/` unless noted) | State | Operations | What is hard, what makes it correct | Modelled in |
|---|---|---|---|---|---|
| Job table | `shared/monitor/monitor_store.py` | rows of `analyze_job`: state, reason, owner, attempt, start day, error | enqueue, skip once, claim, hold, retry, finish, cancel, trim, drop, recover, forget | every method is one SQLite transaction, called by several processes; one open job per query, one worker per job, allowances | AnalyzeStore |
| Deep Analyze queue | `features/monitor/analyze_queue.py` | pass, worker tasks, active runs, wake and stop flags | recover, enqueue (new, stale, first hour, retry), trim, claim, process, deadline | passes run their store calls in threads beside each other; late workers; deadlines; a click must run | AnalyzeQueue |
| Queue's callers | `features/monitor/api/routes.py`, `shared/api/app.py`, `features/configure/service.py` | `app.state.analyze_queue` | click, cancel, settings, start and end of the server, removal | the queue is replaced while requests hold the old one | AnalyzeQueue |
| Performance reports | `features/monitor/report.py` and store | report rows, running tasks, slots | claim, write, cancel, recover, nightly plan | updates are not fenced; cancel from another process; a slow writer that was recovered | Reports |
| Observation scheduler | `features/query_registry/scheduler.py`, `shared/query_registry/observation_store.py` | attempts, readings left behind, leases, fences | launch, share, read, time out, cancel, lose a lease, stop, remove | a reading cannot be stopped; its admission, place and fence must outlive the attempt | ObservationScheduler, ObservationLease |
| Target backoff | `shared/target_backoff.py` | failures, due time, active flag of a database | acquire, finish, fail, reset, forget | four kinds of readers share one admission | TargetBackoff |
| Connection watch | `features/monitor/connection.py` | failures, last check, changed settings, in memory | check, tick, file, push, recover, settings changed | checks come from threads in any order; the item outlives the memory | ConnectionWatch |
| Inbox items | `shared/monitor/monitor_store.py` | items with a life cycle | upsert, promote, act, update | decided from a read, written later; the user acts in between | ConnectionWatch, for the item of an outage |
| Run registry | `shared/run_registry.py`, `shared/api/routes/runs.py` | runs with event logs, streams that follow them | start, cancel, wipe, end, evict, subscribe, replay | replay without gaps, one end per run, streams that end | RunRegistry |
| Analysis lane | `shared/analysis_lane.py` | runs per database, connection budget, statement lock | begin, stop, finish | a stop racing a registration | AnalyzeQueue, the stop only |
| Slots and sign-in | `features/monitor/database_limit.py` | AI state per database | claim, release, hold | answers from a remote service arrive late | planned |
| Monitor loop, run guard | `features/monitor/loop.py`, `run_guard.py` | passes, a thread per database, locks of names, the flag of a stopped loop | pass, cycle, start, stop, admit | hung reads, threads a stop leaves behind, a loop turned on while it stops | MonitorLoop; admission and index scan in ObservationScheduler and ConnectionWatch |
| Names of databases | `features/configure/service.py`, `shared/config/targets.py`, store | connections in `config.toml`, the store's rows under each name | add, rename, roll back, remove, forget | a rename writes several stores, any of which may fail, beside cycles and analyses of both names | TargetNames |
| Actions, notifications | `features/monitor/actions.py`, `delivery.py` | proposals and their measurement, mutes, pushes | propose, apply, measure, undo, mute | a problem that returns, a mute that ends, push caps | planned |
| SSH tunnels | `shared/ssh_tunnel.py` | tunnel per database, users | open, share, close | a tunnel closed under a user | what it tells the backoff |
| Desktop backend | `desktop/src/main/backend-supervisor.ts` | process, restarts | start, keep running, stop | restart storms | planned |
| Web runs | `web/src/lib/backgroundRuns.ts`, `sse/` | streams, runs | attach, reconnect | lost and repeated events | planned |
| The rest | `analyze`, `ask`, `schema`, `scan`, `audit`, `cache`, `guard`, `fleet`, `slack`, `llm`, configuration, presentation | mostly none | request and answer | data computation, remote services | no |

`PROJECT.json` lists every part with its status, and the hazards with their lines.

## 2. Plan

Done: the job queue with its abstract board and refinement; reports; the observation
scheduler over leases and backoff; the run registry; the connection watch; the monitor loop
with renames and removals. Left, in order:

1. *Actions*: the life of a proposed change from its filing to its measured effect.
2. *Notifications*: mute rules, quiet hours and the daily limit on top of `ConnectionWatch`'s item.
3. *Slots of the account*: late answers of the key service.
4. *Desktop supervisor* and *web runs*.

Every safety property the runs check is proved as well (section 6); the liveness properties
are the runs' alone.

## 3. Modules

An **action** is what the code does between two points where something else can come in:
one store transaction, what a task does between two of its awaits, what a thread does
between two store calls. Variables marked *observed* in a module exist for properties only;
no guard reads them.

**The queue**

* **AnalyzeStore** - the table and its methods. `jobs` maps each row id to a row or `NoRow`.
  Each operator is one `BEGIN IMMEDIATE` transaction (`MonitorStore._write`), hence one
  atomic step. The columns kept are the ones any condition reads. `started` and `finished`
  are local days, because the daily allowances are counted in them. `serial`, `deleted`
  and the row fields `serial`, `firstPass`, `clicked` are observed. `firstHour` stands for
  "`enqueued_at` lies in the present first-hour window".
* **AnalyzeQueue** - the processes around the table. `proc`, `queue`, `tasks` are the server
  processes, their queue objects and worker tasks. `asked` holds decisions read but not
  written, `waking` the requests between storing a click and waking a queue, `turning` the
  turn-on requests between the switch and the first hour's time. The environment is
  `signedIn`, `execute`, `monitored`, `hour`, `removing`, `day`.
* **JobBoard** - the promise without tables, owners or attempts: a job is asked for once,
  waits, is worked on in turns, ends once, may be forgotten; only a job being worked on can
  be done or failed; a query has one open job. **AnalyzeQueueBoard** is the refinement
  mapping: a board job is one inserted row, known by its serial number.

| Actions | Code |
|---|---|
| `StartProcess`, `EndProcess` | the server's lifespan: a queue starts when something is monitored or a click is open; a shutdown or crash ends every task |
| `TurnOn`, `StartQueue`, `StartHour`, `TurnOff`, `StopQueue`, `QueueStopped` | the awaits of `put_settings`, one action between two of them |
| `Recover`, `Ask*` then `Enqueue`, `DropFirstHour`, `Trim` | `_prepare`, call by call; `wake()` runs a second one beside a busy pass, so calls of a process interleave with themselves, and go on in the pass that a deadline or a stop meets (`QueueStep`) until that pass is through (`PassEnds`, `QueueStopped`) |
| `Claim`, `ClaimNoJob` | `_claim`: the requeue of dead owners' jobs, the limits, the choice, the start, one transaction |
| `AskClick`, `ClickWaiting`, `Wake`, `AskForReport`, `RecordPasted`, `Cancel`, `BeginRemoval`, `FinishRemoval` | requests |
| `StartSampling` ... `Fail` | `_process` between its checks; the store decides by the claim whether a write lands |
| `HitDeadline`, `CloseDeadline`, `EndCancelled` | `_process_recorded` |

Abstracted: the claim's permissions (signed in, monitoring on, AI held) are read shortly before
its transaction and taken in the same step. Users have a sign-in or their own key whenever they
click. Which rows are eligible by load, paused AI monitoring and the priority order inside a
reason class are left open, so a claim may choose any row they could choose. A retry may come at
any time. "Within the last 24 hours" is "today". Whether a running row is older than the timeout
is arbitrary, since the wall clock decides and can jump. The trim's budget is read in the step
that trims. `finish` also rewrites the mode of a row that ends; nothing reads it there. A thread
of `_prepare` or `_claim` that outlives the stop of its queue, which gives up after 5, 10 and 1
seconds, is left out. The limit of jobs in the whole install and the turn order between databases
are not modelled.

**Reports** - one day of one database, on any number of servers. `rows` is the table; a run's
task is a stage and whether it was told to stop. `Claim` is `claim_report`, one transaction
that answers with the report under way or a done one of the day; `Progress` and `Stored`
are `update_report`, which writes a row in any state, `TouchReport` is `touch_report`; `GoStale`
stands for a `heartbeat_at` older than the `stale_seconds` of `recover_reports`
(`RecoverReports`), however the writer is doing. `RequestCancel` and `CancelElsewhere` are
`request_cancel` where the run is registered and where it is not, `CancelRow` the `cancel_report`
that follows; `Stop` and `Crash` end a server. The text, the events a page follows and
narrative retries are left out.

**ObservationScheduler** (with **ObservationLease** and **TargetBackoff**) - attempts of
processes to read databases. An attempt goes through the awaits of `_collect_target`:
`Launch`, `Begin` (admission, lease and fence), the reading, `Settle`. A reading is a record
of its own because it goes on in a thread when its attempt is cancelled or times out
(`left`); it keeps the admission, the place and the fence until it returns. `lease` is the row
of the lease table; a lease lapses by the clock (`LeaseLapses`), is given back, taken over from
a dead process of the same machine at once, and renewed by its owner; its token only grows.
`written` (observed) is the highest token that stored a reading. `reader` is any
other user of the admission: the monitor loop, the sampler; `TunnelFails` what a tunnel tells
the backoff. `TargetBackoff` gives each of the class's methods as a function of one entry.
Which attempt is due, how long waits are, and what a reading stores are left open.

**ConnectionWatch** - one database, its `lost_connection` item and the watches of the servers.
`watch[p]` is `_failing`, `_last_check` and `_changed`; `doing[p]` is what the thread with the
lock does next in the store: `file`, `push`, `promote`, `body`, `resolve` are `upsert_item`, the
read of `_push_if_due`, `promote_item`, `update_item_body` and `action_item`, one step each,
between the steps of the user (`Dismiss`, `UserResolves`, `Reopen`), of requests (`Switch`,
`EditConnection`, later `SettingsChanged`) and of crashes. A collection dates its check when it
returns, an index scan (`DateScan`) when it asks for the lock; both report later, in either
order, since a lock is not fair. The beginning of an outage that a thread is about to write grows
older while the thread waits. Times are ages counted up to `PushAfter`, which is exact because
nothing compares beyond it, and needs no bound on the clock. new, seen and snoozed items are one
state. Left out: the missing password, the pulses, gap and words, mute rules, notification
switches, the push of a recovery, the end of a snooze.

**MonitorLoop** - the loop of one server. `ReadTargets` and `StartCycles` are the two turns of a
pass; a cycle is a thread: `EnterCycle` has the run guard's lock and looks at the flag of its
loop and at the switch, `CycleReturns` stores what was read, or nothing once the loop was
stopped, because every statement looks at the flag. `gen` and `wrote` (observed) number the loops
and say whose cycles stored something since the latest stop. `config` is what each name stands for,
`enabled` the switch's row, `history` whose readings are under each name. `TurnOn` and
`StartServices`, `TurnOff`, `AfterOff` and `LoopStopped` are `put_settings` between its awaits;
`stop()` gives up waiting after 15 seconds, so its threads may return at any later time.

**TargetNames** extends it with the requests that change names. A rename is a thread that takes
two guards (`TakeOld`, `TakeNew`), writes the configuration (`MoveConfig`), the monitor store
(`MoveMonitor`, one transaction that a running analysis or a lock refuses), the library and
log (`MoveRest`), and on a failure takes back what it can: `MoveBack` may be refused or fail in
its turn, which is only logged, and `Restore` puts the connection back in any case. A removal is
`AskRemove`, `Drain`, `RemoveConfig`, `Forget`. `work` is an analysis or a report under a name,
and whose results it will store. The queue takes no guard: `Claim` takes a job under either name
at any step of a rename, and `AddTarget` a name that one has left and may come back to. `stray`
(observed) is the databases whose rows such a rename could not take along: a roll-back failed,
something ran under the new name while the move failed or was taken back, or a database
was added under the old one before the rows moved. Collectors' readings, which take no guard, a
crash between two writes and the loop's memory of a name are left out, and so are requests of
other processes, whose guards are other guards.

**RunRegistry** - runs of one server and the streams that replay them. `phase` is where a run's
task is (not started, driving its generator, closing it, ended), `cancelled` the tasks with a
cancellation they have not heard of. `Open`, `Read`, `Leave` are a stream's turns: it reads to the
end of the log, looks at the status, and registers to be woken, in one turn; `Append1` wakes
the waiters. A stream may be opened at any `after_seq`: one beyond the log gets what comes after it and
ends with the run, a negative one reads from the end of the log, as Python's indices do, or
fails (`gone`). A cancellation is heard by the generator, fails in its cleanup
(`CancelFails`: the run fails) or is swallowed (`CancelSwallowed`: the run goes on).
`Evicted` is `_evict_finished`. Everything is on one event loop, so a step is
a turn of a task.

**MC...** modules name model values and symmetries for TLC (symmetry in safety runs only).
The operators commented *mutant* are variants of definitions, wrong in the way a slip in the
code would be; every property of a run was seen to fail under at least one of them. Runs check
the type invariant where no theorem does, or where it is cheap to.

**...Proofs** modules extend a component's module with its theorems: **JobProofs** builds on the
types of **AnalyzeQueueProofs**, **BoardProofs** on the one open job of **JobProofs**; the others
stand alone (section 6).

## 4. Runs

Bounds: `MaxId` row ids in use, `MaxSerial` rows ever inserted, `MaxAttempt` the highest claim
number, `MaxDay` days, `MaxAsked` pending decisions; `MaxRuns` reports or runs, `MaxEvents`
events of a generator; `MaxToken` leases of a database, `MaxLife` processes that die; `MaxLate`
units a check's date is back when it gets the lock, by waiting or, for a failed collection, from
the start (`CollectionsWait` says whether collections wait too; an index scan that answered is
then the late good check); `Requests` renames and removals, asked for in this order, `Settings`
and `Working` the names whose switch is used and whose queries are analyzed, `MaxChanges` how
often something is turned off, renamed or removed; `Afters` where streams are opened, `Swallows`
the runs whose generator swallows a cancellation. A switch is not turned on while a rename holds
the guard of its name. `Changes` names what may happen around an instance. Deadlock checking is
off where bounds, or an ended server, let an instance come to rest.

| Run | Instance | Shows |
|---|---|---|
| QueueFence | 2 processes on two machines (each sees the other's death by the timeout only), 1 click, crashes and deadlines, 5 claims, with fairness, no symmetry | no two workers hold a job; what ended stays; running jobs end, clicks settle |
| QueueAllowance | 2 queries, re-analyses and reports, 3 rows, 2 days, allowance 2, reserve 1, one place | one open job per query; place, allowance and reserve kept |
| QueueModes | 2 processes on one machine, crashes, 2 newcomers, first hour ending, measuring switched | measurements alone; newcomer allowance of 1 kept |
| QueueBoard | 1 query, 2 rows, sign-outs, cancels, holds, recoveries, monitoring off and on, removal | refinement of `JobBoard`; waiting jobs hold neither claim nor start |
| ReportRuns | 2 servers that stop, die and start, 2 reports, 1 slot | one report under way; failed and cancelled reports never come back under way |
| ReportEnds | 1 server, with fairness | every report ends; the day gets its nightly one |
| ObservationFence | 2 processes on two machines, one of which may die, 1 database, 2 leases | a reading whose lease went to another writes nothing; a stopped scheduler keeps no lease |
| ObservationChecks | 1 process with one place, 2 databases, one of them monitored, behind a tunnel and read by the loop too, with fairness | admission exact under sharing; a database read once at a time; readings left behind take their place; the monitored database is read again and again |
| WatchOutage | 1 server, collections and scans, outages, user, settings, switch, crashes, 2 failures in a row or 1 unit to file, 2 units to push, with fairness | filed and pushed once, closed on recovery, quiet once the user closed it, no failure from before a recovery |
| RegistryRuns | 2 runs (one an audit, one that swallows cancellations), 1 stream opened at -9, -1, 0, 1 or 9, 1 event each, 1 finished run kept, with fairness | one end per run; replay without gaps; live runs are never forgotten; streams and cancels settle |
| NamesMove | 2 databases, 2 names, 2 renames or removals that fail or not and are taken back or not, one name switched off and on, one analyzed, one name whose reads may hang, 2 changes, with fairness | results stay with their database but for what a rename could not move; no cycle reads a name midway; a stopped loop's threads store nothing; a hung read delays only itself |
| FindCancelUndone | 2 servers, 1 report | section 5 |

Why the bounds are enough. One job is enough for the fence: the store's methods treat
rows of different ids alike, and claims of one row are what can collide; five claims let a
job be recovered, reclaimed, held and recovered again, the most any path of a click needs
before the second recovery fails it. Allowances and places are exceeded, if at all, by one
job more than the limit. Two days let a job start on one and be counted on the other.
Removal needs two rows: the one removed and the one that gets its id. Two reports are one
under way and one that was, which is all a claim compares. Two leases are the one a reading
was given and the one that took over; a third database would only repeat the second. An
outage needs one failure to begin, a second to file, one unit to tick and two to push; the
lateness of one unit lets a collection's check be older than a scan's. A rename needs two names;
two requests can wait for each other's guards, remove what another moves, or rename there and
back, and two changes are a rename beside a stop of the loop. For streams the cases are an event
before, at and after the read, and the end at each; one event and `run_end` give all of them,
and a log of at most two has 9 beyond it and -9 before it.

What these instances do not reach, theorems cover for any instance: several processes on one
machine in QueueFence and ObservationFence, where the other process is remote and waits for
timeouts (a reclaim from a dead owner of one machine happens in QueueModes); holds and recoveries
in QueueAllowance, which happen in QueueBoard; requests that arrive while a queue is
being stopped beside a fence (QueueBoard stops and starts the queue). `CheckedAgain` is
limited by `MaxToken` to about two readings of a database, so its "again" is "once more".

**Fairness**. A queue that is on makes a pass at least every `TICK_SECONDS`, so `RecoverExpired`
(everything is past its timeout in the end) and `Claim` are weakly fair; a worker makes steps or
meets its deadline, so `WorkerStep` is; a request that stored a click goes on to `Wake`, a
turn-on to `StartQueue`, and a stop, whose waits are bounded by 16 seconds, to `QueueStopped`.
Reports: tasks go on, a task told to stop hears of it, the scheduler ticks, a heartbeat that
nobody writes grows old. The scheduler: ticks launch what is due, waits end, readings return or
run into the deadline, leases lapse; `Begin` is strongly fair because an attempt asks again and
again while leases and other readers' admissions come and go. The watch: threads run on, scans
and ticks come again, but that a thread gets a lock which others keep taking is not
assumed. `TimePasses` is strongly fair, as outcomes on their way bound how far it goes.
The loop: passes come at least every interval, reads of an answering database end within
`READ_DEADLINE_S`, requests go on; nothing is assumed of the others' reads. The registry: the
event loop gives every task its turn; generators need not come to an end, and `CancelSettles`
leaves out those that swallow the cancellation. Slots for reports come and go (`TakeSlot` is
strong). Nothing is assumed of users, crashes, databases or the clock. Each liveness property
names what it needs besides: one queue or server that stays on, a scheduler that is not stopped,
an outage that lasts while nobody changes anything.

## 5. What the repository says and the code does not do

One run expects a violation, and TLC's trace is the explanation.

| Run | Statement | Code |
|---|---|---|
| FindCancelUndone | "Stop a running report." (`report.py:676`, and `test_monitor_contract.py:503`) | a cancel that reaches another server, or comes before the task is registered, marks the row and stops nothing; the run goes on, and its last write makes the row done |

### Known differences

Stated as definitions, the first six of `AnalyzeQueue`, and seen to fail, without a run of their own:

| Definition | Statement | Code |
|---|---|---|
| `ClickStaysAClick` | "A click always runs and never spends an allowance." (`analyze_queue.py:513`) | a report takes a waiting click's job over |
| `ClickIsNotTrimmed` | the same | an `already_queued` answer leaves an automatic row that a trim deletes |
| `ClickAlwaysRuns` | the same | a click beside `put_settings`' stop wakes a queue that is forgotten afterwards |
| `WriteLandsOnOwnJob` | "its worker's result never lands" (`analyze_queue.py:1001`) | row ids are reused after deletions |
| `FirstHourMaxKept` | "At most this many queries get a first-hour analysis" (`analyze_queue.py:601`) | two passes read before either writes |
| `QueueNeverIdles` | "so a queue never sits idle for long" (`analyze_queue.py:1085`) | a hanging worker halts the queue for good |
| `OnlyMonitoredAlert` of `ConnectionWatch` | "Only monitored targets alert" (`connection.py:155`, `test_monitor_connection.py:192`) | the index scan's report does not read the switch, and turning monitoring off marks the connection as changed, so that one failure of a scan in flight files the outage of a database that is off; nothing closes it while it stays off |
| `RenameIsWhole` of `TargetNames` | "its saved connection, the default, its monitoring history, its analyses and its activity log move together" (`service.py:300-302`) | the queue takes no run guard: a job claimed under the new name while the stores move makes the roll-back of the monitor store fail, which is only logged (`service.py:338-343`), and the connection goes back to the old name without its history (344-351). The same job, claimed before the store moved, stores its result under the name the database does not keep. TLC's trace: ask, take both guards, move the configuration, the store refuses, a claim under the new name, restore, finish |
| `TurnedOnIsRead` of `TargetNames` | "A database just turned on: read it now and often" (`routes.py:660`) | turning the last database off awaits `loop.stop()` outside the lock that starts services (`routes.py:856-859`); a database turned on meanwhile finds a loop (829), starts none, and the stopped one is then forgotten: monitoring is on and nothing reads until the next change of a setting or restart |

Met while reading the code:

* A `lost_connection` item that the user dismissed, or resolved, during an outage is never filed
  or pushed again, in any later outage: recovery looks for an open item only
  (`connection.py:234-239`), and `upsert_item` reopens only what the code resolved
  (`monitor_store.py:2160-2177`). `connection.py:7` promises every outage, and the comment above the
  condition means the episode only. `ClosedIsQuiet` shows the silence as the code has it.
* Changed settings forget the earlier checks, because they "say nothing about the new settings"
  (`connection.py:146`), but not a check in flight, whose failure then files at once.
* `update_target` refuses a taken name (`configure/api/routes.py:508`), but the rename then waits for
  the guards and writes over whatever has the name by then (`service.py:325-331`): a database
  added, or renamed to it, meanwhile loses its connection and its history. Three renames can
  also wait for each other's guards for good, because the old name's is taken first and the
  locks have no order.
* A name that a rename has left is free before the rename is through; a database added there is
  overwritten if the rename is taken back (`service.py:344-351`), or its first results move.
* After a roll-back that failed, monitoring stays on for the new name, which has no connection, and
  off for the old one. `StaleCycleStops` and `ResultsFollow` except the databases such a rename
  left rows of (`stray`), and no others.
* Removal forgets a name's rows after the name is free (`service.py:427-429`): a database added
  again at once loses its settings, and a cycle queued before finds no row that says off and
  stores readings of nothing. `StaleCycleStops` is about renames for that reason.
* The guards are one process's: another server's cycles, and a removal on the command line,
  meet a rename midway.
* Two servers that both see a recovery push it twice; one whose own last check failed files and
  pushes the outage again after the other closed it, until its next good check. `WatchOutage`
  has one server for that reason; `PushedOnce` and `ClosedIsQuiet` hold with two.
* A recovery that is cut off between `update_item_body` and `action_item` leaves an open item
  that a following outage inherits, with the old start: it may push at once, or not at all.
* The tail of a report's task can turn a done report failed or cancelled (`report.py:957-985`), a
  nightly report that was cancelled is claimed anew at the next tick (1381-1386), and
  two servers may write, and be billed for, the same narrative retry (1341-1358).
* A wipe of the run registry forgets live runs it says it cancels, so an audit may still run
  when the next one is allowed (`run_registry.py:33-36`, 240-253).
* A job recovered once is recovered again after a hold, which overwrites the mark, or a reclaim,
  which sets none (`test_restart_recovery_only_once` tests neither); the job deadline's failure
  is free of the allowance and retried like an AI failure (`monitor_store.py:345` and
  `analyze_queue.py:68` say otherwise); a trim also deletes jobs that started and were put back
  (`monitor_store.py:1770`: "they never started"); up to `PLAN_ANALYSIS_CONCURRENCY` plan-only
  analyses run at once (`analyze_queue.py:45`: "one analysis at a time per database"); turning
  monitoring off and on in the first hour moves the hour, and its earlier jobs then spend the
  daily allowance (`monitor_store.py:352` says they don't), so `NewcomersKept` is checked
  without that change.

## 6. Proofs

The theorems hold for every value of the constants that meets the `ASSUME`s of the module,
all of which say no more than the type of a constant or that a null is not a value
(`NoRow`, `NoRun`, `NoState`, `NoLease`). Bounds such as `MaxId` are any natural
number: a proof covers the instances TLC cannot reach.

| Module | Theorem | Invariant and argument |
|---|---|---|
| AnalyzeQueueProofs | `TypeCorrect` | `TypeOK` is inductive; one lemma for each method of the store, cited by each action that calls it |
| AnalyzeQueueProofs | `EndedStays` | what a step may do to one row (`Moves`), shown of every action (`StepMoves`) from a lemma of each method |
| AnalyzeQueueProofs | `FenceHolds` | `Fence`: a worker's claim number is at most its row's, and two workers of one claim are one. `OneWorkerPerJob` alone is not inductive, because it says nothing of the next number a claim gives out. A step hands out a claim of a higher number (`ClaimFence`) or keeps the claims there are (`TasksKeep`). Deleted rows are excepted, since SQLite gives their ids out again |
| JobProofs | `QueryHasOneLiveJob`, `WaitingJobsHoldNothing`, `SlotsHold`, `MeasurementIsAlone` | `JobInv`: the four together, and that no day is day 0, which stands for "not started". Every step leaves the table calm (`CalmTable`: rows stay, end or go back to waiting), puts in one row for a query without a live one (`Inserted`), or lets one waiting row of a calm table start (`Claimed`) |
| JobProofs | `AllowanceHolds`, `NewcomersHold` | a calm step that moves no first hour spends no more of any day than before (`QuietTable`), and a claim one more where there was room. They assume that `Changes` has no `"monitoring"`: turning monitoring off and on moves the first hour, and the shares then really do not hold (section 5) |
| JobProofs | `ReserveHolds` | only a claim starts a job, of a row its own first half left alone; true of moved first hours too |
| BoardProofs | `QueueImplementsBoard` | a board job is a row known by its serial number, so the mapping needs `SerialsApart`: rows in use have numbers of their own, all given out before, though SQLite gives row ids out again. With `OneLiveJob` for the board's "one open job per query", and: a step either adds one row under the next number (`RowAdded`) or moves each row as the board allows, or deletes it (`Shift`); steps that change several rows, as recoveries and trims do, are the board's joint moves |
| RegistryProofs | `TypeCorrect`, `LogEndsOnce`, `StreamsHadAll` | the log of a run has `run_end` exactly when its task ended it; logs only grow, and a stream that saw the end read up to it, or was opened beyond it |
| RegistryProofs | `RetentionHolds` | `RetentionInv`: no more finished runs are known than the limit, after every step. The rule in the code is about each finished run (fewer than the limit started after it), the property counts; `FewAbove` is the bridge, by the earliest run that is kept. That a run that starts is not counted needs `RunInv`: a run is over exactly when its task is |
| ReportProofs | `TypeCorrect`, `OneReportRuns`, `EndedReportsStay` | `ReportInv`: every task has its row. A claim adds a row only where none is under way; every other step settles rows (`RowsSettle`) |
| ObservationProofs | `TypeCorrect`, `ReadsOnce`, `AdmissionIsHeld` | `SchedulerInv`, a statement about each pair of process and database: one reading (`ReadingKept`), a reading for an attempt that reads (`Paired`), one who owes the release of the admission (`OneHolder`). A step touches one pair (`LocalStep`) |
| ObservationProofs | `FencedWrites` | `WrittenInv`: no token beyond the lease's was written, and a reading writes under the lease's token only |
| NamesProofs | `TypeCorrect`, `NoCycleMidway` | `Guarded`: no two renames have one name's guard, all they have is held, and no cycle of a held name is past its guard. Each step of a request takes free guards, gives back its own or keeps them (`RenameGuarded`) |
| NamesProofs | `StoppedStoreNothing` | `AllTold`: a cycle that was not told to stop is of the loop that is on, and so is all that was stored since the latest stop. `OffIsQuiet` alone says nothing of the cycles that have yet to store |
| ObservationProofs | `LeasesGoBack` | `LeaseInv`: a lease this process life holds is one an attempt or reading of it will give back, or one it has lost |
| ObservationProofs | `ReadingsHavePlaces` | `SlotInv`: a process has no more databases with an attempt or a reading (`Engaged`) than places. The limit is on admitted databases, so `AdmissionHeld` and `ReadingKept` carry it to readings: everyone engaged is admitted, and is read once |
| NamesProofs | `ResultsAreFollowed` | two invariants: `Carried`, where a rename's connection is at each of its steps, back and forth; and `Placed`, that every stored result, every reading on its way and every analysis belongs where it is: to the name's database unless a rename is about to take it away again, to one a rename is carrying to or from that name, or to one that is gone or has gone stray. Without "unless", a claim under a name that is given back would break it. Guards keep two renames off one name (`Guarded`) |
| NamesProofs | `StaleCyclesStop` | `NoneReadYet`: until the first removal a name without a database that no rename is moving is switched off, which stops a cycle of it at its first read, or has no cycle that waits (`Unread`). Or a roll-back has failed |
| WatchProofs | `TypeCorrect` | ages stay within their bound |
| WatchProofs | `OutagePushedOnce` | `ToldOnce`: an item that could push again (new, resolved by code, or not yet set to notify) has not pushed for this outage |
| WatchProofs | `ClosedStaysQuiet` | of each step: the store's writes look at the row they write, so a decision made from an older row does nothing |
| WatchProofs | `FailuresAfterAnswer` | `ChecksInOrder`: the last check is no older than the last good one, and if it failed it is newer, as is the run of failures. `FailsAfterAnswer` alone is not inductive: a late failure is dropped because of the last check's age, of which it says nothing |

Only model-checked: liveness (`RunningEnds`, `ClicksSettle`, `RunsEnd`, `NightlyHappens`,
`CheckedAgain`, `StreamsSettle`, `CancelSettles`, `OutageReported`, `OutageCloses`,
`SlowOnlyDelaysItself`), which with fairness and `ENABLED` is out of the prover's reach, as is
induction over data. `AllowanceHolds` and `NewcomersHold` are proved for a `Changes` without
`"monitoring"`, which is also what their runs have. No module declares a `RECURSIVE` operator.

## 7. Not modelled

* *For later* (section 2): actions, notifications, the account's slots, the desktop's supervisor,
  the web's runs.
* *Of the modelled parts*: a clock that steps back; the collectors' task that polls the registry;
  report events and the pages that follow them; narrative retries of reports; `wake_needs_key`;
  threads of a queue's pass that outlive the grace of its stop; the ceiling of 1,024 databases in
  the backoff; the install-wide limit of running jobs; the end of a snooze; what the monitor loop
  remembers of a name between passes.
* *Below the grain*: SQLite inside a transaction (`BEGIN IMMEDIATE` makes one at a time of them,
  which is the atomicity the actions have), threads inside a store call.
* *Data, not order*: sampling, plans, fingerprints, rewrites, the judgement of readings, costs,
  the texts of reports and items. What they decide is an input of the models.
* *Outside*: databases, tunnels, model providers, the account service, push services. They are
  choices: a reading succeeds or fails or hangs, a key works or does not.
* *Request and answer*: the commands and pages that keep no state of their own, formatting,
  telemetry, the interface.
