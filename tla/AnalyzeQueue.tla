---------------------------- MODULE AnalyzeQueue ----------------------------
(***************************************************************************)
(* The Deep Analyze queue (cli/features/monitor/analyze_queue.py) of every *)
(* server process sharing one monitor.db: passes that recover, enqueue,    *)
(* trim and claim; one worker task per claimed job; clicks, reports,       *)
(* cancellations and database removal from the API; sign-in and settings   *)
(* changes; processes that die.                                            *)
(*                                                                         *)
(* A pass runs its store calls in worker threads, and wake() runs a second *)
(* _prepare beside a pass that is busy, so the calls of passes interleave  *)
(* freely with each other and with everything else.  What to enqueue is    *)
(* decided from reads (Ask) and written in a later step (Enqueue); a worker*)
(* reads its claim, then acts in a later step, fenced by the store.        *)
(***************************************************************************)
EXTENDS AnalyzeStore

CONSTANTS
  Causes,       \* the reasons this instance enqueues for
  Failures,     \* the errors its analyses end with
  Backoffs,     \* how many waits RETRY_BACKOFF_S has
  FirstHourMax, \* first_hour_max(N)
  Changes,      \* what happens around the queue in this instance
  StartHours,   \* where the first hour may stand at the start
  StartExecute, \* what the execute setting may be at the start
  MaxAsked,     \* bound: requests decided and not yet written
  MaxSerial,    \* bound: rows ever inserted
  MaxAttempt,   \* bound: claims and recoveries of one row
  MaxDay        \* bound: local days

ASSUME CausesAssumption == Causes \subseteq Reasons
ASSUME FailuresAssumption == Failures \subseteq {"ai", "unparsed", "timed out", "other"}
ASSUME ChangesAssumption ==
  Changes \subseteq {"crash", "sign-in", "execute", "hour", "monitoring", "removal", "deadline"}
ASSUME StartAssumption == StartHours \subseteq {"before", "now", "over"} /\ StartExecute \subseteq BOOLEAN
ASSUME QueueBoundAssumption == MaxSerial \in Nat /\ MaxAttempt \in Nat /\ MaxDay \in Nat
                               /\ MaxAsked \in Nat /\ Backoffs \in Nat /\ FirstHourMax \in Nat

VARIABLES
  proc,      \* "new", "up" or "dead"
  queue,     \* the process's AnalyzeQueue: "off", "on", "halted" by a deadline with its last pass
             \* under way, "ended" after it, "stopping"
  tasks,     \* the worker tasks alive in the processes
  asked,     \* enqueue decisions not yet written
  waking,    \* processes with a stored click that has not woken or started the queue yet
  monitored, \* monitored_targets()
  turning,   \* <<process, database>> of turn-on requests that have not stored the time yet
  signedIn,  \* database_limit._signed_in()
  execute,   \* the execute setting of each database
  hour,      \* its first monitored hour: "before" it is monitored, "now" or "over"
  removing,  \* databases between the two steps of their removal
  day        \* the local day

vars == <<jobs, serial, deleted, proc, queue, tasks, asked, waking, signedIn, execute,
          monitored, turning, hour, removing, day>>
targetVars == <<execute, monitored, turning, hour, removing>>
envVars == <<signedIn, targetVars, day>>

\* One _process_recorded task: the job it was given and how far it got.
Task == [proc : Procs, id : Ids, attempt : Nat, serial : Nat, target : Targets,
         reason : Reasons,
         pc : {"begin", "sample", "analyze", "fail", "ended"},
         retried : BOOLEAN,   \* the immediate retry was used
         stopped : BOOLEAN,   \* run.stopped
         deadline : {"no", "hit", "closed"}]

\* One decision to enqueue: `day` and `first` from the time it was taken.
Decision == [proc : Procs, target : Targets, key : Keys, reason : Reasons, capped : BOOLEAN,
             day : Nat, first : BOOLEAN]

Dead == {p \in Procs : proc[p] = "dead"}
First(t) == hour[t] = "now"
Monitored(t) == t \in monitored
Owned(task) == Owns(task.proc, task.id, task.attempt)
\* run.stopped, and the queue's _stop where _process looks at it: before the run begins and
\* before each of the two attempts at the analysis.
Stopped(task) ==
  \/ task.stopped
  \/ /\ queue[task.proc] \in {"halted", "ended"}
     /\ task.pc \in {"begin", "sample"} \/ (task.pc = "analyze" /\ task.retried)

\* The task leaves; a task whose deadline struck still has its deadline write to make.
Ends(task) ==
  tasks' = IF task.deadline = "hit" THEN (tasks \ {task}) \cup {[task EXCEPT !.pc = "ended"]}
           ELSE tasks \ {task}
Becomes(task, new) == tasks' = (tasks \ {task}) \cup {new}

-----------------------------------------------------------------------------
(* Processes, sign-in, settings, time.                                     *)

\* A click that waits, runs or failed lately keeps a queue going without any monitoring.
OpenClicks == {i \in Used : jobs[i].reason = "user" /\
                            (jobs[i].state \in Live
                             \/ (jobs[i].state = "failed" /\ jobs[i].finished = day))}

\* start_analyze_queue: AnalyzeQueue.start recovers first.
TurnsOn(p) ==
  /\ queue' = [queue EXCEPT ![p] = "on"]
  /\ \E expired \in SUBSET Ids : RecoverAnalysis(p, day, Dead, expired)

\* The server's lifespan starts a queue when something is monitored or a click is open.
StartProcess(p) ==
  /\ proc[p] = "new"
  /\ proc' = [proc EXCEPT ![p] = "up"]
  /\ IF monitored # {} \/ OpenClicks # {} THEN TurnsOn(p)
     ELSE UNCHANGED <<storeVars, queue>>
  /\ UNCHANGED <<tasks, asked, waking, envVars>>

\* put_settings with monitoring on starts a missing queue ...
StartQueue(p) ==
  /\ proc[p] = "up" /\ queue[p] = "off"
  /\ monitored # {} \/ \E t \in Targets : <<p, t>> \in turning
  /\ TurnsOn(p)
  /\ UNCHANGED <<proc, tasks, asked, waking, envVars>>
\* ... and stops it when it sees nothing monitored and no click open: the flags first,
StopQueue(p) ==
  /\ queue[p] \in {"on", "halted", "ended"} /\ monitored = {} /\ OpenClicks = {}
  /\ queue' = [queue EXCEPT ![p] = IF @ = "ended" THEN "off" ELSE "stopping"]
  /\ tasks' = {IF task.proc = p THEN [task EXCEPT !.stopped = TRUE] ELSE task : task \in tasks}
  /\ UNCHANGED <<storeVars, proc, asked, waking, envVars>>
\* the queue forgotten up to 15 seconds later.  What a worker has on its way may still land.
QueueStopped(p) ==
  /\ queue[p] = "stopping"
  /\ queue' = [queue EXCEPT ![p] = "off"]
  /\ UNCHANGED <<storeVars, proc, tasks, asked, waking, envVars>>

\* _run of a halted queue ends with its pass, once every job of the pass is through.
PassEnds(p) ==
  /\ queue[p] = "halted" /\ \A task \in tasks : task.proc = p => task.deadline = "closed"
  /\ queue' = [queue EXCEPT ![p] = "ended"]
  /\ UNCHANGED <<storeVars, proc, tasks, asked, waking, envVars>>

\* The process ends, by shutdown or a crash: its tasks end where they are.
EndProcess(p) ==
  /\ "crash" \in Changes
  /\ proc[p] = "up"
  /\ proc' = [proc EXCEPT ![p] = "dead"]
  /\ queue' = [queue EXCEPT ![p] = "off"]
  /\ tasks' = {task \in tasks : task.proc # p}
  /\ asked' = {ask \in asked : ask.proc # p}
  /\ waking' = waking \ {p}
  /\ turning' = {request \in turning : request[1] # p}
  /\ UNCHANGED <<storeVars, signedIn, execute, monitored, hour, removing, day>>

Setting == UNCHANGED <<proc, queue, tasks, waking, signedIn, removing, day>>

ChangeSignIn ==
  /\ "sign-in" \in Changes
  /\ signedIn' = ~signedIn
  /\ UNCHANGED <<storeVars, proc, queue, tasks, asked, waking, targetVars, day>>

ChangeExecute(t) ==
  /\ "execute" \in Changes
  /\ execute' = [execute EXCEPT ![t] = ~@]
  /\ Setting /\ UNCHANGED <<storeVars, asked, monitored, turning, hour>>

TurnOff(t) ==
  /\ "monitoring" \in Changes
  /\ t \in monitored /\ monitored' = monitored \ {t}
  /\ Setting /\ UNCHANGED <<storeVars, asked, execute, turning, hour>>

TurnOn(p, t) ==
  /\ "monitoring" \in Changes
  /\ proc[p] = "up" /\ t \notin monitored \cup removing
  /\ monitored' = monitored \cup {t} /\ turning' = turning \cup {<<p, t>>}
  /\ Setting /\ UNCHANGED <<storeVars, asked, execute, hour>>

\* start_first_hour, after the account's answer and a missing queue's start: the time of the
\* turn-on is stored, which starts a first hour unless there are readings from before it; no
\* earlier job lies in it.
StartHour(p, t) ==
  /\ <<p, t>> \in turning /\ turning' = turning \ {<<p, t>>}
  /\ queue[p] # "off"
  /\ \E h \in {"now", "over"} : hour' = [hour EXCEPT ![t] = h]
  /\ jobs' = [i \in Ids |-> IF i \in RowsOf(t) THEN [jobs[i] EXCEPT !.firstHour = FALSE]
                            ELSE jobs[i]]
  /\ asked' = {IF ask.target = t THEN [ask EXCEPT !.first = FALSE] ELSE ask : ask \in asked}
  /\ Setting /\ UNCHANGED <<serial, deleted, execute, monitored>>

EndHour(t) ==
  /\ "hour" \in Changes
  /\ hour[t] = "now" /\ hour' = [hour EXCEPT ![t] = "over"]
  /\ Setting /\ UNCHANGED <<storeVars, asked, execute, monitored, turning>>

NextDay ==
  /\ day < MaxDay
  /\ day' = day + 1
  /\ UNCHANGED <<storeVars, proc, queue, tasks, asked, waking, signedIn, targetVars>>

-----------------------------------------------------------------------------
(* A queue pass.                                                           *)

\* The pass a stop meets goes on: its threads can't be cancelled, a round of claims doesn't look
\* at _stop, and wake() prepares beside it while it is busy.
QueueStep(p) ==
  queue[p] \in {"on", "halted", "stopping"} /\ UNCHANGED <<proc, queue, waking, envVars>>
MayInsert == serial < MaxSerial

\* recover_analysis at the start of _prepare, with the rows the wall clock calls expired.
Recover(p) ==
  /\ QueueStep(p)
  /\ \E expired \in SUBSET Ids :
       Lost(p, Dead, expired) # {} /\ RecoverAnalysis(p, day, Dead, expired)
  /\ UNCHANGED <<tasks, asked>>

\* A decision is kept until _enqueue has written it.
Ask(p, t, k, reason, capped) ==
  /\ Cardinality(asked) < MaxAsked
  /\ asked' = asked \cup {[proc |-> p, target |-> t, key |-> k, reason |-> reason,
                           capped |-> capped, day |-> day, first |-> First(t)]}
  /\ UNCHANGED <<storeVars, tasks>>

\* _enqueue.  For an automatic reason a statement that isn't a plain read is skipped, a query
\* that was skipped before or isn't kept in full detail is left alone.
Enqueue(ask) ==
  /\ ask \in asked /\ asked' = asked \ {ask}
  /\ MayInsert \/ LiveRows(ask.target, ask.key) # {}
  /\ \/ /\ ask.reason = "user" \/ ~HasSkip(ask.target, ask.key)
        /\ EnqueueAnalysis(ask.target, ask.key, ask.reason, ask.day, ask.first, ask.capped)
     \/ /\ ask.reason # "user"
        /\ \/ SkipAnalysisOnce(ask.target, ask.key, ask.reason, ask.day, ask.first)
           \/ UNCHANGED storeVars
  /\ waking' = IF ask.reason = "user" /\ Running(ask.target) \cap LiveRows(ask.target, ask.key) = {}
               THEN waking \cup {ask.proc} ELSE waking
  /\ UNCHANGED <<tasks, proc, queue, envVars>>

Left(t, reason) ==
  LET used == StartedInDay(jobs, t, day, AllowanceReasons(reason))
      room == IF reason = "new" THEN NewcomerCap ELSE Cap - Reserve
  IN  IF used < room THEN room - used ELSE 0

\* enqueue_new_queries: never analyzed, or only timed out before today.
NewToTheTop(t, k) ==
  LET rows == {i \in RowsOf(t) : jobs[i].key = k}
  IN  \/ rows = {}
      \/ /\ \A i \in rows : jobs[i].state \in {"failed", "skipped"}
         /\ \E i \in rows : jobs[i].error = "timed out" /\ jobs[i].finished < day
AskNew(p, t, k) ==
  /\ QueueStep(p) /\ "new" \in Causes
  /\ Monitored(t) /\ ~First(t)
  /\ NewToTheTop(t, k) /\ Left(t, "new") > 0
  /\ Ask(p, t, k, "new", TRUE)

\* enqueue_stale_top: the last analysis ended on an earlier day.
AskStale(p, t, k) ==
  /\ QueueStep(p) /\ "top15_stale" \in Causes
  /\ Monitored(t) /\ ~First(t)
  /\ \E i \in Ids : /\ IsLatest(t, k, i)
                    /\ jobs[i].state \in {"done", "failed"} /\ jobs[i].finished < day
  /\ Left(t, "top15_stale") > 0
  /\ Ask(p, t, k, "top15_stale", TRUE)

\* enqueue_first_hour: uncapped; a query without a first-hour job that wasn't analyzed today,
\* until FirstHourMax queries are covered.
Covered(t) == {jobs[i].key : i \in {j \in RowsOf(t) : FirstHourJob(jobs[j])
                                                     /\ jobs[j].state # "skipped"}}
AskFirstHour(p, t, k) ==
  LET rows == {i \in RowsOf(t) : jobs[i].key = k}
      reason == IF rows = {} THEN "new" ELSE "top15_stale"
  IN  /\ QueueStep(p) /\ reason \in Causes
      /\ Monitored(t) /\ First(t)
      /\ k \notin Covered(t) /\ Cardinality(Covered(t)) < FirstHourMax
      /\ \A i \in rows : IsLatest(t, k, i) =>
           \/ jobs[i].state = "failed"
           \/ jobs[i].state = "done" /\ jobs[i].finished < day
      /\ Ask(p, t, k, reason, FALSE)

DropFirstHour(p, t) ==
  /\ QueueStep(p) /\ Monitored(t) /\ First(t)
  /\ DropQueued(t)
  /\ UNCHANGED <<tasks, asked>>

\* is_transient_failure: the AI service's errors, and by its wording the job deadline's.
Transient == {"ai", "unparsed", "deadline"}

\* retry_plan's attempts: the latest rows of a query that all failed transiently.
TransientFailure(row) == row.state = "failed" /\ row.error \in Transient
Streak(t, k) ==
  LET rows == {i \in RowsOf(t) : jobs[i].key = k}
  IN  {i \in rows : \A j \in rows : j >= i => TransientFailure(jobs[j])}

\* The databases of a pass: monitored, or with a click to run or to retry.
PassTargets == monitored \cup
  {jobs[i].target : i \in {j \in OpenClicks : jobs[j].state # "running"}}

\* enqueue_transient_retries: again, uncapped, for the reason that failed.
AskRetry(p, t, k) ==
  /\ QueueStep(p) /\ t \in PassTargets
  /\ \E i \in Ids :
       /\ IsLatest(t, k, i) /\ Cardinality(Streak(t, k)) \in 1 .. Backoffs
       /\ Ask(p, t, k, jobs[i].reason, FALSE)

\* The two trims that end _prepare, one allowance each.
Trim(p, t, reason) ==
  /\ QueueStep(p) /\ Monitored(t) /\ ~First(t)
  /\ TrimAutomatic(t, reason, Left(t, reason))
  /\ UNCHANGED <<tasks, asked>>

\* _claim and claim_analysis.
ClaimNoJob(p, t) ==
  /\ QueueStep(p)
  /\ ClaimNothing(p, t, Dead, execute[t], First(t), signedIn)
  /\ UNCHANGED <<tasks, asked>>

Claim(p, t) ==
  /\ QueueStep(p)
  /\ \E i \in Ids :
       /\ ClaimAnalysis(p, t, day, Dead, execute[t], First(t), signedIn, Monitored(t), i)
       /\ jobs'[i].attempt <= MaxAttempt
       /\ tasks' = tasks \cup
            {[proc |-> p, id |-> i, attempt |-> jobs'[i].attempt, serial |-> jobs'[i].serial,
              target |-> t, reason |-> jobs'[i].reason, pc |-> "begin",
              retried |-> FALSE, stopped |-> queue[p] = "stopping", deadline |-> "no"]}
  /\ UNCHANGED asked

-----------------------------------------------------------------------------
(* Requests to any process that is up, and the report run.                 *)

Request(p) == proc[p] = "up" /\ UNCHANGED <<proc, envVars>>

\* enqueue_user: a job that runs, or would run today, is answered already_queued and stays as
\* it is; otherwise the click is enqueued.
AskClick(p, t, k) ==
  /\ Request(p) /\ "user" \in Causes
  /\ \A i \in LiveRows(t, k) : jobs[i].state = "queued"
  /\ Ask(p, t, k, "user", FALSE)
  /\ UNCHANGED <<queue, waking>>
ClickWaiting(p, t, k) ==
  /\ Request(p) /\ "user" \in Causes
  /\ \E i \in LiveRows(t, k) : Update(i, [jobs[i] EXCEPT !.clicked = TRUE])
  /\ waking' = waking \cup {p}
  /\ UNCHANGED <<queue, tasks, asked>>

\* The click's request, once its job is stored: it wakes the queue, whose pass may take its steps
\* at any time, or starts one if there is none.
Wake(p) ==
  /\ Request(p) /\ p \in waking
  /\ waking' = waking \ {p}
  /\ IF queue[p] = "off" THEN TurnsOn(p) ELSE UNCHANGED <<storeVars, queue>>
  /\ UNCHANGED <<tasks, asked>>

\* enqueue_for_report, for one of the report's queries.
AskForReport(p, t, k) ==
  LET waiting == {i \in Queued(t) : jobs[i].reason = "report"}
  IN  /\ Request(p) /\ "report" \in Causes /\ Monitored(t)
      /\ \/ \E i \in LiveRows(t, k) : IsLatest(t, k, i)
         \/ /\ ~ \E i \in Ids : /\ IsLatest(t, k, i)
                               /\ jobs[i].state = "done" /\ jobs[i].finished = day
            /\ StartedInDay(jobs, t, day, Reanalysis) + Cardinality(waiting) < Cap
      /\ Ask(p, t, k, "report", TRUE)
      /\ UNCHANGED <<queue, waking>>

RecordPasted(p, t, k) ==
  /\ Request(p) /\ MayInsert /\ "user" \in Causes
  /\ RecordUserAnalysis(t, k, day, First(t))
  /\ UNCHANGED <<queue, waking, tasks, asked>>

\* AnalyzeQueue.cancel: the row first, then the run this process has under that id.
Runs(p) == {task \in tasks : task.proc = p /\ task.pc \in {"sample", "analyze", "fail"}}
Cancel(p, i) ==
  LET runs == {task \in Runs(p) : task.id = i}
  IN  /\ Request(p)
      /\ CancelAnalysis(i, day)
      /\ \/ runs = {} /\ UNCHANGED tasks
         \/ \E task \in runs : Becomes(task, [task EXCEPT !.stopped = TRUE])
      /\ UNCHANGED <<queue, waking, asked>>

\* Removing a database: its jobs end and monitoring goes off; analysis_lane.active finds its
\* run only when there is exactly one.
BeginRemoval(p, t) ==
  LET runs == {task \in Runs(p) : task.target = t}
  IN  /\ "removal" \in Changes
      /\ proc[p] = "up" /\ t \notin removing /\ RowsOf(t) # {}
      /\ SkipRemoved(t, day)
      /\ \/ \E task \in runs : runs = {task} /\ Becomes(task, [task EXCEPT !.stopped = TRUE])
         \/ (~ \E task \in runs : runs = {task}) /\ UNCHANGED tasks
      /\ removing' = removing \cup {t}
      /\ execute' = [execute EXCEPT ![t] = FALSE] /\ monitored' = monitored \ {t}
      /\ UNCHANGED <<proc, queue, asked, waking, signedIn, turning, hour, day>>
\* Then everything stored for it goes; added again, it starts fresh.
FinishRemoval(t) ==
  /\ t \in removing
  /\ ForgetTarget(t)
  /\ removing' = removing \ {t}
  /\ hour' = [hour EXCEPT ![t] = "before"]
  /\ UNCHANGED <<proc, queue, tasks, asked, waking, signedIn, execute, monitored, turning, day>>

-----------------------------------------------------------------------------
(* A worker.  _process reads its claim (Owned) and the stop flags before   *)
(* each stage and acts afterwards; what it has decided by then still goes  *)
(* to the store, where only the claim decides whether it lands.            *)

Step(task) == task \in tasks /\ UNCHANGED <<proc, queue, asked, waking, envVars>>
Idle == UNCHANGED storeVars
SignedInFor(task) == task.reason = "user" \/ signedIn

\* The stage checks: still the owner, not stopped, signed in.
MayGoOn(task) ==
  task.deadline = "no" /\ Owned(task) /\ ~Stopped(task) /\ SignedInFor(task)

StartSampling(task) ==
  /\ Step(task) /\ Idle /\ task.pc = "begin" /\ MayGoOn(task)
  /\ Becomes(task, [task EXCEPT !.pc = "sample"])

StartAnalysis(task) ==
  /\ Step(task) /\ Idle /\ task.pc = "sample" /\ MayGoOn(task)
  /\ Becomes(task, [task EXCEPT !.pc = "analyze"])

\* A check found the claim gone, or a stop: the worker returns without a write.
LeaveJob(task) ==
  /\ Step(task) /\ Idle /\ task.pc # "ended" /\ task.deadline = "no"
  /\ ~Owned(task) \/ Stopped(task)
  /\ Ends(task)

\* Signed out: an automatic job goes back to waiting.
Hold(task) ==
  /\ Step(task) /\ task.pc # "ended" /\ ~SignedInFor(task)
  /\ HoldAnalysis(task.proc, task.id, task.attempt)
  /\ Ends(task)

\* The statement turned out not to be eligible for an automatic run.
Skip(task) ==
  /\ Step(task) /\ task.pc = "sample" /\ task.reason # "user"
  /\ FinishAnalysis(task.proc, task.id, task.attempt, "skipped", day, "not eligible", FALSE)
  /\ Ends(task)

\* A transient failure is tried once more at once, under the same claim.
RetryAtOnce(task) ==
  /\ Step(task) /\ task.pc = "analyze" /\ ~task.retried /\ task.deadline = "no"
  /\ RetryAnalysis(task.proc, task.id, task.attempt)
  /\ Becomes(task, [task EXCEPT !.retried = TRUE])

Done(task) ==
  /\ Step(task) /\ task.pc = "analyze"
  /\ FinishAnalysis(task.proc, task.id, task.attempt, "done", day, "", TRUE)
  /\ Ends(task)

\* An exception: the claim is read first, the failure written in a later step.  Sampling and
\* storing can raise a transient error too, outside the loop that retries at once.
Raise(task) ==
  /\ Step(task) /\ Idle /\ task.pc \in {"sample", "analyze"} /\ task.deadline = "no"
  /\ Owned(task)
  /\ Becomes(task, [task EXCEPT !.pc = "fail"])

Fail(task) ==
  /\ Step(task) /\ task.pc = "fail" /\ SignedInFor(task)
  /\ \E error \in Failures, billed \in BOOLEAN :
       FinishAnalysis(task.proc, task.id, task.attempt, "failed", day, error, billed)
  /\ Ends(task)

\* _process_recorded: the job deadline cancels the worker ...
HitDeadline(task) ==
  /\ "deadline" \in Changes
  /\ Step(task) /\ Idle /\ task.deadline = "no"
  /\ Becomes(task, [task EXCEPT !.deadline = "hit", !.stopped = task.pc # "begin"])
\* ... and then fails the job; a worker that outlives its cancellation halts the queue.
CloseDeadline(task) ==
  /\ task \in tasks /\ task.deadline = "hit"
  /\ FinishAnalysis(task.proc, task.id, task.attempt, "failed", day, "deadline", FALSE)
  /\ tasks' = IF task.pc = "ended" THEN tasks \ {task}
              ELSE (tasks \ {task}) \cup {[task EXCEPT !.deadline = "closed"]}
  /\ \/ UNCHANGED queue
     \/ /\ task.pc # "ended" /\ queue[task.proc] = "on"
        /\ queue' = [queue EXCEPT ![task.proc] = "halted"]
  /\ UNCHANGED <<proc, asked, waking, envVars>>
EndCancelled(task) ==
  /\ Step(task) /\ Idle /\ task.deadline = "closed"
  /\ tasks' = tasks \ {task}

-----------------------------------------------------------------------------

Init ==
  /\ StoreInit
  /\ proc = [p \in Procs |-> "new"]
  /\ queue = [p \in Procs |-> "off"]
  /\ tasks = {}
  /\ asked = {} /\ waking = {}
  /\ signedIn = TRUE
  /\ execute \in [Targets -> StartExecute]
  /\ hour \in [Targets -> StartHours]
  /\ monitored = {t \in Targets : hour[t] # "before"}
  /\ turning = {} /\ removing = {}
  /\ day = 1

Environment ==
  \/ \E p \in Procs : \/ StartProcess(p) \/ StartQueue(p) \/ EndProcess(p)
                      \/ StopQueue(p) \/ QueueStopped(p) \/ PassEnds(p)
                      \/ \E t \in Targets : TurnOn(p, t) \/ StartHour(p, t)
  \/ ChangeSignIn
  \/ \E t \in Targets : ChangeExecute(t) \/ TurnOff(t) \/ EndHour(t)
  \/ NextDay

Pass(p) ==
  \/ Recover(p)
  \/ \E t \in Targets :
       \/ \E k \in Keys : AskNew(p, t, k) \/ AskStale(p, t, k)
                          \/ AskFirstHour(p, t, k) \/ AskRetry(p, t, k)
       \/ DropFirstHour(p, t)
       \/ \E reason \in Automatic : Trim(p, t, reason)
       \/ ClaimNoJob(p, t)
       \/ Claim(p, t)

Requests(p) ==
  \/ \E t \in Targets, k \in Keys : AskClick(p, t, k) \/ ClickWaiting(p, t, k)
                                    \/ AskForReport(p, t, k) \/ RecordPasted(p, t, k)
  \/ Wake(p)
  \/ \E i \in Ids : Cancel(p, i)
  \/ \E t \in Targets : BeginRemoval(p, t)

Worker(task) ==
  \/ StartSampling(task) \/ StartAnalysis(task) \/ LeaveJob(task)
  \/ Hold(task) \/ Skip(task) \/ RetryAtOnce(task) \/ Done(task)
  \/ Raise(task) \/ Fail(task)
  \/ HitDeadline(task) \/ CloseDeadline(task) \/ EndCancelled(task)

Next ==
  \/ Environment
  \/ \E p \in Procs : Pass(p) \/ Requests(p)
  \/ \E ask \in asked : Enqueue(ask)
  \/ \E t \in Targets : FinishRemoval(t)
  \/ \E task \in tasks : Worker(task)

Spec == Init /\ [][Next]_vars

-----------------------------------------------------------------------------
(* Properties.                                                             *)

\* Type correctness of the table, the processes and the workers.
TypeOK ==
  /\ StoreTypeOK
  /\ proc \in [Procs -> {"new", "up", "dead"}]
  /\ queue \in [Procs -> {"off", "on", "halted", "ended", "stopping"}]
  /\ tasks \subseteq Task
  /\ asked \subseteq Decision
  /\ waking \subseteq Procs
  /\ signedIn \in BOOLEAN
  /\ execute \in [Targets -> BOOLEAN]
  /\ hour \in [Targets -> {"before", "now", "over"}]
  /\ monitored \subseteq Targets
  /\ turning \subseteq Procs \X Targets
  /\ removing \subseteq Targets
  /\ day \in Nat

\* One query never has two analyses waiting or running, whichever of the clicks, reports,
\* passes, recoveries and retries of any process put them there (enqueue_analysis).
OneLiveJob ==
  \A i, j \in Used :
    /\ jobs[i].target = jobs[j].target /\ jobs[i].key = jobs[j].key
    /\ jobs[i].state \in Live /\ jobs[j].state \in Live
    => i = j

\* A job that waits holds neither a claim nor a place in the day's allowance; one that runs
\* has both, however it got there (claims, holds, recoveries: owner and started_at).
WaitingHoldsNothing ==
  \A i \in Used : jobs[i].state \in Live =>
    /\ (jobs[i].owner = NoProc) = (jobs[i].state = "queued")
    /\ (jobs[i].started = 0) = (jobs[i].state = "queued")

\* No two workers of any processes hold the same job at once, whatever recoveries and reclaims
\* put between them, unless a row was deleted and its id handed out again (the fence of
\* analysis_owned, hold, retry and finish).
OneWorkerPerJob ==
  \A a, b \in tasks : Owned(a) /\ Owned(b) /\ a.id = b.id => a = b \/ a.id \in deleted

\* Never more re-analyses and reports than the day's allowance start in a day, whoever
\* claims, takes jobs over or retries them (claim_analysis, _started_in_day).
AllowanceKept ==
  \A t \in Targets, d \in 1 .. MaxDay : StartedInDay(jobs, t, d, Reanalysis) <= Cap

\* Nor more newcomers than theirs, however many start in the first hour.
NewcomersKept ==
  \A t \in Targets, d \in 1 .. MaxDay : StartedInDay(jobs, t, d, Newcomer) <= NewcomerCap

\* A re-analysis never starts into the part of the allowance kept for reports, not even one
\* that was queued when there still was room (claim_analysis's reserve).
ReserveKept ==
  [][\A i \in Used, t \in Targets :
       /\ jobs[i].state = "queued" /\ jobs'[i] # NoRow /\ jobs'[i].state = "running"
       /\ jobs[i].target = t /\ jobs[i].reason = "top15_stale" /\ ~FirstHourJob(jobs[i])
       => StartedInDay(jobs', t, day, Reanalysis) + Reserve <= Cap]_vars

\* A query measured with EXPLAIN ANALYZE has its database to itself, unless one of the two
\* started in the first monitored hour (claim_analysis's limit and mode check).
MeasuredAlone ==
  \A t \in Targets : \A i, j \in Running(t) :
    i # j /\ jobs[i].mode = "analyze" => jobs[i].firstPass \/ jobs[j].firstPass

\* Never more than PLAN_ANALYSIS_CONCURRENCY jobs of one database run at once.
SlotsKept == \A t \in Targets : Cardinality(Running(t)) <= Concurrency

\* A job that ended stays as it ended until its row is deleted: no late worker, recovery or
\* cancellation changes it (the state conditions of every UPDATE).  firstHour is no column:
\* a later turn-on moves the first hour, not the row.
EndedIsFinal ==
  [][\A i \in Ids : i \in Used /\ jobs[i].state \in Ended =>
       jobs'[i] = NoRow \/ jobs'[i] = [jobs[i] EXCEPT !.firstHour = jobs'[i].firstHour]]_vars

-----------------------------------------------------------------------------
(* Fairness.  A queue that is on makes a pass every TICK_SECONDS or sooner:*)
(* it recovers what the clock calls expired and claims what may start.  A  *)
(* worker makes steps or meets its deadline.  A click's request goes on to *)
(* wake the queue, a turn-on's to start it, and a stop comes to its end.   *)
(* Nothing is assumed of clicks, crashes, sign-ins or settings.            *)

RecoverExpired(p) ==
  /\ queue[p] = "on" /\ QueueStep(p)
  /\ Lost(p, Dead, Ids) # {} /\ RecoverAnalysis(p, day, Dead, Ids)
  /\ UNCHANGED <<tasks, asked>>
WorkerStep(p) == \E task \in tasks : task.proc = p /\ Worker(task)

LiveSpec ==
  /\ Spec
  /\ \A p \in Procs :
       /\ WF_vars(RecoverExpired(p))
       /\ WF_vars(WorkerStep(p))
       /\ WF_vars(Wake(p)) /\ WF_vars(QueueStopped(p))
       /\ \A t \in Targets : WF_vars(StartQueue(p) /\ <<p, t>> \in turning)
       /\ \A t \in Targets : WF_vars(queue[p] = "on" /\ Claim(p, t))

SomeQueueStaysOn == \E p \in Procs : <>[](queue[p] = "on")
IsRunning(i) == i \in Used /\ jobs[i].state = "running"
IsOpenClick(i) == i \in Used /\ jobs[i].state \in Live /\ jobs[i].reason = "user"

\* A running job does not stay running for ever, even when its process died or its worker
\* hangs, on whichever machine, as long as one queue stays on (recover_analysis).
RunningEnds == SomeQueueStaysOn => \A i \in Ids : IsRunning(i) ~> ~IsRunning(i)

\* A click waits and runs only for so long: recoveries and reclaims come to an end.
ClicksSettle == SomeQueueStaysOn => \A i \in Ids : IsOpenClick(i) ~> ~IsOpenClick(i)

-----------------------------------------------------------------------------
(* What the repository says and the code does not do; each is violated.    *)

\* enqueue_user: "A click always runs and never spends an allowance."
ClickStaysAClick ==
  [][\A i \in Ids : /\ i \in Used /\ jobs[i].state = "queued" /\ jobs[i].reason = "user"
                    /\ jobs'[i] # NoRow
                    => jobs'[i].reason = "user"]_vars

\* A click on a job that waits is kept: the row is not dropped by a pass.
ClickIsNotTrimmed ==
  [][\A i \in Ids, t \in Targets, p \in Procs, reason \in Automatic :
       i \in Used /\ jobs[i].clicked /\ Trim(p, t, reason) => jobs'[i] # NoRow]_vars

\* AnalyzeQueue.cancel and the reclaim tests: a worker that lost its job has no effect on
\* any other; what it writes lands on its own row or nowhere.
WriteLandsOnOwnJob ==
  [][\A task \in tasks : jobs[task.id] # NoRow /\ jobs[task.id].serial # task.serial =>
       ~ (Worker(task) /\ jobs' # jobs)]_vars

\* first_hour_max: "At most this many queries get a first-hour analysis".
FirstHourMaxKept == \A t \in Targets : Cardinality(Covered(t)) <= FirstHourMax

\* tick: "so a queue never sits idle for long": a waiting click is taken while its process
\* runs and has started its queue.
QueueNeverIdles ==
  (\E p \in Procs : <>[](proc[p] = "up" /\ queue[p] # "off")) =>
     \A i \in Ids : IsOpenClick(i) ~> ~IsOpenClick(i)

\* enqueue_user: "A click always runs", as long as the servers stay up.
ClickAlwaysRuns ==
  (\A p \in Procs : <>[](proc[p] = "up")) => \A i \in Ids : IsOpenClick(i) ~> ~IsOpenClick(i)
=============================================================================
