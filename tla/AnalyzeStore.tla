---------------------------- MODULE AnalyzeStore ----------------------------
(***************************************************************************)
(* The durable job table of the Deep Analyze queue: the analyze_job table  *)
(* of cli/shared/monitor/monitor_store.py and the store methods that write *)
(* it.  Every method body runs in one BEGIN IMMEDIATE transaction          *)
(* (MonitorStore._write), so each operator below is one atomic step over   *)
(* `jobs`; AnalyzeQueue composes them with the processes, workers and      *)
(* requests that call them.                                                *)
(*                                                                         *)
(* Times are abstracted to local days (the allowance's unit); whether a    *)
(* running row is older than the job timeout is an input of recovery,      *)
(* because the comparison uses the wall clock, which can jump.  Priorities *)
(* are refreshed from live load before every claim, so the order inside a  *)
(* reason class is left open.                                              *)
(***************************************************************************)
EXTENDS Naturals, FiniteSets

CONSTANTS
  Targets,      \* monitored databases
  Keys,         \* query keys
  Procs,        \* server processes, one value of COLLECTOR_PROCESS each
  Remote,       \* the processes whose OWNER_HOST is another machine
  NoProc,       \* SQL NULL in the owner column
  NoRow,        \* an id without a row
  Cap,          \* the analysis_daily_cap setting
  NewcomerCap,  \* the newcomer_daily_cap setting
  Reserve,      \* report_reserve(cap), the part kept for reports
  Concurrency,  \* PLAN_ANALYSIS_CONCURRENCY
  MaxId         \* bound: row ids in use

ASSUME BoundAssumption == MaxId \in Nat
ASSUME AllowanceAssumption ==
  /\ Cap \in Nat /\ NewcomerCap \in Nat /\ Reserve \in 0 .. Cap
  /\ Concurrency \in Nat \ {0}
ASSUME NullAssumption == NoProc \notin Procs

VARIABLES
  jobs,     \* the table: a row or NoRow for every id
  serial,   \* rows inserted so far (observation: tells rows that share an id apart)
  deleted   \* ids a row was deleted from (observation)

storeVars == <<jobs, serial, deleted>>

Ids == 1 .. MaxId

Newcomer   == {"new"}                    \* NEWCOMER_REASONS
Reanalysis == {"top15_stale", "report"}  \* REANALYSIS_REASONS
Automatic  == {"new", "top15_stale"}     \* AUTOMATIC_REASONS
Reasons    == Newcomer \cup Reanalysis \cup {"user"}

Live   == {"queued", "running"}
Ended  == {"done", "failed", "skipped"}
Marked == {"recovered_once", "retrying_after_recovery"}
Errors == Marked \cup {"", "retrying", "signed out", "cancelled", "removed",
                       "not eligible", "ai", "unparsed", "timed out", "deadline", "other"}

Row == [target : Targets, key : Keys, reason : Reasons, state : Live \cup Ended,
        error : Errors, owner : Procs \cup {NoProc}, attempt : Nat,
        mode : {"", "analyze", "explain"}, started : Nat, finished : Nat,
        firstHour : BOOLEAN,   \* automatic, and enqueued_at in the first hour
        billed : BOOLEAN,      \* billable_calls > 0
        \* observations, not columns:
        serial : Nat, firstPass : BOOLEAN, clicked : BOOLEAN]

ASSUME NoRowAssumption == NoRow \notin Row

Used == {i \in Ids : jobs[i] # NoRow}
RowsOf(t) == {i \in Used : jobs[i].target = t}
QueuedRows(t, k) ==   \* mutant: only what waits
  {i \in RowsOf(t) : jobs[i].key = k /\ jobs[i].state = "queued"}
LiveRows(t, k) == {i \in RowsOf(t) : jobs[i].key = k /\ jobs[i].state \in Live}
Running(t) == {i \in RowsOf(t) : jobs[i].state = "running"}
Queued(t) == {i \in RowsOf(t) : jobs[i].state = "queued"}

\* latest_analysis_jobs: the row with the largest id of a query.
IsLatest(t, k, i) ==
  /\ i \in RowsOf(t) /\ jobs[i].key = k
  /\ \A j \in RowsOf(t) : jobs[j].key = k => j <= i

-----------------------------------------------------------------------------
(* The daily allowances.                                                   *)

\* ANALYSIS_SPENDS_CAP: every started automatic run, except skipped ones and failures
\* without a usable AI answer.
SpendsCap(row) ==
  /\ row.reason # "user"
  /\ row.state # "skipped"
  /\ ~ /\ row.state = "failed"
       /\ row.error = "unparsed" \/ (~row.billed /\ row.error # "timed out")

\* FIRST_HOUR_JOB: these have an allowance of their own.
FirstHourJob(row) == row.reason \in Automatic /\ row.firstHour

\* _started_in_day over a table.
SpendingIn(table, t, day, reasons) ==
  {i \in Ids : /\ table[i] # NoRow /\ table[i].target = t /\ table[i].started = day
               /\ SpendsCap(table[i]) /\ ~FirstHourJob(table[i])
               /\ table[i].reason \in reasons}
StartedInDay(table, t, day, reasons) == Cardinality(SpendingIn(table, t, day, reasons))

\* allowance_reasons and the cap that goes with them.
AllowanceReasons(reason) == IF reason \in Newcomer THEN Newcomer ELSE Reanalysis
CapOf(reason) == IF reason \in Newcomer THEN NewcomerCap ELSE Cap

-----------------------------------------------------------------------------
(* Inserting and deleting.  analyze_job.id is INTEGER PRIMARY KEY without  *)
(* AUTOINCREMENT: SQLite gives a new row the largest id in use plus one,   *)
(* so the id of a deleted last row is handed out again.                    *)

IsNextId(i) ==
  /\ \A j \in Used : j < i
  /\ i > 1 => i - 1 \in Used

Insert(row) ==
  /\ \E i \in Ids : IsNextId(i) /\ jobs' = [jobs EXCEPT ![i] = row]
  /\ serial' = serial + 1
  /\ UNCHANGED deleted

NewRow(t, k, reason, state, day, first) ==
  [target |-> t, key |-> k, reason |-> reason, state |-> state, error |-> "",
   owner |-> NoProc, attempt |-> 0, mode |-> "", started |-> 0,
   finished |-> IF state \in Ended THEN day ELSE 0,
   firstHour |-> first /\ reason \in Automatic,
   billed |-> FALSE, serial |-> serial, firstPass |-> FALSE,
   clicked |-> reason = "user"]

Delete(ids) ==
  /\ jobs' = [i \in Ids |-> IF i \in ids THEN NoRow ELSE jobs[i]]
  /\ deleted' = deleted \cup ids
  /\ UNCHANGED serial

Update(i, row) ==
  /\ jobs' = [jobs EXCEPT ![i] = row]
  /\ UNCHANGED <<serial, deleted>>

\* enqueue_analysis: one waiting or running row per query; a click or a report takes a
\* waiting row over, and nothing else happens while one is live or the allowance is spent.
EnqueueAnalysis(t, k, reason, day, first, capped) ==
  LET taken == {i \in LiveRows(t, k) : jobs[i].state = "queued" /\ reason \in {"user", "report"}}
      spent == /\ reason # "user" /\ capped
               /\ StartedInDay(jobs, t, day, AllowanceReasons(reason)) >= CapOf(reason)
  IN  \/ \E i \in taken :
           Update(i, [jobs[i] EXCEPT !.reason = reason, !.clicked = @ \/ reason = "user"])
      \/ LiveRows(t, k) = {} /\ ~spent /\ Insert(NewRow(t, k, reason, "queued", day, first))
      \/ taken = {} /\ (LiveRows(t, k) # {} \/ spent) /\ UNCHANGED storeVars

\* skip_analysis_once: at most one skipped row per query; a click's row is left alone.
HasSkip(t, k) == \E i \in RowsOf(t) : jobs[i].key = k /\ jobs[i].state = "skipped"
SkipAnalysisOnce(t, k, reason, day, first) ==
  LET skipped == {i \in LiveRows(t, k) : jobs[i].state = "queued" /\ jobs[i].reason # "user"}
  IN  \/ /\ ~HasSkip(t, k)
         /\ \/ \E i \in skipped : Update(i, [jobs[i] EXCEPT !.state = "skipped",
                                            !.finished = day, !.error = "not eligible"])
            \/ /\ LiveRows(t, k) = {}
               /\ Insert([NewRow(t, k, reason, "skipped", day, first)
                            EXCEPT !.error = "not eligible"])
      \/ /\ HasSkip(t, k) \/ (LiveRows(t, k) # {} /\ skipped = {})
         /\ UNCHANGED storeVars

\* record_user_analysis: a finished analysis of pasted SQL, never started by the queue.
RecordUserAnalysis(t, k, day, first) == Insert(NewRow(t, k, "user", "done", day, first))

\* trim_automatic_analyses: the queued rows of one allowance beyond the `keep` heaviest.
Trimmable(t, reason) ==
  {i \in Queued(t) : jobs[i].reason = reason /\ ~FirstHourJob(jobs[i])}
TrimAutomatic(t, reason, keep) ==
  \E ids \in SUBSET Trimmable(t, reason) :
    /\ ids # {} /\ Cardinality(Trimmable(t, reason) \ ids) = keep
    /\ Delete(ids)

\* drop_queued_analyses for first-hour jobs that fell out of the top.
DropQueued(t) ==
  \E ids \in SUBSET {i \in Queued(t) : FirstHourJob(jobs[i])} : ids # {} /\ Delete(ids)

\* forget_target: every row of a removed database.
ForgetTarget(t) == RowsOf(t) # {} /\ Delete(RowsOf(t))

-----------------------------------------------------------------------------
(* Claims.  A claim is the pair (owner, attempt) on a running row.         *)

OwnsOnceEnded(p, i, attempt) ==   \* mutant: without state='running'
  i \in Used /\ jobs[i].owner = p /\ jobs[i].attempt = attempt
OwnsAnyAttempt(p, i, attempt) ==  \* mutant: without attempt=?
  i \in Used /\ jobs[i].state = "running" /\ jobs[i].owner = p
Owns(p, i, attempt) ==
  /\ i \in Used /\ jobs[i].state = "running"
  /\ jobs[i].owner = p /\ jobs[i].attempt = attempt

SameHost(p, q) == (p \in Remote) = (q \in Remote)

\* _dead_analysis_owner, asked by process p; `dead` are the processes that no longer run.
DeadOwner(p, row, dead) == row.owner \in dead /\ SameHost(p, row.owner)

\* claim_analysis begins by putting a dead owner's running rows back in the queue.
Requeued(row) == [row EXCEPT !.state = "queued", !.started = 0, !.owner = NoProc,
                             !.attempt = @ + 1]
Reclaimed(p, t, dead) ==
  [i \in Ids |-> IF i \in Running(t) /\ DeadOwner(p, jobs[i], dead)
                 THEN Requeued(jobs[i]) ELSE jobs[i]]

RunningIn(table, t) ==
  {i \in Ids : table[i] # NoRow /\ table[i].target = t /\ table[i].state = "running"}

BlockedByCount(table, t, execute, first) ==   \* mutant: without the mode check
  Cardinality(RunningIn(table, t)) >= IF execute /\ ~first THEN 1 ELSE Concurrency
BlockedLate(table, t, execute, first) ==      \* mutant: > for >=
  \/ Cardinality(RunningIn(table, t)) > IF execute /\ ~first THEN 1 ELSE Concurrency
  \/ ~first /\ \E i \in RunningIn(table, t) : table[i].mode # "explain"
\* Under EXPLAIN ANALYZE one at a time, plans up to Concurrency; the first hour always up to
\* Concurrency, and beside running measurements.
Blocked(table, t, execute, first) ==
  \/ Cardinality(RunningIn(table, t)) >=
       IF execute /\ ~first THEN 1 ELSE Concurrency
  \/ ~first /\ \E i \in RunningIn(table, t) : table[i].mode # "explain"

QueuedIn(table, t) ==
  {i \in Ids : table[i] # NoRow /\ table[i].target = t /\ table[i].state = "queued"}
Clicks(table, t) == {i \in QueuedIn(table, t) : table[i].reason = "user"}

WithinAllowanceLate(table, row, day) ==       \* mutant: <= for <, reserve and all
  LET used == StartedInDay(table, row.target, day, Reanalysis)
  IN  \/ row.reason \in Reanalysis /\ used <= Cap
      \/ row.reason = "new"
      \/ FirstHourJob(row)
WithinSharedAllowance(table, row, day) ==     \* mutant: one allowance, without the reserve
  StartedInDay(table, row.target, day, Reanalysis) < Cap
\* The row's share of the day's allowance is not used up.
WithinAllowance(table, row, day) ==
  LET used == StartedInDay(table, row.target, day, Reanalysis)
  IN  \/ row.reason = "report" /\ used < Cap
      \/ row.reason = "top15_stale" /\ used + Reserve < Cap
      \/ /\ row.reason = "new"
         /\ StartedInDay(table, row.target, day, Newcomer) < NewcomerCap
      \/ FirstHourJob(row)

\* The rows claim_analysis may start next (ANALYSIS_CLAIM_ORDER: clicks first).  A click
\* needs a sign-in or the user's own key; reports and automatic jobs a sign-in, and automatic
\* ones monitoring switched on.  Eligible queries (the busiest 1,000), paused AI monitoring
\* and the load inside a class are left open, so any other row within its allowance may be
\* next when no click waits.
NextJobs(table, t, day, signedIn, monitored) ==
  {i \in QueuedIn(table, t) :
     \/ table[i].reason = "user"
     \/ /\ signedIn /\ Clicks(table, t) = {}
        /\ table[i].reason \in Automatic => monitored
        /\ WithinAllowance(table, table[i], day)}

Started(row, p, day, execute, first) ==
  [row EXCEPT !.state = "running", !.started = day, !.owner = p, !.attempt = @ + 1,
              !.mode = IF execute THEN "analyze" ELSE "explain", !.firstPass = first]

\* claim_analysis that starts row i.
ClaimAnalysis(p, t, day, dead, execute, first, signedIn, monitored, i) ==
  LET table == Reclaimed(p, t, dead)
  IN  /\ ~Blocked(table, t, execute, first)
      /\ i \in NextJobs(table, t, day, signedIn, monitored)
      /\ jobs' = [table EXCEPT ![i] = Started(table[i], p, day, execute, first)]
      /\ UNCHANGED <<serial, deleted>>

\* claim_analysis that starts nothing: the requeued rows are committed all the same.
ClaimNothing(p, t, dead, execute, first, signedIn) ==
  LET table == Reclaimed(p, t, dead)
  IN  /\ table # jobs
      /\ Blocked(table, t, execute, first) \/ ~signedIn \/ Clicks(table, t) = {}
      /\ jobs' = table
      /\ UNCHANGED <<serial, deleted>>

RecoveredStarted(row, day) ==   \* mutant: started_at stays
  [row EXCEPT !.state = "queued", !.owner = NoProc, !.attempt = @ + 1]
RecoveredAgain(row, day) ==     \* mutant: never gives up
  [row EXCEPT !.state = "queued", !.started = 0, !.owner = NoProc, !.attempt = @ + 1]
\* recover_analysis by process p; `expired` are the rows past the timeout.  A row it requeued
\* once fails the second time.
Recovered(row, day) ==
  IF row.error \in Marked
  THEN [row EXCEPT !.state = "failed", !.finished = day, !.error = "timed out",
                   !.owner = NoProc, !.attempt = @ + 1]
  ELSE [row EXCEPT !.state = "queued", !.started = 0, !.error = "recovered_once",
                   !.owner = NoProc, !.attempt = @ + 1]
LostToDeath(p, dead, expired) ==   \* mutant: without the timeout
  {i \in Used : jobs[i].state = "running" /\ DeadOwner(p, jobs[i], dead)}
Lost(p, dead, expired) ==
  {i \in Used : jobs[i].state = "running" /\ (i \in expired \/ DeadOwner(p, jobs[i], dead))}
RecoverAnalysis(p, day, dead, expired) ==
  /\ jobs' = [i \in Ids |-> IF i \in Lost(p, dead, expired) THEN Recovered(jobs[i], day)
                            ELSE jobs[i]]
  /\ UNCHANGED <<serial, deleted>>

\* The fenced writes of a worker: they land only under its own claim.
HoldAnalysis(p, i, attempt) ==
  IF Owns(p, i, attempt)
  THEN Update(i, [jobs[i] EXCEPT !.state = "queued", !.started = 0,
                                 !.error = "signed out", !.owner = NoProc])
  ELSE UNCHANGED storeVars

RetryAnalysis(p, i, attempt) ==
  /\ Owns(p, i, attempt)
  /\ Update(i, [jobs[i] EXCEPT !.error = IF @ \in Marked THEN "retrying_after_recovery"
                                         ELSE "retrying"])

FinishAnalysis(p, i, attempt, state, day, error, billed) ==
  IF Owns(p, i, attempt)
  THEN Update(i, [jobs[i] EXCEPT !.state = state, !.finished = day, !.error = error,
                                 !.billed = @ \/ billed])
  ELSE UNCHANGED storeVars

CancelAsCancelled(i, day) ==   \* mutant: a state of its own
  /\ i \in Used /\ jobs[i].state \in Live
  /\ Update(i, [jobs[i] EXCEPT !.state = "cancelled", !.finished = day])
\* cancel_analysis, not fenced: it ends whatever waits or runs under the id.
CancelAnalysis(i, day) ==
  /\ i \in Used /\ jobs[i].state \in Live
  /\ Update(i, [jobs[i] EXCEPT !.state = "skipped", !.error = "cancelled",
                               !.finished = day])

SkipAllRemoved(t, day) ==   \* mutant: without the state filter
  /\ jobs' = [i \in Ids |-> IF i \in RowsOf(t)
                            THEN [jobs[i] EXCEPT !.state = "skipped", !.error = "removed"]
                            ELSE jobs[i]]
  /\ UNCHANGED <<serial, deleted>>
\* Removing a database first ends its waiting and running jobs (configure/service.py).
SkipRemoved(t, day) ==
  /\ jobs' = [i \in Ids |-> IF i \in RowsOf(t) /\ jobs[i].state \in Live
                            THEN [jobs[i] EXCEPT !.state = "skipped", !.finished = day,
                                                 !.error = "removed"]
                            ELSE jobs[i]]
  /\ UNCHANGED <<serial, deleted>>

StoreInit ==
  /\ jobs = [i \in Ids |-> NoRow]
  /\ serial = 0
  /\ deleted = {}

StoreTypeOK ==
  /\ jobs \in [Ids -> Row \cup {NoRow}]
  /\ serial \in Nat
  /\ deleted \subseteq Ids
=============================================================================
