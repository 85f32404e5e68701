------------------------------ MODULE Reports ------------------------------
(***************************************************************************)
(* Performance reports of one database: the report_run rows of monitor.db  *)
(* (cli/shared/monitor/monitor_store.py), the run_report tasks that write  *)
(* them and the ReportScheduler of every server process                    *)
(* (cli/features/monitor/report.py), and a user who cancels from any of    *)
(* the servers (cli/features/monitor/api/routes.py).                       *)
(*                                                                         *)
(* A store method is one transaction, hence one step.  A run is a task     *)
(* that awaits store methods in threads: cancelling it abandons the await, *)
(* and a write already begun lands later.  The day is one day, the period  *)
(* of a row follows from its trigger, and what a report says, its progress *)
(* events and its narrative retries are left out.                          *)
(***************************************************************************)
EXTENDS Naturals, FiniteSets

CONSTANTS
  Procs,        \* the server processes sharing monitor.db
  MaxRuns,      \* bound: rows of report_run
  CheckupSlots, \* CHECKUP_SLOTS
  NoRun         \* a row not inserted yet, a run without a task

ASSUME BoundAssumption == MaxRuns \in Nat
ASSUME SlotsAssumption == CheckupSlots \in Nat

VARIABLES
  rows,      \* the report_run rows by id
  task,      \* the task of each run: its process, and where it stands
  requested, \* _cancel_requested: runs whose process was told to stop them
  late,      \* writes whose task no longer waits for them
  cancels,   \* runs request_cancel told to stop whose rows it has yet to mark
  server,    \* of each process: "off", "on" or "stopping"
  plan       \* of each ReportScheduler: "claiming" once its tick found the nightly report due

vars == <<rows, task, requested, late, cancels, server, plan>>

Runs == 1..MaxRuns
Ended == {"done", "failed", "cancelled"}
\* fresh: the heartbeat of a running row is at most 900 s old.  recent: done at most 900 s ago.
Row == [state : {"running"} \cup Ended, trigger : {"nightly", "user"},
        fresh : BOOLEAN, recent : BOOLEAN]

\* claimed: the row is ours and the task not created.  begin: before the run is in _running.
\* writing: the write of the state it ends in is under way.  tail: the report is stored.
\* closing: the handler's own write is stored.
Stages == {"claimed", "slot", "begin", "work", "writing", "tail", "closing", "over"}
Task == [proc : Procs, stage : Stages, writes : {"running"} \cup Ended, cancelled : BOOLEAN]

ASSUME NoRunAssumption == NoRun \notin Row /\ NoRun \notin Task

TypeOK ==
  /\ rows \in [Runs -> Row \cup {NoRun}]
  /\ task \in [Runs -> Task \cup {NoRun}]
  /\ requested \subseteq Runs
  /\ late \subseteq Runs \X Ended
  /\ cancels \subseteq Runs
  /\ server \in [Procs -> {"off", "on", "stopping"}]
  /\ plan \in [Procs -> {"idle", "claiming"}]

Init ==
  /\ rows = [i \in Runs |-> NoRun]
  /\ task = [i \in Runs |-> NoRun]
  /\ requested = {}
  /\ late = {}
  /\ cancels = {}
  /\ server = [p \in Procs |-> "off"]
  /\ plan = [p \in Procs |-> "idle"]

-----------------------------------------------------------------------------
(* The rows                                                                *)

In(i, state) == rows[i] # NoRun /\ rows[i].state = state
Nightly(i) == rows[i] # NoRun /\ rows[i].trigger = "nightly"

\* mutant: a run under way answers its own kind only
AnsweredByKind(trigger) ==
  \E i \in Runs : /\ rows[i] # NoRun
                 /\ (rows[i].state = "running" \/ (rows[i].state = "done" /\ rows[i].recent))
                 /\ rows[i].trigger = trigger

\* claim_report: the run under way, or one just finished for the same period, answers.
Answered(trigger) ==
  \E i \in Runs : rows[i] # NoRun /\ \/ rows[i].state = "running"
                                     \/ /\ rows[i].state = "done"
                                        /\ rows[i].recent
                                        /\ rows[i].trigger = trigger
NewRun(i) == rows[i] = NoRun /\ \A j \in Runs : j < i => rows[j] # NoRun
ClaimedRow(trigger) == [state |-> "running", trigger |-> trigger, fresh |-> TRUE, recent |-> FALSE]

\* update_report: the state given, or the row's own; either way the heartbeat is renewed.
Updated(i, state) ==
  rows' = [rows EXCEPT ![i].state = state, ![i].fresh = (state = "running"),
                       ![i].recent = (state = "done")]

\* recover_reports: runs without a heartbeat for 900 s have failed.
Recovered(row) ==
  IF row # NoRun /\ row.state = "running" /\ ~row.fresh THEN [row EXCEPT !.state = "failed"] ELSE row
\* mutant: only nightly reports are recovered
RecoverNightly == rows' = [i \in Runs |-> IF Nightly(i) THEN Recovered(rows[i]) ELSE rows[i]]
RecoverReports == rows' = [i \in Runs |-> Recovered(rows[i])]

\* touch_report: whether the run still runs, its heartbeat renewed if so.
TouchReport(i) ==
  rows' = IF In(i, "running") THEN [rows EXCEPT ![i].fresh = TRUE] ELSE rows

-----------------------------------------------------------------------------
(* A task                                                                  *)

At(i, stage) == task[i] # NoRun /\ task[i].stage = stage
Move(i, stage) == task' = [task EXCEPT ![i].stage = stage]
OverTask(p) == [proc |-> p, stage |-> "over", writes |-> "running", cancelled |-> FALSE]
End(i) == task' = [task EXCEPT ![i] = OverTask(@.proc)]
Write(i, state) ==
  task' = [task EXCEPT ![i].stage = "writing", ![i].writes = state, ![i].cancelled = FALSE]

\* _running has the run and its task is not done.
Registered(p, i) ==
  /\ task[i] # NoRun
  /\ task[i].proc = p
  /\ task[i].stage \in {"work", "writing", "tail", "closing"}

\* A run that went past its process's slots and holds one.
HoldsSlot(p, i) ==
  /\ task[i] # NoRun
  /\ task[i].proc = p
  /\ task[i].stage \notin {"claimed", "slot", "over"}
  /\ Nightly(i)
SlotFree(p) == Cardinality({i \in Runs : HoldsSlot(p, i)}) < CheckupSlots

\* start_report and _plan: the claim is made in a thread, the task follows on the loop.
Claim(p, trigger, stage) ==
  \/ /\ Answered(trigger)
     /\ UNCHANGED <<rows, task>>
  \/ \E i \in Runs :
       /\ ~Answered(trigger)
       /\ NewRun(i)
       /\ rows' = [rows EXCEPT ![i] = ClaimedRow(trigger)]
       /\ task' = [task EXCEPT ![i] =
            [proc |-> p, stage |-> stage, writes |-> "running", cancelled |-> FALSE]]

StartReport(p) ==
  /\ server[p] = "on"
  /\ Claim(p, "user", "claimed")
  /\ UNCHANGED <<requested, late, cancels, server, plan>>

\* A user's run starts at once, a nightly one in a slot.
Launch(i) ==
  /\ At(i, "claimed")
  /\ Move(i, IF Nightly(i) THEN "slot" ELSE "begin")
  /\ UNCHANGED <<rows, requested, late, cancels, server, plan>>

\* _in_slot: SLOT_HEARTBEAT_S without a slot.  A run that was failed or cancelled is dropped.
WaitInSlot(i) ==
  /\ At(i, "slot")
  /\ ~SlotFree(task[i].proc)
  /\ TouchReport(i)
  /\ IF In(i, "running") THEN UNCHANGED task ELSE End(i)
  /\ UNCHANGED <<requested, late, cancels, server, plan>>

TakeSlot(i) ==
  /\ At(i, "slot")
  /\ SlotFree(task[i].proc)
  /\ TouchReport(i)
  /\ IF In(i, "running") THEN Move(i, "begin") ELSE End(i)
  /\ UNCHANGED <<requested, late, cancels, server, plan>>

\* run_report: the period is stored and the task registered ...
Begin(i) ==
  /\ At(i, "begin")
  /\ Updated(i, rows[i].state)
  /\ Move(i, "work")
  /\ UNCHANGED <<requested, late, cancels, server, plan>>

\* ... unless nobody is signed in for a nightly run.
SignedOut(i) ==
  /\ At(i, "begin")
  /\ Nightly(i)
  /\ Updated(i, "cancelled")
  /\ End(i)
  /\ UNCHANGED <<requested, late, cancels, server, plan>>

\* mutant: progress says that the run runs
ProgressRunning(i) ==
  /\ At(i, "work")
  /\ Updated(i, "running")
  /\ UNCHANGED <<task, requested, late, cancels, server, plan>>

\* Every write of progress keeps the row's state and renews its heartbeat.
Progress(i) ==
  /\ At(i, "work")
  /\ Updated(i, rows[i].state)
  /\ UNCHANGED <<task, requested, late, cancels, server, plan>>

WriteReport(i) ==
  /\ At(i, "work")
  /\ Write(i, "done")
  /\ UNCHANGED <<rows, requested, late, cancels, server, plan>>

\* An exception at work, or in what follows the stored report.
Fail(i) ==
  /\ At(i, "work") \/ At(i, "tail")
  /\ Write(i, "failed")
  /\ UNCHANGED <<rows, requested, late, cancels, server, plan>>

Stored(i) ==
  /\ At(i, "writing")
  /\ Updated(i, task[i].writes)
  /\ Move(i, IF task[i].writes = "done" THEN "tail" ELSE "closing")
  /\ UNCHANGED <<requested, late, cancels, server, plan>>

\* The last event is out: the finally clause.
Finish(i) ==
  /\ At(i, "tail") \/ At(i, "closing")
  /\ End(i)
  /\ requested' = requested \ {i}
  /\ UNCHANGED <<rows, late, cancels, server, plan>>

\* task.cancel() arrives: before the try block or in a handler it ends the task, otherwise the
\* handler writes why the run stopped.  The write under way is abandoned, not undone.
Interrupt(i) ==
  /\ task[i] # NoRun
  /\ task[i].cancelled
  /\ \/ /\ At(i, "work") \/ At(i, "tail") \/ (At(i, "writing") /\ task[i].writes = "done")
        /\ Write(i, IF i \in requested THEN "cancelled" ELSE "failed")
        /\ UNCHANGED requested
     \/ /\ At(i, "slot") \/ At(i, "begin") \/ At(i, "closing")
           \/ (At(i, "writing") /\ task[i].writes # "done")
        /\ End(i)
        /\ requested' = requested \ {i}
  /\ late' = IF At(i, "writing") THEN late \cup {<<i, task[i].writes>>} ELSE late
  /\ UNCHANGED <<rows, cancels, server, plan>>

\* An abandoned write reaches the store after all.
LateWrite(i, state) ==
  /\ <<i, state>> \in late
  /\ Updated(i, state)
  /\ late' = late \ {<<i, state>>}
  /\ UNCHANGED <<task, requested, cancels, server, plan>>

-----------------------------------------------------------------------------
(* Cancelling, from any server                                             *)

\* request_cancel where the run is registered: its task is told to stop ...
RequestCancel(p, i) ==
  /\ server[p] = "on"
  /\ Registered(p, i)
  /\ requested' = requested \cup {i}
  /\ task' = [task EXCEPT ![i].cancelled = TRUE]
  /\ cancels' = cancels \cup {i}
  /\ UNCHANGED <<rows, late, server, plan>>

\* ... and then cancel_report marks the row.
CancelledRow(i) ==
  IF In(i, "running") THEN [rows EXCEPT ![i].state = "cancelled", ![i].fresh = FALSE] ELSE rows
CancelRow(i) ==
  /\ i \in cancels
  /\ cancels' = cancels \ {i}
  /\ rows' = CancelledRow(i)
  /\ UNCHANGED <<task, requested, late, server, plan>>

\* request_cancel by a server that has no such task, or had none when it looked.
CancelElsewhere(p, i) ==
  /\ server[p] = "on"
  /\ In(i, "running")
  /\ rows' = CancelledRow(i)
  /\ UNCHANGED <<task, requested, late, cancels, server, plan>>

-----------------------------------------------------------------------------
(* The scheduler of a server, and time                                     *)

\* ReportScheduler.start recovers before its first tick.
Start(p) ==
  /\ server[p] = "off"
  /\ RecoverReports
  /\ server' = [server EXCEPT ![p] = "on"]
  /\ UNCHANGED <<task, requested, late, cancels, plan>>

\* mutant: any report of the day will do
NightlyDueOnce == \A i \in Runs : rows[i] # NoRun => rows[i].state = "cancelled"

\* _nightly: due unless a nightly run of the day runs, is done or failed.
NightlyDue == \A i \in Runs : Nightly(i) => rows[i].state = "cancelled"

\* _plan recovers and looks for the day's report (recovering does not change what it finds) ...
Tick(p) ==
  /\ server[p] = "on"
  /\ plan[p] = "idle"
  /\ RecoverReports
  /\ plan' = [plan EXCEPT ![p] = IF NightlyDue THEN "claiming" ELSE "idle"]
  /\ UNCHANGED <<task, requested, late, cancels, server>>

\* ... and claims it in a transaction of its own.
ClaimNightly(p) ==
  /\ plan[p] = "claiming"
  /\ Claim(p, "nightly", IF server[p] = "on" THEN "claimed" ELSE "over")
  /\ plan' = [plan EXCEPT ![p] = "idle"]
  /\ UNCHANGED <<requested, late, cancels, server>>

RunsOf(p) == {i \in Runs : task[i] # NoRun /\ task[i].proc = p}

\* The lifespan ends, after the open requests: every task is cancelled, and what _plan claims or
\* has just claimed in its thread stays without a task.
Stop(p) ==
  /\ server[p] = "on"
  /\ \A i \in RunsOf(p) : At(i, "claimed") => Nightly(i)
  /\ cancels \cap RunsOf(p) = {}
  /\ server' = [server EXCEPT ![p] = "stopping"]
  /\ task' = [i \in Runs |->
       IF i \notin RunsOf(p) \/ At(i, "over") THEN task[i]
       ELSE IF At(i, "claimed") THEN OverTask(p)
       ELSE [task[i] EXCEPT !.cancelled = TRUE]]
  /\ UNCHANGED <<rows, requested, late, cancels, plan>>

\* Its tasks are over and its threads done.
Stopped(p) ==
  /\ server[p] = "stopping"
  /\ \A i \in RunsOf(p) : At(i, "over") /\ \A w \in late : w[1] # i
  /\ plan[p] = "idle"
  /\ server' = [server EXCEPT ![p] = "off"]
  /\ UNCHANGED <<rows, task, requested, late, cancels, plan>>

Crash(p) ==
  /\ server[p] # "off"
  /\ server' = [server EXCEPT ![p] = "off"]
  /\ plan' = [plan EXCEPT ![p] = "idle"]
  /\ task' = [i \in Runs |->
       IF i \in RunsOf(p) THEN OverTask(p) ELSE task[i]]
  /\ requested' = requested \ RunsOf(p)
  /\ late' = {w \in late : w[1] \notin RunsOf(p)}
  /\ cancels' = cancels \ RunsOf(p)
  /\ UNCHANGED rows

\* 900 s pass over a heartbeat, or over the end of a report.
GoStale(i) ==
  /\ In(i, "running") /\ rows[i].fresh
  /\ rows' = [rows EXCEPT ![i].fresh = FALSE]
  /\ UNCHANGED <<task, requested, late, cancels, server, plan>>
GoOld(i) ==
  /\ In(i, "done") /\ rows[i].recent
  /\ rows' = [rows EXCEPT ![i].recent = FALSE]
  /\ UNCHANGED <<task, requested, late, cancels, server, plan>>

-----------------------------------------------------------------------------

TaskStep(i) ==
  \/ Launch(i) \/ WaitInSlot(i) \/ TakeSlot(i) \/ Begin(i) \/ SignedOut(i)
  \/ Progress(i) \/ WriteReport(i) \/ Fail(i) \/ Stored(i) \/ Finish(i) \/ Interrupt(i)
ServerStep(p) ==
  \/ Start(p) \/ StartReport(p) \/ Tick(p) \/ ClaimNightly(p)
  \/ Stop(p) \/ Stopped(p) \/ Crash(p)
UserStep(p, i) == RequestCancel(p, i) \/ CancelElsewhere(p, i)
TimeStep(i) == GoStale(i) \/ GoOld(i)

Next ==
  \/ \E i \in Runs : TaskStep(i) \/ CancelRow(i) \/ TimeStep(i) \/ \E state \in Ended : LateWrite(i, state)
  \/ \E p \in Procs : ServerStep(p) \/ \E i \in Runs : UserStep(p, i)

Spec == Init /\ [][Next]_vars

\* Threads and the event loop get on, a scheduler ticks every minute, a clock goes on.  TakeSlot
\* is strong: slots come and go.  Nobody has to start a server, a report or a cancel.
Fairness ==
  /\ \A p \in Procs :
       WF_vars(Tick(p)) /\ WF_vars(ClaimNightly(p)) /\ WF_vars(Stopped(p))
  /\ \A i \in Runs :
       /\ WF_vars(Launch(i))
       /\ SF_vars(TakeSlot(i))
       /\ WF_vars(Begin(i) \/ SignedOut(i))
       /\ WF_vars(WriteReport(i))
       /\ WF_vars(Stored(i))
       /\ WF_vars(Finish(i))
       /\ WF_vars(Interrupt(i))
       /\ WF_vars(GoStale(i))

FairSpec == Spec /\ Fairness

-----------------------------------------------------------------------------
(* Properties                                                              *)

\* A database has one report under way, whichever servers claim, recover, cancel and write
\* (claim_report, monitor_store.py:1497-1526).
OneRunning == \A i, j \in Runs : In(i, "running") /\ In(j, "running") => i = j

\* A run that was failed by another server, or cancelled, is never under way again, whatever its
\* own task still writes (update_report keeps the row's state, monitor_store.py:1540).
EndedStaysEnded ==
  [][\A i \in Runs : rows[i] # NoRun /\ rows[i].state # "running" => rows'[i].state # "running"]_vars

\* While some server stays up every run ends: one left by a crash, by a stopped server or in a
\* claim that never got a task too (recover_reports, monitor_store.py:1580-1583).
SomeoneStays == \E p \in Procs : <>[](server[p] = "on")
RunsEnd == SomeoneStays => \A i \in Runs : In(i, "running") ~> ~In(i, "running")

\* A nightly report is claimed sooner or later, unless the instance's runs are used up before:
\* neither a user's reports nor stale runs keep it off for good (ReportScheduler._nightly,
\* report.py:1366-1389).  What becomes of it is RunsEnd's matter.
NightlyHappens == SomeoneStays => <>((\E i \in Runs : Nightly(i)) \/ (\A i \in Runs : rows[i] # NoRun))

\* "Stop a running report." (request_cancel, report.py:676): a cancelled run is not done later.
CancelStops ==
  [][\A i \in Runs : In(i, "cancelled") => rows'[i].state # "done"]_vars
=============================================================================
