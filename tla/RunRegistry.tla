---------------------------- MODULE RunRegistry ----------------------------
(***************************************************************************)
(* Background runs of a server process and the streams that follow them    *)
(* (cli/shared/run_registry.py, cli/shared/api/routes/runs.py).            *)
(*                                                                         *)
(* Everything happens on one event loop: a step is what one task does      *)
(* between two of its awaits.  A run wraps a generator, which yields what  *)
(* it likes and may end, raise, or be cancelled at any await, before its   *)
(* task had a turn too.  Events are names; of the outcome rules only that  *)
(* an error may make it "failed" or "partial" is kept.  wake_needs_key     *)
(* sets a flag only the generator reads, and is left out.                  *)
(***************************************************************************)
EXTENDS Integers, Sequences, FiniteSets

CONSTANTS
  MaxRuns,     \* bound: runs started
  MaxEvents,   \* bound: events a generator yields
  MaxFinished, \* max_finished: finished runs kept
  Audits,      \* the runs of AUDIT_RUN_KINDS
  Targets,     \* databases
  TargetOf,    \* the database of each run
  Swallows,    \* the runs whose generator may go on after a cancellation
  Subscribers, \* streams
  Afters,      \* the places a stream is asked to go on from
  NoRun        \* the run of a stream not opened

Runs == 1..MaxRuns

ASSUME BoundAssumption == MaxRuns \in Nat /\ MaxEvents \in Nat /\ MaxFinished \in Nat
ASSUME RunsAssumption == Audits \subseteq Runs /\ TargetOf \in [Runs -> Targets] /\ NoRun \notin Runs
                         /\ Swallows \subseteq Runs
ASSUME AftersAssumption == Afters \subseteq Int

VARIABLES
  known,     \* _runs: the runs the registry knows
  status,    \* handle.status
  events,    \* handle.events
  phase,     \* the run's task
  outcome,   \* the local status of _drive
  cancelled, \* runs whose task was cancelled and has not heard of it
  waiters,   \* handle.waiters
  stream     \* each stream: its run, its place in the log, and what it does

vars == <<known, status, events, phase, outcome, cancelled, waiters, stream>>

TERMINAL_STATUSES == {"done", "partial", "failed", "cancelled"}
Names == {"event", "error", "needs_key", "run_end"}
\* new: the task had no turn yet.  dropped: cancelled before it had one.  closing: in aclose().
Phases == {"none", "new", "driving", "closing", "dropped", "ended"}
\* `from` is the after_seq a stream was opened with; its index moves on from there.
Stream == [run : Runs \cup {NoRun}, from : Int, index : Int,
           state : {"idle", "asked", "reading", "waiting", "over", "unknown", "gone"}]

TypeOK ==
  /\ known \subseteq Runs
  /\ status \in [Runs -> {"running", "needs_key"} \cup TERMINAL_STATUSES]
  /\ events \in [Runs -> Seq(Names)]
  /\ phase \in [Runs -> Phases]
  /\ outcome \in [Runs -> TERMINAL_STATUSES]
  /\ cancelled \subseteq Runs
  /\ waiters \in [Runs -> SUBSET Subscribers]
  /\ stream \in [Subscribers -> Stream]

Init ==
  /\ known = {}
  /\ status = [i \in Runs |-> "running"]
  /\ events = [i \in Runs |-> <<>>]
  /\ phase = [i \in Runs |-> "none"]
  /\ outcome = [i \in Runs |-> "done"]
  /\ cancelled = {}
  /\ waiters = [i \in Runs |-> {}]
  /\ stream = [s \in Subscribers |-> [run |-> NoRun, from |-> 0, index |-> 0, state |-> "idle"]]

Terminal(i) == status[i] \in TERMINAL_STATUSES
\* A run handed out and not over, as far as its handle tells.
Live(i) == phase[i] # "none" /\ ~Terminal(i)

-----------------------------------------------------------------------------
(* Starting, cancelling and forgetting                                     *)

\* find_active: looked up and started without an await between (run_audit, run_capture, fleet).
FindActive(kinds) == {i \in known \cap kinds : Live(i)}

Start(i) ==
  /\ phase[i] = "none"
  /\ \A j \in Runs : j < i => phase[j] # "none"
  /\ i \in Audits => FindActive(Audits) = {}
  /\ phase' = [phase EXCEPT ![i] = "new"]
  /\ known' = known \cup {i}
  /\ UNCHANGED <<status, events, outcome, cancelled, waiters, stream>>

\* task.cancel() of a task that is not done.
CancelTasks(runs) == cancelled' = cancelled \cup {i \in runs : phase[i] # "dropped"}

Cancel(i) ==
  /\ i \in known
  /\ Live(i)
  /\ CancelTasks({i})
  /\ UNCHANGED <<known, status, events, phase, outcome, waiters, stream>>

CancelTarget(t) ==
  /\ CancelTasks({i \in known : Live(i) /\ TargetOf[i] = t})
  /\ UNCHANGED <<known, status, events, phase, outcome, waiters, stream>>

\* reset: local data is wiped, live runs are cancelled and every run is forgotten.
Reset ==
  /\ CancelTasks({i \in known : Live(i)})
  /\ known' = {}
  /\ UNCHANGED <<status, events, phase, outcome, waiters, stream>>

-----------------------------------------------------------------------------
(* A run                                                                   *)

\* mutant: nobody is woken
AppendQuietly(i, name) ==
  events' = [events EXCEPT ![i] = Append(@, name)] /\ UNCHANGED <<waiters, stream>>

\* _append: whoever waits for the run is woken.
Append1(i, name) ==
  /\ events' = [events EXCEPT ![i] = Append(@, name)]
  /\ waiters' = [waiters EXCEPT ![i] = {}]
  /\ stream' = [s \in Subscribers |->
       IF s \in waiters[i] /\ stream[s].state = "waiting"
         THEN [stream[s] EXCEPT !.state = "reading"] ELSE stream[s]]

FinishedOrNot(i, final) == i \in known \* mutant: live runs count as finished

\* _evict_finished, in the order the runs were started.
Finished(i, final) == i \in known /\ final[i] \in TERMINAL_STATUSES
Evicted(final) ==
  {i \in known : /\ Finished(i, final)
                 /\ Cardinality({j \in known : j > i /\ Finished(j, final)}) >= MaxFinished}

\* mutant: a cancelled run ends without a word
TerminalizeUnlessCancelled(i, final) ==
  /\ status' = [status EXCEPT ![i] = final]
  /\ IF final = "cancelled" THEN UNCHANGED <<events, waiters, stream>> ELSE Append1(i, "run_end")
  /\ known' = known \ Evicted(status')

\* The end of a run: its status, its last event, and the oldest finished runs forgotten.
Terminalize(i, final) ==
  /\ status' = [status EXCEPT ![i] = final]
  /\ Append1(i, "run_end")
  /\ known' = known \ Evicted(status')

FirstTurn(i) ==
  /\ phase[i] = "new"
  /\ phase' = [phase EXCEPT ![i] = IF i \in cancelled THEN "dropped" ELSE "driving"]
  /\ cancelled' = cancelled \ {i}
  /\ UNCHANGED <<known, status, events, outcome, waiters, stream>>

\* mutant: no done callback
DropCancelled(i) ==
  /\ phase[i] = "dropped"
  /\ phase' = [phase EXCEPT ![i] = "ended"]
  /\ UNCHANGED <<known, status, events, waiters, stream, outcome, cancelled>>

\* The done callback of a task cancelled before its first turn.
TerminalizeCancelledBeforeStart(i) ==
  /\ phase[i] = "dropped"
  /\ phase' = [phase EXCEPT ![i] = "ended"]
  /\ Terminalize(i, "cancelled")
  /\ UNCHANGED <<outcome, cancelled>>

\* An error fails the run, unless a speed test's result outlives its failed cleanup.
OutcomeAfter(name, before) ==
  IF name # "error" THEN {before}
  ELSE {"failed"} \cup (IF before = "failed" THEN {} ELSE {"partial"})

Yield(i, name) ==
  /\ phase[i] = "driving"
  /\ i \notin cancelled
  /\ name # "run_end"
  /\ Len(events[i]) < MaxEvents
  /\ Append1(i, name)
  /\ \E o \in OutcomeAfter(name, outcome[i]) : outcome' = [outcome EXCEPT ![i] = o]
  /\ status' = [status EXCEPT ![i] = IF name = "needs_key" THEN "needs_key" ELSE "running"]
  /\ UNCHANGED <<known, phase, cancelled>>

Exhausted(i) ==
  /\ phase[i] = "driving"
  /\ i \notin cancelled
  /\ phase' = [phase EXCEPT ![i] = "closing"]
  /\ UNCHANGED <<known, status, events, outcome, cancelled, waiters, stream>>

Raised(i) ==
  /\ phase[i] = "driving"
  /\ i \notin cancelled
  /\ phase' = [phase EXCEPT ![i] = "closing"]
  /\ outcome' = [outcome EXCEPT ![i] = "failed"]
  /\ Append1(i, "error")
  /\ UNCHANGED <<known, status, cancelled>>

\* The generator hears of the cancellation: it lets it through,
CancelArrives(i) ==
  /\ phase[i] = "driving"
  /\ i \in cancelled
  /\ phase' = [phase EXCEPT ![i] = "closing"]
  /\ outcome' = [outcome EXCEPT ![i] = "cancelled"]
  /\ cancelled' = cancelled \ {i}
  /\ UNCHANGED <<known, status, events, waiters, stream>>
\* or its own cleanup raises something else,
CancelFails(i) ==
  /\ phase[i] = "driving"
  /\ i \in cancelled
  /\ phase' = [phase EXCEPT ![i] = "closing"]
  /\ outcome' = [outcome EXCEPT ![i] = "failed"]
  /\ cancelled' = cancelled \ {i}
  /\ Append1(i, "error")
  /\ UNCHANGED <<known, status>>
\* or it catches it and goes on, or ends in its own way.
CancelSwallowed(i) ==
  /\ phase[i] = "driving"
  /\ i \in cancelled \cap Swallows
  /\ cancelled' = cancelled \ {i}
  /\ UNCHANGED <<known, status, events, phase, outcome, waiters, stream>>
CancelHeard(i) == CancelArrives(i) \/ CancelFails(i) \/ CancelSwallowed(i)

\* aclose() returns, raises, or is cancelled: the finally clause goes on.
Close(i) ==
  /\ phase[i] = "closing"
  /\ phase' = [phase EXCEPT ![i] = "ended"]
  /\ Terminalize(i, outcome[i])
  /\ cancelled' = cancelled \ {i}
  /\ UNCHANGED outcome

-----------------------------------------------------------------------------
(* A stream                                                                *)

\* run_events: the route checks the run and takes any after_seq, the response asks for its
\* events later.
Subscribe(s, i, after) ==
  /\ stream[s].state = "idle"
  /\ i \in known
  /\ stream' = [stream EXCEPT ![s] = [run |-> i, from |-> after, index |-> after, state |-> "asked"]]
  /\ UNCHANGED <<known, status, events, phase, outcome, cancelled, waiters>>

Open(s) ==
  /\ stream[s].state = "asked"
  /\ stream' = [stream EXCEPT ![s].state = IF stream[s].run \in known THEN "reading" ELSE "unknown"]
  /\ UNCHANGED <<known, status, events, phase, outcome, cancelled, waiters>>

\* mutant: the end comes before the events that are left
ReadEndFirst(s) ==
  LET i == stream[s].run
      more == stream[s].index < Len(events[i]) IN
  /\ stream[s].state = "reading"
  /\ stream' = IF Terminal(i) THEN [stream EXCEPT ![s].state = "over"]
               ELSE IF more THEN [stream EXCEPT ![s].index = @ + 1]
               ELSE [stream EXCEPT ![s].state = "waiting"]
  /\ waiters' = IF Terminal(i) \/ more THEN waiters ELSE [waiters EXCEPT ![i] = @ \cup {s}]
  /\ UNCHANGED <<known, status, events, phase, outcome, cancelled>>

\* The next event, or the end, or a future that the next event resolves.  A negative index
\* counts from the end of the log; beyond its first event the stream breaks off (IndexError).
Read(s) ==
  LET i == stream[s].run IN
  /\ stream[s].state = "reading"
  /\ CASE stream[s].index < -Len(events[i]) ->
            stream' = [stream EXCEPT ![s].state = "gone"] /\ UNCHANGED waiters
       [] stream[s].index \in -Len(events[i]) .. Len(events[i]) - 1 ->
            stream' = [stream EXCEPT ![s].index = @ + 1] /\ UNCHANGED waiters
       [] stream[s].index >= Len(events[i]) /\ Terminal(i) ->
            stream' = [stream EXCEPT ![s].state = "over"] /\ UNCHANGED waiters
       [] OTHER ->
            /\ stream' = [stream EXCEPT ![s].state = "waiting"]
            /\ waiters' = [waiters EXCEPT ![i] = @ \cup {s}]
  /\ UNCHANGED <<known, status, events, phase, outcome, cancelled>>

\* The client goes away; a future it left among the waiters is done already.
Leave(s) ==
  /\ stream[s].state \in {"asked", "reading", "waiting"}
  /\ stream' = [stream EXCEPT ![s].state = "gone"]
  /\ UNCHANGED <<known, status, events, phase, outcome, cancelled, waiters>>

-----------------------------------------------------------------------------

RunStep(i) ==
  \/ Start(i) \/ Cancel(i) \/ FirstTurn(i) \/ TerminalizeCancelledBeforeStart(i)
  \/ (\E name \in Names : Yield(i, name)) \/ Exhausted(i) \/ Raised(i) \/ CancelArrives(i) \/ CancelFails(i)
  \/ CancelSwallowed(i) \/ Close(i)
StreamStep(s) ==
  \/ \E i \in Runs : \E after \in Afters : Subscribe(s, i, after)
  \/ Open(s) \/ Read(s) \/ Leave(s)

Next ==
  \/ \E i \in Runs : RunStep(i)
  \/ \E t \in Targets : CancelTarget(t)
  \/ Reset
  \/ \E s \in Subscribers : StreamStep(s)

Spec == Init /\ [][Next]_vars

\* The event loop turns every task that can run; a generator may take as long as it likes, but
\* closing it ends.
Fairness ==
  /\ \A i \in Runs :
       /\ WF_vars(FirstTurn(i))
       /\ WF_vars(TerminalizeCancelledBeforeStart(i))
       /\ WF_vars(CancelHeard(i))
       /\ WF_vars(Close(i))
  /\ \A s \in Subscribers : WF_vars(Open(s)) /\ WF_vars(Read(s))

FairSpec == Spec /\ Fairness

-----------------------------------------------------------------------------
(* Properties                                                              *)

\* A run is over exactly when its log ends in run_end, however it was cancelled, and has no other
\* ("Always emit a terminal record", run_registry.py:338; the done callback, 360-368).
EndedOnce ==
  \A i \in Runs :
    {n \in 1..Len(events[i]) : events[i][n] = "run_end"}
      = IF Terminal(i) THEN {Len(events[i])} ELSE {}

\* A stream that ended had every event of its run from where it was opened up to run_end, wherever
\* in the log that was; opened beyond the end it stays there (events(), run_registry.py:264-285).
StreamComplete ==
  \A s \in Subscribers :
    stream[s].state = "over" =>
      LET size == Len(events[stream[s].run])
      IN  /\ Terminal(stream[s].run)
          /\ stream[s].index = IF stream[s].from > size THEN stream[s].from ELSE size

\* Retention forgets finished runs only, and keeps MaxFinished of them (_evict_finished, 370-378).
RetentionKept ==
  [][known' # {} =>
       /\ \A i \in known \ known' : status'[i] \in TERMINAL_STATUSES
       /\ Cardinality({i \in known' : status'[i] \in TERMINAL_STATUSES}) <= MaxFinished]_vars

\* "Attached subscribers still settle" (reset, run_registry.py:237): once its run is over every
\* stream ends, and a stream always hears of the next event.
StreamsSettle ==
  \A s \in Subscribers :
    (stream[s].state \in {"reading", "waiting"} /\ Terminal(stream[s].run))
      ~> stream[s].state \in {"over", "gone"}

\* A cancelled run whose generator doesn't swallow the cancellation is over before long: before
\* its first turn, at work, closing or forgotten (cancel, run_registry.py:210-218).
CancelSettles == \A i \in Runs \ Swallows : i \in cancelled ~> Terminal(i)
=============================================================================
