------------------------ MODULE ObservationScheduler ------------------------
(***************************************************************************)
(* Background readings of the databases, by the scheduler of every server  *)
(* process (cli/features/query_registry/scheduler.py) over one cache.db.   *)
(*                                                                         *)
(* An attempt is one _collect_target task.  Between two of its awaits      *)
(* nothing else runs in its process, so one step goes from await to await. *)
(* The reading itself is a task of its own that waits for a thread, cannot *)
(* be cancelled, and writes through the collector's current fence.  An     *)
(* attempt that is cancelled or gives up leaves its reading behind, with   *)
(* its admission and its fence.  The monitor loop, the parameter sampler   *)
(* and the setup check are the other readers of a database in a process:   *)
(* they know nothing of leases, only of admission.                         *)
(*                                                                         *)
(* Which attempt is due, and in which order, is left open.  Results are    *)
(* reported from a worker thread; the await of a successful report changes *)
(* nothing and is left out.                                                *)
(***************************************************************************)
EXTENDS ObservationLease, TargetBackoff, FiniteSets

CONSTANTS
  Monitored,         \* the databases with monitoring on
  Tunneled,          \* the databases behind an SSH tunnel
  Readers,           \* the processes whose monitor loop, sampler and setup check read too
  GlobalConcurrency, \* GLOBAL_CONCURRENCY
  MaxToken,          \* bound: tokens handed out for a database
  MaxLife            \* bound: lives of a process

ASSUME MonitoredAssumption == Monitored \subseteq Targets /\ Tunneled \subseteq Targets
ASSUME ReadersAssumption == Readers \subseteq Procs
ASSUME ConcurrencyAssumption == GlobalConcurrency \in Nat
ASSUME BoundAssumption == MaxToken \in Nat /\ MaxLife \in Nat

VARIABLES
  scheduler, \* of each process: "off", "on", "stopping" or "stopped"
  scheduled, \* _schedules: the databases a process reads
  held,      \* held_since: databases found held by another reader at the last attempt
  attempt,   \* the _collect_target task of each process and database
  readings,  \* the collect_now tasks whose outcome nobody has handled yet
  fence,     \* the collector's write fence, 0 without one
  leased,    \* _leased: the leases a scheduler will release
  backoff,   \* the TargetBackoff entry of each process and database
  reader,    \* another reader of the process holds admission for the database
  written    \* observation: the token of the last reading that wrote

vars == <<lease, life, scheduler, scheduled, held, attempt, readings, fence, leased, backoff,
          reader, written>>

\* failing: telling the listener of a failure.  grace: past the deadline, the connection aborted.
Stages == {"none", "launched", "reading", "grace", "failing"}
Attempt == [stage : Stages, token : Nat, admitted : BOOLEAN, cancelled : BOOLEAN]
NoAttempt == [stage |-> "none", token |-> 0, admitted |-> FALSE, cancelled |-> FALSE]

\* A reading, known by its token.  left: what its end does for an attempt that went away,
\* "no" while the attempt still waits for it.
Reading == [proc : Procs, target : Targets, token : Nat \ {0},
            state : {"running", "event", "error", "raised", "lost"},
            left : {"no", "finish", "release", "nothing"}]

TypeOK ==
  /\ lease \in [Targets -> LeaseRow \cup {NoLease}]
  /\ life \in [Procs -> Nat]
  /\ scheduler \in [Procs -> {"off", "on", "stopping", "stopped"}]
  /\ scheduled \in [Procs -> SUBSET Targets]
  /\ held \in [Procs -> SUBSET Targets]
  /\ attempt \in [Procs -> [Targets -> Attempt]]
  /\ readings \subseteq Reading
  /\ fence \in [Procs -> [Targets -> Nat]]
  /\ leased \in [Procs -> SUBSET Targets]
  /\ backoff \in [Procs -> [Targets -> Entry \cup {NoState}]]
  /\ reader \in [Procs -> SUBSET Targets]
  /\ written \in [Targets -> Nat]

Init ==
  /\ lease = [t \in Targets |-> NoLease]
  /\ life = [p \in Procs |-> 0]
  /\ scheduler = [p \in Procs |-> "off"]
  /\ scheduled = [p \in Procs |-> {}]
  /\ held = [p \in Procs |-> {}]
  /\ attempt = [p \in Procs |-> [t \in Targets |-> NoAttempt]]
  /\ readings = {}
  /\ fence = [p \in Procs |-> [t \in Targets |-> 0]]
  /\ leased = [p \in Procs |-> {}]
  /\ backoff = [p \in Procs |-> [t \in Targets |-> NoState]]
  /\ reader = [p \in Procs |-> {}]
  /\ written = [t \in Targets |-> 0]

-----------------------------------------------------------------------------
(* What the steps are made of                                              *)

ReadingsOf(p, t) == {r \in readings : r.proc = p /\ r.target = t}
Running(p, t) == \E r \in ReadingsOf(p, t) : r.state = "running" \* t in _running

\* mutant: a reading left behind is forgotten
AdmittedAttempts(p) == {<<t, "attempt">> : t \in {u \in Targets : attempt[p][u].stage # "none"}}

\* _admitted: attempts under way, and attempts gone whose reading still runs.
Admitted(p) ==
  {<<t, "attempt">> : t \in {u \in Targets : attempt[p][u].stage # "none"}}
    \cup {<<r.target, "left">> : r \in {q \in readings : q.proc = p /\ q.left # "no"}}

SetBackoff(p, t, s) == backoff' = [backoff EXCEPT ![p][t] = s]
SetAttempt(p, t, a) == attempt' = [attempt EXCEPT ![p][t] = a]
ClearFence(p, t) == fence' = [fence EXCEPT ![p][t] = 0]

\* mutant: a shared attempt finishes the other reader's admission
FinishAnyAttempt(p, t, success) == SetBackoff(p, t, FinishedState(backoff[p][t], success))

\* _finish_attempt: a shared attempt leaves the other reader's admission alone.
FinishAttempt(p, t, success) ==
  SetBackoff(p, t, CASE attempt[p][t].admitted -> FinishedState(backoff[p][t], success)
                     [] ~attempt[p][t].admitted /\ success -> backoff[p][t]
                     [] OTHER -> RecordedState(backoff[p][t]))

\* An attempt at `stage` that is not cancelled.
At(p, t, stage) == attempt[p][t].stage = stage /\ ~attempt[p][t].cancelled

\* The attempt's own reading, while the attempt waits for it.
Own(p, t) == CHOOSE r \in ReadingsOf(p, t) : r.left = "no"

-----------------------------------------------------------------------------
(* The scheduler's life                                                    *)

Start(p) ==
  /\ scheduler[p] = "off"
  /\ scheduler' = [scheduler EXCEPT ![p] = "on"]
  /\ scheduled' = [scheduled EXCEPT ![p] = Targets]
  /\ UNCHANGED <<lease, life, held, attempt, readings, fence, leased, backoff, reader, written>>

\* stop(): nothing more starts and every attempt is cancelled ...
Stop(p) ==
  /\ scheduler[p] = "on"
  /\ scheduler' = [scheduler EXCEPT ![p] = "stopping"]
  /\ attempt' = [attempt EXCEPT ![p] =
       [t \in Targets |-> IF @[t].stage = "none" THEN @[t] ELSE [@[t] EXCEPT !.cancelled = TRUE]]]
  /\ UNCHANGED <<lease, life, scheduled, held, readings, fence, leased, backoff, reader, written>>

\* ... and once all of them ended the leases go back.  Readings left behind run on.
Stopped(p) ==
  /\ scheduler[p] = "stopping"
  /\ \A t \in Targets : attempt[p][t].stage = "none"
  /\ ReleaseLeases(p, leased[p])
  /\ scheduler' = [scheduler EXCEPT ![p] = "stopped"]
  /\ leased' = [leased EXCEPT ![p] = {}]
  /\ scheduled' = [scheduled EXCEPT ![p] = {}]
  /\ held' = [held EXCEPT ![p] = {}]
  /\ UNCHANGED <<life, attempt, readings, fence, backoff, reader, written>>

\* The process dies, or ends after its scheduler stopped.
Die(p) ==
  /\ life[p] < MaxLife
  /\ life' = [life EXCEPT ![p] = @ + 1]
  /\ scheduler' = [scheduler EXCEPT ![p] = "off"]
  /\ scheduled' = [scheduled EXCEPT ![p] = {}]
  /\ held' = [held EXCEPT ![p] = {}]
  /\ attempt' = [attempt EXCEPT ![p] = [t \in Targets |-> NoAttempt]]
  /\ readings' = {r \in readings : r.proc # p}
  /\ fence' = [fence EXCEPT ![p] = [t \in Targets |-> 0]]
  /\ leased' = [leased EXCEPT ![p] = {}]
  /\ backoff' = [backoff EXCEPT ![p] = [t \in Targets |-> NoState]]
  /\ reader' = [reader EXCEPT ![p] = {}]
  /\ UNCHANGED <<lease, written>>

\* _refresh_targets finds a new database ...
AddTarget(p, t) ==
  /\ scheduler[p] = "on"
  /\ t \notin scheduled[p]
  /\ scheduled' = [scheduled EXCEPT ![p] = @ \cup {t}]
  /\ UNCHANGED <<lease, life, scheduler, held, attempt, readings, fence, leased, backoff, reader,
                 written>>

\* ... or that one is gone: _remove_target.
RemoveTarget(p, t) ==
  /\ scheduler[p] = "on"
  /\ t \in scheduled[p]
  /\ scheduled' = [scheduled EXCEPT ![p] = @ \ {t}]
  /\ held' = [held EXCEPT ![p] = @ \ {t}]
  /\ attempt' = [attempt EXCEPT ![p][t].cancelled = (attempt[p][t].stage # "none")]
  /\ IF t \in leased[p] THEN ReleaseLeases(p, {t}) ELSE UNCHANGED lease
  /\ leased' = [leased EXCEPT ![p] = @ \ {t}]
  /\ SetBackoff(p, t, ForgottenState(backoff[p][t]))
  /\ UNCHANGED <<life, scheduler, readings, fence, reader, written>>

-----------------------------------------------------------------------------
(* An attempt                                                              *)

\* mutant: a check that is asked for starts at once, beside a reading and without a place
MayLaunchAtOnce(p, t) ==
  scheduler[p] = "on" /\ t \in scheduled[p] /\ attempt[p][t].stage = "none"

\* The entry is idle and has no reading of its own in the air.
MayLaunch(p, t) ==
  /\ scheduler[p] = "on"
  /\ t \in scheduled[p]
  /\ attempt[p][t].stage = "none"
  /\ ~Running(p, t)
  /\ Cardinality(Admitted(p)) < GlobalConcurrency

\* _launch_due, for a database that is due, watched or asked for by check_now.
Launch(p, t) ==
  /\ MayLaunch(p, t)
  /\ NextToken(t) <= MaxToken
  /\ SetAttempt(p, t, [NoAttempt EXCEPT !.stage = "launched"])
  /\ UNCHANGED <<lease, life, scheduler, scheduled, held, readings, fence, leased, backoff,
                 reader, written>>

SharesNever(p, t) == FALSE \* mutant: admission is waited for without end

\* Admission granted, or refused for ADMISSION_WAIT_SECONDS by another reader.
Shares(p, t) == t \in Monitored /\ ~Running(p, t) /\ Busy(backoff[p][t])

\* The attempt reads: it has the lease, the fence is set and the reading starts.
Begin(p, t) ==
  LET admitted == Admits(backoff[p][t]) IN
  /\ At(p, t, "launched")
  /\ admitted \/ (Shares(p, t) /\ t \in held[p])
  /\ Acquirable(p, t)
  /\ NextToken(t) <= MaxToken
  /\ AcquireLease(p, t)
  /\ leased' = [leased EXCEPT ![p] = @ \cup {t}]
  /\ held' = [held EXCEPT ![p] = @ \ {t}]
  /\ IF admitted THEN SetBackoff(p, t, AcquiredState(backoff[p][t])) ELSE UNCHANGED backoff
  /\ fence' = [fence EXCEPT ![p][t] = NextToken(t)]
  /\ readings' = readings \cup {[proc |-> p, target |-> t, token |-> NextToken(t),
                                 state |-> "running", left |-> "no"]}
  /\ SetAttempt(p, t, [stage |-> "reading", token |-> NextToken(t), admitted |-> admitted,
                       cancelled |-> FALSE])
  /\ UNCHANGED <<life, scheduler, scheduled, reader, written>>

\* Another process has the lease, or the store failed: admission goes back at once.
WaitForLease(p, t) ==
  LET admitted == Admits(backoff[p][t]) IN
  /\ At(p, t, "launched")
  /\ admitted \/ (Shares(p, t) /\ t \in held[p])
  /\ held' = [held EXCEPT ![p] = @ \ {t}]
  /\ IF admitted THEN SetBackoff(p, t, ReleasedState(AcquiredState(backoff[p][t])))
                 ELSE UNCHANGED backoff
  /\ SetAttempt(p, t, NoAttempt)
  /\ UNCHANGED <<lease, life, scheduler, scheduled, readings, fence, leased, reader, written>>

\* Admission refused: the next attempt comes a tick later, or shares once the wait is over.
Postpone(p, t) ==
  /\ At(p, t, "launched")
  /\ ~Admits(backoff[p][t])
  /\ IF Shares(p, t)
       THEN t \notin held[p] /\ held' = [held EXCEPT ![p] = @ \cup {t}]
       ELSE held' = [held EXCEPT ![p] = @ \ {t}]
  /\ SetAttempt(p, t, NoAttempt)
  /\ UNCHANGED <<lease, life, scheduler, scheduled, readings, fence, leased, backoff, reader,
                 written>>

ForfeitsOnError(p, t) == Own(p, t).state # "event" \* mutant

\* A reading that found its lease lost leaves nothing to release.
Forfeits(p, t) == attempt[p][t].stage = "reading" /\ Own(p, t).state = "lost"

\* The reading ended and its attempt settles it: with an event, past the deadline too.
Settle(p, t) ==
  LET r == Own(p, t) IN
  /\ \/ At(p, t, "reading") /\ r.state \in {"event", "error", "lost"}
     \/ At(p, t, "grace") /\ r.state # "running"
     \/ At(p, t, "failing")
  /\ FinishAttempt(p, t, r.state = "event")
  /\ leased' = IF Forfeits(p, t) THEN [leased EXCEPT ![p] = @ \ {t}] ELSE leased
  /\ ClearFence(p, t)
  /\ readings' = readings \ {r}
  /\ SetAttempt(p, t, NoAttempt)
  /\ UNCHANGED <<lease, life, scheduler, scheduled, held, reader, written>>

\* The reading raised: the failure is reported first.
ReportFailure(p, t) ==
  /\ At(p, t, "reading")
  /\ Own(p, t).state = "raised"
  /\ attempt' = [attempt EXCEPT ![p][t].stage = "failing"]
  /\ UNCHANGED <<lease, life, scheduler, scheduled, held, readings, fence, leased, backoff,
                 reader, written>>

\* COLLECTION_DEADLINE_SECONDS passed: the connection is aborted, the failure reported.
MeetDeadline(p, t) ==
  /\ At(p, t, "reading")
  /\ Own(p, t).state = "running"
  /\ attempt' = [attempt EXCEPT ![p][t].stage = "grace"]
  /\ UNCHANGED <<lease, life, scheduler, scheduled, held, readings, fence, leased, backoff,
                 reader, written>>

\* What the end of a reading left behind owes the attempt's admission.
Leave(p, t, debt) ==
  readings' = (readings \ {Own(p, t)})
    \cup {[Own(p, t) EXCEPT !.left = IF attempt[p][t].admitted THEN debt ELSE "nothing"]}

\* The reading outlives the grace: the failure counts now, admission ends with the reading.
GiveUp(p, t) ==
  /\ At(p, t, "grace")
  /\ Own(p, t).state = "running"
  /\ SetBackoff(p, t, RecordedState(backoff[p][t]))
  /\ Leave(p, t, "release")
  /\ SetAttempt(p, t, NoAttempt)
  /\ UNCHANGED <<lease, life, scheduler, scheduled, held, fence, leased, reader, written>>

\* A cancelled attempt: the finally clause, with a reading in the air, done, or never begun.
Unwind(p, t) ==
  /\ attempt[p][t].stage # "none"
  /\ attempt[p][t].cancelled
  /\ SetAttempt(p, t, NoAttempt)
  /\ \/ /\ attempt[p][t].stage = "launched"
        /\ UNCHANGED <<readings, fence, backoff>>
     \/ /\ attempt[p][t].stage # "launched"
        /\ Own(p, t).state = "running"
        /\ Leave(p, t, "finish")
        /\ UNCHANGED <<fence, backoff>>
     \/ /\ attempt[p][t].stage # "launched"
        /\ Own(p, t).state # "running"
        /\ readings' = readings \ {Own(p, t)}
        /\ ClearFence(p, t)
        /\ SetBackoff(p, t, IF attempt[p][t].admitted THEN ReleasedState(backoff[p][t])
                                                      ELSE backoff[p][t])
  /\ UNCHANGED <<lease, life, scheduler, scheduled, held, leased, reader, written>>

-----------------------------------------------------------------------------
(* A reading                                                               *)

\* A write of the collector: fenced by whatever token the collector has now, unfenced without.
Write(r) ==
  /\ r.state = "running"
  /\ \/ fence[r.proc][r.target] = 0
     \/ FenceHolds(r.proc, r.target, fence[r.proc][r.target])
  /\ written' = [written EXCEPT ![r.target] = r.token]
  /\ UNCHANGED <<lease, life, scheduler, scheduled, held, attempt, readings, fence, leased,
                 backoff, reader>>

\* How a reading may end: LeaseLostError comes from a write the store rejected.
Outcomes(r) ==
  {"event", "error", "raised"}
    \cup (IF fence[r.proc][r.target] = 0 \/ FenceHolds(r.proc, r.target, fence[r.proc][r.target])
            THEN {} ELSE {"lost"})

Return(r, outcome) ==
  /\ r.state = "running"
  /\ r.left = "no"
  /\ outcome \in Outcomes(r)
  /\ readings' = (readings \ {r}) \cup {[r EXCEPT !.state = outcome]}
  /\ UNCHANGED <<lease, life, scheduler, scheduled, held, attempt, fence, leased, backoff, reader,
                 written>>

\* The end of a reading left behind settles its admission and clears the fence.
ReturnLeft(r) ==
  LET s == backoff[r.proc][r.target]
      settled == CASE r.left = "release" -> ReleasedState(s)
                   [] r.left = "finish" -> FinishedState(s, FALSE)
                   [] OTHER -> s IN
  /\ r.state = "running"
  /\ r.left # "no"
  /\ readings' = readings \ {r}
  /\ SetBackoff(r.proc, r.target, IF r.target \in scheduled[r.proc] THEN settled
                                                                   ELSE ForgottenState(settled))
  /\ ClearFence(r.proc, r.target)
  /\ UNCHANGED <<lease, life, scheduler, scheduled, held, attempt, leased, reader, written>>

-----------------------------------------------------------------------------
(* The other readers of a process, and time                                *)

\* The loop and the sampler read monitored databases.
ReaderBegins(p, t) ==
  /\ p \in Readers
  /\ t \in Monitored
  /\ t \notin reader[p]
  /\ Admits(backoff[p][t])
  /\ SetBackoff(p, t, AcquiredState(backoff[p][t]))
  /\ reader' = [reader EXCEPT ![p] = @ \cup {t}]
  /\ UNCHANGED <<lease, life, scheduler, scheduled, held, attempt, readings, fence, leased,
                 written>>

\* MonitorLoop.cycle and ParamSampler.poll_once finish; a setup check, or a sampler that found
\* nothing to do, releases.
ReaderEnds(p, t) ==
  /\ t \in reader[p]
  /\ \/ \E success \in BOOLEAN : SetBackoff(p, t, FinishedState(backoff[p][t], success))
     \/ SetBackoff(p, t, ReleasedState(backoff[p][t]))
  /\ reader' = [reader EXCEPT ![p] = @ \ {t}]
  /\ UNCHANGED <<lease, life, scheduler, scheduled, held, attempt, readings, fence, leased,
                 written>>

\* check_now, a closed tunnel, a stopped loop: the wait is dropped unless someone holds.
Forget(p, t) ==
  /\ SetBackoff(p, t, ForgottenState(backoff[p][t]))
  /\ UNCHANGED <<lease, life, scheduler, scheduled, held, attempt, readings, fence, leased,
                 reader, written>>

\* The SSH tunnel under a read fails and says so itself.
TunnelFails(p, t) ==
  /\ t \in Tunneled
  /\ t \in reader[p] \/ Running(p, t)
  /\ SetBackoff(p, t, RecordedState(backoff[p][t]))
  /\ UNCHANGED <<lease, life, scheduler, scheduled, held, attempt, readings, fence, leased,
                 reader, written>>

WaitOver(p, t) ==
  /\ Waiting(backoff[p][t])
  /\ SetBackoff(p, t, ElapsedState(backoff[p][t]))
  /\ UNCHANGED <<lease, life, scheduler, scheduled, held, attempt, readings, fence, leased,
                 reader, written>>

LeaseLapses(t) ==
  /\ Lapse(t)
  /\ UNCHANGED <<scheduler, scheduled, held, attempt, readings, fence, leased, backoff, reader,
                 written>>

-----------------------------------------------------------------------------

Proceed(p, t) ==
  \/ Settle(p, t)
  \/ ReportFailure(p, t)
  \/ GiveUp(p, t)
  \/ Unwind(p, t)

ProcessStep(p) == Start(p) \/ Stop(p) \/ Stopped(p) \/ Die(p)
TargetStep(p, t) ==
  \/ AddTarget(p, t) \/ RemoveTarget(p, t) \/ Launch(p, t)
  \/ Begin(p, t) \/ WaitForLease(p, t) \/ Postpone(p, t)
  \/ MeetDeadline(p, t) \/ Proceed(p, t)
OtherStep(p, t) ==
  \/ ReaderBegins(p, t) \/ ReaderEnds(p, t) \/ Forget(p, t)
  \/ TunnelFails(p, t) \/ WaitOver(p, t)
ReadingStep(r) == Write(r) \/ ReturnLeft(r) \/ \E outcome \in Outcomes(r) : Return(r, outcome)

Next ==
  \/ \E p \in Procs : ProcessStep(p)
  \/ \E p \in Procs, t \in Targets : TargetStep(p, t) \/ OtherStep(p, t)
  \/ \E r \in readings : ReadingStep(r)
  \/ \E t \in Targets : LeaseLapses(t)

Spec == Init /\ [][Next]_vars

\* What asyncio, the worker threads and the clock see to.  Readings return: past the deadline
\* their connection is aborted.  Begin is strong: the lease and the admission come and go.
Fairness ==
  /\ \A p \in Procs : WF_vars(Stopped(p))
  /\ \A p \in Procs, t \in Targets :
       /\ WF_vars(Launch(p, t))
       /\ WF_vars(Proceed(p, t))
       /\ WF_vars(Postpone(p, t))
       /\ WF_vars(WaitOver(p, t))
       /\ SF_vars(Begin(p, t))
       /\ WF_vars(\E r \in readings :
            r.proc = p /\ r.target = t /\ (ReturnLeft(r) \/ \E o \in Outcomes(r) : Return(r, o)))
  /\ \A t \in Targets : WF_vars(LeaseLapses(t))

FairSpec == Spec /\ Fairness

-----------------------------------------------------------------------------
(* Properties                                                              *)

\* A process never reads a database twice at once, a reading left behind included: the
\* collector has one connection and one fence (_running, scheduler.py:187-189).
OneReading ==
  \A p \in Procs, t \in Targets : Cardinality(ReadingsOf(p, t)) <= 1

\* Admission is one reader's, and it is never lost: a database is admitted exactly while one
\* reader owes its release, whatever attempt was cancelled, shared or left its reading behind.
Holders(p, t) ==
  {h \in {"reader", "attempt", "left"} :
     \/ h = "reader" /\ t \in reader[p]
     \/ h = "attempt" /\ attempt[p][t].admitted
     \/ h = "left" /\ \E r \in ReadingsOf(p, t) : r.left \in {"finish", "release"}}
Active(p, t) == backoff[p][t] # NoState /\ backoff[p][t].active
AdmissionHeld ==
  \A p \in Procs, t \in Targets : Cardinality(Holders(p, t)) = IF Active(p, t) THEN 1 ELSE 0

\* A reading whose lease was taken over writes nothing after the one that took it (the write-time
\* fence, observation_store.py:850-853; released rows stay, 871-874).
WritesInOrder == [][\A t \in Targets : written'[t] >= written[t]]_vars

\* Never more than GLOBAL_CONCURRENCY readings of a process, those left behind included.
ReadingSlotsKept ==
  \A p \in Procs : Cardinality({r \in readings : r.proc = p /\ r.state = "running"})
                     <= GlobalConcurrency

\* A scheduler that stopped keeps no database from the other processes (scheduler.py:331-350).
LeasesReturned ==
  \A p \in Procs, t \in Targets :
    scheduler[p] = "stopped" => ~(OwnsRow(p, t) /\ lease[t].life = "live")

\* A monitored database is read again and again while a scheduler has it: a reader that is
\* stuck, or slow, or many, cannot hold the check off (ADMISSION_WAIT_SECONDS,
\* scheduler.py:71-73); only their failures, each of which is a wait of its own, can.
Steady(p, t) == scheduler[p] = "on" /\ t \in scheduled[p]
OthersFail(p, t) ==
  /\ ~Waiting(backoff[p][t]) /\ Waiting(backoff'[p][t])
  /\ UNCHANGED <<attempt, readings>>
CheckedAgain ==
  \A p \in Procs, t \in Monitored :
    (<>[]Steady(p, t) /\ <>[][~OthersFail(p, t)]_vars)
      => []<>((\E r \in readings : r.target = t) \/ NextToken(t) > MaxToken)
=============================================================================
