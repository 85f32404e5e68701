------------------------- MODULE ObservationProofs -------------------------
(***************************************************************************)
(* Theorems about ObservationScheduler for every value of its constants:   *)
(* any number of processes, databases, slots, lives and tokens.            *)
(*                                                                         *)
(* PairInv relates what one process keeps of one database: its attempt,    *)
(* its readings, its fence, its admission and its other readers.  A step   *)
(* touches one such pair, or all those of one process (Stop, Die), so the  *)
(* proof of each step is a statement about its own pair (LocalStep).       *)
(***************************************************************************)
EXTENDS ObservationScheduler, TLAPS, FiniteSetTheorems

ReadingStages == {"reading", "grace", "failing"}

\* One reading, which writes with the fence and is either the attempt's or left behind, running.
ReadingKept(p, t) ==
  /\ \A r, q \in ReadingsOf(p, t) : r = q
  /\ \A r \in ReadingsOf(p, t) : r.token = fence[p][t] /\ (r.left # "no" => r.state = "running")

\* An attempt that reads has its reading, and a reading not left behind its attempt.
Paired(p, t) ==
  /\ attempt[p][t].stage \in ReadingStages <=> \E r \in ReadingsOf(p, t) : r.left = "no"
  /\ attempt[p][t].stage = "launched" => ReadingsOf(p, t) = {}
  /\ attempt[p][t].admitted => attempt[p][t].stage \in ReadingStages

LeftOwes(p, t) == \E r \in ReadingsOf(p, t) : r.left \in {"finish", "release"}

\* One holder of admission at most, and one exactly when the database is active.
OneHolder(p, t) ==
  /\ t \in reader[p] => ~attempt[p][t].admitted /\ ~LeftOwes(p, t)
  /\ Active(p, t) <=> t \in reader[p] \/ attempt[p][t].admitted \/ LeftOwes(p, t)

PairInv(p, t) == ReadingKept(p, t) /\ Paired(p, t) /\ OneHolder(p, t)

SchedulerInv == TypeOK /\ \A p \in Procs, t \in Targets : PairInv(p, t)

\* A step that leaves every pair alone but one.
LocalStep(p, t) ==
  \A q \in Procs, u \in Targets : q # p \/ u # t =>
    /\ attempt'[q][u] = attempt[q][u]
    /\ fence'[q][u] = fence[q][u]
    /\ backoff'[q][u] = backoff[q][u]
    /\ u \in reader'[q] <=> u \in reader[q]
    /\ ReadingsOf(q, u)' = ReadingsOf(q, u)

-----------------------------------------------------------------------------
(* Admission and backoff (TargetBackoff)                                   *)

Holding(s) == s # NoState /\ s.active

LEMMA EntryNotNone == NoState \notin Entry
BY NoStateAssumption

LEMMA FailedKeeps ==
  ASSUME NEW s \in Entry
  PROVE  FailedState(s) \in Entry /\ FailedState(s).active = s.active
<1>1. [s EXCEPT !.failed = TRUE, !.waiting = TRUE] \in Entry
  BY DEF Entry
<1>2. [s EXCEPT !.failed = TRUE, !.waiting = TRUE].active = s.active
  BY DEF Entry
<1> QED  BY <1>1, <1>2 DEF FailedState

LEMMA AcquiredHolds ==
  ASSUME NEW s \in Entry \cup {NoState}
  PROVE  AcquiredState(s) \in Entry /\ AcquiredState(s).active
<1>1. OrFresh(s) \in Entry
  BY DEF OrFresh, FreshState, Entry
<1>2. [OrFresh(s) EXCEPT !.active = TRUE] \in Entry /\ [OrFresh(s) EXCEPT !.active = TRUE].active
  BY <1>1 DEF Entry
<1> QED  BY <1>2 DEF AcquiredState

LEMMA FinishedFrees ==
  ASSUME NEW s \in Entry \cup {NoState}, NEW success \in BOOLEAN
  PROVE  FinishedState(s, success) \in Entry \cup {NoState} /\ ~Holding(FinishedState(s, success))
<1>1. CASE s = NoState \/ success
  BY <1>1 DEF FinishedState, Holding
<1>2. CASE ~(s = NoState \/ success)
  <2>1. s \in Entry
    BY <1>2
  <2>2. [s EXCEPT !.active = FALSE] \in Entry /\ ~[s EXCEPT !.active = FALSE].active
    BY <2>1 DEF Entry
  <2>3. FinishedState(s, success) = FailedState([s EXCEPT !.active = FALSE])
    BY <1>2 DEF FinishedState
  <2> QED  BY <2>2, <2>3, FailedKeeps DEF Holding
<1> QED  BY <1>1, <1>2

LEMMA RecordedKeeps ==
  ASSUME NEW s \in Entry \cup {NoState}
  PROVE  RecordedState(s) \in Entry /\ (Holding(RecordedState(s)) <=> Holding(s))
<1>1. OrFresh(s) \in Entry /\ (OrFresh(s).active <=> Holding(s))
  <2>1. CASE s = NoState
    BY <2>1 DEF OrFresh, FreshState, Entry, Holding
  <2>2. CASE s # NoState
    BY <2>2 DEF OrFresh, Holding
  <2> QED  BY <2>1, <2>2
<1>2. RecordedState(s) \in Entry /\ RecordedState(s).active = OrFresh(s).active
  BY <1>1, FailedKeeps DEF RecordedState
<1> QED  BY <1>1, <1>2, EntryNotNone DEF Holding

LEMMA ReleasedFrees ==
  ASSUME NEW s \in Entry \cup {NoState}
  PROVE  ReleasedState(s) \in Entry \cup {NoState} /\ ~Holding(ReleasedState(s))
<1>1. CASE s = NoState \/ ~s.failed
  BY <1>1 DEF ReleasedState, Holding
<1>2. CASE ~(s = NoState \/ ~s.failed)
  <2>1. [s EXCEPT !.active = FALSE] \in Entry /\ ~[s EXCEPT !.active = FALSE].active
    BY <1>2 DEF Entry
  <2> QED  BY <1>2, <2>1 DEF ReleasedState, Holding
<1> QED  BY <1>1, <1>2

LEMMA ForgottenKeeps ==
  ASSUME NEW s \in Entry \cup {NoState}
  PROVE  /\ ForgottenState(s) \in Entry \cup {NoState}
         /\ Holding(ForgottenState(s)) <=> Holding(s)
BY DEF ForgottenState, Holding

LEMMA ElapsedKeeps ==
  ASSUME NEW s \in Entry \cup {NoState}, Waiting(s)
  PROVE  ElapsedState(s) \in Entry /\ (Holding(ElapsedState(s)) <=> Holding(s))
<1>1. s \in Entry /\ s # NoState
  BY DEF Waiting
<1>2. [s EXCEPT !.waiting = FALSE] \in Entry /\ [s EXCEPT !.waiting = FALSE].active = s.active
  BY <1>1 DEF Entry
<1> QED  BY <1>1, <1>2, EntryNotNone DEF ElapsedState, Holding

-----------------------------------------------------------------------------
(* What the parts of a step do                                             *)

LEMMA SetBackoffKept ==
  ASSUME TypeOK, NEW p \in Procs, NEW t \in Targets, NEW s \in Entry \cup {NoState},
         SetBackoff(p, t, s)
  PROVE  /\ backoff' \in [Procs -> [Targets -> Entry \cup {NoState}]]
         /\ backoff'[p][t] = s
         /\ \A q \in Procs, u \in Targets : q # p \/ u # t => backoff'[q][u] = backoff[q][u]
BY DEF TypeOK, SetBackoff

LEMMA SetAttemptKept ==
  ASSUME TypeOK, NEW p \in Procs, NEW t \in Targets, NEW a \in Attempt, SetAttempt(p, t, a)
  PROVE  /\ attempt' \in [Procs -> [Targets -> Attempt]]
         /\ attempt'[p][t] = a
         /\ \A q \in Procs, u \in Targets : q # p \/ u # t => attempt'[q][u] = attempt[q][u]
BY DEF TypeOK, SetAttempt

SetFence(p, t, n) == fence' = [fence EXCEPT ![p][t] = n]

LEMMA SetFenceKept ==
  ASSUME TypeOK, NEW p \in Procs, NEW t \in Targets, NEW n \in Nat, SetFence(p, t, n)
  PROVE  /\ fence' \in [Procs -> [Targets -> Nat]]
         /\ fence'[p][t] = n
         /\ \A q \in Procs, u \in Targets : q # p \/ u # t => fence'[q][u] = fence[q][u]
BY DEF TypeOK, SetFence

LEMMA ClearFenceKept ==
  ASSUME TypeOK, NEW p \in Procs, NEW t \in Targets, ClearFence(p, t)
  PROVE  /\ fence' \in [Procs -> [Targets -> Nat]]
         /\ fence'[p][t] = 0
         /\ \A q \in Procs, u \in Targets : q # p \/ u # t => fence'[q][u] = fence[q][u]
BY DEF TypeOK, ClearFence

\* The values one pair has.
LEMMA PairTypes ==
  ASSUME TypeOK, NEW p \in Procs, NEW t \in Targets
  PROVE  /\ attempt[p][t] \in Attempt
         /\ backoff[p][t] \in Entry \cup {NoState}
         /\ fence[p][t] \in Nat
         /\ \A r \in ReadingsOf(p, t) : r \in Reading /\ r.proc = p /\ r.target = t
BY DEF TypeOK, ReadingsOf

\* An attempt that waits for its reading has exactly one.
LEMMA OwnReading ==
  ASSUME TypeOK, NEW p \in Procs, NEW t \in Targets, PairInv(p, t),
         attempt[p][t].stage \in ReadingStages
  PROVE  /\ Own(p, t) \in ReadingsOf(p, t)
         /\ Own(p, t) \in Reading
         /\ Own(p, t).proc = p /\ Own(p, t).target = t
         /\ Own(p, t).left = "no"
         /\ ReadingsOf(p, t) = {Own(p, t)}
         /\ Own(p, t).token = fence[p][t]
<1>1. \E r \in ReadingsOf(p, t) : r.left = "no"
  BY DEF PairInv, Paired
<1>2. Own(p, t) \in ReadingsOf(p, t) /\ Own(p, t).left = "no"
  BY <1>1 DEF Own
<1> QED  BY <1>2, PairTypes DEF PairInv, ReadingKept

\* Steps of one pair need only show their own.
LEMMA LocalKept ==
  ASSUME SchedulerInv, NEW p \in Procs, NEW t \in Targets,
         LocalStep(p, t), TypeOK', PairInv(p, t)'
  PROVE  SchedulerInv'
<1>1. ASSUME NEW q \in Procs, NEW u \in Targets, q # p \/ u # t
      PROVE  PairInv(q, u)'
  <2>1. /\ attempt'[q][u] = attempt[q][u]
        /\ fence'[q][u] = fence[q][u]
        /\ backoff'[q][u] = backoff[q][u]
        /\ u \in reader'[q] <=> u \in reader[q]
        /\ ReadingsOf(q, u)' = ReadingsOf(q, u)
    BY <1>1 DEF LocalStep
  <2>2. PairInv(q, u)
    BY DEF SchedulerInv
  <2>3. ReadingKept(q, u)'
    BY <2>1, <2>2 DEF PairInv, ReadingKept
  <2>4. Paired(q, u)'
    BY <2>1, <2>2 DEF PairInv, Paired
  <2>5. OneHolder(q, u)'
    <3>1. LeftOwes(q, u)' <=> LeftOwes(q, u)
      BY <2>1 DEF LeftOwes
    <3>2. Active(q, u)' <=> Active(q, u)
      BY <2>1 DEF Active
    <3> QED  BY <2>1, <2>2, <3>1, <3>2 DEF PairInv, OneHolder
  <2> QED  BY <2>3, <2>4, <2>5 DEF PairInv
<1> QED  BY <1>1 DEF SchedulerInv

\* Readings of one pair come and go without touching the others.
LEMMA ReadingsChange ==
  ASSUME NEW p \in Procs, NEW t \in Targets,
         NEW gone \in SUBSET ReadingsOf(p, t), NEW new,
         \A r \in new : r.proc = p /\ r.target = t,
         readings' = (readings \ gone) \cup new
  PROVE  /\ ReadingsOf(p, t)' = (ReadingsOf(p, t) \ gone) \cup new
         /\ \A q \in Procs, u \in Targets :
              q # p \/ u # t => ReadingsOf(q, u)' = ReadingsOf(q, u)
<1>1. \A r \in gone : r.proc = p /\ r.target = t
  BY DEF ReadingsOf
<1> QED  BY <1>1 DEF ReadingsOf

\* Steps after which a pair is as it was, but for the progress of its attempt and its backoff.
QuietStep ==
  /\ UNCHANGED <<readings, fence, reader>>
  /\ \A q \in Procs, u \in Targets :
       /\ attempt'[q][u].stage \in ReadingStages <=> attempt[q][u].stage \in ReadingStages
       /\ attempt'[q][u].stage = "launched" => ReadingsOf(q, u) = {}
       /\ attempt'[q][u].admitted = attempt[q][u].admitted
       /\ Holding(backoff'[q][u]) <=> Holding(backoff[q][u])

LEMMA QuietKept ==
  ASSUME SchedulerInv, QuietStep, TypeOK'
  PROVE  SchedulerInv'
<1>1. ASSUME NEW q \in Procs, NEW u \in Targets
      PROVE  PairInv(q, u)'
  <2>1. ReadingsOf(q, u)' = ReadingsOf(q, u)
    BY DEF QuietStep, ReadingsOf
  <2>2. PairInv(q, u)
    BY DEF SchedulerInv
  <2>3. ReadingKept(q, u)'
    BY <2>1, <2>2 DEF PairInv, ReadingKept, QuietStep
  <2>4. Paired(q, u)'
    BY <2>1, <2>2 DEF PairInv, Paired, QuietStep
  <2>5. OneHolder(q, u)'
    <3>1. LeftOwes(q, u)' <=> LeftOwes(q, u)
      BY <2>1 DEF LeftOwes
    <3>2. Active(q, u)' <=> Active(q, u)
      BY DEF Active, QuietStep, Holding
    <3> QED  BY <2>2, <3>1, <3>2 DEF PairInv, OneHolder, QuietStep
  <2> QED  BY <2>3, <2>4, <2>5 DEF PairInv
<1> QED  BY <1>1 DEF SchedulerInv

-----------------------------------------------------------------------------
(* Leases                                                                  *)

LEMMA AcquireTypes ==
  ASSUME TypeOK, NEW p \in Procs, NEW t \in Targets, AcquireLease(p, t)
  PROVE  /\ NextToken(t) \in Nat \ {0}
         /\ lease' \in [Targets -> LeaseRow \cup {NoLease}]
         /\ lease'[t] = [owner |-> Owner(p), token |-> NextToken(t), life |-> "live"]
         /\ lease'[t] # NoLease
         /\ \A u \in Targets : u # t => lease'[u] = lease[u]
<1>1. lease[t] # NoLease => lease[t] \in LeaseRow
  BY DEF TypeOK
<1>2. NextToken(t) \in Nat \ {0}
  BY <1>1 DEF NextToken, LeaseRow
<1>3. Owner(p) \in Owners
  BY DEF TypeOK, Owner, Owners
<1> DEFINE new == [owner |-> Owner(p), token |-> NextToken(t), life |-> "live"]
<1>4. new \in LeaseRow
  BY <1>2, <1>3 DEF LeaseRow
<1>5. new # NoLease
  BY <1>4, LeaseAssumption
<1>6. lease' = [lease EXCEPT ![t] = new]
  BY DEF AcquireLease
<1> HIDE DEF new
<1>7. /\ lease' \in [Targets -> LeaseRow \cup {NoLease}]
      /\ lease'[t] = new
      /\ \A u \in Targets : u # t => lease'[u] = lease[u]
  BY <1>4, <1>6 DEF TypeOK
<1> QED  BY <1>2, <1>5, <1>7 DEF new

LEMMA ReleaseTypes ==
  ASSUME TypeOK, NEW p \in Procs, NEW names, ReleaseLeases(p, names)
  PROVE  /\ lease' \in [Targets -> LeaseRow \cup {NoLease}]
         /\ \A t \in Targets :
              /\ lease'[t] = NoLease <=> lease[t] = NoLease
              /\ lease[t] # NoLease =>
                   /\ lease'[t].token = lease[t].token
                   /\ lease'[t].owner = lease[t].owner
                   /\ lease'[t].life = IF t \in names /\ OwnsRow(p, t)
                                         THEN "released" ELSE lease[t].life
<1>1. ASSUME NEW t \in Targets
      PROVE  /\ ReleasedRow(p, t) \in LeaseRow \cup {NoLease}
             /\ ReleasedRow(p, t) = NoLease <=> lease[t] = NoLease
             /\ lease[t] # NoLease =>
                  /\ ReleasedRow(p, t).token = lease[t].token
                  /\ ReleasedRow(p, t).owner = lease[t].owner
                  /\ ReleasedRow(p, t).life = IF OwnsRow(p, t) THEN "released" ELSE lease[t].life
  <2>1. CASE ~OwnsRow(p, t)
    BY <2>1 DEF ReleasedRow, TypeOK
  <2>2. CASE OwnsRow(p, t)
    <3>1. lease[t] \in LeaseRow /\ lease[t] # NoLease
      BY <2>2 DEF OwnsRow, TypeOK
    <3> DEFINE new == [lease[t] EXCEPT !.life = "released"]
    <3>2. /\ new \in LeaseRow /\ new.token = lease[t].token /\ new.owner = lease[t].owner
          /\ new.life = "released"
      BY <3>1 DEF LeaseRow
    <3>3. new # NoLease
      BY <3>2, LeaseAssumption
    <3> QED  BY <2>2, <3>1, <3>2, <3>3 DEF ReleasedRow
  <2> QED  BY <2>1, <2>2
<1>2. lease \in [Targets -> LeaseRow \cup {NoLease}]
  BY DEF TypeOK
<1>3. lease' = [t \in Targets |-> IF t \in names THEN ReleasedRow(p, t) ELSE lease[t]]
  BY DEF ReleaseLeases
<1> QED  BY <1>1, <1>2, <1>3

LEMMA LapseTypes ==
  ASSUME TypeOK, NEW t \in Targets, Lapse(t)
  PROVE  /\ lease' \in [Targets -> LeaseRow \cup {NoLease}]
         /\ \A u \in Targets :
              /\ lease'[u] = NoLease <=> lease[u] = NoLease
              /\ lease[u] # NoLease =>
                   /\ lease'[u].token = lease[u].token
                   /\ lease'[u].owner = lease[u].owner
                   /\ lease'[u].life = IF u = t THEN "lapsed" ELSE lease[u].life
<1>1. lease[t] \in LeaseRow /\ lease[t] # NoLease /\ lease \in [Targets -> LeaseRow \cup {NoLease}]
  BY DEF Lapse, TypeOK
<1> DEFINE new == [lease[t] EXCEPT !.life = "lapsed"]
<1>2. /\ new \in LeaseRow /\ new.token = lease[t].token /\ new.owner = lease[t].owner
      /\ new.life = "lapsed"
  BY <1>1 DEF LeaseRow
<1>3. new # NoLease
  BY <1>2, LeaseAssumption
<1>4. lease' = [lease EXCEPT ![t] = new]
  BY DEF Lapse
<1> HIDE DEF new
<1> QED  BY <1>1, <1>2, <1>3, <1>4

-----------------------------------------------------------------------------
(* The scheduler's life                                                    *)

LEMMA ProcessKept ==
  ASSUME SchedulerInv, NEW p \in Procs, Start(p) \/ Stop(p) \/ Stopped(p)
  PROVE  SchedulerInv'
<1>1. TypeOK
  BY DEF SchedulerInv
<1>2. \A q \in Procs, u \in Targets : PairInv(q, u)
  BY DEF SchedulerInv
<1>3. \A q \in Procs, u \in Targets : attempt[q][u].stage = "launched" => ReadingsOf(q, u) = {}
  BY <1>2 DEF PairInv, Paired
<1>4. CASE Start(p)
  <2>1. TypeOK'
    BY <1>1, <1>4 DEF Start, TypeOK
  <2> QED  BY <1>3, <1>4, <2>1, QuietKept DEF Start, QuietStep
<1>5. CASE Stop(p)
  <2>1. ASSUME NEW q \in Procs, NEW u \in Targets
        PROVE  /\ attempt'[q][u] \in Attempt
               /\ attempt'[q][u].stage = attempt[q][u].stage
               /\ attempt'[q][u].admitted = attempt[q][u].admitted
    <3>1. attempt[q][u] \in Attempt
      BY <1>1, PairTypes
    <3>2. [attempt[q][u] EXCEPT !.cancelled = TRUE] \in Attempt
      BY <3>1 DEF Attempt
    <3>3. /\ [attempt[q][u] EXCEPT !.cancelled = TRUE].stage = attempt[q][u].stage
          /\ [attempt[q][u] EXCEPT !.cancelled = TRUE].admitted = attempt[q][u].admitted
      BY <3>1 DEF Attempt
    <3>4. \/ attempt'[q][u] = attempt[q][u]
          \/ attempt'[q][u] = [attempt[q][u] EXCEPT !.cancelled = TRUE]
      BY <1>1, <1>5 DEF Stop, TypeOK
    <3> QED  BY <3>1, <3>2, <3>3, <3>4
  <2>2. attempt' \in [Procs -> [Targets -> Attempt]]
    <3>1. \A q \in Procs : attempt'[q] \in [Targets -> Attempt]
      <4>1. ASSUME NEW q \in Procs, q # p PROVE attempt'[q] \in [Targets -> Attempt]
        BY <1>1, <1>5, <4>1 DEF Stop, TypeOK
      <4>2. attempt'[p] \in [Targets -> Attempt]
        <5>1. attempt'[p] = [u \in Targets |-> attempt'[p][u]]
          BY <1>1, <1>5 DEF Stop, TypeOK
        <5> QED  BY <2>1, <5>1
      <4> QED  BY <4>1, <4>2
    <3> QED  BY <1>1, <1>5, <3>1 DEF Stop, TypeOK
  <2>3. TypeOK'
    BY <1>1, <1>5, <2>2 DEF Stop, TypeOK
  <2> QED  BY <1>3, <1>5, <2>1, <2>3, QuietKept DEF Stop, QuietStep
<1>6. CASE Stopped(p)
  <2>1. lease' \in [Targets -> LeaseRow \cup {NoLease}]
    BY <1>1, <1>6, ReleaseTypes DEF Stopped
  <2>2. TypeOK'
    BY <1>1, <1>6, <2>1 DEF Stopped, TypeOK
  <2> QED  BY <1>3, <1>6, <2>2, QuietKept DEF Stopped, QuietStep
<1> QED  BY <1>4, <1>5, <1>6

LEMMA DieKept ==
  ASSUME SchedulerInv, NEW p \in Procs, Die(p)
  PROVE  SchedulerInv'
<1>1. TypeOK
  BY DEF SchedulerInv
<1>2. NoAttempt \in Attempt /\ NoAttempt.stage = "none" /\ ~NoAttempt.admitted
  BY DEF NoAttempt, Attempt, Stages
<1>3. TypeOK'
  BY <1>1, <1>2 DEF Die, TypeOK
<1>4. ASSUME NEW u \in Targets PROVE PairInv(p, u)'
  <2>1. ReadingsOf(p, u)' = {}
    BY DEF Die, ReadingsOf
  <2>2. attempt'[p][u] = NoAttempt /\ backoff'[p][u] = NoState /\ reader'[p] = {}
    BY <1>1 DEF Die, TypeOK
  <2> QED  BY <1>2, <2>1, <2>2
        DEF PairInv, ReadingKept, Paired, OneHolder, LeftOwes, Active, ReadingStages
<1>5. ASSUME NEW q \in Procs, NEW u \in Targets, q # p PROVE PairInv(q, u)'
  <2>1. ReadingsOf(q, u)' = ReadingsOf(q, u)
    BY <1>5 DEF Die, ReadingsOf
  <2>2. /\ attempt'[q][u] = attempt[q][u] /\ backoff'[q][u] = backoff[q][u]
        /\ fence'[q][u] = fence[q][u] /\ reader'[q] = reader[q]
    BY <1>1, <1>5 DEF Die, TypeOK
  <2>3. PairInv(q, u)
    BY DEF SchedulerInv
  <2>4. (LeftOwes(q, u)' <=> LeftOwes(q, u)) /\ (Active(q, u)' <=> Active(q, u))
    BY <2>1, <2>2 DEF LeftOwes, Active
  <2>5. ReadingKept(q, u)'
    BY <2>1, <2>2, <2>3 DEF PairInv, ReadingKept
  <2>6. Paired(q, u)'
    BY <2>1, <2>2, <2>3 DEF PairInv, Paired
  <2>7. OneHolder(q, u)'
    BY <2>2, <2>3, <2>4 DEF PairInv, OneHolder
  <2> QED  BY <2>5, <2>6, <2>7 DEF PairInv
<1> QED  BY <1>3, <1>4, <1>5 DEF SchedulerInv

-----------------------------------------------------------------------------
(* An attempt                                                              *)

LEMMA NoAttemptFacts ==
  NoAttempt \in Attempt /\ NoAttempt.stage = "none" /\ ~NoAttempt.admitted
BY DEF NoAttempt, Attempt, Stages

\* Steps that only move an attempt on, change a backoff that nobody gains or loses, or a lease.
LEMMA QuietTargetKept ==
  ASSUME SchedulerInv, NEW p \in Procs, NEW t \in Targets,
         \/ AddTarget(p, t) \/ RemoveTarget(p, t) \/ Launch(p, t)
         \/ WaitForLease(p, t) \/ Postpone(p, t) \/ MeetDeadline(p, t) \/ ReportFailure(p, t)
  PROVE  SchedulerInv'
<1>1. TypeOK
  BY DEF SchedulerInv
<1>2. \A q \in Procs, u \in Targets : PairInv(q, u)
  BY DEF SchedulerInv
<1>3. \A q \in Procs, u \in Targets : attempt[q][u].stage = "launched" => ReadingsOf(q, u) = {}
  BY <1>2 DEF PairInv, Paired
<1>4. attempt[p][t] \in Attempt /\ backoff[p][t] \in Entry \cup {NoState}
  BY <1>1, PairTypes
<1>5. attempt[p][t].stage = "launched" => ~attempt[p][t].admitted
  BY <1>2 DEF PairInv, Paired, ReadingStages
<1>6. CASE AddTarget(p, t)
  <2>1. TypeOK'
    BY <1>1, <1>6 DEF AddTarget, TypeOK
  <2> QED  BY <1>3, <1>6, <2>1, QuietKept DEF AddTarget, QuietStep
<1>7. CASE RemoveTarget(p, t)
  <2> DEFINE a == [attempt[p][t] EXCEPT !.cancelled = (attempt[p][t].stage # "none")]
  <2>1. a \in Attempt /\ a.stage = attempt[p][t].stage /\ a.admitted = attempt[p][t].admitted
    BY <1>4, Zenon DEF Attempt
  <2>2. SetAttempt(p, t, a)
    BY <1>7 DEF RemoveTarget, SetAttempt
  <2> HIDE DEF a
  <2>3. /\ attempt' \in [Procs -> [Targets -> Attempt]]
        /\ attempt'[p][t] = a
        /\ \A q \in Procs, u \in Targets : q # p \/ u # t => attempt'[q][u] = attempt[q][u]
    BY <1>1, <2>1, <2>2, SetAttemptKept
  <2>4. ForgottenState(backoff[p][t]) \in Entry \cup {NoState}
        /\ (Holding(ForgottenState(backoff[p][t])) <=> Holding(backoff[p][t]))
    BY <1>4, ForgottenKeeps
  <2>5. SetBackoff(p, t, ForgottenState(backoff[p][t]))
    BY <1>7 DEF RemoveTarget
  <2>6. /\ backoff' \in [Procs -> [Targets -> Entry \cup {NoState}]]
        /\ backoff'[p][t] = ForgottenState(backoff[p][t])
        /\ \A q \in Procs, u \in Targets : q # p \/ u # t => backoff'[q][u] = backoff[q][u]
    BY <1>1, <2>4, <2>5, SetBackoffKept
  <2>7. lease' \in [Targets -> LeaseRow \cup {NoLease}]
    BY <1>1, <1>7, ReleaseTypes DEF RemoveTarget, TypeOK
  <2>8. TypeOK'
    BY <1>1, <1>7, <2>3, <2>6, <2>7 DEF RemoveTarget, TypeOK
  <2>9. ASSUME NEW q \in Procs, NEW u \in Targets
        PROVE  /\ attempt'[q][u].stage = attempt[q][u].stage
               /\ attempt'[q][u].admitted = attempt[q][u].admitted
               /\ Holding(backoff'[q][u]) <=> Holding(backoff[q][u])
    <3>1. CASE q = p /\ u = t
      BY <2>1, <2>3, <2>4, <2>6, <3>1
    <3>2. CASE q # p \/ u # t
      BY <2>3, <2>6, <3>2
    <3> QED  BY <3>1, <3>2
  <2>10. QuietStep
    BY <1>3, <1>7, <2>9 DEF RemoveTarget, QuietStep
  <2> QED  BY <2>8, <2>10, QuietKept
<1>8. CASE Launch(p, t)
  <2> DEFINE a == [NoAttempt EXCEPT !.stage = "launched"]
  <2>1. a \in Attempt /\ a.stage = "launched" /\ ~a.admitted
    BY DEF NoAttempt, Attempt, Stages
  <2>2. SetAttempt(p, t, a)
    BY <1>8 DEF Launch
  <2> HIDE DEF a
  <2>3. /\ attempt' \in [Procs -> [Targets -> Attempt]]
        /\ attempt'[p][t] = a
        /\ \A q \in Procs, u \in Targets : q # p \/ u # t => attempt'[q][u] = attempt[q][u]
    BY <1>1, <2>1, <2>2, SetAttemptKept
  <2>4. TypeOK'
    BY <1>1, <1>8, <2>3 DEF Launch, TypeOK
  <2>5. attempt[p][t].stage = "none" /\ \A r \in ReadingsOf(p, t) : r.state # "running"
    BY <1>8 DEF Launch, MayLaunch, Running
  <2>6. ReadingsOf(p, t) = {}
    <3>1. \A r \in ReadingsOf(p, t) : r.left # "no" => r.state = "running"
      BY <1>2 DEF PairInv, ReadingKept
    <3>2. \A r \in ReadingsOf(p, t) : r.left # "no"
      BY <1>2, <2>5 DEF PairInv, Paired, ReadingStages
    <3> QED  BY <2>5, <3>1, <3>2
  <2>7. ~attempt[p][t].admitted
    BY <1>2, <2>5 DEF PairInv, Paired, ReadingStages
  <2>8. QuietStep
    <3>1. UNCHANGED <<readings, fence, reader, backoff>>
      BY <1>8 DEF Launch
    <3>2. "none" \notin ReadingStages /\ "launched" \notin ReadingStages
      BY DEF ReadingStages
    <3>3. a.admitted = attempt[p][t].admitted
      BY <1>4, <2>1, <2>7 DEF Attempt
    <3>4. ASSUME NEW q \in Procs, NEW u \in Targets
          PROVE  /\ attempt'[q][u].stage \in ReadingStages <=> attempt[q][u].stage \in ReadingStages
                 /\ attempt'[q][u].stage = "launched" => ReadingsOf(q, u) = {}
                 /\ attempt'[q][u].admitted = attempt[q][u].admitted
      <4>1. CASE q = p /\ u = t
        BY <2>1, <2>3, <2>5, <2>6, <3>2, <3>3, <4>1
      <4>2. CASE q # p \/ u # t
        BY <1>3, <2>3, <4>2
      <4> QED  BY <4>1, <4>2
    <3> QED  BY <3>1, <3>4 DEF QuietStep
  <2> QED  BY <2>4, <2>8, QuietKept
<1>9. CASE WaitForLease(p, t) \/ Postpone(p, t)
  <2>1. attempt[p][t].stage = "launched"
    BY <1>9 DEF WaitForLease, Postpone, At
  <2>2. SetAttempt(p, t, NoAttempt)
    BY <1>9 DEF WaitForLease, Postpone
  <2>3. /\ attempt' \in [Procs -> [Targets -> Attempt]]
        /\ attempt'[p][t] = NoAttempt
        /\ \A q \in Procs, u \in Targets : q # p \/ u # t => attempt'[q][u] = attempt[q][u]
    BY <1>1, <2>2, NoAttemptFacts, SetAttemptKept
  <2>4. /\ backoff' \in [Procs -> [Targets -> Entry \cup {NoState}]]
        /\ \A q \in Procs, u \in Targets : Holding(backoff'[q][u]) <=> Holding(backoff[q][u])
    <3>1. CASE UNCHANGED backoff
      BY <1>1, <3>1 DEF TypeOK
    <3>2. CASE ~UNCHANGED backoff
      <4>1. SetBackoff(p, t, ReleasedState(AcquiredState(backoff[p][t])))
            /\ Admits(backoff[p][t])
        BY <1>9, <3>2 DEF WaitForLease, Postpone
      <4>2. ~Holding(backoff[p][t])
        BY <4>1 DEF Admits, Holding
      <4>3. /\ ReleasedState(AcquiredState(backoff[p][t])) \in Entry \cup {NoState}
            /\ ~Holding(ReleasedState(AcquiredState(backoff[p][t])))
        BY <1>4, AcquiredHolds, ReleasedFrees
      <4> QED  BY <1>1, <4>1, <4>2, <4>3, SetBackoffKept
    <3> QED  BY <3>1, <3>2
  <2>5. TypeOK'
    <3>1. /\ held' \in [Procs -> SUBSET Targets]
          /\ UNCHANGED <<lease, life, scheduler, scheduled, readings, fence, leased, reader, written>>
      <4>1. CASE WaitForLease(p, t)
        BY <1>1, <4>1 DEF WaitForLease, TypeOK
      <4>2. CASE Postpone(p, t)
        <5>1. held' = [held EXCEPT ![p] = @ \cup {t}] \/ held' = [held EXCEPT ![p] = @ \ {t}]
          BY <4>2 DEF Postpone
        <5>2. held[p] \cup {t} \in SUBSET Targets /\ held[p] \ {t} \in SUBSET Targets
          BY <1>1 DEF TypeOK
        <5>3. held \in [Procs -> SUBSET Targets]
          BY <1>1 DEF TypeOK
        <5>4. held' \in [Procs -> SUBSET Targets]
          BY <5>1, <5>2, <5>3
        <5> QED  BY <4>2, <5>4 DEF Postpone
      <4> QED  BY <1>9, <4>1, <4>2
    <3> QED  BY <1>1, <2>3, <2>4, <3>1 DEF TypeOK
  <2>6. "none" \notin ReadingStages /\ "launched" \notin ReadingStages
    BY DEF ReadingStages
  <2>7. NoAttempt.admitted = attempt[p][t].admitted
    BY <1>4, <1>5, <2>1 DEF Attempt, NoAttempt
  <2>8. ASSUME NEW q \in Procs, NEW u \in Targets
        PROVE  /\ attempt'[q][u].stage \in ReadingStages <=> attempt[q][u].stage \in ReadingStages
               /\ attempt'[q][u].stage = "launched" => ReadingsOf(q, u) = {}
               /\ attempt'[q][u].admitted = attempt[q][u].admitted
    <3>1. CASE q = p /\ u = t
      BY <2>1, <2>3, <2>6, <2>7, <3>1, NoAttemptFacts
    <3>2. CASE q # p \/ u # t
      BY <1>3, <2>3, <3>2
    <3> QED  BY <3>1, <3>2
  <2>9. UNCHANGED <<readings, fence, reader>>
    BY <1>9 DEF WaitForLease, Postpone
  <2>10. QuietStep
    BY <2>4, <2>8, <2>9 DEF QuietStep
  <2> QED  BY <2>5, <2>10, QuietKept
<1>10. CASE MeetDeadline(p, t) \/ ReportFailure(p, t)
  <2>1. PICK stage \in {"grace", "failing"} :
          /\ attempt' = [attempt EXCEPT ![p][t].stage = stage]
          /\ attempt[p][t].stage = "reading"
    BY <1>10 DEF MeetDeadline, ReportFailure, At
  <2> DEFINE a == [attempt[p][t] EXCEPT !.stage = stage]
  <2>2. /\ a \in Attempt /\ a.stage \in ReadingStages /\ a.stage # "launched"
        /\ a.admitted = attempt[p][t].admitted
    BY <1>4 DEF Attempt, Stages, ReadingStages
  <2>3. SetAttempt(p, t, a)
    BY <2>1 DEF SetAttempt
  <2> HIDE DEF a
  <2>4. /\ attempt' \in [Procs -> [Targets -> Attempt]]
        /\ attempt'[p][t] = a
        /\ \A q \in Procs, u \in Targets : q # p \/ u # t => attempt'[q][u] = attempt[q][u]
    BY <1>1, <2>2, <2>3, SetAttemptKept
  <2>5. UNCHANGED <<lease, life, scheduler, scheduled, held, readings, fence, leased, backoff,
                    reader, written>>
    BY <1>10 DEF MeetDeadline, ReportFailure
  <2>6. TypeOK'
    BY <1>1, <2>4, <2>5 DEF TypeOK
  <2>7. "reading" \in ReadingStages
    BY DEF ReadingStages
  <2>8. ASSUME NEW q \in Procs, NEW u \in Targets
        PROVE  /\ attempt'[q][u].stage \in ReadingStages <=> attempt[q][u].stage \in ReadingStages
               /\ attempt'[q][u].stage = "launched" => ReadingsOf(q, u) = {}
               /\ attempt'[q][u].admitted = attempt[q][u].admitted
    <3>1. CASE q = p /\ u = t
      BY <2>1, <2>2, <2>4, <2>7, <3>1
    <3>2. CASE q # p \/ u # t
      BY <1>3, <2>4, <3>2
    <3> QED  BY <3>1, <3>2
  <2>9. QuietStep
    BY <2>5, <2>8 DEF QuietStep
  <2> QED  BY <2>6, <2>9, QuietKept
<1> QED  BY <1>6, <1>7, <1>8, <1>9, <1>10

\* Begin: the lease, the fence and the reading come with one token.
LEMMA BeginKept ==
  ASSUME SchedulerInv, NEW p \in Procs, NEW t \in Targets, Begin(p, t)
  PROVE  SchedulerInv'
<1>1. TypeOK /\ PairInv(p, t)
  BY DEF SchedulerInv
<1>2. attempt[p][t].stage = "launched" /\ ReadingsOf(p, t) = {} /\ ~attempt[p][t].admitted
  BY <1>1 DEF Begin, At, PairInv, Paired, ReadingStages
<1> DEFINE admitted == Admits(backoff[p][t])
           r == [proc |-> p, target |-> t, token |-> NextToken(t), state |-> "running",
                 left |-> "no"]
           a == [stage |-> "reading", token |-> NextToken(t), admitted |-> admitted,
                 cancelled |-> FALSE]
<1>3. /\ NextToken(t) \in Nat \ {0} /\ NextToken(t) \in Nat
      /\ lease' \in [Targets -> LeaseRow \cup {NoLease}]
  BY <1>1, AcquireTypes DEF Begin
<1>4. r \in Reading
  BY <1>3 DEF Reading
<1>5. admitted \in BOOLEAN
  BY DEF Admits
<1>6. a \in Attempt
  BY <1>3, <1>5 DEF Attempt, Stages
<1>7. a.stage = "reading" /\ a.admitted = admitted
  OBVIOUS
<1>8. SetAttempt(p, t, a)
  BY DEF Begin
<1>9. readings' = (readings \ {}) \cup {r}
  BY DEF Begin
<1>10. r.proc = p /\ r.target = t /\ r.left = "no" /\ r.token = NextToken(t)
  OBVIOUS
<1> HIDE DEF a, r
<1>11. /\ attempt' \in [Procs -> [Targets -> Attempt]]
       /\ attempt'[p][t] = a
       /\ \A q \in Procs, u \in Targets : q # p \/ u # t => attempt'[q][u] = attempt[q][u]
  BY <1>1, <1>6, <1>8, SetAttemptKept
<1>12. /\ fence' \in [Procs -> [Targets -> Nat]]
       /\ fence'[p][t] = NextToken(t)
       /\ \A q \in Procs, u \in Targets : q # p \/ u # t => fence'[q][u] = fence[q][u]
  <2>1. PICK n \in Nat : n = NextToken(t)
    BY <1>3
  <2>2. SetFence(p, t, n)
    BY <2>1 DEF Begin, SetFence
  <2>3. /\ fence' \in [Procs -> [Targets -> Nat]] /\ fence'[p][t] = n
        /\ \A q \in Procs, u \in Targets : q # p \/ u # t => fence'[q][u] = fence[q][u]
    BY <1>1, <2>2, SetFenceKept
  <2> QED  BY <2>1, <2>3
<1>13. /\ ReadingsOf(p, t)' = {r}
       /\ \A q \in Procs, u \in Targets : q # p \/ u # t => ReadingsOf(q, u)' = ReadingsOf(q, u)
  BY <1>2, <1>9, <1>10 DEF ReadingsOf
<1>14. backoff[p][t] \in Entry \cup {NoState}
  BY <1>1, PairTypes
<1>15. /\ backoff' \in [Procs -> [Targets -> Entry \cup {NoState}]]
       /\ \A q \in Procs, u \in Targets : q # p \/ u # t => backoff'[q][u] = backoff[q][u]
       /\ admitted => Holding(backoff'[p][t])
       /\ ~admitted => backoff'[p][t] = backoff[p][t]
  <2>1. CASE admitted
    <3>1. SetBackoff(p, t, AcquiredState(backoff[p][t]))
      BY <2>1 DEF Begin
    <3>2. AcquiredState(backoff[p][t]) \in Entry /\ AcquiredState(backoff[p][t]).active
      BY <1>14, AcquiredHolds
    <3>3. Holding(AcquiredState(backoff[p][t]))
      BY <3>2, EntryNotNone DEF Holding
    <3> QED  BY <1>1, <2>1, <3>1, <3>2, <3>3, SetBackoffKept
  <2>2. CASE ~admitted
    BY <1>1, <2>2 DEF Begin, TypeOK
  <2> QED  BY <2>1, <2>2
<1>16. UNCHANGED <<life, scheduler, scheduled, reader, written>>
       /\ leased' = [leased EXCEPT ![p] = @ \cup {t}]
       /\ held' = [held EXCEPT ![p] = @ \ {t}]
  BY DEF Begin
<1>17. readings' \subseteq Reading
  BY <1>1, <1>4, <1>9 DEF TypeOK
<1>18. TypeOK'
  BY <1>1, <1>3, <1>11, <1>12, <1>15, <1>16, <1>17 DEF TypeOK
<1>19. LocalStep(p, t)
  BY <1>11, <1>12, <1>13, <1>15, <1>16 DEF LocalStep
<1>20. ReadingKept(p, t)'
  BY <1>10, <1>12, <1>13 DEF ReadingKept
<1>21. Paired(p, t)'
  BY <1>7, <1>10, <1>11, <1>13 DEF Paired, ReadingStages
<1>22. ~LeftOwes(p, t)'
  BY <1>10, <1>13 DEF LeftOwes
<1>23. ~LeftOwes(p, t)
  BY <1>2 DEF LeftOwes
<1>24. OneHolder(p, t)'
  <2>1. Active(p, t) <=> t \in reader[p]
    BY <1>1, <1>2, <1>23 DEF PairInv, OneHolder
  <2>2. CASE admitted
    <3>1. ~Active(p, t)
      BY <2>2 DEF Admits, Active
    <3>2. Active(p, t)'
      BY <1>15, <2>2 DEF Active, Holding
    <3> QED  BY <1>7, <1>11, <1>16, <1>22, <2>1, <2>2, <3>1, <3>2 DEF OneHolder
  <2>3. CASE ~admitted
    <3>1. Active(p, t)' <=> Active(p, t)
      BY <1>15, <2>3 DEF Active
    <3> QED  BY <1>7, <1>11, <1>16, <1>22, <2>1, <2>3, <3>1 DEF OneHolder
  <2> QED  BY <2>2, <2>3
<1> QED  BY <1>18, <1>19, <1>20, <1>21, <1>24, LocalKept DEF PairInv

\* The pair once nothing of the attempt and its reading is left.
LEMMA EmptyPair ==
  ASSUME NEW p \in Procs, NEW t \in Targets,
         attempt'[p][t].stage \notin ReadingStages, ~attempt'[p][t].admitted,
         ReadingsOf(p, t)' = {}, Holding(backoff'[p][t]) <=> t \in reader'[p]
  PROVE  PairInv(p, t)'
<1>1. ReadingKept(p, t)' /\ Paired(p, t)' /\ ~LeftOwes(p, t)'
  BY DEF ReadingKept, Paired, LeftOwes
<1>2. Active(p, t)' <=> Holding(backoff'[p][t])
  BY DEF Active, Holding
<1> QED  BY <1>1, <1>2 DEF PairInv, OneHolder

\* Removing the only reading of a pair, or putting another in its place.
LEMMA OnlyReading ==
  ASSUME NEW p \in Procs, NEW t \in Targets, NEW r, ReadingsOf(p, t) = {r},
         r.proc = p, r.target = t
  PROVE  /\ readings' = readings \ {r} =>
              /\ ReadingsOf(p, t)' = {}
              /\ \A q \in Procs, u \in Targets :
                   q # p \/ u # t => ReadingsOf(q, u)' = ReadingsOf(q, u)
         /\ \A l : l.proc = p /\ l.target = t /\ readings' = (readings \ {r}) \cup {l} =>
              /\ ReadingsOf(p, t)' = {l}
              /\ \A q \in Procs, u \in Targets :
                   q # p \/ u # t => ReadingsOf(q, u)' = ReadingsOf(q, u)
<1>1. ASSUME readings' = readings \ {r}
      PROVE  /\ ReadingsOf(p, t)' = {}
             /\ \A q \in Procs, u \in Targets :
                  q # p \/ u # t => ReadingsOf(q, u)' = ReadingsOf(q, u)
  BY <1>1 DEF ReadingsOf
<1>2. ASSUME NEW l, l.proc = p, l.target = t, readings' = (readings \ {r}) \cup {l}
      PROVE  /\ ReadingsOf(p, t)' = {l}
             /\ \A q \in Procs, u \in Targets :
                  q # p \/ u # t => ReadingsOf(q, u)' = ReadingsOf(q, u)
  BY <1>2 DEF ReadingsOf
<1> QED  BY <1>1, <1>2

\* Admission while an attempt waits for its reading: nothing else owes it.
LEMMA AttemptOwes ==
  ASSUME TypeOK, NEW p \in Procs, NEW t \in Targets, PairInv(p, t),
         attempt[p][t].stage \in ReadingStages
  PROVE  /\ ~LeftOwes(p, t)
         /\ attempt[p][t].admitted => t \notin reader[p] /\ Holding(backoff[p][t])
         /\ ~attempt[p][t].admitted => (Holding(backoff[p][t]) <=> t \in reader[p])
<1>1. ReadingsOf(p, t) = {Own(p, t)} /\ Own(p, t).left = "no"
  BY OwnReading
<1>2. ~LeftOwes(p, t)
  BY <1>1 DEF LeftOwes
<1>3. Active(p, t) <=> Holding(backoff[p][t])
  BY DEF Active, Holding
<1> QED  BY <1>2, <1>3 DEF PairInv, OneHolder

LEMMA SettleKept ==
  ASSUME SchedulerInv, NEW p \in Procs, NEW t \in Targets, Settle(p, t)
  PROVE  SchedulerInv'
<1>1. TypeOK /\ PairInv(p, t)
  BY DEF SchedulerInv
<1>2. attempt[p][t].stage \in ReadingStages
  BY DEF Settle, At, ReadingStages
<1>3. /\ Own(p, t) \in readings /\ Own(p, t) \in ReadingsOf(p, t)
      /\ Own(p, t).proc = p /\ Own(p, t).target = t
      /\ ReadingsOf(p, t) = {Own(p, t)}
  BY <1>1, <1>2, OwnReading DEF ReadingsOf
<1>4. attempt[p][t] \in Attempt /\ backoff[p][t] \in Entry \cup {NoState}
  BY <1>1, PairTypes
<1>5. \E s \in Entry \cup {NoState} :
        SetBackoff(p, t, s) /\ (Holding(s) <=> t \in reader[p])
  <2>0. attempt[p][t].admitted \in BOOLEAN /\ (Own(p, t).state = "event") \in BOOLEAN
    BY <1>4 DEF Attempt
  <2> DEFINE success == Own(p, t).state = "event"
  <2>1. FinishAttempt(p, t, success)
    BY DEF Settle
  <2>2. success \in BOOLEAN
    BY <2>0
  <2> HIDE DEF success
  <2>3. CASE attempt[p][t].admitted
    <3>1. SetBackoff(p, t, FinishedState(backoff[p][t], success))
      BY <2>1, <2>3 DEF FinishAttempt
    <3> QED  BY <1>1, <1>2, <1>4, <2>2, <2>3, <3>1, FinishedFrees, AttemptOwes
  <2>4. CASE ~attempt[p][t].admitted /\ success
    <3>1. SetBackoff(p, t, backoff[p][t])
      BY <2>1, <2>4 DEF FinishAttempt
    <3> QED  BY <1>1, <1>2, <1>4, <2>4, <3>1, AttemptOwes
  <2>5. CASE ~attempt[p][t].admitted /\ ~success
    <3>1. SetBackoff(p, t, RecordedState(backoff[p][t]))
      BY <2>1, <2>5 DEF FinishAttempt
    <3> QED  BY <1>1, <1>2, <1>4, <2>5, <3>1, RecordedKeeps, AttemptOwes
  <2> QED  BY <2>3, <2>4, <2>5
<1>6. /\ backoff' \in [Procs -> [Targets -> Entry \cup {NoState}]]
      /\ Holding(backoff'[p][t]) <=> t \in reader[p]
      /\ \A q \in Procs, u \in Targets : q # p \/ u # t => backoff'[q][u] = backoff[q][u]
  BY <1>1, <1>5, SetBackoffKept
<1>7. /\ attempt' \in [Procs -> [Targets -> Attempt]]
      /\ attempt'[p][t] = NoAttempt
      /\ \A q \in Procs, u \in Targets : q # p \/ u # t => attempt'[q][u] = attempt[q][u]
  BY <1>1, NoAttemptFacts, SetAttemptKept DEF Settle
<1>8. /\ fence' \in [Procs -> [Targets -> Nat]]
      /\ \A q \in Procs, u \in Targets : q # p \/ u # t => fence'[q][u] = fence[q][u]
  <2>1. ClearFence(p, t)
    BY DEF Settle
  <2> QED  BY <1>1, <2>1, ClearFenceKept
<1>9. readings' = readings \ {Own(p, t)} /\ readings' \subseteq Reading
  BY <1>1 DEF Settle, TypeOK
<1>10. /\ ReadingsOf(p, t)' = {}
       /\ \A q \in Procs, u \in Targets : q # p \/ u # t => ReadingsOf(q, u)' = ReadingsOf(q, u)
  BY <1>3, <1>9, OnlyReading
<1>11. /\ UNCHANGED <<lease, life, scheduler, scheduled, held, reader, written>>
       /\ leased' \in [Procs -> SUBSET Targets]
  BY <1>1 DEF Settle, TypeOK
<1>12. TypeOK'
  BY <1>1, <1>6, <1>7, <1>8, <1>9, <1>11 DEF TypeOK
<1>13. LocalStep(p, t)
  BY <1>6, <1>7, <1>8, <1>10, <1>11 DEF LocalStep
<1>14. PairInv(p, t)'
  BY <1>6, <1>7, <1>10, <1>11, NoAttemptFacts, EmptyPair DEF ReadingStages
<1> QED  BY <1>12, <1>13, <1>14, LocalKept

\* An attempt that goes and leaves its reading behind, with the admission it owes.
LEMMA LeaveKept ==
  ASSUME SchedulerInv, NEW p \in Procs, NEW t \in Targets,
         attempt[p][t].stage \in ReadingStages, Own(p, t).state = "running",
         NEW debt \in {"finish", "release"}, Leave(p, t, debt), SetAttempt(p, t, NoAttempt),
         NEW s \in Entry \cup {NoState}, SetBackoff(p, t, s),
         Holding(s) <=> Holding(backoff[p][t]),
         UNCHANGED <<lease, life, scheduler, scheduled, held, fence, leased, reader, written>>
  PROVE  SchedulerInv'
<1>1. TypeOK /\ PairInv(p, t)
  BY DEF SchedulerInv
<1>2. /\ Own(p, t) \in Reading
      /\ Own(p, t).proc = p /\ Own(p, t).target = t
      /\ ReadingsOf(p, t) = {Own(p, t)}
      /\ Own(p, t).token = fence[p][t]
  BY <1>1, OwnReading
<1> DEFINE left == IF attempt[p][t].admitted THEN debt ELSE "nothing"
           l == [Own(p, t) EXCEPT !.left = left]
<1>3. left \in {"finish", "release", "nothing"}
  OBVIOUS
<1>4. left \in {"finish", "release"} <=> attempt[p][t].admitted
  OBVIOUS
<1>5. readings' = (readings \ {Own(p, t)}) \cup {l}
  BY DEF Leave
<1> HIDE DEF left
<1>6. /\ l \in Reading /\ l.proc = p /\ l.target = t /\ l.left = left
      /\ l.state = "running" /\ l.token = fence[p][t]
  BY <1>2, <1>3 DEF Reading
<1> HIDE DEF l
<1>7. /\ ReadingsOf(p, t)' = {l}
      /\ \A q \in Procs, u \in Targets : q # p \/ u # t => ReadingsOf(q, u)' = ReadingsOf(q, u)
  BY <1>2, <1>5, <1>6, OnlyReading
<1>8. /\ backoff' \in [Procs -> [Targets -> Entry \cup {NoState}]]
      /\ backoff'[p][t] = s
      /\ \A q \in Procs, u \in Targets : q # p \/ u # t => backoff'[q][u] = backoff[q][u]
  BY <1>1, SetBackoffKept
<1>9. /\ attempt' \in [Procs -> [Targets -> Attempt]]
      /\ attempt'[p][t] = NoAttempt
      /\ \A q \in Procs, u \in Targets : q # p \/ u # t => attempt'[q][u] = attempt[q][u]
  BY <1>1, NoAttemptFacts, SetAttemptKept
<1>10. readings' \subseteq Reading
  BY <1>1, <1>5, <1>6 DEF TypeOK
<1>11. TypeOK'
  BY <1>1, <1>8, <1>9, <1>10 DEF TypeOK
<1>12. LocalStep(p, t)
  BY <1>7, <1>8, <1>9 DEF LocalStep
<1>13. ReadingKept(p, t)'
  BY <1>6, <1>7 DEF ReadingKept
<1>14. Paired(p, t)'
  BY <1>3, <1>6, <1>7, <1>9, NoAttemptFacts DEF Paired, ReadingStages
<1>15. LeftOwes(p, t)' <=> attempt[p][t].admitted
  BY <1>4, <1>6, <1>7 DEF LeftOwes
<1>16. Active(p, t)' <=> Holding(backoff[p][t])
  BY <1>8 DEF Active, Holding
<1>17. OneHolder(p, t)'
  <2>1. /\ attempt[p][t].admitted => t \notin reader[p] /\ Holding(backoff[p][t])
        /\ ~attempt[p][t].admitted => (Holding(backoff[p][t]) <=> t \in reader[p])
    BY <1>1, AttemptOwes
  <2> QED  BY <1>9, <1>15, <1>16, <2>1, NoAttemptFacts DEF OneHolder
<1> QED  BY <1>11, <1>12, <1>13, <1>14, <1>17, LocalKept DEF PairInv

LEMMA GiveUpKept ==
  ASSUME SchedulerInv, NEW p \in Procs, NEW t \in Targets, GiveUp(p, t)
  PROVE  SchedulerInv'
<1>1. backoff[p][t] \in Entry \cup {NoState}
  BY PairTypes DEF SchedulerInv
<1>2. RecordedState(backoff[p][t]) \in Entry \cup {NoState}
      /\ (Holding(RecordedState(backoff[p][t])) <=> Holding(backoff[p][t]))
  BY <1>1, RecordedKeeps
<1>3. attempt[p][t].stage \in ReadingStages /\ "release" \in {"finish", "release"}
  BY DEF GiveUp, At, ReadingStages
<1> QED  BY <1>2, <1>3, LeaveKept DEF GiveUp

LEMMA UnwindKept ==
  ASSUME SchedulerInv, NEW p \in Procs, NEW t \in Targets, Unwind(p, t)
  PROVE  SchedulerInv'
<1>1. TypeOK /\ PairInv(p, t)
  BY DEF SchedulerInv
<1>2. attempt[p][t] \in Attempt /\ backoff[p][t] \in Entry \cup {NoState}
  BY <1>1, PairTypes
<1>3. attempt[p][t].stage # "launched" => attempt[p][t].stage \in ReadingStages
  BY <1>2 DEF Unwind, Attempt, Stages, ReadingStages
<1>4. /\ attempt' \in [Procs -> [Targets -> Attempt]]
      /\ attempt'[p][t] = NoAttempt
      /\ \A q \in Procs, u \in Targets : q # p \/ u # t => attempt'[q][u] = attempt[q][u]
  BY <1>1, NoAttemptFacts, SetAttemptKept DEF Unwind
<1>5. NoAttempt.stage \notin ReadingStages /\ ~NoAttempt.admitted
  BY NoAttemptFacts DEF ReadingStages
<1>6. CASE attempt[p][t].stage = "launched"
  <2>1. UNCHANGED <<lease, life, scheduler, scheduled, held, readings, fence, leased, backoff,
                    reader, written>>
    BY <1>6 DEF Unwind
  <2>2. ReadingsOf(p, t) = {} /\ ~attempt[p][t].admitted
    BY <1>1, <1>6 DEF PairInv, Paired, ReadingStages
  <2>3. \A q \in Procs, u \in Targets : ReadingsOf(q, u)' = ReadingsOf(q, u)
    BY <2>1 DEF ReadingsOf
  <2>4. Holding(backoff[p][t]) <=> t \in reader[p]
    BY <1>1, <2>2 DEF PairInv, OneHolder, LeftOwes, Active, Holding
  <2>5. TypeOK'
    BY <1>1, <1>4, <2>1 DEF TypeOK
  <2>6. LocalStep(p, t)
    BY <1>4, <2>1, <2>3 DEF LocalStep
  <2>7. PairInv(p, t)'
    BY <1>4, <1>5, <2>1, <2>2, <2>3, <2>4, EmptyPair
  <2> QED  BY <2>5, <2>6, <2>7, LocalKept
<1>7. CASE attempt[p][t].stage # "launched" /\ Own(p, t).state = "running"
  <2>1. /\ Leave(p, t, "finish") /\ SetAttempt(p, t, NoAttempt) /\ "finish" \in {"finish", "release"}
        /\ UNCHANGED <<lease, life, scheduler, scheduled, held, fence, leased, backoff, reader,
                       written>>
    BY <1>7 DEF Unwind
  <2>2. SetBackoff(p, t, backoff[p][t])
    BY <1>1, <2>1 DEF SetBackoff, TypeOK
  <2> QED  BY <1>2, <1>3, <1>7, <2>1, <2>2, LeaveKept
<1>8. CASE attempt[p][t].stage # "launched" /\ Own(p, t).state # "running"
  <2>1. /\ readings' = readings \ {Own(p, t)}
        /\ ClearFence(p, t)
        /\ SetBackoff(p, t, IF attempt[p][t].admitted THEN ReleasedState(backoff[p][t])
                                                      ELSE backoff[p][t])
        /\ UNCHANGED <<lease, life, scheduler, scheduled, held, leased, reader, written>>
    BY <1>8 DEF Unwind
  <2>2. \E s \in Entry \cup {NoState} :
          SetBackoff(p, t, s) /\ (Holding(s) <=> t \in reader[p])
    <3>1. CASE attempt[p][t].admitted
      BY <1>1, <1>2, <1>3, <1>8, <2>1, <3>1, ReleasedFrees, AttemptOwes
    <3>2. CASE ~attempt[p][t].admitted
      BY <1>1, <1>2, <1>3, <1>8, <2>1, <3>2, AttemptOwes
    <3> QED  BY <3>1, <3>2
  <2>3. /\ backoff' \in [Procs -> [Targets -> Entry \cup {NoState}]]
        /\ Holding(backoff'[p][t]) <=> t \in reader[p]
        /\ \A q \in Procs, u \in Targets : q # p \/ u # t => backoff'[q][u] = backoff[q][u]
    BY <1>1, <2>2, SetBackoffKept
  <2>4. /\ fence' \in [Procs -> [Targets -> Nat]]
        /\ \A q \in Procs, u \in Targets : q # p \/ u # t => fence'[q][u] = fence[q][u]
    BY <1>1, <2>1, ClearFenceKept
  <2>5. /\ ReadingsOf(p, t)' = {}
        /\ \A q \in Procs, u \in Targets : q # p \/ u # t => ReadingsOf(q, u)' = ReadingsOf(q, u)
    BY <1>1, <1>3, <1>8, <2>1, OwnReading, OnlyReading
  <2>6. readings' \subseteq Reading
    BY <1>1, <2>1 DEF TypeOK
  <2>7. TypeOK'
    BY <1>1, <1>4, <2>1, <2>3, <2>4, <2>6 DEF TypeOK
  <2>8. LocalStep(p, t)
    BY <1>4, <2>1, <2>3, <2>4, <2>5 DEF LocalStep
  <2>9. PairInv(p, t)'
    BY <1>4, <1>5, <2>1, <2>3, <2>5, EmptyPair
  <2> QED  BY <2>7, <2>8, <2>9, LocalKept
<1> QED  BY <1>6, <1>7, <1>8

-----------------------------------------------------------------------------
(* A reading, the other readers and time                                   *)

\* A reading is one of its own process and database, the only one.
LEMMA ReadingFacts ==
  ASSUME SchedulerInv, NEW r \in readings
  PROVE  /\ r \in Reading /\ r.proc \in Procs /\ r.target \in Targets
         /\ ReadingsOf(r.proc, r.target) = {r}
         /\ r.token = fence[r.proc][r.target]
<1>1. r \in Reading /\ r.proc \in Procs /\ r.target \in Targets
  BY DEF SchedulerInv, TypeOK, Reading
<1>2. r \in ReadingsOf(r.proc, r.target)
  BY DEF ReadingsOf
<1> QED  BY <1>1, <1>2 DEF SchedulerInv, PairInv, ReadingKept

LEMMA ReturnKept ==
  ASSUME SchedulerInv, NEW r \in readings, NEW outcome \in Outcomes(r), Return(r, outcome)
  PROVE  SchedulerInv'
<1> DEFINE p == r.proc
           t == r.target
           l == [r EXCEPT !.state = outcome]
<1>1. /\ r \in Reading /\ p \in Procs /\ t \in Targets
      /\ ReadingsOf(p, t) = {r} /\ r.token = fence[p][t]
  BY ReadingFacts
<1>2. TypeOK /\ PairInv(p, t)
  BY <1>1 DEF SchedulerInv
<1>3. outcome \in {"event", "error", "raised", "lost"}
  BY DEF Outcomes
<1>4. r.left = "no" /\ readings' = (readings \ {r}) \cup {l}
      /\ UNCHANGED <<lease, life, scheduler, scheduled, held, attempt, fence, leased, backoff,
                     reader, written>>
  BY DEF Return
<1>5. l \in Reading /\ l.proc = p /\ l.target = t /\ l.left = "no" /\ l.token = r.token
  BY <1>1, <1>3, <1>4 DEF Reading
<1> HIDE DEF l, p, t
<1>6. r.proc = p /\ r.target = t
  BY DEF p, t
<1>7. /\ ReadingsOf(p, t)' = {l}
      /\ \A q \in Procs, u \in Targets : q # p \/ u # t => ReadingsOf(q, u)' = ReadingsOf(q, u)
  BY <1>1, <1>4, <1>5, <1>6, OnlyReading
<1>8. readings' \subseteq Reading
  BY <1>2, <1>4, <1>5 DEF TypeOK
<1>9. TypeOK'
  BY <1>2, <1>4, <1>8 DEF TypeOK
<1>10. LocalStep(p, t)
  BY <1>4, <1>7 DEF LocalStep
<1>11. ReadingKept(p, t)'
  BY <1>1, <1>4, <1>5, <1>7 DEF ReadingKept
<1>12. Paired(p, t)'
  BY <1>1, <1>2, <1>4, <1>5, <1>7 DEF PairInv, Paired
<1>13. ~LeftOwes(p, t)' /\ ~LeftOwes(p, t)
  BY <1>1, <1>4, <1>5, <1>7 DEF LeftOwes
<1>14. OneHolder(p, t)'
  BY <1>2, <1>4, <1>13 DEF PairInv, OneHolder, Active
<1> QED  BY <1>1, <1>9, <1>10, <1>11, <1>12, <1>14, LocalKept DEF PairInv

LEMMA ReturnLeftKept ==
  ASSUME SchedulerInv, NEW r \in readings, ReturnLeft(r)
  PROVE  SchedulerInv'
<1> DEFINE p == r.proc
           t == r.target
           s == backoff[p][t]
           settled == CASE r.left = "release" -> ReleasedState(s)
                        [] r.left = "finish" -> FinishedState(s, FALSE)
                        [] OTHER -> s
           new == IF t \in scheduled[p] THEN settled ELSE ForgottenState(settled)
<1>1. /\ r \in Reading /\ p \in Procs /\ t \in Targets
      /\ ReadingsOf(p, t) = {r} /\ r.token = fence[p][t]
  BY ReadingFacts
<1>2. TypeOK /\ PairInv(p, t)
  BY <1>1 DEF SchedulerInv
<1>3. s \in Entry \cup {NoState}
  BY <1>1, <1>2, PairTypes
<1>4. r.left # "no" /\ readings' = readings \ {r} /\ SetBackoff(p, t, new) /\ ClearFence(p, t)
      /\ UNCHANGED <<lease, life, scheduler, scheduled, held, attempt, leased, reader, written>>
  BY DEF ReturnLeft
<1>5. attempt[p][t].stage \notin ReadingStages /\ ~attempt[p][t].admitted
  BY <1>1, <1>2, <1>4 DEF PairInv, Paired
<1>6. LeftOwes(p, t) <=> r.left \in {"finish", "release"}
  BY <1>1 DEF LeftOwes
<1>7. Holding(s) <=> Active(p, t)
  BY DEF Holding, Active
<1>8. settled \in Entry \cup {NoState} /\ (Holding(settled) <=> t \in reader[p])
  <2>1. CASE r.left = "release"
    <3>1. t \notin reader[p]
      BY <1>2, <1>6, <2>1 DEF PairInv, OneHolder
    <3>2. settled = ReleasedState(s)
      BY <2>1
    <3> QED  BY <1>3, <3>1, <3>2, ReleasedFrees
  <2>2. CASE r.left = "finish"
    <3>1. t \notin reader[p]
      BY <1>2, <1>6, <2>2 DEF PairInv, OneHolder
    <3>2. settled = FinishedState(s, FALSE)
      BY <2>2
    <3> QED  BY <1>3, <3>1, <3>2, FinishedFrees
  <2>3. CASE r.left \notin {"finish", "release"}
    <3>1. settled = s
      BY <2>3
    <3>2. Holding(s) <=> t \in reader[p]
      BY <1>2, <1>5, <1>6, <1>7, <2>3 DEF PairInv, OneHolder
    <3> QED  BY <1>3, <3>1, <3>2
  <2> QED  BY <2>1, <2>2, <2>3
<1>9. new \in Entry \cup {NoState} /\ (Holding(new) <=> t \in reader[p])
  <2> HIDE DEF settled
  <2>1. /\ ForgottenState(settled) \in Entry \cup {NoState}
        /\ Holding(ForgottenState(settled)) <=> Holding(settled)
    BY <1>8, ForgottenKeeps
  <2> QED  BY <1>8, <2>1
<1> HIDE DEF new, settled, s, p, t
<1>10. r.proc = p /\ r.target = t
  BY DEF p, t
<1>11. /\ backoff' \in [Procs -> [Targets -> Entry \cup {NoState}]]
       /\ Holding(backoff'[p][t]) <=> t \in reader[p]
       /\ \A q \in Procs, u \in Targets : q # p \/ u # t => backoff'[q][u] = backoff[q][u]
  BY <1>1, <1>2, <1>4, <1>9, SetBackoffKept
<1>12. /\ fence' \in [Procs -> [Targets -> Nat]]
       /\ \A q \in Procs, u \in Targets : q # p \/ u # t => fence'[q][u] = fence[q][u]
  BY <1>1, <1>2, <1>4, ClearFenceKept
<1>13. /\ ReadingsOf(p, t)' = {}
       /\ \A q \in Procs, u \in Targets : q # p \/ u # t => ReadingsOf(q, u)' = ReadingsOf(q, u)
  BY <1>1, <1>4, <1>10, OnlyReading
<1>14. readings' \subseteq Reading
  BY <1>2, <1>4 DEF TypeOK
<1>15. TypeOK'
  BY <1>2, <1>4, <1>11, <1>12, <1>14 DEF TypeOK
<1>16. LocalStep(p, t)
  BY <1>4, <1>11, <1>12, <1>13 DEF LocalStep
<1>17. PairInv(p, t)'
  BY <1>1, <1>4, <1>5, <1>11, <1>13, EmptyPair
<1> QED  BY <1>1, <1>15, <1>16, <1>17, LocalKept

\* A write, a lapse, and the moves of the backoff that nobody gains or loses.
LEMMA QuietOtherKept ==
  ASSUME SchedulerInv,
         \/ \E r \in readings : Write(r)
         \/ \E t \in Targets : LeaseLapses(t)
         \/ \E p \in Procs, t \in Targets : Forget(p, t) \/ TunnelFails(p, t) \/ WaitOver(p, t)
  PROVE  SchedulerInv'
<1>1. TypeOK
  BY DEF SchedulerInv
<1>2. \A q \in Procs, u \in Targets : attempt[q][u].stage = "launched" => ReadingsOf(q, u) = {}
  BY DEF SchedulerInv, PairInv, Paired
<1>3. ASSUME NEW r \in readings, Write(r)
      PROVE  SchedulerInv'
  <2>1. r.token \in Nat /\ r.target \in Targets
    BY <1>1 DEF TypeOK, Reading
  <2>2. TypeOK'
    BY <1>1, <1>3, <2>1 DEF Write, TypeOK
  <2> QED  BY <1>2, <1>3, <2>2, QuietKept DEF Write, QuietStep
<1>4. ASSUME NEW t \in Targets, LeaseLapses(t)
      PROVE  SchedulerInv'
  <2>1. lease' \in [Targets -> LeaseRow \cup {NoLease}] /\ life' = life
    BY <1>1, <1>4, LapseTypes DEF LeaseLapses, Lapse
  <2>2. TypeOK'
    BY <1>1, <1>4, <2>1 DEF LeaseLapses, TypeOK
  <2> QED  BY <1>2, <1>4, <2>2, QuietKept DEF LeaseLapses, QuietStep
<1>5. ASSUME NEW p \in Procs, NEW t \in Targets,
             Forget(p, t) \/ TunnelFails(p, t) \/ WaitOver(p, t)
      PROVE  SchedulerInv'
  <2>1. backoff[p][t] \in Entry \cup {NoState}
    BY <1>1, PairTypes
  <2>2. \E s \in Entry \cup {NoState} :
          SetBackoff(p, t, s) /\ (Holding(s) <=> Holding(backoff[p][t]))
    BY <1>5, <2>1, ForgottenKeeps, RecordedKeeps, ElapsedKeeps DEF Forget, TunnelFails, WaitOver
  <2>3. /\ backoff' \in [Procs -> [Targets -> Entry \cup {NoState}]]
        /\ \A q \in Procs, u \in Targets : Holding(backoff'[q][u]) <=> Holding(backoff[q][u])
    BY <1>1, <2>2, SetBackoffKept
  <2>4. UNCHANGED <<lease, life, scheduler, scheduled, held, attempt, readings, fence, leased,
                    reader, written>>
    BY <1>5 DEF Forget, TunnelFails, WaitOver
  <2>5. TypeOK'
    BY <1>1, <2>3, <2>4 DEF TypeOK
  <2> QED  BY <1>2, <2>3, <2>4, <2>5, QuietKept DEF QuietStep
<1> QED  BY <1>3, <1>4, <1>5

LEMMA ReaderKept ==
  ASSUME SchedulerInv, NEW p \in Procs, NEW t \in Targets,
         ReaderBegins(p, t) \/ ReaderEnds(p, t)
  PROVE  SchedulerInv'
<1>1. TypeOK /\ PairInv(p, t)
  BY DEF SchedulerInv
<1>2. backoff[p][t] \in Entry \cup {NoState}
  BY <1>1, PairTypes
<1>3. /\ UNCHANGED <<lease, life, scheduler, scheduled, held, attempt, readings, fence, leased,
                     written>>
      /\ reader' = [reader EXCEPT ![p] = @ \cup {t}] \/ reader' = [reader EXCEPT ![p] = @ \ {t}]
  BY DEF ReaderBegins, ReaderEnds
<1>4. reader' \in [Procs -> SUBSET Targets]
  <2>1. reader[p] \cup {t} \in SUBSET Targets /\ reader[p] \ {t} \in SUBSET Targets
    BY <1>1 DEF TypeOK
  <2> QED  BY <1>1, <1>3, <2>1 DEF TypeOK
<1>5. \A q \in Procs, u \in Targets : q # p \/ u # t => (u \in reader'[q] <=> u \in reader[q])
  BY <1>1, <1>3 DEF TypeOK
<1>6. \A q \in Procs, u \in Targets : ReadingsOf(q, u)' = ReadingsOf(q, u)
  BY <1>3 DEF ReadingsOf
<1>7. ~attempt[p][t].admitted /\ ~LeftOwes(p, t)
  <2>1. CASE ReaderBegins(p, t)
    <3>1. ~Active(p, t)
      BY <2>1 DEF ReaderBegins, Admits, Active
    <3> QED  BY <1>1, <3>1 DEF PairInv, OneHolder
  <2>2. CASE ReaderEnds(p, t)
    BY <1>1, <2>2 DEF ReaderEnds, PairInv, OneHolder
  <2> QED  BY <2>1, <2>2
<1>8. \E s \in Entry \cup {NoState} :
        SetBackoff(p, t, s) /\ (Holding(s) <=> t \in reader'[p])
  <2>1. CASE ReaderBegins(p, t)
    <3>1. t \in reader'[p]
      BY <1>1, <2>1 DEF ReaderBegins, TypeOK
    <3>2. Holding(AcquiredState(backoff[p][t])) /\ AcquiredState(backoff[p][t]) \in Entry
      BY <1>2, AcquiredHolds, EntryNotNone DEF Holding
    <3> QED  BY <2>1, <3>1, <3>2 DEF ReaderBegins
  <2>2. CASE ReaderEnds(p, t)
    <3>1. t \notin reader'[p]
      BY <1>1, <2>2 DEF ReaderEnds, TypeOK
    <3> QED  BY <1>2, <2>2, <3>1, FinishedFrees, ReleasedFrees DEF ReaderEnds
  <2> QED  BY <2>1, <2>2
<1>9. /\ backoff' \in [Procs -> [Targets -> Entry \cup {NoState}]]
      /\ Holding(backoff'[p][t]) <=> t \in reader'[p]
      /\ \A q \in Procs, u \in Targets : q # p \/ u # t => backoff'[q][u] = backoff[q][u]
  BY <1>1, <1>8, SetBackoffKept
<1>10. TypeOK'
  BY <1>1, <1>3, <1>4, <1>9 DEF TypeOK
<1>11. LocalStep(p, t)
  BY <1>3, <1>5, <1>6, <1>9 DEF LocalStep
<1>12. ReadingKept(p, t)'
  BY <1>1, <1>3, <1>6 DEF PairInv, ReadingKept
<1>13. Paired(p, t)'
  BY <1>1, <1>3, <1>6 DEF PairInv, Paired
<1>14. ~LeftOwes(p, t)' /\ ~attempt'[p][t].admitted
  BY <1>3, <1>6, <1>7 DEF LeftOwes
<1>15. Active(p, t)' <=> Holding(backoff'[p][t])
  BY DEF Active, Holding
<1>16. OneHolder(p, t)'
  BY <1>9, <1>14, <1>15 DEF OneHolder
<1> QED  BY <1>10, <1>11, <1>12, <1>13, <1>16, LocalKept DEF PairInv

-----------------------------------------------------------------------------
(* Theorems                                                                *)

LEMMA InvInit == Init => SchedulerInv
<1> SUFFICES ASSUME Init PROVE SchedulerInv
  OBVIOUS
<1>1. TypeOK
  BY NoAttemptFacts DEF Init, TypeOK
<1>2. ASSUME NEW p \in Procs, NEW t \in Targets PROVE PairInv(p, t)
  <2>1. /\ ReadingsOf(p, t) = {} /\ attempt[p][t] = NoAttempt /\ backoff[p][t] = NoState
        /\ reader[p] = {}
    BY DEF Init, ReadingsOf
  <2> QED  BY <2>1, NoAttemptFacts
        DEF PairInv, ReadingKept, Paired, OneHolder, LeftOwes, Active, ReadingStages
<1> QED  BY <1>1, <1>2 DEF SchedulerInv

LEMMA InvStep == SchedulerInv /\ [Next]_vars => SchedulerInv'
<1> SUFFICES ASSUME SchedulerInv, [Next]_vars PROVE SchedulerInv'
  OBVIOUS
<1>1. CASE UNCHANGED vars
  <2>1. TypeOK'
    BY <1>1 DEF vars, SchedulerInv, TypeOK
  <2>2. QuietStep
    <3>1. \A q \in Procs, u \in Targets : attempt[q][u].stage = "launched" => ReadingsOf(q, u) = {}
      BY DEF SchedulerInv, PairInv, Paired
    <3> QED  BY <1>1, <3>1 DEF vars, QuietStep
  <2> QED  BY <2>1, <2>2, QuietKept
<1>2. ASSUME NEW p \in Procs, ProcessStep(p) PROVE SchedulerInv'
  BY <1>2, ProcessKept, DieKept DEF ProcessStep
<1>3. ASSUME NEW p \in Procs, NEW t \in Targets, TargetStep(p, t) PROVE SchedulerInv'
  BY <1>3, QuietTargetKept, BeginKept, SettleKept, GiveUpKept, UnwindKept DEF TargetStep, Proceed
<1>4. ASSUME NEW p \in Procs, NEW t \in Targets, OtherStep(p, t) PROVE SchedulerInv'
  BY <1>4, ReaderKept, QuietOtherKept DEF OtherStep
<1>5. ASSUME NEW r \in readings, ReadingStep(r) PROVE SchedulerInv'
  BY <1>5, QuietOtherKept, ReturnKept, ReturnLeftKept DEF ReadingStep
<1>6. ASSUME NEW t \in Targets, LeaseLapses(t) PROVE SchedulerInv'
  BY <1>6, QuietOtherKept
<1> QED  BY <1>1, <1>2, <1>3, <1>4, <1>5, <1>6 DEF Next

LEMMA Invariance == Spec => []SchedulerInv
BY InvInit, InvStep, PTL DEF Spec

\* The lease rows, the attempts, the readings and the backoff entries stay well typed
\* (CollectionScheduler, TargetBackoff, collector_lease).
THEOREM TypeCorrect == Spec => []TypeOK
<1>1. SchedulerInv => TypeOK
  BY DEF SchedulerInv
<1> QED  BY <1>1, Invariance, PTL

\* A process reads a database once at a time: a new attempt waits for the reading an earlier
\* one left behind (_running).
THEOREM ReadsOnce == Spec => []OneReading
<1>1. ASSUME SchedulerInv PROVE OneReading
  <2>1. ASSUME NEW p \in Procs, NEW t \in Targets
        PROVE  Cardinality(ReadingsOf(p, t)) <= 1
    <3>1. CASE ReadingsOf(p, t) = {}
      BY <3>1, FS_EmptySet
    <3>2. ASSUME NEW r \in ReadingsOf(p, t) PROVE Cardinality(ReadingsOf(p, t)) <= 1
      <4>1. ReadingsOf(p, t) = {r}
        BY <1>1, <3>2 DEF SchedulerInv, PairInv, ReadingKept
      <4> QED  BY <4>1, FS_Singleton
    <3> QED  BY <3>1, <3>2
  <2> QED  BY <2>1 DEF OneReading
<1> QED  BY <1>1, Invariance, PTL

\* Admission to a database is held by one reader exactly while the database is active: no
\* cancelled, shared or abandoned attempt loses it or gives away another's (TargetBackoff).
THEOREM AdmissionIsHeld == Spec => []AdmissionHeld
<1>1. ASSUME SchedulerInv PROVE AdmissionHeld
  <2>1. ASSUME NEW p \in Procs, NEW t \in Targets
        PROVE  Cardinality(Holders(p, t)) = IF Active(p, t) THEN 1 ELSE 0
    <3>1. TypeOK /\ PairInv(p, t)
      BY <1>1 DEF SchedulerInv
    <3>2. LeftOwes(p, t) <=> \E r \in ReadingsOf(p, t) : r.left \in {"finish", "release"}
      BY DEF LeftOwes
    <3>3. Holders(p, t) = {h \in {"reader", "attempt", "left"} :
                             \/ h = "reader" /\ t \in reader[p]
                             \/ h = "attempt" /\ attempt[p][t].admitted
                             \/ h = "left" /\ LeftOwes(p, t)}
      BY <3>2 DEF Holders
    <3>4. attempt[p][t].admitted => ~LeftOwes(p, t)
      BY <3>1, AttemptOwes DEF PairInv, Paired
    <3>5. CASE ~Active(p, t)
      <4>1. Holders(p, t) = {}
        BY <3>1, <3>3, <3>5 DEF PairInv, OneHolder
      <4> QED  BY <3>5, <4>1, FS_EmptySet
    <3>6. CASE Active(p, t)
      <4>1. PICK h \in {"reader", "attempt", "left"} : Holders(p, t) = {h}
        <5>1. CASE t \in reader[p]
          <6>1. Holders(p, t) = {"reader"}
            BY <3>1, <3>3, <5>1 DEF PairInv, OneHolder
          <6> QED  BY <6>1
        <5>2. CASE attempt[p][t].admitted
          <6>1. Holders(p, t) = {"attempt"}
            BY <3>1, <3>3, <3>4, <5>2 DEF PairInv, OneHolder
          <6> QED  BY <6>1
        <5>3. CASE LeftOwes(p, t)
          <6>1. Holders(p, t) = {"left"}
            BY <3>1, <3>3, <3>4, <5>3 DEF PairInv, OneHolder
          <6> QED  BY <6>1
        <5> QED  BY <3>1, <3>6, <5>1, <5>2, <5>3 DEF PairInv, OneHolder
      <4> QED  BY <3>6, <4>1, FS_Singleton
    <3> QED  BY <3>5, <3>6
  <2> QED  BY <2>1 DEF AdmissionHeld
<1> QED  BY <1>1, Invariance, PTL

-----------------------------------------------------------------------------
(* Fencing: tokens only grow, and no write overtakes its token             *)

Token(t) == IF lease[t] = NoLease THEN 0 ELSE lease[t].token

WrittenInv == \A t \in Targets : written[t] <= Token(t)

LEMMA TokenTypes ==
  ASSUME TypeOK, NEW t \in Targets
  PROVE  Token(t) \in Nat /\ (lease[t] # NoLease => lease[t] \in LeaseRow)
BY DEF TypeOK, Token, LeaseRow

\* Whatever changes a lease, its token never goes back.
LEMMA TokensGrow ==
  ASSUME SchedulerInv, [Next]_vars, NEW t \in Targets
  PROVE  Token(t)' >= Token(t)
<1>1. TypeOK /\ Token(t) \in Nat
  BY TokenTypes DEF SchedulerInv
<1>2. CASE UNCHANGED lease
  BY <1>1, <1>2 DEF Token
<1>3. ASSUME NEW p \in Procs, NEW u \in Targets, AcquireLease(p, u)
      PROVE  Token(t)' >= Token(t)
  <2>1. CASE t # u
    <3>1. lease'[t] = lease[t]
      BY <1>1, <1>3, <2>1, AcquireTypes
    <3> QED  BY <1>1, <3>1 DEF Token
  <2>2. CASE t = u
    <3>1. lease'[t] # NoLease /\ lease'[t].token = NextToken(t)
      <4>1. /\ lease'[u] = [owner |-> Owner(p), token |-> NextToken(u), life |-> "live"]
            /\ lease'[u] # NoLease
        BY <1>1, <1>3, AcquireTypes
      <4> QED  BY <2>2, <4>1
    <3>2. NextToken(t) >= Token(t)
      BY <1>1 DEF NextToken, Token
    <3> QED  BY <3>1, <3>2 DEF Token
  <2> QED  BY <2>1, <2>2
<1>4. ASSUME NEW p \in Procs, NEW names, ReleaseLeases(p, names)
      PROVE  Token(t)' >= Token(t)
  <2>1. Token(t)' = Token(t)
    BY <1>1, <1>4, ReleaseTypes DEF Token
  <2> QED  BY <1>1, <2>1
<1>5. ASSUME NEW u \in Targets, Lapse(u)
      PROVE  Token(t)' >= Token(t)
  <2>1. Token(t)' = Token(t)
    BY <1>1, <1>5, LapseTypes DEF Token
  <2> QED  BY <1>1, <2>1
<1>6. ASSUME NEW p \in Procs, ProcessStep(p) PROVE Token(t)' >= Token(t)
  BY <1>2, <1>4, <1>6 DEF ProcessStep, Start, Stop, Stopped, Die
<1>7. ASSUME NEW p \in Procs, NEW u \in Targets, TargetStep(p, u) PROVE Token(t)' >= Token(t)
  <2>1. CASE Begin(p, u)
    BY <1>3, <2>1 DEF Begin
  <2>2. CASE RemoveTarget(p, u)
    BY <1>2, <1>4, <2>2 DEF RemoveTarget
  <2>3. CASE ~Begin(p, u) /\ ~RemoveTarget(p, u)
    BY <1>2, <1>7, <2>3 DEF TargetStep, Proceed, AddTarget, Launch, WaitForLease, Postpone,
         MeetDeadline, Settle, ReportFailure, GiveUp, Unwind
  <2> QED  BY <2>1, <2>2, <2>3
<1>8. ASSUME NEW p \in Procs, NEW u \in Targets, OtherStep(p, u) PROVE Token(t)' >= Token(t)
  BY <1>2, <1>8 DEF OtherStep, ReaderBegins, ReaderEnds, Forget, TunnelFails, WaitOver
<1>9. ASSUME NEW r \in readings, ReadingStep(r) PROVE Token(t)' >= Token(t)
  BY <1>2, <1>9 DEF ReadingStep, Write, ReturnLeft, Return
<1>10. ASSUME NEW u \in Targets, LeaseLapses(u) PROVE Token(t)' >= Token(t)
  BY <1>5, <1>10 DEF LeaseLapses
<1>11. CASE UNCHANGED vars
  BY <1>2, <1>11 DEF vars
<1> QED  BY <1>6, <1>7, <1>8, <1>9, <1>10, <1>11 DEF Next

\* Only a fenced write writes: the fence is the reading's own, and the row still has it.
LEMMA WritesFenced ==
  ASSUME SchedulerInv, [Next]_vars, NEW t \in Targets
  PROVE  written'[t] = written[t] \/ written'[t] = Token(t)
<1>1. TypeOK
  BY DEF SchedulerInv
<1>2. CASE UNCHANGED written
  BY <1>2
<1>3. ASSUME NEW r \in readings, Write(r)
      PROVE  written'[t] = written[t] \/ written'[t] = Token(t)
  <2>1. /\ r \in Reading /\ r.token = fence[r.proc][r.target] /\ r.target \in Targets
        /\ r.token \in Nat \ {0}
    BY ReadingFacts DEF Reading
  <2>2. FenceHolds(r.proc, r.target, r.token)
    BY <1>3, <2>1 DEF Write
  <2>3. r.token = Token(r.target)
    BY <2>2 DEF FenceHolds, OwnsRow, Token
  <2> QED  BY <1>1, <1>3, <2>3 DEF Write, TypeOK
<1>4. ASSUME NEW p \in Procs, ProcessStep(p) PROVE UNCHANGED written
  BY <1>4 DEF ProcessStep, Start, Stop, Stopped, Die
<1>5. ASSUME NEW p \in Procs, NEW u \in Targets, TargetStep(p, u) \/ OtherStep(p, u)
      PROVE UNCHANGED written
  BY <1>5 DEF TargetStep, Proceed, AddTarget, RemoveTarget, Launch, Begin, WaitForLease, Postpone,
         MeetDeadline, Settle, ReportFailure, GiveUp, Unwind,
         OtherStep, ReaderBegins, ReaderEnds, Forget, TunnelFails, WaitOver
<1>6. ASSUME NEW r \in readings, ReturnLeft(r) \/ \E o \in Outcomes(r) : Return(r, o)
      PROVE UNCHANGED written
  BY <1>6 DEF ReturnLeft, Return
<1>7. ASSUME NEW u \in Targets, LeaseLapses(u) PROVE UNCHANGED written
  BY <1>7 DEF LeaseLapses
<1>8. CASE UNCHANGED vars
  BY <1>2, <1>8 DEF vars
<1> QED  BY <1>2, <1>3, <1>4, <1>5, <1>6, <1>7, <1>8 DEF Next, ReadingStep

LEMMA WrittenStep ==
  ASSUME SchedulerInv, WrittenInv, [Next]_vars, NEW t \in Targets
  PROVE  written'[t] >= written[t] /\ written'[t] <= Token(t)'
<1>1. TypeOK /\ TypeOK'
  BY InvStep DEF SchedulerInv
<1>2. Token(t) \in Nat /\ Token(t)' \in Nat /\ written[t] \in Nat /\ written'[t] \in Nat
  BY <1>1, TokenTypes DEF TypeOK, Token, LeaseRow
<1>3. Token(t)' >= Token(t) /\ written[t] <= Token(t)
  BY TokensGrow DEF WrittenInv
<1> QED  BY <1>2, <1>3, WritesFenced

LEMMA WrittenInvariance == Spec => [](SchedulerInv /\ WrittenInv)
<1>1. Init => WrittenInv
  BY DEF Init, WrittenInv, Token
<1>2. SchedulerInv /\ WrittenInv /\ [Next]_vars => WrittenInv'
  BY WrittenStep DEF WrittenInv
<1> QED  BY <1>1, <1>2, InvInit, InvStep, PTL DEF Spec

\* A reading whose lease was taken over never writes after the one that took it: every write
\* carries the fence of its own reading, tokens only grow, and a released row keeps its token.
THEOREM FencedWrites == Spec => WritesInOrder
<1>1. SchedulerInv /\ WrittenInv /\ [Next]_vars => \A t \in Targets : written'[t] >= written[t]
  BY WrittenStep
<1> QED  BY <1>1, WrittenInvariance, PTL DEF Spec, WritesInOrder

-----------------------------------------------------------------------------
(* Leases go back                                                          *)

OwnLive(p, t) == OwnsRow(p, t) /\ lease[t].life = "live"

\* A row's owner is a process in its present life or an earlier one.
OwnersLived == \A t \in Targets : lease[t] # NoLease => lease[t].owner[2] <= life[lease[t].owner[1]]

\* A row this process owns still has the token of its reading.
TokenIsOurs ==
  \A p \in Procs, t \in Targets :
    OwnsRow(p, t) => \A r \in ReadingsOf(p, t) : lease[t].token = r.token

\* A reading that found its lease lost has none to give back.
LostIsLost ==
  \A p \in Procs, t \in Targets :
    \A r \in ReadingsOf(p, t) : r.state = "lost" => ~OwnLive(p, t)

\* A scheduler remembers every lease it has ...
LeasesListed == \A p \in Procs, t \in Targets : OwnLive(p, t) => t \in leased[p]

\* ... and is done with them once it stopped.
StoppedIsDone ==
  \A p \in Procs : scheduler[p] = "stopped" =>
    leased[p] = {} /\ \A t \in Targets : attempt[p][t].stage = "none"

LeaseInv == OwnersLived /\ TokenIsOurs /\ LostIsLost /\ LeasesListed /\ StoppedIsDone

\* Steps that take no lease: rows keep their owner and token, and none comes to life.
NoLeaseTaken ==
  /\ UNCHANGED life
  /\ \A t \in Targets :
       /\ lease'[t] = NoLease <=> lease[t] = NoLease
       /\ lease[t] # NoLease =>
            /\ lease'[t].owner = lease[t].owner
            /\ lease'[t].token = lease[t].token
            /\ lease'[t].life = "live" => lease[t].life = "live"

\* Every reading was there before, with its token, and found its lease lost only if it is.
NoReadingBegun ==
  \A r \in readings' : \E q \in readings :
    /\ q.proc = r.proc /\ q.target = r.target /\ q.token = r.token
    /\ r.state = "lost" => q.state = "lost" \/ ~OwnLive(r.proc, r.target)

LEMMA NothingTaken ==
  ASSUME SchedulerInv, LeaseInv, NoLeaseTaken, NoReadingBegun
  PROVE  /\ OwnersLived' /\ TokenIsOurs' /\ LostIsLost'
         /\ \A p \in Procs, t \in Targets : OwnLive(p, t)' => OwnLive(p, t)
<1>1. \A p \in Procs, t \in Targets : OwnsRow(p, t)' => OwnsRow(p, t)
  BY DEF NoLeaseTaken, OwnsRow, Owner
<1>2. \A p \in Procs, t \in Targets : OwnLive(p, t)' => OwnLive(p, t)
  BY DEF NoLeaseTaken, OwnLive, OwnsRow, Owner
<1>3. OwnersLived'
  BY DEF NoLeaseTaken, LeaseInv, OwnersLived
<1>4. ASSUME NEW p \in Procs, NEW t \in Targets, NEW r \in ReadingsOf(p, t)'
      PROVE  /\ OwnsRow(p, t)' => lease'[t].token = r.token
             /\ r.state = "lost" => ~OwnLive(p, t)'
  <2>1. r \in readings' /\ r.proc = p /\ r.target = t
    BY DEF ReadingsOf
  <2>2. PICK q \in readings :
          /\ q.proc = r.proc /\ q.target = r.target /\ q.token = r.token
          /\ r.state = "lost" => q.state = "lost" \/ ~OwnLive(r.proc, r.target)
    BY <2>1 DEF NoReadingBegun
  <2>3. q \in ReadingsOf(p, t)
    BY <2>1, <2>2 DEF ReadingsOf
  <2>4. OwnsRow(p, t) => lease[t].token = r.token
    BY <2>2, <2>3 DEF LeaseInv, TokenIsOurs
  <2>5. r.state = "lost" => ~OwnLive(p, t)
    BY <2>1, <2>2, <2>3 DEF LeaseInv, LostIsLost
  <2>6. OwnsRow(p, t)' => lease'[t].token = lease[t].token
    BY <1>1 DEF NoLeaseTaken, OwnsRow
  <2> QED  BY <1>1, <1>2, <2>4, <2>5, <2>6
<1>5. TokenIsOurs'
  BY <1>4 DEF TokenIsOurs
<1>6. LostIsLost'
  BY <1>4 DEF LostIsLost
<1> QED  BY <1>2, <1>3, <1>5, <1>6

\* Steps that leave the leases and the list alone, and begin nothing once stopped.
PlainStep ==
  /\ UNCHANGED <<lease, life, leased, scheduler>>
  /\ NoReadingBegun
  /\ \A p \in Procs, t \in Targets :
       scheduler[p] = "stopped" /\ attempt[p][t].stage = "none" => attempt'[p][t].stage = "none"

LEMMA PlainKept ==
  ASSUME SchedulerInv, LeaseInv, PlainStep
  PROVE  LeaseInv'
<1>1. NoLeaseTaken
  BY DEF PlainStep, NoLeaseTaken
<1>2. /\ OwnersLived' /\ TokenIsOurs' /\ LostIsLost'
      /\ \A p \in Procs, t \in Targets : OwnLive(p, t)' => OwnLive(p, t)
  BY <1>1, NothingTaken DEF PlainStep
<1>3. LeasesListed'
  BY <1>2 DEF PlainStep, LeaseInv, LeasesListed
<1>4. StoppedIsDone'
  BY DEF PlainStep, LeaseInv, StoppedIsDone
<1> QED  BY <1>2, <1>3, <1>4 DEF LeaseInv

LEMMA SameReadings ==
  ASSUME readings' \subseteq readings
  PROVE  NoReadingBegun
BY DEF NoReadingBegun

LEMMA AttemptPlain ==
  ASSUME SchedulerInv, LeaseInv, NEW p \in Procs, NEW t \in Targets,
         \/ AddTarget(p, t) \/ Launch(p, t) \/ WaitForLease(p, t) \/ Postpone(p, t)
         \/ MeetDeadline(p, t) \/ ReportFailure(p, t) \/ GiveUp(p, t) \/ Unwind(p, t)
  PROVE  LeaseInv'
<1>1. TypeOK /\ PairInv(p, t)
  BY DEF SchedulerInv
<1>2. UNCHANGED <<lease, life, leased, scheduler>>
  BY DEF AddTarget, Launch, WaitForLease, Postpone, MeetDeadline, ReportFailure, GiveUp, Unwind
<1>3. NoReadingBegun
  <2>1. CASE readings' \subseteq readings
    BY <2>1, SameReadings
  <2>2. ASSUME NEW debt \in {"finish", "release"}, Leave(p, t, debt),
               attempt[p][t].stage \in ReadingStages
        PROVE  NoReadingBegun
    <3>1. Own(p, t) \in Reading /\ Own(p, t) \in readings
      BY <1>1, <2>2, OwnReading DEF ReadingsOf
    <3> DEFINE left == IF attempt[p][t].admitted THEN debt ELSE "nothing"
               l == [Own(p, t) EXCEPT !.left = left]
    <3>2. readings' = (readings \ {Own(p, t)}) \cup {l}
      BY <2>2 DEF Leave
    <3> HIDE DEF left
    <3>3. /\ l.proc = Own(p, t).proc /\ l.target = Own(p, t).target
          /\ l.token = Own(p, t).token /\ l.state = Own(p, t).state
      BY <3>1 DEF Reading
    <3> HIDE DEF l
    <3> QED  BY <3>1, <3>2, <3>3 DEF NoReadingBegun
  <2>3. "finish" \in {"finish", "release"} /\ "release" \in {"finish", "release"}
    OBVIOUS
  <2>4. CASE GiveUp(p, t)
    BY <2>2, <2>3, <2>4 DEF GiveUp, At, ReadingStages
  <2>5. CASE Unwind(p, t)
    <3>1. attempt[p][t] \in Attempt
      BY <1>1, PairTypes
    <3>2. readings' \subseteq readings \/ (Leave(p, t, "finish") /\ attempt[p][t].stage \in ReadingStages)
      BY <2>5, <3>1 DEF Unwind, Attempt, Stages, ReadingStages
    <3> QED  BY <2>1, <2>2, <2>3, <3>2
  <2>6. CASE ~GiveUp(p, t) /\ ~Unwind(p, t)
    BY <2>1, <2>6 DEF AddTarget, Launch, WaitForLease, Postpone, MeetDeadline, ReportFailure
  <2> QED  BY <2>4, <2>5, <2>6
<1>4. ASSUME NEW q \in Procs, NEW u \in Targets, scheduler[q] = "stopped",
             attempt[q][u].stage = "none"
      PROVE  attempt'[q][u].stage = "none"
  <2>1. CASE AddTarget(p, t) \/ UNCHANGED attempt
    BY <1>4, <2>1 DEF AddTarget
  <2>2. CASE Launch(p, t)
    <3>1. q # p
      BY <1>4, <2>2 DEF Launch, MayLaunch
    <3> QED  BY <1>1, <1>4, <2>2, <3>1 DEF Launch, SetAttempt, TypeOK
  <2>3. CASE SetAttempt(p, t, NoAttempt)
    BY <1>1, <1>4, <2>3, NoAttemptFacts, SetAttemptKept
  <2>4. CASE MeetDeadline(p, t) \/ ReportFailure(p, t)
    <3>1. attempt[p][t].stage = "reading"
      BY <2>4 DEF MeetDeadline, ReportFailure, At
    <3>2. q # p \/ u # t
      BY <1>4, <3>1
    <3> QED  BY <1>1, <1>4, <2>4, <3>2 DEF MeetDeadline, ReportFailure, TypeOK
  <2> QED  BY <2>1, <2>2, <2>3, <2>4 DEF WaitForLease, Postpone, GiveUp, Unwind
<1> QED  BY <1>2, <1>3, <1>4, PlainKept DEF PlainStep

LEMMA OtherPlain ==
  ASSUME SchedulerInv, LeaseInv,
         \/ \E p \in Procs, t \in Targets : OtherStep(p, t)
         \/ \E r \in readings : ReadingStep(r)
         \/ UNCHANGED vars
  PROVE  LeaseInv'
<1>1. UNCHANGED <<lease, life, leased, scheduler, attempt>>
  BY DEF OtherStep, ReaderBegins, ReaderEnds, Forget, TunnelFails, WaitOver,
         ReadingStep, Write, Return, ReturnLeft, vars
<1>2. CASE readings' \subseteq readings
  BY <1>1, <1>2, SameReadings, PlainKept DEF PlainStep
<1>3. ASSUME NEW r \in readings, NEW o \in Outcomes(r), Return(r, o)
      PROVE  LeaseInv'
  <2>1. r \in Reading /\ r.proc \in Procs /\ r.target \in Targets
        /\ r.token = fence[r.proc][r.target] /\ r \in ReadingsOf(r.proc, r.target)
    BY ReadingFacts
  <2> DEFINE l == [r EXCEPT !.state = o]
  <2>2. readings' = (readings \ {r}) \cup {l}
    BY <1>3 DEF Return
  <2>3. l.proc = r.proc /\ l.target = r.target /\ l.token = r.token /\ l.state = o
    BY <2>1 DEF Reading
  <2> HIDE DEF l
  <2>4. o = "lost" => ~OwnLive(r.proc, r.target)
    <3>1. SUFFICES ASSUME o = "lost", OwnLive(r.proc, r.target) PROVE FALSE
      OBVIOUS
    <3>2. ~FenceHolds(r.proc, r.target, r.token)
      BY <2>1, <3>1 DEF Outcomes
    <3>3. lease[r.target].token = r.token
      BY <2>1, <3>1 DEF OwnLive, LeaseInv, TokenIsOurs
    <3> QED  BY <3>1, <3>2, <3>3 DEF OwnLive, FenceHolds
  <2>5. NoReadingBegun
    BY <2>2, <2>3, <2>4 DEF NoReadingBegun
  <2> QED  BY <1>1, <2>5, PlainKept DEF PlainStep
<1>4. ASSUME NEW p \in Procs, NEW t \in Targets, OtherStep(p, t)
      PROVE  readings' \subseteq readings
  BY <1>4 DEF OtherStep, ReaderBegins, ReaderEnds, Forget, TunnelFails, WaitOver
<1>5. ASSUME NEW r \in readings, Write(r) \/ ReturnLeft(r)
      PROVE  readings' \subseteq readings
  BY <1>5 DEF Write, ReturnLeft
<1>6. CASE UNCHANGED vars
  BY <1>2, <1>6 DEF vars
<1> QED  BY <1>2, <1>3, <1>4, <1>5, <1>6 DEF ReadingStep

\* A reading that lost its lease has none, so an attempt that forfeits it forgets nothing.
LEMMA SettleLeases ==
  ASSUME SchedulerInv, LeaseInv, NEW p \in Procs, NEW t \in Targets, Settle(p, t)
  PROVE  LeaseInv'
<1>1. TypeOK /\ PairInv(p, t)
  BY DEF SchedulerInv
<1>2. attempt[p][t].stage \in ReadingStages /\ Own(p, t) \in ReadingsOf(p, t)
  BY <1>1, OwnReading DEF Settle, At, ReadingStages
<1>3. /\ UNCHANGED <<lease, life, scheduler>> /\ SetAttempt(p, t, NoAttempt)
      /\ readings' \subseteq readings
      /\ leased' = IF Forfeits(p, t) THEN [leased EXCEPT ![p] = @ \ {t}] ELSE leased
  BY DEF Settle
<1>4. /\ OwnersLived' /\ TokenIsOurs' /\ LostIsLost'
      /\ \A q \in Procs, u \in Targets : OwnLive(q, u)' => OwnLive(q, u)
  BY <1>3, SameReadings, NothingTaken DEF NoLeaseTaken
<1>5. Forfeits(p, t) => ~OwnLive(p, t)
  BY <1>2 DEF Forfeits, LeaseInv, LostIsLost
<1>6. LeasesListed'
  <2>1. ASSUME NEW q \in Procs, NEW u \in Targets, OwnLive(q, u)
        PROVE  u \in leased'[q]
    <3>1. u \in leased[q]
      BY <2>1 DEF LeaseInv, LeasesListed
    <3>2. Forfeits(p, t) => q # p \/ u # t
      BY <1>5, <2>1
    <3> QED  BY <1>1, <1>3, <3>1, <3>2 DEF TypeOK
  <2> QED  BY <1>4, <2>1 DEF LeasesListed
<1>7. StoppedIsDone'
  <2>1. \A q \in Procs : leased'[q] \subseteq leased[q]
    BY <1>1, <1>3 DEF TypeOK
  <2>2. \A q \in Procs, u \in Targets : attempt[q][u].stage = "none" => attempt'[q][u].stage = "none"
    BY <1>1, <1>3, NoAttemptFacts, SetAttemptKept
  <2> QED  BY <1>3, <2>1, <2>2 DEF LeaseInv, StoppedIsDone
<1> QED  BY <1>4, <1>6, <1>7 DEF LeaseInv

\* What a process releases, it no longer owns alive.
LEMMA Released ==
  ASSUME SchedulerInv, NEW p \in Procs, NEW names, ReleaseLeases(p, names), UNCHANGED life
  PROVE  /\ NoLeaseTaken
         /\ \A t \in names \cap Targets : ~OwnLive(p, t)'
<1>1. TypeOK
  BY DEF SchedulerInv
<1>2. NoLeaseTaken
  BY <1>1, ReleaseTypes DEF NoLeaseTaken
<1>3. ASSUME NEW t \in Targets, t \in names, OwnLive(p, t)' PROVE FALSE
  <2>1. lease'[t] # NoLease /\ lease'[t].owner = Owner(p) /\ lease'[t].life = "live"
    BY <1>3 DEF OwnLive, OwnsRow, Owner
  <2>2. lease[t] # NoLease /\ lease[t].owner = Owner(p)
    BY <1>2, <2>1 DEF NoLeaseTaken
  <2>3. lease'[t].life = "released"
    BY <1>1, <1>3, <2>2, ReleaseTypes DEF OwnsRow
  <2> QED  BY <2>1, <2>3
<1> QED  BY <1>2, <1>3

LEMMA RemoveLeases ==
  ASSUME SchedulerInv, LeaseInv, NEW p \in Procs, NEW t \in Targets, RemoveTarget(p, t)
  PROVE  LeaseInv'
<1>1. TypeOK
  BY DEF SchedulerInv
<1>2. /\ UNCHANGED <<life, scheduler, readings>> /\ scheduler[p] = "on"
      /\ leased' = [leased EXCEPT ![p] = @ \ {t}]
      /\ IF t \in leased[p] THEN ReleaseLeases(p, {t}) ELSE UNCHANGED lease
  BY DEF RemoveTarget
<1>3. NoLeaseTaken /\ ~OwnLive(p, t)'
  <2>1. CASE t \in leased[p]
    BY <1>2, <2>1, Released
  <2>2. CASE t \notin leased[p]
    <3>1. ~OwnLive(p, t)
      BY <2>2 DEF LeaseInv, LeasesListed
    <3> QED  BY <1>2, <2>2, <3>1 DEF NoLeaseTaken, OwnLive, OwnsRow, Owner
  <2> QED  BY <2>1, <2>2
<1>4. /\ OwnersLived' /\ TokenIsOurs' /\ LostIsLost'
      /\ \A q \in Procs, u \in Targets : OwnLive(q, u)' => OwnLive(q, u)
  BY <1>2, <1>3, SameReadings, NothingTaken
<1>5. LeasesListed'
  <2>1. ASSUME NEW q \in Procs, NEW u \in Targets, OwnLive(q, u)'
        PROVE  u \in leased'[q]
    <3>1. u \in leased[q]
      BY <1>4, <2>1 DEF LeaseInv, LeasesListed
    <3>2. q # p \/ u # t
      BY <1>3, <2>1
    <3> QED  BY <1>1, <1>2, <3>1, <3>2 DEF TypeOK
  <2> QED  BY <2>1 DEF LeasesListed
<1>6. StoppedIsDone'
  <2>1. ASSUME NEW q \in Procs, scheduler[q] = "stopped"
        PROVE  leased'[q] = {} /\ \A u \in Targets : attempt'[q][u].stage = "none"
    <3>1. q # p
      BY <1>2, <2>1
    <3>2. leased'[q] = leased[q] /\ attempt'[q] = attempt[q]
      BY <1>1, <1>2, <3>1 DEF RemoveTarget, TypeOK
    <3> QED  BY <2>1, <3>2 DEF LeaseInv, StoppedIsDone
  <2> QED  BY <1>2, <2>1 DEF StoppedIsDone
<1> QED  BY <1>4, <1>5, <1>6 DEF LeaseInv

LEMMA ProcessLeases ==
  ASSUME SchedulerInv, LeaseInv, NEW p \in Procs, Start(p) \/ Stop(p) \/ Stopped(p)
  PROVE  LeaseInv'
<1>1. TypeOK
  BY DEF SchedulerInv
<1>2. CASE Start(p) \/ Stop(p)
  <2>1. UNCHANGED <<lease, life, leased, readings>>
    BY <1>2 DEF Start, Stop
  <2>2. /\ OwnersLived' /\ TokenIsOurs' /\ LostIsLost'
        /\ \A q \in Procs, u \in Targets : OwnLive(q, u)' => OwnLive(q, u)
    BY <2>1, SameReadings, NothingTaken DEF NoLeaseTaken
  <2>3. LeasesListed'
    BY <2>1, <2>2 DEF LeaseInv, LeasesListed
  <2>4. ASSUME NEW q \in Procs, scheduler'[q] = "stopped"
        PROVE  leased'[q] = {} /\ \A u \in Targets : attempt'[q][u].stage = "none"
    <3>1. q # p
      BY <1>1, <1>2, <2>4 DEF Start, Stop, TypeOK
    <3>2. scheduler[q] = "stopped" /\ attempt'[q] = attempt[q]
      BY <1>1, <1>2, <2>4, <3>1 DEF Start, Stop, TypeOK
    <3> QED  BY <2>1, <3>2 DEF LeaseInv, StoppedIsDone
  <2>5. StoppedIsDone'
    BY <2>4 DEF StoppedIsDone
  <2> QED  BY <2>2, <2>3, <2>5 DEF LeaseInv
<1>3. CASE Stopped(p)
  <2>1. /\ ReleaseLeases(p, leased[p]) /\ UNCHANGED <<life, attempt, readings>>
        /\ leased' = [leased EXCEPT ![p] = {}]
        /\ scheduler' = [scheduler EXCEPT ![p] = "stopped"]
        /\ \A t \in Targets : attempt[p][t].stage = "none"
    BY <1>3 DEF Stopped
  <2>2. NoLeaseTaken /\ \A t \in leased[p] \cap Targets : ~OwnLive(p, t)'
    BY <2>1, Released
  <2>3. /\ OwnersLived' /\ TokenIsOurs' /\ LostIsLost'
        /\ \A q \in Procs, u \in Targets : OwnLive(q, u)' => OwnLive(q, u)
    BY <2>1, <2>2, SameReadings, NothingTaken
  <2>4. LeasesListed'
    <3>1. ASSUME NEW q \in Procs, NEW u \in Targets, OwnLive(q, u)'
          PROVE  u \in leased'[q]
      <4>1. u \in leased[q]
        BY <2>3, <3>1 DEF LeaseInv, LeasesListed
      <4>2. q # p
        BY <2>2, <3>1, <4>1
      <4> QED  BY <1>1, <2>1, <4>1, <4>2 DEF TypeOK
    <3> QED  BY <3>1 DEF LeasesListed
  <2>5. StoppedIsDone'
    BY <1>1, <2>1 DEF LeaseInv, StoppedIsDone, TypeOK
  <2> QED  BY <2>3, <2>4, <2>5 DEF LeaseInv
<1> QED  BY <1>2, <1>3

\* The next life of a process owns none of the rows of the last one.
LEMMA DieLeases ==
  ASSUME SchedulerInv, LeaseInv, NEW p \in Procs, Die(p)
  PROVE  LeaseInv'
<1>1. TypeOK
  BY DEF SchedulerInv
<1>2. /\ lease' = lease /\ life' = [life EXCEPT ![p] = @ + 1]
      /\ scheduler' = [scheduler EXCEPT ![p] = "off"]
      /\ leased' = [leased EXCEPT ![p] = {}]
      /\ readings' \subseteq readings
      /\ \A q \in Procs : q # p => attempt'[q] = attempt[q]
  BY <1>1 DEF Die, TypeOK
<1>3. life'[p] = life[p] + 1 /\ life[p] \in Nat /\ \A q \in Procs : q # p => life'[q] = life[q]
  BY <1>1, <1>2 DEF TypeOK
<1>4. ASSUME NEW t \in Targets, lease[t] # NoLease
      PROVE  /\ lease[t].owner[1] \in Procs /\ lease[t].owner[2] \in Nat
             /\ lease[t].owner[2] <= life[lease[t].owner[1]]
  <2>1. lease[t] \in LeaseRow
    BY <1>1, <1>4 DEF TypeOK
  <2> QED  BY <1>4, <2>1 DEF LeaseRow, Owners, LeaseInv, OwnersLived
<1>5. OwnersLived'
  <2>1. ASSUME NEW t \in Targets, lease[t] # NoLease
        PROVE  lease[t].owner[2] <= life'[lease[t].owner[1]]
    <3>1. CASE lease[t].owner[1] = p
      BY <1>3, <1>4, <2>1, <3>1
    <3>2. CASE lease[t].owner[1] # p
      BY <1>3, <1>4, <2>1, <3>2
    <3> QED  BY <3>1, <3>2
  <2> QED  BY <1>2, <2>1 DEF OwnersLived
<1>6. \A t \in Targets : ~OwnsRow(p, t)'
  <2>1. ASSUME NEW t \in Targets, lease[t] # NoLease, lease[t].owner = <<p, life'[p]>>
        PROVE  FALSE
    <3>1. lease[t].owner[1] = p /\ lease[t].owner[2] = life[p] + 1
      BY <1>3, <2>1
    <3> QED  BY <1>3, <1>4, <2>1, <3>1
  <2> QED  BY <1>2, <2>1 DEF OwnsRow, Owner
<1>7. \A q \in Procs, t \in Targets : q # p => (OwnsRow(q, t)' <=> OwnsRow(q, t))
  BY <1>2, <1>3 DEF OwnsRow, Owner
<1>8. \A q \in Procs, t \in Targets : ReadingsOf(q, t)' \subseteq ReadingsOf(q, t)
  BY <1>2 DEF ReadingsOf
<1>9. TokenIsOurs'
  BY <1>2, <1>6, <1>7, <1>8 DEF LeaseInv, TokenIsOurs
<1>10. \A q \in Procs, t \in Targets : OwnLive(q, t)' => q # p /\ OwnLive(q, t)
  BY <1>2, <1>6, <1>7 DEF OwnLive
<1>11. LostIsLost'
  BY <1>8, <1>10 DEF LeaseInv, LostIsLost
<1>12. LeasesListed'
  BY <1>1, <1>2, <1>10 DEF LeaseInv, LeasesListed, TypeOK
<1>13. StoppedIsDone'
  BY <1>1, <1>2 DEF LeaseInv, StoppedIsDone, TypeOK
<1> QED  BY <1>5, <1>9, <1>11, <1>12, <1>13 DEF LeaseInv

LEMMA LapseLeases ==
  ASSUME SchedulerInv, LeaseInv, NEW t \in Targets, LeaseLapses(t)
  PROVE  LeaseInv'
<1>1. TypeOK /\ Lapse(t) /\ UNCHANGED <<life, scheduler, attempt, readings, leased>>
  BY DEF SchedulerInv, LeaseLapses, Lapse
<1>2. NoLeaseTaken
  <2>1. \A u \in Targets : lease[u] # NoLease /\ lease'[u].life = "live" => lease[u].life = "live"
    BY <1>1, LapseTypes
  <2> QED  BY <1>1, <2>1, LapseTypes DEF NoLeaseTaken
<1>3. /\ OwnersLived' /\ TokenIsOurs' /\ LostIsLost'
      /\ \A q \in Procs, u \in Targets : OwnLive(q, u)' => OwnLive(q, u)
  BY <1>1, <1>2, SameReadings, NothingTaken
<1> QED  BY <1>1, <1>3 DEF LeaseInv, LeasesListed, StoppedIsDone

LEMMA BeginLeases ==
  ASSUME SchedulerInv, LeaseInv, NEW p \in Procs, NEW t \in Targets, Begin(p, t)
  PROVE  LeaseInv'
<1>1. TypeOK /\ PairInv(p, t)
  BY DEF SchedulerInv
<1> DEFINE r == [proc |-> p, target |-> t, token |-> NextToken(t), state |-> "running",
                 left |-> "no"]
<1>2. /\ UNCHANGED <<life, scheduler>> /\ readings' = readings \cup {r}
      /\ leased' = [leased EXCEPT ![p] = @ \cup {t}]
      /\ attempt[p][t].stage = "launched"
  BY DEF Begin, At
<1>3. r.proc = p /\ r.target = t /\ r.token = NextToken(t) /\ r.state # "lost"
  OBVIOUS
<1> HIDE DEF r
<1>4. AcquireLease(p, t)
  BY DEF Begin
<1>5. /\ lease'[t] = [owner |-> Owner(p), token |-> NextToken(t), life |-> "live"]
      /\ lease'[t] # NoLease
      /\ \A u \in Targets : u # t => lease'[u] = lease[u]
  BY <1>1, <1>4, AcquireTypes
<1>6. lease'[t].owner = Owner(p) /\ lease'[t].token = NextToken(t)
  BY <1>5
<1>7. ReadingsOf(p, t) = {}
  BY <1>1, <1>2 DEF PairInv, Paired
<1>8. \A q \in Procs, u \in Targets : OwnsRow(q, u)' => (q = p /\ u = t) \/ (u # t /\ OwnsRow(q, u))
  BY <1>2, <1>5, <1>6 DEF OwnsRow, Owner
<1>9. \A q \in Procs, u \in Targets :
        OwnLive(q, u)' => (q = p /\ u = t) \/ (u # t /\ OwnLive(q, u))
  BY <1>5, <1>8 DEF OwnLive
<1>10. /\ ReadingsOf(p, t)' = {r}
       /\ \A q \in Procs, u \in Targets : q # p \/ u # t => ReadingsOf(q, u)' = ReadingsOf(q, u)
  BY <1>2, <1>3, <1>7 DEF ReadingsOf
<1>11. OwnersLived'
  <2>1. Owner(p)[1] = p /\ Owner(p)[2] = life[p] /\ life[p] \in Nat
    BY <1>1 DEF Owner, TypeOK
  <2>2. lease'[t].owner[2] <= life'[lease'[t].owner[1]]
    BY <1>2, <1>6, <2>1
  <2> QED  BY <1>2, <1>5, <2>2 DEF LeaseInv, OwnersLived
<1>12. TokenIsOurs'
  <2>1. ASSUME NEW q \in Procs, NEW u \in Targets, OwnsRow(q, u)', NEW s \in ReadingsOf(q, u)'
        PROVE  lease'[u].token = s.token
    <3>1. CASE q = p /\ u = t
      BY <1>3, <1>6, <1>10, <2>1, <3>1
    <3>2. CASE ~(q = p /\ u = t)
      BY <1>5, <1>8, <1>10, <2>1, <3>2 DEF LeaseInv, TokenIsOurs
    <3> QED  BY <3>1, <3>2
  <2> QED  BY <2>1 DEF TokenIsOurs
<1>13. LostIsLost'
  <2>1. ASSUME NEW q \in Procs, NEW u \in Targets, NEW s \in ReadingsOf(q, u)', s.state = "lost"
        PROVE  ~OwnLive(q, u)'
    <3>1. CASE q = p /\ u = t
      BY <1>3, <1>10, <2>1, <3>1
    <3>2. CASE ~(q = p /\ u = t)
      BY <1>9, <1>10, <2>1, <3>2 DEF LeaseInv, LostIsLost
    <3> QED  BY <3>1, <3>2
  <2> QED  BY <2>1 DEF LostIsLost
<1>14. LeasesListed'
  BY <1>1, <1>2, <1>9 DEF LeaseInv, LeasesListed, TypeOK
<1>15. StoppedIsDone'
  <2>1. scheduler[p] # "stopped"
    BY <1>2 DEF LeaseInv, StoppedIsDone
  <2>2. \A q \in Procs : q # p => leased'[q] = leased[q] /\ attempt'[q] = attempt[q]
    BY <1>1, <1>2 DEF Begin, SetAttempt, TypeOK
  <2> QED  BY <1>2, <2>1, <2>2 DEF LeaseInv, StoppedIsDone
<1> QED  BY <1>11, <1>12, <1>13, <1>14, <1>15 DEF LeaseInv

LEMMA LeaseStep == SchedulerInv /\ LeaseInv /\ [Next]_vars => LeaseInv'
<1> SUFFICES ASSUME SchedulerInv, LeaseInv, [Next]_vars PROVE LeaseInv'
  OBVIOUS
<1>1. ASSUME NEW p \in Procs, ProcessStep(p) PROVE LeaseInv'
  BY <1>1, ProcessLeases, DieLeases DEF ProcessStep
<1>2. ASSUME NEW p \in Procs, NEW t \in Targets, TargetStep(p, t) PROVE LeaseInv'
  BY <1>2, AttemptPlain, BeginLeases, SettleLeases, RemoveLeases DEF TargetStep, Proceed
<1> QED  BY <1>1, <1>2, OtherPlain, LapseLeases DEF Next

\* A scheduler that stopped keeps no database from the others: it remembers every lease it took
\* until the lease is lost or given back, and stop() gives back what it remembers.
THEOREM LeasesGoBack == Spec => []LeasesReturned
<1>1. Init => LeaseInv
  BY DEF Init, LeaseInv, OwnersLived, TokenIsOurs, LostIsLost, LeasesListed, StoppedIsDone,
         OwnLive, OwnsRow, ReadingsOf
<1>2. LeaseInv => LeasesReturned
  BY DEF LeaseInv, LeasesListed, StoppedIsDone, LeasesReturned, OwnLive
<1> QED  BY <1>1, <1>2, InvInit, InvStep, LeaseStep, PTL DEF Spec

-----------------------------------------------------------------------------
(* Places                                                                  *)

\* The databases a process has an attempt for, or a reading of.
Engages(p, t) == attempt[p][t].stage # "none" \/ ReadingsOf(p, t) # {}
Engaged(p) == {t \in Targets : Engages(p, t)}

\* Admitted, which launching counts, has one place for each.
SlotInv ==
  \A p \in Procs : IsFiniteSet(Engaged(p)) /\ Cardinality(Engaged(p)) <= GlobalConcurrency

\* A step of one pair that is engaged engages no other.
LEMMA EngagedKept ==
  ASSUME NEW p, NEW t,
         \A r \in readings' : \/ \E q \in readings : q.proc = r.proc /\ q.target = r.target
                              \/ r.proc = p /\ r.target = t /\ Engages(p, t),
         \A q \in Procs, u \in Targets :
           attempt'[q][u].stage # "none" => \/ attempt[q][u].stage # "none"
                                            \/ q = p /\ u = t /\ Engages(p, t)
  PROVE  \A q \in Procs, u \in Targets : Engages(q, u)' => Engages(q, u)
BY DEF Engages, ReadingsOf

\* An attempt goes on, or away with its reading or without it.
LEMMA AttemptEngaged ==
  ASSUME SchedulerInv, NEW p \in Procs, NEW t \in Targets, TargetStep(p, t), ~Launch(p, t)
  PROVE  \A q \in Procs, u \in Targets : Engages(q, u)' => Engages(q, u)
<1>1. TypeOK /\ PairInv(p, t) /\ attempt[p][t] \in Attempt
  BY PairTypes DEF SchedulerInv
<1>2. \A q \in Procs, u \in Targets :
        attempt'[q][u].stage # "none" => \/ attempt[q][u].stage # "none"
                                         \/ q = p /\ u = t /\ Engages(p, t)
  <2>1. CASE SetAttempt(p, t, NoAttempt)
    BY <1>1, <2>1, NoAttemptFacts, SetAttemptKept
  <2>2. CASE At(p, t, "launched") \/ At(p, t, "reading")
    <3>1. Engages(p, t)
      BY <2>2 DEF At, Engages
    <3>2. \A q \in Procs, u \in Targets : q # p \/ u # t => attempt'[q][u] = attempt[q][u]
      BY <1>1, <2>2
         DEF TargetStep, Proceed, AddTarget, RemoveTarget, Launch, Begin, WaitForLease, Postpone,
             MeetDeadline, ReportFailure, Settle, GiveUp, Unwind, SetAttempt, TypeOK
    <3> QED  BY <3>1, <3>2
  <2>3. CASE RemoveTarget(p, t)
    <3>1. \A q \in Procs, u \in Targets : attempt'[q][u].stage = attempt[q][u].stage
      BY <1>1, <2>3 DEF RemoveTarget, TypeOK, Attempt
    <3> QED  BY <3>1
  <2>4. CASE AddTarget(p, t)
    BY <2>4 DEF AddTarget
  <2> QED  BY <2>1, <2>2, <2>3, <2>4
           DEF TargetStep, Proceed, Begin, WaitForLease, Postpone, MeetDeadline, ReportFailure,
               Settle, GiveUp, Unwind
<1>3. \A r \in readings' : \/ \E q \in readings : q.proc = r.proc /\ q.target = r.target
                           \/ r.proc = p /\ r.target = t /\ Engages(p, t)
  <2>1. CASE Begin(p, t)
    BY <2>1 DEF Begin, At, Engages
  <2>2. ASSUME NEW debt, Leave(p, t, debt), attempt[p][t].stage \in ReadingStages
        PROVE  \A r \in readings' : \E q \in readings : q.proc = r.proc /\ q.target = r.target
    <3>1. Own(p, t) \in Reading /\ Own(p, t) \in readings
      BY <1>1, <2>2, OwnReading DEF ReadingsOf
    <3> DEFINE l == [Own(p, t) EXCEPT !.left = IF attempt[p][t].admitted THEN debt ELSE "nothing"]
    <3>2. readings' = (readings \ {Own(p, t)}) \cup {l}
      BY <2>2 DEF Leave
    <3>3. l.proc = Own(p, t).proc /\ l.target = Own(p, t).target
      BY <3>1 DEF Reading
    <3> HIDE DEF l
    <3> QED  BY <3>1, <3>2, <3>3
  <2>3. CASE GiveUp(p, t)
    BY <2>2, <2>3 DEF GiveUp, At, ReadingStages
  <2>4. CASE Unwind(p, t)
    <3>1. readings' \subseteq readings \/ (Leave(p, t, "finish") /\ attempt[p][t].stage \in ReadingStages)
      BY <1>1, <2>4 DEF Unwind, Attempt, Stages, ReadingStages
    <3> QED  BY <2>2, <3>1
  <2>5. CASE readings' \subseteq readings
    BY <2>5
  <2> QED  BY <2>1, <2>3, <2>4, <2>5
           DEF TargetStep, Proceed, AddTarget, RemoveTarget, Launch, WaitForLease, Postpone,
               MeetDeadline, ReportFailure, Settle
<1> QED  BY <1>2, <1>3, EngagedKept

\* Readings end, and schedulers stop and die.
LEMMA OthersEngaged ==
  ASSUME SchedulerInv,
         \/ \E p \in Procs : ProcessStep(p)
         \/ \E p \in Procs, t \in Targets : OtherStep(p, t)
         \/ \E r \in readings : ReadingStep(r)
         \/ \E t \in Targets : LeaseLapses(t)
         \/ UNCHANGED vars
  PROVE  \A q \in Procs, u \in Targets : Engages(q, u)' => Engages(q, u)
<1>1. TypeOK
  BY DEF SchedulerInv
<1>2. ASSUME \A r \in readings' : \E q \in readings : q.proc = r.proc /\ q.target = r.target,
             \A q \in Procs, u \in Targets : attempt'[q][u].stage # "none" => attempt[q][u].stage # "none"
      PROVE  \A q \in Procs, u \in Targets : Engages(q, u)' => Engages(q, u)
  BY <1>2, EngagedKept
<1>3. ASSUME NEW p \in Procs, ProcessStep(p)
      PROVE  \A q \in Procs, u \in Targets : Engages(q, u)' => Engages(q, u)
  <2>1. readings' \subseteq readings
    BY <1>3 DEF ProcessStep, Start, Stop, Stopped, Die
  <2>2. CASE Stop(p)
    <3>1. \A q \in Procs, u \in Targets : attempt'[q][u].stage = attempt[q][u].stage
      BY <1>1, <2>2 DEF Stop, TypeOK, Attempt
    <3> QED  BY <1>2, <2>1, <3>1
  <2>3. CASE Die(p)
    <3>1. \A q \in Procs, u \in Targets : attempt'[q][u].stage \in {"none", attempt[q][u].stage}
      BY <1>1, <2>3 DEF Die, TypeOK, NoAttempt
    <3> QED  BY <1>2, <2>1, <3>1
  <2>4. CASE Start(p) \/ Stopped(p)
    BY <1>2, <2>1, <2>4 DEF Start, Stopped
  <2> QED  BY <1>3, <2>2, <2>3, <2>4 DEF ProcessStep
<1>4. ASSUME NEW r \in readings, NEW outcome \in Outcomes(r), Return(r, outcome)
      PROVE  \A q \in Procs, u \in Targets : Engages(q, u)' => Engages(q, u)
  <2> DEFINE l == [r EXCEPT !.state = outcome]
  <2>1. readings' = (readings \ {r}) \cup {l} /\ attempt' = attempt
    BY <1>4 DEF Return
  <2>2. l.proc = r.proc /\ l.target = r.target
    BY <1>1 DEF TypeOK, Reading
  <2> HIDE DEF l
  <2> QED  BY <1>2, <2>1, <2>2
<1>5. ASSUME readings' \subseteq readings, attempt' = attempt
      PROVE  \A q \in Procs, u \in Targets : Engages(q, u)' => Engages(q, u)
  BY <1>2, <1>5
<1>6. ASSUME NEW p \in Procs, NEW t \in Targets, OtherStep(p, t)
      PROVE  readings' \subseteq readings /\ attempt' = attempt
  BY <1>6 DEF OtherStep, ReaderBegins, ReaderEnds, Forget, TunnelFails, WaitOver
<1>7. ASSUME NEW r \in readings, Write(r) \/ ReturnLeft(r)
      PROVE  readings' \subseteq readings /\ attempt' = attempt
  BY <1>7 DEF Write, ReturnLeft
<1>8. ASSUME NEW t \in Targets, LeaseLapses(t) \/ UNCHANGED vars
      PROVE  readings' \subseteq readings /\ attempt' = attempt
  BY <1>8 DEF LeaseLapses, vars
<1>9. CASE UNCHANGED vars
  BY <1>5, <1>9 DEF vars
<1> QED  BY <1>3, <1>4, <1>5, <1>6, <1>7, <1>8, <1>9 DEF ReadingStep


\* Admitted has a place for every database that is engaged.
LEMMA EngagedAdmitted ==
  ASSUME SchedulerInv, NEW p \in Procs, IsFiniteSet(Engaged(p))
  PROVE  Cardinality(Engaged(p)) <= Cardinality(Admitted(p)) /\ IsFiniteSet(Admitted(p))
<1> DEFINE place == [t \in Engaged(p) |-> <<t, IF attempt[p][t].stage # "none" THEN "attempt" ELSE "left">>]
<1>1. ASSUME NEW t \in Engaged(p)
      PROVE  place[t] \in Admitted(p) /\ place[t][1] = t
  <2>1. t \in Targets /\ PairInv(p, t) /\ Engages(p, t)
    BY DEF Engaged, SchedulerInv
  <2>2. CASE attempt[p][t].stage # "none"
    BY <2>1, <2>2 DEF Admitted
  <2>3. CASE attempt[p][t].stage = "none"
    <3>1. PICK r \in ReadingsOf(p, t) : TRUE
      BY <2>1, <2>3 DEF Engages
    <3>2. r.left # "no"
      BY <2>1, <2>3 DEF PairInv, Paired, ReadingStages
    <3>3. <<t, "left">> \in Admitted(p)
      BY <3>1, <3>2 DEF Admitted, ReadingsOf
    <3> QED  BY <2>3, <3>3
  <2> QED  BY <2>2, <2>3
<1>2. place \in Injection(Engaged(p), Admitted(p))
  <2>1. place \in [Engaged(p) -> Admitted(p)]
    BY <1>1
  <2>2. \A t, u \in Engaged(p) : place[t] = place[u] => t = u
    BY <1>1
  <2> HIDE DEF place
  <2> QED  BY <2>1, <2>2 DEF Injection, IsInjective
<1>3. IsFiniteSet(Admitted(p))
  <2>1. IsFiniteSet({"attempt"})
    BY FS_Singleton
  <2>2. IsFiniteSet({"attempt", "left"})
    <3>1. IsFiniteSet({"attempt"} \cup {"left"})
      BY <2>1, FS_AddElement
    <3>2. {"attempt"} \cup {"left"} = {"attempt", "left"}
      OBVIOUS
    <3> QED  BY <3>1, <3>2
  <2>3. Admitted(p) \subseteq Engaged(p) \X {"attempt", "left"}
    BY DEF Admitted, Engaged, Engages, ReadingsOf, SchedulerInv, TypeOK, Reading
  <2> QED  BY <2>2, <2>3, FS_Product, FS_Subset
<1> QED  BY <1>2, <1>3, FS_Injection

\* A process that has its readings in engaged databases has no more of them.
LEMMA EngagedReads ==
  ASSUME SchedulerInv, NEW p \in Procs, IsFiniteSet(Engaged(p))
  PROVE  LET running == {r \in readings : r.proc = p /\ r.state = "running"}
         IN  IsFiniteSet(running) /\ Cardinality(running) <= Cardinality(Engaged(p))
<1> DEFINE running == {r \in readings : r.proc = p /\ r.state = "running"}
           where == [r \in running |-> r.target]
<1>1. where \in [running -> Engaged(p)]
  BY ReadingFacts DEF Engaged, Engages
<1>2. \A r, q \in running : where[r] = where[q] => r = q
  <2>1. ASSUME NEW r \in running, NEW q \in running, r.target = q.target
        PROVE  r = q
    <3>1. ReadingsOf(p, r.target) = {r} /\ ReadingsOf(p, q.target) = {q}
      BY ReadingFacts
    <3> QED  BY <2>1, <3>1
  <2> QED  BY <2>1
<1>3. where \in Injection(running, Engaged(p))
  <2> HIDE DEF where, running
  <2> QED  BY <1>1, <1>2 DEF Injection, IsInjective
<1> QED  BY <1>3, FS_Injection

LEMMA SlotStep == SchedulerInv /\ SlotInv /\ [Next]_vars => SlotInv'
<1> SUFFICES ASSUME SchedulerInv, SlotInv, [Next]_vars, NEW q \in Procs
             PROVE  IsFiniteSet(Engaged(q)') /\ Cardinality(Engaged(q)') <= GlobalConcurrency
  BY DEF SlotInv
<1>1. IsFiniteSet(Engaged(q)) /\ Cardinality(Engaged(q)) <= GlobalConcurrency
  BY DEF SlotInv
<1>2. Cardinality(Engaged(q)) \in Nat /\ GlobalConcurrency \in Nat
  BY <1>1, FS_CardinalityType, ConcurrencyAssumption
<1>3. ASSUME Engaged(q)' \subseteq Engaged(q)
      PROVE  IsFiniteSet(Engaged(q)') /\ Cardinality(Engaged(q)') <= GlobalConcurrency
  <2>1. IsFiniteSet(Engaged(q)') /\ Cardinality(Engaged(q)') <= Cardinality(Engaged(q))
    BY <1>1, <1>3, FS_Subset
  <2>2. Cardinality(Engaged(q)') \in Nat
    BY <2>1, FS_CardinalityType
  <2> QED  BY <1>1, <1>2, <2>1, <2>2
<1>4. ASSUME NEW p \in Procs, NEW t \in Targets, Launch(p, t)
      PROVE  IsFiniteSet(Engaged(q)') /\ Cardinality(Engaged(q)') <= GlobalConcurrency
  <2>1. /\ \A u \in Targets : q # p \/ u # t => attempt'[q][u] = attempt[q][u]
        /\ readings' = readings
    BY <1>4 DEF Launch, SetAttempt, SchedulerInv, TypeOK
  <2>2. \A u \in Targets : q # p \/ u # t => (Engages(q, u)' <=> Engages(q, u))
    BY <2>1 DEF Engages, ReadingsOf
  <2>3. CASE q # p
    BY <1>3, <2>2, <2>3 DEF Engaged
  <2>4. CASE q = p
    <3>1. Cardinality(Engaged(p)) <= Cardinality(Admitted(p)) /\ IsFiniteSet(Admitted(p))
      BY <1>1, <2>4, EngagedAdmitted
    <3>2. Cardinality(Admitted(p)) < GlobalConcurrency
      BY <1>4 DEF Launch, MayLaunch
    <3>3. Cardinality(Engaged(q)) < GlobalConcurrency
      BY <1>2, <2>4, <3>1, <3>2, FS_CardinalityType
    <3>4. Engaged(q)' \subseteq Engaged(q) \cup {t}
      BY <2>2 DEF Engaged
    <3>5. /\ IsFiniteSet(Engaged(q) \cup {t})
          /\ Cardinality(Engaged(q) \cup {t}) <= Cardinality(Engaged(q)) + 1
      <4>1. /\ IsFiniteSet(Engaged(q) \cup {t})
            /\ Cardinality(Engaged(q) \cup {t}) =
                 IF t \in Engaged(q) THEN Cardinality(Engaged(q)) ELSE Cardinality(Engaged(q)) + 1
        BY <1>1, FS_AddElement
      <4> HIDE DEF Engaged
      <4> QED  BY <1>2, <4>1
    <3>6. /\ IsFiniteSet(Engaged(q)')
          /\ Cardinality(Engaged(q)') <= Cardinality(Engaged(q) \cup {t})
      BY <3>4, <3>5, FS_Subset
    <3>7. Cardinality(Engaged(q)') \in Nat /\ Cardinality(Engaged(q) \cup {t}) \in Nat
      BY <3>5, <3>6, FS_CardinalityType
    <3> QED  BY <1>2, <3>3, <3>5, <3>6, <3>7
  <2> QED  BY <2>3, <2>4
<1>5. ASSUME \A p \in Procs, u \in Targets : Engages(p, u)' => Engages(p, u)
      PROVE  Engaged(q)' \subseteq Engaged(q)
  BY <1>5 DEF Engaged
<1> QED  BY <1>3, <1>4, <1>5, AttemptEngaged, OthersEngaged DEF Next

\* A process never reads more databases at once than it has places for, however many of its
\* attempts were cancelled or gave up and left their readings behind (_admitted, GLOBAL_CONCURRENCY).
THEOREM ReadingsHavePlaces == Spec => []ReadingSlotsKept
<1>1. Init => SlotInv
  <2> SUFFICES ASSUME Init, NEW p \in Procs
               PROVE  IsFiniteSet(Engaged(p)) /\ Cardinality(Engaged(p)) <= GlobalConcurrency
    BY DEF SlotInv
  <2>1. Engaged(p) = {}
    BY DEF Init, Engaged, Engages, ReadingsOf, NoAttempt
  <2> QED  BY <2>1, FS_EmptySet, ConcurrencyAssumption
<1>2. SchedulerInv /\ SlotInv => ReadingSlotsKept
  <2> SUFFICES ASSUME SchedulerInv, SlotInv, NEW p \in Procs
               PROVE  Cardinality({r \in readings : r.proc = p /\ r.state = "running"})
                        <= GlobalConcurrency
    BY DEF ReadingSlotsKept
  <2> DEFINE running == {r \in readings : r.proc = p /\ r.state = "running"}
  <2>1. IsFiniteSet(Engaged(p)) /\ Cardinality(Engaged(p)) <= GlobalConcurrency
    BY DEF SlotInv
  <2>2. IsFiniteSet(running) /\ Cardinality(running) <= Cardinality(Engaged(p))
    BY <2>1, EngagedReads
  <2>3. Cardinality(running) \in Nat /\ Cardinality(Engaged(p)) \in Nat
    BY <2>1, <2>2, FS_CardinalityType
  <2> HIDE DEF running
  <2>4. Cardinality(running) <= GlobalConcurrency
    BY <2>1, <2>2, <2>3, ConcurrencyAssumption
  <2> QED  BY <2>4 DEF running
<1> QED  BY <1>1, <1>2, SlotStep, Invariance, PTL DEF Spec
=============================================================================
