------------------------------ MODULE JobProofs ------------------------------
(***************************************************************************)
(* What waits and what runs in AnalyzeQueue, for every value of its        *)
(* constants: one live job per query, a claim and a place in the day on    *)
(* running jobs only, the limit of running jobs, and measurements that     *)
(* have their database to themselves.                                      *)
(***************************************************************************)
EXTENDS AnalyzeQueueProofs, FiniteSetTheorems

-----------------------------------------------------------------------------
(* How the table may change in one step.                                   *)

\* What the invariants read of a row stays; or it ended; or it went back to waiting.
Stays(old, new) ==
  /\ new.target = old.target /\ new.key = old.key /\ new.state = old.state
  /\ new.owner = old.owner /\ new.started = old.started
  /\ new.mode = old.mode /\ new.firstPass = old.firstPass
PutBack(old, new) ==
  /\ new.target = old.target /\ new.key = old.key
  /\ old.state = "running" /\ new.state = "queued"
  /\ new.owner = NoProc /\ new.started = 0
Calm(old, new) == Stays(old, new) \/ new.state \in Ended \/ PutBack(old, new)

\* Of the day's allowances it takes no more than it did.
Frugal(old, new) ==
  \/ new.started = 0
  \/ old.state = "queued" /\ new.started = old.started
  \/ /\ new.target = old.target /\ new.started = old.started /\ new.reason = old.reason
     /\ new.firstHour = old.firstHour
     /\ SpendsCap(new) => SpendsCap(old)
Quiet(old, new) == Calm(old, new) /\ Frugal(old, new)

\* A table in which no row is new and none began to run; and none spends more.
CalmTable(table) ==
  \A i \in Ids : table[i] # NoRow => jobs[i] # NoRow /\ Calm(jobs[i], table[i])
QuietTable(table) ==
  \A i \in Ids : table[i] # NoRow => jobs[i] # NoRow /\ Quiet(jobs[i], table[i])

\* A row is put in for a query without a live one, waiting or already ended.
Inserted ==
  \E i \in Ids :
    /\ \A j \in Ids \ {i} : jobs'[j] = jobs[j]
    /\ jobs'[i].started = 0
    /\ \/ jobs'[i].state \in Ended
       \/ /\ jobs'[i].state = "queued" /\ jobs'[i].owner = NoProc
          /\ LiveRows(jobs'[i].target, jobs'[i].key) = {}

\* A claim: a quiet table, in which a waiting row starts that its limits and its share of
\* the day's allowance let start.
ClaimedRow(p, t, i, measured, first) ==
  \E table \in [Ids -> Row \cup {NoRow}] :
    /\ QuietTable(table)
    /\ ~Blocked(table, t, measured, first)
    /\ i \in QueuedIn(table, t)
    /\ table[i].reason = "user" \/ WithinAllowance(table, table[i], day)
    /\ jobs[i].state = "running" \/ table[i] = jobs[i]
    /\ jobs' = [table EXCEPT ![i] = Started(table[i], p, day, measured, first)]
Claimed ==
  \E p \in Procs, t \in Targets, i \in Ids : ClaimedRow(p, t, i, execute[t], First(t))

\* A turn-on moves the first hour: it leaves what runs and waits alone.
HourMoved == CalmTable(jobs') /\ \E p \in Procs, t \in Targets : StartHour(p, t)

\* A row that is left as it is.
LEMMA QuietSame == \A row : Quiet(row, row)
BY DEF Quiet, Calm, Stays, Frugal

\* What the operations write into a row of the table.
LEMMA QuietWrites ==
  ASSUME NEW row \in Row
  PROVE  /\ \A clicked : Quiet(row, [row EXCEPT !.clicked = clicked])
         /\ \A reason, clicked : row.state = "queued" =>
              Quiet(row, [row EXCEPT !.reason = reason, !.clicked = clicked])
         /\ \A error : row.state = "running" => Quiet(row, [row EXCEPT !.error = error])
         /\ \A error : row.state = "running" =>
              Quiet(row, [row EXCEPT !.state = "queued", !.started = 0, !.error = error,
                                     !.owner = NoProc])
         /\ Calm(row, [row EXCEPT !.firstHour = FALSE])
<1> USE DEF Quiet, Calm, Frugal, Stays, PutBack
<1>1. \A clicked : Quiet(row, [row EXCEPT !.clicked = clicked])
  BY DEF Row, SpendsCap
<1>2. \A reason, clicked : row.state = "queued" =>
        Quiet(row, [row EXCEPT !.reason = reason, !.clicked = clicked])
  BY DEF Row
<1>3. \A error : row.state = "running" => Quiet(row, [row EXCEPT !.error = error])
  BY DEF Row, SpendsCap
<1>4. \A error : row.state = "running" =>
        Quiet(row, [row EXCEPT !.state = "queued", !.started = 0, !.error = error,
                               !.owner = NoProc])
  BY DEF Row
<1>5. Calm(row, [row EXCEPT !.firstHour = FALSE])
  BY DEF Row
<1> QED  BY <1>1, <1>2, <1>3, <1>4, <1>5

\* A live row that ends.
LEMMA QuietEnds ==
  ASSUME NEW row \in Row, NEW new, row.state \in Live, new.state \in Ended,
         new.target = row.target, new.started = row.started, new.reason = row.reason,
         new.firstHour = row.firstHour
  PROVE  Quiet(row, new)
BY DEF Quiet, Calm, Frugal, SpendsCap, Live

\* What recoveries and the first half of a claim make of a running row.
LEMMA QuietChanges ==
  ASSUME NEW row \in Row, row.state = "running"
  PROVE  Quiet(row, Requeued(row)) /\ \A d : Quiet(row, Recovered(row, d))
<1>1. PutBack(row, Requeued(row)) /\ Requeued(row).started = 0
  BY DEF PutBack, Requeued, Row
<1>2. ASSUME NEW d PROVE Quiet(row, Recovered(row, d))
  <2>1. CASE row.error \in Marked
    <3> DEFINE new == Recovered(row, d)
    <3>1. /\ new.state = "failed" /\ new.started = row.started
          /\ new.reason = row.reason /\ new.firstHour = row.firstHour
          /\ new.target = row.target
      BY <2>1 DEF Recovered, Row
    <3> HIDE DEF new
    <3>2. Quiet(row, new)
      BY <3>1, QuietEnds DEF Live, Ended
    <3> QED  BY <3>2 DEF new
  <2>2. CASE row.error \notin Marked
    <3>1. PutBack(row, Recovered(row, d)) /\ Recovered(row, d).started = 0
      BY <2>2 DEF PutBack, Recovered, Row
    <3> QED  BY <3>1 DEF Quiet, Calm, Frugal
  <2> QED  BY <2>1, <2>2
<1> QED  BY <1>1, <1>2 DEF Quiet, Calm, Frugal

\* A new row.
LEMMA NewRowFields ==
  ASSUME NEW t, NEW k, NEW reason, NEW state, NEW d, NEW first
  PROVE  LET row == NewRow(t, k, reason, state, d, first)
         IN  /\ row.target = t /\ row.key = k /\ row.state = state
             /\ row.owner = NoProc /\ row.started = 0
             /\ [row EXCEPT !.error = "not eligible"].state = state
             /\ [row EXCEPT !.error = "not eligible"].started = 0
BY DEF NewRow

\* The ways an operation writes the table.
LEMMA WritesQuiet ==
  ASSUME StoreTypeOK
  PROVE  /\ \A ids : Delete(ids) => QuietTable(jobs')
         /\ UNCHANGED storeVars => QuietTable(jobs')
         /\ \A i \in Used : \A row : Quiet(jobs[i], row) /\ Update(i, row) => QuietTable(jobs')
<1>1. ASSUME NEW ids, Delete(ids) PROVE QuietTable(jobs')
  BY <1>1, QuietSame DEF Delete, QuietTable
<1>2. ASSUME UNCHANGED storeVars PROVE QuietTable(jobs')
  BY <1>2, QuietSame DEF storeVars, QuietTable
<1>3. ASSUME NEW i \in Used, NEW row, Quiet(jobs[i], row), Update(i, row)
      PROVE  QuietTable(jobs')
  <2>1. i \in Ids /\ jobs[i] # NoRow /\ jobs'[i] = row
    BY <1>3, UsedRows, NoRowAssumption DEF Update, StoreTypeOK
  <2>2. \A j \in Ids \ {i} : jobs'[j] = jobs[j]
    BY <1>3 DEF Update, StoreTypeOK
  <2> QED  BY <1>3, <2>1, <2>2, QuietSame DEF QuietTable
<1> QED  BY <1>1, <1>2, <1>3

\* An insertion for a query that has no live row, or of a row that has ended.
LEMMA InsertRow ==
  ASSUME StoreTypeOK, NEW row, Insert(row), row.started = 0,
         \/ row.state \in Ended
         \/ /\ row.state = "queued" /\ row.owner = NoProc
            /\ LiveRows(row.target, row.key) = {}
  PROVE  Inserted
<1>1. PICK i \in Ids : jobs' = [jobs EXCEPT ![i] = row]
  BY DEF Insert
<1>2. jobs'[i] = row /\ \A j \in Ids \ {i} : jobs'[j] = jobs[j]
  BY <1>1 DEF StoreTypeOK
<1> QED  BY <1>2 DEF Inserted

\* Every operation of the store but a claim leaves the table quiet or puts one row in.
LEMMA EnqueueQuiet ==
  ASSUME StoreTypeOK, NEW t \in Targets, NEW k \in Keys, NEW reason \in Reasons,
         NEW d \in Nat, NEW first \in BOOLEAN, NEW capped \in BOOLEAN
  PROVE  /\ EnqueueAnalysis(t, k, reason, d, first, capped) => QuietTable(jobs') \/ Inserted
         /\ SkipAnalysisOnce(t, k, reason, d, first) => QuietTable(jobs') \/ Inserted
         /\ RecordUserAnalysis(t, k, d, first) => QuietTable(jobs') \/ Inserted
<1>1. \A i \in LiveRows(t, k) : i \in Used /\ jobs[i] \in Row /\ jobs[i].state \in Live
  BY UsedRows DEF LiveRows, RowsOf
<1>2. ASSUME EnqueueAnalysis(t, k, reason, d, first, capped)
      PROVE  QuietTable(jobs') \/ Inserted
  <2>1. ASSUME NEW i \in LiveRows(t, k), jobs[i].state = "queued",
               Update(i, [jobs[i] EXCEPT !.reason = reason,
                                         !.clicked = @ \/ reason = "user"])
        PROVE  QuietTable(jobs')
    <3> DEFINE clicked == jobs[i].clicked \/ reason = "user"
               row == [jobs[i] EXCEPT !.reason = reason, !.clicked = clicked]
    <3>1. Update(i, row)
      BY <2>1
    <3> HIDE DEF clicked
    <3>2. Quiet(jobs[i], row)
      BY <1>1, <2>1, QuietWrites
    <3> HIDE DEF row
    <3> QED  BY <1>1, <3>1, <3>2, WritesQuiet
  <2>2. ASSUME LiveRows(t, k) = {}, Insert(NewRow(t, k, reason, "queued", d, first))
        PROVE  Inserted
    <3> DEFINE row == NewRow(t, k, reason, "queued", d, first)
    <3>1. /\ row.target = t /\ row.key = k /\ row.state = "queued"
          /\ row.owner = NoProc /\ row.started = 0
      BY NewRowFields
    <3> HIDE DEF row
    <3>2. Insert(row)
      BY <2>2 DEF row
    <3> QED  BY <2>2, <3>1, <3>2, InsertRow
  <2>3. UNCHANGED storeVars => QuietTable(jobs')
    BY WritesQuiet
  <2> QED  BY <1>2, <2>1, <2>2, <2>3 DEF EnqueueAnalysis
<1>3. ASSUME SkipAnalysisOnce(t, k, reason, d, first)
      PROVE  QuietTable(jobs') \/ Inserted
  <2>1. ASSUME NEW i \in LiveRows(t, k),
               Update(i, [jobs[i] EXCEPT !.state = "skipped", !.finished = d,
                                         !.error = "not eligible"])
        PROVE  QuietTable(jobs')
    <3> DEFINE row == [jobs[i] EXCEPT !.state = "skipped", !.finished = d,
                                      !.error = "not eligible"]
    <3>1. /\ row.state = "skipped" /\ row.started = jobs[i].started
          /\ row.reason = jobs[i].reason /\ row.firstHour = jobs[i].firstHour
          /\ row.target = jobs[i].target
      BY <1>1 DEF Row
    <3>2. Update(i, row)
      BY <2>1
    <3> HIDE DEF row
    <3>3. Quiet(jobs[i], row)
      BY <1>1, <3>1, QuietEnds DEF Ended
    <3> QED  BY <1>1, <3>2, <3>3, WritesQuiet
  <2>2. ASSUME Insert([NewRow(t, k, reason, "skipped", d, first) EXCEPT !.error = "not eligible"])
        PROVE  Inserted
    <3> DEFINE row == [NewRow(t, k, reason, "skipped", d, first) EXCEPT !.error = "not eligible"]
    <3>1. row.state = "skipped" /\ row.started = 0
      BY NewRowFields
    <3> HIDE DEF row
    <3>2. Insert(row)
      BY <2>2 DEF row
    <3> QED  BY <3>1, <3>2, InsertRow DEF Ended
  <2>3. UNCHANGED storeVars => QuietTable(jobs')
    BY WritesQuiet
  <2> QED  BY <1>3, <2>1, <2>2, <2>3 DEF SkipAnalysisOnce
<1>4. ASSUME RecordUserAnalysis(t, k, d, first) PROVE Inserted
  <2> DEFINE row == NewRow(t, k, "user", "done", d, first)
  <2>1. row.state = "done" /\ row.started = 0
    BY NewRowFields
  <2> HIDE DEF row
  <2>2. Insert(row)
    BY <1>4 DEF RecordUserAnalysis, row
  <2> QED  BY <2>1, <2>2, InsertRow DEF Ended
<1> QED  BY <1>2, <1>3, <1>4

\* A claim: the running rows of dead owners go back, then at most one row starts.
LEMMA ClaimQuiet ==
  ASSUME StoreTypeOK, NEW p \in Procs, NEW t \in Targets,
         NEW measured \in BOOLEAN, NEW first \in BOOLEAN, NEW dead, NEW signed, NEW watched
  PROVE  /\ \A i \in Ids :
              ClaimAnalysis(p, t, day, dead, measured, first, signed, watched, i) =>
                ClaimedRow(p, t, i, measured, first)
         /\ ClaimNothing(p, t, dead, measured, first, signed) => QuietTable(jobs')
<1> DEFINE table == Reclaimed(p, t, dead)
<1>1. ASSUME NEW j \in Ids
      PROVE  /\ table[j] \in Row \cup {NoRow}
             /\ table[j] # NoRow => jobs[j] # NoRow /\ Quiet(jobs[j], table[j])
  <2>1. CASE j \in Running(t) /\ DeadOwner(p, jobs[j], dead)
    <3>1. jobs[j] \in Row /\ jobs[j].state = "running" /\ jobs[j] # NoRow
      BY <2>1, UsedRows, NoRowAssumption DEF Running, RowsOf
    <3>2. table[j] = Requeued(jobs[j])
      BY <2>1 DEF Reclaimed
    <3>3. Requeued(jobs[j]) \in Row
      <4>1. jobs[j].attempt + 1 \in Nat
        BY <3>1, RowReads
      <4> QED  BY <3>1, <4>1, RowClaims DEF Requeued
    <3> HIDE DEF table
    <3> QED  BY <3>1, <3>2, <3>3, QuietChanges
  <2>2. CASE ~(j \in Running(t) /\ DeadOwner(p, jobs[j], dead))
    <3>1. table[j] = jobs[j]
      BY <2>2 DEF Reclaimed
    <3> HIDE DEF table
    <3> QED  BY <3>1, QuietSame DEF StoreTypeOK
  <2> QED  BY <2>1, <2>2
<1>2. QuietTable(table)
  <2> HIDE DEF table
  <2> QED  BY <1>1 DEF QuietTable
<1>3. table \in [Ids -> Row \cup {NoRow}]
  <2>1. table = [j \in Ids |-> table[j]]
    BY DEF Reclaimed
  <2> HIDE DEF table
  <2> QED  BY <1>1, <2>1
<1>4. ASSUME NEW i \in Ids,
             ClaimAnalysis(p, t, day, dead, measured, first, signed, watched, i)
      PROVE  ClaimedRow(p, t, i, measured, first)
  <2>1. /\ ~Blocked(table, t, measured, first) /\ i \in QueuedIn(table, t)
        /\ table[i].reason = "user" \/ WithinAllowance(table, table[i], day)
        /\ jobs' = [table EXCEPT ![i] = Started(table[i], p, day, measured, first)]
    BY <1>4 DEF ClaimAnalysis, NextJobs
  <2>2. jobs[i].state = "running" \/ table[i] = jobs[i]
    BY DEF Reclaimed, Running
  <2> HIDE DEF table
  <2> QED  BY <1>2, <1>3, <2>1, <2>2 DEF ClaimedRow
<1>5. ASSUME ClaimNothing(p, t, dead, measured, first, signed) PROVE QuietTable(jobs')
  BY <1>2, <1>5 DEF ClaimNothing
<1> QED  BY <1>4, <1>5

\* A recovery puts rows back or fails them.
LEMMA RecoverQuiet ==
  ASSUME StoreTypeOK, NEW p \in Procs, NEW d, NEW dead, NEW expired,
         RecoverAnalysis(p, d, dead, expired)
  PROVE  QuietTable(jobs')
<1> SUFFICES ASSUME NEW j \in Ids, jobs'[j] # NoRow
             PROVE  jobs[j] # NoRow /\ Quiet(jobs[j], jobs'[j])
  BY DEF QuietTable
<1>1. CASE j \in Lost(p, dead, expired)
  <2>1. jobs[j] \in Row /\ jobs[j].state = "running" /\ jobs[j] # NoRow
    BY <1>1, UsedRows, NoRowAssumption DEF Lost
  <2>2. jobs'[j] = Recovered(jobs[j], d)
    BY <1>1 DEF RecoverAnalysis
  <2> QED  BY <2>1, <2>2, QuietChanges
<1>2. CASE j \notin Lost(p, dead, expired)
  BY <1>2, QuietSame DEF RecoverAnalysis
<1> QED  BY <1>1, <1>2

\* The fenced writes, the cancellation and the removals.
LEMMA WorkerQuiet ==
  ASSUME StoreTypeOK, NEW p, NEW i, NEW attempt, NEW d
  PROVE  /\ HoldAnalysis(p, i, attempt) => QuietTable(jobs')
         /\ RetryAnalysis(p, i, attempt) => QuietTable(jobs')
         /\ \A state \in Ended : \A error, billed :
              FinishAnalysis(p, i, attempt, state, d, error, billed) => QuietTable(jobs')
         /\ CancelAnalysis(i, d) => QuietTable(jobs')
<1>1. i \in Used => jobs[i] \in Row
  BY UsedRows
<1>2. Owns(p, i, attempt) => i \in Used /\ jobs[i].state = "running"
  BY DEF Owns
<1>3. UNCHANGED storeVars => QuietTable(jobs')
  BY WritesQuiet
<1>4. ASSUME HoldAnalysis(p, i, attempt), Owns(p, i, attempt) PROVE QuietTable(jobs')
  <2> DEFINE row == [jobs[i] EXCEPT !.state = "queued", !.started = 0,
                                    !.error = "signed out", !.owner = NoProc]
  <2>1. Quiet(jobs[i], row)
    BY <1>1, <1>2, <1>4, QuietWrites
  <2>2. Update(i, row)
    BY <1>4 DEF HoldAnalysis
  <2> HIDE DEF row
  <2> QED  BY <1>2, <1>4, <2>1, <2>2, WritesQuiet
<1>5. ASSUME RetryAnalysis(p, i, attempt) PROVE QuietTable(jobs')
  <2> DEFINE mark == IF jobs[i].error \in Marked THEN "retrying_after_recovery" ELSE "retrying"
             row == [jobs[i] EXCEPT !.error = mark]
  <2>1. Owns(p, i, attempt) /\ Update(i, row)
    BY <1>5 DEF RetryAnalysis
  <2> HIDE DEF mark
  <2>2. Quiet(jobs[i], row)
    BY <1>1, <1>2, <2>1, QuietWrites
  <2> HIDE DEF row
  <2> QED  BY <1>2, <2>1, <2>2, WritesQuiet
<1>6. ASSUME NEW state \in Ended, NEW error, NEW billed, Owns(p, i, attempt),
             FinishAnalysis(p, i, attempt, state, d, error, billed)
      PROVE  QuietTable(jobs')
  <2> DEFINE cost == jobs[i].billed \/ billed
             row == [jobs[i] EXCEPT !.state = state, !.finished = d, !.error = error,
                                    !.billed = cost]
  <2>1. Update(i, row)
    BY <1>6 DEF FinishAnalysis
  <2> HIDE DEF cost
  <2>2. /\ row.state = state /\ row.started = jobs[i].started
        /\ row.reason = jobs[i].reason /\ row.firstHour = jobs[i].firstHour
        /\ row.target = jobs[i].target
    BY <1>1, <1>2, <1>6 DEF Row
  <2> HIDE DEF row
  <2>3. Quiet(jobs[i], row)
    BY <1>1, <1>2, <1>6, <2>2, QuietEnds DEF Live
  <2> QED  BY <1>2, <1>6, <2>1, <2>3, WritesQuiet
<1>7. ASSUME CancelAnalysis(i, d) PROVE QuietTable(jobs')
  <2> DEFINE row == [jobs[i] EXCEPT !.state = "skipped", !.error = "cancelled", !.finished = d]
  <2>1. i \in Used /\ jobs[i].state \in Live /\ Update(i, row)
    BY <1>7 DEF CancelAnalysis
  <2>2. /\ row.state = "skipped" /\ row.started = jobs[i].started
        /\ row.reason = jobs[i].reason /\ row.firstHour = jobs[i].firstHour
        /\ row.target = jobs[i].target
    BY <1>1, <2>1 DEF Row
  <2> HIDE DEF row
  <2>3. Quiet(jobs[i], row)
    BY <1>1, <2>1, <2>2, QuietEnds DEF Ended
  <2> QED  BY <2>1, <2>3, WritesQuiet
<1> QED  BY <1>3, <1>4, <1>5, <1>6, <1>7 DEF HoldAnalysis, FinishAnalysis

\* Removing a database, trimming, dropping, and a turn-on that moves the first hour.
LEMMA RemovalQuiet ==
  ASSUME StoreTypeOK, NEW t \in Targets, NEW d
  PROVE  /\ SkipRemoved(t, d) => QuietTable(jobs')
         /\ ForgetTarget(t) => QuietTable(jobs')
         /\ \A reason, keep : TrimAutomatic(t, reason, keep) => QuietTable(jobs')
         /\ DropQueued(t) => QuietTable(jobs')
         /\ \A p : StartHour(p, t) => CalmTable(jobs')
<1>1. ASSUME SkipRemoved(t, d), NEW j \in Ids, jobs'[j] # NoRow
      PROVE  jobs[j] # NoRow /\ Quiet(jobs[j], jobs'[j])
  <2>1. CASE j \in RowsOf(t) /\ jobs[j].state \in Live
    <3>1. jobs[j] \in Row /\ jobs[j] # NoRow
      BY <2>1, UsedRows, NoRowAssumption DEF RowsOf
    <3>2. jobs'[j] = [jobs[j] EXCEPT !.state = "skipped", !.finished = d, !.error = "removed"]
      BY <1>1, <2>1 DEF SkipRemoved
    <3>3. /\ jobs'[j].state = "skipped" /\ jobs'[j].started = jobs[j].started
          /\ jobs'[j].reason = jobs[j].reason /\ jobs'[j].firstHour = jobs[j].firstHour
          /\ jobs'[j].target = jobs[j].target
      BY <3>1, <3>2 DEF Row
    <3> QED  BY <2>1, <3>1, <3>3, QuietEnds DEF Ended
  <2>2. CASE ~(j \in RowsOf(t) /\ jobs[j].state \in Live)
    BY <1>1, <2>2, QuietSame DEF SkipRemoved
  <2> QED  BY <2>1, <2>2
<1>2. ASSUME NEW p, StartHour(p, t), NEW j \in Ids, jobs'[j] # NoRow
      PROVE  jobs[j] # NoRow /\ Calm(jobs[j], jobs'[j])
  <2>1. CASE j \in RowsOf(t)
    <3>1. jobs[j] \in Row /\ jobs[j] # NoRow
      BY <2>1, UsedRows, NoRowAssumption DEF RowsOf
    <3>2. jobs'[j] = [jobs[j] EXCEPT !.firstHour = FALSE]
      BY <1>2, <2>1 DEF StartHour
    <3> QED  BY <3>1, <3>2, QuietWrites
  <2>2. CASE j \notin RowsOf(t)
    BY <1>2, <2>2, QuietSame DEF StartHour, Quiet
  <2> QED  BY <2>1, <2>2
<1>3. \A ids : Delete(ids) => QuietTable(jobs')
  BY WritesQuiet
<1>4. ForgetTarget(t) => QuietTable(jobs')
  BY <1>3 DEF ForgetTarget
<1>5. ASSUME NEW reason, NEW keep, TrimAutomatic(t, reason, keep) PROVE QuietTable(jobs')
  BY <1>3, <1>5 DEF TrimAutomatic
<1>6. DropQueued(t) => QuietTable(jobs')
  BY <1>3 DEF DropQueued
<1> QED  BY <1>1, <1>2, <1>4, <1>5, <1>6 DEF QuietTable, CalmTable

\* Every step of every process, worker and request changes the table in one of four ways.
LEMMA StepQuiet == TypeOK /\ Next => QuietTable(jobs') \/ Inserted \/ Claimed \/ HourMoved
<1> SUFFICES ASSUME TypeOK, Next PROVE QuietTable(jobs') \/ Inserted \/ Claimed \/ HourMoved
  OBVIOUS
<1>0. StoreTypeOK /\ day \in Nat /\ execute \in [Targets -> BOOLEAN]
  BY DEF TypeOK
<1>a. UNCHANGED storeVars => QuietTable(jobs')
  BY <1>0, WritesQuiet
<1>b. \A p \in Procs : TurnsOn(p) => QuietTable(jobs')
  BY <1>0, RecoverQuiet DEF TurnsOn
<1>1. ASSUME Environment PROVE QuietTable(jobs') \/ HourMoved
  <2>1. ASSUME NEW p \in Procs, StartProcess(p) \/ StartQueue(p) PROVE QuietTable(jobs')
    BY <1>a, <1>b, <2>1 DEF StartProcess, StartQueue
  <2>2. ASSUME NEW p \in Procs, NEW t \in Targets, StartHour(p, t) PROVE HourMoved
    BY <1>0, <2>2, RemovalQuiet DEF HourMoved
  <2>3. ASSUME NEW p \in Procs,
               \/ EndProcess(p) \/ StopQueue(p) \/ QueueStopped(p) \/ PassEnds(p)
               \/ \E t \in Targets : TurnOn(p, t)
        PROVE  QuietTable(jobs')
    BY <1>a, <2>3 DEF EndProcess, StopQueue, QueueStopped, PassEnds, TurnOn
  <2>4. ASSUME ChangeSignIn \/ NextDay \/ \E t \in Targets : \/ ChangeExecute(t) \/ TurnOff(t)
                                                             \/ EndHour(t)
        PROVE  QuietTable(jobs')
    BY <1>a, <2>4 DEF ChangeSignIn, NextDay, ChangeExecute, TurnOff, EndHour
  <2> QED  BY <1>1, <2>1, <2>2, <2>3, <2>4 DEF Environment
<1>2. ASSUME NEW p \in Procs, Pass(p) PROVE QuietTable(jobs') \/ Claimed
  <2>1. ASSUME Recover(p) PROVE QuietTable(jobs')
    BY <1>0, <2>1, RecoverQuiet DEF Recover
  <2>2. ASSUME NEW t \in Targets, NEW k \in Keys,
               AskNew(p, t, k) \/ AskStale(p, t, k) \/ AskFirstHour(p, t, k) \/ AskRetry(p, t, k)
        PROVE  QuietTable(jobs')
    BY <1>a, <2>2 DEF AskNew, AskStale, AskFirstHour, AskRetry, Ask
  <2>3. ASSUME NEW t \in Targets, DropFirstHour(p, t) PROVE QuietTable(jobs')
    BY <1>0, <2>3, RemovalQuiet DEF DropFirstHour
  <2>4. ASSUME NEW t \in Targets, NEW reason \in Automatic, Trim(p, t, reason)
        PROVE  QuietTable(jobs')
    BY <1>0, <2>4, RemovalQuiet DEF Trim
  <2>5. ASSUME NEW t \in Targets, ClaimNoJob(p, t) PROVE QuietTable(jobs')
    <3>1. execute[t] \in BOOLEAN /\ First(t) \in BOOLEAN
      BY <1>0 DEF First
    <3> QED  BY <1>0, <2>5, <3>1, ClaimQuiet DEF ClaimNoJob
  <2>6. ASSUME NEW t \in Targets, Claim(p, t) PROVE Claimed
    <3>1. execute[t] \in BOOLEAN /\ First(t) \in BOOLEAN
      BY <1>0 DEF First
    <3>2. PICK i \in Ids :
            ClaimAnalysis(p, t, day, Dead, execute[t], First(t), signedIn, Monitored(t), i)
      BY <2>6 DEF Claim
    <3>3. ClaimedRow(p, t, i, execute[t], First(t))
      BY <1>0, <3>1, <3>2, ClaimQuiet
    <3> QED  BY <3>3 DEF Claimed
  <2> QED  BY <1>2, <2>1, <2>2, <2>3, <2>4, <2>5, <2>6 DEF Pass
<1>3. ASSUME NEW p \in Procs, Requests(p) PROVE QuietTable(jobs') \/ Inserted
  <2>1. ASSUME NEW t \in Targets, NEW k \in Keys, AskClick(p, t, k) \/ AskForReport(p, t, k)
        PROVE  QuietTable(jobs')
    BY <1>a, <2>1 DEF AskClick, AskForReport, Ask
  <2>2. ASSUME NEW t \in Targets, NEW k \in Keys, ClickWaiting(p, t, k)
        PROVE  QuietTable(jobs')
    <3>1. PICK i \in LiveRows(t, k) : Update(i, [jobs[i] EXCEPT !.clicked = TRUE])
      BY <2>2 DEF ClickWaiting
    <3>2. i \in Used /\ jobs[i] \in Row
      BY <1>0, UsedRows DEF LiveRows, RowsOf
    <3> DEFINE row == [jobs[i] EXCEPT !.clicked = TRUE]
    <3>3. Quiet(jobs[i], row) /\ Update(i, row)
      BY <3>1, <3>2, QuietWrites
    <3> HIDE DEF row
    <3> QED  BY <1>0, <3>2, <3>3, WritesQuiet
  <2>3. ASSUME NEW t \in Targets, NEW k \in Keys, RecordPasted(p, t, k)
        PROVE  QuietTable(jobs') \/ Inserted
    BY <1>0, <2>3, EnqueueQuiet DEF RecordPasted, First, Reasons
  <2>4. ASSUME NEW i \in Ids, Cancel(p, i) PROVE QuietTable(jobs')
    BY <1>0, <2>4, WorkerQuiet DEF Cancel
  <2>5. ASSUME NEW t \in Targets, BeginRemoval(p, t) PROVE QuietTable(jobs')
    BY <1>0, <2>5, RemovalQuiet DEF BeginRemoval
  <2>6. ASSUME Wake(p) PROVE QuietTable(jobs')
    BY <1>a, <1>b, <2>6 DEF Wake
  <2> QED  BY <1>3, <2>1, <2>2, <2>3, <2>4, <2>5, <2>6 DEF Requests
<1>4. ASSUME NEW ask \in asked, Enqueue(ask) PROVE QuietTable(jobs') \/ Inserted
  <2>1. /\ ask.target \in Targets /\ ask.key \in Keys /\ ask.reason \in Reasons
        /\ ask.day \in Nat /\ ask.first \in BOOLEAN /\ ask.capped \in BOOLEAN
    BY DEF TypeOK, Decision
  <2> QED  BY <1>0, <1>4, <1>a, <2>1, EnqueueQuiet DEF Enqueue
<1>5. ASSUME NEW t \in Targets, FinishRemoval(t) PROVE QuietTable(jobs')
  BY <1>0, <1>5, RemovalQuiet DEF FinishRemoval
<1>6. ASSUME NEW task \in tasks, Worker(task) PROVE QuietTable(jobs')
  <2>1. {"done", "failed", "skipped"} = Ended
    BY DEF Ended
  <2>2. ASSUME StartSampling(task) \/ StartAnalysis(task) \/ LeaveJob(task) \/ Raise(task)
               \/ HitDeadline(task) \/ EndCancelled(task)
        PROVE  QuietTable(jobs')
    BY <1>a, <2>2 DEF StartSampling, StartAnalysis, LeaveJob, Raise, HitDeadline, EndCancelled,
                      Idle
  <2>3. ASSUME Hold(task) \/ RetryAtOnce(task) PROVE QuietTable(jobs')
    BY <1>0, <2>3, WorkerQuiet DEF Hold, RetryAtOnce
  <2>4. ASSUME Skip(task) \/ Done(task) \/ Fail(task) \/ CloseDeadline(task)
        PROVE  QuietTable(jobs')
    BY <1>0, <2>1, <2>4, WorkerQuiet DEF Skip, Done, Fail, CloseDeadline
  <2> QED  BY <1>6, <2>2, <2>3, <2>4 DEF Worker
<1> QED  BY <1>1, <1>2, <1>3, <1>4, <1>5, <1>6 DEF Next

\* A quiet table is calm.
LEMMA QuietIsCalm == \A table : QuietTable(table) => CalmTable(table)
BY DEF QuietTable, CalmTable, Quiet

\* For what does not read the day's allowance the ways are three.
LEMMA StepCalm == TypeOK /\ Next => CalmTable(jobs') \/ Inserted \/ Claimed
BY StepQuiet, QuietIsCalm DEF HourMoved

-----------------------------------------------------------------------------
(* What waits and what runs.                                               *)

\* A started row.
LEMMA StartedFields ==
  ASSUME NEW row \in Row, NEW p, NEW d, NEW measured, NEW first
  PROVE  LET new == Started(row, p, d, measured, first)
         IN  /\ new.target = row.target /\ new.key = row.key /\ new.state = "running"
             /\ new.owner = p /\ new.started = d /\ new.firstPass = first
             /\ new.reason = row.reason /\ new.firstHour = row.firstHour
             /\ new.mode = IF measured THEN "analyze" ELSE "explain"
BY DEF Started, Row

\* What a claim makes of the calm table it works on: one row of it starts.
ClaimsIn(table, p, t, i, measured, first) ==
  /\ QuietTable(table) /\ CalmTable(table) /\ ~Blocked(table, t, measured, first)
  /\ table[i].reason = "user" \/ WithinAllowance(table, table[i], day)
  /\ jobs[i].state = "running" \/ table[i] = jobs[i]
  /\ table[i] # NoRow /\ table[i].state = "queued" /\ table[i].target = t
  /\ \A j \in Ids \ {i} : jobs'[j] = table[j]
  /\ jobs'[i].target = t /\ jobs'[i].key = table[i].key
  /\ jobs'[i].state = "running" /\ jobs'[i].owner = p /\ jobs'[i].started = day
  /\ jobs'[i].reason = table[i].reason /\ jobs'[i].firstHour = table[i].firstHour
  /\ jobs'[i].firstPass = first
  /\ jobs'[i].mode = IF measured THEN "analyze" ELSE "explain"

\* Every claim does so.
LEMMA ClaimedTable ==
  ASSUME NEW p, NEW t, NEW i \in Ids, NEW measured, NEW first,
         ClaimedRow(p, t, i, measured, first)
  PROVE  \E table \in [Ids -> Row \cup {NoRow}] : ClaimsIn(table, p, t, i, measured, first)
<1>1. PICK table \in [Ids -> Row \cup {NoRow}] :
        /\ QuietTable(table) /\ ~Blocked(table, t, measured, first) /\ i \in QueuedIn(table, t)
        /\ table[i].reason = "user" \/ WithinAllowance(table, table[i], day)
        /\ jobs[i].state = "running" \/ table[i] = jobs[i]
        /\ jobs' = [table EXCEPT ![i] = Started(table[i], p, day, measured, first)]
  BY DEF ClaimedRow
<1>2. /\ table[i] # NoRow /\ table[i].state = "queued" /\ table[i].target = t
      /\ table[i] \in Row
  BY <1>1 DEF QueuedIn
<1>3. jobs'[i] = Started(table[i], p, day, measured, first)
  BY <1>1
<1>4. \A j \in Ids \ {i} : jobs'[j] = table[j]
  BY <1>1
<1>5. ClaimsIn(table, p, t, i, measured, first)
  BY <1>1, <1>2, <1>3, <1>4, StartedFields, QuietIsCalm DEF ClaimsIn
<1> QED  BY <1>5

\* In a calm table a query has no more live jobs than before.
OneLiveIn(table) ==
  \A i, j \in Ids :
    /\ table[i] # NoRow /\ table[j] # NoRow
    /\ table[i].target = table[j].target /\ table[i].key = table[j].key
    /\ table[i].state \in Live /\ table[j].state \in Live
    => i = j

\* So one live job stays one.
LEMMA CalmKeepsOne ==
  ASSUME NEW table, CalmTable(table), OneLiveJob
  PROVE  OneLiveIn(table)
<1>1. ASSUME NEW i \in Ids, table[i] # NoRow, table[i].state \in Live
      PROVE  /\ i \in Used /\ jobs[i].state \in Live
             /\ table[i].target = jobs[i].target /\ table[i].key = jobs[i].key
  <2>1. jobs[i] # NoRow /\ Calm(jobs[i], table[i])
    BY <1>1 DEF CalmTable
  <2> QED  BY <1>1, <2>1 DEF Calm, Stays, PutBack, Live, Ended, Used
<1> QED  BY <1>1 DEF OneLiveJob, OneLiveIn

\* Nor does an insertion or a claim give it a second one.
LEMMA OneLiveKept ==
  ASSUME TypeOK, OneLiveJob, CalmTable(jobs') \/ Inserted \/ Claimed
  PROVE  OneLiveJob'
<1>0. OneLiveIn(jobs') => OneLiveJob'
  BY DEF OneLiveIn, OneLiveJob, Used, Ids
<1>1. CASE CalmTable(jobs')
  BY <1>0, <1>1, CalmKeepsOne
<1>2. CASE Inserted
  <2>1. PICK i \in Ids :
          /\ \A j \in Ids \ {i} : jobs'[j] = jobs[j]
          /\ \/ jobs'[i].state \in Ended
             \/ LiveRows(jobs'[i].target, jobs'[i].key) = {}
    BY <1>2 DEF Inserted
  <2>2. ASSUME NEW j \in Ids \ {i}, jobs'[j] # NoRow, jobs'[j].state \in Live,
               jobs'[i].state \in Live,
               jobs'[j].target = jobs'[i].target, jobs'[j].key = jobs'[i].key
        PROVE  FALSE
    <3>1. jobs'[i].state \notin Ended
      BY <2>2 DEF Live, Ended
    <3>2. j \in LiveRows(jobs'[i].target, jobs'[i].key)
      BY <2>1, <2>2 DEF LiveRows, RowsOf, Used
    <3> QED  BY <2>1, <3>1, <3>2
  <2>3. \A j, k \in Ids \ {i} :
          /\ jobs'[j] # NoRow /\ jobs'[k] # NoRow
          /\ jobs'[j].target = jobs'[k].target /\ jobs'[j].key = jobs'[k].key
          /\ jobs'[j].state \in Live /\ jobs'[k].state \in Live
          => j = k
    BY <2>1 DEF OneLiveJob, Used
  <2> QED  BY <1>0, <2>2, <2>3 DEF OneLiveIn
<1>3. CASE Claimed
  <2>1. PICK p \in Procs, t \in Targets, i \in Ids : ClaimedRow(p, t, i, execute[t], First(t))
    BY <1>3 DEF Claimed
  <2>2. PICK table \in [Ids -> Row \cup {NoRow}] : ClaimsIn(table, p, t, i, execute[t], First(t))
    BY <2>1, ClaimedTable
  <2>3. OneLiveIn(table)
    BY <2>2, CalmKeepsOne DEF ClaimsIn
  <2>4. /\ table[i] # NoRow /\ table[i].state = "queued" /\ table[i].target = t
        /\ \A j \in Ids \ {i} : jobs'[j] = table[j]
        /\ jobs'[i].target = t /\ jobs'[i].key = table[i].key
    BY <2>2 DEF ClaimsIn
  <2> QED  BY <1>0, <2>3, <2>4 DEF OneLiveIn, Live
<1> QED  BY <1>1, <1>2, <1>3

\* The claim and the place in the day of every live row.
HoldsItsOwn(row) ==
  row.state \in Live =>
    /\ (row.owner = NoProc) = (row.state = "queued")
    /\ (row.started = 0) = (row.state = "queued")
\* Every step keeps it, since the first day is day 1.
LEMMA WaitingKept ==
  ASSUME TypeOK, day \in Nat \ {0}, WaitingHoldsNothing,
         CalmTable(jobs') \/ Inserted \/ Claimed
  PROVE  WaitingHoldsNothing'
<1>0. ASSUME \A i \in Ids : jobs'[i] # NoRow => HoldsItsOwn(jobs'[i])
      PROVE  WaitingHoldsNothing'
  BY <1>0 DEF HoldsItsOwn, WaitingHoldsNothing, Used, Ids
<1>1. \A i \in Ids : jobs[i] # NoRow => HoldsItsOwn(jobs[i])
  BY DEF HoldsItsOwn, WaitingHoldsNothing, Used
<1>2. ASSUME NEW table, CalmTable(table), NEW i \in Ids, table[i] # NoRow
      PROVE  HoldsItsOwn(table[i])
  <2>1. jobs[i] # NoRow /\ Calm(jobs[i], table[i])
    BY <1>2 DEF CalmTable
  <2>2. HoldsItsOwn(jobs[i])
    BY <1>1, <2>1
  <2> QED  BY <2>1, <2>2 DEF HoldsItsOwn, Calm, Stays, PutBack, Live, Ended
<1>3. CASE CalmTable(jobs')
  BY <1>0, <1>2, <1>3
<1>4. CASE Inserted
  <2>1. PICK i \in Ids :
          /\ \A j \in Ids \ {i} : jobs'[j] = jobs[j]
          /\ \/ jobs'[i].state \in Ended
             \/ jobs'[i].state = "queued" /\ jobs'[i].owner = NoProc /\ jobs'[i].started = 0
    BY <1>4 DEF Inserted
  <2>2. HoldsItsOwn(jobs'[i])
    BY <2>1 DEF HoldsItsOwn, Live, Ended
  <2> QED  BY <1>0, <1>1, <2>1, <2>2
<1>5. CASE Claimed
  <2>1. PICK p \in Procs, t \in Targets, i \in Ids : ClaimedRow(p, t, i, execute[t], First(t))
    BY <1>5 DEF Claimed
  <2>2. PICK table \in [Ids -> Row \cup {NoRow}] : ClaimsIn(table, p, t, i, execute[t], First(t))
    BY <2>1, ClaimedTable
  <2>3. /\ \A j \in Ids \ {i} : jobs'[j] = table[j]
        /\ jobs'[i].state = "running" /\ jobs'[i].owner = p /\ jobs'[i].started = day
    BY <2>2 DEF ClaimsIn
  <2>4. HoldsItsOwn(jobs'[i])
    BY <2>3, NullAssumption DEF HoldsItsOwn
  <2>5. \A j \in Ids \ {i} : jobs'[j] # NoRow => HoldsItsOwn(jobs'[j])
    BY <1>2, <2>2, <2>3 DEF ClaimsIn
  <2> QED  BY <1>0, <2>4, <2>5
<1> QED  BY <1>3, <1>4, <1>5

-----------------------------------------------------------------------------
(* The limits of running jobs.                                             *)

\* In a calm table nothing runs that did not run before, and what runs is measured, or not,
\* as before.
LEMMA CalmRunning ==
  ASSUME NEW table, CalmTable(table), NEW t
  PROVE  /\ RunningIn(table, t) \subseteq Running(t)
         /\ \A i \in RunningIn(table, t) :
              table[i].mode = jobs[i].mode /\ table[i].firstPass = jobs[i].firstPass
<1> SUFFICES ASSUME NEW i \in RunningIn(table, t)
             PROVE  /\ i \in Running(t)
                    /\ table[i].mode = jobs[i].mode /\ table[i].firstPass = jobs[i].firstPass
  OBVIOUS
<1>1. i \in Ids /\ table[i] # NoRow /\ table[i].target = t /\ table[i].state = "running"
  BY DEF RunningIn
<1>2. jobs[i] # NoRow /\ Calm(jobs[i], table[i])
  BY <1>1 DEF CalmTable
<1> QED  BY <1>1, <1>2 DEF Calm, Stays, PutBack, Ended, Running, RowsOf, Used

\* Sets of running rows are finite.
LEMMA RunningFinite ==
  ASSUME NEW S \in SUBSET Ids
  PROVE  /\ IsFiniteSet(S) /\ Cardinality(S) \in Nat
         /\ \A T \in SUBSET S : Cardinality(T) \in Nat /\ Cardinality(T) <= Cardinality(S)
         /\ \A i : Cardinality(S \cup {i}) <= Cardinality(S) + 1
         /\ Cardinality(S) = 0 => S = {}
<1>1. IsFiniteSet(Ids)
  BY BoundAssumption, FS_Interval DEF Ids
<1>2. IsFiniteSet(S)
  BY <1>1, FS_Subset
<1>3. Cardinality(S) \in Nat
  BY <1>2, FS_CardinalityType
<1>4. ASSUME NEW T \in SUBSET S PROVE Cardinality(T) \in Nat /\ Cardinality(T) <= Cardinality(S)
  BY <1>2, FS_Subset, FS_CardinalityType
<1>5. ASSUME NEW i PROVE Cardinality(S \cup {i}) <= Cardinality(S) + 1
  BY <1>2, <1>3, FS_AddElement
<1> QED  BY <1>2, <1>3, <1>4, <1>5, FS_EmptySet

\* After an insertion the running rows are those from before, or fewer.
LEMMA InsertedRunning ==
  ASSUME Inserted, NEW t
  PROVE  /\ Running(t)' \subseteq Running(t)
         /\ \A i \in Running(t)' :
              jobs'[i].mode = jobs[i].mode /\ jobs'[i].firstPass = jobs[i].firstPass
<1>1. PICK i \in Ids :
        /\ \A j \in Ids \ {i} : jobs'[j] = jobs[j]
        /\ jobs'[i].state \in Ended \/ jobs'[i].state = "queued"
  BY DEF Inserted
<1> SUFFICES ASSUME NEW j \in Running(t)'
             PROVE  /\ j \in Running(t)
                    /\ jobs'[j].mode = jobs[j].mode /\ jobs'[j].firstPass = jobs[j].firstPass
  OBVIOUS
<1>2. j \in Ids /\ jobs'[j] # NoRow /\ jobs'[j].target = t /\ jobs'[j].state = "running"
  BY DEF Running, RowsOf, Used, Ids
<1>3. j # i
  BY <1>1, <1>2 DEF Ended
<1> QED  BY <1>1, <1>2, <1>3 DEF Running, RowsOf, Used

\* After a claim, of the claim's database: what the table left running and the new job; of
\* another, what the table left.
LEMMA ClaimedRunning ==
  ASSUME NEW table \in [Ids -> Row \cup {NoRow}], NEW p, NEW t, NEW i \in Ids,
         NEW measured, NEW first, ClaimsIn(table, p, t, i, measured, first), NEW u
  PROVE  /\ Running(u)' \subseteq RunningIn(table, u) \cup {i}
         /\ u # t => Running(u)' \subseteq RunningIn(table, u)
<1> SUFFICES ASSUME NEW j \in Running(u)'
             PROVE  j \in RunningIn(table, u) \/ (j = i /\ u = t)
  OBVIOUS
<1>1. j \in Ids /\ jobs'[j] # NoRow /\ jobs'[j].target = u /\ jobs'[j].state = "running"
  BY DEF Running, RowsOf, Used, Ids
<1> QED  BY <1>1 DEF ClaimsIn, RunningIn

\* No step starts a job beyond the limit.
LEMMA SlotsStep ==
  ASSUME TypeOK, SlotsKept, CalmTable(jobs') \/ Inserted \/ Claimed
  PROVE  SlotsKept'
<1> SUFFICES ASSUME NEW u \in Targets PROVE Cardinality(Running(u)') <= Concurrency
  BY DEF SlotsKept
<1>0. /\ Running(u) \in SUBSET Ids /\ Running(u)' \in SUBSET Ids
      /\ Cardinality(Running(u)) <= Concurrency /\ Concurrency \in Nat \ {0}
  BY AllowanceAssumption DEF SlotsKept, Running, RowsOf, Used, Ids
<1>1. ASSUME Running(u)' \subseteq Running(u)
      PROVE  Cardinality(Running(u)') <= Concurrency
  <2>1. /\ Cardinality(Running(u)') <= Cardinality(Running(u))
        /\ Cardinality(Running(u)) \in Nat /\ Cardinality(Running(u)') \in Nat
    BY <1>0, <1>1, RunningFinite
  <2> QED  BY <1>0, <2>1
<1>2. CASE CalmTable(jobs')
  <2>1. Running(u)' = RunningIn(jobs', u)
    BY DEF Running, RowsOf, Used, RunningIn, Ids
  <2> QED  BY <1>1, <1>2, <2>1, CalmRunning
<1>3. CASE Inserted
  BY <1>1, <1>3, InsertedRunning
<1>4. CASE Claimed
  <2>1. PICK p \in Procs, t \in Targets, i \in Ids : ClaimedRow(p, t, i, execute[t], First(t))
    BY <1>4 DEF Claimed
  <2>2. PICK table \in [Ids -> Row \cup {NoRow}] : ClaimsIn(table, p, t, i, execute[t], First(t))
    BY <2>1, ClaimedTable
  <2>3. CalmTable(table) /\ ~Blocked(table, t, execute[t], First(t))
    BY <2>2 DEF ClaimsIn
  <2>4. CASE u # t
    <3>1. Running(u)' \subseteq RunningIn(table, u)
      BY <2>2, <2>4, ClaimedRunning
    <3>2. RunningIn(table, u) \subseteq Running(u)
      BY <2>3, CalmRunning
    <3> QED  BY <1>1, <3>1, <3>2
  <2>5. CASE u = t
    <3>1. Running(u)' \subseteq RunningIn(table, u) \cup {i}
      BY <2>2, ClaimedRunning
    <3>2. RunningIn(table, u) \in SUBSET Ids /\ RunningIn(table, u) \cup {i} \in SUBSET Ids
      BY DEF RunningIn
    <3>3. /\ Cardinality(Running(u)') \in Nat /\ Cardinality(RunningIn(table, u)) \in Nat
          /\ Cardinality(RunningIn(table, u) \cup {i}) \in Nat
          /\ Cardinality(RunningIn(table, u) \cup {i}) <= Cardinality(RunningIn(table, u)) + 1
      BY <1>0, <3>2, RunningFinite
    <3>4. Cardinality(Running(u)') <= Cardinality(RunningIn(table, u) \cup {i})
      BY <3>1, <3>2, RunningFinite
    <3>5. ~(Cardinality(RunningIn(table, u)) >= Concurrency)
      BY <1>0, <2>3, <2>5, <3>3 DEF Blocked
    <3> QED  BY <1>0, <3>3, <3>4, <3>5
  <2> QED  BY <2>4, <2>5
<1> QED  BY <1>2, <1>3, <1>4

\* No step starts a job beside a measurement, or a measurement beside a job.
LEMMA MeasuredStep ==
  ASSUME TypeOK, MeasuredAlone, CalmTable(jobs') \/ Inserted \/ Claimed
  PROVE  MeasuredAlone'
<1> SUFFICES ASSUME NEW u \in Targets, NEW j \in Running(u)', NEW k \in Running(u)', j # k,
                    jobs'[j].mode = "analyze", ~jobs'[j].firstPass, ~jobs'[k].firstPass
             PROVE  FALSE
  BY DEF MeasuredAlone
<1>1. ASSUME NEW table, CalmTable(table), j \in RunningIn(table, u), k \in RunningIn(table, u),
             jobs'[j] = table[j], jobs'[k] = table[k]
      PROVE  FALSE
  BY <1>1, CalmRunning DEF MeasuredAlone
<1>2. CASE CalmTable(jobs')
  <2>1. Running(u)' = RunningIn(jobs', u)
    BY DEF Running, RowsOf, Used, RunningIn, Ids
  <2> QED  BY <1>1, <1>2, <2>1
<1>3. CASE Inserted
  BY <1>3, InsertedRunning DEF MeasuredAlone
<1>4. CASE Claimed
  <2>1. PICK p \in Procs, t \in Targets, i \in Ids : ClaimedRow(p, t, i, execute[t], First(t))
    BY <1>4 DEF Claimed
  <2> DEFINE measured == execute[t]
             first == First(t)
  <2>2. PICK table \in [Ids -> Row \cup {NoRow}] : ClaimsIn(table, p, t, i, measured, first)
    BY <2>1, ClaimedTable
  <2>3. measured \in BOOLEAN /\ first \in BOOLEAN
    BY DEF TypeOK, First
  <2> HIDE DEF measured, first
  <2>4. /\ CalmTable(table) /\ ~Blocked(table, t, measured, first)
        /\ \A m \in Ids \ {i} : jobs'[m] = table[m]
        /\ jobs'[i].firstPass = first
        /\ jobs'[i].mode = IF measured THEN "analyze" ELSE "explain"
    BY <2>2 DEF ClaimsIn
  <2>5. CASE j # i /\ k # i
    <3>1. j \in RunningIn(table, u) /\ k \in RunningIn(table, u)
      BY <2>2, <2>5, ClaimedRunning
    <3>2. j \in Ids /\ k \in Ids
      BY DEF Running, RowsOf, Used, Ids
    <3> QED  BY <1>1, <2>4, <2>5, <3>1, <3>2
  <2>6. CASE j = i \/ k = i
    <3>1. u = t
      BY <2>2, <2>6, ClaimedRunning DEF ClaimsIn, Running, RowsOf, Used
    <3>2. ~first
      BY <2>4, <2>6
    <3>3. PICK m \in RunningIn(table, t) : m # i /\ (j = m \/ k = m)
      BY <2>2, <2>6, <3>1, ClaimedRunning
    <3>4. table[m].mode = "explain"
      BY <2>4, <3>2 DEF Blocked
    <3>5. RunningIn(table, t) \in SUBSET Ids /\ RunningIn(table, t) # {}
      BY <3>3 DEF RunningIn
    <3>6. Cardinality(RunningIn(table, t)) \in Nat /\ Cardinality(RunningIn(table, t)) # 0
      BY <3>5, RunningFinite
    <3>7. ~measured
      BY <2>4, <3>2, <3>6 DEF Blocked
    <3>8. jobs'[i].mode = "explain" /\ jobs'[m] = table[m]
      BY <2>4, <3>3, <3>5, <3>7
    <3> QED  BY <2>6, <3>3, <3>4, <3>8
  <2> QED  BY <2>5, <2>6
<1> QED  BY <1>2, <1>3, <1>4

-----------------------------------------------------------------------------
(* The day's allowances.                                                   *)

\* A quiet table spends no more of any day than before.
LEMMA QuietSpending ==
  ASSUME WaitingHoldsNothing, NEW table, QuietTable(table),
         NEW u, NEW d \in Nat \ {0}, NEW reasons
  PROVE  SpendingIn(table, u, d, reasons) \subseteq SpendingIn(jobs, u, d, reasons)
<1> SUFFICES ASSUME NEW i \in SpendingIn(table, u, d, reasons)
             PROVE  i \in SpendingIn(jobs, u, d, reasons)
  OBVIOUS
<1>1. /\ i \in Ids /\ table[i] # NoRow /\ table[i].target = u /\ table[i].started = d
      /\ SpendsCap(table[i]) /\ ~FirstHourJob(table[i]) /\ table[i].reason \in reasons
  BY DEF SpendingIn
<1>2. jobs[i] # NoRow /\ Frugal(jobs[i], table[i])
  BY <1>1 DEF QuietTable, Quiet
<1>3. jobs[i].state = "queued" => jobs[i].started = 0
  BY <1>1, <1>2 DEF WaitingHoldsNothing, Used, Live
<1>4. /\ jobs[i].target = u /\ jobs[i].started = d /\ jobs[i].reason = table[i].reason
      /\ jobs[i].firstHour = table[i].firstHour /\ SpendsCap(jobs[i])
  BY <1>1, <1>2, <1>3 DEF Frugal
<1> QED  BY <1>1, <1>2, <1>4 DEF SpendingIn, FirstHourJob

\* A claim adds the row that starts, if that spends.
LEMMA ClaimedSpending ==
  ASSUME NEW table \in [Ids -> Row \cup {NoRow}], NEW p, NEW t, NEW i \in Ids,
         NEW measured, NEW first, ClaimsIn(table, p, t, i, measured, first),
         NEW u, NEW d, NEW reasons
  PROVE  /\ SpendingIn(jobs', u, d, reasons) \subseteq SpendingIn(table, u, d, reasons) \cup {i}
         /\ i \in SpendingIn(jobs', u, d, reasons) =>
              /\ u = t /\ d = day /\ table[i].reason \in reasons
              /\ ~FirstHourJob(table[i]) /\ WithinAllowance(table, table[i], day)
<1>1. /\ jobs'[i].target = t /\ jobs'[i].started = day
      /\ jobs'[i].reason = table[i].reason /\ jobs'[i].firstHour = table[i].firstHour
      /\ table[i].reason = "user" \/ WithinAllowance(table, table[i], day)
      /\ \A j \in Ids \ {i} : jobs'[j] = table[j]
  BY DEF ClaimsIn
<1>2. SpendingIn(jobs', u, d, reasons) \subseteq SpendingIn(table, u, d, reasons) \cup {i}
  BY <1>1 DEF SpendingIn
<1>3. ASSUME i \in SpendingIn(jobs', u, d, reasons)
      PROVE  /\ u = t /\ d = day /\ table[i].reason \in reasons
             /\ ~FirstHourJob(table[i]) /\ WithinAllowance(table, table[i], day)
  <2>1. /\ jobs'[i].target = u /\ jobs'[i].started = d /\ SpendsCap(jobs'[i])
        /\ ~FirstHourJob(jobs'[i]) /\ jobs'[i].reason \in reasons
    BY <1>3 DEF SpendingIn
  <2>2. jobs'[i].reason # "user"
    BY <2>1 DEF SpendsCap
  <2>3. ~FirstHourJob(table[i])
    BY <1>1, <2>1 DEF FirstHourJob
  <2> QED  BY <1>1, <2>1, <2>2, <2>3
<1> QED  BY <1>2, <1>3

\* A count of one more than no more.
LEMMA OneMore ==
  ASSUME NEW a \in Nat, NEW b \in Nat, NEW c \in Nat, b <= a, c <= b + 1
  PROVE  c <= a + 1
OBVIOUS

\* Within what is left, one more start is within the cap.
LEMMA OneMoreStart ==
  ASSUME NEW table, NEW after, NEW u, NEW d, NEW reasons, NEW i,
         SpendingIn(after, u, d, reasons) \subseteq SpendingIn(table, u, d, reasons) \cup {i}
  PROVE  /\ StartedInDay(after, u, d, reasons) \in Nat
         /\ StartedInDay(table, u, d, reasons) \in Nat
         /\ StartedInDay(after, u, d, reasons) <= StartedInDay(table, u, d, reasons) + 1
         /\ i \notin SpendingIn(after, u, d, reasons) =>
              StartedInDay(after, u, d, reasons) <= StartedInDay(table, u, d, reasons)
<1> DEFINE S == SpendingIn(table, u, d, reasons)
           T == SpendingIn(after, u, d, reasons)
<1>1. S \in SUBSET Ids /\ T \in SUBSET Ids
  BY DEF SpendingIn
<1> HIDE DEF S, T
<1>2. Cardinality(T \ {i}) \in Nat /\ Cardinality(T \ {i}) <= Cardinality(S)
  <2>1. T \ {i} \in SUBSET S
    BY DEF S, T
  <2> QED  BY <1>1, <2>1, RunningFinite
<1>3. Cardinality(S) \in Nat /\ Cardinality(T) \in Nat
  BY <1>1, RunningFinite
<1>4. Cardinality((T \ {i}) \cup {i}) <= Cardinality(T \ {i}) + 1
  <2>1. T \ {i} \in SUBSET Ids
    BY <1>1
  <2> QED  BY <2>1, RunningFinite
<1>5. CASE i \in T
  <2>1. (T \ {i}) \cup {i} = T
    BY <1>5
  <2>2. Cardinality(T) <= Cardinality(T \ {i}) + 1
    BY <1>4, <2>1, Zenon
  <2>3. Cardinality(T) <= Cardinality(S) + 1
    BY <1>2, <1>3, <2>2, OneMore
  <2> QED  BY <1>3, <1>5, <2>3 DEF StartedInDay, S, T
<1>6. CASE i \notin T
  <2>1. T \ {i} = T
    BY <1>6
  <2>2. Cardinality(T) <= Cardinality(S) /\ Cardinality(T) <= Cardinality(S) + 1
    BY <1>2, <1>3, <2>1
  <2> QED  BY <1>3, <2>2 DEF StartedInDay, S, T
<1> QED  BY <1>5, <1>6

\* The days' shares of re-analyses and reports, and of newcomers.
Shares == AllowanceKept /\ NewcomersKept

\* A step that moves no first hour keeps both: what starts is within its share.
LEMMA SharesKept ==
  ASSUME TypeOK, WaitingHoldsNothing, Shares, QuietTable(jobs') \/ Inserted \/ Claimed
  PROVE  Shares'
<1>0. Cap \in Nat /\ NewcomerCap \in Nat
  BY AllowanceAssumption
<1>1. ASSUME NEW u \in Targets, NEW d \in 1 .. MaxDay, NEW reasons, NEW cap \in Nat,
             StartedInDay(jobs, u, d, reasons) <= cap,
             SpendingIn(jobs', u, d, reasons) \subseteq SpendingIn(jobs, u, d, reasons)
      PROVE  StartedInDay(jobs', u, d, reasons) <= cap
  <2>1. PICK i : i \notin SpendingIn(jobs', u, d, reasons)
    <3>1. MaxId + 1 \notin SpendingIn(jobs', u, d, reasons)
      BY BoundAssumption DEF SpendingIn, Ids
    <3> QED  BY <3>1
  <2>2. SpendingIn(jobs', u, d, reasons) \subseteq SpendingIn(jobs, u, d, reasons) \cup {i}
    BY <1>1
  <2>3. /\ StartedInDay(jobs', u, d, reasons) \in Nat
        /\ StartedInDay(jobs, u, d, reasons) \in Nat
        /\ StartedInDay(jobs', u, d, reasons) <= StartedInDay(jobs, u, d, reasons)
    BY <2>1, <2>2, OneMoreStart
  <2> QED  BY <1>1, <2>3
<1>2. \A d \in 1 .. MaxDay : d \in Nat \ {0}
  BY QueueBoundAssumption
<1>3. CASE QuietTable(jobs')
  <2>1. \A u \in Targets, d \in 1 .. MaxDay, reasons \in {Newcomer, Reanalysis} :
          SpendingIn(jobs', u, d, reasons) \subseteq SpendingIn(jobs, u, d, reasons)
    BY <1>2, <1>3, QuietSpending
  <2>2. AllowanceKept'
    BY <1>0, <1>1, <2>1 DEF Shares, AllowanceKept
  <2>3. NewcomersKept'
    BY <1>0, <1>1, <2>1 DEF Shares, NewcomersKept
  <2> QED  BY <2>2, <2>3 DEF Shares
<1>4. CASE Inserted
  <2>1. PICK i \in Ids : jobs'[i].started = 0 /\ \A j \in Ids \ {i} : jobs'[j] = jobs[j]
    BY <1>4 DEF Inserted
  <2>2. \A u \in Targets, d \in 1 .. MaxDay, reasons \in {Newcomer, Reanalysis} :
          SpendingIn(jobs', u, d, reasons) \subseteq SpendingIn(jobs, u, d, reasons)
    BY <1>2, <2>1 DEF SpendingIn
  <2>3. AllowanceKept'
    BY <1>0, <1>1, <2>2 DEF Shares, AllowanceKept
  <2>4. NewcomersKept'
    BY <1>0, <1>1, <2>2 DEF Shares, NewcomersKept
  <2> QED  BY <2>3, <2>4 DEF Shares
<1>5. CASE Claimed
  <2>1. PICK p \in Procs, t \in Targets, i \in Ids : ClaimedRow(p, t, i, execute[t], First(t))
    BY <1>5 DEF Claimed
  <2>2. PICK table \in [Ids -> Row \cup {NoRow}] : ClaimsIn(table, p, t, i, execute[t], First(t))
    BY <2>1, ClaimedTable
  <2>3. QuietTable(table) /\ table[i].target = t
    BY <2>2 DEF ClaimsIn
  <2>4. ASSUME NEW u \in Targets, NEW d \in 1 .. MaxDay, NEW reasons, NEW cap \in Nat,
               StartedInDay(jobs, u, d, reasons) <= cap,
               i \in SpendingIn(jobs', u, d, reasons) => StartedInDay(table, u, d, reasons) < cap
        PROVE  StartedInDay(jobs', u, d, reasons) <= cap
    <3>1. SpendingIn(jobs', u, d, reasons) \subseteq SpendingIn(table, u, d, reasons) \cup {i}
      BY <2>2, ClaimedSpending
    <3>2. SpendingIn(table, u, d, reasons) \subseteq SpendingIn(jobs, u, d, reasons)
      BY <1>2, <2>3, QuietSpending
    <3>3. CASE i \in SpendingIn(jobs', u, d, reasons)
      <4>1. /\ StartedInDay(jobs', u, d, reasons) <= StartedInDay(table, u, d, reasons) + 1
            /\ StartedInDay(jobs', u, d, reasons) \in Nat
            /\ StartedInDay(table, u, d, reasons) \in Nat
        BY <3>1, OneMoreStart
      <4> QED  BY <2>4, <3>3, <4>1
    <3>4. CASE i \notin SpendingIn(jobs', u, d, reasons)
      <4>1. SpendingIn(jobs', u, d, reasons) \subseteq SpendingIn(jobs, u, d, reasons)
        BY <3>1, <3>2, <3>4
      <4> QED  BY <1>1, <2>4, <4>1
    <3> QED  BY <3>3, <3>4
  <2>5. ASSUME NEW u \in Targets, NEW d \in 1 .. MaxDay
        PROVE  /\ StartedInDay(jobs', u, d, Reanalysis) <= Cap
               /\ StartedInDay(jobs', u, d, Newcomer) <= NewcomerCap
    <3>1. \A reasons : i \in SpendingIn(jobs', u, d, reasons) =>
            /\ u = t /\ d = day /\ table[i].reason \in reasons
            /\ ~FirstHourJob(table[i]) /\ WithinAllowance(table, table[i], day)
      BY <2>2, ClaimedSpending
    <3>2. i \in SpendingIn(jobs', u, d, Reanalysis) => StartedInDay(table, u, d, Reanalysis) < Cap
      <4> SUFFICES ASSUME i \in SpendingIn(jobs', u, d, Reanalysis)
                   PROVE  StartedInDay(table, u, d, Reanalysis) < Cap
        OBVIOUS
      <4>1. StartedInDay(table, u, d, Reanalysis) \in Nat
        BY OneMoreStart
      <4>2. /\ table[i].reason \in Reanalysis /\ ~FirstHourJob(table[i])
            /\ WithinAllowance(table, table[i], d) /\ table[i].target = u
        BY <2>3, <3>1
      <4> QED  BY <4>1, <4>2, AllowanceAssumption DEF WithinAllowance, Reanalysis
    <3>3. i \in SpendingIn(jobs', u, d, Newcomer) =>
            StartedInDay(table, u, d, Newcomer) < NewcomerCap
      <4> SUFFICES ASSUME i \in SpendingIn(jobs', u, d, Newcomer)
                   PROVE  StartedInDay(table, u, d, Newcomer) < NewcomerCap
        OBVIOUS
      <4>1. /\ table[i].reason \in Newcomer /\ ~FirstHourJob(table[i])
            /\ WithinAllowance(table, table[i], d) /\ table[i].target = u
        BY <2>3, <3>1
      <4> QED  BY <4>1 DEF WithinAllowance, Newcomer
    <3>4. /\ StartedInDay(jobs, u, d, Reanalysis) <= Cap
          /\ StartedInDay(jobs, u, d, Newcomer) <= NewcomerCap
      BY DEF Shares, AllowanceKept, NewcomersKept
    <3> QED  BY <1>0, <2>4, <3>2, <3>3, <3>4
  <2> QED  BY <2>5 DEF Shares, AllowanceKept, NewcomersKept
<1> QED  BY <1>3, <1>4, <1>5

-----------------------------------------------------------------------------
(* The theorems.                                                           *)

\* The inductive invariant: the properties, from the first day on.
JobInv ==
  /\ OneLiveJob /\ WaitingHoldsNothing /\ SlotsKept /\ MeasuredAlone
  /\ day \in Nat \ {0}

\* The day stays or is the next.
LEMMA DaysPass == Next => day' = day \/ day' = day + 1
<1> SUFFICES ASSUME Next PROVE day' = day \/ day' = day + 1
  OBVIOUS
<1> USE DEF envVars
<1>1. Environment => day' = day \/ day' = day + 1
  BY DEF Environment, StartProcess, StartQueue, EndProcess, StopQueue, QueueStopped, PassEnds,
         TurnOn, StartHour, ChangeSignIn, ChangeExecute, TurnOff, EndHour, NextDay, Setting
<1>2. ASSUME NEW p \in Procs, Pass(p) PROVE day' = day
  <2>1. QueueStep(p)
    BY <1>2 DEF Pass, Recover, AskNew, AskStale, AskFirstHour, AskRetry, DropFirstHour, Trim,
                ClaimNoJob, Claim
  <2> QED  BY <2>1 DEF QueueStep
<1>3. ASSUME NEW p \in Procs, Requests(p) PROVE day' = day
  <2>1. \A t \in Targets, k \in Keys :
          AskClick(p, t, k) \/ ClickWaiting(p, t, k) => day' = day
    BY DEF AskClick, ClickWaiting, Request
  <2>2. \A t \in Targets, k \in Keys :
          AskForReport(p, t, k) \/ RecordPasted(p, t, k) => day' = day
    BY DEF AskForReport, RecordPasted, Request
  <2>3. Wake(p) => day' = day
    BY DEF Wake, Request
  <2>4. \A i \in Ids : Cancel(p, i) => day' = day
    BY DEF Cancel, Request
  <2>5. \A t \in Targets : BeginRemoval(p, t) => day' = day
    BY DEF BeginRemoval, Request
  <2> QED  BY <1>3, <2>1, <2>2, <2>3, <2>4, <2>5 DEF Requests
<1>4. \A ask \in asked : Enqueue(ask) => day' = day
  BY DEF Enqueue
<1>5. \A t \in Targets : FinishRemoval(t) => day' = day
  BY DEF FinishRemoval
<1>6. ASSUME NEW task \in tasks, Worker(task) PROVE day' = day
  BY <1>6 DEF Worker, StartSampling, StartAnalysis, LeaveJob, Hold, Skip, RetryAtOnce, Done, Raise,
         Fail, HitDeadline, CloseDeadline, EndCancelled, Step
<1> QED  BY <1>1, <1>2, <1>3, <1>4, <1>5, <1>6 DEF Next

\* An empty table has all of them, and every step of the queue keeps them.
LEMMA JobInvariant == Spec => []JobInv
<1>1. Init => JobInv
  <2> SUFFICES ASSUME Init PROVE JobInv
    OBVIOUS
  <2>1. Used = {} /\ day = 1
    BY DEF Init, StoreInit, Used
  <2>2. \A t : Running(t) = {}
    BY <2>1 DEF Running, RowsOf
  <2>3. SlotsKept
    BY <2>2, FS_EmptySet, AllowanceAssumption DEF SlotsKept
  <2> QED  BY <2>1, <2>2, <2>3 DEF JobInv, OneLiveJob, WaitingHoldsNothing, MeasuredAlone
<1>2. TypeOK /\ JobInv /\ [Next]_vars => JobInv'
  <2> SUFFICES ASSUME TypeOK, JobInv, [Next]_vars PROVE JobInv'
    OBVIOUS
  <2>1. CASE UNCHANGED vars
    <3>1. jobs' = jobs /\ day' = day
      BY <2>1 DEF vars
    <3>2. OneLiveJob' /\ WaitingHoldsNothing' /\ SlotsKept' /\ MeasuredAlone'
      BY <3>1 DEF JobInv, OneLiveJob, WaitingHoldsNothing, SlotsKept, MeasuredAlone, Running,
                  RowsOf, Used, Ids
    <3> QED  BY <3>1, <3>2 DEF JobInv
  <2>2. CASE Next
    <3>1. CalmTable(jobs') \/ Inserted \/ Claimed
      BY <2>2, StepCalm
    <3>2. day' \in Nat \ {0}
      <4>1. day' = day \/ day' = day + 1
        BY <2>2, DaysPass
      <4> QED  BY <4>1 DEF JobInv
    <3> QED  BY <3>1, <3>2, OneLiveKept, WaitingKept, SlotsStep, MeasuredStep DEF JobInv
  <2> QED  BY <2>1, <2>2
<1> QED  BY <1>1, <1>2, TypeCorrect, PTL DEF Spec

\* One query never has two analyses waiting or running, whichever clicks, reports, passes,
\* recoveries and retries put them there (enqueue_analysis).
THEOREM QueryHasOneLiveJob == Spec => []OneLiveJob
<1>1. JobInv => OneLiveJob
  BY DEF JobInv
<1> QED  BY <1>1, JobInvariant, PTL

\* A job that waits holds neither a claim nor a place in the day's allowance; one that runs
\* has both, whatever holds, recoveries and reclaims it went through.
THEOREM WaitingJobsHoldNothing == Spec => []WaitingHoldsNothing
<1>1. JobInv => WaitingHoldsNothing
  BY DEF JobInv
<1> QED  BY <1>1, JobInvariant, PTL

\* Never more than PLAN_ANALYSIS_CONCURRENCY jobs of one database run at once, however many
\* processes claim (claim_analysis).
THEOREM SlotsHold == Spec => []SlotsKept
<1>1. JobInv => SlotsKept
  BY DEF JobInv
<1> QED  BY <1>1, JobInvariant, PTL

\* A query measured with EXPLAIN ANALYZE has its database to itself, apart from jobs that
\* started in the first monitored hour, whenever the setting is changed (claim_analysis).
THEOREM MeasurementIsAlone == Spec => []MeasuredAlone
<1>1. JobInv => MeasuredAlone
  BY DEF JobInv
<1> QED  BY <1>1, JobInvariant, PTL

\* Without a change of what is monitored no turn-on moves a first hour.
LEMMA NoTurnOns ==
  ASSUME "monitoring" \notin Changes, turning = {}, Next
  PROVE  turning' = {} /\ ~HourMoved
<1> USE DEF envVars, targetVars
<1>1. Environment => turning' = {}
  BY DEF Environment, StartProcess, StartQueue, EndProcess, StopQueue, QueueStopped, PassEnds,
         TurnOn, StartHour, ChangeSignIn, ChangeExecute, TurnOff, EndHour, NextDay, Setting
<1>2. ASSUME NEW p \in Procs, Pass(p) PROVE turning' = {}
  <2>1. QueueStep(p)
    BY <1>2 DEF Pass, Recover, AskNew, AskStale, AskFirstHour, AskRetry, DropFirstHour, Trim,
                ClaimNoJob, Claim
  <2> QED  BY <2>1 DEF QueueStep
<1>3. ASSUME NEW p \in Procs, Requests(p) PROVE turning' = {}
  <2>1. \A t \in Targets, k \in Keys :
          AskClick(p, t, k) \/ ClickWaiting(p, t, k) => turning' = {}
    BY DEF AskClick, ClickWaiting, Request
  <2>2. \A t \in Targets, k \in Keys :
          AskForReport(p, t, k) \/ RecordPasted(p, t, k) => turning' = {}
    BY DEF AskForReport, RecordPasted, Request
  <2>3. Wake(p) => turning' = {}
    BY DEF Wake, Request
  <2>4. \A i \in Ids : Cancel(p, i) => turning' = {}
    BY DEF Cancel, Request
  <2>5. \A t \in Targets : BeginRemoval(p, t) => turning' = {}
    BY DEF BeginRemoval, Request
  <2> QED  BY <1>3, <2>1, <2>2, <2>3, <2>4, <2>5 DEF Requests
<1>4. \A ask \in asked : Enqueue(ask) => turning' = {}
  BY DEF Enqueue
<1>5. \A t \in Targets : FinishRemoval(t) => turning' = {}
  BY DEF FinishRemoval
<1>6. ASSUME NEW task \in tasks, Worker(task) PROVE turning' = {}
  BY <1>6 DEF Worker, StartSampling, StartAnalysis, LeaveJob, Hold, Skip, RetryAtOnce, Done, Raise,
         Fail, HitDeadline, CloseDeadline, EndCancelled, Step
<1>7. ~HourMoved
  BY DEF HourMoved, StartHour
<1> QED  BY <1>1, <1>2, <1>3, <1>4, <1>5, <1>6, <1>7 DEF Next

\* Both shares hold as long as no first hour is moved.
LEMMA SharesHold ==
  ASSUME "monitoring" \notin Changes
  PROVE  Spec => []Shares
<1> DEFINE SharesInv == Shares /\ turning = {}
<1>1. Init => SharesInv
  <2> SUFFICES ASSUME Init PROVE SharesInv
    OBVIOUS
  <2>1. \A u, d, reasons : SpendingIn(jobs, u, d, reasons) = {}
    BY DEF Init, StoreInit, SpendingIn
  <2>2. \A u, d, reasons : StartedInDay(jobs, u, d, reasons) = 0
    BY <2>1, FS_EmptySet DEF StartedInDay
  <2> QED  BY <2>2, AllowanceAssumption DEF Init, Shares, AllowanceKept, NewcomersKept
<1>2. TypeOK /\ JobInv /\ SharesInv /\ [Next]_vars => SharesInv'
  <2> SUFFICES ASSUME TypeOK, JobInv, SharesInv, [Next]_vars PROVE SharesInv'
    OBVIOUS
  <2>1. CASE UNCHANGED vars
    <3>1. jobs' = jobs /\ turning' = turning
      BY <2>1 DEF vars
    <3> QED  BY <3>1 DEF Shares, AllowanceKept, NewcomersKept, StartedInDay, SpendingIn
  <2>2. CASE Next
    <3>1. turning' = {} /\ (QuietTable(jobs') \/ Inserted \/ Claimed)
      BY <2>2, NoTurnOns, StepQuiet
    <3>2. WaitingHoldsNothing
      BY DEF JobInv
    <3> QED  BY <3>1, <3>2, SharesKept
  <2> QED  BY <2>1, <2>2
<1>3. SharesInv => Shares
  OBVIOUS
<1> QED  BY <1>1, <1>2, <1>3, TypeCorrect, JobInvariant, PTL DEF Spec

\* Never more re-analyses and reports than the day's allowance start in a day, whoever claims,
\* takes jobs over, recovers or retries them, while what is monitored stays (claim_analysis,
\* _started_in_day).
THEOREM AllowanceHolds ==
  ASSUME "monitoring" \notin Changes
  PROVE  Spec => []AllowanceKept
<1>1. Shares => AllowanceKept
  BY DEF Shares
<1> QED  BY <1>1, SharesHold, PTL

\* Nor more newcomers than theirs.
THEOREM NewcomersHold ==
  ASSUME "monitoring" \notin Changes
  PROVE  Spec => []NewcomersKept
<1>1. Shares => NewcomersKept
  BY DEF Shares
<1> QED  BY <1>1, SharesHold, PTL

\* A re-analysis never starts into the part of the allowance kept for reports, not even one
\* queued while there still was room; and also where first hours move (claim_analysis).
THEOREM ReserveHolds == Spec => ReserveKept
<1> DEFINE Starts(i, t) ==
             /\ jobs[i].state = "queued" /\ jobs'[i] # NoRow /\ jobs'[i].state = "running"
             /\ jobs[i].target = t /\ jobs[i].reason = "top15_stale" /\ ~FirstHourJob(jobs[i])
           Kept == \A i \in Used, t \in Targets :
                     Starts(i, t) => StartedInDay(jobs', t, day, Reanalysis) + Reserve <= Cap
<1>1. TypeOK /\ [Next]_vars => [Kept]_vars
  <2> SUFFICES ASSUME TypeOK, Next, NEW i \in Used, NEW u \in Targets, Starts(i, u)
               PROVE  StartedInDay(jobs', u, day, Reanalysis) + Reserve <= Cap
    OBVIOUS
  <2>1. i \in Ids /\ jobs[i] # NoRow
    BY DEF Used
  <2>2. ~CalmTable(jobs')
    <3>1. ~Calm(jobs[i], jobs'[i])
      BY DEF Calm, Stays, PutBack, Ended
    <3> QED  BY <2>1, <3>1 DEF CalmTable
  <2>3. ~Inserted
    BY <2>1 DEF Inserted, Ended
  <2>4. Claimed
    BY <2>2, <2>3, StepCalm
  <2>5. PICK p \in Procs, t \in Targets, j \in Ids : ClaimedRow(p, t, j, execute[t], First(t))
    BY <2>4 DEF Claimed
  <2>6. PICK table \in [Ids -> Row \cup {NoRow}] : ClaimsIn(table, p, t, j, execute[t], First(t))
    BY <2>5, ClaimedTable
  <2>7. /\ CalmTable(table)
        /\ jobs[j].state = "running" \/ table[j] = jobs[j]
        /\ table[j].reason = "user" \/ WithinAllowance(table, table[j], day)
        /\ \A k \in Ids \ {j} : jobs'[k] = table[k]
    BY <2>6 DEF ClaimsIn
  <2>8. i = j
    <3>1. SUFFICES ASSUME i # j PROVE FALSE
      OBVIOUS
    <3>2. table[i] = jobs'[i] /\ Calm(jobs[i], table[i])
      BY <2>1, <2>7, <3>1 DEF CalmTable
    <3> QED  BY <3>2 DEF Calm, Stays, PutBack, Ended
  <2>9. table[i] = jobs[i]
    BY <2>7, <2>8
  <2>10. StartedInDay(table, u, day, Reanalysis) + Reserve < Cap
    BY <2>7, <2>8, <2>9 DEF WithinAllowance
  <2>11. /\ StartedInDay(jobs', u, day, Reanalysis) <= StartedInDay(table, u, day, Reanalysis) + 1
         /\ StartedInDay(jobs', u, day, Reanalysis) \in Nat
         /\ StartedInDay(table, u, day, Reanalysis) \in Nat
    <3>1. SpendingIn(jobs', u, day, Reanalysis) \subseteq
            SpendingIn(table, u, day, Reanalysis) \cup {j}
      BY <2>6, ClaimedSpending
    <3> QED  BY <3>1, OneMoreStart
  <2> QED  BY <2>10, <2>11, AllowanceAssumption
<1> QED  BY <1>1, TypeCorrect, PTL DEF Spec, ReserveKept
=============================================================================
