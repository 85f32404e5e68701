----------------------------- MODULE BoardProofs -----------------------------
(***************************************************************************)
(* AnalyzeQueue implements JobBoard, for every value of its constants:     *)
(* every step of every process and worker is a legal move of the jobs it   *)
(* touches, or leaves the board as it is.                                  *)
(***************************************************************************)
EXTENDS AnalyzeQueueBoard, JobProofs

-----------------------------------------------------------------------------
(* How the rows may move in one step.                                      *)

\* A row stays its job's: it keeps its state and its claims, starts under a new claim, goes
\* back to waiting, or ends; one that only waited can only be skipped.
Shift(old, new) ==
  /\ new.serial = old.serial /\ new.target = old.target /\ new.key = old.key
  /\ \/ new.state = old.state /\ new.attempt = old.attempt
     \/ old.state \in Live /\ new.state = "running" /\ new.attempt > old.attempt
     \/ old.state = "running" /\ new.state = "queued" /\ new.attempt >= old.attempt
     \/ /\ old.state \in Live /\ new.state \in Ended /\ new.attempt >= old.attempt
        /\ old.state = "queued" => new.state = "skipped"

ShiftedTable(table) ==
  \A i \in Ids : table[i] # NoRow => jobs[i] # NoRow /\ Shift(jobs[i], table[i])
RowsShift == serial' = serial /\ ShiftedTable(jobs')

\* Or one row is put in, under the next serial number.
RowAdded ==
  /\ serial' = serial + 1
  /\ \E i \in Ids :
       /\ jobs[i] = NoRow /\ \A j \in Ids \ {i} : jobs'[j] = jobs[j]
       /\ jobs'[i] # NoRow /\ jobs'[i].serial = serial /\ jobs'[i].attempt = 0
       /\ jobs'[i].state \in {"queued", "done", "skipped"}

\* A row that is left as it is.
LEMMA ShiftSame == \A row : Shift(row, row)
BY DEF Shift

\* Counts of claims.
LEMMA ClaimCounts ==
  ASSUME NEW m \in Nat
  PROVE  m >= m /\ m + 1 > m /\ m + 1 >= m /\ (m + 1) + 1 > m
OBVIOUS

\* What the operations write into a row of the table.
LEMMA ShiftWrites ==
  ASSUME NEW row \in Row
  PROVE  /\ \A clicked : Shift(row, [row EXCEPT !.clicked = clicked])
         /\ \A reason, clicked : Shift(row, [row EXCEPT !.reason = reason, !.clicked = clicked])
         /\ \A error : Shift(row, [row EXCEPT !.error = error])
         /\ \A error : row.state = "running" =>
              Shift(row, [row EXCEPT !.state = "queued", !.started = 0, !.error = error,
                                     !.owner = NoProc])
         /\ Shift(row, [row EXCEPT !.firstHour = FALSE])
<1>1. \A clicked : Shift(row, [row EXCEPT !.clicked = clicked])
  BY DEF Shift, Row
<1>2. \A reason, clicked : Shift(row, [row EXCEPT !.reason = reason, !.clicked = clicked])
  BY DEF Shift, Row
<1>3. \A error : Shift(row, [row EXCEPT !.error = error])
  BY DEF Shift, Row
<1>4. ASSUME NEW error, row.state = "running"
      PROVE  Shift(row, [row EXCEPT !.state = "queued", !.started = 0, !.error = error,
                                    !.owner = NoProc])
  <2> DEFINE new == [row EXCEPT !.state = "queued", !.started = 0, !.error = error,
                                !.owner = NoProc]
  <2>1. /\ new.serial = row.serial /\ new.target = row.target /\ new.key = row.key
        /\ new.attempt = row.attempt /\ new.state = "queued" /\ row.attempt \in Nat
    BY DEF Row
  <2> HIDE DEF new
  <2>2. new.attempt >= row.attempt
    BY <2>1, ClaimCounts
  <2> QED  BY <1>4, <2>1, <2>2 DEF Shift
<1>5. Shift(row, [row EXCEPT !.firstHour = FALSE])
  BY DEF Shift, Row
<1> QED  BY <1>1, <1>2, <1>3, <1>4, <1>5

\* A row that ends.
LEMMA ShiftEnds ==
  ASSUME NEW row \in Row, NEW new, row.state \in Live, new.state \in Ended,
         row.state = "queued" => new.state = "skipped",
         new.serial = row.serial, new.target = row.target, new.key = row.key,
         new.attempt = row.attempt \/ new.attempt = row.attempt + 1
  PROVE  Shift(row, new)
<1>1. row.attempt \in Nat
  BY DEF Row
<1>2. new.attempt >= row.attempt
  BY <1>1, ClaimCounts
<1> QED  BY <1>2 DEF Shift

\* What recoveries and claims make of a row.
LEMMA ShiftChanges ==
  ASSUME NEW row \in Row
  PROVE  /\ row.state = "running" => Shift(row, Requeued(row))
         /\ \A d : row.state = "running" => Shift(row, Recovered(row, d))
<1>0. row.attempt \in Nat /\ row.attempt + 1 >= row.attempt
  BY ClaimCounts DEF Row
<1>1. ASSUME row.state = "running" PROVE Shift(row, Requeued(row))
  <2> DEFINE new == Requeued(row)
  <2>1. /\ new.serial = row.serial /\ new.target = row.target /\ new.key = row.key
        /\ new.attempt = row.attempt + 1 /\ new.state = "queued"
    BY DEF Requeued, Row
  <2> HIDE DEF new
  <2>2. Shift(row, new)
    BY <1>0, <1>1, <2>1 DEF Shift
  <2> QED  BY <2>2 DEF new
<1>2. ASSUME NEW d, row.state = "running" PROVE Shift(row, Recovered(row, d))
  <2> DEFINE new == Recovered(row, d)
  <2>1. CASE row.error \in Marked
    <3>1. /\ new.serial = row.serial /\ new.target = row.target /\ new.key = row.key
          /\ new.attempt = row.attempt + 1 /\ new.state = "failed"
      BY <2>1 DEF Recovered, Row
    <3> HIDE DEF new
    <3>2. Shift(row, new)
      BY <1>2, <3>1, ShiftEnds DEF Live, Ended
    <3> QED  BY <3>2 DEF new
  <2>2. CASE row.error \notin Marked
    <3>1. /\ new.serial = row.serial /\ new.target = row.target /\ new.key = row.key
          /\ new.attempt = row.attempt + 1 /\ new.state = "queued"
      BY <2>2 DEF Recovered, Row
    <3> HIDE DEF new
    <3>2. Shift(row, new)
      BY <1>0, <1>2, <3>1 DEF Shift
    <3> QED  BY <3>2 DEF new
  <2> QED  BY <2>1, <2>2
<1> QED  BY <1>1, <1>2

\* A waiting row that starts, put back in the same step or not.
LEMMA ShiftStarts ==
  ASSUME NEW old \in Row, NEW row \in Row, row.state = "queued",
         row = old \/ (old.state = "running" /\ row = Requeued(old)),
         NEW p, NEW d, NEW measured, NEW first
  PROVE  Shift(old, Started(row, p, d, measured, first))
<1> DEFINE new == Started(row, p, d, measured, first)
<1>1. /\ new.serial = row.serial /\ new.target = row.target /\ new.key = row.key
      /\ new.attempt = row.attempt + 1 /\ new.state = "running"
  BY DEF Started, Row
<1>2. /\ row.serial = old.serial /\ row.target = old.target /\ row.key = old.key
      /\ old.state \in Live
      /\ row.attempt = old.attempt \/ row.attempt = old.attempt + 1
  BY DEF Requeued, Row, Live
<1>3. old.attempt \in Nat
  BY DEF Row
<1> HIDE DEF new
<1>4. new.attempt > old.attempt
  BY <1>1, <1>2, <1>3, ClaimCounts
<1>5. Shift(old, new)
  BY <1>1, <1>2, <1>4 DEF Shift
<1> QED  BY <1>5 DEF new

\* The ways an operation writes the table.
LEMMA WritesShift ==
  ASSUME StoreTypeOK
  PROVE  /\ \A ids : Delete(ids) => RowsShift
         /\ UNCHANGED storeVars => RowsShift
         /\ \A i \in Used : \A row : Shift(jobs[i], row) /\ Update(i, row) => RowsShift
         /\ \A row \in Row : /\ row.serial = serial /\ row.attempt = 0 /\ Insert(row)
                            /\ row.state \in {"queued", "done", "skipped"}
                            => RowAdded
<1>1. ASSUME NEW ids, Delete(ids) PROVE RowsShift
  BY <1>1, ShiftSame DEF Delete, RowsShift, ShiftedTable
<1>2. ASSUME UNCHANGED storeVars PROVE RowsShift
  BY <1>2, ShiftSame DEF storeVars, RowsShift, ShiftedTable
<1>3. ASSUME NEW i \in Used, NEW row, Shift(jobs[i], row), Update(i, row)
      PROVE  RowsShift
  <2>1. i \in Ids /\ jobs[i] # NoRow /\ jobs'[i] = row
    BY <1>3, UsedRows, NoRowAssumption DEF Update, StoreTypeOK
  <2>2. \A j \in Ids \ {i} : jobs'[j] = jobs[j]
    BY <1>3 DEF Update, StoreTypeOK
  <2>3. serial' = serial
    BY <1>3 DEF Update
  <2> QED  BY <1>3, <2>1, <2>2, <2>3, ShiftSame DEF RowsShift, ShiftedTable
<1>4. ASSUME NEW row \in Row, row.serial = serial, row.attempt = 0, Insert(row),
             row.state \in {"queued", "done", "skipped"}
      PROVE  RowAdded
  <2>1. PICK i \in Ids : IsNextId(i) /\ jobs' = [jobs EXCEPT ![i] = row]
    BY <1>4 DEF Insert
  <2>2. jobs'[i] = row /\ \A j \in Ids \ {i} : jobs'[j] = jobs[j]
    BY <2>1 DEF StoreTypeOK
  <2>3. jobs[i] = NoRow
    <3>1. i \notin Used
      BY <2>1 DEF IsNextId, Ids
    <3> QED  BY <3>1 DEF Used
  <2>4. serial' = serial + 1
    BY <1>4 DEF Insert
  <2> QED  BY <1>4, <2>2, <2>3, <2>4, NoRowAssumption DEF RowAdded
<1> QED  BY <1>1, <1>2, <1>3, <1>4

-----------------------------------------------------------------------------
(* Every operation of the store moves the rows this way.                   *)

\* The fields of a new row that the board reads.
LEMMA NewRowMoves ==
  ASSUME NEW t, NEW k, NEW reason, NEW state, NEW d, NEW first
  PROVE  LET row == NewRow(t, k, reason, state, d, first)
             skip == [row EXCEPT !.error = "not eligible"]
         IN  /\ row.serial = serial /\ row.attempt = 0 /\ row.state = state
             /\ skip.serial = serial /\ skip.attempt = 0 /\ skip.state = state
BY DEF NewRow

\* Enqueuing, skipping and recording put in a row at most.
LEMMA EnqueueShifts ==
  ASSUME StoreTypeOK, NEW t \in Targets, NEW k \in Keys, NEW reason \in Reasons,
         NEW d \in Nat, NEW first \in BOOLEAN, NEW capped \in BOOLEAN
  PROVE  /\ EnqueueAnalysis(t, k, reason, d, first, capped) => RowsShift \/ RowAdded
         /\ SkipAnalysisOnce(t, k, reason, d, first) => RowsShift \/ RowAdded
         /\ RecordUserAnalysis(t, k, d, first) => RowAdded
<1>1. \A i \in LiveRows(t, k) : i \in Used /\ jobs[i] \in Row /\ jobs[i].state \in Live
  BY UsedRows DEF LiveRows, RowsOf
<1>0. /\ serial \in Nat /\ {"queued", "done", "skipped"} \subseteq Live \cup Ended
      /\ "not eligible" \in Errors /\ "user" \in Reasons
  BY DEF StoreTypeOK, Live, Ended, Errors, Reasons
<1>2. ASSUME NEW state \in {"queued", "done", "skipped"}, NEW cause \in Reasons,
             Insert(NewRow(t, k, cause, state, d, first))
      PROVE  RowAdded
  <2> DEFINE row == NewRow(t, k, cause, state, d, first)
  <2>1. row.serial = serial /\ row.attempt = 0 /\ row.state = state
    BY NewRowMoves
  <2>2. Insert(row) /\ row \in Row
    BY <1>0, <1>2, NewRowType
  <2> HIDE DEF row
  <2> QED  BY <2>1, <2>2, WritesShift
<1>3. UNCHANGED storeVars => RowsShift
  BY WritesShift
<1>4. ASSUME EnqueueAnalysis(t, k, reason, d, first, capped) PROVE RowsShift \/ RowAdded
  <2>1. ASSUME NEW i \in LiveRows(t, k),
               Update(i, [jobs[i] EXCEPT !.reason = reason,
                                         !.clicked = @ \/ reason = "user"])
        PROVE  RowsShift
    <3> DEFINE clicked == jobs[i].clicked \/ reason = "user"
               row == [jobs[i] EXCEPT !.reason = reason, !.clicked = clicked]
    <3>1. Update(i, row)
      BY <2>1
    <3> HIDE DEF clicked
    <3>2. Shift(jobs[i], row)
      BY <1>1, <2>1, ShiftWrites
    <3> HIDE DEF row
    <3> QED  BY <1>1, <3>1, <3>2, WritesShift
  <2>2. Insert(NewRow(t, k, reason, "queued", d, first)) => RowAdded
    BY <1>2
  <2> QED  BY <1>3, <1>4, <2>1, <2>2 DEF EnqueueAnalysis
<1>5. ASSUME SkipAnalysisOnce(t, k, reason, d, first) PROVE RowsShift \/ RowAdded
  <2>1. ASSUME NEW i \in LiveRows(t, k), jobs[i].state = "queued",
               Update(i, [jobs[i] EXCEPT !.state = "skipped", !.finished = d,
                                         !.error = "not eligible"])
        PROVE  RowsShift
    <3> DEFINE row == [jobs[i] EXCEPT !.state = "skipped", !.finished = d,
                                      !.error = "not eligible"]
    <3>1. /\ row.state = "skipped" /\ row.serial = jobs[i].serial
          /\ row.target = jobs[i].target /\ row.key = jobs[i].key
          /\ row.attempt = jobs[i].attempt
      BY <1>1 DEF Row
    <3>2. Update(i, row)
      BY <2>1
    <3> HIDE DEF row
    <3>3. Shift(jobs[i], row)
      BY <1>1, <3>1, ShiftEnds DEF Ended
    <3> QED  BY <1>1, <3>2, <3>3, WritesShift
  <2>2. ASSUME Insert([NewRow(t, k, reason, "skipped", d, first) EXCEPT !.error = "not eligible"])
        PROVE  RowAdded
    <3> DEFINE row == [NewRow(t, k, reason, "skipped", d, first) EXCEPT !.error = "not eligible"]
    <3>1. row.serial = serial /\ row.attempt = 0 /\ row.state = "skipped"
      BY NewRowMoves
    <3>2. Insert(row)
      BY <2>2
    <3>3. row \in Row
      <4>1. NewRow(t, k, reason, "skipped", d, first) \in Row
        BY <1>0, NewRowType
      <4> QED  BY <1>0, <4>1, RowWrites
    <3> HIDE DEF row
    <3> QED  BY <3>1, <3>2, <3>3, WritesShift
  <2> QED  BY <1>3, <1>5, <2>1, <2>2 DEF SkipAnalysisOnce
<1>6. RecordUserAnalysis(t, k, d, first) => RowAdded
  BY <1>0, <1>2 DEF RecordUserAnalysis
<1> QED  BY <1>4, <1>5, <1>6

\* A claim puts rows of dead owners back and starts at most one.
LEMMA ClaimShifts ==
  ASSUME StoreTypeOK, NEW p, NEW t, NEW d, NEW measured, NEW first, NEW dead, NEW signed,
         NEW watched
  PROVE  /\ \A i \in Ids :
              ClaimAnalysis(p, t, d, dead, measured, first, signed, watched, i) => RowsShift
         /\ ClaimNothing(p, t, dead, measured, first, signed) => RowsShift
<1> DEFINE table == Reclaimed(p, t, dead)
<1>1. ASSUME NEW j \in Ids
      PROVE  \/ table[j] = jobs[j]
             \/ /\ jobs[j] # NoRow /\ jobs[j] \in Row /\ jobs[j].state = "running"
                /\ table[j] = Requeued(jobs[j])
  <2>1. j \in Running(t) => jobs[j] # NoRow /\ jobs[j] \in Row /\ jobs[j].state = "running"
    BY UsedRows, NoRowAssumption DEF Running, RowsOf
  <2> QED  BY <2>1 DEF Reclaimed
<1>2. ASSUME NEW j \in Ids, table[j] # NoRow
      PROVE  jobs[j] # NoRow /\ jobs[j] \in Row /\ Shift(jobs[j], table[j])
  <2> HIDE DEF table
  <2>1. CASE table[j] = jobs[j]
    BY <1>2, <2>1, ShiftSame DEF StoreTypeOK
  <2>2. CASE table[j] # jobs[j]
    BY <1>1, <2>2, ShiftChanges
  <2> QED  BY <2>1, <2>2
<1>3. ASSUME NEW i \in Ids,
             ClaimAnalysis(p, t, d, dead, measured, first, signed, watched, i)
      PROVE  RowsShift
  <2>1. /\ table[i] # NoRow /\ table[i].state = "queued"
        /\ jobs' = [table EXCEPT ![i] = Started(table[i], p, d, measured, first)]
        /\ serial' = serial
    BY <1>3 DEF ClaimAnalysis, NextJobs, QueuedIn
  <2>2. table = [j \in Ids |-> table[j]]
    BY DEF Reclaimed
  <2>3. table[i] \in Row
    <3>1. jobs[i] \in Row => Requeued(jobs[i]) \in Row
      <4>1. jobs[i] \in Row => jobs[i].attempt + 1 \in Nat
        BY RowReads
      <4> QED  BY <4>1, RowClaims DEF Requeued
    <3> HIDE DEF table
    <3> QED  BY <1>1, <1>2, <2>1, <3>1
  <2> HIDE DEF table
  <2>4. jobs'[i] = Started(table[i], p, d, measured, first)
        /\ \A j \in Ids \ {i} : jobs'[j] = table[j]
    BY <2>1, <2>2
  <2>5. Shift(jobs[i], jobs'[i])
    BY <1>1, <1>2, <2>1, <2>3, <2>4, ShiftStarts
  <2>6. ASSUME NEW j \in Ids, jobs'[j] # NoRow
        PROVE  jobs[j] # NoRow /\ Shift(jobs[j], jobs'[j])
    <3>1. CASE j = i
      BY <1>2, <2>1, <2>5, <3>1
    <3>2. CASE j # i
      BY <1>2, <2>4, <2>6, <3>2
    <3> QED  BY <3>1, <3>2
  <2> QED  BY <2>1, <2>6 DEF RowsShift, ShiftedTable
<1>4. ASSUME ClaimNothing(p, t, dead, measured, first, signed) PROVE RowsShift
  <2>1. jobs' = table /\ serial' = serial
    BY <1>4 DEF ClaimNothing
  <2> HIDE DEF table
  <2> QED  BY <1>2, <2>1 DEF RowsShift, ShiftedTable
<1> QED  BY <1>3, <1>4

\* A recovery puts rows back or fails them.
LEMMA RecoverShifts ==
  ASSUME StoreTypeOK, NEW p, NEW d, NEW dead, NEW expired, RecoverAnalysis(p, d, dead, expired)
  PROVE  RowsShift
<1>1. ASSUME NEW j \in Ids, jobs'[j] # NoRow
      PROVE  jobs[j] # NoRow /\ Shift(jobs[j], jobs'[j])
  <2>1. CASE j \in Lost(p, dead, expired)
    <3>1. jobs[j] \in Row /\ jobs[j].state = "running" /\ jobs[j] # NoRow
      BY <2>1, UsedRows, NoRowAssumption DEF Lost
    <3>2. jobs'[j] = Recovered(jobs[j], d)
      BY <2>1 DEF RecoverAnalysis
    <3> QED  BY <3>1, <3>2, ShiftChanges
  <2>2. CASE j \notin Lost(p, dead, expired)
    BY <1>1, <2>2, ShiftSame DEF RecoverAnalysis
  <2> QED  BY <2>1, <2>2
<1>2. serial' = serial
  BY DEF RecoverAnalysis
<1> QED  BY <1>1, <1>2 DEF RowsShift, ShiftedTable

\* The fenced writes and the cancellation.
LEMMA WorkerShifts ==
  ASSUME StoreTypeOK, NEW p, NEW i, NEW attempt, NEW d
  PROVE  /\ HoldAnalysis(p, i, attempt) => RowsShift
         /\ RetryAnalysis(p, i, attempt) => RowsShift
         /\ \A state \in Ended : \A error, billed :
              FinishAnalysis(p, i, attempt, state, d, error, billed) => RowsShift
         /\ CancelAnalysis(i, d) => RowsShift
<1>1. i \in Used => jobs[i] \in Row
  BY UsedRows
<1>2. Owns(p, i, attempt) => i \in Used /\ jobs[i].state = "running"
  BY DEF Owns
<1>3. UNCHANGED storeVars => RowsShift
  BY WritesShift
<1>4. ASSUME HoldAnalysis(p, i, attempt), Owns(p, i, attempt) PROVE RowsShift
  <2> DEFINE row == [jobs[i] EXCEPT !.state = "queued", !.started = 0,
                                    !.error = "signed out", !.owner = NoProc]
  <2>1. Shift(jobs[i], row)
    BY <1>1, <1>2, <1>4, ShiftWrites
  <2>2. Update(i, row)
    BY <1>4 DEF HoldAnalysis
  <2> HIDE DEF row
  <2> QED  BY <1>2, <1>4, <2>1, <2>2, WritesShift
<1>5. ASSUME RetryAnalysis(p, i, attempt) PROVE RowsShift
  <2> DEFINE mark == IF jobs[i].error \in Marked THEN "retrying_after_recovery" ELSE "retrying"
             row == [jobs[i] EXCEPT !.error = mark]
  <2>1. Owns(p, i, attempt) /\ Update(i, row)
    BY <1>5 DEF RetryAnalysis
  <2> HIDE DEF mark
  <2>2. Shift(jobs[i], row)
    BY <1>1, <1>2, <2>1, ShiftWrites
  <2> HIDE DEF row
  <2> QED  BY <1>2, <2>1, <2>2, WritesShift
<1>6. ASSUME NEW state \in Ended, NEW error, NEW billed, Owns(p, i, attempt),
             FinishAnalysis(p, i, attempt, state, d, error, billed)
      PROVE  RowsShift
  <2> DEFINE cost == jobs[i].billed \/ billed
             row == [jobs[i] EXCEPT !.state = state, !.finished = d, !.error = error,
                                    !.billed = cost]
  <2>1. Update(i, row)
    BY <1>6 DEF FinishAnalysis
  <2> HIDE DEF cost
  <2>2. /\ row.state = state /\ row.serial = jobs[i].serial
        /\ row.target = jobs[i].target /\ row.key = jobs[i].key
        /\ row.attempt = jobs[i].attempt
    BY <1>1, <1>2, <1>6 DEF Row
  <2> HIDE DEF row
  <2>3. Shift(jobs[i], row)
    BY <1>1, <1>2, <1>6, <2>2, ShiftEnds DEF Live
  <2> QED  BY <1>2, <1>6, <2>1, <2>3, WritesShift
<1>7. ASSUME CancelAnalysis(i, d) PROVE RowsShift
  <2> DEFINE row == [jobs[i] EXCEPT !.state = "skipped", !.error = "cancelled", !.finished = d]
  <2>1. i \in Used /\ jobs[i].state \in Live /\ Update(i, row)
    BY <1>7 DEF CancelAnalysis
  <2>2. /\ row.state = "skipped" /\ row.serial = jobs[i].serial
        /\ row.target = jobs[i].target /\ row.key = jobs[i].key
        /\ row.attempt = jobs[i].attempt
    BY <1>1, <2>1 DEF Row
  <2> HIDE DEF row
  <2>3. Shift(jobs[i], row)
    BY <1>1, <2>1, <2>2, ShiftEnds DEF Ended
  <2> QED  BY <2>1, <2>3, WritesShift
<1> QED  BY <1>3, <1>4, <1>5, <1>6, <1>7 DEF HoldAnalysis, FinishAnalysis

\* Removing a database, trimming, dropping, and a turn-on that moves the first hour.
LEMMA RemovalShifts ==
  ASSUME StoreTypeOK, NEW t, NEW d
  PROVE  /\ SkipRemoved(t, d) => RowsShift
         /\ ForgetTarget(t) => RowsShift
         /\ \A reason, keep : TrimAutomatic(t, reason, keep) => RowsShift
         /\ DropQueued(t) => RowsShift
         /\ \A p : StartHour(p, t) => RowsShift
<1>1. ASSUME SkipRemoved(t, d), NEW j \in Ids, jobs'[j] # NoRow
      PROVE  jobs[j] # NoRow /\ Shift(jobs[j], jobs'[j])
  <2>1. CASE j \in RowsOf(t) /\ jobs[j].state \in Live
    <3>1. jobs[j] \in Row /\ jobs[j] # NoRow
      BY <2>1, UsedRows, NoRowAssumption DEF RowsOf
    <3>2. jobs'[j] = [jobs[j] EXCEPT !.state = "skipped", !.finished = d, !.error = "removed"]
      BY <1>1, <2>1 DEF SkipRemoved
    <3>3. /\ jobs'[j].state = "skipped" /\ jobs'[j].serial = jobs[j].serial
          /\ jobs'[j].target = jobs[j].target /\ jobs'[j].key = jobs[j].key
          /\ jobs'[j].attempt = jobs[j].attempt
      BY <3>1, <3>2 DEF Row
    <3> QED  BY <2>1, <3>1, <3>3, ShiftEnds DEF Ended
  <2>2. CASE ~(j \in RowsOf(t) /\ jobs[j].state \in Live)
    BY <1>1, <2>2, ShiftSame DEF SkipRemoved
  <2> QED  BY <2>1, <2>2
<1>2. ASSUME NEW p, StartHour(p, t), NEW j \in Ids, jobs'[j] # NoRow
      PROVE  jobs[j] # NoRow /\ Shift(jobs[j], jobs'[j])
  <2>1. CASE j \in RowsOf(t)
    <3>1. jobs[j] \in Row /\ jobs[j] # NoRow
      BY <2>1, UsedRows, NoRowAssumption DEF RowsOf
    <3>2. jobs'[j] = [jobs[j] EXCEPT !.firstHour = FALSE]
      BY <1>2, <2>1 DEF StartHour
    <3> QED  BY <3>1, <3>2, ShiftWrites
  <2>2. CASE j \notin RowsOf(t)
    BY <1>2, <2>2, ShiftSame DEF StartHour
  <2> QED  BY <2>1, <2>2
<1>3. \A ids : Delete(ids) => RowsShift
  BY WritesShift
<1>4. ForgetTarget(t) => RowsShift
  BY <1>3 DEF ForgetTarget
<1>5. ASSUME NEW reason, NEW keep, TrimAutomatic(t, reason, keep) PROVE RowsShift
  BY <1>3, <1>5 DEF TrimAutomatic
<1>6. DropQueued(t) => RowsShift
  BY <1>3 DEF DropQueued
<1>7. ASSUME SkipRemoved(t, d) PROVE serial' = serial
  BY <1>7 DEF SkipRemoved
<1>8. ASSUME NEW p, StartHour(p, t) PROVE serial' = serial
  BY <1>8 DEF StartHour
<1> QED  BY <1>1, <1>2, <1>4, <1>5, <1>6, <1>7, <1>8 DEF RowsShift, ShiftedTable

\* So every step of every process, worker and request does.
LEMMA StepShifts == TypeOK /\ Next => RowsShift \/ RowAdded
<1> SUFFICES ASSUME TypeOK, Next PROVE RowsShift \/ RowAdded
  OBVIOUS
<1>0. StoreTypeOK /\ day \in Nat
  BY DEF TypeOK
<1>a. UNCHANGED storeVars => RowsShift
  BY <1>0, WritesShift
<1>b. \A p \in Procs : TurnsOn(p) => RowsShift
  BY <1>0, RecoverShifts DEF TurnsOn
<1>1. ASSUME Environment PROVE RowsShift
  <2>1. ASSUME NEW p \in Procs, StartProcess(p) \/ StartQueue(p) PROVE RowsShift
    BY <1>a, <1>b, <2>1 DEF StartProcess, StartQueue
  <2>2. ASSUME NEW p \in Procs, NEW t \in Targets, StartHour(p, t) PROVE RowsShift
    BY <1>0, <2>2, RemovalShifts
  <2>3. ASSUME NEW p \in Procs,
               \/ EndProcess(p) \/ StopQueue(p) \/ QueueStopped(p) \/ PassEnds(p)
               \/ \E t \in Targets : TurnOn(p, t)
        PROVE  RowsShift
    BY <1>a, <2>3 DEF EndProcess, StopQueue, QueueStopped, PassEnds, TurnOn
  <2>4. ASSUME ChangeSignIn \/ NextDay \/ \E t \in Targets : \/ ChangeExecute(t) \/ TurnOff(t)
                                                             \/ EndHour(t)
        PROVE  RowsShift
    BY <1>a, <2>4 DEF ChangeSignIn, NextDay, ChangeExecute, TurnOff, EndHour
  <2> QED  BY <1>1, <2>1, <2>2, <2>3, <2>4 DEF Environment
<1>2. ASSUME NEW p \in Procs, Pass(p) PROVE RowsShift
  <2>1. ASSUME Recover(p) PROVE RowsShift
    BY <1>0, <2>1, RecoverShifts DEF Recover
  <2>2. ASSUME NEW t \in Targets, NEW k \in Keys,
               AskNew(p, t, k) \/ AskStale(p, t, k) \/ AskFirstHour(p, t, k) \/ AskRetry(p, t, k)
        PROVE  RowsShift
    BY <1>a, <2>2 DEF AskNew, AskStale, AskFirstHour, AskRetry, Ask
  <2>3. ASSUME NEW t \in Targets,
               DropFirstHour(p, t) \/ \E reason \in Automatic : Trim(p, t, reason)
        PROVE  RowsShift
    BY <1>0, <2>3, RemovalShifts DEF DropFirstHour, Trim
  <2>4. ASSUME NEW t \in Targets, ClaimNoJob(p, t) \/ Claim(p, t) PROVE RowsShift
    BY <1>0, <2>4, ClaimShifts DEF ClaimNoJob, Claim
  <2> QED  BY <1>2, <2>1, <2>2, <2>3, <2>4 DEF Pass
<1>3. ASSUME NEW p \in Procs, Requests(p) PROVE RowsShift \/ RowAdded
  <2>1. ASSUME NEW t \in Targets, NEW k \in Keys, AskClick(p, t, k) \/ AskForReport(p, t, k)
        PROVE  RowsShift
    BY <1>a, <2>1 DEF AskClick, AskForReport, Ask
  <2>2. ASSUME NEW t \in Targets, NEW k \in Keys, ClickWaiting(p, t, k) PROVE RowsShift
    <3>1. PICK i \in LiveRows(t, k) : Update(i, [jobs[i] EXCEPT !.clicked = TRUE])
      BY <2>2 DEF ClickWaiting
    <3>2. i \in Used /\ jobs[i] \in Row
      BY <1>0, UsedRows DEF LiveRows, RowsOf
    <3> DEFINE row == [jobs[i] EXCEPT !.clicked = TRUE]
    <3>3. Shift(jobs[i], row) /\ Update(i, row)
      BY <3>1, <3>2, ShiftWrites
    <3> HIDE DEF row
    <3> QED  BY <1>0, <3>2, <3>3, WritesShift
  <2>3. ASSUME NEW t \in Targets, NEW k \in Keys, RecordPasted(p, t, k) PROVE RowAdded
    BY <1>0, <2>3, EnqueueShifts DEF RecordPasted, First, Reasons
  <2>4. ASSUME NEW i \in Ids, Cancel(p, i) PROVE RowsShift
    BY <1>0, <2>4, WorkerShifts DEF Cancel
  <2>5. ASSUME NEW t \in Targets, BeginRemoval(p, t) PROVE RowsShift
    BY <1>0, <2>5, RemovalShifts DEF BeginRemoval
  <2>6. ASSUME Wake(p) PROVE RowsShift
    BY <1>a, <1>b, <2>6 DEF Wake
  <2> QED  BY <1>3, <2>1, <2>2, <2>3, <2>4, <2>5, <2>6 DEF Requests
<1>4. ASSUME NEW ask \in asked, Enqueue(ask) PROVE RowsShift \/ RowAdded
  <2>1. /\ ask.target \in Targets /\ ask.key \in Keys /\ ask.reason \in Reasons
        /\ ask.day \in Nat /\ ask.first \in BOOLEAN /\ ask.capped \in BOOLEAN
    BY DEF TypeOK, Decision
  <2> QED  BY <1>0, <1>4, <1>a, <2>1, EnqueueShifts DEF Enqueue
<1>5. ASSUME NEW t \in Targets, FinishRemoval(t) PROVE RowsShift
  BY <1>0, <1>5, RemovalShifts DEF FinishRemoval
<1>6. ASSUME NEW task \in tasks, Worker(task) PROVE RowsShift
  <2>1. {"done", "failed", "skipped"} = Ended
    BY DEF Ended
  <2>2. ASSUME StartSampling(task) \/ StartAnalysis(task) \/ LeaveJob(task) \/ Raise(task)
               \/ HitDeadline(task) \/ EndCancelled(task)
        PROVE  RowsShift
    BY <1>a, <2>2 DEF StartSampling, StartAnalysis, LeaveJob, Raise, HitDeadline, EndCancelled,
                      Idle
  <2>3. ASSUME Hold(task) \/ RetryAtOnce(task) PROVE RowsShift
    BY <1>0, <2>3, WorkerShifts DEF Hold, RetryAtOnce
  <2>4. ASSUME Skip(task) \/ Done(task) \/ Fail(task) \/ CloseDeadline(task) PROVE RowsShift
    BY <1>0, <2>1, <2>4, WorkerShifts DEF Skip, Done, Fail, CloseDeadline
  <2> QED  BY <1>6, <2>2, <2>3, <2>4 DEF Worker
<1> QED  BY <1>1, <1>2, <1>3, <1>4, <1>5, <1>6 DEF Next

-----------------------------------------------------------------------------
(* A serial number names one job.                                          *)

\* Rows in use were numbered before now, each with a number of its own.
SerialsApart ==
  /\ \A i \in Used : jobs[i].serial < serial
  /\ \A i, j \in Used : jobs[i].serial = jobs[j].serial => i = j

LEMMA SerialsKept ==
  ASSUME TypeOK, SerialsApart, RowsShift \/ RowAdded
  PROVE  SerialsApart'
<1>0. StoreTypeOK /\ serial \in Nat /\ \A i \in Used : jobs[i].serial \in Nat
  BY UsedRows, RowReads DEF TypeOK, StoreTypeOK
<1>1. CASE RowsShift
  <2>1. \A i \in Used' : i \in Used /\ jobs'[i].serial = jobs[i].serial
    BY <1>1 DEF RowsShift, ShiftedTable, Shift, Used, Ids
  <2> QED  BY <1>1, <2>1 DEF SerialsApart, RowsShift
<1>2. CASE RowAdded
  <2>1. PICK i \in Ids : /\ \A j \in Ids \ {i} : jobs'[j] = jobs[j]
                         /\ jobs'[i].serial = serial
    BY <1>2 DEF RowAdded
  <2>2. \A j \in Used' \ {i} : j \in Used /\ jobs'[j].serial = jobs[j].serial
    BY <2>1 DEF Used, Ids
  <2>3. \A j \in Used' \ {i} : jobs'[j].serial < serial /\ jobs'[j].serial \in Nat
    BY <1>0, <2>2 DEF SerialsApart
  <2>4. serial' = serial + 1
    BY <1>2 DEF RowAdded
  <2>5. \A j \in Used' : jobs'[j].serial < serial'
    BY <1>0, <2>1, <2>3, <2>4
  <2>6. ASSUME NEW j \in Used', NEW k \in Used', jobs'[j].serial = jobs'[k].serial
        PROVE  j = k
    BY <1>0, <2>1, <2>2, <2>3, <2>6 DEF SerialsApart
  <2> QED  BY <2>5, <2>6 DEF SerialsApart
<1> QED  BY <1>1, <1>2

-----------------------------------------------------------------------------
(* The board of a table.                                                   *)

\* What the board shows of a number whose row is in use, and of the others.
BoardReads ==
  \A s \in BoardJobs :
    /\ RowWith(s) = {} => /\ boardStatus[s] = IF s >= serial THEN "none" ELSE "gone"
                          /\ boardQuery[s] = NoQuery /\ boardTurn[s] = 0
    /\ \A i \in RowWith(s) : /\ s < serial
                             /\ boardStatus[s] = Waiting(jobs[i])
                             /\ boardQuery[s] = <<jobs[i].target, jobs[i].key>>
                             /\ boardTurn[s] = jobs[i].attempt

LEMMA BoardOfTable == TypeOK /\ SerialsApart => BoardReads
<1> SUFFICES ASSUME TypeOK, SerialsApart, NEW s \in BoardJobs
             PROVE  /\ RowWith(s) = {} =>
                         /\ boardStatus[s] = IF s >= serial THEN "none" ELSE "gone"
                         /\ boardQuery[s] = NoQuery /\ boardTurn[s] = 0
                    /\ \A i \in RowWith(s) : /\ s < serial
                                             /\ boardStatus[s] = Waiting(jobs[i])
                                             /\ boardQuery[s] = <<jobs[i].target, jobs[i].key>>
                                             /\ boardTurn[s] = jobs[i].attempt
  BY DEF BoardReads
<1>1. CASE RowWith(s) = {}
  BY <1>1 DEF boardStatus, boardQuery, boardTurn
<1>2. ASSUME NEW i \in RowWith(s)
      PROVE  /\ s < serial
             /\ boardStatus[s] = Waiting(jobs[i])
             /\ boardQuery[s] = <<jobs[i].target, jobs[i].key>>
             /\ boardTurn[s] = jobs[i].attempt
  <2>1. s < serial
    BY <1>2 DEF RowWith, SerialsApart
  <2>2. ~(s >= serial)
    <3>1. s \in Int /\ serial \in Int
      BY QueueBoundAssumption DEF TypeOK, StoreTypeOK, BoardJobs
    <3> QED  BY <2>1, <3>1
  <2>3. RowWith(s) = {i}
    BY <1>2 DEF RowWith, SerialsApart
  <2>4. (CHOOSE j \in RowWith(s) : TRUE) = i
    BY <2>3
  <2>5. boardStatus[s] = Waiting(jobs[i])
    BY <2>2, <2>3, <2>4 DEF boardStatus
  <2>6. boardQuery[s] = <<jobs[i].target, jobs[i].key>> /\ boardTurn[s] = jobs[i].attempt
    BY <2>3, <2>4 DEF boardQuery, boardTurn
  <2> QED  BY <2>1, <2>5, <2>6
<1> QED  BY <1>1, <1>2

\* Of the next state's table as well.
LEMMA BoardOfNextTable == TypeOK' /\ SerialsApart' => BoardReads'
BY BoardOfTable, PTL

\* A row's state as the board's.
LEMMA WaitingStates ==
  ASSUME NEW row, row.state \in Live \cup Ended
  PROVE  /\ Waiting(row) \in JB!Open \cup JB!Over
         /\ row.state = "queued" <=> Waiting(row) = "waiting"
         /\ row.state = "running" <=> Waiting(row) = "working"
         /\ row.state \in Live <=> Waiting(row) \in JB!Open
         /\ row.state \in Ended <=> Waiting(row) \in JB!Over
         /\ row.state \in Ended => Waiting(row) = row.state
BY DEF Waiting, Live, Ended, JB!Open, JB!Over

-----------------------------------------------------------------------------
(* Every step is a step of the board.                                      *)

\* A number moves as its row does.
LEMMA BoardMoves ==
  ASSUME TypeOK, TypeOK', SerialsApart, SerialsApart', RowsShift \/ RowAdded,
         NEW s \in BoardJobs
  PROVE  \/ JB!Ask(s) \/ JB!Take(s) \/ JB!Return(s) \/ JB!End(s) \/ JB!Forget(s) \/ JB!Stays(s)
<1>0. BoardReads /\ BoardReads'
  BY BoardOfTable, BoardOfNextTable
<1>1. serial \in Nat /\ s \in Int /\ (serial' = serial \/ serial' = serial + 1)
  BY QueueBoundAssumption DEF TypeOK, StoreTypeOK, BoardJobs, RowsShift, RowAdded
<1>2. \A i \in Used : jobs[i] \in Row
  BY UsedRows DEF TypeOK
<1>3. \A i \in Used' : jobs'[i] \in Row
  BY NoRowAssumption DEF TypeOK, StoreTypeOK, Used, Ids
<1>4. ASSUME NEW i \in RowWith(s), jobs'[i] # NoRow
      PROVE  i \in RowWith(s)' /\ Shift(jobs[i], jobs'[i])
  <2>1. i \in Ids /\ i \in Used /\ jobs[i] # NoRow /\ jobs[i].serial = s
    BY DEF RowWith, Used
  <2>2. Shift(jobs[i], jobs'[i])
    <3>1. CASE RowsShift
      BY <1>4, <2>1, <3>1 DEF RowsShift, ShiftedTable
    <3>2. CASE RowAdded
      BY <2>1, <3>2, ShiftSame DEF RowAdded
    <3> QED  BY <3>1, <3>2
  <2> QED  BY <1>4, <2>1, <2>2 DEF RowWith, Used, Shift, Ids
<1>5. ASSUME NEW i \in RowWith(s)', RowWith(s) = {}
      PROVE  /\ s = serial /\ serial' = serial + 1
             /\ jobs'[i].attempt = 0 /\ jobs'[i].state \in {"queued", "done", "skipped"}
  <2>1. i \in Ids /\ jobs'[i] # NoRow /\ jobs'[i].serial = s
    BY DEF RowWith, Used, Ids
  <2>2. jobs[i] # NoRow => jobs[i].serial # s
    BY <1>5, <2>1 DEF RowWith, Used
  <2>3. ~RowsShift
    BY <2>1, <2>2 DEF RowsShift, ShiftedTable, Shift
  <2>4. PICK k \in Ids :
          /\ jobs[k] = NoRow /\ \A j \in Ids \ {k} : jobs'[j] = jobs[j]
          /\ jobs'[k].serial = serial /\ jobs'[k].attempt = 0
          /\ jobs'[k].state \in {"queued", "done", "skipped"}
    BY <2>3 DEF RowAdded
  <2>5. i = k
    BY <2>1, <2>2, <2>4
  <2>6. serial' = serial + 1
    BY <2>3 DEF RowAdded
  <2> QED  BY <2>1, <2>4, <2>5, <2>6
<1>6. CASE RowWith(s) = {} /\ RowWith(s)' = {}
  <2>1. /\ boardStatus[s] = IF s >= serial THEN "none" ELSE "gone"
        /\ boardQuery[s] = NoQuery /\ boardTurn[s] = 0
    BY <1>0, <1>6 DEF BoardReads
  <2>2. /\ boardStatus'[s] = IF s >= serial' THEN "none" ELSE "gone"
        /\ boardQuery'[s] = NoQuery /\ boardTurn'[s] = 0
    BY <1>0, <1>6 DEF BoardReads, BoardJobs
  <2>3. s >= serial <=> s >= serial'
    <3>1. CASE RowsShift
      BY <3>1 DEF RowsShift
    <3>2. CASE RowAdded
      <4>1. s # serial
        BY <1>6, <3>2 DEF RowAdded, RowWith, Used, Ids
      <4>2. serial' = serial + 1
        BY <3>2 DEF RowAdded
      <4> QED  BY <1>1, <4>1, <4>2
    <3> QED  BY <3>1, <3>2
  <2> QED  BY <2>1, <2>2, <2>3 DEF JB!Stays, JB!Keeps
<1>7. ASSUME NEW i \in RowWith(s)', RowWith(s) = {} PROVE JB!Ask(s)
  <2>1. /\ boardStatus[s] = "none"
    BY <1>0, <1>1, <1>5, <1>7 DEF BoardReads
  <2>2. /\ boardStatus'[s] = Waiting(jobs'[i])
        /\ boardQuery'[s] = <<jobs'[i].target, jobs'[i].key>>
        /\ boardTurn'[s] = jobs'[i].attempt
    BY <1>0, <1>7 DEF BoardReads, Waiting, BoardJobs
  <2>3. Waiting(jobs'[i]) \in {"waiting", "done", "skipped"}
    BY <1>5, <1>7 DEF Waiting
  <2>4. jobs'[i].target \in Targets /\ jobs'[i].key \in Keys
    <3>1. jobs'[i] \in Row
      BY <1>3 DEF RowWith
    <3> QED  BY <3>1 DEF Row
  <2> QED  BY <1>5, <1>7, <2>1, <2>2, <2>3, <2>4 DEF JB!Ask
<1>8. ASSUME NEW i \in RowWith(s), jobs'[i] = NoRow PROVE JB!Forget(s)
  <2>1. RowWith(s)' = {}
    <3>1. ASSUME NEW j \in RowWith(s)' PROVE FALSE
      <4>1. j \in Ids /\ jobs'[j] # NoRow /\ jobs'[j].serial = s
        BY DEF RowWith, Used, Ids
      <4>2. i \in Used /\ jobs[i].serial = s /\ s < serial
        BY DEF RowWith, SerialsApart
      <4>3. RowsShift
        BY <1>8, <4>2 DEF RowAdded, Used
      <4>4. j \in Used /\ jobs[j].serial = s
        BY <4>1, <4>3 DEF RowsShift, ShiftedTable, Shift, Used
      <4> QED  BY <1>8, <4>1, <4>2, <4>4 DEF SerialsApart
    <3> QED  BY <3>1
  <2>2. s < serial /\ boardStatus[s] = Waiting(jobs[i])
    BY <1>0, <1>8 DEF BoardReads
  <2>3. /\ boardStatus'[s] = IF s >= serial' THEN "none" ELSE "gone"
        /\ boardQuery'[s] = NoQuery /\ boardTurn'[s] = 0
    BY <1>0, <2>1 DEF BoardReads, BoardJobs
  <2>4. ~(s >= serial')
    BY <1>1, <2>2
  <2>5. Waiting(jobs[i]) \in JB!Open \cup JB!Over
    BY <1>2, <1>8, RowReads, WaitingStates DEF RowWith
  <2> QED  BY <2>2, <2>3, <2>4, <2>5 DEF JB!Forget
<1>9. ASSUME NEW i \in RowWith(s), jobs'[i] # NoRow
      PROVE  JB!Take(s) \/ JB!Return(s) \/ JB!End(s) \/ JB!Stays(s)
  <2>1. i \in RowWith(s)' /\ Shift(jobs[i], jobs'[i])
    BY <1>4, <1>9
  <2>2. /\ boardStatus[s] = Waiting(jobs[i])
        /\ boardQuery[s] = <<jobs[i].target, jobs[i].key>>
        /\ boardTurn[s] = jobs[i].attempt
    BY <1>0, <1>9 DEF BoardReads
  <2>3. /\ boardStatus'[s] = Waiting(jobs'[i])
        /\ boardQuery'[s] = <<jobs'[i].target, jobs'[i].key>>
        /\ boardTurn'[s] = jobs'[i].attempt
    BY <1>0, <2>1 DEF BoardReads, Waiting, BoardJobs
  <2>4. boardQuery'[s] = boardQuery[s]
    BY <2>1, <2>2, <2>3 DEF Shift
  <2>5. jobs[i].state \in Live \cup Ended /\ jobs'[i].state \in Live \cup Ended
    BY <1>2, <1>3, <2>1, RowReads DEF RowWith
  <2>6. CASE jobs'[i].state = jobs[i].state /\ jobs'[i].attempt = jobs[i].attempt
    BY <2>2, <2>3, <2>4, <2>6 DEF JB!Stays, JB!Keeps, Waiting
  <2>7. CASE /\ jobs[i].state \in Live /\ jobs'[i].state = "running"
             /\ jobs'[i].attempt > jobs[i].attempt
    BY <2>2, <2>3, <2>4, <2>5, <2>7, WaitingStates DEF JB!Take, JB!Keeps
  <2>8. CASE /\ jobs[i].state = "running" /\ jobs'[i].state = "queued"
             /\ jobs'[i].attempt >= jobs[i].attempt
    BY <2>2, <2>3, <2>4, <2>5, <2>8, WaitingStates DEF JB!Return, JB!Keeps
  <2>9. CASE /\ jobs[i].state \in Live /\ jobs'[i].state \in Ended
             /\ jobs'[i].attempt >= jobs[i].attempt
             /\ jobs[i].state = "queued" => jobs'[i].state = "skipped"
    BY <2>2, <2>3, <2>4, <2>5, <2>9, WaitingStates DEF JB!End, JB!Keeps
  <2> QED  BY <2>1, <2>6, <2>7, <2>8, <2>9 DEF Shift
<1> QED  BY <1>6, <1>7, <1>8, <1>9

\* Two jobs that are open are of two queries.
LEMMA BoardApart ==
  ASSUME TypeOK', SerialsApart', OneLiveJob', NEW s \in BoardJobs, NEW u \in BoardJobs,
         s # u, boardStatus'[s] \in JB!Open, boardStatus'[u] \in JB!Open
  PROVE  boardQuery'[s] # boardQuery'[u]
<1>1. BoardReads'
  BY BoardOfNextTable
<1>2. ASSUME NEW v \in BoardJobs, boardStatus'[v] \in JB!Open
      PROVE  \E i \in Used' : /\ jobs'[i].serial = v /\ jobs'[i].state \in Live
                              /\ boardQuery'[v] = <<jobs'[i].target, jobs'[i].key>>
  <2>1. RowWith(v)' # {}
    BY <1>1, <1>2 DEF BoardReads, BoardJobs, JB!Open
  <2>2. PICK i : i \in RowWith(v)'
    BY <2>1
  <2>3. /\ boardStatus'[v] = Waiting(jobs'[i])
        /\ boardQuery'[v] = <<jobs'[i].target, jobs'[i].key>>
    BY <1>1, <2>2 DEF BoardReads, BoardJobs, Waiting
  <2>4. i \in Used' /\ jobs'[i].serial = v /\ jobs'[i] \in Row
    BY <2>2, NoRowAssumption DEF RowWith, Used, Ids, TypeOK, StoreTypeOK
  <2>5. jobs'[i].state \in Live
    BY <1>2, <2>3, <2>4, RowReads, WaitingStates
  <2> QED  BY <2>3, <2>4, <2>5
<1>3. PICK i \in Used' : /\ jobs'[i].serial = s /\ jobs'[i].state \in Live
                         /\ boardQuery'[s] = <<jobs'[i].target, jobs'[i].key>>
  BY <1>2
<1>4. PICK j \in Used' : /\ jobs'[j].serial = u /\ jobs'[j].state \in Live
                         /\ boardQuery'[u] = <<jobs'[j].target, jobs'[j].key>>
  BY <1>2
<1> QED  BY <1>3, <1>4 DEF OneLiveJob

\* The board's statuses are statuses.
LEMMA BoardTypes ==
  ASSUME TypeOK', SerialsApart'
  PROVE  boardStatus' \in [BoardJobs -> {"none", "gone"} \cup JB!Open \cup JB!Over]
<1>1. BoardReads'
  BY BoardOfNextTable
<1>2. ASSUME NEW s \in BoardJobs
      PROVE  boardStatus'[s] \in {"none", "gone"} \cup JB!Open \cup JB!Over
  <2>1. CASE RowWith(s)' = {}
    BY <1>1, <2>1 DEF BoardReads, BoardJobs
  <2>2. ASSUME NEW i \in RowWith(s)'
        PROVE  boardStatus'[s] \in {"none", "gone"} \cup JB!Open \cup JB!Over
    <3>1. jobs'[i] \in Row
      BY <2>2, NoRowAssumption DEF RowWith, Used, Ids, TypeOK, StoreTypeOK
    <3>2. boardStatus'[s] = Waiting(jobs'[i])
      BY <1>1 DEF BoardReads, BoardJobs, Waiting
    <3> QED  BY <3>1, <3>2, RowReads, WaitingStates
  <2> QED  BY <2>1, <2>2
<1>3. boardStatus' = [s \in BoardJobs |-> boardStatus'[s]]
  BY DEF boardStatus, BoardJobs
<1> QED  BY <1>2, <1>3

\* Every step of every process, worker and request is a legal move of the jobs it touches,
\* whatever is recovered, reclaimed, trimmed or deleted in between: the queue of
\* analyze_queue.py over the analyze_job table implements the board.
THEOREM QueueImplementsBoard == Spec => ImplementsBoard
<1>1. Init => JB!BoardInit /\ SerialsApart
  <2> SUFFICES ASSUME Init PROVE JB!BoardInit /\ SerialsApart
    OBVIOUS
  <2>1. Used = {} /\ serial = 0
    BY DEF Init, StoreInit, Used
  <2>2. \A s \in BoardJobs : RowWith(s) = {} /\ s >= serial
    BY <2>1, QueueBoundAssumption DEF RowWith, BoardJobs
  <2> QED  BY <2>1, <2>2 DEF SerialsApart, JB!BoardInit, boardStatus, boardQuery, boardTurn
<1>2. TypeOK /\ SerialsApart /\ [Next]_vars => SerialsApart'
  <2>1. ASSUME SerialsApart, UNCHANGED vars PROVE SerialsApart'
    BY <2>1 DEF vars, SerialsApart, Used, Ids
  <2> QED  BY <2>1, StepShifts, SerialsKept
<1>3. /\ TypeOK /\ TypeOK' /\ SerialsApart /\ SerialsApart' /\ OneLiveJob' /\ [Next]_vars
      => [JB!BoardNext]_JB!boardVars
  <2>1. ASSUME UNCHANGED vars PROVE UNCHANGED JB!boardVars
    BY <2>1 DEF vars, JB!boardVars, boardStatus, boardQuery, boardTurn, RowWith, Used, Ids, BoardJobs
  <2>2. ASSUME TypeOK, TypeOK', SerialsApart, SerialsApart', OneLiveJob', Next
        PROVE  JB!BoardNext
    <3>1. RowsShift \/ RowAdded
      BY <2>2, StepShifts
    <3>2. \A s \in BoardJobs :
            JB!Ask(s) \/ JB!Take(s) \/ JB!Return(s) \/ JB!End(s) \/ JB!Forget(s) \/ JB!Stays(s)
      BY <2>2, <3>1, BoardMoves
    <3> QED  BY <2>2, <3>2, BoardApart, BoardTypes DEF JB!BoardNext
  <2> QED  BY <2>1, <2>2
<1> QED
  BY <1>1, <1>2, <1>3, TypeCorrect, QueryHasOneLiveJob, PTL
  DEF Spec, ImplementsBoard, JB!Board
=============================================================================
