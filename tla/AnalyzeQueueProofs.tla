------------------------- MODULE AnalyzeQueueProofs -------------------------
(***************************************************************************)
(* Theorems about AnalyzeQueue for every value of its constants: its types *)
(* and the fence of its workers.                                           *)
(***************************************************************************)
EXTENDS AnalyzeQueue, TLAPS

-----------------------------------------------------------------------------
(* Rows and the table stay well typed under the store's operations.        *)

\* What the operations write into a row keeps it one.
LEMMA RowWrites ==
  ASSUME NEW row \in Row
  PROVE  /\ \A clicked \in BOOLEAN : [row EXCEPT !.clicked = clicked] \in Row
         /\ \A reason \in Reasons, clicked \in BOOLEAN :
              [row EXCEPT !.reason = reason, !.clicked = clicked] \in Row
         /\ \A error \in Errors : [row EXCEPT !.error = error] \in Row
         /\ \A state \in Live \cup Ended, d \in Nat, error \in Errors :
              [row EXCEPT !.state = state, !.finished = d, !.error = error] \in Row
         /\ \A state \in Live \cup Ended, d \in Nat, error \in Errors :
              [row EXCEPT !.state = state, !.error = error, !.finished = d] \in Row
         /\ \A state \in Live \cup Ended, d \in Nat, error \in Errors, billed \in BOOLEAN :
              [row EXCEPT !.state = state, !.finished = d, !.error = error,
                          !.billed = billed] \in Row
         /\ [row EXCEPT !.firstHour = FALSE] \in Row
<1>1. \A clicked \in BOOLEAN : [row EXCEPT !.clicked = clicked] \in Row
  BY DEF Row
<1>2. \A reason \in Reasons, clicked \in BOOLEAN :
        [row EXCEPT !.reason = reason, !.clicked = clicked] \in Row
  BY DEF Row
<1>3. \A error \in Errors : [row EXCEPT !.error = error] \in Row
  BY DEF Row
<1>4. \A state \in Live \cup Ended, d \in Nat, error \in Errors :
        [row EXCEPT !.state = state, !.finished = d, !.error = error] \in Row
  BY DEF Row
<1>5. \A state \in Live \cup Ended, d \in Nat, error \in Errors :
        [row EXCEPT !.state = state, !.error = error, !.finished = d] \in Row
  BY DEF Row
<1>6. \A state \in Live \cup Ended, d \in Nat, error \in Errors, billed \in BOOLEAN :
        [row EXCEPT !.state = state, !.finished = d, !.error = error,
                    !.billed = billed] \in Row
  BY DEF Row
<1>7. [row EXCEPT !.firstHour = FALSE] \in Row
  BY DEF Row
<1> QED  BY <1>1, <1>2, <1>3, <1>4, <1>5, <1>6, <1>7

\* Nor do the changes of a claim.
LEMMA RowClaims ==
  ASSUME NEW row \in Row, NEW a \in Nat
  PROVE  /\ [row EXCEPT !.state = "queued", !.started = 0, !.owner = NoProc,
                        !.attempt = a] \in Row
         /\ \A error \in Errors :
              [row EXCEPT !.state = "queued", !.started = 0, !.error = error,
                          !.owner = NoProc] \in Row
         /\ \A error \in Errors :
              [row EXCEPT !.state = "queued", !.started = 0, !.error = error,
                          !.owner = NoProc, !.attempt = a] \in Row
         /\ \A d \in Nat, error \in Errors :
              [row EXCEPT !.state = "failed", !.finished = d, !.error = error,
                          !.owner = NoProc, !.attempt = a] \in Row
         /\ \A d \in Nat, p \in Procs, mode \in {"analyze", "explain"}, first \in BOOLEAN :
              [row EXCEPT !.state = "running", !.started = d, !.owner = p, !.attempt = a,
                          !.mode = mode, !.firstPass = first] \in Row
<1>1. {"queued", "failed", "running"} \subseteq Live \cup Ended
  BY DEF Live, Ended
<1>2. [row EXCEPT !.state = "queued", !.started = 0, !.owner = NoProc, !.attempt = a] \in Row
  BY <1>1 DEF Row
<1>3. \A error \in Errors :
        [row EXCEPT !.state = "queued", !.started = 0, !.error = error,
                    !.owner = NoProc] \in Row
  BY <1>1 DEF Row
<1>4. \A error \in Errors :
        [row EXCEPT !.state = "queued", !.started = 0, !.error = error,
                    !.owner = NoProc, !.attempt = a] \in Row
  BY <1>1 DEF Row
<1>5. \A d \in Nat, error \in Errors :
        [row EXCEPT !.state = "failed", !.finished = d, !.error = error,
                    !.owner = NoProc, !.attempt = a] \in Row
  <2> SUFFICES ASSUME NEW d \in Nat, NEW error \in Errors
               PROVE  [row EXCEPT !.state = "failed", !.finished = d, !.error = error,
                                  !.owner = NoProc, !.attempt = a] \in Row
    OBVIOUS
  <2>1. "failed" \in Live \cup Ended
    BY <1>1
  <2> QED  BY <2>1 DEF Row
<1>6. \A d \in Nat, p \in Procs, mode \in {"analyze", "explain"}, first \in BOOLEAN :
        [row EXCEPT !.state = "running", !.started = d, !.owner = p, !.attempt = a,
                    !.mode = mode, !.firstPass = first] \in Row
  BY <1>1 DEF Row
<1> QED  BY <1>2, <1>3, <1>4, <1>5, <1>6

\* A row's fields that the operations read.
LEMMA RowReads ==
  ASSUME NEW row \in Row
  PROVE  /\ row.attempt \in Nat /\ row.error \in Errors /\ row.billed \in BOOLEAN
         /\ row.clicked \in BOOLEAN /\ row.reason \in Reasons /\ row.state \in Live \cup Ended
         /\ row.serial \in Nat
BY DEF Row

\* What claims and recoveries make of a row is a row.
LEMMA RowChanges ==
  ASSUME NEW row \in Row, NEW p \in Procs, NEW d \in Nat,
         NEW measured \in BOOLEAN, NEW first \in BOOLEAN
  PROVE  /\ Requeued(row) \in Row
         /\ Recovered(row, d) \in Row
         /\ Started(row, p, d, measured, first) \in Row
<1>1. row.attempt + 1 \in Nat
  BY RowReads
<1>2. "recovered_once" \in Errors /\ "timed out" \in Errors
  BY DEF Errors, Marked
<1>3. Requeued(row) \in Row
  BY <1>1, <1>2, RowClaims DEF Requeued
<1>4. Recovered(row, d) \in Row
  BY <1>1, <1>2, RowClaims DEF Recovered
<1>5. Started(row, p, d, measured, first) \in Row
  BY <1>1, RowClaims DEF Started
<1> QED  BY <1>3, <1>4, <1>5

\* A new row is a row.
LEMMA NewRowType ==
  ASSUME serial \in Nat, NEW t \in Targets, NEW k \in Keys, NEW reason \in Reasons,
         NEW state \in Live \cup Ended, NEW d \in Nat, NEW first \in BOOLEAN
  PROVE  NewRow(t, k, reason, state, d, first) \in Row
BY DEF Row, NewRow, Errors, Marked, Reasons, Automatic

\* The three ways an operation writes the table.
LEMMA WriteTypes ==
  ASSUME StoreTypeOK
  PROVE  /\ \A row \in Row : Insert(row) => StoreTypeOK'
         /\ \A i \in Ids, row \in Row : Update(i, row) => StoreTypeOK'
         /\ \A ids \in SUBSET Ids : Delete(ids) => StoreTypeOK'
         /\ UNCHANGED storeVars => StoreTypeOK'
BY DEF StoreTypeOK, Insert, Update, Delete, storeVars

\* The rows in use are rows.
LEMMA UsedRows ==
  ASSUME StoreTypeOK, NEW i \in Used
  PROVE  i \in Ids /\ jobs[i] \in Row
BY NoRowAssumption DEF StoreTypeOK, Used

-----------------------------------------------------------------------------
(* Every store operation keeps the table well typed.                       *)

\* Enqueuing, skipping and recording pasted SQL keep the table well formed.
LEMMA EnqueueTypes ==
  ASSUME StoreTypeOK, NEW t \in Targets, NEW k \in Keys, NEW reason \in Reasons,
         NEW d \in Nat, NEW first \in BOOLEAN, NEW capped \in BOOLEAN
  PROVE  /\ EnqueueAnalysis(t, k, reason, d, first, capped) => StoreTypeOK'
         /\ SkipAnalysisOnce(t, k, reason, d, first) => StoreTypeOK'
         /\ RecordUserAnalysis(t, k, d, first) => StoreTypeOK'
<1>1. serial \in Nat
  BY DEF StoreTypeOK
<1>2. /\ "queued" \in Live \cup Ended /\ "done" \in Live \cup Ended
      /\ "skipped" \in Live \cup Ended /\ "not eligible" \in Errors /\ "user" \in Reasons
  BY DEF Live, Ended, Errors, Reasons
<1>3. \A i \in LiveRows(t, k) : i \in Ids /\ jobs[i] \in Row
  BY UsedRows DEF LiveRows, RowsOf
<1>4. ASSUME EnqueueAnalysis(t, k, reason, d, first, capped) PROVE StoreTypeOK'
  <2>1. ASSUME NEW i \in LiveRows(t, k),
               Update(i, [jobs[i] EXCEPT !.reason = reason,
                                         !.clicked = @ \/ reason = "user"])
        PROVE  StoreTypeOK'
    <3>1. (jobs[i].clicked \/ reason = "user") \in BOOLEAN
      OBVIOUS
    <3>2. [jobs[i] EXCEPT !.reason = reason, !.clicked = @ \/ reason = "user"] \in Row
      BY <1>3, <3>1, RowWrites
    <3> QED  BY <1>3, <2>1, <3>2, WriteTypes
  <2>2. ASSUME Insert(NewRow(t, k, reason, "queued", d, first)) PROVE StoreTypeOK'
    BY <1>1, <1>2, <2>2, NewRowType, WriteTypes
  <2>3. ASSUME UNCHANGED storeVars PROVE StoreTypeOK'
    BY <2>3, WriteTypes
  <2> QED  BY <1>4, <2>1, <2>2, <2>3 DEF EnqueueAnalysis
<1>5. ASSUME SkipAnalysisOnce(t, k, reason, d, first) PROVE StoreTypeOK'
  <2>1. ASSUME NEW i \in LiveRows(t, k),
               Update(i, [jobs[i] EXCEPT !.state = "skipped", !.finished = d,
                                         !.error = "not eligible"])
        PROVE  StoreTypeOK'
    BY <1>2, <1>3, <2>1, RowWrites, WriteTypes
  <2>2. ASSUME Insert([NewRow(t, k, reason, "skipped", d, first) EXCEPT !.error = "not eligible"])
        PROVE  StoreTypeOK'
    <3>1. NewRow(t, k, reason, "skipped", d, first) \in Row
      BY <1>1, <1>2, NewRowType
    <3> QED  BY <1>2, <2>2, <3>1, RowWrites, WriteTypes
  <2>3. ASSUME UNCHANGED storeVars PROVE StoreTypeOK'
    BY <2>3, WriteTypes
  <2> QED  BY <1>5, <2>1, <2>2, <2>3 DEF SkipAnalysisOnce
<1>6. ASSUME RecordUserAnalysis(t, k, d, first) PROVE StoreTypeOK'
  BY <1>1, <1>2, <1>6, NewRowType, WriteTypes DEF RecordUserAnalysis
<1> QED  BY <1>4, <1>5, <1>6

\* So do trimming, dropping and forgetting.
LEMMA DeleteTypes ==
  ASSUME StoreTypeOK, NEW t \in Targets
  PROVE  /\ \A reason, keep : TrimAutomatic(t, reason, keep) => StoreTypeOK'
         /\ DropQueued(t) => StoreTypeOK'
         /\ ForgetTarget(t) => StoreTypeOK'
<1>1. Queued(t) \subseteq Ids /\ RowsOf(t) \subseteq Ids
  BY DEF Queued, RowsOf, Used
<1>2. \A reason, keep : TrimAutomatic(t, reason, keep) => StoreTypeOK'
  BY <1>1, WriteTypes DEF TrimAutomatic, Trimmable
<1>3. DropQueued(t) => StoreTypeOK'
  BY <1>1, WriteTypes DEF DropQueued
<1>4. ForgetTarget(t) => StoreTypeOK'
  BY <1>1, WriteTypes DEF ForgetTarget
<1> QED  BY <1>2, <1>3, <1>4

\* An operation that rewrites rows one by one.
LEMMA RewriteTypes ==
  ASSUME StoreTypeOK, jobs' \in [Ids -> Row \cup {NoRow}], UNCHANGED <<serial, deleted>>
  PROVE  StoreTypeOK'
BY DEF StoreTypeOK

\* So does a claim, whether or not it starts a job.
LEMMA ClaimTypes ==
  ASSUME StoreTypeOK, NEW p \in Procs, NEW t \in Targets, NEW d \in Nat,
         NEW measured \in BOOLEAN, NEW first \in BOOLEAN, NEW dead, NEW signed, NEW watched,
         NEW i \in Ids
  PROVE  /\ ClaimAnalysis(p, t, d, dead, measured, first, signed, watched, i) =>
              StoreTypeOK' /\ jobs'[i] \in Row
         /\ ClaimNothing(p, t, dead, measured, first, signed) => StoreTypeOK'
<1>1. Reclaimed(p, t, dead) \in [Ids -> Row \cup {NoRow}]
  <2>1. \A j \in Running(t) : jobs[j] \in Row
    BY UsedRows DEF Running, RowsOf
  <2>2. \A j \in Running(t) : Requeued(jobs[j]) \in Row
    <3> SUFFICES ASSUME NEW j \in Running(t) PROVE Requeued(jobs[j]) \in Row
      OBVIOUS
    <3> QED  BY <2>1, RowChanges
  <2> QED  BY <2>2 DEF Reclaimed, StoreTypeOK
<1>2. ASSUME ClaimAnalysis(p, t, d, dead, measured, first, signed, watched, i)
      PROVE  StoreTypeOK' /\ jobs'[i] \in Row
  <2> DEFINE table == Reclaimed(p, t, dead)
  <2>1. i \in QueuedIn(table, t)
    BY <1>2 DEF ClaimAnalysis, NextJobs
  <2>2. table[i] \in Row
    BY <1>1, <2>1 DEF QueuedIn
  <2>3. Started(table[i], p, d, measured, first) \in Row
    BY <2>2, RowChanges
  <2>4. /\ jobs' = [table EXCEPT ![i] = Started(table[i], p, d, measured, first)]
        /\ UNCHANGED <<serial, deleted>>
    BY <1>2 DEF ClaimAnalysis
  <2> HIDE DEF table
  <2>5. table \in [Ids -> Row \cup {NoRow}]
    BY <1>1 DEF table
  <2>6. jobs' \in [Ids -> Row \cup {NoRow}] /\ jobs'[i] \in Row
    BY <2>3, <2>4, <2>5
  <2> QED  BY <2>4, <2>6, RewriteTypes
<1>3. ASSUME ClaimNothing(p, t, dead, measured, first, signed) PROVE StoreTypeOK'
  BY <1>1, <1>3, RewriteTypes DEF ClaimNothing
<1> QED  BY <1>2, <1>3

\* So does a recovery.
LEMMA RecoverTypes ==
  ASSUME StoreTypeOK, NEW p \in Procs, NEW d \in Nat, NEW dead, NEW expired,
         RecoverAnalysis(p, d, dead, expired)
  PROVE  StoreTypeOK'
<1>1. \A j \in Lost(p, dead, expired) : Recovered(jobs[j], d) \in Row
  <2> SUFFICES ASSUME NEW j \in Lost(p, dead, expired) PROVE Recovered(jobs[j], d) \in Row
    OBVIOUS
  <2>1. jobs[j] \in Row
    BY UsedRows DEF Lost
  <2> QED  BY <2>1, RowChanges
<1>2. jobs' \in [Ids -> Row \cup {NoRow}]
  BY <1>1 DEF RecoverAnalysis, StoreTypeOK
<1> QED  BY <1>2, RewriteTypes DEF RecoverAnalysis

\* So do the fenced writes of a worker and the cancellation.
LEMMA WorkerWriteTypes ==
  ASSUME StoreTypeOK, NEW p \in Procs, NEW i \in Ids, NEW attempt \in Nat, NEW d \in Nat
  PROVE  /\ HoldAnalysis(p, i, attempt) => StoreTypeOK'
         /\ RetryAnalysis(p, i, attempt) => StoreTypeOK'
         /\ \A state \in Ended, error \in Errors, billed \in BOOLEAN :
              FinishAnalysis(p, i, attempt, state, d, error, billed) => StoreTypeOK'
         /\ CancelAnalysis(i, d) => StoreTypeOK'
<1>1. i \in Used => jobs[i] \in Row
  BY UsedRows
<1>2. Owns(p, i, attempt) => i \in Used
  BY DEF Owns
<1>3. /\ "signed out" \in Errors /\ "retrying" \in Errors /\ "cancelled" \in Errors
      /\ "retrying_after_recovery" \in Errors /\ "skipped" \in Live \cup Ended
  BY DEF Errors, Marked, Ended
<1>4. ASSUME HoldAnalysis(p, i, attempt) PROVE StoreTypeOK'
  BY <1>1, <1>2, <1>3, <1>4, RowReads, RowClaims, WriteTypes DEF HoldAnalysis
<1>5. ASSUME RetryAnalysis(p, i, attempt) PROVE StoreTypeOK'
  BY <1>1, <1>2, <1>3, <1>5, RowWrites, WriteTypes DEF RetryAnalysis
<1>6. ASSUME NEW state \in Ended, NEW error \in Errors, NEW billed \in BOOLEAN,
             FinishAnalysis(p, i, attempt, state, d, error, billed)
      PROVE  StoreTypeOK'
  <2>1. CASE Owns(p, i, attempt)
    <3>1. (jobs[i].billed \/ billed) \in BOOLEAN
      OBVIOUS
    <3>2. [jobs[i] EXCEPT !.state = state, !.finished = d, !.error = error,
                          !.billed = @ \/ billed] \in Row
      BY <1>1, <1>2, <2>1, <3>1, RowWrites
    <3> QED  BY <1>6, <2>1, <3>2, WriteTypes DEF FinishAnalysis
  <2>2. CASE ~Owns(p, i, attempt)
    BY <1>6, <2>2, WriteTypes DEF FinishAnalysis
  <2> QED  BY <2>1, <2>2
<1>7. ASSUME CancelAnalysis(i, d) PROVE StoreTypeOK'
  BY <1>1, <1>3, <1>7, RowWrites, WriteTypes DEF CancelAnalysis
<1> QED  BY <1>4, <1>5, <1>6, <1>7

\* So does ending the jobs of a removed database.
LEMMA RemovalTypes ==
  ASSUME StoreTypeOK, NEW t \in Targets, NEW d \in Nat, SkipRemoved(t, d)
  PROVE  StoreTypeOK'
<1>1. "skipped" \in Live \cup Ended /\ "removed" \in Errors
  BY DEF Ended, Errors
<1>2. \A j \in RowsOf(t) :
        [jobs[j] EXCEPT !.state = "skipped", !.finished = d, !.error = "removed"] \in Row
  <2> SUFFICES ASSUME NEW j \in RowsOf(t)
               PROVE  [jobs[j] EXCEPT !.state = "skipped", !.finished = d,
                                      !.error = "removed"] \in Row
    OBVIOUS
  <2>1. jobs[j] \in Row
    BY UsedRows DEF RowsOf
  <2> QED  BY <1>1, <2>1, RowWrites
<1>3. jobs' \in [Ids -> Row \cup {NoRow}]
  BY <1>2 DEF SkipRemoved, StoreTypeOK
<1> QED  BY <1>3, RewriteTypes DEF SkipRemoved

-----------------------------------------------------------------------------
(* Type correctness of the whole queue.                                    *)

\* A worker's task stays a task whatever its progress.
LEMMA TaskChanges ==
  ASSUME NEW task \in Task
  PROVE  /\ \A pc \in {"begin", "sample", "analyze", "fail", "ended"} :
              [task EXCEPT !.pc = pc] \in Task
         /\ [task EXCEPT !.retried = TRUE] \in Task
         /\ [task EXCEPT !.stopped = TRUE] \in Task
         /\ \A stopped \in BOOLEAN :
              [task EXCEPT !.deadline = "hit", !.stopped = stopped] \in Task
         /\ [task EXCEPT !.deadline = "closed"] \in Task
         /\ task.proc \in Procs /\ task.id \in Ids /\ task.attempt \in Nat
BY DEF Task

\* Process, sign-in, settings and day changes.
LEMMA EnvironmentType == TypeOK /\ Environment => TypeOK'
<1> SUFFICES ASSUME TypeOK, Environment PROVE TypeOK'
  OBVIOUS
<1> USE DEF TypeOK
<1>a. ASSUME NEW p \in Procs, TurnsOn(p)
      PROVE  StoreTypeOK' /\ queue' \in [Procs -> {"off", "on", "halted", "ended", "stopping"}]
  BY <1>a, RecoverTypes DEF TurnsOn
<1>b. UNCHANGED storeVars => StoreTypeOK'
  BY DEF StoreTypeOK, storeVars
<1>1. ASSUME NEW p \in Procs, StartProcess(p) PROVE TypeOK'
  <2>1. StoreTypeOK' /\ queue' \in [Procs -> {"off", "on", "halted", "ended", "stopping"}]
    BY <1>1, <1>a, <1>b DEF StartProcess
  <2> QED  BY <1>1, <2>1 DEF StartProcess, envVars, targetVars
<1>2. ASSUME NEW p \in Procs, StartQueue(p) PROVE TypeOK'
  <2>1. StoreTypeOK' /\ queue' \in [Procs -> {"off", "on", "halted", "ended", "stopping"}]
    BY <1>2, <1>a DEF StartQueue
  <2> QED  BY <1>2, <2>1 DEF StartQueue, envVars, targetVars
<1>3. ASSUME NEW p \in Procs, EndProcess(p) PROVE TypeOK'
  BY <1>3, <1>b DEF EndProcess
<1>4. ASSUME NEW p \in Procs, StopQueue(p) PROVE TypeOK'
  <2>1. \A task \in tasks : [task EXCEPT !.stopped = TRUE] \in Task
    BY TaskChanges
  <2>2. tasks' \subseteq Task
    BY <1>4, <2>1 DEF StopQueue
  <2> QED  BY <1>4, <1>b, <2>2 DEF StopQueue, envVars, targetVars
<1>5. ASSUME NEW p \in Procs, QueueStopped(p) PROVE TypeOK'
  BY <1>5, <1>b DEF QueueStopped, envVars, targetVars
<1>13. ASSUME NEW p \in Procs, PassEnds(p) PROVE TypeOK'
  BY <1>13, <1>b DEF PassEnds, envVars, targetVars
<1>6. ASSUME ChangeSignIn PROVE TypeOK'
  BY <1>6, <1>b DEF ChangeSignIn, targetVars
<1>7. ASSUME NEW t \in Targets, ChangeExecute(t) PROVE TypeOK'
  BY <1>7, <1>b DEF ChangeExecute, Setting
<1>8. ASSUME NEW t \in Targets, TurnOff(t) PROVE TypeOK'
  BY <1>8, <1>b DEF TurnOff, Setting
<1>9. ASSUME NEW p \in Procs, NEW t \in Targets, TurnOn(p, t) PROVE TypeOK'
  BY <1>9, <1>b DEF TurnOn, Setting
<1>10. ASSUME NEW p \in Procs, NEW t \in Targets, StartHour(p, t) PROVE TypeOK'
  <2>1. StoreTypeOK'
    <3>1. \A i \in RowsOf(t) : [jobs[i] EXCEPT !.firstHour = FALSE] \in Row
      BY UsedRows, RowWrites DEF RowsOf
    <3> QED  BY <1>10, <3>1 DEF StartHour, StoreTypeOK
  <2>2. \A ask \in asked : [ask EXCEPT !.first = FALSE] \in Decision
    BY DEF Decision
  <2>3. asked' \subseteq Decision
    BY <1>10, <2>2 DEF StartHour
  <2> QED  BY <1>10, <2>1, <2>3 DEF StartHour, Setting
<1>11. ASSUME NEW t \in Targets, EndHour(t) PROVE TypeOK'
  BY <1>11, <1>b DEF EndHour, Setting
<1>12. ASSUME NextDay PROVE TypeOK'
  BY <1>12, <1>b DEF NextDay, targetVars
<1> QED  BY <1>1, <1>2, <1>3, <1>4, <1>5, <1>6, <1>7, <1>8, <1>9, <1>10, <1>11, <1>12,
         <1>13 DEF Environment

\* A decision to enqueue, and its write.
LEMMA AskType ==
  ASSUME TypeOK, NEW p \in Procs, NEW t \in Targets, NEW k \in Keys, NEW reason \in Reasons,
         NEW capped \in BOOLEAN, Ask(p, t, k, reason, capped), UNCHANGED <<proc, queue, waking, envVars>>
  PROVE  TypeOK'
<1>1. [proc |-> p, target |-> t, key |-> k, reason |-> reason, capped |-> capped,
       day |-> day, first |-> First(t)] \in Decision
  BY DEF TypeOK, Decision, First
<1> QED  BY <1>1 DEF Ask, TypeOK, StoreTypeOK, storeVars, envVars, targetVars

\* A decision is written, with or without an effect on the table.
LEMMA EnqueueType ==
  ASSUME TypeOK, NEW ask \in asked, Enqueue(ask)
  PROVE  TypeOK'
<1>1. /\ ask.target \in Targets /\ ask.key \in Keys /\ ask.reason \in Reasons
      /\ ask.day \in Nat /\ ask.first \in BOOLEAN /\ ask.capped \in BOOLEAN
      /\ ask.proc \in Procs
  BY DEF TypeOK, Decision
<1>2. StoreTypeOK
  BY DEF TypeOK
<1>3. StoreTypeOK'
  BY <1>1, <1>2, EnqueueTypes, WriteTypes DEF Enqueue
<1>4. waking' \subseteq Procs
  BY <1>1 DEF Enqueue, TypeOK
<1> QED  BY <1>3, <1>4 DEF Enqueue, TypeOK, envVars, targetVars

\* The steps of a pass.
LEMMA PassType ==
  ASSUME TypeOK, NEW p \in Procs, Pass(p)
  PROVE  TypeOK'
<1>0. StoreTypeOK /\ day \in Nat /\ execute \in [Targets -> BOOLEAN]
  BY DEF TypeOK
<1>a. {"new", "top15_stale"} \subseteq Reasons /\ Automatic \subseteq Reasons
  BY DEF Reasons, Newcomer, Reanalysis, Automatic
<1>1. ASSUME Recover(p) PROVE TypeOK'
  <2>1. StoreTypeOK'
    BY <1>0, <1>1, RecoverTypes DEF Recover
  <2> QED  BY <1>1, <2>1 DEF Recover, QueueStep, TypeOK, envVars, targetVars
<1>2. ASSUME NEW t \in Targets, NEW k \in Keys, AskNew(p, t, k) PROVE TypeOK'
  BY <1>2, <1>a, AskType DEF AskNew, QueueStep
<1>3. ASSUME NEW t \in Targets, NEW k \in Keys, AskStale(p, t, k) PROVE TypeOK'
  BY <1>3, <1>a, AskType DEF AskStale, QueueStep
<1>4. ASSUME NEW t \in Targets, NEW k \in Keys, AskFirstHour(p, t, k) PROVE TypeOK'
  BY <1>4, <1>a, AskType DEF AskFirstHour, QueueStep
<1>5. ASSUME NEW t \in Targets, NEW k \in Keys, AskRetry(p, t, k) PROVE TypeOK'
  <2>1. PICK i \in Ids : IsLatest(t, k, i) /\ Ask(p, t, k, jobs[i].reason, FALSE)
    BY <1>5 DEF AskRetry
  <2>2. jobs[i] \in Row
    BY <1>0, <2>1, UsedRows DEF IsLatest, RowsOf
  <2>3. jobs[i].reason \in Reasons
    BY <2>2, RowReads
  <2> QED  BY <1>5, <2>1, <2>3, AskType DEF AskRetry, QueueStep
<1>6. ASSUME NEW t \in Targets, DropFirstHour(p, t) PROVE TypeOK'
  <2>1. StoreTypeOK'
    BY <1>0, <1>6, DeleteTypes DEF DropFirstHour
  <2> QED  BY <1>6, <2>1 DEF DropFirstHour, QueueStep, TypeOK, envVars, targetVars
<1>7. ASSUME NEW t \in Targets, NEW reason \in Automatic, Trim(p, t, reason) PROVE TypeOK'
  <2>1. StoreTypeOK'
    BY <1>0, <1>7, DeleteTypes DEF Trim
  <2> QED  BY <1>7, <2>1 DEF Trim, QueueStep, TypeOK, envVars, targetVars
<1>8. ASSUME NEW t \in Targets, ClaimNoJob(p, t) PROVE TypeOK'
  <2>1. ClaimNothing(p, t, Dead, execute[t], First(t), signedIn)
    BY <1>8 DEF ClaimNoJob
  <2>2. execute[t] \in BOOLEAN /\ First(t) \in BOOLEAN
    BY <1>0 DEF First
  <2>3. \A i \in Ids : StoreTypeOK'
    <3> SUFFICES ASSUME NEW i \in Ids PROVE StoreTypeOK'
      OBVIOUS
    <3> QED  BY <1>0, <2>1, <2>2, ClaimTypes
  <2>4. StoreTypeOK'
    <3>1. CASE Ids = {}
      BY <3>1, <1>0, <2>1 DEF ClaimNothing, Reclaimed, StoreTypeOK
    <3> QED  BY <2>3, <3>1
  <2> QED  BY <1>8, <2>4 DEF ClaimNoJob, QueueStep, TypeOK, envVars, targetVars
<1>9. ASSUME NEW t \in Targets, Claim(p, t) PROVE TypeOK'
  <2>1. PICK i \in Ids :
          /\ ClaimAnalysis(p, t, day, Dead, execute[t], First(t), signedIn, Monitored(t), i)
          /\ tasks' = tasks \cup
               {[proc |-> p, id |-> i, attempt |-> jobs'[i].attempt, serial |-> jobs'[i].serial,
                 target |-> t, reason |-> jobs'[i].reason, pc |-> "begin",
                 retried |-> FALSE, stopped |-> queue[p] = "stopping", deadline |-> "no"]}
    BY <1>9 DEF Claim
  <2>2. execute[t] \in BOOLEAN /\ First(t) \in BOOLEAN
    BY <1>0 DEF First
  <2>3. StoreTypeOK' /\ jobs'[i] \in Row
    BY <1>0, <2>1, <2>2, ClaimTypes
  <2>4. jobs'[i].attempt \in Nat /\ jobs'[i].serial \in Nat /\ jobs'[i].reason \in Reasons
    BY <2>3, RowReads
  <2>5. \A a \in Nat, s \in Nat, r \in Reasons, b \in BOOLEAN :
          [proc |-> p, id |-> i, attempt |-> a, serial |-> s, target |-> t, reason |-> r,
           pc |-> "begin", retried |-> FALSE, stopped |-> b, deadline |-> "no"] \in Task
    BY DEF Task
  <2> DEFINE late == queue[p] = "stopping"
             new == [proc |-> p, id |-> i, attempt |-> jobs'[i].attempt,
                     serial |-> jobs'[i].serial, target |-> t, reason |-> jobs'[i].reason,
                     pc |-> "begin", retried |-> FALSE, stopped |-> late, deadline |-> "no"]
  <2>6. late \in BOOLEAN
    OBVIOUS
  <2>7. tasks' = tasks \cup {new}
    BY <2>1
  <2>8. new \in Task
    <3> HIDE DEF late
    <3> QED  BY <2>4, <2>5, <2>6
  <2>9. tasks' \subseteq Task
    <3> HIDE DEF new
    <3> QED  BY <2>7, <2>8 DEF TypeOK
  <2> QED  BY <1>9, <2>3, <2>9 DEF Claim, QueueStep, TypeOK, envVars, targetVars
<1> QED  BY <1>1, <1>2, <1>3, <1>4, <1>5, <1>6, <1>7, <1>8, <1>9 DEF Pass

\* Requests.
LEMMA RequestType ==
  ASSUME TypeOK, NEW p \in Procs, Requests(p)
  PROVE  TypeOK'
<1>0. StoreTypeOK /\ day \in Nat
  BY DEF TypeOK
<1>a. "user" \in Reasons /\ "report" \in Reasons
  BY DEF Reasons, Reanalysis
<1>1. ASSUME NEW t \in Targets, NEW k \in Keys, AskClick(p, t, k) PROVE TypeOK'
  BY <1>1, <1>a, AskType DEF AskClick, Request
<1>2. ASSUME NEW t \in Targets, NEW k \in Keys, ClickWaiting(p, t, k) PROVE TypeOK'
  <2>1. PICK i \in LiveRows(t, k) : Update(i, [jobs[i] EXCEPT !.clicked = TRUE])
    BY <1>2 DEF ClickWaiting
  <2>2. i \in Ids /\ jobs[i] \in Row
    BY <1>0, UsedRows DEF LiveRows, RowsOf
  <2>3. StoreTypeOK'
    BY <1>0, <2>1, <2>2, RowWrites, WriteTypes
  <2> QED  BY <1>2, <2>3 DEF ClickWaiting, Request, TypeOK, envVars, targetVars
<1>3. ASSUME NEW t \in Targets, NEW k \in Keys, AskForReport(p, t, k) PROVE TypeOK'
  BY <1>3, <1>a, AskType DEF AskForReport, Request
<1>4. ASSUME NEW t \in Targets, NEW k \in Keys, RecordPasted(p, t, k) PROVE TypeOK'
  <2>1. StoreTypeOK'
    BY <1>0, <1>4, EnqueueTypes, <1>a DEF RecordPasted, First
  <2> QED  BY <1>4, <2>1 DEF RecordPasted, Request, TypeOK, envVars, targetVars
<1>5. ASSUME NEW i \in Ids, Cancel(p, i) PROVE TypeOK'
  <2>1. StoreTypeOK'
    BY <1>0, <1>5, WorkerWriteTypes DEF Cancel
  <2>2. tasks' \subseteq Task
    <3>1. \A task \in tasks : [task EXCEPT !.stopped = TRUE] \in Task
      BY TaskChanges DEF TypeOK
    <3> QED  BY <1>5, <3>1 DEF Cancel, Runs, Becomes, TypeOK
  <2> QED  BY <1>5, <2>1, <2>2 DEF Cancel, Request, TypeOK, envVars, targetVars
<1>6. ASSUME NEW t \in Targets, BeginRemoval(p, t) PROVE TypeOK'
  <2>1. StoreTypeOK'
    BY <1>0, <1>6, RemovalTypes DEF BeginRemoval
  <2>2. tasks' \subseteq Task
    <3>1. \A task \in tasks : [task EXCEPT !.stopped = TRUE] \in Task
      BY TaskChanges DEF TypeOK
    <3> QED  BY <1>6, <3>1 DEF BeginRemoval, Runs, Becomes, TypeOK
  <2> QED  BY <1>6, <2>1, <2>2 DEF BeginRemoval, TypeOK
<1>7. ASSUME Wake(p) PROVE TypeOK'
  <2>1. StoreTypeOK' /\ queue' \in [Procs -> {"off", "on", "halted", "ended", "stopping"}]
    <3>1. CASE TurnsOn(p)
      BY <1>0, <3>1, RecoverTypes DEF TurnsOn, TypeOK
    <3>2. CASE UNCHANGED <<storeVars, queue>>
      BY <3>2 DEF storeVars, StoreTypeOK, TypeOK
    <3> QED  BY <1>7, <3>1, <3>2 DEF Wake
  <2> QED  BY <1>7, <2>1 DEF Wake, Request, TypeOK, envVars, targetVars
<1> QED  BY <1>1, <1>2, <1>3, <1>4, <1>5, <1>6, <1>7 DEF Requests

\* The second half of a removal.
LEMMA FinishRemovalType ==
  ASSUME TypeOK, NEW t \in Targets, FinishRemoval(t)
  PROVE  TypeOK'
<1>1. StoreTypeOK'
  BY DeleteTypes DEF FinishRemoval, TypeOK
<1> QED  BY <1>1 DEF FinishRemoval, TypeOK

\* A worker that leaves, or goes on.
LEMMA TasksType ==
  ASSUME TypeOK, NEW task \in tasks
  PROVE  /\ task \in Task
         /\ Ends(task) => tasks' \subseteq Task
         /\ \A new \in Task : Becomes(task, new) => tasks' \subseteq Task
<1>1. task \in Task /\ tasks \subseteq Task
  BY DEF TypeOK
<1>2. [task EXCEPT !.pc = "ended"] \in Task
  BY <1>1, TaskChanges
<1> QED  BY <1>1, <1>2 DEF Ends, Becomes

\* A worker takes a step, from its first stage to its deadline write.
LEMMA WorkerType ==
  ASSUME TypeOK, NEW task \in tasks, Worker(task)
  PROVE  TypeOK'
<1>0. StoreTypeOK /\ day \in Nat /\ task \in Task
  BY TasksType DEF TypeOK
<1>a. task.proc \in Procs /\ task.id \in Ids /\ task.attempt \in Nat
  BY <1>0, TaskChanges
\* A step that leaves processes and settings alone.
<1>b. ASSUME StoreTypeOK', tasks' \subseteq Task, Step(task) PROVE TypeOK'
  BY <1>b DEF Step, TypeOK, envVars, targetVars
<1>c. Idle => StoreTypeOK'
  BY <1>0, WriteTypes DEF Idle
<1>1. ASSUME StartSampling(task) PROVE TypeOK'
  <2>1. tasks' \subseteq Task
    BY <1>0, <1>1, TasksType, TaskChanges DEF StartSampling
  <2> QED  BY <1>1, <1>b, <1>c, <2>1 DEF StartSampling
<1>2. ASSUME StartAnalysis(task) PROVE TypeOK'
  <2>1. tasks' \subseteq Task
    BY <1>0, <1>2, TasksType, TaskChanges DEF StartAnalysis
  <2> QED  BY <1>2, <1>b, <1>c, <2>1 DEF StartAnalysis
<1>3. ASSUME LeaveJob(task) PROVE TypeOK'
  BY <1>3, <1>b, <1>c, TasksType DEF LeaveJob
<1>4. ASSUME Hold(task) PROVE TypeOK'
  <2>1. StoreTypeOK'
    BY <1>0, <1>a, <1>4, WorkerWriteTypes DEF Hold
  <2> QED  BY <1>4, <1>b, <2>1, TasksType DEF Hold
<1>5. ASSUME Skip(task) PROVE TypeOK'
  <2>1. "skipped" \in Ended /\ "not eligible" \in Errors
    BY DEF Ended, Errors
  <2>2. StoreTypeOK'
    BY <1>0, <1>a, <1>5, <2>1, WorkerWriteTypes DEF Skip
  <2> QED  BY <1>5, <1>b, <2>2, TasksType DEF Skip
<1>6. ASSUME RetryAtOnce(task) PROVE TypeOK'
  <2>1. StoreTypeOK'
    BY <1>0, <1>a, <1>6, WorkerWriteTypes DEF RetryAtOnce
  <2>2. tasks' \subseteq Task
    BY <1>0, <1>6, TasksType, TaskChanges DEF RetryAtOnce
  <2> QED  BY <1>6, <1>b, <2>1, <2>2 DEF RetryAtOnce
<1>7. ASSUME Done(task) PROVE TypeOK'
  <2>1. "done" \in Ended /\ "" \in Errors
    BY DEF Ended, Errors
  <2>2. StoreTypeOK'
    BY <1>0, <1>a, <1>7, <2>1, WorkerWriteTypes DEF Done
  <2> QED  BY <1>7, <1>b, <2>2, TasksType DEF Done
<1>8. ASSUME Raise(task) PROVE TypeOK'
  <2>1. tasks' \subseteq Task
    BY <1>0, <1>8, TasksType, TaskChanges DEF Raise
  <2> QED  BY <1>8, <1>b, <1>c, <2>1 DEF Raise
<1>9. ASSUME Fail(task) PROVE TypeOK'
  <2>1. "failed" \in Ended /\ Failures \subseteq Errors
    BY FailuresAssumption DEF Ended, Errors
  <2>2. StoreTypeOK'
    BY <1>0, <1>a, <1>9, <2>1, WorkerWriteTypes DEF Fail
  <2> QED  BY <1>9, <1>b, <2>2, TasksType DEF Fail
<1>10. ASSUME HitDeadline(task) PROVE TypeOK'
  <2>1. [task EXCEPT !.deadline = "hit", !.stopped = task.pc # "begin"] \in Task
    BY <1>0, TaskChanges
  <2>2. tasks' \subseteq Task
    BY <1>10, <2>1, TasksType DEF HitDeadline
  <2> QED  BY <1>10, <1>b, <1>c, <2>2 DEF HitDeadline
<1>11. ASSUME CloseDeadline(task) PROVE TypeOK'
  <2>1. "failed" \in Ended /\ "deadline" \in Errors
    BY DEF Ended, Errors
  <2>2. StoreTypeOK'
    BY <1>0, <1>a, <1>11, <2>1, WorkerWriteTypes DEF CloseDeadline
  <2>3. tasks' \subseteq Task
    <3>1. [task EXCEPT !.deadline = "closed"] \in Task
      BY <1>0, TaskChanges
    <3> QED  BY <1>11, <3>1 DEF CloseDeadline, TypeOK
  <2> QED  BY <1>11, <2>2, <2>3 DEF CloseDeadline, TypeOK, envVars, targetVars
<1>12. ASSUME EndCancelled(task) PROVE TypeOK'
  <2>1. tasks' \subseteq Task
    BY <1>12 DEF EndCancelled, TypeOK
  <2> QED  BY <1>12, <1>b, <1>c, <2>1 DEF EndCancelled
<1> QED
  BY <1>1, <1>2, <1>3, <1>4, <1>5, <1>6, <1>7, <1>8, <1>9, <1>10, <1>11, <1>12 DEF Worker

\* The program never leaves its types: every row, claim, task and decision any process writes
\* is well formed.
THEOREM TypeCorrect == Spec => []TypeOK
<1>1. Init => TypeOK
  <2> SUFFICES ASSUME Init PROVE TypeOK
    OBVIOUS
  <2>1. StoreTypeOK
    BY DEF Init, StoreInit, StoreTypeOK
  <2>2. execute \in [Targets -> BOOLEAN] /\ hour \in [Targets -> {"before", "now", "over"}]
    BY StartAssumption DEF Init
  <2> QED  BY <2>1, <2>2 DEF Init, TypeOK
<1>2. TypeOK /\ [Next]_vars => TypeOK'
  <2> SUFFICES ASSUME TypeOK, [Next]_vars PROVE TypeOK'
    OBVIOUS
  <2>1. CASE UNCHANGED vars
    BY <2>1 DEF vars, TypeOK, StoreTypeOK
  <2>2. CASE Next
    BY <2>2, EnvironmentType, PassType, RequestType, EnqueueType, FinishRemovalType, WorkerType
    DEF Next
  <2> QED  BY <2>1, <2>2
<1> QED  BY <1>1, <1>2, PTL DEF Spec

-----------------------------------------------------------------------------
(* The fence: rows only move forward (an ended row stays, a claim counter  *)
(* never goes back), so a claim (owner, attempt) is given to one worker    *)
(* only, and no two workers of any processes hold one job.                 *)

\* How a row may change in one step: it stays, is deleted for good, falls out of a moved first
\* hour, or was live and keeps counting its claims.
Moves(i) ==
  \/ jobs'[i] = jobs[i]
  \/ /\ jobs'[i] = [jobs[i] EXCEPT !.firstHour = FALSE]
     /\ jobs'[i] # NoRow /\ jobs'[i].attempt = jobs[i].attempt
  \/ jobs'[i] = NoRow /\ i \in deleted'
  \/ /\ jobs[i].state \in Live
     /\ jobs'[i] # NoRow /\ jobs[i].attempt <= jobs'[i].attempt
RowsMove == deleted \subseteq deleted' /\ \A i \in Used : Moves(i)

\* Attempts that are equal, or one apart.
LEMMA Counts ==
  ASSUME NEW m \in Nat
  PROVE  m <= m /\ m <= m + 1
OBVIOUS

\* What the operations write into a row leaves its claim counter alone.
LEMMA WritesKeepCount ==
  ASSUME NEW row \in Row
  PROVE  /\ \A clicked \in BOOLEAN : [row EXCEPT !.clicked = clicked].attempt = row.attempt
         /\ \A reason \in Reasons, clicked \in BOOLEAN :
              [row EXCEPT !.reason = reason, !.clicked = clicked].attempt = row.attempt
         /\ \A error \in Errors : [row EXCEPT !.error = error].attempt = row.attempt
         /\ \A state \in Live \cup Ended, d \in Nat, error \in Errors :
              [row EXCEPT !.state = state, !.finished = d, !.error = error].attempt = row.attempt
         /\ \A state \in Live \cup Ended, d \in Nat, error \in Errors :
              [row EXCEPT !.state = state, !.error = error, !.finished = d].attempt = row.attempt
         /\ \A state \in Live \cup Ended, d \in Nat, error \in Errors, billed \in BOOLEAN :
              [row EXCEPT !.state = state, !.finished = d, !.error = error,
                          !.billed = billed].attempt = row.attempt
         /\ \A error \in Errors :
              [row EXCEPT !.state = "queued", !.started = 0, !.error = error,
                          !.owner = NoProc].attempt = row.attempt
BY DEF Row

\* Claims and recoveries count.
LEMMA ChangesCount ==
  ASSUME NEW row \in Row
  PROVE  /\ Requeued(row).attempt = row.attempt + 1
         /\ \A d : Recovered(row, d).attempt = row.attempt + 1
         /\ \A p, d, measured, first :
              Started(row, p, d, measured, first).attempt = row.attempt + 1
<1>1. Requeued(row).attempt = row.attempt + 1
  BY DEF Requeued, Row
<1>2. \A d : Recovered(row, d).attempt = row.attempt + 1
  BY DEF Recovered, Row
<1>3. \A p, d, measured, first : Started(row, p, d, measured, first).attempt = row.attempt + 1
  BY DEF Started, Row
<1> QED  BY <1>1, <1>2, <1>3

\* The ways an operation writes the table.
LEMMA WritesMove ==
  ASSUME StoreTypeOK
  PROVE  /\ \A row \in Row : Insert(row) => RowsMove
         /\ \A ids \in SUBSET Ids : Delete(ids) => RowsMove
         /\ UNCHANGED storeVars => RowsMove
         /\ \A i \in Used, row \in Row :
              /\ jobs[i].state \in Live /\ row.attempt = jobs[i].attempt /\ Update(i, row)
              => RowsMove
<1>1. ASSUME NEW row \in Row, Insert(row) PROVE RowsMove
  BY <1>1 DEF Insert, IsNextId, RowsMove, Moves, Used, StoreTypeOK, Ids
<1>2. ASSUME NEW ids \in SUBSET Ids, Delete(ids) PROVE RowsMove
  BY <1>2 DEF Delete, RowsMove, Moves, Used
<1>3. ASSUME UNCHANGED storeVars PROVE RowsMove
  BY <1>3 DEF storeVars, RowsMove, Moves
<1>4. ASSUME NEW i \in Used, NEW row \in Row, jobs[i].state \in Live,
             row.attempt = jobs[i].attempt, Update(i, row)
      PROVE  RowsMove
  <2>1. deleted \subseteq deleted'
    BY <1>4 DEF Update
  <2>2. Moves(i)
    <3>1. jobs'[i] = row /\ row # NoRow
      BY <1>4, UsedRows, NoRowAssumption DEF Update, StoreTypeOK
    <3>2. row.attempt \in Nat
      BY RowReads
    <3> QED  BY <1>4, <3>1, <3>2, Counts DEF Moves
  <2>3. \A j \in Used \ {i} : Moves(j)
    BY <1>4 DEF Update, Moves, Used, StoreTypeOK
  <2> QED  BY <2>1, <2>2, <2>3 DEF RowsMove
<1> QED  BY <1>1, <1>2, <1>3, <1>4

\* Every operation of the store moves rows only this way.
LEMMA EnqueueMoves ==
  ASSUME StoreTypeOK, NEW t \in Targets, NEW k \in Keys, NEW reason \in Reasons,
         NEW d \in Nat, NEW first \in BOOLEAN, NEW capped \in BOOLEAN
  PROVE  /\ EnqueueAnalysis(t, k, reason, d, first, capped) => RowsMove
         /\ SkipAnalysisOnce(t, k, reason, d, first) => RowsMove
         /\ RecordUserAnalysis(t, k, d, first) => RowsMove
<1>1. serial \in Nat
  BY DEF StoreTypeOK
<1>2. /\ "queued" \in Live \cup Ended /\ "done" \in Live \cup Ended
      /\ "skipped" \in Live \cup Ended /\ "not eligible" \in Errors /\ "user" \in Reasons
  BY DEF Live, Ended, Errors, Reasons
<1>3. \A i \in LiveRows(t, k) : i \in Used /\ jobs[i] \in Row /\ jobs[i].state \in Live
  BY UsedRows DEF LiveRows, RowsOf
<1>4. ASSUME EnqueueAnalysis(t, k, reason, d, first, capped) PROVE RowsMove
  <2>1. ASSUME NEW i \in LiveRows(t, k),
               Update(i, [jobs[i] EXCEPT !.reason = reason,
                                         !.clicked = @ \/ reason = "user"])
        PROVE  RowsMove
    <3> DEFINE row == [jobs[i] EXCEPT !.reason = reason, !.clicked = @ \/ reason = "user"]
    <3>1. (jobs[i].clicked \/ reason = "user") \in BOOLEAN
      OBVIOUS
    <3>2. row \in Row
      BY <1>3, <3>1, RowWrites
    <3>3. row.attempt = jobs[i].attempt
      BY <1>3, <3>1, WritesKeepCount
    <3> HIDE DEF row
    <3>4. Update(i, row)
      BY <2>1 DEF row
    <3> QED  BY <1>3, <3>2, <3>3, <3>4, WritesMove
  <2>2. ASSUME Insert(NewRow(t, k, reason, "queued", d, first)) PROVE RowsMove
    BY <1>1, <1>2, <2>2, NewRowType, WritesMove
  <2>3. ASSUME UNCHANGED storeVars PROVE RowsMove
    BY <2>3, WritesMove
  <2> QED  BY <1>4, <2>1, <2>2, <2>3 DEF EnqueueAnalysis
<1>5. ASSUME SkipAnalysisOnce(t, k, reason, d, first) PROVE RowsMove
  <2>1. ASSUME NEW i \in LiveRows(t, k),
               Update(i, [jobs[i] EXCEPT !.state = "skipped", !.finished = d,
                                         !.error = "not eligible"])
        PROVE  RowsMove
    <3> DEFINE row == [jobs[i] EXCEPT !.state = "skipped", !.finished = d,
                                      !.error = "not eligible"]
    <3>1. row \in Row
      BY <1>2, <1>3, RowWrites
    <3>2. row.attempt = jobs[i].attempt
      <4>1. jobs[i] \in Row
        BY <1>3
      <4> QED  BY <4>1 DEF Row
    <3>3. Update(i, row)
      BY <2>1
    <3> HIDE DEF row
    <3> QED  BY <1>3, <3>1, <3>2, <3>3, WritesMove
  <2>2. ASSUME Insert([NewRow(t, k, reason, "skipped", d, first) EXCEPT !.error = "not eligible"])
        PROVE  RowsMove
    <3>1. NewRow(t, k, reason, "skipped", d, first) \in Row
      BY <1>1, <1>2, NewRowType
    <3> QED  BY <1>2, <2>2, <3>1, RowWrites, WritesMove
  <2>3. ASSUME UNCHANGED storeVars PROVE RowsMove
    BY <2>3, WritesMove
  <2> QED  BY <1>5, <2>1, <2>2, <2>3 DEF SkipAnalysisOnce
<1>6. ASSUME RecordUserAnalysis(t, k, d, first) PROVE RowsMove
  BY <1>1, <1>2, <1>6, NewRowType, WritesMove DEF RecordUserAnalysis
<1> QED  BY <1>4, <1>5, <1>6

\* Trimming, dropping and forgetting only empty ids.
LEMMA DeleteMoves ==
  ASSUME StoreTypeOK, NEW t \in Targets
  PROVE  /\ \A reason, keep : TrimAutomatic(t, reason, keep) => RowsMove
         /\ DropQueued(t) => RowsMove
         /\ ForgetTarget(t) => RowsMove
<1>1. Queued(t) \subseteq Ids /\ RowsOf(t) \subseteq Ids
  BY DEF Queued, RowsOf, Used
<1>2. \A reason, keep : TrimAutomatic(t, reason, keep) => RowsMove
  BY <1>1, WritesMove DEF TrimAutomatic, Trimmable
<1>3. DropQueued(t) => RowsMove
  BY <1>1, WritesMove DEF DropQueued
<1>4. ForgetTarget(t) => RowsMove
  BY <1>1, WritesMove DEF ForgetTarget
<1> QED  BY <1>2, <1>3, <1>4

\* A running row that a claim puts back has counted one claim more.
LEMMA ReclaimMoves ==
  ASSUME StoreTypeOK, NEW p \in Procs, NEW t \in Targets, NEW dead, NEW i \in Used
  PROVE  LET row == Reclaimed(p, t, dead)[i]
         IN  /\ row \in Row /\ jobs[i].attempt <= row.attempt
             /\ row = jobs[i] \/ jobs[i].state \in Live
<1>1. i \in Ids /\ jobs[i] \in Row
  BY UsedRows
<1>2. jobs[i].attempt \in Nat
  BY <1>1, RowReads
<1>3. CASE i \in Running(t) /\ DeadOwner(p, jobs[i], dead)
  <2>1. Reclaimed(p, t, dead)[i] = Requeued(jobs[i])
    BY <1>1, <1>3 DEF Reclaimed
  <2>2. Requeued(jobs[i]) \in Row
    BY <1>1, RowChanges
  <2>3. jobs[i].attempt <= Requeued(jobs[i]).attempt
    BY <1>1, <1>2, ChangesCount, Counts
  <2>4. jobs[i].state \in Live
    BY <1>3 DEF Running, Live
  <2> QED  BY <2>1, <2>2, <2>3, <2>4
<1>4. CASE ~(i \in Running(t) /\ DeadOwner(p, jobs[i], dead))
  <2>1. Reclaimed(p, t, dead)[i] = jobs[i]
    BY <1>1, <1>4 DEF Reclaimed
  <2> QED  BY <1>1, <1>2, <2>1, Counts
<1> QED  BY <1>3, <1>4

\* A claim moves rows only this way.
LEMMA ClaimMoves ==
  ASSUME StoreTypeOK, NEW p \in Procs, NEW t \in Targets, NEW d \in Nat,
         NEW measured \in BOOLEAN, NEW first \in BOOLEAN, NEW dead, NEW signed, NEW watched
  PROVE  /\ \A i \in Ids :
              ClaimAnalysis(p, t, d, dead, measured, first, signed, watched, i) =>
                /\ RowsMove
                /\ i \in Used /\ deleted' = deleted /\ jobs'[i] # NoRow
                /\ jobs[i].attempt < jobs'[i].attempt
         /\ ClaimNothing(p, t, dead, measured, first, signed) => RowsMove
<1> DEFINE table == Reclaimed(p, t, dead)
<1>1. \A j \in Used : /\ table[j] \in Row /\ jobs[j].attempt <= table[j].attempt
                      /\ table[j] = jobs[j] \/ jobs[j].state \in Live
  BY ReclaimMoves
<1>2. /\ \A j \in Ids \ Used : table[j] = NoRow
      /\ DOMAIN table = Ids /\ Used \subseteq Ids
      /\ table = [j \in Ids |-> table[j]]
  BY DEF Reclaimed, Used, Running, RowsOf
<1>3. \A j \in Used : table[j] # NoRow
  BY <1>1, NoRowAssumption
<1>4. ASSUME ClaimNothing(p, t, dead, measured, first, signed) PROVE RowsMove
  <2>1. jobs' = table /\ UNCHANGED <<serial, deleted>>
    BY <1>4 DEF ClaimNothing
  <2> HIDE DEF table
  <2> QED  BY <1>1, <1>3, <2>1 DEF RowsMove, Moves
<1>5. ASSUME NEW i \in Ids,
             ClaimAnalysis(p, t, d, dead, measured, first, signed, watched, i)
      PROVE  /\ RowsMove
             /\ i \in Used /\ deleted' = deleted /\ jobs'[i] # NoRow
             /\ jobs[i].attempt < jobs'[i].attempt
  <2> DEFINE row == Started(table[i], p, d, measured, first)
  <2>1. /\ table[i].state = "queued" /\ table[i] # NoRow
        /\ jobs' = [table EXCEPT ![i] = row] /\ UNCHANGED <<serial, deleted>>
    BY <1>5 DEF ClaimAnalysis, NextJobs, QueuedIn
  <2>2. i \in Used
    BY <1>2, <2>1
  <2>3. row \in Row /\ row.attempt = table[i].attempt + 1
    <3> HIDE DEF table
    <3> QED  BY <1>1, <2>2, RowChanges, ChangesCount
  <2>4. jobs[i].state \in Live
    BY <1>1, <2>1, <2>2 DEF Live
  <2>5. jobs[i].attempt \in Nat /\ table[i].attempt \in Nat
    <3>1. jobs[i] \in Row
      BY <2>2, UsedRows
    <3> HIDE DEF table
    <3> QED  BY <1>1, <2>2, <3>1, RowReads
  <2>6. jobs[i].attempt <= row.attempt /\ jobs[i].attempt < row.attempt
    <3>1. \A m, n, o \in Nat : m <= n /\ o = n + 1 => m <= o /\ m < o
      OBVIOUS
    <3>2. row.attempt \in Nat
      BY <2>3, RowReads
    <3> HIDE DEF row, table
    <3> QED  BY <1>1, <2>2, <2>3, <2>5, <3>1, <3>2
  <2> HIDE DEF row, table
  <2>7. jobs'[i] = row /\ row # NoRow /\ \A j \in Ids \ {i} : jobs'[j] = table[j]
    BY <1>2, <2>1, <2>3, NoRowAssumption
  <2>8. Moves(i)
    BY <2>4, <2>6, <2>7 DEF Moves
  <2>9. \A j \in Used \ {i} : Moves(j)
    BY <1>1, <1>2, <1>3, <2>7 DEF Moves
  <2> QED  BY <2>1, <2>2, <2>6, <2>7, <2>8, <2>9 DEF RowsMove
<1> QED  BY <1>4, <1>5

\* So does a recovery.
LEMMA RecoverMoves ==
  ASSUME StoreTypeOK, NEW p \in Procs, NEW d \in Nat, NEW dead, NEW expired,
         RecoverAnalysis(p, d, dead, expired)
  PROVE  RowsMove
<1>1. ASSUME NEW j \in Used PROVE Moves(j)
  <2>1. j \in Ids /\ jobs[j] \in Row
    BY UsedRows
  <2>2. CASE j \in Lost(p, dead, expired)
    <3>1. jobs'[j] = Recovered(jobs[j], d)
      BY <2>1, <2>2 DEF RecoverAnalysis
    <3>2. Recovered(jobs[j], d) \in Row /\ Recovered(jobs[j], d) # NoRow
      BY <2>1, RowChanges, NoRowAssumption
    <3>3. jobs[j].attempt \in Nat /\ Recovered(jobs[j], d).attempt = jobs[j].attempt + 1
      BY <2>1, RowReads, ChangesCount
    <3>4. jobs[j].state \in Live
      BY <2>2 DEF Lost, Live
    <3> QED  BY <3>1, <3>2, <3>3, <3>4, Counts DEF Moves
  <2>3. CASE j \notin Lost(p, dead, expired)
    BY <2>1, <2>3 DEF RecoverAnalysis, Moves
  <2> QED  BY <2>2, <2>3
<1> QED  BY <1>1 DEF RowsMove, RecoverAnalysis

\* So do the fenced writes and the cancellation: what has ended they leave alone.
LEMMA WorkerWriteMoves ==
  ASSUME StoreTypeOK, NEW p \in Procs, NEW i \in Ids, NEW attempt \in Nat, NEW d \in Nat
  PROVE  /\ HoldAnalysis(p, i, attempt) => RowsMove
         /\ RetryAnalysis(p, i, attempt) => RowsMove
         /\ \A state \in Ended, error \in Errors, billed \in BOOLEAN :
              FinishAnalysis(p, i, attempt, state, d, error, billed) => RowsMove
         /\ CancelAnalysis(i, d) => RowsMove
<1>1. i \in Used => jobs[i] \in Row
  BY UsedRows
<1>2. Owns(p, i, attempt) => i \in Used /\ jobs[i].state \in Live
  BY DEF Owns, Live
<1>3. /\ "signed out" \in Errors /\ "retrying" \in Errors /\ "cancelled" \in Errors
      /\ "retrying_after_recovery" \in Errors /\ "skipped" \in Live \cup Ended
  BY DEF Errors, Marked, Ended
<1>4. ASSUME HoldAnalysis(p, i, attempt) PROVE RowsMove
  <2>1. CASE Owns(p, i, attempt)
    <3> DEFINE row == [jobs[i] EXCEPT !.state = "queued", !.started = 0,
                                      !.error = "signed out", !.owner = NoProc]
    <3>1. row \in Row
      BY <1>1, <1>2, <1>3, <2>1, RowClaims, RowReads
    <3>2. row.attempt = jobs[i].attempt
      BY <1>1, <1>2, <2>1 DEF Row
    <3>3. Update(i, row)
      BY <1>4, <2>1 DEF HoldAnalysis
    <3> HIDE DEF row
    <3> QED  BY <1>2, <2>1, <3>1, <3>2, <3>3, WritesMove
  <2>2. CASE ~Owns(p, i, attempt)
    BY <1>4, <2>2, WritesMove DEF HoldAnalysis
  <2> QED  BY <2>1, <2>2
<1>5. ASSUME RetryAnalysis(p, i, attempt) PROVE RowsMove
  <2>1. Owns(p, i, attempt)
    BY <1>5 DEF RetryAnalysis
  <2> DEFINE mark == IF jobs[i].error \in Marked THEN "retrying_after_recovery" ELSE "retrying"
             row == [jobs[i] EXCEPT !.error = mark]
  <2>2. mark \in Errors
    BY <1>3
  <2>3. Update(i, row)
    BY <1>5 DEF RetryAnalysis
  <2> HIDE DEF mark
  <2>4. row \in Row /\ row.attempt = jobs[i].attempt
    BY <1>1, <1>2, <2>1, <2>2, RowWrites, WritesKeepCount
  <2> HIDE DEF row
  <2> QED  BY <1>2, <2>1, <2>3, <2>4, WritesMove
<1>6. ASSUME NEW state \in Ended, NEW error \in Errors, NEW billed \in BOOLEAN,
             FinishAnalysis(p, i, attempt, state, d, error, billed)
      PROVE  RowsMove
  <2>1. CASE Owns(p, i, attempt)
    <3> DEFINE cost == jobs[i].billed \/ billed
               row == [jobs[i] EXCEPT !.state = state, !.finished = d, !.error = error,
                                      !.billed = cost]
    <3>1. cost \in BOOLEAN
      OBVIOUS
    <3>2. Update(i, row)
      BY <1>6, <2>1 DEF FinishAnalysis
    <3> HIDE DEF cost
    <3>3. row \in Row
      BY <1>1, <1>2, <2>1, <3>1, RowWrites
    <3>4. row.attempt = jobs[i].attempt
      BY <1>1, <1>2, <2>1 DEF Row
    <3> HIDE DEF row
    <3> QED  BY <1>2, <2>1, <3>2, <3>3, <3>4, WritesMove
  <2>2. CASE ~Owns(p, i, attempt)
    BY <1>6, <2>2, WritesMove DEF FinishAnalysis
  <2> QED  BY <2>1, <2>2
<1>7. ASSUME CancelAnalysis(i, d) PROVE RowsMove
  <2> DEFINE row == [jobs[i] EXCEPT !.state = "skipped", !.error = "cancelled", !.finished = d]
  <2>1. i \in Used /\ jobs[i].state \in Live /\ Update(i, row)
    BY <1>7 DEF CancelAnalysis
  <2>2. row \in Row
    BY <1>1, <1>3, <2>1, RowWrites
  <2>3. row.attempt = jobs[i].attempt
    BY <1>1, <2>1 DEF Row
  <2> HIDE DEF row
  <2> QED  BY <2>1, <2>2, <2>3, WritesMove
<1> QED  BY <1>4, <1>5, <1>6, <1>7

\* So does ending the jobs of a removed database.
LEMMA RemovalMoves ==
  ASSUME StoreTypeOK, NEW t \in Targets, NEW d \in Nat, SkipRemoved(t, d)
  PROVE  RowsMove
<1>1. "skipped" \in Live \cup Ended /\ "removed" \in Errors
  BY DEF Ended, Errors
<1>2. ASSUME NEW j \in Used PROVE Moves(j)
  <2>1. j \in Ids /\ jobs[j] \in Row /\ jobs[j].attempt \in Nat
    BY UsedRows, RowReads
  <2>2. CASE j \in RowsOf(t) /\ jobs[j].state \in Live
    <3> DEFINE row == [jobs[j] EXCEPT !.state = "skipped", !.finished = d, !.error = "removed"]
    <3>1. jobs'[j] = row
      BY <2>1, <2>2 DEF SkipRemoved
    <3>2. row \in Row
      BY <1>1, <2>1, RowWrites
    <3>3. row.attempt = jobs[j].attempt
      BY <2>1 DEF Row
    <3> HIDE DEF row
    <3> QED  BY <2>1, <2>2, <3>1, <3>2, <3>3, Counts, NoRowAssumption DEF Moves
  <2>3. CASE ~(j \in RowsOf(t) /\ jobs[j].state \in Live)
    BY <2>1, <2>3 DEF SkipRemoved, Moves
  <2> QED  BY <2>2, <2>3
<1> QED  BY <1>2 DEF RowsMove, SkipRemoved

\* So does a turn-on that moves the first hour.
LEMMA HourMoves ==
  ASSUME StoreTypeOK, NEW p \in Procs, NEW t \in Targets, StartHour(p, t)
  PROVE  RowsMove
<1>1. ASSUME NEW j \in Used PROVE Moves(j)
  <2>1. j \in Ids /\ jobs[j] \in Row
    BY UsedRows
  <2>2. CASE j \in RowsOf(t)
    <3>1. jobs'[j] = [jobs[j] EXCEPT !.firstHour = FALSE]
      BY <2>1, <2>2 DEF StartHour
    <3>2. [jobs[j] EXCEPT !.firstHour = FALSE] \in Row
      BY <2>1, RowWrites
    <3>3. [jobs[j] EXCEPT !.firstHour = FALSE].attempt = jobs[j].attempt
      BY <2>1 DEF Row
    <3> QED  BY <3>1, <3>2, <3>3, NoRowAssumption DEF Moves
  <2>3. CASE j \notin RowsOf(t)
    BY <2>1, <2>3 DEF StartHour, Moves
  <2> QED  BY <2>2, <2>3
<1> QED  BY <1>1 DEF RowsMove, StartHour

\* Every step of every process, worker and request moves rows only this way.
LEMMA StepMoves == TypeOK /\ Next => RowsMove
<1> SUFFICES ASSUME TypeOK, Next PROVE RowsMove
  OBVIOUS
<1>0. StoreTypeOK /\ day \in Nat /\ execute \in [Targets -> BOOLEAN]
  BY DEF TypeOK
<1>a. UNCHANGED storeVars => RowsMove
  BY <1>0, WritesMove
<1>b. \A p \in Procs : TurnsOn(p) => RowsMove
  BY <1>0, RecoverMoves DEF TurnsOn
<1>1. ASSUME Environment PROVE RowsMove
  <2>1. ASSUME NEW p \in Procs, StartProcess(p) \/ StartQueue(p) PROVE RowsMove
    BY <1>a, <1>b, <2>1 DEF StartProcess, StartQueue
  <2>2. ASSUME NEW p \in Procs, NEW t \in Targets, StartHour(p, t) PROVE RowsMove
    BY <1>0, <2>2, HourMoves
  <2>3. ASSUME NEW p \in Procs,
               \/ EndProcess(p) \/ StopQueue(p) \/ QueueStopped(p) \/ PassEnds(p)
               \/ \E t \in Targets : TurnOn(p, t)
        PROVE  RowsMove
    BY <1>a, <2>3 DEF EndProcess, StopQueue, QueueStopped, PassEnds, TurnOn
  <2>4. ASSUME ChangeSignIn \/ NextDay \/ \E t \in Targets : \/ ChangeExecute(t) \/ TurnOff(t)
                                                             \/ EndHour(t)
        PROVE  RowsMove
    BY <1>a, <2>4 DEF ChangeSignIn, NextDay, ChangeExecute, TurnOff, EndHour
  <2> QED  BY <1>1, <2>1, <2>2, <2>3, <2>4 DEF Environment
<1>2. ASSUME NEW p \in Procs, Pass(p) PROVE RowsMove
  <2>1. ASSUME Recover(p) PROVE RowsMove
    BY <1>0, <2>1, RecoverMoves DEF Recover
  <2>2. ASSUME NEW t \in Targets, NEW k \in Keys,
               AskNew(p, t, k) \/ AskStale(p, t, k) \/ AskFirstHour(p, t, k) \/ AskRetry(p, t, k)
        PROVE  RowsMove
    BY <1>a, <2>2 DEF AskNew, AskStale, AskFirstHour, AskRetry, Ask
  <2>3. ASSUME NEW t \in Targets, DropFirstHour(p, t) PROVE RowsMove
    BY <1>0, <2>3, DeleteMoves DEF DropFirstHour
  <2>4. ASSUME NEW t \in Targets, NEW reason \in Automatic, Trim(p, t, reason) PROVE RowsMove
    BY <1>0, <2>4, DeleteMoves DEF Trim
  <2>5. ASSUME NEW t \in Targets, ClaimNoJob(p, t) \/ Claim(p, t) PROVE RowsMove
    <3>1. execute[t] \in BOOLEAN /\ First(t) \in BOOLEAN
      BY <1>0 DEF First
    <3> QED  BY <1>0, <2>5, <3>1, ClaimMoves DEF ClaimNoJob, Claim
  <2> QED  BY <1>2, <2>1, <2>2, <2>3, <2>4, <2>5 DEF Pass
<1>3. ASSUME NEW p \in Procs, Requests(p) PROVE RowsMove
  <2>1. ASSUME NEW t \in Targets, NEW k \in Keys, AskClick(p, t, k) \/ AskForReport(p, t, k)
        PROVE  RowsMove
    BY <1>a, <2>1 DEF AskClick, AskForReport, Ask
  <2>2. ASSUME NEW t \in Targets, NEW k \in Keys, ClickWaiting(p, t, k) PROVE RowsMove
    <3>1. PICK i \in LiveRows(t, k) : Update(i, [jobs[i] EXCEPT !.clicked = TRUE])
      BY <2>2 DEF ClickWaiting
    <3>2. i \in Used /\ jobs[i] \in Row /\ jobs[i].state \in Live
      BY <1>0, UsedRows DEF LiveRows, RowsOf
    <3> DEFINE row == [jobs[i] EXCEPT !.clicked = TRUE]
    <3>3. row \in Row
      BY <3>2, RowWrites
    <3>4. row.attempt = jobs[i].attempt
      BY <3>2 DEF Row
    <3> HIDE DEF row
    <3>5. Update(i, row)
      BY <3>1 DEF row
    <3> QED  BY <1>0, <3>2, <3>3, <3>4, <3>5, WritesMove
  <2>3. ASSUME NEW t \in Targets, NEW k \in Keys, RecordPasted(p, t, k) PROVE RowsMove
    BY <1>0, <2>3, EnqueueMoves DEF RecordPasted, First, Reasons
  <2>4. ASSUME NEW i \in Ids, Cancel(p, i) PROVE RowsMove
    BY <1>0, <2>4, WorkerWriteMoves DEF Cancel
  <2>5. ASSUME NEW t \in Targets, BeginRemoval(p, t) PROVE RowsMove
    BY <1>0, <2>5, RemovalMoves DEF BeginRemoval
  <2>6. ASSUME Wake(p) PROVE RowsMove
    BY <1>a, <1>b, <2>6 DEF Wake
  <2> QED  BY <1>3, <2>1, <2>2, <2>3, <2>4, <2>5, <2>6 DEF Requests
<1>4. ASSUME NEW ask \in asked, Enqueue(ask) PROVE RowsMove
  <2>1. /\ ask.target \in Targets /\ ask.key \in Keys /\ ask.reason \in Reasons
        /\ ask.day \in Nat /\ ask.first \in BOOLEAN /\ ask.capped \in BOOLEAN
    BY DEF TypeOK, Decision
  <2> QED  BY <1>0, <1>4, <1>a, <2>1, EnqueueMoves DEF Enqueue
<1>5. ASSUME NEW t \in Targets, FinishRemoval(t) PROVE RowsMove
  BY <1>0, <1>5, DeleteMoves DEF FinishRemoval
<1>6. ASSUME NEW task \in tasks, Worker(task) PROVE RowsMove
  <2>1. task.proc \in Procs /\ task.id \in Ids /\ task.attempt \in Nat
    BY TasksType, TaskChanges
  <2>2. /\ {"done", "failed", "skipped"} = Ended /\ Failures \subseteq Errors
        /\ {"", "not eligible", "deadline"} \subseteq Errors
    BY FailuresAssumption DEF Ended, Errors
  <2>3. ASSUME StartSampling(task) \/ StartAnalysis(task) \/ LeaveJob(task) \/ Raise(task)
               \/ HitDeadline(task) \/ EndCancelled(task)
        PROVE  RowsMove
    BY <1>a, <2>3 DEF StartSampling, StartAnalysis, LeaveJob, Raise, HitDeadline, EndCancelled,
                      Idle
  <2>4. ASSUME Hold(task) PROVE RowsMove
    BY <1>0, <2>1, <2>4, WorkerWriteMoves DEF Hold
  <2>5. ASSUME RetryAtOnce(task) PROVE RowsMove
    BY <1>0, <2>1, <2>5, WorkerWriteMoves DEF RetryAtOnce
  <2>6. ASSUME Skip(task) PROVE RowsMove
    BY <1>0, <2>1, <2>2, <2>6, WorkerWriteMoves DEF Skip
  <2>7. ASSUME Done(task) PROVE RowsMove
    BY <1>0, <2>1, <2>2, <2>7, WorkerWriteMoves DEF Done
  <2>8. ASSUME Fail(task) PROVE RowsMove
    BY <1>0, <2>1, <2>2, <2>8, WorkerWriteMoves DEF Fail
  <2>9. ASSUME CloseDeadline(task) PROVE RowsMove
    BY <1>0, <2>1, <2>2, <2>9, WorkerWriteMoves DEF CloseDeadline
  <2> QED  BY <1>6, <2>3, <2>4, <2>5, <2>6, <2>7, <2>8, <2>9 DEF Worker
<1> QED  BY <1>1, <1>2, <1>3, <1>4, <1>5, <1>6 DEF Next

\* A job that ended stays as it ended until its row is deleted.
THEOREM EndedStays == Spec => EndedIsFinal
<1> DEFINE Same(i) == jobs'[i] = [jobs[i] EXCEPT !.firstHour = jobs'[i].firstHour]
           Kept == \A i \in Ids : i \in Used /\ jobs[i].state \in Ended =>
                     jobs'[i] = NoRow \/ Same(i)
<1>1. TypeOK /\ [Next]_vars => [Kept]_vars
  <2> SUFFICES ASSUME TypeOK, Next, NEW i \in Used, jobs[i].state \in Ended
               PROVE  jobs'[i] = NoRow \/ Same(i)
    BY DEF Used
  <2>1. Moves(i)
    BY StepMoves DEF RowsMove
  <2>2. jobs[i] \in Row
    BY UsedRows DEF TypeOK
  <2>3. jobs[i].state \notin Live
    BY DEF Live, Ended
  <2>4. jobs'[i] = jobs[i] => Same(i)
    BY <2>2 DEF Row
  <2>5. jobs'[i] = [jobs[i] EXCEPT !.firstHour = FALSE] => Same(i)
    BY <2>2 DEF Row
  <2> QED  BY <2>1, <2>3, <2>4, <2>5 DEF Moves
<1> QED  BY <1>1, TypeCorrect, PTL DEF Spec, EndedIsFinal

-----------------------------------------------------------------------------
(* Who holds which claim.                                                  *)

\* The inductive invariant: a worker's claim is at most the row's present one, and no other
\* worker was ever given it, unless the row was deleted.
Fence ==
  /\ \A task \in tasks : task.id \notin deleted =>
       task.id \in Used /\ task.attempt <= jobs[task.id].attempt
  /\ \A a, b \in tasks :
       a.id = b.id /\ a.attempt = b.attempt /\ a.id \notin deleted => a = b

SameClaim(a, b) == a.id = b.id /\ a.attempt = b.attempt

\* A step that hands out no claim: the workers after it are workers from before.
TasksKeep ==
  /\ \A n \in tasks' : \E o \in tasks : SameClaim(n, o)
  /\ \A m, n \in tasks' : m # n /\ SameClaim(m, n) =>
       \E o, q \in tasks : o # q /\ SameClaim(m, o) /\ SameClaim(m, q)

\* A step that replaces or drops one worker keeps the claims of all.
LEMMA TaskStepsKeep ==
  ASSUME NEW task \in tasks
  PROVE  /\ Ends(task) /\ task \in Task => TasksKeep
         /\ \A new : SameClaim(new, task) /\ Becomes(task, new) => TasksKeep
<1>1. \A new : SameClaim(new, task) /\ tasks' = (tasks \ {task}) \cup {new} => TasksKeep
  BY DEF SameClaim, TasksKeep
<1>2. ASSUME Ends(task), task \in Task PROVE TasksKeep
  <2>1. SameClaim([task EXCEPT !.pc = "ended"], task)
    BY <1>2 DEF SameClaim, Task
  <2>2. tasks' = tasks \ {task} => TasksKeep
    BY DEF SameClaim, TasksKeep
  <2> QED  BY <1>1, <1>2, <2>1, <2>2 DEF Ends
<1> QED  BY <1>1, <1>2 DEF Becomes

\* A step that only drops workers keeps the claims of the others.
LEMMA SubsetKeeps == tasks' \subseteq tasks => TasksKeep
BY DEF SameClaim, TasksKeep

\* What a worker changes of itself is never its claim.
LEMMA ProgressKeepsClaim ==
  ASSUME NEW task \in Task
  PROVE  /\ \A pc : SameClaim([task EXCEPT !.pc = pc], task)
         /\ SameClaim([task EXCEPT !.retried = TRUE], task)
         /\ SameClaim([task EXCEPT !.stopped = TRUE], task)
         /\ \A stopped : SameClaim([task EXCEPT !.deadline = "hit", !.stopped = stopped], task)
         /\ SameClaim([task EXCEPT !.deadline = "closed"], task)
BY DEF SameClaim, Task

\* Stopping a queue changes its workers' flags only.
LEMMA StopKeeps ==
  ASSUME TypeOK, NEW p \in Procs, StopQueue(p)
  PROVE  TasksKeep
<1> DEFINE Flagged(task) == IF task.proc = p THEN [task EXCEPT !.stopped = TRUE] ELSE task
<1>1. tasks' = {Flagged(task) : task \in tasks}
  BY DEF StopQueue
<1>2. \A task \in tasks : SameClaim(Flagged(task), task)
  <2> SUFFICES ASSUME NEW task \in tasks PROVE SameClaim(Flagged(task), task)
    OBVIOUS
  <2> QED  BY TasksType, ProgressKeepsClaim DEF SameClaim
<1> HIDE DEF Flagged
<1>3. \A n \in tasks' : \E o \in tasks : SameClaim(n, o)
  BY <1>1, <1>2
<1>4. ASSUME NEW m \in tasks', NEW n \in tasks', m # n, SameClaim(m, n)
      PROVE  \E o, q \in tasks : o # q /\ SameClaim(m, o) /\ SameClaim(m, q)
  <2>1. PICK o \in tasks, q \in tasks : m = Flagged(o) /\ n = Flagged(q)
    BY <1>1
  <2>2. o # q
    BY <1>4, <2>1
  <2>3. SameClaim(m, o) /\ SameClaim(m, q)
    BY <1>2, <1>4, <2>1 DEF SameClaim
  <2> QED  BY <2>2, <2>3
<1> QED  BY <1>3, <1>4 DEF TasksKeep

\* No step of a worker changes the claim it was given.
LEMMA WorkerKeeps ==
  ASSUME TypeOK, NEW task \in tasks, Worker(task)
  PROVE  TasksKeep
<1>0. task \in Task
  BY TasksType
<1>1. ASSUME NEW new, Becomes(task, new), SameClaim(new, task) PROVE TasksKeep
  BY <1>1, TaskStepsKeep
<1>2. ASSUME Ends(task) PROVE TasksKeep
  BY <1>0, <1>2, TaskStepsKeep
<1>3. ASSUME StartSampling(task) \/ StartAnalysis(task) \/ Raise(task) PROVE TasksKeep
  BY <1>0, <1>1, <1>3, ProgressKeepsClaim DEF StartSampling, StartAnalysis, Raise
<1>4. ASSUME LeaveJob(task) \/ Hold(task) \/ Skip(task) \/ Done(task) \/ Fail(task)
      PROVE  TasksKeep
  BY <1>2, <1>4 DEF LeaveJob, Hold, Skip, Done, Fail
<1>5. ASSUME RetryAtOnce(task) PROVE TasksKeep
  BY <1>0, <1>1, <1>5, ProgressKeepsClaim DEF RetryAtOnce
<1>6. ASSUME HitDeadline(task) PROVE TasksKeep
  BY <1>0, <1>1, <1>6, ProgressKeepsClaim DEF HitDeadline
<1>7. ASSUME CloseDeadline(task) PROVE TasksKeep
  <2>1. CASE tasks' = tasks \ {task}
    BY <2>1, SubsetKeeps
  <2>2. CASE tasks' = (tasks \ {task}) \cup {[task EXCEPT !.deadline = "closed"]}
    BY <1>0, <1>1, <2>2, ProgressKeepsClaim DEF Becomes
  <2> QED  BY <1>7, <2>1, <2>2 DEF CloseDeadline
<1>8. ASSUME EndCancelled(task) PROVE TasksKeep
  BY <1>8, SubsetKeeps DEF EndCancelled
<1> QED  BY <1>3, <1>4, <1>5, <1>6, <1>7, <1>8 DEF Worker

\* Apart from Claim, no step gives any worker a claim.
LEMMA OthersKeep ==
  ASSUME TypeOK
  PROVE  /\ Environment => TasksKeep
         /\ \A p \in Procs : Requests(p) => TasksKeep
         /\ \A ask \in asked : Enqueue(ask) => TasksKeep
         /\ \A t \in Targets : FinishRemoval(t) => TasksKeep
<1>1. Environment => TasksKeep
  <2>1. ASSUME NEW p \in Procs, StopQueue(p) PROVE TasksKeep
    BY <2>1, StopKeeps
  <2>2. ASSUME NEW p \in Procs, NEW t \in Targets, TurnOn(p, t) \/ StartHour(p, t)
        PROVE  TasksKeep
    BY <2>2, SubsetKeeps DEF TurnOn, StartHour, Setting
  <2>3. ASSUME NEW t \in Targets, ChangeExecute(t) \/ TurnOff(t) \/ EndHour(t)
        PROVE  TasksKeep
    BY <2>3, SubsetKeeps DEF ChangeExecute, TurnOff, EndHour, Setting
  <2>4. ASSUME NEW p \in Procs,
               StartProcess(p) \/ StartQueue(p) \/ EndProcess(p) \/ QueueStopped(p)
               \/ PassEnds(p)
        PROVE  TasksKeep
    BY <2>4, SubsetKeeps DEF StartProcess, StartQueue, EndProcess, QueueStopped, PassEnds
  <2>5. ChangeSignIn \/ NextDay => TasksKeep
    BY SubsetKeeps DEF ChangeSignIn, NextDay
  <2> QED  BY <2>1, <2>2, <2>3, <2>4, <2>5 DEF Environment
<1>2. ASSUME NEW p \in Procs, Requests(p) PROVE TasksKeep
  <2>1. ASSUME NEW task \in tasks, Becomes(task, [task EXCEPT !.stopped = TRUE])
        PROVE  TasksKeep
    BY <2>1, TasksType, TaskStepsKeep, ProgressKeepsClaim
  <2>2. ASSUME NEW i \in Ids, Cancel(p, i) PROVE TasksKeep
    BY <2>1, <2>2, SubsetKeeps DEF Cancel, Runs
  <2>3. ASSUME NEW t \in Targets, BeginRemoval(p, t) PROVE TasksKeep
    BY <2>1, <2>3, SubsetKeeps DEF BeginRemoval, Runs
  <2>4. ASSUME NEW t \in Targets, NEW k \in Keys,
               AskClick(p, t, k) \/ ClickWaiting(p, t, k) \/ AskForReport(p, t, k)
               \/ RecordPasted(p, t, k)
        PROVE  TasksKeep
    BY <2>4, SubsetKeeps DEF AskClick, ClickWaiting, AskForReport, RecordPasted, Ask
  <2>5. Wake(p) => TasksKeep
    BY SubsetKeeps DEF Wake
  <2> QED  BY <1>2, <2>2, <2>3, <2>4, <2>5 DEF Requests
<1>3. \A ask \in asked : Enqueue(ask) => TasksKeep
  BY SubsetKeeps DEF Enqueue
<1>4. \A t \in Targets : FinishRemoval(t) => TasksKeep
  BY SubsetKeeps DEF FinishRemoval
<1> QED  BY <1>1, <1>2, <1>3, <1>4

\* Rows that keep counting and workers that keep their claims keep the fence.
LEMMA FenceKept ==
  ASSUME TypeOK, TypeOK', Fence, RowsMove, TasksKeep
  PROVE  Fence'
<1>1. ASSUME NEW n \in tasks', n.id \notin deleted'
      PROVE  n.id \in Used' /\ n.attempt <= jobs'[n.id].attempt
  <2>1. PICK o \in tasks : SameClaim(n, o)
    BY <1>1 DEF TasksKeep
  <2>2. o.id = n.id /\ o.attempt = n.attempt /\ o.id \notin deleted
    BY <1>1, <2>1 DEF SameClaim, RowsMove
  <2>3. n.id \in Used /\ n.attempt <= jobs[n.id].attempt
    BY <2>2 DEF Fence
  <2>4. Moves(n.id)
    BY <2>3 DEF RowsMove
  <2>5. jobs'[n.id] # NoRow /\ (jobs'[n.id].attempt = jobs[n.id].attempt
                               \/ jobs[n.id].attempt <= jobs'[n.id].attempt)
    BY <1>1, <2>3, <2>4 DEF Moves, Used
  <2>6. n.id \in Ids /\ n.id \in Used'
    BY <2>3, <2>5 DEF Used, Ids
  <2>7. jobs[n.id].attempt \in Nat
    BY <2>3, UsedRows, RowReads DEF TypeOK
  <2>8. jobs'[n.id].attempt \in Nat
    <3>1. jobs'[n.id] \in Row
      BY <2>5, <2>6 DEF TypeOK, StoreTypeOK
    <3> QED  BY <3>1, RowReads
  <2>9. n.attempt \in Nat
    BY <1>1, TaskChanges DEF TypeOK
  <2>10. \A x, y, z \in Nat : x <= y /\ y <= z => x <= z
    OBVIOUS
  <2> QED  BY <2>3, <2>5, <2>6, <2>7, <2>8, <2>9, <2>10
<1>2. ASSUME NEW a \in tasks', NEW b \in tasks', a.id = b.id, a.attempt = b.attempt,
             a.id \notin deleted', a # b
      PROVE  FALSE
  <2>1. PICK o \in tasks, q \in tasks : o # q /\ SameClaim(a, o) /\ SameClaim(a, q)
    BY <1>2 DEF TasksKeep, SameClaim
  <2>2. o.id \notin deleted
    BY <1>2, <2>1 DEF RowsMove, SameClaim
  <2> QED  BY <2>1, <2>2 DEF Fence, SameClaim
<1> QED  BY <1>1, <1>2 DEF Fence

\* A new claim is one more than any claim of that row before.
LEMMA ClaimFence ==
  ASSUME TypeOK, TypeOK', Fence, RowsMove, NEW p \in Procs, NEW t \in Targets, Claim(p, t)
  PROVE  Fence'
<1>1. PICK i \in Ids :
        /\ ClaimAnalysis(p, t, day, Dead, execute[t], First(t), signedIn, Monitored(t), i)
        /\ tasks' = tasks \cup
             {[proc |-> p, id |-> i, attempt |-> jobs'[i].attempt, serial |-> jobs'[i].serial,
               target |-> t, reason |-> jobs'[i].reason, pc |-> "begin",
               retried |-> FALSE, stopped |-> queue[p] = "stopping", deadline |-> "no"]}
  BY DEF Claim
<1>2. /\ i \in Used /\ deleted' = deleted /\ jobs'[i] # NoRow
      /\ jobs[i].attempt < jobs'[i].attempt
  <2>1. /\ StoreTypeOK /\ day \in Nat /\ execute[t] \in BOOLEAN /\ First(t) \in BOOLEAN
    BY DEF TypeOK, First
  <2> QED  BY <1>1, <2>1, ClaimMoves
<1> DEFINE new == [proc |-> p, id |-> i, attempt |-> jobs'[i].attempt, serial |-> jobs'[i].serial,
                   target |-> t, reason |-> jobs'[i].reason, pc |-> "begin",
                   retried |-> FALSE, stopped |-> queue[p] = "stopping", deadline |-> "no"]
<1>3. tasks' = tasks \cup {new} /\ new.id = i /\ new.attempt = jobs'[i].attempt
  BY <1>1
<1> HIDE DEF new
<1>4. /\ \A j \in Used : jobs[j].attempt \in Nat
      /\ \A j \in Ids : jobs'[j] # NoRow => jobs'[j].attempt \in Nat
      /\ \A task \in tasks : task.attempt \in Nat
  <2>1. \A j \in Used : jobs[j].attempt \in Nat
    BY UsedRows, RowReads DEF TypeOK
  <2>2. \A j \in Ids : jobs'[j] # NoRow => jobs'[j] \in Row
    BY DEF TypeOK, StoreTypeOK
  <2>3. \A task \in tasks : task.attempt \in Nat
    BY TaskChanges DEF TypeOK
  <2> QED  BY <2>1, <2>2, <2>3, RowReads
<1>5. \A x, y, z \in Nat : (x <= y /\ y <= z => x <= z) /\ (x <= y /\ y < z => x # z) /\ x <= x
  OBVIOUS
<1>6. ASSUME NEW task \in tasks, task.id \notin deleted
      PROVE  /\ task.id \in Used' /\ task.attempt <= jobs'[task.id].attempt
             /\ task.id = i => task.attempt # new.attempt
  <2>1. task.id \in Used /\ task.attempt <= jobs[task.id].attempt
    BY <1>6 DEF Fence
  <2>2. Moves(task.id) /\ task.id \in Ids
    BY <2>1 DEF RowsMove, Used
  <2>3. jobs'[task.id] # NoRow /\ (jobs'[task.id].attempt = jobs[task.id].attempt
                                  \/ jobs[task.id].attempt <= jobs'[task.id].attempt)
    BY <1>2, <1>6, <2>1, <2>2 DEF Moves, Used
  <2>4. task.id \in Used'
    BY <2>2, <2>3 DEF Used, Ids
  <2> QED  BY <1>2, <1>3, <1>4, <1>5, <2>1, <2>2, <2>3, <2>4
<1>7. new.id \in Used' /\ new.attempt <= jobs'[new.id].attempt
  <2>1. i \in Used'
    BY <1>2 DEF Used, Ids
  <2> QED  BY <1>2, <1>3, <1>4, <1>5, <2>1
<1>8. \A task \in tasks' : task.id \notin deleted' =>
        task.id \in Used' /\ task.attempt <= jobs'[task.id].attempt
  BY <1>2, <1>3, <1>6, <1>7
<1>9. \A a, b \in tasks' :
        a.id = b.id /\ a.attempt = b.attempt /\ a.id \notin deleted' => a = b
  BY <1>2, <1>3, <1>6 DEF Fence
<1> QED  BY <1>8, <1>9 DEF Fence

\* The fence holds after every step.
LEMMA FenceStep == TypeOK /\ TypeOK' /\ Fence /\ [Next]_vars => Fence'
<1> SUFFICES ASSUME TypeOK, TypeOK', Fence, [Next]_vars PROVE Fence'
  OBVIOUS
<1>1. CASE UNCHANGED vars
  <2>1. UNCHANGED <<jobs, deleted, tasks>>
    BY <1>1 DEF vars
  <2> QED  BY <2>1 DEF Fence, Used
<1>2. CASE Next
  <2>1. RowsMove
    BY <1>2, StepMoves
  <2>2. TasksKeep => Fence'
    BY <2>1, FenceKept
  <2>3. ASSUME NEW p \in Procs, Pass(p) PROVE Fence'
    <3>1. ASSUME NEW t \in Targets, Claim(p, t) PROVE Fence'
      BY <2>1, <3>1, ClaimFence
    <3>2. UNCHANGED tasks => Fence'
      BY <2>2, SubsetKeeps
    <3> QED  BY <2>3, <3>1, <3>2 DEF Pass, Recover, AskNew, AskStale, AskFirstHour, AskRetry, Ask,
               DropFirstHour, Trim, ClaimNoJob
  <2> QED  BY <1>2, <2>2, <2>3, OthersKeep, WorkerKeeps DEF Next
<1> QED  BY <1>1, <1>2

\* No two workers of any processes hold one job, whatever recoveries, reclaims, holds and
\* retries happened: the fence of analysis_owned, hold, retry and finish_analysis.
THEOREM FenceHolds == Spec => []OneWorkerPerJob
<1>1. Init => Fence
  BY DEF Init, Fence
<1>2. Fence => OneWorkerPerJob
  BY DEF Fence, OneWorkerPerJob, Owned, Owns
<1> QED  BY <1>1, <1>2, FenceStep, TypeCorrect, PTL DEF Spec
=============================================================================
