---------------------------- MODULE ReportProofs ----------------------------
(***************************************************************************)
(* Theorems about Reports for every value of its constants: any number of  *)
(* server processes, rows and slots.                                       *)
(*                                                                         *)
(* The inductive invariant adds to the types that whatever writes a row    *)
(* finds one: a task has its row, and so has an abandoned write.  Then     *)
(* every step but a claim keeps the rows there are and makes none of them  *)
(* run (RowsSettle), and a claim finds none that runs.                     *)
(***************************************************************************)
EXTENDS Reports, TLAPS

RowsBacked ==
  /\ \A i \in Runs : task[i] # NoRun => rows[i] # NoRun
  /\ \A w \in late : rows[w[1]] # NoRun
  /\ \A i \in Runs : At(i, "writing") => task[i].writes \in Ended

ReportInv == TypeOK /\ RowsBacked

RowsSettle ==
  /\ rows' \in [Runs -> Row \cup {NoRun}]
  /\ \A i \in Runs : rows'[i] = NoRun <=> rows[i] = NoRun
  /\ \A i \in Runs : rows'[i] # NoRun /\ rows'[i].state = "running" => In(i, "running")

-----------------------------------------------------------------------------
(* What the writes of the store do                                         *)

\* update_report with the row's own state, or one a run ends in.
LEMMA UpdatedSettles ==
  ASSUME ReportInv, NEW i \in Runs, rows[i] # NoRun,
         NEW state \in {"running"} \cup Ended, state \in Ended \/ state = rows[i].state,
         Updated(i, state)
  PROVE  RowsSettle
<1>1. rows[i] \in Row /\ rows \in [Runs -> Row \cup {NoRun}]
  BY DEF ReportInv, TypeOK
<1> DEFINE new == [rows[i] EXCEPT !.state = state, !.fresh = (state = "running"),
                                  !.recent = (state = "done")]
<1>2. rows' = [rows EXCEPT ![i] = new]
  BY <1>1 DEF Updated
<1>3. new \in Row /\ new.state = state
  BY <1>1, Zenon DEF Row
<1>4. new # NoRun
  BY <1>3, NoRunAssumption
<1> HIDE DEF new
<1>5. /\ rows' \in [Runs -> Row \cup {NoRun}]
      /\ rows'[i] = new
      /\ \A j \in Runs : j # i => rows'[j] = rows[j]
  BY <1>1, <1>2, <1>3
<1>6. state = "running" => rows[i].state = "running"
  BY DEF Ended
<1> QED  BY <1>3, <1>4, <1>5, <1>6 DEF RowsSettle, In

LEMMA RecoverSettles ==
  ASSUME ReportInv, RecoverReports
  PROVE  RowsSettle
<1>1. rows \in [Runs -> Row \cup {NoRun}]
  BY DEF ReportInv, TypeOK
<1>2. ASSUME NEW i \in Runs
      PROVE  /\ Recovered(rows[i]) \in Row \cup {NoRun}
             /\ Recovered(rows[i]) = NoRun <=> rows[i] = NoRun
             /\ Recovered(rows[i]) # NoRun /\ Recovered(rows[i]).state = "running" => In(i, "running")
  <2>1. CASE rows[i] = NoRun
    BY <2>1 DEF Recovered
  <2>2. CASE rows[i] # NoRun
    <3>1. rows[i] \in Row
      BY <1>1, <2>2
    <3>2. [rows[i] EXCEPT !.state = "failed"] \in Row
      BY <3>1 DEF Row, Ended
    <3>3. [rows[i] EXCEPT !.state = "failed"].state = "failed"
      BY <3>1 DEF Row
    <3> QED  BY <2>2, <3>1, <3>2, <3>3, NoRunAssumption DEF Recovered, In
  <2> QED  BY <2>1, <2>2
<1>3. \A i \in Runs : rows'[i] = Recovered(rows[i])
  BY DEF RecoverReports
<1>4. rows' = [i \in Runs |-> Recovered(rows[i])]
  BY DEF RecoverReports
<1> QED  BY <1>2, <1>3, <1>4 DEF RowsSettle

\* A write of one row that only renews its heartbeat or ends it.
LEMMA RowSettles ==
  ASSUME ReportInv, NEW i \in Runs, NEW new \in Row, rows[i] # NoRun,
         rows' = [rows EXCEPT ![i] = new], new.state = "running" => In(i, "running")
  PROVE  RowsSettle
<1>1. rows \in [Runs -> Row \cup {NoRun}]
  BY DEF ReportInv, TypeOK
<1>2. /\ rows' \in [Runs -> Row \cup {NoRun}]
      /\ rows'[i] = new /\ new # NoRun
      /\ \A j \in Runs : j # i => rows'[j] = rows[j]
  BY <1>1, NoRunAssumption
<1> QED  BY <1>2 DEF RowsSettle, In

LEMMA SameSettles ==
  ASSUME ReportInv, UNCHANGED rows
  PROVE  RowsSettle
BY DEF ReportInv, TypeOK, RowsSettle, In

LEMMA TouchSettles ==
  ASSUME ReportInv, NEW i \in Runs, TouchReport(i)
  PROVE  RowsSettle
<1>1. CASE In(i, "running")
  <2>1. rows[i] \in Row
    BY <1>1 DEF ReportInv, TypeOK, In
  <2>2. [rows[i] EXCEPT !.fresh = TRUE] \in Row
    BY <2>1 DEF Row
  <2>3. rows' = [rows EXCEPT ![i] = [rows[i] EXCEPT !.fresh = TRUE]]
    BY <1>1 DEF TouchReport
  <2> QED  BY <1>1, <2>2, <2>3, RowSettles DEF In
<1>2. CASE ~In(i, "running")
  BY <1>2, SameSettles DEF TouchReport
<1> QED  BY <1>1, <1>2

LEMMA CancelSettles ==
  ASSUME ReportInv, NEW i \in Runs, rows' = CancelledRow(i)
  PROVE  RowsSettle
<1>1. CASE In(i, "running")
  <2>1. rows[i] \in Row
    BY <1>1 DEF ReportInv, TypeOK, In
  <2> DEFINE new == [rows[i] EXCEPT !.state = "cancelled", !.fresh = FALSE]
  <2>2. new \in Row
    BY <2>1 DEF Row, Ended
  <2>3. rows' = [rows EXCEPT ![i] = new]
    BY <1>1, <2>1 DEF CancelledRow
  <2> QED  BY <1>1, <2>2, <2>3, RowSettles DEF In
<1>2. CASE ~In(i, "running")
  BY <1>2, SameSettles DEF CancelledRow
<1> QED  BY <1>1, <1>2

LEMMA TimeSettles ==
  ASSUME ReportInv, NEW i \in Runs, TimeStep(i)
  PROVE  RowsSettle
<1>1. rows[i] # NoRun /\ rows[i] \in Row
  BY DEF TimeStep, GoStale, GoOld, In, ReportInv, TypeOK
<1>2. /\ [rows[i] EXCEPT !.fresh = FALSE] \in Row
      /\ [rows[i] EXCEPT !.recent = FALSE] \in Row
      /\ [rows[i] EXCEPT !.fresh = FALSE].state = rows[i].state
      /\ [rows[i] EXCEPT !.recent = FALSE].state = rows[i].state
  BY <1>1 DEF Row
<1>3. \/ rows' = [rows EXCEPT ![i] = [rows[i] EXCEPT !.fresh = FALSE]]
      \/ rows' = [rows EXCEPT ![i] = [rows[i] EXCEPT !.recent = FALSE]]
  BY DEF TimeStep, GoStale, GoOld
<1> QED  BY <1>1, <1>2, <1>3, RowSettles DEF In

-----------------------------------------------------------------------------
(* What the steps of a task do to the tasks                                *)

\* A step of one task that begins no write leaves the tasks well typed and backed.
LEMMA TaskKept ==
  ASSUME ReportInv, NEW i \in Runs, task[i] # NoRun, NEW new \in Task,
         task' = [task EXCEPT ![i] = new],
         new.stage = "writing" => new.writes \in Ended
  PROVE  /\ task' \in [Runs -> Task \cup {NoRun}]
         /\ \A j \in Runs : task'[j] # NoRun => task[j] # NoRun
         /\ \A j \in Runs : task'[j] # NoRun /\ task'[j].stage = "writing"
                              => task'[j].writes \in Ended
<1>1. task \in [Runs -> Task \cup {NoRun}]
  BY DEF ReportInv, TypeOK
<1>2. task'[i] = new /\ \A j \in Runs : j # i => task'[j] = task[j]
  BY <1>1
<1>3. \A j \in Runs : task[j] # NoRun /\ task[j].stage = "writing" => task[j].writes \in Ended
  BY DEF ReportInv, RowsBacked, At
<1> QED  BY <1>1, <1>2, <1>3

LEMMA MoveKept ==
  ASSUME ReportInv, NEW i \in Runs, task[i] # NoRun,
         NEW stage \in Stages \ {"writing"}, Move(i, stage)
  PROVE  /\ task' \in [Runs -> Task \cup {NoRun}]
         /\ \A j \in Runs : task'[j] # NoRun => task[j] # NoRun
         /\ \A j \in Runs : task'[j] # NoRun /\ task'[j].stage = "writing"
                              => task'[j].writes \in Ended
<1>1. task[i] \in Task
  BY DEF ReportInv, TypeOK
<1>2. [task[i] EXCEPT !.stage = stage] \in Task /\ [task[i] EXCEPT !.stage = stage].stage = stage
  BY <1>1 DEF Task
<1>3. task' = [task EXCEPT ![i] = [task[i] EXCEPT !.stage = stage]]
  BY DEF Move
<1> QED  BY <1>2, <1>3, TaskKept

LEMMA EndKept ==
  ASSUME ReportInv, NEW i \in Runs, task[i] # NoRun, End(i)
  PROVE  /\ task' \in [Runs -> Task \cup {NoRun}]
         /\ \A j \in Runs : task'[j] # NoRun => task[j] # NoRun
         /\ \A j \in Runs : task'[j] # NoRun /\ task'[j].stage = "writing"
                              => task'[j].writes \in Ended
<1>1. task[i] \in Task
  BY DEF ReportInv, TypeOK
<1>2. OverTask(task[i].proc) \in Task /\ OverTask(task[i].proc).stage = "over"
  BY <1>1 DEF Task, OverTask, Stages
<1>3. task' = [task EXCEPT ![i] = OverTask(task[i].proc)]
  BY DEF End
<1> QED  BY <1>2, <1>3, TaskKept

LEMMA WriteKept ==
  ASSUME ReportInv, NEW i \in Runs, task[i] # NoRun, NEW state \in Ended, Write(i, state)
  PROVE  /\ task' \in [Runs -> Task \cup {NoRun}]
         /\ \A j \in Runs : task'[j] # NoRun => task[j] # NoRun
         /\ \A j \in Runs : task'[j] # NoRun /\ task'[j].stage = "writing"
                              => task'[j].writes \in Ended
<1>1. task[i] \in Task
  BY DEF ReportInv, TypeOK
<1> DEFINE new == [task[i] EXCEPT !.stage = "writing", !.writes = state, !.cancelled = FALSE]
<1>2. new \in Task /\ new.writes = state
  BY <1>1 DEF Task, Stages
<1>3. task' = [task EXCEPT ![i] = new]
  BY <1>1 DEF Write
<1> QED  BY <1>2, <1>3, TaskKept

\* Rows that settle and tasks that are kept make the invariant again.
LEMMA InvKept ==
  ASSUME ReportInv, RowsSettle,
         task' \in [Runs -> Task \cup {NoRun}],
         \A j \in Runs : task'[j] # NoRun => task[j] # NoRun,
         \A j \in Runs : task'[j] # NoRun /\ task'[j].stage = "writing" => task'[j].writes \in Ended,
         \A w \in late' : w \in late \/ (w \in Runs \X Ended /\ task[w[1]] # NoRun),
         requested' \subseteq Runs, cancels' \subseteq Runs,
         server' \in [Procs -> {"off", "on", "stopping"}],
         plan' \in [Procs -> {"idle", "claiming"}]
  PROVE  ReportInv'
<1>1. late' \subseteq Runs \X Ended
  BY DEF ReportInv, TypeOK
<1>2. TypeOK'
  BY <1>1 DEF TypeOK, RowsSettle
<1>3. \A w \in late' : w[1] \in Runs /\ rows[w[1]] # NoRun
  BY <1>1 DEF ReportInv, RowsBacked
<1>4. \A w \in late' : rows'[w[1]] # NoRun
  BY <1>3 DEF RowsSettle
<1>5. \A j \in Runs : task'[j] # NoRun => rows'[j] # NoRun
  BY DEF ReportInv, RowsBacked, RowsSettle
<1> QED  BY <1>2, <1>4, <1>5 DEF ReportInv, RowsBacked, At

-----------------------------------------------------------------------------
(* Every step but a claim settles the rows and keeps the invariant         *)

LEMMA TaskSettles ==
  ASSUME ReportInv, NEW i \in Runs, TaskStep(i)
  PROVE  RowsSettle /\ ReportInv'
<1>1. /\ server' = server /\ plan' = plan /\ cancels' = cancels
      /\ server \in [Procs -> {"off", "on", "stopping"}]
      /\ plan \in [Procs -> {"idle", "claiming"}] /\ cancels \subseteq Runs
      /\ requested \subseteq Runs
      /\ task \in [Runs -> Task \cup {NoRun}]
      /\ rows \in [Runs -> Row \cup {NoRun}]
  BY DEF TaskStep, Launch, WaitInSlot, TakeSlot, Begin, SignedOut, Progress, WriteReport, Fail,
         Stored, Finish, Interrupt, ReportInv, TypeOK
<1>2. task[i] # NoRun /\ rows[i] # NoRun /\ task[i] \in Task /\ rows[i] \in Row
  <2>1. task[i] # NoRun
    BY DEF TaskStep, Launch, WaitInSlot, TakeSlot, Begin, SignedOut, Progress, WriteReport, Fail,
           Stored, Finish, Interrupt, At
  <2> QED  BY <1>1, <2>1 DEF ReportInv, RowsBacked
<1>3. /\ {"slot", "begin", "work", "tail", "closing"} \subseteq Stages \ {"writing"}
      /\ {"done", "failed", "cancelled"} = Ended
  BY DEF Stages, Ended
<1>4. /\ \A j \in Runs : task[j] # NoRun /\ task[j].stage = "writing" => task[j].writes \in Ended
      /\ rows[i].state \in {"running"} \cup Ended
  BY <1>2 DEF ReportInv, RowsBacked, At, Row
<1>5. CASE Launch(i)
  <2>1. \E stage \in Stages \ {"writing"} : Move(i, stage)
    BY <1>3, <1>5 DEF Launch
  <2>2. RowsSettle
    BY <1>5, SameSettles DEF Launch
  <2> QED  BY <1>1, <1>2, <1>5, <2>1, <2>2, MoveKept, InvKept DEF Launch
<1>6. CASE WaitInSlot(i)
  <2>1. RowsSettle
    BY <1>6, TouchSettles DEF WaitInSlot
  <2>2. CASE In(i, "running")
    BY <1>1, <1>4, <1>6, <2>1, <2>2, InvKept DEF WaitInSlot
  <2>3. CASE ~In(i, "running")
    <3>1. End(i)
      BY <1>6, <2>3 DEF WaitInSlot
    <3> QED  BY <1>1, <1>2, <1>6, <2>1, <3>1, EndKept, InvKept DEF WaitInSlot
  <2> QED  BY <2>1, <2>2, <2>3
<1>7. CASE TakeSlot(i)
  <2>1. RowsSettle
    BY <1>7, TouchSettles DEF TakeSlot
  <2>2. CASE In(i, "running")
    <3>1. Move(i, "begin")
      BY <1>7, <2>2 DEF TakeSlot
    <3> QED  BY <1>1, <1>2, <1>3, <1>7, <2>1, <3>1, MoveKept, InvKept DEF TakeSlot
  <2>3. CASE ~In(i, "running")
    <3>1. End(i)
      BY <1>7, <2>3 DEF TakeSlot
    <3> QED  BY <1>1, <1>2, <1>7, <2>1, <3>1, EndKept, InvKept DEF TakeSlot
  <2> QED  BY <2>1, <2>2, <2>3
<1>8. CASE Begin(i)
  <2>1. RowsSettle
    BY <1>2, <1>4, <1>8, UpdatedSettles DEF Begin
  <2> QED  BY <1>1, <1>2, <1>3, <1>8, <2>1, MoveKept, InvKept DEF Begin
<1>9. CASE SignedOut(i)
  <2>1. RowsSettle
    BY <1>2, <1>3, <1>9, UpdatedSettles DEF SignedOut
  <2> QED  BY <1>1, <1>2, <1>9, <2>1, EndKept, InvKept DEF SignedOut
<1>10. CASE Progress(i)
  <2>1. RowsSettle
    BY <1>2, <1>4, <1>10, UpdatedSettles DEF Progress
  <2> QED  BY <1>1, <1>4, <1>10, <2>1, InvKept DEF Progress
<1>11. CASE WriteReport(i)
  <2>1. RowsSettle
    BY <1>11, SameSettles DEF WriteReport
  <2> QED  BY <1>1, <1>2, <1>3, <1>11, <2>1, WriteKept, InvKept DEF WriteReport
<1>12. CASE Fail(i)
  <2>1. RowsSettle
    BY <1>12, SameSettles DEF Fail
  <2> QED  BY <1>1, <1>2, <1>3, <1>12, <2>1, WriteKept, InvKept DEF Fail
<1>13. CASE Stored(i)
  <2>1. task[i].writes \in Ended
    BY <1>4, <1>13 DEF Stored, At
  <2>2. RowsSettle
    BY <1>2, <1>13, <2>1, UpdatedSettles DEF Stored
  <2>3. \E stage \in Stages \ {"writing"} : Move(i, stage)
    BY <1>3, <1>13 DEF Stored
  <2> QED  BY <1>1, <1>2, <1>13, <2>2, <2>3, MoveKept, InvKept DEF Stored
<1>14. CASE Finish(i)
  <2>1. RowsSettle
    BY <1>14, SameSettles DEF Finish
  <2>2. requested' \subseteq Runs
    BY <1>1, <1>14 DEF Finish
  <2> QED  BY <1>1, <1>2, <1>14, <2>1, <2>2, EndKept, InvKept DEF Finish
<1>15. CASE Interrupt(i)
  <2>1. RowsSettle
    BY <1>15, SameSettles DEF Interrupt
  <2>2. requested' \subseteq Runs
    BY <1>1, <1>15 DEF Interrupt
  <2>3. \A w \in late' : w \in late \/ (w \in Runs \X Ended /\ task[w[1]] # NoRun)
    BY <1>2, <1>4, <1>15 DEF Interrupt, At
  <2>4. End(i) \/ \E state \in Ended : Write(i, state)
    BY <1>3, <1>15 DEF Interrupt
  <2>5. CASE End(i)
    BY <1>1, <1>2, <2>1, <2>2, <2>3, <2>5, EndKept, InvKept
  <2>6. ASSUME NEW state \in Ended, Write(i, state)
        PROVE  ReportInv'
    BY <1>1, <1>2, <2>1, <2>2, <2>3, <2>6, WriteKept, InvKept
  <2> QED  BY <2>1, <2>4, <2>5, <2>6
<1> QED  BY <1>5, <1>6, <1>7, <1>8, <1>9, <1>10, <1>11, <1>12, <1>13, <1>14, <1>15 DEF TaskStep

\* A user, a late write and the clock.
LEMMA OutsideSettles ==
  ASSUME ReportInv, NEW i \in Runs,
         \/ CancelRow(i) \/ TimeStep(i)
         \/ \E state \in Ended : LateWrite(i, state)
         \/ \E p \in Procs : UserStep(p, i)
  PROVE  RowsSettle /\ ReportInv'
<1>1. /\ server \in [Procs -> {"off", "on", "stopping"}]
      /\ plan \in [Procs -> {"idle", "claiming"}] /\ cancels \subseteq Runs
      /\ requested \subseteq Runs
      /\ task \in [Runs -> Task \cup {NoRun}]
      /\ \A j \in Runs : task[j] # NoRun /\ task[j].stage = "writing" => task[j].writes \in Ended
  BY DEF ReportInv, TypeOK, RowsBacked, At
<1>2. CASE CancelRow(i)
  <2>1. RowsSettle
    BY <1>2, CancelSettles DEF CancelRow
  <2> QED  BY <1>1, <1>2, <2>1, InvKept DEF CancelRow
<1>3. CASE TimeStep(i)
  <2>1. RowsSettle
    BY <1>3, TimeSettles
  <2> QED  BY <1>1, <1>3, <2>1, InvKept DEF TimeStep, GoStale, GoOld
<1>4. ASSUME NEW state \in Ended, LateWrite(i, state)
      PROVE  RowsSettle /\ ReportInv'
  <2>1. rows[i] # NoRun
    BY <1>4 DEF LateWrite, ReportInv, RowsBacked
  <2>2. RowsSettle
    BY <1>4, <2>1, UpdatedSettles DEF LateWrite
  <2> QED  BY <1>1, <1>4, <2>2, InvKept DEF LateWrite
<1>5. ASSUME NEW p \in Procs, RequestCancel(p, i)
      PROVE  RowsSettle /\ ReportInv'
  <2>1. RowsSettle
    BY <1>5, SameSettles DEF RequestCancel
  <2>2. task[i] # NoRun /\ task[i] \in Task
    BY <1>1, <1>5 DEF RequestCancel, Registered
  <2>3. /\ [task[i] EXCEPT !.cancelled = TRUE] \in Task
        /\ [task[i] EXCEPT !.cancelled = TRUE].stage = task[i].stage
        /\ [task[i] EXCEPT !.cancelled = TRUE].writes = task[i].writes
    BY <2>2 DEF Task
  <2>4. task' = [task EXCEPT ![i] = [task[i] EXCEPT !.cancelled = TRUE]]
    BY <1>5 DEF RequestCancel
  <2>5. requested' \subseteq Runs /\ cancels' \subseteq Runs
    BY <1>1, <1>5 DEF RequestCancel
  <2>6. /\ task' \in [Runs -> Task \cup {NoRun}]
        /\ \A j \in Runs : task'[j] # NoRun => task[j] # NoRun
        /\ \A j \in Runs : task'[j] # NoRun /\ task'[j].stage = "writing"
                             => task'[j].writes \in Ended
    BY <1>1, <2>2, <2>3, <2>4, TaskKept
  <2> QED  BY <1>1, <1>5, <2>1, <2>5, <2>6, InvKept DEF RequestCancel
<1>6. ASSUME NEW p \in Procs, CancelElsewhere(p, i)
      PROVE  RowsSettle /\ ReportInv'
  <2>1. RowsSettle
    BY <1>6, CancelSettles DEF CancelElsewhere
  <2> QED  BY <1>1, <1>6, <2>1, InvKept DEF CancelElsewhere
<1> QED  BY <1>2, <1>3, <1>4, <1>5, <1>6 DEF UserStep

LEMMA ServerSettles ==
  ASSUME ReportInv, NEW p \in Procs, Start(p) \/ Tick(p) \/ Stop(p) \/ Stopped(p) \/ Crash(p)
  PROVE  RowsSettle /\ ReportInv'
<1>1. /\ server \in [Procs -> {"off", "on", "stopping"}]
      /\ plan \in [Procs -> {"idle", "claiming"}] /\ cancels \subseteq Runs
      /\ requested \subseteq Runs
      /\ task \in [Runs -> Task \cup {NoRun}]
      /\ \A j \in Runs : task[j] # NoRun /\ task[j].stage = "writing" => task[j].writes \in Ended
  BY DEF ReportInv, TypeOK, RowsBacked, At
<1>2. RowsSettle
  BY RecoverSettles, SameSettles DEF Start, Tick, Stop, Stopped, Crash
<1>3. /\ OverTask(p) \in Task /\ OverTask(p).stage = "over"
  BY DEF Task, OverTask, Stages, Ended
<1>4. CASE Start(p)
  BY <1>1, <1>2, <1>4, InvKept DEF Start
<1>5. CASE Tick(p)
  BY <1>1, <1>2, <1>5, InvKept DEF Tick
<1>6. CASE Stopped(p)
  BY <1>1, <1>2, <1>6, InvKept DEF Stopped
<1>7. CASE Stop(p)
  <2>1. ASSUME NEW j \in Runs
        PROVE  /\ task'[j] \in Task \cup {NoRun}
               /\ task'[j] # NoRun => task[j] # NoRun
               /\ task'[j] # NoRun /\ task'[j].stage = "writing" => task'[j].writes \in Ended
    <3>1. \/ task'[j] = task[j]
          \/ task[j] # NoRun /\ task'[j] = OverTask(p)
          \/ task[j] # NoRun /\ task'[j] = [task[j] EXCEPT !.cancelled = TRUE]
      BY <1>7 DEF Stop, RunsOf
    <3>2. task[j] # NoRun => /\ [task[j] EXCEPT !.cancelled = TRUE] \in Task
                             /\ [task[j] EXCEPT !.cancelled = TRUE].stage = task[j].stage
                             /\ [task[j] EXCEPT !.cancelled = TRUE].writes = task[j].writes
      BY <1>1 DEF Task
    <3>3. CASE task'[j] = task[j]
      BY <1>1, <3>3
    <3>4. CASE task[j] # NoRun /\ task'[j] = OverTask(p)
      BY <1>3, <3>4
    <3>5. CASE task[j] # NoRun /\ task'[j] = [task[j] EXCEPT !.cancelled = TRUE]
      BY <1>1, <3>2, <3>5
    <3> QED  BY <3>1, <3>3, <3>4, <3>5
  <2>2. task' \in [Runs -> Task \cup {NoRun}]
    BY <1>7, <2>1 DEF Stop
  <2> QED  BY <1>1, <1>2, <1>7, <2>1, <2>2, InvKept DEF Stop
<1>8. CASE Crash(p)
  <2>1. \A j \in Runs : task'[j] = task[j] \/ (task[j] # NoRun /\ task'[j] = OverTask(p))
    BY <1>8 DEF Crash, RunsOf
  <2>2. task' \in [Runs -> Task \cup {NoRun}]
    BY <1>1, <1>3, <1>8 DEF Crash
  <2>3. /\ \A j \in Runs : task'[j] # NoRun => task[j] # NoRun
        /\ \A j \in Runs : task'[j] # NoRun /\ task'[j].stage = "writing"
                             => task'[j].writes \in Ended
    BY <1>1, <1>3, <2>1
  <2>4. /\ requested' \subseteq Runs /\ cancels' \subseteq Runs /\ late' \subseteq late
        /\ server' \in [Procs -> {"off", "on", "stopping"}]
        /\ plan' \in [Procs -> {"idle", "claiming"}]
    BY <1>1, <1>8 DEF Crash
  <2> QED  BY <1>2, <2>2, <2>3, <2>4, InvKept
<1> QED  BY <1>2, <1>4, <1>5, <1>6, <1>7, <1>8

-----------------------------------------------------------------------------
(* A claim                                                                 *)

\* A claim that is not answered adds one running row, and found none.
LEMMA ClaimAdds ==
  ASSUME ReportInv, NEW p \in Procs, NEW trigger \in {"nightly", "user"},
         NEW stage \in {"claimed", "over"}, Claim(p, trigger, stage)
  PROVE  /\ \/ UNCHANGED <<rows, task>>
            \/ \E i \in Runs :
                 /\ rows[i] = NoRun /\ rows' = [rows EXCEPT ![i] = ClaimedRow(trigger)]
                 /\ \A j \in Runs : ~In(j, "running")
         /\ rows' \in [Runs -> Row \cup {NoRun}]
         /\ task' \in [Runs -> Task \cup {NoRun}]
         /\ \A i \in Runs : rows[i] # NoRun => rows'[i] = rows[i]
         /\ late' = late => RowsBacked'
<1>1. /\ task \in [Runs -> Task \cup {NoRun}]
      /\ rows \in [Runs -> Row \cup {NoRun}]
      /\ RowsBacked /\ late \subseteq Runs \X Ended
  BY DEF ReportInv, TypeOK
<1>2. CASE UNCHANGED <<rows, task>>
  BY <1>1, <1>2 DEF RowsBacked, At
<1>3. ASSUME NEW i \in Runs, ~Answered(trigger), NewRun(i),
             rows' = [rows EXCEPT ![i] = ClaimedRow(trigger)],
             task' = [task EXCEPT ![i] =
               [proc |-> p, stage |-> stage, writes |-> "running", cancelled |-> FALSE]]
      PROVE  /\ rows[i] = NoRun /\ \A j \in Runs : ~In(j, "running")
             /\ rows' \in [Runs -> Row \cup {NoRun}]
             /\ task' \in [Runs -> Task \cup {NoRun}]
             /\ \A j \in Runs : rows[j] # NoRun => rows'[j] = rows[j]
             /\ late' = late => RowsBacked'
  <2>1. rows[i] = NoRun /\ \A j \in Runs : ~In(j, "running")
    BY <1>3 DEF NewRun, Answered, In
  <2>2. ClaimedRow(trigger) \in Row /\ ClaimedRow(trigger) # NoRun
    <3>1. ClaimedRow(trigger) \in Row
      BY DEF ClaimedRow, Row
    <3> QED  BY <3>1, NoRunAssumption
  <2>3. [proc |-> p, stage |-> stage, writes |-> "running", cancelled |-> FALSE] \in Task
    BY DEF Task, Stages
  <2>4. /\ rows' \in [Runs -> Row \cup {NoRun}] /\ task' \in [Runs -> Task \cup {NoRun}]
        /\ rows'[i] # NoRun /\ task'[i].stage # "writing"
        /\ \A j \in Runs : j # i => rows'[j] = rows[j] /\ task'[j] = task[j]
    BY <1>1, <1>3, <2>2, <2>3
  <2>5. \A j \in Runs : rows[j] # NoRun => rows'[j] = rows[j]
    BY <2>1, <2>4
  <2>6. ASSUME late' = late PROVE RowsBacked'
    <3>1. \A j \in Runs : task'[j] # NoRun => rows'[j] # NoRun
      BY <1>1, <2>4 DEF RowsBacked
    <3>2. \A w \in late' : rows'[w[1]] # NoRun
      BY <1>1, <2>5, <2>6 DEF RowsBacked
    <3>3. \A j \in Runs : task'[j] # NoRun /\ task'[j].stage = "writing"
                            => task'[j].writes \in Ended
      BY <1>1, <2>4 DEF RowsBacked, At
    <3> QED  BY <3>1, <3>2, <3>3 DEF RowsBacked, At
  <2> QED  BY <2>1, <2>4, <2>5, <2>6
<1> QED  BY <1>1, <1>2, <1>3 DEF Claim

\* What a claim leaves, by a user or by the scheduler.
ClaimStep(p) == StartReport(p) \/ ClaimNightly(p)

LEMMA ClaimKept ==
  ASSUME ReportInv, NEW p \in Procs, ClaimStep(p)
  PROVE  /\ ReportInv'
         /\ \A i \in Runs : rows[i] # NoRun => rows'[i] = rows[i]
         /\ \/ UNCHANGED rows
            \/ \E i \in Runs, trigger \in {"nightly", "user"} :
                 /\ rows[i] = NoRun /\ rows' = [rows EXCEPT ![i] = ClaimedRow(trigger)]
                 /\ \A j \in Runs : ~In(j, "running")
<1>1. /\ UNCHANGED <<requested, late, cancels, server>>
      /\ plan' \in [Procs -> {"idle", "claiming"}]
  BY DEF ClaimStep, StartReport, ClaimNightly, ReportInv, TypeOK
<1>2. \E trigger \in {"nightly", "user"}, stage \in {"claimed", "over"} : Claim(p, trigger, stage)
  BY DEF ClaimStep, StartReport, ClaimNightly
<1>3. PICK trigger \in {"nightly", "user"}, stage \in {"claimed", "over"} : Claim(p, trigger, stage)
  BY <1>2
<1>4. /\ rows' \in [Runs -> Row \cup {NoRun}]
      /\ task' \in [Runs -> Task \cup {NoRun}]
      /\ RowsBacked'
      /\ \A i \in Runs : rows[i] # NoRun => rows'[i] = rows[i]
  BY <1>1, <1>3, ClaimAdds
<1>5. TypeOK'
  BY <1>1, <1>4 DEF ReportInv, TypeOK
<1> QED  BY <1>3, <1>4, <1>5, ClaimAdds DEF ReportInv

\* Every step settles the rows or claims.
LEMMA StepSettles ==
  ASSUME ReportInv, [Next]_vars
  PROVE  \/ RowsSettle /\ ReportInv'
         \/ \E p \in Procs : ClaimStep(p)
<1>1. CASE UNCHANGED vars
  <2>1. RowsSettle
    BY <1>1, SameSettles DEF vars
  <2> QED  BY <1>1, <2>1 DEF vars, ReportInv, TypeOK, RowsBacked, At
<1> QED  BY <1>1, TaskSettles, OutsideSettles, ServerSettles DEF Next, ServerStep, ClaimStep

LEMMA InvInit == Init => ReportInv
<1> SUFFICES ASSUME Init PROVE ReportInv
  OBVIOUS
<1>1. TypeOK
  BY DEF Init, TypeOK
<1> QED  BY <1>1 DEF Init, ReportInv, RowsBacked, At

LEMMA InvStep == ReportInv /\ [Next]_vars => ReportInv'
BY StepSettles, ClaimKept

-----------------------------------------------------------------------------
(* Theorems                                                                *)

\* The rows, the tasks and the writes under way stay well typed (ReportScheduler, run_report and
\* the report_run table).
THEOREM TypeCorrect == Spec => []TypeOK
<1>1. ReportInv => TypeOK
  BY DEF ReportInv
<1> QED  BY <1>1, InvInit, InvStep, PTL DEF Spec

LEMMA RunningStep ==
  ASSUME ReportInv, OneRunning, [Next]_vars
  PROVE  OneRunning'
<1>1. CASE RowsSettle
  <2>1. \A i \in Runs : In(i, "running")' => In(i, "running")
    BY <1>1 DEF RowsSettle, In
  <2> QED  BY <2>1 DEF OneRunning
<1>2. ASSUME NEW p \in Procs, ClaimStep(p)
      PROVE  OneRunning'
  <2>1. CASE UNCHANGED rows
    BY <2>1 DEF OneRunning, In
  <2>2. ASSUME NEW i \in Runs, NEW trigger \in {"nightly", "user"},
               rows' = [rows EXCEPT ![i] = ClaimedRow(trigger)],
               \A j \in Runs : ~In(j, "running")
        PROVE  OneRunning'
    <3>1. \A j \in Runs : j # i => rows'[j] = rows[j]
      BY <2>2 DEF ReportInv, TypeOK
    <3>2. \A j \in Runs : In(j, "running")' => j = i
      BY <2>2, <3>1 DEF In
    <3> QED  BY <3>2 DEF OneRunning
  <2> QED  BY <1>2, <2>1, <2>2, ClaimKept
<1> QED  BY <1>1, <1>2, StepSettles

\* However many servers claim, recover, cancel and write late, a database has one report under
\* way: a claim looks at every row in its own transaction (claim_report).
THEOREM OneReportRuns == Spec => []OneRunning
<1>1. Init => OneRunning
  BY DEF Init, OneRunning, In
<1>2. ReportInv /\ OneRunning /\ [Next]_vars => OneRunning'
  BY RunningStep
<1> QED  BY <1>1, <1>2, InvInit, InvStep, PTL DEF Spec

\* A report that ended does not run again, whatever its own task still writes: update_report
\* keeps the state of the row, and no write of a task is "running".
THEOREM EndedReportsStay == Spec => EndedStaysEnded
<1>1. ASSUME ReportInv, [Next]_vars
      PROVE  \A i \in Runs : rows[i] # NoRun /\ rows[i].state # "running" => rows'[i].state # "running"
  <2>1. CASE RowsSettle
    BY <2>1 DEF RowsSettle, In
  <2>2. ASSUME NEW p \in Procs, ClaimStep(p)
        PROVE  \A i \in Runs : rows[i] # NoRun => rows'[i] = rows[i]
    BY <1>1, <2>2, ClaimKept
  <2> QED  BY <1>1, <2>1, <2>2, StepSettles
<1> QED  BY <1>1, InvInit, InvStep, PTL DEF Spec, EndedStaysEnded
=============================================================================
