--------------------------- MODULE TargetBackoff ---------------------------
(***************************************************************************)
(* Admission and retry timing of a process's background database reads     *)
(* (cli/shared/target_backoff.py): one reader at a time per database, and  *)
(* none while the database waits out a failure.                            *)
(*                                                                         *)
(* Every method runs under one lock, so each is a function of the state of *)
(* one database.  Time is what it decides: waiting stands for clock() < due*)
(* and failed for failures > 0; how long a wait lasts, which failures,     *)
(* limit_retry and the 15 minute ceiling set, is left to ElapsedState.     *)
(* The ceiling of 1024 databases is left out.                              *)
(***************************************************************************)
CONSTANT NoState \* no entry for the database

Entry == [failed : BOOLEAN, waiting : BOOLEAN, active : BOOLEAN]

ASSUME NoStateAssumption == NoState \notin Entry

FreshState == [failed |-> FALSE, waiting |-> FALSE, active |-> FALSE]
OrFresh(s) == IF s = NoState THEN FreshState ELSE s

\* acquire: whether it admits the caller, and what it leaves when it does.
Admits(s) == s # NoState => ~s.active /\ ~s.waiting
AcquiredState(s) == [OrFresh(s) EXCEPT !.active = TRUE]

\* _fail: a failure reported while the last one is being waited out counts once.
FailedState(s) == IF s.waiting THEN s ELSE [s EXCEPT !.failed = TRUE, !.waiting = TRUE]

\* finish: a success forgets the database, a failure starts a wait.
FinishedState(s, success) ==
  IF s = NoState \/ success THEN NoState ELSE FailedState([s EXCEPT !.active = FALSE])

\* record_failure: a failure reported by someone who was not admitted.
RecordedState(s) == FailedState(OrFresh(s))

\* release: nothing was attempted; only a failure is worth remembering.
ReleasedState(s) == IF s = NoState \/ ~s.failed THEN NoState ELSE [s EXCEPT !.active = FALSE]

\* forget: the database is gone or checked by hand; a holder keeps its admission.
ForgottenState(s) == IF s # NoState /\ ~s.active THEN NoState ELSE s

\* busy: another reader holds admission and no failure is being waited out.
Busy(s) == s # NoState /\ s.active /\ ~s.waiting

\* The clock reaches due.
Waiting(s) == s # NoState /\ s.waiting
ElapsedState(s) == [s EXCEPT !.waiting = FALSE]
=============================================================================
