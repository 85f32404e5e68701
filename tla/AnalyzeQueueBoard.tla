------------------------- MODULE AnalyzeQueueBoard -------------------------
(***************************************************************************)
(* AnalyzeQueue implements JobBoard: a board job is one inserted row, known*)
(* by its serial number; rows that are not in the table any more are gone. *)
(***************************************************************************)
EXTENDS AnalyzeQueue

CONSTANT NoQuery

BoardJobs == 0 .. (MaxSerial - 1)

RowWith(s) == {i \in Used : jobs[i].serial = s}
Waiting(row) == IF row.state = "queued" THEN "waiting"
                ELSE IF row.state = "running" THEN "working" ELSE row.state

boardStatus ==
  [s \in BoardJobs |->
     IF s >= serial THEN "none"
     ELSE IF RowWith(s) = {} THEN "gone"
     ELSE Waiting(jobs[CHOOSE i \in RowWith(s) : TRUE])]
boardQuery ==
  [s \in BoardJobs |->
     IF RowWith(s) = {} THEN NoQuery
     ELSE LET row == jobs[CHOOSE i \in RowWith(s) : TRUE] IN <<row.target, row.key>>]
boardTurn ==
  [s \in BoardJobs |->
     IF RowWith(s) = {} THEN 0 ELSE jobs[CHOOSE i \in RowWith(s) : TRUE].attempt]

JB == INSTANCE JobBoard WITH
        Jobs <- BoardJobs, Queries <- Targets \X Keys,
        status <- boardStatus, query <- boardQuery, turn <- boardTurn

\* Every step of every process and worker is a legal move of the jobs it touches.
ImplementsBoard == JB!Board
=============================================================================
