------------------------------ MODULE JobBoard ------------------------------
(***************************************************************************)
(* What the Deep Analyze queue promises about its jobs, without tables,    *)
(* processes or fences: a job is asked for once, waits, is worked on in    *)
(* turns, ends once and may then be forgotten, and a query has one job     *)
(* waiting or being worked on at a time.  AnalyzeQueue implements this     *)
(* (AnalyzeQueueBoard).                                                    *)
(***************************************************************************)
EXTENDS Naturals

CONSTANTS Jobs, Queries, NoQuery

VARIABLES
  status,  \* of every job, "none" before it is asked for
  query,   \* what the job is about
  turn     \* how often the job changed hands

boardVars == <<status, query, turn>>

Open == {"waiting", "working"}
Over == {"done", "failed", "skipped"}

BoardInit ==
  /\ status = [j \in Jobs |-> "none"]
  /\ query = [j \in Jobs |-> NoQuery]
  /\ turn = [j \in Jobs |-> 0]

Keeps(j) == query'[j] = query[j]

\* A job is asked for, or recorded as already over.
Ask(j) ==
  /\ status[j] = "none" /\ status'[j] \in {"waiting", "done", "skipped"}
  /\ query'[j] \in Queries /\ turn'[j] = 0

\* Somebody takes it: a waiting job, or one whose worker is known to be dead.
Take(j) ==
  /\ status[j] \in Open /\ status'[j] = "working"
  /\ turn'[j] > turn[j] /\ Keeps(j)

\* It is taken back, or given back.
Return(j) ==
  /\ status[j] = "working" /\ status'[j] = "waiting"
  /\ turn'[j] >= turn[j] /\ Keeps(j)

\* It ends; only a job that is being worked on can be done.
End(j) ==
  /\ status[j] \in Open /\ status'[j] \in Over
  /\ status[j] = "waiting" => status'[j] = "skipped"
  /\ turn'[j] >= turn[j] /\ Keeps(j)

\* Its record is dropped.
Forget(j) ==
  /\ status[j] \in Open \cup Over /\ status'[j] = "gone"
  /\ query'[j] = NoQuery /\ turn'[j] = 0

Stays(j) == status'[j] = status[j] /\ turn'[j] = turn[j] /\ Keeps(j)

\* One transaction may move several jobs, each by one of these moves.
BoardNext ==
  /\ status' \in [Jobs -> {"none", "gone"} \cup Open \cup Over]
  /\ \A j \in Jobs :
       Ask(j) \/ Take(j) \/ Return(j) \/ End(j) \/ Forget(j) \/ Stays(j)
  /\ \A j, k \in Jobs :
       j # k /\ status'[j] \in Open /\ status'[k] \in Open => query'[j] # query'[k]

Board == BoardInit /\ [][BoardNext]_boardVars
=============================================================================
