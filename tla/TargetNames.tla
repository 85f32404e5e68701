---------------------------- MODULE TargetNames ----------------------------
(***************************************************************************)
(* Databases are added, renamed and removed (cli/features/configure/       *)
(* service.py and its routes) beside the monitor loop and the analyses and *)
(* reports that run under their names.                                     *)
(*                                                                         *)
(* A request is a thread of its own.  A rename takes the run guards of     *)
(* both names, then writes config.toml, the monitor store, and the query   *)
(* library and activity log, which are one step here that may fail.  What  *)
(* was moved is then moved back, which may fail too, and the connection    *)
(* restored in any case.  The guards keep cycles out, not the job queue,   *)
(* the reports or a new database.  The server does not die midway.         *)
(* One server: the guards are its own.  A collector's readings, which take *)
(* no run guard, are left out.                                             *)
(***************************************************************************)
EXTENDS MonitorLoop

CONSTANTS Requests, \* bound: renames and removals in a behaviour, made in this order
          Working   \* bound: names under which analyses or reports run

ASSUME RequestsAssumption == Requests \subseteq Nat
ASSUME WorkingAssumption == Working \subseteq Names

VARIABLES
  request, \* where each rename or removal is
  work,    \* the database an analysis or report under a name runs on, if one does
  lost,    \* what was removed, or replaced by a rename: databases, NoDb if already gone (observed)
  stray    \* databases of which a rename may have left or put rows under another name (observed)

vars == <<loopVars, request, work, lost, stray>>

Steps == {"new", "first", "second", "config", "monitor", "rest", "back", "restore",
          "drain", "remove", "forget", "done"}
Request == [step : Steps, old : Names \cup {NoDb}, new : Names \cup {NoDb}, db : Dbs \cup {NoDb}]
Asked(step, old, new) == [step |-> step, old |-> old, new |-> new, db |-> NoDb]

TypeOK ==
  /\ LoopTypeOK
  /\ request \in [Requests -> Request]
  /\ work \in [Names -> SUBSET (Dbs \cup {NoDb})]
  /\ lost \subseteq Dbs \cup {NoDb}
  /\ stray \subseteq Dbs \cup {NoDb}

Init ==
  /\ LoopInit
  /\ request = [r \in Requests |-> Asked("new", NoDb, NoDb)]
  /\ work = [n \in Names |-> {}] /\ lost = {} /\ stray = {}

Moves(r, step) == request' = [request EXCEPT ![r].step = step]
Ends(r) == request' = [request EXCEPT ![r] = Asked("done", NoDb, NoDb)]

\* The next request is made.
Makes(r) ==
  /\ request[r].step = "new" /\ \A q \in Requests : q < r => request[q].step # "new"
  /\ changes < MaxChanges /\ changes' = changes + 1

\* A rename that has changed the configuration and may yet take it back.
Midway(r) == request[r].step \in {"monitor", "rest", "back", "restore"}

-----------------------------------------------------------------------------
(* Rename                                                                  *)

\* update_target (routes.py) refuses a taken name and a busy database.
AskRename(r, old, new) ==
  /\ Makes(r) /\ old # new
  /\ config[old] # NoDb /\ config[new] = NoDb /\ work[old] = {}
  /\ request' = [request EXCEPT ![r] = Asked("first", old, new)]
  /\ UNCHANGED <<config, enabled, history, loop, pass, cycles, turning, offs, held, work, lost, stray,
                 gen, wrote>>

\* RunGuard().run, of the old name and inside it of the new one.
TakeOld(r) ==
  /\ request[r].step = "first" /\ Free(request[r].old)
  /\ held' = held \cup {request[r].old}
  /\ Moves(r, "second")
  /\ UNCHANGED <<config, enabled, history, loop, pass, cycles, turning, offs, work, lost, stray, auxVars>>

TakeNew(r) ==
  /\ request[r].step = "second" /\ Free(request[r].new)
  /\ held' = held \cup {request[r].new}
  /\ Moves(r, "config")
  /\ UNCHANGED <<config, enabled, history, loop, pass, cycles, turning, offs, work, lost, stray, auxVars>>

Guards(r) == {request[r].old, request[r].new}

\* The saved connection moves, over whatever has the new name by now.
MoveConfig(r) ==
  LET q == request[r] IN
  /\ q.step = "config"
  /\ IF config[q.old] = NoDb
       THEN /\ held' = held \ Guards(r) /\ Ends(r)
            /\ UNCHANGED <<config, lost>>
       ELSE /\ config' = [config EXCEPT ![q.old] = NoDb, ![q.new] = config[q.old]]
            /\ lost' = lost \cup ({config[q.new]} \ {NoDb})
            /\ request' = [request EXCEPT ![r].step = "monitor", ![r].db = config[q.old]]
            /\ UNCHANGED held
  /\ UNCHANGED <<enabled, history, loop, pass, cycles, turning, offs, work, stray, auxVars>>

Renamed(f, from, to, left) == [f EXCEPT ![to] = f[from], ![from] = left]

MoveRowsOnly(from, to) == \* mutant: the old name keeps no row
  /\ history' = Renamed(history, from, to, {})
  /\ enabled' = Renamed(enabled, from, to, "unset")
  /\ work' = [work EXCEPT ![to] = {}]

\* MonitorStore.rename_target: the new name's rows are dropped, those of runs too, the old
\* one's move, and the old name keeps monitoring off.
MoveRows(from, to) ==
  /\ history' = Renamed(history, from, to, {})
  /\ enabled' = Renamed(enabled, from, to, "off")
  /\ work' = [work EXCEPT ![to] = {}]

\* The first results of a database that was added meanwhile under the name that is left move too.
Carries(from, db) == ({config[from]} \ {db, NoDb}) \cap history[from]

RefusesNothing(n) == FALSE \* mutant

\* A running analysis or report refuses the move.
Refuses(n) == work[n] # {}

\* The store's transaction, which a lock that is held too long fails too; when it fails, what
\* the queue has begun under the new name stays.
MoveMonitor(r) ==
  LET q == request[r] IN
  /\ q.step = "monitor"
  /\ \/ /\ Moves(r, "restore")
        /\ stray' = stray \cup ({q.db} \cap (history[q.new] \cup work[q.new]))
        /\ UNCHANGED <<history, enabled, work>>
     \/ /\ ~Refuses(q.old)
        /\ Moves(r, "rest") /\ MoveRows(q.old, q.new)
        /\ stray' = stray \cup Carries(q.old, q.db)
  /\ UNCHANGED <<config, loop, pass, cycles, turning, offs, held, lost, auxVars>>

\* The library and the activity log move, or fail to.
MoveRest(r) ==
  /\ request[r].step = "rest"
  /\ \/ Ends(r) /\ held' = held \ Guards(r)
     \/ Moves(r, "back") /\ UNCHANGED held
  /\ UNCHANGED <<config, enabled, history, loop, pass, cycles, turning, offs, work, lost, stray, auxVars>>

\* What was moved is moved back.  A roll-back that fails, refused by a run under the new name or
\* by a lock, is only logged, and the rows stay ...
MoveBack(r) ==
  LET q == request[r] IN
  /\ q.step = "back" /\ Moves(r, "restore")
  /\ \/ /\ stray' = stray \cup {q.db}
        /\ UNCHANGED <<history, enabled, work>>
     \/ /\ ~Refuses(q.new)
        /\ MoveRows(q.new, q.old)
        /\ stray' = stray \cup Carries(q.new, q.db)
  /\ UNCHANGED <<config, loop, pass, cycles, turning, offs, held, lost, auxVars>>

\* ... and the connection restored, over whatever has been added under either name.
Restore(r) ==
  LET q == request[r] IN
  /\ q.step = "restore"
  /\ config' = [config EXCEPT ![q.new] = NoDb, ![q.old] = q.db]
  /\ lost' = lost \cup ({config[q.old], config[q.new]} \ {NoDb, q.db})
  /\ held' = held \ Guards(r)
  /\ Ends(r)
  /\ UNCHANGED <<enabled, history, loop, pass, cycles, turning, offs, work, stray, auxVars>>

Rename(r) ==
  \/ \E old, new \in Names : AskRename(r, old, new)
  \/ TakeOld(r) \/ TakeNew(r) \/ MoveConfig(r) \/ MoveMonitor(r) \/ MoveRest(r)
  \/ MoveBack(r) \/ Restore(r)

-----------------------------------------------------------------------------
(* Remove                                                                  *)

\* remove_target turns monitoring off and skips the open jobs; a report goes on ...
AskRemove(r, n) ==
  /\ Makes(r) /\ config[n] # NoDb
  /\ enabled' = [enabled EXCEPT ![n] = "off"]
  /\ request' = [request EXCEPT ![r] = Asked("drain", n, n)]
  /\ \E goesOn \in SUBSET work[n] : work' = [work EXCEPT ![n] = goesOn]
  /\ UNCHANGED <<config, history, loop, pass, cycles, turning, offs, held, lost, stray, gen, wrote>>

\* ... waits for the cycle under way ...
Drain(r) ==
  /\ request[r].step = "drain" /\ Free(request[r].old)
  /\ Moves(r, "remove")
  /\ UNCHANGED <<loopVars, work, lost, stray>>

\* ... removes the connection, if it still has the name ...
RemoveConfig(r) ==
  LET n == request[r].old IN
  /\ request[r].step = "remove"
  /\ config' = [config EXCEPT ![n] = NoDb]
  /\ lost' = lost \cup {config[n]}
  /\ Moves(r, "forget")
  /\ UNCHANGED <<enabled, history, loop, pass, cycles, turning, offs, held, work, stray, auxVars>>

\* ... and, having released the slot, everything the monitor store has under the name.
Forget(r) ==
  LET n == request[r].old IN
  /\ request[r].step = "forget"
  /\ enabled' = [enabled EXCEPT ![n] = "unset"]
  /\ history' = [history EXCEPT ![n] = {}]
  /\ work' = [work EXCEPT ![n] = {}]
  /\ Ends(r)
  /\ UNCHANGED <<config, loop, pass, cycles, turning, offs, held, lost, stray, auxVars>>

Remove(r) == (\E n \in Names : AskRemove(r, n)) \/ Drain(r) \/ RemoveConfig(r) \/ Forget(r)

-----------------------------------------------------------------------------
(* Add, analyze and report                                                 *)

New(d) ==
  /\ \A n \in Names : config[n] # d /\ d \notin history[n] /\ d \notin work[n]
  /\ \A c \in cycles : c.db # d
  /\ \A r \in Requests : request[r].db # d

\* A database RDST has not seen gets a name that is not taken.
AddTarget(n, d) ==
  /\ config[n] = NoDb /\ New(d)
  /\ config' = [config EXCEPT ![n] = d]
  /\ UNCHANGED <<enabled, history, loop, pass, cycles, turning, offs, held, request, work, lost,
                 stray, auxVars>>

\* The move of the rows to the name has failed or was taken back; the connection is still there.
Restoring(n) == \E r \in Requests : request[r].step = "restore" /\ request[r].new = n

\* A job or a report is claimed: of a name that is configured, or that rows are under.
Claim(n) ==
  /\ n \in Working /\ work[n] = {}
  /\ config[n] # NoDb \/ history[n] # {}
  /\ work' = [work EXCEPT ![n] = {config[n]}]
  /\ stray' = IF Restoring(n) THEN stray \cup ({config[n]} \ {NoDb}) ELSE stray
  /\ UNCHANGED <<loopVars, request, lost>>

\* It ends, and what it found is stored under the name its row has by now.
Finish(n) ==
  /\ work[n] # {}
  /\ history' = [history EXCEPT ![n] = @ \cup (work[n] \ {NoDb})]
  /\ work' = [work EXCEPT ![n] = {}]
  /\ UNCHANGED <<config, enabled, loop, pass, cycles, turning, offs, held, request, lost, stray,
                 auxVars>>

-----------------------------------------------------------------------------
Next ==
  \/ LoopNext /\ UNCHANGED <<request, work, lost, stray>>
  \/ \E r \in Requests : Rename(r) \/ Remove(r)
  \/ \E n \in Names : Claim(n) \/ Finish(n) \/ \E d \in Dbs : AddTarget(n, d)

Spec == Init /\ [][Next]_vars
FairSpec == Spec /\ LoopFairness

-----------------------------------------------------------------------------
(* Properties                                                              *)

\* What cycles, analyses and reports stored of a database is under the name it has and no
\* other, whatever was renamed and failed to be (rename_target, service.py:299).  Only what is
\* left of a database that was removed or replaced may be elsewhere, and what a rename could
\* not take back: rows that no roll-back moved, what ran under the new name while the rename
\* failed, and first results under the name it was leaving.
ResultsFollow ==
  (\A r \in Requests : ~Midway(r)) =>
    \A n \in Names : \A d \in history[n] \ {NoDb} : config[n] = d \/ d \in lost \cup stray

\* "no monitor cycle reads either name mid-way" (service.py:302), not even the thread of a loop
\* that was stopped.
MidwayUnread ==
  \A r \in Requests : Midway(r) =>
    \A c \in cycles : c.name \in Guards(r) => c.stage = "waiting"

\* "a cycle queued under it before the rename stops at its first read" (monitor_store.py:1370):
\* as long as no name is removed and no roll-back fails, no cycle stores anything for a name
\* without a database.
StaleCycleStops == \A n \in Names : NoDb \in history[n] => lost \cup stray # {}

\* Whatever was stored since a loop was told to stop, a later loop's cycle stored: no thread of
\* the stopped loop does, however late it returns and though a new loop runs beside it
\* (RunGuard.check, run_guard.py:16).
OffIsQuiet == wrote \subseteq IF loop = "on" THEN {gen} ELSE {}

\* "a slow or hung one only delays itself" (loop.py:358): while the loop is on, a monitored
\* database is read again and again, though another's read never returns.
SlowOnlyDelaysItself ==
  \A n \in Answering :
    <>[](loop = "on" /\ enabled[n] = "on" /\ n \notin held)
      => []<>(\E c \in cycles : c.name = n /\ c.stage = "reading")

\* "A database just turned on: read it now and often" (routes.py:660).  Not checked: the code
\* breaks it, see README.md, Known differences.
TurnedOnIsRead ==
  \A n \in Answering :
    <>[](enabled[n] = "on" /\ turning = {} /\ n \notin held)
      => []<>(\E c \in cycles : c.name = n /\ c.stage = "reading")

\* "its saved connection, ... its monitoring history, ... move together" (service.py:300).  Not
\* checked: a roll-back that is refused leaves the history behind, see README.md, Known
\* differences.
RenameIsWhole ==
  (\A r \in Requests : ~Midway(r)) =>
    \A n \in Names : \A d \in history[n] \ {NoDb} : config[n] = d \/ d \in lost
=============================================================================
