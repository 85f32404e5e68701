---------------------------- MODULE NamesProofs ----------------------------
(***************************************************************************)
(* Theorems about TargetNames for every value of its constants: any number *)
(* of names, databases and requests, made in any order.                    *)
(***************************************************************************)
EXTENDS TargetNames, TLAPS

-----------------------------------------------------------------------------
(* Types                                                                   *)

\* A request under way has its names.
Named ==
  \A r \in Requests :
    request[r].step \notin {"new", "done"} => request[r].old \in Names /\ request[r].new \in Names

LEMMA RequestTypes ==
  ASSUME TypeOK, NEW r \in Requests
  PROVE  /\ \A step \in Steps : Moves(r, step) => request' \in [Requests -> Request]
         /\ Ends(r) => request' \in [Requests -> Request]
         /\ request[r] \in Request
<1>1. request[r] \in Request
  BY DEF TypeOK
<1>2. ASSUME NEW step \in Steps, Moves(r, step)
      PROVE  request' \in [Requests -> Request]
  <2>1. [request[r] EXCEPT !.step = step] \in Request
    BY <1>1 DEF Request
  <2> QED  BY <1>2, <2>1 DEF Moves, TypeOK
<1>3. ASSUME Ends(r)
      PROVE  request' \in [Requests -> Request]
  <2>1. Asked("done", NoDb, NoDb) \in Request
    BY DEF Asked, Request, Steps
  <2> QED  BY <1>3, <2>1 DEF Ends, TypeOK
<1> QED  BY <1>1, <1>2, <1>3

LEMMA TypeInit == Init => TypeOK
<1> SUFFICES ASSUME Init PROVE TypeOK
  OBVIOUS
<1>1. Asked("new", NoDb, NoDb) \in Request
  BY DEF Asked, Request, Steps
<1>2. LoopTypeOK
  BY StartAssumption DEF Init, LoopInit, LoopTypeOK, NoPass, auxVars
<1> QED  BY <1>1, <1>2 DEF Init, TypeOK

\* A step of the loop, its cycles or a change of settings.
LEMMA LoopTypes ==
  ASSUME LoopTypeOK, LoopNext
  PROVE  LoopTypeOK'
<1>1. CASE ReadTargets
  BY <1>1 DEF ReadTargets, LoopTypeOK, Monitored, auxVars
<1>2. CASE StartCycles
  <2>1. \A n \in Names : Waiting(n) \in Cycle
    BY DEF Waiting, Cycle, LoopTypeOK
  <2>2. pass.targets \subseteq Names
    BY DEF LoopTypeOK, auxVars
  <2>3. cycles' \subseteq Cycle
    BY <1>2, <2>1, <2>2 DEF StartCycles, LoopTypeOK, auxVars
  <2> QED  BY <1>2, <2>3 DEF StartCycles, LoopTypeOK, NoPass, auxVars
<1>3. CASE AfterOff
  <2>1. ASSUME NEW c \in cycles
        PROVE  [c EXCEPT !.stopped = TRUE] \in Cycle
    <3>1. c \in Cycle
      BY DEF LoopTypeOK, auxVars
    <3> QED  BY <3>1 DEF Cycle
  <2>2. {[c EXCEPT !.stopped = TRUE] : c \in cycles} \subseteq Cycle
    BY <2>1
  <2>3. cycles' \subseteq Cycle
    BY <1>3, <2>2 DEF AfterOff, LoopTypeOK, auxVars
  <2>4. loop' \in {"none", "on", "stopping"} /\ pass' \in [read : BOOLEAN, targets : SUBSET Names]
    <3>1. CASE loop = "on" /\ Monitored = {}
      <4>1. NoPass \in [read : BOOLEAN, targets : SUBSET Names]
        BY DEF NoPass
      <4> QED  BY <1>3, <3>1, <4>1 DEF AfterOff
    <3>2. CASE ~(loop = "on" /\ Monitored = {})
      BY <1>3, <3>2 DEF AfterOff, LoopTypeOK, auxVars
    <3> QED  BY <3>1, <3>2
  <2> QED  BY <1>3, <2>3, <2>4 DEF AfterOff, LoopTypeOK, auxVars
<1>4. CASE LoopStopped
  BY <1>4 DEF LoopStopped, LoopTypeOK, auxVars
<1>5. ASSUME NEW c \in cycles, EnterCycle(c)
      PROVE  LoopTypeOK'
  <2>1. c \in Cycle /\ config[c.name] \in Dbs \cup {NoDb}
    BY DEF LoopTypeOK, Cycle
  <2>2. [c EXCEPT !.stage = "reading", !.db = config[c.name]] \in Cycle
    BY <2>1 DEF Cycle
  <2> QED  BY <1>5, <2>2 DEF EnterCycle, LoopTypeOK, auxVars
<1>6. ASSUME NEW c \in cycles, CycleReturns(c)
      PROVE  LoopTypeOK'
  <2>1. c.name \in Names /\ c.db \in Dbs \cup {NoDb} /\ c.born \in Nat
    BY DEF LoopTypeOK, Cycle
  <2>2. history' \in [Names -> SUBSET (Dbs \cup {NoDb})]
    BY <1>6, <2>1 DEF CycleReturns, LoopTypeOK
  <2>3. wrote' \subseteq Nat
    BY <1>6, <2>1 DEF CycleReturns, LoopTypeOK
  <2> QED  BY <1>6, <2>2, <2>3 DEF CycleReturns, LoopTypeOK
<1>7. ASSUME NEW n \in Names, TurnOn(n) \/ StartServices(n) \/ TurnOff(n)
      PROVE  LoopTypeOK'
  <2>1. CASE TurnOn(n)
    BY <2>1 DEF TurnOn, LoopTypeOK, auxVars
  <2>2. CASE StartServices(n)
    BY <2>2 DEF StartServices, LoopTypeOK
  <2>3. CASE TurnOff(n)
    BY <2>3 DEF TurnOff, LoopTypeOK
  <2> QED  BY <1>7, <2>1, <2>2, <2>3
<1> QED  BY <1>1, <1>2, <1>3, <1>4, <1>5, <1>6, <1>7 DEF LoopNext, CycleStep

\* A step of a rename.
LEMMA RenameTypes ==
  ASSUME TypeOK, Named, NEW r \in Requests, Rename(r)
  PROVE  TypeOK'
<1>1. /\ request[r].step \notin {"new", "done"} => request[r].old \in Names /\ request[r].new \in Names
      /\ request[r].db \in Dbs \cup {NoDb}
  BY RequestTypes DEF Request, Named
<1>2. ASSUME NEW old \in Names, NEW new \in Names, AskRename(r, old, new)
      PROVE  TypeOK'
  <2>1. Asked("first", old, new) \in Request
    BY DEF Asked, Request, Steps
  <2> QED  BY <1>2, <2>1 DEF AskRename, Makes, TypeOK, LoopTypeOK
<1>3. CASE TakeOld(r) \/ TakeNew(r)
  <2>1. request' \in [Requests -> Request]
    BY <1>3, RequestTypes DEF TakeOld, TakeNew, Steps
  <2>2. held' \subseteq Names
    BY <1>1, <1>3 DEF TakeOld, TakeNew, TypeOK, LoopTypeOK, auxVars
  <2> QED  BY <1>3, <2>1, <2>2 DEF TakeOld, TakeNew, TypeOK, LoopTypeOK, auxVars
<1>4. CASE MoveConfig(r)
  <2>1. CASE config[request[r].old] = NoDb
    BY <1>4, <2>1, RequestTypes DEF MoveConfig, TypeOK, LoopTypeOK, auxVars
  <2>2. CASE config[request[r].old] # NoDb
    <3>1. config[request[r].old] \in Dbs \cup {NoDb} /\ config[request[r].new] \in Dbs \cup {NoDb}
      BY <1>1, <1>4 DEF MoveConfig, TypeOK, LoopTypeOK, auxVars
    <3>2. [request[r] EXCEPT !.step = "monitor", !.db = config[request[r].old]] \in Request
      BY <3>1, RequestTypes DEF Request, Steps
    <3>3. request' \in [Requests -> Request]
      BY <1>4, <2>2, <3>2 DEF MoveConfig, TypeOK
    <3>4. config' \in [Names -> Dbs \cup {NoDb}]
      BY <1>4, <2>2, <3>1 DEF MoveConfig, TypeOK, LoopTypeOK, auxVars
    <3> QED  BY <1>4, <2>2, <3>1, <3>3, <3>4 DEF MoveConfig, TypeOK, LoopTypeOK, auxVars
  <2> QED  BY <2>1, <2>2
<1>5. CASE MoveMonitor(r) \/ MoveBack(r)
  <2>1. request' \in [Requests -> Request]
    BY <1>5, RequestTypes DEF MoveMonitor, MoveBack, Steps
  <2>2. ASSUME NEW from \in Names, NEW to \in Names, MoveRows(from, to)
        PROVE  /\ history' \in [Names -> SUBSET (Dbs \cup {NoDb})]
               /\ enabled' \in [Names -> {"unset", "off", "on"}]
               /\ work' \in [Names -> SUBSET (Dbs \cup {NoDb})]
    BY <2>2 DEF MoveRows, Renamed, TypeOK, LoopTypeOK, auxVars
  <2>3. /\ history' \in [Names -> SUBSET (Dbs \cup {NoDb})]
        /\ enabled' \in [Names -> {"unset", "off", "on"}]
        /\ work' \in [Names -> SUBSET (Dbs \cup {NoDb})]
    BY <1>1, <1>5, <2>2 DEF MoveMonitor, MoveBack, TypeOK, LoopTypeOK, auxVars
  <2>4. stray' \subseteq Dbs \cup {NoDb}
    <3>1. stray \subseteq Dbs \cup {NoDb} /\ \A n \in Names : history[n] \subseteq Dbs \cup {NoDb}
      BY DEF TypeOK, LoopTypeOK
    <3> QED  BY <1>1, <1>5, <3>1 DEF MoveMonitor, MoveBack, Carries
  <2> QED  BY <1>5, <2>1, <2>3, <2>4 DEF MoveMonitor, MoveBack, TypeOK, LoopTypeOK, auxVars
<1>6. CASE MoveRest(r)
  <2>1. request' \in [Requests -> Request]
    BY <1>6, RequestTypes DEF MoveRest, Steps
  <2> QED  BY <1>6, <2>1 DEF MoveRest, TypeOK, LoopTypeOK, auxVars
<1>7. CASE Restore(r)
  <2>1. request' \in [Requests -> Request]
    BY <1>7, RequestTypes DEF Restore
  <2> QED  BY <1>1, <1>7, <2>1 DEF Restore, TypeOK, LoopTypeOK, auxVars
<1> QED  BY <1>2, <1>3, <1>4, <1>5, <1>6, <1>7 DEF Rename

\* A step of a removal.
LEMMA RemoveTypes ==
  ASSUME TypeOK, Named, NEW r \in Requests, Remove(r)
  PROVE  TypeOK'
<1>1. request[r].step \notin {"new", "done"} => request[r].old \in Names
  BY DEF Named
<1>2. ASSUME NEW n \in Names, AskRemove(r, n)
      PROVE  TypeOK'
  <2>1. Asked("drain", n, n) \in Request
    BY DEF Asked, Request, Steps
  <2> QED  BY <1>2, <2>1 DEF AskRemove, Makes, TypeOK, LoopTypeOK
<1>3. CASE Drain(r)
  <2>1. request' \in [Requests -> Request]
    BY <1>3, RequestTypes DEF Drain, Steps
  <2> QED  BY <1>3, <2>1 DEF Drain, TypeOK, LoopTypeOK, loopVars, auxVars
<1>4. CASE RemoveConfig(r)
  <2>1. request' \in [Requests -> Request]
    BY <1>4, RequestTypes DEF RemoveConfig, Steps
  <2> QED  BY <1>1, <1>4, <2>1 DEF RemoveConfig, TypeOK, LoopTypeOK, auxVars
<1>5. CASE Forget(r)
  <2>1. request' \in [Requests -> Request]
    BY <1>5, RequestTypes DEF Forget
  <2> QED  BY <1>5, <2>1 DEF Forget, TypeOK, LoopTypeOK, auxVars
<1> QED  BY <1>2, <1>3, <1>4, <1>5 DEF Remove

\* Names stay with a request until it ends.
LEMMA NamedStep ==
  ASSUME TypeOK, Named, [Next]_vars
  PROVE  Named'
<1>1. ASSUME NEW r \in Requests, Rename(r) \/ Remove(r)
      PROVE  Named'
  <2>1. CASE UNCHANGED request
    BY <2>1 DEF Named
  <2>2. CASE Ends(r)
    BY <2>2 DEF Ends, Asked, Named, TypeOK
  <2>3. ASSUME NEW step, Moves(r, step), request[r].step \notin {"new", "done"}
        PROVE  Named'
    BY <2>3, RequestTypes DEF Moves, Named, TypeOK, Request
  <2>4. ASSUME NEW old \in Names, NEW new \in Names, AskRename(r, old, new) \/ AskRemove(r, old)
        PROVE  Named'
    BY <2>4 DEF AskRename, AskRemove, Asked, Named, TypeOK
  <2>5. CASE MoveConfig(r)
    <3>1. CASE config[request[r].old] = NoDb
      BY <1>1, <2>2, <2>5, <3>1 DEF MoveConfig
    <3>2. CASE config[request[r].old] # NoDb
      BY <2>5, <3>2, RequestTypes DEF MoveConfig, Named, TypeOK, Request
    <3> QED  BY <3>1, <3>2
  <2>6. CASE TakeOld(r) \/ TakeNew(r) \/ MoveMonitor(r) \/ MoveRest(r) \/ MoveBack(r) \/ Restore(r)
    BY <2>2, <2>3, <2>6 DEF TakeOld, TakeNew, MoveMonitor, MoveRest, MoveBack, Restore
  <2>7. CASE Drain(r) \/ RemoveConfig(r) \/ Forget(r)
    BY <2>2, <2>3, <2>7 DEF Drain, RemoveConfig, Forget
  <2> QED  BY <1>1, <2>4, <2>5, <2>6, <2>7 DEF Rename, Remove
<1>2. CASE UNCHANGED request
  BY <1>2 DEF Named
<1> QED  BY <1>1, <1>2 DEF Next, vars, loopVars, auxVars, Claim, Finish, AddTarget

LEMMA TypeStep == TypeOK /\ Named /\ [Next]_vars => TypeOK'
<1> SUFFICES ASSUME TypeOK, Named, [Next]_vars
             PROVE  TypeOK'
  OBVIOUS
<1>1. CASE LoopNext /\ UNCHANGED <<request, work, lost, stray>>
  BY <1>1, LoopTypes DEF TypeOK
<1>2. ASSUME NEW r \in Requests, Rename(r) \/ Remove(r)
      PROVE  TypeOK'
  BY <1>2, RenameTypes, RemoveTypes
<1>3. ASSUME NEW n \in Names, Claim(n) \/ Finish(n) \/ \E d \in Dbs : AddTarget(n, d)
      PROVE  TypeOK'
  <2>1. CASE Claim(n)
    BY <2>1 DEF Claim, TypeOK, LoopTypeOK, loopVars, auxVars
  <2>2. CASE Finish(n)
    BY <2>2 DEF Finish, TypeOK, LoopTypeOK, auxVars
  <2>3. ASSUME NEW d \in Dbs, AddTarget(n, d)
        PROVE  TypeOK'
    BY <2>3 DEF AddTarget, TypeOK, LoopTypeOK, auxVars
  <2> QED  BY <1>3, <2>1, <2>2, <2>3
<1>4. CASE UNCHANGED vars
  BY <1>4 DEF vars, loopVars, auxVars, TypeOK, LoopTypeOK, auxVars
<1> QED  BY <1>1, <1>2, <1>3, <1>4 DEF Next

\* What is configured, monitored, stored and asked for stays well typed.
THEOREM TypeCorrect == Spec => []TypeOK
<1>1. Init => TypeOK /\ Named
  BY TypeInit DEF Init, Asked, Named
<1>2. TypeOK /\ Named /\ [Next]_vars => (TypeOK /\ Named)'
  BY TypeStep, NamedStep
<1> QED  BY <1>1, <1>2, PTL DEF Spec

-----------------------------------------------------------------------------
(* Guards                                                                  *)

\* The run guards a rename has.
Holds(r) ==
  IF request[r].step = "second" THEN {request[r].old}
  ELSE IF request[r].step \in {"config", "monitor", "rest", "back", "restore"} THEN Guards(r)
  ELSE {}

\* No two renames have the guard of one name, and no cycle of a guarded name is past it.
Guarded ==
  /\ \A r \in Requests : Holds(r) \subseteq held
  /\ \A r, q \in Requests : r # q => Holds(r) \cap Holds(q) = {}
  /\ \A x \in cycles : x.stage = "reading" => x.name \notin held

\* Between two writes of a rename under way.
BeingRenamed(n) == \E r \in Requests : Midway(r) /\ n \in Guards(r)

\* A step of one request leaves the guards of the others.
LEMMA OthersHold ==
  ASSUME TypeOK, NEW r \in Requests, Rename(r) \/ Remove(r)
  PROVE  \A q \in Requests \ {r} : Holds(q)' = Holds(q)
<1>1. \A q \in Requests \ {r} : request'[q] = request[q]
  BY DEF TypeOK, Rename, Remove, AskRename, TakeOld, TakeNew, MoveConfig, MoveMonitor, MoveRest,
         MoveBack, Restore, AskRemove, Drain, RemoveConfig, Forget, Moves, Ends
<1> QED  BY <1>1 DEF Holds, Guards

\* A step of a cycle that is past its guard has it, and begins only without a rename.
LEMMA LoopGuarded ==
  ASSUME TypeOK, Guarded, LoopNext, UNCHANGED request
  PROVE  Guarded'
<1>1. \A r \in Requests : Holds(r)' = Holds(r)
  BY DEF Holds, Guards
<1>2. held' = held
  BY DEF LoopNext, ReadTargets, StartCycles, AfterOff, LoopStopped, CycleStep, EnterCycle,
         CycleReturns, TurnOn, StartServices, TurnOff
<1>3. \A x \in cycles' : x.stage = "reading" => x.name \notin held
  <2>1. CASE StartCycles
    BY <2>1 DEF StartCycles, Waiting, Guarded
  <2>2. CASE AfterOff
    BY <2>2 DEF AfterOff, Guarded, TypeOK, LoopTypeOK, Cycle
  <2>3. ASSUME NEW x \in cycles, EnterCycle(x)
        PROVE  \A y \in cycles' : y.stage = "reading" => y.name \notin held
    BY <2>3 DEF EnterCycle, Free, Guarded, TypeOK, LoopTypeOK, Cycle
  <2>4. ASSUME NEW x \in cycles, CycleReturns(x)
        PROVE  \A y \in cycles' : y.stage = "reading" => y.name \notin held
    BY <2>4 DEF CycleReturns, Guarded
  <2>5. CASE UNCHANGED cycles
    BY <2>5 DEF Guarded
  <2> QED  BY <2>1, <2>2, <2>3, <2>4, <2>5
           DEF LoopNext, ReadTargets, LoopStopped, CycleStep, TurnOn, StartServices, TurnOff
<1> QED  BY <1>1, <1>2, <1>3 DEF Guarded

\* A rename takes only guards nobody has, and gives back its own.
LEMMA RenameGuarded ==
  ASSUME TypeOK, Guarded, NEW r \in Requests, Rename(r) \/ Remove(r)
  PROVE  Guarded'
<1>1. \A q \in Requests \ {r} : Holds(q)' = Holds(q)
  BY OthersHold
<1>2. cycles' = cycles
  BY DEF Rename, Remove, AskRename, TakeOld, TakeNew, MoveConfig, MoveMonitor, MoveRest, MoveBack,
         Restore, AskRemove, Drain, RemoveConfig, Forget, loopVars
<1>3. ASSUME NEW n, Free(n), held' = held \cup {n}, Holds(r)' = Holds(r) \cup {n}
      PROVE  Guarded'
  BY <1>1, <1>2, <1>3 DEF Guarded, Free
<1>4. ASSUME held' = held \ Holds(r), Holds(r)' = {}
      PROVE  Guarded'
  BY <1>1, <1>2, <1>4 DEF Guarded
<1>5. ASSUME held' = held, Holds(r)' = Holds(r)
      PROVE  Guarded'
  BY <1>1, <1>2, <1>5 DEF Guarded
<1>6. request[r] \in Request
  BY RequestTypes
<1>7. CASE TakeOld(r)
  BY <1>3, <1>6, <1>7 DEF TakeOld, Moves, Holds, TypeOK, Request
<1>8. CASE TakeNew(r)
  BY <1>3, <1>6, <1>8 DEF TakeNew, Moves, Holds, Guards, TypeOK, Request
<1>9. CASE MoveConfig(r)
  <2>1. CASE config[request[r].old] = NoDb
    BY <1>4, <1>9, <2>1 DEF MoveConfig, Ends, Asked, Holds, TypeOK
  <2>2. CASE config[request[r].old] # NoDb
    BY <1>5, <1>6, <1>9, <2>2 DEF MoveConfig, Holds, Guards, TypeOK, Request
  <2> QED  BY <2>1, <2>2
<1>10. CASE MoveMonitor(r) \/ MoveBack(r)
  <2>1. \A step \in {"rest", "restore"} :
          Moves(r, step) /\ request[r].step \in {"monitor", "back"} => Holds(r)' = Holds(r)
    BY <1>6 DEF Moves, Holds, Guards, TypeOK, Request
  <2>2. Holds(r)' = Holds(r)
    BY <1>10, <2>1 DEF MoveMonitor, MoveBack
  <2>3. held' = held
    BY <1>10 DEF MoveMonitor, MoveBack
  <2> QED  BY <1>5, <2>2, <2>3
<1>11. CASE MoveRest(r)
  <2>1. CASE Ends(r) /\ held' = held \ Guards(r)
    BY <1>4, <1>11, <2>1 DEF MoveRest, Ends, Asked, Holds, TypeOK
  <2>2. CASE Moves(r, "back") /\ UNCHANGED held
    BY <1>5, <1>6, <1>11, <2>2 DEF MoveRest, Moves, Holds, Guards, TypeOK, Request
  <2> QED  BY <1>11, <2>1, <2>2 DEF MoveRest
<1>12. CASE Restore(r)
  BY <1>4, <1>12 DEF Restore, Ends, Asked, Holds, TypeOK
<1>13. ASSUME NEW old \in Names, NEW new \in Names, AskRename(r, old, new) \/ AskRemove(r, old)
       PROVE  Guarded'
  BY <1>5, <1>13 DEF AskRename, AskRemove, Makes, Asked, Holds, TypeOK, loopVars
<1>14. CASE Drain(r) \/ RemoveConfig(r) \/ Forget(r)
  <2>1. held' = held
    BY <1>14 DEF Drain, RemoveConfig, Forget, loopVars
  <2>2. Holds(r) = {}
    BY <1>14 DEF Drain, RemoveConfig, Forget, Holds
  <2>3. request'[r].step \in {"remove", "forget", "done"}
    BY <1>6, <1>14 DEF Drain, RemoveConfig, Forget, Moves, Ends, Asked, TypeOK, Request
  <2> QED  BY <1>5, <2>1, <2>2, <2>3 DEF Holds
<1> QED  BY <1>7, <1>8, <1>9, <1>10, <1>11, <1>12, <1>13, <1>14 DEF Rename, Remove

LEMMA GuardedStep == TypeOK /\ Guarded /\ [Next]_vars => Guarded'
<1> SUFFICES ASSUME TypeOK, Guarded, [Next]_vars
             PROVE  Guarded'
  OBVIOUS
<1>1. ASSUME UNCHANGED <<request, held, cycles>>
      PROVE  Guarded'
  BY <1>1 DEF Guarded, Holds, Guards
<1>2. ASSUME NEW n \in Names, Claim(n) \/ Finish(n) \/ \E d \in Dbs : AddTarget(n, d)
      PROVE  Guarded'
  BY <1>1, <1>2 DEF Claim, Finish, AddTarget, loopVars
<1>3. CASE UNCHANGED vars
  BY <1>1, <1>3 DEF vars, loopVars, auxVars
<1> QED  BY <1>2, <1>3, LoopGuarded, RenameGuarded DEF Next

\* However many renames, removals and loops there are, no cycle reads a name whose rename has
\* begun to move it: both guards are held from before the first write to after the last
\* (rename_target, service.py:299).
THEOREM NoCycleMidway == Spec => []MidwayUnread
<1>1. Init => TypeOK /\ Named /\ Guarded
  <2>1. Init => Guarded
    BY DEF Init, LoopInit, Asked, Guarded, Holds
  <2> QED  BY <2>1, TypeInit DEF Init, Asked, Named
<1>2. TypeOK /\ Named /\ Guarded /\ [Next]_vars => (TypeOK /\ Named /\ Guarded)'
  BY TypeStep, NamedStep, GuardedStep
<1>3. TypeOK /\ Guarded => MidwayUnread
  BY DEF TypeOK, LoopTypeOK, Cycle, Guarded, MidwayUnread, Midway, Holds
<1> QED  BY <1>1, <1>2, <1>3, PTL DEF Spec

-----------------------------------------------------------------------------
(* Stopped loops                                                           *)

\* A cycle that was not told to stop is of the loop that is on, and so is all that was stored
\* since the latest stop.
AllTold ==
  /\ \A x \in cycles : ~x.stopped => loop = "on" /\ x.born = gen
  /\ OffIsQuiet

LEMMA AllToldStep == TypeOK /\ AllTold /\ [Next]_vars => AllTold'
<1> SUFFICES ASSUME TypeOK, AllTold, [Next]_vars
             PROVE  AllTold'
  OBVIOUS
<1>1. ASSUME UNCHANGED <<loop, cycles, gen, wrote>>
      PROVE  AllTold'
  BY <1>1 DEF AllTold, OffIsQuiet
<1>2. CASE LoopNext
  <2>1. CASE StartCycles
    BY <2>1 DEF StartCycles, AllTold, OffIsQuiet, Waiting, auxVars
  <2>2. CASE AfterOff
    <3>1. \A x \in {[c EXCEPT !.stopped = TRUE] : c \in cycles} : x.stopped
      BY DEF TypeOK, LoopTypeOK, Cycle
    <3> QED  BY <2>2, <3>1 DEF AfterOff, AllTold, OffIsQuiet
  <2>3. CASE LoopStopped
    BY <2>3 DEF LoopStopped, AllTold, OffIsQuiet, auxVars
  <2>4. ASSUME NEW x \in cycles, EnterCycle(x)
        PROVE  AllTold'
    <3>1. LET y == [x EXCEPT !.stage = "reading", !.db = config[x.name]]
          IN  y.stopped = x.stopped /\ y.born = x.born
      BY DEF TypeOK, LoopTypeOK, Cycle
    <3> QED  BY <2>4, <3>1 DEF EnterCycle, AllTold, OffIsQuiet, auxVars
  <2>5. ASSUME NEW x \in cycles, CycleReturns(x)
        PROVE  AllTold'
    <3>1. Lets(x) => loop = "on" /\ x.born = gen
      BY DEF Lets, AllTold
    <3> QED  BY <2>5, <3>1 DEF CycleReturns, AllTold, OffIsQuiet
  <2>6. ASSUME NEW n \in Names, StartServices(n)
        PROVE  AllTold'
    BY <2>6 DEF StartServices, AllTold, OffIsQuiet
  <2> QED  BY <1>1, <1>2, <2>1, <2>2, <2>3, <2>4, <2>5, <2>6
           DEF LoopNext, CycleStep, ReadTargets, TurnOn, TurnOff, auxVars
<1>3. ASSUME NEW r \in Requests, Rename(r) \/ Remove(r)
      PROVE  AllTold'
  BY <1>1, <1>3 DEF Rename, Remove, AskRename, TakeOld, TakeNew, MoveConfig, MoveMonitor, MoveRest,
       MoveBack, Restore, AskRemove, Drain, RemoveConfig, Forget, loopVars, auxVars
<1>4. ASSUME NEW n \in Names, Claim(n) \/ Finish(n) \/ \E d \in Dbs : AddTarget(n, d)
      PROVE  AllTold'
  BY <1>1, <1>4 DEF Claim, Finish, AddTarget, loopVars, auxVars
<1> QED  BY <1>1, <1>2, <1>3, <1>4 DEF Next, vars, loopVars, auxVars

\* A cycle of a loop that was told to stop stores nothing, however late it returns and whichever
\* loops were started since: it sees its own loop's guard before every statement
\* (RunGuard.check, run_guard.py:16).
THEOREM StoppedStoreNothing == Spec => []OffIsQuiet
<1>1. Init => TypeOK /\ Named /\ AllTold
  BY TypeInit DEF Init, LoopInit, Asked, Named, AllTold, OffIsQuiet
<1>2. TypeOK /\ Named /\ AllTold /\ [Next]_vars => (TypeOK /\ Named /\ AllTold)'
  BY TypeStep, NamedStep, AllToldStep
<1>3. AllTold => OffIsQuiet
  BY DEF AllTold
<1> QED  BY <1>1, <1>2, <1>3, PTL DEF Spec

-----------------------------------------------------------------------------
(* What is stored under a name                                             *)

Renaming == {"first", "second", "config", "monitor", "rest", "back", "restore"}

\* What a rename carries from one name to the other: the connection is under the new name,
\* unless it was removed there.
CarriedBy(r) ==
  /\ request[r].step \in Renaming => request[r].old # request[r].new
  /\ Midway(r) => /\ request[r].db \in Dbs
                  /\ config[request[r].new] = request[r].db \/ request[r].db \in lost

Carried == \A r \in Requests : CarriedBy(r)

\* The name that the rows of a database under a rename have.
Under(r, n, d) ==
  /\ request[r].db = d
  /\ \/ request[r].step \in {"monitor", "restore"} /\ request[r].old = n
     \/ request[r].step \in {"rest", "back"} /\ request[r].new = n

\* A database's connection is about to leave the name again.
Returns(r, n, d) == request[r].step = "restore" /\ request[r].new = n /\ request[r].db = d

\* Where a database's results may be: under its name, unless the name is given back; while it is
\* renamed, where its rows are; anywhere once it was removed or replaced, or has gone stray.
Belongs(n, d) ==
  \/ d = NoDb \/ d \in lost \cup stray
  \/ config[n] = d /\ \A r \in Requests : ~Returns(r, n, d)
  \/ \E r \in Requests : Under(r, n, d)

Placed ==
  /\ \A n \in Names : \A d \in history[n] \cup work[n] : Belongs(n, d)
  /\ \A x \in cycles : x.stage = "reading" => Belongs(x.name, x.db)

\* A request's step in its record; the others' are as they were.
LEMMA RequestMoves ==
  ASSUME TypeOK, NEW r \in Requests
  PROVE  /\ \A step : Moves(r, step) => /\ request'[r].step = step
                                        /\ request'[r].old = request[r].old
                                        /\ request'[r].new = request[r].new
                                        /\ request'[r].db = request[r].db
                                        /\ \A q \in Requests \ {r} : request'[q] = request[q]
         /\ Ends(r) => /\ request'[r].step = "done"
                       /\ \A q \in Requests \ {r} : request'[q] = request[q]
<1>1. request[r] \in Request
  BY RequestTypes
<1>2. ASSUME NEW step, Moves(r, step)
      PROVE  /\ request'[r].step = step
             /\ request'[r].old = request[r].old
             /\ request'[r].new = request[r].new
             /\ request'[r].db = request[r].db
             /\ \A q \in Requests \ {r} : request'[q] = request[q]
  <2>1. request'[r] = [request[r] EXCEPT !.step = step]
        /\ \A q \in Requests \ {r} : request'[q] = request[q]
    BY <1>2 DEF Moves, TypeOK
  <2> QED  BY <1>1, <2>1 DEF Request
<1>3. ASSUME Ends(r)
      PROVE  request'[r].step = "done" /\ \A q \in Requests \ {r} : request'[q] = request[q]
  BY <1>3 DEF Ends, Asked, TypeOK
<1> QED  BY <1>2, <1>3

\* The guards of a rename under way are its own.
LEMMA GuardsApart ==
  ASSUME TypeOK, Guarded, NEW r \in Requests, Midway(r) \/ request[r].step = "config",
         NEW q \in Requests \ {r}, Midway(q)
  PROVE  Guards(r) \cap Guards(q) = {}
<1>1. Holds(r) = Guards(r) /\ Holds(q) = Guards(q)
  BY DEF Midway, Holds
<1> QED  BY <1>1 DEF Guarded

\* Nor does a cycle read under them.
LEMMA GuardsUnread ==
  ASSUME TypeOK, Guarded, NEW r \in Requests, Midway(r) \/ request[r].step = "config"
  PROVE  Guards(r) \subseteq held /\ \A x \in cycles : x.stage = "reading" => x.name \notin Guards(r)
<1>1. Holds(r) = Guards(r)
  BY DEF Midway, Holds
<1> QED  BY <1>1 DEF Guarded

\* The steps of a request that neither change the configuration nor move a rename along.
Aside(r) ==
  /\ UNCHANGED <<config, lost, stray, cycles>>
  /\ \A q \in Requests \ {r} : request'[q] = request[q]
  /\ ~Midway(r) /\ ~Midway(r)'
  /\ \A n \in Names : work'[n] \subseteq work[n] /\ history'[n] \subseteq history[n]
  /\ request'[r].step \in Renaming => request'[r].old # request'[r].new

LEMMA AsideSteps ==
  ASSUME TypeOK, Carried, NEW r \in Requests,
         \/ \E old, new \in Names : AskRename(r, old, new)
         \/ TakeOld(r) \/ TakeNew(r) \/ (MoveConfig(r) /\ config[request[r].old] = NoDb)
         \/ \E n \in Names : AskRemove(r, n)
         \/ Drain(r) \/ Forget(r)
  PROVE  Aside(r)
<1>1. ASSUME NEW old \in Names, NEW new \in Names, AskRename(r, old, new)
      PROVE  Aside(r)
  <2>1. /\ request'[r] = Asked("first", old, new) /\ old # new
        /\ \A q \in Requests \ {r} : request'[q] = request[q]
    BY <1>1 DEF AskRename, TypeOK
  <2>2. request[r].step = "new"
    BY <1>1 DEF AskRename, Makes
  <2> QED  BY <1>1, <2>1, <2>2 DEF AskRename, Aside, Midway, Asked, loopVars
<1>2. ASSUME NEW n \in Names, AskRemove(r, n)
      PROVE  Aside(r)
  <2>1. /\ request'[r] = Asked("drain", n, n)
        /\ \A q \in Requests \ {r} : request'[q] = request[q]
    BY <1>2 DEF AskRemove, TypeOK
  <2>2. request[r].step = "new"
    BY <1>2 DEF AskRemove, Makes
  <2> QED  BY <1>2, <2>1, <2>2 DEF AskRemove, Aside, Midway, Asked, Renaming, TypeOK, LoopTypeOK
<1>3. CASE TakeOld(r) \/ TakeNew(r)
  BY <1>3, RequestMoves DEF TakeOld, TakeNew, Aside, Midway, Carried, CarriedBy, Renaming
<1>4. CASE MoveConfig(r) /\ config[request[r].old] = NoDb
  BY <1>4, RequestMoves DEF MoveConfig, Aside, Midway, Renaming
<1>5. CASE Drain(r)
  BY <1>5, RequestMoves DEF Drain, Aside, Midway, Renaming, loopVars
<1>6. CASE Forget(r)
  BY <1>6, RequestMoves DEF Forget, Aside, Midway, Renaming, TypeOK, LoopTypeOK
<1> QED  BY <1>1, <1>2, <1>3, <1>4, <1>5, <1>6

\* What a step leaves of a rename that it is not a step of.
LEMMA CarriedKept ==
  ASSUME NEW q \in Requests, CarriedBy(q), request'[q] = request[q], lost \subseteq lost',
         Midway(q) => LET n == request[q].new
                      IN  config'[n] = config[n] \/ config[n] \in lost' \cup {NoDb}
  PROVE  CarriedBy(q)'
<1>1. Midway(q)' <=> Midway(q)
  BY DEF Midway
<1>2. Midway(q) => config'[request[q].new] = request[q].db \/ request[q].db \in lost'
  BY NoDbAssumption DEF CarriedBy
<1> QED  BY <1>1, <1>2 DEF CarriedBy

\* A rename that changes something does so under its own names.
LEMMA CarriedElsewhere ==
  ASSUME TypeOK, Named, Guarded, Carried, NEW r \in Requests, Midway(r) \/ request[r].step = "config",
         \A q \in Requests \ {r} : request'[q] = request[q], lost \subseteq lost',
         \A n \in Names \ Guards(r) : config'[n] = config[n]
  PROVE  \A q \in Requests \ {r} : CarriedBy(q)'
<1> SUFFICES ASSUME NEW q \in Requests \ {r}
             PROVE  CarriedBy(q)'
  OBVIOUS
<1>1. CarriedBy(q)
  BY DEF Carried
<1>2. ASSUME Midway(q)
      PROVE  config'[request[q].new] = config[request[q].new]
  <2>1. Guards(r) \cap Guards(q) = {}
    BY <1>2, GuardsApart
  <2>2. request[q].new \in Names /\ request[q].new \in Guards(q)
    BY <1>2 DEF Named, Midway, Guards
  <2> QED  BY <2>1, <2>2
<1> QED  BY <1>1, <1>2, CarriedKept

\* The connection moves ...
LEMMA ConfigMoves ==
  ASSUME TypeOK, Named, Carried, NEW r \in Requests, MoveConfig(r), config[request[r].old] # NoDb
  PROVE  /\ request'[r].step = "monitor" /\ request'[r].db = config[request[r].old]
         /\ request'[r].old = request[r].old /\ request'[r].new = request[r].new
         /\ \A q \in Requests \ {r} : request'[q] = request[q]
         /\ config'[request[r].old] = NoDb /\ config'[request[r].new] = config[request[r].old]
         /\ \A n \in Names \ Guards(r) : config'[n] = config[n]
         /\ lost \subseteq lost' /\ (config[request[r].new] = NoDb \/ config[request[r].new] \in lost')
         /\ request[r].old \in Names /\ request[r].new \in Names /\ request[r].old # request[r].new
         /\ config[request[r].old] \in Dbs
<1>1. request[r] \in Request /\ config \in [Names -> Dbs \cup {NoDb}]
  BY RequestTypes DEF TypeOK, LoopTypeOK
<1>2. request[r].step = "config"
  BY DEF MoveConfig
<1>3. request[r].old \in Names /\ request[r].new \in Names /\ request[r].old # request[r].new
  BY <1>2 DEF Named, Carried, CarriedBy, Renaming
<1>4. /\ request'[r] = [request[r] EXCEPT !.step = "monitor", !.db = config[request[r].old]]
      /\ \A q \in Requests \ {r} : request'[q] = request[q]
  BY DEF MoveConfig, TypeOK
<1>5. /\ request'[r].step = "monitor" /\ request'[r].db = config[request[r].old]
      /\ request'[r].old = request[r].old /\ request'[r].new = request[r].new
  BY <1>1, <1>4 DEF Request
<1>6. /\ config'[request[r].old] = NoDb /\ config'[request[r].new] = config[request[r].old]
      /\ \A n \in Names \ Guards(r) : config'[n] = config[n]
  BY <1>1, <1>3 DEF MoveConfig, Guards
<1>7. lost \subseteq lost' /\ (config[request[r].new] = NoDb \/ config[request[r].new] \in lost')
  BY DEF MoveConfig
<1> QED  BY <1>1, <1>3, <1>4, <1>5, <1>6, <1>7

\* ... the rows move, or are moved back ...
LEMMA RowsMove ==
  ASSUME TypeOK, NEW from \in Names, NEW to \in Names, from # to, MoveRows(from, to)
  PROVE  /\ history'[to] = history[from] /\ history'[from] = {}
         /\ enabled'[to] = enabled[from] /\ enabled'[from] = "off"
         /\ work'[to] = {} /\ work'[from] = work[from]
         /\ \A n \in Names \ {from, to} :
              history'[n] = history[n] /\ enabled'[n] = enabled[n] /\ work'[n] = work[n]
  BY DEF MoveRows, Renamed, TypeOK, LoopTypeOK

\* ... and a connection that is taken back is where it was, over what either name had.
LEMMA ConfigRestored ==
  ASSUME TypeOK, Named, Carried, NEW r \in Requests, Restore(r)
  PROVE  /\ request'[r].step = "done"
         /\ \A q \in Requests \ {r} : request'[q] = request[q]
         /\ config'[request[r].old] = request[r].db /\ config'[request[r].new] = NoDb
         /\ \A n \in Names \ Guards(r) : config'[n] = config[n]
         /\ lost \subseteq lost' /\ \A n \in Guards(r) : config[n] \in lost' \cup {NoDb, request[r].db}
         /\ request[r].old \in Names /\ request[r].new \in Names /\ request[r].old # request[r].new
<1>1. request[r].old \in Names /\ request[r].new \in Names /\ request[r].old # request[r].new
  BY DEF Restore, Named, Carried, CarriedBy, Renaming
<1>2. /\ config'[request[r].old] = request[r].db /\ config'[request[r].new] = NoDb
      /\ \A n \in Names \ Guards(r) : config'[n] = config[n]
  BY <1>1 DEF Restore, Guards, TypeOK, LoopTypeOK
<1>3. lost \subseteq lost' /\ \A n \in Guards(r) : config[n] \in lost' \cup {NoDb, request[r].db}
  BY DEF Restore, Guards
<1> QED  BY <1>1, <1>2, <1>3, RequestMoves DEF Restore

\* What a rename carries, it carries until it is done, beside every other.
LEMMA RenameCarried ==
  ASSUME TypeOK, Named, Guarded, Carried, NEW r \in Requests,
         \/ MoveConfig(r) /\ config[request[r].old] # NoDb
         \/ MoveMonitor(r) \/ MoveRest(r) \/ MoveBack(r) \/ Restore(r)
  PROVE  Carried'
<1>1. CarriedBy(r)
  BY DEF Carried
<1>2. ASSUME CarriedBy(r)', Midway(r) \/ request[r].step = "config",
             \A q \in Requests \ {r} : request'[q] = request[q], lost \subseteq lost',
             \A n \in Names \ Guards(r) : config'[n] = config[n]
      PROVE  Carried'
  BY <1>2, CarriedElsewhere DEF Carried
<1>3. CASE MoveConfig(r) /\ config[request[r].old] # NoDb
  <2>1. CarriedBy(r)'
    BY <1>3, ConfigMoves DEF CarriedBy
  <2>2. request[r].step = "config"
    BY <1>3 DEF MoveConfig
  <2> QED  BY <1>2, <1>3, <2>1, <2>2, ConfigMoves
<1>4. ASSUME NEW step \in {"rest", "back", "restore"}, Moves(r, step), Midway(r), UNCHANGED <<config, lost>>
      PROVE  Carried'
  <2>1. CarriedBy(r)'
    BY <1>1, <1>4, RequestMoves DEF CarriedBy, Midway, Renaming
  <2> QED  BY <1>2, <1>4, <2>1, RequestMoves
<1>5. ASSUME request'[r].step = "done"
      PROVE  CarriedBy(r)'
  BY <1>5 DEF CarriedBy, Midway, Renaming
<1>6. CASE MoveMonitor(r) \/ MoveBack(r)
  BY <1>4, <1>6 DEF MoveMonitor, MoveBack, Midway
<1>7. CASE MoveRest(r)
  <2>1. Midway(r) /\ UNCHANGED <<config, lost>>
    BY <1>7 DEF MoveRest, Midway
  <2>2. CASE Ends(r)
    BY <1>2, <1>5, <2>1, <2>2, RequestMoves
  <2>3. CASE Moves(r, "back")
    BY <1>4, <2>1, <2>3
  <2> QED  BY <1>7, <2>2, <2>3 DEF MoveRest
<1>8. CASE Restore(r)
  <2>1. Midway(r)
    BY <1>8 DEF Restore, Midway
  <2> QED  BY <1>2, <1>5, <1>8, <2>1, ConfigRestored
<1> QED  BY <1>3, <1>6, <1>7, <1>8

\* A removal takes what is under a name for lost.
LEMMA RemovalSteps ==
  ASSUME TypeOK, Named, NEW r \in Requests, RemoveConfig(r)
  PROVE  /\ \A q \in Requests \ {r} : request'[q] = request[q]
         /\ ~Midway(r) /\ ~Midway(r)' /\ request'[r].step = "forget"
         /\ \A n \in Names : config'[n] = config[n] \/ config[n] \in lost'
         /\ lost \subseteq lost' /\ lost' # {}
         /\ UNCHANGED <<enabled, history, pass, cycles, held, work, stray>>
<1>1. request[r].old \in Names
  BY DEF RemoveConfig, Named
<1>2. \A n \in Names : config'[n] = config[n] \/ config[n] \in lost'
  BY <1>1 DEF RemoveConfig, TypeOK, LoopTypeOK
<1> QED  BY <1>2, RequestMoves DEF RemoveConfig, Midway

LEMMA CarriedStep == TypeOK /\ Named /\ Guarded /\ Carried /\ [Next]_vars => Carried'
<1> SUFFICES ASSUME TypeOK, Named, Guarded, Carried, [Next]_vars
             PROVE  Carried'
  OBVIOUS
<1>1. \A q \in Requests : CarriedBy(q) /\ (Midway(q) => request[q].new \in Names)
  BY DEF Carried, Named, Midway
<1>2. ASSUME UNCHANGED <<request, lost, config>>
      PROVE  Carried'
  BY <1>1, <1>2, CarriedKept DEF Carried
<1>3. ASSUME NEW r \in Requests, Aside(r)
      PROVE  Carried'
  <2>1. CarriedBy(r)'
    BY <1>3 DEF Aside, CarriedBy, Midway
  <2>2. ASSUME NEW q \in Requests \ {r}
        PROVE  CarriedBy(q)'
    BY <1>1, <1>3, CarriedKept DEF Aside
  <2> QED  BY <2>1, <2>2 DEF Carried
<1>4. ASSUME NEW r \in Requests, RemoveConfig(r)
      PROVE  Carried'
  <2>1. CarriedBy(r)'
    BY <1>4, RemovalSteps DEF CarriedBy, Midway, Renaming
  <2>2. ASSUME NEW q \in Requests \ {r}
        PROVE  CarriedBy(q)'
    BY <1>1, <1>4, RemovalSteps, CarriedKept
  <2> QED  BY <2>1, <2>2 DEF Carried
<1>5. ASSUME NEW r \in Requests, Rename(r) \/ Remove(r)
      PROVE  Carried'
  BY <1>3, <1>4, <1>5, AsideSteps, RenameCarried DEF Rename, Remove
<1>6. ASSUME NEW n \in Names, NEW d \in Dbs, AddTarget(n, d)
      PROVE  Carried'
  <2>1. \A m \in Names : config'[m] = config[m] \/ config[m] = NoDb
    BY <1>6 DEF AddTarget, TypeOK, LoopTypeOK
  <2>2. UNCHANGED <<request, lost>>
    BY <1>6 DEF AddTarget
  <2> QED  BY <1>1, <2>1, <2>2, CarriedKept DEF Carried
<1>7. ASSUME NEW n \in Names, Claim(n) \/ Finish(n)
      PROVE  Carried'
  BY <1>2, <1>7 DEF Claim, Finish, loopVars
<1>8. CASE LoopNext /\ UNCHANGED <<request, work, lost, stray>>
  <2>1. config' = config
    BY <1>8 DEF LoopNext, ReadTargets, StartCycles, AfterOff, LoopStopped, CycleStep, EnterCycle,
         CycleReturns, TurnOn, StartServices, TurnOff
  <2> QED  BY <1>2, <1>8, <2>1
<1>9. CASE UNCHANGED vars
  BY <1>2, <1>9 DEF vars, loopVars, auxVars
<1> QED  BY <1>5, <1>6, <1>7, <1>8, <1>9 DEF Next

\* Under a name a rename holds, only its own rows belong, and the first ones of a database that
\* got the name meanwhile.
LEMMA BelongsHeld ==
  ASSUME TypeOK, Guarded, NEW r \in Requests, Midway(r) \/ request[r].step = "config",
         NEW n \in Guards(r), NEW d, Belongs(n, d)
  PROVE  \/ d = NoDb \/ d \in lost \cup stray
         \/ config[n] = d /\ ~Returns(r, n, d)
         \/ Under(r, n, d)
<1>1. ASSUME NEW q \in Requests \ {r}
      PROVE  ~Under(q, n, d)
  <2>1. Midway(q) => n \notin Guards(q)
    BY GuardsApart
  <2> QED  BY <2>1 DEF Under, Midway, Guards
<1> QED  BY <1>1 DEF Belongs

\* What has a name that a rename holds belongs there, unless that rename gives the name back.
LEMMA BelongsNamed ==
  ASSUME TypeOK, Guarded, NEW r \in Requests, Midway(r) \/ request[r].step = "config",
         \A q \in Requests \ {r} : request'[q] = request[q],
         NEW n \in Guards(r), NEW d, config'[n] = d, ~Returns(r, n, d)'
  PROVE  Belongs(n, d)'
<1>1. ASSUME NEW q \in Requests \ {r}
      PROVE  ~Returns(q, n, d)'
  <2>1. Midway(q) => n \notin Guards(q)
    BY GuardsApart
  <2> QED  BY <2>1 DEF Returns, Midway, Guards
<1> QED  BY <1>1 DEF Belongs

\* A step of a request changes nothing of where results belong, but under its own names.
LEMMA BelongsElsewhere ==
  ASSUME NEW r \in Requests, \A q \in Requests \ {r} : request'[q] = request[q],
         lost \subseteq lost', stray \subseteq stray',
         NEW n, Midway(r) => n \notin Guards(r), Midway(r)' => n \notin Guards(r)',
         NEW d, Belongs(n, d), config'[n] = config[n] \/ config[n] \in lost'
  PROVE  Belongs(n, d)'
<1>1. ASSUME NEW q \in Requests, Under(q, n, d)
      PROVE  Under(q, n, d)'
  <2>1. q # r
    BY <1>1 DEF Under, Midway, Guards
  <2> QED  BY <1>1, <2>1 DEF Under
<1>2. ASSUME NEW q \in Requests, ~Returns(q, n, d)
      PROVE  ~Returns(q, n, d)'
  <2>1. CASE q = r
    BY <2>1 DEF Returns, Midway, Guards
  <2>2. CASE q # r
    BY <1>2, <2>2 DEF Returns
  <2> QED  BY <2>1, <2>2
<1> QED  BY <1>1, <1>2 DEF Belongs

\* A removal, and what a request does before and after a rename, moves nothing.
LEMMA BelongsAside ==
  ASSUME TypeOK, Named, NEW r \in Requests, Aside(r) \/ RemoveConfig(r),
         NEW n \in Names, NEW d, Belongs(n, d)
  PROVE  Belongs(n, d)'
<1>1. CASE Aside(r)
  BY <1>1, BelongsElsewhere DEF Aside
<1>2. CASE RemoveConfig(r)
  BY <1>2, BelongsElsewhere, RemovalSteps
<1> QED  BY <1>1, <1>2

\* When the connection moves, what belongs under the old name still does.
LEMMA BelongsConfig ==
  ASSUME TypeOK, Named, Guarded, Carried, NEW r \in Requests,
         MoveConfig(r) /\ config[request[r].old] # NoDb,
         NEW n \in Names, NEW d, Belongs(n, d)
  PROVE  Belongs(n, d)'
<1>1. request[r].step = "config" /\ ~Midway(r) /\ stray' = stray
  BY DEF MoveConfig, Midway
<1>2. Guards(r)' = Guards(r)
  BY ConfigMoves DEF Guards
<1>3. CASE n \notin Guards(r)
  BY <1>1, <1>2, <1>3, BelongsElsewhere, ConfigMoves
<1>4. CASE n \in Guards(r)
  <2>1. d = NoDb \/ d \in lost \cup stray \/ config[n] = d
    BY <1>1, <1>4, BelongsHeld DEF Under
  <2>2. CASE n = request[r].old /\ config[n] = d
    <3>1. Under(r, n, d)'
      BY <2>2, ConfigMoves DEF Under
    <3> QED  BY <3>1 DEF Belongs
  <2>3. CASE n = request[r].new /\ config[n] = d
    BY <2>3, ConfigMoves DEF Belongs
  <2>4. lost \subseteq lost'
    BY ConfigMoves
  <2> QED  BY <1>1, <1>4, <2>1, <2>2, <2>3, <2>4 DEF Belongs, Guards
<1> QED  BY <1>3, <1>4

\* Rows stay when a move of them fails, and what a roll-back has to leave behind goes stray ...
RowsStay(r) ==
  /\ request[r].step \in {"monitor", "back"} /\ Moves(r, "restore")
  /\ UNCHANGED <<config, lost, cycles, history, enabled, work>>
  /\ stray' = stray \cup IF request[r].step = "back" THEN {request[r].db}
                         ELSE {request[r].db} \cap (history[request[r].new] \cup work[request[r].new])

\* ... or are moved from one name to the other.
RowsGo(r, from, to) ==
  /\ \/ request[r].step = "monitor" /\ Moves(r, "rest") /\ from = request[r].old /\ to = request[r].new
     \/ request[r].step = "back" /\ Moves(r, "restore") /\ from = request[r].new /\ to = request[r].old
  /\ UNCHANGED <<config, lost, cycles>>
  /\ work[from] = {} /\ MoveRows(from, to)
  /\ stray' = stray \cup Carries(from, request[r].db)

LEMMA RowsStayOrGo ==
  ASSUME NEW r \in Requests, MoveMonitor(r) \/ MoveBack(r)
  PROVE  \/ RowsStay(r)
         \/ RowsGo(r, request[r].old, request[r].new) \/ RowsGo(r, request[r].new, request[r].old)
BY DEF MoveMonitor, MoveBack, Refuses, RowsStay, RowsGo

\* The rename is between its writes, before and after.
LEMMA RowsSteps ==
  ASSUME TypeOK, Named, Carried, NEW r \in Requests,
         RowsStay(r) \/ \E from, to \in Names : RowsGo(r, from, to)
  PROVE  /\ Midway(r) /\ Guards(r)' = Guards(r) /\ UNCHANGED <<config, lost, cycles>>
         /\ stray \subseteq stray' /\ \A q \in Requests \ {r} : request'[q] = request[q]
         /\ request'[r].old = request[r].old /\ request'[r].new = request[r].new
         /\ request'[r].db = request[r].db
         /\ request[r].old \in Names /\ request[r].new \in Names /\ request[r].old # request[r].new
<1>1. Midway(r) /\ UNCHANGED <<config, lost, cycles>> /\ stray \subseteq stray'
  BY DEF RowsStay, RowsGo, Midway
<1>2. /\ \A q \in Requests \ {r} : request'[q] = request[q]
      /\ request'[r].old = request[r].old /\ request'[r].new = request[r].new
      /\ request'[r].db = request[r].db
  BY RequestMoves DEF RowsStay, RowsGo
<1>3. request[r].old \in Names /\ request[r].new \in Names /\ request[r].old # request[r].new
  BY <1>1 DEF Named, Carried, CarriedBy, Renaming, Midway
<1> QED  BY <1>1, <1>2, <1>3 DEF Guards

\* Rows of a database whose move fails belong where they stay, or are taken for stray.
LEMMA BelongsStay ==
  ASSUME TypeOK, Named, Guarded, Carried, NEW r \in Requests, RowsStay(r),
         NEW n \in Names, NEW d, Belongs(n, d), n \in Guards(r) => d \in history[n] \cup work[n]
  PROVE  Belongs(n, d)'
<1>1. CASE n \notin Guards(r)
  BY <1>1, RowsSteps, BelongsElsewhere
<1>2. CASE n \in Guards(r) /\ Under(r, n, d)
  <2>1. CASE request[r].step = "monitor"
    <3>1. Under(r, n, d)'
      BY <1>2, <2>1, RequestMoves DEF Under, RowsStay
    <3> QED  BY <3>1 DEF Belongs
  <2>2. CASE request[r].step = "back"
    BY <1>2, <2>2 DEF Under, RowsStay, Belongs
  <2> QED  BY <2>1, <2>2 DEF RowsStay
<1>3. CASE n \in Guards(r) /\ config[n] = d
  <2>1. CASE n = request[r].new /\ d = request[r].db
    <3>1. d \in stray'
      BY <1>3, <2>1 DEF RowsStay
    <3> QED  BY <3>1 DEF Belongs
  <2>2. CASE ~(n = request[r].new /\ d = request[r].db)
    <3>1. ~Returns(r, n, d)'
      BY <2>2, RowsSteps DEF Returns
    <3> QED  BY <1>3, <3>1, RowsSteps, BelongsNamed
  <2> QED  BY <2>1, <2>2
<1>4. CASE d = NoDb \/ d \in lost \cup stray
  BY <1>4, RowsSteps DEF Belongs
<1> QED  BY <1>1, <1>2, <1>3, <1>4, RowsSteps, BelongsHeld

\* When rows move, what belongs under the one name belongs under the other.
LEMMA BelongsGo ==
  ASSUME TypeOK, Named, Guarded, Carried, NEW r \in Requests,
         NEW from \in Names, NEW to \in Names, RowsGo(r, from, to)
  PROVE  /\ \A d \in history[from] : Belongs(from, d) => Belongs(to, d)'
         /\ \A n \in Names \ {from, to} : \A d : Belongs(n, d) => Belongs(n, d)'
         /\ from # to /\ Guards(r) = {from, to}
<1>1. from # to /\ Guards(r) = {from, to}
  BY RowsSteps DEF RowsGo, Guards
<1>2. ASSUME NEW n \in Names \ Guards(r), NEW d, Belongs(n, d)
      PROVE  Belongs(n, d)'
  BY <1>2, RowsSteps, BelongsElsewhere
<1>3. ASSUME NEW d \in history[from], Belongs(from, d)
      PROVE  Belongs(to, d)'
  <2>1. d = NoDb \/ d \in lost \cup stray \/ config[from] = d \/ Under(r, from, d)
    BY <1>1, <1>3, RowsSteps, BelongsHeld
  <2>2. CASE d = request[r].db
    <3>1. Under(r, to, d)'
      BY <2>2, RequestMoves DEF Under, RowsGo
    <3> QED  BY <3>1 DEF Belongs
  <2>3. CASE d # request[r].db /\ d # NoDb /\ config[from] = d
    <3>1. d \in stray'
      BY <1>3, <2>3 DEF RowsGo, Carries
    <3> QED  BY <3>1 DEF Belongs
  <2>4. CASE d = NoDb \/ d \in lost \cup stray
    BY <2>4, RowsSteps DEF Belongs
  <2> QED  BY <2>1, <2>2, <2>3, <2>4 DEF Under
<1> QED  BY <1>1, <1>2, <1>3

\* A rename that ends leaves its rows under the connection's name.
LEMMA BelongsEnds ==
  ASSUME TypeOK, Named, Guarded, Carried, NEW r \in Requests, MoveRest(r) \/ Restore(r),
         NEW n \in Names, NEW d, Belongs(n, d)
  PROVE  Belongs(n, d)'
<1>1. Midway(r) /\ CarriedBy(r) /\ stray' = stray
  BY DEF MoveRest, Restore, Midway, Carried
<1>2. /\ \A q \in Requests \ {r} : request'[q] = request[q]
      /\ n \notin Guards(r) => config'[n] = config[n]
      /\ lost \subseteq lost'
  BY RequestMoves, ConfigRestored DEF MoveRest, Restore
<1>3. CASE n \notin Guards(r)
  <2>1. Midway(r)' => n \notin Guards(r)'
    BY <1>3, RequestMoves DEF MoveRest, Restore, Midway, Guards
  <2> QED  BY <1>1, <1>2, <1>3, <2>1, BelongsElsewhere
<1>4. CASE d = NoDb \/ d \in lost \cup stray
  BY <1>1, <1>2, <1>4 DEF Belongs
<1>5. CASE n \in Guards(r) /\ MoveRest(r)
  <2>1. UNCHANGED config /\ request[r].step = "rest" /\ request'[r].step \in {"back", "done"}
    BY <1>5, RequestMoves DEF MoveRest
  <2>2. CASE config[n] = d
    <3>1. ~Returns(r, n, d)'
      BY <2>1 DEF Returns
    <3> QED  BY <1>1, <1>2, <1>5, <2>1, <2>2, <3>1, BelongsNamed
  <2>3. CASE Under(r, n, d) /\ Moves(r, "back")
    <3>1. Under(r, n, d)'
      BY <2>1, <2>3, RequestMoves DEF Under
    <3> QED  BY <3>1 DEF Belongs
  <2>4. CASE Under(r, n, d) /\ ~(d \in lost)
    <3>1. config[n] = d
      BY <1>1, <2>1, <2>4 DEF Under, CarriedBy
    <3> QED  BY <2>2, <3>1
  <2> QED  BY <1>1, <1>4, <1>5, <2>2, <2>3, <2>4, BelongsHeld
<1>6. CASE n \in Guards(r) /\ Restore(r)
  <2>1. CASE n = request[r].old /\ d = request[r].db
    <3>1. ~Returns(r, n, d)' /\ config'[n] = d
      BY <1>6, <2>1, ConfigRestored DEF Returns
    <3> QED  BY <1>1, <1>2, <1>6, <3>1, BelongsNamed
  <2>2. CASE config[n] = d /\ d # request[r].db
    BY <1>4, <1>6, <2>2, ConfigRestored DEF Belongs
  <2>3. Returns(r, request[r].new, request[r].db)
    BY <1>6 DEF Restore, Returns
  <2>4. CASE Under(r, n, d)
    BY <1>6, <2>1, <2>4 DEF Restore, Under
  <2> QED  BY <1>1, <1>4, <1>6, <2>1, <2>2, <2>3, <2>4, BelongsHeld DEF Guards
<1> QED  BY <1>3, <1>5, <1>6 DEF MoveRest, Restore

\* A step after which everything belongs where it did, and which stores nothing.
LEMMA PlacedKept ==
  ASSUME Placed, TypeOK, UNCHANGED cycles,
         \A n \in Names : \A d : Belongs(n, d) => Belongs(n, d)',
         \A n \in Names : work'[n] \subseteq work[n] /\ history'[n] \subseteq history[n]
  PROVE  Placed'
<1>1. \A x \in cycles : x.name \in Names
  BY DEF TypeOK, LoopTypeOK, Cycle
<1> QED  BY <1>1 DEF Placed

\* Cycles do not read under the names of a rename between its writes.
LEMMA RowsPlaced ==
  ASSUME TypeOK, Named, Guarded, Carried, Placed, NEW r \in Requests, MoveMonitor(r) \/ MoveBack(r)
  PROVE  Placed'
<1>1. Midway(r) /\ UNCHANGED cycles
  BY DEF MoveMonitor, MoveBack, Midway
<1>2. ASSUME NEW x \in cycles, x.stage = "reading"
      PROVE  x.name \in Names \ Guards(r) /\ Belongs(x.name, x.db)
  BY <1>1, <1>2, GuardsUnread DEF Placed, TypeOK, LoopTypeOK, Cycle
<1>3. CASE RowsStay(r)
  <2>1. UNCHANGED <<history, work>>
    BY <1>3 DEF RowsStay
  <2>2. \A n \in Names : \A d \in history'[n] \cup work'[n] : Belongs(n, d)'
    BY <1>3, <2>1, BelongsStay DEF Placed
  <2>3. \A x \in cycles : x.stage = "reading" => Belongs(x.name, x.db)'
    BY <1>2, <1>3, BelongsStay
  <2> QED  BY <1>1, <2>2, <2>3 DEF Placed
<1>4. ASSUME NEW from \in Names, NEW to \in Names, RowsGo(r, from, to)
      PROVE  Placed'
  <2>1. /\ \A d \in history[from] : Belongs(from, d) => Belongs(to, d)'
        /\ \A n \in Names \ {from, to} : \A d : Belongs(n, d) => Belongs(n, d)'
        /\ from # to /\ Guards(r) = {from, to}
    BY <1>4, BelongsGo
  <2>2. /\ history'[to] = history[from] /\ history'[from] = {} /\ work'[to] = {} /\ work'[from] = {}
        /\ \A n \in Names \ {from, to} : history'[n] = history[n] /\ work'[n] = work[n]
    BY <1>4, <2>1, RowsMove DEF RowsGo
  <2>3. \A n \in Names : \A d \in history'[n] \cup work'[n] : Belongs(n, d)'
    BY <2>1, <2>2 DEF Placed
  <2>4. \A x \in cycles : x.stage = "reading" => Belongs(x.name, x.db)'
    BY <1>2, <2>1
  <2> QED  BY <1>1, <2>3, <2>4 DEF Placed
<1>5. request[r].old \in Names /\ request[r].new \in Names
  BY <1>1 DEF Named, Midway
<1> QED  BY <1>3, <1>4, <1>5, RowsStayOrGo

LEMMA RequestPlaced ==
  ASSUME TypeOK, Named, Guarded, Carried, Placed, NEW r \in Requests, Rename(r) \/ Remove(r)
  PROVE  Placed'
<1>1. ASSUME Aside(r) \/ RemoveConfig(r)
      PROVE  Placed'
  <2>1. \A n \in Names : \A d : Belongs(n, d) => Belongs(n, d)'
    BY <1>1, BelongsAside
  <2>2. UNCHANGED cycles /\ \A n \in Names : work'[n] \subseteq work[n] /\ history'[n] \subseteq history[n]
    BY <1>1, RemovalSteps DEF Aside
  <2> QED  BY <2>1, <2>2, PlacedKept
<1>2. ASSUME MoveConfig(r), config[request[r].old] # NoDb
      PROVE  Placed'
  <2>1. \A n \in Names : \A d : Belongs(n, d) => Belongs(n, d)'
    BY <1>2, BelongsConfig
  <2> QED  BY <1>2, <2>1, PlacedKept DEF MoveConfig
<1>3. ASSUME MoveRest(r) \/ Restore(r)
      PROVE  Placed'
  <2>1. \A n \in Names : \A d : Belongs(n, d) => Belongs(n, d)'
    BY <1>3, BelongsEnds
  <2>2. UNCHANGED <<cycles, work, history>>
    BY <1>3 DEF MoveRest, Restore
  <2> QED  BY <2>1, <2>2, PlacedKept
<1> QED  BY <1>1, <1>2, <1>3, RowsPlaced, AsideSteps DEF Rename, Remove

\* A name no rename holds is not between two of its writes.
LEMMA FreeNotRenamed ==
  ASSUME Guarded, NEW n, n \notin held
  PROVE  ~BeingRenamed(n)
<1> SUFFICES ASSUME NEW r \in Requests, Midway(r), n \in Guards(r)
             PROVE  FALSE
  BY DEF BeingRenamed
<1>1. Holds(r) = Guards(r)
  BY DEF Midway, Holds
<1> QED  BY <1>1 DEF Guarded

\* A cycle connects to the database its name has, and stores what it read under that name.
LEMMA LoopPlaced ==
  ASSUME TypeOK, Guarded, Placed, LoopNext, UNCHANGED <<request, work, lost, stray>>
  PROVE  Placed'
<1>1. config' = config
  BY DEF LoopNext, ReadTargets, StartCycles, AfterOff, LoopStopped, CycleStep, EnterCycle,
         CycleReturns, TurnOn, StartServices, TurnOff
<1>2. \A n, d : Belongs(n, d)' <=> Belongs(n, d)
  BY <1>1 DEF Belongs, Returns, Under
<1>3. ASSUME NEW x \in cycles, EnterCycle(x)
      PROVE  Placed'
  <2>1. x \in Cycle /\ ~BeingRenamed(x.name)
    BY <1>3, FreeNotRenamed DEF EnterCycle, Free, TypeOK, LoopTypeOK
  <2>2. ASSUME NEW y \in cycles', y.stage = "reading"
        PROVE  Belongs(y.name, y.db)
    <3>1. CASE y \in cycles
      BY <2>2, <3>1 DEF Placed
    <3>2. CASE y \notin cycles
      <4>1. y = [x EXCEPT !.stage = "reading", !.db = config[x.name]]
        BY <1>3, <3>2 DEF EnterCycle
      <4>2. y.name = x.name /\ y.db = config[x.name]
        BY <2>1, <4>1 DEF Cycle
      <4>3. \A r \in Requests : ~Returns(r, x.name, config[x.name])
        BY <2>1 DEF BeingRenamed, Returns, Midway, Guards
      <4> QED  BY <4>2, <4>3 DEF Belongs
    <3> QED  BY <3>1, <3>2
  <2>3. history' = history
    BY <1>3 DEF EnterCycle
  <2> QED  BY <1>2, <2>2, <2>3 DEF Placed
<1>4. ASSUME NEW x \in cycles, CycleReturns(x)
      PROVE  Placed'
  <2>1. x.name \in Names /\ Belongs(x.name, x.db)
    BY <1>4 DEF CycleReturns, Placed, TypeOK, LoopTypeOK, Cycle
  <2>2. ASSUME NEW n \in Names, NEW d \in history'[n]
        PROVE  d \in history[n] \/ (n = x.name /\ d = x.db)
    BY <1>4, <2>1 DEF CycleReturns, TypeOK, LoopTypeOK
  <2>3. cycles' \subseteq cycles
    BY <1>4 DEF CycleReturns
  <2> QED  BY <1>2, <2>1, <2>2, <2>3 DEF Placed
<1>5. ASSUME history' = history,
             \A y \in cycles' : y.stage = "reading" =>
               \E x \in cycles : x.stage = "reading" /\ x.name = y.name /\ x.db = y.db
      PROVE  Placed'
  BY <1>2, <1>5 DEF Placed
<1>6. CASE StartCycles
  <2>1. \A n : Waiting(n).stage # "reading"
    BY DEF Waiting
  <2> QED  BY <1>5, <1>6, <2>1 DEF StartCycles
<1>7. CASE AfterOff
  BY <1>5, <1>7 DEF AfterOff, TypeOK, LoopTypeOK, Cycle
<1>8. CASE UNCHANGED <<cycles, history>>
  BY <1>5, <1>8
<1> QED  BY <1>3, <1>4, <1>6, <1>7, <1>8
         DEF LoopNext, CycleStep, ReadTargets, LoopStopped, TurnOn, StartServices, TurnOff

\* A run is of the database its name has, or goes stray when the name is given back.
LEMMA ClaimPlaced ==
  ASSUME TypeOK, Placed, NEW n \in Names, Claim(n)
  PROVE  Placed'
<1>1. UNCHANGED <<config, request, lost, history, cycles>> /\ stray \subseteq stray'
  BY DEF Claim, loopVars
<1>2. \A m, d : Belongs(m, d) => Belongs(m, d)'
  BY <1>1 DEF Belongs, Returns, Under
<1>3. Belongs(n, config[n])'
  <2>1. CASE Restoring(n)
    BY <1>1, <2>1 DEF Claim, Belongs
  <2>2. CASE ~Restoring(n)
    BY <1>1, <2>2 DEF Restoring, Returns, Belongs
  <2> QED  BY <2>1, <2>2
<1>4. work'[n] = {config[n]} /\ \A m \in Names \ {n} : work'[m] = work[m]
  BY DEF Claim, TypeOK
<1> QED  BY <1>1, <1>2, <1>3, <1>4 DEF Placed

\* When it ends, what it found is stored under the name its rows have by then.
LEMMA FinishPlaced ==
  ASSUME TypeOK, Placed, NEW n \in Names, Finish(n)
  PROVE  Placed'
<1>1. UNCHANGED <<config, request, lost, stray, cycles>>
  BY DEF Finish
<1>2. \A m, d : Belongs(m, d)' <=> Belongs(m, d)
  BY <1>1 DEF Belongs, Returns, Under
<1>3. \A m \in Names : history'[m] \cup work'[m] \subseteq history[m] \cup work[m]
  BY DEF Finish, TypeOK, LoopTypeOK
<1> QED  BY <1>1, <1>2, <1>3 DEF Placed

LEMMA AddPlaced ==
  ASSUME TypeOK, Placed, NEW n \in Names, NEW d \in Dbs, AddTarget(n, d)
  PROVE  Placed'
<1>1. UNCHANGED <<request, lost, stray, cycles, history, work>>
  BY DEF AddTarget
<1>2. ASSUME NEW m \in Names, NEW e, Belongs(m, e)
      PROVE  Belongs(m, e)'
  <2>1. m # n => config'[m] = config[m]
    BY DEF AddTarget, TypeOK, LoopTypeOK
  <2>2. config[n] = NoDb
    BY DEF AddTarget
  <2> QED  BY <1>1, <1>2, <2>1, <2>2 DEF Belongs, Returns, Under
<1> QED  BY <1>1, <1>2, PlacedKept

LEMMA PlacedStep == TypeOK /\ Named /\ Guarded /\ Carried /\ Placed /\ [Next]_vars => Placed'
<1> SUFFICES ASSUME TypeOK, Named, Guarded, Carried, Placed, [Next]_vars
             PROVE  Placed'
  OBVIOUS
<1>1. CASE UNCHANGED vars
  BY <1>1 DEF vars, loopVars, auxVars, Placed, Belongs, Returns, Under
<1> QED  BY <1>1, LoopPlaced, RequestPlaced, ClaimPlaced, FinishPlaced, AddPlaced DEF Next

\* Whatever is renamed, fails to be, is removed, replaced or added, and in whatever order, what
\* cycles, analyses and reports stored of a database is under the name it has, but for what a
\* rename is seen to leave or put elsewhere: rows that no roll-back moved, what ran under the new
\* name while the rename failed, and first results under the name it left (rename_target,
\* service.py:299).
THEOREM ResultsAreFollowed == Spec => []ResultsFollow
<1>1. Init => TypeOK /\ Named /\ Guarded /\ Carried /\ Placed
  <2> SUFFICES ASSUME Init
               PROVE  TypeOK /\ Named /\ Guarded /\ Carried /\ Placed
    OBVIOUS
  <2>1. \A r \in Requests : request[r].step = "new"
    BY DEF Init, Asked
  <2>2. Named /\ Carried /\ \A r \in Requests : request[r].step # "restore"
    BY <2>1 DEF Named, Carried, CarriedBy, Renaming, Midway
  <2>3. Guarded
    BY <2>1 DEF Init, LoopInit, Guarded, Holds
  <2>4. \A n \in Names : history[n] \cup work[n] \subseteq {config[n]}
    BY DEF Init, LoopInit
  <2>5. Placed
    BY <2>2, <2>4 DEF Init, LoopInit, Placed, Belongs, Returns
  <2> QED  BY <2>2, <2>3, <2>5, TypeInit
<1>2. TypeOK /\ Named /\ Guarded /\ Carried /\ Placed /\ [Next]_vars
        => (TypeOK /\ Named /\ Guarded /\ Carried /\ Placed)'
  BY TypeStep, NamedStep, GuardedStep, CarriedStep, PlacedStep
<1>3. Placed => ResultsFollow
  BY DEF Placed, Belongs, Under, Midway, ResultsFollow
<1> QED  BY <1>1, <1>2, <1>3, PTL DEF Spec

-----------------------------------------------------------------------------
(* Cycles of names that no database has                                    *)

\* No cycle of the name gets to read, and none is started.
Unread(n) ==
  \/ enabled[n] = "off"
  \/ /\ enabled[n] = "unset" /\ n \notin pass.targets
     /\ \A x \in cycles : x.name = n => x.stage # "waiting"

\* The name a rename has left, or has not reached, is not read ...
LeavesUnread(r) ==
  /\ request[r].step \in {"monitor", "restore"} => Unread(request[r].new)
  /\ request[r].step \in {"rest", "back"} => Unread(request[r].old)
  /\ request[r].step # "forget"

\* ... nor is one that no database has; so nothing is read or stored of none.
NoneRead ==
  /\ \A n \in Names : config[n] = NoDb /\ ~BeingRenamed(n) => Unread(n)
  /\ \A r \in Requests : LeavesUnread(r)
  /\ \A x \in cycles : x.stage = "reading" => x.db # NoDb
  /\ \A n \in Names : NoDb \notin history[n]

\* Until the first removal or failed roll-back.
NoneReadYet == lost \cup stray = {} => NoneRead

\* What a step of a request has to leave.
LEMMA NoneReadKept ==
  ASSUME TypeOK, Named, Guarded, NoneRead, NEW r \in Requests, UNCHANGED cycles,
         \A q \in Requests \ {r} : request'[q] = request[q],
         \A n \in Names : (n \in Guards(r) => ~Midway(r) /\ ~Midway(r)') =>
           (Unread(n) => Unread(n)') /\ config'[n] = config[n],
         Midway(r)' => (Midway(r) \/ request[r].step = "config") /\ Guards(r)' = Guards(r),
         Midway(r) /\ ~Midway(r)' => \A n \in Guards(r) : config'[n] = NoDb => Unread(n)',
         LeavesUnread(r)',
         \A n \in Names : NoDb \notin history'[n]
  PROVE  NoneRead'
<1>1. ASSUME NEW n \in Names, config'[n] = NoDb, ~BeingRenamed(n)'
      PROVE  Unread(n)'
  <2>1. Midway(r)' => n \notin Guards(r)
    BY <1>1 DEF BeingRenamed
  <2>2. CASE n \in Guards(r) => ~Midway(r)
    <3>1. ASSUME NEW q \in Requests
          PROVE  ~(Midway(q) /\ n \in Guards(q))
      BY <1>1, <2>2 DEF BeingRenamed, Midway, Guards
    <3>2. ~BeingRenamed(n)
      BY <3>1 DEF BeingRenamed
    <3> QED  BY <1>1, <2>1, <2>2, <3>2 DEF NoneRead
  <2>3. CASE n \in Guards(r) /\ Midway(r)
    BY <1>1, <2>1, <2>3
  <2> QED  BY <2>2, <2>3
<1>2. ASSUME NEW q \in Requests \ {r}
      PROVE  LeavesUnread(q)'
  <2>1. LeavesUnread(q)
    BY DEF NoneRead
  <2>2. ASSUME Midway(q), NEW n \in Guards(q), Unread(n)
        PROVE  Unread(n)'
    <3>1. n \in Names
      BY <2>2 DEF Named, Midway, Guards
    <3>2. Midway(r) \/ Midway(r)' => n \notin Guards(r)
      BY <2>2, GuardsApart
    <3> QED  BY <2>2, <3>1, <3>2
  <2> QED  BY <2>1, <2>2 DEF LeavesUnread, Midway, Guards
<1> QED  BY <1>1, <1>2 DEF NoneRead

\* What is not read stays so, if it is not turned on.
LEMMA UnreadKept ==
  ASSUME NEW n, Unread(n), UNCHANGED <<pass, cycles>>, enabled'[n] \in {enabled[n], "off"}
  PROVE  Unread(n)'
BY DEF Unread

LEMMA LoopUnread ==
  ASSUME TypeOK, NEW n \in Names, Unread(n), LoopNext, ~TurnOn(n)
  PROVE  Unread(n)'
<1>1. CASE ReadTargets
  BY <1>1 DEF ReadTargets, Monitored, Unread
<1>2. CASE StartCycles
  BY <1>2 DEF StartCycles, NoPass, Waiting, Unread
<1>3. CASE AfterOff
  BY <1>3 DEF AfterOff, NoPass, Unread, TypeOK, LoopTypeOK, Cycle
<1>4. ASSUME NEW x \in cycles, EnterCycle(x) \/ CycleReturns(x)
      PROVE  Unread(n)'
  <2>1. x \in Cycle
    BY DEF TypeOK, LoopTypeOK
  <2>2. \A y \in cycles' : y \in cycles \/ y.stage # "waiting"
    <3>1. [x EXCEPT !.stage = "reading", !.db = config[x.name]].stage = "reading"
      BY <2>1 DEF Cycle
    <3> QED  BY <1>4, <3>1 DEF EnterCycle, CycleReturns
  <2> QED  BY <1>4, <2>2 DEF EnterCycle, CycleReturns, Unread
<1>5. ASSUME NEW m \in Names, (TurnOn(m) /\ m # n) \/ TurnOff(m) \/ StartServices(m)
      PROVE  Unread(n)'
  BY <1>5, UnreadKept DEF TurnOn, TurnOff, StartServices, TypeOK, LoopTypeOK
<1>6. CASE LoopStopped
  BY <1>6 DEF LoopStopped, Unread
<1> QED  BY <1>1, <1>2, <1>3, <1>4, <1>5, <1>6 DEF LoopNext, CycleStep

\* A cycle that gets past its first read reads a database.
LEMMA LoopNoneRead ==
  ASSUME TypeOK, Guarded, NoneRead, LoopNext, UNCHANGED <<request, work, lost, stray>>
  PROVE  NoneRead'
<1>1. config' = config
  BY DEF LoopNext, ReadTargets, StartCycles, AfterOff, LoopStopped, CycleStep, EnterCycle,
         CycleReturns, TurnOn, StartServices, TurnOff
<1>2. ASSUME NEW n \in Names, Unread(n), config[n] = NoDb \/ n \in held
      PROVE  Unread(n)'
  BY <1>2, LoopUnread DEF TurnOn
<1>3. \A n \in Names : config'[n] = NoDb /\ ~BeingRenamed(n)' => Unread(n)'
  BY <1>1, <1>2 DEF NoneRead, BeingRenamed, Midway, Guards
<1>4. ASSUME NEW r \in Requests
      PROVE  LeavesUnread(r)'
  <2>1. Midway(r) => Guards(r) \subseteq held /\ held \subseteq Names
    BY GuardsUnread DEF TypeOK, LoopTypeOK
  <2>2. LeavesUnread(r)
    BY DEF NoneRead
  <2> QED  BY <1>2, <2>1, <2>2 DEF LeavesUnread, Midway, Guards
<1>5. \A x \in cycles' : x.stage = "reading" => x.db # NoDb
  <2>1. ASSUME NEW x \in cycles, EnterCycle(x), NEW y \in cycles', y.stage = "reading"
        PROVE  y.db # NoDb
    <3>1. CASE y \in cycles
      BY <2>1, <3>1 DEF NoneRead
    <3>2. CASE y \notin cycles
      <4>1. x \in Cycle
        BY DEF TypeOK, LoopTypeOK
      <4>2. GoesOn(x) /\ y = [x EXCEPT !.stage = "reading", !.db = config[x.name]]
        BY <2>1, <3>2 DEF EnterCycle
      <4>3. y.db = config[x.name]
        BY <4>1, <4>2 DEF Cycle
      <4>4. x.stage = "waiting" /\ ~BeingRenamed(x.name)
        BY <2>1, FreeNotRenamed DEF EnterCycle, Free
      <4>5. ~Unread(x.name)
        BY <4>2, <4>4 DEF Unread, GoesOn
      <4> QED  BY <4>1, <4>3, <4>4, <4>5 DEF NoneRead, Cycle
    <3> QED  BY <3>1, <3>2
  <2>2. CASE StartCycles
    BY <2>2 DEF StartCycles, Waiting, NoneRead
  <2>3. CASE AfterOff
    BY <2>3 DEF AfterOff, NoneRead, TypeOK, LoopTypeOK, Cycle
  <2>4. CASE cycles' \subseteq cycles
    BY <2>4 DEF NoneRead
  <2> QED  BY <2>1, <2>2, <2>3, <2>4
           DEF LoopNext, CycleStep, CycleReturns, ReadTargets, LoopStopped, TurnOn, StartServices, TurnOff
<1>6. \A n \in Names : NoDb \notin history'[n]
  <2>1. ASSUME NEW x \in cycles, CycleReturns(x)
        PROVE  \A n \in Names : NoDb \notin history'[n]
    BY <2>1 DEF CycleReturns, NoneRead, TypeOK, LoopTypeOK
  <2> QED  BY <2>1 DEF NoneRead, LoopNext, CycleStep, EnterCycle, ReadTargets, StartCycles, AfterOff,
           LoopStopped, TurnOn, StartServices, TurnOff
<1> QED  BY <1>3, <1>4, <1>5, <1>6 DEF NoneRead

\* A request that moves no rename along leaves the names unread.
LEMMA AsideNoneRead ==
  ASSUME TypeOK, Named, Guarded, Carried, NoneRead, NEW r \in Requests,
         \/ \E old, new \in Names : AskRename(r, old, new)
         \/ TakeOld(r) \/ TakeNew(r) \/ (MoveConfig(r) /\ config[request[r].old] = NoDb)
         \/ \E n \in Names : AskRemove(r, n)
         \/ Drain(r)
  PROVE  NoneRead'
<1>1. Aside(r)
  BY AsideSteps
<1>2. UNCHANGED pass /\ \A n \in Names : enabled'[n] \in {enabled[n], "off"}
  BY DEF AskRename, TakeOld, TakeNew, MoveConfig, AskRemove, Drain, TypeOK, LoopTypeOK, loopVars
<1>3. request'[r].step # "forget"
  <2>1. CASE \E old, new \in Names : AskRename(r, old, new)
    BY <2>1 DEF AskRename, Asked, TypeOK
  <2>2. CASE \E n \in Names : AskRemove(r, n)
    BY <2>2 DEF AskRemove, Asked, TypeOK
  <2>3. CASE TakeOld(r) \/ TakeNew(r) \/ (MoveConfig(r) /\ config[request[r].old] = NoDb) \/ Drain(r)
    BY <2>3, RequestMoves DEF TakeOld, TakeNew, MoveConfig, Drain
  <2> QED  BY <2>1, <2>2, <2>3
<1>4. LeavesUnread(r)'
  BY <1>1, <1>3 DEF Aside, Midway, LeavesUnread
<1>5. \A n \in Names : Unread(n) => Unread(n)'
  BY <1>1, <1>2, UnreadKept DEF Aside
<1>6. \A n \in Names : NoDb \notin history'[n] /\ config'[n] = config[n]
  BY <1>1 DEF Aside, NoneRead
<1> QED  BY <1>1, <1>4, <1>5, <1>6, NoneReadKept DEF Aside

\* A rename takes a name that is not read, and turns the one it leaves off.
LEMMA RenameNoneRead ==
  ASSUME TypeOK, Named, Guarded, Carried, NoneRead, NEW r \in Requests, lost = {}, lost' \cup stray' = {},
         \/ MoveConfig(r) /\ config[request[r].old] # NoDb
         \/ MoveMonitor(r) \/ MoveRest(r) \/ MoveBack(r) \/ Restore(r)
  PROVE  NoneRead'
<1>1. LeavesUnread(r) /\ CarriedBy(r) /\ \A n \in Names : NoDb \notin history[n]
  BY DEF NoneRead, Carried
<1>2. UNCHANGED <<cycles, pass>>
  BY DEF MoveConfig, MoveMonitor, MoveRest, MoveBack, Restore
<1>3. \A n \in Names : enabled'[n] \in {enabled[n], "off"} => (Unread(n) => Unread(n)')
  BY <1>2, UnreadKept
<1>4. CASE MoveConfig(r) /\ config[request[r].old] # NoDb
  <2>1. ~Midway(r) /\ request[r].step = "config" /\ UNCHANGED <<enabled, history>>
    BY <1>4 DEF MoveConfig, Midway
  <2>2. Guards(r)' = Guards(r) /\ Midway(r)'
    BY <1>4, ConfigMoves DEF Guards, Midway
  <2>3. ~BeingRenamed(request[r].new)
    <3>1. \A q \in Requests \ {r} : Midway(q) => Guards(r) \cap Guards(q) = {}
      BY <2>1, GuardsApart
    <3> QED  BY <2>1, <3>1 DEF BeingRenamed, Guards
  <2>4. Unread(request[r].new)
    BY <1>4, <2>3, ConfigMoves DEF NoneRead
  <2>5. LeavesUnread(r)'
    BY <1>2, <1>4, <2>1, <2>4, ConfigMoves DEF LeavesUnread, Unread
  <2>6. \A n \in Names \ Guards(r) : config'[n] = config[n] /\ (Unread(n) => Unread(n)')
    BY <1>3, <1>4, <2>1, ConfigMoves
  <2>7. \A q \in Requests \ {r} : request'[q] = request[q]
    BY <1>4, ConfigMoves
  <2>8. \A n \in Names : NoDb \notin history'[n]
    BY <1>1, <2>1
  <2> QED  BY <1>2, <2>1, <2>2, <2>5, <2>6, <2>7, <2>8, NoneReadKept
<1>5. ASSUME Midway(r), NEW step \in {"rest", "back", "restore"}, Moves(r, step), UNCHANGED config,
             \A n \in Names \ Guards(r) : enabled'[n] = enabled[n],
             step = "restore" => Unread(request[r].new)',
             step # "restore" => Unread(request[r].old)',
             \A n \in Names : NoDb \notin history'[n]
      PROVE  NoneRead'
  <2>1. Guards(r)' = Guards(r) /\ Midway(r)'
    BY <1>5, RequestMoves DEF Guards, Midway
  <2>2. LeavesUnread(r)'
    BY <1>5, RequestMoves DEF LeavesUnread, Unread
  <2>3. \A n \in Names \ Guards(r) : config'[n] = config[n] /\ (Unread(n) => Unread(n)')
    BY <1>3, <1>5
  <2>4. \A q \in Requests \ {r} : request'[q] = request[q]
    BY <1>5, RequestMoves
  <2> QED  BY <1>2, <1>5, <2>1, <2>2, <2>3, <2>4, NoneReadKept
<1>6. ASSUME Midway(r), request'[r].step = "done", UNCHANGED <<enabled, history>>,
             \A q \in Requests \ {r} : request'[q] = request[q],
             \A n \in Names \ Guards(r) : config'[n] = config[n],
             \A n \in Guards(r) : config'[n] = NoDb => Unread(n)
      PROVE  NoneRead'
  <2>1. ~Midway(r)' /\ LeavesUnread(r)'
    BY <1>6 DEF Midway, LeavesUnread
  <2>2. \A n : Unread(n) => Unread(n)'
    BY <1>2, <1>6, UnreadKept
  <2> QED  BY <1>1, <1>2, <1>6, <2>1, <2>2, NoneReadKept
<1>7. Midway(r) => /\ request[r].old \in Names /\ request[r].new \in Names /\ request[r].old # request[r].new
                   /\ config[request[r].new] # NoDb
  BY <1>1, NoDbAssumption DEF Named, CarriedBy, Midway, Renaming
<1>8. CASE MoveMonitor(r)
  <2>1. Midway(r) /\ UNCHANGED config /\ Unread(request[r].new)
    BY <1>1, <1>8 DEF MoveMonitor, Midway, LeavesUnread
  <2>2. CASE Moves(r, "restore") /\ UNCHANGED <<history, enabled, work>>
    <3>1. Unread(request[r].new)' /\ \A n \in Names : NoDb \notin history'[n] /\ enabled'[n] = enabled[n]
      BY <1>1, <1>3, <1>7, <2>1, <2>2, RequestMoves
    <3> QED  BY <1>5, <2>1, <2>2, <3>1
  <2>3. CASE Moves(r, "rest") /\ MoveRows(request[r].old, request[r].new)
    <3>1. /\ enabled'[request[r].old] = "off"
          /\ \A n \in Names \ Guards(r) : enabled'[n] = enabled[n]
          /\ \A n \in Names : NoDb \notin history'[n]
      BY <1>1, <1>7, <2>1, <2>3, RowsMove DEF Guards
    <3>2. Unread(request[r].old)'
      BY <2>1, <2>3, <3>1, RequestMoves DEF Unread
    <3> QED  BY <1>5, <2>1, <2>3, <3>1, <3>2
  <2> QED  BY <1>8, <2>2, <2>3 DEF MoveMonitor
<1>9. CASE MoveRest(r)
  <2>1. Midway(r) /\ UNCHANGED <<config, enabled, history>> /\ Unread(request[r].old)
    BY <1>1, <1>9 DEF MoveRest, Midway, LeavesUnread
  <2>2. CASE Ends(r)
    <3>1. \A n \in Guards(r) : config'[n] = NoDb => Unread(n)
      BY <1>7, <2>1 DEF Guards
    <3> QED  BY <1>6, <2>1, <2>2, <3>1, RequestMoves
  <2>3. CASE Moves(r, "back")
    <3>1. Unread(request[r].old)' /\ \A n \in Names : NoDb \notin history'[n] /\ enabled'[n] = enabled[n]
      BY <1>1, <1>3, <1>7, <2>1, <2>3, RequestMoves
    <3> QED  BY <1>5, <2>1, <2>3, <3>1
  <2> QED  BY <1>9, <2>2, <2>3 DEF MoveRest
<1>10. CASE MoveBack(r)
  <2>1. Midway(r) /\ UNCHANGED config /\ Moves(r, "restore") /\ MoveRows(request[r].new, request[r].old)
    BY <1>1, <1>10 DEF MoveBack, Midway, CarriedBy
  <2>2. /\ enabled'[request[r].new] = "off"
        /\ \A n \in Names \ Guards(r) : enabled'[n] = enabled[n]
        /\ \A n \in Names : NoDb \notin history'[n]
    BY <1>1, <1>7, <2>1, RowsMove DEF Guards
  <2>3. Unread(request[r].new)'
    BY <2>1, <2>2, RequestMoves DEF Unread
  <2> QED  BY <1>5, <2>1, <2>2, <2>3
<1>11. CASE Restore(r)
  <2>1. Midway(r) /\ Unread(request[r].new) /\ UNCHANGED <<enabled, history>>
    BY <1>1, <1>11 DEF Restore, Midway, LeavesUnread
  <2>2. config'[request[r].old] # NoDb
    BY <1>1, <1>11, <2>1, ConfigRestored, NoDbAssumption DEF CarriedBy
  <2>3. \A n \in Guards(r) : config'[n] = NoDb => Unread(n)
    BY <2>1, <2>2 DEF Guards
  <2> QED  BY <1>6, <1>11, <2>1, <2>3, ConfigRestored
<1> QED  BY <1>4, <1>8, <1>9, <1>10, <1>11

LEMMA NoneReadStep ==
  TypeOK /\ Named /\ Guarded /\ Carried /\ NoneReadYet /\ [Next]_vars => NoneReadYet'
<1> SUFFICES ASSUME TypeOK, Named, Guarded, Carried, NoneReadYet, [Next]_vars, lost' \cup stray' = {}
             PROVE  NoneRead'
  BY DEF NoneReadYet
<1>1. lost \cup stray = {}
  <2>1. ASSUME NEW r \in Requests, Rename(r) \/ Remove(r)
        PROVE  lost \subseteq lost' /\ stray \subseteq stray'
    BY <2>1 DEF Rename, Remove, AskRename, TakeOld, TakeNew, MoveConfig, MoveMonitor, MoveRest, MoveBack,
            Restore, AskRemove, Drain, RemoveConfig, Forget
  <2>2. ASSUME NEW n \in Names, Claim(n) \/ Finish(n) \/ \E d \in Dbs : AddTarget(n, d)
        PROVE  lost \subseteq lost' /\ stray \subseteq stray'
    BY <2>2 DEF Claim, Finish, AddTarget
  <2>3. lost \subseteq lost' /\ stray \subseteq stray'
    BY <2>1, <2>2 DEF Next, vars
  <2> QED  BY <2>3
<1>2. NoneRead
  BY <1>1 DEF NoneReadYet
<1>3. CASE LoopNext /\ UNCHANGED <<request, work, lost, stray>>
  BY <1>2, <1>3, LoopNoneRead
<1>4. ASSUME NEW r \in Requests, Rename(r) \/ Remove(r)
      PROVE  NoneRead'
  <2>1. ~RemoveConfig(r)
    BY RemovalSteps
  <2>2. ~Forget(r)
    BY <1>2 DEF Forget, NoneRead, LeavesUnread
  <2> QED  BY <1>1, <1>2, <1>4, <2>1, <2>2, AsideNoneRead, RenameNoneRead DEF Rename, Remove
<1>5. ASSUME UNCHANGED <<request, enabled, pass, cycles>>,
             \A n \in Names : config'[n] = config[n] \/ config'[n] # NoDb,
             \A n \in Names : NoDb \notin history'[n]
      PROVE  NoneRead'
  <2>1. \A n : /\ Unread(n)' <=> Unread(n)
               /\ BeingRenamed(n)' <=> BeingRenamed(n)
    BY <1>5 DEF Unread, BeingRenamed, Midway, Guards
  <2>2. \A r \in Requests : LeavesUnread(r)'
    BY <1>2, <1>5 DEF NoneRead, LeavesUnread, Unread
  <2> QED  BY <1>2, <1>5, <2>1, <2>2 DEF NoneRead
<1>6. ASSUME NEW n \in Names, Claim(n)
      PROVE  NoneRead'
  BY <1>2, <1>5, <1>6 DEF Claim, NoneRead, loopVars
<1>7. ASSUME NEW n \in Names, Finish(n)
      PROVE  NoneRead'
  <2>1. \A m \in Names : NoDb \notin history'[m]
    BY <1>2, <1>7 DEF Finish, NoneRead, TypeOK, LoopTypeOK
  <2> QED  BY <1>5, <1>7, <2>1 DEF Finish
<1>8. ASSUME NEW n \in Names, NEW d \in Dbs, AddTarget(n, d)
      PROVE  NoneRead'
  <2>1. \A m \in Names : config'[m] = config[m] \/ config'[m] # NoDb
    BY <1>8, NoDbAssumption DEF AddTarget, TypeOK, LoopTypeOK
  <2>2. \A m \in Names : NoDb \notin history'[m]
    BY <1>2, <1>8 DEF AddTarget, NoneRead
  <2> QED  BY <1>5, <1>8, <2>1, <2>2 DEF AddTarget
<1>9. CASE UNCHANGED vars
  BY <1>2, <1>5, <1>9 DEF vars, loopVars, auxVars, NoneRead
<1> QED  BY <1>3, <1>4, <1>6, <1>7, <1>8, <1>9 DEF Next

\* As long as nothing was removed or replaced, no cycle stores anything for a name no database
\* has: a name a rename left has monitoring off, and a cycle queued under it looks at that first
\* (rename_target, monitor_store.py:1370).
THEOREM StaleCyclesStop == Spec => []StaleCycleStops
<1>1. Init => TypeOK /\ Named /\ Guarded /\ Carried /\ NoneReadYet
  <2> SUFFICES ASSUME Init
               PROVE  TypeOK /\ Named /\ Guarded /\ Carried /\ NoneReadYet
    OBVIOUS
  <2>1. \A r \in Requests : request[r].step = "new"
    BY DEF Init, Asked
  <2>2. Named /\ Carried
    BY <2>1 DEF Named, Carried, CarriedBy, Renaming, Midway
  <2>3. Guarded
    BY <2>1 DEF Init, LoopInit, Guarded, Holds
  <2>4. NoneReadYet
    BY <2>1, NoDbAssumption
       DEF Init, LoopInit, NoPass, NoneReadYet, NoneRead, LeavesUnread, Unread
  <2> QED  BY <2>2, <2>3, <2>4, TypeInit
<1>2. TypeOK /\ Named /\ Guarded /\ Carried /\ NoneReadYet /\ [Next]_vars
        => (TypeOK /\ Named /\ Guarded /\ Carried /\ NoneReadYet)'
  BY TypeStep, NamedStep, GuardedStep, CarriedStep, NoneReadStep
<1>3. NoneReadYet => StaleCycleStops
  BY DEF NoneReadYet, NoneRead, StaleCycleStops
<1> QED  BY <1>1, <1>2, <1>3, PTL DEF Spec
=============================================================================
