---------------------------- MODULE WatchProofs ----------------------------
(***************************************************************************)
(* Theorems about ConnectionWatch for every value of its constants: any    *)
(* number of servers and collectors, and any of its times.                 *)
(***************************************************************************)
EXTENDS ConnectionWatch, TLAPS

-----------------------------------------------------------------------------
(* Types                                                                   *)

\* Outcomes on their way to the watch.
Collections == [state : {"none", "reported", "on", "off"}, ok : BOOLEAN, age : Ages]
Scans == [state : {"none", "returned", "dated"}, ok : BOOLEAN, age : Ages]

LEMMA AgeTypes ==
  /\ Old \in Nat /\ Old > 0 /\ MaxLate < Old /\ 0 \in Ages /\ Old \in Ages
  /\ \A age \in Ages : Older(age) \in Ages /\ age \in Nat
  /\ Nothing \in Collections /\ Off \in Collections /\ Nothing \in Scans
  /\ Idle \in [step : {"idle", "file", "push", "promote", "body", "resolve"}, age : Ages, again : BOOLEAN]
  /\ Forgotten \in Watches
<1>1. Old \in Nat /\ Old > 0 /\ MaxLate < Old /\ 0 \in Ages /\ Old \in Ages
  BY TimeAssumption DEF Old, Ages
<1>2. \A age \in Ages : Older(age) \in Ages /\ age \in Nat
  BY <1>1 DEF Ages, Older
<1> QED  BY <1>1, <1>2, TimeAssumption DEF Nothing, Off, Collections, Scans, Idle, Forgotten, Watches

\* What the store writes is an item.
LEMMA ItemTypes ==
  ASSUME NEW row \in Items
  PROVE  /\ \A level \in {"inbox", "notify"}, age \in Ages : Upserted(row, level, age) \in Items
         /\ \A by \in {"code", "user"} : Resolved(row, by) \in Items
         /\ \A state \in {"open", "dismissed"} : Moved(row, state) \in Items
         /\ \A age \in Ages : [row EXCEPT !.age = age] \in Items
         /\ row.age \in Ages /\ row.state \in {"none", "open", "dismissed", "resolved"}
         /\ row.delivery \in {"inbox", "notify"}
<1>1. \A level \in {"inbox", "notify"}, age \in Ages : Upserted(row, level, age) \in Items
  BY DEF Upserted, Items
<1> QED  BY <1>1 DEF Resolved, Moved, Items

\* What a check or the passage of time makes of a watch is one.
LEMMA WatchTypes ==
  ASSUME NEW w \in Watches, NEW age \in Ages
  PROVE  /\ Failed(w, age) \in Watches /\ Answered(w, age) \in Watches /\ Calm(w) \in Watches
         /\ w.age \in Ages /\ w.lastAge \in Ages
         /\ \A since \in Ages : [w EXCEPT !.age = since, !.lastAge = age] \in Watches
         /\ [w EXCEPT !.lastAge = age] \in Watches
<1>1. LostAfterFailures \in Nat \ {0} /\ w.failures \in 0..LostAfterFailures /\ 0 \in Ages
  BY TimeAssumption, AgeTypes DEF Watches
<1>2. (IF w.failures < LostAfterFailures THEN w.failures + 1 ELSE w.failures) \in 0..LostAfterFailures
      /\ 0 \in 0..LostAfterFailures
  BY <1>1
<1>3. Failed(w, age) \in Watches
  BY <1>2 DEF Failed, Watches
<1> QED  BY <1>1, <1>2, <1>3 DEF Answered, Calm, Watches

\* What a thread with the lock does next.
Doing == [step : {"idle", "file", "push", "promote", "body", "resolve"}, age : Ages, again : BOOLEAN]

\* A check that reaches the watch.
LEMMA ObserveTypes ==
  ASSUME TypeOK, NEW p \in Procs, NEW ok \in BOOLEAN, NEW age \in Ages, Observe(p, ok, age)
  PROVE  /\ watch' \in [Procs -> Watches] /\ answered' \in [Procs -> Ages]
         /\ doing' \in [Procs -> Doing]
<1>1. /\ watch \in [Procs -> Watches] /\ answered \in [Procs -> Ages] /\ doing \in [Procs -> Doing]
      /\ item.age \in Ages
  BY ItemTypes DEF TypeOK, Doing
<1>2. watch' \in [Procs -> Watches] /\ answered' \in [Procs -> Ages]
  <2>1. Failed(watch[p], age) \in Watches /\ Answered(watch[p], age) \in Watches
    BY <1>1, WatchTypes
  <2> QED  BY <1>1, <2>1 DEF Observe
<1>3. CASE ok
  <2>1. [step |-> "body", age |-> item.age, again |-> FALSE] \in Doing
    BY <1>1 DEF Doing
  <2> QED  BY <1>1, <1>2, <1>3, <2>1 DEF Observe
<1>4. CASE ~ok
  <2>1. [step |-> "file", age |-> watch'[p].age, again |-> FALSE] \in Doing
    BY <1>2, WatchTypes, AgeTypes DEF Doing
  <2> QED  BY <1>1, <1>2, <1>4, <2>1 DEF Observe
<1> QED  BY <1>2, <1>3, <1>4

LEMMA ChecksTypes ==
  ASSUME TypeOK, NEW p \in Procs, Checks(p)
  PROVE  TypeOK'
<1>1. /\ collect[p].ok \in BOOLEAN /\ collect[p].age \in Ages /\ scan[p].ok \in BOOLEAN /\ scan[p].age \in Ages
      /\ collect \in [Procs -> Collections] /\ scan \in [Procs -> Scans]
      /\ watch \in [Procs -> Watches] /\ watch[p] \in Watches /\ doing \in [Procs -> Doing]
  BY DEF TypeOK, Doing, Collections, Scans
<1>2. CASE CollectionReturns(p)
  <2>1. 0..MaxLate \subseteq Ages /\ 0 \in Ages
    BY AgeTypes, TimeAssumption DEF Ages
  <2>2. collect' \in [Procs -> Collections]
    <3>1. \A age \in Ages : [state |-> "reported", ok |-> (db = "up"), age |-> age] \in Collections
      BY DEF Collections
    <3> QED  BY <1>1, <1>2, <2>1, <3>1 DEF CollectionReturns
  <2> QED  BY <1>2, <2>2 DEF CollectionReturns, TypeOK, Collections
<1>3. CASE ReadSwitch(p)
  <2>1. [collect[p] EXCEPT !.state = "on"] \in Collections
    BY <1>1 DEF Collections
  <2>2. collect' \in [Procs -> Collections]
    BY <1>1, <1>3, <2>1, AgeTypes DEF ReadSwitch
  <2> QED  BY <1>3, <2>2 DEF ReadSwitch, TypeOK, Collections
<1>4. CASE ObserveCollection(p)
  <2>1. Observe(p, collect[p].ok, collect[p].age)
    BY <1>4 DEF ObserveCollection
  <2>2. /\ watch' \in [Procs -> Watches] /\ answered' \in [Procs -> Ages]
        /\ doing' \in [Procs -> Doing]
    BY <1>1, <2>1, ObserveTypes
  <2>3. collect' \in [Procs -> Collections]
    BY <1>1, <1>4, AgeTypes DEF ObserveCollection
  <2> QED  BY <1>4, <2>2, <2>3 DEF ObserveCollection, TypeOK, Doing, Collections
<1>5. CASE DropCollection(p)
  <2>1. watch' \in [Procs -> Watches]
    BY <1>1, <1>5, WatchTypes, AgeTypes DEF DropCollection
  <2>2. collect' \in [Procs -> Collections]
    BY <1>1, <1>5, AgeTypes DEF DropCollection
  <2> QED  BY <1>5, <2>1, <2>2 DEF DropCollection, TypeOK, Collections
<1>6. CASE ScanReturns(p) \/ DateScan(p)
  <2>1. /\ [state |-> "returned", ok |-> (db = "up"), age |-> 0] \in Scans
        /\ [scan[p] EXCEPT !.state = "dated"] \in Scans
    BY <1>1, AgeTypes DEF Scans
  <2>2. scan' \in [Procs -> Scans]
    BY <1>1, <1>6, <2>1 DEF ScanReturns, DateScan
  <2> QED  BY <1>6, <2>2 DEF ScanReturns, DateScan, TypeOK, Scans
<1>7. CASE ObserveScan(p)
  <2>1. Observe(p, scan[p].ok, scan[p].age)
    BY <1>7 DEF ObserveScan
  <2>2. /\ watch' \in [Procs -> Watches] /\ answered' \in [Procs -> Ages]
        /\ doing' \in [Procs -> Doing]
    BY <1>1, <2>1, ObserveTypes
  <2>3. scan' \in [Procs -> Scans]
    BY <1>1, <1>7, AgeTypes DEF ObserveScan
  <2> QED  BY <1>7, <2>2, <2>3 DEF ObserveScan, TypeOK, Doing, Scans
<1>8. CASE Tick(p)
  <2>1. watch' \in [Procs -> Watches]
    BY <1>1, <1>8, WatchTypes, AgeTypes DEF Tick
  <2>2. item.age \in Ages /\ watch[p].age \in Ages
    BY <1>1, ItemTypes, WatchTypes, AgeTypes DEF TypeOK
  <2>3. doing' \in [Procs -> Doing]
    <3>1. /\ [step |-> "file", age |-> watch[p].age, again |-> TRUE] \in Doing
          /\ [step |-> "promote", age |-> item.age, again |-> FALSE] \in Doing
      BY <2>2 DEF Doing
    <3> QED  BY <1>1, <1>8, <3>1 DEF Tick
  <2> QED  BY <1>8, <2>1, <2>3 DEF Tick, TypeOK, Doing
<1> QED  BY <1>2, <1>3, <1>4, <1>5, <1>6, <1>7, <1>8 DEF Checks

LEMMA WritesTypes ==
  ASSUME TypeOK, NEW p \in Procs, Writes(p)
  PROVE  TypeOK'
<1>1. /\ item \in Items /\ doing \in [Procs -> Doing] /\ doing[p].age \in Ages /\ item.age \in Ages
      /\ doing[p].again \in BOOLEAN
  BY ItemTypes DEF TypeOK, Doing
<1>2. AfterPush(p) \in Doing
  BY <1>1, AgeTypes DEF AfterPush, Doing
<1>3. CASE File(p)
  <2>1. doing' \in [Procs -> Doing] /\ item' \in Items
    BY <1>1, <1>3, ItemTypes, AgeTypes DEF File, Doing
  <2> QED  BY <1>3, <2>1 DEF File, TypeOK, Doing
<1>4. CASE Push(p)
  <2>1. doing' \in [Procs -> Doing]
    BY <1>1, <1>2, <1>4 DEF Push, Doing
  <2> QED  BY <1>4, <2>1 DEF Push, TypeOK, Doing
<1>5. CASE Promote(p)
  <2>1. doing' \in [Procs -> Doing] /\ item' \in Items
    BY <1>1, <1>2, <1>5, ItemTypes DEF Promote
  <2> QED  BY <1>5, <2>1 DEF Promote, TypeOK, Doing
<1>6. CASE WriteResumed(p)
  <2>1. doing' \in [Procs -> Doing] /\ item' \in Items
    BY <1>1, <1>6, ItemTypes, AgeTypes DEF WriteResumed, Doing
  <2> QED  BY <1>6, <2>1 DEF WriteResumed, TypeOK, Doing
<1>7. CASE ResolveRecovered(p)
  BY <1>1, <1>7, ItemTypes, AgeTypes DEF ResolveRecovered, TypeOK
<1> QED  BY <1>3, <1>4, <1>5, <1>6, <1>7 DEF Writes

\* Requests, and the death of a server.
LEMMA ChangesTypes ==
  ASSUME TypeOK, Requests \/ DatabaseTurns \/ \E p \in Procs : SettingsChanged(p) \/ Crash(p)
  PROVE  TypeOK'
<1>1. CASE Dismiss \/ UserResolves \/ Reopen
  <2>1. item' \in Items
    BY <1>1, ItemTypes DEF Dismiss, UserResolves, Reopen, TypeOK
  <2> QED  BY <1>1, <2>1 DEF Dismiss, UserResolves, Reopen, TypeOK
<1>2. ASSUME NEW p \in Procs, Switch(p) \/ EditConnection(p)
      PROVE  TypeOK'
  BY <1>2 DEF Switch, EditConnection, TypeOK
<1>3. ASSUME NEW p \in Procs, SettingsChanged(p)
      PROVE  TypeOK'
  <2>1. [Forgotten EXCEPT !.changed = TRUE] \in Watches
    BY AgeTypes DEF Watches
  <2> QED  BY <1>3, <2>1, AgeTypes DEF SettingsChanged, TypeOK
<1>4. ASSUME NEW p \in Procs, Crash(p)
      PROVE  TypeOK'
  BY <1>4, AgeTypes DEF Crash, TypeOK, Collections, Scans
<1>5. CASE DatabaseTurns
  BY <1>5 DEF DatabaseTurns, TypeOK
<1> QED  BY <1>1, <1>2, <1>3, <1>4, <1>5 DEF Requests

LEMMA TimeTypes ==
  ASSUME TypeOK, TimePasses
  PROVE  TypeOK'
<1>1. item' \in Items
  BY ItemTypes, AgeTypes DEF TimePasses, TypeOK
<1>2. watch' \in [Procs -> Watches]
  <2>1. ASSUME NEW p \in Procs
        PROVE  [watch[p] EXCEPT !.age = IF Failing(p) THEN Older(@) ELSE @, !.lastAge = Older(@)] \in Watches
    <3>1. watch[p] \in Watches
      BY DEF TypeOK
    <3>2. Older(watch[p].age) \in Ages /\ Older(watch[p].lastAge) \in Ages
      BY <3>1, AgeTypes DEF Watches
    <3> QED  BY <3>1, <3>2 DEF Watches
  <2> QED  BY <2>1 DEF TimePasses
<1>3. collect' \in [Procs -> Collections] /\ scan' \in [Procs -> Scans]
  <2>1. ASSUME NEW p \in Procs
        PROVE  /\ Dated(collect[p]) => collect[p].age + 1 \in Ages
               /\ Dated(scan[p]) => scan[p].age + 1 \in Ages
               /\ collect[p] \in Collections /\ scan[p] \in Scans
    <3>1. collect[p].age \in Ages /\ scan[p].age \in Ages /\ collect[p] \in Collections /\ scan[p] \in Scans
      BY DEF TypeOK, Collections, Scans
    <3>2. \A age \in Ages : age < MaxLate => age + 1 \in Ages
      BY AgeTypes, TimeAssumption DEF Ages
    <3> QED  BY <3>1, <3>2 DEF TimePasses
  <2>2. ASSUME NEW p \in Procs
        PROVE  Waits(collect[p]) \in Collections /\ Waits(scan[p]) \in Scans
    BY <2>1 DEF Waits, Collections, Scans
  <2> QED  BY <2>2 DEF TimePasses
<1>4. doing' \in [Procs -> Doing]
  <2>1. \A p \in Procs : doing[p] \in Doing /\ [doing[p] EXCEPT !.age = Older(@)] \in Doing
    BY AgeTypes DEF TypeOK, Doing
  <2> QED  BY <2>1, AgeTypes DEF TimePasses, Doing
<1>5. answered' \in [Procs -> Ages]
  BY AgeTypes DEF TimePasses, TypeOK
<1> QED  BY <1>1, <1>2, <1>3, <1>4, <1>5 DEF TimePasses, TypeOK, Doing, Collections, Scans

LEMMA TypeStep == TypeOK /\ [Next]_vars => TypeOK'
<1>1. TypeOK /\ UNCHANGED vars => TypeOK'
  BY DEF TypeOK, vars
<1> QED  BY <1>1, ChecksTypes, WritesTypes, ChangesTypes, TimeTypes DEF Next

\* The item, the watches and the threads that are about to write stay well typed, and no age
\* passes its bound.
THEOREM TypeCorrect == Spec => []TypeOK
<1>1. Init => TypeOK
  BY AgeTypes DEF Init, TypeOK, Items, Collections, Scans
<1> QED  BY <1>1, TypeStep, PTL DEF Spec

-----------------------------------------------------------------------------
(* Pushes                                                                  *)

\* The store counts: an item that could push, as it is new, was resolved by code or was never
\* filed to notify, has not told of its outage yet.
ToldOnce ==
  /\ told \in {0, 1}
  /\ item.state = "none" \/ Reopens(item) \/ item.delivery # "notify" => told = 0

\* What a filing does to the item and to what was told.
LEMMA Filings ==
  ASSUME TypeOK, ToldOnce, NEW age \in Ages
  PROVE  /\ item' = Upserted(item, "inbox", age) /\ told' = told => ToldOnce'
         /\ item' = Upserted(item, "notify", age)
            /\ told' = (IF Pushes(item, "notify") THEN told + 1 ELSE told) => ToldOnce'
<1>1. item \in Items
  BY DEF TypeOK
<1>2. ASSUME item' = Upserted(item, "inbox", age), told' = told
      PROVE  ToldOnce'
  BY <1>1, <1>2 DEF Upserted, Reopens, Items, ToldOnce
<1>3. ASSUME item' = Upserted(item, "notify", age),
             told' = IF Pushes(item, "notify") THEN told + 1 ELSE told
      PROVE  ToldOnce'
  <2>1. CASE Pushes(item, "notify")
    <3>1. told' = 1 /\ item'.state = "open" /\ item'.delivery = "notify"
      BY <1>1, <1>3, <2>1 DEF Pushes, Upserted, Reopens, Items, ToldOnce
    <3> QED  BY <3>1 DEF ToldOnce, Reopens
  <2>2. CASE ~Pushes(item, "notify")
    BY <1>1, <1>3, <2>2 DEF Pushes, Upserted, Reopens, Items, ToldOnce
  <2> QED  BY <2>1, <2>2
<1> QED  BY <1>2, <1>3

LEMMA ToldStep == TypeOK /\ ToldOnce /\ [Next]_vars => ToldOnce'
<1> SUFFICES ASSUME TypeOK, ToldOnce, [Next]_vars
             PROVE  ToldOnce'
  OBVIOUS
<1>1. item \in Items
  BY DEF TypeOK
<1>2. CASE UNCHANGED <<item, told>>
  BY <1>2 DEF ToldOnce, Reopens
<1>3. ASSUME NEW p \in Procs, File(p) \/ Promote(p)
      PROVE  ToldOnce'
  <2>1. doing[p].age \in Ages
    BY DEF TypeOK
  <2> QED  BY <1>3, <2>1, Filings DEF File, Promote
<1>4. ASSUME NEW p \in Procs, WriteResumed(p)
      PROVE  ToldOnce'
  BY <1>1, <1>4 DEF WriteResumed, Items, ToldOnce, Reopens
<1>5. ASSUME NEW p \in Procs, ResolveRecovered(p)
      PROVE  ToldOnce'
  BY <1>1, <1>5 DEF ResolveRecovered, Resolved, Items, ToldOnce, Reopens
<1>6. CASE Dismiss \/ UserResolves \/ Reopen
  BY <1>1, <1>6 DEF Dismiss, UserResolves, Reopen, Moved, Resolved, Items, ToldOnce, Reopens
<1>7. CASE TimePasses
  BY <1>1, <1>7 DEF TimePasses, Items, ToldOnce, Reopens
<1>8. ASSUME NEW p \in Procs, Checks(p) \/ Push(p) \/ SettingsChanged(p) \/ Crash(p)
      PROVE  ToldOnce'
  BY <1>2, <1>8 DEF Checks, CollectionReturns, ReadSwitch, ObserveCollection, DropCollection,
         ScanReturns, DateScan, ObserveScan, Tick, Push, SettingsChanged, Crash
<1>9. ASSUME DatabaseTurns \/ \E p \in Procs : Switch(p) \/ EditConnection(p)
      PROVE  ToldOnce'
  BY <1>2, <1>9 DEF DatabaseTurns, Switch, EditConnection
<1>10. CASE UNCHANGED vars
  BY <1>2, <1>10 DEF vars
<1> QED  BY <1>3, <1>4, <1>5, <1>6, <1>7, <1>8, <1>9, <1>10 DEF Next, Writes, Requests

\* However many servers watch the database, file its item, die and start again, and whatever the
\* user does with the item in between, an outage is pushed at most once (promote_item,
\* monitor_store.py:2293-2301).
THEOREM OutagePushedOnce == Spec => []PushedOnce
<1>1. Init => TypeOK /\ ToldOnce
  BY AgeTypes DEF Init, TypeOK, Items, ToldOnce, Collections, Scans
<1>2. TypeOK /\ ToldOnce /\ [Next]_vars => (TypeOK /\ ToldOnce)'
  BY TypeStep, ToldStep
<1>3. ToldOnce => PushedOnce
  BY DEF ToldOnce, PushedOnce
<1> QED  BY <1>1, <1>2, <1>3, PTL DEF Spec

-----------------------------------------------------------------------------
(* Items the user closed                                                   *)

\* What a step does with an item the user closed.
LEMMA ClosedStep ==
  ASSUME TypeOK, [Next]_vars, UserClosed
  PROVE  told' <= told /\ (item'.state = "open" => Reopen)
<1>1. item \in Items /\ told \in Nat /\ item.state # "open"
  BY DEF TypeOK, UserClosed
<1>2. ASSUME NEW level, NEW age
      PROVE  Upserted(item, level, age) = item /\ ~Pushes(item, level)
  BY <1>1 DEF Upserted, Pushes, Reopens, UserClosed, Items
<1>3. CASE UNCHANGED <<item, told>>
  BY <1>1, <1>3
<1>4. ASSUME NEW p \in Procs, File(p) \/ Promote(p)
      PROVE  UNCHANGED <<item, told>>
  BY <1>2, <1>4 DEF File, Promote
<1>5. ASSUME NEW p \in Procs, WriteResumed(p) \/ ResolveRecovered(p)
      PROVE  told' <= told /\ item'.state # "open"
  <2>1. item'.state # "open"
    BY <1>1, <1>5 DEF WriteResumed, ResolveRecovered, Resolved, Items
  <2>2. told' \in {told, 0}
    BY <1>5 DEF WriteResumed, ResolveRecovered
  <2> QED  BY <1>1, <2>1, <2>2
<1>6. CASE Dismiss \/ UserResolves
  <2>1. item'.state # "open"
    BY <1>1, <1>6 DEF Dismiss, UserResolves, Moved, Resolved, Items
  <2> QED  BY <1>1, <1>6, <2>1 DEF Dismiss, UserResolves
<1>7. CASE Reopen
  BY <1>1, <1>7 DEF Reopen
<1>8. CASE TimePasses
  <2>1. item'.state # "open"
    BY <1>1, <1>8 DEF TimePasses, Items
  <2>2. told' = told
    BY <1>8 DEF TimePasses
  <2> QED  BY <1>1, <2>1, <2>2
<1>9. ASSUME NEW p \in Procs, Checks(p) \/ Push(p) \/ SettingsChanged(p) \/ Crash(p)
      PROVE  UNCHANGED <<item, told>>
  BY <1>9 DEF Checks, CollectionReturns, ReadSwitch, ObserveCollection, DropCollection,
         ScanReturns, DateScan, ObserveScan, Tick, Push, SettingsChanged, Crash
<1>10. ASSUME DatabaseTurns \/ \E p \in Procs : Switch(p) \/ EditConnection(p)
      PROVE  UNCHANGED <<item, told>>
  BY <1>10 DEF DatabaseTurns, Switch, EditConnection
<1> QED  BY <1>3, <1>4, <1>5, <1>6, <1>7, <1>8, <1>9, <1>10 DEF Next, Writes, Requests, vars

\* What a user closed is not opened or pushed by any server's threads, not even by one that read
\* the item before he closed it: the store looks at the row in the statement that writes it
\* (upsert_item, monitor_store.py:2160-2177).
THEOREM ClosedStaysQuiet == Spec => ClosedIsQuiet
<1>1. TypeOK /\ [Next]_vars => [UserClosed => told' <= told /\ (item'.state = "open" => Reopen)]_vars
  BY ClosedStep
<1> QED  BY <1>1, TypeCorrect, PTL DEF Spec, ClosedIsQuiet

-----------------------------------------------------------------------------
(* Runs of failures                                                        *)

\* Age `age` is after the last good check of p, as far as ages tell.
After(p, age) == age < answered[p] \/ answered[p] = Old

\* No good check is newer than the last check; a failed one, and a run of failures, began
\* after it.
ChecksInOrder ==
  \A p \in Procs :
    /\ watch[p].lastAge <= answered[p]
    /\ watch[p].lastOk \/ After(p, watch[p].lastAge)
    /\ Failing(p) => After(p, watch[p].age)

\* Time keeps ages in their order.
LEMMA OlderOrder ==
  ASSUME NEW a \in Ages, NEW b \in Ages
  PROVE  /\ a <= b => Older(a) <= Older(b)
         /\ a < b \/ b = Old => Older(a) < Older(b) \/ Older(b) = Old
BY AgeTypes DEF Ages, Older

\* A check that counts.
LEMMA ObserveOrder ==
  ASSUME TypeOK, ChecksInOrder, NEW p \in Procs, NEW ok \in BOOLEAN, NEW age \in Ages, Observe(p, ok, age)
  PROVE  ChecksInOrder'
<1>1. /\ watch \in [Procs -> Watches] /\ answered \in [Procs -> Ages] /\ watch[p] \in Watches
      /\ watch[p].lastAge \in Nat /\ answered[p] \in Nat /\ age \in Nat /\ watch[p].age \in Nat
      /\ watch[p].failures \in Nat
  <2>1. watch \in [Procs -> Watches] /\ answered \in [Procs -> Ages]
    BY DEF TypeOK
  <2>2. LostAfterFailures \in Nat
    BY TimeAssumption
  <2>3. watch[p].lastAge \in Ages /\ watch[p].age \in Ages /\ watch[p].failures \in 0..LostAfterFailures
    BY <2>1 DEF Watches
  <2>4. \A a \in Ages : a \in Nat
    BY AgeTypes
  <2>5. watch[p].failures \in Nat
    BY <2>2, <2>3
  <2>6. answered[p] \in Ages /\ watch[p] \in Watches
    BY <2>1
  <2> QED  BY <2>1, <2>3, <2>4, <2>5, <2>6
<1>2. /\ watch[p].lastAge <= answered[p]
      /\ watch[p].lastOk \/ After(p, watch[p].lastAge)
      /\ Failing(p) => After(p, watch[p].age)
  BY DEF ChecksInOrder
<1>3. CASE Late(watch[p], ok, age)
  BY <1>3 DEF Observe, ChecksInOrder, After, Failing
<1>4. CASE ~Late(watch[p], ok, age) /\ ~ok
  <2>1. age <= answered[p] /\ After(p, age)
    BY <1>1, <1>2, <1>4 DEF Late, After
  <2>2. watch' = [watch EXCEPT ![p] = Failed(watch[p], age)] /\ answered' = answered
    BY <1>4 DEF Observe
  <2>3. /\ Failed(watch[p], age).lastAge = age /\ Failed(watch[p], age).lastOk = FALSE
        /\ Failed(watch[p], age).age = IF watch[p].failures = 0 THEN age ELSE watch[p].age
    BY <1>1 DEF Failed, Watches
  <2>4. /\ watch'[p].lastAge = age /\ watch'[p].lastOk = FALSE
        /\ watch'[p].age = IF watch[p].failures = 0 THEN age ELSE watch[p].age
        /\ \A q \in Procs \ {p} : watch'[q] = watch[q]
    BY <1>1, <2>2, <2>3
  <2>5. After(p, watch'[p].age)
    BY <1>1, <1>2, <2>1, <2>4 DEF Failing
  <2> QED  BY <2>1, <2>2, <2>4, <2>5 DEF ChecksInOrder, After, Failing
<1>5. CASE ~Late(watch[p], ok, age) /\ ok
  <2>1. /\ watch' = [watch EXCEPT ![p] = Answered(watch[p], age)]
        /\ answered' = [answered EXCEPT ![p] = age]
    BY <1>5 DEF Observe
  <2>2. /\ Answered(watch[p], age).lastAge = age /\ Answered(watch[p], age).lastOk = TRUE
        /\ Answered(watch[p], age).failures = 0
    BY <1>1 DEF Answered, Calm, Watches
  <2>3. /\ watch'[p].lastAge = age /\ watch'[p].lastOk = TRUE /\ watch'[p].failures = 0
        /\ answered'[p] = age
        /\ \A q \in Procs \ {p} : watch'[q] = watch[q] /\ answered'[q] = answered[q]
    BY <1>1, <2>1, <2>2
  <2> QED  BY <1>1, <2>3 DEF ChecksInOrder, After, Failing
<1> QED  BY <1>3, <1>4, <1>5

\* Other changes of a watch end its run of failures.
LEMMA CalmOrder ==
  ASSUME TypeOK, ChecksInOrder, NEW p \in Procs,
         \A q \in Procs \ {p} : watch'[q] = watch[q] /\ answered'[q] = answered[q],
         \/ watch'[p] = Calm(watch[p]) /\ answered'[p] = answered[p]
         \/ watch'[p] \in {Forgotten, [Forgotten EXCEPT !.changed = TRUE]} /\ answered'[p] = Old
  PROVE  ChecksInOrder'
<1>1. watch[p] \in Watches /\ Old \in Nat
  BY AgeTypes DEF TypeOK
<1>2. /\ Calm(watch[p]).failures = 0 /\ Calm(watch[p]).lastAge = watch[p].lastAge
      /\ Calm(watch[p]).lastOk = watch[p].lastOk
      /\ \A w \in {Forgotten, [Forgotten EXCEPT !.changed = TRUE]} : w.failures = 0 /\ w.lastAge = Old
  BY <1>1 DEF Calm, Forgotten, Watches
<1>3. CASE watch'[p] = Calm(watch[p]) /\ answered'[p] = answered[p]
  BY <1>2, <1>3 DEF ChecksInOrder, After, Failing
<1>4. CASE watch'[p] \in {Forgotten, [Forgotten EXCEPT !.changed = TRUE]} /\ answered'[p] = Old
  <2>1. watch'[p].failures = 0 /\ watch'[p].lastAge = Old
    BY <1>2, <1>4
  <2>2. ~(watch'[p].failures > 0) /\ watch'[p].lastAge <= Old
    BY <1>1, <2>1
  <2> QED  BY <1>4, <2>1, <2>2 DEF ChecksInOrder, After, Failing
<1> QED  BY <1>3, <1>4

LEMMA ChecksStep == TypeOK /\ ChecksInOrder /\ [Next]_vars => ChecksInOrder'
<1> SUFFICES ASSUME TypeOK, ChecksInOrder, [Next]_vars
             PROVE  ChecksInOrder'
  OBVIOUS
<1>1. CASE UNCHANGED <<watch, answered>>
  BY <1>1 DEF ChecksInOrder, After, Failing
<1>2. watch \in [Procs -> Watches] /\ answered \in [Procs -> Ages]
  BY DEF TypeOK
<1>3. ASSUME NEW p \in Procs, ObserveCollection(p)
      PROVE  ChecksInOrder'
  <2>1. collect[p].ok \in BOOLEAN /\ collect[p].age \in Ages
    BY DEF TypeOK
  <2> QED  BY <1>3, <2>1, ObserveOrder DEF ObserveCollection
<1>4. ASSUME NEW p \in Procs, ObserveScan(p)
      PROVE  ChecksInOrder'
  <2>1. scan[p].ok \in BOOLEAN /\ scan[p].age \in Ages
    BY DEF TypeOK
  <2> QED  BY <1>4, <2>1, ObserveOrder DEF ObserveScan
<1>5. ASSUME NEW p \in Procs, DropCollection(p)
      PROVE  ChecksInOrder'
  <2>1. watch' = [watch EXCEPT ![p] = Calm(watch[p])] /\ answered' = answered
    BY <1>5 DEF DropCollection
  <2> QED  BY <1>2, <2>1, CalmOrder
<1>6. ASSUME NEW p \in Procs, Tick(p)
      PROVE  ChecksInOrder'
  <2>1. watch' = watch \/ watch' = [watch EXCEPT ![p] = Calm(watch[p])]
    BY <1>6 DEF Tick
  <2>2. answered' = answered
    BY <1>6 DEF Tick
  <2> QED  BY <1>1, <1>2, <2>1, <2>2, CalmOrder
<1>7. ASSUME NEW p \in Procs, SettingsChanged(p) \/ Crash(p)
      PROVE  ChecksInOrder'
  <2>1. /\ watch'[p] \in {Forgotten, [Forgotten EXCEPT !.changed = TRUE]} /\ answered'[p] = Old
        /\ \A q \in Procs \ {p} : watch'[q] = watch[q] /\ answered'[q] = answered[q]
    BY <1>2, <1>7 DEF SettingsChanged, Crash
  <2> QED  BY <2>1, CalmOrder
<1>8. CASE TimePasses
  <2>1. ASSUME NEW p \in Procs
        PROVE  /\ watch'[p].lastAge = Older(watch[p].lastAge) /\ watch'[p].lastOk = watch[p].lastOk
               /\ watch'[p].failures = watch[p].failures
               /\ watch'[p].age = IF Failing(p) THEN Older(watch[p].age) ELSE watch[p].age
               /\ answered'[p] = Older(answered[p])
               /\ watch[p].lastAge \in Ages /\ watch[p].age \in Ages /\ answered[p] \in Ages
    <3>1. watch[p] \in Watches
      BY <1>2
    <3>2. watch'[p] = [watch[p] EXCEPT !.age = IF Failing(p) THEN Older(@) ELSE @, !.lastAge = Older(@)]
      BY <1>8 DEF TimePasses
    <3>3. answered'[p] = Older(answered[p]) /\ answered[p] \in Ages
      BY <1>2, <1>8 DEF TimePasses
    <3> QED  BY <3>1, <3>2, <3>3 DEF Watches
  <2>2. ASSUME NEW p \in Procs
        PROVE  /\ watch'[p].lastAge <= answered'[p]
               /\ watch'[p].lastOk \/ After(p, watch[p].lastAge)'
               /\ watch'[p].failures > 0 => After(p, watch[p].age)'
    <3>1. /\ watch[p].lastAge <= answered[p]
          /\ watch[p].lastOk \/ watch[p].lastAge < answered[p] \/ answered[p] = Old
          /\ watch[p].failures > 0 => watch[p].age < answered[p] \/ answered[p] = Old
      BY DEF ChecksInOrder, After, Failing
    <3>2. watch'[p].lastAge <= answered'[p]
      BY <2>1, <3>1, OlderOrder
    <3>3. watch'[p].lastOk \/ watch'[p].lastAge < answered'[p] \/ answered'[p] = Old
      BY <2>1, <3>1, OlderOrder
    <3>4. watch'[p].failures > 0 => watch'[p].age < answered'[p] \/ answered'[p] = Old
      BY <2>1, <3>1, OlderOrder DEF Failing
    <3> QED  BY <3>2, <3>3, <3>4 DEF After, Old
  <2> QED  BY <2>2 DEF ChecksInOrder, After, Failing
<1>9. ASSUME NEW p \in Procs, CollectionReturns(p) \/ ReadSwitch(p) \/ ScanReturns(p) \/ DateScan(p) \/ Writes(p)
      PROVE  ChecksInOrder'
  BY <1>1, <1>9 DEF CollectionReturns, ReadSwitch, ScanReturns, DateScan, Writes, File, Push, Promote,
         WriteResumed, ResolveRecovered
<1>10. ASSUME Requests \/ DatabaseTurns \/ UNCHANGED vars
       PROVE  ChecksInOrder'
  BY <1>1, <1>10 DEF Requests, Dismiss, UserResolves, Reopen, Switch, EditConnection, DatabaseTurns, vars
<1> QED  BY <1>3, <1>4, <1>5, <1>6, <1>7, <1>8, <1>9, <1>10 DEF Next, Checks

\* A check that was good ends the run of failures before it for good: no late answer of another
\* thread brings it back (observe, connection.py:180-182).
THEOREM FailuresAfterAnswer == Spec => []FailsAfterAnswer
<1>1. Init => TypeOK /\ ChecksInOrder
  BY AgeTypes DEF Init, TypeOK, Items, Forgotten, ChecksInOrder, After, Failing, Collections, Scans
<1>2. TypeOK /\ ChecksInOrder /\ [Next]_vars => (TypeOK /\ ChecksInOrder)'
  BY TypeStep, ChecksStep
<1>3. ChecksInOrder => FailsAfterAnswer
  BY DEF ChecksInOrder, After, FailsAfterAnswer
<1> QED  BY <1>1, <1>2, <1>3, PTL DEF Spec
=============================================================================
