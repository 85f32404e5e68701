-------------------------- MODULE ConnectionWatch --------------------------
(***************************************************************************)
(* Whether the monitor can reach a database, and the Inbox item of an      *)
(* outage (cli/features/monitor/connection.py, and the Inbox of            *)
(* cli/shared/monitor/monitor_store.py).                                   *)
(*                                                                         *)
(* One database, and the one item (target, "monitoring_issue",             *)
(* "lost_connection") all servers share.  A server's watch is in memory    *)
(* behind a lock; under it one thread at a time reads and writes the item, *)
(* each store call a step of its own, between the steps of the user and of *)
(* the other servers.  Time passes in units; an age is the time since,     *)
(* counted up to Old.  new, seen and snoozed items are "open".  The text   *)
(* of an item, pulses, mute rules, the switches of single pushes and a     *)
(* missing password, which has an item of its own, are left out; another   *)
(* database keeps the monitor loop on.                                     *)
(***************************************************************************)
EXTENDS Naturals

CONSTANTS
  Procs,             \* servers
  Collectors,        \* servers that collect from the database (their scheduler has its lease)
  LostAfterFailures, \* LOST_AFTER_FAILURES
  LostAfter,         \* LOST_AFTER_SECONDS, in units
  PushAfter,         \* PUSH_AFTER_SECONDS, in units
  MaxLate,           \* bound: units a check's date is back when it gets the lock
  CollectionsWait,   \* bound: whether time passes over a collection on its way to the lock
  Changes            \* what may happen besides: "user", "switch", "settings", "crash"

ASSUME ProcsAssumption == Collectors \subseteq Procs
ASSUME TimeAssumption ==
  /\ LostAfterFailures \in Nat \ {0} /\ LostAfter \in Nat /\ MaxLate \in Nat
  /\ CollectionsWait \in BOOLEAN
  /\ PushAfter \in Nat /\ PushAfter > MaxLate /\ PushAfter >= LostAfter + MaxLate

VARIABLES
  db,       \* the database, as this machine reaches it
  enabled,  \* the database is monitored
  item,     \* the row of inbox_item
  told,     \* outage pushes since the item was last resolved by code (observed, not kept)
  watch,    \* each server's _failing, _last_check and _changed
  answered, \* age of each server's last good check since the settings changed (observed)
  collect,  \* the outcome of a collection on its way to the watch
  scan,     \* the outcome of the index scan on its way to the watch
  doing,    \* what the thread with the watch's lock does next
  telling   \* servers whose request has yet to call connection_changed

vars == <<db, enabled, item, told, watch, answered, collect, scan, doing, telling>>

Old == PushAfter
Ages == 0..Old
Older(age) == IF age < Old THEN age + 1 ELSE Old

Items ==
  [state : {"none", "open", "dismissed"}, by : {"none"}, delivery : {"inbox", "notify"}, age : Ages]
  \cup [state : {"resolved"}, by : {"code", "user"}, delivery : {"inbox", "notify"}, age : Ages]
Watches == [failures : 0..LostAfterFailures, age : Ages, lastAge : Ages, lastOk : BOOLEAN, changed : BOOLEAN]
Off == [state |-> "off", ok |-> FALSE, age |-> 0]
Nothing == [state |-> "none", ok |-> FALSE, age |-> 0]
Idle == [step |-> "idle", age |-> 0, again |-> FALSE]
Forgotten == [failures |-> 0, age |-> 0, lastAge |-> Old, lastOk |-> FALSE, changed |-> FALSE]

TypeOK ==
  /\ db \in {"up", "down"}
  /\ enabled \in BOOLEAN
  /\ item \in Items
  /\ told \in Nat
  /\ watch \in [Procs -> Watches]
  /\ answered \in [Procs -> Ages]
  /\ collect \in [Procs -> [state : {"none", "reported", "on", "off"}, ok : BOOLEAN, age : Ages]]
  /\ scan \in [Procs -> [state : {"none", "returned", "dated"}, ok : BOOLEAN, age : Ages]]
  /\ doing \in [Procs -> [step : {"idle", "file", "push", "promote", "body", "resolve"},
                          age : Ages, again : BOOLEAN]]
  /\ telling \subseteq Procs

Init ==
  /\ db = "up" /\ enabled = TRUE /\ told = 0
  /\ item = [state |-> "none", by |-> "none", delivery |-> "inbox", age |-> 0]
  /\ watch = [p \in Procs |-> Forgotten]
  /\ answered = [p \in Procs |-> Old]
  /\ collect = [p \in Procs |-> Nothing]
  /\ scan = [p \in Procs |-> Nothing]
  /\ doing = [p \in Procs |-> Idle]
  /\ telling = {}

-----------------------------------------------------------------------------
(* The item in the store                                                   *)

ReopensResolved(row) == row.state = "resolved" \* mutant: whoever resolved it
ReopensClosed(row) == row.state \in {"resolved", "dismissed"} /\ row.by # "user" \* mutant
ReopensWorse(row) == FALSE \* mutant: only what got worse comes back

\* A cleared condition that recurs reopens its item; one the user closed stays closed.
Reopens(row) == row.state = "resolved" /\ row.by = "code"

\* upsert_item with delivery `level` and an outage that began `age` ago.
Upserted(row, level, age) ==
  IF row.state = "none" \/ Reopens(row)
    THEN [state |-> "open", by |-> "none", delivery |-> level, age |-> age]
  ELSE IF row.state = "open"
    THEN [row EXCEPT !.delivery = IF level = "notify" THEN level ELSE @, !.age = age]
  ELSE row

\* That filing pushes.
Pushes(row, level) ==
  /\ level = "notify"
  /\ row.state = "none" \/ Reopens(row) \/ (row.state = "open" /\ row.delivery # "notify")

MovedKeepingBy(row, state) == [row EXCEPT !.state = state] \* mutant: resolved_by stays

\* action_item, of the code's resolve and the user's actions.
Resolved(row, by) == [row EXCEPT !.state = "resolved", !.by = by]
Moved(row, state) == [row EXCEPT !.state = state, !.by = "none"]

\* _push_if_due's conditions.
PushDue(row) == row.state = "open" /\ row.delivery # "notify" /\ row.age >= PushAfter

-----------------------------------------------------------------------------
(* A check reaches the watch                                               *)

Failing(p) == watch[p].failures > 0
Calm(w) == [w EXCEPT !.failures = 0, !.age = 0]

LateByTime(w, ok, age) == age > w.lastAge \* mutant: a failure of the same moment counts

\* A check older than the last one, or a failure of the moment of a good one, says nothing.
Late(w, ok, age) == age > w.lastAge \/ (age = w.lastAge /\ w.lastOk /\ ~ok)

\* One more failure in a row, of a check `age` ago.
Failed(w, age) ==
  [w EXCEPT !.failures = IF @ < LostAfterFailures THEN @ + 1 ELSE @,
            !.age = IF w.failures = 0 THEN age ELSE @,
            !.lastAge = age, !.lastOk = FALSE]
Answered(w, age) == [Calm(w) EXCEPT !.lastAge = age, !.lastOk = TRUE, !.changed = FALSE]

\* The failures in a row count as an outage.
IsLost(w, age) == w.failures >= LostAfterFailures \/ w.age >= age + LostAfter \/ w.changed

RecoversKnown(p) == item.state = "open" /\ Failing(p) \* mutant: only an outage it remembers

\* _recovered closes what _open_item returns, whoever filed it.
Recovers(p) == item.state = "open"

\* observe(target, ok, age), up to the first read of the item.
Observe(p, ok, age) ==
  /\ doing[p] = Idle
  /\ \/ /\ Late(watch[p], ok, age)
        /\ UNCHANGED <<watch, answered, doing>>
     \/ /\ ~Late(watch[p], ok, age) /\ ~ok
        /\ watch' = [watch EXCEPT ![p] = Failed(@, age)]
        /\ doing' = IF IsLost(watch'[p], age) /\ item.state # "open"
                      THEN [doing EXCEPT ![p] = [step |-> "file", age |-> watch'[p].age, again |-> FALSE]]
                      ELSE doing
        /\ UNCHANGED answered
     \/ /\ ~Late(watch[p], ok, age) /\ ok
        /\ watch' = [watch EXCEPT ![p] = Answered(@, age)]
        /\ answered' = [answered EXCEPT ![p] = age]
        /\ doing' = IF Recovers(p)
                      THEN [doing EXCEPT ![p] = [step |-> "body", age |-> item.age, again |-> FALSE]]
                      ELSE doing

\* A collection, which goes on for databases that are not monitored too, has an outcome.  One
\* that gets no answer is dated from when the database last answered (_await_collection).
CollectionReturns(p) ==
  /\ p \in Collectors /\ collect[p] = Nothing
  /\ \E age \in IF db = "up" THEN {0} ELSE 0..MaxLate :
       collect' = [collect EXCEPT ![p] = [state |-> "reported", ok |-> (db = "up"), age |-> age]]
  /\ UNCHANGED <<db, enabled, item, told, watch, answered, scan, doing, telling>>

\* collection() reads the switch before it has the lock.
ReadSwitch(p) ==
  /\ collect[p].state = "reported"
  /\ collect' = [collect EXCEPT ![p] = IF enabled THEN [@ EXCEPT !.state = "on"] ELSE Off]
  /\ UNCHANGED <<db, enabled, item, told, watch, answered, scan, doing, telling>>

ObserveCollection(p) ==
  /\ collect[p].state = "on"
  /\ Observe(p, collect[p].ok, collect[p].age)
  /\ collect' = [collect EXCEPT ![p] = Nothing]
  /\ UNCHANGED <<db, enabled, item, told, scan, telling>>

DropCollection(p) ==
  /\ collect[p].state = "off" /\ doing[p] = Idle
  /\ collect' = [collect EXCEPT ![p] = Nothing]
  /\ watch' = [watch EXCEPT ![p] = Calm(@)]
  /\ UNCHANGED <<db, enabled, item, told, answered, scan, doing, telling>>

\* The monitor loop's index scan of a monitored database ...
ScanReturns(p) ==
  /\ enabled /\ scan[p] = Nothing
  /\ scan' = [scan EXCEPT ![p] = [state |-> "returned", ok |-> (db = "up"), age |-> 0]]
  /\ UNCHANGED <<db, enabled, item, told, watch, answered, collect, doing, telling>>

\* ... is dated when it reports, before observe() has the lock.
DateScan(p) ==
  /\ scan[p].state = "returned"
  /\ scan' = [scan EXCEPT ![p].state = "dated"]
  /\ UNCHANGED <<db, enabled, item, told, watch, answered, collect, doing, telling>>

ObserveScan(p) ==
  /\ scan[p].state = "dated"
  /\ Observe(p, scan[p].ok, scan[p].age)
  /\ scan' = [scan EXCEPT ![p] = Nothing]
  /\ UNCHANGED <<db, enabled, item, told, collect, telling>>

\* tick(): file what is LostAfter old, and push what is due.  What can come between its reads
\* of the open item can come after them, so they are one.
Tick(p) ==
  /\ doing[p] = Idle /\ Failing(p)
  /\ \/ /\ ~enabled
        /\ watch' = [watch EXCEPT ![p] = Calm(@)]
        /\ UNCHANGED doing
     \/ /\ enabled /\ watch[p].age >= LostAfter /\ item.state # "open"
        /\ doing' = [doing EXCEPT ![p] = [step |-> "file", age |-> watch[p].age, again |-> TRUE]]
        /\ UNCHANGED watch
     \/ /\ enabled /\ watch[p].age >= LostAfter /\ PushDue(item)
        /\ doing' = [doing EXCEPT ![p] = [step |-> "promote", age |-> item.age, again |-> FALSE]]
        /\ UNCHANGED watch
  /\ UNCHANGED <<db, enabled, item, told, answered, collect, scan, telling>>

-----------------------------------------------------------------------------
(* The thread with the lock reads and writes the item                      *)

\* tick() looks whether a push is due once more after _file did.
AfterPush(p) == IF doing[p].again THEN [step |-> "push", age |-> 0, again |-> FALSE] ELSE Idle

\* _file_current files the item.
File(p) ==
  /\ doing[p].step = "file"
  /\ item' = Upserted(item, "inbox", doing[p].age)
  /\ doing' = [doing EXCEPT ![p].step = "push", ![p].age = 0]
  /\ UNCHANGED <<db, enabled, told, watch, answered, collect, scan, telling>>

\* _push_if_due reads the item.
Push(p) ==
  /\ doing[p].step = "push"
  /\ doing' = [doing EXCEPT ![p] = IF PushDue(item) THEN [@ EXCEPT !.step = "promote", !.age = item.age]
                                                    ELSE AfterPush(p)]
  /\ UNCHANGED <<db, enabled, item, told, watch, answered, collect, scan, telling>>

\* promote_item files again, at "notify" and with the body it read.
Promote(p) ==
  /\ doing[p].step = "promote"
  /\ item' = Upserted(item, "notify", doing[p].age)
  /\ told' = IF Pushes(item, "notify") THEN told + 1 ELSE told
  /\ doing' = [doing EXCEPT ![p] = AfterPush(p)]
  /\ UNCHANGED <<db, enabled, watch, answered, collect, scan, telling>>

\* _recovered writes the body it read, with when monitoring resumed.
WriteResumed(p) ==
  /\ doing[p].step = "body"
  /\ item' = IF item.state # "resolved" THEN [item EXCEPT !.age = doing[p].age] ELSE item
  /\ doing' = [doing EXCEPT ![p].step = "resolve", ![p].age = 0]
  /\ UNCHANGED <<db, enabled, told, watch, answered, collect, scan, telling>>

\* The item is resolved by code; notify_recovery, a step that only adds an event, is left out.
ResolveRecovered(p) ==
  /\ doing[p].step = "resolve"
  /\ item' = IF item.state # "resolved" THEN Resolved(item, "code") ELSE item
  /\ told' = IF item.state # "resolved" THEN 0 ELSE told
  /\ doing' = [doing EXCEPT ![p] = Idle]
  /\ UNCHANGED <<db, enabled, watch, answered, collect, scan, telling>>

-----------------------------------------------------------------------------
(* Requests, faults and time                                               *)

Dismiss ==
  /\ "user" \in Changes /\ item.state \in {"open", "resolved"}
  /\ item' = Moved(item, "dismissed")
  /\ UNCHANGED <<db, enabled, told, watch, answered, collect, scan, doing, telling>>

UserResolves ==
  /\ "user" \in Changes /\ item.state \in {"open", "dismissed"}
  /\ item' = Resolved(item, "user")
  /\ UNCHANGED <<db, enabled, told, watch, answered, collect, scan, doing, telling>>

Reopen ==
  /\ "user" \in Changes /\ item.state \in {"resolved", "dismissed"}
  /\ item' = Moved(item, "open")
  /\ UNCHANGED <<db, enabled, told, watch, answered, collect, scan, doing, telling>>

\* put_settings stores the switch, or the connection is edited; the watch hears of it later.
Switch(p) ==
  /\ "switch" \in Changes /\ p \notin telling
  /\ enabled' = ~enabled
  /\ telling' = telling \cup {p}
  /\ UNCHANGED <<db, item, told, watch, answered, collect, scan, doing>>

EditConnection(p) ==
  /\ "settings" \in Changes /\ p \notin telling
  /\ telling' = telling \cup {p}
  /\ UNCHANGED <<db, enabled, item, told, watch, answered, collect, scan, doing>>

SettingsChanged(p) ==
  /\ p \in telling /\ doing[p] = Idle
  /\ telling' = telling \ {p}
  /\ watch' = [watch EXCEPT ![p] = [Forgotten EXCEPT !.changed = TRUE]]
  /\ answered' = [answered EXCEPT ![p] = Old]
  /\ UNCHANGED <<db, enabled, item, told, collect, scan, doing>>

\* The server dies, in the middle of whatever it did, and starts again.
Crash(p) ==
  /\ "crash" \in Changes
  /\ watch' = [watch EXCEPT ![p] = Forgotten]
  /\ answered' = [answered EXCEPT ![p] = Old]
  /\ collect' = [collect EXCEPT ![p] = Nothing]
  /\ scan' = [scan EXCEPT ![p] = Nothing]
  /\ doing' = [doing EXCEPT ![p] = Idle]
  /\ telling' = telling \ {p}
  /\ UNCHANGED <<db, enabled, item, told>>

DatabaseTurns ==
  /\ db' = IF db = "up" THEN "down" ELSE "up"
  /\ UNCHANGED <<enabled, item, told, watch, answered, collect, scan, doing, telling>>

\* Steps that write the beginning of an outage.
Aging == {"file", "promote", "body"}

\* A check whose moment is taken.
Dated(check) == check.state \in {"reported", "on", "dated"}
Waits(check) == IF Dated(check) THEN [check EXCEPT !.age = @ + 1] ELSE check

TimePasses ==
  /\ \A p \in Procs : Dated(collect[p]) => CollectionsWait /\ collect[p].age < MaxLate
  /\ \A p \in Procs : Dated(scan[p]) => scan[p].age < MaxLate
  /\ item' = [item EXCEPT !.age = IF item.state = "none" THEN @ ELSE Older(@)]
  /\ watch' = [p \in Procs |-> [watch[p] EXCEPT !.age = IF Failing(p) THEN Older(@) ELSE @,
                                                !.lastAge = Older(@)]]
  /\ answered' = [p \in Procs |-> Older(answered[p])]
  /\ collect' = [p \in Procs |-> Waits(collect[p])]
  /\ scan' = [p \in Procs |-> Waits(scan[p])]
  /\ doing' = [p \in Procs |-> IF doing[p].step \in Aging THEN [doing[p] EXCEPT !.age = Older(@)] ELSE doing[p]]
  /\ UNCHANGED <<db, enabled, told, telling>>

-----------------------------------------------------------------------------
Writes(p) == File(p) \/ Push(p) \/ Promote(p) \/ WriteResumed(p) \/ ResolveRecovered(p)
Checks(p) ==
  \/ CollectionReturns(p) \/ ReadSwitch(p) \/ ObserveCollection(p) \/ DropCollection(p)
  \/ ScanReturns(p) \/ DateScan(p) \/ ObserveScan(p) \/ Tick(p)
Requests == Dismiss \/ UserResolves \/ Reopen \/ \E p \in Procs : Switch(p) \/ EditConnection(p)

Next ==
  \/ \E p \in Procs : Checks(p) \/ Writes(p) \/ SettingsChanged(p) \/ Crash(p)
  \/ Requests \/ DatabaseTurns \/ TimePasses

Spec == Init /\ [][Next]_vars

\* Threads run on; scans and ticks come again (loop.py:333).  That the lock is not taken from
\* a thread whenever it could have it is not assumed.
Fairness ==
  /\ SF_vars(TimePasses)
  /\ \A p \in Procs :
       /\ WF_vars(ReadSwitch(p)) /\ WF_vars(ObserveCollection(p) \/ DropCollection(p))
       /\ WF_vars(ScanReturns(p)) /\ WF_vars(DateScan(p)) /\ WF_vars(ObserveScan(p))
       /\ WF_vars(Tick(p)) /\ WF_vars(Writes(p)) /\ WF_vars(SettingsChanged(p))

FairSpec == Spec /\ Fairness

-----------------------------------------------------------------------------
(* Properties                                                              *)

\* An outage is pushed once, however often the item is filed again, the server restarts or
\* another server looks at it too (promote_item, monitor_store.py:2293-2301).
PushedOnce == told <= 1

\* What a user closed stays closed and silent until he opens it again or the database is back,
\* even when the code had read it open (upsert_item, monitor_store.py:2160-2177).
UserClosed == item.state = "dismissed" \/ (item.state = "resolved" /\ item.by = "user")
ClosedIsQuiet ==
  [][UserClosed => told' <= told /\ (item'.state = "open" => Reopen)]_vars

\* A run of failures begins after the last good check, whatever order the threads report in:
\* recovery is not undone by an answer that was late (observe, connection.py:180-182).
FailsAfterAnswer ==
  \A p \in Procs : Failing(p) => watch[p].age < answered[p] \/ answered[p] = Old

\* Once nobody changes anything any more.
Undisturbed == <>[][~Requests /\ \A p \in Procs : ~Crash(p)]_vars

\* An outage that lasts is filed and pushed, unless the user closed its item
\* ("The item is filed in the Inbox and pushes once the outage is PUSH_AFTER_SECONDS old",
\* connection.py:7).
OutageReported ==
  (Undisturbed /\ <>[](enabled /\ db = "down"))
    => <>[](UserClosed \/ (item.state = "open" /\ item.delivery = "notify"))

\* When the database is back the item closes and stays closed, after a restart too
\* ("It closes on the first successful check", connection.py:8).
OutageCloses ==
  (Undisturbed /\ <>[](enabled /\ db = "up")) => <>[](item.state # "open")

\* "Only monitored targets alert" (connection.py:155): no outage is filed for a database whose
\* monitoring is off.  Not checked: the code breaks it, see README.md, Known differences.
OnlyMonitoredAlert == [][item.state # "open" /\ item'.state = "open" /\ ~Reopen => enabled]_vars
=============================================================================
