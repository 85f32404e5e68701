---------------------------- MODULE MonitorLoop ----------------------------
(***************************************************************************)
(* The monitor loop of a server (cli/features/monitor/loop.py), its run    *)
(* guards (run_guard.py) and the requests that turn monitoring on and off  *)
(* (put_settings, cli/features/monitor/api/routes.py).                     *)
(*                                                                         *)
(* A pass starts a cycle for every monitored name: a thread that waits for *)
(* the name's run guard, looks whether monitoring is still on, reads the   *)
(* database and stores what it found.  What a cycle stores is of one       *)
(* database; rows of a name no database has are NoDb's.  Admission to the  *)
(* database (TargetBackoff), the judgement of readings and what the loop   *)
(* remembers between passes are left out; two requests that stop the loop  *)
(* at once are taken for one; a guard's check and the statement it lets    *)
(* through, the last of which commits, are one step.                       *)
(***************************************************************************)
EXTENDS Naturals

CONSTANTS
  Names,     \* names a database can have
  Dbs,       \* databases
  NoDb,      \* what a name stands for that no database has
  Answering, \* names whose database answers a read in time; others may hang
  Start,     \* what the names stand for at first
  Settings,  \* bound: names whose monitoring is turned on and off besides
  MaxChanges \* bound: how often something is turned off, renamed or removed

ASSUME NoDbAssumption == NoDb \notin Dbs
ASSUME AnsweringAssumption == Answering \subseteq Names
ASSUME StartAssumption == Start \in [Names -> Dbs \cup {NoDb}]
ASSUME SettingsAssumption == Settings \subseteq Names
ASSUME MaxChangesAssumption == MaxChanges \in Nat

VARIABLES
  config,  \* the database of each name in config.toml
  enabled, \* monitor_setting "enabled" of each name, "unset" without a row
  history, \* whose readings and results the monitor store has under each name
  loop,    \* app.state.monitor_loop: "none", "on", or "stopping" while stop() waits
  pass,    \* the targets the pass under way has read
  cycles,  \* the threads of cycles, those of stopped loops too
  turning, \* names turned on whose request has yet to start the services
  offs,    \* a request that turned a name off has yet to look whether the loop may end
  held,    \* names whose run guard a rename holds
  gen,     \* the number of the latest loop (observed)
  wrote,   \* loops whose cycles stored something since the latest stop of a loop (observed)
  changes  \* how often something was turned off, renamed or removed (for the bound)

auxVars == <<gen, wrote, changes>>
loopVars == <<config, enabled, history, loop, pass, cycles, turning, offs, held, auxVars>>

\* `stopped` is the flag of the run guard of the loop that started it, loop number `born`.
Cycle == [name : Names, stage : {"waiting", "reading"}, db : Dbs \cup {NoDb},
          stopped : BOOLEAN, born : Nat]
NoPass == [read |-> FALSE, targets |-> {}]

LoopTypeOK ==
  /\ config \in [Names -> Dbs \cup {NoDb}]
  /\ enabled \in [Names -> {"unset", "off", "on"}]
  /\ history \in [Names -> SUBSET (Dbs \cup {NoDb})]
  /\ loop \in {"none", "on", "stopping"}
  /\ pass \in [read : BOOLEAN, targets : SUBSET Names]
  /\ cycles \subseteq Cycle
  /\ turning \subseteq Names
  /\ offs \in BOOLEAN
  /\ held \subseteq Names
  /\ gen \in Nat
  /\ wrote \subseteq Nat
  /\ changes \in Nat

\* A server that has monitored its databases for a while.
LoopInit ==
  /\ config = Start
  /\ enabled = [n \in Names |-> IF Start[n] = NoDb THEN "unset" ELSE "on"]
  /\ history = [n \in Names |-> {Start[n]} \ {NoDb}]
  /\ loop = "on" /\ pass = NoPass /\ cycles = {}
  /\ turning = {} /\ offs = FALSE /\ held = {}
  /\ gen = 1 /\ wrote = {} /\ changes = 0

Monitored == {n \in Names : enabled[n] = "on"}

-----------------------------------------------------------------------------
(* Cycles under their run guards                                           *)

Waiting(n) == [name |-> n, stage |-> "waiting", db |-> NoDb, stopped |-> FALSE, born |-> gen]

\* _cycling: names whose cycle of this loop is under way.
Cycling == {c.name : c \in {x \in cycles : ~x.stopped}}

FreeOfRenames(n) == \A c \in cycles : c.name = n => c.stage # "reading" \* mutant: no rename's guard

\* The lock of a name, which is the process's: cycles of a stopped loop and renames take it too.
Free(n) == n \notin held /\ \A c \in cycles : c.name = n => c.stage # "reading"

LetsAll(c) == TRUE \* mutant: no check in the statements

\* Whether the guard of the loop that started it lets a cycle go on (RunGuard.check).
Lets(c) == ~c.stopped

\* The first read of a cycle: an explicit "0" ends it.
GoesOn(c) == Lets(c) /\ enabled[c.name] # "off"

DueWhenAllRan == loop = "on" /\ ~pass.read /\ Cycling = {} \* mutant: waits for all cycles

\* A pass begins after a wake or the interval, whatever cycles still run.
Due == loop = "on" /\ ~pass.read

ReadTargets ==
  /\ Due
  /\ pass' = [read |-> TRUE, targets |-> Monitored]
  /\ UNCHANGED <<config, enabled, history, loop, cycles, turning, offs, held, auxVars>>

\* Databases cycle side by side; one whose last cycle is still running sits this pass out.
StartCycles ==
  /\ loop = "on" /\ pass.read
  /\ cycles' = cycles \cup {Waiting(n) : n \in pass.targets \ Cycling}
  /\ pass' = NoPass
  /\ UNCHANGED <<config, enabled, history, loop, turning, offs, held, auxVars>>

\* RunGuard.run has the lock; the cycle looks at the switch and connects.
EnterCycle(c) ==
  /\ c.stage = "waiting" /\ Free(c.name)
  /\ cycles' = (cycles \ {c}) \cup
       (IF GoesOn(c) THEN {[c EXCEPT !.stage = "reading", !.db = config[c.name]]} ELSE {})
  /\ UNCHANGED <<config, enabled, history, loop, pass, turning, offs, held, auxVars>>

\* The read returns or fails; what it says is stored, unless the loop was stopped.
CycleReturns(c) ==
  /\ c.stage = "reading"
  /\ cycles' = cycles \ {c}
  /\ IF Lets(c)
       THEN history' = [history EXCEPT ![c.name] = @ \cup {c.db}] /\ wrote' = wrote \cup {c.born}
       ELSE UNCHANGED <<history, wrote>>
  /\ UNCHANGED <<config, enabled, loop, pass, turning, offs, held, gen, changes>>

CycleStep(n) == \E c \in cycles : c.name = n /\ (EnterCycle(c) \/ CycleReturns(c))

-----------------------------------------------------------------------------
(* Monitoring is turned on and off                                         *)

\* put_settings stores the switch ...  Bound: not while a rename holds the name.
TurnOn(n) ==
  /\ n \in Settings /\ config[n] # NoDb /\ n \notin turning \cup held
  /\ enabled' = [enabled EXCEPT ![n] = "on"]
  /\ turning' = turning \cup {n}
  /\ UNCHANGED <<config, history, loop, pass, cycles, offs, held, auxVars>>

\* ... and once it has claimed a slot starts a loop, with a guard of its own, if there is none.
StartServices(n) ==
  /\ n \in turning
  /\ turning' = turning \ {n}
  /\ IF loop = "none" THEN loop' = "on" /\ gen' = gen + 1 ELSE UNCHANGED <<loop, gen>>
  /\ UNCHANGED <<config, enabled, history, pass, cycles, offs, held, wrote, changes>>

TurnOff(n) ==
  /\ changes < MaxChanges /\ changes' = changes + 1
  /\ n \in Settings /\ enabled[n] = "on" /\ config[n] # NoDb
  /\ enabled' = [enabled EXCEPT ![n] = "off"]
  /\ offs' = TRUE
  /\ UNCHANGED <<config, history, loop, pass, cycles, turning, held, gen, wrote>>

\* Once it has released the slot, it stops the loop if nothing is monitored any more: the flag
\* of the loop's guard is set for all its cycles, those that wait for the lock too.
AfterOff ==
  /\ offs /\ offs' = FALSE
  /\ IF loop = "on" /\ Monitored = {}
       THEN /\ loop' = "stopping" /\ pass' = NoPass /\ wrote' = {}
            /\ cycles' = {[c EXCEPT !.stopped = TRUE] : c \in cycles}
       ELSE UNCHANGED <<loop, pass, cycles, wrote>>
  /\ UNCHANGED <<config, enabled, history, turning, held, gen, changes>>

\* stop() waits for the threads, for 15 seconds at most; the state forgets the loop then.
LoopStopped ==
  /\ loop = "stopping" /\ loop' = "none"
  /\ UNCHANGED <<config, enabled, history, pass, cycles, turning, offs, held, auxVars>>

LoopNext ==
  \/ ReadTargets \/ StartCycles \/ AfterOff \/ LoopStopped
  \/ \E n \in Names : CycleStep(n) \/ TurnOn(n) \/ StartServices(n) \/ TurnOff(n)

\* A pass comes at least every `interval`; reads of an answering database end within
\* READ_DEADLINE_S; requests go on.
LoopFairness ==
  /\ WF_loopVars(ReadTargets) /\ WF_loopVars(StartCycles)
  /\ WF_loopVars(AfterOff) /\ WF_loopVars(LoopStopped)
  /\ \A n \in Names : WF_loopVars(StartServices(n))
  /\ \A n \in Answering : WF_loopVars(CycleStep(n))
=============================================================================
