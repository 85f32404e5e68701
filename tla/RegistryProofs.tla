--------------------------- MODULE RegistryProofs ---------------------------
(***************************************************************************)
(* Theorems about RunRegistry for every value of its constants: any number *)
(* of runs, events and streams.                                            *)
(***************************************************************************)
EXTENDS RunRegistry, FiniteSetTheorems, WellFoundedInduction, TLAPS

-----------------------------------------------------------------------------
(* Types                                                                   *)

\* A log with one more event is a log, and waking its waiters leaves streams streams.
LEMMA AppendTypes ==
  ASSUME TypeOK, NEW i \in Runs, NEW name \in Names, Append1(i, name)
  PROVE  /\ events' \in [Runs -> Seq(Names)]
         /\ waiters' \in [Runs -> SUBSET Subscribers]
         /\ stream' \in [Subscribers -> Stream]
<1>1. Append(events[i], name) \in Seq(Names)
  BY DEF TypeOK
<1>2. \A s \in Subscribers : stream[s] \in Stream
  BY DEF TypeOK
<1>3. \A s \in Subscribers : [stream[s] EXCEPT !.state = "reading"] \in Stream
  BY <1>2 DEF Stream
<1>4. events' \in [Runs -> Seq(Names)]
  BY <1>1 DEF TypeOK, Append1
<1>5. waiters' \in [Runs -> SUBSET Subscribers]
  BY DEF TypeOK, Append1
<1>6. stream' \in [Subscribers -> Stream]
  BY <1>2, <1>3 DEF Append1
<1> QED  BY <1>4, <1>5, <1>6

\* So is what the end of a run leaves.
LEMMA TerminalizeTypes ==
  ASSUME TypeOK, NEW i \in Runs, NEW final \in TERMINAL_STATUSES, Terminalize(i, final)
  PROVE  /\ known' \subseteq Runs
         /\ status' \in [Runs -> {"running", "needs_key"} \cup TERMINAL_STATUSES]
         /\ events' \in [Runs -> Seq(Names)]
         /\ waiters' \in [Runs -> SUBSET Subscribers]
         /\ stream' \in [Subscribers -> Stream]
<1>1. Append1(i, "run_end") /\ "run_end" \in Names
  BY DEF Terminalize, Names
<1> QED  BY <1>1, AppendTypes DEF TypeOK, Terminalize

LEMMA TypeInit == Init => TypeOK
<1> SUFFICES ASSUME Init PROVE TypeOK
  OBVIOUS
<1>1. << >> \in Seq(Names)
  OBVIOUS
<1>2. [run |-> NoRun, from |-> 0, index |-> 0, state |-> "idle"] \in Stream
  BY DEF Stream
<1>3. stream \in [Subscribers -> Stream]
  BY <1>2 DEF Init
<1>4. events \in [Runs -> Seq(Names)]
  BY <1>1 DEF Init
<1> QED  BY <1>3, <1>4 DEF Init, TypeOK, Phases, TERMINAL_STATUSES

\* A step of a run or of who cancels it.
LEMMA RunTypes ==
  ASSUME TypeOK, NEW i \in Runs, RunStep(i)
  PROVE  TypeOK'
<1>1. CASE Start(i)
  BY <1>1 DEF Start, TypeOK, Phases
<1>2. CASE Cancel(i)
  BY <1>2 DEF Cancel, CancelTasks, TypeOK
<1>3. CASE FirstTurn(i)
  BY <1>3 DEF FirstTurn, TypeOK, Phases
<1>4. CASE TerminalizeCancelledBeforeStart(i)
  <2>1. Terminalize(i, "cancelled") /\ "cancelled" \in TERMINAL_STATUSES
    BY <1>4 DEF TerminalizeCancelledBeforeStart, TERMINAL_STATUSES
  <2> QED  BY <1>4, <2>1, TerminalizeTypes DEF TerminalizeCancelledBeforeStart, TypeOK, Phases
<1>5. ASSUME NEW name \in Names, Yield(i, name)
      PROVE  TypeOK'
  <2>1. Append1(i, name)
    BY <1>5 DEF Yield
  <2>2. outcome' \in [Runs -> TERMINAL_STATUSES]
    BY <1>5 DEF Yield, OutcomeAfter, TypeOK, TERMINAL_STATUSES
  <2> QED  BY <1>5, <2>1, <2>2, AppendTypes DEF Yield, TypeOK
<1>6. CASE Exhausted(i)
  BY <1>6 DEF Exhausted, TypeOK, Phases
<1>7. CASE Raised(i)
  <2>1. Append1(i, "error") /\ "error" \in Names
    BY <1>7 DEF Raised, Names
  <2> QED  BY <1>7, <2>1, AppendTypes DEF Raised, TypeOK, Phases, TERMINAL_STATUSES
<1>8. CASE CancelArrives(i) \/ CancelSwallowed(i)
  BY <1>8 DEF CancelArrives, CancelSwallowed, TypeOK, Phases, TERMINAL_STATUSES
<1>10. CASE CancelFails(i)
  <2>1. Append1(i, "error") /\ "error" \in Names
    BY <1>10 DEF CancelFails, Names
  <2> QED  BY <1>10, <2>1, AppendTypes DEF CancelFails, TypeOK, Phases, TERMINAL_STATUSES
<1>9. CASE Close(i)
  <2>1. Terminalize(i, outcome[i]) /\ outcome[i] \in TERMINAL_STATUSES
    BY <1>9 DEF Close, TypeOK
  <2> QED  BY <1>9, <2>1, TerminalizeTypes DEF Close, TypeOK, Phases
<1> QED  BY <1>1, <1>2, <1>3, <1>4, <1>5, <1>6, <1>7, <1>8, <1>9, <1>10 DEF RunStep

\* A step of a stream.
LEMMA StreamTypes ==
  ASSUME TypeOK, NEW s \in Subscribers, StreamStep(s)
  PROVE  TypeOK'
<1>1. stream[s] \in Stream
  BY DEF TypeOK
<1>2. ASSUME NEW i \in Runs, NEW after \in Afters, Subscribe(s, i, after)
      PROVE  TypeOK'
  <2>1. [run |-> i, from |-> after, index |-> after, state |-> "asked"] \in Stream
    BY AftersAssumption DEF Stream
  <2> QED  BY <1>2, <2>1 DEF Subscribe, TypeOK
<1>3. CASE Open(s)
  BY <1>1, <1>3 DEF Open, TypeOK, Stream
<1>4. CASE Read(s)
  <2>1. /\ [stream[s] EXCEPT !.index = @ + 1] \in Stream
        /\ \A state \in {"over", "waiting", "gone"} : [stream[s] EXCEPT !.state = state] \in Stream
    BY <1>1 DEF Stream
  <2>2. \/ /\ stream' = [stream EXCEPT ![s].index = @ + 1]
           /\ waiters' = waiters
        \/ /\ \E state \in {"over", "gone"} : stream' = [stream EXCEPT ![s].state = state]
           /\ waiters' = waiters
        \/ /\ stream' = [stream EXCEPT ![s].state = "waiting"]
           /\ waiters' = [waiters EXCEPT ![stream[s].run] = @ \cup {s}]
    BY <1>4 DEF Read
  <2>3. stream' \in [Subscribers -> Stream]
    BY <2>1, <2>2 DEF TypeOK
  <2>4. waiters' \in [Runs -> SUBSET Subscribers]
    <3>1. \A j \in Runs : /\ waiters[j] \in SUBSET Subscribers
                          /\ waiters[j] \cup {s} \in SUBSET Subscribers
      BY DEF TypeOK
    <3>2. CASE waiters' = [waiters EXCEPT ![stream[s].run] = @ \cup {s}]
      <4> DEFINE run == stream[s].run
      <4>1. waiters' = [j \in Runs |-> IF j = run THEN waiters[j] \cup {s} ELSE waiters[j]]
        BY <3>2 DEF TypeOK
      <4> HIDE DEF run
      <4> QED  BY <3>1, <4>1
    <3> QED  BY <2>2, <3>2 DEF TypeOK
  <2> QED  BY <1>4, <2>3, <2>4 DEF Read, TypeOK
<1>5. CASE Leave(s)
  BY <1>1, <1>5 DEF Leave, TypeOK, Stream
<1> QED  BY <1>2, <1>3, <1>4, <1>5 DEF StreamStep

LEMMA TypeStep ==
  ASSUME TypeOK, [Next]_vars
  PROVE  TypeOK'
<1>1. ASSUME NEW t \in Targets, CancelTarget(t)
      PROVE  TypeOK'
  BY <1>1 DEF CancelTarget, CancelTasks, TypeOK
<1>2. CASE Reset
  BY <1>2 DEF Reset, CancelTasks, TypeOK
<1>3. CASE UNCHANGED vars
  BY <1>3 DEF vars, TypeOK
<1> QED  BY <1>1, <1>2, <1>3, RunTypes, StreamTypes DEF Next

\* Every run keeps a log of known events and one of the known statuses, every stream a place in
\* the log it reads, whatever is started, cancelled, wiped or forgotten.
THEOREM TypeCorrect == Spec => []TypeOK
<1>1. TypeOK /\ [Next]_vars => TypeOK'
  BY TypeStep
<1> QED  BY <1>1, TypeInit, PTL DEF Spec

-----------------------------------------------------------------------------
(* Every run ends once, in one run_end                                     *)

\* The positions of run_end in a run's log.
RunEnds(i) == {n \in 1..Len(events[i]) : events[i][n] = "run_end"}

\* A run is over when its task is, so nothing is appended to the log of a run that is over.
OverOnceEnded == \A i \in Runs : Terminal(i) <=> phase[i] = "ended"

RunInv == TypeOK /\ EndedOnce /\ OverOnceEnded

LEMMA AppendLength ==
  ASSUME TypeOK, NEW i \in Runs, NEW name \in Names, Append1(i, name)
  PROVE  /\ Len(events'[i]) = Len(events[i]) + 1
         /\ events'[i][Len(events[i]) + 1] = name
         /\ \A n \in 1..Len(events[i]) : events'[i][n] = events[i][n]
         /\ \A j \in Runs \ {i} : events'[j] = events[j]
<1> DEFINE old == events[i]
<1>1. old \in Seq(Names)
  BY DEF TypeOK
<1>2. events'[i] = Append(old, name)
  BY DEF Append1, TypeOK
<1>3. /\ Len(Append(old, name)) = Len(old) + 1
      /\ Append(old, name)[Len(old) + 1] = name
      /\ \A n \in 1..Len(old) : Append(old, name)[n] = old[n]
  <2> HIDE DEF old
  <2> QED  BY <1>1
<1>4. \A j \in Runs \ {i} : events'[j] = events[j]
  BY DEF Append1, TypeOK
<1> QED  BY <1>2, <1>3, <1>4

\* What one more event does to the positions of run_end.
LEMMA AppendEnds ==
  ASSUME TypeOK, NEW i \in Runs, NEW name \in Names, Append1(i, name)
  PROVE  /\ RunEnds(i)' = RunEnds(i) \cup (IF name = "run_end" THEN {Len(events'[i])} ELSE {})
         /\ \A j \in Runs \ {i} : RunEnds(j)' = RunEnds(j)
<1>1. Len(events[i]) \in Nat
  BY DEF TypeOK
<1>2. /\ Len(events'[i]) = Len(events[i]) + 1
      /\ events'[i][Len(events[i]) + 1] = name
      /\ \A n \in 1..Len(events[i]) : events'[i][n] = events[i][n]
      /\ \A j \in Runs \ {i} : events'[j] = events[j]
  BY AppendLength
<1>3. RunEnds(i)' = RunEnds(i) \cup (IF name = "run_end" THEN {Len(events'[i])} ELSE {})
  BY <1>1, <1>2 DEF RunEnds
<1> QED  BY <1>2, <1>3 DEF RunEnds

\* Read with RunEnds.
LEMMA EndedOnceIs ==
  EndedOnce <=> \A i \in Runs : RunEnds(i) = IF Terminal(i) THEN {Len(events[i])} ELSE {}
BY DEF EndedOnce, RunEnds

\* A step that leaves the logs, the statuses and what has ended alone.
LEMMA QuietRuns ==
  ASSUME RunInv, TypeOK', UNCHANGED <<events, status>>,
         \A j \in Runs : phase'[j] = "ended" <=> phase[j] = "ended"
  PROVE  RunInv'
<1>1. \A j \in Runs : Terminal(j)' <=> Terminal(j)
  BY DEF Terminal
<1> QED  BY <1>1 DEF RunInv, EndedOnce, OverOnceEnded

\* A run that is not over appends an event that is not its end.
LEMMA RunGoesOn ==
  ASSUME RunInv, TypeOK', NEW i \in Runs, NEW name \in Names \ {"run_end"}, Append1(i, name),
         phase[i] # "ended", phase'[i] # "ended",
         status'[i] \in {"running", "needs_key"},
         \A j \in Runs \ {i} : status'[j] = status[j] /\ phase'[j] = phase[j]
  PROVE  RunInv'
<1>1. \A j \in Runs : RunEnds(j)' = RunEnds(j)
  BY AppendEnds DEF RunInv
<1>2. ~Terminal(i) /\ ~Terminal(i)'
  BY DEF RunInv, OverOnceEnded, Terminal, TERMINAL_STATUSES
<1>3. \A j \in Runs \ {i} : (Terminal(j)' <=> Terminal(j)) /\ events'[j] = events[j]
  BY AppendLength DEF Terminal, RunInv
<1>4. \A j \in Runs : RunEnds(j)' = IF Terminal(j)' THEN {Len(events'[j])} ELSE {}
  BY <1>1, <1>2, <1>3, EndedOnceIs DEF RunInv
<1>5. EndedOnce'
  BY <1>4 DEF EndedOnce, RunEnds
<1> QED  BY <1>2, <1>3, <1>5 DEF RunInv, OverOnceEnded

\* A run that is not over ends.
LEMMA RunGetsOver ==
  ASSUME RunInv, TypeOK', NEW i \in Runs, NEW final \in TERMINAL_STATUSES, Terminalize(i, final),
         phase[i] # "ended", phase' = [phase EXCEPT ![i] = "ended"]
  PROVE  RunInv'
<1>1. Append1(i, "run_end") /\ "run_end" \in Names
  BY DEF Terminalize, Names
<1>2. /\ RunEnds(i)' = RunEnds(i) \cup {Len(events'[i])}
      /\ \A j \in Runs \ {i} : RunEnds(j)' = RunEnds(j)
  BY <1>1, AppendEnds DEF RunInv
<1>3. ~Terminal(i) /\ Terminal(i)'
  BY DEF RunInv, OverOnceEnded, Terminal, Terminalize, TypeOK
<1>4. RunEnds(i) = {}
  BY <1>3, EndedOnceIs DEF RunInv
<1>5. \A j \in Runs \ {i} : (Terminal(j)' <=> Terminal(j)) /\ events'[j] = events[j]
  BY <1>1, AppendLength DEF Terminal, RunInv, Terminalize, TypeOK
<1>6. \A j \in Runs : RunEnds(j)' = IF Terminal(j)' THEN {Len(events'[j])} ELSE {}
  BY <1>2, <1>3, <1>4, <1>5, EndedOnceIs DEF RunInv
<1>7. EndedOnce'
  BY <1>6 DEF EndedOnce, RunEnds
<1>8. phase'[i] = "ended" /\ \A j \in Runs \ {i} : phase'[j] = phase[j]
  BY DEF RunInv, TypeOK
<1> QED  BY <1>3, <1>5, <1>7, <1>8 DEF RunInv, OverOnceEnded

LEMMA RunInit == Init => RunInv
<1> SUFFICES ASSUME Init PROVE RunInv
  OBVIOUS
<1>1. \A i \in Runs : events[i] = << >> /\ ~Terminal(i) /\ phase[i] = "none"
  BY DEF Init, Terminal, TERMINAL_STATUSES
<1>2. EndedOnce
  BY <1>1 DEF EndedOnce
<1> QED  BY <1>1, <1>2, TypeInit DEF RunInv, OverOnceEnded

LEMMA RunStepKeeps ==
  ASSUME RunInv, TypeOK', NEW i \in Runs, RunStep(i)
  PROVE  RunInv'
<1> USE DEF RunInv
<1>1. CASE \/ Start(i) \/ Cancel(i) \/ FirstTurn(i) \/ Exhausted(i) \/ CancelArrives(i)
           \/ CancelSwallowed(i)
  <2>1. \A j \in Runs : phase'[j] = "ended" <=> phase[j] = "ended"
    BY <1>1 DEF Start, Cancel, FirstTurn, Exhausted, CancelArrives, CancelSwallowed, TypeOK
  <2>2. UNCHANGED <<events, status>>
    BY <1>1 DEF Start, Cancel, FirstTurn, Exhausted, CancelArrives, CancelSwallowed
  <2> QED  BY <2>1, <2>2, QuietRuns
<1>2. CASE TerminalizeCancelledBeforeStart(i)
  <2>1. "cancelled" \in TERMINAL_STATUSES
    BY DEF TERMINAL_STATUSES
  <2> QED  BY <1>2, <2>1, RunGetsOver DEF TerminalizeCancelledBeforeStart
<1>3. ASSUME NEW name \in Names, Yield(i, name)
      PROVE  RunInv'
  <2>1. /\ Append1(i, name) /\ name \in Names \ {"run_end"}
        /\ phase[i] = "driving" /\ phase' = phase
        /\ status'[i] \in {"running", "needs_key"}
        /\ \A j \in Runs \ {i} : status'[j] = status[j]
    BY <1>3 DEF Yield, TypeOK
  <2> QED  BY <2>1, RunGoesOn
<1>4. CASE Raised(i) \/ CancelFails(i)
  <2>1. /\ Append1(i, "error") /\ "error" \in Names \ {"run_end"}
        /\ phase[i] = "driving" /\ phase'[i] = "closing"
        /\ \A j \in Runs \ {i} : phase'[j] = phase[j]
        /\ status' = status
    BY <1>4 DEF Raised, CancelFails, TypeOK, Names
  <2>2. status[i] \in {"running", "needs_key"}
    BY <2>1 DEF OverOnceEnded, Terminal, TypeOK
  <2> QED  BY <2>1, <2>2, RunGoesOn
<1>5. CASE Close(i)
  <2>1. outcome[i] \in TERMINAL_STATUSES /\ phase[i] = "closing"
    BY <1>5 DEF Close, TypeOK
  <2> QED  BY <1>5, <2>1, RunGetsOver DEF Close
<1> QED  BY <1>1, <1>2, <1>3, <1>4, <1>5 DEF RunStep

LEMMA RunInvStep ==
  ASSUME RunInv, [Next]_vars
  PROVE  RunInv'
<1>1. TypeOK'
  BY TypeStep DEF RunInv
<1>2. CASE UNCHANGED <<events, status, phase>>
  BY <1>1, <1>2, QuietRuns
<1>3. ASSUME NEW s \in Subscribers, StreamStep(s)
      PROVE  UNCHANGED <<events, status, phase>>
  BY <1>3 DEF StreamStep, Subscribe, Open, Read, Leave
<1>4. ASSUME NEW t \in Targets, CancelTarget(t)
      PROVE  UNCHANGED <<events, status, phase>>
  BY <1>4 DEF CancelTarget
<1>5. CASE Reset
  BY <1>2, <1>5 DEF Reset
<1>6. CASE UNCHANGED vars
  BY <1>2, <1>6 DEF vars
<1> QED  BY <1>1, <1>2, <1>3, <1>4, <1>5, <1>6, RunStepKeeps DEF Next

\* However a run ends, and whenever it is cancelled, its log ends in run_end when it is over, and
\* has no run_end before.
THEOREM LogEndsOnce == Spec => []EndedOnce
<1>1. RunInv /\ [Next]_vars => RunInv'
  BY RunInvStep
<1>2. RunInv => EndedOnce
  BY DEF RunInv
<1> QED  BY <1>1, <1>2, RunInit, PTL DEF Spec

-----------------------------------------------------------------------------
(* A stream that ended had every event                                     *)

\* Where a stream is, from where it was opened in a log of this size: in the log, or where it was
\* opened.
PlaceIn(size, place) ==
  place.from <= place.index /\ (place.index <= size \/ place.index = place.from)

\* Every open stream is in such a place.
PlaceKept ==
  \A s \in Subscribers :
    stream[s].state # "idle" =>
      stream[s].run \in Runs /\ PlaceIn(Len(events[stream[s].run]), stream[s])

\* The place of a stream that had everything.
AtEnd(size, place) == place.index = IF place.from > size THEN place.from ELSE size

StreamInv == RunInv /\ PlaceKept /\ StreamComplete

\* What a step of a run leaves to the streams: logs grow, a log that ended stays, and a stream is
\* at most woken.
LEMMA LogsOnlyGrow ==
  ASSUME RunInv, NEW i \in Runs, RunStep(i)
  PROVE  /\ \A j \in Runs : Len(events[j]) <= Len(events'[j])
         /\ \A j \in Runs : Terminal(j) => Terminal(j)' /\ events'[j] = events[j]
         /\ \A s \in Subscribers :
              /\ stream'[s].run = stream[s].run
              /\ stream'[s].from = stream[s].from
              /\ stream'[s].index = stream[s].index
              /\ stream'[s].state = stream[s].state
                   \/ (stream[s].state = "waiting" /\ stream'[s].state = "reading")
<1> USE DEF RunInv
<1>1. \A s \in Subscribers : stream[s] \in Stream
  BY DEF TypeOK
<1>2. \A j \in Runs : Len(events[j]) \in Nat
  BY DEF TypeOK
<1>3. CASE \/ Start(i) \/ Cancel(i) \/ FirstTurn(i) \/ Exhausted(i) \/ CancelArrives(i)
           \/ CancelSwallowed(i)
  <2>1. UNCHANGED <<events, status, stream>>
    BY <1>3 DEF Start, Cancel, FirstTurn, Exhausted, CancelArrives, CancelSwallowed
  <2> QED  BY <1>2, <2>1 DEF Terminal
<1>4. ASSUME NEW name \in Names, Append1(i, name), phase[i] # "ended",
             \A j \in Runs \ {i} : status'[j] = status[j]
      PROVE  /\ \A j \in Runs : Len(events[j]) <= Len(events'[j])
             /\ \A j \in Runs : Terminal(j) => Terminal(j)' /\ events'[j] = events[j]
             /\ \A s \in Subscribers :
                  /\ stream'[s].run = stream[s].run
                  /\ stream'[s].from = stream[s].from
                  /\ stream'[s].index = stream[s].index
                  /\ stream'[s].state = stream[s].state
                       \/ (stream[s].state = "waiting" /\ stream'[s].state = "reading")
  <2>1. /\ Len(events'[i]) = Len(events[i]) + 1
        /\ \A j \in Runs \ {i} : events'[j] = events[j]
    BY <1>4, AppendLength
  <2>2. \A j \in Runs : Len(events[j]) <= Len(events'[j])
    BY <1>2, <2>1
  <2>3. \A j \in Runs : Terminal(j) => Terminal(j)' /\ events'[j] = events[j]
    BY <1>4, <2>1 DEF OverOnceEnded, Terminal
  <2>4. ASSUME NEW s \in Subscribers
        PROVE  /\ stream'[s].run = stream[s].run
               /\ stream'[s].from = stream[s].from
               /\ stream'[s].index = stream[s].index
               /\ stream'[s].state = stream[s].state
                    \/ (stream[s].state = "waiting" /\ stream'[s].state = "reading")
    <3>1. \/ stream'[s] = stream[s]
          \/ stream[s].state = "waiting" /\ stream'[s] = [stream[s] EXCEPT !.state = "reading"]
      BY <1>4 DEF Append1
    <3> QED  BY <1>1, <3>1 DEF Stream
  <2> QED  BY <2>2, <2>3, <2>4
<1>5. CASE TerminalizeCancelledBeforeStart(i)
  <2>1. /\ Append1(i, "run_end") /\ "run_end" \in Names /\ phase[i] # "ended"
        /\ \A j \in Runs \ {i} : status'[j] = status[j]
    BY <1>5 DEF TerminalizeCancelledBeforeStart, Terminalize, Names, TypeOK
  <2> QED  BY <1>4, <2>1
<1>6. ASSUME NEW name \in Names, Yield(i, name)
      PROVE  /\ Append1(i, name) /\ phase[i] # "ended"
             /\ \A j \in Runs \ {i} : status'[j] = status[j]
  BY <1>6 DEF Yield, TypeOK
<1>7. CASE Raised(i) \/ CancelFails(i)
  <2>1. Append1(i, "error") /\ "error" \in Names /\ phase[i] # "ended" /\ status' = status
    BY <1>7 DEF Raised, CancelFails, Names
  <2> QED  BY <1>4, <2>1
<1>8. CASE Close(i)
  <2>1. /\ Append1(i, "run_end") /\ "run_end" \in Names /\ phase[i] # "ended"
        /\ \A j \in Runs \ {i} : status'[j] = status[j]
    BY <1>8 DEF Close, Terminalize, Names, TypeOK
  <2> QED  BY <1>4, <2>1
<1> QED  BY <1>3, <1>4, <1>5, <1>6, <1>7, <1>8 DEF RunStep

LEMMA StreamCompleteIs ==
  StreamComplete <=>
    \A s \in Subscribers : stream[s].state = "over" =>
      Terminal(stream[s].run) /\ AtEnd(Len(events[stream[s].run]), stream[s])
BY DEF StreamComplete, AtEnd

LEMMA RunKeepsStreams ==
  ASSUME StreamInv, NEW i \in Runs, RunStep(i), RunInv'
  PROVE  StreamInv'
<1>1. \A s \in Subscribers : stream[s] \in Stream
  BY DEF StreamInv, RunInv, TypeOK
<1>2. /\ \A j \in Runs : Len(events[j]) \in Nat
      /\ \A j \in Runs : Len(events'[j]) \in Nat
  BY DEF StreamInv, RunInv, TypeOK
<1>3. ASSUME NEW s \in Subscribers, stream'[s].state # "idle"
      PROVE  /\ stream'[s].run \in Runs
             /\ PlaceIn(Len(events'[stream'[s].run]), stream'[s])
  <2>1. /\ stream[s].state # "idle" /\ stream'[s].run = stream[s].run
        /\ stream'[s].from = stream[s].from /\ stream'[s].index = stream[s].index
    BY <1>3, LogsOnlyGrow DEF StreamInv
  <2>2. stream[s].run \in Runs /\ PlaceIn(Len(events[stream[s].run]), stream[s])
    BY <2>1 DEF StreamInv, PlaceKept
  <2>3. Len(events[stream[s].run]) <= Len(events'[stream[s].run])
    BY <2>2, LogsOnlyGrow DEF StreamInv
  <2> QED  BY <1>1, <1>2, <2>1, <2>2, <2>3 DEF Stream, PlaceIn
<1>4. ASSUME NEW s \in Subscribers, stream'[s].state = "over"
      PROVE  /\ status'[stream'[s].run] \in TERMINAL_STATUSES
             /\ AtEnd(Len(events'[stream'[s].run]), stream'[s])
  <2>1. /\ stream[s].state = "over" /\ stream'[s].run = stream[s].run
        /\ stream'[s].from = stream[s].from /\ stream'[s].index = stream[s].index
    BY <1>4, LogsOnlyGrow DEF StreamInv
  <2>2. /\ stream[s].run \in Runs /\ Terminal(stream[s].run)
        /\ AtEnd(Len(events[stream[s].run]), stream[s])
    BY <2>1, StreamCompleteIs DEF StreamInv, PlaceKept
  <2> QED  BY <2>1, <2>2, LogsOnlyGrow DEF StreamInv, Terminal, AtEnd
<1>5. PlaceKept'
  BY <1>3 DEF PlaceKept
<1>6. StreamComplete'
  BY <1>4 DEF StreamComplete, Terminal, AtEnd
<1> QED  BY <1>5, <1>6 DEF StreamInv

LEMMA StreamKeepsStreams ==
  ASSUME StreamInv, NEW s \in Subscribers, StreamStep(s), RunInv'
  PROVE  StreamInv'
<1>1. stream[s] \in Stream /\ stream \in [Subscribers -> Stream]
  BY DEF StreamInv, RunInv, TypeOK
<1>2. /\ UNCHANGED <<events, status>>
      /\ \A r \in Subscribers \ {s} : stream'[r] = stream[r]
  BY DEF StreamStep, Subscribe, Open, Read, Leave, StreamInv, RunInv, TypeOK
<1>3. \A i \in Runs : Len(events[i]) \in Nat
  BY DEF StreamInv, RunInv, TypeOK
<1>4. SUFFICES
        /\ stream'[s].state # "idle" => /\ stream'[s].run \in Runs
                                        /\ PlaceIn(Len(events[stream'[s].run]), stream'[s])
        /\ stream'[s].state = "over" => /\ Terminal(stream'[s].run)
                                        /\ AtEnd(Len(events[stream'[s].run]), stream'[s])
  <2>1. \A r \in Subscribers \ {s} : stream[r].state = "over" =>
          Terminal(stream[r].run) /\ AtEnd(Len(events[stream[r].run]), stream[r])
    BY StreamCompleteIs DEF StreamInv
  <2>2. PlaceKept'
    BY <1>2, <1>4 DEF StreamInv, PlaceKept
  <2>3. StreamComplete'
    BY <1>2, <1>4, <2>1 DEF StreamComplete, Terminal, AtEnd
  <2> QED  BY <2>2, <2>3 DEF StreamInv
<1>5. ASSUME NEW i \in Runs, NEW after \in Afters, Subscribe(s, i, after)
      PROVE  /\ stream'[s].run \in Runs
             /\ PlaceIn(Len(events[stream'[s].run]), stream'[s])
             /\ stream'[s].state # "over"
  <2>1. stream'[s] = [run |-> i, from |-> after, index |-> after, state |-> "asked"]
    BY <1>1, <1>5 DEF Subscribe
  <2>2. after \in Int
    BY AftersAssumption
  <2> QED  BY <2>1, <2>2 DEF PlaceIn
<1>6. ASSUME NEW state \in {"reading", "unknown", "gone", "waiting"}, stream[s].state # "idle",
             stream' = [stream EXCEPT ![s].state = state]
      PROVE  /\ stream'[s].run \in Runs
             /\ PlaceIn(Len(events[stream'[s].run]), stream'[s])
             /\ stream'[s].state # "over"
  <2>1. /\ stream'[s].run = stream[s].run /\ stream'[s].index = stream[s].index
        /\ stream'[s].from = stream[s].from /\ stream'[s].state = state
    BY <1>1, <1>6 DEF Stream
  <2> QED  BY <1>6, <2>1 DEF StreamInv, PlaceKept, PlaceIn
<1>7. CASE Open(s)
  <2>1. \E state \in {"reading", "unknown"} : stream' = [stream EXCEPT ![s].state = state]
    BY <1>7 DEF Open
  <2> QED  BY <1>6, <1>7, <2>1 DEF Open
<1>8. CASE Leave(s)
  BY <1>6, <1>8 DEF Leave
<1>9. CASE Read(s)
  <2> DEFINE size == Len(events[stream[s].run])
  <2>1. /\ stream[s].run \in Runs /\ PlaceIn(size, stream[s])
        /\ stream[s].index \in Int /\ stream[s].from \in Int /\ stream[s].state = "reading"
    BY <1>1, <1>9 DEF Read, StreamInv, PlaceKept, Stream
  <2>2. size \in Nat
    BY <1>3, <2>1
  <2>3. \/ \E state \in {"gone", "waiting"} : stream' = [stream EXCEPT ![s].state = state]
        \/ stream[s].index < size /\ stream' = [stream EXCEPT ![s].index = @ + 1]
        \/ /\ stream[s].index >= size /\ Terminal(stream[s].run)
           /\ stream' = [stream EXCEPT ![s].state = "over"]
    BY <1>9, <2>1, <2>2 DEF Read
  <2> HIDE DEF size
  <2>4. CASE stream[s].index < size /\ stream' = [stream EXCEPT ![s].index = @ + 1]
    <3>1. /\ stream'[s].run = stream[s].run /\ stream'[s].state = "reading"
          /\ stream'[s].from = stream[s].from /\ stream'[s].index = stream[s].index + 1
      BY <1>1, <2>1, <2>4 DEF Stream
    <3>2. PlaceIn(size, stream'[s])
      BY <2>1, <2>2, <2>4, <3>1 DEF PlaceIn
    <3> QED  BY <2>1, <3>1, <3>2 DEF size
  <2>5. CASE /\ stream[s].index >= size /\ Terminal(stream[s].run)
             /\ stream' = [stream EXCEPT ![s].state = "over"]
    <3>1. /\ stream'[s].run = stream[s].run /\ stream'[s].index = stream[s].index
          /\ stream'[s].from = stream[s].from
      BY <1>1, <2>5 DEF Stream
    <3>2. PlaceIn(size, stream'[s]) /\ AtEnd(size, stream'[s])
      BY <2>1, <2>2, <2>5, <3>1 DEF PlaceIn, AtEnd
    <3> QED  BY <2>1, <2>5, <3>1, <3>2 DEF size
  <2> QED  BY <1>6, <2>1, <2>3, <2>4, <2>5
<1> QED  BY <1>5, <1>7, <1>8, <1>9 DEF StreamStep

LEMMA StreamInvStep ==
  ASSUME StreamInv, [Next]_vars
  PROVE  StreamInv'
<1>1. RunInv'
  BY RunInvStep DEF StreamInv
<1>2. CASE UNCHANGED <<events, status, stream>>
  BY <1>1, <1>2 DEF StreamInv, PlaceKept, StreamComplete, Terminal
<1>3. ASSUME NEW t \in Targets, CancelTarget(t)
      PROVE  UNCHANGED <<events, status, stream>>
  BY <1>3 DEF CancelTarget
<1>4. CASE Reset
  BY <1>2, <1>4 DEF Reset
<1>5. CASE UNCHANGED vars
  BY <1>2, <1>5 DEF vars
<1> QED  BY <1>1, <1>2, <1>3, <1>4, <1>5, RunKeepsStreams, StreamKeepsStreams DEF Next

\* A stream that ended followed its run to run_end: it never looks at the end before the events
\* that came with it, for any number of streams, events and runs forgotten meanwhile.
THEOREM StreamsHadAll == Spec => []StreamComplete
<1>1. Init => StreamInv
  BY RunInit DEF StreamInv, PlaceKept, StreamComplete, Init
<1>2. StreamInv /\ [Next]_vars => StreamInv'
  BY StreamInvStep
<1>3. StreamInv => StreamComplete
  BY DEF StreamInv
<1> QED  BY <1>1, <1>2, <1>3, PTL DEF Spec


-----------------------------------------------------------------------------
(* What retention keeps                                                    *)

\* The runs the registry knows that are over.
Kept == {i \in known : Terminal(i)}

\* Between two ends no more finished runs are known than retention leaves.
RetentionInv == RunInv /\ Cardinality(Kept) <= MaxFinished

\* A set of numbers that is not empty has a least one.
LEMMA LeastNumber ==
  ASSUME NEW S \in SUBSET Nat, S # {}
  PROVE  \E x \in S : \A y \in S : x <= y
<1>1. IsWellFoundedOn(OpToRel(<, Nat), Nat)
  BY NatLessThanWellFounded
<1>2. PICK x \in S : \A y \in S : <<y, x>> \notin OpToRel(<, Nat)
  BY <1>1, WFMin
<1>3. ASSUME NEW y \in S
      PROVE  x <= y
  <2>1. <<y, x>> \in Nat \X Nat /\ x \in Nat /\ y \in Nat
    OBVIOUS
  <2>2. ~(y < x)
    BY <1>2, <2>1 DEF OpToRel
  <2> QED  BY <2>1, <2>2
<1> QED  BY <1>3

\* Numbers of which each has fewer than n above it in the set are n at most.
LEMMA FewAbove ==
  ASSUME NEW S \in SUBSET Nat, IsFiniteSet(S), NEW n \in Nat,
         \A x \in S : Cardinality({y \in S : y > x}) < n
  PROVE  Cardinality(S) <= n
<1>1. CASE S = {}
  BY <1>1, FS_EmptySet
<1>2. CASE S # {}
  <2>1. PICK x \in S : \A y \in S : x <= y
    BY <1>2, LeastNumber
  <2> DEFINE above == {y \in S : y > x}
  <2>2. IsFiniteSet(above) /\ Cardinality(above) < n /\ Cardinality(above) \in Nat
    BY FS_Subset, FS_CardinalityType
  <2>3. S = above \cup {x} /\ x \notin above
    <3>1. \A y \in S : y = x \/ y > x
      BY <2>1
    <3>2. x \in Nat /\ ~(x > x)
      OBVIOUS
    <3> QED  BY <3>1, <3>2
  <2>4. Cardinality(S) = Cardinality(above) + 1
    <3> HIDE DEF above
    <3> QED  BY <2>2, <2>3, FS_AddElement
  <2> HIDE DEF above
  <2> QED  BY <2>2, <2>4
<1> QED  BY <1>1, <1>2

LEMMA RunsFinite ==
  ASSUME NEW S, S \subseteq Runs
  PROVE  IsFiniteSet(S) /\ Cardinality(S) \in Nat /\ S \in SUBSET Nat
<1>1. IsFiniteSet(Runs) /\ Runs \in SUBSET Nat
  BY FS_Interval, BoundAssumption DEF Runs
<1> QED  BY <1>1, FS_Subset, FS_CardinalityType

\* The end of a run leaves MaxFinished finished runs at most, and forgets none that goes on.
LEMMA EndsRetain ==
  ASSUME RunInv, NEW i \in Runs, NEW final \in TERMINAL_STATUSES, Terminalize(i, final)
  PROVE  /\ \A j \in known \ known' : Terminal(j)'
         /\ Cardinality(Kept') <= MaxFinished
<1>1. known \subseteq Runs /\ known' = known \ Evicted(status')
  BY DEF RunInv, TypeOK, Terminalize
<1>2. \A j \in known \ known' : Terminal(j)'
  BY <1>1 DEF Evicted, Finished, Terminal
<1>3. ASSUME NEW x \in Kept'
      PROVE  Cardinality({y \in Kept' : y > x}) < MaxFinished
  <2> DEFINE over == {j \in known : j > x /\ Finished(j, status')}
  <2>1. x \in known /\ Finished(x, status') /\ x \notin Evicted(status')
    BY <1>1 DEF Kept, Finished, Terminal
  <2>2. ~(Cardinality(over) >= MaxFinished)
    BY <2>1 DEF Evicted
  <2>3. {y \in Kept' : y > x} \in SUBSET over
    BY <1>1 DEF Kept, Finished, Terminal
  <2>4. IsFiniteSet(over) /\ Cardinality(over) \in Nat
    BY <1>1, RunsFinite
  <2>5. {y \in Kept' : y > x} \subseteq Runs
    BY <1>1 DEF Kept
  <2>6. Cardinality({y \in Kept' : y > x}) \in Nat
    BY <2>5, RunsFinite
  <2> HIDE DEF over
  <2>7. Cardinality({y \in Kept' : y > x}) <= Cardinality(over)
    BY <2>3, <2>4, FS_Subset
  <2> QED  BY <2>2, <2>4, <2>6, <2>7, BoundAssumption
<1>4. Kept' \subseteq Runs
  BY <1>1 DEF Kept
<1>5. Kept' \in SUBSET Nat /\ IsFiniteSet(Kept')
  BY <1>4, RunsFinite
<1>6. Cardinality(Kept') <= MaxFinished
  BY <1>3, <1>5, FewAbove, BoundAssumption
<1> QED  BY <1>2, <1>6

\* Nobody else adds to the finished runs.
LEMMA KeptShrinks ==
  ASSUME RetentionInv, Kept' \subseteq Kept
  PROVE  Cardinality(Kept') <= MaxFinished
<1>1. Kept \subseteq Runs
  BY DEF RetentionInv, RunInv, TypeOK, Kept
<1>2. IsFiniteSet(Kept) /\ Cardinality(Kept) \in Nat /\ Cardinality(Kept') \in Nat
  BY <1>1, RunsFinite
<1>3. Cardinality(Kept') <= Cardinality(Kept)
  BY <1>2, FS_Subset
<1> QED  BY <1>2, <1>3, BoundAssumption DEF RetentionInv

\* Only who ends a run, and who wipes the registry, forgets runs.
LEMMA RunRetains ==
  ASSUME RetentionInv, NEW i \in Runs, RunStep(i)
  PROVE  /\ \A j \in known \ known' : Terminal(j)'
         /\ Cardinality(Kept') <= MaxFinished
<1>0. RunInv
  BY DEF RetentionInv
<1>1. CASE Start(i)
  <2>1. status' = status /\ known' = known \cup {i} /\ ~Terminal(i)
    BY <1>0, <1>1 DEF Start, RunInv, OverOnceEnded
  <2>2. Kept' \subseteq Kept
    BY <2>1 DEF Kept, Terminal
  <2> QED  BY <2>1, <2>2, KeptShrinks
<1>2. CASE \/ Cancel(i) \/ FirstTurn(i) \/ Exhausted(i) \/ Raised(i) \/ CancelArrives(i)
           \/ CancelFails(i) \/ CancelSwallowed(i)
  <2>1. UNCHANGED <<known, status>>
    BY <1>2 DEF Cancel, FirstTurn, Exhausted, Raised, CancelArrives, CancelFails, CancelSwallowed
  <2>2. Kept' \subseteq Kept
    BY <2>1 DEF Kept, Terminal
  <2> QED  BY <2>1, <2>2, KeptShrinks
<1>3. CASE TerminalizeCancelledBeforeStart(i)
  <2>1. Terminalize(i, "cancelled") /\ "cancelled" \in TERMINAL_STATUSES
    BY <1>3 DEF TerminalizeCancelledBeforeStart, TERMINAL_STATUSES
  <2> QED  BY <1>0, <2>1, EndsRetain
<1>4. ASSUME NEW name \in Names, Yield(i, name)
      PROVE  /\ \A j \in known \ known' : Terminal(j)'
             /\ Cardinality(Kept') <= MaxFinished
  <2>1. /\ known' = known
        /\ status'[i] \notin TERMINAL_STATUSES
        /\ \A j \in Runs \ {i} : status'[j] = status[j]
    BY <1>0, <1>4 DEF Yield, RunInv, TypeOK, TERMINAL_STATUSES
  <2>2. Kept' \subseteq Kept
    BY <1>0, <2>1 DEF Kept, Terminal, RunInv, TypeOK
  <2> QED  BY <2>1, <2>2, KeptShrinks
<1>5. CASE Close(i)
  <2>1. Terminalize(i, outcome[i]) /\ outcome[i] \in TERMINAL_STATUSES
    BY <1>0, <1>5 DEF Close, RunInv, TypeOK
  <2> QED  BY <1>0, <2>1, EndsRetain
<1> QED  BY <1>1, <1>2, <1>3, <1>4, <1>5 DEF RunStep

LEMMA Retains ==
  ASSUME RetentionInv, [Next]_vars
  PROVE  /\ known' # {} => \A j \in known \ known' : Terminal(j)'
         /\ Cardinality(Kept') <= MaxFinished
<1>1. CASE UNCHANGED <<known, status>>
  <2>1. Kept' \subseteq Kept
    BY <1>1 DEF Kept, Terminal
  <2> QED  BY <1>1, <2>1, KeptShrinks
<1>2. CASE Reset
  <2>1. known' = {} /\ Kept' \subseteq Kept
    BY <1>2 DEF Reset, Kept
  <2> QED  BY <2>1, KeptShrinks
<1>3. ASSUME NEW t \in Targets, CancelTarget(t)
      PROVE  UNCHANGED <<known, status>>
  BY <1>3 DEF CancelTarget
<1>4. ASSUME NEW s \in Subscribers, StreamStep(s)
      PROVE  UNCHANGED <<known, status>>
  BY <1>4 DEF StreamStep, Subscribe, Open, Read, Leave
<1>5. CASE UNCHANGED vars
  BY <1>1, <1>5 DEF vars
<1> QED  BY <1>1, <1>2, <1>3, <1>4, <1>5, RunRetains DEF Next

\* Retention never forgets a run that goes on, and whatever ends, starts, is cancelled or was
\* wiped meanwhile, MaxFinished finished runs at most are known after every step.
THEOREM RetentionHolds == Spec => RetentionKept
<1>1. Init => RetentionInv
  <2> SUFFICES ASSUME Init PROVE RetentionInv
    OBVIOUS
  <2>1. Kept = {}
    BY DEF Init, Kept
  <2> QED  BY <2>1, RunInit, FS_EmptySet, BoundAssumption DEF RetentionInv
<1>2. RetentionInv /\ [Next]_vars => RetentionInv'
  BY Retains, RunInvStep DEF RetentionInv
<1>3. RetentionInv /\ [Next]_vars
        => (known' # {} =>
              /\ \A i \in known \ known' : status'[i] \in TERMINAL_STATUSES
              /\ Cardinality({i \in known' : status'[i] \in TERMINAL_STATUSES}) <= MaxFinished)
  BY Retains DEF Kept, Terminal
<1> QED  BY <1>1, <1>2, <1>3, PTL DEF Spec, RetentionKept
=============================================================================
