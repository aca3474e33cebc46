---------------------------- MODULE LeasedQueue ----------------------------
(***************************************************************************)
(* What a durable queue of runs promises, whoever executes them: a run is  *)
(* started a bounded number of times, a deferred run starts again only     *)
(* through the queue, and a run that is done never changes again.  Leases, *)
(* tokens, clocks and workers are the implementation's business.           *)
(***************************************************************************)
EXTENDS Integers, TLAPS

CONSTANTS Runs, MaxStarts

VARIABLES
    phase,   \* where each run is in its life
    starts   \* how often it was started

vars == <<phase, starts>>

Phases == {"unborn", "waiting", "executing", "deferred", "done", "gone"}

Init == /\ phase = [i \in Runs |-> "unborn"]
        /\ starts = [i \in Runs |-> 0]

Moves(i, from, to) == phase[i] \in from /\ phase'[i] = to
KeepsStarts(i)     == starts'[i] = starts[i]

Create(i) == Moves(i, {"unborn"}, "waiting") /\ KeepsStarts(i)

\* A waiting run is started, or one whose executor is taken for dead.
Start(i) ==
    /\ Moves(i, {"waiting", "executing"}, "executing")
    /\ starts[i] < MaxStarts
    /\ starts'[i] = starts[i] + 1

Defer(i) == Moves(i, {"executing"}, "deferred") /\ KeepsStarts(i)

Retry(i) ==
    /\ Moves(i, {"deferred"}, "waiting")
    /\ starts[i] < MaxStarts
    /\ KeepsStarts(i)

Finish(i) ==
    Moves(i, {"waiting", "executing", "deferred"}, "done") /\ KeepsStarts(i)

Remove(i) == phase'[i] = "gone" /\ starts'[i] = 0

Stays(i) == phase'[i] = phase[i] /\ KeepsStarts(i)

\* One statement may move many runs at once.
Next ==
    /\ phase' \in [Runs -> Phases]
    /\ starts' \in [Runs -> 0..MaxStarts]
    /\ \A i \in Runs : \/ Create(i) \/ Start(i) \/ Defer(i) \/ Retry(i)
                       \/ Finish(i) \/ Remove(i) \/ Stays(i)

Spec == Init /\ [][Next]_vars

-----------------------------------------------------------------------------
(* What follows, for every implementation *)

TypeOK == /\ phase \in [Runs -> Phases]
          /\ starts \in [Runs -> 0..MaxStarts]
          /\ \A i \in Runs : phase[i] = "gone" => starts[i] = 0

\* How many moves a run has left at most.
MovesLeft(i) ==
    LET left == 3 * (MaxStarts - starts[i]) IN
    CASE phase[i] = "unborn"    -> 3 * MaxStarts + 3
      [] phase[i] = "executing" -> left + 4
      [] phase[i] = "deferred"  -> left + 3
      [] phase[i] = "waiting"   -> left + 2
      [] phase[i] = "done"      -> 1
      [] phase[i] = "gone"      -> 0

\* Whatever happens to a run, another executor's start and every retry included,
\* uses up one of its moves, of which it has 3 * MaxStarts + 3.
EveryMoveCounts ==
    [][\A i \in Runs : \/ Stays(i)
                       \/ MovesLeft(i)' \in 0 .. MovesLeft(i) - 1]_vars

LEMMA QueueTypes == ASSUME MaxStarts \in Nat PROVE Spec => []TypeOK
<1>1. Init => TypeOK
  BY DEF Init, TypeOK, Phases
<1>2. TypeOK /\ [Next]_vars => TypeOK'
  <2> SUFFICES ASSUME TypeOK, [Next]_vars
               PROVE  TypeOK'
    OBVIOUS
  <2>1. CASE UNCHANGED vars
    BY <2>1 DEF TypeOK, vars
  <2>2. CASE Next
    <3>1. ASSUME NEW i \in Runs, phase'[i] = "gone"
          PROVE  starts'[i] = 0
      <4>1. ~Create(i) /\ ~Start(i) /\ ~Defer(i) /\ ~Retry(i) /\ ~Finish(i)
        BY <3>1 DEF Create, Start, Defer, Retry, Finish, Moves
      <4>2. Remove(i) \/ Stays(i)
        BY <2>2, <4>1 DEF Next
      <4> QED BY <3>1, <4>2 DEF Remove, Stays, KeepsStarts, TypeOK
    <3> QED BY <2>2, <3>1 DEF Next, TypeOK
  <2> QED BY <2>1, <2>2
<1> QED BY <1>1, <1>2, PTL DEF Spec

\* No run goes round for ever: leases that expire, retries and recoveries end.
THEOREM MovesRunOut == ASSUME MaxStarts \in Nat PROVE Spec => EveryMoveCounts
<1> DEFINE Counts == \A i \in Runs : \/ Stays(i)
                                     \/ MovesLeft(i)' \in 0 .. MovesLeft(i) - 1
<1>1. TypeOK /\ TypeOK' /\ [Next]_vars => [Counts]_vars
  <2> SUFFICES ASSUME TypeOK, TypeOK', Next, NEW i \in Runs, ~Stays(i)
               PROVE  MovesLeft(i)' \in 0 .. MovesLeft(i) - 1
    BY Zenon
  <2>1. /\ MaxStarts \in Nat /\ starts[i] \in 0..MaxStarts
        /\ starts'[i] \in 0..MaxStarts
    BY DEF TypeOK
  <2>2. phase[i] \in Phases /\ phase'[i] \in Phases
    BY DEF TypeOK
  <2>3. CASE Create(i)
    BY <2>1, <2>3 DEF Create, Moves, KeepsStarts, MovesLeft
  <2>4. CASE Start(i)
    BY <2>1, <2>4 DEF Start, Moves, MovesLeft
  <2>5. CASE Defer(i)
    BY <2>1, <2>5 DEF Defer, Moves, KeepsStarts, MovesLeft
  <2>6. CASE Retry(i)
    BY <2>1, <2>6 DEF Retry, Moves, KeepsStarts, MovesLeft
  <2>7. CASE Finish(i)
    BY <2>1, <2>7 DEF Finish, Moves, KeepsStarts, MovesLeft
  <2>8. CASE Remove(i)
    <3>1. phase[i] # "gone"
      BY <2>8 DEF Remove, Stays, KeepsStarts, TypeOK
    <3>2. MovesLeft(i)' = 0
      BY <2>8 DEF Remove, MovesLeft
    <3>3. MovesLeft(i) \in Nat \ {0}
      BY <2>1, <2>2, <3>1 DEF MovesLeft, Phases
    <3> QED BY <3>2, <3>3
  <2> QED BY <2>3, <2>4, <2>5, <2>6, <2>7, <2>8 DEF Next
<1> QED BY <1>1, QueueTypes, PTL DEF Spec, EveryMoveCounts
=============================================================================
