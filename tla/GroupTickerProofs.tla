-------------------------- MODULE GroupTickerProofs --------------------------
(***************************************************************************)
(* The group's loop for every interval, zero included, and every pace of   *)
(* the clock: no boundary is lost or evaluated twice, and no backlog       *)
(* builds up behind a slow evaluation.                                     *)
(***************************************************************************)
EXTENDS GroupTicker, TLAPS

(* The counters of the code have no ceiling: that of the model's counters  *)
(* is out of reach of its clock.                                           *)
CountersUnbounded == MaxTime < MaxCount

(* The part of TypeOK that is arithmetic. *)
Counts ==
    /\ clock \in 0..MaxTime /\ sampled \in 0..MaxTime
    /\ next \in Start..(MaxTime + Start + Interval)
    /\ iterations \in 0..MaxCount /\ missed \in 0..MaxCount

(* An evaluation is never early, and the next boundary is never more than  *)
(* an interval ahead of the clock reading it was computed from.            *)
NeverEarly == pc = "eval" => next <= clock
NeverAhead ==
    /\ pc = "catchUp" => next <= sampled + Interval
    /\ pc # "catchUp" /\ iterations > 0 => sampled <= next /\ next <= sampled + Interval

LoopInv == Counts /\ NeverEarly /\ NeverAhead

LEMMA LoopInvInit == Init => LoopInv
BY TickerAssumption DEF Init, LoopInv, Counts, NeverEarly, NeverAhead

(* The clock alone moves what is compared with next, and only forward.     *)
LEMMA LoopInvNext == LoopInv /\ [Next]_vars => LoopInv'
<1> SUFFICES ASSUME LoopInv, [Next]_vars PROVE LoopInv'
    OBVIOUS
<1> USE TickerAssumption DEF LoopInv, Counts, NeverEarly, NeverAhead
<1>1. CASE Tick          BY <1>1 DEF Tick
<1>2. CASE Cancel        BY <1>2 DEF Cancel
<1>3. CASE Wake          BY <1>3 DEF Wake
<1>4. CASE CtxDone       BY <1>4 DEF CtxDone
<1>5. CASE EvalReturns   BY <1>5 DEF EvalReturns, CountUp
<1>6. CASE CatchUp       BY <1>6 DEF CatchUp, CountUp
<1>7. CASE CaughtUp      BY <1>7 DEF CaughtUp
<1>8. CASE UNCHANGED vars
    BY <1>8 DEF vars
<1> QED BY <1>1, <1>2, <1>3, <1>4, <1>5, <1>6, <1>7, <1>8 DEF Next

(* Every state of the loop is on time in this sense. *)
THEOREM AlwaysLoopInv == Spec => []LoopInv
BY LoopInvInit, LoopInvNext, PTL DEF Spec

(* The types of runGroup's locals; the next boundary is never further      *)
(* ahead than one interval past the end of time.                           *)
THEOREM TypeCorrect == Spec => []TypeOK
<1> DEFINE Typed == cancelled \in BOOLEAN /\ pc \in {"wait", "eval", "catchUp", "stopped"}
<1>1. Init => Typed
    BY Zenon DEF Init
<1>2. Typed /\ [Next]_vars => Typed'
    <2>1. Typed /\ Cancel => Typed'
        BY Zenon DEF Cancel
    <2>2. ASSUME Typed, [Next]_vars, ~Cancel PROVE Typed'
        <3>1. cancelled' = cancelled /\ pc' \in {pc, "wait", "eval", "catchUp", "stopped"}
            BY <2>2, Zenon DEF Next, Tick, Wake, CtxDone, EvalReturns, CatchUp, CaughtUp, vars
        <3> QED BY <2>2, <3>1, Zenon
    <2> QED BY <2>1, <2>2
<1>3. LoopInv /\ Typed => TypeOK
    BY Zenon DEF LoopInv, Counts, TypeOK
<1> QED BY <1>1, <1>2, <1>3, AlwaysLoopInv, PTL DEF Spec

(* No backlog and no gap, whatever the interval: after an evaluation of    *)
(* runGroup the loop waits for the first boundary that has not passed.     *)
THEOREM Caught == Spec => []NoBacklog
<1>1. LoopInv => NoBacklog  BY DEF LoopInv, NeverAhead, NoBacklog
<1> QED BY <1>1, AlwaysLoopInv, PTL

(* Boundaries are at least as far apart as they are many, so a clock that  *)
(* stands at or before MaxTime has seen fewer than the counters hold.      *)
LEMMA CountedSoFar ==
    ASSUME CountersUnbounded, LoopInv, BoundariesAccounted, Interval # 0, next <= MaxTime
    PROVE  iterations < MaxCount /\ missed < MaxCount
<1> DEFINE n == iterations + missed
<1>1. n \in Nat /\ Interval \in Nat \ {0} /\ next = Start + Interval * n
    BY TickerAssumption DEF LoopInv, Counts, BoundariesAccounted
<1>2. Interval * n >= n
    BY <1>1
<1>3. n <= MaxTime
    BY <1>1, <1>2, TickerAssumption DEF LoopInv, Counts
<1> QED BY <1>3, TickerAssumption DEF CountersUnbounded, LoopInv, Counts

(* One boundary further, one more counted. *)
LEMMA OneMore ==
    ASSUME NEW i \in Nat, NEW m \in Nat
    PROVE  /\ Interval * (i + 1 + m) = Interval * (i + m) + Interval
           /\ Interval * (i + (m + 1)) = Interval * (i + m) + Interval
BY TickerAssumption

LEMMA AccountedNext ==
    ASSUME CountersUnbounded, LoopInv, BoundariesAccounted, [Next]_vars
    PROVE  BoundariesAccounted'
<1>1. CASE UNCHANGED <<next, iterations, missed>>
    BY <1>1 DEF BoundariesAccounted
<1>2. CASE EvalReturns
    <2>1. next <= MaxTime /\ iterations \in Nat /\ missed \in Nat
        BY <1>2, TickerAssumption DEF LoopInv, Counts, NeverEarly, EvalReturns
    <2>2. /\ next' = next + Interval /\ missed' = missed
          /\ iterations' = CountUp(iterations)
        BY <1>2 DEF EvalReturns
    <2>3. CASE Interval = 0
        <3>1. iterations' \in Nat
            BY <2>1, <2>2, TickerAssumption DEF CountUp
        <3> QED BY <2>1, <2>2, <2>3, <3>1, TickerAssumption DEF BoundariesAccounted
    <2>4. CASE Interval # 0
        BY <2>1, <2>2, <2>4, CountedSoFar, OneMore, TickerAssumption DEF CountUp, BoundariesAccounted
    <2> QED BY <2>3, <2>4
<1>3. CASE CatchUp
    <2>1. next <= MaxTime /\ iterations \in Nat /\ missed \in Nat
        BY <1>3, TickerAssumption DEF LoopInv, Counts, CatchUp
    <2>2. /\ next' = next + Interval /\ iterations' = iterations
          /\ missed' = CountUp(missed)
        BY <1>3 DEF CatchUp
    <2>3. CASE Interval = 0
        <3>1. missed' \in Nat
            BY <2>1, <2>2, TickerAssumption DEF CountUp
        <3> QED BY <2>1, <2>2, <2>3, <3>1, TickerAssumption DEF BoundariesAccounted
    <2>4. CASE Interval # 0
        BY <2>1, <2>2, <2>4, CountedSoFar, OneMore, TickerAssumption DEF CountUp, BoundariesAccounted
    <2> QED BY <2>3, <2>4
<1> QED BY <1>1, <1>2, <1>3 DEF Next, Tick, Cancel, Wake, CtxDone, CaughtUp, vars

(* Every boundary from the first to the next was evaluated once or counted *)
(* as missed, however long evaluations take.                               *)
THEOREM Accounted == CountersUnbounded /\ Spec => []BoundariesAccounted
<1>1. CASE CountersUnbounded
    <2>1. Init => BoundariesAccounted
        BY TickerAssumption DEF Init, BoundariesAccounted
    <2>2. LoopInv /\ BoundariesAccounted /\ [Next]_vars => BoundariesAccounted'
        BY <1>1, AccountedNext
    <2>3. Spec => []BoundariesAccounted
        BY <2>1, <2>2, AlwaysLoopInv, PTL DEF Spec
    <2> QED BY <2>3
<1>2. CASE ~CountersUnbounded
    BY <1>2
<1> QED BY <1>1, <1>2
=============================================================================
