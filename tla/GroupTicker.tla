----------------------------- MODULE GroupTicker -----------------------------
(***************************************************************************)
(* The loop that ticks one group (internal/scheduler/group.go, runGroup).  *)
(* An evaluation may take any time; the boundaries that pass meanwhile are *)
(* skipped and counted, one turn of the catch-up loop each.                *)
(***************************************************************************)
EXTENDS Integers

CONSTANTS
    Interval,   \* the group's interval as loaded; nothing refuses zero
    Start,      \* the first boundary
    MaxTime,    \* bound: the clock
    MaxCount    \* bound: the two counters saturate here

ASSUME TickerAssumption ==
    Interval \in Nat /\ Start \in Nat /\ MaxTime \in Nat /\ MaxCount \in Nat

VARIABLES
    clock,       \* the clock the loop reads
    cancelled,   \* ctx is done
    pc,          \* "wait" in the select, "eval" in Eval, "catchUp", or "stopped"
    next,        \* the boundary to evaluate next, or being evaluated
    sampled,     \* clock.Now() as read when Eval returned
    iterations,  \* onIteration calls
    missed       \* boundaries skipped, counted as the catch-up loop counts them

vars == <<clock, cancelled, pc, next, sampled, iterations, missed>>

CountUp(n) == IF n < MaxCount THEN n + 1 ELSE n

Init ==
    /\ clock = 0 /\ cancelled = FALSE /\ pc = "wait"
    /\ next = Start /\ sampled = 0 /\ iterations = 0 /\ missed = 0

Tick ==
    /\ clock < MaxTime
    /\ clock' = clock + 1
    /\ UNCHANGED <<cancelled, pc, next, sampled, iterations, missed>>

Cancel ==
    /\ ~cancelled
    /\ cancelled' = TRUE
    /\ UNCHANGED <<clock, pc, next, sampled, iterations, missed>>

(* The two cases of the select; with both ready either is taken. *)
Wake ==
    /\ pc = "wait" /\ clock >= next
    /\ pc' = "eval"
    /\ UNCHANGED <<clock, cancelled, next, sampled, iterations, missed>>

CtxDone ==
    /\ pc = "wait" /\ cancelled
    /\ pc' = "stopped"
    /\ UNCHANGED <<clock, cancelled, next, sampled, iterations, missed>>

(* Mutant: the next boundary taken from the clock, which drifts. *)
EvalReturnsFromNow ==
    /\ pc = "eval"
    /\ iterations' = CountUp(iterations)
    /\ sampled' = clock
    /\ next' = clock + Interval
    /\ pc' = "catchUp"
    /\ UNCHANGED <<clock, cancelled, missed>>

(* Eval returns: count it, read the clock, move to the next boundary. *)
EvalReturns ==
    /\ pc = "eval"
    /\ iterations' = CountUp(iterations)
    /\ sampled' = clock
    /\ next' = next + Interval
    /\ pc' = "catchUp"
    /\ UNCHANGED <<clock, cancelled, missed>>

(* Mutant: the loop's step is lost. *)
CatchUpInPlace ==
    /\ pc = "catchUp" /\ next < sampled
    /\ missed' = CountUp(missed)
    /\ UNCHANGED <<clock, cancelled, pc, next, sampled, iterations>>

(* `for next.Before(now)`: one turn. *)
CatchUp ==
    /\ pc = "catchUp" /\ next < sampled
    /\ next' = next + Interval
    /\ missed' = CountUp(missed)
    /\ UNCHANGED <<clock, cancelled, pc, sampled, iterations>>

(* Mutant: a boundary that has passed is run late. *)
CaughtUpEarly ==
    /\ pc = "catchUp"
    /\ pc' = "wait"
    /\ UNCHANGED <<clock, cancelled, next, sampled, iterations, missed>>

CaughtUp ==
    /\ pc = "catchUp" /\ next >= sampled
    /\ pc' = "wait"
    /\ UNCHANGED <<clock, cancelled, next, sampled, iterations, missed>>

Next == Tick \/ Cancel \/ Wake \/ CtxDone \/ EvalReturns \/ CatchUp \/ CaughtUp

Spec == Init /\ [][Next]_vars

(* The goroutine runs when it can, and an evaluation comes back: its       *)
(* queries run under ctx and under the source's own time limit.  When both *)
(* cases of the select stay ready, it does not pick the tick forever.      *)
FairSpec ==
    /\ Spec
    /\ WF_vars(EvalReturns) /\ WF_vars(CatchUp) /\ WF_vars(CaughtUp)
    /\ WF_vars(Wake) /\ SF_vars(CtxDone)

-----------------------------------------------------------------------------
TypeOK ==
    /\ clock \in 0..MaxTime /\ cancelled \in BOOLEAN
    /\ pc \in {"wait", "eval", "catchUp", "stopped"}
    /\ next \in Start..(MaxTime + Start + Interval) /\ sampled \in 0..MaxTime
    /\ iterations \in 0..MaxCount /\ missed \in 0..MaxCount

(* Every boundary from Start up to the next one was evaluated once or is   *)
(* counted as missed: none is lost silently and none is evaluated twice.   *)
BoundariesAccounted ==
    next = Start + Interval * (iterations + missed)

(* No backlog and no gap: when an evaluation returns, the loop waits for   *)
(* the first boundary that has not passed, never for an older one and      *)
(* never for a later one.                                                  *)
NoBacklog ==
    pc = "wait" /\ iterations > 0 => sampled <= next /\ next <= sampled + Interval

(* Cancelling the context ends the loop, which Reload and Shutdown wait    *)
(* for.                                                                    *)
StopsWhenCancelled == cancelled ~> pc = "stopped"
=============================================================================
