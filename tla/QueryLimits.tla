----------------------------- MODULE QueryLimits -----------------------------
(***************************************************************************)
(* The two gates every query passes (internal/scheduler/concurrency.go):   *)
(* the ruler-wide cap, and inside it the cap of the source.  A query is a  *)
(* goroutine of RuleEval.Evaluate or of the re-check pass; it is counted,  *)
(* takes a slot at each gate or gives up when the context ends, runs, and  *)
(* gives everything back.  A gate is a buffered channel: the model keeps   *)
(* how many tokens it holds.                                               *)
(***************************************************************************)
EXTENDS Integers, FiniteSets

CONSTANTS
    Queries,    \* the goroutines that query
    Sources,    \* the sources
    Target,     \* query -> the source it queries
    GlobalCap,  \* --query-concurrency; zero is unbounded
    SourceCap   \* source -> max_concurrent_queries; zero is unbounded

ASSUME QueryLimitsAssumption ==
    /\ IsFiniteSet(Queries)
    /\ Target \in [Queries -> Sources]
    /\ GlobalCap \in Nat /\ SourceCap \in [Sources -> Nat]

VARIABLES
    global,     \* tokens in the ruler-wide semaphore
    bySource,   \* source -> tokens in its semaphore
    inFlight,   \* the queries-in-flight gauge
    cancelled,  \* ctx is done
    pc          \* where each query is

vars == <<global, bySource, inFlight, cancelled, pc>>

Labels == {"idle", "global", "source", "running", "releaseGlobal", "trackOut"}

(* newSemaphore: a cap of zero makes a nil semaphore, which holds no       *)
(* tokens and never blocks.                                                *)
Bounded(cap) == cap > 0
HasRoom(tokens, cap) == ~Bounded(cap) \/ tokens < cap
Put(tokens, cap) == IF Bounded(cap) THEN tokens + 1 ELSE tokens
Remove(tokens, cap) == IF Bounded(cap) THEN tokens - 1 ELSE tokens

Init ==
    /\ global = 0
    /\ bySource = [s \in Sources |-> 0]
    /\ inFlight = 0
    /\ cancelled = FALSE
    /\ pc = [q \in Queries |-> "idle"]

Goto(q, label) == pc' = [pc EXCEPT ![q] = label]

(* acquire begins: counted before the gates. *)
TrackIn(q) ==
    /\ pc[q] = "idle"
    /\ inFlight' = inFlight + 1
    /\ Goto(q, "global")
    /\ UNCHANGED <<global, bySource, cancelled>>

(* The ruler-wide gate: a slot, or the end of the context; with both ready *)
(* either.                                                                 *)
TakeGlobal(q) ==
    /\ pc[q] = "global" /\ HasRoom(global, GlobalCap)
    /\ global' = Put(global, GlobalCap)
    /\ Goto(q, "source")
    /\ UNCHANGED <<bySource, inFlight, cancelled>>

(* Mutant: a slot that was not taken is released. *)
AbandonGlobalReleasing(q) ==
    /\ pc[q] = "global" /\ Bounded(GlobalCap) /\ cancelled
    /\ Goto(q, "releaseGlobal")
    /\ UNCHANGED <<global, bySource, inFlight, cancelled>>

AbandonGlobal(q) ==
    /\ pc[q] = "global" /\ Bounded(GlobalCap) /\ cancelled
    /\ Goto(q, "trackOut")
    /\ UNCHANGED <<global, bySource, inFlight, cancelled>>

(* The source's gate, with the ruler-wide slot in hand. *)
TakeSource(q) ==
    LET s == Target[q] IN
    /\ pc[q] = "source" /\ HasRoom(bySource[s], SourceCap[s])
    /\ bySource' = [bySource EXCEPT ![s] = Put(@, SourceCap[s])]
    /\ Goto(q, "running")
    /\ UNCHANGED <<global, inFlight, cancelled>>

(* Mutants: the ruler-wide slot is leaked; the gate does not watch the     *)
(* context.                                                                *)
AbandonSourceLeaking(q) ==
    /\ pc[q] = "source" /\ Bounded(SourceCap[Target[q]]) /\ cancelled
    /\ Goto(q, "trackOut")
    /\ UNCHANGED <<global, bySource, inFlight, cancelled>>
AbandonSourceNever(q) == FALSE

AbandonSource(q) ==
    /\ pc[q] = "source" /\ Bounded(SourceCap[Target[q]]) /\ cancelled
    /\ Goto(q, "releaseGlobal")
    /\ UNCHANGED <<global, bySource, inFlight, cancelled>>

(* Mutant: the source's slot is kept. *)
ReleaseSourceLeaking(q) ==
    /\ pc[q] = "running"
    /\ Goto(q, "releaseGlobal")
    /\ UNCHANGED <<global, bySource, inFlight, cancelled>>

(* Run returned: release gives back the source's slot, then the ruler's,   *)
(* then the count.                                                         *)
ReleaseSource(q) ==
    LET s == Target[q] IN
    /\ pc[q] = "running"
    /\ bySource' = [bySource EXCEPT ![s] = Remove(@, SourceCap[s])]
    /\ Goto(q, "releaseGlobal")
    /\ UNCHANGED <<global, inFlight, cancelled>>

ReleaseGlobal(q) ==
    /\ pc[q] = "releaseGlobal"
    /\ global' = Remove(global, GlobalCap)
    /\ Goto(q, "trackOut")
    /\ UNCHANGED <<bySource, inFlight, cancelled>>

TrackOut(q) ==
    /\ pc[q] = "trackOut"
    /\ inFlight' = inFlight - 1
    /\ Goto(q, "idle")
    /\ UNCHANGED <<global, bySource, cancelled>>

(* Shutdown or a reload cancels the context. *)
Cancel ==
    /\ ~cancelled
    /\ cancelled' = TRUE
    /\ UNCHANGED <<global, bySource, inFlight, pc>>

Next ==
    \/ Cancel
    \/ \E q \in Queries :
         \/ TrackIn(q) \/ TakeGlobal(q) \/ AbandonGlobal(q) \/ TakeSource(q)
         \/ AbandonSource(q) \/ ReleaseSource(q) \/ ReleaseGlobal(q) \/ TrackOut(q)

Spec == Init /\ [][Next]_vars

(* What each goroutine does by itself. *)
GoroutinesFair ==
    \A q \in Queries : /\ WF_vars(TakeGlobal(q) \/ AbandonGlobal(q))
                       /\ WF_vars(TakeSource(q) \/ AbandonSource(q))
                       /\ WF_vars(ReleaseGlobal(q)) /\ WF_vars(TrackOut(q))

(* Queries may hang. *)
FairSpec == Spec /\ GoroutinesFair

(* Every query returns, the server's and the client's time limits bound    *)
(* it; and a channel serves the goroutines blocked on it in turn, so one   *)
(* that waits while slots keep coming free is not passed over forever.     *)
QueriesReturn ==
    \A q \in Queries : /\ WF_vars(ReleaseSource(q))
                       /\ SF_vars(TakeGlobal(q)) /\ SF_vars(TakeSource(q))

-----------------------------------------------------------------------------
At(labels) == {q \in Queries : pc[q] \in labels}
HoldsGlobal == At({"source", "running", "releaseGlobal"})
Running(s) == {q \in At({"running"}) : Target[q] = s}

TypeOK ==
    /\ global \in Nat /\ inFlight \in Int /\ cancelled \in BOOLEAN
    /\ bySource \in [Sources -> Nat]
    /\ pc \in [Queries -> Labels]

(* No slot leaks and none is given back twice: the tokens in each          *)
(* semaphore are exactly the queries that hold one, and the gauge counts   *)
(* the queries executing or waiting, through every way out of acquire.     *)
SlotsExact ==
    /\ Bounded(GlobalCap) => global = Cardinality(HoldsGlobal)
    /\ \A s \in Sources : Bounded(SourceCap[s]) => bySource[s] = Cardinality(Running(s))
    /\ inFlight = Cardinality(Queries \ At({"idle"}))

(* The caps are caps: never more queries past the ruler-wide gate than it  *)
(* allows, whatever the sources' caps add up to, nor more running against  *)
(* a source than its own cap.                                              *)
CapsHold ==
    /\ Bounded(GlobalCap) => Cardinality(HoldsGlobal) <= GlobalCap
    /\ \A s \in Sources : Bounded(SourceCap[s]) => Cardinality(Running(s)) <= SourceCap[s]

(* Every query that begins ends, if queries return: holding one slot while *)
(* waiting for the other deadlocks nobody.                                 *)
EveryQueryEnds == QueriesReturn => \A q \in Queries : pc[q] = "global" ~> pc[q] = "idle"

(* When the context ends, a query still queued at either gate leaves it,   *)
(* although the queries that hold the slots never return.                  *)
QueuedLeavesOnCancel ==
    \A q \in Queries :
        cancelled /\ pc[q] \in {"global", "source"} ~> pc[q] \in {"running", "idle"}

(* What the comment on queryLimits and the documentation of                *)
(* max_concurrent_queries say the source's cap is for: a source that is    *)
(* busy up to a cap below the ruler-wide one does not hold every slot      *)
(* while a query against another source queues.                            *)
SlowSourceIsConfined ==
    \A s \in Sources :
        /\ Bounded(SourceCap[s]) /\ SourceCap[s] < GlobalCap
        /\ Cardinality(Running(s)) = SourceCap[s]
        /\ \E q \in At({"global"}) : Target[q] # s
        => Cardinality({q \in HoldsGlobal : Target[q] = s}) < GlobalCap
=============================================================================
