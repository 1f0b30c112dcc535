-------------------------- MODULE QueryLimitsProofs --------------------------
(***************************************************************************)
(* The two gates for any number of queries and sources and any caps: no    *)
(* slot leaks, the caps hold, the gauge is exact.  The three are proved    *)
(* together with the types: a token count stays natural because every      *)
(* query that gives a token back is counted in it.                         *)
(***************************************************************************)
EXTENDS QueryLimits, FiniteSetTheorems, TLAPS

Held == {"source", "running", "releaseGlobal"}
Busy == Queries \ At({"idle"})

(* The tokens of the ruler-wide gate, of the sources' gates, the gauge. *)
GlobalExact ==
    Bounded(GlobalCap) => global = Cardinality(HoldsGlobal) /\ global <= GlobalCap
SourceExact ==
    \A s \in Sources : Bounded(SourceCap[s]) =>
        bySource[s] = Cardinality(Running(s)) /\ bySource[s] <= SourceCap[s]

GaugeExact == inFlight = Cardinality(Queries \ At({"idle"}))

IndInv == TypeOK /\ GlobalExact /\ SourceExact /\ GaugeExact

(* One query enters a counted set. *)
LEMMA Enters ==
    ASSUME NEW S, NEW T, S \subseteq Queries, NEW q \in Queries, q \notin S, T = S \cup {q}
    PROVE  Cardinality(S) \in Nat /\ Cardinality(T) = Cardinality(S) + 1
<1>1. IsFiniteSet(S)  BY QueryLimitsAssumption, FS_Subset
<1> QED BY <1>1, FS_AddElement, FS_CardinalityType

(* One query leaves a counted set. *)
LEMMA Leaves ==
    ASSUME NEW S, NEW T, S \subseteq Queries, NEW q \in Queries, q \in S, T = S \ {q}
    PROVE  Cardinality(S) \in Nat \ {0} /\ Cardinality(T) = Cardinality(S) - 1
<1>1. IsFiniteSet(S)  BY QueryLimitsAssumption, FS_Subset
<1>2. IsFiniteSet(T) /\ Cardinality(T) = Cardinality(S) - 1
    BY <1>1, FS_RemoveElement
<1>3. Cardinality(S) \in Nat /\ Cardinality(T) \in Nat
    BY <1>1, <1>2, FS_CardinalityType
<1> QED BY <1>2, <1>3

(* What a step of one query does to the three counted sets. *)
LEMMA Moves ==
    ASSUME TypeOK, NEW q \in Queries, NEW label \in Labels, Goto(q, label)
    PROVE  /\ pc' \in [Queries -> Labels] /\ pc'[q] = label
           /\ HoldsGlobal' = IF label \in Held THEN HoldsGlobal \cup {q} ELSE HoldsGlobal \ {q}
           /\ \A s \in Sources :
                Running(s)' = IF label = "running" /\ Target[q] = s
                              THEN Running(s) \cup {q} ELSE Running(s) \ {q}
           /\ Busy' = IF label = "idle" THEN Busy \ {q} ELSE Busy \cup {q}
<1>1. pc' = [pc EXCEPT ![q] = label] /\ pc \in [Queries -> Labels]
    BY DEF Goto, TypeOK
<1>2. \A r \in Queries : pc'[r] = IF r = q THEN label ELSE pc[r]
    BY <1>1
<1>3. pc' \in [Queries -> Labels]
    BY <1>1
<1>4. HoldsGlobal' = IF label \in Held THEN HoldsGlobal \cup {q} ELSE HoldsGlobal \ {q}
    BY <1>2 DEF HoldsGlobal, At, Held
<1>5. ASSUME NEW s \in Sources
      PROVE  Running(s)' = IF label = "running" /\ Target[q] = s
                           THEN Running(s) \cup {q} ELSE Running(s) \ {q}
    BY <1>2 DEF Running, At
<1>6. Busy' = IF label = "idle" THEN Busy \ {q} ELSE Busy \cup {q}
    BY <1>2 DEF Busy, At
<1> QED BY <1>2, <1>3, <1>4, <1>5, <1>6

(* Where a query is decides which sets it is in. *)
LEMMA Placed ==
    ASSUME NEW q \in Queries
    PROVE  /\ q \in HoldsGlobal <=> pc[q] \in Held
           /\ \A s \in Sources : q \in Running(s) <=> pc[q] = "running" /\ Target[q] = s
           /\ q \in Busy <=> pc[q] # "idle"
           /\ HoldsGlobal \subseteq Queries /\ Busy \subseteq Queries
           /\ \A s \in Sources : Running(s) \subseteq Queries
BY DEF HoldsGlobal, Running, Busy, At, Held

(* Nothing is held before the first query. *)
LEMMA InitIndInv == Init => IndInv
<1> SUFFICES ASSUME Init PROVE IndInv
    OBVIOUS
<1>1. TypeOK
    <2>1. /\ global \in Nat /\ inFlight \in Int /\ bySource \in [Sources -> Nat]
          /\ pc \in [Queries -> Labels]
        BY DEF Init, Labels
    <2>2. cancelled \in BOOLEAN
        BY Zenon DEF Init
    <2> QED BY <2>1, <2>2, Zenon DEF TypeOK
<1>2. HoldsGlobal = {} /\ Queries \ At({"idle"}) = {} /\ \A s \in Sources : Running(s) = {}
    BY DEF Init, HoldsGlobal, At, Running
<1>3. Cardinality({}) = 0  BY FS_EmptySet
<1>4. GlobalExact
    BY <1>2, <1>3, QueryLimitsAssumption DEF Init, GlobalExact
<1>5. SourceExact
    BY <1>2, <1>3, QueryLimitsAssumption DEF Init, SourceExact
<1>6. GaugeExact
    BY <1>2, <1>3 DEF Init, GaugeExact
<1> QED BY <1>1, <1>4, <1>5, <1>6 DEF IndInv

(* A step that leaves the sources' gates alone, and the set behind them. *)
LEMMA SourceKept ==
    ASSUME IndInv, UNCHANGED bySource,
           \A s \in Sources : Running(s)' = Running(s)
    PROVE  SourceExact'
BY DEF IndInv, SourceExact

(* A step that leaves the ruler-wide gate alone, and the set behind it. *)
LEMMA GlobalKept ==
    ASSUME IndInv, UNCHANGED global, HoldsGlobal' = HoldsGlobal
    PROVE  GlobalExact'
BY DEF IndInv, GlobalExact

(* A step that leaves the gauge alone, and the queries it counts. *)
LEMMA GaugeKept ==
    ASSUME IndInv, UNCHANGED inFlight, Busy' = Busy
    PROVE  GaugeExact'
BY DEF IndInv, GaugeExact, Busy

(* Each step moves one query into or out of a counted set exactly when it  *)
(* changes that set's counter.                                             *)
LEMMA NextIndInv == IndInv /\ [Next]_vars => IndInv'
<1> SUFFICES ASSUME IndInv, [Next]_vars PROVE IndInv'
    OBVIOUS
<1>t. /\ TypeOK /\ GlobalCap \in Nat /\ SourceCap \in [Sources -> Nat]
      /\ Target \in [Queries -> Sources]
    BY QueryLimitsAssumption DEF IndInv
<1>u. /\ global \in Nat /\ inFlight \in Int /\ bySource \in [Sources -> Nat]
      /\ pc \in [Queries -> Labels]
    BY <1>t DEF TypeOK
<1>b. cancelled \in BOOLEAN
    BY <1>t, Zenon DEF TypeOK
<1>1. CASE UNCHANGED vars
    <2>1. /\ UNCHANGED <<global, bySource, inFlight, pc>> /\ cancelled' = cancelled
        BY <1>1 DEF vars
    <2>2. TypeOK'
        BY <1>u, <1>b, <2>1, Zenon DEF TypeOK
    <2>3. HoldsGlobal' = HoldsGlobal /\ Busy' = Busy /\ \A s \in Sources : Running(s)' = Running(s)
        BY <2>1 DEF HoldsGlobal, Busy, Running, At
    <2> QED BY <2>1, <2>2, <2>3, SourceKept, GlobalKept, GaugeKept DEF IndInv
<1>2. CASE Cancel
    <2>1. /\ UNCHANGED <<global, bySource, inFlight, pc>> /\ cancelled' = TRUE
        BY <1>2 DEF Cancel
    <2>2. TypeOK'
        BY <1>u, <2>1, Zenon DEF TypeOK
    <2>3. HoldsGlobal' = HoldsGlobal /\ Busy' = Busy /\ \A s \in Sources : Running(s)' = Running(s)
        BY <2>1 DEF HoldsGlobal, Busy, Running, At
    <2> QED BY <2>1, <2>2, <2>3, SourceKept, GlobalKept, GaugeKept DEF IndInv
<1>3. ASSUME NEW q \in Queries, TrackIn(q) PROVE IndInv'
    <2>1. /\ pc[q] = "idle" /\ Goto(q, "global") /\ inFlight' = inFlight + 1
          /\ UNCHANGED <<global, bySource>> /\ cancelled' = cancelled
        BY <1>3 DEF TrackIn
    <2>2. "global" \in Labels /\ "global" \notin Held  BY DEF Labels, Held
    <2>m. /\ pc' \in [Queries -> Labels] /\ HoldsGlobal' = HoldsGlobal \ {q}
          /\ \A s \in Sources : Running(s)' = Running(s) \ {q}
          /\ Busy' = Busy \cup {q}
        BY <1>t, <2>1, <2>2, Moves
    <2>p. /\ q \notin HoldsGlobal /\ q \notin Busy /\ Busy \subseteq Queries
          /\ \A s \in Sources : q \notin Running(s)
        BY <2>1, Placed DEF Held
    <2>3. TypeOK'
        <3>1. inFlight' \in Int  BY <1>u, <2>1
        <3> QED BY <1>u, <1>b, <2>1, <2>m, <3>1, Zenon DEF TypeOK
    <2>4. GlobalExact'
        <3>1. HoldsGlobal' = HoldsGlobal  BY <2>m, <2>p
        <3> QED BY <2>1, <3>1, GlobalKept
    <2>5. SourceExact'
        <3>1. \A s \in Sources : Running(s)' = Running(s)  BY <2>m, <2>p
        <3> QED BY <2>1, <3>1, SourceKept
    <2>6. GaugeExact'
        <3>1. Cardinality(Busy) \in Nat /\ Cardinality(Busy') = Cardinality(Busy) + 1
            BY <2>m, <2>p, Enters
        <3>2. inFlight = Cardinality(Busy)  BY DEF IndInv, GaugeExact, Busy
        <3>3. inFlight' = Cardinality(Busy')  BY <2>1, <3>1, <3>2
        <3> QED BY <3>3 DEF GaugeExact, Busy
    <2> QED BY <2>3, <2>4, <2>5, <2>6 DEF IndInv
<1>4. ASSUME NEW q \in Queries, TakeGlobal(q) PROVE IndInv'
    <2>1. /\ pc[q] = "global" /\ Goto(q, "source") /\ HasRoom(global, GlobalCap)
          /\ global' = Put(global, GlobalCap)
          /\ UNCHANGED <<bySource, inFlight>> /\ cancelled' = cancelled
        BY <1>4 DEF TakeGlobal
    <2>2. "source" \in Labels /\ "source" \in Held  BY DEF Labels, Held
    <2>m. /\ pc' \in [Queries -> Labels] /\ HoldsGlobal' = HoldsGlobal \cup {q}
          /\ \A s \in Sources : Running(s)' = Running(s) \ {q}
          /\ Busy' = Busy \cup {q}
        BY <1>t, <2>1, <2>2, Moves
    <2>p. /\ q \notin HoldsGlobal /\ q \in Busy /\ HoldsGlobal \subseteq Queries
          /\ \A s \in Sources : q \notin Running(s)
        BY <2>1, Placed DEF Held
    <2>3. TypeOK'
        <3>1. global' \in Nat  BY <1>u, <2>1 DEF Put
        <3> QED BY <1>u, <1>b, <2>1, <2>m, <3>1, Zenon DEF TypeOK
    <2>4. GlobalExact'
        <3>1. Cardinality(HoldsGlobal) \in Nat /\ Cardinality(HoldsGlobal') = Cardinality(HoldsGlobal) + 1
            BY <2>m, <2>p, Enters
        <3> QED BY <1>t, <1>u, <2>1, <3>1 DEF IndInv, GlobalExact, Put, HasRoom, Bounded
    <2>5. SourceExact'
        <3>1. \A s \in Sources : Running(s)' = Running(s)  BY <2>m, <2>p
        <3> QED BY <2>1, <3>1, SourceKept
    <2>6. GaugeExact'
        <3>1. Busy' = Busy  BY <2>m, <2>p
        <3> QED BY <2>1, <3>1, GaugeKept
    <2> QED BY <2>3, <2>4, <2>5, <2>6 DEF IndInv
<1>5. ASSUME NEW q \in Queries, AbandonGlobal(q) PROVE IndInv'
    <2>1. /\ pc[q] = "global" /\ Goto(q, "trackOut")
          /\ UNCHANGED <<global, bySource, inFlight>> /\ cancelled' = cancelled
        BY <1>5 DEF AbandonGlobal
    <2>2. "trackOut" \in Labels /\ "trackOut" \notin Held  BY DEF Labels, Held
    <2>m. /\ pc' \in [Queries -> Labels] /\ HoldsGlobal' = HoldsGlobal \ {q}
          /\ \A s \in Sources : Running(s)' = Running(s) \ {q}
          /\ Busy' = Busy \cup {q}
        BY <1>t, <2>1, <2>2, Moves
    <2>p. q \notin HoldsGlobal /\ q \in Busy /\ \A s \in Sources : q \notin Running(s)
        BY <2>1, Placed DEF Held
    <2>3. TypeOK'
        BY <1>u, <1>b, <2>1, <2>m, Zenon DEF TypeOK
    <2>4. HoldsGlobal' = HoldsGlobal /\ Busy' = Busy /\ \A s \in Sources : Running(s)' = Running(s)
        BY <2>m, <2>p
    <2> QED BY <2>1, <2>3, <2>4, SourceKept, GlobalKept, GaugeKept DEF IndInv
<1>6. ASSUME NEW q \in Queries, TakeSource(q) PROVE IndInv'
    <2> DEFINE t == Target[q]
    <2>1. /\ pc[q] = "source" /\ Goto(q, "running") /\ HasRoom(bySource[t], SourceCap[t])
          /\ bySource' = [bySource EXCEPT ![t] = Put(bySource[t], SourceCap[t])]
          /\ UNCHANGED <<global, inFlight>> /\ cancelled' = cancelled
        BY <1>6 DEF TakeSource
    <2>2. "running" \in Labels /\ "running" \in Held /\ t \in Sources  BY <1>t DEF Labels, Held
    <2>m. /\ pc' \in [Queries -> Labels] /\ HoldsGlobal' = HoldsGlobal \cup {q}
          /\ \A s \in Sources : Running(s)' = IF t = s THEN Running(s) \cup {q} ELSE Running(s) \ {q}
          /\ Busy' = Busy \cup {q}
        BY <1>t, <2>1, <2>2, Moves
    <2>p. /\ q \in HoldsGlobal /\ q \in Busy
          /\ \A s \in Sources : q \notin Running(s) /\ Running(s) \subseteq Queries
        BY <2>1, Placed DEF Held
    <2>3. TypeOK'
        <3>1. bySource' \in [Sources -> Nat]  BY <1>u, <2>1, <2>2 DEF Put
        <3> QED BY <1>u, <1>b, <2>1, <2>m, <3>1, Zenon DEF TypeOK
    <2>4. GlobalExact'
        <3>1. HoldsGlobal' = HoldsGlobal  BY <2>m, <2>p
        <3> QED BY <2>1, <3>1, GlobalKept
    <2>5. SourceExact'
        <3> SUFFICES ASSUME NEW s \in Sources, Bounded(SourceCap[s])
                     PROVE  bySource'[s] = Cardinality(Running(s)') /\ bySource'[s] <= SourceCap[s]
            BY DEF SourceExact
        <3>1. bySource[s] = Cardinality(Running(s)) /\ bySource[s] <= SourceCap[s]
            BY DEF IndInv, SourceExact
        <3>2. CASE s = t
            <4>1. Cardinality(Running(s)') = Cardinality(Running(s)) + 1
                BY <2>m, <2>p, <3>2, Enters
            <4>2. bySource'[s] = bySource[s] + 1 /\ bySource[s] < SourceCap[s]
                BY <1>u, <2>1, <3>2 DEF Put, HasRoom
            <4> QED BY <1>t, <1>u, <3>1, <4>1, <4>2
        <3>3. CASE s # t
            <4>1. Running(s)' = Running(s) /\ bySource'[s] = bySource[s]
                BY <1>u, <2>1, <2>m, <2>p, <3>3
            <4> QED BY <3>1, <4>1
        <3> QED BY <3>2, <3>3
    <2>6. GaugeExact'
        <3>1. Busy' = Busy  BY <2>m, <2>p
        <3> QED BY <2>1, <3>1, GaugeKept
    <2> QED BY <2>3, <2>4, <2>5, <2>6 DEF IndInv
<1>7. ASSUME NEW q \in Queries, AbandonSource(q) PROVE IndInv'
    <2>1. /\ pc[q] = "source" /\ Goto(q, "releaseGlobal")
          /\ UNCHANGED <<global, bySource, inFlight>> /\ cancelled' = cancelled
        BY <1>7 DEF AbandonSource
    <2>2. "releaseGlobal" \in Labels /\ "releaseGlobal" \in Held  BY DEF Labels, Held
    <2>m. /\ pc' \in [Queries -> Labels] /\ HoldsGlobal' = HoldsGlobal \cup {q}
          /\ \A s \in Sources : Running(s)' = Running(s) \ {q}
          /\ Busy' = Busy \cup {q}
        BY <1>t, <2>1, <2>2, Moves
    <2>p. q \in HoldsGlobal /\ q \in Busy /\ \A s \in Sources : q \notin Running(s)
        BY <2>1, Placed DEF Held
    <2>3. TypeOK'
        BY <1>u, <1>b, <2>1, <2>m, Zenon DEF TypeOK
    <2>4. HoldsGlobal' = HoldsGlobal /\ Busy' = Busy /\ \A s \in Sources : Running(s)' = Running(s)
        BY <2>m, <2>p
    <2> QED BY <2>1, <2>3, <2>4, SourceKept, GlobalKept, GaugeKept DEF IndInv
<1>8. ASSUME NEW q \in Queries, ReleaseSource(q) PROVE IndInv'
    <2> DEFINE t == Target[q]
    <2>1. /\ pc[q] = "running" /\ Goto(q, "releaseGlobal")
          /\ bySource' = [bySource EXCEPT ![t] = Remove(bySource[t], SourceCap[t])]
          /\ UNCHANGED <<global, inFlight>> /\ cancelled' = cancelled
        BY <1>8 DEF ReleaseSource
    <2>2. "releaseGlobal" \in Labels /\ "releaseGlobal" \in Held /\ t \in Sources
        BY <1>t DEF Labels, Held
    <2>m. /\ pc' \in [Queries -> Labels] /\ HoldsGlobal' = HoldsGlobal \cup {q}
          /\ \A s \in Sources : Running(s)' = Running(s) \ {q}
          /\ Busy' = Busy \cup {q}
        BY <1>t, <2>1, <2>2, Moves
    <2>p. /\ q \in HoldsGlobal /\ q \in Busy
          /\ \A s \in Sources : (q \in Running(s) <=> s = t) /\ Running(s) \subseteq Queries
        BY <2>1, Placed DEF Held
    <2>4. GlobalExact'
        <3>1. HoldsGlobal' = HoldsGlobal  BY <2>m, <2>p
        <3> QED BY <2>1, <3>1, GlobalKept
    <2>c. Bounded(SourceCap[t]) =>
            /\ bySource[t] = Cardinality(Running(t)) /\ bySource[t] <= SourceCap[t]
            /\ Cardinality(Running(t)) \in Nat \ {0}
            /\ Cardinality(Running(t)') = Cardinality(Running(t)) - 1
        BY <2>2, <2>m, <2>p, Leaves DEF IndInv, SourceExact
    <2>3. TypeOK'
        <3>1. Remove(bySource[t], SourceCap[t]) \in Nat
            BY <1>u, <2>2, <2>c DEF Remove
        <3>2. bySource' \in [Sources -> Nat]  BY <1>u, <2>1, <2>2, <3>1
        <3> QED BY <1>u, <1>b, <2>1, <2>m, <3>2, Zenon DEF TypeOK
    <2>5. SourceExact'
        <3> SUFFICES ASSUME NEW s \in Sources, Bounded(SourceCap[s])
                     PROVE  bySource'[s] = Cardinality(Running(s)') /\ bySource'[s] <= SourceCap[s]
            BY DEF SourceExact
        <3>1. bySource[s] = Cardinality(Running(s)) /\ bySource[s] <= SourceCap[s]
            BY DEF IndInv, SourceExact
        <3>2. CASE s = t
            <4>1. bySource'[s] = bySource[s] - 1
                BY <1>u, <2>1, <3>2 DEF Remove
            <4> QED BY <1>t, <1>u, <2>c, <3>2, <4>1
        <3>3. CASE s # t
            <4>1. Running(s)' = Running(s) /\ bySource'[s] = bySource[s]
                BY <1>u, <2>1, <2>m, <2>p, <3>3
            <4> QED BY <3>1, <4>1
        <3> QED BY <3>2, <3>3
    <2>6. GaugeExact'
        <3>1. Busy' = Busy  BY <2>m, <2>p
        <3> QED BY <2>1, <3>1, GaugeKept
    <2> QED BY <2>3, <2>4, <2>5, <2>6 DEF IndInv
<1>9. ASSUME NEW q \in Queries, ReleaseGlobal(q) PROVE IndInv'
    <2>1. /\ pc[q] = "releaseGlobal" /\ Goto(q, "trackOut") /\ global' = Remove(global, GlobalCap)
          /\ UNCHANGED <<bySource, inFlight>> /\ cancelled' = cancelled
        BY <1>9 DEF ReleaseGlobal
    <2>2. "trackOut" \in Labels /\ "trackOut" \notin Held  BY DEF Labels, Held
    <2>m. /\ pc' \in [Queries -> Labels] /\ HoldsGlobal' = HoldsGlobal \ {q}
          /\ \A s \in Sources : Running(s)' = Running(s) \ {q}
          /\ Busy' = Busy \cup {q}
        BY <1>t, <2>1, <2>2, Moves
    <2>p. /\ q \in HoldsGlobal /\ q \in Busy /\ HoldsGlobal \subseteq Queries
          /\ \A s \in Sources : q \notin Running(s)
        BY <2>1, Placed DEF Held
    <2>c. /\ Cardinality(HoldsGlobal) \in Nat \ {0}
          /\ Cardinality(HoldsGlobal') = Cardinality(HoldsGlobal) - 1
        BY <2>m, <2>p, Leaves
    <2>g. Bounded(GlobalCap) => global = Cardinality(HoldsGlobal) /\ global <= GlobalCap
        BY DEF IndInv, GlobalExact
    <2>3. TypeOK'
        <3>1. global' \in Nat  BY <1>u, <2>1, <2>c, <2>g DEF Remove
        <3> QED BY <1>u, <1>b, <2>1, <2>m, <3>1, Zenon DEF TypeOK
    <2>4. GlobalExact'
        BY <1>t, <1>u, <2>1, <2>c, <2>g DEF GlobalExact, Remove
    <2>5. SourceExact'
        <3>1. \A s \in Sources : Running(s)' = Running(s)  BY <2>m, <2>p
        <3> QED BY <2>1, <3>1, SourceKept
    <2>6. GaugeExact'
        <3>1. Busy' = Busy  BY <2>m, <2>p
        <3> QED BY <2>1, <3>1, GaugeKept
    <2> QED BY <2>3, <2>4, <2>5, <2>6 DEF IndInv
<1>10. ASSUME NEW q \in Queries, TrackOut(q) PROVE IndInv'
    <2>1. /\ pc[q] = "trackOut" /\ Goto(q, "idle") /\ inFlight' = inFlight - 1
          /\ UNCHANGED <<global, bySource>> /\ cancelled' = cancelled
        BY <1>10 DEF TrackOut
    <2>2. "idle" \in Labels /\ "idle" \notin Held  BY DEF Labels, Held
    <2>m. /\ pc' \in [Queries -> Labels] /\ HoldsGlobal' = HoldsGlobal \ {q}
          /\ \A s \in Sources : Running(s)' = Running(s) \ {q}
          /\ Busy' = Busy \ {q}
        BY <1>t, <2>1, <2>2, Moves
    <2>p. /\ q \notin HoldsGlobal /\ q \in Busy /\ Busy \subseteq Queries
          /\ \A s \in Sources : q \notin Running(s)
        BY <2>1, Placed DEF Held
    <2>3. TypeOK'
        <3>1. inFlight' \in Int  BY <1>u, <2>1
        <3> QED BY <1>u, <1>b, <2>1, <2>m, <3>1, Zenon DEF TypeOK
    <2>4. GlobalExact'
        <3>1. HoldsGlobal' = HoldsGlobal  BY <2>m, <2>p
        <3> QED BY <2>1, <3>1, GlobalKept
    <2>5. SourceExact'
        <3>1. \A s \in Sources : Running(s)' = Running(s)  BY <2>m, <2>p
        <3> QED BY <2>1, <3>1, SourceKept
    <2>6. GaugeExact'
        <3>1. Cardinality(Busy) \in Nat /\ Cardinality(Busy') = Cardinality(Busy) - 1
            BY <2>m, <2>p, Leaves
        <3>2. inFlight = Cardinality(Busy)  BY DEF IndInv, GaugeExact, Busy
        <3>3. inFlight' = Cardinality(Busy')  BY <2>1, <3>1, <3>2
        <3> QED BY <3>3 DEF GaugeExact, Busy
    <2> QED BY <2>3, <2>4, <2>5, <2>6 DEF IndInv
<1> QED BY <1>1, <1>2, <1>3, <1>4, <1>5, <1>6, <1>7, <1>8, <1>9, <1>10, Zenon DEF Next

(* The inductive invariant holds throughout. *)
THEOREM AlwaysIndInv == Spec => []IndInv
BY InitIndInv, NextIndInv, PTL DEF Spec

(* queryLimits: the types, and that no semaphore is received from when it  *)
(* is empty.                                                               *)
THEOREM TypeCorrect == Spec => []TypeOK
<1>1. IndInv => TypeOK  BY DEF IndInv
<1> QED BY <1>1, AlwaysIndInv, PTL

(* acquire and its release: the tokens in each semaphore are exactly the   *)
(* queries that hold one and the gauge is exact, for any number of queries *)
(* and sources.                                                            *)
THEOREM NoSlotLeaks == Spec => []SlotsExact
<1>1. IndInv => SlotsExact
    BY DEF IndInv, GlobalExact, SourceExact, GaugeExact, SlotsExact
<1> QED BY <1>1, AlwaysIndInv, PTL

(* The ruler-wide cap is the ceiling and each source's cap holds inside    *)
(* it, for any caps.                                                       *)
THEOREM CapsAreCaps == Spec => []CapsHold
<1>1. IndInv => CapsHold
    BY DEF IndInv, GlobalExact, SourceExact, CapsHold
<1> QED BY <1>1, AlwaysIndInv, PTL
=============================================================================
