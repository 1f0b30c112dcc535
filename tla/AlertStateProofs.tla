-------------------------- MODULE AlertStateProofs --------------------------
(***************************************************************************)
(* The invariants of AlertState, for every set of definitions, every set   *)
(* of rows and every hash function.                                        *)
(*                                                                         *)
(* IndInv is inductive because it ties an instance to the history of what  *)
(* evaluations returned (SightingsAgree): without that, nothing says that  *)
(* the pending instance an evaluation promotes is as old as the unbroken   *)
(* run of evaluations that returned it.                                    *)
(***************************************************************************)
EXTENDS AlertState, TLAPS

(* The phases an alert has been through are in order in its timestamps,    *)
(* and the timestamps of the phases it has not reached are zero: a         *)
(* resolved instance always fired first, and never resolves before the     *)
(* evaluation that last returned it.                                       *)
TimelineOrdered ==
    \A i \in active :
        /\ i.activeAt # Zero /\ i.activeAt <= i.lastSeen /\ i.lastSeen <= clock
        /\ i.phase = "pending" => i.firedAt = Zero /\ i.resolvedAt = Zero
        /\ i.phase = "firing" => i.activeAt <= i.firedAt /\ i.firedAt <= i.lastSeen
                                 /\ i.resolvedAt = Zero
        /\ i.phase = "resolved" => i.activeAt <= i.firedAt /\ i.firedAt <= i.lastSeen
                                   /\ i.lastSeen <= i.resolvedAt /\ i.resolvedAt <= clock

(* The bookkeeping of an instance is what the evaluations returned: its    *)
(* lastSeen is the latest evaluation with its label set, a pending one has *)
(* been returned without a gap since activeAt, and it is filed under the   *)
(* hash of its own labels.                                                 *)
SightingsAgree ==
    \A i \in active :
        /\ i.fp = Hash(i.labels)
        /\ i.lastSeen = seen[i.labels].last
        /\ i.phase = "pending" =>
              seen[i.labels].since # Zero /\ i.activeAt = seen[i.labels].since

(* The history variable itself: an unbroken run started no later than the  *)
(* evaluation that last returned its label set.                            *)
HistoryOrdered ==
    \A l \in LabelSets : seen[l].since <= seen[l].last /\ seen[l].last <= clock

IndInv ==
    /\ TypeOK
    /\ OneInstancePerLabelSet
    /\ ReturnedIsTracked
    /\ InstancesReproducible
    /\ TimelineOrdered
    /\ SightingsAgree
    /\ HistoryOrdered

-----------------------------------------------------------------------------
(* What the three operators on one instance return. *)

(* A new instance is pending since now, and is filed under its labels. *)
LEMMA NewInstanceFacts ==
    ASSUME NEW l \in LabelSets, NEW now \in Time
    PROVE  /\ NewInstance(l, now) \in Instance
           /\ NewInstance(l, now).labels = l
           /\ NewInstance(l, now).fp = Hash(l)
           /\ NewInstance(l, now).phase = "pending"
           /\ NewInstance(l, now).activeAt = now
           /\ NewInstance(l, now).firedAt = Zero
           /\ NewInstance(l, now).resolvedAt = Zero
  BY DEF NewInstance, Instance, Phases, Time, Zero

(* Advance keeps the identity and the start of an instance, stamps it      *)
(* seen, and fires it exactly when it was pending for `for`.               *)
LEMMA AdvanceFacts ==
    ASSUME NEW d \in Definitions, NEW inst \in Instance, NEW now \in Time,
           NEW a, a = Advance(d, inst, now)
    PROVE  /\ a \in Instance
           /\ a.labels = inst.labels /\ a.fp = inst.fp
           /\ a.activeAt = inst.activeAt /\ a.resolvedAt = inst.resolvedAt
           /\ a.lastSeen = now
           /\ inst.phase # "pending" => a.phase = inst.phase /\ a.firedAt = inst.firedAt
           /\ inst.phase = "pending" /\ now - inst.activeAt >= d.for =>
                a.phase = "firing" /\ a.firedAt = now
           /\ inst.phase = "pending" /\ ~(now - inst.activeAt >= d.for) =>
                a.phase = "pending" /\ a.firedAt = inst.firedAt
  BY DEF Advance, Instance, Phases, Time

(* Expire changes nothing but the phase and the resolve time, and those    *)
(* only for a firing instance absent for keep_firing_for.                  *)
LEMMA ExpireFacts ==
    ASSUME NEW d \in Definitions, NEW inst \in Instance, NEW now \in Time,
           NEW e, e = Expire(d, inst, now)
    PROVE  /\ e \in Instance
           /\ e.labels = inst.labels /\ e.fp = inst.fp
           /\ e.activeAt = inst.activeAt /\ e.firedAt = inst.firedAt
           /\ e.lastSeen = inst.lastSeen
           /\ inst.phase # "firing" => e = inst
           /\ inst.phase = "firing" /\ now - inst.lastSeen >= d.keepFiringFor =>
                e.phase = "resolved" /\ e.resolvedAt = now
           /\ inst.phase = "firing" /\ ~(now - inst.lastSeen >= d.keepFiringFor) => e = inst
  BY DEF Expire, Instance, Phases, Time

-----------------------------------------------------------------------------
(* An evaluation, instance by instance. *)

(* The hash adds nothing to identity: an instance filed under its own      *)
(* labels matches exactly those labels.                                    *)
LEMMA MatchesIsIdentity ==
    ASSUME NEW inst, NEW l, inst.fp = Hash(inst.labels)
    PROVE  Matches(inst, l) <=> inst.labels = l
  BY DEF Matches

(* Where an instance tracked after an evaluation comes from: one that      *)
(* continues, a new one, or one the evaluation did not return.             *)
LEMMA EvalOrigin ==
    ASSUME NEW returned, NEW now, NEW i,
           SightingsAgree, i \in EvalInstances(def, active, returned, now)
    PROVE  \/ \E t \in active : /\ i = Advance(def, t, now)
                                /\ t.labels \in returned /\ t.phase # "resolved"
           \/ \E l \in returned : /\ i = Advance(def, NewInstance(l, now), now)
                                  /\ ~\E j \in active : j.labels = l /\ j.phase # "resolved"
           \/ \E t \in active : /\ i = Expire(def, t, now)
                                /\ t.labels \notin returned /\ Kept(def, t, now)
  BY MatchesIsIdentity
     DEF EvalInstances, Track, Continuing, Absent, SightingsAgree

(* Every label set the evaluation returned is carried on by one instance. *)
LEMMA EvalCovers ==
    ASSUME NEW returned, NEW now, NEW l \in returned, SightingsAgree
    PROVE  \/ \E t \in active : /\ t.labels = l /\ t.phase # "resolved"
                                /\ Advance(def, t, now) \in EvalInstances(def, active, returned, now)
           \/ Advance(def, NewInstance(l, now), now) \in EvalInstances(def, active, returned, now)
  BY MatchesIsIdentity
     DEF EvalInstances, Track, Continuing, SightingsAgree

(* An instance the evaluation did not return and that is kept goes on as   *)
(* what Expire makes of it.                                                *)
LEMMA EvalKeeps ==
    ASSUME NEW returned, NEW now, NEW t \in active, SightingsAgree,
           t.labels \notin returned, Kept(def, t, now)
    PROVE  Expire(def, t, now) \in EvalInstances(def, active, returned, now)
  BY MatchesIsIdentity DEF EvalInstances, Absent, SightingsAgree

(* The label sets of a result are label sets of the model. *)
LEMMA ReturnedLabels ==
    ASSUME def \in Definitions, NEW rows \in Results
    PROVE  {Labels(def, rows[i]) : i \in DOMAIN rows} \subseteq LabelSets
<1>1. \A i \in DOMAIN rows : rows[i] \in Rows
  BY DEF Results
<1>2. QED
  BY <1>1 DEF LabelSets

-----------------------------------------------------------------------------
(* IndInv holds at first and every action preserves it. *)

(* A new state tracks nothing and no row was ever returned. *)
LEMMA InitIndInv == Init => IndInv
  BY DefinitionsAssumption
     DEF Init, IndInv, TypeOK, OneInstancePerLabelSet, ReturnedIsTracked,
         InstancesReproducible, TimelineOrdered, SightingsAgree, HistoryOrdered,
         Sightings, Unseen, Time, Zero

(* A successful evaluation. *)
LEMMA EvalIndInv ==
    ASSUME IndInv, NEW now \in clock..MaxTime, NEW rows \in Results, Eval(now, rows)
    PROVE  IndInv'
<1> DEFINE returned == {Labels(def, rows[i]) : i \in DOMAIN rows}
<1>1. /\ active' = EvalInstances(def, active, returned, now)
      /\ seen' = Sight(seen, returned, now)
      /\ clock' = now /\ def' = def /\ result' = "evaluated"
  BY DEF Eval
<1>2. /\ def \in Definitions /\ active \subseteq Instance /\ clock \in Nat \ {0}
      /\ seen \in [LabelSets -> [since : Nat, last : Nat]]
  BY DEF IndInv, TypeOK, Time, Zero, Sightings
<1>3. now \in Time /\ now >= clock /\ now # 0
  BY <1>2, BoundsAssumption DEF Time
<1>4. returned \subseteq LabelSets
  BY <1>2, ReturnedLabels
<1>5. \A l \in returned : \E row \in Rows : l = Labels(def, row)
  BY DEF Results
<1>6. /\ def.for \in Nat /\ def.keepFiringFor \in Nat /\ def.retention \in Nat
  BY <1>2, DefinitionsAssumption
<1>7. SightingsAgree /\ TimelineOrdered /\ OneInstancePerLabelSet /\ ReturnedIsTracked
      /\ InstancesReproducible /\ HistoryOrdered
  BY DEF IndInv
<1> HIDE DEF returned
<1>8. \A l \in LabelSets :
        /\ seen'[l] \in [since : Nat, last : Nat]
        /\ l \in returned => /\ seen'[l].last = now
                            /\ seen'[l].since = IF seen[l].since = 0 THEN now ELSE seen[l].since
        /\ l \notin returned => seen'[l].since = 0 /\ seen'[l].last = seen[l].last
  BY <1>1, <1>2, <1>3 DEF Sight, Time, Zero
<1>9. seen' \in [LabelSets -> Sightings]
  BY <1>1, <1>8 DEF Sight, Sightings, Time
(* Every instance of the next state, by where it comes from. *)
<1>10. ASSUME NEW i \in active'
       PROVE  /\ i \in Instance
              /\ i.fp = Hash(i.labels)
              /\ i.labels \in returned => i.phase # "resolved" /\ i.lastSeen = now
              /\ i.lastSeen = seen'[i.labels].last
              /\ i.phase = "pending" =>
                    seen'[i.labels].since # 0 /\ i.activeAt = seen'[i.labels].since
              /\ \E row \in Rows : i.labels = Labels(def, row)
              /\ i.activeAt # 0 /\ i.activeAt <= i.lastSeen /\ i.lastSeen <= now
              /\ i.phase = "pending" => i.firedAt = 0 /\ i.resolvedAt = 0
              /\ i.phase = "firing" => i.activeAt <= i.firedAt /\ i.firedAt <= i.lastSeen
                                       /\ i.resolvedAt = 0
              /\ i.phase = "resolved" => i.activeAt <= i.firedAt /\ i.firedAt <= i.lastSeen
                                       /\ i.lastSeen <= i.resolvedAt /\ i.resolvedAt <= now
  <2>1. CASE \E t \in active : /\ i = Advance(def, t, now)
                              /\ t.labels \in returned /\ t.phase # "resolved"
    <3>1. PICK t \in active : i = Advance(def, t, now) /\ t.labels \in returned /\ t.phase # "resolved"
      BY <2>1
    <3>2. t \in Instance
      BY <1>2
    <3> HIDE DEF returned
    <3>3. QED
      BY <3>1, <3>2, AdvanceFacts, <1>2, <1>3, <1>4, <1>6, <1>7, <1>8
         DEF SightingsAgree, TimelineOrdered, InstancesReproducible, Instance, Phases, Time, Zero
  <2>2. CASE \E l \in returned : i = Advance(def, NewInstance(l, now), now)
                                /\ ~\E j \in active : j.labels = l /\ j.phase # "resolved"
    <3>1. PICK l \in returned : i = Advance(def, NewInstance(l, now), now)
                                /\ ~\E j \in active : j.labels = l /\ j.phase # "resolved"
      BY <2>2
    <3>2. seen[l].since = 0
      BY <3>1, <1>4, <1>7 DEF ReturnedIsTracked, Zero
    <3>3. seen'[l].since = now /\ seen'[l].last = now
      BY <3>2, <1>4, <1>8
    <3>4. \E row \in Rows : l = Labels(def, row)
      BY <1>5
    <3> DEFINE n == NewInstance(l, now)
    <3>5. /\ n \in Instance /\ n.labels = l /\ n.fp = Hash(l) /\ n.phase = "pending"
          /\ n.activeAt = now /\ n.firedAt = 0 /\ n.resolvedAt = 0
      BY <1>3, <1>4, NewInstanceFacts DEF Zero
    <3>6. i = Advance(def, n, now)
      BY <3>1
    <3> HIDE DEF n
    <3>7. QED
      BY <3>3, <3>4, <3>5, <3>6, AdvanceFacts, <1>2, <1>3, <1>6
         DEF Instance, Phases, Time
  <2>3. CASE \E t \in active : /\ i = Expire(def, t, now)
                              /\ t.labels \notin returned /\ Kept(def, t, now)
    <3>1. PICK t \in active : i = Expire(def, t, now) /\ t.labels \notin returned /\ Kept(def, t, now)
      BY <2>3
    <3>2. t \in Instance /\ t.phase # "pending"
      BY <1>2, <3>1 DEF Kept
    <3>3. QED
      BY <3>1, <3>2, ExpireFacts, <1>2, <1>3, <1>6, <1>7, <1>8
         DEF SightingsAgree, TimelineOrdered, InstancesReproducible, Instance, Phases, Time, Zero
  <2>4. QED
    BY <2>1, <2>2, <2>3, <1>1, <1>7, EvalOrigin
<1>11. OneInstancePerLabelSet'
  <2> SUFFICES ASSUME NEW i \in active', NEW j \in active', i.labels = j.labels
               PROVE  i = j
    BY DEF OneInstancePerLabelSet
  <2>1. \/ \E t \in active : /\ i = Advance(def, t, now) /\ i.labels = t.labels
                             /\ t.labels \in returned /\ t.phase # "resolved"
        \/ \E l \in returned : /\ i = Advance(def, NewInstance(l, now), now) /\ i.labels = l
                               /\ ~\E k \in active : k.labels = l /\ k.phase # "resolved"
        \/ \E t \in active : /\ i = Expire(def, t, now) /\ i.labels = t.labels
                             /\ t.labels \notin returned
    BY <1>1, <1>2, <1>3, <1>4, <1>7, EvalOrigin, AdvanceFacts, ExpireFacts, NewInstanceFacts
  <2>2. \/ \E t \in active : /\ j = Advance(def, t, now) /\ j.labels = t.labels
                             /\ t.labels \in returned /\ t.phase # "resolved"
        \/ \E l \in returned : /\ j = Advance(def, NewInstance(l, now), now) /\ j.labels = l
                               /\ ~\E k \in active : k.labels = l /\ k.phase # "resolved"
        \/ \E t \in active : /\ j = Expire(def, t, now) /\ j.labels = t.labels
                             /\ t.labels \notin returned
    BY <1>1, <1>2, <1>3, <1>4, <1>7, EvalOrigin, AdvanceFacts, ExpireFacts, NewInstanceFacts
  <2>3. QED
    BY <2>1, <2>2, <1>7 DEF OneInstancePerLabelSet
<1>12. ReturnedIsTracked'
  <2> SUFFICES ASSUME NEW l \in LabelSets, seen'[l].since # Zero
               PROVE  \E i \in active' :
                        /\ i.labels = l
                        /\ i.phase # "resolved"
                        /\ i.lastSeen = seen'[l].last
                        /\ i.phase = "pending" => i.activeAt = seen'[l].since
    BY Zenon DEF ReturnedIsTracked
  <2>1. l \in returned
    BY <1>8 DEF Zero
  <2>2. \E i \in active' : i.labels = l
    BY <2>1, <1>1, <1>2, <1>3, <1>4, <1>7, EvalCovers, AdvanceFacts, NewInstanceFacts
  <2>3. QED
    BY <2>1, <2>2, <1>10
<1>13. HistoryOrdered'
  BY <1>1, <1>2, <1>3, <1>7, <1>8 DEF HistoryOrdered
<1>14. TypeOK'
  BY <1>1, <1>2, <1>3, <1>9, <1>10 DEF TypeOK, Time, Zero
<1>15. InstancesReproducible' /\ TimelineOrdered' /\ SightingsAgree'
  BY <1>1, <1>10 DEF InstancesReproducible, TimelineOrdered, SightingsAgree, Zero
<1>16. QED
  BY <1>11, <1>12, <1>13, <1>14, <1>15 DEF IndInv

(* A refused evaluation moves the clock and nothing else. *)
LEMMA DuplicateIndInv ==
    ASSUME IndInv, NEW now \in clock..MaxTime, NEW rows \in Results, EvalDuplicate(now, rows)
    PROVE  IndInv'
<1>1. /\ def' = def /\ active' = active /\ seen' = seen /\ clock' = now
      /\ result' = "duplicate"
  BY DEF EvalDuplicate
<1>2. /\ clock \in Nat \ {0} /\ active \subseteq Instance
      /\ seen \in [LabelSets -> [since : Nat, last : Nat]]
  BY DEF IndInv, TypeOK, Time, Zero, Sightings
<1>3. clock' \in Nat \ {0} /\ clock <= clock'
  BY <1>1, <1>2, BoundsAssumption
<1>4. TypeOK'
  BY <1>1, <1>3 DEF IndInv, TypeOK, Time, Zero
<1>5. OneInstancePerLabelSet' /\ ReturnedIsTracked' /\ InstancesReproducible' /\ SightingsAgree'
  BY <1>1 DEF IndInv, OneInstancePerLabelSet, ReturnedIsTracked, InstancesReproducible, SightingsAgree
<1>6. TimelineOrdered' /\ HistoryOrdered'
  BY <1>1, <1>2, <1>3 DEF IndInv, TimelineOrdered, HistoryOrdered, Instance, Time, Zero
<1>7. QED
  BY <1>4, <1>5, <1>6 DEF IndInv

(* A definition with the same identity builds the same label sets. *)
LEMMA SameIdentityLabels ==
    ASSUME NEW d, NEW e, NEW row, SameIdentity(d, e)
    PROVE  Labels(d, row) = Labels(e, row)
  BY DEF SameIdentity, Labels

(* An adopted reload keeps the instances, and they stay reproducible. *)
LEMMA AdoptIndInv ==
    ASSUME IndInv, NEW d \in Definitions, Adopt(d)
    PROVE  IndInv'
<1>1. /\ def' = d /\ active' = active /\ seen' = seen /\ clock' = clock
      /\ result' = "adopted" /\ SameIdentity(def, d)
  BY DEF Adopt
<1>2. TypeOK'
  BY <1>1 DEF IndInv, TypeOK
<1>3. InstancesReproducible'
  BY <1>1, SameIdentityLabels DEF IndInv, InstancesReproducible
<1>4. OneInstancePerLabelSet' /\ ReturnedIsTracked' /\ SightingsAgree' /\ TimelineOrdered' /\ HistoryOrdered'
  BY <1>1 DEF IndInv, OneInstancePerLabelSet, ReturnedIsTracked, SightingsAgree, TimelineOrdered,
              HistoryOrdered
<1>5. QED
  BY <1>2, <1>3, <1>4 DEF IndInv

(* A refused adoption starts over. *)
LEMMA ReplaceIndInv ==
    ASSUME IndInv, NEW d \in Definitions, Replace(d)
    PROVE  IndInv'
  BY DEF Replace, IndInv, TypeOK, OneInstancePerLabelSet, ReturnedIsTracked,
         InstancesReproducible, TimelineOrdered, SightingsAgree, HistoryOrdered,
         Sightings, Unseen, Time, Zero

(* Every action, and a stuttering step, preserves IndInv. *)
LEMMA NextIndInv == IndInv /\ [Next]_vars => IndInv'
<1> SUFFICES ASSUME IndInv, [Next]_vars PROVE IndInv'
  OBVIOUS
<1>1. CASE \E now \in clock..MaxTime, rows \in Results : Eval(now, rows)
  BY <1>1, EvalIndInv
<1>2. CASE \E now \in clock..MaxTime, rows \in Results : EvalDuplicate(now, rows)
  BY <1>2, DuplicateIndInv
<1>3. CASE \E d \in Definitions : Adopt(d)
  BY <1>3, AdoptIndInv
<1>4. CASE \E d \in Definitions : Replace(d)
  BY <1>4, ReplaceIndInv
<1>5. CASE UNCHANGED vars
  BY <1>5 DEF vars, IndInv, TypeOK, OneInstancePerLabelSet, ReturnedIsTracked,
              InstancesReproducible, TimelineOrdered, SightingsAgree, HistoryOrdered
<1>6. QED
  BY <1>1, <1>2, <1>3, <1>4, <1>5 DEF Next

(* The inductive invariant holds in every behaviour. *)
THEOREM AlwaysIndInv == Spec => []IndInv
  BY InitIndInv, NextIndInv, PTL DEF Spec

-----------------------------------------------------------------------------
(* The results. *)

(* The types of the state of internal/alert/state.go hold in every state. *)
THEOREM TypeCorrect == Spec => []TypeOK
<1>1. IndInv => TypeOK
  BY DEF IndInv
<1>2. QED
  BY <1>1, AlwaysIndInv, PTL

(* However rows collide in the hash and however reloads edit the rule, an  *)
(* alert has one instance.                                                 *)
THEOREM Identity == Spec => []OneInstancePerLabelSet
<1>1. IndInv => OneInstancePerLabelSet
  BY DEF IndInv
<1>2. QED
  BY <1>1, AlwaysIndInv, PTL

(* What the latest evaluation returned is tracked, and its `for` timer     *)
(* started at the first evaluation of the unbroken run.                    *)
THEOREM Tracking == Spec => []ReturnedIsTracked
<1>1. IndInv => ReturnedIsTracked
  BY DEF IndInv
<1>2. QED
  BY <1>1, AlwaysIndInv, PTL

(* Adopt never keeps an instance that no evaluation can return again. *)
THEOREM Reproducibility == Spec => []InstancesReproducible
<1>1. IndInv => InstancesReproducible
  BY DEF IndInv
<1>2. QED
  BY <1>1, AlwaysIndInv, PTL

(* An alert fires only after `for` of unbroken evaluations. *)
THEOREM Firing == Spec => FiresOnlyAfterFor
<1> DEFINE Step(l) ==
      InPhase(active', l, "firing") /\ ~InPhase(active, l, "firing") =>
         seen'[l].since # Zero /\ clock' - seen'[l].since >= def.for
<1>1. ASSUME IndInv, [Next]_vars, NEW l \in LabelSets PROVE Step(l)
  <2> SUFFICES ASSUME NEW i \in active', i.labels = l, i.phase = "firing",
                      ~InPhase(active, l, "firing")
               PROVE  seen'[l].since # Zero /\ clock' - seen'[l].since >= def.for
    BY DEF InPhase
  <2>1. i \notin active
    BY DEF InPhase
  <2>2. PICK now \in clock..MaxTime, rows \in Results : Eval(now, rows)
    BY <1>1, <2>1 DEF Next, EvalDuplicate, Adopt, Replace, vars
  <2> DEFINE returned == {Labels(def, rows[k]) : k \in DOMAIN rows}
  <2>3. /\ active' = EvalInstances(def, active, returned, now) /\ clock' = now
        /\ seen' = Sight(seen, returned, now)
    BY <2>2 DEF Eval
  <2>4. /\ SightingsAgree /\ ReturnedIsTracked /\ TimelineOrdered /\ def \in Definitions
        /\ active \subseteq Instance
        /\ clock \in Nat \ {0} /\ seen \in [LabelSets -> [since : Nat, last : Nat]]
    BY <1>1 DEF IndInv, TypeOK, Time, Zero, Sightings
  <2>5. now \in Nat \ {0} /\ now >= clock /\ returned \subseteq LabelSets
    BY <2>4, BoundsAssumption, ReturnedLabels
  <2>6. def.for \in Nat
    BY <2>4, DefinitionsAssumption
  <2> HIDE DEF returned
  <2>7. l \in returned => seen'[l].since = IF seen[l].since = 0 THEN now ELSE seen[l].since
    BY <2>3, <2>4, <2>5 DEF Sight, Zero
  <2>8. CASE \E t \in active : /\ i = Advance(def, t, now)
                              /\ t.labels \in returned /\ t.phase # "resolved"
    <3>1. PICK t \in active : i = Advance(def, t, now) /\ t.labels \in returned /\ t.phase # "resolved"
      BY <2>8
    <3>a. t \in Instance /\ def \in Definitions /\ now \in Time
      BY <2>4, <2>5 DEF Time
    <3>2. t \in Instance /\ t.labels = l
      BY <3>1, <3>a, AdvanceFacts
    <3>3. t.phase = "pending"
      BY <3>1, <3>2 DEF InPhase, Instance, Phases
    <3>4. now - t.activeAt >= def.for
      BY <3>1, <3>a, <3>3, AdvanceFacts
    <3>5. seen[l].since # 0 /\ t.activeAt = seen[l].since
      BY <3>2, <3>3, <2>4 DEF SightingsAgree, Zero
    <3>6. QED
      BY <3>1, <3>2, <3>4, <3>5, <2>3, <2>7 DEF Zero
  <2>9. CASE \E m \in returned : i = Advance(def, NewInstance(m, now), now)
                                /\ ~\E j \in active : j.labels = m /\ j.phase # "resolved"
    <3>1. PICK m \in returned : i = Advance(def, NewInstance(m, now), now)
                                /\ ~\E j \in active : j.labels = m /\ j.phase # "resolved"
      BY <2>9
    <3> DEFINE n == NewInstance(m, now)
    <3>2. n \in Instance /\ n.labels = m /\ n.phase = "pending" /\ n.activeAt = now
      BY <2>5, NewInstanceFacts DEF Time
    <3>3. i = Advance(def, n, now)
      BY <3>1
    <3> HIDE DEF n
    <3>a. def \in Definitions /\ now \in Time
      BY <2>4, <2>5 DEF Time
    <3>b. i.labels = n.labels /\ now - n.activeAt >= def.for
      BY <3>2, <3>3, <3>a, AdvanceFacts
    <3>4. m = l /\ now - now >= def.for
      BY <3>2, <3>b
    <3>5. seen[l].since = 0
      BY <3>1, <3>4, <2>4 DEF ReturnedIsTracked, Zero
    <3>6. QED
      BY <3>1, <3>4, <3>5, <2>3, <2>5, <2>7 DEF Zero
  <2>10. CASE \E t \in active : /\ i = Expire(def, t, now)
                               /\ t.labels \notin returned /\ Kept(def, t, now)
    <3>1. PICK t \in active : i = Expire(def, t, now)
      BY <2>10
    <3>2. t \in Instance
      BY <2>4
    <3>3. i = t \/ i.phase = "resolved"
      BY <3>1, <3>2, <2>4, <2>5, ExpireFacts DEF Time
    <3>4. QED
      BY <3>3, <2>1
  <2>11. QED
    BY <2>8, <2>9, <2>10, <2>3, <2>4, EvalOrigin
<1>2. IndInv /\ [Next]_vars => [\A l \in LabelSets : Step(l)]_vars
  BY <1>1
<1>3. QED
  BY <1>2, AlwaysIndInv, PTL DEF Spec, FiresOnlyAfterFor

-----------------------------------------------------------------------------
(* What the remaining properties need to know of one evaluation. *)

Returned(rows) == {Labels(def, rows[k]) : k \in DOMAIN rows}

(* The state before it, the label sets it returned and the history after.  *)
LEMMA EvalSetting ==
    ASSUME IndInv, NEW now \in clock..MaxTime, NEW rows \in Results, Eval(now, rows),
           NEW ret, ret = Returned(rows)
    PROVE  /\ def \in Definitions /\ active \subseteq Instance /\ now \in Time /\ now # 0
           /\ clock \in Nat /\ clock <= now /\ ret \subseteq LabelSets
           /\ def.for \in Nat /\ def.keepFiringFor \in Nat /\ def.retention \in Nat
           /\ clock' = now /\ def' = def /\ active' = EvalInstances(def, active, ret, now)
           /\ \A l \in LabelSets :
                /\ seen[l].since \in Nat /\ seen[l].last \in Nat
                /\ l \in ret => /\ seen'[l].last = now
                               /\ seen'[l].since = IF seen[l].since = 0 THEN now ELSE seen[l].since
                /\ l \notin ret => seen'[l].since = 0 /\ seen'[l].last = seen[l].last
<1>1. /\ active' = EvalInstances(def, active, ret, now)
      /\ seen' = Sight(seen, ret, now) /\ clock' = now /\ def' = def
  BY DEF Eval, Returned
<1>2. /\ def \in Definitions /\ active \subseteq Instance /\ clock \in Nat \ {0}
      /\ seen \in [LabelSets -> [since : Nat, last : Nat]]
  BY DEF IndInv, TypeOK, Time, Zero, Sightings
<1>3. now \in Nat /\ now # 0 /\ clock <= now
  BY <1>2, BoundsAssumption
<1>4. ret \subseteq LabelSets
  BY <1>2, ReturnedLabels DEF Returned
<1>5. def.for \in Nat /\ def.keepFiringFor \in Nat /\ def.retention \in Nat
  BY <1>2, DefinitionsAssumption
<1>6. \A l \in LabelSets :
        /\ seen[l].since \in Nat /\ seen[l].last \in Nat
        /\ l \in ret => /\ seen'[l].last = now
                       /\ seen'[l].since = IF seen[l].since = 0 THEN now ELSE seen[l].since
        /\ l \notin ret => seen'[l].since = 0 /\ seen'[l].last = seen[l].last
  BY <1>1, <1>2, <1>3 DEF Sight, Zero
<1> QED
  BY <1>1, <1>2, <1>3, <1>4, <1>5, <1>6 DEF Time

(* Where a tracked instance comes from, and what the evaluation did to it. *)
Advanced(i, t, now) ==
    /\ i.labels = t.labels /\ t.phase # "resolved"
    /\ i.activeAt = t.activeAt
    /\ t.phase = "firing" => i.phase = "firing" /\ i.firedAt = t.firedAt
    /\ t.phase = "pending" /\ now - t.activeAt >= def.for => i.phase = "firing"
    /\ t.phase = "pending" /\ ~(now - t.activeAt >= def.for) => i.phase = "pending"
Fresh(i, now) ==
    /\ i.activeAt = now
    /\ i.phase = IF 0 >= def.for THEN "firing" ELSE "pending"
Expired(i, t, now) ==
    /\ i.labels = t.labels /\ t.phase # "pending"
    /\ i.activeAt = t.activeAt /\ i.firedAt = t.firedAt
    /\ t.phase = "resolved" => i = t /\ now - t.resolvedAt <= def.retention
    /\ t.phase = "firing" /\ now - t.lastSeen >= def.keepFiringFor =>
          i.phase = "resolved" /\ i.resolvedAt = now
    /\ t.phase = "firing" /\ ~(now - t.lastSeen >= def.keepFiringFor) => i = t

LEMMA AdvanceContinues ==
    ASSUME def \in Definitions, NEW t \in Instance, t.phase # "resolved", NEW now \in Time
    PROVE  Advanced(Advance(def, t, now), t, now)
  BY AdvanceFacts DEF Advanced, Instance, Phases

LEMMA AdvanceStarts ==
    ASSUME def \in Definitions, NEW l \in LabelSets, NEW now \in Time
    PROVE  /\ Fresh(Advance(def, NewInstance(l, now), now), now)
           /\ Advance(def, NewInstance(l, now), now).labels = l
<1> DEFINE n == NewInstance(l, now)
<1>1. n \in Instance /\ n.labels = l /\ n.phase = "pending" /\ n.activeAt = now
  BY NewInstanceFacts
<1> HIDE DEF n
<1>2. def.for \in Nat /\ now - now = 0
  BY DefinitionsAssumption DEF Time
<1>3. Advance(def, n, now).labels = l /\ Fresh(Advance(def, n, now), now)
  BY <1>1, <1>2, AdvanceFacts DEF Fresh
<1> QED BY <1>3 DEF n

LEMMA ExpireContinues ==
    ASSUME def \in Definitions, NEW t \in Instance, NEW now \in Time, Kept(def, t, now)
    PROVE  Expired(Expire(def, t, now), t, now)
<1>1. t.phase # "pending" /\ (t.phase = "resolved" => now - t.resolvedAt <= def.retention)
  BY DEF Kept
<1> QED BY <1>1, ExpireFacts DEF Expired, Instance, Phases

LEMMA EvalOutcome ==
    ASSUME IndInv, NEW now \in clock..MaxTime, NEW rows \in Results, Eval(now, rows),
           NEW ret, ret = Returned(rows), NEW i \in active'
    PROVE  \/ \E t \in active : t.labels \in ret /\ Advanced(i, t, now)
           \/ /\ i.labels \in ret /\ Fresh(i, now)
              /\ ~\E j \in active : j.labels = i.labels /\ j.phase # "resolved"
           \/ \E t \in active : t.labels \notin ret /\ Expired(i, t, now)
<1>1. /\ def \in Definitions /\ active \subseteq Instance /\ now \in Time /\ ret \subseteq LabelSets
      /\ i \in EvalInstances(def, active, ret, now) /\ SightingsAgree
  BY EvalSetting DEF IndInv
<1>2. \/ \E t \in active : /\ i = Advance(def, t, now)
                           /\ t.labels \in ret /\ t.phase # "resolved"
      \/ \E l \in ret : /\ i = Advance(def, NewInstance(l, now), now)
                        /\ ~\E j \in active : j.labels = l /\ j.phase # "resolved"
      \/ \E t \in active : /\ i = Expire(def, t, now)
                           /\ t.labels \notin ret /\ Kept(def, t, now)
  BY <1>1, EvalOrigin
<1>3. \A t \in active : t.phase # "resolved" => Advanced(Advance(def, t, now), t, now)
  BY <1>1, AdvanceContinues
<1>4. \A l \in ret : /\ Fresh(Advance(def, NewInstance(l, now), now), now)
                    /\ Advance(def, NewInstance(l, now), now).labels = l
  BY <1>1, AdvanceStarts
<1>5. \A t \in active : Kept(def, t, now) => Expired(Expire(def, t, now), t, now)
  BY <1>1, ExpireContinues
<1> QED BY <1>2, <1>3, <1>4, <1>5

(* The values of an instance's clock readings. *)
LEMMA InstanceTimes ==
    ASSUME IndInv, NEW i \in active
    PROVE  /\ i.labels \in LabelSets /\ i.phase \in {"pending", "firing", "resolved"}
           /\ i.activeAt \in Nat /\ i.firedAt \in Nat /\ i.resolvedAt \in Nat
           /\ i.lastSeen = seen[i.labels].last
           /\ i.phase = "pending" => seen[i.labels].since # 0 /\ i.activeAt = seen[i.labels].since
  BY DEF IndInv, TypeOK, SightingsAgree, Instance, Phases, Time, Zero

-----------------------------------------------------------------------------
(* After a successful evaluation nothing is left that it should have moved *)
(* on: `for`, keep_firing_for and the retention are all up to date.        *)
THEOREM Settling == Spec => []EvaluationSettles
<1>1. ASSUME IndInv, NEW now \in clock..MaxTime, NEW rows \in Results, Eval(now, rows)
      PROVE  EvaluationSettles'
  <2> DEFINE ret == Returned(rows)
  <2>1. /\ now \in Nat /\ def.for \in Nat /\ def.keepFiringFor \in Nat
        /\ clock' = now /\ def' = def
        /\ \A l \in LabelSets :
             /\ seen[l].since \in Nat /\ seen[l].last \in Nat
             /\ l \in ret => seen'[l].since = IF seen[l].since = 0 THEN now ELSE seen[l].since
             /\ l \notin ret => seen'[l].since = 0 /\ seen'[l].last = seen[l].last
        /\ now # 0 /\ ret \subseteq LabelSets
    BY <1>1, EvalSetting DEF Time
  <2>2. ReturnedIsTracked
    BY <1>1 DEF IndInv
  <2>3. ASSUME NEW i \in active'
        PROVE  /\ i.phase = "pending" =>
                    seen'[i.labels].since # 0 /\ now - seen'[i.labels].since < def.for
               /\ i.phase = "firing" =>
                    seen'[i.labels].since # 0 \/ now - seen'[i.labels].last < def.keepFiringFor
               /\ i.phase = "resolved" =>
                    seen'[i.labels].since = 0 /\ now - i.resolvedAt <= def.retention
    <3>1. CASE \E t \in active : t.labels \in ret /\ Advanced(i, t, now)
      <4>1. PICK t \in active : t.labels \in ret /\ Advanced(i, t, now)
        BY <3>1
      <4> HIDE DEF ret
      <4> QED BY <4>1, <2>1, <1>1, InstanceTimes DEF Advanced
    <3>2. CASE /\ i.labels \in ret /\ Fresh(i, now)
               /\ ~\E j \in active : j.labels = i.labels /\ j.phase # "resolved"
      <4>1. seen[i.labels].since = 0
        BY <3>2, <2>1, <2>2 DEF ReturnedIsTracked, Zero
      <4> HIDE DEF ret
      <4> QED BY <3>2, <4>1, <2>1 DEF Fresh
    <3>3. CASE \E t \in active : t.labels \notin ret /\ Expired(i, t, now)
      <4>1. PICK t \in active : t.labels \notin ret /\ Expired(i, t, now)
        BY <3>3
      <4>2. now - now <= def.retention
        BY <1>1, EvalSetting DEF Time
      <4> HIDE DEF ret
      <4> QED BY <4>1, <4>2, <2>1, <1>1, InstanceTimes DEF Expired
    <3> QED BY <3>1, <3>2, <3>3, <1>1, EvalOutcome
  <2> HIDE DEF ret
  <2> QED BY <2>1, <2>3 DEF EvaluationSettles, Zero
<1>2. Init => EvaluationSettles
  BY DEF Init, EvaluationSettles
<1>3. IndInv /\ EvaluationSettles /\ [Next]_vars => EvaluationSettles'
  <2> SUFFICES ASSUME IndInv, EvaluationSettles, [Next]_vars PROVE EvaluationSettles'
    OBVIOUS
  <2>1. CASE \E now \in clock..MaxTime, rows \in Results : Eval(now, rows)
    BY <2>1, <1>1
  <2>2. CASE UNCHANGED vars
    BY <2>2 DEF vars, EvaluationSettles
  <2>3. CASE result' \in {"duplicate", "adopted", "replaced"}
    BY <2>3 DEF EvaluationSettles
  <2> QED BY <2>1, <2>2, <2>3 DEF Next, EvalDuplicate, Adopt, Replace
<1> QED BY <1>2, <1>3, AlwaysIndInv, PTL DEF Spec

(* An alert resolves only from firing, after keep_firing_for of absence. *)
THEOREM Resolving == Spec => ResolvesOnlyAfterKeep
<1> DEFINE Step(l) ==
      InPhase(active', l, "resolved") /\ ~InPhase(active, l, "resolved") =>
         /\ InPhase(active, l, "firing")
         /\ seen'[l].since = Zero
         /\ clock' - seen'[l].last >= def.keepFiringFor
<1>1. ASSUME IndInv, [Next]_vars, NEW l \in LabelSets PROVE Step(l)
  <2> SUFFICES ASSUME NEW i \in active', i.labels = l, i.phase = "resolved",
                      ~InPhase(active, l, "resolved")
               PROVE  /\ InPhase(active, l, "firing")
                      /\ seen'[l].since = Zero
                      /\ clock' - seen'[l].last >= def.keepFiringFor
    BY DEF InPhase
  <2>1. i \notin active
    BY DEF InPhase
  <2>2. PICK now \in clock..MaxTime, rows \in Results : Eval(now, rows)
    BY <1>1, <2>1 DEF Next, EvalDuplicate, Adopt, Replace, vars
  <2> DEFINE ret == Returned(rows)
  <2>3. /\ clock' = now /\ now \in Nat /\ def.keepFiringFor \in Nat
        /\ l \notin ret => seen'[l].since = 0 /\ seen'[l].last = seen[l].last
    BY <1>1, <2>2, EvalSetting DEF Time
  <2>4. \A t \in active : /\ t.phase \in {"pending", "firing", "resolved"}
                          /\ t.lastSeen = seen[t.labels].last
    BY <1>1, InstanceTimes
  <2>5. ~\E t \in active : t.labels \in ret /\ Advanced(i, t, now)
    BY <2>4 DEF Advanced
  <2>6. ~Fresh(i, now)
    BY DEF Fresh
  <2>7. PICK t \in active : t.labels \notin ret /\ Expired(i, t, now)
    BY <1>1, <2>2, <2>5, <2>6, EvalOutcome
  <2>8. t.labels = l /\ t.phase = "firing"
    BY <2>4, <2>7 DEF Expired, InPhase
  <2>9. now - t.lastSeen >= def.keepFiringFor
    BY <2>7, <2>8 DEF Expired
  <2> HIDE DEF ret
  <2> QED BY <2>3, <2>4, <2>7, <2>8, <2>9 DEF InPhase, Zero
<1>2. IndInv /\ [Next]_vars => [\A l \in LabelSets : Step(l)]_vars
  BY <1>1
<1> QED
  BY <1>2, AlwaysIndInv, PTL DEF Spec, ResolvesOnlyAfterKeep

(* A firing alert leaves only by resolving, a resolved one only when its   *)
(* retention is over or its condition came back.                           *)
THEOREM Remembering == Spec => NotForgotten
<1> DEFINE Step(i) ==
      /\ i.phase = "firing" =>
            \E j \in active' : j.labels = i.labels /\ j.activeAt = i.activeAt
                               /\ j.firedAt = i.firedAt /\ j.phase # "pending"
      /\ i.phase = "resolved" =>
            \/ i \in active'
            \/ clock' - i.resolvedAt > def.retention
            \/ seen'[i.labels].since = clock'
<1>1. ASSUME IndInv, [Next]_vars, result' # "replaced", NEW i \in active PROVE Step(i)
  <2>1. CASE active' = active
    BY <2>1
  <2>2. CASE \E now \in clock..MaxTime, rows \in Results : Eval(now, rows)
    <3>1. PICK now \in clock..MaxTime, rows \in Results : Eval(now, rows)
      BY <2>2
    <3> DEFINE ret == Returned(rows)
    <3>2. /\ def \in Definitions /\ now \in Time /\ i \in Instance
          /\ active' = EvalInstances(def, active, ret, now)
          /\ clock' = now /\ SightingsAgree /\ def.retention \in Nat
      BY <1>1, <3>1, EvalSetting DEF IndInv
    <3>a. /\ i.labels \in LabelSets
          /\ i.labels \in ret =>
               seen'[i.labels].since = IF seen[i.labels].since = 0 THEN now
                                       ELSE seen[i.labels].since
      BY <1>1, <3>1, EvalSetting, InstanceTimes
    <3> HIDE DEF ret
    <3>3. CASE i.labels \notin ret
      <4>1. Kept(def, i, now) => Expire(def, i, now) \in active'
        BY <3>2, <3>3, EvalKeeps
      <4>2. CASE i.phase = "firing"
        <5>1. Kept(def, i, now)
          BY <4>2 DEF Kept
        <5> DEFINE e == Expire(def, i, now)
        <5>2. e.labels = i.labels /\ e.activeAt = i.activeAt /\ e.firedAt = i.firedAt
              /\ e.phase # "pending"
          BY <3>2, <4>2, ExpireFacts
        <5> QED BY <4>1, <4>2, <5>1, <5>2
      <4>3. CASE i.phase = "resolved"
        <5>1. Expire(def, i, now) = i
          BY <3>2, <4>3, ExpireFacts
        <5>2. Kept(def, i, now) \/ now - i.resolvedAt > def.retention
          BY <3>2, <4>3 DEF Kept, Instance, Time
        <5> QED BY <3>2, <4>1, <4>3, <5>1, <5>2
      <4> QED BY <4>2, <4>3
    <3>4. CASE i.labels \in ret
      <4>1. CASE i.phase = "firing"
        <5>1. Advance(def, i, now) \in active'
          BY <3>2, <3>4, <4>1, MatchesIsIdentity
             DEF EvalInstances, Track, Continuing, SightingsAgree
        <5> DEFINE a == Advance(def, i, now)
        <5>2. a.labels = i.labels /\ a.activeAt = i.activeAt /\ a.firedAt = i.firedAt
              /\ a.phase # "pending"
          BY <3>2, <4>1, AdvanceFacts
        <5> QED BY <4>1, <5>1, <5>2
      <4>2. CASE i.phase = "resolved"
        <5>1. seen[i.labels].since = 0
          BY <1>1, <3>a, <4>2
             DEF IndInv, ReturnedIsTracked, OneInstancePerLabelSet, Zero
        <5> QED BY <3>2, <3>4, <3>a, <4>2, <5>1
      <4> QED BY <4>1, <4>2
    <3> QED BY <3>3, <3>4
  <2> QED BY <1>1, <2>1, <2>2 DEF Next, EvalDuplicate, Adopt, Replace, vars
<1>2. IndInv /\ [Next]_vars => [result' # "replaced" => \A i \in active : Step(i)]_vars
  BY <1>1
<1> QED
  BY <1>2, AlwaysIndInv, PTL DEF Spec, NotForgotten
=============================================================================
