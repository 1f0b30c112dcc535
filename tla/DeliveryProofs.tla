--------------------------- MODULE DeliveryProofs ---------------------------
(***************************************************************************)
(* The properties of Delivery, for any number of rules, rows, endpoints    *)
(* and batches waiting, any intervals and any clock.                       *)
(*                                                                         *)
(* They rest on one idea.  When an instance entered its phase is a time    *)
(* that no later evaluation changes, so of two evaluations of a rule the   *)
(* later one shows a phase begun by the time of the earlier one exactly if *)
(* the earlier one shows it too (Agrees).  Flying states this of every two *)
(* batches on their way, Told and Held of a batch and what was posted      *)
(* before it.                                                              *)
(***************************************************************************)
EXTENDS Delivery, SequenceTheorems, TLAPS

(* Two rules never raise the same alert. *)
RulesApart == \A r, s \in Rules : r # s => LabelsOf(r) \cap LabelsOf(s) = {}
(* No two label sets collide. *)
HashInjective == \A l, m \in LabelSets : Hash(l) = Hash(m) => l = m

Flight == {waiting[i] : i \in 1..Len(waiting)} \cup ({inHand} \ {None})
Shown(alerts) == {a \in alerts : a.phase # "pending"}

Shape ==
    /\ clock \in Nat /\ next \in [Rules -> Nat \ {0}]
    /\ active \in [Rules -> SUBSET Instances]
    /\ waiting \in Seq(Batches) /\ inHand \in Batches \cup {None}
    /\ \A fp \in DOMAIN lastSent : lastSent[fp] \in Nat
    /\ inHand = None => due = {}
    /\ inHand # None => due \subseteq Shown(inHand.alerts)

(* The instances of one evaluation: one to a label set, each of the rule,  *)
(* in a phase that began by then.                                          *)
OnePer(alerts) == \A a, b \in alerts : a.labels = b.labels => a = b
Tracked(alerts, r, t) ==
    /\ OnePer(alerts)
    /\ \A a \in alerts : a.labels \in LabelsOf(r) /\ a.fp = Hash(a.labels)
    /\ \A a \in Shown(alerts) : Since(a) > 0 /\ Since(a) <= t
Tracking ==
    /\ \A r \in Rules : Tracked(active[r], r, next[r] - 1)
    /\ \A x \in Flight : x.now > 0 /\ x.now < next[x.rule] /\ Tracked(x.alerts, x.rule, x.now)

Same(a, b) == a.labels = b.labels /\ a.phase = b.phase /\ Since(a) = Since(b)
Agrees(x, b) == Since(b) <= x.now => \E a \in x.alerts : Same(a, b)
Before(x, y) == x.rule = y.rule => x.now < y.now /\ \A b \in Shown(y.alerts) : Agrees(x, b)
Flying ==
    /\ \A i, j \in 1..Len(waiting) : i < j => Before(waiting[i], waiting[j])
    /\ inHand # None => \A i \in 1..Len(waiting) : Before(inHand, waiting[i])
    /\ \A x \in Flight : \A b \in Shown(active[x.rule]) : Agrees(x, b)

(* What was posted of a label set, against what is still to come of it.    *)
Recalls(m, b) == Since(b) <= m.at => Knows(m, b)
Posted(m, l, nexts, actives, flight) ==
    /\ m.at \in Nat /\ m.since \in Nat /\ m.since <= m.at
    /\ \A r \in Rules : l \in LabelsOf(r) =>
          /\ m.at < nexts[r]
          /\ \A b \in Shown(actives[r]) : b.labels = l => Recalls(m, b)
    /\ \A x \in flight : l \in LabelsOf(x.rule) =>
          /\ m.at < x.now
          /\ \A b \in Shown(x.alerts) : b.labels = l => Recalls(m, b)
Held == \A e \in Endpoints, l \in LabelSets : Posted(held[e][l], l, next, active, Flight)
Told == \A l \in LabelSets : Posted(told[l], l, next, active, Flight)

IndInv == Shape /\ Tracking /\ Flying /\ Held /\ Told /\ RecordedIsHeld

(* The record is what was told, and what is due is judged by it.           *)
SentIsTold ==
    /\ \A l \in LabelSets : Hash(l) \in DOMAIN lastSent => lastSent[Hash(l)] = told[l].at
    /\ inHand # None => due = DueAt(inHand.now, inHand.alerts)

(* The latest batch of a rule that is clean. *)
Latest(r, i) == waiting[i].rule = r /\ \A j \in (i + 1)..Len(waiting) : waiting[j].rule # r
Known(r) == \A a \in Shown(active[r]) : Knows(told[a.labels], a)
Through(r) ==
    \/ active[r] = {}
    \/ \E i \in 1..Len(waiting) : Latest(r, i) /\ waiting[i].alerts = active[r]
    \/ /\ \A i \in 1..Len(waiting) : waiting[i].rule # r
       /\ (inHand # None /\ inHand.rule = r /\ inHand.alerts = active[r]) \/ Known(r)
Quiet == clean \subseteq Rules /\ \A r \in clean : Through(r)
TellingInv == SentIsTold /\ Quiet

(* How far batches are out of order, and how old a record is that a sweep  *)
(* dropped.                                                                *)
LagSmall == MaxLag <= Tolerance * ResendInterval
Lagging ==
    /\ \A r \in Rules : clock - next[r] <= MaxLag
    /\ \A x \in Flight : x.now <= clock
    /\ \A i, j \in 1..Len(waiting) : i < j => waiting[i].now - waiting[j].now <= MaxLag
    /\ inHand # None => \A i \in 1..Len(waiting) : inHand.now - waiting[i].now <= MaxLag
Swept ==
    \A l \in LabelSets : Hash(l) \notin DOMAIN lastSent /\ told[l].phase # "none" =>
        /\ \A r \in Rules : next[r] - told[l].at >= ResendInterval
        /\ \A x \in Flight : x.now - told[l].at >= ResendInterval
SweepInv == Lagging /\ Swept

-----------------------------------------------------------------------------
(* What an evaluation makes of the instances.                              *)

LEMMA LabelsOfRule ==
  ASSUME NEW r \in Rules PROVE LabelsOf(r) \subseteq LabelSets
  BY DEF LabelSets

LEMMA NewInstances ==
  ASSUME NEW r \in Rules, NEW l \in LabelsOf(r), NEW now \in Nat, NEW b, b = NewInstance(l, now)
  PROVE  b \in Instances /\ b.labels = l /\ b.fp = Hash(l) /\ b.phase = "pending"
<1>1. l \in LabelSets
  BY LabelsOfRule
<1> QED
  BY <1>1 DEF NewInstance, Instances, Phases, Time, Zero

LEMMA Advancing ==
  ASSUME NEW d, NEW inst \in Instances, NEW now \in Nat, NEW b, b = Advance(d, inst, now)
  PROVE  /\ b \in Instances /\ b.labels = inst.labels /\ b.fp = inst.fp
         /\ \/ b.phase = "firing" /\ Since(b) = now
            \/ b.phase = inst.phase /\ Since(b) = Since(inst)
  BY DEF Advance, Instances, Phases, Time, Since

LEMMA Expiring ==
  ASSUME NEW d, NEW inst \in Instances, NEW now \in Nat, NEW b, b = Expire(d, inst, now)
  PROVE  /\ b \in Instances /\ b.labels = inst.labels /\ b.fp = inst.fp
         /\ \/ b.phase = "resolved" /\ Since(b) = now
            \/ b.phase = inst.phase /\ Since(b) = Since(inst)
  BY DEF Expire, Instances, Phases, Time, Since

(* Each instance of a rule keeps its label set, one to a label set, and is *)
(* in a phase begun at this evaluation or one it was in before.            *)
LEMMA Evaluating ==
  ASSUME NEW d, NEW r \in Rules, NEW insts \in SUBSET Instances, NEW t \in Nat, NEW now \in Nat,
         t < now, Tracked(insts, r, t), NEW returned \in SUBSET LabelsOf(r),
         NEW E, E = EvalInstances(d, insts, returned, now)
  PROVE  /\ E \in SUBSET Instances /\ Tracked(E, r, now)
         /\ \A b \in Shown(E) : Since(b) = now \/ \E a \in insts : Same(a, b)
<1> DEFINE continuing == Continuing(insts, returned)
           fresh == {m \in returned : ~\E inst \in continuing : Matches(inst, m)}
           Cont(b) == \E i \in continuing : b = Advance(d, i, now)
           New(b) == \E l \in fresh : b = Advance(d, NewInstance(l, now), now)
           Gone(b) == \E i \in Absent(insts, returned) : b = Expire(d, i, now)
<1>1. ASSUME NEW b \in E PROVE Cont(b) \/ New(b) \/ Gone(b)
  BY <1>1 DEF EvalInstances, Track
<1>2. ASSUME NEW i \in insts
      PROVE  i \in Instances /\ i.labels \in LabelsOf(r) /\ i.fp = Hash(i.labels)
  BY <1>2 DEF Tracked
<1>3. ASSUME NEW i \in insts, i.phase # "pending" PROVE Since(i) > 0 /\ Since(i) <= t
  BY <1>3 DEF Tracked, Shown
<1>4. ASSUME NEW i \in continuing PROVE i \in insts /\ i.labels \in returned
  BY <1>4 DEF Continuing, Matches
<1>5. ASSUME NEW i \in Absent(insts, returned) PROVE i \in insts /\ i.labels \notin returned
  BY <1>5, <1>2 DEF Absent, Matches
<1>6. ASSUME NEW l \in fresh PROVE l \in returned /\ \A i \in continuing : i.labels # l
  BY <1>6, <1>2, <1>4 DEF Matches
<1>7. ASSUME NEW l \in fresh, NEW b, b = Advance(d, NewInstance(l, now), now)
      PROVE  /\ b \in Instances /\ b.labels = l /\ b.fp = Hash(l)
             /\ (b.phase = "firing" /\ Since(b) = now) \/ b.phase = "pending"
  <2>1. l \in LabelsOf(r)
    BY <1>6, <1>7
  <2> HIDE DEF fresh
  <2>2. NewInstance(l, now) \in Instances /\ NewInstance(l, now).labels = l
        /\ NewInstance(l, now).fp = Hash(l) /\ NewInstance(l, now).phase = "pending"
    BY <2>1, NewInstances
  <2> QED
    BY <1>7, <2>2, Advancing
<1> HIDE DEF continuing, fresh
<1>8. ASSUME NEW b \in E
      PROVE  /\ b \in Instances /\ b.labels \in LabelsOf(r) /\ b.fp = Hash(b.labels)
             /\ b.phase # "pending" => Since(b) = now \/ \E a \in insts : Same(a, b)
  <2>1. CASE Cont(b)
    <3>1. PICK i \in continuing : b = Advance(d, i, now)
      BY <2>1
    <3>2. i \in insts /\ i \in Instances
      BY <1>2, <1>4
    <3> QED
      BY <1>2, <3>1, <3>2, Advancing DEF Same
  <2>2. CASE New(b)
    <3>1. PICK l \in fresh : b = Advance(d, NewInstance(l, now), now)
      BY <2>2
    <3>2. l \in LabelsOf(r)
      BY <1>6
    <3> QED
      BY <1>7, <3>1, <3>2
  <2>3. CASE Gone(b)
    <3>1. PICK i \in Absent(insts, returned) : b = Expire(d, i, now)
      BY <2>3
    <3>2. i \in insts /\ i \in Instances
      BY <1>2, <1>5
    <3> QED
      BY <1>2, <3>1, <3>2, Expiring DEF Same
  <2> QED
    BY <1>1, <1>8, <2>1, <2>2, <2>3
<1>9. ASSUME NEW a \in E, NEW b \in E, a.labels = b.labels PROVE a = b
  <2>1. ASSUME NEW c, Cont(c) PROVE c.labels \in returned /\ \E i \in continuing : c.labels = i.labels
    BY <2>1, <1>2, <1>4, Advancing
  <2>2. ASSUME NEW c, New(c) PROVE c.labels \in fresh
    BY <2>2, <1>7
  <2>3. ASSUME NEW c, Gone(c) PROVE c.labels \notin returned
    BY <2>3, <1>2, <1>5, Expiring
  <2>4. CASE Cont(a) /\ Cont(b)
    <3>1. PICK i \in continuing : a = Advance(d, i, now)
      BY <2>4
    <3>2. PICK j \in continuing : b = Advance(d, j, now)
      BY <2>4
    <3>3. i \in insts /\ j \in insts /\ i.labels = j.labels
      BY <1>2, <1>4, <1>9, <3>1, <3>2, Advancing
    <3> QED
      BY <3>1, <3>2, <3>3 DEF Tracked, OnePer
  <2>5. CASE New(a) /\ New(b)
    <3>1. PICK l \in fresh : a = Advance(d, NewInstance(l, now), now)
      BY <2>5
    <3>2. PICK m \in fresh : b = Advance(d, NewInstance(m, now), now)
      BY <2>5
    <3>3. l = m
      BY <1>7, <1>9, <3>1, <3>2
    <3> QED
      BY <3>1, <3>2, <3>3
  <2>6. CASE Gone(a) /\ Gone(b)
    <3>1. PICK i \in Absent(insts, returned) : a = Expire(d, i, now)
      BY <2>6
    <3>2. PICK j \in Absent(insts, returned) : b = Expire(d, j, now)
      BY <2>6
    <3>3. i \in insts /\ j \in insts /\ i.labels = j.labels
      BY <1>2, <1>5, <1>9, <3>1, <3>2, Expiring
    <3> QED
      BY <3>1, <3>2, <3>3 DEF Tracked, OnePer
  <2> QED
    BY <1>1, <1>6, <1>9, <2>1, <2>2, <2>3, <2>4, <2>5, <2>6
<1>10. ASSUME NEW b \in Shown(E)
       PROVE  (Since(b) = now \/ \E a \in insts : Same(a, b)) /\ Since(b) > 0 /\ Since(b) <= now
  <2>1. b \in E /\ b.phase # "pending"
    BY DEF Shown
  <2>2. CASE Since(b) = now
    BY <2>2
  <2>3. ASSUME NEW a \in insts, Same(a, b) PROVE Since(b) > 0 /\ Since(b) <= now
    <3>1. Since(a) > 0 /\ Since(a) <= t /\ Since(a) = Since(b)
      BY <1>3, <2>1, <2>3 DEF Same
    <3>2. Since(a) \in Nat
      BY <1>2 DEF Since, Instances, Time
    <3> QED
      BY <3>1, <3>2
  <2> QED
    BY <1>8, <2>1, <2>2, <2>3
<1> QED
  BY <1>8, <1>9, <1>10 DEF Tracked, OnePer

-----------------------------------------------------------------------------
(* The queue and the boundaries.                                           *)

LEMMA Products ==
  ASSUME NEW a \in Nat, NEW b \in Nat PROVE a * b \in Nat
  OBVIOUS

(* A group's next boundary is a later one. *)
LEMMA BoundaryLater ==
  ASSUME Shape, NEW r \in Rules
  PROVE  NextBoundary(r) \in Nat \ {0} /\ NextBoundary(r) > next[r]
<1> DEFINE step == GroupInterval[r]
           late == clock - (next[r] + step)
           skipped == (late + step - 1) \div step
<1>1. step \in Nat \ {0} /\ next[r] \in Nat \ {0} /\ clock \in Nat
  BY DeliveryAssumption DEF Shape
<1>2. CASE late <= 0
  BY <1>1, <1>2 DEF NextBoundary
<1>3. CASE ~(late <= 0)
  <2>1. late + step - 1 \in Nat
    BY <1>1, <1>3
  <2>2. skipped \in Nat
    <3> DEFINE n == late + step - 1
    <3>1. n \in Nat
      BY <2>1
    <3> HIDE DEF n
    <3>2. n \div step \in Nat
      BY <1>1, <3>1
    <3> QED
      BY <3>2 DEF n
  <2>3. step * skipped \in Nat
    BY <1>1, <2>2, Products
  <2>4. NextBoundary(r) = next[r] + step + step * skipped
    BY <1>3 DEF NextBoundary
  <2> HIDE DEF skipped, late
  <2> QED
    BY <1>1, <2>3, <2>4
<1> QED
  BY <1>2, <1>3

(* Putting a batch: the ones that stay move up, and it comes last. *)
LEMMA PuttingAny ==
  ASSUME waiting \in Seq(Batches), NEW item, NEW k, Enqueue(item, k)
  PROVE  /\ k \in Nat /\ k <= Len(waiting) /\ Len(waiting') = Len(waiting) - k + 1
         /\ \A i \in 1..(Len(waiting) - k) : waiting'[i] = waiting[i + k]
         /\ waiting'[Len(waiting) - k + 1] = item
<1> DEFINE kept == SubSeq(waiting, k + 1, Len(waiting))
<1>1. Len(waiting) \in Nat /\ k \in 0..Len(waiting)
  BY LenProperties DEF Enqueue
<1>2. /\ kept \in Seq(Batches \cup {item}) /\ Len(kept) = Len(waiting) - k
      /\ \A i \in 1..(Len(waiting) - k) : kept[i] = waiting[i + k]
  BY <1>1
<1>3. waiting' = Append(kept, item)
  BY DEF Enqueue
<1> HIDE DEF kept
<1> QED
  BY <1>1, <1>2, <1>3

LEMMA Putting ==
  ASSUME waiting \in Seq(Batches), NEW item \in Batches, NEW k, Enqueue(item, k)
  PROVE  /\ k \in Nat /\ k <= Len(waiting) /\ waiting' \in Seq(Batches)
         /\ Len(waiting') = Len(waiting) - k + 1
         /\ \A i \in 1..(Len(waiting) - k) : waiting'[i] = waiting[i + k]
         /\ waiting'[Len(waiting) - k + 1] = item
<1> DEFINE kept == SubSeq(waiting, k + 1, Len(waiting))
<1>1. Len(waiting) \in Nat /\ k \in 0..Len(waiting)
  BY LenProperties DEF Enqueue
<1>2. kept \in Seq(Batches)
  BY <1>1
<1>3. waiting' = Append(kept, item)
  BY DEF Enqueue
<1> HIDE DEF kept
<1>4. waiting' \in Seq(Batches)
  BY <1>2, <1>3
<1> QED
  BY <1>4, PuttingAny

(* Taking a batch: the others move up. *)
LEMMA Taking ==
  ASSUME waiting \in Seq(Batches), Take
  PROVE  /\ Len(waiting) > 0 /\ inHand' = waiting[1] /\ waiting[1] \in Batches
         /\ waiting' \in Seq(Batches) /\ Len(waiting') = Len(waiting) - 1
         /\ \A i \in 1..(Len(waiting) - 1) : waiting'[i] = waiting[i + 1]
<1>1. Len(waiting) \in Nat /\ Len(waiting) > 0
  BY EmptySeq, LenProperties DEF Take
<1>2. inHand' = waiting[1] /\ waiting[1] \in Batches
  BY <1>1 DEF Take
<1>3. waiting' = Tail(waiting)
  BY DEF Take
<1> QED
  BY <1>1, <1>2, <1>3

(* What was posted stays behind what is on its way as batches leave and    *)
(* boundaries pass.                                                        *)
LEMMA PostedStays ==
  ASSUME NEW m, NEW l, NEW n1, NEW n2, NEW acts, NEW f1, NEW f2, Posted(m, l, n1, acts, f1),
         f2 \subseteq f1, \A r \in Rules : n1[r] \in Nat /\ n2[r] \in Nat /\ n1[r] <= n2[r]
  PROVE  Posted(m, l, n2, acts, f2)
  BY DEF Posted

(* And behind a new evaluation. *)
LEMMA PostedEvaluated ==
  ASSUME NEW m, NEW l, NEW n1, NEW n2, NEW a1, NEW a2, NEW f1, NEW f2, NEW r \in Rules, NEW E, NEW y,
         Posted(m, l, n1, a1, f1), \A s \in Rules : n1[s] \in Nat /\ n2[s] \in Nat /\ n1[s] <= n2[s],
         \A s \in Rules : a2[s] = IF s = r THEN E ELSE a1[s],
         \A b \in Shown(E) : Since(b) = n1[r] \/ \E a \in a1[r] : Same(a, b),
         f2 \subseteq f1 \cup {y}, y.rule = r, y.now = n1[r], y.alerts = E
  PROVE  Posted(m, l, n2, a2, f2)
<1>1. ASSUME l \in LabelsOf(r), NEW b \in Shown(E), b.labels = l PROVE Recalls(m, b)
  <2>1. m.at \in Nat /\ m.at < n1[r]
    BY <1>1 DEF Posted
  <2>2. CASE Since(b) = n1[r]
    BY <2>1, <2>2 DEF Recalls
  <2>3. ASSUME NEW a \in a1[r], Same(a, b) PROVE Recalls(m, b)
    <3>1. a \in Shown(a1[r]) /\ a.labels = l
      BY <1>1, <2>3 DEF Shown, Same
    <3>2. Recalls(m, a)
      BY <1>1, <3>1 DEF Posted
    <3> QED
      BY <2>3, <3>2 DEF Recalls, Knows, Same
  <2> QED
    BY <2>2, <2>3
<1>2. ASSUME NEW s \in Rules, l \in LabelsOf(s)
      PROVE  m.at < n2[s] /\ \A b \in Shown(a2[s]) : b.labels = l => Recalls(m, b)
  BY <1>1, <1>2 DEF Posted
<1>3. ASSUME NEW x \in f2, l \in LabelsOf(x.rule)
      PROVE  m.at < x.now /\ \A b \in Shown(x.alerts) : b.labels = l => Recalls(m, b)
  BY <1>1, <1>3 DEF Posted
<1> QED
  BY <1>2, <1>3 DEF Posted

LEMMA SinceNat ==
  ASSUME NEW a \in Instances PROVE Since(a) \in Nat
  BY DEF Since, Instances, Time

LEMMA FlightBatches ==
  ASSUME Shape
  PROVE  /\ \A i \in 1..Len(waiting) : waiting[i] \in Batches /\ waiting[i] \in Flight
         /\ \A x \in Flight : x \in Batches
         /\ inHand # None => inHand \in Flight
<1>1. ASSUME NEW i \in 1..Len(waiting) PROVE waiting[i] \in Batches
  BY ElementOfSeq DEF Shape
<1> QED
  BY <1>1 DEF Flight, Shape

LEMMA BatchParts ==
  ASSUME NEW x \in Batches
  PROVE  x.rule \in Rules /\ x.now \in Nat /\ x.alerts \in SUBSET Instances
  BY DEF Batches, Time

(* What is posted of a batch is behind what is still on its way. *)
LEMMA Posting ==
  ASSUME RulesApart, Shape, Tracking, Flying, inHand # None, NEW a \in due,
         NEW f, f = {waiting[i] : i \in 1..Len(waiting)}
  PROVE  Posted(Message(inHand, a), a.labels, next, active, f)
<1> DEFINE x == inHand
           l == a.labels
           m == Message(x, a)
<1>1. x \in Flight /\ x \in Batches /\ x.rule \in Rules /\ x.now \in Nat
  BY FlightBatches, BatchParts
<1>2. a \in x.alerts /\ a.phase # "pending" /\ a \in Shown(x.alerts) /\ a \in Instances
  BY <1>1, BatchParts DEF Shape, Shown
<1>3. x.now < next[x.rule] /\ Tracked(x.alerts, x.rule, x.now)
  BY <1>1 DEF Tracking
<1>4. Since(a) \in Nat /\ Since(a) <= x.now /\ l \in LabelsOf(x.rule) /\ OnePer(x.alerts)
  BY <1>2, <1>3, SinceNat DEF Tracked
<1>5. m.at = x.now /\ m.since = Since(a) /\ m.phase = a.phase
  BY DEF Message
<1>6. ASSUME NEW b, b.labels = l, Agrees(x, b) PROVE Recalls(m, b)
  <2> SUFFICES ASSUME Since(b) <= x.now PROVE Knows(m, b)
    BY <1>5 DEF Recalls
  <2>1. PICK c \in x.alerts : Same(c, b)
    BY <1>6 DEF Agrees
  <2>2. c = a
    BY <1>2, <1>4, <1>6, <2>1 DEF Same, OnePer
  <2> QED
    BY <1>5, <2>1, <2>2 DEF Knows, Same
<1>7. ASSUME NEW r \in Rules, l \in LabelsOf(r) PROVE r = x.rule
  BY <1>1, <1>4, <1>7 DEF RulesApart
<1>8. ASSUME NEW r \in Rules, l \in LabelsOf(r)
      PROVE  m.at < next[r] /\ \A b \in Shown(active[r]) : b.labels = l => Recalls(m, b)
  <2>1. r = x.rule
    BY <1>7, <1>8
  <2>2. \A b \in Shown(active[r]) : Agrees(x, b)
    BY <1>1, <2>1 DEF Flying
  <2> HIDE DEF m, x, l
  <2> QED
    BY <1>3, <1>5, <1>6, <2>1, <2>2
<1>9. ASSUME NEW y \in f, l \in LabelsOf(y.rule)
      PROVE  m.at < y.now /\ \A b \in Shown(y.alerts) : b.labels = l => Recalls(m, b)
  <2>1. PICK i \in 1..Len(waiting) : y = waiting[i]
    OBVIOUS
  <2>2. y \in Batches /\ y.rule \in Rules
    BY <2>1, FlightBatches, BatchParts
  <2>3. Before(x, y) /\ y.rule = x.rule
    BY <1>7, <1>9, <2>1, <2>2 DEF Flying
  <2> HIDE DEF m, x, l
  <2> QED
    BY <1>5, <1>6, <2>3 DEF Before
<1> HIDE DEF m, x, l
<1>10. Posted(m, l, next, active, f)
  BY <1>1, <1>4, <1>5, <1>8, <1>9 DEF Posted
<1> QED
  BY <1>10 DEF m, x, l

-----------------------------------------------------------------------------
(* IndInv, action by action.                                               *)

LEMMA Initially ==
  ASSUME Init
  PROVE  IndInv
<1> USE DEF Init, FifoInit, CadenceInit
<1>1. Flight = {} /\ Len(waiting) = 0
  BY DEF Flight
<1>2. Shape
  BY DEF Shape
<1>3. Tracking
  BY <1>1 DEF Tracking, Tracked, OnePer, Shown
<1>4. Flying
  BY <1>1 DEF Flying
<1>5. ASSUME NEW l PROVE Posted(Nothing, l, next, active, Flight)
  BY <1>1 DEF Posted, Nothing, Shown, Zero
<1>6. Held /\ Told
  BY <1>5 DEF Held, Told
<1>7. RecordedIsHeld
  BY DEF RecordedIsHeld
<1> QED
  BY <1>2, <1>3, <1>4, <1>6, <1>7 DEF IndInv

(* Steps that leave the rules, the queue and the posts alone. *)
LEMMA QuietStep ==
  ASSUME IndInv, clock' \in Nat, UNCHANGED <<next, active, waiting, inHand, due, lastSent, held, told>>
  PROVE  IndInv'
<1>1. Flight' = Flight
  BY DEF Flight
<1>2. Shape'
  BY DEF IndInv, Shape
<1>3. Tracking'
  BY <1>1 DEF IndInv, Tracking
<1>4. Flying'
  BY <1>1 DEF IndInv, Flying
<1>5. Held' /\ Told'
  BY <1>1 DEF IndInv, Held, Told
<1>6. RecordedIsHeld'
  BY DEF IndInv, RecordedIsHeld
<1> QED
  BY <1>2, <1>3, <1>4, <1>5, <1>6 DEF IndInv

LEMMA FailsStep ==
  ASSUME IndInv, NEW r \in Rules, EvaluateFails(r)
  PROVE  IndInv'
<1> USE DEF IndInv, EvaluateFails, fifoVars, cadenceVars
<1>1. Flight' = Flight /\ active' = active
  BY DEF Flight
<1>2. next' \in [Rules -> Nat \ {0}] /\ \A s \in Rules : next[s] \in Nat /\ next[s] <= next'[s]
  BY BoundaryLater DEF Shape
<1>3. Shape'
  BY <1>2 DEF Shape
<1>4. Tracking'
  <2>1. ASSUME NEW s \in Rules PROVE Tracked(active'[s], s, next'[s] - 1)
    <3>1. \A a \in Shown(active[s]) : Since(a) \in Nat
      BY SinceNat DEF Shape, Shown
    <3> QED
      BY <1>1, <1>2, <3>1 DEF Tracking, Tracked
  <2>2. ASSUME NEW x \in Flight' PROVE x.now > 0 /\ x.now < next'[x.rule] /\ Tracked(x.alerts, x.rule, x.now)
    <3>1. x.rule \in Rules /\ x.now \in Nat
      BY <1>1, <2>2, FlightBatches, BatchParts
    <3> QED
      BY <1>1, <1>2, <2>2, <3>1 DEF Tracking
  <2> QED
    BY <2>1, <2>2 DEF Tracking
<1>5. Flying'
  BY <1>1 DEF Flying
<1>6. Held' /\ Told'
  BY <1>1, <1>2, PostedStays DEF Held, Told
<1>7. RecordedIsHeld'
  BY DEF RecordedIsHeld
<1> QED
  BY <1>3, <1>4, <1>5, <1>6, <1>7

(* An evaluation is behind nothing that is on its way. *)
LEMMA EvaluatedLater ==
  ASSUME NEW x, NEW r, NEW insts, NEW E, NEW now \in Nat, x.now \in Nat, x.now < now,
         \A b \in Shown(insts) : Agrees(x, b),
         \A b \in Shown(E) : Since(b) = now \/ \E a \in insts : Same(a, b)
  PROVE  \A b \in Shown(E) : Agrees(x, b)
<1> SUFFICES ASSUME NEW b \in Shown(E), Since(b) <= x.now PROVE \E a \in x.alerts : Same(a, b)
  BY DEF Agrees
<1>1. PICK a \in insts : Same(a, b)
  OBVIOUS
<1>2. a \in Shown(insts) /\ Since(a) <= x.now
  BY <1>1 DEF Same, Shown
<1>3. PICK c \in x.alerts : Same(c, a)
  BY <1>2 DEF Agrees
<1> QED
  BY <1>1, <1>3 DEF Same

LEMMA EvaluateStep ==
  ASSUME IndInv, NEW r \in Rules, NEW rows \in SUBSET Rows[r], NEW k, Evaluate(r, rows, k)
  PROVE  IndInv'
<1> DEFINE returned == {Labels(Definition[r], row) : row \in rows}
           E == EvalInstances(Rule(r), active[r], returned, next[r])
           y == [rule |-> r, now |-> next[r], alerts |-> E]
           L == Len(waiting)
<1>1. returned \in SUBSET LabelsOf(r)
  BY DEF LabelsOf
<1>2. /\ next[r] \in Nat \ {0} /\ active[r] \in SUBSET Instances /\ Tracked(active[r], r, next[r] - 1)
      /\ waiting \in Seq(Batches) /\ L \in Nat
  BY LenProperties DEF IndInv, Shape, Tracking
<1>3. /\ active' = [active EXCEPT ![r] = E] /\ next' = [next EXCEPT ![r] = NextBoundary(r)]
      /\ inHand' = inHand /\ (waiting' = waiting \/ Enqueue(y, k))
      /\ UNCHANGED <<clock, due, lastSent, held, told>>
  BY DEF Evaluate, fifoVars, cadenceVars, Enqueue
<1> HIDE DEF returned
<1>4. /\ E \in SUBSET Instances /\ Tracked(E, r, next[r])
      /\ \A b \in Shown(E) : Since(b) = next[r] \/ \E a \in active[r] : Same(a, b)
  <2>1. next[r] - 1 \in Nat /\ next[r] - 1 < next[r] /\ next[r] \in Nat
    BY <1>2
  <2> QED
    BY <1>1, <1>2, <2>1, Evaluating
<1> HIDE DEF E
<1>5. y \in Batches /\ y.rule = r /\ y.now = next[r] /\ y.alerts = E
  BY <1>2, <1>4 DEF Batches, Time
<1> HIDE DEF y
<1>6. /\ \A s \in Rules : active'[s] = IF s = r THEN E ELSE active[s]
      /\ active' \in [Rules -> SUBSET Instances]
  BY <1>3, <1>4 DEF IndInv, Shape
<1>7. /\ next' \in [Rules -> Nat \ {0}] /\ next'[r] > next[r]
      /\ \A s \in Rules : next[s] \in Nat /\ next'[s] \in Nat /\ next[s] <= next'[s]
  BY <1>3, BoundaryLater DEF IndInv, Shape
<1>8. waiting' \in Seq(Batches)
  BY <1>2, <1>3, <1>5, Putting
<1>9. ASSUME NEW i \in 1..Len(waiting')
      PROVE  \/ \E j \in 1..L : waiting'[i] = waiting[j]
             \/ waiting'[i] = y
  <2>1. CASE waiting' = waiting
    BY <1>9, <2>1
  <2>2. CASE Enqueue(y, k)
    <3>1. /\ k \in Nat /\ k <= L /\ Len(waiting') = L - k + 1
          /\ \A n \in 1..(L - k) : waiting'[n] = waiting[n + k]
          /\ waiting'[L - k + 1] = y
      BY <1>2, <1>5, <2>2, Putting
    <3>2. CASE i = L - k + 1
      BY <3>1, <3>2
    <3>3. CASE i # L - k + 1
      <4>1. i \in 1..(L - k) /\ i + k \in 1..L
        BY <1>2, <1>9, <3>1, <3>3
      <4> QED
        BY <3>1, <4>1
    <3> QED
      BY <3>2, <3>3
  <2> QED
    BY <1>3, <2>1, <2>2
<1>10. Flight' \subseteq Flight \cup {y}
  BY <1>3, <1>9 DEF Flight
<1>11. Shape'
  BY <1>3, <1>6, <1>7, <1>8 DEF IndInv, Shape
<1>12. Tracking'
  <2>1. ASSUME NEW s \in Rules PROVE Tracked(active'[s], s, next'[s] - 1)
    <3>1. \A a \in Shown(active'[s]) : Since(a) \in Nat
      BY <1>6, SinceNat DEF Shown
    <3>2. CASE s = r
      BY <1>2, <1>4, <1>6, <1>7, <3>1, <3>2 DEF Tracked
    <3>3. CASE s # r
      BY <1>6, <1>7, <3>1, <3>3 DEF IndInv, Tracking, Tracked
    <3> QED
      BY <3>2, <3>3
  <2>2. ASSUME NEW x \in Flight' PROVE x.now > 0 /\ x.now < next'[x.rule] /\ Tracked(x.alerts, x.rule, x.now)
    <3>1. CASE x = y
      BY <1>2, <1>4, <1>5, <1>7, <3>1
    <3>2. CASE x \in Flight
      <4>1. x.rule \in Rules /\ x.now \in Nat
        BY <3>2, FlightBatches, BatchParts DEF IndInv
      <4> QED
        BY <1>7, <3>2, <4>1 DEF IndInv, Tracking
    <3> QED
      BY <1>10, <2>2, <3>1, <3>2
  <2> QED
    BY <2>1, <2>2 DEF Tracking
<1>13. ASSUME NEW x \in Flight, x.rule = r PROVE x.now < next[r] /\ \A b \in Shown(E) : Agrees(x, b)
  <2>1. x.now \in Nat /\ x.now < next[r]
    BY <1>13, FlightBatches, BatchParts DEF IndInv, Tracking
  <2>2. \A b \in Shown(active[r]) : Agrees(x, b)
    BY <1>13 DEF IndInv, Flying
  <2> QED
    BY <1>2, <1>4, <2>1, <2>2, EvaluatedLater
<1>14. ASSUME NEW x \in Flight PROVE Before(x, y)
  BY <1>5, <1>13, <1>14 DEF Before
<1>15. Flying'
  <2>1. ASSUME NEW i \in 1..Len(waiting'), NEW j \in 1..Len(waiting'), i < j
        PROVE  Before(waiting'[i], waiting'[j])
    <3>1. CASE waiting' = waiting
      BY <2>1, <3>1 DEF IndInv, Flying
    <3>2. CASE Enqueue(y, k)
      <4>1. /\ k \in Nat /\ k <= L /\ Len(waiting') = L - k + 1
            /\ \A n \in 1..(L - k) : waiting'[n] = waiting[n + k]
            /\ waiting'[L - k + 1] = y
        BY <1>2, <1>5, <3>2, Putting
      <4>2. i \in 1..(L - k) /\ i + k \in 1..L
        BY <1>2, <2>1, <4>1
      <4>3. CASE j = L - k + 1
        BY <1>14, <4>1, <4>2, <4>3, FlightBatches DEF IndInv
      <4>4. CASE j # L - k + 1
        <5>1. j \in 1..(L - k) /\ j + k \in 1..L /\ i + k < j + k
          BY <1>2, <2>1, <4>1, <4>4
        <5> QED
          BY <4>1, <4>2, <5>1 DEF IndInv, Flying
      <4> QED
        BY <4>3, <4>4
    <3> QED
      BY <1>3, <3>1, <3>2
  <2>2. ASSUME inHand' # None, NEW i \in 1..Len(waiting') PROVE Before(inHand', waiting'[i])
    <3>1. inHand \in Flight
      BY <1>3, <2>2, FlightBatches DEF IndInv
    <3>2. CASE waiting'[i] = y
      BY <1>3, <1>14, <3>1, <3>2
    <3>3. ASSUME NEW j \in 1..L, waiting'[i] = waiting[j] PROVE Before(inHand', waiting'[i])
      BY <1>3, <2>2, <3>3 DEF IndInv, Flying
    <3> QED
      BY <1>9, <3>2, <3>3
  <2>3. ASSUME NEW x \in Flight', NEW b \in Shown(active'[x.rule]) PROVE Agrees(x, b)
    <3>1. CASE x = y
      <4>1. b \in E
        BY <1>5, <1>6, <2>3, <3>1 DEF Shown
      <4> QED
        BY <1>5, <3>1, <4>1 DEF Agrees, Same
    <3>2. CASE x \in Flight /\ x.rule = r
      BY <1>6, <1>13, <2>3, <3>2
    <3>3. CASE x \in Flight /\ x.rule # r
      <4>1. x.rule \in Rules
        BY <3>3, FlightBatches, BatchParts DEF IndInv
      <4> QED
        BY <1>6, <2>3, <3>3, <4>1 DEF IndInv, Flying
    <3> QED
      BY <1>10, <2>3, <3>1, <3>2, <3>3
  <2> QED
    BY <2>1, <2>2, <2>3 DEF Flying
<1>16. ASSUME NEW m, NEW l, Posted(m, l, next, active, Flight)
       PROVE  Posted(m, l, next', active', Flight')
  BY <1>4, <1>5, <1>6, <1>7, <1>10, <1>16, PostedEvaluated
<1>17. Held' /\ Told'
  BY <1>3, <1>16 DEF IndInv, Held, Told
<1>18. RecordedIsHeld'
  BY <1>3 DEF IndInv, RecordedIsHeld
<1> QED
  BY <1>11, <1>12, <1>15, <1>17, <1>18 DEF IndInv

(* Batches that leave disturb nothing that was tracked or posted. *)
LEMMA Leaving ==
  ASSUME Shape, Tracking, Flight' \subseteq Flight, UNCHANGED <<next, active>>
  PROVE  /\ Tracking'
         /\ \A m, l : Posted(m, l, next, active, Flight) => Posted(m, l, next', active', Flight')
<1>1. Tracking'
  BY DEF Tracking
<1>2. \A r \in Rules : next[r] \in Nat
  BY DEF Shape
<1>3. ASSUME NEW m, NEW l, Posted(m, l, next, active, Flight)
      PROVE  Posted(m, l, next', active', Flight')
  BY <1>2, <1>3, PostedStays
<1> QED
  BY <1>1, <1>3

LEMMA JudgeStep ==
  ASSUME IndInv, Judge
  PROVE  IndInv'
<1> DEFINE L == Len(waiting)
<1>1. /\ waiting \in Seq(Batches) /\ inHand = None
      /\ UNCHANGED <<clock, next, active, lastSent, held, told>>
  BY DEF IndInv, Shape, Judge, Take, rulerVars, cadenceVars
<1>2. /\ L > 0 /\ inHand' = waiting[1] /\ waiting[1] \in Batches
      /\ waiting' \in Seq(Batches) /\ Len(waiting') = L - 1
      /\ \A i \in 1..(L - 1) : waiting'[i] = waiting[i + 1]
  BY <1>1, Taking DEF Judge
<1>3. L \in Nat
  BY <1>1, LenProperties
<1>4. ASSUME NEW i \in 1..Len(waiting')
      PROVE  i + 1 \in 1..L /\ waiting'[i] = waiting[i + 1]
  BY <1>2, <1>3, <1>4
<1>5. 1 \in 1..L
  BY <1>2, <1>3
<1>6. inHand' # None
  BY <1>2, NoneAssumption
<1>7. Flight' \subseteq Flight
  BY <1>2, <1>4, <1>5 DEF Flight
<1>8. due' \subseteq Shown(inHand'.alerts)
  BY <1>1, <1>2 DEF Judge, DueAt, Shown
<1>9. Shape'
  BY <1>1, <1>2, <1>6, <1>8 DEF IndInv, Shape
<1>10. Tracking' /\ Held' /\ Told'
  BY <1>1, <1>7, Leaving DEF IndInv, Held, Told
<1>11. Flying'
  <2>1. ASSUME NEW i \in 1..Len(waiting'), NEW j \in 1..Len(waiting'), i < j
        PROVE  Before(waiting'[i], waiting'[j])
    BY <1>4, <2>1 DEF IndInv, Flying
  <2>2. ASSUME NEW i \in 1..Len(waiting') PROVE Before(inHand', waiting'[i])
    <3>1. 1 < i + 1 /\ i + 1 \in 1..L /\ waiting'[i] = waiting[i + 1]
      BY <1>4
    <3> QED
      BY <1>2, <1>5, <3>1 DEF IndInv, Flying
  <2>3. \A x \in Flight' : \A b \in Shown(active'[x.rule]) : Agrees(x, b)
    BY <1>1, <1>7 DEF IndInv, Flying
  <2> QED
    BY <2>1, <2>2, <2>3 DEF Flying
<1>12. RecordedIsHeld'
  BY <1>1 DEF IndInv, RecordedIsHeld
<1> QED
  BY <1>9, <1>10, <1>11, <1>12 DEF IndInv

(* A batch is done with. *)
LEMMA Finishing ==
  ASSUME IndInv, Finish, UNCHANGED <<clock, next, active>>, due' = {}
  PROVE  /\ Flight' = {waiting[i] : i \in 1..Len(waiting)} /\ Flight' \subseteq Flight
         /\ Tracking' /\ Flying'
<1>1. inHand # None /\ inHand' = None /\ waiting' = waiting
  BY DEF Finish
<1>2. Flight' = {waiting[i] : i \in 1..Len(waiting)} /\ Flight' \subseteq Flight
  BY <1>1 DEF Flight
<1>3. Tracking'
  BY <1>2, Leaving DEF IndInv
<1>4. Flying'
  BY <1>1, <1>2 DEF IndInv, Flying
<1> QED
  BY <1>2, <1>3, <1>4

LEMMA NothingDueStep ==
  ASSUME IndInv, NothingDue
  PROVE  IndInv'
<1>1. /\ Finish /\ UNCHANGED <<clock, next, active, lastSent, held, told>> /\ due' = {}
  BY DEF NothingDue, rulerVars, cadenceVars
<1>2. Flight' \subseteq Flight /\ Tracking' /\ Flying'
  BY <1>1, Finishing
<1>5. Shape'
  BY <1>1 DEF Finish, IndInv, Shape
<1>3. Held' /\ Told'
  BY <1>1, <1>2, Leaving DEF IndInv, Held, Told
<1>4. RecordedIsHeld'
  BY <1>1 DEF IndInv, RecordedIsHeld
<1> QED
  BY <1>2, <1>3, <1>4, <1>5 DEF IndInv

(* What a post leaves an endpoint, or the record of what was told, with. *)
Says(m, l, old) == m = old \/ \E a \in due : a.labels = l /\ m = Message(inHand, a)
Answered(m, l) == \A a \in due : a.labels = l => \E b \in due : b.labels = l /\ m = Message(inHand, b)

LEMMA PostSays ==
  ASSUME NEW outcome \in [Endpoints -> Outcomes], Post(outcome), NEW l \in LabelSets
  PROVE  /\ \A e \in Endpoints : Says(held'[e][l], l, held[e][l])
         /\ \A e \in Endpoints : outcome[e] # "refused" => Answered(held'[e][l], l)
         /\ Says(told'[l], l, told[l])
         /\ Delivered(outcome) => Answered(told'[l], l)
         /\ ~Delivered(outcome) => told' = told
         /\ (\A a \in due : a.labels # l) => told'[l] = told[l] \/ ~Delivered(outcome)
<1> DEFINE Whose == {a \in due : a.labels = l}
           New == Message(inHand, CHOOSE a \in due : a.labels = l)
<1>1. CASE \E a \in due : a.labels = l
  <2>1. (CHOOSE a \in due : a.labels = l) \in due /\ (CHOOSE a \in due : a.labels = l).labels = l
    BY <1>1
  <2>2. \E a \in due : a.labels = l /\ New = Message(inHand, a)
    BY <2>1
  <2>3. \A e \in Endpoints : held'[e][l] = IF outcome[e] = "refused" THEN held[e][l] ELSE New
    BY <1>1 DEF Post
  <2>4. IF Delivered(outcome) THEN told'[l] = New ELSE told' = told
    BY <1>1 DEF Post
  <2> HIDE DEF New
  <2> QED
    BY <1>1, <2>2, <2>3, <2>4 DEF Says, Answered
<1>2. CASE ~\E a \in due : a.labels = l
  <2>1. \A e \in Endpoints : held'[e][l] = held[e][l]
    BY <1>2 DEF Post
  <2>2. IF Delivered(outcome) THEN told'[l] = told[l] ELSE told' = told
    BY <1>2 DEF Post
  <2> QED
    BY <1>2, <2>1, <2>2 DEF Says, Answered
<1> QED
  BY <1>1, <1>2

(* What is due is news to whoever holds something of its label set.        *)
LEMMA PostNews ==
  ASSUME Shape, Tracking, inHand # None, NEW a \in due, NEW m,
         Posted(m, a.labels, next, active, Flight)
  PROVE  /\ a.labels \in LabelSets /\ a.fp = Hash(a.labels) /\ inHand.now \in Nat
         /\ m.at \in Nat /\ m.at < inHand.now /\ m.since \in Nat /\ Since(a) \in Nat /\ m.since <= Since(a)
         /\ Recalls(m, a)
<1>1. inHand \in Flight /\ inHand.rule \in Rules /\ inHand.now \in Nat /\ inHand.alerts \in SUBSET Instances
  BY FlightBatches, BatchParts
<1>2. a \in Shown(inHand.alerts) /\ a \in inHand.alerts
  BY DEF Shape, Shown
<1>3. a.labels \in LabelsOf(inHand.rule) /\ a.fp = Hash(a.labels)
  BY <1>1, <1>2 DEF Tracking, Tracked
<1>4. m.at < inHand.now /\ Recalls(m, a) /\ m.at \in Nat /\ m.since \in Nat /\ m.since <= m.at
  BY <1>1, <1>2, <1>3 DEF Posted
<1>5. Since(a) \in Nat
  BY <1>1, <1>2, SinceNat
<1>6. m.since <= Since(a)
  BY <1>4, <1>5 DEF Recalls, Knows
<1> QED
  BY <1>1, <1>3, <1>4, <1>5, <1>6, LabelsOfRule

(* What Record leaves. *)
LEMMA Recording ==
  ASSUME NEW now, NEW int, NEW d, Record(now, int, d), NEW fp \in DOMAIN lastSent'
  PROVE  \/ (\E a \in d : a.fp = fp) /\ lastSent'[fp] = now
         \/ (\A a \in d : a.fp # fp) /\ fp \in DOMAIN lastSent /\ lastSent'[fp] = lastSent[fp]
<1> DEFINE fps  == {a.fp : a \in d}
           sent == [f \in DOMAIN lastSent \cup fps |-> IF f \in fps THEN now ELSE lastSent[f]]
           kept == {f \in DOMAIN sent : ~Expired(now, int, sent[f])}
<1>1. DOMAIN sent = DOMAIN lastSent \cup fps
  OBVIOUS
<1>2. fp \in DOMAIN sent /\ lastSent'[fp] = sent[fp]
  <2>1. CASE SweepDue(now)
    <3>1. lastSent' = [f \in kept |-> sent[f]]
      BY <2>1 DEF Record
    <3> QED
      BY <3>1
  <2>2. CASE ~SweepDue(now)
    BY <2>2 DEF Record
  <2> QED
    BY <2>1, <2>2
<1>3. CASE fp \in fps
  BY <1>2, <1>3
<1>4. CASE fp \notin fps
  BY <1>1, <1>2, <1>4
<1> QED
  BY <1>3, <1>4

LEMMA PostStep ==
  ASSUME RulesApart, IndInv, NEW outcome \in [Endpoints -> Outcomes], Post(outcome)
  PROVE  IndInv'
<1> DEFINE x == inHand
<1>1. /\ x # None /\ Finish /\ UNCHANGED <<clock, next, active, waiting>> /\ due' = {} /\ x' = None
      /\ Delivered(outcome) => Record(x.now, GroupInterval[x.rule], due)
      /\ ~Delivered(outcome) => lastSent' = lastSent
  BY DEF Post, Finish, rulerVars, cadenceVars
<1>2. Flight' = {waiting[i] : i \in 1..Len(waiting)} /\ Flight' \subseteq Flight /\ Tracking' /\ Flying'
  BY <1>1, Finishing
<1>3. x \in Batches /\ x.now \in Nat
  BY <1>1, FlightBatches, BatchParts DEF IndInv
<1>4. ASSUME NEW fp \in DOMAIN lastSent'
      PROVE  \/ Delivered(outcome) /\ (\E a \in due : a.fp = fp) /\ lastSent'[fp] = x.now
             \/ fp \in DOMAIN lastSent /\ lastSent'[fp] = lastSent[fp]
  BY <1>1, <1>4, Recording
<1>5. Shape'
  <2>1. \A fp \in DOMAIN lastSent' : lastSent'[fp] \in Nat
    BY <1>3, <1>4 DEF IndInv, Shape
  <2> QED
    BY <1>1, <2>1 DEF IndInv, Shape
<1>6. ASSUME NEW m, NEW l, NEW old, Posted(old, l, next, active, Flight), Says(m, l, old)
      PROVE  Posted(m, l, next', active', Flight')
  <2>1. CASE m = old
    BY <1>1, <1>2, <1>6, <2>1, Leaving DEF IndInv
  <2>2. ASSUME NEW a \in due, a.labels = l, m = Message(x, a) PROVE Posted(m, l, next', active', Flight')
    BY <1>1, <1>2, <2>2, Posting DEF IndInv
  <2> QED
    BY <1>6, <2>1, <2>2 DEF Says
<1>7. Held' /\ Told'
  BY <1>6, PostSays DEF IndInv, Held, Told
<1>8. RecordedIsHeld'
  <2> SUFFICES ASSUME NEW fp \in DOMAIN lastSent'
               PROVE  \E e \in Endpoints, l \in LabelSets : Hash(l) = fp /\ held'[e][l].at >= lastSent'[fp]
    BY DEF RecordedIsHeld
  <2>1. CASE Delivered(outcome) /\ (\E a \in due : a.fp = fp) /\ lastSent'[fp] = x.now
    <3>1. PICK a \in due : a.fp = fp
      BY <2>1
    <3>2. PICK e \in Endpoints : outcome[e] = "accepted"
      BY <2>1 DEF Delivered
    <3>3. a.labels \in LabelSets /\ a.fp = Hash(a.labels)
      <4>1. x \in Flight /\ x.rule \in Rules /\ a \in x.alerts
        BY <1>1, FlightBatches, BatchParts DEF IndInv, Shape, Shown
      <4> QED
        BY <4>1, LabelsOfRule DEF IndInv, Tracking, Tracked
    <3>4. Answered(held'[e][a.labels], a.labels)
      BY <3>2, <3>3, PostSays
    <3>5. PICK b \in due : held'[e][a.labels] = Message(x, b)
      BY <3>4 DEF Answered
    <3>6. held'[e][a.labels].at = x.now
      BY <3>5 DEF Message
    <3> QED
      BY <1>3, <2>1, <3>1, <3>3, <3>6
  <2>2. CASE fp \in DOMAIN lastSent /\ lastSent'[fp] = lastSent[fp]
    <3>1. PICK e \in Endpoints, l \in LabelSets : Hash(l) = fp /\ held[e][l].at >= lastSent[fp]
      BY <2>2 DEF IndInv, RecordedIsHeld
    <3>2. Says(held'[e][l], l, held[e][l]) /\ Posted(held[e][l], l, next, active, Flight)
      BY PostSays DEF IndInv, Held
    <3>3. held[e][l].at \in Nat /\ lastSent[fp] \in Nat
      BY <2>2, <3>2 DEF IndInv, Shape, Posted
    <3>4. ASSUME NEW a \in due, a.labels = l, held'[e][l] = Message(x, a)
          PROVE  held'[e][l].at >= lastSent'[fp]
      <4>1. held[e][l].at < x.now
        BY <1>1, <3>2, <3>4, PostNews DEF IndInv
      <4>2. held'[e][l].at = x.now
        BY <3>4 DEF Message
      <4> QED
        BY <1>3, <2>2, <3>1, <3>3, <4>1, <4>2
    <3> QED
      BY <2>2, <3>1, <3>2, <3>4 DEF Says
  <2> QED
    BY <1>4, <2>1, <2>2
<1> QED
  BY <1>2, <1>5, <1>7, <1>8 DEF IndInv

-----------------------------------------------------------------------------
LEMMA IndStep ==
  ASSUME RulesApart, IndInv, [Next]_vars
  PROVE  IndInv'
<1>1. CASE Tick
  <2>1. clock' \in Nat
    BY <1>1 DEF Tick, IndInv, Shape
  <2> QED
    BY <1>1, <2>1, QuietStep DEF Tick, fifoVars, cadenceVars
<1>2. ASSUME NEW r \in Rules, NEW rows \in SUBSET Rows[r], NEW k, Evaluate(r, rows, k) PROVE IndInv'
  BY <1>2, EvaluateStep
<1>3. ASSUME NEW r \in Rules, EvaluateFails(r) PROVE IndInv'
  BY <1>3, FailsStep
<1>4. CASE Judge
  BY <1>4, JudgeStep
<1>5. CASE NothingDue
  BY <1>5, NothingDueStep
<1>6. ASSUME NEW outcome \in [Endpoints -> Outcomes], Post(outcome) PROVE IndInv'
  BY <1>6, PostStep
<1>7. CASE UNCHANGED vars
  <2>1. clock' \in Nat
    BY <1>7 DEF vars, IndInv, Shape
  <2> QED
    BY <1>7, <2>1, QuietStep DEF vars
<1> QED
  BY <1>1, <1>2, <1>3, <1>4, <1>5, <1>6, <1>7 DEF Next

(* When no two rules raise the same alert, at every step each batch on its *)
(* way agrees with the later ones and with what was posted before it.      *)
THEOREM AlwaysIndInv == RulesApart /\ Spec => []IndInv
<1>1. CASE RulesApart
  <2>1. Init => IndInv
    BY Initially
  <2>2. IndInv /\ [Next]_vars => IndInv'
    BY <1>1, IndStep
  <2> QED
    BY <2>1, <2>2, PTL DEF Spec
<1>2. CASE ~RulesApart
  BY <1>2
<1> QED
  BY <1>1, <1>2

(* RecordedIsHeld: a fingerprint that the cadence recorded as sent is held *)
(* by an endpoint, from that evaluation or a later one, whichever          *)
(* endpoints refused a post or lost its answer (Cadence.record, Fanout.Send). *)
THEOREM Recorded == RulesApart /\ Spec => []RecordedIsHeld
<1>1. IndInv => RecordedIsHeld
  BY DEF IndInv
<1> QED
  BY <1>1, AlwaysIndInv, PTL

(* NeverRegresses: an endpoint is never posted something older than what   *)
(* it holds: the queue keeps a rule's batches in order, and a phase that   *)
(* began by an earlier evaluation was shown by it.                         *)
THEOREM NoRegress == RulesApart /\ Spec => NeverRegresses
<1> DEFINE Forward == \A e \in Endpoints, l \in LabelSets :
              held'[e][l] # held[e][l] =>
                held'[e][l].at >= held[e][l].at /\ held'[e][l].since >= held[e][l].since
<1>1. ASSUME IndInv, [Next]_vars PROVE Forward
  <2>1. ASSUME NEW outcome \in [Endpoints -> Outcomes], Post(outcome) PROVE Forward
    <3> SUFFICES ASSUME NEW e \in Endpoints, NEW l \in LabelSets, held'[e][l] # held[e][l]
                 PROVE  held'[e][l].at >= held[e][l].at /\ held'[e][l].since >= held[e][l].since
      OBVIOUS
    <3>1. PICK a \in due : a.labels = l /\ held'[e][l] = Message(inHand, a)
      BY <2>1, PostSays DEF Says
    <3>2. held'[e][l].at = inHand.now /\ held'[e][l].since = Since(a)
      BY <3>1 DEF Message
    <3>3. inHand # None /\ Posted(held[e][l], a.labels, next, active, Flight)
      BY <1>1, <2>1, <3>1 DEF Post, IndInv, Held
    <3>4. /\ inHand.now \in Nat /\ held[e][l].at \in Nat /\ held[e][l].at < inHand.now
          /\ Since(a) \in Nat /\ held[e][l].since \in Nat /\ held[e][l].since <= Since(a)
      BY <1>1, <3>3, PostNews DEF IndInv
    <3> QED
      BY <3>2, <3>4
  <2>2. CASE held' = held
    BY <2>2
  <2> QED
    BY <1>1, <2>1, <2>2
       DEF Next, Tick, Evaluate, EvaluateFails, Judge, NothingDue, vars
<1> HIDE DEF Forward
<1>2. RulesApart /\ Spec => [][Forward]_vars
  BY <1>1, AlwaysIndInv, PTL DEF Spec
<1> QED
  BY <1>2 DEF NeverRegresses, Forward

-----------------------------------------------------------------------------
(* What the throttle holds back.                                           *)

(* A label set that shares its fingerprint with a due alert is that alert's. *)
LEMMA DueLabels ==
  ASSUME HashInjective, IndInv, inHand # None, NEW a \in due
  PROVE  a.labels \in LabelSets /\ a.fp = Hash(a.labels)
         /\ \A l \in LabelSets : Hash(l) = a.fp => l = a.labels
<1>1. inHand \in Flight /\ inHand.rule \in Rules /\ a \in inHand.alerts
  BY FlightBatches, BatchParts DEF IndInv, Shape, Shown
<1>2. a.labels \in LabelSets /\ a.fp = Hash(a.labels)
  BY <1>1, LabelsOfRule DEF IndInv, Tracking, Tracked
<1> QED
  BY <1>2 DEF HashInjective

LEMMA SuppressedKnown ==
  ASSUME IndInv, SentIsTold
  PROVE  SuppressedIsKnown
<1> SUFFICES ASSUME inHand # None, NEW a \in inHand.alerts, a.phase # "pending", a \notin due
             PROVE  Knows(told[a.labels], a)
  BY DEF SuppressedIsKnown
<1>1. inHand \in Flight /\ inHand.rule \in Rules /\ inHand.alerts \in SUBSET Instances /\ a \in Shown(inHand.alerts)
  BY FlightBatches, BatchParts DEF IndInv, Shown
<1>2. a.labels \in LabelsOf(inHand.rule) /\ a.labels \in LabelSets /\ a.fp = Hash(a.labels)
  BY <1>1, LabelsOfRule DEF IndInv, Tracking, Tracked
<1>3. a.fp \in DOMAIN lastSent /\ ~(lastSent[a.fp] < Since(a))
  BY <1>1 DEF SentIsTold, DueAt, Due
<1>4. lastSent[a.fp] = told[a.labels].at
  BY <1>2, <1>3 DEF SentIsTold
<1>5. told[a.labels].at \in Nat /\ Recalls(told[a.labels], a)
  BY <1>1, <1>2 DEF IndInv, Told, Posted
<1>6. Since(a) \in Nat
  BY <1>1, SinceNat
<1> QED
  BY <1>3, <1>4, <1>5, <1>6 DEF Recalls

LEMMA SentStep ==
  ASSUME HashInjective, IndInv, SentIsTold, [Next]_vars
  PROVE  SentIsTold'
<1>1. ASSUME UNCHANGED <<lastSent, told, inHand, due>> PROVE SentIsTold'
  BY <1>1 DEF SentIsTold, DueAt, Due
<1>2. CASE Judge
  <2>1. inHand' = Head(waiting) /\ due' = DueAt(Head(waiting).now, Head(waiting).alerts)
        /\ UNCHANGED <<lastSent, told>>
    BY <1>2 DEF Judge, Take, cadenceVars
  <2> QED
    BY <2>1 DEF SentIsTold, DueAt, Due
<1>3. CASE NothingDue
  BY <1>3 DEF NothingDue, Finish, cadenceVars, SentIsTold
<1>4. ASSUME NEW outcome \in [Endpoints -> Outcomes], Post(outcome) PROVE SentIsTold'
  <2>1. /\ inHand # None /\ inHand' = None
        /\ Delivered(outcome) => Record(inHand.now, GroupInterval[inHand.rule], due)
        /\ ~Delivered(outcome) => lastSent' = lastSent /\ told' = told
    BY <1>4 DEF Post, Finish, cadenceVars
  <2>2. CASE ~Delivered(outcome)
    BY <2>1, <2>2 DEF SentIsTold
  <2>3. CASE Delivered(outcome)
    <3>1. ASSUME NEW l \in LabelSets, Hash(l) \in DOMAIN lastSent' PROVE lastSent'[Hash(l)] = told'[l].at
      <4>1. CASE (\E a \in due : a.fp = Hash(l)) /\ lastSent'[Hash(l)] = inHand.now
        <5>1. PICK a \in due : a.fp = Hash(l)
          BY <4>1
        <5>2. a.labels = l
          BY <2>1, <3>1, <5>1, DueLabels
        <5>3. Answered(told'[l], l)
          BY <1>4, <2>3, <3>1, PostSays
        <5>4. PICK b \in due : told'[l] = Message(inHand, b)
          BY <5>2, <5>3 DEF Answered
        <5> QED
          BY <4>1, <5>4 DEF Message
      <4>2. CASE (\A a \in due : a.fp # Hash(l)) /\ Hash(l) \in DOMAIN lastSent
                 /\ lastSent'[Hash(l)] = lastSent[Hash(l)]
        <5>1. \A a \in due : a.labels # l
          BY <2>1, <4>2, DueLabels
        <5>2. told'[l] = told[l]
          BY <1>4, <2>3, <3>1, <5>1, PostSays
        <5> QED
          BY <3>1, <4>2, <5>2 DEF SentIsTold
      <4> QED
        BY <2>1, <2>3, <3>1, <4>1, <4>2, Recording
    <3> QED
      BY <2>1, <3>1 DEF SentIsTold
  <2> QED
    BY <2>2, <2>3
<1> QED
  BY <1>1, <1>2, <1>3, <1>4
     DEF Next, Tick, Evaluate, Enqueue, EvaluateFails, vars, fifoVars, cadenceVars

(* What was told of an alert that a rule tracks stays told. *)
LEMMA TellingStays ==
  ASSUME IndInv, IndInv', NEW outcome \in [Endpoints -> Outcomes], Post(outcome),
         NEW r \in Rules, NEW a \in Shown(active[r]), Knows(told[a.labels], a)
  PROVE  Knows(told'[a.labels], a)
<1>1. active' = active /\ inHand # None
  BY DEF Post, rulerVars
<1>2. a \in Instances /\ a.labels \in LabelsOf(r) /\ a.labels \in LabelSets
  BY LabelsOfRule DEF IndInv, Shape, Tracking, Tracked, Shown
<1>3. Posted(told[a.labels], a.labels, next, active, Flight)
  BY <1>2 DEF IndInv, Told
<1>4. told'[a.labels].at \in Nat /\ Recalls(told'[a.labels], a)
  BY <1>1, <1>2 DEF IndInv, Told, Posted
<1>5. /\ told[a.labels].at \in Nat /\ told[a.labels].since \in Nat
      /\ told[a.labels].since <= told[a.labels].at /\ told[a.labels].since = Since(a)
  BY <1>3 DEF Posted, Knows
<1>6. told'[a.labels].at >= told[a.labels].at
  <2>1. Says(told'[a.labels], a.labels, told[a.labels])
    BY <1>2, PostSays
  <2>2. ASSUME NEW b \in due, b.labels = a.labels, told'[a.labels] = Message(inHand, b)
        PROVE  told'[a.labels].at >= told[a.labels].at
    <3>1. told[a.labels].at < inHand.now /\ inHand.now \in Nat
      BY <1>1, <1>3, <2>2, PostNews DEF IndInv
    <3>2. told'[a.labels].at = inHand.now
      BY <2>2 DEF Message
    <3> QED
      BY <1>5, <3>1, <3>2
  <2> QED
    BY <1>5, <2>1, <2>2 DEF Says
<1> QED
  BY <1>4, <1>5, <1>6 DEF Recalls

(* And what is delivered is told. *)
LEMMA TellingNow ==
  ASSUME IndInv, IndInv', NEW outcome \in [Endpoints -> Outcomes], Post(outcome), Delivered(outcome),
         NEW r \in Rules, NEW a \in Shown(active[r]), a \in due
  PROVE  Knows(told'[a.labels], a)
<1>1. active' = active /\ inHand # None
  BY DEF Post, rulerVars
<1>2. a \in Instances /\ a.labels \in LabelsOf(r) /\ a.labels \in LabelSets
  BY LabelsOfRule DEF IndInv, Shape, Tracking, Tracked, Shown
<1>3. Recalls(told'[a.labels], a)
  BY <1>1, <1>2 DEF IndInv, Told, Posted
<1>4. PICK b \in due : told'[a.labels] = Message(inHand, b)
  BY <1>2, PostSays DEF Answered
<1>5. told'[a.labels].at = inHand.now
  BY <1>4 DEF Message
<1>6. Since(a) <= inHand.now
  <2>1. inHand \in Flight /\ a \in Shown(inHand.alerts)
    BY <1>1, FlightBatches DEF IndInv, Shape
  <2> QED
    BY <2>1 DEF IndInv, Tracking, Tracked
<1> QED
  BY <1>3, <1>5, <1>6 DEF Recalls

(* Through, action by action.                                              *)
LEMMA ThroughEvaluate ==
  ASSUME IndInv, Quiet, NEW r \in Rules, NEW rows, NEW k, Evaluate(r, rows, k)
  PROVE  Quiet'
<1> DEFINE returned == {Labels(Definition[r], row) : row \in rows}
           E == EvalInstances(Rule(r), active[r], returned, next[r])
           y == [rule |-> r, now |-> next[r], alerts |-> E]
           L == Len(waiting)
<1>1. /\ active' = [active EXCEPT ![r] = E] /\ inHand' = inHand /\ told' = told
      /\ IF E = {} THEN k = 0 /\ waiting' = waiting ELSE Enqueue(y, k)
  BY DEF Evaluate, fifoVars, Enqueue
<1>2. clean' = {r} \cup {s \in clean : s \notin {waiting[i].rule : i \in 1..k}
                                      \/ s \in {waiting[i].rule : i \in (k + 1)..L}}
  BY DEF Evaluate
<1>3. L \in Nat /\ active'[r] = E /\ \A s \in Rules : s # r => active'[s] = active[s]
  BY <1>1, LenProperties DEF IndInv, Shape
<1>4. y.rule = r /\ y.alerts = E
  OBVIOUS
<1> HIDE DEF E
<1>5. clean' \subseteq Rules
  BY <1>2 DEF Quiet
<1>6. CASE E = {}
  <2>1. ASSUME NEW s \in clean' PROVE Through(s)'
    <3>1. CASE s = r
      BY <1>3, <1>6, <3>1 DEF Through
    <3>2. CASE s # r
      BY <1>1, <1>2, <1>3, <1>5, <1>6, <2>1, <3>2 DEF Quiet, Through, Latest, Known
    <3> QED
      BY <3>1, <3>2
  <2> QED
    BY <1>5, <2>1 DEF Quiet
<1>7. CASE E # {}
  <2>1. PICK w : w = y
    OBVIOUS
  <2>2. Enqueue(w, k)
    BY <1>1, <1>7, <2>1
  <2>3. /\ k \in Nat /\ k <= L /\ Len(waiting') = L - k + 1
        /\ \A i \in 1..(L - k) : waiting'[i] = waiting[i + k]
        /\ waiting'[L - k + 1] = w
    BY <1>3, <2>2, PuttingAny DEF IndInv, Shape
  <2>4. w.rule = r /\ w.alerts = E
    BY <1>4, <2>1
  <2>6. L \in Nat /\ k \in Nat /\ k <= L /\ Len(waiting') = L - k + 1
    BY <1>3, <2>3
  <2> HIDE DEF y
  <2>5. ASSUME NEW s \in clean' PROVE Through(s)'
    <3>1. CASE s = r
      <4>1. L - k + 1 \in 1..Len(waiting') /\ (L - k + 2)..Len(waiting') = {}
        BY <1>3, <2>3
      <4>2. \A j \in ((L - k + 1) + 1)..Len(waiting') : waiting'[j].rule # r
        BY <1>3, <2>3
      <4> QED
        BY <1>3, <2>3, <2>4, <3>1, <4>1, <4>2 DEF Through, Latest
    <3>2. CASE s # r
      <4>1. s \in clean /\ s \in Rules /\ Through(s) /\ active'[s] = active[s]
        BY <1>2, <1>3, <1>5, <2>5, <3>2 DEF Quiet
      <4>2. CASE active[s] = {}
        BY <4>1, <4>2 DEF Through
      <4>3. ASSUME NEW i \in 1..L, Latest(s, i), waiting[i].alerts = active[s] PROVE Through(s)'
        <5>1. i > k
          BY <1>2, <1>3, <2>3, <2>5, <3>2, <4>3 DEF Latest
        <5>2. i - k \in 1..(L - k) /\ i - k \in 1..Len(waiting') /\ waiting'[i - k] = waiting[i]
          BY <1>3, <2>3, <4>3, <5>1
        <5>3. ASSUME NEW j \in (i - k + 1)..Len(waiting') PROVE waiting'[j].rule # s
          <6>1. CASE j = L - k + 1
            BY <2>3, <2>4, <3>2, <6>1
          <6>2. CASE j # L - k + 1
            <7>1. j \in 1..(L - k) /\ j + k \in (i + 1)..L
              BY <2>6, <4>3, <5>1, <5>3, <6>2
            <7> QED
              BY <2>3, <4>3, <7>1 DEF Latest
          <6> QED
            BY <6>1, <6>2
        <5>4. Latest(s, i - k)'
          BY <4>3, <5>2, <5>3 DEF Latest
        <5> QED
          BY <4>1, <4>3, <5>2, <5>4 DEF Through
      <4>4. ASSUME \A i \in 1..L : waiting[i].rule # s PROVE \A i \in 1..Len(waiting') : waiting'[i].rule # s
        <5>1. ASSUME NEW i \in 1..Len(waiting') PROVE waiting'[i].rule # s
          <6>1. CASE i = L - k + 1
            BY <2>3, <2>4, <3>2, <6>1
          <6>2. CASE i # L - k + 1
            <7>1. i \in 1..(L - k) /\ i + k \in 1..L
              BY <2>6, <5>1, <6>2
            <7> QED
              BY <2>3, <4>4, <7>1
          <6> QED
            BY <6>1, <6>2
        <5> QED
          BY <5>1
      <4>5. CASE /\ \A i \in 1..L : waiting[i].rule # s
                 /\ (inHand # None /\ inHand.rule = s /\ inHand.alerts = active[s]) \/ Known(s)
        BY <1>1, <4>1, <4>4, <4>5 DEF Through, Known
      <4> QED
        BY <4>1, <4>2, <4>3, <4>5 DEF Through
    <3> QED
      BY <3>1, <3>2
  <2> QED
    BY <1>5, <2>5 DEF Quiet
<1> QED
  BY <1>6, <1>7

LEMMA ThroughJudge ==
  ASSUME IndInv, Quiet, Judge
  PROVE  Quiet'
<1> DEFINE L == Len(waiting)
<1>1. /\ waiting \in Seq(Batches) /\ inHand = None /\ UNCHANGED <<active, told, clean>>
  BY DEF IndInv, Shape, Judge, Take, rulerVars
<1>2. /\ L > 0 /\ inHand' = waiting[1] /\ waiting[1] \in Batches
      /\ Len(waiting') = L - 1 /\ \A i \in 1..(L - 1) : waiting'[i] = waiting[i + 1]
  BY <1>1, Taking DEF Judge
<1>3. L \in Nat /\ inHand' # None
  BY <1>1, <1>2, LenProperties, NoneAssumption
<1>4. ASSUME NEW r \in clean PROVE Through(r)'
  <2>1. Through(r)
    BY DEF Quiet
  <2>2. CASE active[r] = {}
    BY <1>1, <2>2 DEF Through
  <2>3. ASSUME NEW i \in 1..L, Latest(r, i), waiting[i].alerts = active[r] PROVE Through(r)'
    <3>1. ASSUME NEW j \in 1..Len(waiting'), j >= i PROVE waiting'[j].rule # r
      <4>1. j \in 1..(L - 1) /\ j + 1 \in (i + 1)..L
        BY <1>2, <1>3, <2>3, <3>1
      <4> QED
        BY <1>2, <2>3, <4>1 DEF Latest
    <3>2. CASE i = 1
      <4>1. \A j \in 1..Len(waiting') : waiting'[j].rule # r
        BY <3>1, <3>2
      <4> QED
        BY <1>1, <1>2, <1>3, <2>3, <3>2, <4>1 DEF Through, Latest
    <3>3. CASE i # 1
      <4>1. i - 1 \in 1..(L - 1) /\ i - 1 \in 1..Len(waiting') /\ waiting'[i - 1] = waiting[i]
        BY <1>2, <1>3, <2>3, <3>3
      <4>2. ASSUME NEW j \in (i - 1 + 1)..Len(waiting') PROVE waiting'[j].rule # r
        <5>1. j \in 1..Len(waiting') /\ j >= i
          BY <1>2, <1>3, <2>3, <4>2
        <5> QED
          BY <3>1, <5>1
      <4>3. Latest(r, i - 1)'
        BY <2>3, <4>1, <4>2 DEF Latest
      <4> QED
        BY <1>1, <2>3, <4>1, <4>3 DEF Through
    <3> QED
      BY <3>2, <3>3
  <2>4. CASE (\A i \in 1..L : waiting[i].rule # r) /\ Known(r)
    <3>1. ASSUME NEW i \in 1..Len(waiting') PROVE waiting'[i].rule # r
      <4>1. i \in 1..(L - 1) /\ i + 1 \in 1..L
        BY <1>2, <1>3, <3>1
      <4> QED
        BY <1>2, <2>4, <4>1
    <3> QED
      BY <1>1, <2>4, <3>1 DEF Through, Known
  <2> QED
    BY <1>1, <2>1, <2>2, <2>3, <2>4 DEF Through
<1> QED
  BY <1>1, <1>4 DEF Quiet

LEMMA ThroughNothingDue ==
  ASSUME IndInv, SentIsTold, Quiet, NothingDue
  PROVE  Quiet'
<1>1. /\ inHand # None /\ inHand' = None /\ due = {}
      /\ UNCHANGED <<active, waiting, told, clean>>
  BY DEF NothingDue, Finish, rulerVars
<1>2. ASSUME NEW r \in clean, inHand.alerts = active[r] PROVE Known(r)
  BY <1>1, <1>2, SuppressedKnown DEF SuppressedIsKnown, Known, Shown
<1>3. ASSUME NEW r \in clean PROVE Through(r)'
  BY <1>1, <1>2, <1>3 DEF Quiet, Through, Latest, Known
<1> QED
  BY <1>1, <1>3 DEF Quiet

LEMMA ThroughPost ==
  ASSUME IndInv, IndInv', SentIsTold, Quiet, NEW outcome \in [Endpoints -> Outcomes], Post(outcome)
  PROVE  Quiet'
<1>1. /\ inHand # None /\ inHand' = None /\ UNCHANGED <<active, waiting>>
      /\ ~Delivered(outcome) => told' = told /\ clean' = IF \E i \in DOMAIN waiting : waiting[i].rule = inHand.rule
                                                        THEN clean ELSE clean \ {inHand.rule}
      /\ Delivered(outcome) => clean' = clean
  BY DEF Post, Finish, rulerVars
<1>2. ASSUME NEW r \in clean, Known(r) PROVE Known(r)'
  <2>1. r \in Rules
    BY DEF Quiet
  <2> QED
    BY <1>1, <1>2, <2>1, TellingStays DEF Known
<1>3. ASSUME NEW r \in clean, Delivered(outcome), inHand.alerts = active[r] PROVE Known(r)'
  <2> SUFFICES ASSUME NEW a \in Shown(active[r]) PROVE Knows(told'[a.labels], a)
    BY <1>1 DEF Known
  <2>1. r \in Rules
    BY DEF Quiet
  <2>2. CASE a \in due
    BY <1>3, <2>1, <2>2, TellingNow
  <2>3. CASE a \notin due
    <3>1. Knows(told[a.labels], a)
      BY <1>1, <1>3, <2>3, SuppressedKnown DEF SuppressedIsKnown, Shown
    <3> QED
      BY <2>1, <3>1, TellingStays
  <2> QED
    BY <2>2, <2>3
<1>4. DOMAIN waiting = 1..Len(waiting)
  BY LenProperties DEF IndInv, Shape
<1>5. clean' \subseteq clean
  BY <1>1
<1>6. ASSUME NEW r \in clean' PROVE Through(r)'
  <2>1. Through(r) /\ r \in clean
    BY <1>5 DEF Quiet
  <2>2. CASE active[r] = {}
    BY <1>1, <2>2 DEF Through
  <2>3. CASE \E i \in 1..Len(waiting) : Latest(r, i) /\ waiting[i].alerts = active[r]
    BY <1>1, <2>3 DEF Through, Latest
  <2>4. CASE \A i \in 1..Len(waiting) : waiting[i].rule # r
    <3>1. CASE Known(r)
      BY <1>1, <1>2, <2>1, <2>4, <3>1 DEF Through
    <3>2. CASE inHand.rule = r /\ inHand.alerts = active[r]
      <4>1. Delivered(outcome)
        BY <1>1, <1>4, <1>6, <2>4, <3>2
      <4>2. Known(r)'
        BY <1>3, <2>1, <3>2, <4>1
      <4> QED
        BY <1>1, <2>4, <4>2 DEF Through
    <3> QED
      BY <1>1, <2>1, <2>2, <2>3, <2>4, <3>1, <3>2 DEF Through
  <2> QED
    BY <2>1, <2>2, <2>3, <2>4 DEF Through
<1> QED
  BY <1>5, <1>6 DEF Quiet

LEMMA TellingStep ==
  ASSUME HashInjective, IndInv, IndInv', TellingInv, [Next]_vars
  PROVE  TellingInv'
<1>1. SentIsTold'
  BY SentStep DEF TellingInv
<1>2. ASSUME UNCHANGED <<active, waiting, inHand, told, clean>> PROVE Quiet'
  BY <1>2 DEF TellingInv, Quiet, Through, Latest, Known
<1>3. CASE Tick
  BY <1>1, <1>2, <1>3 DEF TellingInv, Tick, fifoVars
<1>4. ASSUME NEW r \in Rules, NEW rows, NEW k, Evaluate(r, rows, k) PROVE Quiet'
  BY <1>4, ThroughEvaluate DEF TellingInv
<1>5. ASSUME NEW r \in Rules, EvaluateFails(r) PROVE Quiet'
  BY <1>2, <1>5 DEF EvaluateFails, fifoVars
<1>6. CASE Judge
  BY <1>1, <1>6, ThroughJudge DEF TellingInv
<1>7. CASE NothingDue
  BY <1>1, <1>7, ThroughNothingDue DEF TellingInv
<1>8. ASSUME NEW outcome \in [Endpoints -> Outcomes], Post(outcome) PROVE Quiet'
  BY <1>8, ThroughPost DEF TellingInv
<1>9. CASE UNCHANGED vars
  BY <1>1, <1>2, <1>9 DEF TellingInv, vars
<1> QED
  BY <1>1, <1>3, <1>4, <1>5, <1>6, <1>7, <1>8, <1>9 DEF Next, TellingInv

(* The record of what was sent is what Alertmanager was told, and a rule   *)
(* none of whose latest batch was lost is told of or still on its way.     *)
THEOREM AlwaysTelling == RulesApart /\ HashInjective /\ Spec => []TellingInv
<1>1. CASE HashInjective
  <2>1. Init => TellingInv
    BY DEF Init, FifoInit, CadenceInit, TellingInv, SentIsTold, Quiet
  <2>2. IndInv /\ IndInv' /\ TellingInv /\ [Next]_vars => TellingInv'
    BY <1>1, TellingStep
  <2> QED
    BY <2>1, <2>2, AlwaysIndInv, PTL DEF Spec
<1>2. CASE ~HashInjective
  BY <1>2
<1> QED
  BY <1>1, <1>2

(* SuppressedIsKnown: an alert the cadence does not find due (Cadence.due) *)
(* was delivered in this very phase of this very instance.                 *)
THEOREM Suppressed == RulesApart /\ HashInjective /\ Spec => []SuppressedIsKnown
<1>1. IndInv /\ TellingInv => SuppressedIsKnown
  BY SuppressedKnown DEF TellingInv
<1> QED
  BY <1>1, AlwaysIndInv, AlwaysTelling, PTL

(* ToldWhenQuiet: once a rule's latest batch went through the queue        *)
(* without being lost or failing, Alertmanager has been told the present   *)
(* phase of everything the rule tracks.                                    *)
THEOREM Telling == RulesApart /\ HashInjective /\ Spec => []ToldWhenQuiet
<1>1. ASSUME IndInv, TellingInv PROVE ToldWhenQuiet
  <2> SUFFICES ASSUME NEW r \in clean, inHand = None, ~\E i \in DOMAIN waiting : waiting[i].rule = r,
                      NEW a \in active[r], a.phase # "pending"
               PROVE  Knows(told[a.labels], a)
    BY DEF ToldWhenQuiet
  <2>1. \A i \in 1..Len(waiting) : waiting[i].rule # r
    BY <1>1, LenProperties DEF IndInv, Shape
  <2>2. Through(r)
    BY <1>1 DEF TellingInv, Quiet
  <2>3. Known(r)
    BY <2>1, <2>2 DEF Through, Latest
  <2> QED
    BY <2>3 DEF Known, Shown
<1> QED
  BY <1>1, AlwaysIndInv, AlwaysTelling, PTL

-----------------------------------------------------------------------------
(* What a sweep forgets.                                                   *)

LEMMA ProductOrder ==
  ASSUME NEW a \in Nat, NEW b \in Nat, NEW c \in Nat, b <= c PROVE a * b <= a * c
<1>1. c - b \in Nat /\ c = b + (c - b)
  OBVIOUS
<1>2. a * (c - b) \in Nat
  BY <1>1, Products
<1>3. a * c = a * b + a * (c - b)
  BY <1>1
<1> QED
  BY <1>2, <1>3, Products

(* No validity is shorter than what the resend interval allows for. *)
LEMMA ValidityLong ==
  ASSUME NEW i \in Nat
  PROVE  Validity(i) \in Nat /\ Tolerance * ResendInterval <= Validity(i) /\ Tolerance * ResendInterval \in Nat
<1>1. Period(i) \in Nat /\ ResendInterval <= Period(i) /\ ResendInterval \in Nat /\ Tolerance \in Nat
  BY ResendAssumption DEF Period
<1> QED
  BY <1>1, Products, ProductOrder DEF Validity

LEMMA LagStep ==
  ASSUME IndInv, IndInv', Lagging, [Next]_vars
  PROVE  Lagging'
<1>0. MaxLag \in Nat
  BY DeliveryAssumption
<1>1. ASSUME UNCHANGED <<clock, next, active, waiting>>, inHand' = inHand \/ inHand' = None PROVE Lagging'
  <2>1. Flight' \subseteq Flight
    BY <1>1 DEF Flight
  <2> QED
    BY <1>1, <2>1 DEF Lagging
<1>2. CASE Tick
  <2>1. /\ clock \in Nat /\ clock' = clock + 1 /\ \A r \in Rules : clock + 1 - next[r] <= MaxLag
        /\ UNCHANGED <<next, waiting, inHand>>
    BY <1>2 DEF Tick, fifoVars, IndInv, Shape
  <2>2. Flight' = Flight /\ \A x \in Flight : x.now \in Nat
    BY <2>1, FlightBatches, BatchParts DEF Flight, IndInv
  <2>3. \A x \in Flight' : x.now <= clock'
    BY <2>1, <2>2 DEF Lagging
  <2>4. \A r \in Rules : clock' - next'[r] <= MaxLag
    <3>1. \A r \in Rules : next[r] \in Nat /\ next'[r] = next[r]
      BY <2>1 DEF IndInv, Shape
    <3> QED
      BY <1>0, <2>1, <3>1
  <2> QED
    BY <2>1, <2>3, <2>4 DEF Lagging
<1>3. ASSUME NEW r \in Rules, clock >= next[r], next' = [next EXCEPT ![r] = NextBoundary(r)], clock' = clock
      PROVE  \A s \in Rules : clock' - next'[s] <= MaxLag
  <2>1. clock \in Nat /\ NextBoundary(r) \in Nat /\ NextBoundary(r) > next[r]
        /\ \A s \in Rules : next[s] \in Nat /\ next'[s] = IF s = r THEN NextBoundary(r) ELSE next[s]
    BY <1>3, BoundaryLater DEF IndInv, Shape
  <2> QED
    BY <1>0, <1>3, <2>1 DEF Lagging
<1>4. ASSUME NEW r \in Rules, EvaluateFails(r) PROVE Lagging'
  <2>1. Flight' = Flight
    BY <1>4 DEF EvaluateFails, fifoVars, Flight
  <2> QED
    BY <1>3, <1>4, <2>1 DEF EvaluateFails, fifoVars, Lagging
<1>5. ASSUME NEW r \in Rules, NEW rows, NEW k, Evaluate(r, rows, k) PROVE Lagging'
  <2> DEFINE L == Len(waiting)
  <2>1. PICK y : /\ waiting' = waiting \/ Enqueue(y, k)
                 /\ y.now = next[r]
    BY <1>5 DEF Evaluate, fifoVars
  <2>2. /\ clock >= next[r] /\ next' = [next EXCEPT ![r] = NextBoundary(r)]
        /\ clock' = clock /\ inHand' = inHand
    BY <1>5 DEF Evaluate, fifoVars, Enqueue
  <2>3. next[r] \in Nat /\ clock \in Nat /\ clock - next[r] <= MaxLag /\ L \in Nat /\ waiting \in Seq(Batches)
    BY LenProperties DEF IndInv, Shape, Lagging
  <2>4. \A s \in Rules : clock' - next'[s] <= MaxLag
    BY <1>3, <2>2
  <2>5. CASE waiting' = waiting
    <3>1. Flight' = Flight
      BY <2>2, <2>5 DEF Flight
    <3> QED
      BY <2>2, <2>4, <2>5, <3>1 DEF Lagging
  <2>6. CASE Enqueue(y, k)
    <3>1. /\ k \in Nat /\ k <= L /\ Len(waiting') = L - k + 1
          /\ \A i \in 1..(L - k) : waiting'[i] = waiting[i + k]
          /\ waiting'[L - k + 1] = y
      BY <2>3, <2>6, PuttingAny
    <3>2. L \in Nat /\ k \in Nat /\ k <= L /\ Len(waiting') = L - k + 1
      BY <2>3, <3>1
    <3>3. ASSUME NEW i \in 1..Len(waiting')
          PROVE  \/ i = L - k + 1 /\ waiting'[i] = y
                 \/ i # L - k + 1 /\ i + k \in 1..L /\ waiting'[i] = waiting[i + k]
      <4>1. CASE i = L - k + 1
        BY <3>1, <4>1
      <4>2. CASE i # L - k + 1
        <5>1. i \in 1..(L - k) /\ i + k \in 1..L
          BY <3>2, <3>3, <4>2
        <5> QED
          BY <3>1, <4>2, <5>1
      <4> QED
        BY <4>1, <4>2
    <3>4. Flight' \subseteq Flight \cup {y}
      BY <2>2, <3>3 DEF Flight
    <3>5. ASSUME NEW x \in Flight PROVE x.now \in Nat /\ x.now <= clock /\ x.now - y.now <= MaxLag
      BY <1>0, <2>1, <2>3, <3>5, FlightBatches, BatchParts DEF IndInv, Lagging
    <3>6. \A x \in Flight' : x.now <= clock'
      BY <2>1, <2>2, <2>3, <3>4, <3>5
    <3>7. ASSUME NEW i \in 1..Len(waiting'), NEW j \in 1..Len(waiting'), i < j
          PROVE  waiting'[i].now - waiting'[j].now <= MaxLag
      <4>1. i # L - k + 1
        BY <3>2, <3>7
      <4>2. i + k \in 1..L /\ waiting'[i] = waiting[i + k]
        BY <3>3, <4>1
      <4>3. CASE waiting'[j] = y
        BY <3>5, <4>2, <4>3, FlightBatches DEF IndInv
      <4>4. CASE j + k \in 1..L /\ waiting'[j] = waiting[j + k]
        <5>1. i + k < j + k
          BY <3>2, <3>7
        <5> QED
          BY <4>2, <4>4, <5>1 DEF Lagging
      <4> QED
        BY <3>3, <4>3, <4>4
    <3>8. ASSUME inHand # None, NEW i \in 1..Len(waiting') PROVE inHand.now - waiting'[i].now <= MaxLag
      <4>1. CASE waiting'[i] = y
        BY <3>5, <3>8, <4>1, FlightBatches DEF IndInv
      <4>2. CASE i + k \in 1..L /\ waiting'[i] = waiting[i + k]
        BY <3>8, <4>2 DEF Lagging
      <4> QED
        BY <3>3, <4>1, <4>2
    <3> QED
      BY <2>2, <2>4, <3>6, <3>7, <3>8 DEF Lagging
  <2> QED
    BY <2>1, <2>5, <2>6
<1>6. CASE Judge
  <2> DEFINE L == Len(waiting)
  <2>1. /\ waiting \in Seq(Batches) /\ UNCHANGED <<clock, next>>
    BY <1>6 DEF IndInv, Shape, Judge, rulerVars
  <2>2. /\ L > 0 /\ inHand' = waiting[1] /\ Len(waiting') = L - 1
        /\ \A i \in 1..(L - 1) : waiting'[i] = waiting[i + 1]
    BY <1>6, <2>1, Taking DEF Judge
  <2>3. L \in Nat /\ 1 \in 1..L
    BY <2>1, <2>2, LenProperties
  <2>4. ASSUME NEW i \in 1..Len(waiting') PROVE i + 1 \in 1..L /\ waiting'[i] = waiting[i + 1]
    BY <2>2, <2>3, <2>4
  <2>5. Flight' \subseteq Flight
    BY <2>2, <2>3, <2>4 DEF Flight
  <2>6. ASSUME NEW i \in 1..Len(waiting') PROVE inHand'.now - waiting'[i].now <= MaxLag
    <3>1. 1 < i + 1
      OBVIOUS
    <3> QED
      BY <2>2, <2>3, <2>4, <3>1 DEF Lagging
  <2>7. ASSUME NEW i \in 1..Len(waiting'), NEW j \in 1..Len(waiting'), i < j
        PROVE  waiting'[i].now - waiting'[j].now <= MaxLag
    <3>1. i + 1 < j + 1
      BY <2>7
    <3> QED
      BY <2>4, <3>1 DEF Lagging
  <2>8. \A x \in Flight' : x.now <= clock'
    BY <2>1, <2>5 DEF Lagging
  <2>9. \A r \in Rules : clock' - next'[r] <= MaxLag
    BY <2>1 DEF Lagging
  <2> QED
    BY <2>6, <2>7, <2>8, <2>9 DEF Lagging
<1>7. CASE NothingDue
  BY <1>1, <1>7 DEF NothingDue, Finish, rulerVars
<1>8. ASSUME NEW outcome \in [Endpoints -> Outcomes], Post(outcome) PROVE Lagging'
  BY <1>1, <1>8 DEF Post, Finish, rulerVars
<1>9. CASE UNCHANGED vars
  BY <1>1, <1>9 DEF vars
<1> QED
  BY <1>2, <1>4, <1>5, <1>6, <1>7, <1>8, <1>9 DEF Next

LEMMA FlightPut ==
  ASSUME waiting \in Seq(Batches), NEW y, NEW k, waiting' = waiting \/ Enqueue(y, k), inHand' = inHand
  PROVE  Flight' \subseteq Flight \cup {y}
<1> DEFINE L == Len(waiting)
<1>1. CASE waiting' = waiting
  BY <1>1 DEF Flight
<1>2. CASE Enqueue(y, k)
  <2>1. /\ k \in Nat /\ k <= L /\ Len(waiting') = L - k + 1 /\ L \in Nat
        /\ \A i \in 1..(L - k) : waiting'[i] = waiting[i + k]
        /\ waiting'[L - k + 1] = y
    BY <1>2, PuttingAny, LenProperties
  <2>2. k \in Nat /\ k <= L /\ Len(waiting') = L - k + 1 /\ L \in Nat
    BY <2>1
  <2>3. ASSUME NEW i \in 1..Len(waiting') PROVE waiting'[i] = y \/ \E j \in 1..L : waiting'[i] = waiting[j]
    <3>1. CASE i = L - k + 1
      BY <2>1, <3>1
    <3>2. CASE i # L - k + 1
      <4>1. i \in 1..(L - k) /\ i + k \in 1..L
        BY <2>2, <2>3, <3>2
      <4> QED
        BY <2>1, <4>1
    <3> QED
      BY <3>1, <3>2
  <2> QED
    BY <2>3 DEF Flight
<1> QED
  BY <1>1, <1>2

(* Only a sweep takes a fingerprint out of the record. *)
LEMMA Sweeping ==
  ASSUME NEW now \in Int, NEW int \in Nat, NEW d, Record(now, int, d), NEW fp, fp \notin DOMAIN lastSent'
  PROVE  /\ \A a \in d : a.fp # fp
         /\ fp \in DOMAIN lastSent => now - lastSent[fp] > Validity(int) + ResendInterval
<1> DEFINE fps  == {a.fp : a \in d}
           sent == [f \in DOMAIN lastSent \cup fps |-> IF f \in fps THEN now ELSE lastSent[f]]
           kept == {f \in DOMAIN sent : ~Expired(now, int, sent[f])}
<1>1. DOMAIN sent = DOMAIN lastSent \cup fps
  OBVIOUS
<1>2. fp \in DOMAIN sent => Expired(now, int, sent[fp])
  <2>1. CASE SweepDue(now)
    <3>1. lastSent' = [f \in kept |-> sent[f]]
      BY <2>1 DEF Record
    <3> QED
      BY <3>1
  <2>2. CASE ~SweepDue(now)
    BY <2>2 DEF Record
  <2> QED
    BY <2>1, <2>2
<1>3. ~Expired(now, int, now)
  BY ValidityLong, ResendAssumption DEF Expired
<1>4. fp \notin fps
  BY <1>1, <1>2, <1>3
<1> QED
  BY <1>1, <1>2, <1>4 DEF Expired

LEMMA SweptStep ==
  ASSUME LagSmall, HashInjective, IndInv, TellingInv, SweepInv, [Next]_vars
  PROVE  Swept'
<1> DEFINE Old(l) == Hash(l) \notin DOMAIN lastSent /\ told[l].phase # "none"
           Far(n, l) == n - told[l].at >= ResendInterval
<1>0. ResendInterval \in Nat /\ MaxLag \in Nat
  BY ResendAssumption, DeliveryAssumption
<1>1. /\ \A r \in Rules : next[r] \in Nat /\ next[r] >= clock - MaxLag
      /\ \A x \in Flight : x.now \in Nat /\ x.now <= clock
      /\ \A l \in LabelSets : told[l].at \in Nat
      /\ clock \in Nat
  <2>1. \A x \in Flight : x.now \in Nat /\ x.now <= clock
    BY FlightBatches, BatchParts DEF IndInv, SweepInv, Lagging
  <2>2. \A r \in Rules : next[r] \in Nat
    BY DEF IndInv, Shape
  <2>3. clock \in Nat
    BY DEF IndInv, Shape
  <2>4. \A r \in Rules : next[r] >= clock - MaxLag
    BY <1>0, <2>2, <2>3 DEF SweepInv, Lagging
  <2> QED
    BY <2>1, <2>2, <2>3, <2>4 DEF IndInv, Told, Posted
<1>2. ASSUME UNCHANGED <<lastSent, told>>, \A r \in Rules : next'[r] \in Nat /\ next'[r] >= next[r],
             \A x \in Flight' : x \in Flight \/ \E r \in Rules : x.now = next[r]
      PROVE  Swept'
  <2> SUFFICES ASSUME NEW l \in LabelSets, Old(l)
               PROVE  (\A r \in Rules : Far(next'[r], l)) /\ \A x \in Flight' : Far(x.now, l)
    BY <1>2 DEF Swept
  <2>1. (\A r \in Rules : Far(next[r], l)) /\ \A x \in Flight : Far(x.now, l)
    BY DEF SweepInv, Swept
  <2>2. \A r \in Rules : Far(next'[r], l)
    BY <1>0, <1>1, <1>2, <2>1
  <2> QED
    BY <1>2, <2>1, <2>2
<1>3. CASE UNCHANGED <<lastSent, told, next>> /\ Flight' \subseteq Flight
  BY <1>1, <1>2, <1>3
<1>4. CASE Tick \/ NothingDue \/ UNCHANGED vars
  <2>1. UNCHANGED <<lastSent, told, next, waiting>> /\ (inHand' = inHand \/ inHand' = None)
    BY <1>4 DEF Tick, NothingDue, Finish, vars, fifoVars, cadenceVars, rulerVars
  <2> QED
    BY <1>3, <2>1 DEF Flight
<1>5. CASE Judge
  <2>1. UNCHANGED <<lastSent, told, next>> /\ waiting \in Seq(Batches)
    BY <1>5 DEF Judge, cadenceVars, rulerVars, IndInv, Shape
  <2>2. Flight' \subseteq Flight
    <3>1. /\ Len(waiting) > 0 /\ inHand' = waiting[1] /\ Len(waiting') = Len(waiting) - 1
          /\ \A i \in 1..(Len(waiting) - 1) : waiting'[i] = waiting[i + 1]
      BY <1>5, <2>1, Taking DEF Judge
    <3>2. Len(waiting) \in Nat /\ 1 \in 1..Len(waiting)
      BY <2>1, <3>1, LenProperties
    <3>3. ASSUME NEW i \in 1..Len(waiting') PROVE i + 1 \in 1..Len(waiting) /\ waiting'[i] = waiting[i + 1]
      BY <3>1, <3>2, <3>3
    <3> QED
      BY <3>1, <3>2, <3>3 DEF Flight
  <2> QED
    BY <1>3, <2>1, <2>2
<1>6. ASSUME NEW r \in Rules, next' = [next EXCEPT ![r] = NextBoundary(r)]
      PROVE  \A s \in Rules : next'[s] \in Nat /\ next'[s] >= next[s]
  BY <1>6, BoundaryLater DEF IndInv, Shape
<1>7. ASSUME NEW r \in Rules, EvaluateFails(r) PROVE Swept'
  <2>1. UNCHANGED <<lastSent, told>> /\ Flight' = Flight /\ next' = [next EXCEPT ![r] = NextBoundary(r)]
    BY <1>7 DEF EvaluateFails, fifoVars, cadenceVars, Flight
  <2> QED
    BY <1>2, <1>6, <2>1
<1>8. ASSUME NEW r \in Rules, NEW rows, NEW k, Evaluate(r, rows, k) PROVE Swept'
  <2>1. PICK y : (waiting' = waiting \/ Enqueue(y, k)) /\ y.now = next[r]
    BY <1>8 DEF Evaluate, fifoVars
  <2>2. UNCHANGED <<lastSent, told, inHand>> /\ next' = [next EXCEPT ![r] = NextBoundary(r)]
    BY <1>8 DEF Evaluate, Enqueue, fifoVars, cadenceVars
  <2>3. Flight' \subseteq Flight \cup {y}
    BY <2>1, <2>2, FlightPut DEF IndInv, Shape
  <2>4. \A x \in Flight' : x \in Flight \/ x.now = next[r]
    BY <2>1, <2>3
  <2> QED
    BY <1>2, <1>6, <2>2, <2>4
<1>9. ASSUME NEW outcome \in [Endpoints -> Outcomes], Post(outcome) PROVE Swept'
  <2>1. /\ inHand # None /\ inHand' = None /\ UNCHANGED <<next, waiting>>
        /\ Delivered(outcome) => Record(inHand.now, GroupInterval[inHand.rule], due)
        /\ ~Delivered(outcome) => lastSent' = lastSent /\ told' = told
    BY <1>9 DEF Post, Finish, cadenceVars, rulerVars
  <2>2. Flight' = {waiting[i] : i \in 1..Len(waiting)} /\ Flight' \subseteq Flight
    BY <2>1 DEF Flight
  <2>3. CASE ~Delivered(outcome)
    BY <1>3, <2>1, <2>2, <2>3
  <2>4. CASE Delivered(outcome)
    <3> SUFFICES ASSUME NEW l \in LabelSets, Hash(l) \notin DOMAIN lastSent', told'[l].phase # "none"
                 PROVE  (\A r \in Rules : next[r] - told'[l].at >= ResendInterval)
                        /\ \A x \in Flight' : x.now - told'[l].at >= ResendInterval
      BY <2>1 DEF Swept
    <3>1. inHand \in Flight /\ inHand.rule \in Rules /\ inHand.now \in Nat /\ inHand.now <= clock
      BY <1>1, <2>1, FlightBatches, BatchParts DEF IndInv
    <3>2. GroupInterval[inHand.rule] \in Nat
      BY <3>1, DeliveryAssumption
    <3>3. /\ \A a \in due : a.fp # Hash(l)
          /\ Hash(l) \in DOMAIN lastSent =>
               inHand.now - lastSent[Hash(l)] > Validity(GroupInterval[inHand.rule]) + ResendInterval
      BY <2>1, <2>4, <3>1, <3>2, Sweeping
    <3>4. \A a \in due : a.labels # l
      BY <2>1, <3>3, DueLabels
    <3>5. told'[l] = told[l]
      BY <1>9, <2>4, <3>4, PostSays
    <3>6. CASE Hash(l) \notin DOMAIN lastSent
      BY <2>2, <3>5, <3>6 DEF SweepInv, Swept
    <3>7. CASE Hash(l) \in DOMAIN lastSent
      <4>1. lastSent[Hash(l)] = told[l].at /\ told[l].at \in Nat
        BY <1>1, <3>7 DEF TellingInv, SentIsTold
      <4>2. /\ Validity(GroupInterval[inHand.rule]) \in Nat /\ MaxLag <= Validity(GroupInterval[inHand.rule])
        BY <1>0, <3>2, ValidityLong DEF LagSmall
      <4>3. inHand.now - told[l].at > MaxLag + ResendInterval
        BY <1>0, <3>1, <3>3, <3>7, <4>1, <4>2
      <4>4. ASSUME NEW n \in Nat, n >= inHand.now - MaxLag PROVE n - told[l].at >= ResendInterval
        BY <1>0, <3>1, <4>1, <4>3, <4>4
      <4>5. ASSUME NEW r \in Rules PROVE next[r] \in Nat /\ next[r] >= inHand.now - MaxLag
        BY <1>0, <1>1, <3>1
      <4>6. ASSUME NEW x \in Flight' PROVE x.now \in Nat /\ x.now >= inHand.now - MaxLag
        <5>1. PICK i \in 1..Len(waiting) : x = waiting[i]
          BY <2>2, <4>6
        <5>2. inHand.now - x.now <= MaxLag
          BY <2>1, <5>1 DEF SweepInv, Lagging
        <5>3. x.now \in Nat
          BY <1>1, <2>2, <4>6
        <5> QED
          BY <1>0, <3>1, <5>2, <5>3
      <4> QED
        BY <3>5, <4>4, <4>5, <4>6
    <3> QED
      BY <3>6, <3>7
  <2> QED
    BY <2>3, <2>4
<1> QED
  BY <1>4, <1>5, <1>7, <1>8, <1>9 DEF Next

(* A label set that a sweep dropped from the record is posted again only   *)
(* by batches that are an interval later, however late a group runs.       *)
THEOREM AlwaysSwept == RulesApart /\ HashInjective /\ LagSmall /\ Spec => []SweepInv
<1>1. CASE HashInjective /\ LagSmall
  <2>1. Init => SweepInv
    <3> SUFFICES ASSUME Init PROVE SweepInv
      OBVIOUS
    <3>1. Flight = {} /\ Len(waiting) = 0 /\ inHand = None
      BY DEF Init, FifoInit, Flight
    <3>2. Lagging
      BY <3>1, DeliveryAssumption DEF Init, Lagging
    <3>3. Swept
      BY DEF Init, Swept, Nothing
    <3> QED
      BY <3>2, <3>3 DEF SweepInv
  <2>2. IndInv /\ IndInv' /\ TellingInv /\ SweepInv /\ [Next]_vars => SweepInv'
    BY <1>1, LagStep, SweptStep DEF SweepInv
  <2> QED
    BY <2>1, <2>2, AlwaysIndInv, AlwaysTelling, PTL DEF Spec
<1>2. CASE ~(HashInjective /\ LagSmall)
  BY <1>2
<1> QED
  BY <1>1, <1>2

(* ThrottleHolds: an alert delivered in its present phase is posted again  *)
(* only a resend interval later (Cadence.due), although other groups'      *)
(* sends sweep the record it is throttled by (Cadence.prune).              *)
THEOREM Throttled == RulesApart /\ HashInjective /\ LagSmall /\ Spec => []ThrottleHolds
<1>1. ASSUME IndInv, TellingInv, SweepInv PROVE ThrottleHolds
  <2> SUFFICES ASSUME NEW a \in due, Knows(told[a.labels], a)
               PROVE  inHand.now - told[a.labels].at >= ResendInterval
    BY DEF ThrottleHolds
  <2>1. inHand # None
    BY <1>1 DEF IndInv, Shape
  <2>2. inHand \in Flight /\ inHand.rule \in Rules /\ inHand.alerts \in SUBSET Instances /\ a \in inHand.alerts
    BY <1>1, <2>1, FlightBatches, BatchParts DEF IndInv, Shape, Shown
  <2>3. a.labels \in LabelsOf(inHand.rule) /\ a.labels \in LabelSets /\ a.fp = Hash(a.labels)
    BY <1>1, <2>2, LabelsOfRule DEF IndInv, Tracking, Tracked
  <2>4. told[a.labels].phase # "none"
    BY <2>2 DEF Knows, Instances, Phases
  <2>5. a.fp \notin DOMAIN lastSent \/ lastSent[a.fp] < Since(a) \/ inHand.now - lastSent[a.fp] >= ResendInterval
    BY <1>1, <2>1 DEF TellingInv, SentIsTold, DueAt, Due
  <2>6. CASE a.fp \notin DOMAIN lastSent
    BY <1>1, <2>2, <2>3, <2>4, <2>6 DEF SweepInv, Swept
  <2>7. CASE a.fp \in DOMAIN lastSent
    <3>1. lastSent[a.fp] = told[a.labels].at
      BY <1>1, <2>3, <2>7 DEF TellingInv, SentIsTold
    <3>2. /\ told[a.labels].at \in Nat /\ told[a.labels].since <= told[a.labels].at
          /\ told[a.labels].since \in Nat /\ told[a.labels].since = Since(a)
      BY <1>1, <2>3 DEF IndInv, Told, Posted, Knows
    <3> QED
      BY <2>5, <2>7, <3>1, <3>2
  <2> QED
    BY <2>6, <2>7
<1> QED
  BY <1>1, AlwaysIndInv, AlwaysTelling, AlwaysSwept, PTL
=============================================================================
