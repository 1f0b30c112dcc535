-------------------------- MODULE SendQueueProofs --------------------------
(***************************************************************************)
(* The invariants of SendQueue and its refinement of LossyFifo, for every  *)
(* number of producers, every capacity and every size of batch.            *)
(*                                                                         *)
(* The invariants of the queue are about sums: alerts waiting, alerts      *)
(* dropped, drops not yet counted.  They are inductive together with who   *)
(* holds which batch (Offered, Waiting, Sending): a step that moves a      *)
(* batch moves it from exactly one place to another, so each sum changes   *)
(* by the batch's size and by nothing else.  That in turn needs the        *)
(* protocol of shutdown (Protocol): the worker and Drain never drain at    *)
(* once, and nothing is added after Drain has closed the queue.            *)
(***************************************************************************)
EXTENDS SendQueue, FiniteSetTheorems, SequenceTheorems, TLAPS

(* q.mu is held by the producer that is in its drop loop. *)
Lock == \A p \in Producers : (mu = p) <=> (pc[p] = "enqueue")

(* A batch is offered while a producer that holds the lock makes room. *)
Offered ==
    /\ \A p \in Producers : pc[p] = "enqueue" =>
          local[p].batch \in DOMAIN fate /\ fate[local[p].batch] = "offered"
    /\ \A b \in DOMAIN fate : fate[b] = "offered" =>
          \E p \in Producers : pc[p] = "enqueue" /\ local[p].batch = b

(* A batch is queued while it is in q.items, once. *)
Waiting ==
    /\ \A i \in DOMAIN items : items[i] \in DOMAIN fate /\ fate[items[i]] = "queued"
    /\ \A i, j \in DOMAIN items : items[i] = items[j] => i = j
    /\ \A b \in DOMAIN fate : fate[b] = "queued" => b \in InQueue

(* A batch is being sent while a drainer has it in hand. *)
Holds(g) == pc[g] \in {"send", "lastSend"}
Sending ==
    /\ \A g \in Drainers : Holds(g) =>
          local[g].batch \in DOMAIN fate /\ fate[local[g].batch] = "sending"
    /\ \A b \in DOMAIN fate : fate[b] = "sending" =>
          \E g \in Drainers : Holds(g) /\ local[g].batch = b

Counting(g) == pc[g] \in {"counting", "lastCounting"}

(* The order of a shutdown, and which of the two may drain. *)
Protocol ==
    /\ closed => mu = Nobody
    /\ pc[Closer] # "idle" <=> closed
    /\ (stop \/ cancelled) => closed
    /\ pc[Worker] # "off" <=> started
    /\ pc[Closer] \in {"lastDrain", "lastSend", "lastCounting"} => ~started
    /\ pc[Worker] \in {"lastDrain", "lastSend", "lastCounting", "counting", "done"} => closed
    /\ Counting(Worker) \/ Counting(Closer) \/ pc[Worker] = "done"
          \/ pc[Closer] \in {"cancel", "returned"} => items = <<>>
    /\ pc[Closer] = "cancel" => pc[Worker] \in {"off", "done"}
    /\ pc[Closer] = "returned" => cancelled /\ ~Holds(Worker) /\ ~Counting(Worker)

(* Only a goroutine that is about to count has something to count. *)
Tally ==
    \A g \in Goroutines :
        /\ local[g].count \in Nat
        /\ pc[g] \notin {"enqueue", "count", "closedDrop", "counting", "lastCounting"} =>
              local[g].count = 0

IndInv ==
    /\ TypeOK
    /\ Lock
    /\ Offered
    /\ Waiting
    /\ Sending
    /\ Protocol
    /\ Tally
    /\ CapacityBound
    /\ DepthExact
    /\ DropsCounted

-----------------------------------------------------------------------------
(* Sums. *)

(* A finite set of numbers has a finite sum. *)
LEMMA UnitsFinite ==
    ASSUME NEW S, IsFiniteSet(S), NEW f, \A x \in S : f[x] \in Nat
    PROVE  IsFiniteSet(Units(f, S)) /\ Total(f, S) \in Nat
<1> DEFINE part == [x \in S |-> {x} \X (1..f[x])]
<1> DEFINE parts == {{x} \X (1..f[x]) : x \in S}
<1>1. part \in Surjection(S, parts)
  BY DEF Surjection
<1>2. IsFiniteSet(parts)
  BY <1>1, FS_Surjection
<1>3. ASSUME NEW x \in S PROVE IsFiniteSet({x} \X (1..f[x]))
  <2>1. f[x] \in Int /\ 1 \in Int
    OBVIOUS
  <2>2. IsFiniteSet(1..f[x])
    BY <2>1, FS_Interval
  <2> QED BY <2>2, FS_Singleton, FS_Product
<1>4. IsFiniteSet(UNION parts)
  BY <1>2, <1>3, FS_UNION
<1> QED BY <1>4, FS_CardinalityType DEF Units, Total

(* The sum over nothing is zero. *)
LEMMA TotalEmpty == ASSUME NEW f PROVE Total(f, {}) = 0
  BY FS_EmptySet DEF Total, Units

(* Two functions that agree on a set have the same sum over it. *)
LEMMA TotalSame ==
    ASSUME NEW S, NEW f, NEW h, \A x \in S : f[x] = h[x]
    PROVE  Total(f, S) = Total(h, S)
<1>1. Units(f, S) = Units(h, S)
  BY DEF Units
<1> QED BY <1>1 DEF Total

(* The sum over two disjoint sets. *)
LEMMA TotalUnion ==
    ASSUME NEW S, NEW T, IsFiniteSet(S), IsFiniteSet(T), S \cap T = {},
           NEW f, \A x \in S \cup T : f[x] \in Nat
    PROVE  Total(f, S \cup T) = Total(f, S) + Total(f, T)
<1>1. IsFiniteSet(Units(f, S)) /\ IsFiniteSet(Units(f, T))
  BY UnitsFinite
<1>2. Units(f, S \cup T) = Units(f, S) \cup Units(f, T)
  BY DEF Units
<1>3. Units(f, S) \cap Units(f, T) = {}
  BY DEF Units
<1>4. Cardinality(Units(f, S) \cup Units(f, T)) =
        Cardinality(Units(f, S)) + Cardinality(Units(f, T)) - 0
  BY <1>1, <1>3, FS_Union, FS_EmptySet
<1>5. Cardinality(Units(f, S)) \in Nat /\ Cardinality(Units(f, T)) \in Nat
  BY <1>1, FS_CardinalityType
<1>6. /\ Total(f, S \cup T) = Cardinality(Units(f, S) \cup Units(f, T))
      /\ Total(f, S) = Cardinality(Units(f, S)) /\ Total(f, T) = Cardinality(Units(f, T))
  BY <1>2 DEF Total
<1> QED BY <1>4, <1>5, <1>6

(* One element's sum is its value. *)
LEMMA TotalSingle ==
    ASSUME NEW x, NEW f, f[x] \in Nat
    PROVE  Total(f, {x}) = f[x]
<1>1. PICK n \in Nat : n = f[x]
  OBVIOUS
<1>2. Units(f, {x}) = {x} \X (1..n)
  BY <1>1 DEF Units
<1>3. IsFiniteSet({x}) /\ Cardinality({x}) = 1
  BY FS_Singleton
<1>4. IsFiniteSet(1..n) /\ Cardinality(1..n) = IF 1 > n THEN 0 ELSE n - 1 + 1
  BY FS_Interval
<1>5. Cardinality(1..n) = n
  BY <1>4
<1>6. Cardinality({x} \X (1..n)) = 1 * n
  BY <1>3, <1>4, <1>5, FS_Product
<1>7. Total(f, {x}) = Cardinality({x} \X (1..n))
  BY <1>2 DEF Total
<1> QED BY <1>1, <1>6, <1>7

(* Adding an element adds its value, and taking one out takes it out. *)
LEMMA TotalAdd ==
    ASSUME NEW S, IsFiniteSet(S), NEW x, x \notin S,
           NEW f, \A y \in S \cup {x} : f[y] \in Nat
    PROVE  Total(f, S \cup {x}) = Total(f, S) + f[x]
<1>1. IsFiniteSet({x}) /\ S \cap {x} = {}
  BY FS_Singleton
<1>2. Total(f, {x}) = f[x]
  BY TotalSingle
<1> QED BY <1>1, <1>2, TotalUnion

LEMMA TotalRemove ==
    ASSUME NEW S, IsFiniteSet(S), NEW x \in S, NEW f, \A y \in S : f[y] \in Nat
    PROVE  Total(f, S) = Total(f, S \ {x}) + f[x]
<1>1. IsFiniteSet(S \ {x}) /\ x \notin S \ {x} /\ (S \ {x}) \cup {x} = S
  BY FS_RemoveElement
<1> QED BY <1>1, TotalAdd

(* A function changed in one place: the sum changes by the difference. *)
LEMMA TotalChange ==
    ASSUME NEW S, IsFiniteSet(S), NEW x \in S, NEW f, NEW h,
           \A y \in S : f[y] \in Nat /\ h[y] \in Nat,
           \A y \in S \ {x} : f[y] = h[y]
    PROVE  Total(h, S) = Total(f, S) - f[x] + h[x]
<1>1. Total(f, S) = Total(f, S \ {x}) + f[x]
  BY TotalRemove
<1>2. Total(h, S) = Total(h, S \ {x}) + h[x]
  BY TotalRemove
<1>3. Total(f, S \ {x}) = Total(h, S \ {x})
  BY TotalSame
<1>4. Total(f, S \ {x}) \in Nat
  BY FS_RemoveElement, UnitsFinite
<1> QED BY <1>1, <1>2, <1>3, <1>4

-----------------------------------------------------------------------------
(* The state in the form the provers use. *)

(* The batches waiting and the batches with a fate are finitely many, and  *)
(* each has a size.                                                        *)
LEMMA Sizing ==
    ASSUME TypeOK, Waiting
    PROVE  /\ DOMAIN fate = 1..Len(size) /\ DOMAIN size = 1..Len(size) /\ Len(size) \in Nat
           /\ DOMAIN items = 1..Len(items) /\ Len(items) \in Nat
           /\ \A b \in DOMAIN fate : fate[b] \in Fates /\ size[b] \in Nat \ {0} /\ b \in Batches
           /\ InQueue \subseteq DOMAIN fate /\ IsFiniteSet(InQueue)
           /\ \A fates : IsFiniteSet(WithFate(fates)) /\ WithFate(fates) \subseteq DOMAIN fate
<1>1. /\ DOMAIN fate = 1..Len(size) /\ DOMAIN size = 1..Len(size) /\ Len(size) \in Nat
      /\ DOMAIN items = 1..Len(items) /\ Len(items) \in Nat
  BY LenProperties DEF TypeOK
<1>2. \A b \in DOMAIN fate : fate[b] \in Fates /\ size[b] \in Nat \ {0} /\ b \in Batches
  <2> SUFFICES ASSUME NEW b \in DOMAIN fate
               PROVE  fate[b] \in Fates /\ size[b] \in Nat \ {0} /\ b \in Batches
    OBVIOUS
  <2>1. b \in 1..Len(size) /\ Len(fate) = Len(size) /\ Len(size) <= MaxBatches
    BY <1>1 DEF TypeOK
  <2>2. fate[b] \in Fates /\ size[b] \in Sizes
    BY <2>1, ElementOfSeq DEF TypeOK
  <2>3. size[b] \in Nat \ {0}
    BY <2>2, SizesAssumption, Zenon
  <2>4. b \in Batches
    BY <1>1, <2>1, MaxBatchesAssumption DEF Batches
  <2> QED BY <2>2, <2>3, <2>4
<1>3. InQueue \subseteq DOMAIN fate
  BY DEF InQueue, Waiting
<1>4. IsFiniteSet(DOMAIN fate)
  BY <1>1, FS_Interval
<1>5. \A fates : WithFate(fates) \subseteq DOMAIN fate
  BY DEF WithFate
<1> QED BY <1>1, <1>2, <1>3, <1>4, <1>5, FS_Subset

(* The goroutines are told apart by name. *)
LEMMA Names ==
    /\ Worker \in Goroutines /\ Closer \in Goroutines /\ Worker # Closer
    /\ Producers \subseteq Goroutines /\ Drainers \subseteq Goroutines
    /\ Drainers = {Worker, Closer}
    /\ \A p \in Producers : p # Worker /\ p # Closer /\ p # Nobody /\ p \notin Drainers
    /\ IsFiniteSet(Goroutines)
<1>1. IsFiniteSet(Drainers)
  <2>1. IsFiniteSet({Worker} \cup {Closer}) /\ Drainers = {Worker} \cup {Closer}
    BY FS_Singleton, FS_AddElement DEF Drainers
  <2> QED BY <2>1
<1>2. IsFiniteSet(Goroutines)
  BY <1>1, FinitelyManyAssumption, FS_Union DEF Goroutines
<1> QED BY <1>2, ProducersAssumption DEF Goroutines, Drainers, Worker, Closer, Nobody

(* Nothing is queued, sent or counted at first. *)
LEMMA InitIndInv == Init => IndInv
<1> SUFFICES ASSUME Init PROVE IndInv
  OBVIOUS
<1>1. TypeOK
  <2>1. /\ closed \in BOOLEAN /\ started \in BOOLEAN /\ work \in BOOLEAN
        /\ stop \in BOOLEAN /\ cancelled \in BOOLEAN
    BY Zenon DEF Init
  <2>2. /\ pc \in [Goroutines -> ProducerLabels \cup WorkerLabels \cup CloserLabels]
        /\ \A p \in Producers : pc[p] \in ProducerLabels
        /\ pc[Worker] \in WorkerLabels /\ pc[Closer] \in CloserLabels
    BY Names DEF Init, ProducerLabels, WorkerLabels, CloserLabels
  <2>3. local \in [Goroutines -> [batch : Batches \cup {NoBatch}, count : Int]]
    BY DEF Init, NoBatch
  <2>4. /\ mu \in Producers \cup {Nobody}
        /\ items \in Seq(Batches) /\ queued \in Int /\ gauge \in Int /\ dropped \in Int
        /\ size \in Seq(Sizes) /\ Len(size) <= MaxBatches
        /\ fate \in Seq(Fates) /\ Len(fate) = Len(size)
    BY MaxBatchesAssumption DEF Init
  <2> QED BY <2>1, <2>2, <2>3, <2>4 DEF TypeOK
<1>2. Lock /\ Offered /\ Waiting /\ Sending /\ Protocol /\ Tally
  BY Names DEF Init, Lock, Offered, Waiting, Sending, Protocol, Tally, Holds, Counting, Goroutines
<1>3. CapacityBound
  BY CapacityAssumption DEF Init, CapacityBound
<1>4. InQueue = {} /\ WithFate({"dropped"}) = {}
  BY DEF Init, InQueue, WithFate
<1>5. DepthExact
  BY <1>4, TotalEmpty DEF Init, DepthExact, Alerts
<1>6. Uncounted = 0
  <2>1. Units([g \in Goroutines |-> local[g].count], Goroutines) = {}
    BY DEF Init, Units
  <2> QED BY <2>1, FS_EmptySet DEF Uncounted, Total
<1>7. DropsCounted
  <2>1. dropped = 0
    BY DEF Init
  <2>2. Alerts(WithFate({"dropped"})) = 0
    BY <1>4, TotalEmpty DEF Alerts
  <2> QED BY <1>6, <2>1, <2>2 DEF DropsCounted
<1> QED BY <1>1, <1>2, <1>3, <1>5, <1>7 DEF IndInv

-----------------------------------------------------------------------------
(* What is about to be counted. *)

LEMMA UncountedSame ==
    ASSUME \A g \in Goroutines : local'[g].count = local[g].count
    PROVE  Uncounted' = Uncounted
<1>1. [g \in Goroutines |-> local[g].count]' = [g \in Goroutines |-> local[g].count]
  OBVIOUS
<1> QED BY <1>1 DEF Uncounted, Total, Units

LEMMA UncountedChange ==
    ASSUME Tally, NEW g \in Goroutines, local'[g].count \in Nat,
           \A h \in Goroutines \ {g} : local'[h].count = local[h].count
    PROVE  /\ Uncounted' = Uncounted - local[g].count + local'[g].count
           /\ Uncounted \in Nat
<1> DEFINE old == [h \in Goroutines |-> local[h].count]
           new == [h \in Goroutines |-> local'[h].count]
<1>1. Uncounted = Total(old, Goroutines) /\ Uncounted' = Total(new, Goroutines)
  BY DEF Uncounted, Total, Units
<1>2. \A h \in Goroutines : old[h] \in Nat /\ new[h] \in Nat
  BY DEF Tally
<1>3. \A h \in Goroutines \ {g} : old[h] = new[h]
  OBVIOUS
<1>4. old[g] = local[g].count /\ new[g] = local'[g].count
  OBVIOUS
<1> HIDE DEF old, new
<1>5. Total(new, Goroutines) = Total(old, Goroutines) - old[g] + new[g]
  BY <1>2, <1>3, Names, TotalChange
<1>6. Total(old, Goroutines) \in Nat
  BY <1>2, Names, UnitsFinite
<1> QED BY <1>1, <1>4, <1>5, <1>6

(* The labels of a drainer are none of a producer's at work. *)
LEMMA DrainerLabels ==
    ASSUME TypeOK, NEW g \in Drainers
    PROVE  pc[g] \notin {"enqueue", "count", "signal", "closedDrop"}
  BY Names DEF TypeOK, WorkerLabels, CloserLabels

-----------------------------------------------------------------------------
(* Steps that move a drainer on and touch nothing it could have in hand. *)

LEMMA Handover ==
    ASSUME IndInv, UNCHANGED <<mu, queueVars, dropped, local, size, fate>>,
           TypeOK', Protocol',
           \A p \in Producers : pc'[p] = pc[p],
           \A g \in Drainers : (Holds(g)' <=> Holds(g)) /\ (Counting(g)' <=> Counting(g))
    PROVE  IndInv'
<1>1. Lock' /\ Offered' /\ Waiting'
  BY DEF IndInv, Lock, Offered, Waiting, InQueue, queueVars
<1>2. Sending'
  BY Names DEF IndInv, Sending, queueVars
<1>3. Tally'
  <2> SUFFICES ASSUME NEW g \in Goroutines
               PROVE  /\ local[g].count \in Nat
                      /\ pc'[g] \notin {"enqueue", "count", "closedDrop", "counting", "lastCounting"}
                           => local[g].count = 0
    BY DEF Tally
  <2>1. CASE g \in Producers
    BY <2>1 DEF IndInv, Tally
  <2>2. CASE g \in Drainers
    BY <2>2, DrainerLabels DEF IndInv, Tally, Counting
  <2> QED BY <2>1, <2>2 DEF Goroutines
<1>4. CapacityBound'
  BY DEF IndInv, CapacityBound, queueVars
<1>5. DepthExact'
  <2>1. Alerts(InQueue)' = Alerts(InQueue)
    BY DEF Alerts, InQueue, Total, Units, queueVars
  <2>2. (\A g \in Drainers : ~Counting(g)') => \A g \in Drainers : ~Counting(g)
    OBVIOUS
  <2> QED BY <2>1, <2>2 DEF IndInv, DepthExact, Counting, queueVars
<1>6. DropsCounted'
  <2>1. Uncounted' = Uncounted
    BY UncountedSame
  <2>2. Alerts(WithFate({"dropped"}))' = Alerts(WithFate({"dropped"}))
    BY DEF Alerts, WithFate, Total, Units
  <2> QED BY <2>1, <2>2 DEF IndInv, DropsCounted
<1> QED BY <1>1, <1>2, <1>3, <1>4, <1>5, <1>6 DEF IndInv

(* One goroutine moves, the others stay where they are. *)
LEMMA Moves ==
    ASSUME TypeOK, NEW g \in Goroutines, NEW label, Goto(g, label),
           label \in ProducerLabels \cup WorkerLabels \cup CloserLabels,
           g \in Producers => label \in ProducerLabels,
           g = Worker => label \in WorkerLabels,
           g = Closer => label \in CloserLabels
    PROVE  /\ pc'[g] = label /\ \A h \in Goroutines \ {g} : pc'[h] = pc[h]
           /\ pc' \in [Goroutines -> ProducerLabels \cup WorkerLabels \cup CloserLabels]
           /\ \A p \in Producers : pc'[p] \in ProducerLabels
           /\ pc'[Worker] \in WorkerLabels /\ pc'[Closer] \in CloserLabels
<1>1. /\ pc \in [Goroutines -> ProducerLabels \cup WorkerLabels \cup CloserLabels]
      /\ \A p \in Producers : pc[p] \in ProducerLabels
      /\ pc[Worker] \in WorkerLabels /\ pc[Closer] \in CloserLabels
  BY DEF TypeOK
<1>2. /\ pc'[g] = label /\ \A h \in Goroutines \ {g} : pc'[h] = pc[h]
      /\ pc' \in [Goroutines -> ProducerLabels \cup WorkerLabels \cup CloserLabels]
  BY <1>1 DEF Goto
<1> QED BY <1>1, <1>2, Names

(* What a step of this kind leaves to show. *)
LEMMA Handed ==
    ASSUME IndInv, UNCHANGED <<mu, queueVars, dropped, local, size, fate>>,
           closed' \in BOOLEAN, started' \in BOOLEAN, work' \in BOOLEAN,
           stop' \in BOOLEAN, cancelled' \in BOOLEAN,
           NEW g \in Drainers, NEW label, Goto(g, label),
           g = Worker => label \in WorkerLabels,
           g = Closer => label \in CloserLabels,
           label \notin {"send", "lastSend", "counting", "lastCounting"},
           ~Holds(g), ~Counting(g),
           Protocol'
    PROVE  IndInv'
<1>1. TypeOK /\ g \in Goroutines /\ g \notin Producers
  BY Names DEF IndInv
<1>2. label \in ProducerLabels \cup WorkerLabels \cup CloserLabels
  BY Names
<1>3. /\ pc'[g] = label /\ \A h \in Goroutines \ {g} : pc'[h] = pc[h]
      /\ pc' \in [Goroutines -> ProducerLabels \cup WorkerLabels \cup CloserLabels]
      /\ \A p \in Producers : pc'[p] \in ProducerLabels
      /\ pc'[Worker] \in WorkerLabels /\ pc'[Closer] \in CloserLabels
  BY <1>1, <1>2, Moves
<1>4. TypeOK'
  BY <1>1, <1>3 DEF TypeOK, queueVars
<1>5. \A p \in Producers : pc'[p] = pc[p]
  BY <1>1, <1>3, Names
<1>6. \A h \in Drainers : (Holds(h)' <=> Holds(h)) /\ (Counting(h)' <=> Counting(h))
  BY <1>3, Names DEF Holds, Counting
<1> QED BY <1>4, <1>5, <1>6, Handover

(* The control state before and after a drainer's step. *)
LEMMA DrainerMoves ==
    ASSUME IndInv, NEW g \in Drainers, NEW label, Goto(g, label),
           g = Worker => label \in WorkerLabels,
           g = Closer => label \in CloserLabels
    PROVE  /\ Protocol
           /\ pc[Worker] \in WorkerLabels /\ pc[Closer] \in CloserLabels
           /\ pc'[g] = label /\ \A h \in Drainers \ {g} : pc'[h] = pc[h]
           /\ \A p \in Producers : pc'[p] = pc[p]
           /\ pc' \in [Goroutines -> ProducerLabels \cup WorkerLabels \cup CloserLabels]
           /\ \A p \in Producers : pc'[p] \in ProducerLabels
           /\ pc'[Worker] \in WorkerLabels /\ pc'[Closer] \in CloserLabels
<1>1. TypeOK /\ g \in Goroutines /\ g \notin Producers
      /\ label \in ProducerLabels \cup WorkerLabels \cup CloserLabels
  BY Names DEF IndInv
<1>2. /\ pc'[g] = label /\ \A h \in Goroutines \ {g} : pc'[h] = pc[h]
      /\ pc' \in [Goroutines -> ProducerLabels \cup WorkerLabels \cup CloserLabels]
      /\ \A p \in Producers : pc'[p] \in ProducerLabels
      /\ pc'[Worker] \in WorkerLabels /\ pc'[Closer] \in CloserLabels
  BY <1>1, Moves
<1> QED BY <1>1, <1>2, Names DEF IndInv, TypeOK

(* The worker starts: it was not running. *)
LEMMA StartIndInv == ASSUME IndInv, Start PROVE IndInv'
<1>1. Goto(Worker, "select") /\ Worker \in Drainers /\ "select" \in WorkerLabels
  BY Names DEF Start, WorkerLabels
<1>2. /\ Protocol /\ pc[Worker] \in WorkerLabels /\ pc[Closer] \in CloserLabels
      /\ pc'[Worker] = "select" /\ \A h \in Drainers \ {Worker} : pc'[h] = pc[h]
  BY <1>1, Names, DrainerMoves
<1>3. /\ closed' \in BOOLEAN /\ started' \in BOOLEAN /\ work' \in BOOLEAN
      /\ stop' \in BOOLEAN /\ cancelled' \in BOOLEAN
  BY Zenon DEF IndInv, TypeOK, Start
<1>4. Protocol'
  BY <1>2, Names DEF Protocol, Start, Holds, Counting, queueVars, flags
<1>5. ~Holds(Worker) /\ ~Counting(Worker)
  BY <1>2 DEF Start, Holds, Counting, Protocol
<1> QED BY <1>1, <1>3, <1>4, <1>5, Names, Handed DEF Start

(* The worker hears the token. *)
LEMMA LoopWorkIndInv == ASSUME IndInv, LoopWork PROVE IndInv'
<1>1. Goto(Worker, "drain") /\ Worker \in Drainers /\ "drain" \in WorkerLabels
  BY Names DEF LoopWork, WorkerLabels
<1>2. /\ Protocol /\ pc[Worker] \in WorkerLabels /\ pc[Closer] \in CloserLabels
      /\ pc'[Worker] = "drain" /\ \A h \in Drainers \ {Worker} : pc'[h] = pc[h]
  BY <1>1, Names, DrainerMoves
<1>3. /\ closed' \in BOOLEAN /\ started' \in BOOLEAN /\ work' \in BOOLEAN
      /\ stop' \in BOOLEAN /\ cancelled' \in BOOLEAN
  BY Zenon DEF IndInv, TypeOK, LoopWork, flags
<1>4. Protocol'
  BY <1>2, Names DEF Protocol, LoopWork, Holds, Counting, queueVars, flags
<1>5. ~Holds(Worker) /\ ~Counting(Worker)
  BY <1>2 DEF LoopWork, Holds, Counting, Protocol
<1> QED BY <1>1, <1>3, <1>4, <1>5, Names, Handed DEF LoopWork

(* The worker hears that it has to stop. *)
LEMMA LoopStopIndInv == ASSUME IndInv, LoopStop PROVE IndInv'
<1>1. Goto(Worker, "lastDrain") /\ Worker \in Drainers /\ "lastDrain" \in WorkerLabels
  BY Names DEF LoopStop, WorkerLabels
<1>2. /\ Protocol /\ pc[Worker] \in WorkerLabels /\ pc[Closer] \in CloserLabels
      /\ pc'[Worker] = "lastDrain" /\ \A h \in Drainers \ {Worker} : pc'[h] = pc[h]
  BY <1>1, Names, DrainerMoves
<1>3. /\ closed' \in BOOLEAN /\ started' \in BOOLEAN /\ work' \in BOOLEAN
      /\ stop' \in BOOLEAN /\ cancelled' \in BOOLEAN
  BY Zenon DEF IndInv, TypeOK, LoopStop, flags
<1>4. Protocol'
  BY <1>2, Names DEF Protocol, LoopStop, Holds, Counting, queueVars, flags
<1>5. ~Holds(Worker) /\ ~Counting(Worker)
  BY <1>2 DEF LoopStop, Holds, Counting, Protocol
<1> QED BY <1>1, <1>3, <1>4, <1>5, Names, Handed DEF LoopStop

(* Drain hears that the worker has exited. *)
LEMMA DrainDoneIndInv == ASSUME IndInv, DrainDone PROVE IndInv'
<1>1. Goto(Closer, "cancel") /\ Closer \in Drainers /\ "cancel" \in CloserLabels
  BY Names DEF DrainDone, CloserLabels
<1>2. /\ Protocol /\ pc[Worker] \in WorkerLabels /\ pc[Closer] \in CloserLabels
      /\ pc'[Closer] = "cancel" /\ \A h \in Drainers \ {Closer} : pc'[h] = pc[h]
  BY <1>1, Names, DrainerMoves
<1>3. /\ closed' \in BOOLEAN /\ started' \in BOOLEAN /\ work' \in BOOLEAN
      /\ stop' \in BOOLEAN /\ cancelled' \in BOOLEAN
  BY Zenon DEF IndInv, TypeOK, DrainDone, flags
<1>4. Protocol'
  BY <1>2, Names DEF Protocol, DrainDone, Holds, Counting, queueVars, flags
<1>5. ~Holds(Closer) /\ ~Counting(Closer)
  BY <1>2 DEF DrainDone, Holds, Counting, Protocol
<1> QED BY <1>1, <1>3, <1>4, <1>5, Names, Handed DEF DrainDone

(* Drain gives up waiting and cancels. *)
LEMMA DrainTimeoutIndInv == ASSUME IndInv, DrainTimeout PROVE IndInv'
<1>1. Goto(Closer, "waitDone") /\ Closer \in Drainers /\ "waitDone" \in CloserLabels
  BY Names DEF DrainTimeout, CloserLabels
<1>2. /\ Protocol /\ pc[Worker] \in WorkerLabels /\ pc[Closer] \in CloserLabels
      /\ pc'[Closer] = "waitDone" /\ \A h \in Drainers \ {Closer} : pc'[h] = pc[h]
  BY <1>1, Names, DrainerMoves
<1>3. /\ closed' \in BOOLEAN /\ started' \in BOOLEAN /\ work' \in BOOLEAN
      /\ stop' \in BOOLEAN /\ cancelled' \in BOOLEAN
  BY Zenon DEF IndInv, TypeOK, DrainTimeout
<1>4. Protocol'
  BY <1>2, Names DEF Protocol, DrainTimeout, Holds, Counting, queueVars, flags
<1>5. ~Holds(Closer) /\ ~Counting(Closer)
  BY <1>2 DEF DrainTimeout, Holds, Counting, Protocol
<1> QED BY <1>1, <1>3, <1>4, <1>5, Names, Handed DEF DrainTimeout

(* Drain hears that the worker has exited, late. *)
LEMMA DrainWaitedIndInv == ASSUME IndInv, DrainWaited PROVE IndInv'
<1>1. Goto(Closer, "cancel") /\ Closer \in Drainers /\ "cancel" \in CloserLabels
  BY Names DEF DrainWaited, CloserLabels
<1>2. /\ Protocol /\ pc[Worker] \in WorkerLabels /\ pc[Closer] \in CloserLabels
      /\ pc'[Closer] = "cancel" /\ \A h \in Drainers \ {Closer} : pc'[h] = pc[h]
  BY <1>1, Names, DrainerMoves
<1>3. /\ closed' \in BOOLEAN /\ started' \in BOOLEAN /\ work' \in BOOLEAN
      /\ stop' \in BOOLEAN /\ cancelled' \in BOOLEAN
  BY Zenon DEF IndInv, TypeOK, DrainWaited, flags
<1>4. Protocol'
  BY <1>2, Names DEF Protocol, DrainWaited, Holds, Counting, queueVars, flags
<1>5. ~Holds(Closer) /\ ~Counting(Closer)
  BY <1>2 DEF DrainWaited, Holds, Counting, Protocol
<1> QED BY <1>1, <1>3, <1>4, <1>5, Names, Handed DEF DrainWaited

(* Drain returns. *)
LEMMA DrainReturnIndInv == ASSUME IndInv, DrainReturn PROVE IndInv'
<1>1. Goto(Closer, "returned") /\ Closer \in Drainers /\ "returned" \in CloserLabels
  BY Names DEF DrainReturn, CloserLabels
<1>2. /\ Protocol /\ pc[Worker] \in WorkerLabels /\ pc[Closer] \in CloserLabels
      /\ pc'[Closer] = "returned" /\ \A h \in Drainers \ {Closer} : pc'[h] = pc[h]
  BY <1>1, Names, DrainerMoves
<1>3. /\ closed' \in BOOLEAN /\ started' \in BOOLEAN /\ work' \in BOOLEAN
      /\ stop' \in BOOLEAN /\ cancelled' \in BOOLEAN
  BY Zenon DEF IndInv, TypeOK, DrainReturn
<1>4. Protocol'
  BY <1>2, Names DEF Protocol, DrainReturn, Holds, Counting, queueVars, flags
<1>5. ~Holds(Closer) /\ ~Counting(Closer)
  BY <1>2 DEF DrainReturn, Holds, Counting, Protocol
<1> QED BY <1>1, <1>3, <1>4, <1>5, Names, Handed DEF DrainReturn

(* Drain closes the queue: from here on nobody can hold q.mu to enqueue. *)
LEMMA DrainCloseIndInv == ASSUME IndInv, DrainClose PROVE IndInv'
<1> DEFINE label == IF started THEN "wait" ELSE "lastDrain"
<1>1. Goto(Closer, label) /\ Closer \in Drainers /\ label \in CloserLabels
      /\ label \notin {"idle", "send", "lastSend", "counting", "lastCounting", "cancel", "returned"}
      /\ (label = "lastDrain" => ~started)
  BY Names DEF DrainClose, CloserLabels
<1> HIDE DEF label
<1>2. /\ Protocol /\ pc[Worker] \in WorkerLabels /\ pc[Closer] \in CloserLabels
      /\ pc'[Closer] = label /\ \A h \in Drainers \ {Closer} : pc'[h] = pc[h]
  BY <1>1, Names, DrainerMoves
<1>3. /\ closed' \in BOOLEAN /\ started' \in BOOLEAN /\ work' \in BOOLEAN
      /\ stop' \in BOOLEAN /\ cancelled' \in BOOLEAN
  BY Zenon DEF IndInv, TypeOK, DrainClose
<1>4. Protocol'
  BY <1>1, <1>2, Names DEF Protocol, DrainClose, Holds, Counting, queueVars
<1>5. ~Holds(Closer) /\ ~Counting(Closer)
  BY <1>2 DEF DrainClose, Holds, Counting
<1> QED BY <1>1, <1>3, <1>4, <1>5, Names, Handed DEF DrainClose

(* Where a drainer goes when drain() returns. *)
LEMMA AfterDrainLabel ==
    ASSUME IndInv, NEW g \in Drainers, Draining(g) \/ Counting(g)
    PROVE  /\ AfterDrain(g) \in {"select", "done", "cancel"}
           /\ g = Worker => AfterDrain(g) \in WorkerLabels
           /\ g = Closer => AfterDrain(g) = "cancel" /\ AfterDrain(g) \in CloserLabels
           /\ g = Worker => AfterDrain(g) = IF pc[g] \in {"drain", "counting"} THEN "select" ELSE "done"
<1>1. pc[Worker] \in WorkerLabels /\ pc[Closer] \in CloserLabels
  BY DEF IndInv, TypeOK
<1> QED BY <1>1, Names DEF AfterDrain, WorkerLabels, CloserLabels, Draining, Counting

(* A drainer stops when drain() finds nothing (left): the protocol. *)
LEMMA DrainedProtocol ==
    ASSUME IndInv, NEW g \in Drainers, Draining(g) \/ Counting(g), Goto(g, AfterDrain(g)),
           items' = <<>>, UNCHANGED <<mu, flags>>
    PROVE  Protocol'
<1>1. /\ AfterDrain(g) \in {"select", "done", "cancel"}
      /\ g = Worker => AfterDrain(g) \in WorkerLabels
      /\ g = Closer => AfterDrain(g) = "cancel" /\ AfterDrain(g) \in CloserLabels
      /\ g = Worker => AfterDrain(g) = IF pc[g] \in {"drain", "counting"} THEN "select" ELSE "done"
  BY AfterDrainLabel
<1>2. /\ Protocol /\ pc[Worker] \in WorkerLabels /\ pc[Closer] \in CloserLabels
      /\ pc'[g] = AfterDrain(g) /\ \A h \in Drainers \ {g} : pc'[h] = pc[h]
  BY <1>1, DrainerMoves
<1>3. CASE g = Worker
  BY <1>1, <1>2, <1>3, Names DEF Protocol, Draining, Holds, Counting, flags
<1>4. CASE g = Closer
  BY <1>1, <1>2, <1>4, Names DEF Protocol, Draining, Holds, Counting, flags, CloserLabels
<1> QED BY <1>3, <1>4, Names

(* drain() finds the queue empty. *)
LEMMA DrainEmptyIndInv ==
    ASSUME IndInv, NEW g \in Drainers, DrainEmpty(g) PROVE IndInv'
<1>1. /\ Goto(g, AfterDrain(g)) /\ Draining(g) /\ ~Holds(g) /\ ~Counting(g)
      /\ items' = <<>> /\ UNCHANGED <<mu, flags>>
  BY DEF DrainEmpty, Draining, Holds, Counting, queueVars
<1>2. Protocol'
  BY <1>1, DrainedProtocol
<1>3. /\ closed' \in BOOLEAN /\ started' \in BOOLEAN /\ work' \in BOOLEAN
      /\ stop' \in BOOLEAN /\ cancelled' \in BOOLEAN
  BY Zenon DEF IndInv, TypeOK, DrainEmpty, flags
<1>4. /\ AfterDrain(g) \notin {"send", "lastSend", "counting", "lastCounting"}
      /\ g = Worker => AfterDrain(g) \in WorkerLabels
      /\ g = Closer => AfterDrain(g) \in CloserLabels
  BY <1>1, AfterDrainLabel
<1> DEFINE label == AfterDrain(g)
<1> QED BY <1>1, <1>2, <1>3, <1>4, Handed DEF DrainEmpty

-----------------------------------------------------------------------------
(* Batches that leave the queue. *)

(* Taking the oldest out of q.items takes one batch out of InQueue. *)
LEMMA Pop ==
    ASSUME TypeOK, Waiting, items # <<>>, items' = Tail(items)
    PROVE  /\ Head(items) \in DOMAIN fate /\ fate[Head(items)] = "queued"
           /\ Head(items) \in InQueue /\ InQueue' = InQueue \ {Head(items)}
           /\ items' \in Seq(Batches) /\ Len(items) \in Nat \ {0} /\ Len(items') = Len(items) - 1
           /\ \A i \in DOMAIN items' : i + 1 \in DOMAIN items /\ items'[i] = items[i + 1]
<1>1. items \in Seq(Batches)
  BY DEF TypeOK
<1>2. /\ items' \in Seq(Batches) /\ Len(items') = Len(items) - 1 /\ Len(items) \in Nat \ {0}
      /\ \A i \in 1..Len(items') : items'[i] = items[i + 1]
  BY <1>1, HeadTailProperties, EmptySeq
<1>3. DOMAIN items = 1..Len(items) /\ DOMAIN items' = 1..Len(items')
  BY <1>1, <1>2, LenProperties
<1>4. Head(items) = items[1] /\ 1 \in DOMAIN items
  BY <1>1, <1>2, <1>3
<1>5. \A i \in DOMAIN items' : i + 1 \in DOMAIN items /\ items'[i] = items[i + 1]
  BY <1>2, <1>3
<1>6. \A j \in DOMAIN items \ {1} : j - 1 \in DOMAIN items' /\ items'[j - 1] = items[j]
  BY <1>2, <1>3
<1>7. \A i, j \in DOMAIN items : items[i] = items[j] => i = j
  BY DEF Waiting
<1>8. \A i \in DOMAIN items' : i + 1 # 1
  BY <1>3
<1>9. InQueue' \subseteq InQueue \ {items[1]}
  BY <1>4, <1>5, <1>7, <1>8 DEF InQueue
<1>10. InQueue \ {items[1]} \subseteq InQueue'
  BY <1>6 DEF InQueue
<1> QED BY <1>2, <1>4, <1>5, <1>9, <1>10 DEF InQueue, Waiting

(* The depth and the capacity after the oldest is taken out. *)
LEMMA PopDepth ==
    ASSUME IndInv, items # <<>>, items' = Tail(items), size' = size,
           queued' = queued - size[Head(items)]
    PROVE  queued' = Alerts(InQueue)' /\ queued' \in Int /\ CapacityBound'
<1>1. /\ Head(items) \in InQueue /\ InQueue' = InQueue \ {Head(items)}
      /\ Len(items) \in Nat \ {0} /\ Len(items') = Len(items) - 1
      /\ items' \in Seq(Batches)
  BY Pop DEF IndInv
<1>2. IsFiniteSet(InQueue) /\ \A b \in InQueue : size[b] \in Nat \ {0}
  BY Sizing DEF IndInv
<1>3. Total(size, InQueue) = Total(size, InQueue \ {Head(items)}) + size[Head(items)]
  BY <1>1, <1>2, TotalRemove
<1>4. queued = Total(size, InQueue) /\ queued \in Int
  BY DEF IndInv, TypeOK, DepthExact, Alerts
<1>5. IsFiniteSet(InQueue \ {Head(items)})
  BY <1>2, FS_RemoveElement
<1>6. Total(size, InQueue \ {Head(items)}) \in Nat
  BY <1>2, <1>5, UnitsFinite
<1>7. queued' = Total(size, InQueue \ {Head(items)})
  BY <1>1, <1>2, <1>3, <1>4, <1>6
<1>8. Alerts(InQueue)' = queued' /\ queued' \in Nat
  <2>1. Alerts(InQueue)' = Total(size', InQueue')
    BY DEF Alerts, Total, Units
  <2>2. queued' = Total(size', InQueue')
    BY <1>1, <1>7
  <2>3. queued' \in Nat
    BY <1>6, <1>7
  <2> QED BY <2>1, <2>2, <2>3
<1>9. CapacityBound'
  <2>1. CASE Len(items) = 1
    <3>1. items' = <<>>
      BY <1>1, <2>1, EmptySeq
    <3>2. InQueue' = {}
      BY <3>1 DEF InQueue
    <3>3. queued' = 0
      BY <1>1, <1>7, <3>2, TotalEmpty
    <3> QED BY <3>3, CapacityAssumption DEF CapacityBound
  <2>2. CASE Len(items) # 1
    <3>1. queued <= Capacity
      BY <2>2, <1>4, CapacityAssumption DEF IndInv, CapacityBound
    <3>2. queued' <= Capacity
      BY <1>1, <1>2, <1>4, <3>1, CapacityAssumption
    <3>3. ~(queued' > Capacity)
      BY <1>8, <3>2, CapacityAssumption
    <3> QED BY <3>3 DEF CapacityBound
  <2> QED BY <2>1, <2>2
<1>10. queued' = Alerts(InQueue)' /\ queued' \in Int
  BY <1>8
<1> QED BY <1>9, <1>10

(* A batch meets its fate, the others keep theirs. *)
LEMMA Marked ==
    ASSUME TypeOK, Waiting, NEW b \in DOMAIN fate, NEW o \in Fates, fate' = [fate EXCEPT ![b] = o]
    PROVE  /\ fate' \in Seq(Fates) /\ Len(fate') = Len(fate)
           /\ DOMAIN fate' = DOMAIN fate /\ fate'[b] = o
           /\ \A c \in DOMAIN fate \ {b} : fate'[c] = fate[c]
<1>1. fate \in Seq(Fates) /\ b \in 1..Len(fate)
  BY Sizing DEF TypeOK
<1>2. fate' \in Seq(Fates) /\ Len(fate') = Len(fate)
  BY <1>1, ExceptSeq
<1> QED BY <1>2

(* A batch that leaves the queue leaves the others in it. *)
LEMMA PopWaiting ==
    ASSUME TypeOK, Waiting, items # <<>>, items' = Tail(items),
           DOMAIN fate' = DOMAIN fate, fate'[Head(items)] # "queued",
           \A c \in DOMAIN fate \ {Head(items)} : fate'[c] = fate[c]
    PROVE  Waiting'
<1> DEFINE b == Head(items)
<1>1. /\ b \in DOMAIN fate /\ InQueue' = InQueue \ {b} /\ items' \in Seq(Batches)
      /\ \A i \in DOMAIN items' : i + 1 \in DOMAIN items /\ items'[i] = items[i + 1]
  BY Pop
<1> HIDE DEF b
<1>2. \A i \in DOMAIN items' : items'[i] \in InQueue'
  BY DEF InQueue
<1>3. \A c \in InQueue' : c \in DOMAIN fate' /\ fate'[c] = "queued"
  BY <1>1 DEF Waiting, InQueue, b
<1>4. \A c \in DOMAIN fate' : fate'[c] = "queued" => c \in InQueue'
  BY <1>1 DEF Waiting, b
<1>5. ASSUME NEW i \in DOMAIN items', NEW j \in DOMAIN items', items'[i] = items'[j]
      PROVE  i = j
  <2>1. i + 1 = j + 1
    BY <1>1, <1>5 DEF Waiting
  <2>2. i \in Int /\ j \in Int
    BY <1>1, LenProperties
  <2> QED BY <2>1, <2>2
<1> QED BY <1>2, <1>3, <1>4, <1>5 DEF Waiting

(* What was dropped, when a batch that was not dropped meets its fate. *)
LEMMA DroppedSame ==
    ASSUME TypeOK, Waiting, NEW b \in DOMAIN fate, NEW o \in Fates, fate' = [fate EXCEPT ![b] = o],
           fate[b] # "dropped", o # "dropped", size' = size
    PROVE  Alerts(WithFate({"dropped"}))' = Alerts(WithFate({"dropped"}))
<1>1. WithFate({"dropped"})' = WithFate({"dropped"})
  BY Marked DEF WithFate
<1> QED BY <1>1 DEF Alerts, Total, Units

LEMMA DroppedMore ==
    ASSUME TypeOK, Waiting, NEW b \in DOMAIN fate, fate' = [fate EXCEPT ![b] = "dropped"],
           fate[b] # "dropped", size' = size
    PROVE  /\ Alerts(WithFate({"dropped"}))' = Alerts(WithFate({"dropped"})) + size[b]
           /\ Alerts(WithFate({"dropped"})) \in Nat
<1> DEFINE old == WithFate({"dropped"})
<1>1. "dropped" \in Fates
  BY DEF Fates
<1>2. WithFate({"dropped"})' = old \cup {b} /\ b \notin old
  BY <1>1, Marked DEF WithFate
<1>3. IsFiniteSet(old) /\ \A c \in old \cup {b} : size[c] \in Nat
  BY Sizing
<1>4. Total(size, old \cup {b}) = Total(size, old) + size[b] /\ Total(size, old) \in Nat
  BY <1>2, <1>3, TotalAdd, UnitsFinite
<1>5. Alerts(WithFate({"dropped"}))' = Total(size', WithFate({"dropped"})')
  BY DEF Alerts, Total, Units
<1>6. Alerts(WithFate({"dropped"})) = Total(size, old)
  BY DEF Alerts
<1>7. Alerts(WithFate({"dropped"}))' = Total(size, old \cup {b})
  BY <1>2, <1>5
<1> QED BY <1>4, <1>6, <1>7

(* next() pops the oldest and the drainer has it in hand. *)
LEMMA DrainNextIndInv ==
    ASSUME IndInv, NEW g \in Drainers, DrainNext(g) PROVE IndInv'
<1> DEFINE label == IF pc[g] = "drain" THEN "send" ELSE "lastSend"
           b == Head(items)
<1>1. /\ TypeOK /\ Lock /\ Offered /\ Waiting /\ Sending /\ Protocol /\ Tally
      /\ CapacityBound /\ DepthExact /\ DropsCounted
  BY DEF IndInv
<1>2. /\ Goto(g, label) /\ label \in {"send", "lastSend"} /\ ~Holds(g) /\ ~Counting(g)
      /\ pc[g] \in {"drain", "lastDrain"}
      /\ (label = "lastSend" <=> pc[g] = "lastDrain") /\ mu = Nobody /\ ~cancelled
      /\ items # <<>> /\ items' = Tail(items) /\ gauge' = queued'
      /\ queued' = queued - size[b] /\ fate' = [fate EXCEPT ![b] = "sending"]
      /\ local' = [local EXCEPT ![g].batch = b]
      /\ UNCHANGED <<mu, flags, work, dropped, size>>
      /\ g = Worker => label \in WorkerLabels
      /\ g = Closer => pc[g] = "lastDrain" /\ label \in CloserLabels
  BY <1>1, Names DEF DrainNext, Draining, Holds, Counting, TypeOK, WorkerLabels, CloserLabels
<1> HIDE DEF label
<1>3. /\ pc[Worker] \in WorkerLabels /\ pc[Closer] \in CloserLabels
      /\ pc'[g] = label /\ \A h \in Drainers \ {g} : pc'[h] = pc[h]
      /\ \A p \in Producers : pc'[p] = pc[p]
      /\ pc' \in [Goroutines -> ProducerLabels \cup WorkerLabels \cup CloserLabels]
      /\ \A p \in Producers : pc'[p] \in ProducerLabels
      /\ pc'[Worker] \in WorkerLabels /\ pc'[Closer] \in CloserLabels
  BY <1>2, DrainerMoves
<1>4. /\ b \in DOMAIN fate /\ fate[b] = "queued" /\ b \in Batches
      /\ b \in InQueue /\ InQueue' = InQueue \ {b}
      /\ items' \in Seq(Batches)
      /\ \A i \in DOMAIN items' : i + 1 \in DOMAIN items /\ items'[i] = items[i + 1]
  BY <1>1, <1>2, Pop, Sizing
<1> HIDE DEF b
<1>5. /\ fate' \in Seq(Fates) /\ Len(fate') = Len(fate) /\ DOMAIN fate' = DOMAIN fate
      /\ fate'[b] = "sending" /\ \A c \in DOMAIN fate \ {b} : fate'[c] = fate[c]
  BY <1>1, <1>2, <1>4, Marked DEF Fates
<1>6. /\ local \in [Goroutines -> [batch : Batches \cup {NoBatch}, count : Int]]
      /\ g \in Goroutines
  BY <1>1, Names DEF TypeOK
<1>7. /\ local' \in [Goroutines -> [batch : Batches \cup {NoBatch}, count : Int]]
      /\ local'[g].batch = b /\ \A h \in Goroutines : local'[h].count = local[h].count
      /\ \A h \in Goroutines \ {g} : local'[h] = local[h]
  BY <1>2, <1>4, <1>6
<1>8. queued' = Alerts(InQueue)' /\ queued' \in Int /\ CapacityBound'
  BY <1>2, PopDepth DEF b
<1>9. TypeOK'
  BY <1>1, <1>2, <1>3, <1>4, <1>5, <1>7, <1>8 DEF TypeOK, flags
<1>10. Lock' /\ Offered'
  <2>1. Lock'
    BY <1>1, <1>2, <1>3 DEF Lock
  <2>2. \A p \in Producers : pc'[p] # "enqueue"
    BY <1>1, <1>2, <1>3, Names DEF Lock
  <2>3. \A c \in DOMAIN fate : fate[c] # "offered"
    BY <1>1, <1>2, Names DEF Lock, Offered
  <2> QED BY <1>5, <2>1, <2>2, <2>3 DEF Offered
<1>11. Waiting'
  BY <1>1, <1>2, <1>5, PopWaiting DEF b
<1>12. Sending'
  <2>1. \A h \in Drainers : Holds(h)' <=> h = g \/ Holds(h)
    BY <1>2, <1>3 DEF Holds
  <2> QED BY <1>1, <1>2, <1>4, <1>5, <1>7, <2>1, Names DEF Sending
<1>13. Protocol'
  <2>1. CASE g = Worker
    BY <1>1, <1>2, <1>3, <2>1, Names DEF Protocol, Holds, Counting, flags
  <2>2. CASE g = Closer
    BY <1>1, <1>2, <1>3, <2>2, Names DEF Protocol, Holds, Counting, flags
  <2> QED BY <2>1, <2>2, Names
<1>14. Tally'
  <2>1. local[g].count = 0
    BY <1>1, <1>2, <1>6, DrainerLabels DEF Tally, Counting
  <2> QED BY <1>1, <1>3, <1>7, <2>1, Names DEF Tally, Goroutines
<1>15. DepthExact'
  BY <1>2, <1>8 DEF DepthExact
<1>16. DropsCounted'
  <2>1. Alerts(WithFate({"dropped"}))' = Alerts(WithFate({"dropped"}))
    BY <1>1, <1>2, <1>4, DroppedSame DEF Fates
  <2>2. Uncounted' = Uncounted
    BY <1>7, UncountedSame
  <2> QED BY <1>1, <1>2, <2>1, <2>2 DEF DropsCounted
<1> QED BY <1>8, <1>9, <1>10, <1>11, <1>12, <1>13, <1>14, <1>15, <1>16 DEF IndInv

(* The send in hand ends. *)
LEMMA SendDoneIndInv ==
    ASSUME IndInv, NEW g \in Drainers, NEW o \in {"sent", "failed"}, SendDone(g, o)
    PROVE  IndInv'
<1> DEFINE label == IF pc[g] = "send" THEN "drain" ELSE "lastDrain"
           b == local[g].batch
<1>1. /\ TypeOK /\ Lock /\ Offered /\ Waiting /\ Sending /\ Protocol /\ Tally
      /\ CapacityBound /\ DepthExact /\ DropsCounted
  BY DEF IndInv
<1>2. /\ Goto(g, label) /\ label \in {"drain", "lastDrain"} /\ Holds(g) /\ ~Counting(g)
      /\ pc[g] \in {"send", "lastSend"} /\ (label = "lastDrain" <=> pc[g] = "lastSend")
      /\ fate' = [fate EXCEPT ![b] = o] /\ local' = [local EXCEPT ![g].batch = NoBatch]
      /\ UNCHANGED <<mu, items, queued, gauge, flags, work, dropped, size>>
      /\ g = Worker => label \in WorkerLabels
      /\ g = Closer => pc[g] = "lastSend" /\ label \in CloserLabels
  BY <1>1, Names DEF SendDone, Holds, Counting, TypeOK, WorkerLabels, CloserLabels, queueVars
<1> HIDE DEF label
<1>3. /\ pc[Worker] \in WorkerLabels /\ pc[Closer] \in CloserLabels
      /\ pc'[g] = label /\ \A h \in Drainers \ {g} : pc'[h] = pc[h]
      /\ \A p \in Producers : pc'[p] = pc[p]
      /\ pc' \in [Goroutines -> ProducerLabels \cup WorkerLabels \cup CloserLabels]
      /\ \A p \in Producers : pc'[p] \in ProducerLabels
      /\ pc'[Worker] \in WorkerLabels /\ pc'[Closer] \in CloserLabels
  BY <1>2, DrainerMoves
<1>4. b \in DOMAIN fate /\ fate[b] = "sending"
  BY <1>1, <1>2 DEF Sending
<1> HIDE DEF b
<1>5. /\ fate' \in Seq(Fates) /\ Len(fate') = Len(fate) /\ DOMAIN fate' = DOMAIN fate
      /\ fate'[b] = o /\ \A c \in DOMAIN fate \ {b} : fate'[c] = fate[c]
  BY <1>1, <1>2, <1>4, Marked DEF Fates
<1>6. /\ local \in [Goroutines -> [batch : Batches \cup {NoBatch}, count : Int]]
      /\ g \in Goroutines
  BY <1>1, Names DEF TypeOK
<1>7. /\ local' \in [Goroutines -> [batch : Batches \cup {NoBatch}, count : Int]]
      /\ \A h \in Goroutines : local'[h].count = local[h].count
      /\ \A h \in Goroutines \ {g} : local'[h] = local[h]
  BY <1>2, <1>6
<1>8. TypeOK'
  BY <1>1, <1>2, <1>3, <1>5, <1>7 DEF TypeOK, flags
<1>9. Lock' /\ Offered'
  <2>1. Lock'
    BY <1>1, <1>2, <1>3 DEF Lock
  <2>2. \A p \in Producers : pc'[p] = pc[p] /\ local'[p] = local[p]
    BY <1>3, <1>7, Names
  <2>3. \A c \in DOMAIN fate : fate'[c] = "offered" <=> fate[c] = "offered"
    BY <1>4, <1>5
  <2> QED BY <1>1, <1>5, <2>1, <2>2, <2>3 DEF Offered
<1>10. Waiting' /\ CapacityBound'
  BY <1>1, <1>2, <1>4, <1>5 DEF Waiting, InQueue, CapacityBound
(* The other drainer has nothing in hand. *)
<1>11. \A h \in Drainers : h # g => ~Holds(h) /\ ~Counting(h)
  <2>1. CASE g = Worker
    BY <1>1, <1>2, <1>3, <2>1, Names DEF Protocol, Holds, Counting, CloserLabels
  <2>2. CASE g = Closer
    BY <1>1, <1>2, <2>2, Names DEF Protocol, Holds, Counting
  <2> QED BY <2>1, <2>2, Names
<1>12. Sending'
  <2>1. \A h \in Drainers : ~Holds(h)'
    BY <1>2, <1>3, <1>11 DEF Holds
  <2>2. \A c \in DOMAIN fate' : fate'[c] # "sending"
    BY <1>1, <1>4, <1>5, <1>11 DEF Sending, b
  <2> QED BY <2>1, <2>2 DEF Sending
<1>13. Protocol'
  <2>1. CASE g = Worker
    BY <1>1, <1>2, <1>3, <2>1, Names DEF Protocol, Holds, Counting, flags
  <2>2. CASE g = Closer
    BY <1>1, <1>2, <1>3, <2>2, Names DEF Protocol, Holds, Counting, flags
  <2> QED BY <2>1, <2>2, Names
<1>14. Tally'
  <2>1. local[g].count = 0
    BY <1>1, <1>2, <1>6, DrainerLabels DEF Tally, Counting
  <2> QED BY <1>1, <1>3, <1>7, <2>1, Names DEF Tally, Goroutines
<1>15. DepthExact'
  <2>1. Alerts(InQueue)' = Alerts(InQueue)
    BY <1>2 DEF Alerts, InQueue, Total, Units
  <2>2. \A h \in Drainers : Counting(h)' <=> Counting(h)
    BY <1>2, <1>3 DEF Counting
  <2> QED BY <1>1, <1>2, <2>1, <2>2 DEF DepthExact, Counting
<1>16. DropsCounted'
  <2>1. Alerts(WithFate({"dropped"}))' = Alerts(WithFate({"dropped"}))
    BY <1>1, <1>2, <1>4, DroppedSame DEF Fates
  <2>2. Uncounted' = Uncounted
    BY <1>7, UncountedSame
  <2> QED BY <1>1, <1>2, <2>1, <2>2 DEF DropsCounted
<1> QED BY <1>8, <1>9, <1>10, <1>12, <1>13, <1>14, <1>15, <1>16 DEF IndInv

(* abandon empties the queue: what was waiting is dropped, and counted by  *)
(* the drainer.                                                            *)
LEMMA AbandonIndInv ==
    ASSUME IndInv, NEW g \in Drainers, Abandon(g) PROVE IndInv'
<1> DEFINE label == IF queued = 0 THEN AfterDrain(g)
                    ELSE IF pc[g] = "drain" THEN "counting" ELSE "lastCounting"
<1>1. /\ TypeOK /\ Lock /\ Offered /\ Waiting /\ Sending /\ Protocol /\ Tally
      /\ CapacityBound /\ DepthExact /\ DropsCounted
  BY DEF IndInv
<1>2. /\ Goto(g, label) /\ ~Holds(g) /\ ~Counting(g) /\ Draining(g)
      /\ pc[g] \in {"drain", "lastDrain"} /\ cancelled /\ mu = Nobody
      /\ items' = <<>> /\ queued' = 0 /\ local' = [local EXCEPT ![g].count = queued]
      /\ UNCHANGED <<mu, gauge, flags, work, dropped, size>>
      /\ g = Closer => pc[g] = "lastDrain"
  BY <1>1, Names DEF Abandon, Draining, Holds, Counting, TypeOK, WorkerLabels, CloserLabels
<1>3. /\ label \notin {"send", "lastSend"}
      /\ g = Worker => label \in WorkerLabels
      /\ g = Closer => label \in CloserLabels
  BY <1>2, AfterDrainLabel DEF WorkerLabels, CloserLabels
<1>4. /\ pc[Worker] \in WorkerLabels /\ pc[Closer] \in CloserLabels
      /\ pc'[g] = label /\ \A h \in Drainers \ {g} : pc'[h] = pc[h]
      /\ \A p \in Producers : pc'[p] = pc[p]
      /\ pc' \in [Goroutines -> ProducerLabels \cup WorkerLabels \cup CloserLabels]
      /\ \A p \in Producers : pc'[p] \in ProducerLabels
      /\ pc'[Worker] \in WorkerLabels /\ pc'[Closer] \in CloserLabels
  BY <1>2, <1>3, DrainerMoves
<1>5. fate' = [b \in DOMAIN fate |-> IF b \in InQueue THEN "dropped" ELSE fate[b]]
  BY DEF Abandon, InQueue
<1>6. fate' \in Seq(Fates) /\ Len(fate') = Len(fate) /\ DOMAIN fate' = DOMAIN fate
  <2>1. DOMAIN fate = 1..Len(fate) /\ Len(fate) \in Nat /\ \A b \in DOMAIN fate : fate[b] \in Fates
    BY <1>1, Sizing DEF TypeOK
  <2>2. fate' \in [1..Len(fate) -> Fates]
    BY <1>5, <2>1 DEF Fates
  <2> QED BY <2>1, <2>2
<1>7. /\ queued = Total(size, InQueue) /\ queued \in Nat /\ IsFiniteSet(InQueue)
      /\ \A b \in DOMAIN fate : size[b] \in Nat
  BY <1>1, Sizing, UnitsFinite DEF DepthExact, Alerts
<1>8. /\ local \in [Goroutines -> [batch : Batches \cup {NoBatch}, count : Int]]
      /\ g \in Goroutines
  BY <1>1, Names DEF TypeOK
<1>9. /\ local' \in [Goroutines -> [batch : Batches \cup {NoBatch}, count : Int]]
      /\ local'[g].count = queued /\ local'[g].batch = local[g].batch
      /\ \A h \in Goroutines \ {g} : local'[h] = local[h]
  BY <1>2, <1>7, <1>8
<1>10. TypeOK'
  <2>1. items' \in Seq(Batches) /\ queued' \in Int
    BY <1>2
  <2> QED BY <1>1, <1>2, <1>4, <1>6, <1>9, <2>1 DEF TypeOK, flags
<1>11. Lock' /\ Offered'
  <2>1. Lock'
    BY <1>1, <1>2, <1>4 DEF Lock
  <2>2. \A p \in Producers : pc'[p] # "enqueue"
    BY <1>1, <1>2, <1>4, Names DEF Lock
  <2>3. \A c \in DOMAIN fate' : fate'[c] # "offered"
    BY <1>1, <1>2, <1>5, Names DEF Lock, Offered
  <2> QED BY <2>1, <2>2, <2>3 DEF Offered
<1>12. Waiting'
  BY <1>1, <1>2, <1>5 DEF Waiting, InQueue
<1>13. Sending'
  <2>1. \A h \in Drainers : Holds(h)' <=> Holds(h)
    BY <1>2, <1>3, <1>4 DEF Holds
  <2>2. \A h \in Drainers : Holds(h) => h # g
    BY <1>2
  <2>3. \A c \in InQueue : c \in DOMAIN fate /\ fate[c] = "queued"
    BY <1>1 DEF Waiting, InQueue
  <2>4. \A c \in DOMAIN fate' : fate'[c] = "sending" <=> fate[c] = "sending"
    BY <1>5, <2>3
  <2>5. \A h \in Drainers : local'[h].batch = local[h].batch
    BY <1>9, Names
  <2> QED BY <1>1, <1>6, <2>1, <2>4, <2>5 DEF Sending
<1>14. Protocol'
  <2>1. CASE queued = 0
    BY <1>2, <2>1, DrainedProtocol
  <2>2. CASE queued # 0
    <3>1. items # <<>>
      <4>1. items = <<>> => InQueue = {}
        BY DEF InQueue
      <4> QED BY <1>7, <2>2, <4>1, TotalEmpty
    <3>2. label \in {"counting", "lastCounting"} /\ (label = "counting" <=> pc[g] = "drain")
      BY <2>2
    <3>3. CASE g = Worker
      BY <1>1, <1>2, <1>4, <3>1, <3>2, <3>3, Names DEF Protocol, Holds, Counting, flags
    <3>4. CASE g = Closer
      BY <1>1, <1>2, <1>4, <3>1, <3>2, <3>4, Names DEF Protocol, Holds, Counting, flags
    <3> QED BY <3>3, <3>4, Names
  <2> QED BY <2>1, <2>2
<1>15. local[g].count = 0
  BY <1>1, <1>2, <1>8, DrainerLabels DEF Tally, Counting
<1>16. Tally'
  <2>1. pc'[g] \in {"counting", "lastCounting"} \/ queued = 0
    BY <1>4
  <2> QED BY <1>1, <1>4, <1>7, <1>9, <2>1, Names DEF Tally, Goroutines
<1>17. CapacityBound'
  BY <1>2, CapacityAssumption DEF CapacityBound
<1>18. DepthExact'
  <2>1. Alerts(InQueue)' = 0
    <3>1. InQueue' = {}
      BY <1>2 DEF InQueue
    <3>2. Alerts(InQueue)' = Total(size', InQueue')
      BY DEF Alerts, Total, Units
    <3> QED BY <3>1, <3>2, TotalEmpty
  <2>2. ASSUME mu' = Nobody, \A h \in Drainers : ~Counting(h)' PROVE gauge' = 0
    <3>1. queued = 0
      BY <1>4, <2>2 DEF Counting
    <3>2. \A h \in Drainers : ~Counting(h)
      BY <1>2, <1>4, <2>2 DEF Counting
    <3> QED BY <1>1, <1>2, <3>1, <3>2 DEF DepthExact, Counting
  <2> QED BY <1>2, <2>1, <2>2 DEF DepthExact, Counting
<1>19. DropsCounted'
  <2> DEFINE old == WithFate({"dropped"})
  <2>1. \A c \in InQueue : c \in DOMAIN fate /\ fate[c] = "queued"
    BY <1>1 DEF Waiting, InQueue
  <2>2. WithFate({"dropped"})' = old \cup InQueue /\ old \cap InQueue = {}
    BY <1>5, <2>1 DEF WithFate
  <2>3. IsFiniteSet(old) /\ old \subseteq DOMAIN fate
    BY <1>1, Sizing
  <2>4. Total(size, old \cup InQueue) = Total(size, old) + Total(size, InQueue)
    BY <1>7, <2>1, <2>2, <2>3, TotalUnion
  <2>5. Total(size, old) \in Nat
    BY <1>7, <2>3, UnitsFinite
  <2>6. Alerts(WithFate({"dropped"}))' = Total(size, old \cup InQueue)
    <3>1. Alerts(WithFate({"dropped"}))' = Total(size', WithFate({"dropped"})')
      BY DEF Alerts, Total, Units
    <3> QED BY <1>2, <2>2, <3>1
  <2>7. Alerts(WithFate({"dropped"})) = Total(size, old)
    BY DEF Alerts
  <2>8. Uncounted' = Uncounted - 0 + queued /\ Uncounted \in Nat
    BY <1>1, <1>7, <1>8, <1>9, <1>15, UncountedChange
  <2>9. dropped' = dropped /\ dropped \in Int /\ dropped + Uncounted = Total(size, old)
    BY <1>1, <1>2, <2>7 DEF TypeOK, DropsCounted
  <2> HIDE DEF old
  <2>10. dropped' + Uncounted' = Alerts(WithFate({"dropped"}))'
    BY <1>7, <2>4, <2>5, <2>6, <2>8, <2>9
  <2> QED BY <2>10 DEF DropsCounted
<1> QED BY <1>10, <1>11, <1>12, <1>13, <1>14, <1>16, <1>17, <1>18, <1>19 DEF IndInv

(* abandon counts what it dropped. *)
LEMMA AbandonCountIndInv ==
    ASSUME IndInv, NEW g \in Drainers, AbandonCount(g) PROVE IndInv'
<1> DEFINE label == AfterDrain(g)
<1>1. /\ TypeOK /\ Lock /\ Offered /\ Waiting /\ Sending /\ Protocol /\ Tally
      /\ CapacityBound /\ DepthExact /\ DropsCounted
  BY DEF IndInv
<1>2. /\ Goto(g, label) /\ ~Holds(g) /\ Counting(g) /\ gauge' = 0
      /\ dropped' = dropped + local[g].count /\ local' = [local EXCEPT ![g].count = 0]
      /\ UNCHANGED <<mu, items, queued, flags, work, size, fate>>
  BY DEF AbandonCount, Holds, Counting
<1>3. /\ label \notin {"send", "lastSend", "counting", "lastCounting"}
      /\ g = Worker => label \in WorkerLabels
      /\ g = Closer => label \in CloserLabels
  BY <1>2, AfterDrainLabel
<1>4. /\ pc[Worker] \in WorkerLabels /\ pc[Closer] \in CloserLabels
      /\ pc'[g] = label /\ \A h \in Drainers \ {g} : pc'[h] = pc[h]
      /\ \A p \in Producers : pc'[p] = pc[p]
      /\ pc' \in [Goroutines -> ProducerLabels \cup WorkerLabels \cup CloserLabels]
      /\ \A p \in Producers : pc'[p] \in ProducerLabels
      /\ pc'[Worker] \in WorkerLabels /\ pc'[Closer] \in CloserLabels
  BY <1>2, <1>3, DrainerMoves
<1>5. items = <<>> /\ queued = 0
  <2>1. items = <<>>
    BY <1>1, <1>2, Names DEF Protocol
  <2>2. InQueue = {}
    BY <2>1 DEF InQueue
  <2> QED BY <1>1, <2>1, <2>2, TotalEmpty DEF DepthExact, Alerts
<1>6. /\ local \in [Goroutines -> [batch : Batches \cup {NoBatch}, count : Int]]
      /\ g \in Goroutines /\ local[g].count \in Nat
  BY <1>1, Names DEF TypeOK, Tally
<1>7. /\ local' \in [Goroutines -> [batch : Batches \cup {NoBatch}, count : Int]]
      /\ local'[g].count = 0 /\ local'[g].batch = local[g].batch
      /\ \A h \in Goroutines \ {g} : local'[h] = local[h]
  BY <1>2, <1>6
<1>8. TypeOK'
  <2>1. gauge' \in Int /\ dropped' \in Int
    BY <1>1, <1>2, <1>6 DEF TypeOK
  <2> QED BY <1>1, <1>2, <1>4, <1>7, <2>1 DEF TypeOK, flags
<1>9. Lock' /\ Offered' /\ Waiting'
  <2>1. \A p \in Producers : pc'[p] = pc[p] /\ local'[p] = local[p]
    BY <1>4, <1>7, Names
  <2>2. Lock' /\ Offered'
    BY <1>1, <1>2, <2>1 DEF Lock, Offered
  <2> QED BY <1>1, <1>2, <2>2 DEF Waiting, InQueue
<1>10. Sending'
  <2>1. \A h \in Drainers : (Holds(h)' <=> Holds(h)) /\ local'[h].batch = local[h].batch
    BY <1>2, <1>3, <1>4, <1>7, Names DEF Holds
  <2> QED BY <1>1, <1>2, <2>1 DEF Sending
<1>11. Protocol'
  BY <1>2, <1>5, DrainedProtocol
<1>12. Tally'
  BY <1>1, <1>4, <1>7, Names DEF Tally, Goroutines
<1>13. CapacityBound'
  BY <1>1, <1>2 DEF CapacityBound
<1>14. DepthExact'
  <2>1. Alerts(InQueue)' = Alerts(InQueue)
    BY <1>2 DEF Alerts, InQueue, Total, Units
  <2> QED BY <1>1, <1>2, <1>5, <2>1 DEF DepthExact
<1>15. DropsCounted'
  <2>1. Alerts(WithFate({"dropped"}))' = Alerts(WithFate({"dropped"}))
    BY <1>2 DEF Alerts, WithFate, Total, Units
  <2>2. Uncounted' = Uncounted - local[g].count + 0 /\ Uncounted \in Nat
    BY <1>1, <1>6, <1>7, UncountedChange
  <2>3. dropped \in Int
    BY <1>1 DEF TypeOK
  <2>4. dropped' + Uncounted' = dropped + Uncounted
    BY <1>2, <1>6, <2>2, <2>3
  <2> QED BY <1>1, <2>1, <2>4 DEF DropsCounted
<1> QED BY <1>8, <1>9, <1>10, <1>11, <1>12, <1>13, <1>14, <1>15 DEF IndInv

-----------------------------------------------------------------------------
(* A producer's steps. *)

(* A producer moves: the drainers do not. *)
LEMMA ProducerMoves ==
    ASSUME IndInv, NEW p \in Producers, NEW label \in ProducerLabels, Goto(p, label)
    PROVE  /\ pc'[p] = label /\ \A q \in Producers \ {p} : pc'[q] = pc[q]
           /\ \A g \in Drainers : /\ pc'[g] = pc[g]
                                  /\ Holds(g)' <=> Holds(g)
                                  /\ Counting(g)' <=> Counting(g)
           /\ pc' \in [Goroutines -> ProducerLabels \cup WorkerLabels \cup CloserLabels]
           /\ \A q \in Producers : pc'[q] \in ProducerLabels
           /\ pc'[Worker] \in WorkerLabels /\ pc'[Closer] \in CloserLabels
<1>1. /\ TypeOK /\ p \in Goroutines /\ p # Worker /\ p # Closer
      /\ label \in ProducerLabels \cup WorkerLabels \cup CloserLabels
  BY Names DEF IndInv
<1>2. /\ pc'[p] = label /\ \A h \in Goroutines \ {p} : pc'[h] = pc[h]
      /\ pc' \in [Goroutines -> ProducerLabels \cup WorkerLabels \cup CloserLabels]
      /\ \A q \in Producers : pc'[q] \in ProducerLabels
      /\ pc'[Worker] \in WorkerLabels /\ pc'[Closer] \in CloserLabels
  BY <1>1, Moves
<1>3. \A g \in Drainers : pc'[g] = pc[g]
  BY <1>2, Names
<1> QED BY <1>2, <1>3, Names DEF Holds, Counting

(* It does not disturb a shutdown, because it adds nothing once the queue  *)
(* is closed.                                                              *)
LEMMA ProducerProtocol ==
    ASSUME Protocol, \A g \in Drainers : pc'[g] = pc[g],
           UNCHANGED flags, closed => mu' = Nobody, closed => items' = items
    PROVE  Protocol'
<1>1. pc'[Worker] = pc[Worker] /\ pc'[Closer] = pc[Closer]
  BY Names
<1> QED BY <1>1 DEF Protocol, flags, Holds, Counting

(* Steps of a producer that leave the queue and the fates alone. *)
LEMMA ProducerCounts ==
    ASSUME IndInv, NEW p \in Producers, NEW label \in {"idle", "signal"}, Goto(p, label),
           pc[p] # "enqueue",
           UNCHANGED <<mu, items, queued, gauge, closed, started, stop, cancelled, size, fate>>,
           work' \in BOOLEAN, dropped' = dropped + local[p].count,
           local' \in [Goroutines -> [batch : Batches \cup {NoBatch}, count : Int]],
           local'[p].count = 0, \A h \in Goroutines \ {p} : local'[h] = local[h]
    PROVE  IndInv'
<1>1. /\ TypeOK /\ Lock /\ Offered /\ Waiting /\ Sending /\ Protocol /\ Tally
      /\ CapacityBound /\ DepthExact /\ DropsCounted /\ label \in ProducerLabels
      /\ UNCHANGED flags
  BY DEF IndInv, ProducerLabels, flags
<1>2. /\ pc'[p] = label /\ \A q \in Producers \ {p} : pc'[q] = pc[q]
      /\ \A g \in Drainers : /\ pc'[g] = pc[g]
                             /\ Holds(g)' <=> Holds(g)
                             /\ Counting(g)' <=> Counting(g)
      /\ pc' \in [Goroutines -> ProducerLabels \cup WorkerLabels \cup CloserLabels]
      /\ \A q \in Producers : pc'[q] \in ProducerLabels
      /\ pc'[Worker] \in WorkerLabels /\ pc'[Closer] \in CloserLabels
  BY <1>1, ProducerMoves
<1>3. /\ local \in [Goroutines -> [batch : Batches \cup {NoBatch}, count : Int]]
      /\ p \in Goroutines /\ local[p].count \in Nat /\ dropped \in Int
  BY <1>1, Names DEF TypeOK, Tally
<1>4. TypeOK'
  <2>1. dropped' \in Int
    BY <1>3
  <2> QED BY <1>1, <1>2, <2>1 DEF TypeOK
<1>6. Lock' /\ Offered' /\ Waiting'
  <2>1. Lock'
    BY <1>1, <1>2 DEF Lock
  <2>2. \A q \in Producers : (pc'[q] = "enqueue" <=> pc[q] = "enqueue")
                             /\ (pc[q] = "enqueue" => local'[q] = local[q])
    BY <1>2, Names
  <2>3. Offered'
    BY <1>1, <2>2 DEF Offered
  <2> QED BY <1>1, <2>1, <2>3 DEF Waiting, InQueue
<1>7. Sending'
  <2>1. \A h \in Drainers : local'[h] = local[h]
    BY Names
  <2> QED BY <1>1, <1>2, <2>1 DEF Sending
<1>8. Protocol'
  BY <1>1, <1>2, ProducerProtocol DEF Protocol
<1>9. Tally'
  BY <1>1, <1>2, Names DEF Tally, Goroutines
<1>10. CapacityBound'
  BY <1>1 DEF CapacityBound
<1>11. DepthExact'
  <2>1. Alerts(InQueue)' = Alerts(InQueue)
    BY DEF Alerts, InQueue, Total, Units
  <2> QED BY <1>1, <1>2, <2>1 DEF DepthExact, Counting
<1>12. DropsCounted'
  <2>1. Alerts(WithFate({"dropped"}))' = Alerts(WithFate({"dropped"}))
    BY DEF Alerts, WithFate, Total, Units
  <2>2. Uncounted' = Uncounted - local[p].count + 0 /\ Uncounted \in Nat
    BY <1>1, <1>3, UncountedChange
  <2>3. dropped' + Uncounted' = dropped + Uncounted
    BY <1>3, <2>2
  <2> QED BY <1>1, <2>1, <2>3 DEF DropsCounted
<1> QED BY <1>4, <1>6, <1>7, <1>8, <1>9, <1>10, <1>11, <1>12 DEF IndInv

LEMMA EnqueueCountIndInv == ASSUME IndInv, NEW p \in Producers, EnqueueCount(p) PROVE IndInv'
<1>1. /\ local \in [Goroutines -> [batch : Batches \cup {NoBatch}, count : Int]]
      /\ p \in Goroutines /\ work' \in BOOLEAN
  BY Names DEF IndInv, TypeOK, EnqueueCount
<1>2. /\ local' \in [Goroutines -> [batch : Batches \cup {NoBatch}, count : Int]]
      /\ local'[p].count = 0 /\ \A h \in Goroutines \ {p} : local'[h] = local[h]
  BY <1>1 DEF EnqueueCount
<1> QED BY <1>1, <1>2, ProducerCounts DEF EnqueueCount, queueVars, flags

LEMMA EnqueueClosedIndInv == ASSUME IndInv, NEW p \in Producers, EnqueueClosed(p) PROVE IndInv'
<1>1. /\ local \in [Goroutines -> [batch : Batches \cup {NoBatch}, count : Int]]
      /\ p \in Goroutines /\ work' \in BOOLEAN
  BY Names DEF IndInv, TypeOK, EnqueueClosed
<1>2. /\ local' \in [Goroutines -> [batch : Batches \cup {NoBatch}, count : Int]]
      /\ local'[p].count = 0 /\ \A h \in Goroutines \ {p} : local'[h] = local[h]
  BY <1>1 DEF EnqueueClosed
<1> QED BY <1>1, <1>2, ProducerCounts DEF EnqueueClosed, queueVars, flags

LEMMA EnqueueSignalIndInv == ASSUME IndInv, NEW p \in Producers, EnqueueSignal(p) PROVE IndInv'
<1>1. /\ local \in [Goroutines -> [batch : Batches \cup {NoBatch}, count : Int]]
      /\ p \in Goroutines /\ pc[p] = "signal" /\ dropped \in Int
  BY Names DEF IndInv, TypeOK, EnqueueSignal
<1>2. local[p].count = 0
  BY <1>1 DEF IndInv, Tally
<1>3. /\ local' \in [Goroutines -> [batch : Batches \cup {NoBatch}, count : Int]]
      /\ local'[p].count = 0 /\ \A h \in Goroutines \ {p} : local'[h] = local[h]
  BY <1>1, <1>2 DEF EnqueueSignal
<1>4. dropped' = dropped + local[p].count
  BY <1>1, <1>2 DEF EnqueueSignal
<1>5. work' \in BOOLEAN
  BY Zenon DEF EnqueueSignal
<1> QED BY <1>1, <1>3, <1>4, <1>5, ProducerCounts DEF EnqueueSignal, queueVars, flags

(* One turn of the loop that makes room: the oldest batch is dropped, and  *)
(* the producer has it to count.                                           *)
LEMMA EnqueueDropOldestIndInv ==
    ASSUME IndInv, NEW p \in Producers, EnqueueDropOldest(p) PROVE IndInv'
<1> DEFINE b == Head(items)
<1>1. /\ TypeOK /\ Lock /\ Offered /\ Waiting /\ Sending /\ Protocol /\ Tally
      /\ CapacityBound /\ DepthExact /\ DropsCounted
  BY DEF IndInv
<1>2. /\ pc[p] = "enqueue" /\ items # <<>> /\ items' = Tail(items)
      /\ queued' = queued - size[b] /\ local' = [local EXCEPT ![p].count = @ + size[b]]
      /\ fate' = [fate EXCEPT ![b] = "dropped"]
      /\ UNCHANGED <<mu, gauge, flags, work, dropped, pc, size>>
  BY DEF EnqueueDropOldest, MustDrop
<1>3. mu = p /\ mu' = p /\ p # Nobody /\ ~closed /\ p \in Goroutines
  BY <1>1, <1>2, Names DEF Lock, Protocol
<1>4. /\ b \in DOMAIN fate /\ fate[b] = "queued" /\ b \in Batches /\ size[b] \in Nat
      /\ items' \in Seq(Batches)
  BY <1>1, <1>2, Pop, Sizing
<1>5. queued' = Alerts(InQueue)' /\ queued' \in Int /\ CapacityBound'
  BY <1>2, PopDepth
<1>6. /\ fate' \in Seq(Fates) /\ Len(fate') = Len(fate) /\ DOMAIN fate' = DOMAIN fate
      /\ fate'[b] = "dropped" /\ \A c \in DOMAIN fate \ {b} : fate'[c] = fate[c]
  BY <1>1, <1>2, <1>4, Marked DEF Fates
<1>7. Waiting'
  BY <1>1, <1>2, <1>6, PopWaiting
<1>8. /\ Alerts(WithFate({"dropped"}))' = Alerts(WithFate({"dropped"})) + size[b]
      /\ Alerts(WithFate({"dropped"})) \in Nat
  BY <1>1, <1>2, <1>4, DroppedMore
<1> HIDE DEF b
<1>9. /\ local \in [Goroutines -> [batch : Batches \cup {NoBatch}, count : Int]]
      /\ local[p].count \in Nat
  BY <1>1, <1>3 DEF TypeOK, Tally
<1>10. /\ local' \in [Goroutines -> [batch : Batches \cup {NoBatch}, count : Int]]
       /\ local'[p].count = local[p].count + size[b] /\ local'[p].batch = local[p].batch
       /\ \A h \in Goroutines \ {p} : local'[h] = local[h]
  <2>1. PICK n \in Int : n = local[p].count + size[b]
    BY <1>4, <1>9
  <2>2. local' = [local EXCEPT ![p].count = n]
    BY <1>2, <2>1
  <2> QED BY <1>3, <1>9, <2>1, <2>2
<1>11. TypeOK'
  BY <1>1, <1>2, <1>4, <1>5, <1>6, <1>10 DEF TypeOK, flags
<1>12. Lock'
  BY <1>1, <1>2 DEF Lock
<1>13. Offered'
  <2>1. \A q \in Producers : local'[q].batch = local[q].batch
    BY <1>10, Names
  <2>2. \A c \in DOMAIN fate : fate'[c] = "offered" <=> fate[c] = "offered"
    BY <1>4, <1>6
  <2> QED BY <1>1, <1>2, <1>6, <2>1, <2>2 DEF Offered
<1>14. Sending'
  <2>1. \A g \in Drainers : (Holds(g)' <=> Holds(g)) /\ local'[g] = local[g]
    BY <1>2, <1>10, Names DEF Holds
  <2>2. \A c \in DOMAIN fate : fate'[c] = "sending" <=> fate[c] = "sending"
    BY <1>4, <1>6
  <2> QED BY <1>1, <1>6, <2>1, <2>2 DEF Sending
<1>15. Protocol'
  BY <1>1, <1>2, <1>3, ProducerProtocol
<1>16. Tally'
  BY <1>1, <1>2, <1>4, <1>9, <1>10 DEF Tally
<1>17. DepthExact'
  BY <1>3, <1>5 DEF DepthExact
<1>18. DropsCounted'
  <2>1. local'[p].count \in Nat
    BY <1>4, <1>9, <1>10
  <2>2. Uncounted' = Uncounted - local[p].count + local'[p].count /\ Uncounted \in Nat
    BY <1>1, <1>3, <1>10, <2>1, UncountedChange
  <2>3. dropped \in Int /\ dropped' = dropped
    BY <1>1, <1>2 DEF TypeOK
  <2>4. dropped' + Uncounted' = dropped + Uncounted + size[b]
    BY <1>4, <1>9, <1>10, <2>2, <2>3
  <2> QED BY <1>1, <1>8, <2>4 DEF DropsCounted
<1> QED BY <1>5, <1>7, <1>11, <1>12, <1>13, <1>14, <1>15, <1>16, <1>17, <1>18 DEF IndInv

(* Putting a batch at the end of q.items adds it to InQueue. *)
LEMMA Push ==
    ASSUME TypeOK, Waiting, NEW b \in Batches, b \notin InQueue, items' = Append(items, b)
    PROVE  /\ items' \in Seq(Batches) /\ Len(items') = Len(items) + 1
           /\ InQueue' = InQueue \cup {b}
           /\ \A i, j \in DOMAIN items' : items'[i] = items'[j] => i = j
<1>1. items \in Seq(Batches)
  BY DEF TypeOK
<1>2. /\ items' \in Seq(Batches) /\ Len(items') = Len(items) + 1
      /\ \A i \in 1..Len(items) : items'[i] = items[i]
      /\ items'[Len(items) + 1] = b
  BY <1>1, AppendProperties
<1>3. /\ DOMAIN items = 1..Len(items) /\ DOMAIN items' = 1..Len(items')
      /\ Len(items) \in Nat
  BY <1>1, <1>2, LenProperties
<1>4. /\ \A i \in DOMAIN items' : i \in DOMAIN items \/ i = Len(items) + 1
      /\ \A i \in DOMAIN items : i \in DOMAIN items'
      /\ Len(items) + 1 \in DOMAIN items'
  BY <1>2, <1>3
<1>5. InQueue' = InQueue \cup {b}
  BY <1>2, <1>3, <1>4 DEF InQueue
<1>6. \A i \in DOMAIN items : items[i] # b /\ items'[i] = items[i]
  BY <1>2, <1>3 DEF InQueue
<1>7. \A i, j \in DOMAIN items' : items'[i] = items'[j] => i = j
  BY <1>2, <1>4, <1>6 DEF Waiting
<1> QED BY <1>2, <1>5, <1>7

(* The batch is appended and the lock released. *)
LEMMA EnqueueAppendIndInv ==
    ASSUME IndInv, NEW p \in Producers, EnqueueAppend(p) PROVE IndInv'
<1> DEFINE b == local[p].batch
<1>1. /\ TypeOK /\ Lock /\ Offered /\ Waiting /\ Sending /\ Protocol /\ Tally
      /\ CapacityBound /\ DepthExact /\ DropsCounted
  BY DEF IndInv
<1>2. /\ pc[p] = "enqueue" /\ (items = <<>> \/ ~(queued + size[b] > Capacity))
      /\ items' = Append(items, b) /\ queued' = queued + size[b] /\ gauge' = queued'
      /\ mu' = Nobody /\ fate' = [fate EXCEPT ![b] = "queued"] /\ Goto(p, "count")
      /\ UNCHANGED <<flags, work, dropped, local, size>>
  BY DEF EnqueueAppend, MustDrop
<1>3. mu = p /\ p # Nobody /\ ~closed /\ p \in Goroutines
  BY <1>1, <1>2, Names DEF Lock, Protocol
<1>4. /\ b \in DOMAIN fate /\ fate[b] = "offered"
  BY <1>1, <1>2 DEF Offered
<1>5. /\ b \in Batches /\ size[b] \in Nat \ {0} /\ b \notin InQueue
      /\ IsFiniteSet(InQueue) /\ \A c \in InQueue : size[c] \in Nat
  BY <1>1, <1>4, Sizing DEF Waiting, InQueue
<1>6. /\ pc'[p] = "count" /\ \A q \in Producers \ {p} : pc'[q] = pc[q]
      /\ \A g \in Drainers : /\ pc'[g] = pc[g]
                             /\ Holds(g)' <=> Holds(g)
                             /\ Counting(g)' <=> Counting(g)
      /\ pc' \in [Goroutines -> ProducerLabels \cup WorkerLabels \cup CloserLabels]
      /\ \A q \in Producers : pc'[q] \in ProducerLabels
      /\ pc'[Worker] \in WorkerLabels /\ pc'[Closer] \in CloserLabels
  BY <1>2, ProducerMoves DEF ProducerLabels
<1>7. /\ items' \in Seq(Batches) /\ Len(items') = Len(items) + 1
      /\ InQueue' = InQueue \cup {b}
      /\ \A i, j \in DOMAIN items' : items'[i] = items'[j] => i = j
  BY <1>1, <1>2, <1>5, Push
<1>8. /\ fate' \in Seq(Fates) /\ Len(fate') = Len(fate) /\ DOMAIN fate' = DOMAIN fate
      /\ fate'[b] = "queued" /\ \A c \in DOMAIN fate \ {b} : fate'[c] = fate[c]
  BY <1>1, <1>2, <1>4, Marked DEF Fates
<1>9. Alerts(WithFate({"dropped"}))' = Alerts(WithFate({"dropped"}))
  BY <1>1, <1>2, <1>4, DroppedSame DEF Fates
<1>10. /\ Total(size, InQueue \cup {b}) = Total(size, InQueue) + size[b]
       /\ Total(size, InQueue) \in Nat /\ queued = Total(size, InQueue)
  BY <1>1, <1>5, TotalAdd, UnitsFinite DEF DepthExact, Alerts
<1>11. queued' = Alerts(InQueue)' /\ queued' \in Nat
  <2>1. Alerts(InQueue)' = Total(size', InQueue')
    BY DEF Alerts, Total, Units
  <2>2. Alerts(InQueue)' = Total(size, InQueue \cup {b})
    BY <1>2, <1>7, <2>1
  <2> QED BY <1>2, <1>5, <1>10, <2>2
<1>12. CapacityBound'
  <2>1. CASE items = <<>>
    <3>1. Len(items') = 1
      BY <1>7, <2>1
    <3> QED BY <3>1 DEF CapacityBound
  <2>2. CASE ~(queued + size[b] > Capacity)
    <3>1. ~(queued' > Capacity)
      BY <1>2, <2>2
    <3> QED BY <3>1 DEF CapacityBound
  <2> QED BY <1>2, <2>1, <2>2
<1> HIDE DEF b
<1>13. TypeOK'
  <2>1. queued' \in Int /\ gauge' \in Int
    BY <1>2, <1>11
  <2> QED BY <1>1, <1>2, <1>6, <1>7, <1>8, <2>1 DEF TypeOK, flags
<1>14. Lock' /\ Offered'
  <2>1. \A q \in Producers : pc'[q] # "enqueue"
    BY <1>1, <1>3, <1>6 DEF Lock
  <2>2. Lock'
    BY <1>2, <2>1, Names DEF Lock
  <2>3. \A c \in DOMAIN fate' : fate'[c] # "offered"
    BY <1>1, <1>3, <1>8 DEF Offered, Lock, b
  <2> QED BY <2>1, <2>2, <2>3 DEF Offered
<1>15. Waiting'
  <2>1. \A i \in DOMAIN items' : items'[i] \in InQueue'
    BY DEF InQueue
  <2>a. \A c \in InQueue : c \in DOMAIN fate /\ fate[c] = "queued"
    BY <1>1 DEF Waiting, InQueue
  <2>2. \A c \in InQueue' : c \in DOMAIN fate' /\ fate'[c] = "queued"
    BY <1>4, <1>7, <1>8, <2>a
  <2>3. \A c \in DOMAIN fate' : fate'[c] = "queued" => c \in InQueue'
    BY <1>1, <1>7, <1>8 DEF Waiting
  <2> QED BY <1>7, <2>1, <2>2, <2>3 DEF Waiting
<1>16. Sending'
  <2>1. \A c \in DOMAIN fate : fate'[c] = "sending" <=> fate[c] = "sending"
    BY <1>4, <1>8
  <2> QED BY <1>1, <1>2, <1>6, <1>8, <2>1 DEF Sending
<1>17. Protocol'
  BY <1>1, <1>2, <1>3, <1>6, ProducerProtocol
<1>18. Tally'
  BY <1>1, <1>2, <1>6, Names DEF Tally, Goroutines
<1>19. DepthExact'
  BY <1>2, <1>11 DEF DepthExact
<1>20. DropsCounted'
  <2>1. Uncounted' = Uncounted
    BY <1>2, UncountedSame
  <2> QED BY <1>1, <1>2, <1>9, <2>1 DEF DropsCounted
<1> QED BY <1>12, <1>13, <1>14, <1>15, <1>16, <1>17, <1>18, <1>19, <1>20 DEF IndInv

(* A new batch gets the next number: the sizes and the fates of the others *)
(* stay.                                                                   *)
LEMMA NewBatch ==
    ASSUME TypeOK, Waiting, NEW n \in Sizes, NEW o \in Fates, Len(size) < MaxBatches,
           size' = Append(size, n), fate' = Append(fate, o), NEW new, new = Len(size) + 1
    PROVE  /\ size' \in Seq(Sizes) /\ Len(size') <= MaxBatches
           /\ fate' \in Seq(Fates) /\ Len(fate') = Len(size')
           /\ new \in Batches /\ new \notin DOMAIN fate /\ DOMAIN fate' = DOMAIN fate \cup {new}
           /\ fate'[new] = o /\ \A c \in DOMAIN fate : fate'[c] = fate[c]
           /\ size'[new] = n /\ \A c \in DOMAIN fate : size'[c] = size[c]
<1>1. size \in Seq(Sizes) /\ fate \in Seq(Fates) /\ Len(fate) = Len(size) /\ Len(size) \in Nat
  BY Sizing DEF TypeOK
<1>2. /\ size' \in Seq(Sizes) /\ Len(size') = Len(size) + 1
      /\ \A c \in 1..Len(size) : size'[c] = size[c]
      /\ size'[Len(size) + 1] = n
  BY <1>1, AppendProperties
<1>3. /\ fate' \in Seq(Fates) /\ Len(fate') = Len(fate) + 1
      /\ \A c \in 1..Len(fate) : fate'[c] = fate[c]
      /\ fate'[Len(fate) + 1] = o
  BY <1>1, AppendProperties
<1>4. DOMAIN fate = 1..Len(size) /\ DOMAIN fate' = 1..Len(fate')
  BY <1>1, <1>3, LenProperties
<1>5. new \in Batches /\ new \notin DOMAIN fate /\ DOMAIN fate' = DOMAIN fate \cup {new}
  BY <1>1, <1>3, <1>4, MaxBatchesAssumption DEF Batches
<1> QED BY <1>1, <1>2, <1>3, <1>4, <1>5, MaxBatchesAssumption

(* Enqueue takes the lock, or is refused because the queue is closed. *)
LEMMA EnqueueLockIndInv ==
    ASSUME IndInv, NEW p \in Producers, NEW n \in Sizes, EnqueueLock(p, n) PROVE IndInv'
<1> DEFINE new == Len(size) + 1
           o == IF closed THEN "dropped" ELSE "offered"
           label == IF closed THEN "closedDrop" ELSE "enqueue"
           k == IF closed THEN n ELSE 0
<1>1. /\ TypeOK /\ Lock /\ Offered /\ Waiting /\ Sending /\ Protocol /\ Tally
      /\ CapacityBound /\ DepthExact /\ DropsCounted
  BY DEF IndInv
<1>2. /\ pc[p] = "idle" /\ mu = Nobody /\ Len(size) < MaxBatches /\ size' = Append(size, n)
      /\ fate' = Append(fate, o) /\ local' = [local EXCEPT ![p] = [batch |-> new, count |-> k]]
      /\ Goto(p, label) /\ mu' = IF closed THEN Nobody ELSE p
      /\ UNCHANGED <<items, queued, gauge, flags, work, dropped>>
  BY DEF EnqueueLock, queueVars
<1>3. /\ o \in Fates /\ label \in ProducerLabels /\ p \in Goroutines /\ p # Nobody
      /\ n \in Nat /\ k \in Nat /\ (o = "dropped" <=> closed) /\ o \notin {"queued", "sending"}
      /\ (o = "offered" <=> ~closed) /\ (label = "enqueue" <=> ~closed)
      /\ label \in {"enqueue", "closedDrop"} /\ (closed => k = n) /\ (~closed => k = 0)
  BY SizesAssumption, Names DEF Fates, ProducerLabels
<1>4. /\ size' \in Seq(Sizes) /\ Len(size') <= MaxBatches
      /\ fate' \in Seq(Fates) /\ Len(fate') = Len(size')
      /\ new \in Batches /\ new \notin DOMAIN fate /\ DOMAIN fate' = DOMAIN fate \cup {new}
      /\ fate'[new] = o /\ \A c \in DOMAIN fate : fate'[c] = fate[c]
      /\ size'[new] = n /\ \A c \in DOMAIN fate : size'[c] = size[c]
  BY <1>1, <1>2, <1>3, NewBatch
<1> HIDE DEF new, o, label, k
<1>5. /\ pc'[p] = label /\ \A q \in Producers \ {p} : pc'[q] = pc[q]
      /\ \A g \in Drainers : /\ pc'[g] = pc[g]
                             /\ Holds(g)' <=> Holds(g)
                             /\ Counting(g)' <=> Counting(g)
      /\ pc' \in [Goroutines -> ProducerLabels \cup WorkerLabels \cup CloserLabels]
      /\ \A q \in Producers : pc'[q] \in ProducerLabels
      /\ pc'[Worker] \in WorkerLabels /\ pc'[Closer] \in CloserLabels
  BY <1>2, <1>3, ProducerMoves
<1>6. /\ local \in [Goroutines -> [batch : Batches \cup {NoBatch}, count : Int]]
      /\ local[p].count = 0
  BY <1>1, <1>2, <1>3 DEF TypeOK, Tally
<1>7. /\ local' \in [Goroutines -> [batch : Batches \cup {NoBatch}, count : Int]]
      /\ local'[p].count = k /\ local'[p].batch = new
      /\ \A h \in Goroutines \ {p} : local'[h] = local[h]
  BY <1>2, <1>3, <1>4, <1>6
<1>8. TypeOK'
  <2>1. mu' \in Producers \cup {Nobody}
    BY <1>2
  <2> QED BY <1>1, <1>2, <1>4, <1>5, <1>7, <2>1 DEF TypeOK, flags
<1>9. \A q \in Producers : pc[q] # "enqueue"
  BY <1>1, <1>2, Names DEF Lock
<1>10. Lock'
  BY <1>2, <1>3, <1>5, <1>9, Names DEF Lock
<1>11. Offered'
  <2>1. \A c \in DOMAIN fate : fate[c] # "offered"
    BY <1>1, <1>9 DEF Offered
  <2>2. \A q \in Producers : pc'[q] = "enqueue" => q = p /\ ~closed
    BY <1>3, <1>5, <1>9
  <2>3. \A c \in DOMAIN fate' : fate'[c] = "offered" => c = new /\ ~closed
    BY <1>3, <1>4, <2>1
  <2>4. ~closed => pc'[p] = "enqueue" /\ fate'[new] = "offered"
    BY <1>3, <1>4, <1>5
  <2> QED BY <1>4, <1>7, <2>2, <2>3, <2>4 DEF Offered
<1>12. Waiting'
  <2>1. InQueue' = InQueue /\ InQueue \subseteq DOMAIN fate
    BY <1>1, <1>2 DEF InQueue, Waiting
  <2>2. \A c \in DOMAIN fate' : fate'[c] = "queued" => c \in DOMAIN fate /\ fate[c] = "queued"
    BY <1>3, <1>4
  <2>3. \A i \in DOMAIN items : items[i] \in DOMAIN fate' /\ fate'[items[i]] = "queued"
    BY <1>1, <1>4 DEF Waiting
  <2> QED BY <1>1, <1>2, <2>1, <2>2, <2>3 DEF Waiting
<1>13. Sending'
  <2>1. \A c \in DOMAIN fate' : fate'[c] = "sending" => c \in DOMAIN fate /\ fate[c] = "sending"
    BY <1>3, <1>4
  <2>2. \A g \in Drainers : local'[g] = local[g]
    BY <1>7, Names
  <2> QED BY <1>1, <1>4, <1>5, <2>1, <2>2 DEF Sending
<1>14. Protocol'
  BY <1>1, <1>2, <1>5, ProducerProtocol
<1>15. Tally'
  BY <1>1, <1>3, <1>5, <1>7, Names DEF Tally, Goroutines
<1>16. CapacityBound'
  BY <1>1, <1>2 DEF CapacityBound
<1>17. DepthExact'
  <2>1. InQueue' = InQueue /\ InQueue \subseteq DOMAIN fate
    BY <1>1, <1>2 DEF InQueue, Waiting
  <2>2. Total(size', InQueue) = Total(size, InQueue)
    BY <1>4, <2>1, TotalSame
  <2>3. Alerts(InQueue)' = Total(size', InQueue')
    BY DEF Alerts, Total, Units
  <2>4. Alerts(InQueue)' = Alerts(InQueue)
    BY <2>1, <2>2, <2>3 DEF Alerts
  <2> QED BY <1>1, <1>2, <1>5, <2>4 DEF DepthExact, Counting
<1>18. DropsCounted'
  <2> DEFINE old == WithFate({"dropped"})
  <2>1. IsFiniteSet(old) /\ old \subseteq DOMAIN fate /\ \A c \in DOMAIN fate : size[c] \in Nat
    BY <1>1, Sizing
  <2>2. Total(size', old) = Total(size, old) /\ Total(size, old) \in Nat
    BY <1>4, <2>1, TotalSame, UnitsFinite
  <2>3. Alerts(WithFate({"dropped"}))' = Total(size', WithFate({"dropped"})')
    BY DEF Alerts, Total, Units
  <2>4. Alerts(WithFate({"dropped"}))' = Alerts(WithFate({"dropped"})) + k
    <3>1. CASE closed
      <4>1. WithFate({"dropped"})' = old \cup {new} /\ new \notin old
        BY <1>3, <1>4, <3>1 DEF WithFate
      <4>2. \A c \in old \cup {new} : size'[c] \in Nat
        BY <1>3, <1>4, <2>1
      <4>3. Total(size', old \cup {new}) = Total(size', old) + size'[new]
        BY <2>1, <4>1, <4>2, TotalAdd
      <4>4. Alerts(WithFate({"dropped"}))' = Total(size', old \cup {new})
        BY <2>3, <4>1
      <4>5. Alerts(WithFate({"dropped"})) = Total(size, old)
        BY DEF Alerts
      <4> QED BY <1>3, <1>4, <2>2, <3>1, <4>3, <4>4, <4>5
    <3>2. CASE ~closed
      <4>1. WithFate({"dropped"})' = old
        BY <1>3, <1>4, <3>2 DEF WithFate
      <4>2. Alerts(WithFate({"dropped"}))' = Total(size', old)
        BY <2>3, <4>1
      <4>3. Alerts(WithFate({"dropped"})) = Total(size, old)
        BY DEF Alerts
      <4>4. Total(size, old) + 0 = Total(size, old)
        BY <2>2
      <4> QED BY <1>3, <2>2, <3>2, <4>2, <4>3, <4>4
    <3> QED BY <3>1, <3>2
  <2>5. Uncounted' = Uncounted - 0 + k /\ Uncounted \in Nat
    BY <1>1, <1>3, <1>6, <1>7, UncountedChange
  <2>6. dropped \in Int /\ dropped' = dropped
    BY <1>1, <1>2 DEF TypeOK
  <2>7. dropped' + Uncounted' = dropped + Uncounted + k
    BY <1>3, <2>5, <2>6
  <2> QED BY <1>1, <2>4, <2>7 DEF DropsCounted
<1> QED BY <1>8, <1>10, <1>11, <1>12, <1>13, <1>14, <1>15, <1>16, <1>17, <1>18 DEF IndInv

-----------------------------------------------------------------------------
(* The inductive invariant holds in every behaviour. *)

LEMMA NextIndInv == IndInv /\ [Next]_vars => IndInv'
<1> SUFFICES ASSUME IndInv, [Next]_vars PROVE IndInv'
  OBVIOUS
<1>1. CASE \E p \in Producers : \/ \E n \in Sizes : EnqueueLock(p, n)
                                \/ Enqueueing(p)
  BY <1>1, EnqueueLockIndInv, EnqueueDropOldestIndInv, EnqueueAppendIndInv,
     EnqueueCountIndInv, EnqueueSignalIndInv, EnqueueClosedIndInv DEF Enqueueing
<1>2. CASE Start \/ LoopWork \/ LoopStop
  BY <1>2, StartIndInv, LoopWorkIndInv, LoopStopIndInv
<1>3. CASE \E g \in Drainers : \/ Delivering(g)
                               \/ \E outcome \in {"sent", "failed"} : SendDone(g, outcome)
  BY <1>3, DrainNextIndInv, DrainEmptyIndInv, AbandonIndInv, AbandonCountIndInv, SendDoneIndInv
     DEF Delivering
<1>4. CASE DrainClose \/ DrainTimeout \/ Closing
  BY <1>4, DrainCloseIndInv, DrainTimeoutIndInv, DrainDoneIndInv, DrainWaitedIndInv,
     DrainReturnIndInv DEF Closing
<1>5. CASE UNCHANGED vars
  <2>1. Uncounted' = Uncounted
    BY <1>5, UncountedSame DEF vars
  <2>2. /\ Alerts(WithFate({"dropped"}))' = Alerts(WithFate({"dropped"}))
        /\ Alerts(InQueue)' = Alerts(InQueue)
    BY <1>5 DEF vars, Alerts, WithFate, InQueue, Total, Units
  <2>3. TypeOK' /\ Lock' /\ Offered' /\ Waiting'
    BY <1>5 DEF vars, IndInv, TypeOK, Lock, Offered, Waiting, InQueue
  <2>4. Sending' /\ Protocol' /\ Tally'
    BY <1>5 DEF vars, IndInv, Sending, Protocol, Tally, Holds, Counting
  <2>5. CapacityBound' /\ DepthExact' /\ DropsCounted'
    BY <1>5, <2>1, <2>2 DEF vars, IndInv, CapacityBound, DepthExact, DropsCounted
  <2> QED BY <2>3, <2>4, <2>5 DEF IndInv
<1> QED BY <1>1, <1>2, <1>3, <1>4, <1>5 DEF Next

(* What every batch is doing and what every sum is, in every state. *)
THEOREM AlwaysIndInv == Spec => []IndInv
  BY InitIndInv, NextIndInv, PTL DEF Spec

-----------------------------------------------------------------------------
(* The results. *)

(* The types of the state of internal/scheduler/sendqueue.go. *)
THEOREM TypeCorrect == Spec => []TypeOK
<1>1. IndInv => TypeOK
  BY DEF IndInv
<1> QED BY <1>1, AlwaysIndInv, PTL

(* The queue is over its capacity only with a single batch that is larger. *)
THEOREM Bounded == Spec => []CapacityBound
<1>1. IndInv => CapacityBound
  BY DEF IndInv
<1> QED BY <1>1, AlwaysIndInv, PTL

(* The depth is the number of alerts waiting, and the gauge shows it. *)
THEOREM Depth == Spec => []DepthExact
<1>1. IndInv => DepthExact
  BY DEF IndInv
<1> QED BY <1>1, AlwaysIndInv, PTL

(* Every alert dropped is counted, whichever of the three paths dropped it. *)
THEOREM Drops == Spec => []DropsCounted
<1>1. IndInv => DropsCounted
  BY DEF IndInv
<1> QED BY <1>1, AlwaysIndInv, PTL

(* When Drain returns, every batch was handed over or dropped. *)
THEOREM Drained == Spec => []DrainLeavesNothing
<1>1. ASSUME IndInv, pc[Closer] = "returned"
      PROVE  items = <<>> /\ queued = 0 /\ WithFate({"offered", "queued", "sending"}) = {}
  <2>1. /\ items = <<>> /\ mu = Nobody /\ ~Holds(Worker) /\ ~Holds(Closer)
    BY <1>1 DEF IndInv, Protocol, Holds
  <2>2. InQueue = {}
    BY <2>1 DEF InQueue
  <2>3. queued = 0
    BY <1>1, <2>2, TotalEmpty DEF IndInv, DepthExact, Alerts
  <2>4. \A b \in DOMAIN fate : fate[b] # "offered"
    BY <1>1, <2>1, Names DEF IndInv, Offered, Lock
  <2>5. \A b \in DOMAIN fate : fate[b] # "queued"
    BY <1>1, <2>2 DEF IndInv, Waiting
  <2>6. \A b \in DOMAIN fate : fate[b] # "sending"
    BY <1>1, <2>1, Names DEF IndInv, Sending
  <2> QED BY <2>1, <2>3, <2>4, <2>5, <2>6 DEF WithFate
<1>2. IndInv => DrainLeavesNothing
  BY <1>1 DEF DrainLeavesNothing
<1> QED BY <1>2, AlwaysIndInv, PTL

-----------------------------------------------------------------------------
(* The queue is a lossy FIFO. *)

(* The worker and Drain never have a batch in hand at the same time. *)
LEMMA OneHolder ==
    ASSUME IndInv, NEW g \in Drainers, NEW h \in Drainers, Holds(g), Holds(h)
    PROVE  g = h
<1>1. Holds(Closer) => pc[Closer] = "lastSend"
  BY DEF IndInv, TypeOK, Holds, CloserLabels
<1>2. ~(Holds(Worker) /\ Holds(Closer))
  BY <1>1 DEF IndInv, Protocol, Holds
<1> QED BY <1>2, Names

(* So the batch in hand is that of whichever drainer holds one. *)
HandAgrees ==
    /\ \A g \in Drainers : Holds(g) => InHand = local[g].batch
    /\ (\A g \in Drainers : ~Holds(g)) => InHand = NoBatch

LEMMA InHandValue == IndInv => HandAgrees
<1> SUFFICES ASSUME IndInv PROVE HandAgrees
  OBVIOUS
<1> DEFINE holders == {g \in Drainers : Holds(g)}
<1>1. InHand = IF holders = {} THEN NoBatch ELSE local[CHOOSE g \in holders : TRUE].batch
  BY DEF InHand, Holds
<1>2. ASSUME NEW g \in Drainers, Holds(g) PROVE (CHOOSE h \in holders : TRUE) = g
  <2>1. (CHOOSE h \in holders : TRUE) \in holders
    BY <1>2
  <2> QED BY <1>2, <2>1, OneHolder
<1> QED BY <1>1, <1>2 DEF HandAgrees

(* A step that leaves every hand as it was leaves the batch in hand. *)
LEMMA InHandSame ==
    ASSUME HandAgrees, HandAgrees',
           \A g \in Drainers : (Holds(g)' <=> Holds(g)) /\ (Holds(g) => local'[g] = local[g])
    PROVE  InHand' = InHand
  BY DEF HandAgrees

(* What each action that is not a stutter is to the FIFO. *)
LEMMA AppendIsPut ==
    ASSUME IndInv, HandAgrees, HandAgrees', NEW p \in Producers, EnqueueAppend(p)
    PROVE  \E b \in Batches : Fifo!Put(b)
<1>1. local[p].batch \in Batches
  BY Sizing DEF IndInv, Offered, EnqueueAppend
<1>2. \A g \in Drainers : Holds(g)' <=> Holds(g)
  BY ProducerMoves DEF EnqueueAppend, ProducerLabels
<1>3. InHand' = InHand
  BY <1>2, InHandSame DEF EnqueueAppend
<1> QED BY <1>1, <1>3 DEF Fifo!Put, EnqueueAppend

LEMMA DropOldestIsLose ==
    ASSUME IndInv, HandAgrees, HandAgrees', NEW p \in Producers, EnqueueDropOldest(p)
    PROVE  \E k \in 1..Len(items) : Fifo!Lose(k)
<1>1. /\ items \in Seq(Batches) /\ items # <<>> /\ items' = Tail(items)
      /\ local \in [Goroutines -> [batch : Batches \cup {NoBatch}, count : Int]]
  BY DEF IndInv, TypeOK, EnqueueDropOldest, MustDrop
<1>2. items' = SubSeq(items, 1 + 1, Len(items))
  BY <1>1, TailIsSubSeq
<1>3. 1 \in 1..Len(items)
  BY <1>1, EmptySeq
<1>4. \A g \in Drainers : (Holds(g)' <=> Holds(g)) /\ local'[g] = local[g]
  BY <1>1, Names DEF EnqueueDropOldest, Holds
<1>5. InHand' = InHand
  BY <1>4, InHandSame
<1> QED BY <1>2, <1>3, <1>5 DEF Fifo!Lose

LEMMA DrainNextIsTake ==
    ASSUME IndInv, HandAgrees, HandAgrees', NEW g \in Drainers, DrainNext(g)
    PROVE  Fifo!Take
<1> DEFINE label == IF pc[g] = "drain" THEN "send" ELSE "lastSend"
<1>1. /\ pc[g] \in {"drain", "lastDrain"} /\ Goto(g, label) /\ label \in {"send", "lastSend"}
      /\ (g = Closer => pc[g] = "lastDrain")
      /\ local \in [Goroutines -> [batch : Batches \cup {NoBatch}, count : Int]]
      /\ pc[Worker] \in WorkerLabels /\ pc[Closer] \in CloserLabels /\ g \in Goroutines
  BY Names DEF IndInv, TypeOK, DrainNext, Draining, CloserLabels
<1>2. /\ g = Worker => label \in WorkerLabels
      /\ g = Closer => label \in CloserLabels
  BY <1>1 DEF WorkerLabels, CloserLabels
<1>3. pc'[g] = label
  BY <1>1, <1>2, DrainerMoves
<1>4. \A h \in Drainers : ~Holds(h)
  <2>1. CASE g = Worker
    BY <1>1, <2>1, Names DEF IndInv, Protocol, Holds, CloserLabels
  <2>2. CASE g = Closer
    BY <1>1, <2>2, Names DEF IndInv, Protocol, Holds
  <2> QED BY <2>1, <2>2, Names
<1>5. InHand = NoBatch
  BY <1>4 DEF HandAgrees
<1>6. Holds(g)' /\ local'[g].batch = Head(items)
  BY <1>1, <1>3 DEF Holds, DrainNext
<1>7. InHand' = Head(items)
  BY <1>6 DEF HandAgrees
<1> QED BY <1>5, <1>7 DEF Fifo!Take, DrainNext

LEMMA SendDoneIsFinish ==
    ASSUME IndInv, HandAgrees, HandAgrees', NEW g \in Drainers,
           NEW o \in {"sent", "failed"}, SendDone(g, o)
    PROVE  Fifo!Finish
<1> DEFINE label == IF pc[g] = "send" THEN "drain" ELSE "lastDrain"
<1>1. /\ Goto(g, label) /\ label \in {"drain", "lastDrain"} /\ Holds(g)
      /\ g = Worker => label \in WorkerLabels
      /\ g = Closer => label \in CloserLabels
  BY Names DEF IndInv, TypeOK, SendDone, Holds, WorkerLabels, CloserLabels
<1>2. /\ pc'[g] = label /\ \A h \in Drainers \ {g} : pc'[h] = pc[h]
  BY <1>1, DrainerMoves
<1>3. InHand = local[g].batch /\ local[g].batch \in Batches
  BY <1>1, Sizing DEF HandAgrees, IndInv, Sending
<1>4. InHand # NoBatch
  BY <1>3, MaxBatchesAssumption DEF Batches, NoBatch
<1>5. \A h \in Drainers : ~Holds(h)'
  <2>1. \A h \in Drainers \ {g} : ~Holds(h)
    BY <1>1, OneHolder
  <2> QED BY <1>1, <1>2, <2>1 DEF Holds
<1>6. InHand' = NoBatch
  BY <1>5 DEF HandAgrees
<1> QED BY <1>4, <1>6 DEF Fifo!Finish, SendDone, queueVars

LEMMA AbandonIsLose ==
    ASSUME IndInv, HandAgrees, HandAgrees', NEW g \in Drainers, Abandon(g)
    PROVE  (\E k \in 1..Len(items) : Fifo!Lose(k)) \/ UNCHANGED <<items, InHand>>
<1> DEFINE label == IF queued = 0 THEN AfterDrain(g)
                    ELSE IF pc[g] = "drain" THEN "counting" ELSE "lastCounting"
<1>1. /\ Goto(g, label) /\ ~Holds(g) /\ Draining(g)
      /\ pc[g] \in {"drain", "lastDrain"} /\ (g = Closer => pc[g] = "lastDrain")
      /\ items \in Seq(Batches) /\ items' = <<>>
      /\ local \in [Goroutines -> [batch : Batches \cup {NoBatch}, count : Int]]
  BY Names DEF IndInv, TypeOK, Abandon, Draining, Holds, CloserLabels
<1>2. /\ label \notin {"send", "lastSend"}
      /\ g = Worker => label \in WorkerLabels
      /\ g = Closer => label \in CloserLabels
  BY <1>1, AfterDrainLabel DEF WorkerLabels, CloserLabels
<1>3. /\ pc'[g] = label /\ \A h \in Drainers \ {g} : pc'[h] = pc[h]
  BY <1>1, <1>2, DrainerMoves
<1>4. \A h \in Drainers : (Holds(h)' <=> Holds(h)) /\ (Holds(h) => local'[h] = local[h])
  BY <1>1, <1>2, <1>3, Names DEF Holds, Abandon
<1>5. InHand' = InHand
  BY <1>4, InHandSame
<1>6. CASE items = <<>>
  BY <1>1, <1>5, <1>6
<1>7. CASE items # <<>>
  <2>1. Len(items) \in Nat \ {0}
    BY <1>1, <1>7, EmptySeq
  <2>2. Len(items) \in 1..Len(items)
    BY <2>1
  <2>3. SubSeq(items, Len(items) + 1, Len(items)) = <<>>
    BY <2>1, SubSeqEmpty
  <2> QED BY <1>1, <1>5, <2>2, <2>3 DEF Fifo!Lose
<1> QED BY <1>6, <1>7

(* Every other action is a stutter: q.items and the hands stay. *)
LEMMA OthersStutter ==
    ASSUME IndInv, HandAgrees, HandAgrees', items' = items,
           \A g \in Drainers : (Holds(g)' <=> Holds(g)) /\ (Holds(g) => local'[g] = local[g])
    PROVE  UNCHANGED <<items, InHand>>
  BY InHandSame

(* One batch in hand at a time, in the order of Enqueue, and only the      *)
(* oldest lost: the queue implements the FIFO the rest relies on.          *)
THEOREM Refinement == Spec => ImplementsFifo
<1>1. ASSUME Init PROVE Fifo!FifoInit
  <2>1. \A g \in Drainers : pc[g] \notin {"send", "lastSend"}
    BY <1>1, Names DEF Init
  <2>2. InHand = NoBatch
    BY <2>1 DEF InHand
  <2> QED BY <1>1, <2>2 DEF Fifo!FifoInit, Init
<1>2. ASSUME IndInv, HandAgrees, HandAgrees', [Next]_vars
      PROVE  [Fifo!FifoNext]_<<items, InHand>>
  <2>1. CASE \E p \in Producers : EnqueueAppend(p)
    BY <1>2, <2>1, AppendIsPut DEF Fifo!FifoNext
  <2>2. CASE \E p \in Producers : EnqueueDropOldest(p)
    BY <1>2, <2>2, DropOldestIsLose DEF Fifo!FifoNext
  <2>3. CASE \E g \in Drainers : DrainNext(g)
    BY <1>2, <2>3, DrainNextIsTake DEF Fifo!FifoNext
  <2>4. CASE \E g \in Drainers, o \in {"sent", "failed"} : SendDone(g, o)
    BY <1>2, <2>4, SendDoneIsFinish DEF Fifo!FifoNext
  <2>5. CASE \E g \in Drainers : Abandon(g)
    BY <1>2, <2>5, AbandonIsLose DEF Fifo!FifoNext
  <2>6. ASSUME NEW p \in Producers,
               \/ \E n \in Sizes : EnqueueLock(p, n)
               \/ EnqueueCount(p) \/ EnqueueSignal(p) \/ EnqueueClosed(p)
        PROVE  UNCHANGED <<items, InHand>>
    <3>1. PICK label \in ProducerLabels : Goto(p, label)
      BY <2>6 DEF EnqueueLock, EnqueueCount, EnqueueSignal, EnqueueClosed, ProducerLabels
    <3>2. \A g \in Drainers : Holds(g)' <=> Holds(g)
      BY <1>2, <3>1, ProducerMoves
    <3>3. local \in [Goroutines -> [batch : Batches \cup {NoBatch}, count : Int]]
      BY <1>2 DEF IndInv, TypeOK
    <3>4. \A g \in Drainers : local'[g] = local[g]
      BY <2>6, <3>3, Names DEF EnqueueLock, EnqueueCount, EnqueueSignal, EnqueueClosed
    <3>5. items' = items
      BY <2>6 DEF EnqueueLock, EnqueueCount, EnqueueSignal, EnqueueClosed, queueVars
    <3> QED BY <1>2, <3>2, <3>4, <3>5, OthersStutter
  <2>7. ASSUME NEW g \in Drainers, DrainEmpty(g) \/ AbandonCount(g)
        PROVE  UNCHANGED <<items, InHand>>
    <3>1. /\ Goto(g, AfterDrain(g)) /\ ~Holds(g) /\ (Draining(g) \/ Counting(g))
          /\ items' = items
      BY <2>7 DEF DrainEmpty, AbandonCount, Draining, Counting, Holds, queueVars
    <3>2. /\ AfterDrain(g) \in {"select", "done", "cancel"}
          /\ g = Worker => AfterDrain(g) \in WorkerLabels
          /\ g = Closer => AfterDrain(g) \in CloserLabels
      BY <1>2, <3>1, AfterDrainLabel
    <3>3. pc'[g] = AfterDrain(g) /\ \A h \in Drainers \ {g} : pc'[h] = pc[h]
      BY <1>2, <3>1, <3>2, DrainerMoves
    <3>4. local \in [Goroutines -> [batch : Batches \cup {NoBatch}, count : Int]]
      BY <1>2 DEF IndInv, TypeOK
    <3>5. \A h \in Drainers : (Holds(h)' <=> Holds(h)) /\ (Holds(h) => local'[h] = local[h])
      BY <2>7, <3>1, <3>2, <3>3, <3>4, Names DEF Holds, DrainEmpty, AbandonCount
    <3> QED BY <1>2, <3>1, <3>5, OthersStutter
  <2>8. ASSUME \/ Start \/ LoopWork \/ LoopStop \/ DrainClose
               \/ DrainDone \/ DrainTimeout \/ DrainWaited \/ DrainReturn
        PROVE  UNCHANGED <<items, InHand>>
    <3>1. /\ items' = items /\ local' = local
      BY <2>8 DEF Start, LoopWork, LoopStop, DrainClose, DrainDone, DrainTimeout, DrainWaited,
                  DrainReturn, queueVars
    <3>2. /\ pc \in [Goroutines -> ProducerLabels \cup WorkerLabels \cup CloserLabels]
          /\ Protocol
      BY <1>2 DEF IndInv, TypeOK
    <3>3. \A g \in Drainers : Holds(g)' <=> Holds(g)
      BY <2>8, <3>2, Names
         DEF Start, LoopWork, LoopStop, DrainClose, DrainDone, DrainTimeout, DrainWaited,
             DrainReturn, Goto, Holds, Protocol
    <3> QED BY <1>2, <3>1, <3>3, OthersStutter
  <2>9. CASE UNCHANGED vars
    <3>1. items' = items /\ \A g \in Drainers : (Holds(g)' <=> Holds(g)) /\ local'[g] = local[g]
      BY <2>9 DEF vars, Holds
    <3> QED BY <1>2, <3>1, OthersStutter
  <2> QED BY <1>2, <2>1, <2>2, <2>3, <2>4, <2>5, <2>6, <2>7, <2>8, <2>9
          DEF Next, Enqueueing, Delivering, Closing
<1>3. IndInv /\ HandAgrees /\ HandAgrees' /\ [Next]_vars => [Fifo!FifoNext]_(Fifo!fifoVars)
  BY <1>2 DEF Fifo!fifoVars
<1>4. Init => Fifo!FifoInit
  BY <1>1
<1> QED BY <1>3, <1>4, AlwaysIndInv, InHandValue, PTL DEF Spec, ImplementsFifo, Fifo!FifoSpec
=============================================================================
