------------------------------ MODULE SendQueue ------------------------------
(***************************************************************************)
(* The send queue between evaluation and delivery                          *)
(* (internal/scheduler/sendqueue.go).  Producers are the goroutines that   *)
(* evaluate rules and call Enqueue; one worker goroutine runs loop; the    *)
(* goroutine that shuts the ruler down calls Drain.  Every critical        *)
(* section of q.mu is one step, except the loop in Enqueue that drops the  *)
(* oldest items, which is one step per item with the lock held; what a     *)
(* goroutine does after it unlocks (counting, signalling, sending) is a    *)
(* step of its own.                                                        *)
(*                                                                         *)
(* A batch is one evaluation's alerts, numbered in the order of Enqueue's  *)
(* critical sections; only its size matters to the queue.  What            *)
(* cadence.Send does with a batch is Delivery's subject: here it ends as   *)
(* sent or failed.                                                         *)
(***************************************************************************)
EXTENDS Integers, Sequences, FiniteSets

CONSTANTS
    Producers,    \* goroutines that call Enqueue
    Capacity,     \* --notification-queue-capacity, in alerts
    Sizes,        \* the numbers of alerts a batch may hold
    MaxBatches    \* bound: calls of Enqueue considered

ASSUME CapacityAssumption == Capacity \in Nat \ {0}
ASSUME SizesAssumption == Sizes \subseteq Nat \ {0}
ASSUME MaxBatchesAssumption == MaxBatches \in Nat

(* The two goroutines that may run drain(). *)
Worker == "worker"
Closer == "closer"
Drainers == {Worker, Closer}
Nobody == "nobody"
ASSUME ProducersAssumption == Producers \cap {Worker, Closer, Nobody} = {}
ASSUME FinitelyManyAssumption == IsFiniteSet(Producers)

VARIABLES
    mu,        \* who holds q.mu across steps: a producer in its drop loop, or Nobody
    items,     \* q.items: batch numbers, oldest first
    queued,    \* q.queued
    closed,    \* q.closed
    started,   \* q.started
    work,      \* the q.work channel, of capacity one: a token is waiting
    stop,      \* q.stop is closed
    cancelled, \* q.ctx is cancelled
    gauge,     \* the notification queue length metric
    dropped,   \* the notifications dropped counter
    pc,        \* where each goroutine is
    local,     \* a producer's batch and the drops it has not counted; a drainer's item
    size,      \* history: the number of alerts of each batch offered, by number
    fate       \* history: what became of each batch

vars == <<mu, items, queued, closed, started, work, stop, cancelled, gauge, dropped,
          pc, local, size, fate>>

queueVars == <<items, queued, gauge>>
flags == <<closed, started, stop, cancelled>>

Fates == {"offered", "queued", "sending", "sent", "failed", "dropped"}
NoBatch == 0
Goroutines == Producers \cup Drainers

Init ==
    /\ mu = Nobody
    /\ items = <<>> /\ queued = 0
    /\ closed = FALSE /\ started = FALSE /\ work = FALSE
    /\ stop = FALSE /\ cancelled = FALSE
    /\ gauge = 0 /\ dropped = 0
    /\ pc = [g \in Goroutines |-> IF g = Worker THEN "off" ELSE "idle"]
    /\ local = [g \in Goroutines |-> [batch |-> NoBatch, count |-> 0]]
    /\ size = <<>> /\ fate = <<>>

Goto(g, label) == pc' = [pc EXCEPT ![g] = label]

-----------------------------------------------------------------------------
(* Enqueue.  An empty batch returns before the lock and is not modelled.   *)

(* Lock, and find the queue closed or open. *)
EnqueueLock(p, n) ==
    /\ pc[p] = "idle" /\ mu = Nobody
    /\ Len(size) < MaxBatches
    /\ size' = Append(size, n)
    /\ IF closed
       THEN /\ fate' = Append(fate, "dropped")
            /\ local' = [local EXCEPT ![p] = [batch |-> Len(size) + 1, count |-> n]]
            /\ Goto(p, "closedDrop")
            /\ UNCHANGED mu
       ELSE /\ fate' = Append(fate, "offered")
            /\ local' = [local EXCEPT ![p] = [batch |-> Len(size) + 1, count |-> 0]]
            /\ Goto(p, "enqueue")
            /\ mu' = p
    /\ UNCHANGED <<queueVars, flags, work, dropped>>

(* Mutant: room made only once the queue is already over. *)
MustDropLate(n) == items # <<>> /\ queued > Capacity

MustDrop(n) == items # <<>> /\ queued + n > Capacity

(* One turn of the loop that makes room. *)
EnqueueDropOldest(p) ==
    /\ pc[p] = "enqueue" /\ MustDrop(size[local[p].batch])
    /\ items' = Tail(items)
    /\ queued' = queued - size[Head(items)]
    /\ local' = [local EXCEPT ![p].count = @ + size[Head(items)]]
    /\ fate' = [fate EXCEPT ![Head(items)] = "dropped"]
    /\ UNCHANGED <<mu, gauge, flags, work, dropped, pc, size>>

(* Append, set the gauge under the lock, unlock. *)
EnqueueAppend(p) ==
    /\ pc[p] = "enqueue" /\ ~MustDrop(size[local[p].batch])
    /\ items' = Append(items, local[p].batch)
    /\ queued' = queued + size[local[p].batch]
    /\ gauge' = queued + size[local[p].batch]
    /\ mu' = Nobody
    /\ fate' = [fate EXCEPT ![local[p].batch] = "queued"]
    /\ Goto(p, "count")
    /\ UNCHANGED <<flags, work, dropped, local, size>>

(* Count what was dropped, outside the lock. *)
EnqueueCount(p) ==
    /\ pc[p] = "count"
    /\ dropped' = dropped + local[p].count
    /\ local' = [local EXCEPT ![p].count = 0]
    /\ Goto(p, "signal")
    /\ UNCHANGED <<mu, queueVars, flags, work, size, fate>>

(* Mutant: an unbuffered channel, which only a waiting worker hears. *)
EnqueueSignalUnbuffered(p) ==
    /\ pc[p] = "signal"
    /\ work' = (work \/ pc[Worker] = "select")
    /\ local' = [local EXCEPT ![p].batch = NoBatch]
    /\ Goto(p, "idle")
    /\ UNCHANGED <<mu, queueVars, flags, dropped, size, fate>>

(* signal: put the token, or find one there already. *)
EnqueueSignal(p) ==
    /\ pc[p] = "signal"
    /\ work' = TRUE
    /\ local' = [local EXCEPT ![p].batch = NoBatch]
    /\ Goto(p, "idle")
    /\ UNCHANGED <<mu, queueVars, flags, dropped, size, fate>>

(* Count a batch that found the queue closed. *)
EnqueueClosed(p) ==
    /\ pc[p] = "closedDrop"
    /\ dropped' = dropped + local[p].count
    /\ local' = [local EXCEPT ![p] = [batch |-> NoBatch, count |-> 0]]
    /\ Goto(p, "idle")
    /\ UNCHANGED <<mu, queueVars, flags, work, size, fate>>

-----------------------------------------------------------------------------
(* Start and the worker's loop. *)

(* Scheduler.mu is held across Scheduler.Start and Scheduler.Shutdown, so   *)
(* Start never runs in the middle of Drain.  A second call changes nothing. *)
Start ==
    /\ mu = Nobody /\ ~started
    /\ pc[Closer] \in {"idle", "returned"}
    /\ started' = TRUE
    /\ Goto(Worker, "select")
    /\ UNCHANGED <<mu, queueVars, closed, stop, cancelled, work, dropped, local, size, fate>>

(* The select: either ready case may be taken. *)
LoopWork ==
    /\ pc[Worker] = "select" /\ work
    /\ work' = FALSE
    /\ Goto(Worker, "drain")
    /\ UNCHANGED <<mu, queueVars, flags, dropped, local, size, fate>>

(* Mutant: the worker leaves without a last drain. *)
LoopStopAtOnce ==
    /\ pc[Worker] = "select" /\ stop
    /\ Goto(Worker, "done")
    /\ UNCHANGED <<mu, queueVars, flags, work, dropped, local, size, fate>>

LoopStop ==
    /\ pc[Worker] = "select" /\ stop
    /\ Goto(Worker, "lastDrain")
    /\ UNCHANGED <<mu, queueVars, flags, work, dropped, local, size, fate>>

(* drain() runs at label "drain" for a worker that goes back to its select, *)
(* and at "lastDrain" for a worker about to exit and for Drain itself.      *)
Draining(g) == pc[g] \in {"drain", "lastDrain"}

AfterDrain(g) == IF pc[g] \in {"drain", "counting"} THEN "select"
                 ELSE IF g = Worker THEN "done" ELSE "cancel"

(* Mutant: the gauge is set from before the pop. *)
DrainNextStaleGauge(g) ==
    /\ Draining(g) /\ ~cancelled
    /\ mu = Nobody /\ items # <<>>
    /\ items' = Tail(items)
    /\ queued' = queued - size[Head(items)]
    /\ gauge' = queued
    /\ local' = [local EXCEPT ![g].batch = Head(items)]
    /\ fate' = [fate EXCEPT ![Head(items)] = "sending"]
    /\ Goto(g, IF pc[g] = "drain" THEN "send" ELSE "lastSend")
    /\ UNCHANGED <<mu, flags, work, dropped, size>>

(* ctx.Err() is nil and next() pops the oldest item.  The worker reads the *)
(* context just before it takes the lock; a cancel in between is the same  *)
(* as one just after the pop.                                              *)
DrainNext(g) ==
    /\ Draining(g) /\ ~cancelled
    /\ mu = Nobody /\ items # <<>>
    /\ items' = Tail(items)
    /\ queued' = queued - size[Head(items)]
    /\ gauge' = queued - size[Head(items)]
    /\ local' = [local EXCEPT ![g].batch = Head(items)]
    /\ fate' = [fate EXCEPT ![Head(items)] = "sending"]
    /\ Goto(g, IF pc[g] = "drain" THEN "send" ELSE "lastSend")
    /\ UNCHANGED <<mu, flags, work, dropped, size>>

(* next() finds the queue empty: drain() returns. *)
DrainEmpty(g) ==
    /\ Draining(g) /\ ~cancelled
    /\ mu = Nobody /\ items = <<>>
    /\ Goto(g, AfterDrain(g))
    /\ UNCHANGED <<mu, queueVars, flags, work, dropped, local, size, fate>>

(* abandon's critical section. *)
Abandon(g) ==
    /\ Draining(g) /\ cancelled
    /\ mu = Nobody
    /\ items' = <<>>
    /\ queued' = 0
    /\ fate' = [b \in DOMAIN fate |->
                  IF \E i \in DOMAIN items : items[i] = b THEN "dropped" ELSE fate[b]]
    /\ local' = [local EXCEPT ![g].count = queued]
    /\ IF queued = 0 THEN Goto(g, AfterDrain(g))
       ELSE Goto(g, IF pc[g] = "drain" THEN "counting" ELSE "lastCounting")
    /\ UNCHANGED <<mu, gauge, flags, work, dropped, size>>

(* Mutant: abandoned, not counted. *)
AbandonUncounted(g) ==
    /\ pc[g] \in {"counting", "lastCounting"}
    /\ gauge' = 0
    /\ local' = [local EXCEPT ![g].count = 0]
    /\ Goto(g, AfterDrain(g))
    /\ UNCHANGED <<mu, items, queued, flags, work, dropped, size, fate>>

(* abandon counts what was left and zeroes the gauge, outside the lock. *)
AbandonCount(g) ==
    /\ pc[g] \in {"counting", "lastCounting"}
    /\ dropped' = dropped + local[g].count
    /\ gauge' = 0
    /\ local' = [local EXCEPT ![g].count = 0]
    /\ Goto(g, AfterDrain(g))
    /\ UNCHANGED <<mu, items, queued, flags, work, size, fate>>

(* cadence.Send returned.  A failed send is logged and nothing else. *)
SendDone(g, outcome) ==
    /\ pc[g] \in {"send", "lastSend"}
    /\ fate' = [fate EXCEPT ![local[g].batch] = outcome]
    /\ local' = [local EXCEPT ![g].batch = NoBatch]
    /\ Goto(g, IF pc[g] = "send" THEN "drain" ELSE "lastDrain")
    /\ UNCHANGED <<mu, queueVars, flags, work, dropped, size>>

-----------------------------------------------------------------------------
(* Drain. *)

(* Mutant: Drain drains whether or not the worker does. *)
DrainCloseAlongside ==
    /\ pc[Closer] = "idle" /\ mu = Nobody
    /\ closed' = TRUE
    /\ stop' = TRUE
    /\ Goto(Closer, "lastDrain")
    /\ UNCHANGED <<mu, queueVars, started, cancelled, work, dropped, local, size, fate>>

(* Refuse what comes next, and read whether a worker is running.  Closing  *)
(* q.stop is folded in: nothing but the worker's select reads it.          *)
DrainClose ==
    /\ pc[Closer] = "idle" /\ mu = Nobody
    /\ closed' = TRUE
    /\ stop' = TRUE
    /\ Goto(Closer, IF started THEN "wait" ELSE "lastDrain")
    /\ UNCHANGED <<mu, queueVars, started, cancelled, work, dropped, local, size, fate>>

(* The worker exited (q.done is closed) before the timeout. *)
DrainDone ==
    /\ pc[Closer] = "wait" /\ pc[Worker] = "done"
    /\ Goto(Closer, "cancel")
    /\ UNCHANGED <<mu, queueVars, flags, work, dropped, local, size, fate>>

(* Mutant: the timeout leaves the send in flight alone. *)
DrainTimeoutWithoutCancel ==
    /\ pc[Closer] = "wait"
    /\ Goto(Closer, "waitDone")
    /\ UNCHANGED <<mu, queueVars, flags, work, dropped, local, size, fate>>

(* The timeout: cut the send in flight, then wait for the worker anyway. *)
DrainTimeout ==
    /\ pc[Closer] = "wait"
    /\ cancelled' = TRUE
    /\ Goto(Closer, "waitDone")
    /\ UNCHANGED <<mu, queueVars, closed, started, stop, work, dropped, local, size, fate>>

DrainWaited ==
    /\ pc[Closer] = "waitDone" /\ pc[Worker] = "done"
    /\ Goto(Closer, "cancel")
    /\ UNCHANGED <<mu, queueVars, flags, work, dropped, local, size, fate>>

DrainReturn ==
    /\ pc[Closer] = "cancel"
    /\ cancelled' = TRUE
    /\ Goto(Closer, "returned")
    /\ UNCHANGED <<mu, queueVars, closed, started, stop, work, dropped, local, size, fate>>

-----------------------------------------------------------------------------
Enqueueing(p) ==
    \/ EnqueueDropOldest(p) \/ EnqueueAppend(p) \/ EnqueueCount(p)
    \/ EnqueueSignal(p) \/ EnqueueClosed(p)

Delivering(g) ==
    \/ DrainNext(g) \/ DrainEmpty(g) \/ Abandon(g) \/ AbandonCount(g)

Closing == DrainDone \/ DrainWaited \/ DrainReturn

Next ==
    \/ \E p \in Producers : \/ \E n \in Sizes : EnqueueLock(p, n)
                            \/ Enqueueing(p)
    \/ Start \/ LoopWork \/ LoopStop
    \/ \E g \in Drainers : \/ Delivering(g)
                           \/ \E outcome \in {"sent", "failed"} : SendDone(g, outcome)
    \/ DrainClose \/ DrainTimeout \/ Closing

Spec == Init /\ [][Next]_vars

(* A goroutine that can take a step eventually does.  Producers decide for *)
(* themselves when to enqueue and the operator when to shut down, so       *)
(* EnqueueLock, Start and DrainClose are not fair.                         *)
GoroutinesFair ==
    /\ \A p \in Producers : WF_vars(Enqueueing(p))
    /\ WF_vars(LoopWork \/ LoopStop)
    /\ \A g \in Drainers : WF_vars(Delivering(g))
    /\ WF_vars(Closing)

(* Sends may hang: one ends for certain only once its context is           *)
(* cancelled.  The timer of Drain goes off.                                *)
FairSpec ==
    /\ Spec /\ GoroutinesFair
    /\ \A g \in Drainers : WF_vars(cancelled /\ SendDone(g, "failed"))
    /\ WF_vars(DrainTimeout)

(* Every send returns: the client bounds each attempt and their number. *)
SendsReturn ==
    \A g \in Drainers : WF_vars(\E outcome \in {"sent", "failed"} : SendDone(g, outcome))

-----------------------------------------------------------------------------
Batches == 1..MaxBatches

ProducerLabels == {"idle", "enqueue", "count", "signal", "closedDrop"}
WorkerLabels == {"off", "select", "drain", "send", "counting",
                 "lastDrain", "lastSend", "lastCounting", "done"}
CloserLabels == {"idle", "wait", "waitDone", "lastDrain", "lastSend", "lastCounting",
                 "cancel", "returned"}

TypeOK ==
    /\ mu \in Producers \cup {Nobody}
    /\ items \in Seq(Batches)
    /\ queued \in Int /\ gauge \in Int /\ dropped \in Int
    /\ closed \in BOOLEAN /\ started \in BOOLEAN /\ work \in BOOLEAN
    /\ stop \in BOOLEAN /\ cancelled \in BOOLEAN
    /\ pc \in [Goroutines -> ProducerLabels \cup WorkerLabels \cup CloserLabels]
    /\ \A p \in Producers : pc[p] \in ProducerLabels
    /\ pc[Worker] \in WorkerLabels /\ pc[Closer] \in CloserLabels
    /\ local \in [Goroutines -> [batch : Batches \cup {NoBatch}, count : Int]]
    /\ size \in Seq(Sizes) /\ Len(size) <= MaxBatches
    /\ fate \in Seq(Fates) /\ Len(fate) = Len(size)

(* The sum of f over a set, as the number of units its elements are worth. *)
Units(f, elems) == UNION {{x} \X (1..f[x]) : x \in elems}
Total(f, elems) == Cardinality(Units(f, elems))

Alerts(batches) == Total(size, batches)
Uncounted == Total([g \in Goroutines |-> local[g].count], Goroutines)
WithFate(fates) == {b \in DOMAIN fate : fate[b] \in fates}
InQueue == {items[i] : i \in DOMAIN items}

(* The bound holds in alerts, except that a single batch larger than the   *)
(* whole capacity is queued, alone.                                        *)
CapacityBound == queued > Capacity => Len(items) = 1

(* q.queued, the depth every decision and the gauge use, is the number of  *)
(* alerts in q.items, and the gauge shows it whenever nobody is between    *)
(* the change and the update.                                              *)
DepthExact ==
    /\ queued = Alerts(InQueue)
    /\ mu = Nobody /\ (\A g \in Drainers : pc[g] \notin {"counting", "lastCounting"}) =>
          gauge = queued

(* No alert is dropped without being counted: the counter, with what the   *)
(* goroutines that dropped something are about to add, is exactly the      *)
(* number of alerts in dropped batches, whether they were pushed out,      *)
(* refused or abandoned.                                                   *)
DropsCounted ==
    dropped + Uncounted = Alerts(WithFate({"dropped"}))

(* Once Drain returns, nothing is waiting, nothing is being sent and       *)
(* nothing will be accepted: every batch was handed over or dropped.       *)
DrainLeavesNothing ==
    pc[Closer] = "returned" =>
        items = <<>> /\ queued = 0 /\ WithFate({"offered", "queued", "sending"}) = {}

(* The queue keeps the promise the rest of the ruler relies on: one batch  *)
(* in hand at a time, whichever goroutine drains, in the order of Enqueue, *)
(* and only the oldest are lost.                                           *)
InHand ==
    LET holders == {g \in Drainers : pc[g] \in {"send", "lastSend"}}
    IN  IF holders = {} THEN NoBatch ELSE local[CHOOSE g \in holders : TRUE].batch
Fifo == INSTANCE LossyFifo WITH Batch <- Batches, None <- NoBatch,
                                waiting <- items, inHand <- InHand
ImplementsFifo == Fifo!FifoSpec

(* Once a worker runs, every batch accepted is delivered, fails or is      *)
(* dropped, if sends return: no wakeup is lost.                            *)
EveryBatchSettles ==
    SendsReturn =>
        \A b \in Batches :
            (started /\ b \in WithFate({"offered", "queued", "sending"}))
                ~> b \in WithFate({"sent", "failed", "dropped"})

(* Drain returns although no send ever answers. *)
DrainReturns == pc[Closer] = "wait" ~> pc[Closer] = "returned"
=============================================================================
