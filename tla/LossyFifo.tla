------------------------------ MODULE LossyFifo ------------------------------
(***************************************************************************)
(* What the send queue promises to the two sides of it: batches are handed *)
(* over one at a time, in the order they were put, each at most once; the  *)
(* oldest ones may be lost instead.  SendQueue implements this and         *)
(* Delivery is built on it.                                                *)
(***************************************************************************)
EXTENDS Naturals, Sequences

CONSTANTS
    Batch,   \* the batches that may be put
    None     \* not a batch: nothing is in hand

VARIABLES
    waiting,  \* the batches put and neither lost nor taken, oldest first
    inHand    \* the batch being delivered, or None

fifoVars == <<waiting, inHand>>

FifoInit == waiting = <<>> /\ inHand = None

Put(b) == waiting' = Append(waiting, b) /\ UNCHANGED inHand

(* The k oldest are lost. *)
Lose(k) ==
    /\ k \in 1..Len(waiting)
    /\ waiting' = SubSeq(waiting, k + 1, Len(waiting))
    /\ UNCHANGED inHand

Take ==
    /\ inHand = None /\ waiting # <<>>
    /\ inHand' = Head(waiting)
    /\ waiting' = Tail(waiting)

Finish == inHand # None /\ inHand' = None /\ UNCHANGED waiting

FifoNext ==
    \/ \E b \in Batch : Put(b)
    \/ \E k \in 1..Len(waiting) : Lose(k)
    \/ Take
    \/ Finish

FifoSpec == FifoInit /\ [][FifoNext]_fifoVars
=============================================================================
