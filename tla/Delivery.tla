------------------------------ MODULE Delivery ------------------------------
(***************************************************************************)
(* From a rule's evaluation to Alertmanager: every rule is evaluated on    *)
(* its group's boundaries (runGroup, RuleEval.Evaluate), its instances are *)
(* put on the send queue, and the one worker takes a batch, asks the       *)
(* cadence what is due (Cadence.dueAt), posts it to every endpoint         *)
(* (Fanout.Send, Client.Send) and records it if any of them took it        *)
(* (Cadence.record).                                                       *)
(*                                                                         *)
(* The queue is the abstract LossyFifo, which SendQueue implements.        *)
(* Alertmanager is external: an endpoint holds, for each label set, the    *)
(* last alert it was posted.  A post to an endpoint is accepted, refused,  *)
(* or unanswered: taken, with the answer lost or too late for the client's *)
(* last attempt.                                                           *)
(***************************************************************************)
EXTENDS AlertInstances, Cadence, LossyFifo, FiniteSets, TLC

CONSTANTS
    Rules,         \* the rules, each against one source
    Definition,    \* rule -> its definition; retention is derived, not part of it
    GroupInterval, \* rule -> the interval of its group
    Rows,          \* rule -> the rows its query may return
    Endpoints,     \* the Alertmanager endpoints
    MaxWaiting,    \* bound: batches in the queue; more are lost, oldest first
    MaxLag,        \* bound: how late an evaluation may be
    MaxTime        \* bound: the clock

ASSUME DeliveryAssumption ==
    /\ \A r \in Rules : GroupInterval[r] \in Nat \ {0}
    /\ MaxWaiting \in Nat \ {0} /\ MaxLag \in Nat /\ MaxTime \in Nat
    /\ Endpoints # {}

VARIABLES
    clock,   \* the wall clock
    next,    \* rule -> the boundary its group evaluates next
    active,  \* rule -> its tracked instances
    due,     \* what the worker is posting, of the batch in hand
    held,    \* external: endpoint -> label set -> the last alert it took
    told,    \* history: label set -> the last alert a send reported delivered
    clean    \* history: the rules whose latest batch was neither lost nor failed

rulerVars == <<clock, next, active>>
vars == <<clock, next, active, waiting, inHand, due, lastSent, lastSwept, held, told, clean>>

(* Resend.retention: as long as a firing alert's validity. *)
Rule(r) == [retention |-> Validity(GroupInterval[r])] @@ Definition[r]

LabelsOf(r) == {Labels(Definition[r], row) : row \in Rows[r]}
LabelSets == UNION {LabelsOf(r) : r \in Rules}

(* A batch is an evaluation of a rule and its instances.                   *)
Instances ==
    [labels : LabelSets, fp : {Hash(l) : l \in LabelSets}, phase : Phases,
     activeAt : Time, firedAt : Time, resolvedAt : Time, lastSeen : Time]
Batches == [rule : Rules, now : Time, alerts : SUBSET Instances]
ASSUME NoneAssumption == None \notin Batches

(* What a post says of an alert: its phase, when that began, until when it *)
(* is to be held, and the evaluation it comes from.                        *)
Nothing == [phase |-> "none", since |-> Zero, endsAt |-> Zero, at |-> Zero]
Message(item, a) ==
    [phase |-> a.phase, since |-> Since(a), at |-> item.now,
     endsAt |-> EndsAt(item.now, GroupInterval[item.rule], a)]

Init ==
    /\ FifoInit /\ CadenceInit
    /\ clock = 1
    /\ next = [r \in Rules |-> 1]
    /\ active = [r \in Rules |-> {}]
    /\ due = {}
    /\ held = [e \in Endpoints |-> [l \in LabelSets |-> Nothing]]
    /\ told = [l \in LabelSets |-> Nothing]
    /\ clean = {}

Tick ==
    /\ clock < MaxTime
    /\ \A r \in Rules : clock + 1 - next[r] <= MaxLag
    /\ clock' = clock + 1
    /\ UNCHANGED <<next, active, fifoVars, due, cadenceVars, held, told, clean>>

(* runGroup's next boundary: one interval on, and past every boundary that *)
(* is already behind the clock.                                            *)
NextBoundary(r) ==
    LET step == GroupInterval[r]
        late == clock - (next[r] + step)
    IN  IF late <= 0 THEN next[r] + step
        ELSE next[r] + step + step * ((late + step - 1) \div step)

(* Mutant: the newest batch goes first. *)
EnqueueInFront(item, k) ==
    /\ k \in 0..Len(waiting) /\ Len(waiting) - k < MaxWaiting
    /\ waiting' = <<item>> \o SubSeq(waiting, k + 1, Len(waiting))
    /\ UNCHANGED inHand

(* Enqueue: the k oldest batches make room, for any k a capacity in alerts *)
(* may ask for, then the new one is put: LossyFifo's Lose and Put in one   *)
(* critical section.                                                       *)
Enqueue(item, k) ==
    /\ k \in 0..Len(waiting) /\ Len(waiting) - k < MaxWaiting
    /\ waiting' = Append(SubSeq(waiting, k + 1, Len(waiting)), item)
    /\ UNCHANGED inHand

(* The query answered with rows.  The instances are put on the queue, all  *)
(* of them, unless there are none.                                         *)
Evaluate(r, rows, k) ==
    /\ clock >= next[r]
    /\ LET returned == {Labels(Definition[r], row) : row \in rows}
           insts    == EvalInstances(Rule(r), active[r], returned, next[r])
       IN  /\ active' = [active EXCEPT ![r] = insts]
           /\ IF insts = {} THEN k = 0 /\ UNCHANGED fifoVars
              ELSE Enqueue([rule |-> r, now |-> next[r], alerts |-> insts], k)
    /\ next' = [next EXCEPT ![r] = NextBoundary(r)]
    /\ clean' = {r} \cup {s \in clean : s \notin {waiting[i].rule : i \in 1..k}
                                      \/ s \in {waiting[i].rule : i \in (k + 1)..Len(waiting)}}
    /\ UNCHANGED <<clock, due, cadenceVars, held, told>>

(* The query failed, or was refused by Alert State: the source is skipped  *)
(* for this boundary and nothing is put.                                   *)
EvaluateFails(r) ==
    /\ clock >= next[r]
    /\ next' = [next EXCEPT ![r] = NextBoundary(r)]
    /\ UNCHANGED <<clock, active, fifoVars, due, cadenceVars, held, told, clean>>

(* The worker takes a batch and asks what of it is due. *)
Judge ==
    /\ Take
    /\ due' = DueAt(Head(waiting).now, Head(waiting).alerts)
    /\ UNCHANGED <<rulerVars, cadenceVars, held, told, clean>>

(* Nothing is: Cadence.Send returns without posting. *)
NothingDue ==
    /\ inHand # None /\ due = {}
    /\ Finish
    /\ UNCHANGED <<rulerVars, due, cadenceVars, held, told, clean>>

Outcomes == {"accepted", "refused", "unanswered"}

(* Mutant: the error of the send is ignored. *)
DeliveredRegardless(outcome) == TRUE

(* Fanout.Send reports success if any endpoint took the post. *)
Delivered(outcome) == \E e \in Endpoints : outcome[e] = "accepted"

(* Posted to every endpoint, and recorded if delivered. *)
Post(outcome) ==
    LET item  == inHand
        Says(old) == [l \in LabelSets |->
                        IF \E a \in due : a.labels = l
                        THEN Message(item, CHOOSE a \in due : a.labels = l)
                        ELSE old[l]]
    IN  /\ inHand # None /\ due # {}
        /\ held' = [e \in Endpoints |-> IF outcome[e] = "refused" THEN held[e] ELSE Says(held[e])]
        /\ IF Delivered(outcome)
           THEN /\ Record(item.now, GroupInterval[item.rule], due)
                /\ told' = Says(told)
                /\ UNCHANGED clean
           ELSE /\ UNCHANGED <<cadenceVars, told>>
                /\ clean' = IF \E i \in DOMAIN waiting : waiting[i].rule = item.rule
                            THEN clean ELSE clean \ {item.rule}
        /\ Finish
        /\ due' = {}
        /\ UNCHANGED rulerVars

Next ==
    \/ Tick
    \/ \E r \in Rules : \/ \E rows \in SUBSET Rows[r], k \in 0..Len(waiting) : Evaluate(r, rows, k)
                        \/ EvaluateFails(r)
    \/ Judge \/ NothingDue
    \/ \E outcome \in [Endpoints -> Outcomes] : Post(outcome)

Spec == Init /\ [][Next]_vars

-----------------------------------------------------------------------------
TypeOK ==
    /\ clock \in 1..MaxTime
    /\ \A r \in Rules : next[r] \in Nat /\ \A i \in active[r] : i.labels \in LabelSets
    /\ Len(waiting) <= MaxWaiting
    /\ due # {} => inHand # None /\ due \subseteq inHand.alerts
    /\ \A fp \in DOMAIN lastSent : lastSent[fp] \in 1..MaxTime
    /\ lastSwept \in {NeverSwept} \cup (1..MaxTime)

Knows(m, a) == m.phase = a.phase /\ m.since = Since(a)

(* What the throttle holds back, Alertmanager has been told: an alert of   *)
(* the batch in hand that is not posted was delivered in this very phase   *)
(* of this very instance.  A new phase never waits for a resend interval.  *)
SuppressedIsKnown ==
    inHand # None => \A a \in inHand.alerts :
        a.phase # "pending" /\ a \notin due => Knows(told[a.labels], a)

(* The resend interval bounds the traffic: an alert that was delivered in  *)
(* its present phase is posted again only an interval later, although      *)
(* other groups' sends sweep the record it is throttled by.                *)
ThrottleHolds ==
    \A a \in due : Knows(told[a.labels], a) =>
        inHand.now - told[a.labels].at >= ResendInterval

(* The record is never ahead of Alertmanager: a fingerprint recorded as    *)
(* sent at some evaluation is held, from that evaluation or a later one,   *)
(* by an endpoint, whichever endpoints refused or lost their answer.       *)
RecordedIsHeld ==
    \A fp \in DOMAIN lastSent : \E e \in Endpoints, l \in LabelSets :
        Hash(l) = fp /\ held[e][l].at >= lastSent[fp]

(* Alertmanager never goes back: an endpoint is never posted something     *)
(* older than what it holds, so a firing alert cannot overwrite the        *)
(* resolve that ended it.                                                  *)
NeverRegresses ==
    [][\A e \in Endpoints, l \in LabelSets :
         held'[e][l] # held[e][l] =>
            held'[e][l].at >= held[e][l].at /\ held'[e][l].since >= held[e][l].since]_vars

(* End to end: once a rule's latest batch went through the queue without   *)
(* being lost or failing, Alertmanager has been told the present phase of  *)
(* every firing and resolved instance the rule tracks.                     *)
ToldWhenQuiet ==
    \A r \in clean :
        /\ inHand = None
        /\ ~\E i \in DOMAIN waiting : waiting[i].rule = r
        => \A a \in active[r] : a.phase # "pending" => Knows(told[a.labels], a)

(* A condition that comes back while its resolve is retained replaces the  *)
(* resolved instance.  If Alertmanager was told that the instance fired,   *)
(* the recovery so forgotten was reported, or is still in the queue.       *)
ForgottenResolveWasReported ==
    [][\A r \in Rules : \A a \in active[r] :
         /\ a.phase = "resolved"
         /\ told[a.labels].phase = "firing" /\ told[a.labels].since = a.firedAt
         /\ \E b \in active'[r] : b.labels = a.labels /\ b.activeAt # a.activeAt
         => \/ inHand # None /\ a \in inHand.alerts
            \/ \E i \in DOMAIN waiting' : a \in waiting'[i].alerts]_vars
=============================================================================
