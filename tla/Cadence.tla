------------------------------- MODULE Cadence -------------------------------
(***************************************************************************)
(* The resend cadence (internal/notify/cadence.go): which of an            *)
(* evaluation's alerts are worth posting, how long Alertmanager is asked   *)
(* to hold a firing one, and the record of what was delivered.  An alert   *)
(* is an instance record of AlertInstances; the record of deliveries is    *)
(* kept per fingerprint.                                                   *)
(*                                                                         *)
(* Its only caller is the send queue's worker, so dueAt, the post and      *)
(* record of one batch never interleave with another batch's.              *)
(***************************************************************************)
EXTENDS Integers

CONSTANTS
    ResendInterval,  \* --resend-interval
    Tolerance        \* --resend-tolerance

(* What cmd/ruler/run.go refuses to start without. *)
ASSUME ResendAssumption ==
    ResendInterval \in Nat \ {0} /\ Tolerance \in Nat /\ Tolerance >= 2

VARIABLES
    lastSent,   \* fingerprint -> evaluation time of its last delivered post
    lastSwept   \* the evaluation time of the last sweep of lastSent

cadenceVars == <<lastSent, lastSwept>>

(* lastSwept starts as Go's zero time, further back than any interval. *)
NeverSwept == 0 - ResendInterval

CadenceInit ==
    /\ lastSent = [fp \in {} |-> 0]
    /\ lastSwept = NeverSwept

(* The period an alert is re-sent on, and how far ahead its expiry is set.  *)
(* Resend.retention in internal/scheduler/sender.go, which sizes the window *)
(* a resolve is kept for, is the same expression.                           *)
Period(evalInterval) == IF evalInterval > ResendInterval THEN evalInterval ELSE ResendInterval
(* Mutant: sized by the resend interval alone. *)
ValidityOfResend(evalInterval) == Tolerance * ResendInterval
Validity(evalInterval) == Tolerance * Period(evalInterval)

(* When the alert entered the phase it is in. *)
Since(a) == IF a.phase = "firing" THEN a.firedAt ELSE a.resolvedAt

(* Mutant: throttled by fingerprint alone. *)
DueByInterval(now, a) ==
    \/ a.fp \notin DOMAIN lastSent
    \/ now - lastSent[a.fp] >= ResendInterval

(* due: nothing was delivered since the phase began, or a resend interval  *)
(* has passed.                                                             *)
Due(now, a) ==
    \/ a.fp \notin DOMAIN lastSent
    \/ lastSent[a.fp] < Since(a)
    \/ now - lastSent[a.fp] >= ResendInterval

(* The endsAt of the payload: the stamped validity of a firing alert, the  *)
(* resolve time of a resolved one.                                         *)
EndsAt(now, evalInterval, a) ==
    IF a.phase = "firing" THEN now + Validity(evalInterval) ELSE a.resolvedAt

(* Mutant: a resolve is left to expire. *)
DueAtFiring(now, alerts) == {a \in alerts : a.phase = "firing" /\ Due(now, a)}

(* dueAt: pending alerts are never due. *)
DueAt(now, alerts) == {a \in alerts : a.phase # "pending" /\ Due(now, a)}

(* prune, given the record with the batch just delivered already in it. *)
SweepDue(now) == now - lastSwept >= ResendInterval
(* Mutant: everything from before this send is dead weight. *)
ExpiredAtOnce(now, evalInterval, sent) == now > sent
Expired(now, evalInterval, sent) == now - sent > Validity(evalInterval) + ResendInterval

(* record: what was delivered, then the sweep. *)
Record(now, evalInterval, due) ==
    LET fps  == {a.fp : a \in due}
        sent == [fp \in DOMAIN lastSent \cup fps |-> IF fp \in fps THEN now ELSE lastSent[fp]]
        kept == {fp \in DOMAIN sent : ~Expired(now, evalInterval, sent[fp])}
    IN  IF SweepDue(now)
        THEN /\ lastSent' = [fp \in kept |-> sent[fp]]
             /\ lastSwept' = now
        ELSE /\ lastSent' = sent
             /\ UNCHANGED lastSwept
=============================================================================
