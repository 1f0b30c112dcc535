---------------------------- MODULE ResendBudget ----------------------------
(***************************************************************************)
(* How many failures a firing alert survives at Alertmanager.  One alert   *)
(* that keeps firing, in a group that evaluates exactly on its interval    *)
(* and whose batches are posted at once; an evaluation fails *)
(* (the query or the post did), or it works and posts the alert if the     *)
(* cadence says it is due.  Failures come at most MaxFailures in a row.    *)
(***************************************************************************)
EXTENDS Cadence

CONSTANTS
    GroupIntervals, \* the intervals the alert's group may have
    MaxFailures,    \* consecutive failed evaluations or sends
    MaxTime         \* bound: the last evaluation time considered

ASSUME BudgetAssumption ==
    GroupIntervals \subseteq Nat \ {0} /\ MaxFailures \in Nat /\ MaxTime \in Nat

VARIABLES
    interval, \* the interval of the alert's group
    clock,   \* the time of the latest evaluation
    misses,  \* consecutive failures up to and including that evaluation
    endsAt   \* external: until when Alertmanager holds the alert as firing

vars == <<lastSent, lastSwept, interval, clock, misses, endsAt>>

Alert == [fp |-> "alert", phase |-> "firing", firedAt |-> 1]

(* The alert has just fired and its first post was taken. *)
Init ==
    /\ interval \in GroupIntervals
    /\ clock = 1 /\ misses = 0
    /\ lastSent = [fp \in {Alert.fp} |-> 1]
    /\ lastSwept = 1
    /\ endsAt = EndsAt(1, interval, Alert)

(* The next evaluation works. *)
Works(now) ==
    /\ clock' = now /\ misses' = 0
    /\ IF Alert \in DueAt(now, {Alert})
       THEN /\ Record(now, interval, {Alert})
            /\ endsAt' = EndsAt(now, interval, Alert)
       ELSE UNCHANGED <<lastSent, lastSwept, endsAt>>

(* The next evaluation, or its send, fails: nothing is recorded. *)
Fails(now) ==
    /\ misses < MaxFailures
    /\ clock' = now /\ misses' = misses + 1
    /\ UNCHANGED <<lastSent, lastSwept, endsAt>>

Next ==
    /\ clock + interval <= MaxTime
    /\ Works(clock + interval) \/ Fails(clock + interval)
    /\ UNCHANGED interval

Spec == Init /\ [][Next]_vars

(* Alertmanager still holds the alert as firing when the next evaluation   *)
(* is due, so that evaluation can renew it before it expires.              *)
StaysFiring == clock + interval < endsAt
=============================================================================
