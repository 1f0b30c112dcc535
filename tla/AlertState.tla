----------------------------- MODULE AlertState -----------------------------
(***************************************************************************)
(* The alert instances of one rule against one source                      *)
(* (internal/alert/state.go, type State): how a row a query returns        *)
(* becomes a pending instance, a firing one after `for`, a resolved one    *)
(* once it has been absent for keep_firing_for, and how a reload keeps or  *)
(* discards all of it (Adopt, and RuleEval.carry in                        *)
(* internal/scheduler/ruleeval.go, its only caller).                       *)
(*                                                                         *)
(* active is the map fingerprint -> slice of instances, flattened to a set *)
(* of instances that carry their fingerprint: the order inside a slice is  *)
(* only ever seen through snapshot, which sorts it away.  Values and       *)
(* rendered annotations are left out, no transition looks at them.         *)
(***************************************************************************)
EXTENDS Sequences, AlertInstances

CONSTANTS
    Definitions,  \* the definitions a (re)load may bring: rule, source and retention
    Rows,         \* the label columns of the rows a query may return
    MaxRows,      \* bound: rows in one query result
    MaxTime       \* bound: the last evaluation time considered

LabelSets == {Labels(d, row) : d \in Definitions, row \in Rows}

(* A definition's fields: the rule's name, labels, `for` and               *)
(* keep_firing_for, its group's labels, the source's name and labels, and  *)
(* the retention the scheduler derived for the group.                      *)
ASSUME DefinitionsAssumption ==
    \A d \in Definitions :
        d.for \in Nat /\ d.keepFiringFor \in Nat /\ d.retention \in Nat

ASSUME BoundsAssumption == MaxRows \in Nat /\ MaxTime \in Nat

VARIABLES
    def,      \* the definition the state points at: rule, src, base, retention
    active,   \* every tracked instance
    clock,    \* the time of the latest evaluation
    result,   \* what the latest call reported
    seen      \* history: when each label set was returned, read by properties only

vars == <<def, active, clock, result, seen>>

Instance == [labels : LabelSets, fp : {Hash(l) : l \in LabelSets}, phase : Phases,
             activeAt : Time, firedAt : Time, resolvedAt : Time, lastSeen : Time]

(* since is the start of the unbroken run of successful evaluations, the   *)
(* latest one included, that returned a label set (Zero when the latest    *)
(* did not); last is the latest evaluation that returned it.               *)
Sightings == [since : Time, last : Time]
Unseen == [since |-> Zero, last |-> Zero]

-----------------------------------------------------------------------------
Init ==
    /\ def \in Definitions
    /\ active = {}
    /\ clock = 1
    /\ result = "new"
    /\ seen = [l \in LabelSets |-> Unseen]

Sight(s, returned, now) ==
    [l \in LabelSets |->
        IF l \in returned
        THEN [since |-> IF s[l].since = Zero THEN now ELSE s[l].since, last |-> now]
        ELSE [s[l] EXCEPT !.since = Zero]]

Results == UNION {[1..n -> Rows] : n \in 0..MaxRows}

(* One evaluation at time now of a query that returned rows. *)
Eval(now, rows) ==
    /\ ~Duplicated(def, rows)
    /\ LET returned == {Labels(def, rows[i]) : i \in DOMAIN rows} IN
        /\ active' = EvalInstances(def, active, returned, now)
        /\ seen' = Sight(seen, returned, now)
    /\ clock' = now
    /\ result' = "evaluated"
    /\ UNCHANGED def

(* The evaluation is refused: DuplicateLabelSetError. *)
EvalDuplicate(now, rows) ==
    /\ Duplicated(def, rows)
    /\ clock' = now
    /\ result' = "duplicate"
    /\ UNCHANGED <<def, active, seen>>

(* Mutant: the source's labels left out of the comparison. *)
SameNames(d, e) ==
    /\ d.alert = e.alert
    /\ BaseLabels(d.groupLabels, d.labels) = BaseLabels(e.groupLabels, e.labels)
    /\ d.srcName = e.srcName

(* Adopt's question: would the new definition build the same label sets? *)
SameIdentity(d, e) ==
    /\ d.alert = e.alert
    /\ BaseLabels(d.groupLabels, d.labels) = BaseLabels(e.groupLabels, e.labels)
    /\ d.srcName = e.srcName
    /\ d.srcLabels = e.srcLabels

(* A reload that Adopt accepts: the instances stay and the rest of the     *)
(* definition is the new one.                                              *)
Adopt(d) ==
    /\ SameIdentity(def, d)
    /\ def' = d
    /\ result' = "adopted"
    /\ UNCHANGED <<active, clock, seen>>

(* A reload that Adopt refuses: carry keeps the state New built for the    *)
(* new definition, which tracks nothing.                                   *)
Replace(d) ==
    /\ ~SameIdentity(def, d)
    /\ def' = d
    /\ active' = {}
    /\ seen' = [l \in LabelSets |-> Unseen]
    /\ result' = "replaced"
    /\ UNCHANGED clock

(* Evaluations of one state come in the order of their tick times. *)
Next ==
    \/ \E now \in clock..MaxTime, rows \in Results : Eval(now, rows) \/ EvalDuplicate(now, rows)
    \/ \E d \in Definitions : Adopt(d) \/ Replace(d)

Spec == Init /\ [][Next]_vars

-----------------------------------------------------------------------------
TypeOK ==
    /\ def \in Definitions
    /\ active \subseteq Instance
    /\ clock \in Time \ {Zero}
    /\ result \in {"new", "evaluated", "duplicate", "adopted", "replaced"}
    /\ seen \in [LabelSets -> Sightings]

(* One label set is one alert: no two instances share it, whatever was     *)
(* replaced, kept or carried over a reload on the way.  Two instances of   *)
(* one alert would run two `for` timers and report two phases.             *)
OneInstancePerLabelSet ==
    \A i, j \in active : i.labels = j.labels => i = j

(* Every label set the latest successful evaluation returned has a live    *)
(* instance of its own, even when it shares its hash with another, and a   *)
(* pending one measures `for` from the start of the unbroken run of        *)
(* evaluations that returned it: a gap of one evaluation restarts it, a    *)
(* failed evaluation or an adopted reload does not.                        *)
ReturnedIsTracked ==
    \A l \in LabelSets : seen[l].since # Zero =>
        \E i \in active :
            /\ i.labels = l
            /\ i.phase # "resolved"
            /\ i.lastSeen = seen[l].last
            /\ i.phase = "pending" => i.activeAt = seen[l].since

(* Every instance has a label set that an evaluation under the present     *)
(* definition can return again.  Adopt's comment gives this as the reason  *)
(* it compares names and labels: an instance that could never be returned  *)
(* would be resolved although nothing recovered.                           *)
InstancesReproducible ==
    \A i \in active : \E row \in Rows : i.labels = Labels(def, row)

(* After a successful evaluation nothing is left that it should have moved *)
(* on: no pending instance is absent or has already waited `for`, no       *)
(* firing one has been absent for keep_firing_for, no resolved one is past *)
(* its retention.                                                          *)
EvaluationSettles ==
    result = "evaluated" => \A i \in active :
        /\ i.phase = "pending" =>
              seen[i.labels].since # Zero /\ clock - seen[i.labels].since < def.for
        /\ i.phase = "firing" =>
              seen[i.labels].since # Zero \/ clock - seen[i.labels].last < def.keepFiringFor
        /\ i.phase = "resolved" =>
              seen[i.labels].since = Zero /\ clock - i.resolvedAt <= def.retention

InPhase(insts, l, phase) == \E i \in insts : i.labels = l /\ i.phase = phase

(* An alert starts firing only when evaluations have returned it without a *)
(* gap for at least `for`, counting from the first one.                    *)
FiresOnlyAfterFor ==
    [][\A l \in LabelSets :
         InPhase(active', l, "firing") /\ ~InPhase(active, l, "firing") =>
            seen'[l].since # Zero /\ clock' - seen'[l].since >= def.for]_vars

(* An alert resolves only from firing, and only when no evaluation of the  *)
(* last keep_firing_for returned it.                                       *)
ResolvesOnlyAfterKeep ==
    [][\A l \in LabelSets :
         InPhase(active', l, "resolved") /\ ~InPhase(active, l, "resolved") =>
            /\ InPhase(active, l, "firing")
            /\ seen'[l].since = Zero
            /\ clock' - seen'[l].last >= def.keepFiringFor]_vars

(* An alert somebody may have been told about is not forgotten: a firing   *)
(* one leaves only by resolving, and a resolved one only when its          *)
(* retention is over or its condition came back, unless the reload brought *)
(* a different alert.                                                      *)
NotForgotten ==
    [][result' # "replaced" => \A i \in active :
         /\ i.phase = "firing" =>
               \E j \in active' : j.labels = i.labels /\ j.activeAt = i.activeAt
                                  /\ j.firedAt = i.firedAt /\ j.phase # "pending"
         /\ i.phase = "resolved" =>
               \/ i \in active'
               \/ clock' - i.resolvedAt > def.retention
               \/ seen'[i.labels].since = clock']_vars
=============================================================================
