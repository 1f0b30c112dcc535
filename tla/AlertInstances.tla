--------------------------- MODULE AlertInstances ---------------------------
(***************************************************************************)
(* What one evaluation does to the alert instances of a rule against a     *)
(* source (internal/alert/state.go: Eval, resolveLabels, track,            *)
(* newInstance, expire), as operators on a set of instances.  AlertState   *)
(* is the state machine built from them, Delivery composes them with the   *)
(* queue and the resend cadence.                                           *)
(*                                                                         *)
(* An instance is a record: its final label set, their hash, its phase and *)
(* the times of its phases.                                                *)
(***************************************************************************)
EXTENDS Naturals, AlertLabels

CONSTANT Hash(_)  \* the 64-bit hash of a final label set; collisions allowed

(* Go's zero time, before every evaluation. *)
Zero == 0
Time == Nat
Phases == {"pending", "firing", "resolved"}

(* The final label set of a row under a definition. *)
Labels(d, row) ==
    LabelsFor(d.alert, BaseLabels(d.groupLabels, d.labels), d.srcName, d.srcLabels, row)

(* resolveLabels: two rows that end up as the same alert.  The hash alone  *)
(* is not identity, so a collision is not a duplicate.                     *)
Duplicated(d, rows) ==
    \E i, j \in DOMAIN rows :
        /\ i # j
        /\ Hash(Labels(d, rows[i])) = Hash(Labels(d, rows[j]))
        /\ Labels(d, rows[i]) = Labels(d, rows[j])

(* Mutant: the hash taken for identity. *)
MatchesByHash(inst, l) == inst.fp = Hash(l)

(* track's test that an instance is the one a label set belongs to. *)
Matches(inst, l) == inst.fp = Hash(l) /\ inst.labels = l

NewInstance(l, now) ==
    [labels |-> l, fp |-> Hash(l), phase |-> "pending",
     activeAt |-> now, firedAt |-> Zero, resolvedAt |-> Zero, lastSeen |-> Zero]

(* track, over a whole result: the instances that continue, and a new one  *)
(* for every other label set.  A resolved instance does not continue, it   *)
(* is replaced by a new one.                                               *)
Continuing(insts, returned) ==
    {inst \in insts : inst.phase # "resolved" /\ \E l \in returned : Matches(inst, l)}

Track(insts, returned, now) ==
    Continuing(insts, returned) \cup
    {NewInstance(l, now) : l \in
        {m \in returned : ~\E inst \in Continuing(insts, returned) : Matches(inst, m)}}

(* What an evaluation does to an instance it returned. *)
Advance(d, inst, now) ==
    IF inst.phase = "pending" /\ now - inst.activeAt >= d.for
    THEN [inst EXCEPT !.lastSeen = now, !.phase = "firing", !.firedAt = now]
    ELSE [inst EXCEPT !.lastSeen = now]

(* Mutant: a resolved instance stays beside the one that replaces it. *)
AbsentOrResolved(insts, returned) ==
    {inst \in insts : inst.phase = "resolved" \/ ~\E l \in returned : Matches(inst, l)}

(* expire: which of the instances an evaluation did not return stay, and   *)
(* what becomes of them.                                                   *)
Absent(insts, returned) == {inst \in insts : ~\E l \in returned : Matches(inst, l)}

(* Mutants: a pending instance survives a gap; a resolve is reported once; *)
(* a resolve is retained for ever.                                         *)
KeptThroughGap(d, inst, now) == inst.phase = "resolved" => now - inst.resolvedAt <= d.retention
KeptUntilReported(d, inst, now) == inst.phase = "firing"
KeptForEver(d, inst, now) == inst.phase # "pending"

Kept(d, inst, now) ==
    CASE inst.phase = "pending"  -> FALSE
      [] inst.phase = "resolved" -> now - inst.resolvedAt <= d.retention
      [] inst.phase = "firing"   -> TRUE

(* Mutant: keep_firing_for measured from the wrong end. *)
ExpireFromFired(d, inst, now) ==
    IF inst.phase = "firing" /\ now - inst.firedAt >= d.keepFiringFor
    THEN [inst EXCEPT !.phase = "resolved", !.resolvedAt = now]
    ELSE inst

Expire(d, inst, now) ==
    IF inst.phase = "firing" /\ now - inst.lastSeen >= d.keepFiringFor
    THEN [inst EXCEPT !.phase = "resolved", !.resolvedAt = now]
    ELSE inst

EvalInstances(d, insts, returned, now) ==
    {Advance(d, inst, now) : inst \in Track(insts, returned, now)}
    \cup
    {Expire(d, inst, now) : inst \in {i \in Absent(insts, returned) : Kept(d, i, now)}}
=============================================================================
