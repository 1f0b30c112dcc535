---------------------------- MODULE AlertLabels ----------------------------
(***************************************************************************)
(* How an alert's final label set is composed (internal/alert/state.go,    *)
(* baseLabels and labelsFor).  A label set is a function from label names  *)
(* to values.  The final label set is the identity of an alert instance,   *)
(* so every other module that talks about "the same alert" goes through    *)
(* LabelsFor.                                                              *)
(***************************************************************************)

LabelTeam == "team"
LabelAlertname == "alertname"
LabelSource == "source"

(* The map that holds weak's entries overwritten by strong's: what the Go  *)
(* code does with one `for k, v := range strong { m[k] = v }` loop.        *)
Overlay(weak, strong) ==
    [k \in DOMAIN weak \cup DOMAIN strong |->
        IF k \in DOMAIN strong THEN strong[k] ELSE weak[k]]

(* The file-level label set: group labels overlaid with the rule's own.    *)
BaseLabels(groupLabels, ruleLabels) == Overlay(groupLabels, ruleLabels)

(* The columns of a result row that may become labels: all of them but     *)
(* team, which a query may not set.                                        *)
ColumnLabels(row) == [k \in DOMAIN row \ {LabelTeam} |-> row[k]]

(* The two labels the ruler sets itself, last, on every alert.             *)
IdentityLabels(alert, srcName) ==
    [k \in {LabelAlertname, LabelSource} |->
        IF k = LabelAlertname THEN alert ELSE srcName]

(* Group, rule, result columns, source labels, and then the identity pair, *)
(* weakest first.                                                          *)
LabelsFor(alert, base, srcName, srcLabels, row) ==
    Overlay(Overlay(Overlay(base, ColumnLabels(row)), srcLabels),
            IdentityLabels(alert, srcName))

=============================================================================
