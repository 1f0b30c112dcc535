----------------------------- MODULE MCDelivery -----------------------------
(* Two rules in groups of different pace, each with one possible alert: a  *)
(* fast one with a `for`, and a slow one that goes on firing once it does. *)
EXTENDS Delivery

CONSTANTS e1, e2, fast, slow

NoLabels == [k \in {} |-> ""]

MCDefinition ==
    [r \in {fast, slow} |->
        [alert |-> IF r = fast THEN "Fast" ELSE "Slow", groupLabels |-> NoLabels,
         labels |-> NoLabels, srcName |-> "c1", srcLabels |-> NoLabels,
         for |-> IF r = fast THEN 1 ELSE 0, keepFiringFor |-> IF r = fast THEN 0 ELSE 20]]

MCGroupInterval == [r \in {fast, slow} |-> IF r = fast THEN 2 ELSE 6]
MCRows == [r \in {fast, slow} |-> {NoLabels}]

(* The alert name tells the label sets apart, and so does this hash. *)
MCHash(l) == l[LabelAlertname]

(* The endpoints are all posted the same and no property names one. *)
MCSymmetry == Permutations({e1, e2})
=============================================================================
