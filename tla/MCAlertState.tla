---------------------------- MODULE MCAlertState ----------------------------
(* Small instances of AlertState: one rule, edited four ways by reloads.   *)
EXTENDS AlertState

NoLabels == [k \in {} |-> ""]
Host(h) == [k \in {"host"} |-> h]
Team(t) == [k \in {"team"} |-> t]

(* As loaded first. *)
Loaded ==
    [alert |-> "High", groupLabels |-> Team("db"), labels |-> NoLabels,
     for |-> 2, keepFiringFor |-> 2, srcName |-> "c1", srcLabels |-> NoLabels,
     retention |-> 2]

(* The team label moved from the group to the rule and every duration      *)
(* changed: still the same alert.                                          *)
Edited ==
    [Loaded EXCEPT !.groupLabels = NoLabels, !.labels = Team("db"),
                   !.for = 1, !.keepFiringFor = 0, !.retention = 1]

(* The source gained a label that overwrites the column telling rows apart. *)
Relabelled == [Loaded EXCEPT !.srcLabels = Host("cluster"), !.for = 0]

(* Another team: a different label set, so a different alert. *)
Reassigned == [Loaded EXCEPT !.groupLabels = Team("web"), !.for = 0]

MCDefinitions == {Loaded, Edited, Relabelled, Reassigned}

(* Two hosts, and one of them again with a team column the ruler drops. *)
MCRows == {Host("a"), Host("b"), [k \in {"host", "team"} |-> IF k = "host" THEN "a" ELSE "x"]}

(* Every label set hashes alike: the worst a 64-bit hash can do. *)
MCHash(l) == 7
=============================================================================
