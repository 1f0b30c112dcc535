---------------------------- MODULE MCQueryLimits ----------------------------
(* Two queries against a capped source and two against an uncapped one.    *)
EXTENDS QueryLimits

MCQueries == {"a1", "a2", "b1", "b2"}
MCTarget == [q \in MCQueries |-> IF q \in {"a1", "a2"} THEN "a" ELSE "b"]
MCSourceCap == [s \in {"a", "b"} |-> IF s = "a" THEN 1 ELSE 0]
=============================================================================
