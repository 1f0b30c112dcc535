------------------------------ MODULE MCRuler ------------------------------
(***************************************************************************)
(* Two sources and two groups over versions of the files that differ in    *)
(* what a reload has to tell apart: a source whose definition changed, one *)
(* no rule reaches any more, a contract that refuses, a credential and a   *)
(* CA half way through their rotation, a client pair rotated in place, a   *)
(* file nobody can read.                                                   *)
(***************************************************************************)
EXTENDS Ruler

NoSecret == [file |-> "none", env |-> "none"]
NoMaterial ==
    [set |-> FALSE, ca |-> "none", cert |-> "none", key |-> "none", paths |-> "none", insecure |-> FALSE]
Src(name, table, policy) ==
    [name |-> name, address |-> "host", database |-> "otel", username |-> "ruler", table |-> table,
     timestamp |-> "ts", secret |-> NoSecret, secure |-> "", tls |-> NoMaterial,
     caps |-> [c \in Caps |-> ""], labels |-> [name |-> name, all |-> "yes"], checks |-> policy, exempt |-> {}]
Am(secret, ca) ==
    [urls |-> <<[scheme |-> "https", userinfo |-> FALSE, host |-> "am1"]>>,
     basic |-> [set |-> TRUE, username |-> "ruler", secret |-> [file |-> secret, env |-> "none"]],
     authz |-> [set |-> FALSE, kind |-> "", secret |-> NoSecret],
     tls |-> [NoMaterial EXCEPT !.set = TRUE, !.ca = ca], exempt |-> {}]
Asks(severity) ==
    {[check |-> "source/privileges", fields |-> {"severity"}, severity |-> severity, keys |-> {}]}
Strict == Asks(Error)
Unchecked == Asks(Off)
OnAll == "all" :> "yes"
Version(groups, sources, ams) ==
    [readable |-> TRUE, tree |-> {}, groups |-> groups, sources |-> sources, alertmanagers |-> ams,
     root |-> NoPolicy]
(* The source presents a client pair, at one pair of paths.                *)
Presents(src, pair) ==
    [src EXCEPT !.tls = [NoMaterial EXCEPT !.set = TRUE, !.cert = pair, !.key = pair, !.paths = "tls"]]
Both(pair) == <<Presents(Src("a", "logs", Unchecked), pair), Src("b", "logs", Strict)>>
First == Version([g1 |-> OnAll], Both("k1"), <<Am("s1", "ca1")>>)

MCFiles ==
    [first   |-> First,
     moved   |-> Version([g2 |-> OnAll], <<Src("a", "traces", Unchecked)>>, <<Am("s2", "ca2")>>),
     rotating |-> [First EXCEPT !.sources = Both("k2"), !.alertmanagers = <<Am("unreadable", "ca2")>>],
     broken  |-> [First EXCEPT !.tree = {"yaml/syntax"}],
     missing |-> [First EXCEPT !.readable = FALSE]]

Rows(const) == [n \in DOMAIN constrained |-> [value |-> 0, bounded |-> TRUE, const |-> const]]
               @@ "readonly" :> [value |-> 2, bounded |-> FALSE, const |-> const]
Meets == [opens |-> TRUE, alive |-> TRUE, probes |-> [p \in probes |-> "denied"], table |-> "ran",
          distributed |-> TRUE, clusters |-> "ran", settings |-> Rows(TRUE)]
MCAnswers == {Meets, [Meets EXCEPT !.probes = [p \in probes |-> "deadline"]], [Meets EXCEPT !.opens = FALSE]}
=============================================================================
