----------------------------- MODULE MCCommands -----------------------------
(***************************************************************************)
(* Inputs of the three commands: a tree of two teams, one with a directory *)
(* below it, under every combination of a few policies; replays of every   *)
(* pattern of results over six instants, and of every small range, step    *)
(* and ceiling; and two configurations of a running ruler.                 *)
(***************************************************************************)
EXTENDS Commands

MCHash(labels) == labels

-----------------------------------------------------------------------------
(* `ruler check`.                                                          *)
Say(about, severity, keys) ==
    [check |-> about, fields |-> {"severity"} \union (IF keys = {} THEN {} ELSE {"keys"}),
     severity |-> severity, keys |-> keys]
Policies ==
    {{},
     {Say("rule/duplicate-alert", Off, {}), Say("rule/for", Error, {}), Say("rule/name", Off, {})},
     {Say("rule/duplicate-alert", Error, {}), Say("rule/cost", Warning, {Ceil("max-rows-read", 5)}),
      Say("labels/required", Error, Bare({"tier"}))},
     {Say("rule/cost", Error, {Ceil("max-rows-read", 9), Ceil("speed", 1)}),
      Say("rule/table-function", Error, Bare({"numbers"})), Say("no/such", Error, {})}}

NoSecret == [file |-> "none", env |-> "none"]
NoMaterial ==
    [set |-> FALSE, ca |-> "none", cert |-> "none", key |-> "none", paths |-> "none", insecure |-> FALSE]
Src(name, policy) ==
    [name |-> name, address |-> "host", database |-> "otel", username |-> "ruler", table |-> "logs",
     timestamp |-> "ts", secret |-> NoSecret, secure |-> "",
     tls |-> [NoMaterial EXCEPT !.set = TRUE, !.insecure = TRUE],
     caps |-> [c \in Caps |-> ""], labels |-> ("dc" :> "west"), checks |-> policy,
     exempt |-> {[check |-> "source/tls-insecure", reason |-> "agreed", until |-> 3]}]
Yaml(policy) ==
    [sources |-> <<Src("a", policy), [Src("b", {}) EXCEPT !.table = ""]>>,
     alertmanagers |-> <<[urls |-> <<[scheme |-> "http", userinfo |-> FALSE, host |-> "am1"]>>,
        basic |-> [set |-> FALSE, username |-> "", secret |-> NoSecret],
        authz |-> [set |-> TRUE, kind |-> "", secret |-> [file |-> "none", env |-> "token"]],
        tls |-> NoMaterial, exempt |-> {}]>>]

Expr == [reads |-> {"From", "To", "Table"}, parses |-> TRUE]
Rule(alert, selector) ==
    [alert |-> alert, expr |-> Expr, selector |-> selector, window |-> 60, for |-> 30, fields |-> {"for"},
     labels |-> ("severity" :> "page"), annotations |-> ("runbook_url" :> "relative"), aliases |-> {"team"}]
Group(name, rules) == [name |-> name, interval |-> 60, labels |-> ("team" :> "x"), rules |-> rules]
West == "dc" :> "west"
East == "dc" :> "east"
File(path, dir, name, rules) ==
    [path |-> path, dir |-> dir, name |-> name, yaml |-> TRUE, state |-> "ok",
     groups |-> IF rules = <<>> THEN <<>> ELSE <<Group("g", rules)>>, checks |-> {}]
Team(path, dir, checks_) == [File(path, dir, "policy.yaml", <<>>) EXCEPT !.checks = checks_]
Tree(a, ax, b, state) ==
    <<File("a/r", <<"a">>, "r.yaml", <<Rule("Down", West), Rule("Down", East)>>),
      Team("a/p", <<"a">>, a),
      File("a/x/r", <<"a", "x">>, "r.yaml", <<Rule("Down", West)>>),
      Team("a/x/p", <<"a", "x">>, ax),
      [File("a/..data/r", <<"a", "..data">>, "r.yaml", <<Rule("Hidden", West)>>) EXCEPT !.groups = <<>>],
      File("b/r", <<"b">>, "r.yaml", <<Rule("Down", West)>>),
      [Team("b/p", <<"b">>, b) EXCEPT !.state = state],
      File("policy.yaml", <<>>, "policy.yaml", <<>>)>>
(* A rule that selects the sources without a label and writes where the    *)
(* ruler does, and one in a directory that is not walked.                  *)
Odd(tree) ==
    [tree EXCEPT ![1].groups[1].rules[1].selector = ("zone" :> ""),
                 ![1].groups[1].rules[1].annotations = ("ruler_note" :> "text"),
                 ![3].dir = <<"a", "..old">>]
Apart(tree) == [tree EXCEPT ![3].groups = <<Group("g", <<Rule("Up", West)>>)>>]

Rows == [n \in DOMAIN constrained |-> [value |-> 0, bounded |-> TRUE, const |-> FALSE]]
        @@ "readonly" :> [value |-> 2, bounded |-> FALSE, const |-> TRUE]
Answer(probe, settings) ==
    [opens |-> TRUE, alive |-> TRUE, probes |-> [p \in probes |-> probe], table |-> "ran",
     distributed |-> FALSE, clusters |-> "silent", settings |-> settings]

Base == [yamlOK |-> TRUE, yaml |-> Yaml({}), policy |-> [explicit |-> FALSE, exists |-> FALSE, checks |-> {}],
         dirOK |-> TRUE, tree |-> Tree({}, {}, {}, "ok"), args |-> {}, since |-> FALSE, git |-> TRUE,
         changed |-> {}, now |-> 3, online |-> FALSE, answers |-> Empty]
Named(checks_) == [explicit |-> TRUE, exists |-> TRUE, checks |-> checks_]
MCCheckInputs ==
    {[Base EXCEPT !.policy = Named(root), !.tree = Tree(a, ax, b, "ok"), !.yaml = Yaml(src)]
        : root \in Policies, a \in Policies, ax \in Policies, b \in Policies, src \in Policies}
    \union {[Base EXCEPT !.tree = Apart(Tree(a, {}, b, "ok"))] : a \in Policies, b \in Policies}
    \union {[Base EXCEPT !.yamlOK = FALSE], [Base EXCEPT !.policy.explicit = TRUE],
            [Base EXCEPT !.dirOK = FALSE], [Base EXCEPT !.args = {"nowhere"}],
            [Base EXCEPT !.args = {"a"}], [Base EXCEPT !.since = TRUE, !.changed = {"b/r"}],
            [Base EXCEPT !.since = TRUE, !.changed = {"a/p"}], [Base EXCEPT !.now = 2],
            [Base EXCEPT !.tree = Tree({}, {}, {}, "unreadable")],
            [Base EXCEPT !.tree = Odd(Tree({}, {}, {}, "ok"))]}
    \union {[Base EXCEPT !.online = TRUE, !.answers = [n \in {"a", "b"} |-> Answer(probe, settings)]]
            : probe \in {"denied", "failed", "deadline", "silent"}, settings \in {Rows, NotRead}}

-----------------------------------------------------------------------------
(* A replay.                                                               *)
Label(v) == "alertname" :> v
Def(for, keep) == [for |-> for, keepFiringFor |-> keep, retention |-> 2, window |-> 1]
Whole ==
    [def |-> Def(0, 0), range |-> 6, step |-> 1, estimated |-> TRUE, perWindow |-> 1, ceiling |-> 0,
     maxAlerts |-> 1, now |-> 12, delay |-> 1,
     rows |-> [t \in 1..12 |-> {}], fails |-> {}, resolved |-> TRUE, ttl |-> 0,
     earliest |-> [c1 |-> 8, c2 |-> 1], read |-> {"c1"}]
MCReplayInputs ==
    {[Whole EXCEPT !.def = Def(for, keep), !.ceiling = ceiling,
                   !.rows = [t \in 1..12 |-> IF t - 6 \in on THEN {Label("x")} ELSE {}]]
        : on \in SUBSET (1..6), for \in 0..2, keep \in {0, 2}, ceiling \in {0, 3}}
    \union {[Whole EXCEPT !.range = range, !.step = step, !.perWindow = rows, !.ceiling = ceiling]
        : range \in 0..11, step \in 1..3, rows \in 1..3, ceiling \in 1..8}
    \union {[Whole EXCEPT !.fails = {9}], [Whole EXCEPT !.estimated = FALSE], [Whole EXCEPT !.resolved = FALSE], [Whole EXCEPT !.ttl = 3],
            [Whole EXCEPT !.rows = [t \in 1..12 |-> {Label("x"), Label("y")}]]}

-----------------------------------------------------------------------------
(* A running ruler.                                                        *)
Target(name, policy, exempt) == [name |-> name, policy |-> policy, exempt |-> exempt]
Ruled(alert, group, file, policy, sources) ==
    [alert |-> alert, group |-> group, file |-> file, team |-> "x", interval |-> 60,
     policy |-> policy, sources |-> sources]
A == Target("a", NoPolicy, {})
B == Target("b", Parse({Say("rule/execution", Warning, {})}), {"rule/cost"})
Quiet == Parse({Say("rule/attribute-key", Off, {})})
Before == [rules |-> {Ruled("Down", "f:g", "f", NoPolicy, <<A, B>>), Ruled("Slow", "f:h", "f", Quiet, <<A>>)},
           problems |-> {NewProblem("f", "Down", "rule/expr", Error), NewProblem("f", "", "yaml/syntax", Error)}]
After == [rules |-> {Ruled("Down", "f:g", "f", Quiet, <<A>>), Ruled("Slow", "k:h", "k", NoPolicy, <<A>>)},
          problems |-> {NewProblem("k", "Slow", "rule/name", Error), NewProblem("k", "Slow", "rule/for", Warning)}]
MCConfigs == {Before, After}
Answered(shape, rows, rendered) == [kind |-> "answered", shape |-> shape, rows |-> rows, rendered |-> rendered]
MCResults ==
    {Answered("s1", 0, "nothing"), Answered("s1", 200000000, "fine"), Answered("s2", 0, "broken"),
     [Answered("", 0, "nothing") EXCEPT !.kind = "failed"],
     [Answered("", 0, "nothing") EXCEPT !.kind = "abandoned"],
     [Answered("", 0, "nothing") EXCEPT !.kind = "rejected"]}
=============================================================================
