------------------------------ MODULE Commands ------------------------------
(***************************************************************************)
(* What the ruler tells the owners of its rules, over the three ways it    *)
(* does: `ruler check` over a tree (cmd/ruler/main.go), a replay of one    *)
(* rule (`ruler check --backfill`), and a running ruler's problem gauge.   *)
(* The first two read an input, give an output and end; the third is the   *)
(* state machine of ProblemGauge.                                          *)
(*                                                                         *)
(* An input of `ruler check` is [yamlOK, yaml, policy, dirOK, tree, args,  *)
(* since, git, changed, now, online, answers]: ruler.yaml as in Sources,   *)
(* the instance policy [explicit, exists, checks], the tree as in RuleSet, *)
(* the paths named, whether --changed-since was given and what git says,   *)
(* and what each source answers the contract check when it is online.      *)
(***************************************************************************)
EXTENDS RuleSet, Contract, ProblemGauge, Replay

CONSTANTS CheckInputs, ReplayInputs

(* Row counts are unsigned, a replay has a length and a cadence and ends at *)
(* an instant, and a query answers finitely many rows.                      *)
ASSUME ReplayAssumption ==
    \A c \in ReplayInputs :
        /\ {c.range, c.step, c.perWindow, c.ceiling} \subseteq Nat /\ c.now \in Int
        /\ c.range > 0 /\ c.step > 0 => \A at \in Range(Instants(c)) : IsFiniteSet(c.rows[at])

(* What a file system and the readers of its files hold to: a path, and a  *)
(* name in a directory, is one file; a directory's path is a list of       *)
(* names, what a file holds are lists; policy.yaml is YAML by its name.    *)
ASSUME TreeAssumption ==
    \A i \in CheckInputs :
        /\ i.tree \in Seq(Range(i.tree)) /\ i.yaml.sources \in Seq(Range(i.yaml.sources))
        /\ \A e \in Range(i.tree) :
              /\ e.dir \in Seq(STRING) /\ e.groups \in Seq(Range(e.groups))
              /\ \A g \in Range(e.groups) : g.rules \in Seq(Range(g.rules))
              /\ e.name = "policy.yaml" => e.yaml
        /\ \A e, f \in Range(i.tree) :
              e.path = f.path \/ (e.dir = f.dir /\ e.name = f.name) => e = f

(* The severity of a policy entry parses or is Invalid, and its keys are   *)
(* bare or carry a number.                                                 *)
Authored(entries) ==
    \A e \in entries : e.severity \in Severities \union {Invalid} /\ \A k \in e.keys : k.limit \in Int
ASSUME EntriesAssumption ==
    \A i \in CheckInputs :
        /\ Authored(i.policy.checks)
        /\ \A s \in Range(i.yaml.sources) : Authored(s.checks)
        /\ \A e \in Range(i.tree) : Authored(e.checks)

VARIABLES cmd, input, output
vars == <<cmd, input, output, gaugeVars>>

NotYet == [exit |-> ""]

(* loadPolicy: only a policy file named on the command line must exist; no *)
(* policy at all is an empty one.                                          *)
loadPolicy(p) ==
    [ok |-> p.exists \/ ~p.explicit,
     policy |-> IF p.exists THEN Parse(p.checks) ELSE NoPolicy,
     problems |-> IF p.exists THEN {NewProblem("policy.yaml", "", c, Error) : c \in ParseProblems(p.checks)}
                              ELSE {}]

(* check: everything is read and checked first, and narrowed afterwards.   *)
Under(tree) == [f \in {e.path : e \in Range(tree)} |->
    LET e == CHOOSE x \in Range(tree) : x.path = f IN {f} \union {e.dir[i] : i \in 1..Len(e.dir)}]
Files(tree) == {e.path : e \in ruleFiles(tree)}
check(i) ==
    LET src == loadSources(i.yaml, i.now)
        root == loadPolicy(i.policy)
        found == src.problems \union root.problems
                 \union LoadProblems(i.dirOK, i.tree, src.file.sources, root.policy)
                 \union (IF i.online THEN checkPrivileges(src.file.sources, root.policy, i.answers) ELSE {})
        policies == {e.path : e \in teamPolicies(i.tree)}
        recent == IF i.since THEN ChangedSince(i.git, i.changed, {"ruler.yaml", "policy.yaml"}, policies)
                  ELSE AllFiles
        kept == Keep(Paths(Files(i.tree), Under(i.tree), i.args), Keep(recent, found))
    IN  IF ~i.yamlOK \/ ~root.ok \/ ~PathsOK(Files(i.tree), Under(i.tree), i.args)
        THEN [exit |-> "exitUsage", problems |-> {}, rules |-> <<>>, sources |-> {}, root |-> NoPolicy]
        ELSE [exit |-> Exit(kept), problems |-> kept,
              rules |-> LoadRules(i.dirOK, i.tree, src.file.sources, root.policy),
              sources |-> src.file.sources, root |-> root.policy]

-----------------------------------------------------------------------------
NoGauge ==
    /\ conf = [rules |-> {}, problems |-> {}] /\ gauge = {} /\ series = {}
    /\ prev = Empty /\ loading = FALSE /\ said = Empty /\ shapes = Empty /\ steps = 0
Init ==
    /\ output = NotYet
    /\ \/ cmd = "check" /\ input \in CheckInputs /\ NoGauge
       \/ cmd = "backfill" /\ input \in ReplayInputs /\ NoGauge
       \/ cmd = "run" /\ input = NotYet /\ GaugeInit
Answers(out) == output = NotYet /\ output' = out /\ UNCHANGED <<cmd, input, gaugeVars>>
CheckRules == cmd = "check" /\ Answers(check(input))
ReplayRule == cmd = "backfill" /\ Answers([exit |-> "exitOK", counts |-> Backfill(input), finding |-> Finding(input)])
RunRules == cmd = "run" /\ GaugeNext /\ UNCHANGED <<cmd, input, output>>
Next == CheckRules \/ ReplayRule \/ RunRules
Spec == Init /\ [][Next]_vars

-----------------------------------------------------------------------------
Checked == cmd = "check" /\ output # NotYet /\ output.exit # "exitUsage"
Governing(r) ==
    LET dir == (CHOOSE e \in Range(input.tree) : e.path = r.file).dir IN
    {output.root} \union {s.policy : s \in r.sources}
    \union {Parse(e.checks) : e \in {x \in Range(input.tree) :
              x.name = "policy.yaml" /\ x.state = "ok" /\ x.dir # <<>> /\ IsPrefix(x.dir, dir)}}
Merged(r) == policyFor(r, output.sources, r.policy)

(* Every scope binds: whatever the order of the scopes, what a rule is     *)
(* held to is, check by check, at least as strict as what the instance,    *)
(* each team directory above it and each source it reaches ask for.        *)
PolicyBinds ==
    Checked => \A r \in Range(output.rules) : \A scope \in Governing(r) : \A c \in DOMAIN scope :
                    AsStrict(c, For(Merged(r), c), scope[c])

(* Every collision is reported: where two or more rules of one identity    *)
(* run, some finding is raised about one of them at the highest severity   *)
(* any of their policies sets for it, and by default if none says a word.  *)
Configures(r) == "rule/duplicate-alert" \in DOMAIN Merged(r)
CollisionReported ==
    Checked => \A i, j \in 1..Len(output.rules) :
        LET all == {k \in 1..Len(output.rules) : alertIdentity(output.rules[k]) = alertIdentity(output.rules[i])}
            severities == {Merged(output.rules[k])["rule/duplicate-alert"].severity
                           : k \in {x \in all : Configures(output.rules[x])}}
            wanted == IF severities = {} THEN Warning ELSE Max(severities)
        IN  (i # j /\ j \in all /\ output.rules[i].sources # {} /\ wanted # Off
             /\ input.args = {} /\ ~input.since) =>
                \E p \in output.problems : \E k \in all :
                    /\ p.check = "rule/duplicate-alert" /\ p.severity = wanted
                    /\ p.subject = output.rules[k].alert /\ p.file = output.rules[k].file

Replayed == cmd = "backfill" /\ output # NotYet
(* A replay reads no more than its ceiling: the predicted rows of all its  *)
(* windows together fit, however the step divides the range, unless it is  *)
(* down to the one window it cannot do without.                            *)
ReplayWithinCeiling ==
    (Replayed /\ input.range > 0 /\ input.step > 0 /\ input.ceiling > 0) =>
        LET windows == Len(Instants(input)) IN
        windows = 1 \/ windows * input.perWindow <= input.ceiling

(* A replay counts what would have fired: the alerts it reports are the    *)
(* times an instance turned firing over the instants replayed, an alert    *)
(* that stopped and came back being two.                                   *)
ReplayCountsFirings ==
    (Replayed /\ output.counts.ok) => output.counts.alerts = Firings(input, Instants(input))
=============================================================================
