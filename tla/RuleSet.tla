------------------------------ MODULE RuleSet ------------------------------
(***************************************************************************)
(* The rules directory (internal/ruleset, internal/rule): which files of   *)
(* the tree are rules and which are policies, the scopes that govern each  *)
(* rule, the sources it runs on, and every finding about it that needs no  *)
(* cluster.                                                                *)
(*                                                                         *)
(* A tree is a sequence of entries in the order the walk meets them:       *)
(* [path, dir, name, yaml, state, groups, checks], where dir is the        *)
(* directory's path from the root as a sequence (<<>> is the root), state  *)
(* is "ok", "unreadable" or "syntax", groups is what a rule file holds and *)
(* checks what a policy file holds.                                        *)
(***************************************************************************)
EXTENDS Sources

CONSTANTS
    Dotted,    \* the names of directories that begin with ".."
    Reserved   \* the names of annotations that begin with "ruler_"

(* ruleFiles: YAML files outside directories whose names begin with "..";  *)
(* policy.yaml below the root is a team's, ruler.yaml and the root's       *)
(* policy.yaml are neither.                                                *)
Walked(e) == e.yaml /\ ~\E i \in 1..Len(e.dir) : e.dir[i] \in Dotted
ruleFiles(tree) ==
    {e \in Range(tree) : Walked(e) /\ e.name \notin {"policy.yaml", "ruler.yaml"}}
teamPolicies(tree) ==
    {e \in Range(tree) : Walked(e) /\ e.name = "policy.yaml" /\ e.dir # <<>>}

(* readTeamPolicies: an unreadable one is reported and governs nothing; a  *)
(* file that is not YAML is reported and configures nothing.               *)
TeamFindings(e) ==
    CASE e.state = "unreadable" -> {NewProblem(e.path, "", "ruleset/directory", Error)}
      [] e.state = "syntax" -> {NewProblem(e.path, "", "yaml/syntax", Error)}
      [] OTHER -> {NewProblem(e.path, "", c, Error) : c \in ParseProblems(e.checks)}

(* teams: the policy of one directory, which says nothing where there is   *)
(* no file or none that reads.                                             *)
teams(tree, dir) ==
    LET own == {e \in teamPolicies(tree) : e.state = "ok" /\ e.dir = dir} IN
    IF own = {} THEN NoPolicy ELSE Parse((CHOOSE e \in own : TRUE).checks)
(* scopesFor: the instance policy, then the team policy of the file's      *)
(* directory and of each one above it, up to the root.                     *)
scopesFor(root, tree, file) ==
    LET depth == Len(file.dir) IN
    Merge(<<root>> \o [i \in 1..depth |-> teams(tree, SubSeq(file.dir, 1, depth + 1 - i))])

(* policyFor: what governs a rule, its sources' own policies included.     *)
policyFor(r, sources, located) ==
    LET matched == SetToSeq(Match(sources, r.selector)) IN
    Merge(<<located>> \o [i \in 1..Len(matched) |-> matched[i].policy])

EffectiveLabels(g, r) == r.labels @@ g.labels
Window(g, r) == IF "window" \in r.fields THEN r.window ELSE g.interval

-----------------------------------------------------------------------------
(* rule.Validate, check by check, as the names it raises.                  *)
groupName(groups, i) ==
    groups[i].name = "" \/ \E j \in 1..(i - 1) : groups[j].name = groups[i].name
ruleName(rules, i) ==
    rules[i].alert = "" \/ \E j \in 1..(i - 1) : rules[j].alert = rules[i].alert

(* An expression is "" or what its template reads, and whether it parses.  *)
exprVars == {"From", "To", "Table", "TimestampColumn"}
ruleExpr(r) ==
    \/ r.expr.reads = {}
    \/ ~{"From", "To"} \subseteq r.expr.reads
    \/ ~r.expr.parses
    \/ ~r.expr.reads \subseteq exprVars

requiredKeys(setting, have) ==
    \E k \in setting.keys : k.name \notin DOMAIN have \/ have[k.name] = ""

(* An annotation's value is "", or text that is or is not a template; a    *)
(* runbook_url's, text that is or is not an absolute URL.                  *)
annotationsRunbook(r) ==
    "runbook_url" \in DOMAIN r.annotations /\ r.annotations["runbook_url"] = "relative"
annotationsTemplate(r) == \E a \in DOMAIN r.annotations : r.annotations[a] = "notTemplate"
annotationsProtected(r) == Reserved \intersect DOMAIN r.annotations # {}

ShorterThanInterval(g, d) == d > 0 /\ g.interval > 0 /\ d < g.interval
ruleFor(g, r) == "for" \in r.fields /\ ShorterThanInterval(g, r.for)
ruleWindow(g, r) == ShorterThanInterval(g, Window(g, r))

(* The findings nobody may configure, raised at error; rule/for and        *)
(* rule/window refuse a negative duration at error too.                    *)
FixedFindings(g, i) ==
    LET r == g.rules[i] IN
    When(ruleName(g.rules, i), "rule/name") \union When(ruleExpr(r), "rule/expr")
    \union When(annotationsProtected(r), "annotations/protected")
    \union When("for" \in r.fields /\ r.for < 0, "rule/for")
    \union When(Window(g, r) < 0, "rule/window")

(* The findings a policy governs.                                          *)
PolicyFindings(g, r, p) ==
    When(requiredKeys(For(p, "labels/required"), EffectiveLabels(g, r)), "labels/required")
    \union When(requiredKeys(For(p, "annotations/required"), r.annotations), "annotations/required")
    \union When(annotationsRunbook(r), "annotations/runbook")
    \union When(annotationsTemplate(r), "annotations/template")
    \union When(ruleFor(g, r), "rule/for") \union When(ruleWindow(g, r), "rule/window")

(* add and addPolicy: at error, or at the policy's severity unless off.    *)
AtError(file, subject, names) == {NewProblem(file, subject, c, Error) : c \in names}
addPolicy(file, subject, names, p) ==
    {NewProblem(file, subject, c, For(p, c).severity) : c \in {x \in names : For(p, x).severity # Off}}

(* protectedLabels: the labels a rule sets and the columns its query names *)
(* that the ruler owns, given the sources matched.                         *)
protectedLabels(r, matched) ==
    \/ {"alertname", "source"} \cap DOMAIN r.labels # {}
    \/ ({"alertname", "source", "team"} \union UNION {DOMAIN s.labels : s \in matched})
         \cap r.aliases # {}
sourceMatch(matched) == When(matched = {}, "rule/source-match")

(* loadFile: the rules of one file as loaded, in order, and its findings.  *)
LoadedRule(file, g, r, sources, located) ==
    [alert |-> r.alert, selector |-> r.selector, file |-> file.path, group |-> g.name,
     labels |-> EffectiveLabels(g, r), sources |-> Match(sources, r.selector), policy |-> located]
FileRules(file, sources, located) ==
    FlattenSeq([i \in 1..Len(file.groups) |->
        [j \in 1..Len(file.groups[i].rules) |->
            LoadedRule(file, file.groups[i], file.groups[i].rules[j], sources, located)]])
RuleFindings(file, g, j, sources, located) ==
    LET r == g.rules[j]
        p == policyFor(r, sources, located)
        matched == Match(sources, r.selector)
    IN  AtError(file.path, r.alert, FixedFindings(g, j)
                  \union When(protectedLabels(r, matched), "rule/protected-label"))
        \union addPolicy(file.path, r.alert, PolicyFindings(g, r, p) \union sourceMatch(matched), p)
FileFindings(file, sources, located) ==
    UNION {AtError(file.path, file.groups[i].name, When(groupName(file.groups, i), "rule/group-name"))
           \union UNION {RuleFindings(file, file.groups[i], j, sources, located)
                         : j \in 1..Len(file.groups[i].rules)} : i \in 1..Len(file.groups)}

(* duplicateAlerts: each matched rule against the first of its identity,   *)
(* at the stricter of the two rules' policies.                             *)
alertIdentity(r) == <<r.alert, r.labels, {s.name : s \in r.sources}>>
(* Mutant: the rule reported decides alone. *)
DuplicateSettingOwn(prev, r, sources) == For(policyFor(r, sources, r.policy), "rule/duplicate-alert")
DuplicateSetting(prev, r, sources) ==
    For(Merge(<<policyFor(prev, sources, prev.policy), policyFor(r, sources, r.policy)>>),
        "rule/duplicate-alert")
(* What applies when no policy says a word: a closed fact about the table. *)
ASSUME DuplicateAssumption ==
    Configurable("rule/duplicate-alert") /\ defaultFor("rule/duplicate-alert").severity = Warning
FirstOf(rules, i) ==
    Min({j \in 1..i : rules[j].sources # {} /\ alertIdentity(rules[j]) = alertIdentity(rules[i])})
duplicateAlerts(rules, sources) ==
    LET later == {i \in 1..Len(rules) : rules[i].sources # {} /\ FirstOf(rules, i) # i}
        severity(i) == DuplicateSetting(rules[FirstOf(rules, i)], rules[i], sources).severity
    IN  {NewProblem(rules[i].file, rules[i].alert, "rule/duplicate-alert", severity(i))
         : i \in {x \in later : severity(x) # Off}}

(* Load: a directory that cannot be walked holds no rules.                 *)
LoadRules(dirOK, tree, sources, root) ==
    IF ~dirOK THEN <<>>
    ELSE FlattenSeq([i \in 1..Len(tree) |->
            LET f == tree[i] IN
            IF f \in ruleFiles(tree) /\ f.state = "ok"
            THEN FileRules(f, sources, scopesFor(root, tree, f)) ELSE <<>>])
ReadFindings(f, sources, located) ==
    CASE f.state = "unreadable" -> AtError(f.path, "", {"ruleset/directory"})
      [] f.state = "syntax" -> AtError(f.path, "", {"yaml/syntax"})
      [] OTHER -> FileFindings(f, sources, located)
LoadProblems(dirOK, tree, sources, root) ==
    IF ~dirOK THEN {NewProblem("", "", "ruleset/directory", Error)}
    ELSE (UNION {TeamFindings(e) : e \in teamPolicies(tree)})
         \union (UNION {ReadFindings(f, sources, scopesFor(root, tree, f)) : f \in ruleFiles(tree)})
         \union duplicateAlerts(LoadRules(dirOK, tree, sources, root), sources)
=============================================================================
