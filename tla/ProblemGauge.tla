---------------------------- MODULE ProblemGauge ----------------------------
(***************************************************************************)
(* What a running ruler says is wrong with its rules: the problem gauge    *)
(* and its three feeds (internal/scheduler: evalGroup and ruleeval.go,     *)
(* drift.go, recheck.go, load.go), and the metric series a reload deletes  *)
(* (deleteGoneSeries, metrics.go).                                         *)
(*                                                                         *)
(* A configuration is [rules, problems]: the rules loaded, each [alert,    *)
(* group, file, team, interval, policy, sources], its sources in name      *)
(* order as [name, policy, exempt], and the findings of the reading.  A    *)
(* result of one source is [kind, shape, rows, rendered]: "abandoned" when *)
(* no query was sent, "failed", "rejected" when the rows could not become  *)
(* alerts, and "answered"; rendered is whether annotations were rendered   *)
(* and how.                                                                *)
(***************************************************************************)
EXTENDS Policy

CONSTANTS
    Configs,   \* the configurations a reload may read
    Results,   \* what one source may answer an evaluation
    MaxSteps   \* bound: evaluations, re-checks and reloads of one behaviour

(* The sources of a rule are a list. *)
ASSUME ConfigsAssumption ==
    \A c \in Configs : \A r \in c.rules : r.sources \in Seq(Range(r.sources))

VARIABLES
    conf,      \* the configuration running
    gauge,     \* the series of the problem gauge
    series,    \* the series of every other family, by the labels it carries
    prev,      \* <<rule, source>> -> the shape of its last answer
    loading,   \* Reload has returned and ReportLoadFindings has not run
    said,      \* history: what the last answer about a question was
    shapes,    \* history: the last two answers of each source since the reload
    steps

gaugeVars == <<conf, gauge, series, prev, loading, said, shapes, steps>>

None == ""
Empty == [x \in {} |-> {}]
Names(r) == {r.sources[i].name : i \in 1..Len(r.sources)}
Reached(c) == UNION {Names(r) : r \in c.rules}
Pairs(c) == {<<r.alert, r.file>> : r \in c.rules}
Raise(r, check, sev, src) ==
    [rule |-> r.alert, check |-> check, severity |-> sev, team |-> r.team,
     file |-> r.file, source |-> src]

-----------------------------------------------------------------------------
(* runtimeProblem: at the merged policy's severity, unless it is off or    *)
(* the source is exempt; a check nobody configures is an error.            *)
SettingFor(r, src, check) == For(Merge(<<r.policy, src.policy>>), check)
runtimeProblem(r, src, check) ==
    LET sev == IF Configurable(check) THEN SettingFor(r, src, check).severity ELSE Error IN
    IF sev = Off \/ (Configurable(check) /\ check \in src.exempt)
    THEN {} ELSE {Raise(r, check, sev, src.name)}

(* overCost: the rows of the evaluation, and the rows a second when the    *)
(* group has an interval, against the ceilings; an absent ceiling is the   *)
(* shipped one, and with neither there is nothing to hold it to.           *)
CostCeiling(s, name) ==
    IF HasLimit(s, name) THEN Limit(s, name) ELSE Limit(defaultFor("rule/cost"), name)
overCost(r, src, rows) ==
    LET s == SettingFor(r, src, "rule/cost") IN
    /\ s.severity # Off
    /\ HasLimit(s, "max-rows-read") \/ HasLimit(s, "max-rows-per-second")
    /\ \/ rows > CostCeiling(s, "max-rows-read")
       \/ r.interval > 0 /\ rows > CostCeiling(s, "max-rows-per-second") * r.interval

(* drift.disagreements: two answers of different shape; about no source,   *)
(* and at the rule's own policy.                                           *)
Answering(r, out) == {i \in 1..Len(r.sources) : out[i].kind = "answered"}
Keys(r, at) == {<<r, r.sources[i].name>> : i \in at}
disagreements(r, out) ==
    LET evals == Answering(r, out)
        sev == For(r.policy, "rule/source-schema").severity
    IN  IF /\ Cardinality(evals) >= 2 /\ sev # Off
           /\ \E i \in evals : out[i].shape # out[Min(evals)].shape
        THEN {Raise(r, "rule/source-schema", sev, None)} ELSE {}

(* drift.inspect of one source's result, against the shape kept for it.    *)
inspect(r, i, out) ==
    LET src == r.sources[i]
        key == <<r, src.name>>
    IN  CASE out[i].kind = "answered" ->
               (IF key \in DOMAIN prev /\ prev[key] # out[i].shape
                THEN runtimeProblem(r, src, "rule/columns") ELSE {})
               \union (IF overCost(r, src, out[i].rows) THEN runtimeProblem(r, src, "rule/cost") ELSE {})
          [] out[i].kind = "failed" -> runtimeProblem(r, src, "rule/execution")
          [] OTHER -> {}
AnnotationFindings(r, i, out) ==
    IF out[i].kind = "answered" /\ out[i].rendered = "broken"
    THEN runtimeProblem(r, r.sources[i], "annotations/template") ELSE {}
Problems(r, out) ==
    (UNION {inspect(r, i, out) \union AnnotationFindings(r, i, out) : i \in 1..Len(r.sources)})
    \union disagreements(r, out)

(* Mutant: a question is answered whenever its rule was evaluated. *)
AnswersOfEvery(r, i, out) ==
    {<<c, r.sources[i].name>> : c \in {"rule/columns", "rule/cost", "rule/execution",
                                       "annotations/template"}}

(* answeredChecks: the questions this evaluation answered, each the check  *)
(* and the source, None for the one about all sources together.            *)
AnswersOf(r, i, out) ==
    LET name == r.sources[i].name IN
    (IF out[i].kind = "answered" THEN {<<"rule/columns", name>>, <<"rule/cost", name>>} ELSE {})
    \union (IF out[i].kind \in {"answered", "failed"} THEN {<<"rule/execution", name>>} ELSE {})
    \union (IF out[i].kind = "answered" /\ out[i].rendered # "nothing"
            THEN {<<"annotations/template", name>>} ELSE {})
answeredChecks(r, out) ==
    LET replied == Cardinality(Answering(r, out)) IN
    (UNION {AnswersOf(r, i, out) : i \in 1..Len(r.sources)})
    \union (IF replied >= 2 \/ (replied > 0 /\ Len(r.sources) < 2)
            THEN {<<"rule/source-schema", None>>} ELSE {})

(* DeletePartialMatch as evalGroup calls it: by rule, file and check, and  *)
(* by source when the answer names one.                                    *)
Cleared(r, a, x) ==
    x.rule = r.alert /\ x.file = r.file /\ x.check = a[1] /\ (a[2] = None \/ x.source = a[2])

(* The series an evaluation writes in the other families.                  *)
Series(family, group, rule, source) ==
    [family |-> family, group |-> group, rule |-> rule, source |-> source]
EvaluationSeries(r, out) ==
    {Series("group", r.group, None, None), Series("rule", r.group, r.alert, None)}
    \union UNION {{Series("cost", None, r.alert, r.sources[i].name),
                   Series("duration", r.group, r.alert, r.sources[i].name),
                   Series("memory", None, r.alert, None),
                   Series("wait", None, None, r.sources[i].name)}
                  : i \in {j \in 1..Len(r.sources) : out[j].kind \in {"answered", "rejected"}}}

-----------------------------------------------------------------------------
(* The histories: what the last answer said about each question, and the   *)
(* shapes answered.  A question is asked of a rule by its name and file.   *)
Question(r, check, src) == <<r.alert, r.file, check, src>>
Settled(r, out) ==
    LET srcs(kinds) == {i \in 1..Len(r.sources) : out[i].kind \in kinds}
        rendered == {i \in srcs({"answered"}) : out[i].rendered # "nothing"}
    IN  {<<"rule/cost", r.sources[i].name>> : i \in srcs({"answered"})}
        \union {<<"rule/execution", r.sources[i].name>> : i \in srcs({"answered", "failed"})}
        \union {<<"annotations/template", r.sources[i].name>> : i \in rendered}
        \union {<<c, None>> : c \in IF Cardinality(srcs({"answered"})) >= Min({2, Len(r.sources)})
                                    THEN {"rule/source-schema"} ELSE {}}
Remember(r, questions, found) ==
    said' = [q \in DOMAIN said \union {Question(r, a[1], a[2]) : a \in questions} |->
                IF \E a \in questions : q = Question(r, a[1], a[2])
                THEN {x.severity : x \in {y \in found : y.check = q[3] /\ y.source = q[4]}}
                ELSE said[q]]
LastTwo(s) == IF Len(s) > 2 THEN Tail(s) ELSE s
(* What each source answered: its shape, and whether the findings of the   *)
(* load were still to come.                                                *)
RememberShapes(r, out) ==
    shapes' = [k \in DOMAIN shapes \union Keys(r, Answering(r, out)) |->
        LET old == IF k \in DOMAIN shapes THEN shapes[k] ELSE <<>>
            now == {i \in Answering(r, out) : k \in Keys(r, {i})}
        IN  IF now = {} THEN old
            ELSE LastTwo(Append(old, [shape |-> out[CHOOSE i \in now : TRUE].shape, early |-> loading]))]

-----------------------------------------------------------------------------
LoadOwned == {c \in DOMAIN checks : Fixed(c) /\ ~RefusesReading(c)}
TeamOf(c, p) ==
    LET owners == {r \in c.rules : r.alert = p.subject /\ r.file = p.file} IN
    IF owners = {} THEN None ELSE (CHOOSE r \in owners : TRUE).team
LoadSeries(c) ==
    {[rule |-> p.subject, check |-> p.check, severity |-> p.severity, team |-> TeamOf(c, p),
      file |-> p.file, source |-> None]
     : p \in {x \in c.problems : x.check \in LoadOwned /\ x.severity = Error}}
(* What build writes: the unmatched count and the interval of each group.  *)
BuildSeries(c) == {Series("group", r.group, None, None) : r \in c.rules}

GaugeInit ==
    /\ conf \in Configs
    /\ gauge = LoadSeries(conf) /\ series = BuildSeries(conf)
    /\ prev = Empty /\ loading = FALSE
    /\ said = Empty /\ shapes = Empty /\ steps = 0

Tick == steps < MaxSteps /\ steps' = steps + 1

(* The shapes kept for the next comparison: a source that did not answer   *)
(* keeps the one it had.                                                   *)
(* Mutant: a source whose query failed has none. *)
BaselinesForgotten(r, out) ==
    LET failing == {i \in 1..Len(r.sources) : out[i].kind = "failed"} IN
    [k \in (DOMAIN prev \ Keys(r, failing)) \union Keys(r, Answering(r, out)) |->
        LET now == {i \in Answering(r, out) : k \in Keys(r, {i})} IN
        IF now = {} THEN prev[k] ELSE out[CHOOSE i \in now : TRUE].shape]
Baselines(r, out) ==
    [k \in DOMAIN prev \union Keys(r, Answering(r, out)) |->
        LET now == {i \in Answering(r, out) : k \in Keys(r, {i})} IN
        IF now = {} THEN prev[k] ELSE out[CHOOSE i \in now : TRUE].shape]

(* One tick of a rule that matched: Evaluate, then evalGroup's reporting.  *)
Evaluate(r, out) ==
    /\ r.sources # <<>>
    /\ Tick
    /\ prev' = Baselines(r, out)
    /\ gauge' = {x \in gauge : ~\E a \in answeredChecks(r, out) : Cleared(r, a, x)}
                \union Problems(r, out)
    /\ series' = series \union EvaluationSeries(r, out)
    /\ Remember(r, Settled(r, out), Problems(r, out))
    /\ RememberShapes(r, out)
    /\ UNCHANGED <<conf, loading>>

(* recheckRuleOnce and the pass around it, for one rule: sampled says what *)
(* each source answered.  A source whose policy turns the check off is     *)
(* asked without being sampled; one that could not be sampled is not.      *)
Wanted(r, i) == SettingFor(r, r.sources[i], "rule/attribute-key").severity # Off
Asked(r, sampled) ==
    {i \in 1..Len(r.sources) : ~Wanted(r, i) \/ sampled[i] \in {"missing", "clean"}}
Recheck(r, sampled) ==
    LET about == {<<"rule/attribute-key", r.sources[i].name>> : i \in Asked(r, sampled)}
        found == UNION {runtimeProblem(r, r.sources[i], "rule/attribute-key")
                        : i \in {j \in Asked(r, sampled) : Wanted(r, j) /\ sampled[j] = "missing"}}
    IN  /\ r.sources # <<>>
        /\ Tick
        /\ gauge' = {x \in gauge : ~\E a \in about : Cleared(r, a, x)} \union found
        /\ series' = series \union {Series("wait", None, None, r.sources[i].name)
                                    : i \in {j \in 1..Len(r.sources) : Wanted(r, j) /\ sampled[j] = "refused"}}
        /\ Remember(r, about, found)
        /\ UNCHANGED <<conf, prev, loading, shapes>>

(* describe and deleteGoneSeries: what the old configuration named and the *)
(* new one does not.                                                       *)
Groups(c) == {r.group : r \in c.rules}
RuleKeys(c) == {<<r.group, r.alert>> : r \in c.rules}
deleteGroup(ss, c) ==
    {x \in ss : ~(x.family \in {"group", "rule", "duration"} /\ x.group \in Groups(conf) \ Groups(c))}
deleteRule(ss, c) ==
    {x \in ss : ~(x.family = "rule" /\ <<x.group, x.rule>> \in RuleKeys(conf) \ RuleKeys(c))}
deleteRuleName(ss, c) ==
    LET gone == {k[2] : k \in RuleKeys(conf) \ RuleKeys(c)} \ {k[2] : k \in RuleKeys(c)} IN
    {x \in ss : ~(x.family \in {"cost", "memory", "duration"} /\ x.rule \in gone)}
deleteSource(ss, c) ==
    {x \in ss : ~(x.family \in {"cost", "duration", "wait"} /\ x.source \in Reached(conf) \ Reached(c))}

(* Mutant: the gauge keyed by rule name alone. *)
deleteProblemsByName(g, c) ==
    {x \in g : /\ x.rule \notin {r.alert : r \in conf.rules} \ {r.alert : r \in c.rules}
               /\ x.source \notin Reached(conf) \ Reached(c)}
deleteProblems(g, c) ==
    {x \in g : <<x.rule, x.file>> \notin Pairs(conf) \ Pairs(c)
               /\ x.source \notin Reached(conf) \ Reached(c)}

(* Scheduler.Reload once the evaluations of the old configuration are      *)
(* done: every rule evaluator is new, with no shape kept.                  *)
Reload(c) ==
    /\ ~loading
    /\ Tick
    /\ conf' = c
    /\ gauge' = deleteProblems(gauge, c)
    /\ series' = deleteSource(deleteRuleName(deleteRule(deleteGroup(series, c), c), c), c)
                 \union BuildSeries(c)
    /\ prev' = Empty /\ shapes' = Empty
    /\ loading' = TRUE
    /\ said' = [q \in {k \in DOMAIN said : <<k[1], k[2]>> \in Pairs(c)
                                           /\ (k[4] = None \/ k[4] \in Reached(c))} |-> said[q]]

(* ReportLoadFindings clears the checks it owns, whoever raised them.      *)
NotLoadOwned == {x \in gauge : x.check \notin LoadOwned}
ReportLoadFindings ==
    /\ loading
    /\ gauge' = NotLoadOwned \union LoadSeries(conf)
    /\ loading' = FALSE
    /\ UNCHANGED <<conf, series, prev, said, shapes, steps>>

GaugeNext ==
    \/ \E r \in conf.rules : \E out \in [1..Len(r.sources) -> Results] : Evaluate(r, out)
    \/ \E r \in conf.rules :
          \E sampled \in [1..Len(r.sources) -> {"missing", "clean", "refused", "abandoned"}] :
              Recheck(r, sampled)
    \/ \E c \in Configs : Reload(c)
    \/ ReportLoadFindings

-----------------------------------------------------------------------------
(* A rule no other rule shares its name and file with: series cannot tell  *)
(* two such rules apart.                                                   *)
Alone(r) == \A o \in conf.rules : (o.alert = r.alert /\ o.file = r.file) => o = r
Shown(r, check, src) ==
    {x.severity : x \in {y \in gauge : y.rule = r.alert /\ y.file = r.file
                                       /\ y.check = check /\ y.source = src}}
RuntimeChecks == {"rule/execution", "rule/cost", "annotations/template", "rule/attribute-key",
                  "rule/source-schema"}

(* The load owns none of these, and owns the report of a change of shape,  *)
(* which nobody configures: a closed fact about the table.                 *)
ASSUME FeedsAssumption ==
    /\ RuntimeChecks \cap LoadOwned = {}
    /\ "rule/columns" \in LoadOwned /\ ~Configurable("rule/columns")

(* The gauge repeats the last answer: what a series says of a rule on a    *)
(* source is what the last evaluation or re-check that could answer that   *)
(* question said, however many abandoned, failed or empty passes, passes   *)
(* of the other feed and reloads came after it.                            *)
GaugeIsLastAnswer ==
    \A r \in conf.rules : \A check \in RuntimeChecks : \A src \in Names(r) \union {None} :
        Shown(r, check, src) =
            IF Question(r, check, src) \in DOMAIN said THEN said[Question(r, check, src)] ELSE {}

(* A change of shape is reported, and nothing else is: of a source that    *)
(* has answered since the reload, a rule/columns series stands exactly if  *)
(* its last two answers had different shapes, whatever failures, abandoned *)
(* or rejected evaluations, re-checks and other rules came between.  Of a  *)
(* change seen before the findings of the load were reported it says only  *)
(* that a series is right, since that report deletes it.                   *)
DriftIsChange ==
    \A r \in conf.rules : Alone(r) => \A src \in Names(r) :
        <<r, src>> \in DOMAIN shapes =>
            LET answers == shapes[<<r, src>>]
                changed == Len(answers) = 2 /\ answers[1].shape # answers[2].shape
                shown == Shown(r, "rule/columns", src) # {}
            IN  /\ shown => changed
                /\ changed /\ answers[Len(answers)].early = loading => shown

(* Nothing outlives its owner: once a reload has reported, every series    *)
(* names a group, a rule, a file and a source the configuration has, and a *)
(* finding of the reading is one of this reading's.                        *)
NothingOutlivesItsOwner ==
    /\ \A x \in series :
          /\ x.group = None \/ x.group \in Groups(conf)
          /\ x.rule = None \/ x.rule \in {r.alert : r \in conf.rules}
          /\ x.source = None \/ x.source \in Reached(conf)
          /\ x.family = "rule" => <<x.group, x.rule>> \in RuleKeys(conf)
    /\ \A x \in gauge :
          /\ x.check \notin LoadOwned => <<x.rule, x.file>> \in Pairs(conf)
          /\ x.source # None => <<x.rule, x.file>> \in Pairs(conf) /\ x.source \in Reached(conf)
          /\ (~loading /\ x.check \in LoadOwned /\ x.source = None) => x \in LoadSeries(conf)
=============================================================================
