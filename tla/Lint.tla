-------------------------------- MODULE Lint --------------------------------
(***************************************************************************)
(* The lint framework (internal/lint): severities, the table of checks,    *)
(* the rule that a fixed check is raised at one severity only, and the     *)
(* filters of `ruler check` that leave findings out of a report.  A        *)
(* finding keeps its file, what it is about, its check and its severity;   *)
(* lines, texts and formats are left out.                                  *)
(***************************************************************************)
EXTENDS Integers, TLC

Off == 0
Warning == 1
Error == 2
Severities == {Off, Warning, Error}

(* A key of a check's list: a bare name, or a ceiling written name:number. *)
NoLimit == -1
Bare(names) == {[name |-> n, limit |-> NoLimit] : n \in names}
Ceil(name, n) == [name |-> name, limit |-> n]

(* One entry of the table, by what a check carries.                        *)
Entry(fixed, sev, list, keys, limits, flags) ==
    [fixed |-> fixed, refuses |-> FALSE, severity |-> sev,
     list |-> list, keys |-> keys, limits |-> limits, flags |-> flags]
Always(names, sev) == [c \in names |-> Entry(TRUE, sev, "none", {}, {}, {})]
Default(names, sev) == [c \in names |-> Entry(FALSE, sev, "none", {}, {}, {})]
Refuses(names) == [c \in names |-> [Entry(TRUE, Error, "none", {}, {}, {}) EXCEPT !.refuses = TRUE]]
Required(c, keys) == c :> Entry(FALSE, Warning, "required", Bare(keys), {}, {})
Ceiled(c, keys, limits, flags) == c :> Entry(FALSE, Warning, "ceiling", keys, limits, flags)

(* The checks of a file read without a cluster.                            *)
FileChecks ==
    Refuses({"yaml/syntax", "ruleset/directory"})
    @@ Always({"yaml/unknown-field", "yaml/type", "rule/name", "rule/group-name", "rule/expr",
               "annotations/protected", "rule/protected-label"}, Error)
    @@ Default({"rule/for", "rule/window", "annotations/runbook", "annotations/template",
                "rule/source-match", "rule/duplicate-alert"}, Warning)
    @@ Required("labels/required", {"severity", "team"})
    @@ Required("annotations/required", {"runbook_url", "summary"})

nondeterministicFunctions ==
    {"generateuuidv4", "now", "now64", "rand", "rand32", "rand64", "randcanonical",
     "today", "uptime", "yesterday"}

(* The checks of what a query says.                                        *)
QueryTextChecks ==
    Always({"rule/syntax", "rule/settings"}, Error)
    @@ Always({"rule/inspect"}, Warning)
    @@ Default({"rule/execution"}, Error)
    @@ Default({"rule/select-star", "rule/foreign-table"}, Warning)
    @@ "rule/table-function" :> Entry(FALSE, Error, "allowlist", {}, {}, {})
    @@ Required("rule/nondeterministic", nondeterministicFunctions)
    @@ Ceiled("rule/complexity", {Ceil("max-joins", 2), Ceil("max-subqueries", 2)},
              {"max-joins", "max-subqueries"}, {})

(* The checks of what a query does to a cluster.                           *)
QueryCostChecks ==
    Always({"rule/columns"}, Error)
    @@ Ceiled("rule/cost", {Ceil("max-rows-per-second", 1000000), Ceil("max-rows-read", 100000000)},
              {"max-rows-read", "max-rows-per-second"}, {})
    @@ Ceiled("rule/attribute-key", {Ceil("max-sample-rows", 10000000)},
              {"max-sample-rows"}, {"require-rows"})
    @@ Ceiled("rule/alert-count", {Ceil("max-alerts", 100), Ceil("max-rows-read", 1000000000)},
              {"max-alerts", "max-rows-read"}, {})
    @@ Default({"rule/source-schema", "rule/table-access"}, Warning)

assertionOrder ==
    {"sources-revoked", "readonly", "constraints", "table-readable", "clusters-readable"}

(* The checks of ruler.yaml: its sources and its alertmanagers.            *)
AlertmanagerChecks ==
    Always({"alertmanager/url", "alertmanager/auth", "alertmanager/tls"}, Error)
    @@ Default({"alertmanager/tls-insecure"}, Error)
SourceChecks ==
    Always({"source/name", "source/address", "source/database", "source/username",
            "source/password", "source/tls", "source/table", "source/timestamp-column",
            "source/evaluation-delay", "source/max-rows", "source/max-execution-time",
            "source/max-memory-usage", "source/max-concurrent-queries", "source/exemption"}, Error)
    @@ Default({"source/tls-insecure"}, Error)
    @@ Required("source/privileges", assertionOrder)

(* The checks of a policy file.                                            *)
PolicyChecks ==
    Always({"policy/unknown-check", "policy/fixed-check", "policy/severity", "policy/check-limit"}, Error)

checks == FileChecks @@ QueryTextChecks @@ QueryCostChecks
          @@ SourceChecks @@ AlertmanagerChecks @@ PolicyChecks

(* Lookup and its relatives; a name that is no check answers false.        *)
Known(c) == c \in DOMAIN checks
Fixed(c) == Known(c) /\ checks[c].fixed
Configurable(c) == Known(c) /\ ~checks[c].fixed
Allowlist(c) == Known(c) /\ checks[c].list = "allowlist"
Ceiling(c) == Known(c) /\ checks[c].list = "ceiling"
RefusesReading(c) == Known(c) /\ checks[c].refuses
Configurables == {c \in DOMAIN checks : Configurable(c)}

(* NewProblem, which panics on an unknown check and on a fixed check       *)
(* raised at any severity but its own: such a finding is outside Problems. *)
NewProblem(file, subject, check, sev) ==
    [file |-> file, subject |-> subject, check |-> check, severity |-> sev]
Raisable(p) == Known(p.check) /\ (checks[p.check].fixed => p.severity = checks[p.check].severity)

(* What a reading of `ruler check` is narrowed to: every file, or a set.   *)
AllFiles == [all |-> TRUE, files |-> {}]

(* ChangedSince: any of the four git calls failing, a changed policy.yaml  *)
(* anywhere, or a change to a file every rule depends on widens it back.   *)
ChangedSince(git, changed, widen, policyFiles) ==
    IF ~git \/ changed \cap (widen \union policyFiles) # {}
    THEN AllFiles
    ELSE [all |-> FALSE, files |-> changed]

(* Paths: the rule files at or under each argument; Under[f] is f and the  *)
(* directories above it.  An argument that reaches none is a usage error.  *)
PathsOK(ruleFiles, Under, args) == \A a \in args : \E f \in ruleFiles : a \in Under[f]
Paths(ruleFiles, Under, args) ==
    IF args = {} THEN AllFiles
    ELSE [all |-> FALSE, files |-> {f \in ruleFiles : Under[f] \cap args # {}}]

Keep(filter, problems) ==
    IF filter.all THEN problems ELSE {p \in problems : p.file \in filter.files}

(* The exit status of `ruler check`.                                       *)
Exit(problems) == IF \E p \in problems : p.severity = Error THEN "exitFinding" ELSE "exitOK"
=============================================================================
