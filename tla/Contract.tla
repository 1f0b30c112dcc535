------------------------------ MODULE Contract ------------------------------
(***************************************************************************)
(* The user contract of a source (internal/query/privileges.go and         *)
(* cmd/ruler/privileges.go): the assertions asked of a source's ClickHouse *)
(* user, what an answer says about each, and the sources a start or a      *)
(* reload refuses for it.                                                  *)
(*                                                                         *)
(* The outcome of one statement is "ran", "denied" (the server refused the *)
(* privilege), "failed" (any other error of the server), "deadline" (it    *)
(* was still running when its own deadline passed) or "silent" (no         *)
(* answer).  What a source answers is [opens, alive, probes, table,        *)
(* distributed, clusters, settings]: alive is whether the whole check has  *)
(* time left, settings is the rows of system.settings by name, each        *)
(* [value, bounded, const], or NotRead.                                    *)
(***************************************************************************)
EXTENDS Sources

NotRead == "error" :> "system.settings"

classifyDenial(o) ==
    CASE o \in {"ran", "failed"} -> "fail"
      [] o = "denied" -> "pass"
      [] OTHER -> "inconclusive"

(* classifyProbe: still running at its own deadline is past the privilege  *)
(* check, unless the whole check ran out of time.                          *)
classifyProbe(o, alive) ==
    IF o = "deadline" THEN IF alive THEN "fail" ELSE "inconclusive" ELSE classifyDenial(o)

(* classifyReadable and classifyCountable, of a statement that has to run. *)
classifyReadable(o) ==
    CASE o = "ran" -> "pass" [] o = "denied" -> "fail" [] OTHER -> "inconclusive"
classifyCountable(o) ==
    CASE o = "ran" -> "pass" [] o = "denied" -> "fail" [] OTHER -> "inconclusive"

probes == {"URL", "FILE", "REMOTE", "S3"}
assertSourcesRevoked(a) ==
    LET statuses == {classifyProbe(a.probes[p], a.alive) : p \in probes} IN
    CASE "fail" \in statuses -> "fail"
      [] "inconclusive" \in statuses -> "inconclusive"
      [] OTHER -> "pass"
assertTableReadable(a) == classifyReadable(a.table)
assertClustersReadable(a) == IF ~a.distributed THEN "pass" ELSE classifyCountable(a.clusters)

(* evalReadonly: 2, and const.                                             *)
evalReadonly(rows) ==
    IF "readonly" \notin DOMAIN rows THEN "inconclusive"
    ELSE IF rows["readonly"].value = 2 /\ rows["readonly"].const THEN "pass" ELSE "fail"
assertReadonly(a) == IF a.settings = NotRead THEN "inconclusive" ELSE evalReadonly(a.settings)

(* evalConstraints: a bound behind each limit, const behind each mode.     *)
constrained ==
    [n \in {"max_execution_time", "max_memory_usage", "max_result_rows"} |-> TRUE]
    @@ [n \in {"result_overflow_mode", "timeout_overflow_mode", "skip_unavailable_shards"} |-> FALSE]
evalConstraints(rows) ==
    IF \A n \in DOMAIN constrained :
          n \in DOMAIN rows /\ (rows[n].const \/ (constrained[n] /\ rows[n].bounded))
    THEN "pass" ELSE "fail"
assertConstraints(a) == IF a.settings = NotRead THEN "inconclusive" ELSE evalConstraints(a.settings)

(* Privileges: the requested assertions that exist; anything else a policy *)
(* lists is dropped.                                                       *)
selected(setting) == {k.name : k \in setting.keys} \intersect assertionOrder
Privileges(a, setting) ==
    [n \in selected(setting) |->
        CASE n = "sources-revoked" -> assertSourcesRevoked(a)
          [] n = "readonly" -> assertReadonly(a)
          [] n = "constraints" -> assertConstraints(a)
          [] n = "table-readable" -> assertTableReadable(a)
          [] OTHER -> assertClustersReadable(a)]

(* assertSource: a source that cannot be opened has answered nothing.      *)
unreachable(setting) == [n \in {k.name : k \in setting.keys} |-> "inconclusive"]
assertSource(a, setting) == IF a.opens THEN Privileges(a, setting) ELSE unreachable(setting)

(* privilegeProblems: a failure at the configured severity, and what could *)
(* not be told as a warning.                                               *)
privilegesEnabled(setting) == setting.severity # Off /\ setting.keys # {}
privilegeProblems(name, setting, results) ==
    {NewProblem("ruler.yaml", name, "source/privileges",
                IF results[n] = "fail" THEN setting.severity ELSE Warning)
     : n \in {x \in DOMAIN results : results[x] # "pass"}}

(* checkPrivileges: each source on its own, under the root policy and its  *)
(* own.  answers gives what each source answers, by name.                  *)
checkPrivileges(sources, root, answers) ==
    UNION {LET setting == For(Merge(<<root, s.policy>>), "source/privileges") IN
           IF privilegesEnabled(setting)
           THEN privilegeProblems(s.name, setting, assertSource(answers[s.name], setting)) ELSE {}
           : s \in sources}
refusedSources(problems) == {p.subject : p \in {x \in problems : x.severity = Error}}
=============================================================================
