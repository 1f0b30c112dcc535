------------------------------- MODULE Policy -------------------------------
(***************************************************************************)
(* Policies (internal/policy): what a policy file says of each check, the  *)
(* severity and keys a check falls back to, and the merge of every scope   *)
(* that applies to a rule.  A policy is a function from the checks it      *)
(* configures to settings; a file is what its author wrote: a set of       *)
(* entries [check, fields, severity, keys], where fields are the fields    *)
(* present and Invalid is a severity that does not parse.                  *)
(***************************************************************************)
EXTENDS Lint, Sequences, FiniteSets, FiniteSetsExt, SequencesExt

NoPolicy == [c \in {} |-> {}]
Invalid == -1

(* defaultFor and For: the policy's own setting, the shipped default of a  *)
(* configurable check, and error for a check nobody may configure.         *)
defaultFor(c) == [severity |-> checks[c].severity, keys |-> checks[c].keys]
For(p, c) ==
    IF c \in DOMAIN p THEN p[c]
    ELSE IF Configurable(c) THEN defaultFor(c)
    ELSE [severity |-> Error, keys |-> {}]

(* A check is shipped with a severity, and its keys are bare or ceilings:  *)
(* a closed fact about the table.                                          *)
ASSUME KeysAssumption ==
    \A c \in DOMAIN checks :
        checks[c].severity \in Severities /\ \A k \in checks[c].keys : k.limit \in Int

(* Setting.Limit: the lowest valid ceiling of that name.                   *)
LimitsOf(s, name) == {k.limit : k \in {x \in s.keys : x.name = name /\ x.limit >= 0}}
HasLimit(s, name) == LimitsOf(s, name) # {}
Limit(s, name) == Min(LimitsOf(s, name))
Flag(s, name) == [name |-> name, limit |-> NoLimit] \in s.keys

(* checkLimits: what a ceiling check's list may hold.  The entry is        *)
(* reported and still kept.                                                *)
AcceptedKey(c, k) ==
    \/ k.limit >= 0 /\ k.name \in checks[c].limits
    \/ k.limit = NoLimit /\ k.name \in checks[c].flags
checkLimits(c, keys) ==
    IF Ceiling(c) /\ \E k \in keys : ~AcceptedKey(c, k) THEN {"policy/check-limit"} ELSE {}

(* parseSetting: a setting starts from the default, so a field left out or *)
(* unreadable keeps the shipped value, keys included.                      *)
parseSetting(e) ==
    LET start == defaultFor(e.check) IN
    [severity |-> IF "severity" \in e.fields /\ e.severity # Invalid
                  THEN e.severity ELSE start.severity,
     keys     |-> IF "keys" \in e.fields THEN e.keys ELSE start.keys]
SettingProblems(e) ==
    (IF "severity" \in e.fields /\ e.severity = Invalid THEN {"policy/severity"} ELSE {})
    \union (IF "keys" \in e.fields THEN checkLimits(e.check, e.keys) ELSE {})

(* Parse and parseChecks: a fixed and an unknown check are reported and    *)
(* not configured.                                                         *)
Parse(entries) ==
    [c \in {e.check : e \in {x \in entries : Configurable(x.check)}} |->
        parseSetting(CHOOSE e \in entries : e.check = c)]
ParseProblems(entries) ==
    UNION {IF Fixed(e.check) THEN {"policy/fixed-check"}
           ELSE IF ~Configurable(e.check) THEN {"policy/unknown-check"}
           ELSE SettingProblems(e) : e \in entries}

(* Mutant: the scope merged last decides. *)
strictestLast(current, incoming, allowlist) == incoming
(* strictest: the higher severity, and the keys of both; of an allowlist,  *)
(* the keys in both.                                                       *)
strictest(current, incoming, allowlist) ==
    [severity |-> IF incoming.severity > current.severity THEN incoming.severity
                                                          ELSE current.severity,
     keys     |-> IF allowlist THEN current.keys \intersect incoming.keys
                               ELSE current.keys \union incoming.keys]

(* The setting a check's first scope is merged into: nothing said yet, and *)
(* the shipped keys unless the list is an allowlist or a ceiling.          *)
FirstSetting(c, incoming) ==
    [severity |-> Off,
     keys     |-> IF Allowlist(c) \/ Ceiling(c) THEN incoming.keys ELSE checks[c].keys]

(* Merge: the scopes in order.                                             *)
MergeScope(out, scope) ==
    [c \in DOMAIN out \union DOMAIN scope |->
        IF c \notin DOMAIN scope THEN out[c]
        ELSE strictest(IF c \in DOMAIN out THEN out[c] ELSE FirstSetting(c, scope[c]),
                       scope[c], Allowlist(c))]
Merge(scopes) ==
    LET merged[i \in 0..Len(scopes)] ==
            IF i = 0 THEN NoPolicy ELSE MergeScope(merged[i - 1], scopes[i])
    IN  merged[Len(scopes)]

-----------------------------------------------------------------------------
(* a is at least as strict as b about check c: a severity no lower, every  *)
(* required key and flag of b, no function b does not allow, and no        *)
(* ceiling above b's.                                                      *)
AsStrict(c, a, b) ==
    /\ a.severity >= b.severity
    /\ IF Allowlist(c) THEN a.keys \subseteq b.keys
       ELSE /\ {k \in b.keys : k.limit = NoLimit} \subseteq a.keys
            /\ \A n \in {k.name : k \in b.keys} :
                  HasLimit(b, n) => HasLimit(a, n) /\ Limit(a, n) <= Limit(b, n)
=============================================================================
