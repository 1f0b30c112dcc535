--------------------------- MODULE CommandsProofs ---------------------------
(***************************************************************************)
(* What Commands says of a running ruler's problem gauge, for every set of *)
(* configurations, every answer of a source and any number of evaluations, *)
(* re-checks and reloads; and of `ruler check` and a replay, for every     *)
(* tree, every list of policies and every range.                           *)
(*                                                                         *)
(* GaugeIsLastAnswer is not inductive: a reload brings rules the old       *)
(* configuration had not.  Repeats says the same of every name, file and   *)
(* source there could be, with no rule in sight.  DriftIsChange needs that *)
(* the shape kept is the last one answered (Shapes).  That a replay keeps  *)
(* to its ceiling is arithmetic, for every range, step and ceiling.        *)
(*                                                                         *)
(* What is said of lists of any length (Merge, FlattenSeq, replay) is      *)
(* proved number by number (NumberByNumber) along the values the recursive *)
(* function takes (MergeSteps, FlattenSteps, ReplaySteps).                 *)
(***************************************************************************)
EXTENDS Commands, FiniteSetTheorems, SequenceTheorems, WellFoundedInduction, TLAPS

(* Every source a rule runs against has a name (source/name). *)
NamesGiven == \A c \in Configs : \A r \in c.rules : None \notin Names(r)
(* And no two of them the same one. *)
NamesDistinct ==
    \A c \in Configs : \A r \in c.rules : \A i, j \in 1..Len(r.sources) :
        r.sources[i].name = r.sources[j].name => i = j

Configured == cmd = "run" => conf \in Configs

(* Which labels the series of a family carry. *)
Labelled ==
    \A x \in series :
        /\ x.group # None => x.family \in {"group", "rule", "duration"}
        /\ x.rule # None => x.family \in {"rule", "cost", "memory", "duration"}
        /\ x.source # None => x.family \in {"cost", "duration", "wait"}

(* What the gauge shows of a question, and what was last said about it. *)
Standing(g, q) ==
    {x.severity : x \in {y \in g : y.rule = q[1] /\ y.file = q[2] /\ y.check = q[3] /\ y.source = q[4]}}
LastSaid(sd, q) == IF q \in DOMAIN sd THEN sd[q] ELSE {}
Repeats ==
    \A alert, file, src : \A chk \in RuntimeChecks :
        Standing(gauge, <<alert, file, chk, src>>) = LastSaid(said, <<alert, file, chk, src>>)
Sensible == \A q \in DOMAIN said : q[3] = "rule/source-schema" => q[4] = None

GaugeInv == Configured /\ Labelled /\ NothingOutlivesItsOwner /\ Repeats /\ Sensible

-----------------------------------------------------------------------------
(* What one feed does to the gauge and to what was said, given that it     *)
(* clears what it was asked and raises nothing else.                       *)
LEMMA Feeding ==
  ASSUME NEW r, NEW about, NEW questions, NEW found,
         gauge' = {x \in gauge : ~\E a \in about : Cleared(r, a, x)} \union found,
         Remember(r, questions, found),
         \A a \in about : \A chk \in RuntimeChecks : \A src :
            a[1] = chk /\ (a[2] = None \/ a[2] = src) =>
                <<chk, src>> \in questions \/ (chk = "rule/source-schema" /\ src # None),
         \A q \in questions : /\ q = <<q[1], q[2]>> /\ q[1] \in RuntimeChecks
                              /\ \E a \in about : a[1] = q[1] /\ (a[2] = None \/ a[2] = q[2])
                              /\ q[1] = "rule/source-schema" => q[2] = None,
         \A x \in found : /\ x.rule = r.alert /\ x.file = r.file
                          /\ x.check \in RuntimeChecks => <<x.check, x.source>> \in questions,
         Repeats, Sensible
  PROVE  Repeats' /\ Sensible'
<1> DEFINE Asks(q) == \E a \in questions : q = Question(r, a[1], a[2])
<1>1. /\ DOMAIN said' = DOMAIN said \union {Question(r, a[1], a[2]) : a \in questions}
      /\ \A q \in DOMAIN said' :
            said'[q] = IF Asks(q) THEN {x.severity : x \in {y \in found : y.check = q[3] /\ y.source = q[4]}}
                       ELSE said[q]
  BY DEF Remember
<1>2. Sensible'
  <2> SUFFICES ASSUME NEW q \in DOMAIN said', q[3] = "rule/source-schema" PROVE q[4] = None
    BY DEF Sensible
  <2>1. CASE q \in DOMAIN said
    BY <2>1 DEF Sensible
  <2>2. ASSUME NEW a \in questions, q = Question(r, a[1], a[2]) PROVE q[4] = None
    BY <2>2 DEF Question
  <2> QED
    BY <1>1, <2>1, <2>2
<1>3. ASSUME NEW alert, NEW file, NEW src, NEW chk \in RuntimeChecks, NEW q, q = <<alert, file, chk, src>>
      PROVE  Standing(gauge', q) = LastSaid(said', q)
  <2>0. q[1] = alert /\ q[2] = file /\ q[3] = chk /\ q[4] = src
    BY <1>3
  <2>1. CASE Asks(q)
    <3>1. PICK b \in questions : q = Question(r, b[1], b[2])
      BY <2>1
    <3>2. alert = r.alert /\ file = r.file /\ chk = b[1] /\ src = b[2]
      BY <1>3, <3>1 DEF Question
    <3>3. LastSaid(said', q) = {x.severity : x \in {y \in found : y.check = chk /\ y.source = src}}
      <4>1. q \in DOMAIN said'
        BY <1>1, <3>1
      <4>2. said'[q] = {x.severity : x \in {y \in found : y.check = q[3] /\ y.source = q[4]}}
        BY <1>1, <2>1, <4>1
      <4> QED
        BY <2>0, <4>1, <4>2 DEF LastSaid
    <3>4. PICK a \in about : a[1] = chk /\ (a[2] = None \/ a[2] = src)
      BY <3>2
    <3>5. \A y \in gauge : y.rule = alert /\ y.file = file /\ y.check = chk /\ y.source = src => Cleared(r, a, y)
      BY <3>2, <3>4 DEF Cleared
    <3>6. {y \in gauge' : y.rule = alert /\ y.file = file /\ y.check = chk /\ y.source = src}
            = {y \in found : y.check = chk /\ y.source = src}
      BY <3>2, <3>5
    <3> QED
      BY <2>0, <3>3, <3>6 DEF Standing
  <2>2. CASE ~Asks(q)
    <3>1. LastSaid(said', q) = LastSaid(said, q)
      BY <1>1, <2>2 DEF LastSaid
    <3>2. Standing(gauge, q) = LastSaid(said, q)
      BY <1>3 DEF Repeats
    <3>3. ASSUME NEW x \in found, x.rule = alert, x.file = file, x.check = chk, x.source = src PROVE FALSE
      <4>1. <<chk, src>> \in questions /\ alert = r.alert /\ file = r.file
        BY <3>3
      <4>2. q = Question(r, <<chk, src>>[1], <<chk, src>>[2])
        BY <1>3, <4>1 DEF Question
      <4> QED
        BY <2>2, <4>1, <4>2
    <3>4. CASE chk = "rule/source-schema" /\ src # None
      <4>1. q \notin DOMAIN said
        BY <2>0, <3>4 DEF Sensible
      <4>2. Standing(gauge, q) = {}
        BY <3>2, <4>1 DEF LastSaid
      <4>3. Standing(gauge', q) = {}
        BY <2>0, <3>3, <4>2 DEF Standing
      <4> QED
        BY <3>1, <3>2, <4>2, <4>3
    <3>5. CASE ~(chk = "rule/source-schema" /\ src # None)
      <4>1. ASSUME NEW x \in gauge, x.rule = alert, x.file = file, x.check = chk, x.source = src
            PROVE  x \in gauge'
        <5> SUFFICES ASSUME NEW a \in about, Cleared(r, a, x) PROVE FALSE
          OBVIOUS
        <5>1. alert = r.alert /\ file = r.file /\ a[1] = chk /\ (a[2] = None \/ a[2] = src)
          BY <4>1 DEF Cleared
        <5>2. <<chk, src>> \in questions
          BY <3>5, <5>1
        <5>3. q = Question(r, <<chk, src>>[1], <<chk, src>>[2])
          BY <1>3, <5>1 DEF Question
        <5> QED
          BY <2>2, <5>2, <5>3
      <4>2. {y \in gauge' : y.rule = alert /\ y.file = file /\ y.check = chk /\ y.source = src}
              = {y \in gauge : y.rule = alert /\ y.file = file /\ y.check = chk /\ y.source = src}
        BY <3>3, <4>1
      <4>3. Standing(gauge', q) = Standing(gauge, q)
        BY <2>0, <4>2 DEF Standing
      <4> QED
        BY <3>1, <3>2, <4>3
    <3> QED
      BY <3>4, <3>5
  <2> QED
    BY <2>1, <2>2
<1> QED
  BY <1>2, <1>3 DEF Repeats

-----------------------------------------------------------------------------
(* What an evaluation asks and finds.                                      *)

(* The sources of a rule: a list of one or more, each with a name. *)
Sourced(r) == /\ Len(r.sources) \in Nat /\ Len(r.sources) > 0 /\ None \notin Names(r)
              /\ \A i \in 1..Len(r.sources) : r.sources[i].name \in Names(r)

LEMMA RuleSourced ==
  ASSUME NamesGiven, NEW c \in Configs, NEW r \in c.rules, r.sources # <<>>
  PROVE  Sourced(r)
<1>1. r.sources \in Seq(Range(r.sources))
  BY ConfigsAssumption
<1>2. Len(r.sources) \in Nat /\ Len(r.sources) > 0
  BY <1>1
<1> QED
  BY <1>2 DEF NamesGiven, Sourced, Names

LEMMA Raised ==
  ASSUME NEW r, NEW s, NEW chk, NEW x \in runtimeProblem(r, s, chk)
  PROVE  x.rule = r.alert /\ x.file = r.file /\ x.check = chk /\ x.source = s.name
<1> DEFINE sev == IF Configurable(chk) THEN SettingFor(r, s, chk).severity ELSE Error
<1>1. x = Raise(r, chk, sev, s.name)
  BY DEF runtimeProblem
<1> QED
  BY <1>1 DEF Raise

LEMMA Replied ==
  ASSUME NEW r, NEW out, Sourced(r)
  PROVE  /\ Cardinality(Answering(r, out)) \in Nat
         /\ Cardinality(Answering(r, out)) >= Min({2, Len(r.sources)}) <=>
              \/ Cardinality(Answering(r, out)) >= 2
              \/ Cardinality(Answering(r, out)) > 0 /\ Len(r.sources) < 2
<1> DEFINE n == Len(r.sources)
           k == Cardinality(Answering(r, out))
<1>1. n \in Nat /\ n > 0
  BY DEF Sourced
<1>2. IsFiniteSet(1..n) /\ Answering(r, out) \subseteq 1..n
  BY <1>1, FS_Interval DEF Answering
<1>3. k \in Nat
  BY <1>2, FS_Subset, FS_CardinalityType
<1>4. Min({2, n}) = IF n < 2 THEN n ELSE 2
  <2> DEFINE m == IF n < 2 THEN n ELSE 2
  <2>1. m \in {2, n} /\ \A y \in {2, n} : m <= y
    BY <1>1
  <2>2. Min({2, n}) \in {2, n} /\ \A y \in {2, n} : Min({2, n}) <= y
    BY <2>1 DEF Min
  <2> QED
    BY <1>1, <2>2
<1> HIDE DEF n, k
<1>5. k >= Min({2, n}) <=> k >= 2 \/ (k > 0 /\ n < 2)
  BY <1>1, <1>3, <1>4
<1> QED
  BY <1>3, <1>5 DEF n, k

(* What an evaluation answers is what it settles, and rule/columns besides.*)
LEMMA EvaluationAsks ==
  ASSUME NEW r, NEW out, Sourced(r)
  PROVE  /\ \A a \in answeredChecks(r, out) : \A chk \in RuntimeChecks : \A src :
              a[1] = chk /\ (a[2] = None \/ a[2] = src) =>
                  <<chk, src>> \in Settled(r, out) \/ (chk = "rule/source-schema" /\ src # None)
         /\ \A q \in Settled(r, out) :
              /\ q = <<q[1], q[2]>> /\ q[1] \in RuntimeChecks
              /\ \E a \in answeredChecks(r, out) : a[1] = q[1] /\ (a[2] = None \/ a[2] = q[2])
              /\ q[1] = "rule/source-schema" => q[2] = None
<1> DEFINE N == 1..Len(r.sources)
           replied == Cardinality(Answering(r, out))
           many == replied >= 2 \/ (replied > 0 /\ Len(r.sources) < 2)
           Of(c, s) == \/ /\ c \in {"rule/columns", "rule/cost"}
                          /\ \E i \in N : out[i].kind = "answered" /\ s = r.sources[i].name
                       \/ /\ c = "rule/execution"
                          /\ \E i \in N : out[i].kind \in {"answered", "failed"} /\ s = r.sources[i].name
                       \/ /\ c = "annotations/template"
                          /\ \E i \in N : out[i].kind = "answered" /\ out[i].rendered # "nothing" /\ s = r.sources[i].name
                       \/ c = "rule/source-schema" /\ s = None /\ many
<1>1. ASSUME NEW a \in answeredChecks(r, out) PROVE a = <<a[1], a[2]>> /\ Of(a[1], a[2])
  <2>1. CASE a \in UNION {AnswersOf(r, i, out) : i \in N}
    <3>1. PICK i \in N : a \in AnswersOf(r, i, out)
      BY <2>1
    <3> QED
      BY <3>1 DEF AnswersOf
  <2>2. CASE many /\ a = <<"rule/source-schema", None>>
    BY <2>2
  <2> QED
    BY <1>1, <2>1, <2>2 DEF answeredChecks
<1>2. ASSUME NEW c, NEW s, Of(c, s) PROVE <<c, s>> \in answeredChecks(r, out)
  <2>1. CASE c = "rule/source-schema" /\ s = None /\ many
    BY <2>1 DEF answeredChecks
  <2>2. ASSUME NEW i \in N, <<c, s>> \in AnswersOf(r, i, out) PROVE <<c, s>> \in answeredChecks(r, out)
    BY <2>2 DEF answeredChecks
  <2> QED
    BY <1>2, <2>1, <2>2 DEF AnswersOf
<1>3. {i \in N : out[i].kind \in {"answered"}} = Answering(r, out)
  BY DEF Answering
<1>4. Cardinality({i \in N : out[i].kind \in {"answered"}}) >= Min({2, Len(r.sources)}) <=> many
  BY <1>3, Replied
<1>5. ASSUME NEW q \in Settled(r, out) PROVE q = <<q[1], q[2]>> /\ q[1] # "rule/columns" /\ Of(q[1], q[2])
  BY <1>4, <1>5 DEF Settled
<1>6. ASSUME NEW c, NEW s, c # "rule/columns", Of(c, s) PROVE <<c, s>> \in Settled(r, out)
  BY <1>4, <1>6 DEF Settled
<1>7. ASSUME NEW c, NEW s, Of(c, s)
      PROVE  /\ c \in RuntimeChecks \cup {"rule/columns"} /\ (s = None <=> c = "rule/source-schema")
  BY <1>7 DEF Sourced, RuntimeChecks
<1> HIDE DEF Of
<1>8. ASSUME NEW a \in answeredChecks(r, out), NEW chk \in RuntimeChecks, NEW src, a[1] = chk, a[2] = None \/ a[2] = src,
             ~(chk = "rule/source-schema" /\ src # None)
      PROVE  <<chk, src>> \in Settled(r, out)
  <2>1. chk # "rule/columns"
    BY DEF RuntimeChecks
  <2>2. a = <<chk, a[2]>> /\ Of(chk, a[2])
    BY <1>1, <1>8
  <2>3. a[2] = src
    BY <1>7, <1>8, <2>2
  <2> QED
    BY <1>6, <2>1, <2>2, <2>3
<1>9. ASSUME NEW q \in Settled(r, out)
      PROVE  /\ q = <<q[1], q[2]>> /\ q[1] \in RuntimeChecks
             /\ \E a \in answeredChecks(r, out) : a[1] = q[1] /\ (a[2] = None \/ a[2] = q[2])
             /\ q[1] = "rule/source-schema" => q[2] = None
  <2>1. q = <<q[1], q[2]>> /\ q[1] # "rule/columns" /\ Of(q[1], q[2])
    BY <1>5, <1>9
  <2>2. q \in answeredChecks(r, out)
    BY <1>2, <2>1
  <2> QED
    BY <1>7, <2>1, <2>2
<1> QED
  BY <1>8, <1>9

(* What it finds is about the rule, and about what it settles. *)
LEMMA EvaluationFinds ==
  ASSUME NEW r, NEW out, Sourced(r), NEW x \in Problems(r, out)
  PROVE  /\ x.rule = r.alert /\ x.file = r.file /\ x.source \in Names(r) \cup {None}
         /\ x.check \in RuntimeChecks \cup {"rule/columns"}
         /\ x.check \in RuntimeChecks => <<x.check, x.source>> \in Settled(r, out)
         /\ x.source = None => x.check = "rule/source-schema"
         /\ x.check = "rule/columns" =>
              \E i \in Answering(r, out) : /\ x.source = r.sources[i].name /\ <<r, x.source>> \in DOMAIN prev
                                           /\ prev[<<r, x.source>>] # out[i].shape
<1> DEFINE N == 1..Len(r.sources)
<1>1. CASE x \in disagreements(r, out)
  <2>1. Cardinality(Answering(r, out)) >= 2
    BY <1>1 DEF disagreements
  <2>2. x.rule = r.alert /\ x.file = r.file /\ x.check = "rule/source-schema" /\ x.source = None
    BY <1>1 DEF disagreements, Raise
  <2>3. {i \in N : out[i].kind \in {"answered"}} = Answering(r, out)
    BY DEF Answering
  <2>4. <<"rule/source-schema", None>> \in Settled(r, out)
    BY <2>1, <2>3, Replied DEF Settled
  <2> QED
    BY <2>2, <2>4 DEF RuntimeChecks
<1>2. ASSUME NEW i \in N, x \in inspect(r, i, out) \union AnnotationFindings(r, i, out)
      PROVE  /\ x.rule = r.alert /\ x.file = r.file /\ x.source = r.sources[i].name
             /\ \/ /\ x.check = "rule/columns" /\ out[i].kind = "answered" /\ <<r, r.sources[i].name>> \in DOMAIN prev
                   /\ prev[<<r, r.sources[i].name>>] # out[i].shape
                \/ x.check = "rule/cost" /\ out[i].kind = "answered"
                \/ x.check = "rule/execution" /\ out[i].kind = "failed"
                \/ x.check = "annotations/template" /\ out[i].kind = "answered" /\ out[i].rendered # "nothing"
  <2> DEFINE s == r.sources[i]
  <2>1. \/ /\ x \in runtimeProblem(r, s, "rule/columns") /\ out[i].kind = "answered" /\ <<r, s.name>> \in DOMAIN prev
           /\ prev[<<r, s.name>>] # out[i].shape
        \/ x \in runtimeProblem(r, s, "rule/cost") /\ out[i].kind = "answered"
        \/ x \in runtimeProblem(r, s, "rule/execution") /\ out[i].kind = "failed"
        \/ x \in runtimeProblem(r, s, "annotations/template") /\ out[i].kind = "answered" /\ out[i].rendered # "nothing"
    BY <1>2 DEF inspect, AnnotationFindings
  <2> HIDE DEF s
  <2>2. \A c : x \in runtimeProblem(r, s, c) => x.rule = r.alert /\ x.file = r.file /\ x.check = c /\ x.source = s.name
    BY Raised
  <2>3. s = r.sources[i]
    BY DEF s
  <2> QED
    BY <2>1, <2>2, <2>3
<1>3. ASSUME NEW i \in N, x \in inspect(r, i, out) \union AnnotationFindings(r, i, out)
      PROVE  /\ x.rule = r.alert /\ x.file = r.file /\ x.source \in Names(r) /\ x.source # None
             /\ x.check \in RuntimeChecks \cup {"rule/columns"}
             /\ x.check \in RuntimeChecks => <<x.check, x.source>> \in Settled(r, out)
             /\ x.check = "rule/columns" =>
                  \E j \in Answering(r, out) : /\ x.source = r.sources[j].name /\ <<r, x.source>> \in DOMAIN prev
                                               /\ prev[<<r, x.source>>] # out[j].shape
  <2>1. x.source \in Names(r) /\ x.source # None /\ x.source = r.sources[i].name
    BY <1>2, <1>3 DEF Sourced
  <2>2. CASE x.check = "rule/columns" /\ out[i].kind = "answered" /\ <<r, r.sources[i].name>> \in DOMAIN prev
             /\ prev[<<r, r.sources[i].name>>] # out[i].shape
    <3>1. i \in Answering(r, out)
      BY <2>2 DEF Answering
    <3> QED
      BY <1>2, <1>3, <2>1, <2>2, <3>1 DEF RuntimeChecks
  <2>3. CASE x.check = "rule/cost" /\ out[i].kind = "answered"
    BY <1>2, <1>3, <2>1, <2>3 DEF RuntimeChecks, Settled
  <2>4. CASE x.check = "rule/execution" /\ out[i].kind = "failed"
    BY <1>2, <1>3, <2>1, <2>4 DEF RuntimeChecks, Settled
  <2>5. CASE x.check = "annotations/template" /\ out[i].kind = "answered" /\ out[i].rendered # "nothing"
    BY <1>2, <1>3, <2>1, <2>5 DEF RuntimeChecks, Settled
  <2> QED
    BY <1>2, <1>3, <2>2, <2>3, <2>4, <2>5
<1> QED
  BY <1>1, <1>3 DEF Problems

(* The series an evaluation writes are the rule's and its sources'. *)
LEMMA EvaluationWrites ==
  ASSUME NEW r, NEW out, Sourced(r), NEW x \in EvaluationSeries(r, out)
  PROVE  /\ x.group # None => x.group = r.group /\ x.family \in {"group", "rule", "duration"}
         /\ x.rule # None => x.rule = r.alert /\ x.family \in {"rule", "cost", "memory", "duration"}
         /\ x.source # None => x.source \in Names(r) /\ x.family \in {"cost", "duration", "wait"}
         /\ x.family = "rule" => x.group = r.group /\ x.rule = r.alert
  BY DEF EvaluationSeries, Series, Sourced

(* Series that are of a rule of the configuration. *)
OfConf(x) ==
    /\ x.group = None \/ x.group \in Groups(conf)
    /\ x.rule = None \/ x.rule \in {r.alert : r \in conf.rules}
    /\ x.source = None \/ x.source \in Reached(conf)
    /\ x.family = "rule" => <<x.group, x.rule>> \in RuleKeys(conf)
(* Findings that are of the configuration. *)
ShownOf(x) ==
    /\ x.check \notin LoadOwned => <<x.rule, x.file>> \in Pairs(conf)
    /\ x.source # None => <<x.rule, x.file>> \in Pairs(conf) /\ x.source \in Reached(conf)
    /\ (~loading /\ x.check \in LoadOwned /\ x.source = None) => x \in LoadSeries(conf)

LEMMA OutlivesParts ==
  NothingOutlivesItsOwner <=> (\A x \in series : OfConf(x)) /\ (\A x \in gauge : ShownOf(x))
  BY DEF NothingOutlivesItsOwner, OfConf, ShownOf

LEMMA ReachedNames ==
  ASSUME NEW c, NEW r \in c.rules
  PROVE  Names(r) \subseteq Reached(c) /\ <<r.alert, r.file>> \in Pairs(c)
         /\ r.group \in Groups(c) /\ <<r.group, r.alert>> \in RuleKeys(c)
  BY DEF Reached, Pairs, Groups, RuleKeys

LEMMA EvaluateStep ==
  ASSUME NamesGiven, GaugeInv, cmd = "run", cmd' = cmd, NEW r \in conf.rules, NEW out, Evaluate(r, out)
  PROVE  GaugeInv'
<1>1. conf \in Configs /\ conf' = conf /\ loading' = loading /\ Sourced(r)
  BY RuleSourced DEF GaugeInv, Configured, Evaluate
<1>2. Configured'
  BY <1>1 DEF Configured
<1>3. series' = series \union EvaluationSeries(r, out)
  BY DEF Evaluate
<1>4. Labelled'
  BY <1>1, <1>3, EvaluationWrites DEF GaugeInv, Labelled
<1>5. ASSUME NEW x \in series' PROVE OfConf(x)'
  <2>1. CASE x \in series
    BY <1>1, <2>1, OutlivesParts DEF GaugeInv, OfConf
  <2>2. CASE x \in EvaluationSeries(r, out)
    BY <1>1, <2>2, EvaluationWrites, ReachedNames DEF OfConf
  <2> QED
    BY <1>3, <1>5, <2>1, <2>2
<1>6. gauge' = {x \in gauge : ~\E a \in answeredChecks(r, out) : Cleared(r, a, x)} \union Problems(r, out)
  BY DEF Evaluate
<1>7. ASSUME NEW x \in gauge' PROVE ShownOf(x)'
  <2>1. CASE x \in gauge
    BY <1>1, <2>1, OutlivesParts DEF GaugeInv, ShownOf
  <2>2. CASE x \in Problems(r, out)
    <3>1. /\ x.rule = r.alert /\ x.file = r.file /\ x.source \in Names(r) \cup {None}
          /\ x.source = None => x.check = "rule/source-schema"
      BY <1>1, <2>2, EvaluationFinds
    <3>2. x.source = None => x.check \notin LoadOwned
      BY <3>1, FeedsAssumption DEF RuntimeChecks
    <3> QED
      BY <1>1, <3>1, <3>2, ReachedNames DEF ShownOf
  <2> QED
    BY <1>6, <1>7, <2>1, <2>2
<1>8. NothingOutlivesItsOwner'
  BY <1>5, <1>7 DEF NothingOutlivesItsOwner, OfConf, ShownOf
<1>9. Repeats' /\ Sensible'
  <2>1. Remember(r, Settled(r, out), Problems(r, out))
    BY DEF Evaluate
  <2>2. \A x \in Problems(r, out) : /\ x.rule = r.alert /\ x.file = r.file
                                    /\ x.check \in RuntimeChecks => <<x.check, x.source>> \in Settled(r, out)
    BY <1>1, EvaluationFinds
  <2> QED
    BY <1>1, <1>6, <2>1, <2>2, EvaluationAsks, Feeding DEF GaugeInv
<1> QED
  BY <1>2, <1>4, <1>8, <1>9 DEF GaugeInv

LEMMA RecheckStep ==
  ASSUME NamesGiven, GaugeInv, cmd = "run", cmd' = cmd, NEW r \in conf.rules, NEW sampled, Recheck(r, sampled)
  PROVE  GaugeInv'
<1> DEFINE about == {<<"rule/attribute-key", r.sources[i].name>> : i \in Asked(r, sampled)}
           found == UNION {runtimeProblem(r, r.sources[i], "rule/attribute-key")
                           : i \in {j \in Asked(r, sampled) : Wanted(r, j) /\ sampled[j] = "missing"}}
           waits == {Series("wait", None, None, r.sources[i].name)
                     : i \in {j \in 1..Len(r.sources) : Wanted(r, j) /\ sampled[j] = "refused"}}
<1>1. conf \in Configs /\ conf' = conf /\ loading' = loading /\ Sourced(r)
  BY RuleSourced DEF GaugeInv, Configured, Recheck
<1>2. Configured'
  BY <1>1 DEF Configured
<1>3. /\ series' = series \union waits
      /\ gauge' = {x \in gauge : ~\E a \in about : Cleared(r, a, x)} \union found
      /\ Remember(r, about, found)
  BY DEF Recheck
<1>4. ASSUME NEW x \in waits
      PROVE  x.group = None /\ x.rule = None /\ x.source \in Names(r) /\ x.family = "wait"
  BY <1>1, <1>4 DEF Series, Sourced
<1>5. ASSUME NEW x \in found
      PROVE  /\ x.rule = r.alert /\ x.file = r.file /\ x.check = "rule/attribute-key"
             /\ x.source \in Names(r) /\ <<x.check, x.source>> \in about
  <2>1. PICK i \in Asked(r, sampled) : x \in runtimeProblem(r, r.sources[i], "rule/attribute-key")
    BY <1>5
  <2>2. i \in 1..Len(r.sources)
    BY DEF Asked
  <2>3. x.rule = r.alert /\ x.file = r.file /\ x.check = "rule/attribute-key" /\ x.source = r.sources[i].name
    BY <2>1, Raised
  <2> QED
    BY <1>1, <2>2, <2>3 DEF Sourced
<1>6. ASSUME NEW q \in about PROVE q = <<q[1], q[2]>> /\ q[1] = "rule/attribute-key" /\ q[2] # None
  BY <1>1, <1>6 DEF Asked, Sourced
<1> HIDE DEF about, found, waits
<1>7. Labelled'
  BY <1>3, <1>4 DEF GaugeInv, Labelled
<1>8. ASSUME NEW x \in series' PROVE OfConf(x)'
  <2>1. CASE x \in series
    BY <1>1, <2>1, OutlivesParts DEF GaugeInv, OfConf
  <2>2. CASE x \in waits
    BY <1>1, <1>4, <2>2, ReachedNames DEF OfConf
  <2> QED
    BY <1>3, <1>8, <2>1, <2>2
<1>9. ASSUME NEW x \in gauge' PROVE ShownOf(x)'
  <2>1. CASE x \in gauge
    BY <1>1, <2>1, OutlivesParts DEF GaugeInv, ShownOf
  <2>2. CASE x \in found
    <3>1. x.check \notin LoadOwned
      BY <1>5, <2>2, FeedsAssumption DEF RuntimeChecks
    <3> QED
      BY <1>1, <1>5, <2>2, <3>1, ReachedNames DEF ShownOf
  <2> QED
    BY <1>3, <1>9, <2>1, <2>2
<1>10. NothingOutlivesItsOwner'
  BY <1>8, <1>9 DEF NothingOutlivesItsOwner, OfConf, ShownOf
<1>11. Repeats' /\ Sensible'
  <2>1. ASSUME NEW a \in about, NEW chk \in RuntimeChecks, NEW src, a[1] = chk, a[2] = None \/ a[2] = src
        PROVE  <<chk, src>> \in about
    BY <1>6, <2>1
  <2>2. ASSUME NEW q \in about
        PROVE  /\ q = <<q[1], q[2]>> /\ q[1] \in RuntimeChecks
               /\ \E a \in about : a[1] = q[1] /\ (a[2] = None \/ a[2] = q[2])
               /\ q[1] = "rule/source-schema" => q[2] = None
    BY <1>6, <2>2 DEF RuntimeChecks
  <2>3. \A x \in found : /\ x.rule = r.alert /\ x.file = r.file
                         /\ x.check \in RuntimeChecks => <<x.check, x.source>> \in about
    BY <1>5
  <2> QED
    BY <1>3, <2>1, <2>2, <2>3, Feeding DEF GaugeInv
<1> QED
  BY <1>2, <1>7, <1>10, <1>11 DEF GaugeInv

(* What a reload leaves of the other families is of both configurations. *)
LEMMA Deleting ==
  ASSUME Labelled, NothingOutlivesItsOwner, NEW c,
         NEW x \in deleteSource(deleteRuleName(deleteRule(deleteGroup(series, c), c), c), c)
  PROVE  /\ x \in series
         /\ x.group = None \/ x.group \in Groups(c)
         /\ x.rule = None \/ x.rule \in {r.alert : r \in c.rules}
         /\ x.source = None \/ x.source \in Reached(c)
         /\ x.family = "rule" => <<x.group, x.rule>> \in RuleKeys(c)
<1>1. /\ x \in series
      /\ ~(x.family \in {"group", "rule", "duration"} /\ x.group \in Groups(conf) \ Groups(c))
      /\ ~(x.family = "rule" /\ <<x.group, x.rule>> \in RuleKeys(conf) \ RuleKeys(c))
      /\ ~(x.family \in {"cost", "memory", "duration"}
             /\ x.rule \in {k[2] : k \in RuleKeys(conf) \ RuleKeys(c)} \ {k[2] : k \in RuleKeys(c)})
      /\ ~(x.family \in {"cost", "duration", "wait"} /\ x.source \in Reached(conf) \ Reached(c))
  BY DEF deleteGroup, deleteRule, deleteRuleName, deleteSource
<1>2. OfConf(x)
  BY <1>1, OutlivesParts
<1>3. x.group = None \/ x.group \in Groups(c)
  BY <1>1, <1>2 DEF Labelled, OfConf
<1>4. x.source = None \/ x.source \in Reached(c)
  BY <1>1, <1>2 DEF Labelled, OfConf
<1>5. x.family = "rule" => <<x.group, x.rule>> \in RuleKeys(c)
  BY <1>1, <1>2 DEF OfConf
<1>6. ASSUME x.rule # None, x.rule \notin {r.alert : r \in c.rules} PROVE FALSE
  <2>1. \A k \in RuleKeys(c) : k[2] # x.rule
    BY <1>6 DEF RuleKeys
  <2>2. x.family # "rule"
    BY <1>5, <2>1
  <2>3. x.family \in {"cost", "memory", "duration"}
    BY <1>1, <1>6, <2>2 DEF Labelled
  <2>4. PICK r \in conf.rules : r.alert = x.rule
    BY <1>2, <1>6 DEF OfConf
  <2>5. <<r.group, r.alert>> \in RuleKeys(conf) \ RuleKeys(c) /\ <<r.group, r.alert>>[2] = x.rule
    BY <2>1, <2>4 DEF RuleKeys
  <2>6. x.rule \in {k[2] : k \in RuleKeys(conf) \ RuleKeys(c)}
    BY <2>5
  <2>7. x.rule \notin {k[2] : k \in RuleKeys(c)}
    BY <2>1
  <2> QED
    BY <1>1, <2>3, <2>6, <2>7
<1> QED
  BY <1>1, <1>3, <1>4, <1>5, <1>6

LEMMA ReloadStep ==
  ASSUME NamesGiven, GaugeInv, cmd = "run", cmd' = cmd, NEW c \in Configs, Reload(c)
  PROVE  GaugeInv'
<1> DEFINE left == deleteSource(deleteRuleName(deleteRule(deleteGroup(series, c), c), c), c)
<1>1. /\ conf' = c /\ loading' = TRUE /\ conf \in Configs
      /\ series' = left \union BuildSeries(c) /\ gauge' = deleteProblems(gauge, c)
      /\ said' = [q \in {k \in DOMAIN said : <<k[1], k[2]>> \in Pairs(c)
                                             /\ (k[4] = None \/ k[4] \in Reached(c))} |-> said[q]]
  BY DEF Reload, GaugeInv, Configured
<1>2. Configured'
  BY <1>1 DEF Configured
<1>3. ASSUME NEW x \in BuildSeries(c)
      PROVE  x.family = "group" /\ x.rule = None /\ x.source = None /\ x.group \in Groups(c)
  BY <1>3 DEF BuildSeries, Series, Groups
<1>4. ASSUME NEW x \in left
      PROVE  /\ x \in series
             /\ x.group = None \/ x.group \in Groups(c)
             /\ x.rule = None \/ x.rule \in {r.alert : r \in c.rules}
             /\ x.source = None \/ x.source \in Reached(c)
             /\ x.family = "rule" => <<x.group, x.rule>> \in RuleKeys(c)
  BY <1>4, Deleting DEF GaugeInv
<1> HIDE DEF left
<1>5. Labelled'
  BY <1>1, <1>3, <1>4 DEF GaugeInv, Labelled
<1>6. ASSUME NEW x \in series' PROVE OfConf(x)'
  BY <1>1, <1>3, <1>4, <1>6 DEF OfConf
<1>7. ASSUME NEW x \in gauge' PROVE ShownOf(x)'
  <2>1. x \in gauge /\ <<x.rule, x.file>> \notin Pairs(conf) \ Pairs(c) /\ x.source \notin Reached(conf) \ Reached(c)
    BY <1>1, <1>7 DEF deleteProblems
  <2>2. ShownOf(x)
    BY <2>1, OutlivesParts DEF GaugeInv
  <2> QED
    BY <1>1, <2>1, <2>2 DEF ShownOf
<1>8. NothingOutlivesItsOwner'
  BY <1>6, <1>7 DEF NothingOutlivesItsOwner, OfConf, ShownOf
<1>9. DOMAIN said' = {k \in DOMAIN said : <<k[1], k[2]>> \in Pairs(c) /\ (k[4] = None \/ k[4] \in Reached(c))}
      /\ \A q \in DOMAIN said' : said'[q] = said[q]
  BY <1>1
<1>10. Sensible'
  BY <1>9 DEF GaugeInv, Sensible
<1>11. None \notin Reached(conf)
  BY <1>1 DEF NamesGiven, Reached
<1>12. ASSUME NEW alert, NEW file, NEW src, NEW chk \in RuntimeChecks, NEW q, q = <<alert, file, chk, src>>
       PROVE  Standing(gauge', q) = LastSaid(said', q)
  <2> DEFINE On(g) == {y \in g : y.rule = alert /\ y.file = file /\ y.check = chk /\ y.source = src}
             kept == <<alert, file>> \in Pairs(c) /\ (src = None \/ src \in Reached(c))
  <2>1. q[1] = alert /\ q[2] = file /\ q[3] = chk /\ q[4] = src
    BY <1>12
  <2>2. Standing(gauge, q) = LastSaid(said, q)
    BY <1>12 DEF GaugeInv, Repeats
  <2>3. CASE kept
    <3>1. LastSaid(said', q) = LastSaid(said, q)
      BY <1>9, <2>1, <2>3 DEF LastSaid
    <3>2. On(gauge') = On(gauge)
      BY <1>1, <1>11, <2>3 DEF deleteProblems
    <3> QED
      BY <2>1, <2>2, <3>1, <3>2 DEF Standing
  <2>4. CASE ~kept
    <3>1. LastSaid(said', q) = {}
      BY <1>9, <2>1, <2>4 DEF LastSaid
    <3>2. ASSUME NEW y \in On(gauge') PROVE FALSE
      <4>1. /\ y \in gauge /\ <<alert, file>> \notin Pairs(conf) \ Pairs(c) /\ src \notin Reached(conf) \ Reached(c)
            /\ y.rule = alert /\ y.file = file /\ y.check = chk /\ y.source = src
        BY <1>1, <3>2 DEF deleteProblems
      <4>2. ShownOf(y)
        BY <4>1, OutlivesParts DEF GaugeInv
      <4>3. chk \notin LoadOwned
        BY FeedsAssumption
      <4> QED
        BY <2>4, <4>1, <4>2, <4>3 DEF ShownOf
    <3>3. On(gauge') = {}
      BY <3>2
    <3> QED
      BY <2>1, <3>1, <3>3 DEF Standing
  <2> QED
    BY <2>3, <2>4
<1>13. Repeats'
  BY <1>12 DEF Repeats
<1> QED
  BY <1>2, <1>5, <1>8, <1>10, <1>13 DEF GaugeInv

LEMMA LoadedSeries ==
  ASSUME NEW c, NEW x \in LoadSeries(c)
  PROVE  x.check \in LoadOwned /\ x.source = None
  BY DEF LoadSeries

LEMMA ReportStep ==
  ASSUME GaugeInv, cmd' = cmd, ReportLoadFindings
  PROVE  GaugeInv'
<1>1. conf' = conf /\ series' = series /\ said' = said /\ gauge' = NotLoadOwned \union LoadSeries(conf)
  BY DEF ReportLoadFindings
<1>2. Configured' /\ Labelled' /\ Sensible'
  BY <1>1 DEF GaugeInv, Configured, Labelled, Sensible
<1>3. ASSUME NEW x \in series' PROVE OfConf(x)'
  BY <1>1, <1>3, OutlivesParts DEF GaugeInv, OfConf
<1>4. ASSUME NEW x \in gauge' PROVE ShownOf(x)'
  <2>1. CASE x \in NotLoadOwned
    <3>1. x \in gauge /\ x.check \notin LoadOwned
      BY <2>1 DEF NotLoadOwned
    <3> QED
      BY <1>1, <3>1, OutlivesParts DEF GaugeInv, ShownOf
  <2>2. CASE x \in LoadSeries(conf)
    BY <1>1, <2>2, LoadedSeries DEF ShownOf
  <2> QED
    BY <1>1, <1>4, <2>1, <2>2
<1>5. NothingOutlivesItsOwner'
  BY <1>3, <1>4 DEF NothingOutlivesItsOwner, OfConf, ShownOf
<1>6. ASSUME NEW alert, NEW file, NEW src, NEW chk \in RuntimeChecks, NEW q, q = <<alert, file, chk, src>>
      PROVE  Standing(gauge', q) = LastSaid(said', q)
  <2> DEFINE On(g) == {y \in g : y.rule = alert /\ y.file = file /\ y.check = chk /\ y.source = src}
  <2>1. On(gauge') = On(gauge)
    BY <1>1, LoadedSeries, FeedsAssumption DEF NotLoadOwned
  <2>2. q[1] = alert /\ q[2] = file /\ q[3] = chk /\ q[4] = src
    BY <1>6
  <2>3. Standing(gauge, q) = LastSaid(said, q)
    BY <1>6 DEF GaugeInv, Repeats
  <2> QED
    BY <1>1, <2>1, <2>2, <2>3 DEF Standing
<1>7. Repeats'
  BY <1>6 DEF Repeats
<1> QED
  BY <1>2, <1>5, <1>7 DEF GaugeInv

LEMMA GaugeStart ==
  ASSUME Init
  PROVE  GaugeInv
<1>1. /\ cmd = "run" => conf \in Configs
      /\ said = Empty
      /\ gauge = {} \/ gauge = LoadSeries(conf)
      /\ series = {} \/ series = BuildSeries(conf)
  BY DEF Init, GaugeInit, NoGauge
<1>2. DOMAIN said = {}
  BY DEF Init, GaugeInit, NoGauge, Empty
<1>3. \A x \in series : x.family = "group" /\ x.rule = None /\ x.source = None /\ x.group \in Groups(conf)
  BY <1>1 DEF BuildSeries, Series, Groups
<1>4. \A x \in gauge : x \in LoadSeries(conf) /\ x.check \in LoadOwned /\ x.source = None
  BY <1>1, LoadedSeries
<1>5. Configured /\ Labelled /\ Sensible
  BY <1>1, <1>2, <1>3 DEF Configured, Labelled, Sensible
<1>6. NothingOutlivesItsOwner
  BY <1>3, <1>4 DEF NothingOutlivesItsOwner
<1>7. ASSUME NEW alert, NEW file, NEW src, NEW chk \in RuntimeChecks, NEW q, q = <<alert, file, chk, src>>
      PROVE  Standing(gauge, q) = LastSaid(said, q)
  <2>1. chk \notin LoadOwned /\ q[3] = chk
    BY <1>7, FeedsAssumption
  <2> QED
    BY <1>2, <1>4, <2>1 DEF Standing, LastSaid
<1>8. Repeats
  BY <1>7 DEF Repeats
<1> QED
  BY <1>5, <1>6, <1>8 DEF GaugeInv

LEMMA GaugeUnmoved ==
  ASSUME GaugeInv, UNCHANGED <<cmd, conf, gauge, series, loading, said>>
  PROVE  GaugeInv'
<1>1. Configured' /\ Labelled' /\ Sensible' /\ Repeats'
  BY DEF GaugeInv, Configured, Labelled, Sensible, Repeats
<1>2. NothingOutlivesItsOwner'
  BY DEF GaugeInv, NothingOutlivesItsOwner
<1> QED
  BY <1>1, <1>2 DEF GaugeInv

LEMMA GaugeStep ==
  ASSUME NamesGiven, GaugeInv, [Next]_vars
  PROVE  GaugeInv'
<1>1. CASE CheckRules \/ ReplayRule \/ UNCHANGED vars
  BY <1>1, GaugeUnmoved DEF CheckRules, ReplayRule, Answers, vars, gaugeVars
<1>2. CASE RunRules
  <2>1. cmd = "run" /\ cmd' = cmd /\ GaugeNext
    BY <1>2 DEF RunRules
  <2> QED
    BY <2>1, EvaluateStep, RecheckStep, ReloadStep, ReportStep DEF GaugeNext
<1> QED
  BY <1>1, <1>2 DEF Next

(* Given that every source has a name, at every step the gauge shows what  *)
(* was last said of each question, and nothing is shown of what is gone.   *)
THEOREM AlwaysGaugeInv == NamesGiven /\ Spec => []GaugeInv
<1>1. CASE NamesGiven
  <2>1. Init => GaugeInv
    BY GaugeStart
  <2>2. GaugeInv /\ [Next]_vars => GaugeInv'
    BY <1>1, GaugeStep
  <2> QED
    BY <2>1, <2>2, PTL DEF Spec
<1>2. CASE ~NamesGiven
  BY <1>2
<1> QED
  BY <1>1, <1>2

(* NothingOutlivesItsOwner: a reload deletes the series of every group,    *)
(* rule and source that is gone (deleteGoneSeries), in every family and    *)
(* whatever evaluations and re-checks wrote before.                        *)
THEOREM NothingOutlives == NamesGiven /\ Spec => []NothingOutlivesItsOwner
<1>1. GaugeInv => NothingOutlivesItsOwner
  BY DEF GaugeInv
<1> QED
  BY <1>1, AlwaysGaugeInv, PTL

(* GaugeIsLastAnswer: what the gauge says of a rule on a source is what    *)
(* the last evaluation or re-check that answered that question said        *)
(* (answeredChecks and the clearing in evalGroup), across reloads.         *)
THEOREM LastAnswer == NamesGiven /\ Spec => []GaugeIsLastAnswer
<1>1. ASSUME GaugeInv PROVE GaugeIsLastAnswer
  <2> SUFFICES ASSUME NEW r \in conf.rules, NEW chk \in RuntimeChecks, NEW src \in Names(r) \union {None}
               PROVE  Shown(r, chk, src) = IF Question(r, chk, src) \in DOMAIN said
                                           THEN said[Question(r, chk, src)] ELSE {}
    BY DEF GaugeIsLastAnswer
  <2> DEFINE q == <<r.alert, r.file, chk, src>>
  <2>1. Standing(gauge, q) = LastSaid(said, q)
    BY <1>1 DEF GaugeInv, Repeats
  <2>2. Standing(gauge, q) = Shown(r, chk, src)
    BY DEF Standing, Shown
  <2>3. q = Question(r, chk, src)
    BY DEF Question
  <2> QED
    BY <2>1, <2>2, <2>3 DEF LastSaid
<1> QED
  BY <1>1, AlwaysGaugeInv, PTL

-----------------------------------------------------------------------------
(* What a standing report of a change of shape is worth. *)

(* The shape kept for a source is the last one it answered, and an answer  *)
(* that came while the findings of the load were still to come is marked.  *)
AllAnswers == [shape : {x.shape : x \in Results}, early : BOOLEAN]
Shapes ==
    /\ loading \in BOOLEAN
    /\ DOMAIN prev = DOMAIN shapes
    /\ \A k \in DOMAIN shapes :
          /\ shapes[k] \in Seq(AllAnswers) /\ Len(shapes[k]) <= 2 /\ Len(shapes[k]) > 0
          /\ prev[k] = shapes[k][Len(shapes[k])].shape
          /\ loading => shapes[k][Len(shapes[k])].early
DriftInv == Shapes /\ DriftIsChange

LEMMA TailOfThree ==
  ASSUME NEW S, NEW a \in Seq(S), Len(a) = 3
  PROVE  Tail(a) \in Seq(S) /\ Len(Tail(a)) = 2 /\ Tail(a)[1] = a[2] /\ Tail(a)[2] = a[3]
<1>1. a # <<>>
  <2>1. Len(<<>>) = 0
    OBVIOUS
  <2> QED
    BY <2>1
<1>2. /\ Tail(a) \in Seq(S) /\ Len(Tail(a)) = Len(a) - 1
      /\ \A i \in 1..Len(Tail(a)) : Tail(a)[i] = a[i + 1]
  BY <1>1, HeadTailProperties
<1> QED
  BY <1>2

LEMMA LastTwoAnswers ==
  ASSUME NEW S, NEW s \in Seq(S), Len(s) <= 2, NEW v \in S
  PROVE  LET t == LastTwo(Append(s, v)) IN
         /\ t \in Seq(S) /\ Len(t) <= 2 /\ Len(t) > 0 /\ t[Len(t)] = v
         /\ Len(s) > 0 => Len(t) = 2 /\ t[1] = s[Len(s)] /\ t[2] = v
         /\ Len(s) = 0 => Len(t) = 1
<1> DEFINE a == Append(s, v)
           t == LastTwo(a)
<1>1. /\ a \in Seq(S) /\ Len(a) = Len(s) + 1 /\ a[Len(s) + 1] = v
      /\ \A i \in 1..Len(s) : a[i] = s[i]
  OBVIOUS
<1>2. t = IF Len(a) > 2 THEN Tail(a) ELSE a
  BY DEF LastTwo
<1>3. Len(s) = 0 \/ Len(s) = 1 \/ Len(s) = 2
  <2>1. Len(s) \in Nat
    OBVIOUS
  <2>2. \A n \in Nat : n <= 2 => n = 0 \/ n = 1 \/ n = 2
    OBVIOUS
  <2> QED
    BY <2>1, <2>2, Zenon
<1> HIDE DEF a, t
<1>4. CASE Len(s) = 2
  <2>1. Len(a) = 3 /\ a[3] = v /\ a[2] = s[2]
    BY <1>1, <1>4
  <2>2. t = Tail(a)
    BY <1>2, <2>1
  <2>3. t \in Seq(S) /\ Len(t) = 2 /\ t[1] = a[2] /\ t[2] = a[3]
    BY <1>1, <2>1, <2>2, TailOfThree
  <2> QED
    BY <1>4, <2>1, <2>3 DEF t, a
<1>5. CASE Len(s) = 1
  <2>1. Len(a) = 2 /\ a[2] = v /\ a[1] = s[1]
    BY <1>1, <1>5
  <2>2. t = a
    BY <1>2, <2>1
  <2>3. t \in Seq(S) /\ Len(t) = 2 /\ t[1] = s[1] /\ t[2] = v
    BY <1>1, <2>1, <2>2
  <2> QED
    BY <1>5, <2>3 DEF t, a
<1>6. CASE Len(s) = 0
  <2>1. Len(a) = 1 /\ a[1] = v
    BY <1>1, <1>6
  <2>2. t = a
    BY <1>2, <2>1
  <2>3. t \in Seq(S) /\ Len(t) = 1 /\ t[1] = v
    BY <1>1, <2>1, <2>2
  <2> QED
    BY <1>6, <2>3 DEF t, a
<1> QED
  BY <1>3, <1>4, <1>5, <1>6

(* What an evaluation makes of the shapes kept. *)
LEMMA Remembering ==
  ASSUME Shapes, NEW r, NEW out \in [1..Len(r.sources) -> Results], Evaluate(r, out)
  PROVE  /\ Shapes'
         /\ \A k : k \notin Keys(r, Answering(r, out)) =>
              (k \in DOMAIN shapes' => k \in DOMAIN shapes /\ shapes'[k] = shapes[k])
         /\ \A k : \A i \in Answering(r, out) :
              k = <<r, r.sources[i].name>> /\ (\A j \in Answering(r, out) : k = <<r, r.sources[j].name>> => j = i) =>
                 /\ k \in DOMAIN prev => /\ Len(shapes'[k]) = 2 /\ shapes'[k][1].shape = prev[k]
                                         /\ shapes'[k][2].shape = out[i].shape
                 /\ k \notin DOMAIN prev => Len(shapes'[k]) = 1
<1> DEFINE Now(k) == {i \in Answering(r, out) : k \in Keys(r, {i})}
           Old(k) == IF k \in DOMAIN shapes THEN shapes[k] ELSE <<>>
           latest(k) == [shape |-> out[CHOOSE i \in Now(k) : TRUE].shape, early |-> loading]
<1>1. /\ DOMAIN shapes' = DOMAIN shapes \union Keys(r, Answering(r, out))
      /\ \A k \in DOMAIN shapes' : shapes'[k] = IF Now(k) = {} THEN Old(k) ELSE LastTwo(Append(Old(k), latest(k)))
  BY DEF Evaluate, RememberShapes
<1>2. /\ DOMAIN prev' = DOMAIN prev \union Keys(r, Answering(r, out))
      /\ \A k \in DOMAIN prev' : prev'[k] = IF Now(k) = {} THEN prev[k] ELSE latest(k).shape
      /\ loading' = loading
  BY DEF Evaluate, Baselines
<1>3. \A k : \A i : k \in Keys(r, {i}) <=> k = <<r, r.sources[i].name>>
  BY DEF Keys
<1>4. \A k : k \in Keys(r, Answering(r, out)) <=> Now(k) # {}
  BY <1>3 DEF Keys
<1>5. ASSUME NEW k, Now(k) # {} PROVE (CHOOSE i \in Now(k) : TRUE) \in Now(k) /\ latest(k) \in AllAnswers
  <2>1. (CHOOSE i \in Now(k) : TRUE) \in Now(k)
    BY <1>5
  <2>2. PICK i \in Answering(r, out) : latest(k) = [shape |-> out[i].shape, early |-> loading]
    BY <2>1
  <2>3. out[i] \in Results
    BY DEF Answering
  <2> HIDE DEF latest
  <2> QED
    BY <2>1, <2>2, <2>3 DEF AllAnswers, Shapes
<1>6. ASSUME NEW k PROVE Old(k) \in Seq(AllAnswers) /\ Len(Old(k)) <= 2
  <2>1. CASE k \in DOMAIN shapes
    BY <2>1 DEF Shapes
  <2>2. CASE k \notin DOMAIN shapes
    <3>1. Old(k) = <<>>
      BY <2>2
    <3>2. <<>> \in Seq(AllAnswers) /\ Len(<<>>) <= 2
      OBVIOUS
    <3> HIDE DEF Old
    <3> QED
      BY <3>1, <3>2
  <2> QED
    BY <2>1, <2>2
<1>7. ASSUME NEW k PROVE latest(k).early = loading
  OBVIOUS
<1>8. ASSUME NEW k PROVE IF k \in DOMAIN prev THEN Len(Old(k)) > 0 /\ Old(k)[Len(Old(k))].shape = prev[k]
                         ELSE Len(Old(k)) = 0
  BY DEF Shapes
<1>9. ASSUME NEW i \in Answering(r, out), NEW k, k = <<r, r.sources[i].name>>,
             \A j \in Answering(r, out) : k = <<r, r.sources[j].name>> => j = i
      PROVE  Now(k) = {i} /\ latest(k).shape = out[i].shape
  <2>1. Now(k) = {i}
    BY <1>3, <1>9
  <2>2. (CHOOSE j \in Now(k) : TRUE) = i
    BY <2>1
  <2> QED
    BY <2>1, <2>2
<1>10. ASSUME NEW k \in DOMAIN shapes PROVE Old(k) = shapes[k]
  BY <1>10
<1> HIDE DEF Now, Old, latest
<1>11. ASSUME NEW k, Now(k) # {}
       PROVE  LET t == shapes'[k] IN
              /\ k \in DOMAIN shapes' /\ t \in Seq(AllAnswers) /\ Len(t) <= 2 /\ Len(t) > 0
              /\ t[Len(t)] = latest(k)
              /\ Len(Old(k)) > 0 => Len(t) = 2 /\ t[1] = Old(k)[Len(Old(k))] /\ t[2] = latest(k)
              /\ Len(Old(k)) = 0 => Len(t) = 1
  <2>1. k \in DOMAIN shapes' /\ shapes'[k] = LastTwo(Append(Old(k), latest(k))) /\ latest(k) \in AllAnswers
    BY <1>1, <1>4, <1>5, <1>11
  <2> DEFINE s == Old(k)
             v == latest(k)
             t == LastTwo(Append(s, v))
  <2>2. s \in Seq(AllAnswers) /\ Len(s) <= 2 /\ v \in AllAnswers
    BY <1>6, <2>1
  <2> HIDE DEF s, v
  <2>3. /\ t \in Seq(AllAnswers) /\ Len(t) <= 2 /\ Len(t) > 0 /\ t[Len(t)] = v
        /\ Len(s) > 0 => Len(t) = 2 /\ t[1] = s[Len(s)] /\ t[2] = v
        /\ Len(s) = 0 => Len(t) = 1
    BY <2>2, LastTwoAnswers
  <2>4. t = shapes'[k] /\ s = Old(k) /\ v = latest(k)
    BY <2>1 DEF s, v
  <2> HIDE DEF t
  <2> QED
    BY <2>1, <2>3, <2>4
<1>12. ASSUME NEW k \in DOMAIN shapes', Now(k) = {} PROVE k \in DOMAIN shapes /\ shapes'[k] = shapes[k]
  BY <1>1, <1>4, <1>10, <1>12
<1>13. ASSUME NEW k \in DOMAIN shapes'
       PROVE  /\ shapes'[k] \in Seq(AllAnswers) /\ Len(shapes'[k]) <= 2 /\ Len(shapes'[k]) > 0
              /\ prev'[k] = shapes'[k][Len(shapes'[k])].shape
              /\ loading' => shapes'[k][Len(shapes'[k])].early
  <2>1. k \in DOMAIN prev'
    BY <1>1, <1>2 DEF Shapes
  <2>2. CASE Now(k) # {}
    <3>1. prev'[k] = latest(k).shape /\ latest(k).early = loading
      BY <1>2, <1>7, <2>1, <2>2
    <3> QED
      BY <1>2, <1>11, <2>2, <3>1
  <2>3. CASE Now(k) = {}
    <3>1. prev'[k] = prev[k] /\ k \in DOMAIN shapes /\ shapes'[k] = shapes[k]
      BY <1>2, <1>12, <2>1, <2>3
    <3> QED
      BY <1>2, <3>1 DEF Shapes
  <2> QED
    BY <2>2, <2>3
<1>14. Shapes'
  <2>1. DOMAIN prev' = DOMAIN shapes' /\ loading' \in BOOLEAN
    BY <1>1, <1>2 DEF Shapes
  <2> QED
    BY <1>13, <2>1 DEF Shapes
<1>15. ASSUME NEW k, k \notin Keys(r, Answering(r, out)), k \in DOMAIN shapes'
       PROVE  k \in DOMAIN shapes /\ shapes'[k] = shapes[k]
  BY <1>4, <1>12, <1>15
<1>16. ASSUME NEW k, NEW i \in Answering(r, out), k = <<r, r.sources[i].name>>,
              \A j \in Answering(r, out) : k = <<r, r.sources[j].name>> => j = i
       PROVE  /\ k \in DOMAIN prev => /\ Len(shapes'[k]) = 2 /\ shapes'[k][1].shape = prev[k]
                                      /\ shapes'[k][2].shape = out[i].shape
              /\ k \notin DOMAIN prev => Len(shapes'[k]) = 1
  <2>1. Now(k) # {} /\ latest(k).shape = out[i].shape
    BY <1>9, <1>16
  <2> QED
    BY <1>8, <1>11, <2>1
<1> QED
  BY <1>14, <1>15, <1>16

(* What the gauge and the answers of one source say of a change. *)
About(x, r, src) == x.rule = r.alert /\ x.file = r.file /\ x.check = "rule/columns" /\ x.source = src
Changed(r, src) ==
    LET answers == shapes[<<r, src>>] IN Len(answers) = 2 /\ answers[1].shape # answers[2].shape
Demanded(r, src) == shapes[<<r, src>>][Len(shapes[<<r, src>>])].early = loading
Right(r, src) ==
    /\ \A x \in gauge : About(x, r, src) => Changed(r, src)
    /\ Changed(r, src) /\ Demanded(r, src) => \E x \in gauge : About(x, r, src)

LEMMA DriftParts ==
  DriftIsChange <=> \A r \in conf.rules : Alone(r) => \A src \in Names(r) : <<r, src>> \in DOMAIN shapes => Right(r, src)
<1>1. ASSUME NEW r, NEW src
      PROVE  Shown(r, "rule/columns", src) # {} <=> \E x \in gauge : About(x, r, src)
  BY DEF Shown, About
<1> QED
  BY <1>1 DEF DriftIsChange, Changed, Demanded, Right

(* A changed answer is reported: nobody configures the check. *)
LEMMA ChangeRaised ==
  ASSUME NEW r, NEW out, NEW i \in Answering(r, out), <<r, r.sources[i].name>> \in DOMAIN prev,
         prev[<<r, r.sources[i].name>>] # out[i].shape
  PROVE  \E x \in Problems(r, out) : About(x, r, r.sources[i].name)
<1> DEFINE s == r.sources[i]
           x == Raise(r, "rule/columns", Error, s.name)
<1>1. i \in 1..Len(r.sources) /\ out[i].kind = "answered"
  BY DEF Answering
<1>2. runtimeProblem(r, s, "rule/columns") = {x}
  <2>1. ~Configurable("rule/columns")
    BY FeedsAssumption
  <2>2. Error # Off
    BY DEF Error, Off
  <2> QED
    BY <2>1, <2>2 DEF runtimeProblem
<1>3. x \in inspect(r, i, out)
  BY <1>1, <1>2 DEF inspect
<1>4. x \in Problems(r, out)
  BY <1>1, <1>3 DEF Problems
<1>5. About(x, r, s.name)
  BY DEF About, Raise
<1> QED
  BY <1>4, <1>5

(* An evaluation answers the question about columns of the sources that    *)
(* answered it, and of no other.                                           *)
LEMMA ColumnsAnswered ==
  ASSUME NEW r, NEW out, NEW x, x.check = "rule/columns", x.rule = r.alert, x.file = r.file
  PROVE  (\E a \in answeredChecks(r, out) : Cleared(r, a, x)) <=>
            \E i \in Answering(r, out) : x.source = r.sources[i].name \/ r.sources[i].name = None
<1>1. ASSUME NEW a \in answeredChecks(r, out), Cleared(r, a, x)
      PROVE  \E i \in Answering(r, out) : x.source = r.sources[i].name \/ r.sources[i].name = None
  <2>1. a[1] = "rule/columns" /\ (a[2] = None \/ x.source = a[2])
    BY <1>1 DEF Cleared
  <2>2. PICK i \in 1..Len(r.sources) : a \in AnswersOf(r, i, out)
    BY <1>1, <2>1 DEF answeredChecks
  <2>3. out[i].kind = "answered" /\ a = <<"rule/columns", r.sources[i].name>>
    BY <2>1, <2>2 DEF AnswersOf
  <2> QED
    BY <2>1, <2>3 DEF Answering
<1>2. ASSUME NEW i \in Answering(r, out), x.source = r.sources[i].name \/ r.sources[i].name = None
      PROVE  \E a \in answeredChecks(r, out) : Cleared(r, a, x)
  <2> DEFINE a == <<"rule/columns", r.sources[i].name>>
  <2>1. i \in 1..Len(r.sources) /\ out[i].kind = "answered"
    BY DEF Answering
  <2>2. a \in AnswersOf(r, i, out)
    BY <2>1 DEF AnswersOf
  <2>3. a \in answeredChecks(r, out)
    BY <2>1, <2>2 DEF answeredChecks
  <2>4. Cleared(r, a, x)
    BY <1>2 DEF Cleared
  <2> QED
    BY <2>3, <2>4
<1> QED
  BY <1>1, <1>2

LEMMA DriftEvaluate ==
  ASSUME NamesGiven, NamesDistinct, GaugeInv, DriftInv, cmd = "run",
         NEW r0 \in conf.rules, NEW out \in [1..Len(r0.sources) -> Results], Evaluate(r0, out)
  PROVE  DriftInv'
<1>1. conf \in Configs /\ conf' = conf /\ loading' = loading /\ Sourced(r0)
  BY RuleSourced DEF GaugeInv, Configured, Evaluate
<1>2. gauge' = {x \in gauge : ~\E a \in answeredChecks(r0, out) : Cleared(r0, a, x)} \union Problems(r0, out)
  BY DEF Evaluate
<1>3. Shapes /\ Shapes'
  BY Remembering DEF DriftInv
<1>4. ASSUME NEW r \in conf.rules, Alone(r), NEW src \in Names(r), <<r, src>> \in DOMAIN shapes'
      PROVE  Right(r, src)'
  <2> DEFINE k == <<r, src>>
  <2>1. ASSUME NEW x, About(x, r, src), x.rule = r0.alert, x.file = r0.file PROVE r0 = r
    BY <1>4, <2>1 DEF About, Alone
  <2>2. CASE \E i \in Answering(r0, out) : k = <<r0, r0.sources[i].name>>
    <3>1. PICK i \in Answering(r0, out) : r0 = r /\ src = r0.sources[i].name
      BY <2>2
    <3>2. ASSUME NEW j \in Answering(r0, out), k = <<r0, r0.sources[j].name>> PROVE j = i
      <4>1. r0.sources[j].name = r0.sources[i].name /\ i \in 1..Len(r0.sources) /\ j \in 1..Len(r0.sources)
        BY <3>1, <3>2 DEF Answering
      <4> QED
        BY <1>1, <4>1 DEF NamesDistinct
    <3>3. k = <<r0, r0.sources[i].name>>
      BY <3>1
    <3> HIDE DEF k
    <3>4. /\ k \in DOMAIN prev => /\ Len(shapes'[k]) = 2 /\ shapes'[k][1].shape = prev[k]
                                  /\ shapes'[k][2].shape = out[i].shape
          /\ k \notin DOMAIN prev => Len(shapes'[k]) = 1
      BY <1>3, <3>2, <3>3, Remembering
    <3>5. Changed(r, src)' <=> k \in DOMAIN prev /\ prev[k] # out[i].shape
      BY <3>4 DEF Changed, k
    <3>6. ASSUME NEW x \in gauge', About(x, r, src) PROVE Changed(r, src)'
      <4>1. x.check = "rule/columns" /\ x.rule = r0.alert /\ x.file = r0.file /\ x.source = r0.sources[i].name
        BY <3>1, <3>6 DEF About
      <4>2. x \in Problems(r0, out)
        BY <1>2, <3>6, <4>1, ColumnsAnswered
      <4>3. PICK j \in Answering(r0, out) :
               x.source = r0.sources[j].name /\ <<r0, x.source>> \in DOMAIN prev /\ prev[<<r0, x.source>>] # out[j].shape
        BY <1>1, <4>1, <4>2, EvaluationFinds
      <4>4. k = <<r0, x.source>> /\ j = i
        BY <3>2, <3>3, <4>1, <4>3
      <4> QED
        BY <3>5, <4>3, <4>4
    <3>7. ASSUME Changed(r, src)' PROVE \E x \in gauge' : About(x, r, src)
      <4>1. <<r0, r0.sources[i].name>> \in DOMAIN prev /\ prev[<<r0, r0.sources[i].name>>] # out[i].shape
        BY <3>3, <3>5, <3>7
      <4>2. PICK x \in Problems(r0, out) : About(x, r0, r0.sources[i].name)
        BY <4>1, ChangeRaised
      <4> QED
        BY <1>2, <3>1, <4>2
    <3> QED
      BY <3>6, <3>7 DEF Right, About
  <2>3. CASE ~\E i \in Answering(r0, out) : k = <<r0, r0.sources[i].name>>
    <3>1. k \notin Keys(r0, Answering(r0, out))
      BY <2>3 DEF Keys
    <3>2. k \in DOMAIN shapes /\ shapes'[k] = shapes[k]
      <4> HIDE DEF k
      <4>1. k \in DOMAIN shapes'
        BY <1>4 DEF k
      <4> QED
        BY <1>3, <3>1, <4>1, Remembering
    <3>3. Right(r, src)
      BY <1>4, <3>2, DriftParts DEF DriftInv
    <3>4. (Changed(r, src)' <=> Changed(r, src)) /\ (Demanded(r, src)' <=> Demanded(r, src))
      BY <1>1, <3>2 DEF Changed, Demanded
    <3>5. ASSUME NEW x, About(x, r, src) PROVE x \in gauge' <=> x \in gauge
      <4>1. x.check = "rule/columns" /\ x.source = src
        BY <3>5 DEF About
      <4>2. ASSUME NEW i \in Answering(r0, out), r0 = r PROVE r0.sources[i].name \notin {src, None}
        <5>1. i \in 1..Len(r0.sources)
          BY <4>2 DEF Answering
        <5> QED
          BY <1>1, <2>3, <4>2, <5>1 DEF Sourced
      <4>3. x \notin Problems(r0, out)
        <5> SUFFICES ASSUME x \in Problems(r0, out) PROVE FALSE
          OBVIOUS
        <5>1. x.rule = r0.alert /\ x.file = r0.file /\ \E i \in Answering(r0, out) : x.source = r0.sources[i].name
          BY <1>1, <4>1, EvaluationFinds
        <5> QED
          BY <2>1, <3>5, <4>1, <4>2, <5>1
      <4>4. ~\E a \in answeredChecks(r0, out) : Cleared(r0, a, x)
        <5> SUFFICES ASSUME NEW a \in answeredChecks(r0, out), Cleared(r0, a, x) PROVE FALSE
          OBVIOUS
        <5>1. x.rule = r0.alert /\ x.file = r0.file
          BY DEF Cleared
        <5>2. r0 = r
          BY <2>1, <3>5, <5>1
        <5>3. \E i \in Answering(r0, out) : x.source = r0.sources[i].name \/ r0.sources[i].name = None
          BY <4>1, <5>1, ColumnsAnswered
        <5> QED
          BY <4>1, <4>2, <5>2, <5>3
      <4> QED
        BY <1>2, <4>3, <4>4
    <3> QED
      BY <3>3, <3>4, <3>5 DEF Right, About
  <2> QED
    BY <2>2, <2>3
<1>5. (\A r \in conf.rules : Alone(r) => \A src \in Names(r) : <<r, src>> \in DOMAIN shapes => Right(r, src))'
  BY <1>1, <1>4 DEF Alone, Names
<1>6. DriftIsChange'
  BY <1>5, DriftParts, PTL
<1> QED
  BY <1>3, <1>6 DEF DriftInv

(* A step that keeps the shapes and touches no report of a change. *)
LEMMA DriftKept ==
  ASSUME DriftInv, UNCHANGED <<conf, loading, prev, shapes>>,
         \A x : x.check = "rule/columns" => (x \in gauge' <=> x \in gauge)
  PROVE  DriftInv'
<1>1. ASSUME NEW r \in conf.rules, Alone(r), NEW src \in Names(r), <<r, src>> \in DOMAIN shapes
      PROVE  Right(r, src)'
  <2>1. Right(r, src)
    BY <1>1, DriftParts DEF DriftInv
  <2>2. \A x : About(x, r, src) => (x \in gauge' <=> x \in gauge)
    BY DEF About
  <2>3. (Changed(r, src)' <=> Changed(r, src)) /\ (Demanded(r, src)' <=> Demanded(r, src))
    BY DEF Changed, Demanded
  <2> QED
    BY <2>1, <2>2, <2>3 DEF Right, About
<1>2. (\A r \in conf.rules : Alone(r) => \A src \in Names(r) : <<r, src>> \in DOMAIN shapes => Right(r, src))'
  BY <1>1 DEF Alone, Names
<1>3. DriftIsChange'
  BY <1>2, DriftParts, PTL
<1> QED
  BY <1>3 DEF DriftInv, Shapes

(* Before any source has answered there is nothing to say. *)
LEMMA DriftFresh ==
  ASSUME prev = Empty, shapes = Empty, loading \in BOOLEAN
  PROVE  DriftInv
<1>1. DOMAIN prev = {} /\ DOMAIN shapes = {}
  BY DEF Empty
<1> QED
  BY <1>1 DEF DriftInv, DriftIsChange, Shapes

(* The report of the load leaves no report of a change about a source, and *)
(* every answer so far was early.                                          *)
LEMMA DriftReport ==
  ASSUME NamesGiven, GaugeInv, cmd = "run", DriftInv, ReportLoadFindings
  PROVE  DriftInv'
<1>1. /\ conf \in Configs /\ conf' = conf /\ prev' = prev /\ shapes' = shapes
      /\ gauge' = NotLoadOwned \union LoadSeries(conf) /\ loading = TRUE /\ loading' = FALSE
  BY DEF GaugeInv, Configured, ReportLoadFindings, DriftInv, Shapes
<1>2. ASSUME NEW x \in gauge', x.check = "rule/columns" PROVE x.source = None
  BY <1>1, <1>2, LoadedSeries, FeedsAssumption DEF NotLoadOwned
<1>3. Shapes'
  BY <1>1 DEF DriftInv, Shapes
<1>4. ASSUME NEW r \in conf.rules, NEW src \in Names(r), <<r, src>> \in DOMAIN shapes
      PROVE  Right(r, src)'
  <2>1. src # None
    BY <1>1 DEF NamesGiven
  <2>2. \A x \in gauge' : ~About(x, r, src)
    BY <1>2, <2>1 DEF About
  <2>3. shapes[<<r, src>>][Len(shapes[<<r, src>>])].early = TRUE
    <3>1. shapes[<<r, src>>][Len(shapes[<<r, src>>])] \in AllAnswers /\ shapes[<<r, src>>][Len(shapes[<<r, src>>])].early
      BY <1>1, <1>4 DEF DriftInv, Shapes
    <3> QED
      BY <3>1 DEF AllAnswers
  <2>4. ~Demanded(r, src)'
    BY <1>1, <2>3 DEF Demanded
  <2> QED
    BY <2>2, <2>4 DEF Right, About
<1>5. (\A r \in conf.rules : Alone(r) => \A src \in Names(r) : <<r, src>> \in DOMAIN shapes => Right(r, src))'
  BY <1>1, <1>4 DEF Names
<1>6. DriftIsChange'
  BY <1>5, DriftParts, PTL
<1> QED
  BY <1>3, <1>6 DEF DriftInv

LEMMA DriftStep ==
  ASSUME NamesGiven, NamesDistinct, GaugeInv, DriftInv, [Next]_vars
  PROVE  DriftInv'
<1>1. CASE CheckRules \/ ReplayRule \/ UNCHANGED vars
  <2>1. UNCHANGED gaugeVars
    BY <1>1 DEF CheckRules, ReplayRule, Answers, vars
  <2> QED
    BY <2>1, DriftKept DEF gaugeVars
<1>2. CASE RunRules
  <2>1. cmd = "run" /\ GaugeNext
    BY <1>2 DEF RunRules
  <2>2. ASSUME NEW r \in conf.rules, NEW sampled, Recheck(r, sampled) PROVE DriftInv'
    <3>1. UNCHANGED <<conf, loading, prev, shapes>>
      BY <2>2 DEF Recheck
    <3>2. PICK about, found :
             /\ gauge' = {x \in gauge : ~\E a \in about : Cleared(r, a, x)} \union found
             /\ \A a \in about : a[1] = "rule/attribute-key"
             /\ \A x \in found : x.check = "rule/attribute-key"
      <4> DEFINE ab == {<<"rule/attribute-key", r.sources[i].name>> : i \in Asked(r, sampled)}
                 fd == UNION {runtimeProblem(r, r.sources[i], "rule/attribute-key")
                              : i \in {j \in Asked(r, sampled) : Wanted(r, j) /\ sampled[j] = "missing"}}
      <4>1. gauge' = {x \in gauge : ~\E a \in ab : Cleared(r, a, x)} \union fd
        BY <2>2 DEF Recheck
      <4>2. \A a \in ab : a[1] = "rule/attribute-key"
        OBVIOUS
      <4>3. \A x \in fd : x.check = "rule/attribute-key"
        BY Raised
      <4> HIDE DEF ab, fd
      <4> QED
        BY <4>1, <4>2, <4>3
    <3>3. \A x : x.check = "rule/columns" => (x \in gauge' <=> x \in gauge)
      BY <3>2 DEF Cleared
    <3> QED
      BY <3>1, <3>3, DriftKept
  <2>3. ASSUME NEW c \in Configs, Reload(c) PROVE DriftInv'
    <3>1. (prev = Empty /\ shapes = Empty /\ loading \in BOOLEAN)'
      BY <2>3 DEF Reload, Empty
    <3> QED
      BY <3>1, DriftFresh, PTL
  <2> QED
    BY <2>1, <2>2, <2>3, DriftEvaluate, DriftReport DEF GaugeNext
<1> QED
  BY <1>1, <1>2 DEF Next

(* DriftIsChange: a report that a source's columns changed stands exactly  *)
(* while its last two answers since the reload differ, whatever failures,  *)
(* re-checks and other rules came between (drift.inspect, the shape kept   *)
(* in prev, and the clearing of answered checks), save that the report of  *)
(* the load clears what was found before it.                               *)
THEOREM Drift == NamesGiven /\ NamesDistinct /\ Spec => []DriftIsChange
<1>1. CASE NamesGiven /\ NamesDistinct
  <2>1. Init => DriftInv
    <3>1. Init => prev = Empty /\ shapes = Empty /\ loading \in BOOLEAN
      BY DEF Init, GaugeInit, NoGauge
    <3> QED
      BY <3>1, DriftFresh
  <2>2. GaugeInv /\ DriftInv /\ [Next]_vars => DriftInv'
    BY <1>1, DriftStep
  <2>3. Spec => []GaugeInv
    BY <1>1, AlwaysGaugeInv
  <2>4. DriftInv => DriftIsChange
    BY DEF DriftInv
  <2> QED
    BY <2>1, <2>2, <2>3, <2>4, PTL DEF Spec
<1>2. CASE ~(NamesGiven /\ NamesDistinct)
  BY <1>2
<1> QED
  BY <1>1, <1>2

-----------------------------------------------------------------------------
(* The ceiling of a replay.                                                *)

LEMMA DivBounds ==
  ASSUME NEW a \in Nat, NEW b \in Nat, b > 0
  PROVE  a \div b \in Nat /\ b * (a \div b) <= a /\ a < b * (a \div b) + b
OBVIOUS

LEMMA MulMonotone ==
  ASSUME NEW a \in Nat, NEW b \in Nat, NEW c \in Nat, a <= b
  PROVE  a * c <= b * c /\ c * a <= c * b /\ a * c \in Nat
OBVIOUS

LEMMA MulCancel ==
  ASSUME NEW a \in Nat, NEW b \in Nat, NEW c \in Nat, c > 0, c * a < c * b
  PROVE  a < b
<1>1. b <= a => c * b <= c * a
  BY MulMonotone
<1>2. c * a \in Nat /\ c * b \in Nat
  BY MulMonotone
<1> QED
  BY <1>1, <1>2

LEMMA Windows ==
  ASSUME NEW span \in Nat, NEW step \in Nat, NEW w, w = replayWindows(span, step), step > 0
  PROVE  w \in Nat /\ w > 0 /\ span < step * w + step /\ (w > 1 => step * w <= span)
<1>1. span \div step \in Nat /\ step * (span \div step) <= span /\ span < step * (span \div step) + step
  BY DivBounds
<1>2. CASE span \div step < 1
  <2>1. w = 1 /\ span \div step = 0
    BY <1>1, <1>2 DEF replayWindows
  <2> QED
    BY <1>1, <2>1
<1>3. CASE ~(span \div step < 1)
  <2>1. w = span \div step
    BY <1>3 DEF replayWindows
  <2> QED
    BY <1>1, <1>3, <2>1
<1> QED
  BY <1>2, <1>3

(* The step chosen for a ceiling, made coarser by the smallest multiple    *)
(* whose windows fit, divides the range into few enough windows.           *)
LEMMA Coarser ==
  ASSUME NEW span \in Nat, NEW step \in Nat, step > 0, NEW al \in Nat, al > 0,
         NEW w, w = replayWindows(span, step),
         NEW k, k = Multiple(w, al), NEW v, v = replayWindows(span, step * k)
  PROVE  k \in Nat /\ k > 0 /\ v \in Nat /\ (v = 1 \/ v <= al)
<1>1. w \in Nat /\ w > 0 /\ span < step * w + step
  BY Windows
<1>2. k \in Nat /\ w + al - 1 < al * k + al
  <2>1. w + al - 1 \in Nat
    BY <1>1
  <2> QED
    BY <2>1, DivBounds DEF Multiple
<1>3. k > 0
  <2>1. k = 0 => al * k = 0
    OBVIOUS
  <2> QED
    BY <1>1, <1>2, <2>1
<1>4. w <= al * k
  <2>1. al * k \in Nat
    BY <1>2
  <2> QED
    BY <1>1, <1>2, <2>1
<1>5. step * k \in Nat /\ step * k > 0
  BY <1>2, <1>3
<1>6. v \in Nat /\ v > 0 /\ (v > 1 => (step * k) * v <= span)
  BY <1>5, Windows
<1>7. ASSUME v > 1 PROVE v <= al
  <2>1. (step * k) * v = step * (k * v) /\ k * v \in Nat
    BY <1>2, <1>6
  <2>2. step * (k * v) < step * (w + 1)
    <3>1. step * (w + 1) = step * w + step
      BY <1>1
    <3> QED
      BY <1>1, <1>6, <1>7, <2>1, <3>1
  <2>3. k * v < w + 1
    BY <1>1, <2>1, <2>2, MulCancel
  <2>4. k * v < k * (al + 1)
    <3>1. k * (al + 1) = al * k + k /\ al * k \in Nat
      BY <1>2
    <3> QED
      BY <1>1, <1>2, <1>3, <1>4, <2>1, <2>3, <3>1
  <2>5. v < al + 1
    BY <1>2, <1>3, <1>6, <2>4, MulCancel
  <2> QED
    BY <1>6, <2>5
<1> QED
  BY <1>2, <1>3, <1>6, <1>7

LEMMA WithinCeiling ==
  ASSUME NEW span \in Nat, NEW step \in Nat, NEW rows \in Nat, NEW ceiling \in Nat,
         span > 0, step > 0, ceiling > 0, NEW v, v = replayWindows(span, stepWithinCeiling(span, step, rows, ceiling))
  PROVE  v \in Nat /\ (v = 1 \/ v * rows <= ceiling)
<1> DEFINE w == replayWindows(span, step)
           al == IF ceiling \div rows < 1 THEN 1 ELSE ceiling \div rows
           k == Multiple(w, al)
<1>1. w \in Nat /\ w > 0
  BY Windows
<1>2. CASE Fits(w, rows, ceiling)
  <2>1. v = w
    BY <1>2 DEF stepWithinCeiling
  <2>2. CASE rows = 0
    BY <1>1, <2>1, <2>2
  <2>3. CASE rows <= ceiling \div w
    <3>1. ceiling \div w \in Nat /\ w * (ceiling \div w) <= ceiling
      BY <1>1, DivBounds
    <3>2. w * rows <= w * (ceiling \div w) /\ w * rows \in Nat /\ w * (ceiling \div w) \in Nat
      BY <1>1, <2>3, <3>1, MulMonotone
    <3> QED
      BY <1>1, <2>1, <3>1, <3>2
  <2> QED
    BY <1>2, <2>2, <2>3 DEF Fits
<1>3. CASE ~Fits(w, rows, ceiling)
  <2>1. rows > 0
    BY <1>3 DEF Fits
  <2>2. ceiling \div rows \in Nat /\ rows * (ceiling \div rows) <= ceiling
    BY <2>1, DivBounds
  <2>3. al \in Nat /\ al > 0 /\ (al = 1 \/ rows * al <= ceiling)
    BY <2>2
  <2>4. CASE k > MaxMultiple
    <3>1. v = replayWindows(span, span)
      BY <1>3, <2>4 DEF stepWithinCeiling
    <3>2. v \in Nat /\ v > 0 /\ (v > 1 => span * v <= span)
      BY <3>1, Windows
    <3>3. v > 1 => span * 1 < span * v
      BY <3>2
    <3> QED
      BY <3>2, <3>3
  <2>5. CASE ~(k > MaxMultiple)
    <3>1. v = replayWindows(span, step * k)
      BY <1>3, <2>5 DEF stepWithinCeiling
    <3> HIDE DEF al
    <3>2. v \in Nat /\ (v = 1 \/ v <= al)
      BY <2>3, <3>1, Coarser
    <3>3. v <= al => v * rows <= al * rows /\ v * rows \in Nat
      BY <2>3, <3>2, MulMonotone
    <3>4. al * rows = rows * al /\ al * rows \in Nat
      BY <2>3
    <3>5. al = 1 /\ v <= al => v = 0 \/ v = 1
      BY <3>2
    <3>6. v = 0 => v * rows = 0
      OBVIOUS
    <3> QED
      BY <2>3, <3>2, <3>3, <3>4, <3>5, <3>6
  <2> QED
    BY <2>4, <2>5
<1> QED
  BY <1>2, <1>3

LEMMA CountOf ==
  ASSUME NEW c \in ReplayInputs, c.range > 0, c.step > 0, c.ceiling > 0
  PROVE  Len(Instants(c)) = 1 \/ Len(Instants(c)) * c.perWindow <= c.ceiling
<1> DEFINE v == replayWindows(c.range, Step(c))
<1>1. c.range \in Nat /\ c.step \in Nat /\ c.perWindow \in Nat /\ c.ceiling \in Nat
  BY ReplayAssumption
<1>2. v \in Nat /\ (v = 1 \/ v * c.perWindow <= c.ceiling)
  BY <1>1, WithinCeiling DEF Step
<1>3. Instants(c) = [i \in 1..v |-> c.now - (v - i) * Step(c)]
  BY DEF Instants, replayInstants
<1> HIDE DEF v
<1>4. Len(Instants(c)) = v
  BY <1>2, <1>3
<1> QED
  BY <1>2, <1>4

Given == cmd = "backfill" => input \in ReplayInputs

(* ReplayWithinCeiling: however the step divides the range, the windows a  *)
(* replay is cut into predict no more rows than the ceiling, or there is   *)
(* only the one (stepWithinCeiling, replayWindows, replayInstants).        *)
THEOREM ReplayFits == Spec => []ReplayWithinCeiling
<1>1. Init => Given
  BY DEF Init, Given
<1>2. Given /\ [Next]_vars => Given'
  BY DEF Given, Next, CheckRules, ReplayRule, RunRules, Answers, vars
<1>3. Given => ReplayWithinCeiling
  BY CountOf DEF Given, ReplayWithinCeiling, Replayed
<1> QED
  BY <1>1, <1>2, <1>3, PTL DEF Spec

-----------------------------------------------------------------------------
(* One scope of a policy merged into the ones before it.                   *)

(* A setting as policies hold them: a severity, and keys with or without a *)
(* ceiling.                                                                *)
Setting(s) == s.severity \in Severities /\ \A k \in s.keys : k.limit \in Int

LEMMA MinIsLeast ==
  ASSUME NEW S, S \subseteq Nat, S # {}
  PROVE  Min(S) \in S /\ \A y \in S : Min(S) <= y
<1>1. PICK x \in S : \A y \in S : ~(<<y, x>> \in OpToRel(<, Nat))
  BY NatLessThanWellFounded, WFMin
<1>2. ASSUME NEW y \in S PROVE x <= y
  <2>1. x \in Nat /\ y \in Nat
    OBVIOUS
  <2>2. ~(y < x)
    BY <1>1, <2>1 DEF OpToRel
  <2> QED
    BY <2>1, <2>2
<1> QED
  BY <1>2 DEF Min

LEMMA MoreKeys ==
  ASSUME NEW a, NEW b, Setting(a), b.keys \subseteq a.keys, NEW n, HasLimit(b, n)
  PROVE  HasLimit(a, n) /\ Limit(a, n) <= Limit(b, n)
<1>1. LimitsOf(b, n) \subseteq LimitsOf(a, n) /\ LimitsOf(a, n) \subseteq Nat /\ LimitsOf(b, n) # {}
  BY DEF LimitsOf, HasLimit, Setting
<1>2. Limit(b, n) \in LimitsOf(b, n) /\ \A y \in LimitsOf(a, n) : Limit(a, n) <= y
  BY <1>1, MinIsLeast DEF Limit
<1> QED
  BY <1>1, <1>2 DEF HasLimit

LEMMA Strictest ==
  ASSUME NEW c, NEW a, NEW b, Setting(a), Setting(b), NEW s, s = strictest(a, b, Allowlist(c))
  PROVE  Setting(s) /\ AsStrict(c, s, a) /\ AsStrict(c, s, b)
<1>1. s.severity \in Severities /\ s.severity >= a.severity /\ s.severity >= b.severity
  BY DEF strictest, Setting, Severities, Off, Warning, Error
<1>2. CASE Allowlist(c)
  <2>1. s.keys = a.keys \cap b.keys
    BY <1>2 DEF strictest
  <2> QED
    BY <1>1, <1>2, <2>1 DEF AsStrict, Setting
<1>3. CASE ~Allowlist(c)
  <2>1. s.keys = a.keys \union b.keys
    BY <1>3 DEF strictest
  <2>2. Setting(s)
    BY <1>1, <2>1 DEF Setting
  <2>3. \A n : (HasLimit(a, n) => HasLimit(s, n) /\ Limit(s, n) <= Limit(a, n))
               /\ (HasLimit(b, n) => HasLimit(s, n) /\ Limit(s, n) <= Limit(b, n))
    BY <2>1, <2>2, MoreKeys
  <2> QED
    BY <1>1, <1>3, <2>1, <2>2, <2>3 DEF AsStrict
<1> QED
  BY <1>2, <1>3

(* Every merge binds: the policy a scope is merged into gives way to it in *)
(* nothing and loses nothing of its own.  About each check it is at least  *)
(* as strict as the scope and as it was before, whether the check's list   *)
(* is required, allowed or a ceiling, and whether the scope is the first   *)
(* to speak of it (Merge's loop body, and strictest).                      *)
THEOREM ScopeBinds ==
  ASSUME NEW out, NEW scope, NEW c \in DOMAIN checks, NEW m, m = MergeScope(out, scope),
         c \in DOMAIN out => Setting(out[c]), c \in DOMAIN scope => Setting(scope[c])
  PROVE  /\ c \in DOMAIN m <=> c \in DOMAIN out \/ c \in DOMAIN scope
         /\ c \in DOMAIN scope => Setting(m[c]) /\ AsStrict(c, m[c], scope[c])
         /\ c \in DOMAIN out => Setting(m[c]) /\ AsStrict(c, m[c], out[c])
<1> DEFINE base == IF c \in DOMAIN out THEN out[c] ELSE FirstSetting(c, scope[c])
<1>1. DOMAIN m = DOMAIN out \union DOMAIN scope
  BY DEF MergeScope
<1>2. CASE c \in DOMAIN scope
  <2>1. m[c] = strictest(base, scope[c], Allowlist(c))
    BY <1>2 DEF MergeScope
  <2>2. Setting(FirstSetting(c, scope[c]))
    <3>1. FirstSetting(c, scope[c]).severity \in Severities
      BY DEF FirstSetting, Severities
    <3>2. \A k \in FirstSetting(c, scope[c]).keys : k.limit \in Int
      BY <1>2, KeysAssumption DEF FirstSetting, Setting
    <3> QED
      BY <3>1, <3>2 DEF Setting
  <2>3. Setting(base)
    BY <2>2
  <2> HIDE DEF base
  <2>4. Setting(m[c]) /\ AsStrict(c, m[c], base) /\ AsStrict(c, m[c], scope[c])
    BY <1>2, <2>1, <2>3, Strictest
  <2> QED
    BY <1>1, <1>2, <2>4 DEF base
<1>3. CASE c \notin DOMAIN scope
  <2>1. c \in DOMAIN out => m[c] = out[c]
    BY <1>3 DEF MergeScope
  <2>2. ASSUME c \in DOMAIN out PROVE AsStrict(c, out[c], out[c])
    <3>1. out[c].severity >= out[c].severity
      BY <2>2 DEF Setting, Severities, Off, Warning, Error
    <3>2. \A n : HasLimit(out[c], n) => Limit(out[c], n) <= Limit(out[c], n)
      BY <2>2, MoreKeys
    <3> QED
      BY <3>1, <3>2 DEF AsStrict
  <2> QED
    BY <1>1, <1>3, <2>1, <2>2
<1> QED
  BY <1>2, <1>3

-----------------------------------------------------------------------------
(* Merging a list of scopes.  What is said of every list is proved number  *)
(* by number: a set of lengths that holds 0 and, with each, the next.      *)

(* What is in a set of numbers with 0 and, of each number in it, the next, *)
(* is every number.                                                        *)
LEMMA NumberByNumber ==
  ASSUME NEW S, 0 \in S, \A n \in Nat : n \in S => n + 1 \in S
  PROVE  \A n \in Nat : n \in S
<1> DEFINE T == Nat \ S
<1>1. SUFFICES ASSUME T # {} PROVE FALSE
  OBVIOUS
<1>2. Min(T) \in T /\ \A y \in T : Min(T) <= y
  BY <1>1, MinIsLeast
<1>3. PICK n \in Nat : n = Min(T) /\ n \notin S
  BY <1>2
<1>4. n # 0 /\ n - 1 \in Nat
  BY <1>3
<1>5. n - 1 \in S
  BY <1>2, <1>3, <1>4
<1>6. (n - 1) + 1 \in S
  BY <1>4, <1>5
<1> QED
  BY <1>3, <1>6

LEMMA MergeSteps ==
  ASSUME NEW scopes, Len(scopes) \in Nat
  PROVE  \E f : /\ DOMAIN f = 0..Len(scopes) /\ f[0] = NoPolicy /\ f[Len(scopes)] = Merge(scopes)
                /\ \A i \in 1..Len(scopes) : f[i] = MergeScope(f[i - 1], scopes[i])
<1> DEFINE Body(g, n) == [i \in 0..n |-> IF i = 0 THEN NoPolicy ELSE MergeScope(g[i - 1], scopes[i])]
           S == {n \in Nat : \E g : g = Body(g, n)}
<1>1. 0 \in S
  <2> DEFINE g == [i \in 0..0 |-> NoPolicy]
  <2>1. g = Body(g, 0)
    OBVIOUS
  <2> QED
    BY <2>1
<1>2. ASSUME NEW n \in Nat, n \in S PROVE n + 1 \in S
  <2>1. PICK g : g = Body(g, n)
    BY <1>2
  <2> DEFINE h == [i \in 0..(n + 1) |-> IF i = n + 1 THEN MergeScope(g[n], scopes[n + 1]) ELSE g[i]]
  <2>2. ASSUME NEW i \in 0..(n + 1)
        PROVE  h[i] = IF i = 0 THEN NoPolicy ELSE MergeScope(h[i - 1], scopes[i])
    <3>1. CASE i = n + 1
      <4>1. i # 0 /\ n \in 0..(n + 1) /\ i - 1 = n /\ n # n + 1
        BY <3>1
      <4> QED
        BY <3>1, <4>1
    <3>2. CASE i # n + 1
      <4>1. i \in 0..n /\ (i # 0 => i - 1 \in 0..(n + 1) /\ i - 1 # n + 1)
        BY <3>2
      <4>2. h[i] = g[i] /\ (i # 0 => h[i - 1] = g[i - 1])
        BY <3>2, <4>1
      <4>3. g[i] = IF i = 0 THEN NoPolicy ELSE MergeScope(g[i - 1], scopes[i])
        BY <2>1, <4>1
      <4> QED
        BY <4>2, <4>3
    <3> QED
      BY <3>1, <3>2
  <2>3. h = Body(h, n + 1)
    BY <2>2
  <2> HIDE DEF h
  <2>4. n + 1 \in Nat /\ \E k : k = Body(k, n + 1)
    BY <2>3
  <2> QED
    BY <2>4
<1>3. Len(scopes) \in S
  <2> HIDE DEF S
  <2> QED
    BY <1>1, <1>2, NumberByNumber
<1> DEFINE f == CHOOSE g : g = Body(g, Len(scopes))
<1>4. f = Body(f, Len(scopes))
  BY <1>3
<1>5. Merge(scopes) = f[Len(scopes)]
  BY DEF Merge
<1> HIDE DEF f
<1>6. DOMAIN f = 0..Len(scopes) /\ f[0] = NoPolicy
  BY <1>4
<1>7. ASSUME NEW i \in 1..Len(scopes) PROVE f[i] = MergeScope(f[i - 1], scopes[i])
  <2>1. i \in 0..Len(scopes) /\ i # 0
    OBVIOUS
  <2> QED
    BY <1>4, <2>1
<1> QED
  BY <1>5, <1>6, <1>7

(* A policy as a reading of files and a merge give it.                     *)
WellFormed(p) == DOMAIN p \subseteq DOMAIN checks /\ \A c \in DOMAIN p : Setting(p[c])

LEMMA AsStrictTransitive ==
  ASSUME NEW c, NEW a, NEW b, NEW d, Setting(a), Setting(b), Setting(d), AsStrict(c, a, b), AsStrict(c, b, d)
  PROVE  AsStrict(c, a, d)
<1>1. a.severity >= d.severity
  BY DEF AsStrict, Setting, Severities, Off, Warning, Error
<1>2. CASE Allowlist(c)
  BY <1>1, <1>2 DEF AsStrict
<1>3. CASE ~Allowlist(c)
  <2>1. {k \in d.keys : k.limit = NoLimit} \subseteq a.keys
    BY <1>3 DEF AsStrict
  <2>2. ASSUME NEW n \in {k.name : k \in d.keys}, HasLimit(d, n)
        PROVE  HasLimit(a, n) /\ Limit(a, n) <= Limit(d, n)
    <3>1. HasLimit(b, n) /\ Limit(b, n) <= Limit(d, n)
      BY <1>3, <2>2 DEF AsStrict
    <3>2. n \in {k.name : k \in b.keys}
      BY <3>1 DEF HasLimit, LimitsOf
    <3>3. HasLimit(a, n) /\ Limit(a, n) <= Limit(b, n)
      BY <1>3, <3>1, <3>2 DEF AsStrict
    <3>4. \A s \in {a, b, d} : LimitsOf(s, n) \subseteq Nat
      BY DEF LimitsOf, Setting
    <3>5. \A s \in {a, b, d} : HasLimit(s, n) => Limit(s, n) \in Nat
      BY <3>4, MinIsLeast DEF HasLimit, Limit
    <3> QED
      BY <2>2, <3>1, <3>3, <3>5
  <2> QED
    BY <1>1, <1>3, <2>1, <2>2 DEF AsStrict
<1> QED
  BY <1>2, <1>3

LEMMA NoPolicyWellFormed == DOMAIN NoPolicy = {} /\ WellFormed(NoPolicy)
<1>1. DOMAIN NoPolicy = {}
  BY DEF NoPolicy
<1> QED
  BY <1>1 DEF WellFormed

LEMMA MergeScopeWellFormed ==
  ASSUME NEW out, NEW scope, WellFormed(out), WellFormed(scope)
  PROVE  WellFormed(MergeScope(out, scope)) /\ DOMAIN MergeScope(out, scope) = DOMAIN out \union DOMAIN scope
<1>1. DOMAIN MergeScope(out, scope) = DOMAIN out \union DOMAIN scope
  BY DEF MergeScope
<1>2. ASSUME NEW c \in DOMAIN out \union DOMAIN scope PROVE Setting(MergeScope(out, scope)[c])
  BY ScopeBinds DEF WellFormed
<1> QED
  BY <1>1, <1>2 DEF WellFormed

(* Merge: well formed, about what its scopes are about, and at least as    *)
(* strict as each of them.                                                 *)
THEOREM MergeBinds ==
  ASSUME NEW scopes, Len(scopes) \in Nat, \A i \in 1..Len(scopes) : WellFormed(scopes[i])
  PROVE  /\ WellFormed(Merge(scopes))
         /\ DOMAIN Merge(scopes) = UNION {DOMAIN scopes[i] : i \in 1..Len(scopes)}
         /\ \A i \in 1..Len(scopes) : \A c \in DOMAIN scopes[i] : AsStrict(c, Merge(scopes)[c], scopes[i][c])
<1> DEFINE N == Len(scopes)
<1>1. PICK f : /\ DOMAIN f = 0..N /\ f[0] = NoPolicy /\ f[N] = Merge(scopes)
               /\ \A i \in 1..N : f[i] = MergeScope(f[i - 1], scopes[i])
  BY MergeSteps
<1> DEFINE Good(n) == /\ WellFormed(f[n])
                      /\ DOMAIN f[n] = UNION {DOMAIN scopes[i] : i \in 1..n}
                      /\ \A i \in 1..n : \A c \in DOMAIN scopes[i] : AsStrict(c, f[n][c], scopes[i][c])
           S == {n \in Nat : n <= N => Good(n)}
<1>2. 0 \in S
  <2>1. 1..0 = {}
    OBVIOUS
  <2> QED
    BY <1>1, <2>1, NoPolicyWellFormed
<1>3. ASSUME NEW n \in Nat, n \in S PROVE n + 1 \in S
  <2>1. SUFFICES ASSUME n + 1 <= N PROVE Good(n + 1)
    OBVIOUS
  <2>2. Good(n)
    BY <1>3, <2>1
  <2>3. n + 1 \in 1..N /\ (n + 1) - 1 = n /\ 1..(n + 1) = 1..n \union {n + 1}
    BY <2>1
  <2> DEFINE p == f[n]  s == scopes[n + 1]  m == f[n + 1]
  <2>4. m = MergeScope(p, s) /\ WellFormed(s) /\ WellFormed(p)
    BY <1>1, <2>2, <2>3
  <2>5. WellFormed(m) /\ DOMAIN m = DOMAIN p \union DOMAIN s
    BY <2>4, MergeScopeWellFormed
  <2>6. DOMAIN m = UNION {DOMAIN scopes[i] : i \in 1..(n + 1)}
    BY <2>2, <2>3, <2>5
  <2>7. ASSUME NEW i \in 1..(n + 1), NEW c \in DOMAIN scopes[i] PROVE AsStrict(c, m[c], scopes[i][c])
    <3>1. WellFormed(scopes[i])
      BY <2>1
    <3>2. c \in DOMAIN checks /\ Setting(scopes[i][c]) /\ c \in DOMAIN m /\ Setting(m[c])
      BY <2>5, <2>6, <3>1 DEF WellFormed
    <3>3. CASE i = n + 1
      BY <2>4, <3>2, <3>3, ScopeBinds DEF WellFormed
    <3>4. CASE i \in 1..n
      <4>1. c \in DOMAIN p /\ AsStrict(c, p[c], scopes[i][c])
        BY <2>2, <3>4
      <4>2. Setting(p[c]) /\ AsStrict(c, m[c], p[c])
        BY <2>4, <3>2, <4>1, ScopeBinds DEF WellFormed
      <4> QED
        BY <3>2, <4>1, <4>2, AsStrictTransitive
    <3> QED
      BY <2>3, <3>3, <3>4
  <2> QED
    BY <2>5, <2>6, <2>7
<1>4. N \in S
  <2> HIDE DEF S
  <2> QED
    BY <1>2, <1>3, NumberByNumber
<1>5. Good(N)
  <2>1. N <= N
    OBVIOUS
  <2> QED
    BY <1>4, <2>1
<1> QED
  BY <1>1, <1>5

LEMMA ParseWellFormed ==
  ASSUME NEW entries, Authored(entries)
  PROVE  WellFormed(Parse(entries))
<1>1. DOMAIN Parse(entries) = {e.check : e \in {x \in entries : Configurable(x.check)}}
  BY DEF Parse
<1>2. DOMAIN Parse(entries) \subseteq DOMAIN checks
  BY <1>1 DEF Configurable, Known
<1>3. ASSUME NEW c \in DOMAIN Parse(entries) PROVE Setting(Parse(entries)[c])
  <2> DEFINE e == CHOOSE x \in entries : x.check = c
  <2>1. e \in entries /\ e.check = c
    BY <1>1
  <2>2. Parse(entries)[c] = parseSetting(e)
    BY <1>1 DEF Parse
  <2> HIDE DEF e
  <2>3. c \in DOMAIN checks
    BY <1>2
  <2>4. e.severity \in Severities \union {Invalid} /\ \A k \in e.keys : k.limit \in Int
    BY <2>1 DEF Authored
  <2>5. checks[c].severity \in Severities /\ \A k \in checks[c].keys : k.limit \in Int
    BY <2>3, KeysAssumption
  <2>6. parseSetting(e).severity \in Severities
    BY <2>1, <2>4, <2>5 DEF parseSetting, defaultFor
  <2>7. \A k \in parseSetting(e).keys : k.limit \in Int
    BY <2>1, <2>4, <2>5 DEF parseSetting, defaultFor
  <2> QED
    BY <2>2, <2>6, <2>7 DEF Setting
<1> QED
  BY <1>2, <1>3 DEF WellFormed

(* SetToSeq: a sequence of the elements of a finite set, each of them.     *)
LEMMA Enumerated ==
  ASSUME NEW T, IsFiniteSet(T)
  PROVE  /\ Cardinality(T) \in Nat /\ Len(SetToSeq(T)) = Cardinality(T)
         /\ SetToSeq(T) \in [1..Cardinality(T) -> T] /\ IsInjective(SetToSeq(T))
         /\ \A x \in T : \E i \in 1..Cardinality(T) : SetToSeq(T)[i] = x
<1> DEFINE n == Cardinality(T)  f == SetToSeq(T)
<1>1. n \in Nat /\ ExistsBijection(1..n, T)
  BY FS_CardinalityType
<1>2. \E g \in [1..n -> T] : IsInjective(g)
  BY <1>1 DEF ExistsBijection, Bijection, Injection
<1>3. f \in [1..n -> T] /\ IsInjective(f)
  BY <1>2 DEF SetToSeq
<1> HIDE DEF f
<1>4. f \in Injection(1..n, T)
  BY <1>3 DEF Injection
<1>5. Cardinality(1..n) = n
  <2>1. IF 1 > n THEN n = 0 ELSE n - 1 + 1 = n
    BY <1>1
  <2> QED
    BY <1>1, <2>1, FS_Interval
<1>6. f \in Surjection(1..n, T)
  BY <1>4, <1>5, FS_Injection
<1>7. \A x \in T : \E i \in 1..n : f[i] = x
  BY <1>6 DEF Surjection
<1>8. Len(f) = n
  BY <1>1, <1>3
<1> QED
  BY <1>1, <1>3, <1>7, <1>8 DEF f

-----------------------------------------------------------------------------
(* Putting lists end to end.                                               *)

(* FlattenSeq: each list in turn is put at the end of the ones before it.  *)
LEMMA FlattenSteps ==
  ASSUME NEW seqs, Len(seqs) \in Nat, Len(seqs) > 0
  PROVE  \E f : /\ f[1] = seqs[1] /\ f[Len(seqs)] = FlattenSeq(seqs)
                /\ \A i \in 2..Len(seqs) : f[i] = f[i - 1] \o seqs[i]
<1> DEFINE Body(g, n) == [i \in 1..n |-> IF i = 1 THEN seqs[i] ELSE g[i - 1] \o seqs[i]]
           S == {n \in Nat : \E g : g = Body(g, n)}
<1>1. 0 \in S
  <2> DEFINE g == [i \in 1..0 |-> 0]
  <2>1. g = Body(g, 0)
    OBVIOUS
  <2> QED
    BY <2>1
<1>2. ASSUME NEW n \in Nat, n \in S PROVE n + 1 \in S
  <2>1. PICK g : g = Body(g, n)
    BY <1>2
  <2> DEFINE h == [i \in 1..(n + 1) |->
                     IF i # n + 1 THEN g[i] ELSE IF i = 1 THEN seqs[1] ELSE g[n] \o seqs[n + 1]]
  <2>2. ASSUME NEW i \in 1..(n + 1)
        PROVE  h[i] = IF i = 1 THEN seqs[i] ELSE h[i - 1] \o seqs[i]
    <3>1. CASE i = n + 1
      <4>1. i - 1 = n /\ n # n + 1 /\ (i # 1 => n \in 1..(n + 1))
        BY <3>1
      <4>2. i # 1 => h[i] = g[n] \o seqs[n + 1] /\ h[n] = g[n]
        BY <3>1, <4>1
      <4>3. i = 1 => h[i] = seqs[i]
        BY <3>1
      <4> HIDE DEF h
      <4> QED
        BY <3>1, <4>1, <4>2, <4>3
    <3>2. CASE i # n + 1
      <4>1. i \in 1..n /\ (i # 1 => i - 1 \in 1..(n + 1) /\ i - 1 # n + 1)
        BY <3>2
      <4>2. h[i] = g[i] /\ (i # 1 => h[i - 1] = g[i - 1])
        BY <3>2, <4>1
      <4>3. g[i] = IF i = 1 THEN seqs[i] ELSE g[i - 1] \o seqs[i]
        BY <2>1, <4>1
      <4> QED
        BY <4>2, <4>3
    <3> QED
      BY <3>1, <3>2
  <2>3. h = Body(h, n + 1)
    BY <2>2
  <2> HIDE DEF h
  <2>4. n + 1 \in Nat
    OBVIOUS
  <2>5. \E k : k = Body(k, n + 1)
    BY <2>3, Zenon
  <2> QED
    BY <2>4, <2>5, Zenon
<1>3. Len(seqs) \in S
  <2> HIDE DEF S
  <2> QED
    BY <1>1, <1>2, NumberByNumber
<1> DEFINE f == CHOOSE g : g = Body(g, Len(seqs))
<1>4. f = Body(f, Len(seqs))
  BY <1>3
<1>5. FlattenSeq(seqs) = f[Len(seqs)]
  BY DEF FlattenSeq
<1> HIDE DEF f
<1>6. f[1] = seqs[1]
  BY <1>4
<1>7. ASSUME NEW i \in 2..Len(seqs) PROVE f[i] = f[i - 1] \o seqs[i]
  <2>1. i \in 1..Len(seqs) /\ i # 1
    OBVIOUS
  <2> QED
    BY <1>4, <2>1
<1> QED
  BY <1>5, <1>6, <1>7

LEMMA Flattened ==
  ASSUME NEW X, NEW seqs \in Seq(Seq(X))
  PROVE  FlattenSeq(seqs) \in Seq(X)
<1> DEFINE N == Len(seqs)
<1>1. CASE N = 0
  <2>1. seqs = <<>>
    BY <1>1
  <2> QED
    BY <1>1, <2>1 DEF FlattenSeq
<1>2. CASE N > 0
  <2>1. N \in Nat /\ \A i \in 1..N : seqs[i] \in Seq(X)
    OBVIOUS
  <2>2. PICK f : /\ f[1] = seqs[1] /\ f[N] = FlattenSeq(seqs)
                 /\ \A i \in 2..N : f[i] = f[i - 1] \o seqs[i]
    BY <1>2, <2>1, FlattenSteps
  <2> DEFINE S == {n \in Nat : n + 1 <= N => f[n + 1] \in Seq(X)}
  <2>3. 0 \in S
    BY <1>2, <2>1, <2>2
  <2>4. ASSUME NEW n \in Nat, n \in S PROVE n + 1 \in S
    <3>1. SUFFICES ASSUME n + 2 <= N PROVE f[n + 2] \in Seq(X)
      OBVIOUS
    <3>2. n + 2 \in 2..N /\ n + 2 \in 1..N /\ (n + 2) - 1 = n + 1
      BY <2>1, <3>1
    <3>3. f[n + 1] \in Seq(X) /\ seqs[n + 2] \in Seq(X)
      BY <2>1, <2>4, <3>1, <3>2
    <3>4. f[n + 2] = f[n + 1] \o seqs[n + 2]
      BY <2>2, <3>2
    <3> QED
      BY <3>3, <3>4
  <2>5. N - 1 \in S /\ N - 1 \in Nat /\ (N - 1) + 1 = N
    <3> HIDE DEF S
    <3>1. \A n \in Nat : n \in S
      BY <2>3, <2>4, NumberByNumber
    <3> QED
      BY <1>2, <2>1, <3>1
  <2>6. f[N] \in Seq(X)
    BY <2>5
  <2> QED
    BY <2>2, <2>6
<1> QED
  BY <1>1, <1>2

-----------------------------------------------------------------------------
(* The policy of a rule: the scopes of its place, and of its sources.      *)

(* p governs a rule held to m: whatever p says, m says as strictly.        *)
Binds(m, p) == \A c \in DOMAIN p : c \in DOMAIN m /\ AsStrict(c, m[c], p[c])

LEMMA BindsTransitive ==
  ASSUME NEW m, NEW p, NEW q, WellFormed(m), WellFormed(p), WellFormed(q), Binds(m, p), Binds(p, q)
  PROVE  Binds(m, q)
<1> SUFFICES ASSUME NEW c \in DOMAIN q PROVE c \in DOMAIN m /\ AsStrict(c, m[c], q[c])
  BY DEF Binds
<1>1. c \in DOMAIN p /\ AsStrict(c, p[c], q[c]) /\ c \in DOMAIN m /\ AsStrict(c, m[c], p[c])
  BY DEF Binds
<1>2. Setting(m[c]) /\ Setting(p[c]) /\ Setting(q[c])
  BY <1>1 DEF WellFormed
<1> QED
  BY <1>1, <1>2, AsStrictTransitive

LEMMA MergeAll ==
  ASSUME NEW p, WellFormed(p), NEW s, s \in Seq(Range(s)), \A i \in 1..Len(s) : WellFormed(s[i]),
         NEW m, m = Merge(<<p>> \o s)
  PROVE  WellFormed(m) /\ Binds(m, p) /\ \A i \in 1..Len(s) : Binds(m, s[i])
<1> DEFINE all == <<p>> \o s
<1>1. Len(all) = Len(s) + 1 /\ all[1] = p /\ Len(s) \in Nat
  OBVIOUS
<1>2. \A i \in 1..Len(s) : all[i + 1] = s[i]
  OBVIOUS
<1> HIDE DEF all
<1>3. ASSUME NEW i \in 1..Len(all) PROVE WellFormed(all[i])
  <2>1. CASE i = 1
    BY <1>1, <2>1
  <2>2. CASE i # 1
    <3>1. i - 1 \in 1..Len(s) /\ (i - 1) + 1 = i
      BY <1>1, <2>2
    <3> QED
      BY <1>2, <3>1
  <2> QED
    BY <2>1, <2>2
<1>4. /\ WellFormed(m) /\ DOMAIN m = UNION {DOMAIN all[i] : i \in 1..Len(all)}
      /\ \A i \in 1..Len(all) : \A c \in DOMAIN all[i] : AsStrict(c, m[c], all[i][c])
  <2>1. Len(all) \in Nat /\ m = Merge(all)
    BY <1>1 DEF all
  <2> QED
    BY <1>3, <2>1, MergeBinds
<1>5. \A i \in 1..Len(all) : Binds(m, all[i])
  BY <1>4 DEF Binds
<1>6. 1 \in 1..Len(all) /\ \A i \in 1..Len(s) : i + 1 \in 1..Len(all)
  BY <1>1
<1> QED
  BY <1>1, <1>2, <1>4, <1>5, <1>6

LEMMA ImageFinite ==
  ASSUME NEW s, Len(s) \in Nat
  PROVE  IsFiniteSet({parseSource(s[i]) : i \in 1..Len(s)})
<1> DEFINE f == [i \in 1..Len(s) |-> parseSource(s[i])]
           T == {parseSource(s[i]) : i \in 1..Len(s)}
<1>1. f \in Surjection(1..Len(s), T)
  BY DEF Surjection
<1>2. IsFiniteSet(1..Len(s))
  BY FS_Interval
<1> HIDE DEF f, T
<1> QED
  BY <1>1, <1>2, FS_Surjection DEF T

(* The sources a reading gives: finitely many, each with a policy that     *)
(* reads.                                                                  *)
SourcesRead(sources) == IsFiniteSet(sources) /\ \A s \in sources : WellFormed(s.policy)

LEMMA LoadSourcesRead ==
  ASSUME NEW i \in CheckInputs
  PROVE  SourcesRead(loadSources(i.yaml, i.now).file.sources)
<1>1. loadSources(i.yaml, i.now).file.sources = {parseSource(i.yaml.sources[k]) : k \in 1..Len(i.yaml.sources)}
  BY DEF loadSources, ParseFile
<1>2. Len(i.yaml.sources) \in Nat /\ \A k \in 1..Len(i.yaml.sources) : i.yaml.sources[k] \in Range(i.yaml.sources)
  BY TreeAssumption
<1>3. ASSUME NEW k \in 1..Len(i.yaml.sources) PROVE WellFormed(parseSource(i.yaml.sources[k]).policy)
  <2>1. Authored(i.yaml.sources[k].checks)
    BY <1>2, EntriesAssumption
  <2>2. parseSource(i.yaml.sources[k]).policy = Parse(i.yaml.sources[k].checks)
    BY DEF parseSource
  <2> QED
    BY <2>1, <2>2, ParseWellFormed
<1> QED
  BY <1>1, <1>2, <1>3, ImageFinite DEF SourcesRead

(* policyFor: at least as strict as the policy of the rule's place and as  *)
(* the policy of each source it reaches.                                   *)
LEMMA PolicyForBinds ==
  ASSUME NEW r, NEW sources, SourcesRead(sources), NEW located, WellFormed(located),
         NEW m, m = policyFor(r, sources, located)
  PROVE  /\ WellFormed(m) /\ Binds(m, located)
         /\ \A s \in Match(sources, r.selector) : Binds(m, s.policy)
<1> DEFINE T == Match(sources, r.selector)
           e == SetToSeq(T)
           n == Cardinality(T)
           ps == [i \in 1..Len(e) |-> e[i].policy]
<1>1. T \subseteq sources
  BY DEF Match
<1>2. IsFiniteSet(T)
  BY <1>1, FS_Subset DEF SourcesRead
<1>3. /\ n \in Nat /\ Len(e) = n /\ e \in [1..n -> T]
      /\ \A x \in T : \E i \in 1..n : e[i] = x
  BY <1>2, Enumerated
<1>4. m = Merge(<<located>> \o ps)
  BY DEF policyFor
<1> HIDE DEF T, e, n
<1>5. ps \in Seq(Range(ps)) /\ Len(ps) = n /\ \A i \in 1..n : ps[i] = e[i].policy
  BY <1>3 DEF Range
<1>6. \A i \in 1..n : WellFormed(ps[i])
  BY <1>1, <1>3, <1>5 DEF SourcesRead
<1> HIDE DEF ps
<1>7. WellFormed(m) /\ Binds(m, located) /\ \A i \in 1..n : Binds(m, ps[i])
  BY <1>4, <1>5, <1>6, MergeAll
<1> QED
  BY <1>3, <1>5, <1>7 DEF T

LEMMA TeamsWellFormed ==
  ASSUME NEW i \in CheckInputs, NEW dir
  PROVE  WellFormed(teams(i.tree, dir))
<1> DEFINE own == {e \in teamPolicies(i.tree) : e.state = "ok" /\ e.dir = dir}
           e == CHOOSE x \in own : TRUE
<1>1. CASE own = {}
  BY <1>1, NoPolicyWellFormed DEF teams
<1>2. CASE own # {}
  <2>1. e \in own /\ teams(i.tree, dir) = Parse(e.checks)
    BY <1>2 DEF teams
  <2>2. e \in Range(i.tree)
    BY <2>1 DEF teamPolicies
  <2> QED
    BY <2>1, <2>2, EntriesAssumption, ParseWellFormed
<1> QED
  BY <1>1, <1>2

(* scopesFor: at least as strict as the instance policy and as every team  *)
(* policy of a directory at or above the file's.                           *)
LEMMA ScopesForBinds ==
  ASSUME NEW i \in CheckInputs, NEW root, WellFormed(root), NEW f \in ruleFiles(i.tree),
         NEW m, m = scopesFor(root, i.tree, f)
  PROVE  /\ WellFormed(m) /\ Binds(m, root)
         /\ \A p \in Range(i.tree) :
               p.name = "policy.yaml" /\ p.state = "ok" /\ p.dir # <<>> /\ IsPrefix(p.dir, f.dir)
               => Binds(m, Parse(p.checks))
<1> DEFINE n == Len(f.dir)
           Team(k) == teams(i.tree, SubSeq(f.dir, 1, n + 1 - k))
           ts == [k \in 1..n |-> Team(k)]
<1>1. f \in Range(i.tree) /\ Walked(f) /\ f.dir \in Seq(STRING) /\ n \in Nat
  BY TreeAssumption DEF ruleFiles
<1>2. m = Merge(<<root>> \o ts)
  BY DEF scopesFor
<1> HIDE DEF n, Team
<1>3. ts \in Seq(Range(ts)) /\ Len(ts) = n /\ \A k \in 1..n : ts[k] = Team(k)
  <2>1. n \in Nat
    BY <1>1
  <2> QED
    BY <2>1 DEF Range
<1>4. \A k \in 1..n : WellFormed(ts[k])
  BY <1>3, TeamsWellFormed DEF Team
<1> HIDE DEF ts
<1>5. WellFormed(m) /\ Binds(m, root) /\ \A k \in 1..n : Binds(m, ts[k])
  BY <1>2, <1>3, <1>4, MergeAll
<1>6. ASSUME NEW p \in Range(i.tree), p.name = "policy.yaml", p.state = "ok", p.dir # <<>>, IsPrefix(p.dir, f.dir)
      PROVE  Binds(m, Parse(p.checks))
  <2> DEFINE l == Len(p.dir)
             k == n + 1 - l
             own == {e \in teamPolicies(i.tree) : e.state = "ok" /\ e.dir = p.dir}
  <2>1. p.dir \in Seq(STRING) /\ p.yaml
    BY <1>6, TreeAssumption
  <2>2. l \in Nat /\ l > 0 /\ l <= n
    BY <1>1, <1>6, <2>1 DEF IsPrefix, n
  <2>3. p.dir = SubSeq(f.dir, 1, l)
    <3>1. SubSeq(p.dir, 1, l) = p.dir
      BY <2>1
    <3> QED
      BY <1>6, <3>1 DEF IsPrefix
  <2> HIDE DEF l
  <2>4. k \in 1..n /\ n + 1 - k = l
    BY <1>1, <2>2
  <2>5. \A j \in 1..l : j \in 1..n /\ p.dir[j] = f.dir[j]
    BY <1>1, <2>2, <2>3 DEF n
  <2>6. Walked(p)
    BY <1>1, <2>1, <2>5 DEF Walked, l, n
  <2>7. p \in own
    BY <1>6, <2>6 DEF teamPolicies
  <2>8. ASSUME NEW e \in own PROVE e = p
    <3>1. e \in Range(i.tree) /\ e.name = p.name /\ e.dir = p.dir
      BY <1>6 DEF teamPolicies
    <3> QED
      BY <1>6, <3>1, TreeAssumption
  <2>9. teams(i.tree, p.dir) = Parse(p.checks)
    <3>1. (CHOOSE e \in own : TRUE) = p
      BY <2>7, <2>8
    <3> QED
      BY <2>7, <3>1 DEF teams
  <2>10. ts[k] = teams(i.tree, p.dir)
    BY <1>3, <2>3, <2>4 DEF Team
  <2> QED
    BY <1>5, <2>4, <2>9, <2>10
<1> QED
  BY <1>5, <1>6

(* The rules a reading can give.                                           *)
RulesOf(tree, sources, root) ==
    UNION {UNION {{LoadedRule(f, g, r, sources, scopesFor(root, tree, f)) : r \in Range(g.rules)}
                  : g \in Range(f.groups)} : f \in ruleFiles(tree)}

LEMMA FileRulesOf ==
  ASSUME NEW i \in CheckInputs, NEW sources, NEW root, NEW f \in ruleFiles(i.tree)
  PROVE  FileRules(f, sources, scopesFor(root, i.tree, f)) \in Seq(RulesOf(i.tree, sources, root))
<1> DEFINE X == RulesOf(i.tree, sources, root)
           P == scopesFor(root, i.tree, f)
           Row(a) == [j \in 1..Len(f.groups[a].rules) |->
                        LoadedRule(f, f.groups[a], f.groups[a].rules[j], sources, P)]
           rows == [a \in 1..Len(f.groups) |-> Row(a)]
<1>1. f \in Range(i.tree)
  BY DEF ruleFiles
<1>2. /\ f.groups \in Seq(Range(f.groups))
      /\ \A g \in Range(f.groups) : g.rules \in Seq(Range(g.rules))
  BY <1>1, TreeAssumption
<1>3. ASSUME NEW a \in 1..Len(f.groups) PROVE Row(a) \in Seq(X)
  <2>1. f.groups[a] \in Range(f.groups)
    BY <1>2
  <2>2. f.groups[a].rules \in Seq(Range(f.groups[a].rules))
    BY <1>2, <2>1
  <2>3. ASSUME NEW j \in 1..Len(f.groups[a].rules)
        PROVE  LoadedRule(f, f.groups[a], f.groups[a].rules[j], sources, P) \in X
    <3>1. f.groups[a].rules[j] \in Range(f.groups[a].rules)
      BY <2>2
    <3> QED
      BY <2>1, <3>1 DEF RulesOf
  <2>4. Len(f.groups[a].rules) \in Nat
    BY <2>2
  <2> HIDE DEF X, P
  <2> QED
    BY <2>3, <2>4
<1>4. Len(f.groups) \in Nat
  BY <1>2
<1>5. FileRules(f, sources, P) = FlattenSeq(rows)
  BY DEF FileRules
<1>6. rows \in Seq(Seq(X))
  <2> HIDE DEF X, Row
  <2> QED
    BY <1>3, <1>4
<1> HIDE DEF X, rows, P
<1>7. FlattenSeq(rows) \in Seq(X)
  BY <1>6, Flattened
<1> QED
  BY <1>5, <1>7 DEF X, P

LEMMA LoadRulesOf ==
  ASSUME NEW i \in CheckInputs, NEW dirOK, NEW sources, NEW root
  PROVE  LoadRules(dirOK, i.tree, sources, root) \in Seq(RulesOf(i.tree, sources, root))
<1> DEFINE X == RulesOf(i.tree, sources, root)
           Row(a) == IF i.tree[a] \in ruleFiles(i.tree) /\ i.tree[a].state = "ok"
                     THEN FileRules(i.tree[a], sources, scopesFor(root, i.tree, i.tree[a])) ELSE <<>>
           rows == [a \in 1..Len(i.tree) |-> Row(a)]
<1>1. Len(i.tree) \in Nat
  BY TreeAssumption
<1>2. \A a \in 1..Len(i.tree) : Row(a) \in Seq(X)
  <2>1. <<>> \in Seq(X)
    OBVIOUS
  <2> HIDE DEF X
  <2> QED
    BY <2>1, FileRulesOf DEF X
<1>3. rows \in Seq(Seq(X))
  <2> HIDE DEF X, Row
  <2> QED
    BY <1>1, <1>2
<1>4. ~dirOK => LoadRules(dirOK, i.tree, sources, root) = <<>>
  BY DEF LoadRules
<1>5. dirOK => LoadRules(dirOK, i.tree, sources, root) = FlattenSeq(rows)
  BY DEF LoadRules
<1> HIDE DEF X, rows
<1>6. FlattenSeq(rows) \in Seq(X) /\ <<>> \in Seq(X)
  BY <1>3, Flattened
<1> QED
  BY <1>4, <1>5, <1>6 DEF X

LEMMA RootWellFormed ==
  ASSUME NEW i \in CheckInputs
  PROVE  WellFormed(loadPolicy(i.policy).policy)
<1>1. loadPolicy(i.policy).policy = IF i.policy.exists THEN Parse(i.policy.checks) ELSE NoPolicy
  BY DEF loadPolicy
<1>2. WellFormed(Parse(i.policy.checks))
  BY EntriesAssumption, ParseWellFormed
<1> QED
  BY <1>1, <1>2, NoPolicyWellFormed

(* What `ruler check` answers, when it is not a usage error.               *)
LEMMA CheckAnswer ==
  ASSUME NEW i \in CheckInputs, NEW out, out = check(i), out.exit # "exitUsage"
  PROVE  /\ SourcesRead(out.sources) /\ WellFormed(out.root)
         /\ out.rules = LoadRules(i.dirOK, i.tree, out.sources, out.root)
         /\ out.rules \in Seq(RulesOf(i.tree, out.sources, out.root))
         /\ i.args = {} /\ ~i.since =>
               LoadProblems(i.dirOK, i.tree, out.sources, out.root) \subseteq out.problems
<1> DEFINE src == loadSources(i.yaml, i.now)
           root == loadPolicy(i.policy)
           found == src.problems \union root.problems
                    \union LoadProblems(i.dirOK, i.tree, src.file.sources, root.policy)
                    \union (IF i.online THEN checkPrivileges(src.file.sources, root.policy, i.answers) ELSE {})
           policies == {e.path : e \in teamPolicies(i.tree)}
           recent == IF i.since THEN ChangedSince(i.git, i.changed, {"ruler.yaml", "policy.yaml"}, policies)
                     ELSE AllFiles
           kept == Keep(Paths(Files(i.tree), Under(i.tree), i.args), Keep(recent, found))
<1>1. out = [exit |-> Exit(kept), problems |-> kept,
             rules |-> LoadRules(i.dirOK, i.tree, src.file.sources, root.policy),
             sources |-> src.file.sources, root |-> root.policy]
  <2>1. CASE ~i.yamlOK \/ ~root.ok \/ ~PathsOK(Files(i.tree), Under(i.tree), i.args)
    <3>1. out = [exit |-> "exitUsage", problems |-> {}, rules |-> <<>>, sources |-> {}, root |-> NoPolicy]
      BY <2>1 DEF check
    <3> QED
      BY <3>1
  <2>2. CASE ~(~i.yamlOK \/ ~root.ok \/ ~PathsOK(Files(i.tree), Under(i.tree), i.args))
    BY <2>2 DEF check
  <2> QED
    BY <2>1, <2>2
<1>2. out.sources = src.file.sources /\ out.root = root.policy /\ out.problems = kept
      /\ out.rules = LoadRules(i.dirOK, i.tree, src.file.sources, root.policy)
  <2> HIDE DEF src, root, kept
  <2> QED
    BY <1>1
<1>3. ASSUME i.args = {}, ~i.since PROVE kept = found
  <2>1. recent = AllFiles /\ Paths(Files(i.tree), Under(i.tree), i.args) = AllFiles
    BY <1>3 DEF Paths
  <2> HIDE DEF found
  <2> QED
    BY <2>1 DEF Keep, AllFiles
<1>4. LoadProblems(i.dirOK, i.tree, src.file.sources, root.policy) \subseteq found
  OBVIOUS
<1> HIDE DEF src, root, kept, found
<1>5. SourcesRead(out.sources) /\ WellFormed(out.root)
  BY <1>2, LoadSourcesRead, RootWellFormed DEF src, root
<1>6. out.rules \in Seq(RulesOf(i.tree, out.sources, out.root))
  BY <1>2, LoadRulesOf
<1> QED
  BY <1>2, <1>3, <1>4, <1>5, <1>6

(* A check in its state machine: its input is one of the inputs, and what  *)
(* it answered is what the reading of that input gives.                    *)
CheckGiven == cmd = "check" => input \in CheckInputs /\ (output # NotYet => output = check(input))

LEMMA CheckAlwaysGiven == Spec => []CheckGiven
<1>1. Init => CheckGiven
  BY DEF Init, CheckGiven
<1>2. CheckGiven /\ [Next]_vars => CheckGiven'
  <2> SUFFICES ASSUME CheckGiven, [Next]_vars PROVE CheckGiven'
    OBVIOUS
  <2>1. CASE CheckRules
    BY <2>1 DEF CheckGiven, CheckRules, Answers
  <2>2. CASE ReplayRule
    BY <2>2 DEF CheckGiven, ReplayRule, Answers
  <2>3. CASE RunRules
    BY <2>3 DEF CheckGiven, RunRules
  <2>4. CASE UNCHANGED vars
    BY <2>4 DEF CheckGiven, vars
  <2> QED
    BY <2>1, <2>2, <2>3, <2>4 DEF Next
<1> QED
  BY <1>1, <1>2, PTL DEF Spec

LEMMA RuleBinds ==
  ASSUME NEW i \in CheckInputs, NEW sources, SourcesRead(sources), NEW root, WellFormed(root),
         NEW r \in RulesOf(i.tree, sources, root), NEW m, m = policyFor(r, sources, r.policy),
         NEW dir, dir = (CHOOSE e \in Range(i.tree) : e.path = r.file).dir
  PROVE  /\ WellFormed(m) /\ Binds(m, root)
         /\ \A s \in r.sources : WellFormed(s.policy) /\ Binds(m, s.policy)
         /\ \A p \in Range(i.tree) :
               p.name = "policy.yaml" /\ p.state = "ok" /\ p.dir # <<>> /\ IsPrefix(p.dir, dir)
               => Binds(m, Parse(p.checks))
<1>1. PICK f \in ruleFiles(i.tree) : \E g, r0 : r = LoadedRule(f, g, r0, sources, scopesFor(root, i.tree, f))
  BY DEF RulesOf
<1> DEFINE located == scopesFor(root, i.tree, f)
<1>2. r.file = f.path /\ r.policy = located /\ r.sources = Match(sources, r.selector)
  BY <1>1 DEF LoadedRule
<1>3. dir = f.dir
  <2>1. f \in Range(i.tree)
    BY DEF ruleFiles
  <2>2. \A e \in Range(i.tree) : e.path = r.file => e = f
    BY <1>2, <2>1, TreeAssumption
  <2> QED
    BY <1>2, <2>1, <2>2
<1>4. /\ WellFormed(located) /\ Binds(located, root)
      /\ \A p \in Range(i.tree) :
               p.name = "policy.yaml" /\ p.state = "ok" /\ p.dir # <<>> /\ IsPrefix(p.dir, f.dir)
               => Binds(located, Parse(p.checks))
  BY ScopesForBinds
<1> HIDE DEF located
<1>5. WellFormed(m) /\ Binds(m, located) /\ \A s \in r.sources : Binds(m, s.policy)
  BY <1>2, <1>4, PolicyForBinds
<1>6. \A s \in r.sources : WellFormed(s.policy)
  BY <1>2 DEF Match, SourcesRead
<1>7. Binds(m, root)
  BY <1>4, <1>5, BindsTransitive
<1>8. ASSUME NEW p \in Range(i.tree),
             p.name = "policy.yaml" /\ p.state = "ok" /\ p.dir # <<>> /\ IsPrefix(p.dir, dir)
      PROVE  Binds(m, Parse(p.checks))
  <2>1. WellFormed(Parse(p.checks))
    BY EntriesAssumption, ParseWellFormed
  <2>2. Binds(located, Parse(p.checks))
    BY <1>3, <1>4, <1>8
  <2> QED
    BY <1>4, <1>5, <2>1, <2>2, BindsTransitive
<1> QED
  BY <1>5, <1>6, <1>7, <1>8

(* PolicyBinds: however many scopes govern a rule and in whatever order    *)
(* they are met, the policy it is held to is, check by check, at least as  *)
(* strict as each of them: the instance's, every team directory's at or    *)
(* above the rule file, every source's it reaches (Merge, scopesFor,       *)
(* policyFor).                                                             *)
THEOREM EveryScopeBinds == Spec => []PolicyBinds
<1>1. CheckGiven => PolicyBinds
  <2> SUFFICES ASSUME CheckGiven, Checked, NEW r \in Range(output.rules), NEW scope \in Governing(r),
                      NEW c \in DOMAIN scope
               PROVE  AsStrict(c, For(Merged(r), c), scope[c])
    BY DEF PolicyBinds
  <2> DEFINE dir == (CHOOSE e \in Range(input.tree) : e.path = r.file).dir
  <2>1. input \in CheckInputs /\ output = check(input) /\ output.exit # "exitUsage"
    BY DEF CheckGiven, Checked
  <2>2. /\ SourcesRead(output.sources) /\ WellFormed(output.root)
        /\ output.rules \in Seq(RulesOf(input.tree, output.sources, output.root))
    BY <2>1, CheckAnswer
  <2>3. r \in RulesOf(input.tree, output.sources, output.root)
    BY <2>2 DEF Range
  <2>4. /\ Binds(Merged(r), output.root)
        /\ \A s \in r.sources : Binds(Merged(r), s.policy)
        /\ \A p \in Range(input.tree) :
               p.name = "policy.yaml" /\ p.state = "ok" /\ p.dir # <<>> /\ IsPrefix(p.dir, dir)
               => Binds(Merged(r), Parse(p.checks))
    <3> DEFINE m == Merged(r)
    <3>1. m = policyFor(r, output.sources, r.policy)
      BY DEF Merged
    <3> HIDE DEF m, dir
    <3> QED
      BY <2>1, <2>2, <2>3, <3>1, RuleBinds DEF m, dir
  <2>5. Binds(Merged(r), scope)
    BY <2>4 DEF Governing
  <2>6. c \in DOMAIN Merged(r) /\ AsStrict(c, Merged(r)[c], scope[c])
    BY <2>5 DEF Binds
  <2> QED
    BY <2>6 DEF For
<1> QED
  BY <1>1, CheckAlwaysGiven, PTL

-----------------------------------------------------------------------------
(* Rules of one identity.                                                  *)

(* The severity a check has in a merge is one some scope asks for: a merge *)
(* is no stricter than the strictest of its scopes.                        *)
THEOREM MergeIsAsked ==
  ASSUME NEW scopes, Len(scopes) \in Nat, \A i \in 1..Len(scopes) : WellFormed(scopes[i]),
         NEW c \in DOMAIN Merge(scopes)
  PROVE  \E i \in 1..Len(scopes) : c \in DOMAIN scopes[i] /\ Merge(scopes)[c].severity = scopes[i][c].severity
<1> DEFINE N == Len(scopes)
<1>1. PICK f : /\ DOMAIN f = 0..N /\ f[0] = NoPolicy /\ f[N] = Merge(scopes)
               /\ \A i \in 1..N : f[i] = MergeScope(f[i - 1], scopes[i])
  BY MergeSteps
<1> DEFINE Said(n) == c \in DOMAIN f[n] =>
                        \E i \in 1..n : c \in DOMAIN scopes[i] /\ f[n][c].severity = scopes[i][c].severity
           S == {n \in Nat : n <= N => Said(n)}
<1>2. 0 \in S
  BY <1>1, NoPolicyWellFormed
<1>3. ASSUME NEW n \in Nat, n \in S PROVE n + 1 \in S
  <2>1. SUFFICES ASSUME n + 1 <= N, c \in DOMAIN f[n + 1]
                 PROVE  \E i \in 1..(n + 1) : c \in DOMAIN scopes[i] /\ f[n + 1][c].severity = scopes[i][c].severity
    OBVIOUS
  <2>2. Said(n)
    BY <1>3, <2>1
  <2>3. n + 1 \in 1..N /\ n + 1 \in 1..(n + 1) /\ (n + 1) - 1 = n /\ \A i \in 1..n : i \in 1..(n + 1)
    BY <2>1
  <2> DEFINE p == f[n]  s == scopes[n + 1]  m == f[n + 1]
  <2>4. m = MergeScope(p, s) /\ WellFormed(s)
    BY <1>1, <2>3
  <2>5. CASE c \notin DOMAIN s
    <3>1. c \in DOMAIN p /\ m[c] = p[c]
      BY <2>1, <2>4, <2>5 DEF MergeScope
    <3> QED
      BY <2>2, <2>3, <3>1
  <2>6. CASE c \in DOMAIN s /\ c \in DOMAIN p
    <3>1. m[c] = strictest(p[c], s[c], Allowlist(c))
      BY <2>4, <2>6 DEF MergeScope
    <3>2. m[c].severity = s[c].severity \/ m[c].severity = p[c].severity
      BY <3>1 DEF strictest
    <3> QED
      BY <2>2, <2>3, <2>6, <3>2
  <2>7. CASE c \in DOMAIN s /\ c \notin DOMAIN p
    <3>1. m[c] = strictest(FirstSetting(c, s[c]), s[c], Allowlist(c))
      BY <2>4, <2>7 DEF MergeScope
    <3>2. s[c].severity \in Severities
      BY <2>4, <2>7 DEF WellFormed, Setting
    <3>3. m[c].severity = s[c].severity
      BY <3>1, <3>2 DEF strictest, FirstSetting, Severities, Off, Warning, Error
    <3> QED
      BY <2>3, <2>7, <3>3
  <2> QED
    BY <2>5, <2>6, <2>7
<1>4. N \in S
  <2> HIDE DEF S
  <2> QED
    BY <1>2, <1>3, NumberByNumber
<1>5. Said(N)
  <2>1. N <= N
    OBVIOUS
  <2> QED
    BY <1>4, <2>1
<1> QED
  BY <1>1, <1>5

(* m holds check c to the severity p sets it to. *)
AsAsked(m, p, c) == c \in DOMAIN p /\ m[c].severity = p[c].severity

LEMMA MergeOfTwo ==
  ASSUME NEW p, NEW q, WellFormed(p), WellFormed(q), NEW m, m = Merge(<<p, q>>)
  PROVE  /\ WellFormed(m) /\ DOMAIN m = DOMAIN p \union DOMAIN q
         /\ \A x \in {p, q} : \A c \in DOMAIN x : m[c].severity >= x[c].severity
         /\ \A c \in DOMAIN m : AsAsked(m, p, c) \/ AsAsked(m, q, c)
<1> DEFINE two == <<p, q>>
<1>1. Len(two) = 2 /\ two[1] = p /\ two[2] = q /\ 1..2 = {1, 2}
  OBVIOUS
<1> HIDE DEF two
<1>2. Len(two) \in Nat /\ \A i \in 1..Len(two) : WellFormed(two[i])
  BY <1>1
<1>3. m = Merge(two)
  BY DEF two
<1>4. /\ WellFormed(m)
      /\ DOMAIN m = UNION {DOMAIN two[i] : i \in 1..Len(two)}
      /\ \A i \in 1..Len(two) : \A c \in DOMAIN two[i] : AsStrict(c, m[c], two[i][c])
  BY <1>2, <1>3, MergeBinds
<1>5. \A c \in DOMAIN m : \E i \in 1..Len(two) : c \in DOMAIN two[i] /\ m[c].severity = two[i][c].severity
  BY <1>2, <1>3, MergeIsAsked
<1>6. \A i \in 1..Len(two) : \A c \in DOMAIN two[i] : m[c].severity >= two[i][c].severity
  BY <1>4 DEF AsStrict
<1>7. DOMAIN m = DOMAIN p \union DOMAIN q
  BY <1>1, <1>4
<1>8. \A x \in {p, q} : \A c \in DOMAIN x : m[c].severity >= x[c].severity
  BY <1>1, <1>6
<1>9. \A c \in DOMAIN m : AsAsked(m, p, c) \/ AsAsked(m, q, c)
  BY <1>1, <1>5 DEF AsAsked
<1> QED
  BY <1>4, <1>7, <1>8, <1>9

LEMMA MaxSeverity ==
  ASSUME NEW S, S \subseteq Severities, S # {}
  PROVE  Max(S) \in S /\ \A y \in S : Max(S) >= y
<1>1. \E x \in S : \A y \in S : x >= y
  <2>1. Severities = {0, 1, 2}
    BY DEF Severities, Off, Warning, Error
  <2>2. CASE 2 \in S
    BY <2>1, <2>2
  <2>3. CASE 2 \notin S /\ 1 \in S
    BY <2>1, <2>3
  <2>4. CASE 2 \notin S /\ 1 \notin S
    <3>1. S = {0}
      BY <2>1, <2>4
    <3> QED
      BY <3>1
  <2> QED
    BY <2>2, <2>3, <2>4
<1> QED
  BY <1>1 DEF Max

LEMMA CollisionFound ==
  ASSUME NEW rules, NEW sources, Len(rules) \in Nat,
         \A k \in 1..Len(rules) : WellFormed(policyFor(rules[k], sources, rules[k].policy)),
         NEW i \in 1..Len(rules), NEW j \in 1..Len(rules), i # j, rules[i].sources # {},
         NEW all, all = {k \in 1..Len(rules) : alertIdentity(rules[k]) = alertIdentity(rules[i])}, j \in all,
         NEW D, D = "rule/duplicate-alert",
         NEW severities,
         severities = {policyFor(rules[k], sources, rules[k].policy)[D].severity
                       : k \in {x \in all : D \in DOMAIN policyFor(rules[x], sources, rules[x].policy)}},
         NEW wanted, wanted = IF severities = {} THEN Warning ELSE Max(severities), wanted # Off
  PROVE  \E k \in all : NewProblem(rules[k].file, rules[k].alert, D, wanted) \in duplicateAlerts(rules, sources)
<1> DEFINE Pol(k) == policyFor(rules[k], sources, rules[k].policy)
           first == Min(all)
           Merged2(k) == Merge(<<Pol(first), Pol(k)>>)
           severity(k) == DuplicateSetting(rules[FirstOf(rules, k)], rules[k], sources).severity
<1>1. all \subseteq 1..Len(rules) /\ all \subseteq Nat /\ i \in all
  OBVIOUS
<1>2. first \in all /\ \A k \in all : first <= k
  BY <1>1, MinIsLeast
<1> HIDE DEF first
<1>3. ASSUME NEW k \in all PROVE rules[k].sources # {}
  <2>1. {s.name : s \in rules[k].sources} = {s.name : s \in rules[i].sources}
    BY DEF alertIdentity
  <2>2. PICK s \in rules[i].sources : s.name \in {x.name : x \in rules[k].sources}
    BY <2>1
  <2> QED
    BY <2>2
<1>4. ASSUME NEW k \in all PROVE FirstOf(rules, k) = first
  <2> DEFINE before == {x \in 1..k : rules[x].sources # {} /\ alertIdentity(rules[x]) = alertIdentity(rules[k])}
  <2>1. k \in Nat /\ k <= Len(rules) /\ first \in Nat /\ 1 <= first /\ first <= k
    BY <1>1, <1>2
  <2>2. first \in before
    BY <1>2, <1>3, <2>1
  <2>3. before \subseteq all /\ before \subseteq Nat
    BY <1>1, <2>1
  <2> HIDE DEF before
  <2>4. Min(before) \in before /\ \A y \in before : Min(before) <= y
    BY <2>2, <2>3, MinIsLeast
  <2>5. Min(before) = first
    <3>1. Min(before) <= first /\ first <= Min(before) /\ Min(before) \in Nat
      BY <1>2, <2>2, <2>3, <2>4
    <3> QED
      BY <2>1, <3>1
  <2> QED
    BY <2>5 DEF FirstOf, before
<1>5. PICK other \in all : other # first
  BY <1>1
<1>6. \A k \in all : WellFormed(Pol(k))
  BY <1>1
<1>7. ASSUME NEW k \in all PROVE severity(k) = For(Merged2(k), D).severity
  BY <1>4 DEF DuplicateSetting
<1>8. ASSUME NEW k \in all, k # first, severity(k) = wanted
      PROVE  NewProblem(rules[k].file, rules[k].alert, D, wanted) \in duplicateAlerts(rules, sources)
  <2>1. k \in {x \in 1..Len(rules) : rules[x].sources # {} /\ FirstOf(rules, x) # x}
    BY <1>1, <1>3, <1>4, <1>8
  <2> QED
    BY <1>8, <2>1 DEF duplicateAlerts
<1> HIDE DEF Pol, severity
<1>11. ASSUME NEW k \in all
       PROVE  /\ DOMAIN Merged2(k) = DOMAIN Pol(first) \union DOMAIN Pol(k)
              /\ \A x \in {first, k} : \A c \in DOMAIN Pol(x) : Merged2(k)[c].severity >= Pol(x)[c].severity
              /\ \A c \in DOMAIN Merged2(k) : \E x \in {first, k} : AsAsked(Merged2(k), Pol(x), c)
  <2> DEFINE p == Pol(first)  q == Pol(k)  m == Merged2(k)
  <2>1. WellFormed(p) /\ WellFormed(q) /\ m = Merge(<<p, q>>)
    BY <1>2, <1>6
  <2> HIDE DEF p, q, m
  <2>2. /\ DOMAIN m = DOMAIN p \union DOMAIN q
        /\ \A x \in {p, q} : \A c \in DOMAIN x : m[c].severity >= x[c].severity
        /\ \A c \in DOMAIN m : AsAsked(m, p, c) \/ AsAsked(m, q, c)
    <3>1. DOMAIN m = DOMAIN p \union DOMAIN q
      BY ONLY <2>1, MergeOfTwo
    <3>2. \A x \in {p, q} : \A c \in DOMAIN x : m[c].severity >= x[c].severity
      BY ONLY <2>1, MergeOfTwo
    <3>3. \A c \in DOMAIN m : AsAsked(m, p, c) \/ AsAsked(m, q, c)
      BY ONLY <2>1, MergeOfTwo
    <3> QED
      BY <3>1, <3>2, <3>3
  <2>3. m = Merged2(k) /\ p = Pol(first) /\ q = Pol(k)
    BY DEF m, p, q
  <2> HIDE DEF Merged2
  <2> QED
    BY <2>2, <2>3
<1> HIDE DEF Merged2
<1>9. CASE severities = {}
  <2>1. D \notin DOMAIN Pol(first) /\ D \notin DOMAIN Pol(other)
    BY <1>2, <1>5, <1>9 DEF Pol
  <2>2. D \notin DOMAIN Merged2(other)
    BY <1>5, <1>11, <2>1
  <2>3. For(Merged2(other), D).severity = Warning
    BY <2>2, DuplicateAssumption DEF For
  <2>4. severity(other) = wanted
    BY <1>7, <1>9, <2>3
  <2> QED
    BY <1>5, <1>8, <2>4
<1>10. CASE severities # {}
  <2>1. severities = {Pol(k)[D].severity : k \in {x \in all : D \in DOMAIN Pol(x)}}
    BY DEF Pol
  <2>2. severities \subseteq Severities
    BY <1>6, <2>1 DEF WellFormed, Setting
  <2>3. wanted \in severities /\ \A y \in severities : wanted >= y
    BY <1>10, <2>2, MaxSeverity
  <2>4. PICK x \in all : D \in DOMAIN Pol(x) /\ Pol(x)[D].severity = wanted
    BY <2>1, <2>3
  <2>5. PICK k \in all : k # first /\ (x = first \/ x = k)
    BY <1>5, <2>4
  <2> DEFINE m == Merged2(k)
  <2>6. x \in {first, k}
    BY <2>5
  <2>7. D \in DOMAIN m /\ m[D].severity >= wanted
    <3>1. D \in DOMAIN m
      BY <1>11, <2>4, <2>5
    <3>2. m[D].severity >= Pol(x)[D].severity
      BY <1>11, <2>4, <2>6, Zenon
    <3> QED
      BY <2>4, <3>1, <3>2
  <2>8. m[D].severity \in severities
    <3>1. PICK y \in {first, k} : D \in DOMAIN Pol(y) /\ m[D].severity = Pol(y)[D].severity
      BY <1>11, <2>7, Zenon DEF AsAsked
    <3>2. y \in all
      BY <1>2, <3>1
    <3> QED
      BY <2>1, <3>1, <3>2
  <2>9. m[D].severity = wanted
    <3>1. \A a, b \in Severities : a >= b /\ b >= a => a = b
      BY DEF Severities, Off, Warning, Error
    <3> QED
      BY <2>2, <2>3, <2>7, <2>8, <3>1
  <2>10. severity(k) = wanted
    BY <1>7, <2>5, <2>7, <2>9 DEF For
  <2> QED
    BY <1>8, <2>5, <2>10
<1> QED
  BY <1>9, <1>10

LEMMA CollisionsLoaded ==
  ASSUME NEW dirOK, dirOK, NEW tree, NEW sources, NEW root
  PROVE  duplicateAlerts(LoadRules(dirOK, tree, sources, root), sources) \subseteq LoadProblems(dirOK, tree, sources, root)
  BY DEF LoadProblems

(* CollisionReported: where several rules of one identity run, however     *)
(* many and in whatever order the files are read, one of them is reported  *)
(* at the highest severity any of their policies asks for, though each is  *)
(* only compared with the first (duplicateAlerts).                         *)
THEOREM EveryCollisionIsReported == Spec => []CollisionReported
<1> DEFINE D == "rule/duplicate-alert"
           Alike(i) == {k \in 1..Len(output.rules) : alertIdentity(output.rules[k]) = alertIdentity(output.rules[i])}
           SeveritiesOf(i) == {Merged(output.rules[k])[D].severity
                           : k \in {x \in Alike(i) : Configures(output.rules[x])}}
           WantedFor(i) == IF SeveritiesOf(i) = {} THEN Warning ELSE Max(SeveritiesOf(i))
<1>1. ASSUME CheckGiven, Checked, NEW i \in 1..Len(output.rules), NEW j \in 1..Len(output.rules),
             i # j, j \in Alike(i), output.rules[i].sources # {}, WantedFor(i) # Off, input.args = {}, ~input.since
      PROVE  \E p \in output.problems : \E k \in Alike(i) :
                 /\ p.check = D /\ p.severity = WantedFor(i)
                 /\ p.subject = output.rules[k].alert /\ p.file = output.rules[k].file
  <2> DEFINE rules == output.rules  sources == output.sources  all == Alike(i)
             severities == SeveritiesOf(i)  wanted == WantedFor(i)
  <2>1. input \in CheckInputs /\ output = check(input) /\ output.exit # "exitUsage"
    BY <1>1 DEF CheckGiven, Checked
  <2>2. /\ SourcesRead(sources) /\ WellFormed(output.root)
        /\ rules = LoadRules(input.dirOK, input.tree, sources, output.root)
        /\ rules \in Seq(RulesOf(input.tree, sources, output.root))
        /\ LoadProblems(input.dirOK, input.tree, sources, output.root) \subseteq output.problems
    BY <1>1, <2>1, CheckAnswer
  <2>3. Len(rules) \in Nat /\ \A k \in 1..Len(rules) : rules[k] \in RulesOf(input.tree, sources, output.root)
    BY <2>2
  <2>4. ASSUME NEW k \in 1..Len(rules) PROVE WellFormed(policyFor(rules[k], sources, rules[k].policy))
    BY ONLY <2>1, <2>2, <2>3, RuleBinds
  <2>5. input.dirOK
    <3>1. ~input.dirOK => rules = <<>>
      BY <2>2 DEF LoadRules
    <3> QED
      BY <1>1, <3>1
  <2>6. duplicateAlerts(rules, sources) \subseteq output.problems
    <3> HIDE DEF rules, sources
    <3>1. duplicateAlerts(rules, sources) \subseteq LoadProblems(input.dirOK, input.tree, sources, output.root)
      BY <2>2, <2>5, CollisionsLoaded
    <3> QED
      BY <2>2, <3>1
  <2>7. severities = {policyFor(rules[k], sources, rules[k].policy)[D].severity
                      : k \in {x \in all : D \in DOMAIN policyFor(rules[x], sources, rules[x].policy)}}
    BY DEF Merged, Configures
  <2>8. \E k \in all : NewProblem(rules[k].file, rules[k].alert, D, wanted) \in duplicateAlerts(rules, sources)
    <3>1. all = {k \in 1..Len(rules) : alertIdentity(rules[k]) = alertIdentity(rules[i])}
      OBVIOUS
    <3>2. wanted = IF severities = {} THEN Warning ELSE Max(severities)
      OBVIOUS
    <3>3. i \in 1..Len(rules) /\ j \in 1..Len(rules) /\ i # j /\ rules[i].sources # {} /\ j \in all /\ wanted # Off
      BY <1>1
    <3> HIDE DEF rules, sources, all, severities, wanted
    <3> QED
      BY ONLY <2>3, <2>4, <2>7, <3>1, <3>2, <3>3, CollisionFound
  <2> QED
    BY <2>6, <2>8 DEF NewProblem
<1>2. CheckGiven => CollisionReported
  <2> SUFFICES ASSUME CheckGiven, Checked, NEW i \in 1..Len(output.rules), NEW j \in 1..Len(output.rules),
                 i # j, j \in Alike(i), output.rules[i].sources # {}, WantedFor(i) # Off, input.args = {}, ~input.since
               PROVE  \E p \in output.problems : \E k \in Alike(i) :
                 /\ p.check = D /\ p.severity = WantedFor(i)
                 /\ p.subject = output.rules[k].alert /\ p.file = output.rules[k].file
    BY DEF CollisionReported
  <2> QED
    BY <1>1
<1> QED
  BY <1>2, CheckAlwaysGiven, PTL

-----------------------------------------------------------------------------
(* The count of a replay.  The instances and the spans of an instant stand *)
(* in a ledger: a span for each activation that fired, and no other.  An   *)
(* instant keeps it, and opens as many spans as labels turned firing.      *)

(* The instances over label sets L, and what spans are known by.           *)
InstancesOf(L) ==
    {i \in [labels : L, fp : {Hash(l) : l \in L}, phase : Phases, activeAt : Int,
            firedAt : Int, resolvedAt : Int, lastSeen : Int] : i.fp = Hash(i.labels)}
KeysOf(spans) == {s.key : s \in spans}

LEMMA AdvancedInstance ==
  ASSUME NEW L, NEW d, NEW inst \in InstancesOf(L), NEW now \in Int, NEW a, a = Advance(d, inst, now)
  PROVE  /\ a \in InstancesOf(L) /\ a.labels = inst.labels /\ a.activeAt = inst.activeAt
         /\ inst.phase # "pending" => a.phase = inst.phase
         /\ a.phase = "pending" => inst.phase = "pending"
<1>1. inst.phase \in Phases
  BY DEF InstancesOf
<1>2. CASE inst.phase = "pending" /\ now - inst.activeAt >= d.for
  BY <1>2 DEF Advance, InstancesOf, Phases
<1>3. CASE ~(inst.phase = "pending" /\ now - inst.activeAt >= d.for)
  BY <1>3 DEF Advance, InstancesOf, Phases
<1> QED
  BY <1>2, <1>3

LEMMA ExpiredInstance ==
  ASSUME NEW L, NEW d, NEW inst \in InstancesOf(L), NEW now \in Int, NEW a, a = Expire(d, inst, now)
  PROVE  /\ a \in InstancesOf(L) /\ a.labels = inst.labels /\ a.activeAt = inst.activeAt
         /\ a.phase \in {inst.phase, "resolved"}
<1>1. CASE inst.phase = "firing" /\ now - inst.lastSeen >= d.keepFiringFor
  BY <1>1 DEF Expire, InstancesOf, Phases
<1>2. CASE ~(inst.phase = "firing" /\ now - inst.lastSeen >= d.keepFiringFor)
  BY <1>2 DEF Expire, InstancesOf, Phases
<1> QED
  BY <1>1, <1>2

LEMMA StartedInstance ==
  ASSUME NEW L, NEW l \in L, NEW now \in Int, NEW a, a = NewInstance(l, now)
  PROVE  a \in InstancesOf(L) /\ a.labels = l /\ a.activeAt = now /\ a.phase = "pending"
BY DEF NewInstance, InstancesOf, Phases, Zero

(* Where an instance comes from.                                           *)
Continues(d, s, returned, now, i) ==
    \E t \in s : i = Advance(d, t, now) /\ t.labels \in returned /\ t.phase # "resolved"
Starts(d, s, returned, now, i) ==
    \E l \in returned : i = Advance(d, NewInstance(l, now), now) /\ ~\E j \in s : j.labels = l /\ j.phase # "resolved"
Lingers(d, s, returned, now, i) ==
    \E t \in s : i = Expire(d, t, now) /\ t.labels \notin returned /\ t.phase # "pending"

LEMMA Origin ==
  ASSUME NEW L, NEW d, NEW s, s \subseteq InstancesOf(L), NEW returned, NEW now,
         NEW i \in EvalInstances(d, s, returned, now)
  PROVE  Continues(d, s, returned, now, i) \/ Starts(d, s, returned, now, i) \/ Lingers(d, s, returned, now, i)
<1>1. \A t \in s : t.fp = Hash(t.labels)
  BY DEF InstancesOf
<1>2. \A t \in s : \A l : Matches(t, l) <=> t.labels = l
  BY <1>1 DEF Matches
<1>3. CASE \E t \in Track(s, returned, now) : i = Advance(d, t, now)
  <2>1. PICK t \in Track(s, returned, now) : i = Advance(d, t, now)
    BY <1>3
  <2>2. CASE t \in Continuing(s, returned)
    BY <1>2, <2>1, <2>2 DEF Continuing, Continues
  <2>3. CASE t \notin Continuing(s, returned)
    <3>1. PICK l \in returned : t = NewInstance(l, now) /\ ~\E j \in Continuing(s, returned) : Matches(j, l)
      BY <2>1, <2>3 DEF Track
    <3>2. ~\E j \in s : j.labels = l /\ j.phase # "resolved"
      BY <1>2, <3>1 DEF Continuing
    <3> QED
      BY <2>1, <3>1, <3>2 DEF Starts
  <2> QED
    BY <2>2, <2>3
<1>4. CASE \E t \in s : t \in Absent(s, returned) /\ Kept(d, t, now) /\ i = Expire(d, t, now)
  <2>1. PICK t \in s : t \in Absent(s, returned) /\ Kept(d, t, now) /\ i = Expire(d, t, now)
    BY <1>4
  <2>2. t.labels \notin returned
    BY <1>2, <2>1 DEF Absent
  <2>3. t.phase # "pending"
    BY <2>1 DEF Kept
  <2> QED
    BY <2>1, <2>2, <2>3 DEF Lingers
<1> QED
  BY <1>3, <1>4 DEF EvalInstances, Absent

(* The instances of a replay at an instant: one per label set, none of     *)
(* them activated later.                                                   *)
Tracked(L, s, at) ==
    /\ s \subseteq InstancesOf(L)
    /\ \A i, j \in s : i.labels = j.labels => i = j
    /\ \A i \in s : i.activeAt <= at

(* The three of them, seen from the instance that is there afterwards.     *)
Carried(d, s, returned, now, i) ==
    /\ i.labels \in returned
    /\ \E p \in s : /\ p.labels = i.labels /\ p.phase # "resolved" /\ i.activeAt = p.activeAt
                    /\ i = Advance(d, p, now)
                    /\ i.phase = "pending" => p.phase = "pending"
                    /\ p.phase = "firing" => i.phase = "firing"
Begun(d, s, returned, now, i) ==
    /\ i.labels \in returned /\ i = Advance(d, NewInstance(i.labels, now), now) /\ i.activeAt = now
    /\ \A p \in s : p.labels = i.labels => p.phase = "resolved"
LeftOver(d, s, returned, now, i) ==
    /\ i.labels \notin returned /\ i.phase # "pending"
    /\ \E p \in s : /\ p.labels = i.labels /\ i.activeAt = p.activeAt /\ i = Expire(d, p, now)
                    /\ i.phase = "firing" => p.phase = "firing"

LEMMA EvaluatedInstance ==
  ASSUME NEW L, NEW d, NEW s, s \subseteq InstancesOf(L), NEW returned, returned \subseteq L, NEW now \in Int,
         NEW i \in EvalInstances(d, s, returned, now)
  PROVE  /\ i \in InstancesOf(L)
         /\ Carried(d, s, returned, now, i) \/ Begun(d, s, returned, now, i) \/ LeftOver(d, s, returned, now, i)
<1>1. CASE Continues(d, s, returned, now, i)
  <2>1. PICK p \in s : i = Advance(d, p, now) /\ p.labels \in returned /\ p.phase # "resolved"
    BY <1>1 DEF Continues
  <2>2. p \in InstancesOf(L) /\ p.phase \in Phases
    BY DEF InstancesOf
  <2>3. /\ i \in InstancesOf(L) /\ i.labels = p.labels /\ i.activeAt = p.activeAt
        /\ p.phase # "pending" => i.phase = p.phase
        /\ i.phase = "pending" => p.phase = "pending"
    BY <2>1, <2>2, AdvancedInstance
  <2> QED
    BY <2>1, <2>3 DEF Carried
<1>2. CASE Starts(d, s, returned, now, i)
  <2>1. PICK l \in returned : i = Advance(d, NewInstance(l, now), now) /\ ~\E j \in s : j.labels = l /\ j.phase # "resolved"
    BY <1>2 DEF Starts
  <2>2. l \in L
    OBVIOUS
  <2>3. NewInstance(l, now) \in InstancesOf(L) /\ NewInstance(l, now).labels = l /\ NewInstance(l, now).activeAt = now
    BY <2>2, StartedInstance
  <2>4. i \in InstancesOf(L) /\ i.labels = l /\ i.activeAt = now
    BY <2>1, <2>3, AdvancedInstance
  <2> QED
    BY <2>1, <2>4 DEF Begun
<1>3. CASE Lingers(d, s, returned, now, i)
  <2>1. PICK p \in s : i = Expire(d, p, now) /\ p.labels \notin returned /\ p.phase # "pending"
    BY <1>3 DEF Lingers
  <2>2. p \in InstancesOf(L)
    OBVIOUS
  <2>3. /\ i \in InstancesOf(L) /\ i.labels = p.labels /\ i.activeAt = p.activeAt
        /\ i.phase \in {p.phase, "resolved"}
    BY <2>1, <2>2, ExpiredInstance
  <2> QED
    BY <2>1, <2>3 DEF LeftOver
<1> QED
  BY <1>1, <1>2, <1>3, Origin

LEMMA StillTracked ==
  ASSUME NEW L, NEW d, NEW s, NEW then \in Int, Tracked(L, s, then), NEW returned, returned \subseteq L,
         NEW now \in Int, then < now, NEW t, t = EvalInstances(d, s, returned, now)
  PROVE  Tracked(L, t, now)
<1>1. s \subseteq InstancesOf(L) /\ (\A i, j \in s : i.labels = j.labels => i = j) /\ \A i \in s : i.activeAt <= then
  BY DEF Tracked
<1>2. ASSUME NEW i \in t
      PROVE  /\ i \in InstancesOf(L)
             /\ Carried(d, s, returned, now, i) \/ Begun(d, s, returned, now, i) \/ LeftOver(d, s, returned, now, i)
  BY <1>1, EvaluatedInstance
<1>3. ASSUME NEW i \in t, NEW j \in t, i.labels = j.labels PROVE i = j
  <2>1. CASE Carried(d, s, returned, now, i)
    <3>1. Carried(d, s, returned, now, j)
      BY <1>2, <1>3, <2>1 DEF Carried, Begun, LeftOver
    <3> QED
      BY <1>1, <1>3, <2>1, <3>1 DEF Carried
  <2>2. CASE Begun(d, s, returned, now, i)
    <3>1. Begun(d, s, returned, now, j)
      BY <1>2, <1>3, <2>2 DEF Carried, Begun, LeftOver
    <3> QED
      BY <1>3, <2>2, <3>1 DEF Begun
  <2>3. CASE LeftOver(d, s, returned, now, i)
    <3>1. LeftOver(d, s, returned, now, j)
      BY <1>2, <1>3, <2>3 DEF Carried, Begun, LeftOver
    <3> QED
      BY <1>1, <1>3, <2>3, <3>1 DEF LeftOver
  <2> QED
    BY <1>2, <2>1, <2>2, <2>3
<1>4. ASSUME NEW i \in t PROVE i.activeAt <= now
  <2>1. i.activeAt = now \/ \E p \in s : i.activeAt = p.activeAt
    BY <1>2 DEF Carried, Begun, LeftOver
  <2>2. \A p \in s : p.activeAt \in Int /\ p.activeAt <= then
    BY <1>1 DEF InstancesOf
  <2> QED
    BY <2>1, <2>2
<1> QED
  BY <1>2, <1>3, <1>4 DEF Tracked

(* What a replay has counted so far: a span for each activation that fired *)
(* and for no other, none of them activated later.                         *)
SpansOf(L) == [key : [fp : {Hash(l) : l \in L}, activeAt : Int], firedAt : Int, lastFiring : Int]
Ledger(L, s, spans, at) ==
    /\ Tracked(L, s, at) /\ spans \subseteq SpansOf(L)
    /\ \A x, y \in spans : x.key = y.key => x = y
    /\ \A x \in spans : x.key.activeAt <= at
    /\ \A i \in s : i.phase = "firing" => SpanKey(i) \in KeysOf(spans)
    /\ \A i \in s : i.phase = "pending" => SpanKey(i) \notin KeysOf(spans)
    /\ IsFiniteSet(FiringLabels(s)) /\ IsFiniteSet(KeysOf(spans))

LEMMA SpansAfter ==
  ASSUME NEW L, NEW spans, spans \subseteq SpansOf(L), \A x, y \in spans : x.key = y.key => x = y,
         NEW firing, firing \subseteq InstancesOf(L), \A a, b \in firing : SpanKey(a) = SpanKey(b) => a = b,
         NEW at \in Int, NEW after, after = OpenOrExtend(spans, firing, at)
  PROVE  /\ after \subseteq SpansOf(L) /\ \A x, y \in after : x.key = y.key => x = y
         /\ KeysOf(after) = KeysOf(spans) \union {SpanKey(a) : a \in firing}
<1> DEFINE Extended(s) == IF \E a \in firing : s.key = SpanKey(a) THEN [s EXCEPT !.lastFiring = at] ELSE s
           Opened(a) == [key |-> SpanKey(a), firedAt |-> a.firedAt, lastFiring |-> at]
           fresh == {x \in firing : \A s \in spans : s.key # SpanKey(x)}
<1>1. after = {Extended(s) : s \in spans} \union {Opened(a) : a \in fresh}
  BY DEF OpenOrExtend
<1>2. ASSUME NEW s \in spans PROVE Extended(s) \in SpansOf(L) /\ Extended(s).key = s.key
  BY DEF SpansOf
<1>3. ASSUME NEW a \in fresh PROVE Opened(a) \in SpansOf(L) /\ Opened(a).key = SpanKey(a)
  <2>1. a \in InstancesOf(L)
    OBVIOUS
  <2>2. a.fp \in {Hash(l) : l \in L} /\ a.activeAt \in Int /\ a.firedAt \in Int
    BY <2>1 DEF InstancesOf
  <2> QED
    BY <2>2 DEF SpansOf, SpanKey
<1> HIDE DEF Extended, Opened
<1>4. after \subseteq SpansOf(L)
  BY <1>1, <1>2, <1>3
<1>5. ASSUME NEW x \in after, NEW y \in after, x.key = y.key PROVE x = y
  <2>1. CASE x \in {Extended(s) : s \in spans} /\ y \in {Extended(s) : s \in spans}
    BY <1>2, <1>5, <2>1
  <2>2. CASE x \in {Opened(a) : a \in fresh} /\ y \in {Opened(a) : a \in fresh}
    BY <1>3, <1>5, <2>2
  <2>3. CASE x \in {Extended(s) : s \in spans} /\ y \in {Opened(a) : a \in fresh}
    BY <1>2, <1>3, <1>5, <2>3
  <2>4. CASE y \in {Extended(s) : s \in spans} /\ x \in {Opened(a) : a \in fresh}
    BY <1>2, <1>3, <1>5, <2>4
  <2> QED
    BY <1>1, <2>1, <2>2, <2>3, <2>4
<1>6. KeysOf(after) = KeysOf(spans) \union {SpanKey(a) : a \in firing}
  <2>1. ASSUME NEW k \in KeysOf(after) PROVE k \in KeysOf(spans) \union {SpanKey(a) : a \in firing}
    BY <1>1, <1>2, <1>3 DEF KeysOf
  <2>2. ASSUME NEW s \in spans PROVE s.key \in KeysOf(after)
    BY <1>1, <1>2 DEF KeysOf
  <2>3. ASSUME NEW a \in firing PROVE SpanKey(a) \in KeysOf(after)
    <3>1. CASE a \in fresh
      BY <1>1, <1>3, <3>1 DEF KeysOf
    <3>2. CASE a \notin fresh
      <4>1. PICK s \in spans : s.key = SpanKey(a)
        BY <3>2
      <4> QED
        BY <2>2, <4>1
    <3> QED
      BY <3>1, <3>2
  <2> QED
    BY <2>1, <2>2, <2>3 DEF KeysOf
<1> QED
  BY <1>4, <1>5, <1>6

(* No two of the label sets collide (alert.Fingerprint, 64 bits).          *)
Injective(L) == \A l, m \in L : Hash(l) = Hash(m) => l = m

(* A span already stands for a firing instance exactly if the instance was *)
(* firing the instant before.                                              *)
LEMMA SpanStands ==
  ASSUME NEW L, Injective(L), NEW d, NEW s, NEW spans, NEW then \in Int, Ledger(L, s, spans, then),
         NEW returned, returned \subseteq L, NEW now \in Int, then < now,
         NEW t, t = EvalInstances(d, s, returned, now), NEW a \in t
  PROVE  /\ a.phase = "firing" => (SpanKey(a) \in KeysOf(spans) <=> a.labels \in FiringLabels(s))
         /\ a.phase = "pending" => SpanKey(a) \notin KeysOf(spans)
<1>1. /\ s \subseteq InstancesOf(L) /\ \A i, j \in s : i.labels = j.labels => i = j
      /\ \A k \in KeysOf(spans) : k.activeAt \in Int /\ k.activeAt <= then
      /\ \A i \in s : i.phase = "firing" => SpanKey(i) \in KeysOf(spans)
      /\ \A i \in s : i.phase = "pending" => SpanKey(i) \notin KeysOf(spans)
  BY DEF Ledger, Tracked, KeysOf, SpansOf
<1>2. /\ a \in InstancesOf(L)
      /\ Carried(d, s, returned, now, a) \/ Begun(d, s, returned, now, a) \/ LeftOver(d, s, returned, now, a)
  BY <1>1, EvaluatedInstance
<1>3. \A p \in s : p.labels = a.labels /\ p.activeAt = a.activeAt => SpanKey(p) = SpanKey(a)
  BY <1>1, <1>2 DEF InstancesOf, SpanKey
<1>4. a.labels \in FiringLabels(s) <=> \E p \in s : p.phase = "firing" /\ p.labels = a.labels
  BY DEF FiringLabels, FiringOf
<1>5. CASE Carried(d, s, returned, now, a)
  <2>1. PICK p \in s : /\ p.labels = a.labels /\ p.phase # "resolved" /\ a.activeAt = p.activeAt
                       /\ a.phase = "pending" => p.phase = "pending"
                       /\ p.phase = "firing" => a.phase = "firing"
    BY <1>5 DEF Carried
  <2>2. SpanKey(p) = SpanKey(a) /\ p.phase \in {"pending", "firing"}
    BY <1>1, <1>3, <2>1 DEF InstancesOf, Phases
  <2> QED
    BY <1>1, <1>4, <2>1, <2>2
<1>6. CASE Begun(d, s, returned, now, a)
  <2>1. a.activeAt = now /\ \A p \in s : p.labels = a.labels => p.phase = "resolved"
    BY <1>6 DEF Begun
  <2>2. SpanKey(a).activeAt = now
    BY <2>1 DEF SpanKey
  <2>3. SpanKey(a) \notin KeysOf(spans)
    BY <1>1, <2>2
  <2> QED
    BY <1>4, <2>1, <2>3
<1>7. CASE LeftOver(d, s, returned, now, a)
  <2>1. PICK p \in s : /\ p.labels = a.labels /\ a.activeAt = p.activeAt
                       /\ a.phase = "firing" => p.phase = "firing"
    BY <1>7 DEF LeftOver
  <2>2. a.phase # "pending"
    BY <1>7 DEF LeftOver
  <2> QED
    BY <1>1, <1>3, <1>4, <2>1, <2>2
<1> QED
  BY <1>2, <1>5, <1>6, <1>7

LEMMA OneInstant ==
  ASSUME NEW L, Injective(L), NEW d, NEW s, NEW spans, NEW then \in Int, Ledger(L, s, spans, then),
         NEW returned, returned \subseteq L, IsFiniteSet(returned), NEW now \in Int, then < now,
         NEW t, t = EvalInstances(d, s, returned, now),
         NEW after, after = OpenOrExtend(spans, FiringOf(t), now)
  PROVE  /\ Ledger(L, t, after, now)
         /\ Cardinality(KeysOf(after)) =
              Cardinality(KeysOf(spans)) + Cardinality(FiringLabels(t) \ FiringLabels(s))
         /\ Cardinality(FiringLabels(t) \ FiringLabels(s)) \in Nat
<1> DEFINE firing == FiringOf(t)
           keys == {SpanKey(a) : a \in firing}
           turned == FiringLabels(t) \ FiringLabels(s)
           opened == keys \ KeysOf(spans)
<1>1. /\ Tracked(L, s, then) /\ spans \subseteq SpansOf(L) /\ \A x, y \in spans : x.key = y.key => x = y
      /\ \A k \in KeysOf(spans) : k.activeAt \in Int /\ k.activeAt <= then
      /\ IsFiniteSet(FiringLabels(s)) /\ IsFiniteSet(KeysOf(spans)) /\ s \subseteq InstancesOf(L)
  BY DEF Ledger, Tracked, KeysOf, SpansOf
<1>2. Tracked(L, t, now)
  BY <1>1, StillTracked
<1>3. /\ t \subseteq InstancesOf(L) /\ (\A i, j \in t : i.labels = j.labels => i = j)
      /\ \A i \in t : i.activeAt <= now
  BY <1>2 DEF Tracked
<1>4. firing \subseteq t /\ firing \subseteq InstancesOf(L) /\ \A a \in t : a \in firing <=> a.phase = "firing"
  BY <1>3 DEF FiringOf
<1>5. \A a, b \in t : SpanKey(a) = SpanKey(b) => a = b
  <2> SUFFICES ASSUME NEW a \in t, NEW b \in t, SpanKey(a) = SpanKey(b) PROVE a = b
    OBVIOUS
  <2>1. a.fp = b.fp
    BY DEF SpanKey
  <2>2. a.labels \in L /\ b.labels \in L /\ a.fp = Hash(a.labels) /\ b.fp = Hash(b.labels)
    BY <1>3 DEF InstancesOf
  <2>3. a.labels = b.labels
    BY <2>1, <2>2 DEF Injective
  <2> QED
    BY <1>3, <2>3
<1>6. \A a \in t : /\ a.phase = "firing" => (SpanKey(a) \in KeysOf(spans) <=> a.labels \in FiringLabels(s))
                   /\ a.phase = "pending" => SpanKey(a) \notin KeysOf(spans)
  BY SpanStands
<1> HIDE DEF firing
<1>7. /\ after \subseteq SpansOf(L) /\ \A x, y \in after : x.key = y.key => x = y
      /\ KeysOf(after) = KeysOf(spans) \union keys
  <2>1. \A a, b \in firing : SpanKey(a) = SpanKey(b) => a = b
    BY <1>4, <1>5
  <2>2. after = OpenOrExtend(spans, firing, now)
    BY DEF firing
  <2> QED
    BY <1>1, <1>4, <2>1, <2>2, SpansAfter
<1>8. FiringLabels(t) = {a.labels : a \in firing}
  BY DEF FiringLabels, firing
<1>9. IsFiniteSet(FiringLabels(t))
  <2>1. ASSUME NEW a \in firing PROVE a.labels \in returned \union FiringLabels(s)
    <3>1. Carried(d, s, returned, now, a) \/ Begun(d, s, returned, now, a) \/ LeftOver(d, s, returned, now, a)
      BY <1>1, <1>4, EvaluatedInstance
    <3>2. CASE LeftOver(d, s, returned, now, a)
      BY <1>4, <3>2 DEF LeftOver, FiringLabels, FiringOf
    <3> QED
      BY <3>1, <3>2 DEF Carried, Begun
  <2>2. FiringLabels(t) \subseteq returned \union FiringLabels(s)
    BY <1>8, <2>1
  <2>3. IsFiniteSet(returned \union FiringLabels(s))
    BY <1>1, FS_Union
  <2> QED
    BY <2>2, <2>3, FS_Subset
<1>10. IsFiniteSet(turned)
  BY <1>9, FS_Subset
<1>11. ExistsBijection(turned, opened)
  <2> DEFINE Of(l) == CHOOSE a \in firing : a.labels = l
             f == [l \in turned |-> SpanKey(Of(l))]
  <2>1. ASSUME NEW l \in turned PROVE Of(l) \in firing /\ Of(l).labels = l /\ SpanKey(Of(l)) \in opened
    <3>1. \E a \in firing : a.labels = l
      BY <1>8
    <3>2. Of(l) \in firing /\ Of(l).labels = l
      BY <3>1
    <3> HIDE DEF Of
    <3> QED
      BY <1>4, <1>6, <3>2
  <2> HIDE DEF Of
  <2>2. f \in [turned -> opened]
    BY <2>1
  <2>3. \A l, m \in turned : f[l] = f[m] => l = m
    BY <1>4, <1>5, <2>1
  <2>4. \A k \in opened : \E l \in turned : f[l] = k
    <3> SUFFICES ASSUME NEW k \in opened PROVE \E l \in turned : f[l] = k
      OBVIOUS
    <3>1. PICK a \in firing : k = SpanKey(a)
      OBVIOUS
    <3>2. a.labels \in turned
      BY <1>4, <1>6, <1>8, <3>1
    <3>3. Of(a.labels) = a
      BY <1>3, <1>4, <2>1, <3>2
    <3> QED
      BY <3>1, <3>2, <3>3
  <2> HIDE DEF f, turned, opened
  <2> QED
    BY <2>2, <2>3, <2>4 DEF ExistsBijection, Bijection, Injection, Surjection, IsInjective
<1>12. IsFiniteSet(opened) /\ Cardinality(opened) = Cardinality(turned) /\ Cardinality(turned) \in Nat
  <2> HIDE DEF turned, opened
  <2> QED
    BY <1>10, <1>11, FS_Bijection, FS_CardinalityType
<1>13. /\ IsFiniteSet(KeysOf(after))
       /\ Cardinality(KeysOf(after)) = Cardinality(KeysOf(spans)) + Cardinality(turned)
  <2>1. KeysOf(after) = KeysOf(spans) \union opened /\ KeysOf(spans) \cap opened = {}
    BY <1>7
  <2> HIDE DEF turned, opened
  <2>2. Cardinality(KeysOf(spans) \cap opened) = 0
    BY <2>1, FS_EmptySet
  <2>3. Cardinality(KeysOf(spans)) \in Nat
    BY <1>1, FS_CardinalityType
  <2>4. /\ IsFiniteSet(KeysOf(spans) \union opened)
        /\ Cardinality(KeysOf(spans) \union opened) =
             Cardinality(KeysOf(spans)) + Cardinality(opened) - Cardinality(KeysOf(spans) \cap opened)
    BY <1>1, <1>12, FS_Union
  <2> QED
    BY <1>12, <2>1, <2>2, <2>3, <2>4
<1>14. \A x \in after : x.key.activeAt <= now
  <2> SUFFICES ASSUME NEW x \in after PROVE x.key.activeAt <= now
    OBVIOUS
  <2>1. x.key \in KeysOf(spans) \/ x.key \in keys
    BY <1>7 DEF KeysOf
  <2>2. CASE x.key \in KeysOf(spans)
    BY <1>1, <2>2
  <2>3. CASE x.key \in keys
    BY <1>3, <1>4, <2>3 DEF SpanKey
  <2> QED
    BY <2>1, <2>2, <2>3
<1>15. ASSUME NEW i \in t
       PROVE  /\ i.phase = "firing" => SpanKey(i) \in KeysOf(after)
              /\ i.phase = "pending" => SpanKey(i) \notin KeysOf(after)
  <2>1. i.phase = "pending" => SpanKey(i) \notin keys
    BY <1>4, <1>5
  <2> QED
    BY <1>4, <1>6, <1>7, <2>1
<1> QED
  BY <1>2, <1>7, <1>9, <1>12, <1>13, <1>14, <1>15 DEF Ledger

Unread == [ok |-> TRUE, insts |-> {}, hits |-> 0, spans |-> {}]
Turned(states, i) == Cardinality(FiringLabels(states[i]) \ FiringLabels(states[i - 1]))

(* A replay, instant by instant.                                           *)
LEMMA ReplaySteps ==
  ASSUME NEW c, NEW instants, Len(instants) \in Nat
  PROVE  \E f : /\ f[0] = Unread
                /\ replay(c, instants).ok = f[Len(instants)].ok /\ replay(c, instants).alerts = Cardinality(f[Len(instants)].spans)
                /\ \A i \in 1..Len(instants) : f[i] = ReplayInstant(c, f[i - 1], instants[i])
<1> DEFINE Body(g, n) == [i \in 0..n |-> IF i = 0 THEN Unread ELSE ReplayInstant(c, g[i - 1], instants[i])]
           S == {n \in Nat : \E g : g = Body(g, n)}
<1>1. 0 \in S
  <2> DEFINE g == [i \in 0..0 |-> Unread]
  <2>1. g = Body(g, 0)
    OBVIOUS
  <2> QED
    BY <2>1
<1>2. ASSUME NEW n \in Nat, n \in S PROVE n + 1 \in S
  <2>1. PICK g : g = Body(g, n)
    BY <1>2
  <2> DEFINE h == [i \in 0..(n + 1) |-> IF i = n + 1 THEN ReplayInstant(c, g[n], instants[n + 1]) ELSE g[i]]
  <2>2. ASSUME NEW i \in 0..(n + 1) PROVE h[i] = IF i = 0 THEN Unread ELSE ReplayInstant(c, h[i - 1], instants[i])
    <3>1. CASE i = n + 1
      <4>1. i # 0 /\ n \in 0..(n + 1) /\ i - 1 = n /\ n # n + 1
        BY <3>1
      <4>2. h[i] = ReplayInstant(c, g[n], instants[n + 1]) /\ h[i - 1] = g[n]
        BY <3>1, <4>1
      <4> HIDE DEF h
      <4> QED
        BY <3>1, <4>1, <4>2
    <3>2. CASE i # n + 1
      <4>1. i \in 0..n /\ (i # 0 => i - 1 \in 0..(n + 1) /\ i - 1 # n + 1)
        BY <3>2
      <4>2. h[i] = g[i] /\ (i # 0 => h[i - 1] = g[i - 1])
        BY <3>2, <4>1
      <4>3. g[i] = IF i = 0 THEN Unread ELSE ReplayInstant(c, g[i - 1], instants[i])
        BY <2>1, <4>1
      <4> HIDE DEF h
      <4> QED
        BY <4>2, <4>3
    <3> QED
      BY <3>1, <3>2
  <2>3. h = Body(h, n + 1)
    BY <2>2
  <2> HIDE DEF h
  <2>4. n + 1 \in Nat
    OBVIOUS
  <2>5. \E k : k = Body(k, n + 1)
    BY <2>3, Zenon
  <2> QED
    BY <2>4, <2>5, Zenon
<1>3. Len(instants) \in S
  <2> HIDE DEF S
  <2> QED
    BY <1>1, <1>2, NumberByNumber
<1> DEFINE f == CHOOSE g : g = Body(g, Len(instants))
<1>4. f = Body(f, Len(instants))
  BY <1>3
<1>5. replay(c, instants).ok = f[Len(instants)].ok /\ replay(c, instants).alerts = Cardinality(f[Len(instants)].spans)
  BY DEF replay, Unread
<1> HIDE DEF f
<1>6. f[0] = Unread
  BY <1>4
<1>7. ASSUME NEW i \in 1..Len(instants) PROVE f[i] = ReplayInstant(c, f[i - 1], instants[i])
  <2>1. i \in 0..Len(instants) /\ i # 0
    OBVIOUS
  <2> QED
    BY <1>4, <2>1
<1> QED
  BY <1>5, <1>6, <1>7

(* The instances it is held to, instant by instant.                        *)
LEMMA StatesSteps ==
  ASSUME NEW c, NEW instants, Len(instants) \in Nat
  PROVE  \E f : /\ f[0] = {}
                /\ States(c, instants) = f
                /\ \A i \in 1..Len(instants) : f[i] = Evaluated(c, f[i - 1], instants[i])
<1> DEFINE Body(g, n) == [i \in 0..n |-> IF i = 0 THEN {} ELSE Evaluated(c, g[i - 1], instants[i])]
           S == {n \in Nat : \E g : g = Body(g, n)}
<1>1. 0 \in S
  <2> DEFINE g == [i \in 0..0 |-> {}]
  <2>1. g = Body(g, 0)
    OBVIOUS
  <2> QED
    BY <2>1
<1>2. ASSUME NEW n \in Nat, n \in S PROVE n + 1 \in S
  <2>1. PICK g : g = Body(g, n)
    BY <1>2
  <2> DEFINE h == [i \in 0..(n + 1) |-> IF i = n + 1 THEN Evaluated(c, g[n], instants[n + 1]) ELSE g[i]]
  <2>2. ASSUME NEW i \in 0..(n + 1) PROVE h[i] = IF i = 0 THEN {} ELSE Evaluated(c, h[i - 1], instants[i])
    <3>1. CASE i = n + 1
      <4>1. i # 0 /\ n \in 0..(n + 1) /\ i - 1 = n /\ n # n + 1
        BY <3>1
      <4>2. h[i] = Evaluated(c, g[n], instants[n + 1]) /\ h[i - 1] = g[n]
        BY <3>1, <4>1
      <4> HIDE DEF h
      <4> QED
        BY <3>1, <4>1, <4>2
    <3>2. CASE i # n + 1
      <4>1. i \in 0..n /\ (i # 0 => i - 1 \in 0..(n + 1) /\ i - 1 # n + 1)
        BY <3>2
      <4>2. h[i] = g[i] /\ (i # 0 => h[i - 1] = g[i - 1])
        BY <3>2, <4>1
      <4>3. g[i] = IF i = 0 THEN {} ELSE Evaluated(c, g[i - 1], instants[i])
        BY <2>1, <4>1
      <4> HIDE DEF h
      <4> QED
        BY <4>2, <4>3
    <3> QED
      BY <3>1, <3>2
  <2>3. h = Body(h, n + 1)
    BY <2>2
  <2> HIDE DEF h
  <2>4. n + 1 \in Nat
    OBVIOUS
  <2>5. \E k : k = Body(k, n + 1)
    BY <2>3, Zenon
  <2> QED
    BY <2>4, <2>5, Zenon
<1>3. Len(instants) \in S
  <2> HIDE DEF S
  <2> QED
    BY <1>1, <1>2, NumberByNumber
<1> DEFINE f == CHOOSE g : g = Body(g, Len(instants))
<1>4. f = Body(f, Len(instants))
  BY <1>3
<1>5. States(c, instants) = f
  BY DEF States
<1> HIDE DEF f
<1>6. f[0] = {}
  BY <1>4
<1>7. ASSUME NEW i \in 1..Len(instants) PROVE f[i] = Evaluated(c, f[i - 1], instants[i])
  <2>1. i \in 0..Len(instants) /\ i # 0
    OBVIOUS
  <2> QED
    BY <1>4, <2>1
<1> QED
  BY <1>5, <1>6, <1>7

(* And how many turned firing.                                             *)
LEMMA FiringsSteps ==
  ASSUME NEW c, NEW instants, NEW states, states = States(c, instants), Len(instants) \in Nat
  PROVE  \E f : /\ f[0] = 0
                /\ Firings(c, instants) = f[Len(instants)]
                /\ \A i \in 1..Len(instants) : f[i] = f[i - 1] + Turned(states, i)
<1> DEFINE Body(g, n) == [i \in 0..n |-> IF i = 0 THEN 0 ELSE g[i - 1] + Turned(states, i)]
           S == {n \in Nat : \E g : g = Body(g, n)}
<1>1. 0 \in S
  <2> DEFINE g == [i \in 0..0 |-> 0]
  <2>1. g = Body(g, 0)
    OBVIOUS
  <2> QED
    BY <2>1
<1>2. ASSUME NEW n \in Nat, n \in S PROVE n + 1 \in S
  <2>1. PICK g : g = Body(g, n)
    BY <1>2
  <2> DEFINE h == [i \in 0..(n + 1) |-> IF i = n + 1 THEN g[n] + Turned(states, n + 1) ELSE g[i]]
  <2>2. ASSUME NEW i \in 0..(n + 1) PROVE h[i] = IF i = 0 THEN 0 ELSE h[i - 1] + Turned(states, i)
    <3>1. CASE i = n + 1
      <4>1. i # 0 /\ n \in 0..(n + 1) /\ i - 1 = n /\ n # n + 1
        BY <3>1
      <4>2. h[i] = g[n] + Turned(states, n + 1) /\ h[i - 1] = g[n]
        BY <3>1, <4>1
      <4> HIDE DEF h
      <4> QED
        BY <3>1, <4>1, <4>2
    <3>2. CASE i # n + 1
      <4>1. i \in 0..n /\ (i # 0 => i - 1 \in 0..(n + 1) /\ i - 1 # n + 1)
        BY <3>2
      <4>2. h[i] = g[i] /\ (i # 0 => h[i - 1] = g[i - 1])
        BY <3>2, <4>1
      <4>3. g[i] = IF i = 0 THEN 0 ELSE g[i - 1] + Turned(states, i)
        BY <2>1, <4>1
      <4> HIDE DEF h
      <4> QED
        BY <4>2, <4>3
    <3> QED
      BY <3>1, <3>2
  <2>3. h = Body(h, n + 1)
    BY <2>2
  <2> HIDE DEF h
  <2>4. n + 1 \in Nat
    OBVIOUS
  <2>5. \E k : k = Body(k, n + 1)
    BY <2>3, Zenon
  <2> QED
    BY <2>4, <2>5, Zenon
<1>3. Len(instants) \in S
  <2> HIDE DEF S
  <2> QED
    BY <1>1, <1>2, NumberByNumber
<1> DEFINE f == CHOOSE g : g = Body(g, Len(instants))
<1>4. f = Body(f, Len(instants))
  BY <1>3
<1>5. Firings(c, instants) = f[Len(instants)]
  BY DEF Firings, Turned
<1> HIDE DEF f
<1>6. f[0] = 0
  BY <1>4
<1>7. ASSUME NEW i \in 1..Len(instants) PROVE f[i] = f[i - 1] + Turned(states, i)
  <2>1. i \in 0..Len(instants) /\ i # 0
    OBVIOUS
  <2> QED
    BY <1>4, <2>1
<1> QED
  BY <1>5, <1>6, <1>7

(* The instants of a replay are whole numbers, each later than the one     *)
(* before (replayInstants, however coarse the step).                       *)
LEMMA StepPositive ==
  ASSUME NEW span \in Nat, NEW step \in Nat, NEW rows \in Nat, NEW ceiling \in Nat, span > 0, step > 0,
         NEW s, s = stepWithinCeiling(span, step, rows, ceiling)
  PROVE  s \in Nat /\ s > 0
<1> DEFINE w == replayWindows(span, step)
           al == IF ceiling \div rows < 1 THEN 1 ELSE ceiling \div rows
           k == Multiple(w, al)
<1>1. w \in Nat /\ w > 0
  BY Windows
<1>2. CASE Fits(w, rows, ceiling)
  BY <1>2 DEF stepWithinCeiling
<1>3. CASE ~Fits(w, rows, ceiling)
  <2>1. rows > 0
    BY <1>3 DEF Fits
  <2>2. ceiling \div rows \in Nat
    BY <2>1, DivBounds
  <2>3. al \in Nat /\ al > 0
    BY <2>2
  <2>4. CASE k > MaxMultiple
    BY <1>3, <2>4 DEF stepWithinCeiling
  <2>5. CASE ~(k > MaxMultiple)
    <3>1. s = step * k
      BY <1>3, <2>5 DEF stepWithinCeiling
    <3> HIDE DEF al
    <3>2. k \in Nat /\ k > 0
      BY <2>3, Coarser
    <3> HIDE DEF k
    <3>3. 1 * step <= k * step /\ step * k \in Nat /\ step * k = k * step
      BY <3>2, MulMonotone
    <3> QED
      BY <3>1, <3>3
  <2> QED
    BY <2>4, <2>5
<1> QED
  BY <1>2, <1>3

LEMMA InstantsAscend ==
  ASSUME NEW c \in ReplayInputs, c.range > 0, c.step > 0, NEW instants, instants = Instants(c)
  PROVE  /\ Len(instants) \in Nat /\ DOMAIN instants = 1..Len(instants)
         /\ \A i \in 1..Len(instants) : instants[i] \in Int
         /\ \A i \in 2..Len(instants) : instants[i - 1] < instants[i]
<1> DEFINE v == replayWindows(c.range, Step(c))
           s == Step(c)
<1>1. c.range \in Nat /\ c.step \in Nat /\ c.perWindow \in Nat /\ c.ceiling \in Nat /\ c.now \in Int
  BY ReplayAssumption
<1>2. s \in Nat /\ s > 0
  BY <1>1, StepPositive DEF Step
<1> HIDE DEF s
<1>3. v \in Nat
  BY <1>1, <1>2, Windows DEF s
<1>4. instants = [i \in 1..v |-> c.now - (v - i) * s]
  BY DEF Instants, replayInstants, s
<1> HIDE DEF v
<1>5. Len(instants) = v /\ DOMAIN instants = 1..v
  BY <1>3, <1>4
<1>6. \A i \in 1..v : instants[i] = c.now - (v - i) * s /\ v - i \in Nat
  BY <1>3, <1>4
<1>7. \A a \in Nat : a * s \in Nat /\ (a + 1) * s = a * s + s
  BY <1>2
<1>8. ASSUME NEW i \in 2..v PROVE instants[i - 1] < instants[i]
  <2>1. i \in 1..v /\ i - 1 \in 1..v /\ v - (i - 1) = (v - i) + 1 /\ v - i \in Nat
    BY <1>3
  <2>2. instants[i] = c.now - (v - i) * s /\ instants[i - 1] = c.now - ((v - i) + 1) * s
    BY <1>6, <2>1
  <2>3. (v - i) * s \in Nat /\ ((v - i) + 1) * s = (v - i) * s + s
    BY <1>7, <2>1
  <2> QED
    BY <1>1, <1>2, <2>2, <2>3
<1>9. ASSUME NEW i \in 1..v PROVE instants[i] \in Int
  BY <1>1, <1>6, <1>7
<1> QED
  BY <1>3, <1>5, <1>8, <1>9

LEMMA OneKeyEach ==
  ASSUME NEW spans, IsFiniteSet(KeysOf(spans)), \A x, y \in spans : x.key = y.key => x = y
  PROVE  Cardinality(spans) = Cardinality(KeysOf(spans))
<1> DEFINE keys == KeysOf(spans)
           f == [k \in keys |-> CHOOSE x \in spans : x.key = k]
<1>1. ASSUME NEW k \in keys PROVE f[k] \in spans /\ f[k].key = k
  <2>1. \E x \in spans : x.key = k
    BY DEF KeysOf
  <2> QED
    BY <2>1
<1>2. \A x \in spans : x.key \in keys
  BY DEF KeysOf
<1>3. f \in [keys -> spans]
  BY <1>1
<1> HIDE DEF f, keys
<1>4. \A k, m \in keys : f[k] = f[m] => k = m
  BY <1>1
<1>5. \A x \in spans : \E k \in keys : f[k] = x
  BY <1>1, <1>2
<1>6. ExistsBijection(keys, spans)
  BY <1>3, <1>4, <1>5 DEF ExistsBijection, Bijection, Injection, Surjection, IsInjective
<1> QED
  BY <1>6, FS_Bijection DEF keys

(* The label sets a query answers over a replay.                           *)
Returned(c) == UNION {c.rows[at] : at \in Range(Instants(c))}

LEMMA CountsOf ==
  ASSUME NEW c \in ReplayInputs, c.range > 0, c.step > 0, Injective(Returned(c)), replay(c, Instants(c)).ok
  PROVE  replay(c, Instants(c)).alerts = Firings(c, Instants(c))
<1> DEFINE instants == Instants(c)
           N == Len(instants)
           states == States(c, instants)
           d == [c.def EXCEPT !.retention = 0]
           L == Returned(c)
           Before(i) == IF i = 0 THEN instants[1] - 1 ELSE instants[i]
<1>1. /\ N \in Nat /\ DOMAIN instants = 1..N /\ \A i \in 1..N : instants[i] \in Int
      /\ \A i \in 2..N : instants[i - 1] < instants[i]
  BY InstantsAscend
<1>2. \A i \in 1..N : c.rows[instants[i]] \subseteq L /\ IsFiniteSet(c.rows[instants[i]])
  <2>1. \A i \in 1..N : instants[i] \in Range(instants)
    BY <1>1 DEF Range
  <2> QED
    BY <2>1, ReplayAssumption DEF Returned
<1> HIDE DEF instants, L, states, d
<1>3. PICK f : /\ f[0] = Unread /\ replay(c, instants).ok = f[N].ok
               /\ replay(c, instants).alerts = Cardinality(f[N].spans)
               /\ \A i \in 1..N : f[i] = ReplayInstant(c, f[i - 1], instants[i])
  BY <1>1, ReplaySteps
<1>4. states[0] = {} /\ \A i \in 1..N : states[i] = Evaluated(c, states[i - 1], instants[i])
  BY <1>1, StatesSteps DEF states
<1>5. PICK t : /\ t[0] = 0 /\ Firings(c, instants) = t[N]
               /\ \A i \in 1..N : t[i] = t[i - 1] + Turned(states, i)
  BY <1>1, FiringsSteps DEF states
<1> DEFINE Counted(n) == f[n].ok => /\ f[n].insts = states[n] /\ Ledger(L, states[n], f[n].spans, Before(n))
                                   /\ t[n] = Cardinality(KeysOf(f[n].spans)) /\ t[n] \in Nat
           S == {n \in Nat : n <= N => Counted(n)}
<1>6. ASSUME NEW i \in 1..N
      PROVE  /\ i - 1 \in 0..N /\ Before(i - 1) \in Int /\ Before(i) = instants[i] /\ instants[i] \in Int
             /\ Before(i - 1) < instants[i]
  BY <1>1
<1> HIDE DEF Before
<1>7. Ledger(L, {}, {}, Before(0)) /\ Cardinality(KeysOf({})) = 0
  <2>1. KeysOf({}) = {} /\ FiringLabels({}) = {}
    BY DEF KeysOf, FiringLabels, FiringOf
  <2> QED
    BY <2>1, FS_EmptySet DEF Ledger, Tracked
<1>8. 0 \in S
  <2>1. f[0].insts = states[0] /\ f[0].spans = {} /\ states[0] = {}
    BY <1>3, <1>4 DEF Unread
  <2>2. Ledger(L, states[0], f[0].spans, Before(0)) /\ t[0] = Cardinality(KeysOf(f[0].spans)) /\ t[0] \in Nat
    BY <1>5, <1>7, <2>1
  <2> QED
    BY <2>1, <2>2
<1>9. ASSUME NEW n \in Nat, n \in S PROVE n + 1 \in S
  <2> SUFFICES ASSUME n + 1 <= N, f[n + 1].ok
               PROVE  /\ f[n + 1].insts = states[n + 1]
                      /\ Ledger(L, states[n + 1], f[n + 1].spans, Before(n + 1))
                      /\ t[n + 1] = Cardinality(KeysOf(f[n + 1].spans)) /\ t[n + 1] \in Nat
    OBVIOUS
  <2> DEFINE i == n + 1
             now == instants[i]
             next == EvalInstances(d, states[n], c.rows[now], now)
             after == OpenOrExtend(f[n].spans, FiringOf(next), now)
  <2>1. i \in 1..N /\ i - 1 = n /\ n <= N
    BY <1>1
  <2>2. f[i] = ReplayInstant(c, f[n], now) /\ states[i] = Evaluated(c, states[n], now) /\ t[i] = t[n] + Turned(states, i)
    BY <1>3, <1>4, <1>5, <2>1
  <2>3. f[n].ok /\ now \notin c.fails
    BY <2>2 DEF ReplayInstant
  <2>4. f[n].insts = states[n] /\ Ledger(L, states[n], f[n].spans, Before(n)) /\ t[n] = Cardinality(KeysOf(f[n].spans)) /\ t[n] \in Nat
    BY <1>9, <2>1, <2>3
  <2>5. states[i] = next
    BY <2>2 DEF Evaluated, d
  <2>6. f[i].insts = next /\ f[i].spans = after
    BY <2>2, <2>3, <2>4 DEF ReplayInstant, Evaluated, d
  <2>7. Before(n) \in Int /\ now \in Int /\ Before(n) < now /\ Before(i) = now
    BY <1>6, <2>1
  <2>8. c.rows[now] \subseteq L /\ IsFiniteSet(c.rows[now])
    BY <1>2, <2>1
  <2>9. Injective(L)
    BY DEF L
  <2> DEFINE rows == c.rows[now]
             ledger == f[n].spans
             from == states[n]
             then == Before(n)
  <2>10. next = EvalInstances(d, from, rows, now) /\ after = OpenOrExtend(ledger, FiringOf(next), now)
    OBVIOUS
  <2>11. /\ Ledger(L, from, ledger, then) /\ then \in Int /\ now \in Int /\ then < now
         /\ rows \subseteq L /\ IsFiniteSet(rows)
    BY <2>4, <2>7, <2>8
  <2> HIDE DEF now, next, after, rows, ledger, from, then
  <2>12. /\ Ledger(L, next, after, now)
         /\ Cardinality(KeysOf(after)) =
              Cardinality(KeysOf(ledger)) + Cardinality(FiringLabels(next) \ FiringLabels(from))
         /\ Cardinality(FiringLabels(next) \ FiringLabels(from)) \in Nat
    BY ONLY <2>9, <2>10, <2>11, OneInstant
  <2>13. /\ Ledger(L, next, after, now)
         /\ Cardinality(KeysOf(after)) =
              Cardinality(KeysOf(f[n].spans)) + Cardinality(FiringLabels(next) \ FiringLabels(states[n]))
         /\ Cardinality(FiringLabels(next) \ FiringLabels(states[n])) \in Nat
    BY <2>12 DEF ledger, from
  <2>14. Turned(states, i) = Cardinality(FiringLabels(next) \ FiringLabels(states[n]))
    BY <2>1, <2>5 DEF Turned
  <2> HIDE DEF next, after, i
  <2>15. /\ f[i].insts = states[i] /\ Ledger(L, states[i], f[i].spans, Before(i))
         /\ t[i] = Cardinality(KeysOf(f[i].spans)) /\ t[i] \in Nat
    BY <2>2, <2>4, <2>5, <2>6, <2>7, <2>13, <2>14
  <2> QED
    BY <2>15 DEF i
<1>10. Counted(N)
  <2> HIDE DEF S
  <2>1. N \in S
    BY <1>1, <1>8, <1>9, NumberByNumber
  <2> QED
    BY <1>1, <2>1 DEF S
<1>11. f[N].ok
  BY <1>3 DEF instants
<1>12. Ledger(L, states[N], f[N].spans, Before(N)) /\ t[N] = Cardinality(KeysOf(f[N].spans))
  BY <1>10, <1>11
<1>13. Cardinality(f[N].spans) = Cardinality(KeysOf(f[N].spans))
  BY <1>12, OneKeyEach DEF Ledger
<1> QED
  BY <1>3, <1>5, <1>12, <1>13 DEF instants

(* A replay in its state machine, like a check (CheckGiven).               *)
ReplayGiven ==
    cmd = "backfill" =>
        /\ input \in ReplayInputs
        /\ output # NotYet => output = [exit |-> "exitOK", counts |-> Backfill(input), finding |-> Finding(input)]

LEMMA ReplayAlwaysGiven == Spec => []ReplayGiven
<1>1. Init => ReplayGiven
  BY DEF Init, ReplayGiven
<1>2. ReplayGiven /\ [Next]_vars => ReplayGiven'
  <2> SUFFICES ASSUME ReplayGiven, [Next]_vars PROVE ReplayGiven'
    OBVIOUS
  <2>1. CASE CheckRules
    BY <2>1 DEF ReplayGiven, CheckRules, Answers
  <2>2. CASE ReplayRule
    BY <2>2 DEF ReplayGiven, ReplayRule, Answers
  <2>3. CASE RunRules
    BY <2>3 DEF ReplayGiven, RunRules
  <2>4. CASE UNCHANGED vars
    BY <2>4 DEF ReplayGiven, vars
  <2> QED
    BY <2>1, <2>2, <2>3, <2>4 DEF Next
<1> QED
  BY <1>1, <1>2, PTL DEF Spec

(* No two alerts a replay is told of have the same fingerprint: a span is  *)
(* known by its alert's fingerprint and activation (replay, instanceKey),  *)
(* so two alerts that collide and became active together are one.          *)
Fingerprinted == cmd = "backfill" => Injective(Returned(input))

(* ReplayCountsFirings: however the instants fall, whatever the rows and   *)
(* however often an alert stops and comes back, the alerts a replay        *)
(* reports are the times an instance turned firing (replay, alert.Eval).   *)
THEOREM ReplayIsExact == Spec => [](Fingerprinted => ReplayCountsFirings)
<1>1. ReplayGiven => (Fingerprinted => ReplayCountsFirings)
  <2> SUFFICES ASSUME ReplayGiven, Fingerprinted, Replayed, output.counts.ok
               PROVE  output.counts.alerts = Firings(input, Instants(input))
    BY DEF ReplayCountsFirings
  <2>1. input \in ReplayInputs /\ output.counts = Backfill(input) /\ Injective(Returned(input))
    BY DEF ReplayGiven, Fingerprinted, Replayed
  <2>2. ~(input.range <= 0 \/ input.step <= 0 \/ ~input.estimated)
    BY <2>1 DEF Backfill, NoReplay
  <2>3. output.counts = replay(input, Instants(input))
    BY <2>1, <2>2 DEF Backfill
  <2>4. input.range > 0 /\ input.step > 0
    BY <2>1, <2>2, ReplayAssumption
  <2> QED
    BY <2>1, <2>3, <2>4, CountsOf
<1> QED
  BY <1>1, ReplayAlwaysGiven, PTL
=============================================================================
