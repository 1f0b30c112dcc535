---------------------------- MODULE RulerProofs ----------------------------
(***************************************************************************)
(* The invariants of Ruler, for every set of files, every answer a source  *)
(* may give, any number of clients, edits and signals.                     *)
(*                                                                         *)
(* None of them is inductive: each says what holds at one step of the run  *)
(* loop, and a reload passes through steps where two configurations        *)
(* coexist.  IndInv says what holds at every step of it: which connections *)
(* are open (Connections), on which of them the goroutines run (Goroutines)*)
(* and which configuration those are of (Current), from the load to the    *)
(* answer.                                                                 *)
(***************************************************************************)
EXTENDS Ruler, FiniteSetTheorems, SequenceTheorems, TLAPS

Steps == {"load", "contract", "open", "cancel", "wait", "close", "publish", "start", "rotate",
          "answer", "select", "stopping", "drain", "http", "exit"}

(* Before the first configuration runs. *)
Starting == cause = "start" /\ pc \in {"load", "contract", "open", "close", "publish", "start"}
(* Between opening what a configuration needs and publishing it. *)
Changing == pc \in {"cancel", "wait", "close", "publish"}
(* One configuration runs, on the connections held. *)
Steady == ~Starting /\ pc \in {"select", "load", "contract", "open", "cancel", "rotate", "answer"}
(* The new one runs, on the connections about to be held. *)
Swapped == cause # "start" /\ pc \in {"close", "publish"}

Control ==
    /\ pc \in Steps /\ cause \in Clients \cup {"start", "signal", None}
    /\ disk \in DOMAIN Files /\ DOMAIN req = Clients /\ DOMAIN seen = Clients
    /\ pc = "start" => cause = "start"
    /\ pc \in {"cancel", "wait", "rotate", "answer"} => cause # "start"
    /\ exit = None <=> pc # "exit"

(* A configuration is what a version of the files loads as, less the       *)
(* sources that do not meet their contract.                                *)
ConfigFields == {"version", "refused", "readable", "root", "groups", "alertmanagers", "problems"}
IsConfig(c) ==
    /\ DOMAIN c = ConfigFields /\ c.version \in DOMAIN Files
    /\ \A f \in ConfigFields \ {"refused"} : c[f] = Config[c.version][f]

Loaded ==
    /\ pc \in {"contract", "open", "start", "rotate"} \/ Changing => IsConfig(cfg)
    /\ ~Starting /\ pc # "exit" => IsConfig(running)
    /\ Swapped \/ pc = "rotate" \/ (pc = "answer" /\ outcome = "ok") => running = cfg

(* A connection is named by its source and the connect that opened it. *)
Held(q, k) == \A n \in DOMAIN q : q[n].def.name = n /\ \E i \in 1..k : q[n].conn = <<n, i>>
(* What connect keeps is kept whole, what it opens is new. *)
Succeeds(q, r) == \A n \in DOMAIN q, m \in DOMAIN r : q[n].conn = r[m].conn => n = m /\ q[n] = r[m]
Connections ==
    /\ connects \in Nat
    /\ Held(queriers, connects)
    /\ Changing => Held(next, connects) /\ Succeeds(next, queriers)
    /\ pc \in {"cancel", "wait", "close"} => open = ConnsOf(queriers) \cup ConnsOf(next)
    /\ pc = "publish" => open = ConnsOf(next)
    /\ ~Changing /\ pc # "exit" => open = ConnsOf(queriers)

(* The goroutines use connections that are held. *)
WellFormed(t) ==
    t = [name |-> t.name, conns |-> t.conns, phase |-> t.phase, live |-> t.live]
OnlyOn(ts, used) == \A t \in ts : WellFormed(t) /\ t.conns \subseteq used
Goroutines ==
    /\ \A t \in tasks : WellFormed(t)
    /\ Starting => tasks = {}
    /\ pc \in {"drain", "http", "exit"} /\ ~timedOut => tasks = {}
    /\ ~Swapped /\ pc # "exit" => OnlyOn(tasks, ConnsOf(queriers))
    /\ Swapped => OnlyOn(tasks, ConnsOf(next))

Defs(q) == {q[n].def : n \in DOMAIN q}
AtRest(t) == [t EXCEPT !.phase = "waiting"]
AreThoseOf(ts, c, q) ==
    /\ {AtRest(t) : t \in ts} = build(c, q)
    /\ \A t, u \in ts : t.name = u.name => t = u
Current ==
    /\ Changing => Defs(next) = matchedSources(cfg)
    /\ pc = "start" => Defs(queriers) = matchedSources(cfg) /\ info = cfg.version
    /\ Steady \/ pc = "wait" => Defs(queriers) = matchedSources(running) /\ info = running.version
    /\ Steady /\ ~term => AreThoseOf(tasks, running, queriers)
    /\ Swapped /\ ~term => AreThoseOf(tasks, running, next)

Published ==
    /\ pc # "exit" => published.conns = ConnsOf(queriers)
    /\ published.conns # {} => published.rules > 0

(* What whoever asked for the reload has to be told. *)
Asked ==
    /\ pc \in {"load", "contract", "open"} /\ cause # "start" => InForce = before
    /\ pc = "answer" => outcome \in {"ok", "refused"} /\ lastOk = (outcome = "ok")
    /\ pc = "answer" /\ outcome = "refused" => InForce = before
    /\ pc = "rotate" => lastOk = TRUE
    /\ pc = "rotate" \/ (pc = "answer" /\ outcome = "ok") => info = cfg.version
    /\ pc \in {"open", "rotate"} \/ Changing \/ (pc = "answer" /\ outcome = "ok") =>
          cfg.refused = refusedSources(sourceProblem)
    /\ \A r \in Clients : req[r] = "offering" => disk \in seen[r]
    /\ cause \in Clients => req[cause] \notin {"idle", "offering"}
    /\ cause \in Clients /\ pc = "load" => disk \in seen[cause]
    /\ cause \in Clients /\ (Changing \/ pc \in {"contract", "open", "rotate", "answer"}) =>
          cfg.version \in seen[cause]

IndInv ==
    /\ Control
    /\ Loaded
    /\ Connections
    /\ Goroutines
    /\ Current
    /\ Published
    /\ Asked
    /\ DeliveryMaterialClean

-----------------------------------------------------------------------------
(* Names and connections.                                                  *)

(* The source taken for a name is one that matched, and has that name. *)
LEMMA NamedMatches ==
  ASSUME NEW c, NEW n \in Names(c)
  PROVE  Named(c, n) \in Matched(c) /\ Named(c, n).name = n
<1>1. \E s \in Matched(c) : s.name = n
  BY DEF Names
<1> QED
  BY <1>1, Zenon DEF Named

(* Connections held for the sources of a configuration are held under      *)
(* their names.                                                            *)
LEMMA HeldUnderNames ==
  ASSUME NEW c, NEW q, NEW k, Held(q, k), Defs(q) = matchedSources(c)
  PROVE  DOMAIN q = Names(c)
<1>1. ASSUME NEW n \in DOMAIN q PROVE n \in Names(c)
  <2>1. q[n].def \in matchedSources(c) /\ q[n].def.name = n
    BY DEF Defs, Held
  <2>2. PICK m \in Names(c) : q[n].def = Named(c, m)
    BY <2>1 DEF matchedSources
  <2> QED
    BY <2>1, <2>2, NamedMatches
<1>2. ASSUME NEW n \in Names(c) PROVE n \in DOMAIN q
  <2>1. Named(c, n) \in Defs(q)
    BY DEF matchedSources
  <2>2. PICK m \in DOMAIN q : q[m].def = Named(c, n)
    BY <2>1 DEF Defs
  <2> QED
    BY <2>2, NamedMatches DEF Held
<1> QED
  BY <1>1, <1>2

(* What connect makes of a configuration: one connection for each name,    *)
(* kept from those held or new, each opened with the definition.           *)
LEMMA Reconciling ==
  ASSUME connects \in Nat, Held(queriers, connects), NEW c, NEW q, q = Reconciled(c)
  PROVE  /\ Held(q, connects + 1) /\ Succeeds(q, queriers)
         /\ Defs(q) = matchedSources(c)
         /\ ConnsOf(queriers) \cup {<<s.name, connects + 1>> : s \in Needed(c)}
              = ConnsOf(queriers) \cup ConnsOf(q)
<1> DEFINE kept(n) == n \in DOMAIN queriers /\ q[n] = queriers[n] /\ q[n].def = Named(c, n)
           opened(n) == q[n].conn = <<n, connects + 1>> /\ q[n].def = Named(c, n)
<1>1. DOMAIN q = Names(c)
  BY DEF Reconciled
<1>2. ASSUME NEW n \in Names(c)
      PROVE  IF Reusable(Named(c, n)) THEN kept(n) ELSE opened(n)
  BY <1>2, NamedMatches DEF Reconciled, Reusable
<1>3. ASSUME NEW n \in Names(c) PROVE q[n].def = Named(c, n) /\ q[n].def.name = n
  BY <1>2, <1>3, NamedMatches
<1>4. Held(q, connects + 1)
  <2> SUFFICES ASSUME NEW n \in DOMAIN q PROVE \E i \in 1..(connects + 1) : q[n].conn = <<n, i>>
    BY <1>1, <1>3 DEF Held
  <2>1. CASE kept(n)
    <3>1. PICK i \in 1..connects : queriers[n].conn = <<n, i>>
      BY <2>1 DEF Held
    <3> QED
      BY <2>1, <3>1
  <2>2. CASE opened(n)
    BY <2>2
  <2> QED
    BY <1>1, <1>2, <2>1, <2>2
<1>5. Succeeds(q, queriers)
  <2> SUFFICES ASSUME NEW n \in DOMAIN q, NEW m \in DOMAIN queriers, q[n].conn = queriers[m].conn
               PROVE  n = m /\ q[n] = queriers[m]
    BY DEF Succeeds
  <2>1. PICK i \in 1..connects : queriers[m].conn = <<m, i>>
    BY DEF Held
  <2>2. CASE kept(n)
    <3>1. PICK j \in 1..connects : queriers[n].conn = <<n, j>>
      BY <2>2 DEF Held
    <3> QED
      BY <2>1, <2>2, <3>1
  <2>3. CASE opened(n)
    BY <2>1, <2>3
  <2> QED
    BY <1>1, <1>2, <2>2, <2>3
<1>6. Defs(q) = matchedSources(c)
  BY <1>1, <1>3 DEF Defs, matchedSources
<1>7. ASSUME NEW n \in Names(c) PROVE q[n].conn \in ConnsOf(queriers) \cup {<<s.name, connects + 1>> : s \in Needed(c)}
  <2>1. CASE kept(n)
    BY <2>1 DEF ConnsOf
  <2>2. CASE opened(n) /\ ~Reusable(Named(c, n))
    <3>1. Named(c, n) \in Needed(c) /\ Named(c, n).name = n
      BY <2>2, <1>7, NamedMatches DEF Needed, matchedSources
    <3> QED
      BY <2>2, <3>1
  <2> QED
    BY <1>2, <1>7, <2>1, <2>2
<1>8. ASSUME NEW s \in Needed(c) PROVE <<s.name, connects + 1>> \in ConnsOf(q)
  <2>1. PICK n \in Names(c) : s = Named(c, n)
    BY <1>8 DEF Needed, matchedSources
  <2>2. s.name = n /\ ~Reusable(Named(c, n))
    BY <1>8, <2>1, NamedMatches DEF Needed
  <2>3. q[n].conn = <<n, connects + 1>>
    BY <1>2, <2>2
  <2> QED
    BY <1>1, <2>2, <2>3 DEF ConnsOf
<1>9. ConnsOf(q) = {q[n].conn : n \in Names(c)}
  BY <1>1 DEF ConnsOf
<1>10. ConnsOf(queriers) \cup {<<s.name, connects + 1>> : s \in Needed(c)}
         = ConnsOf(queriers) \cup ConnsOf(q)
  BY <1>7, <1>8, <1>9
<1> QED
  BY <1>4, <1>5, <1>6, <1>10

(* Closing what was replaced leaves what is about to be held. *)
LEMMA Closing ==
  ASSUME NEW q, NEW r, Succeeds(r, q)
  PROVE  (ConnsOf(q) \cup ConnsOf(r))
            \ {q[n].conn : n \in {x \in DOMAIN q : x \notin DOMAIN r \/ r[x] # q[x]}} = ConnsOf(r)
<1> DEFINE gone == {q[n].conn : n \in {x \in DOMAIN q : x \notin DOMAIN r \/ r[x] # q[x]}}
<1>1. ASSUME NEW x \in ConnsOf(r) PROVE x \notin gone
  BY <1>1 DEF ConnsOf, Succeeds
<1>2. ASSUME NEW x \in ConnsOf(q), x \notin gone PROVE x \in ConnsOf(r)
  BY <1>2 DEF ConnsOf
<1> QED
  BY <1>1, <1>2

-----------------------------------------------------------------------------
(* Goroutines.                                                             *)

LEMMA RestOf ==
  ASSUME NEW n, NEW on, NEW p, NEW l, NEW t,
         t = [name |-> n, conns |-> on, phase |-> p, live |-> l]
  PROVE  AtRest(t) = [name |-> n, conns |-> on, phase |-> "waiting", live |-> l]
  BY DEF AtRest

(* A goroutine that changes its phase is the same one. *)
LEMMA Phased ==
  ASSUME NEW t, WellFormed(t), NEW p, NEW u, u = [t EXCEPT !.phase = p]
  PROVE  /\ WellFormed(u) /\ AtRest(u) = AtRest(t)
         /\ u.name = t.name /\ u.conns = t.conns /\ u.live = t.live /\ u.phase = p
<1> USE DEF WellFormed
<1>1. u = [name |-> t.name, conns |-> t.conns, phase |-> p, live |-> t.live]
  OBVIOUS
<1>2. AtRest(u) = [name |-> t.name, conns |-> t.conns, phase |-> "waiting", live |-> t.live]
  BY <1>1, RestOf
<1>3. AtRest(t) = [name |-> t.name, conns |-> t.conns, phase |-> "waiting", live |-> t.live]
  BY RestOf
<1> QED
  BY <1>1, <1>2, <1>3

(* What a goroutine at rest keeps of it. *)
LEMMA Resting ==
  ASSUME NEW t, WellFormed(t)
  PROVE  AtRest(t).name = t.name /\ AtRest(t).conns = t.conns /\ AtRest(t).live = t.live
  BY DEF WellFormed, AtRest

LEMMA AtBirth ==
  ASSUME NEW n, NEW on, NEW t, t = Task(n, on)
  PROVE  WellFormed(t) /\ t.name = n /\ t.conns = on /\ t.live /\ AtRest(t) = t
<1>1. t = [name |-> n, conns |-> on, phase |-> "waiting", live |-> TRUE]
  BY DEF Task
<1>2. AtRest(t) = [name |-> n, conns |-> on, phase |-> "waiting", live |-> TRUE]
  BY <1>1, RestOf
<1> QED
  BY <1>1, <1>2 DEF WellFormed

(* The goroutines of a configuration run on connections held for it, are   *)
(* not cancelled, and are one for each group and one for the re-check.     *)
LEMMA Building ==
  ASSUME NEW c, NEW q, NEW k, Held(q, k), Defs(q) = matchedSources(c),
         "recheck" \notin DOMAIN c.groups
  PROVE  /\ OnlyOn(build(c, q), ConnsOf(q))
         /\ \A t \in build(c, q) : t.live
         /\ AreThoseOf(build(c, q), c, q)
<1> DEFINE used(g) == {q[s.name].conn : s \in Rules(c, g)}
<1>1. DOMAIN q = Names(c)
  BY HeldUnderNames
<1>2. ASSUME NEW g \in DOMAIN c.groups PROVE used(g) \subseteq ConnsOf(q)
  <2> SUFFICES ASSUME NEW s \in Rules(c, g) PROVE q[s.name].conn \in ConnsOf(q)
    OBVIOUS
  <2>1. s.name \in DOMAIN q
    BY <1>1, <1>2 DEF Names, Matched
  <2> QED
    BY <2>1 DEF ConnsOf
<1>3. ASSUME NEW t \in build(c, q)
      PROVE  \/ \E g \in DOMAIN c.groups : t = Task(g, used(g))
             \/ t = Task("recheck", ConnsOf(q))
  BY <1>3 DEF build
<1>4. ASSUME NEW t \in build(c, q)
      PROVE  WellFormed(t) /\ t.conns \subseteq ConnsOf(q) /\ t.live /\ AtRest(t) = t
  <2>1. CASE t = Task("recheck", ConnsOf(q))
    BY <2>1, AtBirth
  <2>2. ASSUME NEW g \in DOMAIN c.groups, t = Task(g, used(g))
        PROVE  WellFormed(t) /\ t.conns \subseteq ConnsOf(q) /\ t.live /\ AtRest(t) = t
    <3> DEFINE on == used(g)
    <3>1. t = Task(g, on) /\ on \subseteq ConnsOf(q)
      BY <1>2, <2>2
    <3> HIDE DEF on
    <3> QED
      BY <3>1, AtBirth
  <2> QED
    BY <1>3, <1>4, <2>1, <2>2
<1>5. ASSUME NEW t \in build(c, q), NEW u \in build(c, q), t.name = u.name PROVE t = u
  <2>1. ASSUME NEW n, NEW on PROVE Task(n, on).name = n
    BY AtBirth
  <2> HIDE DEF used
  <2> QED
    BY <1>3, <1>5, <2>1
<1>6. {AtRest(t) : t \in build(c, q)} = build(c, q)
  BY <1>4
<1> QED
  BY <1>4, <1>5, <1>6 DEF OnlyOn, AreThoseOf

(* Of a configuration that runs, no goroutine has been cancelled. *)
LEMMA AllLive ==
  ASSUME NEW c, NEW q, NEW ts, AreThoseOf(ts, c, q), NEW t \in ts, WellFormed(t)
  PROVE  t.live
<1>1. AtRest(t) \in build(c, q)
  BY DEF AreThoseOf
<1>2. ASSUME NEW n, NEW on PROVE Task(n, on).live
  BY AtBirth
<1>3. AtRest(t).live
  BY <1>1, <1>2 DEF build
<1> QED
  BY <1>3, Resting

(* A goroutine that ticks or returns leaves them those of the configuration. *)
LEMMA Replacing ==
  ASSUME NEW c, NEW q, NEW on, NEW ts, NEW t \in ts, NEW p, NEW us,
         us = (ts \ {t}) \cup {[t EXCEPT !.phase = p]},
         \A u \in ts : WellFormed(u)
  PROVE  /\ \A u \in us : WellFormed(u)
         /\ OnlyOn(ts, on) => OnlyOn(us, on)
         /\ AreThoseOf(ts, c, q) => AreThoseOf(us, c, q)
<1> DEFINE v == [t EXCEPT !.phase = p]
<1>1. WellFormed(v) /\ AtRest(v) = AtRest(t) /\ v.name = t.name /\ v.conns = t.conns
  BY Phased
<1> HIDE DEF v
<1>2. us = (ts \ {t}) \cup {v}
  BY DEF v
<1>3. {AtRest(u) : u \in us} = {AtRest(u) : u \in ts}
  BY <1>1, <1>2
<1>4. (\A u, w \in ts : u.name = w.name => u = w) => \A u, w \in us : u.name = w.name => u = w
  BY <1>1, <1>2
<1> QED
  BY <1>1, <1>2, <1>3, <1>4 DEF OnlyOn, AreThoseOf

(* A cancelled goroutine keeps its connections. *)
LEMMA Cancelling ==
  ASSUME CancelTasks, \A t \in tasks : WellFormed(t), NEW on
  PROVE  (\A t \in tasks' : WellFormed(t)) /\ (OnlyOn(tasks, on) => OnlyOn(tasks', on))
<1>1. ASSUME NEW t \in tasks, NEW u, u = [t EXCEPT !.live = FALSE]
      PROVE  WellFormed(u) /\ u.conns = t.conns
  <2>1. t = [name |-> t.name, conns |-> t.conns, phase |-> t.phase, live |-> t.live]
    BY DEF WellFormed
  <2>2. u = [name |-> t.name, conns |-> t.conns, phase |-> t.phase, live |-> FALSE]
    BY <1>1, <2>1
  <2> QED
    BY <2>2 DEF WellFormed
<1> QED
  BY <1>1 DEF CancelTasks, OnlyOn

-----------------------------------------------------------------------------
(* Configurations.                                                         *)

LEMMA Reading ==
  ASSUME NEW v \in DOMAIN Files
  PROVE  IsConfig(Config[v]) /\ Config[v].version = v
<1>1. Config[v] = load(v)
  BY DEF Config
<1>2. load(v).version = v
  BY DEF load
<1>3. DOMAIN load(v) = ConfigFields
  BY DEF load, ConfigFields
<1> QED
  BY <1>1, <1>2, <1>3 DEF IsConfig

LEMMA Refusing ==
  ASSUME NEW c, IsConfig(c), NEW names, NEW d, d = [c EXCEPT !.refused = names]
  PROVE  IsConfig(d) /\ d.version = c.version
  BY DEF IsConfig, ConfigFields

LEMMA GroupsOf ==
  ASSUME NEW c, IsConfig(c)
  PROVE  IsFiniteSet(DOMAIN c.groups) /\ "recheck" \notin DOMAIN c.groups
<1>1. c.version \in DOMAIN Files /\ c.groups = Config[c.version].groups
  BY DEF IsConfig, ConfigFields
<1>2. DOMAIN load(c.version).groups = DOMAIN Files[c.version].groups
  BY DEF load
<1> QED
  BY <1>1, <1>2, FilesAssumption DEF Config

(* The material of a block that can be delivered to resolved. *)
Clean(a) ==
    \E v \in DOMAIN Files : \E b \in Range(Files[v].alertmanagers) :
        Resolved(b) /\ a.credential = Credential(b) /\ a.tls = AlertmanagerTLS(b)
LEMMA MaterialIsClean ==
  ASSUME NEW c, IsConfig(c), deliverable(c)
  PROVE  Clean(Material(c))
<1> DEFINE v == c.version
           raw == Files[v].alertmanagers
           b == Head(raw)
           read == [sources |-> Files[v].sources, alertmanagers |-> raw]
<1>1. /\ v \in DOMAIN Files
      /\ c.alertmanagers = load(v).alertmanagers /\ c.problems = load(v).problems
  BY DEF IsConfig, ConfigFields, Config
<1>2. c.alertmanagers = parseAlertmanagers(raw)
  BY <1>1 DEF load, loadSources, ParseFile
<1>3. FileProblems(read) \subseteq c.problems
  BY <1>1 DEF load, loadSources
<1>4. raw # <<>> /\ c.alertmanagers = <<parseAlertmanager(b)>>
  BY <1>2 DEF deliverable, parseAlertmanagers
<1>5. b \in Range(raw)
  <2>1. raw \in Seq(Range(raw))
    BY <1>1, FilesAssumption
  <2>2. Len(raw) \in Nat /\ Len(raw) # 0 /\ DOMAIN raw = 1..Len(raw)
    BY <1>4, <2>1, EmptySeq, LenProperties
  <2>3. 1 \in DOMAIN raw /\ b = raw[1]
    BY <2>1, <2>2
  <2> QED
    BY <2>3 DEF Range
<1>6. Findings("", AlertmanagerProblems(b)) \subseteq c.problems
  <2>1. read.alertmanagers = raw
    OBVIOUS
  <2>2. ASSUME NEW f, f.alertmanagers # <<>>
        PROVE  Findings("", AlertmanagerProblems(Head(f.alertmanagers))) \subseteq FileProblems(f)
    BY <2>2 DEF FileProblems
  <2> QED
    BY <1>3, <1>4, <2>1, <2>2
<1>7. ASSUME NEW k \in {"alertmanager/auth", "alertmanager/tls"} PROVE k \notin AlertmanagerProblems(b)
  <2> SUFFICES ASSUME k \in AlertmanagerProblems(b) PROVE FALSE
    OBVIOUS
  <2> DEFINE p == NewProblem("ruler.yaml", "", k, checks[k].severity)
  <2>1. p \in c.problems
    BY <1>6 DEF Findings
  <2>2. p.severity = Error /\ p.check = k
    BY <1>7, TableAssumption DEF NewProblem
  <2> QED
    BY <1>7, <2>1, <2>2, TableAssumption DEF deliverable
<1>8. Resolved(b)
  BY <1>7 DEF Resolved, AlertmanagerProblems, When
<1>9. Material(c).credential = Credential(b) /\ Material(c).tls = AlertmanagerTLS(b)
  <2>1. Head(c.alertmanagers) = parseAlertmanager(b)
    BY <1>4
  <2> QED
    BY <2>1 DEF Material, parseAlertmanager
<1> QED
  BY <1>1, <1>5, <1>8, <1>9 DEF Clean

LEMMA LoadFailsStep ==
  ASSUME IndInv, NEW c, c = Config[disk], LoadFails(c)
  PROVE  IndInv'
<1> USE DEF IndInv, env, loop, holds, sched, conns, http, history, LoadFails, Read, refuse, Leave
<1>1. Control'
  BY DEF Control, Steps, None
<1>2. Loaded'
  BY DEF Control, Loaded, Starting, Changing, Steady, Swapped
<1>3. Connections'
  BY DEF Control, Connections, Starting, Changing, Steady, Swapped
<1>4. Goroutines'
  BY DEF Control, Goroutines, Starting, Changing, Steady, Swapped
<1>5. Current'
  BY DEF Control, Current, Starting, Changing, Steady, Swapped
<1>6. Published'
  BY DEF Published
<1>7. Asked'
  BY Reading DEF Control, Asked, InForce, Starting, Changing, Steady, Swapped
<1>8. DeliveryMaterialClean'
  BY DEF DeliveryMaterialClean
<1> QED
  BY <1>1, <1>2, <1>3, <1>4, <1>5, <1>6, <1>7, <1>8

LEMMA StartUndeliverableStep ==
  ASSUME IndInv, NEW c, c = Config[disk], StartUndeliverable(c)
  PROVE  IndInv'
<1> USE DEF IndInv, env, loop, holds, sched, conns, http, history, StartUndeliverable, Read, Leave
<1>1. Control'
  BY DEF Control, Steps, None
<1>2. Loaded'
  BY DEF Control, Loaded, Starting, Changing, Steady, Swapped
<1>3. Connections'
  BY DEF Control, Connections, Starting, Changing, Steady, Swapped
<1>4. Goroutines'
  BY DEF Control, Goroutines, Starting, Changing, Steady, Swapped
<1>5. Current'
  BY DEF Control, Current, Starting, Changing, Steady, Swapped
<1>6. Published'
  BY DEF Published
<1>7. Asked'
  BY DEF Control, Asked, InForce, Starting, Changing, Steady, Swapped
<1>8. DeliveryMaterialClean'
  BY DEF DeliveryMaterialClean
<1> QED
  BY <1>1, <1>2, <1>3, <1>4, <1>5, <1>6, <1>7, <1>8

LEMMA LoadStep ==
  ASSUME IndInv, NEW c, c = Config[disk], Load(c)
  PROVE  IndInv'
<1> USE DEF IndInv, env, loop, holds, sched, conns, http, history, Load, Read
<1>1. Control'
  BY DEF Control, Steps
<1>2. Loaded'
  BY Reading DEF Control, Loaded, Starting, Changing, Steady, Swapped
<1>3. Connections'
  BY DEF Control, Connections, Starting, Changing, Steady, Swapped
<1>4. Goroutines'
  BY DEF Control, Goroutines, Starting, Changing, Steady, Swapped
<1>5. Current'
  BY DEF Control, Current, Starting, Changing, Steady, Swapped
<1>6. Published'
  BY DEF Published
<1>7. Asked'
  BY Reading DEF Control, Asked, InForce, Starting, Changing, Steady, Swapped
<1>8. DeliveryMaterialClean'
  <2>1. CASE cause = "start"
    <3>1. Clean(am')
      BY <2>1, Reading, MaterialIsClean DEF Control
    <3> QED
      BY <3>1 DEF DeliveryMaterialClean, Clean
  <2>2. CASE cause # "start"
    BY <2>2 DEF DeliveryMaterialClean
  <2> QED
    BY <2>1, <2>2
<1> QED
  BY <1>1, <1>2, <1>3, <1>4, <1>5, <1>6, <1>7, <1>8

LEMMA CheckContractStep ==
  ASSUME IndInv, NEW answers, CheckContract(answers)
  PROVE  IndInv'
<1> USE DEF IndInv, env, loop, holds, sched, conns, http, history, CheckContract
<1>1. Control'
  BY DEF Control, Steps
<1>2. Loaded'
  BY Refusing DEF Control, Loaded, Starting, Changing, Steady, Swapped
<1>3. Connections'
  BY DEF Control, Connections, Starting, Changing, Steady, Swapped
<1>4. Goroutines'
  BY DEF Control, Goroutines, Starting, Changing, Steady, Swapped
<1>5. Current'
  BY DEF Control, Current, Starting, Changing, Steady, Swapped
<1>6. Published'
  BY DEF Published
<1>7. Asked'
  BY DEF Control, Asked, InForce, Starting, Changing, Steady, Swapped
<1>8. DeliveryMaterialClean'
  BY DEF DeliveryMaterialClean
<1> QED
  BY <1>1, <1>2, <1>3, <1>4, <1>5, <1>6, <1>7, <1>8

LEMMA OpenStep ==
  ASSUME IndInv, Open
  PROVE  IndInv'
<1> USE DEF IndInv, env, loop, holds, sched, conns, http, history, Open
<1>1. Control'
  BY DEF Control, Steps
<1>2. Loaded'
  BY DEF Control, Loaded, Starting, Changing, Steady, Swapped
<1>3. Connections'
  <2>1. /\ Held(next', connects') /\ Succeeds(next', queriers')
        /\ open' = ConnsOf(queriers') \cup ConnsOf(next')
    BY Reconciling DEF Connections, Changing
  <2>2. Held(queriers', connects')
    BY DEF Connections, Held
  <2> QED
    BY <2>1, <2>2 DEF Connections, Changing
<1>4. Goroutines'
  BY DEF Control, Goroutines, Starting, Changing, Steady, Swapped
<1>5. Current'
  <2>1. Defs(next') = matchedSources(cfg')
    BY Reconciling DEF Connections
  <2> QED
    BY <2>1 DEF Control, Current, Starting, Changing, Steady, Swapped
<1>6. Published'
  BY DEF Published
<1>7. Asked'
  BY DEF Control, Asked, InForce, Starting, Changing, Steady, Swapped
<1>8. DeliveryMaterialClean'
  BY DEF DeliveryMaterialClean
<1> QED
  BY <1>1, <1>2, <1>3, <1>4, <1>5, <1>6, <1>7, <1>8

LEMMA OpenFailsStep ==
  ASSUME IndInv, OpenFails
  PROVE  IndInv'
<1> USE DEF IndInv, env, loop, holds, sched, conns, http, history, OpenFails, Leave, refuse
<1>1. Control'
  BY DEF Control, Steps, None
<1>2. Loaded'
  BY DEF Control, Loaded, Starting, Changing, Steady, Swapped
<1>3. Connections'
  BY DEF Control, Connections, Starting, Changing, Steady, Swapped
<1>4. Goroutines'
  BY DEF Control, Goroutines, Starting, Changing, Steady, Swapped
<1>5. Current'
  BY DEF Control, Current, Starting, Changing, Steady, Swapped
<1>6. Published'
  BY DEF Published
<1>7. Asked'
  BY DEF Control, Asked, InForce, Starting, Changing, Steady, Swapped
<1>8. DeliveryMaterialClean'
  BY DEF DeliveryMaterialClean
<1> QED
  BY <1>1, <1>2, <1>3, <1>4, <1>5, <1>6, <1>7, <1>8

LEMMA CancelStep ==
  ASSUME IndInv, Cancel
  PROVE  IndInv'
<1> USE DEF IndInv, env, loop, holds, sched, conns, http, history, Cancel
<1>1. Control'
  BY DEF Control, Steps
<1>2. Loaded'
  BY DEF Control, Loaded, Starting, Changing, Steady, Swapped
<1>3. Connections'
  BY DEF Control, Connections, Starting, Changing, Steady, Swapped
<1>4. Goroutines'
  <2>1. \A t \in tasks' : WellFormed(t)
    BY Cancelling DEF Goroutines
  <2>2. OnlyOn(tasks', ConnsOf(queriers'))
    BY Cancelling DEF Goroutines, Control, Swapped
  <2> QED
    BY <2>1, <2>2 DEF Control, Goroutines, Starting, Changing, Steady, Swapped
<1>5. Current'
  BY DEF Control, Current, Starting, Changing, Steady, Swapped
<1>6. Published'
  BY DEF Published
<1>7. Asked'
  BY DEF Control, Asked, InForce, Starting, Changing, Steady, Swapped
<1>8. DeliveryMaterialClean'
  BY DEF DeliveryMaterialClean
<1> QED
  BY <1>1, <1>2, <1>3, <1>4, <1>5, <1>6, <1>7, <1>8

LEMMA SwapStep ==
  ASSUME IndInv, Swap
  PROVE  IndInv'
<1> USE DEF IndInv, env, loop, holds, sched, conns, http, history, Swap
<1>1. Control'
  BY DEF Control, Steps
<1>2. Loaded'
  BY DEF Control, Loaded, Starting, Changing, Steady, Swapped
<1>3. Connections'
  BY DEF Control, Connections, Starting, Changing, Steady, Swapped
<1>4. Goroutines'
  <2>1. OnlyOn(tasks', ConnsOf(next'))
    BY Building, GroupsOf DEF Loaded, Connections, Current, Changing
  <2>2. \A t \in tasks' : WellFormed(t)
    BY <2>1 DEF OnlyOn
  <2> QED
    BY <2>1, <2>2 DEF Control, Goroutines, Starting, Changing, Steady, Swapped
<1>5. Current'
  <2>1. AreThoseOf(tasks', running', next')
    BY Building, GroupsOf DEF Loaded, Connections, Current, Changing
  <2> QED
    BY <2>1 DEF Control, Current, Starting, Changing, Steady, Swapped
<1>6. Published'
  BY DEF Published
<1>7. Asked'
  BY DEF Control, Asked, InForce, Starting, Changing, Steady, Swapped
<1>8. DeliveryMaterialClean'
  BY DEF DeliveryMaterialClean
<1> QED
  BY <1>1, <1>2, <1>3, <1>4, <1>5, <1>6, <1>7, <1>8

LEMMA CloseReplacedStep ==
  ASSUME IndInv, CloseReplaced
  PROVE  IndInv'
<1> USE DEF IndInv, env, loop, holds, sched, conns, http, history, CloseReplaced
<1>1. Control'
  BY DEF Control, Steps
<1>2. Loaded'
  BY DEF Control, Loaded, Starting, Changing, Steady, Swapped
<1>3. Connections'
  <2>1. open' = ConnsOf(next)
    BY Closing DEF Connections, Changing
  <2> QED
    BY <2>1 DEF Control, Connections, Starting, Changing, Steady, Swapped
<1>4. Goroutines'
  BY DEF Control, Goroutines, Starting, Changing, Steady, Swapped
<1>5. Current'
  BY DEF Control, Current, Starting, Changing, Steady, Swapped
<1>6. Published'
  BY DEF Published
<1>7. Asked'
  BY DEF Control, Asked, InForce, Starting, Changing, Steady, Swapped
<1>8. DeliveryMaterialClean'
  BY DEF DeliveryMaterialClean
<1> QED
  BY <1>1, <1>2, <1>3, <1>4, <1>5, <1>6, <1>7, <1>8

LEMMA PublishStep ==
  ASSUME IndInv, Publish
  PROVE  IndInv'
<1> USE DEF IndInv, env, loop, holds, sched, conns, http, history, Publish
<1>1. Control'
  BY DEF Control, Steps
<1>2. Loaded'
  BY DEF Control, Loaded, Starting, Changing, Steady, Swapped
<1>3. Connections'
  BY DEF Control, Connections, Starting, Changing, Steady, Swapped
<1>4. Goroutines'
  BY DEF Control, Goroutines, OnlyOn, Starting, Changing, Steady, Swapped
<1>5. Current'
  <2>1. Defs(queriers') = matchedSources(cfg') /\ info' = cfg'.version
    BY DEF Current, Changing
  <2>2. cause # "start" => running' = cfg'
    BY DEF Loaded, Swapped
  <2>3. cause # "start" /\ ~term' => AreThoseOf(tasks', running', queriers')
    BY DEF Current, Swapped
  <2> QED
    BY <2>1, <2>2, <2>3 DEF Control, Current, Starting, Changing, Steady, Swapped
<1>6. Published'
  <2>1. published'.conns = ConnsOf(queriers') /\ published'.rules = Cardinality(DOMAIN cfg.groups)
    OBVIOUS
  <2>2. ASSUME ConnsOf(next) # {} PROVE Cardinality(DOMAIN cfg.groups) > 0
    <3>1. Names(cfg) # {}
      BY <2>2, HeldUnderNames DEF ConnsOf, Connections, Current, Changing
    <3>2. DOMAIN cfg.groups # {}
      BY <3>1 DEF Names, Matched
    <3>3. IsFiniteSet(DOMAIN cfg.groups)
      BY GroupsOf DEF Loaded, Changing
    <3> QED
      BY <3>2, <3>3, FS_EmptySet, FS_CardinalityType
  <2> QED
    BY <2>1, <2>2 DEF Published
<1>7. Asked'
  BY DEF Control, Asked, InForce, Starting, Changing, Steady, Swapped
<1>8. DeliveryMaterialClean'
  BY DEF DeliveryMaterialClean
<1> QED
  BY <1>1, <1>2, <1>3, <1>4, <1>5, <1>6, <1>7, <1>8

LEMMA StartStep ==
  ASSUME IndInv, Start
  PROVE  IndInv'
<1> USE DEF IndInv, env, loop, holds, sched, conns, http, history, Start
<1>1. Control'
  BY DEF Control, Steps
<1>2. Loaded'
  BY DEF Control, Loaded, Starting, Changing, Steady, Swapped
<1>3. Connections'
  BY DEF Control, Connections, Starting, Changing, Steady, Swapped
<1>4. Goroutines'
  <2>1. OnlyOn(tasks', ConnsOf(queriers'))
    BY Building, GroupsOf DEF Loaded, Connections, Current, Changing
  <2>2. \A t \in tasks' : WellFormed(t)
    BY <2>1 DEF OnlyOn
  <2> QED
    BY <2>1, <2>2 DEF Control, Goroutines, Starting, Changing, Steady, Swapped
<1>5. Current'
  <2>1. AreThoseOf(tasks', running', queriers')
    BY Building, GroupsOf DEF Loaded, Connections, Current, Changing
  <2> QED
    BY <2>1 DEF Control, Current, Starting, Changing, Steady, Swapped
<1>6. Published'
  BY DEF Published
<1>7. Asked'
  BY DEF Control, Asked, InForce, Starting, Changing, Steady, Swapped
<1>8. DeliveryMaterialClean'
  BY DEF DeliveryMaterialClean
<1> QED
  BY <1>1, <1>2, <1>3, <1>4, <1>5, <1>6, <1>7, <1>8

LEMMA RotateStep ==
  ASSUME IndInv, Rotate
  PROVE  IndInv'
<1> USE DEF IndInv, env, loop, holds, sched, conns, http, history, Rotate
<1>1. Control'
  BY DEF Control, Steps
<1>2. Loaded'
  BY DEF Control, Loaded, Starting, Changing, Steady, Swapped
<1>3. Connections'
  BY DEF Control, Connections, Starting, Changing, Steady, Swapped
<1>4. Goroutines'
  BY DEF Control, Goroutines, Starting, Changing, Steady, Swapped
<1>5. Current'
  BY DEF Control, Current, Starting, Changing, Steady, Swapped
<1>6. Published'
  BY DEF Published
<1>7. Asked'
  BY DEF Control, Asked, InForce, Starting, Changing, Steady, Swapped
<1>8. DeliveryMaterialClean'
  <2>1. CASE deliverable(cfg)
    <3>1. Clean(Material(cfg))
      BY <2>1, MaterialIsClean DEF Loaded
    <3>2. am'.credential = Material(cfg).credential /\ am'.tls = Material(cfg).tls
      BY <2>1 DEF Rotated, Material
    <3> QED
      BY <3>1, <3>2 DEF DeliveryMaterialClean, Clean
  <2>2. CASE ~deliverable(cfg)
    BY <2>2 DEF DeliveryMaterialClean, Rotated
  <2> QED
    BY <2>1, <2>2
<1> QED
  BY <1>1, <1>2, <1>3, <1>4, <1>5, <1>6, <1>7, <1>8

LEMMA AnswerStep ==
  ASSUME IndInv, Answer
  PROVE  IndInv'
<1> USE DEF IndInv, env, loop, holds, sched, conns, http, history, Answer, Done
<1>1. Control'
  BY DEF Control, Steps
<1>2. Loaded'
  BY DEF Control, Loaded, Starting, Changing, Steady, Swapped
<1>3. Connections'
  BY DEF Control, Connections, Starting, Changing, Steady, Swapped
<1>4. Goroutines'
  BY DEF Control, Goroutines, Starting, Changing, Steady, Swapped
<1>5. Current'
  BY DEF Control, Current, Starting, Changing, Steady, Swapped
<1>6. Published'
  BY DEF Published
<1>7. Asked'
  BY ClientsAssumption DEF Control, Asked, InForce, Starting, Changing, Steady, Swapped
<1>8. DeliveryMaterialClean'
  BY DEF DeliveryMaterialClean
<1> QED
  BY <1>1, <1>2, <1>3, <1>4, <1>5, <1>6, <1>7, <1>8

LEMMA TakeSignalStep ==
  ASSUME IndInv, TakeSignal
  PROVE  IndInv'
<1> USE DEF IndInv, env, loop, holds, sched, conns, http, history, TakeSignal, Take
<1>1. Control'
  BY DEF Control, Steps
<1>2. Loaded'
  BY DEF Control, Loaded, Starting, Changing, Steady, Swapped
<1>3. Connections'
  BY DEF Control, Connections, Starting, Changing, Steady, Swapped
<1>4. Goroutines'
  BY DEF Control, Goroutines, Starting, Changing, Steady, Swapped
<1>5. Current'
  BY DEF Control, Current, Starting, Changing, Steady, Swapped
<1>6. Published'
  BY DEF Published
<1>7. Asked'
  BY ClientsAssumption DEF Control, Asked, InForce, Starting, Changing, Steady, Swapped
<1>8. DeliveryMaterialClean'
  BY DEF DeliveryMaterialClean
<1> QED
  BY <1>1, <1>2, <1>3, <1>4, <1>5, <1>6, <1>7, <1>8

LEMMA TakeRequestStep ==
  ASSUME IndInv, NEW r \in Clients, TakeRequest(r)
  PROVE  IndInv'
<1> USE DEF IndInv, env, loop, holds, sched, conns, http, history, TakeRequest, Take
<1>1. Control'
  BY DEF Control, Steps
<1>2. Loaded'
  BY DEF Control, Loaded, Starting, Changing, Steady, Swapped
<1>3. Connections'
  BY DEF Control, Connections, Starting, Changing, Steady, Swapped
<1>4. Goroutines'
  BY ClientsAssumption DEF Control, Goroutines, Starting, Changing, Steady, Swapped
<1>5. Current'
  BY DEF Control, Current, Starting, Changing, Steady, Swapped
<1>6. Published'
  BY DEF Published
<1>7. Asked'
  BY DEF Control, Asked, InForce, Starting, Changing, Steady, Swapped
<1>8. DeliveryMaterialClean'
  BY DEF DeliveryMaterialClean
<1> QED
  BY <1>1, <1>2, <1>3, <1>4, <1>5, <1>6, <1>7, <1>8

LEMMA StopStep ==
  ASSUME IndInv, Stop
  PROVE  IndInv'
<1> USE DEF IndInv, env, loop, holds, sched, conns, http, history, Stop
<1>1. Control'
  BY DEF Control, Steps
<1>2. Loaded'
  BY DEF Control, Loaded, Starting, Changing, Steady, Swapped
<1>3. Connections'
  BY DEF Control, Connections, Starting, Changing, Steady, Swapped
<1>4. Goroutines'
  <2>1. \A t \in tasks' : WellFormed(t)
    BY Cancelling DEF Goroutines
  <2>2. OnlyOn(tasks', ConnsOf(queriers'))
    BY Cancelling DEF Goroutines, Control, Swapped
  <2> QED
    BY <2>1, <2>2 DEF Control, Goroutines, Starting, Changing, Steady, Swapped
<1>5. Current'
  BY DEF Control, Current, Starting, Changing, Steady, Swapped
<1>6. Published'
  BY DEF Published
<1>7. Asked'
  BY DEF Control, Asked, InForce, Starting, Changing, Steady, Swapped
<1>8. DeliveryMaterialClean'
  BY DEF DeliveryMaterialClean
<1> QED
  BY <1>1, <1>2, <1>3, <1>4, <1>5, <1>6, <1>7, <1>8

LEMMA StopWaitStep ==
  ASSUME IndInv, StopWait
  PROVE  IndInv'
<1> USE DEF IndInv, env, loop, holds, sched, conns, http, history, StopWait
<1>1. Control'
  BY DEF Control, Steps
<1>2. Loaded'
  BY DEF Control, Loaded, Starting, Changing, Steady, Swapped
<1>3. Connections'
  BY DEF Control, Connections, Starting, Changing, Steady, Swapped
<1>4. Goroutines'
  BY DEF Control, Goroutines, Starting, Changing, Steady, Swapped
<1>5. Current'
  BY DEF Control, Current, Starting, Changing, Steady, Swapped
<1>6. Published'
  BY DEF Published
<1>7. Asked'
  BY DEF Control, Asked, InForce, Starting, Changing, Steady, Swapped
<1>8. DeliveryMaterialClean'
  BY DEF DeliveryMaterialClean
<1> QED
  BY <1>1, <1>2, <1>3, <1>4, <1>5, <1>6, <1>7, <1>8

LEMMA DrainStep ==
  ASSUME IndInv, Drain
  PROVE  IndInv'
<1> USE DEF IndInv, env, loop, holds, sched, conns, http, history, Drain
<1>1. Control'
  BY DEF Control, Steps
<1>2. Loaded'
  BY DEF Control, Loaded, Starting, Changing, Steady, Swapped
<1>3. Connections'
  BY DEF Control, Connections, Starting, Changing, Steady, Swapped
<1>4. Goroutines'
  BY DEF Control, Goroutines, Starting, Changing, Steady, Swapped
<1>5. Current'
  BY DEF Control, Current, Starting, Changing, Steady, Swapped
<1>6. Published'
  BY DEF Published
<1>7. Asked'
  BY DEF Control, Asked, InForce, Starting, Changing, Steady, Swapped
<1>8. DeliveryMaterialClean'
  BY DEF DeliveryMaterialClean
<1> QED
  BY <1>1, <1>2, <1>3, <1>4, <1>5, <1>6, <1>7, <1>8

LEMMA ReturnStep ==
  ASSUME IndInv, Return
  PROVE  IndInv'
<1> USE DEF IndInv, env, loop, holds, sched, conns, http, history, Return
<1>1. Control'
  BY DEF Control, Steps, None
<1>2. Loaded'
  BY DEF Control, Loaded, Starting, Changing, Steady, Swapped
<1>3. Connections'
  BY DEF Control, Connections, Held, Nothing, Starting, Changing, Steady, Swapped
<1>4. Goroutines'
  BY DEF Control, Goroutines, Starting, Changing, Steady, Swapped
<1>5. Current'
  BY DEF Control, Current, Starting, Changing, Steady, Swapped
<1>6. Published'
  BY DEF Published
<1>7. Asked'
  BY DEF Control, Asked, InForce, Starting, Changing, Steady, Swapped
<1>8. DeliveryMaterialClean'
  BY DEF DeliveryMaterialClean
<1> QED
  BY <1>1, <1>2, <1>3, <1>4, <1>5, <1>6, <1>7, <1>8

LEMMA PostStep ==
  ASSUME IndInv, NEW r \in Clients, Post(r)
  PROVE  IndInv'
<1> USE DEF IndInv, env, loop, holds, sched, conns, http, history, Post, Handler
<1>1. Control'
  BY DEF Control, Steps
<1>2. Loaded'
  BY DEF Control, Loaded, Starting, Changing, Steady, Swapped
<1>3. Connections'
  BY DEF Control, Connections, Starting, Changing, Steady, Swapped
<1>4. Goroutines'
  BY DEF Control, Goroutines, Starting, Changing, Steady, Swapped
<1>5. Current'
  BY DEF Control, Current, Starting, Changing, Steady, Swapped
<1>6. Published'
  BY DEF Published
<1>7. Asked'
  BY DEF Control, Asked, InForce, Starting, Changing, Steady, Swapped
<1>8. DeliveryMaterialClean'
  BY DEF DeliveryMaterialClean
<1> QED
  BY <1>1, <1>2, <1>3, <1>4, <1>5, <1>6, <1>7, <1>8

LEMMA HangUpStep ==
  ASSUME IndInv, NEW r \in Clients, HangUp(r)
  PROVE  IndInv'
<1> USE DEF IndInv, env, loop, holds, sched, conns, http, history, HangUp, Handler
<1>1. Control'
  BY DEF Control, Steps
<1>2. Loaded'
  BY DEF Control, Loaded, Starting, Changing, Steady, Swapped
<1>3. Connections'
  BY DEF Control, Connections, Starting, Changing, Steady, Swapped
<1>4. Goroutines'
  BY DEF Control, Goroutines, Starting, Changing, Steady, Swapped
<1>5. Current'
  BY DEF Control, Current, Starting, Changing, Steady, Swapped
<1>6. Published'
  BY DEF Published
<1>7. Asked'
  BY DEF Control, Asked, InForce, Starting, Changing, Steady, Swapped
<1>8. DeliveryMaterialClean'
  BY DEF DeliveryMaterialClean
<1> QED
  BY <1>1, <1>2, <1>3, <1>4, <1>5, <1>6, <1>7, <1>8

LEMMA ReceiveStep ==
  ASSUME IndInv, NEW r \in Clients, Receive(r)
  PROVE  IndInv'
<1> USE DEF IndInv, env, loop, holds, sched, conns, http, history, Receive, Handler
<1>1. Control'
  BY DEF Control, Steps
<1>2. Loaded'
  BY DEF Control, Loaded, Starting, Changing, Steady, Swapped
<1>3. Connections'
  BY DEF Control, Connections, Starting, Changing, Steady, Swapped
<1>4. Goroutines'
  BY DEF Control, Goroutines, Starting, Changing, Steady, Swapped
<1>5. Current'
  BY DEF Control, Current, Starting, Changing, Steady, Swapped
<1>6. Published'
  BY DEF Published
<1>7. Asked'
  BY DEF Control, Asked, InForce, Starting, Changing, Steady, Swapped
<1>8. DeliveryMaterialClean'
  BY DEF DeliveryMaterialClean
<1> QED
  BY <1>1, <1>2, <1>3, <1>4, <1>5, <1>6, <1>7, <1>8

LEMMA EditStep ==
  ASSUME IndInv, NEW v \in DOMAIN Files, Edit(v)
  PROVE  IndInv'
<1> USE DEF IndInv, env, loop, holds, sched, conns, http, history, Edit
<1>1. Control'
  BY DEF Control, Steps
<1>2. Loaded'
  BY DEF Control, Loaded, Starting, Changing, Steady, Swapped
<1>3. Connections'
  BY DEF Control, Connections, Starting, Changing, Steady, Swapped
<1>4. Goroutines'
  BY DEF Control, Goroutines, Starting, Changing, Steady, Swapped
<1>5. Current'
  BY DEF Control, Current, Starting, Changing, Steady, Swapped
<1>6. Published'
  BY DEF Published
<1>7. Asked'
  BY DEF Control, Asked, InForce, Starting, Changing, Steady, Swapped
<1>8. DeliveryMaterialClean'
  BY DEF DeliveryMaterialClean
<1> QED
  BY <1>1, <1>2, <1>3, <1>4, <1>5, <1>6, <1>7, <1>8

LEMMA SendHupStep ==
  ASSUME IndInv, SendHup
  PROVE  IndInv'
<1> USE DEF IndInv, env, loop, holds, sched, conns, http, history, SendHup
<1>1. Control'
  BY DEF Control, Steps
<1>2. Loaded'
  BY DEF Control, Loaded, Starting, Changing, Steady, Swapped
<1>3. Connections'
  BY DEF Control, Connections, Starting, Changing, Steady, Swapped
<1>4. Goroutines'
  BY DEF Control, Goroutines, Starting, Changing, Steady, Swapped
<1>5. Current'
  BY DEF Control, Current, Starting, Changing, Steady, Swapped
<1>6. Published'
  BY DEF Published
<1>7. Asked'
  BY DEF Control, Asked, InForce, Starting, Changing, Steady, Swapped
<1>8. DeliveryMaterialClean'
  BY DEF DeliveryMaterialClean
<1> QED
  BY <1>1, <1>2, <1>3, <1>4, <1>5, <1>6, <1>7, <1>8

LEMMA SendTermStep ==
  ASSUME IndInv, SendTerm
  PROVE  IndInv'
<1> USE DEF IndInv, env, loop, holds, sched, conns, http, history, SendTerm
<1>1. Control'
  BY DEF Control, Steps
<1>2. Loaded'
  BY DEF Control, Loaded, Starting, Changing, Steady, Swapped
<1>3. Connections'
  BY DEF Control, Connections, Starting, Changing, Steady, Swapped
<1>4. Goroutines'
  BY DEF Control, Goroutines, Starting, Changing, Steady, Swapped
<1>5. Current'
  BY DEF Control, Current, Starting, Changing, Steady, Swapped
<1>6. Published'
  BY DEF Published
<1>7. Asked'
  BY DEF Control, Asked, InForce, Starting, Changing, Steady, Swapped
<1>8. DeliveryMaterialClean'
  BY DEF DeliveryMaterialClean
<1> QED
  BY <1>1, <1>2, <1>3, <1>4, <1>5, <1>6, <1>7, <1>8

(* A goroutine ticks, returns from an evaluation, or ends.                 *)
LEMMA PhaseStep ==
  ASSUME IndInv, NEW t \in tasks, NEW p, Become(t, {[t EXCEPT !.phase = p]})
  PROVE  IndInv'
<1> USE DEF IndInv, env, loop, holds, sched, conns, http, history, Become
<1>0. /\ \A u \in tasks' : WellFormed(u)
      /\ \A on : OnlyOn(tasks, on) => OnlyOn(tasks', on)
      /\ \A c, q : AreThoseOf(tasks, c, q) => AreThoseOf(tasks', c, q)
  <2>1. tasks' = (tasks \ {t}) \cup {[t EXCEPT !.phase = p]} /\ \A u \in tasks : WellFormed(u)
    BY DEF Goroutines
  <2>2. ASSUME NEW on, NEW c, NEW q
        PROVE  /\ \A u \in tasks' : WellFormed(u)
               /\ OnlyOn(tasks, on) => OnlyOn(tasks', on)
               /\ AreThoseOf(tasks, c, q) => AreThoseOf(tasks', c, q)
    BY <2>1, Replacing, Zenon
  <2> QED
    BY <2>2, Zenon
<1>1. Control'
  BY DEF Control, Steps
<1>2. Loaded'
  BY DEF Control, Loaded, Starting, Changing, Steady, Swapped
<1>3. Connections'
  BY DEF Control, Connections, Starting, Changing, Steady, Swapped
<1>4. Goroutines'
  BY <1>0 DEF Control, Goroutines, Starting, Changing, Steady, Swapped
<1>5. Current'
  BY <1>0 DEF Control, Current, Starting, Changing, Steady, Swapped
<1>6. Published'
  BY DEF Published
<1>7. Asked'
  BY DEF Control, Asked, InForce, Starting, Changing, Steady, Swapped
<1>8. DeliveryMaterialClean'
  BY DEF DeliveryMaterialClean
<1> QED
  BY <1>1, <1>2, <1>3, <1>4, <1>5, <1>6, <1>7, <1>8

LEMMA TaskExitsStep ==
  ASSUME IndInv, NEW t \in tasks, TaskExits(t)
  PROVE  IndInv'
<1> USE DEF IndInv, env, loop, holds, sched, conns, http, history, Become, TaskExits
<1>0. ASSUME ~term PROVE ~Steady /\ ~Swapped
  <2>1. WellFormed(t) /\ ~t.live
    BY <1>0 DEF Goroutines
  <2>2. \A c, q : ~AreThoseOf(tasks, c, q)
    BY <2>1, AllLive
  <2> QED
    BY <1>0, <2>2 DEF Current
<1>1. Control'
  BY DEF Control, Steps
<1>2. Loaded'
  BY DEF Control, Loaded, Starting, Changing, Steady, Swapped
<1>3. Connections'
  BY DEF Control, Connections, Starting, Changing, Steady, Swapped
<1>4. Goroutines'
  BY DEF Control, Goroutines, OnlyOn, Starting, Changing, Steady, Swapped
<1>5. Current'
  BY <1>0 DEF Control, Current, Starting, Changing, Steady, Swapped
<1>6. Published'
  BY DEF Published
<1>7. Asked'
  BY DEF Control, Asked, InForce, Starting, Changing, Steady, Swapped
<1>8. DeliveryMaterialClean'
  BY DEF DeliveryMaterialClean
<1> QED
  BY <1>1, <1>2, <1>3, <1>4, <1>5, <1>6, <1>7, <1>8

LEMMA Initially ==
  ASSUME Init
  PROVE  IndInv
<1> USE DEF Init, Nothing
<1>1. Control
  BY DEF Control, Steps, None
<1>2. Loaded
  BY DEF Loaded, Starting, Changing, Swapped
<1>3. Connections
  BY DEF Connections, Held, ConnsOf, Changing
<1>4. Goroutines
  BY DEF Goroutines, OnlyOn, Swapped
<1>5. Current
  BY DEF Current, Starting, Changing, Steady, Swapped
<1>6. Published
  BY DEF Published, NoState, ConnsOf
<1>7. Asked
  BY ClientsAssumption DEF Asked, Changing
<1>8. DeliveryMaterialClean
  BY DEF DeliveryMaterialClean
<1> QED
  BY <1>1, <1>2, <1>3, <1>4, <1>5, <1>6, <1>7, <1>8 DEF IndInv

LEMMA Unmoved ==
  ASSUME IndInv, UNCHANGED vars
  PROVE  IndInv'
<1> USE DEF IndInv, vars, env, loop, holds, sched, conns, http, history
<1>1. Control'
  BY DEF Control, Steps
<1>2. Loaded'
  BY DEF Control, Loaded, Starting, Changing, Steady, Swapped
<1>3. Connections'
  BY DEF Control, Connections, Starting, Changing, Steady, Swapped
<1>4. Goroutines'
  BY DEF Control, Goroutines, Starting, Changing, Steady, Swapped
<1>5. Current'
  BY DEF Control, Current, Starting, Changing, Steady, Swapped
<1>6. Published'
  BY DEF Published
<1>7. Asked'
  BY DEF Control, Asked, InForce, Starting, Changing, Steady, Swapped
<1>8. DeliveryMaterialClean'
  BY DEF DeliveryMaterialClean
<1> QED
  BY <1>1, <1>2, <1>3, <1>4, <1>5, <1>6, <1>7, <1>8

-----------------------------------------------------------------------------
(* The invariant holds of every behaviour.                                 *)
THEOREM AlwaysIndInv == Spec => []IndInv
<1>1. Init => IndInv
  BY Initially
<1>2. IndInv /\ [Next]_vars => IndInv'
  <2> SUFFICES ASSUME IndInv, [Next]_vars PROVE IndInv'
    OBVIOUS
  <2>1. CASE Loop
    <3>1. ASSUME NEW c \in {Config[disk]}, LoadFails(c) \/ StartUndeliverable(c) \/ Load(c)
          PROVE  IndInv'
      BY <3>1, LoadFailsStep, StartUndeliverableStep, LoadStep
    <3>2. ASSUME NEW answers, CheckContract(answers) PROVE IndInv'
      BY <3>2, CheckContractStep
    <3>3. CASE Open \/ OpenFails \/ Cancel \/ Swap \/ CloseReplaced \/ Publish \/ Start
      BY <3>3, OpenStep, OpenFailsStep, CancelStep, SwapStep, CloseReplacedStep, PublishStep, StartStep
    <3>4. CASE Rotate \/ Answer \/ TakeSignal \/ \E r \in Clients : TakeRequest(r)
      BY <3>4, RotateStep, AnswerStep, TakeSignalStep, TakeRequestStep
    <3>5. CASE Shutdown
      BY <3>5, StopStep, StopWaitStep, DrainStep, ReturnStep DEF Shutdown
    <3> QED
      BY <2>1, <3>1, <3>2, <3>3, <3>4, <3>5 DEF Loop, Reload
  <2>2. ASSUME NEW r \in Clients, Post(r) \/ HangUp(r) \/ Receive(r) PROVE IndInv'
    BY <2>2, PostStep, HangUpStep, ReceiveStep
  <2>3. ASSUME NEW t \in tasks, Tick(t) \/ EvalReturns(t) \/ TaskExits(t) PROVE IndInv'
    BY <2>3, PhaseStep, TaskExitsStep DEF Tick, EvalReturns
  <2>4. ASSUME NEW v \in DOMAIN Files, Edit(v) PROVE IndInv'
    BY <2>4, EditStep
  <2>5. CASE SendHup \/ SendTerm
    BY <2>5, SendHupStep, SendTermStep
  <2>6. CASE UNCHANGED vars
    BY <2>6, Unmoved
  <2> QED
    BY <2>1, <2>2, <2>3, <2>4, <2>5, <2>6 DEF Next
<1> QED
  BY <1>1, <1>2, PTL DEF Spec

(* No evaluation ever runs on a connection that a reload or the return of  *)
(* the run loop has closed, unless Shutdown gave up waiting for it.        *)
THEOREM NoClosedConnection == Spec => []NoUseAfterClose
<1>1. IndInv => NoUseAfterClose
  <2> SUFFICES ASSUME IndInv, NEW t \in tasks, ~timedOut PROVE t.conns \subseteq open
    BY DEF NoUseAfterClose
  <2>1. pc # "exit" /\ ~Starting
    BY DEF IndInv, Goroutines
  <2> QED
    BY <2>1 DEF IndInv, Control, Connections, Goroutines, OnlyOn, Starting, Changing, Swapped
<1> QED
  BY <1>1, AlwaysIndInv, PTL

(* Between reloads one configuration runs, whole, on the connections that  *)
(* are open, and readiness asks only connections that are.                 *)
THEOREM OneConfiguration == Spec => []RunningIsCurrent
<1>1. IndInv => RunningIsCurrent
  <2> SUFFICES ASSUME IndInv PROVE RunningIsCurrent
    OBVIOUS
  <2>1. ASSUME pc = "select", ~term
        PROVE  /\ running.version = info
               /\ {queriers[n].def : n \in DOMAIN queriers} = matchedSources(running)
               /\ open = ConnsOf(queriers)
               /\ {[t EXCEPT !.phase = "waiting"] : t \in tasks} = build(running, queriers)
               /\ \A t, u \in tasks : t.name = u.name => t = u
    <3>1. Steady /\ ~Changing
      BY <2>1 DEF Steady, Starting, Changing
    <3>2. AreThoseOf(tasks, running, queriers)
      BY <2>1, <3>1 DEF IndInv, Current
    <3>3. {[t EXCEPT !.phase = "waiting"] : t \in tasks} = build(running, queriers)
      BY <3>2, Zenon DEF AreThoseOf, AtRest
    <3>4. \A t, u \in tasks : t.name = u.name => t = u
      BY <3>2, Zenon DEF AreThoseOf
    <3>5. Defs(queriers) = matchedSources(running) /\ running.version = info
      BY <3>1 DEF IndInv, Current
    <3>6. open = ConnsOf(queriers)
      BY <2>1, <3>1 DEF IndInv, Connections
    <3> QED
      BY <3>3, <3>4, <3>5, <3>6, Zenon DEF Defs
  <2>2. ASSUME Serving, pc # "publish", NEW c \in published.conns PROVE readiness(published, {c})
    <3>1. pc # "exit"
      BY <2>2 DEF IndInv, Control, Serving
    <3>2. published.conns \subseteq open
      BY <2>2, <3>1 DEF IndInv, Published, Connections, Changing
    <3> QED
      BY <2>2, <3>2 DEF IndInv, Published, readiness
  <2> QED
    BY <2>1, <2>2, Zenon DEF RunningIsCurrent
<1> QED
  BY <1>1, AlwaysIndInv, PTL

(* A reload that answers that it was refused changed nothing; one that     *)
(* answers that it succeeded put in force files that were on disk after it *)
(* was asked for, without the sources the source gauge reports at error.   *)
THEOREM TruthfulReload == Spec => []ReloadTellsTheTruth
<1>1. IndInv => ReloadTellsTheTruth
  BY DEF IndInv, ReloadTellsTheTruth, Asked, Loaded, Connections, Changing
<1> QED
  BY <1>1, AlwaysIndInv, PTL

(* The credential and the TLS material alerts are sent with all resolved.  *)
THEOREM CleanMaterial == Spec => []DeliveryMaterialClean
<1>1. IndInv => DeliveryMaterialClean
  BY DEF IndInv
<1> QED
  BY <1>1, AlwaysIndInv, PTL

(* No version of the files names two sources alike: what source/name asks  *)
(* for, and a ruler that runs does not insist on.                          *)
NamesDistinct ==
    \A v \in DOMAIN Files : \A i, j \in 1..Len(Files[v].sources) :
        Files[v].sources[i].name = Files[v].sources[j].name => i = j

LEMMA OnePerName ==
  ASSUME NamesDistinct, NEW c, IsConfig(c)
  PROVE  Matched(c) \subseteq matchedSources(c)
<1> DEFINE v == c.version
           written == Files[v].sources
           parsed == {parseSource(written[i]) : i \in 1..Len(written)}
<1>1. v \in DOMAIN Files /\ c.groups = load(v).groups
  BY DEF IsConfig, ConfigFields, Config
<1>2. load(v).groups = [g \in DOMAIN Files[v].groups |-> Match(parsed, Files[v].groups[g])]
  BY DEF load, loadSources, ParseFile
<1>3. ASSUME NEW g \in DOMAIN c.groups PROVE c.groups[g] \subseteq parsed
  <2>1. c.groups[g] = Match(parsed, Files[v].groups[g])
    BY <1>1, <1>2, <1>3
  <2> HIDE DEF parsed
  <2> QED
    BY <2>1 DEF Match
<1>4. Matched(c) \subseteq parsed
  BY <1>3 DEF Matched, Rules
<1>5. ASSUME NEW s \in parsed, NEW u \in parsed, s.name = u.name PROVE s = u
  <2>1. PICK i \in 1..Len(written) : s = parseSource(written[i])
    OBVIOUS
  <2>2. PICK j \in 1..Len(written) : u = parseSource(written[j])
    OBVIOUS
  <2>3. written[i].name = written[j].name
    BY <1>5, <2>1, <2>2 DEF parseSource
  <2> QED
    BY <1>1, <2>1, <2>2, <2>3 DEF NamesDistinct
<1> HIDE DEF parsed
<1> SUFFICES ASSUME NEW s \in Matched(c) PROVE s \in matchedSources(c)
  OBVIOUS
<1>6. s.name \in Names(c)
  BY DEF Names
<1>7. s = Named(c, s.name)
  BY <1>4, <1>5, <1>6, NamedMatches
<1> QED
  BY <1>6, <1>7 DEF matchedSources

(* A rule runs where its selector says: between reloads every source that  *)
(* a rule of the running configuration matched, and the contract did not   *)
(* refuse, is connected to as it is defined.                               *)
SelectedSourcesRun ==
    (pc = "select" /\ ~term) => Matched(running) \subseteq {queriers[n].def : n \in DOMAIN queriers}

(* A rule runs against every source it selects, unless two of them share   *)
(* a name.                                                                 *)
THEOREM SelectionRuns == NamesDistinct /\ Spec => []SelectedSourcesRun
<1>1. CASE NamesDistinct
  <2>1. IndInv => SelectedSourcesRun
    <3> SUFFICES ASSUME IndInv, pc = "select", ~term
                 PROVE  Matched(running) \subseteq {queriers[n].def : n \in DOMAIN queriers}
      BY DEF SelectedSourcesRun
    <3>1. Steady /\ IsConfig(running)
      BY DEF IndInv, Loaded, Steady, Starting
    <3>2. Defs(queriers) = matchedSources(running)
      BY <3>1 DEF IndInv, Current
    <3> QED
      BY <1>1, <3>1, <3>2, OnePerName DEF Defs
  <2> QED
    BY <2>1, AlwaysIndInv, PTL
<1>2. CASE ~NamesDistinct
  BY <1>2
<1> QED
  BY <1>1, <1>2
=============================================================================
