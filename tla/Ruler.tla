------------------------------- MODULE Ruler -------------------------------
(***************************************************************************)
(* `ruler run` (cmd/ruler: run.go, reload.go, alertmanager.go) around the  *)
(* scheduler's lifecycle (Start, Reload, Shutdown of scheduler.go) and the *)
(* HTTP surface (http.go): one goroutine that starts the ruler, serves one *)
(* reload at a time and shuts down; the goroutines of the groups and of    *)
(* the re-check pass, which use the connections a reload replaces; the     *)
(* handlers of reload requests and readiness probes; and an operator who   *)
(* edits files, sends SIGHUP and ends the process.                         *)
(*                                                                         *)
(* A version of the files is what their author wrote: [readable, tree,     *)
(* groups, sources, alertmanagers, root], with the checks the rules tree   *)
(* raises, the selector of each group, the entries of ruler.yaml as in     *)
(* Sources, and the instance policy.  A connection is named by its source  *)
(* and the connect that opened it.                                         *)
(***************************************************************************)
EXTENDS Contract

CONSTANTS
    Files,       \* version -> what the files say
    Answers,     \* what a source may answer the contract check
    Clients,     \* reload requests over HTTP
    Recheck,     \* whether a re-check interval is configured
    MaxEdits,    \* bound: edits of the files
    MaxSignals   \* bound: SIGHUPs sent

VARIABLES
    disk, edits,           \* the version on disk
    hup, signals, term,    \* the signal channel, and whether ctx is done
    pc, cause, cfg,        \* the run loop: its step, who asked, what was read
    next, outcome,
    queriers, published,   \* the runner: held connections, readyState
    info, lastOk, am,      \* ConfigInfo, the reload gauge, the endpoints
    sourceProblem,         \* the source gauge: what the last contract check found
    tasks, running,        \* the scheduler: goroutines, the configuration
    open, connects,        \* connections open, connects made
    req, answer,           \* HTTP handlers of reload requests
    timedOut, exit,
    wanted, before, seen   \* history

env == <<disk, edits, hup, signals, term>>
loop == <<pc, cause, cfg, next, outcome>>
holds == <<queriers, published, info, sourceProblem, am>>
sched == <<tasks, running>>
conns == <<open, connects>>
http == <<req, answer>>
history == <<wanted, before, seen>>
vars == <<env, loop, holds, lastOk, sched, conns, http, timedOut, exit, history>>

Nothing == [x \in {} |-> {}]
None == "none"
NoState == [rules |-> 0, conns |-> {}]

(* A tree holds finitely many groups, none of which is the re-check pass,  *)
(* and the alertmanagers are a list; a client is no other cause of a load. *)
ASSUME FilesAssumption ==
    \A v \in DOMAIN Files :
        /\ IsFiniteSet(DOMAIN Files[v].groups) /\ "recheck" \notin DOMAIN Files[v].groups
        /\ Files[v].alertmanagers \in Seq(Range(Files[v].alertmanagers))
(* What the table of checks says of an alertmanagers block that does not   *)
(* resolve: a closed fact about the table.                                 *)
ASSUME TableAssumption ==
    \A c \in {"alertmanager/auth", "alertmanager/tls"} :
        checks[c].severity = Error /\ c \in DOMAIN AlertmanagerChecks \ {"alertmanager/tls-insecure"}
ASSUME ClientsAssumption == Clients \cap {"start", "signal", None} = {}

-----------------------------------------------------------------------------
(* runner.load: the findings of ruler.yaml and of the rules tree, and the  *)
(* sources each group's rules match.  A configuration is what one version  *)
(* of the files loads as, and the sources refused in it.                   *)
load(v) ==
    LET f == Files[v]
        yaml == loadSources([sources |-> f.sources, alertmanagers |-> f.alertmanagers], 0) IN
    [version |-> v, refused |-> {}, readable |-> f.readable, root |-> f.root,
     groups |-> [g \in DOMAIN f.groups |-> Match(yaml.file.sources, f.groups[g])],
     alertmanagers |-> yaml.file.alertmanagers,
     problems |-> yaml.problems
                  \union {NewProblem("rules", "", c, checks[c].severity) : c \in f.tree}]
Config == [v \in DOMAIN Files |-> load(v)]
NoConfig == [version |-> None, refused |-> {}, groups |-> Nothing]

refused(c) == \E p \in c.problems : RefusesReading(p.check)
deliverable(c) ==
    /\ ~\E p \in c.problems : /\ p.severity = Error
                              /\ p.check \in DOMAIN AlertmanagerChecks \ {"alertmanager/tls-insecure"}
    /\ c.alertmanagers # <<>> /\ Head(c.alertmanagers).urls # <<>>

(* The sources the rules of a group run against, and those of any group.   *)
Rules(c, g) == {s \in c.groups[g] : s.name \notin c.refused}
Matched(c) == UNION {Rules(c, g) : g \in DOMAIN c.groups}
(* matchedSources: one source of each name, the first that a rule reaches, *)
(* which is any of them here.                                              *)
Names(c) == {s.name : s \in Matched(c)}
Named(c, n) == CHOOSE s \in Matched(c) : s.name = n
matchedSources(c) == {Named(c, n) : n \in Names(c)}

(* Mutant: a connection is kept by the name of its source. *)
ReusableByName(s) == s.name \in DOMAIN queriers
(* connect's reconciliation: a held connection stays if its whole          *)
(* definition is unchanged.                                                *)
Reusable(s) == s.name \in DOMAIN queriers /\ queriers[s.name].def = s
Needed(c) == {s \in matchedSources(c) : ~Reusable(s)}
Reconciled(c) ==
    [n \in Names(c) |-> IF Reusable(Named(c, n)) THEN queriers[n]
                        ELSE [conn |-> <<n, connects + 1>>, def |-> Named(c, n)]]
ConnsOf(q) == {q[n].conn : n \in DOMAIN q}

(* Scheduler.build and recheckSpec: one goroutine per group, matched or    *)
(* not, and one for the re-check pass when any rule matched.               *)
Task(name, used) == [name |-> name, conns |-> used, phase |-> "waiting", live |-> TRUE]
build(c, q) ==
    {Task(g, {q[s.name].conn : s \in Rules(c, g)}) : g \in DOMAIN c.groups}
    \union (IF Recheck /\ matchedSources(c) # {} THEN {Task("recheck", ConnsOf(q))} ELSE {})

-----------------------------------------------------------------------------
Init ==
    /\ disk \in DOMAIN Files /\ edits = 0
    /\ hup = FALSE /\ signals = 0 /\ term = FALSE
    /\ pc = "load" /\ cause = "start" /\ outcome = None
    /\ cfg = NoConfig /\ next = Nothing
    /\ queriers = Nothing /\ published = NoState /\ info = None /\ lastOk = FALSE
    /\ am = Nothing /\ sourceProblem = {}
    /\ tasks = {} /\ running = cfg
    /\ open = {} /\ connects = 0
    /\ req = [r \in Clients |-> "idle"] /\ answer = [r \in Clients |-> None]
    /\ timedOut = FALSE /\ exit = None
    /\ wanted = FALSE /\ before = <<>> /\ seen = [r \in Clients |-> {}]

(* What a refused reload has to leave as it was.                           *)
InForce == <<running, queriers, published, info, am>>

-----------------------------------------------------------------------------
(* The run loop.                                                           *)

Leave(code) == pc' = "exit" /\ exit' = code /\ UNCHANGED <<outcome, lastOk>>

(* refuse: the gauge says so, and whoever asked is told.                   *)
refuse == pc' = "answer" /\ outcome' = "refused" /\ lastOk' = FALSE /\ UNCHANGED exit

(* load, of the version on disk, and the refusals before anything is       *)
(* opened.                                                                 *)
Read(c) == pc = "load" /\ wanted' = FALSE /\ cfg' = c
LoadFails(c) ==
    /\ Read(c)
    /\ ~c.readable \/ refused(c)
    /\ IF cause # "start" THEN refuse ELSE Leave(IF c.readable THEN "exitFinding" ELSE "exitUsage")
    /\ UNCHANGED <<env, cause, next, holds, sched, conns, http, timedOut, before, seen>>
StartUndeliverable(c) ==
    /\ Read(c)
    /\ c.readable /\ ~refused(c)
    /\ cause = "start" /\ ~deliverable(c)
    /\ Leave("exitUsage")
    /\ UNCHANGED <<env, cause, next, holds, sched, conns, http, timedOut, before, seen>>

(* A start also builds the endpoints, from the block just read.            *)
Material(c) == LET a == Head(c.alertmanagers) IN [urls |-> a.urls, credential |-> a.credential, tls |-> a.tls]
Load(c) ==
    /\ Read(c)
    /\ c.readable /\ ~refused(c)
    /\ cause = "start" => deliverable(c)
    /\ am' = IF cause = "start" THEN Material(c) ELSE am
    /\ pc' = "contract"
    /\ UNCHANGED <<env, cause, next, outcome, queriers, published, info, sourceProblem, lastOk,
                   sched, conns, http, timedOut, exit, before, seen>>

(* connect, first: the contract check, and the sources it refuses dropped  *)
(* from every rule.  A check whose context is done learns nothing.  What   *)
(* was found replaces what the source gauge said, whether or not the       *)
(* reload is refused after it.                                             *)
CheckContract(answers) ==
    LET problems == checkPrivileges(matchedSources(cfg), cfg.root, answers) IN
    /\ pc = "contract"
    /\ term => \A n \in DOMAIN answers : ~answers[n].opens
    /\ sourceProblem' = problems
    /\ cfg' = [cfg EXCEPT !.refused = refusedSources(problems)]
    /\ pc' = "open"
    /\ UNCHANGED <<env, cause, next, outcome, queriers, published, info, am, lastOk, sched, conns, http, timedOut, exit, history>>

(* connect, then: every connection the configuration needs and does not    *)
(* hold.  One that cannot be opened closes the others.                     *)
Open ==
    /\ pc = "open"
    /\ next' = Reconciled(cfg)
    /\ open' = open \union {<<s.name, connects + 1>> : s \in Needed(cfg)}
    /\ connects' = connects + 1
    /\ pc' = IF cause = "start" THEN "close" ELSE "cancel"
    /\ UNCHANGED <<env, cause, cfg, outcome, holds, lastOk, sched, http, timedOut, exit, history>>

(* Mutant: the connections held are replaced while the new ones are opened. *)
OpenFailsHalfway ==
    /\ pc = "open" /\ Needed(cfg) # {}
    /\ queriers' = [n \in DOMAIN queriers \ {s.name : s \in Needed(cfg)} |-> queriers[n]]
    /\ IF cause = "start" THEN Leave("exitRun") ELSE refuse
    /\ UNCHANGED <<env, cause, cfg, next, published, info, sourceProblem, am, sched, conns, http,
                   timedOut, history>>
OpenFails ==
    /\ pc = "open" /\ Needed(cfg) # {}
    /\ IF cause = "start" THEN Leave("exitRun") ELSE refuse
    /\ UNCHANGED <<env, cause, cfg, next, holds, sched, conns, http, timedOut, history>>

(* Scheduler.Reload: cancel, wait for every goroutine, build, start.       *)
CancelTasks == tasks' = {[t EXCEPT !.live = FALSE] : t \in tasks}
Cancel ==
    /\ pc = "cancel" /\ pc' = "wait"
    /\ CancelTasks
    /\ UNCHANGED <<env, cause, cfg, next, outcome, holds, lastOk, running, conns, http,
                   timedOut, exit, history>>
(* Mutant: the new configuration starts without waiting for the old. *)
SwapAtOnce ==
    /\ pc = "wait" /\ pc' = "close"
    /\ tasks' = tasks \union build(cfg, next)
    /\ running' = cfg
    /\ UNCHANGED <<env, cause, cfg, next, outcome, holds, lastOk, conns, http,
                   timedOut, exit, history>>
Swap ==
    /\ pc = "wait" /\ tasks = {}
    /\ pc' = "close"
    /\ tasks' = build(cfg, next)
    /\ running' = cfg
    /\ UNCHANGED <<env, cause, cfg, next, outcome, holds, lastOk, conns, http,
                   timedOut, exit, history>>

(* connect, last: close what is left over, then publish.                   *)
CloseReplaced ==
    /\ pc = "close" /\ pc' = "publish"
    /\ open' = open \ {queriers[n].conn : n \in {x \in DOMAIN queriers :
                                                   x \notin DOMAIN next \/ next[x] # queriers[x]}}
    /\ UNCHANGED <<env, cause, cfg, next, outcome, holds, lastOk, sched, connects, http,
                   timedOut, exit, history>>
Publish ==
    /\ pc = "publish"
    /\ queriers' = next /\ next' = Nothing
    /\ published' = [rules |-> Cardinality(DOMAIN cfg.groups), conns |-> ConnsOf(next)]
    /\ info' = cfg.version /\ lastOk' = TRUE
    /\ pc' = IF cause = "start" THEN "start" ELSE "rotate"
    /\ UNCHANGED <<env, cause, cfg, outcome, sourceProblem, am, sched, conns, http, timedOut, exit, history>>

(* build and Start: the goroutines of the first configuration.             *)
Start ==
    /\ pc = "start" /\ pc' = "select"
    /\ tasks' = build(cfg, queriers) /\ running' = cfg
    /\ UNCHANGED <<env, cause, cfg, next, outcome, holds, lastOk, conns, http,
                   timedOut, exit, history>>

(* Mutant: the block just read is applied whatever was wrong with it. *)
RotatedAlways(c) == IF c.alertmanagers = <<>> THEN am ELSE [Material(c) EXCEPT !.urls = am.urls]
(* rotateAlertmanagers: the credential and the TLS material of a block     *)
(* that read cleanly, on the endpoints there are; the URLs stay.           *)
Rotated(c) == IF deliverable(c) THEN [Material(c) EXCEPT !.urls = am.urls] ELSE am
Rotate ==
    /\ pc = "rotate"
    /\ am' = Rotated(cfg)
    /\ pc' = "answer" /\ outcome' = "ok"
    /\ UNCHANGED <<env, cause, cfg, next, queriers, published, info, sourceProblem, lastOk, sched, conns,
                   http, timedOut, exit, history>>

(* reload has returned: its locals are gone.                               *)
Done ==
    /\ cfg' = running /\ cause' = None /\ outcome' = None
    /\ before' = <<>> /\ seen' = [r \in Clients |-> IF r = cause THEN {} ELSE seen[r]]

(* Mutant: a signal that came during the reload is taken as served by it. *)
AnswerDraining ==
    /\ pc = "answer" /\ pc' = "select"
    /\ answer' = IF cause \in Clients THEN [answer EXCEPT ![cause] = outcome] ELSE answer
    /\ hup' = FALSE
    /\ Done
    /\ UNCHANGED <<disk, edits, signals, term, next, holds, lastOk, sched, conns,
                   req, timedOut, exit, wanted>>
(* Mutant: the answer is handed over only to a client that is there. *)
AnswerUnbuffered ==
    /\ pc = "answer" /\ pc' = "select"
    /\ cause \in Clients => req[cause] = "waiting"
    /\ answer' = IF cause \in Clients THEN [answer EXCEPT ![cause] = outcome] ELSE answer
    /\ Done
    /\ UNCHANGED <<env, next, holds, lastOk, sched, conns, req, timedOut, exit, wanted>>
(* The outcome goes into the slot of whoever asked, there or gone.         *)
Answer ==
    /\ pc = "answer" /\ pc' = "select"
    /\ answer' = IF cause \in Clients THEN [answer EXCEPT ![cause] = outcome] ELSE answer
    /\ Done
    /\ UNCHANGED <<env, next, holds, lastOk, sched, conns, req, timedOut, exit, wanted>>

(* The select of the loop.                                                 *)
Take(who) ==
    /\ pc = "select" /\ pc' = "load"
    /\ cause' = who /\ before' = InForce
    /\ UNCHANGED <<disk, edits, signals, term, cfg, next, outcome, holds, lastOk, sched, conns,
                   answer, timedOut, exit, wanted, seen>>
TakeSignal == hup /\ hup' = FALSE /\ Take("signal") /\ UNCHANGED req
TakeRequest(r) ==
    req[r] = "offering" /\ req' = [req EXCEPT ![r] = "waiting"] /\ Take(r) /\ UNCHANGED hup

(* Shutdown: cancel, wait for the goroutines or the timeout, drain the     *)
(* send queue, stop the listener, and only then close the connections.     *)
Stop ==
    /\ pc = "select" /\ term
    /\ pc' = "stopping"
    /\ CancelTasks
    /\ UNCHANGED <<env, cause, cfg, next, outcome, holds, lastOk, running, conns, http,
                   timedOut, exit, history>>
StopWait ==
    /\ pc = "stopping" /\ pc' = "drain"
    /\ timedOut' = (tasks # {})
    /\ UNCHANGED <<env, cause, cfg, next, outcome, holds, lastOk, sched, conns, http, exit, history>>
Drain ==
    /\ pc = "drain" /\ pc' = "http"
    /\ UNCHANGED <<env, cause, cfg, next, outcome, holds, lastOk, sched, conns, http,
                   timedOut, exit, history>>
Return ==
    /\ pc = "http" /\ pc' = "exit" /\ exit' = "exitOK"
    /\ open' = open \ ConnsOf(queriers) /\ queriers' = Nothing
    /\ UNCHANGED <<env, cause, cfg, next, outcome, published, info, sourceProblem, am, lastOk, sched, connects,
                   http, timedOut, history>>

-----------------------------------------------------------------------------
(* runGroup, of a group or of the re-check pass: after a cancel its select *)
(* may still take the tick.                                                *)
Become(t, u) ==
    /\ pc # "exit"
    /\ tasks' = (tasks \ {t}) \union u
    /\ UNCHANGED <<env, loop, holds, lastOk, running, conns, http, timedOut, exit, history>>
Tick(t) == t.phase = "waiting" /\ Become(t, {[t EXCEPT !.phase = "querying"]})
EvalReturns(t) == t.phase = "querying" /\ Become(t, {[t EXCEPT !.phase = "waiting"]})
TaskExits(t) == t.phase = "waiting" /\ (~t.live \/ term) /\ Become(t, {})

(* requestReload behind POST /-/reload.                                    *)
Serving == exit = None /\ pc # "http" /\ info # None /\ pc # "start"
Handler(r, from, to) ==
    /\ req[r] = from /\ req' = [req EXCEPT ![r] = to]
    /\ UNCHANGED <<env, loop, holds, lastOk, sched, conns, answer, timedOut, exit,
                   wanted, before>>
Post(r) == Serving /\ Handler(r, "idle", "offering") /\ seen' = [seen EXCEPT ![r] = {disk}]
HangUp(r) == exit = None /\ \E s \in {"offering", "waiting"} : Handler(r, s, "gone") /\ UNCHANGED seen
Receive(r) == answer[r] # None /\ Handler(r, "waiting", "told") /\ UNCHANGED seen

(* readiness: rules, and one source answering; a closed connection never   *)
(* does.  The probe reads the published state and takes no lock.           *)
readiness(state, up) == state.rules > 0 /\ state.conns \intersect open \intersect up # {}

(* The operator, who edits and signals no more once the process is told to *)
(* end.                                                                    *)
Edit(v) ==
    /\ exit = None /\ ~term /\ edits < MaxEdits /\ v # disk
    /\ disk' = v /\ edits' = edits + 1
    /\ seen' = [r \in Clients |-> IF seen[r] = {} THEN {} ELSE seen[r] \union {v}]
    /\ UNCHANGED <<hup, signals, term, loop, holds, lastOk, sched, conns, http, timedOut, exit,
                   wanted, before>>
SendHup ==
    /\ exit = None /\ ~term /\ signals < MaxSignals
    /\ hup' = TRUE /\ signals' = signals + 1 /\ wanted' = TRUE
    /\ UNCHANGED <<disk, edits, term, loop, holds, lastOk, sched, conns, http, timedOut, exit,
                   before, seen>>
SendTerm ==
    /\ exit = None /\ ~term /\ term' = TRUE
    /\ UNCHANGED <<disk, edits, hup, signals, loop, holds, lastOk, sched, conns, http, timedOut,
                   exit, history>>

-----------------------------------------------------------------------------
Reload ==
    \/ \E c \in {Config[disk]} : LoadFails(c) \/ StartUndeliverable(c) \/ Load(c)
    \/ \E answers \in [Names(cfg) -> Answers] : CheckContract(answers)
    \/ Open \/ OpenFails \/ Cancel \/ Swap \/ CloseReplaced \/ Publish \/ Start \/ Rotate \/ Answer
Shutdown == Stop \/ StopWait \/ Drain \/ Return
Loop == Reload \/ Shutdown \/ TakeSignal \/ \E r \in Clients : TakeRequest(r)
Next ==
    \/ Loop
    \/ \E r \in Clients : Post(r) \/ HangUp(r) \/ Receive(r)
    \/ \E t \in tasks : Tick(t) \/ EvalReturns(t) \/ TaskExits(t)
    \/ \E v \in DOMAIN Files : Edit(v)
    \/ SendHup \/ SendTerm
Spec == Init /\ [][Next]_vars

(* The loop takes its steps; an evaluation returns, which a query does     *)
(* once its context is done; and the select of runGroup, which is random,  *)
(* does not pass over a cancelled context for ever.                        *)
Fairness ==
    /\ WF_vars(Loop)
    /\ WF_vars(\E t \in tasks : EvalReturns(t))
    /\ SF_vars(\E t \in tasks : TaskExits(t))
FairSpec == Spec /\ Fairness

-----------------------------------------------------------------------------
(* No use after close: an evaluation, of whichever configuration, never    *)
(* runs on a connection connect or close has closed; only one that Shutdown*)
(* gave up waiting for may.                                                *)
NoUseAfterClose == \A t \in tasks : t.phase = "querying" /\ ~timedOut => t.conns \subseteq open

(* What runs is one configuration: between reloads, the goroutines are one *)
(* for each group of the configuration, each on connections opened with    *)
(* the definitions of that configuration, the connections open are exactly *)
(* those held, and the info gauge names it.  Readiness asks connections    *)
(* that are open, during a reload too, save for the step between closing   *)
(* what was replaced and publishing.                                       *)
RunningIsCurrent ==
    /\ (pc = "select" /\ ~term) =>
        /\ running.version = info
        /\ {queriers[n].def : n \in DOMAIN queriers} = matchedSources(running)
        /\ open = ConnsOf(queriers)
        /\ {[t EXCEPT !.phase = "waiting"] : t \in tasks} = build(running, queriers)
        /\ \A t, u \in tasks : t.name = u.name => t = u
    /\ (Serving /\ pc # "publish") =>
        \A c \in published.conns : readiness(published, {c})

(* A reload does what it says it did: one that was refused, at whichever   *)
(* step, left the configuration, the connections and the credentials that  *)
(* were in force and every one of those connections open; one that         *)
(* succeeded put in force a version that was on disk after it was asked    *)
(* for, without exactly the sources the source gauge now reports at error. *)
ReloadTellsTheTruth ==
    pc = "answer" =>
        /\ lastOk = (outcome = "ok")
        /\ outcome = "refused" => InForce = before /\ open = ConnsOf(queriers)
        /\ outcome = "ok" => running = cfg /\ info = cfg.version
                             /\ running.refused = refusedSources(sourceProblem)
                             /\ (cause \in Clients => info \in seen[cause])

(* Alerts are only ever sent with material that resolved: whatever was on  *)
(* disk at any reload, the credential and the TLS material in use are      *)
(* those of one version whose secret, CA and key pair could all be read.   *)
Resolved(a) == ~AuthFails(a) /\ ~AlertmanagerTLSFails(a)
DeliveryMaterialClean ==
    am # Nothing =>
        \E v \in DOMAIN Files : \E a \in Range(Files[v].alertmanagers) :
            Resolved(a) /\ am.credential = Credential(a) /\ am.tls = AlertmanagerTLS(a)

(* A signal is honoured: after each SIGHUP, also one that comes during a   *)
(* startup or a reload, the files are read again unless the ruler ends.    *)
SignalHonoured == wanted ~> (~wanted \/ term \/ pc = "exit")

(* Shutdown returns: a ruler told to end does, whatever reload it is in    *)
(* and whoever asked for it and left.                                      *)
ShutdownReturns == term ~> pc = "exit"
=============================================================================
