# A verification project for clickhouse-ruler

clickhouse-ruler evaluates alerting rules against ClickHouse clusters and sends
what fires to Alertmanager. This directory holds TLA+ models of the parts of it
that keep state or run concurrently and of the pure parts that decide what runs
(files, policies, the user contract, replays), the TLC configurations that check
them on small instances, and proofs that TLAPS checks for every instance.

Every definition names the code it stands for in `PROJECT.json` ("map"). Paths
below are relative to the repository.

## 1. Inventory

### How an alert travels

```
 runGroup ──► evalGroup ──► RuleEval.Evaluate ──► queryLimits ──► ClickHouse
 (one goroutine             (one goroutine per        (two gates)
  per group)                 rule, one per source)
                                   │ State.Eval (one per rule and source)
                                   ▼
                              SendQueue.Enqueue ──► worker ──► Cadence ──► Fanout ──► Client ──► Alertmanager
                              (any goroutine)      (one)      (one)       (one goroutine per endpoint)
```

A reload (`SIGHUP` or `POST /-/reload`) reads the files again, checks the contract
of each source, opens the connections it lacks, waits for the old groups to end,
starts the new ones with the alert states carried over, closes what is left over
and rotates the Alertmanager credentials. A shutdown cancels the groups, waits,
drains the queue and closes the connections.

What is wrong with a rule reaches its owner in three ways: `ruler check` over a
tree of files, `ruler check --backfill` (a replay over past data), and the problem
gauge of a running ruler, which load, evaluations and the re-check pass all write.

### Components

| component | state | operations | what is hard | what makes it correct |
|---|---|---|---|---|
| alert state (`internal/alert/state.go`) | instances by fingerprint, the definition | `Eval`, `Adopt`, `New` | hash collisions, recurrence inside the retention window, reloads that change identity, refused evaluations | one instance per label set; `for` and `keep_firing_for` measured on what was really returned; nothing notified is forgotten |
| send queue (`internal/scheduler/sendqueue.go`) | items, depth, flags, a one-slot channel, a context | `Enqueue`, `Start`, `loop`, `Drain` | producers, worker and shutdown interleave; the bound is in alerts; counting happens outside the lock; a timeout races a send | FIFO, oldest lost first, every loss counted, no lost wakeup, `Drain` returns and leaves nothing |
| resend cadence (`internal/notify/cadence.go`) | last delivered post by fingerprint, last sweep | `Send` (`dueAt`, `record`, `prune`) | failed and unanswered posts, groups of different pace sharing one sweep, expiry arithmetic | nothing new is throttled; the throttle holds; the record is never ahead of Alertmanager; an alert outlives the failures it is sized for |
| fan-out, client, payload (`internal/notify`, `sender.go`) | credentials, TLS client | `Send`, `post`, `Probe` | partial success, answers lost after the post was taken | delivered iff some endpoint took it |
| group ticker (`internal/scheduler/group.go`) | the next boundary | `runGroup` | evaluations longer than the interval, cancel while ticks are ready | every boundary evaluated once or counted, no backlog, a cancel ends it |
| query limits (`internal/scheduler/concurrency.go`) | two semaphores, a gauge | `acquire`, release | hold-and-wait, giving up between the gates | no slot leaks, caps hold, no deadlock, queued queries leave on cancel |
| rule evaluation (`internal/scheduler/ruleeval.go`) | the states per source, drift baselines | `Evaluate`, `carry` | sources fail independently; a reload carries some states and not others | a failed source changes nothing |
| scheduler (`internal/scheduler/scheduler.go`) | groups, wait group, context, metrics series | `New`, `Reload`, `Start`, `Shutdown` | reload against evaluations in flight, shutdown budget | one configuration evaluates at a time, series of what is gone are removed |
| problem gauge (`drift.go`, `recheck.go`, `metrics.go`) | one series per rule, check, severity, team, file, source; the last shape per source | raise and clear by evaluation, by re-check, by load; deletion at a reload | three feeds clear each other's answers; failures between two answers; reloads that move rules | a series repeats the last real answer; what is gone has no series |
| runner (`cmd/ruler`: `run.go`, `reload.go`, `alertmanager.go`) | configuration, connections, credentials, readiness, the run loop | start, reload, `SIGTERM`, `/-/reload`, `/-/ready` | a reload that fails halfway, requests that leave, signals during a reload, a connection replaced while in use | the previous configuration stays in force; nothing runs on a closed connection; a signal is honoured; a shutdown ends |
| user contract (`query/privileges.go`, `cmd/ruler/privileges.go`) | none | five assertions per source | an answer that does not come is not a refusal | a source is refused for what it answered, at its own policy's severity |
| policy (`internal/policy`) | none | parse, default, merge | four kinds of lists (required, allowed, ceilings, flags) merged across scopes | every scope binds, whatever the order |
| sources (`internal/source`) | none | parse, secrets, TLS, exemptions, match | partial material, expiry | only material that resolved is used |
| rules and lint (`internal/ruleset`, `internal/lint`) | none | walk the tree, team policies, checks, collisions, narrowing | precedence and overlap of rules in several files | every collision is reported |
| replay (`internal/query/backfill.go`) | the alert state it drives | step through a range under a row ceiling | rounding of the step, gaps, retention | it counts what the state machine would fire and reads no more than allowed |
| queries (`internal/query`) | none | build SQL, run, inspect | text | what evaluations and probes see of them is modelled |
| generators and tools | none | text | nothing | not modelled |

## 2. Plan

Done in order of importance; the ones marked *later* are the plan for the next
stages.

1. `AlertLabels`, `AlertInstances`, `AlertState`: the alert state machine. Proved.
2. `SendQueue` and the abstract `LossyFifo` it implements. Its invariants and the
   refinement are proved.
3. `Cadence`, `ResendBudget`; `Delivery` composes `AlertInstances`, `LossyFifo`
   and `Cadence` end to end. Proved.
4. `GroupTicker`, `QueryLimits`. Their invariants are proved.
5. `Ruler`: start, reload and shutdown of the runner and the scheduler together,
   with evaluations, reload requests, readiness and an operator around them, over
   `Sources`, `Policy` and `Contract`.
6. `ProblemGauge`: the three feeds, drift baselines, deletion at a reload.
7. `Lint`, `Policy`, `Sources`, `RuleSet`, `Contract`, `Replay`: the pure parts;
   `Commands` composes them with the gauge.
8. Theorems: every invariant and action property the runs check of the above (section
   6). Done, the three of `Commands` that speak of whole lists last.
9. *Later* models: the online inspection of a rule (`query/inspect.go`), the
   client's retry ladder, the Alertmanager probes.

## 3. Modules

**`AlertLabels`** (pure) composes an alert's final label set: group, rule, result
columns but `team`, source labels, then `alertname` and `source`
(`baseLabels`, `labelsFor`).

**`AlertInstances`** (pure) is what one evaluation does to a set of instances:
`Duplicated` is `resolveLabels`' refusal, `Track`, `Advance`, `Kept` and `Expire`
are `track`, the loop of `Eval` and `expire`. The map from fingerprint to slice is
a set of records that carry their fingerprint; `Hash` is a parameter, so that
collisions are a choice of the instance.

**`AlertState`** is the state machine of one rule against one source. Its actions
are `Eval`, the refused `EvalDuplicate`, and the two outcomes of a reload, `Adopt`
and `Replace` (`RuleEval.carry`). A failed query changes nothing and is not an
action. `seen` is a history of what was returned, read only by properties.

**`SendQueue`** has one step per critical section of `q.mu`, one per turn of the
drop loop (with the lock held) and one for each thing a goroutine does after it
unlocks. `DrainClose` folds closing `q.stop` into the critical section before it:
only the worker's select reads `q.stop`. `size` and `fate` are history. The sums the
properties speak of are cardinalities (`Total`), so that they can be proved about.

**`LossyFifo`** is the promise: one batch in hand, in order, the oldest lost first.

**`Cadence`** is `due`, `dueAt`, `validity`, `record` and `prune` as operators and
one action over `lastSent` and `lastSwept`. `Cadence.Send` has one caller, the
queue's worker, so its parts do not interleave with themselves.

**`Delivery`** puts evaluations of several rules, the abstract queue, the cadence
and the endpoints together. Deciding what is due and posting it are two steps,
evaluations come in between. An endpoint accepts, refuses, or takes the post
without its answer arriving (the client gave up); Alertmanager is external and
holds, per label set, the last post it took. `told` and `clean` are history.

**`ResendBudget`** follows one alert that keeps firing through evaluations that
work or fail, and Alertmanager's expiry.

**`GroupTicker`** is `runGroup`, one step per select case and per turn of the
catch-up loop. The interval may be zero, as it may in the code.

**`QueryLimits`** is the two gates as token counts, with every way out of
`acquire`.

**`Lint`** (pure) is the registry: which checks exist, their severity, whether they
may be configured, whether they refuse a reading, what their lists hold; and how a
report is narrowed to paths and to what git says changed, and its exit code.

**`Policy`** (pure) is a policy file as its author wrote it, what it parses to, the
defaults, `strictest` and `Merge`, a recursive function over the list of scopes.
`AsStrict` is the reference its merge is held to.

**`Sources`** (pure) reads `ruler.yaml`: secrets and TLS material with everything a
disk may answer, exemptions and their expiry, the Alertmanager block, `Match`. Of a
client certificate it keeps the two paths (`paths`), as the code does: the handshakes
read them again, so a pair rotated in place is no change of a source.

**`RuleSet`** (pure) walks a rules tree: hidden directories, unreadable and
malformed files, team policies from the directories above a rule, the checks of a
rule and of a group, and the rules that collide. `teams` is the map of the loader from
a directory to its policy, and `scopesFor` walks it upwards from the directory of a
rule file, as the code does. Names are values, so which of them begin with `..` or with
`ruler_` is given (`Dotted`, `Reserved`).

**`Contract`** (pure) is the user contract: five assertions, what each outcome of a
statement says about them, and which sources are refused.

**`Replay`** (pure) is the backfill: the instants of a range, the step stretched to
the row ceiling, the lead-in, gaps, and the counts, over the operators of
`AlertInstances`, so that the replay and the ruler share one state machine as they
do in the code. `replay` is a recursive function over the instants; `Firings`, the
reference it is held to, counts over the same instants how often an instance turns
from not firing to firing, and knows of no spans.

**`ProblemGauge`** has one action per writer: `Evaluate` (a tick of a rule with one
result per source: answered with a shape, rows and annotations, failed, abandoned
by a reload, rejected while waiting), `Recheck`, `Reload` (the deletions of
`deleteGoneSeries`) and `ReportLoadFindings`, a separate step because evaluations
of the new configuration already run. `series` stands for the other families a
reload has to clean up. `said` and `shapes` are history; `shapes` also says which
answers came before that step (`early`).

**`Commands`** composes the above into the three ways the ruler tells an owner.
`ruler check` and a replay read an input, give an output and end: one action each.
The running ruler takes `ProblemGauge`'s actions.

**`Ruler`** is the goroutine of `run` as a program counter, one step for each thing
another goroutine can see: read, contract, open, cancel, wait and swap, close,
publish, rotate, answer; the same steps serve a start and a reload, as in the
code. `tasks` are the goroutines of the groups and of the re-check pass with the
connections they captured. Request handlers offer, wait, hang up or are answered.
The operator, who is external, edits the files between versions, sends `SIGHUP`
and `SIGTERM` at any time. The configuration read is what `Sources` makes of a
version, the refusals and the source gauge (`sourceProblem`) what `Contract` makes of an answer. `before`, `seen` and
`wanted` are history. The scheduler's wait has a timeout only in `Shutdown`.
Connections are keyed by the name of their source: of two sources of one name
`matchedSources` keeps the first, which the model leaves open (`Named`).

Definitions commented "Mutant" are wrong variants used to check that the
properties can fail; no specification uses them.

## 4. Runs

| run | cfg | checks |
|---|---|---|
| `alert_state` | `MCAlertState.cfg` | seven properties of the alert state; three rows, four definitions, one hash value for everything, six time units |
| `send_queue` | `MCSendQueue.cfg` | accounting, capacity, shutdown, refinement of `LossyFifo`, every batch settles, `Drain` returns although sends hang; two producers, three batches of sizes 1 and 4 against a capacity of 3 |
| `group_ticker` | `GroupTicker.cfg` | boundaries, backlog, cancel |
| `group_ticker_zero` | `GroupTickerZero.cfg` | finding: interval zero |
| `delivery` | `MCDelivery.cfg` | throttle, record, order and end-to-end reporting; two rules of pace 2 and 6, evaluations up to three units late, two waiting batches, two endpoints with every combination of outcomes, eleven time units |
| `delivery_recurrence` | `MCDeliveryRecurrence.cfg` | finding: a resolve that is never reported |
| `resend_budget` | `ResendBudget.cfg` | an alert survives tolerance minus two failures, groups faster and slower than the resend interval |
| `resend_budget_documented` | `ResendBudgetDocumented.cfg` | finding: the documented number of failures |
| `query_limits` | `MCQueryLimits.cfg` | slots, gauge, caps, every query ends, queued queries leave on cancel; four queries, a source with a cap of 1 and one without, a ruler-wide cap of 2 |
| `query_limits_confined` | `MCQueryLimitsConfined.cfg` | finding: what a source's cap confines |
| `ruler` | `MCRuler.cfg` | no use after close, one configuration at a time, a reload does what it answers, clean delivery material, signals honoured, shutdown returns; two sources, five versions of the files, three answers to the contract, one edit, one signal, one request, `SIGTERM` at any time |
| `commands` | `MCCommands.cfg` | policies bind, collisions are reported, replays stay within their ceiling and count firings, the gauge repeats the last answer, a change of columns is reported and nothing else is, nothing outlives its owner |

The type invariants of `AlertState`, `QueryLimits`, `GroupTicker` and `SendQueue` are
proved (section 6) and not run; in the others the types are part of the inductive
invariants of the proofs.

**Why the bounds are enough.** In `MCAlertState` time 6 lets an alert pend, fire,
go absent, resolve, be retained, recur and be dropped, with a reload anywhere. In
`MCSendQueue` capacity 3 with sizes 1 and 4 reaches a queue exactly full, a batch
that pushes others out, and a batch larger than the queue. In `MCDelivery` eleven
time units cover pending, firing, resends, a resolve and a recurrence of the fast
rule with batches of the slow one in between, evaluations late enough to skip a
boundary, and sweeps that remove an entry (both were checked to be reached). The
endpoints are a symmetry set: all are posted the same and no property names one.
In `ResendBudget` and `GroupTicker` the patterns repeat well within the bound; the
ceiling of `GroupTicker`'s counters is above its clock, as `Accounted` asks.
In `MCRuler` the versions differ in what a reload has to tell apart: `first` with
both sources, `moved` with another group, a changed definition of one source and
the other gone, `rotating` with a secret that cannot be read beside a new CA,
`broken` with a finding that refuses the reading, `missing` unreadable; a start may
meet any of them. With one edit, one signal and one request two reloads can follow
each other and a third be asked for, and a signal can come during a reload. In
`MCCommands`, `check` runs over every combination of four policies in five scopes
of a tree with two teams, and over a missing file, narrowed and online runs; replays
over every pattern of results in six instants with `for` from 0 to 2, and every
range 0..11, step 1..3, cost 1..3 and ceiling 1..8; the gauge over four steps, with
six results per source and a reload that drops a source, moves a rule and changes
its policy.
`CHECK_DEADLOCK FALSE` stands where a bound on time or batches ends the
behaviour, or where the system may stop: after `Drain`, after a cancel, when the process or the command has ended.

**Fairness.** `SendQueue.FairSpec`: a goroutine that can run does, the timer of
`Drain` goes off, and a send whose context is cancelled fails; a send need not
return otherwise. `DrainReturns` is checked under that. `EveryBatchSettles` adds
`SendsReturn`, which the client justifies by bounding its attempts and their time.
Calls of `Enqueue`, `Start` and `Drain` are not fair. `GroupTicker.FairSpec`:
evaluations come back, and a select with both cases ready does not pick the tick
for ever (strong fairness of `CtxDone`, Go picks at random).
`QueryLimits.FairSpec`: a goroutine that can run does, while a query may hang;
`QueuedLeavesOnCancel` is checked under that. `EveryQueryEnds` adds
`QueriesReturn`: queries return, and a channel serves blocked senders in turn
(strong fairness of the two takes, Go's channels queue them).
`Ruler.FairSpec`: the run loop takes its steps; an evaluation returns, which a
query does when its context is done or its own time limit passes; and the select of
a group's goroutine does not pass over its cancelled context for ever (strong
fairness of `TaskExits`, Go picks at random). The operator and the clients are not
fair. Without the second assumption neither `SignalHonoured` nor `ShutdownReturns`
would hold: the wait of `Scheduler.Reload` has no timeout.

## 5. Findings

- **Interval zero.** A group file without `interval` loads as zero, which nothing
  refuses; `runGroup`'s catch-up loop then never ends and never looks at its
  context (`group_ticker_zero`).
- **The source cap does not confine a slow source.** `acquire` holds a ruler-wide
  slot while it waits for the source's, so queued queries of a slow source use up
  the ruler's cap (`query_limits_confined`).
- **The resend tolerance is two less than documented.** A validity of *t* periods
  survives *t* - 2 consecutive failures, not *t* or *t* - 1
  (`resend_budget_documented`, and the theorem `Survives` for the bound that holds).
- **A resolve may never be reported.** A condition that comes back replaces the
  resolved instance although its resolve was not delivered
  (`delivery_recurrence`).

Observations met while modelling that are not runs:

- *Sources.* A name used twice is a `source/name` finding that does not refuse the
  reading. `matchedSources` keeps the first source of a name, so the second cluster is
  neither checked against the contract nor connected to, and a rule that selects both
  runs twice on the first one's connection. `docs/how-it-works.md` says a rule
  evaluates against every source its selector matches, and the comment on
  `matchedSources` that it lists every source a rule matched. Where names differ, the
  theorem `SelectionRuns` proves it.
- *Shutdown.* `docs/operations.md` says a shutdown finishes the evaluations in
  flight; `Shutdown` cancels their context first, so they end as abandoned.
- *Reload.* A password or TLS file of a source that cannot be read at a reload is a
  finding that does not refuse the reading, so a working connection is replaced by
  one with an empty secret. The Alertmanager block is guarded against this
  (`DeliveryMaterialClean`).
- *Reload clears drift (documentation and code differ).* `ReportLoadFindings`
  (`internal/scheduler/load.go:29-33`) deletes every series of the checks it owns.
  `rule/columns` is among them, as a fixed check that does not refuse a reading, and
  `drift.go` raises it. So every reload blanks the drift reports that stand, and a
  change that an evaluation of the new configuration found before the report is not
  raised again: the next comparison is against the changed answer.
  `docs/operations.md:665` says "Each feed clears only its own checks",
  `load.go:70-72` that the load is the only feed that raises the checks it owns,
  `load_test.go:64-65` that it "cannot blank a finding the evaluation feed raised on
  its own clock", and `problem_test.go:520-523` that "a finding that a deploy can clear
  is one nobody can trust". `ReportLoadFindings` in `ProblemGauge` does what the code
  does. `DriftIsChange` holds of it, and of a load that clears only what it raised: of
  a change found before the report it asks only that a series about it is right.
- *Source gauge.* The contract check rebuilds it before the connections are opened. A
  reload refused after that, since a source cannot be opened, leaves the gauge
  speaking of a configuration that never ran; `ReloadTellsTheTruth` ties the gauge to
  what runs for reloads that succeed.
- *Selectors.* The comment of `Match` (`internal/source/match.go:7`) says that every
  term has to be present in the source's labels. `selects` compares with the label's
  value, which is "" where there is none, so a term with an empty value selects every
  source that lacks the label.
- *Gauge.* A rule whose selector stops matching keeps its series, a moved rule keeps
  the query duration under its old group while that group lives, and two rules of
  one name in one file clear each other's findings (`DriftIsChange` excludes that
  case with `Alone`).
- *Contract.* A probe still running at its own deadline counts as a privilege
  granted, so a network that hangs reads as a failed contract; a source that
  cannot be reached, or asked during a `SIGTERM`, is inconclusive and connected.
- *Exemptions.* `main.go` says that one that has run out refuses a start;
  `source/exemption` is not among the checks that refuse a reading.
- *Collisions.* Rules whose source sets overlap without being equal collide
  unreported. The stricter of two policies decides, save that a rule with no policy
  of its own counts for nothing, so one team's explicit `off` silences a collision
  with a rule at the default warning.
- *Policy.* A scope that sets only the severity of a ceiling check carries the
  shipped ceilings into the merge.
- *Replay.* The counts of a sampled replay are not a floor: a longer step may
  skip the gap in which a condition's `for` would have started again, and count a
  firing that the shorter step does not have.

A known limit of the models themselves: `Cadence.due` looks its record up by fingerprint
alone, so of two alerts whose label sets hash alike one may be throttled by a send
of the other. `MCDelivery`'s hash is therefore injective on its label sets, whereas
`MCAlertState`'s maps all of them to one value, since the alert state compares the
labels.

## 6. Proofs

TLAPS checks these for every value of the constants that meets the named
assumptions. A theorem with a hypothesis states it in front of `Spec`.

| module | theorem | statement |
|---|---|---|
| `AlertStateProofs` | `TypeCorrect`, `Identity`, `Tracking`, `Reproducibility`, `Settling` | the invariants `TypeOK`, `OneInstancePerLabelSet`, `ReturnedIsTracked`, `InstancesReproducible`, `EvaluationSettles` |
| | `Firing`, `Resolving`, `Remembering` | the action properties `FiresOnlyAfterFor`, `ResolvesOnlyAfterKeep`, `NotForgotten` |
| `ResendBudgetProofs` | `Survives` | `StaysFiring`, if at most tolerance minus two failures come in a row |
| `QueryLimitsProofs` | `TypeCorrect`, `NoSlotLeaks`, `CapsAreCaps` | `TypeOK`, `SlotsExact` (slots and gauge), `CapsHold` |
| `GroupTickerProofs` | `TypeCorrect`, `Caught`, `Accounted` | `TypeOK`, `NoBacklog`, and `BoundariesAccounted` under `CountersUnbounded` |
| `SendQueueProofs` | `TypeCorrect`, `Bounded`, `Depth`, `Drops`, `Drained` | `TypeOK`, `CapacityBound`, `DepthExact`, `DropsCounted`, `DrainLeavesNothing` |
| | `Refinement` | `SendQueue` implements `LossyFifo` |
| `DeliveryProofs` | `Recorded`, `NoRegress` | `RecordedIsHeld`, `NeverRegresses`, under `RulesApart` |
| | `Suppressed`, `Telling` | `SuppressedIsKnown`, `ToldWhenQuiet`, under `RulesApart` and `HashInjective` |
| | `Throttled` | `ThrottleHolds`, under those and `LagSmall` |
| `RulerProofs` | `NoClosedConnection`, `OneConfiguration`, `TruthfulReload`, `CleanMaterial` | `NoUseAfterClose`, `RunningIsCurrent`, `ReloadTellsTheTruth`, `DeliveryMaterialClean` |
| | `SelectionRuns` | `SelectedSourcesRun`, under `NamesDistinct` |
| `CommandsProofs` | `NothingOutlives`, `LastAnswer` | `NothingOutlivesItsOwner`, `GaugeIsLastAnswer`, under `NamesGiven` |
| | `Drift` | `DriftIsChange`, under `NamesGiven` and `NamesDistinct` |
| | `ReplayFits` | `ReplayWithinCeiling` |
| | `ScopeBinds`, `MergeBinds` | one scope merged into a policy, and a list of them in any order, leaves it as strict as each |
| | `MergeIsAsked` | the severity a check has in a merge is one that some scope asks for |
| | `EveryScopeBinds`, `EveryCollisionIsReported` | `PolicyBinds`, `CollisionReported` |
| | `ReplayIsExact` | `ReplayCountsFirings`, where `Fingerprinted` holds |

*`AlertStateProofs`* assumes of the constants that durations are natural numbers,
and nothing of the hash. None of the invariants is inductive alone. `IndInv` adds
that an instance is filed under its own hash, that its `lastSeen` is the last
sighting of its label set and a pending one has been returned since `activeAt`
(`SightingsAgree`), that an instance's timestamps follow its phases
(`TimelineOrdered`), and that the history is ordered (`HistoryOrdered`); with
these, every evaluation and both kinds of reload preserve the whole. The action
properties and `EvaluationSettles` follow from one step of an evaluation taken
from a state with `IndInv`.

*`ResendBudgetProofs`* assumes a positive resend interval, positive group intervals
and a tolerance of at least two, as `run.go` enforces. The invariant bounds the age
of the last post: below the resend interval at an evaluation where nothing was due,
plus one group interval for every failure since.

*`QueryLimitsProofs`* assumes finitely many queries. A token count equals the number
of queries behind its gate and stays below the cap; that a count stays natural
follows from the same equality, so types and counts are proved together.

*`GroupTickerProofs`*. `LoopInv`: an evaluation is never early, and the next boundary
is at most an interval ahead of the clock reading it was computed from.
`CountersUnbounded` says that the clock ends before the model's counters reach their
ceiling, which the code's counters do not have: unless the interval is zero, no more
boundaries are counted than time has passed (`CountedSoFar`).

*`SendQueueProofs`* assumes finitely many producers, a positive capacity and batches
that are not empty. The properties
are about sums, so `IndInv` says who holds each batch: a producer in its drop loop,
one place in the queue, or one drainer (`Offered`, `Waiting`, `Sending`). A step then
moves one batch from one place to another and each sum changes by its size.
`Protocol` is the order of a shutdown: the worker and `Drain` never drain at once, and
the queue is empty once either has begun to count what it abandoned. The refinement
maps the batch in hand to the drainer that sends; the two goroutines that could
be in that place at once are excluded by `Protocol`.

*`DeliveryProofs`* rests on the time at which an instance entered its phase: no later
evaluation changes it. So of two batches of one rule the later one shows a phase
begun by the time of the earlier exactly if the earlier shows it too (`Agrees`), and
the same holds between a batch on its way and what was posted before it (`Held`,
`Told`). `SentIsTold` ties the record of the cadence to what was told, `Quiet` follows
a rule's latest batch, `Swept` says how old a record is that a sweep dropped. The
hypotheses are what the code does not enforce by itself. `RulesApart`: no two rules
raise the same label set; the ruler reports rules that do as `rule/duplicate-alert`
and still runs them. `HashInjective`: see the limit named in section 5. `LagSmall`:
two batches are out of order by no more than the tolerance times the resend interval;
a sweep at a later batch could otherwise drop the record that throttles an earlier
one. `MCDelivery` meets all three.

*`RulerProofs`* assumes finitely many groups, a list of alertmanagers, and that no
client is called like another cause of a load. The properties speak of single steps
of the run loop; between them two configurations coexist. `IndInv` says at every step
which connections are open (`Connections`), which of them the goroutines captured
(`Goroutines`), which configuration the goroutines, the connections and the gauge are
of (`Current`), what was published (`Published`), and what whoever asked has to be
told (`Asked`). That a name belongs to one connect, and that what connect keeps is
kept whole (`Held`, `Succeeds`), is why closing what was replaced closes nothing in
use. `SelectedSourcesRun` (every source a rule matched
is connected to as it is defined) is stated there; its hypothesis `NamesDistinct` is
what the first observation of section 5 is about.

*`CommandsProofs`*. `GaugeIsLastAnswer` speaks of the rules of the configuration, and a
reload brings others; `Repeats` states it of every name, file and source there could
be, and is inductive together with `NothingOutlivesItsOwner` and the labels each
family carries (`Labelled`). `Feeding` is the lemma both feeds share: what clears
exactly the questions it was asked and raises nothing else keeps `Repeats`.
`DriftIsChange` needs that a shape is kept for exactly the sources that have answered,
the last one they answered, and that between a reload and its report every answer is
marked as early (`Shapes`). `NamesGiven` excludes a source without a name, whose series could not be
told from those about no source; `NamesDistinct` two sources of one name under one
rule, which share one baseline. Both are `source/name` findings. `ReplayFits` is the
arithmetic of `stepWithinCeiling` with its two rounded divisions (`Coarser`): the
multiple is rounded up, so that the windows left are no more than the ceiling affords.

*Lists in `CommandsProofs`.* The induction theorems of the library take an operator as
their parameter, which the provers cannot instantiate. `NumberByNumber` therefore proves
induction for a *set* of numbers, from the least one that is missing. `MergeSteps`,
`FlattenSteps`, `ReplaySteps`, `StatesSteps` and `FiringsSteps` show that each recursive
function has the values it is written to take, step by step; the lemmas over lists rest
on those.

- `PolicyBinds`. `ScopeBinds` is one step of a merge, for required lists, allowlists and
  ceilings, and for the first scope that speaks of a check. That being as strict is
  transitive (`AsStrictTransitive`) makes it a merge of a list (`MergeBinds`), whatever
  the order. The rest leads from a merge to a rule of a tree: `ScopesForBinds` up the
  directories of a rule file, `PolicyForBinds` over the sources it reaches,
  `LoadRulesOf` from the rules of all files to the file each came from.
- `CollisionReported`. The code compares each rule with the first of its identity only.
  Of two rules the merge is at the higher severity (`MergeOfTwo`), and no merge is
  stricter than what some scope asks for (`MergeIsAsked`), so the rule whose policy
  asks most is reported at just that severity (`CollisionFound`); where it is the first
  itself, any other one is.
- `ReplayCountsFirings`. `Ledger` holds after each instant: there is one span for each
  activation that fired, none for a pending one, none activated later than the instant,
  and one instance per label set (`Tracked`). So a firing instance has its span exactly
  if it was firing the instant before (`SpanStands`), and the spans an instant opens are
  in bijection with the labels that turned firing (`OneInstant`). It needs that the
  instants ascend, whatever the step was stretched to (`InstantsAscend`). The hypothesis
  `Fingerprinted` is what the code relies on: spans are known by fingerprint and
  activation (`instanceKey`, `internal/query/backfill.go`), so two alerts whose 64-bit
  hashes are equal and that became active at the same instant are counted as one.
  `MCCommands`' hash keeps all label sets apart.

Assumptions on the constants of `Commands`, which TLC evaluates on its run and which say
what files and servers are. `TreeAssumption`: a path is one file, as is a name in a
directory; lists are lists; `policy.yaml` is YAML by its name. `EntriesAssumption`: the
severity of an entry parses or is `Invalid`, and a key is bare or carries a number.
`ReplayAssumption`: row counts, ranges and steps are natural numbers, a replay ends at an
instant, and at each instant the query answers finitely many rows.

`TableAssumption`, `FeedsAssumption`, `KeysAssumption` and `DuplicateAssumption` are
closed facts about the table of checks, whose definition the prover cannot evaluate; TLC
evaluates them.

Only model-checked: liveness, which is out of the prover's reach: `EveryBatchSettles`,
`DrainReturns`, `StopsWhenCancelled`, `EveryQueryEnds`, `QueuedLeavesOnCancel`,
`SignalHonoured`, `ShutdownReturns`. Every other property of a passing run has a theorem.

## 7. Not modelled

- The rendering of annotations: the gauge sees only whether a template broke.
- SQL, `EXPLAIN` and the text of the online inspection of a rule
  (`query/inspect.go`): what a statement answers is an input of the models.
- The YAML reader, positions and the layout of reports: files are given as what
  their author wrote, and a finding is its file, subject, check and severity.
- The waits of the client's retry ladder: a post is taken, refused or unanswered.
- The Alertmanager probes, which only set a gauge; readiness does not read it.
- Metrics that are only measurements, and the stagger of group starts, which moves
  the first boundary and nothing else.
- The generators and the development stack (`internal/docs`, `internal/dashboards`,
  `internal/stack`, `internal/cluster`, `internal/datapoints`, `internal/spans`),
  which produce text and test data.

Each is listed in `PROJECT.json` with its component.
