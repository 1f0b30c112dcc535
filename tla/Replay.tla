------------------------------- MODULE Replay -------------------------------
(***************************************************************************)
(* `ruler check --backfill` (internal/query/backfill.go): a rule replayed  *)
(* over a past range through the same alert state the ruler runs, in steps *)
(* made coarser until the predicted rows fit a ceiling.                    *)
(*                                                                         *)
(* Times and row counts are whole numbers.  An input is a record           *)
(* [def, range, step, estimated, perWindow, ceiling, maxAlerts, now,       *)
(* delay, rows, fails, resolved, ttl, earliest, read]: estimated is        *)
(* whether the server predicted perWindow rows; rows gives, for each       *)
(* instant, the final label sets the query answers, and fails the instants *)
(* it fails or runs out of time at; the last four are what the caveats are *)
(* told from.                                                              *)
(***************************************************************************)
EXTENDS AlertInstances, Sequences, FiniteSets, FiniteSetsExt, SequencesExt

CONSTANT MaxMultiple  \* math.MaxInt32, the largest coarsening the step takes

(* replayWindows: whole steps in the range, at least one.                  *)
replayWindows(span, step) == IF step <= 0 \/ span \div step < 1 THEN 1 ELSE span \div step

(* replayInstants: oldest first, the last one now.                         *)
replayInstants(now, step, windows) == [i \in 1..windows |-> now - (windows - i) * step]

(* Mutant: the multiple rounded down. *)
MultipleRoundedDown(windows, allowed) == IF windows \div allowed < 1 THEN 1 ELSE windows \div allowed

(* stepWithinCeiling: the smallest multiple of the step whose windows fit, *)
(* decided by division so that a product of row counts cannot overflow.    *)
Multiple(windows, allowed) == (windows + allowed - 1) \div allowed
Fits(windows, perWindow, ceiling) ==
    ceiling = 0 \/ perWindow = 0 \/ perWindow <= ceiling \div windows
stepWithinCeiling(span, step, perWindow, ceiling) ==
    LET windows == replayWindows(span, step)
        allowed == IF ceiling \div perWindow < 1 THEN 1 ELSE ceiling \div perWindow
    IN  IF Fits(windows, perWindow, ceiling) THEN step
        ELSE IF Multiple(windows, allowed) > MaxMultiple THEN span
        ELSE step * Multiple(windows, allowed)
Sampled(c) == ~Fits(replayWindows(c.range, c.step), c.perWindow, c.ceiling)
Step(c) == stepWithinCeiling(c.range, c.step, c.perWindow, c.ceiling)
Instants(c) == replayInstants(c.now, Step(c), replayWindows(c.range, Step(c)))

(* Mutant: a span per alert, not per activation of it. *)
SpanKeyOfAlert(a) == [fp |-> a.fp, activeAt |-> 0]
(* One instant of the loop: evaluate, count the rows, let the state decide *)
(* (nothing is retained once resolved), and extend the span of each alert  *)
(* that fires, or open it, by fingerprint and activation.  Alerts of one   *)
(* key turned firing together, so their order does not matter.             *)
SpanKey(a) == [fp |-> a.fp, activeAt |-> a.activeAt]
FiringOf(insts) == {i \in insts : i.phase = "firing"}
OpenOrExtend(spans, firing, at) ==
    {IF \E a \in firing : s.key = SpanKey(a) THEN [s EXCEPT !.lastFiring = at] ELSE s : s \in spans}
    \union {[key |-> SpanKey(a), firedAt |-> a.firedAt, lastFiring |-> at]
            : a \in {x \in firing : \A s \in spans : s.key # SpanKey(x)}}
Evaluated(c, insts, at) == EvalInstances([c.def EXCEPT !.retention = 0], insts, c.rows[at], at)
ReplayInstant(c, acc, at) ==
    LET insts == Evaluated(c, acc.insts, at) IN
    IF ~acc.ok \/ at \in c.fails THEN [acc EXCEPT !.ok = FALSE]
    ELSE [ok |-> TRUE, insts |-> insts, hits |-> acc.hits + Cardinality(c.rows[at]),
          spans |-> OpenOrExtend(acc.spans, FiringOf(insts), at)]

(* The longest streak, the window it was last seen in included.            *)
Streak(s, step) == s.lastFiring - s.firedAt + step
Longest(spans, step) == IF spans = {} THEN 0 ELSE Max({Streak(s, step) : s \in spans})

(* replay: the error of one instant ends it with no counts.                *)
replay(c, instants) ==
    LET after[n \in 0..Len(instants)] ==
            IF n = 0 THEN [ok |-> TRUE, insts |-> {}, hits |-> 0, spans |-> {}]
            ELSE ReplayInstant(c, after[n - 1], instants[n])
        end == after[Len(instants)]
    IN  [ok |-> end.ok, alerts |-> Cardinality(end.spans), hits |-> end.hits,
         longest |-> Longest(end.spans, Step(c))]

(* columnsAddedInside: of the columns read, the ones first written after   *)
(* both the start of the replay and the start of the table.  0 is a column *)
(* with no history.                                                        *)
columnsAddedInside(earliest, read, from) ==
    LET known == {c \in DOMAIN earliest : earliest[c] # 0}
        start == Min({earliest[c] : c \in known})
    IN  {c \in read \intersect known : earliest[c] > from /\ earliest[c] > start}

(* backfillCaveats: what makes the counts untrustworthy, one line when the *)
(* table behind the rule cannot be resolved.                               *)
Caveats(c) ==
    IF ~c.resolved THEN {"unresolved"}
    ELSE (IF c.ttl > 0 /\ c.range > c.ttl THEN {"ttl"} ELSE {})
         \union columnsAddedInside(c.earliest, c.read, Head(Instants(c)) - c.delay - c.def.window)

(* backfillFindings: one finding, when the alerts pass their ceiling, the  *)
(* range was sampled, or there is a caveat.                                *)
Reported(c, counts) ==
    \/ c.maxAlerts > 0 /\ counts.alerts > c.maxAlerts
    \/ Sampled(c)
    \/ Caveats(c) # {}

(* Backfill: a range or a step of nothing is no replay, and a query whose  *)
(* cost the server will not predict is not replayed.                       *)
NoReplay == [ok |-> FALSE, alerts |-> 0, hits |-> 0, longest |-> 0]
Backfill(c) ==
    IF c.range <= 0 \/ c.step <= 0 \/ ~c.estimated THEN NoReplay ELSE replay(c, Instants(c))
Finding(c) == Backfill(c).ok /\ Reported(c, Backfill(c))

-----------------------------------------------------------------------------
(* The reference the counts are held to: over the same instants, how often *)
(* an instance turns from not firing to firing.                            *)
States(c, instants) ==
    LET after[n \in 0..Len(instants)] ==
            IF n = 0 THEN {} ELSE Evaluated(c, after[n - 1], instants[n])
    IN  after
FiringLabels(insts) == {i.labels : i \in FiringOf(insts)}
Firings(c, instants) ==
    LET states == States(c, instants)
        turned[n \in 0..Len(instants)] ==
            IF n = 0 THEN 0
            ELSE turned[n - 1] + Cardinality(FiringLabels(states[n]) \ FiringLabels(states[n - 1]))
    IN  turned[Len(instants)]
=============================================================================
