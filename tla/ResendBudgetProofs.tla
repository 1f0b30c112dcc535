------------------------- MODULE ResendBudgetProofs -------------------------
(***************************************************************************)
(* The failures a firing alert survives, for every resend interval, every  *)
(* tolerance and every group interval.                                     *)
(***************************************************************************)
EXTENDS ResendBudget, TLAPS

(* The budget the validity pays for: one period for the resend interval    *)
(* that may have passed since the last post, and one for the interval to   *)
(* the next evaluation.                                                    *)
WithinBudget == MaxFailures <= Tolerance - 2

TypeInv ==
    /\ interval \in GroupIntervals
    /\ clock \in Nat /\ misses \in 0..MaxFailures
    /\ lastSwept \in Int
    /\ lastSent \in [{Alert.fp} -> Nat]

(* Failures stretch the age of the last post by one interval each, on top  *)
(* of an age at which the alert was not yet due.                           *)
AgeBounded == clock - lastSent[Alert.fp] < ResendInterval + misses * interval

EndsAtOfLastPost == endsAt = lastSent[Alert.fp] + Validity(interval)

IndInv == TypeInv /\ AgeBounded /\ EndsAtOfLastPost

(* The period is at least the resend interval and the group interval. *)
LEMMA PeriodBounds ==
    ASSUME NEW g \in Nat \ {0}
    PROVE  Period(g) \in Nat /\ Period(g) >= ResendInterval /\ Period(g) >= g
BY ResendAssumption DEF Period

(* Products of naturals are monotone in each factor. *)
LEMMA ProductMonotone ==
    ASSUME NEW a \in Nat, NEW b \in Nat, NEW c \in Nat, NEW d \in Nat, a <= b, c <= d
    PROVE  a * c <= b * d
<1>1. a * c <= b * c
    <2>1. PICK k \in Nat : b = a + k
        <3>1. b - a \in Nat /\ b = a + (b - a)  OBVIOUS
        <3> QED BY <3>1
    <2>2. b * c = a * c + k * c  BY <2>1
    <2>3. k * c \in Nat /\ a * c \in Nat  OBVIOUS
    <2> QED BY <2>2, <2>3
<1>2. b * c <= b * d
    <2>1. PICK k \in Nat : d = c + k
        <3>1. d - c \in Nat /\ d = c + (d - c)  OBVIOUS
        <3> QED BY <3>1
    <2>2. b * d = b * c + b * k  BY <2>1
    <2>3. b * k \in Nat /\ b * c \in Nat  OBVIOUS
    <2> QED BY <2>2, <2>3
<1>3. a * c \in Nat /\ b * c \in Nat /\ b * d \in Nat  OBVIOUS
<1> QED BY <1>1, <1>2, <1>3

(* A post that works records the time of the evaluation and nothing else:  *)
(* the sweep never removes what was just sent.                             *)
LEMMA RecordAlert ==
    ASSUME TypeInv, NEW now \in Nat, Record(now, interval, {Alert})
    PROVE  /\ lastSent' = [fp \in {Alert.fp} |-> now]
           /\ lastSwept' \in Int
<1> DEFINE sent == [fp \in DOMAIN lastSent \cup {a.fp : a \in {Alert}} |->
                      IF fp \in {a.fp : a \in {Alert}} THEN now ELSE lastSent[fp]]
           kept == {fp \in DOMAIN sent : ~Expired(now, interval, sent[fp])}
<1>1. {a.fp : a \in {Alert}} = {Alert.fp} /\ DOMAIN lastSent = {Alert.fp}
    BY DEF TypeInv
<1>2. sent = [fp \in {Alert.fp} |-> now]
    BY <1>1
<1>3. ~Expired(now, interval, now)
    <2>1. interval \in Nat \ {0}  BY BudgetAssumption DEF TypeInv
    <2>2. Period(interval) \in Nat  BY <2>1, PeriodBounds
    <2>3. Validity(interval) \in Nat  BY <2>2, ResendAssumption DEF Validity
    <2> QED BY <2>3, ResendAssumption DEF Expired
<1>4. kept = {Alert.fp} /\ [fp \in kept |-> sent[fp]] = [fp \in {Alert.fp} |-> now]
    BY <1>2, <1>3
<1>5. CASE SweepDue(now)
    <2>1. lastSent' = [fp \in kept |-> sent[fp]] /\ lastSwept' = now
        BY <1>5 DEF Record
    <2> QED BY <2>1, <1>4
<1>6. CASE ~SweepDue(now)
    <2>1. lastSent' = sent /\ lastSwept' = lastSwept
        BY <1>6 DEF Record
    <2> QED BY <2>1, <1>2 DEF TypeInv
<1> QED BY <1>5, <1>6

(* The alert has just been posted. *)
LEMMA InitIndInv == Init => IndInv
<1> SUFFICES ASSUME Init PROVE IndInv
    OBVIOUS
<1>1. TypeInv
    BY BudgetAssumption DEF Init, TypeInv
<1>2. lastSent[Alert.fp] = 1  BY DEF Init
<1>3. AgeBounded
    BY <1>1, <1>2, BudgetAssumption, ResendAssumption DEF Init, AgeBounded, TypeInv
<1>4. EndsAtOfLastPost
    BY <1>2 DEF Init, EndsAtOfLastPost, EndsAt, Alert
<1> QED BY <1>1, <1>3, <1>4 DEF IndInv

(* A post resets the age, an evaluation at which nothing was due found it  *)
(* below the resend interval, and a failure adds one interval to it.       *)
LEMMA NextIndInv == IndInv /\ [Next]_vars => IndInv'
<1> SUFFICES ASSUME IndInv, [Next]_vars PROVE IndInv'
    OBVIOUS
<1> DEFINE now == clock + interval
<1>t. /\ interval \in Nat \ {0} /\ clock \in Nat /\ now \in Nat /\ misses \in Nat
      /\ lastSent[Alert.fp] \in Nat /\ ResendInterval \in Nat \ {0}
      /\ misses * interval \in Nat
    BY BudgetAssumption, ResendAssumption DEF IndInv, TypeInv
<1>1. CASE UNCHANGED vars
    BY <1>1 DEF IndInv, TypeInv, AgeBounded, EndsAtOfLastPost, Validity, Period, vars
<1>2. CASE Works(now) /\ interval' = interval
    <2>1. CASE Alert \in DueAt(now, {Alert})
        <3>1. /\ Record(now, interval, {Alert}) /\ endsAt' = EndsAt(now, interval, Alert)
              /\ clock' = now /\ misses' = 0
            BY <1>2, <2>1 DEF Works
        <3>2. lastSent' = [fp \in {Alert.fp} |-> now] /\ lastSwept' \in Int
            BY <3>1, <1>t, RecordAlert DEF IndInv
        <3>3. TypeInv'
            BY <1>2, <1>t, <3>1, <3>2, BudgetAssumption DEF IndInv, TypeInv
        <3>4. lastSent'[Alert.fp] = now  BY <3>2
        <3>5. AgeBounded'
            BY <1>2, <1>t, <3>1, <3>4 DEF AgeBounded
        <3>6. EndsAtOfLastPost'
            BY <1>2, <3>1, <3>4 DEF EndsAtOfLastPost, EndsAt, Alert, Validity, Period
        <3> QED BY <3>3, <3>5, <3>6 DEF IndInv
    <2>2. CASE Alert \notin DueAt(now, {Alert})
        <3>1. /\ UNCHANGED <<lastSent, lastSwept, endsAt>>
              /\ clock' = now /\ misses' = 0
            BY <1>2, <2>2 DEF Works
        <3>2. now - lastSent[Alert.fp] < ResendInterval
            <4>1. ~Due(now, Alert)  BY <2>2 DEF DueAt, Alert
            <4> QED BY <4>1, <1>t DEF Due, Alert
        <3>3. TypeInv'
            BY <1>2, <1>t, <3>1, BudgetAssumption DEF IndInv, TypeInv
        <3>4. AgeBounded'
            BY <1>2, <1>t, <3>1, <3>2 DEF AgeBounded
        <3>5. EndsAtOfLastPost'
            BY <1>2, <3>1 DEF IndInv, EndsAtOfLastPost, Validity, Period
        <3> QED BY <3>3, <3>4, <3>5 DEF IndInv
    <2> QED BY <2>1, <2>2
<1>3. CASE Fails(now) /\ interval' = interval
    <2>1. /\ UNCHANGED <<lastSent, lastSwept, endsAt>>
          /\ misses < MaxFailures /\ clock' = now /\ misses' = misses + 1
        BY <1>3 DEF Fails
    <2>2. TypeInv'
        BY <1>3, <1>t, <2>1, BudgetAssumption DEF IndInv, TypeInv
    <2>3. (misses + 1) * interval = misses * interval + interval
        BY <1>t
    <2>4. AgeBounded'
        BY <1>3, <1>t, <2>1, <2>3 DEF IndInv, AgeBounded
    <2>5. EndsAtOfLastPost'
        BY <1>3, <2>1 DEF IndInv, EndsAtOfLastPost, Validity, Period
    <2> QED BY <2>2, <2>4, <2>5 DEF IndInv
<1> QED BY <1>1, <1>2, <1>3 DEF Next

(* Within the budget, the last post outlives the next evaluation. *)
LEMMA BudgetSuffices == WithinBudget /\ IndInv => StaysFiring
<1> SUFFICES ASSUME WithinBudget, IndInv PROVE StaysFiring
    OBVIOUS
<1> DEFINE P == Period(interval)
<1>1. /\ interval \in Nat \ {0} /\ clock \in Nat /\ misses \in Nat
      /\ lastSent[Alert.fp] \in Nat /\ ResendInterval \in Nat \ {0}
      /\ Tolerance \in Nat /\ misses <= Tolerance - 2
    BY BudgetAssumption, ResendAssumption DEF IndInv, TypeInv, WithinBudget
<1>2. P \in Nat /\ P >= ResendInterval /\ P >= interval
    BY <1>1, PeriodBounds
<1>3. (misses + 1) * interval <= (Tolerance - 1) * P
    BY <1>1, <1>2, ProductMonotone, misses + 1 \in Nat, Tolerance - 1 \in Nat
<1>4. (misses + 1) * interval = misses * interval + interval
    BY <1>1
<1>5. (Tolerance - 1) * P = Tolerance * P - P
    BY <1>1, <1>2
<1>6. misses * interval \in Nat /\ Tolerance * P \in Nat
    BY <1>1, <1>2
<1>7. endsAt = lastSent[Alert.fp] + Tolerance * P
    BY DEF IndInv, EndsAtOfLastPost, Validity
<1>8. clock - lastSent[Alert.fp] < ResendInterval + misses * interval
    BY DEF IndInv, AgeBounded
<1> HIDE DEF P
<1>9. clock + interval < endsAt
    BY <1>1, <1>2, <1>3, <1>4, <1>5, <1>6, <1>7, <1>8
<1> QED BY <1>9 DEF StaysFiring

(* Cadence.validity: an alert that keeps firing is never expired by        *)
(* Alertmanager while at most tolerance minus two evaluations or sends     *)
(* fail in a row, whichever of the resend and the group interval is the    *)
(* longer.                                                                 *)
THEOREM Survives == WithinBudget /\ Spec => []StaysFiring
<1>1. Init => IndInv  BY InitIndInv
<1>2. IndInv /\ [Next]_vars => IndInv'  BY NextIndInv
<1>3. CASE WithinBudget
    <2>1. IndInv => StaysFiring  BY <1>3, BudgetSuffices
    <2>2. Spec => []StaysFiring  BY <1>1, <1>2, <2>1, PTL DEF Spec
    <2> QED BY <2>2
<1>4. CASE ~WithinBudget
    BY <1>4
<1> QED BY <1>3, <1>4
=============================================================================
