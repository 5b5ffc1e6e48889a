---------------------------- MODULE PolicyProofs ----------------------------
(***************************************************************************)
(* TLAPS proofs about the policy engine's operators, for every ceiling,    *)
(* quiet hours and length of the hour: what time of day a moment falls in, *)
(* and what a decision may be.                                             *)
(***************************************************************************)
EXTENDS PolicyEngine, FiniteSetTheorems, TLAPS

-----------------------------------------------------------------------------
(* Time of day.                                                            *)

\* Division with remainder, for whatever divisor.
LEMMA Divided ==
  ASSUME NEW n \in Nat, NEW d \in Nat \ {0}
  PROVE  n \div d \in Nat /\ n % d \in 0..(d - 1) /\ n = d * (n \div d) + (n % d)
<1>1. n \div d \in Int /\ n % d \in 0..(d - 1)
  OBVIOUS
<1>2. n = d * (n \div d) + (n % d)
  OBVIOUS
<1>3. n \div d >= 0
  OBVIOUS
<1>4. QED
  BY <1>1, <1>2, <1>3

\* Quotient and remainder are the only such pair.
LEMMA DividedUniquely ==
  ASSUME NEW d \in Nat \ {0}, NEW q \in Nat, NEW r \in 0..(d - 1)
  PROVE  (d * q + r) \div d = q /\ (d * q + r) % d = r
<1>1. PICK n \in Nat : n = d * q + r
  OBVIOUS
<1>2. n \div d = q
  BY <1>1
<1>3. n % d = r
  BY <1>1
<1>4. QED
  BY <1>1, <1>2, <1>3

\* A finite set of numbers has a least one: the numbers of S below each of its members
\* are finitely many sets, of which one contains no other.
LEMMA LeastNumber ==
  ASSUME NEW S \in SUBSET Nat, IsFiniteSet(S), S # {}
  PROVE  \E p \in S : \A q \in S : p <= q
<1> DEFINE Before(p) == {q \in S : q < p}
           T == {Before(p) : p \in S}
<1>1. S \subseteq Nat /\ IsFiniteSet(S)
  OBVIOUS
<1>2. IsWellFoundedOn(StrictSubsetOrdering(S), FiniteSubsetsOf(S))
  BY FS_StrictSubsetOrderingWellFounded
<1>3. FiniteSubsetsOf(S) = SUBSET S
  BY <1>1, FS_FiniteSubsetsOfFinite
<1>4. T \subseteq SUBSET S /\ T # {}
  OBVIOUS
<1>5. PICK B \in T : \A C \in T : ~(<<C, B>> \in StrictSubsetOrdering(S))
  <2> HIDE DEF T
  <2>1. PICK R, W : R = StrictSubsetOrdering(S) /\ W = SUBSET S
    OBVIOUS
  <2>2. IsWellFoundedOn(R, W)
    BY <1>2, <1>3, <2>1
  <2>3. \E B \in T : \A C \in T : ~(<<C, B>> \in R)
    BY <1>4, <2>1, <2>2, WFMin
  <2>4. QED
    BY <2>1, <2>3
<1>6. PICK p \in S : B = Before(p)
  BY <1>5
<1>7. ASSUME NEW q \in S, q < p
      PROVE  FALSE
  <2>1. Before(q) \subseteq Before(p) /\ q \in Before(p) /\ q \notin Before(q)
    <3>1. \A r \in S : r < q => r < p
      BY <1>1, <1>6, <1>7
    <3>2. ~(q < q)
      BY <1>1, <1>7
    <3>3. QED
      BY <1>6, <1>7, <3>1, <3>2, Zenon
  <2>2. Before(q) \in T /\ Before(q) \in SUBSET S /\ Before(p) \in SUBSET S
    OBVIOUS
  <2>3. <<Before(q), Before(p)>> \in StrictSubsetOrdering(S)
    <3> HIDE DEF Before
    <3>1. QED
      BY <2>1, <2>2 DEF StrictSubsetOrdering
  <2>4. QED
    BY <1>5, <1>6, <2>2, <2>3
<1>8. QED
  BY <1>1, <1>7

LEMMA DayLasts == Day \in Nat \ {0} /\ Hour \in Nat \ {0} /\ Day = 24 * Hour
  BY PolicyAssumption DEF Day

\* Every moment has an hour of the day.
LEMMA HourOfDay ==
  ASSUME NEW now \in Nat
  PROVE  now % Day \in 0..(Day - 1) /\ (now % Day) \div Hour \in 0..23
<1>1. PICK n \in 0..(Day - 1) : n = now % Day
  BY DayLasts, Divided
<1>2. n \in Nat /\ n < 24 * Hour
  BY <1>1, DayLasts
<1>3. n \div Hour \in Nat /\ n % Hour \in 0..(Hour - 1) /\ n = Hour * (n \div Hour) + (n % Hour)
  BY <1>2, DayLasts, Divided
<1>4. PICK h \in Nat : h = n \div Hour
  BY <1>3
<1>5. Hour * h < 24 * Hour
  BY <1>2, <1>3, <1>4, DayLasts
<1>6. h < 24
  BY <1>5, DayLasts
<1>7. QED
  BY <1>1, <1>4, <1>6

\* The end of the quiet hours is ahead, and is at QuietEnd o'clock.
LEMMA NextQuietEndAhead ==
  ASSUME NEW now \in Nat
  PROVE  /\ NextQuietEnd(now) \in Nat /\ NextQuietEnd(now) > now
         /\ (NextQuietEnd(now) % Day) \div Hour = QuietEnd
<1>1. PICK q \in Nat, r \in 0..(Day - 1) : now = Day * q + r /\ r = now % Day
  <2>1. Day \in Nat \ {0}
    BY DayLasts
  <2>2. now \div Day \in Nat /\ now % Day \in 0..(Day - 1) /\ now = Day * (now \div Day) + (now % Day)
    BY <2>1, Divided
  <2>3. QED
    BY <2>2
<1>2. QuietEnd \in 0..23 /\ Day \in Nat \ {0} /\ Hour \in Nat \ {0}
  BY DayLasts, PolicyAssumption
<1>3. PICK e \in Nat : e = QuietEnd * Hour
  BY <1>2
<1>4. e < Day
  <2>1. (24 - QuietEnd) * Hour > 0
    BY <1>2
  <2>2. Day - e = (24 - QuietEnd) * Hour
    BY <1>2, <1>3, DayLasts
  <2>3. QED
    BY <1>2, <1>3, <2>1, <2>2
<1>5. now - (now % Day) = Day * q
  BY <1>1, <1>2
<1>6. PICK k \in Nat : NextQuietEnd(now) = Day * k + e /\ Day * k + e > now
  <2>1. CASE Day * q + e <= now
    <3>1. NextQuietEnd(now) = Day * q + e + Day
      BY <1>3, <1>5, <2>1 DEF NextQuietEnd
    <3>2. Day * (q + 1) + e = Day * q + e + Day
      BY <1>2, <1>3
    <3>3. Day * q + e + Day > now
      BY <1>1, <1>2, <1>3
    <3>4. QED
      BY <3>1, <3>2, <3>3
  <2>2. CASE ~(Day * q + e <= now)
    <3>1. NextQuietEnd(now) = Day * q + e
      BY <1>3, <1>5, <2>2 DEF NextQuietEnd
    <3>2. Day * q + e > now
      BY <1>2, <1>3, <2>2
    <3>3. QED
      BY <3>1, <3>2
  <2>3. QED
    BY <2>1, <2>2
<1>7. NextQuietEnd(now) % Day = e
  <2>1. e \in 0..(Day - 1)
    BY <1>2, <1>4
  <2>2. (Day * k + e) % Day = e
    BY <1>2, <2>1, DividedUniquely
  <2>3. QED
    BY <1>6, <2>2
<1>8. e \div Hour = QuietEnd
  <2>1. e = Hour * QuietEnd + 0
    BY <1>2, <1>3
  <2>2. QED
    BY <1>2, <2>1, DividedUniquely
<1>9. Day * k + e \in Nat
  BY <1>2
<1>10. QED
  BY <1>6, <1>7, <1>8, <1>9

-----------------------------------------------------------------------------
(* Decisions.                                                              *)

\* Every cause has a ceiling, which the constraint lowers.
LEMMA CeilingBound ==
  ASSUME NEW ctx
  PROVE  /\ CauseMaxAttempts(ctx.cause) \in {0, 2, 3}
         /\ Ceiling(ctx) \in Nat /\ Ceiling(ctx) <= MaxAttempts
         /\ Ceiling(ctx) <= CauseMaxAttempts(ctx.cause)
         /\ Ceiling(ctx) \in {CauseMaxAttempts(ctx.cause), MaxAttempts}
  BY PolicyAssumption DEF CauseMaxAttempts, Ceiling, Least

\* A messaging cause has two attempts, a retried one three or, over another rail, two.
LEMMA CeilingOfIntended ==
  ASSUME NEW ctx
  PROVE  /\ IntendedAction(ctx) \in RecoveryAction
         /\ IntendedAction(ctx) = "MESSAGE" => CauseMaxAttempts(ctx.cause) = 2
         /\ IntendedAction(ctx) \in RetryingActions => CauseMaxAttempts(ctx.cause) \in {2, 3}
  BY DEF IntendedAction, CauseMaxAttempts, RecoveryAction, RetryingActions

\* What the engine reads of a context besides the cause, whatever it is a record of.
Readable(ctx) ==
    /\ ctx.now \in Nat /\ ctx.attempts \in Nat /\ ctx.messages \in Nat
    /\ ctx.killSwitch \in BOOLEAN /\ ctx.mandateRevoked \in BOOLEAN

\* A stop overrides everything; without one the decision is the playbook's, or what
\* the first guardrail that applies makes of it.
LEMMA DecisionCases ==
  ASSUME NEW ctx, Readable(ctx), NEW d, d = Decide(ctx), NEW ce, ce = Ceiling(ctx),
         NEW intended, intended = IntendedAction(ctx), NEW st, st = StoppedBy(ctx)
  PROVE  \/ st \in Stops /\ d = Decision("HARD_STOP", 0, st, ctx.now)
         \/ /\ st = "none" /\ intended = "HARD_STOP"
            /\ d = Decision("HARD_STOP", ce, "none", ctx.now)
         \/ /\ st = "none"
            /\ \E b \in {"none", "classification_low_confidence", "attempt_limit_reached"} :
                   d = Decision("HUMAN_REVIEW", ce, b, ctx.now)
         \/ /\ st = "none" /\ intended \in RetryingActions /\ ctx.attempts < ce
            /\ \/ d = Decision(intended, ce, "none", ctx.now)
               \/ intended # "SWITCH_RAIL" /\ d = Decision("WAIT", ce, "circuit_breaker_open", ctx.now)
         \/ /\ st = "none" /\ intended = "MESSAGE"
            /\ \/ /\ ctx.messages >= MaxMessagesPerDay
                  /\ d = Decision("WAIT", ce, "message_daily_limit_reached", NextQuietEnd(ctx.now))
               \/ /\ ctx.messages < MaxMessagesPerDay
                  /\ \/ d = Decision("MESSAGE", ce, "quiet_hours", NextQuietEnd(ctx.now))
                     \/ /\ ~WithinQuietHours(ctx.now)
                        /\ d = Decision("MESSAGE", ce, "none", ctx.now)
<1>1. st \in Stops \cup {"none"}
  <2>1. CASE ctx.killSwitch
    BY <2>1 DEF StoppedBy, Stops
  <2>2. CASE ~ctx.killSwitch /\ ctx.mandateRevoked
    BY <2>2 DEF StoppedBy, Stops
  <2>3. CASE ~ctx.killSwitch /\ ~ctx.mandateRevoked
    BY <2>3 DEF StoppedBy, Stops
  <2>4. QED
    BY <2>1, <2>2, <2>3 DEF Readable
<1>2. WithinQuietHours(ctx.now) \in BOOLEAN
  BY DEF WithinQuietHours
<1>3. intended \in RetryingActions \cup {"HARD_STOP", "HUMAN_REVIEW", "MESSAGE"}
  BY CeilingOfIntended DEF RecoveryAction
<1>4. ce \in Nat /\ ctx.attempts \in Nat /\ ctx.messages \in Nat /\ MaxMessagesPerDay \in Nat
  BY CeilingBound, PolicyAssumption DEF Readable
<1>5. d = ApplyGuardrails(intended, ctx)
  BY DEF Decide
<1>6. CASE st # "none"
  BY <1>1, <1>5, <1>6 DEF ApplyGuardrails
<1>7. CASE st = "none" /\ intended = "HARD_STOP"
  BY <1>5, <1>7 DEF ApplyGuardrails
<1>8. CASE st = "none" /\ intended = "HUMAN_REVIEW"
  BY <1>5, <1>8 DEF ApplyGuardrails, RetryingActions
<1>9. CASE st = "none" /\ intended = "MESSAGE"
  BY <1>2, <1>4, <1>5, <1>9 DEF ApplyGuardrails, RetryingActions
<1>10. CASE st = "none" /\ intended \in RetryingActions
  <2>1. CASE ctx.confidence = "low"
    BY <1>5, <1>10, <2>1 DEF ApplyGuardrails, RetryingActions
  <2>2. CASE ctx.confidence # "low" /\ ctx.attempts >= ce
    BY <1>4, <1>5, <1>10, <2>2 DEF ApplyGuardrails, RetryingActions
  <2>3. CASE ctx.confidence # "low" /\ ctx.attempts < ce
    BY <1>4, <1>5, <1>10, <2>3 DEF ApplyGuardrails, RetryingActions
  <2>4. QED
    BY <1>4, <2>1, <2>2, <2>3
<1>11. QED
  BY <1>3, <1>1, <1>6, <1>7, <1>8, <1>9, <1>10

\* A decision is a record of its type, for the time it was asked for or later.
LEMMA DecisionTyped ==
  ASSUME NEW ctx, Readable(ctx), NEW d, d = Decide(ctx)
  PROVE  /\ d \in [action : RecoveryAction, maxAttempts : Nat,
                   blockedBy : Guardrail \cup {"none"}, due : Nat]
         /\ d.maxAttempts <= MaxAttempts /\ d.due >= ctx.now
<1>1. PICK ce \in Nat : ce = Ceiling(ctx) /\ ce <= MaxAttempts /\ 0 <= MaxAttempts
  BY CeilingBound, PolicyAssumption
<1>2. PICK late \in Nat : late = NextQuietEnd(ctx.now) /\ late >= ctx.now
  BY NextQuietEndAhead DEF Readable
<1>3. PICK a \in RecoveryAction, c \in {0, ce}, b \in Guardrail \cup {"none"},
           t \in {ctx.now, late} : d = Decision(a, c, b, t)
  <2>1. \E a \in RecoveryAction, c \in {0, ce}, b \in Guardrail \cup {"none"},
           t \in {ctx.now, late} : d = Decision(a, c, b, t)
    BY <1>1, <1>2, DecisionCases DEF Guardrail, Stops, RecoveryAction, RetryingActions
  <2>2. QED
    BY <2>1
<1>4. ctx.now \in Nat
  BY DEF Readable
<1>5. QED
  BY <1>1, <1>2, <1>3, <1>4 DEF Decision

=============================================================================
