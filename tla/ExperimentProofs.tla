-------------------------- MODULE ExperimentProofs --------------------------
(***************************************************************************)
(* TLAPS proofs about Experiment, for every calendar, batch, set of events *)
(* and choice of latencies: what a decision may permit and when it is due, *)
(* how the runs of the two strategies compare, and what the metrics add up *)
(* to.                                                                     *)
(***************************************************************************)
EXTENDS Experiment, PolicyProofs, WellFoundedInduction

-----------------------------------------------------------------------------
(* Time.                                                                   *)

LEMMA MinuteLasts == Minute \in Nat \ {0} /\ Hour = 60 * Minute /\ Day = 1440 * Minute
<1>1. Hour \in Nat \ {0} /\ Hour % 60 = 0 /\ Day = 24 * Hour
  BY DayLasts, TimingAssumption
<1>2. Hour \div 60 \in Nat /\ Hour = 60 * (Hour \div 60) + (Hour % 60)
  BY <1>1, Divided
<1>3. QED
  BY <1>1, <1>2 DEF Minute

LEMMA CalendarDays ==
  /\ Len(Calendar) \in Nat /\ Len(Calendar) > 2 /\ MonthStart(1) = 0
  /\ \A m \in 1..Len(Calendar) : MonthStart(m) \in Nat
<1>1. Calendar \in Seq(Nat) /\ Len(Calendar) \in Nat /\ Len(Calendar) > 2 /\ Calendar[1] = 0
  BY TimingAssumption
<1>2. Day \in Nat
  BY DayLasts
<1>3. ASSUME NEW m \in 1..Len(Calendar)
      PROVE  MonthStart(m) \in Nat
  <2>1. Calendar[m] \in Nat
    BY <1>1
  <2>2. QED
    BY <1>2, <2>1 DEF MonthStart
<1>4. QED
  BY <1>1, <1>2, <1>3 DEF MonthStart

\* Every moment of the calendar is in one of its months: in the first that ends later.
LEMMA MonthFound ==
  ASSUME NEW t \in Nat, t < MonthStart(Len(Calendar)), NEW m, m = MonthOf(t)
  PROVE  m \in Month /\ MonthStart(m) <= t /\ t < MonthStart(m + 1)
<1> DEFINE Later == {k \in Month : t < MonthStart(k + 1)}
<1>1. Len(Calendar) - 1 \in Month /\ Month \subseteq Nat /\ IsFiniteSet(Month)
  <2>1. Len(Calendar) - 1 \in Nat /\ Len(Calendar) - 1 >= 1
    BY CalendarDays
  <2>2. QED
    BY <2>1, FS_Interval DEF Month
<1>2. Later \in SUBSET Nat /\ IsFiniteSet(Later)
  BY <1>1, FS_Subset
<1>3. Later # {}
  <2>1. (Len(Calendar) - 1) + 1 = Len(Calendar)
    BY CalendarDays
  <2>2. QED
    BY <1>1, <2>1
<1>4. PICK k \in Later : \A j \in Later : k <= j
  <2> HIDE DEF Later
  <2>1. QED
    BY <1>2, <1>3, LeastNumber
<1>5. MonthStart(k) <= t
  <2>1. CASE k = 1
    BY <2>1, CalendarDays
  <2>2. CASE k # 1
    <3>1. k - 1 \in Month /\ (k - 1) + 1 = k /\ ~(k <= k - 1)
      BY <1>1, <2>2, CalendarDays DEF Month
    <3>2. k - 1 \notin Later
      BY <1>4, <3>1
    <3>3. ~(t < MonthStart(k))
      BY <3>1, <3>2
    <3>4. MonthStart(k) \in Nat
      BY <1>1, CalendarDays DEF Month
    <3>5. QED
      BY <3>3, <3>4
  <2>3. QED
    BY <2>1, <2>2
<1>6. k \in Month /\ MonthStart(k) <= t /\ t < MonthStart(k + 1)
  BY <1>4, <1>5
<1>7. QED
  BY <1>6 DEF MonthOf

\* 09:00 on the salary day is within the first four weeks of the month.
LEMMA InstantInMonth ==
  ASSUME NEW m \in 1..Len(Calendar), NEW day \in Nat
  PROVE  SalaryInstant(m, day) \in Nat /\ SalaryInstant(m, day) >= MonthStart(m)
<1>1. PICK c \in Nat : c = Least(28, Most(1, day)) - 1
  BY DEF Least, Most
<1>2. PICK s \in Nat : s = MonthStart(m)
  BY CalendarDays
<1>3. PICK e \in Nat : e = c * Day + 9 * Hour
  BY DayLasts
<1>4. SalaryInstant(m, day) = s + c * Day + 9 * Hour
  BY <1>1, <1>2 DEF SalaryInstant
<1>5. SalaryInstant(m, day) = s + e
  BY <1>3, <1>4, DayLasts
<1>6. QED
  BY <1>2, <1>3, <1>5

\* Rounding up to the minute is less than a minute late.
LEMMA RoundedUp ==
  ASSUME NEW a \in Nat, NEW b \in Nat, a < b
  PROVE  /\ MinutesUntil(a, b) \in Nat \ {0}
         /\ a + MinutesUntil(a, b) * Minute \in b..(b + Minute - 1)
<1>1. PICK w \in Nat : w = Minute /\ w > 0
  BY MinuteLasts
<1>2. PICK n \in Nat : n = b - a + w - 1 /\ n >= w
  BY <1>1
<1>3. n \div w \in Nat /\ n % w \in 0..(w - 1) /\ n = w * (n \div w) + (n % w)
  BY <1>1, Divided
<1>4. PICK q \in Nat : q = n \div w
  BY <1>3
<1>5. PICK r \in 0..(w - 1) : r = n % w /\ n = w * q + r
  BY <1>3, <1>4
<1>6. w * q = q * w /\ w * q \in Nat
  BY <1>1
<1>7. q # 0
  <2>1. q = 0 => n = r
    BY <1>1, <1>5
  <2>2. QED
    BY <1>2, <1>5, <2>1
<1>8. MinutesUntil(a, b) = q
  <2>1. (b - a + Minute - 1) \div Minute = q
    BY <1>1, <1>2, <1>4
  <2>2. QED
    BY <1>7, <2>1 DEF MinutesUntil, Most
<1>9. a + q * w = b + w - 1 - r
  BY <1>1, <1>2, <1>5, <1>6
<1>10. QED
  BY <1>1, <1>5, <1>7, <1>8, <1>9

\* What the salary delay is made of: this is the instant of now's month m, next the one
\* after it.
SalaryWait(now, day, m, this, next, delay) ==
    /\ m \in Month /\ this \in Nat /\ next \in Nat /\ now < next
    /\ \/ day = UnknownDay /\ delay = FundsLowFallbackDelay
       \/ day # UnknownDay /\ now < this /\ delay = MinutesUntil(now, this)
       \/ day # UnknownDay /\ now >= this /\ now < this + SalaryWindow /\ delay = 60
       \/ day # UnknownDay /\ delay = MinutesUntil(now, next)

LEMMA SalaryDelayCases ==
  ASSUME NEW now \in Nat, now < MonthStart(Len(Calendar)), NEW day \in Nat,
         NEW m, m = MonthOf(now), NEW this, this = SalaryInstant(m, day),
         NEW next, next = SalaryInstant(m + 1, day), NEW delay, delay = SalaryDelay(now, day)
  PROVE  SalaryWait(now, day, m, this, next, delay)
<1>1. m \in Month /\ now < MonthStart(m + 1)
  BY MonthFound
<1>2. m \in 1..Len(Calendar) /\ m + 1 \in 1..Len(Calendar)
  BY <1>1, CalendarDays DEF Month
<1>3. this \in Nat /\ next \in Nat /\ next >= MonthStart(m + 1) /\ MonthStart(m + 1) \in Nat
  BY <1>2, InstantInMonth, CalendarDays
<1>4. now < next
  BY <1>1, <1>3
<1>5. SalaryWindow \in Nat
  BY DayLasts DEF SalaryWindow
<1>6. \/ day = UnknownDay /\ delay = FundsLowFallbackDelay
      \/ day # UnknownDay /\ now < this /\ delay = MinutesUntil(now, this)
      \/ day # UnknownDay /\ now >= this /\ now < this + SalaryWindow /\ delay = 60
      \/ day # UnknownDay /\ delay = MinutesUntil(now, next)
  <2>1. CASE day = UnknownDay
    BY <2>1 DEF SalaryDelay
  <2>2. CASE day # UnknownDay /\ now < this
    BY <1>3, <2>2 DEF SalaryDelay
  <2>3. CASE day # UnknownDay /\ now >= this /\ now < this + SalaryWindow
    BY <1>3, <2>3 DEF SalaryDelay
  <2>4. CASE day # UnknownDay /\ ~(now < this) /\ ~(now >= this /\ now < this + SalaryWindow)
    BY <1>3, <2>4 DEF SalaryDelay
  <2>5. QED
    BY <2>1, <2>2, <2>3, <2>4
<1>7. QED
  BY <1>1, <1>3, <1>4, <1>6 DEF SalaryWait

\* For low funds one always waits.
LEMMA SalaryDelayWaits ==
  ASSUME NEW now \in Nat, now < MonthStart(Len(Calendar)), NEW day \in Nat
  PROVE  SalaryDelay(now, day) \in Nat \ {0}
<1>1. FundsLowFallbackDelay \in Nat \ {0}
  BY DEF FundsLowFallbackDelay
<1>2. PICK m, this, next, delay :
        /\ m = MonthOf(now) /\ this = SalaryInstant(m, day) /\ next = SalaryInstant(m + 1, day)
        /\ delay = SalaryDelay(now, day)
  OBVIOUS
<1>3. SalaryWait(now, day, m, this, next, delay)
  BY <1>2, SalaryDelayCases
<1>4. \A b \in Nat : now < b => MinutesUntil(now, b) \in Nat \ {0}
  BY RoundedUp
<1>5. QED
  BY <1>1, <1>2, <1>3, <1>4 DEF SalaryWait

\* A retry for low funds is due in the salary window of some month or in the hour after
\* it, in every calendar, for every salary day on file (time.ts, minutesUntilSalaryWindow).
LEMMA DueInSomeMonth ==
  ASSUME NEW n \in Nat, n + 1 = Len(Calendar),
         NEW now \in Nat, now < MonthStart(n), NEW day \in Nat, day # UnknownDay
  PROVE  DueWithTheSalary(now, day)
<1>1. now < MonthStart(Len(Calendar))
  <2>1. n >= 1 /\ n \in 1..(Len(Calendar) - 1)
    BY CalendarDays
  <2>2. Calendar[n + 1] - Calendar[n] \in 28..31
    BY <2>1, TimingAssumption
  <2>3. Calendar[n] \in Nat /\ Calendar[n + 1] \in Nat
    <3>1. Calendar \in Seq(Nat) /\ n \in 1..Len(Calendar) /\ n + 1 \in 1..Len(Calendar)
      BY <2>1, TimingAssumption, CalendarDays
    <3>2. QED
      BY <3>1
  <2>4. PICK e \in Nat : Calendar[n + 1] = Calendar[n] + e
    <3>1. PICK a \in Nat, b \in Nat : a = Calendar[n] /\ b = Calendar[n + 1] /\ b - a \in 28..31
      BY <2>2, <2>3
    <3>2. b = a + (b - a) /\ b - a \in Nat
      BY <3>1
    <3>3. QED
      BY <3>1, <3>2
  <2>5. Calendar[n + 1] * Day = Calendar[n] * Day + e * Day /\ e * Day \in Nat
    BY <2>3, <2>4, DayLasts
  <2>6. MonthStart(n) \in Nat /\ MonthStart(n + 1) \in Nat /\ MonthStart(n) <= MonthStart(n + 1)
    BY <2>3, <2>5, DayLasts DEF MonthStart
  <2>7. QED
    BY <2>1, <2>6
<1>2. PICK m, this, next, delay :
        /\ m = MonthOf(now) /\ this = SalaryInstant(m, day) /\ next = SalaryInstant(m + 1, day)
        /\ delay = SalaryDelay(now, day)
  OBVIOUS
<1>3. SalaryWait(now, day, m, this, next, delay)
  BY <1>1, <1>2, SalaryDelayCases
<1>4. m \in Month /\ this \in Nat /\ next \in Nat /\ now < next
  BY <1>3 DEF SalaryWait
<1>5. \/ now < this /\ delay = MinutesUntil(now, this)
      \/ now >= this /\ now < this + SalaryWindow /\ delay = 60
      \/ delay = MinutesUntil(now, next)
  BY <1>3 DEF SalaryWait
<1>6. m + 1 \in Month
  <2>1. m # n
    <3>1. MonthStart(m) <= now
      BY <1>1, <1>2, MonthFound
    <3>2. MonthStart(m) \in Nat
      BY <1>4, CalendarDays DEF Month
    <3>3. QED
      BY <3>1, <3>2
  <2>2. QED
    BY <1>4, <2>1, CalendarDays DEF Month
<1>7. PICK w \in Nat, h \in Nat, s \in Nat :
        w = Minute /\ h = Hour /\ s = SalaryWindow /\ w > 0 /\ h = 60 * w
  BY MinuteLasts, DayLasts DEF SalaryWindow
<1>8. CASE now < this /\ delay = MinutesUntil(now, this)
  <2>1. now + delay * Minute \in this..(this + Minute - 1)
    BY <1>4, <1>8, RoundedUp
  <2>2. (now + delay * Minute) - SalaryInstant(m, day) \in 0..(SalaryWindow + Hour)
    BY <1>2, <1>4, <1>7, <2>1
  <2>3. QED
    BY <1>2, <1>4, <2>2 DEF DueWithTheSalary
<1>9. CASE now >= this /\ now < this + SalaryWindow /\ delay = 60
  <2>1. (now + delay * Minute) - SalaryInstant(m, day) \in 0..(SalaryWindow + Hour)
    BY <1>2, <1>4, <1>7, <1>9
  <2>2. QED
    BY <1>2, <1>4, <2>1 DEF DueWithTheSalary
<1>10. CASE delay = MinutesUntil(now, next)
  <2>1. now + delay * Minute \in next..(next + Minute - 1)
    BY <1>4, <1>10, RoundedUp
  <2>2. (now + delay * Minute) - SalaryInstant(m + 1, day) \in 0..(SalaryWindow + Hour)
    BY <1>2, <1>4, <1>7, <2>1
  <2>3. QED
    BY <1>2, <1>6, <2>2 DEF DueWithTheSalary
<1>11. QED
  BY <1>5, <1>8, <1>9, <1>10

\* Whenever in the month a charge fails for low funds, the retry waits for the salary.
THEOREM RetriesWaitForSalary == Spec => []FundsLowWaitsForMoney
<1>1. ASSUME NEW now \in Moments, NEW day \in SalaryDays
      PROVE  DueWithTheSalary(now, day)
  <2>1. PICK n : n = Len(Calendar) - 1
    OBVIOUS
  <2>2. n \in Nat /\ n + 1 = Len(Calendar)
    BY <2>1, CalendarDays
  <2>3. now \in Nat /\ now < MonthStart(n) /\ day \in Nat /\ day # UnknownDay
    BY <2>1, ExperimentAssumption
  <2>4. QED
    BY <2>2, <2>3, DueInSomeMonth
<1>2. FundsLowWaitsForMoney
  BY <1>1 DEF FundsLowWaitsForMoney
<1>3. QED
  BY <1>2, PTL

-----------------------------------------------------------------------------
(* What a decision rests on, and what it may permit.                       *)

\* Among the rules that match, a structural one has the least priority number.
LEMMA StructuralWins ==
  ASSUME NEW found \in SUBSET RuleCause, found \cap Structural # {}
  PROVE  Winner(found) \in Structural
<1>1. PICK s \in found : s \in Structural /\ \A d \in found : Priority[s] <= Priority[d]
  <2>1. CASE "MANDATE_INVALID" \in found
    BY <2>1 DEF RuleCause, Structural, Priority
  <2>2. CASE "MANDATE_INVALID" \notin found
    <3>1. "PAYMENT_METHOD_INVALID" \in found
      BY <2>2 DEF Structural
    <3>2. \A d \in found : Priority["PAYMENT_METHOD_INVALID"] <= Priority[d]
      BY <2>2 DEF RuleCause, Priority
    <3>3. QED
      BY <3>1, <3>2 DEF Structural
  <2>3. QED
    BY <2>1, <2>2
<1>2. PICK w : w = Winner(found)
  OBVIOUS
<1>3. w \in found /\ \A d \in found : Priority[w] <= Priority[d]
  <2>1. w \in found /\ \A d \in found : Priority[w] <= Priority[d]
    BY <1>1, <1>2 DEF Winner
  <2>2. QED
    BY <2>1
<1>4. Priority[w] <= 20
  <2>1. Priority[s] <= 20 /\ Priority[s] \in Nat
    BY <1>1 DEF Structural, Priority
  <2>2. Priority[w] <= Priority[s] /\ Priority[w] \in Nat
    BY <1>1, <1>3 DEF RuleCause, Priority
  <2>3. QED
    BY <2>1, <2>2
<1>5. w \in Structural
  BY <1>3, <1>4 DEF RuleCause, Structural, Priority
<1>6. QED
  BY <1>2, <1>5

\* A playbook that stops is not overridden by anything but another stop.
LEMMA StopsArePermanent ==
  ASSUME NEW ctx, ctx.cause \in Structural
  PROVE  Decide(ctx).action = "HARD_STOP"
<1>1. IntendedAction(ctx) = "HARD_STOP"
  BY DEF IntendedAction, Structural
<1>2. QED
  BY <1>1 DEF Decide, ApplyGuardrails, Decision

\* Evidence that the mandate or the instrument is gone stops a payment, whatever other
\* rules the event matches and whatever texts it carries (rules.ts, precedence).
THEOREM EvidenceStops == Spec => []StopsOutrankRetries
<1>1. ASSUME NEW e \in Events
      PROVE  StopsIfStructural(e)
  <2>1. PICK failure, found : failure = Normalize(e) /\ found = Candidates(NormalizeInput(failure))
    OBVIOUS
  <2>2. SUFFICES ASSUME found \cap Structural # {}
                 PROVE  Decide(FreshContext(failure, 0)).action = "HARD_STOP"
    BY <2>1 DEF StopsIfStructural
  <2>3. found \in SUBSET RuleCause
    BY <2>1 DEF Candidates
  <2>4. Winner(found) \in Structural
    BY <2>2, <2>3, StructuralWins
  <2>5. Classify(failure).cause = Winner(found)
    BY <2>1, <2>2 DEF Classify
  <2>6. FreshContext(failure, 0).cause = Winner(found)
    BY <2>5 DEF FreshContext, Diagnose
  <2>7. QED
    BY <2>4, <2>6, StopsArePermanent
<1>2. StopsOutrankRetries
  BY <1>1 DEF StopsOutrankRetries
<1>3. QED
  BY <1>2, PTL

\* A context whose low funds can be waited for within the calendar.
Timely(ctx) ==
    \/ ctx.salaryDay = UnknownDay
    \/ ctx.salaryDay \in Nat /\ ctx.now < MonthStart(Len(Calendar))

\* Every playbook that retries says how long to wait, and only over another rail at once.
LEMMA PlaybookWaits ==
  ASSUME NEW ctx, Readable(ctx), Timely(ctx), IntendedAction(ctx) \in RetryingActions
  PROVE  /\ IntendedDelay(ctx) \in Nat
         /\ IntendedAction(ctx) # "SWITCH_RAIL" => IntendedDelay(ctx) # 0
<1>1. CASE ctx.cause = "CUSTOMER_FUNDS_LOW"
  <2>1. IntendedDelay(ctx) = SalaryDelay(ctx.now, ctx.salaryDay)
    BY <1>1 DEF IntendedDelay
  <2>2. CASE ctx.salaryDay = UnknownDay
    BY <2>1, <2>2 DEF SalaryDelay, FundsLowFallbackDelay
  <2>3. CASE ctx.salaryDay # UnknownDay
    <3>1. PICK now \in Nat, day \in Nat :
            now = ctx.now /\ day = ctx.salaryDay /\ now < MonthStart(Len(Calendar))
      BY <2>3 DEF Readable, Timely
    <3>2. SalaryDelay(now, day) \in Nat \ {0}
      BY <3>1, SalaryDelayWaits
    <3>3. QED
      BY <2>1, <3>1, <3>2
  <2>4. QED
    BY <2>2, <2>3
<1>2. CASE ctx.cause \in {"ISSUER_TEMPORARY_FAILURE", "GATEWAY_FAILURE"}
  BY <1>2 DEF IntendedDelay, IssuerRetryDelay, CircuitCooldown, GatewayRecheck
<1>3. CASE ctx.cause = "CUSTOMER_ABANDONMENT"
  <2>1. IntendedAction(ctx) \in {"SWITCH_RAIL", "MESSAGE"}
    BY <1>3 DEF IntendedAction
  <2>2. IntendedDelay(ctx) = 0
    BY <1>3 DEF IntendedDelay
  <2>3. QED
    BY <2>1, <2>2 DEF RetryingActions
<1>4. ctx.cause \in {"CUSTOMER_FUNDS_LOW", "ISSUER_TEMPORARY_FAILURE", "GATEWAY_FAILURE",
                      "CUSTOMER_ABANDONMENT"}
  BY DEF IntendedAction, RetryingActions
<1>5. QED
  BY <1>1, <1>2, <1>3, <1>4

\* What is retried is retried later, unless over another rail or instead of a message;
\* and nothing is due before the time of its decision.
LEMMA DecisionWaits ==
  ASSUME NEW ctx, Readable(ctx), Timely(ctx), NEW d, d = Decide(ctx)
  PROVE  /\ d.action \in RetryingActions => Delay(ctx, d) \in Nat
         /\ /\ d.action \in {"RETRY", "WAIT"}
            /\ d.blockedBy # "message_daily_limit_reached"
            => Delay(ctx, d) # 0
         /\ NextEligible(ctx, d) # NoDelay => NextEligible(ctx, d) >= ctx.now
<1>1. PICK now \in Nat : now = ctx.now
  BY DEF Readable
<1>2. PICK late \in Nat : late = NextQuietEnd(now) /\ late > now
  BY NextQuietEndAhead
<1>3. PICK intended, ce, st : intended = IntendedAction(ctx) /\ ce = Ceiling(ctx) /\ st = StoppedBy(ctx)
  OBVIOUS
<1>4. \/ d.action \in {"HARD_STOP", "HUMAN_REVIEW"} /\ d.blockedBy # "message_daily_limit_reached"
      \/ /\ intended \in RetryingActions
         /\ \/ d.action = intended /\ d.blockedBy = "none"
            \/ /\ intended # "SWITCH_RAIL"
               /\ d.action = "WAIT" /\ d.blockedBy = "circuit_breaker_open"
      \/ d.action = "WAIT" /\ d.blockedBy = "message_daily_limit_reached" /\ d.due = late
      \/ d.action = "MESSAGE" /\ d.due \in {now, late}
  BY <1>1, <1>2, <1>3, DecisionCases DEF Decision, Stops
<1>5. CASE d.action \in {"HARD_STOP", "HUMAN_REVIEW"} /\ d.blockedBy # "message_daily_limit_reached"
  BY <1>5 DEF RetryingActions, NextEligible
<1>6. CASE d.action = "MESSAGE" /\ d.due \in {now, late}
  BY <1>1, <1>2, <1>6 DEF RetryingActions, NextEligible
<1>7. CASE d.action = "WAIT" /\ d.blockedBy = "message_daily_limit_reached" /\ d.due = late
  <2>1. Delay(ctx, d) = MinutesUntil(now, late)
    BY <1>1, <1>7 DEF Delay
  <2>2. MinutesUntil(now, late) \in Nat
    BY <1>2, RoundedUp
  <2>3. NextEligible(ctx, d) = late
    BY <1>7 DEF NextEligible
  <2>4. QED
    BY <1>1, <1>2, <1>7, <2>1, <2>2, <2>3
<1>8. CASE /\ intended \in RetryingActions
           /\ \/ d.action = intended /\ d.blockedBy = "none"
              \/ intended # "SWITCH_RAIL" /\ d.action = "WAIT" /\ d.blockedBy = "circuit_breaker_open"
  <2>1. PICK w \in Nat : w = IntendedDelay(ctx) /\ (intended # "SWITCH_RAIL" => w # 0)
    BY <1>3, <1>8, PlaybookWaits
  <2>2. Delay(ctx, d) \in Nat /\ (intended # "SWITCH_RAIL" => Delay(ctx, d) # 0)
    <3>1. CASE d.blockedBy = "none"
      BY <1>8, <2>1, <3>1 DEF Delay, RetryingActions
    <3>2. CASE d.blockedBy = "circuit_breaker_open" /\ d.action = "WAIT"
      BY <2>1, <3>2 DEF Delay, Most, CircuitCooldown
    <3>3. QED
      BY <1>8, <3>1, <3>2
  <2>3. PICK v \in Nat : v = Delay(ctx, d)
    BY <2>2
  <2>4. NextEligible(ctx, d) = now + v * Minute
    BY <1>1, <1>8, <2>3 DEF NextEligible, RetryingActions
  <2>5. v * Minute \in Nat
    BY <2>3, MinuteLasts
  <2>6. QED
    BY <1>1, <1>8, <2>2, <2>4, <2>5 DEF RetryingActions
<1>9. QED
  BY <1>4, <1>5, <1>6, <1>7, <1>8

\* What a decision permits, the playbook does, or the guardrail that made it.
LEMMA PermissionsRestrict ==
  ASSUME NEW ctx, Readable(ctx), NEW d, d = Decide(ctx)
  PROVE  /\ Permissions(d.action) \subseteq Permissions(IntendedAction(ctx)) \cup Loosened(d)
         /\ "scheduleRetry" \in Permissions(d.action) =>
                AttemptsRemaining(ctx, d) > 0 \/ d.blockedBy = "message_daily_limit_reached"
<1>1. PICK intended, ce, st : intended = IntendedAction(ctx) /\ ce = Ceiling(ctx) /\ st = StoppedBy(ctx)
  OBVIOUS
<1>2. ce \in Nat /\ ctx.attempts \in Nat
  BY <1>1, CeilingBound DEF Readable
<1>3. \/ d.action = "HARD_STOP"
      \/ d.action = "HUMAN_REVIEW"
      \/ /\ intended \in RetryingActions /\ ctx.attempts < ce /\ d.maxAttempts = ce
         /\ d.action = intended \/ (intended # "SWITCH_RAIL" /\ d.action = "WAIT")
      \/ /\ intended = "MESSAGE"
         /\ d.action = "WAIT" /\ d.blockedBy = "message_daily_limit_reached"
      \/ intended = "MESSAGE" /\ d.action = "MESSAGE"
  <2>1. \A a, c, b, t : d = Decision(a, c, b, t) =>
                            d.action = a /\ d.maxAttempts = c /\ d.blockedBy = b
    BY DEF Decision
  <2>2. QED
    BY <1>1, <2>1, DecisionCases
<1>4. CASE d.action = "HARD_STOP"
  <2>1. d.blockedBy # "message_daily_limit_reached"
    BY <1>1, <1>4, DecisionCases DEF Decision, Stops, RetryingActions
  <2>2. QED
    BY <1>4, <2>1 DEF Permissions, Loosened
<1>5. CASE d.action = "HUMAN_REVIEW"
  BY <1>5 DEF Permissions
<1>6. CASE /\ intended \in RetryingActions /\ ctx.attempts < ce /\ d.maxAttempts = ce
           /\ d.action = intended \/ (intended # "SWITCH_RAIL" /\ d.action = "WAIT")
  <2>1. Permissions(d.action) \subseteq Permissions(intended)
    BY <1>6 DEF Permissions, RetryingActions
  <2>2. AttemptsRemaining(ctx, d) > 0
    BY <1>2, <1>6 DEF AttemptsRemaining, Most, RetryingActions
  <2>3. QED
    BY <1>1, <2>1, <2>2
<1>7. CASE /\ intended = "MESSAGE"
           /\ d.action = "WAIT" /\ d.blockedBy = "message_daily_limit_reached"
  BY <1>1, <1>7 DEF Permissions, Loosened
<1>8. CASE intended = "MESSAGE" /\ d.action = "MESSAGE"
  BY <1>1, <1>8 DEF Permissions
<1>9. QED
  BY <1>3, <1>4, <1>5, <1>6, <1>7, <1>8

\* No guardrail loosens what the playbook permits but the one that says so, and nothing is
\* due before it is decided on, in every context and at every hour (guardrails.ts).
THEOREM GuardrailsOnlyRestrict == Spec => []GuardrailsRestrict
<1>1. ASSUME NEW ctx \in Contexts(Hours)
      PROVE  Restricts(ctx)
  <2>1. Readable(ctx) /\ Timely(ctx)
    <3>1. ctx.now \in Hours /\ ctx.attempts \in 1..4 /\ ctx.messages \in 0..2
          /\ ctx.killSwitch \in BOOLEAN /\ ctx.mandateRevoked \in BOOLEAN
          /\ ctx.salaryDay = UnknownDay
      BY DEF Contexts
    <3>2. ctx.now \in Nat
      BY <3>1, ExperimentAssumption
    <3>3. QED
      BY <3>1, <3>2 DEF Readable, Timely
  <2>2. PICK d : d = Decide(ctx)
    OBVIOUS
  <2>3. PICK t : t = TimedDecision(ctx)
    OBVIOUS
  <2>4. /\ t.permitted = Permissions(d.action) /\ t.action = d.action /\ t.blockedBy = d.blockedBy
        /\ t.attemptsRemaining = AttemptsRemaining(ctx, d) /\ t.nextEligible = NextEligible(ctx, d)
    BY <2>2, <2>3 DEF TimedDecision
  <2>5. Loosened(t) = Loosened(d)
    BY <2>4 DEF Loosened
  <2>6. /\ t.permitted \subseteq Permissions(IntendedAction(ctx)) \cup Loosened(t)
        /\ "scheduleRetry" \in t.permitted =>
               t.attemptsRemaining > 0 \/ t.blockedBy = "message_daily_limit_reached"
    BY <2>1, <2>2, <2>4, <2>5, PermissionsRestrict
  <2>7. t.nextEligible # NoDelay => t.nextEligible >= ctx.now
    BY <2>1, <2>2, <2>4, DecisionWaits
  <2>8. QED
    BY <2>3, <2>6, <2>7 DEF Restricts
<1>2. GuardrailsRestrict
  BY <1>1 DEF GuardrailsRestrict
<1>3. QED
  BY <1>2, PTL

-----------------------------------------------------------------------------
(* The dataset.                                                            *)

\* After this the run of a payment is over, whatever its attempts take.
Late(p) == p.origin + 22 * Day

\* What is known of every payment of a batch.
Sampled(p) ==
    /\ p.method \in DOMAIN Kinds /\ p.truth.kind \in Kinds[p.method]
    /\ p.day \in Nat /\ p.origin \in Nat /\ Late(p) <= MonthStart(Len(Calendar))
    /\ p.truth.resolvesAt \in Int /\ p.truth.cooperates \in BOOLEAN

Outages == {"ISSUER_TEMPORARY", "GATEWAY_5XX"}
AllKinds == Outages \cup {"FUNDS_LOW"} \cup Permanent \cup NeedsNudge

LEMMA KindsKnown ==
  \A method \in DOMAIN Kinds : Kinds[method] \subseteq AllKinds
  BY DEF Kinds, AllKinds, Outages, Permanent, NeedsNudge

LEMMA CreditIsLater ==
  ASSUME NEW origin \in Nat, origin + 22 * Day <= MonthStart(Len(Calendar)), NEW day \in Nat
  PROVE  Credit(origin, day) \in Nat
<1>1. origin < MonthStart(Len(Calendar))
  <2>1. MonthStart(Len(Calendar)) \in Nat
    BY CalendarDays
  <2>2. QED
    BY <2>1, DayLasts
<1>2. PICK m : m = MonthOf(origin)
  OBVIOUS
<1>3. m \in Month
  BY <1>1, <1>2, MonthFound
<1>4. m \in 1..Len(Calendar) /\ m + 1 \in 1..Len(Calendar)
  BY <1>3, CalendarDays DEF Month
<1>5. SalaryInstant(m, day) \in Nat /\ SalaryInstant(m + 1, day) \in Nat
  BY <1>4, InstantInMonth
<1>6. QED
  BY <1>2, <1>5 DEF Credit

LEMMA MembersSampled ==
  ASSUME NEW i \in DOMAIN Batch, NEW p \in Members[i]
  PROVE  Sampled(p)
<1>1. PICK profile, kind, truth :
        /\ profile \in Batch[i] /\ kind \in Kinds[profile.method]
        /\ truth \in Truths(kind, profile.origin, profile.day)
        /\ p = [method |-> profile.method, day |-> profile.day, origin |-> profile.origin,
                truth |-> truth]
  <2>1. p \in UNION { { [method |-> q.method, day |-> q.day, origin |-> q.origin, truth |-> t] :
                           t \in UNION {Truths(k, q.origin, q.day) : k \in Kinds[q.method]} } :
                     q \in Batch[i] }
    BY DEF Members
  <2>2. QED
    BY <2>1
<1>2. profile \in Profile
  <2>1. Batch[i] \in SUBSET Profile
    BY ExperimentAssumption
  <2>2. QED
    BY <1>1, <2>1
<1>3. /\ p.method = profile.method /\ p.day = profile.day /\ p.origin = profile.origin
      /\ p.truth = truth
  BY <1>1
<1>4. /\ profile.method \in DOMAIN Kinds /\ profile.day \in 1..28 /\ profile.origin \in Nat
  BY <1>2 DEF Profile
<1>5. profile.origin + 22 * Day <= MonthStart(Len(Calendar))
  BY <1>1, ExperimentAssumption
<1>6. truth.kind = kind /\ truth.cooperates \in BOOLEAN
      /\ truth.resolvesAt \in Resolutions(kind, profile.origin, profile.day)
  BY <1>1 DEF Truths
<1>7. kind \in AllKinds
  BY <1>1, <1>4, KindsKnown
<1>8. truth.resolvesAt \in Int
  <2>1. CASE kind \in Outages
    <3>1. PICK s \in OutageSeconds[kind] : truth.resolvesAt = profile.origin + s
      BY <1>6, <2>1 DEF Resolutions, Outages
    <3>2. s \in Nat
      BY <2>1, <3>1 DEF OutageSeconds, Outages
    <3>3. QED
      BY <1>4, <3>1, <3>2
  <2>2. CASE kind = "FUNDS_LOW"
    <3>1. Credit(profile.origin, profile.day) \in Nat
      <4>1. PICK o \in Nat, day \in Nat : o = profile.origin /\ day = profile.day
        BY <1>4
      <4>2. o + 22 * Day <= MonthStart(Len(Calendar))
        BY <1>5, <4>1
      <4>3. Credit(o, day) \in Nat
        BY <4>2, CreditIsLater
      <4>4. QED
        BY <4>1, <4>3
    <3>2. truth.resolvesAt \in {profile.origin + 1, profile.origin + 6}
                     \cup {Credit(profile.origin, profile.day) + h * Hour : h \in {-6, 0, 18}}
      BY <1>6, <2>2 DEF Resolutions
    <3>3. \A h \in {-6, 0, 18} : h * Hour \in Int
      BY DayLasts
    <3>4. QED
      BY <1>4, <3>1, <3>2, <3>3
  <2>3. CASE kind \in Permanent \cup NeedsNudge
    BY <1>6, <2>3 DEF Resolutions, Permanent, NeedsNudge, Never
  <2>4. QED
    BY <1>7, <2>1, <2>2, <2>3 DEF AllKinds
<1>9. Late(p) <= MonthStart(Len(Calendar))
  BY <1>3, <1>5 DEF Late
<1>10. p.method \in DOMAIN Kinds /\ p.truth.kind \in Kinds[p.method]
  BY <1>1, <1>3, <1>4, <1>6, Zenon
<1>11. p.day \in Nat /\ p.origin \in Nat
  BY <1>3, <1>4
<1>12. p.truth.resolvesAt \in Int /\ p.truth.cooperates \in BOOLEAN
  BY <1>3, <1>6, <1>8, Zenon
<1>13. QED
  BY <1>9, <1>10, <1>11, <1>12, Zenon DEF Sampled

\* A batch is a sequence of such payments, and not empty.
LEMMA BatchesSampled ==
  ASSUME NEW b \in Batches
  PROVE  /\ b # <<>> /\ Len(b) \in Nat /\ Len(b) >= 1 /\ DOMAIN b = 1..Len(b)
         /\ \A i \in 1..Len(b) : Sampled(b[i])
<1>1. PICK n \in Nat : n = Len(Batch) /\ n >= 1 /\ DOMAIN Batch = 1..n
  BY ExperimentAssumption
<1>2. PICK S : S = UNION {Members[i] : i \in DOMAIN Batch}
  OBVIOUS
<1>3. b \in [1..n -> S] /\ \A i \in 1..n : b[i] \in Members[i]
  BY <1>1, <1>2 DEF Batches
<1>4. b \in Seq(S)
  BY <1>3
<1>5. Len(b) = n /\ DOMAIN b = 1..n
  BY <1>3, <1>4
<1>6. \A i \in 1..n : Sampled(b[i])
  BY <1>1, <1>3, MembersSampled
<1>7. QED
  BY <1>1, <1>4, <1>5, <1>6

-----------------------------------------------------------------------------
(* The desk's decisions.                                                   *)

Endings == {"none", "RECOVERED", "EXHAUSTED", "HARD_STOP", "HUMAN_REVIEW", "MESSAGE_LIMIT"}
RunRecord ==
    [clock : Nat, attempts : Nat, messages : Nat, rail : BOOLEAN, recovered : BOOLEAN,
     endedBy : Endings, passes : Nat]

\* What the desk tells the policy engine of payment p in run r.
DeskContext(p, r) ==
    LET d == Diagnosed[p.method][p.truth.kind]
    IN  [cause |-> d.cause, confidence |-> d.confidence,
         method |-> p.method, status |-> "FAILED", attempts |-> r.attempts,
         messages |-> r.messages, railSwitched |-> r.rail,
         mandateRevoked |-> FALSE, killSwitch |-> FALSE, breaker |-> "CLOSED",
         now |-> r.clock, salaryDay |-> p.day]

\* A run within its window.
Within(p, r) == r \in RunRecord /\ p.origin <= r.clock /\ r.clock < Late(p)

LEMMA KindSeen ==
  ASSUME NEW p, Sampled(p)
  PROVE  /\ p.truth.kind \in AllKinds
         /\ Diagnosed[p.method][p.truth.kind].cause = SeenAs[p.truth.kind]
         /\ p.truth.kind # "UNKNOWN" => Diagnosed[p.method][p.truth.kind].confidence = "high"
<1>1. p.method \in DOMAIN Kinds /\ p.truth.kind \in Kinds[p.method]
  BY DEF Sampled
<1>2. Diagnosed[p.method][p.truth.kind] =
        [cause |-> SeenAs[p.truth.kind],
         confidence |-> IF p.truth.kind = "UNKNOWN" THEN "low" ELSE "high"]
  BY <1>1, DescriptorAssumption
<1>3. QED
  BY <1>1, <1>2, KindsKnown

LEMMA ContextKnown ==
  ASSUME NEW p, Sampled(p), NEW r, Within(p, r), NEW ctx, ctx = DeskContext(p, r)
  PROVE  /\ Readable(ctx) /\ Timely(ctx) /\ StoppedBy(ctx) = "none" /\ ctx.breaker = "CLOSED"
         /\ ctx.attempts = r.attempts /\ ctx.messages = r.messages
         /\ ctx.cause = SeenAs[p.truth.kind]
         /\ p.truth.kind # "UNKNOWN" => ctx.confidence = "high"
<1>1. /\ ctx.now = r.clock /\ ctx.salaryDay = p.day /\ ctx.attempts = r.attempts
      /\ ctx.messages = r.messages /\ ctx.breaker = "CLOSED"
      /\ ctx.killSwitch = FALSE /\ ctx.mandateRevoked = FALSE /\ ctx.status = "FAILED"
      /\ ctx.cause = Diagnosed[p.method][p.truth.kind].cause
      /\ ctx.confidence = Diagnosed[p.method][p.truth.kind].confidence
  BY DEF DeskContext
<1>2. r.clock \in Nat /\ r.attempts \in Nat /\ r.messages \in Nat
  BY DEF Within, RunRecord
<1>3. StoppedBy(ctx) = "none"
  BY <1>1 DEF StoppedBy
<1>4. Readable(ctx)
  BY <1>1, <1>2 DEF Readable
<1>5. Timely(ctx)
  <2>1. PICK end \in Nat : end = MonthStart(Len(Calendar))
    BY CalendarDays
  <2>2. p.day \in Nat /\ p.origin \in Nat /\ Late(p) \in Nat /\ Late(p) <= end
    BY <2>1, DayLasts DEF Sampled, Late
  <2>3. r.clock < end
    BY <1>2, <2>1, <2>2 DEF Within
  <2>4. QED
    BY <1>1, <2>1, <2>2, <2>3 DEF Timely
<1>6. QED
  BY <1>1, <1>3, <1>4, <1>5, KindSeen

\* What is permanent is not retried and nobody is written to.
LEMMA PermanentDecision ==
  ASSUME NEW p, Sampled(p), NEW r, Within(p, r), p.truth.kind \in Permanent
  PROVE  Decide(DeskContext(p, r)).action \in {"HARD_STOP", "HUMAN_REVIEW"}
<1>1. PICK ctx : ctx = DeskContext(p, r)
  OBVIOUS
<1>2. ctx.cause \in {"PAYMENT_METHOD_INVALID", "MANDATE_INVALID", "UNKNOWN"}
  BY <1>1, ContextKnown DEF SeenAs, Permanent
<1>3. IntendedAction(ctx) \in {"HARD_STOP", "HUMAN_REVIEW"}
  BY <1>2 DEF IntendedAction
<1>4. StoppedBy(ctx) = "none"
  BY <1>1, ContextKnown
<1>5. Decide(ctx).action \in {"HARD_STOP", "HUMAN_REVIEW"}
  BY <1>3, <1>4 DEF Decide, ApplyGuardrails, Decision, RetryingActions
<1>6. QED
  BY <1>1, <1>5

\* Where the customer has to act, one only waits instead of another message.
LEMMA NudgeDecision ==
  ASSUME NEW p, Sampled(p), NEW r, Within(p, r), p.truth.kind \in NeedsNudge
  PROVE  /\ Decide(DeskContext(p, r)).action \notin {"HARD_STOP", "RETRY"}
         /\ Decide(DeskContext(p, r)).action = "WAIT" => r.messages >= MaxMessagesPerDay
<1>1. PICK ctx : ctx = DeskContext(p, r)
  OBVIOUS
<1>2. ctx.cause \in {"CUSTOMER_ABANDONMENT", "CUSTOMER_AUTH_FAILURE"} /\ ctx.messages = r.messages
  BY <1>1, ContextKnown DEF SeenAs, NeedsNudge
<1>3. IntendedAction(ctx) \in {"SWITCH_RAIL", "MESSAGE"}
  BY <1>2 DEF IntendedAction
<1>4. StoppedBy(ctx) = "none" /\ Readable(ctx)
  BY <1>1, ContextKnown
<1>5. /\ Decide(ctx).action \notin {"HARD_STOP", "RETRY"}
      /\ Decide(ctx).action = "WAIT" => ctx.messages >= MaxMessagesPerDay
  BY <1>3, <1>4 DEF Decide, ApplyGuardrails, Decision, RetryingActions
<1>6. QED
  BY <1>1, <1>2, <1>5

\* What waiting cures is retried, later, until the attempts of its cause are used up.
LEMMA TransientDecision ==
  ASSUME NEW p, Sampled(p), NEW r, Within(p, r), p.truth.kind \in Outages \cup {"FUNDS_LOW"},
         NEW ctx, ctx = DeskContext(p, r), NEW d, d = Decide(ctx)
  PROVE  /\ CauseMaxAttempts(SeenAs[p.truth.kind]) = 3
         /\ \/ d.action = "HUMAN_REVIEW" /\ r.attempts >= Least(3, MaxAttempts)
            \/ /\ d.action \in {"RETRY", "WAIT"} /\ r.attempts < Least(3, MaxAttempts)
               /\ Delay(ctx, d) \in Nat /\ Delay(ctx, d) # 0
<1>1. ctx.cause = SeenAs[p.truth.kind] /\ ctx.confidence = "high" /\ ctx.attempts = r.attempts
      /\ StoppedBy(ctx) = "none" /\ ctx.breaker = "CLOSED" /\ Readable(ctx) /\ Timely(ctx)
  BY ContextKnown DEF Outages
<1>2. ctx.cause \in {"CUSTOMER_FUNDS_LOW", "ISSUER_TEMPORARY_FAILURE", "GATEWAY_FAILURE"}
  BY <1>1 DEF SeenAs, Outages
<1>3. IntendedAction(ctx) \in {"RETRY", "WAIT"} /\ CauseMaxAttempts(ctx.cause) = 3
  BY <1>2 DEF IntendedAction, CauseMaxAttempts
<1>4. PICK ce \in Nat : ce = Ceiling(ctx) /\ ce = Least(3, MaxAttempts)
  BY <1>3, CeilingBound DEF Ceiling
<1>5. r.attempts \in Nat
  BY DEF Within, RunRecord
<1>6. CASE r.attempts >= ce
  <2>1. d.action = "HUMAN_REVIEW"
    BY <1>1, <1>3, <1>4, <1>6 DEF Decide, ApplyGuardrails, Decision, RetryingActions
  <2>2. QED
    BY <1>1, <1>3, <1>4, <1>6, <2>1
<1>7. CASE r.attempts < ce
  <2>1. d.action \in {"RETRY", "WAIT"} /\ d.blockedBy = "none"
    BY <1>1, <1>3, <1>4, <1>5, <1>7 DEF Decide, ApplyGuardrails, Decision, RetryingActions
  <2>2. Delay(ctx, d) \in Nat /\ Delay(ctx, d) # 0
    BY <1>1, <2>1, DecisionWaits DEF RetryingActions
  <2>3. QED
    BY <1>1, <1>3, <1>4, <1>7, <2>1, <2>2
<1>8. QED
  BY <1>4, <1>5, <1>6, <1>7

\* Whatever is decided, there is a delay to wait for, and no message is one too many.
LEMMA DeskDecides ==
  ASSUME NEW p, Sampled(p), NEW r, Within(p, r), NEW ctx, ctx = DeskContext(p, r),
         NEW d, d = Decide(ctx)
  PROVE  /\ d.action \in RecoveryAction
         /\ d.action \in RetryingActions => Delay(ctx, d) \in Nat
         /\ d.action = "MESSAGE" => r.messages < MaxMessagesPerDay
<1>1. Readable(ctx) /\ Timely(ctx) /\ ctx.messages = r.messages
  BY ContextKnown
<1>2. d.action \in RecoveryAction
  BY <1>1, DecisionTyped
<1>3. d.action \in RetryingActions => Delay(ctx, d) \in Nat
  BY <1>1, DecisionWaits
<1>4. d.action = "MESSAGE" => r.messages < MaxMessagesPerDay
  <2>1. PICK intended, ce, st : intended = IntendedAction(ctx) /\ ce = Ceiling(ctx) /\ st = StoppedBy(ctx)
    OBVIOUS
  <2>2. \A a, c, b, t : d = Decision(a, c, b, t) => d.action = a
    BY DEF Decision
  <2>3. QED
    BY <1>1, <2>1, <2>2, DecisionCases DEF RetryingActions
<1>5. QED
  BY <1>2, <1>3, <1>4

-----------------------------------------------------------------------------
(* The clock of a run.                                                     *)

\* A quotient is below whatever the product is below.
LEMMA QuotientBelow ==
  ASSUME NEW n \in Nat, NEW d \in Nat \ {0}, NEW k \in Nat, n < d * k
  PROVE  n \div d < k
<1>1. PICK q \in Nat, r \in 0..(d - 1) : q = n \div d /\ n = d * q + r
  BY Divided
<1>2. ASSUME q >= k
      PROVE  FALSE
  <2>1. PICK j \in Nat : q = k + j
    BY <1>1, <1>2
  <2>2. d * q = d * k + d * j /\ d * j \in Nat /\ d * k \in Nat
    BY <2>1
  <2>3. QED
    BY <1>1, <2>2
<1>3. QED
  BY <1>1, <1>2

\* How far a run may be: its window, rounded, and an eighth of a minute for every pass.
Overrun == Horizon * Minute + Minute \div 2
InWindow(p, r) ==
    /\ r \in RunRecord /\ p.origin <= r.clock
    /\ 8 * (r.clock - p.origin) <= 8 * Overrun + r.passes * (Minute - 1)

LEMMA WindowWithin ==
  ASSUME NEW p, Sampled(p), NEW r, InWindow(p, r), r.passes <= MaxPasses
  PROVE  /\ Within(p, r)
         /\ Elapsed(r, p) <= Horizon + 1
<1>1. PICK w \in Nat, h \in Nat : w = Minute /\ w > 0 /\ h = w \div 2 /\ h + h <= w
  BY MinuteLasts
<1>2. PICK o \in Nat, c \in Nat, n \in Nat :
        o = p.origin /\ c = r.clock /\ n = r.passes /\ n <= 8 /\ o <= c
  BY DEF Sampled, InWindow, RunRecord, MaxPasses
<1>3. n * (w - 1) <= 8 * (w - 1)
  <2>1. PICK j \in Nat : j = 8 - n /\ 8 = n + j
    BY <1>2
  <2>2. PICK v \in Nat : v = w - 1
    BY <1>1
  <2>3. (n + j) * v = n * v + j * v /\ j * v \in Nat /\ n * v \in Nat
    BY <1>2, <2>1, <2>2
  <2>4. QED
    BY <2>1, <2>2, <2>3
<1>4. PICK x \in Int : x = n * (w - 1) /\ x <= 8 * (w - 1)
  BY <1>1, <1>2, <1>3
<1>5. Overrun = 30240 * w + h /\ Late(p) = o + 31680 * w
  BY <1>1, <1>2, MinuteLasts DEF Overrun, Horizon, Late
<1>6. 8 * (c - o) <= 8 * Overrun + x
  BY <1>1, <1>2, <1>4 DEF InWindow
<1>7. c - o <= 30240 * w + h + (w - 1)
  BY <1>1, <1>2, <1>4, <1>5, <1>6
<1>8. Within(p, r)
  <2>1. c < o + 31680 * w
    BY <1>1, <1>2, <1>7
  <2>2. QED
    BY <1>2, <1>5, <2>1 DEF Within, InWindow
<1>9. Elapsed(r, p) <= Horizon + 1
  <2>1. PICK m \in Nat : m = c - o + h
    BY <1>1, <1>2
  <2>2. m < w * 30242
    BY <1>1, <1>2, <1>7, <2>1
  <2>3. m \div w < 30242 /\ m \div w \in Nat
    BY <1>1, <2>1, <2>2, QuotientBelow, Divided
  <2>4. Elapsed(r, p) = m \div w
    BY <1>1, <1>2, <2>1 DEF Elapsed
  <2>5. QED
    BY <2>3, <2>4 DEF Horizon
<1>10. QED
  BY <1>8, <1>9

\* Where the clock stands after a wait: not before, not beyond the window, and after a
\* minute or more when there was one to wait and the run has only begun.
LEMMA Advanced ==
  ASSUME NEW p, Sampled(p), p = Payment, NEW r \in RunRecord, p.origin <= r.clock,
         NEW delay \in Nat, NEW at, at = ClampAdvance(r, delay)
  PROVE  /\ at \in Nat /\ at >= r.clock
         /\ at = r.clock \/ at - p.origin <= Overrun
         /\ delay = 0 => at = r.clock
         /\ delay # 0 /\ r.clock = p.origin => at >= p.origin + Minute
<1>1. PICK w \in Nat, h \in Nat : w = Minute /\ w > 0 /\ h = w \div 2 /\ h + h <= w /\ w <= h + h + 1
  BY MinuteLasts
<1>2. PICK o \in Nat, c \in Nat : o = p.origin /\ c = r.clock /\ o <= c
  BY DEF Sampled, RunRecord
<1>3. PICK m \in Nat : m = c - o + h
  BY <1>1, <1>2
<1>4. m \div w \in Nat /\ m % w \in 0..(w - 1) /\ m = w * (m \div w) + (m % w)
  <2>1. w \in Nat \ {0} /\ m \in Nat
    BY <1>1, <1>3
  <2>2. QED
    BY <2>1, Divided
<1>5. PICK e \in Nat, f \in 0..(w - 1) : e = m \div w /\ m = w * e + f
  BY <1>4
<1>6. Elapsed(r, p) = e
  BY <1>1, <1>2, <1>3, <1>5 DEF Elapsed
<1>7. PICK k \in Nat : k = Most(0, Least(delay, 30240 - e))
  BY DEF Most, Least
<1>8. at = c + k * w
  BY <1>1, <1>2, <1>6, <1>7 DEF ClampAdvance, Horizon
<1>9. k * w \in Nat /\ (k # 0 => k * w >= w)
  <2>1. k * w \in Nat
    BY <1>1
  <2>2. ASSUME k # 0
        PROVE  k * w >= w
    <3>1. PICK j \in Nat : k = j + 1
      BY <2>2
    <3>2. k * w = j * w + w /\ j * w \in Nat
      BY <1>1, <3>1
    <3>3. QED
      BY <1>1, <3>2
  <2>3. QED
    BY <2>1, <2>2
<1>10. at \in Nat /\ at >= c
  BY <1>2, <1>8, <1>9
<1>11. at = c \/ at - o <= Overrun
  <2>1. CASE k = 0
    BY <1>1, <1>2, <1>8, <2>1
  <2>2. CASE k # 0
    <3>1. k + e <= 30240
      BY <1>7, <2>2 DEF Most, Least
    <3>2. PICK j \in Nat : 30240 = k + e + j
      BY <3>1
    <3>3. 30240 * w = k * w + w * e + j * w /\ j * w \in Nat /\ w * e \in Nat
      BY <1>1, <3>2
    <3>4. c - o = w * e + f - h
      BY <1>1, <1>2, <1>3, <1>5, <3>3
    <3>5. at - o <= 30240 * w + h
      BY <1>1, <1>2, <1>5, <1>8, <1>9, <3>3, <3>4
    <3>6. QED
      BY <1>1, <3>5 DEF Overrun, Horizon
  <2>3. QED
    BY <2>1, <2>2
<1>12. delay = 0 => at = c
  <2>1. ASSUME delay = 0
        PROVE  at = c
    <3>1. k = 0
      BY <1>7, <2>1 DEF Most, Least
    <3>2. QED
      BY <1>1, <1>2, <1>8, <3>1
  <2>2. QED
    BY <2>1
<1>13. delay # 0 /\ c = o => at >= o + w
  <2>1. ASSUME delay # 0, c = o
        PROVE  at >= o + w
    <3>1. m = h
      BY <1>2, <1>3, <2>1
    <3>2. e = 0
      <4>1. m < w * 1
        BY <1>1, <3>1
      <4>2. m \div w < 1
        BY <1>1, <4>1, QuotientBelow
      <4>3. QED
        BY <1>5, <4>2
    <3>3. k # 0
      BY <1>7, <2>1, <3>2 DEF Most, Least
    <3>4. QED
      BY <1>2, <1>8, <1>9, <2>1, <3>3
  <2>2. QED
    BY <2>1
<1>14. QED
  BY <1>1, <1>2, <1>10, <1>11, <1>12, <1>13

-----------------------------------------------------------------------------
(* What an attempt does to a run.                                          *)

LEMMA Verdict ==
  ASSUME NEW p, Sampled(p), NEW at \in Nat, NEW messages, NEW rail
  PROVE  Succeeds(p.truth, at, messages, rail) \in BOOLEAN
<1>1. CASE p.truth.kind \in Permanent
  BY <1>1 DEF Succeeds, Permanent, NeedsNudge
<1>2. CASE p.truth.kind \in NeedsNudge
  <2>1. Succeeds(p.truth, at, messages, rail) = ((messages >= 1 \/ rail) /\ p.truth.cooperates)
    BY <1>2 DEF Succeeds, Permanent, NeedsNudge
  <2>2. QED
    BY <2>1
<1>3. CASE p.truth.kind \notin Permanent \cup NeedsNudge
  <2>1. Succeeds(p.truth, at, messages, rail) = (at >= p.truth.resolvesAt)
    BY <1>3 DEF Succeeds
  <2>2. QED
    BY <2>1
<1>4. QED
  BY <1>1, <1>2, <1>3

\* An attempt after a wait, by a run whose clock is extra seconds ahead of its window.
LEMMA Retried ==
  ASSUME NEW p, Sampled(p), p = Payment, NEW r \in RunRecord, p.origin <= r.clock,
         NEW extra \in Nat,
         8 * (r.clock - p.origin) <= 8 * Overrun + r.passes * (Minute - 1) + 8 * extra,
         NEW delay \in Nat, NEW l \in Latencies, 8 * (l + extra) < Minute,
         NEW at, at = ClampAdvance(r, delay), NEW q, q = Retry(r, delay, l)
  PROVE  /\ InWindow(p, q) /\ q.clock = at + l /\ at \in Nat
         /\ q.attempts = r.attempts + 1 /\ q.passes = r.passes + 1
         /\ q.messages = r.messages /\ q.rail = r.rail
         /\ q.recovered = Succeeds(p.truth, at, r.messages, r.rail)
         /\ q.endedBy = IF q.recovered THEN "RECOVERED" ELSE r.endedBy
<1>1. at \in Nat /\ at >= r.clock /\ (at = r.clock \/ at - p.origin <= Overrun)
  BY Advanced
<1>2. PICK won \in BOOLEAN : won = Succeeds(p.truth, at, r.messages, r.rail)
  BY <1>1, Verdict
<1>3. l \in Nat
  BY ExperimentAssumption
<1>4. q = [r EXCEPT !.clock = at + l, !.attempts = @ + 1, !.passes = @ + 1,
                    !.recovered = won, !.endedBy = IF won THEN "RECOVERED" ELSE @]
  BY <1>2 DEF Retry, Attempt
<1>5. /\ q.clock = at + l /\ q.attempts = r.attempts + 1 /\ q.passes = r.passes + 1
      /\ q.messages = r.messages /\ q.rail = r.rail /\ q.recovered = won
      /\ q.endedBy = IF won THEN "RECOVERED" ELSE r.endedBy
  BY <1>4 DEF RunRecord
<1>6. q \in RunRecord
  <2>1. /\ r.attempts + 1 \in Nat /\ r.passes + 1 \in Nat /\ at + l \in Nat
        /\ (IF won THEN "RECOVERED" ELSE r.endedBy) \in Endings
    BY <1>1, <1>3 DEF RunRecord, Endings
  <2>2. QED
    BY <1>4, <2>1 DEF RunRecord
<1>7. InWindow(p, q)
  <2>1. PICK w \in Nat, v \in Nat, h \in Nat : w = Minute /\ v = w - 1 /\ w = v + 1 /\ h = Overrun
    BY MinuteLasts DEF Overrun, Horizon
  <2>2. PICK o \in Nat, c \in Nat, n \in Nat : o = p.origin /\ c = r.clock /\ n = r.passes /\ o <= c
    BY DEF Sampled, RunRecord
  <2>3. (n + 1) * v = n * v + v /\ n * v \in Nat
    <3>1. n * v \in Nat
      BY <2>1, <2>2
    <3>2. (n + 1) * v = n * v + 1 * v
      BY <2>1, <2>2
    <3>3. QED
      BY <2>1, <3>1, <3>2
  <2>4. PICK x \in Nat : x = n * v /\ (n + 1) * v = x + v
    BY <2>3
  <2>5. 8 * (c - o) <= 8 * h + x + 8 * extra /\ 8 * l + 8 * extra <= v
    BY <1>3, <2>1, <2>2, <2>4
  <2>6. 8 * ((at + l) - o) <= 8 * h + x + v
    <3>1. CASE at = c
      BY <1>3, <2>1, <2>2, <2>4, <2>5, <3>1
    <3>2. CASE at - o <= h
      BY <1>1, <1>3, <2>1, <2>2, <2>4, <2>5, <3>2
    <3>3. QED
      BY <1>1, <2>1, <2>2, <3>1, <3>2
  <2>7. 8 * (q.clock - p.origin) <= 8 * Overrun + q.passes * (Minute - 1)
    <3>1. q.clock = at + l /\ q.passes = n + 1 /\ p.origin = o /\ Overrun = h /\ Minute - 1 = v
      BY <1>5, <2>1, <2>2
    <3>2. 8 * ((at + l) - o) <= 8 * h + (n + 1) * v
      <4>1. 8 * h + (n + 1) * v = 8 * h + x + v
        BY <2>1, <2>2, <2>4
      <4>2. QED
        BY <2>6, <4>1
    <3>3. q.passes * (Minute - 1) = (n + 1) * v
      BY <3>1, Zenon
    <3>4. q.clock - p.origin = (at + l) - o
      BY <3>1, Zenon
    <3>5. QED
      BY <3>1, <3>2, <3>3, <3>4, Zenon
  <2>8. p.origin <= q.clock
    BY <1>1, <1>3, <1>5, <2>2
  <2>9. QED
    BY <1>6, <2>7, <2>8 DEF InWindow
<1>8. QED
  BY <1>1, <1>2, <1>5, <1>7

-----------------------------------------------------------------------------
(* What holds of a run.                                                    *)

\* A failure that is over by the time the desk has waited for the first time.
Quick(p) ==
    p.truth.kind \in Outages \cup {"FUNDS_LOW"} /\ p.truth.resolvesAt <= p.origin + Minute

\* Three attempts one after the other, which see nothing that a minute's wait would not.
NaiveRun(p, r) ==
    /\ r.messages = 0 /\ r.rail = FALSE /\ r.passes <= 3 /\ r.attempts = r.passes + 1
    /\ 8 * (r.clock - p.origin) <= r.passes * (Minute - 1)
    /\ r.recovered => Quick(p)

DeskRun(p, r) ==
    /\ r.attempts = r.passes + 1 /\ r.messages <= MaxMessagesPerDay
    /\ p.truth.kind \in Permanent => r.attempts = 1 /\ r.messages = 0
    /\ (p.truth.kind \in NeedsNudge /\ r.attempts > 1) => (r.messages >= 1 \/ r.rail)
    /\ p.truth.kind \notin NeedsNudge =>
           r.attempts <= Most(1, CauseMaxAttempts(SeenAs[p.truth.kind]))
    /\ Quick(p) => r.recovered \/ (r.attempts = 1 /\ r.clock = p.origin /\ r.endedBy = "none")

Keeps(s, p, r) ==
    /\ InWindow(p, r) /\ r.passes <= MaxPasses
    /\ r.recovered => r.endedBy # "none"
    /\ s = "NAIVE" => NaiveRun(p, r)
    /\ s = "RECOVERY_DESK" => DeskRun(p, r)

\* The result of a run, in comparison with what the other strategy may make of it.
Results ==
    [recovered : BOOLEAN, attempts : Nat, messages : Nat, rail : BOOLEAN, endedBy : Endings,
     minutes : Int]
Compares(s, p, x) ==
    /\ x.minutes <= Horizon + 1
    /\ s = "NAIVE" /\ x.recovered => Quick(p)
    /\ s = "RECOVERY_DESK" /\ Quick(p) => x.recovered

\* A batch is there while a strategy runs, naive before the desk and each payment in turn.
Progress ==
    /\ batch = <<>> \/ batch \in Batches
    /\ strategy \in Strategies \cup {"none"}
    /\ runs \in [Strategies -> Seq(Results)]
    /\ \A s \in Strategies : Len(runs[s]) <= Len(batch)
    /\ strategy \in Strategies => batch # <<>> /\ Turn <= Len(batch)
    /\ \/ Len(runs["NAIVE"]) = Len(batch)
       \/ strategy # "RECOVERY_DESK" /\ runs["RECOVERY_DESK"] = <<>>

EInv ==
    /\ Progress
    /\ strategy \in Strategies => Keeps(strategy, Payment, run)
    /\ \A s \in Strategies : \A i \in 1..Len(runs[s]) : Compares(s, batch[i], runs[s][i])

-----------------------------------------------------------------------------
(* Each step of a run keeps what holds of it.                              *)

LEMMA OverrunNat == Overrun \in Nat /\ Overrun >= 0 /\ Minute - 1 \in Nat
<1>1. PICK w \in Nat, h \in Nat : w = Minute /\ w > 0 /\ h = w \div 2
  BY MinuteLasts
<1>2. 30240 * w + h \in Nat
  BY <1>1
<1>3. QED
  BY <1>1, <1>2 DEF Overrun, Horizon

\* A run begins.
LEMMA Begins ==
  ASSUME NEW p, Sampled(p), NEW r, r = NewRun(p), NEW s \in Strategies
  PROVE  Keeps(s, p, r)
<1>1. p.origin \in Nat
  BY DEF Sampled
<1>2. r = [clock |-> p.origin, attempts |-> 1, messages |-> 0, rail |-> FALSE, recovered |-> FALSE,
           endedBy |-> "none", passes |-> 0]
  BY DEF NewRun, NoRun
<1>3. /\ r.clock = p.origin /\ r.attempts = 1 /\ r.messages = 0 /\ r.rail = FALSE
      /\ r.recovered = FALSE /\ r.endedBy = "none" /\ r.passes = 0
  BY <1>2
<1>4. r \in RunRecord
  BY <1>1, <1>2 DEF RunRecord, Endings
<1>5. r.clock - p.origin = 0 /\ r.passes * (Minute - 1) = 0
  BY <1>1, <1>3, OverrunNat
<1>6. InWindow(p, r)
  <2>1. 8 * (r.clock - p.origin) <= 8 * Overrun + r.passes * (Minute - 1)
    BY <1>5, OverrunNat
  <2>2. QED
    BY <1>1, <1>3, <1>4, <2>1 DEF InWindow
<1>7. NaiveRun(p, r)
  BY <1>3, <1>5 DEF NaiveRun
<1>8. DeskRun(p, r)
  <2>1. 1 <= Most(1, CauseMaxAttempts(SeenAs[p.truth.kind]))
    BY DEF Most, CauseMaxAttempts
  <2>2. MaxMessagesPerDay \in Nat
    BY PolicyAssumption
  <2>3. QED
    BY <1>3, <2>1, <2>2 DEF DeskRun
<1>9. QED
  BY <1>3, <1>6, <1>7, <1>8 DEF Keeps, MaxPasses

\* One of the naive strategy's attempts.
LEMMA NaiveAttempts ==
  ASSUME NEW p, Sampled(p), p = Payment, NEW r, Keeps("NAIVE", p, r), r.endedBy = "none",
         r.passes < 3, NEW l \in Latencies, NEW q, q = Retry(r, 0, l)
  PROVE  Keeps("NAIVE", p, q)
<1>1. InWindow(p, r) /\ NaiveRun(p, r) /\ r \in RunRecord /\ p.origin <= r.clock
  BY DEF Keeps, InWindow
<1>2. l \in Nat /\ 8 * (l + 0) < Minute
  <2>1. l \in Nat /\ MessageLatency \in Nat /\ 8 * (l + MessageLatency) < Minute
    BY ExperimentAssumption DEF MaxPasses
  <2>2. QED
    BY <2>1, MinuteLasts
<1>3. 8 * (r.clock - p.origin) <= 8 * Overrun + r.passes * (Minute - 1) + 8 * 0
  <2>1. r.passes * (Minute - 1) \in Int /\ Overrun \in Nat
    BY <1>1, OverrunNat DEF RunRecord
  <2>2. QED
    BY <1>1, <2>1 DEF InWindow
<1>4. PICK at : at = ClampAdvance(r, 0)
  OBVIOUS
<1>5. at = r.clock /\ at \in Nat
  BY <1>1, <1>4, Advanced DEF RunRecord
<1>6. /\ InWindow(p, q) /\ q.clock = at + l
      /\ q.attempts = r.attempts + 1 /\ q.passes = r.passes + 1
      /\ q.messages = r.messages /\ q.rail = r.rail
      /\ q.recovered = Succeeds(p.truth, at, r.messages, r.rail)
      /\ q.endedBy = IF q.recovered THEN "RECOVERED" ELSE r.endedBy
  BY <1>1, <1>2, <1>3, <1>4, Retried
<1>7. PICK v \in Nat, o \in Nat, c \in Nat, n \in Nat :
        v = Minute - 1 /\ Minute = v + 1 /\ o = p.origin /\ c = r.clock /\ n = r.passes /\ n < 3 /\ o <= c
  <2>1. PICK v \in Nat : v = Minute - 1 /\ Minute = v + 1
    BY MinuteLasts
  <2>2. PICK o \in Nat, c \in Nat, n \in Nat : o = p.origin /\ c = r.clock /\ n = r.passes
    BY <1>1 DEF Sampled, RunRecord
  <2>3. QED
    BY <1>1, <2>1, <2>2
<1>8. 8 * (c - o) <= n * v
  BY <1>1, <1>7 DEF NaiveRun
<1>9. n * v \in Nat /\ (n + 1) * v = n * v + v /\ n * v <= 8 * v
  <2>1. CASE n = 0
    BY <1>7, <2>1
  <2>2. CASE n = 1
    BY <1>7, <2>2
  <2>3. CASE n = 2
    BY <1>7, <2>3
  <2>4. QED
    BY <1>7, <2>1, <2>2, <2>3
<1>10. PICK x \in Nat : x = n * v /\ (n + 1) * v = x + v /\ x <= 8 * v
  BY <1>9
<1>11. 8 * (q.clock - p.origin) <= q.passes * (Minute - 1)
  <2>1. 8 * ((c + l) - o) <= x + v
    BY <1>2, <1>7, <1>8, <1>10
  <2>2. q.clock - p.origin = (c + l) - o
    BY <1>5, <1>6, <1>7, Zenon
  <2>3. q.passes * (Minute - 1) = x + v
    BY <1>6, <1>7, <1>10, Zenon
  <2>4. QED
    BY <2>1, <2>2, <2>3, Zenon
<1>12. q.recovered => Quick(p)
  <2>1. SUFFICES ASSUME q.recovered
                 PROVE  Quick(p)
    OBVIOUS
  <2>2. Succeeds(p.truth, at, 0, FALSE)
    BY <1>1, <1>6, <2>1 DEF NaiveRun
  <2>3. p.truth.kind \notin Permanent \cup NeedsNudge /\ at >= p.truth.resolvesAt
    <3>1. p.truth.kind \notin Permanent
      BY <2>2 DEF Succeeds, Permanent, NeedsNudge
    <3>2. p.truth.kind \notin NeedsNudge
      BY <2>2 DEF Succeeds, Permanent, NeedsNudge
    <3>3. QED
      BY <2>2, <3>1, <3>2 DEF Succeeds
  <2>4. p.truth.kind \in Outages \cup {"FUNDS_LOW"}
    BY <2>3, KindSeen DEF AllKinds
  <2>5. p.truth.resolvesAt <= p.origin + Minute
    <3>1. p.truth.resolvesAt \in Int
      BY DEF Sampled
    <3>2. c - o <= v
      BY <1>7, <1>8, <1>10
    <3>3. QED
      BY <1>5, <1>7, <2>3, <3>1, <3>2
  <2>6. QED
    BY <2>4, <2>5 DEF Quick
<1>13. NaiveRun(p, q)
  <2>1. q.messages = 0 /\ q.rail = FALSE
    BY <1>1, <1>6 DEF NaiveRun
  <2>2. q.passes <= 3 /\ q.attempts = q.passes + 1
    BY <1>1, <1>6, <1>7 DEF NaiveRun
  <2>3. QED
    BY <1>11, <1>12, <2>1, <2>2 DEF NaiveRun
<1>14. q.passes <= MaxPasses /\ (q.recovered => q.endedBy # "none")
  BY <1>6, <1>7 DEF MaxPasses
<1>15. QED
  BY <1>6, <1>13, <1>14 DEF Keeps

\* A run that is ended keeps the rest.
LEMMA Stopped ==
  ASSUME NEW p, NEW s \in Strategies, NEW r, Keeps(s, p, r), r.endedBy = "none",
         NEW reason \in Endings \ {"none"}, NEW q, q = [r EXCEPT !.endedBy = reason],
         s = "RECOVERY_DESK" => ~(Quick(p) /\ r.attempts = 1)
  PROVE  Keeps(s, p, q)
<1>1. r \in RunRecord /\ InWindow(p, r)
  BY DEF Keeps, InWindow
<1>2. /\ q.clock = r.clock /\ q.attempts = r.attempts /\ q.messages = r.messages /\ q.rail = r.rail
      /\ q.recovered = r.recovered /\ q.endedBy = reason /\ q.passes = r.passes
  BY <1>1 DEF RunRecord
<1>3. q \in RunRecord
  BY <1>1 DEF RunRecord
<1>4. InWindow(p, q)
  BY <1>1, <1>2, <1>3 DEF InWindow
<1>5. s = "NAIVE" => NaiveRun(p, q)
  BY <1>2 DEF Keeps, NaiveRun
<1>6. s = "RECOVERY_DESK" => DeskRun(p, q)
  <2>1. SUFFICES ASSUME s = "RECOVERY_DESK"
                 PROVE  DeskRun(p, q)
    OBVIOUS
  <2>2. DeskRun(p, r) /\ ~r.recovered
    BY <2>1 DEF Keeps
  <2>3. ~Quick(p)
    BY <2>1, <2>2 DEF DeskRun
  <2>4. QED
    BY <1>2, <2>2, <2>3 DEF DeskRun
<1>7. QED
  BY <1>2, <1>4, <1>5, <1>6 DEF Keeps

\* The decision, by its parts.
LEMMA DecisionIs ==
  ASSUME NEW p, p = Payment, NEW ctx, ctx = DeskContext(p, run), NEW d, d = Decide(ctx)
  PROVE  /\ DeskDecision.action = d.action /\ DeskDecision.delay = Delay(ctx, d)
         /\ DeskDecision.blockedBy = d.blockedBy
  BY DEF DeskDecision, DeskContext, TimedDecision

\* An attempt of the desk after a wait of delay minutes, by a run r that has kept its
\* budgets: the customer has been asked if need be, the cause allows another attempt, and
\* what is over in a minute is waited for.
LEMMA DeskAttempts ==
  ASSUME NEW p, Sampled(p), p = Payment, NEW r \in RunRecord, p.origin <= r.clock,
         r.endedBy = "none", r.passes < MaxPasses, r.attempts = r.passes + 1,
         r.messages <= MaxMessagesPerDay,
         NEW extra \in {0, MessageLatency},
         8 * (r.clock - p.origin) <= 8 * Overrun + r.passes * (Minute - 1) + 8 * extra,
         NEW delay \in Nat, NEW l \in Latencies, NEW q, q = Retry(r, delay, l),
         p.truth.kind \notin Permanent,
         p.truth.kind \in NeedsNudge => r.messages >= 1 \/ r.rail,
         p.truth.kind \notin NeedsNudge =>
             /\ r.attempts < CauseMaxAttempts(SeenAs[p.truth.kind])
             /\ delay # 0,
         Quick(p) => r.clock = p.origin
  PROVE  Keeps("RECOVERY_DESK", p, q)
<1>1. extra \in Nat /\ 8 * (l + extra) < Minute
  <2>1. l \in Nat /\ MessageLatency \in Nat /\ 8 * (l + MessageLatency) < Minute
    BY ExperimentAssumption DEF MaxPasses
  <2>2. QED
    BY <2>1, MinuteLasts
<1>2. PICK at : at = ClampAdvance(r, delay)
  OBVIOUS
<1>3. /\ InWindow(p, q) /\ at \in Nat
      /\ q.attempts = r.attempts + 1 /\ q.passes = r.passes + 1
      /\ q.messages = r.messages /\ q.rail = r.rail
      /\ q.recovered = Succeeds(p.truth, at, r.messages, r.rail)
      /\ q.endedBy = IF q.recovered THEN "RECOVERED" ELSE r.endedBy
  BY <1>1, <1>2, Retried
<1>4. r.passes \in Nat /\ r.attempts \in Nat /\ r.messages \in Nat
  BY DEF RunRecord
<1>5. q.passes <= MaxPasses /\ (q.recovered => q.endedBy # "none")
  BY <1>3, <1>4 DEF MaxPasses
<1>6. p.truth.kind \notin NeedsNudge =>
          q.attempts <= Most(1, CauseMaxAttempts(SeenAs[p.truth.kind]))
  BY <1>3, <1>4 DEF Most, CauseMaxAttempts
<1>7. Quick(p) => q.recovered
  <2>1. SUFFICES ASSUME Quick(p)
                 PROVE  q.recovered
    OBVIOUS
  <2>2. p.truth.kind \in Outages \cup {"FUNDS_LOW"} /\ p.truth.resolvesAt <= p.origin + Minute
    BY <2>1 DEF Quick
  <2>3. p.truth.kind \notin NeedsNudge
    BY <2>2 DEF Outages, NeedsNudge
  <2>4. at >= p.origin + Minute
    BY <1>2, <2>1, <2>3, Advanced
  <2>5. at >= p.truth.resolvesAt
    <3>1. p.truth.resolvesAt \in Int /\ p.origin \in Nat /\ Minute \in Nat
      BY MinuteLasts DEF Sampled
    <3>2. QED
      BY <1>3, <2>2, <2>4, <3>1
  <2>6. Succeeds(p.truth, at, r.messages, r.rail)
    BY <2>2, <2>5 DEF Succeeds, Outages, Permanent, NeedsNudge
  <2>7. QED
    BY <1>3, <2>6
<1>8. DeskRun(p, q)
  BY <1>3, <1>4, <1>6, <1>7 DEF DeskRun
<1>9. QED
  BY <1>3, <1>5, <1>8 DEF Keeps

\* What holds of the desk's open run and its decision.
LEMMA DeskOpen ==
  ASSUME NEW p, Sampled(p), p = Payment, Keeps("RECOVERY_DESK", p, run)
  PROVE  /\ Within(p, run) /\ run \in RunRecord /\ p.origin <= run.clock
         /\ run.attempts = run.passes + 1 /\ run.messages <= MaxMessagesPerDay
         /\ 8 * (run.clock - p.origin) <= 8 * Overrun + run.passes * (Minute - 1)
         /\ DeskRun(p, run)
  BY WindowWithin DEF Keeps, InWindow, DeskRun

\* Who is written to has to act, and gets a message no sooner than allowed.
LEMMA DeskMessages ==
  ASSUME NEW p, Sampled(p), p = Payment, Keeps("RECOVERY_DESK", p, run), run.endedBy = "none",
         run.passes < MaxPasses, DeskDecision.action = "MESSAGE"
  PROVE  p.truth.kind \in NeedsNudge /\ run.messages < MaxMessagesPerDay
<1>1. PICK ctx : ctx = DeskContext(p, run)
  OBVIOUS
<1>2. PICK d : d = Decide(ctx) /\ d.action = "MESSAGE"
  BY <1>1, DecisionIs
<1>3. Within(p, run)
  BY DeskOpen
<1>4. p.truth.kind \notin Permanent
  BY <1>1, <1>2, <1>3, PermanentDecision
<1>5. p.truth.kind \notin Outages \cup {"FUNDS_LOW"}
  BY <1>1, <1>2, <1>3, TransientDecision
<1>6. p.truth.kind \in NeedsNudge
  BY <1>4, <1>5, KindSeen DEF AllKinds
<1>7. run.messages < MaxMessagesPerDay
  BY <1>1, <1>2, <1>3, DeskDecides
<1>8. QED
  BY <1>6, <1>7

LEMMA DeskMessageKeeps ==
  ASSUME NEW p, Sampled(p), p = Payment, Keeps("RECOVERY_DESK", p, run), run.endedBy = "none",
         run.passes < MaxPasses, DeskDecision.action = "MESSAGE", NEW l \in Latencies,
         NEW q, q = Retry([run EXCEPT !.messages = @ + 1, !.clock = @ + MessageLatency], 60, l)
  PROVE  Keeps("RECOVERY_DESK", p, q)
<1>1. p.truth.kind \in NeedsNudge /\ run.messages < MaxMessagesPerDay
  BY DeskMessages
<1>2. /\ run \in RunRecord /\ p.origin <= run.clock /\ run.attempts = run.passes + 1
      /\ 8 * (run.clock - p.origin) <= 8 * Overrun + run.passes * (Minute - 1)
  BY DeskOpen
<1>3. PICK r : r = [run EXCEPT !.messages = @ + 1, !.clock = @ + MessageLatency]
  OBVIOUS
<1>4. /\ r.clock = run.clock + MessageLatency /\ r.messages = run.messages + 1
      /\ r.attempts = run.attempts /\ r.passes = run.passes /\ r.endedBy = run.endedBy
  BY <1>2, <1>3 DEF RunRecord
<1>5. MessageLatency \in Nat
  BY ExperimentAssumption
<1>6. run.messages \in Nat /\ run.clock \in Nat /\ run.passes \in Nat
  BY <1>2 DEF RunRecord
<1>7. r \in RunRecord
  <2>1. run.messages + 1 \in Nat /\ run.clock + MessageLatency \in Nat
    BY <1>5, <1>6
  <2>2. QED
    BY <1>2, <1>3, <2>1 DEF RunRecord
<1>8. p.origin \in Nat /\ p.origin <= r.clock
  BY <1>2, <1>4, <1>5, <1>6 DEF Sampled
<1>9. 8 * (r.clock - p.origin) <= 8 * Overrun + r.passes * (Minute - 1) + 8 * MessageLatency
  <2>1. PICK x \in Int : x = run.passes * (Minute - 1)
    BY <1>6, OverrunNat
  <2>2. r.passes * (Minute - 1) = x
    BY <1>4, <2>1
  <2>3. 8 * (run.clock - p.origin) <= 8 * Overrun + x
    BY <1>2, <2>1
  <2>4. 8 * (r.clock - p.origin) <= 8 * Overrun + x + 8 * MessageLatency
    BY <1>4, <1>5, <1>6, <1>8, <2>3, OverrunNat
  <2>5. QED
    BY <2>2, <2>4
<1>10. r.messages >= 1 /\ r.messages <= MaxMessagesPerDay
  BY <1>1, <1>4, <1>6, PolicyAssumption
<1>11. ~Quick(p) /\ p.truth.kind \notin Permanent
  BY <1>1 DEF Quick, Outages, NeedsNudge, Permanent
<1>12. QED
  BY <1>1, <1>2, <1>3, <1>4, <1>7, <1>8, <1>9, <1>10, <1>11, DeskAttempts

LEMMA DeskSwitchKeeps ==
  ASSUME NEW p, Sampled(p), p = Payment, Keeps("RECOVERY_DESK", p, run), run.endedBy = "none",
         run.passes < MaxPasses, DeskDecision.action = "SWITCH_RAIL", NEW l \in Latencies,
         NEW q, q = Retry([run EXCEPT !.rail = TRUE], DeskDecision.delay, l)
  PROVE  Keeps("RECOVERY_DESK", p, q)
<1>1. PICK ctx : ctx = DeskContext(p, run)
  OBVIOUS
<1>2. PICK d : d = Decide(ctx) /\ d.action = "SWITCH_RAIL" /\ DeskDecision.delay = Delay(ctx, d)
  BY <1>1, DecisionIs
<1>3. /\ Within(p, run) /\ run \in RunRecord /\ p.origin <= run.clock
      /\ run.attempts = run.passes + 1 /\ run.messages <= MaxMessagesPerDay
      /\ 8 * (run.clock - p.origin) <= 8 * Overrun + run.passes * (Minute - 1)
  BY DeskOpen
<1>4. p.truth.kind \in NeedsNudge
  <2>1. p.truth.kind \notin Permanent
    BY <1>1, <1>2, <1>3, PermanentDecision
  <2>2. p.truth.kind \notin Outages \cup {"FUNDS_LOW"}
    BY <1>1, <1>2, <1>3, TransientDecision
  <2>3. QED
    BY <2>1, <2>2, KindSeen DEF AllKinds
<1>5. DeskDecision.delay \in Nat
  BY <1>1, <1>2, <1>3, DeskDecides DEF RetryingActions
<1>6. PICK r : r = [run EXCEPT !.rail = TRUE]
  OBVIOUS
<1>7. /\ r.rail = TRUE /\ r.clock = run.clock /\ r.messages = run.messages
      /\ r.attempts = run.attempts /\ r.passes = run.passes /\ r.endedBy = run.endedBy
      /\ r \in RunRecord
  BY <1>3, <1>6 DEF RunRecord
<1>8. 8 * (r.clock - p.origin) <= 8 * Overrun + r.passes * (Minute - 1) + 8 * 0
  <2>1. 8 * (r.clock - p.origin) <= 8 * Overrun + r.passes * (Minute - 1)
    BY <1>3, <1>7
  <2>2. r.passes * (Minute - 1) \in Int /\ Overrun \in Nat
    BY <1>7, OverrunNat DEF RunRecord
  <2>3. QED
    BY <2>1, <2>2
<1>9. ~Quick(p) /\ p.truth.kind \notin Permanent
  BY <1>4 DEF Quick, Outages, NeedsNudge, Permanent
<1>10. QED
  BY <1>3, <1>4, <1>5, <1>6, <1>7, <1>8, <1>9, DeskAttempts

LEMMA DeskRetryKeeps ==
  ASSUME NEW p, Sampled(p), p = Payment, Keeps("RECOVERY_DESK", p, run), run.endedBy = "none",
         run.passes < MaxPasses, DeskDecision.action \in {"RETRY", "WAIT"}, NEW l \in Latencies,
         NEW q, q = Retry(run, DeskDecision.delay, l)
  PROVE  Keeps("RECOVERY_DESK", p, q)
<1>1. PICK ctx : ctx = DeskContext(p, run)
  OBVIOUS
<1>2. PICK d : /\ d = Decide(ctx) /\ d.action \in {"RETRY", "WAIT"}
               /\ DeskDecision.delay = Delay(ctx, d)
  BY <1>1, DecisionIs
<1>3. /\ Within(p, run) /\ run \in RunRecord /\ p.origin <= run.clock
      /\ run.attempts = run.passes + 1 /\ run.messages <= MaxMessagesPerDay
      /\ 8 * (run.clock - p.origin) <= 8 * Overrun + run.passes * (Minute - 1)
  BY DeskOpen
<1>4. p.truth.kind \notin Permanent
  BY <1>1, <1>2, <1>3, PermanentDecision
<1>5. p.truth.kind \in NeedsNudge => run.messages >= 1
  <2>1. p.truth.kind \in NeedsNudge => run.messages >= MaxMessagesPerDay
    BY <1>1, <1>2, <1>3, NudgeDecision
  <2>2. MaxMessagesPerDay \in 1..2 /\ run.messages \in Nat
    BY <1>3, ExperimentAssumption DEF RunRecord
  <2>3. QED
    BY <2>1, <2>2
<1>6. p.truth.kind \notin NeedsNudge =>
          run.attempts < CauseMaxAttempts(SeenAs[p.truth.kind]) /\ DeskDecision.delay # 0
  <2>1. SUFFICES ASSUME p.truth.kind \notin NeedsNudge
                 PROVE  run.attempts < CauseMaxAttempts(SeenAs[p.truth.kind])
                            /\ DeskDecision.delay # 0
    OBVIOUS
  <2>2. p.truth.kind \in Outages \cup {"FUNDS_LOW"}
    BY <1>4, <2>1, KindSeen DEF AllKinds
  <2>3. /\ CauseMaxAttempts(SeenAs[p.truth.kind]) = 3 /\ run.attempts < Least(3, MaxAttempts)
        /\ Delay(ctx, d) # 0
    BY <1>1, <1>2, <1>3, <2>2, TransientDecision
  <2>4. Least(3, MaxAttempts) \in Nat /\ Least(3, MaxAttempts) <= 3 /\ run.attempts \in Nat
    BY <1>3, PolicyAssumption DEF Least, RunRecord
  <2>5. QED
    BY <1>2, <2>3, <2>4
<1>7. DeskDecision.delay \in Nat
  BY <1>1, <1>2, <1>3, DeskDecides DEF RetryingActions
<1>8. 8 * (run.clock - p.origin) <= 8 * Overrun + run.passes * (Minute - 1) + 8 * 0
  <2>1. run.passes * (Minute - 1) \in Int /\ Overrun \in Nat
    BY <1>3, OverrunNat DEF RunRecord
  <2>2. QED
    BY <1>3, <2>1
<1>9. Quick(p) => run.clock = p.origin
  BY DEF Keeps, DeskRun
<1>10. QED
  BY <1>3, <1>4, <1>5, <1>6, <1>7, <1>8, <1>9, DeskAttempts

\* No decision ends the run of what is over in a minute.
LEMMA QuickIsNotStopped ==
  ASSUME NEW p, Sampled(p), p = Payment, Keeps("RECOVERY_DESK", p, run), run.endedBy = "none",
         run.passes < MaxPasses, DeskDecision.action \in {"HARD_STOP", "HUMAN_REVIEW", "MESSAGE"}
  PROVE  ~(Quick(p) /\ run.attempts = 1)
<1>1. PICK ctx : ctx = DeskContext(p, run)
  OBVIOUS
<1>2. PICK d : d = Decide(ctx) /\ d.action \in {"HARD_STOP", "HUMAN_REVIEW", "MESSAGE"}
  BY <1>1, DecisionIs
<1>3. Within(p, run)
  BY DeskOpen
<1>4. ASSUME p.truth.kind \in Outages \cup {"FUNDS_LOW"}, run.attempts = 1
      PROVE  FALSE
  <2>1. run.attempts >= Least(3, MaxAttempts)
    BY <1>1, <1>2, <1>3, <1>4, TransientDecision
  <2>2. Least(3, MaxAttempts) >= 2
    BY ExperimentAssumption, PolicyAssumption DEF Least
  <2>3. Least(3, MaxAttempts) \in Nat
    BY PolicyAssumption DEF Least
  <2>4. QED
    BY <1>4, <2>1, <2>2, <2>3
<1>5. QED
  BY <1>4 DEF Quick

-----------------------------------------------------------------------------
(* The inductive invariant.                                                *)

\* While a strategy runs, it is the turn of a payment of the dataset.
LEMMA TurnIsSampled ==
  ASSUME EInv, strategy \in Strategies
  PROVE  /\ batch \in Batches /\ Len(batch) \in Nat /\ Turn \in 1..Len(batch)
         /\ runs[strategy] \in Seq(Results) /\ Len(runs[strategy]) \in Nat
         /\ Sampled(Payment)
<1>1. batch \in Batches /\ Turn <= Len(batch) /\ runs[strategy] \in Seq(Results)
  BY DEF EInv, Progress
<1>2. Len(runs[strategy]) \in Nat
  BY <1>1
<1>3. Len(batch) \in Nat /\ \A i \in 1..Len(batch) : Sampled(batch[i])
  BY <1>1, BatchesSampled
<1>4. Turn \in 1..Len(batch)
  BY <1>1, <1>2, <1>3 DEF Turn
<1>5. QED
  BY <1>1, <1>2, <1>3, <1>4 DEF Payment

\* A step within a run disturbs nothing but the run.
LEMMA RunGoesOn ==
  ASSUME EInv, strategy \in Strategies, NEW q, Keeps(strategy, Payment, q), Advance(q)
  PROVE  EInv'
<1>1. run' = q /\ batch' = batch /\ strategy' = strategy /\ runs' = runs
  BY DEF Advance
<1>2. Turn' = Turn /\ Payment' = Payment
  BY <1>1 DEF Turn, Payment
<1>3. Progress'
  BY <1>1, <1>2 DEF EInv, Progress
<1>4. Keeps(strategy, Payment, run)'
  BY <1>1, <1>2
<1>5. (\A s \in Strategies : \A i \in 1..Len(runs[s]) : Compares(s, batch[i], runs[s][i]))'
  BY <1>1 DEF EInv
<1>6. QED
  BY <1>3, <1>4, <1>5 DEF EInv

LEMMA EInit == Init => EInv
<1> SUFFICES ASSUME Init
             PROVE  EInv
  OBVIOUS
<1>1. /\ batch = <<>> /\ strategy = "none"
      /\ \A s \in Strategies : runs[s] = <<>>
      /\ runs \in [Strategies -> Seq(Results)]
  BY DEF Init
<1>2. strategy \notin Strategies
  BY <1>1 DEF Strategies
<1>3. "NAIVE" \in Strategies /\ "RECOVERY_DESK" \in Strategies
  BY DEF Strategies
<1>4. Progress
  BY <1>1, <1>2, <1>3 DEF Progress
<1>5. \A s \in Strategies : \A i \in 1..Len(runs[s]) : Compares(s, batch[i], runs[s][i])
  BY <1>1
<1>6. QED
  BY <1>2, <1>4, <1>5 DEF EInv

LEMMA DatasetKeeps == EInv /\ GenerateDataset => EInv'
<1> SUFFICES ASSUME EInv, GenerateDataset
             PROVE  EInv'
  OBVIOUS
<1>1. /\ batch = <<>> /\ batch' \in Batches /\ strategy' = "NAIVE" /\ run' = NewRun(batch'[1])
      /\ runs' = runs
  BY DEF GenerateDataset
<1>2. "NAIVE" \in Strategies /\ "RECOVERY_DESK" \in Strategies
  BY DEF Strategies
<1>3. runs \in [Strategies -> Seq(Results)] /\ \A s \in Strategies : Len(runs[s]) <= Len(batch)
  BY DEF EInv, Progress
<1>4. \A s \in Strategies : runs[s] = <<>>
  <2>1. ASSUME NEW s \in Strategies
        PROVE  runs[s] = <<>>
    <3>1. runs[s] \in Seq(Results) /\ Len(runs[s]) <= 0
      BY <1>1, <1>3
    <3>2. QED
      BY <3>1
  <2>2. QED
    BY <2>1
<1>5. batch' # <<>> /\ Len(batch') \in Nat /\ Len(batch') >= 1 /\ Sampled(batch'[1])
  BY <1>1, BatchesSampled
<1>6. Turn' = 1 /\ Payment' = batch'[1]
  BY <1>1, <1>2, <1>4 DEF Turn, Payment
<1>7. Progress'
  BY <1>1, <1>2, <1>3, <1>4, <1>5, <1>6 DEF Progress
<1>8. Keeps("NAIVE", batch'[1], run')
  BY <1>1, <1>2, <1>5, Begins
<1>9. (\A s \in Strategies : \A i \in 1..Len(runs[s]) : Compares(s, batch[i], runs[s][i]))'
  BY <1>1, <1>4
<1>10. QED
  BY <1>1, <1>6, <1>7, <1>8, <1>9 DEF EInv

LEMMA NaiveKeeps == EInv /\ (NaiveRetry \/ NaiveStop) => EInv'
<1> SUFFICES ASSUME EInv, NaiveRetry \/ NaiveStop
             PROVE  EInv'
  OBVIOUS
<1>1. strategy = "NAIVE" /\ run.endedBy = "none" /\ strategy \in Strategies
  BY DEF NaiveRetry, NaiveStop, Open, Strategies
<1>2. PICK p : p = Payment
  OBVIOUS
<1>3. Sampled(p) /\ Keeps("NAIVE", p, run)
  BY <1>1, <1>2, TurnIsSampled DEF EInv
<1>4. CASE NaiveRetry
  <2>1. PICK l \in Latencies : run.passes < 3 /\ Advance(Retry(run, 0, l))
    BY <1>4 DEF NaiveRetry
  <2>2. Keeps("NAIVE", p, Retry(run, 0, l))
    BY <1>1, <1>2, <1>3, <2>1, NaiveAttempts
  <2>3. QED
    BY <1>1, <1>2, <2>1, <2>2, RunGoesOn
<1>5. CASE NaiveStop
  <2>1. Advance([run EXCEPT !.endedBy = "EXHAUSTED"])
    BY <1>5 DEF NaiveStop, Stop
  <2>2. Keeps("NAIVE", p, [run EXCEPT !.endedBy = "EXHAUSTED"])
    BY <1>1, <1>3, Stopped DEF Endings
  <2>3. QED
    BY <1>1, <1>2, <2>1, <2>2, RunGoesOn
<1>6. QED
  BY <1>4, <1>5

\* A decision that stops the desk's run.
LEMMA DeskStopKeeps ==
  ASSUME EInv, Open, strategy = "RECOVERY_DESK", NEW reason \in Endings \ {"none"},
         Advance([run EXCEPT !.endedBy = reason]),
         \/ run.passes = MaxPasses
         \/ /\ run.passes < MaxPasses
            /\ DeskDecision.action \in {"HARD_STOP", "HUMAN_REVIEW", "MESSAGE"}
  PROVE  EInv'
<1>1. strategy \in Strategies /\ "RECOVERY_DESK" \in Strategies /\ run.endedBy = "none"
  BY DEF Strategies, Open
<1>2. PICK p : p = Payment
  OBVIOUS
<1>3. Sampled(p) /\ Keeps("RECOVERY_DESK", p, run)
  BY <1>1, <1>2, TurnIsSampled DEF EInv
<1>4. ~(Quick(p) /\ run.attempts = 1)
  <2>1. CASE run.passes = MaxPasses
    <3>1. run.attempts = run.passes + 1
      BY <1>2, <1>3, DeskOpen
    <3>2. QED
      BY <2>1, <3>1 DEF MaxPasses
  <2>2. CASE /\ run.passes < MaxPasses
             /\ DeskDecision.action \in {"HARD_STOP", "HUMAN_REVIEW", "MESSAGE"}
    BY <1>1, <1>2, <1>3, <2>2, QuickIsNotStopped
  <2>3. QED
    BY <2>1, <2>2
<1>5. Keeps("RECOVERY_DESK", p, [run EXCEPT !.endedBy = reason])
  BY <1>1, <1>3, <1>4, Stopped
<1>6. QED
  BY <1>1, <1>2, <1>5, RunGoesOn

LEMMA DeskStopsKeep == EInv /\ (DeskHardStop \/ DeskHumanReview \/ DeskGivesUp) => EInv'
<1>1. ASSUME EInv, DeskHardStop
      PROVE  EInv'
  BY <1>1, DeskStopKeeps DEF DeskHardStop, DeskPass, Stop, Endings
<1>2. ASSUME EInv, DeskHumanReview
      PROVE  EInv'
  <2>1. PICK reason \in Endings \ {"none"} : Stop(reason)
    BY <1>2 DEF DeskHumanReview, Endings
  <2>2. QED
    BY <1>2, <2>1, DeskStopKeeps DEF DeskHumanReview, DeskPass, Stop
<1>3. ASSUME EInv, DeskGivesUp
      PROVE  EInv'
  BY <1>3, DeskStopKeeps DEF DeskGivesUp, Stop, Endings
<1>4. QED
  BY <1>1, <1>2, <1>3

\* The desk's attempts, after a message, over another rail or later.
LEMMA DeskKeeps == EInv /\ (DeskMessage \/ DeskSwitchRail \/ DeskRetry) => EInv'
<1> SUFFICES ASSUME EInv, DeskMessage \/ DeskSwitchRail \/ DeskRetry
             PROVE  EInv'
  OBVIOUS
<1>1. /\ Open /\ strategy = "RECOVERY_DESK" /\ run.passes < MaxPasses /\ run.endedBy = "none"
      /\ strategy \in Strategies
  BY DEF DeskMessage, DeskSwitchRail, DeskRetry, DeskPass, Open, Strategies
<1>2. PICK p : p = Payment
  OBVIOUS
<1>3. Sampled(p) /\ Keeps("RECOVERY_DESK", p, run)
  BY <1>1, <1>2, TurnIsSampled DEF EInv
<1>4. CASE DeskMessage
  <2>1. DeskDecision.action = "MESSAGE"
    BY <1>4 DEF DeskMessage, DeskPass
  <2>2. CASE Stop("MESSAGE_LIMIT")
    BY <1>1, <2>1, <2>2, DeskStopKeeps DEF Stop, Endings
  <2>3. CASE \E l \in Latencies :
               Advance(Retry([run EXCEPT !.messages = @ + 1, !.clock = @ + MessageLatency], 60, l))
    <3>1. PICK l \in Latencies :
               Advance(Retry([run EXCEPT !.messages = @ + 1, !.clock = @ + MessageLatency], 60, l))
      BY <2>3
    <3>2. PICK q : q = Retry([run EXCEPT !.messages = @ + 1, !.clock = @ + MessageLatency], 60, l)
      OBVIOUS
    <3>3. Keeps("RECOVERY_DESK", p, q)
      BY <1>1, <1>2, <1>3, <2>1, <3>2, DeskMessageKeeps
    <3>4. QED
      BY <1>1, <1>2, <3>1, <3>2, <3>3, RunGoesOn
  <2>4. QED
    BY <1>4, <2>2, <2>3 DEF DeskMessage
<1>5. CASE DeskSwitchRail
  <2>1. DeskDecision.action = "SWITCH_RAIL"
    BY <1>5 DEF DeskSwitchRail, DeskPass
  <2>2. PICK l \in Latencies : Advance(Retry([run EXCEPT !.rail = TRUE], DeskDecision.delay, l))
    BY <1>5 DEF DeskSwitchRail
  <2>3. PICK q : q = Retry([run EXCEPT !.rail = TRUE], DeskDecision.delay, l)
    OBVIOUS
  <2>4. Keeps("RECOVERY_DESK", p, q)
    BY <1>1, <1>2, <1>3, <2>1, <2>3, DeskSwitchKeeps
  <2>5. QED
    BY <1>1, <1>2, <2>2, <2>3, <2>4, RunGoesOn
<1>6. CASE DeskRetry
  <2>1. DeskDecision.action \in {"RETRY", "WAIT"}
    BY <1>6 DEF DeskRetry, DeskPass
  <2>2. PICK l \in Latencies : Advance(Retry(run, DeskDecision.delay, l))
    BY <1>6 DEF DeskRetry
  <2>3. PICK q : q = Retry(run, DeskDecision.delay, l)
    OBVIOUS
  <2>4. Keeps("RECOVERY_DESK", p, q)
    BY <1>1, <1>2, <1>3, <2>1, <2>3, DeskRetryKeeps
  <2>5. QED
    BY <1>1, <1>2, <2>2, <2>3, <2>4, RunGoesOn
<1>7. QED
  BY <1>4, <1>5, <1>6

\* What is kept of a run that has ended.
Outcome(r, p) ==
    [recovered |-> r.recovered, attempts |-> r.attempts, messages |-> r.messages,
     rail |-> r.rail, endedBy |-> r.endedBy, minutes |-> Elapsed(r, p)]

LEMMA OutcomeCompares ==
  ASSUME NEW p, Sampled(p), NEW s \in Strategies, NEW r, Keeps(s, p, r), r.endedBy # "none",
         NEW x, x = Outcome(r, p)
  PROVE  x \in Results /\ Compares(s, p, x)
<1>1. r \in RunRecord /\ Elapsed(r, p) <= Horizon + 1
  BY WindowWithin DEF Keeps, InWindow
<1>2. Elapsed(r, p) \in Int
  <2>1. PICK w \in Nat : w = Minute /\ w > 0
    BY MinuteLasts
  <2>2. PICK n \in Nat : n = r.clock - p.origin + w \div 2
    BY <2>1 DEF Keeps, InWindow, RunRecord, Sampled
  <2>3. n \div w \in Nat
    BY <2>1, <2>2, Divided
  <2>4. QED
    BY <2>1, <2>2, <2>3 DEF Elapsed
<1>3. x.minutes = Elapsed(r, p) /\ x.recovered = r.recovered
  BY DEF Outcome
<1>4. x \in Results
  BY <1>1, <1>2 DEF Outcome, Results, RunRecord
<1>5. s = "NAIVE" /\ x.recovered => Quick(p)
  BY <1>3 DEF Keeps, NaiveRun
<1>6. s = "RECOVERY_DESK" /\ Quick(p) => x.recovered
  BY <1>3 DEF Keeps, DeskRun
<1>7. QED
  BY <1>1, <1>3, <1>4, <1>5, <1>6 DEF Compares

\* How a run hands over: to the next payment, to the desk, or to nobody.
LEMMA HandsOver ==
  ASSUME EInv, EndRun, NEW p, p = Payment
  PROVE  /\ strategy \in Strategies /\ run.endedBy # "none" /\ batch' = batch
         /\ runs' = [runs EXCEPT ![strategy] = Append(@, Outcome(run, p))]
         /\ \/ Turn < Len(batch) /\ strategy' = strategy /\ run' = NewRun(batch[Turn + 1])
            \/ /\ Turn = Len(batch) /\ strategy = "NAIVE" /\ strategy' = "RECOVERY_DESK"
               /\ run' = NewRun(batch[1])
            \/ Turn = Len(batch) /\ strategy = "RECOVERY_DESK" /\ strategy' = "none"
<1>1. strategy \in Strategies
  BY DEF EInv, Progress, EndRun
<1>2. Turn \in 1..Len(batch) /\ Len(batch) \in Nat
  BY <1>1, TurnIsSampled
<1>3. /\ run.endedBy # "none" /\ batch' = batch
      /\ runs' = [runs EXCEPT ![strategy] = Append(@, Outcome(run, p))]
  BY DEF EndRun, Outcome
<1>4. CASE Turn < Len(batch)
  <2>1. strategy' = strategy
    BY <1>4 DEF EndRun
  <2>2. run' = NewRun(batch[Turn + 1])
    BY <1>1, <1>4, <2>1 DEF EndRun, Strategies
  <2>3. QED
    BY <1>1, <1>3, <1>4, <2>1, <2>2
<1>5. CASE Turn = Len(batch) /\ strategy = "NAIVE"
  <2>1. ~(Turn < Len(batch))
    BY <1>2, <1>5
  <2>2. strategy' = "RECOVERY_DESK"
    BY <1>5, <2>1 DEF EndRun
  <2>3. run' = NewRun(batch[1])
    BY <1>5, <2>1, <2>2 DEF EndRun
  <2>4. QED
    BY <1>1, <1>3, <1>5, <2>2, <2>3
<1>6. CASE Turn = Len(batch) /\ strategy = "RECOVERY_DESK"
  <2>1. ~(Turn < Len(batch)) /\ strategy # "NAIVE"
    BY <1>2, <1>6
  <2>2. strategy' = "none"
    BY <1>6, <2>1 DEF EndRun
  <2>3. QED
    BY <1>1, <1>3, <1>6, <2>2
<1>7. QED
  BY <1>1, <1>2, <1>4, <1>5, <1>6 DEF Strategies

LEMMA EndRunKeeps == EInv /\ EndRun => EInv'
<1> SUFFICES ASSUME EInv, EndRun
             PROVE  EInv'
  OBVIOUS
<1>1. PICK p, x : p = Payment /\ x = Outcome(run, p)
  OBVIOUS
<1>2. /\ strategy \in Strategies /\ run.endedBy # "none" /\ batch' = batch
      /\ runs' = [runs EXCEPT ![strategy] = Append(@, x)]
      /\ \/ Turn < Len(batch) /\ strategy' = strategy /\ run' = NewRun(batch[Turn + 1])
         \/ /\ Turn = Len(batch) /\ strategy = "NAIVE" /\ strategy' = "RECOVERY_DESK"
            /\ run' = NewRun(batch[1])
         \/ Turn = Len(batch) /\ strategy = "RECOVERY_DESK" /\ strategy' = "none"
  BY <1>1, HandsOver
<1>3. /\ batch \in Batches /\ Len(batch) \in Nat /\ Turn \in 1..Len(batch)
      /\ runs[strategy] \in Seq(Results) /\ Len(runs[strategy]) \in Nat /\ Sampled(p)
  BY <1>1, <1>2, TurnIsSampled
<1>4. x \in Results /\ Compares(strategy, p, x)
  <2>1. Keeps(strategy, p, run)
    BY <1>1, <1>2 DEF EInv
  <2>2. QED
    BY <1>1, <1>2, <1>3, <2>1, OutcomeCompares
<1>5. batch # <<>> /\ Len(batch) >= 1 /\ \A i \in 1..Len(batch) : Sampled(batch[i])
  BY <1>3, BatchesSampled
<1>6. runs \in [Strategies -> Seq(Results)]
  BY DEF EInv, Progress
<1>7. PICK t \in 1..Len(batch) : t = Turn /\ Len(runs[strategy]) = t - 1 /\ p = batch[t]
  BY <1>1, <1>3 DEF Turn, Payment
<1>8. /\ runs' \in [Strategies -> Seq(Results)]
      /\ runs'[strategy] = Append(runs[strategy], x)
      /\ \A s \in Strategies \ {strategy} : runs'[s] = runs[s]
  BY <1>2, <1>3, <1>4, <1>6
<1>9. /\ Len(runs'[strategy]) = t /\ runs'[strategy][t] = x
      /\ \A i \in 1..(t - 1) : runs'[strategy][i] = runs[strategy][i]
  BY <1>3, <1>4, <1>7, <1>8
<1>10. (\A s \in Strategies : \A i \in 1..Len(runs[s]) : Compares(s, batch[i], runs[s][i]))'
  <2>1. ASSUME NEW s \in Strategies, NEW i \in 1..Len(runs'[s])
        PROVE  Compares(s, batch[i], runs'[s][i])
    <3>1. CASE s # strategy
      BY <1>8, <2>1, <3>1 DEF EInv
    <3>2. CASE s = strategy /\ i = t
      BY <1>4, <1>7, <1>9, <3>2
    <3>3. CASE s = strategy /\ i # t
      <4>1. i \in 1..(t - 1)
        BY <1>7, <1>9, <2>1, <3>3
      <4>2. i \in 1..Len(runs[s]) /\ runs'[s][i] = runs[s][i]
        BY <1>7, <1>9, <3>3, <4>1
      <4>3. QED
        BY <2>1, <4>2 DEF EInv
    <3>4. QED
      BY <3>1, <3>2, <3>3
  <2>2. QED
    BY <1>2, <2>1
<1>11. /\ batch' \in Batches
       /\ \A s \in Strategies : Len(runs'[s]) <= Len(batch')
  <2>1. \A s \in Strategies : Len(runs[s]) <= Len(batch)
    BY DEF EInv, Progress
  <2>2. t <= Len(batch)
    BY <1>3, <1>7
  <2>3. QED
    BY <1>2, <1>3, <1>8, <1>9, <2>1, <2>2
<1>12. "NAIVE" \in Strategies /\ "RECOVERY_DESK" \in Strategies /\ "none" \notin Strategies
  BY DEF Strategies
<1>13. /\ strategy = "NAIVE" => runs["RECOVERY_DESK"] = <<>>
       /\ strategy = "RECOVERY_DESK" => Len(runs["NAIVE"]) = Len(batch)
  BY <1>3, <1>7 DEF EInv, Progress
<1>14. CASE Turn < Len(batch) /\ strategy' = strategy /\ run' = NewRun(batch[Turn + 1])
  <2>1. t + 1 \in 1..Len(batch)
    BY <1>3, <1>7, <1>14
  <2>2. Turn' = t + 1 /\ Payment' = batch[t + 1]
    BY <1>2, <1>9, <1>14 DEF Turn, Payment
  <2>3. Keeps(strategy, batch[t + 1], run')
    BY <1>2, <1>5, <1>7, <1>14, <2>1, Begins
  <2>4. Keeps(strategy, Payment, run)'
    BY <1>14, <2>2, <2>3
  <2>5. Progress'
    <3>1. \/ Len(runs'["NAIVE"]) = Len(batch')
          \/ strategy' # "RECOVERY_DESK" /\ runs'["RECOVERY_DESK"] = <<>>
      BY <1>2, <1>8, <1>12, <1>13, <1>14 DEF Strategies
    <3>2. batch' # <<>> /\ Turn' <= Len(batch')
      BY <1>2, <1>3, <1>5, <2>1, <2>2
    <3>3. QED
      BY <1>2, <1>8, <1>11, <1>14, <3>1, <3>2 DEF Progress
  <2>6. QED
    BY <1>10, <2>4, <2>5 DEF EInv
<1>15. CASE /\ Turn = Len(batch) /\ strategy = "NAIVE" /\ strategy' = "RECOVERY_DESK"
            /\ run' = NewRun(batch[1])
  <2>1. runs'["RECOVERY_DESK"] = <<>> /\ Len(runs'["NAIVE"]) = Len(batch')
    BY <1>2, <1>7, <1>8, <1>9, <1>12, <1>13, <1>15
  <2>2. Turn' = 1 /\ Payment' = batch[1]
    BY <1>2, <1>15, <2>1 DEF Turn, Payment
  <2>3. Keeps("RECOVERY_DESK", batch[1], run')
    BY <1>3, <1>5, <1>12, <1>15, Begins
  <2>4. Keeps(strategy, Payment, run)'
    BY <1>15, <2>2, <2>3
  <2>5. Progress'
    BY <1>2, <1>3, <1>5, <1>8, <1>11, <1>12, <1>15, <2>1, <2>2 DEF Progress
  <2>6. QED
    BY <1>10, <2>4, <2>5 DEF EInv
<1>16. CASE Turn = Len(batch) /\ strategy = "RECOVERY_DESK" /\ strategy' = "none"
  <2>1. Len(runs'["NAIVE"]) = Len(batch')
    BY <1>2, <1>8, <1>12, <1>13, <1>16
  <2>2. Progress'
    BY <1>2, <1>8, <1>11, <1>12, <1>16, <2>1 DEF Progress
  <2>3. QED
    BY <1>10, <1>12, <1>16, <2>2 DEF EInv
<1>17. QED
  BY <1>2, <1>14, <1>15, <1>16

LEMMA ENext == EInv /\ [Next]_vars => EInv'
<1> SUFFICES ASSUME EInv, [Next]_vars
             PROVE  EInv'
  OBVIOUS
<1>1. CASE GenerateDataset
  BY <1>1, DatasetKeeps
<1>2. CASE NaiveRetry \/ NaiveStop
  BY <1>2, NaiveKeeps
<1>3. CASE DeskHardStop \/ DeskHumanReview \/ DeskGivesUp
  BY <1>3, DeskStopsKeep
<1>4. CASE DeskMessage \/ DeskSwitchRail \/ DeskRetry
  BY <1>4, DeskKeeps
<1>5. CASE EndRun
  BY <1>5, EndRunKeeps
<1>6. ASSUME UNCHANGED <<batch, strategy, run, runs>>
      PROVE  EInv'
  <2>1. Turn' = Turn /\ Payment' = Payment
    BY <1>6 DEF Turn, Payment
  <2>2. Progress'
    BY <1>6, <2>1 DEF EInv, Progress
  <2>3. QED
    BY <1>6, <2>1, <2>2 DEF EInv
<1>7. CASE Report
  BY <1>6, <1>7 DEF Report
<1>8. CASE UNCHANGED vars
  BY <1>6, <1>8 DEF vars
<1>9. QED
  BY <1>1, <1>2, <1>3, <1>4, <1>5, <1>7, <1>8 DEF Next

LEMMA RunsKeep == Spec => []EInv
  BY EInit, ENext, PTL DEF Spec

-----------------------------------------------------------------------------
(* Sums.  What a fold computes of any data is shown without induction: of  *)
(* the sets for which it fails, a least one would be a contradiction.      *)

\* Of the subsets of a finite set that are counterexamples, one has no smaller one in it:
\* with this, what holds of a set if it holds of its proper subsets holds of them all.
LEMMA LeastSubset ==
  ASSUME NEW S, IsFiniteSet(S), NEW Q, Q \subseteq SUBSET S, Q # {}
  PROVE  \E K \in Q : \A J \in Q : J \subseteq K => J = K
<1>1. FiniteSubsetsOf(S) = SUBSET S
  BY FS_FiniteSubsetsOfFinite
<1>2. IsWellFoundedOn(StrictSubsetOrdering(S), SUBSET S)
  BY <1>1, FS_StrictSubsetOrderingWellFounded
<1>3. \E K \in Q : \A J \in Q : ~(<<J, K>> \in StrictSubsetOrdering(S))
  BY <1>2, WFMin, Zenon
<1>4. QED
  BY <1>3 DEF StrictSubsetOrdering

\* g is the sum of f over each subset of S, whichever element comes last.
Sums(g, f, S) ==
    /\ g \in [SUBSET S -> Nat]
    /\ g[{}] = 0
    /\ \A T \in SUBSET S, x \in S : x \in T => g[T] = f[x] + g[T \ {x}]

\* How a fold goes through a set: ch chooses the last element.  (Hypotheses of the lemmas
\* that quantify have names, by which the provers recognise them.)
Chooser(ch, S) == \A T \in SUBSET S : T # {} => ch[T] \in T

Chosen(g, f, ch, S) == g = [T \in SUBSET S |-> IF T = {} THEN 0 ELSE f[ch[T]] + g[T \ {ch[T]}]]

\* A sum may be taken in any order: two elements taken off in either order leave the same.
LEMMA AnyLast ==
  ASSUME NEW S, IsFiniteSet(S), NEW f \in [S -> Nat], NEW ch,
         Chooser(ch, S),
         NEW g \in [SUBSET S -> Nat], Chosen(g, f, ch, S)
  PROVE  Sums(g, f, S)
<1> DEFINE Bad == {T \in SUBSET S : \E x \in T : g[T] # f[x] + g[T \ {x}]}
<1>1. g[{}] = 0 /\ \A T \in SUBSET S : T # {} => g[T] = f[ch[T]] + g[T \ {ch[T]}]
  BY DEF Chosen
<1> USE DEF Chooser
<1>2. Bad = {}
  <2> SUFFICES ASSUME Bad # {} PROVE FALSE
    OBVIOUS
  <2>1. PICK T \in Bad : \A J \in Bad : J \subseteq T => J = T
    <3> HIDE DEF Bad
    <3>1. Bad \subseteq SUBSET S
      BY DEF Bad
    <3>2. QED
      BY <3>1, LeastSubset
  <2>2. PICK x \in T : g[T] # f[x] + g[T \ {x}]
    OBVIOUS
  <2> DEFINE c == ch[T]
             U == T \ {c}
             V == T \ {x}
             W == U \ {x}
  <2>3. c \in T /\ g[T] = f[c] + g[U] /\ c # x
    BY <1>1, <2>2
  <2>4. U \in SUBSET S /\ V \in SUBSET S /\ W \in SUBSET S /\ W = V \ {c} /\ x \in U /\ c \in V
    BY <2>3
  <2>5. g[U] = f[x] + g[W] /\ g[V] = f[c] + g[W]
    <3>1. U \notin Bad /\ V \notin Bad
      <4>1. U \subseteq T /\ V \subseteq T /\ U # T /\ V # T
        BY <2>3
      <4> HIDE DEF Bad, U, V
      <4>2. QED
        BY <2>1, <4>1
    <3>2. x \in S /\ c \in S
      BY <2>3
    <3> HIDE DEF U, V, W
    <3>3. g[U] = f[x] + g[U \ {x}] /\ g[V] = f[c] + g[V \ {c}]
      BY <2>4, <3>1
    <3>4. QED
      BY <2>4, <3>3 DEF W
  <2>6. f[x] \in Nat /\ f[c] \in Nat /\ g[W] \in Nat
    BY <2>3, <2>4
  <2>7. QED
    BY <2>2, <2>3, <2>5, <2>6
<1>3. QED
  BY <1>1, <1>2 DEF Sums

\* The recursive equation of a fold has a solution: by the number of elements.
LEMMA SumFound ==
  ASSUME NEW S, IsFiniteSet(S), NEW f \in [S -> Nat], NEW ch,
         Chooser(ch, S)
  PROVE  \E g \in [SUBSET S -> Nat] : Chosen(g, f, ch, S)
<1> DEFINE Small(K) == {T \in SUBSET S : Cardinality(T) <= Cardinality(K)}
           Found(g, K) == \A T \in Small(K) : g[T] = IF T = {} THEN 0 ELSE f[ch[T]] + g[T \ {ch[T]}]
           Bad == {K \in SUBSET S : \A g \in [SUBSET S -> Nat] : ~Found(g, K)}
<1> USE DEF Chooser
<1>1. \A T \in SUBSET S : IsFiniteSet(T) /\ Cardinality(T) \in Nat /\ Cardinality(T) <= Cardinality(S)
                          /\ (Cardinality(T) = 0 <=> T = {})
  BY FS_Subset, FS_CardinalityType, FS_EmptySet
<1>2. \A T \in SUBSET S : \A x \in T : Cardinality(T \ {x}) = Cardinality(T) - 1
  BY <1>1, FS_RemoveElement
<1>3. Bad = {}
  <2> SUFFICES ASSUME Bad # {} PROVE FALSE
    OBVIOUS
  <2>1. PICK K \in Bad : \A J \in Bad : J \subseteq K => J = K
    <3> HIDE DEF Bad
    <3>1. Bad \subseteq SUBSET S
      BY DEF Bad
    <3>2. QED
      BY <3>1, LeastSubset
  <2>2. CASE K = {}
    <3>1. [T \in SUBSET S |-> 0] \in [SUBSET S -> Nat]
      OBVIOUS
    <3>2. \A T \in Small(K) : T = {}
      BY <1>1, <2>2
    <3>3. Found([T \in SUBSET S |-> 0], K)
      BY <3>2
    <3>4. QED
      BY <3>1, <3>3
  <2>3. CASE K # {}
    <3>1. PICK k \in K : TRUE
      BY <2>3
    <3>2. K \ {k} \in SUBSET S /\ K \ {k} \notin Bad
      <4>1. K \in SUBSET S /\ K \ {k} \in SUBSET S /\ K \ {k} # K
        BY <3>1
      <4> HIDE DEF Bad
      <4>2. QED
        BY <2>1, <4>1
    <3>3. PICK g \in [SUBSET S -> Nat] : Found(g, K \ {k})
      BY <3>2
    <3> DEFINE h == [T \in SUBSET S |-> IF T \in Small(K \ {k}) THEN g[T]
                                       ELSE f[ch[T]] + g[T \ {ch[T]}]]
    <3>4. \A T \in SUBSET S : T # {} => f[ch[T]] \in Nat /\ T \ {ch[T]} \in SUBSET S /\ ch[T] \in T
      OBVIOUS
    <3>5. {} \in Small(K \ {k})
      BY <1>1, <3>2
    <3>6. h \in [SUBSET S -> Nat]
      <4> SUFFICES ASSUME NEW T \in SUBSET S
                   PROVE  (IF T \in Small(K \ {k}) THEN g[T] ELSE f[ch[T]] + g[T \ {ch[T]}]) \in Nat
        OBVIOUS
      <4> HIDE DEF Small
      <4>1. CASE T = {}
        BY <3>5, <4>1
      <4>2. CASE T # {}
        BY <3>4, <4>2
      <4>3. QED
        BY <4>1, <4>2
    <3>7. \A T \in Small(K) : T # {} => T \ {ch[T]} \in Small(K \ {k})
      <4> SUFFICES ASSUME NEW T \in Small(K), T # {}
                   PROVE  T \ {ch[T]} \in Small(K \ {k})
        OBVIOUS
      <4>1. T \in SUBSET S /\ Cardinality(T) <= Cardinality(K) /\ K \in SUBSET S
        OBVIOUS
      <4>2. ch[T] \in T /\ T \ {ch[T]} \in SUBSET S
        BY <3>4, <4>1
      <4>3. /\ Cardinality(T \ {ch[T]}) = Cardinality(T) - 1
            /\ Cardinality(K \ {k}) = Cardinality(K) - 1
        BY <1>2, <3>1, <4>1, <4>2
      <4>4. Cardinality(T) \in Nat /\ Cardinality(K) \in Nat
        BY <1>1, <4>1
      <4>5. Cardinality(T \ {ch[T]}) <= Cardinality(K \ {k})
        BY <4>1, <4>3, <4>4
      <4>6. QED
        BY <4>2, <4>5
    <3>8. Found(h, K)
      <4> SUFFICES ASSUME NEW T \in Small(K)
                   PROVE  h[T] = IF T = {} THEN 0 ELSE f[ch[T]] + h[T \ {ch[T]}]
        OBVIOUS
      <4>1. CASE T = {}
        BY <3>3, <3>5, <4>1
      <4>2. CASE T # {}
        <5>1. h[T \ {ch[T]}] = g[T \ {ch[T]}]
          BY <3>4, <3>7, <4>2
        <5>2. h[T] = f[ch[T]] + g[T \ {ch[T]}]
          BY <3>3, <4>2
        <5>3. QED
          BY <4>2, <5>1, <5>2
      <4>3. QED
        BY <4>1, <4>2
    <3>9. QED
      <4> HIDE DEF h, Found
      <4>1. QED
        BY <3>6, <3>8
  <2>4. QED
    BY <2>2, <2>3
<1>4. PICK g \in [SUBSET S -> Nat] : Found(g, S)
  BY <1>3
<1>5. \A T \in SUBSET S : T \in Small(S)
  BY <1>1
<1>6. Chosen(g, f, ch, S)
  BY <1>4, <1>5 DEF Chosen
<1>7. QED
  BY <1>6

\* Nothing else is the sum.
LEMMA SumIsOne ==
  ASSUME NEW S, IsFiniteSet(S), NEW f \in [S -> Nat], NEW g, NEW h, Sums(g, f, S), Sums(h, f, S)
  PROVE  g = h
<1> DEFINE Bad == {T \in SUBSET S : g[T] # h[T]}
<1>1. Bad = {}
  <2> SUFFICES ASSUME Bad # {} PROVE FALSE
    OBVIOUS
  <2>1. PICK T \in Bad : \A J \in Bad : J \subseteq T => J = T
    <3> HIDE DEF Bad
    <3>1. Bad \subseteq SUBSET S
      BY DEF Bad
    <3>2. QED
      BY <3>1, LeastSubset
  <2>2. T # {}
    BY DEF Sums
  <2>3. PICK x \in T : TRUE
    BY <2>2
  <2>4. T \in SUBSET S /\ x \in S /\ T \ {x} \in SUBSET S /\ T \ {x} # T
    BY <2>3
  <2>5. T \ {x} \notin Bad
    <3> HIDE DEF Bad
    <3>1. QED
      BY <2>1, <2>4
  <2>6. g[T] = f[x] + g[T \ {x}] /\ h[T] = f[x] + h[T \ {x}]
    BY <2>3, <2>4 DEF Sums
  <2>7. QED
    BY <2>4, <2>5, <2>6
<1>2. QED
  BY <1>1 DEF Sums

\* The sum over two disjoint sets is the sum of the two.
LEMMA SumSplits ==
  ASSUME NEW S, IsFiniteSet(S), NEW f \in [S -> Nat], NEW g, Sums(g, f, S),
         NEW A \in SUBSET S, NEW B \in SUBSET S, A \cap B = {}
  PROVE  g[A \cup B] = g[A] + g[B]
<1> DEFINE Bad == {T \in SUBSET B : g[A \cup T] # g[A] + g[T]}
<1>1. Bad = {}
  <2> SUFFICES ASSUME Bad # {} PROVE FALSE
    OBVIOUS
  <2>1. PICK T \in Bad : \A J \in Bad : J \subseteq T => J = T
    <3> HIDE DEF Bad
    <3>1. Bad \subseteq SUBSET S
      BY DEF Bad
    <3>2. QED
      BY <3>1, LeastSubset
  <2>2. T \in SUBSET B /\ g[A \cup T] # g[A] + g[T]
    OBVIOUS
  <2> HIDE DEF Bad
  <2>3. T # {}
    <3>1. A \cup {} = A /\ g[A] \in Nat /\ g[{}] = 0
      BY DEF Sums
    <3>2. QED
      BY <2>2, <3>1
  <2>4. PICK x \in T : TRUE
    BY <2>3
  <2> DEFINE U == T \ {x}
  <2>5. /\ T \in SUBSET S /\ A \cup T \in SUBSET S /\ x \in A \cup T /\ x \in S
        /\ (A \cup T) \ {x} = A \cup U /\ U \in SUBSET B /\ U \in SUBSET S /\ U \subseteq T /\ U # T
    BY <2>2, <2>4
  <2> HIDE DEF U
  <2>6. g[A \cup U] = g[A] + g[U]
    <3>1. U \notin Bad
      BY <2>1, <2>5
    <3>2. QED
      BY <2>5, <3>1 DEF Bad
  <2>7. g[A \cup T] = f[x] + g[A \cup U] /\ g[T] = f[x] + g[U]
    BY <2>4, <2>5 DEF Sums, U
  <2>8. f[x] \in Nat /\ g[A] \in Nat /\ g[U] \in Nat
    BY <2>5 DEF Sums
  <2>9. QED
    BY <2>2, <2>6, <2>7, <2>8
<1>2. B \notin Bad
  BY <1>1
<1>3. QED
  BY <1>2

\* What is not in A counts as zero: the sum is that over A.
Masks(m, f, A, S) == m = [i \in S |-> IF i \in A THEN f[i] ELSE 0]

LEMMA SumMasks ==
  ASSUME NEW S, IsFiniteSet(S), NEW f, f \in [S -> Nat], NEW g, Sums(g, f, S),
         NEW A, A \subseteq S, NEW m, Masks(m, f, A, S),
         NEW h, Sums(h, m, S)
  PROVE  h[S] = g[A]
<1> USE DEF Masks
<1> DEFINE k == [T \in SUBSET S |-> g[T \cap A]]
<1>1. m \in [S -> Nat]
  OBVIOUS
<1>2. Sums(k, m, S)
  <2>1. k \in [SUBSET S -> Nat]
    <3>1. \A T \in SUBSET S : g[T \cap A] \in Nat
      BY DEF Sums
    <3>2. QED
      BY <3>1
  <2>2. k[{}] = 0
    <3>1. {} \cap A = {} /\ {} \in SUBSET S
      OBVIOUS
    <3>2. QED
      BY <3>1 DEF Sums
  <2>3. ASSUME NEW T \in SUBSET S, NEW x \in S, x \in T
        PROVE  k[T] = m[x] + k[T \ {x}]
    <3>1. k[T] = g[T \cap A] /\ k[T \ {x}] = g[(T \ {x}) \cap A]
      OBVIOUS
    <3>2. CASE x \in A
      <4>1. (T \ {x}) \cap A = (T \cap A) \ {x} /\ T \cap A \in SUBSET S /\ x \in T \cap A
        BY <2>3, <3>2
      <4>2. g[T \cap A] = f[x] + g[(T \cap A) \ {x}]
        BY <4>1 DEF Sums
      <4>3. QED
        BY <3>1, <3>2, <4>1, <4>2
    <3>3. CASE x \notin A
      <4>1. (T \ {x}) \cap A = T \cap A /\ T \cap A \in SUBSET S
        BY <3>3
      <4>2. g[T \cap A] \in Nat
        BY <4>1 DEF Sums
      <4>3. m[x] = 0
        BY <3>3
      <4> HIDE DEF k
      <4>4. QED
        BY <3>1, <4>1, <4>2, <4>3
    <3>4. QED
      BY <3>2, <3>3
  <2>4. QED
    BY <2>1, <2>2, <2>3 DEF Sums
<1>3. h = k
  <2> HIDE DEF k
  <2>1. QED
    BY <1>1, <1>2, SumIsOne
<1>4. S \cap A = A
  OBVIOUS
<1>5. QED
  BY <1>3, <1>4

\* A set falls into groups by cause: the sum of the groups' sums is the whole sum.
Groups(v, g, cause, S, C) == v = [c \in C |-> g[{i \in S : cause[i] = c}]]

LEMMA SumGroups ==
  ASSUME NEW S, IsFiniteSet(S), NEW f, f \in [S -> Nat], NEW g, Sums(g, f, S),
         NEW C, NEW cause, cause \in Surjection(S, C),
         NEW v, Groups(v, g, cause, S, C),
         NEW h, Sums(h, v, C)
  PROVE  h[C] = g[S]
<1> USE DEF Groups
<1> DEFINE Of(D) == {i \in S : cause[i] \in D}
           k == [D \in SUBSET C |-> g[Of(D)]]
<1>1. \A A \in SUBSET S, B \in SUBSET S : A \cap B = {} => g[A \cup B] = g[A] + g[B]
  BY SumSplits
<1>2. IsFiniteSet(C)
  BY FS_Surjection, Zenon
<1>3. cause \in [S -> C] /\ \A c \in C : \E i \in S : cause[i] = c
  BY DEF Surjection
<1>4. v \in [C -> Nat]
  <2>1. \A c \in C : g[{i \in S : cause[i] = c}] \in Nat
    BY DEF Sums
  <2>2. QED
    BY <2>1
<1>5. Sums(k, v, C)
  <2>1. k \in [SUBSET C -> Nat]
    <3>1. \A D \in SUBSET C : g[Of(D)] \in Nat
      BY DEF Sums
    <3>2. QED
      BY <3>1
  <2>2. k[{}] = 0
    <3>1. Of({}) = {}
      OBVIOUS
    <3>2. QED
      BY <3>1 DEF Sums
  <2>3. ASSUME NEW D \in SUBSET C, NEW c \in C, c \in D
        PROVE  k[D] = v[c] + k[D \ {c}]
    <3> DEFINE B == {i \in S : cause[i] = c}
    <3>1. /\ Of(D) = Of(D \ {c}) \cup B /\ Of(D \ {c}) \cap B = {}
          /\ Of(D \ {c}) \in SUBSET S /\ B \in SUBSET S
      BY <2>3
    <3>2. g[Of(D)] = g[Of(D \ {c})] + g[B] /\ g[B] \in Nat /\ g[Of(D \ {c})] \in Nat
      <4> HIDE DEF Of, B
      <4>1. g[Of(D \ {c}) \cup B] = g[Of(D \ {c})] + g[B]
        BY <1>1, <3>1, Zenon
      <4>2. QED
        BY <3>1, <4>1 DEF Sums
    <3>3. k[D] = g[Of(D)] /\ k[D \ {c}] = g[Of(D \ {c})] /\ v[c] = g[B]
      OBVIOUS
    <3> HIDE DEF k, Of, B
    <3>4. QED
      BY <3>2, <3>3
  <2>4. QED
    BY <2>1, <2>2, <2>3 DEF Sums
<1>6. h = k
  <2> HIDE DEF k
  <2>1. QED
    BY <1>2, <1>5, <1>4, SumIsOne
<1>7. Of(C) = S
  BY <1>3
<1>8. QED
  BY <1>6, <1>7

\* The order in which FoldLeft goes through a sequence.
LEMMA MaxInside ==
  ASSUME NEW n \in Nat, NEW T, T \in SUBSET (1..n), T # {}
  PROVE  Max(T) \in T
<1> DEFINE Bad == {K \in SUBSET T : K # {} /\ \A x \in K : \E y \in K : ~(x >= y)}
<1>1. IsFiniteSet(T)
  <2>1. IsFiniteSet(1..n)
    BY FS_Interval
  <2>2. QED
    BY <2>1, FS_Subset, Zenon
<1>2. T \subseteq Nat
  OBVIOUS
<1>3. Bad = {}
  <2> SUFFICES ASSUME Bad # {} PROVE FALSE
    OBVIOUS
  <2>1. Bad \subseteq SUBSET T
    OBVIOUS
  <2>2. PICK K \in Bad : \A J \in Bad : J \subseteq K => J = K
    <3> HIDE DEF Bad
    <3>1. \E K \in Bad : \A J \in Bad : J \subseteq K => J = K
      BY ONLY Bad # {}, <1>1, <2>1, LeastSubset
    <3>2. QED
      BY <3>1
  <2>3. K \in SUBSET T /\ K # {} /\ \A x \in K : \E y \in K : ~(x >= y)
    OBVIOUS
  <2>4. PICK k \in K : TRUE
    BY <2>3
  <2>5. K \ {k} \notin Bad
    <3>1. K \ {k} \subseteq K /\ K \ {k} # K
      BY <2>4
    <3> HIDE DEF Bad
    <3>2. QED
      BY <2>2, <3>1
  <2>6. CASE K \ {k} = {}
    BY <1>2, <2>3, <2>4, <2>6
  <2>7. CASE K \ {k} # {}
    <3>1. PICK m \in K \ {k} : \A y \in K \ {k} : m >= y
      BY <2>3, <2>5, <2>7
    <3>2. CASE m >= k
      BY <2>3, <3>1, <3>2
    <3>3. CASE ~(m >= k)
      <4>1. \A y \in K : k >= y
        BY <1>2, <2>3, <2>4, <3>1, <3>3
      <4>2. QED
        BY <2>3, <2>4, <4>1
    <3>4. QED
      BY <3>2, <3>3
  <2>8. QED
    BY <2>6, <2>7
<1>4. T \notin Bad
  BY <1>3
<1>5. \E x \in T : \A y \in T : x >= y
  BY <1>4
<1>6. QED
  BY <1>5 DEF Max

\* Whatever solves the equation, with the last element added on either side, is the sum.
Adds(l, f, ch, S) ==
    /\ l[{}] = 0
    /\ \A T \in SUBSET S : T # {} => \/ l[T] = f[ch[T]] + l[T \ {ch[T]}]
                                     \/ l[T] = l[T \ {ch[T]}] + f[ch[T]]

LEMMA FoldSums ==
  ASSUME NEW S, IsFiniteSet(S), NEW f \in [S -> Nat], NEW g, Sums(g, f, S), NEW ch,
         Chooser(ch, S), NEW l, Adds(l, f, ch, S)
  PROVE  l[S] = g[S]
<1> DEFINE Bad == {T \in SUBSET S : l[T] # g[T]}
<1>1. Bad = {}
  <2> SUFFICES ASSUME Bad # {} PROVE FALSE
    OBVIOUS
  <2>1. PICK T \in Bad : \A J \in Bad : J \subseteq T => J = T
    <3> HIDE DEF Bad
    <3>1. Bad \subseteq SUBSET S
      BY DEF Bad
    <3>2. QED
      BY <3>1, LeastSubset
  <2>2. T \in SUBSET S /\ l[T] # g[T]
    OBVIOUS
  <2>3. T # {}
    BY <2>2 DEF Sums, Adds
  <2> DEFINE x == ch[T]
             U == T \ {x}
  <2>4. x \in T /\ x \in S /\ U \in SUBSET S /\ U \subseteq T /\ U # T
    BY <2>2, <2>3 DEF Chooser
  <2>5. l[T] = f[x] + l[U] \/ l[T] = l[U] + f[x]
    BY <2>2, <2>3 DEF Adds
  <2>6. g[T] = f[x] + g[U]
    BY <2>2, <2>4 DEF Sums
  <2> HIDE DEF x, U, Bad
  <2>7. U \notin Bad
    BY <2>1, <2>4
  <2>8. l[U] = g[U]
    BY <2>4, <2>7 DEF Bad
  <2>9. f[x] \in Nat /\ g[U] \in Nat
    BY <2>4 DEF Sums
  <2>10. QED
    BY <2>2, <2>5, <2>6, <2>8, <2>9
<1>2. S \notin Bad
  BY <1>1
<1>3. QED
  BY <1>2

\* Total is the sum of a field.
Column(w, results, field) == w = [i \in DOMAIN results |-> results[i][field]]

LEMMA TotalIs ==
  ASSUME NEW results, NEW field, NEW n \in Nat, DOMAIN results = 1..n,
         NEW w, Column(w, results, field), w \in [1..n -> Nat],
         NEW g, Sums(g, w, 1..n)
  PROVE  Total(results, field) = g[1..n]
<1> USE DEF Column
<1> DEFINE ch == [T \in SUBSET (1..n) |-> IF T = {} THEN 0 ELSE Max(T)]
           Fold(k) == k = [T \in SUBSET (1..n) |->
                             IF T = {} THEN 0 ELSE k[T \ {Max(T)}] + results[Max(T)][field]]
<1>1. IsFiniteSet(1..n)
  BY FS_Interval
<1>2. \A T \in SUBSET (1..n) : T # {} => ch[T] \in T /\ ch[T] = Max(T)
  BY MaxInside
<1>3. PICK k \in [SUBSET (1..n) -> Nat] : Chosen(k, w, ch, 1..n)
  <2> HIDE DEF ch
  <2>1. QED
    BY <1>1, <1>2, SumFound DEF Chooser
<1>4. Fold(k)
  <2>1. ASSUME NEW T \in SUBSET (1..n)
        PROVE  k[T] = IF T = {} THEN 0 ELSE k[T \ {Max(T)}] + results[Max(T)][field]
    <3>1. CASE T = {}
      BY <1>3, <3>1 DEF Chosen
    <3>2. CASE T # {}
      <4>1. Max(T) \in T /\ ch[T] = Max(T)
        BY <1>2, <3>2
      <4>2. k[T] = w[Max(T)] + k[T \ {Max(T)}]
        <5> HIDE DEF ch
        <5>1. QED
          BY <1>3, <3>2, <4>1 DEF Chosen
      <4>3. results[Max(T)][field] = w[Max(T)] /\ w[Max(T)] \in Nat
        BY <4>1
      <4>4. T \ {Max(T)} \in SUBSET (1..n) /\ k[T \ {Max(T)}] \in Nat
        OBVIOUS
      <4>5. k[T] = k[T \ {Max(T)}] + results[Max(T)][field]
        BY ONLY <4>2, <4>3, <4>4
      <4>6. QED
        BY <3>2, <4>5
    <3>3. QED
      BY <3>1, <3>2
  <2>2. QED
    BY <2>1
<1>5. PICK l : Fold(l) /\ Total(results, field) = l[1..n]
  <2>1. Total(results, field) = (CHOOSE l : Fold(l))[1..n]
    BY DEF Total, FoldLeft, MapThenFoldSet
  <2>2. Fold(CHOOSE l : Fold(l))
    <3> HIDE DEF Fold
    <3>1. QED
      BY <1>4
  <2>3. QED
    BY <2>1, <2>2
<1>6. l[{}] = 0
  BY <1>5
<1>7. ASSUME NEW T \in SUBSET (1..n), T # {}
      PROVE  l[T] = l[T \ {ch[T]}] + w[ch[T]]
  <2>1. Max(T) \in T /\ ch[T] = Max(T)
    BY <1>2, <1>7
  <2>2. l[T] = l[T \ {Max(T)}] + results[Max(T)][field]
    BY <1>5, <1>7
  <2>3. results[Max(T)][field] = w[Max(T)]
    BY <2>1
  <2> HIDE DEF ch
  <2>4. QED
    BY <2>1, <2>2, <2>3
<1> HIDE DEF ch
<1>8. l[1..n] = g[1..n]
  <2>1. Adds(l, w, ch, 1..n)
    BY <1>6, <1>7, Zenon DEF Adds
  <2>2. Chooser(ch, 1..n)
    BY <1>2, Zenon DEF Chooser
  <2>3. QED
    BY <1>1, <1>6, <2>1, <2>2, FoldSums
<1>9. QED
  BY <1>5, <1>8

\* So is a fold of a function.
LEMMA FoldIs ==
  ASSUME NEW S, IsFiniteSet(S), NEW f \in [S -> Nat], NEW g, Sums(g, f, S)
  PROVE  FoldFunction(+, 0, f) = g[S]
<1> DEFINE ch == [T \in SUBSET S |-> CHOOSE x \in T : TRUE]
           Fold(k) == k = [T \in SUBSET S |->
                             IF T = {} THEN 0
                             ELSE f[CHOOSE x \in T : TRUE] + k[T \ {CHOOSE x \in T : TRUE}]]
<1>1. Chooser(ch, S)
  BY DEF Chooser
<1>2. PICK k \in [SUBSET S -> Nat] : Chosen(k, f, ch, S)
  <2> HIDE DEF ch
  <2>1. QED
    BY <1>1, SumFound
<1>3. Fold(k)
  BY <1>2 DEF Chosen
<1>4. PICK l : Fold(l) /\ FoldFunction(+, 0, f) = l[S]
  <2>1. DOMAIN f = S
    OBVIOUS
  <2>2. FoldFunction(+, 0, f) = (CHOOSE l : Fold(l))[S]
    BY <2>1 DEF FoldFunction, FoldFunctionOnSet, MapThenFoldSet
  <2>3. Fold(CHOOSE l : Fold(l))
    <3> HIDE DEF Fold
    <3>1. QED
      BY <1>3
  <2>4. QED
    BY <2>2, <2>3
<1>5. l[{}] = 0 /\ \A T \in SUBSET S : T # {} => l[T] = f[ch[T]] + l[T \ {ch[T]}]
  BY <1>4
<1> HIDE DEF ch
<1>6. l[S] = g[S]
  <2>1. Adds(l, f, ch, S)
    BY <1>5, Zenon DEF Adds
  <2>2. QED
    BY <1>1, <1>5, <2>1, FoldSums
<1>7. QED
  BY <1>4, <1>6

LEMMA SumExists ==
  ASSUME NEW S, IsFiniteSet(S), NEW f \in [S -> Nat]
  PROVE  \E g : Sums(g, f, S)
<1> DEFINE ch == [T \in SUBSET S |-> CHOOSE x \in T : TRUE]
<1>1. Chooser(ch, S)
  BY DEF Chooser
<1> HIDE DEF ch
<1>2. PICK k \in [SUBSET S -> Nat] : Chosen(k, f, ch, S)
  BY <1>1, SumFound
<1>3. QED
  BY <1>1, <1>2, AnyLast

-----------------------------------------------------------------------------
(* The metrics.                                                            *)

\* A run has a column of the metrics, and the recovered one only if it recovered.
InColumn(x) ==
    /\ x.endedBy \in {"RECOVERED", "HARD_STOP", "HUMAN_REVIEW", "EXHAUSTED"}
    /\ x.endedBy = "RECOVERED" <=> x.recovered

\* So will the open one's result; once nobody runs any more all payments have run; and what
\* was reported are the metrics of what was run.
CountInv ==
    /\ EInv
    /\ run.endedBy = "none" => ~run.recovered
    /\ run.endedBy # "none" => InColumn(run)
    /\ \A s \in Strategies : \A i \in 1..Len(runs[s]) : InColumn(runs[s][i])
    /\ strategy = "none" /\ batch # <<>> => \A s \in Strategies : Len(runs[s]) = Len(batch)
    /\ report # <<>> => batch # <<>> /\ strategy = "none" /\ report = <<Metrics>>

\* Nothing has run at first.
LEMMA CountInit == Init => CountInv
<1>1. Init => EInv
  BY EInit
<1>2. QED
  BY <1>1 DEF Init, CountInv, NoRun

\* A step within a run that leaves it open, or ends it in a column.
LEMMA CountAdvances ==
  ASSUME CountInv, EInv', Open, NEW q, Advance(q),
         q.endedBy = "none" => ~q.recovered, q.endedBy # "none" => InColumn(q)
  PROVE  CountInv'
<1>1. run' = q /\ batch' = batch /\ strategy' = strategy /\ runs' = runs /\ report' = report
  BY DEF Advance
<1>2. strategy # "none" /\ report = <<>>
  BY DEF Open, CountInv
<1>3. QED
  BY <1>1, <1>2 DEF CountInv

\* An attempt recovers the payment and ends the run, or does neither.
LEMMA RetriesCount ==
  ASSUME NEW r, r \in RunRecord, r.endedBy = "none", NEW delay, NEW l, NEW q, q = Retry(r, delay, l)
  PROVE  /\ q.endedBy = "none" => ~q.recovered
         /\ q.endedBy # "none" => InColumn(q)
  BY DEF Retry, InColumn, RunRecord

\* A stop ends in its own column.
LEMMA StopsCount ==
  ASSUME CountInv, EInv', Open, NEW reason \in {"HARD_STOP", "HUMAN_REVIEW", "EXHAUSTED"},
         Stop(reason)
  PROVE  CountInv'
<1>1. PICK q : q = [run EXCEPT !.endedBy = reason]
  OBVIOUS
<1>2. run.endedBy = "none" /\ ~run.recovered
  BY DEF Open, CountInv
<1>3. strategy \in Strategies
  BY DEF Open, CountInv, EInv, Progress
<1>4. run \in RunRecord
  BY <1>3 DEF CountInv, EInv, Keeps, InWindow
<1>5. q.endedBy = reason /\ q.recovered = run.recovered
  BY <1>1, <1>4 DEF RunRecord
<1>6. Advance(q)
  BY <1>1 DEF Stop
<1>7. InColumn(q) /\ q.endedBy # "none"
  BY <1>2, <1>5 DEF InColumn
<1>8. QED
  BY <1>6, <1>7, CountAdvances

\* A message goes out below its ceiling, so no run ends for want of one; and only a run that
\* has ended is kept.
LEMMA CountNext == CountInv /\ [Next]_vars => CountInv'
<1> SUFFICES ASSUME CountInv, [Next]_vars
             PROVE  CountInv'
  OBVIOUS
<1>1. EInv /\ EInv'
  BY ENext DEF CountInv
<1>2. ASSUME Open
      PROVE  /\ strategy \in Strategies /\ run.endedBy = "none" /\ run \in RunRecord
             /\ Sampled(Payment) /\ Keeps(strategy, Payment, run)
  <2>1. strategy \in Strategies /\ run.endedBy = "none"
    BY <1>1, <1>2 DEF Open, EInv, Progress
  <2>2. Keeps(strategy, Payment, run)
    BY <1>1, <2>1 DEF EInv
  <2>3. QED
    BY <1>1, <2>1, <2>2, TurnIsSampled DEF Keeps, InWindow
<1>3. CASE GenerateDataset
  <2>1. /\ batch = <<>> /\ strategy' = "NAIVE" /\ run' = NewRun(batch'[1])
        /\ runs' = runs /\ report' = report
    BY <1>3 DEF GenerateDataset
  <2>2. run'.endedBy = "none" /\ ~run'.recovered
    BY <2>1 DEF NewRun, NoRun
  <2>3. report = <<>>
    BY <2>1 DEF CountInv
  <2>4. QED
    BY <1>1, <2>1, <2>2, <2>3 DEF CountInv
<1>4. CASE NaiveRetry
  <2>1. PICK l \in Latencies : Open /\ Advance(Retry(run, 0, l))
    BY <1>4 DEF NaiveRetry
  <2>2. PICK q : q = Retry(run, 0, l)
    OBVIOUS
  <2>3. QED
    BY <1>1, <1>2, <2>1, <2>2, RetriesCount, CountAdvances
<1>5. CASE NaiveStop \/ DeskHardStop \/ DeskHumanReview \/ DeskGivesUp
  <2>1. PICK reason \in {"HARD_STOP", "HUMAN_REVIEW", "EXHAUSTED"} : Open /\ Stop(reason)
    BY <1>5 DEF NaiveStop, DeskHardStop, DeskHumanReview, DeskGivesUp, DeskPass
  <2>2. QED
    BY <1>1, <2>1, StopsCount
<1>6. CASE DeskMessage
  <2>1. /\ Open /\ strategy = "RECOVERY_DESK" /\ run.passes < MaxPasses
        /\ DeskDecision.action = "MESSAGE"
    BY <1>6 DEF DeskMessage, DeskPass
  <2>2. run.messages < MaxMessagesPerDay
    BY <1>2, <2>1, DeskMessages
  <2>3. ~(run.messages >= 2)
    BY <1>2, <2>1, <2>2, ExperimentAssumption DEF RunRecord
  <2>4. PICK r : r = [run EXCEPT !.messages = @ + 1, !.clock = @ + MessageLatency]
    OBVIOUS
  <2>5. r \in RunRecord /\ r.endedBy = "none"
    <3>1. MessageLatency \in Nat
      BY ExperimentAssumption
    <3>2. run \in RunRecord /\ run.endedBy = "none"
      BY <1>2, <2>1
    <3>3. run.messages + 1 \in Nat /\ run.clock + MessageLatency \in Nat
      BY <3>1, <3>2 DEF RunRecord
    <3>4. QED
      BY ONLY <2>4, <3>2, <3>3 DEF RunRecord
  <2>6. PICK l \in Latencies : Advance(Retry(r, 60, l))
    BY <1>6, <2>3, <2>4 DEF DeskMessage
  <2>7. PICK q : q = Retry(r, 60, l)
    OBVIOUS
  <2>8. QED
    BY <1>1, <2>1, <2>5, <2>6, <2>7, RetriesCount, CountAdvances
<1>7. CASE DeskSwitchRail
  <2>1. PICK l \in Latencies : Advance(Retry([run EXCEPT !.rail = TRUE], DeskDecision.delay, l))
    BY <1>7 DEF DeskSwitchRail
  <2>2. Open
    BY <1>7 DEF DeskSwitchRail, DeskPass
  <2>3. PICK r : r = [run EXCEPT !.rail = TRUE]
    OBVIOUS
  <2>4. r \in RunRecord /\ r.endedBy = "none"
    BY <1>2, <2>2, <2>3 DEF RunRecord
  <2>5. PICK q : q = Retry(r, DeskDecision.delay, l)
    OBVIOUS
  <2>6. QED
    BY <1>1, <2>1, <2>2, <2>3, <2>4, <2>5, RetriesCount, CountAdvances
<1>8. CASE DeskRetry
  <2>1. PICK l \in Latencies : Advance(Retry(run, DeskDecision.delay, l))
    BY <1>8 DEF DeskRetry
  <2>2. Open
    BY <1>8 DEF DeskRetry, DeskPass
  <2>3. PICK q : q = Retry(run, DeskDecision.delay, l)
    OBVIOUS
  <2>4. QED
    BY <1>1, <1>2, <2>1, <2>2, <2>3, RetriesCount, CountAdvances
<1>9. CASE EndRun
  <2>1. PICK p, x : p = Payment /\ x = Outcome(run, p)
    OBVIOUS
  <2>2. /\ strategy \in Strategies /\ run.endedBy # "none" /\ batch' = batch
        /\ runs' = [runs EXCEPT ![strategy] = Append(@, x)]
        /\ \/ Turn < Len(batch) /\ strategy' = strategy /\ run' = NewRun(batch[Turn + 1])
           \/ /\ Turn = Len(batch) /\ strategy = "NAIVE" /\ strategy' = "RECOVERY_DESK"
              /\ run' = NewRun(batch[1])
           \/ Turn = Len(batch) /\ strategy = "RECOVERY_DESK" /\ strategy' = "none"
    BY <1>1, <1>9, <2>1, HandsOver
  <2>3. report' = report /\ report = <<>>
    BY <1>9, <2>2 DEF EndRun, CountInv, Strategies
  <2>4. InColumn(x)
    BY <2>1, <2>2 DEF CountInv, InColumn, Outcome
  <2>5. runs \in [Strategies -> Seq(Results)] /\ Len(runs[strategy]) \in Nat
    BY <1>1, <2>2, TurnIsSampled DEF EInv, Progress
  <2>6. x \in Results
    BY <1>1, <2>1, <2>2, TurnIsSampled, OutcomeCompares DEF EInv
  <2>7. ASSUME NEW s \in Strategies, NEW i \in 1..Len(runs'[s])
        PROVE  InColumn(runs'[s][i])
    <3>1. CASE s # strategy
      <4>1. runs'[s] = runs[s]
        BY <2>2, <2>5, <3>1
      <4>2. QED
        BY <2>7, <4>1 DEF CountInv
    <3>2. CASE s = strategy
      <4>1. runs'[s] = Append(runs[s], x) /\ runs[s] \in Seq(Results)
        BY <2>2, <2>5, <3>2
      <4>2. i = Len(runs[s]) + 1 \/ i \in 1..Len(runs[s])
        BY <2>6, <2>7, <4>1
      <4>3. CASE i = Len(runs[s]) + 1
        BY <2>4, <2>6, <4>1, <4>3
      <4>4. CASE i \in 1..Len(runs[s])
        <5>1. runs'[s][i] = runs[s][i]
          BY <2>6, <4>1, <4>4
        <5>2. QED
          BY <4>4, <5>1 DEF CountInv
      <4>5. QED
        BY <4>2, <4>3, <4>4
    <3>3. QED
      BY <3>1, <3>2
  <2>8. CASE strategy' # "none"
    <3>1. run'.endedBy = "none" /\ ~run'.recovered
      BY <2>2, <2>8 DEF NewRun, NoRun
    <3>2. QED
      BY <1>1, <2>3, <2>7, <2>8, <3>1 DEF CountInv
  <2>9. CASE strategy' = "none"
    <3>1. Turn = Len(batch) /\ strategy = "RECOVERY_DESK" /\ run' = NoRun
      BY <1>9, <2>2, <2>9 DEF EndRun, Strategies
    <3>2. run'.endedBy = "none" /\ ~run'.recovered
      BY <3>1 DEF NoRun
    <3>3. Len(runs["NAIVE"]) = Len(batch)
      BY <1>1, <3>1 DEF EInv, Progress
    <3>4. \A s \in Strategies : Len(runs'[s]) = Len(batch')
      <4>1. runs'["NAIVE"] = runs["NAIVE"]
        BY <2>2, <2>5, <3>1 DEF Strategies
      <4>2. Len(runs'["RECOVERY_DESK"]) = Len(runs["RECOVERY_DESK"]) + 1
        BY <2>2, <2>5, <2>6, <3>1
      <4>3. QED
        BY <2>2, <3>1, <3>3, <4>1, <4>2 DEF Strategies, Turn
    <3>5. QED
      BY <1>1, <2>3, <2>7, <3>2, <3>4 DEF CountInv
  <2>10. QED
    BY <2>8, <2>9
<1>10. ASSUME UNCHANGED <<batch, strategy, run, runs>>
       PROVE  Metrics' = Metrics
  BY <1>10 DEF Metrics, Breakdown
<1>11. CASE Report
  <2>1. batch # <<>> /\ strategy = "none" /\ report' = <<Metrics>>
    BY <1>11 DEF Report
  <2>2. UNCHANGED <<batch, strategy, run, runs>>
    BY <1>11 DEF Report
  <2>3. QED
    BY <1>1, <1>10, <2>1, <2>2 DEF CountInv
<1>12. CASE UNCHANGED vars
  <2>1. UNCHANGED <<batch, strategy, run, runs>> /\ report' = report
    BY <1>12 DEF vars
  <2>2. QED
    BY <1>1, <1>10, <2>1 DEF CountInv
<1>13. QED
  BY <1>3, <1>4, <1>5, <1>6, <1>7, <1>8, <1>9, <1>11, <1>12 DEF Next

\* Two disjoint sets are counted apart.
LEMMA DisjointUnion ==
  ASSUME NEW A, NEW B, IsFiniteSet(A), IsFiniteSet(B), A \cap B = {}
  PROVE  /\ IsFiniteSet(A \cup B)
         /\ Cardinality(A \cup B) = Cardinality(A) + Cardinality(B)
<1>1. /\ IsFiniteSet(A \cup B)
      /\ Cardinality(A \cup B) = Cardinality(A) + Cardinality(B) - Cardinality(A \cap B)
  BY FS_Union
<1>2. Cardinality(A \cap B) = 0
  BY FS_EmptySet
<1>3. Cardinality(A) \in Nat /\ Cardinality(B) \in Nat
  BY FS_CardinalityType
<1>4. QED
  BY <1>1, <1>2, <1>3

\* The four columns leave no result out and count none twice.
LEMMA ColumnsAdd ==
  ASSUME NEW results, results \in Seq(Results), \A i \in 1..Len(results) : InColumn(results[i])
  PROVE  Recovered(results) + Ended(results, "HARD_STOP") + Ended(results, "HUMAN_REVIEW")
             + Ended(results, "EXHAUSTED") = Len(results)
<1> DEFINE Of(e) == {i \in DOMAIN results : results[i].endedBy = e}
           A == Of("RECOVERED") \cup Of("HARD_STOP")
           B == Of("HUMAN_REVIEW") \cup Of("EXHAUSTED")
<1>1. Len(results) \in Nat /\ DOMAIN results = 1..Len(results)
  OBVIOUS
<1>2. IsFiniteSet(DOMAIN results) /\ Cardinality(DOMAIN results) = Len(results)
  BY <1>1, FS_Interval
<1>3. \A e : IsFiniteSet(Of(e)) /\ Cardinality(Of(e)) \in Nat
  <2>1. \A e : Of(e) \in SUBSET DOMAIN results
    OBVIOUS
  <2> HIDE DEF Of
  <2>2. QED
    BY <1>2, <2>1, FS_Subset, FS_CardinalityType
<1>4. \A e, d : e # d => Of(e) \cap Of(d) = {}
  OBVIOUS
<1>5. Recovered(results) = Cardinality(Of("RECOVERED"))
  <2>1. {i \in DOMAIN results : results[i].recovered} = Of("RECOVERED")
    BY <1>1 DEF InColumn
  <2>2. QED
    BY <2>1 DEF Recovered
<1>6. \A e : Ended(results, e) = Cardinality(Of(e))
  BY DEF Ended
<1>7. A \cup B = DOMAIN results
  BY <1>1 DEF InColumn
<1>8. A \cap B = {}
  OBVIOUS
<1> HIDE DEF Of
<1>9. IsFiniteSet(A) /\ Cardinality(A) = Cardinality(Of("RECOVERED")) + Cardinality(Of("HARD_STOP"))
  BY <1>3, <1>4, DisjointUnion
<1>10. IsFiniteSet(B) /\ Cardinality(B) = Cardinality(Of("HUMAN_REVIEW")) + Cardinality(Of("EXHAUSTED"))
  BY <1>3, <1>4, DisjointUnion
<1> HIDE DEF A, B
<1>11. Cardinality(A \cup B) = Cardinality(A) + Cardinality(B)
  BY <1>8, <1>9, <1>10, DisjointUnion
<1>12. QED
  BY <1>2, <1>3, <1>5, <1>6, <1>7, <1>9, <1>10, <1>11

\* Names for what Breakdown defines within itself.
CauseOf(i) == Diagnosed[batch[i].method][batch[i].truth.kind].cause
Causes == {CauseOf(i) : i \in 1..Len(batch)}
OfCause(c) == {i \in 1..Len(batch) : CauseOf(i) = c}
ResultsOf(c, results) ==
    [i \in 1..Len(results) |->
        IF CauseOf(i) = c THEN results[i]
        ELSE [results[i] EXCEPT !.recovered = FALSE, !.attempts = 0]]

\* The sum that EveryRunIsCounted takes over the rows.
SumOver(f) == FoldFunction(+, 0, f)

\* The rows of the breakdown, by these names.
LEMMA BreakdownIs ==
  Breakdown =
      [c \in Causes |->
          [failures |-> Cardinality(OfCause(c)),
           recoveries |-> [s \in Strategies |-> Recovered(ResultsOf(c, runs[s]))],
           attempts |-> [s \in Strategies |-> Total(ResultsOf(c, runs[s]), "attempts")]]]
  BY DEF Breakdown, CauseOf, Causes, OfCause, ResultsOf

\* Every payment has one cause, so the rows' sums make up the whole.
LEMMA CausesAdd ==
  ASSUME NEW n, n = Len(batch), n \in Nat, NEW f, f \in [1..n -> Nat], NEW g, Sums(g, f, 1..n),
         NEW v, v = [c \in Causes |-> g[OfCause(c)]]
  PROVE  SumOver(v) = g[1..n]
<1>1. IsFiniteSet(1..n)
  BY FS_Interval
<1>2. PICK cause : cause = [i \in 1..n |-> CauseOf(i)]
  OBVIOUS
<1>3. cause \in Surjection(1..n, Causes)
  BY <1>2 DEF Causes, Surjection
<1>4. \A c \in Causes : OfCause(c) = {i \in 1..n : cause[i] = c}
  BY <1>2 DEF OfCause
<1>5. Groups(v, g, cause, 1..n, Causes)
  BY <1>4 DEF Groups
<1>6. v \in [Causes -> Nat]
  <2>1. \A c \in Causes : g[OfCause(c)] \in Nat
    BY DEF Sums, OfCause
  <2>2. QED
    BY <2>1
<1>7. IsFiniteSet(Causes)
  BY <1>1, <1>3, FS_Surjection, Zenon
<1>8. PICK h : Sums(h, v, Causes)
  BY <1>6, <1>7, SumExists
<1>9. h[Causes] = g[1..n]
  BY <1>1, <1>3, <1>5, <1>8, SumGroups
<1>10. SumOver(v) = h[Causes]
  BY <1>6, <1>7, <1>8, FoldIs DEF SumOver
<1>11. QED
  BY <1>9, <1>10

\* The attempts by cause are the attempts.
LEMMA AttemptsAdd ==
  ASSUME NEW results, results \in Seq(Results), Len(results) = Len(batch), Len(batch) \in Nat
  PROVE  SumOver([c \in Causes |-> Total(ResultsOf(c, results), "attempts")])
             = Total(results, "attempts")
<1>1. PICK n \in Nat : n = Len(batch)
  OBVIOUS
<1>2. IsFiniteSet(1..n) /\ DOMAIN results = 1..n
  BY <1>1, FS_Interval
<1>3. \A i \in 1..n : results[i] \in Results /\ results[i]["attempts"] \in Nat
  <2>1. \A i \in 1..n : results[i] \in Results
    BY <1>1
  <2>2. \A r \in Results : r["attempts"] \in Nat
    BY DEF Results
  <2>3. QED
    BY <2>1, <2>2
<1>4. PICK f : Column(f, results, "attempts")
  BY DEF Column
<1>5. f \in [1..n -> Nat]
  BY <1>2, <1>3, <1>4 DEF Column
<1>6. PICK g : Sums(g, f, 1..n)
  BY <1>2, <1>5, SumExists
<1>7. Total(results, "attempts") = g[1..n]
  BY <1>2, <1>4, <1>5, <1>6, TotalIs
<1>8. ASSUME NEW c \in Causes
      PROVE  Total(ResultsOf(c, results), "attempts") = g[OfCause(c)]
  <2>1. PICK x : x = ResultsOf(c, results)
    OBVIOUS
  <2>2. PICK m : Masks(m, f, OfCause(c), 1..n)
    BY DEF Masks
  <2>3. OfCause(c) \subseteq 1..n
    BY <1>1 DEF OfCause
  <2>4. m \in [1..n -> Nat]
    BY <1>5, <2>2 DEF Masks
  <2>5. DOMAIN x = 1..n /\ \A i \in 1..n : x[i]["attempts"] = m[i]
    BY <1>1, <1>2, <1>3, <1>4, <2>1, <2>2 DEF ResultsOf, OfCause, Results, Column, Masks
  <2>6. Column(m, x, "attempts")
    BY <2>2, <2>5 DEF Masks, Column
  <2>7. PICK h : Sums(h, m, 1..n)
    BY <1>2, <2>4, SumExists
  <2>8. h[1..n] = g[OfCause(c)]
    BY <1>2, <1>5, <1>6, <2>2, <2>3, <2>7, SumMasks
  <2>9. Total(x, "attempts") = h[1..n]
    <3>1. DOMAIN x = 1..n
      BY <2>5
    <3>2. QED
      BY <1>1, <2>4, <2>6, <2>7, <3>1, TotalIs
  <2>10. QED
    BY <2>1, <2>8, <2>9
<1>9. PICK v : v = [c \in Causes |-> g[OfCause(c)]]
  OBVIOUS
<1>10. [c \in Causes |-> Total(ResultsOf(c, results), "attempts")] = v
  BY <1>8, <1>9
<1>11. SumOver(v) = g[1..n]
  BY <1>1, <1>5, <1>6, <1>9, CausesAdd
<1>12. QED
  BY <1>7, <1>10, <1>11

\* The recoveries by cause are the recoveries.
LEMMA RecoveriesAdd ==
  ASSUME NEW results, results \in Seq(Results), Len(results) = Len(batch), Len(batch) \in Nat
  PROVE  SumOver([c \in Causes |-> Recovered(ResultsOf(c, results))]) = Recovered(results)
<1> DEFINE n == Len(batch)
           S == 1..n
           f == [i \in S |-> IF results[i].recovered THEN 1 ELSE 0]
           In(T) == {i \in T : results[i].recovered}
           g == [T \in SUBSET S |-> Cardinality(In(T))]
<1>1. IsFiniteSet(S) /\ n \in Nat /\ DOMAIN results = S
  BY FS_Interval
<1>2. \A i \in S : results[i] \in Results
  OBVIOUS
<1>3. f \in [S -> Nat]
  OBVIOUS
<1>4. \A T \in SUBSET S : IsFiniteSet(In(T)) /\ Cardinality(In(T)) \in Nat
  <2>1. \A T \in SUBSET S : In(T) \in SUBSET S
    OBVIOUS
  <2> HIDE DEF In
  <2>2. QED
    BY <1>1, <2>1, FS_Subset, FS_CardinalityType
<1>5. Sums(g, f, S)
  <2>1. g \in [SUBSET S -> Nat]
    BY <1>4
  <2>2. g[{}] = 0
    <3>1. In({}) = {} /\ {} \in SUBSET S
      OBVIOUS
    <3>2. QED
      BY <3>1, FS_EmptySet
  <2>3. ASSUME NEW T \in SUBSET S, NEW i \in S, i \in T
        PROVE  g[T] = f[i] + g[T \ {i}]
    <3>1. T \ {i} \in SUBSET S /\ g[T] = Cardinality(In(T)) /\ g[T \ {i}] = Cardinality(In(T \ {i}))
      OBVIOUS
    <3>2. CASE results[i].recovered
      <4>1. In(T \ {i}) = In(T) \ {i} /\ i \in In(T)
        BY <2>3, <3>2
      <4>2. Cardinality(In(T) \ {i}) = Cardinality(In(T)) - 1
        BY <1>4, <4>1, FS_RemoveElement
      <4>3. f[i] = 1
        BY <3>2
      <4>4. Cardinality(In(T)) \in Nat
        BY <1>4
      <4>5. Cardinality(In(T \ {i})) = Cardinality(In(T)) - 1
        BY <4>1, <4>2
      <4> HIDE DEF In, f, g
      <4>6. QED
        BY <3>1, <4>3, <4>4, <4>5
    <3>3. CASE ~results[i].recovered
      <4>1. In(T \ {i}) = In(T)
        BY <3>3
      <4>2. f[i] = 0
        BY <3>3
      <4>3. Cardinality(In(T)) \in Nat
        BY <1>4
      <4> HIDE DEF In, f, g
      <4>4. QED
        BY <3>1, <4>1, <4>2, <4>3
    <3>4. QED
      BY <3>2, <3>3
  <2>4. QED
    BY <2>1, <2>2, <2>3 DEF Sums
<1>6. Recovered(results) = g[S]
  BY <1>1 DEF Recovered
<1>7. ASSUME NEW c \in Causes
      PROVE  Recovered(ResultsOf(c, results)) = g[OfCause(c)]
  <2>1. OfCause(c) \in SUBSET S
    BY DEF OfCause
  <2>2. PICK x : x = ResultsOf(c, results)
    OBVIOUS
  <2>3. DOMAIN x = S /\ {i \in S : x[i].recovered} = In(OfCause(c))
    BY <1>2, <2>2 DEF ResultsOf, OfCause, Results
  <2>4. QED
    BY <2>1, <2>2, <2>3 DEF Recovered
<1>8. PICK v : v = [c \in Causes |-> g[OfCause(c)]]
  OBVIOUS
<1>9. [c \in Causes |-> Recovered(ResultsOf(c, results))] = v
  BY <1>7, <1>8
<1>10. SumOver(v) = g[S]
  <2> HIDE DEF f, g
  <2>1. QED
    BY <1>1, <1>3, <1>5, <1>8, CausesAdd
<1>11. QED
  BY <1>6, <1>9, <1>10

-----------------------------------------------------------------------------
(* What the runs promise.                                                  *)

\* Whatever batch is generated and however long attempts take, the desk attempts nothing
\* that can never succeed, writes to nobody about it, and asks a customer who has to act,
\* or offers another rail, before the first attempt of its own (strategies.ts, runDesk).
THEOREM NothingFutileIsTried == Spec => []NoFutileAttempt
<1>1. ASSUME EInv
      PROVE  NoFutileAttempt
  <2>1. SUFFICES ASSUME strategy = "RECOVERY_DESK"
                 PROVE  /\ Payment.truth.kind \in Permanent => run.attempts = 1 /\ run.messages = 0
                        /\ (Payment.truth.kind \in NeedsNudge /\ run.attempts > 1)
                               => run.messages >= 1 \/ run.rail
    BY DEF NoFutileAttempt
  <2>2. DeskRun(Payment, run)
    BY <1>1, <2>1 DEF EInv, Keeps, Strategies
  <2>3. QED
    BY <2>2 DEF DeskRun
<1>2. QED
  BY <1>1, RunsKeep, PTL

\* Every run of either strategy stays within its budget of attempts and messages: the
\* naive one's is four attempts, the desk's the attempts of the cause or, where it writes
\* to the customer, the passes (strategies.ts, runNaive and runDesk).
THEOREM RunsKeepBudgets == Spec => []BudgetsHold
<1>1. ASSUME EInv
      PROVE  BudgetsHold
  <2>1. CASE strategy = "NAIVE"
    <3>1. NaiveRun(Payment, run) /\ run \in RunRecord
      BY <1>1, <2>1 DEF EInv, Keeps, Strategies, InWindow
    <3>2. run.attempts <= 4 /\ run.messages = 0
      BY <3>1 DEF NaiveRun, RunRecord
    <3>3. QED
      BY <2>1, <3>2 DEF BudgetsHold
  <2>2. CASE strategy = "RECOVERY_DESK"
    <3>1. strategy \in Strategies
      BY <2>2 DEF Strategies
    <3>2. PICK p : p = Payment
      OBVIOUS
    <3>3. Sampled(p) /\ Keeps("RECOVERY_DESK", p, run)
      BY <1>1, <2>2, <3>1, <3>2, TurnIsSampled DEF EInv
    <3>4. PICK cause : cause = Diagnosed[p.method][p.truth.kind].cause /\ cause = SeenAs[p.truth.kind]
      BY <3>3, KindSeen
    <3>5. /\ DeskRun(p, run) /\ run \in RunRecord /\ run.passes <= MaxPasses
      BY <3>3 DEF Keeps, InWindow
    <3>6. run.messages <= MaxMessagesPerDay /\ run.attempts <= MaxPasses + 1
      BY <3>5 DEF DeskRun, RunRecord, MaxPasses
    <3>7. p.truth.kind \notin NeedsNudge => run.attempts <= Most(1, CauseMaxAttempts(cause))
      BY <3>4, <3>5 DEF DeskRun
    <3>8. run.attempts <= IF p.truth.kind \in NeedsNudge THEN MaxPasses + 1
                          ELSE Most(1, CauseMaxAttempts(cause))
      BY <3>6, <3>7
    <3>9. QED
      BY <2>2, <3>2, <3>4, <3>6, <3>8 DEF BudgetsHold
  <2>3. CASE strategy \notin {"NAIVE", "RECOVERY_DESK"}
    BY <2>3 DEF BudgetsHold
  <2>4. QED
    BY <2>1, <2>2, <2>3
<1>2. QED
  BY <1>1, RunsKeep, PTL

\* No run lasts longer than the experiment's window and a minute, wherever the salary day
\* and the mornings fall and whatever its attempts take (simulator.ts, clampAdvance).
THEOREM RunsEndInWindow == Spec => []HorizonRespected
<1>1. ASSUME EInv
      PROVE  HorizonRespected
  <2>1. ASSUME NEW s \in Strategies, NEW i \in 1..Len(batch), i <= Len(runs[s])
        PROVE  runs[s][i].minutes <= Horizon + 1
    <3>1. runs[s] \in Seq(Results)
      BY <1>1 DEF EInv, Progress
    <3>2. i \in 1..Len(runs[s])
      BY <2>1, <3>1
    <3>3. Compares(s, batch[i], runs[s][i])
      BY <1>1, <3>2 DEF EInv
    <3>4. QED
      BY <3>3 DEF Compares
  <2>2. QED
    BY <2>1 DEF HorizonRespected
<1>2. QED
  BY <1>1, RunsKeep, PTL

\* For every batch, the desk recovers each payment that the naive strategy's immediate
\* retries recover: its first wait is a minute or more, theirs are over by then
\* (evaluation.ts, recoveredCount).
THEOREM PatienceWins == Spec => []DeskDominates
<1>1. ASSUME EInv
      PROVE  DeskDominates
  <2>1. ASSUME NEW i \in 1..Len(batch), i <= Len(runs["RECOVERY_DESK"]),
               runs["NAIVE"][i].recovered
        PROVE  runs["RECOVERY_DESK"][i].recovered
    <3>1. "NAIVE" \in Strategies /\ "RECOVERY_DESK" \in Strategies
      BY DEF Strategies
    <3>2. runs["RECOVERY_DESK"] \in Seq(Results)
      BY <1>1, <3>1 DEF EInv, Progress
    <3>3. i \in 1..Len(runs["RECOVERY_DESK"])
      BY <2>1, <3>2
    <3>4. Len(runs["NAIVE"]) = Len(batch)
      BY <1>1, <3>3 DEF EInv, Progress
    <3>5. Quick(batch[i])
      BY <1>1, <2>1, <3>1, <3>4 DEF EInv, Compares
    <3>6. QED
      BY <1>1, <3>1, <3>3, <3>5 DEF EInv, Compares
  <2>2. QED
    BY <2>1 DEF DeskDominates
<1>2. QED
  BY <1>1, RunsKeep, PTL

\* For every batch and every latency the published metrics leave no payment out: the four
\* columns of a strategy add up to the batch, and the recoveries and attempts by root cause
\* to its totals (metrics.ts, breakdown.ts).
THEOREM MetricsCountEveryRun == Spec => []EveryRunIsCounted
<1>1. ASSUME CountInv
      PROVE  EveryRunIsCounted
  <2>1. SUFFICES ASSUME report # <<>>
                 PROVE  EveryRunIsCounted
    BY DEF EveryRunIsCounted
  <2>2. batch # <<>> /\ strategy = "none" /\ report[1] = Metrics
    BY <1>1, <2>1 DEF CountInv
  <2>3. Len(batch) \in Nat /\ \A s \in Strategies : runs[s] \in Seq(Results)
    BY <1>1, <2>2, BatchesSampled DEF CountInv, EInv, Progress
  <2>4. \A s \in Strategies : Len(runs[s]) = Len(batch)
    BY <1>1, <2>2 DEF CountInv
  <2>5. ASSUME NEW s \in Strategies, NEW m, m = Aggregate(runs[s])
        PROVE  /\ m.recovered + m.hardStops + m.humanReviews + m.exhausted = Len(batch)
               /\ SumOver([c \in DOMAIN Breakdown |-> Breakdown[c].recoveries[s]]) = m.recovered
               /\ SumOver([c \in DOMAIN Breakdown |-> Breakdown[c].attempts[s]]) = m.attempts
    <3>1. /\ m.recovered = Recovered(runs[s]) /\ m.hardStops = Ended(runs[s], "HARD_STOP")
          /\ m.humanReviews = Ended(runs[s], "HUMAN_REVIEW")
          /\ m.exhausted = Ended(runs[s], "EXHAUSTED") /\ m.attempts = Total(runs[s], "attempts")
      BY <2>5 DEF Aggregate
    <3>2. \A i \in 1..Len(runs[s]) : InColumn(runs[s][i])
      BY <1>1 DEF CountInv
    <3>3. m.recovered + m.hardStops + m.humanReviews + m.exhausted = Len(batch)
      BY <2>3, <2>4, <3>1, <3>2, ColumnsAdd
    <3>4. DOMAIN Breakdown = Causes
      BY BreakdownIs
    <3>5. \A c \in Causes : /\ Breakdown[c].recoveries[s] = Recovered(ResultsOf(c, runs[s]))
                            /\ Breakdown[c].attempts[s] = Total(ResultsOf(c, runs[s]), "attempts")
      BY BreakdownIs
    <3>6. /\ [c \in DOMAIN Breakdown |-> Breakdown[c].recoveries[s]]
                = [c \in Causes |-> Recovered(ResultsOf(c, runs[s]))]
          /\ [c \in DOMAIN Breakdown |-> Breakdown[c].attempts[s]]
                = [c \in Causes |-> Total(ResultsOf(c, runs[s]), "attempts")]
      BY <3>4, <3>5
    <3>7. SumOver([c \in Causes |-> Recovered(ResultsOf(c, runs[s]))]) = Recovered(runs[s])
      BY <2>3, <2>4, RecoveriesAdd
    <3>8. SumOver([c \in Causes |-> Total(ResultsOf(c, runs[s]), "attempts")])
              = Total(runs[s], "attempts")
      BY <2>3, <2>4, AttemptsAdd
    <3>9. QED
      BY <3>1, <3>3, <3>6, <3>7, <3>8
  <2>6. /\ report[1].naive = Aggregate(runs["NAIVE"])
        /\ report[1].desk = Aggregate(runs["RECOVERY_DESK"])
        /\ report[1].breakdown = Breakdown
    BY <2>2 DEF Metrics
  <2>7. \A s \in Strategies :
            [NAIVE |-> report[1].naive, RECOVERY_DESK |-> report[1].desk][s] = Aggregate(runs[s])
    BY <2>6 DEF Strategies
  <2>8. QED
    BY <2>5, <2>6, <2>7 DEF EveryRunIsCounted, SumOver
<1>2. QED
  BY <1>1, CountInit, CountNext, PTL DEF Spec

=============================================================================
