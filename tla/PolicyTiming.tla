---------------------------- MODULE PolicyTiming ----------------------------
(***************************************************************************)
(* When a decision may be carried out, and what it permits: the delays of  *)
(* the playbooks, the salary window of CUSTOMER_FUNDS_LOW, the cooldown    *)
(* behind an open circuit and the permission table.  A context has the     *)
(* fields of PolicyEngine's and salaryDay.  Times are units since midnight *)
(* on the first day of the Calendar, delays are in minutes.                *)
(***************************************************************************)
EXTENDS PolicyEngine, Sequences

CONSTANTS
    Calendar,               \* the days its months begin on, in order, and the day it ends
    UnknownDay              \* the salary day of a customer who gave none

ASSUME TimingAssumption ==
    /\ Calendar \in Seq(Nat) /\ Len(Calendar) > 2 /\ Calendar[1] = 0
    /\ \A m \in 1..(Len(Calendar) - 1) : Calendar[m + 1] - Calendar[m] \in 28..31
    /\ Hour % 60 = 0
    /\ UnknownDay \notin 0..31

\* DEFAULT_CONSTRAINTS, in minutes.
IssuerRetryDelay == 18
GatewayRecheck == 5
CircuitCooldown == 60
FundsLowFallbackDelay == 24 * 60
NoDelay == -1                       \* null

-----------------------------------------------------------------------------
(* Time.                                                                    *)

Minute == Hour \div 60
Most(m, n) == IF m >= n THEN m ELSE n

\* minutesUntil: whole minutes, rounded up, never negative.
MinutesUntil(a, b) == Most(0, (b - a + Minute - 1) \div Minute)

Month == 1..(Len(Calendar) - 1)
MonthStart(m) == Calendar[m] * Day
MonthOf(now) == CHOOSE m \in Month : MonthStart(m) <= now /\ now < MonthStart(m + 1)

\* clampSalaryDay, and 09:00 on that day of month m.
SalaryInstant(m, day) == MonthStart(m) + (Least(28, Most(1, day)) - 1) * Day + 9 * Hour

SalaryWindow == 2 * Day

\* Mutant: past the window, one waits for a month that is already over.
SalaryDelay_ThisMonth(now, day) ==
    LET this == SalaryInstant(MonthOf(now), day)
    IN  CASE day = UnknownDay -> FundsLowFallbackDelay
          [] day # UnknownDay /\ now \in this..(this + SalaryWindow - 1) -> 60
          [] OTHER -> MinutesUntil(now, this)

\* minutesUntilSalaryWindow.
SalaryDelay(now, day) ==
    LET this == SalaryInstant(MonthOf(now), day)
        next == SalaryInstant(MonthOf(now) + 1, day)
    IN  CASE day = UnknownDay -> FundsLowFallbackDelay
          [] day # UnknownDay /\ now < this -> MinutesUntil(now, this)
          [] day # UnknownDay /\ now >= this /\ now < this + SalaryWindow -> 60
          [] OTHER -> MinutesUntil(now, next)

-----------------------------------------------------------------------------
(* The decision with its delay and permissions.                             *)

IntendedDelay(ctx) ==
    CASE ctx.cause = "CUSTOMER_FUNDS_LOW" -> SalaryDelay(ctx.now, ctx.salaryDay)
      [] ctx.cause = "ISSUER_TEMPORARY_FAILURE" -> IssuerRetryDelay
      [] ctx.cause = "GATEWAY_FAILURE" ->
             IF ctx.breaker = "OPEN" THEN CircuitCooldown ELSE GatewayRecheck
      [] ctx.cause \in {"CUSTOMER_ABANDONMENT", "CUSTOMER_AUTH_FAILURE"} -> 0
      [] OTHER -> NoDelay

\* basePermissions.
Permissions(action) ==
    CASE action = "RETRY" -> {"retry", "scheduleRetry", "autoExecute"}
      [] action = "WAIT" -> {"scheduleRetry", "autoExecute"}
      [] action = "SWITCH_RAIL" ->
             {"scheduleRetry", "switchRail", "messageCustomer", "autoExecute"}
      [] action = "MESSAGE" -> {"messageCustomer", "autoExecute"}
      [] action = "HARD_STOP" -> {"autoExecute"}
      [] OTHER -> {}

AttemptsRemaining(ctx, d) ==
    IF d.action = "HARD_STOP" THEN 0 ELSE Most(0, d.maxAttempts - ctx.attempts)

\* What guardrail decided d, and the time it gives.
Delay(ctx, d) ==
    CASE d.action \in {"HARD_STOP", "HUMAN_REVIEW"} -> NoDelay
      [] d.blockedBy = "circuit_breaker_open" -> Most(IntendedDelay(ctx), CircuitCooldown)
      [] d.blockedBy \in {"message_daily_limit_reached", "quiet_hours"} ->
             MinutesUntil(ctx.now, d.due)
      [] OTHER -> IntendedDelay(ctx)

\* A message is due at the time the guardrails give, a retry after its delay.
NextEligible(ctx, d) ==
    CASE d.action \in {"HARD_STOP", "HUMAN_REVIEW"} -> NoDelay
      [] d.action = "MESSAGE" \/ d.blockedBy = "message_daily_limit_reached" -> d.due
      [] OTHER -> ctx.now + Delay(ctx, d) * Minute

\* Whether the customer has to be written to, now or later.
RequiresMessage(ctx, d) ==
    /\ StoppedBy(ctx) = "none"
    /\ ctx.cause \in {"CUSTOMER_ABANDONMENT", "CUSTOMER_AUTH_FAILURE"}

TimedDecision(ctx) ==
    LET d == Decide(ctx)
    IN  [action |-> d.action, blockedBy |-> d.blockedBy, maxAttempts |-> d.maxAttempts,
         attemptsRemaining |-> AttemptsRemaining(ctx, d),
         delay |-> Delay(ctx, d), nextEligible |-> NextEligible(ctx, d),
         permitted |-> Permissions(d.action),
         requiresMessage |-> RequiresMessage(ctx, d)]

=============================================================================
