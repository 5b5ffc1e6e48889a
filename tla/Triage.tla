------------------------------- MODULE Triage -------------------------------
(***************************************************************************)
(* From a reported failure to a decision: the classifier's diagnosis is    *)
(* what the policy engine decides on.                                      *)
(***************************************************************************)
EXTENDS Classifier, PolicyTiming

\* minClassificationConfidence, in percent.
MinConfidence == 50

\* What the policy engine is told of a failure: its cause, and whether it is sure.
Diagnose(failure) ==
    LET c == Classify(failure)
    IN  [cause |-> c.cause,
         confidence |-> IF c.confidence < MinConfidence THEN "low" ELSE "high"]

\* A context that nothing but the diagnosis, the method and the time restricts.
FreshContext(failure, now) ==
    LET d == Diagnose(failure)
    IN  [cause |-> d.cause, confidence |-> d.confidence, method |-> failure.method,
         status |-> "FAILED", attempts |-> 1, messages |-> 0, railSwitched |-> FALSE,
         mandateRevoked |-> FALSE, killSwitch |-> FALSE, breaker |-> "CLOSED",
         now |-> now, salaryDay |-> UnknownDay]

Contexts(moments) ==
    [cause : RootCause, confidence : Confidence, method : {"CARD", "UPI"},
     status : {"FAILED", "SUCCEEDED"}, attempts : 1..4, messages : 0..2,
     railSwitched : BOOLEAN, mandateRevoked : BOOLEAN, killSwitch : BOOLEAN,
     breaker : {"CLOSED", "HALF_OPEN", "OPEN"}, now : moments, salaryDay : {UnknownDay}]

-----------------------------------------------------------------------------
(* What is expected of every event, moment and context.                     *)

Structural == {"MANDATE_INVALID", "PAYMENT_METHOD_INVALID"}

\* Evidence of a structural cause stops the payment, whatever else e says.
StopsIfStructural(e) ==
    LET failure == Normalize(e)
    IN  Candidates(NormalizeInput(failure)) \cap Structural # {}
            => Decide(FreshContext(failure, 0)).action = "HARD_STOP"

\* A retry of day's customer, decided on at now, is due within the salary window
\* of some month or in the hour after it.
DueWithTheSalary(now, day) ==
    LET due == now + SalaryDelay(now, day) * Minute
    IN  \E m \in Month : due - SalaryInstant(m, day) \in 0..(SalaryWindow + Hour)

\* What guardrails may add to the playbook's permissions: a stop is automatic, and
\* guardrail 8 makes a message over the contact ceiling a WAIT.
Loosened(d) ==
    CASE d.blockedBy = "message_daily_limit_reached" -> {"scheduleRetry"}
      [] d.action = "HARD_STOP" -> {"autoExecute"}
      [] OTHER -> {}

Restricts(ctx) ==
    LET d == TimedDecision(ctx)
    IN  /\ d.permitted \subseteq Permissions(IntendedAction(ctx)) \cup Loosened(d)
        /\ "scheduleRetry" \in d.permitted =>
               d.attemptsRemaining > 0 \/ d.blockedBy = "message_daily_limit_reached"
        /\ d.nextEligible # NoDelay => d.nextEligible >= ctx.now

=============================================================================
