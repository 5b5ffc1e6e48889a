---------------------------- MODULE PolicyEngine ----------------------------
(***************************************************************************)
(* decide: the playbook of the classified cause proposes, the guardrails   *)
(* overlay restricts.  Pure, so operators only.  A context is a record of  *)
(*   cause, confidence, method, status, attempts, messages (sent in the    *)
(*   last 24h), railSwitched, mandateRevoked, killSwitch, breaker, now.    *)
(* Times are units since some midnight.  Of the delays only a message's is *)
(* kept here; PolicyTiming has the others.  Reasons, evidence and          *)
(* constraintsApplied are wording.                                         *)
(***************************************************************************)
EXTENDS Integers

CONSTANTS
    MaxAttempts,            \* constraints.maxAttempts
    MaxMessagesPerDay,
    QuietStart, QuietEnd,   \* quietHoursStart, quietHoursEnd
    Hour                    \* units in an hour

ASSUME PolicyAssumption ==
    /\ MaxAttempts \in Nat /\ MaxMessagesPerDay \in Nat
    /\ QuietStart \in 0..23 /\ QuietEnd \in 0..23
    /\ Hour \in Nat \ {0}

RootCause == {"CUSTOMER_FUNDS_LOW", "ISSUER_TEMPORARY_FAILURE", "GATEWAY_FAILURE",
              "CUSTOMER_ABANDONMENT", "CUSTOMER_AUTH_FAILURE", "PAYMENT_METHOD_INVALID",
              "MANDATE_INVALID", "UNKNOWN"}
\* "low": below minClassificationConfidence (0.5), which is also below the 0.6
\* under which an AI suggestion may be asked for; nothing gives a value between.
Confidence == {"low", "high"}
RetryingActions == {"RETRY", "WAIT", "SWITCH_RAIL"}
RecoveryAction == RetryingActions \cup {"MESSAGE", "HARD_STOP", "HUMAN_REVIEW"}

-----------------------------------------------------------------------------
(* Time of day.                                                            *)

Day == 24 * Hour

\* Mutant: the window is taken not to wrap around midnight.
WithinQuietHours_NoWrap(now) ==
    LET h == (now % Day) \div Hour IN h >= QuietStart /\ h < QuietEnd

WithinQuietHours(now) ==
    LET h == (now % Day) \div Hour
    IN  /\ QuietStart # QuietEnd
        /\ IF QuietStart < QuietEnd
           THEN h >= QuietStart /\ h < QuietEnd
           ELSE h >= QuietStart \/ h < QuietEnd

\* Mutant: the next morning is always today's.
NextQuietEnd_Today(now) == (now - (now % Day)) + QuietEnd * Hour

\* The next QuietEnd o'clock strictly after now.
NextQuietEnd(now) ==
    LET candidate == (now - (now % Day)) + QuietEnd * Hour
    IN  IF candidate <= now THEN candidate + Day ELSE candidate

-----------------------------------------------------------------------------
(* Playbooks.                                                              *)

CauseMaxAttempts(cause) ==
    CASE cause \in {"CUSTOMER_FUNDS_LOW", "ISSUER_TEMPORARY_FAILURE", "GATEWAY_FAILURE"} -> 3
      [] cause \in {"CUSTOMER_ABANDONMENT", "CUSTOMER_AUTH_FAILURE"} -> 2
      [] OTHER -> 0

IntendedAction(ctx) ==
    CASE ctx.cause \in {"CUSTOMER_FUNDS_LOW", "GATEWAY_FAILURE"} -> "WAIT"
      [] ctx.cause = "ISSUER_TEMPORARY_FAILURE" -> "RETRY"
      [] ctx.cause = "CUSTOMER_ABANDONMENT" ->
             IF ctx.method = "UPI" /\ ~ctx.railSwitched THEN "SWITCH_RAIL" ELSE "MESSAGE"
      [] ctx.cause = "CUSTOMER_AUTH_FAILURE" -> "MESSAGE"
      [] ctx.cause \in {"PAYMENT_METHOD_INVALID", "MANDATE_INVALID"} -> "HARD_STOP"
      [] OTHER -> "HUMAN_REVIEW"

-----------------------------------------------------------------------------
(* Guardrails, in the order the code applies them.                          *)

Least(m, n) == IF m <= n THEN m ELSE n

\* The guardrails that take a decision over, by the names blockedBy gives them.
Stops == {"kill_switch_engaged", "mandate_revoked", "payment_already_resolved"}
Guardrail == Stops \cup {"classification_low_confidence", "attempt_limit_reached",
                         "circuit_breaker_open", "message_daily_limit_reached", "quiet_hours"}

\* Guardrails 1 to 3: which permanent stop applies, whatever the playbook says.
StoppedBy(ctx) ==
    IF ctx.killSwitch THEN "kill_switch_engaged"
    ELSE IF ctx.mandateRevoked THEN "mandate_revoked"
    ELSE IF ctx.status \in {"SUCCEEDED", "HARD_STOPPED"} THEN "payment_already_resolved"
    ELSE "none"

\* Mutant: the ceiling is taken to count the retries, not the original charge.
Ceiling_RetriesOnly(ctx) == Least(CauseMaxAttempts(ctx.cause), MaxAttempts) + 1

Ceiling(ctx) == Least(CauseMaxAttempts(ctx.cause), MaxAttempts)

\* due: when the decision may be carried out (for a retry: any time from now).
Decision(action, ceiling, blockedBy, due) ==
    [action |-> action, maxAttempts |-> ceiling, blockedBy |-> blockedBy, due |-> due]

ApplyGuardrails(intended, ctx) ==
    LET Decided(action, blockedBy, due) == Decision(action, Ceiling(ctx), blockedBy, due)
    IN  IF StoppedBy(ctx) # "none" THEN Decision("HARD_STOP", 0, StoppedBy(ctx), ctx.now)
        ELSE IF intended = "HARD_STOP" THEN Decided("HARD_STOP", "none", ctx.now)
        ELSE IF intended # "HUMAN_REVIEW" /\ ctx.confidence = "low"
             THEN Decided("HUMAN_REVIEW", "classification_low_confidence", ctx.now)
        ELSE IF intended \in RetryingActions /\ ctx.attempts >= Ceiling(ctx)
             THEN Decided("HUMAN_REVIEW", "attempt_limit_reached", ctx.now)
        ELSE IF intended \in {"RETRY", "WAIT"} /\ ctx.breaker = "OPEN"
             THEN Decided("WAIT", "circuit_breaker_open", ctx.now)
        ELSE IF intended = "MESSAGE" /\ ctx.messages >= MaxMessagesPerDay
             THEN Decided("WAIT", "message_daily_limit_reached", NextQuietEnd(ctx.now))
        ELSE IF intended = "MESSAGE" /\ WithinQuietHours(ctx.now)
             THEN Decided("MESSAGE", "quiet_hours", NextQuietEnd(ctx.now))
        ELSE Decided(intended, "none", ctx.now)

Decide(ctx) == ApplyGuardrails(IntendedAction(ctx), ctx)

=============================================================================
