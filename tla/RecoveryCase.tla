--------------------------- MODULE RecoveryCase ---------------------------
(***************************************************************************)
(* The life of one payment over the real decisions: failures are ingested, *)
(* classified, perhaps suggested on by the AI and resolved by a human,     *)
(* decided on by the policy engine, enqueued and executed.  The handlers   *)
(* that read, await and then write (ingestion, classification, decision)   *)
(* are two steps each, so requests about different failures interleave.    *)
(* One execution is one step here; its own interleavings, crashes and      *)
(* retries are the subject of RecoveryExecution.  The gateway's 5xx and    *)
(* the breaker's refusals leave the row SCHEDULED as it was: no step.      *)
(***************************************************************************)
EXTENDS PolicyEngine, FiniteSets

CONSTANTS
    Failure,        \* failure events reported about the payment
    Method,         \* the payment's method
    Causes,         \* causes the rules find
    Suggestable,    \* causes an AI suggestion may name
    HumanCauses,    \* causes a reviewer may settle on
    Instants,       \* the times at which anything happens
    Immediate,      \* values POST /enqueue gets for its immediate option
    NoCause

ASSUME CaseAssumption ==
    /\ IsFiniteSet(Failure) /\ IsFiniteSet(Instants)
    /\ Causes \subseteq RootCause
    /\ Suggestable \subseteq RootCause /\ HumanCauses \subseteq RootCause
    /\ Instants \subseteq Nat
    /\ Immediate \subseteq BOOLEAN
    /\ NoCause \notin RootCause

Terminal == {"SUCCEEDED", "HARD_STOPPED", "EXHAUSTED"}   \* TERMINAL_STATUSES
PaymentStatus == Terminal \cup {"PENDING", "FAILED", "RECOVERING"}
RecoveryStatus == {"NONE", "FAILED", "CLASSIFIED", "SCHEDULED", "RETRYING",
                   "RECOVERED", "HARD_STOPPED", "EXHAUSTED", "HUMAN_REVIEW"}
Schedulable == RetryingActions \cup {"MESSAGE"}
Source == {"RULE", "HUMAN"}     \* the decision-eligible ones
\* A RecoveryAction row: at most one per decision-eligible classification.
Row == Failure \X Source

Undiagnosed == [cause |-> NoCause, confidence |-> "low"]
NoDecision == Decision("NONE", 0, "none", 0)
Idle == [doing |-> "nothing", saw |-> "NONE", decision |-> NoDecision]

VARIABLES
    clock,
    payment,        \* the Payment row
    stored,         \* the PaymentFailure rows
    class,          \* Row -> the classification of that source
    suggestion,     \* Failure -> the cause of its LLM_SUGGESTION
    request,        \* Failure -> the request about it that has read but not written
    row             \* Row -> the RecoveryAction row with its job and outcome

vars == <<clock, payment, stored, class, suggestion, request, row>>

NoRow == [action |-> "NONE", status |-> "NONE", maxAttempts |-> 0, due |-> 0,
          ready |-> 0, job |-> FALSE, executedAt |-> 0]

Init ==
    /\ clock \in Instants
    /\ payment = [status |-> "PENDING", recovery |-> "NONE", attempts |-> 0]
    /\ stored = {}
    /\ class = [r \in Row |-> Undiagnosed]
    /\ suggestion = [f \in Failure |-> NoCause]
    /\ request = [f \in Failure |-> Idle]
    /\ row = [r \in Row |-> NoRow]

-----------------------------------------------------------------------------
(* Ingestion.                                                               *)

Begin(f, doing, saw, decision) ==
    request' = [request EXCEPT ![f] =
                  [doing |-> doing, saw |-> saw, decision |-> decision]]

\* Payment lookup and the idempotency check of a new event.
LookUpPayment(f) ==
    /\ request[f] = Idle /\ f \notin stored
    /\ Begin(f, "ingest", payment.status, NoDecision)
    /\ UNCHANGED <<clock, payment, stored, class, suggestion, row>>

\* The transaction; it goes by the status the lookup saw.
PersistFailure(f) ==
    /\ request[f].doing = "ingest"
    /\ stored' = stored \cup {f}
    /\ payment' = IF request[f].saw \in Terminal THEN payment
                  ELSE [status |-> "FAILED", recovery |-> "FAILED",
                        attempts |-> payment.attempts + 1]
    /\ request' = [request EXCEPT ![f] = Idle]
    /\ UNCHANGED <<clock, class, suggestion, row>>

-----------------------------------------------------------------------------
(* Classification, AI suggestion, human review.                             *)

\* A rule that matches is sure (0.72 and above); UNKNOWN is reported at 0.2.
Diagnosis(c) == [cause |-> c, confidence |-> IF c = "UNKNOWN" THEN "low" ELSE "high"]

LoadFailure(f) ==
    /\ request[f] = Idle /\ f \in stored
    /\ class[<<f, "RULE">>] = Undiagnosed
    /\ Begin(f, "classify", payment.recovery, NoDecision)
    /\ UNCHANGED <<clock, payment, stored, class, suggestion, row>>

PersistClassification(f) ==
    /\ request[f].doing = "classify"
    /\ \E c \in Causes : class' = [class EXCEPT ![<<f, "RULE">>] = Diagnosis(c)]
    /\ payment' = IF request[f].saw = "FAILED"
                  THEN [payment EXCEPT !.recovery = "CLASSIFIED"] ELSE payment
    /\ request' = [request EXCEPT ![f] = Idle]
    /\ UNCHANGED <<clock, stored, suggestion, row>>

\* latestDecisionEligibleForFailure: a human's word is always the later one.
LatestSource(f) == IF class[<<f, "HUMAN">>] # Undiagnosed THEN "HUMAN" ELSE "RULE"
Latest(f) == class[<<f, LatestSource(f)>>]

\* The model answers late: the diagnosis that made f eligible may be superseded.
Suggest(f) ==
    /\ \E s \in Source :
          /\ class[<<f, s>>] # Undiagnosed
          /\ class[<<f, s>>].cause = "UNKNOWN" \/ class[<<f, s>>].confidence = "low"
    /\ suggestion[f] = NoCause
    /\ \E c \in Suggestable : suggestion' = [suggestion EXCEPT ![f] = c]
    /\ UNCHANGED <<clock, payment, stored, class, request, row>>

Resolve(f) ==
    /\ class[<<f, "RULE">>] # Undiagnosed
    /\ class[<<f, "HUMAN">>] = Undiagnosed
    /\ \E c \in HumanCauses :
           class' = [class EXCEPT ![<<f, "HUMAN">>] = [cause |-> c, confidence |-> "high"]]
    /\ UNCHANGED <<clock, payment, stored, suggestion, request, row>>

-----------------------------------------------------------------------------
(* POST /decide.                                                            *)

Executed(action) == {r \in Row : row[r].status = "EXECUTED" /\ row[r].action = action}

\* mandateHits counts the classifications of every source.
MandateHit ==
    \/ \E r \in Row : class[r].cause = "MANDATE_INVALID"
    \/ \E f \in Failure : suggestion[f] = "MANDATE_INVALID"

\* toPolicyInput hands over no constraint but the time.
DecisionContext(f) ==
    [cause |-> Latest(f).cause, confidence |-> Latest(f).confidence, method |-> Method,
     status |-> payment.status, attempts |-> payment.attempts,
     messages |-> Cardinality({r \in Executed("MESSAGE") :
                                  row[r].executedAt >= clock - Day}),
     railSwitched |-> Executed("SWITCH_RAIL") # {},
     mandateRevoked |-> MandateHit,
     killSwitch |-> FALSE, breaker |-> "CLOSED", now |-> clock]

LoadDecision(f) ==
    /\ request[f] = Idle
    /\ Latest(f) # Undiagnosed
    /\ row[<<f, LatestSource(f)>>] = NoRow
    /\ Begin(f, "decide", LatestSource(f), Decide(DecisionContext(f)))
    /\ UNCHANGED <<clock, payment, stored, class, suggestion, row>>

InitialStatus(action) ==
    CASE action = "HARD_STOP" -> "CANCELLED"
      [] action = "HUMAN_REVIEW" -> "BLOCKED"
      [] OTHER -> "PENDING"

PersistDecision(f) ==
    LET mine == <<f, request[f].saw>>
        d == request[f].decision
        new == [NoRow EXCEPT !.action = d.action, !.status = InitialStatus(d.action),
                             !.maxAttempts = d.maxAttempts, !.due = d.due]
        Cancelled(r) == d.action = "HARD_STOP" /\ row[r].status \in {"PENDING", "SCHEDULED"}
    IN  /\ request[f].doing = "decide"
        /\ row' = [r \in Row |->
                     IF r = mine THEN new
                     ELSE IF Cancelled(r) THEN [row[r] EXCEPT !.status = "CANCELLED"]
                     ELSE row[r]]
        /\ payment' =
              CASE d.action = "HARD_STOP" ->
                     [payment EXCEPT !.status = "HARD_STOPPED", !.recovery = "HARD_STOPPED"]
                [] d.action = "HUMAN_REVIEW" -> [payment EXCEPT !.recovery = "HUMAN_REVIEW"]
                [] OTHER -> payment
        /\ request' = [request EXCEPT ![f] = Idle]
        /\ UNCHANGED <<clock, stored, class, suggestion>>

\* The process dies, or the transaction fails: nothing was written.
RequestDies(f) ==
    /\ request[f] # Idle
    /\ request' = [request EXCEPT ![f] = Idle]
    /\ UNCHANGED <<clock, payment, stored, class, suggestion, row>>

-----------------------------------------------------------------------------
(* Enqueueing and executing.                                                *)

Enqueue(r) ==
    /\ row[r].status = "PENDING"
    /\ \E immediate \in Immediate :
           row' = [row EXCEPT ![r].status = "SCHEDULED", ![r].job = TRUE,
                              ![r].ready = IF immediate \/ row[r].due < clock
                                           THEN clock ELSE row[r].due]
    /\ payment' = [payment EXCEPT !.recovery = "SCHEDULED"]
    /\ UNCHANGED <<clock, stored, class, suggestion, request>>

\* Mutant: the ceiling is checked against the attempts beyond it.
SafetyBlock_OffByOne(r) ==
    IF row[r].status \in {"CANCELLED", "BLOCKED"} THEN "action"
    ELSE IF payment.status \in {"SUCCEEDED", "HARD_STOPPED"} THEN "payment"
    ELSE IF payment.attempts > row[r].maxAttempts THEN "limit"
    ELSE "none"

SafetyBlock(r) ==
    IF row[r].status \in {"CANCELLED", "BLOCKED"} THEN "action"
    ELSE IF payment.status \in {"SUCCEEDED", "HARD_STOPPED"} THEN "payment"
    ELSE IF payment.attempts >= row[r].maxAttempts THEN "limit"
    ELSE "none"

Due(r) == row[r].job /\ clock >= row[r].ready

\* The job ends with the row in status s.
Finish(r, s) ==
    /\ row' = [row EXCEPT ![r].job = FALSE, ![r].status = s,
                          ![r].executedAt = IF s = "EXECUTED" THEN clock ELSE @]
    /\ UNCHANGED <<clock, stored, class, suggestion, request>>

ExecuteBlocked(r) ==
    /\ Due(r)
    /\ \/ SafetyBlock(r) = "action" /\ Finish(r, row[r].status) /\ UNCHANGED payment
       \/ SafetyBlock(r) = "payment" /\ Finish(r, "CANCELLED") /\ UNCHANGED payment
       \/ /\ SafetyBlock(r) = "limit" /\ Finish(r, "BLOCKED")
          /\ payment' = [payment EXCEPT !.status = "EXHAUSTED", !.recovery = "EXHAUSTED"]

Pass(r) == Due(r) /\ SafetyBlock(r) = "none"

\* Mutant: a message consumes an attempt, as a charge does.
ExecuteMessage_Consumes(r) ==
    /\ Pass(r) /\ row[r].action = "MESSAGE"
    /\ Finish(r, "EXECUTED")
    /\ payment' = [payment EXCEPT !.attempts = @ + 1]

ExecuteMessage(r) ==
    /\ Pass(r) /\ row[r].action = "MESSAGE"
    /\ Finish(r, "EXECUTED")
    /\ UNCHANGED payment

\* What a charge with this result makes of the payment.
Charged(r, captured) ==
    LET attempts == payment.attempts + 1
    IN  CASE captured ->
               [status |-> "SUCCEEDED", recovery |-> "RECOVERED", attempts |-> attempts]
          [] ~captured /\ attempts >= row[r].maxAttempts ->
               [status |-> "EXHAUSTED", recovery |-> "EXHAUSTED", attempts |-> attempts]
          [] OTHER ->
               [status |-> "RECOVERING", recovery |-> "RETRYING", attempts |-> attempts]

ExecuteCharge(r) ==
    /\ Pass(r) /\ row[r].action # "MESSAGE"
    /\ Finish(r, "EXECUTED")
    /\ \E captured \in BOOLEAN : payment' = Charged(r, captured)

TimePasses ==
    /\ \E t \in Instants : t > clock /\ clock' = t
    /\ UNCHANGED <<payment, stored, class, suggestion, request, row>>

-----------------------------------------------------------------------------
Handle(f) ==
    \/ LookUpPayment(f) \/ PersistFailure(f)
    \/ LoadFailure(f) \/ PersistClassification(f)
    \/ Suggest(f) \/ Resolve(f)
    \/ LoadDecision(f) \/ PersistDecision(f)
    \/ RequestDies(f)

Process(r) == Enqueue(r) \/ ExecuteBlocked(r) \/ ExecuteMessage(r) \/ ExecuteCharge(r)

Next ==
    \/ \E f \in Failure : Handle(f)
    \/ \E r \in Row : Process(r)
    \/ TimePasses

Spec == Init /\ [][Next]_vars

-----------------------------------------------------------------------------
(* Properties.                                                              *)

Requests ==
    [doing : {"nothing", "ingest", "classify", "decide"},
     saw : PaymentStatus \cup RecoveryStatus \cup Source,
     decision : [action : RecoveryAction \cup {"NONE"}, maxAttempts : Nat,
                 blockedBy : Guardrail \cup {"none"}, due : Nat]]

\* The types of the rows, and what a row may be at all: only schedulable
\* actions leave PENDING, and a job is only there for an enqueued row.
TypeOK ==
    /\ clock \in Instants
    /\ payment \in [status : PaymentStatus, recovery : RecoveryStatus, attempts : Nat]
    /\ stored \subseteq Failure
    /\ class \in [Row -> [cause : RootCause \cup {NoCause}, confidence : Confidence]]
    /\ suggestion \in [Failure -> RootCause \cup {NoCause}]
    /\ request \in [Failure -> Requests]
    /\ \A r \in Row :
          /\ row[r].status \in {"PENDING", "SCHEDULED", "EXECUTED"} => row[r].action \in Schedulable
          /\ row[r].job => row[r].status \in {"SCHEDULED", "CANCELLED"}

Charges == {r \in Row : row[r].status = "EXECUTED" /\ row[r].action # "MESSAGE"}

\* Whatever is reported, reclassified, decided and reopened, in whatever order,
\* the payment is charged fewer than MaxAttempts times: the failed original
\* charge counts as the first attempt, and no path forgets an attempt
\* (RECOVERY_LIMITS, CAUSE_MAX_ATTEMPTS, safetyBlock).  And the customer gets at most
\* MaxMessagesPerDay messages in 24 hours, although decisions only count the
\* messages sent, never the ones still queued.
BudgetsHold ==
    /\ Charges # {} => Cardinality(Charges) < MaxAttempts
    /\ \A r \in Executed("MESSAGE") :
          Cardinality({m \in Executed("MESSAGE") :
                          row[m].executedAt \in (row[r].executedAt - Day)..row[r].executedAt})
              <= MaxMessagesPerDay

\* attemptCount is made of charges and reported failures and of nothing else:
\* messages, reviews and blocked jobs leave it alone.
AttemptsExplained ==
    /\ Cardinality(Charges) <= payment.attempts
    /\ payment.attempts <= Cardinality(stored) + Cardinality(Charges)

\* The hours from QuietEnd up to QuietStart, round the clock.
InCivilHours(t) ==
    LET civil == {(QuietEnd + k) % 24 : k \in 0..(((QuietStart - QuietEnd) % 24) - 1)}
    IN  QuietStart = QuietEnd \/ ((t % Day) \div Hour) \in civil

\* A message waiting to be sent was approved for an hour outside quiet hours
\* (guardrails 9 and 10, nextHourBoundary).
NightsAreSilent ==
    \A r \in Row : row[r].action = "MESSAGE" => InCivilHours(row[r].due)

\* A charge is made only where the playbook of the diagnosed cause intends a
\* retry.  Guardrail 8 turns a MESSAGE over the contact ceiling into a WAIT, which
\* the executor would run as a charge; what keeps such a row from charging is that
\* by then the payment has used up the two attempts of every messaging cause.
OnlyRetriesCharge ==
    \A r \in Charges :
        \E switched \in BOOLEAN :
            IntendedAction([cause |-> class[r].cause, method |-> Method,
                            railSwitched |-> switched]) \in RetryingActions

-----------------------------------------------------------------------------
(* What the repository says of the program and the code does not do.        *)

\* An AI suggestion never causes a recovery decision by itself: a payment whose
\* failures nobody but the AI blames on the mandate is not stopped for it.
SuggestionHasNoAuthority ==
    [][ \A r \in Row :
          (row[r] = NoRow /\ row'[r] # NoRow /\ request[r[1]].decision.blockedBy = "mandate_revoked")
              => \E s \in Row : class[s].cause = "MANDATE_INVALID" ]_vars

=============================================================================
