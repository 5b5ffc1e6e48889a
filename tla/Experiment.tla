----------------------------- MODULE Experiment -----------------------------
(***************************************************************************)
(* The comparison of two strategies on a frozen batch of failed payments.  *)
(* Each payment has a hidden truth that decides whether an attempt         *)
(* succeeds; a strategy sees the failure's public descriptor only.  The    *)
(* naive strategy runs over the whole batch first, then recoveryDesk,      *)
(* each payment with a clock of its own.  Amounts are left out: a          *)
(* recovered payment counts.  The clock counts seconds.                    *)
(***************************************************************************)
EXTENDS Triage

CONSTANTS
    Events,         \* provider events, as Normalization takes them
    Moments,        \* times at which a decision is asked for
    Hours,          \* those of them the guardrails are tried at
    SalaryDays,     \* salary days on file
    Batch,          \* for each payment, the records [method, day, origin] it may be
    Latencies,      \* seconds an attempt takes, the gap after it included
    MessageLatency  \* seconds sending a message takes

Strategies == {"NAIVE", "RECOVERY_DESK"}
Permanent == {"INVALID_METHOD", "MANDATE_REVOKED", "UNKNOWN"}
NeedsNudge == {"AUTH_FAILURE", "ABANDONMENT"}
Never == -1
Horizon == 21 * 24 * 60             \* HORIZON_MINUTES
MaxPasses == 8

VARIABLES
    batch,          \* the payments, each with its truth
    strategy,       \* the one that runs, or "none"
    run,            \* the run of the payment that is its turn
    runs,           \* strategy -> the results of the payments done
    report          \* the metrics of both

vars == <<batch, strategy, run, runs, report>>

-----------------------------------------------------------------------------
(* The dataset.                                                             *)

\* SCENARIO_WEIGHTS: what may be wrong with a payment of each method.
Kinds ==
    LET always == {"ISSUER_TEMPORARY", "GATEWAY_5XX", "FUNDS_LOW", "UNKNOWN"}
    IN  [CARD |-> always \cup {"AUTH_FAILURE", "ABANDONMENT", "INVALID_METHOD"},
         UPI |-> always \cup {"ABANDONMENT", "AUTH_FAILURE"},
         NETBANKING |-> always \cup {"AUTH_FAILURE"},
         MANDATE |-> always \cup {"MANDATE_REVOKED"},
         WALLET |-> always \cup {"ABANDONMENT"}]

Profile == [method : DOMAIN Kinds, day : 1..28, origin : Nat]

\* The Calendar holds every run and the month after every moment asked about; the
\* attempts of a run and their messages, of 3.6 s and 1.1 s at most, take less than a
\* minute (env.ts 11, simulator.ts 35); the policy has its default limits.
ASSUME ExperimentAssumption ==
    /\ Batch \in Seq(SUBSET Profile) /\ Batch # <<>>
    /\ \A i \in DOMAIN Batch : \A p \in Batch[i] :
           p.origin + 22 * Day <= MonthStart(Len(Calendar))
    /\ Latencies \subseteq Nat /\ MessageLatency \in Nat
    /\ \A l \in Latencies : MaxPasses * (l + MessageLatency) < Minute
    /\ Hours \subseteq Nat /\ Moments \subseteq Nat
    /\ \A t \in Moments : t < MonthStart(Len(Calendar) - 1)
    /\ SalaryDays \subseteq Nat /\ UnknownDay \notin SalaryDays
    /\ MaxAttempts >= 2 /\ MaxMessagesPerDay \in 1..2

\* The end of an outage, sampled at the ends of its two ranges and about the
\* delay the policy gives its cause.
OutageSeconds ==
    [ISSUER_TEMPORARY |-> {1, 7, 6 * 60, 18 * 60, 18 * 60 + 1, 45 * 60},
     GATEWAY_5XX |-> {1, 7, 3 * 60, 5 * 60, 5 * 60 + 1, 25 * 60}]

\* The salary that comes in next, give or take the jitter.
Credit(origin, day) ==
    LET m == MonthOf(origin)
    IN  IF SalaryInstant(m, day) <= origin THEN SalaryInstant(m + 1, day)
        ELSE SalaryInstant(m, day)

Resolutions(kind, origin, day) ==
    CASE kind \in {"ISSUER_TEMPORARY", "GATEWAY_5XX"} -> {origin + s : s \in OutageSeconds[kind]}
      [] kind = "FUNDS_LOW" -> {origin + 1, origin + 6}
                               \cup {Credit(origin, day) + h * Hour : h \in {-6, 0, 18}}
      [] OTHER -> {Never}

\* buildTruth.
Truths(kind, origin, day) ==
    [kind : {kind}, resolvesAt : Resolutions(kind, origin, day),
     cooperates : IF kind \in NeedsNudge THEN BOOLEAN ELSE {FALSE}]

\* What the desk sees of each kind of failure.
Descriptor(kind, method) ==
    LET Seen(code, reason, source, step, description) ==
            [method |-> method, code |-> Text(code, "_"), reason |-> Text(reason, "_"),
             source |-> source, step |-> step, description |-> Text(description, " ")]
        gateway == <<"gateway", "error">>
        request == <<"bad", "request", "error">>
    IN  CASE kind = "ISSUER_TEMPORARY" ->
               Seen(gateway, <<"issuer", "timeout">>, "BANK", "AUTHORIZATION",
                    <<"issuer", "did", "not", "respond", "within", "the", "authorization", "window">>)
          [] kind = "GATEWAY_5XX" ->
               Seen(gateway, <<"gateway", "5xx">>, "GATEWAY", "AUTHORIZATION",
                    <<"payment", "gateway", "returned", "http", "503", "service", "unavailable">>)
          [] kind = "FUNDS_LOW" ->
               Seen(request, <<"insufficient", "funds">>, "CUSTOMER", "AUTHORIZATION",
                    <<"insufficient", "balance", "in", "the", "customer", "account">>)
          [] kind = "AUTH_FAILURE" ->
               Seen(request, <<"authentication", "failed">>, "CUSTOMER", "AUTHENTICATION",
                    <<"customer", "failed", "3-d", "secure", "authentication", "(incorrect", "otp)">>)
          [] kind = "ABANDONMENT" /\ method = "UPI" ->
               Seen(request, <<"upi", "collect", "timeout">>, "CUSTOMER", "AUTHENTICATION",
                    <<"customer", "did", "not", "approve", "the", "upi", "collect", "request;",
                      "it", "expired">>)
          [] kind = "ABANDONMENT" /\ method # "UPI" ->
               Seen(request, <<"3ds", "abandoned">>, "CUSTOMER", "AUTHENTICATION",
                    <<"customer", "did", "not", "complete", "the", "3-d", "secure",
                      "authentication", "page">>)
          [] kind = "INVALID_METHOD" ->
               Seen(request, <<"expired", "card">>, "BANK", "AUTHORIZATION",
                    <<"the", "card", "has", "expired">>)
          [] kind = "MANDATE_REVOKED" ->
               Seen(request, <<"mandate", "revoked">>, "BUSINESS", "AUTHORIZATION",
                    <<"the", "e-mandate", "for", "this", "subscription", "has", "been", "revoked">>)
          [] OTHER ->
               Seen(gateway, <<"authorization", "response", "mismatch">>, "GATEWAY",
                    "AUTHORIZATION", <<"authorization", "response", "could", "not", "be",
                                       "reconciled", "with", "the", "request">>)

\* The diagnosis of each descriptor, which is all a pass depends on.
Diagnosed ==
    [method \in DOMAIN Kinds |->
        [kind \in Kinds[method] |-> Diagnose(Descriptor(kind, method))]]

\* What the classifier is to take each kind for.
SeenAs ==
    [ISSUER_TEMPORARY |-> "ISSUER_TEMPORARY_FAILURE", GATEWAY_5XX |-> "GATEWAY_FAILURE",
     FUNDS_LOW |-> "CUSTOMER_FUNDS_LOW", AUTH_FAILURE |-> "CUSTOMER_AUTH_FAILURE",
     ABANDONMENT |-> "CUSTOMER_ABANDONMENT", INVALID_METHOD |-> "PAYMENT_METHOD_INVALID",
     MANDATE_REVOKED |-> "MANDATE_INVALID", UNKNOWN |-> "UNKNOWN"]

\* It does, and is sure of all but the unknown: a matter of the descriptors' texts, which
\* hold no constant, so evaluating it settles it.
ASSUME DescriptorAssumption ==
    \A method \in DOMAIN Kinds : \A kind \in Kinds[method] :
        Diagnosed[method][kind] = [cause |-> SeenAs[kind],
                                   confidence |-> IF kind = "UNKNOWN" THEN "low" ELSE "high"]

\* evaluateAttempt.
Succeeds(truth, at, messages, rail) ==
    CASE truth.kind \in Permanent -> FALSE
      [] truth.kind \in NeedsNudge -> (messages >= 1 \/ rail) /\ truth.cooperates
      [] OTHER -> at >= truth.resolvesAt

\* The payments each of the profiles may become.
Members ==
    [i \in DOMAIN Batch |->
        UNION { { [method |-> p.method, day |-> p.day, origin |-> p.origin, truth |-> t] :
                      t \in UNION {Truths(k, p.origin, p.day) : k \in Kinds[p.method]} } :
                p \in Batch[i] }]

\* Every batch the profiles allow.
Batches ==
    {b \in [DOMAIN Batch -> UNION {Members[i] : i \in DOMAIN Batch}] :
        \A i \in DOMAIN Batch : b[i] \in Members[i]}

\* No strategy has a run open.
NoRun == [clock |-> 0, attempts |-> 0, messages |-> 0, rail |-> FALSE, recovered |-> FALSE,
          endedBy |-> "none", passes |-> 0]
NewRun(payment) == [NoRun EXCEPT !.clock = payment.origin, !.attempts = 1]

Init ==
    /\ batch = <<>> /\ strategy = "none" /\ run = NoRun
    /\ runs = [s \in Strategies |-> <<>>]
    /\ report = <<>>

\* generateDataset, and the naive strategy's first run.
GenerateDataset ==
    /\ batch = <<>>
    /\ batch' \in Batches
    /\ strategy' = "NAIVE" /\ run' = NewRun(batch'[1])
    /\ UNCHANGED <<runs, report>>

-----------------------------------------------------------------------------
(* One payment through one strategy.                                        *)

Turn == Len(runs[strategy]) + 1
Payment == batch[Turn]
Open == strategy # "none" /\ run.endedBy = "none"

\* minutesSinceStart, rounded to the nearest.
Elapsed(r, payment) == (r.clock - payment.origin + Minute \div 2) \div Minute

\* Mutant: a wait is not cut off at the end of the window.
ClampAdvance_Unbounded(r, delay) == r.clock + delay * Minute

\* clampAdvance: where the clock stands after a wait of delay minutes.
ClampAdvance(r, delay) ==
    r.clock + Most(0, Least(delay, Horizon - Elapsed(r, Payment))) * Minute

\* attempt, by the simulator: its verdict from the hidden truth, and its latency.
Attempt(truth, at, r, latency) ==
    [recovered |-> Succeeds(truth, at, r.messages, r.rail), latency |-> latency]

\* env.retry: wait, attempt, and whatever the attempt takes.
Retry(r, delay, latency) ==
    LET at == ClampAdvance(r, delay)
        verdict == Attempt(Payment.truth, at, r, latency)
    IN  [r EXCEPT !.clock = at + verdict.latency, !.attempts = @ + 1, !.passes = @ + 1,
                  !.recovered = verdict.recovered,
                  !.endedBy = IF verdict.recovered THEN "RECOVERED" ELSE @]

Advance(newRun) ==
    /\ run' = newRun
    /\ UNCHANGED <<batch, strategy, runs, report>>

Stop(reason) == Advance([run EXCEPT !.endedBy = reason])

\* Three immediate retries.
NaiveRetry ==
    /\ Open /\ strategy = "NAIVE" /\ run.passes < 3
    /\ \E latency \in Latencies : Advance(Retry(run, 0, latency))

NaiveStop == Open /\ strategy = "NAIVE" /\ run.passes = 3 /\ Stop("EXHAUSTED")

\* The decision on the last failure, whose descriptor never changes.
DeskDecision ==
    LET d == Diagnosed[Payment.method][Payment.truth.kind]
    IN  TimedDecision([cause |-> d.cause, confidence |-> d.confidence,
            method |-> Payment.method, status |-> "FAILED", attempts |-> run.attempts,
            messages |-> run.messages, railSwitched |-> run.rail,
            mandateRevoked |-> FALSE, killSwitch |-> FALSE, breaker |-> "CLOSED",
            now |-> run.clock, salaryDay |-> Payment.day])

DeskPass(action) ==
    /\ Open /\ strategy = "RECOVERY_DESK" /\ run.passes < MaxPasses
    /\ DeskDecision.action = action

DeskHardStop == DeskPass("HARD_STOP") /\ Stop("HARD_STOP")

DeskHumanReview ==
    /\ DeskPass("HUMAN_REVIEW")
    /\ Stop(IF DeskDecision.blockedBy = "attempt_limit_reached" THEN "EXHAUSTED"
            ELSE "HUMAN_REVIEW")

\* Mutant: one message too few is allowed.
DeskMessage_OneOnly ==
    /\ DeskPass("MESSAGE")
    /\ IF run.messages >= 1 THEN Stop("MESSAGE_LIMIT")
       ELSE \E latency \in Latencies :
                Advance(Retry([run EXCEPT !.messages = @ + 1, !.clock = @ + MessageLatency],
                              60, latency))

\* A message, whatever hour the decision gives it, and an attempt an hour later.
DeskMessage ==
    /\ DeskPass("MESSAGE")
    /\ IF run.messages >= 2 THEN Stop("MESSAGE_LIMIT")
       ELSE \E latency \in Latencies :
                Advance(Retry([run EXCEPT !.messages = @ + 1, !.clock = @ + MessageLatency],
                              60, latency))

\* Mutant: the attempt over the other rail leaves no trace of it.
DeskSwitchRail_Forgotten ==
    /\ DeskPass("SWITCH_RAIL")
    /\ \E latency \in Latencies : Advance(Retry(run, DeskDecision.delay, latency))

DeskSwitchRail ==
    /\ DeskPass("SWITCH_RAIL")
    /\ \E latency \in Latencies :
           Advance(Retry([run EXCEPT !.rail = TRUE], DeskDecision.delay, latency))

\* Mutant: the decision's delay is not waited for.
DeskRetry_AtOnce ==
    /\ \E action \in {"RETRY", "WAIT"} : DeskPass(action)
    /\ \E latency \in Latencies : Advance(Retry(run, 0, latency))

DeskRetry ==
    /\ \E action \in {"RETRY", "WAIT"} : DeskPass(action)
    /\ \E latency \in Latencies : Advance(Retry(run, DeskDecision.delay, latency))

DeskGivesUp ==
    /\ Open /\ strategy = "RECOVERY_DESK" /\ run.passes = MaxPasses
    /\ Stop("EXHAUSTED")

\* The run's result is kept, and the next payment's begins, or the next strategy's.
EndRun ==
    LET result == [recovered |-> run.recovered, attempts |-> run.attempts,
                   messages |-> run.messages, rail |-> run.rail, endedBy |-> run.endedBy,
                   minutes |-> Elapsed(run, Payment)]
        next == CASE Turn < Len(batch) -> strategy
                  [] Turn = Len(batch) /\ strategy = "NAIVE" -> "RECOVERY_DESK"
                  [] OTHER -> "none"
    IN  /\ strategy # "none" /\ run.endedBy # "none"
        /\ runs' = [runs EXCEPT ![strategy] = Append(@, result)]
        /\ strategy' = next
        /\ run' = CASE next = strategy -> NewRun(batch[Turn + 1])
                    [] next = "RECOVERY_DESK" /\ strategy = "NAIVE" -> NewRun(batch[1])
                    [] OTHER -> NoRun
        /\ UNCHANGED <<batch, report>>

-----------------------------------------------------------------------------
(* The metrics.                                                             *)

CostPerAttempt == 250
CostPerMessage == 20

Total(results, field) == FoldLeft(LAMBDA sum, r : sum + r[field], 0, results)
Ended(results, reason) == Cardinality({i \in DOMAIN results : results[i].endedBy = reason})
Recovered(results) == Cardinality({i \in DOMAIN results : results[i].recovered})

\* a / b, in hundredths and rounded.
Rounded(a, b) == IF b = 0 THEN 0 ELSE (2 * a + b) \div (2 * b)

Aggregate(results) ==
    LET attempts == Total(results, "attempts")
        messages == Total(results, "messages")
        cost == attempts * CostPerAttempt + messages * CostPerMessage
    IN  [processed |-> Len(results), recovered |-> Recovered(results),
         rate |-> Rounded(Recovered(results) * 10000, Len(results)),
         attempts |-> attempts, messages |-> messages,
         hardStops |-> Ended(results, "HARD_STOP"),
         humanReviews |-> Ended(results, "HUMAN_REVIEW"),
         exhausted |-> Ended(results, "EXHAUSTED"),
         cost |-> cost, costPerRecovery |-> Rounded(cost, Recovered(results))]

Compare(naive, desk) ==
    [rateDelta |-> desk.rate - naive.rate, messagesDelta |-> desk.messages - naive.messages,
     wins |-> desk.recovered >= naive.recovered /\ desk.rate > naive.rate]

\* rootCauseBreakdown: both strategies by the cause of the first failure.
Breakdown ==
    LET Cause(i) == Diagnosed[batch[i].method][batch[i].truth.kind].cause
        Of(c, results) == [i \in 1..Len(results) |->
                              IF Cause(i) = c THEN results[i]
                              ELSE [results[i] EXCEPT !.recovered = FALSE, !.attempts = 0]]
    IN  [c \in {Cause(i) : i \in 1..Len(batch)} |->
            [failures |-> Cardinality({i \in 1..Len(batch) : Cause(i) = c}),
             recoveries |-> [s \in Strategies |-> Recovered(Of(c, runs[s]))],
             attempts |-> [s \in Strategies |-> Total(Of(c, runs[s]), "attempts")]]]

Metrics ==
    [naive |-> Aggregate(runs["NAIVE"]), desk |-> Aggregate(runs["RECOVERY_DESK"]),
     comparison |-> Compare(Aggregate(runs["NAIVE"]), Aggregate(runs["RECOVERY_DESK"])),
     breakdown |-> Breakdown]

Report ==
    /\ batch # <<>> /\ strategy = "none" /\ report = <<>>
    /\ report' = <<Metrics>>
    /\ UNCHANGED <<batch, strategy, run, runs>>

Next ==
    \/ GenerateDataset
    \/ NaiveRetry \/ NaiveStop
    \/ DeskHardStop \/ DeskHumanReview \/ DeskMessage \/ DeskSwitchRail \/ DeskRetry
    \/ DeskGivesUp
    \/ EndRun \/ Report

Spec == Init /\ [][Next]_vars

-----------------------------------------------------------------------------
(* Properties.                                                              *)

\* The next three do not depend on the run, and are looked at once, before there
\* is a dataset.

\* Whatever else an event says, and however surely, evidence that the mandate
\* or the instrument is gone stops the payment: the two structural rules come
\* before the transient ones, whose decisions would retry (rules.ts, precedence).
StopsOutrankRetries ==
    batch = <<>> => \A e \in Events : Supported(e) => StopsIfStructural(e)

\* A retry for low funds is due when the salary has come in, within the window
\* of some month or in the hour after it: across the ends of months, for salary
\* days out of range, and whenever in the month the charge failed (time.ts).
FundsLowWaitsForMoney ==
    batch = <<>> => \A now \in Moments, day \in SalaryDays : DueWithTheSalary(now, day)

\* No guardrail loosens what the playbook permits, except that a message over the
\* contact ceiling becomes a WAIT, which may schedule a retry; and nothing is due
\* before the time of the decision (guardrails.ts 14-16).
GuardrailsRestrict ==
    batch = <<>> => \A ctx \in Contexts(Hours) : Restricts(ctx)

\* No attempt of the desk is futile from the start: what can never succeed is
\* not attempted and nobody is written to, and where the customer has to act
\* the customer is asked, or offered another rail, before the first attempt.
\* The desk knows the kind only by what the classifier makes of the descriptor.
NoFutileAttempt ==
    strategy = "RECOVERY_DESK" =>
        /\ Payment.truth.kind \in Permanent => run.attempts = 1 /\ run.messages = 0
        /\ (Payment.truth.kind \in NeedsNudge /\ run.attempts > 1)
               => run.messages >= 1 \/ run.rail

\* Every run ends within its budget: four attempts for the naive strategy; for
\* the desk the attempts of the cause where it retries.  Where it messages, the
\* attempt ceiling does not hold it (guardrail 8 comes after guardrail 6) and
\* only the bound on the passes ends the run (strategies.ts 48).
BudgetsHold ==
    /\ strategy = "NAIVE" => run.attempts <= 4 /\ run.messages = 0
    /\ strategy = "RECOVERY_DESK" =>
          LET cause == Diagnosed[Payment.method][Payment.truth.kind].cause
          IN  /\ run.messages <= MaxMessagesPerDay
              /\ run.attempts <= IF Payment.truth.kind \in NeedsNudge THEN MaxPasses + 1
                                 ELSE Most(1, CauseMaxAttempts(cause))

\* A run lasts no longer than the experiment's window and the minute its last
\* attempts take, however far away the salary day or the next morning is.
HorizonRespected ==
    \A s \in Strategies, i \in 1..Len(batch) :
        i <= Len(runs[s]) => runs[s][i].minutes <= Horizon + 1

\* Patience never loses a payment: what three immediate retries recover, the
\* desk recovers too, on the same hidden truth (evaluation.ts 55, recoveredCount).
DeskDominates ==
    \A i \in 1..Len(batch) :
        (i <= Len(runs["RECOVERY_DESK"]) /\ runs["NAIVE"][i].recovered)
            => runs["RECOVERY_DESK"][i].recovered

\* The published metrics leave no payment out: every run is recovered, stopped,
\* reviewed or exhausted (MESSAGE_LIMIT has no column), and the rows by root
\* cause add up to the totals (metrics.ts, breakdown.ts).
EveryRunIsCounted ==
    report # <<>> =>
        LET m == [NAIVE |-> report[1].naive, RECOVERY_DESK |-> report[1].desk]
            rows == report[1].breakdown
            Sum(Of(_)) == FoldFunction(+, 0, [c \in DOMAIN rows |-> Of(rows[c])])
        IN  \A s \in Strategies :
                /\ m[s].recovered + m[s].hardStops + m[s].humanReviews + m[s].exhausted
                       = Len(batch)
                /\ Sum(LAMBDA row : row.recoveries[s]) = m[s].recovered
                /\ Sum(LAMBDA row : row.attempts[s]) = m[s].attempts

=============================================================================
