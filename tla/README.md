# Verification of the payment recovery desk

TLA+ models of this repository's recovery of failed payments, the TLC runs that
check them on small instances, and TLAPS proofs of what matters most for every
instance: that no approved action is carried out twice, that no failure and no
charge is miscounted, and that nobody but the rules and a human decides.

Contents: 1 the system, 2 the modules, 3 how state and actions correspond to the
code, 4 the runs, 5 fairness, 6 the proofs, 7 where code and documentation
disagree, 8 what is not modelled, 9 the plan.

## 1. The system

A merchant's failed payments are diagnosed, a deterministic policy approves a
recovery action, a worker carries it out against the payment gateway.

| Component | State it keeps | Operations | Hard about it | Correct means |
|---|---|---|---|---|
| Ingestion (`apps/api/src/ingestion`, `normalization`) | `Payment.status`, `recoveryStatus`, `attemptCount`; `PaymentFailure` rows | `ingestFailure`, `normalizeFailure` | the payment is read before the transaction that goes by it; duplicate reports race | each failure counted once, under one row per key |
| Classification (`apps/api/src/classification`, `packages/classifier`) | `Classification` rows, one per failure, source and version | `classifyFailure`; seven pure rules with priorities | `recoveryStatus` read before the transaction; rules that match together | one diagnosis; structural evidence wins; UNKNOWN when no rule matches |
| AI services and human review (`apps/api/src/services`, `human-review`) | `Classification` rows of source `LLM_SUGGESTION`, `HUMAN`; messages | `generateFailureSuggestion`, `generateAndPersistMessage`, explanation; `resolve`, `listPending` | late or failing model; concurrent requests; a queue derived from `recoveryStatus` | the model never decides; one row and agreeing answers; reviews stay listed |
| Policy engine (`packages/policy-engine`) | none (pure) | `decide`: playbook, delay, then guardrails | order of ten guardrails; hours around midnight; month ends | attempt and contact ceilings, quiet hours, permanent stops; no guardrail loosens |
| Recovery pipeline (`packages/recovery`, `workers/recovery`) | `RecoveryAction`, `RecoveryOutcome`, `Payment` rows; BullMQ jobs | `decideRecovery`, `enqueueRecoveryAction`, `executeRecoveryAction`, `liveReschedule`, the job processor | several workers, redelivery, stalled-job handover, crashes between charge and outcome, stale claims, updates by id alone | one executor per action, effects recorded, ceilings kept, nothing lost |
| Circuit breaker (`packages/circuit-breaker`) | state, opened-at, failure set, probe lock, in Redis or in memory | `beforeRequest`, `onSuccess`, `onGatewayFailure`, `reset` | several scripts per operation, lock expiry, late reports, one token per process | a storm trips it, it closes again, Redis does what the memory store does |
| Demo (`packages/demo`, `apps/api/src/demo`) | the controller's stage, in memory; the demo's payments; the gateway's storm | `start`, `advance`, `drain`, `reset` | a dozen stages of real work that may throw half-way, a worker between its steps, restarts | every stage finds the earlier ones' work done; what is put off is drained; a reset cleans up and touches nothing else |
| Experiment and simulator (`packages/experiment`, `packages/simulator`) | a frozen batch, hidden truths, a clock per run | `generateDataset`, the two strategies, metrics | budgets that several layers share; time windows | bounded runs, no futile attempt, every run counted once |

How they interact. `POST /api/failures` ingests; `.../classify` diagnoses;
`.../decide` loads the payment, the latest RULE or HUMAN classification and the
history, calls the policy engine and stores one `RecoveryAction` per
classification (a HARD_STOP also cancels the payment's open actions);
`.../enqueue` adds the BullMQ job named by the action's id and marks the row
SCHEDULED. A worker slot (or the demo, without a job) runs
`executeRecoveryAction`: load, duplicate check, safety re-check, claim
(compare-and-set to EXECUTING), then either a message, or breaker permission,
charge, report to the breaker and the outcome in one transaction. A refused
permission or a 5xx reschedules the row and delays the same job. The demo drives
all of this in stages and shares the breaker with the workers, but not its stormy
gateway, which is the API process's own. The experiment calls classifier and
policy engine only. Everything else meets in the Postgres rows, the queue and
the breaker's Redis keys; nobody holds a lock across an await except through the
claim and the probe lock.

## 2. The modules

| Module | What it is |
|---|---|
| `RecoveryExecution` | the pipeline from decision to outcome: requests, jobs, executors, crashes, at the grain of awaits |
| `ActionLedger` | abstract: what the pipeline promises about effects at the gateway |
| `CircuitBreaker` | the breaker over its Redis store, script by script |
| `CircuitStore` | abstract: the store in memory, the reference that Redis implements |
| `PolicyEngine` | playbooks and guardrails |
| `PolicyTiming` | delays, the salary window, permissions, what a decision asks for |
| `Normalization` | how a provider's event becomes a failure |
| `Classifier` | the seven rules, their strengths and precedence |
| `Triage` | classifier and policy together: from an event to a decision |
| `Intake` | the API's idempotent services around the failures of one payment, at the grain of awaits |
| `RecoveryCase` | one payment's whole life over the real decisions, execution included |
| `Experiment` | two strategies on a frozen batch, and the metrics |
| `DemoScenarios`, `Demo` | the curated dataset; the staged demo over it |
| `MC...` | definitions for the runs |
| `RecoveryExecutionProofs`, `RecoveryAttemptProofs` | theorems about the pipeline, checked by TLAPS: claims, effects and the refinement; attempts, ceilings and statuses |
| `CircuitBreakerProofs`, `IntakeProofs`, `RecoveryCaseProofs`, `DemoProofs`, `ExperimentProofs` | theorems about the module each is named after |
| `PolicyProofs` | lemmas about `PolicyEngine` that four of these share: arithmetic of quotients, quiet hours, ceilings, what a decision can be |

    Normalization <- Classifier <-+
                                  +- Triage <- Intake, Experiment, DemoScenarios <- Demo
    PolicyEngine <- PolicyTiming <+
    PolicyEngine <- RecoveryCase          ActionLedger <. RecoveryExecution
                                          CircuitStore <. CircuitBreaker
    (<- is extended by, <. is implemented by)

Four modules look at the same handlers, each fine where another is coarse.
`RecoveryExecution` has every await of the pipeline, and any decision the policy
could take. `Intake` has every await of the services before it, and the real
diagnoses and decisions, but executes nothing. `RecoveryCase` follows a payment
through both, with requests of two steps and executions of one. `Demo` has fewer
steps to a request, those between which its worker makes a difference, and adds what
surrounds them: stages, reset, restart. The
breaker appears in the others only through its answer; `CircuitBreaker` is the
detail.

`X_Name` operators marked *Mutant* are deliberately wrong versions of `X`. They
are in no specification: substituted for `X` they make the property they are
listed with in `PROJECT.json` fail, which shows that the property and the bounds
of its run can notice such a mistake.

## 3. State and actions

### RecoveryExecution

| Variable | Code |
|---|---|
| `payStatus`, `recStatus`, `attempts` | `Payment.status`, `recoveryStatus`, `attemptCount` |
| `status`, `kind`, `ceiling` | `RecoveryAction.status`, `action`, `maxAttempts`; `NONE` is no row. RETRY, WAIT and SWITCH_RAIL all run `runCharge` and are one kind `CHARGE` |
| `stale` | `updatedAt < now - STALE_EXECUTION_MS`, for an EXECUTING row |
| `outcome` | the `RecoveryOutcome` row, unique by `actionId` |
| `job`, `holder`, `faults`, `stalls` | the BullMQ job, the worker holding its lock, runs that threw, stalled checks |
| `pc`, `at`, `seen`, `verdict` | an executor inside `executeRecoveryAction`: the next await, the action, the attempt count it loaded, what the check or the gateway said |
| `apc`, `aat`, `aseen` | a `/decide` or `/enqueue` request: the next await, the action, the payment status it loaded |
| `effects`, `lost`, `mishaps` | history: calls the gateway carried out, effects whose execution died unrecorded, crashes so far |

One action per await. `LoadExecutionContext` (with the duplicate check and
`safetyBlock`), `PersistBlocked`, `ClaimForExecution`, `SendMessage`,
`BreakerAllows`/`BreakerBlocks`, `ChargeAnswered`/`GatewayFailure`, `Reschedule`,
`PersistOutcome`, `DuplicateOutcome` (the unique index), then `Finish` or
`MoveToDelayed`. A Prisma transaction is one step. `InfraFault` strikes at any
location, also after the last write was committed, and BullMQ retries the job;
`Crash` leaves the job active until `Stall` hands it over.

`Reclaim` says when a claim may become stale: `"dead"` only when no live
executor is inside (an execution never outlasts the timeout), `"any"` always,
`"never"` not at all. `EnqueueRaces` says whether a job may run while its
enqueue is unfinished. The code enforces neither; the passing runs and the
theorems name them as assumptions and the violation runs drop them.

### CircuitBreaker and CircuitStore

`state`, `openAge` (now minus opened-at), `failures` (entries of the sorted set by
age), `probe`, `probeLeft` (the lock and its remaining time to live); per
caller `pc` and `lag`, the ticks since the `now()` its operation began with. Each
Lua script or command is a step; `Tick` ages everything. `FailureCount` is the
cardinality of the set's members, as ZCARD counts them. Several callers of one
process share a token, as the job slots of one worker do. `Reset` is the demo's,
and meets callers under way where `ResetsAnytime`. `CircuitStore` is
`memory-store.ts`: every operation at once, by whoever holds a token.

### PolicyEngine, PolicyTiming, Normalization, Classifier, Triage

Pure operators. `Decide` is `decide`: `IntendedAction` the playbooks, then the
guardrails in the code's order; `TimedDecision` adds the delay, the time it is due
and the permissions. Times are units since midnight of the first day, `Hour` units
to the hour; `Calendar` is the sequence of the days on which its months begin, and
the day it ends, so that a month's start is looked up and not summed. `Classify` evaluates every rule on
the normalised failure and takes the match of the least priority number; a rule's
strengths are tried in the code's order. A text is the sequence of its words and
the separator it is spelled with, as the rules tell apart: exact reasons, words
among the tokens, phrases.

### Intake

| Variable | Code |
|---|---|
| `payment` | `Payment.status`, `recoveryStatus`, `attemptCount` |
| `table` | `PaymentFailure`, `Classification`, `RecoveryAction` and message rows by creation; `key` is the value under the unique index |
| `audit` | the audit events, by what they say was done to which row |
| `request` | a request under way: the operation, its next await, what it saw of the payment, the row it would write; of one that is done, its answer |

Seven operations share their steps, as the services share their shape. `Receive...`
loads and refuses, `CheckKey` looks the idempotency key up, `AskModel`/`ModelFails`
is the call to the model with its fallback, `Write` is the transaction with its
audit event, `LoseRace` the P2002 and `AnswerLoser` the catch that looks for the
winner, where there is one. `Die` rolls back whatever was open.

### RecoveryCase

`request` holds what a handler read and has not yet written: ingestion,
classification and decision are two steps, so requests about different failures
interleave. `class` and `row` are indexed by failure and source because a
decision's key is the classification it used. Of a decision's delays only a
message's is kept; a retry may run at any time from its decision. Confidence is
`high` (a matching rule reports 0.72 or more) or `low` (UNKNOWN, 0.2): nothing lies
between.

### Experiment

`batch` is the dataset with each payment's hidden truth, `strategy` who runs, `run`
the payment's clock (in seconds) and counters, `runs` the results, `report` the
metrics. `NaiveRetry` and the `Desk...` actions are one pass of their strategy's
loop, one for each decision; an attempt's latency is the simulator's free choice
and its answer follows from the truth. `Members` are the payments a profile of the
dataset may become, `Batches` the functions that choose one for each place. Amounts
are left out: a recovered payment counts.

### Demo

| Variable | Code |
|---|---|
| `controller` | the `DemoController`: started, stage, and whether it noted a STAGE_ERROR |
| `loaded`, `row` | the dataset in the database, and per payment what rows and queue have of it: its action's state, whether it has an outcome, and its job (none, queued, or over) |
| `gateway` | `setLiveGateway`: what the API process executes against |
| `circuit` | the shared breaker: state, failures in the window, cooled or not |
| `work` | the request being served, the set of payments it has left, and the step it is at with the first of them |
| `prompt` | history: the run began clean and has seen no pause, restart or throw of the API's |

`Advance` moves the controller first, as the code does, then the stage's work goes
through its payments in the order of the dataset (`Current` is the least of those
left). A payment takes one step, but for two stages. A decision is stored
(`DecideNext`), its job added (`AddJob`) and its row marked (`MarkScheduled`): a
message's job has no delay and may run in between. An execution claims (`ClaimNext`)
and runs (`RunNext`), and the worker may come in between. `WorkThrows` ends a request
anywhere, with the route's catch; `ExecutionThrows` is the executor's throw, after
which the batch goes on. `Restart` loses what was in memory.

The worker process executes (`WorkerExecutes`), is refused and completes its job
(`WorkerRefused`: somebody else has the row, there is an outcome, or the claim it finds
is not yet stale), or throws before or after its claim, for the last time or not
(`WorkerThrows`). Each is one step: to the API a row in the worker's hands is one it may
not claim, just as one that was left EXECUTING a moment ago, and a request that claims it
between load and claim is `WorkerRefused`. A row EXECUTING may be stale or not, and is
claimed or refused accordingly. `Dev` payments are not the demo's.

## 4. The runs

`CHECK_DEADLOCK FALSE` is set in every run because all work may simply be done.
Where two actors or two rows must overlap there are two: the hazards listed are
between two, and a third would only repeat one of their orders. Where a third makes
a difference there are three: the actions of `ExecJobs`, the processes of `BrkProbe`.

| Run | Bounds | Shows |
|---|---|---|
| `ExecCrash` | 1 action, 2 workers, 1 demo executor, 1 request, ceilings 1 to 3, 2 infra attempts, 1 stall, 3 mishaps (crash, fault and handover meet) | types; exclusive claims; effects accounted; EXECUTED iff recorded; payment follows its charge; implements `ActionLedger` |
| `ExecJobs` | 3 actions of a payment under one ceiling of 2, which two of them can pass together and a third must not; 2 workers whose executions are their jobs' (no demo executor, no handover from a live worker), 1 request, 2 infra attempts, 1 stall, 2 mishaps | attempts count recorded charges; how far the ceiling can be passed; nothing queued is forgotten; a hard stop reaches what is not claimed |
| `ExecLive` | 2 actions, 1 worker, 2 requests that may race for one idempotency key, no mishaps | every queued action settles |
| `BrkPair` | 2 processes with a caller each; threshold, window and cooldown 2 ticks, lock 1 tick, calls of up to 2 (they outlast the lock), handlers of up to 1; 1 crash, resets at any time | types; a storm trips the circuit; implements `CircuitStore`; a healthy gateway's circuit closes for good |
| `CaseLife` | 2 failures, UPI, one hour of the night and one of the next morning, abandonment, authentication and unknown causes, suggestions and reviews | budgets of charges and messages; what attempts are made of; no message at night; no message becomes a charge |
| `Experiment` | pairs of payments: the first of any method and kind, two salary days, three moments of the month; the second a mandate's. Events, all hours of two months, salary days in and out of range and all policy contexts for the pure properties | see below |
| `Intake` | 2 requests, 2 failures, reported in either order, four kinds of event, 5 rows, deaths, failing model | agreeing answers; counts; authority; stops; trail; review list |
| `Demo` | an issuer timeout, an abandonment and a riddle of the dataset, one payment that is not the demo's; threshold 1, batches of 3, 2 and 2 | stages; circuit trips; reset; isolation; completion; drains reach all |

In `Demo` the batches and the threshold shrink with the dataset, so that the storm's
batch still holds a charge and the drain may need more than one
(`DatasetAssumption` in `Demo`, which the proofs use); that the real numbers (eight
executions, five failures) do the same on the whole dataset, and that every payment
of it is diagnosed as announced, is `WholeDatasetAssumption` in `MCDemo`. TLC
evaluates both. The run has 1109224 distinct states.

What the less obvious properties are about:

- `TypeOK`: the runs of the pipeline, the breaker and the intake check their modules'. Those of
  `RecoveryCase` and `Demo` are proved (`CaseTyped`, `DemoTyped`) and not checked again by a run.
- `EffectsAccounted`: a redelivery, retry or second executor repeats an effect.
  `PaymentFollowsOutcome`: a refusal or a late write leaves the payment saying
  something else than its charge.
- `CeilingOvershoot`: the re-check of the attempts and the increment are two
  transactions, so actions of a payment pass the ceiling together. What the code
  does keep is that only charges that overlap can: at most as many as there are
  other executors.
- `NothingForgotten`: a refusal, a 5xx, a lost claim or a request that dies midway
  leaves a row waiting with no job to run it. `StopsReachUnclaimed`: a hard stop is
  decided between an executor's load and its claim.
- `StormsTrip`: failures are counted in one script and looked at in another, with
  closings and resets between; a storm that nobody notices would leave the
  circuit closed. `Recovers`: a lost lock or a late report keeps it open.
- `BudgetsHold` (`RecoveryCase`): attempts are lost or double counted, and decisions
  count the messages sent but not those queued. `OnlyRetriesCharge`: guardrail 8
  stores a deferred message as WAIT, which the executor runs as a charge; the run
  shows that by then the payment has used up the two attempts of every messaging
  cause, so it never does.
- `AnswersAgree`, `TrailIsTrue`, `StopsCancel`: two requests pass the same check
  together. `ReviewsStay` names everything that takes a review off the list, and
  finds nothing else.
- `NoFutileAttempt`, `BudgetsHold`, `HorizonRespected`, `DeskDominates`,
  `EveryRunIsCounted` (`Experiment`): what the published comparison rests on; the
  desk's bound is nine attempts for causes where it messages, not the ceiling.
- `StopsOutrankRetries`, `FundsLowWaitsForMoney`, `GuardrailsRestrict`: classifier
  precedence, the salary window across month ends, and the guardrails over every
  context of the sets given. They read no state; TLC looks at them in the initial
  state.
- `StagesBuild`, `DemoCompletes`: a stage works on what earlier stages, earlier runs and
  the worker left, perhaps half done.
- `DrainsReachAll`: the jobs are not what brings a blocked payment back, since a worker
  that loses its row to the presenter, or comes before a claim is stale, completes its
  job. Draining does, provided that the rows reopened by a late mark, which it lists for
  ever and cannot execute, do not fill the batch; and except for rows left EXECUTING, which
  it does not list. Section 7 has both.

The violation runs `ExecStrand`, `ExecEnqueueRepeat`, `BrkProbe` and `CaseSuggested` each
check one statement of the documentation, section 7.

## 5. Fairness

`RecoveryExecution!FairSpec`: a request and an execution that do not fail go on
(`WF` of their steps: an awaited call returns); a waiting job gets a free slot
(`SF`, because the slot may be busy again and again, but the queue is served in
order); BullMQ's stalled check runs and time passes (`WF`). That the breaker
permits and the gateway answers, again and again (`SF`), is an assumption about
the environment: a job may be delayed by an outage for as long as it lasts.

`CircuitBreaker!FairSpec`: callers come back (`WF` of `Ask`: the queue holds blocked
jobs) and proceed (`WF`), ticks happen (`SF`, since a tick waits for handlers at
their bound). No fairness of the gateway: `Recovers` has its health as the
antecedent.

`Demo!FairSpec`: a request is served (`WF` of `Proceed`), time passes (`WF`), and the
presenter clicks on (`SF` of `Advance \/ Drain`: a pause, a throw or a restart may come
between again and again). The worker may do nothing for ever: what the properties say
does not rest on it. That nobody resets or restarts for ever, that the presenter goes
on draining, or stops, and that throws which leave something undone end, stands in the
antecedents of the properties.

The other runs check safety and assume no fairness.

## 6. The proofs

Every safety property of the passing runs is a theorem, for all values
of the constants that the modules' assumptions admit. An assumption stands in the
module that declares the constants, says what the code guarantees of them, and
is evaluated by TLC in every run. Each argument has the same form: an inductive
invariant that contains the property, checked by TLC first, then a step for every
action of `Next`.

| Theorem | Property | Beyond the assumptions it needs |
|---|---|---|
| `RecoveryExecutionProofs!TypeCorrect` | `TypeOK` | |
| `...!ClaimIsExclusive` | `ExclusiveClaim` | `Timely` |
| `...!RowsFollowOutcomes` | `ExecutedIffRecorded` | `Timely` |
| `...!EveryEffectAccounted` | `EffectsAccounted` | `Timely` |
| `...!PipelineImplementsLedger` | `ImplementsLedger` | `Timely` |
| `RecoveryAttemptProofs!AttemptsAreCharges` | `AttemptAccounting` | |
| `...!OvershootIsBounded` | `CeilingOvershoot` | |
| `...!PaymentsSayWhatHappened` | `PaymentFollowsOutcome` | `Solo`, `~EnqueueRaces` |
| `...!QueuedIsNotForgotten` | `NothingForgotten` | `OwnJob` |
| `...!StopsAreHeeded` | `StopsReachUnclaimed` | `OwnJob` |
| `CircuitBreakerProofs!BreakerTypeCorrect` | `TypeOK` | |
| `...!RedisImplementsReference` | `ImplementsStore` | |
| `...!StormsAreNoticed` | `StormsTrip` | |
| `IntakeProofs!RequestsAreTyped` | `TypeOK` | |
| `...!EveryAnswerAgrees` | `AnswersAgree` | |
| `...!ModelNeverDecides` | `DecidedByAuthority` | |
| `...!StopsAreFinal` | `StopsCancel` | |
| `...!NoFailureUncounted` | `AttemptsAreReports` | |
| `...!TrailTellsAll` | `TrailIsTrue` | |
| `...!ReviewsWaitForHumans` | `ReviewsStay` | |
| `RecoveryCaseProofs!CaseTyped` | `TypeOK` | |
| `...!NoAttemptUnexplained` | `AttemptsExplained` | |
| `...!MessagesKeepCivilHours` | `NightsAreSilent` | |
| `...!ChargesStayBelowCeiling` | the charges' half of `BudgetsHold` | |
| `...!BudgetsAreKept` | `BudgetsHold` | `TwoMessages` |
| `...!ChargesAreRetries` | `OnlyRetriesCharge` | `TwoMessages` |
| `DemoProofs!DemoTyped` | `TypeOK` | |
| `...!StagesBuildOn` | `StagesBuild` | |
| `...!CircuitOpens` | `CircuitTrips` | |
| `...!ResetLeavesClean` | `ResetCleans` | |
| `...!OthersUntouched` | `DevUntouched` | |
| `ExperimentProofs!RetriesWaitForSalary` | `FundsLowWaitsForMoney` | |
| `...!EvidenceStops` | `StopsOutrankRetries` | |
| `...!GuardrailsOnlyRestrict` | `GuardrailsRestrict` | |
| `...!NothingFutileIsTried` | `NoFutileAttempt` | |
| `...!RunsKeepBudgets` | `BudgetsHold` | |
| `...!RunsEndInWindow` | `HorizonRespected` | |
| `...!PatienceWins` | `DeskDominates` | |
| `...!MetricsCountEveryRun` | `EveryRunIsCounted` | |

The hypotheses, and why the code justifies them or where it does not:

- `Timely` is `Reclaim # "any" /\ ~EnqueueRaces`: a claim goes stale only when nobody
  is inside any more, and no job runs before its enqueue is finished. The code
  enforces neither; `ExecEnqueueRepeat` shows what the second excludes, section 7
  what the first does. `RecoveryAttemptProofs` does without the first.
- `Solo`: a payment has one action. With two, both pass the re-check of attempts
  together (section 7), and the statuses are those of the one that recorded last,
  chosen by the count it had loaded.
- `OwnJob` is `Demo = {} /\ ~LockLoss /\ ~EnqueueRaces`: whoever executes has the
  action's job, and loses it only by dying. The code enforces none of it; section 7
  says what TLC finds without each. Stale claims may be taken as they come.
- `TwoMessages` is `MaxMessagesPerDay >= 2`; `RECOVERY_LIMITS.MAX_MESSAGES_PER_DAY` is 2
  (`policy-engine/src/constants.ts:14`). With 1, the ceiling can be passed: a decision counts the
  messages sent, not those queued under another classification of the failure.

### The pipeline

`TypeOK` is not inductive: a throw increments `faults`, bounded only because a job
that used up its attempts is `failed`. `TInv` adds `JobsLive` (a job that can still
run has throws and stalls left) and `Located` (whoever is inside a handler works
on an action). A waiting or active job is the only one that can be thrown back
or stalled, which closes the argument.

`ExclusiveClaim` is not inductive either: nothing in it says that a holder's row
cannot be claimed again. `SInv` adds `HeldRow`, that such a row is EXECUTING and not
stale, or was turned CANCELLED or BLOCKED by a refusal that overtook the claim
(`persistBlocked` does not claim); and `EnqueueApart`, that an unfinished enqueue has
no executor beside it, so `MarkScheduled` and `Reschedule` reopen only rows nobody
else holds. With these, a claim succeeds only when nobody is inside;
`ExecutedIffRecorded` and `EffectsAccounted` are then proved together, because a
second effect would need a second holder, and a second outcome the unique row.

The refinement maps `record` to the outcome and `inHand` to the actions some
executor is about to record; each step is an `Act`, `Record`, `Refuse`, `Lose` or a
stutter, using `SInv` to know that an executor at the gateway is alone.

The count of attempts needs no exclusive claim, since an outcome's row is unique:
`AInv` says that only rows that were decided on get outcomes, that every outcome
of a charge belongs to a charge, and that the recorded charges are finitely many,
so that a new one raises their number by one exactly when `attempts` is. For the
ceiling `OInv` counts those that are through the re-check and have not recorded
(`Through`): attempts and those together stay below some ceiling plus the number of
executors. Whoever is let through finds the attempts below its own ceiling, and there
are no more executors than all; whoever records, moves from one to the other. For
the payment's statuses, `Approved` says that whoever was let past read a count below
the ceiling, which with one action is still the payment's until that action has an
outcome, and `Unhanded` keeps enqueues away from rows with an outcome, the write of
which would bury it.

What becomes of queued work is one invariant, `JInv`. With `OwnJob`, whoever is
inside an action holds its active job, so nobody else is inside (`Alone`), and an
enqueue under way has no executor beside it (`Apart`). `Queued` says that a row which
waits, or is being enqueued, has neither an outcome nor a completed job, and that
a job fails only once its runs are used up; `Onward` that an executor leaves with its
row closed, or back in the queue. A job is completed at the end of `finish` only,
so no waiting row is left with one. For the stops, `Onward` says of an executor about
to claim a waiting row that its payment is not stopped: at the load it was not, or
the executor had gone to `block`; and a stop that came since cancelled the row in the
same transaction.

### The breaker

For all callers, processes and times that satisfy `BreakerAssumption`. The
invariant is `TypeOK` with `Paced` (no handler and no call is older than its bound),
which keeps `lag` in its type over a tick, and with it the dates that a report
stores: a failure recorded late is older than the window, which changes nothing,
or within it, which is `RecordFailure` at that age. `StormsTrip` is inductive on top
of it: failures get into the set in one script only, whose caller counts next;
a step of that caller that leaves the circuit closed has counted too few, and
meanwhile the set only ages, or is emptied.

### Intake

For any number of requests, keys and rows. `IInv` says of the store that a key has
one row (`OneRowPerKey`) and every action its authoritative classification
(`AllFounded`), and of the requests that what one is about to write fits its
operation, that whoever lost a race lost it to a row that is there, and that
whoever was told of a row was told of the one under its key (`Proper`). Rows are
only appended, and rewritten only in their status, so all of this survives other
requests; and a row is appended only under a key nobody holds, so the row told of
stays the only one. `OneCreator` follows since a second creator would find the key
taken. For the count, `CountInv` adds that the events told of are those of failures
that exist, so the next event is new and the finite set grows by one exactly when
the count does.

`TInv` is the type of rows that refer to one another: what a row refers to is
there, also when it is not yet written (rows are never deleted, so a reference
read before the transaction stays good). It needs that a key's reports are events
the normaliser knows (`IntakeAssumption`), and that one of several matching rules
has the least priority. `TrailInv` is what `TrailIsTrue` says, one conjunct per kind
of event, since a transaction writes its row and its event together.
`ReviewsStay` follows from the type of what each operation writes: of the writes
only those it names touch `recoveryStatus`, the latest failure or the verdict.

### A payment's life

`RecoveryCase`, for any number of failures and whatever the policy decides. `CInv`
is for `AttemptsExplained`: the rows' shape; `Fresh`, that a request writes only what is
not there yet, so a decision never overwrites a row that was charged; and
`JobsAreOpen`, that what has a job has not been executed, so a charge is a new
member of `Charges`. `DInv` adds the types, with what `DecisionTyped` of `PolicyProofs`
says of every decision, and `Diagnosed`, that a failure has one diagnosis by the
rules, which is never replaced.

`Bounded` is what the policy engine promises of a decision at the time it is made,
kept in the row and in the request that carries it: a ceiling no higher than
`MaxAttempts`, at least two for what may be enqueued, at most two and a civil hour
for a message. The last is arithmetic: `NextQuietEndAhead` shows that the next hour
boundary outside quiet hours is one, for every start and end, also across
midnight. `NightsAreSilent` is then a conjunct.

`BudgetsHold` needs `SInv`: attempts are at least one more than the charges (`Counted`),
and a charge is let through below the ceiling only, so there are fewer of them
than `MaxAttempts`. For messages, `Single` and `OneFailure`: a message is sent only
below its ceiling of two attempts, that is while the payment has a single
failure, which has two rows a decision may use (its rule's and its human's), so
two messages at most are ever sent. `OnlyRetriesCharge` needs `Intended`: a
retry that the playbook of its cause did not intend is the WAIT of guardrail 8,
which has a ceiling of two and, since a message was sent before, finds two
attempts made.

### The demo

For every selection of the dataset with the two payments the last stages name,
every threshold and every size of the batches. `DInv` says of each payment that
its columns follow from one another whichever run wrote them (`Sound`), that the
controller's stage is one of the twelve, which work belongs to which stage, and what is
known of a payment between two steps of a request (`WithinPayment`): the row it has
claimed stays claimed, whatever the worker does.
Every step moves one payment and undoes nothing (`Moved`, `Grown`), so what a stage
finished stays finished until a reset. `Built` is `StagesBuild` with the work under
way: a payment is among those a stage has still to go through, or has what the
stage announces. The second and third stages go through the failures there are,
and `Built` of the first says that there is one for every payment. `ResetCleans` rests on `WorkFits`: between the deletion and the
end of a reset every row is new.

`CircuitTrips` is about a clean run only. `OnScript` keeps what makes it one: no error
and no cooling, no charge claimed or executed before the storm; and during the storm
`StormCounts`, that the failures counted and the charges left in its batch are
together at least the threshold. That they are at the start follows from
`DatasetAssumption`: the worker may have executed messages, which leaves the charges
more places in the batch and not fewer (`OldestOfFewer`). Each charge executed moves one
from left to counted, and the worker, who without a pause runs messages and payments
outside the demo against a healthy gateway, tells the circuit nothing (`WorkerOnScript`).

### The experiment

For every calendar whose months have 28 to 31 days, batch, set of events and
latencies. Three theorems are about decisions: `RetriesWaitForSalary` is the
arithmetic of months (`MonthFound`) and of rounding up to minutes (`RoundedUp`);
`EvidenceStops` that the structural causes have the least priority numbers;
`GuardrailsOnlyRestrict` a case for each guardrail.

The others are about runs. `ExperimentAssumption` bounds what a run may last: eight
attempts and messages take less than a minute together (3.6 s and 1.1 s at most in
the code), and the calendar reaches beyond the window. `DescriptorAssumption` says
that the classifier takes each descriptor of the simulator for the kind it was
written for. It holds no constant, so TLC's evaluation settles it.

`EInv` says whose turn it is and what holds of the open run and of the results
kept. A run keeps `InWindow`: it lasts no longer than the window, half a minute for
the rounding and, for every pass, an eighth of just less than a minute;
`clampAdvance` never waits beyond the window, so only latencies add to it. That makes `HorizonRespected`, by way
of rounding to the nearest minute (`WindowWithin`). `DeskRun` has a conjunct for
each budget, which the decision on the next attempt keeps (`PermanentDecision`,
`NudgeDecision`, `TransientDecision`). For `DeskDominates` both runs are compared with
what does not depend on them: `Quick`, a failure that is over within a minute.
Three immediate attempts take less than that, so the naive strategy recovers quick
failures only; and the desk's first wait is a minute or more and nothing stops a
transient failure at its first decision (this needs `MaxAttempts >= 2`), so the
desk recovers each of them at its second attempt.

`MetricsCountEveryRun` is about the report, and rests on `CountInv`, which TLC checked
too: a run has recovered exactly if it ended `RECOVERED`; no run ends for want of a
message, because one is decided only below the ceiling and the ceiling is at most
two, so that each result has one of the four columns; once nobody runs, all payments
have run; and what was reported are the metrics of what was run. That the rows by
root cause add up to the totals is about folds. What a fold computes for every input
is an induction over data, and the library's induction theorems cannot be
instantiated here; but inclusion of finite sets is well-founded, so of the sets for
which a claim fails one is least (`LeastSubset`), and that one is contradicted by its
proper subsets. In this way a fold's recursive equation has a solution (`SumFound`)
and one only (`SumIsOne`), whichever element it takes first (`AnyLast`); sums split over
disjoint sets (`SumSplits`), ignore what counts as zero (`SumMasks`), and may be taken
group by group (`SumGroups`). The causes of the payments are such groups.

### What is only model-checked

- Liveness (`EnqueuedSettles`, `Recovers`, `DemoCompletes`, `DrainsReachAll`): fairness and
  `ENABLED` are beyond the prover.
- What the violation runs show: a counterexample is a behaviour, not a theorem.
- The classifier's texts beyond what `Candidates` promises: which rules match a
  given text is evaluated, for the descriptors and events of the runs.

### What the proofs changed

Guardrails, playbooks and safety checks were CASE expressions whose arms overlap:
TLC takes the first that holds, the logic any of them, so no theorem could say
which. They are IF chains or disjoint arms now, in the order of the code. The
demo's work was a sequence whose order nothing constrained; it is a set from which
the first payment is taken. A month's start was summed recursively, which no
theorem could look into.


## 7. Where code and documentation disagree

Each line of the table is a run that ends in a counterexample; `PROJECT.json`
quotes the statement and says what the code does.

| Run | Statement | What happens |
|---|---|---|
| `ExecEnqueueRepeat` | an action is executed at most once; enqueue refuses what runs | `markScheduled` writes by id after the job was handed out and reopens a claimed row; a retry then charges again |
| `ExecStrand` | the stale timeout keeps a crashed worker from stranding a payment | a retry that comes before the claim is stale loses it and completes the job; nobody is left to reclaim the row |
| `BrkProbe` | exactly one probe | three processes see the cooldown over; an ordinary call of the first, answered after it closed the circuit, takes the second's probe for its own and deletes its lock, which the third then takes |
| `CaseSuggested` | a suggestion by itself causes no decision | `mandateHits` counts classifications of every source |

The models have further behaviours that a reader of the documentation would not
expect. They are not runs of their own, and the properties of the passing runs
hold with them. Paths are below `packages/` or `apps/api/src/`.

Execution:

- A crash between the charge and its outcome lets the redelivered job charge again
  once the claim is stale (`lost` in `EffectsAccounted` counts exactly these), while
  `workers/recovery/src/index.ts:29-33` calls such a redelivery safe.
- With `Reclaim = "any"` and `LockLoss`, an execution that outlasts the stale timeout
  shares its action with the next one (why the theorems assume `Timely`).
- Two actions of one payment pass the attempt re-check together, and the second
  charge is recorded beyond its ceiling; `CeilingOvershoot` says how far this goes.
- A hard stop decided during a charge is overwritten by the charge's outcome, and
  a hard stop decided late overwrites SUCCEEDED: a decision on a payment that has
  succeeded is a HARD_STOP (`policy-engine/src/guardrails.ts:185`).
- An action cancelled between load and claim ends without an outcome (why
  `EnqueuedSettles` allows it).
- The hour of a message is tested when it is decided, not when it is sent; a message
  of a payment at its ceiling is refused by the attempt re-check, and the payment
  becomes EXHAUSTED, although a message consumes no attempt.
- `toPolicyInput` hands over no kill switch and no breaker state, so guardrails 1
  and 7 do not fire in the live system.
- With the demo's executor beside the queue a row may wait for nothing: the worker
  loses its claim to it and completes the job, the breaker refuses, and the row
  is SCHEDULED again with a job that is over; only a drain executes it. The same
  with `LockLoss`: a worker whose job was handed over reschedules after its
  successor answered DUPLICATE and completed the job (why `NothingForgotten` needs
  `OwnJob`).
- A second executor of an action that loaded it before a hard stop claims it after
  the stop, if the first one was EXECUTING meanwhile, which a stop does not cancel,
  and was then refused by the breaker (why `StopsReachUnclaimed` needs `OwnJob`). A claim
  that was taken before the stop, and is found stale after it, is executed again.
- `liveReschedule` audits that no gateway request was made also after a 5xx.

Breaker:

- `OneProbe` fails also with a reset under way, and where a call outlasts the probe
  lock. The token is the process's and not the probe's, so such a call's release deletes
  the lock another slot of its worker has taken since.
- `ENTER_HALF_OPEN` does not look at opened-at, so a caller that saw the cooldown
  over may probe a circuit that was reopened a moment ago; a report that saw a
  probe in progress acts on whatever it finds, and the audit trail may call it a
  probe's although it was not.
- The two stores differ by the millisecond at the window's end, and in Redis two
  processes that fail in one millisecond may share a member of the failure set
  (`circuit-breaker/src/redis-store.ts:36`). Both are below the model's tick.

Intake:

- The status tested by ingestion is the one read before the transaction
  (`ingestion/service.ts:95`): a payment that became terminal meanwhile is reopened.
- The suggestion and the verdict lack the P2002 catch of their siblings: who loses
  the race gets a 500 (`services/ai-suggestion-service.ts:105`, `human-review/service.ts:146`).
- `listPending` takes the failure that happened last, and a payment still in
  HUMAN_REVIEW: a review vanishes when another failure is ingested, or when a
  classification is written late (`ReviewsStay` names these).
- `generateAndPersistMessage` does not look at the action's status and writes for a
  cancelled one.
- Classification goes by the payment's method, not by the event's.
- Audit events speak of the payment as loaded: two first failures that overlap both
  say they moved it from PENDING.

Classifier and policy:

- `classifier/src/rules.ts:33-38` says that hits on parts of words are impossible;
  `nsf` is part of `bank_transfer_failed`.
- `guardrails.ts` says that no guardrail loosens a playbook; guardrail 8 makes a
  MESSAGE a WAIT, which permits a scheduled retry (`Loosened` in `Triage`).
- A salary window that runs into the next month is not seen from there: on 1 March,
  a day after a salary of 28 February, a retry waits for 28 March (`policy-engine/src/time.ts:60`).

Experiment: the desk retries without regard to `nextEligibleAt`; its ends MESSAGE_LIMIT
and HORIZON are never reached; the loop's bound of eight passes allows nine
attempts where it messages (`experiment/src/strategies.ts:48`).

Demo:

- `start` does not reset: READY is "a clean, seeded environment" (`demo/src/demo-state.ts:60`)
  only until the API restarts.
- The worker of `demo/service.ts:303-304` does race the presenter: messages have no
  delay, and charges are due after five minutes; `executeDemoActions` ignores
  `scheduledFor`.
- What is executed between `queue.add` and `markScheduled` is SCHEDULED again, with its
  outcome. The executor refuses such a row for ever, the counters show it as queued,
  and every batch lists it: enough of them, older than the rest, and a drain executes
  nothing any more (`Reopened` in `DrainsReachAll`).
- A row left EXECUTING by a throw comes back only through its job, and only if that is
  tried after the claim is stale; no batch lists it, so a job that was refused before, or
  has failed for good, leaves it there until the reset.
- A job that lost its row to the presenter is over: if the row is then blocked, only a
  drain executes it.
- The stormy gateway is the API process's, the circuit is everybody's: a worker may
  close what the storm opened. A stage said to make no call (342-343) probes once
  the circuit has cooled.
- A reset that fails midway leaves the stage with no dataset; a decision whose
  enqueue threw has no job, and only a drain executes it.
- That `start` and `reset` wait for the request under way is the page's doing
  (`demo-view.tsx` disables its buttons); the routes have no lock.

## 8. What is not modelled, and why

- Outside the code: Postgres and Redis lose nothing that was acknowledged, Prisma
  transactions are atomic at the rows they touch, BullMQ keeps its documented
  behaviour (jobs deduplicated by id, stalled jobs handed over). A completed job
  is never removed in the model, while the queue drops it after an hour; a
  second enqueue of its action is refused by the row's status all the same.
- Breaker: metrics, the audit hooks and the delays that spread blocked callers in
  batches. They influence when a job comes back, and the models let it come back
  at any time.
- Audit events of execution and breaker: read by no decision. Those of the intake
  are modelled.
- Gateway simulator: its random generator is a free choice among what it can yield;
  scripted scenarios and the metrics of storms are left out.
- AI: prompts, schemas, redaction and the limiter's window; a call answers or fails.
  The limiter is created per request (`liveAIClient`), so its window limits nothing.
- Demo: the activity feed but for its errors, the views other than the counters, a second
  page whose requests overlap the first's, and a reset during a worker's execution.
- Web UI, HTTP plumbing, dashboards, Payment Explorer, evaluation cache, database
  layer and scripts: no control over recovery.
- Wording, amounts, currencies and ids.

## 9. Plan

Done, in this order: `RecoveryExecution` with its proofs first, since an error there
charges a customer twice; the breaker it asks, with the reference store it
implements; the decisions it carries out (`RecoveryCase`); the services around a
failure at the grain of their awaits with their proofs (`Intake`); classifier,
normalisation and timing as pure operators; `Experiment` and `Demo` over them.

Left:

1. The drain delays composed with breaker and pipeline: no attempt consumed while
   the circuit is open, batches of five, in a module over `CircuitStore` instead of
   `CircuitBreaker` to keep it small.
2. The AI limiter's window, once it is shared between requests.
