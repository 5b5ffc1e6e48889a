------------------------- MODULE RecoveryExecution -------------------------
(***************************************************************************)
(* The recovery pipeline from a classified failure to a recorded outcome:  *)
(* POST /decide authors a RecoveryAction row, POST /enqueue hands it to    *)
(* BullMQ, and executors (worker slots of the recovery worker and the      *)
(* demo's in-process executor) run executeRecoveryAction on it.  Every     *)
(* await of the code is a step boundary; every Prisma transaction and      *)
(* every single Redis command is one step.  The gateway and the circuit    *)
(* breaker appear here only through their answers.                         *)
(***************************************************************************)
EXTENDS Integers, FiniteSets

CONSTANTS
    Payment,        \* Payment rows
    Action,         \* RecoveryAction rows, one per classification decided on
    PaymentOf,      \* the payment an action belongs to
    Worker,         \* concurrent job slots of the recovery worker processes
    Demo,           \* in-process executors of the demo service (no BullMQ job)
    Api,            \* concurrent /decide and /enqueue requests
    Ceilings,       \* values the policy gives maxAttempts
    InfraAttempts,  \* INFRA_RETRY_OPTIONS.attempts: runs a throwing job gets
    MaxStalled,     \* BullMQ's maxStalledCount
    MaxMishaps,     \* bound on crashes plus infrastructure faults
    LockLoss,       \* may a job be handed over while its worker is still alive?
    Reclaim,        \* when STALE_EXECUTION_MS may pass over an EXECUTING row
    EnqueueRaces,   \* may an executor run while the action's enqueue is unfinished?
    NoAction, NoWorker

Executor == Worker \cup Demo

ASSUME ExecutionAssumption ==
    /\ PaymentOf \in [Action -> Payment]
    /\ IsFiniteSet(Worker) /\ IsFiniteSet(Demo) /\ Worker \cap Demo = {}
    /\ Ceilings \subseteq Nat
    /\ InfraAttempts \in Nat \ {0}
    /\ MaxStalled \in Nat
    /\ MaxMishaps \in Nat
    /\ LockLoss \in BOOLEAN
    /\ EnqueueRaces \in BOOLEAN
    \* "dead": only once no live executor is inside the action; "any": also
    \* under a live one (nothing in the code bounds how long it may take).
    /\ Reclaim \in {"never", "dead", "any"}
    /\ NoAction \notin Action
    /\ NoWorker \notin Executor

PaymentStatus == {"FAILED", "RECOVERING", "SUCCEEDED", "EXHAUSTED", "HARD_STOPPED"}
RecoveryStatus == {"CLASSIFIED", "SCHEDULED", "RETRYING", "RECOVERED",
                   "HARD_STOPPED", "EXHAUSTED", "HUMAN_REVIEW"}
ActionStatus == {"NONE", "PENDING", "SCHEDULED", "EXECUTING", "EXECUTED",
                 "CANCELLED", "BLOCKED"}
\* RETRY, WAIT and SWITCH_RAIL all run runCharge, so they are one kind here.
Schedulable == {"CHARGE", "MESSAGE"}
ActionKind == Schedulable \cup {"HARD_STOP", "HUMAN_REVIEW", "NONE"}
OutcomeStatus == {"NONE", "SUCCESS", "FAILED", "BLOCKED", "CANCELLED"}
JobState == {"none", "waiting", "active", "completed", "failed"}
ExecPc == {"idle", "load", "block", "claim", "send", "permit", "charge",
           "settle", "hold", "delay", "finish"}
Verdict == {"none", "cancelled", "blocked", "resolved", "limit",
            "captured", "declined", "sent"}
ApiPc == {"idle", "decide", "add", "mark"}

VARIABLES
    payStatus, recStatus, attempts,     \* Payment rows
    status, kind, ceiling, stale,       \* RecoveryAction rows
    outcome,                            \* RecoveryOutcome rows, unique per action
    job, holder, faults, stalls,        \* BullMQ jobs (jobId = action id)
    pc, at, seen, verdict,              \* executors inside executeRecoveryAction
    apc, aat, aseen,                    \* API requests
    effects, lost, mishaps              \* history: see EffectsNote below

payVars   == <<payStatus, recStatus, attempts>>
rowVars   == <<status, kind, ceiling, stale>>
queueVars == <<job, holder, faults, stalls>>
execVars  == <<pc, at, seen, verdict>>
apiVars   == <<apc, aat, aseen>>
ghostVars == <<effects, lost, mishaps>>
vars == <<payVars, rowVars, outcome, queueVars, execVars, apiVars, ghostVars>>

(* EffectsNote.  effects[a] counts the calls the gateway carried out for a  *)
(* (a charge it answered with success or a decline, or a message it sent); *)
(* a 5xx is not an effect.  lost[a] counts the executions that had such an *)
(* effect and ended, by a crash or an infrastructure error, without        *)
(* writing the outcome.  mishaps bounds crashes and faults.                *)

TypeOK ==
    /\ payStatus \in [Payment -> PaymentStatus]
    /\ recStatus \in [Payment -> RecoveryStatus]
    /\ attempts \in [Payment -> Nat]
    /\ status \in [Action -> ActionStatus]
    /\ kind \in [Action -> ActionKind]
    /\ ceiling \in [Action -> Nat]
    /\ stale \in [Action -> BOOLEAN]
    /\ outcome \in [Action -> OutcomeStatus]
    /\ job \in [Action -> JobState]
    /\ holder \in [Action -> Executor \cup {NoWorker}]
    /\ faults \in [Action -> 0..InfraAttempts]
    /\ stalls \in [Action -> 0..(MaxStalled + 1)]
    /\ pc \in [Executor -> ExecPc]
    /\ at \in [Executor -> Action \cup {NoAction}]
    /\ seen \in [Executor -> Nat]
    /\ verdict \in [Executor -> Verdict]
    /\ apc \in [Api -> ApiPc]
    /\ aat \in [Api -> Action \cup {NoAction}]
    /\ aseen \in [Api -> PaymentStatus]
    /\ effects \in [Action -> Nat]
    /\ lost \in [Action -> Nat]
    /\ mishaps \in Nat

-----------------------------------------------------------------------------
(* Row writes.  Every update of a RecoveryAction refreshes updatedAt.       *)

WriteRow(a, s) ==
    /\ status' = [status EXCEPT ![a] = s]
    /\ stale' = [stale EXCEPT ![a] = FALSE]
    /\ UNCHANGED <<kind, ceiling>>

\* The status, recoveryStatus pair an update gives payment p; attemptCount is
\* incremented by the database, not written from a value read earlier.
WritePayment(p, s, r, n) ==
    /\ payStatus' = [payStatus EXCEPT ![p] = s]
    /\ recStatus' = [recStatus EXCEPT ![p] = r]
    /\ attempts' = [attempts EXCEPT ![p] = @ + n]

-----------------------------------------------------------------------------
(* POST /decide.  The decision itself is the policy engine's; here any one  *)
(* it can take on the payment as read: a resolved payment always gives a    *)
(* HARD_STOP, and only schedulable actions are PENDING.                     *)

Decisions(seenStatus) ==
    IF seenStatus \in {"SUCCEEDED", "HARD_STOPPED"}
    THEN {"HARD_STOP"}
    ELSE Schedulable \cup {"HARD_STOP", "HUMAN_REVIEW"}

InitialStatus(k) ==
    CASE k = "HARD_STOP" -> "CANCELLED"
      [] k = "HUMAN_REVIEW" -> "BLOCKED"
      [] OTHER -> "PENDING"

\* loadDecisionContext and findActionByKey, no row for the key yet.
LoadDecision(h, a) ==
    /\ apc[h] = "idle" /\ status[a] = "NONE"
    /\ apc' = [apc EXCEPT ![h] = "decide"]
    /\ aat' = [aat EXCEPT ![h] = a]
    /\ aseen' = [aseen EXCEPT ![h] = payStatus[PaymentOf[a]]]
    /\ UNCHANGED <<payVars, rowVars, outcome, queueVars, execVars, ghostVars>>

EndRequest(h) ==
    /\ apc' = [apc EXCEPT ![h] = "idle"]
    /\ aat' = [aat EXCEPT ![h] = NoAction]
    /\ aseen' = [aseen EXCEPT ![h] = "FAILED"]

\* Mutant: what is queued already is not cancelled.
CancelledBy_PendingOnly(a, k) ==
    IF k # "HARD_STOP" THEN {}
    ELSE {b \in Action \ {a} : PaymentOf[b] = PaymentOf[a] /\ status[b] = "PENDING"}

\* Everything a HARD_STOP decision cancels: the payment's other actions that
\* no executor has claimed.
CancelledBy(a, k) ==
    IF k # "HARD_STOP" THEN {}
    ELSE {b \in Action \ {a} : /\ PaymentOf[b] = PaymentOf[a]
                               /\ status[b] \in {"PENDING", "SCHEDULED"}}

\* persistDecision: one transaction creating the row, cancelling, and moving
\* the payment.
PersistDecision(h) ==
    LET a == aat[h]
        p == PaymentOf[a]
    IN  /\ apc[h] = "decide" /\ status[a] = "NONE"
        /\ \E k \in Decisions(aseen[h]) :
            /\ status' = [b \in Action |-> IF b = a THEN InitialStatus(k)
                                           ELSE IF b \in CancelledBy(a, k) THEN "CANCELLED"
                                           ELSE status[b]]
            /\ stale' = [b \in Action |-> b \notin CancelledBy(a, k) \cup {a} /\ stale[b]]
            /\ kind' = [kind EXCEPT ![a] = k]
            /\ \E c \in IF k \in Schedulable THEN Ceilings ELSE {0} :
                 ceiling' = [ceiling EXCEPT ![a] = c]
            /\ \/ k = "HARD_STOP" /\ WritePayment(p, "HARD_STOPPED", "HARD_STOPPED", 0)
               \/ k = "HUMAN_REVIEW" /\ WritePayment(p, payStatus[p], "HUMAN_REVIEW", 0)
               \/ k \in Schedulable /\ UNCHANGED payVars
        /\ EndRequest(h)
        /\ UNCHANGED <<outcome, queueVars, execVars, ghostVars>>

\* The unique idempotency key was taken by a concurrent decide: P2002.
DecisionDuplicate(h) ==
    /\ apc[h] = "decide" /\ status[aat[h]] # "NONE"
    /\ EndRequest(h)
    /\ UNCHANGED <<payVars, rowVars, outcome, queueVars, execVars, ghostVars>>

-----------------------------------------------------------------------------
(* POST /enqueue: load, queue.add, markScheduled.                          *)

Busy(a) == \E e \in Executor : pc[e] # "idle" /\ at[e] = a
Enqueuing(a) == \E h \in Api : apc[h] \in {"add", "mark"} /\ aat[h] = a

LoadForEnqueue(h, a) ==
    /\ apc[h] = "idle" /\ status[a] = "PENDING" /\ kind[a] \in Schedulable
    /\ EnqueueRaces \/ ~Busy(a)
    /\ apc' = [apc EXCEPT ![h] = "add"]
    /\ aat' = [aat EXCEPT ![h] = a]
    /\ UNCHANGED <<aseen, payVars, rowVars, outcome, queueVars, execVars, ghostVars>>

\* queue.add with jobId = action id: a job that exists in any state is kept.
QueueAdd(h) ==
    LET a == aat[h]
    IN  /\ apc[h] = "add"
        /\ job' = [job EXCEPT ![a] = IF @ = "none" THEN "waiting" ELSE @]
        /\ apc' = [apc EXCEPT ![h] = "mark"]
        /\ UNCHANGED <<aat, aseen, holder, faults, stalls, payVars, rowVars, outcome,
                       execVars, ghostVars>>

\* An update by id alone: whatever the row has become since it was loaded.
MarkScheduled(h) ==
    LET a == aat[h]
    IN  /\ apc[h] = "mark"
        /\ WriteRow(a, "SCHEDULED")
        /\ WritePayment(PaymentOf[a], payStatus[PaymentOf[a]], "SCHEDULED", 0)
        /\ EndRequest(h)
        /\ UNCHANGED <<outcome, queueVars, execVars, ghostVars>>

\* The request dies or its next call fails; what it did so far stays.
RequestFails(h) ==
    /\ apc[h] # "idle" /\ mishaps < MaxMishaps
    /\ mishaps' = mishaps + 1
    /\ EndRequest(h)
    /\ UNCHANGED <<payVars, rowVars, outcome, queueVars, execVars, effects, lost>>

-----------------------------------------------------------------------------
(* Delivery.  BullMQ (external, modelled from createRecoveryQueue,          *)
(* createRecoveryWorker and enqueueRecoveryJob) hands each waiting job to a *)
(* free worker slot, and a job whose worker stopped renewing its lock to    *)
(* another, at most MaxStalled times.  Delays only postpone a delivery.     *)

Begin(e, a) ==
    /\ pc[e] = "idle"
    /\ EnqueueRaces \/ ~Enqueuing(a)
    /\ pc' = [pc EXCEPT ![e] = "load"]
    /\ at' = [at EXCEPT ![e] = a]
    /\ UNCHANGED <<seen, verdict>>

Deliver(w, a) ==
    /\ job[a] = "waiting"
    /\ Begin(w, a)
    /\ job' = [job EXCEPT ![a] = "active"]
    /\ holder' = [holder EXCEPT ![a] = w]
    /\ UNCHANGED <<faults, stalls, payVars, rowVars, outcome, apiVars, ghostVars>>

\* executeDemoActions: the listed rows are open and schedulable when read.
StartDemo(d, a) ==
    /\ status[a] \in {"PENDING", "SCHEDULED"} /\ kind[a] \in Schedulable
    /\ Begin(d, a)
    /\ UNCHANGED <<queueVars, payVars, rowVars, outcome, apiVars, ghostVars>>

\* Mutant: no maxStalledCount.
Stall_Unbounded(a) ==
    /\ job[a] = "active" /\ (LockLoss \/ at[holder[a]] # a)
    /\ stalls' = [stalls EXCEPT ![a] = @ + 1]
    /\ job' = [job EXCEPT ![a] = "waiting"]
    /\ holder' = [holder EXCEPT ![a] = NoWorker]
    /\ UNCHANGED <<faults, payVars, rowVars, outcome, execVars, apiVars, ghostVars>>

Stall(a) ==
    /\ job[a] = "active" /\ (LockLoss \/ at[holder[a]] # a)
    /\ stalls' = [stalls EXCEPT ![a] = @ + 1]
    /\ job' = [job EXCEPT ![a] = IF stalls[a] < MaxStalled THEN "waiting" ELSE "failed"]
    /\ holder' = [holder EXCEPT ![a] = NoWorker]
    /\ UNCHANGED <<faults, payVars, rowVars, outcome, execVars, apiVars, ghostVars>>

-----------------------------------------------------------------------------
(* Leaving executeRecoveryAction.  A worker whose lock was handed over      *)
(* cannot move the job any more; a demo executor has no job.                *)

HoldsLock(e) == at[e] # NoAction /\ job[at[e]] = "active" /\ holder[at[e]] = e

MoveJob(e, s) ==
    IF HoldsLock(e)
    THEN /\ job' = [job EXCEPT ![at[e]] = s]
         /\ holder' = [holder EXCEPT ![at[e]] = NoWorker]
    ELSE UNCHANGED <<job, holder>>

Goto(e, l) == pc' = [pc EXCEPT ![e] = l]

EndExecution(e) ==
    /\ pc' = [pc EXCEPT ![e] = "idle"]
    /\ at' = [at EXCEPT ![e] = NoAction]
    /\ seen' = [seen EXCEPT ![e] = 0]
    /\ verdict' = [verdict EXCEPT ![e] = "none"]

\* An effect whose outcome this execution will not write any more.
LoseEffect(e) ==
    lost' = IF pc[e] = "settle" THEN [lost EXCEPT ![at[e]] = @ + 1] ELSE lost

\* The processor threw: BullMQ retries until InfraAttempts runs have thrown.
Throw(e) ==
    /\ IF HoldsLock(e)
       THEN faults' = [faults EXCEPT ![at[e]] = @ + 1]
       ELSE UNCHANGED faults
    /\ MoveJob(e, IF at[e] # NoAction /\ faults[at[e]] + 1 < InfraAttempts
                  THEN "waiting" ELSE "failed")
    /\ LoseEffect(e)
    /\ EndExecution(e)
    /\ UNCHANGED <<stalls, payVars, rowVars, outcome, apiVars, effects>>

\* Any awaited call can fail, also after its write was committed: the fault
\* then strikes at the next location.
InfraFault(e) ==
    /\ pc[e] # "idle" /\ mishaps < MaxMishaps
    /\ mishaps' = mishaps + 1
    /\ Throw(e)

\* The process dies: the job stays active until it is found stalled.
Crash(e) ==
    /\ pc[e] # "idle" /\ mishaps < MaxMishaps
    /\ mishaps' = mishaps + 1
    /\ LoseEffect(e)
    /\ EndExecution(e)
    /\ UNCHANGED <<queueVars, payVars, rowVars, outcome, apiVars, effects>>

\* The result is returned; the job completes.
Finish(e) ==
    /\ pc[e] = "finish"
    /\ MoveJob(e, "completed")
    /\ EndExecution(e)
    /\ UNCHANGED <<faults, stalls, payVars, rowVars, outcome, apiVars, ghostVars>>

\* Mutant: a circuit-blocked job completes instead of being delayed.
MoveToDelayed_Completes(e) ==
    /\ pc[e] = "delay"
    /\ MoveJob(e, "completed")
    /\ EndExecution(e)
    /\ UNCHANGED <<faults, stalls, payVars, rowVars, outcome, apiVars, ghostVars>>

\* CIRCUIT_BLOCKED: the same job goes back with a delay (DelayedError).
MoveToDelayed(e) ==
    /\ pc[e] = "delay"
    /\ MoveJob(e, "waiting")
    /\ EndExecution(e)
    /\ UNCHANGED <<faults, stalls, payVars, rowVars, outcome, apiVars, ghostVars>>

-----------------------------------------------------------------------------
(* executeRecoveryAction.                                                  *)

\* Of the refused statuses CANCELLED, BLOCKED and FAILED, FAILED is never written.
\* Mutant: attemptCount > maxAttempts.
SafetyBlock_OffByOne(a) ==
    LET p == PaymentOf[a]
    IN  IF status[a] = "CANCELLED" THEN "cancelled"
        ELSE IF status[a] = "BLOCKED" \/ kind[a] \notin Schedulable THEN "blocked"
        ELSE IF payStatus[p] \in {"SUCCEEDED", "HARD_STOPPED"} THEN "resolved"
        ELSE IF attempts[p] > ceiling[a] THEN "limit"
        ELSE "none"

SafetyBlock(a) ==
    LET p == PaymentOf[a]
    IN  IF status[a] = "CANCELLED" THEN "cancelled"
        ELSE IF status[a] = "BLOCKED" \/ kind[a] \notin Schedulable THEN "blocked"
        ELSE IF payStatus[p] \in {"SUCCEEDED", "HARD_STOPPED"} THEN "resolved"
        ELSE IF attempts[p] >= ceiling[a] THEN "limit"
        ELSE "none"

\* What it returns of an action: its row, its payment's, and whether it has an outcome.
ExecutionContext(a) ==
    [status |-> status[a], attemptCount |-> attempts[PaymentOf[a]],
     outcomeExists |-> outcome[a] # "NONE"]

LoadExecutionContext(e) ==
    LET a == at[e]
        ctx == ExecutionContext(a)
        duplicate == ctx.status = "EXECUTED" \/ ctx.outcomeExists
        block == SafetyBlock(a)
    IN  /\ pc[e] = "load"
        /\ Goto(e, IF duplicate THEN "finish" ELSE IF block # "none" THEN "block" ELSE "claim")
        /\ verdict' = [verdict EXCEPT ![e] = IF duplicate THEN "none" ELSE block]
        /\ seen' = [seen EXCEPT ![e] = IF duplicate \/ block # "none" THEN 0
                                       ELSE ctx.attemptCount]
        /\ UNCHANGED <<at, payVars, rowVars, outcome, queueVars, apiVars, ghostVars>>

\* The refusal is recorded as an outcome, without claiming the action.
PersistBlocked(e) ==
    LET a == at[e]
        p == PaymentOf[a]
    IN  /\ pc[e] = "block" /\ outcome[a] = "NONE"
        /\ outcome' = [outcome EXCEPT ![a] =
               IF verdict[e] \in {"cancelled", "resolved"} THEN "CANCELLED" ELSE "BLOCKED"]
        /\ WriteRow(a, IF verdict[e] \in {"cancelled", "resolved"} THEN "CANCELLED"
                       ELSE "BLOCKED")
        /\ IF verdict[e] = "limit"
           THEN WritePayment(p, "EXHAUSTED", "EXHAUSTED", 0)
           ELSE UNCHANGED payVars
        /\ Goto(e, "finish")
        /\ verdict' = [verdict EXCEPT ![e] = "none"]
        /\ UNCHANGED <<at, seen, queueVars, apiVars, ghostVars>>

Claimable(a) ==
    \/ status[a] \in {"PENDING", "SCHEDULED"}
    \/ status[a] = "EXECUTING" /\ stale[a]

ClaimIf(e, claimable) ==
    LET a == at[e]
    IN  /\ pc[e] = "claim"
        /\ IF claimable
           THEN /\ WriteRow(a, "EXECUTING")
                /\ Goto(e, IF kind[a] = "MESSAGE" THEN "send" ELSE "permit")
           ELSE /\ UNCHANGED rowVars
                /\ Goto(e, "finish")
        /\ UNCHANGED <<at, seen, verdict, payVars, outcome, queueVars, apiVars, ghostVars>>

\* Mutant: the stale clause forgets to look at updatedAt.
ClaimForExecution_NoAge(e) ==
    ClaimIf(e, status[at[e]] \in {"PENDING", "SCHEDULED", "EXECUTING"})

\* Mutant: an update by id instead of a compare-and-set.
ClaimForExecution_Blind(e) == ClaimIf(e, TRUE)

\* claimForExecution: one UPDATE ... WHERE; the loser is a DUPLICATE.
ClaimForExecution(e) == ClaimIf(e, Claimable(at[e]))

Effect(e, v) ==
    /\ effects' = [effects EXCEPT ![at[e]] = @ + 1]
    /\ verdict' = [verdict EXCEPT ![e] = v]
    /\ Goto(e, "settle")

SendMessage(e) ==
    /\ pc[e] = "send"
    /\ Effect(e, "sent")
    /\ UNCHANGED <<at, seen, payVars, rowVars, outcome, queueVars, apiVars, lost, mishaps>>

BreakerAllows(e) ==
    /\ pc[e] = "permit"
    /\ Goto(e, "charge")
    /\ UNCHANGED <<at, seen, verdict, payVars, rowVars, outcome, queueVars, apiVars, ghostVars>>

BreakerBlocks(e) ==
    /\ pc[e] = "permit"
    /\ Goto(e, "hold")
    /\ UNCHANGED <<at, seen, verdict, payVars, rowVars, outcome, queueVars, apiVars, ghostVars>>

\* gateway.charge answered; the breaker is told, which nothing here observes.
ChargeAnswered(e) ==
    /\ pc[e] = "charge"
    /\ \E v \in {"captured", "declined"} : Effect(e, v)
    /\ UNCHANGED <<at, seen, payVars, rowVars, outcome, queueVars, apiVars, lost, mishaps>>

\* A 5xx: no attempt is consumed and no outcome written.
GatewayFailure(e) ==
    /\ pc[e] = "charge"
    /\ Goto(e, "hold")
    /\ UNCHANGED <<at, seen, verdict, payVars, rowVars, outcome, queueVars, apiVars, ghostVars>>

\* liveReschedule, an update by id alone.
Reschedule(e) ==
    /\ pc[e] = "hold"
    /\ WriteRow(at[e], "SCHEDULED")
    /\ Goto(e, "delay")
    /\ UNCHANGED <<at, seen, verdict, payVars, outcome, queueVars, apiVars, ghostVars>>

\* Mutant: the last attempt under the ceiling is reported as still retrying.
ChargedPayment_OffByOne(e, newAttempts) ==
    LET p == PaymentOf[at[e]]
    IN  \/ /\ verdict[e] = "captured"
           /\ WritePayment(p, "SUCCEEDED", "RECOVERED", newAttempts)
        \/ /\ verdict[e] = "declined"
           /\ WritePayment(p, "RECOVERING", "RETRYING", newAttempts)
        \/ verdict[e] = "sent" /\ UNCHANGED payVars

ChargedPayment(e, newAttempts) ==
    LET p == PaymentOf[at[e]]
    IN  \/ /\ verdict[e] = "captured"
           /\ WritePayment(p, "SUCCEEDED", "RECOVERED", newAttempts)
        \/ /\ verdict[e] = "declined" /\ seen[e] + 1 >= ceiling[at[e]]
           /\ WritePayment(p, "EXHAUSTED", "EXHAUSTED", newAttempts)
        \/ /\ verdict[e] = "declined" /\ seen[e] + 1 < ceiling[at[e]]
           /\ WritePayment(p, "RECOVERING", "RETRYING", newAttempts)
        \/ verdict[e] = "sent" /\ UNCHANGED payVars

Settle(e, newAttempts) ==
    LET a == at[e]
    IN  /\ pc[e] = "settle" /\ outcome[a] = "NONE"
        /\ outcome' = [outcome EXCEPT ![a] = IF verdict[e] = "declined" THEN "FAILED" ELSE "SUCCESS"]
        /\ WriteRow(a, "EXECUTED")
        /\ ChargedPayment(e, newAttempts)
        /\ Goto(e, "finish")
        /\ verdict' = [verdict EXCEPT ![e] = "none"]
        /\ UNCHANGED <<at, seen, queueVars, apiVars, ghostVars>>

\* Mutant: attemptCount is written from the value the executor loaded.
PersistOutcome_Snapshot(e) == Settle(e, seen[e] + 1 - attempts[PaymentOf[at[e]]])

\* persistOutcome after an effect: outcome, row and payment in one transaction.
PersistOutcome(e) == Settle(e, 1)

\* The unique actionId of RecoveryOutcome is taken: P2002, thrown as an
\* infrastructure error.
DuplicateOutcome(e) ==
    /\ pc[e] \in {"block", "settle"} /\ outcome[at[e]] # "NONE"
    /\ UNCHANGED mishaps
    /\ Throw(e)

-----------------------------------------------------------------------------
(* Time.  STALE_EXECUTION_MS passes over an EXECUTING row.                  *)

Holding == {"send", "permit", "charge", "settle", "hold"}
Holds(e, a) == at[e] = a /\ pc[e] \in Holding

AgeExecution(a) ==
    /\ status[a] = "EXECUTING" /\ ~stale[a]
    /\ \/ Reclaim = "any"
       \/ Reclaim = "dead" /\ \A e \in Executor : ~Holds(e, a)
    /\ stale' = [stale EXCEPT ![a] = TRUE]
    /\ UNCHANGED <<status, kind, ceiling, payVars, outcome, queueVars, execVars, apiVars,
                   ghostVars>>

-----------------------------------------------------------------------------
\* Payments have one failure, ingested and classified.
Init ==
    /\ payStatus = [p \in Payment |-> "FAILED"]
    /\ recStatus = [p \in Payment |-> "CLASSIFIED"]
    /\ attempts = [p \in Payment |-> 1]
    /\ status = [a \in Action |-> "NONE"]
    /\ kind = [a \in Action |-> "NONE"]
    /\ ceiling = [a \in Action |-> 0]
    /\ stale = [a \in Action |-> FALSE]
    /\ outcome = [a \in Action |-> "NONE"]
    /\ job = [a \in Action |-> "none"]
    /\ holder = [a \in Action |-> NoWorker]
    /\ faults = [a \in Action |-> 0]
    /\ stalls = [a \in Action |-> 0]
    /\ pc = [e \in Executor |-> "idle"]
    /\ at = [e \in Executor |-> NoAction]
    /\ seen = [e \in Executor |-> 0]
    /\ verdict = [e \in Executor |-> "none"]
    /\ apc = [h \in Api |-> "idle"]
    /\ aat = [h \in Api |-> NoAction]
    /\ aseen = [h \in Api |-> "FAILED"]
    /\ effects = [a \in Action |-> 0]
    /\ lost = [a \in Action |-> 0]
    /\ mishaps = 0

Request(h) ==
    \/ \E a \in Action : LoadDecision(h, a) \/ LoadForEnqueue(h, a)
    \/ PersistDecision(h)
    \/ DecisionDuplicate(h)
    \/ QueueAdd(h)
    \/ MarkScheduled(h)
    \/ RequestFails(h)

\* The steps an execution takes by itself.
Execute(e) ==
    \/ LoadExecutionContext(e)
    \/ PersistBlocked(e)
    \/ ClaimForExecution(e)
    \/ SendMessage(e)
    \/ BreakerAllows(e)
    \/ BreakerBlocks(e)
    \/ ChargeAnswered(e)
    \/ GatewayFailure(e)
    \/ Reschedule(e)
    \/ PersistOutcome(e)
    \/ DuplicateOutcome(e)
    \/ MoveToDelayed(e)
    \/ Finish(e)

Next ==
    \/ \E h \in Api : Request(h)
    \/ \E w \in Worker, a \in Action : Deliver(w, a)
    \/ \E d \in Demo, a \in Action : StartDemo(d, a)
    \/ \E e \in Executor : Execute(e) \/ InfraFault(e) \/ Crash(e)
    \/ \E a \in Action : Stall(a) \/ AgeExecution(a)

Spec == Init /\ [][Next]_vars

\* The code's scheduling: requests and executions that do not fail go on, a due
\* job gets its turn at a free slot (the queue is served in order), BullMQ finds
\* stalled jobs and time passes.  That the
\* breaker lets a caller through and the gateway answers again and again is
\* the environment's: no code can promise it.
Fairness ==
    /\ \A h \in Api : WF_vars(QueueAdd(h) \/ MarkScheduled(h))
    /\ \A a \in Action : /\ SF_vars(\E w \in Worker : Deliver(w, a))
                         /\ WF_vars(Stall(a))
                         /\ WF_vars(AgeExecution(a))
    /\ \A e \in Executor : /\ WF_vars(Execute(e))
                           /\ SF_vars(BreakerAllows(e))
                           /\ SF_vars(ChargeAnswered(e))

FairSpec == Spec /\ Fairness

-----------------------------------------------------------------------------
(* Properties.                                                             *)

\* claimForExecution gives an action to one executor at a time: between the
\* claim and the write that gives it up, no other executor is in there.
ExclusiveClaim ==
    \A a \in Action : \A e, f \in Executor : Holds(e, a) /\ Holds(f, a) => e = f

AboutToRecord(a) == \E e \in Executor : at[e] = a /\ pc[e] = "settle"

\* Every effect at the gateway is accounted for: it is the one the row records,
\* the one an executor is about to record, or one whose execution died before
\* recording it.  So no redelivery, retry, handover or concurrent executor
\* repeats an effect unless it was lost, and a refused action had none.
EffectsAccounted ==
    \A a \in Action :
        effects[a] = lost[a] + IF status[a] = "EXECUTED" \/ AboutToRecord(a) THEN 1 ELSE 0

ChargesRecorded(p) ==
    {a \in Action : PaymentOf[a] = p /\ kind[a] = "CHARGE" /\ outcome[a] \in {"SUCCESS", "FAILED"}}

\* attemptCount is the ingested failure plus the charges with an outcome,
\* whatever executors of one payment overlap.
AttemptAccounting ==
    \A p \in Payment : attempts[p] = 1 + Cardinality(ChargesRecorded(p))

\* A row says EXECUTED exactly while its outcome says what the gateway did.
ExecutedIffRecorded ==
    \A a \in Action : status[a] = "EXECUTED" <=> outcome[a] \in {"SUCCESS", "FAILED"}

\* Actions of one payment that pass the re-check together share one ceiling, which the
\* check reads before the charges it allows are counted (execute-service.ts 93-136): so
\* it can be passed, but by no more charges than other executors overlap the last one
\* let through, however many actions are queued.
CeilingOvershoot ==
    \A p \in Payment :
        attempts[p] > 1 => \E c \in Ceilings : attempts[p] < c + Cardinality(Executor)

\* Both statuses of the payment say what became of its only charge, however many
\* executors, refusals and requests touched the row since: recovered, retrying, or
\* exhausted once the ceiling is reached.
PaymentFollowsOutcome ==
    \A p \in Payment : \A a \in ChargesRecorded(p) :
        <<payStatus[p], recStatus[p]>> =
            IF outcome[a] = "SUCCESS" THEN <<"SUCCEEDED", "RECOVERED">>
            ELSE IF attempts[p] >= ceiling[a] THEN <<"EXHAUSTED", "EXHAUSTED">>
            ELSE <<"RECOVERING", "RETRYING">>

InHand == {a \in Action : AboutToRecord(a)}
Recorded == [a \in Action |-> IF outcome[a] = "NONE" THEN "none"
                             ELSE IF outcome[a] \in {"SUCCESS", "FAILED"} THEN "acted"
                             ELSE "refused"]

Ledger == INSTANCE ActionLedger WITH inHand <- InHand, record <- Recorded

\* The pipeline keeps the promise of the abstract ledger: effects one at a time,
\* none after a recorded one, no outcome ever rewritten.
ImplementsLedger == Ledger!Spec

\* Nothing queued is forgotten: a row that waits for its time has a job that can still
\* run, or one that is left to an operator after as many faults or stalls as BullMQ is
\* told to ride out; and a claim without its executor takes a failure.  So no refusal
\* of the breaker, 5xx, lost claim or request that dies midway drops a job
\* (queue.ts 36-46 and 142-149).
NothingForgotten ==
    \A a \in Action :
        /\ status[a] = "SCHEDULED" =>
              \/ job[a] \in {"waiting", "active"}
              \/ job[a] = "failed" /\ (faults[a] = InfraAttempts \/ stalls[a] > MaxStalled)
        /\ status[a] = "EXECUTING" => mishaps > 0 \/ \E e \in Executor : Holds(e, a)

\* A hard stop reaches every action that no executor has claimed: none is newly claimed
\* while the payment says HARD_STOPPED, whenever its executor loaded it and whatever
\* decision, enqueue or charge of another action overlaps (live-deps.ts 196-206).
StopsReachUnclaimed ==
    [][\A a \in Action : status[a] # "EXECUTING" /\ status'[a] = "EXECUTING" =>
            payStatus[PaymentOf[a]] # "HARD_STOPPED"]_vars

\* The gateway acts at most once for an action.
AtMostOneEffect == \A a \in Action : effects[a] <= 1

\* Blocked is not lost: every action handed to the queue ends with an outcome,
\* or cancelled by a hard stop.
EnqueuedSettles ==
    \A a \in Action : job[a] = "waiting" ~> outcome[a] # "NONE" \/ status[a] = "CANCELLED"

\* A claimed action does not stay EXECUTING.
ClaimsResolve == \A a \in Action : status[a] = "EXECUTING" ~> status[a] # "EXECUTING"

=============================================================================
