---------------------- MODULE RecoveryExecutionProofs ----------------------
(***************************************************************************)
(* TLAPS proofs about RecoveryExecution, for every set of payments,        *)
(* actions, executors and requests and every value of the other constants. *)
(***************************************************************************)
EXTENDS RecoveryExecution, TLAPS

-----------------------------------------------------------------------------
(* Type correctness.                                                       *)

\* Whoever is inside a handler works on an action.
Located ==
    /\ \A e \in Executor : pc[e] # "idle" => at[e] \in Action
    /\ \A h \in Api : apc[h] # "idle" => aat[h] \in Action

\* A job that can still run has not used up its throws and stalls.
JobsLive ==
    \A a \in Action : job[a] \in {"none", "waiting", "active"} =>
        faults[a] < InfraAttempts /\ stalls[a] <= MaxStalled

TInv == TypeOK /\ Located /\ JobsLive

\* The rows start with their types, nobody inside an action and no job handed out.
LEMMA TInit == Init => TInv
  BY ExecutionAssumption
  DEF Init, TInv, TypeOK, Located, JobsLive, PaymentStatus, RecoveryStatus, ActionStatus,
      ActionKind, OutcomeStatus, JobState, ExecPc, Verdict, ApiPc

\* The steps of a decide or enqueue request keep the types.
LEMMA TRequest ==
  ASSUME TInv, NEW h \in Api, Request(h)
  PROVE  TInv'
<1> USE ExecutionAssumption
    DEF TInv, TypeOK, Located, JobsLive, payVars, rowVars, queueVars, execVars, ghostVars,
        EndRequest
<1>1. ASSUME NEW a \in Action, LoadDecision(h, a)
      PROVE  TInv'
  BY <1>1 DEF LoadDecision, ApiPc
<1>2. ASSUME NEW a \in Action, LoadForEnqueue(h, a)
      PROVE  TInv'
  BY <1>2 DEF LoadForEnqueue, ApiPc
<1>3. CASE PersistDecision(h)
  <2> DEFINE a == aat[h]
  <2>1. a \in Action /\ PaymentOf[a] \in Payment
    BY <1>3 DEF PersistDecision
  <2>2. PICK k \in Decisions(aseen[h]) :
            /\ status' = [b \in Action |-> IF b = a THEN InitialStatus(k)
                                           ELSE IF b \in CancelledBy(a, k) THEN "CANCELLED"
                                           ELSE status[b]]
            /\ stale' = [b \in Action |-> b \notin CancelledBy(a, k) \cup {a} /\ stale[b]]
            /\ kind' = [kind EXCEPT ![a] = k]
            /\ \E c \in IF k \in Schedulable THEN Ceilings ELSE {0} :
                 ceiling' = [ceiling EXCEPT ![a] = c]
            /\ \/ k = "HARD_STOP" /\ WritePayment(PaymentOf[a], "HARD_STOPPED", "HARD_STOPPED", 0)
               \/ /\ k = "HUMAN_REVIEW"
                  /\ WritePayment(PaymentOf[a], payStatus[PaymentOf[a]], "HUMAN_REVIEW", 0)
               \/ k \in Schedulable /\ UNCHANGED payVars
    BY <1>3 DEF PersistDecision
  <2>3. k \in ActionKind
    BY <2>2 DEF Decisions, ActionKind, Schedulable
  <2>4. InitialStatus(k) \in ActionStatus
    BY DEF InitialStatus, ActionStatus
  <2>5. status' \in [Action -> ActionStatus] /\ kind' \in [Action -> ActionKind]
    BY <2>2, <2>3, <2>4 DEF ActionStatus
  <2>6. stale' \in [Action -> BOOLEAN]
    <3> DEFINE fresh(b) == b \notin CancelledBy(a, k) \cup {a} /\ stale[b]
    <3>1. \A b \in Action : fresh(b) \in BOOLEAN
      OBVIOUS
    <3>2. stale' = [b \in Action |-> fresh(b)]
      BY <2>2
    <3> HIDE DEF fresh
    <3>3. QED
      BY <3>1, <3>2
  <2>7. ceiling' \in [Action -> Nat]
    <3>1. PICK c \in IF k \in Schedulable THEN Ceilings ELSE {0} :
              ceiling' = [ceiling EXCEPT ![a] = c]
      BY <2>2
    <3>2. c \in Nat
      BY <3>1
    <3>3. QED
      BY <3>1, <3>2
  <2>8. /\ payStatus' \in [Payment -> PaymentStatus]
        /\ recStatus' \in [Payment -> RecoveryStatus]
        /\ attempts' \in [Payment -> Nat]
    <3>1. /\ payStatus[PaymentOf[a]] \in PaymentStatus
          /\ attempts[PaymentOf[a]] + 0 \in Nat
      BY <2>1
    <3>2. CASE k = "HARD_STOP"
      BY <2>1, <2>2, <3>1, <3>2, SMTT(30) DEF WritePayment, PaymentStatus, RecoveryStatus, Schedulable
    <3>3. CASE k = "HUMAN_REVIEW"
      BY <2>1, <2>2, <3>1, <3>3, SMTT(30) DEF WritePayment, RecoveryStatus, Schedulable
    <3>4. CASE k \in Schedulable
      BY <2>2, <3>4 DEF Schedulable
    <3>5. QED
      BY <2>2, <3>2, <3>3, <3>4
  <2>9. QED
    BY <1>3, <2>5, <2>6, <2>7, <2>8 DEF PersistDecision, ApiPc, PaymentStatus
<1>4. CASE DecisionDuplicate(h)
  BY <1>4 DEF DecisionDuplicate, ApiPc, PaymentStatus
<1>5. CASE QueueAdd(h)
  BY <1>5 DEF QueueAdd, ApiPc, JobState
<1>6. CASE MarkScheduled(h)
  BY <1>6 DEF MarkScheduled, WriteRow, WritePayment, ApiPc, ActionStatus, PaymentStatus,
     RecoveryStatus
<1>7. CASE RequestFails(h)
  BY <1>7 DEF RequestFails, ApiPc, PaymentStatus
<1> QED
  BY <1>1, <1>2, <1>3, <1>4, <1>5, <1>6, <1>7 DEF Request

\* So do the steps an execution takes by itself; it leaves only from where it is.
LEMMA TExecute ==
  ASSUME TInv, NEW e \in Executor, Execute(e)
  PROVE  TInv'
<1> USE ExecutionAssumption
    DEF TInv, TypeOK, Located, JobsLive, payVars, rowVars, queueVars, apiVars, ghostVars,
        Goto, WriteRow, WritePayment, ExecPc, Verdict
<1>1. CASE LoadExecutionContext(e)
  <2>1. SafetyBlock(at[e]) \in Verdict
    BY DEF SafetyBlock
  <2>2. at[e] \in Action /\ attempts[PaymentOf[at[e]]] \in Nat
    BY <1>1 DEF LoadExecutionContext, ExecutionContext
  <2>3. QED
    BY <1>1, <2>1, <2>2 DEF LoadExecutionContext, ExecutionContext
<1>2. CASE PersistBlocked(e)
  BY <1>2 DEF PersistBlocked, OutcomeStatus, ActionStatus, PaymentStatus, RecoveryStatus
<1>3. CASE ClaimForExecution(e)
  BY <1>3 DEF ClaimForExecution, ClaimIf, ActionStatus
<1>4. CASE SendMessage(e)
  BY <1>4 DEF SendMessage, Effect
<1>5. CASE BreakerAllows(e)
  BY <1>5 DEF BreakerAllows
<1>6. CASE BreakerBlocks(e)
  BY <1>6 DEF BreakerBlocks
<1>7. CASE ChargeAnswered(e)
  BY <1>7 DEF ChargeAnswered, Effect
<1>8. CASE GatewayFailure(e)
  BY <1>8 DEF GatewayFailure
<1>9. CASE Reschedule(e)
  BY <1>9 DEF Reschedule, ActionStatus
<1>10. CASE PersistOutcome(e)
  <2>1. at[e] \in Action /\ PaymentOf[at[e]] \in Payment /\ attempts[PaymentOf[at[e]]] + 1 \in Nat
    BY <1>10 DEF PersistOutcome, Settle
  <2>2. /\ payStatus' \in [Payment -> PaymentStatus]
        /\ recStatus' \in [Payment -> RecoveryStatus]
        /\ attempts' \in [Payment -> Nat]
    BY <1>10, <2>1, SMTT(30) DEF PersistOutcome, Settle, ChargedPayment, PaymentStatus, RecoveryStatus
  <2>3. QED
    BY <1>10, <2>1, <2>2 DEF PersistOutcome, Settle, OutcomeStatus, ActionStatus
<1>11. CASE DuplicateOutcome(e)
  BY <1>11, SMTT(30) DEF DuplicateOutcome, Throw, HoldsLock, MoveJob, LoseEffect, EndExecution, JobState
<1>12. CASE MoveToDelayed(e)
  BY <1>12 DEF MoveToDelayed, HoldsLock, MoveJob, EndExecution, JobState
<1>13. CASE Finish(e)
  BY <1>13 DEF Finish, HoldsLock, MoveJob, EndExecution, JobState
<1> QED
  BY <1>1, <1>2, <1>3, <1>4, <1>5, <1>6, <1>7, <1>8, <1>9, <1>10, <1>11, <1>12, <1>13
     DEF Execute

\* So does a delivery, by BullMQ or by the demo.
LEMMA TBegin ==
  ASSUME TInv, NEW e \in Executor, NEW a \in Action,
         Deliver(e, a) \/ StartDemo(e, a)
  PROVE  TInv'
<1> USE ExecutionAssumption
    DEF TInv, TypeOK, Located, JobsLive, payVars, rowVars, queueVars, apiVars, ghostVars,
        Begin, ExecPc, JobState
<1>1. CASE Deliver(e, a)
  BY <1>1 DEF Deliver
<1>2. CASE StartDemo(e, a)
  BY <1>2 DEF StartDemo
<1> QED
  BY <1>1, <1>2

\* So does an execution that throws or dies.
LEMMA TFault ==
  ASSUME TInv, NEW e \in Executor, InfraFault(e) \/ Crash(e)
  PROVE  TInv'
<1> USE ExecutionAssumption
    DEF TInv, TypeOK, Located, JobsLive, payVars, rowVars, queueVars, apiVars, ghostVars,
        LoseEffect, EndExecution, ExecPc, Verdict, JobState
<1>1. CASE InfraFault(e)
  BY <1>1 DEF InfraFault, Throw, HoldsLock, MoveJob
<1>2. CASE Crash(e)
  BY <1>2 DEF Crash
<1> QED
  BY <1>1, <1>2

\* So does a stalled job, and a claim that ages.
LEMMA TTime ==
  ASSUME TInv, NEW a \in Action, Stall(a) \/ AgeExecution(a)
  PROVE  TInv'
<1> USE ExecutionAssumption
    DEF TInv, TypeOK, Located, JobsLive, payVars, rowVars, queueVars, execVars, apiVars,
        ghostVars, JobState
<1>1. CASE Stall(a)
  BY <1>1 DEF Stall
<1>2. CASE AgeExecution(a)
  BY <1>2 DEF AgeExecution
<1> QED
  BY <1>1, <1>2

\* TInv is inductive.
LEMMA TStep == TInv /\ [Next]_vars => TInv'
<1> SUFFICES ASSUME TInv, [Next]_vars PROVE TInv'
  OBVIOUS
<1>1. CASE Next
  BY <1>1, TRequest, TExecute, TBegin, TFault, TTime DEF Next, Executor
<1>2. CASE UNCHANGED vars
  BY <1>2 DEF vars, payVars, rowVars, queueVars, execVars, apiVars, ghostVars, TInv, TypeOK,
     Located, JobsLive
<1> QED
  BY <1>1, <1>2

\* The types, executor locations and live jobs of every reachable state.
LEMMA TAlways == Spec => []TInv
<1>1. QED
  BY TInit, TStep, PTL DEF Spec

\* Every reachable row, job and handler has its type, whatever the instance.
THEOREM TypeCorrect == Spec => []TypeOK
<1>1. TInv => TypeOK
  BY DEF TInv
<1>2. QED
  BY TAlways, <1>1, PTL

-----------------------------------------------------------------------------
(* Exclusive claims and the ledger of effects.                             *)

\* No row is reclaimed under a live executor, and no executor runs while the
\* action's enqueue is unfinished.
Timely == Reclaim # "any" /\ ~EnqueueRaces

EnqueueApart ==
    \A a \in Action : Enqueuing(a) =>
        ~Busy(a) /\ status[a] \in {"PENDING", "SCHEDULED", "CANCELLED"}

\* A holder's row is not up for another claim: a refusal may have overwritten
\* EXECUTING, but nothing makes the row open or stale again.
HeldRow ==
    \A e \in Executor, a \in Action : Holds(e, a) =>
        status[a] \in {"EXECUTING", "CANCELLED", "BLOCKED"} /\ ~stale[a]

SInv == TInv /\ EnqueueApart /\ HeldRow /\ ExclusiveClaim /\ ExecutedIffRecorded /\ EffectsAccounted

\* The safety invariant holds before any request.
LEMMA SInit == Init => SInv
  BY TInit, ExecutionAssumption
  DEF SInv, EnqueueApart, HeldRow, ExclusiveClaim, ExecutedIffRecorded, EffectsAccounted,
      Enqueuing, Busy, Holds, Holding, AboutToRecord, Init

\* Requests keep it: a decision creates or cancels rows nobody holds, and an enqueue
\* finds nobody inside.
LEMMA SRequest ==
  ASSUME Timely, SInv, TInv', NEW h \in Api, Request(h)
  PROVE  SInv'
<1> USE DEF SInv, TInv, TypeOK, Located, EnqueueApart, HeldRow, ExclusiveClaim,
        ExecutedIffRecorded, EffectsAccounted, Enqueuing, Busy, Holds, Holding, AboutToRecord,
        payVars, rowVars, queueVars, execVars, ghostVars, EndRequest
<1>1. ASSUME NEW a \in Action, LoadDecision(h, a)
      PROVE  SInv'
  BY <1>1 DEF LoadDecision
<1>2. ASSUME NEW a \in Action, LoadForEnqueue(h, a)
      PROVE  SInv'
  BY <1>2 DEF LoadForEnqueue, Timely
<1>3. CASE PersistDecision(h)
  BY <1>3 DEF PersistDecision, CancelledBy, InitialStatus
<1>4. CASE DecisionDuplicate(h)
  BY <1>4 DEF DecisionDuplicate
<1>5. CASE QueueAdd(h)
  BY <1>5 DEF QueueAdd
<1>6. CASE MarkScheduled(h)
  <2>1. EnqueueApart'
    BY <1>6 DEF MarkScheduled, WriteRow
  <2>2. HeldRow'
    BY <1>6 DEF MarkScheduled, WriteRow
  <2>3. ExclusiveClaim'
    BY <1>6 DEF MarkScheduled, WriteRow
  <2>4. ExecutedIffRecorded'
    BY <1>6 DEF MarkScheduled, WriteRow
  <2>5. EffectsAccounted'
    <3>1. ASSUME NEW b \in Action
          PROVE  AboutToRecord(b)' <=> AboutToRecord(b)
      BY <1>6 DEF MarkScheduled, WriteRow
    <3>2. ASSUME NEW b \in Action
          PROVE  (status[b] = "EXECUTED")' <=> status[b] = "EXECUTED"
      BY <1>6 DEF MarkScheduled, WriteRow
    <3> HIDE DEF AboutToRecord
    <3>3. QED
      BY <1>6, <3>1, <3>2 DEF MarkScheduled
  <2>6. QED
    BY <2>1, <2>2, <2>3, <2>4, <2>5 DEF SInv
<1>7. CASE RequestFails(h)
  BY <1>7 DEF RequestFails
<1> QED
  BY <1>1, <1>2, <1>3, <1>4, <1>5, <1>6, <1>7 DEF Request

\* The heart of the proof: an execution keeps it, one step at a time.
LEMMA SExecute ==
  ASSUME Timely, SInv, TInv', NEW e \in Executor, Execute(e)
  PROVE  SInv'
<1> USE DEF SInv, TInv, TypeOK, Located, EnqueueApart, HeldRow, ExclusiveClaim,
        ExecutedIffRecorded, EffectsAccounted, Enqueuing, Busy, Holds, Holding, AboutToRecord,
        payVars, rowVars, queueVars, apiVars, ghostVars, Goto, WriteRow
<1>1. CASE LoadExecutionContext(e)
  BY <1>1 DEF LoadExecutionContext, ExecutionContext
<1>2. CASE PersistBlocked(e)
  <2>1. EnqueueApart'
    BY <1>2 DEF PersistBlocked
  <2>2. HeldRow'
    BY <1>2 DEF PersistBlocked
  <2>3. ExclusiveClaim'
    BY <1>2 DEF PersistBlocked
  <2>4. ExecutedIffRecorded'
    BY <1>2 DEF PersistBlocked
  <2>5. EffectsAccounted'
    BY <1>2 DEF PersistBlocked
  <2>6. QED
    BY <2>1, <2>2, <2>3, <2>4, <2>5 DEF SInv
<1>3. CASE ClaimForExecution(e)
  <2>1. EnqueueApart'
    BY <1>3 DEF ClaimForExecution, ClaimIf, Claimable
  <2>2. HeldRow'
    BY <1>3 DEF ClaimForExecution, ClaimIf, Claimable
  <2>3. ExclusiveClaim'
    <3>1. Claimable(at[e]) => \A f \in Executor : ~Holds(f, at[e])
      BY <1>3 DEF ClaimForExecution, ClaimIf, Claimable
    <3>2. ASSUME NEW f \in Executor, NEW b \in Action, Holds(f, b)', f # e
          PROVE  Holds(f, b)
      BY <1>3, <3>2 DEF ClaimForExecution, ClaimIf
    <3>3. ASSUME NEW b \in Action, Holds(e, b)'
          PROVE  b = at[e] /\ Claimable(at[e])
      BY <1>3, <3>3 DEF ClaimForExecution, ClaimIf
    <3> HIDE DEF Holds, Claimable
    <3>4. SUFFICES ASSUME NEW b \in Action, NEW f \in Executor, NEW g \in Executor,
                          Holds(f, b)', Holds(g, b)'
                   PROVE  f = g
      BY DEF ExclusiveClaim
    <3>5. QED
      BY <3>1, <3>2, <3>3, <3>4, SMTT(30)
  <2>4. ExecutedIffRecorded'
    BY <1>3 DEF ClaimForExecution, ClaimIf, Claimable
  <2>5. EffectsAccounted'
    BY <1>3 DEF ClaimForExecution, ClaimIf, Claimable
  <2>6. QED
    BY <2>1, <2>2, <2>3, <2>4, <2>5 DEF SInv
<1>4. CASE SendMessage(e)
  <2>1. EnqueueApart'
    BY <1>4 DEF SendMessage, Effect
  <2>2. HeldRow'
    BY <1>4 DEF SendMessage, Effect
  <2>3. ExclusiveClaim'
    BY <1>4 DEF SendMessage, Effect
  <2>4. ExecutedIffRecorded'
    BY <1>4 DEF SendMessage, Effect
  <2>5. EffectsAccounted'
    <3>1. ASSUME NEW b \in Action
          PROVE  AboutToRecord(b)' <=> AboutToRecord(b) \/ b = at[e]
      BY <1>4 DEF SendMessage, Effect
    <3>2. ASSUME NEW b \in Action
          PROVE  (status[b] = "EXECUTED")' <=> status[b] = "EXECUTED"
      BY <1>4 DEF SendMessage, Effect
    <3>3. at[e] \in Action /\ ~AboutToRecord(at[e]) /\ status[at[e]] # "EXECUTED"
      <4>1. at[e] \in Action /\ pc[e] # "settle" /\ Holds(e, at[e])
        BY <1>4 DEF SendMessage
      <4>2. status[at[e]] # "EXECUTED"
        BY <4>1
      <4>3. \A f \in Executor : Holds(f, at[e]) => f = e
        BY <4>1 DEF ExclusiveClaim
      <4>4. QED
        BY <4>1, <4>2, <4>3
    <3> HIDE DEF AboutToRecord
    <3>4. QED
      BY <1>4, <3>1, <3>2, <3>3 DEF SendMessage, Effect
  <2>6. QED
    BY <2>1, <2>2, <2>3, <2>4, <2>5 DEF SInv
<1>5. CASE BreakerAllows(e)
  BY <1>5 DEF BreakerAllows
<1>6. CASE BreakerBlocks(e)
  BY <1>6 DEF BreakerBlocks
<1>7. CASE ChargeAnswered(e)
  <2>1. EnqueueApart'
    BY <1>7 DEF ChargeAnswered, Effect
  <2>2. HeldRow'
    BY <1>7 DEF ChargeAnswered, Effect
  <2>3. ExclusiveClaim'
    BY <1>7 DEF ChargeAnswered, Effect
  <2>4. ExecutedIffRecorded'
    BY <1>7 DEF ChargeAnswered, Effect
  <2>5. EffectsAccounted'
    <3>1. ASSUME NEW b \in Action
          PROVE  AboutToRecord(b)' <=> AboutToRecord(b) \/ b = at[e]
      BY <1>7 DEF ChargeAnswered, Effect
    <3>2. ASSUME NEW b \in Action
          PROVE  (status[b] = "EXECUTED")' <=> status[b] = "EXECUTED"
      BY <1>7 DEF ChargeAnswered, Effect
    <3>3. at[e] \in Action /\ ~AboutToRecord(at[e]) /\ status[at[e]] # "EXECUTED"
      <4>1. at[e] \in Action /\ pc[e] # "settle" /\ Holds(e, at[e])
        BY <1>7 DEF ChargeAnswered
      <4>2. status[at[e]] # "EXECUTED"
        BY <4>1
      <4>3. \A f \in Executor : Holds(f, at[e]) => f = e
        BY <4>1 DEF ExclusiveClaim
      <4>4. QED
        BY <4>1, <4>2, <4>3
    <3> HIDE DEF AboutToRecord
    <3>4. QED
      BY <1>7, <3>1, <3>2, <3>3 DEF ChargeAnswered, Effect
  <2>6. QED
    BY <2>1, <2>2, <2>3, <2>4, <2>5 DEF SInv
<1>8. CASE GatewayFailure(e)
  BY <1>8 DEF GatewayFailure
<1>9. CASE Reschedule(e)
  <2>1. EnqueueApart'
    BY <1>9 DEF Reschedule
  <2>2. HeldRow'
    BY <1>9 DEF Reschedule
  <2>3. ExclusiveClaim'
    BY <1>9 DEF Reschedule
  <2>4. ExecutedIffRecorded'
    BY <1>9, ZenonT(30) DEF Reschedule
  <2>5. EffectsAccounted'
    <3>1. ASSUME NEW b \in Action
          PROVE  AboutToRecord(b)' <=> AboutToRecord(b)
      BY <1>9 DEF Reschedule
    <3>2. ASSUME NEW b \in Action
          PROVE  (status[b] = "EXECUTED")' <=> status[b] = "EXECUTED"
      BY <1>9 DEF Reschedule
    <3> HIDE DEF AboutToRecord
    <3>3. QED
      BY <1>9, <3>1, <3>2 DEF Reschedule
  <2>6. QED
    BY <2>1, <2>2, <2>3, <2>4, <2>5 DEF SInv
<1>10. CASE PersistOutcome(e)
  <2>1. EnqueueApart'
    BY <1>10 DEF PersistOutcome, Settle
  <2>2. HeldRow'
    BY <1>10 DEF PersistOutcome, Settle
  <2>3. ExclusiveClaim'
    BY <1>10 DEF PersistOutcome, Settle
  <2>4. ExecutedIffRecorded'
    BY <1>10 DEF PersistOutcome, Settle
  <2>5. EffectsAccounted'
    BY <1>10 DEF PersistOutcome, Settle
  <2>6. QED
    BY <2>1, <2>2, <2>3, <2>4, <2>5 DEF SInv
<1>11. CASE DuplicateOutcome(e)
  <2>1. EnqueueApart'
    BY <1>11 DEF DuplicateOutcome, Throw, LoseEffect, EndExecution
  <2>2. HeldRow'
    BY <1>11 DEF DuplicateOutcome, Throw, LoseEffect, EndExecution
  <2>3. ExclusiveClaim'
    BY <1>11 DEF DuplicateOutcome, Throw, LoseEffect, EndExecution
  <2>4. ExecutedIffRecorded'
    BY <1>11 DEF DuplicateOutcome, Throw, LoseEffect, EndExecution
  <2>5. EffectsAccounted'
    <3>1. ASSUME NEW b \in Action
          PROVE  AboutToRecord(b)' <=> AboutToRecord(b) /\ ~(b = at[e] /\ pc[e] = "settle")
      BY <1>11 DEF DuplicateOutcome, Throw, LoseEffect, EndExecution
    <3>2. ASSUME NEW b \in Action
          PROVE  (status[b] = "EXECUTED")' <=> status[b] = "EXECUTED"
      BY <1>11 DEF DuplicateOutcome, Throw, LoseEffect, EndExecution
    <3>3. pc[e] = "settle" =>
              at[e] \in Action /\ AboutToRecord(at[e]) /\ status[at[e]] # "EXECUTED"
      OBVIOUS
    <3> HIDE DEF AboutToRecord
    <3>4. QED
      BY <1>11, <3>1, <3>2, <3>3 DEF DuplicateOutcome, Throw, LoseEffect
  <2>6. QED
    BY <2>1, <2>2, <2>3, <2>4, <2>5 DEF SInv
<1>12. CASE MoveToDelayed(e)
  BY <1>12 DEF MoveToDelayed, EndExecution
<1>13. CASE Finish(e)
  BY <1>13 DEF Finish, EndExecution
<1> QED
  BY <1>1, <1>2, <1>3, <1>4, <1>5, <1>6, <1>7, <1>8, <1>9, <1>10, <1>11, <1>12, <1>13
     DEF Execute

\* A new execution holds nothing yet.
LEMMA SBegin ==
  ASSUME Timely, SInv, TInv', NEW e \in Executor, NEW a \in Action,
         Deliver(e, a) \/ StartDemo(e, a)
  PROVE  SInv'
<1> USE DEF SInv, TInv, TypeOK, Located, EnqueueApart, HeldRow, ExclusiveClaim,
        ExecutedIffRecorded, EffectsAccounted, Enqueuing, Busy, Holds, Holding, AboutToRecord,
        payVars, rowVars, queueVars, apiVars, ghostVars
<1>1. CASE Deliver(e, a)
  BY <1>1 DEF Deliver, Begin, Timely
<1>2. CASE StartDemo(e, a)
  BY <1>2 DEF StartDemo, Begin, Timely
<1> QED
  BY <1>1, <1>2

\* An execution that throws or dies with an effect in hand adds it to lost.
LEMMA SFault ==
  ASSUME Timely, SInv, TInv', NEW e \in Executor, InfraFault(e) \/ Crash(e)
  PROVE  SInv'
<1> USE DEF SInv, TInv, TypeOK, Located, EnqueueApart, HeldRow, ExclusiveClaim,
        ExecutedIffRecorded, EffectsAccounted, Enqueuing, Busy, Holds, Holding, AboutToRecord,
        payVars, rowVars, queueVars, apiVars, ghostVars, LoseEffect, EndExecution
<1>1. CASE InfraFault(e)
  <2>1. EnqueueApart'
    BY <1>1 DEF InfraFault, Throw
  <2>2. HeldRow'
    BY <1>1 DEF InfraFault, Throw
  <2>3. ExclusiveClaim'
    BY <1>1 DEF InfraFault, Throw
  <2>4. ExecutedIffRecorded'
    BY <1>1 DEF InfraFault, Throw
  <2>5. EffectsAccounted'
    <3>1. ASSUME NEW b \in Action
          PROVE  AboutToRecord(b)' <=> AboutToRecord(b) /\ ~(b = at[e] /\ pc[e] = "settle")
      BY <1>1 DEF InfraFault, Throw
    <3>2. ASSUME NEW b \in Action
          PROVE  (status[b] = "EXECUTED")' <=> status[b] = "EXECUTED"
      BY <1>1 DEF InfraFault, Throw
    <3>3. pc[e] = "settle" =>
              at[e] \in Action /\ AboutToRecord(at[e]) /\ status[at[e]] # "EXECUTED"
      OBVIOUS
    <3> HIDE DEF AboutToRecord
    <3>4. QED
      BY <1>1, <3>1, <3>2, <3>3 DEF InfraFault, Throw
  <2>6. QED
    BY <2>1, <2>2, <2>3, <2>4, <2>5 DEF SInv
<1>2. CASE Crash(e)
  <2>1. EnqueueApart'
    BY <1>2 DEF Crash
  <2>2. HeldRow'
    BY <1>2 DEF Crash
  <2>3. ExclusiveClaim'
    BY <1>2 DEF Crash
  <2>4. ExecutedIffRecorded'
    BY <1>2 DEF Crash
  <2>5. EffectsAccounted'
    <3>1. ASSUME NEW b \in Action
          PROVE  AboutToRecord(b)' <=> AboutToRecord(b) /\ ~(b = at[e] /\ pc[e] = "settle")
      BY <1>2 DEF Crash
    <3>2. ASSUME NEW b \in Action
          PROVE  (status[b] = "EXECUTED")' <=> status[b] = "EXECUTED"
      BY <1>2 DEF Crash
    <3>3. pc[e] = "settle" =>
              at[e] \in Action /\ AboutToRecord(at[e]) /\ status[at[e]] # "EXECUTED"
      OBVIOUS
    <3> HIDE DEF AboutToRecord
    <3>4. QED
      BY <1>2, <3>1, <3>2, <3>3 DEF Crash
  <2>6. QED
    BY <2>1, <2>2, <2>3, <2>4, <2>5 DEF SInv
<1> QED
  BY <1>1, <1>2

\* Time alone makes a claim stale only when nobody holds the action.
LEMMA STime ==
  ASSUME Timely, SInv, TInv', NEW a \in Action, Stall(a) \/ AgeExecution(a)
  PROVE  SInv'
<1> USE DEF SInv, TInv, TypeOK, Located, EnqueueApart, HeldRow, ExclusiveClaim,
        ExecutedIffRecorded, EffectsAccounted, Enqueuing, Busy, Holds, Holding, AboutToRecord,
        payVars, rowVars, queueVars, execVars, apiVars, ghostVars
<1>1. CASE Stall(a)
  BY <1>1 DEF Stall
<1>2. CASE AgeExecution(a)
  BY <1>2 DEF AgeExecution, Timely
<1> QED
  BY <1>1, <1>2

\* SInv is inductive under Timely.
LEMMA SStep == Timely /\ SInv /\ [Next]_vars => SInv'
<1> SUFFICES ASSUME Timely, SInv, [Next]_vars PROVE SInv'
  OBVIOUS
<1>1. TInv'
  BY TStep DEF SInv
<1>2. CASE Next
  BY <1>1, <1>2, SRequest, SExecute, SBegin, SFault, STime DEF Next, Executor
<1>3. CASE UNCHANGED vars
  BY <1>1, <1>3
  DEF vars, payVars, rowVars, queueVars, execVars, apiVars, ghostVars, SInv, EnqueueApart, HeldRow,
      ExclusiveClaim, ExecutedIffRecorded, EffectsAccounted, Enqueuing, Busy, Holds, AboutToRecord
<1> QED
  BY <1>2, <1>3

\* The safety invariant of every reachable state.
LEMMA SAlways == ASSUME Timely PROVE Spec => []SInv
  BY SInit, SStep, PTL DEF Spec, Timely

\* If no live execution outlasts STALE_EXECUTION_MS and enqueues do not overlap
\* executions, claimForExecution never lets two executors into an action,
\* whatever crashes, throws and handovers there are.
THEOREM ClaimIsExclusive == ASSUME Timely PROVE Spec => []ExclusiveClaim
<1>1. SInv => ExclusiveClaim
  BY DEF SInv
<1>2. QED
  BY SAlways, <1>1, PTL

\* Under the same condition an action is marked EXECUTED exactly with an outcome
\* that says what the gateway did.
THEOREM RowsFollowOutcomes == ASSUME Timely PROVE Spec => []ExecutedIffRecorded
<1>1. SInv => ExecutedIffRecorded
  BY DEF SInv
<1>2. QED
  BY SAlways, <1>1, PTL

\* Under the same condition every effect is recorded, about to be, or was lost
\* with the execution that had it: at most one more effect than losses.
THEOREM EveryEffectAccounted == ASSUME Timely PROVE Spec => []EffectsAccounted
<1>1. SInv => EffectsAccounted
  BY DEF SInv
<1>2. QED
  BY SAlways, <1>1, PTL

-----------------------------------------------------------------------------
(* RecoveryExecution implements ActionLedger.                              *)

\* Nothing done, in hand, recorded or lost: the initial ledger.
LEMMA LedgerInit == Init => Ledger!Init
  BY ExecutionAssumption
  DEF Init, Ledger!Init, InHand, Recorded, AboutToRecord

\* A step is invisible to the ledger if it leaves the counts, the outcomes and
\* the set of executors about to record alone.
LEMMA Invisible ==
  ASSUME UNCHANGED <<outcome, effects, lost>>,
         \A a \in Action : AboutToRecord(a)' <=> AboutToRecord(a)
  PROVE  UNCHANGED Ledger!vars
<1>1. InHand' = InHand
  BY DEF InHand
<1>2. Recorded' = Recorded
  BY DEF Recorded
<1> QED
  BY <1>1, <1>2 DEF Ledger!vars

\* The ledger does not see requests: no outcome, effect or executor changes.
LEMMA LedgerRequest ==
  ASSUME SInv, NEW h \in Api, Request(h)
  PROVE  UNCHANGED Ledger!vars
<1>1. UNCHANGED <<outcome, effects, lost, pc, at>>
  BY DEF Request, LoadDecision, LoadForEnqueue, PersistDecision, DecisionDuplicate, QueueAdd,
         MarkScheduled, RequestFails, execVars, ghostVars
<1>2. \A a \in Action : AboutToRecord(a)' <=> AboutToRecord(a)
  BY <1>1 DEF AboutToRecord
<1> QED
  BY <1>1, <1>2, Invisible

\* An execution that ends without recording loses the effect in its hand, if any.
LEMMA LedgerLoss ==
  ASSUME SInv, NEW e \in Executor, LoseEffect(e), EndExecution(e), UNCHANGED <<outcome, effects>>
  PROVE  [Ledger!Next]_Ledger!vars
<1> USE DEF SInv, TInv, TypeOK, Located
<1>1. CASE pc[e] = "settle"
  <2>1. at[e] \in Action /\ Holds(e, at[e])
    BY <1>1 DEF Holds, Holding
  <2>2. AboutToRecord(at[e])
    BY <1>1 DEF AboutToRecord
  <2>3. \A f \in Executor : Holds(f, at[e]) => f = e
    BY <2>1 DEF ExclusiveClaim
  <2>4. ASSUME NEW a \in Action
        PROVE  AboutToRecord(a)' <=> AboutToRecord(a) /\ a # at[e]
    BY <2>1, <2>3 DEF AboutToRecord, EndExecution, Holds, Holding, ExecPc
  <2>5. InHand' = InHand \ {at[e]}
    BY <2>1, <2>4 DEF InHand
  <2>6. at[e] \in InHand
    BY <2>1, <2>2 DEF InHand
  <2>7. Recorded' = Recorded
    BY DEF Recorded
  <2>8. Ledger!Lose(at[e])
    BY <1>1, <2>5, <2>6, <2>7 DEF Ledger!Lose, LoseEffect
  <2> QED
    BY <2>1, <2>8 DEF Ledger!Next
<1>2. CASE pc[e] # "settle"
  <2>1. \A a \in Action : AboutToRecord(a)' <=> AboutToRecord(a)
    BY <1>2 DEF AboutToRecord, EndExecution
  <2>2. lost' = lost
    BY <1>2 DEF LoseEffect
  <2> QED
    BY <2>1, <2>2, Invisible
<1> QED
  BY <1>1, <1>2

\* The gateway acts: only a holder gets there, and nothing is in hand or recorded.
LEMMA LedgerAct ==
  ASSUME SInv, NEW e \in Executor, pc[e] \in {"send", "charge"}, NEW v, Effect(e, v),
         UNCHANGED <<at, outcome, lost>>
  PROVE  Ledger!Next
<1> USE DEF SInv, TInv, TypeOK, Located
<1>1. at[e] \in Action /\ Holds(e, at[e])
  BY DEF Holds, Holding
<1>2. \A f \in Executor : Holds(f, at[e]) => f = e
  BY <1>1 DEF ExclusiveClaim
<1>3. ~AboutToRecord(at[e])
  BY <1>1, <1>2 DEF AboutToRecord, Holds, Holding
<1>4. status[at[e]] # "EXECUTED"
  BY <1>1 DEF HeldRow
<1>5. ASSUME NEW a \in Action
      PROVE  AboutToRecord(a)' <=> AboutToRecord(a) \/ a = at[e]
  BY <1>1 DEF AboutToRecord, Effect, Goto
<1>6. InHand' = InHand \cup {at[e]} /\ at[e] \notin InHand
  BY <1>1, <1>3, <1>5 DEF InHand
<1>7. Recorded' = Recorded /\ Recorded[at[e]] # "acted"
  BY <1>1, <1>4 DEF Recorded, ExecutedIffRecorded
<1>8. Ledger!Act(at[e])
  BY <1>6, <1>7 DEF Ledger!Act, Effect
<1> QED
  BY <1>1, <1>8 DEF Ledger!Next

\* Each step of an execution is an Act, a Record, a Refuse, a Lose or unseen.
LEMMA LedgerExecute ==
  ASSUME SInv, NEW e \in Executor, Execute(e)
  PROVE  [Ledger!Next]_Ledger!vars
<1> USE DEF SInv, TInv, TypeOK, Located, payVars, rowVars, queueVars, apiVars, ghostVars
<1>1. CASE SendMessage(e) \/ ChargeAnswered(e)
  BY <1>1, LedgerAct DEF SendMessage, ChargeAnswered
<1>2. CASE PersistOutcome(e)
  <2> DEFINE a == at[e]
  <2>1. a \in Action /\ Holds(e, a)
    BY <1>2 DEF PersistOutcome, Settle, Holds, Holding
  <2>2. \A f \in Executor : Holds(f, a) => f = e
    BY <2>1 DEF ExclusiveClaim
  <2>3. AboutToRecord(a)
    BY <1>2 DEF PersistOutcome, Settle, AboutToRecord
  <2>4. ASSUME NEW b \in Action
        PROVE  AboutToRecord(b)' <=> AboutToRecord(b) /\ b # a
    BY <1>2, <2>1, <2>2 DEF AboutToRecord, PersistOutcome, Settle, Goto, Holds, Holding
  <2>5. InHand' = InHand \ {a} /\ a \in InHand
    BY <2>1, <2>3, <2>4 DEF InHand
  <2>6. Recorded' = [Recorded EXCEPT ![a] = "acted"] /\ Recorded[a] = "none"
    BY <1>2, <2>1 DEF PersistOutcome, Settle, Recorded
  <2>7. Ledger!Record(a)
    BY <1>2, <2>5, <2>6 DEF Ledger!Record, PersistOutcome, Settle
  <2> QED
    BY <2>1, <2>7 DEF Ledger!Next
<1>3. CASE PersistBlocked(e)
  <2> DEFINE a == at[e]
  <2>1. a \in Action
    BY <1>3 DEF PersistBlocked
  <2>2. \A b \in Action : AboutToRecord(b)' <=> AboutToRecord(b)
    BY <1>3 DEF PersistBlocked, AboutToRecord, Goto
  <2>3. InHand' = InHand
    BY <2>2 DEF InHand
  <2>4. Recorded' = [Recorded EXCEPT ![a] = "refused"] /\ Recorded[a] = "none"
    BY <1>3, <2>1 DEF PersistBlocked, Recorded
  <2>5. Ledger!Refuse(a)
    BY <1>3, <2>3, <2>4 DEF Ledger!Refuse, PersistBlocked
  <2> QED
    BY <2>1, <2>5 DEF Ledger!Next
<1>4. CASE DuplicateOutcome(e)
  BY <1>4, LedgerLoss DEF DuplicateOutcome, Throw
<1>5. CASE \/ LoadExecutionContext(e) \/ ClaimForExecution(e) \/ BreakerAllows(e)
           \/ BreakerBlocks(e) \/ GatewayFailure(e) \/ Reschedule(e)
  <2>1. UNCHANGED <<outcome, effects, lost, at>>
    BY <1>5 DEF LoadExecutionContext, ExecutionContext, ClaimForExecution, ClaimIf, BreakerAllows, BreakerBlocks,
                GatewayFailure, Reschedule
  <2>2. \A f \in Executor : (pc[f] = "settle")' <=> pc[f] = "settle"
    BY <1>5 DEF LoadExecutionContext, ExecutionContext, ClaimForExecution, ClaimIf, BreakerAllows, BreakerBlocks,
                GatewayFailure, Reschedule, Goto
  <2>3. \A b \in Action : AboutToRecord(b)' <=> AboutToRecord(b)
    BY <2>1, <2>2 DEF AboutToRecord
  <2> QED
    BY <2>1, <2>3, Invisible
<1>6. CASE MoveToDelayed(e) \/ Finish(e)
  <2>1. UNCHANGED <<outcome, effects, lost>>
    BY <1>6 DEF MoveToDelayed, Finish
  <2>2. \A b \in Action : AboutToRecord(b)' <=> AboutToRecord(b)
    BY <1>6 DEF MoveToDelayed, Finish, EndExecution, AboutToRecord
  <2> QED
    BY <2>1, <2>2, Invisible
<1> QED
  BY <1>1, <1>2, <1>3, <1>4, <1>5, <1>6 DEF Execute

\* The ledger does not see deliveries.
LEMMA LedgerBegin ==
  ASSUME SInv, NEW e \in Executor, NEW a \in Action, Deliver(e, a) \/ StartDemo(e, a)
  PROVE  UNCHANGED Ledger!vars
<1>1. UNCHANGED <<outcome, effects, lost>>
  BY DEF Deliver, StartDemo, ghostVars
<1>2. \A b \in Action : AboutToRecord(b)' <=> AboutToRecord(b)
  BY DEF Deliver, StartDemo, Begin, AboutToRecord, SInv, TInv, TypeOK
<1> QED
  BY <1>1, <1>2, Invisible

\* Nor stalled jobs and ageing claims.
LEMMA LedgerTime ==
  ASSUME NEW a \in Action, Stall(a) \/ AgeExecution(a)
  PROVE  UNCHANGED Ledger!vars
<1>1. UNCHANGED <<outcome, effects, lost, pc, at>>
  BY DEF Stall, AgeExecution, execVars, ghostVars
<1>2. \A b \in Action : AboutToRecord(b)' <=> AboutToRecord(b)
  BY <1>1 DEF AboutToRecord
<1> QED
  BY <1>1, <1>2, Invisible

\* Every step of the pipeline is a step of the ledger or a stutter.
LEMMA LedgerStep == SInv /\ [Next]_vars => [Ledger!Next]_Ledger!vars
<1> SUFFICES ASSUME SInv, [Next]_vars PROVE [Ledger!Next]_Ledger!vars
  OBVIOUS
<1>1. ASSUME NEW e \in Executor, InfraFault(e) \/ Crash(e)
      PROVE  [Ledger!Next]_Ledger!vars
  BY <1>1, LedgerLoss DEF InfraFault, Throw, Crash
<1>2. CASE Next
  BY <1>1, <1>2, LedgerRequest, LedgerExecute, LedgerBegin, LedgerTime DEF Next, Executor
<1>3. CASE UNCHANGED vars
  <2>1. UNCHANGED <<outcome, effects, lost, pc, at>>
    BY <1>3 DEF vars, execVars, ghostVars
  <2>2. \A b \in Action : AboutToRecord(b)' <=> AboutToRecord(b)
    BY <2>1 DEF AboutToRecord
  <2> QED
    BY <2>1, <2>2, Invisible
<1> QED
  BY <1>2, <1>3

\* Seen through effects, losses and outcomes, the pipeline of requests, jobs
\* and executors only takes the steps the ledger allows.
THEOREM PipelineImplementsLedger == ASSUME Timely PROVE Spec => ImplementsLedger
<1>1. Spec => []SInv
  BY SAlways
<1>2. QED
  BY <1>1, LedgerInit, LedgerStep, PTL DEF Spec, ImplementsLedger, Ledger!Spec

=============================================================================
