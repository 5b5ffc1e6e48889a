------------------------ MODULE RecoveryAttemptProofs ------------------------
(***************************************************************************)
(* TLAPS proofs about the attempts of RecoveryExecution: what attemptCount *)
(* counts, how far actions that share a ceiling can pass it, and what the  *)
(* payment says afterwards; and what becomes of queued actions when        *)
(* something fails, or a hard stop comes between.  Nothing here supposes   *)
(* that rows are reclaimed only from the dead; the count is right whatever *)
(* overlaps.                                                               *)
(***************************************************************************)
EXTENDS RecoveryExecutionProofs, FiniteSetTheorems

-----------------------------------------------------------------------------
(* attemptCount.                                                           *)

\* Only rows that were decided on are enqueued, delivered, executed or given an
\* outcome, so no decision can change the kind of one that is on its way.
Decided ==
    /\ \A e \in Executor : pc[e] # "idle" => status[at[e]] # "NONE"
    /\ \A h \in Api : apc[h] \in {"add", "mark"} => status[aat[h]] # "NONE"
    /\ \A a \in Action : job[a] # "none" \/ outcome[a] # "NONE" => status[a] # "NONE"

\* An executor is where its action's kind takes it, and what it is about to
\* record is an answer to what it asked.
Purposeful ==
    \A e \in Executor :
        /\ pc[e] = "claim" => kind[at[e]] \in Schedulable
        /\ pc[e] = "send" => kind[at[e]] = "MESSAGE"
        /\ pc[e] \in {"permit", "charge"} => kind[at[e]] = "CHARGE"
        /\ pc[e] = "settle" =>
              \/ verdict[e] = "sent" /\ kind[at[e]] = "MESSAGE"
              \/ verdict[e] \in {"captured", "declined"} /\ kind[at[e]] = "CHARGE"

ChargesFinite == \A p \in Payment : IsFiniteSet(ChargesRecorded(p))

AInv == TInv /\ Decided /\ Purposeful /\ ChargesFinite /\ AttemptAccounting

\* Nothing is decided on, and no charge recorded.
LEMMA AInit == Init => AInv
<1> SUFFICES ASSUME Init PROVE AInv
  OBVIOUS
<1>1. Decided /\ Purposeful
  BY DEF Init, Decided, Purposeful
<1>2. \A p \in Payment : ChargesRecorded(p) = {}
  BY DEF Init, ChargesRecorded
<1>3. IsFiniteSet({}) /\ Cardinality({}) = 0
  BY FS_EmptySet
<1>4. ChargesFinite
  BY <1>2, <1>3 DEF ChargesFinite
<1>5. AttemptAccounting
  <2>1. ASSUME NEW p \in Payment
        PROVE  attempts[p] = 1 + Cardinality(ChargesRecorded(p))
    <3>1. attempts[p] = 1 /\ Cardinality(ChargesRecorded(p)) = 0
      BY <1>2, <1>3 DEF Init
    <3>2. QED
      BY <3>1
  <2>2. QED
    BY <2>1 DEF AttemptAccounting
<1>6. QED
  BY <1>1, <1>4, <1>5, TInit DEF AInv

\* A step that records no charge and leaves every count alone.
LEMMA Uncharged ==
  ASSUME AInv, attempts' = attempts,
         \A a \in Action : kind'[a] = kind[a] \/ (outcome[a] = "NONE" /\ outcome'[a] = "NONE"),
         \A a \in Action : outcome'[a] = outcome[a]
                              \/ (outcome[a] = "NONE" /\ outcome'[a] \in {"BLOCKED", "CANCELLED"})
  PROVE  ChargesFinite' /\ AttemptAccounting'
<1>1. \A p \in Payment : ChargesRecorded(p)' = ChargesRecorded(p)
  BY DEF ChargesRecorded
<1>2. QED
  BY <1>1 DEF AInv, ChargesFinite, AttemptAccounting

\* Requests record no charge, and decide on rows nobody has taken on.
LEMMA ARequest ==
  ASSUME AInv, TInv', NEW h \in Api, Request(h)
  PROVE  AInv'
<1> USE DEF AInv, TInv, TypeOK, Located, Decided, Purposeful,
        payVars, rowVars, queueVars, execVars, ghostVars, EndRequest
<1>1. ASSUME NEW a \in Action, LoadDecision(h, a) \/ LoadForEnqueue(h, a)
      PROVE  AInv'
  <2>1. UNCHANGED <<attempts, kind, outcome, status, pc, at, verdict, job>>
    BY <1>1 DEF LoadDecision, LoadForEnqueue
  <2>2. Decided' /\ Purposeful'
    BY <1>1, <2>1 DEF LoadDecision, LoadForEnqueue
  <2>3. QED
    BY <2>1, <2>2, Uncharged DEF AInv
<1>2. CASE PersistDecision(h)
  <2> DEFINE a == aat[h]
  <2>1. a \in Action /\ status[a] = "NONE"
    BY <1>2 DEF PersistDecision
  <2>2. UNCHANGED <<attempts, outcome, pc, at, verdict, job>>
    BY <1>2, <2>1 DEF PersistDecision, WritePayment
  <2>3. \A b \in Action \ {a} : kind'[b] = kind[b]
    BY <1>2, <2>1 DEF PersistDecision
  <2>4. outcome[a] = "NONE"
    BY <2>1
  <2>5. \A b \in Action : status[b] # "NONE" => status'[b] # "NONE"
    BY <1>2, <2>1 DEF PersistDecision
  <2>6. Decided'
    BY <1>2, <2>2, <2>5 DEF PersistDecision
  <2>7. Purposeful'
    BY <2>1, <2>2, <2>3
  <2>8. QED
    BY <2>2, <2>3, <2>4, <2>6, <2>7, Uncharged DEF AInv
<1>3. CASE DecisionDuplicate(h) \/ QueueAdd(h) \/ RequestFails(h)
  <2>1. UNCHANGED <<attempts, kind, outcome, status, pc, at, verdict>>
    BY <1>3 DEF DecisionDuplicate, QueueAdd, RequestFails
  <2>2. Decided' /\ Purposeful'
    BY <1>3, <2>1 DEF DecisionDuplicate, QueueAdd, RequestFails
  <2>3. QED
    BY <2>1, <2>2, Uncharged DEF AInv
<1>4. CASE MarkScheduled(h)
  <2>1. UNCHANGED <<kind, outcome, pc, at, verdict, job>> /\ attempts' = attempts
    BY <1>4, ExecutionAssumption DEF MarkScheduled, WriteRow, WritePayment
  <2>2. \A b \in Action : status[b] # "NONE" => status'[b] # "NONE"
    BY <1>4 DEF MarkScheduled, WriteRow
  <2>3. Decided' /\ Purposeful'
    BY <1>4, <2>1, <2>2 DEF MarkScheduled
  <2>4. QED
    BY <2>1, <2>3, Uncharged DEF AInv
<1> QED
  BY <1>1, <1>2, <1>3, <1>4 DEF Request

\* A charge is counted in the transaction that records it, whoever else is
\* under way for the payment.
LEMMA ARecord ==
  ASSUME AInv, TInv', NEW e \in Executor, PersistOutcome(e)
  PROVE  AInv'
<1> USE DEF AInv, TInv, TypeOK, Located
<1>1. PICK a \in Action, p \in Payment : a = at[e] /\ p = PaymentOf[a]
  BY ExecutionAssumption DEF PersistOutcome, Settle
<1>2. pc[e] = "settle" /\ outcome[a] = "NONE"
  BY <1>1 DEF PersistOutcome, Settle
<1>3. \A b \in Action : status[b] # "NONE" => status'[b] # "NONE"
  BY DEF PersistOutcome, Settle, WriteRow
<1>4. /\ status'[a] # "NONE" /\ UNCHANGED <<kind, at, apc, aat, job>>
      /\ \A b \in Action \ {a} : outcome'[b] = outcome[b]
      /\ pc' = [pc EXCEPT ![e] = "finish"] /\ verdict' = [verdict EXCEPT ![e] = "none"]
  BY <1>1 DEF PersistOutcome, Settle, WriteRow, Goto, queueVars, apiVars
<1>5. Decided'
  BY <1>1, <1>3, <1>4 DEF Decided
<1>6. Purposeful'
  BY <1>4 DEF Purposeful
<1>7. CASE verdict[e] = "sent"
  <2>1. attempts' = attempts /\ kind[a] = "MESSAGE"
    BY <1>1, <1>2, <1>7 DEF PersistOutcome, Settle, ChargedPayment, Purposeful, payVars
  <2>2. \A q \in Payment : ChargesRecorded(q)' = ChargesRecorded(q)
    BY <1>1, <1>4, <2>1 DEF ChargesRecorded
  <2>3. ChargesFinite' /\ AttemptAccounting'
    BY <2>1, <2>2 DEF ChargesFinite, AttemptAccounting
  <2>4. QED
    BY <1>5, <1>6, <2>3
<1>8. CASE verdict[e] \in {"captured", "declined"}
  <2>1. attempts' = [attempts EXCEPT ![p] = @ + 1] /\ kind[a] = "CHARGE"
    BY <1>1, <1>2, <1>8 DEF PersistOutcome, Settle, ChargedPayment, Purposeful, WritePayment
  <2>2. outcome'[a] \in {"SUCCESS", "FAILED"}
    BY <1>1 DEF PersistOutcome, Settle
  <2>3. ChargesRecorded(p)' = ChargesRecorded(p) \cup {a} /\ a \notin ChargesRecorded(p)
    BY <1>1, <1>2, <1>4, <2>1, <2>2 DEF ChargesRecorded
  <2>4. \A q \in Payment \ {p} : ChargesRecorded(q)' = ChargesRecorded(q)
    BY <1>1, <1>4 DEF ChargesRecorded
  <2>5. IsFiniteSet(ChargesRecorded(p)) /\ Cardinality(ChargesRecorded(p)) \in Nat
    BY <1>1, FS_CardinalityType DEF ChargesFinite
  <2>6. ASSUME NEW S, IsFiniteSet(S), a \notin S
        PROVE  IsFiniteSet(S \cup {a}) /\ Cardinality(S \cup {a}) = Cardinality(S) + 1
    BY <2>6, FS_AddElement
  <2>7. ChargesFinite'
    <3>1. IsFiniteSet(ChargesRecorded(p)')
      BY <2>3, <2>5, <2>6
    <3>2. QED
      BY <2>4, <3>1 DEF ChargesFinite
  <2>8. AttemptAccounting'
    <3>1. Cardinality(ChargesRecorded(p)') = Cardinality(ChargesRecorded(p)) + 1
      BY <2>3, <2>5, <2>6
    <3>2. attempts'[p] = 1 + Cardinality(ChargesRecorded(p)')
      BY <1>1, <2>1, <2>5, <3>1 DEF AttemptAccounting
    <3>3. \A q \in Payment \ {p} : attempts'[q] = 1 + Cardinality(ChargesRecorded(q)')
      BY <2>1, <2>4 DEF AttemptAccounting
    <3>4. QED
      BY <3>2, <3>3 DEF AttemptAccounting
  <2>9. QED
    BY <1>5, <1>6, <2>7, <2>8
<1> QED
  BY <1>2, <1>7, <1>8 DEF Purposeful

\* No other step of an execution counts anything; the refusals it records are none
\* of the gateway's.
LEMMA AExecute ==
  ASSUME AInv, TInv', NEW e \in Executor, Execute(e)
  PROVE  AInv'
<1> USE DEF AInv, TInv, TypeOK, Located, payVars, rowVars, queueVars, apiVars, ghostVars,
        Goto, WriteRow
<1>1. CASE LoadExecutionContext(e)
  <2>1. UNCHANGED <<attempts, kind, outcome, status, at, job, apc, aat>>
    BY <1>1 DEF LoadExecutionContext
  <2>2. pc'[e] = "claim" => SafetyBlock(at[e]) = "none"
    BY <1>1 DEF LoadExecutionContext
  <2>3. SafetyBlock(at[e]) = "none" => kind[at[e]] \in Schedulable
    BY DEF SafetyBlock
  <2>4. Decided'
    BY <1>1, <2>1 DEF Decided, LoadExecutionContext
  <2>5. Purposeful'
    BY <1>1, <2>1, <2>2, <2>3 DEF Purposeful, LoadExecutionContext
  <2>6. QED
    BY <2>1, <2>4, <2>5, Uncharged
<1>2. CASE PersistBlocked(e)
  <2>1. UNCHANGED <<kind, at, job, apc, aat>> /\ attempts' = attempts
    BY <1>2, ExecutionAssumption DEF PersistBlocked, WritePayment
  <2>2. \A b \in Action : outcome'[b] = outcome[b]
            \/ (outcome[b] = "NONE" /\ outcome'[b] \in {"BLOCKED", "CANCELLED"})
    BY <1>2 DEF PersistBlocked
  <2>3. status'[at[e]] # "NONE" /\ \A b \in Action : status[b] # "NONE" => status'[b] # "NONE"
    BY <1>2 DEF PersistBlocked
  <2>4. Decided'
    BY <1>2, <2>1, <2>3 DEF Decided, PersistBlocked
  <2>5. Purposeful'
    BY <1>2, <2>1 DEF Purposeful, PersistBlocked
  <2>6. QED
    BY <2>1, <2>2, <2>4, <2>5, Uncharged
<1>3. CASE ClaimForExecution(e)
  <2>1. UNCHANGED <<attempts, kind, outcome, at, job, apc, aat, verdict>>
    BY <1>3 DEF ClaimForExecution, ClaimIf
  <2>2. \A b \in Action : status[b] # "NONE" => status'[b] # "NONE"
    BY <1>3 DEF ClaimForExecution, ClaimIf
  <2>3. Decided'
    BY <1>3, <2>1, <2>2 DEF Decided, ClaimForExecution, ClaimIf
  <2>4. Purposeful'
    BY <1>3, <2>1 DEF Purposeful, ClaimForExecution, ClaimIf, Schedulable
  <2>5. QED
    BY <2>1, <2>3, <2>4, Uncharged
<1>4. CASE \/ SendMessage(e) \/ BreakerAllows(e) \/ BreakerBlocks(e)
           \/ ChargeAnswered(e) \/ GatewayFailure(e)
  <2>1. UNCHANGED <<attempts, kind, outcome, status, at, job, apc, aat>>
    BY <1>4 DEF SendMessage, BreakerAllows, BreakerBlocks, ChargeAnswered, GatewayFailure
  <2>2. Decided'
    BY <1>4, <2>1 DEF Decided, SendMessage, BreakerAllows, BreakerBlocks, ChargeAnswered,
                      GatewayFailure, Effect
  <2>3. Purposeful'
    BY <1>4, <2>1 DEF Purposeful, SendMessage, BreakerAllows, BreakerBlocks, ChargeAnswered,
                      GatewayFailure, Effect
  <2>4. QED
    BY <2>1, <2>2, <2>3, Uncharged
<1>5. CASE Reschedule(e)
  <2>1. UNCHANGED <<attempts, kind, outcome, at, job, apc, aat, verdict>>
    BY <1>5 DEF Reschedule
  <2>2. \A b \in Action : status[b] # "NONE" => status'[b] # "NONE"
    BY <1>5 DEF Reschedule
  <2>3. Decided' /\ Purposeful'
    BY <1>5, <2>1, <2>2 DEF Decided, Purposeful, Reschedule
  <2>4. QED
    BY <2>1, <2>3, Uncharged
<1>6. CASE DuplicateOutcome(e) \/ MoveToDelayed(e) \/ Finish(e)
  <2>1. UNCHANGED <<attempts, kind, outcome, status, apc, aat>> /\ EndExecution(e)
    BY <1>6 DEF DuplicateOutcome, MoveToDelayed, Finish, Throw
  <2>2. \A a \in Action : job'[a] # "none" => job[a] # "none"
    BY <1>6 DEF DuplicateOutcome, MoveToDelayed, Finish, Throw, MoveJob, HoldsLock
  <2>3. Decided'
    BY <2>1, <2>2 DEF Decided, EndExecution
  <2>4. Purposeful'
    BY <2>1 DEF Purposeful, EndExecution
  <2>5. QED
    BY <2>1, <2>3, <2>4, Uncharged
<1> QED
  BY <1>1, <1>2, <1>3, <1>4, <1>5, <1>6, ARecord DEF Execute

\* Deliveries, faults and time record nothing.
LEMMA AElse ==
  ASSUME AInv, TInv',
         \/ \E e \in Executor, a \in Action : Deliver(e, a) \/ StartDemo(e, a)
         \/ \E e \in Executor : InfraFault(e) \/ Crash(e)
         \/ \E a \in Action : Stall(a) \/ AgeExecution(a)
         \/ UNCHANGED vars
  PROVE  AInv'
<1> USE DEF AInv, TInv, TypeOK, Located, payVars, rowVars, queueVars, execVars, apiVars, ghostVars
<1>1. UNCHANGED <<attempts, kind, outcome, status, apc, aat>>
  BY DEF Deliver, StartDemo, InfraFault, Throw, Crash, Stall, AgeExecution, vars
<1>2. Decided' /\ Purposeful'
  <2>1. ASSUME NEW e \in Executor, NEW a \in Action, Deliver(e, a) \/ StartDemo(e, a)
        PROVE  Decided' /\ Purposeful'
    <3>1. status[a] # "NONE"
      BY <2>1 DEF Deliver, StartDemo, Decided
    <3>2. \A b \in Action : job'[b] # "none" => job[b] # "none"
      BY <2>1 DEF Deliver, StartDemo
    <3>3. Begin(e, a)
      BY <2>1 DEF Deliver, StartDemo
    <3>4. Decided'
      BY <1>1, <3>1, <3>2, <3>3 DEF Decided, Begin
    <3>5. Purposeful'
      BY <1>1, <3>3 DEF Purposeful, Begin
    <3>6. QED
      BY <3>4, <3>5
  <2>2. ASSUME NEW e \in Executor, InfraFault(e) \/ Crash(e)
        PROVE  Decided' /\ Purposeful'
    <3>1. EndExecution(e)
      BY <2>2 DEF InfraFault, Throw, Crash
    <3>2. \A a \in Action : job'[a] # "none" => job[a] # "none"
      BY <2>2 DEF InfraFault, Throw, Crash, MoveJob, HoldsLock
    <3>3. Decided'
      BY <1>1, <3>1, <3>2 DEF Decided, EndExecution
    <3>4. Purposeful'
      BY <1>1, <3>1 DEF Purposeful, EndExecution
    <3>5. QED
      BY <3>3, <3>4
  <2>3. ASSUME NEW a \in Action, Stall(a) \/ AgeExecution(a)
        PROVE  Decided' /\ Purposeful'
    <3>1. UNCHANGED <<pc, at, verdict>> /\ \A b \in Action : job'[b] # "none" => job[b] # "none"
      BY <2>3 DEF Stall, AgeExecution
    <3>2. QED
      BY <1>1, <3>1 DEF Decided, Purposeful
  <2>4. CASE UNCHANGED vars
    BY <2>4 DEF vars, Decided, Purposeful
  <2>5. QED
    BY <2>1, <2>2, <2>3, <2>4
<1>3. QED
  BY <1>1, <1>2, Uncharged

\* AInv is inductive.
LEMMA AStep == AInv /\ [Next]_vars => AInv'
<1> SUFFICES ASSUME AInv, [Next]_vars PROVE AInv'
  OBVIOUS
<1>1. TInv'
  BY TStep DEF AInv
<1>2. CASE Next
  BY <1>1, <1>2, ARequest, AExecute, AElse DEF Next, Executor
<1>3. CASE UNCHANGED vars
  BY <1>1, <1>3, AElse
<1> QED
  BY <1>2, <1>3

\* The accounting invariant of every reachable state.
LEMMA AAlways == Spec => []AInv
<1>1. QED
  BY AInit, AStep, PTL DEF Spec

\* attemptCount is one for the ingested failure and one for each charge with an
\* outcome, for every number of actions and executors, also where live executors
\* are reclaimed, jobs are handed over and enqueues race with executions.
THEOREM AttemptsAreCharges == Spec => []AttemptAccounting
<1>1. AInv => AttemptAccounting
  BY DEF AInv
<1>2. QED
  BY AAlways, <1>1, PTL

-----------------------------------------------------------------------------
(* The ceiling of a charge.                                                *)

\* One action per payment: a payment with one failure, decided on once.  With more,
\* two executions of a payment approve their charges from the same count.
Solo == \A a, b \in Action : PaymentOf[a] = PaymentOf[b] => a = b

Working == {"claim", "send", "permit", "charge", "settle"}

\* Whoever was let past the safety check read a count under the ceiling, and until
\* its action has an outcome that count is still the payment's.
Approved ==
    \A e \in Executor : pc[e] \in Working =>
        /\ seen[e] < ceiling[at[e]]
        /\ outcome[at[e]] = "NONE" => seen[e] = attempts[PaymentOf[at[e]]]

CInv == AInv /\ Approved

\* A step keeps the approvals if it lets nobody in, counts no charge and changes the
\* ceiling of undecided rows only.
LEMMA StillApproved ==
  ASSUME CInv, attempts' = attempts,
         \A a \in Action : status[a] # "NONE" => ceiling'[a] = ceiling[a],
         \A a \in Action : outcome'[a] = "NONE" => outcome[a] = "NONE",
         \A e \in Executor : pc'[e] \in Working =>
             pc[e] \in Working /\ at'[e] = at[e] /\ seen'[e] = seen[e]
  PROVE  Approved'
<1> SUFFICES ASSUME NEW e \in Executor, pc'[e] \in Working
             PROVE  /\ seen'[e] < ceiling'[at'[e]]
                    /\ outcome'[at'[e]] = "NONE" => seen'[e] = attempts'[PaymentOf[at'[e]]]
  BY DEF Approved
<1>1. pc[e] \in Working /\ pc[e] # "idle" /\ at'[e] = at[e] /\ seen'[e] = seen[e]
  BY DEF Working
<1>2. at[e] \in Action /\ status[at[e]] # "NONE"
  BY <1>1 DEF CInv, AInv, TInv, Located, Decided
<1>3. QED
  BY <1>1, <1>2 DEF CInv, Approved

\* Requests keep the approvals.
LEMMA CRequest ==
  ASSUME CInv, NEW h \in Api, Request(h)
  PROVE  Approved'
<1> USE DEF CInv, AInv, TInv, TypeOK, Located, payVars, rowVars, queueVars, execVars, ghostVars
<1>1. UNCHANGED <<outcome, pc, at, seen>>
  BY DEF Request, LoadDecision, LoadForEnqueue, PersistDecision, DecisionDuplicate, QueueAdd,
         MarkScheduled, RequestFails
<1>2. attempts' = attempts
  BY ExecutionAssumption
  DEF Request, LoadDecision, LoadForEnqueue, PersistDecision, DecisionDuplicate, QueueAdd,
      MarkScheduled, RequestFails, WritePayment
<1>3. \A a \in Action : status[a] # "NONE" => ceiling'[a] = ceiling[a]
  BY DEF Request, LoadDecision, LoadForEnqueue, PersistDecision, DecisionDuplicate, QueueAdd,
         MarkScheduled, RequestFails, WriteRow
<1>4. QED
  BY <1>1, <1>2, <1>3, StillApproved

\* An execution is approved where it loads its context; the one that records a charge
\* of the payment is the only one there is for it.
LEMMA CExecute ==
  ASSUME Solo, CInv, NEW e \in Executor, Execute(e)
  PROVE  Approved'
<1> USE DEF CInv, AInv, TInv, TypeOK, Located, payVars, rowVars, queueVars, apiVars, ghostVars,
        Goto, WriteRow, Working
<1>1. CASE LoadExecutionContext(e)
  <2>1. PICK a \in Action : a = at[e]
    BY <1>1 DEF LoadExecutionContext
  <2>2. UNCHANGED <<attempts, ceiling, outcome, at>>
    BY <1>1 DEF LoadExecutionContext
  <2>3. \A f \in Executor \ {e} : pc'[f] = pc[f] /\ seen'[f] = seen[f]
    BY <1>1 DEF LoadExecutionContext
  <2>4. ASSUME pc'[e] \in Working
        PROVE  seen'[e] = attempts[PaymentOf[a]] /\ SafetyBlock(a) = "none"
    BY <1>1, <2>1, <2>4 DEF LoadExecutionContext, ExecutionContext
  <2>5. SafetyBlock(a) = "none" => attempts[PaymentOf[a]] < ceiling[a]
    <3>1. attempts[PaymentOf[a]] \in Nat /\ ceiling[a] \in Nat
      BY ExecutionAssumption
    <3>2. QED
      BY <3>1 DEF SafetyBlock
  <2>6. QED
    BY <2>1, <2>2, <2>3, <2>4, <2>5 DEF Approved
<1>2. CASE PersistOutcome(e)
  <2>1. PICK a \in Action, p \in Payment : a = at[e] /\ p = PaymentOf[a]
    BY <1>2, ExecutionAssumption DEF PersistOutcome, Settle
  <2>2. /\ UNCHANGED <<ceiling, at, seen>> /\ outcome'[a] # "NONE" /\ pc'[e] = "finish"
        /\ \A b \in Action \ {a} : outcome'[b] = outcome[b]
        /\ \A f \in Executor \ {e} : pc'[f] = pc[f]
    BY <1>2, <2>1 DEF PersistOutcome, Settle
  <2>3. \A q \in Payment \ {p} : attempts'[q] = attempts[q]
    BY <1>2, <2>1 DEF PersistOutcome, Settle, ChargedPayment, WritePayment
  <2>4. \A b \in Action \ {a} : PaymentOf[b] \in Payment \ {p}
    BY <2>1, ExecutionAssumption DEF Solo
  <2>5. ASSUME NEW f \in Executor, pc'[f] \in Working
        PROVE  /\ seen'[f] < ceiling'[at'[f]]
               /\ outcome'[at'[f]] = "NONE" => seen'[f] = attempts'[PaymentOf[at'[f]]]
    <3>1. f # e /\ pc[f] \in Working
      BY <2>2, <2>5
    <3>2. at[f] \in Action
      BY <3>1
    <3>3. QED
      BY <2>2, <2>3, <2>4, <3>1, <3>2 DEF Approved
  <2>6. QED
    BY <2>5 DEF Approved
<1>3. CASE PersistBlocked(e)
  <2>1. UNCHANGED <<ceiling, at, seen>> /\ attempts' = attempts
    BY <1>3, ExecutionAssumption DEF PersistBlocked, WritePayment
  <2>2. \A a \in Action : outcome'[a] = "NONE" => outcome[a] = "NONE"
    BY <1>3 DEF PersistBlocked
  <2>3. \A f \in Executor : pc'[f] \in Working => pc[f] \in Working
    BY <1>3 DEF PersistBlocked
  <2>4. QED
    BY <2>1, <2>2, <2>3, StillApproved
<1>4. CASE \/ ClaimForExecution(e) \/ SendMessage(e) \/ BreakerAllows(e) \/ BreakerBlocks(e)
           \/ ChargeAnswered(e) \/ GatewayFailure(e) \/ Reschedule(e)
  <2>1. UNCHANGED <<attempts, ceiling, outcome, at, seen>>
    BY <1>4 DEF ClaimForExecution, ClaimIf, SendMessage, BreakerAllows, BreakerBlocks,
                ChargeAnswered, GatewayFailure, Reschedule
  <2>2. \A f \in Executor : pc'[f] \in Working => pc[f] \in Working
    BY <1>4 DEF ClaimForExecution, ClaimIf, SendMessage, BreakerAllows, BreakerBlocks,
                ChargeAnswered, GatewayFailure, Reschedule, Effect
  <2>3. QED
    BY <2>1, <2>2, StillApproved
<1>5. CASE DuplicateOutcome(e) \/ MoveToDelayed(e) \/ Finish(e)
  <2>1. UNCHANGED <<attempts, ceiling, outcome>> /\ EndExecution(e)
    BY <1>5 DEF DuplicateOutcome, Throw, MoveToDelayed, Finish
  <2>2. QED
    BY <2>1, StillApproved DEF EndExecution
<1> QED
  BY <1>1, <1>2, <1>3, <1>4, <1>5 DEF Execute

\* Deliveries, faults and time approve nobody.
LEMMA CElse ==
  ASSUME CInv,
         \/ \E e \in Executor, a \in Action : Deliver(e, a) \/ StartDemo(e, a)
         \/ \E e \in Executor : InfraFault(e) \/ Crash(e)
         \/ \E a \in Action : Stall(a) \/ AgeExecution(a)
         \/ UNCHANGED vars
  PROVE  Approved'
<1> USE DEF CInv, AInv, TInv, TypeOK, payVars, rowVars, queueVars, execVars, apiVars, ghostVars
<1>1. UNCHANGED <<attempts, ceiling, outcome>>
  BY DEF Deliver, StartDemo, InfraFault, Throw, Crash, Stall, AgeExecution, vars
<1>2. \A f \in Executor : pc'[f] \in Working =>
          pc[f] \in Working /\ at'[f] = at[f] /\ seen'[f] = seen[f]
  BY DEF Deliver, StartDemo, Begin, InfraFault, Throw, Crash, EndExecution, Stall, AgeExecution,
         vars, Working
<1>3. QED
  BY <1>1, <1>2, StillApproved

\* CInv is inductive where payments have one action each.
LEMMA CStep == Solo /\ CInv /\ [Next]_vars => CInv'
<1> SUFFICES ASSUME Solo, CInv, [Next]_vars PROVE CInv'
  OBVIOUS
<1>1. AInv'
  BY AStep DEF CInv
<1>2. CASE Next
  BY <1>1, <1>2, CRequest, CExecute, CElse DEF Next, Executor, CInv
<1>3. CASE UNCHANGED vars
  BY <1>1, <1>3, CElse DEF CInv
<1> QED
  BY <1>2, <1>3

\* The approvals of every reachable state.
LEMMA CAlways == ASSUME Solo PROVE Spec => []CInv
<1>1. Init => CInv
  <2>1. Init => Approved
    BY DEF Init, Approved, Working
  <2>2. QED
    BY <2>1, AInit DEF CInv
<1>2. QED
  BY <1>1, CStep, PTL DEF Spec, Solo

\* What one step records of an only action: its charge, counted under the ceiling
\* that was read.
LEMMA ChargeWithinCeiling ==
  ASSUME Solo, CInv, NEW e \in Executor, PersistOutcome(e), NEW p \in Payment,
         NEW a \in ChargesRecorded(p)' \ ChargesRecorded(p)
  PROVE  /\ a = at[e] /\ a \in Action /\ p = PaymentOf[a] /\ verdict[e] \in {"captured", "declined"}
         /\ attempts'[p] = seen[e] + 1 /\ attempts'[p] <= ceiling[a] /\ ceiling[a] \in Nat
<1> USE DEF CInv, AInv, TInv, TypeOK, Located
<1>1. PICK b \in Action, q \in Payment : b = at[e] /\ q = PaymentOf[b]
  BY ExecutionAssumption DEF PersistOutcome, Settle
<1>2. /\ pc[e] = "settle" /\ outcome[b] = "NONE" /\ kind' = kind
      /\ \A c \in Action \ {b} : outcome'[c] = outcome[c]
  BY <1>1 DEF PersistOutcome, Settle, WriteRow
<1>3. a = b /\ p = q /\ kind[b] = "CHARGE"
  BY <1>1, <1>2 DEF ChargesRecorded
<1>4. verdict[e] \in {"captured", "declined"}
  BY <1>1, <1>2, <1>3 DEF Purposeful
<1>5. attempts' = [attempts EXCEPT ![q] = @ + 1]
  BY <1>1, <1>4 DEF PersistOutcome, Settle, ChargedPayment, WritePayment
<1>6. seen[e] < ceiling[b] /\ seen[e] = attempts[q]
  BY <1>1, <1>2 DEF Approved, Working
<1>7. seen[e] \in Nat /\ ceiling[b] \in Nat /\ attempts'[q] = seen[e] + 1
  BY <1>5, <1>6
<1>8. QED
  BY <1>1, <1>3, <1>4, <1>6, <1>7

\* Only recording an outcome records a charge.
LEMMA OnlySettlingCharges ==
  ASSUME CInv, [Next]_vars, \A e \in Executor : ~PersistOutcome(e), NEW p \in Payment
  PROVE  ChargesRecorded(p)' = ChargesRecorded(p)
<1> USE DEF CInv, AInv, TInv, TypeOK, Located, Decided,
        payVars, rowVars, queueVars, execVars, apiVars, ghostVars
<1>1. ASSUME NEW h \in Api, Request(h)
      PROVE  outcome' = outcome /\ \A a \in Action : outcome[a] # "NONE" => kind'[a] = kind[a]
  BY <1>1 DEF Request, LoadDecision, LoadForEnqueue, PersistDecision, DecisionDuplicate,
              QueueAdd, MarkScheduled, WriteRow, RequestFails
<1>2. ASSUME NEW e \in Executor, PersistBlocked(e)
      PROVE  /\ kind' = kind
             /\ \A a \in Action : outcome'[a] = outcome[a]
                    \/ (outcome[a] = "NONE" /\ outcome'[a] \in {"BLOCKED", "CANCELLED"})
  BY <1>2 DEF PersistBlocked, WriteRow
<1>3. ASSUME NEW e \in Executor, Execute(e), ~PersistBlocked(e)
      PROVE  kind' = kind /\ outcome' = outcome
  BY <1>3 DEF Execute, LoadExecutionContext, ClaimForExecution, ClaimIf, WriteRow, SendMessage,
              BreakerAllows, BreakerBlocks, ChargeAnswered, GatewayFailure, Reschedule,
              DuplicateOutcome, Throw, MoveToDelayed, Finish
<1>4. CASE \/ \E e \in Executor, a \in Action : Deliver(e, a) \/ StartDemo(e, a)
           \/ \E e \in Executor : InfraFault(e) \/ Crash(e)
           \/ \E a \in Action : Stall(a) \/ AgeExecution(a)
           \/ UNCHANGED vars
  <2>1. kind' = kind /\ outcome' = outcome
    BY <1>4 DEF Deliver, StartDemo, InfraFault, Throw, Crash, Stall, AgeExecution, vars
  <2>2. QED
    BY <2>1 DEF ChargesRecorded
<1>5. ASSUME NEW h \in Api, Request(h)
      PROVE  ChargesRecorded(p)' = ChargesRecorded(p)
  BY <1>1, <1>5 DEF ChargesRecorded
<1>6. ASSUME NEW e \in Executor, Execute(e)
      PROVE  ChargesRecorded(p)' = ChargesRecorded(p)
  BY <1>2, <1>3, <1>6 DEF ChargesRecorded
<1>7. QED
  BY <1>4, <1>5, <1>6 DEF Next, Executor

-----------------------------------------------------------------------------
(* How far a ceiling can be passed by actions that share it.                *)

\* What can be scheduled was given a ceiling by the policy.
CeilingsGiven == \A a \in Action : kind[a] \in Schedulable => ceiling[a] \in Ceilings

\* The executors let past the re-check that have not recorded what they do for p.
Through(p) == {e \in Executor : pc[e] \in Working /\ PaymentOf[at[e]] = p}

\* If all of them recorded a charge, p would still be under the bound: the last one let
\* through found the count under its ceiling, and there are no more executors than these.
WithinOvershoot(p) ==
    \E c \in Ceilings : attempts[p] + Cardinality(Through(p)) < c + Cardinality(Executor)

Bounded == \A p \in Payment : attempts[p] > 1 \/ Through(p) # {} => WithinOvershoot(p)

OInv == AInv /\ CeilingsGiven /\ Bounded

\* Any number of executors let through is a number, and no more than there are.
LEMMA ThroughCounted ==
  ASSUME NEW S \in SUBSET Executor, NEW T \in SUBSET S
  PROVE  /\ IsFiniteSet(S) /\ Cardinality(S) \in Nat /\ Cardinality(T) \in Nat
         /\ Cardinality(T) <= Cardinality(S)
         /\ Cardinality(S) <= Cardinality(Executor) /\ Cardinality(Executor) \in Nat
<1>1. IsFiniteSet(Executor)
  BY ExecutionAssumption, FS_Union DEF Executor
<1>2. IsFiniteSet(S) /\ Cardinality(S) <= Cardinality(Executor)
  BY <1>1, FS_Subset
<1>3. IsFiniteSet(T) /\ Cardinality(T) <= Cardinality(S)
  BY <1>2, FS_Subset
<1>4. QED
  BY <1>1, <1>2, <1>3, FS_CardinalityType

\* A payment that counts no charge in a step and has nobody new let through stays bounded.
LEMMA NobodyNew ==
  ASSUME OInv, NEW p \in Payment, attempts'[p] = attempts[p], Through(p)' \subseteq Through(p)
  PROVE  attempts'[p] > 1 \/ Through(p)' # {} => WithinOvershoot(p)'
<1> SUFFICES ASSUME attempts'[p] > 1 \/ Through(p)' # {}
             PROVE  WithinOvershoot(p)'
  OBVIOUS
<1>1. PICK c \in Ceilings : attempts[p] + Cardinality(Through(p)) < c + Cardinality(Executor)
  BY DEF OInv, Bounded, WithinOvershoot
<1>2. /\ Cardinality(Through(p)') <= Cardinality(Through(p)) /\ Cardinality(Executor) \in Nat
      /\ Cardinality(Through(p)) \in Nat /\ Cardinality(Through(p)') \in Nat
  <2>1. Through(p) \in SUBSET Executor /\ Through(p)' \in SUBSET Through(p)
    BY DEF Through
  <2> HIDE DEF Through
  <2>2. QED
    BY <2>1, ThroughCounted
<1>3. attempts[p] \in Nat /\ c \in Nat
  BY ExecutionAssumption DEF OInv, AInv, TInv, TypeOK
<1>4. attempts'[p] + Cardinality(Through(p)') < c + Cardinality(Executor)
  BY <1>1, <1>2, <1>3
<1>5. QED
  BY <1>4 DEF WithinOvershoot

\* A step that lets nobody through, counts nothing and gives no ceiling away keeps all.
LEMMA StillBounded ==
  ASSUME OInv, AInv', attempts' = attempts,
         \A a \in Action : <<kind'[a], ceiling'[a]>> = <<kind[a], ceiling[a]>>,
         \A e \in Executor : pc'[e] \in Working => pc[e] \in Working /\ at'[e] = at[e]
  PROVE  OInv'
<1>1. CeilingsGiven'
  BY DEF OInv, CeilingsGiven
<1>2. \A p \in Payment : Through(p)' \subseteq Through(p)
  BY DEF Through
<1>3. Bounded'
  BY <1>2, NobodyNew DEF Bounded
<1> QED
  BY <1>1, <1>3 DEF OInv

\* A decision gives what it schedules one of the policy's ceilings; requests let nobody
\* through.
LEMMA ORequest ==
  ASSUME OInv, AInv', NEW h \in Api, Request(h)
  PROVE  OInv'
<1> USE DEF OInv, AInv, TInv, TypeOK, Located, payVars, rowVars, queueVars, execVars, ghostVars
<1>1. CASE PersistDecision(h)
  <2>1. UNCHANGED <<pc, at>> /\ aat[h] \in Action
    BY <1>1 DEF PersistDecision
  <2>2. attempts' = attempts
    BY <1>1, ExecutionAssumption DEF PersistDecision, WritePayment
  <2>3. PICK k \in Decisions(aseen[h]) :
            /\ kind' = [kind EXCEPT ![aat[h]] = k]
            /\ \E c \in IF k \in Schedulable THEN Ceilings ELSE {0} :
                 ceiling' = [ceiling EXCEPT ![aat[h]] = c]
    BY <1>1 DEF PersistDecision
  <2>4. PICK c \in IF k \in Schedulable THEN Ceilings ELSE {0} :
                 ceiling' = [ceiling EXCEPT ![aat[h]] = c]
    BY <2>3
  <2>5. CeilingsGiven'
    BY <2>1, <2>3, <2>4 DEF CeilingsGiven
  <2>6. \A p \in Payment : Through(p)' = Through(p)
    BY <2>1 DEF Through
  <2>7. Bounded'
    BY <2>2, <2>6, NobodyNew DEF Bounded
  <2>8. QED
    BY <2>5, <2>7
<1>2. CASE ~PersistDecision(h)
  <2>1. UNCHANGED <<kind, ceiling, pc, at>>
    BY <1>2 DEF Request, LoadDecision, LoadForEnqueue, DecisionDuplicate, QueueAdd,
                MarkScheduled, WriteRow, RequestFails
  <2>2. attempts' = attempts
    BY <1>2, ExecutionAssumption
    DEF Request, LoadDecision, LoadForEnqueue, DecisionDuplicate, QueueAdd, MarkScheduled,
        WritePayment, RequestFails
  <2>3. QED
    BY <2>1, <2>2, StillBounded
<1> QED
  BY <1>1, <1>2

\* The re-check lets an executor through under the ceiling of its action, however many
\* are already through; what it records, it no longer holds open.
LEMMA OExecute ==
  ASSUME OInv, AInv', NEW e \in Executor, Execute(e)
  PROVE  OInv'
<1> USE DEF OInv, AInv, TInv, TypeOK, Located, payVars, rowVars, queueVars, apiVars, ghostVars,
        Goto, WriteRow, Working
<1>1. CASE LoadExecutionContext(e)
  <2>1. PICK a \in Action, p \in Payment : a = at[e] /\ p = PaymentOf[a]
    BY <1>1, ExecutionAssumption DEF LoadExecutionContext
  <2>2. /\ UNCHANGED <<attempts, kind, ceiling, at>>
        /\ \A f \in Executor \ {e} : pc'[f] = pc[f]
    BY <1>1 DEF LoadExecutionContext
  <2>3. CASE pc'[e] \notin Working
    <3>1. \A f \in Executor : pc'[f] \in Working => pc[f] \in Working /\ at'[f] = at[f]
      BY <2>2, <2>3
    <3>2. QED
      BY <2>2, <3>1, StillBounded
  <2>4. CASE pc'[e] \in Working
    <3>1. SafetyBlock(a) = "none"
      BY <1>1, <2>1, <2>4 DEF LoadExecutionContext
    <3>2. kind[a] \in Schedulable /\ ~(attempts[p] >= ceiling[a])
      BY <2>1, <3>1 DEF SafetyBlock
    <3>3. ceiling[a] \in Ceilings /\ attempts[p] \in Nat /\ ceiling[a] \in Nat
      BY <2>1, <3>2 DEF CeilingsGiven
    <3>4. attempts[p] < ceiling[a]
      BY <3>2, <3>3
    <3>5. Cardinality(Through(p)') <= Cardinality(Executor) /\ Cardinality(Through(p)') \in Nat
          /\ Cardinality(Executor) \in Nat
      <4>1. Through(p)' \in SUBSET Executor /\ Through(p)' \in SUBSET (Through(p)')
        BY DEF Through
      <4> HIDE DEF Through
      <4>2. QED
        BY <4>1, ThroughCounted
    <3>6. attempts'[p] + Cardinality(Through(p)') < ceiling[a] + Cardinality(Executor)
      BY <2>2, <3>3, <3>4, <3>5
    <3>7. WithinOvershoot(p)'
      BY <3>3, <3>6 DEF WithinOvershoot
    <3>8. ASSUME NEW q \in Payment \ {p}
          PROVE  attempts'[q] > 1 \/ Through(q)' # {} => WithinOvershoot(q)'
      <4>1. Through(q)' \subseteq Through(q)
        BY <2>1, <2>2 DEF Through
      <4>2. QED
        BY <2>2, <4>1, NobodyNew
    <3>9. Bounded'
      BY <3>7, <3>8 DEF Bounded
    <3>10. CeilingsGiven'
      BY <2>2 DEF CeilingsGiven
    <3>11. QED
      BY <3>9, <3>10
  <2>5. QED
    BY <2>3, <2>4
<1>2. CASE PersistOutcome(e)
  <2>1. PICK a \in Action, p \in Payment : a = at[e] /\ p = PaymentOf[a]
    BY <1>2, ExecutionAssumption DEF PersistOutcome, Settle
  <2>2. /\ UNCHANGED <<kind, ceiling, at>> /\ pc[e] = "settle" /\ pc'[e] = "finish"
        /\ \A f \in Executor \ {e} : pc'[f] = pc[f]
    BY <1>2 DEF PersistOutcome, Settle
  <2>3. \A q \in Payment \ {p} : attempts'[q] = attempts[q]
    BY <1>2, <2>1 DEF PersistOutcome, Settle, ChargedPayment, WritePayment
  <2>4. attempts'[p] = attempts[p] \/ attempts'[p] = attempts[p] + 1
    BY <1>2, <2>1 DEF PersistOutcome, Settle, ChargedPayment, WritePayment
  <2>5. Through(p)' = Through(p) \ {e} /\ e \in Through(p)
    BY <2>1, <2>2 DEF Through
  <2>6. PICK c \in Ceilings : attempts[p] + Cardinality(Through(p)) < c + Cardinality(Executor)
    BY <2>5 DEF Bounded, WithinOvershoot
  <2>7. /\ IsFiniteSet(Through(p)) /\ Cardinality(Through(p)) \in Nat
        /\ Cardinality(Through(p)') \in Nat /\ Cardinality(Executor) \in Nat
    <3>1. Through(p) \in SUBSET Executor /\ Through(p)' \in SUBSET Through(p)
      BY <2>5 DEF Through
    <3> HIDE DEF Through
    <3>2. QED
      BY <3>1, ThroughCounted
  <2>8. Cardinality(Through(p)') = Cardinality(Through(p)) - 1
    <3>1. ASSUME NEW S, IsFiniteSet(S), e \in S
          PROVE  Cardinality(S \ {e}) = Cardinality(S) - 1
      BY <3>1, FS_RemoveElement
    <3>2. QED
      BY <2>5, <2>7, <3>1
  <2>9. attempts[p] \in Nat /\ c \in Nat
    BY ExecutionAssumption
  <2>10. attempts'[p] + Cardinality(Through(p)') < c + Cardinality(Executor)
    BY <2>4, <2>6, <2>7, <2>8, <2>9
  <2>11. WithinOvershoot(p)'
    BY <2>10 DEF WithinOvershoot
  <2>12. ASSUME NEW q \in Payment \ {p}
         PROVE  attempts'[q] > 1 \/ Through(q)' # {} => WithinOvershoot(q)'
    <3>1. Through(q)' \subseteq Through(q)
      BY <2>1, <2>2 DEF Through
    <3>2. QED
      BY <2>3, <3>1, NobodyNew
  <2>13. Bounded'
    BY <2>11, <2>12 DEF Bounded
  <2>14. CeilingsGiven'
    BY <2>2 DEF CeilingsGiven
  <2>15. QED
    BY <2>13, <2>14
<1>3. CASE PersistBlocked(e)
  <2>1. UNCHANGED <<kind, ceiling, at>> /\ attempts' = attempts
    BY <1>3, ExecutionAssumption DEF PersistBlocked, WritePayment
  <2>2. \A f \in Executor : pc'[f] \in Working => pc[f] \in Working
    BY <1>3 DEF PersistBlocked
  <2>3. QED
    BY <2>1, <2>2, StillBounded
<1>4. CASE \/ ClaimForExecution(e) \/ SendMessage(e) \/ BreakerAllows(e) \/ BreakerBlocks(e)
           \/ ChargeAnswered(e) \/ GatewayFailure(e) \/ Reschedule(e)
  <2>1. UNCHANGED <<attempts, kind, ceiling, at>>
    BY <1>4 DEF ClaimForExecution, ClaimIf, SendMessage, BreakerAllows, BreakerBlocks,
                ChargeAnswered, GatewayFailure, Reschedule
  <2>2. \A f \in Executor : pc'[f] \in Working => pc[f] \in Working
    BY <1>4 DEF ClaimForExecution, ClaimIf, SendMessage, BreakerAllows, BreakerBlocks,
                ChargeAnswered, GatewayFailure, Reschedule, Effect
  <2>3. QED
    BY <2>1, <2>2, StillBounded
<1>5. CASE DuplicateOutcome(e) \/ MoveToDelayed(e) \/ Finish(e)
  <2>1. UNCHANGED <<attempts, kind, ceiling>> /\ EndExecution(e)
    BY <1>5 DEF DuplicateOutcome, Throw, MoveToDelayed, Finish
  <2>2. QED
    BY <2>1, StillBounded DEF EndExecution
<1> QED
  BY <1>1, <1>2, <1>3, <1>4, <1>5 DEF Execute

\* Deliveries, faults and time let nobody through and count nothing.
LEMMA OElse ==
  ASSUME OInv, AInv',
         \/ \E e \in Executor, a \in Action : Deliver(e, a) \/ StartDemo(e, a)
         \/ \E e \in Executor : InfraFault(e) \/ Crash(e)
         \/ \E a \in Action : Stall(a) \/ AgeExecution(a)
         \/ UNCHANGED vars
  PROVE  OInv'
<1> USE DEF OInv, AInv, TInv, TypeOK, payVars, rowVars, queueVars, execVars, apiVars, ghostVars
<1>1. UNCHANGED <<attempts, kind, ceiling>>
  BY DEF Deliver, StartDemo, InfraFault, Throw, Crash, Stall, AgeExecution, vars
<1>2. \A f \in Executor : pc'[f] \in Working => pc[f] \in Working /\ at'[f] = at[f]
  BY DEF Deliver, StartDemo, Begin, InfraFault, Throw, Crash, EndExecution, Stall, AgeExecution,
         vars, Working
<1>3. QED
  BY <1>1, <1>2, StillBounded

\* OInv is inductive.
LEMMA OStep == OInv /\ [Next]_vars => OInv'
<1> SUFFICES ASSUME OInv, [Next]_vars PROVE OInv'
  OBVIOUS
<1>1. AInv'
  BY AStep DEF OInv
<1>2. CASE Next
  BY <1>1, <1>2, ORequest, OExecute, OElse DEF Next, Executor
<1>3. CASE UNCHANGED vars
  BY <1>1, <1>3, OElse
<1> QED
  BY <1>2, <1>3

\* However many actions of a payment are queued and whatever is reclaimed under a live
\* executor, crashes or is handed over: the charges that pass its ceiling are fewer than
\* the executors, because one was let through under it and the rest must overlap that one.
THEOREM OvershootIsBounded == Spec => []CeilingOvershoot
<1>1. Init => OInv
  <2>1. Init => CeilingsGiven
    BY DEF Init, CeilingsGiven, Schedulable
  <2>2. Init => Bounded
    BY DEF Init, Bounded, Through, Working
  <2>3. QED
    BY <2>1, <2>2, AInit DEF OInv
<1>2. OInv => CeilingOvershoot
  <2> SUFFICES ASSUME OInv, NEW p \in Payment, attempts[p] > 1
               PROVE  \E c \in Ceilings : attempts[p] < c + Cardinality(Executor)
    BY DEF CeilingOvershoot
  <2>1. PICK c \in Ceilings : attempts[p] + Cardinality(Through(p)) < c + Cardinality(Executor)
    BY DEF OInv, Bounded, WithinOvershoot
  <2>2. Cardinality(Through(p)) \in Nat /\ Cardinality(Executor) \in Nat
    <3>1. Through(p) \in SUBSET Executor /\ Through(p) \in SUBSET Through(p)
      BY DEF Through
    <3> HIDE DEF Through
    <3>2. QED
      BY <3>1, ThroughCounted
  <2>3. attempts[p] \in Nat /\ c \in Nat
    BY ExecutionAssumption DEF OInv, AInv, TInv, TypeOK
  <2>4. QED
    BY <2>1, <2>2, <2>3
<1>3. QED
  BY <1>1, <1>2, OStep, PTL DEF Spec

-----------------------------------------------------------------------------
(* What the payment says of its charge.                                    *)

\* Where enqueues do not overlap executions, a row that can still be enqueued, or is
\* being enqueued, has no outcome that the write of the enqueue could bury.
Unhanded ==
    \A a \in Action :
        /\ status[a] = "PENDING" => outcome[a] = "NONE"
        /\ Enqueuing(a) => outcome[a] = "NONE" /\ ~Busy(a)

PInv == CInv /\ Unhanded /\ PaymentFollowsOutcome

\* Enqueues are kept apart from executions by every step.
LEMMA UHRequest ==
  ASSUME ~EnqueueRaces, CInv, Unhanded, NEW h \in Api, Request(h)
  PROVE  Unhanded'
<1> USE DEF CInv, AInv, TInv, TypeOK, Located, Decided, Unhanded, Enqueuing, Busy,
        payVars, rowVars, queueVars, execVars, ghostVars, EndRequest
<1>1. ASSUME NEW a \in Action, LoadDecision(h, a) \/ LoadForEnqueue(h, a)
      PROVE  Unhanded'
  BY <1>1 DEF LoadDecision, LoadForEnqueue
<1>2. CASE PersistDecision(h)
  <2>1. UNCHANGED <<outcome, pc, at>>
    BY <1>2 DEF PersistDecision
  <2>2. \A a \in Action : outcome[a] # "NONE" => status[a] # "NONE"
    OBVIOUS
  <2>3. \A a \in Action : status'[a] = "PENDING" => status[a] = "PENDING" \/ status[a] = "NONE"
    BY <1>2 DEF PersistDecision, InitialStatus
  <2>4. QED
    BY <1>2, <2>1, <2>2, <2>3 DEF PersistDecision
<1>3. CASE DecisionDuplicate(h) \/ QueueAdd(h) \/ RequestFails(h)
  BY <1>3 DEF DecisionDuplicate, QueueAdd, RequestFails
<1>4. CASE MarkScheduled(h)
  BY <1>4 DEF MarkScheduled, WriteRow
<1> QED
  BY <1>1, <1>2, <1>3, <1>4 DEF Request

\* An execution writes the row together with its outcome, and nobody enqueues what it
\* is working on.
LEMMA UHExecute ==
  ASSUME CInv, Unhanded, NEW e \in Executor, Execute(e)
  PROVE  Unhanded'
<1> USE DEF CInv, AInv, TInv, TypeOK, Located, Unhanded, Enqueuing, Busy,
        payVars, rowVars, queueVars, apiVars, ghostVars
<1>1. UNCHANGED <<apc, aat>>
  BY DEF Execute, LoadExecutionContext, PersistBlocked, ClaimForExecution, ClaimIf, SendMessage,
         BreakerAllows, BreakerBlocks, ChargeAnswered, GatewayFailure, Reschedule, PersistOutcome,
         Settle, DuplicateOutcome, Throw, MoveToDelayed, Finish
<1>2. pc[e] # "idle" /\ \A f \in Executor \ {e} : pc'[f] = pc[f] /\ at'[f] = at[f]
  BY DEF Execute, LoadExecutionContext, PersistBlocked, ClaimForExecution, ClaimIf, SendMessage,
         BreakerAllows, BreakerBlocks, ChargeAnswered, GatewayFailure, Reschedule, PersistOutcome,
         Settle, DuplicateOutcome, Throw, MoveToDelayed, Finish, Effect, Goto, EndExecution
<1>3. at'[e] = at[e] \/ pc'[e] = "idle"
  BY DEF Execute, LoadExecutionContext, PersistBlocked, ClaimForExecution, ClaimIf, SendMessage,
         BreakerAllows, BreakerBlocks, ChargeAnswered, GatewayFailure, Reschedule, PersistOutcome,
         Settle, DuplicateOutcome, Throw, MoveToDelayed, Finish, Effect, Goto, EndExecution
<1>4. \A a \in Action : Busy(a)' => Busy(a)
  BY <1>2, <1>3
<1>5. \A a \in Action : outcome'[a] # outcome[a] => a = at[e] /\ status'[a] # "PENDING"
  BY DEF Execute, LoadExecutionContext, PersistBlocked, ClaimForExecution, ClaimIf, SendMessage,
         BreakerAllows, BreakerBlocks, ChargeAnswered, GatewayFailure, Reschedule, PersistOutcome,
         Settle, DuplicateOutcome, Throw, MoveToDelayed, Finish, WriteRow
<1>6. \A a \in Action : status'[a] = "PENDING" => status[a] = "PENDING"
  BY DEF Execute, LoadExecutionContext, PersistBlocked, ClaimForExecution, ClaimIf, SendMessage,
         BreakerAllows, BreakerBlocks, ChargeAnswered, GatewayFailure, Reschedule, PersistOutcome,
         Settle, DuplicateOutcome, Throw, MoveToDelayed, Finish, WriteRow
<1>7. ASSUME NEW a \in Action, Enqueuing(a)'
      PROVE  outcome'[a] = "NONE" /\ ~Busy(a)'
  <2>1. Enqueuing(a)
    BY <1>1, <1>7
  <2>2. ~Busy(a) /\ outcome[a] = "NONE"
    BY <2>1
  <2>3. a # at[e]
    BY <1>2, <2>2
  <2>4. QED
    BY <1>4, <1>5, <2>2, <2>3
<1> HIDE DEF Enqueuing, Busy
<1>8. QED
  BY <1>5, <1>6, <1>7

\* Nobody is handed an action that is being enqueued.
LEMMA UHElse ==
  ASSUME ~EnqueueRaces, CInv, Unhanded,
         \/ \E e \in Executor, a \in Action : Deliver(e, a) \/ StartDemo(e, a)
         \/ \E e \in Executor : InfraFault(e) \/ Crash(e)
         \/ \E a \in Action : Stall(a) \/ AgeExecution(a)
         \/ UNCHANGED vars
  PROVE  Unhanded'
<1> USE DEF CInv, AInv, TInv, TypeOK, Unhanded, Enqueuing, Busy,
        payVars, rowVars, queueVars, execVars, apiVars, ghostVars
<1>1. ASSUME NEW e \in Executor, NEW a \in Action, Deliver(e, a) \/ StartDemo(e, a)
      PROVE  Unhanded'
  BY <1>1 DEF Deliver, StartDemo, Begin
<1>2. ASSUME NEW e \in Executor, InfraFault(e) \/ Crash(e)
      PROVE  Unhanded'
  BY <1>2 DEF InfraFault, Throw, Crash, EndExecution
<1>3. ASSUME NEW a \in Action, Stall(a) \/ AgeExecution(a)
      PROVE  Unhanded'
  BY <1>3 DEF Stall, AgeExecution
<1>4. CASE UNCHANGED vars
  BY <1>4 DEF vars
<1> QED
  BY <1>1, <1>2, <1>3, <1>4

\* A step that neither records a charge nor writes the payment of a recorded one.
LEMMA StillFollows ==
  ASSUME PInv,
         \A p \in Payment : ChargesRecorded(p)' = ChargesRecorded(p),
         \A a \in Action : outcome[a] # "NONE" => outcome'[a] = outcome[a] /\ ceiling'[a] = ceiling[a],
         \A p \in Payment : ChargesRecorded(p) # {} =>
             payStatus'[p] = payStatus[p] /\ recStatus'[p] = recStatus[p] /\ attempts'[p] = attempts[p]
  PROVE  PaymentFollowsOutcome'
<1>1. \A p \in Payment : \A a \in ChargesRecorded(p) : a \in Action /\ outcome[a] # "NONE"
  BY DEF ChargesRecorded
<1>2. QED
  BY <1>1 DEF PInv, PaymentFollowsOutcome

\* Requests do not write a payment that has a charge: its only action is decided on,
\* and not being enqueued any more.
LEMMA PRequest ==
  ASSUME Solo, PInv, NEW h \in Api, Request(h)
  PROVE  PaymentFollowsOutcome'
<1> USE DEF PInv, CInv, AInv, TInv, TypeOK, Located, Decided, Unhanded,
        payVars, rowVars, queueVars, execVars, ghostVars
<1>1. \A p \in Payment : ChargesRecorded(p)' = ChargesRecorded(p)
  <2>1. \A e \in Executor : ~PersistOutcome(e)
    BY DEF Request, LoadDecision, LoadForEnqueue, PersistDecision, DecisionDuplicate, QueueAdd,
           MarkScheduled, RequestFails, PersistOutcome, Settle
  <2>2. [Next]_vars
    BY DEF Next
  <2>3. QED
    BY <2>1, <2>2, OnlySettlingCharges
<1>2. outcome' = outcome /\ \A a \in Action : status[a] # "NONE" => ceiling'[a] = ceiling[a]
  BY DEF Request, LoadDecision, LoadForEnqueue, PersistDecision, DecisionDuplicate, QueueAdd,
         MarkScheduled, RequestFails, WriteRow
<1>3. ASSUME NEW p \in Payment, ChargesRecorded(p) # {}
      PROVE  payStatus'[p] = payStatus[p] /\ recStatus'[p] = recStatus[p] /\ attempts'[p] = attempts[p]
  <2>1. PICK a \in Action : PaymentOf[a] = p /\ outcome[a] # "NONE"
    BY <1>3 DEF ChargesRecorded
  <2>2. status[a] # "NONE" /\ ~Enqueuing(a)
    BY <2>1
  <2>3. \A b \in Action \ {a} : PaymentOf[b] # p
    BY <2>1 DEF Solo
  <2>4. CASE PersistDecision(h)
    <3>1. aat[h] \in Action /\ aat[h] # a
      BY <2>2, <2>4 DEF PersistDecision
    <3>2. PaymentOf[aat[h]] # p
      BY <2>3, <3>1
    <3>3. QED
      BY <2>4, <3>2 DEF PersistDecision, WritePayment
  <2>5. CASE MarkScheduled(h)
    <3>1. aat[h] \in Action /\ aat[h] # a
      BY <2>2, <2>5 DEF MarkScheduled, Enqueuing
    <3>2. PaymentOf[aat[h]] # p
      BY <2>3, <3>1
    <3>3. QED
      BY <2>5, <3>2 DEF MarkScheduled, WritePayment
  <2>6. CASE ~PersistDecision(h) /\ ~MarkScheduled(h)
    BY <2>6 DEF Request, LoadDecision, LoadForEnqueue, DecisionDuplicate, QueueAdd, RequestFails
  <2>7. QED
    BY <2>4, <2>5, <2>6
<1>4. QED
  BY <1>1, <1>2, <1>3, StillFollows

\* Recording the charge of the only action says what became of it, against the ceiling
\* and the count that were read; a refusal is recorded only if nothing was.
LEMMA PExecute ==
  ASSUME Solo, PInv, NEW e \in Executor, Execute(e)
  PROVE  PaymentFollowsOutcome'
<1> USE DEF PInv, CInv, AInv, TInv, TypeOK, Located,
        payVars, rowVars, queueVars, apiVars, ghostVars
<1>1. CASE PersistOutcome(e)
  <2>1. PICK a \in Action, p \in Payment : a = at[e] /\ p = PaymentOf[a]
    BY <1>1, ExecutionAssumption DEF PersistOutcome, Settle
  <2>2. /\ outcome[a] = "NONE" /\ UNCHANGED <<kind, ceiling>>
        /\ outcome' = [outcome EXCEPT ![a] = IF verdict[e] = "declined" THEN "FAILED" ELSE "SUCCESS"]
    BY <1>1, <2>1 DEF PersistOutcome, Settle, WriteRow
  <2>3. /\ \A q \in Payment \ {p} : /\ payStatus'[q] = payStatus[q]
                                    /\ recStatus'[q] = recStatus[q]
                                    /\ attempts'[q] = attempts[q]
    BY <1>1, <2>1 DEF PersistOutcome, Settle, ChargedPayment, WritePayment
  <2>4. ASSUME NEW q \in Payment \ {p}, NEW b \in ChargesRecorded(q)'
        PROVE  <<payStatus[q], recStatus[q]>>' =
                  (IF outcome[b] = "SUCCESS" THEN <<"SUCCEEDED", "RECOVERED">>
                   ELSE IF attempts[q] >= ceiling[b] THEN <<"EXHAUSTED", "EXHAUSTED">>
                   ELSE <<"RECOVERING", "RETRYING">>)'
    <3>1. b \in Action /\ b # a /\ b \in ChargesRecorded(q)
      BY <2>1, <2>2, <2>4 DEF ChargesRecorded
    <3>2. outcome'[b] = outcome[b] /\ ceiling'[b] = ceiling[b]
      BY <2>2, <3>1
    <3>3. QED
      BY <2>3, <2>4, <3>1, <3>2 DEF PaymentFollowsOutcome
  <2>5. ASSUME NEW b \in ChargesRecorded(p)'
        PROVE  <<payStatus[p], recStatus[p]>>' =
                  (IF outcome[b] = "SUCCESS" THEN <<"SUCCEEDED", "RECOVERED">>
                   ELSE IF attempts[p] >= ceiling[b] THEN <<"EXHAUSTED", "EXHAUSTED">>
                   ELSE <<"RECOVERING", "RETRYING">>)'
    <3>1. b = a
      BY <2>1, <2>5 DEF Solo, ChargesRecorded
    <3>2. b \in ChargesRecorded(p)' \ ChargesRecorded(p)
      BY <2>2, <2>5, <3>1 DEF ChargesRecorded
    <3>3. verdict[e] \in {"captured", "declined"} /\ attempts'[p] = seen[e] + 1
      BY <1>1, <3>2, ChargeWithinCeiling
    <3>4. CASE verdict[e] = "captured"
      <4>1. outcome'[b] = "SUCCESS"
        BY <2>2, <3>1, <3>4
      <4>2. payStatus'[p] = "SUCCEEDED" /\ recStatus'[p] = "RECOVERED"
        BY <1>1, <2>1, <3>4 DEF PersistOutcome, Settle, ChargedPayment, WritePayment
      <4>3. QED
        BY <4>1, <4>2
    <3>5. CASE verdict[e] = "declined"
      <4>1. outcome'[b] = "FAILED"
        BY <2>2, <3>1, <3>5
      <4>2. ceiling'[b] = ceiling[at[e]]
        BY <2>1, <2>2, <3>1
      <4>3. CASE seen[e] + 1 >= ceiling[at[e]]
        <5>1. payStatus'[p] = "EXHAUSTED" /\ recStatus'[p] = "EXHAUSTED"
          BY <1>1, <2>1, <3>5, <4>3 DEF PersistOutcome, Settle, ChargedPayment, WritePayment
        <5>2. QED
          BY <3>3, <4>1, <4>2, <4>3, <5>1
      <4>4. CASE ~(seen[e] + 1 >= ceiling[at[e]])
        <5>1. payStatus'[p] = "RECOVERING" /\ recStatus'[p] = "RETRYING"
          BY <1>1, <2>1, <3>5, <4>4 DEF PersistOutcome, Settle, ChargedPayment, WritePayment
        <5>2. QED
          BY <3>3, <4>1, <4>2, <4>4, <5>1
      <4>5. QED
        BY <4>3, <4>4
    <3>6. QED
      BY <3>3, <3>4, <3>5
  <2>6. QED
    BY <2>4, <2>5 DEF PaymentFollowsOutcome
<1>2. CASE ~PersistOutcome(e)
  <2>1. \A f \in Executor : ~PersistOutcome(f)
    <3>1. ASSUME NEW f \in Executor, PersistOutcome(f)
          PROVE  f = e
      <4>1. pc'[f] = "finish" /\ pc[f] = "settle"
        BY <3>1 DEF PersistOutcome, Settle, Goto
      <4>2. \A g \in Executor \ {e} : pc'[g] = pc[g]
        BY DEF Execute, LoadExecutionContext, PersistBlocked, ClaimForExecution, ClaimIf,
               SendMessage, BreakerAllows, BreakerBlocks, ChargeAnswered, GatewayFailure,
               Reschedule, PersistOutcome, Settle, DuplicateOutcome, Throw, MoveToDelayed, Finish,
               Effect, Goto, EndExecution
      <4>3. QED
        BY <4>1, <4>2
    <3>2. QED
      BY <1>2, <3>1
  <2>2. \A p \in Payment : ChargesRecorded(p)' = ChargesRecorded(p)
    <3>1. [Next]_vars
      BY DEF Next
    <3>2. QED
      BY <2>1, <3>1, OnlySettlingCharges
  <2>3. CASE PersistBlocked(e)
    <3>1. PICK a \in Action, p \in Payment : a = at[e] /\ p = PaymentOf[a]
      BY <2>3, ExecutionAssumption DEF PersistBlocked
    <3>2. outcome[a] = "NONE" /\ ceiling' = ceiling /\ \A b \in Action \ {a} : outcome'[b] = outcome[b]
      BY <2>3, <3>1 DEF PersistBlocked, WriteRow
    <3>3. ChargesRecorded(p) = {}
      BY <3>1, <3>2 DEF ChargesRecorded, Solo
    <3>4. \A q \in Payment \ {p} :
              payStatus'[q] = payStatus[q] /\ recStatus'[q] = recStatus[q] /\ attempts'[q] = attempts[q]
      BY <2>3, <3>1 DEF PersistBlocked, WritePayment
    <3>5. QED
      BY <2>2, <3>1, <3>2, <3>3, <3>4, StillFollows
  <2>4. CASE ~PersistBlocked(e)
    <3>1. UNCHANGED <<payStatus, recStatus, attempts, outcome, ceiling>>
      BY <1>2, <2>4 DEF Execute, LoadExecutionContext, ClaimForExecution, ClaimIf, WriteRow,
              SendMessage, BreakerAllows, BreakerBlocks, ChargeAnswered, GatewayFailure,
              Reschedule, DuplicateOutcome, Throw, MoveToDelayed, Finish
    <3>2. QED
      BY <2>2, <3>1, StillFollows
  <2>5. QED
    BY <2>3, <2>4
<1>3. QED
  BY <1>1, <1>2

\* PInv is inductive where payments have one action and enqueues do not overlap
\* executions.
LEMMA PStep == Solo /\ ~EnqueueRaces /\ PInv /\ [Next]_vars => PInv'
<1> SUFFICES ASSUME Solo, ~EnqueueRaces, PInv, [Next]_vars PROVE PInv'
  OBVIOUS
<1> USE DEF PInv
<1>1. CInv'
  BY CStep
<1>2. ASSUME NEW h \in Api, Request(h)
      PROVE  PInv'
  BY <1>1, <1>2, UHRequest, PRequest
<1>3. ASSUME NEW e \in Executor, Execute(e)
      PROVE  PInv'
  BY <1>1, <1>3, UHExecute, PExecute
<1>4. CASE \/ \E e \in Executor, a \in Action : Deliver(e, a) \/ StartDemo(e, a)
           \/ \E e \in Executor : InfraFault(e) \/ Crash(e)
           \/ \E a \in Action : Stall(a) \/ AgeExecution(a)
           \/ UNCHANGED vars
  <2>1. UNCHANGED <<payStatus, recStatus, attempts, kind, ceiling, outcome>>
    BY <1>4 DEF Deliver, StartDemo, InfraFault, Throw, Crash, Stall, AgeExecution, vars,
       payVars, rowVars
  <2>2. \A p \in Payment : ChargesRecorded(p)' = ChargesRecorded(p)
    BY <2>1 DEF ChargesRecorded
  <2>3. PaymentFollowsOutcome'
    BY <2>1, <2>2, StillFollows
  <2>4. Unhanded'
    BY <1>4, UHElse
  <2>5. QED
    BY <1>1, <2>3, <2>4
<1>5. QED
  BY <1>2, <1>3, <1>4 DEF Next, Executor

\* Where the payment has one action and enqueues do not overlap executions, its two
\* statuses say what became of its charge, whatever is claimed again, handed over,
\* refused or decided on meanwhile.
THEOREM PaymentsSayWhatHappened ==
  ASSUME Solo, ~EnqueueRaces PROVE Spec => []PaymentFollowsOutcome
<1>1. Init => PInv
  <2>1. Init => Unhanded /\ PaymentFollowsOutcome
    BY DEF Init, Unhanded, Enqueuing, PaymentFollowsOutcome, ChargesRecorded
  <2>2. Init => CInv
    BY AInit DEF Init, CInv, Approved, Working
  <2>3. QED
    BY <2>1, <2>2 DEF PInv
<1>2. PInv => PaymentFollowsOutcome
  BY DEF PInv
<1>3. QED
  BY <1>1, <1>2, PStep, PTL DEF Spec, Solo

-----------------------------------------------------------------------------
(* What becomes of queued work.                                            *)

\* Every execution is its job's: no demo executor beside the queue, no worker that goes
\* on after its job was handed over, and no enqueue that overlaps an execution.
OwnJob == Demo = {} /\ ~LockLoss /\ ~EnqueueRaces

\* So whoever is inside an action holds its job, and is the only one.
Alone ==
    \A e \in Executor : pc[e] # "idle" => job[at[e]] = "active" /\ holder[at[e]] = e

Apart == \A a \in Action : Enqueuing(a) => ~Busy(a)

Waiting(a) == status[a] \in {"PENDING", "SCHEDULED"}

\* A row that waits, or is being enqueued, has neither an outcome nor a completed job;
\* a job is marked only once it is there, and fails only when it used up its runs.
Queued ==
    /\ \A a \in Action :
        /\ Waiting(a) \/ Enqueuing(a) => outcome[a] = "NONE" /\ job[a] # "completed"
        /\ status[a] = "SCHEDULED" => job[a] # "none"
        /\ job[a] = "failed" => faults[a] = InfraAttempts \/ stalls[a] > MaxStalled
    /\ \A h \in Api : apc[h] = "mark" => job[aat[h]] # "none"

Unwritten == Holding \cup {"block", "claim"}

\* Until an executor writes the outcome nobody else does; it leaves with the row closed
\* or back in the queue; and the stop it did not see has cancelled what it would claim.
Onward ==
    \A e \in Executor :
        /\ pc[e] \in Unwritten => outcome[at[e]] = "NONE"
        /\ pc[e] = "finish" => ~Waiting(at[e])
        /\ pc[e] = "claim" /\ Waiting(at[e]) => payStatus[PaymentOf[at[e]]] # "HARD_STOPPED"

JInv == AInv /\ Alone /\ Apart /\ Queued /\ Onward /\ NothingForgotten

\* Nothing is queued at first, and nobody inside.
LEMMA JInit == Init => JInv
<1> SUFFICES ASSUME Init PROVE JInv
  OBVIOUS
<1>1. AInv
  BY AInit
<1>2. Alone /\ Apart /\ Onward
  BY DEF Init, Alone, Apart, Enqueuing, Onward, Unwritten, Holding
<1>3. Queued /\ NothingForgotten
  BY DEF Init, Queued, Waiting, Enqueuing, NothingForgotten
<1>4. QED
  BY <1>1, <1>2, <1>3 DEF JInv

\* A decision closes only what waits, and what it closes waits no longer; an enqueue adds
\* the job before it marks the row.
LEMMA JRequest ==
  ASSUME OwnJob, JInv, AInv', NEW h \in Api, Request(h)
  PROVE  JInv'
<1> USE DEF JInv, AInv, TInv, TypeOK, Located, Decided, Alone, Apart, Queued, Onward, Waiting,
        Enqueuing, Busy, Unwritten, Holding, Holds, NothingForgotten,
        payVars, rowVars, queueVars, execVars, ghostVars, EndRequest
<1>1. ASSUME NEW a \in Action, LoadDecision(h, a)
      PROVE  JInv'
  BY <1>1 DEF LoadDecision
<1>2. ASSUME NEW a \in Action, LoadForEnqueue(h, a)
      PROVE  JInv'
  BY <1>2 DEF LoadForEnqueue, OwnJob
<1>3. CASE PersistDecision(h)
  <2>1. UNCHANGED <<outcome, job, holder, faults, stalls, pc, at, mishaps>>
    BY <1>3 DEF PersistDecision
  <2>2. ASSUME NEW b \in Action
        PROVE  \/ status'[b] = status[b]
               \/ Waiting(b) /\ status'[b] = "CANCELLED"
               \/ status[b] = "NONE" /\ status'[b] \in {"CANCELLED", "BLOCKED", "PENDING"}
    <3>1. PICK k : status' = [c \in Action |-> IF c = aat[h] THEN InitialStatus(k)
                                              ELSE IF c \in CancelledBy(aat[h], k) THEN "CANCELLED"
                                              ELSE status[c]]
      BY <1>3 DEF PersistDecision
    <3>2. CASE b = aat[h]
      <4>1. status[b] = "NONE"
        BY <1>3, <3>2 DEF PersistDecision
      <4>2. InitialStatus(k) \in {"CANCELLED", "BLOCKED", "PENDING"}
        BY DEF InitialStatus
      <4>3. QED
        BY <3>1, <3>2, <4>1, <4>2
    <3>3. CASE b # aat[h] /\ b \in CancelledBy(aat[h], k)
      BY <3>1, <3>3 DEF CancelledBy
    <3>4. CASE b # aat[h] /\ b \notin CancelledBy(aat[h], k)
      BY <3>1, <3>4
    <3>5. QED
      BY <3>2, <3>3, <3>4
  <2>3. ASSUME NEW b \in Action, status[b] # "NONE", payStatus'[PaymentOf[b]] = "HARD_STOPPED",
               payStatus[PaymentOf[b]] # "HARD_STOPPED"
        PROVE  ~Waiting(b)'
    <3> DEFINE a == aat[h]
    <3>1. a \in Action /\ PaymentOf[a] \in Payment /\ PaymentOf[b] \in Payment /\ status[a] = "NONE"
      <4>1. a \in Action /\ status[a] = "NONE"
        BY <1>3 DEF PersistDecision
      <4>2. QED
        BY <4>1, ExecutionAssumption
    <3>2. PICK k \in Decisions(aseen[h]) :
              /\ status' = [c \in Action |-> IF c = a THEN InitialStatus(k)
                                             ELSE IF c \in CancelledBy(a, k) THEN "CANCELLED"
                                             ELSE status[c]]
              /\ \/ k = "HARD_STOP" /\ WritePayment(PaymentOf[a], "HARD_STOPPED", "HARD_STOPPED", 0)
                 \/ k = "HUMAN_REVIEW"
                    /\ WritePayment(PaymentOf[a], payStatus[PaymentOf[a]], "HUMAN_REVIEW", 0)
                 \/ k \in Schedulable /\ UNCHANGED payVars
      BY <1>3 DEF PersistDecision
    <3>3. k = "HARD_STOP" /\ PaymentOf[b] = PaymentOf[a]
      BY <2>3, <3>1, <3>2 DEF WritePayment
    <3>4. Waiting(b) => b \in CancelledBy(a, k)
      BY <2>3, <3>1, <3>3 DEF CancelledBy
    <3>5. b # a
      BY <2>3, <3>1
    <3>6. QED
      BY <3>2, <3>4, <3>5
  <2>4. \A b \in Action : Enqueuing(b)' => Enqueuing(b)
    BY <1>3 DEF PersistDecision
  <2>5. \A g \in Api : apc'[g] = "mark" => apc[g] = "mark" /\ aat'[g] = aat[g]
    BY <1>3 DEF PersistDecision
  <2> HIDE DEF Enqueuing
  <2>6. Alone' /\ Apart'
    BY <2>1, <2>4
  <2>7. Queued'
    BY <2>1, <2>2, <2>4, <2>5
  <2>8. Onward'
    BY <2>1, <2>2, <2>3
  <2>9. NothingForgotten'
    BY <2>1, <2>2
  <2>10. QED
    BY <2>6, <2>7, <2>8, <2>9
<1>4. CASE DecisionDuplicate(h)
  BY <1>4 DEF DecisionDuplicate
<1>5. CASE QueueAdd(h)
  BY <1>5 DEF QueueAdd
<1>6. CASE MarkScheduled(h)
  <2>1. /\ UNCHANGED <<outcome, job, holder, faults, stalls, pc, at, mishaps>>
        /\ aat[h] \in Action /\ status' = [status EXCEPT ![aat[h]] = "SCHEDULED"]
    BY <1>6 DEF MarkScheduled, WriteRow
  <2>2. Enqueuing(aat[h]) /\ ~Busy(aat[h]) /\ job[aat[h]] # "none"
    BY <1>6 DEF MarkScheduled
  <2>3. \A b \in Action : Enqueuing(b)' => Enqueuing(b)
    BY <1>6 DEF MarkScheduled
  <2>4. \A g \in Api : apc'[g] = "mark" => apc[g] = "mark" /\ aat'[g] = aat[g]
    BY <1>6 DEF MarkScheduled
  <2>5. payStatus' = payStatus
    BY <1>6 DEF MarkScheduled, WritePayment
  <2> HIDE DEF Enqueuing
  <2>6. Alone' /\ Apart'
    BY <2>1, <2>3
  <2>7. Queued'
    BY <2>1, <2>2, <2>3, <2>4
  <2>8. Onward'
    BY <2>1, <2>2, <2>5
  <2>9. NothingForgotten'
    <3>1. job[aat[h]] # "completed" /\ job[aat[h]] \in JobState
      BY <2>1, <2>2
    <3>2. QED
      BY <2>1, <2>2, <3>1 DEF JobState
  <2>10. QED
    BY <2>6, <2>7, <2>8, <2>9
<1>7. CASE RequestFails(h)
  BY <1>7 DEF RequestFails
<1> QED
  BY <1>1, <1>2, <1>3, <1>4, <1>5, <1>6, <1>7 DEF Request

\* An execution keeps it: what it reads of its action nobody else changes, and it leaves
\* with the job moved as its row says.
LEMMA JExecute ==
  ASSUME OwnJob, JInv, AInv', NEW e \in Executor, Execute(e)
  PROVE  JInv'
<1> USE DEF JInv, AInv, TInv, TypeOK, Located, Decided, Alone, Apart, Queued, Onward, Waiting,
        Enqueuing, Busy, Unwritten, Holding, Holds, NothingForgotten, Goto, WriteRow,
        payVars, rowVars, queueVars, apiVars, ghostVars
<1>0. at[e] \in Action /\ \A f \in Executor \ {e} : pc[f] # "idle" => at[f] # at[e]
  <2>1. pc[e] # "idle"
    BY DEF Execute, LoadExecutionContext, PersistBlocked, ClaimForExecution, ClaimIf, SendMessage,
           BreakerAllows, BreakerBlocks, ChargeAnswered, GatewayFailure, Reschedule, PersistOutcome,
           Settle, DuplicateOutcome, MoveToDelayed, Finish
  <2>2. QED
    BY <2>1
<1>1. CASE LoadExecutionContext(e)
  <2>1. /\ UNCHANGED <<at, status, payStatus, outcome, job, holder, faults, stalls, apc, aat, mishaps>>
        /\ pc[e] = "load" /\ \A f \in Executor \ {e} : pc'[f] = pc[f]
    BY <1>1 DEF LoadExecutionContext
  <2>2. \/ pc'[e] = "finish" /\ (status[at[e]] = "EXECUTED" \/ outcome[at[e]] # "NONE")
        \/ pc'[e] = "block" /\ outcome[at[e]] = "NONE"
        \/ /\ pc'[e] = "claim" /\ outcome[at[e]] = "NONE"
           /\ payStatus[PaymentOf[at[e]]] # "HARD_STOPPED"
    <3> DEFINE duplicate == status[at[e]] = "EXECUTED" \/ outcome[at[e]] # "NONE"
               block == SafetyBlock(at[e])
    <3> HIDE DEF block
    <3>1. pc'[e] = IF duplicate THEN "finish" ELSE IF block # "none" THEN "block" ELSE "claim"
      <4>1. pc \in [Executor -> ExecPc] /\ e \in Executor
        OBVIOUS
      <4>2. QED
        BY ONLY <1>1, <4>1 DEF LoadExecutionContext, ExecutionContext, Goto, block
    <3>2. block = "none" => payStatus[PaymentOf[at[e]]] # "HARD_STOPPED"
      BY DEF SafetyBlock, block
    <3>3. QED
      BY <3>1, <3>2
  <2>3. Alone' /\ Apart' /\ Queued'
    BY <2>1, <2>2
  <2>4. Onward'
    BY <1>0, <2>1, <2>2
  <2>5. NothingForgotten'
    BY <2>1
  <2>6. QED
    BY <2>3, <2>4, <2>5
<1>2. CASE PersistBlocked(e)
  <2>1. /\ UNCHANGED <<at, job, holder, faults, stalls, apc, aat, mishaps>>
        /\ pc[e] = "block" /\ pc' = [pc EXCEPT ![e] = "finish"]
        /\ \A b \in Action \ {at[e]} : status'[b] = status[b] /\ outcome'[b] = outcome[b]
    BY <1>2 DEF PersistBlocked
  <2>2. status'[at[e]] \in {"CANCELLED", "BLOCKED"}
    BY <1>0, <1>2 DEF PersistBlocked
  <2>3. \A p \in Payment : payStatus'[p] = payStatus[p] \/ payStatus'[p] = "EXHAUSTED"
    BY <1>2 DEF PersistBlocked, WritePayment
  <2>4. Alone'
    BY <2>1
  <2>5. Apart'
    BY <2>1
  <2>6. Queued'
    BY <2>1, <2>2
  <2>7. Onward'
    BY <1>0, <2>1, <2>2, <2>3, ExecutionAssumption
  <2>8. NothingForgotten'
    BY <2>1, <2>2
  <2>9. QED
    BY <2>4, <2>5, <2>6, <2>7, <2>8
<1>3. CASE ClaimForExecution(e)
  BY <1>3 DEF ClaimForExecution, ClaimIf, Claimable
<1>4. CASE SendMessage(e)
  BY <1>4 DEF SendMessage, Effect
<1>5. CASE BreakerAllows(e)
  BY <1>5 DEF BreakerAllows
<1>6. CASE BreakerBlocks(e)
  BY <1>6 DEF BreakerBlocks
<1>7. CASE ChargeAnswered(e)
  BY <1>7 DEF ChargeAnswered, Effect
<1>8. CASE GatewayFailure(e)
  BY <1>8 DEF GatewayFailure
<1>9. CASE Reschedule(e)
  BY <1>9 DEF Reschedule
<1>10. CASE PersistOutcome(e)
  <2>1. /\ UNCHANGED <<at, job, holder, faults, stalls, apc, aat, mishaps>>
        /\ pc[e] = "settle" /\ pc' = [pc EXCEPT ![e] = "finish"]
        /\ status' = [status EXCEPT ![at[e]] = "EXECUTED"]
        /\ \A b \in Action \ {at[e]} : outcome'[b] = outcome[b]
    BY <1>10 DEF PersistOutcome, Settle
  <2>2. \A p \in Payment : payStatus'[p] = "HARD_STOPPED" => payStatus[p] = "HARD_STOPPED"
    BY <1>10 DEF PersistOutcome, Settle, ChargedPayment, WritePayment
  <2>3. Alone' /\ Apart'
    BY <2>1
  <2>4. Queued'
    BY <1>0, <2>1
  <2>5. Onward'
    <3>1. ASSUME NEW f \in Executor \ {e}, pc[f] # "idle"
          PROVE  /\ pc'[f] = pc[f] /\ at'[f] = at[f] /\ at[f] \in Action
                 /\ status'[at[f]] = status[at[f]] /\ outcome'[at[f]] = outcome[at[f]]
                 /\ PaymentOf[at[f]] \in Payment
      <4>1. pc'[f] = pc[f] /\ at'[f] = at[f] /\ at[f] \in Action /\ at[f] # at[e]
        BY <1>0, <2>1, <3>1
      <4>2. PaymentOf[at[f]] \in Payment
        BY <4>1, ExecutionAssumption
      <4>3. QED
        BY <2>1, <4>1, <4>2
    <3>2. \A f \in Executor \ {e} : pc[f] = "idle" => pc'[f] = "idle"
      BY <2>1
    <3>3. pc'[e] = "finish" /\ status'[at'[e]] = "EXECUTED"
      BY <1>0, <2>1
    <3>4. QED
      BY <2>2, <3>1, <3>2, <3>3
  <2>6. NothingForgotten'
    BY <1>0, <2>1
  <2>7. QED
    BY <2>3, <2>4, <2>5, <2>6
<1>11. CASE DuplicateOutcome(e)
  BY <1>11 DEF DuplicateOutcome
<1>12. CASE MoveToDelayed(e)
  BY <1>12 DEF MoveToDelayed, HoldsLock, MoveJob, EndExecution
<1>13. CASE Finish(e)
  BY <1>13 DEF Finish, HoldsLock, MoveJob, EndExecution
<1> QED
  BY <1>1, <1>2, <1>3, <1>4, <1>5, <1>6, <1>7, <1>8, <1>9, <1>10, <1>11, <1>12, <1>13
     DEF Execute

\* So does a delivery, to a worker that is free.
LEMMA JBegin ==
  ASSUME OwnJob, JInv, AInv', NEW w \in Executor, NEW a \in Action, Deliver(w, a)
  PROVE  JInv'
<1> USE DEF JInv, AInv, TInv, TypeOK, Located, Decided, Alone, Apart, Queued, Onward, Waiting,
        Enqueuing, Busy, Unwritten, Holding, Holds, NothingForgotten,
        payVars, rowVars, queueVars, apiVars, ghostVars
<1> QED
  BY DEF Deliver, Begin, OwnJob

\* So does an execution that throws, whose job waits again or has failed, or dies.
LEMMA JFault ==
  ASSUME OwnJob, JInv, AInv', NEW e \in Executor, InfraFault(e) \/ Crash(e)
  PROVE  JInv'
<1> USE DEF JInv, AInv, TInv, TypeOK, Located, Decided, Alone, Apart, Queued, Onward, Waiting,
        Enqueuing, Busy, Unwritten, Holding, Holds, NothingForgotten,
        payVars, rowVars, queueVars, apiVars, ghostVars
<1>1. CASE InfraFault(e)
  <2>1. at[e] \in Action /\ pc[e] # "idle" /\ HoldsLock(e)
    BY <1>1, ExecutionAssumption DEF InfraFault, HoldsLock
  <2>2. /\ UNCHANGED <<status, payStatus, outcome, stalls, apc, aat>>
        /\ mishaps' = mishaps + 1
        /\ pc' = [pc EXCEPT ![e] = "idle"] /\ at' = [at EXCEPT ![e] = NoAction]
        /\ faults' = [faults EXCEPT ![at[e]] = @ + 1]
        /\ holder' = [holder EXCEPT ![at[e]] = NoWorker]
    BY <1>1, <2>1 DEF InfraFault, Throw, MoveJob, EndExecution
  <2>3. job' = [job EXCEPT ![at[e]] =
                   IF faults[at[e]] + 1 < InfraAttempts THEN "waiting" ELSE "failed"]
    BY <1>1, <2>1, ExecutionAssumption DEF InfraFault, Throw, MoveJob
  <2>4. \A f \in Executor \ {e} : pc[f] # "idle" => at[f] # at[e]
    BY <2>1
  <2>5. job'[at[e]] = "failed" => faults'[at[e]] = InfraAttempts
    BY <2>1, <2>2, <2>3, ExecutionAssumption
  <2>6. Alone'
    BY <2>1, <2>2, <2>3, <2>4
  <2>7. Apart'
    BY <2>2
  <2>8. Queued'
    BY <2>1, <2>2, <2>3, <2>5
  <2>9. Onward'
    BY <2>2
  <2>10. NothingForgotten'
    BY <2>1, <2>2, <2>3, <2>5
  <2>11. QED
    BY <2>6, <2>7, <2>8, <2>9, <2>10
<1>2. CASE Crash(e)
  BY <1>2 DEF Crash, EndExecution
<1> QED
  BY <1>1, <1>2

\* So does a job found stalled, whose worker is gone.
LEMMA JTime ==
  ASSUME OwnJob, JInv, AInv', NEW a \in Action, Stall(a) \/ AgeExecution(a)
  PROVE  JInv'
<1> USE DEF JInv, AInv, TInv, TypeOK, Located, Decided, Alone, Apart, Queued, Onward, Waiting,
        Enqueuing, Busy, Unwritten, Holding, Holds, NothingForgotten,
        payVars, rowVars, queueVars, execVars, apiVars, ghostVars
<1>1. CASE Stall(a)
  BY <1>1, ExecutionAssumption DEF Stall, OwnJob
<1>2. CASE AgeExecution(a)
  BY <1>2 DEF AgeExecution
<1> QED
  BY <1>1, <1>2

\* JInv is inductive where every execution is its job's.
LEMMA JStep == OwnJob /\ JInv /\ [Next]_vars => JInv'
<1> SUFFICES ASSUME OwnJob, JInv, [Next]_vars PROVE JInv'
  OBVIOUS
<1>1. AInv'
  BY AStep DEF JInv
<1>2. CASE Next
  <2>1. ASSUME NEW d \in Demo PROVE FALSE
    BY DEF OwnJob
  <2>2. QED
    BY <1>1, <1>2, <2>1, JRequest, JExecute, JBegin, JFault, JTime DEF Next, Executor
<1>3. CASE UNCHANGED vars
  BY <1>1, <1>3
     DEF vars, payVars, rowVars, queueVars, execVars, apiVars, ghostVars, JInv, Alone, Apart, Queued,
         Onward, Waiting, Enqueuing, Busy, Unwritten, Holding, Holds, NothingForgotten
<1> QED
  BY <1>2, <1>3

\* So it holds in every reachable state.
LEMMA JAlways == ASSUME OwnJob PROVE Spec => []JInv
  BY JInit, JStep, PTL DEF Spec, OwnJob

\* Where every execution is its job's, a row that waits for its time keeps a job that can
\* still run, until that job has used up the faults or stalls BullMQ rides out; and no
\* claim is without its executor unless something failed: whatever the breaker refuses,
\* requests leave half done, or executors of other actions do.
THEOREM QueuedIsNotForgotten == ASSUME OwnJob PROVE Spec => []NothingForgotten
<1>1. JInv => NothingForgotten
  BY DEF JInv
<1>2. QED
  BY JAlways, <1>1, PTL

\* Where every execution is its job's, no action is newly claimed while its payment is
\* HARD_STOPPED: the stop finds it waiting and cancels it, or its executor finds the stop.
THEOREM StopsAreHeeded == ASSUME OwnJob PROVE Spec => StopsReachUnclaimed
<1>1. ASSUME JInv, [Next]_vars
      PROVE  \A a \in Action : status[a] # "EXECUTING" /\ status'[a] = "EXECUTING" =>
                payStatus[PaymentOf[a]] # "HARD_STOPPED"
  <2> SUFFICES ASSUME NEW a \in Action, status[a] # "EXECUTING", status'[a] = "EXECUTING"
               PROVE  payStatus[PaymentOf[a]] # "HARD_STOPPED"
    OBVIOUS
  <2> USE DEF JInv, AInv, TInv, TypeOK, Located, payVars, rowVars, queueVars, execVars, apiVars,
              ghostVars
  <2>1. ASSUME NEW h \in Api, Request(h)
        PROVE  FALSE
    <3>1. CASE PersistDecision(h)
      <4>1. PICK k : status' = [b \in Action |-> IF b = aat[h] THEN InitialStatus(k)
                                                ELSE IF b \in CancelledBy(aat[h], k) THEN "CANCELLED"
                                                ELSE status[b]]
        BY <3>1 DEF PersistDecision
      <4>2. InitialStatus(k) # "EXECUTING"
        BY DEF InitialStatus
      <4>3. QED
        BY <4>1, <4>2
    <3>2. CASE ~PersistDecision(h)
      BY <1>1, <2>1, <3>2 DEF Request, LoadDecision, LoadForEnqueue, DecisionDuplicate, QueueAdd,
              MarkScheduled, WriteRow, RequestFails
    <3>3. QED
      BY <3>1, <3>2
  <2>2. ASSUME NEW e \in Executor, ClaimForExecution(e)
        PROVE  payStatus[PaymentOf[a]] # "HARD_STOPPED"
    <3>1. Claimable(at[e])
      BY <2>2 DEF ClaimForExecution, ClaimIf
    <3>2. a = at[e] /\ pc[e] = "claim"
      BY <1>1, <2>2, <3>1 DEF ClaimForExecution, ClaimIf, WriteRow
    <3>3. Waiting(at[e])
      BY <3>1, <3>2 DEF Claimable, Waiting
    <3>4. QED
      BY <1>1, <2>2, <3>2, <3>3 DEF Onward
  <2>3. ASSUME NEW e \in Executor, Execute(e), ~ClaimForExecution(e)
        PROVE  FALSE
    <3>1. CASE PersistBlocked(e) \/ Reschedule(e) \/ PersistOutcome(e)
      BY <1>1, <2>3, <3>1 DEF PersistBlocked, WriteRow, Reschedule, PersistOutcome, Settle
    <3>2. CASE ~(PersistBlocked(e) \/ Reschedule(e) \/ PersistOutcome(e))
      BY <2>3, <3>2 DEF Execute, LoadExecutionContext, SendMessage, BreakerAllows, BreakerBlocks,
              ChargeAnswered, GatewayFailure, DuplicateOutcome, Throw, MoveToDelayed, Finish
    <3>3. QED
      BY <3>1, <3>2
  <2>4. ASSUME \/ \E e \in Executor, b \in Action : Deliver(e, b) \/ StartDemo(e, b)
               \/ \E e \in Executor : InfraFault(e) \/ Crash(e)
               \/ \E b \in Action : Stall(b) \/ AgeExecution(b)
               \/ UNCHANGED vars
        PROVE  FALSE
    BY <2>4 DEF Deliver, StartDemo, InfraFault, Throw, Crash, Stall, AgeExecution, vars
  <2>5. QED
    BY <1>1, <2>1, <2>2, <2>3, <2>4 DEF Next, Executor
<1>2. QED
  BY JAlways, <1>1, PTL DEF Spec, StopsReachUnclaimed

=============================================================================
