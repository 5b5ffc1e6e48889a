------------------------- MODULE RecoveryCaseProofs -------------------------
(***************************************************************************)
(* TLAPS proofs about RecoveryCase, for every number of failures and       *)
(* whatever the rules, the reviewers, the model and the policy engine make *)
(* of them: what a payment's attemptCount is made of, what its rows and    *)
(* requests may be, the attempts and messages it gets over its life, the   *)
(* hours at which messages are due, and which rows may charge.             *)
(***************************************************************************)
EXTENDS RecoveryCase, PolicyProofs

-----------------------------------------------------------------------------
(* What the attempts are made of.                                          *)

Columns == {"action", "status", "maxAttempts", "due", "ready", "job", "executedAt"}

\* The fields of the rows and of the requests.
Shape ==
    /\ DOMAIN payment = {"status", "recovery", "attempts"} /\ payment.attempts \in Nat
    /\ IsFiniteSet(stored)
    /\ request = [f \in Failure |-> request[f]]
    /\ row = [r \in Row |-> row[r]]
    /\ \A r \in Row : DOMAIN row[r] = Columns

\* A request writes only what is not there yet: ingestion the failure, the decision its
\* row.
Fresh ==
    \A f \in Failure :
        /\ request[f].doing = "ingest" => f \notin stored
        /\ request[f].doing = "decide" =>
              request[f].saw \in Source /\ row[<<f, request[f].saw>>].status = "NONE"

\* What has a job has not been executed.
JobsAreOpen == \A r \in Row : row[r].job => row[r].status \in {"SCHEDULED", "CANCELLED"}

CInv == Shape /\ Fresh /\ JobsAreOpen /\ AttemptsExplained

\* There are finitely many rows, so finitely many of any sort.
LEMMA RowsFinite == IsFiniteSet(Row)
<1>1. IsFiniteSet(Failure)
  BY CaseAssumption
<1>2. IsFiniteSet(Source)
  <2>1. IsFiniteSet({} \cup {"RULE"})
    BY FS_EmptySet, FS_AddElement
  <2>2. IsFiniteSet(({} \cup {"RULE"}) \cup {"HUMAN"})
    BY <2>1, FS_AddElement
  <2>3. Source = ({} \cup {"RULE"}) \cup {"HUMAN"}
    BY DEF Source
  <2>4. QED
    BY <2>2, <2>3
<1>3. QED
  BY <1>1, <1>2, FS_Product DEF Row

LEMMA ChargesFinite == IsFiniteSet(Charges)
  BY RowsFinite, FS_Subset DEF Charges

\* A step that charges nothing, stores nothing and leaves the count alone.
LEMMA Uncounted ==
  ASSUME CInv, Charges' = Charges, stored' = stored, payment'.attempts = payment.attempts
  PROVE  AttemptsExplained'
  BY DEF CInv, AttemptsExplained

\* A request that is begun, or ends without a trace.
LEMMA RequestOnly ==
  ASSUME CInv, NEW f \in Failure, NEW q,
         q.doing = "ingest" => f \notin stored,
         q.doing = "decide" => q.saw \in Source /\ row[<<f, q.saw>>].status = "NONE",
         request' = [request EXCEPT ![f] = q], UNCHANGED <<stored, row>>,
         DOMAIN payment' = DOMAIN payment, payment'.attempts = payment.attempts
  PROVE  CInv'
<1>1. request' = [g \in Failure |-> IF g = f THEN q ELSE request[g]]
  BY DEF CInv, Shape
<1>2. Shape'
  BY <1>1 DEF CInv, Shape
<1>3. Fresh'
  BY <1>1 DEF CInv, Fresh
<1>4. JobsAreOpen'
  BY DEF CInv, JobsAreOpen
<1>5. AttemptsExplained'
  BY Uncounted DEF Charges
<1>6. QED
  BY <1>2, <1>3, <1>4, <1>5 DEF CInv

\* The requests, but for the writing of failures and decisions.
LEMMA Requesting ==
  ASSUME CInv, NEW f \in Failure,
         \/ LookUpPayment(f) \/ LoadFailure(f) \/ PersistClassification(f)
         \/ LoadDecision(f) \/ RequestDies(f)
  PROVE  CInv'
<1>1. CASE LookUpPayment(f)
  BY <1>1, RequestOnly DEF LookUpPayment, Begin
<1>2. CASE LoadFailure(f)
  BY <1>2, RequestOnly DEF LoadFailure, Begin
<1>3. CASE PersistClassification(f)
  <2>1. /\ request' = [request EXCEPT ![f] = Idle] /\ UNCHANGED <<stored, row>>
        /\ DOMAIN payment' = DOMAIN payment /\ payment'.attempts = payment.attempts
    BY <1>3 DEF PersistClassification, CInv, Shape
  <2>2. QED
    BY <2>1, RequestOnly DEF Idle
<1>4. CASE LoadDecision(f)
  <2>1. PICK s \in Source : s = LatestSource(f)
    BY DEF LatestSource, Source
  <2>2. row[<<f, s>>].status = "NONE"
    BY <1>4, <2>1 DEF LoadDecision, NoRow
  <2>3. QED
    BY <1>4, <2>1, <2>2, RequestOnly DEF LoadDecision, Begin
<1>5. CASE RequestDies(f)
  BY <1>5, RequestOnly DEF RequestDies, Idle
<1>6. QED
  BY <1>1, <1>2, <1>3, <1>4, <1>5

\* A new failure is one more stored, and at most one more attempt.
LEMMA FailureCounted ==
  ASSUME CInv, NEW f \in Failure, PersistFailure(f)
  PROVE  CInv'
<1>1. f \notin stored
  BY DEF CInv, Fresh, PersistFailure
<1>2. Charges' = Charges
  BY DEF PersistFailure, Charges
<1>3. Cardinality(stored') = Cardinality(stored) + 1 /\ IsFiniteSet(stored')
  BY <1>1, FS_AddElement DEF CInv, Shape, PersistFailure
<1>4. payment' = payment \/ payment'.attempts = payment.attempts + 1
  BY DEF PersistFailure
<1>5. AttemptsExplained'
  <2>1. Cardinality(Charges) \in Nat /\ Cardinality(stored) \in Nat
    BY ChargesFinite, FS_CardinalityType DEF CInv, Shape
  <2>2. QED
    BY <1>2, <1>3, <1>4, <2>1 DEF CInv, Shape, AttemptsExplained
<1>6. request' = [g \in Failure |-> IF g = f THEN Idle ELSE request[g]]
  BY DEF PersistFailure, CInv, Shape
<1>7. Shape'
  BY <1>3, <1>6 DEF CInv, Shape, PersistFailure
<1>8. Fresh'
  BY <1>6 DEF CInv, Fresh, PersistFailure, Idle
<1>9. JobsAreOpen'
  BY DEF CInv, JobsAreOpen, PersistFailure
<1>10. QED
  BY <1>5, <1>7, <1>8, <1>9 DEF CInv

\* A decision takes a row nobody had, and a stop cancels rows that charged nothing.
LEMMA DecisionWritten ==
  ASSUME CInv, NEW f \in Failure, PersistDecision(f)
  PROVE  CInv'
<1>1. PICK mine, new :
        /\ mine = <<f, request[f].saw>>
        /\ new = [NoRow EXCEPT !.action = request[f].decision.action,
                               !.status = InitialStatus(request[f].decision.action),
                               !.maxAttempts = request[f].decision.maxAttempts,
                               !.due = request[f].decision.due]
  OBVIOUS
<1>2. mine \in Row /\ row[mine].status = "NONE"
  BY <1>1 DEF CInv, Fresh, PersistDecision, Row
<1>3. DOMAIN new = Columns /\ new.status \in {"CANCELLED", "BLOCKED", "PENDING"} /\ ~new.job
  BY <1>1 DEF NoRow, InitialStatus, Columns
<1>4. /\ row' = [r \in Row |-> row'[r]] /\ row'[mine] = new
      /\ \A r \in Row \ {mine} :
            \/ row'[r] = row[r]
            \/ /\ row[r].status \in {"PENDING", "SCHEDULED"}
               /\ row'[r] = [row[r] EXCEPT !.status = "CANCELLED"]
  BY <1>1, <1>2 DEF PersistDecision
<1>5. \A r \in Row \ {mine} :
         /\ DOMAIN row'[r] = Columns /\ row'[r].action = row[r].action
         /\ row'[r].job = row[r].job
         /\ row'[r].status = row[r].status
               \/ (row[r].status \in {"PENDING", "SCHEDULED"} /\ row'[r].status = "CANCELLED")
  BY <1>4 DEF CInv, Shape, Columns
<1>6. request' = [g \in Failure |-> IF g = f THEN Idle ELSE request[g]]
  BY DEF PersistDecision, CInv, Shape
<1>7. stored' = stored /\ DOMAIN payment' = DOMAIN payment /\ payment'.attempts = payment.attempts
  BY DEF PersistDecision, CInv, Shape
<1>8. Charges' = Charges
  <2>1. \A r \in Row : r \in Charges' <=> r \in Charges
    BY <1>2, <1>3, <1>4, <1>5 DEF Charges
  <2>2. QED
    BY <2>1 DEF Charges
<1>9. Shape'
  BY <1>3, <1>4, <1>5, <1>6, <1>7 DEF CInv, Shape
<1>10. Fresh'
  <2> SUFFICES ASSUME NEW g \in Failure
               PROVE  /\ request'[g].doing = "ingest" => g \notin stored'
                      /\ request'[g].doing = "decide" =>
                           /\ request'[g].saw \in Source
                           /\ row'[<<g, request'[g].saw>>].status = "NONE"
    BY DEF Fresh
  <2>1. CASE g = f
    BY <1>6, <2>1 DEF Idle
  <2>2. CASE g # f
    <3>1. request'[g] = request[g]
      BY <1>6, <2>2
    <3>2. ASSUME request[g].doing = "decide"
          PROVE  request[g].saw \in Source /\ row'[<<g, request[g].saw>>].status = "NONE"
      <4>1. PICK r : r = <<g, request[g].saw>>
        OBVIOUS
      <4>2. request[g].saw \in Source /\ row[r].status = "NONE"
        BY <3>2, <4>1 DEF CInv, Fresh
      <4>3. r \in Row \ {mine}
        BY <1>1, <2>2, <4>1, <4>2 DEF Row
      <4>4. QED
        BY <1>5, <4>1, <4>2, <4>3
    <3>3. QED
      BY <1>7, <3>1, <3>2 DEF CInv, Fresh
  <2>3. QED
    BY <2>1, <2>2
<1>11. JobsAreOpen'
  BY <1>3, <1>4, <1>5 DEF CInv, JobsAreOpen
<1>12. AttemptsExplained'
  BY <1>7, <1>8, Uncounted
<1>13. QED
  BY <1>9, <1>10, <1>11, <1>12 DEF CInv

\* A row that is worked on keeps its columns, and no request was about to write it.
LEMMA RowChanged ==
  ASSUME CInv, NEW r \in Row, NEW new, row[r].status # "NONE",
         row' = [row EXCEPT ![r] = new], DOMAIN new = Columns,
         new.job => new.status \in {"SCHEDULED", "CANCELLED"},
         UNCHANGED <<stored, request>>,
         DOMAIN payment' = DOMAIN payment, payment'.attempts \in Nat
  PROVE  Shape' /\ Fresh' /\ JobsAreOpen'
<1>1. row' = [s \in Row |-> IF s = r THEN new ELSE row[s]]
  BY DEF CInv, Shape
<1>2. Shape'
  BY <1>1 DEF CInv, Shape
<1>3. Fresh'
  <2> SUFFICES ASSUME NEW f \in Failure, request[f].doing = "decide"
               PROVE  row'[<<f, request[f].saw>>].status = "NONE"
    BY DEF Fresh, CInv
  <2>1. request[f].saw \in Source /\ row[<<f, request[f].saw>>].status = "NONE"
    BY DEF CInv, Fresh
  <2>2. <<f, request[f].saw>> \in Row \ {r}
    BY <2>1 DEF Row
  <2>3. QED
    BY <1>1, <2>1, <2>2
<1>4. JobsAreOpen'
  BY <1>1 DEF CInv, JobsAreOpen
<1>5. QED
  BY <1>2, <1>3, <1>4

\* Enqueueing, the blocked jobs and the messages charge nothing; a charge adds one row
\* to those charged and one to the count.
LEMMA RowProcessed ==
  ASSUME CInv, NEW r \in Row, Process(r)
  PROVE  CInv'
<1>1. CASE Enqueue(r)
  <2>1. PICK new :
          /\ row' = [row EXCEPT ![r] = new] /\ DOMAIN new = Columns
          /\ new.status = "SCHEDULED" /\ new.action = row[r].action
    <3>1. PICK immediate \in Immediate :
            row' = [row EXCEPT ![r].status = "SCHEDULED", ![r].job = TRUE,
                               ![r].ready = IF immediate \/ row[r].due < clock
                                            THEN clock ELSE row[r].due]
      BY <1>1 DEF Enqueue
    <3>2. PICK ready : row' = [row EXCEPT ![r].status = "SCHEDULED", ![r].job = TRUE,
                                          ![r].ready = ready]
      BY <3>1
    <3>3. row' = [row EXCEPT ![r] = [row[r] EXCEPT !.status = "SCHEDULED", !.job = TRUE,
                                                   !.ready = ready]]
      BY <3>2 DEF CInv, Shape
    <3>4. PICK new : new = [row[r] EXCEPT !.status = "SCHEDULED", !.job = TRUE, !.ready = ready]
      OBVIOUS
    <3>5. DOMAIN new = Columns /\ new.status = "SCHEDULED" /\ new.action = row[r].action
      BY <3>4 DEF CInv, Shape, Columns
    <3>6. QED
      BY <3>3, <3>4, <3>5
  <2>2. /\ row[r].status = "PENDING" /\ UNCHANGED <<stored, request>>
        /\ DOMAIN payment' = DOMAIN payment /\ payment'.attempts = payment.attempts
    BY <1>1 DEF Enqueue, CInv, Shape
  <2>3. Shape' /\ Fresh' /\ JobsAreOpen'
    BY <2>1, <2>2, RowChanged DEF CInv, Shape
  <2>4. Charges' = Charges
    <3>1. row' = [s \in Row |-> IF s = r THEN new ELSE row[s]]
      BY <2>1 DEF CInv, Shape
    <3>2. QED
      BY <2>1, <2>2, <3>1 DEF Charges
  <2>5. QED
    BY <2>2, <2>3, <2>4, Uncounted DEF CInv
<1>2. ASSUME NEW s, Due(r), Finish(r, s)
      PROVE  \E new :
               /\ row' = [row EXCEPT ![r] = new] /\ DOMAIN new = Columns
               /\ row' = [q \in Row |-> IF q = r THEN new ELSE row[q]]
               /\ new.status = s /\ new.action = row[r].action /\ ~new.job
               /\ row[r].status \in {"SCHEDULED", "CANCELLED"}
               /\ UNCHANGED <<stored, request>>
  <2>1. PICK at : row' = [row EXCEPT ![r].job = FALSE, ![r].status = s, ![r].executedAt = at]
    <3>1. CASE s = "EXECUTED"
      BY <1>2, <3>1 DEF Finish
    <3>2. CASE s # "EXECUTED"
      BY <1>2, <3>2 DEF Finish
    <3>3. QED
      BY <3>1, <3>2
  <2>2. row' = [row EXCEPT ![r] = [row[r] EXCEPT !.job = FALSE, !.status = s, !.executedAt = at]]
    BY <2>1 DEF CInv, Shape
  <2>3. PICK new : new = [row[r] EXCEPT !.job = FALSE, !.status = s, !.executedAt = at]
    OBVIOUS
  <2>4. row[r].status \in {"SCHEDULED", "CANCELLED"}
    BY <1>2 DEF CInv, JobsAreOpen, Due
  <2>5. UNCHANGED <<stored, request>>
    BY <1>2 DEF Finish
  <2>6. DOMAIN new = Columns /\ new.status = s /\ new.action = row[r].action /\ ~new.job
    BY <2>3 DEF CInv, Shape, Columns
  <2>7. row' = [row EXCEPT ![r] = new]
    BY <2>2, <2>3
  <2>8. row' = [q \in Row |-> IF q = r THEN new ELSE row[q]]
    BY <2>7 DEF CInv, Shape
  <2>9. QED
    BY <2>4, <2>5, <2>6, <2>7, <2>8
<1>3. ASSUME NEW s, Due(r), Finish(r, s), s # "EXECUTED" \/ row[r].action = "MESSAGE",
             DOMAIN payment' = DOMAIN payment, payment'.attempts = payment.attempts
      PROVE  CInv'
  <2>1. PICK new :
          /\ row' = [row EXCEPT ![r] = new] /\ DOMAIN new = Columns
          /\ row' = [q \in Row |-> IF q = r THEN new ELSE row[q]]
          /\ new.status = s /\ new.action = row[r].action /\ ~new.job
          /\ row[r].status \in {"SCHEDULED", "CANCELLED"}
          /\ UNCHANGED <<stored, request>>
    BY <1>2, <1>3
  <2>2. Shape' /\ Fresh' /\ JobsAreOpen'
    BY <1>3, <2>1, RowChanged DEF CInv, Shape
  <2>3. Charges' = Charges
    BY <1>3, <2>1 DEF Charges
  <2>4. QED
    BY <1>3, <2>1, <2>2, <2>3, Uncounted DEF CInv
<1>4. CASE ExecuteBlocked(r)
  <2>1. row[r].status # "EXECUTED"
    BY <1>4 DEF ExecuteBlocked, CInv, JobsAreOpen, Due
  <2>2. PICK s : /\ Due(r) /\ Finish(r, s) /\ s # "EXECUTED"
                 /\ DOMAIN payment' = DOMAIN payment /\ payment'.attempts = payment.attempts
    BY <1>4, <2>1 DEF ExecuteBlocked, CInv, Shape
  <2>3. QED
    BY <1>3, <2>2
<1>5. CASE ExecuteMessage(r)
  BY <1>3, <1>5 DEF ExecuteMessage, Pass
<1>6. CASE ExecuteCharge(r)
  <2>1. Due(r) /\ Finish(r, "EXECUTED") /\ row[r].action # "MESSAGE"
    BY <1>6 DEF ExecuteCharge, Pass
  <2>2. PICK new :
          /\ row' = [row EXCEPT ![r] = new] /\ DOMAIN new = Columns
          /\ row' = [q \in Row |-> IF q = r THEN new ELSE row[q]]
          /\ new.status = "EXECUTED" /\ new.action = row[r].action /\ ~new.job
          /\ row[r].status \in {"SCHEDULED", "CANCELLED"}
          /\ UNCHANGED <<stored, request>>
    BY <1>2, <2>1
  <2>3. /\ DOMAIN payment' = DOMAIN payment
        /\ payment'.attempts = payment.attempts + 1 /\ payment'.attempts \in Nat
    BY <1>6 DEF ExecuteCharge, Charged, CInv, Shape
  <2>4. Shape' /\ Fresh' /\ JobsAreOpen'
    BY <2>2, <2>3, RowChanged
  <2>5. Charges' = Charges \cup {r} /\ r \notin Charges
    BY <2>1, <2>2 DEF Charges
  <2>6. Cardinality(Charges') = Cardinality(Charges) + 1
    BY <2>5, ChargesFinite, FS_AddElement
  <2>7. AttemptsExplained'
    <3>1. Cardinality(Charges) \in Nat /\ Cardinality(stored) \in Nat
      BY ChargesFinite, FS_CardinalityType DEF CInv, Shape
    <3>2. QED
      BY <2>2, <2>3, <2>6, <3>1 DEF CInv, Shape, AttemptsExplained
  <2>8. QED
    BY <2>4, <2>7 DEF CInv
<1>7. QED
  BY <1>1, <1>4, <1>5, <1>6 DEF Process

\* Nothing is stored, charged or counted.
LEMMA CInit == Init => CInv
<1> SUFFICES ASSUME Init PROVE CInv
  OBVIOUS
<1>1. Shape
  BY FS_EmptySet DEF Init, Shape, NoRow, Columns
<1>2. Fresh /\ JobsAreOpen
  BY DEF Init, Fresh, JobsAreOpen, Idle, NoRow
<1>3. Charges = {}
  BY DEF Init, Charges, NoRow
<1>4. Cardinality({}) = 0
  BY FS_EmptySet
<1>5. payment.attempts = 0 /\ stored = {}
  BY DEF Init
<1>6. QED
  BY <1>1, <1>2, <1>3, <1>4, <1>5 DEF CInv, AttemptsExplained

\* One case per action.
LEMMA CNext == CInv /\ [Next]_vars => CInv'
<1> SUFFICES ASSUME CInv, [Next]_vars PROVE CInv'
  OBVIOUS
<1>1. CASE UNCHANGED <<payment, stored, request, row>>
  BY <1>1 DEF CInv, Shape, Fresh, JobsAreOpen, AttemptsExplained, Charges
<1>2. ASSUME NEW f \in Failure, Handle(f) PROVE CInv'
  <2>1. CASE PersistFailure(f)
    BY <2>1, FailureCounted
  <2>2. CASE PersistDecision(f)
    BY <2>2, DecisionWritten
  <2>3. CASE Suggest(f) \/ Resolve(f)
    BY <1>1, <2>3 DEF Suggest, Resolve
  <2>4. QED
    BY <1>2, <2>1, <2>2, <2>3, Requesting DEF Handle
<1>3. ASSUME NEW r \in Row, Process(r) PROVE CInv'
  BY <1>3, RowProcessed
<1>4. CASE TimePasses
  BY <1>1, <1>4 DEF TimePasses
<1>5. CASE UNCHANGED vars
  BY <1>1, <1>5 DEF vars
<1>6. QED
  BY <1>2, <1>3, <1>4, <1>5 DEF Next

\* attemptCount is made of charges and reported failures and of nothing else: messages,
\* reviews, blocked jobs and requests that die leave it alone, and no charge is missing.
THEOREM NoAttemptUnexplained == Spec => []AttemptsExplained
<1>1. CInv => AttemptsExplained
  BY DEF CInv
<1>2. QED
  BY <1>1, CInit, CNext, PTL DEF Spec

-----------------------------------------------------------------------------
(* Types.                                                                  *)

RowStatus == {"NONE", "PENDING", "SCHEDULED", "EXECUTED", "CANCELLED", "BLOCKED"}
RowType ==
    [action : RecoveryAction \cup {"NONE"}, status : RowStatus, maxAttempts : Nat, due : Nat,
     ready : Nat, job : BOOLEAN, executedAt : Nat]

\* A request that is about to write a decision has one.
Deciding ==
    \A f \in Failure : request[f].doing = "decide" =>
        request[f].saw \in Source /\ request[f].decision.action \in RecoveryAction

TInv == TypeOK /\ row \in [Row -> RowType] /\ Deciding

LEMMA ClockNat == TInv => clock \in Nat
  BY CaseAssumption DEF TInv, TypeOK

\* What the engine is handed is readable.
LEMMA ContextReadable ==
  ASSUME TInv, NEW f \in Failure
  PROVE  Readable(DecisionContext(f))
<1>1. clock \in Nat /\ payment.attempts \in Nat
  BY ClockNat DEF TInv, TypeOK
<1>2. Cardinality({r \in Executed("MESSAGE") : row[r].executedAt >= clock - Day}) \in Nat
  <2>1. IsFiniteSet({r \in Executed("MESSAGE") : row[r].executedAt >= clock - Day})
    BY RowsFinite, FS_Subset DEF Executed
  <2>2. QED
    BY <2>1, FS_CardinalityType
<1>3. MandateHit \in BOOLEAN
  BY DEF MandateHit
<1>4. QED
  BY <1>1, <1>2, <1>3 DEF DecisionContext, Readable

\* A row that is enqueued keeps what was decided.
LEMMA Enqueued ==
  ASSUME TInv, NEW r \in Row, Enqueue(r)
  PROVE  \E new \in RowType :
            /\ row' = [s \in Row |-> IF s = r THEN new ELSE row[s]]
            /\ new.action = row[r].action /\ new.maxAttempts = row[r].maxAttempts
            /\ new.due = row[r].due /\ new.status = "SCHEDULED" /\ row[r].status = "PENDING"
<1>1. PICK immediate \in Immediate :
        row' = [row EXCEPT ![r].status = "SCHEDULED", ![r].job = TRUE,
                           ![r].ready = IF immediate \/ row[r].due < clock
                                        THEN clock ELSE row[r].due]
  BY DEF Enqueue
<1>2. row[r] \in RowType /\ clock \in Nat /\ row[r].due \in Nat
  BY ClockNat DEF TInv, RowType
<1>3. PICK ready \in Nat : row' = [row EXCEPT ![r].status = "SCHEDULED", ![r].job = TRUE,
                                              ![r].ready = ready]
  BY <1>1, <1>2
<1>4. PICK new : new = [row[r] EXCEPT !.status = "SCHEDULED", !.job = TRUE, !.ready = ready]
  OBVIOUS
<1>5. /\ new \in RowType
      /\ new.action = row[r].action /\ new.maxAttempts = row[r].maxAttempts
      /\ new.due = row[r].due /\ new.status = "SCHEDULED"
  BY <1>2, <1>4 DEF RowType, RowStatus
<1>6. row' = [s \in Row |-> IF s = r THEN new ELSE row[s]]
  BY <1>3, <1>4 DEF TInv
<1>7. QED
  BY <1>5, <1>6 DEF Enqueue

\* So does a row whose job ends.
LEMMA Finished ==
  ASSUME TInv, NEW r \in Row, NEW s \in RowStatus, Finish(r, s)
  PROVE  \E new \in RowType :
            /\ row' = [q \in Row |-> IF q = r THEN new ELSE row[q]]
            /\ new.action = row[r].action /\ new.maxAttempts = row[r].maxAttempts
            /\ new.due = row[r].due /\ new.status = s /\ ~new.job
            /\ UNCHANGED <<clock, stored, class, suggestion, request>>
<1>1. row[r] \in RowType /\ clock \in Nat /\ row[r].executedAt \in Nat
  BY ClockNat DEF TInv, RowType
<1>2. PICK t \in Nat : row' = [row EXCEPT ![r].job = FALSE, ![r].status = s, ![r].executedAt = t]
  <2>1. CASE s = "EXECUTED"
    BY <1>1, <2>1 DEF Finish
  <2>2. CASE s # "EXECUTED"
    BY <1>1, <2>2 DEF Finish
  <2>3. QED
    BY <2>1, <2>2
<1>3. PICK new : new = [row[r] EXCEPT !.job = FALSE, !.status = s, !.executedAt = t]
  OBVIOUS
<1>4. /\ new \in RowType
      /\ new.action = row[r].action /\ new.maxAttempts = row[r].maxAttempts
      /\ new.due = row[r].due /\ new.status = s /\ ~new.job
  BY <1>1, <1>3 DEF RowType
<1>5. row' = [q \in Row |-> IF q = r THEN new ELSE row[q]]
  BY <1>2, <1>3 DEF TInv
<1>6. QED
  BY <1>4, <1>5 DEF Finish

\* What a decision does to the rows: its own, and those it cancels.
LEMMA Decided ==
  ASSUME TInv, NEW f \in Failure, PersistDecision(f)
  PROVE  \E mine \in Row, new \in RowType :
            /\ mine = <<f, request[f].saw>>
            /\ new.action = request[f].decision.action
            /\ new.maxAttempts = request[f].decision.maxAttempts
            /\ new.due = request[f].decision.due
            /\ new.status = InitialStatus(new.action) /\ ~new.job
            /\ row' \in [Row -> RowType] /\ row'[mine] = new
            /\ \A r \in Row \ {mine} :
                  /\ row'[r].action = row[r].action /\ row'[r].maxAttempts = row[r].maxAttempts
                  /\ row'[r].due = row[r].due /\ row'[r].job = row[r].job
                  /\ row'[r].status = row[r].status
                        \/ (row[r].status \in {"PENDING", "SCHEDULED"} /\ row'[r].status = "CANCELLED")
<1>1. PICK mine \in Row : mine = <<f, request[f].saw>>
  BY DEF TInv, Deciding, PersistDecision, Row
<1>2. PICK d : d = request[f].decision
  OBVIOUS
<1>3. d.action \in RecoveryAction /\ d.maxAttempts \in Nat /\ d.due \in Nat
  BY <1>2 DEF TInv, TypeOK, Requests, Deciding, PersistDecision
<1>4. PICK new : new = [NoRow EXCEPT !.action = d.action, !.status = InitialStatus(d.action),
                                     !.maxAttempts = d.maxAttempts, !.due = d.due]
  OBVIOUS
<1>5. /\ new \in RowType /\ new.action = d.action /\ new.maxAttempts = d.maxAttempts
      /\ new.due = d.due /\ new.status = InitialStatus(new.action) /\ ~new.job
  BY <1>3, <1>4 DEF NoRow, RowType, RowStatus, InitialStatus
<1>6. /\ row' = [r \in Row |-> row'[r]] /\ row'[mine] = new
      /\ \A r \in Row \ {mine} :
            \/ row'[r] = row[r]
            \/ /\ row[r].status \in {"PENDING", "SCHEDULED"}
               /\ row'[r] = [row[r] EXCEPT !.status = "CANCELLED"]
  BY <1>1, <1>2, <1>4 DEF PersistDecision
<1>7. \A r \in Row \ {mine} :
         /\ row'[r] \in RowType
         /\ row'[r].action = row[r].action /\ row'[r].maxAttempts = row[r].maxAttempts
         /\ row'[r].due = row[r].due /\ row'[r].job = row[r].job
         /\ row'[r].status = row[r].status
               \/ (row[r].status \in {"PENDING", "SCHEDULED"} /\ row'[r].status = "CANCELLED")
  BY <1>6 DEF TInv, RowType, RowStatus
<1>8. row' \in [Row -> RowType]
  BY <1>5, <1>6, <1>7
<1>9. QED
  BY <1>1, <1>2, <1>5, <1>6, <1>7, <1>8

\* A request that is begun or ends.
LEMMA RequestTyped ==
  ASSUME TInv, NEW f \in Failure, NEW q \in Requests,
         q.doing = "decide" => q.saw \in Source /\ q.decision.action \in RecoveryAction,
         request' = [request EXCEPT ![f] = q]
  PROVE  /\ request' = [g \in Failure |-> IF g = f THEN q ELSE request[g]]
         /\ request' \in [Failure -> Requests] /\ Deciding'
<1>1. request' = [g \in Failure |-> IF g = f THEN q ELSE request[g]]
  BY DEF TInv, TypeOK
<1>2. request' \in [Failure -> Requests]
  BY <1>1 DEF TInv, TypeOK
<1>3. Deciding'
  BY <1>1 DEF TInv, Deciding
<1>4. QED
  BY <1>1, <1>2, <1>3

LEMMA IdleTyped == Idle \in Requests /\ Idle.doing = "nothing"
<1>1. NoDecision \in [action : RecoveryAction \cup {"NONE"}, maxAttempts : Nat,
                     blockedBy : Guardrail \cup {"none"}, due : Nat]
  BY DEF NoDecision, Decision
<1>2. QED
  BY <1>1 DEF Idle, Requests, RecoveryStatus

\* The steps that leave the rows alone.
LEMMA HandleTyped ==
  ASSUME TInv, NEW f \in Failure,
         \/ LookUpPayment(f) \/ PersistFailure(f) \/ LoadFailure(f) \/ PersistClassification(f)
         \/ Suggest(f) \/ Resolve(f) \/ LoadDecision(f) \/ RequestDies(f)
  PROVE  TInv'
<1>1. /\ payment \in [status : PaymentStatus, recovery : RecoveryStatus, attempts : Nat]
      /\ class \in [Row -> [cause : RootCause \cup {NoCause}, confidence : Confidence]]
      /\ suggestion \in [Failure -> RootCause \cup {NoCause}]
      /\ request \in [Failure -> Requests] /\ Deciding
  BY DEF TInv, TypeOK
<1>2. ASSUME UNCHANGED <<clock, row>>, stored' \subseteq Failure,
             payment' \in [status : PaymentStatus, recovery : RecoveryStatus, attempts : Nat],
             class' \in [Row -> [cause : RootCause \cup {NoCause}, confidence : Confidence]],
             suggestion' \in [Failure -> RootCause \cup {NoCause}],
             request' \in [Failure -> Requests], Deciding'
      PROVE  TInv'
  <2>1. TypeOK'
    BY <1>2 DEF TInv, TypeOK
  <2>2. row' \in [Row -> RowType]
    BY <1>2 DEF TInv
  <2>3. QED
    BY <1>2, <2>1, <2>2 DEF TInv
<1>3. ASSUME request' = [request EXCEPT ![f] = Idle]
      PROVE  request' \in [Failure -> Requests] /\ Deciding'
  BY <1>3, IdleTyped, RequestTyped
<1>4. ASSUME request' = request
      PROVE  request' \in [Failure -> Requests] /\ Deciding'
  BY <1>1, <1>4 DEF Deciding
<1>5. NoDecision \in [action : RecoveryAction \cup {"NONE"}, maxAttempts : Nat,
                     blockedBy : Guardrail \cup {"none"}, due : Nat]
  BY DEF NoDecision, Decision
<1>6. CASE LookUpPayment(f)
  <2>1. [doing |-> "ingest", saw |-> payment.status, decision |-> NoDecision] \in Requests
    BY <1>1, <1>5 DEF Requests
  <2>2. request' \in [Failure -> Requests] /\ Deciding'
    BY <1>6, <2>1, RequestTyped DEF LookUpPayment, Begin
  <2>3. UNCHANGED <<clock, payment, stored, class, suggestion, row>>
    BY <1>6 DEF LookUpPayment
  <2>4. QED
    BY <1>1, <1>2, <2>2, <2>3 DEF TInv, TypeOK
<1>7. CASE PersistFailure(f)
  <2>1. payment' \in [status : PaymentStatus, recovery : RecoveryStatus, attempts : Nat]
    BY <1>1, <1>7 DEF PersistFailure, PaymentStatus, RecoveryStatus
  <2>2. /\ request' = [request EXCEPT ![f] = Idle] /\ stored' \subseteq Failure
        /\ UNCHANGED <<clock, class, suggestion, row>>
    BY <1>7 DEF PersistFailure, TInv, TypeOK
  <2>3. QED
    BY <1>1, <1>2, <1>3, <2>1, <2>2
<1>8. CASE LoadFailure(f)
  <2>1. [doing |-> "classify", saw |-> payment.recovery, decision |-> NoDecision] \in Requests
    BY <1>1, <1>5 DEF Requests
  <2>2. request' \in [Failure -> Requests] /\ Deciding'
    BY <1>8, <2>1, RequestTyped DEF LoadFailure, Begin
  <2>3. UNCHANGED <<clock, payment, stored, class, suggestion, row>>
    BY <1>8 DEF LoadFailure
  <2>4. QED
    BY <1>1, <1>2, <2>2, <2>3 DEF TInv, TypeOK
<1>9. CASE PersistClassification(f)
  <2>1. PICK c \in Causes : class' = [class EXCEPT ![<<f, "RULE">>] = Diagnosis(c)]
    BY <1>9 DEF PersistClassification
  <2>2. Diagnosis(c) \in [cause : RootCause \cup {NoCause}, confidence : Confidence]
    BY CaseAssumption DEF Diagnosis, Confidence
  <2>3. class' \in [Row -> [cause : RootCause \cup {NoCause}, confidence : Confidence]]
    BY <1>1, <2>1, <2>2
  <2>4. payment' \in [status : PaymentStatus, recovery : RecoveryStatus, attempts : Nat]
    BY <1>1, <1>9 DEF PersistClassification, RecoveryStatus
  <2>5. /\ request' = [request EXCEPT ![f] = Idle]
        /\ UNCHANGED <<clock, stored, suggestion, row>>
    BY <1>9 DEF PersistClassification
  <2>6. QED
    BY <1>1, <1>2, <1>3, <2>3, <2>4, <2>5 DEF TInv, TypeOK
<1>10. CASE Suggest(f)
  <2>1. suggestion' \in [Failure -> RootCause \cup {NoCause}]
    BY <1>1, <1>10, CaseAssumption DEF Suggest
  <2>2. UNCHANGED <<clock, payment, stored, class, request, row>>
    BY <1>10 DEF Suggest
  <2>3. QED
    BY <1>1, <1>2, <1>4, <2>1, <2>2 DEF TInv, TypeOK
<1>11. CASE Resolve(f)
  <2>1. PICK c \in HumanCauses :
          class' = [class EXCEPT ![<<f, "HUMAN">>] = [cause |-> c, confidence |-> "high"]]
    BY <1>11 DEF Resolve
  <2>2. [cause |-> c, confidence |-> "high"]
          \in [cause : RootCause \cup {NoCause}, confidence : Confidence]
    BY CaseAssumption DEF Confidence
  <2>3. class' \in [Row -> [cause : RootCause \cup {NoCause}, confidence : Confidence]]
    BY <1>1, <2>1, <2>2
  <2>4. UNCHANGED <<clock, payment, stored, suggestion, request, row>>
    BY <1>11 DEF Resolve
  <2>5. QED
    BY <1>1, <1>2, <1>4, <2>3, <2>4 DEF TInv, TypeOK
<1>12. CASE LoadDecision(f)
  <2>1. PICK s \in Source : s = LatestSource(f)
    BY DEF LatestSource, Source
  <2>2. PICK d : d = Decide(DecisionContext(f))
    OBVIOUS
  <2>3. d \in [action : RecoveryAction, maxAttempts : Nat,
               blockedBy : Guardrail \cup {"none"}, due : Nat]
    BY <2>2, ContextReadable, DecisionTyped
  <2>4. PICK q : q = [doing |-> "decide", saw |-> s, decision |-> d]
    OBVIOUS
  <2>5. q \in Requests /\ q.saw \in Source /\ q.decision.action \in RecoveryAction
    BY <2>3, <2>4 DEF Requests
  <2>6. request' = [request EXCEPT ![f] = q]
    BY <1>12, <2>1, <2>2, <2>4 DEF LoadDecision, Begin
  <2>7. request' \in [Failure -> Requests] /\ Deciding'
    BY <2>5, <2>6, RequestTyped
  <2>8. UNCHANGED <<clock, payment, stored, class, suggestion, row>>
    BY <1>12 DEF LoadDecision
  <2>9. QED
    BY <1>1, <1>2, <2>7, <2>8 DEF TInv, TypeOK
<1>13. CASE RequestDies(f)
  <2>1. /\ request' = [request EXCEPT ![f] = Idle]
        /\ UNCHANGED <<clock, payment, stored, class, suggestion, row>>
    BY <1>13 DEF RequestDies
  <2>2. QED
    BY <1>1, <1>2, <1>3, <2>1 DEF TInv, TypeOK
<1>14. QED
  BY <1>6, <1>7, <1>8, <1>9, <1>10, <1>11, <1>12, <1>13

\* A decision takes its row, and what it cancels keeps its job.
LEMMA DecisionRowTyped ==
  ASSUME TInv, CInv, NEW f \in Failure, PersistDecision(f)
  PROVE  TInv'
<1>1. PICK mine \in Row, new \in RowType :
        /\ mine = <<f, request[f].saw>>
        /\ new.action = request[f].decision.action
        /\ new.status = InitialStatus(new.action) /\ ~new.job
        /\ row' \in [Row -> RowType] /\ row'[mine] = new
        /\ \A r \in Row \ {mine} :
              /\ row'[r].action = row[r].action /\ row'[r].job = row[r].job
              /\ row'[r].status = row[r].status
                    \/ (row[r].status \in {"PENDING", "SCHEDULED"} /\ row'[r].status = "CANCELLED")
  BY Decided
<1>2. request[f].decision.action \in RecoveryAction
  BY DEF TInv, Deciding, PersistDecision
<1>3. \A r \in Row :
         /\ row'[r].status \in {"PENDING", "SCHEDULED", "EXECUTED"} => row'[r].action \in Schedulable
         /\ row'[r].job => row'[r].status \in {"SCHEDULED", "CANCELLED"}
  <2> SUFFICES ASSUME NEW r \in Row
               PROVE  /\ row'[r].status \in {"PENDING", "SCHEDULED", "EXECUTED"}
                           => row'[r].action \in Schedulable
                      /\ row'[r].job => row'[r].status \in {"SCHEDULED", "CANCELLED"}
    OBVIOUS
  <2>1. CASE r = mine
    BY <1>1, <1>2, <2>1 DEF InitialStatus, RecoveryAction, Schedulable
  <2>2. CASE r # mine
    BY <1>1, <2>2 DEF TInv, TypeOK
  <2>3. QED
    BY <2>1, <2>2
<1>4. request' \in [Failure -> Requests] /\ Deciding'
  BY IdleTyped, RequestTyped DEF PersistDecision
<1>5. payment' \in [status : PaymentStatus, recovery : RecoveryStatus, attempts : Nat]
  BY DEF PersistDecision, TInv, TypeOK, PaymentStatus, RecoveryStatus, Terminal
<1>6. UNCHANGED <<clock, stored, class, suggestion>>
  BY DEF PersistDecision
<1>7. TypeOK'
  BY <1>3, <1>4, <1>5, <1>6 DEF TInv, TypeOK
<1>8. QED
  BY <1>1, <1>4, <1>7 DEF TInv

\* A row that is worked on was enqueued for an action that may be.
LEMMA ProcessTyped ==
  ASSUME TInv, NEW r \in Row, Process(r)
  PROVE  TInv'
<1>1. ASSUME NEW new \in RowType,
             row' = [q \in Row |-> IF q = r THEN new ELSE row[q]],
             new.action = row[r].action,
             new.status \in {"PENDING", "SCHEDULED", "EXECUTED"} => new.action \in Schedulable,
             new.job => new.status \in {"SCHEDULED", "CANCELLED"},
             UNCHANGED <<clock, stored, class, suggestion, request>>,
             payment' \in [status : PaymentStatus, recovery : RecoveryStatus, attempts : Nat]
      PROVE  TInv'
  <2>1. row' \in [Row -> RowType]
    BY <1>1 DEF TInv
  <2>2. TypeOK'
    BY <1>1 DEF TInv, TypeOK
  <2>3. Deciding'
    BY <1>1 DEF TInv, Deciding
  <2>4. QED
    BY <2>1, <2>2, <2>3 DEF TInv
<1>2. CASE Enqueue(r)
  <2>1. PICK new \in RowType :
          /\ row' = [q \in Row |-> IF q = r THEN new ELSE row[q]]
          /\ new.action = row[r].action /\ new.status = "SCHEDULED"
          /\ row[r].status = "PENDING"
    BY <1>2, Enqueued
  <2>2. UNCHANGED <<clock, stored, class, suggestion, request>>
    BY <1>2 DEF Enqueue
  <2>3. payment' \in [status : PaymentStatus, recovery : RecoveryStatus, attempts : Nat]
    BY <1>2 DEF Enqueue, TInv, TypeOK, RecoveryStatus
  <2>4. row[r].action \in Schedulable
    BY <2>1 DEF TInv, TypeOK
  <2>5. QED
    BY <1>1, <2>1, <2>2, <2>3, <2>4
<1>3. ASSUME NEW s \in RowStatus, Due(r), Finish(r, s),
             s \in {"CANCELLED", "BLOCKED"}
                \/ (s = "EXECUTED" /\ row[r].status \notin {"CANCELLED", "BLOCKED"}),
             payment' \in [status : PaymentStatus, recovery : RecoveryStatus, attempts : Nat]
      PROVE  TInv'
  <2>1. PICK new \in RowType :
          /\ row' = [q \in Row |-> IF q = r THEN new ELSE row[q]]
          /\ new.action = row[r].action /\ new.status = s /\ ~new.job
          /\ UNCHANGED <<clock, stored, class, suggestion, request>>
    BY <1>3, Finished
  <2>2. s = "EXECUTED" => row[r].action \in Schedulable
    BY <1>3 DEF TInv, TypeOK, Due
  <2>3. QED
    BY <1>1, <1>3, <2>1, <2>2
<1>4. payment \in [status : PaymentStatus, recovery : RecoveryStatus, attempts : Nat]
  BY DEF TInv, TypeOK
<1>5. CASE ExecuteBlocked(r)
  <2>1. CASE SafetyBlock(r) = "action" /\ Finish(r, row[r].status) /\ UNCHANGED payment
    <3>1. row[r].status \in {"CANCELLED", "BLOCKED"}
      BY <2>1 DEF SafetyBlock
    <3>2. QED
      BY <1>3, <1>4, <1>5, <2>1, <3>1 DEF ExecuteBlocked, RowStatus
  <2>2. CASE SafetyBlock(r) = "payment" /\ Finish(r, "CANCELLED") /\ UNCHANGED payment
    BY <1>3, <1>4, <1>5, <2>2 DEF ExecuteBlocked, RowStatus
  <2>3. CASE /\ SafetyBlock(r) = "limit" /\ Finish(r, "BLOCKED")
             /\ payment' = [payment EXCEPT !.status = "EXHAUSTED", !.recovery = "EXHAUSTED"]
    <3>1. payment' \in [status : PaymentStatus, recovery : RecoveryStatus, attempts : Nat]
      BY <1>4, <2>3 DEF PaymentStatus, Terminal, RecoveryStatus
    <3>2. QED
      BY <1>3, <1>5, <2>3, <3>1 DEF ExecuteBlocked, RowStatus
  <2>4. QED
    BY <1>5, <2>1, <2>2, <2>3 DEF ExecuteBlocked
<1>6. CASE ExecuteMessage(r)
  <2>1. Due(r) /\ Finish(r, "EXECUTED") /\ UNCHANGED payment /\ SafetyBlock(r) = "none"
    BY <1>6 DEF ExecuteMessage, Pass
  <2>2. row[r].status \notin {"CANCELLED", "BLOCKED"}
    BY <2>1 DEF SafetyBlock
  <2>3. QED
    BY <1>3, <1>4, <2>1, <2>2 DEF RowStatus
<1>7. CASE ExecuteCharge(r)
  <2>1. Due(r) /\ Finish(r, "EXECUTED") /\ SafetyBlock(r) = "none"
    BY <1>7 DEF ExecuteCharge, Pass
  <2>2. row[r].status \notin {"CANCELLED", "BLOCKED"}
    BY <2>1 DEF SafetyBlock
  <2>3. payment' \in [status : PaymentStatus, recovery : RecoveryStatus, attempts : Nat]
    BY <1>4, <1>7 DEF ExecuteCharge, Charged, PaymentStatus, Terminal, RecoveryStatus
  <2>4. QED
    BY <1>3, <2>1, <2>2, <2>3 DEF RowStatus
<1>8. QED
  BY <1>2, <1>5, <1>6, <1>7 DEF Process

LEMMA TInit == Init => TInv
<1> SUFFICES ASSUME Init PROVE TInv
  OBVIOUS
<1>1. NoRow \in RowType
  BY DEF NoRow, RowType, RowStatus
<1>2. row \in [Row -> RowType]
  BY <1>1 DEF Init
<1>3. Undiagnosed \in [cause : RootCause \cup {NoCause}, confidence : Confidence]
  BY DEF Undiagnosed, Confidence
<1>4. request \in [Failure -> Requests] /\ Deciding
  BY IdleTyped DEF Init, Deciding
<1>5. payment \in [status : PaymentStatus, recovery : RecoveryStatus, attempts : Nat]
  BY DEF Init, PaymentStatus, RecoveryStatus
<1>6. \A r \in Row : row[r].status = "NONE" /\ ~row[r].job
  BY DEF Init, NoRow
<1>7. TypeOK
  BY <1>3, <1>4, <1>5, <1>6 DEF Init, TypeOK
<1>8. QED
  BY <1>2, <1>4, <1>7 DEF TInv

LEMMA TNext == TInv /\ CInv /\ [Next]_vars => TInv'
<1> SUFFICES ASSUME TInv, CInv, [Next]_vars PROVE TInv'
  OBVIOUS
<1>1. CASE UNCHANGED <<payment, stored, class, suggestion, request, row>> /\ clock' \in Instants
  BY <1>1 DEF TInv, TypeOK, Deciding
<1>2. ASSUME NEW f \in Failure, Handle(f) PROVE TInv'
  BY <1>2, HandleTyped, DecisionRowTyped DEF Handle
<1>3. ASSUME NEW r \in Row, Process(r) PROVE TInv'
  BY <1>3, ProcessTyped
<1>4. CASE TimePasses
  BY <1>1, <1>4 DEF TimePasses
<1>5. CASE UNCHANGED vars
  BY <1>1, <1>5 DEF vars, TInv, TypeOK
<1>6. QED
  BY <1>2, <1>3, <1>4, <1>5 DEF Next

\* Whatever is reported, diagnosed and decided, in whatever order, the rows are of
\* their types, only schedulable actions leave PENDING and a job is only there for an
\* enqueued row: nothing the engine decides lies outside what the executor knows.
THEOREM CaseTyped == Spec => []TypeOK
<1>1. TInv => TypeOK
  BY DEF TInv
<1>2. QED
  BY <1>1, TInit, TNext, CInit, CNext, PTL DEF Spec

-----------------------------------------------------------------------------
(* What is decided on has been diagnosed, once.                             *)

Diagnosed ==
    /\ \A r \in Row : class[r] # Undiagnosed =>
          r[1] \in stored /\ class[<<r[1], "RULE">>] # Undiagnosed
    /\ \A r \in Row : row[r].action # "NONE" => class[r] # Undiagnosed
    /\ \A f \in Failure :
          /\ request[f].doing = "decide" => class[<<f, request[f].saw>>] # Undiagnosed
          /\ request[f].doing = "classify" =>
                f \in stored /\ class[<<f, "RULE">>] = Undiagnosed

DInv == TInv /\ CInv /\ Diagnosed

\* A diagnosis is never replaced.
Kept == \A r \in Row : class[r] # Undiagnosed => class'[r] = class[r]

\* A diagnosis names a cause.
LEMMA Diagnoses ==
  ASSUME NEW c \in RootCause, NEW w
  PROVE  [cause |-> c, confidence |-> w] # Undiagnosed
<1>1. [cause |-> c, confidence |-> w].cause = c /\ Undiagnosed.cause = NoCause
  BY DEF Undiagnosed
<1>2. QED
  BY <1>1, CaseAssumption

\* The steps that touch neither classes nor rows, and begin no decision.
LEMMA RequestDiagnosed ==
  ASSUME DInv, NEW f \in Failure, NEW q \in Requests, q.doing # "decide",
         q.doing = "classify" => f \in stored /\ class[<<f, "RULE">>] = Undiagnosed,
         request' = [request EXCEPT ![f] = q], UNCHANGED <<class, row>>,
         stored \subseteq stored'
  PROVE  Diagnosed' /\ Kept
<1>1. request' = [g \in Failure |-> IF g = f THEN q ELSE request[g]]
  BY DEF DInv, TInv, TypeOK
<1>2. QED
  BY <1>1 DEF DInv, Diagnosed, Kept

LEMMA HandleDiagnosed ==
  ASSUME DInv, NEW f \in Failure, Handle(f)
  PROVE  Diagnosed' /\ Kept
<1>1. /\ class = [r \in Row |-> class[r]] /\ request \in [Failure -> Requests]
      /\ <<f, "RULE">> \in Row /\ <<f, "HUMAN">> \in Row
  BY DEF DInv, TInv, TypeOK, Row, Source
<1>2. NoDecision \in [action : RecoveryAction \cup {"NONE"}, maxAttempts : Nat,
                     blockedBy : Guardrail \cup {"none"}, due : Nat]
  BY DEF NoDecision, Decision
<1>3. CASE LookUpPayment(f)
  <2>1. [doing |-> "ingest", saw |-> payment.status, decision |-> NoDecision] \in Requests
    BY <1>2 DEF Requests, DInv, TInv, TypeOK
  <2>2. QED
    BY <1>3, <2>1, RequestDiagnosed DEF LookUpPayment, Begin
<1>4. CASE PersistFailure(f)
  BY <1>4, IdleTyped, RequestDiagnosed DEF PersistFailure
<1>5. CASE LoadFailure(f)
  <2>1. [doing |-> "classify", saw |-> payment.recovery, decision |-> NoDecision] \in Requests
    BY <1>2 DEF Requests, DInv, TInv, TypeOK
  <2>2. QED
    BY <1>5, <2>1, RequestDiagnosed DEF LoadFailure, Begin
<1>6. CASE PersistClassification(f)
  <2>1. PICK c \in Causes : class' = [class EXCEPT ![<<f, "RULE">>] = Diagnosis(c)]
    BY <1>6 DEF PersistClassification
  <2>2. PICK new : new = Diagnosis(c)
    OBVIOUS
  <2>3. new # Undiagnosed
    BY <2>2, Diagnoses, CaseAssumption DEF Diagnosis
  <2>4. f \in stored /\ class[<<f, "RULE">>] = Undiagnosed
    BY <1>6 DEF PersistClassification, DInv, Diagnosed
  <2>5. class' = [r \in Row |-> IF r = <<f, "RULE">> THEN new ELSE class[r]]
    BY <1>1, <2>1, <2>2
  <2>6. request' = [g \in Failure |-> IF g = f THEN Idle ELSE request[g]]
    BY <1>1, <1>6 DEF PersistClassification
  <2>7. UNCHANGED <<stored, row>>
    BY <1>6 DEF PersistClassification
  <2>8. Kept
    BY <2>4, <2>5 DEF Kept
  <2>9. \A r \in Row : class'[r] # Undiagnosed =>
           r[1] \in stored' /\ class'[<<r[1], "RULE">>] # Undiagnosed
    <3> SUFFICES ASSUME NEW r \in Row, class'[r] # Undiagnosed
                 PROVE  r[1] \in stored' /\ class'[<<r[1], "RULE">>] # Undiagnosed
      OBVIOUS
    <3>1. CASE r = <<f, "RULE">>
      BY <1>1, <2>3, <2>4, <2>5, <2>7, <3>1
    <3>2. CASE r # <<f, "RULE">>
      <4>1. r[1] \in stored /\ class[<<r[1], "RULE">>] # Undiagnosed
        BY <2>5, <3>2 DEF DInv, Diagnosed
      <4>2. <<r[1], "RULE">> \in Row
        BY DEF Row, Source
      <4>3. QED
        BY <2>3, <2>5, <2>7, <4>1, <4>2
    <3>3. QED
      BY <3>1, <3>2
  <2>10. \A r \in Row : row'[r].action # "NONE" => class'[r] # Undiagnosed
    BY <2>7, <2>8 DEF Kept, DInv, Diagnosed
  <2>11. \A g \in Failure :
           /\ request'[g].doing = "decide" => class'[<<g, request'[g].saw>>] # Undiagnosed
           /\ request'[g].doing = "classify" =>
                g \in stored' /\ class'[<<g, "RULE">>] = Undiagnosed
    <3> SUFFICES ASSUME NEW g \in Failure, g # f
                 PROVE  /\ request'[g].doing = "decide" => class'[<<g, request'[g].saw>>] # Undiagnosed
                        /\ request'[g].doing = "classify" =>
                              g \in stored' /\ class'[<<g, "RULE">>] = Undiagnosed
      BY <2>6, IdleTyped
    <3>1. request'[g] = request[g]
      BY <2>6
    <3>2. request[g].doing = "decide" => <<g, request[g].saw>> \in Row
      BY DEF DInv, TInv, Deciding, Row
    <3>3. request[g].doing = "decide" => class'[<<g, request[g].saw>>] # Undiagnosed
      BY <2>8, <3>2 DEF DInv, Diagnosed, Kept
    <3>4. <<g, "RULE">> \in Row /\ <<g, "RULE">> # <<f, "RULE">>
      BY DEF Row, Source
    <3>5. QED
      BY <2>5, <2>7, <3>1, <3>3, <3>4 DEF DInv, Diagnosed
  <2>12. QED
    BY <2>8, <2>9, <2>10, <2>11 DEF Diagnosed
<1>7. CASE Suggest(f)
  BY <1>7 DEF Suggest, DInv, Diagnosed, Kept
<1>8. CASE Resolve(f)
  <2>1. PICK c \in HumanCauses :
          class' = [class EXCEPT ![<<f, "HUMAN">>] = [cause |-> c, confidence |-> "high"]]
    BY <1>8 DEF Resolve
  <2>2. PICK new : new = [cause |-> c, confidence |-> "high"]
    OBVIOUS
  <2>3. new # Undiagnosed
    BY <2>2, Diagnoses, CaseAssumption
  <2>4. /\ class[<<f, "RULE">>] # Undiagnosed /\ class[<<f, "HUMAN">>] = Undiagnosed
        /\ UNCHANGED <<stored, request, row>>
    BY <1>8 DEF Resolve
  <2>5. class' = [r \in Row |-> IF r = <<f, "HUMAN">> THEN new ELSE class[r]]
    BY <1>1, <2>1, <2>2
  <2>6. Kept
    BY <2>4, <2>5 DEF Kept
  <2>7. \A r \in Row : class'[r] # Undiagnosed =>
           r[1] \in stored' /\ class'[<<r[1], "RULE">>] # Undiagnosed
    <3> SUFFICES ASSUME NEW r \in Row, class'[r] # Undiagnosed
                 PROVE  r[1] \in stored' /\ class'[<<r[1], "RULE">>] # Undiagnosed
      OBVIOUS
    <3>1. PICK s \in Row : s[1] = r[1] /\ class[s] # Undiagnosed
      BY <1>1, <2>4, <2>5
    <3>2. s[1] \in stored /\ class[<<s[1], "RULE">>] # Undiagnosed
      BY <3>1 DEF DInv, Diagnosed
    <3>3. <<r[1], "RULE">> \in Row
      BY DEF Row, Source
    <3>4. QED
      BY <2>4, <2>6, <3>1, <3>2, <3>3 DEF Kept
  <2>8. \A r \in Row : row'[r].action # "NONE" => class'[r] # Undiagnosed
    BY <2>4, <2>6 DEF Kept, DInv, Diagnosed
  <2>9. \A g \in Failure :
           /\ request'[g].doing = "decide" => class'[<<g, request'[g].saw>>] # Undiagnosed
           /\ request'[g].doing = "classify" =>
                g \in stored' /\ class'[<<g, "RULE">>] = Undiagnosed
    <3> SUFFICES ASSUME NEW g \in Failure
                 PROVE  /\ request[g].doing = "decide" => class'[<<g, request[g].saw>>] # Undiagnosed
                        /\ request[g].doing = "classify" =>
                              g \in stored /\ class'[<<g, "RULE">>] = Undiagnosed
      BY <2>4
    <3>1. request[g].doing = "decide" => <<g, request[g].saw>> \in Row
      BY DEF DInv, TInv, Deciding, Row
    <3>2. request[g].doing = "decide" => class'[<<g, request[g].saw>>] # Undiagnosed
      BY <2>6, <3>1 DEF DInv, Diagnosed, Kept
    <3>3. <<g, "RULE">> \in Row /\ <<g, "RULE">> # <<f, "HUMAN">>
      BY DEF Row, Source
    <3>4. QED
      BY <2>5, <3>2, <3>3 DEF DInv, Diagnosed
  <2>10. QED
    BY <2>6, <2>7, <2>8, <2>9 DEF Diagnosed
<1>9. CASE LoadDecision(f)
  <2>1. PICK s \in Source : s = LatestSource(f)
    BY DEF LatestSource, Source
  <2>2. class[<<f, s>>] # Undiagnosed
    BY <1>9, <2>1 DEF LoadDecision, Latest
  <2>3. PICK q : q = [doing |-> "decide", saw |-> s, decision |-> Decide(DecisionContext(f))]
    OBVIOUS
  <2>4. request' = [g \in Failure |-> IF g = f THEN q ELSE request[g]]
    BY <1>1, <1>9, <2>1, <2>3 DEF LoadDecision, Begin
  <2>5. UNCHANGED <<stored, class, row>>
    BY <1>9 DEF LoadDecision
  <2>6. QED
    BY <2>2, <2>3, <2>4, <2>5 DEF DInv, Diagnosed, Kept
<1>10. CASE PersistDecision(f)
  <2>1. PICK mine \in Row :
          /\ mine = <<f, request[f].saw>>
          /\ \A r \in Row \ {mine} : row'[r].action = row[r].action
    BY Decided, <1>10 DEF DInv
  <2>2. class[mine] # Undiagnosed
    BY <1>10, <2>1 DEF PersistDecision, DInv, Diagnosed
  <2>3. request' = [g \in Failure |-> IF g = f THEN Idle ELSE request[g]]
    BY <1>1, <1>10 DEF PersistDecision
  <2>4. UNCHANGED <<stored, class>>
    BY <1>10 DEF PersistDecision
  <2>5. QED
    BY <2>1, <2>2, <2>3, <2>4, IdleTyped DEF DInv, Diagnosed, Kept
<1>11. CASE RequestDies(f)
  BY <1>11, IdleTyped, RequestDiagnosed DEF RequestDies
<1>12. QED
  BY <1>3, <1>4, <1>5, <1>6, <1>7, <1>8, <1>9, <1>10, <1>11 DEF Handle

\* Working on a row keeps its action, and diagnoses nothing.
LEMMA ProcessKeeps ==
  ASSUME DInv, NEW r \in Row, Process(r)
  PROVE  /\ UNCHANGED <<clock, stored, class, suggestion, request>>
         /\ \A s \in Row : /\ row'[s].action = row[s].action /\ row'[s].due = row[s].due
                           /\ row'[s].maxAttempts = row[s].maxAttempts
                           /\ s # r => row'[s] = row[s]
<1>1. CASE Enqueue(r)
  <2>1. UNCHANGED <<clock, stored, class, suggestion, request>>
    BY <1>1 DEF Enqueue
  <2>2. QED
    BY <1>1, <2>1, Enqueued DEF DInv
<1>2. ASSUME NEW s \in RowStatus, Finish(r, s)
      PROVE  /\ UNCHANGED <<clock, stored, class, suggestion, request>>
             /\ \A q \in Row : /\ row'[q].action = row[q].action /\ row'[q].due = row[q].due
                               /\ row'[q].maxAttempts = row[q].maxAttempts
                               /\ q # r => row'[q] = row[q]
  BY <1>2, Finished DEF DInv
<1>3. CASE ExecuteBlocked(r)
  <2>1. row[r].status \in RowStatus
    BY DEF DInv, TInv, RowType
  <2>2. QED
    BY <1>2, <1>3, <2>1 DEF ExecuteBlocked, RowStatus
<1>4. CASE ExecuteMessage(r) \/ ExecuteCharge(r)
  BY <1>2, <1>4 DEF ExecuteMessage, ExecuteCharge, RowStatus
<1>5. QED
  BY <1>1, <1>3, <1>4 DEF Process

LEMMA DInit == Init => DInv
<1> SUFFICES ASSUME Init PROVE DInv
  OBVIOUS
<1>1. Diagnosed
  BY IdleTyped DEF Init, Diagnosed, NoRow
<1>2. QED
  BY <1>1, TInit, CInit DEF DInv

LEMMA DNext == DInv /\ [Next]_vars => DInv' /\ Kept
<1> SUFFICES ASSUME DInv, [Next]_vars PROVE DInv' /\ Kept
  OBVIOUS
<1>1. TInv' /\ CInv'
  BY TNext, CNext DEF DInv
<1>2. CASE UNCHANGED <<stored, class, request, row>>
  BY <1>1, <1>2 DEF DInv, Diagnosed, Kept
<1>3. ASSUME NEW f \in Failure, Handle(f) PROVE DInv' /\ Kept
  BY <1>1, <1>3, HandleDiagnosed DEF DInv
<1>4. ASSUME NEW r \in Row, Process(r) PROVE DInv' /\ Kept
  <2>1. UNCHANGED <<stored, class, request>> /\ \A s \in Row : row'[s].action = row[s].action
    BY <1>4, ProcessKeeps
  <2>2. Diagnosed' /\ Kept
    BY <2>1 DEF DInv, Diagnosed, Kept
  <2>3. QED
    BY <1>1, <2>2 DEF DInv
<1>5. QED
  BY <1>2, <1>3, <1>4 DEF Next, TimePasses, vars

-----------------------------------------------------------------------------
(* The hours at which messages are due.                                    *)

\* The hours that are not quiet are the civil ones.
LEMMA CivilHours ==
  ASSUME NEW h \in 0..23,
         QuietStart # QuietEnd,
         ~IF QuietStart < QuietEnd THEN h >= QuietStart /\ h < QuietEnd
          ELSE h >= QuietStart \/ h < QuietEnd
  PROVE  \E k \in 0..(((QuietStart - QuietEnd) % 24) - 1) : h = (QuietEnd + k) % 24
<1>1. QuietStart \in 0..23 /\ QuietEnd \in 0..23
  BY PolicyAssumption
<1>2. CASE h >= QuietEnd
  <2>1. h - QuietEnd \in 0..(((QuietStart - QuietEnd) % 24) - 1)
    BY <1>1, <1>2
  <2>2. h = (QuietEnd + (h - QuietEnd)) % 24
    BY <1>1, <1>2
  <2>3. QED
    BY <2>1, <2>2
<1>3. CASE h < QuietEnd
  <2>1. (h + 24) - QuietEnd \in 0..(((QuietStart - QuietEnd) % 24) - 1)
    BY <1>1, <1>3
  <2>2. h = (QuietEnd + ((h + 24) - QuietEnd)) % 24
    BY <1>1, <1>3
  <2>3. QED
    BY <2>1, <2>2
<1>4. QED
  BY <1>1, <1>2, <1>3

LEMMA CivilNow ==
  ASSUME NEW now \in Nat, ~WithinQuietHours(now)
  PROVE  InCivilHours(now)
<1>1. PICK h \in 0..23 : h = (now % Day) \div Hour
  BY HourOfDay
<1>2. CASE QuietStart = QuietEnd
  BY <1>2 DEF InCivilHours
<1>3. CASE QuietStart # QuietEnd
  <2>1. ~IF QuietStart < QuietEnd THEN h >= QuietStart /\ h < QuietEnd
         ELSE h >= QuietStart \/ h < QuietEnd
    BY <1>1, <1>3 DEF WithinQuietHours
  <2>2. \E k \in 0..(((QuietStart - QuietEnd) % 24) - 1) : h = (QuietEnd + k) % 24
    BY <1>3, <2>1, CivilHours
  <2>3. QED
    BY <1>1, <2>2 DEF InCivilHours
<1>4. QED
  BY <1>2, <1>3

\* The end of the quiet hours is the first civil hour.
LEMMA CivilMorning ==
  ASSUME NEW now \in Nat
  PROVE  InCivilHours(NextQuietEnd(now))
<1>1. PICK t \in Nat : t = NextQuietEnd(now) /\ (t % Day) \div Hour = QuietEnd
  BY NextQuietEndAhead
<1>2. QuietStart \in 0..23 /\ QuietEnd \in 0..23
  BY PolicyAssumption
<1>3. CASE QuietStart = QuietEnd
  BY <1>3 DEF InCivilHours
<1>4. CASE QuietStart # QuietEnd
  <2>1. 0 \in 0..(((QuietStart - QuietEnd) % 24) - 1) /\ QuietEnd = (QuietEnd + 0) % 24
    BY <1>2, <1>4
  <2>2. \E k \in 0..(((QuietStart - QuietEnd) % 24) - 1) : QuietEnd = (QuietEnd + k) % 24
    BY <2>1
  <2>3. QED
    BY <1>1, <2>2 DEF InCivilHours
<1>5. QED
  BY <1>3, <1>4

-----------------------------------------------------------------------------
(* What a decision allows, wherever it is written down.                     *)

\* Two attempts or three for what may be enqueued, two for a message, and a message
\* has a civil hour.
Bound(d) ==
    /\ d.maxAttempts <= MaxAttempts
    /\ d.action \in Schedulable /\ MaxAttempts >= 2 => d.maxAttempts >= 2
    /\ d.action = "MESSAGE" => d.maxAttempts <= 2 /\ InCivilHours(d.due)

Bounded ==
    /\ \A r \in Row : Bound(row[r])
    /\ \A f \in Failure : request[f].doing = "decide" => Bound(request[f].decision)

LEMMA DecisionBounded ==
  ASSUME NEW ctx, Readable(ctx), NEW d, d = Decide(ctx)
  PROVE  Bound(d)
<1>1. PICK ce \in Nat : ce = Ceiling(ctx) /\ ce <= MaxAttempts
                        /\ ce <= CauseMaxAttempts(ctx.cause)
                        /\ ce \in {CauseMaxAttempts(ctx.cause), MaxAttempts}
  BY CeilingBound
<1>2. PICK intended \in RecoveryAction :
        /\ intended = IntendedAction(ctx)
        /\ intended = "MESSAGE" => CauseMaxAttempts(ctx.cause) = 2
        /\ intended \in RetryingActions => CauseMaxAttempts(ctx.cause) \in {2, 3}
  BY CeilingOfIntended
<1>3. PICK late : late = NextQuietEnd(ctx.now) /\ InCivilHours(late)
  BY CivilMorning DEF Readable
<1>4. PICK st : st = StoppedBy(ctx)
  OBVIOUS
<1>5. MaxAttempts \in Nat
  BY PolicyAssumption
<1>6. ASSUME NEW a \in {"HARD_STOP", "HUMAN_REVIEW"}, NEW c \in {0, ce}, NEW b,
             d = Decision(a, c, b, ctx.now)
      PROVE  Bound(d)
  BY <1>1, <1>5, <1>6 DEF Bound, Decision, Schedulable, RetryingActions
<1>7. ASSUME NEW a \in RetryingActions, NEW b, NEW t, d = Decision(a, ce, b, t),
             intended \in Schedulable
      PROVE  Bound(d)
  BY <1>1, <1>2, <1>5, <1>7 DEF Bound, Decision, Schedulable, RetryingActions
<1>8. ASSUME NEW b, NEW t, InCivilHours(t), d = Decision("MESSAGE", ce, b, t),
             intended = "MESSAGE"
      PROVE  Bound(d)
  <2>1. d.action = "MESSAGE" /\ d.maxAttempts = ce /\ d.due = t
    BY <1>8 DEF Decision
  <2>2. QED
    BY <1>1, <1>2, <1>5, <1>8, <2>1 DEF Bound
<1>9. ~WithinQuietHours(ctx.now) => InCivilHours(ctx.now)
  BY CivilNow DEF Readable
<1>10. QED
  <2>1. \/ \E a \in {"HARD_STOP", "HUMAN_REVIEW"}, c \in {0, ce},
              b \in Guardrail \cup {"none"} : d = Decision(a, c, b, ctx.now)
        \/ /\ intended \in Schedulable
           /\ \E a \in RetryingActions, b \in Guardrail \cup {"none"}, t \in {ctx.now, late} :
                 d = Decision(a, ce, b, t)
        \/ /\ intended = "MESSAGE"
           /\ \E b \in Guardrail \cup {"none"}, t \in {ctx.now, late} :
                 InCivilHours(t) /\ d = Decision("MESSAGE", ce, b, t)
    BY <1>1, <1>2, <1>3, <1>4, <1>9, DecisionCases
      DEF Guardrail, Stops, Schedulable, RetryingActions
  <2>2. QED
    BY <1>6, <1>7, <1>8, <2>1

LEMMA BoundedInit == Init => Bounded
<1> SUFFICES ASSUME Init PROVE Bounded
  OBVIOUS
<1>1. Bound(NoRow)
  BY PolicyAssumption DEF Bound, NoRow, Schedulable, RetryingActions
<1>2. \A r \in Row : row[r] = NoRow
  BY DEF Init
<1>3. \A f \in Failure : request[f].doing = "nothing"
  BY IdleTyped DEF Init
<1>4. QED
  BY <1>1, <1>2, <1>3 DEF Bounded

\* Rows and requests carry the engine's decisions, and nothing alters them.
LEMMA BoundedNext == DInv /\ Bounded /\ [Next]_vars => Bounded'
<1> SUFFICES ASSUME DInv, Bounded, [Next]_vars PROVE Bounded'
  OBVIOUS
<1>1. CASE UNCHANGED <<request, row>>
  BY <1>1 DEF Bounded, Bound
<1>2. ASSUME NEW d, NEW e, d.action = e.action, d.maxAttempts = e.maxAttempts, d.due = e.due,
             Bound(e)
      PROVE  Bound(d)
  BY <1>2 DEF Bound
<1>3. ASSUME NEW f \in Failure, NEW q, q.doing = "decide" => Bound(q.decision),
             request' = [request EXCEPT ![f] = q], UNCHANGED row
      PROVE  Bounded'
  <2>1. request' = [g \in Failure |-> IF g = f THEN q ELSE request[g]]
    BY <1>3 DEF DInv, TInv, TypeOK
  <2>2. QED
    BY <1>3, <2>1 DEF Bounded, Bound
<1>4. ASSUME NEW f \in Failure, Handle(f) PROVE Bounded'
  <2>1. CASE PersistDecision(f)
    <3>1. PICK mine \in Row, new \in RowType :
            /\ new.action = request[f].decision.action
            /\ new.maxAttempts = request[f].decision.maxAttempts
            /\ new.due = request[f].decision.due
            /\ row'[mine] = new
            /\ \A r \in Row \ {mine} :
                  /\ row'[r].action = row[r].action /\ row'[r].maxAttempts = row[r].maxAttempts
                  /\ row'[r].due = row[r].due
      BY <2>1, Decided DEF DInv
    <3>2. Bound(request[f].decision)
      BY <2>1 DEF Bounded, PersistDecision
    <3>3. \A r \in Row : Bound(row'[r])
      <4> SUFFICES ASSUME NEW r \in Row PROVE Bound(row'[r])
        OBVIOUS
      <4>1. CASE r = mine
        BY <1>2, <3>1, <3>2, <4>1
      <4>2. CASE r # mine
        BY <1>2, <3>1, <4>2 DEF Bounded
      <4>3. QED
        BY <4>1, <4>2
    <3>4. \A g \in Failure : request'[g].doing = "decide" => Bound(request'[g].decision)
      <4>1. request' = [g \in Failure |-> IF g = f THEN Idle ELSE request[g]]
        BY <2>1 DEF PersistDecision, DInv, TInv, TypeOK
      <4>2. QED
        BY <4>1, IdleTyped DEF Bounded
    <3>5. QED
      BY <3>3, <3>4 DEF Bounded, Bound
  <2>2. CASE LoadDecision(f)
    <3>1. PICK q : /\ q = [doing |-> "decide", saw |-> LatestSource(f),
                           decision |-> Decide(DecisionContext(f))]
      OBVIOUS
    <3>2. Bound(q.decision)
      BY <3>1, ContextReadable, DecisionBounded DEF DInv
    <3>3. QED
      BY <1>3, <2>2, <3>1, <3>2 DEF LoadDecision, Begin
  <2>3. CASE LookUpPayment(f) \/ LoadFailure(f)
    BY <1>3, <2>3 DEF LookUpPayment, LoadFailure, Begin
  <2>4. CASE PersistFailure(f) \/ PersistClassification(f) \/ RequestDies(f)
    BY <1>3, <2>4, IdleTyped DEF PersistFailure, PersistClassification, RequestDies
  <2>5. CASE Suggest(f) \/ Resolve(f)
    BY <1>1, <2>5 DEF Suggest, Resolve
  <2>6. QED
    BY <1>4, <2>1, <2>2, <2>3, <2>4, <2>5 DEF Handle
<1>5. ASSUME NEW r \in Row, Process(r) PROVE Bounded'
  <2>1. /\ UNCHANGED request
        /\ \A s \in Row : /\ row'[s].action = row[s].action /\ row'[s].due = row[s].due
                          /\ row'[s].maxAttempts = row[s].maxAttempts
    BY <1>5, ProcessKeeps
  <2>2. \A s \in Row : Bound(row'[s])
    BY <1>2, <2>1 DEF Bounded
  <2>3. QED
    BY <2>1, <2>2 DEF Bounded, Bound
<1>6. QED
  BY <1>1, <1>4, <1>5 DEF Next, TimePasses, vars

\* A message waiting to be sent was approved for an hour outside quiet hours, wherever
\* these are set: a decision that is read, then written late, keeps its hour.
THEOREM MessagesKeepCivilHours == Spec => []NightsAreSilent
<1>1. Bounded => NightsAreSilent
  BY DEF Bounded, Bound, NightsAreSilent
<1>2. QED
  BY <1>1, DInit, DNext, BoundedInit, BoundedNext, PTL DEF Spec

-----------------------------------------------------------------------------
(* What the attempts say of the failures.                                  *)

\* Until the first failure is stored nothing is counted and nothing resolved; from then
\* on that failure is an attempt besides the charges.
Counted ==
    IF stored = {}
    THEN /\ payment.attempts = 0 /\ payment.status \notin Terminal
         /\ \A f \in Failure : request[f].doing = "ingest" => request[f].saw \notin Terminal
    ELSE payment.attempts >= 1 + Cardinality(Charges)

\* A payment that is settled had its two attempts, so one that did not, and was not
\* stopped, has a single failure: what comes later adds an attempt.
Single ==
    MaxAttempts >= 2 =>
        /\ payment.status \in {"SUCCEEDED", "EXHAUSTED"} => payment.attempts >= 2
        /\ payment.attempts <= 1 /\ payment.status # "HARD_STOPPED" =>
              \A f, g \in stored : f = g
        /\ \A f \in Failure :
              request[f].doing = "ingest" /\ request[f].saw \in Terminal /\ payment.attempts <= 1
                => payment.status = "HARD_STOPPED"

\* Fewer charges than attempts allowed.
ChargesBounded == Charges # {} => Cardinality(Charges) < MaxAttempts

SInv == DInv /\ Bounded /\ Counted /\ Single /\ ChargesBounded

LEMMA SInit == Init => SInv
<1> SUFFICES ASSUME Init PROVE SInv
  OBVIOUS
<1>1. Charges = {}
  BY DEF Init, Charges, NoRow
<1>2. \A f \in Failure : request[f].doing = "nothing"
  BY IdleTyped DEF Init
<1>3. Counted /\ Single
  BY <1>2 DEF Init, Counted, Single, Terminal
<1>4. QED
  BY <1>1, <1>3, DInit, BoundedInit DEF SInv, ChargesBounded

\* What the invariants give in numbers.
LEMMA Numbers ==
  ASSUME SInv
  PROVE  /\ payment.attempts \in Nat /\ MaxAttempts \in Nat
         /\ Cardinality(Charges) \in Nat /\ IsFiniteSet(Charges)
         /\ payment.status \in PaymentStatus
         /\ stored # {} => payment.attempts >= 1 + Cardinality(Charges)
<1>1. Cardinality(Charges) \in Nat /\ IsFiniteSet(Charges)
  BY ChargesFinite, FS_CardinalityType
<1>2. QED
  BY <1>1, PolicyAssumption DEF SInv, DInv, TInv, TypeOK, Counted

\* A request that neither stores a failure nor changes the attempts.  A stop may come of it.
LEMMA RequestsCount ==
  ASSUME SInv, NEW f \in Failure, NEW q \in Requests,
         request' = [request EXCEPT ![f] = q],
         q.doing = "ingest" => q.saw = payment.status /\ q.saw = payment'.status,
         stored' = stored, Charges' = Charges, payment'.attempts = payment.attempts,
         payment'.status = payment.status \/ (payment'.status = "HARD_STOPPED" /\ stored # {})
  PROVE  Counted' /\ Single' /\ ChargesBounded'
<1>1. request' = [g \in Failure |-> IF g = f THEN q ELSE request[g]]
  BY DEF SInv, DInv, TInv, TypeOK
<1>2. Counted'
  BY <1>1 DEF SInv, Counted
<1>3. Single'
  <2> SUFFICES ASSUME MaxAttempts >= 2
               PROVE  /\ payment'.status \in {"SUCCEEDED", "EXHAUSTED"} => payment'.attempts >= 2
                      /\ payment'.attempts <= 1 /\ payment'.status # "HARD_STOPPED" =>
                            \A g, h \in stored' : g = h
                      /\ \A g \in Failure :
                            request'[g].doing = "ingest" /\ request'[g].saw \in Terminal
                              /\ payment'.attempts <= 1 => payment'.status = "HARD_STOPPED"
    BY DEF Single
  <2>1. payment.attempts \in Nat
    BY Numbers
  <2>2. /\ payment'.status \in {"SUCCEEDED", "EXHAUSTED"} => payment'.attempts >= 2
        /\ payment'.attempts <= 1 /\ payment'.status # "HARD_STOPPED" =>
              \A g, h \in stored' : g = h
    BY DEF SInv, Single
  <2>3. ASSUME NEW g \in Failure, request'[g].doing = "ingest", request'[g].saw \in Terminal,
               payment'.attempts <= 1
        PROVE  payment'.status = "HARD_STOPPED"
    <3>1. CASE g = f
      BY <1>1, <2>1, <2>2, <2>3, <3>1 DEF Terminal
    <3>2. CASE g # f
      BY <1>1, <2>3, <3>2 DEF SInv, Single
    <3>3. QED
      BY <3>1, <3>2
  <2>4. QED
    BY <2>2, <2>3
<1>4. ChargesBounded'
  BY DEF SInv, ChargesBounded
<1>5. QED
  BY <1>2, <1>3, <1>4

\* A failure that is stored is an attempt, unless the payment was settled: then it
\* had its two, or was stopped.
LEMMA FailuresCount ==
  ASSUME SInv, NEW f \in Failure, PersistFailure(f)
  PROVE  Counted' /\ Single' /\ ChargesBounded'
<1>1. Charges' = Charges /\ stored' = stored \cup {f}
  BY DEF PersistFailure, Charges
<1>2. request' = [g \in Failure |-> IF g = f THEN Idle ELSE request[g]]
  BY DEF PersistFailure, SInv, DInv, TInv, TypeOK
<1>3. ChargesBounded'
  BY <1>1 DEF SInv, ChargesBounded
<1>4. CASE request[f].saw \in Terminal
  <2>1. payment' = payment
    BY <1>4 DEF PersistFailure
  <2>2. request[f].doing = "ingest"
    BY DEF PersistFailure
  <2>3. stored # {}
    BY <1>4, <2>2 DEF SInv, Counted
  <2>4. Counted'
    BY <1>1, <2>1, <2>3 DEF SInv, Counted
  <2>5. Single'
    BY <1>1, <1>2, <1>4, <2>1, <2>2, IdleTyped DEF SInv, Single
  <2>6. QED
    BY <1>3, <2>4, <2>5
<1>5. CASE request[f].saw \notin Terminal
  <2>1. payment'.attempts = payment.attempts + 1 /\ payment'.status = "FAILED"
    BY <1>5 DEF PersistFailure
  <2>2. payment.attempts \in Nat /\ Cardinality(Charges) \in Nat
    BY Numbers
  <2>3. stored = {} => Cardinality(Charges) = 0
    <3> SUFFICES ASSUME stored = {} PROVE Cardinality(Charges) = 0
      OBVIOUS
    <3>1. Charges = {}
      BY DEF SInv, DInv, Diagnosed, TInv, TypeOK, Charges, Schedulable, RetryingActions
    <3>2. QED
      BY <3>1, FS_EmptySet
  <2>4. Counted'
    <3>1. stored = {} => payment.attempts = 0
      BY DEF SInv, Counted
    <3>2. stored # {} => payment.attempts >= 1 + Cardinality(Charges)
      BY Numbers
    <3>3. payment'.attempts >= 1 + Cardinality(Charges')
      BY <1>1, <2>1, <2>2, <2>3, <3>1, <3>2
    <3>4. QED
      BY <1>1, <3>3 DEF Counted
  <2>5. Single'
    <3> SUFFICES ASSUME payment'.attempts <= 1
                 PROVE  /\ \A g, h \in stored' : g = h
                        /\ \A g \in Failure : request'[g].doing = "ingest"
                              => request'[g].saw \notin Terminal
      BY <2>1, <2>2 DEF Single
    <3>1. stored = {}
      BY <2>1, <2>2, Numbers
    <3>2. QED
      BY <1>1, <1>2, <3>1, IdleTyped DEF SInv, Counted
  <2>6. QED
    BY <1>3, <2>4, <2>5
<1>6. QED
  BY <1>4, <1>5

\* A row with a job that passes the safety block is a schedulable one, of a stored
\* failure, and attempts are left for it.
LEMMA Passes ==
  ASSUME SInv, NEW r \in Row, Due(r), SafetyBlock(r) = "none"
  PROVE  /\ row[r].action \in Schedulable /\ row[r].status = "SCHEDULED"
         /\ payment.status \notin {"SUCCEEDED", "HARD_STOPPED"}
         /\ row[r].maxAttempts \in Nat /\ payment.attempts < row[r].maxAttempts
         /\ class[r] # Undiagnosed /\ r[1] \in stored
<1>1. row[r].status \notin {"CANCELLED", "BLOCKED"}
      /\ payment.status \notin {"SUCCEEDED", "HARD_STOPPED"}
      /\ ~(payment.attempts >= row[r].maxAttempts)
  BY DEF SafetyBlock
<1>2. row[r].status = "SCHEDULED" /\ row[r].action \in Schedulable
  BY <1>1 DEF SInv, DInv, TInv, TypeOK, Due
<1>3. row[r].maxAttempts \in Nat /\ payment.attempts \in Nat
  BY DEF SInv, DInv, TInv, TypeOK, RowType
<1>4. class[r] # Undiagnosed /\ r[1] \in stored
  BY <1>2 DEF SInv, DInv, Diagnosed, Schedulable, RetryingActions
<1>5. QED
  BY <1>1, <1>2, <1>3, <1>4

\* The executor counts every charge, charges only below the row's ceiling, and gives
\* up on a payment only when its two attempts are used.
LEMMA ProcessCounts ==
  ASSUME SInv, NEW r \in Row, Process(r)
  PROVE  Counted' /\ Single' /\ ChargesBounded'
<1>1. /\ UNCHANGED <<stored, request>> /\ payment.attempts \in Nat
      /\ Cardinality(Charges) \in Nat /\ IsFiniteSet(Charges) /\ MaxAttempts \in Nat
  BY ProcessKeeps, Numbers DEF SInv
<1>2. \A s \in Row : row'[s].action = row[s].action /\ (s # r => row'[s] = row[s])
  BY ProcessKeeps DEF SInv
<1>3. ASSUME Charges' = Charges, payment'.attempts = payment.attempts,
             payment'.status = payment.status
               \/ (/\ payment'.status = "EXHAUSTED" /\ payment.status # "HARD_STOPPED"
                   /\ stored # {} /\ (MaxAttempts >= 2 => payment.attempts >= 2))
      PROVE  Counted' /\ Single' /\ ChargesBounded'
  <2>1. Counted'
    BY <1>1, <1>3 DEF SInv, Counted
  <2>2. Single'
    BY <1>1, <1>3 DEF SInv, Single
  <2>3. QED
    BY <1>3, <2>1, <2>2 DEF SInv, ChargesBounded
<1>4. (row'[r].status = "EXECUTED" => row[r].status = "EXECUTED" \/ row[r].action = "MESSAGE")
      /\ (row[r].status = "EXECUTED" => row'[r].status = "EXECUTED") => Charges' = Charges
  BY <1>2 DEF Charges
<1>5. CASE Enqueue(r)
  <2>1. payment'.attempts = payment.attempts /\ payment'.status = payment.status
    BY <1>5 DEF Enqueue, SInv, DInv, TInv, TypeOK
  <2>2. row'[r].status = "SCHEDULED" /\ row[r].status = "PENDING"
    BY <1>5, Enqueued DEF SInv, DInv
  <2>3. QED
    BY <1>3, <1>4, <2>1, <2>2
<1>6. ASSUME NEW s \in RowStatus, Due(r), Finish(r, s)
      PROVE  row'[r].status = s /\ row[r].status # "EXECUTED"
  <2>1. row'[r].status = s
    BY <1>6, Finished DEF SInv, DInv
  <2>2. row[r].status # "EXECUTED"
    BY <1>6 DEF Due, SInv, DInv, TInv, TypeOK
  <2>3. QED
    BY <2>1, <2>2
<1>7. CASE ExecuteBlocked(r)
  <2>1. Due(r)
    BY <1>7 DEF ExecuteBlocked
  <2>2. CASE SafetyBlock(r) = "action" /\ Finish(r, row[r].status) /\ UNCHANGED payment
    <3>1. row[r].status \in {"CANCELLED", "BLOCKED"}
      BY <2>2 DEF SafetyBlock
    <3>2. row'[r].status = row[r].status
      BY <1>6, <2>1, <2>2, <3>1 DEF RowStatus
    <3>3. QED
      BY <1>3, <1>4, <2>2, <3>2
  <2>3. CASE SafetyBlock(r) = "payment" /\ Finish(r, "CANCELLED") /\ UNCHANGED payment
    <3>1. row'[r].status = "CANCELLED" /\ row[r].status # "EXECUTED"
      BY <1>6, <2>1, <2>3 DEF RowStatus
    <3>2. QED
      BY <1>3, <1>4, <2>3, <3>1
  <2>4. CASE /\ SafetyBlock(r) = "limit" /\ Finish(r, "BLOCKED")
             /\ payment' = [payment EXCEPT !.status = "EXHAUSTED", !.recovery = "EXHAUSTED"]
    <3>1. row'[r].status = "BLOCKED" /\ row[r].status # "EXECUTED"
      BY <1>6, <2>1, <2>4 DEF RowStatus
    <3>2. row[r].status \notin {"CANCELLED", "BLOCKED"} /\ payment.status # "HARD_STOPPED"
          /\ payment.attempts >= row[r].maxAttempts
      BY <2>4 DEF SafetyBlock
    <3>3. row[r].action \in Schedulable
      BY <2>1, <3>2 DEF Due, SInv, DInv, TInv, TypeOK
    <3>4. stored # {}
      BY <3>3 DEF SInv, DInv, Diagnosed, Schedulable, RetryingActions
    <3>5. MaxAttempts >= 2 => payment.attempts >= 2
      <4>1. row[r].maxAttempts \in Nat
        BY DEF SInv, DInv, TInv, RowType
      <4>2. MaxAttempts >= 2 => row[r].maxAttempts >= 2
        BY <3>3 DEF SInv, Bounded, Bound
      <4>3. QED
        BY <1>1, <3>2, <4>1, <4>2
    <3>6. payment'.attempts = payment.attempts /\ payment'.status = "EXHAUSTED"
      BY <2>4 DEF SInv, DInv, TInv, TypeOK
    <3>7. QED
      BY <1>3, <1>4, <3>1, <3>2, <3>4, <3>5, <3>6
  <2>5. QED
    BY <1>7, <2>2, <2>3, <2>4 DEF ExecuteBlocked
<1>8. CASE ExecuteMessage(r)
  <2>1. Due(r) /\ Finish(r, "EXECUTED") /\ UNCHANGED payment /\ row[r].action = "MESSAGE"
    BY <1>8 DEF ExecuteMessage, Pass
  <2>2. row[r].status # "EXECUTED"
    BY <1>6, <2>1 DEF RowStatus
  <2>3. QED
    BY <1>3, <1>4, <2>1, <2>2
<1>9. CASE ExecuteCharge(r)
  <2>1. Due(r) /\ SafetyBlock(r) = "none" /\ Finish(r, "EXECUTED") /\ row[r].action # "MESSAGE"
    BY <1>9 DEF ExecuteCharge, Pass
  <2>2. /\ payment.attempts < row[r].maxAttempts /\ row[r].maxAttempts \in Nat
        /\ r[1] \in stored
    BY <2>1, Passes
  <2>3. row[r].maxAttempts <= MaxAttempts
    BY DEF SInv, Bounded, Bound
  <2>4. payment.attempts >= 1 + Cardinality(Charges)
    BY <2>2, Numbers
  <2>5. row'[r].status = "EXECUTED" /\ row[r].status # "EXECUTED"
    BY <1>6, <2>1 DEF RowStatus
  <2>6. Charges' = Charges \cup {r} /\ r \notin Charges
    BY <1>2, <2>1, <2>5 DEF Charges
  <2>7. Cardinality(Charges') = Cardinality(Charges) + 1
    BY <1>1, <2>6, FS_AddElement
  <2>8. payment'.attempts = payment.attempts + 1
    BY <1>9 DEF ExecuteCharge, Charged
  <2>9. Counted'
    <3>1. payment'.attempts >= 1 + Cardinality(Charges')
      BY <1>1, <2>4, <2>7, <2>8
    <3>2. QED
      BY <1>1, <2>2, <3>1 DEF Counted
  <2>10. payment'.attempts >= 2
    BY <1>1, <2>4, <2>8
  <2>11. Single'
    BY <1>1, <2>8, <2>10 DEF Single
  <2>12. ChargesBounded'
    BY <1>1, <2>2, <2>3, <2>4, <2>7 DEF ChargesBounded
  <2>13. QED
    BY <2>9, <2>11, <2>12
<1>10. QED
  BY <1>5, <1>7, <1>8, <1>9 DEF Process

LEMMA SNext == SInv /\ [Next]_vars => SInv'
<1> SUFFICES ASSUME SInv, [Next]_vars PROVE SInv'
  OBVIOUS
<1>1. DInv' /\ Bounded'
  BY DNext, BoundedNext DEF SInv
<1>2. CASE UNCHANGED <<payment, stored, request, row>>
  <2>1. Charges' = Charges
    BY <1>2 DEF Charges
  <2>2. Counted' /\ Single' /\ ChargesBounded'
    BY <1>2, <2>1 DEF SInv, Counted, Single, ChargesBounded
  <2>3. QED
    BY <1>1, <2>2 DEF SInv
<1>3. ASSUME NEW f \in Failure, NEW q \in Requests, request' = [request EXCEPT ![f] = q],
             q.doing = "ingest" => q.saw = payment.status,
             stored' = stored, row' = row,
             payment'.attempts = payment.attempts, payment'.status = payment.status
      PROVE  Counted' /\ Single' /\ ChargesBounded'
  BY <1>3, RequestsCount DEF Charges
<1>4. ASSUME NEW f \in Failure, Handle(f) PROVE SInv'
  <2>1. NoDecision \in [action : RecoveryAction \cup {"NONE"}, maxAttempts : Nat,
                       blockedBy : Guardrail \cup {"none"}, due : Nat]
    BY DEF NoDecision, Decision
  <2>2. CASE LookUpPayment(f)
    <3>1. [doing |-> "ingest", saw |-> payment.status, decision |-> NoDecision] \in Requests
      BY <2>1 DEF Requests, SInv, DInv, TInv, TypeOK
    <3>2. Counted' /\ Single' /\ ChargesBounded'
      BY <1>3, <2>2, <3>1 DEF LookUpPayment, Begin
    <3>3. QED
      BY <1>1, <3>2 DEF SInv
  <2>3. CASE PersistFailure(f)
    BY <1>1, <2>3, FailuresCount DEF SInv
  <2>4. CASE LoadFailure(f)
    <3>1. [doing |-> "classify", saw |-> payment.recovery, decision |-> NoDecision] \in Requests
      BY <2>1 DEF Requests, SInv, DInv, TInv, TypeOK
    <3>2. Counted' /\ Single' /\ ChargesBounded'
      BY <1>3, <2>4, <3>1 DEF LoadFailure, Begin
    <3>3. QED
      BY <1>1, <3>2 DEF SInv
  <2>5. CASE PersistClassification(f)
    <3>1. /\ request' = [request EXCEPT ![f] = Idle] /\ stored' = stored /\ row' = row
          /\ payment'.attempts = payment.attempts /\ payment'.status = payment.status
      BY <2>5 DEF PersistClassification, SInv, DInv, TInv, TypeOK
    <3>2. Counted' /\ Single' /\ ChargesBounded'
      BY <1>3, <3>1, IdleTyped
    <3>3. QED
      BY <1>1, <3>2 DEF SInv
  <2>6. CASE Suggest(f) \/ Resolve(f)
    BY <1>2, <2>6 DEF Suggest, Resolve
  <2>7. CASE LoadDecision(f)
    <3>1. PICK q : q = [doing |-> "decide", saw |-> LatestSource(f),
                        decision |-> Decide(DecisionContext(f))]
      OBVIOUS
    <3>2. q \in Requests
      <4>1. q.decision \in [action : RecoveryAction, maxAttempts : Nat,
                            blockedBy : Guardrail \cup {"none"}, due : Nat]
        BY <3>1, ContextReadable, DecisionTyped DEF SInv, DInv
      <4>2. LatestSource(f) \in Source
        BY DEF LatestSource, Source
      <4>3. QED
        BY <3>1, <4>1, <4>2 DEF Requests
    <3>3. Counted' /\ Single' /\ ChargesBounded'
      BY <1>3, <2>7, <3>1, <3>2 DEF LoadDecision, Begin
    <3>4. QED
      BY <1>1, <3>3 DEF SInv
  <2>8. CASE PersistDecision(f)
    <3>1. PICK mine \in Row :
            /\ mine = <<f, request[f].saw>>
            /\ row'[mine].status = InitialStatus(row'[mine].action)
            /\ \A r \in Row \ {mine} :
                  /\ row'[r].action = row[r].action
                  /\ row'[r].status = row[r].status
                        \/ (row[r].status \in {"PENDING", "SCHEDULED"}
                             /\ row'[r].status = "CANCELLED")
      BY <2>8, Decided DEF SInv, DInv
    <3>2. row[mine].status = "NONE"
      BY <2>8, <3>1 DEF PersistDecision, SInv, DInv, CInv, Fresh
    <3>3. Charges' = Charges
      <4>1. row'[mine].status # "EXECUTED"
        BY <3>1 DEF InitialStatus
      <4>2. QED
        BY <3>1, <3>2, <4>1 DEF Charges
    <3>4. stored # {}
      BY <2>8, <3>1 DEF PersistDecision, SInv, DInv, Diagnosed
    <3>5. /\ payment'.attempts = payment.attempts
          /\ payment'.status = payment.status \/ payment'.status = "HARD_STOPPED"
      BY <2>8 DEF PersistDecision, SInv, DInv, TInv, TypeOK
    <3>6. request' = [request EXCEPT ![f] = Idle] /\ stored' = stored
      BY <2>8 DEF PersistDecision
    <3>7. Counted' /\ Single' /\ ChargesBounded'
      BY <3>3, <3>4, <3>5, <3>6, IdleTyped, RequestsCount
    <3>8. QED
      BY <1>1, <3>7 DEF SInv
  <2>9. CASE RequestDies(f)
    <3>1. Counted' /\ Single' /\ ChargesBounded'
      BY <1>3, <2>9, IdleTyped DEF RequestDies
    <3>2. QED
      BY <1>1, <3>1 DEF SInv
  <2>10. QED
    BY <1>4, <2>2, <2>3, <2>4, <2>5, <2>6, <2>7, <2>8, <2>9 DEF Handle
<1>5. ASSUME NEW r \in Row, Process(r) PROVE SInv'
  BY <1>1, <1>5, ProcessCounts DEF SInv
<1>6. QED
  BY <1>2, <1>4, <1>5 DEF Next, TimePasses, vars

\* A payment is charged fewer than MaxAttempts times in its life, whatever is reported,
\* diagnosed again and decided again: the failed original charge is the first attempt.
THEOREM ChargesStayBelowCeiling == Spec => []ChargesBounded
<1>1. SInv => ChargesBounded
  BY DEF SInv
<1>2. QED
  BY <1>1, SInit, SNext, PTL DEF Spec

-----------------------------------------------------------------------------
(* Messages and the retries that stand in for them.                        *)

\* RECOVERY_LIMITS.MAX_MESSAGES_PER_DAY is 2, as many as a failure has rows.
TwoMessages == MaxMessagesPerDay >= 2

\* The playbook of the cause in the row's classification intends a retry.
IntendsRetry(r) ==
    \E switched \in BOOLEAN :
        IntendedAction([cause |-> class[r].cause, method |-> Method,
                        railSwitched |-> switched]) \in RetryingActions

\* A decision of a messaging cause whose attempts are used up: it cannot charge.
Spent(d) == d.maxAttempts <= 2 /\ payment.attempts >= 2

Intended ==
    /\ \A r \in Row : row[r].action \in RetryingActions => IntendsRetry(r) \/ Spent(row[r])
    /\ \A f \in Failure :
          request[f].doing = "decide" /\ request[f].decision.action \in RetryingActions =>
             IntendsRetry(<<f, request[f].saw>>) \/ Spent(request[f].decision)

\* All messages sent are about one failure.
OneFailure ==
    /\ Executed("MESSAGE") # {} => MaxAttempts >= 2
    /\ \A r, s \in Executed("MESSAGE") : r[1] = s[1]

MInv == SInv /\ Intended /\ OneFailure /\ OnlyRetriesCharge

\* What is diagnosed keeps its playbook.
LEMMA IntentionKept ==
  ASSUME Kept, NEW r \in Row, class[r] # Undiagnosed, IntendsRetry(r)
  PROVE  IntendsRetry(r)'
  BY DEF Kept, IntendsRetry

\* Whoever was sent a message has a stored failure.
LEMMA Recipients ==
  ASSUME SInv, NEW r \in Executed("MESSAGE")
  PROVE  r \in Row /\ r[1] \in stored
<1>1. r \in Row /\ row[r].action = "MESSAGE"
  BY DEF Executed
<1>2. class[r] # Undiagnosed
  BY <1>1 DEF SInv, DInv, Diagnosed
<1>3. QED
  BY <1>1, <1>2 DEF SInv, DInv, Diagnosed

\* About one failure there are two messages at most.
LEMMA TwoRows ==
  ASSUME MInv
  PROVE  IsFiniteSet(Executed("MESSAGE")) /\ Cardinality(Executed("MESSAGE")) <= 2
<1>1. CASE Executed("MESSAGE") = {}
  BY <1>1, FS_EmptySet
<1>2. CASE Executed("MESSAGE") # {}
  <2>1. PICK r \in Row : \A s \in Executed("MESSAGE") : s \in Row /\ s[1] = r[1]
    BY <1>2 DEF MInv, OneFailure, Executed
  <2>2. Executed("MESSAGE") \subseteq ({<<r[1], "RULE">>} \cup {<<r[1], "HUMAN">>})
    BY <2>1 DEF Row, Source
  <2>3. IsFiniteSet({<<r[1], "RULE">>}) /\ Cardinality({<<r[1], "RULE">>}) = 1
    BY FS_Singleton
  <2>4. <<r[1], "HUMAN">> \notin {<<r[1], "RULE">>}
    OBVIOUS
  <2>5. /\ IsFiniteSet({<<r[1], "RULE">>} \cup {<<r[1], "HUMAN">>})
        /\ Cardinality({<<r[1], "RULE">>} \cup {<<r[1], "HUMAN">>}) = 1 + 1
    BY <2>3, <2>4, FS_AddElement
  <2>6. /\ IsFiniteSet(Executed("MESSAGE"))
        /\ Cardinality(Executed("MESSAGE"))
             <= Cardinality({<<r[1], "RULE">>} \cup {<<r[1], "HUMAN">>})
    BY <2>2, <2>5, FS_Subset
  <2>7. QED
    BY <2>5, <2>6
<1>3. QED
  BY <1>1, <1>2

\* While a payment has one attempt, a decision still to be made about it finds at most
\* the message of the other source.
LEMMA OneMessageSoFar ==
  ASSUME MInv, NEW f \in Failure, NEW s \in Source, row[<<f, s>>] = NoRow,
         class[<<f, s>>] # Undiagnosed, payment.attempts <= 1,
         payment.status # "HARD_STOPPED"
  PROVE  IsFiniteSet(Executed("MESSAGE")) /\ Cardinality(Executed("MESSAGE")) <= 1
<1>1. CASE Executed("MESSAGE") = {}
  BY <1>1, FS_EmptySet
<1>2. CASE Executed("MESSAGE") # {}
  <2>1. MaxAttempts >= 2
    BY <1>2 DEF MInv, OneFailure
  <2>2. \A g, h \in stored : g = h
    BY <2>1 DEF MInv, SInv, Single
  <2>3. PICK mine \in Row : mine = <<f, s>>
    BY DEF Row
  <2>4. f \in stored
    BY <2>3 DEF MInv, SInv, DInv, Diagnosed
  <2>5. PICK other \in Source : Source = {s, other}
    BY DEF Source
  <2>6. \A r \in Executed("MESSAGE") : r = <<f, other>>
    <3> SUFFICES ASSUME NEW r \in Executed("MESSAGE") PROVE r = <<f, other>>
      OBVIOUS
    <3>1. r \in Row /\ r[1] \in stored
      BY Recipients DEF MInv
    <3>2. r # mine
      BY <2>3 DEF Executed, NoRow
    <3>3. QED
      BY <2>2, <2>3, <2>4, <2>5, <3>1, <3>2 DEF Row
  <2>7. Executed("MESSAGE") \subseteq {<<f, other>>}
    BY <2>6
  <2>8. IsFiniteSet({<<f, other>>}) /\ Cardinality({<<f, other>>}) = 1
    BY FS_Singleton
  <2>9. /\ IsFiniteSet(Executed("MESSAGE"))
        /\ Cardinality(Executed("MESSAGE")) <= Cardinality({<<f, other>>})
    BY <2>7, <2>8, FS_Subset
  <2>10. QED
    BY <2>8, <2>9
<1>3. QED
  BY <1>1, <1>2

\* The engine decides on a retry for a cause that is retried, or, over the contact
\* ceiling, for a payment whose attempts are used up.
LEMMA DecisionIntended ==
  ASSUME TwoMessages, MInv, NEW f \in Failure, LoadDecision(f),
         NEW s \in Source, s = LatestSource(f),
         NEW d, d = Decide(DecisionContext(f)), d.action \in RetryingActions
  PROVE  IntendsRetry(<<f, s>>) \/ Spent(d)
<1>1. PICK ctx : ctx = DecisionContext(f)
  OBVIOUS
<1>2. Readable(ctx) /\ d = Decide(ctx)
  BY <1>1, ContextReadable DEF MInv, SInv, DInv
<1>3. /\ ctx.cause = class[<<f, s>>].cause /\ ctx.method = Method /\ ctx.railSwitched \in BOOLEAN
      /\ ctx.status = payment.status /\ ctx.mandateRevoked = MandateHit
      /\ ctx.messages = Cardinality({r \in Executed("MESSAGE") :
                                        row[r].executedAt >= clock - Day})
  BY <1>1 DEF DecisionContext, Latest
<1>4. PICK intended : intended = IntendedAction(ctx)
  OBVIOUS
<1>5. CASE intended \in RetryingActions
  <2>1. PICK switched \in BOOLEAN : switched = ctx.railSwitched
    BY <1>3
  <2>2. IntendedAction([cause |-> class[<<f, s>>].cause, method |-> Method,
                        railSwitched |-> switched]) = intended
    BY <1>3, <1>4, <2>1 DEF IntendedAction
  <2>3. QED
    BY <1>5, <2>2 DEF IntendsRetry
<1>6. CASE intended \notin RetryingActions
  <2>1. PICK ce : ce = Ceiling(ctx)
    OBVIOUS
  <2>2. PICK st : st = StoppedBy(ctx)
    OBVIOUS
  <2>3. \A b, t, c : d # Decision("HARD_STOP", c, b, t) /\ d # Decision("HUMAN_REVIEW", c, b, t)
                     /\ d # Decision("MESSAGE", c, b, t)
    BY DEF Decision, RetryingActions
  <2>4. /\ st = "none" /\ intended = "MESSAGE" /\ ctx.messages >= MaxMessagesPerDay
        /\ d = Decision("WAIT", ce, "message_daily_limit_reached", NextQuietEnd(ctx.now))
    BY <1>2, <1>4, <1>6, <2>1, <2>2, <2>3, DecisionCases
  <2>5. payment.status # "HARD_STOPPED"
    BY <1>3, <2>2, <2>4 DEF StoppedBy
  <2>6. d.maxAttempts <= 2
    <3>1. CauseMaxAttempts(ctx.cause) = 2
      BY <1>4, <2>4, CeilingOfIntended
    <3>2. d.maxAttempts = ce
      BY <2>4 DEF Decision
    <3>3. QED
      BY <2>1, <3>1, <3>2, CeilingBound
  <2>7. payment.attempts >= 2
    <3> SUFFICES ASSUME ~(payment.attempts >= 2) PROVE FALSE
      OBVIOUS
    <3>1. payment.attempts <= 1
      BY Numbers DEF MInv
    <3>2. row[<<f, s>>] = NoRow /\ class[<<f, s>>] # Undiagnosed
      BY DEF LoadDecision, Latest
    <3>3. IsFiniteSet(Executed("MESSAGE")) /\ Cardinality(Executed("MESSAGE")) <= 1
      BY <2>5, <3>1, <3>2, OneMessageSoFar
    <3>4. PICK sent : sent = {r \in Executed("MESSAGE") : row[r].executedAt >= clock - Day}
      OBVIOUS
    <3>5. sent \subseteq Executed("MESSAGE")
      BY <3>4
    <3>6. IsFiniteSet(sent) /\ Cardinality(sent) <= Cardinality(Executed("MESSAGE"))
      BY <3>3, <3>5, FS_Subset
    <3>7. Cardinality(sent) \in Nat /\ Cardinality(Executed("MESSAGE")) \in Nat
      BY <3>3, <3>6, FS_CardinalityType
    <3>8. Cardinality(sent) >= MaxMessagesPerDay
      BY <1>3, <2>4, <3>4
    <3>9. QED
      BY <3>3, <3>6, <3>7, <3>8, PolicyAssumption DEF TwoMessages
  <2>8. QED
    BY <2>6, <2>7 DEF Spent
<1>7. QED
  BY <1>5, <1>6

\* The steps that leave the rows alone and begin no decision.
LEMMA HandleElsewhere ==
  ASSUME MInv, SInv', Kept, row' = row, payment'.attempts >= payment.attempts,
         NEW f \in Failure, NEW q,
         request' = [request EXCEPT ![f] = q] \/ request' = request,
         q.doing = "decide" /\ q.decision.action \in RetryingActions =>
            /\ <<f, q.saw>> \in Row /\ class[<<f, q.saw>>] # Undiagnosed
            /\ IntendsRetry(<<f, q.saw>>) \/ Spent(q.decision)
  PROVE  MInv'
<1>1. payment.attempts \in Nat /\ payment'.attempts \in Nat
  BY Numbers DEF MInv, SInv, DInv, TInv, TypeOK
<1>2. ASSUME NEW d, Spent(d) PROVE d.maxAttempts <= 2 /\ payment'.attempts >= 2
  BY <1>1, <1>2 DEF Spent
<1>3. \A r \in Row : row'[r].action \in RetryingActions => IntendsRetry(r)' \/ Spent(row[r])'
  <2> SUFFICES ASSUME NEW r \in Row, row[r].action \in RetryingActions
               PROVE  IntendsRetry(r)' \/ Spent(row[r])'
    BY row' = row
  <2>1. class[r] # Undiagnosed
    BY DEF MInv, SInv, DInv, Diagnosed, RetryingActions
  <2>2. IntendsRetry(r) \/ Spent(row[r])
    BY DEF MInv, Intended
  <2>3. CASE IntendsRetry(r)
    BY <2>1, <2>3, IntentionKept
  <2>4. CASE Spent(row[r])
    BY <1>2, <2>4 DEF Spent
  <2>5. QED
    BY <2>2, <2>3, <2>4
<1>4. \A g \in Failure :
         request'[g].doing = "decide" /\ request'[g].decision.action \in RetryingActions =>
            IntendsRetry(<<g, request[g].saw>>)' \/ Spent(request[g].decision)'
  <2> SUFFICES ASSUME NEW g \in Failure, request'[g].doing = "decide",
                      request'[g].decision.action \in RetryingActions
               PROVE  IntendsRetry(<<g, request[g].saw>>)' \/ Spent(request[g].decision)'
    OBVIOUS
  <2>1. PICK p : p = request'[g]
    OBVIOUS
  <2>2. p = request[g] \/ (g = f /\ p = q)
    BY <2>1 DEF MInv, SInv, DInv, TInv, TypeOK
  <2>3. PICK r \in Row : r = <<g, p.saw>>
    <3>1. p.saw \in Source
      BY <2>1 DEF SInv, DInv, TInv, Deciding
    <3>2. QED
      BY <3>1 DEF Row
  <2>4. class[r] # Undiagnosed /\ (IntendsRetry(r) \/ Spent(p.decision))
    <3>1. CASE p = request[g]
      BY <2>1, <2>3, <3>1, ZenonT(30) DEF MInv, SInv, DInv, Diagnosed, Intended
    <3>2. CASE g = f /\ p = q
      BY <2>1, <2>3, <3>2
    <3>3. QED
      BY <2>2, <3>1, <3>2
  <2>5. CASE IntendsRetry(r)
    <3>1. IntendsRetry(r)'
      BY <2>4, <2>5, IntentionKept
    <3>2. QED
      BY <2>1, <2>3, <3>1 DEF IntendsRetry
  <2>6. CASE Spent(p.decision)
    BY <1>2, <2>1, <2>6 DEF Spent
  <2>7. QED
    BY <2>4, <2>5, <2>6
<1>5. Intended'
  BY <1>3, <1>4 DEF Intended
<1>6. OneFailure'
  BY DEF MInv, OneFailure, Executed
<1>7. OnlyRetriesCharge'
  <2> SUFFICES ASSUME NEW r \in Charges PROVE IntendsRetry(r)'
    BY DEF OnlyRetriesCharge, Charges, IntendsRetry
  <2>1. r \in Row /\ row[r].status = "EXECUTED"
    BY DEF Charges
  <2>2. class[r] # Undiagnosed
    BY <2>1 DEF MInv, SInv, DInv, Diagnosed, TInv, TypeOK, Schedulable, RetryingActions
  <2>3. IntendsRetry(r)
    BY DEF MInv, OnlyRetriesCharge, IntendsRetry
  <2>4. QED
    BY <2>1, <2>2, <2>3, IntentionKept
<1>8. QED
  BY <1>5, <1>6, <1>7 DEF MInv

\* A step on the rows that keeps what is executed, but for row r perhaps, and keeps
\* what every row but r was decided for.
LEMMA RowsElsewhere ==
  ASSUME MInv, SInv', Kept, class' = class, payment'.attempts >= payment.attempts,
         NEW r \in Row,
         \A g \in Failure : request'[g] = request[g] \/ request'[g] = Idle,
         \A s \in Row \ {r} :
            /\ row'[s].action = row[s].action /\ row'[s].maxAttempts = row[s].maxAttempts
            /\ row'[s].status = "EXECUTED" <=> row[s].status = "EXECUTED",
         row'[r].action \in RetryingActions => IntendsRetry(r) \/ Spent(row'[r]),
         row'[r].status = "EXECUTED" /\ row'[r].action = "MESSAGE" =>
            \/ row[r].status = "EXECUTED" /\ row[r].action = "MESSAGE"
            \/ MaxAttempts >= 2 /\ \A g \in stored : g = r[1],
         row'[r].status = "EXECUTED" /\ row'[r].action # "MESSAGE" => IntendsRetry(r)
  PROVE  MInv'
<1>1. payment.attempts \in Nat /\ payment'.attempts \in Nat
  BY Numbers DEF MInv, SInv, DInv, TInv, TypeOK
<1>2. \A s : IntendsRetry(s) <=> IntendsRetry(s)'
  BY DEF IntendsRetry
<1>3. Intended'
  <2>1. ASSUME NEW s \in Row, row'[s].action \in RetryingActions
        PROVE  IntendsRetry(s) \/ (row'[s].maxAttempts <= 2 /\ payment'.attempts >= 2)
    <3>1. CASE s = r
      BY <1>1, <2>1, <3>1 DEF Spent
    <3>2. CASE s # r
      BY <1>1, <2>1, <3>2 DEF MInv, Intended, Spent
    <3>3. QED
      BY <3>1, <3>2
  <2>2. ASSUME NEW g \in Failure, request'[g].doing = "decide",
               request'[g].decision.action \in RetryingActions
        PROVE  \/ IntendsRetry(<<g, request'[g].saw>>)
               \/ request'[g].decision.maxAttempts <= 2 /\ payment'.attempts >= 2
    <3>1. request'[g] = request[g]
      BY <2>2, IdleTyped
    <3>2. QED
      BY <1>1, <2>2, <3>1 DEF MInv, Intended, Spent
  <2>3. QED
    BY <2>1, <2>2 DEF Intended, Spent, IntendsRetry
<1>4. \A s \in Row \ {r} : s \in Executed("MESSAGE")' <=> s \in Executed("MESSAGE")
  BY DEF Executed
<1>5. OneFailure'
  <2>1. CASE r \in Executed("MESSAGE")' => r \in Executed("MESSAGE")
    <3>1. Executed("MESSAGE")' \subseteq Executed("MESSAGE")
      BY <1>4, <2>1 DEF Executed
    <3>2. QED
      BY <3>1 DEF MInv, OneFailure
  <2>2. CASE r \in Executed("MESSAGE")' /\ r \notin Executed("MESSAGE")
    <3>1. MaxAttempts >= 2 /\ \A g \in stored : g = r[1]
      BY <2>2 DEF Executed
    <3>2. \A s \in Executed("MESSAGE")' : s[1] = r[1]
      <4> SUFFICES ASSUME NEW s \in Executed("MESSAGE")', s # r PROVE s[1] = r[1]
        OBVIOUS
      <4>1. s \in Executed("MESSAGE")
        BY <1>4 DEF Executed
      <4>2. QED
        BY <3>1, <4>1, Recipients DEF MInv
    <3>3. QED
      BY <3>1, <3>2 DEF OneFailure
  <2>3. QED
    BY <2>1, <2>2
<1>6. OnlyRetriesCharge'
  <2> SUFFICES ASSUME NEW s \in Row, row'[s].status = "EXECUTED", row'[s].action # "MESSAGE"
               PROVE  IntendsRetry(s)
    BY DEF OnlyRetriesCharge, Charges, IntendsRetry
  <2>1. CASE s = r
    BY <2>1
  <2>2. CASE s # r
    BY <2>2 DEF MInv, OnlyRetriesCharge, Charges, IntendsRetry
  <2>3. QED
    BY <2>1, <2>2
<1>7. QED
  BY <1>3, <1>5, <1>6 DEF MInv

LEMMA MHandle ==
  ASSUME TwoMessages, MInv, SInv', Kept, NEW f \in Failure, Handle(f)
  PROVE  MInv'
<1>1. payment.attempts \in Nat /\ DOMAIN payment = {"status", "recovery", "attempts"}
  BY Numbers DEF MInv, SInv, DInv, TInv, TypeOK
<1>10. payment' = payment => payment'.attempts >= payment.attempts
  BY <1>1
<1>2. CASE LookUpPayment(f) \/ LoadFailure(f)
  <2>1. row' = row /\ payment' = payment
    BY <1>2 DEF LookUpPayment, LoadFailure
  <2>2. PICK q : request' = [request EXCEPT ![f] = q] /\ q.doing # "decide"
    <3>1. PICK doing, saw :
            /\ doing \in {"ingest", "classify"}
            /\ request' = [request EXCEPT ![f] = [doing |-> doing, saw |-> saw,
                                                  decision |-> NoDecision]]
      BY <1>2 DEF LookUpPayment, LoadFailure, Begin
    <3>2. PICK q : q = [doing |-> doing, saw |-> saw, decision |-> NoDecision]
      OBVIOUS
    <3>3. q.doing # "decide"
      BY <3>1, <3>2
    <3>4. request' = [request EXCEPT ![f] = q]
      BY <3>1, <3>2
    <3>5. QED
      BY <3>3, <3>4
  <2>3. QED
    BY <1>10, <2>1, <2>2, HandleElsewhere
<1>3. CASE PersistFailure(f)
  <2>1. payment'.attempts >= payment.attempts
    BY <1>1, <1>3 DEF PersistFailure
  <2>2. QED
    BY <1>3, <2>1, IdleTyped, HandleElsewhere DEF PersistFailure
<1>4. CASE PersistClassification(f)
  <2>1. payment'.attempts >= payment.attempts
    BY <1>1, <1>4 DEF PersistClassification
  <2>2. QED
    BY <1>4, <2>1, IdleTyped, HandleElsewhere DEF PersistClassification
<1>5. CASE Suggest(f) \/ Resolve(f)
  <2>1. row' = row /\ payment' = payment /\ request' = request
    BY <1>5 DEF Suggest, Resolve
  <2>2. QED
    BY <1>10, <2>1, IdleTyped, HandleElsewhere
<1>6. CASE RequestDies(f)
  <2>1. row' = row /\ payment' = payment /\ request' = [request EXCEPT ![f] = Idle]
    BY <1>6 DEF RequestDies
  <2>2. QED
    BY <1>10, <2>1, IdleTyped, HandleElsewhere
<1>7. CASE LoadDecision(f)
  <2>1. PICK s \in Source : s = LatestSource(f)
    BY DEF LatestSource, Source
  <2>2. PICK d : d = Decide(DecisionContext(f))
    OBVIOUS
  <2>3. PICK q : q = [doing |-> "decide", saw |-> s, decision |-> d]
    OBVIOUS
  <2>4. <<f, s>> \in Row /\ class[<<f, s>>] # Undiagnosed
    BY <1>7, <2>1 DEF LoadDecision, Latest, Row
  <2>5. d.action \in RetryingActions => IntendsRetry(<<f, s>>) \/ Spent(d)
    BY <1>7, <2>1, <2>2, DecisionIntended
  <2>6. request' = [request EXCEPT ![f] = q] /\ row' = row /\ payment' = payment
    BY <1>7, <2>1, <2>2, <2>3 DEF LoadDecision, Begin
  <2>7. q.saw = s /\ q.decision = d
    BY <2>3
  <2>8. QED
    BY <1>10, <2>4, <2>5, <2>6, <2>7, HandleElsewhere
<1>8. CASE PersistDecision(f)
  <2>1. PICK mine \in Row, new \in RowType :
          /\ mine = <<f, request[f].saw>>
          /\ new.action = request[f].decision.action
          /\ new.maxAttempts = request[f].decision.maxAttempts
          /\ new.status = InitialStatus(new.action)
          /\ row'[mine] = new
          /\ \A r \in Row \ {mine} :
                /\ row'[r].action = row[r].action /\ row'[r].maxAttempts = row[r].maxAttempts
                /\ row'[r].status = row[r].status
                      \/ (row[r].status \in {"PENDING", "SCHEDULED"}
                           /\ row'[r].status = "CANCELLED")
    BY <1>8, Decided DEF MInv, SInv, DInv
  <2>2. new.status # "EXECUTED"
    BY <2>1 DEF InitialStatus
  <2>3. new.action \in RetryingActions => IntendsRetry(mine) \/ Spent(new)
    BY <1>8, <2>1 DEF PersistDecision, MInv, Intended, Spent
  <2>4. \A g \in Failure : request'[g] = request[g] \/ request'[g] = Idle
    BY <1>8 DEF PersistDecision, MInv, SInv, DInv, TInv, TypeOK
  <2>5. class' = class /\ payment'.attempts >= payment.attempts
    BY <1>1, <1>8 DEF PersistDecision
  <2>6. \A r \in Row \ {mine} :
           /\ row'[r].action = row[r].action /\ row'[r].maxAttempts = row[r].maxAttempts
           /\ row'[r].status = "EXECUTED" <=> row[r].status = "EXECUTED"
    BY <2>1
  <2>7. QED
    BY <2>1, <2>2, <2>3, <2>4, <2>5, <2>6, RowsElsewhere
<1>9. QED
  BY <1>2, <1>3, <1>4, <1>5, <1>6, <1>7, <1>8 DEF Handle

\* A message is sent only at the first attempt, so about the one failure there is; a
\* charge only where attempts are left, so for a cause that is retried.
LEMMA MProcess ==
  ASSUME MInv, SInv', Kept, NEW r \in Row, Process(r)
  PROVE  MInv'
<1>1. /\ payment.attempts \in Nat /\ DOMAIN payment = {"status", "recovery", "attempts"}
      /\ MaxAttempts \in Nat
  BY Numbers DEF MInv, SInv, DInv, TInv, TypeOK
<1>2. /\ UNCHANGED <<stored, class, request>>
      /\ \A s \in Row : /\ row'[s].action = row[s].action
                        /\ row'[s].maxAttempts = row[s].maxAttempts
                        /\ s # r => row'[s] = row[s]
  BY ProcessKeeps DEF MInv, SInv
<1>3. row'[r].action \in RetryingActions => IntendsRetry(r) \/ Spent(row'[r])
  BY <1>2 DEF MInv, Intended, Spent
<1>4. ASSUME payment'.attempts >= payment.attempts,
             row'[r].status = "EXECUTED" /\ row'[r].action = "MESSAGE" =>
                \/ row[r].status = "EXECUTED" /\ row[r].action = "MESSAGE"
                \/ MaxAttempts >= 2 /\ \A g \in stored : g = r[1],
             row'[r].status = "EXECUTED" /\ row'[r].action # "MESSAGE" => IntendsRetry(r)
      PROVE  MInv'
  BY <1>2, <1>3, <1>4, RowsElsewhere
<1>5. CASE Enqueue(r)
  <2>1. row'[r].status = "SCHEDULED"
    BY <1>5, Enqueued DEF MInv, SInv, DInv
  <2>2. payment'.attempts = payment.attempts
    BY <1>1, <1>5 DEF Enqueue
  <2>3. QED
    BY <1>1, <1>4, <2>1, <2>2
<1>6. CASE ExecuteBlocked(r)
  <2>1. row[r].status # "EXECUTED"
    BY <1>6 DEF ExecuteBlocked, Due, MInv, SInv, DInv, TInv, TypeOK
  <2>2. PICK s \in RowStatus : Finish(r, s) /\ s # "EXECUTED"
    <3>1. row[r].status \in RowStatus
      BY DEF MInv, SInv, DInv, TInv, RowType
    <3>2. QED
      BY <1>6, <2>1, <3>1 DEF ExecuteBlocked, RowStatus
  <2>3. row'[r].status = s
    BY <2>2, Finished DEF MInv, SInv, DInv
  <2>4. payment'.attempts = payment.attempts
    BY <1>1, <1>6 DEF ExecuteBlocked
  <2>5. QED
    BY <1>1, <1>4, <2>2, <2>3, <2>4
<1>7. CASE ExecuteMessage(r)
  <2>1. Due(r) /\ SafetyBlock(r) = "none" /\ row[r].action = "MESSAGE" /\ payment' = payment
    BY <1>7 DEF ExecuteMessage, Pass
  <2>2. /\ payment.status # "HARD_STOPPED" /\ row[r].maxAttempts \in Nat
        /\ payment.attempts < row[r].maxAttempts /\ r[1] \in stored
    BY <2>1, Passes DEF MInv
  <2>3. row[r].maxAttempts <= 2 /\ row[r].maxAttempts <= MaxAttempts
    BY <2>1 DEF MInv, SInv, Bounded, Bound
  <2>4. payment.attempts >= 1
    <3>1. payment.attempts >= 1 + Cardinality(Charges) /\ Cardinality(Charges) \in Nat
      BY <2>2, Numbers DEF MInv
    <3>2. QED
      BY <1>1, <3>1
  <2>5. payment.attempts <= 1 /\ MaxAttempts >= 2
    BY <1>1, <2>2, <2>3, <2>4
  <2>6. \A g \in stored : g = r[1]
    BY <2>2, <2>5 DEF MInv, SInv, Single
  <2>7. QED
    BY <1>1, <1>2, <1>4, <2>1, <2>5, <2>6
<1>8. CASE ExecuteCharge(r)
  <2>1. Due(r) /\ SafetyBlock(r) = "none" /\ row[r].action # "MESSAGE"
    BY <1>8 DEF ExecuteCharge, Pass
  <2>2. /\ row[r].action \in Schedulable /\ row[r].maxAttempts \in Nat
        /\ payment.attempts < row[r].maxAttempts
    BY <2>1, Passes DEF MInv
  <2>3. IntendsRetry(r)
    <3>1. IntendsRetry(r) \/ Spent(row[r])
      BY <2>1, <2>2 DEF MInv, Intended, Schedulable
    <3>2. ~Spent(row[r])
      BY <1>1, <2>2 DEF Spent
    <3>3. QED
      BY <3>1, <3>2
  <2>4. payment'.attempts = payment.attempts + 1
    BY <1>8 DEF ExecuteCharge, Charged
  <2>5. QED
    BY <1>1, <1>2, <1>4, <2>1, <2>3, <2>4
<1>9. QED
  BY <1>5, <1>6, <1>7, <1>8 DEF Process

LEMMA MInit == Init => MInv
<1> SUFFICES ASSUME Init PROVE MInv
  OBVIOUS
<1>1. \A r \in Row : row[r].action = "NONE" /\ row[r].status = "NONE"
  BY DEF Init, NoRow
<1>2. \A f \in Failure : request[f].doing = "nothing"
  BY IdleTyped DEF Init
<1>3. Intended
  BY <1>1, <1>2 DEF Intended, RetryingActions
<1>4. Executed("MESSAGE") = {} /\ Charges = {}
  BY <1>1 DEF Executed, Charges
<1>5. QED
  BY <1>3, <1>4, SInit DEF MInv, OneFailure, OnlyRetriesCharge

LEMMA MNext == TwoMessages /\ MInv /\ [Next]_vars => MInv'
<1> SUFFICES ASSUME TwoMessages, MInv, [Next]_vars PROVE MInv'
  OBVIOUS
<1>1. SInv' /\ Kept
  BY SNext, DNext DEF MInv, SInv
<1>2. CASE UNCHANGED <<payment, stored, class, request, row>>
  BY <1>1, <1>2
    DEF MInv, Intended, IntendsRetry, Spent, OneFailure, Executed, OnlyRetriesCharge, Charges
<1>3. ASSUME NEW f \in Failure, Handle(f) PROVE MInv'
  BY <1>1, <1>3, MHandle
<1>4. ASSUME NEW r \in Row, Process(r) PROVE MInv'
  BY <1>1, <1>4, MProcess
<1>5. QED
  BY <1>2, <1>3, <1>4 DEF Next, TimePasses, vars

\* With the contact ceiling the code sets, no customer gets more messages in 24 hours
\* than it allows, although a decision counts the messages sent and not those waiting
\* to be; and no payment is charged MaxAttempts times.
THEOREM BudgetsAreKept ==
  ASSUME TwoMessages
  PROVE  Spec => []BudgetsHold
<1>1. MInv => BudgetsHold
  <2> SUFFICES ASSUME MInv, NEW r \in Executed("MESSAGE")
               PROVE  Cardinality({m \in Executed("MESSAGE") : row[m].executedAt
                                     \in (row[r].executedAt - Day)..row[r].executedAt})
                        <= MaxMessagesPerDay
    BY DEF BudgetsHold, MInv, SInv, ChargesBounded
  <2>1. IsFiniteSet(Executed("MESSAGE")) /\ Cardinality(Executed("MESSAGE")) <= 2
    BY TwoRows
  <2>2. PICK sent : sent = {m \in Executed("MESSAGE") : row[m].executedAt
                               \in (row[r].executedAt - Day)..row[r].executedAt}
    OBVIOUS
  <2>3. sent \subseteq Executed("MESSAGE")
    BY <2>2
  <2>4. IsFiniteSet(sent) /\ Cardinality(sent) <= Cardinality(Executed("MESSAGE"))
    BY <2>1, <2>3, FS_Subset
  <2>5. Cardinality(sent) \in Nat /\ Cardinality(Executed("MESSAGE")) \in Nat
    BY <2>1, <2>4, FS_CardinalityType
  <2>6. Cardinality(sent) <= MaxMessagesPerDay
    BY <2>1, <2>4, <2>5, PolicyAssumption DEF TwoMessages
  <2>7. QED
    BY <2>2, <2>6
<1>2. QED
  BY <1>1, MInit, MNext, PTL DEF Spec

\* With that ceiling a charge is made only for a cause whose playbook intends a retry:
\* the WAIT that stands in for a message over the ceiling never charges.
THEOREM ChargesAreRetries ==
  ASSUME TwoMessages
  PROVE  Spec => []OnlyRetriesCharge
<1>1. MInv => OnlyRetriesCharge
  BY DEF MInv
<1>2. QED
  BY <1>1, MInit, MNext, PTL DEF Spec

=============================================================================
