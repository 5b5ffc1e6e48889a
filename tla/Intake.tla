------------------------------- MODULE Intake -------------------------------
(***************************************************************************)
(* The API's idempotent services around the failures of one payment, at    *)
(* the granularity of their awaits: ingestion, classification, the AI      *)
(* suggestion, the human verdict, the decision, the recovery message and   *)
(* the explanation.  Each loads what it is about, looks its key up, perhaps *)
(* asks the model, and writes in one transaction, where a unique index has  *)
(* the last word.  Requests overlap, and the process may die in any of     *)
(* them.  What becomes of a decision afterwards is RecoveryCase's and      *)
(* RecoveryExecution's.                                                    *)
(***************************************************************************)
EXTENDS Triage, FiniteSets

CONSTANTS
    Client,         \* concurrent requests
    Key,            \* Idempotency-Keys of failure events
    Payload,        \* a record of the events, by name
    Reports,        \* Key -> the names of those that may be reported under it
    Occurred,       \* Key -> when they happened, in whichever order they are reported
    Method,         \* the payment's method
    Suggestions,    \* causes the model may suggest
    Verdicts,       \* causes a reviewer may settle on
    Now,            \* the time of all decisions
    MaxRows         \* bound: rows written

ASSUME IntakeAssumption ==
    /\ IsFiniteSet(Client) /\ IsFiniteSet(Key) /\ Occurred \in [Key -> Nat]
    /\ \A k \in Key : Reports[k] \subseteq DOMAIN Payload
    /\ Suggestions \subseteq RootCause /\ Verdicts \subseteq RootCause
    /\ Now \in Nat /\ MaxRows \in Nat

VARIABLES
    payment,        \* the Payment row
    table,          \* the rows of each table, in the order of their creation
    audit,          \* the audit events, but for their wording and order
    request         \* Client -> the request it makes

vars == <<payment, table, audit, request>>
stored == <<payment, table, audit>>

Terminal == {"SUCCEEDED", "HARD_STOPPED", "EXHAUSTED"}   \* TERMINAL_STATUSES
Source == {"RULE", "LLM_SUGGESTION", "HUMAN"}
Authoritative == {"RULE", "HUMAN"}

\* Where each operation writes, and what it answers when it has.
Writes == [ingest |-> "failure", classify |-> "classification", suggest |-> "classification",
           resolve |-> "classification", decide |-> "action", message |-> "message"]
Answers == [ingest |-> "ACCEPTED", classify |-> "CLASSIFIED", suggest |-> "CREATED",
            resolve |-> "RESOLVED", decide |-> "DECIDED", message |-> "CREATED"]
Refusals == {"UNPROCESSABLE", "PAYMENT_NOT_FOUND", "FAILURE_NOT_FOUND", "NOT_CLASSIFIED",
             "NOT_ELIGIBLE", "ROOT_CAUSE_REQUIRED", "ACTION_NOT_FOUND",
             "MESSAGE_NOT_REQUESTED"}
AsksModel == {"suggest", "message", "explain"}
\* The services that catch P2002 and answer with the winner's row.
Forgives == {"ingest", "classify", "decide", "message"}

NewPayment == [status |-> "PENDING", recovery |-> "NONE", attempts |-> 0]
NoRow == [key |-> 0]
Idle == [op |-> "none", at |-> "done", saw |-> NewPayment, row |-> NoRow,
         answer |-> "none", id |-> 0]

Init ==
    /\ payment = NewPayment
    /\ table = [failure |-> <<>>, classification |-> <<>>, action |-> <<>>, message |-> <<>>]
    /\ audit = {}
    /\ request = [c \in Client |-> Idle]

-----------------------------------------------------------------------------
(* Rows and requests.                                                       *)

\* The row of table t under this value of its unique column, if any.
Holding(t, key) == {i \in DOMAIN table[t] : table[t][i].key = key}

\* Mutant: no unique index on the failure and the version of the classifier.
Taken_NoIndex(t, key) == t # "classification" /\ Holding(t, key) # {}

\* What the unique indices refuse.
Taken(t, key) == Holding(t, key) # {}

\* The classifications of failure f by one of these sources.
Diagnoses(f, sources) ==
    {i \in DOMAIN table.classification :
        table.classification[i].failure = f /\ table.classification[i].source \in sources}
Youngest(ids) == CHOOSE i \in ids : \A j \in ids : j <= i

\* These write by what they saw of the payment when they loaded it.
SeesPayment == {"ingest", "classify"}

\* Request c has loaded what op is about, and would write row.
Begin(c, op, at, row) ==
    /\ request' = [request EXCEPT ![c] =
                     [Idle EXCEPT !.op = op, !.at = at, !.row = row,
                                  !.saw = IF op \in SeesPayment THEN payment ELSE @]]
    /\ UNCHANGED stored

Reply(c, op, key, answer, id) ==
    request' = [request EXCEPT ![c] = [Idle EXCEPT !.op = op, !.row = [key |-> key],
                                                   !.answer = answer, !.id = id]]

\* A refusal changes nothing, and which one it was is not kept.
Refuse(c, answer) ==
    /\ Reply(c, "none", 0, IF answer \in Refusals THEN "none" ELSE answer, 0)
    /\ UNCHANGED stored

Free(c) == request[c].at = "done"

-----------------------------------------------------------------------------
(* Loading: what is missing or does not qualify is refused.                 *)

ReceiveFailure(c) ==
    /\ Free(c)
    /\ \E k \in Key, known \in BOOLEAN : \E e \in Reports[k] :
          CASE ~Supported(Payload[e]) -> Refuse(c, "UNPROCESSABLE")
            [] Supported(Payload[e]) /\ ~known -> Refuse(c, "PAYMENT_NOT_FOUND")
            [] OTHER -> Begin(c, "ingest", "checking", [key |-> k, event |-> e])

\* The rules see the payment's method, not the event's.
Diagnosis ==
    [e \in {n \in DOMAIN Payload : Supported(Payload[n])} |->
        Diagnose([Normalize(Payload[e]) EXCEPT !.method = Method])]
Diagnosed(f) == Diagnosis[table.failure[f].event]

Classification(f, source, d) ==
    [key |-> <<f, source>>, failure |-> f, source |-> source,
     cause |-> d.cause, confidence |-> d.confidence]

\* Any id: that of a failure, or one past them.
FailureIds == 1..(Len(table.failure) + 1)
Unknown(f) == f > Len(table.failure)

ReceiveClassify(c) ==
    /\ Free(c)
    /\ \E f \in FailureIds :
          IF Unknown(f) THEN Refuse(c, "FAILURE_NOT_FOUND")
          ELSE Begin(c, "classify", "checking", Classification(f, "RULE", Diagnosed(f)))

\* Whether the youngest authoritative classification is too unsure to stand.
Eligible(f) ==
    LET latest == table.classification[Youngest(Diagnoses(f, Authoritative))]
    IN  latest.cause = "UNKNOWN" \/ latest.confidence = "low"

NoSuggestion == [cause |-> "UNKNOWN", confidence |-> "low"]
Suggestion(f) == Classification(f, "LLM_SUGGESTION", NoSuggestion)

ReceiveSuggest(c) ==
    /\ Free(c)
    /\ \E f \in FailureIds :
          CASE Unknown(f) -> Refuse(c, "FAILURE_NOT_FOUND")
            [] ~Unknown(f) /\ Diagnoses(f, Authoritative) = {} ->
                   Refuse(c, "NOT_CLASSIFIED")
            [] ~Unknown(f) /\ Diagnoses(f, Authoritative) # {} /\ ~Eligible(f) ->
                   Refuse(c, "NOT_ELIGIBLE")
            [] OTHER -> Begin(c, "suggest", "checking", Suggestion(f))

\* There is something for a reviewer to settle, whoever it comes from.
Judgeable(f) == Diagnoses(f, Source) # {}

Verdict(f, cause) == Classification(f, "HUMAN", [cause |-> cause, confidence |-> "high"])

\* KEEP_UNKNOWN settles on UNKNOWN, ACCEPT and REJECT on the root cause sent along.
ReceiveResolve(c) ==
    /\ Free(c)
    /\ \E f \in FailureIds :
          \/ Unknown(f) /\ Refuse(c, "FAILURE_NOT_FOUND")
          \/ ~Unknown(f) /\ ~Judgeable(f) /\ Refuse(c, "NOT_CLASSIFIED")
          \/ /\ ~Unknown(f) /\ Judgeable(f)
             /\ \/ Refuse(c, "ROOT_CAUSE_REQUIRED")
                \/ \E cause \in Verdicts \cup {"UNKNOWN"} :
                      Begin(c, "resolve", "checking", Verdict(f, cause))

\* The failure that happened last, whenever it was reported.
Latest ==
    CHOOSE f \in DOMAIN table.failure :
        \A g \in DOMAIN table.failure :
            Occurred[table.failure[g].key] <= Occurred[table.failure[f].key]

\* Mutant: whatever was said after the rules settles it.
Pending_AnySource ==
    IF payment.recovery = "HUMAN_REVIEW"
    THEN {f \in {Latest} : Judgeable(f) /\ Diagnoses(f, {"HUMAN", "LLM_SUGGESTION"}) = {}}
    ELSE {}

\* listPending: what the reviewer is shown of the payment.
Pending ==
    IF payment.recovery = "HUMAN_REVIEW"
    THEN {f \in {Latest} : Judgeable(f) /\ Diagnoses(f, {"HUMAN"}) = {}}
    ELSE {}

-----------------------------------------------------------------------------
(* Deciding.                                                                *)

\* Mutant: the youngest classification counts, whoever gave it.
DecisionEligible_Any(f) == Diagnoses(f, Source)

\* latestDecisionEligibleForFailure takes the youngest of these.
DecisionEligible(f) == Diagnoses(f, Authoritative)

\* No action has run yet, so there is no history but the mandate's.
DecisionContext(d) ==
    [cause |-> d.cause, confidence |-> d.confidence, method |-> Method,
     status |-> payment.status, attempts |-> payment.attempts, messages |-> 0,
     railSwitched |-> FALSE,
     mandateRevoked |-> \E i \in DOMAIN table.classification :
                            table.classification[i].cause = "MANDATE_INVALID",
     killSwitch |-> FALSE, breaker |-> "CLOSED", now |-> Now, salaryDay |-> UnknownDay]

\* Mutant: what is decided counts as scheduled at once.
InitialStatus_Scheduled(action) ==
    CASE action = "HARD_STOP" -> "CANCELLED"
      [] action = "HUMAN_REVIEW" -> "BLOCKED"
      [] OTHER -> "SCHEDULED"

InitialStatus(action) ==
    CASE action = "HARD_STOP" -> "CANCELLED"
      [] action = "HUMAN_REVIEW" -> "BLOCKED"
      [] OTHER -> "PENDING"

DecidedAction(id) ==
    LET d == table.classification[id]
        decision == Decide(DecisionContext(d))
    IN  [key |-> id, cause |-> d.cause, action |-> decision.action,
         status |-> InitialStatus(decision.action),
         asks |-> RequiresMessage(DecisionContext(d), decision)]

ReceiveDecide(c) ==
    /\ Free(c)
    /\ \E f \in FailureIds :
          CASE Unknown(f) -> Refuse(c, "FAILURE_NOT_FOUND")
            [] ~Unknown(f) /\ DecisionEligible(f) = {} -> Refuse(c, "NOT_CLASSIFIED")
            [] OTHER -> Begin(c, "decide", "checking", DecidedAction(Youngest(DecisionEligible(f))))

-----------------------------------------------------------------------------
(* Messages and explanations.                                               *)

ActionIds == 1..(Len(table.action) + 1)
NoSuch(a) == a > Len(table.action)

Asked(a) == table.action[a].asks

Message(a) == [key |-> a, cause |-> table.action[a].cause]

ReceiveMessage(c) ==
    /\ Free(c)
    /\ \E a \in ActionIds :
          CASE NoSuch(a) -> Refuse(c, "ACTION_NOT_FOUND")
            [] ~NoSuch(a) /\ ~Asked(a) -> Refuse(c, "MESSAGE_NOT_REQUESTED")
            [] OTHER -> Begin(c, "message", "checking", Message(a))

\* Nothing is kept of an explanation, so there is nothing to look up.
ReceiveExplain(c) ==
    /\ Free(c)
    /\ \E a \in ActionIds :
          IF NoSuch(a) THEN Refuse(c, "ACTION_NOT_FOUND")
          ELSE Begin(c, "explain", "asking", NoRow)

-----------------------------------------------------------------------------
(* Looking up, asking the model, writing.                                   *)

CheckKey(c) ==
    LET q == request[c]
        held == Holding(Writes[q.op], q.row.key)
    IN  /\ q.at = "checking"
        /\ IF held # {}
           THEN Reply(c, q.op, q.row.key, "DUPLICATE", Youngest(held))
           ELSE request' = [request EXCEPT ![c].at =
                              IF q.op \in AsksModel THEN "asking" ELSE "writing"]
        /\ UNCHANGED stored

\* The row with what the model says put in; the wording of a message is left out.
Answered(row, op, cause) ==
    IF op = "suggest" THEN [row EXCEPT !.cause = cause, !.confidence = "high"] ELSE row

AskModel(c) ==
    LET q == request[c]
    IN  /\ q.at = "asking"
        /\ \E cause \in Suggestions :
              request' = [request EXCEPT ![c].at = "writing",
                                         ![c].row = Answered(q.row, q.op, cause)]
        /\ UNCHANGED stored

\* No provider, no budget, a timeout, a refusal, malformed output: the fallback.
ModelFails(c) ==
    /\ request[c].at = "asking"
    /\ request' = [request EXCEPT ![c].at = "writing"]
    /\ UNCHANGED stored

\* Mutant: the count is written from the one that was loaded.
Ingested_ReadModifyWrite(saw) ==
    IF saw.status \in Terminal THEN payment
    ELSE [status |-> "FAILED", recovery |-> "FAILED", attempts |-> saw.attempts + 1]

\* Ingestion goes by the status it loaded before the transaction.
Ingested(saw) ==
    IF saw.status \in Terminal THEN payment
    ELSE [status |-> "FAILED", recovery |-> "FAILED", attempts |-> payment.attempts + 1]

\* So does classification by the recovery status.
Classified(saw) ==
    IF saw.recovery = "FAILED" THEN [payment EXCEPT !.recovery = "CLASSIFIED"] ELSE payment

DecidedPayment(action) ==
    CASE action = "HARD_STOP" ->
             [payment EXCEPT !.status = "HARD_STOPPED", !.recovery = "HARD_STOPPED"]
      [] action = "HUMAN_REVIEW" -> [payment EXCEPT !.recovery = "HUMAN_REVIEW"]
      [] OTHER -> payment

PaymentAfter(op, saw, row) ==
    CASE op = "ingest" -> Ingested(saw)
      [] op = "classify" -> Classified(saw)
      [] op = "decide" -> DecidedPayment(row.action)
      [] OTHER -> payment

\* What the audit events of the operations say was done, to the row of this id: they
\* too speak of the payment as it was loaded.
FailureIngested(id, saw) ==
    [event |-> "FAILURE_INGESTED", id |-> id,
     says |-> CASE saw.status \in Terminal -> "TERMINAL"
                [] saw.status = "FAILED" -> "REFAILED"
                [] OTHER -> "CHANGED"]
FailureClassified(id, saw) ==
    [event |-> "FAILURE_CLASSIFIED", id |-> id,
     says |-> IF saw.recovery = "FAILED" THEN "CLASSIFIED" ELSE "left"]
PolicyDecision(id, action) == [event |-> "POLICY_DECISION", id |-> id, says |-> action]
SuggestionMade(id, cause) ==
    [event |-> "AI_OPERATION_COMPLETED", id |-> id, says |-> cause]
ReviewCompleted(id, cause) ==
    [event |-> "HUMAN_REVIEW_COMPLETED", id |-> id, says |-> cause]
MessageGenerated(id) == [event |-> "AI_OPERATION_COMPLETED", id |-> id, says |-> "message"]
ExplanationReturned == [event |-> "AI_OPERATION_COMPLETED", id |-> 0, says |-> "explanation"]

AuditEvent(op, id, saw, row) ==
    CASE op = "ingest" -> FailureIngested(id, saw)
      [] op = "classify" -> FailureClassified(id, saw)
      [] op = "suggest" -> SuggestionMade(id, row.cause)
      [] op = "resolve" -> ReviewCompleted(id, row.cause)
      [] op = "decide" -> PolicyDecision(id, row.action)
      [] op = "message" -> MessageGenerated(id)

\* Mutant: a hard stop leaves the other open actions alone.
CancelOpen_Never(actions, row) == actions

\* A hard stop cancels whatever else is still open.
CancelOpen(actions, row) ==
    [a \in DOMAIN actions |->
        IF row.action = "HARD_STOP" /\ actions[a].status \in {"PENDING", "SCHEDULED"}
        THEN [actions[a] EXCEPT !.status = "CANCELLED"] ELSE actions[a]]

\* Mutant: the event follows the transaction, and may be lost.
AppendAudit_Apart(op, id, saw, row) ==
    audit' \in {audit, audit \cup {AuditEvent(op, id, saw, row)}}

\* In the transaction of the row.
AppendAudit(op, id, saw, row) == audit' = audit \cup {AuditEvent(op, id, saw, row)}

Rows == Len(table.failure) + Len(table.classification) + Len(table.action) + Len(table.message)

Write(c) ==
    LET q == request[c]
        t == Writes[q.op]
        id == Len(table[t]) + 1
        older == IF q.op = "decide" THEN CancelOpen(table.action, q.row) ELSE table[t]
    IN  /\ q.at = "writing" /\ q.op # "explain"
        /\ ~Taken(t, q.row.key) /\ Rows < MaxRows
        /\ table' = [table EXCEPT ![t] = Append(older, q.row)]
        /\ payment' = PaymentAfter(q.op, q.saw, q.row)
        /\ AppendAudit(q.op, id, q.saw, q.row)
        /\ Reply(c, q.op, q.row.key, Answers[q.op], id)

WriteExplanation(c) ==
    /\ request[c].op = "explain" /\ request[c].at = "writing"
    /\ audit' = audit \cup {ExplanationReturned}
    /\ request' = [request EXCEPT ![c] = Idle]
    /\ UNCHANGED <<payment, table>>

\* Another request wrote the key first: P2002, and nothing is written.
LoseRace(c) ==
    LET q == request[c]
    IN  /\ q.at = "writing" /\ q.op # "explain"
        /\ Taken(Writes[q.op], q.row.key)
        /\ request' = [request EXCEPT ![c].at = "lost"]
        /\ UNCHANGED stored

\* Mutant: only the services written first look for the winner.
AnswerLoser_Decide(c) ==
    LET q == request[c]
        held == Holding(Writes[q.op], q.row.key)
    IN  /\ q.at = "lost"
        /\ IF q.op \in Forgives \ {"decide"}
           THEN Reply(c, q.op, q.row.key, "DUPLICATE", Youngest(held))
           ELSE Reply(c, q.op, q.row.key, "ERROR", 0)
        /\ UNCHANGED stored

\* The catch that looks for the winner's row; without one, a 500.
AnswerLoser(c) ==
    LET q == request[c]
        held == Holding(Writes[q.op], q.row.key)
    IN  /\ q.at = "lost"
        /\ IF q.op \in Forgives /\ held # {}
           THEN Reply(c, q.op, q.row.key, "DUPLICATE", Youngest(held))
           ELSE Reply(c, q.op, q.row.key, "ERROR", 0)
        /\ UNCHANGED stored

\* The process dies: an open transaction is rolled back.
Die(c) ==
    /\ ~Free(c)
    /\ request' = [request EXCEPT ![c] = Idle]
    /\ UNCHANGED stored

-----------------------------------------------------------------------------
Receive(c) ==
    \/ ReceiveFailure(c) \/ ReceiveClassify(c) \/ ReceiveSuggest(c) \/ ReceiveResolve(c)
    \/ ReceiveDecide(c) \/ ReceiveMessage(c) \/ ReceiveExplain(c)

Proceed(c) ==
    \/ CheckKey(c) \/ AskModel(c) \/ ModelFails(c) \/ Write(c) \/ WriteExplanation(c)
    \/ LoseRace(c) \/ AnswerLoser(c)

Next ==
    \E c \in Client : Receive(c) \/ Proceed(c) \/ Die(c)

Spec == Init /\ [][Next]_vars

-----------------------------------------------------------------------------
(* Properties.                                                              *)

TypeOK ==
    /\ payment.status \in {"PENDING", "FAILED", "HARD_STOPPED"}
    /\ payment.recovery \in {"NONE", "FAILED", "CLASSIFIED", "HARD_STOPPED", "HUMAN_REVIEW"}
    /\ payment.attempts \in Nat
    /\ \A i \in DOMAIN table.classification :
          /\ table.classification[i].failure \in DOMAIN table.failure
          /\ table.classification[i].source \in Source
          /\ table.classification[i].cause \in RootCause
    /\ \A i \in DOMAIN table.action :
          /\ table.action[i].key \in DOMAIN table.classification
          /\ table.action[i].action \in RecoveryAction
          /\ table.action[i].status \in {"PENDING", "BLOCKED", "CANCELLED"}
    /\ \A i \in DOMAIN table.message : table.message[i].key \in DOMAIN table.action
    /\ \A c \in Client : request[c].at \in {"checking", "asking", "writing", "lost", "done"}

\* Every key gets one row, whoever races for it: every request that is told of a row
\* is told of the one that holds its key, one request at most is told that it created
\* it, and whoever loses the race is told as much, never of an error (the idempotency
\* checks, the unique indices, the P2002 catches): but the suggestion and the verdict,
\* which have no such catch, answer 500.
Same(c, d) ==
    /\ {request[c].op, request[d].op} \subseteq DOMAIN Writes
    /\ Writes[request[c].op] = Writes[request[d].op]
    /\ request[c].row.key = request[d].row.key
AnswersAgree ==
    \A c \in Client :
        /\ request[c].answer = "ERROR" => request[c].op \in {"suggest", "resolve"}
        /\ request[c].id # 0 =>
            /\ Holding(Writes[request[c].op], request[c].row.key) = {request[c].id}
            /\ \A d \in Client \ {c} :
                  Same(c, d) /\ request[d].id # 0 => "DUPLICATE" \in {request[c].answer, request[d].answer}

\* attemptCount is the number of failure events the trail says were counted: those
\* whose payment was not yet terminal when they were loaded.  None is lost to a race.
AttemptsAreReports ==
    payment.attempts =
        Cardinality({e \in audit : e.event = "FAILURE_INGESTED" /\ e.says # "TERMINAL"})

\* The model has no authority: no action is decided on its classification.
DecidedByAuthority ==
    \A i \in DOMAIN table.action :
        LET d == table.classification[table.action[i].key]
        IN  d.source \in Authoritative /\ d.cause = table.action[i].cause

\* A hard stop is final for what was decided before it: of two decisions that
\* overlap, whichever is written first, no action written before a stop stays open.
StopsCancel ==
    \A i, j \in DOMAIN table.action :
        i < j /\ table.action[j].action = "HARD_STOP" => table.action[i].status # "PENDING"

\* A review stays on the reviewer's list until a human has settled it: no suggestion,
\* message or other decision takes it off.  What does: another failure of the payment,
\* a hard stop, and a classification written late, of a failure loaded before.
ReviewsStay ==
    [][ \A f \in Pending :
          \/ f \in Pending'
          \/ Diagnoses(f, {"HUMAN"})' # {}
          \/ Len(table'.failure) > Len(table.failure)
          \/ payment'.recovery = "HARD_STOPPED"
          \/ \E c \in Client : request[c].op = "classify" /\ Write(c) /\ request[c].saw # payment
      ]_vars

\* The trail tells the whole story: every row of a decision's making has its event,
\* although requests overlap and die, every event has its row, and the payment is in no
\* status that the trail does not say it was moved to.
Tells(e) ==
    CASE e.event = "FAILURE_INGESTED" /\ e.says # "TERMINAL" -> "FAILED"
      [] e.says = "HARD_STOP" -> "HARD_STOPPED"
      [] OTHER -> e.says
TrailIsTrue ==
    LET Told(events) == {e.id : e \in {d \in audit : d.event \in events /\ d.id # 0}}
    IN  /\ Told({"FAILURE_INGESTED"}) = DOMAIN table.failure
        /\ Told({"POLICY_DECISION"}) = DOMAIN table.action
        /\ \A i \in DOMAIN table.classification :
              \E e \in audit :
                 /\ e.id = i
                 /\ CASE table.classification[i].source = "RULE" -> e.event = "FAILURE_CLASSIFIED"
                      [] table.classification[i].source = "HUMAN" ->
                             /\ e.event = "HUMAN_REVIEW_COMPLETED"
                             /\ e.says = table.classification[i].cause
                      [] OTHER -> /\ e.event = "AI_OPERATION_COMPLETED"
                                  /\ e.says = table.classification[i].cause
        /\ payment.recovery = "NONE" \/ \E e \in audit : Tells(e) = payment.recovery

=============================================================================
