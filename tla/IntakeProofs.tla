---------------------------- MODULE IntakeProofs ----------------------------
(***************************************************************************)
(* TLAPS proofs about Intake, for every number of concurrent requests, of  *)
(* events and of rows: what requests may answer, who may decide, and what  *)
(* the rows and the trail add up to.                                       *)
(***************************************************************************)
EXTENDS Intake, PolicyProofs

Table == {"failure", "classification", "action", "message"}
Op == {"ingest", "classify", "suggest", "resolve", "decide", "message"}
SourceOf == [classify |-> "RULE", suggest |-> "LLM_SUGGESTION", resolve |-> "HUMAN"]

\* A sequence of whatever.
IsSequence(s) == \E S : s \in Seq(S)

\* The fields of rows and requests.
IsClassification(r) ==
    /\ DOMAIN r = {"key", "failure", "source", "cause", "confidence"}
    /\ r.key = <<r.failure, r.source>>
IsAction(r) == DOMAIN r = {"key", "cause", "action", "status", "asks"}
IsRequest(q) == DOMAIN q = {"op", "at", "saw", "row", "answer", "id"}
IsPayment(p) == DOMAIN p = {"status", "recovery", "attempts"} /\ p.attempts \in Nat

StoreShape ==
    /\ IsPayment(payment)
    /\ DOMAIN table = Table
    /\ \A t \in Table : IsSequence(table[t])
    /\ \A i \in DOMAIN table.action : IsAction(table.action[i])
    /\ \A i \in DOMAIN table.classification : IsClassification(table.classification[i])

\* A decided row refers to an authoritative classification, with its cause.
Founded(r) ==
    /\ r.key \in DOMAIN table.classification
    /\ table.classification[r.key].source \in Authoritative
    /\ table.classification[r.key].cause = r.cause

\* What an operation is about to write.
RowFits(op, r) ==
    /\ op \in DOMAIN SourceOf => IsClassification(r) /\ r.source = SourceOf[op]
    /\ op = "decide" => IsAction(r) /\ Founded(r)

\* What a request may be.
Proper(q) ==
    /\ q.at \in {"checking", "asking", "writing", "lost", "done"}
    /\ q.at # "done" => q.id = 0 /\ q.answer = "none" /\ RowFits(q.op, q.row)
    /\ q.at \in {"checking", "lost"} => q.op \in Op
    /\ q.at \in {"asking", "writing"} => q.op \in Op \cup {"explain"}
    /\ q.at = "lost" => Taken(Writes[q.op], q.row.key)
    /\ q.id # 0 => q.op \in Op /\ Holding(Writes[q.op], q.row.key) = {q.id}
    /\ q.answer = "ERROR" => q.op \in {"suggest", "resolve"}

RequestShape ==
    /\ request = [c \in Client |-> request[c]]
    /\ \A c \in Client : IsRequest(request[c]) /\ Proper(request[c])

OneRowPerKey ==
    \A t \in Table : \A i, j \in DOMAIN table[t] : table[t][i].key = table[t][j].key => i = j

\* At most one request is told that it created the row.
OneCreator ==
    \A c, d \in Client :
        (c # d /\ Same(c, d) /\ request[c].id # 0 /\ request[d].id # 0)
            => "DUPLICATE" \in {request[c].answer, request[d].answer}

AllFounded == \A i \in DOMAIN table.action : Founded(table.action[i])

IInv ==
    /\ StoreShape /\ RequestShape /\ OneRowPerKey /\ OneCreator
    /\ AllFounded /\ StopsCancel

-----------------------------------------------------------------------------
(* About sequences and numbers.                                             *)

\* Appending leaves what there is in place.
LEMMA Appended ==
  ASSUME NEW s, IsSequence(s), NEW e
  PROVE  /\ IsSequence(Append(s, e)) /\ Len(s) \in Nat /\ DOMAIN s = 1..Len(s)
         /\ DOMAIN Append(s, e) = 1..(Len(s) + 1)
         /\ \A i \in 1..Len(s) : Append(s, e)[i] = s[i]
         /\ Append(s, e)[Len(s) + 1] = e
         /\ Len(Append(s, e)) = Len(s) + 1
<1>1. PICK S : s \in Seq(S)
  BY DEF IsSequence
<1>2. s \in Seq(S \cup {e})
  BY <1>1
<1>3. Append(s, e) \in Seq(S \cup {e})
  BY <1>2
<1>4. IsSequence(Append(s, e))
  BY <1>3 DEF IsSequence
<1>5. QED
  BY <1>2, <1>3, <1>4

\* A sequence rewritten element by element is one of the same length.
LEMMA Rewritten ==
  ASSUME NEW s, IsSequence(s), NEW f, DOMAIN f = DOMAIN s, f = [i \in DOMAIN s |-> f[i]]
  PROVE  IsSequence(f) /\ Len(f) = Len(s) /\ Len(s) \in Nat /\ DOMAIN s = 1..Len(s)
<1>1. PICK S : s \in Seq(S)
  BY DEF IsSequence
<1>2. Len(s) \in Nat /\ DOMAIN s = 1..Len(s)
  BY <1>1
<1>3. f \in [1..Len(s) -> {f[i] : i \in 1..Len(s)}]
  BY <1>2
<1>4. f \in Seq({f[i] : i \in 1..Len(s)})
  BY <1>2, <1>3
<1>5. Len(f) \in Nat /\ DOMAIN f = 1..Len(f)
  BY <1>4
<1>6. Len(f) = Len(s)
  <2>1. \A i \in Nat : i \in 1..Len(f) <=> i \in 1..Len(s)
    BY <1>2, <1>5
  <2>2. \A i \in Nat : (1 <= i /\ i <= Len(f)) <=> (1 <= i /\ i <= Len(s))
    BY <2>1, <1>2, <1>5
  <2>3. QED
    BY <2>2, <1>2, <1>5
<1>7. QED
  BY <1>2, <1>4, <1>6 DEF IsSequence

\* A failure has at most two authoritative classifications, so there is a youngest.
LEMMA YoungestIsOne ==
  ASSUME StoreShape, OneRowPerKey, NEW f, Diagnoses(f, Authoritative) # {}
  PROVE  Youngest(Diagnoses(f, Authoritative)) \in Diagnoses(f, Authoritative)
<1> DEFINE ids == Diagnoses(f, Authoritative)
<1>1. ids \subseteq Nat
  <2>1. IsSequence(table.classification)
    BY DEF StoreShape, Table
  <2>2. QED
    BY <2>1, Appended DEF Diagnoses
<1>2. \A i, j \in ids : table.classification[i].source = table.classification[j].source => i = j
  BY DEF StoreShape, IsClassification, OneRowPerKey, Table, Diagnoses
<1>3. \A i \in ids : table.classification[i].source \in {"RULE", "HUMAN"}
  BY DEF Diagnoses, Authoritative
<1> HIDE DEF ids
<1>4. \E i \in ids : \A j \in ids : j <= i
  <2>1. PICK i \in ids : TRUE
    BY DEF ids
  <2>2. CASE \A j \in ids : j <= i
    BY <2>2
  <2>3. ASSUME NEW j \in ids, ~(j <= i)
        PROVE  \A g \in ids : g <= j
    BY <2>3, <1>1, <1>2, <1>3
  <2>4. QED
    BY <2>2, <2>3
<1>5. QED
  BY <1>4 DEF Youngest, ids

-----------------------------------------------------------------------------
(* Steps that store nothing.                                                *)

\* The tables the operations write to.
LEMMA OpsWrite ==
    /\ DOMAIN Writes = Op
    /\ \A op \in Op : Writes[op] \in Table
    /\ Writes["ingest"] = "failure" /\ Writes["decide"] = "action"
    /\ Writes["message"] = "message"
    /\ \A op \in DOMAIN SourceOf : Writes[op] = "classification"
    /\ \A op \in Op : op # "decide" => Writes[op] # "action"
    /\ \A op \in Op : Writes[op] = "classification" => op \in DOMAIN SourceOf
    /\ \A op \in Op : Writes[op] = "failure" => op = "ingest"
    /\ \A op \in Op : Writes[op] = "message" => op = "message"
    /\ DOMAIN SourceOf = {"classify", "suggest", "resolve"}
  BY DEF Writes, Op, Table, SourceOf

\* Nothing is stored and nobody has asked.
LEMMA IInit == Init => IInv
<1> SUFFICES ASSUME Init PROVE IInv
  OBVIOUS
<1>1. \A t \in Table : table[t] = <<>>
  BY DEF Init, Table
<1>2. IsSequence(<<>>)
  BY DEF IsSequence
<1>3. StoreShape
  BY <1>1, <1>2 DEF Init, StoreShape, IsPayment, NewPayment, Table
<1>4. IsRequest(Idle)
  BY DEF IsRequest, Idle
<1>5. Proper(Idle)
  BY DEF Proper, Idle
<1>6. RequestShape
  BY <1>4, <1>5 DEF Init, RequestShape
<1>7. OneRowPerKey
  BY <1>1 DEF OneRowPerKey
<1>8. OneCreator
  BY DEF Init, OneCreator, Idle
<1>9. AllFounded /\ StopsCancel
  BY <1>1 DEF AllFounded, StopsCancel, Table
<1>10. QED
  BY <1>3, <1>6, <1>7, <1>8, <1>9 DEF IInv

\* A step that only makes one request a proper one, and tells of no creation.
LEMMA Quiet ==
  ASSUME IInv, NEW c \in Client, NEW q, IsRequest(q), Proper(q),
         q.id = 0 \/ q.answer = "DUPLICATE",
         request' = [request EXCEPT ![c] = q], UNCHANGED <<payment, table>>
  PROVE  IInv'
<1>1. payment' = payment /\ table' = table
  OBVIOUS
<1>2. StoreShape' /\ OneRowPerKey' /\ AllFounded' /\ StopsCancel'
  BY <1>1 DEF IInv, StoreShape, OneRowPerKey, AllFounded, Founded, StopsCancel
<1>3. \A r : Proper(r) => Proper(r)'
  BY <1>1 DEF Proper, RowFits, Founded, Taken, Holding
<1>4. request' = [d \in Client |-> IF d = c THEN q ELSE request[d]]
  BY DEF IInv, RequestShape
<1>5. RequestShape'
  <2>1. \A d \in Client : IsRequest(request'[d]) /\ Proper(request'[d])
    BY <1>4 DEF IInv, RequestShape
  <2>2. ASSUME NEW d \in Client PROVE Proper(request[d])'
    <3>1. PICK r : r = request'[d]
      OBVIOUS
    <3>2. Proper(r)'
      BY <2>1, <3>1, <1>3
    <3>3. QED
      BY <3>1, <3>2 DEF Proper, RowFits, Founded, Taken, Holding
  <2>3. request' = [d \in Client |-> request'[d]]
    BY <1>4
  <2>4. QED
    BY <2>1, <2>2, <2>3 DEF RequestShape, IsRequest
<1>6. OneCreator'
  <2> SUFFICES ASSUME NEW d \in Client, NEW e \in Client, d # e, Same(d, e)',
                      request'[d].id # 0, request'[e].id # 0
               PROVE  "DUPLICATE" \in {request'[d].answer, request'[e].answer}
    BY DEF OneCreator
  <2>1. CASE d = c \/ e = c
    BY <2>1, <1>4
  <2>2. CASE d # c /\ e # c
    <3>1. request'[d] = request[d] /\ request'[e] = request[e]
      BY <2>2, <1>4
    <3>2. Same(d, e)
      BY <3>1 DEF Same
    <3>3. QED
      BY <3>1, <3>2 DEF IInv, OneCreator
  <2>3. QED
    BY <2>1, <2>2
<1>7. QED
  BY <1>2, <1>5, <1>6 DEF IInv

\* A request that begins with a fitting row, or is refused.
LEMMA Begins ==
  ASSUME IInv, NEW c \in Client, NEW op, NEW at, NEW row,
         (at = "checking" /\ op \in Op) \/ (at = "asking" /\ op = "explain"),
         RowFits(op, row), Begin(c, op, at, row)
  PROVE  IInv'
<1>1. PICK q : /\ q = [Idle EXCEPT !.op = op, !.at = at, !.row = row,
                                   !.saw = IF op \in SeesPayment THEN payment ELSE @]
               /\ request' = [request EXCEPT ![c] = q] /\ UNCHANGED <<payment, table>>
  BY DEF Begin, stored
<1>2. IsRequest(q) /\ q.op = op /\ q.at = at /\ q.row = row /\ q.answer = "none" /\ q.id = 0
  BY <1>1 DEF Idle, IsRequest
<1>3. Proper(q)
  BY <1>2 DEF Proper
<1>4. QED
  BY <1>1, <1>2, <1>3, Quiet

\* What a request is told when it is not told of a row.
LEMMA Refused ==
  ASSUME IInv, NEW c \in Client, NEW answer \in Refusals, Refuse(c, answer)
  PROVE  IInv'
<1>1. PICK q : /\ q = [Idle EXCEPT !.op = "none", !.row = [key |-> 0], !.answer = "none", !.id = 0]
               /\ request' = [request EXCEPT ![c] = q] /\ UNCHANGED <<payment, table>>
  BY DEF Refuse, Reply, stored
<1>2. IsRequest(q) /\ q.at = "done" /\ q.answer = "none" /\ q.id = 0
  BY <1>1 DEF Idle, IsRequest
<1>3. Proper(q)
  BY <1>2 DEF Proper
<1>4. QED
  BY <1>1, <1>2, <1>3, Quiet

\* What a request is told when its key is taken: the one row that holds it.
LEMMA ToldDuplicate ==
  ASSUME IInv, NEW c \in Client, NEW op \in Op, NEW key,
         Holding(Writes[op], key) # {},
         Reply(c, op, key, "DUPLICATE", Youngest(Holding(Writes[op], key))), UNCHANGED stored
  PROVE  IInv'
<1> DEFINE held == Holding(Writes[op], key)
<1>1. PICK i \in held : i \in DOMAIN table[Writes[op]]
  BY DEF Holding
<1>2. held = {i}
  BY <1>1, OpsWrite DEF IInv, OneRowPerKey, Holding
<1>3. \A j \in {i} : j <= i
  <2>1. i \in Nat
    <3>1. IsSequence(table[Writes[op]])
      BY OpsWrite DEF IInv, StoreShape
    <3>2. QED
      BY <1>1, <3>1, Appended
  <2>2. QED
    BY <2>1
<1>4. Youngest(held) = i
  BY <1>2, <1>3 DEF Youngest
<1>5. PICK q : /\ q = [Idle EXCEPT !.op = op, !.row = [key |-> key], !.answer = "DUPLICATE", !.id = i]
               /\ request' = [request EXCEPT ![c] = q] /\ UNCHANGED <<payment, table>>
  BY <1>4 DEF Reply, stored
<1>6. /\ IsRequest(q) /\ q.op = op /\ q.at = "done" /\ q.row.key = key
      /\ q.answer = "DUPLICATE" /\ q.id = i
  BY <1>5 DEF Idle, IsRequest
<1>7. Proper(q)
  BY <1>2, <1>6 DEF Proper
<1>8. QED
  BY <1>5, <1>6, <1>7, Quiet

-----------------------------------------------------------------------------
(* Loading.                                                                 *)

\* Every way to begin a request, and every refusal.
LEMMA BeginsOrRefused ==
  ASSUME IInv, NEW c \in Client, Receive(c)
  PROVE  IInv'
<1>1. CASE ReceiveFailure(c)
  <2>1. PICK k \in Key, known \in BOOLEAN : \E e \in Reports[k] :
          CASE ~Supported(Payload[e]) -> Refuse(c, "UNPROCESSABLE")
            [] Supported(Payload[e]) /\ ~known -> Refuse(c, "PAYMENT_NOT_FOUND")
            [] OTHER -> Begin(c, "ingest", "checking", [key |-> k, event |-> e])
    BY <1>1 DEF ReceiveFailure
  <2>2. PICK e \in Reports[k] :
          \/ Refuse(c, "UNPROCESSABLE") \/ Refuse(c, "PAYMENT_NOT_FOUND")
          \/ Begin(c, "ingest", "checking", [key |-> k, event |-> e])
    BY <2>1
  <2>3. RowFits("ingest", [key |-> k, event |-> e])
    BY OpsWrite DEF RowFits
  <2>4. QED
    BY <2>2, <2>3, Begins, Refused DEF Refusals, Op
<1>2. CASE ReceiveClassify(c)
  <2>1. PICK f \in FailureIds :
          \/ Refuse(c, "FAILURE_NOT_FOUND")
          \/ Begin(c, "classify", "checking", Classification(f, "RULE", Diagnosed(f)))
    BY <1>2 DEF ReceiveClassify
  <2>2. RowFits("classify", Classification(f, "RULE", Diagnosed(f)))
    BY DEF RowFits, Classification, IsClassification, SourceOf
  <2>3. QED
    BY <2>1, <2>2, Begins, Refused DEF Refusals, Op
<1>3. CASE ReceiveSuggest(c)
  <2>1. PICK f \in FailureIds :
          \/ Refuse(c, "FAILURE_NOT_FOUND") \/ Refuse(c, "NOT_CLASSIFIED")
          \/ Refuse(c, "NOT_ELIGIBLE")
          \/ Begin(c, "suggest", "checking", Suggestion(f))
    BY <1>3 DEF ReceiveSuggest
  <2>2. RowFits("suggest", Suggestion(f))
    BY DEF RowFits, Suggestion, NoSuggestion, Classification, IsClassification, SourceOf
  <2>3. QED
    BY <2>1, <2>2, Begins, Refused DEF Refusals, Op
<1>4. CASE ReceiveResolve(c)
  <2>1. PICK f \in FailureIds :
          \/ Refuse(c, "FAILURE_NOT_FOUND") \/ Refuse(c, "NOT_CLASSIFIED")
          \/ Refuse(c, "ROOT_CAUSE_REQUIRED")
          \/ \E cause \in Verdicts \cup {"UNKNOWN"} :
                Begin(c, "resolve", "checking", Verdict(f, cause))
    BY <1>4 DEF ReceiveResolve
  <2>2. \A cause : RowFits("resolve", Verdict(f, cause))
    BY DEF RowFits, Verdict, Classification, IsClassification, SourceOf
  <2>3. QED
    BY <2>1, <2>2, Begins, Refused DEF Refusals, Op
<1>5. CASE ReceiveDecide(c)
  <2>1. PICK f \in FailureIds :
          \/ Refuse(c, "FAILURE_NOT_FOUND") \/ Refuse(c, "NOT_CLASSIFIED")
          \/ /\ DecisionEligible(f) # {}
             /\ Begin(c, "decide", "checking", DecidedAction(Youngest(DecisionEligible(f))))
    BY <1>5 DEF ReceiveDecide
  <2>2. ASSUME DecisionEligible(f) # {}
        PROVE  RowFits("decide", DecidedAction(Youngest(DecisionEligible(f))))
    <3> DEFINE id == Youngest(DecisionEligible(f))
    <3>1. id \in Diagnoses(f, Authoritative)
      BY <2>2, YoungestIsOne DEF IInv, DecisionEligible
    <3>2. /\ IsAction(DecidedAction(id)) /\ DecidedAction(id).key = id
          /\ DecidedAction(id).cause = table.classification[id].cause
      BY DEF DecidedAction, IsAction
    <3>3. QED
      BY <3>1, <3>2, OpsWrite DEF RowFits, Founded, Diagnoses
  <2>3. QED
    BY <2>1, <2>2, Begins, Refused DEF Refusals, Op
<1>6. CASE ReceiveMessage(c)
  <2>1. PICK a \in ActionIds :
          \/ Refuse(c, "ACTION_NOT_FOUND") \/ Refuse(c, "MESSAGE_NOT_REQUESTED")
          \/ Begin(c, "message", "checking", Message(a))
    BY <1>6 DEF ReceiveMessage
  <2>2. RowFits("message", Message(a))
    BY OpsWrite DEF RowFits
  <2>3. QED
    BY <2>1, <2>2, Begins, Refused DEF Refusals, Op
<1>7. CASE ReceiveExplain(c)
  <2>1. Refuse(c, "ACTION_NOT_FOUND") \/ Begin(c, "explain", "asking", NoRow)
    BY <1>7 DEF ReceiveExplain
  <2>2. RowFits("explain", NoRow)
    BY OpsWrite DEF RowFits
  <2>3. QED
    BY <2>1, <2>2, Begins, Refused DEF Refusals
<1>8. QED
  BY <1>1, <1>2, <1>3, <1>4, <1>5, <1>6, <1>7 DEF Receive

-----------------------------------------------------------------------------
(* Going on without storing a row.                                          *)

\* The request a step works on.
LEMMA Current ==
  ASSUME IInv, NEW c \in Client
  PROVE  IsRequest(request[c]) /\ Proper(request[c])
  BY DEF IInv, RequestShape

\* The lookup answers with the row it finds, or lets the request go on.
LEMMA KeyChecked ==
  ASSUME IInv, NEW c \in Client, CheckKey(c)
  PROVE  IInv'
<1> DEFINE r == request[c]
<1>1. IsRequest(r) /\ Proper(r) /\ r.at = "checking"
  BY Current DEF CheckKey
<1>2. r.op \in Op /\ r.id = 0 /\ r.answer = "none" /\ RowFits(r.op, r.row)
  BY <1>1 DEF Proper
<1>3. CASE Holding(Writes[r.op], r.row.key) # {}
  BY <1>2, <1>3, ToldDuplicate DEF CheckKey
<1>4. CASE Holding(Writes[r.op], r.row.key) = {}
  <2>1. PICK q, at : /\ at \in {"asking", "writing"} /\ q = [r EXCEPT !.at = at]
                     /\ request' = [request EXCEPT ![c] = q] /\ UNCHANGED <<payment, table>>
    <3>1. request' = [request EXCEPT ![c].at = IF r.op \in AsksModel THEN "asking" ELSE "writing"]
          /\ UNCHANGED <<payment, table>>
      BY <1>4 DEF CheckKey, stored
    <3>2. CASE r.op \in AsksModel
      BY <3>1, <3>2
    <3>3. CASE r.op \notin AsksModel
      BY <3>1, <3>3
    <3>4. QED
      BY <3>2, <3>3
  <2>2. IsRequest(q) /\ q.at = at /\ q.op = r.op /\ q.id = 0 /\ q.answer = "none" /\ q.row = r.row
    BY <1>1, <1>2, <2>1 DEF IsRequest
  <2>3. Proper(q)
    BY <1>2, <2>1, <2>2 DEF Proper
  <2>4. QED
    BY <2>1, <2>2, <2>3, Quiet
<1>5. QED
  BY <1>3, <1>4

\* What the model says goes into a suggestion's row and leaves the others alone.
LEMMA ModelAnswered ==
  ASSUME IInv, NEW c \in Client, AskModel(c) \/ ModelFails(c)
  PROVE  IInv'
<1> DEFINE r == request[c]
<1>1. IsRequest(r) /\ Proper(r) /\ r.at = "asking"
  BY Current DEF AskModel, ModelFails
<1>2. r.op \in Op \cup {"explain"} /\ r.id = 0 /\ r.answer = "none" /\ RowFits(r.op, r.row)
  BY <1>1 DEF Proper
<1>3. \A cause : RowFits(r.op, Answered(r.row, r.op, cause))
  <2>1. CASE r.op = "suggest"
    BY <1>2, <2>1, OpsWrite DEF RowFits, Answered, IsClassification, SourceOf
  <2>2. CASE r.op # "suggest"
    BY <1>2, <2>2 DEF Answered
  <2>3. QED
    BY <2>1, <2>2
<1>4. PICK q, row : /\ RowFits(r.op, row)
                    /\ q = [r EXCEPT !.at = "writing", !.row = row]
                    /\ request' = [request EXCEPT ![c] = q] /\ UNCHANGED <<payment, table>>
  <2>1. CASE AskModel(c)
    <3>1. PICK cause \in Suggestions :
              request' = [request EXCEPT ![c].at = "writing",
                                         ![c].row = Answered(r.row, r.op, cause)]
      BY <2>1 DEF AskModel
    <3>2. request' = [request EXCEPT ![c] = [r EXCEPT !.at = "writing",
                                                     !.row = Answered(r.row, r.op, cause)]]
      BY <3>1, <1>1 DEF IInv, RequestShape
    <3>3. UNCHANGED <<payment, table>>
      BY <2>1 DEF AskModel, stored
    <3>4. QED
      BY <1>3, <3>2, <3>3
  <2>2. CASE ModelFails(c)
    <3>1. request' = [request EXCEPT ![c] = [r EXCEPT !.at = "writing"]]
          /\ UNCHANGED <<payment, table>>
      BY <2>2 DEF ModelFails, stored
    <3>2. [r EXCEPT !.at = "writing"] = [r EXCEPT !.at = "writing", !.row = r.row]
      BY <1>1 DEF IsRequest
    <3>3. QED
      BY <1>2, <3>1, <3>2
  <2>3. QED
    BY <2>1, <2>2
<1>5. IsRequest(q) /\ q.at = "writing" /\ q.op = r.op /\ q.id = 0 /\ q.answer = "none" /\ q.row = row
  BY <1>1, <1>2, <1>4 DEF IsRequest
<1>6. Proper(q)
  BY <1>2, <1>4, <1>5 DEF Proper
<1>7. QED
  BY <1>4, <1>5, <1>6, Quiet

\* Losing the race changes nothing, and the winner's row is there.
LEMMA RaceLost ==
  ASSUME IInv, NEW c \in Client, LoseRace(c)
  PROVE  IInv'
<1> DEFINE r == request[c]
<1>1. IsRequest(r) /\ Proper(r) /\ r.at = "writing" /\ r.op # "explain"
  BY Current DEF LoseRace
<1>2. /\ r.op \in Op /\ r.id = 0 /\ r.answer = "none" /\ RowFits(r.op, r.row)
      /\ Taken(Writes[r.op], r.row.key)
  BY <1>1 DEF Proper, LoseRace
<1>3. PICK q : /\ q = [r EXCEPT !.at = "lost"]
               /\ request' = [request EXCEPT ![c] = q] /\ UNCHANGED <<payment, table>>
  BY DEF LoseRace, stored
<1>4. IsRequest(q) /\ q.at = "lost" /\ q.op = r.op /\ q.id = 0 /\ q.answer = "none" /\ q.row = r.row
  BY <1>1, <1>2, <1>3 DEF IsRequest
<1>5. Proper(q)
  BY <1>2, <1>4 DEF Proper
<1>6. QED
  BY <1>3, <1>4, <1>5, Quiet

\* The loser is told of the winner's row, or of an error where nothing catches it.
LEMMA LoserAnswered ==
  ASSUME IInv, NEW c \in Client, AnswerLoser(c)
  PROVE  IInv'
<1> DEFINE r == request[c]
<1>1. IsRequest(r) /\ Proper(r) /\ r.at = "lost"
  BY Current DEF AnswerLoser
<1>2. r.op \in Op /\ Holding(Writes[r.op], r.row.key) # {}
  BY <1>1 DEF Proper, Taken
<1>3. CASE r.op \in Forgives
  BY <1>2, <1>3, ToldDuplicate DEF AnswerLoser
<1>4. CASE r.op \notin Forgives
  <2>1. PICK q : /\ q = [Idle EXCEPT !.op = r.op, !.row = [key |-> r.row.key],
                                     !.answer = "ERROR", !.id = 0]
                 /\ request' = [request EXCEPT ![c] = q] /\ UNCHANGED <<payment, table>>
    BY <1>4 DEF AnswerLoser, Reply, stored
  <2>2. IsRequest(q) /\ q.at = "done" /\ q.op = r.op /\ q.answer = "ERROR" /\ q.id = 0
    BY <2>1 DEF Idle, IsRequest
  <2>3. r.op \in {"suggest", "resolve"}
    BY <1>2, <1>4 DEF Op, Forgives
  <2>4. Proper(q)
    BY <2>2, <2>3 DEF Proper
  <2>5. QED
    BY <2>1, <2>2, <2>4, Quiet
<1>5. QED
  BY <1>3, <1>4

\* An explanation stores nothing but its event, and a death nothing at all.
LEMMA ExplainedOrDied ==
  ASSUME IInv, NEW c \in Client, WriteExplanation(c) \/ Die(c)
  PROVE  IInv'
<1>1. request' = [request EXCEPT ![c] = Idle] /\ UNCHANGED <<payment, table>>
  BY DEF WriteExplanation, Die, stored
<1>2. IsRequest(Idle) /\ Proper(Idle) /\ Idle.id = 0
  BY DEF Idle, IsRequest, Proper
<1>3. QED
  BY <1>1, <1>2, Quiet

-----------------------------------------------------------------------------
(* Storing a row.                                                           *)

\* A hard stop may cancel rows, and rewrites nothing else of them.
LEMMA CancelledInPlace ==
  ASSUME StoreShape, NEW row
  PROVE  LET older == CancelOpen(table.action, row)
         IN  /\ IsSequence(older) /\ Len(older) = Len(table.action)
             /\ DOMAIN older = DOMAIN table.action
             /\ \A i \in DOMAIN older :
                   /\ IsAction(older[i]) /\ older[i].key = table.action[i].key
                   /\ older[i].cause = table.action[i].cause
                   /\ older[i].action = table.action[i].action
                   /\ older[i].status \in {table.action[i].status, "CANCELLED"}
                   /\ row.action = "HARD_STOP" => older[i].status # "PENDING"
<1> DEFINE older == CancelOpen(table.action, row)
<1>1. DOMAIN older = DOMAIN table.action /\ older = [i \in DOMAIN table.action |-> older[i]]
  BY DEF CancelOpen
<1>2. IsSequence(table.action)
  BY DEF StoreShape, Table
<1>3. IsSequence(older) /\ Len(older) = Len(table.action)
  <2> HIDE DEF older
  <2>1. QED
    BY <1>1, <1>2, Rewritten
<1>4. ASSUME NEW i \in DOMAIN older
      PROVE  /\ IsAction(older[i]) /\ older[i].key = table.action[i].key
             /\ older[i].cause = table.action[i].cause
             /\ older[i].action = table.action[i].action
             /\ older[i].status \in {table.action[i].status, "CANCELLED"}
             /\ row.action = "HARD_STOP" => older[i].status # "PENDING"
  <2>1. IsAction(table.action[i])
    BY <1>1 DEF StoreShape
  <2>2. older[i] = IF row.action = "HARD_STOP" /\ table.action[i].status \in {"PENDING", "SCHEDULED"}
                   THEN [table.action[i] EXCEPT !.status = "CANCELLED"] ELSE table.action[i]
    BY <1>1 DEF CancelOpen
  <2> HIDE DEF older
  <2>3. QED
    BY <2>1, <2>2 DEF IsAction
<1>5. QED
  BY <1>1, <1>3, <1>4

\* A transaction adds one row to one table, and leaves the keys of the others alone.
LEMMA Grows ==
  ASSUME IInv, NEW c \in Client, Write(c)
  PROVE  LET q == request[c]
             t == Writes[q.op]
             id == Len(table[t]) + 1
         IN  /\ q.op \in Op /\ t \in Table /\ RowFits(q.op, q.row) /\ ~Taken(t, q.row.key)
             /\ DOMAIN table' = Table
             /\ \A s \in Table : IsSequence(table'[s])
             /\ \A s \in Table \ {t} : table'[s] = table[s]
             /\ id \in Nat \ {0}
             /\ DOMAIN table[t] = 1..(id - 1) /\ DOMAIN table'[t] = 1..id
             /\ table'[t][id] = q.row
             /\ \A i \in DOMAIN table[t] : table'[t][i].key = table[t][i].key
             /\ t # "action" => \A i \in DOMAIN table[t] : table'[t][i] = table[t][i]
             /\ t = "action" =>
                   /\ q.op = "decide"
                   /\ \A i \in DOMAIN table[t] :
                         /\ IsAction(table'[t][i])
                         /\ table'[t][i].cause = table[t][i].cause
                         /\ table'[t][i].action = table[t][i].action
                         /\ table'[t][i].status \in {table[t][i].status, "CANCELLED"}
                         /\ q.row.action = "HARD_STOP" => table'[t][i].status # "PENDING"
<1> DEFINE q == request[c]
           t == Writes[q.op]
           id == Len(table[t]) + 1
           older == IF q.op = "decide" THEN CancelOpen(table.action, q.row) ELSE table[t]
<1>1. IsRequest(q) /\ Proper(q) /\ q.at = "writing" /\ q.op # "explain"
  BY Current DEF Write
<1>2. q.op \in Op /\ RowFits(q.op, q.row) /\ t \in Table /\ ~Taken(t, q.row.key)
  BY <1>1, OpsWrite DEF Proper, Write
<1>3. table' = [table EXCEPT ![t] = Append(older, q.row)]
  BY DEF Write
<1>4. StoreShape
  BY DEF IInv
<1>5. IsSequence(table[t])
  BY <1>2, <1>4 DEF StoreShape
<1>6. t = "action" <=> q.op = "decide"
  BY <1>2, OpsWrite
<1>7. IsSequence(older) /\ Len(older) = Len(table[t]) /\ DOMAIN older = DOMAIN table[t]
      /\ \A i \in DOMAIN table[t] : older[i].key = table[t][i].key
  <2>1. CASE q.op = "decide"
    BY <1>4, <1>6, <2>1, CancelledInPlace
  <2>2. CASE q.op # "decide"
    BY <1>5, <2>2
  <2>3. QED
    BY <2>1, <2>2
<1>8. t # "action" => older = table[t]
  BY <1>6
<1>9. t = "action" => older = CancelOpen(table.action, q.row)
  BY <1>6
<1> HIDE DEF older
<1>10. /\ table'[t] = Append(older, q.row) /\ DOMAIN table' = Table
       /\ \A s \in Table \ {t} : table'[s] = table[s]
  BY <1>2, <1>3, <1>4 DEF StoreShape
<1>11. /\ IsSequence(table'[t]) /\ Len(older) \in Nat /\ DOMAIN older = 1..Len(older)
       /\ DOMAIN table'[t] = 1..(Len(older) + 1)
       /\ \A i \in 1..Len(older) : table'[t][i] = older[i]
       /\ table'[t][Len(older) + 1] = q.row
  BY <1>7, <1>10, Appended
<1>12. \A s \in Table : IsSequence(table'[s])
  BY <1>4, <1>10, <1>11 DEF StoreShape
<1>13. /\ id = Len(older) + 1 /\ id \in Nat \ {0} /\ id - 1 = Len(older)
       /\ DOMAIN table[t] = 1..(id - 1)
  BY <1>7, <1>11
<1>14. \A i \in DOMAIN table[t] : table'[t][i] = older[i]
  BY <1>7, <1>11
<1>15. t = "action" =>
          \A i \in DOMAIN table[t] :
                         /\ IsAction(table'[t][i])
                         /\ table'[t][i].cause = table[t][i].cause
                         /\ table'[t][i].action = table[t][i].action
                         /\ table'[t][i].status \in {table[t][i].status, "CANCELLED"}
                         /\ q.row.action = "HARD_STOP" => table'[t][i].status # "PENDING"
  <2> SUFFICES ASSUME t = "action", NEW i \in DOMAIN table[t]
               PROVE  /\ IsAction(table'[t][i])
                      /\ table'[t][i].cause = table[t][i].cause
                      /\ table'[t][i].action = table[t][i].action
                      /\ table'[t][i].status \in {table[t][i].status, "CANCELLED"}
                      /\ q.row.action = "HARD_STOP" => table'[t][i].status # "PENDING"
    OBVIOUS
  <2>1. older = CancelOpen(table.action, q.row) /\ i \in DOMAIN older
    BY <1>7, <1>9
  <2>2. /\ IsAction(older[i]) /\ older[i].cause = table.action[i].cause
        /\ older[i].action = table.action[i].action
        /\ older[i].status \in {table.action[i].status, "CANCELLED"}
        /\ q.row.action = "HARD_STOP" => older[i].status # "PENDING"
    BY <1>4, <2>1, CancelledInPlace
  <2>3. table'[t][i] = older[i]
    BY <1>14
  <2>4. QED
    BY <2>2, <2>3
<1>16. QED
  BY <1>2, <1>6, <1>7, <1>8, <1>10, <1>11, <1>12, <1>13, <1>14, <1>15

\* The rows under a key: the new one under its own, what they were under every other.
LEMMA HoldingAfter ==
  ASSUME IInv, NEW c \in Client, Write(c), NEW s \in Table, NEW key
  PROVE  LET q == request[c]
             t == Writes[q.op]
         IN  Holding(s, key)' = IF s = t /\ key = q.row.key THEN {Len(table[t]) + 1}
                                ELSE Holding(s, key)
<1> DEFINE q == request[c]
           t == Writes[q.op]
           id == Len(table[t]) + 1
<1>1. CASE s # t
  BY <1>1, Grows DEF Holding
<1>2. CASE s = t
  <2>1. PICK n : n = id
    OBVIOUS
  <2>2. PICK k : k = q.row.key
    OBVIOUS
  <2>3. /\ ~Taken(s, k) /\ n \in Nat \ {0}
        /\ DOMAIN table[s] = 1..(n - 1) /\ DOMAIN table'[s] = 1..n
        /\ table'[s][n].key = k
        /\ \A i \in DOMAIN table[s] : table'[s][i].key = table[s][i].key
    BY <1>2, <2>1, <2>2, Grows
  <2>4. Holding(s, k) = {}
    BY <2>3 DEF Taken
  <2>5. \A i : i \in 1..n <=> i \in 1..(n - 1) \/ i = n
    BY <2>3
  <2>6. \A i : i \in Holding(s, key)' <=> i \in 1..n /\ table'[s][i].key = key
    BY <2>3 DEF Holding
  <2>7. \A i : i \in Holding(s, key) <=> i \in 1..(n - 1) /\ table[s][i].key = key
    BY <2>3 DEF Holding
  <2>8. CASE key = k
    <3>1. Holding(s, key)' = {n}
      BY <2>3, <2>4, <2>5, <2>6, <2>7, <2>8
    <3>2. QED
      BY <1>2, <2>1, <2>2, <2>8, <3>1
  <2>9. CASE key # k
    <3>1. \A i : i \in Holding(s, key)' <=> i \in Holding(s, key)
      BY <2>3, <2>5, <2>6, <2>7, <2>9
    <3>2. Holding(s, key)' = Holding(s, key)
      <4> DEFINE H == Holding(s, key)
      <4>1. H' = {i \in DOMAIN table'[s] : table'[s][i].key = key}
        BY DEF Holding
      <4>2. H = {i \in DOMAIN table[s] : table[s][i].key = key}
        BY DEF Holding
      <4>3. QED
        BY <3>1, <4>1, <4>2
    <3>3. QED
      BY <1>2, <2>2, <2>9, <3>2
  <2>10. QED
    BY <2>8, <2>9
<1>3. QED
  BY <1>1, <1>2

\* A classification is never rewritten.
LEMMA ClassificationsStay ==
  ASSUME IInv, NEW c \in Client, Write(c)
  PROVE  \A i \in DOMAIN table.classification :
            i \in DOMAIN table'.classification /\ table'.classification[i] = table.classification[i]
<1> DEFINE t == Writes[request[c].op]
           id == Len(table[t]) + 1
<1>1. CASE t = "classification"
  <2>1. /\ id \in Nat \ {0} /\ DOMAIN table[t] = 1..(id - 1) /\ DOMAIN table'[t] = 1..id
        /\ \A i \in DOMAIN table[t] : table'[t][i] = table[t][i]
    BY <1>1, Grows
  <2>2. QED
    BY <1>1, <2>1
<1>2. CASE t # "classification"
  BY <1>2, Grows DEF Table
<1>3. QED
  BY <1>1, <1>2

\* So what rests on one stands.
LEMMA FoundedStays ==
  ASSUME IInv, NEW c \in Client, Write(c)
  PROVE  /\ \A r : Founded(r) => Founded(r)'
         /\ \A op, r : RowFits(op, r) => RowFits(op, r)'
<1>1. \A r : Founded(r) => Founded(r)'
  BY ClassificationsStay DEF Founded
<1>2. QED
  BY <1>1 DEF RowFits

\* The request that has stored its row is told of it.
LEMMA ToldCreated ==
  ASSUME IInv, NEW c \in Client, Write(c)
  PROVE  LET q == request[c]
         IN  /\ IsRequest(request'[c]) /\ request'[c].op = q.op /\ request'[c].at = "done"
             /\ request'[c].id = Len(table[Writes[q.op]]) + 1
             /\ request'[c].row.key = q.row.key /\ request'[c].answer # "ERROR"
             /\ \A d \in Client \ {c} : request'[d] = request[d]
             /\ request' = [d \in Client |-> request'[d]]
<1> DEFINE q == request[c]
           id == Len(table[Writes[q.op]]) + 1
<1>1. q.op \in Op
  BY Grows
<1>2. Answers[q.op] # "ERROR"
  BY <1>1 DEF Answers, Op
<1>3. PICK r : /\ r = [Idle EXCEPT !.op = q.op, !.row = [key |-> q.row.key],
                                   !.answer = Answers[q.op], !.id = id]
               /\ request' = [request EXCEPT ![c] = r]
  BY DEF Write, Reply
<1>4. /\ IsRequest(r) /\ r.op = q.op /\ r.at = "done" /\ r.row.key = q.row.key
      /\ r.answer = Answers[q.op] /\ r.id = id
  BY <1>3 DEF Idle, IsRequest
<1>5. request' = [d \in Client |-> IF d = c THEN r ELSE request[d]]
  BY <1>3 DEF IInv, RequestShape
<1>6. QED
  BY <1>2, <1>4, <1>5

\* The columns of the payment stay, and its attempts a number.
LEMMA PaymentKept ==
  ASSUME IInv, NEW c \in Client, Write(c)
  PROVE  IsPayment(payment')
<1> DEFINE q == request[c]
<1>1. IsPayment(payment)
  BY DEF IInv, StoreShape
<1>2. payment' = PaymentAfter(q.op, q.saw, q.row)
  BY DEF Write
<1>3. IsPayment(Ingested(q.saw))
  BY <1>1 DEF Ingested, IsPayment
<1>4. IsPayment(Classified(q.saw))
  BY <1>1 DEF Classified, IsPayment
<1>5. IsPayment(DecidedPayment(q.row.action))
  BY <1>1 DEF DecidedPayment, IsPayment
<1>6. \/ PaymentAfter(q.op, q.saw, q.row) = Ingested(q.saw)
      \/ PaymentAfter(q.op, q.saw, q.row) = Classified(q.saw)
      \/ PaymentAfter(q.op, q.saw, q.row) = DecidedPayment(q.row.action)
      \/ PaymentAfter(q.op, q.saw, q.row) = payment
  BY DEF PaymentAfter
<1>7. QED
  BY <1>1, <1>2, <1>3, <1>4, <1>5, <1>6

\* The transaction that stores a row.
LEMMA RowStored ==
  ASSUME IInv, NEW c \in Client, Write(c)
  PROVE  IInv'
<1>1. PICK t, id, key :
         /\ t = Writes[request[c].op] /\ id = Len(table[t]) + 1 /\ key = request[c].row.key
  OBVIOUS
<1>2. /\ t \in Table /\ ~Taken(t, key) /\ DOMAIN table' = Table
      /\ \A s \in Table : IsSequence(table'[s])
      /\ \A s \in Table \ {t} : table'[s] = table[s]
      /\ id \in Nat \ {0} /\ DOMAIN table[t] = 1..(id - 1) /\ DOMAIN table'[t] = 1..id
      /\ table'[t][id] = request[c].row
      /\ \A i \in DOMAIN table[t] : table'[t][i].key = table[t][i].key
  BY <1>1, Grows
<1>3. request[c].op \in Op /\ RowFits(request[c].op, request[c].row)
  BY Grows
<1>4. Holding(t, key) = {} /\ Holding(t, key)' = {id}
  BY <1>1, <1>2, HoldingAfter DEF Taken
<1>5. \A s \in Table : \A k : ~(s = t /\ k = key) => Holding(s, k)' = Holding(s, k)
  BY <1>1, HoldingAfter
<1>6. \A i \in 1..id : i \in 1..(id - 1) \/ i = id
  BY <1>2
<1>7. StoreShape'
  <2>1. IsPayment(payment')
    BY PaymentKept
  <2>2. ASSUME NEW i \in DOMAIN table'.action
        PROVE  IsAction(table'.action[i])
    <3>1. CASE t # "action"
      BY <1>2, <3>1 DEF IInv, StoreShape, Table
    <3>2. CASE t = "action" /\ i = id
      <4>1. request[c].op = "decide"
        BY <1>1, <3>2, Grows
      <4>2. QED
        BY <1>2, <1>3, <3>2, <4>1 DEF RowFits
    <3>3. CASE t = "action" /\ i # id
      <4>1. i \in DOMAIN table[t]
        BY <1>2, <1>6, <3>3
      <4>2. \A k \in DOMAIN table[t] : IsAction(table'[t][k])
        BY <1>1, <3>3, Grows
      <4>3. QED
        BY <3>3, <4>1, <4>2
    <3>4. QED
      BY <3>1, <3>2, <3>3
  <2>3. ASSUME NEW i \in DOMAIN table'.classification
        PROVE  IsClassification(table'.classification[i])
    <3>1. CASE t # "classification"
      BY <1>2, <3>1 DEF IInv, StoreShape, Table
    <3>2. CASE t = "classification" /\ i = id
      <4>1. request[c].op \in DOMAIN SourceOf
        BY <1>1, <1>3, <3>2, OpsWrite
      <4>2. QED
        BY <1>2, <1>3, <3>2, <4>1 DEF RowFits
    <3>3. CASE t = "classification" /\ i # id
      <4>1. table'[t][i] = table[t][i] /\ i \in DOMAIN table[t]
        BY <1>1, <1>2, <1>6, <3>3, Grows
      <4>2. QED
        BY <3>3, <4>1 DEF IInv, StoreShape
    <3>4. QED
      BY <3>1, <3>2, <3>3
  <2>4. QED
    BY <1>2, <2>1, <2>2, <2>3 DEF StoreShape, IsPayment, IsAction, IsClassification
<1>8. RequestShape'
  <2>1. \A d \in Client : IsRequest(request'[d])
    BY ToldCreated DEF IInv, RequestShape
  <2>2. \A op \in Op : Writes[op] \in Table
    BY OpsWrite
  <2>3. ASSUME NEW d \in Client, d # c PROVE Proper(request[d])'
    <3>1. PICK r : r = request[d]
      OBVIOUS
    <3>2. Proper(r) /\ r = request'[d]
      BY <2>3, <3>1, ToldCreated, Current
    <3>3. \A op \in Op : \A k : Taken(Writes[op], k) => Taken(Writes[op], k)'
      BY <1>4, <1>5, <2>2 DEF Taken
    <3>4. \A op \in Op : \A k : Holding(Writes[op], k) # {} =>
                                Holding(Writes[op], k)' = Holding(Writes[op], k)
      BY <1>4, <1>5, <2>2
    <3>5. r.at = "lost" => r.op \in Op
      BY <3>2 DEF Proper
    <3>6. Proper(r)'
      BY <3>2, <3>3, <3>4, <3>5, FoundedStays DEF Proper
    <3>7. QED
      BY <3>2, <3>6 DEF Proper, RowFits, Founded, IsClassification, IsAction, Taken, Holding
  <2>4. Proper(request[c])'
    <3>1. PICK r : r = request'[c]
      OBVIOUS
    <3>2. /\ r.at = "done" /\ r.op = request[c].op /\ r.id = id /\ r.row.key = key
          /\ r.answer # "ERROR"
      BY <1>1, <3>1, ToldCreated
    <3>3. Holding(Writes[r.op], r.row.key)' = {r.id}
      BY <1>1, <1>4, <3>2
    <3>4. Proper(r)'
      BY <1>3, <3>2, <3>3 DEF Proper
    <3>5. QED
      BY <3>1, <3>4 DEF Proper, RowFits, Founded, IsClassification, IsAction, Taken, Holding
  <2>5. request' = [d \in Client |-> request'[d]]
    BY ToldCreated
  <2>6. QED
    BY <2>1, <2>3, <2>4, <2>5 DEF RequestShape, IsRequest
<1>9. OneRowPerKey'
  <2> SUFFICES ASSUME NEW s \in Table, NEW i \in DOMAIN table'[s], NEW j \in DOMAIN table'[s],
                      table'[s][i].key = table'[s][j].key
               PROVE  i = j
    BY DEF OneRowPerKey
  <2>1. CASE s # t
    BY <1>2, <2>1 DEF IInv, OneRowPerKey
  <2>2. CASE s = t
    <3>1. \A k \in 1..(id - 1) : table'[t][k].key = table[t][k].key /\ table[t][k].key # key
      BY <1>2, <1>4 DEF Holding
    <3>2. table'[t][id].key = key
      BY <1>1, <1>2
    <3>3. QED
      BY <1>2, <1>6, <2>2, <3>1, <3>2 DEF IInv, OneRowPerKey
  <2>3. QED
    BY <2>1, <2>2
<1>10. OneCreator'
  <2>1. ASSUME NEW d \in Client, d # c, request[d].id # 0, request[d].op \in DOMAIN Writes,
               Writes[request[d].op] = t, request[d].row.key = key
        PROVE  FALSE
    BY <1>4, <2>1, Current DEF Proper
  <2> SUFFICES ASSUME NEW d \in Client, NEW e \in Client, d # e, Same(d, e)',
                      request'[d].id # 0, request'[e].id # 0
               PROVE  "DUPLICATE" \in {request'[d].answer, request'[e].answer}
    BY DEF OneCreator
  <2>2. CASE d = c
    <3>1. request'[e] = request[e] /\ request'[c].op = request[c].op /\ request'[c].row.key = key
      BY <1>1, <2>2, ToldCreated
    <3>2. QED
      BY <1>1, <2>1, <2>2, <3>1 DEF Same
  <2>3. CASE e = c
    <3>1. request'[d] = request[d] /\ request'[c].op = request[c].op /\ request'[c].row.key = key
      BY <1>1, <2>3, ToldCreated
    <3>2. QED
      BY <1>1, <2>1, <2>3, <3>1 DEF Same
  <2>4. CASE d # c /\ e # c
    <3>1. request'[d] = request[d] /\ request'[e] = request[e]
      BY <2>4, ToldCreated
    <3>2. QED
      BY <3>1 DEF Same, IInv, OneCreator
  <2>5. QED
    BY <2>2, <2>3, <2>4
<1>11. AllFounded'
  <2> SUFFICES ASSUME NEW i \in DOMAIN table'.action PROVE Founded(table.action[i])'
    BY DEF AllFounded
  <2>1. PICK r : r = table'.action[i]
    OBVIOUS
  <2>2. CASE t # "action"
    <3>1. r = table.action[i] /\ i \in DOMAIN table.action
      BY <1>2, <2>1, <2>2 DEF Table
    <3>2. Founded(r)
      BY <3>1 DEF IInv, AllFounded
    <3>3. QED
      BY <2>1, <3>2, FoundedStays DEF Founded
  <2>3. CASE t = "action" /\ i = id
    <3>1. request[c].op = "decide" /\ r = request[c].row
      BY <1>1, <1>2, <2>1, <2>3, Grows
    <3>2. Founded(r)
      BY <1>3, <3>1 DEF RowFits
    <3>3. QED
      BY <2>1, <3>2, FoundedStays DEF Founded
  <2>4. CASE t = "action" /\ i # id
    <3>1. i \in DOMAIN table.action
      BY <1>2, <1>6, <2>4
    <3>2. r.key = table.action[i].key /\ r.cause = table.action[i].cause
      BY <1>1, <1>2, <2>1, <2>4, <3>1, Grows
    <3>3. Founded(r)
      BY <3>1, <3>2 DEF IInv, AllFounded, Founded
    <3>4. QED
      BY <2>1, <3>3, FoundedStays DEF Founded
  <2>5. QED
    BY <2>2, <2>3, <2>4
<1>12. StopsCancel'
  <2>1. CASE t # "action"
    BY <1>2, <2>1 DEF IInv, StopsCancel, Table
  <2>2. CASE t = "action"
    <3> SUFFICES ASSUME NEW i \in DOMAIN table'.action, NEW j \in DOMAIN table'.action, i < j,
                        table'.action[j].action = "HARD_STOP"
                 PROVE  table'.action[i].status # "PENDING"
      BY DEF StopsCancel
    <3>1. i \in DOMAIN table.action
      BY <1>2, <2>2
    <3>2. \A k \in DOMAIN table.action :
            /\ table'.action[k].action = table.action[k].action
            /\ table'.action[k].status \in {table.action[k].status, "CANCELLED"}
            /\ request[c].row.action = "HARD_STOP" => table'.action[k].status # "PENDING"
      <4>1. Writes[request[c].op] = "action"
        BY <1>1, <2>2
      <4>2. QED
        BY <4>1, Grows
    <3>3. CASE j = id
      BY <1>2, <2>2, <3>1, <3>2, <3>3
    <3>4. CASE j # id
      <4>1. j \in DOMAIN table.action
        BY <1>2, <1>6, <2>2, <3>4
      <4>2. QED
        BY <3>1, <3>2, <4>1 DEF IInv, StopsCancel
    <3>5. QED
      BY <3>3, <3>4
  <2>3. QED
    BY <2>1, <2>2
<1>13. QED
  BY <1>7, <1>8, <1>9, <1>10, <1>11, <1>12 DEF IInv

-----------------------------------------------------------------------------
(* Every step, and what follows for every execution.                        *)

\* One case per action.
LEMMA INext == IInv /\ [Next]_vars => IInv'
<1> SUFFICES ASSUME IInv, [Next]_vars PROVE IInv'
  OBVIOUS
<1>1. CASE UNCHANGED vars
  <2>1. UNCHANGED <<payment, table, request>>
    BY <1>1 DEF vars
  <2>2. QED
    BY <2>1 DEF IInv, StoreShape, RequestShape, OneRowPerKey, OneCreator, Same, AllFounded,
                Founded, StopsCancel, Proper, RowFits, Taken, Holding
<1>2. ASSUME NEW c \in Client, Receive(c) PROVE IInv'
  BY <1>2, BeginsOrRefused
<1>3. ASSUME NEW c \in Client, Proceed(c) PROVE IInv'
  <2>1. CASE CheckKey(c)
    BY <2>1, KeyChecked
  <2>2. CASE AskModel(c) \/ ModelFails(c)
    BY <2>2, ModelAnswered
  <2>3. CASE Write(c)
    BY <2>3, RowStored
  <2>4. CASE WriteExplanation(c)
    BY <2>4, ExplainedOrDied
  <2>5. CASE LoseRace(c)
    BY <2>5, RaceLost
  <2>6. CASE AnswerLoser(c)
    BY <2>6, LoserAnswered
  <2>7. QED
    BY <1>3, <2>1, <2>2, <2>3, <2>4, <2>5, <2>6 DEF Proceed
<1>4. ASSUME NEW c \in Client, Die(c) PROVE IInv'
  BY <1>4, ExplainedOrDied
<1>5. QED
  BY <1>1, <1>2, <1>3, <1>4 DEF Next

\* The invariant holds in every reachable state.
THEOREM IntakeInvariant == Spec => []IInv
<1>1. QED
  BY IInit, INext, PTL DEF Spec

\* A request that is told of a row is told of the one that holds its key, and at most
\* one of those that race for it is told that it created it.
THEOREM EveryAnswerAgrees == Spec => []AnswersAgree
<1>1. IInv => AnswersAgree
  <2> SUFFICES ASSUME IInv, NEW c \in Client
               PROVE  /\ request[c].answer = "ERROR" => request[c].op \in {"suggest", "resolve"}
                      /\ request[c].id # 0 =>
                          /\ Holding(Writes[request[c].op], request[c].row.key) = {request[c].id}
                          /\ \A d \in Client \ {c} :
                                Same(c, d) /\ request[d].id # 0
                                  => "DUPLICATE" \in {request[c].answer, request[d].answer}
    BY DEF AnswersAgree
  <2>1. Proper(request[c])
    BY Current
  <2>2. QED
    BY <2>1 DEF Proper, IInv, OneCreator
<1>2. QED
  BY <1>1, IntakeInvariant, PTL

\* No action is ever decided on what the model said.
THEOREM ModelNeverDecides == Spec => []DecidedByAuthority
<1>1. IInv => DecidedByAuthority
  BY DEF IInv, AllFounded, Founded, DecidedByAuthority
<1>2. QED
  BY <1>1, IntakeInvariant, PTL

\* A hard stop leaves nothing that was decided before it open.
THEOREM StopsAreFinal == Spec => []StopsCancel
<1>1. IInv => StopsCancel
  BY DEF IInv
<1>2. QED
  BY <1>1, IntakeInvariant, PTL

-----------------------------------------------------------------------------
(* Counting failures.                                                       *)

Counted == {e \in audit : e.event = "FAILURE_INGESTED" /\ e.says # "TERMINAL"}

\* There is one event per failure, so the next one's is new.
CountInv ==
    /\ IsFiniteSet(audit)
    /\ \A e \in audit : e.event = "FAILURE_INGESTED" => e.id \in DOMAIN table.failure
    /\ AttemptsAreReports

\* The transaction of a failure counts it once, unless it was loaded as terminal; the
\* other transactions count nothing.
LEMMA WriteCounts ==
  ASSUME IInv, CountInv, NEW c \in Client, Write(c)
  PROVE  CountInv'
<1>1. PICK q, t, id : q = request[c] /\ t = Writes[q.op] /\ id = Len(table[t]) + 1
  OBVIOUS
<1>2. PICK e : e = AuditEvent(q.op, id, q.saw, q.row)
  OBVIOUS
<1>3. audit' = audit \cup {e} /\ payment' = PaymentAfter(q.op, q.saw, q.row)
  BY <1>1, <1>2 DEF Write, AppendAudit
<1>4. IsFiniteSet(audit')
  BY <1>3, FS_AddElement DEF CountInv
<1>5. q.op \in Op /\ t \in Table /\ DOMAIN table[t] = 1..(id - 1) /\ DOMAIN table'[t] = 1..id
      /\ id \in Nat \ {0} /\ \A s \in Table \ {t} : table'[s] = table[s]
  BY <1>1, Grows
<1>6. CASE q.op = "ingest"
  <2>1. t = "failure"
    BY <1>1, <1>6, OpsWrite
  <2>2. /\ e.event = "FAILURE_INGESTED" /\ e.id = id
        /\ e.says = "TERMINAL" <=> q.saw.status \in Terminal
    BY <1>2, <1>6 DEF AuditEvent, FailureIngested, Terminal
  <2>3. payment' = Ingested(q.saw)
    BY <1>3, <1>6 DEF PaymentAfter
  <2>4. \A d \in audit' : d.event = "FAILURE_INGESTED" => d.id \in DOMAIN table'.failure
    BY <1>3, <1>5, <2>1, <2>2 DEF CountInv
  <2>5. e \notin audit
    BY <1>5, <2>1, <2>2 DEF CountInv
  <2>6. CASE q.saw.status \in Terminal
    <3>1. Counted' = Counted /\ payment' = payment
      BY <1>3, <2>2, <2>3, <2>6 DEF Counted, Ingested
    <3>2. QED
      BY <1>4, <2>4, <3>1 DEF CountInv, AttemptsAreReports, Counted
  <2>7. CASE q.saw.status \notin Terminal
    <3>1. Counted' = Counted \cup {e} /\ e \notin Counted
      BY <1>3, <2>2, <2>5, <2>7 DEF Counted
    <3>2. IsFiniteSet(Counted)
      BY FS_Subset DEF CountInv, Counted
    <3>3. Cardinality(Counted') = Cardinality(Counted) + 1
      BY <3>1, <3>2, FS_AddElement
    <3>4. payment'.attempts = payment.attempts + 1
      BY <2>3, <2>7 DEF Ingested
    <3>5. QED
      BY <1>4, <2>4, <3>3, <3>4 DEF CountInv, AttemptsAreReports, Counted
  <2>8. QED
    BY <2>6, <2>7
<1>7. CASE q.op # "ingest"
  <2>1. t # "failure"
    BY <1>1, <1>5, <1>7 DEF Writes, Op
  <2>2. e.event # "FAILURE_INGESTED"
    BY <1>2, <1>5, <1>7 DEF AuditEvent, Op, FailureClassified, SuggestionMade, ReviewCompleted,
       PolicyDecision, MessageGenerated
  <2>3. payment'.attempts = payment.attempts
    BY <1>3, <1>5, <1>7 DEF PaymentAfter, Op, Classified, DecidedPayment, IInv, StoreShape, IsPayment
  <2>4. Counted' = Counted
    BY <1>3, <2>2 DEF Counted
  <2>5. \A d \in audit' : d.event = "FAILURE_INGESTED" => d.id \in DOMAIN table'.failure
    BY <1>3, <1>5, <2>1, <2>2 DEF CountInv, Table
  <2>6. QED
    BY <1>4, <2>3, <2>4, <2>5 DEF CountInv, AttemptsAreReports, Counted
<1>8. QED
  BY <1>6, <1>7

\* Only the transactions and the explanation add to the trail.
LEMMA CountNext == IInv /\ CountInv /\ [Next]_vars => CountInv'
<1> SUFFICES ASSUME IInv, CountInv, [Next]_vars PROVE CountInv'
  OBVIOUS
<1>1. CASE UNCHANGED <<payment, table, audit>>
  BY <1>1 DEF CountInv, AttemptsAreReports
<1>2. ASSUME NEW c \in Client, Receive(c) PROVE UNCHANGED <<payment, table, audit>>
  BY <1>2 DEF Receive, ReceiveFailure, ReceiveClassify, ReceiveSuggest, ReceiveResolve,
     ReceiveDecide, ReceiveMessage, ReceiveExplain, Begin, Refuse, stored
<1>3. ASSUME NEW c \in Client, Proceed(c) PROVE CountInv'
  <2>1. CASE Write(c)
    BY <2>1, WriteCounts
  <2>2. CASE WriteExplanation(c)
    <3>1. audit' = audit \cup {ExplanationReturned} /\ UNCHANGED <<payment, table>>
      BY <2>2 DEF WriteExplanation
    <3>2. IsFiniteSet(audit')
      BY <3>1, FS_AddElement DEF CountInv
    <3>3. ExplanationReturned.event # "FAILURE_INGESTED"
      BY DEF ExplanationReturned
    <3>4. Counted' = Counted
      BY <3>1, <3>3 DEF Counted
    <3>5. QED
      BY <3>1, <3>2, <3>3, <3>4 DEF CountInv, AttemptsAreReports, Counted
  <2>3. CASE CheckKey(c) \/ AskModel(c) \/ ModelFails(c) \/ LoseRace(c) \/ AnswerLoser(c)
    <3>1. UNCHANGED <<payment, table, audit>>
      BY <2>3 DEF CheckKey, AskModel, ModelFails, LoseRace, AnswerLoser, stored
    <3>2. QED
      BY <1>1, <3>1
  <2>4. QED
    BY <1>3, <2>1, <2>2, <2>3 DEF Proceed
<1>4. ASSUME NEW c \in Client, Die(c) PROVE UNCHANGED <<payment, table, audit>>
  BY <1>4 DEF Die, stored
<1>5. CASE UNCHANGED vars
  BY <1>1, <1>5 DEF vars
<1>6. QED
  BY <1>1, <1>2, <1>3, <1>4, <1>5 DEF Next

\* The count of attempts is that of the failures the trail says were counted: none is
\* lost to a race, a retry or a crash.
THEOREM NoFailureUncounted == Spec => []AttemptsAreReports
<1>1. Init => CountInv
  <2>1. ASSUME Init PROVE audit = {} /\ payment.attempts = 0
    BY <2>1 DEF Init, NewPayment
  <2>2. ASSUME Init PROVE {e \in audit : e.event = "FAILURE_INGESTED" /\ e.says # "TERMINAL"} = {}
    BY <2>1, <2>2
  <2>3. QED
    BY <2>1, <2>2, FS_EmptySet DEF CountInv, AttemptsAreReports
<1>2. CountInv => AttemptsAreReports
  BY DEF CountInv
<1>3. QED
  BY <1>1, <1>2, CountNext, IntakeInvariant, PTL DEF Spec

-----------------------------------------------------------------------------
(* Types.                                                                   *)

\* What a row refers to is there, and what it says can be said.
FitsTypes(op, r) ==
    /\ op = "ingest" => r.event \in DOMAIN Diagnosis
    /\ op \in DOMAIN SourceOf =>
          /\ r.failure \in DOMAIN table.failure
          /\ r.cause \in RootCause /\ r.confidence \in Confidence
    /\ op = "decide" =>
          /\ r.action \in RecoveryAction /\ r.status \in {"PENDING", "BLOCKED", "CANCELLED"}
    /\ op = "message" => r.key \in DOMAIN table.action

\* So it is of the rows that are stored and of those about to be.
TInv ==
    /\ payment.status \in {"PENDING", "FAILED", "HARD_STOPPED"}
    /\ payment.recovery \in {"NONE", "FAILED", "CLASSIFIED", "HARD_STOPPED", "HUMAN_REVIEW"}
    /\ \A i \in DOMAIN table.failure : FitsTypes("ingest", table.failure[i])
    /\ \A i \in DOMAIN table.classification :
          /\ FitsTypes("resolve", table.classification[i])
          /\ table.classification[i].source \in Source
    /\ \A i \in DOMAIN table.action : FitsTypes("decide", table.action[i])
    /\ \A i \in DOMAIN table.message : FitsTypes("message", table.message[i])
    /\ \A c \in Client : request[c].at # "done" => FitsTypes(request[c].op, request[c].row)

\* Of several rules that match one has the least priority, so there is a winner.
LEMMA WinnerIsFound ==
  ASSUME NEW found \in SUBSET RuleCause, found # {}
  PROVE  Winner(found) \in found
<1>1. \A c \in RuleCause : Priority[c] \in Nat
  BY DEF RuleCause, Priority
<1>2. \E c \in found : \A d \in found : Priority[c] <= Priority[d]
  <2>1. CASE "MANDATE_INVALID" \in found
    BY <2>1 DEF RuleCause, Priority
  <2>2. CASE "MANDATE_INVALID" \notin found /\ "PAYMENT_METHOD_INVALID" \in found
    BY <2>2 DEF RuleCause, Priority
  <2>3. CASE found \subseteq {"CUSTOMER_FUNDS_LOW", "CUSTOMER_AUTH_FAILURE",
                              "CUSTOMER_ABANDONMENT", "ISSUER_TEMPORARY_FAILURE", "GATEWAY_FAILURE"}
    <3>1. CASE "CUSTOMER_FUNDS_LOW" \in found
      BY <2>3, <3>1 DEF Priority
    <3>2. CASE "CUSTOMER_FUNDS_LOW" \notin found /\ "CUSTOMER_AUTH_FAILURE" \in found
      BY <2>3, <3>2 DEF Priority
    <3>3. CASE found \subseteq {"CUSTOMER_ABANDONMENT", "ISSUER_TEMPORARY_FAILURE", "GATEWAY_FAILURE"}
      <4>1. CASE "CUSTOMER_ABANDONMENT" \in found
        BY <3>3, <4>1 DEF Priority
      <4>2. CASE "CUSTOMER_ABANDONMENT" \notin found /\ "ISSUER_TEMPORARY_FAILURE" \in found
        BY <3>3, <4>2 DEF Priority
      <4>3. CASE found = {"GATEWAY_FAILURE"}
        BY <4>3, <1>1 DEF RuleCause
      <4>4. QED
        BY <3>3, <4>1, <4>2, <4>3
    <3>4. QED
      <4>1. "CUSTOMER_FUNDS_LOW" \in found \/ "CUSTOMER_AUTH_FAILURE" \in found
            \/ found \subseteq {"CUSTOMER_ABANDONMENT", "ISSUER_TEMPORARY_FAILURE", "GATEWAY_FAILURE"}
        BY <2>3
      <4>2. QED
        BY <3>1, <3>2, <3>3, <4>1
  <2>4. QED
    BY <2>1, <2>2, <2>3 DEF RuleCause
<1>3. QED
  BY <1>2 DEF Winner

\* A diagnosis is a root cause and whether it is sure.
LEMMA DiagnosisTyped ==
  ASSUME NEW failure
  PROVE  Diagnose(failure).cause \in RootCause /\ Diagnose(failure).confidence \in Confidence
<1>1. PICK found : found = Candidates(NormalizeInput(failure))
  OBVIOUS
<1>2. found \in SUBSET RuleCause
  BY <1>1 DEF Candidates
<1>3. Classify(failure).cause \in RootCause
  <2>1. CASE found = {}
    BY <1>1, <2>1 DEF Classify, RootCause
  <2>2. CASE found # {}
    <3>1. Winner(found) \in RuleCause
      BY <1>2, <2>2, WinnerIsFound
    <3>2. Classify(failure).cause = Winner(found)
      BY <1>1, <2>2 DEF Classify
    <3>3. QED
      BY <3>1, <3>2 DEF RuleCause, RootCause
  <2>3. QED
    BY <2>1, <2>2
<1>4. PICK d : d = Classify(failure)
  OBVIOUS
<1>5. Diagnose(failure) = [cause |-> d.cause,
                           confidence |-> IF d.confidence < MinConfidence THEN "low" ELSE "high"]
  BY <1>4 DEF Diagnose
<1>6. QED
  BY <1>3, <1>4, <1>5 DEF Confidence

\* The first state is well typed.
LEMMA TypesInit == Init => TInv
<1> SUFFICES ASSUME Init PROVE TInv
  OBVIOUS
<1>1. \A t \in Table : DOMAIN table[t] = {}
  BY DEF Init, Table
<1>2. \A c \in Client : request[c].at = "done"
  BY DEF Init, Idle
<1>3. payment.status = "PENDING" /\ payment.recovery = "NONE"
  BY DEF Init, NewPayment
<1>4. QED
  BY <1>1, <1>2, <1>3 DEF TInv, Table

\* The ids of failures and of actions.
LEMMA Numbered ==
  ASSUME IInv, NEW t \in Table
  PROVE  Len(table[t]) \in Nat /\ DOMAIN table[t] = 1..Len(table[t])
<1>1. IsSequence(table[t])
  BY DEF IInv, StoreShape
<1>2. QED
  BY <1>1, Appended

\* A step that stores nothing, and makes one request one that fits.
LEMMA QuietTypes ==
  ASSUME IInv, TInv, NEW c \in Client, NEW q, q.at # "done" => FitsTypes(q.op, q.row),
         request' = [request EXCEPT ![c] = q], UNCHANGED <<payment, table>>
  PROVE  TInv'
<1>1. payment' = payment /\ table' = table
  OBVIOUS
<1>2. request' = [d \in Client |-> IF d = c THEN q ELSE request[d]]
  BY DEF IInv, RequestShape
<1>3. ASSUME NEW d \in Client, request'[d].at # "done"
      PROVE  FitsTypes(request[d].op, request[d].row)'
  <2>1. PICK r : r = request'[d]
    OBVIOUS
  <2>2. FitsTypes(r.op, r.row)
    BY <1>2, <1>3, <2>1 DEF TInv
  <2>3. QED
    BY <1>1, <2>1, <2>2 DEF FitsTypes
<1>4. QED
  BY <1>1, <1>3 DEF TInv, FitsTypes

\* What an operation begins with, or a refusal.
LEMMA BeginsTyped ==
  ASSUME IInv, TInv, NEW c \in Client, NEW op, NEW at, NEW row,
         FitsTypes(op, row), Begin(c, op, at, row)
  PROVE  TInv'
<1>1. PICK q : /\ q = [Idle EXCEPT !.op = op, !.at = at, !.row = row,
                                   !.saw = IF op \in SeesPayment THEN payment ELSE @]
               /\ request' = [request EXCEPT ![c] = q] /\ UNCHANGED <<payment, table>>
  BY DEF Begin, stored
<1>2. q.op = op /\ q.row = row
  BY <1>1 DEF Idle
<1>3. QED
  BY <1>1, <1>2, QuietTypes

\* An answered request has no row to write.
LEMMA RepliedTyped ==
  ASSUME IInv, TInv, NEW c \in Client, NEW op, NEW key, NEW answer, NEW id,
         Reply(c, op, key, answer, id), UNCHANGED stored
  PROVE  TInv'
<1>1. PICK q : /\ q = [Idle EXCEPT !.op = op, !.row = [key |-> key], !.answer = answer, !.id = id]
               /\ request' = [request EXCEPT ![c] = q] /\ UNCHANGED <<payment, table>>
  BY DEF Reply, stored
<1>2. q.at = "done"
  BY <1>1 DEF Idle
<1>3. QED
  BY <1>1, <1>2, QuietTypes

LEMMA RefusedTyped ==
  ASSUME IInv, TInv, NEW c \in Client, NEW answer, Refuse(c, answer)
  PROVE  TInv'
<1>1. PICK told : Reply(c, "none", 0, told, 0) /\ UNCHANGED stored
  BY DEF Refuse
<1>2. QED
  BY <1>1, RepliedTyped

\* The classification of a failure by a typed diagnosis.
LEMMA ClassificationTyped ==
  ASSUME NEW op \in DOMAIN SourceOf, NEW f \in DOMAIN table.failure, NEW d,
         d.cause \in RootCause, d.confidence \in Confidence, NEW source
  PROVE  FitsTypes(op, Classification(f, source, d))
  BY OpsWrite DEF FitsTypes, Classification

\* What is decided, and how it starts.
LEMMA DecidedTyped ==
  ASSUME IInv, TInv, NEW id
  PROVE  FitsTypes("decide", DecidedAction(id))
<1>1. PICK d, ctx : d = table.classification[id] /\ ctx = DecisionContext(d)
  OBVIOUS
<1>2. payment.attempts \in Nat
  BY DEF IInv, StoreShape, IsPayment
<1>3. Readable(ctx)
  BY <1>1, <1>2, IntakeAssumption DEF DecisionContext, Readable
<1>4. PICK action : action = Decide(ctx).action /\ action \in RecoveryAction
  BY <1>3, DecisionTyped
<1>5. InitialStatus(action) \in {"PENDING", "BLOCKED", "CANCELLED"}
  BY DEF InitialStatus
<1>6. DecidedAction(id).action = action /\ DecidedAction(id).status = InitialStatus(action)
  BY <1>1, <1>4 DEF DecidedAction
<1>7. QED
  BY <1>4, <1>5, <1>6, OpsWrite DEF FitsTypes

\* Every way to begin a request.
LEMMA ReceivedTyped ==
  ASSUME IInv, TInv, NEW c \in Client, Receive(c)
  PROVE  TInv'
<1> DEFINE failures == DOMAIN table.failure
<1>1. /\ failures = 1..Len(table.failure) /\ Len(table.failure) \in Nat
      /\ DOMAIN table.action = 1..Len(table.action) /\ Len(table.action) \in Nat
  BY Numbered DEF Table
<1>2. \A f \in FailureIds : ~Unknown(f) => f \in failures
  BY <1>1 DEF FailureIds, Unknown
<1>3. CASE ReceiveFailure(c)
  <2>1. PICK k \in Key, known \in BOOLEAN : \E e \in Reports[k] :
          CASE ~Supported(Payload[e]) -> Refuse(c, "UNPROCESSABLE")
            [] Supported(Payload[e]) /\ ~known -> Refuse(c, "PAYMENT_NOT_FOUND")
            [] OTHER -> Begin(c, "ingest", "checking", [key |-> k, event |-> e])
    BY <1>3 DEF ReceiveFailure
  <2>2. PICK e \in Reports[k] :
          \/ Refuse(c, "UNPROCESSABLE") \/ Refuse(c, "PAYMENT_NOT_FOUND")
          \/ Supported(Payload[e]) /\ Begin(c, "ingest", "checking", [key |-> k, event |-> e])
    BY <2>1
  <2>3. Supported(Payload[e]) => FitsTypes("ingest", [key |-> k, event |-> e])
    <3>1. e \in DOMAIN Payload
      BY IntakeAssumption
    <3>2. Supported(Payload[e]) => e \in DOMAIN Diagnosis
      BY <3>1 DEF Diagnosis
    <3>3. QED
      BY <3>2, OpsWrite DEF FitsTypes
  <2>4. QED
    BY <2>2, <2>3, BeginsTyped, RefusedTyped
<1>4. CASE ReceiveClassify(c)
  <2>1. PICK f \in FailureIds :
          \/ Refuse(c, "FAILURE_NOT_FOUND")
          \/ ~Unknown(f) /\ Begin(c, "classify", "checking", Classification(f, "RULE", Diagnosed(f)))
    BY <1>4 DEF ReceiveClassify
  <2>2. ASSUME f \in failures
        PROVE  FitsTypes("classify", Classification(f, "RULE", Diagnosed(f)))
    <3>1. table.failure[f].event \in DOMAIN Diagnosis
      BY <2>2 DEF TInv, FitsTypes
    <3>2. PICK failure : Diagnosed(f) = Diagnose(failure)
      BY <3>1 DEF Diagnosed, Diagnosis
    <3>3. Diagnosed(f).cause \in RootCause /\ Diagnosed(f).confidence \in Confidence
      BY <3>2, DiagnosisTyped
    <3>4. QED
      BY <2>2, <3>3, ClassificationTyped, OpsWrite
  <2>3. QED
    BY <1>2, <2>1, <2>2, BeginsTyped, RefusedTyped
<1>5. CASE ReceiveSuggest(c)
  <2>1. PICK f \in FailureIds :
          \/ Refuse(c, "FAILURE_NOT_FOUND") \/ Refuse(c, "NOT_CLASSIFIED")
          \/ Refuse(c, "NOT_ELIGIBLE")
          \/ ~Unknown(f) /\ Begin(c, "suggest", "checking", Suggestion(f))
    BY <1>5 DEF ReceiveSuggest
  <2>2. NoSuggestion.cause \in RootCause /\ NoSuggestion.confidence \in Confidence
    BY DEF NoSuggestion, RootCause, Confidence
  <2>3. f \in failures => FitsTypes("suggest", Suggestion(f))
    BY <2>2, ClassificationTyped, OpsWrite DEF Suggestion
  <2>4. QED
    BY <1>2, <2>1, <2>3, BeginsTyped, RefusedTyped
<1>6. CASE ReceiveResolve(c)
  <2>1. PICK f \in FailureIds :
          \/ Refuse(c, "FAILURE_NOT_FOUND") \/ Refuse(c, "NOT_CLASSIFIED")
          \/ Refuse(c, "ROOT_CAUSE_REQUIRED")
          \/ /\ ~Unknown(f)
             /\ \E cause \in Verdicts \cup {"UNKNOWN"} :
                   Begin(c, "resolve", "checking", Verdict(f, cause))
    BY <1>6 DEF ReceiveResolve
  <2>2. ASSUME f \in failures, NEW cause \in Verdicts \cup {"UNKNOWN"}
        PROVE  FitsTypes("resolve", Verdict(f, cause))
    <3>1. cause \in RootCause /\ "high" \in Confidence
      BY IntakeAssumption DEF RootCause, Confidence
    <3>2. QED
      BY <2>2, <3>1, ClassificationTyped, OpsWrite DEF Verdict
  <2>3. QED
    BY <1>2, <2>1, <2>2, BeginsTyped, RefusedTyped
<1>7. CASE ReceiveDecide(c)
  <2>1. PICK id : \/ Refuse(c, "FAILURE_NOT_FOUND") \/ Refuse(c, "NOT_CLASSIFIED")
                  \/ Begin(c, "decide", "checking", DecidedAction(id))
    BY <1>7 DEF ReceiveDecide
  <2>2. QED
    BY <2>1, DecidedTyped, BeginsTyped, RefusedTyped
<1>8. CASE ReceiveMessage(c)
  <2>1. PICK a \in ActionIds :
          \/ Refuse(c, "ACTION_NOT_FOUND") \/ Refuse(c, "MESSAGE_NOT_REQUESTED")
          \/ ~NoSuch(a) /\ Begin(c, "message", "checking", Message(a))
    BY <1>8 DEF ReceiveMessage
  <2>2. ~NoSuch(a) => FitsTypes("message", Message(a))
    BY <1>1, OpsWrite DEF ActionIds, NoSuch, FitsTypes, Message
  <2>3. QED
    BY <2>1, <2>2, BeginsTyped, RefusedTyped
<1>9. CASE ReceiveExplain(c)
  <2>1. Refuse(c, "ACTION_NOT_FOUND") \/ Begin(c, "explain", "asking", NoRow)
    BY <1>9 DEF ReceiveExplain
  <2>2. FitsTypes("explain", NoRow)
    BY OpsWrite DEF FitsTypes
  <2>3. QED
    BY <2>1, <2>2, BeginsTyped, RefusedTyped
<1>10. QED
  BY <1>3, <1>4, <1>5, <1>6, <1>7, <1>8, <1>9 DEF Receive

\* Going on without storing: the row stays what it was, but for what the model says.
LEMMA ProceedsTyped ==
  ASSUME IInv, TInv, NEW c \in Client,
         CheckKey(c) \/ AskModel(c) \/ ModelFails(c) \/ WriteExplanation(c)
            \/ LoseRace(c) \/ AnswerLoser(c) \/ Die(c)
  PROVE  TInv'
<1> DEFINE r == request[c]
<1>1. IsRequest(r)
  BY Current
<1>2. r.at # "done" => FitsTypes(r.op, r.row)
  BY DEF TInv
<1>3. ASSUME r.at # "done", NEW at, request' = [request EXCEPT ![c].at = at],
             UNCHANGED <<payment, table>>
      PROVE  TInv'
  <2>1. PICK q : q = [r EXCEPT !.at = at]
    OBVIOUS
  <2>2. request' = [request EXCEPT ![c] = q]
    BY <1>3, <2>1
  <2>3. q.op = r.op /\ q.row = r.row
    BY <1>1, <2>1 DEF IsRequest
  <2>4. QED
    BY <1>2, <1>3, <2>2, <2>3, QuietTypes
<1>4. CASE CheckKey(c)
  <2>1. UNCHANGED stored /\ r.at = "checking"
    BY <1>4 DEF CheckKey
  <2>2. \/ \E id : Reply(c, r.op, r.row.key, "DUPLICATE", id)
        \/ request' = [request EXCEPT ![c].at = IF r.op \in AsksModel THEN "asking" ELSE "writing"]
    BY <1>4 DEF CheckKey
  <2>3. QED
    BY <1>3, <2>1, <2>2, RepliedTyped DEF stored
<1>5. CASE AskModel(c)
  <2>1. PICK cause \in Suggestions :
              request' = [request EXCEPT ![c].at = "writing",
                                         ![c].row = Answered(r.row, r.op, cause)]
    BY <1>5 DEF AskModel
  <2>2. PICK q : q = [r EXCEPT !.at = "writing", !.row = Answered(r.row, r.op, cause)]
    OBVIOUS
  <2>3. request' = [request EXCEPT ![c] = q] /\ UNCHANGED <<payment, table>>
    BY <1>5, <2>1, <2>2 DEF IInv, RequestShape, AskModel, stored
  <2>4. q.op = r.op /\ q.row = Answered(r.row, r.op, cause)
    BY <1>1, <2>2 DEF IsRequest
  <2>5. FitsTypes(r.op, r.row) /\ RowFits(r.op, r.row)
    BY <1>2, <1>5, Current DEF AskModel, Proper
  <2>6. FitsTypes(r.op, Answered(r.row, r.op, cause))
    <3>1. CASE r.op = "suggest"
      <4>1. cause \in RootCause /\ "high" \in Confidence
        BY IntakeAssumption DEF Confidence
      <4>2. IsClassification(r.row)
        BY <2>5, <3>1, OpsWrite DEF RowFits
      <4>3. PICK row : row = Answered(r.row, r.op, cause)
        OBVIOUS
      <4>4. row.failure = r.row.failure /\ row.cause = cause /\ row.confidence = "high"
        BY <3>1, <4>2, <4>3 DEF Answered, IsClassification
      <4>5. QED
        BY <2>5, <3>1, <4>1, <4>3, <4>4 DEF FitsTypes
    <3>2. CASE r.op # "suggest"
      BY <2>5, <3>2 DEF Answered
    <3>3. QED
      BY <3>1, <3>2
  <2>7. QED
    BY <2>3, <2>4, <2>6, QuietTypes
<1>6. CASE ModelFails(c)
  BY <1>3, <1>6 DEF ModelFails, stored
<1>7. CASE WriteExplanation(c) \/ Die(c)
  <2>1. request' = [request EXCEPT ![c] = Idle] /\ UNCHANGED <<payment, table>>
    BY <1>7 DEF WriteExplanation, Die, stored
  <2>2. Idle.at = "done"
    BY DEF Idle
  <2>3. QED
    BY <2>1, <2>2, QuietTypes
<1>8. CASE LoseRace(c)
  BY <1>3, <1>8 DEF LoseRace, stored
<1>9. CASE AnswerLoser(c)
  <2>1. UNCHANGED stored
    BY <1>9 DEF AnswerLoser
  <2>2. PICK answer, id : Reply(c, r.op, r.row.key, answer, id)
    BY <1>9 DEF AnswerLoser
  <2>3. QED
    BY <2>1, <2>2, RepliedTyped
<1>10. QED
  BY <1>4, <1>5, <1>6, <1>7, <1>8, <1>9

\* What a row refers to stays, whatever is added.
LEMMA ReferencesStay ==
  ASSUME IInv, NEW c \in Client, Write(c)
  PROVE  /\ \A t \in Table : DOMAIN table[t] \subseteq DOMAIN table'[t]
         /\ \A op, r : FitsTypes(op, r) => FitsTypes(op, r)'
<1>1. ASSUME NEW t \in Table PROVE DOMAIN table[t] \subseteq DOMAIN table'[t]
  <2>1. CASE t # Writes[request[c].op]
    BY <2>1, Grows
  <2>2. CASE t = Writes[request[c].op]
    <3>1. PICK id \in Nat \ {0} : DOMAIN table[t] = 1..(id - 1) /\ DOMAIN table'[t] = 1..id
      BY <2>2, Grows
    <3>2. QED
      BY <3>1
  <2>3. QED
    BY <2>1, <2>2
<1>2. QED
  BY <1>1 DEF FitsTypes, Table

\* The statuses the transactions give the payment.
LEMMA PaymentTyped ==
  ASSUME IInv, TInv, NEW c \in Client, Write(c)
  PROVE  /\ payment'.status \in {"PENDING", "FAILED", "HARD_STOPPED"}
         /\ payment'.recovery \in {"NONE", "FAILED", "CLASSIFIED", "HARD_STOPPED", "HUMAN_REVIEW"}
<1> DEFINE q == request[c]
<1>1. IsPayment(payment)
  BY DEF IInv, StoreShape
<1>2. payment' = PaymentAfter(q.op, q.saw, q.row)
  BY DEF Write
<1>3. \/ payment' = Ingested(q.saw) \/ payment' = Classified(q.saw)
      \/ payment' = DecidedPayment(q.row.action) \/ payment' = payment
  BY <1>2 DEF PaymentAfter
<1>4. CASE payment' = Ingested(q.saw)
  BY <1>1, <1>4 DEF TInv, IsPayment, Ingested
<1>5. CASE payment' = Classified(q.saw)
  BY <1>1, <1>5 DEF TInv, IsPayment, Classified
<1>6. CASE payment' = DecidedPayment(q.row.action)
  BY <1>1, <1>6 DEF TInv, IsPayment, DecidedPayment
<1>7. CASE payment' = payment
  BY <1>7 DEF TInv
<1>8. QED
  BY <1>3, <1>4, <1>5, <1>6, <1>7

\* The transaction that stores a row.
LEMMA StoredTyped ==
  ASSUME IInv, TInv, NEW c \in Client, Write(c)
  PROVE  TInv'
<1>1. PICK q, t, id : q = request[c] /\ t = Writes[q.op] /\ id = Len(table[t]) + 1
  OBVIOUS
<1>2. /\ q.op \in Op /\ t \in Table /\ RowFits(q.op, q.row)
      /\ \A s \in Table \ {t} : table'[s] = table[s]
      /\ id \in Nat \ {0} /\ DOMAIN table[t] = 1..(id - 1) /\ DOMAIN table'[t] = 1..id
      /\ table'[t][id] = q.row
      /\ \A i \in DOMAIN table[t] : table'[t][i].key = table[t][i].key
      /\ t # "action" => \A i \in DOMAIN table[t] : table'[t][i] = table[t][i]
  BY <1>1, Grows
<1>3. t = "action" =>
         \A i \in DOMAIN table[t] : /\ table'[t][i].action = table[t][i].action
                                    /\ table'[t][i].status \in {table[t][i].status, "CANCELLED"}
  BY <1>1, Grows
<1>4. FitsTypes(q.op, q.row)'
  <2>1. q.at # "done"
    BY <1>1 DEF Write
  <2>2. FitsTypes(q.op, q.row)
    BY <1>1, <2>1 DEF TInv
  <2>3. QED
    BY <2>2, ReferencesStay
<1>5. \A i \in DOMAIN table'[t] : i \in DOMAIN table[t] \/ i = id
  BY <1>2
<1>6. ASSUME NEW s \in Table \ {"action"}, NEW i \in DOMAIN table'[s]
      PROVE  \/ i \in DOMAIN table[s] /\ table'[s][i] = table[s][i]
             \/ s = t /\ table'[s][i] = q.row
  <2>1. CASE s # t
    BY <1>2, <2>1
  <2>2. CASE s = t
    BY <1>2, <1>5, <1>6, <2>2
  <2>3. QED
    BY <2>1, <2>2
<1>7. ASSUME NEW i \in DOMAIN table'.failure PROVE FitsTypes("ingest", table.failure[i])'
  <2>1. CASE i \in DOMAIN table.failure /\ table'.failure[i] = table.failure[i]
    <3>1. FitsTypes("ingest", table.failure[i])
      BY <2>1 DEF TInv
    <3>2. QED
      BY <2>1, <3>1 DEF FitsTypes, SourceOf
  <2>2. CASE t = "failure" /\ table'.failure[i] = q.row
    <3>1. q.op = "ingest"
      BY <1>1, <1>2, <2>2, OpsWrite
    <3>2. FitsTypes("ingest", q.row)'
      BY <1>4, <3>1 DEF FitsTypes
    <3>3. QED
      BY <2>2, <3>2 DEF FitsTypes
  <2>3. QED
    BY <1>6, <2>1, <2>2 DEF Table
<1>8. ASSUME NEW i \in DOMAIN table'.classification
      PROVE  FitsTypes("resolve", table.classification[i])' /\ table'.classification[i].source \in Source
  <2>1. CASE i \in DOMAIN table.classification /\ table'.classification[i] = table.classification[i]
    <3>1. PICK r : r = table.classification[i]
      OBVIOUS
    <3>2. FitsTypes("resolve", r) /\ r.source \in Source
      BY <2>1, <3>1 DEF TInv
    <3>3. FitsTypes("resolve", r)'
      BY <3>2, ReferencesStay
    <3>4. QED
      BY <2>1, <3>1, <3>2, <3>3 DEF FitsTypes
  <2>2. CASE t = "classification" /\ table'.classification[i] = q.row
    <3>1. q.op \in DOMAIN SourceOf
      BY <1>1, <1>2, <2>2, OpsWrite
    <3>2. q.row.source \in Source
      BY <1>2, <3>1 DEF RowFits, SourceOf, Source
    <3>3. QED
      BY <1>4, <2>2, <3>1, <3>2, OpsWrite DEF FitsTypes
  <2>3. QED
    BY <1>6, <2>1, <2>2 DEF Table
<1>9. ASSUME NEW i \in DOMAIN table'.action PROVE FitsTypes("decide", table.action[i])'
  <2> SUFFICES /\ table'.action[i].action \in RecoveryAction
               /\ table'.action[i].status \in {"PENDING", "BLOCKED", "CANCELLED"}
    BY OpsWrite DEF FitsTypes
  <2>1. \A j \in DOMAIN table.action :
           /\ table.action[j].action \in RecoveryAction
           /\ table.action[j].status \in {"PENDING", "BLOCKED", "CANCELLED"}
    BY DEF TInv, FitsTypes
  <2>2. CASE t # "action"
    BY <1>2, <2>1, <2>2 DEF Table
  <2>3. CASE t = "action" /\ i \in DOMAIN table.action
    BY <1>3, <2>1, <2>3
  <2>4. CASE t = "action" /\ i = id
    <3>1. q.op = "decide"
      BY <1>1, <1>2, <2>4, OpsWrite
    <3>2. QED
      BY <1>2, <1>4, <2>4, <3>1 DEF FitsTypes
  <2>5. QED
    BY <1>5, <2>2, <2>3, <2>4
<1>10. ASSUME NEW i \in DOMAIN table'.message PROVE FitsTypes("message", table.message[i])'
  <2>1. CASE i \in DOMAIN table.message /\ table'.message[i] = table.message[i]
    <3>1. PICK r : r = table.message[i]
      OBVIOUS
    <3>2. FitsTypes("message", r)
      BY <2>1, <3>1 DEF TInv
    <3>3. FitsTypes("message", r)'
      BY <3>2, ReferencesStay
    <3>4. QED
      BY <2>1, <3>1, <3>3 DEF FitsTypes
  <2>2. CASE t = "message" /\ table'.message[i] = q.row
    <3>1. q.op = "message"
      BY <1>1, <1>2, <2>2, OpsWrite
    <3>2. FitsTypes("message", q.row)'
      BY <1>4, <3>1 DEF FitsTypes
    <3>3. QED
      BY <2>2, <3>2 DEF FitsTypes
  <2>3. QED
    BY <1>6, <2>1, <2>2 DEF Table
<1>11. ASSUME NEW d \in Client, request'[d].at # "done"
       PROVE  FitsTypes(request[d].op, request[d].row)'
  <2>1. d # c /\ request'[d] = request[d]
    BY <1>11, ToldCreated
  <2>2. PICK r : r = request[d]
    OBVIOUS
  <2>3. FitsTypes(r.op, r.row)
    BY <1>11, <2>1, <2>2 DEF TInv
  <2>4. FitsTypes(r.op, r.row)'
    BY <2>3, ReferencesStay
  <2>5. QED
    BY <2>1, <2>2, <2>4 DEF FitsTypes
<1>12. QED
  BY <1>7, <1>8, <1>9, <1>10, <1>11, PaymentTyped DEF TInv

\* One case per action.
LEMMA TypesNext == IInv /\ TInv /\ [Next]_vars => TInv'
<1> SUFFICES ASSUME IInv, TInv, [Next]_vars PROVE TInv'
  OBVIOUS
<1>1. CASE UNCHANGED vars
  <2>1. UNCHANGED <<payment, table, request>>
    BY <1>1 DEF vars
  <2>2. QED
    BY <2>1 DEF TInv, FitsTypes
<1>2. ASSUME NEW c \in Client, Receive(c) PROVE TInv'
  BY <1>2, ReceivedTyped
<1>3. ASSUME NEW c \in Client, Write(c) PROVE TInv'
  BY <1>3, StoredTyped
<1>4. ASSUME NEW c \in Client, Proceed(c) \/ Die(c), ~Write(c) PROVE TInv'
  BY <1>4, ProceedsTyped DEF Proceed
<1>5. QED
  BY <1>1, <1>2, <1>3, <1>4 DEF Next

\* Every row refers to rows that are there, and says what can be said; so do those
\* about to be written, whichever transactions come in between.
THEOREM RequestsAreTyped == Spec => []TypeOK
<1>1. IInv /\ TInv => TypeOK
  <2> SUFFICES ASSUME IInv, TInv PROVE TypeOK
    OBVIOUS
  <2>1. payment.attempts \in Nat
    BY DEF IInv, StoreShape, IsPayment
  <2>2. \A i \in DOMAIN table.action : table.action[i].key \in DOMAIN table.classification
    BY DEF IInv, AllFounded, Founded
  <2>3. \A c \in Client : request[c].at \in {"checking", "asking", "writing", "lost", "done"}
    BY DEF IInv, RequestShape, Proper
  <2>4. QED
    BY <2>1, <2>2, <2>3, OpsWrite DEF TInv, FitsTypes, TypeOK
<1>2. QED
  BY <1>1, TypesInit, TypesNext, IntakeInvariant, PTL DEF Spec

-----------------------------------------------------------------------------
(* The trail.                                                               *)

\* Whose event each kind of classification has.
ToldOf(i, r, e) ==
    /\ e.id = i
    /\ CASE r.source = "RULE" -> e.event = "FAILURE_CLASSIFIED"
         [] r.source = "HUMAN" -> e.event = "HUMAN_REVIEW_COMPLETED" /\ e.says = r.cause
         [] OTHER -> e.event = "AI_OPERATION_COMPLETED" /\ e.says = r.cause

\* The ids of which an event of this kind speaks.
ToldIds(event) == {e.id : e \in {d \in audit : d.event \in {event} /\ d.id # 0}}

\* A transaction's event names its row, and of the two kinds that are counted each
\* names a row of its own table.
LEMMA EventOfRow ==
  ASSUME IInv, NEW c \in Client, Write(c), NEW e,
         e = AuditEvent(request[c].op, Len(table[Writes[request[c].op]]) + 1,
                        request[c].saw, request[c].row)
  PROVE  /\ audit' = audit \cup {e}
         /\ e.id = Len(table[Writes[request[c].op]]) + 1
         /\ e.event = "FAILURE_INGESTED" <=> request[c].op = "ingest"
         /\ e.event = "POLICY_DECISION" <=> request[c].op = "decide"
<1>1. request[c].op \in Op
  BY Grows
<1>2. audit' = audit \cup {e}
  BY DEF Write, AppendAudit
<1>3. QED
  BY <1>1, <1>2 DEF Op, AuditEvent, FailureIngested, FailureClassified, SuggestionMade,
     ReviewCompleted, PolicyDecision, MessageGenerated

\* Of failures and of decisions there is one event per row, and none without.
LEMMA IdsTold ==
  ASSUME IInv, NEW c \in Client, Write(c), NEW op \in {"ingest", "decide"}, NEW event,
         event = IF op = "ingest" THEN "FAILURE_INGESTED" ELSE "POLICY_DECISION",
         ToldIds(event) = DOMAIN table[Writes[op]]
  PROVE  ToldIds(event)' = DOMAIN table'[Writes[op]]
<1>1. PICK q, t, id : q = request[c] /\ t = Writes[q.op] /\ id = Len(table[t]) + 1
  OBVIOUS
<1>2. /\ q.op \in Op /\ t \in Table /\ \A s \in Table \ {t} : table'[s] = table[s]
      /\ id \in Nat \ {0} /\ DOMAIN table[t] = 1..(id - 1) /\ DOMAIN table'[t] = 1..id
  BY <1>1, Grows
<1>3. PICK e : e = AuditEvent(q.op, id, q.saw, q.row)
  OBVIOUS
<1>4. audit' = audit \cup {e} /\ e.id = id /\ (e.event = event <=> q.op = op)
  BY <1>1, <1>3, EventOfRow
<1>5. Writes[op] \in Table /\ (t = Writes[op] <=> q.op = op)
  BY <1>1, <1>2, OpsWrite DEF Op, SourceOf, Writes
<1>6. \A n : n \in ToldIds(event)' <=> n \in ToldIds(event) \/ (q.op = op /\ n = id)
  <2>1. \A n : n \in ToldIds(event) <=> \E d \in audit : d.event = event /\ d.id # 0 /\ n = d.id
    BY DEF ToldIds
  <2>2. \A n : n \in ToldIds(event)' <=> \E d \in audit' : d.event = event /\ d.id # 0 /\ n = d.id
    BY DEF ToldIds
  <2>3. QED
    BY <1>2, <1>4, <2>1, <2>2
<1>7. CASE q.op = op
  <2>1. \A n : n \in 1..id <=> n \in 1..(id - 1) \/ n = id
    BY <1>2
  <2>2. \A n : n \in ToldIds(event)' <=> n \in DOMAIN table'[t]
    BY <1>2, <1>5, <1>6, <1>7, <2>1
  <2>3. QED
    BY <1>5, <1>7, <2>2 DEF ToldIds
<1>8. CASE q.op # op
  <2>1. \A n : n \in ToldIds(event)' <=> n \in DOMAIN table[Writes[op]]
    BY <1>6, <1>8
  <2>2. QED
    BY <1>2, <1>5, <1>8, <2>1 DEF ToldIds
<1>9. QED
  BY <1>7, <1>8

\* Every classification has its event, and the payment's recovery status is one the
\* trail says it was moved to.
ClassificationsTold ==
    \A i \in DOMAIN table.classification :
        \E e \in audit : ToldOf(i, table.classification[i], e)
StatusTold == payment.recovery = "NONE" \/ \E e \in audit : Tells(e) = payment.recovery

TrailInv ==
    /\ ToldIds("FAILURE_INGESTED") = DOMAIN table.failure
    /\ ToldIds("POLICY_DECISION") = DOMAIN table.action
    /\ ClassificationsTold /\ StatusTold

\* The event of a classification says what its row says.
LEMMA ClassificationTold ==
  ASSUME IInv, NEW c \in Client, Write(c), ClassificationsTold
  PROVE  ClassificationsTold'
<1>1. PICK q, t, id : q = request[c] /\ t = Writes[q.op] /\ id = Len(table[t]) + 1
  OBVIOUS
<1>2. /\ q.op \in Op /\ RowFits(q.op, q.row)
      /\ \A s \in Table \ {t} : table'[s] = table[s]
      /\ id \in Nat \ {0} /\ DOMAIN table[t] = 1..(id - 1) /\ DOMAIN table'[t] = 1..id
      /\ table'[t][id] = q.row
      /\ t # "action" => \A i \in DOMAIN table[t] : table'[t][i] = table[t][i]
  BY <1>1, Grows
<1>3. PICK e : e = AuditEvent(q.op, id, q.saw, q.row)
  OBVIOUS
<1>4. audit' = audit \cup {e}
  BY <1>1, <1>3, EventOfRow
<1>5. ASSUME NEW i \in DOMAIN table'.classification
      PROVE  \E d \in audit' : ToldOf(i, table'.classification[i], d)
  <2>1. CASE i \in DOMAIN table.classification
    <3>1. table'.classification[i] = table.classification[i]
      BY <1>2, <2>1 DEF Table
    <3>2. PICK d \in audit : ToldOf(i, table.classification[i], d)
      BY <2>1 DEF ClassificationsTold
    <3>3. QED
      BY <1>4, <3>1, <3>2
  <2>2. CASE i \notin DOMAIN table.classification
    <3>1. t = "classification" /\ i = id
      <4>1. t = "classification"
        BY <1>2, <2>2 DEF Table
      <4>2. QED
        BY <1>2, <2>2, <4>1
    <3>2. q.op \in DOMAIN SourceOf
      BY <1>1, <1>2, <3>1, OpsWrite
    <3>3. q.row.source = SourceOf[q.op]
      BY <1>2, <3>2 DEF RowFits
    <3>4. ToldOf(i, q.row, e)
      <4>1. CASE q.op = "classify"
        BY <1>3, <3>1, <3>3, <4>1 DEF SourceOf, AuditEvent, FailureClassified, ToldOf
      <4>2. CASE q.op = "suggest"
        BY <1>3, <3>1, <3>3, <4>2 DEF SourceOf, AuditEvent, SuggestionMade, ToldOf
      <4>3. CASE q.op = "resolve"
        BY <1>3, <3>1, <3>3, <4>3 DEF SourceOf, AuditEvent, ReviewCompleted, ToldOf
      <4>4. QED
        BY <3>2, <4>1, <4>2, <4>3, OpsWrite
    <3>5. QED
      BY <1>2, <1>4, <3>1, <3>4
  <2>3. QED
    BY <2>1, <2>2
<1>6. QED
  BY <1>5 DEF ClassificationsTold, ToldOf

\* The payment is moved to no recovery status but in the transaction of an event that
\* says so, although both go by what was loaded before.
LEMMA MoveTold ==
  ASSUME IInv, NEW c \in Client, Write(c), StatusTold
  PROVE  StatusTold'
<1>1. PICK q, e : /\ q = request[c]
                  /\ e = AuditEvent(q.op, Len(table[Writes[q.op]]) + 1, q.saw, q.row)
  OBVIOUS
<1>2. audit' = audit \cup {e} /\ payment' = PaymentAfter(q.op, q.saw, q.row) /\ q.op \in Op
  BY <1>1, EventOfRow, Grows DEF Write
<1>3. IsPayment(payment)
  BY DEF IInv, StoreShape
<1>4. payment'.recovery = payment.recovery \/ Tells(e) = payment'.recovery
  <2>1. CASE q.op = "ingest"
    <3>1. payment' = Ingested(q.saw)
      BY <1>2, <2>1 DEF PaymentAfter
    <3>2. CASE q.saw.status \in Terminal
      BY <3>1, <3>2 DEF Ingested
    <3>3. CASE q.saw.status \notin Terminal
      <4>1. payment'.recovery = "FAILED"
        BY <3>1, <3>3 DEF Ingested
      <4>2. e.event = "FAILURE_INGESTED" /\ e.says \in {"REFAILED", "CHANGED"}
        BY <1>1, <2>1, <3>3 DEF AuditEvent, FailureIngested
      <4>3. Tells(e) = "FAILED"
        BY <4>2 DEF Tells
      <4>4. QED
        BY <4>1, <4>3
    <3>4. QED
      BY <3>2, <3>3
  <2>2. CASE q.op = "classify"
    <3>1. payment' = Classified(q.saw)
      BY <1>2, <2>2 DEF PaymentAfter
    <3>2. CASE q.saw.recovery = "FAILED"
      <4>1. payment'.recovery = "CLASSIFIED"
        BY <1>3, <3>1, <3>2 DEF Classified, IsPayment
      <4>2. e.event = "FAILURE_CLASSIFIED" /\ e.says = "CLASSIFIED"
        BY <1>1, <2>2, <3>2 DEF AuditEvent, FailureClassified
      <4>3. QED
        BY <4>1, <4>2 DEF Tells
    <3>3. CASE q.saw.recovery # "FAILED"
      BY <3>1, <3>3 DEF Classified
    <3>4. QED
      BY <3>2, <3>3
  <2>3. CASE q.op = "decide"
    <3>1. payment' = DecidedPayment(q.row.action)
      BY <1>2, <2>3 DEF PaymentAfter
    <3>2. e.event = "POLICY_DECISION" /\ e.says = q.row.action
      BY <1>1, <2>3 DEF AuditEvent, PolicyDecision
    <3>3. CASE q.row.action = "HARD_STOP"
      BY <1>3, <3>1, <3>2, <3>3 DEF DecidedPayment, IsPayment, Tells
    <3>4. CASE q.row.action = "HUMAN_REVIEW"
      BY <1>3, <3>1, <3>2, <3>4 DEF DecidedPayment, IsPayment, Tells
    <3>5. CASE q.row.action \notin {"HARD_STOP", "HUMAN_REVIEW"}
      BY <3>1, <3>5 DEF DecidedPayment
    <3>6. QED
      BY <3>3, <3>4, <3>5
  <2>4. CASE q.op \notin {"ingest", "classify", "decide"}
    BY <1>2, <2>4 DEF PaymentAfter
  <2>5. QED
    BY <2>1, <2>2, <2>3, <2>4
<1>5. CASE payment'.recovery = payment.recovery
  BY <1>2, <1>5 DEF StatusTold, Tells
<1>6. CASE Tells(e) = payment'.recovery
  <2>1. e \in audit'
    BY <1>2
  <2>2. QED
    BY <1>6, <2>1 DEF StatusTold, Tells
<1>7. QED
  BY <1>4, <1>5, <1>6

\* One case per kind of step: only the transactions and the explanation add events.
LEMMA TrailNext == IInv /\ TrailInv /\ [Next]_vars => TrailInv'
<1> SUFFICES ASSUME IInv, TrailInv, [Next]_vars PROVE TrailInv'
  OBVIOUS
<1>1. CASE UNCHANGED <<payment, table, audit>>
  BY <1>1 DEF TrailInv, ClassificationsTold, StatusTold, ToldIds, ToldOf, Tells
<1>2. ASSUME NEW c \in Client, Write(c) PROVE TrailInv'
  <2>1. Writes["ingest"] = "failure" /\ Writes["decide"] = "action"
    BY OpsWrite
  <2>2. ToldIds("FAILURE_INGESTED")' = DOMAIN table'.failure
    BY <1>2, <2>1, IdsTold DEF TrailInv
  <2>3. ToldIds("POLICY_DECISION")' = DOMAIN table'.action
    BY <1>2, <2>1, IdsTold DEF TrailInv
  <2>4. ClassificationsTold' /\ StatusTold'
    BY <1>2, ClassificationTold, MoveTold DEF TrailInv
  <2>5. QED
    BY <2>2, <2>3, <2>4 DEF TrailInv
<1>3. ASSUME NEW c \in Client, WriteExplanation(c) PROVE TrailInv'
  <2>1. audit' = audit \cup {ExplanationReturned} /\ UNCHANGED <<payment, table>>
    BY <1>3 DEF WriteExplanation
  <2>2. ExplanationReturned.event = "AI_OPERATION_COMPLETED"
    BY DEF ExplanationReturned
  <2>3. \A event \in {"FAILURE_INGESTED", "POLICY_DECISION"} :
           {d \in audit' : d.event \in {event} /\ d.id # 0} = {d \in audit : d.event \in {event} /\ d.id # 0}
    BY <2>1, <2>2
  <2>4. /\ ToldIds("FAILURE_INGESTED")' = DOMAIN table'.failure
        /\ ToldIds("POLICY_DECISION")' = DOMAIN table'.action
    BY <2>1, <2>3 DEF TrailInv, ToldIds
  <2>5. ClassificationsTold' /\ StatusTold'
    BY <2>1 DEF TrailInv, ClassificationsTold, StatusTold, ToldOf, Tells
  <2>6. QED
    BY <2>4, <2>5 DEF TrailInv
<1>4. ASSUME NEW c \in Client, Receive(c) \/ Proceed(c) \/ Die(c), ~Write(c), ~WriteExplanation(c)
      PROVE  UNCHANGED <<payment, table, audit>>
  BY <1>4 DEF Receive, ReceiveFailure, ReceiveClassify, ReceiveSuggest, ReceiveResolve,
     ReceiveDecide, ReceiveMessage, ReceiveExplain, Begin, Refuse, stored, Proceed, CheckKey,
     AskModel, ModelFails, LoseRace, AnswerLoser, Die
<1>5. CASE UNCHANGED vars
  BY <1>1, <1>5 DEF vars
<1>6. QED
  BY <1>1, <1>2, <1>3, <1>4, <1>5 DEF Next

\* The trail tells the whole story: every failure, decision and classification has its
\* event, no event speaks of a row that is not there, and the payment is in no recovery
\* status it does not say it was moved to, however requests overlap and die.
THEOREM TrailTellsAll == Spec => []TrailIsTrue
<1>1. Init => TrailInv
  <2> SUFFICES ASSUME Init PROVE TrailInv
    OBVIOUS
  <2>1. audit = {} /\ payment.recovery = "NONE"
    BY DEF Init, NewPayment
  <2>2. DOMAIN table.failure = {} /\ DOMAIN table.action = {} /\ DOMAIN table.classification = {}
    BY DEF Init
  <2>3. ToldIds("FAILURE_INGESTED") = {} /\ ToldIds("POLICY_DECISION") = {}
    BY <2>1 DEF ToldIds
  <2>4. QED
    BY <2>1, <2>2, <2>3 DEF TrailInv, ClassificationsTold, StatusTold
<1>2. TrailInv => TrailIsTrue
  BY DEF TrailInv, ToldIds, ClassificationsTold, StatusTold, ToldOf, TrailIsTrue
<1>3. QED
  BY <1>1, <1>2, TrailNext, IntakeInvariant, PTL DEF Spec

-----------------------------------------------------------------------------
(* Reviews.                                                                 *)

\* Classifications are only added, so what was said of a failure stays said.
LEMMA DiagnosesStay ==
  ASSUME IInv, NEW c \in Client, Write(c), NEW f, NEW sources
  PROVE  Diagnoses(f, sources) \subseteq Diagnoses(f, sources)'
  BY ClassificationsStay DEF Diagnoses

\* While no failure comes and the payment stays under review, what is to be reviewed
\* is what was, until a human has settled it.
LEMMA StillPending ==
  ASSUME IInv, NEW c \in Client, Write(c), NEW f \in Pending,
         table'.failure = table.failure, payment'.recovery = "HUMAN_REVIEW"
  PROVE  f \in Pending' \/ Diagnoses(f, {"HUMAN"})' # {}
<1>1. f = Latest /\ Diagnoses(f, Source) # {}
  BY DEF Pending, Judgeable
<1>2. Latest' = Latest
  BY DEF Latest
<1>3. Diagnoses(f, Source)' # {}
  BY <1>1, DiagnosesStay
<1>4. CASE Diagnoses(f, {"HUMAN"})' = {}
  <2>1. f \in {Latest'}
    BY <1>1, <1>2
  <2>2. QED
    BY <1>3, <1>4, <2>1 DEF Pending, Judgeable, Diagnoses
<1>5. QED
  BY <1>4

\* The transactions that take a review off the list.
LEMMA WriteKeepsReviews ==
  ASSUME IInv, NEW c \in Client, Write(c), NEW f \in Pending
  PROVE  \/ f \in Pending'
         \/ Diagnoses(f, {"HUMAN"})' # {}
         \/ Len(table'.failure) > Len(table.failure)
         \/ payment'.recovery = "HARD_STOPPED"
         \/ request[c].op = "classify" /\ request[c].saw # payment
<1>1. PICK q, t, id : q = request[c] /\ t = Writes[q.op] /\ id = Len(table[t]) + 1
  OBVIOUS
<1>2. /\ q.op \in Op /\ t \in Table /\ \A s \in Table \ {t} : table'[s] = table[s]
      /\ id \in Nat \ {0} /\ DOMAIN table'[t] = 1..id /\ DOMAIN table' = Table
      /\ \A s \in Table : IsSequence(table'[s])
  BY <1>1, Grows
<1>3. payment.recovery = "HUMAN_REVIEW" /\ IsPayment(payment)
  BY DEF Pending, IInv, StoreShape
<1>4. payment' = PaymentAfter(q.op, q.saw, q.row)
  BY <1>1 DEF Write
<1>5. t # "failure" => table'.failure = table.failure
  BY <1>2 DEF Table
<1>6. CASE q.op = "ingest"
  <2>1. t = "failure"
    BY <1>1, <1>6, OpsWrite
  <2>2. id = Len(table.failure) + 1 /\ Len(table.failure) \in Nat
    BY <1>1, <2>1, Numbered DEF Table
  <2>3. /\ Len(table'.failure) \in Nat
        /\ DOMAIN table'.failure = 1..Len(table'.failure)
    BY <1>2, Appended DEF Table
  <2>4. id \in 1..Len(table'.failure)
    BY <1>2, <2>1, <2>3
  <2>5. Len(table'.failure) > Len(table.failure)
    BY <2>2, <2>3, <2>4
  <2>6. QED
    BY <2>5
<1>7. CASE q.op = "classify"
  <2>1. payment' = Classified(q.saw)
    BY <1>4, <1>7 DEF PaymentAfter
  <2>2. CASE q.saw.recovery = "FAILED"
    <3>1. q.saw # payment
      BY <1>3, <2>2
    <3>2. QED
      BY <1>1, <1>7, <3>1
  <2>3. CASE q.saw.recovery # "FAILED"
    <3>1. payment'.recovery = "HUMAN_REVIEW"
      BY <1>3, <2>1, <2>3 DEF Classified
    <3>2. t # "failure"
      BY <1>1, <1>7 DEF Writes
    <3>3. QED
      BY <1>5, <3>1, <3>2, StillPending
  <2>4. QED
    BY <2>2, <2>3
<1>8. CASE q.op = "decide"
  <2>1. payment' = DecidedPayment(q.row.action) /\ t # "failure"
    BY <1>1, <1>4, <1>8 DEF PaymentAfter, Writes
  <2>2. CASE q.row.action = "HARD_STOP"
    BY <1>3, <2>1, <2>2 DEF DecidedPayment, IsPayment
  <2>3. CASE q.row.action # "HARD_STOP"
    <3>1. payment'.recovery = "HUMAN_REVIEW"
      BY <1>3, <2>1, <2>3 DEF DecidedPayment, IsPayment
    <3>2. QED
      BY <1>5, <2>1, <3>1, StillPending
  <2>4. QED
    BY <2>2, <2>3
<1>9. CASE q.op \in {"suggest", "resolve", "message"}
  <2>1. payment' = payment /\ t # "failure"
    BY <1>1, <1>4, <1>9 DEF PaymentAfter, Writes
  <2>2. QED
    BY <1>3, <1>5, <2>1, StillPending
<1>10. QED
  BY <1>2, <1>6, <1>7, <1>8, <1>9 DEF Op

\* A review stays on the list until a human settles it: of the steps only another
\* failure, a hard stop and a classification of what was loaded before take it off.
THEOREM ReviewsWaitForHumans == Spec => ReviewsStay
<1> DEFINE Stays(f) ==
          \/ f \in Pending'
          \/ Diagnoses(f, {"HUMAN"})' # {}
          \/ Len(table'.failure) > Len(table.failure)
          \/ payment'.recovery = "HARD_STOPPED"
          \/ \E c \in Client : request[c].op = "classify" /\ Write(c) /\ request[c].saw # payment
<1>1. ASSUME IInv, [Next]_vars PROVE \A f \in Pending : Stays(f)
  <2> SUFFICES ASSUME NEW f \in Pending PROVE Stays(f)
    OBVIOUS
  <2>1. CASE UNCHANGED <<payment, table>>
    <3>1. Pending' = Pending
      BY <2>1 DEF Pending, Latest, Judgeable, Diagnoses
    <3>2. QED
      BY <3>1
  <2>2. ASSUME NEW c \in Client, Write(c) PROVE Stays(f)
    BY <1>1, <2>2, WriteKeepsReviews
  <2>3. ASSUME NEW c \in Client, Receive(c) \/ Proceed(c) \/ Die(c), ~Write(c)
        PROVE  UNCHANGED <<payment, table>>
    BY <2>3 DEF Receive, ReceiveFailure, ReceiveClassify, ReceiveSuggest, ReceiveResolve,
       ReceiveDecide, ReceiveMessage, ReceiveExplain, Begin, Refuse, stored, Proceed, CheckKey,
       AskModel, ModelFails, LoseRace, AnswerLoser, Die, WriteExplanation
  <2>4. CASE UNCHANGED vars
    BY <2>1, <2>4 DEF vars
  <2>5. QED
    BY <1>1, <2>1, <2>2, <2>3, <2>4 DEF Next
<1>2. ASSUME IInv, [Next]_vars PROVE [\A f \in Pending : Stays(f)]_vars
  BY <1>1, <1>2
<1>3. QED
  BY <1>2, IntakeInvariant, PTL DEF Spec, ReviewsStay

=============================================================================
