----------------------------- MODULE DemoProofs -----------------------------
(***************************************************************************)
(* TLAPS proofs about Demo, for every selection of the dataset, every      *)
(* threshold of the circuit and every size of the batches: what a stage    *)
(* finds done, that the script's circuit opens, and what a reset and the   *)
(* stages leave alone.                                                     *)
(***************************************************************************)
EXTENDS Demo, PolicyProofs

RowState == {"NONE", "PENDING", "SCHEDULED", "EXECUTING", "EXECUTED", "BLOCKED", "CANCELLED"}
JobState == {"none", "queued", "over"}
RowRecord ==
    [failure : BOOLEAN, cause : RootCause \cup {"none"}, action : RecoveryAction \cup {"NONE"},
     state : RowState, job : JobState, outcome : BOOLEAN, attempts : 0..2,
     recovered : BOOLEAN, message : BOOLEAN, suggestion : BOOLEAN]

\* What may be known of payment p: the columns follow from one another, whichever step
\* of whichever run wrote them.
Sound(p, r) ==
    /\ r \in RowRecord
    /\ ~r.failure => r.cause = "none" /\ r.attempts = 0
    /\ r.action # "NONE" => r.cause # "none"
    /\ r.action = "NONE" <=> r.state = "NONE"
    /\ r.state \in {"PENDING", "SCHEDULED", "EXECUTING", "EXECUTED"} => r.action \in Schedulable
    /\ r.state \in {"BLOCKED", "CANCELLED"} => r.action \notin Schedulable
    /\ r.job # "none" \/ r.outcome => r.action \in Schedulable
    /\ ~r.outcome => r.attempts <= 1
    /\ p \in Shown => r.action \in {"NONE", ActionOf[p]}

\* What is done to payment p stays done.
Grown(p, r, s) ==
    /\ r.failure => s.failure
    /\ r.cause = DEMO_PAYMENTS[p].expected => s.cause = DEMO_PAYMENTS[p].expected
    /\ r.action # "NONE" => s.action = r.action
    /\ r.state \notin {"NONE", "PENDING"} => s.state \notin {"NONE", "PENDING"}
    /\ r.message => s.message
    /\ r.suggestion => s.suggestion

Doing == ToSet(Stages) \cup {"nothing", "reset", "resetRest", "drain"}

CircuitRecord == [state : {"CLOSED", "OPEN"}, failures : 0..Threshold, cooled : BOOLEAN]

RowsSound ==
    /\ row = [p \in Pay |-> row[p]]
    /\ \A p \in Pay : Sound(p, row[p])

\* At most payment p is written to, and what was done to it stays done.
Moved(p) ==
    /\ RowsSound'
    /\ \A q \in Pay : q # p => row'[q] = row[q]
    /\ \A q \in Pay : Grown(q, row[q], row'[q])

ControllerFits ==
    /\ controller \in [started : BOOLEAN, stage : ToSet(Stages), error : BOOLEAN]
    /\ controller.stage # "READY" => controller.started

WorkRecord == [doing : Doing, todo : SUBSET Shown, step : {"begin", "add", "mark", "run"}]

\* Between two steps on a payment its row is what the first has made it, whatever the
\* worker does.
WithinPayment ==
    /\ work.step # "begin" => work.todo # {}
    /\ work.step \in {"add", "mark"} =>
          work.doing = "RECOVERY_DECISIONS" /\ row[Current].action \in Schedulable
    /\ work.step = "run" =>
          /\ work.doing \in ExecutingStages
          /\ row[Current].state = "EXECUTING" /\ ~row[Current].outcome

WorkFits ==
    /\ work \in WorkRecord /\ WithinPayment
    /\ work.doing \in ToSet(Stages) => controller.stage = work.doing /\ controller.started
    /\ work.doing = "drain" => controller.stage = "RECOVERY_RESUMED"
    /\ work.doing = "resetRest" => ~loaded /\ \A p \in Shown : row[p] = NewPayment

DInv ==
    /\ RowsSound /\ ControllerFits /\ WorkFits
    /\ gateway \in {"healthy", "storm"}
    /\ circuit \in CircuitRecord

-----------------------------------------------------------------------------
(* The order of things.                                                     *)

\* The stages are counted from one to twelve.
LEMMA StagesCounted ==
  /\ DOMAIN Stages = 1..12
  /\ \A i, j \in 1..12 : Stages[i] = Stages[j] => i = j
  /\ ToSet(Stages) = {"READY", "FAILURES", "CLASSIFICATION", "RECOVERY_DECISIONS",
                      "GATEWAY_STORM", "CIRCUIT_OPEN", "GATEWAY_RECOVERY", "RECOVERY_RESUMED",
                      "AI_MESSAGE", "HUMAN_REVIEW", "RESULTS", "COMPLETE"}
<1>1. DOMAIN Stages = 1..12
  BY DEF Stages
<1>2. \A i \in 1..12 : i \in {1, 2, 3, 4, 5, 6, 7, 8, 9, 10, 11, 12}
  OBVIOUS
<1>3. \A i, j \in 1..12 : Stages[i] = Stages[j] => i = j
  BY <1>2 DEF Stages
<1>4. ToSet(Stages) = {Stages[i] : i \in 1..12}
  BY <1>1 DEF ToSet
<1>5. ToSet(Stages) = {"READY", "FAILURES", "CLASSIFICATION", "RECOVERY_DECISIONS",
                       "GATEWAY_STORM", "CIRCUIT_OPEN", "GATEWAY_RECOVERY", "RECOVERY_RESUMED",
                       "AI_MESSAGE", "HUMAN_REVIEW", "RESULTS", "COMPLETE"}
  BY <1>2, <1>4 DEF Stages
<1>6. QED
  BY <1>1, <1>3, <1>5

\* A stage is at its own position.
LEMMA StageAt ==
  ASSUME NEW i \in 1..12
  PROVE  IndexOf(Stages[i]) = i /\ Stages[i] \in ToSet(Stages)
<1>1. \A j \in DOMAIN Stages : Stages[j] = Stages[i] <=> j = i
  BY StagesCounted
<1>2. i \in DOMAIN Stages
  BY StagesCounted
<1>3. QED
  BY <1>1, <1>2 DEF IndexOf, ToSet

\* The positions of the stages that do the work shown.
LEMMA StagePositions ==
  /\ IndexOf("READY") = 1 /\ IndexOf("FAILURES") = 2 /\ IndexOf("CLASSIFICATION") = 3
  /\ IndexOf("RECOVERY_DECISIONS") = 4 /\ IndexOf("GATEWAY_STORM") = 5
  /\ IndexOf("CIRCUIT_OPEN") = 6 /\ IndexOf("RECOVERY_RESUMED") = 8
  /\ IndexOf("AI_MESSAGE") = 9 /\ IndexOf("HUMAN_REVIEW") = 10 /\ IndexOf("COMPLETE") = 12
<1>1. /\ Stages[1] = "READY" /\ Stages[2] = "FAILURES" /\ Stages[3] = "CLASSIFICATION"
      /\ Stages[4] = "RECOVERY_DECISIONS" /\ Stages[5] = "GATEWAY_STORM"
      /\ Stages[6] = "CIRCUIT_OPEN" /\ Stages[8] = "RECOVERY_RESUMED"
      /\ Stages[9] = "AI_MESSAGE" /\ Stages[10] = "HUMAN_REVIEW" /\ Stages[12] = "COMPLETE"
  BY DEF Stages
<1>2. \A i \in 1..12 : IndexOf(Stages[i]) = i
  BY StageAt
<1>3. QED
  BY <1>1, <1>2

\* A click moves one stage on, and what is reached stays reached.
LEMMA NextStageIsNext ==
  ASSUME NEW stage \in ToSet(Stages), stage # "COMPLETE"
  PROVE  /\ NextStage(stage) \in ToSet(Stages) /\ NextStage(stage) # "READY"
         /\ IndexOf(stage) \in 1..11 /\ IndexOf(NextStage(stage)) = IndexOf(stage) + 1
<1>1. PICK i \in 1..12 : stage = Stages[i]
  BY StagesCounted DEF ToSet
<1>2. IndexOf(stage) = i
  BY <1>1, StageAt
<1>3. i # 12
  <2>1. Stages[12] = "COMPLETE"
    BY DEF Stages
  <2>2. QED
    BY <1>1, <2>1
<1>4. i + 1 \in 1..12 /\ i + 1 # 1 /\ NextStage(stage) = Stages[i + 1]
  BY <1>2, <1>3 DEF NextStage
<1>5. IndexOf(NextStage(stage)) = i + 1 /\ NextStage(stage) \in ToSet(Stages)
  BY <1>4, StageAt
<1>6. QED
  BY <1>2, <1>3, <1>4, <1>5, StagePositions

\* Every stage is somewhere, and two stages are not at one place.
LEMMA StageIndex ==
  ASSUME NEW s \in ToSet(Stages), NEW t \in ToSet(Stages)
  PROVE  IndexOf(s) \in 1..12 /\ (IndexOf(s) = IndexOf(t) => s = t)
<1>1. PICK i \in 1..12, j \in 1..12 : s = Stages[i] /\ t = Stages[j]
  BY StagesCounted DEF ToSet
<1>2. QED
  BY <1>1, StageAt

\* Of payments left, one is the first.
LEMMA FirstIsThere ==
  ASSUME NEW S \in SUBSET Shown, S # {}
  PROVE  \E p \in S : \A q \in S : p <= q
  BY DemoAssumption, FS_Subset, LeastNumber

\* The first payment left is one of those left.
LEMMA CurrentIsLeft ==
  ASSUME DInv, work.todo # {}
  PROVE  Current \in work.todo /\ Current \in Shown /\ Current \in Pay
<1>1. work.todo \in SUBSET Shown
  BY DEF DInv, WorkFits, WorkRecord
<1>2. \E p \in work.todo : \A q \in work.todo : p <= q
  BY <1>1, FirstIsThere
<1>3. QED
  BY <1>1, <1>2 DEF Current, Pay

-----------------------------------------------------------------------------
(* The rows.                                                                *)

\* The dataset has a cause and a decision for every payment of it.
LEMMA DatasetTyped ==
  ASSUME NEW p \in Shown
  PROVE  /\ CauseOf[p] \in RootCause /\ CauseOf[p] = DEMO_PAYMENTS[p].expected
         /\ CauseOf[p] # "none"
         /\ ActionOf[p] \in RecoveryAction /\ ActionOf[p] # "NONE"
<1>1. CauseOf[p] \in RootCause /\ CauseOf[p] = DEMO_PAYMENTS[p].expected
  BY DatasetAssumption
<1>2. CauseOf[p] # "none"
  BY <1>1 DEF RootCause
<1>3. PICK ctx : ctx = FreshContext(DEMO_PAYMENTS[p].failure, Now)
  OBVIOUS
<1>4. Readable(ctx)
  BY <1>3, DemoAssumption DEF FreshContext, Readable
<1>5. Decide(ctx).action \in RecoveryAction
  BY <1>4, DecisionTyped
<1>6. ActionOf[p] \in RecoveryAction
  BY <1>3, <1>5 DEF ActionOf
<1>7. ActionOf[p] # "NONE"
  BY <1>6 DEF RecoveryAction, RetryingActions
<1>8. QED
  BY <1>1, <1>2, <1>6, <1>7

\* A row that is put leaves all others alone, and all that was done stays done.
LEMMA PutMoves ==
  ASSUME RowsSound, NEW p \in Pay, NEW r, Put(p, r), Sound(p, r), Grown(p, row[p], r)
  PROVE  /\ RowsSound' /\ row'[p] = r
         /\ \A q \in Pay : q # p => row'[q] = row[q]
         /\ \A q \in Pay : Grown(q, row[q], row'[q])
<1>1. row'[p] = r /\ \A q \in Pay : q # p => row'[q] = row[q]
  BY DEF RowsSound, Put
<1>2. row' = [q \in Pay |-> row'[q]]
  BY DEF RowsSound, Put
<1>3. \A q \in Pay : q # p => Sound(q, row'[q])
  BY <1>1 DEF RowsSound
<1>4. \A q \in Pay : Grown(q, row[q], row[q])
  BY DEF Grown
<1>5. Sound(p, row'[p]) /\ Grown(p, row[p], row'[p])
  BY <1>1
<1>6. \A q \in Pay : Sound(q, row'[q])
  BY <1>3, <1>5
<1>7. \A q \in Pay : Grown(q, row[q], row'[q])
  BY <1>1, <1>4, <1>5
<1>8. QED
  BY <1>1, <1>2, <1>6, <1>7 DEF RowsSound

\* A payment that failed: its failure and the first attempt.
LEMMA IngestSound ==
  ASSUME NEW p, NEW r, Sound(p, r), ~r.failure, NEW s,
         s = [r EXCEPT !.failure = TRUE, !.attempts = @ + 1]
  PROVE  Sound(p, s) /\ Grown(p, r, s)
<1>1. r \in RowRecord /\ r.attempts = 0 /\ r.cause = "none" /\ r.action = "NONE"
  BY DEF Sound
<1>2. s \in RowRecord
  <2>1. s = [r EXCEPT !.failure = TRUE, !.attempts = 1] /\ 1 \in 0..2
    BY <1>1
  <2>2. QED
    BY <1>1, <2>1, Zenon DEF RowRecord
<1>3. /\ s.failure /\ s.attempts = 1 /\ s.cause = r.cause /\ s.action = r.action
      /\ s.state = r.state /\ s.job = r.job /\ s.outcome = r.outcome
      /\ s.message = r.message /\ s.suggestion = r.suggestion
  BY <1>1 DEF RowRecord
<1>4. QED
  BY <1>1, <1>2, <1>3 DEF Sound, Grown

\* A diagnosis, and the same one again.
LEMMA ClassifySound ==
  ASSUME NEW p \in Shown, NEW r, Sound(p, r), r.failure, NEW s, s = [r EXCEPT !.cause = CauseOf[p]]
  PROVE  Sound(p, s) /\ Grown(p, r, s)
<1>1. r \in RowRecord
  BY DEF Sound
<1>2. s \in RowRecord
  BY <1>1, DatasetTyped DEF RowRecord
<1>3. /\ s.failure = r.failure /\ s.attempts = r.attempts /\ s.cause = CauseOf[p]
      /\ s.action = r.action /\ s.state = r.state /\ s.job = r.job /\ s.outcome = r.outcome
      /\ s.message = r.message /\ s.suggestion = r.suggestion
  BY <1>1 DEF RowRecord
<1>4. QED
  BY <1>2, <1>3, DatasetTyped DEF Sound, Grown

\* A decision, and the same one again.
LEMMA DecideSound ==
  ASSUME NEW p \in Shown, Sound(p, row[p]), row[p].cause # "none"
  PROVE  /\ Sound(p, Decided(p)) /\ Grown(p, row[p], Decided(p))
         /\ Decided(p).action = ActionOf[p]
<1>1. row[p] \in RowRecord
  BY DEF Sound
<1>2. CASE row[p].action = "NONE"
  <2>1. PICK s : s = Decided(p)
    OBVIOUS
  <2>2. s = [row[p] EXCEPT !.action = ActionOf[p], !.state = InitialState(ActionOf[p])]
    BY <1>2, <2>1 DEF Decided
  <2>3. /\ InitialState(ActionOf[p]) \in {"PENDING", "BLOCKED", "CANCELLED"}
        /\ InitialState(ActionOf[p]) = "PENDING" <=> ActionOf[p] \in Schedulable
    BY DatasetTyped DEF InitialState, RecoveryAction, Schedulable, RetryingActions
  <2>4. InitialState(ActionOf[p]) \in RowState
    BY <2>3 DEF RowState
  <2>5. s \in RowRecord
    BY <1>1, <2>2, <2>4, DatasetTyped DEF RowRecord
  <2>6. /\ s.failure = row[p].failure /\ s.attempts = row[p].attempts /\ s.cause = row[p].cause
        /\ s.action = ActionOf[p] /\ s.state = InitialState(ActionOf[p])
        /\ s.job = row[p].job /\ s.outcome = row[p].outcome /\ s.message = row[p].message
        /\ s.suggestion = row[p].suggestion
    BY <1>1, <2>2 DEF RowRecord
  <2>7. row[p].state = "NONE" /\ (~row[p].outcome => row[p].attempts <= 1)
    BY <1>2 DEF Sound
  <2>8. row[p].job = "none" /\ ~row[p].outcome
    BY <1>2 DEF Sound, Schedulable, RetryingActions
  <2>9. Sound(p, s)
    BY <2>3, <2>5, <2>6, <2>7, <2>8, DatasetTyped DEF Sound
  <2>10. Grown(p, row[p], s)
    BY <1>2, <2>6, <2>7 DEF Grown
  <2>11. QED
    BY <2>1, <2>6, <2>9, <2>10
<1>3. CASE row[p].action # "NONE"
  BY <1>3 DEF Decided, Sound, Grown
<1>4. QED
  BY <1>2, <1>3

\* A row with a job, scheduled or claimed, and its job queued or over.
QueueRow(r, to, job) == [r EXCEPT !.state = to, !.job = job]

LEMMA QueueSound ==
  ASSUME NEW p, NEW r, Sound(p, r), r.action \in Schedulable,
         NEW to \in {r.state, "SCHEDULED", "EXECUTING"}, NEW job \in JobState,
         NEW s, s = QueueRow(r, to, job)
  PROVE  /\ Sound(p, s) /\ Grown(p, r, s)
         /\ s.state = to /\ s.action = r.action /\ s.outcome = r.outcome
<1>1. r \in RowRecord /\ r.action # "NONE" /\ r.state # "NONE"
  BY DEF Sound, Schedulable, RetryingActions
<1>2. to \in RowState
  BY <1>1 DEF RowRecord, RowState
<1>3. s \in RowRecord
  BY <1>1, <1>2 DEF RowRecord, QueueRow
<1>4. /\ s.failure = r.failure /\ s.attempts = r.attempts /\ s.cause = r.cause
      /\ s.action = r.action /\ s.state = to /\ s.job = job /\ s.outcome = r.outcome
      /\ s.message = r.message /\ s.suggestion = r.suggestion
  BY <1>1 DEF RowRecord, QueueRow
<1>5. QED
  BY <1>1, <1>3, <1>4 DEF Sound, Grown

\* Its state alone, and its job alone.
LEMMA StateSound ==
  ASSUME NEW p, NEW r, Sound(p, r), r.action \in Schedulable,
         NEW to \in {"SCHEDULED", "EXECUTING"}, NEW s, s = [r EXCEPT !.state = to]
  PROVE  /\ Sound(p, s) /\ Grown(p, r, s)
         /\ s.state = to /\ s.action = r.action /\ s.outcome = r.outcome
<1>1. r \in RowRecord
  BY DEF Sound
<1>2. s = QueueRow(r, to, r.job) /\ r.job \in JobState
  BY <1>1 DEF RowRecord, QueueRow
<1>3. QED
  BY <1>2, QueueSound

LEMMA JobSound ==
  ASSUME NEW p, NEW r, Sound(p, r), r.action \in Schedulable,
         NEW job \in JobState, NEW s, s = [r EXCEPT !.job = job]
  PROVE  /\ Sound(p, s) /\ Grown(p, r, s)
         /\ s.state = r.state /\ s.action = r.action /\ s.outcome = r.outcome
<1>1. r \in RowRecord
  BY DEF Sound
<1>2. s = QueueRow(r, r.state, job)
  BY <1>1 DEF RowRecord, QueueRow
<1>3. QED
  BY <1>2, QueueSound

\* What may be claimed was decided on, and has been charged for once at most.
LEMMA ClaimableSound ==
  ASSUME NEW p, NEW r, Sound(p, r), Claimable(r)
  PROVE  r.action \in Schedulable /\ r.action # "NONE" /\ r.attempts \in 0..1
  BY DEF Sound, RowRecord, Claimable, Schedulable, RetryingActions

\* An execution that comes to its end.
LEMMA DoneSound ==
  ASSUME NEW p, NEW r, Sound(p, r), Claimable(r), NEW answer, NEW s, s = Done(r, answer)
  PROVE  Sound(p, s) /\ Grown(p, r, s)
<1>1. r \in RowRecord /\ r.failure /\ r.cause # "none"
  BY ClaimableSound DEF Sound, RowRecord
<1>2. r.action \in Schedulable /\ r.action # "NONE" /\ r.attempts \in 0..1
  BY ClaimableSound
<1>3. PICK n \in 0..2 : n = IF answer = "SENT" THEN r.attempts ELSE r.attempts + 1
  BY <1>2
<1>4. PICK job \in JobState : job = JobOver(r.job)
  BY <1>1 DEF JobOver, JobState, RowRecord
<1>5. PICK b \in BOOLEAN : b = (answer = "SUCCESS")
  OBVIOUS
<1>6. s = [r EXCEPT !.state = "EXECUTED", !.outcome = TRUE, !.job = job, !.attempts = n,
                    !.recovered = b]
  BY <1>3, <1>4, <1>5 DEF Done
<1>7. s \in RowRecord
  BY <1>1, <1>6, Zenon DEF RowRecord, RowState
<1>8. /\ s.failure = r.failure /\ s.attempts = n /\ s.cause = r.cause
      /\ s.action = r.action /\ s.state = "EXECUTED" /\ s.job = job /\ s.outcome
      /\ s.message = r.message /\ s.suggestion = r.suggestion
  BY <1>1, <1>6 DEF RowRecord
<1>9. QED
  BY <1>1, <1>2, <1>7, <1>8 DEF Sound, Grown

\* The message and the suggestion are flags.
LEMMA FlagSound ==
  ASSUME NEW p, NEW r, Sound(p, r), NEW b \in BOOLEAN, NEW s,
         \/ s = [r EXCEPT !.message = r.message \/ b]
         \/ s = [r EXCEPT !.suggestion = r.suggestion \/ b]
  PROVE  Sound(p, s) /\ Grown(p, r, s)
<1>1. r \in RowRecord
  BY DEF Sound
<1>2. r.message \in BOOLEAN /\ r.suggestion \in BOOLEAN
  BY <1>1 DEF RowRecord
<1>3. s \in RowRecord
  BY <1>1, <1>2, Zenon DEF RowRecord
<1>4. /\ s.failure = r.failure /\ s.attempts = r.attempts /\ s.cause = r.cause
      /\ s.action = r.action /\ s.state = r.state /\ s.job = r.job /\ s.outcome = r.outcome
  BY <1>1 DEF RowRecord
<1>5. (r.message => s.message) /\ (r.suggestion => s.suggestion)
  BY <1>1, <1>2 DEF RowRecord
<1>6. Sound(p, s)
  BY <1>3, <1>4 DEF Sound
<1>7. Grown(p, r, s)
  BY <1>4, <1>5 DEF Grown
<1>8. QED
  BY <1>6, <1>7

\* A failure counts in the window up to the threshold.
LEMMA FailureCounts ==
  ASSUME circuit \in CircuitRecord
  PROVE  /\ AfterFailure \in CircuitRecord
         /\ AfterFailure.cooled = FALSE
         /\ circuit.failures + 1 < Threshold => AfterFailure.failures = circuit.failures + 1
         /\ circuit.failures + 1 >= Threshold => AfterFailure.state = "OPEN"
         /\ AfterFailure.state = "CLOSED" => AfterFailure.failures < Threshold
<1>1. Threshold \in Nat \ {0} /\ circuit.failures \in 0..Threshold
  BY DemoAssumption DEF CircuitRecord
<1>2. PICK n \in 0..Threshold : /\ n = Least(circuit.failures + 1, Threshold)
                                /\ circuit.failures + 1 < Threshold => n = circuit.failures + 1
                                /\ circuit.failures + 1 >= Threshold => n = Threshold
  BY <1>1 DEF Least
<1>3. PICK s \in {"CLOSED", "OPEN"} : /\ s = IF Probes \/ n = Threshold THEN "OPEN" ELSE "CLOSED"
                                      /\ n = Threshold => s = "OPEN"
  OBVIOUS
<1>4. AfterFailure = [state |-> s, failures |-> n, cooled |-> FALSE]
  BY <1>2, <1>3 DEF AfterFailure
<1>5. s = "CLOSED" => n < Threshold
  BY <1>1, <1>2, <1>3
<1>6. AfterFailure \in CircuitRecord
  BY <1>2, <1>3, <1>4, Zenon DEF CircuitRecord
<1>7. AfterFailure.cooled = FALSE /\ AfterFailure.failures = n /\ AfterFailure.state = s
  BY <1>4
<1>8. QED
  BY <1>2, <1>3, <1>5, <1>6, <1>7

\* What the circuit is told leaves it within bounds.
LEMMA CircuitHears ==
  ASSUME circuit \in CircuitRecord, NEW answer
  PROVE  CircuitAfter(answer) \in CircuitRecord
<1>1. Closed \in CircuitRecord
  BY DemoAssumption DEF Closed, CircuitRecord
<1>2. QED
  BY <1>1, FailureCounts DEF CircuitAfter

\* Whoever runs a claimed row puts it off or ends it, and what it tells the circuit is
\* within bounds.
LEMMA RunMoves ==
  ASSUME DInv, NEW p \in Pay, Claimable(row[p]), NEW health, Run(p, health)
  PROVE  Moved(p) /\ circuit' \in CircuitRecord
<1>1. RowsSound /\ Sound(p, row[p]) /\ circuit \in CircuitRecord
  BY DEF DInv, RowsSound
<1>2. PICK answer : answer = Answer(row[p], health)
  OBVIOUS
<1>3. PICK s : /\ Put(p, s) /\ circuit' = CircuitAfter(answer)
               /\ s = Held(row[p]) \/ s = Done(row[p], answer)
  BY <1>2 DEF Run
<1>4. Sound(p, s) /\ Grown(p, row[p], s)
  <2>1. CASE s = Held(row[p])
    BY <1>1, <2>1, ClaimableSound, StateSound DEF Held
  <2>2. CASE s = Done(row[p], answer)
    BY <1>1, <2>2, DoneSound
  <2>3. QED
    BY <1>3, <2>1, <2>2
<1>5. circuit' \in CircuitRecord
  BY <1>1, <1>3, CircuitHears
<1>6. QED
  BY <1>1, <1>3, <1>4, <1>5, PutMoves DEF Moved

-----------------------------------------------------------------------------
(* The steps.                                                               *)

\* The stage works on one payment, or finds nothing to do.
WorksOnCurrent == row' = row \/ (work.todo # {} /\ Moved(Current))

\* A row put within the stage's work.
LEMMA PutCurrent ==
  ASSUME DInv, work.todo # {}, NEW r, Put(Current, r), Sound(Current, r),
         Grown(Current, row[Current], r)
  PROVE  WorksOnCurrent /\ row'[Current] = r
<1>1. Current \in Pay /\ RowsSound
  BY CurrentIsLeft DEF DInv
<1>2. PICK p \in Pay : p = Current
  BY <1>1
<1>3. Moved(p) /\ row'[p] = r
  BY <1>1, <1>2, PutMoves DEF Moved
<1>4. QED
  BY <1>2, <1>3 DEF WorksOnCurrent

\* What is known of the current row.
LEMMA CurrentSound ==
  ASSUME DInv, work.todo # {}
  PROVE  /\ Current \in Shown /\ Current \in Pay /\ Sound(Current, row[Current])
         /\ row[Current] \in RowRecord /\ row = [p \in Pay |-> row[p]]
  BY CurrentIsLeft DEF DInv, RowsSound, Sound

LEMMA IngestMoves ==
  ASSUME DInv, Ingest
  PROVE  WorksOnCurrent
<1> DEFINE p == Current
           r == row[p]
<1>1. work.todo # {} /\ p \in Shown /\ Sound(p, r)
  BY CurrentSound DEF Ingest, Working
<1>2. CASE row' = row
  BY <1>2 DEF WorksOnCurrent
<1>3. CASE ~r.failure /\ Put(p, [r EXCEPT !.failure = TRUE, !.attempts = @ + 1])
  <2>1. PICK s : s = [r EXCEPT !.failure = TRUE, !.attempts = @ + 1]
    OBVIOUS
  <2>2. Sound(p, s) /\ Grown(p, r, s)
    BY <1>1, <1>3, <2>1, IngestSound
  <2>3. QED
    BY <1>1, <1>3, <2>1, <2>2, PutCurrent
<1>4. QED
  BY <1>2, <1>3 DEF Ingest

LEMMA ClassifyMoves ==
  ASSUME DInv, ClassifyFailure
  PROVE  WorksOnCurrent
<1> DEFINE p == Current
           r == row[p]
<1>1. work.todo # {} /\ p \in Shown /\ Sound(p, r)
  BY CurrentSound DEF ClassifyFailure, Working
<1>2. CASE row' = row
  BY <1>2 DEF WorksOnCurrent
<1>3. CASE r.failure /\ Put(p, [r EXCEPT !.cause = CauseOf[p]])
  <2>1. PICK s : s = [r EXCEPT !.cause = CauseOf[p]]
    OBVIOUS
  <2>2. Sound(p, s) /\ Grown(p, r, s)
    BY <1>1, <1>3, <2>1, ClassifySound
  <2>3. QED
    BY <1>1, <1>3, <2>1, <2>2, PutCurrent
<1>4. QED
  BY <1>2, <1>3 DEF ClassifyFailure

LEMMA DecideMoves ==
  ASSUME DInv, DecideNext
  PROVE  WorksOnCurrent
<1>1. work.todo # {} /\ Current \in Shown /\ Sound(Current, row[Current])
  BY CurrentSound DEF DecideNext, Working
<1>2. CASE row' = row
  BY <1>2 DEF WorksOnCurrent
<1>3. CASE row[Current].cause # "none" /\ Put(Current, Decided(Current))
  <2>1. PICK s : s = Decided(Current)
    OBVIOUS
  <2>2. Sound(Current, s) /\ Grown(Current, row[Current], s)
    BY <1>1, <1>3, <2>1, DecideSound
  <2>3. QED
    BY <1>1, <1>3, <2>1, <2>2, PutCurrent
<1>4. QED
  BY <1>2, <1>3 DEF DecideNext

\* The job and the mark: the row has one, the row is scheduled.
LEMMA EnqueueMoves ==
  ASSUME DInv
  PROVE  /\ AddJob => /\ WorksOnCurrent /\ row'[Current].state = row[Current].state
                      /\ row'[Current].outcome = row[Current].outcome
                      /\ row'[Current].action = row[Current].action
         /\ MarkScheduled => /\ WorksOnCurrent /\ row'[Current].state = "SCHEDULED"
                             /\ row'[Current].outcome = row[Current].outcome
<1>1. ASSUME AddJob
      PROVE  /\ WorksOnCurrent /\ row'[Current].state = row[Current].state
             /\ row'[Current].outcome = row[Current].outcome
             /\ row'[Current].action = row[Current].action
  <2>1. /\ work.todo # {} /\ Current \in Shown /\ Sound(Current, row[Current])
        /\ row[Current] \in RowRecord /\ row[Current].action \in Schedulable
    BY <1>1, CurrentSound DEF AddJob, Working, DInv, WorkFits, WithinPayment
  <2>2. CASE row' = row
    BY <2>2 DEF WorksOnCurrent
  <2>3. CASE row' # row
    <3>1. PICK job \in JobState : job = IF row[Current].job = "none" THEN "queued" ELSE row[Current].job
      BY <2>1 DEF RowRecord, JobState
    <3>2. PICK s : s = [row[Current] EXCEPT !.job = job] /\ Put(Current, s)
      BY <1>1, <2>3, <3>1 DEF AddJob
    <3>3. /\ Sound(Current, s) /\ Grown(Current, row[Current], s)
          /\ s.state = row[Current].state /\ s.outcome = row[Current].outcome
          /\ s.action = row[Current].action
      BY <2>1, <3>2, JobSound
    <3>4. QED
      BY <2>1, <3>2, <3>3, PutCurrent
  <2>4. QED
    BY <2>2, <2>3
<1>2. ASSUME MarkScheduled
      PROVE  /\ WorksOnCurrent /\ row'[Current].state = "SCHEDULED"
             /\ row'[Current].outcome = row[Current].outcome
  <2>1. /\ work.todo # {} /\ Sound(Current, row[Current]) /\ row[Current].action \in Schedulable
    BY <1>2, CurrentSound DEF MarkScheduled, Working, DInv, WorkFits, WithinPayment
  <2>2. PICK s : s = [row[Current] EXCEPT !.state = "SCHEDULED"] /\ Put(Current, s)
    BY <1>2 DEF MarkScheduled
  <2>3. /\ Sound(Current, s) /\ Grown(Current, row[Current], s)
        /\ s.state = "SCHEDULED" /\ s.outcome = row[Current].outcome
    BY <2>1, <2>2, StateSound
  <2>4. QED
    BY <2>1, <2>2, <2>3, PutCurrent
<1>3. QED
  BY <1>1, <1>2

\* A claim is refused, and nothing happens to the row, or takes it.
LEMMA ClaimMoves ==
  ASSUME DInv, ClaimNext
  PROVE  /\ WorksOnCurrent /\ work.todo # {} /\ Current \in Pay
         /\ \/ Refused(row[Current]) /\ row' = row /\ Onward
            \/ /\ row'[Current].state = "EXECUTING" /\ ~row'[Current].outcome
               /\ work' = [work EXCEPT !.step = "run"]
<1>1. work.todo # {} /\ Current \in Pay /\ Sound(Current, row[Current])
  BY CurrentSound DEF ClaimNext, Executing, Working
<1>2. CASE Refused(row[Current]) /\ row' = row /\ Onward
  BY <1>1, <1>2 DEF WorksOnCurrent
<1>3. CASE /\ Claimable(row[Current]) /\ Put(Current, [row[Current] EXCEPT !.state = "EXECUTING"])
           /\ work' = [work EXCEPT !.step = "run"]
  <2>1. PICK s : s = [row[Current] EXCEPT !.state = "EXECUTING"] /\ Put(Current, s)
    BY <1>3
  <2>2. /\ Sound(Current, s) /\ Grown(Current, row[Current], s)
        /\ s.state = "EXECUTING" /\ s.outcome = row[Current].outcome
    BY <1>1, <1>3, <2>1, ClaimableSound, StateSound
  <2>3. ~s.outcome
    BY <1>3, <2>2 DEF Claimable
  <2>4. QED
    BY <1>1, <1>3, <2>1, <2>2, <2>3, PutCurrent
<1>4. QED
  BY <1>2, <1>3 DEF ClaimNext

\* A claimed row is run, and nobody has touched it since.
LEMMA ExecuteMoves ==
  ASSUME DInv, RunNext
  PROVE  /\ WorksOnCurrent /\ circuit' \in CircuitRecord
         /\ Current \in work.todo /\ Current \in Pay /\ Claimable(row[Current])
<1>1. /\ work.todo # {} /\ Current \in Pay /\ Current \in work.todo /\ work.step = "run"
  BY CurrentIsLeft DEF RunNext, Executing, Working
<1>2. Claimable(row[Current])
  BY <1>1 DEF DInv, WorkFits, WithinPayment, Claimable
<1>3. PICK p \in Pay : p = Current
  BY <1>1
<1>4. Moved(p) /\ circuit' \in CircuitRecord
  BY <1>2, <1>3, RunMoves DEF RunNext
<1>5. QED
  BY <1>1, <1>2, <1>3, <1>4 DEF WorksOnCurrent

LEMMA WriteMoves ==
  ASSUME DInv, WriteMessage \/ WriteSuggestion
  PROVE  WorksOnCurrent
<1> DEFINE p == Current
           r == row[p]
<1>1. work.todo # {} /\ p \in Shown /\ Sound(p, r)
  BY CurrentSound DEF WriteMessage, WriteSuggestion, Working
<1>2. CASE WriteMessage
  <2>1. PICK b \in BOOLEAN : b = (r.action = "MESSAGE")
    OBVIOUS
  <2>2. PICK s : s = [r EXCEPT !.message = r.message \/ b]
    OBVIOUS
  <2>3. Put(p, s)
    BY <1>2, <2>1, <2>2 DEF WriteMessage
  <2>4. Sound(p, s) /\ Grown(p, r, s)
    BY <1>1, <2>2, FlagSound
  <2>5. QED
    BY <1>1, <2>3, <2>4, PutCurrent
<1>3. CASE WriteSuggestion
  <2>1. PICK b \in BOOLEAN : b = (r.cause = "UNKNOWN")
    OBVIOUS
  <2>2. PICK s : s = [r EXCEPT !.suggestion = r.suggestion \/ b]
    OBVIOUS
  <2>3. Put(p, s)
    BY <1>3, <2>1, <2>2 DEF WriteSuggestion
  <2>4. Sound(p, s) /\ Grown(p, r, s)
    BY <1>1, <2>2, FlagSound
  <2>5. QED
    BY <1>1, <2>3, <2>4, PutCurrent
<1>4. QED
  BY <1>2, <1>3

\* The worker runs, refuses or fails on the job of one payment.  What a request has in
\* hand it does not take, and without a pause it is none of the demo's charges.
LEMMA WorkerMoves ==
  ASSUME DInv, Worker
  PROVE  /\ UNCHANGED <<controller, loaded, gateway, work, prompt>>
         /\ circuit' \in CircuitRecord
         /\ \E p \in Pay :
               /\ Due(p) /\ Moved(p)
               /\ InHand(p) => /\ row'[p].state = row[p].state
                               /\ row'[p].outcome = row[p].outcome
<1>1. UNCHANGED <<controller, loaded, gateway, work, prompt>>
  BY DEF Worker, WorkerExecutes, WorkerRefused, WorkerThrows
<1>2. circuit \in CircuitRecord /\ RowsSound
  BY DEF DInv
<1>3. \A p \in Pay : Due(p) => Sound(p, row[p]) /\ row[p].action \in Schedulable
  BY <1>2 DEF Due, RowsSound, Sound
<1>4. \A p \in Pay : \A s : Put(p, s) /\ Sound(p, s) /\ Grown(p, row[p], s) => Moved(p) /\ row'[p] = s
  BY <1>2, PutMoves DEF Moved
<1>5. CASE WorkerExecutes
  <2>1. PICK p \in Pay : Due(p) /\ Claimable(row[p]) /\ ~InHand(p) /\ Run(p, "healthy")
    BY <1>5 DEF WorkerExecutes
  <2>2. Moved(p) /\ circuit' \in CircuitRecord
    BY <2>1, RunMoves
  <2>3. QED
    BY <1>1, <2>1, <2>2
<1>6. ASSUME NEW p \in Pay, NEW job \in JobState, Due(p), Put(p, [row[p] EXCEPT !.job = job])
      PROVE  Moved(p) /\ row'[p].state = row[p].state /\ row'[p].outcome = row[p].outcome
  <2>1. PICK s : s = [row[p] EXCEPT !.job = job]
    OBVIOUS
  <2>2. /\ Sound(p, s) /\ Grown(p, row[p], s)
        /\ s.state = row[p].state /\ s.outcome = row[p].outcome
    BY <1>3, <1>6, <2>1, JobSound
  <2>3. QED
    BY <1>4, <1>6, <2>1, <2>2
<1>7. CASE WorkerRefused
  <2>1. PICK p \in Pay : Due(p) /\ Put(p, [row[p] EXCEPT !.job = "over"])
    BY <1>7 DEF WorkerRefused
  <2>2. "over" \in JobState /\ circuit' = circuit
    BY <1>7 DEF WorkerRefused, JobState
  <2>3. QED
    BY <1>1, <1>2, <1>6, <2>1, <2>2
<1>8. CASE WorkerThrows
  <2>1. PICK p \in Pay, job \in {"queued", "over"} :
            /\ Due(p)
            /\ \/ Put(p, [row[p] EXCEPT !.job = job]) /\ UNCHANGED circuit
               \/ /\ Claimable(row[p]) /\ ~InHand(p)
                  /\ Put(p, [row[p] EXCEPT !.job = job, !.state = "EXECUTING"])
                  /\ circuit' \in {circuit, CircuitAfter(Answer(row[p], "healthy"))}
    BY <1>8 DEF WorkerThrows
  <2>2. job \in JobState
    BY DEF JobState
  <2>3. circuit' \in CircuitRecord
    BY <1>2, <2>1, CircuitHears
  <2>4. CASE Put(p, [row[p] EXCEPT !.job = job])
    BY <1>1, <1>6, <2>1, <2>2, <2>3, <2>4
  <2>5. CASE ~InHand(p) /\ Put(p, [row[p] EXCEPT !.job = job, !.state = "EXECUTING"])
    <3>1. PICK s : s = QueueRow(row[p], "EXECUTING", job)
      OBVIOUS
    <3>2. Sound(p, s) /\ Grown(p, row[p], s)
      BY <1>3, <2>1, <2>2, <3>1, QueueSound
    <3>3. [row[p] EXCEPT !.job = job, !.state = "EXECUTING"] = s
      BY <1>3, <2>1, <3>1 DEF QueueRow, Sound, RowRecord
    <3>4. Moved(p)
      BY <1>4, <2>5, <3>2, <3>3
    <3>5. QED
      BY <1>1, <2>1, <2>3, <2>5, <3>4
  <2>6. QED
    BY <2>1, <2>4, <2>5
<1>9. QED
  BY <1>5, <1>7, <1>8 DEF Worker

\* Every step but the deletion works on at most one payment, and undoes nothing; and it
\* is the demo's unless the worker runs it.
LEMMA StepMoves ==
  ASSUME DInv, [Next]_vars
  PROVE  DeleteDemoRows \/ WorksOnCurrent \/ (Worker /\ \E p \in Pay : Moved(p))
<1>1. ASSUME row' = row PROVE WorksOnCurrent
  BY <1>1 DEF WorksOnCurrent
<1>2. CASE UNCHANGED vars
  BY <1>1, <1>2 DEF vars
<1>3. CASE Present
  BY <1>1, <1>3 DEF Present, BeginReset, Start, Advance, Drain
<1>4. CASE ResetRest \/ WorkEnds \/ TimePasses \/ ExecutionThrows \/ WorkThrows \/ Restart
  BY <1>1, <1>4 DEF ResetRest, WorkEnds, TimePasses, ExecutionThrows, WorkThrows, Restart
<1>5. CASE \/ Ingest \/ ClassifyFailure \/ DecideNext \/ AddJob \/ MarkScheduled
           \/ ClaimNext \/ RunNext \/ WriteMessage \/ WriteSuggestion
  BY <1>5, IngestMoves, ClassifyMoves, DecideMoves, EnqueueMoves, ClaimMoves, ExecuteMoves,
     WriteMoves
<1>6. CASE Worker
  BY <1>6, WorkerMoves
<1>7. QED
  BY <1>2, <1>3, <1>4, <1>5, <1>6 DEF Next, Proceed

\* The rows of the deletion, and those of the payments that are not the demo's.
LEMMA NewSound ==
  ASSUME NEW p
  PROVE  Sound(p, NewPayment)
<1>1. NewPayment \in RowRecord
  BY DEF NewPayment, RowRecord, RowState, JobState
<1>2. QED
  BY <1>1 DEF Sound, NewPayment, Schedulable, RetryingActions

LEMMA DevSound ==
  ASSUME NEW p, p \notin Shown
  PROVE  Sound(p, DevPayment)
<1>1. PICK r \in RowRecord : r = NewPayment
  BY NewSound DEF Sound
<1>2. DevPayment = [r EXCEPT !.failure = TRUE, !.cause = "ISSUER_TEMPORARY_FAILURE",
                             !.action = "RETRY", !.state = "SCHEDULED", !.job = "queued",
                             !.attempts = 1]
  BY <1>1 DEF DevPayment
<1>3. DevPayment \in RowRecord
  <2>1. /\ "ISSUER_TEMPORARY_FAILURE" \in RootCause /\ "RETRY" \in RecoveryAction
        /\ "SCHEDULED" \in RowState /\ "queued" \in JobState /\ 1 \in 0..2
    BY DEF RootCause, RecoveryAction, RetryingActions, RowState, JobState
  <2>2. QED
    BY <1>2, <2>1 DEF RowRecord
<1>4. /\ DevPayment.failure /\ DevPayment.cause = "ISSUER_TEMPORARY_FAILURE"
      /\ DevPayment.action = "RETRY" /\ DevPayment.state = "SCHEDULED"
      /\ DevPayment.attempts = 1
  BY <1>2 DEF RowRecord
<1>5. QED
  BY <1>3, <1>4 DEF Sound, Schedulable, RetryingActions

\* What stays true of the rows.
LEMMA RowsStaySound ==
  ASSUME DInv, [Next]_vars
  PROVE  RowsSound'
<1>1. CASE DeleteDemoRows
  <2>1. row' = [p \in Pay |-> IF p \in Shown THEN NewPayment ELSE row[p]]
    BY <1>1 DEF DeleteDemoRows
  <2>2. \A p \in Pay : Sound(p, row[p])
    BY DEF DInv, RowsSound
  <2>3. \A p \in Pay : row'[p] = NewPayment \/ row'[p] = row[p]
    BY <2>1
  <2>4. \A p \in Pay : Sound(p, row'[p])
    BY <2>2, <2>3, NewSound
  <2>5. row' = [p \in Pay |-> row'[p]]
    BY <2>1
  <2>6. QED
    BY <2>4, <2>5 DEF RowsSound
<1>2. CASE row' = row
  BY <1>2 DEF DInv, RowsSound
<1>3. QED
  BY <1>1, <1>2, StepMoves DEF WorksOnCurrent, Moved

\* A stage's work is on payments that are played.
LEMMA StageWorkShown ==
  ASSUME NEW stage
  PROVE  StageWork(stage) \in SUBSET Shown
<1>1. \A limit : Batch(limit) \in SUBSET Shown
  BY DEF Batch, Oldest, OpenActions
<1>2. Failures \in SUBSET Shown
  BY DEF Failures
<1>3. DEMO_AI_MESSAGE_PAYMENT_ID \in Shown /\ DEMO_UNKNOWN_PAYMENT_ID \in Shown
  BY DemoAssumption
<1>4. QED
  BY <1>1, <1>2, <1>3 DEF StageWork

\* The work that goes on is part of what there was, and begins with the next payment.
LEMMA OnwardFits ==
  ASSUME WorkFits, Onward, UNCHANGED controller, work.doing # "resetRest"
  PROVE  /\ WorkFits' /\ work'.doing = work.doing /\ work'.todo = work.todo \ {Current}
         /\ work'.step = "begin"
<1>1. /\ work' \in WorkRecord /\ work'.doing = work.doing
      /\ work'.todo = work.todo \ {Current} /\ work'.step = "begin"
  BY DEF WorkFits, WorkRecord, Onward
<1>2. QED
  BY <1>1 DEF WorkFits, WithinPayment

\* The next step of the same payment.
LEMMA WithinFits ==
  ASSUME WorkFits, UNCHANGED controller, work.todo # {},
         NEW step \in {"add", "mark", "run"}, work' = [work EXCEPT !.step = step],
         step \in {"add", "mark"} =>
             work.doing = "RECOVERY_DECISIONS" /\ row'[Current].action \in Schedulable,
         step = "run" =>
             /\ work.doing \in ExecutingStages
             /\ row'[Current].state = "EXECUTING" /\ ~row'[Current].outcome
  PROVE  /\ WorkFits' /\ work'.doing = work.doing /\ work'.todo = work.todo
         /\ work'.step = step /\ Current' = Current
<1>1. /\ work' \in WorkRecord /\ work'.doing = work.doing /\ work'.todo = work.todo
      /\ work'.step = step
  BY DEF WorkFits, WorkRecord
<1>2. Current' = Current
  BY <1>1 DEF Current
<1>3. work.doing # "resetRest"
  BY DEF ExecutingStages
<1>4. QED
  BY <1>1, <1>2, <1>3 DEF WorkFits, WithinPayment

\* Without work, nothing is to fit.
LEMMA NoWorkFits ==
  ASSUME work' = NoWork
  PROVE  WorkFits' /\ work'.doing = "nothing"
<1>1. /\ work' \in WorkRecord /\ work'.doing = "nothing" /\ work'.step = "begin"
  BY DEF NoWork, Doing, WorkRecord
<1>2. "nothing" \notin ToSet(Stages)
  BY StagesCounted
<1>3. QED
  BY <1>1, <1>2 DEF WorkFits, WithinPayment

\* The first state is sound.
LEMMA DemoInit == Init => DInv
<1> SUFFICES ASSUME Init PROVE DInv
  OBVIOUS
<1>1. RowsSound
  <2>1. row = [p \in Pay |-> IF p \in Dev THEN DevPayment ELSE NewPayment]
    BY DEF Init
  <2>2. \A p \in Pay : row[p] = NewPayment \/ (p \in Dev /\ row[p] = DevPayment)
    BY <2>1
  <2>3. \A p \in Dev : p \notin Shown
    BY DemoAssumption
  <2>4. \A p \in Pay : Sound(p, row[p])
    BY <2>2, <2>3, NewSound, DevSound
  <2>5. row = [p \in Pay |-> row[p]]
    BY <2>1
  <2>6. QED
    BY <2>4, <2>5 DEF RowsSound
<1>2. ControllerFits
  BY StagesCounted DEF Init, InitialDemoState, ControllerFits
<1>3. WorkFits
  <2>1. "nothing" \notin ToSet(Stages)
    BY StagesCounted
  <2>2. QED
    BY <2>1 DEF Init, NoWork, WorkFits, WithinPayment, WorkRecord, Doing
<1>4. gateway \in {"healthy", "storm"}
  BY DEF Init
<1>5. circuit \in CircuitRecord
  BY DemoAssumption DEF Init, Closed, CircuitRecord
<1>6. QED
  BY <1>1, <1>2, <1>3, <1>4, <1>5 DEF DInv

\* The controller after every step.
LEMMA ControllerStays ==
  ASSUME DInv, [Next]_vars
  PROVE  ControllerFits'
<1>1. ControllerFits
  BY DEF DInv
<1>2. CASE UNCHANGED controller
  BY <1>1, <1>2 DEF ControllerFits
<1>3. CASE controller' = InitialDemoState \/ controller' = [InitialDemoState EXCEPT !.started = TRUE]
  <2>1. PICK b \in BOOLEAN : controller' = [started |-> b, stage |-> "READY", error |-> FALSE]
    BY <1>3 DEF InitialDemoState
  <2>2. QED
    BY <2>1, StagesCounted DEF ControllerFits
<1>4. CASE Advance
  <2>1. PICK to \in ToSet(Stages) : controller' = [controller EXCEPT !.stage = to]
    BY <1>1, <1>4, NextStageIsNext DEF Advance, ControllerFits
  <2>2. QED
    BY <1>1, <1>4, <2>1 DEF Advance, ControllerFits
<1>5. CASE WorkThrows
  <2>1. \/ controller' = controller
        \/ controller' = [controller EXCEPT !.error = TRUE, !.stage = controller.stage]
    BY <1>5 DEF WorkThrows, StageAfterError
  <2>2. QED
    BY <1>1, <2>1 DEF ControllerFits
<1>6. QED
  BY <1>2, <1>3, <1>4, <1>5
     DEF Next, Proceed, Present, vars, BeginReset, Start, Drain, DeleteDemoRows, ResetRest,
         WorkEnds, Ingest, ClassifyFailure, DecideNext, AddJob, MarkScheduled, ClaimNext,
         RunNext, WriteMessage, WriteSuggestion, ExecutionThrows, Restart, Worker,
         WorkerExecutes, WorkerRefused, WorkerThrows, TimePasses

\* The gateway and the circuit after every step.
LEMMA GatewayStays ==
  ASSUME DInv, [Next]_vars
  PROVE  gateway' \in {"healthy", "storm"} /\ circuit' \in CircuitRecord
<1>1. gateway \in {"healthy", "storm"} /\ circuit \in CircuitRecord
  BY DEF DInv
<1>2. gateway' \in {"healthy", "storm"}
  <2>1. CASE UNCHANGED gateway \/ gateway' = "healthy"
    BY <1>1, <2>1
  <2>2. CASE Advance
    BY <1>1, <2>2 DEF Advance, GatewayAt
  <2>3. CASE TimePasses
    BY <1>1, <2>3 DEF TimePasses
  <2>4. QED
    BY <2>1, <2>2, <2>3
       DEF Next, Proceed, Present, vars, BeginReset, Start, Drain, DeleteDemoRows, ResetRest,
           WorkEnds, Ingest, ClassifyFailure, DecideNext, AddJob, MarkScheduled, ClaimNext,
           RunNext, WriteMessage, WriteSuggestion, ExecutionThrows, WorkThrows, Restart, Worker,
           WorkerExecutes, WorkerRefused, WorkerThrows
<1>3. circuit' \in CircuitRecord
  <2>1. CASE UNCHANGED circuit
    BY <1>1, <2>1
  <2>2. CASE circuit' = Closed
    BY <2>2, DemoAssumption DEF Closed, CircuitRecord
  <2>3. CASE RunNext \/ Worker
    BY <2>3, ExecuteMoves, WorkerMoves
  <2>4. CASE ExecutionThrows
    BY <1>1, <2>4, CircuitHears DEF ExecutionThrows
  <2>5. CASE TimePasses
    <3>1. PICK b \in BOOLEAN : b = (circuit.state = "OPEN")
      OBVIOUS
    <3>2. circuit' = [circuit EXCEPT !.failures = 0, !.cooled = b]
      BY <2>5, <3>1 DEF TimePasses
    <3>3. 0 \in 0..Threshold
      BY DemoAssumption
    <3>4. QED
      BY <1>1, <3>2, <3>3, Zenon DEF CircuitRecord
  <2>6. QED
    BY <2>1, <2>2, <2>3, <2>4, <2>5
       DEF Next, Proceed, Present, vars, BeginReset, Start, Advance, Drain, DeleteDemoRows,
           ResetRest, WorkEnds, Ingest, ClassifyFailure, DecideNext, AddJob, MarkScheduled,
           ClaimNext, WriteMessage, WriteSuggestion, WorkThrows, Restart
<1>4. QED
  BY <1>2, <1>3

\* The work after every step.
LEMMA WorkStays ==
  ASSUME DInv, [Next]_vars
  PROVE  WorkFits'
<1>1. WorkFits /\ ControllerFits /\ RowsSound
  BY DEF DInv
<1>2. CASE work' = NoWork
  BY <1>2, NoWorkFits
<1>3. CASE UNCHANGED <<controller, loaded, row, work>>
  BY <1>1, <1>3 DEF WorkFits, WithinPayment, Current
<1>4. CASE BeginReset
  <2>1. work' = [doing |-> "reset", todo |-> {}, step |-> "begin"]
    BY <1>4 DEF BeginReset, NoWork
  <2>2. "reset" \notin ToSet(Stages)
    BY StagesCounted
  <2>3. QED
    BY <2>1, <2>2 DEF WorkFits, WithinPayment, WorkRecord, Doing
<1>5. CASE Start
  <2>1. /\ work' = work /\ row' = row /\ work.doing = "nothing"
        /\ "nothing" \notin ToSet(Stages)
    BY <1>5, StagesCounted DEF Start, Idle
  <2>2. QED
    BY <1>1, <2>1 DEF WorkFits, WithinPayment, ExecutingStages
<1>6. CASE Advance
  <2>1. PICK to \in ToSet(Stages) :
            /\ controller' = [controller EXCEPT !.stage = to]
            /\ work' = [doing |-> to, todo |-> StageWork(to), step |-> "begin"]
    BY <1>1, <1>6, NextStageIsNext DEF Advance, NoWork, ControllerFits
  <2>2. controller'.stage = to /\ controller'.started
    BY <1>1, <1>6, <2>1 DEF Advance, ControllerFits
  <2>3. to \notin {"drain", "resetRest"}
    BY StagesCounted
  <2>4. work' \in WorkRecord /\ work'.doing = to /\ work'.step = "begin"
    BY <2>1, StageWorkShown DEF Doing, WorkRecord
  <2>5. QED
    BY <2>2, <2>3, <2>4 DEF WorkFits, WithinPayment
<1>7. CASE Drain
  <2>1. work' = [doing |-> "drain", todo |-> Batch(DrainBatch), step |-> "begin"]
    BY <1>7 DEF Drain, NoWork
  <2>2. Batch(DrainBatch) \in SUBSET Shown
    BY DEF Batch, Oldest, OpenActions
  <2>3. "drain" \notin ToSet(Stages)
    BY StagesCounted
  <2>4. work' \in WorkRecord /\ work'.doing = "drain" /\ work'.step = "begin"
    BY <2>1, <2>2 DEF Doing, WorkRecord
  <2>5. controller'.stage = "RECOVERY_RESUMED"
    BY <1>7 DEF Drain
  <2>6. QED
    BY <2>3, <2>4, <2>5 DEF WorkFits, WithinPayment
<1>8. CASE DeleteDemoRows
  <2>1. work' = [work EXCEPT !.doing = "resetRest"] /\ loaded' = FALSE
    BY <1>8 DEF DeleteDemoRows
  <2>2. \A p \in Shown : row'[p] = NewPayment
    BY <1>8 DEF DeleteDemoRows, Pay
  <2>3. "resetRest" \notin ToSet(Stages)
    BY StagesCounted
  <2>4. /\ work' \in WorkRecord /\ work'.doing = "resetRest" /\ work'.step = work.step
    BY <1>1, <2>1 DEF WorkFits, WorkRecord, Doing
  <2>5. work.step = "begin"
    BY <1>1, <1>8 DEF DeleteDemoRows, WorkFits, WithinPayment, WorkRecord, ExecutingStages
  <2>6. QED
    BY <2>1, <2>2, <2>3, <2>4, <2>5 DEF WorkFits, WithinPayment
<1>9. CASE Onward /\ UNCHANGED controller /\ work.doing # "resetRest"
  BY <1>1, <1>9, OnwardFits
<1>10. CASE DecideNext \/ AddJob \/ MarkScheduled \/ ClaimNext \/ RunNext
  <2>1. UNCHANGED controller /\ work.doing # "resetRest" /\ work.todo # {}
    BY <1>10 DEF DecideNext, AddJob, MarkScheduled, ClaimNext, RunNext, Executing, Working,
                 ExecutingStages
  <2>2. CASE Onward
    BY <1>1, <2>1, <2>2, OnwardFits
  <2>3. CASE DecideNext /\ ~Onward
    <3>1. /\ row'[Current].state = "PENDING" /\ work' = [work EXCEPT !.step = "add"]
          /\ work.doing = "RECOVERY_DECISIONS" /\ Current \in Pay
      BY <2>1, <2>3, CurrentIsLeft DEF DecideNext, Working
    <3>2. row'[Current].action \in Schedulable
      BY <3>1, RowsStaySound DEF RowsSound, Sound
    <3>3. QED
      BY <1>1, <2>1, <3>1, <3>2, WithinFits
  <2>4. CASE AddJob /\ ~Onward
    <3>1. /\ work' = [work EXCEPT !.step = "mark"] /\ work.doing = "RECOVERY_DECISIONS"
          /\ row[Current].action \in Schedulable
      BY <1>1, <2>4 DEF AddJob, Working, WorkFits, WithinPayment
    <3>2. row'[Current].action \in Schedulable
      BY <2>4, <3>1, EnqueueMoves
    <3>3. QED
      BY <1>1, <2>1, <3>1, <3>2, WithinFits
  <2>5. CASE ClaimNext /\ ~Onward
    <3>1. /\ row'[Current].state = "EXECUTING" /\ ~row'[Current].outcome
          /\ work' = [work EXCEPT !.step = "run"]
      BY <2>5, ClaimMoves
    <3>2. work.doing \in ExecutingStages
      BY <2>5 DEF ClaimNext, Executing, Working
    <3>3. QED
      BY <1>1, <2>1, <3>1, <3>2, WithinFits
  <2>6. QED
    BY <1>10, <2>2, <2>3, <2>4, <2>5 DEF MarkScheduled, RunNext
<1>11. Ingest \/ ClassifyFailure \/ WriteMessage \/ WriteSuggestion \/ ExecutionThrows
         => Onward /\ UNCHANGED controller /\ work.doing # "resetRest"
  BY DEF Ingest, ClassifyFailure, WriteMessage, WriteSuggestion, ExecutionThrows, Executing,
         Working, ExecutingStages
<1>12. CASE Worker
  <2>1. UNCHANGED <<controller, loaded, work>> /\ Current' = Current
    BY <1>12, WorkerMoves DEF Current
  <2>2. PICK p \in Pay : /\ row[p].job = "queued" /\ Moved(p)
                         /\ InHand(p) => /\ row'[p].state = row[p].state
                                         /\ row'[p].outcome = row[p].outcome
    BY <1>12, WorkerMoves DEF Due
  <2>3. ASSUME work.doing = "resetRest" PROVE \A q \in Shown : row'[q] = NewPayment
    <3>1. \A q \in Shown : row[q] = NewPayment
      BY <1>1, <2>3 DEF WorkFits
    <3>2. p \notin Shown
      BY <2>2, <3>1 DEF NewPayment
    <3>3. QED
      BY <2>2, <3>1, <3>2 DEF Moved, Pay
  <2>4. ASSUME work.step \in {"add", "mark"} PROVE row'[Current].action \in Schedulable
    <3>1. row[Current].action \in Schedulable /\ row[Current].action # "NONE" /\ Current \in Pay
      BY <1>1, <2>4, CurrentIsLeft DEF WorkFits, WithinPayment, Schedulable, RetryingActions
    <3>2. QED
      BY <2>2, <3>1 DEF Moved, Grown
  <2>5. ASSUME work.step = "run"
        PROVE  row'[Current].state = "EXECUTING" /\ ~row'[Current].outcome
    <3>1. /\ row[Current].state = "EXECUTING" /\ ~row[Current].outcome
          /\ work.doing \in ExecutingStages /\ work.todo # {} /\ Current \in Pay
      BY <1>1, <2>5, CurrentIsLeft DEF WorkFits, WithinPayment
    <3>2. InHand(Current)
      BY <2>5, <3>1 DEF InHand, Executing, Working
    <3>3. CASE p = Current
      BY <2>2, <3>1, <3>2, <3>3
    <3>4. CASE p # Current
      BY <2>2, <3>1, <3>4 DEF Moved
    <3>5. QED
      BY <3>3, <3>4
  <2>6. WithinPayment'
    BY <1>1, <2>1, <2>4, <2>5 DEF WorkFits, WithinPayment
  <2>7. QED
    BY <1>1, <2>1, <2>3, <2>6 DEF WorkFits
<1>13. QED
  BY <1>2, <1>3, <1>4, <1>5, <1>6, <1>7, <1>8, <1>9, <1>10, <1>11, <1>12
     DEF Next, Proceed, Present, ResetRest, WorkEnds, WorkThrows, Restart, TimePasses, vars

\* What is known of the demo stays true.
LEMMA DemoStep == DInv /\ [Next]_vars => DInv'
  BY RowsStaySound, ControllerStays, GatewayStays, WorkStays DEF DInv

LEMMA DemoAlways == Spec => []DInv
  BY DemoInit, DemoStep, PTL DEF Spec

-----------------------------------------------------------------------------
(* What holds of every run.                                                 *)

\* The columns of a payment follow from one another, the controller's stage is one of the
\* demo's, and the circuit counts up to its threshold.
THEOREM DemoTyped == Spec => []TypeOK
<1>1. DInv => TypeOK
  <2> SUFFICES ASSUME DInv PROVE TypeOK
    OBVIOUS
  <2>1. /\ controller \in [started : BOOLEAN, stage : ToSet(Stages), error : BOOLEAN]
        /\ controller.stage # "READY" => controller.started
    BY DEF DInv, ControllerFits
  <2>2. ASSUME NEW p \in Shown
        PROVE  /\ row[p].cause # "none" => row[p].failure
               /\ row[p].action # "NONE" => row[p].cause # "none"
               /\ row[p].job # "none" \/ row[p].outcome => row[p].action \in Schedulable
               /\ row[p].job \in {"none", "queued", "over"} /\ row[p].attempts \in 0..2
    <3>1. Sound(p, row[p])
      BY DEF DInv, RowsSound, Pay
    <3>2. QED
      BY <3>1 DEF Sound, RowRecord, JobState
  <2>3. ASSUME NEW p \in Pay PROVE row[p].state \in RowState
    BY DEF DInv, RowsSound, Sound, RowRecord
  <2>4. gateway \in {"healthy", "storm"}
    BY DEF DInv
  <2>5. circuit.state \in {"CLOSED", "OPEN"} /\ circuit.failures \in 0..Threshold
    BY DEF DInv, CircuitRecord
  <2>6. QED
    BY <2>1, <2>2, <2>3, <2>4, <2>5 DEF TypeOK, RowState
<1>2. QED
  BY <1>1, DemoAlways, PTL

\* Only a reset that runs to its end gives the run a clean beginning, and it does: it waits
\* for the deletion, and nothing else can write to the dataset in between.
THEOREM ResetLeavesClean == Spec => ResetCleans
<1>1. DInv /\ [Next]_vars /\ ~prompt /\ prompt'
        => /\ \A p \in Shown : row'[p] = NewPayment
           /\ circuit' = Closed /\ gateway' = "healthy"
  <2> SUFFICES ASSUME DInv, [Next]_vars, ~prompt, prompt'
               PROVE  /\ \A p \in Shown : row'[p] = NewPayment
                      /\ circuit' = Closed /\ gateway' = "healthy"
    OBVIOUS
  <2>1. ResetRest
    BY DEF Next, Proceed, Present, vars, BeginReset, Start, Advance, Drain, DeleteDemoRows,
           WorkEnds, Ingest, ClassifyFailure, DecideNext, AddJob, MarkScheduled, ClaimNext,
           RunNext, WriteMessage, WriteSuggestion, ExecutionThrows, WorkThrows, Restart, Worker,
           WorkerExecutes, WorkerRefused, WorkerThrows, TimePasses
  <2>2. \A p \in Shown : row[p] = NewPayment
    BY <2>1 DEF ResetRest, DInv, WorkFits
  <2>3. QED
    BY <2>1, <2>2 DEF ResetRest
<1>2. QED
  BY <1>1, DemoAlways, PTL DEF Spec, ResetCleans

\* A payment without the demo's prefix is written to by the worker alone, whichever request
\* of the demo is being served.
THEOREM OthersUntouched == Spec => DevUntouched
<1>1. DInv /\ [Next]_vars /\ (\E p \in Dev : row'[p] # row[p]) => work' = work
  <2> SUFFICES ASSUME DInv, [Next]_vars, NEW p \in Dev, row'[p] # row[p]
               PROVE  work' = work
    OBVIOUS
  <2>1. p \in Pay /\ p \notin Shown
    BY DemoAssumption DEF Pay
  <2>2. ~DeleteDemoRows
    BY <2>1 DEF DeleteDemoRows
  <2>3. ~WorksOnCurrent
    BY <2>1, CurrentIsLeft DEF WorksOnCurrent, Moved
  <2>4. Worker
    BY <2>2, <2>3, StepMoves
  <2>5. QED
    BY <2>4, WorkerMoves
<1>2. QED
  BY <1>1, DemoAlways, PTL DEF Spec, DevUntouched

-----------------------------------------------------------------------------
(* What the stages find done.                                               *)

BuildingStages ==
    {"FAILURES", "CLASSIFICATION", "RECOVERY_DECISIONS", "AI_MESSAGE", "HUMAN_REVIEW"}

\* What stage s leaves of payment p.
Finished(s, p, r) ==
    /\ s = "FAILURES" => r.failure
    /\ s = "CLASSIFICATION" => r.cause = DEMO_PAYMENTS[p].expected
    /\ s = "RECOVERY_DECISIONS" => r.state \notin {"NONE", "PENDING"}
    /\ s = "AI_MESSAGE" /\ p = DEMO_AI_MESSAGE_PAYMENT_ID => r.message
    /\ s = "HUMAN_REVIEW" /\ p = DEMO_UNKNOWN_PAYMENT_ID => r.suggestion

\* Payment p is among those stage s has still to go through.
Left(s, p) == work.doing = s /\ p \in work.todo

Built ==
    loaded /\ ~controller.error =>
        \A p \in Shown, s \in BuildingStages : Reached(s) => Left(s, p) \/ Finished(s, p, row[p])

\* What is finished stays so.
LEMMA FinishedStays ==
  ASSUME NEW s, NEW p, NEW r, NEW t, Grown(p, r, t), Finished(s, p, r)
  PROVE  Finished(s, p, t)
  BY DEF Grown, Finished

\* At the beginning nothing was reached.
LEMMA NothingReached ==
  ASSUME NEW s \in BuildingStages, NEW c, c.stage = "READY"
  PROVE  ~(IndexOf(c.stage) >= IndexOf(s)) /\ s \in ToSet(Stages)
<1>1. IndexOf("READY") = 1 /\ IndexOf(s) > 1 /\ IndexOf(s) \in 1..12
  BY StagePositions DEF BuildingStages
<1>2. s \in ToSet(Stages)
  BY StagesCounted DEF BuildingStages
<1>3. QED
  BY <1>1, <1>2

LEMMA BuiltAtReady ==
  ASSUME controller'.stage = "READY"
  PROVE  Built'
  BY NothingReached DEF Built, Reached

\* Steps that neither move the controller nor leave anything of the work undone.
LEMMA BuiltStays ==
  ASSUME Built, UNCHANGED <<controller, loaded>>,
         \A p \in Shown : Grown(p, row[p], row'[p]),
         \A p \in Shown, s \in BuildingStages : Left(s, p) => Left(s, p)'
  PROVE  Built'
<1> SUFFICES ASSUME loaded', ~controller'.error, NEW p \in Shown, NEW s \in BuildingStages, Reached(s)'
             PROVE  Left(s, p)' \/ Finished(s, p, row'[p])
  BY DEF Built
<1>1. Reached(s)
  BY DEF Reached
<1>2. Left(s, p) \/ Finished(s, p, row[p])
  BY <1>1 DEF Built
<1>3. QED
  BY <1>2, FinishedStays

\* The stage finishes the payment it is at.
LEMMA BuiltOnward ==
  ASSUME Built, Onward, UNCHANGED <<controller, loaded>>, WorkFits,
         \A p \in Shown : Grown(p, row[p], row'[p]),
         loaded /\ ~controller.error /\ work.doing \in BuildingStages
            => Finished(work.doing, Current, row'[Current])
  PROVE  Built'
<1> SUFFICES ASSUME loaded', ~controller'.error, NEW p \in Shown, NEW s \in BuildingStages, Reached(s)'
             PROVE  Left(s, p)' \/ Finished(s, p, row'[p])
  BY DEF Built
<1>1. Reached(s) /\ loaded /\ ~controller.error
  BY DEF Reached
<1>2. CASE Finished(s, p, row[p])
  BY <1>2, FinishedStays
<1>3. CASE Left(s, p) /\ p = Current
  BY <1>1, <1>3 DEF Left
<1>4. CASE Left(s, p) /\ p # Current
  <2>1. work'.doing = work.doing /\ work'.todo = work.todo \ {Current}
    BY DEF Onward, WorkFits, WorkRecord
  <2>2. QED
    BY <1>4, <2>1 DEF Left
<1>5. QED
  BY <1>1, <1>2, <1>3, <1>4 DEF Built

\* A stage at work was reached, and so was whatever comes before it.
LEMMA DoingReached ==
  ASSUME DInv, NEW s \in ToSet(Stages), work.doing = s
  PROVE  /\ Reached(s)
         /\ \A t \in ToSet(Stages) : IndexOf(t) <= IndexOf(s) => Reached(t)
<1>1. controller.stage = s
  BY DEF DInv, WorkFits
<1>2. \A t \in ToSet(Stages) : IndexOf(t) \in 1..12
  BY StageIndex
<1>3. QED
  BY <1>1, <1>2 DEF Reached

\* What the stages before have finished of the payment at hand.
LEMMA FoundFinished ==
  ASSUME DInv, Built, loaded, ~controller.error, work.todo # {},
         NEW s \in BuildingStages, work.doing = s,
         NEW t \in BuildingStages, t # s, IndexOf(t) <= IndexOf(s)
  PROVE  Finished(t, Current, row[Current])
<1>1. s \in ToSet(Stages) /\ t \in ToSet(Stages)
  BY StagesCounted DEF BuildingStages
<1>2. Reached(t)
  BY <1>1, DoingReached
<1>3. Current \in Shown
  BY CurrentIsLeft
<1>4. ~Left(t, Current)
  BY DEF Left
<1>5. QED
  BY <1>2, <1>3, <1>4 DEF Built

LEMMA IngestFinishes ==
  ASSUME DInv, Built, loaded, ~controller.error, Ingest
  PROVE  Finished("FAILURES", Current, row'[Current])
<1>1. Current \in Pay /\ Sound(Current, row[Current]) /\ row = [p \in Pay |-> row[p]]
  BY CurrentIsLeft DEF Ingest, Working, DInv, RowsSound
<1>2. row'[Current].failure
  <2>1. CASE row[Current].failure
    BY <2>1 DEF Ingest
  <2>2. CASE ~row[Current].failure
    <3>1. row'[Current] = [row[Current] EXCEPT !.failure = TRUE, !.attempts = @ + 1]
      BY <1>1, <2>2 DEF Ingest, Put
    <3>2. row[Current] \in RowRecord
      BY <1>1 DEF Sound
    <3>3. QED
      BY <3>1, <3>2 DEF RowRecord
  <2>3. QED
    BY <2>1, <2>2
<1>3. QED
  BY <1>2 DEF Finished

LEMMA ClassifyFinishes ==
  ASSUME DInv, Built, loaded, ~controller.error, ClassifyFailure
  PROVE  Finished("CLASSIFICATION", Current, row'[Current])
<1>1. Current \in Pay /\ Current \in Shown /\ Sound(Current, row[Current]) /\ row = [p \in Pay |-> row[p]]
  BY CurrentIsLeft DEF ClassifyFailure, Working, DInv, RowsSound
<1>2. Finished("FAILURES", Current, row[Current])
  BY FoundFinished, StagePositions DEF ClassifyFailure, Working, BuildingStages
<1>3. row'[Current] = [row[Current] EXCEPT !.cause = CauseOf[Current]]
  BY <1>1, <1>2 DEF ClassifyFailure, Put, Finished
<1>4. row'[Current].cause = CauseOf[Current]
  BY <1>1, <1>3 DEF Sound, RowRecord
<1>5. QED
  BY <1>1, <1>4, DatasetTyped DEF Finished

LEMMA DecideFinishes ==
  ASSUME DInv, Built, loaded, ~controller.error
  PROVE  /\ DecideNext /\ Onward => Finished("RECOVERY_DECISIONS", Current, row'[Current])
         /\ AddJob /\ Onward => Finished("RECOVERY_DECISIONS", Current, row'[Current])
         /\ MarkScheduled => Finished("RECOVERY_DECISIONS", Current, row'[Current])
<1>1. ASSUME DecideNext, Onward
      PROVE  row'[Current].state \notin {"NONE", "PENDING"}
  <2>1. /\ Current \in Pay /\ Current \in Shown /\ Sound(Current, row[Current])
        /\ row = [p \in Pay |-> row[p]] /\ work.todo # {} /\ work.step = "begin"
    BY <1>1, CurrentSound DEF DecideNext, Working
  <2>2. Finished("CLASSIFICATION", Current, row[Current])
    BY <1>1, FoundFinished, StagePositions DEF DecideNext, Working, BuildingStages
  <2>3. row[Current].cause # "none"
    BY <2>1, <2>2, DatasetTyped DEF Finished
  <2>4. row'[Current] = Decided(Current)
    BY <1>1, <2>1, <2>3 DEF DecideNext, Put
  <2>5. Sound(Current, row'[Current]) /\ row'[Current].action = ActionOf[Current]
    BY <2>1, <2>3, <2>4, DecideSound
  <2>6. row'[Current].state # "NONE"
    BY <2>1, <2>5, DatasetTyped DEF Sound
  <2>7. row'[Current].state # "PENDING"
    <3>1. ASSUME row'[Current].state = "PENDING" PROVE FALSE
      <4>1. work'.step = "add"
        BY <1>1, <3>1 DEF DecideNext, DInv, WorkFits, WorkRecord
      <4>2. work'.step = "begin"
        BY <1>1 DEF Onward, DInv, WorkFits, WorkRecord
      <4>3. QED
        BY <4>1, <4>2
    <3>2. QED
      BY <3>1
  <2>8. QED
    BY <2>6, <2>7
<1>2. ASSUME AddJob, Onward
      PROVE  row'[Current].state \notin {"NONE", "PENDING"}
  <2>1. /\ work.todo # {} /\ Sound(Current, row[Current])
        /\ row[Current].action \in Schedulable
    BY <1>2, CurrentSound DEF AddJob, Working, DInv, WorkFits, WithinPayment
  <2>2. row[Current].state # "NONE"
    BY <2>1 DEF Sound, Schedulable, RetryingActions
  <2>3. row[Current].state # "PENDING"
    <3>1. ASSUME row[Current].state = "PENDING" PROVE FALSE
      <4>1. work'.step = "mark"
        BY <1>2, <3>1 DEF AddJob, DInv, WorkFits, WorkRecord
      <4>2. work'.step = "begin"
        BY <1>2 DEF Onward, DInv, WorkFits, WorkRecord
      <4>3. QED
        BY <4>1, <4>2
    <3>2. QED
      BY <3>1
  <2>4. QED
    BY <1>2, <2>2, <2>3, EnqueueMoves
<1>3. MarkScheduled => row'[Current].state = "SCHEDULED"
  BY EnqueueMoves
<1>4. QED
  BY <1>1, <1>2, <1>3 DEF Finished

LEMMA WriteFinishes ==
  ASSUME DInv, Built, loaded, ~controller.error
  PROVE  /\ WriteMessage => Finished("AI_MESSAGE", Current, row'[Current])
         /\ WriteSuggestion => Finished("HUMAN_REVIEW", Current, row'[Current])
<1>1. ASSUME WriteMessage, Current = DEMO_AI_MESSAGE_PAYMENT_ID
      PROVE  row'[Current].message
  <2>1. Current \in Pay /\ Current \in Shown /\ Sound(Current, row[Current]) /\ row = [p \in Pay |-> row[p]]
    BY <1>1, CurrentIsLeft DEF WriteMessage, Working, DInv, RowsSound
  <2>2. Finished("RECOVERY_DECISIONS", Current, row[Current])
    BY <1>1, FoundFinished, StagePositions DEF WriteMessage, Working, BuildingStages
  <2>3. row[Current].action = "MESSAGE"
    BY <1>1, <2>1, <2>2, DatasetAssumption DEF Sound, Finished
  <2>4. row'[Current] = [row[Current] EXCEPT !.message = TRUE]
    BY <1>1, <2>1, <2>3 DEF WriteMessage, Put
  <2>5. QED
    BY <2>1, <2>4 DEF Sound, RowRecord
<1>2. ASSUME WriteSuggestion, Current = DEMO_UNKNOWN_PAYMENT_ID
      PROVE  row'[Current].suggestion
  <2>1. Current \in Pay /\ Current \in Shown /\ Sound(Current, row[Current]) /\ row = [p \in Pay |-> row[p]]
    BY <1>2, CurrentIsLeft DEF WriteSuggestion, Working, DInv, RowsSound
  <2>2. Finished("CLASSIFICATION", Current, row[Current])
    BY <1>2, FoundFinished, StagePositions DEF WriteSuggestion, Working, BuildingStages
  <2>3. row[Current].cause = "UNKNOWN"
    BY <1>2, <2>1, <2>2, DatasetAssumption, DatasetTyped DEF Finished
  <2>4. row'[Current] = [row[Current] EXCEPT !.suggestion = TRUE]
    BY <1>2, <2>1, <2>3 DEF WriteSuggestion, Put
  <2>5. QED
    BY <2>1, <2>4 DEF Sound, RowRecord
<1>3. QED
  BY <1>1, <1>2 DEF Finished

\* A click reaches one stage more, whose work is on all the payments it is for.
LEMMA AdvanceBuilds ==
  ASSUME DInv, Built, Advance
  PROVE  Built'
<1> SUFFICES ASSUME loaded', ~controller'.error, NEW p \in Shown, NEW s \in BuildingStages, Reached(s)'
             PROVE  Left(s, p)' \/ Finished(s, p, row'[p])
  BY DEF Built
<1>1. PICK to \in ToSet(Stages) :
          /\ IndexOf(controller.stage) \in 1..11 /\ IndexOf(to) = IndexOf(controller.stage) + 1
          /\ controller' = [controller EXCEPT !.stage = to]
          /\ work' = [doing |-> to, todo |-> StageWork(to), step |-> "begin"]
  BY NextStageIsNext DEF Advance, NoWork, DInv, ControllerFits
<1>2. loaded /\ ~controller.error /\ controller'.stage = to /\ row' = row /\ work.doing = "nothing"
  BY <1>1 DEF Advance, Idle, DInv, ControllerFits
<1>3. \A t \in BuildingStages : t \in ToSet(Stages) /\ t # "nothing" /\ IndexOf(t) \in 1..12
  BY StagesCounted, StageIndex DEF BuildingStages
<1>4. \A t \in BuildingStages : Reached(t) => Finished(t, p, row[p])
  BY <1>2, <1>3 DEF Built, Left
<1>5. CASE Reached(s)
  BY <1>2, <1>4, <1>5
<1>6. CASE ~Reached(s)
  <2>1. IndexOf(s) = IndexOf(to)
    BY <1>1, <1>2, <1>3, <1>6 DEF Reached
  <2>2. s = to
    BY <1>3, <2>1, StageIndex
  <2>3. work'.doing = s /\ work'.todo = StageWork(s)
    BY <1>1, <2>2
  <2>4. CASE s = "FAILURES"
    BY <2>3, <2>4 DEF Left, StageWork
  <2>5. CASE s \in {"CLASSIFICATION", "RECOVERY_DECISIONS"}
    <3>1. Reached("FAILURES")
      BY <1>1, <2>2, <2>5, StagePositions DEF Reached
    <3>2. row[p].failure
      BY <1>4, <3>1 DEF BuildingStages, Finished
    <3>3. p \in StageWork(s)
      BY <2>5, <3>2 DEF StageWork, Failures
    <3>4. QED
      BY <2>3, <3>3 DEF Left
  <2>6. CASE s = "AI_MESSAGE"
    BY <2>3, <2>6 DEF Left, StageWork, Finished
  <2>7. CASE s = "HUMAN_REVIEW"
    BY <2>3, <2>7 DEF Left, StageWork, Finished
  <2>8. QED
    BY <2>4, <2>5, <2>6, <2>7 DEF BuildingStages
<1>7. QED
  BY <1>5, <1>6

\* Every step builds on what was built.
LEMMA BuiltStep ==
  ASSUME DInv, Built, [Next]_vars
  PROVE  Built'
<1>1. WorkFits /\ ControllerFits
  BY DEF DInv
<1>2. \A s \in BuildingStages : s \in ToSet(Stages) /\ s \notin {"nothing", "reset", "resetRest", "drain"}
  BY StagesCounted DEF BuildingStages
<1>3. CASE DeleteDemoRows
  BY <1>3 DEF DeleteDemoRows, Built
<1>4. CASE Start \/ ResetRest \/ Restart
  <2>1. controller'.stage = "READY"
    BY <1>4 DEF Start, ResetRest, Restart, InitialDemoState
  <2>2. QED
    BY <2>1, BuiltAtReady
<1>5. CASE Advance
  BY <1>5, AdvanceBuilds
<1>6. ASSUME ~DeleteDemoRows
      PROVE  \A p \in Shown : Grown(p, row[p], row'[p])
  <2>1. \A p \in Pay : Grown(p, row[p], row[p])
    BY DEF Grown
  <2>2. QED
    BY <1>6, <2>1, StepMoves DEF WorksOnCurrent, Moved, Pay
<1>7. CASE WorkThrows
  <2>1. CASE work.doing \in ToSet(Stages)
    <3>1. controller'.error
      BY <1>1, <1>7, <2>1 DEF WorkThrows, ControllerFits
    <3>2. QED
      BY <3>1 DEF Built
  <2>2. CASE work.doing \notin ToSet(Stages)
    <3>1. UNCHANGED <<controller, loaded>> /\ ~DeleteDemoRows
      BY <1>7, <2>2 DEF WorkThrows, DeleteDemoRows
    <3>2. \A p \in Shown, s \in BuildingStages : ~Left(s, p)
      BY <1>2, <2>2 DEF Left
    <3>3. QED
      BY <1>6, <3>1, <3>2, BuiltStays
  <2>3. QED
    BY <2>1, <2>2
<1>8. CASE BeginReset \/ Drain \/ WorkEnds
  <2>1. UNCHANGED <<controller, loaded>> /\ ~DeleteDemoRows
    BY <1>8 DEF BeginReset, Drain, WorkEnds, DeleteDemoRows, Idle
  <2>2. work.doing = "nothing" \/ work.todo = {}
    BY <1>8 DEF BeginReset, Drain, WorkEnds, Idle
  <2>3. \A p \in Shown, s \in BuildingStages : ~Left(s, p)
    BY <1>2, <2>2 DEF Left
  <2>4. QED
    BY <1>6, <2>1, <2>3, BuiltStays
<1>9. CASE UNCHANGED vars \/ Worker \/ TimePasses
  <2>1. UNCHANGED <<controller, loaded, work>>
    BY <1>9, WorkerMoves DEF vars, TimePasses
  <2>2. DeleteDemoRows => FALSE
    BY <2>1 DEF DeleteDemoRows, DInv, WorkFits
  <2>3. \A p \in Shown, s \in BuildingStages : Left(s, p) => Left(s, p)'
    BY <2>1 DEF Left
  <2>4. QED
    BY <1>6, <2>1, <2>2, <2>3, BuiltStays
<1>10. CASE /\ \/ Ingest \/ ClassifyFailure \/ DecideNext \/ AddJob \/ MarkScheduled
               \/ ClaimNext \/ RunNext \/ WriteMessage \/ WriteSuggestion \/ ExecutionThrows
            /\ Onward
  <2>1. UNCHANGED <<controller, loaded>>
    BY <1>10 DEF Ingest, ClassifyFailure, DecideNext, AddJob, MarkScheduled, ClaimNext,
                 RunNext, WriteMessage, WriteSuggestion, ExecutionThrows
  <2>2. work.doing # "reset"
    BY <1>10 DEF Ingest, ClassifyFailure, DecideNext, AddJob, MarkScheduled, ClaimNext,
                 RunNext, WriteMessage, WriteSuggestion, ExecutionThrows, Executing, Working,
                 ExecutingStages
  <2>3. ~DeleteDemoRows
    BY <2>2 DEF DeleteDemoRows
  <2>4. ASSUME loaded, ~controller.error, work.doing \in BuildingStages
        PROVE  Finished(work.doing, Current, row'[Current])
    <3>1. CASE Ingest
      BY <2>4, <3>1, IngestFinishes DEF Ingest, Working
    <3>2. CASE ClassifyFailure
      BY <2>4, <3>2, ClassifyFinishes DEF ClassifyFailure, Working
    <3>3. CASE DecideNext \/ AddJob \/ MarkScheduled
      BY <1>10, <2>4, <3>3, DecideFinishes DEF DecideNext, AddJob, MarkScheduled, Working
    <3>4. CASE WriteMessage
      BY <2>4, <3>4, WriteFinishes DEF WriteMessage, Working
    <3>5. CASE WriteSuggestion
      BY <2>4, <3>5, WriteFinishes DEF WriteSuggestion, Working
    <3>6. CASE ClaimNext \/ RunNext \/ ExecutionThrows
      BY <2>4, <3>6 DEF ClaimNext, RunNext, ExecutionThrows, Executing, Working,
                        ExecutingStages, BuildingStages
    <3>7. QED
      BY <1>10, <3>1, <3>2, <3>3, <3>4, <3>5, <3>6
  <2>5. QED
    BY <1>1, <1>6, <1>10, <2>1, <2>3, <2>4, BuiltOnward
<1>11. CASE (DecideNext \/ AddJob \/ ClaimNext) /\ ~Onward
  <2>1. /\ UNCHANGED <<controller, loaded>> /\ work.doing # "reset"
        /\ \E step \in {"add", "mark", "run"} : work' = [work EXCEPT !.step = step]
    BY <1>11, ClaimMoves DEF DecideNext, AddJob, ClaimNext, Executing, Working, ExecutingStages
  <2>2. ~DeleteDemoRows
    BY <2>1 DEF DeleteDemoRows
  <2>3. work'.doing = work.doing /\ work'.todo = work.todo
    BY <1>1, <2>1 DEF WorkFits, WorkRecord
  <2>4. \A p \in Shown, s \in BuildingStages : Left(s, p) => Left(s, p)'
    BY <2>3 DEF Left
  <2>5. QED
    BY <1>6, <2>1, <2>2, <2>4, BuiltStays
<1>12. ASSUME \/ Ingest \/ ClassifyFailure \/ MarkScheduled \/ RunNext \/ WriteMessage
              \/ WriteSuggestion \/ ExecutionThrows
       PROVE  Onward
  BY <1>12 DEF Ingest, ClassifyFailure, MarkScheduled, RunNext, WriteMessage, WriteSuggestion,
         ExecutionThrows
<1>13. CASE \/ Ingest \/ ClassifyFailure \/ DecideNext \/ AddJob \/ MarkScheduled
             \/ ClaimNext \/ RunNext \/ WriteMessage \/ WriteSuggestion \/ ExecutionThrows
  <2>1. CASE Onward
    BY <1>10, <1>13, <2>1
  <2>2. CASE ~Onward
    BY <1>11, <1>12, <1>13, <2>2
  <2>3. QED
    BY <2>1, <2>2
<1>14. QED
  BY <1>3, <1>4, <1>5, <1>7, <1>8, <1>9, <1>13 DEF Next, Present, Proceed

\* Whatever earlier runs left half done, and whatever the worker does beside the demo, the
\* stages build on one another: a payment a stage has left is as it announces.
THEOREM StagesBuildOn == Spec => []StagesBuild
<1>1. Init => Built
  BY DEF Init, Built
<1>2. DInv /\ Built => StagesBuild
  <2> SUFFICES ASSUME DInv, Built, Idle, loaded, ~controller.error, NEW p \in Shown
               PROVE  /\ Reached("FAILURES") => row[p].failure
                      /\ Reached("CLASSIFICATION") => row[p].cause = DEMO_PAYMENTS[p].expected
                      /\ Reached("RECOVERY_DECISIONS") => row[p].state \notin {"NONE", "PENDING"}
                      /\ Reached("AI_MESSAGE") /\ p = DEMO_AI_MESSAGE_PAYMENT_ID => row[p].message
                      /\ Reached("HUMAN_REVIEW") /\ p = DEMO_UNKNOWN_PAYMENT_ID => row[p].suggestion
    BY DEF StagesBuild
  <2>1. \A s \in BuildingStages : Reached(s) => Finished(s, p, row[p])
    BY DEF Built, Left, Idle, BuildingStages
  <2>2. QED
    BY <2>1 DEF BuildingStages, Finished
<1>3. DInv /\ Built /\ [Next]_vars => Built'
  BY BuiltStep
<1>4. QED
  BY <1>1, <1>2, <1>3, DemoAlways, PTL DEF Spec

-----------------------------------------------------------------------------
(* The circuit.                                                             *)

\* The charges the storm has left.
Charges == {p \in work.todo : row[p].action \in RetryingActions}

\* Nobody has claimed or executed it.
Untouched(r) == ~r.outcome /\ r.state \notin {"EXECUTING", "EXECUTED"}

\* Once all of what is open has been decided on, and until the storm has gone through it,
\* what it has counted and the charges it has left are enough.
StormCounts ==
    /\ gateway = "storm"
    /\ \A p \in Charges : /\ ~row[p].outcome
                          /\ Open(row[p]) \/ (work.step = "run" /\ p = Current)
    /\ Blocked \/ circuit.failures + Cardinality(Charges) >= Threshold

\* A clean run without a pause, a restart or a throw.
OnScript ==
    prompt =>
        /\ ~controller.error
        /\ controller.started /\ work.doing # "resetRest" => loaded
        /\ ~circuit.cooled /\ (circuit.state = "CLOSED" => circuit.failures < Threshold)
        /\ ~Reached("GATEWAY_STORM") =>
              \A p \in Shown : row[p].action \in RetryingActions => Untouched(row[p])
        /\ work.doing = "GATEWAY_STORM" => StormCounts
        /\ Idle /\ controller.stage = "GATEWAY_STORM" => Blocked

\* A row that is not decided on is untouched.
LEMMA NewUntouched ==
  ASSUME NEW p, NEW r, Sound(p, r), r.action = "NONE"
  PROVE  Untouched(r)
  BY DEF Sound, Untouched, Schedulable, RetryingActions

\* The steps of the stages that decide, enqueue or write touch no charge.
LEMMA DecidingTouchesNothing ==
  ASSUME DInv, DecideNext, Untouched(row[Current])
  PROVE  Untouched(row'[Current])
<1>1. /\ Current \in Pay /\ Current \in Shown /\ Sound(Current, row[Current])
      /\ row = [q \in Pay |-> row[q]] /\ row[Current] \in RowRecord
  BY CurrentSound DEF DecideNext, Working
<1>2. CASE row' = row
  BY <1>2
<1>3. CASE row[Current].cause # "none" /\ Put(Current, Decided(Current))
  <2>1. row'[Current] = Decided(Current)
    BY <1>1, <1>3 DEF Put
  <2>2. CASE row[Current].action = "NONE"
    <3>1. PICK to \in {"PENDING", "BLOCKED", "CANCELLED"} : to = InitialState(ActionOf[Current])
      BY DEF InitialState
    <3>2. Decided(Current) = [row[Current] EXCEPT !.action = ActionOf[Current], !.state = to]
      BY <2>2, <3>1 DEF Decided
    <3>3. Decided(Current).state = to /\ Decided(Current).outcome = row[Current].outcome
      BY <1>1, <3>2 DEF RowRecord
    <3>4. QED
      BY <2>1, <3>3 DEF Untouched
  <2>3. CASE row[Current].action # "NONE"
    BY <2>1, <2>3 DEF Decided
  <2>4. QED
    BY <2>2, <2>3
<1>4. QED
  BY <1>2, <1>3 DEF DecideNext

LEMMA PreparingTouchesNothing ==
  ASSUME DInv, Untouched(row[Current]),
         \/ Ingest \/ ClassifyFailure \/ DecideNext \/ AddJob \/ MarkScheduled
         \/ WriteMessage \/ WriteSuggestion
  PROVE  Untouched(row'[Current])
<1>1. /\ Current \in Pay /\ row = [q \in Pay |-> row[q]] /\ row[Current] \in RowRecord
  BY CurrentSound DEF Ingest, ClassifyFailure, DecideNext, AddJob, MarkScheduled, WriteMessage,
                      WriteSuggestion, Working
<1>2. ASSUME NEW s, Put(Current, s), s.state = row[Current].state, s.outcome = row[Current].outcome
      PROVE  Untouched(row'[Current])
  BY <1>1, <1>2 DEF Put, Untouched
<1>3. CASE row' = row
  BY <1>3
<1>4. CASE row' # row /\ Ingest
  <2>1. PICK s : s = [row[Current] EXCEPT !.failure = TRUE, !.attempts = @ + 1]
    OBVIOUS
  <2>2. Put(Current, s) /\ s.state = row[Current].state /\ s.outcome = row[Current].outcome
    BY <1>1, <1>4, <2>1 DEF Ingest, RowRecord
  <2>3. QED
    BY <1>2, <2>2
<1>5. CASE row' # row /\ ClassifyFailure
  <2>1. PICK s : s = [row[Current] EXCEPT !.cause = CauseOf[Current]] /\ Put(Current, s)
    BY <1>5 DEF ClassifyFailure
  <2>2. QED
    BY <1>1, <1>2, <2>1 DEF RowRecord
<1>6. CASE WriteMessage
  <2>1. PICK b : b = (row[Current].message \/ row[Current].action = "MESSAGE")
    OBVIOUS
  <2>2. PICK s : s = [row[Current] EXCEPT !.message = b] /\ Put(Current, s)
    BY <1>6, <2>1 DEF WriteMessage
  <2>3. QED
    BY <1>1, <1>2, <2>2 DEF RowRecord
<1>7. CASE WriteSuggestion
  <2>1. PICK b : b = (row[Current].suggestion \/ row[Current].cause = "UNKNOWN")
    OBVIOUS
  <2>2. PICK s : s = [row[Current] EXCEPT !.suggestion = b] /\ Put(Current, s)
    BY <1>7, <2>1 DEF WriteSuggestion
  <2>3. QED
    BY <1>1, <1>2, <2>2 DEF RowRecord
<1>8. CASE AddJob \/ MarkScheduled
  BY <1>8, EnqueueMoves DEF Untouched
<1>9. QED
  BY <1>3, <1>4, <1>5, <1>6, <1>7, <1>8, DecidingTouchesNothing

\* So before the storm every charge is untouched, whatever is decided now.
LEMMA ChargesUntouched ==
  ASSUME DInv, NEW p \in Shown, row[p].action \in RetryingActions => Untouched(row[p]),
         \/ Ingest \/ ClassifyFailure \/ DecideNext \/ AddJob \/ MarkScheduled
         \/ WriteMessage \/ WriteSuggestion,
         row'[p].action \in RetryingActions
  PROVE  Untouched(row'[p])
<1>1. WorksOnCurrent /\ p \in Pay
  BY IngestMoves, ClassifyMoves, DecideMoves, EnqueueMoves, WriteMoves DEF Pay
<1>2. Sound(p, row[p])
  BY <1>1 DEF DInv, RowsSound
<1>3. row[p].action # "NONE" => row'[p].action = row[p].action
  BY <1>1 DEF WorksOnCurrent, Moved, Grown
<1>4. Untouched(row[p])
  BY <1>2, <1>3, NewUntouched
<1>5. CASE row'[p] = row[p]
  BY <1>4, <1>5
<1>6. CASE p = Current
  BY <1>4, <1>6, PreparingTouchesNothing
<1>7. QED
  BY <1>1, <1>5, <1>6 DEF WorksOnCurrent, Moved

\* The circuit that has not cooled hears nothing but failures.
LEMMA CircuitOnScript ==
  ASSUME circuit \in CircuitRecord, ~circuit.cooled,
         circuit.state = "CLOSED" => circuit.failures < Threshold, NEW answer
  PROVE  /\ CircuitAfter(answer) = IF answer = "GATEWAY_FAILURE" THEN AfterFailure ELSE circuit
         /\ ~CircuitAfter(answer).cooled
         /\ CircuitAfter(answer).state = "CLOSED" => CircuitAfter(answer).failures < Threshold
<1>1. ~Probes
  BY DEF Probes
<1>2. CircuitAfter(answer) = IF answer = "GATEWAY_FAILURE" THEN AfterFailure ELSE circuit
  BY <1>1 DEF CircuitAfter
<1>3. QED
  BY <1>2, FailureCounts

\* Without a pause the worker takes none of the demo's charges, and its gateway is well.
LEMMA WorkerOnScript ==
  ASSUME DInv, OnScript, prompt, Worker
  PROVE  /\ UNCHANGED <<controller, loaded, gateway, circuit, work, prompt>>
         /\ \A p \in Shown : \/ row'[p] = row[p]
                             \/ row[p].action = "MESSAGE" /\ row'[p].action = "MESSAGE"
<1>1. /\ circuit \in CircuitRecord /\ ~circuit.cooled
      /\ circuit.state = "CLOSED" => circuit.failures < Threshold
  BY DEF DInv, OnScript
<1>2. \A r : Answer(r, "healthy") # "GATEWAY_FAILURE"
  BY DEF Answer, GatewayAnswer
<1>3. \A r : CircuitAfter(Answer(r, "healthy")) = circuit
  BY <1>1, <1>2, CircuitOnScript
<1>4. UNCHANGED circuit
  <2>1. CASE WorkerExecutes
    BY <1>3, <2>1 DEF WorkerExecutes, Run
  <2>2. CASE WorkerRefused
    BY <2>2 DEF WorkerRefused
  <2>3. CASE WorkerThrows
    BY <1>3, <2>3 DEF WorkerThrows
  <2>4. QED
    BY <2>1, <2>2, <2>3 DEF Worker
<1>5. PICK p \in Pay : Due(p) /\ Moved(p)
  BY WorkerMoves
<1>6. p \in Shown => row[p].action = "MESSAGE" /\ row'[p].action = "MESSAGE"
  BY <1>5 DEF Due, Moved, Grown
<1>7. \A q \in Shown : q # p => row'[q] = row[q]
  BY <1>5 DEF Moved, Pay
<1>8. QED
  BY <1>4, <1>6, <1>7, WorkerMoves

\* The oldest of more are among the oldest of fewer.
LEMMA OldestOfFewer ==
  ASSUME NEW limit \in Nat, NEW S \in SUBSET Shown, NEW T \in SUBSET S
  PROVE  Oldest(limit, S) \cap T \subseteq Oldest(limit, T)
<1> SUFFICES ASSUME NEW p \in T, Cardinality({q \in S : q < p}) < limit
             PROVE  Cardinality({q \in T : q < p}) < limit
  BY DEF Oldest
<1> DEFINE more == {q \in S : q < p}
           fewer == {q \in T : q < p}
<1>1. IsFiniteSet(more) /\ fewer \in SUBSET more
  <2>1. IsFiniteSet(Shown) /\ more \in SUBSET Shown
    BY DemoAssumption
  <2>2. QED
    BY <2>1, FS_Subset
<1>2. Cardinality(fewer) <= Cardinality(more) /\ Cardinality(more) \in Nat /\ Cardinality(fewer) \in Nat
  BY <1>1, FS_Subset, FS_CardinalityType
<1>3. QED
  BY <1>2

\* What the storm finds: on a clean run the dataset's charges, enough of them.
LEMMA StormFinds ==
  ASSUME DInv, Built, OnScript, prompt, Advance, controller.stage = "RECOVERY_DECISIONS"
  PROVE  StormCounts'
<1> DEFINE schedulable == {p \in Shown : ActionOf[p] \in Schedulable}
           storm == {p \in Oldest(StormBatch, schedulable) : ActionOf[p] \in RetryingActions}
<1>1. loaded /\ ~controller.error /\ work.doing = "nothing" /\ row' = row
  BY DEF Advance, Idle, OnScript
<1>2. ~Reached("GATEWAY_STORM") /\ Reached("RECOVERY_DECISIONS")
  BY StagePositions DEF Reached
<1>3. ASSUME NEW p \in Shown
      PROVE  /\ row[p].action = ActionOf[p]
             /\ Open(row[p]) => ActionOf[p] \in Schedulable
             /\ ActionOf[p] \in RetryingActions => Open(row[p]) /\ ~row[p].outcome
  <2>1. Sound(p, row[p]) /\ row[p].state \in RowState
    BY DEF DInv, RowsSound, Pay, Sound, RowRecord
  <2>2. row[p].state \notin {"NONE", "PENDING"}
    BY <1>1, <1>2 DEF Built, Left, BuildingStages, Finished
  <2>3. row[p].action = ActionOf[p] /\ (Open(row[p]) => ActionOf[p] \in Schedulable)
    BY <2>1, <2>2 DEF Sound, Open
  <2>4. ASSUME ActionOf[p] \in RetryingActions
        PROVE  Open(row[p]) /\ ~row[p].outcome
    <3>1. Untouched(row[p])
      BY <1>2, <2>3, <2>4 DEF OnScript
    <3>2. row[p].state \notin {"BLOCKED", "CANCELLED"}
      BY <2>1, <2>3, <2>4 DEF Sound, Schedulable
    <3>3. QED
      BY <2>1, <2>2, <3>1, <3>2 DEF Untouched, RowState, Open
  <2>5. QED
    BY <2>3, <2>4
<1>4. OpenActions \in SUBSET schedulable /\ schedulable \in SUBSET Shown
  BY <1>3 DEF OpenActions
<1>5. storm \subseteq OpenActions
  BY <1>3 DEF Oldest, OpenActions
<1>6. storm \subseteq Batch(StormBatch)
  <2>1. Oldest(StormBatch, schedulable) \cap OpenActions \subseteq Oldest(StormBatch, OpenActions)
    BY <1>4, OldestOfFewer, DemoAssumption
  <2>2. QED
    BY <1>5, <2>1 DEF Batch
<1>7. NextStage(controller.stage) = "GATEWAY_STORM"
  <2>1. NextStage("RECOVERY_DECISIONS") = Stages[5]
    BY StagePositions DEF NextStage
  <2>2. QED
    BY <2>1 DEF Stages
<1>8. /\ work' = [doing |-> "GATEWAY_STORM", todo |-> Batch(StormBatch), step |-> "begin"]
      /\ gateway' = "storm"
  BY <1>7 DEF Advance, StageWork, GatewayAt, NoWork
<1>9. Batch(StormBatch) \in SUBSET OpenActions
  BY DEF Batch, Oldest
<1>10. Charges' = {p \in Batch(StormBatch) : row[p].action \in RetryingActions}
  BY <1>1, <1>8 DEF Charges
<1>11. storm \subseteq Charges' /\ Charges' \in SUBSET Shown
  BY <1>3, <1>6, <1>9, <1>10 DEF OpenActions
<1>12. IsFiniteSet(Charges')
  BY <1>11, DemoAssumption, FS_Subset
<1>13. PICK n, m \in Nat : n = Cardinality(Charges') /\ m = Cardinality(storm) /\ m <= n
  BY <1>11, <1>12, FS_Subset, FS_CardinalityType
<1>14. m >= Threshold
  BY <1>13, DatasetAssumption
<1>15. circuit'.failures \in 0..Threshold
  BY DEF Advance, DInv, CircuitRecord
<1>16. circuit'.failures + Cardinality(Charges') >= Threshold
  BY <1>13, <1>14, <1>15, DemoAssumption
<1>17. \A p \in Charges' : Open(row'[p]) /\ ~row'[p].outcome
  BY <1>1, <1>3, <1>10, <1>11
<1>18. QED
  BY <1>8, <1>16, <1>17 DEF StormCounts

\* A claim takes a charge in hand; what it leaves alone is no charge.
LEMMA StormClaims ==
  ASSUME DInv, OnScript, prompt, ClaimNext, work.doing = "GATEWAY_STORM"
  PROVE  StormCounts'
<1>1. /\ WorksOnCurrent /\ Current \in work.todo /\ Current \in Pay /\ work.step = "begin"
      /\ work.todo \in SUBSET Shown /\ StormCounts /\ WorkFits
  BY ClaimMoves, CurrentIsLeft DEF ClaimNext, Executing, Working, OnScript, DInv, WorkFits, WorkRecord
<1>2. UNCHANGED <<gateway, circuit>>
  BY DEF ClaimNext
<1>3. \A q \in work.todo : q # Current => row'[q] = row[q]
  BY <1>1 DEF WorksOnCurrent, Moved, Pay
<1>4. \A q \in Charges : Open(row[q]) /\ ~row[q].outcome
  BY <1>1 DEF StormCounts
<1>5. CASE Refused(row[Current]) /\ row' = row /\ Onward
  <2>1. Current \notin Charges
    BY <1>4, <1>5 DEF Refused, Open
  <2>2. work'.todo = work.todo \ {Current}
    BY <1>1, <1>5 DEF Onward, WorkFits, WorkRecord
  <2>3. Charges' = Charges
    BY <1>5, <2>1, <2>2 DEF Charges
  <2>4. QED
    BY <1>1, <1>2, <1>4, <1>5, <2>3 DEF StormCounts, Blocked
<1>6. CASE /\ row'[Current].state = "EXECUTING" /\ ~row'[Current].outcome
           /\ work' = [work EXCEPT !.step = "run"]
  <2>1. work'.todo = work.todo /\ work'.step = "run"
    BY <1>1, <1>6 DEF WorkFits, WorkRecord
  <2>2. Current' = Current
    BY <2>1 DEF Current
  <2>3. row'[Current].action = row[Current].action
    <3>1. Claimable(row[Current])
      BY <1>1, <1>6, <2>1 DEF ClaimNext, Onward, WorkFits, WorkRecord
    <3>2. row[Current].action # "NONE"
      BY <1>1, <3>1, ClaimableSound DEF DInv, RowsSound
    <3>3. QED
      BY <1>1, <3>2 DEF WorksOnCurrent, Moved, Grown
  <2>4. Charges' = Charges
    BY <1>3, <2>1, <2>3 DEF Charges
  <2>5. \A q \in Charges : ~row'[q].outcome /\ (Open(row'[q]) \/ q = Current)
    BY <1>3, <1>4, <1>6 DEF Charges
  <2>6. QED
    BY <1>1, <1>2, <2>1, <2>2, <2>4, <2>5 DEF StormCounts, Blocked
<1>7. QED
  BY <1>5, <1>6, ClaimMoves

\* One charge less to come is one failure more, or the circuit is open.
LEMMA StormGoesOn ==
  ASSUME DInv, OnScript, prompt, RunNext, work.doing = "GATEWAY_STORM"
  PROVE  StormCounts'
<1>1. /\ work.todo \in SUBSET Shown /\ Current \in work.todo /\ Current \in Pay
      /\ circuit \in CircuitRecord
  BY ExecuteMoves DEF DInv, WorkFits, WorkRecord
<1>2. PICK p \in Pay : p = Current
  BY <1>1
<1>3. /\ StormCounts /\ ~circuit.cooled
      /\ circuit.state = "CLOSED" => circuit.failures < Threshold
  BY DEF OnScript
<1>4. work'.todo = work.todo \ {p} /\ gateway = "storm" /\ gateway' = "storm" /\ p \in work.todo
  BY <1>1, <1>2, <1>3 DEF RunNext, Onward, StormCounts, DInv, WorkFits, WorkRecord
<1>5. Claimable(row[p]) /\ Run(p, "storm")
  BY <1>2, <1>4, ExecuteMoves DEF RunNext
<1>6. /\ \A q \in work.todo : q # p => row'[q] = row[q]
  BY <1>1, <1>2, ExecuteMoves DEF WorksOnCurrent, Moved, Pay
<1>7. /\ \A q \in Charges' : Open(row'[q]) /\ ~row'[q].outcome
      /\ Charges' = Charges \ {p}
  BY <1>2, <1>3, <1>4, <1>6 DEF StormCounts, Charges
<1>8. IsFiniteSet(Charges) /\ IsFiniteSet(Charges')
  <2>1. Charges \in SUBSET Shown /\ Charges' \in SUBSET Charges /\ IsFiniteSet(Shown)
    BY <1>1, <1>7, DemoAssumption DEF Charges
  <2>2. QED
    BY <2>1, FS_Subset
<1>9. PICK n, m \in Nat : /\ n = Cardinality(Charges) /\ m = Cardinality(Charges')
                          /\ m = IF p \in Charges THEN n - 1 ELSE n
  BY <1>7, <1>8, FS_CardinalityType, FS_RemoveElement
<1>10. CASE row[p].action = "MESSAGE" /\ UNCHANGED circuit
  <2>1. p \notin Charges
    BY <1>10 DEF Charges, RetryingActions
  <2>2. Blocked \/ circuit.failures + n >= Threshold
    BY <1>3, <1>9 DEF StormCounts
  <2>3. Blocked' \/ circuit'.failures + m >= Threshold
    BY <1>9, <1>10, <2>1, <2>2 DEF Blocked
  <2>4. QED
    BY <1>4, <1>7, <1>9, <2>3 DEF StormCounts
<1>11. CASE Blocked /\ UNCHANGED circuit
  BY <1>4, <1>7, <1>11 DEF StormCounts, Blocked
<1>12. CASE ~Blocked /\ circuit' = AfterFailure
  <2>1. circuit.failures \in 0..Threshold /\ Threshold \in Nat /\ ~circuit'.cooled
    BY <1>1, <1>12, DemoAssumption, FailureCounts DEF CircuitRecord
  <2>2. circuit.failures + n >= Threshold
    BY <1>3, <1>9, <1>12 DEF StormCounts
  <2>3. CASE circuit.failures + 1 >= Threshold
    <3>1. Blocked'
      BY <1>1, <1>12, <2>1, <2>3, FailureCounts DEF Blocked
    <3>2. QED
      BY <1>4, <1>7, <3>1 DEF StormCounts
  <2>4. CASE circuit.failures + 1 < Threshold
    <3>1. circuit'.failures = circuit.failures + 1
      BY <1>1, <1>12, <2>4, FailureCounts
    <3>2. circuit'.failures + m >= Threshold
      BY <1>9, <2>1, <2>2, <3>1
    <3>3. QED
      BY <1>4, <1>7, <1>9, <3>2 DEF StormCounts
  <2>5. QED
    BY <2>1, <2>3, <2>4
<1>13. circuit' = CircuitAfter(Answer(row[p], "storm"))
  BY <1>5 DEF Run
<1>14. /\ row[p].action = "MESSAGE" => Answer(row[p], "storm") = "SENT"
       /\ row[p].action # "MESSAGE" =>
             Answer(row[p], "storm") = IF Blocked THEN "BLOCKED" ELSE "GATEWAY_FAILURE"
  BY DEF Answer, GatewayAnswer
<1>15. QED
  BY <1>1, <1>3, <1>10, <1>11, <1>12, <1>13, <1>14, CircuitOnScript

\* What the worker does meanwhile is no charge of the storm's.
LEMMA StormUndisturbed ==
  ASSUME DInv, OnScript, prompt, Worker, work.doing = "GATEWAY_STORM"
  PROVE  StormCounts'
<1>1. StormCounts /\ work.todo \in SUBSET Shown
  BY DEF OnScript, DInv, WorkFits, WorkRecord
<1>2. UNCHANGED <<gateway, circuit, work>> /\ Current' = Current
  BY WorkerOnScript DEF Current
<1>3. \A q \in work.todo : \/ row'[q] = row[q]
                           \/ /\ row[q].action \notin RetryingActions
                              /\ row'[q].action \notin RetryingActions
  BY <1>1, WorkerOnScript DEF RetryingActions
<1>4. Charges' = Charges /\ \A q \in Charges : row'[q] = row[q]
  BY <1>2, <1>3 DEF Charges
<1>5. QED
  BY <1>1, <1>2, <1>4 DEF StormCounts, Blocked

\* A clean run stays on the script, unless a step takes it off.
LEMMA ScriptStep ==
  ASSUME DInv, Built, OnScript, [Next]_vars
  PROVE  OnScript'
<1> SUFFICES ASSUME prompt' PROVE OnScript'
  BY DEF OnScript
<1>1. WorkFits /\ ControllerFits /\ \A p \in Shown : p \in Pay
  BY DEF DInv, Pay
<1>2. /\ IndexOf("READY") = 1 /\ IndexOf("RECOVERY_DECISIONS") = 4 /\ IndexOf("GATEWAY_STORM") = 5
      /\ \A s \in ToSet(Stages) : IndexOf(s) \in 1..12
      /\ "GATEWAY_STORM" \in ToSet(Stages) /\ "RECOVERY_DECISIONS" \in ToSet(Stages)
  BY StagePositions, StageIndex, StagesCounted
<1>3. CASE ResetRest
  <2>1. /\ work'.doing = "nothing" /\ controller' = InitialDemoState /\ circuit' = Closed /\ row' = row
        /\ \A p \in Shown : row[p] = NewPayment
    BY <1>1, <1>3 DEF ResetRest, NoWork, WorkFits
  <2>2. Threshold > 0
    BY DemoAssumption
  <2>3. QED
    BY <2>1, <2>2 DEF InitialDemoState, Closed, NewPayment, OnScript, Untouched
<1>4. prompt \/ ResetRest
  BY DEF Next, Proceed, Present, vars, BeginReset, Start, Advance, Drain, DeleteDemoRows,
         ResetRest, WorkEnds, Ingest, ClassifyFailure, DecideNext, AddJob, MarkScheduled,
         ClaimNext, RunNext, WriteMessage, WriteSuggestion, ExecutionThrows, WorkThrows,
         Restart, Worker, WorkerExecutes, WorkerRefused, WorkerThrows, TimePasses
<1>5. CASE prompt /\ UNCHANGED vars
  BY <1>5 DEF vars, OnScript, Reached, StormCounts, Idle, Blocked, Charges, Current
<1>6. CASE prompt /\ Start
  <2>1. /\ work'.doing = "nothing" /\ controller'.error = FALSE /\ controller'.stage = "READY"
        /\ loaded' /\ row' = row /\ circuit' = circuit
        /\ \A p \in Shown : row[p] = NewPayment
    BY <1>6 DEF Start, Idle, InitialDemoState
  <2>2. QED
    BY <1>6, <2>1 DEF OnScript, NewPayment, Untouched
<1>7. CASE prompt /\ (BeginReset \/ Drain)
  <2>1. /\ work'.doing \in {"reset", "drain"} /\ work.doing = "nothing"
        /\ UNCHANGED <<controller, loaded, row, circuit>>
    BY <1>7 DEF BeginReset, Drain, Idle, NoWork
  <2>2. QED
    BY <1>7, <2>1 DEF OnScript, Reached, Idle
<1>8. CASE prompt /\ DeleteDemoRows
  <2>1. /\ work'.doing = "resetRest" /\ UNCHANGED <<controller, circuit>>
        /\ \A p \in Shown : row'[p] = NewPayment
    BY <1>1, <1>8 DEF DeleteDemoRows, WorkFits, WorkRecord
  <2>2. QED
    BY <1>8, <2>1 DEF OnScript, Idle, NewPayment, Untouched
<1>9. CASE prompt /\ Advance
  <2>1. PICK to \in ToSet(Stages) :
            /\ to = NextStage(controller.stage)
            /\ IndexOf(controller.stage) \in 1..11 /\ IndexOf(to) = IndexOf(controller.stage) + 1
            /\ controller' = [controller EXCEPT !.stage = to]
            /\ work' = [doing |-> to, todo |-> StageWork(to), step |-> "begin"]
    BY <1>9, NextStageIsNext DEF Advance, NoWork, DInv, ControllerFits
  <2>2. /\ controller'.stage = to /\ controller'.error = controller.error
        /\ controller'.started = controller.started /\ work'.doing = to
        /\ UNCHANGED <<loaded, row, circuit>> /\ work.doing = "nothing"
    <3>1. /\ controller'.stage = to /\ controller'.error = controller.error
          /\ controller'.started = controller.started
      BY <1>1, <2>1 DEF ControllerFits
    <3>2. work'.doing = to
      BY <2>1
    <3>3. UNCHANGED <<loaded, row, circuit>> /\ work.doing = "nothing"
      BY <1>9 DEF Advance, Idle
    <3>4. QED
      BY <3>1, <3>2, <3>3
  <2>3. ASSUME to = "GATEWAY_STORM" PROVE StormCounts'
    <3>1. IndexOf(controller.stage) = IndexOf("RECOVERY_DECISIONS")
      BY <1>2, <2>1, <2>3
    <3>2. controller.stage = "RECOVERY_DECISIONS"
      BY <1>1, <1>2, <3>1, StageIndex DEF ControllerFits
    <3>3. QED
      BY <1>9, <3>2, StormFinds
  <2>4. ~Reached("GATEWAY_STORM")' => ~Reached("GATEWAY_STORM")
    BY <1>2, <2>1, <2>2 DEF Reached
  <2>5. to # "nothing"
    BY StagesCounted
  <2>6. QED
    BY <1>9, <2>2, <2>3, <2>4, <2>5 DEF OnScript, Idle
<1>10. CASE prompt /\ WorkEnds
  <2>1. /\ work'.doing = "nothing" /\ work.todo = {} /\ work.doing \notin {"reset", "resetRest", "nothing"}
        /\ UNCHANGED <<controller, loaded, row, circuit>>
    BY <1>10 DEF WorkEnds, NoWork, Idle
  <2>2. ASSUME controller.stage = "GATEWAY_STORM" PROVE Blocked
    <3>1. work.doing = "GATEWAY_STORM"
      BY <1>1, <2>1, <2>2 DEF WorkFits, WorkRecord, Doing
    <3>2. Charges = {}
      BY <2>1 DEF Charges
    <3>3. Cardinality(Charges) = 0
      BY <3>2, FS_EmptySet
    <3>4. Blocked \/ circuit.failures >= Threshold
      <4>1. circuit.failures \in 0..Threshold /\ Threshold \in Nat
        BY DemoAssumption DEF DInv, CircuitRecord
      <4>2. QED
        BY <1>10, <3>1, <3>3, <4>1 DEF OnScript, StormCounts
    <3>5. circuit.state \in {"CLOSED", "OPEN"} /\ circuit.failures \in 0..Threshold /\ Threshold \in Nat
      BY DemoAssumption DEF DInv, CircuitRecord
    <3>6. QED
      BY <1>10, <3>4, <3>5 DEF OnScript, Blocked
  <2>3. QED
    BY <1>10, <2>1, <2>2 DEF OnScript, Reached, Blocked
<1>11. CASE /\ prompt
            /\ \/ Ingest \/ ClassifyFailure \/ DecideNext \/ AddJob \/ MarkScheduled
               \/ WriteMessage \/ WriteSuggestion
  <2>1. /\ UNCHANGED <<controller, loaded, gateway, circuit>>
        /\ work.doing \notin {"nothing", "resetRest", "GATEWAY_STORM"}
    BY <1>11 DEF Ingest, ClassifyFailure, DecideNext, AddJob, MarkScheduled, WriteMessage,
                 WriteSuggestion, Working
  <2>2. Onward \/ \E step \in {"add", "mark"} : work' = [work EXCEPT !.step = step]
    BY <1>11 DEF Ingest, ClassifyFailure, DecideNext, AddJob, MarkScheduled, WriteMessage,
                 WriteSuggestion
  <2>3. work'.doing = work.doing
    BY <1>1, <2>2 DEF Onward, WorkFits, WorkRecord
  <2>4. ASSUME NEW p \in Shown, row[p].action \in RetryingActions => Untouched(row[p]),
               row'[p].action \in RetryingActions
        PROVE  Untouched(row'[p])
    BY <1>11, <2>4, ChargesUntouched
  <2>5. QED
    BY <1>11, <2>1, <2>3, <2>4 DEF OnScript, Reached, Idle
<1>12. CASE prompt /\ (ClaimNext \/ RunNext)
  <2>1. UNCHANGED <<controller, loaded, gateway>> /\ work.doing \in ExecutingStages
    BY <1>12 DEF ClaimNext, RunNext, Executing, Working
  <2>2. work'.doing = work.doing
    <3>1. Onward \/ work' = [work EXCEPT !.step = "run"]
      BY <1>12 DEF ClaimNext, RunNext
    <3>2. QED
      BY <1>1, <3>1 DEF Onward, WorkFits, WorkRecord
  <2>3. Reached("GATEWAY_STORM")
    <3>1. controller.stage \in {"GATEWAY_STORM", "CIRCUIT_OPEN", "RECOVERY_RESUMED"}
      BY <1>1, <2>1, StagesCounted DEF WorkFits, ExecutingStages
    <3>2. QED
      BY <3>1, StagePositions DEF Reached
  <2>4. work.doing \notin {"nothing", "resetRest"}
    BY <2>1 DEF ExecutingStages
  <2>5. ~circuit'.cooled /\ (circuit'.state = "CLOSED" => circuit'.failures < Threshold)
    <3>1. /\ circuit \in CircuitRecord /\ ~circuit.cooled
          /\ circuit.state = "CLOSED" => circuit.failures < Threshold
      BY <1>12 DEF DInv, OnScript
    <3>2. circuit' = circuit \/ \E answer : circuit' = CircuitAfter(answer)
      BY <1>12 DEF ClaimNext, RunNext, Run
    <3>3. QED
      BY <3>1, <3>2, CircuitOnScript
  <2>6. work.doing = "GATEWAY_STORM" => StormCounts'
    BY <1>12, StormClaims, StormGoesOn
  <2>7. QED
    BY <1>12, <2>1, <2>2, <2>3, <2>4, <2>5, <2>6 DEF OnScript, Reached, Idle
<1>13. CASE prompt /\ Worker
  <2>1. UNCHANGED <<controller, loaded, gateway, circuit, work>>
    BY <1>13, WorkerOnScript
  <2>2. \A p \in Shown : row'[p] = row[p] \/ row'[p].action \notin RetryingActions
    BY <1>13, WorkerOnScript DEF RetryingActions
  <2>3. work.doing = "GATEWAY_STORM" => StormCounts'
    BY <1>13, StormUndisturbed
  <2>4. ~Reached("GATEWAY_STORM")' =>
           \A p \in Shown : row'[p].action \in RetryingActions => Untouched(row'[p])
    BY <1>13, <2>1, <2>2 DEF OnScript, Reached
  <2>5. QED
    BY <1>13, <2>1, <2>3, <2>4 DEF OnScript, Reached, Idle, Blocked
<1>14. QED
  BY <1>3, <1>4, <1>5, <1>6, <1>7, <1>8, <1>9, <1>10, <1>11, <1>12, <1>13
     DEF Next, Proceed, Present, ExecutionThrows, WorkThrows, Restart, TimePasses

\* The script's circuit opens: the storm's batch holds the charges, nobody else has
\* executed them, and every one of them counts.
THEOREM CircuitOpens == Spec => []CircuitTrips
<1>1. Init => Built /\ OnScript
  <2> SUFFICES ASSUME Init PROVE Built /\ OnScript
    OBVIOUS
  <2>1. Threshold > 0
    BY DemoAssumption
  <2>2. \A p \in Shown : row[p] = NewPayment
    BY DemoAssumption DEF Init, Pay
  <2>3. QED
    BY <2>1, <2>2
       DEF Init, Built, OnScript, InitialDemoState, Closed, NoWork, NewPayment, Untouched
<1>2. OnScript => CircuitTrips
  BY DEF OnScript, CircuitTrips
<1>3. DInv /\ Built /\ OnScript /\ [Next]_vars => Built' /\ OnScript'
  BY BuiltStep, ScriptStep
<1>4. QED
  BY <1>1, <1>2, <1>3, DemoAlways, PTL DEF Spec

=============================================================================
