-------------------------------- MODULE Demo --------------------------------
(***************************************************************************)
(* The live demo: a controller in the API's memory that counts stages, the *)
(* real work each stage does on the curated dataset, payment by payment,   *)
(* and the reset.  Work may throw between any two payments, the API may    *)
(* restart, the presenter may start over or pause, and the worker runs the *)
(* queue in a process of its own, which shares the circuit with the API    *)
(* but not the stormy gateway.  The API enqueues in three steps and        *)
(* executes in two, between which the worker comes.  The worker executes   *)
(* in one: what the API finds of a row in the worker's hands is that it is *)
(* not to be had, as before and after.  Executors inside one another are   *)
(* RecoveryExecution's, and the circuit's races are CircuitBreaker's.      *)
(* The activity feed, of which only the STAGE_ERRORs are kept, the         *)
(* counters, the views and the health panel are read-only.                 *)
(***************************************************************************)
EXTENDS DemoScenarios, FiniteSets

CONSTANTS
    Shown,              \* bound: those of DEMO_PAYMENTS that are played, by position
    Dev,                \* payments without the demo prefix, scheduled for a retry
    Now,                \* the time of all decisions
    Threshold,          \* failureThreshold of the circuit
    StormBatch, ProtectBatch, DrainBatch   \* how many actions a stage executes at most

Pay == Shown \cup Dev

ASSUME DemoAssumption ==
    /\ Shown \subseteq DOMAIN DEMO_PAYMENTS /\ Shown \subseteq Nat /\ IsFiniteSet(Shown)
    /\ Shown \cap Dev = {}
    /\ {DEMO_AI_MESSAGE_PAYMENT_ID, DEMO_UNKNOWN_PAYMENT_ID} \subseteq Shown
    /\ Threshold \in Nat \ {0} /\ Now \in Nat
    /\ StormBatch \in Nat /\ ProtectBatch \in Nat /\ DrainBatch \in Nat \ {0}

VARIABLES
    controller,     \* the DemoController: started, stage, and whether it noted an error
    loaded,         \* the dataset's payments are in the database
    row,            \* Pay -> what the database and the queue have of the payment
    gateway,        \* what the API process executes against
    circuit,        \* the shared breaker
    work,           \* the request being served, and the payments it has left, by position
    prompt          \* the run began clean and has seen no pause, restart or throw of the API's

vars == <<controller, loaded, row, gateway, circuit, work, prompt>>

Stages == <<"READY", "FAILURES", "CLASSIFICATION", "RECOVERY_DECISIONS", "GATEWAY_STORM",
            "CIRCUIT_OPEN", "GATEWAY_RECOVERY", "RECOVERY_RESUMED", "AI_MESSAGE",
            "HUMAN_REVIEW", "RESULTS", "COMPLETE">>
IndexOf(stage) == CHOOSE i \in DOMAIN Stages : Stages[i] = stage

InitialDemoState == [started |-> FALSE, stage |-> "READY", error |-> FALSE]
\* step: where the request is within its payment.
NoWork == [doing |-> "nothing", todo |-> {}, step |-> "begin"]

\* job: none, queued, or over, completed or failed for good.  attempts: the ingested
\* failure and the charges recorded.
NewPayment == [failure |-> FALSE, cause |-> "none", action |-> "NONE", state |-> "NONE",
               job |-> "none", outcome |-> FALSE, attempts |-> 0, recovered |-> FALSE,
               message |-> FALSE, suggestion |-> FALSE]
DevPayment == [NewPayment EXCEPT !.failure = TRUE, !.cause = "ISSUER_TEMPORARY_FAILURE",
                                 !.action = "RETRY", !.state = "SCHEDULED",
                                 !.job = "queued", !.attempts = 1]
Closed == [state |-> "CLOSED", failures |-> 0, cooled |-> FALSE]

Init ==
    /\ controller = InitialDemoState /\ loaded = FALSE
    /\ row = [p \in Pay |-> IF p \in Dev THEN DevPayment ELSE NewPayment]
    /\ gateway = "healthy" /\ circuit = Closed
    /\ work = NoWork /\ prompt = TRUE

\* While a request runs the page disables every button, the reset's too.  That is the
\* page's guard, as Start's is: the routes have no lock, and a second page is not
\* modelled.
Idle == work.doing = "nothing"
\* Work on the first payment left, which was listed before.
Working(doing, step) == work.doing = doing /\ work.step = step /\ work.todo # {}
Current == CHOOSE p \in work.todo : \A q \in work.todo : p <= q
Onward == work' = [work EXCEPT !.todo = @ \ {Current}, !.step = "begin"]

-----------------------------------------------------------------------------
(* Reset and start.                                                         *)

BeginReset ==
    /\ Idle
    /\ work' = [NoWork EXCEPT !.doing = "reset"]
    /\ UNCHANGED <<controller, loaded, row, gateway, circuit, prompt>>

\* The dataset's rows with all that hangs on them, and their jobs; a job that cannot be
\* removed finds no action when it runs.
DeleteDemoRows ==
    /\ work.doing = "reset"
    /\ row' = [p \in Pay |-> IF p \in Shown THEN NewPayment ELSE row[p]]
    /\ loaded' = FALSE
    /\ work' = [work EXCEPT !.doing = "resetRest"]
    /\ UNCHANGED <<controller, gateway, circuit, prompt>>

\* Mutant: the reset forgets the storm.
ResetRest_KeepsStorm ==
    /\ work.doing = "resetRest"
    /\ circuit' = Closed /\ controller' = InitialDemoState
    /\ work' = NoWork /\ prompt' = TRUE
    /\ UNCHANGED <<loaded, row, gateway>>

\* resetCircuitBreaker, resetLiveGateway, controller.reset.
ResetRest ==
    /\ work.doing = "resetRest"
    /\ circuit' = Closed /\ gateway' = "healthy" /\ controller' = InitialDemoState
    /\ work' = NoWork /\ prompt' = TRUE
    /\ UNCHANGED <<loaded, row>>

\* Nothing is cleared: payments that exist stay what they are, and so do the circuit
\* and the gateway.  The run gets a demoId nobody has had.
Start ==
    /\ Idle /\ ~controller.started
    /\ loaded' = TRUE
    /\ controller' = [InitialDemoState EXCEPT !.started = TRUE]
    /\ prompt' = (prompt /\ \A p \in Shown : row[p] = NewPayment)
    /\ UNCHANGED <<row, gateway, circuit, work>>

-----------------------------------------------------------------------------
(* Advancing: the controller moves, then the stage's work begins.           *)

\* Mutant: the presenter's click may move two stages on.
NextStage_Skips(stage) == Stages[Least(IndexOf(stage) + 2, Len(Stages))]

NextStage(stage) == Stages[IndexOf(stage) + 1]

Failures == {p \in Shown : row[p].failure}

Schedulable == RetryingActions \cup {"MESSAGE"}

\* Mutant: what is scheduled is left to the worker.
Open_Unqueued(r) == r.state = "PENDING"

\* By its state alone, whether it has an outcome or not.
Open(r) == r.state \in {"PENDING", "SCHEDULED"}

\* Mutant: whatever is open.
OpenActions_All == {p \in Pay : Open(row[p])}

\* Only the demo's, whatever else is open.
OpenActions == {p \in Shown : Open(row[p])}

\* At most this many of them, the oldest: they were created in the order of the dataset.
Oldest(limit, set) == {p \in set : Cardinality({q \in set : q < p}) < limit}
Batch(limit) == Oldest(limit, OpenActions)

\* What runStageWork goes through at this stage.
StageWork(stage) ==
    CASE stage = "FAILURES" -> Shown
      [] stage \in {"CLASSIFICATION", "RECOVERY_DECISIONS"} -> Failures
      [] stage = "GATEWAY_STORM" -> Batch(StormBatch)
      [] stage = "CIRCUIT_OPEN" -> Batch(ProtectBatch)
      [] stage = "RECOVERY_RESUMED" -> Batch(DrainBatch)
      [] stage = "AI_MESSAGE" -> {DEMO_AI_MESSAGE_PAYMENT_ID}
      [] stage = "HUMAN_REVIEW" -> {DEMO_UNKNOWN_PAYMENT_ID}
      [] OTHER -> {}

\* setLiveGateway, resetLiveGateway.
GatewayAt(stage) ==
    CASE stage = "GATEWAY_STORM" -> "storm"
      [] stage = "GATEWAY_RECOVERY" -> "healthy"
      [] OTHER -> gateway

Advance ==
    /\ Idle /\ controller.started /\ controller.stage # "COMPLETE"
    /\ LET to == NextStage(controller.stage)
       IN  /\ controller' = [controller EXCEPT !.stage = to]
           /\ gateway' = GatewayAt(to)
           /\ work' = [NoWork EXCEPT !.doing = to, !.todo = StageWork(to)]
    /\ UNCHANGED <<loaded, row, circuit, prompt>>

Drain ==
    /\ Idle /\ controller.stage = "RECOVERY_RESUMED"
    /\ work' = [NoWork EXCEPT !.doing = "drain", !.todo = Batch(DrainBatch)]
    /\ UNCHANGED <<controller, loaded, row, gateway, circuit, prompt>>

\* The request is answered.
WorkEnds ==
    /\ ~Idle /\ work.todo = {} /\ work.doing \notin {"reset", "resetRest"}
    /\ work' = NoWork
    /\ UNCHANGED <<controller, loaded, row, gateway, circuit, prompt>>

Put(p, r) == row' = [row EXCEPT ![p] = r]

-----------------------------------------------------------------------------
(* Failures, diagnoses, decisions.                                          *)

\* By an idempotency key of the payment's: the second time, nothing.
Ingest ==
    /\ Working("FAILURES", "begin")
    /\ LET p == Current
       IN  IF loaded /\ ~row[p].failure
           THEN Put(p, [row[p] EXCEPT !.failure = TRUE, !.attempts = @ + 1])
           ELSE UNCHANGED row
    /\ Onward /\ UNCHANGED <<controller, loaded, gateway, circuit, prompt>>

CauseOf == [p \in Shown |-> Diagnose(DEMO_PAYMENTS[p].failure).cause]

ClassifyFailure ==
    /\ Working("CLASSIFICATION", "begin")
    /\ LET p == Current
       IN  IF row[p].failure THEN Put(p, [row[p] EXCEPT !.cause = CauseOf[p]]) ELSE UNCHANGED row
    /\ Onward /\ UNCHANGED <<controller, loaded, gateway, circuit, prompt>>

ActionOf == [p \in Shown |-> Decide(FreshContext(DEMO_PAYMENTS[p].failure, Now)).action]

\* The dataset shows what it is there to show: of the payments played every one is
\* diagnosed as announced, one is written to and one left unknown, and the storm's
\* batch holds charges enough to open the circuit.
ASSUME DatasetAssumption ==
    /\ \A p \in Shown :
          DEMO_PAYMENTS[p].expected \in RootCause /\ CauseOf[p] = DEMO_PAYMENTS[p].expected
    /\ ActionOf[DEMO_AI_MESSAGE_PAYMENT_ID] = "MESSAGE"
    /\ CauseOf[DEMO_UNKNOWN_PAYMENT_ID] = "UNKNOWN"
    /\ LET storm == Oldest(StormBatch, {p \in Shown : ActionOf[p] \in Schedulable})
       IN  Cardinality({p \in storm : ActionOf[p] \in RetryingActions}) >= Threshold

InitialState(action) ==
    CASE action = "HARD_STOP" -> "CANCELLED"
      [] action = "HUMAN_REVIEW" -> "BLOCKED"
      [] OTHER -> "PENDING"

\* decideRecovery: one action to a diagnosis.
Decided(p) ==
    IF row[p].action = "NONE"
    THEN [row[p] EXCEPT !.action = ActionOf[p], !.state = InitialState(ActionOf[p])]
    ELSE row[p]

DecideNext ==
    /\ Working("RECOVERY_DECISIONS", "begin")
    /\ IF row[Current].cause # "none" THEN Put(Current, Decided(Current)) ELSE UNCHANGED row
    /\ IF row'[Current].state = "PENDING" THEN work' = [work EXCEPT !.step = "add"] ELSE Onward
    /\ UNCHANGED <<controller, loaded, gateway, circuit, prompt>>

\* enqueueRecoveryAction loads the action again and adds the job, unless there is one by
\* its name.
AddJob ==
    /\ Working("RECOVERY_DECISIONS", "add")
    /\ IF row[Current].state = "PENDING"
       THEN /\ Put(Current, [row[Current] EXCEPT !.job = IF @ = "none" THEN "queued" ELSE @])
            /\ work' = [work EXCEPT !.step = "mark"]
       ELSE UNCHANGED row /\ Onward
    /\ UNCHANGED <<controller, loaded, gateway, circuit, prompt>>

\* markScheduled does not look at what has become of the row since.
MarkScheduled ==
    /\ Working("RECOVERY_DECISIONS", "mark")
    /\ Put(Current, [row[Current] EXCEPT !.state = "SCHEDULED"])
    /\ Onward /\ UNCHANGED <<controller, loaded, gateway, circuit, prompt>>

-----------------------------------------------------------------------------
(* Executing, against the gateway of the process that does.                 *)

Blocked == circuit.state = "OPEN" /\ ~circuit.cooled
Probes == circuit.state = "OPEN" /\ circuit.cooled

\* Mutant: the threshold must be passed, not reached.
AfterFailure_Late ==
    LET failures == Least(circuit.failures + 1, Threshold + 1)
    IN  [state |-> IF Probes \/ failures > Threshold + 1 THEN "OPEN" ELSE "CLOSED",
         failures |-> failures, cooled |-> FALSE]

\* onGatewayFailure: a failing probe opens the circuit again.
AfterFailure ==
    LET failures == Least(circuit.failures + 1, Threshold)
    IN  [state |-> IF Probes \/ failures = Threshold THEN "OPEN" ELSE "CLOSED",
         failures |-> failures, cooled |-> FALSE]

\* charge, of the attempt with this number, by a simulator that has no scripts here:
\* the storm wins over everything, and otherwise the second attempt works.
GatewayAnswer(attemptNumber, health) ==
    IF health = "storm" THEN "GATEWAY_FAILURE"
    ELSE IF attemptNumber >= 2 THEN "SUCCESS" ELSE "PAYMENT_FAILURE"

\* What comes of a claimed row in a process whose gateway is in this state.
Answer(r, health) ==
    IF r.action = "MESSAGE" THEN "SENT"
    ELSE IF Blocked THEN "BLOCKED" ELSE GatewayAnswer(r.attempts + 1, health)

\* What the circuit is told of it.
CircuitAfter(answer) ==
    IF answer = "GATEWAY_FAILURE" THEN AfterFailure
    ELSE IF Probes /\ answer # "SENT" THEN Closed ELSE circuit

\* liveReschedule: the job, if there is one, stays.
Held(r) == [r EXCEPT !.state = "SCHEDULED"]

JobOver(job) == IF job = "queued" THEN "over" ELSE job

\* persistOutcome.  A job left over will only find that there is an outcome.
Done(r, answer) ==
    [r EXCEPT !.state = "EXECUTED", !.outcome = TRUE, !.job = JobOver(@),
              !.attempts = IF answer = "SENT" THEN @ ELSE @ + 1,
              !.recovered = (answer = "SUCCESS")]

\* Blocked and failed calls are scheduled again, a charge that was answered or a message
\* is executed.
Run(p, health) ==
    LET answer == Answer(row[p], health)
    IN  /\ Put(p, IF answer \in {"BLOCKED", "GATEWAY_FAILURE"} THEN Held(row[p])
                  ELSE Done(row[p], answer))
        /\ circuit' = CircuitAfter(answer)

\* executeRecoveryAction finds no outcome, and claimForExecution takes what is open or
\* has been executing for too long; without both the answer is DUPLICATE.  What is
\* executing may be either, old enough or not.
Claimable(r) == ~r.outcome /\ r.state \in {"PENDING", "SCHEDULED", "EXECUTING"}
Refused(r) == r.outcome \/ r.state \notin {"PENDING", "SCHEDULED"}

ExecutingStages == {"GATEWAY_STORM", "CIRCUIT_OPEN", "RECOVERY_RESUMED", "drain"}
Executing(step) == \E stage \in ExecutingStages : Working(stage, step)

ClaimNext ==
    /\ Executing("begin")
    /\ \/ /\ Claimable(row[Current])
          /\ Put(Current, [row[Current] EXCEPT !.state = "EXECUTING"])
          /\ work' = [work EXCEPT !.step = "run"]
       \/ Refused(row[Current]) /\ UNCHANGED row /\ Onward
    /\ UNCHANGED <<controller, loaded, gateway, circuit, prompt>>

RunNext ==
    /\ Executing("run")
    /\ Run(Current, gateway)
    /\ Onward /\ UNCHANGED <<controller, loaded, gateway, prompt>>

\* The executor throws, before its claim or after it, when the circuit may have been
\* told; executeDemoActions goes on.
ExecutionThrows ==
    /\ \/ Executing("begin") /\ UNCHANGED circuit
       \/ Executing("run") /\ circuit' \in {circuit, CircuitAfter(Answer(row[Current], gateway))}
    /\ Onward /\ prompt' = FALSE
    /\ UNCHANGED <<controller, loaded, row, gateway>>

\* A message's job is due at once; a charge of the demo's falls due in a pause, or when
\* what was decided long ago is enqueued at last.
Due(p) ==
    /\ row[p].job = "queued"
    /\ prompt /\ p \in Shown => row[p].action = "MESSAGE"
InHand(p) == Executing("run") /\ p = Current

WorkerExecutes ==
    /\ \E p \in Pay : Due(p) /\ Claimable(row[p]) /\ ~InHand(p) /\ Run(p, "healthy")
    /\ UNCHANGED <<controller, loaded, gateway, work, prompt>>

\* The job completes, and with it the last that would have come back to the row.
WorkerRefused ==
    /\ \E p \in Pay :
          /\ Due(p) /\ (Refused(row[p]) \/ InHand(p))
          /\ Put(p, [row[p] EXCEPT !.job = "over"])
    /\ UNCHANGED <<controller, loaded, gateway, circuit, work, prompt>>

\* The worker's executor throws, before its claim or after it; the job is tried again,
\* or that was its last attempt.
WorkerThrows ==
    /\ \E p \in Pay, job \in {"queued", "over"} :
          /\ Due(p)
          /\ \/ Put(p, [row[p] EXCEPT !.job = job]) /\ UNCHANGED circuit
             \/ /\ Claimable(row[p]) /\ ~InHand(p)
                /\ Put(p, [row[p] EXCEPT !.job = job, !.state = "EXECUTING"])
                /\ circuit' \in {circuit, CircuitAfter(Answer(row[p], "healthy"))}
    /\ UNCHANGED <<controller, loaded, gateway, work, prompt>>

-----------------------------------------------------------------------------
(* What is shown: demoCounters.                                             *)

Counters ==
    [failures |-> Cardinality({p \in Shown : row[p].failure}),
     classified |-> Cardinality({p \in Shown : row[p].cause # "none"}),
     decisions |-> Cardinality({p \in Shown : row[p].action # "NONE"}),
     queued |-> Cardinality({p \in Shown : Open(row[p])}),
     recovered |-> Cardinality({p \in Shown : row[p].recovered}),
     hardStopped |-> Cardinality({p \in Shown : row[p].action = "HARD_STOP"}),
     humanReview |-> Cardinality({p \in Shown : row[p].action = "HUMAN_REVIEW"}),
     messages |-> Cardinality({p \in Shown : row[p].message})]

-----------------------------------------------------------------------------
(* The message and the suggestion.                                          *)

WriteMessage ==
    /\ Working("AI_MESSAGE", "begin")
    /\ Put(Current, [row[Current] EXCEPT !.message = @ \/ row[Current].action = "MESSAGE"])
    /\ Onward /\ UNCHANGED <<controller, loaded, gateway, circuit, prompt>>

WriteSuggestion ==
    /\ Working("HUMAN_REVIEW", "begin")
    /\ Put(Current, [row[Current] EXCEPT !.suggestion = @ \/ row[Current].cause = "UNKNOWN"])
    /\ Onward /\ UNCHANGED <<controller, loaded, gateway, circuit, prompt>>

-----------------------------------------------------------------------------
(* What goes wrong, and time.                                               *)

\* Mutant: the stage that threw has to be tried again.
StageAfterError_Again == Stages[IndexOf(controller.stage) - 1]

StageAfterError == controller.stage

\* The route's catch: a STAGE_ERROR, and the stage counts as reached.  A throw in a
\* request that is no advance is answered 500 and noted nowhere.  The rows stay as they
\* are, between a decision, its job and its mark.
WorkThrows ==
    /\ ~Idle /\ work.doing # "reset" /\ work.step # "run"
    /\ controller' = IF work.doing \in ToSet(Stages)
                     THEN [controller EXCEPT !.error = TRUE, !.stage = StageAfterError]
                     ELSE controller
    /\ work' = NoWork /\ prompt' = FALSE
    /\ UNCHANGED <<loaded, row, gateway, circuit>>

\* The API restarts: what it had in memory is gone, and a row it had claimed stays so.
Restart ==
    /\ controller.started \/ ~Idle
    /\ controller' = InitialDemoState /\ gateway' = "healthy"
    /\ work' = NoWork /\ prompt' = FALSE
    /\ UNCHANGED <<loaded, row, circuit>>

\* The presenter pauses: the cooldown is over, the failure window is empty, delays have
\* elapsed, and the storm may have blown over.
TimePasses ==
    /\ prompt \/ (circuit # Closed /\ ~circuit.cooled)
    /\ circuit' = [circuit EXCEPT !.failures = 0, !.cooled = (circuit.state = "OPEN")]
    /\ gateway' \in {gateway, "healthy"}
    /\ prompt' = FALSE
    /\ UNCHANGED <<controller, loaded, row, work>>

-----------------------------------------------------------------------------
Proceed ==
    \/ DeleteDemoRows \/ ResetRest \/ WorkEnds
    \/ Ingest \/ ClassifyFailure \/ DecideNext \/ AddJob \/ MarkScheduled
    \/ ClaimNext \/ RunNext
    \/ WriteMessage \/ WriteSuggestion

Present == BeginReset \/ Start \/ Advance \/ Drain
Worker == WorkerExecutes \/ WorkerRefused \/ WorkerThrows

Next ==
    \/ Present \/ Proceed \/ ExecutionThrows \/ WorkThrows \/ Restart
    \/ Worker \/ TimePasses

Spec == Init /\ [][Next]_vars

\* Requests are served, time passes, and the presenter does not stop before the end; the
\* worker owes the demo nothing.
FairSpec ==
    /\ Spec
    /\ WF_vars(Proceed) /\ WF_vars(TimePasses)
    /\ SF_vars(Advance \/ Drain)

-----------------------------------------------------------------------------
(* Properties.                                                              *)

TypeOK ==
    /\ controller \in [started : BOOLEAN, stage : ToSet(Stages), error : BOOLEAN]
    /\ controller.stage # "READY" => controller.started
    /\ \A p \in Shown :
          /\ row[p].cause # "none" => row[p].failure
          /\ row[p].action # "NONE" => row[p].cause # "none"
          /\ row[p].job # "none" \/ row[p].outcome => row[p].action \in Schedulable
          /\ row[p].job \in {"none", "queued", "over"} /\ row[p].attempts \in 0..2
    /\ \A p \in Pay : row[p].state \in {"NONE", "PENDING", "SCHEDULED", "EXECUTING", "EXECUTED",
                                         "BLOCKED", "CANCELLED"}
    /\ gateway \in {"healthy", "storm"}
    /\ circuit.state \in {"CLOSED", "OPEN"} /\ circuit.failures \in 0..Threshold

Reached(stage) == IndexOf(controller.stage) >= IndexOf(stage)

\* Every stage finds the work of the ones before it done, on every payment and with
\* the causes the dataset announces, whatever earlier runs left half done: unless a
\* STAGE_ERROR says otherwise, or a reset that failed has deleted the dataset.
StagesBuild ==
    Idle /\ loaded /\ ~controller.error =>
        \A p \in Shown :
            /\ Reached("FAILURES") => row[p].failure
            /\ Reached("CLASSIFICATION") => row[p].cause = DEMO_PAYMENTS[p].expected
            /\ Reached("RECOVERY_DECISIONS") => row[p].state \notin {"NONE", "PENDING"}
            /\ Reached("AI_MESSAGE") /\ p = DEMO_AI_MESSAGE_PAYMENT_ID => row[p].message
            /\ Reached("HUMAN_REVIEW") /\ p = DEMO_UNKNOWN_PAYMENT_ID => row[p].suggestion

\* The script's circuit does open: the failing gateway, the batch of the storm and the
\* breaker's threshold are all real, and only a prompt presenter on a clean dataset
\* can count on it.
CircuitTrips ==
    prompt /\ Idle /\ controller.stage = "GATEWAY_STORM" => Blocked

\* The environment a completed reset leaves is clean, whatever was under way: nothing
\* has failed yet, the circuit is closed and the gateway healthy.
ResetCleans ==
    [][ ~prompt /\ prompt'
            => /\ \A p \in Shown : row'[p] = NewPayment
               /\ circuit' = Closed /\ gateway' = "healthy" ]_vars

\* The demo never touches a payment without its prefix; only the worker does.
DevUntouched ==
    [][ (\E p \in Dev : row'[p] # row[p]) => work' = work ]_vars

\* One broken component never bricks the presentation: however often stage work
\* throws, a presenter who neither resets, nor loses the API, nor stays to drain, arrives.
DemoCompletes ==
    <>[][~(BeginReset \/ Restart \/ Drain)]_vars /\ <>[]controller.started
        => <>(controller.stage = "COMPLETE")

\* A throw that leaves something undone, or a restart.
Mishap ==
    \/ WorkThrows /\ work.todo # {}
    \/ ExecutionThrows /\ ~Refused(row[Current])
    \/ WorkerThrows \/ Restart

\* Executed, and reopened by a markScheduled that came late: the batches list such a row
\* for good, and the executor refuses it.
Reopened == {p \in Shown : Open(row[p]) /\ row[p].outcome}

\* Blocked is not lost: a presenter who goes on draining has everything executed in the
\* end, what the storm and the circuit put off, what lost its job to a refusal or a
\* throw and what never got one, though the worker may do nothing more; as long as the
\* reopened rows leave a place in the batch.  What a throw left executing is not reached:
\* no batch lists it.
DrainsReachAll ==
    /\ <>[][~(BeginReset \/ Mishap)]_vars /\ []<><<Drain>>_vars
    /\ <>[](Cardinality(Reopened) < DrainBatch)
    => <>[](\A p \in Shown :
              row[p].action \in Schedulable => row[p].outcome \/ row[p].state = "EXECUTING")

=============================================================================
