--------------------------- MODULE CircuitBreaker ---------------------------
(***************************************************************************)
(* The gateway circuit breaker over its Redis store: callers (job slots of *)
(* several processes) run beforeRequest, call the gateway and report with  *)
(* onSuccess or onGatewayFailure.  Every Lua script and Redis command is   *)
(* one step; between two of them any other caller may step and time may    *)
(* pass.  Instants are kept as ages, so that time never ends.  Left out:   *)
(* metrics, audit hooks and the drain delays, which no step here reads.    *)
(***************************************************************************)
EXTENDS Integers, FiniteSets

CONSTANTS
    Caller,             \* job slots that charge through the breaker
    Process,            \* processes, each with one breaker instance and token
    ProcessOf,          \* the process a caller runs in
    Threshold,          \* failureThreshold
    Window,             \* failureWindowSeconds, in ticks
    Cooldown,           \* openCooldownSeconds, in ticks
    ProbeTtl,           \* PROBE_LOCK_TTL_SECONDS, in ticks
    MaxLag,             \* bound: ticks a beforeRequest or a report may take
    MaxCall,            \* bound: ticks between a permission and its report
    MaxCrashes,         \* bound: callers that die or throw on the way
    ResetsAnytime,      \* does a demo reset meet callers under way?
    NoProcess

ASSUME BreakerAssumption ==
    /\ ProcessOf \in [Caller -> Process]
    /\ {Threshold, Window, Cooldown, ProbeTtl} \subseteq Nat \ {0}
    /\ {MaxLag, MaxCall, MaxCrashes} \subseteq Nat
    /\ ResetsAnytime \in BOOLEAN /\ NoProcess \notin Process

Pc == {"idle", "ask", "half", "reread", "acquire",      \* beforeRequest
       "calling", "probing",                            \* permitted
       "answered", "close",                             \* onSuccess
       "failed", "count", "reopen", "trip",             \* onGatewayFailure
       "release"}                                       \* both

VARIABLES
    state,      \* the stored CircuitState
    openAge,    \* now - openedAt, capped where it makes no difference
    failures,   \* failures[i]: sorted-set entries that are i ticks old
    probe,      \* the token in the probe lock
    probeLeft,  \* ticks until the lock expires
    pc, lag,    \* callers; lag: ticks since the now() a report or call uses
    healthy,    \* does the gateway answer? (environment)
    crashes

storeVars  == <<state, openAge, failures, probe, probeLeft>>
callerVars == <<pc, lag>>
vars == <<storeVars, callerVars, healthy, crashes>>

MaxOpenAge == Cooldown + MaxLag

TypeOK ==
    /\ state \in {"CLOSED", "OPEN", "HALF_OPEN"}
    /\ openAge \in 0..MaxOpenAge
    /\ failures \in [0..(Window - 1) -> 0..Threshold]
    /\ probe \in Process \cup {NoProcess}
    /\ probeLeft \in 0..ProbeTtl
    /\ probe = NoProcess <=> probeLeft = 0
    /\ pc \in [Caller -> Pc]
    /\ lag \in [Caller -> 0..MaxCall + MaxLag]
    /\ healthy \in BOOLEAN
    /\ crashes \in 0..MaxCrashes

-----------------------------------------------------------------------------
ProbeHeld == probe # NoProcess
\* The members of the sorted set, by their age and their number among those of that age.
Members == {m \in (0..(Window - 1)) \X (1..Threshold) : m[2] <= failures[m[1]]}
FailureCount == Cardinality(Members)

\* effectiveState, at the now() the caller took lag ticks ago.
Effective(c) ==
    IF state = "OPEN" /\ openAge - lag[c] >= Cooldown THEN "HALF_OPEN" ELSE state

\* What makes a report count as a probe's: any caller's, not only the prober's.
ReportsProbe(c) == ProbeHeld \/ Effective(c) = "HALF_OPEN"

\* The caller's next await; now() is taken afresh where fresh holds.
Goto(c, l, fresh) ==
    /\ pc' = [pc EXCEPT ![c] = l]
    /\ lag' = IF fresh \/ l = "idle" THEN [lag EXCEPT ![c] = 0] ELSE lag

-----------------------------------------------------------------------------
(* beforeRequest.                                                          *)

Ask(c) ==
    /\ pc[c] = "idle"
    /\ Goto(c, "ask", TRUE)
    /\ UNCHANGED <<storeVars, healthy, crashes>>

\* getState.  A caller the OPEN circuit blocks leaves with a delay.
ReadPermission(c) ==
    /\ pc[c] = "ask"
    /\ \/ Effective(c) = "CLOSED" /\ Goto(c, "calling", TRUE)
       \/ Effective(c) = "OPEN" /\ Goto(c, "idle", FALSE)
       \/ Effective(c) = "HALF_OPEN" /\ state = "OPEN" /\ Goto(c, "half", FALSE)
       \/ state = "HALF_OPEN" /\ ProbeHeld /\ Goto(c, "idle", FALSE)
       \/ state = "HALF_OPEN" /\ ~ProbeHeld /\ Goto(c, "acquire", FALSE)
    /\ UNCHANGED <<storeVars, healthy, crashes>>

\* Mutant: whatever is stored becomes HALF_OPEN.
EnterHalfOpen_Blind(c) ==
    /\ pc[c] = "half"
    /\ state' = "HALF_OPEN"
    /\ Goto(c, "reread", FALSE)
    /\ UNCHANGED <<openAge, failures, probe, probeLeft, healthy, crashes>>

\* ENTER_HALF_OPEN looks at the stored state only, not at openedAt again.
EnterHalfOpen(c) ==
    /\ pc[c] = "half"
    /\ state' = IF state = "OPEN" THEN "HALF_OPEN" ELSE state
    /\ Goto(c, "reread", FALSE)
    /\ UNCHANGED <<openAge, failures, probe, probeLeft, healthy, crashes>>

\* The second getState; only the lock is looked at.
Reread(c) ==
    /\ pc[c] = "reread"
    /\ Goto(c, IF ProbeHeld THEN "idle" ELSE "acquire", FALSE)
    /\ UNCHANGED <<storeVars, healthy, crashes>>

\* Mutant: the lock is set without PX.
AcquireProbe_Forever(c) ==
    /\ pc[c] = "acquire"
    /\ \/ /\ ProbeHeld
          /\ Goto(c, "idle", FALSE)
          /\ UNCHANGED <<probe, probeLeft>>
       \/ /\ ~ProbeHeld
          /\ probe' = ProcessOf[c] /\ probeLeft' = 0
          /\ Goto(c, "probing", TRUE)
    /\ UNCHANGED <<state, openAge, failures, healthy, crashes>>

\* tryAcquireProbe: SET NX PX.
AcquireProbe(c) ==
    /\ pc[c] = "acquire"
    /\ \/ /\ ProbeHeld
          /\ Goto(c, "idle", FALSE)
          /\ UNCHANGED <<probe, probeLeft>>
       \/ /\ ~ProbeHeld
          /\ probe' = ProcessOf[c] /\ probeLeft' = ProbeTtl
          /\ Goto(c, "probing", TRUE)
    /\ UNCHANGED <<state, openAge, failures, healthy, crashes>>

-----------------------------------------------------------------------------
(* The gateway (external): any business answer is a success for the        *)
(* breaker, and an unhealthy gateway may still answer.                      *)

InCall(c) == pc[c] \in {"calling", "probing"}

Answer(c) ==
    /\ InCall(c)
    /\ Goto(c, "answered", TRUE)
    /\ UNCHANGED <<storeVars, healthy, crashes>>

Fail(c) ==
    /\ InCall(c) /\ ~healthy
    /\ Goto(c, "failed", TRUE)
    /\ UNCHANGED <<storeVars, healthy, crashes>>

GatewayChanges ==
    /\ healthy' = ~healthy
    /\ UNCHANGED <<storeVars, callerVars, crashes>>

-----------------------------------------------------------------------------
(* onSuccess: getState, close, releaseProbe.                                *)

ReadAfterSuccess(c) ==
    /\ pc[c] = "answered"
    /\ Goto(c, IF ReportsProbe(c) THEN "close" ELSE "idle", FALSE)
    /\ UNCHANGED <<storeVars, healthy, crashes>>

\* The keys of an untouched circuit.
Cleared ==
    /\ state' = "CLOSED" /\ openAge' = 0
    /\ failures' = [i \in 0..(Window - 1) |-> 0]
    /\ probe' = NoProcess /\ probeLeft' = 0

\* CLOSE_CIRCUIT, whatever the state has become.
Close(c) ==
    /\ pc[c] = "close"
    /\ Cleared
    /\ Goto(c, "release", FALSE)
    /\ UNCHANGED <<healthy, crashes>>

\* The token is the process's: it also deletes a lock another caller of the
\* same process took since.
ReleaseProbe(c) ==
    /\ pc[c] = "release"
    /\ IF probe = ProcessOf[c]
       THEN probe' = NoProcess /\ probeLeft' = 0
       ELSE UNCHANGED <<probe, probeLeft>>
    /\ Goto(c, "idle", FALSE)
    /\ UNCHANGED <<state, openAge, failures, healthy, crashes>>

-----------------------------------------------------------------------------
(* onGatewayFailure: recordFailure, getState, open, releaseProbe.           *)

\* ZADD; an entry of another process with the same instant and counter is the
\* same member, so the failure may add nothing (failMember counts per process).
RecordFailure(c) ==
    /\ pc[c] = "failed"
    /\ IF lag[c] >= Window \/ failures[lag[c]] = Threshold
       THEN UNCHANGED failures
       ELSE \/ failures' = [failures EXCEPT ![lag[c]] = @ + 1]
            \/ failures[lag[c]] > 0 /\ Cardinality(Process) > 1 /\ UNCHANGED failures
    /\ Goto(c, "count", FALSE)
    /\ UNCHANGED <<state, openAge, probe, probeLeft, healthy, crashes>>

\* Mutant: the threshold must be passed, not reached.
ReadAfterFailure_Late(c) ==
    /\ pc[c] = "count"
    /\ \/ ReportsProbe(c) /\ Goto(c, "reopen", FALSE)
       \/ /\ ~ReportsProbe(c) /\ state = "CLOSED" /\ FailureCount > Threshold
          /\ Goto(c, "trip", FALSE)
       \/ /\ ~ReportsProbe(c) /\ (state # "CLOSED" \/ FailureCount <= Threshold)
          /\ Goto(c, "idle", FALSE)
    /\ UNCHANGED <<storeVars, healthy, crashes>>

ReadAfterFailure(c) ==
    /\ pc[c] = "count"
    /\ \/ ReportsProbe(c) /\ Goto(c, "reopen", FALSE)
       \/ /\ ~ReportsProbe(c) /\ state = "CLOSED" /\ FailureCount >= Threshold
          /\ Goto(c, "trip", FALSE)
       \/ /\ ~ReportsProbe(c) /\ (state # "CLOSED" \/ FailureCount < Threshold)
          /\ Goto(c, "idle", FALSE)
    /\ UNCHANGED <<storeVars, healthy, crashes>>

\* OPEN_CIRCUIT dates the opening with the now() the report began with, and
\* deletes the probe lock, whoever holds it.
Open(c) ==
    /\ pc[c] \in {"reopen", "trip"}
    /\ IF state # "OPEN"
       THEN /\ state' = "OPEN" /\ openAge' = lag[c]
            /\ probe' = NoProcess /\ probeLeft' = 0
       ELSE UNCHANGED <<state, openAge, probe, probeLeft>>
    /\ Goto(c, IF pc[c] = "reopen" THEN "release" ELSE "idle", FALSE)
    /\ UNCHANGED <<failures, healthy, crashes>>

-----------------------------------------------------------------------------
\* The caller's process dies, or an await between the breaker's throws.
Crash(c) ==
    /\ pc[c] # "idle" /\ crashes < MaxCrashes
    /\ crashes' = crashes + 1
    /\ Goto(c, "idle", FALSE)
    /\ UNCHANGED <<storeVars, healthy>>

\* The demo's reset deletes the keys, whatever callers are under way.
Reset ==
    /\ ResetsAnytime \/ \A c \in Caller : pc[c] = "idle"
    /\ Cleared
    /\ UNCHANGED <<callerVars, healthy, crashes>>

\* A tick: ages grow, old failures leave the window, the lock may expire.
Tick ==
    /\ \A c \in Caller : pc[c] # "idle" => lag[c] < IF InCall(c) THEN MaxCall ELSE MaxLag
    /\ lag' = [c \in Caller |-> IF pc[c] = "idle" THEN 0 ELSE lag[c] + 1]
    /\ openAge' = IF state = "CLOSED" \/ openAge = MaxOpenAge THEN openAge ELSE openAge + 1
    /\ failures' = [i \in 0..(Window - 1) |-> IF i = 0 THEN 0 ELSE failures[i - 1]]
    /\ probeLeft' = IF probeLeft = 0 THEN 0 ELSE probeLeft - 1
    /\ probe' = IF probeLeft = 1 THEN NoProcess ELSE probe
    /\ UNCHANGED <<state, pc, healthy, crashes>>

Init ==
    /\ state = "CLOSED" /\ openAge = 0
    /\ failures = [i \in 0..(Window - 1) |-> 0]
    /\ probe = NoProcess /\ probeLeft = 0
    /\ pc = [c \in Caller |-> "idle"]
    /\ lag = [c \in Caller |-> 0]
    /\ healthy = TRUE
    /\ crashes = 0

\* What a caller does by itself once it has asked.
Proceed(c) ==
    \/ ReadPermission(c) \/ EnterHalfOpen(c) \/ Reread(c) \/ AcquireProbe(c)
    \/ Answer(c) \/ Fail(c)
    \/ ReadAfterSuccess(c) \/ Close(c) \/ ReleaseProbe(c)
    \/ RecordFailure(c) \/ ReadAfterFailure(c) \/ Open(c)

Next ==
    \/ \E c \in Caller : Ask(c) \/ Proceed(c) \/ Crash(c)
    \/ GatewayChanges
    \/ Reset
    \/ Tick

Spec == Init /\ [][Next]_vars

\* Callers go on, the queue keeps bringing them back, and time passes: a tick
\* waits for handlers at their bound, but not for ever.
Fairness ==
    /\ \A c \in Caller : WF_vars(Ask(c)) /\ WF_vars(Proceed(c))
    /\ SF_vars(Tick)

FairSpec == Spec /\ Fairness

-----------------------------------------------------------------------------
(* Properties.                                                             *)

\* A storm is noticed: whenever the window holds as many failures as the threshold and
\* the circuit is still closed, a report that will open it is under way, although
\* failures are counted in one step and looked at in another, and closings, resets and
\* other reports come in between.  Only a report that dies leaves the circuit closed.
StormsTrip ==
    (state = "CLOSED" /\ FailureCount >= Threshold /\ crashes = 0)
        => \E c \in Caller : pc[c] \in {"count", "reopen", "trip"}

\* Once the gateway is healthy for good, the circuit closes for good: no lost
\* lock, crashed prober or late report keeps recovery blocked.
Recovers == <>[]healthy => <>[](state = "CLOSED")

\* The scripts and commands of the Redis store are, between any callers, operations of
\* the reference store: no interleaving stores what the store in memory could not.
Store == INSTANCE CircuitStore
    WITH Token <- Process, NoToken <- NoProcess, probeToken <- probe, MaxFailures <- Threshold
ImplementsStore == Store!Spec

-----------------------------------------------------------------------------
(* What the repository says of the program and the code does not do.        *)

\* After a cooldown exactly one probe goes to the gateway: at most one caller is
\* inside a probe call (demo-state.ts, the circuit's audit events).
OneProbe == \A c, d \in Caller : pc[c] = "probing" /\ pc[d] = "probing" => c = d

=============================================================================
