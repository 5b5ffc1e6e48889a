---------------------------- MODULE CircuitStore ----------------------------
(***************************************************************************)
(* What the breaker's code relies on in its store, as the reference store  *)
(* in memory does it: each operation at once, for callers known only by    *)
(* their token.  The Redis store of CircuitBreaker implements it.  Instants *)
(* are ages in ticks, as there; the millisecond at the very end of the     *)
(* failure window, which only the memory store still counts, is below a    *)
(* tick.  Left out: metrics and the slots of blocked callers.              *)
(***************************************************************************)
EXTENDS Integers

CONSTANTS
    Token,          \* who may hold the probe
    NoToken,
    Window,         \* failureWindowSeconds, in ticks
    ProbeTtl,       \* probeLockTtlSeconds, in ticks
    MaxFailures,    \* bound: failures counted in one tick
    MaxOpenAge      \* bound: how old an opening is kept

VARIABLES
    state,
    openAge,        \* now - openedAt
    failures,       \* failures[i]: timestamps i ticks old; older ones are pruned
    probeToken,
    probeLeft       \* until now - probeAcquiredAt reaches the TTL

store == <<state, openAge, failures, probeToken, probeLeft>>

Least(a, b) == IF a < b THEN a ELSE b
NoFailures == [i \in 0..(Window - 1) |-> 0]
NoProbe == probeToken' = NoToken /\ probeLeft' = 0

Init ==
    /\ state = "CLOSED" /\ openAge = 0 /\ failures = NoFailures
    /\ probeToken = NoToken /\ probeLeft = 0

RecordFailure ==
    /\ \E age \in DOMAIN failures :
          failures' = [failures EXCEPT ![age] = Least(@ + 1, MaxFailures)]
    /\ UNCHANGED <<state, openAge, probeToken, probeLeft>>

EnterHalfOpen ==
    /\ state = "OPEN" /\ state' = "HALF_OPEN"
    /\ UNCHANGED <<openAge, failures, probeToken, probeLeft>>

TryAcquireProbe ==
    /\ probeToken = NoToken
    /\ probeToken' \in Token /\ probeLeft' = ProbeTtl
    /\ UNCHANGED <<state, openAge, failures>>

ReleaseProbe ==
    /\ NoProbe
    /\ UNCHANGED <<state, openAge, failures>>

\* Dated by its caller; an open circuit keeps its date.
Open ==
    /\ state # "OPEN" /\ state' = "OPEN"
    /\ openAge' \in 0..MaxOpenAge
    /\ NoProbe
    /\ UNCHANGED failures

\* close, and reset.
Close ==
    /\ state' = "CLOSED" /\ openAge' = 0 /\ failures' = NoFailures
    /\ NoProbe

\* Time alone changes no state: it only dates things back.
Tick ==
    /\ openAge' = IF state = "CLOSED" THEN openAge ELSE Least(openAge + 1, MaxOpenAge)
    /\ failures' = [i \in DOMAIN failures |-> IF i = 0 THEN 0 ELSE failures[i - 1]]
    /\ probeLeft' = IF probeLeft = 0 THEN 0 ELSE probeLeft - 1
    /\ probeToken' = IF probeLeft' = 0 THEN NoToken ELSE probeToken
    /\ UNCHANGED state

Next ==
    \/ RecordFailure \/ EnterHalfOpen \/ TryAcquireProbe \/ ReleaseProbe
    \/ Open \/ Close \/ Tick

Spec == Init /\ [][Next]_store

=============================================================================
