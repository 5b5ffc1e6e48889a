------------------------ MODULE CircuitBreakerProofs ------------------------
(***************************************************************************)
(* TLAPS proofs about CircuitBreaker, for every number of processes and    *)
(* slots, every threshold, window, cooldown, lock and pace of handlers:    *)
(* its types, and that the Redis store implements the reference store.     *)
(***************************************************************************)
EXTENDS CircuitBreaker, FiniteSetTheorems, TLAPS

\* No handler and no call is older than its bound.
Paced == \A c \in Caller : lag[c] <= IF InCall(c) THEN MaxCall ELSE MaxLag

BInv == TypeOK /\ Paced

Untouched == [i \in 0..(Window - 1) |-> 0]

-----------------------------------------------------------------------------
(* Type correctness.                                                        *)

\* An untouched circuit has its types.
LEMMA ClearedTyped ==
  ASSUME Cleared
  PROVE  /\ state' = "CLOSED" /\ openAge' \in 0..MaxOpenAge
         /\ failures' \in [0..(Window - 1) -> 0..Threshold]
         /\ probe' = NoProcess /\ probeLeft' = 0 /\ probeLeft' \in 0..ProbeTtl
<1>1. 0 \in 0..MaxOpenAge /\ 0 \in 0..Threshold /\ 0 \in 0..ProbeTtl
  BY BreakerAssumption DEF MaxOpenAge
<1>2. QED
  BY <1>1 DEF Cleared

\* A caller that goes on keeps types and pace.
LEMMA GotoKeeps ==
  ASSUME BInv, NEW c \in Caller, NEW l \in Pc, NEW fresh \in BOOLEAN, Goto(c, l, fresh),
         fresh \/ l = "idle" \/ (~InCall(c) /\ l \notin {"calling", "probing"})
  PROVE  /\ pc' \in [Caller -> Pc]
         /\ lag' \in [Caller -> 0..MaxCall + MaxLag]
         /\ Paced'
<1> USE BreakerAssumption DEF BInv, TypeOK, Paced, Goto
<1>1. pc' \in [Caller -> Pc] /\ lag' \in [Caller -> 0..MaxCall + MaxLag]
  OBVIOUS
<1>2. ASSUME NEW d \in Caller
      PROVE  (lag[d] <= IF InCall(d) THEN MaxCall ELSE MaxLag)'
  <2>1. CASE d # c
    BY <1>2, <2>1 DEF InCall
  <2>2. CASE d = c /\ (fresh \/ l = "idle")
    BY <1>2, <2>2 DEF InCall
  <2>3. CASE d = c /\ ~(fresh \/ l = "idle")
    BY <1>2, <2>3 DEF InCall
  <2>4. QED
    BY <2>1, <2>2, <2>3
<1>3. QED
  BY <1>1, <1>2

\* The breaker starts closed, with nobody under way.
LEMMA BInit == Init => BInv
<1> SUFFICES ASSUME Init PROVE BInv
  OBVIOUS
<1>1. 0 \in 0..MaxOpenAge /\ 0 \in 0..Threshold /\ 0 \in 0..ProbeTtl /\ 0 \in 0..MaxCrashes
      /\ 0 \in 0..MaxCall + MaxLag
  BY BreakerAssumption DEF MaxOpenAge
<1>2. TypeOK
  BY <1>1 DEF Init, TypeOK, Pc
<1>3. Paced
  BY BreakerAssumption DEF Init, Paced, InCall
<1>4. QED
  BY <1>2, <1>3 DEF BInv

\* Every step keeps types and pace.
LEMMA BNext == BInv /\ [Next]_vars => BInv'
<1> SUFFICES ASSUME BInv, [Next]_vars PROVE BInv'
  OBVIOUS
<1> USE BreakerAssumption
\* What a step leaves alone, it leaves typed.
<1> DEFINE StoreTyped ==
        /\ state \in {"CLOSED", "OPEN", "HALF_OPEN"}
        /\ openAge \in 0..MaxOpenAge
        /\ failures \in [0..(Window - 1) -> 0..Threshold]
        /\ probe \in Process \cup {NoProcess}
        /\ probeLeft \in 0..ProbeTtl
        /\ probe = NoProcess <=> probeLeft = 0
<1> DEFINE CallersTyped ==
        pc \in [Caller -> Pc] /\ lag \in [Caller -> 0..MaxCall + MaxLag] /\ Paced
<1> DEFINE RestTyped == healthy \in BOOLEAN /\ crashes \in 0..MaxCrashes
<1>0. StoreTyped /\ CallersTyped /\ RestTyped
  BY DEF BInv, TypeOK
<1>a. ASSUME StoreTyped', CallersTyped', RestTyped' PROVE BInv'
  BY <1>a DEF BInv, TypeOK
<1>b. ASSUME UNCHANGED storeVars PROVE StoreTyped'
  BY <1>b, <1>0 DEF storeVars
<1>c. ASSUME UNCHANGED <<healthy, crashes>> PROVE RestTyped'
  BY <1>c, <1>0
<1>d. ASSUME UNCHANGED callerVars PROVE CallersTyped'
  BY <1>d, <1>0 DEF callerVars, Paced, InCall
<1>e. ASSUME Cleared PROVE StoreTyped'
  BY <1>e, ClearedTyped
<1>1. ASSUME NEW c \in Caller, Ask(c) PROVE BInv'
  <2>1. CallersTyped'
    BY <1>1, GotoKeeps DEF Ask, Pc
  <2>2. QED
    BY <1>1, <2>1, <1>a, <1>b, <1>c DEF Ask
<1>2. ASSUME NEW c \in Caller, ReadPermission(c) PROVE BInv'
  <2>1. CallersTyped'
    <3>1. CASE Goto(c, "calling", TRUE)
      BY <3>1, GotoKeeps DEF Pc
    <3>2. CASE Goto(c, "idle", FALSE)
      BY <1>2, <3>2, GotoKeeps DEF Pc
    <3>3. CASE Goto(c, "half", FALSE)
      BY <1>2, <3>3, GotoKeeps DEF ReadPermission, Pc, InCall
    <3>4. CASE Goto(c, "acquire", FALSE)
      BY <1>2, <3>4, GotoKeeps DEF ReadPermission, Pc, InCall
    <3>5. QED
      BY <1>2, <3>1, <3>2, <3>3, <3>4 DEF ReadPermission
  <2>2. QED
    BY <1>2, <2>1, <1>a, <1>b, <1>c DEF ReadPermission
<1>3. ASSUME NEW c \in Caller, EnterHalfOpen(c) PROVE BInv'
  <2>1. CallersTyped'
    BY <1>3, GotoKeeps DEF EnterHalfOpen, Pc, InCall
  <2>2. StoreTyped'
    BY <1>3, <1>0 DEF EnterHalfOpen
  <2>3. QED
    BY <1>3, <2>1, <2>2, <1>a, <1>c DEF EnterHalfOpen
<1>4. ASSUME NEW c \in Caller, Reread(c) PROVE BInv'
  <2>1. CallersTyped'
    BY <1>4, GotoKeeps DEF Reread, Pc, InCall
  <2>2. QED
    BY <1>4, <2>1, <1>a, <1>b, <1>c DEF Reread
<1>5. ASSUME NEW c \in Caller, AcquireProbe(c) PROVE BInv'
  <2>1. CallersTyped'
    <3>1. CASE Goto(c, "idle", FALSE)
      BY <1>5, <3>1, GotoKeeps DEF Pc
    <3>2. CASE Goto(c, "probing", TRUE)
      BY <3>2, GotoKeeps DEF Pc
    <3>3. QED
      BY <1>5, <3>1, <3>2 DEF AcquireProbe
  <2>2. StoreTyped'
    <3>1. ProcessOf[c] \in Process /\ ProcessOf[c] # NoProcess
          /\ ProbeTtl \in 0..ProbeTtl /\ ProbeTtl # 0
      OBVIOUS
    <3>2. QED
      BY <1>5, <3>1, <1>0 DEF AcquireProbe
  <2>3. QED
    BY <1>5, <2>1, <2>2, <1>a, <1>c DEF AcquireProbe
<1>6. ASSUME NEW c \in Caller, Answer(c) \/ Fail(c) PROVE BInv'
  <2>1. CallersTyped'
    BY <1>6, GotoKeeps DEF Answer, Fail, Pc
  <2>2. QED
    BY <1>6, <2>1, <1>a, <1>b, <1>c DEF Answer, Fail
<1>7. ASSUME NEW c \in Caller, ReadAfterSuccess(c) PROVE BInv'
  <2>1. CallersTyped'
    BY <1>7, GotoKeeps DEF ReadAfterSuccess, Pc, InCall
  <2>2. QED
    BY <1>7, <2>1, <1>a, <1>b, <1>c DEF ReadAfterSuccess
<1>8. ASSUME NEW c \in Caller, Close(c) PROVE BInv'
  <2>1. CallersTyped'
    BY <1>8, GotoKeeps DEF Close, Pc, InCall
  <2>2. QED
    BY <1>8, <2>1, <1>a, <1>c, <1>e DEF Close
<1>9. ASSUME NEW c \in Caller, ReleaseProbe(c) PROVE BInv'
  <2>1. CallersTyped'
    BY <1>9, GotoKeeps DEF ReleaseProbe, Pc, InCall
  <2>2. StoreTyped'
    BY <1>9, <1>0 DEF ReleaseProbe
  <2>3. QED
    BY <1>9, <2>1, <2>2, <1>a, <1>c DEF ReleaseProbe
<1>10. ASSUME NEW c \in Caller, RecordFailure(c) PROVE BInv'
  <2>1. CallersTyped'
    BY <1>10, GotoKeeps DEF RecordFailure, Pc, InCall
  <2>2. failures' \in [0..(Window - 1) -> 0..Threshold]
    <3>1. CASE UNCHANGED failures
      BY <3>1, <1>0
    <3>2. CASE ~UNCHANGED failures
      <4>1. lag[c] \in 0..(Window - 1) /\ failures[lag[c]] # Threshold
            /\ failures' = [failures EXCEPT ![lag[c]] = @ + 1]
        BY <1>10, <3>2, <1>0 DEF RecordFailure
      <4>2. failures[lag[c]] + 1 \in 0..Threshold
        BY <4>1, <1>0
      <4>3. QED
        BY <4>1, <4>2, <1>0
    <3>3. QED
      BY <3>1, <3>2
  <2>3. QED
    BY <1>10, <2>1, <2>2, <1>0, <1>a, <1>c DEF RecordFailure
<1>11. ASSUME NEW c \in Caller, ReadAfterFailure(c) PROVE BInv'
  <2>1. CallersTyped'
    BY <1>11, GotoKeeps DEF ReadAfterFailure, Pc, InCall
  <2>2. QED
    BY <1>11, <2>1, <1>a, <1>b, <1>c DEF ReadAfterFailure
<1>12. ASSUME NEW c \in Caller, Open(c) PROVE BInv'
  <2>1. CallersTyped'
    BY <1>12, GotoKeeps DEF Open, Pc, InCall
  <2>2. lag[c] \in 0..MaxOpenAge
    <3>1. lag[c] <= MaxLag
      BY <1>12, <1>0 DEF Open, Paced, InCall
    <3>2. lag[c] \in Nat /\ MaxLag \in Nat /\ Cooldown \in Nat
      BY <1>0
    <3>3. QED
      BY <3>1, <3>2 DEF MaxOpenAge
  <2>3. StoreTyped'
    BY <1>12, <2>2, <1>0 DEF Open
  <2>4. QED
    BY <1>12, <2>1, <2>3, <1>a, <1>c DEF Open
<1>13. ASSUME NEW c \in Caller, Crash(c) PROVE BInv'
  <2>1. CallersTyped'
    BY <1>13, GotoKeeps DEF Crash, Pc
  <2>2. RestTyped'
    BY <1>13, <1>0 DEF Crash
  <2>3. QED
    BY <1>13, <2>1, <2>2, <1>a, <1>b DEF Crash
<1>14. CASE GatewayChanges
  BY <1>14, <1>0, <1>a, <1>b, <1>d DEF GatewayChanges
<1>15. CASE Reset
  BY <1>15, <1>a, <1>c, <1>d, <1>e DEF Reset
<1>16. CASE Tick
  <2>1. CallersTyped'
    <3>1. ASSUME NEW c \in Caller
          PROVE  /\ lag'[c] \in 0..MaxCall + MaxLag
                 /\ lag'[c] <= IF InCall(c) THEN MaxCall ELSE MaxLag
      BY <1>16, <3>1, <1>0 DEF Tick, Paced, InCall
    <3>2. lag' = [c \in Caller |-> lag'[c]] /\ pc' = pc
      BY <1>16 DEF Tick
    <3>3. QED
      BY <3>1, <3>2, <1>0 DEF Paced, InCall
  <2>2. failures' \in [0..(Window - 1) -> 0..Threshold]
    <3>1. ASSUME NEW i \in 0..(Window - 1)
          PROVE  (IF i = 0 THEN 0 ELSE failures[i - 1]) \in 0..Threshold
      BY <3>1, <1>0, SMTT(30)
    <3>2. QED
      BY <1>16, <3>1 DEF Tick
  <2>3. openAge' \in 0..MaxOpenAge /\ state' = state
    BY <1>16, <1>0 DEF Tick, MaxOpenAge
  <2>4. /\ probe' \in Process \cup {NoProcess} /\ probeLeft' \in 0..ProbeTtl
        /\ probe' = NoProcess <=> probeLeft' = 0
    BY <1>16, <1>0 DEF Tick
  <2>5. QED
    BY <1>16, <2>1, <2>2, <2>3, <2>4, <1>0, <1>a, <1>c DEF Tick
<1>17. CASE UNCHANGED vars
  BY <1>17, <1>a, <1>b, <1>c, <1>d DEF vars, storeVars, callerVars
<1>18. QED
  <2> HIDE DEF StoreTyped, CallersTyped, RestTyped
  <2> QED
    BY <1>1, <1>2, <1>3, <1>4, <1>5, <1>6, <1>7, <1>8, <1>9, <1>10, <1>11, <1>12, <1>13,
       <1>14, <1>15, <1>16, <1>17 DEF Next, Proceed

\* Every key of the store and every caller has its type, however the scripts of any
\* number of callers interleave: the lock has an owner exactly while it has time to live.
THEOREM BreakerTypeCorrect == Spec => []TypeOK
<1>1. BInv => TypeOK
  BY DEF BInv
<1>2. QED
  BY <1>1, BInit, BNext, PTL DEF Spec

-----------------------------------------------------------------------------
(* The Redis store implements the reference store.                          *)

\* The untouched keys are those of an empty reference store.
LEMMA StoreInit == Init => Store!Init
  BY DEF Init, Store!Init, Store!NoFailures

\* Whatever deletes all keys is the reference store's close.
LEMMA StoreCleared ==
  ASSUME Cleared
  PROVE  Store!Next
<1>1. Store!Close
  BY DEF Cleared, Store!Close, Store!NoFailures, Store!NoProbe
<1>2. QED
  BY <1>1 DEF Store!Next

\* ZADD counts a failure in one of the window's ticks, up to the bound.
LEMMA StoreRecords ==
  ASSUME BInv, NEW c \in Caller, RecordFailure(c)
  PROVE  Store!Next \/ UNCHANGED storeVars
<1> USE BreakerAssumption
<1>1. CASE UNCHANGED failures
  BY <1>1 DEF RecordFailure, storeVars
<1>2. CASE ~UNCHANGED failures
  <2>1. lag[c] \in 0..(Window - 1) /\ failures[lag[c]] # Threshold
        /\ failures' = [failures EXCEPT ![lag[c]] = @ + 1]
    BY <1>2 DEF RecordFailure, BInv, TypeOK
  <2>2. failures[lag[c]] + 1 = Store!Least(failures[lag[c]] + 1, Threshold)
    BY <2>1 DEF BInv, TypeOK, Store!Least
  <2>3. lag[c] \in DOMAIN failures
    BY <2>1 DEF BInv, TypeOK
  <2>4. failures' = [failures EXCEPT ![lag[c]] = Store!Least(failures[lag[c]] + 1, Threshold)]
    BY <2>1, <2>2
  <2>5. Store!RecordFailure
    BY <2>3, <2>4 DEF RecordFailure, Store!RecordFailure
  <2>6. QED
    BY <2>5 DEF Store!Next
<1>3. QED
  BY <1>1, <1>2

\* OPEN_CIRCUIT dates the opening by its caller, within the bound.
LEMMA StoreOpens ==
  ASSUME BInv, NEW c \in Caller, Open(c)
  PROVE  Store!Next \/ UNCHANGED storeVars
<1> USE BreakerAssumption
<1>1. CASE state = "OPEN"
  BY <1>1 DEF Open, storeVars
<1>2. CASE state # "OPEN"
  <2>1. lag[c] <= MaxLag
    BY DEF Open, BInv, Paced, InCall
  <2>2. lag[c] \in Nat /\ MaxLag \in Nat /\ Cooldown \in Nat
    BY DEF BInv, TypeOK
  <2>3. lag[c] \in 0..MaxOpenAge
    BY <2>1, <2>2 DEF MaxOpenAge
  <2>4. Store!Open
    BY <1>2, <2>3 DEF Open, Store!Open, Store!NoProbe
  <2>5. QED
    BY <2>4 DEF Store!Next
<1>3. QED
  BY <1>1, <1>2

\* A tick ages the keys as it ages the reference store.
LEMMA StoreTicks ==
  ASSUME BInv, Tick
  PROVE  Store!Next
<1> USE BreakerAssumption
<1>1. openAge \in 0..MaxOpenAge /\ MaxOpenAge \in Nat /\ probeLeft \in Nat
      /\ DOMAIN failures = 0..(Window - 1) /\ (probe = NoProcess <=> probeLeft = 0)
  BY DEF BInv, TypeOK, MaxOpenAge
<1>2. openAge' = IF state = "CLOSED" THEN openAge ELSE Store!Least(openAge + 1, MaxOpenAge)
  BY <1>1 DEF Tick, Store!Least
<1>3. failures' = [i \in DOMAIN failures |-> IF i = 0 THEN 0 ELSE failures[i - 1]]
  BY <1>1 DEF Tick
<1>4. probeLeft' = (IF probeLeft = 0 THEN 0 ELSE probeLeft - 1)
      /\ probe' = IF probeLeft' = 0 THEN NoProcess ELSE probe
  BY <1>1 DEF Tick
<1>5. Store!Tick
  BY <1>2, <1>3, <1>4 DEF Tick, Store!Tick
<1>6. QED
  BY <1>5 DEF Store!Next

\* Every step of the breaker is an operation of the reference store or leaves it alone.
LEMMA StoreNext == BInv /\ [Next]_vars => Store!Next \/ UNCHANGED storeVars
<1> SUFFICES ASSUME BInv, [Next]_vars PROVE Store!Next \/ UNCHANGED storeVars
  OBVIOUS
<1>1. ASSUME NEW c \in Caller,
             Ask(c) \/ ReadPermission(c) \/ Reread(c) \/ Answer(c) \/ Fail(c)
             \/ ReadAfterSuccess(c) \/ ReadAfterFailure(c) \/ Crash(c)
      PROVE  UNCHANGED storeVars
  BY <1>1 DEF Ask, ReadPermission, Reread, Answer, Fail, ReadAfterSuccess, ReadAfterFailure, Crash
<1>2. ASSUME NEW c \in Caller, EnterHalfOpen(c)
      PROVE  Store!Next \/ UNCHANGED storeVars
  <2>1. CASE state = "OPEN"
    BY <1>2, <2>1 DEF EnterHalfOpen, Store!EnterHalfOpen, Store!Next
  <2>2. CASE state # "OPEN"
    BY <1>2, <2>2 DEF EnterHalfOpen, storeVars
  <2>3. QED
    BY <2>1, <2>2
<1>3. ASSUME NEW c \in Caller, AcquireProbe(c)
      PROVE  Store!Next \/ UNCHANGED storeVars
  <2>1. CASE ProbeHeld
    BY <1>3, <2>1 DEF AcquireProbe, storeVars
  <2>2. CASE ~ProbeHeld
    <3>1. ProcessOf[c] \in Process
      BY BreakerAssumption
    <3>2. Store!TryAcquireProbe
      BY <1>3, <2>2, <3>1 DEF AcquireProbe, ProbeHeld, Store!TryAcquireProbe
    <3>3. QED
      BY <3>2 DEF Store!Next
  <2>3. QED
    BY <2>1, <2>2
<1>4. ASSUME NEW c \in Caller, Close(c)
      PROVE  Store!Next
  BY <1>4, StoreCleared DEF Close
<1>5. ASSUME NEW c \in Caller, ReleaseProbe(c)
      PROVE  Store!Next \/ UNCHANGED storeVars
  <2>1. CASE probe = ProcessOf[c]
    BY <1>5, <2>1 DEF ReleaseProbe, Store!ReleaseProbe, Store!NoProbe, Store!Next
  <2>2. CASE probe # ProcessOf[c]
    BY <1>5, <2>2 DEF ReleaseProbe, storeVars
  <2>3. QED
    BY <2>1, <2>2
<1>6. CASE GatewayChanges
  BY <1>6 DEF GatewayChanges
<1>7. CASE Reset
  BY <1>7, StoreCleared DEF Reset
<1>8. CASE Tick
  BY <1>8, StoreTicks
<1>9. CASE UNCHANGED vars
  BY <1>9 DEF vars
<1>10. QED
  BY <1>1, <1>2, <1>3, <1>4, <1>5, <1>6, <1>7, <1>8, <1>9, StoreRecords, StoreOpens
  DEF Next, Proceed

\* The Redis store, under any number of callers whose scripts interleave, die and are
\* overtaken by time and resets, does nothing that the reference store in memory could
\* not do: each script is one operation of it, or none.
THEOREM RedisImplementsReference == Spec => ImplementsStore
<1>1. BInv /\ [Next]_vars => [Store!Next]_(Store!store)
  BY StoreNext DEF storeVars, Store!store
<1>2. QED
  BY <1>1, StoreInit, BInit, BNext, PTL DEF Spec, ImplementsStore, Store!Spec

-----------------------------------------------------------------------------
(* Storms are noticed.                                                     *)

\* The window is finite, and an untouched one is below every threshold.
LEMMA MembersFinite == IsFiniteSet(Members) /\ FailureCount \in Nat
<1>1. IsFiniteSet(0..(Window - 1)) /\ IsFiniteSet(1..Threshold)
  BY FS_Interval, BreakerAssumption
<1>2. IsFiniteSet((0..(Window - 1)) \X (1..Threshold))
  BY <1>1, FS_Product
<1>3. Members \subseteq (0..(Window - 1)) \X (1..Threshold)
  BY DEF Members
<1>4. IsFiniteSet(Members)
  BY <1>2, <1>3, FS_Subset
<1>5. QED
  BY <1>4, FS_CardinalityType DEF FailureCount

LEMMA ClearedCalm ==
  ASSUME Cleared
  PROVE  FailureCount' = 0
<1>1. failures' = [i \in 0..(Window - 1) |-> 0]
  BY DEF Cleared
<1>2. Members' = {}
  BY <1>1, BreakerAssumption DEF Members
<1>3. QED
  BY <1>2, FS_EmptySet DEF FailureCount

\* A tick takes failures out of the window and brings none.
LEMMA TickForgets ==
  ASSUME BInv, Tick
  PROVE  FailureCount' \in Nat /\ FailureCount' <= FailureCount
<1> USE BreakerAssumption
<1>1. failures' = [i \in 0..(Window - 1) |-> IF i = 0 THEN 0 ELSE failures[i - 1]]
  BY DEF Tick
<1>2. PICK younger : younger = [m \in Members' |-> <<m[1] - 1, m[2]>>]
  OBVIOUS
<1>3. \A m \in Members' :
         /\ m[1] \in 1..(Window - 1) /\ m[2] \in 1..Threshold /\ m = <<m[1], m[2]>>
         /\ m[2] <= failures[m[1] - 1]
  <2> SUFFICES ASSUME NEW m \in Members'
               PROVE  /\ m[1] \in 1..(Window - 1) /\ m[2] \in 1..Threshold
                      /\ m = <<m[1], m[2]>> /\ m[2] <= failures[m[1] - 1]
    OBVIOUS
  <2>1. PICK i \in 0..(Window - 1), k \in 1..Threshold : m = <<i, k>> /\ k <= failures'[i]
    BY DEF Members
  <2>2. i # 0 /\ k <= failures[i - 1]
    BY <1>1, <2>1
  <2>3. QED
    BY <2>1, <2>2
<1>4. \A m \in Members' : younger[m] \in Members
  <2> SUFFICES ASSUME NEW m \in Members' PROVE younger[m] \in Members
    OBVIOUS
  <2>1. younger[m] = <<m[1] - 1, m[2]>>
    BY <1>2
  <2>2. m[1] - 1 \in 0..(Window - 1)
    BY <1>3
  <2>3. QED
    BY <1>3, <2>1, <2>2 DEF Members
<1>5. \A m, n \in Members' : younger[m] = younger[n] => m = n
  <2> SUFFICES ASSUME NEW m \in Members', NEW n \in Members', younger[m] = younger[n]
               PROVE  m = n
    OBVIOUS
  <2>1. m[1] - 1 = n[1] - 1 /\ m[2] = n[2]
    BY <1>2
  <2>2. m[1] = n[1]
    BY <1>3, <2>1
  <2>3. QED
    BY <1>3, <2>1, <2>2
<1>6. PICK later : later = Members'
  OBVIOUS
<1>7. younger \in Injection(later, Members)
  BY <1>2, <1>4, <1>5, <1>6 DEF Injection, IsInjective
<1>8. IsFiniteSet(later) /\ Cardinality(later) <= Cardinality(Members)
  BY <1>7, MembersFinite, FS_Injection
<1>9. Cardinality(later) \in Nat
  BY <1>8, FS_CardinalityType
<1>10. QED
  BY <1>6, <1>8, <1>9 DEF FailureCount

\* Every step that could leave a storm unnoticed leaves a report behind that will notice.
LEMMA StormStep == BInv /\ StormsTrip /\ [Next]_vars => StormsTrip'
<1> SUFFICES ASSUME BInv, StormsTrip, [Next]_vars,
                    state' = "CLOSED", FailureCount' >= Threshold, crashes' = 0
             PROVE  \E c \in Caller : pc'[c] \in {"count", "reopen", "trip"}
  BY DEF StormsTrip
<1>1. Threshold \in Nat \ {0} /\ FailureCount \in Nat /\ crashes \in Nat
      /\ pc \in [Caller -> Pc]
  BY BreakerAssumption, MembersFinite DEF BInv, TypeOK
<1>2. ~Cleared
  BY <1>1, ClearedCalm
<1>3. ASSUME state = "CLOSED", FailureCount >= Threshold, crashes = 0
      PROVE  \E c \in Caller : pc[c] \in {"count", "reopen", "trip"}
  BY <1>3 DEF StormsTrip
<1>4. ASSUME UNCHANGED failures
      PROVE  FailureCount >= Threshold
  BY <1>4 DEF FailureCount, Members
<1>5. ASSUME UNCHANGED <<state, failures, pc, crashes>>
      PROVE  \E c \in Caller : pc'[c] \in {"count", "reopen", "trip"}
  BY <1>3, <1>4, <1>5
<1>6. ASSUME NEW c \in Caller, NEW l \in Pc, NEW fresh \in BOOLEAN, Goto(c, l, fresh),
             UNCHANGED <<state, failures, crashes>>,
             pc[c] \notin {"count", "reopen", "trip"} \/ l \in {"count", "reopen", "trip"}
      PROVE  \E d \in Caller : pc'[d] \in {"count", "reopen", "trip"}
  <2>1. PICK d \in Caller : pc[d] \in {"count", "reopen", "trip"}
    BY <1>3, <1>4, <1>6
  <2>2. pc' = [pc EXCEPT ![c] = l]
    BY <1>6 DEF Goto
  <2>3. QED
    BY <1>1, <1>6, <2>1, <2>2
<1>7. ASSUME NEW c \in Caller, Ask(c) \/ Answer(c) \/ Fail(c) \/ Reread(c) \/ ReadAfterSuccess(c)
      PROVE  \E d \in Caller : pc'[d] \in {"count", "reopen", "trip"}
  BY <1>6, <1>7 DEF Ask, Answer, Fail, Reread, ReadAfterSuccess, InCall, Pc, storeVars
<1>8. ASSUME NEW c \in Caller, ReadPermission(c)
      PROVE  \E d \in Caller : pc'[d] \in {"count", "reopen", "trip"}
  BY <1>6, <1>8 DEF ReadPermission, Pc, storeVars
<1>9. ASSUME NEW c \in Caller, AcquireProbe(c)
      PROVE  \E d \in Caller : pc'[d] \in {"count", "reopen", "trip"}
  BY <1>6, <1>9 DEF AcquireProbe, Pc
<1>10. ASSUME NEW c \in Caller, EnterHalfOpen(c)
       PROVE  \E d \in Caller : pc'[d] \in {"count", "reopen", "trip"}
  <2>1. state' = state
    BY <1>10 DEF EnterHalfOpen
  <2>2. QED
    BY <1>6, <1>10, <2>1 DEF EnterHalfOpen, Pc
<1>11. ASSUME NEW c \in Caller, ReleaseProbe(c)
       PROVE  \E d \in Caller : pc'[d] \in {"count", "reopen", "trip"}
  BY <1>6, <1>11 DEF ReleaseProbe, Pc
<1>12. ASSUME NEW c \in Caller, RecordFailure(c)
       PROVE  \E d \in Caller : pc'[d] \in {"count", "reopen", "trip"}
  BY <1>1, <1>12 DEF RecordFailure, Goto
<1>13. ASSUME NEW c \in Caller, ReadAfterFailure(c)
       PROVE  \E d \in Caller : pc'[d] \in {"count", "reopen", "trip"}
  <2>1. state = "CLOSED" /\ FailureCount >= Threshold
    BY <1>4, <1>13 DEF ReadAfterFailure, storeVars
  <2>2. ~(FailureCount < Threshold)
    BY <1>1, <2>1
  <2>3. Goto(c, "reopen", FALSE) \/ Goto(c, "trip", FALSE)
    BY <1>13, <2>1, <2>2, Zenon DEF ReadAfterFailure
  <2>4. QED
    BY <1>1, <2>3 DEF Goto
<1>14. ASSUME NEW c \in Caller, Open(c) PROVE FALSE
  BY <1>14 DEF Open
<1>15. ASSUME NEW c \in Caller, Crash(c) PROVE FALSE
  BY <1>1, <1>15 DEF Crash
<1>16. CASE Tick
  <2>1. FailureCount' \in Nat /\ FailureCount' <= FailureCount
    BY <1>16, TickForgets
  <2>2. FailureCount >= Threshold /\ state = "CLOSED" /\ crashes = 0 /\ pc' = pc
    BY <1>1, <1>16, <2>1 DEF Tick
  <2>3. QED
    BY <1>3, <2>2
<1>17. CASE GatewayChanges
  BY <1>5, <1>17 DEF GatewayChanges, storeVars, callerVars
<1>18. CASE UNCHANGED vars
  BY <1>5, <1>18 DEF vars, storeVars, callerVars
<1>19. QED
  BY <1>2, <1>7, <1>8, <1>9, <1>10, <1>11, <1>12, <1>13, <1>14, <1>15, <1>16, <1>17, <1>18
  DEF Next, Proceed, Close, Reset

\* A storm is noticed, for every threshold and window and however the reports of any
\* number of callers, the closings and the resets interleave: unless a report dies, a
\* closed circuit never holds as many failures as the threshold with nobody about to see.
THEOREM StormsAreNoticed == Spec => []StormsTrip
<1>1. Init => StormsTrip
  <2> SUFFICES ASSUME Init PROVE ~(FailureCount >= Threshold)
    BY DEF StormsTrip
  <2>1. Members = {}
    BY BreakerAssumption DEF Init, Members
  <2>2. FailureCount = 0
    BY <2>1, FS_EmptySet DEF FailureCount
  <2>3. QED
    BY <2>2, BreakerAssumption
<1>2. QED
  BY <1>1, StormStep, BInit, BNext, PTL DEF Spec

=============================================================================
