-------------------------- MODULE MCCircuitBreaker --------------------------
(* Instances of CircuitBreaker for TLC.                                    *)
EXTENDS CircuitBreaker, SequencesExt

\* Callers spread over the processes, the first process taking the odd ones.
Spread ==
    LET callers == SetToSeq(Caller)
        processes == SetToSeq(Process)
    IN  [c \in Caller |->
            processes[1 + ((CHOOSE i \in DOMAIN callers : callers[i] = c) % Len(processes))]]
=============================================================================
