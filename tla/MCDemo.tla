------------------------------- MODULE MCDemo -------------------------------
(* Instances of Demo for TLC.                                              *)
EXTENDS Demo

MCCalendar == <<0, 30, 61>>

\* The whole dataset, beyond the payments that are played: every payment shows the cause
\* it is there for, and with the real numbers the storm's eight executions hold the five
\* failures that open the circuit.
Diagnosed(p) == Diagnose(DEMO_PAYMENTS[p].failure).cause
Schedules(p) == Decide(FreshContext(DEMO_PAYMENTS[p].failure, Now)).action \in Schedulable
Stormed == SubSeq(SelectSeq([p \in DOMAIN DEMO_PAYMENTS |-> p], Schedules), 1, 8)
Charging(p) == Decide(FreshContext(DEMO_PAYMENTS[p].failure, Now)).action \in RetryingActions

ASSUME WholeDatasetAssumption ==
    /\ \A p \in DOMAIN DEMO_PAYMENTS : Diagnosed(p) = DEMO_PAYMENTS[p].expected
    /\ Len(SelectSeq(Stormed, Charging)) >= 5
=============================================================================
