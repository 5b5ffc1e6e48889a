------------------------ MODULE MCRecoveryExecution ------------------------
(* Instances of RecoveryExecution for TLC.                                 *)
EXTENDS RecoveryExecution, TLC

\* Every action belongs to the one payment of the instance.
OnePayment == [a \in Action |-> CHOOSE p \in Payment : TRUE]

WorkerSymmetry == Permutations(Worker)
ActionAndWorkerSymmetry == Permutations(Worker) \cup Permutations(Action)
=============================================================================
