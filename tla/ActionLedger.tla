---------------------------- MODULE ActionLedger ----------------------------
(***************************************************************************)
(* What executeRecoveryAction promises about the gateway, abstracted from  *)
(* rows, jobs and executors: an action's effects happen one at a time,     *)
(* each ends recorded or lost, and a recorded effect is the last one.  A   *)
(* refusal is final as a record, but does not stop an effect under way:    *)
(* that effect can then only be lost.                                      *)
(***************************************************************************)
EXTENDS Naturals

CONSTANT Action

VARIABLES
    effects,    \* calls the gateway carried out, by action
    inHand,     \* the actions whose last effect is neither recorded nor lost yet
    record,     \* the outcome: nothing yet, what the gateway did, or a refusal
    lost        \* effects nobody recorded

vars == <<effects, inHand, record, lost>>

Init ==
    /\ effects = [a \in Action |-> 0]
    /\ inHand = {}
    /\ record = [a \in Action |-> "none"]
    /\ lost = [a \in Action |-> 0]

Act(a) ==
    /\ a \notin inHand /\ record[a] # "acted"
    /\ effects' = [effects EXCEPT ![a] = @ + 1]
    /\ inHand' = inHand \cup {a}
    /\ UNCHANGED <<record, lost>>

Record(a) ==
    /\ a \in inHand /\ record[a] = "none"
    /\ record' = [record EXCEPT ![a] = "acted"]
    /\ inHand' = inHand \ {a}
    /\ UNCHANGED <<effects, lost>>

Refuse(a) ==
    /\ record[a] = "none"
    /\ record' = [record EXCEPT ![a] = "refused"]
    /\ UNCHANGED <<effects, inHand, lost>>

Lose(a) ==
    /\ a \in inHand
    /\ lost' = [lost EXCEPT ![a] = @ + 1]
    /\ inHand' = inHand \ {a}
    /\ UNCHANGED <<effects, record>>

Next == \E a \in Action : Act(a) \/ Record(a) \/ Refuse(a) \/ Lose(a)

Spec == Init /\ [][Next]_vars
=============================================================================
