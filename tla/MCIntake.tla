------------------------------ MODULE MCIntake ------------------------------
(* Instances of Intake for TLC.                                            *)
EXTENDS Intake, TLC

CONSTANTS k1, k2

MCCalendar == <<0, 30, 61>>

Event(method, source, step, words) ==
    [method |-> method, code |-> Text(<<"resp", "77">>, "_"), reason |-> Text(words, "_"),
     source |-> source, step |-> step, description |-> Missing]

MCPayload ==
    [abandoned |-> Event("card", "customer", "authentication", <<"3ds", "abandoned">>),
     revoked |-> Event("mandate", "business", "authorization", <<"mandate", "revoked">>),
     strange |-> Event("card", "gateway", "authorization", <<"response", "code", "77">>),
     cheque |-> Event("cheque", "bank", "authorization", <<"returned">>)]

\* The first key comes with one of two failures, or a method nobody supports.
MCReports == (k1 :> {"abandoned", "revoked", "cheque"}) @@ (k2 :> {"strange"})

MCOccurred == (k1 :> 1) @@ (k2 :> 2)

ClientSymmetry == Permutations(Client)
=============================================================================
