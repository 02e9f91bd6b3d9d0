----------------------------- MODULE MCFieldDrv -----------------------------
(* Three instances of FieldDrv for TLC in one run, told apart by kind.     *)
EXTENDS FieldDrv

CONSTANTS a, p

VARIABLE kind

MCModuleOf == [d \in {a, p} |-> IF d = a THEN 1 ELSE 2]

MCInit == Init /\ kind \in {"errors", "pulse", "ask"}

MCNext ==
    /\ Next
    /\ kind = "errors" => owner' \in {"free", "start", "stop", "close"}
    /\ kind = "ask" => owner' \in {"free", "start", "read", "query", "answered"}
    /\ kind = "pulse" => asked' = None /\ quality'[a] = "OK" /\ slave'[1] = "op"
    /\ kind # "errors" => /\ \A m \in Module : slave'[m] # "safe" /\ syncTrys'[m] = 0
                         /\ (withErrors => withErrors')
    /\ UNCHANGED kind

MCSpec == MCInit /\ [][MCNext]_<<vars, kind>>
=============================================================================
