----------------------------- MODULE FieldSource -----------------------------
(***************************************************************************)
(* What the field driver promises to whoever gave it an error callback:    *)
(* the variables in error change only while it exchanges data, every       *)
(* change to an error state is reported before anything else happens, and  *)
(* it says Running again only when no variable is in error.  EthercatDrv   *)
(* (module FieldDrv) implements it; the alarm manager of the regulator is  *)
(* written to build on it.                                                 *)
(***************************************************************************)
CONSTANT Dev      \* the addresses of the field variables

VARIABLES
    drvState,     \* mtDrvState
    varErrors,    \* mVarErrors, "OK" for an address that is not in it
    owed,         \* an error state was entered and not reported yet
    withErrors    \* what the callback sets and the client takes

source == <<drvState, varErrors, owed, withErrors>>

DrvState == {"UnInit", "Stopped", "Running", "VarError", "COMError"}
Failed   == {"VarError", "COMError"}
QuState  == {"OK", "OverRange", "UnderRange", "ComError"}

Exchanging == drvState \in {"Running"} \cup Failed /\ ~owed

Init ==
    /\ drvState = "UnInit"
    /\ varErrors = [d \in Dev |-> "OK"]
    /\ owed = FALSE /\ withErrors = FALSE

(* init, start, stop and close.                                            *)
Owner ==
    /\ ~owed
    /\ drvState' = "Running" => drvState = "Stopped"
    /\ drvState' \in {"UnInit", "Stopped", "Running"}
    /\ UNCHANGED <<varErrors, owed, withErrors>>

(* newVarError and clearVarError.                                          *)
Assess(d, q) ==
    /\ Exchanging
    /\ varErrors' = [varErrors EXCEPT ![d] = q]
    /\ UNCHANGED <<drvState, owed, withErrors>>

Fail(s) ==
    /\ Exchanging /\ drvState # s
    /\ drvState' = s /\ owed' = TRUE
    /\ UNCHANGED <<varErrors, withErrors>>

Report ==
    /\ owed
    /\ owed' = FALSE /\ withErrors' = TRUE
    /\ UNCHANGED <<drvState, varErrors>>

Recover ==
    /\ Exchanging
    /\ \A d \in Dev : varErrors[d] = "OK"
    /\ drvState' = "Running"
    /\ UNCHANGED <<varErrors, owed, withErrors>>

Cycle ==
    \/ \E d \in Dev, q \in QuState : Assess(d, q)
    \/ \E s \in Failed : Fail(s)
    \/ Report \/ Recover

(* The client looks at the flag.                                           *)
Take ==
    /\ withErrors' = FALSE
    /\ UNCHANGED <<drvState, varErrors, owed>>

Next == Owner \/ Cycle \/ Take

Spec == Init /\ [][Next]_source
=============================================================================
