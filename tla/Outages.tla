------------------------------- MODULE Outages -------------------------------
(***************************************************************************)
(* The Modbus server as its client, the alarm manager, has to know it: it  *)
(* fails and recovers, and reports an outage at most once while it lasts.  *)
(* ModbusSlaveDrv, with its threads, sockets and counters, implements it   *)
(* (module SlaveDrv); the scan cycle is written against it (module Scan).  *)
(***************************************************************************)
VARIABLES
    state,       \* mtDrvState, "off" before start and after stop or close
    reported     \* mfComErrorCallB was called for this outage

service == <<state, reported>>

(* A client may come before the server is started, or after.               *)
Init ==
    /\ state \in {"off", "Running"}
    /\ reported = FALSE

Start ==
    /\ state = "off" /\ state' = "Running"
    /\ UNCHANGED reported

Stop ==
    /\ state' = "off" /\ reported' = FALSE

Fail ==
    /\ state = "Running" /\ state' = "COMError"
    /\ UNCHANGED reported

Report ==
    /\ state = "COMError" /\ ~reported
    /\ reported' = TRUE
    /\ UNCHANGED state

Recover ==
    /\ state = "COMError" /\ state' = "Running"
    /\ reported' = FALSE

Next == Start \/ Stop \/ Fail \/ Report \/ Recover

Spec == Init /\ [][Next]_service
=============================================================================
