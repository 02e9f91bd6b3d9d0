------------------------------- MODULE MCScan -------------------------------
(* Two instances of Scan for TLC in one run, told apart by duty: the       *)
(* orders an operator gives, and what becomes of alarms and outages.       *)
EXTENDS Scan

VARIABLE duty

Orders == {"STR", "SPOK", "PWREG", "OPREG", "PWSP"}
Acknowledgements == {"TRIP", "ALREP"}
OrdersAndAcknowledgements == Orders \cup Acknowledgements
Anything == SUBSET Alarm

MCInit ==
    /\ Init
    /\ duty \in {"orders", "alarms"}
    /\ duty = "orders" => alarms = {}

MCNext ==
    /\ \/ Main
       \/ duty = "alarms" /\ (Fails \/ Reports \/ Recovers)
       \/ \E x \in IF duty = "orders" THEN Orders ELSE Acknowledgements : Write(x)
    /\ UNCHANGED duty

MCSpec == MCInit /\ [][MCNext]_<<vars, duty>> /\ Fairness
=============================================================================
