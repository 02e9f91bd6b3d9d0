-------------------------------- MODULE Scan --------------------------------
(***************************************************************************)
(* The scan cycle of the regulator.  Three threads meet in it:             *)
(*                                                                         *)
(*  - the main thread (Regulator/src/main.cpp) initialises the image and   *)
(*    then scans every 10 ms: updateInputs, checkDriverErrors,             *)
(*    updateControl, updateOutputs;                                        *)
(*  - the thread of the Modbus server writes what masters send, and reports*)
(*    its outages (mfComErrorCallB, at most once for each: see SlaveDrv);  *)
(*  - masters write registers in any order, also before the first scan:    *)
(*    the server runs while the image is still being initialised.          *)
(*                                                                         *)
(* The main thread shares with them the registers, one access under        *)
(* mtIOMapMutex at a time, the flag mbWithErrors and the driver's state.   *)
(* The field driver is not started (main.cpp:53): its state stays UnInit   *)
(* and no field input is mapped.                                           *)
(***************************************************************************)
EXTENDS Naturals, Sequences

CONSTANTS
    Used,      \* inputs that masters write
    MayFail,   \* whether the Modbus server has outages
    Leftover,  \* what mpuiLogicErrors may hold before it is written
    MaxSP      \* bound: set points sent of each kind, numbered from 1

(* The slave inputs of the image, in the order updateInputs reads them.    *)
Inputs   == <<"STR", "TRIP", "ALREP", "SPOK", "PWREG", "OPREG", "PWSP", "OPSP">>
Input    == {Inputs[i] : i \in 1..8}
SetPoint == {"PWSP", "OPSP"}

(* Alarms of the one word there is, those of them the program can set.     *)
Alarm == {"TRIPEXT", "TRIPINT", "MAYOR", "MINOR", "MASTERCOM"}

ASSUME UsedAssumption == Used \subseteq Input
ASSUME MayFailAssumption == MayFail \in BOOLEAN
ASSUME LeftoverAssumption == Leftover \subseteq SUBSET Alarm
ASSUME MaxSPAssumption == MaxSP \in Nat

(* What ioImage.init gives an input: the trip command is active low.       *)
Initial(x) == IF x = "TRIP" THEN 1 ELSE 0
Value(x) == IF x \in SetPoint THEN 0..MaxSP ELSE {0, 1}

(* The set point the control takes itself when the turbine is up to speed: *)
(* 50, which no master has sent.                                           *)
Rated == MaxSP + 1

VARIABLES
    reg,         \* input registers of the Modbus server
    out,         \* registers the scan publishes
    \* main thread
    main,        \* where it is
    next,        \* index of the input to be initialised or read
    io,          \* mSlaveIn
    iState,      \* Control::iState
    speed,       \* SE_REG_F1: 0 up to 59, 1 up to 65, 2 above
    pwsp,        \* ZC_REG_PWSP
    opsp,        \* ZC_REG_OPSP
    alarms,      \* mpuiLogicErrors
    \* AlarmManager and driver
    withErrors,  \* mbWithErrors
    slvState,    \* mtDrvState of the server
    \* history
    reported,    \* this outage was reported
    cleared,     \* the alarms were cleared since
    asked,       \* power set point in place when SPOK was pressed last
    confirmed,   \* asked, when the scan read SPOK pressed
    lost         \* set points a master had sent before init wrote them

control == <<iState, speed, pwsp, opsp>>
server  == <<slvState, reported>>
order   == <<asked, confirmed, lost>>
vars    == <<reg, out, main, next, io, control, alarms, withErrors, server, cleared, order>>

TypeOK ==
    /\ \A x \in Input : reg[x] \in Value(x) /\ io[x] \in Value(x)
    /\ out \in [state : {0, 1, 4, 6, 7}, pwsp : 0..Rated, opsp : 0..MaxSP, alarms : SUBSET Alarm]
    /\ main \in {"init", "in", "take", "look", "control", "state", "points", "alarms"}
    /\ next \in 1..8
    /\ iState \in {0, 1, 4, 6, 7}
    /\ speed \in 0..2
    /\ pwsp \in 0..Rated
    /\ opsp \in 0..MaxSP
    /\ alarms \subseteq Alarm
    /\ withErrors \in BOOLEAN
    /\ slvState \in {"Running", "COMError"}
    /\ reported \in BOOLEAN
    /\ cleared \in BOOLEAN
    /\ asked \in 0..MaxSP
    /\ confirmed \in 0..MaxSP
    /\ lost \subseteq SetPoint

(* The server was started on a mapping of zeros; the words of the alarm    *)
(* manager hold whatever new left in them.                                 *)
Init ==
    /\ reg = [x \in Input |-> 0]
    /\ out = [state |-> 0, pwsp |-> 0, opsp |-> 0, alarms |-> {}]
    /\ main = "init" /\ next = 1
    /\ io = [x \in Input |-> Initial(x)]
    /\ iState = 0 /\ speed = 0 /\ pwsp = 0 /\ opsp = 0
    /\ alarms \in Leftover
    /\ withErrors = FALSE
    /\ slvState = "Running" /\ reported = FALSE /\ cleared = FALSE
    /\ asked = 0 /\ confirmed = 0 /\ lost = {}

-----------------------------------------------------------------------------
(* Masters                                                                 *)

(* A master writes an input: a command either way, a set point the next.   *)
Write(x) ==
    /\ reg' = [reg EXCEPT ![x] = IF x \in SetPoint THEN @ + 1 ELSE 1 - @]
    /\ x \in SetPoint => reg[x] < MaxSP
    /\ asked' = IF x = "SPOK" /\ reg[x] = 0 THEN reg["PWSP"] ELSE asked
    /\ UNCHANGED <<out, main, next, io, control, alarms, withErrors, server, cleared,
                   confirmed, lost>>

-----------------------------------------------------------------------------
(* The server, as the alarm manager sees it                                *)

Fails ==
    /\ MayFail
    /\ slvState = "Running"
    /\ slvState' = "COMError" /\ reported' = FALSE
    /\ UNCHANGED <<reg, out, main, next, io, control, alarms, withErrors, cleared, order>>

(* driverFailed                                                            *)
Reports ==
    /\ slvState = "COMError" /\ ~reported
    /\ withErrors' = TRUE /\ reported' = TRUE /\ cleared' = FALSE
    /\ UNCHANGED <<reg, out, main, next, io, control, alarms, slvState, order>>

Recovers ==
    /\ slvState = "COMError"
    /\ slvState' = "Running" /\ reported' = FALSE
    /\ UNCHANGED <<reg, out, main, next, io, control, alarms, withErrors, cleared, order>>

-----------------------------------------------------------------------------
(* The main thread                                                         *)

(* ioImage.init writes the initial values over what is there.              *)
InitInput ==
    /\ main = "init"
    /\ LET x == Inputs[next] IN
         /\ reg' = [reg EXCEPT ![x] = Initial(x)]
         /\ lost' = IF x \in SetPoint /\ reg[x] # 0 THEN lost \cup {x} ELSE lost
    /\ IF next = 8 THEN main' = "in" /\ next' = 1 ELSE next' = next + 1 /\ UNCHANGED main
    /\ UNCHANGED <<out, io, control, alarms, withErrors, server, cleared, asked, confirmed>>

(* Mutant: the inputs are read from the last to the first.                 *)
ReadBackwards ==
    /\ main = "in"
    /\ LET x == Inputs[9 - next] IN
         /\ io' = [io EXCEPT ![x] = reg[x]]
         /\ confirmed' = IF x = "SPOK" /\ reg[x] = 1 THEN asked ELSE confirmed
    /\ IF next = 8 THEN main' = "take" /\ next' = 1 ELSE next' = next + 1 /\ UNCHANGED main
    /\ UNCHANGED <<reg, out, control, alarms, withErrors, server, cleared, asked, lost>>

(* updateInputs reads one input after the other.                           *)
ReadInput ==
    /\ main = "in"
    /\ LET x == Inputs[next] IN
         /\ io' = [io EXCEPT ![x] = reg[x]]
         /\ confirmed' = IF x = "SPOK" /\ reg[x] = 1 THEN asked ELSE confirmed
    /\ IF next = 8 THEN main' = "take" /\ next' = 1 ELSE next' = next + 1 /\ UNCHANGED main
    /\ UNCHANGED <<reg, out, control, alarms, withErrors, server, cleared, asked, lost>>

(* checkDriverErrors takes the flag first                                  *)
TakeFlag ==
    /\ main = "take"
    /\ main' = IF withErrors THEN "look" ELSE "control"
    /\ withErrors' = FALSE
    /\ UNCHANGED <<reg, out, next, io, control, alarms, server, cleared, order>>

(* setAlarm: an alarm of level 1 is a major fault, and but for the         *)
(* external trip an internal one; one of level 0 is a minor fault.         *)
SetTripExt   == alarms' = alarms \cup {"TRIPEXT", "MAYOR"}

(* Mutant: only the fault is set, not its cause.                           *)
SetMinorOnly == alarms' = alarms \cup {"MINOR"}

SetMasterCom == alarms' = alarms \cup {"MASTERCOM", "MINOR"}

(* clearAlarms; cleared records that the operator asked for it.            *)
ClearAlarms == alarms' = {} /\ cleared' = (io["ALREP"] = 1 \/ cleared)

(* and looks at the state then, which may have changed since.              *)
LookAtState ==
    /\ main = "look"
    /\ IF slvState = "COMError" THEN SetMasterCom ELSE UNCHANGED alarms
    /\ main' = "control"
    /\ UNCHANGED <<reg, out, next, io, control, withErrors, server, cleared, order>>

(* Mutant: the acknowledgement goes before the trip command.               *)
AlarmsClearFirst ==
    \/ io["ALREP"] = 1 /\ ClearAlarms
    \/ io["ALREP"] # 1 /\ io["TRIP"] = 0 /\ SetTripExt /\ UNCHANGED cleared
    \/ io["ALREP"] # 1 /\ io["TRIP"] # 0 /\ UNCHANGED <<alarms, cleared>>

(* Mutant: without a trip the alarms are cleared in every scan.            *)
AlarmsAlwaysClear ==
    \/ io["TRIP"] = 0 /\ SetTripExt /\ UNCHANGED cleared
    \/ io["TRIP"] # 0 /\ ClearAlarms

(* The trip command goes before the acknowledgement.                       *)
ControlAlarms ==
    \/ io["TRIP"] = 0 /\ SetTripExt /\ UNCHANGED cleared
    \/ io["TRIP"] # 0 /\ io["ALREP"] = 1 /\ ClearAlarms
    \/ io["TRIP"] # 0 /\ io["ALREP"] # 1 /\ UNCHANGED <<alarms, cleared>>

(* Mutant: the state is advanced, not set.                                 *)
RunUpByThree ==
    /\ speed' \in {speed, speed + 1} \cap 0..2
    /\ iState' = CASE speed' = 0 -> 1
                   [] speed' = 1 -> iState + 3
                   [] speed' = 2 -> 6
    /\ pwsp' = IF speed' = 2 THEN Rated ELSE pwsp
    /\ UNCHANGED opsp

(* The turbine runs up; at speed it takes power regulation.                *)
RunUp ==
    /\ speed' \in {speed, speed + 1} \cap 0..2
    /\ iState' = CASE speed' = 0 -> 1
                   [] speed' = 1 -> 4
                   [] speed' = 2 -> 6
    /\ pwsp' = IF speed' = 2 THEN Rated ELSE pwsp
    /\ UNCHANGED opsp

PowerRegulation ==
    \/ /\ io["OPREG"] = 1
       /\ iState' = 7
       /\ UNCHANGED <<speed, pwsp, opsp>>
    \/ /\ io["OPREG"] # 1
       /\ pwsp' = IF io["SPOK"] = 1 THEN io["PWSP"] ELSE pwsp
       /\ UNCHANGED <<iState, speed, opsp>>

(* Mutant: the way out of opening regulation asks for the other command.   *)
OpeningByOpreg ==
    \/ /\ io["OPREG"] = 1
       /\ iState' = 6
       /\ UNCHANGED <<speed, pwsp, opsp>>
    \/ /\ io["OPREG"] # 1
       /\ opsp' = io["OPSP"]
       /\ UNCHANGED <<iState, speed, pwsp>>

OpeningRegulation ==
    \/ /\ io["PWREG"] = 1
       /\ iState' = 6
       /\ UNCHANGED <<speed, pwsp, opsp>>
    \/ /\ io["PWREG"] # 1
       /\ opsp' = io["OPSP"]
       /\ UNCHANGED <<iState, speed, pwsp>>

Control ==
    /\ main = "control"
    /\ ControlAlarms
    /\ \/ iState = 0 /\ io["STR"] # 1 /\ UNCHANGED control
       \/ iState = 0 /\ io["STR"] = 1 /\ RunUp
       \/ iState \in {1, 4} /\ RunUp
       \/ iState = 6 /\ PowerRegulation
       \/ iState = 7 /\ OpeningRegulation
    /\ main' = "state"
    /\ UNCHANGED <<reg, out, next, io, withErrors, server, order>>

(* updateOutputs: slave outputs, field outputs, words of the alarm manager.*)
WriteState ==
    /\ main = "state"
    /\ out' = [out EXCEPT !.state = iState]
    /\ main' = "points"
    /\ UNCHANGED <<reg, next, io, control, alarms, withErrors, server, cleared, order>>

WritePoints ==
    /\ main = "points"
    /\ out' = [out EXCEPT !.pwsp = pwsp, !.opsp = opsp]
    /\ main' = "alarms"
    /\ UNCHANGED <<reg, next, io, control, alarms, withErrors, server, cleared, order>>

WriteAlarms ==
    /\ main = "alarms"
    /\ out' = [out EXCEPT !.alarms = alarms]
    /\ main' = "in"
    /\ UNCHANGED <<reg, next, io, control, alarms, withErrors, server, cleared, order>>

-----------------------------------------------------------------------------
Main ==
    \/ InitInput \/ ReadInput \/ TakeFlag \/ LookAtState \/ Control
    \/ WriteState \/ WritePoints \/ WriteAlarms

Next == Main \/ Fails \/ Reports \/ Recovers \/ \E x \in Used : Write(x)

Spec == Init /\ [][Next]_vars

-----------------------------------------------------------------------------
(* Safety                                                                  *)

(* A confirmation never brings an older set point into force than the one  *)
(* that was in place when the operator pressed it, although image and      *)
(* registers change one by one: updateInputs reads SPOK before the set     *)
(* points.  Only init, which runs beside the server, can undo one.         *)
NotOlder ==
    [][main = "control" /\ iState = 6 /\ pwsp' # pwsp
          => pwsp' >= confirmed \/ "PWSP" \in lost]_vars

(* An outage of the server that was reported, and lasts, is in the alarms, *)
(* or will be in this scan or the next, unless the operator has cleared    *)
(* them since: the flag and the state are read in the right order.         *)
NoSilentOutage ==
    slvState = "COMError" /\ reported =>
        withErrors \/ main = "look" \/ "MASTERCOM" \in alarms \/ cleared

(* No alarm disappears from what masters read unless a scan has read the   *)
(* acknowledgement pressed and the trip command released.                  *)
AlarmsStay ==
    [][~(out.alarms \subseteq out.alarms') => io["TRIP"] # 0 /\ io["ALREP"] = 1]_vars

-----------------------------------------------------------------------------
(* The server of the scan                                                  *)

(* Fails, Reports and Recovers are what the server does by Outages, which  *)
(* module SlaveDrv implements: the scan assumes nothing else of it.        *)
Outage == INSTANCE Outages WITH state <- slvState
OutageSpec == Outage!Spec

-----------------------------------------------------------------------------
(* Liveness                                                                *)

(* The scan goes on, and the server's thread reports an outage that lasts. *)
Fairness == WF_vars(Main) /\ WF_vars(Reports)

FairSpec == Spec /\ Fairness

(* A reported outage gets to the registers masters read, unless it ends or *)
(* the alarms are cleared first.                                           *)
OutageIsShown ==
    (slvState = "COMError") ~>
        ("MASTERCOM" \in out.alarms \/ slvState = "Running" \/ cleared)

(* A regulation mode that is asked for, and the other is not, is taken and *)
(* kept: a mode command that stays at rest does not disturb it.            *)
ModeSettles ==
    <>[](iState \in {6, 7} /\ reg["OPREG"] = 1 /\ reg["PWREG"] = 0)
        => <>[](iState = 7 /\ out.state = 7)
=============================================================================
