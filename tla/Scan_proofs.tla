---------------------------- MODULE Scan_proofs -----------------------------
(***************************************************************************)
(* Proofs for module Scan: set points, outages and alarms, for any inputs  *)
(* that masters write, any number of set points, and whatever is in the    *)
(* alarm words at first.                                                   *)
(***************************************************************************)
EXTENDS Scan, TLAPS

(* A set point read after the confirmation is not older than what the      *)
(* confirmation was for: set points in the registers only grow, but for    *)
(* those init undoes.                                                      *)
InOrder ==
    \/ "PWSP" \in lost
    \/ /\ asked <= reg["PWSP"]
       /\ confirmed <= reg["PWSP"]
       /\ (main = "in" /\ next = 8) \/ main \notin {"init", "in"}
            => confirmed <= io["PWSP"]

(* What masters read is what the alarm manager has, or the operator has    *)
(* acknowledged it in this scan.                                           *)
Published ==
    \/ out.alarms \subseteq alarms
    \/ /\ main \in {"state", "points", "alarms"}
       /\ io["TRIP"] # 0
       /\ io["ALREP"] = 1

Images == reg \in [Input -> Nat] /\ io \in [Input -> Nat]

IInv == TypeOK /\ Images /\ InOrder /\ NoSilentOutage /\ Published

-----------------------------------------------------------------------------
(* The input that is read at each position.                                *)
LEMMA InputAt ==
    ASSUME NEW i \in 1..8
    PROVE  /\ Inputs[i] \in Input
           /\ Inputs[i] = "PWSP" <=> i = 7
           /\ Inputs[i] = "SPOK" <=> i = 4
<1>1. Inputs[i] \in Input
  BY DEF Input
<1>2. i \in {1, 2, 3, 4, 5, 6, 7, 8}
  OBVIOUS
<1> QED
  BY <1>1, <1>2 DEF Inputs

LEMMA InputNames ==
    /\ "STR" \in Input /\ "TRIP" \in Input /\ "ALREP" \in Input /\ "SPOK" \in Input
    /\ "PWREG" \in Input /\ "OPREG" \in Input /\ "PWSP" \in Input /\ "OPSP" \in Input
  BY DEF Input, Inputs

LEMMA InitialValue ==
    ASSUME NEW x \in Input
    PROVE  Initial(x) \in Value(x) /\ Initial(x) \in Nat /\ 0 \in Value(x)
  BY MaxSPAssumption DEF Initial, Value, SetPoint

LEMMA InitEstablishes == Init => IInv
<1> SUFFICES ASSUME Init PROVE IInv
  OBVIOUS
<1>1. TypeOK
  <2>1. \A x \in Input : reg[x] \in Value(x) /\ io[x] \in Value(x)
    BY InitialValue DEF Init
  <2>2. out \in [state : {0, 1, 4, 6, 7}, pwsp : 0..Rated, opsp : 0..MaxSP, alarms : SUBSET Alarm]
    BY MaxSPAssumption DEF Init, Rated
  <2>3. alarms \subseteq Alarm
    BY LeftoverAssumption DEF Init
  <2>4. /\ asked \in 0..MaxSP /\ confirmed \in 0..MaxSP
        /\ pwsp \in 0..Rated /\ opsp \in 0..MaxSP
        /\ next \in 1..8 /\ speed \in 0..2
    BY MaxSPAssumption DEF Init, Rated
  <2> QED
    BY <2>1, <2>2, <2>3, <2>4 DEF Init, TypeOK
<1>2. Images
  BY InitialValue DEF Init, Images
<1>3. InOrder
  BY InputNames DEF Init, InOrder
<1>4. NoSilentOutage /\ Published
  BY DEF Init, NoSilentOutage, Published
<1> QED
  BY <1>1, <1>2, <1>3, <1>4 DEF IInv

-----------------------------------------------------------------------------
(* Masters and the server                                                  *)

(* A write takes a set point one further, a command to its other value.    *)
LEMMA WriteStep ==
    ASSUME IInv, NEW x \in Input, Write(x)
    PROVE  IInv'
<1> USE DEF IInv
<1>1. /\ UNCHANGED <<out, main, next, io, control, alarms, withErrors, server, cleared,
                     confirmed, lost>>
      /\ reg[x] \in Value(x) /\ reg[x] \in Nat
  BY DEF Write, TypeOK, Images
<1>2. reg' \in [Input -> Nat] /\ \A y \in Input : y # x => reg'[y] = reg[y]
  BY <1>1 DEF Write, Images, Value
<1>3. reg'[x] \in Value(x)
  BY <1>1, MaxSPAssumption DEF Write, Images, Value
<1>4. asked' \in 0..MaxSP
  BY InputNames DEF Write, TypeOK, Value, SetPoint
<1>5. TypeOK'
  BY <1>1, <1>2, <1>3, <1>4 DEF TypeOK, control, server
<1>6. Images'
  BY <1>1, <1>2 DEF Images
<1>7. reg["PWSP"] <= reg'["PWSP"] /\ reg["PWSP"] \in Nat /\ reg'["PWSP"] \in Nat
  BY <1>1, <1>2, InputNames DEF Write, Images, SetPoint
<1>8. asked' \in {asked, reg["PWSP"]}
  BY DEF Write
<1>9. InOrder'
  BY <1>1, <1>7, <1>8 DEF InOrder, TypeOK
<1>10. NoSilentOutage' /\ Published'
  BY <1>1 DEF NoSilentOutage, Published, server
<1> QED
  BY <1>5, <1>6, <1>9, <1>10

(* An outage begins, is reported and ends.                                 *)
LEMMA ServerStep ==
    ASSUME IInv, Fails \/ Reports \/ Recovers
    PROVE  IInv'
<1> USE DEF IInv
<1>1. /\ UNCHANGED <<reg, out, main, next, io, control, alarms, order>>
      /\ slvState' \in {"Running", "COMError"}
  BY DEF Fails, Reports, Recovers, TypeOK
<1>2. withErrors' \in BOOLEAN /\ reported' \in BOOLEAN /\ cleared' \in BOOLEAN
  BY DEF Fails, Reports, Recovers, TypeOK
<1>3. TypeOK'
  BY <1>1, <1>2 DEF TypeOK, control, order
<1>4. Images' /\ InOrder' /\ Published'
  BY <1>1 DEF Images, InOrder, Published, order
<1>5. NoSilentOutage'
  BY DEF Fails, Reports, Recovers, NoSilentOutage
<1> QED
  BY <1>3, <1>4, <1>5

-----------------------------------------------------------------------------
(* The main thread                                                         *)

LEMMA InitInputStep ==
    ASSUME IInv, InitInput
    PROVE  IInv'
<1> USE DEF IInv
<1> DEFINE x == Inputs[next]
<1>1. /\ UNCHANGED <<out, io, control, alarms, withErrors, server, cleared, asked, confirmed>>
      /\ next \in 1..8 /\ main = "init"
      /\ reg' = [reg EXCEPT ![x] = Initial(x)]
      /\ lost' = IF x \in SetPoint /\ reg[x] # 0 THEN lost \cup {x} ELSE lost
  BY DEF InitInput, TypeOK
<1>2. main' \in {"init", "in"} /\ next' \in 1..8 /\ (main' = "in" => next' = 1)
  BY <1>1 DEF InitInput
<1>3. x \in Input /\ (x = "PWSP" <=> next = 7)
  BY <1>1, InputAt
<1> HIDE DEF x
<1>4. Initial(x) \in Value(x) /\ Initial(x) \in Nat
  BY <1>3, InitialValue
<1>5. \A y \in Input : reg'[y] \in Value(y)
  BY <1>1, <1>3, <1>4 DEF Images, TypeOK
<1>6. lost' \subseteq SetPoint
  BY <1>1 DEF TypeOK
<1>7. TypeOK'
  BY <1>1, <1>2, <1>5, <1>6 DEF TypeOK, control, server
<1>8. Images'
  BY <1>1, <1>4 DEF Images
<1>9. InOrder'
  <2>1. CASE "PWSP" \in lost
    BY <1>1, <2>1 DEF InOrder
  <2>2. CASE "PWSP" \notin lost /\ x = "PWSP" /\ reg[x] # 0
    BY <1>1, <2>2 DEF InOrder, SetPoint
  <2>3. CASE "PWSP" \notin lost /\ ~(x = "PWSP" /\ reg[x] # 0)
    <3>1. reg'["PWSP"] = reg["PWSP"]
      BY <1>1, <1>3, <2>3, InputNames DEF Images, Initial
    <3> QED
      BY <1>1, <1>2, <2>3, <3>1 DEF InOrder
  <2> QED
    BY <2>1, <2>2, <2>3
<1>10. NoSilentOutage' /\ Published'
  BY <1>1, <1>2 DEF NoSilentOutage, Published, server
<1> QED
  BY <1>7, <1>8, <1>9, <1>10

(* The image takes one register, and a confirmation what it was for.       *)
LEMMA ReadInputStep ==
    ASSUME IInv, ReadInput
    PROVE  IInv'
<1> USE DEF IInv
<1> DEFINE x == Inputs[next]
<1>1. /\ UNCHANGED <<reg, out, control, alarms, withErrors, server, cleared, asked, lost>>
      /\ next \in 1..8 /\ main = "in"
      /\ io' = [io EXCEPT ![x] = reg[x]]
      /\ confirmed' = IF x = "SPOK" /\ reg[x] = 1 THEN asked ELSE confirmed
  BY DEF ReadInput, TypeOK
<1>2. /\ main' \in {"in", "take"} /\ next' \in 1..8
      /\ main' = "in" => next' = next + 1 /\ next # 8
      /\ main' = "take" => next = 8
  BY <1>1 DEF ReadInput
<1>3. x \in Input /\ (x = "PWSP" <=> next = 7) /\ (x = "SPOK" <=> next = 4)
  BY <1>1, InputAt
<1> HIDE DEF x
<1>4. \A y \in Input : io'[y] \in Value(y)
  BY <1>1, <1>3 DEF Images, TypeOK
<1>5. confirmed' \in 0..MaxSP
  BY <1>1 DEF TypeOK
<1>6. TypeOK'
  BY <1>1, <1>2, <1>4, <1>5 DEF TypeOK, control, server
<1>7. Images'
  BY <1>1, <1>3 DEF Images
<1>8. InOrder'
  <2>1. CASE "PWSP" \in lost
    BY <1>1, <2>1 DEF InOrder
  <2>2. CASE "PWSP" \notin lost /\ next = 7
    <3>1. io'["PWSP"] = reg["PWSP"] /\ confirmed' = confirmed
      BY <1>1, <1>3, <2>2 DEF Images
    <3> QED
      BY <1>1, <2>2, <3>1 DEF InOrder
  <2>3. CASE "PWSP" \notin lost /\ next = 8
    <3>1. io'["PWSP"] = io["PWSP"] /\ confirmed' = confirmed
      BY <1>1, <1>3, <2>3, InputNames DEF Images
    <3> QED
      BY <1>1, <2>3, <3>1 DEF InOrder
  <2>4. CASE "PWSP" \notin lost /\ next \notin {7, 8}
    <3>1. main' = "in" /\ next' # 8
      BY <1>1, <1>2, <2>4
    <3>2. confirmed' <= reg["PWSP"]
      BY <1>1, <2>4 DEF InOrder
    <3> QED
      BY <1>1, <2>4, <3>1, <3>2 DEF InOrder
  <2> QED
    BY <2>1, <2>2, <2>3, <2>4
<1>9. NoSilentOutage' /\ Published'
  BY <1>1, <1>2 DEF NoSilentOutage, Published, server
<1> QED
  BY <1>6, <1>7, <1>8, <1>9

(* The flag is taken, and then the state is looked at.                     *)
LEMMA CheckStep ==
    ASSUME IInv, TakeFlag \/ LookAtState
    PROVE  IInv'
<1> USE DEF IInv
<1>1. /\ UNCHANGED <<reg, out, next, io, control, server, cleared, order>>
      /\ main \in {"take", "look"} /\ main' \in {"look", "control"}
  BY DEF TakeFlag, LookAtState
<1>2. alarms \subseteq alarms' /\ alarms' \subseteq Alarm /\ withErrors' \in BOOLEAN
  BY DEF TakeFlag, LookAtState, SetMasterCom, TypeOK, Alarm
<1>3. TypeOK'
  BY <1>1, <1>2 DEF TypeOK, control, server, order
<1>4. Images' /\ InOrder' /\ Published'
  BY <1>1, <1>2 DEF Images, InOrder, Published, order
<1>5. NoSilentOutage'
  <2>1. CASE TakeFlag
    BY <2>1 DEF TakeFlag, NoSilentOutage, server
  <2>2. CASE LookAtState
    BY <2>2 DEF LookAtState, SetMasterCom, NoSilentOutage, server
  <2> QED
    BY <2>1, <2>2
<1> QED
  BY <1>3, <1>4, <1>5

(* The alarms of the control: set, or cleared by the operator.             *)
LEMMA AlarmsOfControl ==
    ASSUME IInv, ControlAlarms
    PROVE  /\ alarms' \subseteq Alarm /\ cleared' \in BOOLEAN
           /\ \/ alarms \subseteq alarms' /\ cleared' = cleared
              \/ io["TRIP"] # 0 /\ io["ALREP"] = 1 /\ cleared' = TRUE
<1>1. CASE io["TRIP"] = 0 /\ SetTripExt /\ UNCHANGED cleared
  BY <1>1 DEF IInv, TypeOK, SetTripExt, Alarm
<1>2. CASE io["TRIP"] # 0 /\ io["ALREP"] = 1 /\ ClearAlarms
  BY <1>2 DEF ClearAlarms
<1>3. CASE io["TRIP"] # 0 /\ io["ALREP"] # 1 /\ UNCHANGED <<alarms, cleared>>
  BY <1>3 DEF IInv, TypeOK
<1> QED
  BY <1>1, <1>2, <1>3 DEF ControlAlarms

LEMMA ControlStep ==
    ASSUME IInv, Control
    PROVE  IInv'
<1> USE DEF IInv
<1>1. /\ UNCHANGED <<reg, out, next, io, withErrors, server, order>>
      /\ main = "control" /\ main' = "state" /\ ControlAlarms
  BY DEF Control
<1>2. io["PWSP"] \in 0..MaxSP /\ io["OPSP"] \in 0..MaxSP
  BY InputNames DEF TypeOK, Value, SetPoint
<1>3. /\ iState' \in {0, 1, 4, 6, 7} /\ speed' \in 0..2
      /\ pwsp' \in 0..Rated /\ opsp' \in 0..MaxSP
  <2>1. CASE UNCHANGED control
    BY <2>1 DEF control, TypeOK
  <2>2. CASE RunUp
    <3>1. speed' \in {0, 1, 2}
      BY <2>2 DEF RunUp
    <3> QED
      BY <2>2, <3>1, MaxSPAssumption DEF RunUp, TypeOK, Rated
  <2>3. CASE PowerRegulation
    BY <1>2, <2>3, MaxSPAssumption DEF PowerRegulation, TypeOK, Rated
  <2>4. CASE OpeningRegulation
    BY <1>2, <2>4 DEF OpeningRegulation, TypeOK
  <2> QED
    BY <2>1, <2>2, <2>3, <2>4 DEF Control
<1>4. TypeOK'
  BY <1>1, <1>3, AlarmsOfControl DEF TypeOK, server, order
<1>5. Images' /\ InOrder'
  BY <1>1 DEF Images, InOrder, order
<1>6. NoSilentOutage'
  BY <1>1, AlarmsOfControl DEF NoSilentOutage, server
<1>7. Published'
  BY <1>1, AlarmsOfControl DEF Published
<1> QED
  BY <1>4, <1>5, <1>6, <1>7

LEMMA PublishStep ==
    ASSUME IInv, WriteState \/ WritePoints \/ WriteAlarms
    PROVE  IInv'
<1> USE DEF IInv
<1>1. /\ UNCHANGED <<reg, next, io, control, alarms, withErrors, server, cleared, order>>
      /\ main \in {"state", "points", "alarms"} /\ main' \in {"points", "alarms", "in"}
  BY DEF WriteState, WritePoints, WriteAlarms
<1>2. out' \in [state : {0, 1, 4, 6, 7}, pwsp : 0..Rated, opsp : 0..MaxSP, alarms : SUBSET Alarm]
  BY DEF WriteState, WritePoints, WriteAlarms, TypeOK
<1>3. TypeOK'
  BY <1>1, <1>2 DEF TypeOK, control, server, order
<1>4. Images' /\ NoSilentOutage'
  BY <1>1 DEF Images, NoSilentOutage, server
<1>5. InOrder'
  BY <1>1 DEF InOrder, order
<1>6. Published'
  <2>1. CASE WriteAlarms
    BY <2>1 DEF WriteAlarms, TypeOK, Published
  <2>2. CASE WriteState \/ WritePoints
    BY <2>2 DEF WriteState, WritePoints, TypeOK, Published
  <2> QED
    BY <2>1, <2>2
<1> QED
  BY <1>3, <1>4, <1>5, <1>6
-----------------------------------------------------------------------------
(* The invariant is inductive                                              *)

LEMMA Stutter ==
    ASSUME IInv, UNCHANGED vars
    PROVE  IInv'
<1>1. TypeOK'
  BY DEF IInv, TypeOK, vars, control, server, order
<1>2. Images' /\ InOrder' /\ NoSilentOutage' /\ Published'
  BY DEF IInv, Images, InOrder, NoSilentOutage, Published, vars, control, server, order
<1> QED
  BY <1>1, <1>2 DEF IInv

LEMMA Inductive ==
    ASSUME IInv, [Next]_vars
    PROVE  IInv'
<1>1. CASE \E x \in Used : Write(x)
  BY <1>1, UsedAssumption, WriteStep
<1>2. CASE Fails \/ Reports \/ Recovers
  BY <1>2, ServerStep
<1>3. CASE InitInput
  BY <1>3, InitInputStep
<1>4. CASE ReadInput
  BY <1>4, ReadInputStep
<1>5. CASE TakeFlag \/ LookAtState
  BY <1>5, CheckStep
<1>6. CASE Control
  BY <1>6, ControlStep
<1>7. CASE WriteState \/ WritePoints \/ WriteAlarms
  BY <1>7, PublishStep
<1>8. CASE UNCHANGED vars
  BY <1>8, Stutter
<1> QED
  BY <1>1, <1>2, <1>3, <1>4, <1>5, <1>6, <1>7, <1>8 DEF Next, Main

(* Every state of the scan cycle satisfies the invariant.                  *)
THEOREM ScanInvariant == Spec => []IInv
<1> QED
  BY InitEstablishes, Inductive, PTL DEF Spec

(* Every state is well typed: the state published is one the control has.  *)
THEOREM TypeInvariant == Spec => []TypeOK
<1>1. IInv => TypeOK
  BY DEF IInv
<1> QED
  BY <1>1, ScanInvariant, PTL

(* A reported outage that lasts is in the alarms, is about to be, or was   *)
(* cleared by the operator.                                                *)
THEOREM OutageInvariant == Spec => []NoSilentOutage
<1>1. IInv => NoSilentOutage
  BY DEF IInv
<1> QED
  BY <1>1, ScanInvariant, PTL

(* No alarm disappears from what masters read unacknowledged.              *)
THEOREM AlarmsAreAcknowledged == Spec => AlarmsStay
<1>1. ASSUME IInv, [Next]_vars, ~(out.alarms \subseteq out.alarms')
      PROVE  io["TRIP"] # 0 /\ io["ALREP"] = 1
  <2>1. WriteAlarms
    BY <1>1 DEF Next, Main, Write, Fails, Reports, Recovers, InitInput, ReadInput, TakeFlag,
         LookAtState, Control, WriteState, WritePoints, vars, IInv, TypeOK
  <2> QED
    BY <1>1, <2>1 DEF WriteAlarms, IInv, TypeOK, Published
<1>2. IInv /\ [Next]_vars
        => [~(out.alarms \subseteq out.alarms') => io["TRIP"] # 0 /\ io["ALREP"] = 1]_vars
  BY <1>1
<1> QED
  BY <1>2, ScanInvariant, PTL DEF Spec, AlarmsStay

(* A confirmation never brings a set point into force that is older than   *)
(* the one it was given for, init apart.                                   *)
THEOREM ConfirmationsAreInOrder == Spec => NotOlder
<1> DEFINE A == main = "control" /\ iState = 6 /\ pwsp' # pwsp
                   => pwsp' >= confirmed \/ "PWSP" \in lost
<1>1. ASSUME IInv, [Next]_vars, main = "control", iState = 6, pwsp' # pwsp
      PROVE  pwsp' >= confirmed \/ "PWSP" \in lost
  <2>1. Control
    BY <1>1 DEF Next, Main, Write, Fails, Reports, Recovers, InitInput, ReadInput, TakeFlag,
         LookAtState, WriteState, WritePoints, WriteAlarms, vars, control
  <2>2. pwsp' = io["PWSP"]
    BY <1>1, <2>1 DEF Control, PowerRegulation, control
  <2>3. io["PWSP"] \in Nat /\ confirmed \in Nat
    BY <1>1, InputNames DEF IInv, Images, TypeOK
  <2> QED
    BY <1>1, <2>2, <2>3 DEF IInv, InOrder
<1>2. IInv /\ [Next]_vars => [A]_vars
  BY <1>1
<1> QED
  BY <1>2, ScanInvariant, PTL DEF Spec, NotOlder

-----------------------------------------------------------------------------
(* The server of the scan                                                  *)

(* Nothing is reported while the server runs.                              *)
Unreported == slvState = "Running" => ~reported

(* The scan takes of the server what Outages allows, and what SlaveDrv     *)
(* implements: its theorems hold beside that server.                       *)
THEOREM ServesAsOutages == Spec => OutageSpec
<1> USE DEF Outage!service
<1>1. Init => Unreported /\ Outage!Init
  BY DEF Init, Unreported, Outage!Init
<1>2. IInv /\ Unreported /\ [Next]_vars => Unreported' /\ [Outage!Next]_(Outage!service)
  <2> SUFFICES ASSUME IInv, Unreported, [Next]_vars
               PROVE  Unreported' /\ [Outage!Next]_(Outage!service)
    OBVIOUS
  <2>1. reported \in BOOLEAN
    BY DEF IInv, TypeOK
  <2>2. CASE Fails
    <3>1. Outage!Fail
      BY <2>1, <2>2 DEF Fails, Unreported, Outage!Fail
    <3> QED BY <2>2, <3>1 DEF Fails, Unreported, Outage!Next
  <2>3. CASE Reports
    <3>1. Outage!Report
      BY <2>3 DEF Reports, Outage!Report
    <3> QED BY <2>3, <3>1 DEF Reports, Unreported, Outage!Next
  <2>4. CASE Recovers
    <3>1. Outage!Recover
      BY <2>4 DEF Recovers, Outage!Recover
    <3> QED BY <2>4, <3>1 DEF Recovers, Unreported, Outage!Next
  <2>5. CASE Main \/ UNCHANGED vars \/ \E x \in Used : Write(x)
    <3>1. UNCHANGED <<slvState, reported>>
      BY <2>5 DEF Main, InitInput, ReadInput, TakeFlag, LookAtState, Control, WriteState,
           WritePoints, WriteAlarms, Write, vars, server
    <3> QED BY <3>1 DEF Unreported
  <2> QED BY <2>2, <2>3, <2>4, <2>5 DEF Next
<1> QED BY <1>1, <1>2, ScanInvariant, PTL DEF Spec, OutageSpec, Outage!Spec
=============================================================================
