--------------------------- MODULE FieldDrv_proofs ---------------------------
(***************************************************************************)
(* Proofs about module FieldDrv: its invariants, and that it implements    *)
(* FieldSource, for any modules, devices and number of trys.               *)
(***************************************************************************)
EXTENDS FieldDrv, TLAPS

(* Who holds mtDrvStateMutex has it alone, the driver thread exchanges     *)
(* only while the driver runs, and Start finds it stopped.                 *)
Locks ==
    /\ owner \in {"start", "stop", "close"} => "state" \in holds
    /\ "state" \in holds => ~DrvHoldsState
    /\ thread \in {"cycle", "check", "update", "report"} => ~Idle
    /\ owner = "start" => drvState = "Stopped"

(* Before the quality is answered: what read has taken was true, or the    *)
(* state it has not looked at yet will tell; what updateQState will find,  *)
(* after it has looked at the state, was true.                             *)
Honesty ==
    /\ Watched => asked \in Dev
    /\ owner = "read" /\ got = "OK" => honest \/ raced \/ drvState = "COMError"
    /\ owner = "query" /\ quality[asked] = "OK" => honest

(* A write that has met no accident so far: the terminal is at rest until  *)
(* the set bit is raised, and has the value from the exchange after it.    *)
Edge ==
    reached =>
        /\ owner \in {"value", "written", "raise"} => image.set = 0 /\ terminal.set = 0
        /\ owner = "raised" => image.set = 1 /\ terminal.set = 0
        /\ owner \in {"noticed", "lower"} => image.set = 1 /\ terminal.set = 1
        /\ owner \in {"lowered", "done"} => image.set = 0
        /\ owner \in {"written", "raise", "raised"} => image.val = value
        /\ owner \in {"noticed", "lower", "lowered", "done"} => terminal.val = value

(* Once the end is announced the thread does not go to wait again.         *)
Ending ==
    /\ owner \in {"notify", "join", "gone"} => drvEnd
    /\ owner = "join" => thread \notin {"look", "wait"} \/ missed

IInv ==
    TypeOK /\ Locks /\ Honesty /\ Edge /\ Ending /\ ErrorsAgree /\ QualityHonest

USE ModulesAssumption, DevAssumption, TrysAssumption

-----------------------------------------------------------------------------
(* Types                                                                   *)

LEMMA InitIsTyped == Init => TypeOK
<1>1. SUFFICES ASSUME Init PROVE TypeOK
  OBVIOUS
<1>2. image \in Output /\ terminal \in Output /\ got \in QuState
  BY <1>1 DEF Init, Output, QuState
<1>3. /\ syncTrys \in [Module -> 0..(SyncTrys + 1)]
      /\ varErrors \in [Dev -> QuState] /\ quality \in [Dev -> QuState]
      /\ slave \in [Module -> {"op", "safe", "low"}]
  BY <1>1 DEF Init, QuState
<1>4. /\ drvEnd \in BOOLEAN /\ low \in BOOLEAN /\ withErrors \in BOOLEAN
      /\ missed \in BOOLEAN /\ reached \in BOOLEAN /\ honest \in BOOLEAN /\ raced \in BOOLEAN
  BY <1>1 DEF Init
<1> QED
  BY <1>1, <1>2, <1>3, <1>4 DEF Init, TypeOK

LEMMA LatchTyped == TypeOK /\ Latch => terminal' \in Output
BY DEF TypeOK, Latch, Output

LEMMA JudgeTyped ==
    TypeOK /\ Judge => moduleErrors' \subseteq Module /\ syncTrys' \in [Module -> 0..(SyncTrys + 1)]
<1>1. SUFFICES ASSUME TypeOK, Judge
               PROVE  moduleErrors' \subseteq Module /\ syncTrys' \in [Module -> 0..(SyncTrys + 1)]
  OBVIOUS
<1>2. \A m \in Module : syncTrys[m] \in 0..(SyncTrys + 1) /\ slave[m] \in {"op", "safe", "low"}
  BY <1>1 DEF TypeOK
<1>3. CASE low
  <2>1. moduleErrors' \subseteq Module
    BY <1>1, <1>3 DEF Judge
  <2>2. ASSUME NEW m \in Module
        PROVE  (CASE slave[m] = "op"   -> 0
                  [] slave[m] = "safe" -> IF syncTrys[m] > SyncTrys THEN syncTrys[m]
                                                                   ELSE syncTrys[m] + 1
                  [] slave[m] = "low"  -> syncTrys[m]) \in 0..(SyncTrys + 1)
    <3>1. CASE slave[m] = "op"
      BY <3>1
    <3>2. CASE slave[m] = "safe"
      BY <1>2, <3>2
    <3>3. CASE slave[m] = "low"
      BY <1>2, <3>3
    <3> QED BY <1>2, <3>1, <3>2, <3>3
  <2> QED BY <1>1, <1>3, <2>1, <2>2 DEF Judge
<1>4. CASE ~low
  BY <1>1, <1>2, <1>4 DEF Judge
<1> QED BY <1>3, <1>4

LEMMA DriverTyped == TypeOK /\ Driver /\ Witness => TypeOK'
<1>0. SUFFICES ASSUME TypeOK, Driver, Witness PROVE TypeOK'
  OBVIOUS
<1>1. honest' \in BOOLEAN /\ raced' \in BOOLEAN
  BY <1>0 DEF Witness, TypeOK
<1>2. CASE Loop
  BY <1>0, <1>1, <1>2 DEF Loop, TypeOK, judged, check, devices, calls, asking, field
<1>3. CASE Exchange
  <2>1. terminal' \in Output
    BY <1>0, <1>3, LatchTyped DEF Exchange, TypeOK
  <2>2. low' \in BOOLEAN /\ reached' \in BOOLEAN
    BY <1>0, <1>3 DEF Exchange, TypeOK
  <2>3. owner' \in {owner, "noticed", "done"}
    BY <1>3 DEF Exchange
  <2> QED
    BY <1>0, <1>1, <1>3, <2>1, <2>2, <2>3 DEF Exchange, TypeOK, devices, asking
<1>4. CASE CheckSlaves
  <2>1. moduleErrors' \subseteq Module /\ syncTrys' \in [Module -> 0..(SyncTrys + 1)]
    BY <1>0, <1>4, JudgeTyped DEF CheckSlaves
  <2>2. drvState' \in {drvState, "COMError"} /\ thread' \in {"top", "report", "update"} /\ todo' \subseteq Dev
    BY <1>0, <1>4 DEF CheckSlaves, Enter, TypeOK
  <2> QED
    BY <1>0, <1>1, <1>4, <2>1, <2>2 DEF CheckSlaves, TypeOK, calls, asking, field
<1>5. ASSUME NEW d \in Dev, UpdateDevice(d) PROVE TypeOK'
  <2>1. PICK q \in QuState : quality' = [quality EXCEPT ![d] = q] /\ Note(d, q)
    BY <1>5 DEF UpdateDevice
  <2>2. quality' \in [Dev -> QuState] /\ varErrors' \in [Dev -> QuState] /\ leftover' \subseteq Dev
    BY <1>0, <2>1 DEF TypeOK, Note
  <2>3. todo' \subseteq Dev
    BY <1>0, <1>5 DEF TypeOK, UpdateDevice
  <2> QED
    BY <1>0, <1>1, <1>5, <2>2, <2>3 DEF UpdateDevice, TypeOK, life, check, calls, asking, field
<1>6. CASE Settle
  BY <1>0, <1>1, <1>6 DEF Settle, Enter, TypeOK, judged, check, devices, calls, asking, field
<1>7. CASE Report
  BY <1>0, <1>1, <1>7 DEF Report, TypeOK, judged, check, devices, calls, asking, field
<1> QED
  BY <1>0, <1>2, <1>3, <1>4, <1>5, <1>6, <1>7 DEF Driver

LEMMA StateCallTyped ==
    ASSUME TypeOK, honest' \in BOOLEAN, raced' \in BOOLEAN,
           InitDriver \/ (\E c \in {"start", "stop", "close"} : LockState(c)) \/ StateCall
    PROVE  TypeOK'
<1>1. CASE InitDriver
  <2>1. syncTrys' \in [Module -> 0..(SyncTrys + 1)]
    BY <1>1 DEF InitDriver
  <2>2. quality' \in [Dev -> QuState] /\ leftover' \subseteq Dev
    BY <1>1 DEF InitDriver, QuState
  <2>3. thread' \in {thread, "woken"} /\ drvState' = "Stopped"
    BY <1>1 DEF InitDriver, Notify
  <2> QED
    BY <1>1, <2>1, <2>2, <2>3 DEF InitDriver, TypeOK, calls, asking, field
<1>2. ASSUME NEW c \in {"start", "stop", "close"}, LockState(c) PROVE TypeOK'
  BY <1>2 DEF LockState, TypeOK, life, judged, check, devices, asking, field
<1>3. CASE StateCall
  BY <1>3 DEF StateCall, Start, Stop, Close, Notify, TypeOK, judged, check, devices, asking, field
<1> QED
  BY <1>1, <1>2, <1>3

LEMMA WriteTyped ==
    ASSUME TypeOK, honest' \in BOOLEAN, raced' \in BOOLEAN, Write
    PROVE  TypeOK'
<1>1. CASE WriteBegins
  BY <1>1 DEF WriteBegins, LockImage, TypeOK, life, judged, check, devices, asking, field
<1>2. CASE WriteGoesOn
  <2>1. owner' \in {"raise", "lower"} /\ holds' = holds \cup {"io"}
    BY <1>2 DEF WriteGoesOn, LockImage
  <2>2. UNCHANGED <<life, judged, asking, field, value, reached>>
    BY <1>2 DEF WriteGoesOn, LockImage
  <2> QED
    BY <2>1, <2>2 DEF TypeOK, life, judged, check, devices, asking, field
<1>3. CASE WriteIO
  <2>1. image' \in Output
    BY <1>3 DEF WriteIO, PutValue, Raise, Lower, Put, TypeOK, Output
  <2>2. owner' \in {"written", "raised", "lowered"}
    BY <1>3 DEF WriteIO, PutValue, Raise, Lower, Put
  <2> QED
    BY <1>3, <2>1, <2>2 DEF WriteIO, TypeOK, life, judged, check, devices, asking
<1>4. CASE WakesSpuriously
  <2>1. owner' \in {"noticed", "done"} /\ reached' \in BOOLEAN
    BY <1>4 DEF WakesSpuriously
  <2> QED
    BY <1>4, <2>1 DEF WakesSpuriously, TypeOK, life, judged, check, devices, asking, field
<1>5. CASE WriteEnds
  <2>1. owner' = "free" /\ value' \in Value \cup {None} /\ reached' \in BOOLEAN
    BY <1>5 DEF WriteEnds
  <2>2. UNCHANGED <<life, judged, holds, asking, field>>
    BY <1>5 DEF WriteEnds
  <2> QED
    BY <2>1, <2>2 DEF TypeOK, life, judged, check, devices, asking, field
<1> QED
  BY <1>1, <1>2, <1>3, <1>4, <1>5 DEF Write

LEMMA AskTyped ==
    ASSUME TypeOK, Watched => asked \in Dev, honest' \in BOOLEAN, raced' \in BOOLEAN, Ask
    PROVE  TypeOK'
<1>1. UNCHANGED <<life, judged, holds, value, reached, field>>
  BY DEF Ask
<1>2. /\ owner' \in {"free", "read", "query", "answered"}
      /\ asked' \in Dev \cup {None} /\ got' \in QuState
  BY DEF Ask, ReadQuality, QueryState, ReadState, QueryQuality, Answered, Watched, TypeOK, QuState
<1> QED
  BY <1>1, <1>2 DEF TypeOK, life, judged, check, devices, field

LEMMA ExitTyped ==
    ASSUME TypeOK, honest' \in BOOLEAN, raced' \in BOOLEAN, Signal \/ Exit
    PROVE  TypeOK'
<1>1. CASE Signal
  BY <1>1 DEF Signal, TypeOK, life, judged, check, devices, asking, field
<1>2. CASE Exit
  <2>1. drvState' \in {drvState, "UnInit"} /\ thread' \in {thread, "woken"}
    BY <1>2 DEF Exit, ExitCloses, Delete, NotifyEnd, Join, Notify
  <2>2. drvEnd' \in BOOLEAN /\ missed' \in BOOLEAN
    BY <1>2 DEF Exit, ExitCloses, Delete, NotifyEnd, Join, TypeOK
  <2>3. owner' \in {"delete", "notify", "join", "gone"}
    BY <1>2 DEF Exit, ExitCloses, Delete, NotifyEnd, Join
  <2> QED
    BY <1>2, <2>1, <2>2, <2>3 DEF Exit, TypeOK, judged, check, devices, asking, field
<1> QED
  BY <1>1, <1>2

LEMMA TypeStep ==
    ASSUME TypeOK, Watched => asked \in Dev, [Next]_vars
    PROVE  TypeOK'
<1>1. CASE UNCHANGED vars
  BY <1>1 DEF vars, life, judged, check, devices, calls, asking, field, TypeOK
<1>2. CASE Next
  <2>1. honest' \in BOOLEAN /\ raced' \in BOOLEAN
    BY <1>2 DEF Next, Witness, TypeOK
  <2>2. CASE Owner
    BY <2>1, <2>2, StateCallTyped, WriteTyped, AskTyped, ExitTyped DEF Owner
  <2>3. CASE Driver
    BY <1>2, <2>3, DriverTyped DEF Next
  <2>4. CASE Take
    <3>1. withErrors' \in BOOLEAN
      BY <2>4 DEF Take
    <3> QED
      BY <2>1, <2>4, <3>1 DEF Take, TypeOK, judged, check, devices, calls, asking, field
  <2>5. ASSUME NEW m \in Module, Slave(m) PROVE TypeOK'
    BY <2>1, <2>5 DEF Slave, TypeOK, life, judged, check, devices, calls, asking
  <2> QED
    BY <1>2, <2>2, <2>3, <2>4, <2>5 DEF Next
<1> QED BY <1>1, <1>2

-----------------------------------------------------------------------------
(* Locks                                                                   *)

LEMMA OwnerLocks == TypeOK /\ Locks /\ Owner => Locks'
<1> USE DEF Locks, Idle, DrvHoldsState
<1>0. SUFFICES ASSUME TypeOK, Locks, Owner PROVE Locks'
  OBVIOUS
<1>1. CASE InitDriver
  BY <1>0, <1>1 DEF InitDriver, StateFree, Notify, TypeOK, calls, asking
<1>2. ASSUME NEW c \in {"start", "stop", "close"}, LockState(c) PROVE Locks'
  BY <1>0, <1>2 DEF LockState, StateFree, life
<1>3. CASE StateCall
  <2>1. /\ owner \in {"start", "stop", "close"} /\ "state" \in holds /\ ~DrvHoldsState
        /\ owner' = "free" /\ holds' = holds \ {"state"}
    BY <1>0, <1>3 DEF StateCall, Start, Stop, Close
  <2>2. thread' \in {thread, "woken"}
    BY <1>3 DEF StateCall, Start, Stop, Close, Notify
  <2>3. thread' \notin {"cycle", "check", "update", "report"}
    BY <2>1, <2>2
  <2> QED BY <2>1, <2>3
<1>4. CASE Write
  <2>1. /\ UNCHANGED <<drvState, thread>>
        /\ owner' \notin {"start", "stop", "close"}
        /\ "state" \in holds' => "state" \in holds
    BY <1>4 DEF Write, WriteBegins, WriteGoesOn, LockImage, WriteIO, PutValue, Raise, Lower, Put,
                WakesSpuriously, WriteEnds, life
  <2> QED BY <1>0, <2>1
<1>5. CASE Ask
  <2>1. /\ UNCHANGED <<drvState, thread, holds>>
        /\ owner' \notin {"start", "stop", "close"}
    BY <1>5 DEF Ask, ReadQuality, QueryState, ReadState, QueryQuality, Answered, life
  <2> QED BY <1>0, <2>1
<1>6. CASE Signal
  BY <1>0, <1>6 DEF Signal, life
<1>7. CASE Exit
  <2>1. owner' \notin {"start", "stop", "close"} /\ holds' = holds
    BY <1>7 DEF Exit, ExitCloses, Delete, NotifyEnd, Join
  <2>2. CASE ExitCloses
    BY <1>0, <2>1, <2>2 DEF ExitCloses, StateFree
  <2>3. CASE ~ExitCloses
    <3>1. drvState' = drvState /\ thread' \in {thread, "woken"}
      BY <1>7, <2>3 DEF Exit, Delete, NotifyEnd, Join, Notify
    <3> QED BY <1>0, <2>1, <3>1
  <2> QED BY <2>2, <2>3
<1> QED
  BY <1>0, <1>1, <1>2, <1>3, <1>4, <1>5, <1>6, <1>7 DEF Owner

LEMMA DriverLocks == TypeOK /\ Locks /\ Driver => Locks'
<1> USE DEF Locks, Idle, DrvHoldsState
<1>0. SUFFICES ASSUME TypeOK, Locks, Driver PROVE Locks'
  OBVIOUS
<1>1. CASE Loop
  BY <1>0, <1>1 DEF Loop, StateFree, calls
<1>2. CASE Exchange
  BY <1>0, <1>2 DEF Exchange
<1>3. CASE CheckSlaves
  BY <1>0, <1>3 DEF CheckSlaves, Enter, calls
<1>4. ASSUME NEW d \in Dev, UpdateDevice(d) PROVE Locks'
  BY <1>0, <1>4 DEF UpdateDevice, life, calls
<1>5. CASE Settle
  BY <1>0, <1>5 DEF Settle, Enter, calls
<1>6. CASE Report
  BY <1>0, <1>6 DEF Report, calls
<1> QED
  BY <1>0, <1>1, <1>2, <1>3, <1>4, <1>5, <1>6 DEF Driver

LEMMA LocksStep ==
    ASSUME TypeOK, Locks, [Next]_vars
    PROVE  Locks'
<1>1. CASE UNCHANGED vars
  BY <1>1 DEF vars, life, calls, Locks, Idle, DrvHoldsState
<1>2. CASE Take
  BY <1>2 DEF Take, calls, Locks, Idle, DrvHoldsState
<1>3. ASSUME NEW m \in Module, Slave(m) PROVE Locks'
  BY <1>3 DEF Slave, life, calls, Locks, Idle, DrvHoldsState
<1> QED
  BY <1>1, <1>2, <1>3, OwnerLocks, DriverLocks DEF Next

-----------------------------------------------------------------------------
(* The write of a PulseDev                                                 *)

LEMMA WriteEdge == TypeOK /\ Edge /\ Write => Edge'
<1> USE DEF Edge
<1>0. SUFFICES ASSUME TypeOK, Edge, Write PROVE Edge'
  OBVIOUS
<1>1. CASE WriteBegins
  BY <1>0, <1>1 DEF WriteBegins, LockImage, field
<1>2. CASE WriteGoesOn
  <2>1. CASE LockImage("written", "raise")
    BY <1>0, <1>2, <2>1 DEF WriteGoesOn, LockImage, field
  <2>2. CASE LockImage("noticed", "lower")
    BY <1>0, <1>2, <2>2 DEF WriteGoesOn, LockImage, field
  <2> QED BY <1>2, <2>1, <2>2 DEF WriteGoesOn
<1>3. CASE WriteIO
  <2>1. CASE PutValue
    BY <1>0, <1>3, <2>1 DEF WriteIO, PutValue, Put, TypeOK, Output
  <2>2. CASE Raise
    BY <1>0, <1>3, <2>2 DEF WriteIO, Raise, Put, TypeOK, Output
  <2>3. CASE Lower
    BY <1>0, <1>3, <2>3 DEF WriteIO, Lower, Put, TypeOK, Output
  <2> QED BY <1>3, <2>1, <2>2, <2>3 DEF WriteIO
<1>4. CASE WakesSpuriously
  BY <1>4 DEF WakesSpuriously
<1>5. CASE WriteEnds
  BY <1>5 DEF WriteEnds
<1> QED
  BY <1>0, <1>1, <1>2, <1>3, <1>4, <1>5 DEF Write

(* What an exchange puts into the terminal.                                *)
LEMMA ExchangeEdge == TypeOK /\ Edge /\ Exchange => Edge'
<1>0. SUFFICES ASSUME TypeOK, Edge, Exchange, reached' PROVE Edge'
  BY DEF Edge
<1>1. reached /\ image' = image /\ value' = value
  BY <1>0 DEF Exchange
<1>2. /\ owner = "raised" => owner' = "noticed"
      /\ owner = "lowered" => owner' = "done"
      /\ owner \notin {"raised", "lowered"} => owner' = owner
  BY <1>0 DEF Exchange
<1>3. \/ Latch
      \/ UNCHANGED terminal /\ owner \notin {"raised", "lowered"}
  BY <1>0, <1>1 DEF Exchange
<1>4. CASE UNCHANGED terminal /\ owner \notin {"raised", "lowered"}
  BY <1>0, <1>1, <1>2, <1>4 DEF Edge
<1>5. CASE Latch
  <2>1. /\ terminal'.set = image.set
        /\ terminal'.val = IF image.set = 1 /\ terminal.set = 0 THEN image.val ELSE terminal.val
    BY <1>5 DEF Latch
  <2>2. CASE owner \in {"value", "written", "raise"}
    BY <1>0, <1>1, <1>2, <2>1, <2>2 DEF Edge
  <2>3. CASE owner = "raised"
    BY <1>0, <1>1, <1>2, <2>1, <2>3 DEF Edge
  <2>4. CASE owner \in {"noticed", "lower"}
    BY <1>0, <1>1, <1>2, <2>1, <2>4 DEF Edge
  <2>5. CASE owner = "lowered"
    BY <1>0, <1>1, <1>2, <2>1, <2>5 DEF Edge
  <2>6. CASE owner = "done"
    BY <1>0, <1>1, <1>2, <2>1, <2>6 DEF Edge
  <2>7. CASE owner \notin {"value", "written", "raise", "raised", "noticed", "lower", "lowered", "done"}
    BY <1>2, <2>7 DEF Edge
  <2> QED BY <2>2, <2>3, <2>4, <2>5, <2>6, <2>7
<1> QED BY <1>3, <1>4, <1>5

LEMMA EdgeStep ==
    ASSUME TypeOK, Edge, [Next]_vars
    PROVE  Edge'
<1>1. ASSUME UNCHANGED <<calls, field>> PROVE Edge'
  BY <1>1 DEF calls, field, Edge
<1>2. ASSUME UNCHANGED <<reached, value, field>>,
             owner' \notin {"value", "written", "raise", "raised", "noticed", "lower", "lowered", "done"}
      PROVE  Edge'
  BY <1>2 DEF Edge
<1>3. CASE Owner /\ ~Write
  <2>1. CASE InitDriver
    BY <1>1, <2>1 DEF InitDriver
  <2>2. CASE ~InitDriver
    <3>1. UNCHANGED <<reached, value, field>>
      BY <1>3, <2>2 DEF Owner, LockState, StateCall, Ask, Signal, Exit
    <3>2. owner' \notin {"value", "written", "raise", "raised", "noticed", "lower", "lowered", "done"}
      BY <1>3, <2>2 DEF Owner, LockState, StateCall, Ask, ReadQuality, QueryState, ReadState,
            QueryQuality, Answered, Signal, Exit, ExitCloses, Delete, NotifyEnd, Join
    <3> QED BY <1>2, <3>1, <3>2
  <2> QED BY <2>1, <2>2
<1>4. CASE Driver /\ ~Exchange
  BY <1>1, <1>4 DEF Driver, Loop, CheckSlaves, UpdateDevice, Settle, Report
<1>5. CASE Take
  BY <1>1, <1>5 DEF Take
<1>6. ASSUME NEW m \in Module, Slave(m) PROVE Edge'
  BY <1>6 DEF Slave, calls, Edge
<1>7. CASE UNCHANGED vars
  BY <1>1, <1>7 DEF vars
<1> QED
  BY <1>3, <1>4, <1>5, <1>6, <1>7, WriteEdge, ExchangeEdge DEF Next, Owner, Driver

-----------------------------------------------------------------------------
(* The end of the driver                                                   *)

LEMMA EndingStep ==
    ASSUME TypeOK, Ending, [Next]_vars
    PROVE  Ending'
<1> USE DEF Ending
<1>1. ASSUME UNCHANGED <<life, owner>> PROVE Ending'
  BY <1>1 DEF life
<1>2. ASSUME owner' \notin {"notify", "join", "gone"} PROVE Ending'
  BY <1>2
<1>3. CASE Owner
  <2>1. CASE Exit
    <3>1. CASE ExitCloses
      BY <1>2, <3>1 DEF ExitCloses
    <3>2. CASE Delete
      BY <3>2 DEF Delete
    <3>3. CASE NotifyEnd
      BY <3>3 DEF NotifyEnd, Notify
    <3>4. CASE Join
      BY <3>4 DEF Join
    <3> QED BY <2>1, <3>1, <3>2, <3>3, <3>4 DEF Exit
  <2>2. CASE InitDriver
    BY <1>2, <2>2 DEF InitDriver, calls
  <2>3. CASE ~Exit /\ ~InitDriver
    <3>1. owner' \notin {"notify", "join", "gone"}
      BY <1>3, <2>3 DEF Owner, LockState, StateCall, Write, WriteBegins, WriteGoesOn, LockImage,
            WriteIO, PutValue, Raise, Lower, Put, WakesSpuriously, WriteEnds,
            Ask, ReadQuality, QueryState, ReadState, QueryQuality, Answered, Signal
    <3> QED BY <1>2, <3>1
  <2> QED BY <2>1, <2>2, <2>3
<1>4. CASE Driver
  <2>1. CASE Loop
    BY <2>1 DEF Loop, calls, Awake
  <2>2. CASE Exchange
    BY <2>2 DEF Exchange
  <2>3. CASE CheckSlaves
    BY <2>3 DEF CheckSlaves, Enter, calls
  <2>4. ASSUME NEW d \in Dev, UpdateDevice(d) PROVE Ending'
    BY <1>1, <2>4 DEF UpdateDevice, calls
  <2>5. CASE Settle
    BY <2>5 DEF Settle, Enter, calls
  <2>6. CASE Report
    BY <2>6 DEF Report, calls
  <2> QED BY <1>4, <2>1, <2>2, <2>3, <2>4, <2>5, <2>6 DEF Driver
<1>5. CASE Take
  BY <1>5 DEF Take, calls
<1>6. ASSUME NEW m \in Module, Slave(m) PROVE Ending'
  BY <1>1, <1>6 DEF Slave, calls
<1>7. CASE UNCHANGED vars
  BY <1>1, <1>7 DEF vars, calls
<1> QED
  BY <1>3, <1>4, <1>5, <1>6, <1>7 DEF Next

-----------------------------------------------------------------------------
(* The errors of the variables                                             *)

LEMMA AgreeStep ==
    ASSUME TypeOK, ErrorsAgree, [Next]_vars
    PROVE  ErrorsAgree'
<1>1. ASSUME UNCHANGED <<varErrors, quality, leftover>> PROVE ErrorsAgree'
  BY <1>1 DEF ErrorsAgree
<1>2. CASE InitDriver
  BY <1>2 DEF InitDriver, ErrorsAgree, TypeOK
<1>3. CASE Owner /\ ~InitDriver
  BY <1>1, <1>3 DEF Owner, LockState, StateCall, Write, WriteBegins, WriteGoesOn, LockImage, WriteIO,
        WakesSpuriously, WriteEnds, Ask, Signal, Exit, judged, devices
<1>4. ASSUME NEW d \in Dev, UpdateDevice(d) PROVE ErrorsAgree'
  <2>1. PICK q \in QuState : quality' = [quality EXCEPT ![d] = q] /\ Note(d, q)
    BY <1>4 DEF UpdateDevice
  <2>2. CASE q = quality[d]
    <3>1. UNCHANGED <<varErrors, leftover>> /\ quality' = quality
      BY <2>1, <2>2 DEF Note, TypeOK
    <3> QED BY <1>1, <3>1
  <2>3. CASE q # quality[d]
    <3>1. varErrors' = [varErrors EXCEPT ![d] = q] /\ leftover' = leftover \ {d}
      BY <2>1, <2>3 DEF Note
    <3> QED BY <2>1, <3>1 DEF ErrorsAgree, TypeOK
  <2> QED BY <2>2, <2>3
<1>5. CASE Driver /\ \A d \in Dev : ~UpdateDevice(d)
  BY <1>1, <1>5 DEF Driver, Loop, Exchange, CheckSlaves, Settle, Report, judged, devices
<1>6. CASE Take
  BY <1>1, <1>6 DEF Take, judged, devices
<1>7. ASSUME NEW m \in Module, Slave(m) PROVE ErrorsAgree'
  BY <1>1, <1>7 DEF Slave, judged, devices
<1>8. CASE UNCHANGED vars
  BY <1>1, <1>8 DEF vars, judged, devices
<1> QED
  BY <1>2, <1>3, <1>4, <1>5, <1>6, <1>7, <1>8 DEF Next

-----------------------------------------------------------------------------
(* The quality that is answered                                            *)

(* A step that is not the owner's: what it has read stays, and it is told  *)
(* when COMError ends behind its back, or the variable gets in order.      *)
LEMMA OthersHonesty ==
    ASSUME TypeOK, Honesty, QualityHonest, Witness, Watched,
           UNCHANGED <<owner, asked, got>>,
           quality' = quality \/ \E d \in Dev : UpdateDevice(d)
    PROVE  Honesty' /\ QualityHonest'
<1>1. asked \in Dev /\ Watched'
  BY DEF Honesty, Watched
<1>2. (honest => honest') /\ (raced => raced')
  BY <1>1 DEF Witness
<1>3. owner' = "read" /\ got' = "OK" => honest' \/ raced' \/ drvState' = "COMError"
  BY <1>1, <1>2 DEF Honesty, Witness
<1>4. ASSUME owner' = "query", quality'[asked'] = "OK" PROVE honest'
  <2>1. CASE quality[asked] = "OK"
    BY <1>2, <1>4, <2>1 DEF Honesty
  <2>2. CASE quality[asked] # "OK"
    <3>1. PICK d \in Dev : UpdateDevice(d)
      BY <1>4, <2>2
    <3>2. d = asked /\ ModuleOf[d] \notin moduleErrors /\ moduleErrors' = moduleErrors
      BY <1>1, <1>4, <2>2, <3>1 DEF UpdateDevice, TypeOK, QuState, check
    <3>3. InOrder(asked)'
      BY <1>4, <3>2 DEF InOrder
    <3> QED BY <1>1, <3>3 DEF Witness
  <2> QED BY <2>1, <2>2
<1>5. QualityHonest'
  BY <1>2 DEF QualityHonest
<1> QED
  BY <1>1, <1>3, <1>4, <1>5 DEF Honesty

LEMMA AskHonesty ==
    ASSUME TypeOK, Honesty, QualityHonest, Witness, Ask
    PROVE  Honesty' /\ QualityHonest'
<1>0. UNCHANGED <<drvState, quality, moduleErrors>>
  BY DEF Ask, life, judged, check, devices
<1>1. ASSUME NEW d \in Dev, ReadQuality(d) PROVE Honesty' /\ QualityHonest'
  <2>1. owner' = "read" /\ asked' = d /\ got' = quality[d]
    BY <1>1 DEF ReadQuality
  <2>2. got' = "OK" => honest' \/ drvState' = "COMError"
    BY <1>0, <2>1 DEF Witness, Watched, InOrder
  <2> QED BY <2>1, <2>2 DEF Honesty, QualityHonest, Watched
<1>2. ASSUME NEW d \in Dev, QueryState(d) PROVE Honesty' /\ QualityHonest'
  <2>1. CASE drvState = "COMError"
    BY <1>2, <2>1 DEF QueryState, Honesty, QualityHonest, Watched
  <2>2. CASE drvState # "COMError"
    <3>1. owner' = "query" /\ asked' = d
      BY <1>2, <2>2 DEF QueryState
    <3>2. quality'[asked'] = "OK" => honest'
      BY <1>0, <2>2, <3>1 DEF Witness, Watched, InOrder
    <3> QED BY <3>1, <3>2 DEF Honesty, QualityHonest, Watched
  <2> QED BY <2>1, <2>2
<1>3. CASE ReadState
  <2>1. /\ owner = "read" /\ owner' = "answered" /\ asked' = asked
        /\ got' = IF drvState = "COMError" THEN "ComError" ELSE got
    BY <1>3 DEF ReadState
  <2>2. (honest => honest') /\ (raced => raced')
    BY <2>1 DEF Witness, Watched
  <2> QED BY <2>1, <2>2 DEF Honesty, QualityHonest, Watched
<1>4. CASE QueryQuality
  <2>1. owner = "query" /\ owner' = "answered" /\ asked' = asked /\ got' = quality[asked]
    BY <1>4 DEF QueryQuality
  <2>2. honest => honest'
    BY <2>1 DEF Witness, Watched
  <2> QED BY <2>1, <2>2 DEF Honesty, QualityHonest, Watched
<1>5. CASE Answered
  BY <1>5 DEF Answered, Honesty, QualityHonest, Watched
<1> QED BY <1>1, <1>2, <1>3, <1>4, <1>5 DEF Ask

LEMMA HonestyStep ==
    ASSUME TypeOK, Honesty, QualityHonest, [Next]_vars
    PROVE  Honesty' /\ QualityHonest'
<1>1. ASSUME ~Watched' PROVE Honesty' /\ QualityHonest'
  BY <1>1 DEF Watched, Honesty, QualityHonest
<1>2. CASE UNCHANGED vars
  BY <1>2 DEF vars, life, judged, devices, calls, asking, Watched, Honesty, QualityHonest
<1>3. CASE Next /\ Owner
  <2>1. CASE Ask
    BY <1>3, <2>1, AskHonesty DEF Next
  <2>2. CASE InitDriver
    BY <1>1, <2>2 DEF InitDriver, calls, Watched
  <2>3. CASE ~Ask /\ ~InitDriver
    <3>1. ~Watched'
      BY <1>3, <2>3 DEF Owner, LockState, StateCall, Write, WriteBegins, WriteGoesOn, LockImage,
            WriteIO, PutValue, Raise, Lower, Put, WakesSpuriously, WriteEnds,
            Signal, Exit, ExitCloses, Delete, NotifyEnd, Join, Watched
    <3> QED BY <1>1, <3>1
  <2> QED BY <2>1, <2>2, <2>3
<1>4. CASE Next /\ ~Owner /\ Watched'
  <2>1. /\ UNCHANGED <<asked, got>> /\ Watched
        /\ quality' = quality \/ \E d \in Dev : UpdateDevice(d)
        /\ owner' = owner
    <3>1. CASE Exchange
      BY <1>4, <3>1 DEF Exchange, asking, Watched, devices
    <3>2. CASE ~Exchange
      BY <1>4, <3>2 DEF Next, Driver, Loop, CheckSlaves, UpdateDevice, Settle, Report, Take, Slave,
            judged, devices, calls, asking, Watched
    <3> QED BY <3>1, <3>2
  <2> QED BY <1>4, <2>1, OthersHonesty DEF Next
<1> QED BY <1>1, <1>2, <1>3, <1>4

-----------------------------------------------------------------------------
(* The theorems                                                            *)

(* Whatever the owner, the driver thread, the slaves and a signal do to    *)
(* EthercatDrv and its devices: the places of the two threads say what the *)
(* parts of IInv say of the mutexes, the qualities and the process image.  *)
THEOREM FieldInvariant == Spec => []IInv
<1>1. Init => IInv
  <2>1. Init => TypeOK
    BY InitIsTyped
  <2>2. Init => Locks /\ Ending /\ ErrorsAgree
    BY DEF Init, Locks, Idle, DrvHoldsState, Ending, ErrorsAgree
  <2>3. Init => Honesty /\ Edge /\ QualityHonest
    BY DEF Init, Honesty, Watched, Edge, QualityHonest
  <2> QED BY <2>1, <2>2, <2>3 DEF IInv
<1>2. IInv /\ [Next]_vars => IInv'
  BY TypeStep, LocksStep, HonestyStep, EdgeStep, EndingStep, AgreeStep DEF IInv, Honesty
<1> QED BY <1>1, <1>2, PTL DEF Spec

(* Every state of the field driver is well typed, for any modules and      *)
(* devices: whatever stands behind the end of mSlavesComTrys, a counter of *)
(* trys never exceeds SLAVE_SYNC_TRYS + 1.                                 *)
THEOREM TypeInvariant == Spec => []TypeOK
  BY FieldInvariant, PTL DEF IInv

(* What getVarErrors gives away of a variable is what its device thinks of *)
(* it, but for the errors of a closed session (newVarError, clearVarError, *)
(* updateDevices, EthercatDrv::close).                                     *)
THEOREM ErrorsAgreeInvariant == Spec => []ErrorsAgree
  BY FieldInvariant, PTL DEF IInv

(* The quality OK of read and updateQState was true at some moment of the  *)
(* call, or COMError ended between the two halves of read.                 *)
THEOREM QualityIsHonest == Spec => []QualityHonest
  BY FieldInvariant, PTL DEF IInv

(* PulseDev::write returns true with its value in the terminal, if the set *)
(* bit was at rest and the exchanges that woke it arrived.                 *)
THEOREM PulsesAreLatched == Spec => []PulseLatched
<1>1. IInv => PulseLatched
  BY DEF IInv, Edge, PulseLatched
<1> QED BY <1>1, FieldInvariant, PTL

(* The thread that the destructor of EthercatDrv joins does not wait to be *)
(* started, unless it has missed the notification.                         *)
THEOREM JoinsEnd == Spec => []JoinEnds
<1>1. IInv => JoinEnds
  BY DEF IInv, Ending, JoinEnds
<1> QED BY <1>1, FieldInvariant, PTL

-----------------------------------------------------------------------------
(* FieldDrv implements FieldSource                                         *)

LEMMA InitIsSource == Init => Source!Init
BY DEF Init, Source!Init

LEMMA OwnerIsSource ==
    ASSUME TypeOK, Locks, Owner
    PROVE  Source!Owner \/ UNCHANGED Source!source
<1>1. ASSUME UNCHANGED life, UNCHANGED varErrors PROVE UNCHANGED Source!source
  BY <1>1 DEF life, Source!source
<1>2. ASSUME thread # "report", thread' \in {thread, "woken"},
             UNCHANGED <<varErrors, withErrors>>,
             drvState' \in {"UnInit", "Stopped", "Running"},
             drvState' = "Running" => drvState = "Stopped"
      PROVE  Source!Owner
  BY <1>2 DEF Source!Owner
<1>3. ASSUME thread' \in {thread, "woken"}, thread = "report" => thread' = "report",
             UNCHANGED <<drvState, varErrors, withErrors>>
      PROVE  UNCHANGED Source!source
  BY <1>3 DEF Source!source
<1>4. CASE InitDriver
  <2>1. thread # "report" /\ thread' \in {thread, "woken"}
    BY <1>4 DEF InitDriver, StateFree, DrvHoldsState, Notify
  <2> QED BY <1>2, <1>4, <2>1 DEF InitDriver
<1>5. CASE StateCall
  <2>1. thread # "report" /\ thread' \in {thread, "woken"}
    BY <1>5 DEF StateCall, Start, Stop, Close, Locks, DrvHoldsState, Notify
  <2>2. drvState' \in {"UnInit", "Stopped", "Running"} /\ (drvState' = "Running" => drvState = "Stopped")
    BY <1>5 DEF StateCall, Start, Stop, Close, Locks
  <2> QED BY <1>2, <1>5, <2>1, <2>2 DEF StateCall, judged, devices
<1>6. CASE Exit
  <2>1. UNCHANGED <<varErrors, withErrors>>
    BY <1>6 DEF Exit, judged, devices
  <2>2. CASE ExitCloses /\ drvState # "UnInit"
    <3>1. thread # "report" /\ thread' = thread /\ drvState' = "UnInit"
      BY <2>2 DEF ExitCloses, StateFree, DrvHoldsState
    <3> QED BY <1>2, <2>1, <3>1
  <2>3. CASE ~(ExitCloses /\ drvState # "UnInit")
    <3>1. /\ drvState' = drvState /\ thread' \in {thread, "woken"}
          /\ thread = "report" => thread' = "report"
      BY <1>6, <2>3 DEF Exit, ExitCloses, Delete, NotifyEnd, Join, Notify
    <3> QED BY <1>3, <2>1, <3>1
  <2> QED BY <2>2, <2>3
<1>7. CASE Owner /\ ~InitDriver /\ ~StateCall /\ ~Exit
  <2>1. UNCHANGED life /\ UNCHANGED varErrors
    BY <1>7 DEF Owner, LockState, Write, WriteBegins, WriteGoesOn, LockImage, WriteIO,
          WakesSpuriously, WriteEnds, Ask, Signal, judged, devices
  <2> QED BY <1>1, <2>1
<1> QED BY <1>4, <1>5, <1>6, <1>7

LEMMA DriverIsSource ==
    ASSUME TypeOK, Locks, Driver
    PROVE  Source!Cycle \/ UNCHANGED Source!source
<1>0. ASSUME thread \in {"check", "update"} PROVE Source!Exchanging
  BY <1>0 DEF Locks, Idle, TypeOK, Source!Exchanging, Source!Failed
<1>1. ASSUME NEW s \in Source!Failed, Enter(s), thread \in {"check", "update"},
             UNCHANGED <<varErrors, withErrors>>
      PROVE  Source!Cycle \/ UNCHANGED Source!source
  <2>1. CASE s = drvState
    BY <1>1, <2>1 DEF Enter, Source!source
  <2>2. CASE s # drvState
    <3>1. Source!Fail(s)
      BY <1>0, <1>1, <2>2 DEF Enter, Source!Fail
    <3> QED BY <3>1 DEF Source!Cycle
  <2> QED BY <2>1, <2>2
<1>2. CASE Loop
  BY <1>2 DEF Loop, judged, devices, Source!source
<1>3. CASE Exchange
  BY <1>3 DEF Exchange, devices, Source!source
<1>4. CASE CheckSlaves
  <2>1. CASE moduleErrors' = Module
    <3>1. Enter("COMError") /\ thread = "check" /\ UNCHANGED <<varErrors, withErrors>>
      BY <1>4, <2>1 DEF CheckSlaves
    <3> QED BY <1>1, <3>1 DEF Source!Failed
  <2>2. CASE moduleErrors' # Module
    BY <1>4, <2>2 DEF CheckSlaves, Source!source
  <2> QED BY <2>1, <2>2
<1>5. ASSUME NEW d \in Dev, UpdateDevice(d)
      PROVE  Source!Cycle \/ UNCHANGED Source!source
  <2>1. PICK q \in QuState : Note(d, q)
    BY <1>5 DEF UpdateDevice
  <2>2. thread = "update" /\ UNCHANGED <<drvState, thread, withErrors>>
    BY <1>5 DEF UpdateDevice, life
  <2>3. CASE UNCHANGED varErrors
    BY <2>2, <2>3 DEF Source!source
  <2>4. CASE varErrors' = [varErrors EXCEPT ![d] = q]
    <3>1. Source!Assess(d, q)
      BY <1>0, <2>2, <2>4 DEF Source!Assess
    <3> QED BY <3>1 DEF Source!Cycle, QuState, Source!QuState
  <2> QED BY <2>1, <2>3, <2>4 DEF Note
<1>6. CASE Settle
  <2>1. UNCHANGED <<varErrors, withErrors>> /\ thread = "update"
    BY <1>6 DEF Settle, judged, devices
  <2>2. CASE NoErrors
    <3>1. Source!Recover
      BY <1>0, <1>6, <2>1, <2>2 DEF Settle, NoErrors, Source!Recover
    <3> QED BY <3>1 DEF Source!Cycle
  <2>3. CASE ~NoErrors
    BY <1>1, <1>6, <2>1, <2>3 DEF Settle, Source!Failed
  <2> QED BY <2>2, <2>3
<1>7. CASE Report
  <2>1. Source!Report
    BY <1>7 DEF Report, judged, devices, Source!Report
  <2> QED BY <2>1 DEF Source!Cycle
<1> QED BY <1>2, <1>3, <1>4, <1>5, <1>6, <1>7 DEF Driver

(* EthercatDrv and its devices keep the promise of module FieldSource:     *)
(* every entry into an error state is reported once and at once, the       *)
(* errors of variables change only while the driver exchanges, and Running *)
(* follows on no errors.                                                   *)
THEOREM ImplementsFieldSource == Spec => SourceSpec
<1>1. IInv /\ [Next]_vars => [Source!Next]_(Source!source)
  <2>1. SUFFICES ASSUME TypeOK, Locks, [Next]_vars
                 PROVE  Source!Next \/ UNCHANGED Source!source
    BY DEF IInv
  <2>2. CASE UNCHANGED vars
    BY <2>2 DEF vars, life, judged, devices, Source!source
  <2>3. CASE Take
    <3>1. Source!Take
      BY <2>3 DEF Take, judged, devices, Source!Take
    <3> QED BY <3>1 DEF Source!Next
  <2>4. ASSUME NEW m \in Module, Slave(m) PROVE UNCHANGED Source!source
    BY <2>4 DEF Slave, life, judged, devices, Source!source
  <2> QED
    BY <2>1, <2>2, <2>3, <2>4, OwnerIsSource, DriverIsSource DEF Next, Source!Next
<1> QED
  BY <1>1, InitIsSource, FieldInvariant, PTL DEF Spec, SourceSpec, Source!Spec
=============================================================================
