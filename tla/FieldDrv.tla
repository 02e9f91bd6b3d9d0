------------------------------ MODULE FieldDrv ------------------------------
(***************************************************************************)
(* The EtherCAT driver of the regulator and its devices                    *)
(* (Regulator/src/FieldDriver).  Two threads take part:                    *)
(*                                                                         *)
(*  - the driver thread (driverLoop) exchanges the process image with the  *)
(*    slaves every 20 ms, judges the slaves and has every device judge its *)
(*    variable;                                                            *)
(*  - the owner initialises, starts, stops, closes and deletes the driver, *)
(*    writes outputs and asks for the quality of variables; SIGINT runs    *)
(*    exitReg on the owner's thread between any two of its steps.          *)
(*                                                                         *)
(* mtDrvStateMutex is held by the driver thread over a whole cycle, and    *)
(* mtIOMapMutex by whoever touches the process image; what happens under   *)
(* the latter in one go is one step.  The quality of a variable and the    *)
(* state are read without a lock.                                          *)
(***************************************************************************)
EXTENDS Naturals, FiniteSets

CONSTANTS
    NumModules,   \* ec_slavecount
    Dev,          \* mDevices: the addresses of the variables
    ModuleOf,     \* uiModule of each
    Analog,       \* those that have a status word
    PulseModule,  \* the module of a PulseDev
    SyncTrys      \* SLAVE_SYNC_TRYS

Module == 1..NumModules

ASSUME ModulesAssumption == NumModules \in Nat \ {0} /\ PulseModule \in Module
ASSUME DevAssumption == ModuleOf \in [Dev -> Module] /\ Analog \subseteq Dev
ASSUME TrysAssumption == SyncTrys \in Nat

Value == {1, 2}      \* bound: values of the pulse output
None  == 0

VARIABLES
    \* EthercatDrv
    drvState,      \* mtDrvState
    thread,        \* where the driver thread is
    drvEnd,        \* mbDrvEnd
    low,           \* iWorkCount < expectedWKC
    syncTrys,      \* mSlavesComTrys
    moduleErrors,  \* mModuleErrors
    varErrors,     \* mVarErrors, "OK" for an address that is not in it
    quality,       \* mbInError and mtLastQState of each device
    todo,          \* devices updateDevices has not come to
    withErrors,    \* what mferrorCallB sets
    \* the owner
    owner,         \* where it is
    holds,         \* the mutexes it holds
    value,         \* what write was called with
    asked, got,    \* the variable it asks for, and the quality it has read
    \* process image and field
    image,         \* outputs of the pulse terminal in mcIOmap
    slave,         \* EtherCAT state of each slave
    terminal,      \* value the pulse terminal has latched, set bit it knows
    \* history
    missed,        \* the driver thread missed the notification of its end
    leftover,      \* variables whose error is of a closed session
    reached,       \* the terminal was at rest, and got what woke the owner
    honest,        \* the variable asked for was in order at some moment
    raced          \* COMError ended between the two halves of read

life    == <<drvState, drvEnd, missed, thread, withErrors>>
check   == <<low, syncTrys, moduleErrors>>
devices == <<varErrors, quality, todo, leftover>>
judged  == <<check, devices>>
asking  == <<asked, got>>
calls   == <<owner, holds, value, reached, asking>>
field   == <<slave, image, terminal>>
vars    == <<life, judged, calls, field, honest, raced>>

QuState == {"OK", "OverRange", "UnderRange", "ComError"}
Idle    == drvState \in {"UnInit", "Stopped"}
Output  == [val : Value \cup {None}, set : {0, 1}]

TypeOK ==
    /\ drvState \in {"UnInit", "Stopped", "Running", "VarError", "COMError"}
    /\ thread \in {"top", "look", "wait", "woken", "sleep", "cycle", "check",
                   "update", "report", "ended"}
    /\ drvEnd \in BOOLEAN /\ low \in BOOLEAN /\ withErrors \in BOOLEAN
    /\ syncTrys \in [Module -> 0..(SyncTrys + 1)]
    /\ moduleErrors \subseteq Module
    /\ varErrors \in [Dev -> QuState] /\ quality \in [Dev -> QuState]
    /\ todo \subseteq Dev
    /\ owner \in {"free", "start", "stop", "close", "value", "written", "raise",
                  "raised", "noticed", "lower", "lowered", "done",
                  "read", "query", "answered",
                  "exit", "delete", "notify", "join", "gone"}
    /\ holds \subseteq {"state", "io"}
    /\ value \in Value \cup {None}
    /\ asked \in Dev \cup {None} /\ got \in QuState
    /\ image \in Output /\ terminal \in Output
    /\ slave \in [Module -> {"op", "safe", "low"}]
    /\ missed \in BOOLEAN /\ reached \in BOOLEAN
    /\ honest \in BOOLEAN /\ raced \in BOOLEAN
    /\ leftover \subseteq Dev

Init ==
    /\ drvState = "UnInit" /\ thread = "top" /\ drvEnd = FALSE /\ low = FALSE
    /\ syncTrys = [m \in Module |-> 0] /\ moduleErrors = {}
    /\ varErrors = [d \in Dev |-> "OK"] /\ quality = [d \in Dev |-> "OK"] /\ todo = {}
    /\ withErrors = FALSE
    /\ owner = "free" /\ holds = {} /\ value = None /\ asked = None /\ got = "OK"
    /\ image = [val |-> None, set |-> 0] /\ terminal = [val |-> None, set |-> 0]
    /\ slave = [m \in Module |-> "op"]
    /\ missed = FALSE /\ leftover = {} /\ reached = FALSE
    /\ honest = FALSE /\ raced = FALSE

-----------------------------------------------------------------------------
(* Locks and the condition variable mtWaitingStart                         *)

DrvHoldsState == thread \in {"look", "cycle", "check", "update", "report"}
StateFree     == ~DrvHoldsState /\ "state" \notin holds

Notify == thread' = IF thread = "wait" THEN "woken" ELSE thread

-----------------------------------------------------------------------------
(* The field                                                               *)

Slave(m) ==
    /\ \E s \in {"op", "safe", "low"} : slave' = [slave EXCEPT ![m] = s]
    /\ UNCHANGED <<life, judged, calls, image, terminal>>

(* The terminal takes the value on a rising edge of the set bit.           *)
Latch ==
    terminal' = [val |-> IF image.set = 1 /\ terminal.set = 0 THEN image.val ELSE terminal.val,
                 set |-> image.set]

-----------------------------------------------------------------------------
(* The driver thread                                                       *)

(* Mutant: the end of the driver is not looked at.                         *)
AwakeToRun == ~Idle

(* What a thread that is to wait looks at before it does, and after.       *)
Awake == ~Idle \/ drvEnd

(* driverLoop, but for the exchange.                                       *)
Loop ==
    /\ \/ thread = "top" /\ drvEnd /\ thread' = "ended"
       \/ thread = "look" /\ thread' = "wait"
       \/ /\ StateFree
          /\ \/ thread = "top" /\ ~drvEnd /\ thread' = IF Idle THEN "look" ELSE "sleep"
             \/ thread = "woken" /\ thread' = IF Awake THEN "top" ELSE "look"
             \/ thread = "sleep" /\ thread' = IF Idle THEN "top" ELSE "cycle"
    /\ UNCHANGED <<drvState, drvEnd, missed, withErrors, judged, calls, field>>

(* Send, receive and wake the owner, all under mtIOMapMutex.  A frame may  *)
(* be lost on its way out or on its way back.                              *)
Exchange ==
    /\ thread = "cycle" /\ "io" \notin holds
    /\ thread' = "check"
    /\ \E sent, answered \in BOOLEAN :
         /\ low' = ~(sent /\ answered /\ \A m \in Module : slave[m] # "low")
         /\ LET delivered == sent /\ slave[PulseModule] = "op" IN
              /\ IF delivered THEN Latch ELSE UNCHANGED terminal
              /\ reached' = (reached /\ (delivered \/ owner \notin {"raised", "lowered"}))
    /\ owner' = CASE owner = "raised" -> "noticed"
                  [] owner = "lowered" -> "done"
                  [] OTHER -> owner
    /\ UNCHANGED <<drvState, drvEnd, missed, withErrors, syncTrys, moduleErrors,
                   devices, holds, value, asking, slave, image>>

(* Mutant: the slaves in error are counted from zero.                      *)
JudgeFromZero ==
    LET Lost(m) == slave[m] = "low" \/ (slave[m] = "safe" /\ syncTrys[m] >= SyncTrys) IN
    /\ moduleErrors' = IF low THEN {m - 1 : m \in {n \in Module : Lost(n)}} ELSE {}
    /\ UNCHANGED syncTrys

(* checkSlavesWKC: a slave out of synchrony is in error after some trys, a *)
(* slave in any other state at once.                                       *)
Judge ==
    LET Lost(m) == \/ slave[m] = "low"
                   \/ slave[m] = "safe" /\ (syncTrys[m] >= SyncTrys \/ m \in moduleErrors)
    IN  IF low
        THEN /\ moduleErrors' = {m \in Module : Lost(m)}
             /\ syncTrys' = [m \in Module |->
                    CASE slave[m] = "op"   -> 0
                      [] slave[m] = "safe" -> IF syncTrys[m] > SyncTrys THEN syncTrys[m]
                                                                       ELSE syncTrys[m] + 1
                      [] slave[m] = "low"  -> syncTrys[m]]
        ELSE /\ moduleErrors' = {}
             /\ syncTrys' = [m \in Module |-> IF m \in moduleErrors THEN 0 ELSE syncTrys[m]]

Enter(s) ==
    /\ drvState' = s
    /\ thread' = IF s = drvState THEN "top" ELSE "report"

CheckSlaves ==
    /\ thread = "check"
    /\ Judge
    /\ IF moduleErrors' = Module
       THEN Enter("COMError") /\ UNCHANGED todo
       ELSE thread' = "update" /\ todo' = Dev /\ UNCHANGED drvState
    /\ UNCHANGED <<drvEnd, missed, withErrors, low, varErrors, quality, leftover,
                   calls, field>>

(* Mutant: one error after another is not a change.                        *)
NoteFirst(d, q) ==
    IF (q = "OK") = (quality[d] = "OK") THEN UNCHANGED <<varErrors, leftover>>
    ELSE varErrors' = [varErrors EXCEPT ![d] = q] /\ leftover' = leftover \ {d}

(* A device has newVarError or clearVarError called when its opinion of    *)
(* the variable changes.                                                   *)
Note(d, q) ==
    IF q = quality[d] THEN UNCHANGED <<varErrors, leftover>>
    ELSE varErrors' = [varErrors EXCEPT ![d] = q] /\ leftover' = leftover \ {d}

(* updateDevice of the three kinds of devices; a status word is read under *)
(* mtIOMapMutex.                                                           *)
UpdateDevice(d) ==
    /\ thread = "update" /\ d \in todo
    /\ todo' = todo \ {d}
    /\ \E q \in QuState :
         /\ \/ q = "ComError" /\ ModuleOf[d] \in moduleErrors
            \/ q = "OK" /\ ModuleOf[d] \notin moduleErrors /\ d \notin Analog
            \/ ModuleOf[d] \notin moduleErrors /\ d \in Analog /\ "io" \notin holds
         /\ quality' = [quality EXCEPT ![d] = q]
         /\ Note(d, q)
    /\ UNCHANGED <<life, check, calls, field>>

(* Mutant: only the modules count.                                         *)
NoModuleErrors == moduleErrors = {}

NoErrors == moduleErrors = {} /\ \A d \in Dev : varErrors[d] = "OK"

(* Back from updateDevices.                                                *)
Settle ==
    /\ thread = "update" /\ todo = {}
    /\ IF NoErrors THEN drvState' = "Running" /\ thread' = "top" ELSE Enter("VarError")
    /\ UNCHANGED <<drvEnd, missed, withErrors, judged, calls, field>>

(* mferrorCallB                                                            *)
Report ==
    /\ thread = "report"
    /\ withErrors' = TRUE
    /\ thread' = "top"
    /\ UNCHANGED <<drvState, drvEnd, missed, judged, calls, field>>

Driver ==
    Loop \/ Exchange \/ CheckSlaves \/ (\E d \in Dev : UpdateDevice(d)) \/ Settle \/ Report

-----------------------------------------------------------------------------
(* The owner: init, start, stop and close                                  *)

(* init has loaded new devices and brought the slaves to operation.  The   *)
(* vector of trys has no place for the last slave: what stands there is    *)
(* not known.                                                              *)
InitDriver ==
    /\ owner = "free" /\ drvState = "UnInit" /\ StateFree
    /\ drvState' = "Stopped"
    /\ quality' = [d \in Dev |-> "OK"]
    /\ leftover' = {d \in Dev : varErrors[d] # "OK"}
    /\ \E n \in 0..(SyncTrys + 1) : syncTrys' = [m \in Module |-> IF m = NumModules THEN n ELSE 0]
    /\ Notify
    /\ UNCHANGED <<drvEnd, missed, withErrors, low, moduleErrors, varErrors, todo,
                   calls, field>>

LockState(call) ==
    /\ owner = "free" /\ StateFree
    /\ drvState # "UnInit" /\ (call = "start" => drvState = "Stopped")
    /\ owner' = call /\ holds' = holds \cup {"state"}
    /\ UNCHANGED <<life, judged, value, reached, asking, field>>

Start == owner = "start" /\ drvState' = "Running" /\ Notify
Stop  == owner = "stop"  /\ drvState' = "Stopped" /\ UNCHANGED thread
Close == owner = "close" /\ drvState' = "UnInit"  /\ UNCHANGED thread

StateCall ==
    /\ Start \/ Stop \/ Close
    /\ owner' = "free" /\ holds' = holds \ {"state"}
    /\ UNCHANGED <<drvEnd, missed, withErrors, judged, value, reached, asking, field>>

-----------------------------------------------------------------------------
(* The owner: write of a PulseDev, which writes the value, raises the set  *)
(* bit and lowers it, and waits for an exchange after each of the latter.  *)

LockImage(from, to) ==
    /\ owner = from /\ "io" \notin holds
    /\ owner' = to /\ holds' = holds \cup {"io"}
    /\ UNCHANGED <<life, judged, asking, field>>

WriteBegins ==
    /\ drvState # "UnInit"
    /\ LockImage("free", "value")
    /\ value' \in Value
    /\ reached' = (image.set = 0 /\ terminal.set = 0)

WriteGoesOn ==
    /\ LockImage("written", "raise") \/ LockImage("noticed", "lower")
    /\ UNCHANGED <<value, reached>>

(* writeIO, up to the wait if it is a synchronous one.                     *)
Put(from, to, part, v) ==
    /\ owner = from /\ owner' = to
    /\ image' = [image EXCEPT ![part] = v]

(* Mutant: the set bit is raised without waiting for an exchange.          *)
RaiseAsync == Put("raise", "noticed", "set", 1)

PutValue == Put("value", "written", "val", value)
Raise    == Put("raise", "raised", "set", 1)
Lower    == Put("lower", "lowered", "set", 0)

WriteIO ==
    /\ PutValue \/ Raise \/ Lower
    /\ holds' = holds \ {"io"}
    /\ UNCHANGED <<life, judged, value, reached, asking, slave, terminal>>

(* The wait has no condition to look at when it ends by itself.            *)
WakesSpuriously ==
    /\ \/ owner = "raised" /\ owner' = "noticed"
       \/ owner = "lowered" /\ owner' = "done"
    /\ reached' = FALSE
    /\ UNCHANGED <<life, judged, holds, value, asking, field>>

(* write returns true, or false when there was no exchange for two seconds.*)
WriteEnds ==
    /\ owner \in {"done", "raised", "lowered"}
    /\ owner' = "free" /\ value' = None /\ reached' = FALSE
    /\ UNCHANGED <<life, judged, holds, asking, field>>

Write == WriteBegins \/ WriteGoesOn \/ WriteIO \/ WakesSpuriously \/ WriteEnds

-----------------------------------------------------------------------------
(* The owner: the quality of a variable, by read of an input and           *)
(* updateQState of an output                                               *)

ReadQuality(d) ==
    /\ owner = "free" /\ drvState # "UnInit"
    /\ asked' = d /\ got' = quality[d] /\ owner' = "read"

(* Mutant: the state of the driver is forgotten.                           *)
ReadOnly == owner = "read" /\ owner' = "answered" /\ UNCHANGED asking

ReadState ==
    /\ owner = "read"
    /\ got' = IF drvState = "COMError" THEN "ComError" ELSE got
    /\ owner' = "answered" /\ UNCHANGED asked

QueryState(d) ==
    /\ owner = "free" /\ drvState # "UnInit"
    /\ asked' = d
    /\ IF drvState = "COMError" THEN got' = "ComError" /\ owner' = "answered"
                                ELSE owner' = "query" /\ UNCHANGED got

QueryQuality ==
    /\ owner = "query"
    /\ got' = quality[asked]
    /\ owner' = "answered" /\ UNCHANGED asked

Answered ==
    /\ owner = "answered"
    /\ owner' = "free" /\ asked' = None /\ got' = "OK"

Ask ==
    /\ (\E d \in Dev : ReadQuality(d) \/ QueryState(d)) \/ ReadState \/ QueryQuality \/ Answered
    /\ UNCHANGED <<life, judged, holds, value, reached, field>>

-----------------------------------------------------------------------------
(* The owner: exitReg, called by the signal handler on top of whatever the *)
(* owner was doing, and the destructor                                     *)

Exiting == owner \in {"exit", "delete", "notify", "join", "gone"}

Signal ==
    /\ ~Exiting
    /\ owner' = "exit"
    /\ UNCHANGED <<life, judged, holds, value, reached, asking, field>>

ExitCloses ==
    /\ owner = "exit" /\ owner' = "delete"
    /\ drvState # "UnInit" => StateFree
    /\ drvState' = "UnInit" /\ UNCHANGED <<drvEnd, missed, thread>>

Delete ==
    /\ owner = "delete" /\ owner' = "notify"
    /\ drvEnd' = TRUE /\ UNCHANGED <<drvState, missed, thread>>

NotifyEnd ==
    /\ owner = "notify" /\ owner' = "join"
    /\ Notify /\ missed' = (thread = "look") /\ UNCHANGED <<drvState, drvEnd>>

Join ==
    /\ owner = "join" /\ owner' = "gone"
    /\ thread = "ended" /\ UNCHANGED <<drvState, drvEnd, missed, thread>>

Exit ==
    /\ ExitCloses \/ Delete \/ NotifyEnd \/ Join
    /\ UNCHANGED <<withErrors, judged, holds, value, reached, asking, field>>

(* The alarm manager takes what the callback left.                         *)
Take ==
    /\ withErrors' = FALSE
    /\ UNCHANGED <<drvState, drvEnd, missed, thread, judged, calls, field>>

-----------------------------------------------------------------------------
Owner ==
    \/ InitDriver \/ (\E c \in {"start", "stop", "close"} : LockState(c)) \/ StateCall
    \/ Write \/ Ask \/ Signal \/ Exit

InOrder(d) == quality[d] = "OK" /\ (drvState # "COMError" \/ ModuleOf[d] \notin moduleErrors)
Watched    == owner \in {"read", "query", "answered"}

(* History of what the owner asks for.                                     *)
Witness ==
    /\ honest' = (Watched' /\ (InOrder(asked)' \/ (Watched /\ honest)))
    /\ raced' = (Watched' /\ (\/ owner = "read" /\ drvState = "COMError" /\ drvState' # "COMError"
                              \/ Watched /\ raced))

Next == (Owner \/ Driver \/ Take \/ \E m \in Module : Slave(m)) /\ Witness

Spec == Init /\ [][Next]_vars

-----------------------------------------------------------------------------
(* Safety                                                                  *)

(* What getVarErrors gives away of a variable is what its device thinks of *)
(* it, whatever becomes of its module and its status word, unless the      *)
(* error is of a session that was closed: close forgets the devices and    *)
(* not the errors.                                                         *)
ErrorsAgree == \A d \in Dev \ leftover : varErrors[d] = quality[d]

(* The driver promises what FieldSource says to its client: an error state *)
(* is reported once and at once, and Running follows on no errors.         *)
Source == INSTANCE FieldSource WITH owed <- (thread = "report")
SourceSpec == Source!Spec

(* The quality OK that read and updateQState give is one that the variable *)
(* had at some moment of the call, although they read state and quality    *)
(* without a lock while the driver thread changes both; but for read,      *)
(* which takes the quality first, when COMError ends between the two.      *)
QualityHonest == owner = "answered" /\ got = "OK" => honest \/ raced

(* A write that returns true has put its value into the terminal, whatever *)
(* the driver thread did meanwhile, when the set bit was at rest and the   *)
(* exchanges that woke it reached the terminal.  A write that failed       *)
(* leaves the bit set, and the next one has no edge to show.               *)
PulseLatched == owner = "done" /\ reached => terminal.val = value

(* The shutdown waits for ever only for a thread that missed the           *)
(* notification, which is sent without the mutex.                          *)
JoinEnds == owner = "join" => thread # "wait" \/ missed
=============================================================================
