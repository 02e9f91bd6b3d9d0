------------------------------ MODULE ReadCycle ------------------------------
(***************************************************************************)
(* The way of a value from the registers of the regulator to the panels of *)
(* the HMI.  Two threads of the HMI process take part:                     *)
(*                                                                         *)
(*  - the driver thread (ModbusMasterDrv::driverLoop) reads the variables  *)
(*    one after the other, field variables first, and marks those that     *)
(*    have changed;                                                        *)
(*  - the GUI thread (RegImage::updateImage, every 20 ms) takes the marks, *)
(*    reads these variables from the driver and emits varChanged.          *)
(*                                                                         *)
(* Marks are under mtChagesSetMutex, values under mtIOMapMutex: a critical *)
(* section of either is one step.  mtDrvStateMutex is held by the driver   *)
(* thread except at "idle".                                                *)
(***************************************************************************)
EXTENDS Naturals, FiniteSets

CONSTANTS
    NumFieldVars,   \* mFieldVars.size(), variables 1..NumFieldVars
    NumVars,        \* muiVarsToUpdate
    ROInts,         \* those of mModbusVars that are bit strings
    MaxTrys,        \* MAX_TRANSMISSION_TRYS
    Val             \* values of a register

ASSUME NumAssumption ==
    NumFieldVars \in Nat /\ NumVars \in Nat \ {0} /\ NumFieldVars <= NumVars
ASSUME ROIntsAssumption == ROInts \subseteq (NumFieldVars + 1)..NumVars
ASSUME TrysAssumption == MaxTrys \in Nat \ {0}
ASSUME ValAssumption == 0 \in Val

Vars == 1..NumVars
IsField(v) == v <= NumFieldVars

(* What is read of a variable: of a field variable the values, and, in     *)
(* further requests, quality and forced bit; of the others the value only. *)
Data == [val : Val, rest : Val]
Zero == [val |-> 0, rest |-> 0]
NumParts(v) == IF IsField(v) THEN 2 ELSE 1

(* A variable as a panel shows it, com being its quality ComError.         *)
Shown(d, e) == [val |-> d.val, rest |-> d.rest, com |-> e]
Image == [val : Val, rest : Val, com : BOOLEAN]

VARIABLES
    reg,        \* registers of the regulator
    \* ModbusMasterDrv
    drvState,   \* mtDrvState
    connected,  \* bConnected
    data,       \* values of mFieldVars and mModbusVars
    first,      \* variables with mbForceChangeDetection
    changed,    \* musChangedVars
    it,         \* mFieldIt, mModbusIt: NumVars + 1 is the end of both
    drv,        \* where the driver thread is in processRead
    got,        \* parts of the variable read so far
    trys,       \* iNumTrys: iterations begun
    fresh,      \* what was read
    \* RegImage and panels
    gui,        \* where the GUI thread is in updateImage
    taken,      \* usChanges
    image,      \* what the last varChanged of each variable said
    updated,    \* usLastVarChanges
    shown,      \* allVarsUpdated was emitted
    \* history
    stored,     \* variables the driver has stored a value of
    raced       \* variables whose last varChanged overtook the driver

link    == <<drvState, connected>>
table   == <<data, first, stored>>
reading == <<drv, got, trys, fresh>>
panels  == <<image, updated, shown, raced>>
vars    == <<reg, link, table, changed, it, reading, gui, taken, panels>>

TypeOK ==
    /\ reg \in [Vars -> Data]
    /\ drvState \in {"Running", "Stopped", "COMError"}
    /\ connected \in BOOLEAN
    /\ data \in [Vars -> Data]
    /\ first \subseteq Vars
    /\ changed \subseteq Vars
    /\ it \in 1..(NumVars + 1)
    /\ drv \in {"idle", "read", "mark", "store"}
    /\ got \in 0..2
    /\ trys \in 0..MaxTrys
    /\ fresh \in Data
    /\ gui \in {"idle", "take", "apply"}
    /\ taken \subseteq Vars
    /\ image \in [Vars -> Image]
    /\ updated \subseteq Vars
    /\ shown \in BOOLEAN
    /\ stored \subseteq Vars
    /\ raced \subseteq Vars

(* init has succeeded; new FieldData() and new ModbusData() are zero.      *)
Init ==
    /\ reg \in [Vars -> Data]
    /\ \A v \in Vars : ~IsField(v) => reg[v].rest = 0
    /\ drvState = "Stopped" /\ connected = FALSE
    /\ data = [v \in Vars |-> Zero] /\ first = Vars /\ stored = {}
    /\ changed = {} /\ it = 1
    /\ drv = "idle" /\ got = 0 /\ trys = 0 /\ fresh = Zero
    /\ gui = "idle" /\ taken = {}
    /\ image = [v \in Vars |-> Shown(Zero, FALSE)]
    /\ updated = {} /\ shown = FALSE /\ raced = {}

-----------------------------------------------------------------------------
(* The regulator                                                           *)

Change(v) ==
    /\ \E d \in Data :
         /\ d # reg[v]
         /\ ~IsField(v) => d.rest = 0
         /\ reg' = [reg EXCEPT ![v] = d]
    /\ UNCHANGED <<link, table, changed, it, reading, gui, taken, panels>>

-----------------------------------------------------------------------------
(* The driver thread                                                       *)

DrvTakesLock == drv = "idle"

Connect ==
    /\ DrvTakesLock
    /\ drvState = "Running" /\ ~connected
    /\ \/ connected' = TRUE /\ UNCHANGED drvState
       \/ drvState' = "COMError" /\ UNCHANGED connected
    /\ UNCHANGED <<reg, table, changed, it, reading, gui, taken, panels>>

(* A write of the write cycle, which comes first, has failed.              *)
WriteFails ==
    /\ DrvTakesLock
    /\ drvState = "Running" /\ connected
    /\ drvState' = "COMError"
    /\ UNCHANGED <<reg, connected, table, changed, it, reading, gui, taken, panels>>

DropConnection ==
    /\ DrvTakesLock
    /\ drvState = "COMError" /\ connected
    /\ connected' = FALSE
    /\ UNCHANGED <<reg, drvState, table, changed, it, reading, gui, taken, panels>>

Reconnect ==
    /\ DrvTakesLock
    /\ drvState = "COMError" /\ ~connected
    /\ \/ connected' = TRUE /\ drvState' = "Running"
       \/ UNCHANGED link
    /\ UNCHANGED <<reg, table, changed, it, reading, gui, taken, panels>>

(* processNextRead calls processRead for the variable at the iterators.    *)
BeginRead ==
    /\ DrvTakesLock
    /\ drvState = "Running" /\ connected
    /\ it <= NumVars
    /\ drv' = "read" /\ got' = 0 /\ trys' = 1
    /\ UNCHANGED <<reg, link, table, changed, it, fresh, gui, taken, panels>>

(* processRead has failed: the iterators stay.                             *)
ReadFails ==
    /\ drvState' = "COMError"
    /\ drv' = "idle" /\ got' = 0 /\ trys' = 0 /\ fresh' = Zero

(* A request is answered.  The loop over the parts of a field variable     *)
(* takes a variable that is complete in its last iteration for a failure,  *)
(* the loops over the others do not.                                       *)
PartArrives ==
    /\ drv = "read"
    /\ LET read == IF got = 0 THEN [fresh EXCEPT !.val = reg[it].val]
                              ELSE [fresh EXCEPT !.rest = reg[it].rest]
           complete == got + 1 = NumParts(it)
       IN  \/ /\ ~complete
              /\ got' = got + 1 /\ fresh' = read
              /\ UNCHANGED <<drv, trys, drvState>>
           \/ /\ complete /\ ~(IsField(it) /\ trys = MaxTrys)
              /\ drv' = "mark" /\ got' = 0 /\ trys' = 0 /\ fresh' = read
              /\ UNCHANGED drvState
           \/ /\ complete /\ IsField(it) /\ trys = MaxTrys
              /\ ReadFails
    /\ UNCHANGED <<reg, connected, table, changed, it, gui, taken, panels>>

(* Mutant: one try too many.                                               *)
OneTryTooMany ==
    /\ drv = "read"
    /\ IF trys > MaxTrys THEN ReadFails
       ELSE trys' = trys + 1 /\ UNCHANGED <<drv, got, fresh, drvState>>
    /\ UNCHANGED <<reg, connected, table, changed, it, gui, taken, panels>>

(* A request fails; the parts read so far are kept.                        *)
PartMissing ==
    /\ drv = "read"
    /\ IF trys = MaxTrys THEN ReadFails
       ELSE trys' = trys + 1 /\ UNCHANGED <<drv, got, fresh, drvState>>
    /\ UNCHANGED <<reg, connected, table, changed, it, gui, taken, panels>>

(* Mutant: only the value is compared.                                     *)
MarkValue ==
    /\ drv = "mark"
    /\ IF it \in first \/ fresh.val # data[it].val
       THEN changed' = changed \cup {it} /\ first' = first \ {it}
       ELSE UNCHANGED <<changed, first>>
    /\ drv' = "store"
    /\ UNCHANGED <<reg, link, data, stored, it, got, trys, fresh, gui, taken, panels>>

(* Mutant: without mbForceChangeDetection.                                 *)
MarkDifference ==
    /\ drv = "mark"
    /\ IF fresh # data[it]
       THEN changed' = changed \cup {it} /\ first' = first \ {it}
       ELSE UNCHANGED <<changed, first>>
    /\ drv' = "store"
    /\ UNCHANGED <<reg, link, data, stored, it, got, trys, fresh, gui, taken, panels>>

(* Mutant: only the first reading is marked.                               *)
MarkNew ==
    /\ drv = "mark"
    /\ IF it \in first
       THEN changed' = changed \cup {it} /\ first' = first \ {it}
       ELSE UNCHANGED <<changed, first>>
    /\ drv' = "store"
    /\ UNCHANGED <<reg, link, data, stored, it, got, trys, fresh, gui, taken, panels>>

(* The variable is marked, under mtChagesSetMutex,                         *)
Mark ==
    /\ drv = "mark"
    /\ IF it \in first \/ fresh # data[it]
       THEN changed' = changed \cup {it} /\ first' = first \ {it}
       ELSE UNCHANGED <<changed, first>>
    /\ drv' = "store"
    /\ UNCHANGED <<reg, link, data, stored, it, got, trys, fresh, gui, taken, panels>>

(* and only then stored, under mtIOMapMutex.                               *)
Store ==
    /\ drv = "store"
    /\ data' = [data EXCEPT ![it] = fresh]
    /\ stored' = stored \cup {it}
    /\ it' = it + 1
    /\ drv' = "idle" /\ fresh' = Zero
    /\ UNCHANGED <<reg, link, first, changed, got, trys, gui, taken, panels>>

(* The end of a pass: processNextRead starts over, but returns false.      *)
PassEnds ==
    /\ DrvTakesLock
    /\ drvState = "Running" /\ connected
    /\ it > NumVars
    /\ it' = 1
    /\ drvState' = "COMError"
    /\ UNCHANGED <<reg, connected, table, changed, reading, gui, taken, panels>>

-----------------------------------------------------------------------------
(* The GUI thread                                                          *)

Start ==
    /\ gui = "idle" /\ drv = "idle"
    /\ drvState = "Stopped"
    /\ drvState' = "Running"
    /\ UNCHANGED <<reg, connected, table, changed, it, reading, gui, taken, panels>>

Stop ==
    /\ gui = "idle" /\ drv = "idle"
    /\ drvState # "Stopped"
    /\ drvState' = "Stopped" /\ connected' = FALSE
    /\ UNCHANGED <<reg, table, changed, it, reading, gui, taken, panels>>

(* updateImage: the state is looked at once, without the mutex,            *)
UpdateImage ==
    /\ gui = "idle"
    /\ drvState = "Running"
    /\ gui' = "take"
    /\ UNCHANGED <<reg, link, table, changed, it, reading, taken, panels>>

(* getChangedVars                                                          *)
TakeChanges ==
    /\ gui = "take"
    /\ taken' = changed /\ changed' = {}
    /\ gui' = IF changed = {} THEN "idle" ELSE "apply"
    /\ UNCHANGED <<reg, link, table, it, reading, panels>>

(* Mutant: the signal comes one variable early.                            *)
OneVarEarly(v) ==
    IF shown THEN UNCHANGED <<updated, shown>>
    ELSE /\ updated' = updated \cup {v}
         /\ shown' = (Cardinality(updated') + 1 >= NumVars)

NewVarUpdated(v) ==
    IF shown THEN UNCHANGED <<updated, shown>>
    ELSE /\ updated' = updated \cup {v}
         /\ shown' = (Cardinality(updated') = NumVars)

(* The driver's mark for v is older than its value: marked, not stored.    *)
Unstored(v) == drv = "store" /\ it = v /\ fresh # data[v]

(* readFieldVar, readModbusVar: the quality is ComError if the driver is   *)
(* in that state at this very moment; bit strings come without a quality.  *)
(* Then varChanged or roIntChanged is emitted.                             *)
ApplyChange(v) ==
    /\ gui = "apply"
    /\ v \in taken
    /\ taken' = taken \ {v}
    /\ gui' = IF taken = {v} THEN "idle" ELSE "apply"
    /\ LET com == drvState = "COMError" /\ v \notin ROInts
       IN  /\ image' = [image EXCEPT ![v] = Shown(data[v], com)]
           /\ raced' = IF com \/ Unstored(v) THEN raced \cup {v}
                                              ELSE raced \ {v}
    /\ NewVarUpdated(v)
    /\ UNCHANGED <<reg, link, table, changed, it, reading>>

-----------------------------------------------------------------------------
Driver ==
    \/ Connect \/ WriteFails \/ DropConnection \/ Reconnect
    \/ BeginRead \/ PartArrives \/ PartMissing \/ Mark \/ Store \/ PassEnds

Applies == \E v \in Vars : ApplyChange(v)
Gui == Start \/ Stop \/ UpdateImage \/ TakeChanges \/ Applies

Next == Driver \/ Gui \/ \E v \in Vars : Change(v)

Spec == Init /\ [][Next]_vars

-----------------------------------------------------------------------------
(* Safety                                                                  *)

(* Every change of the driver's table gets to the panels: what they show   *)
(* of a variable is what the driver has, or there is a mark the GUI thread *)
(* has still to deal with - except where its last look at the variable     *)
(* came between mark and value, or in the driver's COMError.               *)
ImageFollows ==
    \A v \in Vars :
        \/ image[v] = Shown(data[v], FALSE)
        \/ v \in changed \cup taken
        \/ v \in raced

(* allVarsUpdated, which lets the main window appear, comes when the       *)
(* regulator has answered for every variable: none is counted for another. *)
WindowIsComplete ==
    /\ updated \subseteq Vars \ first
    /\ shown => first = {}

(* RegImage.h:46: allVarsUpdated "Indica al inicio cuando se han leido     *)
(* todas las variables al menos una vez".                                  *)
AllWereRead == shown => stored = Vars

-----------------------------------------------------------------------------
(* Liveness                                                                *)

(* Both threads go on.  The 20 ms timer of the GUI thread finds the driver *)
(* in state Running again and again, since a pass takes longer than that.  *)
Fairness ==
    /\ WF_vars(Driver)
    /\ SF_vars(UpdateImage)
    /\ WF_vars(TakeChanges) /\ WF_vars(Applies)

Trouble ==
    \/ (Connect \/ Reconnect) /\ ~connected'
    \/ PartMissing \/ WriteFails \/ Stop

(* From some time on the driver runs and everything sent is answered.      *)
LinkSettles == <>[][~Trouble]_vars /\ <>[](drvState # "Stopped")

RegistersSettle == <>[][reg' = reg]_vars

FairSpec == Spec /\ Fairness

(* Although the driver drops its connection after every pass, the window   *)
(* appears once the link is good.                                          *)
WindowAppears == LinkSettles => <>shown

(* When the registers do not change any more, the panels come to show what *)
(* is in them, except for a variable that was looked at too early.         *)
PanelsSettle ==
    LinkSettles /\ RegistersSettle =>
        <>[](\A v \in Vars : image[v] = Shown(reg[v], FALSE) \/ v \in raced)
=============================================================================
