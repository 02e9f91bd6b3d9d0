----------------------------- MODULE CommandPath -----------------------------
(***************************************************************************)
(* The way of an operator command from the HMI to the registers of the     *)
(* regulator.  Two threads of the HMI process take part:                   *)
(*                                                                         *)
(*  - the GUI thread runs RegImage (HMI/src/RegImage.cpp): writeVarAsButton,*)
(*    writeVar, forceVar, the 20 ms updateImage, start and stop;           *)
(*  - the driver thread runs ModbusMasterDrv::driverLoop                   *)
(*    (HMI/src/MasterDriver/ModbusMasterDrv.cpp): connection, write cycle,  *)
(*    retries, timeouts, and the callbacks it makes into RegImage.         *)
(*                                                                         *)
(* They share mtDrvStateMutex (state and pending writes of the driver) and *)
(* mtButtonWritesMtx (the three button tables).  Neither mutex is a        *)
(* variable: each is held exactly at the control points DrvLockHeld and    *)
(* ButtonLockHeld name, and a critical section that waits for nothing is   *)
(* one step.                                                               *)
(*                                                                         *)
(* The regulator end is the register file the Modbus server writes to.     *)
(* The link is a TCP connection: requests are served in order, a reply may *)
(* be lost or late, and what a closed connection still had under way may   *)
(* be served at any later time or never.                                   *)
(***************************************************************************)
EXTENDS Naturals, Sequences, FiniteSets

CONSTANTS
    Buttons,      \* addresses written with writeVarAsButton
    Plain,        \* addresses written with writeVar
    Forceable,    \* addresses written with forceVar
    Ptr,          \* heap cells for WriteReq objects
    NoPtr, NoAddr,
    MaxTrys,      \* MAX_TRANSMISSION_TRYS
    MaxDirect,    \* bound: writeVar and forceVar requests pending at a time
    MaxOrphans    \* bound: different requests left on closed connections

ASSUME AddrAssumption ==
    /\ Buttons \cap Plain = {}
    /\ Buttons \cap Forceable = {}
    /\ Plain \cap Forceable = {}
    /\ NoAddr \notin Buttons \cup Plain \cup Forceable
ASSUME PtrAssumption == NoPtr \notin Ptr
ASSUME BoundAssumption ==
    MaxTrys \in Nat \ {0} /\ MaxDirect \in Nat /\ MaxOrphans \in Nat

Addr == Buttons \cup Plain \cup Forceable

(* A written value: 1 is the value of a press or of a set point, 0 the     *)
(* value at rest (for HMSM_REG_TRIP, active low, the levels are swapped).  *)
Val == {0, 1}

(* mbForce and mbForcedVal of a WriteReq: a force writes the coil bit, and *)
(* the forced value too when the bit is set.                               *)
Request == [addr : Addr, val : Val, force : BOOLEAN, bit : BOOLEAN]

(* One Modbus write in a socket: to the coil or to a pair of registers.    *)
Op == [addr : Addr, coil : BOOLEAN, val : Val]

(* What one such write changes.                                            *)
Cell == Addr \X BOOLEAN
CellOf(op) == <<op.addr, op.coil>>

VARIABLES
    \* RegImage
    buttonWrites,         \* keys of mumButtonWrites
    buttonWritesToClean,  \* keys of mumButtonWritesToClean
    uncompleted,          \* mqUncompletedButtonWrites
    gui,                  \* where the GUI thread is
    pressing,             \* tAddr of the writeVarAsButton in progress
    \* ModbusMasterDrv
    drvState,             \* mtDrvState
    connected,            \* bConnected
    inWriteCycle,         \* mbInWriteCycle
    pending,              \* mPendingWrites
    req,                  \* the WriteReq objects
    drv,                  \* where the driver thread is
    cur,                  \* the local writeReq
    trys,                 \* iNumTrys: iterations begun
    coilDone,             \* bForced
    \* link and regulator
    inbox,                \* requests of this connection not served yet
    orphans,              \* requests left on closed connections
    reg,                  \* value (forced value if Forceable) per address
    coil,                 \* forced bit per Forceable address
    \* history
    reported,             \* buttons whose last press ended in writeError
    late                  \* cells last written from a closed connection

image == <<buttonWrites, buttonWritesToClean, uncompleted>>
queue == <<pending, req>>
attempt == <<cur, trys, coilDone>>
link  == <<inbox, orphans>>
regs  == <<reg, coil, late>>
conn  == <<drvState, connected, inWriteCycle>>
vars  == <<image, gui, pressing, conn, queue, drv, attempt, link, regs, reported>>

GuiPoints == {"idle", "press", "flush", "stop"}
DrvPoints == {"idle", "clean", "cleanCb", "send", "await", "okCb",
              "comClean", "comCleanCb"}

NoReq == [addr |-> NoAddr, val |-> 0, force |-> FALSE, bit |-> FALSE]

TypeOK ==
    /\ buttonWrites \subseteq Buttons
    /\ buttonWritesToClean \subseteq Buttons
    /\ uncompleted \in Seq(Buttons)
    /\ gui \in GuiPoints
    /\ pressing \in Buttons \cup {NoAddr}
    /\ drvState \in {"Running", "Stopped", "COMError"}
    /\ connected \in BOOLEAN
    /\ inWriteCycle \in BOOLEAN
    /\ pending \subseteq Ptr
    /\ req \in [Ptr -> Request \cup {NoReq}]
    /\ drv \in DrvPoints
    /\ cur \in Ptr \cup {NoPtr}
    /\ trys \in 0..MaxTrys
    /\ coilDone \in BOOLEAN
    /\ inbox \in Seq(Op)
    /\ orphans \subseteq Op
    /\ reg \in [Addr -> Val]
    /\ coil \in [Forceable -> BOOLEAN]
    /\ reported \subseteq Buttons
    /\ late \subseteq Cell

(* RegImage::init and ModbusMasterDrv::init have succeeded.                *)
Init ==
    /\ buttonWrites = {} /\ buttonWritesToClean = {} /\ uncompleted = <<>>
    /\ gui = "idle" /\ pressing = NoAddr
    /\ drvState = "Stopped" /\ connected = FALSE /\ inWriteCycle = FALSE
    /\ pending = {} /\ req = [p \in Ptr |-> NoReq]
    /\ drv = "idle" /\ cur = NoPtr /\ trys = 0 /\ coilDone = FALSE
    /\ inbox = <<>> /\ orphans = {}
    /\ reg = [a \in Addr |-> 0] /\ coil = [a \in Forceable |-> FALSE]
    /\ reported = {} /\ late = {}

-----------------------------------------------------------------------------
(* Locks                                                                   *)

DrvLockHeld    == drv # "idle" \/ gui = "stop"
ButtonLockHeld == gui \in {"press", "flush"}

-----------------------------------------------------------------------------
(* The queue of pending writes                                             *)

Allocated == pending \cup {cur}

Push(r) ==
    \E p \in Ptr \ Allocated :
        /\ pending' = pending \cup {p}
        /\ req' = [req EXCEPT ![p] = r]

Delete(p) == req' = [req EXCEPT ![p] = NoReq]

DirectRequests == {p \in pending : req[p].addr \notin Buttons}

Plainly(a, v) == [addr |-> a, val |-> v, force |-> FALSE, bit |-> FALSE]

-----------------------------------------------------------------------------
(* Callbacks of the driver into RegImage; both run under mtButtonWritesMtx *)

(* Mutant: a release whose time is over is not kept for another attempt.   *)
ForgetsRelease(a) ==
    /\ buttonWrites' = buttonWrites \ {a}
    /\ reported' = IF a \in buttonWrites THEN reported \cup {a} ELSE reported
    /\ UNCHANGED <<buttonWritesToClean, uncompleted>>

(* Mutant: a release whose time is over leaves its table as a press does.  *)
EndsRelease(a) ==
    /\ buttonWrites' = buttonWrites \ {a}
    /\ buttonWritesToClean' = buttonWritesToClean \ {a}
    /\ reported' = IF a \in buttonWrites THEN reported \cup {a} ELSE reported
    /\ UNCHANGED uncompleted

DriverWriteTimeOut(a) ==
    \/ /\ a \in buttonWrites
       /\ buttonWrites' = buttonWrites \ {a}
       /\ reported' = reported \cup {a}
       /\ UNCHANGED <<buttonWritesToClean, uncompleted>>
    \/ /\ a \notin buttonWrites
       /\ a \in buttonWritesToClean
       /\ uncompleted' = Append(uncompleted, a)
       /\ UNCHANGED <<buttonWrites, buttonWritesToClean, reported>>
    \/ /\ a \notin buttonWrites \cup buttonWritesToClean
       /\ UNCHANGED <<image, reported>>

(* Mutant: the first phase ends without a second one.                      *)
NoSecondPhase(a) ==
    /\ buttonWrites' = buttonWrites \ {a}
    /\ buttonWritesToClean' = buttonWritesToClean \ {a}
    /\ reported' = reported \ {a}
    /\ UNCHANGED uncompleted

DriverWriteSuccess(a) ==
    \/ /\ a \in buttonWrites
       /\ buttonWrites' = buttonWrites \ {a}
       /\ buttonWritesToClean' = buttonWritesToClean \cup {a}
       /\ uncompleted' = Append(uncompleted, a)
       /\ UNCHANGED reported
    \/ /\ a \notin buttonWrites
       /\ buttonWritesToClean' = buttonWritesToClean \ {a}
       /\ reported' = reported \ {a}
       /\ UNCHANGED <<buttonWrites, uncompleted>>

-----------------------------------------------------------------------------
(* The GUI thread                                                          *)

(* Mutant: only the first table is consulted.                              *)
PressDuringRelease(a) ==
    /\ gui = "idle"
    /\ a \notin buttonWrites
    /\ buttonWrites' = buttonWrites \cup {a}
    /\ gui' = "press"
    /\ pressing' = a
    /\ UNCHANGED <<buttonWritesToClean, uncompleted, conn, queue, drv, attempt,
                   link, regs, reported>>

(* writeVarAsButton: refused while the button is in one of the tables;     *)
(* otherwise the address enters the first table, and the thread goes on    *)
(* to mMasterDrv->write with mtButtonWritesMtx held.                       *)
PressBegin(a) ==
    /\ gui = "idle"
    /\ a \notin buttonWritesToClean
    /\ a \notin buttonWrites
    /\ buttonWrites' = buttonWrites \cup {a}
    /\ gui' = "press"
    /\ pressing' = a
    /\ UNCHANGED <<buttonWritesToClean, uncompleted, conn, queue, drv, attempt,
                   link, regs, reported>>

PressQueued ==
    /\ gui = "press"
    /\ ~DrvLockHeld
    /\ drvState # "Stopped"
    /\ Push(Plainly(pressing, 1))
    /\ gui' = "idle"
    /\ pressing' = NoAddr
    /\ UNCHANGED <<image, conn, drv, attempt, link, regs, reported>>

PressRefused ==
    /\ gui = "press"
    /\ ~DrvLockHeld
    /\ drvState = "Stopped"
    /\ buttonWrites' = buttonWrites \ {pressing}
    /\ gui' = "idle"
    /\ pressing' = NoAddr
    /\ UNCHANGED <<buttonWritesToClean, uncompleted, conn, queue, drv, attempt,
                   link, regs, reported>>

(* updateImage: nothing unless the driver runs; the releases that wait are *)
(* queued with mtButtonWritesMtx held, each under mtDrvStateMutex.         *)
UpdateImage ==
    /\ gui = "idle"
    /\ drvState = "Running"
    /\ uncompleted # <<>>
    /\ gui' = "flush"
    /\ UNCHANGED <<image, pressing, conn, queue, drv, attempt, link, regs, reported>>

FlushRelease ==
    /\ gui = "flush"
    /\ ~DrvLockHeld
    /\ drvState # "Stopped"
    /\ Push(Plainly(Head(uncompleted), 0))
    /\ uncompleted' = Tail(uncompleted)
    /\ gui' = IF Len(uncompleted) = 1 THEN "idle" ELSE "flush"
    /\ UNCHANGED <<buttonWrites, buttonWritesToClean, pressing, conn, drv,
                   attempt, link, regs, reported>>

(* writeVar and forceVar: refused when the driver is stopped.              *)
DirectWrite(r) ==
    /\ gui = "idle"
    /\ ~DrvLockHeld
    /\ drvState # "Stopped"
    /\ Cardinality(DirectRequests) < MaxDirect
    /\ Push(r)
    /\ UNCHANGED <<image, gui, pressing, conn, drv, attempt, link, regs, reported>>

WriteVar == \E a \in Plain, v \in Val : DirectWrite(Plainly(a, v))

ForceVar == \E a \in Forceable, v \in Val, b \in BOOLEAN :
    DirectWrite([addr |-> a, val |-> v, force |-> TRUE, bit |-> b])

Start ==
    /\ gui = "idle"
    /\ ~DrvLockHeld
    /\ drvState = "Stopped"
    /\ drvState' = "Running"
    /\ UNCHANGED <<image, gui, pressing, connected, inWriteCycle, queue, drv,
                   attempt, link, regs, reported>>

(* stop: cleanWriteRequests(true) runs the timeout callback of every       *)
(* pending write, then the connection is closed.                           *)
StopBegin ==
    /\ gui = "idle"
    /\ ~DrvLockHeld
    /\ drvState # "Stopped"
    /\ gui' = "stop"
    /\ UNCHANGED <<image, pressing, conn, queue, drv, attempt, link, regs, reported>>

StopCleans ==
    /\ gui = "stop"
    /\ \E p \in pending :
         /\ pending' = pending \ {p}
         /\ DriverWriteTimeOut(req[p].addr)
         /\ Delete(p)
    /\ UNCHANGED <<gui, pressing, conn, drv, attempt, link, regs>>

(* closeConnection: what was not served yet stays behind in the sockets,   *)
(* or is lost with them.                                                   *)
CloseConnection ==
    /\ connected' = FALSE
    /\ inbox' = <<>>
    /\ \/ UNCHANGED orphans
       \/ /\ orphans' = orphans \cup {inbox[i] : i \in DOMAIN inbox}
          /\ Cardinality(orphans') <= MaxOrphans

StopEnd ==
    /\ gui = "stop"
    /\ pending = {}
    /\ CloseConnection
    /\ drvState' = "Stopped"
    /\ gui' = "idle"
    /\ UNCHANGED <<image, pressing, inWriteCycle, queue, drv, attempt, regs, reported>>

-----------------------------------------------------------------------------
(* The driver thread, one action per piece of an iteration of driverLoop   *)

DrvTakesLock == drv = "idle" /\ gui # "stop"

Connect ==
    /\ DrvTakesLock
    /\ drvState = "Running"
    /\ ~connected
    /\ \/ connected' = TRUE /\ UNCHANGED drvState
       \/ drvState' = "COMError" /\ UNCHANGED connected
    /\ UNCHANGED <<image, gui, pressing, inWriteCycle, queue, drv, attempt, link,
                   regs, reported>>

(* The write timer has run out, or the write cycle goes on.                *)
WriteCycleEmpty ==
    /\ DrvTakesLock
    /\ drvState = "Running" /\ connected
    /\ inWriteCycle
    /\ pending = {}
    /\ inWriteCycle' = FALSE
    /\ UNCHANGED <<image, gui, pressing, drvState, connected, queue, drv, attempt,
                   link, regs, reported>>

WriteCycleNext ==
    /\ DrvTakesLock
    /\ drvState = "Running" /\ connected
    /\ pending # {}
    /\ inWriteCycle' = TRUE
    /\ drv' = "clean"
    /\ UNCHANGED <<image, gui, pressing, drvState, connected, queue, attempt,
                   link, regs, reported>>

(* processNextRead returned false: a read failed, or a pass over the       *)
(* variables ended.                                                        *)
ReadFails ==
    /\ DrvTakesLock
    /\ drvState = "Running" /\ connected
    /\ ~inWriteCycle
    /\ drvState' = "COMError"
    /\ UNCHANGED <<image, gui, pressing, connected, inWriteCycle, queue, drv,
                   attempt, link, regs, reported>>

(* COMError, connected: drop the connection.                               *)
DropConnection ==
    /\ DrvTakesLock
    /\ drvState = "COMError"
    /\ connected
    /\ CloseConnection
    /\ UNCHANGED <<image, gui, pressing, drvState, inWriteCycle, queue, drv,
                   attempt, regs, reported>>

(* COMError, not connected: connect again, or clean the expired writes and *)
(* sleep with mtDrvStateMutex released.                                    *)
Reconnect ==
    /\ DrvTakesLock
    /\ drvState = "COMError"
    /\ ~connected
    /\ \/ /\ connected' = TRUE
          /\ drvState' = "Running"
          /\ UNCHANGED drv
       \/ /\ drv' = "comClean"
          /\ UNCHANGED <<connected, drvState>>
    /\ UNCHANGED <<image, gui, pressing, inWriteCycle, queue, attempt, link,
                   regs, reported>>

(* Mutant: nothing expires while there is no connection.                   *)
CleanOnlyWriting(p) ==
    /\ drv = "clean"
    /\ p \in pending
    /\ pending' = pending \ {p}
    /\ cur' = p
    /\ drv' = "cleanCb"
    /\ UNCHANGED <<image, gui, pressing, conn, req, trys, coilDone, link, regs,
                   reported>>

(* cleanWriteRequests looks only at the top of the queue.  All requests    *)
(* have the same timeout, so any of them may be the top; it may or may not *)
(* have expired.                                                           *)
CleanExpired(p) ==
    /\ drv \in {"clean", "comClean"}
    /\ p \in pending
    /\ pending' = pending \ {p}
    /\ cur' = p
    /\ drv' = IF drv = "clean" THEN "cleanCb" ELSE "comCleanCb"
    /\ UNCHANGED <<image, gui, pressing, conn, req, trys, coilDone, link, regs,
                   reported>>

TimeOutCallback ==
    /\ drv \in {"cleanCb", "comCleanCb"}
    /\ ~ButtonLockHeld
    /\ DriverWriteTimeOut(req[cur].addr)
    /\ Delete(cur)
    /\ cur' = NoPtr
    /\ drv' = IF drv = "cleanCb" THEN "clean" ELSE "comClean"
    /\ UNCHANGED <<gui, pressing, conn, pending, trys, coilDone, link, regs>>

ComCleanEnd ==
    /\ drv = "comClean"
    /\ drv' = "idle"
    /\ UNCHANGED <<image, gui, pressing, conn, queue, attempt, link, regs, reported>>

NothingToWrite ==
    /\ drv = "clean"
    /\ pending = {}
    /\ drv' = "idle"
    /\ UNCHANGED <<image, gui, pressing, conn, queue, attempt, link, regs, reported>>

(* processNextWrite takes the top and enters its retry loop.               *)
BeginWrite(p) ==
    /\ drv = "clean"
    /\ p \in pending
    /\ cur' = p
    /\ trys' = 1
    /\ coilDone' = ~req[p].force
    /\ drv' = "send"
    /\ UNCHANGED <<image, gui, pressing, conn, queue, link, regs, reported>>

(* The Modbus calls a request is made of: the coil of a force, the value   *)
(* unless a force takes the bit away.  The loop makes them in this order.  *)
CoilOp(r) == [addr |-> r.addr, coil |-> TRUE, val |-> IF r.bit THEN 1 ELSE 0]
RegOp(r)  == [addr |-> r.addr, coil |-> FALSE, val |-> r.val]

CurrentOp == IF coilDone THEN RegOp(req[cur]) ELSE CoilOp(req[cur])

Send ==
    /\ drv = "send"
    /\ inbox' = Append(inbox, CurrentOp)
    /\ drv' = "await"
    /\ UNCHANGED <<image, gui, pressing, conn, queue, attempt, orphans, regs, reported>>

(* The loop leaves with iNumTrys one more than the iterations it made, and *)
(* MaxTrys + 1 counts as an error: MaxTrys iterations are a failure even   *)
(* when the last of them was answered.                                     *)
WriteFailed ==
    /\ drvState' = "COMError"
    /\ drv' = "idle"
    /\ cur' = NoPtr /\ trys' = 0 /\ coilDone' = FALSE
    /\ UNCHANGED queue

(* Only a button's request has a success callback that does anything.      *)
WriteDone ==
    /\ pending' = pending \ {cur}
    /\ trys' = 0 /\ coilDone' = FALSE
    /\ IF req[cur].addr \in Buttons
       THEN drv' = "okCb" /\ UNCHANGED <<req, cur>>
       ELSE drv' = "idle" /\ Delete(cur) /\ cur' = NoPtr
    /\ UNCHANGED drvState

LeaveLoop == IF trys = MaxTrys THEN WriteFailed ELSE WriteDone

(* Mutant: the coil alone counts as the whole of a force.                  *)
CoilIsEnough ==
    /\ drv = "await"
    /\ inbox = <<>>
    /\ LeaveLoop
    /\ UNCHANGED <<image, gui, pressing, connected, inWriteCycle, link, regs, reported>>

(* A reply can only be the right one once everything sent has been served. *)
ReplyArrives ==
    /\ drv = "await"
    /\ inbox = <<>>
    /\ IF ~coilDone /\ req[cur].bit
       THEN /\ coilDone' = TRUE
            /\ drv' = "send"
            /\ UNCHANGED <<drvState, queue, cur, trys>>
       ELSE LeaveLoop
    /\ UNCHANGED <<image, gui, pressing, connected, inWriteCycle, link, regs, reported>>

(* Mutant: one try too many.                                               *)
OneTryTooMany ==
    /\ drv = "await"
    /\ IF trys > MaxTrys
       THEN WriteFailed
       ELSE /\ trys' = trys + 1
            /\ drv' = "send"
            /\ UNCHANGED <<drvState, queue, cur, coilDone>>
    /\ UNCHANGED <<image, gui, pressing, connected, inWriteCycle, link, regs, reported>>

ReplyMissing ==
    /\ drv = "await"
    /\ IF trys = MaxTrys
       THEN WriteFailed
       ELSE /\ trys' = trys + 1
            /\ drv' = "send"
            /\ UNCHANGED <<drvState, queue, cur, coilDone>>
    /\ UNCHANGED <<image, gui, pressing, connected, inWriteCycle, link, regs, reported>>

SuccessCallback ==
    /\ drv = "okCb"
    /\ ~ButtonLockHeld
    /\ DriverWriteSuccess(req[cur].addr)
    /\ Delete(cur)
    /\ cur' = NoPtr
    /\ drv' = "idle"
    /\ UNCHANGED <<gui, pressing, conn, pending, trys, coilDone, link, regs>>

-----------------------------------------------------------------------------
(* The regulator's Modbus server and the network                           *)

Apply(op) ==
    IF op.coil
    THEN coil' = [coil EXCEPT ![op.addr] = op.val = 1] /\ UNCHANGED reg
    ELSE reg' = [reg EXCEPT ![op.addr] = op.val] /\ UNCHANGED coil

Serve ==
    /\ inbox # <<>>
    /\ Apply(Head(inbox))
    /\ inbox' = Tail(inbox)
    /\ late' = late \ {CellOf(Head(inbox))}
    /\ UNCHANGED <<image, gui, pressing, conn, queue, drv, attempt, orphans, reported>>

(* An element of orphans stands for one or more copies of the request.     *)
ServeOrphan ==
    \E op \in orphans :
        /\ Apply(op)
        /\ orphans' \in {orphans, orphans \ {op}}
        /\ late' = late \cup {CellOf(op)}
        /\ UNCHANGED <<image, gui, pressing, conn, queue, drv, attempt, inbox, reported>>

LoseOrphan ==
    \E op \in orphans :
        /\ orphans' = orphans \ {op}
        /\ UNCHANGED <<image, gui, pressing, conn, queue, drv, attempt, inbox,
                       regs, reported>>

-----------------------------------------------------------------------------
Gui ==
    \/ \E a \in Buttons : PressBegin(a)
    \/ PressQueued \/ PressRefused \/ UpdateImage \/ FlushRelease
    \/ WriteVar \/ ForceVar \/ Start \/ StopBegin \/ StopCleans \/ StopEnd

Driver ==
    \/ Connect \/ WriteCycleEmpty \/ WriteCycleNext \/ ReadFails
    \/ DropConnection \/ Reconnect
    \/ \E p \in Ptr : CleanExpired(p) \/ BeginWrite(p)
    \/ TimeOutCallback \/ ComCleanEnd \/ NothingToWrite
    \/ Send \/ ReplyArrives \/ ReplyMissing \/ SuccessCallback

Network == Serve \/ ServeOrphan \/ LoseOrphan

Next == Gui \/ Driver \/ Network

Spec == Init /\ [][Next]_vars
-----------------------------------------------------------------------------
(* Safety                                                                  *)

Live == {p \in Ptr : p \in pending \/ p = cur}

(* What a button still owes is held by exactly one of: the GUI thread      *)
(* inside writeVarAsButton, a request of the driver (in the queue, being   *)
(* written, or in the hands of a callback), an entry of the queue of       *)
(* releases.                                                               *)
OwedByGui(b)     == pressing = b
OwedByRequest(b) == \E p \in Live : req[p].addr = b
OwedByQueue(b)   == \E i \in DOMAIN uncompleted : uncompleted[i] = b

(* A button of the tables is never forgotten: as long as its address is in *)
(* mumButtonWrites a press is under way, and as long as it is in           *)
(* mumButtonWritesToClean a release is.  Otherwise writeVarAsButton would  *)
(* refuse that button for ever (RegImage.cpp:212).                         *)
NoneForgotten ==
    /\ \A b \in buttonWrites :
          \/ OwedByGui(b)
          \/ \E p \in Live : req[p].addr = b /\ req[p].val = 1
    /\ \A b \in buttonWritesToClean :
          \/ OwedByQueue(b)
          \/ \E p \in Live : req[p].addr = b /\ req[p].val = 0

(* A button never has two writes outstanding, so the callbacks, which only *)
(* get an address, always speak of the write the tables stand for.         *)
OneOutstanding ==
    /\ \A p, q \in Live :
          (req[p].addr = req[q].addr /\ req[p].addr \in Buttons) => p = q
    /\ \A i, j \in DOMAIN uncompleted : uncompleted[i] = uncompleted[j] => i = j
    /\ \A b \in Buttons :
          /\ ~(OwedByGui(b) /\ OwedByRequest(b))
          /\ ~(OwedByGui(b) /\ OwedByQueue(b))
          /\ ~(OwedByRequest(b) /\ OwedByQueue(b))

(* The strengthening of both that every step preserves.                    *)

(* Control points and the local variables that are alive there.            *)
Shape ==
    /\ gui = "press" => pressing \in buttonWrites
    /\ gui # "press" => pressing = NoAddr
    /\ gui = "flush" => uncompleted # <<>>
    /\ gui = "stop" => drv = "idle"
    /\ drv \in {"idle", "clean", "comClean"} => cur = NoPtr
    /\ drv \in {"send", "await"} => cur \in pending /\ trys \in 1..MaxTrys
    /\ drv \in {"cleanCb", "comCleanCb", "okCb"} => cur \in Ptr \ pending
    /\ drv = "okCb" => req[cur].addr \in Buttons
    /\ \A p \in Live : req[p] \in Request /\ (req[p].force <=> req[p].addr \in Forceable)

(* What is outstanding for a button is what the table it is in says.       *)
DebtsMatch ==
    /\ buttonWrites \cap buttonWritesToClean = {}
    /\ \A p \in Live : req[p].addr \in Buttons =>
          IF req[p].val = 1 THEN req[p].addr \in buttonWrites
                            ELSE req[p].addr \in buttonWritesToClean
    /\ \A i \in DOMAIN uncompleted : uncompleted[i] \in buttonWritesToClean

Ownership == Shape /\ DebtsMatch /\ NoneForgotten /\ OneOutstanding

AtRest(b) == b \notin buttonWrites \cup buttonWritesToClean

(* A button whose register stays pressed although the image takes it to be *)
(* at rest has either been reported with writeError or was written from a  *)
(* connection the driver had already closed.                               *)
StuckIsExplained ==
    \A b \in Buttons :
        (AtRest(b) /\ reg[b] = 1) => (b \in reported \/ <<b, FALSE>> \in late)

(* A request leaves the queue as written only when the regulator holds all *)
(* of it: the value of a plain write, the coil bit of a force and, when    *)
(* the bit is set, the forced value - unless a closed connection has       *)
(* overwritten a cell since.                                               *)
Parts(r) == (IF r.force THEN {CoilOp(r)} ELSE {})
            \cup (IF r.force /\ ~r.bit THEN {} ELSE {RegOp(r)})

InPlace(op) ==
    \/ CellOf(op) \in late
    \/ IF op.coil THEN coil[op.addr] <=> op.val = 1 ELSE reg[op.addr] = op.val

DoneMeansWritten ==
    [][(drv = "await" /\ cur \in pending /\ cur \notin pending')
          => \A op \in Parts(req[cur]) : InPlace(op)]_vars

(* Its strengthening.  The driver writes only on a connection, and nothing *)
(* is under way on one it has not lost or left.                            *)
LinkShape ==
    /\ drv \in {"clean", "cleanCb", "send", "await", "okCb"}
          => connected /\ drvState = "Running"
    /\ inbox # <<>> =>
          /\ connected
          /\ drv \in {"idle", "send", "await"}
          /\ drv = "idle" => drvState = "COMError" \/ gui = "stop"

(* What is under way belongs to the request being written, or to one that  *)
(* is still pending.                                                       *)
UnderWay ==
    /\ drv \in {"send", "await"} =>
          /\ CurrentOp \in Parts(req[cur])
          /\ \A i \in DOMAIN inbox : inbox[i] \in Parts(req[cur])
    /\ gui # "stop" =>
          \A i \in DOMAIN inbox : \E p \in pending : inbox[i] \in Parts(req[p])

(* The parts the driver has done with are in place.                        *)
DoneInPlace ==
    /\ drv \in {"send", "await"} /\ coilDone /\ req[cur].force
          => InPlace(CoilOp(req[cur]))
    /\ drv = "await" => \/ \E i \in DOMAIN inbox : inbox[i] = CurrentOp
                       \/ InPlace(CurrentOp)
    /\ drv = "okCb" => InPlace(RegOp(req[cur]))

Delivery == LinkShape /\ UnderWay /\ DoneInPlace

(* While the driver is being stopped a write it gave up may still be       *)
(* served; only a press that was reported is served that late.             *)
ServedInPhase ==
    \A i \in DOMAIN inbox : inbox[i].addr \in Buttons =>
        IF inbox[i].val = 1
        THEN \/ inbox[i].addr \in buttonWrites
             \/ AtRest(inbox[i].addr) /\ inbox[i].addr \in reported
        ELSE inbox[i].addr \in buttonWritesToClean

(* GUI and driver thread each hold the mutex the other one waits for.      *)
LockCycle ==
    /\ ButtonLockHeld
    /\ drv \in {"cleanCb", "comCleanCb", "okCb"}

(* RegImage.h:72: "escribo 1 y luego la imagen se encarga de escribir el 0 *)
(* cuando termine": the image itself takes the press back.                 *)
PressIsTakenBack == \A b \in Buttons : AtRest(b) => reg[b] = 0

-----------------------------------------------------------------------------
(* Liveness                                                                *)

(* Both threads go on while they can.  Strong fairness where it is needed: *)
(* the driver thread sleeps with mtDrvStateMutex released after each cycle *)
(* (ModbusMasterDrv.cpp:124, 156), so a GUI thread that wants it gets it;  *)
(* the 20 ms timers of write cycle and image keep running out; a request   *)
(* grows older than its timeout; and no request waits behind others for    *)
(* ever, which the heap guarantees while at most three are in it.          *)
Fairness ==
    /\ WF_vars(Driver)
    /\ WF_vars(Serve)
    /\ WF_vars(StopCleans \/ StopEnd)
    /\ SF_vars(PressQueued \/ PressRefused)
    /\ SF_vars(UpdateImage)
    /\ SF_vars(FlushRelease)
    /\ SF_vars(WriteCycleNext)
    /\ \A p \in Ptr : SF_vars(CleanExpired(p)) /\ SF_vars(BeginWrite(p))

(* The link at its best: every connection is accepted and every reply      *)
(* comes in time, so no request gets old.  ReadFails is not part of it:    *)
(* the driver itself ends each pass over the variables that way.           *)
Trouble ==
    \/ (Connect \/ Reconnect) /\ ~connected'
    \/ ReplyMissing
    \/ \E p \in Ptr : CleanExpired(p)

LinkSettles == <>[][~Trouble]_vars

FairSpec == Spec /\ Fairness

(* However the link behaves, a press ends, written or given up, unless the *)
(* two threads have locked each other out.                                 *)
PressEnds ==
    \A b \in Buttons :
        (b \in buttonWrites) ~> (b \notin buttonWrites \/ LockCycle)

(* Once the link settles, every release is written, unless the driver is   *)
(* stopped or the two threads have locked each other out.                  *)
ReleaseEnds ==
    LinkSettles => \A b \in Buttons :
        (b \in buttonWritesToClean) ~>
            (b \notin buttonWritesToClean \/ LockCycle \/ drvState = "Stopped")

(* RegImage.h:77: the second phase writes not completed are kept "para     *)
(* ... realizarlas en otro momento".                                       *)
ReleaseIsWritten ==
    LinkSettles => \A b \in Buttons :
        (b \in buttonWritesToClean) ~>
            (b \notin buttonWritesToClean \/ drvState = "Stopped")

-----------------------------------------------------------------------------
(* The button as the operator sees it: the image and the driver implement  *)
(* module Button.                                                          *)
phase == [b \in Buttons |->
            IF b \in buttonWrites
            THEN IF pressing = b THEN "asked" ELSE "pressing"
            ELSE IF b \in buttonWritesToClean THEN "releasing" ELSE "rest"]

Abstract == INSTANCE Button WITH
    reg  <- [b \in Buttons |-> reg[b]],
    late <- {b \in Buttons : <<b, FALSE>> \in late}

ButtonSpec == Abstract!Spec
=============================================================================
