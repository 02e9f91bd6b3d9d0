----------------------- MODULE CommandPath_refinement -----------------------
(***************************************************************************)
(* Proofs about module CommandPath, the second part: what the connection   *)
(* has under way belongs to the request being written, and a request that  *)
(* leaves the queue as written is in the registers (Delivery); with this,  *)
(* each step of the image and the driver is a step of the button the       *)
(* operator sees (module Button), or none.                                 *)
(***************************************************************************)
EXTENDS CommandPath_proofs

-----------------------------------------------------------------------------
(* What is under way                                                       *)

(* The parts of a request: one per cell, a coil only of a force.           *)
LEMMA PartsFacts ==
    ASSUME NEW r \in Request, Kind(r)
    PROVE  /\ Parts(r) \subseteq Op
           /\ \A op \in Parts(r) : op.addr = r.addr
           /\ \A op \in Parts(r) : op.coil => op.addr \in Forceable /\ op = CoilOp(r)
           /\ \A op \in Parts(r) : ~op.coil => op = RegOp(r)
           /\ \A o1, o2 \in Parts(r) : CellOf(o1) = CellOf(o2) => o1 = o2
           /\ r.addr \in Buttons => Parts(r) = {RegOp(r)}
<1>1. CoilOp(r) \in Op /\ RegOp(r) \in Op
  BY DEF CoilOp, RegOp, Op, Request, Val
<1>2. /\ CoilOp(r).coil = TRUE /\ CoilOp(r).addr = r.addr
      /\ RegOp(r).coil = FALSE /\ RegOp(r).addr = r.addr
  BY DEF CoilOp, RegOp
<1>3. \A op \in Parts(r) : (op = CoilOp(r) /\ r.force) \/ op = RegOp(r)
  BY DEF Parts
<1>4. r.force => r.addr \in Forceable
  BY DEF Kind
<1>5. \A op \in Parts(r) : op.coil => op = CoilOp(r) /\ op.addr \in Forceable
  BY <1>2, <1>3, <1>4
<1>6. \A op \in Parts(r) : ~op.coil => op = RegOp(r)
  BY <1>2, <1>3
<1>7. \A o1, o2 \in Parts(r) : CellOf(o1) = CellOf(o2) => o1 = o2
  <2>1. SUFFICES ASSUME NEW o1 \in Parts(r), NEW o2 \in Parts(r), CellOf(o1) = CellOf(o2)
                 PROVE  o1 = o2
    OBVIOUS
  <2>2. o1.coil = o2.coil
    BY <2>1 DEF CellOf
  <2>3. QED
    BY <1>5, <1>6, <2>2
<1>8. ASSUME r.addr \in Buttons PROVE Parts(r) = {RegOp(r)}
  <2>1. ~r.force
    BY <1>4, <1>8, AddrAssumption
  <2>2. QED
    BY <2>1 DEF Parts
<1>9. QED
  BY <1>1, <1>2, <1>3, <1>5, <1>6, <1>7, <1>8

(* The request being written is a proper one.                              *)
LEMMA CurrentRequest ==
    ASSUME TypeOK, Shape, drv \in {"send", "await", "okCb"}
    PROVE  cur \in Ptr /\ cur \in Live /\ req[cur] \in Request /\ Kind(req[cur])
  BY DEF Shape, TypeOK, Live, Kind

(* Serving a request puts it in place and spoils no other cell.            *)
LEMMA ServeInPlace ==
    ASSUME TypeOK, NEW o1 \in Op, o1.coil => o1.addr \in Forceable, Apply(o1),
           late' = late \ {CellOf(o1)}
    PROVE  /\ InPlace(o1)'
           /\ \A o2 \in Op : InPlace(o2) /\ CellOf(o2) # CellOf(o1) => InPlace(o2)'
<1>1. o1.addr \in Addr /\ o1.coil \in BOOLEAN
  BY DEF Op
<1>2. CASE o1.coil
  <2>1. coil' = [coil EXCEPT ![o1.addr] = (o1.val = 1)] /\ reg' = reg
    BY <1>2 DEF Apply
  <2>2. coil'[o1.addr] <=> o1.val = 1
    BY <1>2, <2>1 DEF TypeOK
  <2>3. InPlace(o1)'
    BY <1>2, <2>2 DEF InPlace
  <2>4. ASSUME NEW o2 \in Op, InPlace(o2), CellOf(o2) # CellOf(o1) PROVE InPlace(o2)'
    <3>1. CellOf(o2) \in late => CellOf(o2) \in late'
      BY <2>4
    <3>2. o2.coil => o2.addr # o1.addr
      BY <1>2, <2>4 DEF CellOf, Op
    <3>3. o2.coil => (coil'[o2.addr] <=> coil[o2.addr])
      BY <2>1, <3>2
    <3>4. QED
      BY <2>1, <2>4, <3>1, <3>3 DEF InPlace
  <2>5. QED
    BY <2>3, <2>4
<1>3. CASE ~o1.coil
  <2>1. reg' = [reg EXCEPT ![o1.addr] = o1.val] /\ coil' = coil
    BY <1>3 DEF Apply
  <2>2. reg'[o1.addr] = o1.val
    BY <1>1, <2>1 DEF TypeOK
  <2>3. InPlace(o1)'
    BY <1>3, <2>2 DEF InPlace
  <2>4. ASSUME NEW o2 \in Op, InPlace(o2), CellOf(o2) # CellOf(o1) PROVE InPlace(o2)'
    <3>1. CellOf(o2) \in late => CellOf(o2) \in late'
      BY <2>4
    <3>2. ~o2.coil => o2.addr # o1.addr
      BY <1>3, <2>4 DEF CellOf, Op
    <3>3. ~o2.coil => reg'[o2.addr] = reg[o2.addr]
      BY <2>1, <3>2
    <3>4. QED
      BY <2>1, <2>4, <3>1, <3>3 DEF InPlace
  <2>5. QED
    BY <2>3, <2>4
<1>4. QED
  BY <1>1, <1>2, <1>3

(* A stale request leaves its mark on the cell it overwrites.              *)
LEMMA StaleInPlace ==
    ASSUME TypeOK, NEW o1 \in Op, Apply(o1), late' = late \cup {CellOf(o1)},
           NEW o2 \in Op, o2.coil => o2.addr \in Forceable, InPlace(o2)
    PROVE  InPlace(o2)'
<1>1. CASE CellOf(o2) = CellOf(o1)
  BY <1>1 DEF InPlace
<1>2. CASE CellOf(o2) # CellOf(o1)
  <2>1. CASE o2.coil
    <3>1. coil'[o2.addr] <=> coil[o2.addr]
      <4>1. CASE o1.coil
        <5>1. o1.addr # o2.addr
          BY <1>2, <2>1, <4>1 DEF CellOf, Op
        <5>2. coil' = [coil EXCEPT ![o1.addr] = (o1.val = 1)]
          BY <4>1 DEF Apply
        <5>3. QED
          BY <2>1, <5>1, <5>2 DEF TypeOK
      <4>2. CASE ~o1.coil
        BY <4>2 DEF Apply
      <4>3. QED
        BY <4>1, <4>2
    <3>2. QED
      BY <2>1, <3>1 DEF InPlace
  <2>2. CASE ~o2.coil
    <3>1. reg'[o2.addr] = reg[o2.addr]
      <4>1. CASE o1.coil
        BY <4>1 DEF Apply
      <4>2. CASE ~o1.coil
        <5>1. o1.addr # o2.addr
          BY <1>2, <2>2, <4>2 DEF CellOf, Op
        <5>2. reg' = [reg EXCEPT ![o1.addr] = o1.val] /\ o2.addr \in Addr
          BY <4>2 DEF Apply, Op
        <5>3. QED
          BY <5>1, <5>2 DEF TypeOK
      <4>3. QED
        BY <4>1, <4>2
    <3>2. QED
      BY <2>2, <3>1 DEF InPlace
  <2>3. QED
    BY <2>1, <2>2
<1>3. QED
  BY <1>1, <1>2

-----------------------------------------------------------------------------
(* The link                                                                *)

(* Every step keeps LinkShape: the driver writes only on an open           *)
(* connection, and closes it before anything is under way on another.      *)
THEOREM LinkStep ==
    ASSUME TypeOK, Shape, LinkShape, [Next]_vars
    PROVE  LinkShape'
<1>1. CASE Gui
  <2>1. ASSUME UNCHANGED <<conn, drv, inbox>>, gui' = "stop" \/ gui' = gui \/ gui # "stop"
        PROVE  LinkShape'
    BY <2>1 DEF LinkShape, conn
  <2>2. ASSUME NEW a \in Buttons, PressBegin(a) PROVE LinkShape'
    BY <2>1, <2>2 DEF PressBegin, link
  <2>3. CASE PressQueued \/ PressRefused \/ UpdateImage \/ FlushRelease
    BY <2>1, <2>3 DEF PressQueued, PressRefused, UpdateImage, FlushRelease, link
  <2>4. CASE WriteVar \/ ForceVar
    BY <2>1, <2>4 DEF WriteVar, ForceVar, DirectWrite, link
  <2>5. CASE Start
    BY <2>5 DEF Start, LinkShape, DrvLockHeld, link
  <2>6. CASE StopBegin \/ StopCleans
    BY <2>1, <2>6 DEF StopBegin, StopCleans, link
  <2>7. CASE StopEnd
    BY <2>7 DEF StopEnd, CloseConnection, Shape, LinkShape
  <2>8. QED
    BY <1>1, <2>2, <2>3, <2>4, <2>5, <2>6, <2>7 DEF Gui
<1>2. CASE Driver
  <2>1. CASE Connect \/ Reconnect
    BY <2>1 DEF Connect, Reconnect, DrvTakesLock, LinkShape, link, conn
  <2>2. CASE WriteCycleEmpty \/ WriteCycleNext \/ ReadFails
    BY <2>2 DEF WriteCycleEmpty, WriteCycleNext, ReadFails, DrvTakesLock, LinkShape, link
  <2>3. CASE DropConnection
    BY <2>3 DEF DropConnection, CloseConnection, DrvTakesLock, LinkShape
  <2>4. ASSUME NEW p \in Ptr, CleanExpired(p) \/ BeginWrite(p) PROVE LinkShape'
    BY <2>4 DEF CleanExpired, BeginWrite, LinkShape, link, conn
  <2>5. CASE TimeOutCallback \/ ComCleanEnd \/ NothingToWrite
    BY <2>5 DEF TimeOutCallback, ComCleanEnd, NothingToWrite, LinkShape, link, conn
  <2>6. CASE Send
    BY <2>6 DEF Send, LinkShape, conn
  <2>7. CASE ReplyArrives
    BY <2>7 DEF ReplyArrives, LeaveLoop, WriteFailed, WriteDone, LinkShape, link
  <2>8. CASE ReplyMissing
    BY <2>8 DEF ReplyMissing, WriteFailed, LinkShape, link
  <2>9. CASE SuccessCallback
    BY <2>9 DEF SuccessCallback, LinkShape, link, conn
  <2>10. QED
    BY <1>2, <2>1, <2>2, <2>3, <2>4, <2>5, <2>6, <2>7, <2>8, <2>9 DEF Driver
<1>3. CASE Network
  BY <1>3, TailFacts, EmptyFacts DEF Network, Serve, ServeOrphan, LoseOrphan, LinkShape, conn
<1>4. CASE UNCHANGED vars
  BY <1>4 DEF vars, LinkShape, conn, link
<1>5. QED
  BY <1>1, <1>2, <1>3, <1>4 DEF Next

-----------------------------------------------------------------------------
(* What is under way                                                       *)

(* Nothing under way: nothing to show of it.                               *)
LEMMA UnderWayEmpty ==
    ASSUME inbox' = <<>>,
           drv' \in {"send", "await"} => CurrentOp' \in Parts(req'[cur'])
    PROVE  UnderWay'
  BY EmptyFacts DEF UnderWay

(* Steps that leave the writing and what is under way alone, and take no   *)
(* pending request away.                                                   *)
LEMMA UnderWayFrame ==
    ASSUME TypeOK, Shape, UnderWay, UNCHANGED <<inbox, attempt, drv>>,
           gui # "stop" \/ gui' = "stop",
           pending \subseteq pending', \A p \in Live : req'[p] = req[p]
    PROVE  UnderWay'
<1>1. ASSUME drv \in {"send", "await"}
      PROVE  CurrentOp' = CurrentOp /\ req'[cur'] = req[cur]
  BY <1>1, CurrentRequest DEF CurrentOp, attempt
<1>2. \A p \in pending : req'[p] = req[p]
  BY DEF Live, TypeOK
<1>3. QED
  BY <1>1, <1>2 DEF UnderWay, attempt

(* No step of the GUI thread disturbs what is under way.                   *)
LEMMA UnderWayGui ==
    ASSUME TypeOK, Shape, LinkShape, UnderWay, Gui
    PROVE  UnderWay'
<1>1. ASSUME NEW a \in Buttons, PressBegin(a) PROVE UnderWay'
  BY <1>1, UnderWayFrame DEF PressBegin, queue, link
<1>2. CASE PressRefused \/ UpdateImage \/ Start \/ StopBegin
  BY <1>2, UnderWayFrame DEF PressRefused, UpdateImage, Start, StopBegin, queue, link
<1>3. ASSUME NEW r \in Request, Push(r), UNCHANGED <<drv, attempt, link>>,
             gui # "stop"
      PROVE  UnderWay'
  <2>1. pending \subseteq pending' /\ \A p \in Live : req'[p] = req[p]
    BY <1>3, PushFacts DEF attempt
  <2>2. QED
    BY <1>3, <2>1, UnderWayFrame DEF link
<1>4. CASE PressQueued
  <2>1. Plainly(pressing, 1) \in Request
    BY <1>4 DEF PressQueued, Shape, TypeOK, Plainly, Request, Addr, Val
  <2>2. QED
    BY <1>3, <1>4, <2>1 DEF PressQueued
<1>5. CASE FlushRelease
  <2>1. Head(uncompleted) \in Buttons
    BY <1>5, TailFacts DEF FlushRelease, Shape, TypeOK
  <2>2. Plainly(Head(uncompleted), 0) \in Request
    BY <2>1 DEF Plainly, Request, Addr, Val
  <2>3. QED
    BY <1>3, <1>5, <2>2 DEF FlushRelease
<1>6. CASE WriteVar
  <2>1. \A a \in Plain, v \in Val : Plainly(a, v) \in Request
    BY DEF Plainly, Request, Addr
  <2>2. QED
    BY <1>3, <1>6, <2>1 DEF WriteVar, DirectWrite
<1>7. CASE ForceVar
  <2>1. \A a \in Forceable, v \in Val, b \in BOOLEAN :
            [addr |-> a, val |-> v, force |-> TRUE, bit |-> b] \in Request
    BY DEF Request, Addr
  <2>2. QED
    BY <1>3, <1>7, <2>1 DEF ForceVar, DirectWrite
<1>8. CASE StopCleans
  BY <1>8 DEF StopCleans, UnderWay, Shape, link
<1>9. CASE StopEnd
  BY <1>9, UnderWayEmpty DEF StopEnd, CloseConnection, Shape
<1>10. QED
  BY <1>1, <1>2, <1>4, <1>5, <1>6, <1>7, <1>8, <1>9 DEF Gui

(* Every step of driverLoop keeps UnderWay: it sends only parts of the     *)
(* request it is writing.                                                  *)
LEMMA UnderWayDriver ==
    ASSUME TypeOK, Shape, LinkShape, UnderWay, Driver
    PROVE  UnderWay'
<1>1. ASSUME drv \notin {"send", "await"}, drv' \notin {"send", "await"},
             UNCHANGED <<inbox, gui>>, pending' = pending, req' = req
      PROVE  UnderWay'
  BY <1>1 DEF UnderWay
<1>2. CASE \/ Connect \/ WriteCycleEmpty \/ WriteCycleNext \/ ReadFails
           \/ Reconnect \/ ComCleanEnd \/ NothingToWrite
  BY <1>1, <1>2
     DEF Connect, WriteCycleEmpty, WriteCycleNext, ReadFails, Reconnect,
         ComCleanEnd, NothingToWrite, DrvTakesLock, queue, link
<1>3. CASE DropConnection
  BY <1>3, UnderWayEmpty DEF DropConnection, CloseConnection, DrvTakesLock
<1>4. ASSUME NEW p \in Ptr, CleanExpired(p) PROVE UnderWay'
  BY <1>4, UnderWayEmpty DEF CleanExpired, LinkShape, link
<1>5. CASE TimeOutCallback \/ SuccessCallback
  BY <1>5, UnderWayEmpty DEF TimeOutCallback, SuccessCallback, LinkShape, link
<1>6. ASSUME NEW p \in Ptr, BeginWrite(p) PROVE UnderWay'
  <2>1. inbox' = <<>> /\ cur' = p /\ req' = req /\ coilDone' = ~req[p].force
    BY <1>6 DEF BeginWrite, LinkShape, link, queue
  <2>2. CurrentOp' \in Parts(req'[cur'])
    BY <2>1 DEF CurrentOp, Parts
  <2>3. QED
    BY <2>1, <2>2, UnderWayEmpty
<1>7. CASE Send
  <2>1. /\ inbox' = Append(inbox, CurrentOp)
        /\ cur \in pending /\ CurrentOp \in Parts(req[cur])
        /\ CurrentOp' = CurrentOp
        /\ UNCHANGED <<gui, cur, req, pending>>
    BY <1>7 DEF Send, Shape, UnderWay, CurrentOp, queue, attempt
  <2>2. CurrentOp \in Op
    BY <1>7, CurrentRequest, CurrentOpType DEF Send
  <2>3. \A i \in DOMAIN inbox' :
            inbox'[i] = CurrentOp \/ (i \in DOMAIN inbox /\ inbox'[i] = inbox[i])
    BY <2>1, <2>2, AppendFacts DEF TypeOK
  <2>4. QED
    BY <1>7, <2>1, <2>3 DEF Send, UnderWay
<1>8. CASE ReplyArrives
  <2>1. inbox' = <<>> /\ drv = "await"
    BY <1>8 DEF ReplyArrives, link
  <2>2. CASE ~coilDone /\ req[cur].bit
    <3>1. CurrentOp' = RegOp(req'[cur']) /\ req[cur].bit /\ req' = req /\ cur' = cur
      BY <1>8, <2>2 DEF ReplyArrives, CurrentOp, queue
    <3>2. CurrentOp' \in Parts(req'[cur'])
      BY <3>1 DEF Parts
    <3>3. QED
      BY <2>1, <3>2, UnderWayEmpty
  <2>3. CASE ~(~coilDone /\ req[cur].bit)
    <3>1. drv' \in {"idle", "okCb"}
      BY <1>8, <2>3 DEF ReplyArrives, LeaveLoop, WriteFailed, WriteDone
    <3>2. QED
      BY <2>1, <3>1, UnderWayEmpty
  <2>4. QED
    BY <2>2, <2>3
<1>9. CASE ReplyMissing
  <2>1. CASE trys = MaxTrys
    BY <1>9, <2>1 DEF ReplyMissing, WriteFailed, UnderWay, queue, link
  <2>2. CASE trys # MaxTrys
    BY <1>9, <2>2 DEF ReplyMissing, UnderWay, CurrentOp, queue, link
  <2>3. QED
    BY <2>1, <2>2
<1>10. QED
  BY <1>2, <1>3, <1>4, <1>5, <1>6, <1>7, <1>8, <1>9 DEF Driver

(* Every step keeps UnderWay: what the connection still holds belongs to   *)
(* the request being written, or to one the driver still has.              *)
THEOREM UnderWayStep ==
    ASSUME TypeOK, Shape, LinkShape, UnderWay, [Next]_vars
    PROVE  UnderWay'
<1>1. CASE Serve
  <2>1. /\ UNCHANGED <<gui, drv, cur, coilDone, pending, req>>
        /\ \A i \in DOMAIN inbox' : i + 1 \in DOMAIN inbox /\ inbox'[i] = inbox[i + 1]
    BY <1>1, TailFacts DEF Serve, TypeOK, queue, attempt
  <2>2. QED
    BY <2>1 DEF UnderWay, CurrentOp
<1>2. CASE ServeOrphan \/ LoseOrphan
  BY <1>2, UnderWayFrame DEF ServeOrphan, LoseOrphan, queue
<1>3. CASE UNCHANGED vars
  BY <1>3, UnderWayFrame DEF vars, queue, link
<1>4. QED
  BY <1>1, <1>2, <1>3, UnderWayGui, UnderWayDriver DEF Next, Network

-----------------------------------------------------------------------------
(* What is in place                                                        *)

(* The driver does not write at all.                                       *)
LEMMA PlaceNothing ==
    ASSUME drv' \notin {"send", "await", "okCb"}
    PROVE  DoneInPlace'
  BY DEF DoneInPlace

(* Neither the writing, nor what is under way, nor the registers change.   *)
LEMMA PlaceFrame ==
    ASSUME DoneInPlace, UNCHANGED <<drv, attempt, inbox, regs>>,
           drv \in {"send", "await", "okCb"} => req'[cur] = req[cur]
    PROVE  DoneInPlace'
<1>1. CASE drv \in {"send", "await", "okCb"}
  <2>1. req'[cur'] = req[cur] /\ coilDone' = coilDone /\ drv' = drv /\ inbox' = inbox
    BY <1>1 DEF attempt
  <2>2. CurrentOp' = CurrentOp
    BY <2>1 DEF CurrentOp
  <2>3. reg' = reg /\ coil' = coil /\ late' = late
    BY DEF regs
  <2>4. QED
    BY <2>1, <2>2, <2>3 DEF DoneInPlace, InPlace
<1>2. CASE drv \notin {"send", "await", "okCb"}
  BY <1>2, PlaceNothing
<1>3. QED
  BY <1>1, <1>2

(* No step of the GUI thread disturbs what is in place.                    *)
LEMMA PlaceGui ==
    ASSUME TypeOK, Shape, DoneInPlace, Gui
    PROVE  DoneInPlace'
<1>1. ASSUME NEW a \in Buttons, PressBegin(a) PROVE DoneInPlace'
  BY <1>1, PlaceFrame DEF PressBegin, queue, link
<1>2. CASE PressRefused \/ UpdateImage
  BY <1>2, PlaceFrame DEF PressRefused, UpdateImage, queue, link
<1>3. CASE PressQueued \/ FlushRelease \/ Start \/ StopBegin
  BY <1>3, PlaceNothing DEF PressQueued, FlushRelease, Start, StopBegin, DrvLockHeld
<1>4. CASE WriteVar \/ ForceVar
  BY <1>4, PlaceNothing DEF WriteVar, ForceVar, DirectWrite, DrvLockHeld
<1>5. CASE StopCleans \/ StopEnd
  BY <1>5, PlaceNothing DEF StopCleans, StopEnd, Shape
<1>6. QED
  BY <1>1, <1>2, <1>3, <1>4, <1>5 DEF Gui

(* A step of driverLoop goes on to the value, or calls the request done,   *)
(* only when the part it waited for is in place.                           *)
LEMMA PlaceDriver ==
    ASSUME TypeOK, Shape, LinkShape, UnderWay, DoneInPlace, Driver
    PROVE  DoneInPlace'
<1>1. CASE \/ Connect \/ WriteCycleEmpty \/ ReadFails \/ DropConnection
           \/ WriteCycleNext \/ Reconnect \/ ComCleanEnd \/ NothingToWrite
           \/ TimeOutCallback \/ SuccessCallback
  <2>1. drv' \notin {"send", "await", "okCb"}
    BY <1>1 DEF Connect, WriteCycleEmpty, ReadFails, DropConnection, WriteCycleNext,
                Reconnect, ComCleanEnd, NothingToWrite, TimeOutCallback,
                SuccessCallback, DrvTakesLock
  <2>2. QED
    BY <2>1, PlaceNothing
<1>2. ASSUME NEW p \in Ptr, CleanExpired(p) PROVE DoneInPlace'
  BY <1>2, PlaceNothing DEF CleanExpired
<1>3. ASSUME NEW p \in Ptr, BeginWrite(p) PROVE DoneInPlace'
  BY <1>3 DEF BeginWrite, DoneInPlace, queue
<1>4. CASE Send
  <2>1. /\ drv = "send" /\ drv' = "await" /\ inbox' = Append(inbox, CurrentOp)
        /\ req'[cur'] = req[cur] /\ coilDone' = coilDone /\ CurrentOp' = CurrentOp
        /\ reg' = reg /\ coil' = coil /\ late' = late
    BY <1>4 DEF Send, CurrentOp, queue, attempt, regs
  <2>2. CurrentOp \in Op
    BY <1>4, CurrentRequest, CurrentOpType DEF Send
  <2>3. \E i \in DOMAIN inbox' : inbox'[i] = CurrentOp
    BY <2>1, <2>2, AppendFacts DEF TypeOK
  <2>4. QED
    BY <2>1, <2>3 DEF DoneInPlace, InPlace
<1>5. CASE ReplyArrives
  <2>1. drv = "await" /\ inbox = <<>> /\ reg' = reg /\ coil' = coil /\ late' = late
    BY <1>5 DEF ReplyArrives, regs
  <2>2. InPlace(CurrentOp)
    BY <2>1, EmptyFacts DEF DoneInPlace
  <2>3. CASE ~coilDone /\ req[cur].bit
    <3>1. drv' = "send" /\ coilDone' = TRUE /\ req'[cur'] = req[cur]
      BY <1>5, <2>3 DEF ReplyArrives, queue
    <3>2. CurrentOp = CoilOp(req[cur])
      BY <2>3 DEF CurrentOp
    <3>3. QED
      BY <2>1, <2>2, <3>1, <3>2 DEF DoneInPlace, InPlace
  <2>4. CASE ~(~coilDone /\ req[cur].bit)
    <3>1. CASE drv' = "okCb"
      <4>1. req' = req /\ cur' = cur /\ req[cur].addr \in Buttons
        BY <1>5, <2>4, <3>1 DEF ReplyArrives, LeaveLoop, WriteFailed, WriteDone
      <4>2. CurrentOp = RegOp(req[cur])
        BY <2>1, <4>1, CurrentRequest, PartsFacts DEF UnderWay
      <4>3. QED
        BY <2>1, <2>2, <3>1, <4>1, <4>2 DEF DoneInPlace, InPlace
    <3>2. CASE drv' # "okCb"
      BY <1>5, <2>4, <3>2, PlaceNothing DEF ReplyArrives, LeaveLoop, WriteFailed, WriteDone
    <3>3. QED
      BY <3>1, <3>2
  <2>5. QED
    BY <2>3, <2>4
<1>6. CASE ReplyMissing
  <2>1. CASE trys = MaxTrys
    BY <1>6, <2>1, PlaceNothing DEF ReplyMissing, WriteFailed
  <2>2. CASE trys # MaxTrys
    <3>1. /\ drv = "await" /\ drv' = "send" /\ coilDone' = coilDone
          /\ req'[cur'] = req[cur] /\ reg' = reg /\ coil' = coil /\ late' = late
      BY <1>6, <2>2 DEF ReplyMissing, queue, regs
    <3>2. QED
      BY <3>1 DEF DoneInPlace, InPlace
  <2>3. QED
    BY <2>1, <2>2
<1>7. QED
  BY <1>1, <1>2, <1>3, <1>4, <1>5, <1>6 DEF Driver

(* The server: what it serves it puts in place, and what was in place of   *)
(* the same request stays there.                                           *)
LEMMA PlaceServe ==
    ASSUME TypeOK, Shape, LinkShape, UnderWay, DoneInPlace, Serve
    PROVE  DoneInPlace'
<1>1. CASE drv \in {"send", "await"}
  <2>1. PICK r \in Request : r = req[cur] /\ Kind(r)
    BY <1>1, CurrentRequest
  <2>2. /\ Head(inbox) = inbox[1] /\ 1 \in DOMAIN inbox /\ Head(inbox) \in Op
        /\ \A i \in DOMAIN inbox : i = 1 \/ (i - 1 \in DOMAIN inbox' /\ inbox'[i - 1] = inbox[i])
    BY TailFacts DEF Serve, TypeOK
  <2>3. PICK h \in Op : h = inbox[1] /\ Apply(h) /\ late' = late \ {CellOf(h)}
    BY <2>2 DEF Serve
  <2>4. h \in Parts(r)
    BY <1>1, <2>1, <2>2, <2>3 DEF UnderWay
  <2>5. ASSUME NEW o \in Parts(r), o = h \/ InPlace(o) PROVE InPlace(o)'
    <3>1. o \in Op /\ (h.coil => h.addr \in Forceable) /\ (CellOf(o) = CellOf(h) => o = h)
      BY <2>1, <2>4, <2>5, PartsFacts
    <3>2. QED
      BY <2>3, <2>5, <3>1, ServeInPlace
  <2>6. /\ req'[cur'] = r /\ drv' = drv /\ coilDone' = coilDone /\ CurrentOp' = CurrentOp
    BY <2>1 DEF Serve, CurrentOp, queue, attempt
  <2>7. ASSUME coilDone, r.force PROVE InPlace(CoilOp(r))'
    <3>1. CoilOp(r) \in Parts(r) /\ InPlace(CoilOp(r))
      BY <1>1, <2>1, <2>7 DEF DoneInPlace, Parts
    <3>2. QED
      BY <2>5, <3>1
  <2>8. ASSUME drv = "await"
        PROVE  (\E i \in DOMAIN inbox' : inbox'[i] = CurrentOp') \/ InPlace(CurrentOp)'
    <3>1. PICK c \in Parts(r) : c = CurrentOp
      BY <1>1, <2>1 DEF UnderWay
    <3>2. CASE c = h \/ InPlace(c)
      <4>1. InPlace(c)'
        BY <2>5, <3>2
      <4>2. QED
        BY <2>6, <3>1, <4>1
    <3>3. CASE \E i \in DOMAIN inbox : i # 1 /\ inbox[i] = c
      BY <2>2, <2>6, <3>1, <3>3
    <3>4. QED
      BY <2>3, <2>8, <3>1, <3>2, <3>3 DEF DoneInPlace
  <2>9. QED
    BY <1>1, <2>6, <2>7, <2>8 DEF DoneInPlace
<1>2. CASE drv \notin {"send", "await"}
  <2>1. drv' \notin {"send", "await", "okCb"}
    BY <1>2 DEF Serve, LinkShape
  <2>2. QED
    BY <2>1, PlaceNothing
<1>3. QED
  BY <1>1, <1>2

(* A stale request spoils nothing without leaving its mark.                *)
LEMMA PlaceOrphan ==
    ASSUME TypeOK, Shape, UnderWay, DoneInPlace, ServeOrphan
    PROVE  DoneInPlace'
<1>1. CASE drv \in {"send", "await", "okCb"}
  <2>1. PICK r \in Request : r = req[cur] /\ Kind(r)
    BY <1>1, CurrentRequest
  <2>2. PICK h \in Op : Apply(h) /\ late' = late \cup {CellOf(h)}
    BY DEF ServeOrphan, TypeOK
  <2>3. CoilOp(r) \in Op /\ RegOp(r) \in Op /\ CoilOp(r).addr = r.addr /\ ~RegOp(r).coil
    BY DEF CoilOp, RegOp, Op, Request, Val
  <2>4. InPlace(RegOp(r)) => InPlace(RegOp(r))'
    BY <2>2, <2>3, StaleInPlace
  <2>5. r.force /\ InPlace(CoilOp(r)) => InPlace(CoilOp(r))'
    BY <2>1, <2>2, <2>3, StaleInPlace DEF Kind
  <2>6. /\ req'[cur'] = r /\ drv' = drv /\ coilDone' = coilDone
        /\ inbox' = inbox /\ CurrentOp' = CurrentOp
    BY <2>1 DEF ServeOrphan, CurrentOp, queue, attempt
  <2>7. ASSUME drv = "await", InPlace(CurrentOp) PROVE InPlace(CurrentOp)'
    <3>1. PICK c \in Parts(r) : c = CurrentOp
      BY <2>1, <2>7 DEF UnderWay
    <3>2. c \in Op /\ (c.coil => c.addr \in Forceable)
      BY <2>1, PartsFacts
    <3>3. InPlace(c)'
      BY <2>2, <2>7, <3>1, <3>2, StaleInPlace
    <3>4. QED
      BY <2>6, <3>1, <3>3
  <2>8. QED
    BY <2>1, <2>4, <2>5, <2>6, <2>7 DEF DoneInPlace
<1>2. CASE drv \notin {"send", "await", "okCb"}
  BY <1>2, PlaceNothing DEF ServeOrphan
<1>3. QED
  BY <1>1, <1>2

(* Every step keeps DoneInPlace.                                           *)
THEOREM PlaceStep ==
    ASSUME TypeOK, Shape, LinkShape, UnderWay, DoneInPlace, [Next]_vars
    PROVE  DoneInPlace'
<1>1. CASE LoseOrphan
  BY <1>1, PlaceFrame DEF LoseOrphan, queue
<1>2. CASE UNCHANGED vars
  BY <1>2, PlaceFrame DEF vars, queue, link
<1>3. QED
  BY <1>1, <1>2, PlaceGui, PlaceDriver, PlaceServe, PlaceOrphan DEF Next, Network

-----------------------------------------------------------------------------
(* The theorems of the specification                                       *)

(* The driver's share of the link is sound in every reachable state.       *)
THEOREM DeliveryInvariant == Spec => [](TypeOK /\ Ownership /\ Delivery)
<1>1. Init => Delivery
  BY EmptyFacts DEF Init, Delivery, LinkShape, UnderWay, DoneInPlace
<1>2. TypeOK /\ Ownership /\ Delivery /\ [Next]_vars => Delivery'
  BY LinkStep, UnderWayStep, PlaceStep DEF Ownership, Delivery
<1>3. QED
  BY <1>1, <1>2, OwnershipInvariant, PTL DEF Spec

(* A request leaves the queue as written only when the regulator holds all *)
(* of it, whatever the number of tries, lost replies and reconnections.    *)
THEOREM WrittenRequestsAreInPlace == Spec => DoneMeansWritten
<1>1. ASSUME TypeOK, Ownership, Delivery, Next, drv = "await",
             cur \in pending, cur \notin pending'
      PROVE  \A op \in Parts(req[cur]) : InPlace(op)
  <2>1. ReplyArrives /\ ~(~coilDone /\ req[cur].bit)
    <3>1. CASE Gui
      <4>1. \A a \in Buttons : ~PressBegin(a)
        BY <1>1 DEF PressBegin, queue
      <4>2. ~StopCleans /\ ~StopEnd
        BY <1>1 DEF StopCleans, StopEnd, Ownership, Shape
      <4>3. ~PressRefused /\ ~UpdateImage /\ ~Start /\ ~StopBegin
        BY <1>1 DEF PressRefused, UpdateImage, Start, StopBegin, queue
      <4>4. ~PressQueued /\ ~FlushRelease /\ ~WriteVar /\ ~ForceVar
        BY <1>1 DEF PressQueued, FlushRelease, WriteVar, ForceVar, DirectWrite, DrvLockHeld
      <4>5. QED
        BY <3>1, <4>1, <4>2, <4>3, <4>4 DEF Gui
    <3>2. CASE Driver
      <4>1. \A p \in Ptr : ~CleanExpired(p) /\ ~BeginWrite(p)
        BY <1>1 DEF CleanExpired, BeginWrite
      <4>2. ~Connect /\ ~WriteCycleEmpty /\ ~WriteCycleNext /\ ~ReadFails
            /\ ~DropConnection /\ ~Reconnect
        BY <1>1 DEF Connect, WriteCycleEmpty, WriteCycleNext, ReadFails, DropConnection,
                    Reconnect, DrvTakesLock
      <4>3. ~TimeOutCallback /\ ~ComCleanEnd /\ ~NothingToWrite /\ ~Send /\ ~SuccessCallback
        BY <1>1 DEF TimeOutCallback, ComCleanEnd, NothingToWrite, Send, SuccessCallback
      <4>4. ~ReplyMissing
        BY <1>1 DEF ReplyMissing, WriteFailed, queue
      <4>5. ReplyArrives
        BY <3>2, <4>1, <4>2, <4>3, <4>4 DEF Driver
      <4>6. QED
        BY <1>1, <4>5 DEF ReplyArrives, queue
    <3>3. CASE Network
      BY <1>1, <3>3 DEF Network, Serve, ServeOrphan, LoseOrphan, queue
    <3>4. QED
      BY <1>1, <3>1, <3>2, <3>3 DEF Next
  <2>2. InPlace(CurrentOp)
    BY <1>1, <2>1, EmptyFacts DEF ReplyArrives, Delivery, DoneInPlace
  <2>3. \A op \in Parts(req[cur]) :
            op = CurrentOp \/ (coilDone /\ req[cur].force /\ op = CoilOp(req[cur]))
    BY <1>1, <2>1, CurrentRequest
       DEF Parts, CurrentOp, Ownership, Delivery, UnderWay, Request
  <2>4. QED
    BY <1>1, <2>2, <2>3 DEF Delivery, DoneInPlace
<1>2. QED
  BY <1>1, DeliveryInvariant, PTL DEF Spec, DoneMeansWritten

-----------------------------------------------------------------------------
(* What is served belongs to the phase of its button                       *)

(* Unless the driver is being stopped, what is under way is a pending      *)
(* request, and the tables know of it.                                     *)
LEMMA PendingInPhase ==
    ASSUME TypeOK, Ownership, Delivery, gui # "stop",
           NEW i \in DOMAIN inbox, inbox[i].addr \in Buttons
    PROVE  /\ \E p \in Live : req[p].addr = inbox[i].addr
           /\ IF inbox[i].val = 1 THEN inbox[i].addr \in buttonWrites
                                  ELSE inbox[i].addr \in buttonWritesToClean
<1>1. PICK p \in pending : inbox[i] \in Parts(req[p])
  BY DEF Delivery, UnderWay
<1>2. p \in Live /\ req[p] \in Request /\ Kind(req[p])
  BY DEF TypeOK, Live, Ownership, Shape, Kind
<1>3. PICK r \in Request : r = req[p] /\ Kind(r)
  BY <1>2
<1>4. inbox[i].addr = r.addr
  BY <1>1, <1>3, PartsFacts
<1>5. inbox[i] = RegOp(r)
  BY <1>1, <1>3, <1>4, PartsFacts
<1>6. inbox[i].val = r.val
  BY <1>5 DEF RegOp
<1>7. QED
  BY <1>2, <1>3, <1>4, <1>6 DEF Ownership, DebtsMatch

(* While the driver is being stopped nothing new is sent, and a press that *)
(* is given up is reported.                                                *)
LEMMA ServedWhileStopping ==
    ASSUME TypeOK, Ownership, ServedInPhase, [Next]_vars, gui' = "stop"
    PROVE  ServedInPhase'
<1>1. ASSUME UNCHANGED <<inbox, buttonWrites, buttonWritesToClean, reported>>
      PROVE  ServedInPhase'
  BY <1>1 DEF ServedInPhase, AtRest
<1>2. CASE StopBegin
  BY <1>1, <1>2 DEF StopBegin, image, link
<1>3. CASE StopCleans
  <2>1. PICK p \in pending : DriverWriteTimeOut(req[p].addr) /\ inbox' = inbox
    BY <1>3 DEF StopCleans, link
  <2>2. QED
    BY <2>1, <1>3 DEF DriverWriteTimeOut, ServedInPhase, AtRest, Ownership, DebtsMatch, image
<1>4. ASSUME Gui, ~StopBegin, ~StopCleans PROVE FALSE
  <2>1. \A a \in Buttons : ~PressBegin(a)
    BY DEF PressBegin
  <2>2. ~PressQueued /\ ~PressRefused /\ ~UpdateImage /\ ~FlushRelease /\ ~StopEnd
    BY DEF PressQueued, PressRefused, UpdateImage, FlushRelease, StopEnd
  <2>3. ~WriteVar /\ ~ForceVar /\ ~Start
    BY DEF WriteVar, ForceVar, DirectWrite, Start
  <2>4. QED
    BY <1>4, <2>1, <2>2, <2>3 DEF Gui
<1>5. ~Driver
  <2>1. \A p \in Ptr : ~CleanExpired(p) /\ ~BeginWrite(p)
    BY DEF CleanExpired, BeginWrite, Ownership, Shape
  <2>2. ~Connect /\ ~WriteCycleEmpty /\ ~WriteCycleNext /\ ~ReadFails
        /\ ~DropConnection /\ ~Reconnect
    BY DEF Connect, WriteCycleEmpty, WriteCycleNext, ReadFails, DropConnection,
           Reconnect, DrvTakesLock
  <2>3. /\ ~TimeOutCallback /\ ~ComCleanEnd /\ ~NothingToWrite /\ ~Send
        /\ ~SuccessCallback /\ ~ReplyArrives /\ ~ReplyMissing
    BY DEF TimeOutCallback, ComCleanEnd, NothingToWrite, Send, SuccessCallback,
           ReplyArrives, ReplyMissing, Ownership, Shape
  <2>4. QED
    BY <2>1, <2>2, <2>3 DEF Driver
<1>6. CASE Serve
  BY <1>6, TailFacts DEF Serve, TypeOK, ServedInPhase, AtRest, image
<1>7. CASE ServeOrphan \/ LoseOrphan
  BY <1>1, <1>7 DEF ServeOrphan, LoseOrphan, image
<1>8. CASE UNCHANGED vars
  BY <1>1, <1>8 DEF vars, image, link
<1>9. QED
  BY <1>2, <1>3, <1>4, <1>5, <1>6, <1>7, <1>8 DEF Next, Network

(* What the regulator serves belongs to the phase its button is in.        *)
THEOREM ServedInvariant == Spec => [](TypeOK /\ Ownership /\ Delivery /\ ServedInPhase)
<1>1. Init => ServedInPhase
  BY EmptyFacts DEF Init, ServedInPhase
<1>2. TypeOK /\ Ownership /\ Delivery /\ ~(gui = "stop") => ServedInPhase
  BY PendingInPhase DEF ServedInPhase
<1>3. TypeOK /\ Ownership /\ ServedInPhase /\ [Next]_vars /\ (gui = "stop")' => ServedInPhase'
  BY ServedWhileStopping
<1>4. QED
  BY <1>1, <1>2, <1>3, DeliveryInvariant, PTL DEF Spec

-----------------------------------------------------------------------------
(* Steps of the button                                                     *)

(* One button changes its phase and the others keep theirs.                *)
LEMMA PhaseMoves ==
    ASSUME NEW b \in Buttons, NEW to, phase'[b] = to,
           \A c \in Buttons \ {b} : phase'[c] = phase[c]
    PROVE  phase' = [phase EXCEPT ![b] = to]
<1>1. phase' = [c \in Buttons |-> phase'[c]] /\ phase = [c \in Buttons |-> phase[c]]
  BY DEF phase
<1>2. QED
  BY <1>1

(* No button notices the step.                                             *)
LEMMA ButtonStutter ==
    ASSUME UNCHANGED <<buttonWrites, buttonWritesToClean, pressing, reported>>,
           \A b \in Buttons : reg'[b] = reg[b] /\ (<<b, FALSE>> \in late' <=> <<b, FALSE>> \in late)
    PROVE  UNCHANGED Abstract!vars
<1>1. phase' = phase
  BY DEF phase
<1>2. [b \in Buttons |-> reg'[b]] = [b \in Buttons |-> reg[b]]
  OBVIOUS
<1>3. {b \in Buttons : <<b, FALSE>> \in late'} = {b \in Buttons : <<b, FALSE>> \in late}
  OBVIOUS
<1>4. QED
  BY <1>1, <1>2, <1>3 DEF Abstract!vars

-----------------------------------------------------------------------------
(* Steps of the GUI thread                                                 *)

(* writeVarAsButton accepts a press of a button at rest.                   *)
LEMMA PressIsAccept ==
    ASSUME TypeOK, Ownership, NEW b \in Buttons, PressBegin(b)
    PROVE  Abstract!Accept(b)
<1>1. b \notin buttonWrites /\ b \notin buttonWritesToClean /\ pressing = NoAddr
  BY DEF PressBegin, Ownership, Shape
<1>2. phase[b] = "rest" /\ phase'[b] = "asked"
  BY <1>1 DEF PressBegin, phase
<1>3. \A c \in Buttons \ {b} : phase'[c] = phase[c]
  BY <1>1, AddrAssumption DEF PressBegin, phase, Addr
<1>4. phase' = [phase EXCEPT ![b] = "asked"]
  BY <1>2, <1>3, PhaseMoves
<1>5. QED
  BY <1>2, <1>4 DEF PressBegin, Abstract!Accept, Abstract!Move, regs

(* The driver takes the press of writeVarAsButton into its queue.          *)
LEMMA QueuedIsQueue ==
    ASSUME TypeOK, Ownership, PressQueued
    PROVE  pressing \in Buttons /\ Abstract!Queue(pressing)
<1>1. PICK b \in Buttons : b = pressing /\ b \in buttonWrites
  BY DEF PressQueued, Ownership, Shape, TypeOK
<1>2. phase[b] = "asked" /\ phase'[b] = "pressing"
  BY <1>1, AddrAssumption DEF PressQueued, phase, image, Addr
<1>3. \A c \in Buttons \ {b} : phase'[c] = phase[c]
  BY <1>1, AddrAssumption DEF PressQueued, phase, image, Addr
<1>4. phase' = [phase EXCEPT ![b] = "pressing"]
  BY <1>2, <1>3, PhaseMoves
<1>5. QED
  BY <1>1, <1>2, <1>4 DEF PressQueued, Abstract!Queue, Abstract!Move, regs

(* The driver is stopped and writeVarAsButton takes the press back.        *)
LEMMA RefusedIsRefuse ==
    ASSUME TypeOK, Ownership, PressRefused
    PROVE  pressing \in Buttons /\ Abstract!Refuse(pressing)
<1>1. PICK b \in Buttons : b = pressing /\ b \in buttonWrites /\ b \notin buttonWritesToClean
  BY DEF PressRefused, Ownership, Shape, DebtsMatch, TypeOK
<1>2. phase[b] = "asked" /\ phase'[b] = "rest"
  BY <1>1 DEF PressRefused, phase
<1>3. \A c \in Buttons \ {b} : phase'[c] = phase[c]
  BY <1>1, AddrAssumption DEF PressRefused, phase, Addr
<1>4. phase' = [phase EXCEPT ![b] = "rest"]
  BY <1>2, <1>3, PhaseMoves
<1>5. QED
  BY <1>1, <1>2, <1>4 DEF PressRefused, Abstract!Refuse, Abstract!Move, regs

(* A time-out gives a press up; a release is kept, which no button sees.   *)
LEMMA TimeOutIsGiveUp ==
    ASSUME TypeOK, Ownership, NEW p \in Live, DriverWriteTimeOut(req[p].addr),
           UNCHANGED <<pressing, regs>>
    PROVE  UNCHANGED Abstract!vars \/ \E b \in Buttons : Abstract!GiveUp(b)
<1>1. PICK a : a = req[p].addr
  OBVIOUS
<1>2. CASE a \in buttonWrites
  <2>1. a \in Buttons /\ pressing # a /\ a \notin buttonWritesToClean
    BY <1>1, <1>2 DEF TypeOK, Ownership, OneOutstanding, OwedByGui, OwedByRequest, DebtsMatch
  <2>2. /\ buttonWrites' = buttonWrites \ {a} /\ reported' = reported \cup {a}
        /\ buttonWritesToClean' = buttonWritesToClean
    BY <1>1, <1>2 DEF DriverWriteTimeOut
  <2>3. phase[a] = "pressing" /\ phase'[a] = "rest" /\ \A c \in Buttons \ {a} : phase'[c] = phase[c]
    BY <1>2, <2>1, <2>2 DEF phase
  <2>4. phase' = [phase EXCEPT ![a] = "rest"]
    BY <2>1, <2>3, PhaseMoves
  <2>5. QED
    BY <2>1, <2>2, <2>3, <2>4 DEF Abstract!GiveUp, Abstract!Move, regs
<1>3. CASE a \notin buttonWrites
  BY <1>1, <1>3, ButtonStutter DEF DriverWriteTimeOut, image, regs
<1>4. QED
  BY <1>2, <1>3

(* Every step of the GUI thread is a step of a button, or none.            *)
LEMMA GuiRefines ==
    ASSUME TypeOK, Ownership, Gui
    PROVE  Abstract!Next \/ UNCHANGED Abstract!vars
<1>1. ASSUME NEW a \in Buttons, PressBegin(a) PROVE Abstract!Next
  BY <1>1, PressIsAccept DEF Abstract!Next
<1>2. CASE PressQueued
  BY <1>2, QueuedIsQueue DEF Abstract!Next
<1>3. CASE PressRefused
  BY <1>3, RefusedIsRefuse DEF Abstract!Next
<1>4. CASE UpdateImage \/ FlushRelease \/ Start \/ StopBegin \/ StopEnd
  BY <1>4, ButtonStutter DEF UpdateImage, FlushRelease, Start, StopBegin, StopEnd, image, regs
<1>5. CASE WriteVar \/ ForceVar
  BY <1>5, ButtonStutter DEF WriteVar, ForceVar, DirectWrite, image, regs
<1>6. CASE StopCleans
  BY <1>6, TimeOutIsGiveUp DEF StopCleans, Live, TypeOK, Abstract!Next
<1>7. QED
  BY <1>1, <1>2, <1>3, <1>4, <1>5, <1>6 DEF Gui

-----------------------------------------------------------------------------
(* Steps of the driver thread                                              *)

(* The success callback ends the phase its button is in; the value of that *)
(* phase is in the register.                                               *)
LEMMA SuccessRefines ==
    ASSUME TypeOK, Ownership, Delivery, SuccessCallback
    PROVE  \E b \in Buttons : Abstract!Written(b) \/ Abstract!Released(b)
<1>1. PICK b \in Buttons : b = req[cur].addr
  BY DEF SuccessCallback, Ownership, Shape
<1>2. cur \in Live /\ req[cur] \in Request
  BY CurrentRequest DEF SuccessCallback, Ownership
<1>3. /\ IF req[cur].val = 1 THEN b \in buttonWrites ELSE b \in buttonWritesToClean
      /\ ~(b \in buttonWrites /\ b \in buttonWritesToClean)
      /\ pressing # b
  BY <1>1, <1>2 DEF Ownership, DebtsMatch, OneOutstanding, OwedByGui, OwedByRequest
<1>4. reg[b] = req[cur].val \/ <<b, FALSE>> \in late
  BY <1>1 DEF SuccessCallback, Delivery, DoneInPlace, InPlace, RegOp, CellOf
<1>5. UNCHANGED <<pressing, reg, late>> /\ DriverWriteSuccess(b)
  BY <1>1 DEF SuccessCallback, regs
<1>6. CASE req[cur].val = 1
  <2>1. b \in buttonWrites /\ b \notin buttonWritesToClean
    BY <1>3, <1>6
  <2>2. /\ buttonWrites' = buttonWrites \ {b} /\ reported' = reported
        /\ buttonWritesToClean' = buttonWritesToClean \cup {b}
    BY <1>5, <2>1 DEF DriverWriteSuccess
  <2>3. phase[b] = "pressing" /\ phase'[b] = "releasing" /\ \A c \in Buttons \ {b} : phase'[c] = phase[c]
    BY <1>3, <1>5, <2>1, <2>2 DEF phase
  <2>4. phase' = [phase EXCEPT ![b] = "releasing"]
    BY <2>3, PhaseMoves
  <2>5. Abstract!Written(b)
    BY <1>4, <1>5, <1>6, <2>2, <2>3, <2>4 DEF Abstract!Written, Abstract!Move
  <2>6. QED
    BY <2>5
<1>7. CASE req[cur].val # 1
  <2>1. b \notin buttonWrites /\ b \in buttonWritesToClean /\ req[cur].val = 0
    BY <1>2, <1>3, <1>7 DEF Request, Val
  <2>2. /\ buttonWrites' = buttonWrites /\ reported' = reported \ {b}
        /\ buttonWritesToClean' = buttonWritesToClean \ {b}
    BY <1>5, <2>1 DEF DriverWriteSuccess
  <2>3. phase[b] = "releasing" /\ phase'[b] = "rest" /\ \A c \in Buttons \ {b} : phase'[c] = phase[c]
    BY <1>3, <1>5, <2>1, <2>2 DEF phase
  <2>4. phase' = [phase EXCEPT ![b] = "rest"]
    BY <2>3, PhaseMoves
  <2>5. Abstract!Released(b)
    BY <1>4, <1>5, <2>1, <2>2, <2>3, <2>4 DEF Abstract!Released, Abstract!Move
  <2>6. QED
    BY <2>5
<1>8. QED
  BY <1>6, <1>7

(* Every step of the driver thread is a step of a button, or none.         *)
LEMMA DriverRefines ==
    ASSUME TypeOK, Ownership, Delivery, Driver
    PROVE  Abstract!Next \/ UNCHANGED Abstract!vars
<1>1. CASE \/ Connect \/ WriteCycleEmpty \/ WriteCycleNext \/ ReadFails
           \/ DropConnection \/ Reconnect \/ ComCleanEnd \/ NothingToWrite
  BY <1>1, ButtonStutter
     DEF Connect, WriteCycleEmpty, WriteCycleNext, ReadFails, DropConnection,
         Reconnect, ComCleanEnd, NothingToWrite, image, regs
<1>2. ASSUME NEW p \in Ptr, CleanExpired(p) \/ BeginWrite(p)
      PROVE  UNCHANGED Abstract!vars
  BY <1>2, ButtonStutter DEF CleanExpired, BeginWrite, image, regs
<1>3. CASE Send \/ ReplyArrives \/ ReplyMissing
  BY <1>3, ButtonStutter DEF Send, ReplyArrives, ReplyMissing, image, regs
<1>4. CASE TimeOutCallback
  <2>1. cur \in Live /\ DriverWriteTimeOut(req[cur].addr) /\ UNCHANGED <<pressing, regs>>
    BY <1>4 DEF TimeOutCallback, Ownership, Shape, Live
  <2>2. QED
    BY <2>1, TimeOutIsGiveUp DEF Abstract!Next
<1>5. CASE SuccessCallback
  BY <1>5, SuccessRefines DEF Abstract!Next
<1>6. QED
  BY <1>1, <1>2, <1>3, <1>4, <1>5 DEF Driver

-----------------------------------------------------------------------------
(* Steps of the regulator and the network                                  *)

(* What a write does to the registers of the buttons.                      *)
LEMMA ApplyToButtons ==
    ASSUME TypeOK, NEW op \in Op, Apply(op), NEW b \in Buttons
    PROVE  reg'[b] = IF ~op.coil /\ op.addr = b THEN op.val ELSE reg[b]
<1>1. CASE op.coil
  BY <1>1 DEF Apply
<1>2. CASE ~op.coil
  BY <1>2 DEF Apply, TypeOK, Addr
<1>3. QED
  BY <1>1, <1>2 DEF Op

(* The regulator serves a press only while it is being written, or given   *)
(* up and reported, and a release only while it is being written.          *)
LEMMA ServeRefines ==
    ASSUME TypeOK, Ownership, Delivery, ServedInPhase, Serve
    PROVE  Abstract!Next \/ UNCHANGED Abstract!vars
<1>1. /\ Head(inbox) = inbox[1] /\ 1 \in DOMAIN inbox /\ Head(inbox) \in Op
  BY TailFacts DEF Serve, TypeOK
<1>2. PICK op \in Op : op = inbox[1] /\ Apply(op) /\ late' = late \ {CellOf(op)}
  BY <1>1 DEF Serve
<1>3. UNCHANGED <<buttonWrites, buttonWritesToClean, pressing, reported, phase>>
  BY DEF Serve, image, phase
<1>4. CASE op.coil \/ op.addr \notin Buttons
  <2>1. ASSUME NEW b \in Buttons
        PROVE  reg'[b] = reg[b] /\ (<<b, FALSE>> \in late' <=> <<b, FALSE>> \in late)
    <3>1. reg'[b] = reg[b]
      BY <1>2, <1>4, ApplyToButtons
    <3>2. CellOf(op) # <<b, FALSE>>
      BY <1>4 DEF CellOf
    <3>3. QED
      BY <1>2, <3>1, <3>2
  <2>2. QED
    BY <1>3, <2>1, ButtonStutter
<1>5. CASE ~op.coil /\ op.addr \in Buttons
  <2>1. PICK b \in Buttons : b = op.addr
    BY <1>5
  <2>2. CellOf(op) = <<b, FALSE>>
    BY <1>5, <2>1 DEF CellOf, Op
  <2>3. [c \in Buttons |-> reg'[c]] = [[c \in Buttons |-> reg[c]] EXCEPT ![b] = op.val]
    BY <1>2, <1>5, <2>1, ApplyToButtons
  <2>4. {c \in Buttons : <<c, FALSE>> \in late'} = {c \in Buttons : <<c, FALSE>> \in late} \ {b}
    BY <1>2, <2>2
  <2>5. pressing # b
    <3>1. CASE gui = "stop"
      BY <3>1, AddrAssumption DEF Ownership, Shape, Addr
    <3>2. CASE gui # "stop"
      BY <1>1, <1>2, <2>1, <3>2, PendingInPhase DEF Ownership, OneOutstanding, OwedByGui, OwedByRequest
    <3>3. QED
      BY <3>1, <3>2
  <2>6. CASE op.val = 1
    <3>1. phase[b] = "pressing" \/ (phase[b] = "rest" /\ b \in reported)
      BY <1>1, <1>2, <2>1, <2>5, <2>6 DEF ServedInPhase, AtRest, phase
    <3>2. Abstract!Set(b)
      BY <1>3, <2>3, <2>4, <2>6, <3>1 DEF Abstract!Set, Abstract!Store
    <3>3. QED
      BY <3>2 DEF Abstract!Next
  <2>7. CASE op.val = 0
    <3>1. phase[b] = "releasing"
      BY <1>1, <1>2, <2>1, <2>7 DEF ServedInPhase, Ownership, DebtsMatch, phase
    <3>2. Abstract!Clear(b)
      BY <1>3, <2>3, <2>4, <2>7, <3>1 DEF Abstract!Clear, Abstract!Store
    <3>3. QED
      BY <3>2 DEF Abstract!Next
  <2>8. QED
    BY <2>6, <2>7 DEF Op, Val
<1>6. QED
  BY <1>4, <1>5

(* What a closed connection left behind is a stale write.                  *)
LEMMA OrphanRefines ==
    ASSUME TypeOK, ServeOrphan
    PROVE  Abstract!Next \/ UNCHANGED Abstract!vars
<1>1. PICK op \in Op : Apply(op) /\ late' = late \cup {CellOf(op)}
  BY DEF ServeOrphan, TypeOK
<1>2. UNCHANGED <<buttonWrites, buttonWritesToClean, pressing, reported, phase>>
  BY DEF ServeOrphan, image, phase
<1>3. CASE op.coil \/ op.addr \notin Buttons
  <2>1. ASSUME NEW b \in Buttons
        PROVE  reg'[b] = reg[b] /\ (<<b, FALSE>> \in late' <=> <<b, FALSE>> \in late)
    <3>1. reg'[b] = reg[b]
      BY <1>1, <1>3, ApplyToButtons
    <3>2. CellOf(op) # <<b, FALSE>>
      BY <1>3 DEF CellOf
    <3>3. QED
      BY <1>1, <3>1, <3>2
  <2>2. QED
    BY <1>2, <2>1, ButtonStutter
<1>4. CASE ~op.coil /\ op.addr \in Buttons
  <2>1. PICK b \in Buttons : b = op.addr
    BY <1>4
  <2>2. CellOf(op) = <<b, FALSE>> /\ op.val \in {0, 1}
    BY <1>4, <2>1 DEF CellOf, Op, Val
  <2>3. [c \in Buttons |-> reg'[c]] = [[c \in Buttons |-> reg[c]] EXCEPT ![b] = op.val]
    BY <1>1, <1>4, <2>1, ApplyToButtons
  <2>4. {c \in Buttons : <<c, FALSE>> \in late'} = {c \in Buttons : <<c, FALSE>> \in late} \cup {b}
    <3>1. \A c \in Buttons : <<c, FALSE>> \in late' <=> <<c, FALSE>> \in late \/ c = b
      BY <1>1, <2>2
    <3>2. QED
      BY <3>1
  <2>5. Abstract!Stale(b)
    BY <1>2, <2>2, <2>3, <2>4 DEF Abstract!Stale
  <2>6. QED
    BY <2>5 DEF Abstract!Next
<1>5. QED
  BY <1>3, <1>4

-----------------------------------------------------------------------------
(* The theorems                                                            *)

(* RegImage and the master driver keep the promise of module Button: a     *)
(* press is accepted only at rest, and the button is at rest again only    *)
(* after a refusal, a report, or a release that is in the register.        *)
THEOREM ImplementsButton == Spec => ButtonSpec
<1>1. Init => Abstract!Init
  BY AddrAssumption DEF Init, Abstract!Init, phase, Addr
<1>2. TypeOK /\ Ownership /\ Delivery /\ ServedInPhase /\ [Next]_vars
        => [Abstract!Next]_(Abstract!vars)
  <2>1. SUFFICES ASSUME TypeOK, Ownership, Delivery, ServedInPhase, [Next]_vars
                 PROVE  Abstract!Next \/ UNCHANGED Abstract!vars
    OBVIOUS
  <2>2. CASE LoseOrphan
    BY <2>2, ButtonStutter DEF LoseOrphan, image, regs
  <2>3. CASE UNCHANGED vars
    BY <2>3, ButtonStutter DEF vars, image, regs
  <2>4. QED
    BY <2>1, <2>2, <2>3, GuiRefines, DriverRefines, ServeRefines, OrphanRefines
       DEF Next, Network
<1>3. QED
  BY <1>1, <1>2, ServedInvariant, PTL DEF Spec, ButtonSpec, Abstract!Spec

(* What module Button promises of a register that stays pressed: a button  *)
(* is accepted with its register as it is, so the invariant has to speak   *)
(* of that phase too.                                                      *)
StuckInv ==
    /\ Abstract!ButtonTypeOK
    /\ \A b \in Buttons :
          (phase[b] \in {"rest", "asked"} /\ reg[b] = 1) => (b \in reported \/ <<b, FALSE>> \in late)

LEMMA StuckInitially == Abstract!Init => StuckInv
<1> DEFINE R == [b \in Buttons |-> reg[b]]
<1>1. SUFFICES ASSUME Abstract!Init PROVE StuckInv
  OBVIOUS
<1>2. R = [b \in Buttons |-> 0]
  BY <1>1 DEF Abstract!Init
<1>3. R \in [Buttons -> {0, 1}] /\ \A b \in Buttons : reg[b] = R[b] /\ R[b] = 0
  BY <1>2
<1>4. phase \in [Buttons -> Abstract!Phases] /\ reported = {}
  BY <1>1 DEF Abstract!Init, Abstract!Phases
<1>5. Abstract!ButtonTypeOK
  BY <1>3, <1>4 DEF Abstract!ButtonTypeOK
<1>6. \A b \in Buttons : reg[b] # 1
  BY <1>3
<1> QED
  BY <1>5, <1>6 DEF StuckInv

LEMMA StuckStep == StuckInv /\ [Abstract!Next]_(Abstract!vars) => StuckInv'
<1> DEFINE R == [b \in Buttons |-> reg[b]]
           L == {b \in Buttons : <<b, FALSE>> \in late}
<1> USE DEF StuckInv, Abstract!ButtonTypeOK
<1>1. SUFFICES ASSUME StuckInv, [Abstract!Next]_(Abstract!vars) PROVE StuckInv'
  OBVIOUS
<1>2. /\ \A b \in Buttons : R[b] = reg[b] /\ R'[b] = reg'[b]
      /\ \A b \in Buttons : /\ b \in L <=> <<b, FALSE>> \in late
                            /\ b \in L' <=> <<b, FALSE>> \in late'
  OBVIOUS
<1>3. ASSUME NEW b \in Buttons, Abstract!Accept(b) \/ Abstract!Queue(b) \/ Abstract!Refuse(b)
      PROVE  StuckInv'
  <2>1. PICK s \in Abstract!Phases : phase' = [phase EXCEPT ![b] = s]
    BY <1>3 DEF Abstract!Accept, Abstract!Queue, Abstract!Refuse, Abstract!Move, Abstract!Phases
  <2> QED BY <1>1, <1>2, <1>3, <2>1
     DEF Abstract!Accept, Abstract!Queue, Abstract!Refuse, Abstract!Move, Abstract!Phases
<1>4. ASSUME NEW b \in Buttons, Abstract!GiveUp(b) PROVE StuckInv'
  BY <1>1, <1>2, <1>4 DEF Abstract!GiveUp, Abstract!Move, Abstract!Phases
<1>5. ASSUME NEW b \in Buttons, Abstract!Written(b) PROVE StuckInv'
  BY <1>1, <1>2, <1>5 DEF Abstract!Written, Abstract!Move, Abstract!Phases
<1>6. ASSUME NEW b \in Buttons, Abstract!Released(b) PROVE StuckInv'
  <2>1. /\ \A c \in Buttons : reg'[c] = reg[c]
        /\ \A c \in Buttons : <<c, FALSE>> \in late' <=> <<c, FALSE>> \in late
    BY <1>2, <1>6 DEF Abstract!Released
  <2>2. reg[b] = 0 \/ <<b, FALSE>> \in late
    BY <1>2, <1>6 DEF Abstract!Released
  <2>3. /\ phase' = [phase EXCEPT ![b] = "rest"] /\ reported' = reported \ {b}
        /\ R' = R /\ L' = L
    BY <1>6 DEF Abstract!Released, Abstract!Move
  <2>4. Abstract!ButtonTypeOK'
    BY <1>1, <2>3 DEF Abstract!Phases
  <2>5. ASSUME NEW c \in Buttons, phase'[c] \in {"rest", "asked"}, reg'[c] = 1
        PROVE  c \in reported' \/ <<c, FALSE>> \in late'
    <3>1. CASE c = b
      <4>1. reg'[b] # 1 \/ <<b, FALSE>> \in late'
        <5>1. reg'[b] = reg[b] /\ (<<b, FALSE>> \in late' <=> <<b, FALSE>> \in late)
          BY <2>1
        <5> QED BY <2>2, <5>1
      <4> QED BY <2>5, <3>1, <4>1
    <3>2. CASE c # b
      <4>1. phase'[c] = phase[c]
        BY <1>1, <2>3, <3>2
      <4>2. c \in reported \/ <<c, FALSE>> \in late
        BY <1>1, <2>1, <2>5, <4>1
      <4> QED BY <2>1, <2>3, <3>2, <4>2
    <3> QED BY <3>1, <3>2
  <2> QED
    BY <2>4, <2>5
<1>7. ASSUME NEW b \in Buttons, Abstract!Set(b) \/ Abstract!Clear(b) PROVE StuckInv'
  BY <1>1, <1>2, <1>7 DEF Abstract!Set, Abstract!Clear, Abstract!Store
<1>8. ASSUME NEW b \in Buttons, Abstract!Stale(b) PROVE StuckInv'
  BY <1>1, <1>2, <1>8 DEF Abstract!Stale
<1>9. CASE UNCHANGED Abstract!vars
  BY <1>1, <1>2, <1>9 DEF Abstract!vars
<1> QED
  BY <1>1, <1>3, <1>4, <1>5, <1>6, <1>7, <1>8, <1>9 DEF Abstract!Next

(* A register that stays pressed although the image takes its button to be *)
(* at rest was reported with writeError, or written from a connection the  *)
(* driver had closed: what module Button promises, carried over.           *)
THEOREM StuckRegistersAreExplained == Spec => []StuckIsExplained
<1>1. StuckInv => StuckIsExplained
  BY DEF StuckInv, StuckIsExplained, AtRest, phase
<1>2. QED
  BY <1>1, StuckInitially, StuckStep, ImplementsButton, PTL DEF ButtonSpec, Abstract!Spec
=============================================================================
