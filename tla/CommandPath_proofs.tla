------------------------ MODULE CommandPath_proofs -------------------------
(***************************************************************************)
(* Proofs about module CommandPath, for any number of buttons, addresses   *)
(* and pending writes, and any number of tries.                            *)
(***************************************************************************)
EXTENDS CommandPath, SequenceTheorems, TLAPS

-----------------------------------------------------------------------------
(* Queues                                                                  *)

(* What Append leaves in a queue.                                          *)
LEMMA AppendFacts ==
    ASSUME NEW S, NEW s \in Seq(S), NEW e \in S
    PROVE  /\ Append(s, e) \in Seq(S)
           /\ Append(s, e) # <<>>
           /\ DOMAIN Append(s, e) = DOMAIN s \cup {Len(s) + 1}
           /\ Len(s) + 1 \notin DOMAIN s
           /\ \A i \in DOMAIN s : Append(s, e)[i] = s[i]
           /\ Append(s, e)[Len(s) + 1] = e
  OBVIOUS

(* What Tail leaves in a queue, and that the rest is all it takes away.    *)
LEMMA TailFacts ==
    ASSUME NEW S, NEW s \in Seq(S), s # <<>>
    PROVE  /\ Tail(s) \in Seq(S)
           /\ Head(s) \in S
           /\ Head(s) = s[1]
           /\ 1 \in DOMAIN s
           /\ \A i \in DOMAIN Tail(s) :
                 i + 1 \in DOMAIN s /\ i + 1 # 1 /\ Tail(s)[i] = s[i + 1]
           /\ \A i \in DOMAIN s : i # 1 => i - 1 \in DOMAIN Tail(s)
           /\ Len(s) # 1 => Tail(s) # <<>>
<1>1. Len(s) \in Nat \ {0} /\ DOMAIN s = 1..Len(s)
  BY EmptySeq, LenProperties
<1>2. Head(s) = s[1]
  OBVIOUS
<1>3. /\ Tail(s) \in Seq(S)
      /\ Len(Tail(s)) = Len(s) - 1
      /\ DOMAIN Tail(s) = 1..(Len(s) - 1)
      /\ \A i \in 1..(Len(s) - 1) : Tail(s)[i] = s[i + 1]
  BY HeadTailProperties, LenProperties
<1>4. Len(s) # 1 => Tail(s) # <<>>
  <2>1. Len(s) # 1 => Len(Tail(s)) # 0
    BY <1>1, <1>3
  <2>2. QED
    BY <2>1, EmptySeq
<1>5. Head(s) \in S
  BY HeadTailProperties
<1>6. 1 \in DOMAIN s
  BY <1>1
<1>7. \A i \in DOMAIN Tail(s) :
          i + 1 \in DOMAIN s /\ i + 1 # 1 /\ Tail(s)[i] = s[i + 1]
  BY <1>1, <1>3
<1>8. \A i \in DOMAIN s : i # 1 => i - 1 \in DOMAIN Tail(s)
  BY <1>1, <1>3
<1>9. QED
  BY <1>2, <1>3, <1>4, <1>5, <1>6, <1>7, <1>8

(* An empty queue holds nothing, and is a queue of anything.               *)
LEMMA EmptyFacts ==
    ASSUME NEW S
    PROVE  <<>> \in Seq(S) /\ DOMAIN <<>> = {}
  OBVIOUS

-----------------------------------------------------------------------------
(* Types                                                                   *)

(* The callbacks keep the tables and the queue of releases well typed.     *)
LEMMA CallbackTypes ==
    ASSUME TypeOK, NEW a,
           DriverWriteTimeOut(a) \/ DriverWriteSuccess(a)
    PROVE  /\ buttonWrites' \subseteq Buttons
           /\ buttonWritesToClean' \subseteq Buttons
           /\ uncompleted' \in Seq(Buttons)
           /\ reported' \subseteq Buttons
<1>1. a \in Buttons => Append(uncompleted, a) \in Seq(Buttons)
  BY AppendFacts DEF TypeOK
<1>2. CASE DriverWriteTimeOut(a)
  BY <1>1, <1>2 DEF TypeOK, DriverWriteTimeOut, image
<1>3. CASE DriverWriteSuccess(a)
  BY <1>1, <1>3 DEF TypeOK, DriverWriteSuccess
<1>4. QED
  BY <1>2, <1>3

(* What one served request leaves of the registers.                        *)
LEMMA ApplyTypes ==
    ASSUME TypeOK, NEW op \in Op, Apply(op)
    PROVE  reg' \in [Addr -> Val] /\ coil' \in [Forceable -> BOOLEAN]
<1>1. CASE op.coil
  BY <1>1 DEF TypeOK, Apply, Op
<1>2. CASE ~op.coil
  BY <1>2 DEF TypeOK, Apply, Op
<1>3. QED
  BY <1>1, <1>2

(* The Modbus call processNextWrite makes next is a proper one.            *)
LEMMA CurrentOpType ==
    ASSUME NEW r \in Request, req[cur] = r
    PROVE  CurrentOp \in Op
  BY DEF CurrentOp, CoilOp, RegOp, Op, Request, Val

(* closeConnection keeps the link well typed.                              *)
LEMMA CloseTypes ==
    ASSUME TypeOK, CloseConnection
    PROVE  connected' \in BOOLEAN /\ inbox' \in Seq(Op) /\ orphans' \subseteq Op
<1>1. {inbox[i] : i \in DOMAIN inbox} \subseteq Op
  BY LenProperties DEF TypeOK
<1>2. QED
  BY <1>1, EmptyFacts DEF TypeOK, CloseConnection

(* Every step of the GUI thread keeps TypeOK.                              *)
LEMMA GuiTypes ==
    ASSUME TypeOK, Shape, Gui
    PROVE  TypeOK'
<1>1. ASSUME NEW a \in Buttons, PressBegin(a) PROVE TypeOK'
  BY <1>1 DEF TypeOK, PressBegin, GuiPoints, conn, queue, attempt, link, regs
<1>2. CASE PressQueued
  <2>1. Plainly(pressing, 1) \in Request
    BY <1>2 DEF PressQueued, Shape, TypeOK, Plainly, Request, Addr, Val
  <2>2. QED
    BY <1>2, <2>1
       DEF TypeOK, PressQueued, Push, GuiPoints, image, conn, attempt, link, regs
<1>3. CASE PressRefused
  BY <1>3 DEF TypeOK, PressRefused, GuiPoints, conn, queue, attempt, link, regs
<1>4. CASE UpdateImage
  BY <1>4 DEF TypeOK, UpdateImage, GuiPoints, image, conn, queue, attempt, link, regs
<1>5. CASE FlushRelease
  <2>1. Tail(uncompleted) \in Seq(Buttons) /\ Head(uncompleted) \in Buttons
    BY <1>5, TailFacts DEF FlushRelease, Shape, TypeOK
  <2>2. Plainly(Head(uncompleted), 0) \in Request
    BY <2>1 DEF Plainly, Request, Addr, Val
  <2>3. QED
    BY <1>5, <2>1, <2>2
       DEF TypeOK, FlushRelease, Push, GuiPoints, conn, attempt, link, regs
<1>6. ASSUME NEW r \in Request, DirectWrite(r) PROVE TypeOK'
  BY <1>6 DEF TypeOK, DirectWrite, Push, image, conn, attempt, link, regs
<1>7. CASE WriteVar
  <2>1. \A a \in Plain, v \in Val : Plainly(a, v) \in Request
    BY DEF Plainly, Request, Addr
  <2>2. QED
    BY <1>6, <1>7, <2>1 DEF WriteVar
<1>8. CASE ForceVar
  <2>1. \A a \in Forceable, v \in Val, b \in BOOLEAN :
            [addr |-> a, val |-> v, force |-> TRUE, bit |-> b] \in Request
    BY DEF Request, Addr
  <2>2. QED
    BY <1>6, <1>8, <2>1 DEF ForceVar
<1>9. CASE Start
  BY <1>9 DEF TypeOK, Start, image, queue, attempt, link, regs
<1>10. CASE StopBegin
  BY <1>10 DEF TypeOK, StopBegin, GuiPoints, image, conn, queue, attempt, link, regs
<1>11. CASE StopCleans
  <2>1. PICK p \in pending :
            /\ pending' = pending \ {p}
            /\ DriverWriteTimeOut(req[p].addr)
            /\ Delete(p)
    BY <1>11 DEF StopCleans
  <2>2. UNCHANGED <<gui, pressing, conn, drv, attempt, link, regs>>
    BY <1>11 DEF StopCleans
  <2>3. QED
    BY <2>1, <2>2, CallbackTypes DEF TypeOK, Delete, conn, attempt, link, regs
<1>12. CASE StopEnd
  BY <1>12, CloseTypes
     DEF TypeOK, StopEnd, GuiPoints, image, queue, attempt, regs
<1>13. QED
  BY <1>1, <1>2, <1>3, <1>4, <1>5, <1>7, <1>8, <1>9, <1>10, <1>11, <1>12 DEF Gui

(* Every step of the driver thread keeps TypeOK.                           *)
LEMMA DriverTypes ==
    ASSUME TypeOK, Shape, Driver
    PROVE  TypeOK'
<1> USE DEF DrvPoints
<1>1. CASE Connect
  BY <1>1 DEF TypeOK, Connect, image, queue, attempt, link, regs
<1>2. CASE WriteCycleEmpty
  BY <1>2 DEF TypeOK, WriteCycleEmpty, image, queue, attempt, link, regs
<1>3. CASE WriteCycleNext
  BY <1>3 DEF TypeOK, WriteCycleNext, image, queue, attempt, link, regs
<1>4. CASE ReadFails
  BY <1>4 DEF TypeOK, ReadFails, image, queue, attempt, link, regs
<1>5. CASE DropConnection
  BY <1>5, CloseTypes DEF TypeOK, DropConnection, image, queue, attempt, regs
<1>6. CASE Reconnect
  BY <1>6 DEF TypeOK, Reconnect, image, queue, attempt, link, regs
<1>7. ASSUME NEW p \in Ptr, CleanExpired(p) PROVE TypeOK'
  BY <1>7 DEF TypeOK, CleanExpired, image, conn, link, regs
<1>8. CASE TimeOutCallback
  <2>1. cur \in Ptr
    BY <1>8 DEF TimeOutCallback, Shape
  <2>2. DriverWriteTimeOut(req[cur].addr) /\ Delete(cur)
    BY <1>8 DEF TimeOutCallback
  <2>3. QED
    BY <1>8, <2>1, <2>2, CallbackTypes
       DEF TypeOK, TimeOutCallback, Delete, conn, link, regs
<1>9. CASE ComCleanEnd
  BY <1>9 DEF TypeOK, ComCleanEnd, image, conn, queue, attempt, link, regs
<1>10. CASE NothingToWrite
  BY <1>10 DEF TypeOK, NothingToWrite, image, conn, queue, attempt, link, regs
<1>11. ASSUME NEW p \in Ptr, BeginWrite(p) PROVE TypeOK'
  <2>1. p \in Live
    BY <1>11 DEF BeginWrite, Live
  <2>2. req[p].force \in BOOLEAN
    BY <2>1 DEF Shape, Request
  <2>3. 1 \in 0..MaxTrys
    BY BoundAssumption
  <2>4. QED
    BY <1>11, <2>2, <2>3 DEF TypeOK, BeginWrite, image, conn, queue, link, regs
<1>12. CASE Send
  <2>1. CurrentOp \in Op
    <3>1. cur \in Live
      BY <1>12 DEF Send, Shape, Live, TypeOK
    <3>2. QED
      BY <3>1, CurrentOpType DEF Shape
  <2>2. Append(inbox, CurrentOp) \in Seq(Op)
    BY <2>1, AppendFacts DEF TypeOK
  <2>3. QED
    BY <1>12, <2>2 DEF TypeOK, Send, image, conn, queue, attempt, regs
<1>13. ASSUME WriteFailed, UNCHANGED <<image, gui, pressing, connected,
                                        inWriteCycle, link, regs, reported>>
       PROVE  TypeOK'
  <2>1. 0 \in 0..MaxTrys
    BY BoundAssumption
  <2>2. QED
    BY <1>13, <2>1 DEF TypeOK, WriteFailed, image, queue, link, regs
<1>14. ASSUME drv = "await", WriteDone,
              UNCHANGED <<image, gui, pressing, connected,
                          inWriteCycle, link, regs, reported>>
       PROVE  TypeOK'
  <2>1. 0 \in 0..MaxTrys
    BY BoundAssumption
  <2>2. cur \in Ptr
    BY <1>14 DEF Shape, TypeOK
  <2>3. QED
    BY <1>14, <2>1, <2>2 DEF TypeOK, WriteDone, Delete, image, link, regs
<1>15. CASE ReplyArrives
  <2>1. CASE ~coilDone /\ req[cur].bit
    BY <1>15, <2>1 DEF TypeOK, ReplyArrives, image, queue, link, regs
  <2>2. CASE ~(~coilDone /\ req[cur].bit)
    BY <1>13, <1>14, <1>15, <2>2 DEF ReplyArrives, LeaveLoop
  <2>3. QED
    BY <2>1, <2>2
<1>16. CASE ReplyMissing
  <2>1. CASE trys = MaxTrys
    BY <1>13, <1>16, <2>1 DEF ReplyMissing
  <2>2. CASE trys # MaxTrys
    <3>1. trys + 1 \in 0..MaxTrys
      BY <2>2, BoundAssumption DEF TypeOK
    <3>2. QED
      BY <1>16, <2>2, <3>1 DEF TypeOK, ReplyMissing, image, queue, link, regs
  <2>3. QED
    BY <2>1, <2>2
<1>17. CASE SuccessCallback
  <2>1. cur \in Ptr
    BY <1>17 DEF SuccessCallback, Shape
  <2>2. DriverWriteSuccess(req[cur].addr) /\ Delete(cur)
    BY <1>17 DEF SuccessCallback
  <2>3. QED
    BY <1>17, <2>1, <2>2, CallbackTypes
       DEF TypeOK, SuccessCallback, Delete, conn, link, regs
<1>18. QED
  BY <1>1, <1>2, <1>3, <1>4, <1>5, <1>6, <1>7, <1>8, <1>9, <1>10, <1>11, <1>12,
     <1>15, <1>16, <1>17 DEF Driver

(* Every step of the server and the network keeps TypeOK.                  *)
LEMMA NetworkTypes ==
    ASSUME TypeOK, Network
    PROVE  TypeOK'
<1>1. \A op \in Op : CellOf(op) \in Cell
  BY DEF CellOf, Cell, Op
<1>2. CASE Serve
  <2>1. Head(inbox) \in Op /\ Tail(inbox) \in Seq(Op)
    BY <1>2, TailFacts DEF Serve, TypeOK
  <2>2. reg' \in [Addr -> Val] /\ coil' \in [Forceable -> BOOLEAN]
    BY <1>2, <2>1, ApplyTypes DEF Serve
  <2>3. QED
    BY <1>2, <2>1, <2>2 DEF TypeOK, Serve, image, conn, queue, attempt
<1>3. CASE ServeOrphan
  <2>1. PICK op \in orphans :
            /\ Apply(op)
            /\ orphans' \in {orphans, orphans \ {op}}
            /\ late' = late \cup {CellOf(op)}
            /\ UNCHANGED <<image, gui, pressing, conn, queue, drv, attempt, inbox,
                           reported>>
    BY <1>3 DEF ServeOrphan
  <2>2. op \in Op
    BY DEF TypeOK
  <2>3. reg' \in [Addr -> Val] /\ coil' \in [Forceable -> BOOLEAN]
    BY <2>1, <2>2, ApplyTypes
  <2>4. late' \subseteq Cell /\ orphans' \subseteq Op
    BY <1>1, <2>1, <2>2 DEF TypeOK
  <2>5. QED
    BY <2>1, <2>3, <2>4 DEF TypeOK, image, conn, queue, attempt
<1>4. CASE LoseOrphan
  BY <1>4 DEF TypeOK, LoseOrphan, image, conn, queue, attempt, regs
<1>5. QED
  BY <1>2, <1>3, <1>4 DEF Network

(* Every step keeps TypeOK: the counter of tries of processNextWrite stays *)
(* in range, and queues and tables hold only addresses and requests.       *)
THEOREM TypeStep ==
    ASSUME TypeOK, Shape, [Next]_vars
    PROVE  TypeOK'
<1>1. CASE Next
  BY <1>1, GuiTypes, DriverTypes, NetworkTypes DEF Next
<1>2. CASE UNCHANGED vars
  BY <1>2 DEF TypeOK, vars, image, conn, queue, attempt, link, regs
<1>3. QED
  BY <1>1, <1>2

-----------------------------------------------------------------------------
(* Control points                                                          *)

(* A new request is a cell of its own; the others stay as they are.        *)
LEMMA PushFacts ==
    ASSUME TypeOK, NEW r \in Request, Push(r), cur' = cur
    PROVE  \E p \in Ptr \ Live :
              /\ Live' = Live \cup {p}
              /\ pending' = pending \cup {p}
              /\ req'[p] = r
              /\ \A q \in Live : req'[q] = req[q]
<1>1. PICK p \in Ptr \ Allocated :
          /\ pending' = pending \cup {p}
          /\ req' = [req EXCEPT ![p] = r]
  BY DEF Push
<1>2. p \notin Live /\ Live' = Live \cup {p}
  BY <1>1 DEF Live, Allocated
<1>3. req'[p] = r /\ \A q \in Live : req'[q] = req[q]
  BY <1>1, <1>2 DEF TypeOK, Live
<1>4. QED
  BY <1>1, <1>2, <1>3

(* A new request that says which kind of address it is for.                *)
Kind(r) == r.force <=> r.addr \in Forceable

(* Queueing a request of the right kind keeps Shape.                       *)
LEMMA PushShape ==
    ASSUME TypeOK, Shape, NEW r \in Request, Kind(r), Push(r), UNCHANGED <<drv, attempt>>,
           gui' = "press" => pressing' \in buttonWrites',
           gui' # "press" => pressing' = NoAddr,
           gui' = "flush" => uncompleted' # <<>>,
           gui' = "stop" => drv' = "idle",
           ~DrvLockHeld
    PROVE  Shape'
<1>1. PICK p \in Ptr \ Live :
          /\ Live' = Live \cup {p}
          /\ pending' = pending \cup {p}
          /\ req'[p] = r
          /\ \A q \in Live : req'[q] = req[q]
  BY PushFacts DEF attempt
<1>2. drv' = "idle" /\ cur' = NoPtr
  BY DEF DrvLockHeld, Shape, attempt
<1>3. QED
  BY <1>1, <1>2 DEF Shape, Kind

(* Steps that leave queue, tables and the driver where they are.           *)
LEMMA SameLive ==
    ASSUME UNCHANGED <<pending, cur>>
    PROVE  Live' = Live
  BY DEF Live

(* Every step of the GUI thread (RegImage and the calls it makes into the  *)
(* driver) keeps Shape.                                                    *)
LEMMA GuiShape ==
    ASSUME TypeOK, Shape, Gui
    PROVE  Shape'
<1>1. ASSUME NEW a \in Buttons, PressBegin(a) PROVE Shape'
  BY <1>1, SameLive DEF PressBegin, Shape, queue, attempt
<1>2. CASE PressQueued
  <2>1. Plainly(pressing, 1) \in Request /\ Kind(Plainly(pressing, 1))
    BY <1>2, AddrAssumption
       DEF PressQueued, Shape, TypeOK, Plainly, Request, Addr, Val, Kind
  <2>2. QED
    BY <1>2, <2>1, PushShape DEF PressQueued
<1>3. CASE PressRefused
  BY <1>3, SameLive DEF PressRefused, Shape, queue, attempt
<1>4. CASE UpdateImage
  BY <1>4, SameLive DEF UpdateImage, Shape, image, queue, attempt
<1>5. CASE FlushRelease
  <2>1. uncompleted # <<>> /\ uncompleted \in Seq(Buttons)
    BY <1>5 DEF FlushRelease, Shape, TypeOK
  <2>2. Head(uncompleted) \in Buttons /\ (Len(uncompleted) # 1 => Tail(uncompleted) # <<>>)
    BY <2>1, TailFacts
  <2>3. Plainly(Head(uncompleted), 0) \in Request /\ Kind(Plainly(Head(uncompleted), 0))
    BY <2>2, AddrAssumption DEF Plainly, Request, Addr, Val, Kind
  <2>4. gui' = "flush" => uncompleted' # <<>>
    BY <1>5, <2>2 DEF FlushRelease
  <2>5. gui' \in {"idle", "flush"} /\ pressing' = NoAddr
    BY <1>5 DEF FlushRelease, Shape
  <2>6. QED
    BY <1>5, <2>3, <2>4, <2>5, PushShape DEF FlushRelease
<1>6. ASSUME NEW r \in Request, Kind(r), DirectWrite(r) PROVE Shape'
  BY <1>6, PushShape DEF DirectWrite, Shape, image
<1>7. CASE WriteVar
  <2>1. \A a \in Plain, v \in Val : Plainly(a, v) \in Request /\ Kind(Plainly(a, v))
    BY AddrAssumption DEF Plainly, Request, Addr, Kind
  <2>2. QED
    BY <1>6, <1>7, <2>1 DEF WriteVar
<1>8. CASE ForceVar
  <2>1. \A a \in Forceable, v \in Val, b \in BOOLEAN :
            /\ [addr |-> a, val |-> v, force |-> TRUE, bit |-> b] \in Request
            /\ Kind([addr |-> a, val |-> v, force |-> TRUE, bit |-> b])
    BY DEF Request, Addr, Kind
  <2>2. QED
    BY <1>6, <1>8, <2>1 DEF ForceVar
<1>9. CASE Start
  BY <1>9, SameLive DEF Start, Shape, image, queue, attempt
<1>10. CASE StopBegin
  BY <1>10, SameLive DEF StopBegin, Shape, DrvLockHeld, image, queue, attempt
<1>11. CASE StopCleans
  <2>1. PICK p \in pending :
            /\ pending' = pending \ {p}
            /\ DriverWriteTimeOut(req[p].addr)
            /\ Delete(p)
    BY <1>11 DEF StopCleans
  <2>2. gui = "stop" /\ UNCHANGED <<gui, pressing, drv, cur, trys>>
    BY <1>11 DEF StopCleans, attempt
  <2>3. drv = "idle" /\ cur = NoPtr /\ pressing = NoAddr
    BY <2>2 DEF Shape
  <2>4. Live' \subseteq Live \ {p}
    BY <2>1, <2>2, <2>3, PtrAssumption DEF Live, TypeOK
  <2>5. \A q \in Live' : req'[q] = req[q]
    BY <2>1, <2>4 DEF Delete, TypeOK, Live
  <2>6. QED
    BY <2>2, <2>3, <2>4, <2>5 DEF Shape
<1>12. CASE StopEnd
  BY <1>12, SameLive DEF StopEnd, Shape, image, queue, attempt
<1>13. QED
  BY <1>1, <1>2, <1>3, <1>4, <1>5, <1>7, <1>8, <1>9, <1>10, <1>11, <1>12 DEF Gui

(* A request leaves the driver's hands.                                    *)
LEMMA DropCurrent ==
    ASSUME TypeOK, cur \in Ptr, cur' = NoPtr,
           pending' = pending \/ pending' = pending \ {cur},
           req' = req \/ Delete(cur),
           req' = req \/ cur \notin pending'
    PROVE  /\ Live' = pending'
           /\ Live' \subseteq Live
           /\ \A q \in Live' : req'[q] = req[q]
<1>1. Live' = pending' /\ Live' \subseteq Live
  BY PtrAssumption DEF Live, TypeOK
<1>2. \A q \in Live' : req'[q] = req[q]
  BY <1>1 DEF Delete, TypeOK
<1>3. QED
  BY <1>1, <1>2

(* Every step of driverLoop keeps Shape.                                   *)
LEMMA DriverShape ==
    ASSUME TypeOK, Shape, Driver
    PROVE  Shape'
<1>1. CASE Connect
  BY <1>1, SameLive DEF Connect, DrvTakesLock, Shape, image, queue, attempt
<1>2. CASE WriteCycleEmpty
  BY <1>2, SameLive DEF WriteCycleEmpty, DrvTakesLock, Shape, image, queue, attempt
<1>3. CASE WriteCycleNext
  BY <1>3, SameLive DEF WriteCycleNext, DrvTakesLock, Shape, image, queue, attempt
<1>4. CASE ReadFails
  BY <1>4, SameLive DEF ReadFails, DrvTakesLock, Shape, image, queue, attempt
<1>5. CASE DropConnection
  BY <1>5, SameLive DEF DropConnection, DrvTakesLock, Shape, image, queue, attempt
<1>6. CASE Reconnect
  BY <1>6, SameLive DEF Reconnect, DrvTakesLock, Shape, image, queue, attempt
<1>7. ASSUME NEW p \in Ptr, CleanExpired(p) PROVE Shape'
  <2>1. Live' = Live
    BY <1>7, PtrAssumption DEF CleanExpired, Live, Shape
  <2>2. drv' \in {"cleanCb", "comCleanCb"} /\ cur' \in Ptr \ pending'
    BY <1>7 DEF CleanExpired
  <2>3. QED
    BY <1>7, <2>1, <2>2 DEF CleanExpired, Shape, image
<1>8. CASE TimeOutCallback
  <2>1. cur \in Ptr \ pending /\ drv \in {"cleanCb", "comCleanCb"}
    BY <1>8 DEF TimeOutCallback, Shape
  <2>2. cur' = NoPtr /\ pending' = pending /\ drv' \in {"clean", "comClean"} /\ Delete(cur)
    BY <1>8 DEF TimeOutCallback
  <2>3. Live' = pending' /\ Live' \subseteq Live /\ \A q \in Live' : req'[q] = req[q]
    BY <2>1, <2>2, DropCurrent
  <2>4. gui \notin {"press", "flush"} /\ UNCHANGED <<gui, pressing>>
    BY <1>8 DEF TimeOutCallback, ButtonLockHeld
  <2>5. gui # "stop"
    BY <2>1 DEF Shape
  <2>6. QED
    BY <2>2, <2>3, <2>4, <2>5 DEF Shape
<1>9. CASE ComCleanEnd
  BY <1>9, SameLive DEF ComCleanEnd, Shape, image, queue, attempt
<1>10. CASE NothingToWrite
  BY <1>10, SameLive DEF NothingToWrite, Shape, image, queue, attempt
<1>11. ASSUME NEW p \in Ptr, BeginWrite(p) PROVE Shape'
  <2>1. Live' = Live
    BY <1>11, PtrAssumption DEF BeginWrite, Live, Shape, queue
  <2>2. 1 \in 1..MaxTrys
    BY BoundAssumption
  <2>3. drv' = "send" /\ cur' \in pending' /\ trys' \in 1..MaxTrys /\ gui # "stop"
    BY <1>11, <2>2 DEF BeginWrite, Shape, queue
  <2>4. QED
    BY <1>11, <2>1, <2>3 DEF BeginWrite, Shape, image, queue
<1>12. CASE Send
  BY <1>12, SameLive DEF Send, Shape, image, queue, attempt
<1>13. ASSUME WriteFailed, drv = "await", UNCHANGED <<image, gui, pressing>>
       PROVE  Shape'
  <2>1. cur \in Ptr
    BY <1>13 DEF Shape, TypeOK
  <2>2. cur' = NoPtr /\ pending' = pending /\ req' = req /\ drv' = "idle"
    BY <1>13 DEF WriteFailed, queue
  <2>3. Live' = pending' /\ Live' \subseteq Live /\ \A q \in Live' : req'[q] = req[q]
    BY <2>1, <2>2, DropCurrent
  <2>4. QED
    BY <1>13, <2>2, <2>3 DEF Shape, image
<1>14. ASSUME WriteDone, drv = "await", UNCHANGED <<image, gui, pressing>>
       PROVE  Shape'
  <2>1. cur \in pending /\ cur \in Ptr /\ pending' = pending \ {cur} /\ gui # "stop"
    BY <1>14 DEF Shape, TypeOK, WriteDone
  <2>2. CASE req[cur].addr \in Buttons
    <3>1. drv' = "okCb" /\ cur' = cur /\ req' = req
      BY <1>14, <2>2 DEF WriteDone
    <3>2. Live' = Live
      BY <2>1, <3>1 DEF Live
    <3>3. QED
      BY <1>14, <2>1, <2>2, <3>1, <3>2 DEF Shape, image
  <2>3. CASE req[cur].addr \notin Buttons
    <3>1. drv' = "idle" /\ cur' = NoPtr /\ Delete(cur)
      BY <1>14, <2>3 DEF WriteDone
    <3>2. Live' = pending' /\ Live' \subseteq Live /\ \A q \in Live' : req'[q] = req[q]
      BY <2>1, <3>1, DropCurrent
    <3>3. QED
      BY <1>14, <3>1, <3>2 DEF Shape, image
  <2>4. QED
    BY <2>2, <2>3
<1>15. CASE ReplyArrives
  <2>1. CASE ~coilDone /\ req[cur].bit
    BY <1>15, <2>1, SameLive DEF ReplyArrives, Shape, image, queue
  <2>2. CASE ~(~coilDone /\ req[cur].bit)
    BY <1>13, <1>14, <1>15, <2>2 DEF ReplyArrives, LeaveLoop
  <2>3. QED
    BY <2>1, <2>2
<1>16. CASE ReplyMissing
  <2>1. CASE trys = MaxTrys
    BY <1>13, <1>16, <2>1 DEF ReplyMissing
  <2>2. CASE trys # MaxTrys
    <3>1. trys + 1 \in 1..MaxTrys
      BY <2>2, BoundAssumption DEF TypeOK
    <3>2. QED
      BY <1>16, <2>2, <3>1, SameLive DEF ReplyMissing, Shape, image, queue
  <2>3. QED
    BY <2>1, <2>2
<1>17. CASE SuccessCallback
  <2>1. cur \in Ptr \ pending /\ drv = "okCb"
    BY <1>17 DEF SuccessCallback, Shape
  <2>2. cur' = NoPtr /\ pending' = pending /\ drv' = "idle" /\ Delete(cur)
    BY <1>17 DEF SuccessCallback
  <2>3. Live' = pending' /\ Live' \subseteq Live /\ \A q \in Live' : req'[q] = req[q]
    BY <2>1, <2>2, DropCurrent
  <2>4. gui \notin {"press", "flush"} /\ UNCHANGED <<gui, pressing>>
    BY <1>17 DEF SuccessCallback, ButtonLockHeld
  <2>5. QED
    BY <2>2, <2>3, <2>4 DEF Shape
<1>18. QED
  BY <1>1, <1>2, <1>3, <1>4, <1>5, <1>6, <1>7, <1>8, <1>9, <1>10, <1>11, <1>12,
     <1>15, <1>16, <1>17 DEF Driver

(* Every step keeps Shape: the control points of both threads agree with   *)
(* the local variables that are alive there.                               *)
THEOREM ShapeStep ==
    ASSUME TypeOK, Shape, [Next]_vars
    PROVE  Shape'
<1>1. CASE Network
  BY <1>1, SameLive DEF Network, Serve, ServeOrphan, LoseOrphan, Shape, image, queue, attempt
<1>2. CASE UNCHANGED vars
  BY <1>2, SameLive DEF vars, Shape, image, queue, attempt
<1>3. QED
  BY <1>1, <1>2, GuiShape, DriverShape DEF Next

-----------------------------------------------------------------------------
(* Who owes what for a button                                              *)

Debts == DebtsMatch /\ NoneForgotten /\ OneOutstanding

(* Nothing changes for the buttons when the tables, the queue of releases  *)
(* and the live requests stay as they are.                                 *)
LEMMA DebtsFrame ==
    ASSUME Debts, UNCHANGED <<image, pressing>>, Live' = Live,
           \A p \in Live : req'[p] = req[p]
    PROVE  Debts'
<1> USE DEF image
<1>1. DebtsMatch'
  BY DEF Debts, DebtsMatch
<1>2. NoneForgotten'
  BY DEF Debts, NoneForgotten, OwedByGui, OwedByQueue
<1>3. OneOutstanding'
  BY DEF Debts, OneOutstanding, OwedByGui, OwedByQueue, OwedByRequest
<1>4. QED
  BY <1>1, <1>2, <1>3 DEF Debts

(* A request for an address that is no button's is of no concern to them.  *)
LEMMA DebtsOther ==
    ASSUME Debts, UNCHANGED <<image, pressing>>,
           \A p \in Live \cup Live' : p \in Live /\ p \in Live' => req'[p] = req[p],
           \A p \in Live \ Live' : req[p].addr \notin Buttons,
           \A p \in Live' \ Live : req'[p].addr \notin Buttons,
           buttonWrites \cup buttonWritesToClean \subseteq Buttons
    PROVE  Debts'
<1> USE DEF image
<1>1. DebtsMatch'
  BY DEF Debts, DebtsMatch
<1>2. NoneForgotten'
  BY DEF Debts, NoneForgotten, OwedByGui, OwedByQueue
<1>3. \A b \in Buttons : OwedByRequest(b)' <=> OwedByRequest(b)
  BY DEF OwedByRequest
<1>4. OneOutstanding'
  BY <1>3 DEF Debts, OneOutstanding, OwedByGui, OwedByQueue
<1>5. QED
  BY <1>1, <1>2, <1>4 DEF Debts

(* A press accepted: the GUI thread owes it.                               *)
LEMMA DebtsPress ==
    ASSUME TypeOK, Shape, Debts, NEW a \in Buttons, PressBegin(a)
    PROVE  Debts'
<1>1. Live' = Live /\ req' = req /\ uncompleted' = uncompleted /\ pressing = NoAddr
  BY SameLive DEF PressBegin, Shape, queue, attempt
<1>2. \A p \in Live : req[p].addr # a
  BY DEF Debts, DebtsMatch, PressBegin
<1>3. \A i \in DOMAIN uncompleted : uncompleted[i] # a
  BY DEF Debts, DebtsMatch, PressBegin
<1>4. DebtsMatch'
  BY <1>1, <1>2 DEF Debts, DebtsMatch, PressBegin
<1>5. NoneForgotten'
  BY <1>1, AddrAssumption DEF Debts, NoneForgotten, PressBegin, OwedByGui, OwedByQueue, TypeOK
<1>6. OneOutstanding'
  BY <1>1, <1>2, <1>3
     DEF Debts, OneOutstanding, PressBegin, OwedByGui, OwedByQueue, OwedByRequest
<1>7. QED
  BY <1>4, <1>5, <1>6 DEF Debts

(* The press is refused: the table forgets it.                             *)
LEMMA DebtsRefused ==
    ASSUME TypeOK, Shape, Debts, PressRefused
    PROVE  Debts'
<1>1. /\ Live' = Live /\ req' = req /\ uncompleted' = uncompleted
      /\ pressing \in buttonWrites /\ pressing \in Buttons
      /\ pressing' = NoAddr /\ buttonWrites' = buttonWrites \ {pressing}
      /\ buttonWritesToClean' = buttonWritesToClean
  BY SameLive DEF PressRefused, Shape, TypeOK, queue, attempt
<1>2. \A p \in Live : req[p].addr # pressing
  BY <1>1 DEF Debts, OneOutstanding, OwedByGui, OwedByRequest
<1>3. DebtsMatch'
  BY <1>1, <1>2 DEF Debts, DebtsMatch
<1>4. NoneForgotten'
  BY <1>1 DEF Debts, NoneForgotten, OwedByGui, OwedByQueue
<1>5. OneOutstanding'
  BY <1>1, AddrAssumption
     DEF Debts, OneOutstanding, OwedByGui, OwedByQueue, OwedByRequest
<1>6. QED
  BY <1>3, <1>4, <1>5 DEF Debts

(* The press becomes a request of the driver.                              *)
LEMMA DebtsQueued ==
    ASSUME TypeOK, Shape, Debts, PressQueued
    PROVE  Debts'
<1>1. /\ pressing \in buttonWrites /\ pressing \in Buttons /\ pressing' = NoAddr
      /\ UNCHANGED image /\ cur' = cur
  BY DEF PressQueued, Shape, TypeOK, attempt
<1>2. Plainly(pressing, 1) \in Request
  BY <1>1 DEF Plainly, Request, Addr, Val
<1>3. PICK p \in Ptr \ Live :
          /\ Live' = Live \cup {p}
          /\ req'[p] = Plainly(pressing, 1)
          /\ \A q \in Live : req'[q] = req[q]
  BY <1>1, <1>2, PushFacts DEF PressQueued
<1>4. req'[p].addr = pressing /\ req'[p].val = 1
  BY <1>3 DEF Plainly
<1>5. /\ \A q \in Live : req[q].addr # pressing
      /\ \A i \in DOMAIN uncompleted : uncompleted[i] # pressing
  BY <1>1 DEF Debts, OneOutstanding, OwedByGui, OwedByRequest, OwedByQueue
<1>6. DebtsMatch'
  BY <1>1, <1>3, <1>4 DEF Debts, DebtsMatch, image
<1>7. NoneForgotten'
  BY <1>1, <1>3, <1>4 DEF Debts, NoneForgotten, OwedByGui, OwedByQueue, image
<1>8. \A b \in Buttons : OwedByRequest(b)' <=> (OwedByRequest(b) \/ b = pressing)
  BY <1>3, <1>4 DEF OwedByRequest
<1>9. OneOutstanding'
  BY <1>1, <1>3, <1>4, <1>5, <1>8, AddrAssumption
     DEF Debts, OneOutstanding, OwedByGui, OwedByQueue, image
<1>10. QED
  BY <1>6, <1>7, <1>9 DEF Debts

(* A waiting release becomes a request of the driver.                      *)
LEMMA DebtsFlush ==
    ASSUME TypeOK, Shape, Debts, FlushRelease
    PROVE  Debts'
<1> DEFINE a == Head(uncompleted)
<1>1. /\ uncompleted # <<>> /\ uncompleted \in Seq(Buttons)
      /\ uncompleted' = Tail(uncompleted) /\ cur' = cur
      /\ UNCHANGED <<buttonWrites, buttonWritesToClean, pressing>>
  BY DEF FlushRelease, Shape, TypeOK, attempt
<1>2. /\ a \in Buttons
      /\ a = uncompleted[1]
      /\ 1 \in DOMAIN uncompleted
      /\ \A i \in DOMAIN uncompleted' :
            i + 1 \in DOMAIN uncompleted /\ i + 1 # 1 /\ uncompleted'[i] = uncompleted[i + 1]
      /\ \A i \in DOMAIN uncompleted : i # 1 => i - 1 \in DOMAIN uncompleted'
      /\ DOMAIN uncompleted \subseteq Nat /\ DOMAIN uncompleted' \subseteq Nat
  BY <1>1, TailFacts, LenProperties
<1>3. Plainly(a, 0) \in Request
  BY <1>2 DEF Plainly, Request, Addr, Val
<1>4. PICK p \in Ptr \ Live :
          /\ Live' = Live \cup {p}
          /\ req'[p] = Plainly(a, 0)
          /\ \A q \in Live : req'[q] = req[q]
  BY <1>1, <1>3, PushFacts DEF FlushRelease
<1>5. req'[p].addr = a /\ req'[p].val = 0
  BY <1>4 DEF Plainly
<1>6. a \in buttonWritesToClean /\ OwedByQueue(a)
  BY <1>2 DEF Debts, DebtsMatch, OwedByQueue
<1>7. pressing # a /\ \A q \in Live : req[q].addr # a
  BY <1>2, <1>6 DEF Debts, OneOutstanding, OwedByGui, OwedByRequest
<1>8. \A i \in DOMAIN uncompleted' : uncompleted'[i] # a
  BY <1>2 DEF Debts, OneOutstanding
<1>9. \A b \in Buttons : OwedByQueue(b)' <=> (OwedByQueue(b) /\ b # a)
  <2>1. ASSUME NEW b \in Buttons, OwedByQueue(b)' PROVE OwedByQueue(b) /\ b # a
    BY <1>2, <1>8, <2>1 DEF OwedByQueue
  <2>2. ASSUME NEW b \in Buttons, OwedByQueue(b), b # a PROVE OwedByQueue(b)'
    <3>1. PICK i \in DOMAIN uncompleted : uncompleted[i] = b
      BY <2>2 DEF OwedByQueue
    <3>2. i # 1 /\ i - 1 \in DOMAIN uncompleted' /\ (i - 1) + 1 = i
      BY <1>2, <2>2, <3>1
    <3>3. uncompleted'[i - 1] = b
      BY <1>2, <3>1, <3>2
    <3>4. QED
      BY <3>2, <3>3 DEF OwedByQueue
  <2>3. QED
    BY <2>1, <2>2
<1>10. \A b \in Buttons : OwedByRequest(b)' <=> (OwedByRequest(b) \/ b = a)
  BY <1>4, <1>5 DEF OwedByRequest
<1>11. DebtsMatch'
  <2>1. \A q \in Live' : req'[q].addr \in Buttons =>
            IF req'[q].val = 1 THEN req'[q].addr \in buttonWrites'
                               ELSE req'[q].addr \in buttonWritesToClean'
    BY <1>1, <1>4, <1>5, <1>6 DEF Debts, DebtsMatch
  <2>2. \A i \in DOMAIN uncompleted' : uncompleted'[i] \in buttonWritesToClean'
    BY <1>1, <1>2 DEF Debts, DebtsMatch
  <2>3. QED
    BY <1>1, <2>1, <2>2 DEF Debts, DebtsMatch
<1>12. NoneForgotten'
  <2>1. \A b \in buttonWrites' :
            OwedByGui(b)' \/ \E q \in Live' : req'[q].addr = b /\ req'[q].val = 1
    BY <1>1, <1>4 DEF Debts, NoneForgotten, OwedByGui
  <2>2. ASSUME NEW b \in buttonWritesToClean'
        PROVE OwedByQueue(b)' \/ \E q \in Live' : req'[q].addr = b /\ req'[q].val = 0
    <3>1. b \in Buttons /\ b \in buttonWritesToClean
      BY <1>1, <2>2 DEF TypeOK
    <3>2. OwedByQueue(b) \/ \E q \in Live : req[q].addr = b /\ req[q].val = 0
      BY <3>1 DEF Debts, NoneForgotten
    <3>3. QED
      BY <1>4, <1>5, <1>9, <3>1, <3>2
  <2>3. QED
    BY <2>1, <2>2 DEF NoneForgotten
<1>13. OneOutstanding'
  <2>1. \A q, r \in Live' :
            (req'[q].addr = req'[r].addr /\ req'[q].addr \in Buttons) => q = r
    BY <1>4, <1>5, <1>7 DEF Debts, OneOutstanding
  <2>2. \A i, j \in DOMAIN uncompleted' : uncompleted'[i] = uncompleted'[j] => i = j
    BY <1>2 DEF Debts, OneOutstanding
  <2>3. \A b \in Buttons : OwedByGui(b)' <=> OwedByGui(b)
    BY <1>1 DEF OwedByGui
  <2>4. \A b \in Buttons :
            /\ ~(OwedByGui(b)' /\ OwedByRequest(b)')
            /\ ~(OwedByGui(b)' /\ OwedByQueue(b)')
            /\ ~(OwedByRequest(b)' /\ OwedByQueue(b)')
    BY <1>7, <1>9, <1>10, <2>3 DEF Debts, OneOutstanding, OwedByGui
  <2>5. QED
    BY <2>1, <2>2, <2>4 DEF OneOutstanding
<1>14. QED
  BY <1>11, <1>12, <1>13 DEF Debts

(* The debt of a live request becomes an entry of the queue of releases.   *)
LEMMA DebtsToQueue ==
    ASSUME TypeOK, Shape, Debts, NEW p \in Live, req[p].addr \in Buttons,
           Live' = Live \ {p}, \A q \in Live' : req'[q] = req[q],
           pressing' = pressing,
           uncompleted' = Append(uncompleted, req[p].addr),
           \/ /\ req[p].addr \in buttonWritesToClean
              /\ UNCHANGED <<buttonWrites, buttonWritesToClean>>
           \/ /\ buttonWrites' = buttonWrites \ {req[p].addr}
              /\ buttonWritesToClean' = buttonWritesToClean \cup {req[p].addr}
    PROVE  Debts'
<1> DEFINE a == req[p].addr
<1>1. /\ DOMAIN uncompleted' = DOMAIN uncompleted \cup {Len(uncompleted) + 1}
      /\ Len(uncompleted) + 1 \notin DOMAIN uncompleted
      /\ \A i \in DOMAIN uncompleted : uncompleted'[i] = uncompleted[i]
      /\ uncompleted'[Len(uncompleted) + 1] = a
  BY AppendFacts DEF TypeOK
<1>2. \A q \in Live' : req'[q].addr # a
  BY DEF Debts, OneOutstanding
<1>3. pressing # a /\ \A i \in DOMAIN uncompleted : uncompleted[i] # a
  BY DEF Debts, OneOutstanding, OwedByGui, OwedByQueue, OwedByRequest
<1>4. /\ a \in buttonWritesToClean'
      /\ buttonWrites' \cap buttonWritesToClean' = {}
      /\ \A b \in Buttons \ {a} :
            /\ b \in buttonWrites' <=> b \in buttonWrites
            /\ b \in buttonWritesToClean' <=> b \in buttonWritesToClean
      /\ buttonWrites' \subseteq buttonWrites
      /\ buttonWritesToClean' \subseteq buttonWritesToClean \cup {a}
      /\ buttonWritesToClean' \subseteq Buttons
      /\ a \notin buttonWrites'
  BY DEF Debts, DebtsMatch, TypeOK
<1>5. \A b \in Buttons : OwedByQueue(b)' <=> (OwedByQueue(b) \/ b = a)
  BY <1>1 DEF OwedByQueue
<1>6. \A b \in Buttons : OwedByRequest(b)' => (OwedByRequest(b) /\ b # a)
  BY <1>2 DEF OwedByRequest
<1>7. DebtsMatch'
  <2>1. \A q \in Live' : req'[q].addr \in Buttons =>
            IF req'[q].val = 1 THEN req'[q].addr \in buttonWrites'
                               ELSE req'[q].addr \in buttonWritesToClean'
    BY <1>2, <1>4 DEF Debts, DebtsMatch
  <2>2. \A i \in DOMAIN uncompleted : uncompleted[i] \in Buttons \ {a}
    BY <1>3, LenProperties DEF TypeOK
  <2>3. \A i \in DOMAIN uncompleted' : uncompleted'[i] \in buttonWritesToClean'
    BY <1>1, <1>4, <2>2 DEF Debts, DebtsMatch
  <2>4. QED
    BY <1>4, <2>1, <2>3 DEF DebtsMatch
<1>8. NoneForgotten'
  <2>1. ASSUME NEW b \in buttonWrites'
        PROVE OwedByGui(b)' \/ \E q \in Live' : req'[q].addr = b /\ req'[q].val = 1
    <3>1. b \in buttonWrites /\ b # a
      BY <1>4, <2>1
    <3>2. QED
      BY <3>1 DEF Debts, NoneForgotten, OwedByGui
  <2>2. ASSUME NEW b \in buttonWritesToClean'
        PROVE OwedByQueue(b)' \/ \E q \in Live' : req'[q].addr = b /\ req'[q].val = 0
    <3>1. CASE b = a
      BY <1>5, <3>1
    <3>2. CASE b # a
      <4>1. b \in buttonWritesToClean /\ b \in Buttons
        BY <1>4, <2>2, <3>2
      <4>2. QED
        BY <1>5, <3>2, <4>1 DEF Debts, NoneForgotten
    <3>3. QED
      BY <3>1, <3>2
  <2>3. QED
    BY <2>1, <2>2 DEF NoneForgotten
<1>9. OneOutstanding'
  <2>1. \A i, j \in DOMAIN uncompleted' : uncompleted'[i] = uncompleted'[j] => i = j
    BY <1>1, <1>3 DEF Debts, OneOutstanding
  <2>2. \A q, r \in Live' :
            (req'[q].addr = req'[r].addr /\ req'[q].addr \in Buttons) => q = r
    BY DEF Debts, OneOutstanding
  <2>3. \A b \in Buttons : OwedByGui(b)' <=> OwedByGui(b)
    BY DEF OwedByGui
  <2>4. \A b \in Buttons :
            /\ ~(OwedByGui(b)' /\ OwedByRequest(b)')
            /\ ~(OwedByGui(b)' /\ OwedByQueue(b)')
            /\ ~(OwedByRequest(b)' /\ OwedByQueue(b)')
    BY <1>3, <1>5, <1>6, <2>3 DEF Debts, OneOutstanding, OwedByGui
  <2>5. QED
    BY <2>1, <2>2, <2>4 DEF OneOutstanding
<1>10. QED
  BY <1>7, <1>8, <1>9 DEF Debts

(* A callback of the driver: the debt goes from the request to where the   *)
(* callback puts it.                                                       *)
LEMMA DebtsTimeOut ==
    ASSUME TypeOK, Shape, Debts, NEW p \in Live,
           DriverWriteTimeOut(req[p].addr),
           Live' = Live \ {p}, \A q \in Live' : req'[q] = req[q],
           pressing' = pressing
    PROVE  Debts'
<1> DEFINE a == req[p].addr
<1>1. CASE a \notin Buttons
  <2>1. UNCHANGED image
    BY <1>1 DEF DriverWriteTimeOut, TypeOK
  <2>2. QED
    BY <1>1, <2>1, DebtsOther DEF TypeOK
<1>2. CASE a \in buttonWrites
  <2>1. /\ buttonWrites' = buttonWrites \ {a} /\ a \in Buttons
        /\ UNCHANGED <<buttonWritesToClean, uncompleted>>
    BY <1>2 DEF DriverWriteTimeOut, TypeOK, image
  <2>2. \A q \in Live' : req'[q].addr # a
    BY <2>1 DEF Debts, OneOutstanding
  <2>3. ~OwedByGui(a) /\ ~OwedByQueue(a)
    BY <2>1 DEF Debts, OneOutstanding, OwedByRequest
  <2>4. DebtsMatch'
    BY <2>1, <2>2 DEF Debts, DebtsMatch
  <2>5. NoneForgotten'
    <3>1. ASSUME NEW b \in buttonWrites'
          PROVE OwedByGui(b)' \/ \E q \in Live' : req'[q].addr = b /\ req'[q].val = 1
      BY <2>1, <3>1 DEF Debts, NoneForgotten, OwedByGui
    <3>2. ASSUME NEW b \in buttonWritesToClean'
          PROVE OwedByQueue(b)' \/ \E q \in Live' : req'[q].addr = b /\ req'[q].val = 0
      <4>1. b # a
        BY <1>2, <2>1, <3>2 DEF Debts, DebtsMatch
      <4>2. QED
        BY <2>1, <3>2, <4>1 DEF Debts, NoneForgotten, OwedByQueue
    <3>3. QED
      BY <3>1, <3>2 DEF NoneForgotten
  <2>6. OneOutstanding'
    <3>1. \A b \in Buttons : OwedByRequest(b)' => OwedByRequest(b)
      BY DEF OwedByRequest
    <3>2. QED
      BY <2>1, <3>1 DEF Debts, OneOutstanding, OwedByGui, OwedByQueue
  <2>7. QED
    BY <2>4, <2>5, <2>6 DEF Debts
<1>3. CASE a \in Buttons /\ a \notin buttonWrites
  <2>1. a \in buttonWritesToClean
    BY <1>3 DEF Debts, DebtsMatch
  <2>2. /\ uncompleted' = Append(uncompleted, a)
        /\ UNCHANGED <<buttonWrites, buttonWritesToClean>>
    BY <1>3, <2>1 DEF DriverWriteTimeOut, image
  <2>3. QED
    BY <1>3, <2>1, <2>2, DebtsToQueue
<1>4. QED
  BY <1>1, <1>2, <1>3 DEF TypeOK

(* driverWriteSuccess: a press written leaves a release to be queued, a    *)
(* release written leaves nothing.                                         *)
LEMMA DebtsSuccess ==
    ASSUME TypeOK, Shape, Debts, NEW p \in Live, req[p].addr \in Buttons,
           DriverWriteSuccess(req[p].addr),
           Live' = Live \ {p}, \A q \in Live' : req'[q] = req[q],
           pressing' = pressing
    PROVE  Debts'
<1> DEFINE a == req[p].addr
<1>1. CASE a \in buttonWrites
  BY <1>1, DebtsToQueue DEF DriverWriteSuccess
<1>2. CASE a \notin buttonWrites
  <2>1. /\ buttonWritesToClean' = buttonWritesToClean \ {a}
        /\ UNCHANGED <<buttonWrites, uncompleted>>
    BY <1>2 DEF DriverWriteSuccess
  <2>2. \A q \in Live' : req'[q].addr # a
    BY DEF Debts, OneOutstanding
  <2>3. ~OwedByGui(a) /\ ~OwedByQueue(a)
    BY DEF Debts, OneOutstanding, OwedByRequest
  <2>4. DebtsMatch'
    BY <2>1, <2>2, <2>3 DEF Debts, DebtsMatch, OwedByQueue
  <2>5. NoneForgotten'
    <3>1. ASSUME NEW b \in buttonWrites'
          PROVE OwedByGui(b)' \/ \E q \in Live' : req'[q].addr = b /\ req'[q].val = 1
      BY <1>2, <2>1, <3>1 DEF Debts, NoneForgotten, OwedByGui
    <3>2. ASSUME NEW b \in buttonWritesToClean'
          PROVE OwedByQueue(b)' \/ \E q \in Live' : req'[q].addr = b /\ req'[q].val = 0
      BY <2>1, <3>2 DEF Debts, NoneForgotten, OwedByQueue
    <3>3. QED
      BY <3>1, <3>2 DEF NoneForgotten
  <2>6. OneOutstanding'
    <3>1. \A b \in Buttons : OwedByRequest(b)' => OwedByRequest(b)
      BY DEF OwedByRequest
    <3>2. QED
      BY <2>1, <3>1 DEF Debts, OneOutstanding, OwedByGui, OwedByQueue
  <2>7. QED
    BY <2>4, <2>5, <2>6 DEF Debts
<1>3. QED
  BY <1>1, <1>2

(* Every step keeps the books: what a button owes is in exactly one hand,  *)
(* the one its table says.                                                 *)
THEOREM DebtsStep ==
    ASSUME TypeOK, Shape, Debts, [Next]_vars
    PROVE  Debts'
<1>1. ASSUME UNCHANGED <<image, pressing, pending, req, cur>> PROVE Debts'
  BY <1>1, SameLive, DebtsFrame
<1>2. CASE Network
  BY <1>1, <1>2 DEF Network, Serve, ServeOrphan, LoseOrphan, queue, attempt
<1>3. CASE UNCHANGED vars
  BY <1>1, <1>3 DEF vars, queue, attempt
<1>4. CASE Gui
  <2>1. ASSUME NEW r \in Request, r.addr \notin Buttons, DirectWrite(r) PROVE Debts'
    <3>1. cur' = cur /\ Push(r) /\ UNCHANGED <<image, pressing>>
      BY <2>1 DEF DirectWrite, attempt
    <3>2. PICK p \in Ptr \ Live :
              /\ Live' = Live \cup {p}
              /\ req'[p] = r
              /\ \A q \in Live : req'[q] = req[q]
      BY <2>1, <3>1, PushFacts
    <3>3. QED
      BY <2>1, <3>1, <3>2, DebtsOther DEF TypeOK
  <2>2. CASE WriteVar
    <3>1. \A a \in Plain, v \in Val :
              Plainly(a, v) \in Request /\ Plainly(a, v).addr \notin Buttons
      BY AddrAssumption DEF Plainly, Request, Addr
    <3>2. QED
      BY <2>1, <2>2, <3>1 DEF WriteVar
  <2>3. CASE ForceVar
    <3>1. \A a \in Forceable, v \in Val, b \in BOOLEAN :
              /\ [addr |-> a, val |-> v, force |-> TRUE, bit |-> b] \in Request
              /\ [addr |-> a, val |-> v, force |-> TRUE, bit |-> b].addr \notin Buttons
      BY AddrAssumption DEF Request, Addr
    <3>2. QED
      BY <2>1, <2>3, <3>1 DEF ForceVar
  <2>4. CASE StopCleans
    <3>1. PICK p \in pending :
              /\ pending' = pending \ {p}
              /\ DriverWriteTimeOut(req[p].addr)
              /\ Delete(p)
      BY <2>4 DEF StopCleans
    <3>2. cur = NoPtr /\ cur' = NoPtr /\ pressing' = pressing
      BY <2>4 DEF StopCleans, Shape, attempt
    <3>3. p \in Live /\ Live' = Live \ {p}
      BY <3>1, <3>2, PtrAssumption DEF Live, TypeOK
    <3>4. \A q \in Live' : req'[q] = req[q]
      BY <3>1, <3>3 DEF Delete, Live, TypeOK
    <3>5. QED
      BY <3>1, <3>2, <3>3, <3>4, DebtsTimeOut
  <2>5. CASE UpdateImage \/ Start \/ StopBegin \/ StopEnd
    BY <1>1, <2>5 DEF UpdateImage, Start, StopBegin, StopEnd, queue, attempt
  <2>6. QED
    BY <1>4, <2>2, <2>3, <2>4, <2>5, DebtsPress, DebtsQueued, DebtsRefused, DebtsFlush
       DEF Gui
<1>5. CASE Driver
  <2>1. ASSUME NEW p \in Ptr, CleanExpired(p) \/ BeginWrite(p) PROVE Debts'
    <3>1. Live' = Live
      BY <2>1, PtrAssumption DEF CleanExpired, BeginWrite, Live, Shape, queue
    <3>2. QED
      BY <2>1, <3>1, DebtsFrame DEF CleanExpired, BeginWrite, queue
  <2>2. CASE TimeOutCallback
    <3>1. /\ cur \in Ptr \ pending /\ cur' = NoPtr /\ pending' = pending
          /\ pressing' = pressing /\ Delete(cur) /\ DriverWriteTimeOut(req[cur].addr)
      BY <2>2 DEF TimeOutCallback, Shape
    <3>2. cur \in Live /\ Live' = Live \ {cur} /\ \A q \in Live' : req'[q] = req[q]
      BY <3>1, PtrAssumption DEF Live, Delete, TypeOK
    <3>3. QED
      BY <3>1, <3>2, DebtsTimeOut
  <2>3. CASE SuccessCallback
    <3>1. /\ cur \in Ptr \ pending /\ cur' = NoPtr /\ pending' = pending
          /\ pressing' = pressing /\ Delete(cur) /\ DriverWriteSuccess(req[cur].addr)
          /\ req[cur].addr \in Buttons
      BY <2>3 DEF SuccessCallback, Shape
    <3>2. cur \in Live /\ Live' = Live \ {cur} /\ \A q \in Live' : req'[q] = req[q]
      BY <3>1, PtrAssumption DEF Live, Delete, TypeOK
    <3>3. QED
      BY <3>1, <3>2, DebtsSuccess
  <2>4. ASSUME drv = "await", WriteFailed, UNCHANGED <<image, pressing>> PROVE Debts'
    <3>1. cur \in pending /\ cur' = NoPtr /\ pending' = pending /\ req' = req
      BY <2>4 DEF WriteFailed, Shape, queue
    <3>2. Live' = Live
      BY <3>1, PtrAssumption DEF Live, TypeOK
    <3>3. QED
      BY <2>4, <3>1, <3>2, DebtsFrame
  <2>5. ASSUME drv = "await", WriteDone, UNCHANGED <<image, pressing>> PROVE Debts'
    <3>1. cur \in pending /\ pending' = pending \ {cur}
      BY <2>5 DEF WriteDone, Shape
    <3>2. CASE req[cur].addr \in Buttons
      <4>1. Live' = Live /\ req' = req
        BY <2>5, <3>1, <3>2 DEF WriteDone, Live
      <4>2. QED
        BY <2>5, <4>1, DebtsFrame
    <3>3. CASE req[cur].addr \notin Buttons
      <4>1. cur' = NoPtr /\ Delete(cur)
        BY <2>5, <3>3 DEF WriteDone
      <4>2. /\ Live' = Live \ {cur} /\ \A q \in Live' : req'[q] = req[q]
        BY <3>1, <4>1, PtrAssumption DEF Live, Delete, TypeOK
      <4>3. QED
        BY <2>5, <3>3, <4>2, DebtsOther DEF TypeOK
    <3>4. QED
      BY <3>2, <3>3
  <2>6. CASE ReplyArrives
    <3>1. CASE ~coilDone /\ req[cur].bit
      BY <1>1, <2>6, <3>1 DEF ReplyArrives, queue
    <3>2. CASE ~(~coilDone /\ req[cur].bit)
      BY <2>4, <2>5, <2>6, <3>2 DEF ReplyArrives, LeaveLoop
    <3>3. QED
      BY <3>1, <3>2
  <2>7. CASE ReplyMissing
    <3>1. CASE trys = MaxTrys
      BY <2>4, <2>7, <3>1 DEF ReplyMissing
    <3>2. CASE trys # MaxTrys
      BY <1>1, <2>7, <3>2 DEF ReplyMissing, queue
    <3>3. QED
      BY <3>1, <3>2
  <2>8. CASE \/ Connect \/ WriteCycleEmpty \/ WriteCycleNext \/ ReadFails
             \/ DropConnection \/ Reconnect \/ ComCleanEnd \/ NothingToWrite \/ Send
    BY <1>1, <2>8
       DEF Connect, WriteCycleEmpty, WriteCycleNext, ReadFails, DropConnection,
           Reconnect, ComCleanEnd, NothingToWrite, Send, queue, attempt
  <2>9. QED
    BY <1>5, <2>1, <2>2, <2>3, <2>6, <2>7, <2>8 DEF Driver
<1>6. QED
  BY <1>2, <1>3, <1>4, <1>5 DEF Next

-----------------------------------------------------------------------------
(* The theorems of the specification                                       *)

(* The invariant holds when RegImage and the driver have been initialised. *)
LEMMA InitOK == Init => TypeOK /\ Ownership
<1> SUFFICES ASSUME Init PROVE TypeOK /\ Ownership
  OBVIOUS
<1>1. TypeOK
  <2>1. uncompleted \in Seq(Buttons) /\ inbox \in Seq(Op)
    BY EmptyFacts DEF Init
  <2>2. reg \in [Addr -> Val] /\ coil \in [Forceable -> BOOLEAN]
    BY DEF Init, Val
  <2>3. req \in [Ptr -> Request \cup {NoReq}] /\ trys \in 0..MaxTrys
    BY BoundAssumption DEF Init
  <2>4. QED
    BY <2>1, <2>2, <2>3 DEF Init, TypeOK, GuiPoints, DrvPoints
<1>2. Live = {} /\ DOMAIN uncompleted = {}
  BY PtrAssumption, EmptyFacts DEF Init, Live
<1>3. Shape
  BY <1>2 DEF Init, Shape
<1>4. DebtsMatch
  BY <1>2 DEF Init, DebtsMatch
<1>5. NoneForgotten
  BY DEF Init, NoneForgotten
<1>6. OneOutstanding
  BY <1>2, AddrAssumption
     DEF Init, OneOutstanding, OwedByGui, OwedByRequest, OwedByQueue
<1>7. QED
  BY <1>1, <1>3, <1>4, <1>5, <1>6 DEF Ownership

(* The invariant is inductive.                                             *)
LEMMA InvStep ==
    TypeOK /\ Ownership /\ [Next]_vars => TypeOK' /\ Ownership'
<1> SUFFICES ASSUME TypeOK, Ownership, [Next]_vars PROVE TypeOK' /\ Ownership'
  OBVIOUS
<1>1. Shape /\ Debts
  BY DEF Ownership, Debts
<1>2. TypeOK' /\ Shape' /\ Debts'
  BY <1>1, TypeStep, ShapeStep, DebtsStep
<1>3. QED
  BY <1>2 DEF Ownership, Debts

(* What a pressed button still owes is always held by exactly one of the   *)
(* GUI thread, the driver and the queue of releases of RegImage.           *)
THEOREM OwnershipInvariant == Spec => [](TypeOK /\ Ownership)
  BY InitOK, InvStep, PTL DEF Spec

(* Every variable of the command path keeps to its type: no dangling       *)
(* request is ever dereferenced and the counter of tries stays in range.   *)
THEOREM TypeInvariant == Spec => []TypeOK
  BY OwnershipInvariant, PTL

(* A button is never left in a table with nobody to take it out.           *)
THEOREM NoneForgottenInvariant == Spec => []NoneForgotten
<1>1. TypeOK /\ Ownership => NoneForgotten
  BY DEF Ownership
<1>2. QED
  BY <1>1, OwnershipInvariant, PTL

(* A button never has two writes outstanding.                              *)
THEOREM OneOutstandingInvariant == Spec => []OneOutstanding
<1>1. TypeOK /\ Ownership => OneOutstanding
  BY DEF Ownership
<1>2. QED
  BY <1>1, OwnershipInvariant, PTL
=============================================================================
