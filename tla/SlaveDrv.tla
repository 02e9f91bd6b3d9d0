------------------------------ MODULE SlaveDrv ------------------------------
(***************************************************************************)
(* The Modbus server of the regulator (Regulator/src/SlaveDriver/          *)
(* ModbusSlaveDrv.cpp): life cycle, driver thread, connections.            *)
(*                                                                         *)
(*  - the driver thread runs driverLoop: it listens, accepts up to         *)
(*    MaxMasters masters, serves their requests, and listens again after   *)
(*    an error;                                                            *)
(*  - the owner thread calls init, start, stop, close, the accesses of the *)
(*    scan cycle (read, write, updateFieldVar, writeRO), and, in a signal  *)
(*    handler that may interrupt it anywhere, close and the destructor     *)
(*    (exitReg, Regulator/src/main.cpp).                                   *)
(*                                                                         *)
(* They share mtDrvStateMutex and mtIOMapMutex.  The driver holds the      *)
(* first exactly at the points DrvLockHeld names; "held" is what the owner *)
(* holds.  A critical section that waits for nothing, and that no signal   *)
(* that matters can interrupt, is one step.                                *)
(***************************************************************************)
EXTENDS Integers, FiniteSets

CONSTANTS
    Fd,          \* file descriptors
    MaxMasters,  \* MAX_NUM_MASTERS
    MaxErrors,   \* MAX_COM_ERROR_TRYS
    MaxTrys,     \* MAX_TRANSMISSION_TRYS
    MaxWaiting   \* bound: masters that wait to be accepted

ASSUME FdAssumption == Fd \subseteq Nat /\ IsFiniteSet(Fd)
ASSUME MaxAssumption ==
    /\ MaxMasters \in Nat /\ MaxWaiting \in Nat
    /\ MaxErrors \in Nat \ {0} /\ MaxTrys \in Nat \ {0}

NoSock == -1

VARIABLES
    \* ModbusSlaveDrv
    drvState,     \* mtDrvState
    ctx,          \* mpMBCtx and mpMBmapping are allocated
    drvEnd,       \* mbDrvEnd
    server,       \* miServerSock
    refset,       \* mtRefset
    readset,      \* what the pass has not looked at of mtReadset
    fdmax,        \* miFdmax
    connections,  \* muiNumConnections
    comErrors,    \* uiComErrors
    \* driver thread
    drv,          \* where it is
    woken,        \* mtWaitingStart was notified while it waited
    sock,         \* iMasterSock of the request being answered
    trys,         \* iTransTrys
    \* owner thread
    owner,        \* where it is
    held,         \* the mutexes it holds
    \* sockets
    open,         \* descriptors the driver has open
    waiting,      \* masters that wait to be accepted
    asking,       \* connections with a request to be read
    gone,         \* connections the master has closed
    \* history
    calls         \* mfComErrorCallB calls since the server last listened

life    == <<drvState, ctx, drvEnd>>
sockets == <<server, refset, fdmax, connections, open>>
pass    == <<readset, sock, trys>>
thread  == <<owner, held>>
masters == <<waiting, asking, gone>>
errors  == <<comErrors, calls>>
vars    == <<life, sockets, pass, drv, woken, thread, masters, errors>>

Clients == refset \ {server}

DrvPoints   == {"test", "lock", "checked", "wait", "serve", "reply", "sleep", "ended"}
OwnerPoints == {"idle", "start", "access", "closing", "deleting", "joining", "exited"}

TypeOK ==
    /\ drvState \in {"UnInit", "Stopped", "Running", "COMError"}
    /\ ctx \in BOOLEAN
    /\ drvEnd \in BOOLEAN
    /\ server \in Fd \cup {NoSock}
    /\ refset \subseteq Fd
    /\ readset \subseteq Fd
    /\ fdmax \in Int
    /\ connections \in 0..MaxMasters
    /\ comErrors \in 0..MaxErrors
    /\ drv \in DrvPoints
    /\ woken \in BOOLEAN
    /\ sock \in Fd \cup {NoSock}
    /\ trys \in 0..MaxTrys
    /\ owner \in OwnerPoints
    /\ held \subseteq {"drvState", "ioMap"}
    /\ open \subseteq Fd
    /\ waiting \in 0..MaxWaiting
    /\ asking \subseteq Fd
    /\ gone \subseteq Fd
    /\ calls \in Nat

(* The constructor has started the thread.                                 *)
Init ==
    /\ drvState = "UnInit" /\ ctx = FALSE /\ drvEnd = FALSE
    /\ server = NoSock /\ refset = {} /\ fdmax = 0 /\ connections = 0 /\ open = {}
    /\ readset = {} /\ sock = NoSock /\ trys = 0
    /\ drv = "test" /\ woken = FALSE
    /\ owner = "idle" /\ held = {}
    /\ waiting = 0 /\ asking = {} /\ gone = {}
    /\ comErrors = 0 /\ calls = 0

-----------------------------------------------------------------------------
(* Locks                                                                   *)

DrvLockHeld == drv \in {"checked", "serve", "reply"} \/ "drvState" \in held
IOMapHeld   == "ioMap" \in held

Notify == woken' = (woken \/ drv = "wait")

-----------------------------------------------------------------------------
(* Sockets                                                                 *)

(* Mutant: the connections outlive the server socket.                      *)
CloseServerOnly ==
    /\ server' = NoSock
    /\ refset' = {} /\ connections' = 0
    /\ open' = open \ {server}
    /\ asking' = {} /\ gone' = {}
    /\ UNCHANGED <<fdmax, waiting>>

(* closeSockets: of the descriptors up to miFdmax, those in mtRefset.      *)
CloseSockets ==
    \/ /\ server = NoSock
       /\ UNCHANGED <<sockets, masters>>
    \/ /\ server # NoSock
       /\ open' = open \ ({s \in refset : s <= fdmax} \cup {server})
       /\ asking' = {} /\ gone' = {} /\ waiting' = 0
       /\ refset' = {} /\ connections' = 0 /\ server' = NoSock
       /\ UNCHANGED fdmax

Listen ==
    \E s \in Fd \ open :
        /\ server' = s
        /\ refset' = {s} /\ fdmax' = s /\ connections' = 0
        /\ open' = open \cup {s}
        /\ comErrors' = 0 /\ calls' = 0

(* The end of an iteration over a master that failed.                      *)
Drop(s) ==
    /\ open' = open \ {s}
    /\ refset' = refset \ {s}
    /\ connections' = connections - 1
    /\ fdmax' = IF s = fdmax THEN fdmax - 1 ELSE fdmax
    /\ asking' = asking \ {s}
    /\ gone' = gone \ {s}
    /\ UNCHANGED <<server, waiting>>

-----------------------------------------------------------------------------
(* The driver thread                                                       *)

(* while(!mbDrvEnd), read without the mutex.                               *)
TestEnd ==
    /\ drv = "test"
    /\ drv' = IF drvEnd THEN "ended" ELSE "lock"
    /\ UNCHANGED <<life, sockets, pass, woken, thread, masters, errors>>

Idle == drvState \in {"UnInit", "Stopped"}

DrvTakesLock == drv = "lock" /\ ~DrvLockHeld

(* The condition of the inner loop, evaluated before waiting and again     *)
(* after every notification.                                               *)
CheckIdle ==
    /\ \/ DrvTakesLock /\ Idle
       \/ drv = "wait" /\ woken /\ ~DrvLockHeld
    /\ drv' = IF Idle /\ ~drvEnd THEN "checked" ELSE "test"
    /\ woken' = FALSE
    /\ UNCHANGED <<life, sockets, pass, thread, masters, errors>>

Wait ==
    /\ drv = "checked"
    /\ drv' = "wait"
    /\ UNCHANGED <<life, sockets, pass, woken, thread, masters, errors>>

RunningListens ==
    /\ DrvTakesLock
    /\ drvState = "Running" /\ server = NoSock
    /\ \/ Listen /\ UNCHANGED drvState
       \/ drvState' = "COMError" /\ UNCHANGED <<sockets, errors>>
    /\ drv' = "test"
    /\ UNCHANGED <<ctx, drvEnd, pass, woken, thread, masters>>

Readable == (IF waiting > 0 THEN {server} ELSE {}) \cup asking \cup gone

Select ==
    /\ DrvTakesLock
    /\ drvState = "Running" /\ server # NoSock
    /\ \/ /\ readset' = Readable
          /\ drv' = IF Readable = {} THEN "test" ELSE "serve"
          /\ UNCHANGED drvState
       \/ /\ drvState' = "COMError"
          /\ drv' = "test"
          /\ UNCHANGED readset
    /\ UNCHANGED <<ctx, drvEnd, sockets, sock, trys, woken, thread, masters, errors>>

ErrorCloses ==
    /\ DrvTakesLock
    /\ drvState = "COMError" /\ server # NoSock
    /\ CloseSockets
    /\ drv' = "test"
    /\ UNCHANGED <<life, pass, woken, thread, errors>>

(* Mutant: the count of errors wraps instead of staying at its maximum.    *)
ErrorsWrap ==
    /\ calls' = IF comErrors = 0 THEN calls + 1 ELSE calls
    /\ comErrors' = (comErrors + 1) % (MaxErrors + 1)

CountError ==
    /\ calls' = IF comErrors = 0 THEN calls + 1 ELSE calls
    /\ comErrors' = IF comErrors + 1 > MaxErrors THEN MaxErrors ELSE comErrors + 1

(* The sleep after a failure leaves mtDrvStateMutex free.                  *)
ErrorListens ==
    /\ DrvTakesLock
    /\ drvState = "COMError" /\ server = NoSock
    /\ \/ Listen /\ drvState' = "Running" /\ drv' = "test"
       \/ CountError /\ drv' = "sleep" /\ UNCHANGED <<sockets, drvState>>
    /\ UNCHANGED <<ctx, drvEnd, pass, woken, thread, masters>>

SleepEnds ==
    /\ drv = "sleep"
    /\ ~DrvLockHeld
    /\ drv' = "test"
    /\ UNCHANGED <<life, sockets, pass, woken, thread, masters, errors>>

(* The pass looks at the descriptors in ascending order up to miFdmax.     *)
Looks(s) ==
    /\ drv = "serve"
    /\ s \in readset /\ s <= fdmax
    /\ \A t \in readset : s <= t
    /\ readset' = readset \ {s}

PassEnds ==
    /\ drv = "serve"
    /\ \A s \in readset : s > fdmax
    /\ readset' = {}
    /\ drv' = "test"
    /\ UNCHANGED <<life, sockets, sock, trys, woken, thread, masters, errors>>

(* Mutant: no limit to the number of masters.                              *)
AcceptAll(s) ==
    /\ Looks(s) /\ s = server
    /\ \/ \E n \in Fd \ open :
             /\ open' = open \cup {n}
             /\ refset' = refset \cup {n}
             /\ connections' = connections + 1
             /\ fdmax' = IF n > fdmax THEN n ELSE fdmax
             /\ waiting' = waiting - 1
       \/ UNCHANGED <<open, refset, connections, fdmax, waiting>>
    /\ UNCHANGED <<life, server, sock, trys, drv, woken, thread, asking, gone, errors>>

(* Mutant: miFdmax is left behind by a higher descriptor.                  *)
AcceptLow(s) ==
    /\ Looks(s) /\ s = server
    /\ \/ /\ connections < MaxMasters
          /\ \E n \in Fd \ open :
               /\ open' = open \cup {n}
               /\ refset' = refset \cup {n}
               /\ connections' = connections + 1
               /\ waiting' = waiting - 1
       \/ UNCHANGED <<open, refset, connections, waiting>>
    /\ UNCHANGED <<life, server, fdmax, sock, trys, drv, woken, thread, asking, gone, errors>>

(* A master is accepted, or accept fails, or there is no room for it and   *)
(* it goes on waiting.                                                     *)
Accept(s) ==
    /\ Looks(s) /\ s = server
    /\ \/ /\ connections < MaxMasters
          /\ \E n \in Fd \ open :
               /\ open' = open \cup {n}
               /\ refset' = refset \cup {n}
               /\ connections' = connections + 1
               /\ fdmax' = IF n > fdmax THEN n ELSE fdmax
               /\ waiting' = waiting - 1
       \/ UNCHANGED <<open, refset, connections, fdmax, waiting>>
    /\ UNCHANGED <<life, server, sock, trys, drv, woken, thread, asking, gone, errors>>

(* modbus_receive: a request, or an error that ends the connection.        *)
Receive(s) ==
    /\ Looks(s) /\ s # server
    /\ \/ /\ s \in asking
          /\ asking' = asking \ {s}
          /\ sock' = s /\ trys' = 0 /\ drv' = "reply"
          /\ UNCHANGED <<sockets, waiting, gone>>
       \/ /\ Drop(s)
          /\ UNCHANGED <<sock, trys, drv>>
    /\ UNCHANGED <<life, woken, thread, errors>>

(* modbus_reply under mtIOMapMutex, which is released for a while between  *)
(* two tries.  iTransTrys is MaxTrys at the last of MaxTrys + 1 tries, so  *)
(* its connection is closed even when that reply is sent.                  *)
Reply ==
    /\ drv = "reply"
    /\ ~IOMapHeld
    /\ \/ /\ trys < MaxTrys
          /\ trys' = trys + 1
          /\ UNCHANGED <<drv, sock, sockets, masters>>
       \/ /\ trys < MaxTrys
          /\ drv' = "serve" /\ sock' = NoSock /\ trys' = 0
          /\ UNCHANGED <<sockets, masters>>
       \/ /\ trys = MaxTrys
          /\ Drop(sock)
          /\ drv' = "serve" /\ sock' = NoSock /\ trys' = 0
    /\ UNCHANGED <<life, readset, woken, thread, errors>>

-----------------------------------------------------------------------------
(* The owner thread                                                        *)

(* init that succeeds; one that fails changes nothing.                     *)
InitDriver ==
    /\ owner = "idle" /\ ~DrvLockHeld
    /\ drvState = "UnInit"
    /\ drvState' = "Stopped" /\ ctx' = TRUE /\ comErrors' = 0 /\ calls' = 0
    /\ Notify
    /\ UNCHANGED <<drvEnd, sockets, pass, drv, thread, masters>>

StartLocks ==
    /\ owner = "idle" /\ ~DrvLockHeld
    /\ drvState = "Stopped"
    /\ owner' = "start" /\ held' = {"drvState"}
    /\ UNCHANGED <<life, sockets, pass, drv, woken, masters, errors>>

Start ==
    /\ owner = "start"
    /\ drvState' = "Running"
    /\ Notify
    /\ owner' = "idle" /\ held' = {}
    /\ UNCHANGED <<ctx, drvEnd, sockets, pass, drv, masters, errors>>

(* Mutant: stop leaves the sockets to the driver thread.                   *)
StopLeaves ==
    /\ owner = "idle" /\ ~DrvLockHeld
    /\ drvState # "UnInit"
    /\ drvState' = "Stopped" /\ comErrors' = 0 /\ calls' = 0
    /\ UNCHANGED <<ctx, drvEnd, sockets, pass, drv, woken, thread, masters>>

Stop ==
    /\ owner = "idle" /\ ~DrvLockHeld
    /\ drvState # "UnInit"
    /\ CloseSockets
    /\ drvState' = "Stopped" /\ comErrors' = 0 /\ calls' = 0
    /\ UNCHANGED <<ctx, drvEnd, pass, drv, woken, thread>>

(* Mutant: close does not wait for the driver to finish its pass.          *)
CloseUnlocked ==
    /\ drvState # "UnInit"
    /\ CloseSockets
    /\ drvState' = "UnInit" /\ ctx' = FALSE /\ comErrors' = 0 /\ calls' = 0
    /\ UNCHANGED <<drvEnd, pass, drv, woken>>

CloseDriver ==
    /\ drvState # "UnInit" /\ ~DrvLockHeld
    /\ CloseSockets
    /\ drvState' = "UnInit" /\ ctx' = FALSE /\ comErrors' = 0 /\ calls' = 0
    /\ UNCHANGED <<drvEnd, pass, drv, woken>>

Close == owner = "idle" /\ CloseDriver /\ UNCHANGED thread

(* read, write, updateFieldVar, writeRO.                                   *)
AccessBegins ==
    /\ owner = "idle"
    /\ owner' = "access" /\ held' = {"ioMap"}
    /\ UNCHANGED <<life, sockets, pass, drv, woken, masters, errors>>

AccessEnds ==
    /\ owner = "access"
    /\ owner' = "idle" /\ held' = {}
    /\ UNCHANGED <<life, sockets, pass, drv, woken, masters, errors>>

(* exitReg in the signal handler, on top of whatever the thread was doing. *)
Signal ==
    /\ owner \in {"idle", "start", "access"}
    /\ owner' = "closing"
    /\ UNCHANGED <<life, sockets, pass, drv, woken, held, masters, errors>>

ExitCloses ==
    /\ owner = "closing"
    /\ \/ CloseDriver
       \/ /\ drvState = "UnInit"
          /\ UNCHANGED <<life, sockets, pass, drv, woken, masters, errors>>
    /\ owner' = "deleting"
    /\ UNCHANGED held

(* Mutant: as in the destructors of the other drivers, without the mutex.  *)
DeleteUnlocked ==
    /\ owner = "deleting"
    /\ drvEnd' = TRUE
    /\ Notify
    /\ owner' = "joining"
    /\ UNCHANGED <<drvState, ctx, sockets, pass, drv, held, masters, errors>>

Delete ==
    /\ owner = "deleting" /\ ~DrvLockHeld
    /\ drvEnd' = TRUE
    /\ Notify
    /\ owner' = "joining"
    /\ UNCHANGED <<drvState, ctx, sockets, pass, drv, held, masters, errors>>

Join ==
    /\ owner = "joining" /\ drv = "ended"
    /\ CloseSockets
    /\ ctx' = FALSE /\ comErrors' = 0 /\ calls' = 0
    /\ owner' = "exited"
    /\ UNCHANGED <<drvState, drvEnd, pass, drv, woken, held>>

-----------------------------------------------------------------------------
(* The masters                                                             *)

Dial ==
    /\ server # NoSock /\ waiting < MaxWaiting
    /\ waiting' = waiting + 1
    /\ UNCHANGED <<life, sockets, pass, drv, woken, thread, asking, gone, errors>>

Ask(s) ==
    /\ s \in Clients \ (asking \cup gone)
    /\ asking' = asking \cup {s}
    /\ UNCHANGED <<life, sockets, pass, drv, woken, thread, waiting, gone, errors>>

Hang(s) ==
    /\ s \in Clients \ gone
    /\ gone' = gone \cup {s}
    /\ UNCHANGED <<life, sockets, pass, drv, woken, thread, waiting, asking, errors>>

-----------------------------------------------------------------------------
Driver ==
    \/ TestEnd \/ CheckIdle \/ Wait \/ RunningListens \/ Select
    \/ ErrorCloses \/ ErrorListens \/ SleepEnds \/ PassEnds
    \/ \E s \in Fd : Accept(s) \/ Receive(s)
    \/ Reply

Calls == InitDriver \/ StartLocks \/ Stop \/ Close \/ AccessBegins \/ Signal
Owner == Start \/ AccessEnds \/ ExitCloses \/ Delete \/ Join
Masters == Dial \/ \E s \in Fd : Ask(s) \/ Hang(s)

Next == Driver \/ Calls \/ Owner \/ Masters

Spec == Init /\ [][Next]_vars

-----------------------------------------------------------------------------
(* Safety                                                                  *)

(* The books the driver keeps of its sockets are right at every step: the  *)
(* set select watches is what is open, the count of connections that       *)
(* limits accept is their number, and miFdmax bounds both loops.           *)
Books ==
    /\ refset = open
    /\ server # NoSock => server \in refset /\ connections = Cardinality(Clients)
    /\ server = NoSock => refset = {}
    /\ \A s \in refset : s <= fdmax

(* A driver that is stopped or closed has nothing open, and one that is    *)
(* closed has given its Modbus context and mapping back.                   *)
Quiet ==
    /\ Idle => open = {}
    /\ owner # "exited" => (ctx <=> drvState # "UnInit")

(* The pass runs on a server that listens and a context that exists; what  *)
(* it still has to look at is open, and so is the connection it answers,   *)
(* whatever the owner does in between.                                     *)
PassIsOpen ==
    drv \in {"serve", "reply"} =>
        /\ ctx /\ drvState = "Running" /\ server # NoSock
        /\ readset \subseteq open
        /\ drv = "reply" => sock \in Clients

(* An outage is reported to the alarm manager, and only once, before the   *)
(* driver sleeps over it: uiComErrors = 0 is what tells the first failure. *)
ReportedOnce ==
    /\ calls <= 1
    /\ drv = "sleep" /\ drvState = "COMError" /\ server = NoSock => calls = 1

-----------------------------------------------------------------------------
(* The abstract server                                                     *)

(* The alarm manager sees of the server what Outages says: an outage is    *)
(* reported at most once, and not at all if it has ended before.           *)
Outage == INSTANCE Outages WITH
            state    <- IF Idle THEN "off" ELSE drvState,
            reported <- calls > 0
OutageSpec == Outage!Spec

-----------------------------------------------------------------------------
(* Liveness                                                                *)

(* The signal struck where the thread held mtDrvStateMutex itself, or held *)
(* mtIOMapMutex while the driver waits for it with mtDrvStateMutex held.   *)
LockedOut ==
    /\ owner \in {"closing", "deleting"}
    /\ \/ "drvState" \in held
       \/ "ioMap" \in held /\ drv = "reply"

(* Both threads go on while they can.  The owner gets mtDrvStateMutex when *)
(* it is free again and again: the driver leaves it at the end of each     *)
(* iteration.                                                              *)
Fairness ==
    /\ WF_vars(Driver)
    /\ WF_vars(Start) /\ WF_vars(AccessEnds) /\ WF_vars(Join)
    /\ SF_vars(ExitCloses) /\ SF_vars(Delete)
    /\ SF_vars(DrvTakesLock /\ Driver) /\ SF_vars(Reply)

FairSpec == Spec /\ Fairness

(* exitReg ends: the destructor's join always finds the thread at its end. *)
ShutdownEnds == (owner = "closing") ~> (owner = "exited" \/ LockedOut)

(* A request is read, or its connection closed, whatever other masters do. *)
RequestIsRead ==
    \A s \in Fd : (s \in asking) ~> (s \notin asking \/ LockedOut)
=============================================================================
