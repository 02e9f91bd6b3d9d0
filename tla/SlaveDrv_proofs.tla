--------------------------- MODULE SlaveDrv_proofs --------------------------
(***************************************************************************)
(* Proofs about module SlaveDrv, for any set of descriptors and any limit  *)
(* of masters, tries and errors.                                           *)
(***************************************************************************)
EXTENDS SlaveDrv, FiniteSetTheorems, TLAPS

(* The strengthening: which thread is where, what a pass has before it,    *)
(* and what the error count says of the callback.                          *)
Passing ==
    /\ "drvState" \in held => drv \notin {"checked", "serve", "reply"}
    /\ owner = "start" => "drvState" \in held /\ drvState # "UnInit"
    /\ owner = "exited" => drv = "ended"
    /\ asking \cup gone \subseteq Clients
    /\ drv \in {"serve", "reply"} /\ server \in readset => waiting > 0
    /\ drv = "reply" => sock \notin readset
    /\ calls = 0 <=> comErrors = 0

IInv == TypeOK /\ Books /\ Quiet /\ PassIsOpen /\ ReportedOnce /\ Passing

USE FdAssumption, MaxAssumption

-----------------------------------------------------------------------------
(* Operations on the sockets                                               *)

(* One connection more, or one less, in the count and in the set.          *)
LEMMA CountFacts ==
    ASSUME NEW S \in SUBSET Fd, NEW x \in Fd
    PROVE  /\ IsFiniteSet(S) /\ Cardinality(S) \in Nat
           /\ Cardinality({}) = 0
           /\ x \notin S => Cardinality(S \cup {x}) = Cardinality(S) + 1
           /\ x \in S => Cardinality(S \ {x}) = Cardinality(S) - 1 /\ Cardinality(S) > 0
<1>1. IsFiniteSet(S) /\ Cardinality(S) \in Nat
  BY FS_Subset, FS_CardinalityType
<1>2. x \notin S => Cardinality(S \cup {x}) = Cardinality(S) + 1
  BY <1>1, FS_AddElement
<1>3. x \in S => Cardinality(S \ {x}) = Cardinality(S) - 1 /\ Cardinality(S) > 0
  BY <1>1, FS_RemoveElement, FS_EmptySet, FS_CardinalityType
<1>4. QED
  BY <1>1, <1>2, <1>3, FS_EmptySet

(* closeSockets leaves nothing open.                                       *)
LEMMA ClosesAll ==
    ASSUME TypeOK, Books, Passing, CloseSockets
    PROVE  /\ server' = NoSock /\ open' = {} /\ refset' = {} /\ asking' = {} /\ gone' = {}
           /\ connections' \in 0..MaxMasters /\ fdmax' \in Int /\ waiting' \in 0..MaxWaiting
<1>1. CASE server = NoSock
  BY <1>1 DEF CloseSockets, Books, Passing, TypeOK, Clients, sockets, masters, NoSock
<1>2. CASE server # NoSock
  <2>1. \A s \in open : s \in {t \in refset : t <= fdmax}
    BY DEF Books
  <2>2. open' = {}
    BY <1>2, <2>1 DEF CloseSockets
  <2>3. QED
    BY <1>2, <2>2 DEF CloseSockets, TypeOK
<1>3. QED
  BY <1>1, <1>2

(* After closeSockets the books are empty.                                 *)
LEMMA AfterClose ==
    ASSUME IInv, CloseSockets
    PROVE  /\ Books' /\ Clients' = {}
           /\ server' = NoSock /\ open' = {} /\ refset' = {} /\ asking' = {} /\ gone' = {}
           /\ connections' \in 0..MaxMasters /\ fdmax' \in Int /\ waiting' \in 0..MaxWaiting
<1>1. /\ server' = NoSock /\ open' = {} /\ refset' = {} /\ asking' = {} /\ gone' = {}
      /\ connections' \in 0..MaxMasters /\ fdmax' \in Int /\ waiting' \in 0..MaxWaiting
  BY ClosesAll DEF IInv
<1>2. QED
  BY <1>1 DEF Books, Clients

(* createServerSocket starts from nothing and opens one descriptor.        *)
LEMMA ListenBooks ==
    ASSUME TypeOK, Books, Passing, server = NoSock, Listen, UNCHANGED masters
    PROVE  /\ Books' /\ asking' = {} /\ gone' = {}
           /\ server' \in Fd /\ refset' \subseteq Fd /\ open' \subseteq Fd
           /\ fdmax' \in Int /\ connections' \in 0..MaxMasters
           /\ calls' = 0 /\ comErrors' = 0
<1>1. PICK s \in Fd : server' = s /\ refset' = {s} /\ fdmax' = s /\ open' = open \cup {s}
                      /\ connections' = 0
  BY DEF Listen
<1>2. open = {} /\ asking = {} /\ gone = {}
  BY DEF Books, Passing, Clients
<1>3. refset' \ {server'} = {}
  BY <1>1
<1>4. QED
  BY <1>1, <1>2, <1>3, FS_EmptySet DEF Books, Clients, Listen, masters, NoSock

(* Dropping a connection keeps the books.                                  *)
LEMMA DropBooks ==
    ASSUME TypeOK, Books, Passing, NEW s \in Clients, Drop(s), server # NoSock
    PROVE  /\ Books' /\ (asking \cup gone \subseteq Clients)'
           /\ connections' \in 0..MaxMasters /\ fdmax' \in Int
           /\ Clients' = Clients \ {s}
           /\ open' = open \ {s} /\ refset' = refset \ {s}
           /\ asking' = asking \ {s} /\ gone' = gone \ {s}
<1>1. s \in Fd /\ Clients \in SUBSET Fd
  BY DEF Clients, TypeOK
<1>2. Clients' = Clients \ {s}
  BY DEF Drop, Clients
<1>3. Cardinality(Clients') = Cardinality(Clients) - 1 /\ Cardinality(Clients) > 0
      /\ Cardinality(Clients) \in Nat
  BY <1>1, <1>2, CountFacts
<1>4. connections' = Cardinality(Clients') /\ connections' \in 0..MaxMasters
  BY <1>3 DEF Drop, Books, TypeOK
<1>5. \A t \in refset' : t <= fdmax'
  <2>1. SUFFICES ASSUME NEW t \in refset \ {s} PROVE t <= fdmax'
    BY DEF Drop
  <2>2. t \in Nat /\ s \in Nat /\ fdmax \in Int /\ t <= fdmax /\ t # s
    BY <1>1 DEF TypeOK, Books
  <2>3. QED
    BY <2>2 DEF Drop
<1>6. fdmax' \in Int
  BY DEF Drop, TypeOK
<1>7. server' \in refset'
  BY DEF Drop, Books, Clients
<1>8. QED
  BY <1>2, <1>4, <1>5, <1>6, <1>7 DEF Drop, Books, Passing

(* Accepting a master keeps the books.                                     *)
LEMMA AcceptBooks ==
    ASSUME TypeOK, Books, Passing, server # NoSock, NEW n \in Fd \ open,
           connections < MaxMasters,
           open' = open \cup {n}, refset' = refset \cup {n}, server' = server,
           connections' = connections + 1, fdmax' = IF n > fdmax THEN n ELSE fdmax
    PROVE  /\ Books' /\ Clients' = Clients \cup {n}
           /\ connections' \in 0..MaxMasters /\ fdmax' \in Int
           /\ open' \subseteq Fd /\ refset' \subseteq Fd
<1>1. n \notin Clients /\ n # server /\ Clients \in SUBSET Fd
  BY DEF Clients, Books, TypeOK
<1>2. Clients' = Clients \cup {n}
  BY <1>1 DEF Clients
<1>3. Cardinality(Clients') = Cardinality(Clients) + 1
  BY <1>1, <1>2, CountFacts
<1>4. \A t \in refset' : t <= fdmax'
  <2>1. SUFFICES ASSUME NEW t \in refset \cup {n} PROVE t <= fdmax'
    OBVIOUS
  <2>2. t \in Nat /\ n \in Nat /\ fdmax \in Int /\ (t = n \/ t <= fdmax)
    BY DEF TypeOK, Books
  <2>3. QED
    BY <2>2
<1>5. fdmax' \in Int /\ connections' \in 0..MaxMasters
  BY DEF TypeOK
<1>6. QED
  BY <1>2, <1>3, <1>4, <1>5 DEF Books, TypeOK

-----------------------------------------------------------------------------
(* Steps                                                                   *)

(* The sockets and the masters stay as they are: so do the books.          *)
LEMMA BooksFrame ==
    ASSUME Books, UNCHANGED sockets
    PROVE  Books' /\ Clients' = Clients
  BY DEF Books, Clients, sockets

(* Nothing of what Quiet speaks of changes.                                *)
LEMMA QuietFrame ==
    ASSUME Quiet, UNCHANGED <<open, drvState, ctx>>,
           owner' # "exited" => owner # "exited"
    PROVE  Quiet'
  BY DEF Quiet, Idle

(* The masters connect, ask and hang up.                                   *)
LEMMA MastersStep ==
    ASSUME IInv, Masters
    PROVE  IInv'
<1>1. Books' /\ Clients' = Clients
  BY BooksFrame DEF IInv, Masters, Dial, Ask, Hang
<1>2. CASE Dial
  BY <1>1, <1>2
     DEF IInv, TypeOK, Quiet, PassIsOpen, ReportedOnce, Passing, Dial, Idle,
         life, sockets, pass, thread, errors
<1>3. ASSUME NEW s \in Fd, Ask(s) \/ Hang(s) PROVE IInv'
  <2>1. /\ UNCHANGED <<life, sockets, pass, drv, woken, thread, waiting, errors>>
        /\ s \in Clients
        /\ \/ asking' = asking \cup {s} /\ gone' = gone
           \/ asking' = asking /\ gone' = gone \cup {s}
    BY <1>3 DEF Ask, Hang
  <2>2. Quiet'
    BY <2>1, QuietFrame DEF IInv, life, sockets, thread
  <2>3. TypeOK'
    BY <2>1 DEF IInv, TypeOK, life, sockets, pass, thread, errors
  <2>4. PassIsOpen' /\ ReportedOnce'
    BY <1>1, <2>1 DEF IInv, PassIsOpen, ReportedOnce, life, sockets, pass, errors
  <2>5. Passing'
    BY <1>1, <2>1 DEF IInv, Passing, life, sockets, pass, thread, errors
  <2>6. QED
    BY <1>1, <2>2, <2>3, <2>4, <2>5 DEF IInv
<1>4. QED
  BY <1>2, <1>3 DEF Masters

(* The driver thread outside its passes.                                   *)
LEMMA DriverIdles ==
    ASSUME IInv, TestEnd \/ CheckIdle \/ Wait \/ SleepEnds \/ PassEnds
    PROVE  IInv'
<1>1. Books' /\ Clients' = Clients
  BY BooksFrame DEF IInv, TestEnd, CheckIdle, Wait, SleepEnds, PassEnds
<1>2. CASE TestEnd
  BY <1>1, <1>2
     DEF IInv, TypeOK, Quiet, PassIsOpen, ReportedOnce, Passing, Idle, DrvPoints, TestEnd,
         life, sockets, pass, thread, masters, errors
<1>3. CASE CheckIdle
  BY <1>1, <1>3
     DEF IInv, TypeOK, Quiet, PassIsOpen, ReportedOnce, Passing, Idle, DrvPoints, CheckIdle,
         DrvTakesLock, DrvLockHeld, life, sockets, pass, thread, masters, errors
<1>4. CASE Wait
  BY <1>1, <1>4
     DEF IInv, TypeOK, Quiet, PassIsOpen, ReportedOnce, Passing, Idle, DrvPoints, Wait,
         life, sockets, pass, thread, masters, errors
<1>5. CASE SleepEnds
  BY <1>1, <1>5
     DEF IInv, TypeOK, Quiet, PassIsOpen, ReportedOnce, Passing, Idle, DrvPoints, SleepEnds,
         life, sockets, pass, thread, masters, errors
<1>6. CASE PassEnds
  BY <1>1, <1>6
     DEF IInv, TypeOK, Quiet, PassIsOpen, ReportedOnce, Passing, Idle, DrvPoints, PassEnds,
         life, sockets, thread, masters, errors
<1>7. QED
  BY <1>2, <1>3, <1>4, <1>5, <1>6

(* The driver thread listens, in order or after an error, and selects.     *)
LEMMA DriverListens ==
    ASSUME IInv, RunningListens \/ ErrorListens \/ Select \/ ErrorCloses
    PROVE  IInv'
<1>1. CASE RunningListens
  <2>1. CASE Listen
    BY <1>1, <2>1, ListenBooks
       DEF IInv, TypeOK, Quiet, PassIsOpen, ReportedOnce, Passing, Idle, DrvPoints,
           RunningListens, DrvTakesLock, pass, thread, masters
  <2>2. CASE ~Listen
    <3>1. Books' /\ Clients' = Clients
      BY <1>1, <2>2, BooksFrame DEF IInv, RunningListens
    <3>2. QED
      BY <1>1, <2>2, <3>1
         DEF IInv, TypeOK, Quiet, PassIsOpen, ReportedOnce, Passing, Idle, DrvPoints,
             RunningListens, DrvTakesLock, sockets, pass, thread, masters, errors
  <2>3. QED
    BY <2>1, <2>2
<1>2. CASE ErrorListens
  <2>1. CASE Listen
    <3>1. drv' = "test" /\ drvState' = "Running"
      <4>1. server' # server
        BY <1>2, <2>1 DEF ErrorListens, Listen, NoSock
      <4>2. QED
        BY <1>2, <4>1 DEF ErrorListens, sockets
    <3>2. QED
      BY <1>2, <2>1, <3>1, ListenBooks
         DEF IInv, TypeOK, Quiet, PassIsOpen, ReportedOnce, Passing, Idle, DrvPoints,
             ErrorListens, DrvTakesLock, pass, thread, masters
  <2>2. CASE ~Listen
    <3>1. Books' /\ Clients' = Clients
      BY <1>2, <2>2, BooksFrame DEF IInv, ErrorListens
    <3>2. comErrors' \in 1..MaxErrors /\ calls' = 1
      BY <1>2, <2>2 DEF IInv, TypeOK, ReportedOnce, Passing, ErrorListens, CountError
    <3>3. drv' = "sleep" /\ UNCHANGED <<sockets, life, pass, woken, thread, masters>>
      <4>1. ~(drvState' = "Running" /\ drv' = "test") \/ drv' = "sleep"
        BY <1>2, <2>2 DEF ErrorListens
      <4>2. QED
        BY <1>2, <2>2, <4>1 DEF ErrorListens, life
    <3>4. Quiet'
      BY <3>3, QuietFrame DEF IInv, life, sockets, thread
    <3>5. TypeOK'
      BY <3>2, <3>3 DEF IInv, TypeOK, DrvPoints, life, sockets, pass, thread, masters
    <3>6. PassIsOpen' /\ ReportedOnce'
      BY <3>2, <3>3 DEF PassIsOpen, ReportedOnce
    <3>7. Passing'
      BY <1>2, <3>1, <3>2, <3>3
         DEF IInv, Passing, ErrorListens, DrvTakesLock, life, sockets, pass, thread, masters
    <3>8. QED
      BY <3>1, <3>4, <3>5, <3>6, <3>7 DEF IInv
  <2>3. QED
    BY <2>1, <2>2
<1>3. CASE Select
  <2>1. Books' /\ Clients' = Clients
    BY <1>3, BooksFrame DEF IInv, Select
  <2>2. Readable \subseteq open
    BY <1>3 DEF IInv, Select, Readable, Books, Passing, Clients
  <2>3. server \in Readable => waiting > 0
    BY DEF Readable, IInv, Passing, Clients
  <2>4. open \subseteq Fd /\ drv = "lock" /\ "drvState" \notin held
    BY <1>3 DEF IInv, TypeOK, Select, DrvTakesLock, DrvLockHeld
  <2>5. CASE /\ readset' = Readable
             /\ drv' = IF Readable = {} THEN "test" ELSE "serve"
             /\ drvState' = drvState
    <3>1. UNCHANGED <<drvState, ctx, drvEnd, sockets, sock, trys, woken, thread, masters, errors>>
      BY <1>3, <2>5 DEF Select
    <3>2. Quiet'
      <4>1. UNCHANGED <<open, drvState, ctx, owner>>
        BY <3>1 DEF sockets, thread
      <4>2. QED
        BY <4>1, QuietFrame DEF IInv
    <3>3. ctx /\ drvState = "Running" /\ server # NoSock
      BY <1>3, <2>4 DEF IInv, Quiet, Passing, Select
    <3>4. drv' \in {"test", "serve"} /\ readset' \subseteq open
      BY <2>2, <2>5
    <3>5. PassIsOpen'
      <4>1. ctx' /\ drvState' = "Running" /\ server' # NoSock /\ open' = open
        BY <3>1, <3>3 DEF sockets
      <4>2. QED
        BY <3>4, <4>1 DEF PassIsOpen
    <3>6. TypeOK'
      BY <2>4, <3>1, <3>4 DEF IInv, TypeOK, DrvPoints, sockets, thread, masters, errors
    <3>7. ReportedOnce'
      BY <3>1, <3>4 DEF IInv, ReportedOnce, errors
    <3>8. Passing'
      BY <2>1, <2>3, <2>4, <2>5, <3>1, <3>4
         DEF IInv, Passing, sockets, thread, masters, errors
    <3>9. QED
      BY <2>1, <3>2, <3>5, <3>6, <3>7, <3>8 DEF IInv
  <2>6. CASE drvState' = "COMError" /\ drv' = "test" /\ readset' = readset
    <3>1. UNCHANGED <<ctx, drvEnd, sockets, pass, woken, thread, masters, errors>>
      BY <1>3, <2>6 DEF Select, pass
    <3>2. TypeOK'
      BY <2>6, <3>1 DEF IInv, TypeOK, DrvPoints, sockets, pass, thread, masters, errors
    <3>3. Quiet'
      BY <1>3, <2>6, <3>1 DEF IInv, Quiet, Idle, Select, sockets, thread
    <3>4. PassIsOpen' /\ ReportedOnce'
      BY <2>6, <3>1 DEF IInv, PassIsOpen, ReportedOnce, errors
    <3>5. Passing'
      BY <2>1, <2>4, <2>6, <3>1 DEF IInv, Passing, sockets, pass, thread, masters, errors
    <3>6. QED
      BY <2>1, <3>2, <3>3, <3>4, <3>5 DEF IInv
  <2>7. \/ readset' = Readable /\ drv' = (IF Readable = {} THEN "test" ELSE "serve")
           /\ drvState' = drvState
        \/ drvState' = "COMError" /\ drv' = "test" /\ readset' = readset
    BY <1>3 DEF Select
  <2>8. QED
    BY <2>5, <2>6, <2>7
<1>4. CASE ErrorCloses
  <2>1. Books' /\ Clients' = {}
    BY <1>4, ClosesAll DEF IInv, ErrorCloses, Books, Clients, NoSock
  <2>2. QED
    BY <1>4, <2>1, ClosesAll
       DEF IInv, TypeOK, Quiet, PassIsOpen, ReportedOnce, Passing, Idle, DrvPoints,
           ErrorCloses, DrvTakesLock, life, pass, thread, errors, NoSock
<1>5. QED
  BY <1>1, <1>2, <1>3, <1>4

(* The driver thread in a pass.                                            *)
LEMMA DriverPasses ==
    ASSUME IInv, (\E s \in Fd : Accept(s) \/ Receive(s)) \/ Reply
    PROVE  IInv'
<1>1. ASSUME NEW s \in Fd, Accept(s) PROVE IInv'
  <2>1. /\ drv = "serve" /\ s = server /\ s \in readset /\ readset' = readset \ {s}
        /\ server # NoSock /\ waiting > 0 /\ "drvState" \notin held
    BY <1>1 DEF Accept, Looks, IInv, PassIsOpen, Passing
  <2>2. CASE UNCHANGED <<open, refset, connections, fdmax, waiting>>
    <3>1. Books' /\ Clients' = Clients
      BY <1>1, <2>2, BooksFrame DEF IInv, Accept, sockets
    <3>2. QED
      BY <1>1, <2>1, <2>2, <3>1
         DEF IInv, TypeOK, Quiet, PassIsOpen, ReportedOnce, Passing, Idle,
             Accept, life, thread, errors
  <2>3. CASE ~UNCHANGED <<open, refset, connections, fdmax, waiting>>
    <3>1. PICK n \in Fd \ open :
              /\ connections < MaxMasters
              /\ open' = open \cup {n} /\ refset' = refset \cup {n}
              /\ connections' = connections + 1
              /\ fdmax' = IF n > fdmax THEN n ELSE fdmax
              /\ waiting' = waiting - 1 /\ server' = server
      BY <1>1, <2>3 DEF Accept
    <3>2. /\ Books' /\ Clients' = Clients \cup {n}
          /\ connections' \in 0..MaxMasters /\ fdmax' \in Int
          /\ open' \subseteq Fd /\ refset' \subseteq Fd
      BY <2>1, <3>1, AcceptBooks DEF IInv
    <3>3. QED
      BY <1>1, <2>1, <3>1, <3>2
         DEF IInv, TypeOK, Quiet, PassIsOpen, ReportedOnce, Passing, Idle,
             Accept, life, thread, errors
  <2>4. QED
    BY <2>2, <2>3
<1>2. ASSUME NEW s \in Fd, Receive(s) PROVE IInv'
  <2>1. /\ drv = "serve" /\ s # server /\ s \in readset /\ readset' = readset \ {s}
        /\ server # NoSock /\ s \in Clients /\ "drvState" \notin held
    BY <1>2 DEF Receive, Looks, IInv, PassIsOpen, Passing, Books, Clients
  <2>2. CASE Drop(s)
    <3>1. /\ Books' /\ (asking \cup gone \subseteq Clients)'
          /\ connections' \in 0..MaxMasters /\ fdmax' \in Int
          /\ Clients' = Clients \ {s}
          /\ open' = open \ {s} /\ refset' = refset \ {s}
          /\ asking' = asking \ {s} /\ gone' = gone \ {s}
      BY <2>1, <2>2, DropBooks DEF IInv
    <3>2. UNCHANGED <<drv, sock, trys, server, waiting>>
      BY <1>2, <2>2, <2>1 DEF Receive, Drop, sockets, IInv, Books, Clients
    <3>3. QED
      BY <1>2, <2>1, <3>1, <3>2
         DEF IInv, TypeOK, Quiet, PassIsOpen, ReportedOnce, Passing, Idle,
             Receive, life, thread, errors
  <2>3. CASE ~Drop(s)
    <3>1. Books' /\ Clients' = Clients
      BY <1>2, <2>3, BooksFrame DEF IInv, Receive
    <3>2. /\ asking' = asking \ {s} /\ sock' = s /\ trys' = 0 /\ drv' = "reply"
          /\ UNCHANGED <<sockets, waiting, gone, life, woken, thread, errors>>
      BY <1>2, <2>3 DEF Receive
    <3>3. TypeOK'
      BY <2>1, <3>2 DEF IInv, TypeOK, DrvPoints, life, sockets, thread, errors
    <3>4. QED
      BY <2>1, <3>1, <3>2, <3>3
         DEF IInv, Quiet, PassIsOpen, ReportedOnce, Passing, Idle, life, sockets, thread, errors
  <2>4. QED
    BY <2>2, <2>3
<1>3. CASE Reply
  <2>1. /\ drv = "reply" /\ server # NoSock /\ sock \in Clients /\ sock \notin readset
        /\ "drvState" \notin held /\ readset' = readset
    BY <1>3 DEF Reply, IInv, PassIsOpen, Passing
  <2>2. CASE UNCHANGED <<sockets, masters>>
    <3>1. Books' /\ Clients' = Clients
      BY <2>2, BooksFrame DEF IInv
    <3>2. QED
      BY <1>3, <2>1, <2>2, <3>1
         DEF IInv, TypeOK, Quiet, PassIsOpen, ReportedOnce, Passing, Idle, DrvPoints,
             Reply, life, sockets, masters, thread, errors
  <2>3. CASE ~UNCHANGED <<sockets, masters>>
    <3>1. Drop(sock) /\ drv' = "serve" /\ sock' = NoSock /\ trys' = 0
      BY <1>3, <2>3 DEF Reply
    <3>2. /\ Books' /\ (asking \cup gone \subseteq Clients)'
          /\ connections' \in 0..MaxMasters /\ fdmax' \in Int
          /\ open' = open \ {sock} /\ refset' = refset \ {sock}
          /\ asking' = asking \ {sock} /\ gone' = gone \ {sock}
      <4>1. PICK c \in Clients : c = sock
        BY <2>1
      <4>2. QED
        BY <2>1, <3>1, <4>1, DropBooks DEF IInv
    <3>3. QED
      BY <1>3, <2>1, <3>1, <3>2
         DEF IInv, TypeOK, Quiet, PassIsOpen, ReportedOnce, Passing, Idle, DrvPoints,
             Reply, Drop, life, thread, errors
  <2>4. QED
    BY <2>2, <2>3
<1>4. QED
  BY <1>1, <1>2, <1>3

(* The owner thread.                                                       *)
LEMMA OwnerStep ==
    ASSUME IInv, Calls \/ Owner
    PROVE  IInv'
<1>2. CASE InitDriver
  <2>1. Books' /\ Clients' = Clients
    BY <1>2, BooksFrame DEF IInv, InitDriver
  <2>2. QED
    BY <1>2, <2>1
       DEF IInv, TypeOK, Quiet, PassIsOpen, ReportedOnce, Passing, Idle, InitDriver,
           DrvLockHeld, Notify, sockets, pass, thread, masters
<1>3. CASE StartLocks \/ AccessBegins \/ AccessEnds \/ Signal
  <2>1. Books' /\ Clients' = Clients
    BY <1>3, BooksFrame DEF IInv, StartLocks, AccessBegins, AccessEnds, Signal
  <2>2. Quiet'
    BY <1>3, QuietFrame DEF IInv, StartLocks, AccessBegins, AccessEnds, Signal, life, sockets
  <2>3. /\ UNCHANGED <<life, sockets, pass, drv, woken, masters, errors>>
        /\ owner \in {"idle", "start", "access"}
        /\ \/ /\ owner' = "start" /\ held' = {"drvState"} /\ drvState # "UnInit"
              /\ drv \notin {"checked", "serve", "reply"}
           \/ owner' = "access" /\ held' = {"ioMap"}
           \/ owner' = "idle" /\ held' = {}
           \/ owner' = "closing" /\ held' = held
    BY <1>3 DEF StartLocks, AccessBegins, AccessEnds, Signal, DrvLockHeld
  <2>4. TypeOK'
    BY <2>3 DEF IInv, TypeOK, OwnerPoints, life, sockets, pass, masters, errors
  <2>5. PassIsOpen' /\ ReportedOnce'
    BY <2>1, <2>3 DEF IInv, PassIsOpen, ReportedOnce, life, sockets, pass, errors
  <2>6. Passing'
    BY <2>1, <2>3 DEF IInv, Passing, life, sockets, pass, masters, errors
  <2>7. QED
    BY <2>1, <2>2, <2>4, <2>5, <2>6 DEF IInv
<1>4. CASE Start
  <2>1. Books' /\ Clients' = Clients
    BY <1>4, BooksFrame DEF IInv, Start
  <2>2. /\ drv \notin {"checked", "serve", "reply"} /\ drvState # "UnInit"
        /\ drvState' = "Running" /\ owner = "start" /\ owner' = "idle" /\ held' = {}
        /\ UNCHANGED <<ctx, drvEnd, sockets, pass, drv, masters, errors>>
    BY <1>4 DEF IInv, Start, Passing
  <2>3. Quiet'
    BY <2>2 DEF IInv, Quiet, Idle
  <2>4. TypeOK'
    BY <1>4 DEF IInv, TypeOK, OwnerPoints, Start, Notify, sockets, pass, masters, errors
  <2>5. PassIsOpen' /\ ReportedOnce'
    BY <2>2 DEF IInv, PassIsOpen, ReportedOnce, errors
  <2>6. Passing'
    BY <2>1, <2>2 DEF IInv, Passing, sockets, pass, masters, errors
  <2>7. QED
    BY <2>1, <2>3, <2>4, <2>5, <2>6 DEF IInv
<1>5. ASSUME CloseSockets, UNCHANGED <<pass, drv>>, drv \notin {"checked", "serve", "reply"},
             \/ drvState' = "Stopped" /\ ctx' = ctx /\ drvState # "UnInit"
             \/ drvState' = "UnInit" /\ ctx' = FALSE
             \/ drvState' = drvState /\ ctx' = FALSE /\ owner' = "exited",
             comErrors' = 0, calls' = 0, drvEnd' \in BOOLEAN, woken' \in BOOLEAN,
             owner' \in OwnerPoints \ {"start"}, held' \subseteq held,
             owner # "exited", owner' = "exited" => drv = "ended"
      PROVE  IInv'
  <2>1. /\ Books' /\ Clients' = {}
        /\ server' = NoSock /\ open' = {} /\ refset' = {} /\ asking' = {} /\ gone' = {}
        /\ connections' \in 0..MaxMasters /\ fdmax' \in Int /\ waiting' \in 0..MaxWaiting
    BY <1>5, AfterClose
  <2>2. drvState' \in {"UnInit", "Stopped", "Running", "COMError"} /\ ctx' \in BOOLEAN
    BY <1>5 DEF IInv, TypeOK
  <2>3. TypeOK'
    BY <1>5, <2>1, <2>2 DEF IInv, TypeOK, pass
  <2>4. Quiet'
    BY <1>5, <2>1 DEF IInv, Quiet
  <2>5. PassIsOpen' /\ ReportedOnce'
    BY <1>5, <2>1 DEF PassIsOpen, ReportedOnce
  <2>6. Passing'
    BY <1>5, <2>1 DEF IInv, Passing
  <2>7. QED
    BY <2>1, <2>3, <2>4, <2>5, <2>6 DEF IInv
<1>6. CASE Stop \/ Close
  <2>1. /\ owner = "idle" /\ UNCHANGED <<owner, held, drvEnd, woken, pass, drv>> /\ CloseSockets
        /\ comErrors' = 0 /\ calls' = 0 /\ drv \notin {"checked", "serve", "reply"}
    BY <1>6 DEF Stop, Close, CloseDriver, DrvLockHeld, thread
  <2>2. \/ drvState' = "Stopped" /\ ctx' = ctx /\ drvState # "UnInit"
        \/ drvState' = "UnInit" /\ ctx' = FALSE
    BY <1>6 DEF Stop, Close, CloseDriver
  <2>3. drvEnd' \in BOOLEAN /\ woken' \in BOOLEAN
    BY <2>1 DEF IInv, TypeOK
  <2>4. QED
    BY <1>5, <2>1, <2>2, <2>3 DEF OwnerPoints
<1>7. CASE ExitCloses
  <2>1. CASE CloseDriver
    BY <1>5, <1>7, <2>1
       DEF ExitCloses, CloseDriver, DrvLockHeld, IInv, TypeOK, OwnerPoints
  <2>2. CASE ~CloseDriver
    <3>1. UNCHANGED <<life, sockets, pass, drv, woken, masters, errors, held>> /\ owner' = "deleting"
          /\ owner = "closing"
      BY <1>7, <2>2 DEF ExitCloses
    <3>2. Books' /\ Clients' = Clients
      BY <3>1, BooksFrame DEF IInv
    <3>3. Quiet'
      BY <3>1, QuietFrame DEF IInv, life, sockets
    <3>4. QED
      BY <3>1, <3>2, <3>3
         DEF IInv, TypeOK, PassIsOpen, ReportedOnce, Passing, OwnerPoints,
             life, sockets, pass, masters, errors
  <2>3. QED
    BY <2>1, <2>2
<1>8. CASE Delete
  <2>1. Books' /\ Clients' = Clients
    BY <1>8, BooksFrame DEF IInv, Delete
  <2>2. Quiet'
    BY <1>8, QuietFrame DEF IInv, Delete, sockets
  <2>3. TypeOK'
    BY <1>8 DEF IInv, TypeOK, OwnerPoints, Delete, Notify, sockets, pass, masters, errors
  <2>4. QED
    BY <1>8, <2>1, <2>2, <2>3
       DEF IInv, PassIsOpen, ReportedOnce, Passing, Delete, sockets, pass, masters, errors
<1>9. CASE Join
  BY <1>5, <1>9 DEF Join, IInv, TypeOK, OwnerPoints
<1>10. QED
  BY <1>2, <1>3, <1>4, <1>6, <1>7, <1>8, <1>9 DEF Calls, Owner

-----------------------------------------------------------------------------
(* The theorems of the specification                                       *)

(* The invariant holds from the constructor on.                            *)
THEOREM ServerInvariant == Spec => []IInv
<1>1. Init => IInv
  <2>1. SUFFICES ASSUME Init PROVE IInv
    OBVIOUS
  <2>2. TypeOK
    <3>1. /\ connections \in 0..MaxMasters /\ comErrors \in 0..MaxErrors
          /\ trys \in 0..MaxTrys /\ waiting \in 0..MaxWaiting /\ calls \in Nat /\ fdmax \in Int
      BY <2>1 DEF Init
    <3>2. /\ ctx \in BOOLEAN /\ drvEnd \in BOOLEAN /\ woken \in BOOLEAN
      BY <2>1 DEF Init
    <3>3. QED
      BY <2>1, <3>1, <3>2 DEF Init, TypeOK, DrvPoints, OwnerPoints
  <2>3. Books
    BY <2>1 DEF Init, Books
  <2>4. Quiet /\ PassIsOpen /\ ReportedOnce
    BY <2>1 DEF Init, Quiet, PassIsOpen, ReportedOnce
  <2>5. Passing
    BY <2>1 DEF Init, Passing
  <2>6. QED
    BY <2>2, <2>3, <2>4, <2>5 DEF IInv
<1>2. IInv /\ [Next]_vars => IInv'
  <2>1. SUFFICES ASSUME IInv, UNCHANGED vars PROVE IInv'
    BY MastersStep, DriverIdles, DriverListens, DriverPasses, OwnerStep DEF Next, Driver
  <2>2. Books' /\ Clients' = Clients
    BY <2>1, BooksFrame DEF IInv, vars
  <2>3. QED
    BY <2>1, <2>2
       DEF IInv, TypeOK, Quiet, PassIsOpen, ReportedOnce, Passing, Idle, vars,
           life, sockets, pass, thread, masters, errors
<1>3. QED
  BY <1>1, <1>2, PTL DEF Spec

(* The books of the server are right at every step, so no connection is    *)
(* lost by select, none leaks, and accept keeps to the limit of masters.   *)
THEOREM BooksInvariant == Spec => []Books
  BY ServerInvariant, PTL DEF IInv

(* Whatever the owner does, a pass never uses a socket, a context or a     *)
(* mapping that has been closed.                                           *)
THEOREM PassIsOpenInvariant == Spec => []PassIsOpen
  BY ServerInvariant, PTL DEF IInv

(* A stopped driver has nothing open, and a closed one no context.         *)
THEOREM QuietInvariant == Spec => []Quiet
  BY ServerInvariant, PTL DEF IInv

(* Each outage is reported once, before the driver sleeps over it.         *)
THEOREM ReportedOnceInvariant == Spec => []ReportedOnce
  BY ServerInvariant, PTL DEF IInv

(* Every state of the server is well typed, for any descriptors and any    *)
(* limit: never more than MaxMasters connections are counted, and never    *)
(* more tries made of an answer than MaxTrys.                              *)
THEOREM TypeInvariant == Spec => []TypeOK
  BY ServerInvariant, PTL DEF IInv

-----------------------------------------------------------------------------
(* The abstract server                                                     *)

(* What a report has been made of is an outage that still lasts; start     *)
(* finds the server stopped, and the destructor finds it closed.           *)
Outing ==
    /\ drvState # "COMError" => calls = 0
    /\ owner = "start" => drvState = "Stopped"
    /\ owner \in {"deleting", "joining", "exited"} => drvState = "UnInit"

OutageNext == [Outage!Next]_(Outage!service)

(* The moves of the abstract server, in terms of drvState and calls.       *)
LEMMA OutageMoves ==
    ASSUME TypeOK
    PROVE  /\ drvState' = drvState /\ calls' = calls => OutageNext
           /\ drvState' \in {"UnInit", "Stopped"} /\ calls' = 0 => OutageNext
           /\ drvState = "Stopped" /\ drvState' = "Running" /\ calls' = calls => OutageNext
           /\ drvState = "Running" /\ drvState' = "COMError" /\ calls' = calls => OutageNext
           /\ /\ drvState = "COMError" /\ drvState' = "COMError"
              /\ calls = 0 /\ calls' = calls + 1
              => OutageNext
           /\ drvState = "COMError" /\ drvState' = "Running" /\ calls' = 0 => OutageNext
<1> USE DEF OutageNext
<1>1. calls \in Nat /\ ~(0 > 0) /\ 0 + 1 > 0
  BY DEF TypeOK
<1>2. ASSUME drvState' = drvState, calls' = calls PROVE OutageNext
  BY <1>2 DEF Outage!service, Idle
<1>3. ASSUME drvState' \in {"UnInit", "Stopped"}, calls' = 0 PROVE OutageNext
  <2>1. Outage!Stop
    BY <1>1, <1>3 DEF Outage!Stop, Idle
  <2> QED BY <2>1 DEF Outage!Next
<1>4. ASSUME drvState = "Stopped", drvState' = "Running", calls' = calls PROVE OutageNext
  <2>1. Outage!Start
    BY <1>4 DEF Outage!Start, Idle
  <2> QED BY <2>1 DEF Outage!Next
<1>5. ASSUME drvState = "Running", drvState' = "COMError", calls' = calls PROVE OutageNext
  <2>1. Outage!Fail
    BY <1>5 DEF Outage!Fail, Idle
  <2> QED BY <2>1 DEF Outage!Next
<1>6. ASSUME drvState = "COMError", drvState' = "COMError", calls = 0, calls' = calls + 1
      PROVE  OutageNext
  <2>1. Outage!Report
    BY <1>1, <1>6 DEF Outage!Report, Idle
  <2> QED BY <2>1 DEF Outage!Next
<1>7. ASSUME drvState = "COMError", drvState' = "Running", calls' = 0 PROVE OutageNext
  <2>1. Outage!Recover
    BY <1>1, <1>7 DEF Outage!Recover, Idle
  <2> QED BY <2>1 DEF Outage!Next
<1> QED BY <1>2, <1>3, <1>4, <1>5, <1>6, <1>7

LEMMA DriverOutage ==
    ASSUME IInv, Outing, Driver
    PROVE  Outing' /\ OutageNext
<1>0. TypeOK /\ calls \in Nat /\ comErrors \in Nat /\ (calls = 0 <=> comErrors = 0)
  BY DEF IInv, TypeOK, Passing
<1>1. ASSUME UNCHANGED <<drvState, calls, owner>> PROVE Outing' /\ OutageNext
  BY <1>0, <1>1, OutageMoves DEF Outing
<1>2. CASE RunningListens
  <2>1. drvState = "Running" /\ owner' = owner /\ calls = 0
    BY <1>2 DEF RunningListens, Outing, thread
  <2>2. \/ drvState' = drvState /\ calls' = 0
        \/ drvState' = "COMError" /\ calls' = calls
    BY <1>2 DEF RunningListens, Listen, errors
  <2> QED BY <1>0, <2>1, <2>2, OutageMoves DEF Outing
<1>3. CASE Select
  <2>1. drvState = "Running" /\ owner' = owner /\ calls' = calls
    BY <1>3 DEF Select, thread, errors
  <2>2. drvState' = drvState \/ drvState' = "COMError"
    BY <1>3 DEF Select
  <2> QED BY <1>0, <2>1, <2>2, OutageMoves DEF Outing
<1>4. CASE ErrorListens
  <2>1. drvState = "COMError" /\ owner' = owner
    BY <1>4 DEF ErrorListens, thread
  <2>2. CASE Listen /\ drvState' = "Running"
    <3>1. calls' = 0
      BY <2>2 DEF Listen
    <3> QED BY <1>0, <2>1, <2>2, <3>1, OutageMoves DEF Outing
  <2>3. CASE CountError /\ drvState' = drvState
    <3>1. calls' = IF calls = 0 THEN calls + 1 ELSE calls
      BY <1>0, <2>3 DEF CountError
    <3> QED BY <1>0, <2>1, <2>3, <3>1, OutageMoves DEF Outing
  <2> QED BY <1>4, <2>2, <2>3 DEF ErrorListens
<1>5. CASE TestEnd \/ CheckIdle \/ Wait \/ ErrorCloses \/ SleepEnds \/ PassEnds
  BY <1>1, <1>5 DEF TestEnd, CheckIdle, Wait, ErrorCloses, SleepEnds, PassEnds, life, thread, errors
<1>6. CASE Reply \/ \E s \in Fd : Accept(s) \/ Receive(s)
  BY <1>1, <1>6 DEF Reply, Accept, Receive, life, thread, errors
<1> QED BY <1>2, <1>3, <1>4, <1>5, <1>6 DEF Driver

LEMMA OwnerOutage ==
    ASSUME IInv, Outing, Calls \/ Owner
    PROVE  Outing' /\ OutageNext
<1>0. TypeOK
  BY DEF IInv
<1>1. CASE StartLocks
  <2>1. drvState = "Stopped" /\ owner' = "start" /\ UNCHANGED <<drvState, calls>>
    BY <1>1 DEF StartLocks, life, errors
  <2> QED BY <1>0, <2>1, OutageMoves DEF Outing
<1>2. CASE AccessBegins \/ AccessEnds \/ Signal
  <2>1. owner' \in {"access", "idle", "closing"} /\ UNCHANGED <<drvState, calls>>
    BY <1>2 DEF AccessBegins, AccessEnds, Signal, life, errors
  <2> QED BY <1>0, <2>1, OutageMoves DEF Outing
<1>3. CASE Start
  <2>1. drvState = "Stopped" /\ drvState' = "Running" /\ calls' = calls /\ owner' = "idle"
    BY <1>3 DEF Start, Outing, errors
  <2> QED BY <1>0, <2>1, OutageMoves DEF Outing
<1>4. CASE InitDriver \/ Stop \/ Close
  <2>1. owner = "idle" /\ owner' = owner /\ drvState' \in {"UnInit", "Stopped"} /\ calls' = 0
    BY <1>4 DEF InitDriver, Stop, Close, CloseDriver, thread
  <2> QED BY <1>0, <2>1, OutageMoves DEF Outing
<1>5. CASE ExitCloses
  <2>1. owner' = "deleting" /\ (calls' = 0 \/ calls' = calls) /\ drvState' = "UnInit"
    BY <1>5 DEF ExitCloses, CloseDriver, life, errors
  <2>2. calls' = 0
    BY <1>5, <2>1 DEF ExitCloses, CloseDriver, Outing, errors
  <2> QED BY <1>0, <2>1, <2>2, OutageMoves DEF Outing
<1>6. CASE Delete \/ Join
  <2>1. owner' \in {"joining", "exited"} /\ drvState = "UnInit" /\ drvState' = "UnInit"
    BY <1>6 DEF Delete, Join, Outing
  <2>2. calls' = 0
    BY <1>6, <2>1 DEF Delete, Join, Outing, errors
  <2> QED BY <1>0, <2>1, <2>2, OutageMoves DEF Outing
<1> QED BY <1>1, <1>2, <1>3, <1>4, <1>5, <1>6 DEF Calls, Owner

(* ModbusSlaveDrv, with its thread, its owner and the masters, is a server *)
(* as its error callback has to know it: it reports an outage at most once *)
(* (uiComErrors), and only while it lasts.                                 *)
THEOREM ImplementsOutages == Spec => OutageSpec
<1>1. Init => Outing /\ Outage!Init
  BY DEF Init, Outing, Outage!Init, Idle
<1>2. IInv /\ Outing /\ [Next]_vars => Outing' /\ OutageNext
  <2> SUFFICES ASSUME IInv, Outing, [Next]_vars PROVE Outing' /\ OutageNext
    OBVIOUS
  <2>1. CASE Masters \/ UNCHANGED vars
    <3>1. UNCHANGED <<drvState, calls, owner>>
      BY <2>1 DEF Masters, Dial, Ask, Hang, vars, life, thread, errors
    <3> QED BY <3>1, OutageMoves DEF IInv, Outing
  <2> QED BY <2>1, DriverOutage, OwnerOutage DEF Next
<1>3. OutageNext => [Outage!Next]_(Outage!service)
  BY DEF OutageNext
<1> QED BY <1>1, <1>2, <1>3, ServerInvariant, PTL DEF Spec, OutageSpec, Outage!Spec
=============================================================================
