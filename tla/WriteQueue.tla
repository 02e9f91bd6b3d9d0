------------------------------ MODULE WriteQueue ------------------------------
(***************************************************************************)
(* A set point and its confirmation on their way from the control panel to *)
(* the registers of the regulator (ControlWdg::on_cmdSendSP, RegImage,     *)
(* ModbusMasterDrv).  CommandPath takes pending requests in any order;     *)
(* here mPendingWrites is the heap that std::priority_queue keeps, with a  *)
(* comparison by which all requests are equal, and requests expire by age. *)
(*                                                                         *)
(* The panel sends the set point and presses SPOK, two requests; other     *)
(* panels send up to five at once (on_cmdSendPID).  The driver thread      *)
(* writes the top of the heap.  When a connection breaks, a request may    *)
(* have been applied and stays pending, or be applied later.  The HMI may  *)
(* end at any moment and be started again.                                 *)
(***************************************************************************)
EXTENDS Naturals, Sequences, FiniteSets

CONSTANTS
    MaxSent,     \* bound: set points the operator sends
    MaxMade,     \* bound: requests, those of other panels and repetitions included
    MaxLate,     \* bound: requests applied after their connection has ended
    MaxRestarts  \* bound: ends of the HMI

ASSUME BoundsAssumption == {MaxSent, MaxMade, MaxLate, MaxRestarts} \subseteq Nat

VARIABLES
    heap,        \* mPendingWrites, as the vector it is kept in
    made,        \* requests made so far: each has its number
    expired,     \* the requests up to this number have timed out (mTimeS)
    panel,       \* on_cmdSendSP is at its second call
    sent,        \* set points sent, numbered from 1
    button,      \* the table SPOK is in: "press", "clean" or none
    owed,        \* it is in mqUncompletedButtonWrites
    late,        \* requests that wait on a connection that has ended
    regSP,       \* register of the set point
    regOK,       \* register of SPOK
    \* history
    restarts,    \* ends of the HMI
    confirms,    \* the set point that the press applied last goes with
    crowded,     \* four requests or more were pending, and some still are
    upset,       \* for this press: it happened, a set point expired or one came late
    orphan       \* the press applied last has nobody who takes it back

queue    == <<heap, made, expired>>
tables   == <<button, owed>>
operator == <<panel, sent>>
regs     == <<regSP, regOK, confirms, orphan>>
vars     == <<queue, tables, operator, late, regs, restarts, crowded, upset>>

Init ==
    /\ heap = << >> /\ made = 0 /\ expired = 0
    /\ panel = FALSE /\ sent = 0
    /\ button = "none" /\ owed = FALSE
    /\ late = {} /\ regSP = 0 /\ regOK = 0
    /\ restarts = 0 /\ confirms = 0
    /\ crowded = FALSE /\ upset = FALSE /\ orphan = FALSE

-----------------------------------------------------------------------------
(* The heap                                                                *)

(* push: an element equal to its parent stays at the end.                  *)
Push(what, sp) ==
    /\ made < MaxMade
    /\ heap' = Append(heap, [no |-> made + 1, what |-> what, sp |-> sp])
    /\ made' = made + 1 /\ UNCHANGED expired

Top == heap[1]

(* Mutant: the hole stops at the first node.                               *)
PopByLast ==
    [i \in 1..(Len(heap) - 1) |-> IF i = 1 THEN heap[Len(heap)] ELSE heap[i]]

(* The places the hole visits: it sinks from the root to the right child,  *)
(* as long as there are two children.                                      *)
Path(n) ==
    {p \in 0..n : \A S \in SUBSET (0..n) :
        0 \in S /\ (\A q \in S : 2 * q + 2 < n => 2 * q + 2 \in S) => p \in S}

(* pop: the hole the top leaves sinks along its path, and then to the left *)
(* child where there is no right one; the last element fills it.           *)
Popped ==
    LET n    == Len(heap) - 1
        path == Path(n)
        last == CHOOSE p \in path : 2 * p + 2 >= n
        left == 2 * last + 2 = n
        hole == IF left THEN 2 * last + 1 ELSE last
        Filled(p) ==
            CASE p = hole                 -> heap[n + 1]
              [] p = last /\ left         -> heap[hole + 1]
              [] p \in path \ {last, hole} -> heap[2 * p + 3]
              [] OTHER                    -> heap[p + 1]
    IN  [i \in 1..n |-> Filled(i - 1)]

Pop == heap' = Popped /\ UNCHANGED <<made, expired>>

-----------------------------------------------------------------------------
(* The operator                                                            *)

(* Mutant: the confirmation goes first.                                    *)
SendConfirmFirst ==
    /\ ~panel /\ sent < MaxSent
    /\ IF button = "none" THEN Push("press", sent + 1) /\ button' = "press"
                          ELSE UNCHANGED <<queue, button>>
    /\ sent' = sent + 1 /\ panel' = TRUE
    /\ UNCHANGED <<owed, late, regs, restarts>>

SendSP ==
    /\ ~panel /\ sent < MaxSent
    /\ Push("sp", sent + 1)
    /\ sent' = sent + 1 /\ panel' = TRUE
    /\ UNCHANGED <<tables, late, regs, restarts>>

(* writeVarAsButton refuses a button in one of its tables; nobody looks.   *)
Confirm ==
    /\ panel /\ panel' = FALSE
    /\ IF button = "none" THEN Push("press", sent) /\ button' = "press"
                          ELSE UNCHANGED <<queue, button>>
    /\ UNCHANGED <<sent, owed, late, regs, restarts>>

Other ==
    /\ Push("other", 0)
    /\ UNCHANGED <<operator, tables, late, regs, restarts>>

(* processUncompletedWrites                                                *)
Release ==
    /\ owed /\ owed' = FALSE
    /\ Push("release", 0)
    /\ UNCHANGED <<button, operator, late, regs, restarts>>

-----------------------------------------------------------------------------
(* The driver thread and the regulator                                     *)

(* A request takes effect; mine says that its press will be taken back.    *)
Apply(r, mine) ==
    /\ regSP' = IF r.what = "sp" THEN r.sp ELSE regSP
    /\ regOK' = CASE r.what = "press" -> 1 [] r.what = "release" -> 0 [] OTHER -> regOK
    /\ confirms' = IF r.what = "press" THEN r.sp ELSE confirms
    /\ orphan' = CASE r.what = "press"   -> ~mine
                   [] r.what = "release" -> FALSE
                   [] OTHER              -> orphan

Writable == heap # << >> /\ Top.no > expired

(* Mutant: the first phase that succeeds is forgotten.                     *)
SuccessFrees(what) ==
    /\ button' = IF what \in {"press", "release"} THEN "none" ELSE button
    /\ UNCHANGED owed

(* driverWriteSuccess                                                      *)
Success(what) ==
    CASE what = "press"   -> button' = "clean" /\ owed' = TRUE
      [] what = "release" -> button' = "none" /\ UNCHANGED owed
      [] OTHER            -> UNCHANGED tables

(* driverWriteTimeOut                                                      *)
TimeOut(what) ==
    CASE what = "press"   -> button' = "none" /\ UNCHANGED owed
      [] what = "release" -> owed' = TRUE /\ UNCHANGED button
      [] OTHER            -> UNCHANGED tables

Write ==
    /\ Writable
    /\ Apply(Top, TRUE)
    /\ Pop /\ Success(Top.what)
    /\ UNCHANGED <<operator, late, restarts>>

(* The connection breaks: the request was applied, or still may be.        *)
WriteFails ==
    /\ Writable
    /\ \/ Apply(Top, TRUE) /\ UNCHANGED late
       \/ Cardinality(late) < MaxLate /\ late' = late \cup {Top} /\ UNCHANGED regs
    /\ UNCHANGED <<queue, tables, operator, restarts>>

LateWrite(r) ==
    /\ late' = late \ {r}
    /\ Apply(r, button # "none")
    /\ UNCHANGED <<queue, tables, operator, restarts>>

(* Time passes.                                                            *)
Expire ==
    /\ \E n \in (expired + 1)..made : expired' = n
    /\ UNCHANGED <<heap, made, tables, operator, late, regs, restarts>>

(* cleanWriteRequests, one request.                                        *)
Clean ==
    /\ heap # << >> /\ Top.no <= expired
    /\ Pop /\ TimeOut(Top.what)
    /\ orphan' = (orphan \/ (Top.what = "press" /\ regOK = 1))
    /\ UNCHANGED <<operator, late, regSP, regOK, confirms, restarts>>

(* The HMI ends and is started again: what it owed is forgotten.           *)
Restart ==
    /\ restarts < MaxRestarts /\ restarts' = restarts + 1
    /\ heap' = << >> /\ button' = "none" /\ owed' = FALSE /\ panel' = FALSE
    /\ orphan' = (regOK = 1)
    /\ UNCHANGED <<made, expired, sent, late, regSP, regOK, confirms>>

-----------------------------------------------------------------------------
Quiet == heap' = << >> /\ ~panel' /\ button' = "none" /\ regOK' = 0 /\ late' = {}

(* History of what may upset the order.                                    *)
Witness ==
    /\ crowded' = (heap' # << >> /\ (crowded \/ Len(heap') >= 4))
    /\ upset' = /\ ~Quiet
                /\ \/ upset \/ Len(heap') >= 4
                   \/ Len(heap') < Len(heap) /\ Top.no <= expired /\ Top.what = "sp"
                   \/ \E r \in late \ late' : TRUE

Next ==
    /\ \/ SendSP \/ Confirm \/ Other \/ Release
       \/ Write \/ WriteFails \/ Expire \/ Clean \/ Restart
       \/ \E r \in late : LateWrite(r)
    /\ Witness

Spec == Init /\ [][Next]_vars

-----------------------------------------------------------------------------
(* Safety                                                                  *)

(* Requests leave in the order they came, although no request is less than *)
(* another, as long as no more than three were pending since the queue was *)
(* empty: with four, the pop puts the third before the second.             *)
InOrder ==
    ~crowded => \A i, j \in 1..Len(heap) : i < j => heap[i].no < heap[j].no

(* While SPOK is pressed, the set point in place is the one it was pressed *)
(* for or a later one, so that the regulator never takes an older one into *)
(* force; unless four requests met, the set point expired before its       *)
(* confirmation, or a broken connection delivered one late.                *)
SetPointFirst == regOK = 1 => regSP >= confirms \/ upset

(* Whenever SPOK stays pressed at the regulator, the HMI will release it;  *)
(* unless it has ended meanwhile, or the press timed out and had been      *)
(* applied: what it owes is in memory only, and only after a success.      *)
PressedIsOwed == regOK = 1 => button # "none" \/ orphan
=============================================================================
