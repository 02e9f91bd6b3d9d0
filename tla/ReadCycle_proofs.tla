--------------------------- MODULE ReadCycle_proofs --------------------------
(***************************************************************************)
(* Proofs about module ReadCycle, for any number of variables and tries    *)
(* and any values.                                                         *)
(***************************************************************************)
EXTENDS ReadCycle, FiniteSetTheorems, TLAPS

(* The driver thread reads a variable there is, part by part.              *)
Reading ==
    /\ drv # "idle" => it \in Vars
    /\ drv = "read" => got < NumParts(it)

(* A mark that is older than its value is not lost: it is still to be      *)
(* taken, or to be applied, or the variable was looked at too early.       *)
Marked ==
    /\ Unstored(it) => it \in changed \cup taken \cup raced
    /\ gui # "apply" => taken = {}

(* What is marked was read for the first time, at least.                   *)
Counted == changed \cup taken \subseteq Vars \ first

IInv == TypeOK /\ Reading /\ Marked /\ Counted /\ ImageFollows /\ WindowIsComplete

USE NumAssumption, ROIntsAssumption, TrysAssumption, ValAssumption

-----------------------------------------------------------------------------
(* The state in groups                                                     *)

(* Register values, whole and part by part.                                *)
LEMMA DataFacts ==
    /\ Zero \in Data
    /\ \A d \in Data, e \in Data :
          [d EXCEPT !.val = e.val] \in Data /\ [d EXCEPT !.rest = e.rest] \in Data
    /\ \A d \in Data, c \in BOOLEAN : Shown(d, c) \in Image
BY DEF Zero, Data, Shown, Image

(* A step that leaves marks, values and panels alone keeps what relates    *)
(* them.                                                                   *)
LEMMA SafetyFrame ==
    ASSUME IInv, UNCHANGED <<data, first, changed, gui, taken, panels>>,
           Unstored(it)' => Unstored(it) /\ it' = it
    PROVE  Marked' /\ Counted' /\ ImageFollows' /\ WindowIsComplete'
BY DEF IInv, Marked, Counted, ImageFollows, WindowIsComplete, panels

-----------------------------------------------------------------------------
(* The driver thread                                                       *)

(* Connecting, failing and starting a pass touch neither marks nor values. *)
LEMMA LinkStep ==
    ASSUME IInv, Connect \/ WriteFails \/ DropConnection \/ Reconnect \/ PassEnds
    PROVE  IInv'
<1>1. /\ UNCHANGED <<reg, table, changed, reading, gui, taken, panels>>
      /\ drv = "idle"
  BY DEF Connect, WriteFails, DropConnection, Reconnect, PassEnds, DrvTakesLock
<1>2. TypeOK'
  <2>1. drvState' \in {"Running", "Stopped", "COMError"}
    BY DEF Connect, WriteFails, DropConnection, Reconnect, PassEnds, IInv, TypeOK, link
  <2>2. connected' \in BOOLEAN
    BY Zenon DEF Connect, WriteFails, DropConnection, Reconnect, PassEnds, IInv, TypeOK, link
  <2>3. it' \in 1..(NumVars + 1)
    BY DEF Connect, WriteFails, DropConnection, Reconnect, PassEnds, IInv, TypeOK
  <2>4. QED
    BY <1>1, <2>1, <2>2, <2>3 DEF IInv, TypeOK, table, reading, panels
<1>3. Reading'
  BY <1>1 DEF Reading, reading
<1>4. ~Unstored(it)'
  BY <1>1 DEF Unstored, reading
<1>5. QED
  BY <1>1, <1>2, <1>3, <1>4, SafetyFrame DEF IInv, table

(* The loop of processRead: what is read is kept from the others.          *)
LEMMA ReadStep ==
    ASSUME IInv, BeginRead \/ PartArrives \/ PartMissing
    PROVE  IInv'
<1>1. /\ UNCHANGED <<reg, connected, table, changed, it, gui, taken, panels>>
      /\ drv' # "store"
  BY DEF BeginRead, PartArrives, PartMissing, ReadFails, DrvTakesLock, link
<1>2. /\ drvState' \in {"Running", "Stopped", "COMError"}
      /\ drv' \in {"idle", "read", "mark"} /\ got' \in 0..2 /\ trys' \in 0..MaxTrys
      /\ fresh' \in Data /\ Reading'
  <2>1. CASE BeginRead
    BY <2>1 DEF BeginRead, DrvTakesLock, IInv, TypeOK, Reading, NumParts, IsField, Vars, link
  <2>2. CASE PartMissing
    <3>1. CASE trys = MaxTrys
      BY <2>2, <3>1, DataFacts DEF PartMissing, ReadFails, IInv, TypeOK, Reading
    <3>2. CASE trys # MaxTrys
      <4>1. trys + 1 \in 0..MaxTrys
        BY <3>2 DEF IInv, TypeOK
      <4>2. QED
        BY <2>2, <3>2, <4>1 DEF PartMissing, IInv, TypeOK, Reading, NumParts
    <3>3. QED
      BY <3>1, <3>2
  <2>3. CASE PartArrives
    <3>1. it \in Vars /\ reg[it] \in Data /\ NumParts(it) \in 1..2 /\ got < NumParts(it)
      BY <2>3 DEF PartArrives, IInv, TypeOK, Reading, NumParts
    <3> DEFINE read == IF got = 0 THEN [fresh EXCEPT !.val = reg[it].val]
                                  ELSE [fresh EXCEPT !.rest = reg[it].rest]
    <3>2. read \in Data
      BY <3>1, DataFacts DEF IInv, TypeOK
    <3>3. CASE got + 1 # NumParts(it)
      <4>1. /\ got' = got + 1 /\ fresh' = read
            /\ UNCHANGED <<drv, trys, drvState, it>> /\ drv = "read"
        BY <2>3, <3>3 DEF PartArrives
      <4>2. got + 1 \in 0..2 /\ got + 1 < NumParts(it)
        BY <3>1, <3>3 DEF IInv, TypeOK
      <4>3. NumParts(it)' = NumParts(it)
        BY <4>1 DEF NumParts, IsField
      <4>4. QED
        BY <3>1, <3>2, <4>1, <4>2, <4>3 DEF IInv, TypeOK, Reading
    <3>4. CASE got + 1 = NumParts(it) /\ ~(IsField(it) /\ trys = MaxTrys)
      <4>1. /\ drv' = "mark" /\ got' = 0 /\ trys' = 0 /\ fresh' = read
            /\ UNCHANGED <<drvState, it>>
        BY <2>3, <3>4 DEF PartArrives
      <4>2. QED
        BY <3>1, <3>2, <4>1 DEF IInv, TypeOK, Reading
    <3>5. CASE got + 1 = NumParts(it) /\ IsField(it) /\ trys = MaxTrys
      <4>1. ReadFails /\ it' = it
        BY <2>3, <3>5 DEF PartArrives
      <4>2. QED
        BY <4>1, DataFacts DEF ReadFails, Reading, TypeOK, IInv
    <3>6. QED
      BY <3>3, <3>4, <3>5
  <2>4. QED
    BY <2>1, <2>2, <2>3
<1>3. TypeOK'
  BY <1>1, <1>2 DEF IInv, TypeOK, table, panels
<1>4. ~Unstored(it)'
  BY <1>1 DEF Unstored
<1>5. QED
  BY <1>1, <1>2, <1>3, <1>4, SafetyFrame DEF IInv, table

(* A value that differs is marked before it is stored.                     *)
LEMMA MarkStep ==
    ASSUME IInv, Mark
    PROVE  IInv'
<1>1. /\ UNCHANGED <<reg, link, data, stored, it, got, trys, fresh, gui, taken, panels>>
      /\ drv = "mark" /\ drv' = "store" /\ it \in Vars
      /\ changed' \subseteq changed \cup {it} /\ changed \subseteq changed'
      /\ first' \subseteq first
      /\ it \in changed' \/ fresh = data[it]
      /\ changed' \subseteq Vars \ first'
  BY DEF Mark, IInv, Reading, Counted, TypeOK
<1>2. TypeOK'
  BY <1>1 DEF IInv, TypeOK, link, panels
<1>3. Reading'
  BY <1>1 DEF Reading
<1>4. Marked'
  BY <1>1 DEF IInv, Marked, Unstored
<1>5. Counted'
  BY <1>1 DEF IInv, Counted
<1>6. ImageFollows'
  BY <1>1 DEF IInv, ImageFollows, panels
<1>7. WindowIsComplete'
  BY <1>1 DEF IInv, WindowIsComplete, panels
<1>8. QED
  BY <1>2, <1>3, <1>4, <1>5, <1>6, <1>7 DEF IInv

(* A value that is stored was marked, unless it is the old one.            *)
LEMMA StoreStep ==
    ASSUME IInv, Store
    PROVE  IInv'
<1>1. /\ UNCHANGED <<reg, link, first, changed, got, trys, gui, taken, panels>>
      /\ drv = "store" /\ drv' = "idle" /\ it \in Vars
      /\ data' = [data EXCEPT ![it] = fresh] /\ it' = it + 1
      /\ stored' = stored \cup {it} /\ fresh' = Zero
  BY DEF Store, IInv, Reading
<1>2. TypeOK'
  <2>1. it' \in 1..(NumVars + 1) /\ data' \in [Vars -> Data] /\ fresh' \in Data
    BY <1>1, DataFacts DEF IInv, TypeOK, Vars
  <2>2. QED
    BY <1>1, <2>1 DEF IInv, TypeOK, link, panels
<1>3. Reading'
  BY <1>1 DEF Reading
<1>4. Marked'
  BY <1>1 DEF IInv, Marked, Unstored
<1>5. Counted' /\ WindowIsComplete'
  BY <1>1 DEF IInv, Counted, WindowIsComplete, panels
<1>6. ImageFollows'
  <2>1. SUFFICES ASSUME NEW v \in Vars
                 PROVE  \/ image[v] = Shown(data'[v], FALSE)
                        \/ v \in changed \cup taken
                        \/ v \in raced
    BY <1>1 DEF ImageFollows, panels
  <2>2. CASE v = it /\ fresh # data[it]
    BY <1>1, <2>2 DEF IInv, Marked, Unstored
  <2>3. CASE v # it \/ fresh = data[it]
    <3>1. data'[v] = data[v]
      BY <1>1, <2>3 DEF IInv, TypeOK
    <3>2. QED
      BY <3>1 DEF IInv, ImageFollows
  <2>4. QED
    BY <2>2, <2>3
<1>7. QED
  BY <1>2, <1>3, <1>4, <1>5, <1>6 DEF IInv

-----------------------------------------------------------------------------
(* The GUI thread                                                          *)

(* The signal comes with the last variable, and all of them were read.     *)
LEMMA Counts ==
    ASSUME IInv, NEW v \in taken, NewVarUpdated(v), UNCHANGED first
    PROVE  WindowIsComplete' /\ updated' \subseteq Vars /\ shown' \in BOOLEAN
<1>1. v \in Vars \ first
  BY DEF IInv, Counted
<1>2. CASE shown
  BY <1>2 DEF NewVarUpdated, IInv, WindowIsComplete, TypeOK
<1>3. CASE ~shown
  <2>1. /\ updated' \subseteq Vars \ first /\ updated' \subseteq Vars
        /\ shown' \in BOOLEAN
        /\ shown' => Cardinality(updated') = NumVars
    BY <1>1, <1>3 DEF NewVarUpdated, IInv, WindowIsComplete
  <2>2. IsFiniteSet(Vars) /\ Cardinality(Vars) = NumVars
    BY FS_Interval DEF Vars
  <2>3. shown' => updated' = Vars
    BY <2>1, <2>2, FS_Subset
  <2>4. first \subseteq Vars
    BY DEF IInv, TypeOK
  <2>5. QED
    BY <2>1, <2>3, <2>4 DEF WindowIsComplete
<1>4. QED
  BY <1>2, <1>3

(* A panel that is told the driver's value now needs no mark any more.     *)
LEMMA ApplyStep ==
    ASSUME IInv, NEW v \in Vars, ApplyChange(v)
    PROVE  IInv'
<1> DEFINE com == drvState = "COMError" /\ v \notin ROInts
<1>1. /\ UNCHANGED <<reg, link, table, changed, it, reading>>
      /\ v \in taken /\ taken' = taken \ {v} /\ gui = "apply"
      /\ gui' = IF taken = {v} THEN "idle" ELSE "apply"
      /\ image' = [image EXCEPT ![v] = Shown(data[v], com)]
      /\ raced' = IF com \/ Unstored(v) THEN raced \cup {v} ELSE raced \ {v}
      /\ NewVarUpdated(v)
  BY DEF ApplyChange
<1>2. WindowIsComplete' /\ updated' \subseteq Vars /\ shown' \in BOOLEAN
  BY <1>1, Counts DEF table
<1>3. TypeOK'
  <2>1. data[v] \in Data /\ com \in BOOLEAN
    BY DEF IInv, TypeOK
  <2>2. image' \in [Vars -> Image]
    <3> HIDE DEF com
    <3>1. Shown(data[v], com) \in Image
      BY <2>1, DataFacts
    <3>2. QED
      BY <1>1, <3>1 DEF IInv, TypeOK
  <2>3. raced' \subseteq Vars /\ taken' \subseteq Vars /\ gui' \in {"idle", "take", "apply"}
    BY <1>1 DEF IInv, TypeOK
  <2>4. QED
    BY <1>1, <1>2, <2>2, <2>3 DEF IInv, TypeOK, link, table, reading
<1>4. Reading'
  BY <1>1 DEF IInv, Reading, reading, NumParts, IsField
<1>5. Marked'
  <2>1. Unstored(it)' = Unstored(it)
    BY <1>1 DEF Unstored, table, reading
  <2>2. Unstored(it) => it \in changed' \cup taken' \cup raced'
    BY <1>1 DEF IInv, Marked, table
  <2>3. QED
    BY <1>1, <2>1, <2>2 DEF Marked
<1>6. Counted'
  BY <1>1 DEF IInv, Counted, table
<1>7. ImageFollows'
  <2>1. SUFFICES ASSUME NEW w \in Vars
                 PROVE  \/ image'[w] = Shown(data[w], FALSE)
                        \/ w \in changed \cup taken'
                        \/ w \in raced'
    BY <1>1 DEF ImageFollows, table
  <2>2. CASE w # v
    <3>1. image'[w] = image[w]
      BY <1>1, <2>2 DEF IInv, TypeOK
    <3>2. QED
      BY <1>1, <2>2, <3>1 DEF IInv, ImageFollows
  <2>3. CASE w = v /\ com
    BY <1>1, <2>3
  <2>4. CASE w = v /\ ~com
    BY <1>1, <2>4 DEF IInv, TypeOK
  <2>5. QED
    BY <2>2, <2>3, <2>4
<1>8. QED
  BY <1>2, <1>3, <1>4, <1>5, <1>6, <1>7 DEF IInv

(* Marks that are taken are not lost.                                      *)
LEMMA TakeStep ==
    ASSUME IInv, TakeChanges
    PROVE  IInv'
<1>1. /\ UNCHANGED <<reg, link, table, it, reading, panels>>
      /\ taken = {} /\ taken' = changed /\ changed' = {}
      /\ gui' = IF changed = {} THEN "idle" ELSE "apply"
  BY DEF TakeChanges, IInv, Marked
<1>2. TypeOK'
  BY <1>1 DEF IInv, TypeOK, link, table, reading, panels
<1>3. Reading'
  BY <1>1 DEF IInv, Reading, reading, NumParts, IsField
<1>4. Marked'
  BY <1>1 DEF IInv, Marked, Unstored, table, reading, panels
<1>5. Counted' /\ ImageFollows' /\ WindowIsComplete'
  BY <1>1 DEF IInv, Counted, ImageFollows, WindowIsComplete, table, panels
<1>6. QED
  BY <1>2, <1>3, <1>4, <1>5 DEF IInv

(* What is left touches neither marks nor values.                          *)
LEMMA OtherStep ==
    ASSUME IInv, Start \/ Stop \/ UpdateImage \/ \E v \in Vars : Change(v)
    PROVE  IInv'
<1>1. /\ UNCHANGED <<table, changed, it, reading, taken, panels>>
      /\ (gui' # "apply" /\ taken' = {}) \/ gui' = gui
  BY DEF Start, Stop, UpdateImage, Change, IInv, Marked, link
<1>2. TypeOK'
  <2>1. /\ reg' \in [Vars -> Data] /\ connected' \in BOOLEAN
        /\ drvState' \in {"Running", "Stopped", "COMError"}
        /\ gui' \in {"idle", "take", "apply"}
    BY DEF Start, Stop, UpdateImage, Change, IInv, TypeOK, link
  <2>2. QED
    BY <1>1, <2>1 DEF IInv, TypeOK, table, reading, panels
<1>3. Reading'
  BY <1>1 DEF IInv, Reading, reading, NumParts, IsField
<1>4. Marked'
  BY <1>1 DEF IInv, Marked, Unstored, table, reading, panels
<1>5. Counted' /\ ImageFollows' /\ WindowIsComplete'
  BY <1>1 DEF IInv, Counted, ImageFollows, WindowIsComplete, table, panels
<1>6. QED
  BY <1>2, <1>3, <1>4, <1>5 DEF IInv

-----------------------------------------------------------------------------
(* The theorems of the specification                                       *)

(* The invariant holds from init on, whatever the registers hold.          *)
THEOREM ReadInvariant == Spec => []IInv
<1>1. Init => IInv
  <2>1. SUFFICES ASSUME Init PROVE IInv
    OBVIOUS
  <2>2. TypeOK
    <3>1. /\ data \in [Vars -> Data] /\ fresh \in Data
          /\ image \in [Vars -> Image]
      BY <2>1, DataFacts DEF Init
    <3>2. connected \in BOOLEAN /\ shown \in BOOLEAN
      BY <2>1 DEF Init
    <3>3. it \in 1..(NumVars + 1) /\ trys \in 0..MaxTrys
      BY <2>1 DEF Init
    <3>4. /\ reg \in [Vars -> Data] /\ drvState = "Stopped" /\ first = Vars
          /\ stored = {} /\ changed = {} /\ drv = "idle" /\ got = 0
          /\ gui = "idle" /\ taken = {} /\ updated = {} /\ raced = {}
      BY <2>1 DEF Init
    <3>5. QED
      BY <3>1, <3>2, <3>3, <3>4 DEF TypeOK
  <2>3. Reading /\ Marked /\ Counted /\ WindowIsComplete
    BY <2>1 DEF Init, Reading, Marked, Unstored, Counted, WindowIsComplete
  <2>4. ImageFollows
    BY <2>1 DEF Init, ImageFollows
  <2>5. QED
    BY <2>2, <2>3, <2>4 DEF IInv
<1>2. IInv /\ [Next]_vars => IInv'
  <2>1. SUFFICES ASSUME IInv, UNCHANGED vars PROVE IInv'
    BY LinkStep, ReadStep, MarkStep, StoreStep, ApplyStep, TakeStep, OtherStep
       DEF Next, Driver, Gui, Applies
  <2>2. TypeOK' /\ Reading'
    BY <2>1 DEF IInv, TypeOK, Reading, NumParts, IsField, vars, link, table, reading, panels
  <2>3. QED
    BY <2>1, <2>2, SafetyFrame DEF IInv, Unstored, vars, table, reading
<1>3. QED
  BY <1>1, <1>2, PTL DEF Spec

(* No change of the driver's table is lost on its way to the panels: one   *)
(* of a variable they do not show is marked, but for a look too early.     *)
THEOREM ImageFollowsInvariant == Spec => []ImageFollows
  BY ReadInvariant, PTL DEF IInv

(* The main window appears only when every variable has been answered.     *)
THEOREM WindowIsCompleteInvariant == Spec => []WindowIsComplete
  BY ReadInvariant, PTL DEF IInv

(* Every state of the read cycle is well typed: the parts in hand stay     *)
(* within the parts of a cycle, and what the panels show are values, for   *)
(* any numbers of variables and parts.                                     *)
THEOREM TypeInvariant == Spec => []TypeOK
  BY ReadInvariant, PTL DEF IInv
=============================================================================
