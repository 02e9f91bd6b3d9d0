------------------------- MODULE RegisterMap_proofs -------------------------
(***************************************************************************)
(* RegisterMap implements Variables, whatever the numbers of words and     *)
(* variables that fit, the channels asked for and the values.  The cells   *)
(* of two channels, and of two parts of one, have no register in common;   *)
(* what is read from a cell is what was put there.                         *)
(***************************************************************************)
EXTENDS RegisterMap, TLAPS

Words == [c \in WordChannels |-> WordOf(c)]
Vars  == [c \in VarChannels |-> VarOf(c)]

(* The tables have the registers that init asks libmodbus for.             *)
Tables ==
    /\ coil \in [0..(NumIOVars - 1) -> {0, 1}]
    /\ di \in [0..(2 * NumIOVars - 1) -> {0, 1}]
    /\ hr \in [0..(4 * NumIOVars - 1) -> Register]
    /\ ir \in [0..(4 * NumIOVars + 2 * NumROInts - 1) -> Register]

-----------------------------------------------------------------------------
(* Cells                                                                   *)

(* A value put into consecutive registers is read back from them.          *)
LEMMA GetPut ==
    ASSUME NEW t, NEW b \in Int, NEW n \in 1..4, NEW v
    PROVE  GetParts(PutParts(t, b, n, v), b, n) = v
<1> DEFINE p == PutParts(t, b, n, v)
<1>1. \A i \in 1..n : p[b + i - 1] = Part(v, i)
  <2> TAKE i \in 1..n
  <2>1. b + i - 1 \in b..(b + n - 1) /\ (b + i - 1) - b + 1 = i
    OBVIOUS
  <2> QED BY <2>1 DEF PutParts, Stored
<1>2. p[b] = Part(v, 1)
  BY <1>1
<1>3. p[b][1] = v
  BY <1>2 DEF Part
<1> QED BY <1>1, <1>3 DEF GetParts

(* What is put elsewhere is not seen.                                      *)
LEMMA GetOther ==
    ASSUME NEW t, NEW b \in Int, NEW n \in 1..4, NEW v,
           NEW a \in Int, NEW m \in 1..4,
           a..(a + m - 1) \subseteq DOMAIN t,
           a + m - 1 < b \/ b + n - 1 < a
    PROVE  GetParts(PutParts(t, b, n, v), a, m) = GetParts(t, a, m)
<1> DEFINE p == PutParts(t, b, n, v)
<1>1. \A i \in 1..m : p[a + i - 1] = t[a + i - 1]
  <2> TAKE i \in 1..m
  <2>1. a + i - 1 \in a..(a + m - 1) /\ a + i - 1 \notin b..(b + n - 1)
    OBVIOUS
  <2> QED BY <2>1 DEF PutParts, Stored
<1>2. p[a] = t[a]
  BY <1>1
<1> QED BY <1>1, <1>2 DEF GetParts

(* What is written into a table, where the table has registers, is in it.  *)
LEMMA StoredTyped ==
    ASSUME NEW A, NEW R, NEW t \in [A -> R], NEW f, DOMAIN f \subseteq A,
           \A a \in DOMAIN f : f[a] \in R
    PROVE  Stored(t, f) \in [A -> R]
BY DEF Stored

(* Putting a value where a table has registers leaves it with those.       *)
LEMMA PutTyped ==
    ASSUME NEW k \in Int, NEW t \in [0..k -> Register],
           NEW b \in Int, NEW n \in 1..4, NEW v \in Value,
           b..(b + n - 1) \subseteq 0..k
    PROVE  PutParts(t, b, n, v) \in [0..k -> Register]
<1> SUFFICES ASSUME NEW a \in 0..k
             PROVE  (IF a \in b..(b + n - 1) THEN Part(v, a - b + 1) ELSE t[a]) \in Register
  BY DEF PutParts, Stored
<1>1. CASE a \in b..(b + n - 1)
  <2>1. a - b + 1 \in 1..4
    BY <1>1
  <2> QED BY <1>1, <2>1 DEF Register
<1>2. CASE a \notin b..(b + n - 1)
  BY <1>2
<1> QED BY <1>1, <1>2

-----------------------------------------------------------------------------
(* Channels                                                                *)

(* The channels that pass the test in uint8_t are those of the variables:  *)
(* what wraps is too large.                                                *)
LEMMA MappedChannels ==
    ASSUME NEW c \in Channels
    PROVE  /\ Mapped(c) <=> c \in VarChannels
           /\ Mapped(c) => NumVar(c) = c - NumROInts
<1> USE NumsAssumption, FitsAssumption, ChannelsAssumption
<1>1. c \in 0..(Width - 1) /\ Width \in Nat \ {0}
  OBVIOUS
<1>2. CASE c >= NumROInts
  <2>1. NumVar(c) = c - NumROInts
    BY <1>1, <1>2 DEF NumVar
  <2> QED BY <1>1, <2>1 DEF Mapped, VarChannels
<1>3. CASE c < NumROInts
  <2>1. NumVar(c) = c - NumROInts + Width
    BY <1>1, <1>3 DEF NumVar
  <2> QED BY <1>1, <1>3, <2>1 DEF Mapped, VarChannels
<1> QED BY <1>1, <1>2, <1>3

(* Base of the two registers of a channel, j = 0 for its value, 2 for its  *)
(* forced value.                                                           *)
Base(c, j) == 4 * (c - NumROInts) - 4 + j

LEMMA Bases ==
    ASSUME NEW c \in VarChannels, NEW d \in VarChannels, NEW j \in {0, 2}, NEW k \in {0, 2}
    PROVE  /\ Base(c, j) \in Int
           /\ Base(c, j)..(Base(c, j) + 1) \subseteq 0..(4 * NumIOVars - 1)
           /\ (c # d \/ j # k) => Base(c, j) + 1 < Base(d, k) \/ Base(d, k) + 1 < Base(c, j)
BY NumsAssumption DEF Base, VarChannels

(* A value put into the registers of one channel is there, and nowhere else. *)
LEMMA ValuePut ==
    ASSUME Tables, NEW c \in VarChannels, NEW k \in {0, 2}, NEW v \in Value,
           hr' = PutParts(hr, Base(c, k), 2, v)
    PROVE  /\ hr' \in [0..(4 * NumIOVars - 1) -> Register]
           /\ \A d \in VarChannels, j \in {0, 2} :
                 GetParts(hr', Base(d, j), 2) =
                     IF d = c /\ j = k THEN v ELSE GetParts(hr, Base(d, j), 2)
<1>1. DOMAIN hr = 0..(4 * NumIOVars - 1)
  BY DEF Tables
<1>2. hr' \in [0..(4 * NumIOVars - 1) -> Register]
  <2>1. /\ 4 * NumIOVars - 1 \in Int /\ 2 \in 1..4 /\ Base(c, k) \in Int
        /\ Base(c, k)..(Base(c, k) + 2 - 1) \subseteq 0..(4 * NumIOVars - 1)
    BY NumsAssumption, Bases
  <2>2. hr \in [0..(4 * NumIOVars - 1) -> Register]
    BY DEF Tables
  <2>3. PutParts(hr, Base(c, k), 2, v) \in [0..(4 * NumIOVars - 1) -> Register]
    BY <2>1, <2>2, PutTyped
  <2> QED BY <2>3
<1>3. ASSUME NEW d \in VarChannels, NEW j \in {0, 2}
      PROVE  GetParts(hr', Base(d, j), 2) =
                 IF d = c /\ j = k THEN v ELSE GetParts(hr, Base(d, j), 2)
  <2>1. CASE d = c /\ j = k
    <3>1. Base(c, k)..(Base(c, k) + 2 - 1) \subseteq DOMAIN hr /\ Base(c, k) \in Int
      BY <1>1, Bases
    <3>2. GetParts(PutParts(hr, Base(c, k), 2, v), Base(c, k), 2) = v
      BY <3>1, GetPut
    <3> QED BY <2>1, <3>2
  <2>2. CASE d # c \/ j # k
    <3>1. /\ Base(d, j)..(Base(d, j) + 2 - 1) \subseteq DOMAIN hr
          /\ Base(d, j) \in Int /\ Base(c, k) \in Int
      BY <1>1, Bases
    <3>2. Base(d, j) + 2 - 1 < Base(c, k) \/ Base(c, k) + 2 - 1 < Base(d, j)
      BY <2>2, <3>1, Bases
    <3>3. GetParts(PutParts(hr, Base(c, k), 2, v), Base(d, j), 2) = GetParts(hr, Base(d, j), 2)
      BY <3>1, <3>2, GetOther
    <3> QED BY <2>2, <3>3
  <2> QED BY <2>1, <2>2
<1> QED BY <1>2, <1>3

(* Words come first in the input registers, the time stamps after them.    *)
TimeBase(c) == 4 * (c - NumROInts) - 4 + NumROInts * 2
WordBase(c) == (c - 1) * 2

LEMMA InputBases ==
    /\ \A c \in VarChannels :
          /\ TimeBase(c) \in Int
          /\ TimeBase(c)..(TimeBase(c) + 3) \subseteq 0..(4 * NumIOVars + 2 * NumROInts - 1)
    /\ \A w \in WordChannels :
          /\ WordBase(w) \in Int
          /\ WordBase(w)..(WordBase(w) + 1) \subseteq 0..(4 * NumIOVars + 2 * NumROInts - 1)
    /\ \A c, d \in VarChannels :
          c # d => TimeBase(c) + 3 < TimeBase(d) \/ TimeBase(d) + 3 < TimeBase(c)
    /\ \A v, w \in WordChannels :
          v # w => WordBase(v) + 1 < WordBase(w) \/ WordBase(w) + 1 < WordBase(v)
    /\ \A c \in VarChannels, w \in WordChannels : WordBase(w) + 1 < TimeBase(c)
BY NumsAssumption DEF TimeBase, WordBase, VarChannels, WordChannels

(* A time stamp put in place leaves words and other time stamps alone.     *)
LEMMA TimePut ==
    ASSUME Tables, NEW c \in VarChannels, NEW v \in Value,
           ir' = PutParts(ir, TimeBase(c), 4, v)
    PROVE  /\ ir' \in [0..(4 * NumIOVars + 2 * NumROInts - 1) -> Register]
           /\ \A d \in VarChannels :
                 GetParts(ir', TimeBase(d), 4) =
                     IF d = c THEN v ELSE GetParts(ir, TimeBase(d), 4)
           /\ \A w \in WordChannels :
                 GetParts(ir', WordBase(w), 2) = GetParts(ir, WordBase(w), 2)
<1>1. DOMAIN ir = 0..(4 * NumIOVars + 2 * NumROInts - 1)
  BY DEF Tables
<1>2. TimeBase(c) \in Int /\ TimeBase(c)..(TimeBase(c) + 4 - 1) \subseteq DOMAIN ir
  BY <1>1, InputBases
<1>3. ir' \in [0..(4 * NumIOVars + 2 * NumROInts - 1) -> Register]
  <2>1. 4 * NumIOVars + 2 * NumROInts - 1 \in Int /\ 4 \in 1..4
    BY NumsAssumption
  <2>2. ir \in [0..(4 * NumIOVars + 2 * NumROInts - 1) -> Register]
    BY DEF Tables
  <2>3. PutParts(ir, TimeBase(c), 4, v) \in [0..(4 * NumIOVars + 2 * NumROInts - 1) -> Register]
    BY <1>1, <1>2, <2>1, <2>2, PutTyped
  <2> QED BY <2>3
<1>4. ASSUME NEW d \in VarChannels
      PROVE  GetParts(ir', TimeBase(d), 4) = IF d = c THEN v ELSE GetParts(ir, TimeBase(d), 4)
  <2>1. CASE d = c
    BY <1>2, <2>1, GetPut
  <2>2. CASE d # c
    <3>1. TimeBase(d) \in Int /\ TimeBase(d)..(TimeBase(d) + 4 - 1) \subseteq DOMAIN ir
      BY <1>1, InputBases
    <3>2. TimeBase(d) + 4 - 1 < TimeBase(c) \/ TimeBase(c) + 4 - 1 < TimeBase(d)
      BY <1>2, <2>2, <3>1, InputBases
    <3> QED BY <1>2, <2>2, <3>1, <3>2, GetOther
  <2> QED BY <2>1, <2>2
<1>5. ASSUME NEW w \in WordChannels
      PROVE  GetParts(ir', WordBase(w), 2) = GetParts(ir, WordBase(w), 2)
  <2>1. WordBase(w) \in Int /\ WordBase(w)..(WordBase(w) + 2 - 1) \subseteq DOMAIN ir
    BY <1>1, InputBases
  <2>2. WordBase(w) + 2 - 1 < TimeBase(c)
    BY <1>2, <2>1, InputBases
  <2> QED BY <1>2, <2>1, <2>2, GetOther
<1> QED BY <1>3, <1>4, <1>5

(* A word put in place leaves time stamps and other words alone.           *)
LEMMA WordPut ==
    ASSUME Tables, NEW c \in WordChannels, NEW v \in Value,
           ir' = PutParts(ir, WordBase(c), 2, v)
    PROVE  /\ ir' \in [0..(4 * NumIOVars + 2 * NumROInts - 1) -> Register]
           /\ \A d \in VarChannels :
                 GetParts(ir', TimeBase(d), 4) = GetParts(ir, TimeBase(d), 4)
           /\ \A w \in WordChannels :
                 GetParts(ir', WordBase(w), 2) =
                     IF w = c THEN v ELSE GetParts(ir, WordBase(w), 2)
<1>1. DOMAIN ir = 0..(4 * NumIOVars + 2 * NumROInts - 1)
  BY DEF Tables
<1>2. WordBase(c) \in Int /\ WordBase(c)..(WordBase(c) + 2 - 1) \subseteq DOMAIN ir
  BY <1>1, InputBases
<1>3. ir' \in [0..(4 * NumIOVars + 2 * NumROInts - 1) -> Register]
  <2>1. 4 * NumIOVars + 2 * NumROInts - 1 \in Int /\ 2 \in 1..4
    BY NumsAssumption
  <2>2. ir \in [0..(4 * NumIOVars + 2 * NumROInts - 1) -> Register]
    BY DEF Tables
  <2>3. PutParts(ir, WordBase(c), 2, v) \in [0..(4 * NumIOVars + 2 * NumROInts - 1) -> Register]
    BY <1>1, <1>2, <2>1, <2>2, PutTyped
  <2> QED BY <2>3
<1>4. ASSUME NEW d \in VarChannels
      PROVE  GetParts(ir', TimeBase(d), 4) = GetParts(ir, TimeBase(d), 4)
  <2>1. TimeBase(d) \in Int /\ TimeBase(d)..(TimeBase(d) + 4 - 1) \subseteq DOMAIN ir
    BY <1>1, InputBases
  <2>2. WordBase(c) + 2 - 1 < TimeBase(d)
    BY <1>2, <2>1, InputBases
  <2> QED BY <1>2, <2>1, <2>2, GetOther
<1>5. ASSUME NEW w \in WordChannels
      PROVE  GetParts(ir', WordBase(w), 2) = IF w = c THEN v ELSE GetParts(ir, WordBase(w), 2)
  <2>1. CASE w = c
    BY <1>2, <2>1, GetPut
  <2>2. CASE w # c
    <3>1. WordBase(w) \in Int /\ WordBase(w)..(WordBase(w) + 2 - 1) \subseteq DOMAIN ir
      BY <1>1, InputBases
    <3>2. WordBase(w) + 2 - 1 < WordBase(c) \/ WordBase(c) + 2 - 1 < WordBase(w)
      BY <1>2, <2>2, <3>1, InputBases
    <3> QED BY <1>2, <2>2, <3>1, <3>2, GetOther
  <2> QED BY <2>1, <2>2
<1> QED BY <1>3, <1>4, <1>5

(* The two bits of the quality.                                            *)
Quality(c) == 2 * di[2 * (c - NumROInts) - 2] + di[2 * (c - NumROInts) - 1]

LEMMA QualityPut ==
    ASSUME Tables, NEW c \in VarChannels, NEW q \in QuState,
           SetQState(c - NumROInts, q)
    PROVE  /\ di' \in [0..(2 * NumIOVars - 1) -> {0, 1}]
           /\ \A d \in VarChannels : Quality(d)' = IF d = c THEN q ELSE Quality(d)
<1> DEFINE at(d) == 2 * (d - NumROInts) - 2
<1>1. di \in [0..(2 * NumIOVars - 1) -> {0, 1}]
  BY DEF Tables
<1>2. \A d \in VarChannels :
         /\ at(d) \in 0..(2 * NumIOVars - 1) /\ at(d) + 1 \in 0..(2 * NumIOVars - 1)
         /\ at(d) + 1 = 2 * (d - NumROInts) - 1
         /\ d # c => at(d) \notin {at(c), at(c) + 1} /\ at(d) + 1 \notin {at(c), at(c) + 1}
         /\ at(c) # at(c) + 1
  BY NumsAssumption DEF VarChannels
<1>3. q \div 2 \in {0, 1} /\ q % 2 \in {0, 1} /\ 2 * (q \div 2) + (q % 2) = q
  <2>1. q \in {0, 1, 2, 3}
    BY QuStateAssumption
  <2> QED BY <2>1
<1>4. di' = Stored(di, [a \in {at(c), at(c) + 1} |-> IF a = at(c) THEN q \div 2 ELSE q % 2])
  BY <1>2 DEF SetQState
<1> HIDE DEF at
<1>5. di' \in [0..(2 * NumIOVars - 1) -> {0, 1}]
  <2> DEFINE f == [a \in {at(c), at(c) + 1} |-> IF a = at(c) THEN q \div 2 ELSE q % 2]
  <2>1. DOMAIN f \subseteq 0..(2 * NumIOVars - 1) /\ \A a \in DOMAIN f : f[a] \in {0, 1}
    BY <1>2, <1>3
  <2>2. di' = Stored(di, f)
    BY <1>4
  <2> HIDE DEF f
  <2> QED BY <1>1, <2>1, <2>2, StoredTyped
<1>6. ASSUME NEW d \in VarChannels
      PROVE  2 * di'[at(d)] + di'[at(d) + 1] =
                 IF d = c THEN q ELSE 2 * di[at(d)] + di[at(d) + 1]
  <2>1. CASE d = c
    <3>1. di'[at(c)] = q \div 2 /\ di'[at(c) + 1] = q % 2
      BY <1>1, <1>2, <1>4 DEF Stored
    <3> QED BY <1>3, <2>1, <3>1
  <2>2. CASE d # c
    <3>1. di'[at(d)] = di[at(d)] /\ di'[at(d) + 1] = di[at(d) + 1]
      BY <1>1, <1>2, <1>4, <2>2 DEF Stored
    <3> QED BY <2>2, <3>1
  <2> QED BY <2>1, <2>2
<1>7. \A d \in VarChannels : at(d) = 2 * (d - NumROInts) - 2
  BY DEF at
<1> QED BY <1>2, <1>5, <1>6, <1>7 DEF Quality

-----------------------------------------------------------------------------
(* What a call or a request changes of the variables                       *)

RecordOf(c) ==
    [val       |-> GetParts(hr, Base(c, 0), 2),
     forcedVal |-> GetParts(hr, Base(c, 2), 2),
     quality   |-> Quality(c),
     time      |-> GetParts(ir, TimeBase(c), 4),
     forced    |-> coil[c - NumROInts - 1]]

(* The abstract variables, cell by cell.                                   *)
LEMMA Cells ==
    /\ Vars = [c \in VarChannels |-> RecordOf(c)]
    /\ Vars' = [c \in VarChannels |-> RecordOf(c)']
    /\ Words = [c \in WordChannels |-> GetParts(ir, WordBase(c), 2)]
    /\ Words' = [c \in WordChannels |-> GetParts(ir', WordBase(c), 2)]
<1>1. \A c \in VarChannels :
         /\ Base(c, 0) = 4 * (c - NumROInts) - 4
         /\ Base(c, 2) = 4 * (c - NumROInts) - 2
  BY NumsAssumption DEF Base, VarChannels
<1>2. \A c \in VarChannels : VarOf(c) = RecordOf(c) /\ VarOf(c)' = RecordOf(c)'
  BY <1>1 DEF VarOf, RecordOf, Quality, TimeBase
<1> QED BY <1>2 DEF Vars, Words, WordOf, WordBase

LEMMA SetVal ==
    ASSUME Tables, NEW c \in VarChannels, NEW v \in Value,
           hr' = PutParts(hr, Base(c, 0), 2, v), UNCHANGED <<coil, di, ir>>
    PROVE  Tables' /\ Words' = Words /\ Vars' = [Vars EXCEPT ![c].val = v]
<1>1. /\ hr' \in [0..(4 * NumIOVars - 1) -> Register]
      /\ \A d \in VarChannels, j \in {0, 2} :
            GetParts(hr', Base(d, j), 2) =
                IF d = c /\ j = 0 THEN v ELSE GetParts(hr, Base(d, j), 2)
  BY ValuePut
<1>2. \A d \in VarChannels :
         RecordOf(d)' = IF d = c THEN [RecordOf(c) EXCEPT !.val = v] ELSE RecordOf(d)
  BY <1>1 DEF RecordOf, Quality
<1>3. Vars' = [Vars EXCEPT ![c].val = v]
  BY <1>2, Cells
<1> QED BY <1>1, <1>3, Cells DEF Tables

LEMMA SetForcedVal ==
    ASSUME Tables, NEW c \in VarChannels, NEW v \in Value,
           hr' = PutParts(hr, Base(c, 2), 2, v), UNCHANGED <<coil, di, ir>>
    PROVE  Tables' /\ Words' = Words /\ Vars' = [Vars EXCEPT ![c].forcedVal = v]
<1>1. /\ hr' \in [0..(4 * NumIOVars - 1) -> Register]
      /\ \A d \in VarChannels, j \in {0, 2} :
            GetParts(hr', Base(d, j), 2) =
                IF d = c /\ j = 2 THEN v ELSE GetParts(hr, Base(d, j), 2)
  BY ValuePut
<1>2. \A d \in VarChannels :
         RecordOf(d)' = IF d = c THEN [RecordOf(c) EXCEPT !.forcedVal = v] ELSE RecordOf(d)
  BY <1>1 DEF RecordOf, Quality
<1>3. Vars' = [Vars EXCEPT ![c].forcedVal = v]
  BY <1>2, Cells
<1> QED BY <1>1, <1>3, Cells DEF Tables

LEMMA SetForced ==
    ASSUME Tables, NEW c \in VarChannels, NEW b \in {0, 1}, WriteForced(c, b)
    PROVE  Tables' /\ Words' = Words /\ Vars' = [Vars EXCEPT ![c].forced = b]
<1>1. \A d \in VarChannels :
         /\ d - NumROInts - 1 \in 0..(NumIOVars - 1)
         /\ d # c => d - NumROInts - 1 # c - NumROInts - 1
  BY NumsAssumption DEF VarChannels
<1>2. /\ coil \in [0..(NumIOVars - 1) -> {0, 1}]
      /\ coil' = Stored(coil, [a \in {c - NumROInts - 1} |-> b])
      /\ UNCHANGED <<di, hr, ir>>
  BY DEF Tables, WriteForced
<1>3. \A d \in VarChannels :
         coil'[d - NumROInts - 1] = IF d = c THEN b ELSE coil[d - NumROInts - 1]
  BY <1>1, <1>2 DEF Stored
<1>4. \A d \in VarChannels :
         RecordOf(d)' = IF d = c THEN [RecordOf(c) EXCEPT !.forced = b] ELSE RecordOf(d)
  BY <1>2, <1>3 DEF RecordOf, Quality
<1>5. Vars' = [Vars EXCEPT ![c].forced = b]
  BY <1>4, Cells
<1>6. coil' \in [0..(NumIOVars - 1) -> {0, 1}]
  <2> DEFINE f == [a \in {c - NumROInts - 1} |-> b]
  <2>1. DOMAIN f \subseteq 0..(NumIOVars - 1) /\ \A a \in DOMAIN f : f[a] \in {0, 1}
    BY <1>1
  <2>2. coil' = Stored(coil, f) /\ coil \in [0..(NumIOVars - 1) -> {0, 1}]
    BY <1>2
  <2> HIDE DEF f
  <2> QED BY <2>1, <2>2, StoredTyped
<1> QED BY <1>2, <1>5, <1>6, Cells DEF Tables

(* updateFieldVar: value, quality and time stamp of a variable, written in *)
(* three tables and set in one record.                                     *)
FieldSet(c, v, q, t) ==
    /\ hr' = PutParts(hr, Base(c, 0), 2, v) /\ SetQState(c - NumROInts, q)
    /\ ir' = PutParts(ir, TimeBase(c), 4, t) /\ UNCHANGED coil

FieldAsSet(c, v, q, t) ==
    /\ Tables' /\ Words' = Words
    /\ Vars' = [Vars EXCEPT ![c].val = v, ![c].quality = q, ![c].time = t]

LEMMA SetField ==
    ASSUME Tables, NEW c \in VarChannels, NEW v \in Value, NEW q \in QuState, NEW t \in Value,
           FieldSet(c, v, q, t)
    PROVE  FieldAsSet(c, v, q, t)
<1>1. /\ hr' \in [0..(4 * NumIOVars - 1) -> Register]
      /\ \A d \in VarChannels, j \in {0, 2} :
            GetParts(hr', Base(d, j), 2) =
                IF d = c /\ j = 0 THEN v ELSE GetParts(hr, Base(d, j), 2)
  BY ValuePut DEF FieldSet
<1>2. /\ di' \in [0..(2 * NumIOVars - 1) -> {0, 1}]
      /\ \A d \in VarChannels : Quality(d)' = IF d = c THEN q ELSE Quality(d)
  BY QualityPut DEF FieldSet
<1>3. /\ ir' \in [0..(4 * NumIOVars + 2 * NumROInts - 1) -> Register]
      /\ \A d \in VarChannels :
            GetParts(ir', TimeBase(d), 4) = IF d = c THEN t ELSE GetParts(ir, TimeBase(d), 4)
      /\ \A w \in WordChannels :
            GetParts(ir', WordBase(w), 2) = GetParts(ir, WordBase(w), 2)
  BY TimePut DEF FieldSet
<1>4. \A d \in VarChannels :
         RecordOf(d)' = IF d = c THEN [RecordOf(c) EXCEPT !.val = v, !.quality = q, !.time = t]
                                 ELSE RecordOf(d)
  <2> TAKE d \in VarChannels
  <2>1. RecordOf(d)' =
            [val       |-> IF d = c THEN v ELSE GetParts(hr, Base(d, 0), 2),
             forcedVal |-> GetParts(hr, Base(d, 2), 2),
             quality   |-> IF d = c THEN q ELSE Quality(d),
             time      |-> IF d = c THEN t ELSE GetParts(ir, TimeBase(d), 4),
             forced    |-> coil[d - NumROInts - 1]]
    BY <1>1, <1>2, <1>3 DEF RecordOf, FieldSet
  <2>2. CASE d = c
    BY <2>1, <2>2 DEF RecordOf
  <2>3. CASE d # c
    BY <2>1, <2>3 DEF RecordOf
  <2> QED BY <2>2, <2>3
<1>5. Vars' = [Vars EXCEPT ![c].val = v, ![c].quality = q, ![c].time = t]
  BY <1>4, Cells
<1>6. Words' = Words
  BY <1>3, Cells
<1> QED BY <1>1, <1>2, <1>3, <1>5, <1>6 DEF Tables, FieldSet, FieldAsSet

LEMMA SetWord ==
    ASSUME Tables, NEW c \in WordChannels, NEW w \in Value,
           ir' = PutParts(ir, WordBase(c), 2, w), UNCHANGED <<coil, di, hr>>
    PROVE  Tables' /\ Words' = [Words EXCEPT ![c] = w] /\ Vars' = Vars
<1>1. /\ ir' \in [0..(4 * NumIOVars + 2 * NumROInts - 1) -> Register]
      /\ \A d \in VarChannels :
            GetParts(ir', TimeBase(d), 4) = GetParts(ir, TimeBase(d), 4)
      /\ \A d \in WordChannels :
            GetParts(ir', WordBase(d), 2) = IF d = c THEN w ELSE GetParts(ir, WordBase(d), 2)
  BY WordPut
<1>2. \A d \in VarChannels : RecordOf(d)' = RecordOf(d)
  BY <1>1 DEF RecordOf, Quality
<1>3. Vars' = Vars
  BY <1>2, Cells
<1>4. Words' = [Words EXCEPT ![c] = w]
  BY <1>1, Cells
<1> QED BY <1>1, <1>3, <1>4 DEF Tables

LEMMA NothingSet ==
    ASSUME Tables, UNCHANGED tables
    PROVE  Tables' /\ Words' = Words /\ Vars' = Vars
<1>1. \A d \in VarChannels : RecordOf(d)' = RecordOf(d)
  BY DEF RecordOf, Quality, tables
<1> QED BY <1>1, Cells DEF Tables, tables

-----------------------------------------------------------------------------
(* The refinement                                                          *)

(* The coil of a place among the variables.  For a channel of one it is    *)
(* the one the master knows; what initMapping clears is in the table.      *)
LEMMA Coils ==
    /\ \A c \in VarChannels : CoilAt(c - NumROInts) = c - NumROInts - 1
    /\ \A c \in FieldVars : CoilAt(c) \in 0..(NumIOVars - 1)
<1>1. ASSUME NEW n \in 1..NumIOVars
      PROVE  CoilAt(n) = n - 1 /\ n - 1 \in 0..(NumIOVars - 1)
  BY NumsAssumption, FitsAssumption DEF CoilAt
<1>2. \A c \in VarChannels : c - NumROInts \in 1..NumIOVars
  BY NumsAssumption DEF VarChannels
<1> QED BY <1>1, <1>2, FieldsAssumption

LEMMA InitIsInit == Init => Tables /\ Abstract!Init
<1> SUFFICES ASSUME Init PROVE Tables /\ Abstract!Init
  OBVIOUS
<1>1. <<0, 0>> \in Register
  BY ValueAssumption DEF Register, Part
<1>2. coil = [a \in 0..(NumIOVars - 1) |-> 0]
  BY Coils DEF Init, Stored
<1>3. Tables
  BY <1>1, <1>2 DEF Init, Tables
<1>4. \A i : Part(0, i) = <<0, 0>>
  BY DEF Part
<1>5. \A c \in VarChannels :
         VarOf(c) = [val |-> 0, forcedVal |-> 0, quality |-> 0, time |-> 0, forced |-> 0]
  <2> TAKE c \in VarChannels
  <2>1. \A j \in {0, 2} : GetParts(hr, Base(c, j), 2) = 0
    BY <1>4, Bases DEF Init, GetParts
  <2>2. GetParts(ir, TimeBase(c), 4) = 0
    BY <1>4, InputBases DEF Init, GetParts
  <2>3. Quality(c) = 0
    BY NumsAssumption DEF Init, Quality, VarChannels
  <2>4. coil[c - NumROInts - 1] = 0
    BY <1>2, NumsAssumption DEF VarChannels
  <2>5. Vars[c] = RecordOf(c) /\ Vars[c] = VarOf(c)
    BY Cells DEF Vars
  <2> QED BY <2>1, <2>2, <2>3, <2>4, <2>5 DEF RecordOf
<1>6. \A c \in WordChannels : WordOf(c) = 0
  BY <1>4, InputBases DEF Init, WordOf, WordBase, GetParts
<1> QED BY <1>3, <1>5, <1>6 DEF Init, Abstract!Init, None, Abstract!None

(* The abstract specification speaks of Words and Vars.                    *)
LEMMA Mapping ==
    /\ [c \in WordChannels |-> WordOf(c)] = Words
    /\ [c \in VarChannels |-> VarOf(c)] = Vars
    /\ \A c \in VarChannels : Vars[c] = RecordOf(c)
    /\ \A c \in WordChannels : Words[c] = GetParts(ir, WordBase(c), 2)
BY Cells DEF Words, Vars

(* Addresses as the master computes them.                                  *)
LEMMA Addresses ==
    \A c \in VarChannels :
        /\ c - NumROInts \in Nat
        /\ Base(c, 0) = 4 * (c - NumROInts) - 4
        /\ Base(c, 2) = 4 * (c - NumROInts) - 4 + 2
        /\ TimeBase(c) = 4 * (c - NumROInts) - 4 + NumROInts * 2
        /\ Quality(c) = 2 * di[2 * (c - NumROInts) - 2] + di[(2 * (c - NumROInts) - 2) + 1]
<1> SUFFICES ASSUME NEW c \in VarChannels
             PROVE  /\ c - NumROInts \in Nat
                    /\ Base(c, 0) = 4 * (c - NumROInts) - 4
                    /\ (2 * (c - NumROInts) - 2) + 1 = 2 * (c - NumROInts) - 1
  BY DEF Base, TimeBase, Quality
<1> QED BY NumsAssumption DEF Base, VarChannels

LEMMA RegulatorStep ==
    ASSUME Tables, NEW c \in Channels, Regulator(c)
    PROVE  Tables' /\ Abstract!Next
<1>1. CASE Refuse
  <2>1. Tables' /\ Words' = Words /\ Vars' = Vars
    BY <1>1, NothingSet DEF Refuse
  <2>2. Abstract!Refuse
    BY <1>1, <2>1, Mapping DEF Refuse, Abstract!Refuse, None, Abstract!None, Words, Vars
  <2> QED BY <2>1, <2>2 DEF Abstract!Next
<1>2. CASE Read(c)
  <2>1. c \in VarChannels /\ NumVar(c) = c - NumROInts
    BY <1>2, MappedChannels DEF Read
  <2>2. Tables' /\ Words' = Words /\ Vars' = Vars
    BY <1>2, NothingSet DEF Read
  <2>3. reply' = <<"read", Vars[c].val>>
    BY <1>2, <2>1, Mapping, Addresses DEF Read, RecordOf
  <2>4. Abstract!Read(c)
    BY <2>2, <2>3 DEF Abstract!Read, Abstract!Get, Words, Vars
  <2> QED BY <2>1, <2>2, <2>4 DEF Abstract!Next
<1>3. CASE \E v \in Value : Write(c, v)
  <2> PICK v \in Value : Write(c, v)
    BY <1>3
  <2>1. c \in VarChannels /\ NumVar(c) = c - NumROInts
    BY MappedChannels DEF Write
  <2>2. hr' = PutParts(hr, Base(c, 0), 2, v) /\ UNCHANGED <<coil, di, ir>> /\ reply' = None
    BY <2>1, Addresses DEF Write
  <2>3. Tables' /\ Words' = Words /\ Vars' = [Vars EXCEPT ![c].val = v]
    BY <2>1, <2>2, SetVal
  <2>4. Abstract!WriteVal(c, v)
    BY <2>2, <2>3 DEF Abstract!WriteVal, Abstract!Set, None, Abstract!None, Words, Vars
  <2> QED BY <2>1, <2>3, <2>4 DEF Abstract!Next
<1>4. CASE \E v, t \in Value, q \in QuState : UpdateFieldVar(c, v, q, t)
  <2> PICK v \in Value, t \in Value, q \in QuState : UpdateFieldVar(c, v, q, t)
    BY <1>4
  <2>1. c \in VarChannels /\ NumVar(c) = c - NumROInts /\ c \in FieldVars
    BY MappedChannels DEF UpdateFieldVar
  <2>2. TimeAt(c - NumROInts) = TimeBase(c)
    BY <2>1, Addresses DEF TimeAt
  <2>3. /\ FieldSet(c, v, q, t)
        /\ reply' = <<"update", <<coil[c - NumROInts - 1], GetParts(hr, Base(c, 2), 2)>>>>
    BY <2>1, <2>2, Addresses, Coils DEF UpdateFieldVar, FieldSet
  <2>4. FieldAsSet(c, v, q, t)
    BY <2>1, <2>3, SetField
  <2>5. reply' = <<"update", <<Vars[c].forced, Vars[c].forcedVal>>>>
    BY <2>1, <2>3, Mapping DEF RecordOf
  <2>6. Abstract!UpdateFieldVar(c)
    BY <2>4, <2>5 DEF FieldAsSet, Abstract!UpdateFieldVar, Words, Vars
  <2> QED BY <2>1, <2>4, <2>6 DEF FieldAsSet, Abstract!Next
<1>5. CASE \E w \in Value : WriteRO(c, w)
  <2> PICK w \in Value : WriteRO(c, w)
    BY <1>5
  <2>1. c \in WordChannels
    BY NumsAssumption, ChannelsAssumption DEF WriteRO, WordChannels
  <2>2. Tables' /\ Words' = [Words EXCEPT ![c] = w] /\ Vars' = Vars
    BY <2>1, SetWord DEF WriteRO, WordBase
  <2>3. Abstract!WriteRO(c, w)
    BY <2>2 DEF Abstract!WriteRO, WriteRO, None, Abstract!None, Words, Vars
  <2> QED BY <2>1, <2>2, <2>3 DEF Abstract!Next
<1> QED BY <1>1, <1>2, <1>3, <1>4, <1>5 DEF Regulator

(* A request that only reads.                                              *)
LEMMA Asking ==
    ASSUME Tables, NEW kind, NEW v, NEW w, Asks(kind, v), v = w
    PROVE  Tables' /\ Abstract!Get(kind, w)
<1>1. Tables' /\ Words' = Words /\ Vars' = Vars
  BY NothingSet DEF Asks
<1> QED BY <1>1 DEF Asks, Abstract!Get, Words, Vars

LEMMA MasterStep ==
    ASSUME Tables, NEW c \in Channels, Master(c)
    PROVE  Tables' /\ Abstract!Next
<1> USE NumsAssumption, ChannelsAssumption
<1>1. CASE IsWord(c) /\ ReadWord(c)
  <2>1. c \in WordChannels
    BY <1>1 DEF IsWord, WordChannels
  <2>2. GetParts(ir, (c - 1) * 2, 2) = Words[c]
    BY <2>1, Mapping DEF WordBase
  <2>3. Tables' /\ Abstract!ReadWord(c)
    BY <1>1, <2>2, Asking DEF ReadWord, Abstract!ReadWord, Words
  <2> QED BY <2>1, <2>3 DEF Abstract!Next
<1>2. CASE IsVar(c)
  <2>1. c \in VarChannels
    BY <1>2 DEF IsVar, VarChannels
  <2>2. Vars[c] = RecordOf(c)
    BY <2>1, Mapping
  <2>3. CASE ReadCurrent(c)
    <3>1. GetParts(hr, 4 * (c - NumROInts) - 4, 2) = Vars[c].val
      BY <2>1, <2>2, Addresses DEF RecordOf
    <3>2. Tables' /\ Abstract!ReadCurrent(c)
      BY <2>3, <3>1, Asking DEF ReadCurrent, Abstract!ReadCurrent, Vars
    <3> QED BY <2>1, <3>2 DEF Abstract!Next
  <2>4. CASE \E v \in Value : WriteVals(c, v, FALSE)
    <3> PICK v \in Value : WriteVals(c, v, FALSE)
      BY <2>4
    <3>1. hr' = PutParts(hr, Base(c, 0), 2, v) /\ UNCHANGED <<coil, di, ir>> /\ reply' = None
      BY <2>1 DEF WriteVals, Base, VarChannels
    <3>2. Tables' /\ Words' = Words /\ Vars' = [Vars EXCEPT ![c].val = v]
      BY <2>1, <3>1, SetVal
    <3>3. Abstract!WriteVal(c, v)
      BY <3>1, <3>2 DEF Abstract!WriteVal, Abstract!Set, None, Abstract!None, Words, Vars
    <3> QED BY <2>1, <3>2, <3>3 DEF Abstract!Next
  <2>5. CASE c \in FieldVars /\ ReadVals(c)
    <3>1. <<GetParts(hr, 4 * (c - NumROInts) - 4, 2), GetParts(hr, 4 * (c - NumROInts) - 4 + 2, 2)>>
              = <<Vars[c].val, Vars[c].forcedVal>>
      BY <2>1, <2>2, Addresses DEF RecordOf
    <3>2. Tables' /\ Abstract!ReadVals(c)
      BY <2>5, <3>1, Asking DEF ReadVals, Abstract!ReadVals, Vars
    <3> QED BY <2>1, <2>5, <3>2 DEF Abstract!Next
  <2>6. CASE c \in FieldVars /\ ReadTime(c)
    <3>1. GetParts(ir, 4 * (c - NumROInts) - 4 + NumROInts * 2, 4) = Vars[c].time
      BY <2>1, <2>2, Addresses DEF RecordOf
    <3>2. Tables' /\ Abstract!ReadTime(c)
      BY <2>6, <3>1, Asking DEF ReadTime, Abstract!ReadTime, Vars
    <3> QED BY <2>1, <2>6, <3>2 DEF Abstract!Next
  <2>7. CASE c \in FieldVars /\ ReadQuality(c)
    <3> DEFINE b == 2 * (c - NumROInts) - 2
    <3>1. 2 * di[b] + di[b + 1] = Vars[c].quality
      BY <2>1, <2>2, Addresses DEF RecordOf
    <3>2. Asks("quality", 2 * di[b] + di[b + 1])
      BY <2>7 DEF ReadQuality
    <3> HIDE DEF b
    <3>3. Tables' /\ Abstract!ReadQuality(c)
      BY <3>1, <3>2, Asking DEF Abstract!ReadQuality, Vars
    <3> QED BY <2>1, <2>7, <3>3 DEF Abstract!Next
  <2>8. CASE c \in FieldVars /\ ReadForced(c)
    <3>1. coil[c - NumROInts - 1] = Vars[c].forced
      BY <2>2 DEF RecordOf
    <3>2. Tables' /\ Abstract!ReadForced(c)
      BY <2>8, <3>1, Asking DEF ReadForced, Abstract!ReadForced, Vars
    <3> QED BY <2>1, <2>8, <3>2 DEF Abstract!Next
  <2>9. CASE c \in FieldVars /\ \E v \in Value : WriteVals(c, v, TRUE)
    <3> PICK v \in Value : WriteVals(c, v, TRUE)
      BY <2>9
    <3>1. hr' = PutParts(hr, Base(c, 2), 2, v) /\ UNCHANGED <<coil, di, ir>> /\ reply' = None
      BY <2>1 DEF WriteVals, Base, VarChannels
    <3>2. Tables' /\ Words' = Words /\ Vars' = [Vars EXCEPT ![c].forcedVal = v]
      BY <2>1, <3>1, SetForcedVal
    <3>3. Abstract!WriteForcedVal(c, v)
      BY <3>1, <3>2 DEF Abstract!WriteForcedVal, Abstract!Set, None, Abstract!None, Words, Vars
    <3> QED BY <2>1, <2>9, <3>2, <3>3 DEF Abstract!Next
  <2>10. CASE c \in FieldVars /\ \E b \in {0, 1} : WriteForced(c, b)
    <3> PICK b \in {0, 1} : WriteForced(c, b)
      BY <2>10
    <3>1. Tables' /\ Words' = Words /\ Vars' = [Vars EXCEPT ![c].forced = b]
      BY <2>1, SetForced
    <3>2. Abstract!WriteForced(c, b)
      BY <3>1 DEF WriteForced, Abstract!WriteForced, Abstract!Set, None, Abstract!None, Words, Vars
    <3> QED BY <2>1, <2>10, <3>1, <3>2 DEF Abstract!Next
  <2> QED BY <1>2, <2>3, <2>4, <2>5, <2>6, <2>7, <2>8, <2>9, <2>10, <1>1 DEF Master
<1> QED BY <1>1, <1>2 DEF Master

LEMMA Step ==
    ASSUME Tables, [Next]_vars
    PROVE  Tables' /\ [Abstract!Next]_Abstract!variables
<1>1. CASE Next
  <2> PICK c \in Channels : Regulator(c) \/ Master(c)
    BY <1>1 DEF Next
  <2> QED BY RegulatorStep, MasterStep
<1>2. CASE UNCHANGED vars
  <2>1. Tables' /\ Words' = Words /\ Vars' = Vars
    BY <1>2, NothingSet DEF vars
  <2> QED BY <1>2, <2>1 DEF vars, Abstract!variables, Words, Vars
<1> QED BY <1>1, <1>2

LEMMA TablesInvariant == Spec => []Tables
BY InitIsInit, Step, PTL DEF Spec

(* The four tables and the arithmetic of the two drivers (ModbusSlaveDrv   *)
(* 273-371, ModbusMasterDrv 203-354) together are a set of words and       *)
(* variables apart from each other: what is read of a channel is what was  *)
(* written last for it, by either side, and a channel outside the map is   *)
(* refused.  For every number of words and variables that together are     *)
(* less than the values of a uint8_t, and field variables whose channels   *)
(* are at most the number of variables: for others initMapping (264-270)   *)
(* writes outside its table, and nothing is claimed.                       *)
THEOREM ImplementsVariables == Spec => VariablesSpec
<1>1. Init => Abstract!Init
  BY InitIsInit
<1>2. Tables /\ [Next]_vars => [Abstract!Next]_Abstract!variables
  BY Step
<1> QED BY <1>1, <1>2, TablesInvariant, PTL DEF Spec, VariablesSpec, Abstract!Spec

-----------------------------------------------------------------------------
(* No reader sees a value with a part missing or with parts of two values  *)

Record ==
    [val : Value, forcedVal : Value, quality : QuState, time : Value, forced : {0, 1}]

Typed ==
    /\ Words \in [WordChannels -> Value]
    /\ Vars \in [VarChannels -> Record]
    /\ reply \in Proper

LEMMA InitIsTyped == Abstract!Init => Typed
BY ValueAssumption, QuStateAssumption
   DEF Abstract!Init, Abstract!None, Typed, Record, Proper, None, Words, Vars

LEMMA StepIsTyped ==
    ASSUME Typed, [Abstract!Next]_Abstract!variables
    PROVE  Typed'
<1>1. Words \in [WordChannels -> Value]
  BY DEF Typed
<1>2. \A c \in VarChannels :
         /\ Vars[c].val \in Value /\ Vars[c].forcedVal \in Value /\ Vars[c].time \in Value
         /\ Vars[c].quality \in QuState /\ Vars[c].forced \in {0, 1}
  BY DEF Typed, Record
<1>3. ASSUME NEW kind, NEW v, <<kind, v>> \in Proper, Abstract!Get(kind, v)
      PROVE  Typed'
  BY <1>3 DEF Abstract!Get, Typed, Words, Vars
<1>4. ASSUME NEW c \in WordChannels, Abstract!ReadWord(c)
      PROVE  Typed'
  <2>1. <<"word", Words[c]>> \in Proper
    BY <1>1 DEF Proper
  <2> QED BY <1>3, <1>4, <2>1 DEF Abstract!ReadWord, Words
<1>5. ASSUME NEW c \in WordChannels, NEW w \in Value, Abstract!WriteRO(c, w)
      PROVE  Typed'
  BY <1>5 DEF Abstract!WriteRO, Abstract!None, Typed, Proper, None, Words, Vars
<1>6. ASSUME NEW c \in VarChannels, Abstract!Read(c) \/ Abstract!ReadCurrent(c)
      PROVE  Typed'
  <2>1. <<"read", Vars[c].val>> \in Proper /\ <<"current", Vars[c].val>> \in Proper
    BY <1>2 DEF Proper
  <2> QED BY <1>3, <1>6, <2>1 DEF Abstract!Read, Abstract!ReadCurrent, Vars
<1>7. ASSUME NEW c \in VarChannels, NEW v \in Value,
             Abstract!WriteVal(c, v) \/ Abstract!WriteForcedVal(c, v)
      PROVE  Typed'
  <2>1. /\ Vars' = [Vars EXCEPT ![c].val = v] \/ Vars' = [Vars EXCEPT ![c].forcedVal = v]
        /\ Words' = Words /\ reply' = None
    BY <1>7 DEF Abstract!WriteVal, Abstract!WriteForcedVal, Abstract!Set, Abstract!None,
                None, Words, Vars
  <2>2. Vars' \in [VarChannels -> Record]
    BY <2>1 DEF Typed, Record
  <2> QED BY <2>1, <2>2 DEF Typed, Proper
<1>8. ASSUME NEW c \in VarChannels, NEW b \in {0, 1}, Abstract!WriteForced(c, b)
      PROVE  Typed'
  <2>1. Vars' = [Vars EXCEPT ![c].forced = b] /\ Words' = Words /\ reply' = None
    BY <1>8 DEF Abstract!WriteForced, Abstract!Set, Abstract!None, None, Words, Vars
  <2>2. Vars' \in [VarChannels -> Record]
    BY <2>1 DEF Typed, Record
  <2> QED BY <2>1, <2>2 DEF Typed, Proper
<1>9. ASSUME NEW c \in VarChannels,
             \/ Abstract!ReadVals(c) \/ Abstract!ReadTime(c)
             \/ Abstract!ReadQuality(c) \/ Abstract!ReadForced(c)
      PROVE  Typed'
  <2>1. /\ <<"vals", <<Vars[c].val, Vars[c].forcedVal>>>> \in Proper
        /\ <<"time", Vars[c].time>> \in Proper
        /\ <<"quality", Vars[c].quality>> \in Proper
        /\ <<"forced", Vars[c].forced>> \in Proper
    BY <1>2 DEF Proper
  <2> QED BY <1>3, <1>9, <2>1
          DEF Abstract!ReadVals, Abstract!ReadTime, Abstract!ReadQuality, Abstract!ReadForced, Vars
<1>10. ASSUME NEW c \in VarChannels, Abstract!UpdateFieldVar(c)
       PROVE  Typed'
  <2>1. <<"update", <<Vars[c].forced, Vars[c].forcedVal>>>> \in Proper
    BY <1>2 DEF Proper
  <2>2. \E v, t \in Value, q \in QuState :
           Vars' = [Vars EXCEPT ![c].val = v, ![c].quality = q, ![c].time = t]
    BY <1>10, ZenonT(30) DEF Abstract!UpdateFieldVar, Vars
  <2>3. reply' = <<"update", <<Vars[c].forced, Vars[c].forcedVal>>>> /\ Words' = Words
    BY <1>10 DEF Abstract!UpdateFieldVar, Words, Vars
  <2>4. Vars' \in [VarChannels -> Record]
    <3> PICK v \in Value, t \in Value, q \in QuState :
             Vars' = [Vars EXCEPT ![c].val = v, ![c].quality = q, ![c].time = t]
      BY <2>2
    <3>1. Vars \in [VarChannels -> Record]
      BY DEF Typed
    <3>2. ASSUME NEW r \in Record
          PROVE  [r EXCEPT !.val = v, !.quality = q, !.time = t] \in Record
      BY DEF Record
    <3>3. Vars' = [Vars EXCEPT ![c] = [Vars[c] EXCEPT !.val = v, !.quality = q, !.time = t]]
      BY <3>1 DEF Record
    <3> DEFINE new == [Vars[c] EXCEPT !.val = v, !.quality = q, !.time = t]
    <3>4. new \in Record /\ Vars' = [Vars EXCEPT ![c] = new]
      BY <3>1, <3>2, <3>3
    <3> HIDE DEF new
    <3> QED BY <3>1, <3>4
  <2> QED BY <2>1, <2>3, <2>4 DEF Typed
<1>11. ASSUME Abstract!Refuse
       PROVE  Typed'
  BY <1>11 DEF Abstract!Refuse, Abstract!None, Typed, Proper, None, Words, Vars
<1>12. ASSUME UNCHANGED Abstract!variables
       PROVE  Typed'
  BY <1>12 DEF Abstract!variables, Typed, Words, Vars
<1> QED BY <1>4, <1>5, <1>6, <1>7, <1>8, <1>9, <1>10, <1>11, <1>12 DEF Abstract!Next

(* No access and no clearing of initMapping writes outside the tables,     *)
(* every register holds a part of a value, and no call of read or          *)
(* updateFieldVar and no request of a master gets a value mixed from two.  *)
THEOREM TypeInvariant == Spec => []TypeOK
<1>1. Spec => Abstract!Spec
  BY ImplementsVariables DEF VariablesSpec
<1>2. Abstract!Spec => []Typed
  BY InitIsTyped, StepIsTyped, PTL DEF Abstract!Spec
<1>3. Tables /\ Typed => TypeOK
  BY DEF Tables, Typed, TypeOK
<1> QED BY <1>1, <1>2, <1>3, TablesInvariant, PTL
=============================================================================
