----------------------------- MODULE RegisterMap -----------------------------
(***************************************************************************)
(* The registers of the Modbus server as ModbusSlaveDrv lays them out and  *)
(* ModbusMasterDrv finds them.  Both get the number of a channel, uint8_t  *)
(* uiChannel, and compute from it where in the four tables of libmodbus    *)
(* the parts of the variable are: the driver of the regulator in uint8_t   *)
(* arithmetic, the one of the HMI in integers, each with offsets of its    *)
(* own.  One call of the regulator or one request of a master happens      *)
(* under mtIOMapMutex and is one step.                                     *)
(*                                                                         *)
(* A register holds a part of a value; the codecs put the first part first *)
(* (modbus_set_float_abcd, writeRO, setTimeS), on two machines of the same *)
(* byte order.                                                             *)
(***************************************************************************)
EXTENDS Integers

CONSTANTS
    NumROInts,   \* muiNumROInts, the same in both configurations
    NumIOVars,   \* muiNumIOVars
    Width,       \* values of a uint8_t
    Value,       \* what a variable, a time stamp or a word may be
    QuState,     \* quality states
    Channels,    \* the channels asked for
    FieldVars    \* those of the field variables (mFieldVars)

ASSUME NumsAssumption == NumROInts \in Nat /\ NumIOVars \in Nat
ASSUME FitsAssumption == Width \in 1..256 /\ NumROInts + NumIOVars < Width
ASSUME ValueAssumption == 0 \in Value
ASSUME QuStateAssumption == 0 \in QuState /\ QuState \subseteq 0..3
ASSUME ChannelsAssumption == Channels \subseteq 0..(Width - 1) /\ FieldVars \subseteq Channels

(* What initMapping needs of the configuration: it takes the channel of a  *)
(* field variable for its place among the variables (see CoilAt).  Nothing *)
(* in the code tests it.                                                   *)
ASSUME FieldsAssumption == FieldVars \subseteq 1..NumIOVars

VARIABLES
    coil,        \* tab_bits: forced
    di,          \* tab_input_bits: quality
    hr,          \* tab_registers: value and forced value
    ir,          \* tab_input_registers: words and time stamps
    reply        \* what the last call or request gave back

tables == <<coil, di, hr, ir>>
vars   == <<tables, reply>>

None == <<"none">>

-----------------------------------------------------------------------------
(* Registers                                                               *)

(* A table with the registers of f written into it.  One that f has and    *)
(* the table has not is memory outside of it: it is in the domain then,    *)
(* which TypeOK does not allow.                                            *)
Stored(t, f) ==
    [a \in DOMAIN t \cup DOMAIN f |-> IF a \in DOMAIN f THEN f[a] ELSE t[a]]

(* A value in several registers; zero is zero in each of them.             *)
Part(v, i) == IF v = 0 THEN <<0, 0>> ELSE <<v, i>>

PutParts(t, b, n, v) ==
    Stored(t, [a \in b..(b + n - 1) |-> Part(v, a - b + 1)])

Garbage == "garbage"

GetParts(t, b, n) ==
    IF \A i \in 1..n : t[b + i - 1] = Part(t[b][1], i) THEN t[b][1] ELSE Garbage

Register == {Part(v, i) : v \in Value, i \in 1..4}

Proper ==
    {None} \cup ({"read", "word", "current", "time"} \X Value)
           \cup ({"vals"} \X (Value \X Value))
           \cup ({"quality"} \X QuState) \cup ({"forced"} \X {0, 1})
           \cup ({"update"} \X ({0, 1} \X Value))

(* The tables have the registers init asks for and no others, so nothing   *)
(* is written outside of them; what is read is a value, never Garbage.     *)
TypeOK ==
    /\ coil \in [0..(NumIOVars - 1) -> {0, 1}]
    /\ di \in [0..(2 * NumIOVars - 1) -> {0, 1}]
    /\ hr \in [0..(4 * NumIOVars - 1) -> Register]
    /\ ir \in [0..(4 * NumIOVars + 2 * NumROInts - 1) -> Register]
    /\ reply \in Proper

(* valAddr of getForced and setForced, a uint16_t.                         *)
CoilAt(n) == (n - 1) % 65536

(* modbus_mapping_new has cleared the tables.  initMapping then clears the *)
(* coils that setForced finds for the channels of the field variables:     *)
(* uiChannel itself, not less muiNumROInts as everywhere else and without  *)
(* the test of its range, so the coil of the variable NumROInts further    *)
(* on, if there is one.                                                    *)
Init ==
    /\ coil = Stored([a \in 0..(NumIOVars - 1) |-> 0],
                     [a \in {CoilAt(c) : c \in FieldVars} |-> 0])
    /\ di = [a \in 0..(2 * NumIOVars - 1) |-> 0]
    /\ hr = [a \in 0..(4 * NumIOVars - 1) |-> <<0, 0>>]
    /\ ir = [a \in 0..(4 * NumIOVars + 2 * NumROInts - 1) |-> <<0, 0>>]
    /\ reply = None

-----------------------------------------------------------------------------
(* The regulator                                                           *)

(* uiNumVar, a uint8_t, and the variables that pass its test.              *)
NumVar(c) == (c - NumROInts) % Width
Mapped(c) == NumVar(c) >= 1 /\ NumVar(c) <= NumIOVars

(* Mutant: the words before the time stamps are forgotten.                 *)
TimeFirst(n) == 4 * n - 4

TimeAt(n) == 4 * n - 4 + NumROInts * 2

(* Mutant: a bit of the quality is not masked.                             *)
SetQStateUnmasked(n, q) ==
    di' = Stored(di, [a \in {2 * n - 2, 2 * n - 1} |-> IF a = 2 * n - 2 THEN q ELSE q % 2])

(* setQState puts the high bit first.                                      *)
SetQState(n, q) ==
    di' = Stored(di, [a \in {2 * n - 2, 2 * n - 1} |-> IF a = 2 * n - 2 THEN q \div 2 ELSE q % 2])

Refuse == reply' = None /\ UNCHANGED tables

Read(c) ==
    /\ Mapped(c)
    /\ reply' = <<"read", GetParts(hr, 4 * NumVar(c) - 4, 2)>>
    /\ UNCHANGED tables

Write(c, v) ==
    /\ Mapped(c)
    /\ hr' = PutParts(hr, 4 * NumVar(c) - 4, 2, v)
    /\ reply' = None /\ UNCHANGED <<coil, di, ir>>

UpdateFieldVar(c, v, q, t) ==
    LET n == NumVar(c) IN
    /\ c \in FieldVars /\ Mapped(c)
    /\ reply' = <<"update", <<coil[CoilAt(n)], GetParts(hr, 4 * n - 4 + 2, 2)>>>>
    /\ hr' = PutParts(hr, 4 * n - 4, 2, v)
    /\ SetQState(n, q)
    /\ ir' = PutParts(ir, TimeAt(n), 4, t)
    /\ UNCHANGED coil

WriteRO(c, w) ==
    /\ c >= 1 /\ c <= NumROInts
    /\ ir' = PutParts(ir, (c - 1) * 2, 2, w)
    /\ reply' = None /\ UNCHANGED <<coil, di, hr>>

Regulator(c) ==
    \/ ~Mapped(c) /\ Refuse
    \/ Read(c) \/ \E v \in Value : Write(c, v)
    \/ \E v, t \in Value, q \in QuState : UpdateFieldVar(c, v, q, t)
    \/ \E w \in Value : WriteRO(c, w)

-----------------------------------------------------------------------------
(* A master, one request at a time, with its own arithmetic                *)

IsWord(c) == c >= 1 /\ c <= NumROInts
IsVar(c)  == c > NumROInts /\ c <= NumIOVars + NumROInts

Asks(kind, v) == reply' = <<kind, v>> /\ UNCHANGED tables

ReadWord(c)    == Asks("word", GetParts(ir, (c - 1) * 2, 2))
ReadCurrent(c) == Asks("current", GetParts(hr, 4 * (c - NumROInts) - 4, 2))
ReadVals(c)    ==
    LET b == 4 * (c - NumROInts) - 4 IN
    Asks("vals", <<GetParts(hr, b, 2), GetParts(hr, b + 2, 2)>>)
ReadTime(c)    == Asks("time", GetParts(ir, 4 * (c - NumROInts) - 4 + NumROInts * 2, 4))
ReadQuality(c) ==
    LET b == 2 * (c - NumROInts) - 2 IN Asks("quality", 2 * di[b] + di[b + 1])
ReadForced(c)  == Asks("forced", coil[c - NumROInts - 1])

(* processNextWrite: the value of a force has an address of its own.       *)
WriteVals(c, v, force) ==
    /\ hr' = PutParts(hr, 4 * (c - NumROInts) - 4 + (IF force THEN 2 ELSE 0), 2, v)
    /\ reply' = None /\ UNCHANGED <<coil, di, ir>>

WriteForced(c, b) ==
    /\ coil' = Stored(coil, [a \in {c - NumROInts - 1} |-> b])
    /\ reply' = None /\ UNCHANGED <<di, hr, ir>>

Master(c) ==
    \/ IsWord(c) /\ ReadWord(c)
    \/ IsVar(c) /\ (ReadCurrent(c) \/ \E v \in Value : WriteVals(c, v, FALSE))
    \/ /\ IsVar(c) /\ c \in FieldVars
       /\ \/ ReadVals(c) \/ ReadTime(c) \/ ReadQuality(c) \/ ReadForced(c)
          \/ \E v \in Value : WriteVals(c, v, TRUE)
          \/ \E b \in {0, 1} : WriteForced(c, b)

Next == \E c \in Channels : Regulator(c) \/ Master(c)

Spec == Init /\ [][Next]_vars

-----------------------------------------------------------------------------
(* What masters read of a channel is what was written last for this        *)
(* channel, by the regulator or by a master, and neither disturbs another  *)
(* channel, whichever of the 256 is asked for: those that wrap in uint8_t  *)
(* are refused.  initMapping disturbs none either, although it clears the  *)
(* coils of others: they are clear when it does, before the server listens.*)
WordOf(c) == GetParts(ir, (c - 1) * 2, 2)

VarOf(c) ==
    LET n == c - NumROInts IN
    [val       |-> GetParts(hr, 4 * n - 4, 2),
     forcedVal |-> GetParts(hr, 4 * n - 2, 2),
     quality   |-> 2 * di[2 * n - 2] + di[2 * n - 1],
     time      |-> GetParts(ir, 4 * n - 4 + NumROInts * 2, 4),
     forced    |-> coil[n - 1]]

WordChannels == 1..NumROInts
VarChannels  == (NumROInts + 1)..(NumROInts + NumIOVars)

Abstract == INSTANCE Variables WITH
    WordChannel <- WordChannels,
    VarChannel  <- VarChannels,
    FieldChannel <- FieldVars \cap VarChannels,
    word <- [c \in WordChannels |-> WordOf(c)],
    var  <- [c \in VarChannels |-> VarOf(c)]

VariablesSpec == Abstract!Spec
=============================================================================
