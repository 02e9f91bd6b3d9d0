------------------------------ MODULE Variables ------------------------------
(***************************************************************************)
(* What the register map of the Modbus server stands for: words that the   *)
(* regulator writes and masters read, and variables that both read and     *)
(* write, each apart from all the others.  Module RegisterMap implements   *)
(* it with the four tables of libmodbus and the address arithmetic of the  *)
(* two drivers.                                                            *)
(***************************************************************************)
EXTENDS Naturals

CONSTANTS
    WordChannel,   \* channels of words
    VarChannel,    \* channels of variables
    FieldChannel,  \* those of field variables
    Value,         \* what a variable, a time stamp or a word may be
    QuState        \* quality states

VARIABLES
    word,          \* the words
    var,           \* the variables
    reply          \* what the last call or request gave back

variables == <<word, var, reply>>

None == <<"none">>

Init ==
    /\ word = [c \in WordChannel |-> 0]
    /\ var = [c \in VarChannel |->
                 [val |-> 0, forcedVal |-> 0, quality |-> 0, time |-> 0, forced |-> 0]]
    /\ reply = None

Set(c, f, v) ==
    /\ reply' = None /\ UNCHANGED word
    /\ var' = [var EXCEPT ![c][f] = v]

Get(kind, v) ==
    /\ reply' = <<kind, v>> /\ UNCHANGED <<word, var>>

(* The regulator.                                                          *)
WriteRO(c, w) ==
    /\ reply' = None /\ UNCHANGED var
    /\ word' = [word EXCEPT ![c] = w]

Read(c) == Get("read", var[c].val)

UpdateFieldVar(c) ==
    /\ reply' = <<"update", <<var[c].forced, var[c].forcedVal>>>>
    /\ UNCHANGED word
    /\ \E v, t \in Value, q \in QuState :
          var' = [var EXCEPT ![c].val = v, ![c].quality = q, ![c].time = t]

(* The masters, one request each; the regulator writes values, too.        *)
ReadWord(c)    == Get("word", word[c])
ReadCurrent(c) == Get("current", var[c].val)
ReadVals(c)    == Get("vals", <<var[c].val, var[c].forcedVal>>)
ReadTime(c)    == Get("time", var[c].time)
ReadQuality(c) == Get("quality", var[c].quality)
ReadForced(c)  == Get("forced", var[c].forced)

WriteVal(c, v)       == Set(c, "val", v)
WriteForced(c, b)    == Set(c, "forced", b)
WriteForcedVal(c, v) == Set(c, "forcedVal", v)

(* A channel that is neither.                                              *)
Refuse == reply' = None /\ UNCHANGED <<word, var>>

Next ==
    \/ Refuse
    \/ \E c \in WordChannel : ReadWord(c) \/ \E w \in Value : WriteRO(c, w)
    \/ \E c \in VarChannel : Read(c) \/ ReadCurrent(c) \/ \E v \in Value : WriteVal(c, v)
    \/ \E c \in FieldChannel :
         \/ ReadVals(c) \/ ReadTime(c) \/ ReadQuality(c) \/ ReadForced(c)
         \/ \E v \in Value : WriteForcedVal(c, v)
         \/ \E b \in {0, 1} : WriteForced(c, b)
         \/ UpdateFieldVar(c)

Spec == Init /\ [][Next]_variables
=============================================================================
