------------------------------- MODULE Button -------------------------------
(***************************************************************************)
(* What the HMI promises about an operator button and its register in the  *)
(* regulator: a press is accepted only at rest; it is refused, given up    *)
(* with an error report, or written; a written press is followed by a      *)
(* release, and the button is at rest again only when the release is in    *)
(* the register.  What a closed connection still delivers may overwrite    *)
(* the register at any time.  RegImage and the master driver (module       *)
(* CommandPath) implement it.                                              *)
(***************************************************************************)

CONSTANT Buttons

VARIABLES
    phase,      \* what the image thinks of each button
    reg,        \* the registers
    reported,   \* buttons whose last press was given up with a report
    late        \* buttons whose register was last written by a stale request

vars == <<phase, reg, reported, late>>

Phases == {"rest", "asked", "pressing", "releasing"}

ButtonTypeOK ==
    /\ phase \in [Buttons -> Phases]
    /\ reg \in [Buttons -> {0, 1}]
    /\ reported \subseteq Buttons
    /\ late \subseteq Buttons

Init ==
    /\ phase = [b \in Buttons |-> "rest"]
    /\ reg = [b \in Buttons |-> 0]
    /\ reported = {} /\ late = {}

Move(b, from, to) ==
    /\ phase[b] = from
    /\ phase' = [phase EXCEPT ![b] = to]

Accept(b) == Move(b, "rest", "asked")     /\ UNCHANGED <<reg, reported, late>>
Queue(b)  == Move(b, "asked", "pressing") /\ UNCHANGED <<reg, reported, late>>
Refuse(b) == Move(b, "asked", "rest")     /\ UNCHANGED <<reg, reported, late>>

GiveUp(b) ==
    /\ Move(b, "pressing", "rest")
    /\ reported' = reported \cup {b}
    /\ UNCHANGED <<reg, late>>

Written(b) ==
    /\ reg[b] = 1 \/ b \in late
    /\ Move(b, "pressing", "releasing")
    /\ UNCHANGED <<reg, reported, late>>

Released(b) ==
    /\ reg[b] = 0 \/ b \in late
    /\ Move(b, "releasing", "rest")
    /\ reported' = reported \ {b}
    /\ UNCHANGED <<reg, late>>

Store(b, v) ==
    /\ reg' = [reg EXCEPT ![b] = v]
    /\ late' = late \ {b}
    /\ UNCHANGED <<phase, reported>>

Set(b) ==
    /\ phase[b] = "pressing" \/ (phase[b] = "rest" /\ b \in reported)
    /\ Store(b, 1)

Clear(b) == phase[b] = "releasing" /\ Store(b, 0)

Stale(b) ==
    /\ \E v \in {0, 1} : reg' = [reg EXCEPT ![b] = v]
    /\ late' = late \cup {b}
    /\ UNCHANGED <<phase, reported>>

Next == \E b \in Buttons :
    \/ Accept(b) \/ Queue(b) \/ Refuse(b) \/ GiveUp(b)
    \/ Written(b) \/ Released(b) \/ Set(b) \/ Clear(b) \/ Stale(b)

Spec == Init /\ [][Next]_vars

(* A register that stays pressed while the image takes the button to be at *)
(* rest was reported, or written by a stale request.                       *)
StuckIsExplained ==
    \A b \in Buttons :
        (phase[b] = "rest" /\ reg[b] = 1) => (b \in reported \/ b \in late)
=============================================================================
