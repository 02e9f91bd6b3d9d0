--------------------------- MODULE MCCommandPath ---------------------------
(* Two instances of CommandPath for TLC in one run: buttons, or set points *)
(* and forces, each while nothing of the other is under way.               *)
EXTENDS CommandPath, TLC

(* Heap cells are interchangeable, and so are buttons.                     *)
Symmetry == Permutations(Ptr) \cup Permutations(Buttons)

(* No request for A is anywhere, and the registers of A are at rest.       *)
Untouched(A) ==
    /\ \A p \in Ptr : req[p].addr \notin A
    /\ \A i \in DOMAIN inbox : inbox[i].addr \notin A
    /\ \A op \in orphans : op.addr \notin A
    /\ \A c \in late : c[1] \notin A
    /\ \A a \in A : reg[a] = 0
    /\ \A a \in A \cap Forceable : ~coil[a]
    /\ pressing \notin A
    /\ A \cap (buttonWritesToClean \cup reported) = {}

Apart == Untouched(Buttons) \/ Untouched(Plain \cup Forceable)
=============================================================================
