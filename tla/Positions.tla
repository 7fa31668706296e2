----------------------------- MODULE Positions -----------------------------
(***************************************************************************)
(* Positions in the code of one section once layout has settled, as the    *)
(* writers of line and frame tables measure them.                          *)
(*                                                                         *)
(* A section's code is a sequence of fragments, each with its size and     *)
(* whether a linker may move what is behind it ("moves") or its padding    *)
(* depends on its address ("aligns").  A position is the index of a        *)
(* fragment, or one past the last.                                         *)
(***************************************************************************)
EXTENDS Integers, Sequences

Absent == -1

Offset(frags, frag) ==
    LET before[f \in 0..Len(frags)] == IF f = 0 THEN 0 ELSE before[f - 1] + frags[f].size
    IN  before[frag - 1]

Size(frags) == Offset(frags, Len(frags) + 1)

MovesBetween_Past(frags, from, to) ==
    \E f \in DOMAIN frags : frags[f].moves /\ from < Offset(frags, f) /\ Offset(frags, f) <= to

(* Whether a linker may delete bytes between two offsets.  An instruction  *)
(* that starts at the first is between them, one at the second is not.     *)
MovesBetween(frags, from, to) ==
    \E f \in DOMAIN frags : frags[f].moves /\ from <= Offset(frags, f) /\ Offset(frags, f) < to

(* Whether the reference does not know yet how far apart two fragments are *)
(* when it chooses the form of an advance.                                 *)
UncertainBetween(frags, from, to) ==
    /\ \E f \in DOMAIN frags : frags[f].moves
    /\ \E f \in DOMAIN frags : frags[f].aligns /\ from <= f /\ f < to
=============================================================================
