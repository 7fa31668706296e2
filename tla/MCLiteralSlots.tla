--------------------------- MODULE MCLiteralSlots ---------------------------
(***************************************************************************)
(* Literals that share words with each other, for pools of a few slots.    *)
(***************************************************************************)
EXTENDS LiteralSlots

(* Every half of an eight-byte literal is a word another may ask for, and  *)
(* none is zero.                                                           *)
NonzeroLiterals == {<<1>>, <<2>>, <<3>>, <<1, 2>>, <<2, 1>>, <<3, 3>>}
=============================================================================
