------------------------- MODULE ExpansionProperties -------------------------
(***************************************************************************)
(* What the walk has to achieve, stated over the structure of the texts:   *)
(* which statements a reader of the source expects to be assembled, and    *)
(* that getting there ends.                                                *)
(***************************************************************************)
EXTENDS Expansion, Nesting

(* The variables have the shapes the code gives them.                      *)
TypeOK ==
    /\ prog \in Program
    /\ input \in 1 .. Len(prog.inputs)
    /\ stack \in Seq(Frame)
    /\ cond \in Seq([active : BOOLEAN, taken : BOOLEAN, seenElse : BOOLEAN])
    /\ macros \in [DOMAIN macros -> Text]
    /\ macroDepth \in Nat /\ includeDepth \in Nat
    /\ exiting \in BOOLEAN /\ ended \in BOOLEAN
    /\ emitted \in Seq(Nat)

-----------------------------------------------------------------------------
(* Conditionals, by the structure of every text of the program.            *)

TextsOf(p) ==
    {p.inputs[i] : i \in DOMAIN p.inputs} \cup {p.files[i] : i \in DOMAIN p.files}
    \cup {p.pieces[i] : i \in DOMAIN p.pieces}

WellNested == \A text \in TextsOf(prog) : NestsWell(text, prog.oneCloser)

(* The innermost text and every text on the way to it say the same of the  *)
(* statement as the flags do.                                              *)
ReadsAsNested == CondActive <=> \A d \in 1 .. Depth : IsLive(stack[d].text, stack[d].at)

(* A statement is read as live exactly where every text on the way to it   *)
(* says so, unless some text does not nest: arms taken, skipped and nested *)
(* are told apart across includes, expansions left early and conditionals  *)
(* they dropped, though all share one stack of flags.  A .DEFINE that is   *)
(* rewritten too often stops the text it is in and no other, and leaves    *)
(* the conditionals there open: after that error anything may be read.     *)
CondsFollowNesting ==
    Reading /\ ~ReadsAsNested => ~WellNested \/ "define depth" \in errors

(* Where blocks and conditionals close like brackets, no block or          *)
(* conditional is ended by another's directive, in the text or in what is  *)
(* captured from it, though each kind is counted on its own, all           *)
(* conditionals share a stack, and in a false branch blocks do not count.  *)
(* What a false branch does not look at is no bracket there, its .endif is.*)
Overlooked == Opening \ LookedAt

BlockErrors == {"unterminated block", "stray block end", "endif"}
BlocksFollowNesting ==
    errors \cap BlockErrors # {} =>
        \E text \in TextsOf(prog) :
            ~IsBracketed(text, prog.oneCloser) \/ \E k \in DOMAIN text : text[k].op \in Overlooked

-----------------------------------------------------------------------------
(* Leaving early.                                                          *)

Expansions == {d \in 1 .. Depth : IsExpansion(stack[d].kind)}

(* Between .exitm and the return from the expansion it leaves nothing is   *)
(* assembled, and what is left is that one expansion: the text that caused *)
(* it is read on from the statement after it.                              *)
ExitmLeavesOneExpansion ==
    [][exiting =>
          /\ emitted' = emitted
          /\ ~exiting' => LET d == Max(Expansions)
                          IN  /\ Len(stack') = d - 1
                              /\ stack'[d - 1].at = stack[d - 1].at + 1
                              /\ ~stack'[d - 1].stopped \/ ended]_vars

(* "Nothing after it in the source is assembled" (end_of_source).          *)
NothingAfterEnd == [][ended => emitted' = emitted]_vars

-----------------------------------------------------------------------------
(* Macros that call themselves, and files that include themselves or a     *)
(* macro that includes them, nest only so far.                             *)
NestingBounded == Depth <= 1 + MaxMacroDepth + MaxIncludeDepth + 1

(* Whatever calls whatever, the walk ends with every conditional closed.   *)
WalkEnds == <>(Finished /\ cond = <<>>)

=============================================================================
