------------------------------- MODULE Nesting -------------------------------
(***************************************************************************)
(* What the structure of a text says of its statements: which conditionals *)
(* one lies in, which arms a reader expects to be assembled, and whether   *)
(* conditionals close where they were opened.                              *)
(***************************************************************************)
EXTENDS Statements, FiniteSetsExt

(* How many conditionals opened at or after statement j are open at k.     *)
OpenFrom(text, j, k) == Count(text, j, k, Opening) - Count(text, j, k, {"endif"})

(* The conditionals statement i lies in.                                   *)
Enclosing(text, i) ==
    {j \in 1 .. i - 1 :
        text[j].op \in Opening /\ \A k \in j .. i - 1 : OpenFrom(text, j, k) > 0}

(* The arms of the conditional opened at j that begin before statement i.  *)
ArmsOf(text, j, i) ==
    {j} \cup {k \in j + 1 .. i - 1 : text[k].op \in Arms /\ OpenFrom(text, j, k) = 1}

Holds(s) == s.op = "else" \/ s.arg = 1

(* The reader of a text expects the first arm that holds, and no other.    *)
IsLive(text, i) ==
    \A j \in Enclosing(text, i) :
        LET arms == ArmsOf(text, j, i)
            this == Max(arms)
        IN  Holds(text[this]) /\ \A k \in arms \ {this} : ~Holds(text[k])

(* Conditionals close inside the text that opens them, and inside the      *)
(* block that opens them.                                                  *)
NestsIn(text, lo, hi) ==
    /\ \A k \in lo .. hi :
          /\ OpenFrom(text, lo, k) >= 0
          /\ text[k].op \in Arms =>
                \E j \in lo .. k - 1 :
                    /\ j \in Enclosing(text, k)
                    /\ OpenFrom(text, j, k) = 1
                    /\ ~\E m \in j + 1 .. k - 1 :
                          text[m].op = "else" /\ OpenFrom(text, j, m) = 1
    /\ OpenFrom(text, lo, hi) = 0

(* So do the blocks inside it.                                             *)
BlockStarts == {"macro", "rept"}

HoldsBlocks(text, i, e, oneCloser) ==
    \A k \in i + 1 .. e - 1 :
        text[k].op \in BlockStarts => \E f \in BlockEnds(text, k, oneCloser) : f < e

NestsWell(text, oneCloser) ==
    /\ NestsIn(text, 1, Len(text))
    /\ \A i \in 1 .. Len(text) :
          text[i].op \in BlockStarts =>
             \E e \in BlockEnds(text, i, oneCloser) :
                 NestsIn(text, i + 1, e - 1) /\ HoldsBlocks(text, i, e, oneCloser)

-----------------------------------------------------------------------------
(* Blocks and conditionals are brackets of one text: each ends with its    *)
(* own closer, and with nothing open inside it.                            *)
Brackets == Opening \cup BlockStarts
Closers == {"endif", "endm", "endr"}
Closer(op, oneCloser) ==
    IF op \in Opening THEN "endif"
    ELSE IF op = "macro" \/ oneCloser THEN "endm" ELSE "endr"

(* How many of the brackets opened at or after statement j are open at k.  *)
OpenBrackets(text, j, k) == Count(text, j, k, Brackets) - Count(text, j, k, Closers)

(* Statement i comes where the bracket opened at j is open,                *)
IsInside(text, i, j) ==
    /\ j \in 1 .. i - 1 /\ text[j].op \in Brackets
    /\ \A k \in j .. i - 1 : OpenBrackets(text, j, k) > 0

(* and is the last of those that are,                                      *)
IsDirectlyInside(text, i, j) == IsInside(text, i, j) /\ OpenBrackets(text, j, i - 1) = 1

(* and closes it.                                                          *)
EndsBracket(text, i, j, oneCloser) ==
    IsDirectlyInside(text, i, j) /\ text[i].op = Closer(text[j].op, oneCloser)

(* The arms of a conditional are between it and its .endif, in no block.   *)
IsBracketed(text, oneCloser) ==
    /\ \A j \in 1 .. Len(text) :
          text[j].op \in Brackets => \E i \in j + 1 .. Len(text) : EndsBracket(text, i, j, oneCloser)
    /\ \A i \in 1 .. Len(text) :
          /\ text[i].op \in Closers => \E j \in 1 .. i - 1 : EndsBracket(text, i, j, oneCloser)
          /\ text[i].op \in Arms =>
                \E j \in 1 .. i - 1 : IsDirectlyInside(text, i, j) /\ text[j].op \in Opening

=============
