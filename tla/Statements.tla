------------------------------ MODULE Statements ------------------------------
(***************************************************************************)
(* The source as the statement walker sees it: a text is a sequence of     *)
(* statements, and a statement an operation with a number for what it      *)
(* names (the bytes of code, the macro, the file, the value of the         *)
(* condition).  What macro arguments substitute is left out: a body is     *)
(* expanded as it was written.                                             *)
(***************************************************************************)
EXTENDS Integers, Sequences, FiniteSets

Opening == {"if", "ifb"}            \* .ifb and .ifnb test for a blank argument
Arms    == {"elseif", "elif", "else"}
Operations ==
    Opening \cup Arms \cup
    {"endif", "code", "macro", "endm", "exitm", "rept", "endr", "call",
     "purgem", "include", "end", "define"}

Statement == [op : Operations, arg : Nat]
Text == Seq(Statement)

(* How many statements of text i .. j are among ops.                       *)
Count(text, i, j, ops) == Cardinality({k \in i .. j : text[k].op \in ops})

-----------------------------------------------------------------------------
(* Block constructs: capture_block reads up to the directive that closes   *)
(* as many as were opened.                                                 *)

(* CC-RL and CC-RH close both kinds of block with .ENDM, so each counts    *)
(* the other as nesting.                                                   *)
Opens(op, oneCloser) == IF oneCloser THEN {"macro", "rept"} ELSE {op}
Closes(op, oneCloser) ==
    IF oneCloser \/ op = "macro" THEN {"endm"} ELSE {"endr"}

BlockEnds_First(text, i, oneCloser) ==
    {j \in i + 1 .. Len(text) :
        /\ text[j].op \in Closes(text[i].op, oneCloser)
        /\ \A k \in i + 1 .. j - 1 : text[k].op \notin Closes(text[i].op, oneCloser)}

(* Where the block opened at statement i ends: no place, or one.           *)
BlockEnds(text, i, oneCloser) ==
    LET opens  == Opens(text[i].op, oneCloser)
        closes == Closes(text[i].op, oneCloser)
        Depth(j) == Count(text, i, j, opens) - Count(text, i, j, closes)
    IN  {j \in i + 1 .. Len(text) :
            Depth(j) = 0 /\ \A k \in i .. j - 1 : Depth(k) > 0}

Body(text, i, j) == SubSeq(text, i + 1, j - 1)

(* .rept: the copies are concatenated and read as one text.                *)
Copies(body, n) ==
    [k \in 1 .. n * Len(body) |-> body[((k - 1) % Len(body)) + 1]]

=============================================================================
