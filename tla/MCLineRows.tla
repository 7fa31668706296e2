----------------------------- MODULE MCLineRows -----------------------------
(***************************************************************************)
(* Kinds of source for LineRows: each has the statements that bear on one  *)
(* part of the rules, for the targets where they differ.                   *)
(***************************************************************************)
EXTENDS LineRowsProperties

Gnu(version) == [flavor |-> "gnu", version |-> version, min |-> 1, fixed |-> FALSE]
Llvm(version) == [flavor |-> "llvm", version |-> version, min |-> 1, fixed |-> FALSE]
Avr == [Gnu(3) EXCEPT !.fixed = TRUE]
Words(target) == [target EXCEPT !.min = 2]

Loc(n) == [NoDirective EXCEPT !.file = 1, !.line = n]
Code(size) == [frag |-> [size |-> size, moves |-> FALSE, aligns |-> FALSE], back |-> Absent]
Moved(size) == [Code(size) EXCEPT !.frag.moves = TRUE]

Source(target, statements) ==
    [target |-> target, g |-> FALSE, statements |-> statements, files |-> {1},
     locs |-> {Loc(2)}, insns |-> {Code(2)}, aligns |-> {}, length |-> 5]

(* What one .loc leaves to the next.                                       *)
Carrying ==
    {[Source(t, {"file", "loc", "insn"}) EXCEPT
        !.locs = {Loc(0), [Loc(2) EXCEPT !.column = 4, !.flags = {"prologue_end"}],
                  [Loc(3) EXCEPT !.isa = 1, !.isStmt = 0, !.disc = 2],
                  [Loc(4) EXCEPT !.bad = TRUE], [Loc(5) EXCEPT !.file = 2]}] :
        t \in {Gnu(3), Llvm(3), Llvm(4)}}

(* Rows made by labels.                                                    *)
Marking ==
    {[Source(t, {"file", "loc", "insn", "label", "mark"}) EXCEPT
        !.locs = {[Loc(2) EXCEPT !.disc = 1]}] : t \in {Gnu(3), Llvm(4)}}

(* Who consumes a .loc, and what a switch of section does to it.           *)
Switching ==
    {[Source(t, {"file", "loc", "insn", "data", "section"}) EXCEPT
        !.insns = {Code(0), Code(2)}] : t \in {Gnu(3), Llvm(4)}}

(* Advances around the bounds of the special opcodes: lines -5 to 8 apart, *)
(* and MaxSpecial, twice that and far more instructions.                   *)
Advancing ==
    {[Source(t, {"file", "loc", "insn"}) EXCEPT
        !.locs = {Loc(1), Loc(6), Loc(10)},
        !.insns = {Code(n) : n \in {17, 34, 300}}] : t \in {Gnu(2), Gnu(3)}}
Scaled ==
    {[Source(t, {"file", "loc", "insn", "data"}) EXCEPT
        !.locs = {Loc(1), Loc(10)}, !.insns = {Code(n) : n \in {2, 34}}] :
        t \in {Words(Gnu(3)), Words(Llvm(4))}}

(* Advances in a field of 16 bits, within its size and past FarAdvance.    *)
Fixed ==
    [Source(Avr, {"file", "loc", "insn"}) EXCEPT
        !.locs = {Loc(1), Loc(9)}, !.insns = {Code(n) : n \in {2, 15534, 49999, 50001}}]

(* Views, and instructions whose rows are before their end.                *)
Viewed ==
    [Source(Gnu(5), {"file", "loc", "insn"}) EXCEPT
        !.locs = {[Loc(2) EXCEPT !.view = v] : v \in Views} \cup {[Loc(0) EXCEPT !.view = "symbol"]},
        !.insns = {Code(2), [Code(4) EXCEPT !.back = 1]}]

(* Code and padding a linker may shorten, with a row for each instruction. *)
Linked ==
    [Source(Llvm(4), {"insn", "align"}) EXCEPT
        !.g = TRUE, !.insns = {Code(2), Moved(4)},
        !.aligns = {[size |-> 2, moves |-> FALSE, aligns |-> TRUE],
                    [size |-> 2, moves |-> TRUE, aligns |-> FALSE]}, !.length = 4]

(* Rows for the source itself, until it brings its own.                    *)
Generating ==
    {[Source(t, {"file", "loc", "insn", "section"}) EXCEPT
        !.g = TRUE, !.files = {0, 1}, !.length = 4] : t \in {Gnu(2), Llvm(4), Llvm(5)}}

(* Sections returned to.                                                   *)
Returning ==
    {[Source(t, {"insn", "section"}) EXCEPT !.g = TRUE] : t \in {Gnu(3), Llvm(4)}}

AllSources ==
    Carrying \cup Marking \cup Switching \cup Advancing \cup Scaled \cup Generating
    \cup Returning \cup {Fixed, Viewed, Linked}

=============================================================================
