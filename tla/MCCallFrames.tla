---------------------------- MODULE MCCallFrames ----------------------------
(***************************************************************************)
(* Kinds of source for CallFrames: each has the directives that bear on    *)
(* one part of the rules, for the targets where they differ.               *)
(***************************************************************************)
EXTENDS CallFramesProperties

(* x86-64, SuperH, RISC-V and 64-bit PowerPC.                              *)
X86 == [flavor |-> "gnu", unit |-> 1, dataAlign |-> -8, column |-> 16,
        initial |-> <<Insn("def_cfa", 7, 8), Insn("offset", 16, -8)>>]
SuperH == [flavor |-> "gnu", unit |-> 2, dataAlign |-> -4, column |-> 17,
           initial |-> <<Insn("def_cfa", 15, 0)>>]
RiscV == [flavor |-> "llvm", unit |-> 1, dataAlign |-> -8, column |-> 1,
          initial |-> <<Insn("def_cfa", 2, 0)>>]
PowerPc == [flavor |-> "llvm", unit |-> 4, dataAlign |-> -8, column |-> 65,
            initial |-> <<Insn("def_cfa", 1, 0)>>]

Code(size) == [size |-> size, moves |-> FALSE, aligns |-> FALSE]
Call == [Code(8) EXCEPT !.moves = TRUE]

Source(target, sizes, insns) ==
    [target |-> target, frags |-> {Code(n) : n \in sizes}, insns |-> insns, simple |-> {FALSE},
     columns |-> {}, personalities |-> {}, lsdas |-> {}, sections |-> {}, length |-> 7]

Save == Insn("offset", 6, -16)

(* Frames whose first instructions agree, begin alike or do not.           *)
Sharing ==
    {[Source(X86, {2}, {Save, Insn("restore", 6, 0), Insn("def_cfa_register", 6, 0)}) EXCEPT
        !.simple = BOOLEAN, !.length = 8]}

(* The offset directives count from.                                       *)
Counting ==
    {Source(t, {4}, {Insn("adjust_cfa_offset", 0, 16), Insn("rel_offset", 6, 8),
                     Insn("remember_state", 0, 0), Insn("restore_state", 0, 0),
                     Insn("def_cfa", 6, -16)}) : t \in {X86, RiscV}}

(* Offsets the data alignment does not divide.                             *)
Dividing ==
    {[Source(t, {4}, {Insn("offset", 6, -12), Insn("rel_offset", 6, 4), Insn("def_cfa_offset", 0, -12),
                      Insn("val_offset", 6, -16)}) EXCEPT !.length = 6] : t \in {X86, PowerPc}}

(* Every form of an advance, and of a register and its offset.             *)
Advancing ==
    {Source(t, {252, 256}, {Save, Insn("offset", 70, 16)}) : t \in {X86, SuperH, PowerPc}}
    \cup {Source(X86, {1, 63, 65535}, {Save})}

Instructing ==
    {[Source(X86, {4}, {Insn("val_offset", 70, -8), Insn("val_offset", 6, 8), Insn("register", 6, 70),
                      Insn("undefined", 6, 0), Insn("same_value", 70, 0), Insn("restore", 70, 0),
                      Insn("escape", 0, 0), Insn("window_save", 0, 0),
                      Insn("def_cfa_offset", 0, 32)}) EXCEPT !.length = 6]}

PcRel == 27
Routine == Pointer(155, 1, 0)

(* What frames have to agree on.                                           *)
Agreeing ==
    {[Source(t, {4}, {Save}) EXCEPT
        !.columns = {30}, !.personalities = {Routine}, !.lsdas = {PcRel}, !.length = 7] :
            t \in {X86, PowerPc}}

(* Pointers: none, of encoding 0, a symbol with something added, a number. *)
Pointing ==
    {[Source(t, {4}, {}) EXCEPT !.personalities = p, !.lsdas = l] :
        t \in {X86, PowerPc},
        p \in {{}, {Pointer(0, 1, 0), Pointer(0, 1, 8), Pointer(0, 0, 5), Routine, NoPointer}},
        l \in {{0, PcRel, Omit}}}

(* Two tables, and frames that are not closed or not open.                 *)
Asking ==
    {[Source(t, {4}, {Save}) EXCEPT
        !.sections = {{"debug_frame"}, {"eh_frame", "debug_frame"}}, !.columns = {30},
        !.length = 6] : t \in {X86, PowerPc}}

(* Calls a linker may shorten.                                             *)
Linked ==
    [Source(RiscV, {}, {Save, Insn("adjust_cfa_offset", 0, 16)}) EXCEPT
        !.frags = {Call, Code(2), Code(60)}]

AllSources ==
    Sharing \cup Counting \cup Dividing \cup Advancing \cup Instructing \cup Agreeing \cup Pointing \cup Asking \cup {Linked}
=============================================================================
