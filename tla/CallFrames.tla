----------------------------- MODULE CallFrames -----------------------------
(***************************************************************************)
(* The .cfi_* directives of the code of one section: frames are opened,    *)
(* given instructions at positions in code whose sizes are not known yet,  *)
(* and closed; at the end the tables asked for are written and linked.     *)
(***************************************************************************)
EXTENDS FrameTables

CONSTANT Sources    \* kinds of source, see SourceType

Encoding == 0 .. Omit
PointerType == [enc : Encoding, name : Nat, add : Int]
FragType == [size : Nat, moves : BOOLEAN, aligns : BOOLEAN]
InsnNames ==
    CieInsns \cup {"adjust_cfa_offset", "rel_offset", "remember_state", "restore_state",
                   "escape", "window_save", "mark"}
InsnType == [is : InsnNames, reg : Nat, off : Int]

(* The conventions of a target, the directives and instructions of the     *)
(* source, the values it gives frames, and a bound on its statements.      *)
TargetType ==
    [flavor : {"gnu", "llvm"}, unit : Nat \ {0}, dataAlign : Int \ {0}, column : Nat,
     initial : Seq(InsnType)]
SourceType ==
    [target : TargetType, frags : SUBSET FragType, insns : SUBSET InsnType,
     simple : SUBSET BOOLEAN, columns : SUBSET Nat, personalities : SUBSET PointerType,
     lsdas : SUBSET Encoding, sections : SUBSET SUBSET {"eh_frame", "debug_frame"}, length : Nat]

ASSUME SourcesAssumption == \A s \in Sources : s \in SourceType

VARIABLES
    source,     \* the kind of source
    frags,      \* the fragments of the code
    fdes,       \* the frames, see NewFde
    open,       \* the index of the frame that is open, or None
    tables,     \* the tables that are asked for
    count,      \* the number of statements read
    errors,     \* whether an error was reported, which makes all this useless
    linked      \* the fragments as linked, once all is written

vars == <<source, frags, fdes, open, tables, count, errors, linked>>

Target == source.target
None == 0
Unlinked == <<[size |-> Absent]>>
Reading == linked = Unlinked

NewFde(start, simple) ==
    [start |-> start, end |-> Absent, simple |-> simple, signal |-> FALSE,
     column |-> Absent, personality |-> NoPointer, lsda |-> Omit, insns |-> <<>>]

Init ==
    /\ source \in Sources
    /\ frags = <<>>
    /\ fdes = <<>>
    /\ open = None
    /\ tables = {"eh_frame"}
    /\ count = 0
    /\ errors = FALSE
    /\ linked = Unlinked

(* The position of what comes next; code joins no fragment before it.      *)
Here == Len(frags) + 1

(* A source that has an error is read on, but nothing is written for it.   *)
Statement ==
    /\ Reading /\ ~errors
    /\ count < source.length
    /\ count' = count + 1
    /\ UNCHANGED <<source, linked>>

Instruction(frag) ==
    /\ Statement
    /\ frags' = Append(frags, frag)
    /\ UNCHANGED <<fdes, open, tables, errors>>

CfiSections(names) ==
    /\ Statement
    /\ tables' = names
    /\ UNCHANGED <<frags, fdes, open, errors>>

StartProc_Nested(simple) ==
    /\ Statement
    /\ fdes' = Append(fdes, NewFde(Here, simple))
    /\ open' = Len(fdes')
    /\ UNCHANGED <<errors, frags, tables>>

StartProc(simple) ==
    /\ Statement
    /\ IF open # None THEN errors' = TRUE /\ UNCHANGED <<fdes, open>>
       ELSE /\ fdes' = Append(fdes, NewFde(Here, simple))
            /\ open' = Len(fdes')
            /\ UNCHANGED errors
    /\ UNCHANGED <<frags, tables>>

EndProc ==
    /\ Statement
    /\ IF open = None THEN errors' = TRUE /\ UNCHANGED fdes
       ELSE fdes' = [fdes EXCEPT ![open].end = Here] /\ UNCHANGED errors
    /\ open' = None
    /\ UNCHANGED <<frags, tables>>

(* A directive of the open frame.                                          *)
InFrame ==
    /\ Statement
    /\ open # None
    /\ UNCHANGED <<frags, open, tables, errors>>

OutsideFrame ==
    /\ Statement
    /\ open = None
    /\ errors' = TRUE
    /\ UNCHANGED <<frags, fdes, open, tables>>

Directive(insn) ==
    /\ InFrame
    /\ fdes' = [fdes EXCEPT ![open].insns = Append(@, [at |-> Here, insn |-> insn])]

(* It is no instruction, but GNU as advances to it.                        *)
SignalFrame ==
    /\ InFrame
    /\ fdes' = [fdes EXCEPT ![open].signal = TRUE,
                            ![open].insns = Append(@, [at |-> Here, insn |-> Insn("mark", 0, 0)])]

ReturnColumn(reg) ==
    /\ InFrame
    /\ fdes' = [fdes EXCEPT ![open].column = reg]

(* With the encoding Omit the directive takes the pointer away.            *)
Personality(p) ==
    /\ InFrame
    /\ fdes' = [fdes EXCEPT ![open].personality = p]

Lsda(encoding) ==
    /\ InFrame
    /\ fdes' = [fdes EXCEPT ![open].lsda = encoding]

Moving == {f \in DOMAIN frags : frags[f].moves}

(* The end: a frame still open is an error; the tables are written, and a  *)
(* linker takes two bytes from the fragments in "taken".                   *)
Link(taken) ==
    /\ Reading /\ ~errors
    /\ IF open # None THEN errors' = TRUE /\ UNCHANGED linked
       ELSE /\ linked' = [f \in DOMAIN frags |->
                  IF f \in taken THEN [frags[f] EXCEPT !.size = @ - 2] ELSE frags[f]]
            /\ UNCHANGED errors
    /\ UNCHANGED <<source, frags, fdes, open, tables, count>>

Next ==
    \/ \E frag \in source.frags : Instruction(frag)
    \/ \E names \in source.sections : CfiSections(names)
    \/ \E simple \in source.simple : StartProc(simple)
    \/ EndProc
    \/ OutsideFrame
    \/ \E insn \in source.insns : Directive(insn)
    \/ source.personalities # {} /\ SignalFrame
    \/ \E reg \in source.columns : ReturnColumn(reg)
    \/ \E p \in source.personalities : Personality(p)
    \/ \E encoding \in source.lsdas : Lsda(encoding)
    \/ \E taken \in SUBSET Moving : Link(taken)

Spec == Init /\ [][Next]_vars

(* What is written for a table.                                            *)
Written(eh) == FramesOf(Target, frags, fdes, eh)
=============================================================================
