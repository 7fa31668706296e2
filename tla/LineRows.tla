------------------------------ MODULE LineRows ------------------------------
(***************************************************************************)
(* Recording the rows of the line table while the source is read           *)
(* (dwarf/line.rs, dwarf/source.rs), until the table is written from a     *)
(* settled layout and linked.                                              *)
(*                                                                         *)
(* A .loc is remembered, and its row made by what consumes it: a later     *)
(* statement, possibly in another section.  With -g rows are made for the  *)
(* source itself instead, until a numbered .file says the source brings    *)
(* its own.  A fragment has the size layout gives it; nothing reads it     *)
(* before.                                                                 *)
(***************************************************************************)
EXTENDS LineTable, FiniteSets

CONSTANTS
    Sections,       \* the names of sections; a source starts in Text
    Text,
    CodeSections,   \* those that are allocated and executable
    Sources         \* kinds of source, see SourceType

Views == {"none", "reset", "zero", "symbol"}
Flags == {"basic_block", "prologue_end", "epilogue_begin"}

LocType ==
    [file : Nat, line : Nat, column : Nat, isa : Nat, isStmt : BOOLEAN,
     disc : Nat, flags : SUBSET Flags, view : Views]

(* What a .loc writes; "bad" is one refused for what it says after that.   *)
OptNat == Nat \cup {Absent}
DirectiveType ==
    [file : Nat, line : Nat, column : OptNat, isa : OptNat, isStmt : {Absent, 0, 1},
     disc : Nat, flags : SUBSET Flags, view : Views, bad : BOOLEAN]

FragType == [size : Nat, moves : BOOLEAN, aligns : BOOLEAN]

(* A row is some bytes before the end of its instruction on RX only, whose *)
(* code no linker moves.                                                   *)
InsnType ==
    {insn \in [frag : FragType, back : OptNat] :
        insn.back # Absent => insn.back <= insn.frag.size /\ ~insn.frag.moves}

(* The conventions of a target, whether -g was given, the statements of    *)
(* the source and a bound on their number, its .locs, its alignments, and  *)
(* its instructions with the place of the row of each.                     *)
TargetType ==
    [flavor : {"gnu", "llvm"}, version : Nat, min : Nat \ {0}, fixed : BOOLEAN]
SourceType ==
    [target : TargetType, g : BOOLEAN, statements : SUBSET STRING,
     files : SUBSET Nat, locs : SUBSET DirectiveType,
     insns : SUBSET InsnType, aligns : SUBSET FragType, length : Nat]

ASSUME SourcesAssumption == \A s \in Sources : s \in SourceType
ASSUME SectionsAssumption == Text \in CodeSections /\ CodeSections \subseteq Sections

VARIABLES
    source,     \* the kind of source
    code,       \* [section -> its fragments, and whether data may join the last]
    cur,        \* the current section
    line,       \* the line table's state, see NewLine
    log,        \* history: the statements, and where each was
    linked      \* [section -> the fragments as linked], once all is written

vars == <<source, code, cur, line, log, linked>>

Target == source.target
IsGnu == Target.flavor = "gnu"
Unlinked == <<>>
Reading == linked = Unlinked

DefaultLoc ==
    [file |-> 1, line |-> 1, column |-> 0, isa |-> 0, isStmt |-> TRUE,
     disc |-> 0, flags |-> {}, view |-> "none"]

NoPath == ""
NoLine == <<NoPath, 0>>

(* Everything is as before the first statement; llvm-mc describes the      *)
(* section it starts in.                                                   *)
NewLine(g) ==
    [current |-> DefaultLoc, pending |-> FALSE, sequences |-> <<>>,
     index |-> [s \in Sections |-> 0], markLabels |-> FALSE, files |-> {},
     on |-> g, last |-> NoLine, described |-> {Text}]

NewCode == [frags |-> <<>>, open |-> FALSE]

Init ==
    /\ source \in Sources
    /\ code = [s \in Sections |-> NewCode]
    /\ cur = Text
    /\ line = NewLine(source.g)
    /\ log = <<>>
    /\ linked = Unlinked

(***************************************************************************)
(* Sections and positions.                                                 *)
(***************************************************************************)
NextFrag == Len(code[cur].frags) + 1

SealIf(seals) == [code EXCEPT ![cur].open = @ /\ ~seals]

Push(c, frag) == [frags |-> Append(c.frags, frag), open |-> FALSE]

(* A byte of data joins the data before it unless something names the      *)
(* position between them.                                                  *)
Byte == [size |-> 1, moves |-> FALSE, aligns |-> FALSE]
EmitByte(c) ==
    IF c.open THEN [c EXCEPT !.frags[Len(c.frags)].size = @ + 1]
    ELSE [Push(c, Byte) EXCEPT !.open = TRUE]

(***************************************************************************)
(* Rows.                                                                   *)
(***************************************************************************)
Row(s, frag, loc, back, path) ==
    [section |-> s, frag |-> frag, loc |-> loc, back |-> back, path |-> path]

PushRow_OnlyLatest(l, row) ==
    LET n == Len(l.sequences)
    IN  IF n > 0 /\ l.sequences[n][1].section = row.section
          THEN [l EXCEPT !.sequences[n] = Append(@, row)]
          ELSE [l EXCEPT !.sequences = Append(@, <<row>>)]

(* Rows go to the sequence of their section, in the order of first rows.   *)
PushRow(l, row) ==
    IF l.index[row.section] # 0
      THEN [l EXCEPT !.sequences[l.index[row.section]] = Append(@, row)]
      ELSE [l EXCEPT !.sequences = Append(@, <<row>>),
                     !.index[row.section] = Len(l.sequences) + 1]

(* What GNU as carries over to the next row.                               *)
Spent(loc) == [loc EXCEPT !.disc = 0, !.flags = {}, !.view = "none"]

ConsumeLoc(l, s, frag, back) ==
    IF ~l.pending THEN l
    ELSE LET row == Row(s, frag, l.current, back, NoPath)
             done == [l EXCEPT !.pending = FALSE,
                               !.current = IF IsGnu THEN Spent(@) ELSE @]
         IN  IF IsGnu /\ (l.current.line = 0 \/ s \notin CodeSections)
               THEN done ELSE PushRow(done, row)

(* llvm-mc keeps only is_stmt of the .loc before.                          *)
Given(prev, arg) ==
    LET kept == IF IsGnu THEN Spent(prev)
                ELSE [DefaultLoc EXCEPT !.isStmt = prev.isStmt]
        Or(new, old) == IF new = Absent THEN old ELSE new
    IN  [file |-> arg.file, line |-> arg.line,
         column |-> Or(arg.column, kept.column), isa |-> Or(arg.isa, kept.isa),
         isStmt |-> IF arg.isStmt = Absent THEN kept.isStmt ELSE arg.isStmt = 1,
         disc |-> arg.disc, flags |-> arg.flags,
         view |-> IF IsGnu THEN arg.view ELSE "none"]

(***************************************************************************)
(* Rows for the source itself.                                             *)
(***************************************************************************)
(* A row for an instruction at "at", a path and a line in it.  GNU as      *)
(* makes one where the line changes, llvm-mc in the sections it describes. *)
SourceRow(l, s, frag, back, at) ==
    LET loc == [DefaultLoc EXCEPT !.file = 0, !.line = at[2],
                                  !.isa = IF IsGnu THEN l.current.isa ELSE 0]
        row == Row(s, frag, loc, back, at[1])
    IN  IF ~l.on THEN l
        ELSE IF IsGnu
          THEN IF l.last = at THEN l
               ELSE LET seen == [l EXCEPT !.last = at]
                    IN  IF s \in CodeSections THEN PushRow(seen, row) ELSE seen
        ELSE IF s \in l.described THEN PushRow(l, row) ELSE l

IndexOf(sequences) ==
    [s \in Sections |->
        LET i == {j \in DOMAIN sequences : sequences[j][1].section = s}
        IN  IF i = {} THEN 0 ELSE CHOOSE j \in i : TRUE]

IsGiven(row) == row.path = NoPath

(* The elements at some of the positions of a sequence.                    *)
Picked(seq, at) ==
    LET upTo[n \in 0 .. Len(seq)] ==
            IF n = 0 THEN <<>>
            ELSE upTo[n - 1] \o (IF n \in at THEN <<seq[n]>> ELSE <<>>)
    IN  upTo[Len(seq)]

DropGenerated(sequences) ==
    LET kept == [i \in DOMAIN sequences |->
            Picked(sequences[i], {j \in DOMAIN sequences[i] : IsGiven(sequences[i][j])})]
    IN  Picked(kept, {i \in DOMAIN kept : kept[i] # <<>>})

(* The source describes itself: GNU as drops the rows made up for it,      *)
(* llvm-mc keeps them, for the first file number whatever that is now.     *)
StopGenerating(l) ==
    IF ~l.on THEN l
    ELSE IF IsGnu
      THEN LET kept == DropGenerated(l.sequences)
           IN  [l EXCEPT !.on = FALSE, !.sequences = kept, !.index = IndexOf(kept)]
      ELSE LET taken(row) ==
                   IF row.path = NoPath THEN row
                   ELSE [row EXCEPT !.path = NoPath,
                                    !.loc.file = IF Target.version >= 5 THEN 0 ELSE 1]
           IN  [l EXCEPT !.on = FALSE,
                         !.sequences = [i \in DOMAIN @ |->
                             [j \in DOMAIN @[i] |-> taken(@[i][j])]]]

(***************************************************************************)
(* Statements.  Each is logged with the position it is at.                 *)
(***************************************************************************)
NoDirective ==
    [file |-> 0, line |-> 0, column |-> Absent, isa |-> Absent, isStmt |-> Absent,
     disc |-> 0, flags |-> {}, view |-> "none", bad |-> FALSE]

Entry(is) ==
    [is |-> is, section |-> cur, frag |-> NextFrag, arg |-> NoDirective,
     at |-> NoLine, emits |-> FALSE, back |-> Absent]

(* An instruction is on a line of its own, on that of the statement before *)
(* it, which expanded it, or in another file.                              *)
Lines ==
    IF ~line.on THEN {NoLine}
    ELSE {<<"main", Len(log) + 1>>, <<"other", 1>>} \cup
         (IF log = <<>> \/ log[Len(log)].is # "insn" THEN {} ELSE {log[Len(log)].at})

Statement(is) ==
    /\ Reading
    /\ is \in source.statements
    /\ Len(log) < source.length

DirLoc_KeepsFirst(arg) ==
    /\ Statement("loc")
    /\ log' = Append(log, [Entry("loc") EXCEPT !.arg = arg])
    /\ line' = IF arg.bad \/ arg.file \notin line.files THEN line
               ELSE LET next == [line EXCEPT !.current = Given(line.current, arg), !.pending = TRUE]
                    IN  IF next.current.view = "none" THEN next
                        ELSE ConsumeLoc(next, cur, NextFrag, Absent)
    /\ code' = SealIf(line.pending \/ arg.view # "none")
    /\ UNCHANGED <<source, cur, linked>>

(* .loc: a .loc not consumed yet has its row here, and so has this one if  *)
(* it names a view.                                                        *)
DirLoc(arg) ==
    /\ Statement("loc")
    /\ log' = Append(log, [Entry("loc") EXCEPT !.arg = arg])
    /\ LET made == ConsumeLoc(line, cur, NextFrag, Absent)
           next == [made EXCEPT !.current = Given(made.current, arg), !.pending = TRUE]
       IN  line' = IF arg.bad \/ arg.file \notin line.files THEN made
                   ELSE IF next.current.view = "none" THEN next
                   ELSE ConsumeLoc(next, cur, NextFrag, Absent)
    /\ code' = SealIf(line.pending \/ arg.view # "none")
    /\ UNCHANGED <<source, cur, linked>>

(* An instruction is a fragment of its own, and one that emits nothing     *)
(* leaves the .loc to the next.                                            *)
Instruction(insn, at) ==
    /\ Statement("insn")
    /\ LET emits == insn.frag.size > 0
           rowed == SourceRow(line, cur, NextFrag, insn.back, at)
       IN  /\ line' = IF emits THEN ConsumeLoc(rowed, cur, NextFrag, insn.back) ELSE line
           /\ log' = Append(log, [Entry("insn") EXCEPT !.emits = emits, !.back = insn.back,
                                                       !.at = at])
    /\ code' = [code EXCEPT ![cur] = Push(@, insn.frag)]
    /\ UNCHANGED <<source, cur, linked>>

(* A byte of data, which llvm-mc gives a row.                              *)
Data ==
    /\ Statement("data")
    /\ log' = Append(log, Entry("data"))
    /\ LET rows == line.pending /\ ~IsGnu
           before == [code[cur] EXCEPT !.open = @ /\ ~rows]
       IN  /\ line' = IF rows THEN ConsumeLoc(line, cur, NextFrag, Absent) ELSE line
           /\ code' = [code EXCEPT ![cur] = EmitByte(before)]
    /\ UNCHANGED <<source, cur, linked>>

Align(frag) ==
    /\ Statement("align")
    /\ log' = Append(log, Entry("align"))
    /\ code' = [code EXCEPT ![cur] = Push(@, frag)]
    /\ UNCHANGED <<source, cur, line, linked>>

(* A switch of section, where llvm-mc forgets a .loc nothing consumed.     *)
(* With -g it describes the sections .section names.                       *)
SwitchSection(s, named) ==
    /\ Statement("section")
    /\ log' = Append(log, [Entry("section") EXCEPT !.section = s, !.emits = named])
    /\ cur' = s
    /\ line' = [line EXCEPT
          !.pending = @ /\ (IsGnu \/ s = cur),
          !.described = IF named /\ line.on /\ s \in CodeSections THEN @ \cup {s} ELSE @]
    /\ UNCHANGED <<source, code, linked>>

(* A label: with .loc_mark_labels GNU as makes a row of its own there.     *)
Label ==
    /\ Statement("label")
    /\ log' = Append(log, Entry("label"))
    /\ LET marked == [line.current EXCEPT !.flags = @ \cup {"basic_block"}]
           rows == line.markLabels /\ IsGnu /\ line.files # {} /\ cur \in CodeSections
       IN  line' = IF ~rows THEN line
                   ELSE [PushRow(line, Row(cur, NextFrag, marked, Absent, NoPath)) EXCEPT
                            !.pending = FALSE, !.current = Spent(@)]
    /\ code' = SealIf(TRUE)
    /\ UNCHANGED <<source, cur, linked>>

DirLocMarkLabels(on) ==
    /\ Statement("mark")
    /\ log' = Append(log, [Entry("mark") EXCEPT !.emits = on])
    /\ line' = [line EXCEPT !.markLabels = on]
    /\ UNCHANGED <<source, code, cur, linked>>

(* A numbered .file.  File 0 asks for version 5.                           *)
DirFile(n) ==
    /\ Statement("file")
    /\ log' = Append(log, [Entry("file") EXCEPT !.arg.file = n])
    /\ line' = [StopGenerating(line) EXCEPT !.files = @ \cup {n}]
    /\ UNCHANGED <<source, code, cur, linked>>

(***************************************************************************)
(* The end: layout has settled, the table is written from it, and a linker *)
(* takes bytes away where the object lets it.                              *)
(***************************************************************************)
LineVersion == IF 0 \in line.files THEN 5 ELSE Target.version
TableTarget == [Target EXCEPT !.version = LineVersion]

(* The files of generated rows are numbered in the order the rows are      *)
(* written, or are the one llvm-mc has.                                    *)
Occurrences(path) ==
    {p \in (DOMAIN line.sequences) \X (1..Len(log)) :
        LET rows == line.sequences[p[1]]
        IN  p[2] <= Len(rows) /\ rows[p[2]].path = path}

FirstOccursBy(p, q) ==
    \E a \in Occurrences(p) : \A b \in Occurrences(q) :
        a[1] < b[1] \/ (a[1] = b[1] /\ a[2] <= b[2])

FileNumber(path) ==
    IF IsGnu THEN Cardinality({p \in {"main", "other"} : FirstOccursBy(p, path)})
    ELSE IF LineVersion >= 5 THEN 0 ELSE 1

NumberedRows(rows) ==
    [j \in DOMAIN rows |->
        IF rows[j].path = NoPath THEN rows[j]
        ELSE [rows[j] EXCEPT !.loc.file = FileNumber(rows[j].path)]]

(* What is written for the i-th sequence, once layout has settled.         *)
SectionOf(rows) == rows[1].section
WrittenFor(i) ==
    LET rows == NumberedRows(line.sequences[i])
    IN  LineProgram(TableTarget, code[SectionOf(rows)].frags, rows)

Moving ==
    UNION {{<<s, f>> : f \in {g \in DOMAIN code[s].frags :
        code[s].frags[g].moves /\ code[s].frags[g].size > 0}} : s \in Sections}

(* "taken" is the fragments a linker takes a byte from.                    *)
Link(taken) ==
    /\ Reading
    /\ linked' = [s \in Sections |->
          [f \in DOMAIN code[s].frags |->
              IF <<s, f>> \in taken THEN [code[s].frags[f] EXCEPT !.size = @ - 1]
              ELSE code[s].frags[f]]]
    /\ UNCHANGED <<source, code, cur, line, log>>

Next ==
    \/ \E arg \in source.locs : DirLoc(arg)
    \/ \E insn \in source.insns, at \in Lines : Instruction(insn, at)
    \/ Data
    \/ \E frag \in source.aligns : Align(frag)
    \/ \E s \in Sections, named \in {FALSE, line.on} : SwitchSection(s, named)
    \/ Label
    \/ \E on \in BOOLEAN : DirLocMarkLabels(on)
    \/ \E n \in source.files : DirFile(n)
    \/ \E taken \in SUBSET Moving : Link(taken)

Spec == Init /\ [][Next]_vars
=============================================================================
