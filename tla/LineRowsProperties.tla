------------------------- MODULE LineRowsProperties -------------------------
(***************************************************************************)
(* What the rows of a line table have to be: those the source asks for, at *)
(* the places where it asks for them, and readable from what is written.   *)
(***************************************************************************)
EXTENDS LineRows, SequencesExt

(***************************************************************************)
(* What the source says, by the statements that surround a .loc.           *)
(***************************************************************************)
Statements == DOMAIN log
SectionBefore(j) == IF j = 1 THEN Text ELSE log[j - 1].section

FileBefore(j, n) == \E k \in 1 .. j - 1 : log[k].is = "file" /\ log[k].arg.file = n
AnyFileBefore(j) == \E k \in 1 .. j - 1 : log[k].is = "file"
Accepted(i) == log[i].is = "loc" /\ ~log[i].arg.bad /\ FileBefore(i, log[i].arg.file)
HasView(i) == IsGnu /\ log[i].arg.view # "none"

Newest(S) == CHOOSE i \in S : \A j \in S : j <= i
MarkingAt(j) ==
    LET marks == {k \in 1 .. j - 1 : log[k].is = "mark"}
    IN  marks # {} /\ log[Newest(marks)].emits

Emits(j) == log[j].is = "insn" /\ log[j].emits
InCode(j) == log[j].section \in CodeSections
IsMarked(j) == log[j].is = "label" /\ IsGnu /\ MarkingAt(j) /\ AnyFileBefore(j) /\ InCode(j)
Consumes(j) == log[j].is = "loc" \/ Emits(j) \/ (log[j].is = "data" /\ ~IsGnu)
Leaves(j) == log[j].is = "section" /\ log[j].section # SectionBefore(j)
EndsWait(j) == Consumes(j) \/ IsMarked(j) \/ (Leaves(j) /\ ~IsGnu)

(* .loc i still waits for a row when statement j is read.                  *)
Waits(i, j) == Accepted(i) /\ i < j /\ ~HasView(i) /\ \A k \in i + 1 .. j - 1 : ~EndsWait(k)

(* What a .loc says, with what it takes from those before it.              *)
Latest(i, Gives(_), Value(_), default) ==
    LET giving == {k \in 1..i : Accepted(k) /\ Gives(k)}
    IN  IF giving = {} THEN default ELSE Value(Newest(giving))

Meant(i) ==
    LET arg == log[i].arg
        Column(k) == log[k].arg.column
        HasColumn(k) == Column(k) # Absent /\ (IsGnu \/ k = i)
        Isa(k) == log[k].arg.isa
        HasIsa(k) == Isa(k) # Absent /\ (IsGnu \/ k = i)
        IsStmt(k) == log[k].arg.isStmt = 1
        HasIsStmt(k) == log[k].arg.isStmt # Absent
    IN  [file |-> arg.file, line |-> arg.line,
         column |-> Latest(i, HasColumn, Column, 0), isa |-> Latest(i, HasIsa, Isa, 0),
         isStmt |-> Latest(i, HasIsStmt, IsStmt, TRUE),
         disc |-> arg.disc, flags |-> arg.flags, view |-> IF IsGnu THEN arg.view ELSE "none"]

LocRow(i, j) ==
    IF IsGnu /\ (log[i].arg.line = 0 \/ ~InCode(j)) THEN <<>>
    ELSE <<Row(log[j].section, log[j].frag, Meant(i), log[j].back, NoPath)>>

LabelRow(j) ==
    LET said == {i \in 1 .. j - 1 : Accepted(i)}
        last == Newest(said)
        loc == IF said = {} THEN DefaultLoc
               ELSE IF Waits(last, j) THEN Meant(last)
               ELSE [Meant(last) EXCEPT !.disc = 0, !.flags = {}, !.view = "none"]
    IN  <<Row(log[j].section, log[j].frag,
              [loc EXCEPT !.flags = @ \cup {"basic_block"}], Absent, NoPath)>>

(* A row for the source itself: never beside rows the source asks for,     *)
(* except that llvm-mc keeps those made before the first numbered .file.   *)
Generates(j) ==
    LET before == {k \in 1 .. j - 1 : Emits(k)}
        named == {log[k].section : k \in {m \in 1 .. j - 1 : log[m].is = "section" /\ log[m].emits}}
    IN  /\ source.g /\ Emits(j) /\ ~AnyFileBefore(j)
        /\ IF IsGnu
             THEN /\ ~AnyFileBefore(Len(log) + 1)
                  /\ InCode(j)
                  /\ before = {} \/ log[Newest(before)].at # log[j].at
             ELSE log[j].section \in {Text} \cup (named \cap CodeSections)

GeneratedRow(j) ==
    LET kept == AnyFileBefore(Len(log) + 1)
        file == IF kept /\ Target.version < 5 THEN 1 ELSE 0
    IN  <<Row(log[j].section, log[j].frag,
              [DefaultLoc EXCEPT !.file = file, !.line = log[j].at[2]],
              log[j].back, IF kept THEN NoPath ELSE log[j].at[1])>>

RowsAt(j) ==
    (IF Generates(j) THEN GeneratedRow(j) ELSE <<>>) \o
    (IF Consumes(j) /\ \E i \in 1 .. j - 1 : Waits(i, j)
       THEN LocRow(CHOOSE i \in 1 .. j - 1 : Waits(i, j), j) ELSE <<>>) \o
    (IF IsMarked(j) THEN LabelRow(j) ELSE <<>>) \o
    (IF log[j].is = "loc" /\ Accepted(j) /\ HasView(j) THEN LocRow(j, j) ELSE <<>>)

Asked(s) ==
    FlattenSeq([j \in Statements |-> IF log[j].section = s THEN RowsAt(j) ELSE <<>>])

Recorded(s) ==
    FlattenSeq([i \in DOMAIN line.sequences |->
        IF line.sequences[i][1].section = s THEN line.sequences[i] ELSE <<>>])

(* Each section has the rows its source asks for, by the rules of the      *)
(* reference the target follows (the table at the head of dwarf/line.rs):  *)
(* who consumes a .loc, what it takes from the one before, when it is      *)
(* dropped, and whether rows are made for the source instead.              *)
RowsFollowSource == \A s \in Sections : Recorded(s) = Asked(s)

(* The rows of a sequence are in one section, no other sequence is, and    *)
(* they never go back: the writer takes a distance that would be negative  *)
(* for zero (line_program's saturating_sub), so an earlier row would be    *)
(* written at the wrong address.                                           *)
RowsAreOrdered ==
    /\ \A i, j \in DOMAIN line.sequences :
          \A a \in DOMAIN line.sequences[i], b \in DOMAIN line.sequences[j] :
             line.sequences[i][a].section = line.sequences[j][b].section => i = j
    /\ \A i \in DOMAIN line.sequences : \A a, b \in DOMAIN line.sequences[i] :
          LET first == line.sequences[i][a]
              second == line.sequences[i][b]
          IN  /\ first.section = second.section
              /\ a < b => \/ first.frag < second.frag
                         \/ /\ first.frag = second.frag
                            /\ first.back \in {Absent, second.back}

(***************************************************************************)
(* A consumer of the line table: the state machine of the DWARF standard.  *)
(***************************************************************************)
Registers ==
    [address |-> 0, file |-> 1, line |-> 1, column |-> 0, isa |-> 0, isStmt |-> TRUE,
     disc |-> 0, flags |-> {}, view |-> 0, rows |-> <<>>, end |-> Absent]

Forward(r, bytes) ==
    [r EXCEPT !.address = @ + bytes, !.view = IF bytes = 0 THEN @ ELSE 0]

AddRow(r) ==
    [r EXCEPT !.disc = 0, !.flags = {}, !.view = @ + 1,
              !.rows = Append(@, [address |-> r.address, file |-> r.file, line |-> r.line,
                                  column |-> r.column, isa |-> r.isa, isStmt |-> r.isStmt,
                                  disc |-> r.disc, flags |-> r.flags, view |-> r.view])]

LinkedAddress(frags, place) == Offset(frags, place.frag) + place.off

Execute(target, frags, r, op) ==
    LET base == OpcodeBase(target)
        special == op.code - base
    IN  CASE op.code >= base ->
                AddRow([Forward(r, (special \div LineRange) * target.min) EXCEPT
                            !.line = @ + LineBase + (special % LineRange)])
          [] op.code = Copy -> AddRow(r)
          [] op.code = AdvancePc -> Forward(r, op.arg * target.min)
          [] op.code = AdvanceLine -> [r EXCEPT !.line = @ + op.arg]
          [] op.code = SetFile -> [r EXCEPT !.file = op.arg]
          [] op.code = SetColumn -> [r EXCEPT !.column = op.arg]
          [] op.code = NegateStmt -> [r EXCEPT !.isStmt = ~@]
          [] op.code = SetBasicBlock -> [r EXCEPT !.flags = @ \cup {"basic_block"}]
          [] op.code = ConstAddPc -> Forward(r, MaxSpecial(base) * target.min)
          [] op.code = FixedAdvancePc ->
                Forward(r, IF op.arg # Absent THEN op.arg
                           ELSE (LinkedAddress(frags, op.to) - LinkedAddress(frags, op.from))
                                    % FieldSize)
          [] op.code = SetPrologueEnd /\ base > SetPrologueEnd ->
                [r EXCEPT !.flags = @ \cup {"prologue_end"}]
          [] op.code = SetEpilogueBegin /\ base > SetEpilogueBegin ->
                [r EXCEPT !.flags = @ \cup {"epilogue_begin"}]
          [] op.code = SetIsa /\ base > SetIsa -> [r EXCEPT !.isa = op.arg]
          [] op.code = Extended /\ op.sub = SetAddress ->
                [r EXCEPT !.address = LinkedAddress(frags, op.to), !.view = 0]
          [] op.code = Extended /\ op.sub = SetDiscriminator -> [r EXCEPT !.disc = op.arg]
          [] op.code = Extended /\ op.sub = EndSequence -> [r EXCEPT !.end = r.address]

Consumed(target, frags, ops) ==
    LET after[n \in 0 .. Len(ops)] ==
            IF n = 0 THEN Registers ELSE Execute(target, frags, after[n - 1], ops[n])
    IN  after[Len(ops)]

(***************************************************************************)
(* What it has to read.                                                    *)
(***************************************************************************)
Written == ~Reading

Fragments(i) == code[SectionOf(line.sequences[i])].frags
LinkedFragments(i) == linked[SectionOf(line.sequences[i])]
Addresses(i) ==
    {RowAddr(Fragments(i), line.sequences[i][j]) : j \in DOMAIN line.sequences[i]}

(* Addresses that are no whole number of instructions apart cannot be      *)
(* written: GNU as reports them, llvm-mc rounds them down.                 *)
IsAligned(i) ==
    \A a, b \in Addresses(i) \cup {Size(Fragments(i))} : (a - b) % Target.min = 0

(* A version 2 table has no opcode for these.                              *)
IsVersion2(loc) ==
    loc.isa = 0 /\ loc.flags \cap {"prologue_end", "epilogue_begin"} = {}
HasOpcodes(i) ==
    OpcodeBase(TableTarget) > SetIsa
    \/ \A j \in DOMAIN line.sequences[i] : IsVersion2(line.sequences[i][j].loc)

(* A fixed advance to the end is a number of 16 bits whatever it is, which *)
(* it may be wherever a linker moves code.                                 *)
EndsInReach(i) ==
    Target.fixed \/ (\E f \in DOMAIN Fragments(i) : Fragments(i)[f].moves) =>
        \E a \in Addresses(i) : Size(Fragments(i)) - a < FieldSize

RowMeaning(i, row) ==
    LET loc == row.loc
    IN  [address |-> LinkedAddress(LinkedFragments(i), At(Fragments(i), row)),
         file |-> loc.file, line |-> loc.line, column |-> loc.column, isa |-> loc.isa,
         isStmt |-> loc.isStmt, flags |-> loc.flags,
         disc |-> IF IsGnu \/ LineVersion >= 4 THEN loc.disc ELSE 0]

ReadsBack(i) ==
    LET read == Consumed(TableTarget, LinkedFragments(i), WrittenFor(i))
        rows == NumberedRows(line.sequences[i])
        seen(row) == [f \in DOMAIN row \ {"view"} |-> row[f]]
    IN  /\ Len(read.rows) = Len(rows)
        /\ \A j \in DOMAIN rows : seen(read.rows[j]) = RowMeaning(i, rows[j])
        /\ read.end = Size(LinkedFragments(i))

(* A consumer reads the rows that were recorded, each at the address its   *)
(* position has in the linked program, whatever the linker took away in    *)
(* between, and the end of the code (line_program).                        *)
TableReadsBack ==
    Written => \A i \in DOMAIN line.sequences :
        IsAligned(i) /\ HasOpcodes(i) /\ EndsInReach(i) => ReadsBack(i)

(* The numbers view symbols are given are those a consumer counts, which   *)
(* starts again where the address changes or is set (assign_views).        *)
ViewsReadBack ==
    Written /\ IsGnu => \A i \in DOMAIN line.sequences :
        IsAligned(i) /\ HasOpcodes(i) /\ LinkedFragments(i) = Fragments(i) =>
            LET read == Consumed(TableTarget, Fragments(i), WrittenFor(i))
            IN  \A j \in DOMAIN line.sequences[i] :
                    read.rows[j].view = AssignViews(Fragments(i), line.sequences[i])[j]

=============================================================================
