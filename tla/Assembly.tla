------------------------------ MODULE Assembly ------------------------------
(***************************************************************************)
(* What the statements of a source do to the sections: where labels point, *)
(* which section is current, which backend emits, what goes into a literal *)
(* pool and when it is written (assembler.rs, directives.rs, literals.rs). *)
(***************************************************************************)
EXTENDS Sections, FiniteSets

CONSTANTS
    Sources,        \* the kinds of source to read
    SectionNames,   \* sections a directive may name
    MaxStatements

(* first: states the assembler may be created in; backends: the initial    *)
(* states of those .arch may name; statements: the kinds of statement;     *)
(* values: what literals are asked for, numbered from 1.                   *)
ASSUME SourcesAssumption ==
    \A s \in Sources :
        s.first \cup s.backends \subseteq Modes /\ s.values \subseteq Nat \ {0}
ASSUME SectionsAssumption == SectionNames \subseteq {"text", "data"} /\ "text" \in SectionNames
ASSUME LimitAssumption == MaxStatements \in Nat

VARIABLES
    source,         \* what is read
    sections,       \* the sections created so far
    cur, previous,  \* the current section, and the one .previous returns to
    sectionStack,   \* what .popsection restores
    archSlots,      \* the backend of each slot, the last the active one
    labels,         \* where each label points, in the order of their first use
    literalPools,   \* the literals asked for since the section's last pool
    mappingSymbols, \* of each section, once the source has been read
    failed,         \* whether an error was reported
    read, phase

vars == <<source, sections, cur, previous, sectionStack, archSlots, labels,
          literalPools, mappingSymbols, failed, read, phase>>

NoSection == "none"
AllSections == SectionNames \cup {"bss"}
IsExec(n) == n = "text"
IsNobits(n) == n = "bss"

Slot == Len(archSlots) - 1
Mode == archSlots[Len(archSlots)]

(* A label is a fragment of a section; Pending, one no fragment has been   *)
(* given to yet.  The label of a literal remembers its value and the slot  *)
(* of the load.                                                            *)
Pending == -1
Label(n, frag) == [section |-> n, frag |-> frag, value |-> 0, slot |-> 0]
LiteralLabel(n, value, slot) == [section |-> n, frag |-> Pending, value |-> value, slot |-> slot]

Init ==
    /\ source \in Sources
    /\ archSlots \in {<<m>> : m \in source.first}
    /\ sections = [n \in {"text"} |-> NewSection(TRUE)]
    /\ cur = "text"
    /\ previous = NoSection
    /\ sectionStack = <<>>
    /\ labels = <<>>
    /\ literalPools = [n \in AllSections |-> <<>>]
    /\ mappingSymbols = [n \in AllSections |-> {}]
    /\ failed = FALSE
    /\ read = 0
    /\ phase = "reading"

(* The source has one more statement, of this kind.                        *)
Statement(kind) ==
    /\ phase = "reading"
    /\ kind \in source.statements
    /\ read < MaxStatements
    /\ read' = read + 1
    /\ UNCHANGED <<source, mappingSymbols, phase>>

(* The sections once "n" exists.                                           *)
WithSection(n) ==
    IF n \in DOMAIN sections THEN sections
    ELSE [m \in DOMAIN sections \cup {n} |->
            IF m = n THEN MarkArch(NewSection(IsExec(n)), Slot) ELSE sections[m]]

(* A label is defined at the next fragment, which nothing before it may be *)
(* merged into.                                                            *)
AtLabel(s, labelled) == IF labelled THEN Seal(s) ELSE s

OwnLabel(labelled, frag) == IF labelled THEN <<Label(cur, frag)>> ELSE <<>>

(* The no-ops of padding are the last instruction's, if nothing but data   *)
(* has followed it.                                                        *)
NopMode(s) == IF s.nopState = Unmarked THEN Mode ELSE s.nopState

AlignZero(s, n) ==
    Push(IF AlignPaddingIsCode(Mode) THEN MapCode(s, Mode) ELSE MapDataFrag(s, Mode),
         Padding(n, Data, NoLimit, Slot))

(* The literals of a pool, each value once, in the order first asked for.  *)
PoolValues(pool) ==
    LET first == {i \in DOMAIN pool :
                    \A j \in DOMAIN pool : pool[j] = pool[i] => i <= j}
    IN  [k \in 1..Cardinality(first) |->
            pool[CHOOSE i \in first : Cardinality({j \in first : j <= i}) = k]]

(* The pool starts a fragment, and each of its entries one of its own.     *)
PoolStart(s) ==
    MapTransition(RaiseAlign(AlignZero(s, 4), 4), Data, TRUE)

FlushLiterals(s, pool) ==
    IF pool = <<>> THEN s
    ELSE LET start == PoolStart(s)
             values == PoolValues(pool)
             entries == [k \in DOMAIN values |-> <<PoolEntry(values[k], Slot)>>]
         IN  [start EXCEPT !.frags = @ \o entries, !.open = TRUE]

(* The labels after the pools of the sections in "flushed" are written.    *)
LabelsAfter(flushed) ==
    [l \in DOMAIN labels |->
        LET n == labels[l].section
            values == PoolValues(literalPools[n])
        IN  IF n \notin flushed \/ labels[l].frag # Pending THEN labels[l]
            ELSE [labels[l] EXCEPT !.frag = NextFragIndex(PoolStart(sections[n]))
                    + (CHOOSE k \in DOMAIN values : values[k] = labels[l].value) - 1]]

FlushedSections == [n \in DOMAIN sections |-> FlushLiterals(sections[n], literalPools[n])]

DefineLabel ==
    /\ Statement("label")
    /\ sections' = [sections EXCEPT ![cur] = AtLabel(@, TRUE)]
    /\ labels' = labels \o OwnLabel(TRUE, NextFragIndex(sections[cur]))
    /\ UNCHANGED <<cur, previous, sectionStack, archSlots, literalPools, failed>>

(* A data directive.                                                       *)
DirData(labelled) ==
    /\ Statement("data")
    /\ LET mapped == MapData(AtLabel(sections[cur], labelled), Mode)
       IN  sections' = [sections EXCEPT ![cur] =
               IF IsNobits(cur) THEN mapped ELSE EmitBytes(mapped, Byte(Slot))]
    /\ failed' = (failed \/ IsNobits(cur))
    /\ labels' = labels \o OwnLabel(labelled, NextFragIndex(sections[cur]))
    /\ UNCHANGED <<cur, previous, sectionStack, archSlots, literalPools>>

(* .space or .skip of a known size.                                        *)
DirSpace ==
    /\ Statement("space")
    /\ sections' = [sections EXCEPT ![cur] =
            Push(MapDataFrag(MapData(@, Mode), Mode), Byte(Slot))]
    /\ UNCHANGED <<cur, previous, sectionStack, archSlots, labels, literalPools, failed>>

EmitOrg ==
    /\ Statement("org")
    /\ sections' = [sections EXCEPT ![cur] = Push(@, Skip(Slot))]
    /\ UNCHANGED <<cur, previous, sectionStack, archSlots, labels, literalPools, failed>>

DirAlign ==
    /\ Statement("align")
    /\ LET s == sections[cur]
           nops == NopMode(s)
       IN  sections' = [sections EXCEPT ![cur] = RaiseAlign(
               IF s.exec
                 THEN Push(MapCodeAlign(s, nops), Padding(4, nops, NoLimit, Slot))
                 ELSE Push(MapDataFrag(s, Mode), Padding(4, Data, NoLimit, Slot)), 4)]
    /\ UNCHANGED <<cur, previous, sectionStack, archSlots, labels, literalPools, failed>>

(* The boundary a prefixed instruction of powerpc may not cross, scaled    *)
(* down from 64 bytes.  At most four bytes are put in front of it.         *)
PrefixBoundary == 8

BeforePrefixed(s) ==
    Push(MapCodeAlign(s, NopMode(s)), Padding(PrefixBoundary, NopMode(s), 4, Slot))

EmitInstruction(s, n) ==
    LET pushed == Push(MapCode(s, Mode), Insn(n, Mode, Slot))
    IN  IF PadsAsLastInstruction(Mode)
          THEN [pushed EXCEPT !.nopState = Mode] ELSE pushed

InstructionFrag_Before(padded) == NextFragIndex(sections[cur])

(* The fragment the labels of an instruction's own line are left at: the   *)
(* padding the instruction asked for goes between them and a label on a    *)
(* line of its own.                                                        *)
InstructionFrag(padded) == NextFragIndex(padded)

Instruction(labelled) ==
    /\ Statement("insn")
    /\ ~IsNobits(cur)
    /\ sections' = [sections EXCEPT ![cur] =
            EmitInstruction(AtLabel(@, labelled), CodeUnit(Mode))]
    /\ labels' = labels \o OwnLabel(labelled, NextFragIndex(sections[cur]))
    /\ UNCHANGED <<cur, previous, sectionStack, archSlots, literalPools, failed>>

PrefixedInstruction(labelled) ==
    /\ Statement("prefixed")
    /\ ~IsNobits(cur)
    /\ Mode = "p"
    /\ LET padded == BeforePrefixed(AtLabel(sections[cur], labelled))
       IN  /\ sections' = [sections EXCEPT ![cur] =
                   RaiseAlign(EmitInstruction(padded, 8), PrefixBoundary)]
           /\ labels' = labels \o OwnLabel(labelled, InstructionFrag(padded))
    /\ UNCHANGED <<cur, previous, sectionStack, archSlots, literalPools, failed>>

(* A load of a literal: the entry's label is defined when the pool is      *)
(* written.                                                                *)
LoadLiteral(value) ==
    /\ Statement("literal")
    /\ ~IsNobits(cur)
    /\ HasLiteralPool(Mode)
    /\ sections' = [sections EXCEPT ![cur] = EmitInstruction(@, CodeUnit(Mode))]
    /\ labels' = Append(labels, LiteralLabel(cur, value, Slot))
    /\ literalPools' = [literalPools EXCEPT ![cur] =
            Append(@, value)]
    /\ UNCHANGED <<cur, previous, sectionStack, archSlots, failed>>

(* A section that allocates no file space takes no instruction.            *)
RefuseInstruction(labelled) ==
    /\ Statement("insn")
    /\ IsNobits(cur)
    /\ sections' = [sections EXCEPT ![cur] = AtLabel(@, labelled)]
    /\ labels' = labels \o OwnLabel(labelled, NextFragIndex(sections[cur]))
    /\ failed' = TRUE
    /\ UNCHANGED <<cur, previous, sectionStack, archSlots, literalPools>>

(* .ltorg                                                                  *)
Ltorg ==
    /\ Statement("ltorg")
    /\ HasLiteralPool(Mode)
    /\ sections' = [sections EXCEPT ![cur] = FlushLiterals(@, literalPools[cur])]
    /\ labels' = LabelsAfter({cur})
    /\ literalPools' = [literalPools EXCEPT ![cur] = <<>>]
    /\ UNCHANGED <<cur, previous, sectionStack, archSlots, failed>>

(* .arm and .thumb                                                         *)
SetMode(mode) ==
    /\ Statement("mode")
    /\ {Mode, mode} = Arm
    /\ archSlots' = [archSlots EXCEPT ![Len(archSlots)] = mode]
    /\ sections' = [sections EXCEPT ![cur] =
            RaiseAlign(IF mode = "a" THEN AlignZero(@, 4) ELSE @, 2)]
    /\ UNCHANGED <<cur, previous, sectionStack, labels, literalPools, failed>>

SwitchArch_KeepLiterals(mode) ==
    /\ Statement("arch")
    /\ archSlots' = Append(archSlots, mode)
    /\ sections' = [n \in DOMAIN sections |-> MarkArch(sections[n], Slot + 1)]
    /\ UNCHANGED <<cur, previous, sectionStack, labels, literalPools, failed>>

(* .arch: what is still open belongs to the backend switched away from.    *)
SwitchArch(mode) ==
    /\ Statement("arch")
    /\ archSlots' = Append(archSlots, mode)
    /\ sections' = [n \in DOMAIN sections |-> MarkArch(FlushedSections[n], Slot + 1)]
    /\ labels' = LabelsAfter(AllSections)
    /\ literalPools' = [n \in AllSections |-> <<>>]
    /\ UNCHANGED <<cur, previous, sectionStack, failed>>

SetSection(n) ==
    /\ previous' = cur
    /\ cur' = n

DirSection(n) ==
    /\ Statement("section")
    /\ sections' = WithSection(n)
    /\ SetSection(n)
    /\ UNCHANGED <<sectionStack, archSlots, labels, literalPools, failed>>

PushSection(n) ==
    /\ Statement("push")
    /\ sections' = WithSection(n)
    /\ sectionStack' = Append(sectionStack, [cur |-> cur, previous |-> previous])
    /\ SetSection(n)
    /\ UNCHANGED <<archSlots, labels, literalPools, failed>>

PopSection ==
    /\ Statement("push")
    /\ sectionStack # <<>>
    /\ LET saved == sectionStack[Len(sectionStack)]
       IN  /\ cur' = saved.cur
           /\ previous' = saved.previous
    /\ sectionStack' = SubSeq(sectionStack, 1, Len(sectionStack) - 1)
    /\ UNCHANGED <<sections, archSlots, labels, literalPools, failed>>

SwapPrevious ==
    /\ Statement("previous")
    /\ previous # NoSection
    /\ SetSection(previous)
    /\ UNCHANGED <<sections, sectionStack, archSlots, labels, literalPools, failed>>

(* .lcomm: zeros in .bss, reached by set_section and left by set_section.  *)
ReserveBss ==
    /\ Statement("lcomm")
    /\ LET bss == WithSection("bss")["bss"]
           aligned == RaiseAlign(Push(MapDataFrag(bss, Mode), Padding(4, Data, NoLimit, Slot)), 4)
       IN  /\ sections' = [WithSection("bss") EXCEPT !["bss"] = Push(aligned, Byte(Slot))]
           /\ labels' = Append(labels, Label("bss", NextFragIndex(aligned)))
    /\ previous' = "bss"
    /\ UNCHANGED <<cur, sectionStack, archSlots, literalPools, failed>>

(* The padding of a section's end, by the backend that is said to have     *)
(* emitted its next fragment.                                              *)
PadTail(s) ==
    LET slot == ArchSlot(s, NextFragIndex(s))
        mode == archSlots[slot + 1]
        nops == IF s.nopState = Unmarked THEN mode ELSE s.nopState
        align == IF s.align < TailAlignLimit THEN s.align ELSE TailAlignLimit
        mapped == IF HasMapping(nops) /\ s.exec THEN MapAlign(s, nops) ELSE s
    IN  IF ~PadsSectionTail(mode, s.exec) THEN s
        ELSE IF align <= 1 THEN mapped
        ELSE Push(mapped, Padding(align, IF s.exec THEN nops ELSE Data, NoLimit, slot))

(* The end of the source.                                                  *)
Finish ==
    /\ phase = "reading"
    /\ phase' = "done"
    /\ sections' = [n \in DOMAIN sections |-> PadTail(FlushedSections[n])]
    /\ labels' = LabelsAfter(AllSections)
    /\ literalPools' = [n \in AllSections |-> <<>>]
    /\ mappingSymbols' = [n \in AllSections |->
            IF n \in DOMAIN sections THEN PlaceMappingSymbols(sections'[n]) ELSE {}]
    /\ UNCHANGED <<source, cur, previous, sectionStack, archSlots, failed, read>>

Next ==
    \/ DefineLabel
    \/ \E labelled \in BOOLEAN : DirData(labelled)
    \/ DirSpace
    \/ EmitOrg
    \/ DirAlign
    \/ \E labelled \in BOOLEAN : Instruction(labelled)
    \/ \E labelled \in BOOLEAN : PrefixedInstruction(labelled)
    \/ \E value \in source.values : LoadLiteral(value)
    \/ \E labelled \in BOOLEAN : RefuseInstruction(labelled)
    \/ Ltorg
    \/ \E mode \in Arm : SetMode(mode)
    \/ \E mode \in source.backends : SwitchArch(mode)
    \/ \E n \in SectionNames : DirSection(n)
    \/ \E n \in SectionNames : PushSection(n)
    \/ PopSection
    \/ SwapPrevious
    \/ ReserveBss
    \/ Finish

Spec == Init /\ [][Next]_vars
=============================================================================
