------------------------------ MODULE Sections ------------------------------
(***************************************************************************)
(* Sections and their fragments (section.rs), and the backends whose code  *)
(* may be in them (arch/).                                                 *)
(*                                                                         *)
(* What a statement emits is an item.  A fragment is the sequence of items *)
(* merged into it: a position in the source is named by the index of the   *)
(* fragment it is the start of, which is right only as long as nothing is  *)
(* merged across the position.  A backend's state is represented by the    *)
(* mark its code has, which tells the backend as well: "a" and "t" are     *)
(* arm's in ARM and in Thumb, "x" is aarch64's, and "p" is powerpc's, which *)
(* has no mapping symbols.                                                 *)
(***************************************************************************)
EXTENDS Integers, Sequences

Arm == {"a", "t"}
Modes == Arm \cup {"x", "p"}
Data == "d"
Unmarked == "none"

HasMapping(mode) == mode # "p"
PadsAsLastInstruction(mode) == mode \in Arm
PadsSectionTail(mode, exec) == mode \in Arm /\ exec
TailAlignLimit == 4
AlignPaddingIsCode(mode) == mode = "x"
HasLiteralPool(mode) == mode # "p"
CodeUnit(mode) == IF mode = "t" THEN 2 ELSE 4

(* What an item is: an instruction, a byte of data, an entry of a literal  *)
(* pool, the padding of an alignment, or what an .org skips.  "mode" is    *)
(* the state an instruction or no-op padding is in, and Data otherwise;    *)
(* "slot" the backend that emitted it; "n" the bytes of an instruction,    *)
(* the boundary padding is for, or the value of a pool entry; "most" the   *)
(* most bytes padding may take.                                            *)
NoLimit == 1000
Insn(n, mode, slot) == [is |-> "insn", mode |-> mode, slot |-> slot, n |-> n, most |-> NoLimit]
Byte(slot) == [is |-> "byte", mode |-> Data, slot |-> slot, n |-> 0, most |-> NoLimit]
PoolEntry(value, slot) == [is |-> "entry", mode |-> Data, slot |-> slot, n |-> value, most |-> NoLimit]
Padding(n, mode, most, slot) == [is |-> "pad", mode |-> mode, slot |-> slot, n |-> n, most |-> most]
Skip(slot) == [is |-> "skip", mode |-> Data, slot |-> slot, n |-> 0, most |-> NoLimit]

NewSection(exec) ==
    [exec |-> exec, align |-> 1, frags |-> <<>>, open |-> FALSE,
     archMarks |-> <<>>, mapState |-> Unmarked, mapEvents |-> <<>>,
     nopState |-> Unmarked]

NextFragIndex(s) == Len(s.frags)

Seal(s) == [s EXCEPT !.open = FALSE]

Push(s, item) ==
    [s EXCEPT !.open = FALSE, !.nopState = Unmarked,
              !.frags = Append(@, <<item>>)]

(* Data is appended to the last fragment when that is safe.                *)
EmitBytes(s, item) ==
    IF s.open
      THEN [s EXCEPT !.frags[Len(s.frags)] = Append(@, item)]
      ELSE [s EXCEPT !.frags = Append(@, <<item>>), !.open = TRUE]

RaiseAlign(s, n) == [s EXCEPT !.align = IF @ < n THEN n ELSE @]

MarkArch_Unsealed(s, slot) ==
    [s EXCEPT !.nopState = Unmarked,
              !.archMarks = Append(@, [at |-> NextFragIndex(s), slot |-> slot])]

(* Fragments from here on are emitted by the backend in "slot".  A mark    *)
(* under which nothing was emitted is replaced.                            *)
MarkArch(s, slot) ==
    LET marks == s.archMarks
        last == IF marks = <<>> THEN [at |-> -1, slot |-> 0] ELSE marks[Len(marks)]
        mark == [at |-> NextFragIndex(s), slot |-> slot]
    IN  [s EXCEPT !.open = FALSE, !.nopState = Unmarked, !.archMarks =
            IF last.slot = slot THEN marks
            ELSE IF last.at = mark.at THEN [marks EXCEPT ![Len(marks)] = mark]
            ELSE Append(marks, mark)]

(* The backend slot that emitted fragment "frag", counted from 0.          *)
ArchSlot(s, frag) ==
    LET before == {i \in DOMAIN s.archMarks : s.archMarks[i].at <= frag}
    IN  IF before = {} THEN 0
        ELSE s.archMarks[CHOOSE i \in before : \A j \in before : j <= i].slot

(* The bytes of an item at offset "at" of its section, once layout has     *)
(* sized it.                                                               *)
ItemSize(item, at) ==
    CASE item.is = "insn" -> item.n
      [] item.is = "entry" -> 4
      [] item.is \in {"byte", "skip"} -> 1
      [] item.is = "pad" ->
            LET pad == (item.n - (at % item.n)) % item.n
            IN  IF pad > item.most THEN 0 ELSE pad

(* The offset of every fragment, and of the section's end.                 *)
FragOffsets(s) ==
    LET end[f \in 0..Len(s.frags)] ==
            IF f = 0 THEN 0
            ELSE LET within[i \in 0..Len(s.frags[f])] ==
                         IF i = 0 THEN end[f - 1]
                         ELSE within[i - 1] + ItemSize(s.frags[f][i], within[i - 1])
                 IN  within[Len(s.frags[f])]
    IN  end

-----------------------------------------------------------------------------
(***************************************************************************)
(* Mapping symbols (mapping.rs): which bytes of a section are code, in     *)
(* which instruction set, and which are data.  They are recorded while the *)
(* source is read, as the fragments they are the start of, and placed once *)
(* the layout is known.                                                    *)
(***************************************************************************)
At(frag, name) == [frag |-> frag, name |-> name, odd |-> FALSE]
OddPadding(frag, name) == [frag |-> frag, name |-> name, odd |-> TRUE]

MapTransition_NotFromStart(s, name, always) ==
    IF s.mapState = name /\ ~always THEN s
    ELSE [Seal(s) EXCEPT !.mapState = name,
              !.mapEvents = Append(@, At(NextFragIndex(s), name))]

(* GNU as's mapping_state_2.  Code after unmarked data marks that data     *)
(* from the section's start.                                               *)
MapTransition(s, name, always) ==
    IF s.mapState = name /\ ~always THEN s
    ELSE LET first == IF s.mapState = Unmarked /\ name # Data /\ s.frags # <<>>
                        THEN <<At(0, Data)>> ELSE <<>>
         IN  [Seal(s) EXCEPT !.mapState = name,
                 !.mapEvents = @ \o first \o <<At(NextFragIndex(s), name)>>]

MapCode(s, mode) ==
    IF ~HasMapping(mode) \/ s.mapState = mode THEN s
    ELSE MapTransition(RaiseAlign(s, CodeUnit(mode)), mode, FALSE)

(* Data at the start of a section waits to be marked until code follows.   *)
MapData(s, mode) ==
    IF ~HasMapping(mode) \/ s.mapState \in {Data, Unmarked} THEN s
    ELSE MapTransition(s, Data, FALSE)

MapDataFrag(s, mode) ==
    IF ~HasMapping(mode) THEN s ELSE MapTransition(s, Data, FALSE)

MapAlign(s, mode) ==
    LET marked == MapTransition(s, mode, FALSE)
    IN  [marked EXCEPT !.mapEvents =
            Append(@, OddPadding(NextFragIndex(marked), mode))]

MapCodeAlign(s, mode) ==
    IF ~HasMapping(mode) THEN s ELSE MapAlign(s, mode)

PlaceEvent_AllCode(ev, start) ==
    IF ev.odd THEN <<>> ELSE <<[at |-> start[ev.frag], name |-> ev.name]>>

(* The symbols of one event at the settled offsets "start".  The odd bytes *)
(* of no-op padding, too few for an instruction, are data.                 *)
PlaceEvent(ev, start) ==
    IF ~ev.odd THEN <<[at |-> start[ev.frag], name |-> ev.name]>>
    ELSE LET pad == IF ev.frag + 1 \in DOMAIN start
                      THEN start[ev.frag + 1] - start[ev.frag] ELSE 0
             odd == pad % CodeUnit(ev.name)
         IN  IF odd = 0 THEN <<>>
             ELSE <<[at |-> start[ev.frag], name |-> Data],
                    [at |-> start[ev.frag] + odd, name |-> ev.name]>>

(* A symbol followed by another at the same address says nothing, and      *)
(* neither does one at the end of the section.                             *)
PlaceMappingSymbols(s) ==
    LET start == FragOffsets(s)
        placed[i \in 0..Len(s.mapEvents)] ==
            IF i = 0 THEN <<>>
            ELSE placed[i - 1] \o PlaceEvent(s.mapEvents[i], start)
        all == placed[Len(s.mapEvents)]
        kept == {i \in DOMAIN all :
                    /\ \A j \in DOMAIN all : all[j].at = all[i].at => j <= i
                    /\ all[i].at # start[Len(s.frags)]}
    IN  {all[i] : i \in kept}
=============================================================================
