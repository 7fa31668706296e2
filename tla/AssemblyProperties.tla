------------------------- MODULE AssemblyProperties -------------------------
(***************************************************************************)
(* What the sections promise the layout and the object written from them.  *)
(***************************************************************************)
EXTENDS Assembly

(* No fragment holds what two backends emitted, and layout resolves and    *)
(* pads each with the one that did: "one fragment would have two byte      *)
(* orders" otherwise (mark_arch, arch_slot).                               *)
OneBackendPerFragment ==
    \A n \in DOMAIN sections :
        \A f \in DOMAIN sections[n].frags :
            \A i \in DOMAIN sections[n].frags[f] :
                sections[n].frags[f][i].slot = ArchSlot(sections[n], f - 1)

(* The items of fragments 1 to "last" of a section, as one sequence.       *)
ItemsUpTo(s, last) ==
    LET upTo[f \in 0..last] == IF f = 0 THEN <<>> ELSE upTo[f - 1] \o s.frags[f]
    IN  upTo[last]

Items(n) ==
    IF n \in DOMAIN sections
      THEN ItemsUpTo(sections[n], Len(sections[n].frags)) ELSE <<>>

(* What the label names: the first item of its fragment, whichever the     *)
(* items before it are.                                                    *)
PlaceOf(label) ==
    [section |-> label.section, value |-> label.value, slot |-> label.slot,
     index |-> IF label.frag = Pending THEN 0
               ELSE Len(ItemsUpTo(sections[label.section], label.frag)) + 1]

Streamed == [n \in AllSections |-> Items(n)]

Placed == [l \in DOMAIN labels |-> PlaceOf(labels[l])]

Stream == INSTANCE Streams WITH stream <- Streamed, place <- Placed

(* Fragments implement streams: merging, sealing, padding and the pools    *)
(* written late never move a label off what its statement emitted          *)
(* (define_label, reattach_labels, flush_literals).                        *)
LabelsHoldTheirPlace == Stream!Spec

(* A load's literal is written in the load's own section, and while it is  *)
(* still to come the backend of the load is active (flush_all_literals):   *)
(* at the end of the source none is left.                                  *)
LiteralsAreWritten ==
    \A l \in DOMAIN labels :
        labels[l].frag = Pending =>
            /\ phase = "reading"
            /\ labels[l].slot = Slot
            /\ \E i \in DOMAIN literalPools[labels[l].section] :
                  literalPools[labels[l].section][i] = labels[l].value

(* The mark a disassembler goes by at offset "at": the last symbol's, and  *)
(* data before the first.                                                  *)
MarkAt(n, at) ==
    LET before == {m \in mappingSymbols[n] : m.at <= at}
    IN  IF before = {} THEN Data
        ELSE (CHOOSE m \in before : \A o \in before : o.at <= m.at).name

(* Whether an item of "size" bytes at offset "from" is marked as what it   *)
(* is.  A backend without mapping symbols marks nothing, nor does .org;    *)
(* AArch64 marks the zeros in front of a pool as code.                     *)
IsMarked(n, item, from, size) ==
    LET odd == IF item.is = "pad" /\ item.mode # Data THEN size % CodeUnit(item.mode) ELSE 0
        exempt ==
            \/ ~HasMapping(archSlots[item.slot + 1])
            \/ item.is = "skip"
            \/ /\ item.is = "pad" /\ item.mode = Data
               /\ AlignPaddingIsCode(archSlots[item.slot + 1])
    IN  \/ exempt
        \/ \A at \in from..from + size - 1 :
              MarkAt(n, at) = IF at < from + odd THEN Data ELSE item.mode

(* Every byte of a mapping backend is under a symbol that says whether it  *)
(* is code, of which instruction set, or data, after the symbols layout    *)
(* makes superfluous are dropped (place_mapping_symbols).                  *)
MappingCovers ==
    phase = "done" /\ ~failed =>
        \A n \in DOMAIN sections :
            LET items == Items(n)
                at[i \in 0..Len(items)] ==
                    IF i = 0 THEN 0 ELSE at[i - 1] + ItemSize(items[i], at[i - 1])
            IN  \A i \in DOMAIN items :
                    IsMarked(n, items[i], at[i - 1], at[i] - at[i - 1])

(* Data a section starts with is marked once code follows it, "from the    *)
(* section start" (map_transition_with), whichever backends emit in        *)
(* between.  Padding, which .arm asks for too, and .space mark themselves, *)
(* and so may leave data before them unmarked: the property is for sources *)
(* without them.                                                           *)
DataIsMarkedFromStart ==
    phase = "done" /\ ~failed /\ source.statements \cap {"align", "space", "org", "mode"} = {} =>
        \A n \in DOMAIN sections :
            (\E m \in mappingSymbols[n] : m.name # Data)
              => LET items == Items(n)
                 IN  items[1].is = "byte" /\ HasMapping(archSlots[items[1].slot + 1])
                       => [at |-> 0, name |-> Data] \in mappingSymbols[n]

=============================================================================
