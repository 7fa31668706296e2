--------------------------- MODULE AssemblyProofs ---------------------------
(***************************************************************************)
(* The sections a source fills, for every source.                          *)
(*                                                                         *)
(* What a statement does to a section is one of a few things done one      *)
(* after the other: marks and alignments that leave its items alone, an    *)
(* item pushed as a fragment of its own or merged into an open one, the    *)
(* mark of a backend.  Each keeps the section's fragments to the backends  *)
(* that emitted them (Kept), and adds to the end of its items without      *)
(* moving the start of a sealed position (Emitted).                        *)
(*                                                                         *)
(* Each also keeps what the section's mapping symbols are placed by: the   *)
(* last event before an item tells what the item is (Tracked).  The second *)
(* part follows that to the symbols, through the sizes of the items, the   *)
(* offsets of the fragments and the symbols that are dropped.              *)
(***************************************************************************)
EXTENDS AssemblyProperties, FiniteSetTheorems, FunctionTheorems, SequenceTheorems,
        WellFoundedInduction, TLAPS

Marks == Modes \cup {Data}

Item == [is : {"insn", "byte", "entry", "pad", "skip"}, mode : Marks, slot : Nat,
         n : Nat, most : Nat]

SectionType ==
    [exec : BOOLEAN, align : Nat, frags : Seq(Seq(Item)), open : BOOLEAN,
     archMarks : Seq([at : Nat, slot : Nat]),
     mapState : Marks \cup {Unmarked},
     mapEvents : Seq([frag : Nat, name : Marks, odd : BOOLEAN]),
     nopState : Arm \cup {Unmarked}]

LabelType ==
    [section : AllSections, frag : Nat \cup {Pending}, value : Nat, slot : Nat]

(* The section .previous returns to may be none.                           *)
Places == [cur : DOMAIN sections, previous : DOMAIN sections \cup {NoSection}]

TypeOK ==
    /\ source \in Sources
    /\ sections \in [DOMAIN sections -> SectionType]
    /\ DOMAIN sections \subseteq AllSections
    /\ [cur |-> cur, previous |-> previous] \in Places
    /\ sectionStack \in Seq(Places)
    /\ archSlots \in Seq(Modes) /\ archSlots # <<>>
    /\ labels \in Seq(LabelType)
    /\ literalPools \in [AllSections -> Seq(Nat \ {0})]
    /\ failed \in BOOLEAN
    /\ read \in Nat
    /\ phase \in {"reading", "done"}

(* The slot of the backend that emits a section's next fragment.           *)
SlotOf(s) == IF s.archMarks = <<>> THEN 0 ELSE s.archMarks[Len(s.archMarks)].slot

MarksInOrder(s) ==
    /\ \A i \in DOMAIN s.archMarks : s.archMarks[i].at <= Len(s.frags)
    /\ \A i, j \in DOMAIN s.archMarks :
          i < j => s.archMarks[i].at < s.archMarks[j].at

ItemsBySlot(s) ==
    \A f \in DOMAIN s.frags : \A i \in DOMAIN s.frags[f] :
        s.frags[f][i].slot = ArchSlot(s, f - 1)

(* What is merged into an open fragment comes from the backend that        *)
(* started it.                                                             *)
OpenIsCurrent(s) ==
    s.open => s.frags # <<>> /\ ArchSlot(s, Len(s.frags) - 1) = SlotOf(s)

Kept(s, slot) ==
    /\ s \in SectionType
    /\ SlotOf(s) = slot
    /\ MarksInOrder(s)
    /\ ItemsBySlot(s)
    /\ OpenIsCurrent(s)

SectionsKept == \A n \in DOMAIN sections : Kept(sections[n], Slot)

(* A position no item can be merged across: the start of fragment "frag"   *)
(* of the section, counted from 0.                                         *)
Fixed(s, frag) == frag \in 0..Len(s.frags) /\ (frag = Len(s.frags) => ~s.open)

LabelsFixed ==
    \A l \in DOMAIN labels :
        /\ labels[l].section \in DOMAIN sections
        /\ IF labels[l].frag = Pending THEN labels[l].value # 0
           ELSE Fixed(sections[labels[l].section], labels[l].frag)

IInv == SectionsKept /\ LiteralsAreWritten /\ LabelsFixed

Contents(s) == ItemsUpTo(s, Len(s.frags))

-----------------------------------------------------------------------------
(* What holds of 0, and of n + 1 when it holds of n, holds of every        *)
(* natural: the form of induction the recursive functions here unfold by.  *)
LEMMA InductionBySets ==
    ASSUME NEW S, 0 \in S, \A n \in Nat : n \in S => n + 1 \in S
    PROVE  Nat \subseteq S
<1> DEFINE Less == {ss \in Nat \X Nat : ss[1] < ss[2]}
<1>1. IsWellFoundedOn(Less, Nat)
  BY Zenon, NatLessThanWellFounded DEF OpToRel
<1> HIDE DEF Less
<1>2. SUFFICES ASSUME Nat \ S # {} PROVE FALSE
  OBVIOUS
<1>3. PICK k \in Nat \ S : \A j \in Nat \ S : ~ (<<j, k>> \in Less)
  BY <1>1, <1>2, WFMin
<1>4. k # 0
  OBVIOUS
<1>5. k - 1 \in Nat
  BY <1>4
<1>6. <<k - 1, k>> \in Less
  BY <1>5 DEF Less
<1>7. k - 1 \in S
  BY <1>3, <1>5, <1>6
<1> QED
  BY <1>5, <1>7

(* The function ItemsUpTo is a value of.                                   *)
IsUpTo(g, s, last) ==
    g = [f \in 0..last |-> IF f = 0 THEN <<>> ELSE g[f - 1] \o s.frags[f]]

(* There is one for every fragment.                                        *)
LEMMA UpToExists ==
    ASSUME NEW s, NEW last \in Nat
    PROVE  \E g : IsUpTo(g, s, last)
<1> DEFINE S == {n \in Nat : \E g : IsUpTo(g, s, n)}
<1>1. 0 \in S
  <2>1. IsUpTo([f \in 0..0 |-> <<>>], s, 0)
    BY DEF IsUpTo
  <2> QED
    BY <2>1
<1>2. ASSUME NEW n \in Nat, n \in S
      PROVE  n + 1 \in S
  <2>1. PICK g : IsUpTo(g, s, n)
    BY <1>2
  <2> DEFINE h == [f \in 0..n + 1 |-> IF f = n + 1 THEN g[n] \o s.frags[n + 1] ELSE g[f]]
  <2>2. ASSUME NEW f \in 0..n + 1
        PROVE  h[f] = IF f = 0 THEN <<>> ELSE h[f - 1] \o s.frags[f]
    <3>1. CASE f = n + 1
      <4>1. f # 0 /\ f - 1 = n /\ n \in 0..n + 1 /\ n # n + 1
        BY <3>1
      <4>2. h[f - 1] = g[n] /\ h[f] = g[n] \o s.frags[n + 1]
        BY <3>1, <4>1
      <4> QED
        BY <3>1, <4>1, <4>2
    <3>2. CASE f # n + 1
      <4>1. f \in 0..n /\ (f # 0 => f - 1 \in 0..n + 1 /\ f - 1 # n + 1)
        BY <3>2
      <4>2. h[f] = g[f] /\ (f # 0 => h[f - 1] = g[f - 1])
        BY <4>1
      <4>3. g[f] = IF f = 0 THEN <<>> ELSE g[f - 1] \o s.frags[f]
        BY <2>1, <4>1 DEF IsUpTo
      <4> QED
        BY <4>2, <4>3
    <3> QED
      BY <3>1, <3>2
  <2>3. h = [f \in 0..n + 1 |-> h[f]]
    OBVIOUS
  <2> HIDE DEF h
  <2>4. IsUpTo(h, s, n + 1)
    BY <2>2, <2>3 DEF IsUpTo
  <2> QED
    BY <2>4
<1> HIDE DEF S
<1>3. Nat \subseteq S
  BY <1>1, <1>2, InductionBySets
<1> QED
  BY <1>3 DEF S

(* The first fragments of two sections are the same.                       *)
SameUpTo(s, t, last) == \A f \in 1..last : t.frags[f] = s.frags[f]

(* Two agree where both are defined, if the fragments there do.            *)
LEMMA UpToAgrees ==
    ASSUME NEW s, NEW t, NEW last \in Nat, NEW less \in 0..last, SameUpTo(s, t, less),
           NEW g, IsUpTo(g, s, last), NEW h, IsUpTo(h, t, less)
    PROVE  g[less] = h[less]
<1> DEFINE S == {n \in Nat : n \in 0..less => g[n] = h[n]}
<1>1. 0 \in S
  BY DEF IsUpTo
<1>2. ASSUME NEW n \in Nat, n \in S
      PROVE  n + 1 \in S
  <2>1. ASSUME n + 1 \in 0..less
        PROVE  g[n + 1] = h[n + 1]
    <3>1. PICK m \in 1..less : m = n + 1
      BY <2>1
    <3>2. m # 0 /\ m \in 0..last /\ m \in 0..less /\ m - 1 = n /\ n \in 0..less
      BY <3>1
    <3>3. g[m] = g[m - 1] \o s.frags[m]
      BY <3>2 DEF IsUpTo
    <3>4. h[m] = h[m - 1] \o t.frags[m]
      BY <3>2 DEF IsUpTo
    <3> QED
      BY <1>2, <3>1, <3>2, <3>3, <3>4 DEF SameUpTo
  <2> QED
    BY <2>1
<1> HIDE DEF S
<1>3. Nat \subseteq S
  BY <1>1, <1>2, InductionBySets
<1> QED
  BY <1>3 DEF S

(* ItemsUpTo adds the fragments one by one, and looks at no other.         *)
LEMMA ItemsUnfold ==
    ASSUME NEW s
    PROVE  /\ ItemsUpTo(s, 0) = <<>>
           /\ \A f \in Nat : ItemsUpTo(s, f + 1) = ItemsUpTo(s, f) \o s.frags[f + 1]
<1>1. \A n : ItemsUpTo(s, n) = (CHOOSE g : IsUpTo(g, s, n))[n]
  BY DEF ItemsUpTo, IsUpTo
<1>2. ItemsUpTo(s, 0) = <<>>
  <2>1. IsUpTo(CHOOSE g : IsUpTo(g, s, 0), s, 0)
    BY UpToExists
  <2>2. \A g : IsUpTo(g, s, 0) => g[0] = <<>>
    BY DEF IsUpTo
  <2> QED
    BY <1>1, <2>1, <2>2
<1>3. ASSUME NEW f \in Nat
      PROVE  ItemsUpTo(s, f + 1) = ItemsUpTo(s, f) \o s.frags[f + 1]
  <2>1. PICK g : g = CHOOSE x : IsUpTo(x, s, f)
    OBVIOUS
  <2>2. PICK h : h = CHOOSE x : IsUpTo(x, s, f + 1)
    OBVIOUS
  <2>3. IsUpTo(g, s, f) /\ IsUpTo(h, s, f + 1)
    BY UpToExists, <2>1, <2>2
  <2>4. h[f] = g[f]
    <3>1. f + 1 \in Nat /\ f \in 0..f + 1
      OBVIOUS
    <3>2. SameUpTo(s, s, f)
      BY DEF SameUpTo
    <3> QED
      BY <2>3, <3>1, <3>2, UpToAgrees
  <2>5. PICK m \in 0..f + 1 : m = f + 1
    OBVIOUS
  <2>6. m # 0 /\ m - 1 = f
    BY <2>5
  <2>7. h[m] = h[m - 1] \o s.frags[m]
    BY <2>3, <2>5, <2>6 DEF IsUpTo
  <2> QED
    BY <1>1, <2>1, <2>2, <2>4, <2>5, <2>6, <2>7
<1> QED
  BY <1>2, <1>3

(* Sections whose first fragments agree have the same items in them.       *)
LEMMA ItemsAgree ==
    ASSUME NEW s, NEW t, NEW last \in Nat, SameUpTo(s, t, last)
    PROVE  ItemsUpTo(t, last) = ItemsUpTo(s, last)
<1>1. \A r : ItemsUpTo(r, last) = (CHOOSE g : IsUpTo(g, r, last))[last]
  BY DEF ItemsUpTo, IsUpTo
<1>2. PICK g : g = CHOOSE x : IsUpTo(x, s, last)
  OBVIOUS
<1>3. PICK h : h = CHOOSE x : IsUpTo(x, t, last)
  OBVIOUS
<1>4. IsUpTo(g, s, last) /\ IsUpTo(h, t, last)
  BY UpToExists, <1>2, <1>3
<1>5. last \in 0..last
  OBVIOUS
<1>6. g[last] = h[last]
  BY <1>4, <1>5, UpToAgrees
<1> QED
  BY <1>1, <1>2, <1>3, <1>6

(* The items of a section are items.                                       *)
LEMMA ItemsType ==
    ASSUME NEW s \in SectionType
    PROVE  \A f \in 0..Len(s.frags) : ItemsUpTo(s, f) \in Seq(Item)
<1> DEFINE S == {n \in Nat : n \in 0..Len(s.frags) => ItemsUpTo(s, n) \in Seq(Item)}
<1>1. 0 \in S
  <2>1. ItemsUpTo(s, 0) = <<>>
    BY ItemsUnfold
  <2>2. <<>> \in Seq(Item)
    OBVIOUS
  <2> QED
    BY <2>1, <2>2
<1>2. ASSUME NEW n \in Nat, n \in S
      PROVE  n + 1 \in S
  <2>1. ASSUME n + 1 \in 0..Len(s.frags)
        PROVE  ItemsUpTo(s, n + 1) \in Seq(Item)
    <3>1. s.frags \in Seq(Seq(Item))
      BY DEF SectionType
    <3>2. n + 1 \in 1..Len(s.frags) /\ n \in 0..Len(s.frags)
      BY <2>1, <3>1
    <3>3. s.frags[n + 1] \in Seq(Item)
      BY <3>1, <3>2, ElementOfSeq
    <3>4. ItemsUpTo(s, n) \in Seq(Item)
      BY <1>2, <3>2
    <3>5. ItemsUpTo(s, n + 1) = ItemsUpTo(s, n) \o s.frags[n + 1]
      BY ItemsUnfold
    <3> QED
      BY <3>3, <3>4, <3>5, ConcatProperties
  <2> QED
    BY <2>1
<1> HIDE DEF S
<1>3. Nat \subseteq S
  BY <1>1, <1>2, InductionBySets
<1> QED
  BY <1>3, LenProperties DEF S

-----------------------------------------------------------------------------
(* What is done to a section without touching its items.                   *)
Quiet(s, t) ==
    /\ t \in SectionType
    /\ t.exec = s.exec /\ t.frags = s.frags /\ t.archMarks = s.archMarks
    /\ t.open => s.open

(* Sealing a section and raising its alignment leave its items alone.      *)
LEMMA SealingIsQuiet ==
    ASSUME NEW s \in SectionType
    PROVE  /\ Quiet(s, s)
           /\ Quiet(s, Seal(s)) /\ ~ Seal(s).open
           /\ Seal(s).mapState = s.mapState /\ Seal(s).mapEvents = s.mapEvents
           /\ \A labelled \in BOOLEAN :
                 Quiet(s, AtLabel(s, labelled)) /\ (labelled => ~ AtLabel(s, labelled).open)
           /\ \A n \in Nat : Quiet(s, RaiseAlign(s, n))
           /\ NextFragIndex(s) \in Nat
<1>1. Quiet(s, s)
  BY DEF Quiet
<1>2. Quiet(s, Seal(s)) /\ ~ Seal(s).open
      /\ Seal(s).mapState = s.mapState /\ Seal(s).mapEvents = s.mapEvents
  BY DEF Quiet, Seal, SectionType
<1>3. ASSUME NEW n \in Nat
      PROVE  Quiet(s, RaiseAlign(s, n))
  BY DEF Quiet, RaiseAlign, SectionType
<1>4. NextFragIndex(s) \in Nat
  BY DEF NextFragIndex, SectionType
<1> QED
  BY <1>1, <1>2, <1>3, <1>4 DEF AtLabel

(* So does one such thing after another.                                   *)
LEMMA QuietIsTransitive ==
    ASSUME NEW s, NEW t, NEW u, Quiet(s, t), Quiet(t, u)
    PROVE  Quiet(s, u)
BY DEF Quiet

(* A mapping symbol seals the section, so that what follows it starts a    *)
(* fragment.                                                               *)
LEMMA MappingIsQuiet ==
    ASSUME NEW s \in SectionType, NEW name \in Marks, NEW always \in BOOLEAN
    PROVE  /\ Quiet(s, MapTransition(s, name, always))
           /\ MapTransition(s, name, always).mapEvents
                 \in Seq([frag : Nat, name : Marks, odd : BOOLEAN])
<1> DEFINE Event == [frag : Nat, name : Marks, odd : BOOLEAN]
<1>1. s.mapEvents \in Seq(Event)
  BY DEF SectionType
<1>2. CASE s.mapState = name /\ ~always
  BY <1>1, <1>2, SealingIsQuiet DEF MapTransition
<1>3. CASE ~ (s.mapState = name /\ ~always)
  <2> DEFINE first == IF s.mapState = Unmarked /\ name # Data /\ s.frags # <<>>
                        THEN <<At(0, Data)>> ELSE <<>>
             events == s.mapEvents \o first \o <<At(NextFragIndex(s), name)>>
  <2>1. At(0, Data) \in Event /\ At(NextFragIndex(s), name) \in Event
    BY SealingIsQuiet DEF At, Marks
  <2>2. first \in Seq(Event) /\ <<At(NextFragIndex(s), name)>> \in Seq(Event)
    <3>1. <<At(0, Data)>> \in Seq(Event) /\ <<>> \in Seq(Event)
      BY <2>1
    <3>2. <<At(NextFragIndex(s), name)>> \in Seq(Event)
      BY <2>1
    <3> QED
      BY <3>1, <3>2
  <2> HIDE DEF Event
  <2>3. events \in Seq(Event)
    <3> HIDE DEF first
    <3>1. s.mapEvents \o first \in Seq(Event)
      BY <1>1, <2>2
    <3> QED
      BY <2>2, <3>1, ConcatProperties
  <2>4. MapTransition(s, name, always) =
            [Seal(s) EXCEPT !.mapState = name, !.mapEvents = events]
    <3>1. Seal(s).mapEvents = s.mapEvents
      BY SealingIsQuiet
    <3>2. Seal(s) \in SectionType
      BY SealingIsQuiet DEF Quiet
    <3> QED
      BY <1>3, <3>1, <3>2 DEF MapTransition, SectionType
  <2> HIDE DEF events
  <2>5. Seal(s) \in SectionType /\ Quiet(s, Seal(s))
    BY SealingIsQuiet DEF Quiet
  <2>6. [Seal(s) EXCEPT !.mapState = name, !.mapEvents = events] \in SectionType
    BY <2>3, <2>5 DEF SectionType, Event, Marks
  <2> QED
    BY <2>3, <2>4, <2>5, <2>6 DEF Quiet, SectionType, Event
<1> QED
  BY <1>2, <1>3

(* What marks code and data leaves the items alone.                        *)
LEMMA MarkingIsQuiet ==
    ASSUME NEW s \in SectionType, NEW mode \in Modes
    PROVE  /\ Quiet(s, MapCode(s, mode))
           /\ Quiet(s, MapData(s, mode))
           /\ Quiet(s, MapDataFrag(s, mode))
           /\ Quiet(s, MapAlign(s, mode))
           /\ Quiet(s, MapCodeAlign(s, mode))
<1>1. mode \in Marks /\ Data \in Marks /\ CodeUnit(mode) \in Nat
  BY DEF Marks, CodeUnit
<1>2. Quiet(s, s)
  BY SealingIsQuiet
<1>3. Quiet(s, MapCode(s, mode))
  <2>1. Quiet(s, RaiseAlign(s, CodeUnit(mode)))
    BY <1>1, SealingIsQuiet
  <2>2. Quiet(RaiseAlign(s, CodeUnit(mode)),
              MapTransition(RaiseAlign(s, CodeUnit(mode)), mode, FALSE))
    BY <1>1, <2>1, MappingIsQuiet DEF Quiet
  <2> QED
    BY <1>2, <2>1, <2>2, QuietIsTransitive DEF MapCode
<1>4. Quiet(s, MapData(s, mode)) /\ Quiet(s, MapDataFrag(s, mode))
  BY <1>1, <1>2, MappingIsQuiet DEF MapData, MapDataFrag
<1>5. Quiet(s, MapAlign(s, mode))
  <2>1. PICK t : t = MapTransition(s, mode, FALSE)
    OBVIOUS
  <2>2. Quiet(s, t) /\ t \in SectionType
    BY <1>1, <2>1, MappingIsQuiet DEF Quiet
  <2>3. NextFragIndex(t) \in Nat
    BY <2>2, SealingIsQuiet
  <2>4. OddPadding(NextFragIndex(t), mode) \in [frag : Nat, name : Marks, odd : BOOLEAN]
    BY <1>1, <2>3 DEF OddPadding
  <2>5. MapAlign(s, mode) =
            [t EXCEPT !.mapEvents = Append(@, OddPadding(NextFragIndex(t), mode))]
    BY <2>1 DEF MapAlign
  <2>6. Quiet(t, MapAlign(s, mode))
    <3> DEFINE Event == [frag : Nat, name : Marks, odd : BOOLEAN]
               event == OddPadding(NextFragIndex(t), mode)
    <3>1. t.mapEvents \in Seq(Event)
      BY <2>2 DEF SectionType
    <3>2. event \in Event
      BY <2>4
    <3> HIDE DEF event, Event
    <3>3. Append(t.mapEvents, event) \in Seq(Event)
      BY <3>1, <3>2
    <3>4. MapAlign(s, mode) = [t EXCEPT !.mapEvents = Append(t.mapEvents, event)]
      BY <2>5 DEF event
    <3> QED
      BY <2>2, <3>3, <3>4 DEF Quiet, SectionType, Event
  <2> QED
    BY <2>2, <2>6, QuietIsTransitive
<1>6. Quiet(s, MapCodeAlign(s, mode))
  BY <1>2, <1>5 DEF MapCodeAlign
<1> QED
  BY <1>3, <1>4, <1>5, <1>6

(* A fragment of its own: no item is merged into it, or across it.         *)
Pushed(s, t, item) ==
    /\ t \in SectionType
    /\ t.exec = s.exec /\ t.archMarks = s.archMarks
    /\ t.frags = Append(s.frags, <<item>>)
    /\ ~t.open

(* Push does this, and the boundary an item asks for does not undo it.     *)
LEMMA PushPushes ==
    ASSUME NEW s \in SectionType, NEW item \in Item
    PROVE  /\ Pushed(s, Push(s, item), item)
           /\ Push(s, item).nopState = Unmarked
<1>1. s.frags \in Seq(Seq(Item)) /\ <<item>> \in Seq(Item)
  BY DEF SectionType
<1>2. Append(s.frags, <<item>>) \in Seq(Seq(Item))
  BY <1>1
<1>3. Push(s, item) = [s EXCEPT !.open = FALSE, !.nopState = Unmarked,
                                !.frags = Append(s.frags, <<item>>)]
  BY DEF Push
<1> QED
  BY <1>2, <1>3 DEF Pushed, SectionType

-----------------------------------------------------------------------------
(* The marks of a section, and nothing else of it, tell which backend      *)
(* emitted a fragment.                                                     *)
LEMMA ArchSlotByMarks ==
    ASSUME NEW s, NEW t, t.archMarks = s.archMarks, NEW frag
    PROVE  ArchSlot(t, frag) = ArchSlot(s, frag) /\ SlotOf(t) = SlotOf(s)
BY DEF ArchSlot, SlotOf

(* A mark is a fragment and a slot.                                        *)
LEMMA MarksType ==
    ASSUME NEW s \in SectionType
    PROVE  /\ Len(s.archMarks) \in Nat /\ DOMAIN s.archMarks = 1..Len(s.archMarks)
           /\ s.archMarks = <<>> <=> Len(s.archMarks) = 0
           /\ \A i \in DOMAIN s.archMarks :
                 s.archMarks[i].at \in Nat /\ s.archMarks[i].slot \in Nat
<1> DEFINE Mark == [at : Nat, slot : Nat]
<1>1. s.archMarks \in Seq(Mark)
  BY DEF SectionType
<1>2. \A m \in Mark : m.at \in Nat /\ m.slot \in Nat
  OBVIOUS
<1> HIDE DEF Mark
<1>3. /\ Len(s.archMarks) \in Nat /\ DOMAIN s.archMarks = 1..Len(s.archMarks)
      /\ s.archMarks = <<>> <=> Len(s.archMarks) = 0
      /\ \A i \in 1..Len(s.archMarks) : s.archMarks[i] \in Mark
  BY <1>1
<1> QED
  BY <1>2, <1>3

(* Past the last mark it is the one of the last mark.                      *)
LEMMA ArchSlotAtEnd ==
    ASSUME NEW s \in SectionType, MarksInOrder(s),
           NEW frag \in Nat, frag >= Len(s.frags)
    PROVE  ArchSlot(s, frag) = SlotOf(s) /\ SlotOf(s) \in Nat
<1> DEFINE before == {i \in DOMAIN s.archMarks : s.archMarks[i].at <= frag}
           last == Len(s.archMarks)
<1>1. Len(s.frags) \in Nat
  BY DEF SectionType
<1>2. \A i \in DOMAIN s.archMarks :
          /\ s.archMarks[i].at <= Len(s.frags)
          /\ s.archMarks[i].at \in Nat /\ s.archMarks[i].slot \in Nat
  BY MarksType DEF MarksInOrder
<1>3. before = 1..last /\ last \in Nat /\ (s.archMarks = <<>> <=> last = 0)
  BY <1>1, <1>2, MarksType
<1>4. CASE last = 0
  BY <1>1, <1>3, <1>4 DEF ArchSlot, SlotOf
<1>5. CASE last > 0
  <2>1. last \in before /\ s.archMarks # <<>>
    BY <1>1, <1>3, <1>5
  <2>2. \A i \in before : (\A j \in before : j <= i) => i = last
    BY <1>3, <2>1
  <2>3. \A j \in before : j <= last
    BY <1>3
  <2> HIDE DEF before
  <2>4. (CHOOSE i \in before : \A j \in before : j <= i) = last
    BY <2>1, <2>2, <2>3
  <2> QED
    BY <1>1, <1>2, <2>1, <2>4 DEF ArchSlot, SlotOf, before
<1> QED
  BY <1>3, <1>4, <1>5

(* What leaves the items alone keeps them to their backends.               *)
LEMMA QuietKeeps ==
    ASSUME NEW slot \in Nat, NEW s, Kept(s, slot), NEW t, Quiet(s, t)
    PROVE  Kept(t, slot)
<1>1. \A frag : ArchSlot(t, frag) = ArchSlot(s, frag)
  BY ArchSlotByMarks DEF Quiet
<1>2. SlotOf(t) = SlotOf(s)
  BY ArchSlotByMarks DEF Quiet
<1>3. MarksInOrder(t)
  BY DEF MarksInOrder, Kept, Quiet
<1>4. ItemsBySlot(t)
  BY <1>1 DEF ItemsBySlot, Kept, Quiet
<1>5. OpenIsCurrent(t)
  BY <1>1, <1>2 DEF OpenIsCurrent, Kept, Quiet
<1> QED
  BY <1>2, <1>3, <1>4, <1>5 DEF Kept, Quiet

(* So does an item of the active backend in a fragment of its own.         *)
LEMMA PushedKeeps ==
    ASSUME NEW slot \in Nat, NEW s, Kept(s, slot), NEW t,
           NEW item \in Item, item.slot = slot, Pushed(s, t, item)
    PROVE  Kept(t, slot)
<1>1. /\ s \in SectionType /\ t \in SectionType
      /\ s.frags \in Seq(Seq(Item)) /\ <<item>> \in Seq(Item)
      /\ t.frags = Append(s.frags, <<item>>) /\ t.archMarks = s.archMarks /\ ~t.open
      /\ MarksInOrder(s) /\ ItemsBySlot(s) /\ SlotOf(s) = slot
  BY DEF Kept, Pushed, SectionType
<1>2. /\ Len(t.frags) = Len(s.frags) + 1 /\ Len(s.frags) \in Nat
      /\ DOMAIN t.frags = 1..Len(s.frags) + 1 /\ DOMAIN s.frags = 1..Len(s.frags)
      /\ t.frags[Len(s.frags) + 1] = <<item>>
      /\ \A f \in 1..Len(s.frags) : t.frags[f] = s.frags[f]
  BY <1>1
<1>3. \A frag : ArchSlot(t, frag) = ArchSlot(s, frag)
  BY <1>1, ArchSlotByMarks
<1>4. SlotOf(t) = SlotOf(s)
  BY <1>1, ArchSlotByMarks
<1>5. MarksInOrder(t)
  <2>1. \A i \in DOMAIN s.archMarks : s.archMarks[i].at \in Nat
    BY <1>1, MarksType
  <2> QED
    BY <1>1, <1>2, <2>1 DEF MarksInOrder
<1>6. ASSUME NEW f \in DOMAIN t.frags, NEW i \in DOMAIN t.frags[f]
      PROVE  t.frags[f][i].slot = ArchSlot(t, f - 1)
  <2>1. CASE f \in 1..Len(s.frags)
    BY <1>1, <1>2, <1>3, <1>6, <2>1 DEF ItemsBySlot
  <2>2. CASE f = Len(s.frags) + 1
    <3>1. f - 1 = Len(s.frags) /\ f - 1 >= Len(s.frags)
      BY <1>2, <2>2
    <3>2. ArchSlot(s, f - 1) = slot
      BY <1>1, <1>2, <3>1, ArchSlotAtEnd
    <3>3. t.frags[f] = <<item>> /\ i = 1
      BY <1>2, <1>6, <2>2
    <3> QED
      BY <1>3, <3>2, <3>3
  <2> QED
    BY <1>2, <2>1, <2>2
<1>7. OpenIsCurrent(t)
  BY <1>1 DEF OpenIsCurrent
<1> QED
  BY <1>1, <1>4, <1>5, <1>6, <1>7 DEF Kept, ItemsBySlot

(* Data merged into an open fragment, or the first of one left open.       *)
Merged(s, t, item) ==
    /\ t \in SectionType
    /\ t.exec = s.exec /\ t.archMarks = s.archMarks
    /\ t.open
    /\ ~s.open => t.frags = Append(s.frags, <<item>>)
    /\ s.open => /\ Len(t.frags) = Len(s.frags)
                 /\ \A f \in 1..Len(s.frags) - 1 : t.frags[f] = s.frags[f]
                 /\ t.frags[Len(s.frags)] = Append(s.frags[Len(s.frags)], item)

(* This is what EmitBytes does.                                            *)
LEMMA EmitBytesMerges ==
    ASSUME NEW s \in SectionType, s.open => s.frags # <<>>, NEW item \in Item
    PROVE  Merged(s, EmitBytes(s, item), item)
<1>1. s.frags \in Seq(Seq(Item)) /\ <<item>> \in Seq(Item)
  BY DEF SectionType
<1>2. CASE ~s.open
  <2>1. Append(s.frags, <<item>>) \in Seq(Seq(Item))
    BY <1>1
  <2>2. EmitBytes(s, item) = [s EXCEPT !.frags = Append(s.frags, <<item>>), !.open = TRUE]
    BY <1>2 DEF EmitBytes
  <2> QED
    BY <1>2, <2>1, <2>2 DEF Merged, SectionType
<1>3. CASE s.open
  <2> DEFINE last == Len(s.frags)
             frags == [s.frags EXCEPT ![last] = Append(s.frags[last], item)]
  <2>1. last \in 1..Len(s.frags)
    BY <1>1, <1>3
  <2>2. s.frags[last] \in Seq(Item)
    BY <1>1, <2>1, ElementOfSeq
  <2>3. Append(s.frags[last], item) \in Seq(Item)
    BY <2>2
  <2>4. /\ frags \in Seq(Seq(Item)) /\ Len(frags) = Len(s.frags)
        /\ \A f \in 1..Len(s.frags) :
              frags[f] = IF f = last THEN Append(s.frags[last], item) ELSE s.frags[f]
    BY <1>1, <2>1, <2>3, ExceptSeq
  <2>5. EmitBytes(s, item) = [s EXCEPT !.frags = frags]
    BY <1>3 DEF EmitBytes
  <2> HIDE DEF frags
  <2>6. EmitBytes(s, item) \in SectionType /\ EmitBytes(s, item).frags = frags
        /\ EmitBytes(s, item).exec = s.exec /\ EmitBytes(s, item).open
        /\ EmitBytes(s, item).archMarks = s.archMarks
    BY <1>3, <2>4, <2>5 DEF SectionType
  <2>7. /\ frags[last] = Append(s.frags[last], item)
        /\ \A f \in 1..last - 1 : frags[f] = s.frags[f]
    <3>1. last \in Nat
      BY <1>1
    <3> HIDE DEF last
    <3>2. ASSUME NEW f \in 1..last - 1
          PROVE  f \in 1..last /\ f # last
      BY <3>1
    <3> QED
      BY <2>1, <2>4, <3>2 DEF last
  <2> QED
    BY <1>3, <2>4, <2>6, <2>7 DEF Merged
<1> QED
  BY <1>2, <1>3

(* It keeps the items to their backends as well.                           *)
LEMMA MergedKeeps ==
    ASSUME NEW slot \in Nat, NEW s, Kept(s, slot), NEW t,
           NEW item \in Item, item.slot = slot, Merged(s, t, item)
    PROVE  Kept(t, slot)
<1>1. /\ s \in SectionType /\ t \in SectionType
      /\ s.frags \in Seq(Seq(Item)) /\ t.frags \in Seq(Seq(Item)) /\ <<item>> \in Seq(Item)
      /\ t.archMarks = s.archMarks /\ t.open
      /\ MarksInOrder(s) /\ ItemsBySlot(s) /\ OpenIsCurrent(s) /\ SlotOf(s) = slot
  BY DEF Kept, Merged, SectionType
<1>2. \A frag : ArchSlot(t, frag) = ArchSlot(s, frag)
  BY <1>1, ArchSlotByMarks
<1>3. SlotOf(t) = slot
  BY <1>1, ArchSlotByMarks
<1>4. \A i \in DOMAIN s.archMarks : s.archMarks[i].at \in Nat
  BY <1>1, MarksType
<1>5. Len(s.frags) \in Nat /\ Len(t.frags) \in Nat
  BY <1>1
<1>6. CASE ~s.open
  <2>1. /\ Len(t.frags) = Len(s.frags) + 1
        /\ DOMAIN t.frags = 1..Len(s.frags) + 1 /\ DOMAIN s.frags = 1..Len(s.frags)
        /\ t.frags[Len(s.frags) + 1] = <<item>>
        /\ \A f \in 1..Len(s.frags) : t.frags[f] = s.frags[f]
    <3>1. t.frags = Append(s.frags, <<item>>)
      BY <1>6 DEF Merged
    <3> QED
      BY <1>1, <3>1
  <2>2. ArchSlot(s, Len(s.frags)) = slot
    BY <1>1, <1>5, ArchSlotAtEnd
  <2>3. MarksInOrder(t)
    BY <1>1, <1>4, <1>5, <2>1 DEF MarksInOrder
  <2>4. ASSUME NEW f \in DOMAIN t.frags, NEW i \in DOMAIN t.frags[f]
        PROVE  t.frags[f][i].slot = ArchSlot(t, f - 1)
    <3>1. CASE f \in 1..Len(s.frags)
      BY <1>1, <1>2, <2>1, <2>4, <3>1 DEF ItemsBySlot
    <3>2. CASE f = Len(s.frags) + 1
      <4>1. f - 1 = Len(s.frags)
        BY <1>5, <3>2
      <4>2. t.frags[f] = <<item>> /\ i = 1
        BY <2>1, <2>4, <3>2
      <4> QED
        BY <1>2, <2>2, <4>1, <4>2
    <3> QED
      BY <1>5, <2>1, <3>1, <3>2
  <2>5. OpenIsCurrent(t)
    <3>1. Len(t.frags) - 1 = Len(s.frags) /\ t.frags # <<>>
      BY <1>1, <1>5, <2>1
    <3> QED
      BY <1>2, <1>3, <2>2, <3>1 DEF OpenIsCurrent
  <2> QED
    BY <1>1, <1>3, <2>3, <2>4, <2>5 DEF Kept, ItemsBySlot
<1>7. CASE s.open
  <2>1. /\ Len(t.frags) = Len(s.frags) /\ s.frags # <<>>
        /\ \A f \in 1..Len(s.frags) - 1 : t.frags[f] = s.frags[f]
        /\ t.frags[Len(s.frags)] = Append(s.frags[Len(s.frags)], item)
        /\ ArchSlot(s, Len(s.frags) - 1) = slot
    BY <1>1, <1>7 DEF Merged, OpenIsCurrent
  <2>2. MarksInOrder(t)
    BY <1>1, <2>1 DEF MarksInOrder
  <2>3. ASSUME NEW f \in DOMAIN t.frags, NEW i \in DOMAIN t.frags[f]
        PROVE  t.frags[f][i].slot = ArchSlot(t, f - 1)
    <3>1. f \in 1..Len(s.frags) /\ f \in DOMAIN s.frags
      BY <1>1, <2>1, <2>3, SMTT(30)
    <3>2. CASE f # Len(s.frags)
      <4>1. t.frags[f] = s.frags[f]
        BY <1>5, <2>1, <3>1, <3>2
      <4> QED
        BY <1>1, <1>2, <2>3, <3>1, <4>1 DEF ItemsBySlot
    <3>3. CASE f = Len(s.frags)
      <4>1. s.frags[f] \in Seq(Item)
        BY <1>1, <3>1, ElementOfSeq
      <4>2. t.frags[f] = Append(s.frags[f], item)
        BY <2>1, <3>3
      <4>3. CASE i \in DOMAIN s.frags[f]
        <5>1. t.frags[f][i] = s.frags[f][i]
          BY <4>1, <4>2, <4>3
        <5> QED
          BY <1>1, <1>2, <3>1, <4>3, <5>1 DEF ItemsBySlot
      <4>4. CASE i \notin DOMAIN s.frags[f]
        <5>1. t.frags[f][i] = item
          BY <2>3, <4>1, <4>2, <4>4
        <5> QED
          BY <1>2, <2>1, <3>3, <5>1
      <4> QED
        BY <4>3, <4>4
    <3> QED
      BY <3>2, <3>3
  <2>4. OpenIsCurrent(t)
    <3>1. t.frags # <<>>
      BY <1>1, <2>1
    <3> QED
      BY <1>2, <1>3, <2>1, <3>1 DEF OpenIsCurrent
  <2> QED
    BY <1>1, <1>3, <2>2, <2>3, <2>4 DEF Kept, ItemsBySlot
<1> QED
  BY <1>6, <1>7

(* Fragments after a change of backend belong to the new one, and those    *)
(* before it stay with theirs.                                             *)
LEMMA MarkArchKeeps ==
    ASSUME NEW slot \in Nat, NEW s, Kept(s, slot), NEW next \in Nat
    PROVE  /\ Kept(MarkArch(s, next), next)
           /\ MarkArch(s, next).frags = s.frags
           /\ ~ MarkArch(s, next).open
<1> DEFINE Mark == [at : Nat, slot : Nat]
           marks == s.archMarks
           count == Len(marks)
           last == IF marks = <<>> THEN [at |-> -1, slot |-> 0] ELSE marks[count]
           mark == [at |-> Len(s.frags), slot |-> next]
           after == IF last.slot = next THEN marks
                    ELSE IF last.at = mark.at THEN [marks EXCEPT ![count] = mark]
                    ELSE Append(marks, mark)
<1>1. /\ s \in SectionType /\ Len(s.frags) \in Nat /\ s.frags \in Seq(Seq(Item))
      /\ SlotOf(s) = slot /\ MarksInOrder(s) /\ ItemsBySlot(s)
  BY DEF Kept, SectionType
<1>2. /\ count \in Nat /\ DOMAIN marks = 1..count /\ (marks = <<>> <=> count = 0)
      /\ \A i \in 1..count : marks[i].at \in Nat /\ marks[i].at <= Len(s.frags)
      /\ \A i, j \in 1..count : i < j => marks[i].at < marks[j].at
  BY <1>1, MarksType DEF MarksInOrder
<1>3. marks \in Seq(Mark) /\ mark \in Mark
  BY <1>1 DEF SectionType
<1> DEFINE t == [s EXCEPT !.open = FALSE, !.nopState = Unmarked, !.archMarks = after]
<1>4. MarkArch(s, next) = t
  BY DEF MarkArch, NextFragIndex
<1> DEFINE InOrder(ms, upto) ==
        /\ ms \in Seq(Mark) /\ DOMAIN ms = 1..upto /\ Len(ms) = upto
        /\ \A i \in 1..upto : ms[i].at <= Len(s.frags)
        /\ \A i, j \in 1..upto : i < j => ms[i].at < ms[j].at
        /\ \A f \in Nat : f < Len(s.frags) =>
              \A i \in 1..upto : ms[i].at <= f => i \in 1..count /\ ms[i] = marks[i]
        /\ \A f \in Nat : f < Len(s.frags) =>
              \A i \in 1..count : marks[i].at <= f => i \in 1..upto /\ ms[i] = marks[i]
        /\ (IF upto = 0 THEN 0 ELSE ms[upto].slot) = next
<1>5. \E upto \in Nat : InOrder(after, upto)
  <2>1. CASE last.slot = next
    <3>1. after = marks
      BY <2>1
    <3>2. (IF count = 0 THEN 0 ELSE marks[count].slot) = next
      BY <1>2, <2>1
    <3> QED
      BY <1>2, <1>3, <3>1, <3>2
  <2>2. CASE last.slot # next /\ last.at = mark.at
    <3>1. count > 0 /\ count \in 1..count /\ marks[count].at = Len(s.frags)
      BY <1>1, <1>2, <2>2
    <3>2. after = [marks EXCEPT ![count] = mark]
      BY <2>2
    <3> HIDE DEF Mark
    <3>3. /\ after \in Seq(Mark) /\ Len(after) = count /\ DOMAIN after = 1..count
          /\ \A i \in 1..count : after[i] = IF i = count THEN mark ELSE marks[i]
      BY <1>2, <1>3, <3>1, <3>2, ExceptSeq
    <3> HIDE DEF after, marks, count
    <3>4. \A i \in 1..count : after[i].at = marks[i].at
      BY <3>1, <3>3
    <3>5. after[count].slot = next
      BY <3>1, <3>3
    <3>6. \A f \in Nat : f < Len(s.frags) =>
              \A i \in 1..count : marks[i].at <= f => after[i] = marks[i]
      BY <1>1, <3>1, <3>3
    <3> QED
      BY <1>1, <1>2, <3>1, <3>3, <3>4, <3>5, <3>6
  <2>3. CASE last.slot # next /\ last.at # mark.at
    <3>1. after = Append(marks, mark)
      BY <2>3
    <3>2. count > 0 => marks[count].at # Len(s.frags)
      BY <1>2, <2>3
    <3> HIDE DEF Mark
    <3>3. /\ after \in Seq(Mark) /\ Len(after) = count + 1 /\ DOMAIN after = 1..count + 1
          /\ after[count + 1] = mark
          /\ \A i \in 1..count : after[i] = marks[i]
      BY <1>2, <1>3, <3>1
    <3> HIDE DEF after, marks, count
    <3>4. \A i \in 1..count : marks[i].at < Len(s.frags)
      <4>1. CASE count = 0
        BY <4>1
      <4>2. CASE count > 0
        <5>1. count \in 1..count /\ marks[count].at < Len(s.frags)
          BY <1>1, <1>2, <3>2, <4>2
        <5>2. ASSUME NEW i \in 1..count
              PROVE  i = count \/ marks[i].at < marks[count].at
          BY <1>2, <5>1
        <5> QED
          BY <1>1, <1>2, <5>1, <5>2
      <4> QED
        BY <1>2, <4>1, <4>2
    <3>5. count + 1 \in Nat /\ after[count + 1].at = Len(s.frags)
          /\ after[count + 1].slot = next
      BY <1>2, <3>3
    <3>6. \A i \in 1..count + 1 : after[i].at <= Len(s.frags)
      BY <1>1, <1>2, <3>3, <3>5
    <3>7. \A i, j \in 1..count + 1 : i < j => after[i].at < after[j].at
      <4>1. ASSUME NEW i \in 1..count + 1, NEW j \in 1..count + 1, i < j
            PROVE  after[i].at < after[j].at
        <5>1. i \in 1..count /\ after[i] = marks[i]
          BY <1>2, <3>3, <4>1
        <5>2. CASE j = count + 1
          BY <3>4, <3>5, <5>1, <5>2
        <5>3. CASE j # count + 1
          <6>1. j \in 1..count /\ after[j] = marks[j]
            BY <1>2, <3>3, <5>3
          <6> QED
            BY <1>2, <4>1, <5>1, <6>1
        <5> QED
          BY <5>2, <5>3
      <4> QED
        BY <4>1
    <3>8. ASSUME NEW f \in Nat, f < Len(s.frags), NEW i \in 1..count + 1,
                 after[i].at <= f
          PROVE  i \in 1..count /\ after[i] = marks[i]
      BY <1>1, <1>2, <3>3, <3>5, <3>8
    <3>9. \A i \in 1..count : i \in 1..count + 1
      BY <1>2
    <3> QED
      BY <1>2, <3>3, <3>5, <3>6, <3>7, <3>8, <3>9, SMTT(30)
  <2> QED
    BY <2>1, <2>2, <2>3
<1>6. PICK upto \in Nat : InOrder(after, upto)
  BY <1>5
<1> HIDE DEF after, marks, count
<1>7. /\ t \in SectionType /\ t.frags = s.frags /\ ~t.open /\ t.archMarks = after
      /\ t.exec = s.exec
  BY <1>1, <1>6 DEF SectionType
<1> HIDE DEF t
<1>8. SlotOf(t) = next
  <2>1. after = <<>> <=> upto = 0
    BY <1>6
  <2> QED
    BY <1>6, <1>7, <2>1 DEF SlotOf
<1>9. MarksInOrder(t)
  BY <1>6, <1>7 DEF MarksInOrder
<1>10. ASSUME NEW f \in Nat, f < Len(s.frags)
       PROVE  ArchSlot(t, f) = ArchSlot(s, f)
  <2> DEFINE before == {i \in DOMAIN s.archMarks : s.archMarks[i].at <= f}
             then == {i \in DOMAIN t.archMarks : t.archMarks[i].at <= f}
  <2>1. then = before /\ \A i \in before : t.archMarks[i] = s.archMarks[i]
    BY <1>2, <1>6, <1>7, <1>10 DEF marks
  <2>2. ArchSlot(s, f) = IF before = {} THEN 0
              ELSE s.archMarks[CHOOSE i \in before : \A j \in before : j <= i].slot
    BY DEF ArchSlot
  <2>3. ArchSlot(t, f) = IF then = {} THEN 0
              ELSE t.archMarks[CHOOSE i \in then : \A j \in then : j <= i].slot
    BY DEF ArchSlot
  <2>4. before # {} => \E i \in before : \A j \in before : j <= i
    <3>1. \A i \in before : i \in Nat /\ i <= count
      BY <1>2 DEF marks
    <3> HIDE DEF before, then
    <3>2. SUFFICES ASSUME before # {}
                   PROVE  \E i \in before : \A j \in before : j <= i
      OBVIOUS
    <3> DEFINE S == {k \in Nat : (\E i \in before : i >= count - k)
                        => \E i \in before : \A j \in before : j <= i}
    <3>4. 0 \in S
      BY <1>2, <3>1
    <3>5. ASSUME NEW k \in Nat, k \in S
          PROVE  k + 1 \in S
      <4>1. ASSUME NEW i \in before, i >= count - (k + 1)
            PROVE  \E m \in before : \A j \in before : j <= m
        <5>1. CASE \E j \in before : j > i
          BY <1>2, <3>1, <3>5, <4>1, <5>1, SMTT(30)
        <5>2. CASE ~ \E j \in before : j > i
          BY <3>1, <4>1, <5>2
        <5> QED
          BY <5>1, <5>2
      <4> QED
        BY <4>1
    <3> HIDE DEF S
    <3>6. count \in S
      BY <1>2, <3>4, <3>5, InductionBySets
    <3> QED
      BY <1>2, <3>1, <3>2, <3>6 DEF S
  <2> HIDE DEF before, then
  <2> QED
    BY <2>1, <2>2, <2>3, <2>4
<1>11. ItemsBySlot(t)
  BY <1>1, <1>7, <1>10 DEF ItemsBySlot
<1>12. OpenIsCurrent(t)
  BY <1>7 DEF OpenIsCurrent
<1> QED
  BY <1>4, <1>7, <1>8, <1>9, <1>11, <1>12 DEF Kept

(* A section starts with no items and no marks.                            *)
LEMMA NewSectionIsKept ==
    ASSUME NEW exec \in BOOLEAN
    PROVE  Kept(NewSection(exec), 0) /\ Contents(NewSection(exec)) = <<>>
<1>1. NewSection(exec) \in SectionType
  BY DEF NewSection, SectionType
<1>2. /\ NewSection(exec).frags = <<>> /\ NewSection(exec).archMarks = <<>>
      /\ ~ NewSection(exec).open
  BY DEF NewSection
<1>3. Contents(NewSection(exec)) = <<>>
  BY <1>2, ItemsUnfold DEF Contents
<1> QED
  BY <1>1, <1>2, <1>3 DEF Kept, SlotOf, MarksInOrder, ItemsBySlot, OpenIsCurrent

-----------------------------------------------------------------------------
(* What a statement adds to the items of a section: these at the end, and  *)
(* nothing across a fixed position.                                        *)
Emitted(s, t, items) ==
    /\ items \in Seq(Item)
    /\ Contents(t) = Contents(s) \o items
    /\ \A f \in Nat : Fixed(s, f) => Fixed(t, f) /\ ItemsUpTo(t, f) = ItemsUpTo(s, f)

(* The items of a section end with those of its last fragment, and the     *)
(* start of the next fragment is fixed once the section is sealed.         *)
LEMMA EndOfContents ==
    ASSUME NEW s \in SectionType
    PROVE  /\ Len(s.frags) \in Nat /\ Contents(s) \in Seq(Item)
           /\ \A f \in 0..Len(s.frags) : ItemsUpTo(s, f) \in Seq(Item)
           /\ ~s.open => /\ Fixed(s, NextFragIndex(s))
                         /\ ItemsUpTo(s, NextFragIndex(s)) = Contents(s)
<1>1. Len(s.frags) \in Nat
  BY DEF SectionType
<1> QED
  BY <1>1, ItemsType DEF Contents, Fixed, NextFragIndex

(* A change that leaves the fragments alone adds nothing.                  *)
LEMMA SameFragsEmitNothing ==
    ASSUME NEW s \in SectionType, NEW t, t.frags = s.frags, t.open => s.open
    PROVE  Emitted(s, t, <<>>)
<1>1. \A f \in Nat : ItemsUpTo(t, f) = ItemsUpTo(s, f)
  <2>1. \A f \in Nat : SameUpTo(s, t, f)
    BY DEF SameUpTo
  <2> QED
    BY <2>1, ItemsAgree
<1>2. Contents(t) = Contents(s) /\ Contents(s) \in Seq(Item)
  BY <1>1, EndOfContents DEF Contents
<1>3. Contents(s) \o <<>> = Contents(s)
  BY <1>2, ConcatEmptySeq
<1> QED
  BY <1>1, <1>2, <1>3 DEF Emitted, Fixed

(* A pushed item is the last one, in a fragment of its own.                *)
LEMMA PushedIsEmitted ==
    ASSUME NEW s \in SectionType, NEW t, NEW item \in Item, Pushed(s, t, item)
    PROVE  Emitted(s, t, <<item>>) /\ NextFragIndex(t) = NextFragIndex(s) + 1
<1> DEFINE last == Len(s.frags)
<1>1. /\ s.frags \in Seq(Seq(Item)) /\ last \in Nat /\ <<item>> \in Seq(Item)
      /\ t.frags = Append(s.frags, <<item>>) /\ ~t.open
  BY DEF Pushed, SectionType
<1>2. /\ Len(t.frags) = last + 1 /\ t.frags[last + 1] = <<item>>
      /\ \A f \in 1..last : t.frags[f] = s.frags[f]
  BY <1>1
<1> HIDE DEF last
<1>3. \A f \in 0..last : SameUpTo(s, t, f)
  BY <1>1, <1>2 DEF SameUpTo
<1>4. \A f \in 0..last : ItemsUpTo(t, f) = ItemsUpTo(s, f)
  BY <1>1, <1>3, ItemsAgree
<1>5. ItemsUpTo(t, last + 1) = ItemsUpTo(s, last) \o <<item>>
  <2>1. ItemsUpTo(t, last + 1) = ItemsUpTo(t, last) \o t.frags[last + 1]
    BY <1>1, ItemsUnfold
  <2>2. ItemsUpTo(t, last) = ItemsUpTo(s, last)
    BY <1>1, <1>4
  <2> QED
    BY <1>2, <2>1, <2>2
<1>6. Contents(t) = Contents(s) \o <<item>>
  BY <1>2, <1>5 DEF Contents, last
<1>7. \A f \in Nat : Fixed(s, f) => f \in 0..last /\ Fixed(t, f)
  BY <1>1, <1>2 DEF Fixed, last
<1> QED
  BY <1>1, <1>2, <1>4, <1>6, <1>7 DEF Emitted, NextFragIndex, last

(* A merged item is the last one too.  In a sealed section it starts a     *)
(* fragment.                                                               *)
LEMMA MergedIsEmitted ==
    ASSUME NEW s \in SectionType, s.open => s.frags # <<>>,
           NEW t, NEW item \in Item, Merged(s, t, item)
    PROVE  Emitted(s, t, <<item>>)
<1> DEFINE last == Len(s.frags)
<1>1. /\ s.frags \in Seq(Seq(Item)) /\ t.frags \in Seq(Seq(Item)) /\ last \in Nat
      /\ <<item>> \in Seq(Item) /\ t.open
  BY DEF Merged, SectionType
<1>2. CASE ~s.open
  <2>1. t.frags = Append(s.frags, <<item>>)
    BY <1>2 DEF Merged
  <2>2. /\ Len(t.frags) = last + 1 /\ t.frags[last + 1] = <<item>>
        /\ \A f \in 1..last : t.frags[f] = s.frags[f]
    BY <1>1, <2>1
  <2> HIDE DEF last
  <2>3. \A f \in 0..last : SameUpTo(s, t, f)
    BY <1>1, <2>2 DEF SameUpTo
  <2>4. \A f \in 0..last : ItemsUpTo(t, f) = ItemsUpTo(s, f)
    BY <1>1, <2>3, ItemsAgree
  <2>5. ItemsUpTo(t, last + 1) = ItemsUpTo(s, last) \o <<item>>
    <3>1. ItemsUpTo(t, last + 1) = ItemsUpTo(t, last) \o t.frags[last + 1]
      BY <1>1, ItemsUnfold
    <3>2. ItemsUpTo(t, last) = ItemsUpTo(s, last)
      BY <1>1, <2>4
    <3> QED
      BY <2>2, <3>1, <3>2
  <2>6. Contents(t) = Contents(s) \o <<item>>
    BY <2>2, <2>5 DEF Contents, last
  <2>7. \A f \in Nat : Fixed(s, f) => f \in 0..last /\ Fixed(t, f)
    BY <1>1, <2>2 DEF Fixed, last
  <2> QED
    BY <1>1, <2>4, <2>6, <2>7 DEF Emitted
<1>3. CASE s.open
  <2>1. /\ Len(t.frags) = last /\ last # 0
        /\ \A f \in 1..last - 1 : t.frags[f] = s.frags[f]
        /\ t.frags[last] = Append(s.frags[last], item)
    <3>1. s.frags # <<>>
      BY <1>3
    <3>2. last # 0
      BY <1>1, <3>1
    <3> QED
      BY <1>3, <3>2 DEF Merged
  <2>2. s.frags[last] \in Seq(Item)
    BY <1>1, <2>1, ElementOfSeq
  <2>3. Append(s.frags[last], item) = s.frags[last] \o <<item>>
    <3>1. PICK frag \in Seq(Item) : frag = s.frags[last]
      BY <2>2
    <3>2. Len(Append(frag, item)) = Len(frag \o <<item>>)
      BY <1>1, ConcatProperties
    <3>3. \A i \in 1..Len(frag) + 1 : Append(frag, item)[i] = (frag \o <<item>>)[i]
      BY <1>1, ConcatProperties
    <3>4. Append(frag, item) \in Seq(Item) /\ frag \o <<item>> \in Seq(Item)
          /\ Len(Append(frag, item)) = Len(frag) + 1
      BY <1>1, ConcatProperties
    <3> QED
      BY <3>1, <3>2, <3>3, <3>4, SeqEqual
  <2>4. last = Len(s.frags)
    OBVIOUS
  <2> HIDE DEF last
  <2>5. PICK m \in Nat : last = m + 1
    <3>1. last - 1 \in Nat /\ last = (last - 1) + 1
      BY <1>1, <2>1
    <3> QED
      BY <3>1
  <2>6. \A f \in 0..m : SameUpTo(s, t, f)
    BY <1>1, <2>1, <2>5 DEF SameUpTo
  <2>7. \A f \in 0..m : ItemsUpTo(t, f) = ItemsUpTo(s, f)
    BY <2>5, <2>6, ItemsAgree
  <2>8. m \in 0..m /\ m \in 0..Len(s.frags)
    BY <2>4, <2>5
  <2>9. ItemsUpTo(s, m) \in Seq(Item)
    BY <2>8, ItemsType
  <2>10. ItemsUpTo(t, last) = ItemsUpTo(s, m) \o (s.frags[last] \o <<item>>)
    BY <2>1, <2>3, <2>5, <2>7, <2>8, ItemsUnfold
  <2>11. ItemsUpTo(s, last) = ItemsUpTo(s, m) \o s.frags[last]
    BY <2>5, ItemsUnfold
  <2>12. ItemsUpTo(t, last) = ItemsUpTo(s, last) \o <<item>>
    <3>1. PICK front \in Seq(Item) : front = ItemsUpTo(s, m)
      BY <2>9
    <3>2. PICK frag \in Seq(Item) : frag = s.frags[last]
      BY <2>2
    <3>3. (front \o frag) \o <<item>> = front \o (frag \o <<item>>)
      BY <1>1, ConcatAssociative
    <3> QED
      BY <2>10, <2>11, <3>1, <3>2, <3>3
  <2>13. Contents(t) = Contents(s) \o <<item>>
    BY <2>1, <2>4, <2>12 DEF Contents
  <2>14. \A f \in Nat : Fixed(s, f) => f \in 0..m /\ Fixed(t, f)
    BY <1>3, <2>1, <2>4, <2>5 DEF Fixed
  <2> QED
    BY <1>1, <2>7, <2>13, <2>14 DEF Emitted
<1> QED
  BY <1>2, <1>3

(* One statement's items follow another's.                                 *)
LEMMA EmittedInTurn ==
    ASSUME NEW s \in SectionType, NEW t, NEW u, NEW first, NEW second,
           Emitted(s, t, first), Emitted(t, u, second)
    PROVE  Emitted(s, u, first \o second)
<1>1. Contents(s) \in Seq(Item) /\ first \in Seq(Item) /\ second \in Seq(Item)
  BY EndOfContents DEF Emitted
<1>2. first \o second \in Seq(Item)
  BY <1>1, ConcatProperties
<1>3. Contents(u) = (Contents(s) \o first) \o second
  BY DEF Emitted
<1>4. Contents(u) = Contents(s) \o (first \o second)
  BY <1>1, <1>3, ConcatAssociative, SMTT(30)
<1> QED
  BY <1>2, <1>4 DEF Emitted

-----------------------------------------------------------------------------
(* Both at once: the items emitted, by the backend in "slot".              *)
Grown(s, t, slot, items) == Kept(t, slot) /\ Emitted(s, t, items)

(* What leaves the items alone.                                            *)
LEMMA QuietGrows ==
    ASSUME NEW slot \in Nat, NEW s, Kept(s, slot), NEW t, Quiet(s, t)
    PROVE  Grown(s, t, slot, <<>>)
BY QuietKeeps, SameFragsEmitNothing DEF Grown, Kept, Quiet

(* An item pushed.                                                         *)
LEMMA PushGrows ==
    ASSUME NEW slot \in Nat, NEW s, Kept(s, slot), NEW item \in Item, item.slot = slot
    PROVE  /\ Grown(s, Push(s, item), slot, <<item>>)
           /\ Push(s, item).nopState = Unmarked
           /\ ~ Push(s, item).open
           /\ Push(s, item).exec = s.exec
<1>1. s \in SectionType
  BY DEF Kept
<1>2. Pushed(s, Push(s, item), item) /\ Push(s, item).nopState = Unmarked
  BY <1>1, PushPushes
<1>3. Kept(Push(s, item), slot)
  BY <1>2, PushedKeeps
<1>4. Emitted(s, Push(s, item), <<item>>)
  BY <1>1, <1>2, PushedIsEmitted
<1> QED
  BY <1>2, <1>3, <1>4 DEF Grown, Pushed

(* Data emitted.                                                           *)
LEMMA EmitBytesGrows ==
    ASSUME NEW slot \in Nat, NEW s, Kept(s, slot), NEW item \in Item, item.slot = slot
    PROVE  Grown(s, EmitBytes(s, item), slot, <<item>>)
<1>1. s \in SectionType /\ (s.open => s.frags # <<>>)
  BY DEF Kept, OpenIsCurrent
<1>2. Merged(s, EmitBytes(s, item), item)
  BY <1>1, EmitBytesMerges
<1>3. Kept(EmitBytes(s, item), slot)
  BY <1>2, MergedKeeps
<1>4. Emitted(s, EmitBytes(s, item), <<item>>)
  BY <1>1, <1>2, MergedIsEmitted
<1> QED
  BY <1>3, <1>4 DEF Grown

(* One after the other.                                                    *)
LEMMA GrownInTurn ==
    ASSUME NEW slot, NEW s \in SectionType, NEW t, NEW u, NEW first, NEW second,
           Grown(s, t, slot, first), Grown(t, u, slot, second)
    PROVE  Grown(s, u, slot, first \o second)
BY EmittedInTurn DEF Grown

(* Nothing before or after does not count.                                 *)
LEMMA GrownAndNothing ==
    ASSUME NEW slot, NEW s \in SectionType, NEW t, NEW u, NEW items,
           \/ Grown(s, t, slot, <<>>) /\ Grown(t, u, slot, items)
           \/ Grown(s, t, slot, items) /\ Grown(t, u, slot, <<>>)
    PROVE  Grown(s, u, slot, items)
<1>1. items \in Seq(Item)
  BY DEF Grown, Emitted
<1>2. <<>> \o items = items /\ items \o <<>> = items
  BY <1>1, ConcatEmptySeq
<1>3. CASE Grown(s, t, slot, <<>>) /\ Grown(t, u, slot, items)
  <2>1. Grown(s, u, slot, <<>> \o items)
    BY <1>3, GrownInTurn
  <2> QED
    BY <1>2, <2>1
<1>4. CASE Grown(s, t, slot, items) /\ Grown(t, u, slot, <<>>)
  <2>1. Grown(s, u, slot, items \o <<>>)
    BY <1>4, GrownInTurn
  <2> QED
    BY <1>2, <2>1
<1> QED
  BY <1>3, <1>4

(* Marks, then an item, then an alignment: what most statements are.       *)
LEMMA PushBetween ==
    ASSUME NEW slot \in Nat, NEW s, Kept(s, slot), NEW t, Quiet(s, t),
           NEW item \in Item, item.slot = slot, NEW u, Quiet(Push(t, item), u)
    PROVE  /\ Grown(s, u, slot, <<item>>)
           /\ ~u.open
<1>1. s \in SectionType /\ Grown(s, t, slot, <<>>) /\ Kept(t, slot)
  BY QuietGrows DEF Kept, Grown
<1>2. Grown(t, Push(t, item), slot, <<item>>) /\ Kept(Push(t, item), slot)
      /\ ~ Push(t, item).open
  BY <1>1, PushGrows DEF Grown
<1>3. Grown(Push(t, item), u, slot, <<>>) /\ ~u.open
  BY <1>2, QuietGrows DEF Quiet
<1>4. Grown(s, Push(t, item), slot, <<item>>)
  BY <1>1, <1>2, GrownAndNothing
<1>5. Grown(s, u, slot, <<item>>)
  BY <1>1, <1>3, <1>4, GrownAndNothing
<1> QED
  BY <1>3, <1>5

(* The active backend is in the last slot.                                 *)
LEMMA ActiveBackend ==
    ASSUME TypeOK
    PROVE  Slot \in Nat /\ Mode \in Modes /\ Len(archSlots) \in Nat \ {0}
<1>1. archSlots \in Seq(Modes) /\ archSlots # <<>>
  BY DEF TypeOK
<1>2. Len(archSlots) \in Nat \ {0}
  BY <1>1
<1>3. archSlots[Len(archSlots)] \in Modes
  BY <1>1, <1>2, ElementOfSeq
<1> QED
  BY <1>2, <1>3 DEF Slot, Mode

(* Padding is the active backend's, or that of an ARM state before it.     *)
LEMMA NopModes ==
    ASSUME TypeOK, NEW s \in SectionType
    PROVE  NopMode(s) \in Modes /\ (NopMode(s) = Mode \/ NopMode(s) \in Arm)
<1>1. s.nopState \in Arm \cup {Unmarked}
  BY DEF SectionType
<1>2. Mode \in Modes
  BY ActiveBackend
<1> QED
  BY <1>1, <1>2 DEF NopMode, Modes

(* What the active backend emits is an item of its slot.                   *)
LEMMA ItemsOfSlot ==
    ASSUME NEW slot \in Nat
    PROVE  /\ Byte(slot) \in Item /\ Byte(slot).slot = slot /\ Byte(slot).is = "byte"
           /\ Skip(slot) \in Item /\ Skip(slot).slot = slot
           /\ \A n \in Nat :
                 /\ PoolEntry(n, slot) \in Item
                 /\ PoolEntry(n, slot).slot = slot /\ PoolEntry(n, slot).is = "entry"
                 /\ PoolEntry(n, slot).n = n
                 /\ \A mode \in Modes :
                       /\ Insn(n, mode, slot) \in Item
                       /\ Insn(n, mode, slot).slot = slot /\ Insn(n, mode, slot).is = "insn"
                 /\ \A mode \in Marks, most \in Nat :
                       /\ Padding(n, mode, most, slot) \in Item
                       /\ Padding(n, mode, most, slot).slot = slot
                       /\ Padding(n, mode, most, slot).is = "pad"
           /\ NoLimit \in Nat
BY DEF Byte, Skip, PoolEntry, Insn, Padding, Item, Marks, NoLimit

(* Zeros up to a boundary.                                                 *)
LEMMA AlignZeroGrows ==
    ASSUME TypeOK, NEW s, Kept(s, Slot), NEW n \in Nat
    PROVE  /\ Grown(s, AlignZero(s, n), Slot, <<Padding(n, Data, NoLimit, Slot)>>)
           /\ ~ AlignZero(s, n).open
<1> DEFINE item == Padding(n, Data, NoLimit, Slot)
<1>1. Slot \in Nat /\ Mode \in Modes /\ s \in SectionType
  BY ActiveBackend DEF Kept
<1>2. item \in Item /\ item.slot = Slot
  <2>1. Data \in Marks /\ NoLimit \in Nat
    BY DEF Marks, NoLimit
  <2> QED
    BY <1>1, <2>1, ItemsOfSlot
<1> HIDE DEF item
<1>3. PICK t : /\ t = (IF AlignPaddingIsCode(Mode) THEN MapCode(s, Mode) ELSE MapDataFrag(s, Mode))
               /\ Quiet(s, t)
  BY <1>1, MarkingIsQuiet
<1>4. Kept(t, Slot)
  BY <1>1, <1>3, QuietKeeps
<1>5. Quiet(Push(t, item), Push(t, item))
  BY <1>1, <1>2, <1>4, PushGrows, SealingIsQuiet DEF Grown, Kept
<1>6. AlignZero(s, n) = Push(t, item)
  BY <1>3 DEF AlignZero, item
<1> QED
  BY <1>1, <1>2, <1>3, <1>5, <1>6, PushBetween DEF item

(* The zeros a pool starts with, sealed by its mapping symbol.             *)
LEMMA PoolStartGrows ==
    ASSUME TypeOK, NEW s, Kept(s, Slot)
    PROVE  /\ Grown(s, PoolStart(s), Slot, <<Padding(4, Data, NoLimit, Slot)>>)
           /\ ~ PoolStart(s).open
<1> DEFINE item == Padding(4, Data, NoLimit, Slot)
<1>1. Slot \in Nat /\ s \in SectionType
  BY ActiveBackend DEF Kept
<1>2. PICK t : t = AlignZero(s, 4)
  OBVIOUS
<1>3. Grown(s, t, Slot, <<item>>) /\ ~t.open /\ Kept(t, Slot) /\ t \in SectionType
  BY <1>2, AlignZeroGrows DEF Grown, Kept
<1>4. PICK u : u = RaiseAlign(t, 4)
  OBVIOUS
<1>5. Quiet(t, u) /\ u \in SectionType
  BY <1>3, <1>4, SealingIsQuiet DEF Quiet
<1>6. Quiet(u, MapTransition(u, Data, TRUE))
  BY <1>5, MappingIsQuiet DEF Marks
<1>7. Quiet(t, PoolStart(s))
  BY <1>2, <1>4, <1>5, <1>6, QuietIsTransitive DEF PoolStart
<1>8. Grown(t, PoolStart(s), Slot, <<>>) /\ ~ PoolStart(s).open
  BY <1>1, <1>3, <1>7, QuietGrows DEF Quiet
<1> QED
  BY <1>1, <1>3, <1>8, GrownAndNothing

(* An instruction.                                                         *)
LEMMA InstructionGrows ==
    ASSUME TypeOK, NEW s, Kept(s, Slot), NEW n \in Nat
    PROVE  Grown(s, EmitInstruction(s, n), Slot, <<Insn(n, Mode, Slot)>>)
<1> DEFINE item == Insn(n, Mode, Slot)
<1>1. Slot \in Nat /\ Mode \in Modes /\ s \in SectionType
  BY ActiveBackend DEF Kept
<1>2. item \in Item /\ item.slot = Slot
  BY <1>1, ItemsOfSlot
<1> HIDE DEF item
<1>3. PICK t : t = MapCode(s, Mode)
  OBVIOUS
<1>4. Quiet(s, t)
  BY <1>1, <1>3, MarkingIsQuiet
<1>5. Kept(t, Slot)
  BY <1>1, <1>4, QuietKeeps
<1>6. Push(t, item) \in SectionType
  BY <1>1, <1>2, <1>5, PushGrows DEF Grown, Kept
<1>7. EmitInstruction(s, n) =
          IF PadsAsLastInstruction(Mode)
            THEN [Push(t, item) EXCEPT !.nopState = Mode] ELSE Push(t, item)
  BY <1>3 DEF EmitInstruction, item
<1>8. Quiet(Push(t, item), EmitInstruction(s, n))
  BY <1>1, <1>6, <1>7 DEF Quiet, SectionType, PadsAsLastInstruction
<1> QED
  BY <1>1, <1>2, <1>4, <1>8, PushBetween DEF item

(* The no-op padding in front of a prefixed instruction.                   *)
LEMMA BeforePrefixedGrows ==
    ASSUME TypeOK, NEW s, Kept(s, Slot)
    PROVE  /\ Grown(s, BeforePrefixed(s), Slot,
                    <<Padding(PrefixBoundary, NopMode(s), 4, Slot)>>)
           /\ ~ BeforePrefixed(s).open
           /\ NopMode(s) \in Modes
<1> DEFINE item == Padding(PrefixBoundary, NopMode(s), 4, Slot)
<1>1. Slot \in Nat /\ Mode \in Modes /\ s \in SectionType
  BY ActiveBackend DEF Kept
<1>2. NopMode(s) \in Modes
  BY <1>1, NopModes
<1>3. item \in Item /\ item.slot = Slot
  <2>1. PrefixBoundary \in Nat /\ 4 \in Nat /\ NopMode(s) \in Marks
    BY <1>2 DEF PrefixBoundary, Marks
  <2> QED
    BY <1>1, <2>1, ItemsOfSlot
<1> HIDE DEF item
<1>4. Quiet(s, MapCodeAlign(s, NopMode(s)))
  BY <1>1, <1>2, MarkingIsQuiet
<1>5. PICK t : t = MapCodeAlign(s, NopMode(s))
  OBVIOUS
<1>6. Kept(t, Slot)
  BY <1>1, <1>4, <1>5, QuietKeeps
<1>7. Quiet(Push(t, item), Push(t, item))
  BY <1>1, <1>3, <1>6, PushGrows, SealingIsQuiet DEF Grown, Kept
<1>8. BeforePrefixed(s) = Push(t, item)
  BY <1>5 DEF BeforePrefixed, item
<1> QED
  BY <1>1, <1>2, <1>3, <1>4, <1>5, <1>7, <1>8, PushBetween DEF item

-----------------------------------------------------------------------------
(* The places in a pool where a value is first asked for.                  *)
FirstAsked(pool) ==
    {i \in DOMAIN pool : \A j \in DOMAIN pool : pool[j] = pool[i] => i <= j}

(* How many distinct values have been asked for up to a place.             *)
Asked(pool, i) == Cardinality({j \in FirstAsked(pool) : j <= i})

(* A value is first asked for somewhere, no later than where it is.        *)
LEMMA EveryValueIsFirstAsked ==
    ASSUME NEW V, NEW pool \in Seq(V), NEW i \in DOMAIN pool
    PROVE  \E j \in FirstAsked(pool) : pool[j] = pool[i]
<1> DEFINE Same == {j \in DOMAIN pool : pool[j] = pool[i]}
           Less == {ss \in Nat \X Nat : ss[1] < ss[2]}
<1>1. DOMAIN pool = 1..Len(pool) /\ Len(pool) \in Nat
  OBVIOUS
<1>2. Same \subseteq Nat /\ Same # {}
  BY <1>1
<1>3. IsWellFoundedOn(Less, Nat)
  BY Zenon, NatLessThanWellFounded DEF OpToRel
<1> HIDE DEF Less
<1>4. PICK k \in Same : \A j \in Same : ~ (<<j, k>> \in Less)
  BY <1>2, <1>3, WFMin
<1>5. ASSUME NEW j \in DOMAIN pool, pool[j] = pool[k]
      PROVE  k <= j
  <2>1. j \in Same /\ j \in Nat /\ k \in Nat
    BY <1>2, <1>4, <1>5
  <2>2. ~ (<<j, k>> \in Less)
    BY <1>4, <2>1
  <2> QED
    BY <2>1, <2>2 DEF Less
<1> QED
  BY <1>4, <1>5 DEF FirstAsked

(* Counting numbers the distinct values, each with a number of its own.    *)
LEMMA AskedNumbers ==
    ASSUME NEW V, NEW pool \in Seq(V)
    PROVE  /\ Cardinality(FirstAsked(pool)) \in Nat
           /\ \A i \in FirstAsked(pool) : Asked(pool, i) \in 1..Cardinality(FirstAsked(pool))
           /\ \A i, j \in FirstAsked(pool) : Asked(pool, i) = Asked(pool, j) => i = j
<1> DEFINE first == FirstAsked(pool)
           upto(i) == {j \in first : j <= i}
<1>1. first \subseteq 1..Len(pool) /\ Len(pool) \in Nat
  BY DEF FirstAsked
<1>2. IsFiniteSet(first) /\ Cardinality(first) \in Nat
  <2>1. IsFiniteSet(1..Len(pool))
    BY <1>1, FS_Interval
  <2>2. IsFiniteSet(first)
    BY <1>1, <2>1, FS_Subset
  <2> QED
    BY <2>2, FS_CardinalityType
<1> HIDE DEF first
<1>3. ASSUME NEW i \in first
      PROVE  /\ IsFiniteSet(upto(i)) /\ Cardinality(upto(i)) \in 1..Cardinality(first)
             /\ i \in upto(i) /\ Asked(pool, i) = Cardinality(upto(i))
  <2>1. upto(i) \subseteq first /\ i \in upto(i)
    BY <1>1, <1>3
  <2>2. IsFiniteSet(upto(i)) /\ Cardinality(upto(i)) <= Cardinality(first)
    BY <1>2, <2>1, FS_Subset
  <2>3. Cardinality(upto(i)) \in Nat /\ Cardinality(upto(i)) # 0
    BY <2>1, <2>2, FS_CardinalityType, FS_EmptySet
  <2>4. Asked(pool, i) = Cardinality(upto(i))
    BY DEF Asked, first
  <2> QED
    BY <1>2, <2>1, <2>2, <2>3, <2>4
<1>4. ASSUME NEW i \in first, NEW j \in first, i < j
      PROVE  Cardinality(upto(i)) # Cardinality(upto(j))
  <2>1. upto(i) \subseteq upto(j)
    <3>1. ASSUME NEW k \in first, k <= i PROVE k <= j
      <4>1. i \in Int /\ j \in Int /\ k \in Int
        BY <1>1
      <4> QED
        BY <1>4, <3>1, <4>1
    <3> QED
      BY <3>1
  <2>2. j \in upto(j) /\ j \notin upto(i)
    BY <1>1, <1>4
  <2>3. upto(i) # upto(j)
    BY <2>2
  <2> QED
    BY <1>3, <2>1, <2>3, FS_Subset
<1>5. ASSUME NEW i \in first, NEW j \in first, Asked(pool, i) = Asked(pool, j)
      PROVE  i = j
  <2>1. i \in Int /\ j \in Int
    BY <1>1
  <2>2. Cardinality(upto(i)) = Cardinality(upto(j))
    BY <1>3, <1>5
  <2> HIDE DEF upto
  <2>3. ~ (i < j) /\ ~ (j < i)
    BY <1>4, <2>2
  <2> QED
    BY <2>1, <2>3
<1>6. \A i \in first : Asked(pool, i) \in 1..Cardinality(first)
  BY <1>3
<1> QED
  BY <1>2, <1>5, <1>6 DEF first

(* The literals of a pool are its values, all of them.                     *)
LEMMA PoolValuesAreThePool ==
    ASSUME NEW V, NEW pool \in Seq(V)
    PROVE  /\ PoolValues(pool) \in Seq(V)
           /\ DOMAIN PoolValues(pool) = 1..Len(PoolValues(pool))
           /\ Len(PoolValues(pool)) \in Nat
           /\ \A i \in DOMAIN pool : \E k \in DOMAIN PoolValues(pool) :
                 PoolValues(pool)[k] = pool[i]
<1> DEFINE first == FirstAsked(pool)
           count == Cardinality(first)
           place(k) == CHOOSE i \in first : Asked(pool, i) = k
<1>1. /\ count \in Nat
      /\ \A i \in first : Asked(pool, i) \in 1..count
      /\ \A i, j \in first : Asked(pool, i) = Asked(pool, j) => i = j
  BY AskedNumbers
<1>2. first \subseteq DOMAIN pool /\ first \subseteq 1..Len(pool) /\ Len(pool) \in Nat
  BY DEF FirstAsked
<1>4. PoolValues(pool) = [k \in 1..count |-> pool[place(k)]]
  BY DEF PoolValues, FirstAsked, Asked
<1> HIDE DEF first, count
<1>5. ASSUME NEW k \in 1..count
      PROVE  \E i \in first : Asked(pool, i) = k
  <2> DEFINE number == [i \in first |-> Asked(pool, i)]
  <2>1. number \in [first -> 1..count]
    BY <1>1
  <2>2. \A i, j \in first : number[i] = number[j] => i = j
    BY <1>1
  <2>3. number \in Injection(first, 1..count)
    BY <2>1, <2>2 DEF Injection, IsInjective
  <2>4. IsFiniteSet(1..count) /\ Cardinality(1..count) = count
    BY <1>1, FS_Interval
  <2>5. number \in Surjection(first, 1..count)
    BY <2>3, <2>4, FS_Injection DEF count
  <2>6. \E i \in first : number[i] = k
    BY <2>5 DEF Surjection
  <2> QED
    BY <2>6
<1>6. ASSUME NEW k \in 1..count
      PROVE  place(k) \in first /\ pool[place(k)] \in V
  <2>1. place(k) \in first
    BY <1>5
  <2> HIDE DEF place
  <2> QED
    BY <1>2, <2>1
<1>7. PoolValues(pool) \in Seq(V) /\ Len(PoolValues(pool)) = count
  <2> HIDE DEF place
  <2>1. \A k \in 1..count : pool[place(k)] \in V
    BY <1>6
  <2> QED
    BY <1>1, <1>4, <2>1
<1>8. ASSUME NEW i \in DOMAIN pool
      PROVE  \E k \in 1..count : PoolValues(pool)[k] = pool[i]
  <2>1. PICK j \in first : pool[j] = pool[i]
    BY EveryValueIsFirstAsked DEF first
  <2>2. Asked(pool, j) \in 1..count
    BY <1>1
  <2>3. place(Asked(pool, j)) = j
    BY <1>1
  <2> QED
    BY <1>4, <2>1, <2>2, <2>3
<1> QED
  BY <1>1, <1>7, <1>8

(* Items appended each in a fragment of its own, the last left open.       *)
Appended(s, t, items) ==
    /\ t \in SectionType
    /\ t.exec = s.exec /\ t.archMarks = s.archMarks /\ t.open
    /\ Len(t.frags) = Len(s.frags) + Len(items)
    /\ \A f \in 1..Len(s.frags) : t.frags[f] = s.frags[f]
    /\ \A k \in 1..Len(items) : t.frags[Len(s.frags) + k] = <<items[k]>>

SlotsAre(items, slot) == \A k \in DOMAIN items : items[k].slot = slot

(* This is how the entries of a pool are written.                          *)
LEMMA EntriesAreAppended ==
    ASSUME NEW s \in SectionType, NEW items \in Seq(Item)
    PROVE  Appended(s, [s EXCEPT !.frags = @ \o [k \in DOMAIN items |-> <<items[k]>>],
                                 !.open = TRUE], items)
<1> DEFINE last == Len(s.frags)
           count == Len(items)
           added == [k \in DOMAIN items |-> <<items[k]>>]
           frags == s.frags \o added
           t == [s EXCEPT !.frags = frags, !.open = TRUE]
<1>1. /\ s.frags \in Seq(Seq(Item)) /\ last \in Nat
      /\ DOMAIN items = 1..count /\ count \in Nat
  BY DEF SectionType
<1>2. added \in Seq(Seq(Item)) /\ Len(added) = count
      /\ \A k \in 1..count : added[k] = <<items[k]>>
  <2>1. \A k \in 1..count : items[k] \in Item
    BY <1>1, ElementOfSeq
  <2>2. \A k \in 1..count : <<items[k]>> \in Seq(Item)
    BY <2>1
  <2> QED
    BY <1>1, <2>2
<1> HIDE DEF added
<1>3. /\ frags \in Seq(Seq(Item)) /\ Len(frags) = last + count
      /\ \A f \in 1..last + count : frags[f] =
              IF f <= last THEN s.frags[f] ELSE added[f - last]
  <2>1. /\ frags \in Seq(Seq(Item)) /\ Len(frags) = Len(s.frags) + Len(added)
        /\ \A f \in 1..Len(s.frags) + Len(added) : frags[f] =
              IF f <= Len(s.frags) THEN s.frags[f] ELSE added[f - Len(s.frags)]
    <3>1. s.frags \in Seq(Seq(Item)) /\ added \in Seq(Seq(Item))
      BY <1>1, <1>2
    <3> HIDE DEF last, count
    <3> QED
      BY <3>1, ConcatProperties
  <2> HIDE DEF frags, count
  <2> QED
    BY <1>2, <2>1
<1> HIDE DEF frags, last, count
<1>4. \A f \in 1..last : frags[f] = s.frags[f]
  BY <1>1, <1>3
<1>5. ASSUME NEW k \in 1..count
      PROVE  frags[last + k] = <<items[k]>>
  <2>1. PICK f \in 1..last + count : f = last + k
    BY <1>1
  <2>2. ~ (f <= last) /\ f - last = k
    BY <1>1, <2>1
  <2> QED
    BY <1>2, <1>3, <2>1, <2>2
<1>6. t \in SectionType /\ t.exec = s.exec /\ t.archMarks = s.archMarks /\ t.open
      /\ t.frags = frags
  BY <1>3 DEF SectionType
<1>7. t = [s EXCEPT !.frags = @ \o [k \in DOMAIN items |-> <<items[k]>>], !.open = TRUE]
  BY DEF frags, added
<1> HIDE DEF t
<1> QED
  BY <1>3, <1>4, <1>5, <1>6, <1>7 DEF Appended, last, count

(* All of them are emitted, and their starts are fixed.                    *)
LEMMA AppendedGrows ==
    ASSUME NEW slot \in Nat, NEW s, Kept(s, slot), ~s.open,
           NEW items \in Seq(Item), items # <<>>, SlotsAre(items, slot),
           NEW t, Appended(s, t, items)
    PROVE  /\ Grown(s, t, slot, items)
           /\ \A k \in DOMAIN items :
                 /\ Fixed(t, Len(s.frags) + k - 1)
                 /\ Len(ItemsUpTo(t, Len(s.frags) + k - 1)) = Len(Contents(s)) + k - 1
<1> DEFINE last == Len(s.frags)
           count == Len(items)
<1>1. /\ s \in SectionType /\ s.frags \in Seq(Seq(Item)) /\ last \in Nat
      /\ DOMAIN items = 1..count /\ count \in Nat \ {0}
      /\ Contents(s) \in Seq(Item) /\ Len(Contents(s)) \in Nat
      /\ MarksInOrder(s) /\ ItemsBySlot(s) /\ SlotOf(s) = slot
  <2>1. s \in SectionType /\ s.frags \in Seq(Seq(Item))
        /\ MarksInOrder(s) /\ ItemsBySlot(s) /\ SlotOf(s) = slot
    BY DEF Kept, SectionType
  <2>2. Contents(s) \in Seq(Item)
    BY <2>1, EndOfContents
  <2> QED
    BY <2>1, <2>2
<1>2. \A k \in 1..count : items[k].slot = slot /\ items[k] \in Item
  BY <1>1, ElementOfSeq DEF SlotsAre
<1>4. /\ t.frags \in Seq(Seq(Item)) /\ Len(t.frags) = last + count
      /\ DOMAIN t.frags = 1..last + count
      /\ \A f \in 1..last : t.frags[f] = s.frags[f]
      /\ \A k \in 1..count : t.frags[last + k] = <<items[k]>>
  <2>1. t.frags \in Seq(Seq(Item)) /\ Len(t.frags) = last + count
    BY DEF Appended, SectionType
  <2> QED
    BY <2>1 DEF Appended
<1>5. t \in SectionType /\ t.open /\ t.archMarks = s.archMarks /\ t.exec = s.exec
  BY DEF Appended
<1> HIDE DEF last, count
<1>6. \A frag : ArchSlot(t, frag) = ArchSlot(s, frag)
  BY <1>5, ArchSlotByMarks
<1>7. SlotOf(t) = slot
  BY <1>1, <1>5, ArchSlotByMarks
<1>8. \A frag \in Nat : frag >= last => ArchSlot(s, frag) = slot
  BY <1>1, ArchSlotAtEnd DEF last
<1>9. Kept(t, slot)
  <2>1. MarksInOrder(t)
    <3>1. \A i \in DOMAIN s.archMarks : s.archMarks[i].at \in Nat
      BY <1>1, MarksType
    <3> QED
      BY <1>1, <1>4, <1>5, <3>1 DEF MarksInOrder, last
  <2>2. ASSUME NEW f \in DOMAIN t.frags, NEW i \in DOMAIN t.frags[f]
        PROVE  t.frags[f][i].slot = ArchSlot(t, f - 1)
    <3>1. f \in 1..last + count
      BY <1>4, <2>2
    <3>2. CASE f \in 1..last
      <4>1. DOMAIN s.frags = 1..last
        BY <1>1 DEF last, SectionType
      <4>2. f \in DOMAIN s.frags
        BY <3>2, <4>1
      <4>3. t.frags[f] = s.frags[f]
        BY <1>4, <3>2
      <4> QED
        BY <1>1, <1>6, <2>2, <4>2, <4>3 DEF ItemsBySlot
    <3>3. CASE f \notin 1..last
      <4>1. PICK k \in 1..count : f = last + k
        <5>1. f - last \in 1..count /\ f = last + (f - last)
          BY <1>1, <3>1, <3>3
        <5> QED
          BY <5>1
      <4>2. t.frags[f] = <<items[k]>>
        BY <1>4, <4>1
      <4>3. i = 1 /\ items[k].slot = slot
        BY <1>2, <2>2, <4>2
      <4>4. f - 1 \in Nat /\ f - 1 >= last
        BY <1>1, <4>1
      <4> QED
        BY <1>6, <1>8, <4>2, <4>3, <4>4
    <3> QED
      BY <3>2, <3>3
  <2>3. OpenIsCurrent(t)
    <3>1. Len(t.frags) - 1 \in Nat /\ Len(t.frags) - 1 >= last /\ t.frags # <<>>
      BY <1>1, <1>4
    <3> QED
      BY <1>6, <1>7, <1>8, <3>1 DEF OpenIsCurrent
  <2> QED
    BY <1>5, <1>7, <2>1, <2>2, <2>3 DEF Kept, ItemsBySlot
<1>10. \A f \in 0..last : ItemsUpTo(t, f) = ItemsUpTo(s, f)
  <2>1. ASSUME NEW f \in 0..last
        PROVE  SameUpTo(s, t, f) /\ f \in Nat
    <3>1. f \in Nat /\ \A g \in 1..f : g \in 1..last
      BY <1>1
    <3> QED
      BY <1>4, <3>1 DEF SameUpTo
  <2> QED
    BY <2>1, ItemsAgree
<1> DEFINE upto(k) == ItemsUpTo(t, last + k)
           size == Len(Contents(s))
           Written(k) ==
               /\ upto(k) \in Seq(Item)
               /\ Len(upto(k)) = size + k
               /\ \A i \in 1..size : upto(k)[i] = Contents(s)[i]
               /\ \A i \in 1..k : upto(k)[size + i] = items[i]
           S == {k \in Nat : k \in 0..count => Written(k)}
<1>11. 0 \in S
  <2>1. upto(0) = Contents(s)
    BY <1>1, <1>10 DEF Contents, last
  <2> QED
    BY <1>1, <2>1
<1>12. ASSUME NEW k \in Nat, k \in S
       PROVE  k + 1 \in S
  <2>1. SUFFICES ASSUME k + 1 \in 0..count PROVE Written(k + 1)
    OBVIOUS
  <2>2. Written(k) /\ k + 1 \in 1..count /\ size \in Nat
    BY <1>1, <1>12, <2>1
  <2>3. PICK m \in Nat : m = last + k
    BY <1>1
  <2>4. upto(k + 1) = upto(k) \o <<items[k + 1]>>
    <3>1. ItemsUpTo(t, m + 1) = ItemsUpTo(t, m) \o t.frags[m + 1]
      BY ItemsUnfold
    <3>2. m + 1 = last + (k + 1) /\ t.frags[last + (k + 1)] = <<items[k + 1]>>
      <4>1. t.frags[last + (k + 1)] = <<items[k + 1]>>
        BY <1>4, <2>2, Zenon
      <4>2. m + 1 = last + (k + 1)
        BY <1>1, <2>3
      <4> QED
        BY <4>1, <4>2
    <3> QED
      BY <2>3, <3>1, <3>2
  <2>5. PICK item \in Item : item = items[k + 1]
    BY <1>1, <2>2, ElementOfSeq
  <2>6. PICK front \in Seq(Item) : front = upto(k)
    BY <2>2
  <2>7. <<item>> \in Seq(Item) /\ Len(<<item>>) = 1
    OBVIOUS
  <2>8. Len(front) = size + k
    BY <2>2, <2>6
  <2> HIDE DEF size, upto
  <2>9. /\ front \o <<item>> \in Seq(Item)
        /\ Len(front \o <<item>>) = size + k + 1
        /\ \A i \in 1..size + k : (front \o <<item>>)[i] = front[i]
        /\ (front \o <<item>>)[size + k + 1] = item
    BY <2>2, <2>7, <2>8
  <2>10. upto(k + 1) = front \o <<item>>
    BY <2>4, <2>5, <2>6
  <2>11. \A i \in 1..k + 1 : upto(k + 1)[size + i] = items[i]
    <3>1. ASSUME NEW i \in 1..k + 1
          PROVE  upto(k + 1)[size + i] = items[i]
      <4>1. CASE i = k + 1
        <5>1. size + i = size + k + 1
          BY <2>2, <4>1
        <5> QED
          BY <2>5, <2>9, <2>10, <4>1, <5>1
      <4>2. CASE i # k + 1
        <5>1. i \in 1..k /\ size + i \in 1..size + k
          BY <2>2, <4>2
        <5> QED
          BY <2>2, <2>6, <2>9, <2>10, <5>1
      <4> QED
        BY <4>1, <4>2
    <3> QED
      BY <3>1
  <2>12. \A i \in 1..size : upto(k + 1)[i] = Contents(s)[i]
    <3>1. \A i \in 1..size : i \in 1..size + k
      BY <2>2
    <3> QED
      BY <2>2, <2>6, <2>9, <2>10, <3>1
  <2>13. upto(k + 1) \in Seq(Item) /\ Len(upto(k + 1)) = size + (k + 1)
    <3>1. size + (k + 1) = size + k + 1
      BY <2>2
    <3> QED
      BY <2>9, <2>10, <3>1
  <2> QED
    BY <2>11, <2>12, <2>13
<1> HIDE DEF S
<1>13. Nat \subseteq S
  BY <1>11, <1>12, InductionBySets
<1>14. ASSUME NEW k \in 0..count
       PROVE  Written(k)
  <2>1. k \in Nat /\ k \in S
    BY <1>1, <1>13
  <2> HIDE DEF Written
  <2> QED
    BY <2>1 DEF S
<1>15. Contents(t) = Contents(s) \o items
  <2>1. count \in 0..count
    BY <1>1
  <2>2. Written(count) /\ Contents(t) = upto(count)
    BY <1>4, <1>14, <2>1 DEF Contents
  <2>3. /\ Contents(s) \o items \in Seq(Item)
        /\ Len(Contents(s) \o items) = size + count
        /\ \A i \in 1..size + count : (Contents(s) \o items)[i] =
              IF i <= size THEN Contents(s)[i] ELSE items[i - size]
    BY <1>1, ConcatProperties DEF count
  <2>4. size \in Nat
    BY <1>1
  <2> HIDE DEF upto, size
  <2>5. ASSUME NEW i \in 1..size + count
        PROVE  Contents(t)[i] = (Contents(s) \o items)[i]
    <3>1. CASE i <= size
      <4>1. i \in 1..size
        BY <2>4, <3>1
      <4> QED
        BY <2>2, <2>3, <3>1, <4>1
    <3>2. CASE i > size
      <4>1. PICK j \in 1..count : i = size + j
        <5>1. i - size \in 1..count /\ i = size + (i - size)
          BY <1>1, <2>4, <3>2
        <5> QED
          BY <5>1
      <4>2. i - size = j /\ ~ (i <= size)
        BY <1>1, <2>4, <4>1
      <4> QED
        BY <2>2, <2>3, <4>1, <4>2
    <3>3. i \in Int /\ (i <= size \/ i > size)
      BY <2>4
    <3> QED
      BY <3>1, <3>2, <3>3
  <2>6. Contents(t) \in Seq(Item) /\ Len(Contents(t)) = size + count
    BY <2>2
  <2> QED
    BY <2>3, <2>5, <2>6, SeqEqual
<1>16. ASSUME NEW f \in Nat, Fixed(s, f)
       PROVE  Fixed(t, f) /\ ItemsUpTo(t, f) = ItemsUpTo(s, f)
  <2>1. f \in 0..last
    BY <1>16 DEF Fixed, last
  <2>2. f \in 0..Len(t.frags) /\ f # Len(t.frags)
    BY <1>1, <1>4, <2>1
  <2> QED
    BY <1>10, <2>1, <2>2 DEF Fixed
<1>17. ASSUME NEW k \in DOMAIN items
       PROVE  /\ Fixed(t, last + k - 1)
              /\ Len(ItemsUpTo(t, last + k - 1)) = size + k - 1
  <2>1. PICK j \in 0..count : j = k - 1 /\ j < count
    BY <1>1
  <2>2. last + k - 1 = last + j /\ size + k - 1 = size + j /\ size \in Nat
    BY <1>1, <2>1
  <2>3. Written(j)
    BY <1>14
  <2>4. last + j \in 0..Len(t.frags) /\ last + j # Len(t.frags)
    <3>1. last \in Nat /\ count \in Nat /\ j \in 0..count /\ j < count
      BY <1>1, <2>1
    <3>2. last + j \in 0..last + count /\ last + j # last + count
      BY <3>1
    <3> QED
      BY <1>4, <3>2
  <2> QED
    BY <2>2, <2>3, <2>4 DEF Fixed
<1> QED
  BY <1>9, <1>15, <1>16, <1>17 DEF Grown, Emitted, last

(* What writing a pool emits: zeros up to its boundary and its values.     *)
Entries(pool) == [k \in DOMAIN PoolValues(pool) |-> PoolEntry(PoolValues(pool)[k], Slot)]

Written(pool) ==
    IF pool = <<>> THEN <<>> ELSE <<Padding(4, Data, NoLimit, Slot)>> \o Entries(pool)

PoolOfLiterals == Seq(Nat \ {0})

(* The entries of a pool are items of the active backend.                  *)
LEMMA EntriesType ==
    ASSUME TypeOK, NEW pool \in PoolOfLiterals
    PROVE  /\ Entries(pool) \in Seq(Item) /\ SlotsAre(Entries(pool), Slot)
           /\ Len(Entries(pool)) = Len(PoolValues(pool))
           /\ DOMAIN Entries(pool) = DOMAIN PoolValues(pool)
           /\ pool # <<>> => Entries(pool) # <<>>
<1> DEFINE values == PoolValues(pool)
<1>1. /\ values \in Seq(Nat \ {0}) /\ DOMAIN values = 1..Len(values) /\ Len(values) \in Nat
      /\ \A i \in DOMAIN pool : \E k \in DOMAIN values : values[k] = pool[i]
  BY PoolValuesAreThePool DEF PoolOfLiterals
<1>2. Slot \in Nat
  BY ActiveBackend
<1>3. Entries(pool) = [k \in DOMAIN values |-> PoolEntry(values[k], Slot)]
  BY DEF Entries
<1> HIDE DEF values
<1>4. ASSUME NEW k \in 1..Len(values)
      PROVE  PoolEntry(values[k], Slot) \in Item /\ PoolEntry(values[k], Slot).slot = Slot
  <2>1. values[k] \in Nat
    BY <1>1, <1>4, ElementOfSeq
  <2> QED
    BY <1>2, <2>1, ItemsOfSlot
<1>5. pool # <<>> => Len(values) # 0
  <2>1. pool # <<>> => 1 \in DOMAIN pool
    BY DEF PoolOfLiterals
  <2> QED
    BY <1>1, <2>1
<1>6. Entries(pool) \in Seq(Item) /\ Len(Entries(pool)) = Len(values)
      /\ DOMAIN Entries(pool) = 1..Len(values)
  BY <1>1, <1>3, <1>4
<1>7. SlotsAre(Entries(pool), Slot)
  BY <1>1, <1>3, <1>4 DEF SlotsAre
<1>8. pool # <<>> => Entries(pool) # <<>>
  BY <1>5, <1>6
<1> QED
  BY <1>1, <1>6, <1>7, <1>8 DEF values

(* A pool is emitted whole, each entry where its label will point.         *)
LEMMA FlushGrows ==
    ASSUME TypeOK, NEW s, Kept(s, Slot), NEW pool \in PoolOfLiterals
    PROVE  /\ Grown(s, FlushLiterals(s, pool), Slot, Written(pool))
           /\ pool # <<>> =>
                 \A k \in DOMAIN PoolValues(pool) :
                    /\ Fixed(FlushLiterals(s, pool), NextFragIndex(PoolStart(s)) + k - 1)
                    /\ Len(ItemsUpTo(FlushLiterals(s, pool), NextFragIndex(PoolStart(s)) + k - 1))
                          = Len(Contents(s)) + k
                    /\ k + 1 \in DOMAIN Written(pool)
                    /\ Written(pool)[k + 1] = PoolEntry(PoolValues(pool)[k], Slot)
<1> DEFINE pad == Padding(4, Data, NoLimit, Slot)
           entries == Entries(pool)
           start == PoolStart(s)
           t == FlushLiterals(s, pool)
<1>1. s \in SectionType /\ Slot \in Nat
  BY ActiveBackend DEF Kept
<1>2. CASE pool = <<>>
  <2>1. Quiet(s, s)
    BY <1>1, SealingIsQuiet
  <2>2. Grown(s, s, Slot, <<>>)
    BY <1>1, <2>1, QuietGrows
  <2> QED
    BY <1>2, <2>2 DEF FlushLiterals, Written
<1>3. CASE pool # <<>>
  <2>1. Grown(s, start, Slot, <<pad>>) /\ ~start.open
    BY PoolStartGrows
  <2>2. Kept(start, Slot) /\ start \in SectionType
    BY <2>1 DEF Grown, Kept
  <2>3. /\ entries \in Seq(Item) /\ SlotsAre(entries, Slot) /\ entries # <<>>
        /\ DOMAIN entries = DOMAIN PoolValues(pool)
        /\ DOMAIN entries = 1..Len(entries) /\ Len(entries) \in Nat
    BY <1>3, EntriesType
  <2>4. t = [start EXCEPT !.frags = @ \o [k \in DOMAIN entries |-> <<entries[k]>>], !.open = TRUE]
    <3>1. [k \in DOMAIN entries |-> <<entries[k]>>]
              = [k \in DOMAIN PoolValues(pool) |-> <<PoolEntry(PoolValues(pool)[k], Slot)>>]
      <4>1. entries = [k \in DOMAIN PoolValues(pool) |-> PoolEntry(PoolValues(pool)[k], Slot)]
        BY DEF Entries
      <4> HIDE DEF entries
      <4> QED
        BY <4>1
    <3> QED
      BY <1>3, <3>1 DEF FlushLiterals
  <2>5. \A k \in DOMAIN entries : entries[k] = PoolEntry(PoolValues(pool)[k], Slot)
    BY DEF Entries
  <2> HIDE DEF pad, entries, start, t
  <2>6. Appended(start, t, entries)
    BY <2>2, <2>3, <2>4, EntriesAreAppended
  <2>7. /\ Grown(start, t, Slot, entries)
        /\ \A k \in DOMAIN entries :
              /\ Fixed(t, Len(start.frags) + k - 1)
              /\ Len(ItemsUpTo(t, Len(start.frags) + k - 1)) = Len(Contents(start)) + k - 1
    BY <1>1, <2>1, <2>2, <2>3, <2>6, AppendedGrows
  <2>8. Grown(s, t, Slot, <<pad>> \o entries)
    BY <1>1, <2>1, <2>7, GrownInTurn
  <2>9. Len(Contents(start)) = Len(Contents(s)) + 1 /\ Len(Contents(s)) \in Nat
        /\ <<pad>> \in Seq(Item)
    <3>1. Contents(start) = Contents(s) \o <<pad>> /\ <<pad>> \in Seq(Item)
      BY <2>1 DEF Grown, Emitted
    <3>2. Contents(s) \in Seq(Item)
      BY <1>1, EndOfContents
    <3> QED
      BY <3>1, <3>2
  <2>10. ASSUME NEW k \in DOMAIN entries
         PROVE  /\ Len(ItemsUpTo(t, Len(start.frags) + k - 1)) = Len(Contents(s)) + k
                /\ k + 1 \in DOMAIN (<<pad>> \o entries)
                /\ (<<pad>> \o entries)[k + 1] = entries[k]
    <3>1. k \in Nat /\ k \in 1..Len(entries) /\ Len(Contents(s)) + 1 + k - 1 = Len(Contents(s)) + k
      BY <2>3, <2>9
    <3>2. /\ <<pad>> \o entries \in Seq(Item) /\ Len(<<pad>> \o entries) = 1 + Len(entries)
          /\ \A i \in 1..1 + Len(entries) :
                (<<pad>> \o entries)[i] = IF i <= 1 THEN <<pad>>[i] ELSE entries[i - 1]
      <4>1. Len(<<pad>>) = 1
        OBVIOUS
      <4> QED
        BY <2>3, <2>9, <4>1, ConcatProperties
    <3>3. k + 1 \in 1..1 + Len(entries) /\ ~ (k + 1 <= 1) /\ (k + 1) - 1 = k
      BY <2>3, <3>1
    <3>4. DOMAIN (<<pad>> \o entries) = 1..1 + Len(entries)
      BY <3>2
    <3>5. (<<pad>> \o entries)[k + 1] = entries[k]
      BY <3>2, <3>3
    <3> QED
      BY <2>7, <2>9, <3>1, <3>3, <3>4, <3>5
  <2>11. Written(pool) = <<pad>> \o entries
    BY <1>3 DEF Written, pad, entries
  <2>12. NextFragIndex(PoolStart(s)) = Len(start.frags)
    BY DEF NextFragIndex, start
  <2> QED
    BY <2>3, <2>5, <2>7, <2>8, <2>10, <2>11, <2>12 DEF t
<1> QED
  BY <1>2, <1>3

(* The padding of a section's end comes from the active backend.           *)
LEMMA PadTailGrows ==
    ASSUME TypeOK, NEW s, Kept(s, Slot)
    PROVE  \E items \in Seq(Item) : Grown(s, PadTail(s), Slot, items)
<1>1. s \in SectionType /\ Slot \in Nat /\ Mode \in Modes /\ MarksInOrder(s) /\ SlotOf(s) = Slot
  BY ActiveBackend DEF Kept
<1>2. ArchSlot(s, NextFragIndex(s)) = Slot /\ archSlots[Slot + 1] = Mode
  <2>1. Len(s.frags) \in Nat /\ Len(s.frags) >= Len(s.frags) /\ NextFragIndex(s) = Len(s.frags)
    BY <1>1 DEF SectionType, NextFragIndex
  <2>2. ArchSlot(s, NextFragIndex(s)) = Slot
    BY <1>1, <2>1, ArchSlotAtEnd
  <2>3. Slot + 1 = Len(archSlots)
    BY ActiveBackend DEF Slot
  <2> QED
    BY <2>2, <2>3 DEF Mode
<1> DEFINE nops == IF s.nopState = Unmarked THEN Mode ELSE s.nopState
           align == IF s.align < TailAlignLimit THEN s.align ELSE TailAlignLimit
           mapped == IF HasMapping(nops) /\ s.exec THEN MapAlign(s, nops) ELSE s
           item == Padding(align, IF s.exec THEN nops ELSE Data, NoLimit, Slot)
<1>3. nops \in Modes /\ align \in Nat
  <2>1. nops = NopMode(s)
    BY DEF NopMode
  <2>2. align \in Nat
    BY <1>1 DEF SectionType, TailAlignLimit
  <2> QED
    BY <1>1, <2>1, <2>2, NopModes
<1>4. item \in Item /\ item.slot = Slot
  <2>1. (IF s.exec THEN nops ELSE Data) \in Marks /\ NoLimit \in Nat
    BY <1>3 DEF Marks, NoLimit
  <2> HIDE DEF nops, align
  <2> QED
    BY <1>1, <1>3, <2>1, ItemsOfSlot
<1>5. Quiet(s, s) /\ Quiet(s, mapped)
  <2> HIDE DEF nops
  <2> QED
    BY <1>1, <1>3, MarkingIsQuiet, SealingIsQuiet
<1>6. PadTail(s) = IF ~PadsSectionTail(Mode, s.exec) THEN s
                   ELSE IF align <= 1 THEN mapped ELSE Push(mapped, item)
  BY <1>2 DEF PadTail
<1> HIDE DEF nops, align, mapped, item
<1>7. Grown(s, s, Slot, <<>>) /\ Grown(s, mapped, Slot, <<>>) /\ <<>> \in Seq(Item)
  BY <1>1, <1>5, QuietGrows
<1>8. Grown(mapped, Push(mapped, item), Slot, <<item>>) /\ <<item>> \in Seq(Item)
  BY <1>1, <1>4, <1>7, PushGrows DEF Grown
<1>9. Grown(s, Push(mapped, item), Slot, <<item>>)
  BY <1>1, <1>7, <1>8, GrownAndNothing
<1> QED
  BY <1>6, <1>7, <1>8, <1>9

-----------------------------------------------------------------------------
(* What a step adds to every section: "new", by the backend active after   *)
(* the step, at the end of what is there.                                  *)
Adds(new) ==
    /\ new \in [AllSections -> Seq(Item)]
    /\ sections' \in [DOMAIN sections' -> SectionType]
    /\ DOMAIN sections \subseteq DOMAIN sections'
    /\ DOMAIN sections' \subseteq AllSections
    /\ \A n \in DOMAIN sections' : Kept(sections'[n], Slot')
    /\ \A n \in DOMAIN sections : Emitted(sections[n], sections'[n], new[n])
    /\ \A n \in AllSections \ DOMAIN sections :
          new[n] = IF n \in DOMAIN sections' THEN Contents(sections'[n]) ELSE <<>>

(* Fragment "frag" of "t" starts with the first of the items that is not   *)
(* padding.                                                                *)
Names(before, t, items, frag) ==
    /\ frag \in Nat
    /\ Fixed(t, frag)
    /\ \E k \in 1..Len(items) + 1 :
          /\ Len(ItemsUpTo(t, frag)) + 1 = before + k
          /\ \A i \in 1..k - 1 : items[i].is = "pad"
          /\ k <= Len(items) => items[k].is # "pad"

(* A label a step has given a place to: where its statement emits, or at   *)
(* the entry of its literal.                                               *)
StatementLabel(new, label) ==
    /\ label.value = 0 /\ label.frag # Pending
    /\ label.section \in DOMAIN sections'
    /\ Names(Len(Items(label.section)), sections'[label.section], new[label.section], label.frag)

EntryLabel(new, label) ==
    /\ label.value # 0 /\ label.frag # Pending
    /\ label.section \in DOMAIN sections'
    /\ Fixed(sections'[label.section], label.frag)
    /\ \E k \in DOMAIN new[label.section] :
          /\ Len(ItemsUpTo(sections'[label.section], label.frag)) + 1
                = Len(Items(label.section)) + k
          /\ new[label.section][k] = PoolEntry(label.value, label.slot)

(* A literal still to be written.                                          *)
WaitingLabel(label) ==
    /\ label.value # 0 /\ label.frag = Pending
    /\ label.section \in DOMAIN sections'
    /\ phase' = "reading"
    /\ label.slot = Slot'
    /\ \E i \in DOMAIN literalPools'[label.section] :
          literalPools'[label.section][i] = label.value

LabelsStep(new) ==
    /\ labels' \in Seq(LabelType)
    /\ DOMAIN labels \subseteq DOMAIN labels'
    /\ \A l \in DOMAIN labels' :
          IF l \in DOMAIN labels /\ labels[l].frag # Pending
            THEN labels'[l] = labels[l]
            ELSE \/ StatementLabel(new, labels'[l])
                 \/ EntryLabel(new, labels'[l])
                 \/ WaitingLabel(labels'[l])
    /\ \A l \in DOMAIN labels :
          labels'[l] = [labels[l] EXCEPT !.frag = labels'[l].frag]

(* What every step does.                                                   *)
Effects == \E new : Adds(new) /\ LabelsStep(new)

(* The sections there are hold their items, the others none.               *)
LEMMA ItemsOfSections ==
    ASSUME TypeOK
    PROVE  /\ \A n \in DOMAIN sections : Items(n) = Contents(sections[n])
           /\ \A n : n \notin DOMAIN sections => Items(n) = <<>>
           /\ \A n : Items(n) \in Seq(Item) /\ Len(Items(n)) \in Nat
<1>1. \A n \in DOMAIN sections : sections[n] \in SectionType
  BY DEF TypeOK
<1>2. \A n : n \in DOMAIN sections \/ n \notin DOMAIN sections
  OBVIOUS
<1>3. \A n : Items(n) \in Seq(Item)
  BY <1>1, <1>2, EndOfContents DEF Items, Contents
<1> QED
  BY <1>3 DEF Items, Contents

(* A section named for the first time starts empty, with the active        *)
(* backend.                                                                *)
LEMMA NamedSection ==
    ASSUME TypeOK, SectionsKept, NEW n \in AllSections
    PROVE  /\ DOMAIN WithSection(n) = DOMAIN sections \cup {n}
           /\ WithSection(n) \in [DOMAIN sections \cup {n} -> SectionType]
           /\ n \in DOMAIN sections => WithSection(n) = sections
           /\ \A m \in DOMAIN sections : WithSection(n)[m] = sections[m]
           /\ \A m \in DOMAIN sections \cup {n} : Kept(WithSection(n)[m], Slot)
           /\ Contents(WithSection(n)[n]) = Items(n)
<1>1. Slot \in Nat /\ 0 \in Nat /\ IsExec(n) \in BOOLEAN
  BY ActiveBackend DEF IsExec
<1>2. sections \in [DOMAIN sections -> SectionType]
      /\ \A m \in DOMAIN sections : Kept(sections[m], Slot)
  BY DEF TypeOK, SectionsKept
<1>3. CASE n \in DOMAIN sections
  <2>1. WithSection(n) = sections /\ DOMAIN sections \cup {n} = DOMAIN sections
    BY <1>3 DEF WithSection
  <2>2. Items(n) = Contents(sections[n])
    BY <1>3, ItemsOfSections
  <2> QED
    BY <1>2, <1>3, <2>1, <2>2
<1>4. CASE n \notin DOMAIN sections
  <2> DEFINE fresh == MarkArch(NewSection(IsExec(n)), Slot)
  <2>1. WithSection(n) = [m \in DOMAIN sections \cup {n} |->
                              IF m = n THEN fresh ELSE sections[m]]
    BY <1>4 DEF WithSection
  <2>2. Kept(NewSection(IsExec(n)), 0) /\ Contents(NewSection(IsExec(n))) = <<>>
    BY <1>1, NewSectionIsKept
  <2>3. Kept(fresh, Slot) /\ fresh.frags = NewSection(IsExec(n)).frags /\ fresh \in SectionType
    BY <1>1, <2>2, MarkArchKeeps DEF Kept
  <2>4. Contents(fresh) = <<>>
    <3>1. NewSection(IsExec(n)).frags = <<>>
      BY DEF NewSection
    <3> QED
      BY <2>3, <3>1, ItemsUnfold DEF Contents
  <2>5. Items(n) = <<>>
    BY <1>4 DEF Items
  <2> HIDE DEF fresh
  <2> QED
    BY <1>2, <1>4, <2>1, <2>3, <2>4, <2>5
<1> QED
  BY <1>3, <1>4

(* Items for one section.                                                  *)
NewItems(n, items) == [m \in AllSections |-> IF m = n THEN items ELSE <<>>]

(* A statement that emits into one section adds nothing to the others.     *)
LEMMA OneSectionAdds ==
    ASSUME TypeOK, SectionsKept, NEW n \in AllSections,
           NEW t, NEW items, Grown(WithSection(n)[n], t, Slot, items),
           sections' = [WithSection(n) EXCEPT ![n] = t], Slot' = Slot
    PROVE  /\ Adds(NewItems(n, items))
           /\ sections'[n] = t
           /\ DOMAIN sections' = DOMAIN sections \cup {n}
<1> DEFINE S == WithSection(n)
           D == DOMAIN sections \cup {n}
           new == NewItems(n, items)
<1>1. /\ DOMAIN S = D /\ S \in [D -> SectionType]
      /\ \A m \in DOMAIN sections : S[m] = sections[m]
      /\ \A m \in D : Kept(S[m], Slot)
      /\ Contents(S[n]) = Items(n)
  BY NamedSection
<1>2. DOMAIN sections \subseteq AllSections
  BY DEF TypeOK
<1>3. /\ Kept(t, Slot) /\ t \in SectionType /\ items \in Seq(Item)
      /\ Contents(t) = Contents(S[n]) \o items
      /\ Emitted(S[n], t, items)
  BY DEF Grown, Kept, Emitted
<1>4. sections' = [S EXCEPT ![n] = t]
  OBVIOUS
<1> HIDE DEF S
<1>5. /\ sections' \in [D -> SectionType] /\ DOMAIN sections' = D /\ sections'[n] = t
      /\ \A m \in D : m # n => sections'[m] = S[m]
  BY <1>1, <1>3, <1>4
<1>6. \A m \in D : Kept(sections'[m], Slot)
  BY <1>1, <1>3, <1>5
<1>7. new \in [AllSections -> Seq(Item)] /\ new[n] = items
      /\ \A m \in AllSections : m # n => new[m] = <<>>
  BY <1>3 DEF NewItems
<1>8. \A m \in DOMAIN sections : sections[m] \in SectionType
  BY DEF TypeOK
<1> HIDE DEF new
<1>9. ASSUME NEW m \in DOMAIN sections
      PROVE  Emitted(sections[m], sections'[m], new[m])
  <2>1. CASE m = n
    BY <1>1, <1>3, <1>5, <1>7, <2>1
  <2>2. CASE m # n
    <3>1. sections'[m] = sections[m] /\ new[m] = <<>>
      BY <1>1, <1>2, <1>5, <1>7, <2>2
    <3>2. Emitted(sections[m], sections[m], <<>>)
      BY <1>8, SameFragsEmitNothing
    <3> QED
      BY <3>1, <3>2
  <2> QED
    BY <2>1, <2>2
<1>10. ASSUME NEW m \in AllSections \ DOMAIN sections
       PROVE  new[m] = IF m \in DOMAIN sections' THEN Contents(sections'[m]) ELSE <<>>
  <2>1. CASE m = n
    <3>1. Items(n) = <<>>
      BY <1>10, <2>1 DEF Items
    <3>2. Contents(t) = <<>> \o items
      BY <1>1, <1>3, <3>1
    <3>3. <<>> \o items = items
      BY <1>3, ConcatEmptySeq
    <3> QED
      BY <1>5, <1>7, <2>1, <3>2, <3>3
  <2>2. CASE m # n
    BY <1>5, <1>7, <1>10, <2>2
  <2> QED
    BY <2>1, <2>2
<1>11. D \subseteq AllSections /\ DOMAIN sections \subseteq D
  BY <1>2
<1>12. Adds(new)
  BY <1>5, <1>6, <1>7, <1>9, <1>10, <1>11 DEF Adds
<1> QED
  BY <1>5, <1>12 DEF new

-----------------------------------------------------------------------------
(* A statement is read while the source is, and changes nothing else of    *)
(* the reading.                                                            *)
LEMMA StatementReads ==
    ASSUME TypeOK, NEW kind, Statement(kind)
    PROVE  /\ phase = "reading" /\ phase' = "reading"
           /\ source' = source /\ read' \in Nat
           /\ source' \in Sources /\ phase' \in {"reading", "done"}
BY DEF TypeOK, Statement

(* The section one is in, and those one may return to, stay sections.      *)
LEMMA PlacesStand ==
    ASSUME TypeOK, DOMAIN sections \subseteq DOMAIN sections'
    PROVE  /\ Places \subseteq Places'
           /\ Seq(Places) \subseteq Seq(Places')
           /\ [cur |-> cur, previous |-> previous] \in Places'
           /\ sectionStack \in Seq(Places')
           /\ cur \in DOMAIN sections /\ cur \in AllSections
           /\ previous \in DOMAIN sections \cup {NoSection}
<1>1. Places' = [cur : DOMAIN sections', previous : DOMAIN sections' \cup {NoSection}]
  BY DEF Places
<1>2. Places \subseteq Places'
  BY <1>1 DEF Places
<1>3. [cur |-> cur, previous |-> previous] \in Places /\ sectionStack \in Seq(Places)
  BY DEF TypeOK
<1>4. cur \in DOMAIN sections /\ previous \in DOMAIN sections \cup {NoSection}
  BY <1>3 DEF Places
<1>5. \A P, Q : P \subseteq Q => Seq(P) \subseteq Seq(Q)
  OBVIOUS
<1> QED
  BY <1>2, <1>3, <1>4, <1>5 DEF TypeOK

(* Labels stand for as long as their pool does.                            *)
LEMMA WaitingStay ==
    ASSUME TypeOK, IInv, Slot' = Slot, phase' = "reading",
           DOMAIN sections \subseteq DOMAIN sections',
           NEW l \in DOMAIN labels, labels[l].frag = Pending,
           \A i \in DOMAIN literalPools[labels[l].section] :
               \E j \in DOMAIN literalPools'[labels[l].section] :
                   literalPools'[labels[l].section][j] = literalPools[labels[l].section][i]
    PROVE  WaitingLabel(labels[l])
BY DEF IInv, LiteralsAreWritten, LabelsFixed, WaitingLabel

(* A label defined after those there are, all of which stand.              *)
LEMMA AppendedLabelStep ==
    ASSUME TypeOK, NEW new, NEW label \in LabelType,
           labels' = labels \o <<label>>,
           \A l \in DOMAIN labels : labels[l].frag = Pending => WaitingLabel(labels[l]),
           StatementLabel(new, label) \/ EntryLabel(new, label) \/ WaitingLabel(label)
    PROVE  LabelsStep(new)
<1>1. labels \in Seq(LabelType) /\ DOMAIN labels = 1..Len(labels) /\ Len(labels) \in Nat
  BY DEF TypeOK
<1>2. \A l \in DOMAIN labels : labels[l] = [labels[l] EXCEPT !.frag = labels[l].frag]
  <2>1. \A l \in DOMAIN labels : labels[l] \in LabelType
    BY <1>1, ElementOfSeq
  <2> QED
    BY <2>1 DEF LabelType
<1>3. /\ labels' \in Seq(LabelType) /\ DOMAIN labels' = 1..Len(labels) + 1
      /\ labels'[Len(labels) + 1] = label
      /\ \A l \in 1..Len(labels) : labels'[l] = labels[l]
  BY <1>1
<1>4. ASSUME NEW l \in DOMAIN labels'
      PROVE  IF l \in DOMAIN labels /\ labels[l].frag # Pending
               THEN labels'[l] = labels[l]
               ELSE \/ StatementLabel(new, labels'[l])
                    \/ EntryLabel(new, labels'[l])
                    \/ WaitingLabel(labels'[l])
  <2>1. CASE l \in DOMAIN labels
    BY <1>1, <1>3, <2>1
  <2>2. CASE l \notin DOMAIN labels
    <3>1. l = Len(labels) + 1
      BY <1>1, <1>3, <2>2
    <3> QED
      BY <1>3, <2>2, <3>1
  <2> QED
    BY <2>1, <2>2
<1>5. DOMAIN labels \subseteq DOMAIN labels'
  BY <1>1, <1>3
<1>6. \A l \in DOMAIN labels : labels'[l] = [labels[l] EXCEPT !.frag = labels'[l].frag]
  BY <1>1, <1>2, <1>3
<1> QED
  BY <1>3, <1>4, <1>5, <1>6 DEF LabelsStep

(* A statement's own label comes after those there are.                    *)
LEMMA OwnLabelStep ==
    ASSUME TypeOK, IInv, Slot' = Slot, phase' = "reading", literalPools' = literalPools,
           DOMAIN sections \subseteq DOMAIN sections',
           NEW new, NEW labelled \in BOOLEAN, NEW frag \in Nat,
           labels' = labels \o OwnLabel(labelled, frag),
           labelled => StatementLabel(new, Label(cur, frag))
    PROVE  LabelsStep(new)
<1>1. labels \in Seq(LabelType) /\ DOMAIN labels = 1..Len(labels) /\ Len(labels) \in Nat
  BY DEF TypeOK
<1>2. \A l \in DOMAIN labels : labels[l].frag = Pending => WaitingLabel(labels[l])
  BY WaitingStay
<1>3. \A l \in DOMAIN labels : labels[l] = [labels[l] EXCEPT !.frag = labels[l].frag]
  <2>1. \A l \in DOMAIN labels : labels[l] \in LabelType
    BY <1>1, ElementOfSeq
  <2> QED
    BY <2>1 DEF LabelType
<1>4. CASE ~labelled
  <2>1. labels' = labels
    BY <1>1, <1>4, ConcatEmptySeq DEF OwnLabel
  <2> QED
    BY <1>1, <1>2, <1>3, <2>1 DEF LabelsStep
<1>5. CASE labelled
  <2>1. cur \in AllSections
    BY PlacesStand DEF TypeOK, Places
  <2>2. Label(cur, frag) \in LabelType
    BY <2>1 DEF Label, LabelType
  <2>3. labels' = labels \o <<Label(cur, frag)>> /\ StatementLabel(new, Label(cur, frag))
    BY <1>5 DEF OwnLabel
  <2> QED
    BY <1>2, <2>2, <2>3, AppendedLabelStep
<1> QED
  BY <1>4, <1>5

(* A statement that emits "items" into one section, where it may leave a   *)
(* label: the types hold, and the section and the labels are as described. *)
LEMMA SectionStep ==
    ASSUME TypeOK, IInv, NEW kind, Statement(kind), NEW n \in AllSections,
           NEW t, NEW items, Grown(WithSection(n)[n], t, Slot, items),
           sections' = [WithSection(n) EXCEPT ![n] = t], Slot' = Slot,
           literalPools' = literalPools,
           NEW labelled \in BOOLEAN, NEW frag \in Nat,
           labels' = labels \o OwnLabel(labelled, frag),
           labelled => n = cur /\ Names(Len(Contents(sections[n])), t, items, frag)
    PROVE  Effects /\ labels' \in Seq(LabelType)
           /\ DOMAIN sections \subseteq DOMAIN sections' /\ n \in DOMAIN sections'
           /\ sections' \in [DOMAIN sections' -> SectionType] /\ DOMAIN sections' \subseteq AllSections
<1>1. SectionsKept
  BY DEF IInv
<1>2. /\ Adds(NewItems(n, items)) /\ sections'[n] = t
      /\ DOMAIN sections' = DOMAIN sections \cup {n}
  BY <1>1, OneSectionAdds
<1>3. phase' = "reading"
  BY StatementReads
<1>4. ASSUME labelled
      PROVE  StatementLabel(NewItems(n, items), Label(cur, frag))
  <2>1. n = cur /\ Names(Len(Contents(sections[n])), t, items, frag)
    BY <1>4
  <2>2. PICK label : label = Label(cur, frag)
    OBVIOUS
  <2>3. label.value = 0 /\ label.frag = frag /\ label.section = n
    BY <2>1, <2>2 DEF Label
  <2>4. frag # Pending
    BY DEF Pending
  <2>5. cur \in DOMAIN sections
    BY <1>2, PlacesStand
  <2>6. Items(n) = Contents(sections[n])
    BY <2>1, <2>5, ItemsOfSections
  <2>7. NewItems(n, items)[n] = items
    BY DEF NewItems
  <2> QED
    BY <1>2, <2>1, <2>2, <2>3, <2>4, <2>5, <2>6, <2>7 DEF StatementLabel
<1>5. LabelsStep(NewItems(n, items))
  BY <1>2, <1>3, <1>4, OwnLabelStep
<1> QED
  BY <1>2, <1>5 DEF Effects, LabelsStep, Adds

(* A position sealed after padding is where the rest of what a statement   *)
(* emits starts.                                                           *)
LEMMA NamesTheRest ==
    ASSUME NEW s \in SectionType, NEW m \in SectionType, ~m.open, NEW t,
           NEW pads, NEW rest, Emitted(s, m, pads), Emitted(m, t, rest),
           \A i \in DOMAIN pads : pads[i].is = "pad",
           rest = <<>> \/ rest[1].is # "pad"
    PROVE  Names(Len(Contents(s)), t, pads \o rest, NextFragIndex(m))
<1> DEFINE frag == NextFragIndex(m)
           items == pads \o rest
           k == Len(pads) + 1
<1>1. /\ pads \in Seq(Item) /\ rest \in Seq(Item) /\ Contents(s) \in Seq(Item)
      /\ Len(pads) \in Nat /\ Len(rest) \in Nat /\ Len(Contents(s)) \in Nat
  BY EndOfContents DEF Emitted
<1>2. frag \in Nat /\ Fixed(m, frag) /\ ItemsUpTo(m, frag) = Contents(m)
  BY EndOfContents DEF NextFragIndex
<1>3. Fixed(t, frag) /\ ItemsUpTo(t, frag) = Contents(m)
  BY <1>2 DEF Emitted
<1>4. Len(Contents(m)) = Len(Contents(s)) + Len(pads)
  BY <1>1 DEF Emitted
<1>5. /\ Len(items) = Len(pads) + Len(rest)
      /\ \A i \in 1..Len(pads) + Len(rest) : items[i] =
            IF i <= Len(pads) THEN pads[i] ELSE rest[i - Len(pads)]
  BY <1>1, ConcatProperties
<1> HIDE DEF items, frag
<1>6. k \in 1..Len(items) + 1 /\ k - 1 = Len(pads)
  BY <1>1, <1>5
<1>7. ASSUME NEW i \in 1..k - 1
      PROVE  items[i].is = "pad"
  <2>1. i \in 1..Len(pads) /\ i \in 1..Len(pads) + Len(rest) /\ i <= Len(pads)
    BY <1>1, <1>7
  <2>2. i \in DOMAIN pads
    BY <1>1, <2>1
  <2> QED
    BY <1>5, <2>1, <2>2
<1>8. ASSUME k <= Len(items)
      PROVE  items[k].is # "pad"
  <2>1. Len(rest) # 0 /\ rest # <<>>
    BY <1>1, <1>5, <1>8
  <2>2. k \in 1..Len(pads) + Len(rest) /\ ~ (k <= Len(pads)) /\ k - Len(pads) = 1
    BY <1>1, <1>5, <1>8
  <2>3. items[k] = rest[1]
    BY <1>5, <2>2
  <2> QED
    BY <2>1, <2>3
<1>9. Len(ItemsUpTo(t, frag)) + 1 = Len(Contents(s)) + k
  BY <1>1, <1>3, <1>4
<1> QED
  BY <1>2, <1>3, <1>6, <1>7, <1>8, <1>9 DEF Names, items, frag

(* The same with no padding in front.                                      *)
LEMMA NamesTheFirst ==
    ASSUME NEW s \in SectionType, NEW m, Quiet(s, m), ~m.open, NEW t,
           NEW rest, Emitted(m, t, rest), rest = <<>> \/ rest[1].is # "pad"
    PROVE  Names(Len(Contents(s)), t, rest, NextFragIndex(s))
<1>1. m \in SectionType /\ m.frags = s.frags /\ (m.open => s.open)
  BY DEF Quiet
<1>2. Emitted(s, m, <<>>)
  BY <1>1, SameFragsEmitNothing
<1>3. <<>> \o rest = rest
  BY ConcatEmptySeq DEF Emitted
<1>4. NextFragIndex(m) = NextFragIndex(s)
  BY <1>1 DEF NextFragIndex
<1>5. \A i \in DOMAIN <<>> : <<>>[i].is = "pad"
  OBVIOUS
<1>6. Names(Len(Contents(s)), t, <<>> \o rest, NextFragIndex(m))
  BY <1>1, <1>2, <1>5, NamesTheRest
<1> QED
  BY <1>3, <1>4, <1>6

(* The current section is a section, kept to its backends.                 *)
LEMMA CurrentSection ==
    ASSUME TypeOK, IInv
    PROVE  /\ cur \in DOMAIN sections /\ cur \in AllSections
           /\ Kept(sections[cur], Slot) /\ sections[cur] \in SectionType
           /\ NextFragIndex(sections[cur]) \in Nat
           /\ WithSection(cur) = sections
           /\ sections \in [DOMAIN sections -> SectionType]
<1>1. cur \in DOMAIN sections /\ cur \in AllSections
  BY DEF TypeOK, Places
<1>2. Kept(sections[cur], Slot) /\ sections[cur] \in SectionType
  BY <1>1 DEF IInv, SectionsKept, Kept
<1> QED
  BY <1>1, <1>2, SealingIsQuiet DEF WithSection, TypeOK

(* A statement that emits into the current section and goes nowhere.       *)
LEMMA CurrentStep ==
    ASSUME TypeOK, IInv, NEW kind, Statement(kind), NEW n, n = cur,
           NEW t, NEW items, Grown(sections[n], t, Slot, items),
           sections' = [sections EXCEPT ![n] = t],
           archSlots' \in Seq(Modes), Len(archSlots') = Len(archSlots),
           failed' \in BOOLEAN,
           UNCHANGED <<cur, previous, sectionStack, literalPools>>,
           NEW labelled \in BOOLEAN, NEW frag \in Nat,
           labels' = labels \o OwnLabel(labelled, frag),
           labelled => Names(Len(Contents(sections[n])), t, items, frag)
    PROVE  TypeOK' /\ Effects
<1>1. n \in AllSections /\ WithSection(n) = sections
  BY CurrentSection
<1>2. Slot' = Slot
  BY DEF Slot
<1>3. /\ Effects /\ labels' \in Seq(LabelType)
      /\ DOMAIN sections \subseteq DOMAIN sections'
      /\ sections' \in [DOMAIN sections' -> SectionType] /\ DOMAIN sections' \subseteq AllSections
  BY <1>1, <1>2, SectionStep
<1>4. archSlots' # <<>>
  <2>1. Len(archSlots') # 0
    BY ActiveBackend
  <2> QED
    BY <2>1
<1>5. source' \in Sources /\ read' \in Nat /\ phase' \in {"reading", "done"}
  BY StatementReads
<1>6. [cur |-> cur, previous |-> previous]' \in Places' /\ sectionStack' \in Seq(Places')
  BY <1>3, PlacesStand
<1>7. literalPools' \in [AllSections -> Seq(Nat \ {0})]
  BY DEF TypeOK
<1> QED
  BY <1>3, <1>4, <1>5, <1>6, <1>7 DEF TypeOK

(* No label, no change.                                                    *)
LEMMA Unlabelled ==
    ASSUME TypeOK
    PROVE  labels \o OwnLabel(FALSE, 0) = labels
BY ConcatEmptySeq DEF TypeOK, OwnLabel

(* A label of its own.                                                     *)
LEMMA DefineLabelStep ==
    ASSUME TypeOK, IInv, DefineLabel
    PROVE  TypeOK' /\ Effects
<1>1. PICK n : n = cur
  OBVIOUS
<1>2. PICK s : s = sections[n]
  OBVIOUS
<1>3. Kept(s, Slot) /\ s \in SectionType /\ NextFragIndex(s) \in Nat /\ Slot \in Nat
  BY <1>1, <1>2, CurrentSection, ActiveBackend
<1>4. Quiet(s, Seal(s)) /\ ~ Seal(s).open
  BY <1>3, SealingIsQuiet
<1>5. Grown(s, Seal(s), Slot, <<>>) /\ Seal(s) \in SectionType
  BY <1>3, <1>4, QuietGrows DEF Quiet
<1>6. Names(Len(Contents(s)), Seal(s), <<>>, NextFragIndex(s))
  <2>1. Emitted(Seal(s), Seal(s), <<>>)
    BY <1>5, SameFragsEmitNothing
  <2> QED
    BY <1>3, <1>4, <2>1, NamesTheFirst
<1>7. /\ Statement("label")
      /\ sections' = [sections EXCEPT ![n] = Seal(s)]
      /\ labels' = labels \o OwnLabel(TRUE, NextFragIndex(s))
      /\ UNCHANGED <<cur, previous, sectionStack, archSlots, literalPools, failed>>
  BY <1>1, <1>2 DEF DefineLabel, AtLabel
<1>8. archSlots' \in Seq(Modes) /\ Len(archSlots') = Len(archSlots) /\ failed' \in BOOLEAN
  BY <1>7 DEF TypeOK
<1>9. /\ UNCHANGED <<cur, previous, sectionStack, literalPools>>
      /\ Grown(sections[n], Seal(s), Slot, <<>>)
      /\ TRUE => Names(Len(Contents(sections[n])), Seal(s), <<>>, NextFragIndex(s))
  BY <1>2, <1>5, <1>6, <1>7
<1> QED
  BY <1>1, <1>3, <1>7, <1>8, <1>9, CurrentStep

(* A data directive: a byte where the section takes any.                   *)
LEMMA DirDataStep ==
    ASSUME TypeOK, IInv, NEW labelled \in BOOLEAN, DirData(labelled)
    PROVE  TypeOK' /\ Effects
<1>1. PICK n : n = cur
  OBVIOUS
<1>2. PICK s : s = sections[n]
  OBVIOUS
<1>3. Kept(s, Slot) /\ s \in SectionType /\ NextFragIndex(s) \in Nat
      /\ Slot \in Nat /\ Mode \in Modes
  BY <1>1, <1>2, CurrentSection, ActiveBackend
<1>4. PICK sealed : sealed = AtLabel(s, labelled)
  OBVIOUS
<1>5. Quiet(s, sealed) /\ sealed \in SectionType /\ (labelled => ~sealed.open)
  BY <1>3, <1>4, SealingIsQuiet DEF Quiet
<1>6. PICK mapped : mapped = MapData(sealed, Mode)
  OBVIOUS
<1>7. Quiet(sealed, mapped)
  BY <1>3, <1>5, <1>6, MarkingIsQuiet
<1>8. Grown(s, sealed, Slot, <<>>)
  BY <1>3, <1>5, QuietGrows
<1>9. Grown(sealed, mapped, Slot, <<>>)
  BY <1>3, <1>7, <1>8, QuietGrows DEF Grown
<1>10. PICK t, items : /\ t = IF IsNobits(n) THEN mapped ELSE EmitBytes(mapped, Byte(Slot))
                       /\ items = IF IsNobits(n) THEN <<>> ELSE <<Byte(Slot)>>
  OBVIOUS
<1>11. Grown(sealed, t, Slot, items) /\ (items = <<>> \/ items[1].is # "pad")
  <2>1. CASE IsNobits(n)
    BY <1>9, <1>10, <2>1
  <2>2. CASE ~ IsNobits(n)
    <3>1. Byte(Slot) \in Item /\ Byte(Slot).slot = Slot /\ Byte(Slot).is = "byte"
      BY <1>3, ItemsOfSlot
    <3>2. Grown(mapped, t, Slot, items)
      BY <1>3, <1>9, <1>10, <2>2, <3>1, EmitBytesGrows DEF Grown
    <3> QED
      BY <1>5, <1>9, <1>10, <2>2, <3>1, <3>2, GrownAndNothing
  <2> QED
    BY <2>1, <2>2
<1>12. Grown(s, t, Slot, items)
  BY <1>3, <1>8, <1>11, GrownAndNothing
<1>13. labelled => Names(Len(Contents(s)), t, items, NextFragIndex(s))
  <2>1. Emitted(sealed, t, items)
    BY <1>11 DEF Grown
  <2> QED
    BY <1>3, <1>5, <1>11, <2>1, NamesTheFirst
<1>14. /\ Statement("data")
       /\ sections' = [sections EXCEPT ![n] = t]
       /\ failed' = (failed \/ IsNobits(n))
       /\ labels' = labels \o OwnLabel(labelled, NextFragIndex(s))
       /\ UNCHANGED <<cur, previous, sectionStack, archSlots, literalPools>>
  BY <1>1, <1>2, <1>4, <1>6, <1>10 DEF DirData
<1>15. archSlots' \in Seq(Modes) /\ Len(archSlots') = Len(archSlots) /\ failed' \in BOOLEAN
  BY <1>14 DEF TypeOK, IsNobits
<1>16. /\ UNCHANGED <<cur, previous, sectionStack, literalPools>>
       /\ Grown(sections[n], t, Slot, items)
       /\ labelled => Names(Len(Contents(sections[n])), t, items, NextFragIndex(s))
  BY <1>2, <1>12, <1>13, <1>14
<1> QED
  BY <1>1, <1>3, <1>14, <1>15, <1>16, CurrentStep

(* A statement without a label that emits one item into the section.       *)
LEMMA OneItemStep ==
    ASSUME TypeOK, IInv, NEW kind, Statement(kind), NEW n, n = cur,
           NEW t, NEW items, Grown(sections[n], t, Slot, items),
           sections' = [sections EXCEPT ![n] = t],
           UNCHANGED <<cur, previous, sectionStack, archSlots, labels, literalPools, failed>>
    PROVE  TypeOK' /\ Effects
<1>1. labels' = labels \o OwnLabel(FALSE, 0)
  BY Unlabelled
<1>2. archSlots' \in Seq(Modes) /\ Len(archSlots') = Len(archSlots) /\ failed' \in BOOLEAN
  BY DEF TypeOK
<1>3. UNCHANGED <<cur, previous, sectionStack, literalPools>>
      /\ (FALSE => Names(Len(Contents(sections[n])), t, items, 0))
  OBVIOUS
<1>4. FALSE \in BOOLEAN /\ 0 \in Nat
  OBVIOUS
<1> QED
  BY <1>1, <1>2, <1>3, <1>4, CurrentStep

(* Space, and what .org skips.                                             *)
LEMMA SpaceAndOrgSteps ==
    ASSUME TypeOK, IInv
    PROVE  DirSpace \/ EmitOrg => TypeOK' /\ Effects
<1>1. PICK n : n = cur
  OBVIOUS
<1>2. PICK s : s = sections[n]
  OBVIOUS
<1>3. Kept(s, Slot) /\ s \in SectionType /\ Slot \in Nat /\ Mode \in Modes
  BY <1>1, <1>2, CurrentSection, ActiveBackend
<1>4. /\ Byte(Slot) \in Item /\ Byte(Slot).slot = Slot
      /\ Skip(Slot) \in Item /\ Skip(Slot).slot = Slot
  BY <1>3, ItemsOfSlot
<1>5. ASSUME DirSpace
      PROVE  TypeOK' /\ Effects
  <2>1. PICK data : data = MapData(s, Mode)
    OBVIOUS
  <2>2. Quiet(s, data) /\ data \in SectionType
    BY <1>3, <2>1, MarkingIsQuiet DEF Quiet
  <2>3. PICK mapped : mapped = MapDataFrag(data, Mode)
    OBVIOUS
  <2>4. Quiet(s, mapped)
    BY <1>3, <2>2, <2>3, MarkingIsQuiet, QuietIsTransitive
  <2>5. PICK t : t = Push(mapped, Byte(Slot))
    OBVIOUS
  <2>6. Kept(mapped, Slot)
    BY <1>3, <2>4, QuietKeeps
  <2>7. Quiet(t, t)
    BY <1>3, <1>4, <2>5, <2>6, PushGrows, SealingIsQuiet DEF Grown, Kept
  <2>8. Grown(s, t, Slot, <<Byte(Slot)>>)
    BY <1>3, <1>4, <2>4, <2>5, <2>7, PushBetween
  <2>9. /\ Statement("space")
        /\ sections' = [sections EXCEPT ![n] = t]
        /\ UNCHANGED <<cur, previous, sectionStack, archSlots, labels, literalPools, failed>>
    BY <1>1, <1>2, <1>5, <2>1, <2>3, <2>5 DEF DirSpace
  <2> QED
    BY <1>1, <1>2, <2>8, <2>9, OneItemStep
<1>6. ASSUME EmitOrg
      PROVE  TypeOK' /\ Effects
  <2>1. PICK t : t = Push(s, Skip(Slot))
    OBVIOUS
  <2>2. Grown(s, t, Slot, <<Skip(Slot)>>)
    BY <1>3, <1>4, <2>1, PushGrows
  <2>3. /\ Statement("org")
        /\ sections' = [sections EXCEPT ![n] = t]
        /\ UNCHANGED <<cur, previous, sectionStack, archSlots, labels, literalPools, failed>>
    BY <1>1, <1>2, <1>6, <2>1 DEF EmitOrg
  <2> QED
    BY <1>1, <1>2, <2>2, <2>3, OneItemStep
<1> QED
  BY <1>5, <1>6

(* An alignment: no-ops in code, zeros in data.                            *)
LEMMA DirAlignStep ==
    ASSUME TypeOK, IInv, DirAlign
    PROVE  TypeOK' /\ Effects
<1>1. PICK n : n = cur
  OBVIOUS
<1>2. PICK s : s = sections[n]
  OBVIOUS
<1>3. Kept(s, Slot) /\ s \in SectionType /\ Slot \in Nat /\ Mode \in Modes
  BY <1>1, <1>2, CurrentSection, ActiveBackend
<1>4. NopMode(s) \in Modes
  BY <1>3, NopModes
<1>5. PICK mapped, item :
          /\ mapped = IF s.exec THEN MapCodeAlign(s, NopMode(s)) ELSE MapDataFrag(s, Mode)
          /\ item = IF s.exec THEN Padding(4, NopMode(s), NoLimit, Slot)
                    ELSE Padding(4, Data, NoLimit, Slot)
  OBVIOUS
<1>6. Quiet(s, mapped)
  BY <1>3, <1>4, <1>5, MarkingIsQuiet
<1>7. item \in Item /\ item.slot = Slot
  <2>1. NopMode(s) \in Marks /\ Data \in Marks /\ NoLimit \in Nat /\ 4 \in Nat
    BY <1>4 DEF Marks, NoLimit
  <2>2. /\ Padding(4, NopMode(s), NoLimit, Slot) \in Item
        /\ Padding(4, NopMode(s), NoLimit, Slot).slot = Slot
        /\ Padding(4, Data, NoLimit, Slot) \in Item
        /\ Padding(4, Data, NoLimit, Slot).slot = Slot
    BY <1>3, <2>1, ItemsOfSlot
  <2> QED
    BY <1>5, <2>2
<1>8. PICK t : t = RaiseAlign(Push(mapped, item), 4)
  OBVIOUS
<1>9. Kept(mapped, Slot)
  BY <1>3, <1>6, QuietKeeps
<1>10. Quiet(Push(mapped, item), t)
  BY <1>3, <1>7, <1>8, <1>9, PushGrows, SealingIsQuiet DEF Grown, Kept
<1>11. Grown(s, t, Slot, <<item>>)
  BY <1>3, <1>6, <1>7, <1>10, PushBetween
<1>12. /\ Statement("align")
       /\ sections' = [sections EXCEPT ![n] = t]
       /\ UNCHANGED <<cur, previous, sectionStack, archSlots, labels, literalPools, failed>>
  BY <1>1, <1>2, <1>5, <1>8 DEF DirAlign
<1> QED
  BY <1>1, <1>2, <1>11, <1>12, OneItemStep

(* An instruction, or one a section without file space refuses.            *)
LEMMA InstructionStep ==
    ASSUME TypeOK, IInv, NEW labelled \in BOOLEAN
    PROVE  Instruction(labelled) \/ RefuseInstruction(labelled) => TypeOK' /\ Effects
<1>1. PICK n : n = cur
  OBVIOUS
<1>2. PICK s : s = sections[n]
  OBVIOUS
<1>3. Kept(s, Slot) /\ s \in SectionType /\ NextFragIndex(s) \in Nat
      /\ Slot \in Nat /\ Mode \in Modes /\ CodeUnit(Mode) \in Nat
  BY <1>1, <1>2, CurrentSection, ActiveBackend DEF CodeUnit
<1>4. PICK sealed : sealed = AtLabel(s, labelled)
  OBVIOUS
<1>5. Quiet(s, sealed) /\ sealed \in SectionType /\ (labelled => ~sealed.open)
  BY <1>3, <1>4, SealingIsQuiet DEF Quiet
<1>6. Grown(s, sealed, Slot, <<>>) /\ Kept(sealed, Slot)
  BY <1>3, <1>5, QuietGrows DEF Grown
<1>7. ASSUME Instruction(labelled)
      PROVE  TypeOK' /\ Effects
  <2>1. PICK t, items : t = EmitInstruction(sealed, CodeUnit(Mode))
                        /\ items = <<Insn(CodeUnit(Mode), Mode, Slot)>>
    OBVIOUS
  <2>2. Grown(sealed, t, Slot, items)
    BY <1>3, <1>6, <2>1, InstructionGrows
  <2>3. items[1].is # "pad"
    BY <1>3, <2>1, ItemsOfSlot
  <2>4. Grown(s, t, Slot, items)
    BY <1>3, <1>6, <2>2, GrownAndNothing
  <2>5. labelled => Names(Len(Contents(s)), t, items, NextFragIndex(s))
    BY <1>3, <1>5, <2>2, <2>3, NamesTheFirst DEF Grown
  <2>6. /\ Statement("insn")
        /\ sections' = [sections EXCEPT ![n] = t]
        /\ labels' = labels \o OwnLabel(labelled, NextFragIndex(s))
        /\ UNCHANGED <<cur, previous, sectionStack, archSlots, literalPools, failed>>
    BY <1>1, <1>2, <1>4, <1>7, <2>1 DEF Instruction
  <2>7. archSlots' \in Seq(Modes) /\ Len(archSlots') = Len(archSlots) /\ failed' \in BOOLEAN
    BY <2>6 DEF TypeOK
  <2>8. /\ UNCHANGED <<cur, previous, sectionStack, literalPools>>
        /\ Grown(sections[n], t, Slot, items)
        /\ labelled => Names(Len(Contents(sections[n])), t, items, NextFragIndex(s))
    BY <1>2, <2>4, <2>5, <2>6
  <2> QED
    BY <1>1, <1>3, <2>6, <2>7, <2>8, CurrentStep
<1>8. ASSUME RefuseInstruction(labelled)
      PROVE  TypeOK' /\ Effects
  <2>1. Emitted(sealed, sealed, <<>>)
    BY <1>5, SameFragsEmitNothing
  <2>2. labelled => Names(Len(Contents(s)), sealed, <<>>, NextFragIndex(s))
    BY <1>3, <1>5, <2>1, NamesTheFirst
  <2>3. /\ Statement("insn")
        /\ sections' = [sections EXCEPT ![n] = sealed]
        /\ labels' = labels \o OwnLabel(labelled, NextFragIndex(s))
        /\ failed' = TRUE
        /\ UNCHANGED <<cur, previous, sectionStack, archSlots, literalPools>>
    BY <1>1, <1>2, <1>4, <1>8 DEF RefuseInstruction
  <2>4. archSlots' \in Seq(Modes) /\ Len(archSlots') = Len(archSlots) /\ failed' \in BOOLEAN
    BY <2>3 DEF TypeOK
  <2>5. /\ UNCHANGED <<cur, previous, sectionStack, literalPools>>
        /\ Grown(sections[n], sealed, Slot, <<>>)
        /\ labelled => Names(Len(Contents(sections[n])), sealed, <<>>, NextFragIndex(s))
    BY <1>2, <1>6, <2>2, <2>3
  <2> QED
    BY <1>1, <1>3, <2>3, <2>4, <2>5, CurrentStep
<1> QED
  BY <1>7, <1>8

(* A prefixed instruction: its label is left past the padding it asks for. *)
LEMMA PrefixedStep ==
    ASSUME TypeOK, IInv, NEW labelled \in BOOLEAN, PrefixedInstruction(labelled)
    PROVE  TypeOK' /\ Effects
<1>1. PICK n : n = cur
  OBVIOUS
<1>2. PICK s : s = sections[n]
  OBVIOUS
<1>3. Kept(s, Slot) /\ s \in SectionType /\ Slot \in Nat /\ Mode \in Modes
  BY <1>1, <1>2, CurrentSection, ActiveBackend
<1>4. PICK sealed : sealed = AtLabel(s, labelled)
  OBVIOUS
<1>5. Quiet(s, sealed) /\ sealed \in SectionType
  BY <1>3, <1>4, SealingIsQuiet DEF Quiet
<1>6. Grown(s, sealed, Slot, <<>>) /\ Kept(sealed, Slot)
  BY <1>3, <1>5, QuietGrows DEF Grown
<1>7. PICK padded, pads : /\ padded = BeforePrefixed(sealed)
                          /\ pads = <<Padding(PrefixBoundary, NopMode(sealed), 4, Slot)>>
  OBVIOUS
<1>8. /\ Grown(sealed, padded, Slot, pads) /\ ~padded.open /\ padded \in SectionType
      /\ Kept(padded, Slot)
  BY <1>3, <1>6, <1>7, BeforePrefixedGrows DEF Grown, Kept
<1>9. \A i \in DOMAIN pads : pads[i].is = "pad"
  BY <1>7 DEF Padding
<1>10. PICK u, rest : /\ u = EmitInstruction(padded, 8)
                      /\ rest = <<Insn(8, Mode, Slot)>>
  OBVIOUS
<1>11. Grown(padded, u, Slot, rest) /\ Kept(u, Slot) /\ u \in SectionType
  BY <1>8, <1>10, InstructionGrows DEF Grown, Kept
<1>12. rest[1].is # "pad"
  BY <1>3, <1>10, ItemsOfSlot
<1>13. PICK t : t = RaiseAlign(u, PrefixBoundary)
  OBVIOUS
<1>14. Grown(u, t, Slot, <<>>)
  BY <1>3, <1>11, <1>13, SealingIsQuiet, QuietGrows DEF PrefixBoundary
<1>15. Grown(padded, t, Slot, rest)
  BY <1>8, <1>11, <1>14, GrownAndNothing
<1>16. Grown(s, padded, Slot, pads)
  BY <1>3, <1>6, <1>8, GrownAndNothing
<1>17. Grown(s, t, Slot, pads \o rest)
  BY <1>3, <1>15, <1>16, GrownInTurn
<1>18. NextFragIndex(padded) \in Nat
  BY <1>8 DEF NextFragIndex, SectionType
<1>19. Names(Len(Contents(s)), t, pads \o rest, NextFragIndex(padded))
  BY <1>3, <1>8, <1>9, <1>12, <1>15, <1>16, NamesTheRest DEF Grown
<1>20. /\ Statement("prefixed")
       /\ sections' = [sections EXCEPT ![n] = t]
       /\ labels' = labels \o OwnLabel(labelled, NextFragIndex(padded))
       /\ UNCHANGED <<cur, previous, sectionStack, archSlots, literalPools, failed>>
  BY <1>1, <1>2, <1>4, <1>7, <1>10, <1>13 DEF PrefixedInstruction, InstructionFrag
<1>21. archSlots' \in Seq(Modes) /\ Len(archSlots') = Len(archSlots) /\ failed' \in BOOLEAN
  BY <1>20 DEF TypeOK
<1>22. /\ UNCHANGED <<cur, previous, sectionStack, literalPools>>
       /\ Grown(sections[n], t, Slot, pads \o rest)
       /\ labelled => Names(Len(Contents(sections[n])), t, pads \o rest, NextFragIndex(padded))
  BY <1>2, <1>17, <1>19, <1>20
<1> QED
  BY <1>1, <1>18, <1>20, <1>21, <1>22, CurrentStep

(* .arm and .thumb: the active backend's state changes, its slot does not. *)
LEMMA SetModeStep ==
    ASSUME TypeOK, IInv, NEW mode \in Arm, SetMode(mode)
    PROVE  TypeOK' /\ Effects
<1>1. PICK n : n = cur
  OBVIOUS
<1>2. PICK s : s = sections[n]
  OBVIOUS
<1>3. Kept(s, Slot) /\ s \in SectionType /\ Slot \in Nat
  BY <1>1, <1>2, CurrentSection, ActiveBackend
<1>4. PICK u, items :
          /\ u = IF mode = "a" THEN AlignZero(s, 4) ELSE s
          /\ items = IF mode = "a" THEN <<Padding(4, Data, NoLimit, Slot)>> ELSE <<>>
  OBVIOUS
<1>5. Grown(s, u, Slot, items) /\ Kept(u, Slot) /\ u \in SectionType
  <2>1. Grown(s, s, Slot, <<>>)
    BY <1>3, SealingIsQuiet, QuietGrows
  <2>2. Grown(s, AlignZero(s, 4), Slot, <<Padding(4, Data, NoLimit, Slot)>>)
    BY <1>3, AlignZeroGrows
  <2> QED
    BY <1>4, <2>1, <2>2 DEF Grown, Kept
<1>6. PICK t : t = RaiseAlign(u, 2)
  OBVIOUS
<1>7. Grown(u, t, Slot, <<>>)
  BY <1>3, <1>5, <1>6, SealingIsQuiet, QuietGrows
<1>8. Grown(s, t, Slot, items)
  BY <1>3, <1>5, <1>7, GrownAndNothing
<1>9. /\ Statement("mode")
      /\ archSlots' = [archSlots EXCEPT ![Len(archSlots)] = mode]
      /\ sections' = [sections EXCEPT ![n] = t]
      /\ UNCHANGED <<cur, previous, sectionStack, labels, literalPools, failed>>
  BY <1>1, <1>2, <1>4, <1>6 DEF SetMode
<1>10. archSlots' \in Seq(Modes) /\ Len(archSlots') = Len(archSlots) /\ failed' \in BOOLEAN
  <2>1. archSlots \in Seq(Modes) /\ mode \in Modes /\ Len(archSlots) \in 1..Len(archSlots)
    BY ActiveBackend DEF TypeOK, Modes
  <2> QED
    BY <1>9, <2>1 DEF TypeOK
<1>11. labels' = labels \o OwnLabel(FALSE, 0)
  BY <1>9, Unlabelled
<1>12. UNCHANGED <<cur, previous, sectionStack, literalPools>>
       /\ Grown(sections[n], t, Slot, items)
       /\ (FALSE => Names(Len(Contents(sections[n])), t, items, 0))
       /\ FALSE \in BOOLEAN /\ 0 \in Nat
  BY <1>2, <1>8, <1>9
<1> QED
  BY <1>1, <1>9, <1>10, <1>11, <1>12, CurrentStep

(* A load of a literal: the entry's label waits for the pool.              *)
LEMMA LoadLiteralStep ==
    ASSUME TypeOK, IInv, NEW value \in source.values, LoadLiteral(value)
    PROVE  TypeOK' /\ Effects
<1>1. PICK n : n = cur
  OBVIOUS
<1>2. PICK s : s = sections[n]
  OBVIOUS
<1>3. /\ Kept(s, Slot) /\ s \in SectionType /\ Slot \in Nat /\ Mode \in Modes
      /\ CodeUnit(Mode) \in Nat /\ n \in AllSections /\ n \in DOMAIN sections
      /\ WithSection(n) = sections /\ SectionsKept
  BY <1>1, <1>2, CurrentSection, ActiveBackend DEF CodeUnit, IInv
<1>4. value \in Nat \ {0}
  BY SourcesAssumption DEF TypeOK
<1>5. PICK t, items : t = EmitInstruction(s, CodeUnit(Mode))
                      /\ items = <<Insn(CodeUnit(Mode), Mode, Slot)>>
  OBVIOUS
<1>6. Grown(WithSection(n)[n], t, Slot, items)
  BY <1>2, <1>3, <1>5, InstructionGrows
<1>7. PICK pool \in Seq(Nat \ {0}) : pool = literalPools[n]
  BY <1>3 DEF TypeOK
<1>8. PICK label : label = LiteralLabel(n, value, Slot)
  OBVIOUS
<1>9. /\ Statement("literal")
      /\ sections' = [WithSection(n) EXCEPT ![n] = t]
      /\ sections' = [sections EXCEPT ![n] = t]
      /\ labels' = Append(labels, label)
      /\ literalPools' = [literalPools EXCEPT ![n] = Append(pool, value)]
      /\ UNCHANGED <<cur, previous, sectionStack, archSlots, failed>>
  BY <1>1, <1>2, <1>3, <1>5, <1>7, <1>8 DEF LoadLiteral
<1>10. Slot' = Slot /\ phase' = "reading" /\ source' \in Sources /\ read' \in Nat
  BY <1>9, StatementReads DEF Slot
<1>11. Adds(NewItems(n, items)) /\ DOMAIN sections' = DOMAIN sections \cup {n}
  BY <1>3, <1>6, <1>9, <1>10, OneSectionAdds
<1>12. /\ literalPools' \in [AllSections -> Seq(Nat \ {0})]
       /\ literalPools'[n] = Append(pool, value)
       /\ \A m \in AllSections : m # n => literalPools'[m] = literalPools[m]
  <2>1. literalPools \in [AllSections -> Seq(Nat \ {0})] /\ Append(pool, value) \in Seq(Nat \ {0})
    BY <1>4, <1>7 DEF TypeOK
  <2> QED
    BY <1>3, <1>9, <2>1
<1>13. /\ \A i \in DOMAIN pool : i \in DOMAIN Append(pool, value) /\ Append(pool, value)[i] = pool[i]
       /\ Len(pool) + 1 \in DOMAIN Append(pool, value)
       /\ Append(pool, value)[Len(pool) + 1] = value
  BY <1>4, <1>7
<1>14. ASSUME NEW l \in DOMAIN labels, labels[l].frag = Pending
       PROVE  WaitingLabel(labels[l])
  <2>1. labels[l].section \in AllSections
    <3>1. labels[l] \in LabelType
      BY ElementOfSeq DEF TypeOK
    <3> QED
      BY <3>1 DEF LabelType
  <2>2. PICK m \in AllSections : m = labels[l].section
    BY <2>1
  <2>3. \A i \in DOMAIN literalPools[m] :
            \E j \in DOMAIN literalPools'[m] : literalPools'[m][j] = literalPools[m][i]
    <3>1. CASE m = n
      BY <1>7, <1>12, <1>13, <3>1
    <3>2. CASE m # n
      BY <1>12, <3>2
    <3> QED
      BY <3>1, <3>2
  <2> QED
    BY <1>10, <1>11, <1>14, <2>2, <2>3, WaitingStay
<1>15. /\ label.value = value /\ label.frag = Pending /\ label.slot = Slot
       /\ label.section = n /\ label \in LabelType
  BY <1>3, <1>4, <1>8 DEF LiteralLabel, LabelType
<1>16. WaitingLabel(label)
  <2>1. \E i \in DOMAIN literalPools'[n] : literalPools'[n][i] = value
    BY <1>12, <1>13
  <2> QED
    BY <1>4, <1>10, <1>11, <1>15, <2>1 DEF WaitingLabel
<1>17. labels' = labels \o <<label>>
  <2>1. labels \in Seq(LabelType)
    BY DEF TypeOK
  <2> QED
    BY <1>9, <1>15, <2>1, AppendIsConcat
<1>18. LabelsStep(NewItems(n, items))
  BY <1>14, <1>15, <1>16, <1>17, AppendedLabelStep
<1>19. archSlots' \in Seq(Modes) /\ archSlots' # <<>> /\ failed' \in BOOLEAN
  BY <1>9 DEF TypeOK
<1>20. [cur |-> cur, previous |-> previous]' \in Places' /\ sectionStack' \in Seq(Places')
  BY <1>9, <1>11, PlacesStand
<1>21. labels' \in Seq(LabelType) /\ sections' \in [DOMAIN sections' -> SectionType]
       /\ DOMAIN sections' \subseteq AllSections
  BY <1>11, <1>18 DEF Adds, LabelsStep
<1>22. phase' \in {"reading", "done"}
  BY <1>10
<1> QED
  BY <1>10, <1>11, <1>12, <1>18, <1>19, <1>20, <1>21, <1>22 DEF TypeOK, Effects

(* A statement that names a section, and emits nothing.                    *)
LEMMA NoItemStep ==
    ASSUME TypeOK, IInv, NEW kind, Statement(kind), NEW n \in AllSections,
           sections' = WithSection(n),
           [cur |-> cur, previous |-> previous]' \in
               [cur : DOMAIN sections \cup {n}, previous : DOMAIN sections \cup {n, NoSection}],
           \/ sectionStack' = sectionStack
           \/ sectionStack' = Append(sectionStack, [cur |-> cur, previous |-> previous])
           \/ /\ sectionStack # <<>>
              /\ sectionStack' = SubSeq(sectionStack, 1, Len(sectionStack) - 1),
           UNCHANGED <<archSlots, labels, literalPools, failed>>
    PROVE  TypeOK' /\ Effects
<1>1. SectionsKept /\ Slot' = Slot
  BY DEF IInv, Slot
<1>2. /\ DOMAIN WithSection(n) = DOMAIN sections \cup {n}
      /\ WithSection(n) \in [DOMAIN sections \cup {n} -> SectionType]
      /\ Kept(WithSection(n)[n], Slot)
  BY <1>1, NamedSection
<1>3. PICK t : t = WithSection(n)[n]
  OBVIOUS
<1>4. Kept(t, Slot) /\ t \in SectionType /\ Slot \in Nat
  BY <1>2, <1>3, ActiveBackend DEF Kept
<1>5. Grown(WithSection(n)[n], t, Slot, <<>>)
  BY <1>3, <1>4, SealingIsQuiet, QuietGrows
<1>6. sections' = [WithSection(n) EXCEPT ![n] = t]
  <2>1. WithSection(n) = [WithSection(n) EXCEPT ![n] = t]
    BY <1>2, <1>3
  <2> QED
    BY <2>1
<1>7. labels' = labels \o OwnLabel(FALSE, 0)
  BY Unlabelled
<1>8. FALSE \in BOOLEAN /\ 0 \in Nat
      /\ (FALSE => n = cur /\ Names(Len(Contents(sections[n])), t, <<>>, 0))
  OBVIOUS
<1>9. literalPools' = literalPools
  OBVIOUS
<1>10. /\ Effects /\ labels' \in Seq(LabelType)
       /\ sections' \in [DOMAIN sections' -> SectionType] /\ DOMAIN sections' \subseteq AllSections
  BY <1>1, <1>5, <1>6, <1>7, <1>8, <1>9, SectionStep
<1>11. DOMAIN sections' = DOMAIN sections \cup {n}
  BY <1>2
<1>12. source' \in Sources /\ read' \in Nat /\ phase' \in {"reading", "done"}
  BY StatementReads
<1>13. [cur |-> cur, previous |-> previous]' \in Places'
  <2>1. Places' = [cur : DOMAIN sections', previous : DOMAIN sections' \cup {NoSection}]
    BY DEF Places
  <2>2. DOMAIN sections \cup {n, NoSection} = DOMAIN sections' \cup {NoSection}
    BY <1>11
  <2> QED
    BY <1>11, <2>1, <2>2
<1>14. sectionStack' \in Seq(Places')
  <2>1. DOMAIN sections \subseteq DOMAIN sections'
    BY <1>11
  <2>2. PICK here \in Places' : here = [cur |-> cur, previous |-> previous]
    BY <2>1, PlacesStand
  <2>3. PICK P : P = Places'
    OBVIOUS
  <2>4. PICK stack \in Seq(P) : stack = sectionStack
    BY <2>1, <2>3, PlacesStand
  <2>5. Append(stack, here) \in Seq(P)
    BY <2>2, <2>3
  <2>6. stack # <<>> => SubSeq(stack, 1, Len(stack) - 1) \in Seq(P)
    <3>1. stack # <<>> => Len(stack) \in Nat \ {0}
      OBVIOUS
    <3>2. ASSUME stack # <<>>
          PROVE  SubSeq(stack, 1, Len(stack) - 1) \in Seq(P)
      <4> QED
        BY <3>1, <3>2
    <3> QED
      BY <3>2
  <2> QED
    BY <2>2, <2>3, <2>4, <2>5, <2>6
<1>15. /\ archSlots' \in Seq(Modes) /\ archSlots' # <<>> /\ failed' \in BOOLEAN
       /\ literalPools' \in [AllSections -> Seq(Nat \ {0})]
  BY DEF TypeOK
<1> QED
  BY <1>10, <1>12, <1>13, <1>14, <1>15 DEF TypeOK

(* The directives that change the current section.                         *)
LEMMA SectionDirectiveSteps ==
    ASSUME TypeOK, IInv
    PROVE  /\ \A n \in SectionNames : DirSection(n) \/ PushSection(n) => TypeOK' /\ Effects
           /\ PopSection \/ SwapPrevious => TypeOK' /\ Effects
<1>1. /\ cur \in DOMAIN sections /\ cur \in AllSections /\ WithSection(cur) = sections
      /\ previous \in DOMAIN sections \cup {NoSection}
  BY CurrentSection DEF TypeOK, Places
<1>2. PICK here \in AllSections : here = cur
  BY <1>1
<1>3. ASSUME NEW n \in SectionNames, DirSection(n) \/ PushSection(n)
      PROVE  TypeOK' /\ Effects
  <2>1. n \in AllSections
    BY DEF AllSections
  <2>2. sections' = WithSection(n) /\ cur' = n /\ previous' = cur
        /\ UNCHANGED <<archSlots, labels, literalPools, failed>>
    BY <1>3 DEF DirSection, PushSection, SetSection
  <2>3. [cur |-> cur, previous |-> previous]' \in
            [cur : DOMAIN sections \cup {n}, previous : DOMAIN sections \cup {n, NoSection}]
    BY <1>1, <2>2
  <2>4. \E kind : Statement(kind)
    BY <1>3 DEF DirSection, PushSection
  <2>5. \/ sectionStack' = sectionStack
        \/ sectionStack' = Append(sectionStack, [cur |-> cur, previous |-> previous])
    BY <1>3 DEF DirSection, PushSection
  <2> QED
    BY <2>1, <2>2, <2>3, <2>4, <2>5, NoItemStep
<1>4. ASSUME PopSection
      PROVE  TypeOK' /\ Effects
  <2>1. PICK saved : saved = sectionStack[Len(sectionStack)]
    OBVIOUS
  <2>2. /\ Statement("push") /\ sectionStack # <<>>
        /\ cur' = saved.cur /\ previous' = saved.previous
        /\ sectionStack' = SubSeq(sectionStack, 1, Len(sectionStack) - 1)
        /\ UNCHANGED <<sections, archSlots, labels, literalPools, failed>>
    BY <1>4, <2>1 DEF PopSection
  <2>3. saved \in Places
    <3>1. sectionStack \in Seq(Places)
      BY DEF TypeOK
    <3>2. Len(sectionStack) \in 1..Len(sectionStack)
      BY <2>2, <3>1
    <3> QED
      BY <2>1, <3>1, <3>2, ElementOfSeq
  <2>4. [cur |-> cur, previous |-> previous]' \in
            [cur : DOMAIN sections \cup {here}, previous : DOMAIN sections \cup {here, NoSection}]
    BY <2>2, <2>3 DEF Places
  <2>5. sections' = WithSection(here)
    BY <1>1, <1>2, <2>2
  <2> QED
    BY <2>2, <2>4, <2>5, NoItemStep
<1>5. ASSUME SwapPrevious
      PROVE  TypeOK' /\ Effects
  <2>1. /\ Statement("previous") /\ previous # NoSection
        /\ cur' = previous /\ previous' = cur
        /\ UNCHANGED <<sections, sectionStack, archSlots, labels, literalPools, failed>>
    BY <1>5 DEF SwapPrevious, SetSection
  <2>2. [cur |-> cur, previous |-> previous]' \in
            [cur : DOMAIN sections \cup {here}, previous : DOMAIN sections \cup {here, NoSection}]
    BY <1>1, <2>1
  <2>3. sections' = WithSection(here)
    BY <1>1, <1>2, <2>1
  <2> QED
    BY <2>1, <2>2, <2>3, NoItemStep
<1> QED
  BY <1>3, <1>4, <1>5

(* .lcomm: the label it defines names the byte, past the padding.          *)
LEMMA ReserveBssStep ==
    ASSUME TypeOK, IInv, ReserveBss
    PROVE  TypeOK' /\ Effects
<1>1. PICK n \in AllSections : n = "bss"
  BY DEF AllSections
<1>2. SectionsKept /\ Slot \in Nat /\ Mode \in Modes
  BY ActiveBackend DEF IInv
<1>3. PICK s : s = WithSection(n)[n]
  OBVIOUS
<1>4. /\ DOMAIN WithSection(n) = DOMAIN sections \cup {n}
      /\ Kept(s, Slot) /\ s \in SectionType /\ Contents(s) = Items(n)
  BY <1>2, <1>3, NamedSection DEF Kept
<1>5. PICK mapped : mapped = MapDataFrag(s, Mode)
  OBVIOUS
<1>6. Quiet(s, mapped)
  BY <1>2, <1>4, <1>5, MarkingIsQuiet
<1>7. PICK pad : pad = Padding(4, Data, NoLimit, Slot)
  OBVIOUS
<1>8. pad \in Item /\ pad.slot = Slot /\ pad.is = "pad"
  <2>1. Data \in Marks /\ NoLimit \in Nat /\ 4 \in Nat
    BY DEF Marks, NoLimit
  <2> QED
    BY <1>2, <1>7, <2>1, ItemsOfSlot
<1>9. PICK aligned : aligned = RaiseAlign(Push(mapped, pad), 4)
  OBVIOUS
<1>10. Quiet(Push(mapped, pad), aligned)
  <2>1. Kept(mapped, Slot)
    BY <1>2, <1>4, <1>6, QuietKeeps
  <2> QED
    BY <1>2, <1>8, <1>9, <2>1, PushGrows, SealingIsQuiet DEF Grown, Kept
<1>11. Grown(s, aligned, Slot, <<pad>>) /\ ~aligned.open
  BY <1>2, <1>4, <1>6, <1>8, <1>10, PushBetween
<1>12. PICK t : t = Push(aligned, Byte(Slot))
  OBVIOUS
<1>13. Kept(aligned, Slot) /\ aligned \in SectionType
  BY <1>11 DEF Grown, Kept
<1>14. Byte(Slot).is # "pad" /\ Byte(Slot) \in Item /\ Byte(Slot).slot = Slot
  BY <1>2, ItemsOfSlot
<1>15. Grown(aligned, t, Slot, <<Byte(Slot)>>)
  BY <1>2, <1>12, <1>13, <1>14, PushGrows
<1>16. PICK items : items = <<pad>> \o <<Byte(Slot)>>
  OBVIOUS
<1>17. Grown(s, t, Slot, items)
  BY <1>4, <1>11, <1>15, <1>16, GrownInTurn
<1>18. Names(Len(Contents(s)), t, items, NextFragIndex(aligned))
  <2>1. \A i \in DOMAIN <<pad>> : <<pad>>[i].is = "pad"
    BY <1>8
  <2>2. <<Byte(Slot)>>[1].is # "pad"
    BY <1>14
  <2>3. Emitted(s, aligned, <<pad>>) /\ Emitted(aligned, t, <<Byte(Slot)>>)
    BY <1>11, <1>15 DEF Grown
  <2> QED
    BY <1>4, <1>11, <1>13, <1>16, <2>1, <2>2, <2>3, NamesTheRest
<1>19. PICK label : label = Label(n, NextFragIndex(aligned))
  OBVIOUS
<1>20. /\ Statement("lcomm")
       /\ sections' = [WithSection(n) EXCEPT ![n] = t]
       /\ labels' = Append(labels, label)
       /\ previous' = n
       /\ UNCHANGED <<cur, sectionStack, archSlots, literalPools, failed>>
  BY <1>1, <1>3, <1>5, <1>7, <1>9, <1>12, <1>19 DEF ReserveBss
<1>21. Slot' = Slot /\ phase' = "reading" /\ source' \in Sources /\ read' \in Nat
       /\ phase' \in {"reading", "done"}
  BY <1>20, StatementReads DEF Slot
<1>22. /\ Adds(NewItems(n, items)) /\ sections'[n] = t
       /\ DOMAIN sections' = DOMAIN sections \cup {n}
  BY <1>2, <1>3, <1>17, <1>20, <1>21, OneSectionAdds
<1>23. NextFragIndex(aligned) \in Nat
  BY <1>13 DEF NextFragIndex, SectionType
<1>24. /\ label.value = 0 /\ label.frag = NextFragIndex(aligned) /\ label.section = n
       /\ label \in LabelType
  BY <1>19, <1>23 DEF Label, LabelType
<1>25. StatementLabel(NewItems(n, items), label)
  <2>1. label.frag # Pending
    BY <1>23, <1>24 DEF Pending
  <2>2. NewItems(n, items)[n] = items
    BY DEF NewItems
  <2> QED
    BY <1>4, <1>18, <1>22, <1>24, <2>1, <2>2 DEF StatementLabel
<1>26. \A l \in DOMAIN labels : labels[l].frag = Pending => WaitingLabel(labels[l])
  BY <1>20, <1>21, <1>22, WaitingStay
<1>27. labels' = labels \o <<label>>
  <2>1. labels \in Seq(LabelType)
    BY DEF TypeOK
  <2> QED
    BY <1>20, <1>24, <2>1, AppendIsConcat
<1>28. LabelsStep(NewItems(n, items))
  BY <1>24, <1>25, <1>26, <1>27, AppendedLabelStep
<1>29. [cur |-> cur, previous |-> previous]' \in Places' /\ sectionStack' \in Seq(Places')
  <2>1. DOMAIN sections \subseteq DOMAIN sections' /\ n \in DOMAIN sections'
    BY <1>22
  <2>2. cur' \in DOMAIN sections' /\ previous' \in DOMAIN sections' \cup {NoSection}
    BY <1>20, <2>1, PlacesStand
  <2>3. Places' = [cur : DOMAIN sections', previous : DOMAIN sections' \cup {NoSection}]
    BY DEF Places
  <2> QED
    BY <1>20, <2>1, <2>2, <2>3, PlacesStand
<1>30. /\ archSlots' \in Seq(Modes) /\ archSlots' # <<>> /\ failed' \in BOOLEAN
       /\ literalPools' \in [AllSections -> Seq(Nat \ {0})]
  BY <1>20 DEF TypeOK
<1>31. labels' \in Seq(LabelType) /\ sections' \in [DOMAIN sections' -> SectionType]
       /\ DOMAIN sections' \subseteq AllSections
  BY <1>22, <1>28 DEF Adds, LabelsStep
<1> QED
  BY <1>21, <1>22, <1>28, <1>29, <1>30, <1>31 DEF TypeOK, Effects

-----------------------------------------------------------------------------
(* The pools of the sections in "flushed" are written, and what else a     *)
(* step emits into these comes after them.                                 *)
FlushedIn(flushed, n) ==
    IF n \in flushed
      THEN \E more : Emitted(FlushLiterals(sections[n], literalPools[n]), sections'[n], more)
      ELSE sections'[n] = sections[n]

(* The items such a step emits.                                            *)
WrittenTo(flushed) ==
    [n \in AllSections |->
        IF n \in DOMAIN sections /\ n \in flushed
          THEN Written(literalPools[n]) \o
                   (CHOOSE more : Emitted(FlushLiterals(sections[n], literalPools[n]),
                                          sections'[n], more))
          ELSE <<>>]

(* They are what is added.                                                 *)
LEMMA FlushAdds ==
    ASSUME TypeOK, IInv, NEW flushed \in SUBSET AllSections,
           sections' \in [DOMAIN sections -> SectionType],
           \A n \in DOMAIN sections : Kept(sections'[n], Slot') /\ FlushedIn(flushed, n)
    PROVE  Adds(WrittenTo(flushed))
<1> DEFINE new == WrittenTo(flushed)
<1>1. /\ DOMAIN sections' = DOMAIN sections /\ DOMAIN sections \subseteq AllSections
      /\ \A n \in DOMAIN sections : sections[n] \in SectionType /\ Kept(sections[n], Slot)
  BY DEF TypeOK, IInv, SectionsKept
<1>2. ASSUME NEW n \in DOMAIN sections
      PROVE  Emitted(sections[n], sections'[n], new[n])
  <2>1. CASE n \in flushed
    <3>1. PICK s, pool, t : s = sections[n] /\ pool = literalPools[n] /\ t = sections'[n]
      OBVIOUS
    <3>2. PICK more : more = CHOOSE m : Emitted(FlushLiterals(s, pool), t, m)
      OBVIOUS
    <3>3. pool \in PoolOfLiterals /\ s \in SectionType /\ Kept(s, Slot)
      BY <1>1, <3>1 DEF TypeOK, PoolOfLiterals
    <3>4. \E m : Emitted(FlushLiterals(s, pool), t, m)
      BY <2>1, <3>1 DEF FlushedIn
    <3>5. Emitted(FlushLiterals(s, pool), t, more)
      BY <3>2, <3>4
    <3>6. Emitted(s, FlushLiterals(s, pool), Written(pool))
      BY <3>3, FlushGrows DEF Grown
    <3>7. Emitted(s, t, Written(pool) \o more)
      BY <3>3, <3>5, <3>6, EmittedInTurn
    <3>8. new[n] = Written(pool) \o more
      BY <1>1, <2>1, <3>1, <3>2 DEF WrittenTo
    <3> QED
      BY <3>1, <3>7, <3>8
  <2>2. CASE n \notin flushed
    <3>1. sections'[n] = sections[n]
      BY <2>2 DEF FlushedIn
    <3>2. Emitted(sections[n], sections[n], <<>>)
      BY <1>1, SameFragsEmitNothing
    <3>3. new[n] = <<>>
      BY <1>1, <2>2 DEF WrittenTo
    <3> QED
      BY <3>1, <3>2, <3>3
  <2> QED
    BY <2>1, <2>2
<1>3. \A n \in AllSections \ DOMAIN sections : new[n] = <<>>
  BY DEF WrittenTo
<1>4. new \in [AllSections -> Seq(Item)]
  <2>1. new = [n \in AllSections |-> new[n]]
    BY DEF WrittenTo
  <2> HIDE DEF new
  <2>2. ASSUME NEW n \in AllSections
        PROVE  new[n] \in Seq(Item)
    <3>1. CASE n \in DOMAIN sections
      BY <1>2, <3>1 DEF Emitted
    <3>2. CASE n \notin DOMAIN sections
      <4>1. n \in AllSections \ DOMAIN sections
        BY <3>2
      <4>2. new[n] = <<>>
        BY <1>3, <4>1
      <4>3. <<>> \in Seq(Item)
        OBVIOUS
      <4> QED
        BY <4>2, <4>3
    <3> QED
      BY <3>1, <3>2
  <2> QED
    BY <2>1, <2>2
<1> HIDE DEF new
<1>5. sections' \in [DOMAIN sections' -> SectionType]
  BY <1>1
<1>6. Adds(new)
  BY <1>1, <1>2, <1>3, <1>4, <1>5 DEF Adds
<1> QED
  BY <1>6 DEF new

(* The label of a literal is left at the entry of its value.               *)
LEMMA FlushedLabel ==
    ASSUME TypeOK, IInv, NEW flushed \in SUBSET AllSections,
           sections' \in [DOMAIN sections -> SectionType],
           \A n \in DOMAIN sections : FlushedIn(flushed, n),
           NEW label \in LabelType, label.section \in flushed, label.section \in DOMAIN sections,
           label.value # 0, label.slot = Slot,
           \E i \in DOMAIN literalPools[label.section] :
               literalPools[label.section][i] = label.value,
           NEW after,
           after = [label EXCEPT !.frag =
               NextFragIndex(PoolStart(sections[label.section]))
                 + (CHOOSE k \in DOMAIN PoolValues(literalPools[label.section]) :
                       PoolValues(literalPools[label.section])[k] = label.value) - 1]
    PROVE  EntryLabel(WrittenTo(flushed), after) /\ after \in LabelType
<1>1. PICK n \in DOMAIN sections : n = label.section
  OBVIOUS
<1>2. PICK s, pool, t : s = sections[n] /\ pool = literalPools[n] /\ t = sections'[n]
  OBVIOUS
<1>3. /\ n \in AllSections /\ s \in SectionType /\ Kept(s, Slot)
      /\ pool \in PoolOfLiterals /\ Slot \in Nat
  BY <1>1, <1>2, ActiveBackend DEF TypeOK, IInv, SectionsKept, PoolOfLiterals
<1>4. PICK k : k = CHOOSE j \in DOMAIN PoolValues(pool) : PoolValues(pool)[j] = label.value
  OBVIOUS
<1>5. k \in DOMAIN PoolValues(pool) /\ PoolValues(pool)[k] = label.value /\ pool # <<>>
      /\ DOMAIN PoolValues(pool) = 1..Len(PoolValues(pool)) /\ Len(PoolValues(pool)) \in Nat
  <2>1. PICK i \in DOMAIN pool : pool[i] = label.value
    BY <1>1, <1>2
  <2>2. \E j \in DOMAIN PoolValues(pool) : PoolValues(pool)[j] = label.value
    <3>1. PICK V : V = Nat \ {0}
      OBVIOUS
    <3>2. pool \in Seq(V)
      BY <1>3, <3>1 DEF PoolOfLiterals
    <3>3. \E j \in DOMAIN PoolValues(pool) : PoolValues(pool)[j] = pool[i]
      BY <2>1, <3>2, PoolValuesAreThePool
    <3> QED
      BY <2>1, <3>3
  <2>3. DOMAIN PoolValues(pool) = 1..Len(PoolValues(pool)) /\ Len(PoolValues(pool)) \in Nat
    BY <1>3, PoolValuesAreThePool DEF PoolOfLiterals
  <2>4. pool # <<>>
    BY <2>1
  <2> QED
    BY <1>4, <2>2, <2>3, <2>4
<1>6. PICK frag : frag = NextFragIndex(PoolStart(s)) + k - 1
  OBVIOUS
<1>7. frag \in Nat /\ k \in Nat
  <2>1. PoolStart(s) \in SectionType
    BY <1>3, PoolStartGrows DEF Grown, Kept
  <2>2. NextFragIndex(PoolStart(s)) \in Nat
    BY <2>1 DEF NextFragIndex, SectionType
  <2> QED
    BY <1>5, <1>6, <2>2
<1>8. PICK u : u = FlushLiterals(s, pool)
  OBVIOUS
<1>9. /\ Fixed(u, frag) /\ Len(ItemsUpTo(u, frag)) = Len(Contents(s)) + k
      /\ k + 1 \in DOMAIN Written(pool)
      /\ Written(pool)[k + 1] = PoolEntry(label.value, Slot)
      /\ Grown(s, u, Slot, Written(pool))
  BY <1>3, <1>5, <1>6, <1>8, FlushGrows
<1>10. PICK more : more = CHOOSE m : Emitted(u, t, m)
  OBVIOUS
<1>11. Emitted(u, t, more)
  <2>1. \E m : Emitted(u, t, m)
    BY <1>1, <1>2, <1>8 DEF FlushedIn
  <2> QED
    BY <1>10, <2>1
<1>12. Fixed(t, frag) /\ ItemsUpTo(t, frag) = ItemsUpTo(u, frag)
  BY <1>7, <1>9, <1>11 DEF Emitted
<1>13. WrittenTo(flushed)[n] = Written(pool) \o more
  BY <1>1, <1>2, <1>3, <1>8, <1>10 DEF WrittenTo
<1>14. k + 1 \in DOMAIN (Written(pool) \o more) /\ (Written(pool) \o more)[k + 1] = Written(pool)[k + 1]
  <2>1. Written(pool) \in Seq(Item) /\ more \in Seq(Item)
    BY <1>9, <1>11 DEF Grown, Emitted
  <2> QED
    BY <1>9, <2>1
<1>15. Contents(s) = Items(n) /\ Len(Items(n)) \in Nat
  BY <1>2, ItemsOfSections
<1>16. Len(ItemsUpTo(t, frag)) + 1 = Len(Items(n)) + (k + 1)
  BY <1>7, <1>9, <1>12, <1>15
<1>17. after = [label EXCEPT !.frag = frag]
  BY <1>1, <1>2, <1>4, <1>6
<1>18. /\ after.section = n /\ after.frag = frag /\ after.value = label.value
       /\ after.slot = Slot /\ after \in LabelType
  BY <1>1, <1>7, <1>17 DEF LabelType
<1>19. frag # Pending
  BY <1>7 DEF Pending
<1>20. n \in DOMAIN sections'
  BY <1>1
<1> QED
  BY <1>2, <1>9, <1>12, <1>13, <1>14, <1>16, <1>18, <1>19, <1>20 DEF EntryLabel

(* A step that writes the pools of the sections in "flushed": all of them  *)
(* when the backend changes or the source ends.                            *)
LEMMA FlushEffects ==
    ASSUME TypeOK, IInv, NEW flushed \in SUBSET AllSections,
           sections' \in [DOMAIN sections -> SectionType],
           \A n \in DOMAIN sections : Kept(sections'[n], Slot') /\ FlushedIn(flushed, n),
           labels' = LabelsAfter(flushed),
           literalPools' = [n \in AllSections |-> IF n \in flushed THEN <<>> ELSE literalPools[n]],
           flushed = AllSections \/ (Slot' = Slot /\ phase' = "reading")
    PROVE  /\ Effects /\ labels' \in Seq(LabelType)
           /\ literalPools' \in [AllSections -> Seq(Nat \ {0})]
           /\ sections' \in [DOMAIN sections' -> SectionType]
           /\ DOMAIN sections' \subseteq AllSections
           /\ DOMAIN sections' = DOMAIN sections
<1> DEFINE new == WrittenTo(flushed)
           last == Len(labels)
<1>1. Adds(new)
  BY FlushAdds
<1>2. labels \in Seq(LabelType) /\ DOMAIN labels = 1..last /\ last \in Nat
  BY DEF TypeOK
<1>3. \A l \in 1..last : labels[l] \in LabelType
  BY <1>2, ElementOfSeq
<1>4. DOMAIN sections' = DOMAIN sections
  OBVIOUS
<1>5. \A l \in 1..last : labels'[l] =
          IF labels[l].section \notin flushed \/ labels[l].frag # Pending THEN labels[l]
          ELSE [labels[l] EXCEPT !.frag =
                  NextFragIndex(PoolStart(sections[labels[l].section]))
                    + (CHOOSE k \in DOMAIN PoolValues(literalPools[labels[l].section]) :
                          PoolValues(literalPools[labels[l].section])[k] = labels[l].value) - 1]
  BY <1>2 DEF LabelsAfter
<1> HIDE DEF new, last
<1>6. ASSUME NEW l \in 1..last
      PROVE  /\ labels'[l] \in LabelType
             /\ IF labels[l].frag # Pending THEN labels'[l] = labels[l]
                ELSE EntryLabel(new, labels'[l]) \/ WaitingLabel(labels'[l])
             /\ labels'[l] = [labels[l] EXCEPT !.frag = labels'[l].frag]
  <2>1. labels[l] \in LabelType /\ labels[l] = [labels[l] EXCEPT !.frag = labels[l].frag]
    BY <1>3 DEF LabelType
  <2>2. CASE labels[l].frag # Pending
    BY <1>5, <2>1, <2>2
  <2>3. CASE labels[l].frag = Pending
    <3>1. /\ labels[l].section \in DOMAIN sections /\ labels[l].value # 0
          /\ labels[l].slot = Slot
          /\ \E i \in DOMAIN literalPools[labels[l].section] :
                literalPools[labels[l].section][i] = labels[l].value
      BY <1>2, <2>3 DEF IInv, LiteralsAreWritten, LabelsFixed
    <3>2. labels[l].section \in AllSections
      BY <2>1 DEF LabelType
    <3>3. CASE labels[l].section \in flushed
      <4>1. PICK label \in LabelType : label = labels[l]
        BY <2>1
      <4>2. PICK after : after = labels'[l]
        OBVIOUS
      <4>3. after = [label EXCEPT !.frag =
                NextFragIndex(PoolStart(sections[label.section]))
                  + (CHOOSE k \in DOMAIN PoolValues(literalPools[label.section]) :
                        PoolValues(literalPools[label.section])[k] = label.value) - 1]
        BY <1>5, <2>3, <3>3, <4>1, <4>2
      <4>4. EntryLabel(new, after) /\ after \in LabelType
        BY <3>1, <3>3, <4>1, <4>3, FlushedLabel DEF new
      <4>5. after = [label EXCEPT !.frag = after.frag]
        BY <4>1, <4>3 DEF LabelType
      <4> QED
        BY <2>3, <4>1, <4>2, <4>4, <4>5
    <3>4. CASE labels[l].section \notin flushed
      <4>1. labels'[l] = labels[l]
        BY <1>5, <3>4
      <4>2. Slot' = Slot /\ phase' = "reading"
        BY <3>2, <3>4
      <4>3. literalPools'[labels[l].section] = literalPools[labels[l].section]
        BY <3>2, <3>4
      <4>4. WaitingLabel(labels[l])
        BY <2>3, <3>1, <4>2, <4>3 DEF WaitingLabel
      <4> QED
        BY <2>1, <2>3, <4>1, <4>4
    <3> QED
      BY <3>3, <3>4
  <2> QED
    BY <2>2, <2>3
<1>7. DOMAIN labels' = 1..last /\ labels' \in Seq(LabelType)
  <2>1. PICK after : after = labels'
    OBVIOUS
  <2>2. after = [l \in 1..last |-> after[l]]
    <3>1. labels' = [l \in 1..last |-> labels'[l]]
      BY <1>2 DEF LabelsAfter
    <3> QED
      BY <2>1, <3>1
  <2>3. \A l \in 1..last : after[l] \in LabelType
    BY <1>6, <2>1
  <2>4. after \in [1..last -> LabelType]
    BY <2>2, <2>3
  <2>5. after \in Seq(LabelType) /\ DOMAIN after = 1..last
    BY <1>2, <2>4
  <2> QED
    BY <2>1, <2>5
<1>8. LabelsStep(new)
  BY <1>2, <1>6, <1>7 DEF LabelsStep
<1>9. literalPools' \in [AllSections -> Seq(Nat \ {0})]
  <2>1. literalPools \in [AllSections -> Seq(Nat \ {0})]
    BY DEF TypeOK
  <2> QED
    BY <2>1
<1> QED
  BY <1>1, <1>4, <1>7, <1>8, <1>9 DEF Effects, Adds

(* .ltorg                                                                  *)
LEMMA LtorgStep ==
    ASSUME TypeOK, IInv, Ltorg
    PROVE  TypeOK' /\ Effects
<1>1. PICK n : n = cur
  OBVIOUS
<1>2. PICK s, pool : s = sections[n] /\ pool = literalPools[n]
  OBVIOUS
<1>3. /\ Kept(s, Slot) /\ n \in DOMAIN sections /\ n \in AllSections
      /\ sections \in [DOMAIN sections -> SectionType] /\ Slot \in Nat
  BY <1>1, <1>2, CurrentSection, ActiveBackend
<1>4. pool \in PoolOfLiterals /\ literalPools \in [AllSections -> Seq(Nat \ {0})]
  BY <1>2, <1>3 DEF TypeOK, PoolOfLiterals
<1>5. PICK t : t = FlushLiterals(s, pool)
  OBVIOUS
<1>6. Kept(t, Slot) /\ t \in SectionType
  BY <1>3, <1>4, <1>5, FlushGrows DEF Grown, Kept
<1>7. /\ Statement("ltorg")
      /\ sections' = [sections EXCEPT ![n] = t]
      /\ labels' = LabelsAfter({n})
      /\ literalPools' = [literalPools EXCEPT ![n] = <<>>]
      /\ UNCHANGED <<cur, previous, sectionStack, archSlots, failed>>
  BY <1>1, <1>2, <1>5 DEF Ltorg
<1>8. Slot' = Slot /\ phase' = "reading" /\ source' \in Sources /\ read' \in Nat
      /\ phase' \in {"reading", "done"}
  BY <1>7, StatementReads DEF Slot
<1>9. /\ sections' \in [DOMAIN sections -> SectionType] /\ sections'[n] = t
      /\ \A m \in DOMAIN sections : m # n => sections'[m] = sections[m]
  BY <1>3, <1>6, <1>7
<1>10. ASSUME NEW m \in DOMAIN sections
       PROVE  Kept(sections'[m], Slot') /\ FlushedIn({n}, m)
  <2>1. CASE m = n
    <3>1. Emitted(t, t, <<>>)
      BY <1>6, SameFragsEmitNothing
    <3>2. \E more : Emitted(FlushLiterals(sections[m], literalPools[m]), sections'[m], more)
      BY <1>2, <1>5, <1>9, <2>1, <3>1
    <3>3. Kept(sections'[m], Slot')
      BY <1>6, <1>8, <1>9, <2>1
    <3> QED
      BY <2>1, <3>2, <3>3 DEF FlushedIn
  <2>2. CASE m # n
    <3>1. Kept(sections[m], Slot)
      BY DEF IInv, SectionsKept
    <3> QED
      BY <1>8, <1>9, <2>2, <3>1 DEF FlushedIn
  <2> QED
    BY <2>1, <2>2
<1>11. literalPools' = [m \in AllSections |-> IF m \in {n} THEN <<>> ELSE literalPools[m]]
  BY <1>3, <1>4, <1>7
<1>12. {n} \in SUBSET AllSections
  BY <1>3
<1>13. /\ Effects /\ labels' \in Seq(LabelType)
       /\ literalPools' \in [AllSections -> Seq(Nat \ {0})]
       /\ sections' \in [DOMAIN sections' -> SectionType] /\ DOMAIN sections' \subseteq AllSections
       /\ DOMAIN sections' = DOMAIN sections
  BY <1>7, <1>8, <1>9, <1>10, <1>11, <1>12, FlushEffects
<1>14. [cur |-> cur, previous |-> previous]' \in Places' /\ sectionStack' \in Seq(Places')
  BY <1>7, <1>13, PlacesStand
<1>15. archSlots' \in Seq(Modes) /\ archSlots' # <<>> /\ failed' \in BOOLEAN
  BY <1>7 DEF TypeOK
<1> QED
  BY <1>8, <1>13, <1>14, <1>15 DEF TypeOK

(* .arch: the pools belong to the backend switched away from, and what     *)
(* comes next to the one switched to.                                      *)
LEMMA SwitchArchStep ==
    ASSUME TypeOK, IInv, NEW mode \in source.backends, SwitchArch(mode)
    PROVE  TypeOK' /\ Effects
<1>1. mode \in Modes
  BY SourcesAssumption DEF TypeOK
<1>2. /\ Statement("arch")
      /\ archSlots' = Append(archSlots, mode)
      /\ sections' = [n \in DOMAIN sections |->
             MarkArch(FlushLiterals(sections[n], literalPools[n]), Slot + 1)]
      /\ labels' = LabelsAfter(AllSections)
      /\ literalPools' = [n \in AllSections |-> <<>>]
      /\ UNCHANGED <<cur, previous, sectionStack, failed>>
  BY DEF SwitchArch, FlushedSections
<1>3. phase' = "reading" /\ source' \in Sources /\ read' \in Nat /\ phase' \in {"reading", "done"}
  BY <1>2, StatementReads
<1>4. Slot' = Slot + 1 /\ Slot \in Nat /\ Slot + 1 \in Nat
      /\ archSlots' \in Seq(Modes) /\ archSlots' # <<>>
  <2>1. archSlots \in Seq(Modes) /\ Len(archSlots) \in Nat
    BY DEF TypeOK
  <2>2. Len(archSlots') = Len(archSlots) + 1 /\ archSlots' \in Seq(Modes) /\ archSlots' # <<>>
    BY <1>1, <1>2, <2>1
  <2>3. Slot \in Nat
    BY ActiveBackend
  <2> QED
    BY <2>1, <2>2, <2>3 DEF Slot
<1>5. ASSUME NEW n \in DOMAIN sections
      PROVE  /\ Kept(sections'[n], Slot') /\ FlushedIn(AllSections, n)
             /\ sections'[n] \in SectionType
  <2>1. PICK s, pool : s = sections[n] /\ pool = literalPools[n]
    OBVIOUS
  <2>2. PICK u : u = FlushLiterals(s, pool)
    OBVIOUS
  <2>3. Kept(s, Slot) /\ n \in AllSections /\ pool \in PoolOfLiterals
    BY <2>1 DEF TypeOK, IInv, SectionsKept, PoolOfLiterals
  <2>4. Kept(u, Slot) /\ u \in SectionType
    BY <2>2, <2>3, FlushGrows DEF Grown, Kept
  <2>5. PICK t : t = MarkArch(u, Slot + 1)
    OBVIOUS
  <2>6. Kept(t, Slot + 1) /\ t.frags = u.frags /\ ~t.open /\ t \in SectionType
    BY <1>4, <2>4, <2>5, MarkArchKeeps DEF Kept
  <2>7. Emitted(u, t, <<>>)
    BY <2>4, <2>6, SameFragsEmitNothing
  <2>8. sections'[n] = t
    BY <1>2, <2>1, <2>2, <2>5
  <2>9. FlushedIn(AllSections, n)
    BY <2>1, <2>2, <2>3, <2>7, <2>8 DEF FlushedIn
  <2> QED
    BY <1>4, <2>6, <2>8, <2>9
<1>6. sections' \in [DOMAIN sections -> SectionType]
  <2>1. PICK after : after = sections'
    OBVIOUS
  <2>2. after = [n \in DOMAIN sections |-> after[n]]
    <3>1. sections' = [n \in DOMAIN sections |-> sections'[n]]
      BY <1>2
    <3> QED
      BY <2>1, <3>1
  <2> QED
    BY <1>5, <2>1, <2>2
<1>7. literalPools' = [n \in AllSections |-> IF n \in AllSections THEN <<>> ELSE literalPools[n]]
  BY <1>2
<1>8. AllSections \in SUBSET AllSections
  OBVIOUS
<1>9. /\ Effects /\ labels' \in Seq(LabelType)
      /\ literalPools' \in [AllSections -> Seq(Nat \ {0})]
      /\ sections' \in [DOMAIN sections' -> SectionType] /\ DOMAIN sections' \subseteq AllSections
      /\ DOMAIN sections' = DOMAIN sections
  BY <1>2, <1>5, <1>6, <1>7, <1>8, FlushEffects
<1>10. [cur |-> cur, previous |-> previous]' \in Places' /\ sectionStack' \in Seq(Places')
  BY <1>2, <1>9, PlacesStand
<1>11. failed' \in BOOLEAN
  BY <1>2 DEF TypeOK
<1> QED
  BY <1>3, <1>4, <1>9, <1>10, <1>11 DEF TypeOK

(* The end of the source.                                                  *)
LEMMA FinishStep ==
    ASSUME TypeOK, IInv, Finish
    PROVE  TypeOK' /\ Effects
<1>1. /\ phase' = "done"
      /\ sections' = [n \in DOMAIN sections |->
             PadTail(FlushLiterals(sections[n], literalPools[n]))]
      /\ labels' = LabelsAfter(AllSections)
      /\ literalPools' = [n \in AllSections |-> <<>>]
      /\ UNCHANGED <<source, cur, previous, sectionStack, archSlots, failed, read>>
  BY DEF Finish, FlushedSections
<1>2. Slot' = Slot /\ Slot \in Nat
  BY <1>1, ActiveBackend DEF Slot
<1>3. ASSUME NEW n \in DOMAIN sections
      PROVE  /\ Kept(sections'[n], Slot') /\ FlushedIn(AllSections, n)
             /\ sections'[n] \in SectionType
  <2>1. PICK s, pool : s = sections[n] /\ pool = literalPools[n]
    OBVIOUS
  <2>2. PICK u : u = FlushLiterals(s, pool)
    OBVIOUS
  <2>3. Kept(s, Slot) /\ n \in AllSections /\ pool \in PoolOfLiterals
    BY <2>1 DEF TypeOK, IInv, SectionsKept, PoolOfLiterals
  <2>4. Kept(u, Slot)
    BY <2>2, <2>3, FlushGrows DEF Grown
  <2>5. PICK t : t = PadTail(u)
    OBVIOUS
  <2>6. PICK items : Grown(u, t, Slot, items)
    BY <2>4, <2>5, PadTailGrows
  <2>7. sections'[n] = t
    BY <1>1, <2>1, <2>2, <2>5
  <2>8. FlushedIn(AllSections, n)
    BY <2>1, <2>2, <2>3, <2>6, <2>7 DEF FlushedIn, Grown
  <2> QED
    BY <1>2, <2>6, <2>7, <2>8 DEF Grown, Kept
<1>4. sections' \in [DOMAIN sections -> SectionType]
  <2>1. PICK after : after = sections'
    OBVIOUS
  <2>2. after = [n \in DOMAIN sections |-> after[n]]
    <3>1. sections' = [n \in DOMAIN sections |-> sections'[n]]
      BY <1>1
    <3> QED
      BY <2>1, <3>1
  <2> QED
    BY <1>3, <2>1, <2>2
<1>5. literalPools' = [n \in AllSections |-> IF n \in AllSections THEN <<>> ELSE literalPools[n]]
  BY <1>1
<1>6. AllSections \in SUBSET AllSections
  OBVIOUS
<1>7. /\ Effects /\ labels' \in Seq(LabelType)
      /\ literalPools' \in [AllSections -> Seq(Nat \ {0})]
      /\ sections' \in [DOMAIN sections' -> SectionType] /\ DOMAIN sections' \subseteq AllSections
      /\ DOMAIN sections' = DOMAIN sections
  BY <1>1, <1>3, <1>4, <1>5, <1>6, FlushEffects
<1>8. [cur |-> cur, previous |-> previous]' \in Places' /\ sectionStack' \in Seq(Places')
  BY <1>1, <1>7, PlacesStand
<1>9. /\ archSlots' \in Seq(Modes) /\ archSlots' # <<>> /\ failed' \in BOOLEAN
      /\ source' \in Sources /\ read' \in Nat /\ phase' \in {"reading", "done"}
  BY <1>1 DEF TypeOK
<1> QED
  BY <1>7, <1>8, <1>9 DEF TypeOK

-----------------------------------------------------------------------------
(* Before anything is read.                                                *)
LEMMA InitIsKept ==
    ASSUME Init
    PROVE  TypeOK /\ IInv /\ Items("text") = <<>> /\ DOMAIN sections = {"text"} /\ labels = <<>>
<1>1. PICK s : s = NewSection(TRUE)
  OBVIOUS
<1>2. Kept(s, 0) /\ Contents(s) = <<>> /\ s \in SectionType
  BY <1>1, NewSectionIsKept DEF Kept
<1>3. PICK mode : mode \in source.first /\ archSlots = <<mode>>
  BY DEF Init
<1>4. mode \in Modes /\ source \in Sources
  BY <1>3, SourcesAssumption DEF Init
<1>5. Slot = 0 /\ archSlots \in Seq(Modes) /\ archSlots # <<>>
  BY <1>3, <1>4 DEF Slot
<1>6. /\ sections \in [{"text"} -> SectionType] /\ DOMAIN sections = {"text"}
      /\ \A n \in DOMAIN sections : sections[n] = s
  BY <1>1, <1>2 DEF Init
<1>7. /\ cur = "text" /\ previous = NoSection /\ sectionStack = <<>> /\ labels = <<>>
      /\ literalPools = [n \in AllSections |-> <<>>] /\ failed = FALSE /\ read = 0
      /\ phase = "reading"
  BY DEF Init
<1>8. "text" \in AllSections
  BY SectionsAssumption DEF AllSections
<1>9. TypeOK
  <2>1. [cur |-> cur, previous |-> previous] \in Places /\ sectionStack \in Seq(Places)
    BY <1>6, <1>7 DEF Places
  <2>2. labels \in Seq(LabelType)
    <3>1. <<>> \in Seq(LabelType)
      OBVIOUS
    <3> QED
      BY <1>7, <3>1
  <2>3. read \in Nat /\ phase \in {"reading", "done"} /\ failed \in BOOLEAN
    BY <1>7
  <2>4. literalPools \in [AllSections -> Seq(Nat \ {0})]
    <3>1. <<>> \in Seq(Nat \ {0})
      OBVIOUS
    <3> QED
      BY <1>7, <3>1
  <2> QED
    BY <1>4, <1>5, <1>6, <1>8, <2>1, <2>2, <2>3, <2>4 DEF TypeOK
<1>10. SectionsKept
  BY <1>2, <1>5, <1>6 DEF SectionsKept
<1>11. LiteralsAreWritten /\ LabelsFixed
  BY <1>7 DEF LiteralsAreWritten, LabelsFixed
<1>12. Items("text") = <<>>
  BY <1>2, <1>6 DEF Items, Contents
<1> QED
  BY <1>6, <1>7, <1>9, <1>10, <1>11, <1>12 DEF IInv

(* Every statement, and the end of the source.                             *)
LEMMA NextHasEffects ==
    ASSUME TypeOK, IInv, Next
    PROVE  TypeOK' /\ Effects
<1>1. CASE DefineLabel
  BY <1>1, DefineLabelStep
<1>2. CASE \E labelled \in BOOLEAN : DirData(labelled)
  BY <1>2, DirDataStep
<1>3. CASE DirSpace \/ EmitOrg
  BY <1>3, SpaceAndOrgSteps
<1>4. CASE DirAlign
  BY <1>4, DirAlignStep
<1>5. CASE \E labelled \in BOOLEAN : Instruction(labelled) \/ RefuseInstruction(labelled)
  BY <1>5, InstructionStep
<1>6. CASE \E labelled \in BOOLEAN : PrefixedInstruction(labelled)
  BY <1>6, PrefixedStep
<1>7. CASE \E value \in source.values : LoadLiteral(value)
  BY <1>7, LoadLiteralStep
<1>8. CASE Ltorg
  BY <1>8, LtorgStep
<1>9. CASE \E mode \in Arm : SetMode(mode)
  BY <1>9, SetModeStep
<1>10. CASE \E mode \in source.backends : SwitchArch(mode)
  BY <1>10, SwitchArchStep
<1>11. CASE \E n \in SectionNames : DirSection(n) \/ PushSection(n)
  BY <1>11, SectionDirectiveSteps
<1>12. CASE PopSection \/ SwapPrevious
  BY <1>12, SectionDirectiveSteps
<1>13. CASE ReserveBss
  BY <1>13, ReserveBssStep
<1>14. CASE Finish
  BY <1>14, FinishStep
<1> QED
  BY <1>1, <1>2, <1>3, <1>4, <1>5, <1>6, <1>7, <1>8, <1>9, <1>10, <1>11, <1>12, <1>13, <1>14
     DEF Next

(* What every step does keeps the sections, the waiting literals and the   *)
(* labels as they have to be.                                              *)
LEMMA EffectsKeepInvariant ==
    ASSUME TypeOK, IInv, Effects
    PROVE  IInv'
<1>1. PICK new : Adds(new) /\ LabelsStep(new)
  BY DEF Effects
<1>2. SectionsKept'
  BY <1>1 DEF Adds, SectionsKept
<1>3. LiteralsAreWritten'
  BY <1>1 DEF LabelsStep, StatementLabel, EntryLabel, WaitingLabel, LiteralsAreWritten
<1>4. ASSUME NEW l \in DOMAIN labels'
      PROVE  /\ labels'[l].section \in DOMAIN sections'
             /\ IF labels'[l].frag = Pending THEN labels'[l].value # 0
                ELSE Fixed(sections'[labels'[l].section], labels'[l].frag)
  <2>1. CASE l \in DOMAIN labels /\ labels[l].frag # Pending
    <3>1. PICK n, frag : n = labels[l].section /\ frag = labels[l].frag
      OBVIOUS
    <3>2. labels'[l] = labels[l] /\ frag # Pending
      BY <1>1, <2>1, <3>1 DEF LabelsStep
    <3>3. n \in DOMAIN sections /\ Fixed(sections[n], frag) /\ frag \in Nat
      <4>1. labels[l] \in LabelType
        BY <2>1, ElementOfSeq DEF TypeOK
      <4> QED
        BY <2>1, <3>1, <4>1 DEF IInv, LabelsFixed, LabelType
    <3>4. n \in DOMAIN sections' /\ Emitted(sections[n], sections'[n], new[n])
      BY <1>1, <3>3 DEF Adds
    <3>5. Fixed(sections'[n], frag)
      BY <3>3, <3>4 DEF Emitted
    <3> QED
      BY <3>1, <3>2, <3>4, <3>5
  <2>2. CASE ~ (l \in DOMAIN labels /\ labels[l].frag # Pending)
    <3>1. \/ StatementLabel(new, labels'[l])
          \/ EntryLabel(new, labels'[l])
          \/ WaitingLabel(labels'[l])
      BY <1>1, <2>2 DEF LabelsStep
    <3> QED
      BY <3>1 DEF StatementLabel, EntryLabel, WaitingLabel, Names
  <2> QED
    BY <2>1, <2>2
<1>5. LabelsFixed'
  BY <1>4 DEF LabelsFixed
<1> QED
  BY <1>2, <1>3, <1>5 DEF IInv

(* Every step keeps the invariant.                                         *)
LEMMA StepKeepsInvariant ==
    ASSUME TypeOK, IInv, [Next]_vars
    PROVE  TypeOK' /\ IInv'
<1>1. CASE Next
  BY <1>1, NextHasEffects, EffectsKeepInvariant
<1>2. CASE UNCHANGED vars
  <2>1. UNCHANGED <<source, sections, cur, previous, sectionStack, archSlots, labels,
                    literalPools, failed, read, phase>>
    BY <1>2 DEF vars
  <2>2. Slot' = Slot /\ Places' = Places
    BY <2>1 DEF Slot, Places
  <2>3. TypeOK'
    BY <2>1, <2>2 DEF TypeOK
  <2>4. SectionsKept' /\ LiteralsAreWritten' /\ LabelsFixed'
    BY <2>1, <2>2 DEF IInv, SectionsKept, LiteralsAreWritten, LabelsFixed
  <2> QED
    BY <2>3, <2>4 DEF IInv
<1> QED
  BY <1>1, <1>2

(* The invariant of every source that is read.                             *)
LEMMA InvariantAlways == Spec => [](TypeOK /\ IInv)
<1>1. Init => TypeOK /\ IInv
  BY InitIsKept
<1>2. (TypeOK /\ IInv) /\ [Next]_vars => (TypeOK /\ IInv)'
  BY StepKeepsInvariant
<1> QED
  BY <1>1, <1>2, PTL DEF Spec

(* Sections, labels and pools have the values their types say.             *)
THEOREM SectionsAreTyped == Spec => []TypeOK
BY InvariantAlways, PTL

(* No fragment holds what two backends emitted (mark_arch, arch_slot).     *)
THEOREM EveryFragmentHasOneBackend == Spec => []OneBackendPerFragment
<1>1. IInv => OneBackendPerFragment
  BY DEF IInv, SectionsKept, Kept, ItemsBySlot, OneBackendPerFragment
<1> QED
  BY <1>1, InvariantAlways, PTL

(* No load is left without its literal (flush_all_literals).               *)
THEOREM EveryLiteralIsWritten == Spec => []LiteralsAreWritten
<1>1. IInv => LiteralsAreWritten
  BY DEF IInv
<1> QED
  BY <1>1, InvariantAlways, PTL

-----------------------------------------------------------------------------
(* A section's stream goes on with what a step adds to it.                 *)
LEMMA StreamGoesOn ==
    ASSUME TypeOK, NEW new, Adds(new), NEW n \in AllSections
    PROVE  /\ Items(n)' = Items(n) \o new[n]
           /\ Items(n) \in Seq(Item) /\ new[n] \in Seq(Item)
           /\ Len(Items(n)) \in Nat /\ Len(new[n]) \in Nat
           /\ Len(Items(n)') = Len(Items(n)) + Len(new[n])
           /\ \A i \in 1..Len(Items(n)) : Items(n)'[i] = Items(n)[i]
           /\ \A i \in 1..Len(new[n]) : Items(n)'[Len(Items(n)) + i] = new[n][i]
<1>1. PICK before, added : before = Items(n) /\ added = new[n]
  OBVIOUS
<1>2. before \in Seq(Item) /\ added \in Seq(Item)
  BY <1>1, ItemsOfSections DEF Adds
<1>3. Items(n)' = IF n \in DOMAIN sections' THEN Contents(sections'[n]) ELSE <<>>
  BY DEF Items, Contents
<1>4. Items(n)' = before \o added
  <2>1. CASE n \in DOMAIN sections
    <3>1. n \in DOMAIN sections' /\ Emitted(sections[n], sections'[n], added)
      BY <1>1, <2>1 DEF Adds
    <3>2. before = Contents(sections[n])
      BY <1>1, <2>1, ItemsOfSections
    <3> QED
      BY <1>3, <3>1, <3>2 DEF Emitted
  <2>2. CASE n \notin DOMAIN sections
    <3>1. added = IF n \in DOMAIN sections' THEN Contents(sections'[n]) ELSE <<>>
      BY <1>1, <2>2 DEF Adds
    <3>2. before = <<>>
      BY <1>1, <2>2, ItemsOfSections
    <3>3. <<>> \o added = added
      BY <1>2, ConcatEmptySeq
    <3> QED
      BY <1>3, <3>1, <3>2, <3>3
  <2> QED
    BY <2>1, <2>2
<1>5. /\ Len(before) \in Nat /\ Len(added) \in Nat
      /\ Len(before \o added) = Len(before) + Len(added)
      /\ \A i \in 1..Len(before) : (before \o added)[i] = before[i]
      /\ \A i \in 1..Len(added) : (before \o added)[Len(before) + i] = added[i]
  BY <1>2
<1> QED
  BY <1>1, <1>2, <1>4, <1>5

(* What came before is the start of what there is.                         *)
LEMMA StartOfStream ==
    ASSUME NEW T, NEW s \in Seq(T), NEW t \in Seq(T)
    PROVE  SubSeq(s \o t, 1, Len(s)) = s
OBVIOUS

(* The label of a statement names what the statement emits.                *)
LEMMA StatementLabelNames ==
    ASSUME TypeOK, NEW new, Adds(new), NEW label \in LabelType, StatementLabel(new, label),
           NEW p, p = PlaceOf(label)'
    PROVE  p.value = 0 /\ Stream!NamesStatement(p)
<1>1. PICK n \in AllSections : n = label.section
  BY DEF LabelType
<1>2. PICK before, after, added, frag :
          /\ before = Items(n) /\ after = Items(n)' /\ added = new[n] /\ frag = label.frag
  OBVIOUS
<1>3. /\ frag # Pending /\ n \in DOMAIN sections' /\ frag \in Nat
      /\ Names(Len(before), sections'[n], added, frag)
  BY <1>1, <1>2 DEF StatementLabel, Names
<1>4. /\ p.section = n /\ p.value = 0
      /\ p.index = Len(ItemsUpTo(sections'[n], frag)) + 1
  BY <1>1, <1>2, <1>3 DEF PlaceOf, StatementLabel
<1>5. PICK k \in 1..Len(added) + 1 :
          /\ p.index = Len(before) + k
          /\ \A i \in 1..k - 1 : added[i].is = "pad"
          /\ k <= Len(added) => added[k].is # "pad"
  BY <1>3, <1>4 DEF Names
<1>6. /\ Len(before) \in Nat /\ Len(added) \in Nat /\ Len(after) = Len(before) + Len(added)
      /\ \A i \in 1..Len(added) : after[Len(before) + i] = added[i]
  <2>1. /\ Len(Items(n)) \in Nat /\ Len(new[n]) \in Nat /\ new[n] \in Seq(Item)
        /\ Len(Items(n)') = Len(Items(n)) + Len(new[n])
        /\ \A i \in 1..Len(new[n]) : Items(n)'[Len(Items(n)) + i] = new[n][i]
    BY StreamGoesOn
  <2> QED
    BY <1>2, <2>1
<1>7. Streamed[n] = before /\ Streamed'[n] = after
  BY <1>1, <1>2 DEF Streamed
<1>8. Stream!New(n) = Len(before) + 1..Len(before) + Len(added)
  BY <1>6, <1>7 DEF Stream!New
<1>9. PICK emitted : emitted = {i \in Stream!New(p.section) : Streamed'[p.section][i].is # "pad"}
  OBVIOUS
<1>10. emitted = {i \in Len(before) + 1..Len(before) + Len(added) : after[i].is # "pad"}
  BY <1>4, <1>7, <1>8, <1>9
<1>11. ASSUME NEW i \in emitted
       PROVE  i \in Int /\ p.index <= i /\ k <= Len(added)
  <2>1. i \in Len(before) + 1..Len(before) + Len(added) /\ after[i].is # "pad"
    BY <1>10, <1>11
  <2>2. PICK j \in 1..Len(added) : i = Len(before) + j
    <3>1. i - Len(before) \in 1..Len(added) /\ i = Len(before) + (i - Len(before))
      BY <1>6, <2>1
    <3> QED
      BY <3>1
  <2>3. added[j].is # "pad"
    BY <1>6, <2>1, <2>2
  <2>4. ~ (j \in 1..k - 1)
    BY <1>5, <2>3
  <2> QED
    BY <1>5, <1>6, <2>2, <2>4
<1>12. CASE k <= Len(added)
  <2>1. p.index \in emitted
    <3>1. k \in 1..Len(added) /\ p.index \in Len(before) + 1..Len(before) + Len(added)
      BY <1>5, <1>6, <1>12
    <3>2. after[p.index].is # "pad"
      BY <1>5, <1>6, <1>12, <3>1
    <3> QED
      BY <1>10, <3>1, <3>2
  <2> QED
    BY <1>4, <1>9, <1>11, <2>1 DEF Stream!NamesStatement
<1>13. CASE ~ (k <= Len(added))
  <2>1. emitted = {}
    BY <1>11, <1>13
  <2>2. p.index = Len(Streamed'[p.section]) + 1
    BY <1>4, <1>5, <1>6, <1>7, <1>13
  <2> QED
    BY <1>4, <1>9, <2>1, <2>2 DEF Stream!NamesStatement
<1> QED
  BY <1>12, <1>13

(* The label of a literal names its entry.                                 *)
LEMMA EntryLabelNames ==
    ASSUME TypeOK, NEW new, Adds(new), NEW label \in LabelType, EntryLabel(new, label),
           NEW p, p = PlaceOf(label)'
    PROVE  p.value # 0 /\ Stream!NamesEntry(p)
<1>1. PICK n \in AllSections : n = label.section
  BY DEF LabelType
<1>2. PICK before, after, added, frag :
          /\ before = Items(n) /\ after = Items(n)' /\ added = new[n] /\ frag = label.frag
  OBVIOUS
<1>3. frag # Pending /\ n \in DOMAIN sections' /\ label.value # 0
  BY <1>1, <1>2 DEF EntryLabel
<1>4. /\ p.section = n /\ p.value = label.value /\ p.slot = label.slot
      /\ p.index = Len(ItemsUpTo(sections'[n], frag)) + 1
  BY <1>1, <1>2, <1>3 DEF PlaceOf
<1>5. PICK k \in DOMAIN added :
          p.index = Len(before) + k /\ added[k] = PoolEntry(label.value, label.slot)
  BY <1>1, <1>2, <1>4 DEF EntryLabel
<1>6. /\ added \in Seq(Item)
      /\ Len(before) \in Nat /\ Len(added) \in Nat /\ Len(after) = Len(before) + Len(added)
      /\ \A i \in 1..Len(added) : after[Len(before) + i] = added[i]
  <2>1. /\ Len(Items(n)) \in Nat /\ Len(new[n]) \in Nat /\ new[n] \in Seq(Item)
        /\ Len(Items(n)') = Len(Items(n)) + Len(new[n])
        /\ \A i \in 1..Len(new[n]) : Items(n)'[Len(Items(n)) + i] = new[n][i]
    BY StreamGoesOn
  <2> QED
    BY <1>2, <2>1
<1>7. Streamed[n] = before /\ Streamed'[n] = after
  BY <1>1, <1>2 DEF Streamed
<1>8. k \in 1..Len(added)
  BY <1>5, <1>6
<1>9. p.index \in Len(before) + 1..Len(before) + Len(added) /\ after[p.index] = added[k]
  BY <1>5, <1>6, <1>8
<1>10. p.index \in Stream!New(p.section)
  BY <1>4, <1>6, <1>7, <1>9 DEF Stream!New
<1>11. <<added[k].is, added[k].n, added[k].slot>> = <<"entry", p.value, p.slot>>
  BY <1>4, <1>5 DEF PoolEntry
<1> QED
  BY <1>3, <1>4, <1>7, <1>9, <1>10, <1>11 DEF Stream!NamesEntry

(* A step of a source is a step of what it says.                           *)
LEMMA EffectsAreEmitted ==
    ASSUME TypeOK, IInv, TypeOK', Effects
    PROVE  Stream!Emit
<1>1. PICK new : Adds(new) /\ LabelsStep(new)
  BY DEF Effects
<1>2. DOMAIN Streamed = AllSections /\ DOMAIN Streamed' = AllSections
  BY DEF Streamed
<1>3. ASSUME NEW n \in DOMAIN Streamed
      PROVE  /\ Len(Streamed'[n]) >= Len(Streamed[n])
             /\ SubSeq(Streamed'[n], 1, Len(Streamed[n])) = Streamed[n]
  <2>1. PICK before, added : before = Items(n) /\ added = new[n]
    OBVIOUS
  <2>2. /\ before \in Seq(Item) /\ added \in Seq(Item) /\ Items(n)' = before \o added
        /\ Len(before) \in Nat /\ Len(added) \in Nat
        /\ Len(Items(n)') = Len(before) + Len(added)
    BY <1>1, <1>2, <1>3, <2>1, StreamGoesOn
  <2>3. SubSeq(before \o added, 1, Len(before)) = before
    BY <2>2, StartOfStream
  <2>4. Streamed[n] = before /\ Streamed'[n] = Items(n)'
    BY <1>2, <1>3, <2>1 DEF Streamed
  <2> QED
    BY <2>2, <2>3, <2>4
<1>4. /\ DOMAIN Placed = DOMAIN labels /\ DOMAIN Placed' = DOMAIN labels'
      /\ \A l \in DOMAIN labels : Placed[l] = PlaceOf(labels[l])
      /\ \A l \in DOMAIN labels' : Placed'[l] = PlaceOf(labels[l])'
  BY DEF Placed
<1>5. DOMAIN Placed \subseteq DOMAIN Placed'
  BY <1>1, <1>4 DEF LabelsStep
<1>6. ASSUME NEW l \in DOMAIN Placed'
      PROVE  IF l \in DOMAIN Placed /\ Placed[l].index > 0 THEN Placed'[l] = Placed[l]
             ELSE \/ Placed'[l].index = 0 /\ Placed'[l].value # 0
                  \/ Placed'[l].value = 0 /\ Stream!NamesStatement(Placed'[l])
                  \/ Placed'[l].value # 0 /\ Stream!NamesEntry(Placed'[l])
  <2>1. PICK label : label = labels'[l]
    OBVIOUS
  <2>2. label \in LabelType
    <3>1. labels' \in Seq(LabelType)
      BY <1>1 DEF LabelsStep
    <3> QED
      BY <1>4, <2>1, <3>1, ElementOfSeq
  <2>3. Placed'[l] = PlaceOf(label)'
    BY <1>4, <2>1
  <2>4. CASE l \in DOMAIN labels /\ labels[l].frag # Pending
    <3>1. label = labels[l]
      BY <1>1, <1>4, <2>1, <2>4 DEF LabelsStep
    <3>2. PICK n, frag : n = label.section /\ frag = label.frag
      OBVIOUS
    <3>3. n \in DOMAIN sections /\ Fixed(sections[n], frag) /\ frag \in Nat /\ frag # Pending
      BY <2>2, <2>4, <3>1, <3>2 DEF IInv, LabelsFixed, LabelType
    <3>4. Emitted(sections[n], sections'[n], new[n])
      BY <1>1, <3>3 DEF Adds
    <3>5. ItemsUpTo(sections'[n], frag) = ItemsUpTo(sections[n], frag)
      BY <3>3, <3>4 DEF Emitted
    <3>6. PlaceOf(label)' = PlaceOf(label)
      BY <3>2, <3>3, <3>5 DEF PlaceOf
    <3>7. PlaceOf(label).index > 0
      <4>1. ItemsUpTo(sections[n], frag) \in Seq(Item)
        <5>1. sections[n] \in SectionType /\ frag \in 0..Len(sections[n].frags)
          BY <3>3 DEF TypeOK, Fixed
        <5> QED
          BY <5>1, EndOfContents
      <4>2. PlaceOf(label).index = Len(ItemsUpTo(sections[n], frag)) + 1
        BY <3>2, <3>3 DEF PlaceOf
      <4>3. Len(ItemsUpTo(sections[n], frag)) \in Nat
        BY <4>1
      <4> QED
        BY <4>2, <4>3
    <3> QED
      BY <1>4, <2>3, <2>4, <3>1, <3>6, <3>7
  <2>5. CASE ~ (l \in DOMAIN labels /\ labels[l].frag # Pending)
    <3>1. ~ (l \in DOMAIN Placed /\ Placed[l].index > 0)
      BY <1>4, <2>5 DEF PlaceOf
    <3>2. \/ StatementLabel(new, label)
          \/ EntryLabel(new, label)
          \/ WaitingLabel(label)
      BY <1>1, <1>4, <2>1, <2>5 DEF LabelsStep
    <3>3. CASE StatementLabel(new, label)
      BY <1>1, <2>2, <2>3, <3>1, <3>3, StatementLabelNames
    <3>4. CASE EntryLabel(new, label)
      BY <1>1, <2>2, <2>3, <3>1, <3>4, EntryLabelNames
    <3>5. CASE WaitingLabel(label)
      <4>1. label.value # 0 /\ label.frag = Pending
        BY <3>5 DEF WaitingLabel
      <4>2. PlaceOf(label)'.index = 0 /\ PlaceOf(label)'.value # 0
        BY <4>1 DEF PlaceOf
      <4> QED
        BY <2>3, <3>1, <4>2
    <3> QED
      BY <3>2, <3>3, <3>4, <3>5
  <2> QED
    BY <2>4, <2>5
<1> QED
  BY <1>2, <1>3, <1>5, <1>6 DEF Stream!Emit

(* Fragments implement streams: merging, sealing, padding and the pools    *)
(* written late never move a label off what its statement emitted          *)
(* (define_label, reattach_labels, flush_literals).                        *)
THEOREM FragmentsImplementStreams == Spec => LabelsHoldTheirPlace
<1>1. Init => Stream!Init
  <2>1. SUFFICES ASSUME Init
                 PROVE  Stream!Init
    OBVIOUS
  <2>2. TypeOK /\ Items("text") = <<>> /\ DOMAIN sections = {"text"} /\ labels = <<>>
    BY <2>1, InitIsKept
  <2>3. \A n \in AllSections : Items(n) = <<>>
    BY <2>2 DEF Items
  <2>4. DOMAIN Streamed = AllSections /\ \A n \in AllSections : Streamed[n] = <<>>
    BY <2>3 DEF Streamed
  <2>5. Placed = <<>>
    BY <2>2 DEF Placed
  <2> QED
    BY <2>4, <2>5 DEF Stream!Init
<1>2. (TypeOK /\ IInv) /\ [Next]_vars => [Stream!Emit]_<<Streamed, Placed>>
  <2>1. SUFFICES ASSUME TypeOK, IInv, [Next]_vars
                 PROVE  [Stream!Emit]_<<Streamed, Placed>>
    OBVIOUS
  <2>2. CASE Next
    BY <2>1, <2>2, NextHasEffects, EffectsAreEmitted
  <2>3. CASE UNCHANGED vars
    <3>1. sections' = sections /\ labels' = labels
      BY <2>3 DEF vars
    <3>2. Streamed' = Streamed
      BY <3>1 DEF Streamed, Items
    <3>3. Placed' = Placed
      BY <3>1 DEF Placed, PlaceOf
    <3> QED
      BY <3>2, <3>3
  <2> QED
    BY <2>1, <2>2, <2>3
<1> QED
  BY <1>1, <1>2, InvariantAlways, PTL DEF Spec, LabelsHoldTheirPlace, Stream!Spec

-----------------------------------------------------------------------------
(* The marks.  While the source is read a section knows which fragments    *)
(* its mapping symbols are the start of; the invariant says that the last  *)
(* one before an item tells what the item is.                              *)

(* What IsMarked does not ask about.                                       *)
Exempt(item, slots) ==
    \/ ~HasMapping(slots[item.slot + 1])
    \/ item.is = "skip"
    \/ /\ item.is = "pad" /\ item.mode = Data
       /\ AlignPaddingIsCode(slots[item.slot + 1])

(* No-op padding, of which the odd bytes are data.                         *)
IsNops(item) == item.is = "pad" /\ item.mode # Data

(* Event "i" is the last one up to the start of fragment "f", counted from *)
(* 1; and what fragment "f" is marked as.                                  *)
InForce(s, f, i) ==
    /\ i \in DOMAIN s.mapEvents
    /\ s.mapEvents[i].frag < f
    /\ \A j \in DOMAIN s.mapEvents : j > i => s.mapEvents[j].frag >= f

UnderMark(s, f, name) ==
    \/ name = Data /\ \A i \in DOMAIN s.mapEvents : s.mapEvents[i].frag >= f
    \/ \E i \in DOMAIN s.mapEvents : InForce(s, f, i) /\ s.mapEvents[i].name = name

ItemMarked(s, f, item, slots) ==
    /\ item.slot < Len(slots)
    /\ item.is = "pad" => item.n # 0
    /\ Exempt(item, slots) \/ UnderMark(s, f, item.mode)
    /\ IsNops(item) =>
          \/ Exempt(item, slots)
          \/ \E i \in DOMAIN s.mapEvents : s.mapEvents[i] = OddPadding(f - 1, item.mode)

ItemsMarked(s, slots) ==
    \A f \in DOMAIN s.frags : \A k \in DOMAIN s.frags[f] :
        ItemMarked(s, f, s.frags[f][k], slots)

(* Events come in the order of the fragments, the state is the last one's, *)
(* and nothing comes at padding after the event of its odd bytes.          *)
EventsInOrder(s) ==
    /\ \A i \in DOMAIN s.mapEvents : s.mapEvents[i].frag <= Len(s.frags)
    /\ \A i, j \in DOMAIN s.mapEvents :
          i < j => /\ s.mapEvents[i].frag <= s.mapEvents[j].frag
                   /\ s.mapEvents[i].odd => s.mapEvents[i].frag < s.mapEvents[j].frag
    /\ IF s.mapEvents = <<>> THEN s.mapState = Unmarked
       ELSE s.mapState = s.mapEvents[Len(s.mapEvents)].name

(* An event for odd bytes follows one for the code the padding belongs to, *)
(* and is about a fragment that is this padding.                           *)
OddPad(s, e) ==
    /\ e.name \in Modes
    /\ e.frag < Len(s.frags) =>
          \E item \in Item : /\ item.is = "pad" /\ item.mode = e.name
                             /\ s.frags[e.frag + 1] = <<item>>

OddPads(s) ==
    \A i \in DOMAIN s.mapEvents :
        s.mapEvents[i].odd =>
            /\ OddPad(s, s.mapEvents[i])
            /\ i - 1 \in DOMAIN s.mapEvents
            /\ s.mapEvents[i - 1].name = s.mapEvents[i].name

(* An open fragment is neither marked at its end nor padding.              *)
OpenIsMarked(s) ==
    s.open => \A i \in DOMAIN s.mapEvents :
                  /\ s.mapEvents[i].frag < Len(s.frags)
                  /\ s.mapEvents[i].odd => s.mapEvents[i].frag < Len(s.frags) - 1

Tracked(s, slots) ==
    /\ s \in SectionType
    /\ ItemsMarked(s, slots) /\ EventsInOrder(s) /\ OddPads(s) /\ OpenIsMarked(s)

(* The padding of every event for odd bytes has been emitted.              *)
AllPadded(s) ==
    \A i \in DOMAIN s.mapEvents : s.mapEvents[i].odd => s.mapEvents[i].frag < Len(s.frags)

(* The types of the two sequences.                                         *)
LEMMA EventsType ==
    ASSUME NEW s \in SectionType
    PROVE  /\ Len(s.mapEvents) \in Nat /\ DOMAIN s.mapEvents = 1..Len(s.mapEvents)
           /\ s.mapEvents = <<>> <=> Len(s.mapEvents) = 0
           /\ \A i \in DOMAIN s.mapEvents : /\ s.mapEvents[i].frag \in Nat
                                            /\ s.mapEvents[i].name \in Marks
                                            /\ s.mapEvents[i].odd \in BOOLEAN
           /\ Len(s.frags) \in Nat /\ DOMAIN s.frags = 1..Len(s.frags)
           /\ \A f \in DOMAIN s.frags : /\ s.frags[f] \in Seq(Item)
                                        /\ \A k \in DOMAIN s.frags[f] : s.frags[f][k] \in Item
<1> DEFINE Event == [frag : Nat, name : Marks, odd : BOOLEAN]
<1>1. s.mapEvents \in Seq(Event) /\ s.frags \in Seq(Seq(Item))
  BY DEF SectionType
<1>2. \A e \in Event : e.frag \in Nat /\ e.name \in Marks /\ e.odd \in BOOLEAN
  OBVIOUS
<1> HIDE DEF Event
<1>3. /\ Len(s.mapEvents) \in Nat /\ DOMAIN s.mapEvents = 1..Len(s.mapEvents)
      /\ s.mapEvents = <<>> <=> Len(s.mapEvents) = 0
      /\ \A i \in DOMAIN s.mapEvents : s.mapEvents[i] \in Event
  BY <1>1
<1>4. /\ Len(s.frags) \in Nat /\ DOMAIN s.frags = 1..Len(s.frags)
      /\ \A f \in DOMAIN s.frags : s.frags[f] \in Seq(Item)
  BY <1>1
<1>5. ASSUME NEW f \in DOMAIN s.frags, NEW k \in DOMAIN s.frags[f]
      PROVE  s.frags[f][k] \in Item
  BY <1>4, <1>5
<1> QED
  BY <1>2, <1>3, <1>4, <1>5

(* What leaves items and marks alone keeps all of this.                    *)
SameMarks(s, t) ==
    /\ t \in SectionType
    /\ t.frags = s.frags /\ t.mapEvents = s.mapEvents /\ t.mapState = s.mapState
    /\ t.open => s.open

(* Such a change keeps a section tracked.                                  *)
LEMMA SameMarksTrack ==
    ASSUME NEW slots, NEW s, Tracked(s, slots), NEW t, SameMarks(s, t)
    PROVE  Tracked(t, slots) /\ (AllPadded(s) => AllPadded(t))
<1>1. \A f, name : UnderMark(t, f, name) <=> UnderMark(s, f, name)
  BY DEF SameMarks, UnderMark, InForce
<1>2. \A f, item : ItemMarked(t, f, item, slots) <=> ItemMarked(s, f, item, slots)
  BY <1>1 DEF SameMarks, ItemMarked
<1>3. ItemsMarked(t, slots)
  BY <1>2 DEF SameMarks, Tracked, ItemsMarked
<1>4. EventsInOrder(t) /\ OddPads(t) /\ OpenIsMarked(t) /\ (AllPadded(s) => AllPadded(t))
  BY DEF SameMarks, Tracked, EventsInOrder, OddPads, OddPad, OpenIsMarked, AllPadded
<1> QED
  BY <1>3, <1>4 DEF Tracked, SameMarks

(* One more event, at the end of the section or, the first one of all, at  *)
(* its start for the data it starts with.                                  *)
NewEvent(s, e) ==
    /\ e \in [frag : Nat, name : Marks, odd : BOOLEAN]
    /\ \/ e.frag = Len(s.frags)
       \/ s.mapEvents = <<>> /\ e = At(0, Data)
    /\ e.odd => e.name \in Modes /\ s.mapState = e.name

Marked(s, t, e) ==
    /\ t \in SectionType
    /\ t.frags = s.frags /\ t.mapEvents = Append(s.mapEvents, e) /\ t.mapState = e.name
    /\ ~t.open

(* What the events of a section are after one more.                        *)
LEMMA AppendedEvent ==
    ASSUME NEW s \in SectionType, NEW t, NEW e, Marked(s, t, e)
    PROVE  /\ Len(t.mapEvents) = Len(s.mapEvents) + 1
           /\ DOMAIN t.mapEvents = 1..Len(s.mapEvents) + 1
           /\ \A i \in DOMAIN s.mapEvents : t.mapEvents[i] = s.mapEvents[i]
           /\ t.mapEvents[Len(s.mapEvents) + 1] = e
           /\ t.mapEvents # <<>>
<1> DEFINE Event == [frag : Nat, name : Marks, odd : BOOLEAN]
<1>1. s.mapEvents \in Seq(Event) /\ t.mapEvents \in Seq(Event)
  BY DEF SectionType, Marked
<1>2. t.mapEvents = Append(s.mapEvents, e)
  BY DEF Marked
<1> HIDE DEF Event
<1> QED
  BY <1>1, <1>2

(* An event at the end of a section whose last fragment is closed keeps it *)
(* tracked.                                                                *)
LEMMA EventIsTracked ==
    ASSUME NEW slots, NEW s, Tracked(s, slots), AllPadded(s), NEW e, NewEvent(s, e),
           NEW t, Marked(s, t, e)
    PROVE  Tracked(t, slots) /\ (~e.odd => AllPadded(t))
<1> DEFINE last == Len(s.mapEvents)
<1>1. /\ s \in SectionType /\ last \in Nat /\ DOMAIN s.mapEvents = 1..last
      /\ s.mapEvents = <<>> <=> last = 0
      /\ Len(s.frags) \in Nat /\ DOMAIN s.frags = 1..Len(s.frags)
      /\ \A i \in 1..last : s.mapEvents[i].frag \in Nat
      /\ e.frag \in Nat
  BY EventsType DEF Tracked, NewEvent
<1>2. /\ DOMAIN t.mapEvents = 1..last + 1 /\ Len(t.mapEvents) = last + 1
      /\ \A i \in 1..last : t.mapEvents[i] = s.mapEvents[i]
      /\ t.mapEvents[last + 1] = e /\ t.mapEvents # <<>>
      /\ t.frags = s.frags /\ ~t.open /\ t.mapState = e.name /\ t \in SectionType
  BY <1>1, AppendedEvent DEF Marked
<1> HIDE DEF last
<1>3. ASSUME NEW i \in 1..last PROVE i \in 1..last + 1 /\ i # last + 1
  BY <1>1
<1>4. ASSUME NEW f \in DOMAIN s.frags, NEW k \in DOMAIN s.frags[f]
      PROVE  ItemMarked(t, f, s.frags[f][k], slots)
  <2>1. PICK item : item = s.frags[f][k]
    OBVIOUS
  <2>2. ItemMarked(s, f, item, slots)
    BY <2>1 DEF Tracked, ItemsMarked
  <2>3. f \in Nat /\ f <= Len(s.frags) /\ f > 0
    BY <1>1
  <2>4. ASSUME NEW name, UnderMark(s, f, name) PROVE UnderMark(t, f, name)
    <3>1. CASE e.frag = Len(s.frags)
      <4>1. e.frag >= f
        BY <2>3, <3>1
      <4>2. CASE name = Data /\ \A i \in 1..last : s.mapEvents[i].frag >= f
        <5>1. \A i \in 1..last + 1 : t.mapEvents[i].frag >= f
          BY <1>1, <1>2, <4>1, <4>2
        <5> QED
          BY <1>2, <4>2, <5>1 DEF UnderMark
      <4>3. CASE \E i \in 1..last : InForce(s, f, i) /\ s.mapEvents[i].name = name
        <5>1. PICK i \in 1..last : InForce(s, f, i) /\ s.mapEvents[i].name = name
          BY <4>3
        <5>2. ASSUME NEW j \in 1..last + 1, j > i PROVE t.mapEvents[j].frag >= f
          <6>1. last \in Nat
            BY <1>1
          <6>2. j \in 1..last \/ j = last + 1
            BY <6>1
          <6>3. j \in 1..last => s.mapEvents[j].frag >= f
            BY <1>1, <5>1, <5>2 DEF InForce
          <6> QED
            BY <1>2, <4>1, <6>2, <6>3
        <5>3. InForce(t, f, i) /\ t.mapEvents[i].name = name /\ i \in DOMAIN t.mapEvents
          BY <1>2, <1>3, <5>1, <5>2 DEF InForce
        <5> QED
          BY <5>3 DEF UnderMark
      <4> QED
        BY <1>1, <2>4, <4>2, <4>3 DEF UnderMark
    <3>2. CASE last = 0 /\ e = At(0, Data)
      <4>1. name = Data
        BY <1>1, <2>4, <3>2 DEF UnderMark
      <4>2. InForce(t, f, 1) /\ t.mapEvents[1].name = Data /\ 1 \in DOMAIN t.mapEvents
        BY <1>2, <2>3, <3>2 DEF InForce, At
      <4> QED
        BY <4>1, <4>2 DEF UnderMark
    <3> QED
      BY <1>1, <3>1, <3>2 DEF NewEvent
  <2>5. ASSUME NEW i \in DOMAIN s.mapEvents PROVE t.mapEvents[i] = s.mapEvents[i] /\ i \in DOMAIN t.mapEvents
    BY <1>1, <1>2, <1>3
  <2>6. ItemMarked(t, f, item, slots)
    BY <2>2, <2>4, <2>5 DEF ItemMarked
  <2> QED
    BY <2>1, <2>6
<1>5. ItemsMarked(t, slots)
  BY <1>2, <1>4 DEF ItemsMarked
<1>6. e.frag <= Len(s.frags) /\ \A i \in 1..last : s.mapEvents[i].frag <= e.frag
  BY <1>1 DEF NewEvent, Tracked, EventsInOrder, At
<1>7. \A i \in 1..last : s.mapEvents[i].odd => s.mapEvents[i].frag < e.frag
  BY <1>1 DEF NewEvent, AllPadded
<1>8. EventsInOrder(t)
  <2>1. \A i \in DOMAIN t.mapEvents : t.mapEvents[i].frag <= Len(t.frags)
    BY <1>1, <1>2, <1>6 DEF Tracked, EventsInOrder
  <2>2. ASSUME NEW i \in 1..last + 1, NEW j \in 1..last + 1, i < j
        PROVE  /\ t.mapEvents[i].frag <= t.mapEvents[j].frag
               /\ t.mapEvents[i].odd => t.mapEvents[i].frag < t.mapEvents[j].frag
    <3>1. i \in 1..last /\ (j \in 1..last \/ j = last + 1)
      BY <1>1, <2>2
    <3>2. CASE j \in 1..last
      BY <1>1, <1>2, <2>2, <3>1, <3>2 DEF Tracked, EventsInOrder
    <3>3. CASE j = last + 1
      BY <1>2, <1>6, <1>7, <3>1, <3>3
    <3> QED
      BY <3>1, <3>2, <3>3
  <2> QED
    BY <1>2, <2>1, <2>2 DEF EventsInOrder
<1>9. OddPads(t)
  <2>0. \A ev : OddPad(t, ev) <=> OddPad(s, ev)
    BY <1>2 DEF OddPad
  <2> SUFFICES ASSUME NEW i \in 1..last + 1, t.mapEvents[i].odd
               PROVE  /\ OddPad(s, t.mapEvents[i])
                      /\ i - 1 \in 1..last + 1
                      /\ t.mapEvents[i - 1].name = t.mapEvents[i].name
    BY <1>2, <2>0 DEF OddPads
  <2>1. CASE i \in 1..last
    <3>1. /\ s.mapEvents[i].odd /\ t.mapEvents[i] = s.mapEvents[i]
          /\ i - 1 \in 1..last /\ OddPad(s, s.mapEvents[i])
          /\ s.mapEvents[i - 1].name = s.mapEvents[i].name
      BY <1>1, <1>2, <2>1 DEF Tracked, OddPads
    <3>2. t.mapEvents[i - 1] = s.mapEvents[i - 1] /\ i - 1 \in 1..last + 1
      BY <1>2, <1>3, <3>1
    <3> QED
      BY <3>1, <3>2
  <2>2. CASE i = last + 1
    <3>1. t.mapEvents[i] = e /\ e.odd /\ e.name \in Modes /\ s.mapState = e.name
      BY <1>2, <2>2 DEF NewEvent
    <3>2. e.name # Unmarked
      BY <3>1 DEF Modes, Arm, Unmarked
    <3>3. last # 0 /\ s.mapEvents[last].name = e.name
      BY <1>1, <3>1, <3>2 DEF Tracked, EventsInOrder, last
    <3>4. i - 1 = last /\ last \in 1..last /\ last \in 1..last + 1
      BY <1>1, <2>2, <3>3
    <3>5. ~(e.frag < Len(s.frags))
      <4>1. e.frag = Len(s.frags)
        BY <1>1, <3>3 DEF NewEvent
      <4> QED
        BY <1>1, <4>1
    <3> QED
      BY <1>2, <3>1, <3>3, <3>4, <3>5 DEF OddPad
  <2> QED
    BY <1>1, <2>1, <2>2
<1>10. ~e.odd => AllPadded(t)
  BY <1>1, <1>2 DEF AllPadded
<1> QED
  BY <1>2, <1>5, <1>8, <1>9, <1>10 DEF Tracked, OpenIsMarked

-----------------------------------------------------------------------------
(* The marks statements make.  While the source is read everything before  *)
(* a statement is tracked.                                                 *)
Ready(s, slots) == Tracked(s, slots) /\ AllPadded(s)

(* What has no mark yet is data.                                           *)
StateShows(s, mode) == s.mapState = mode \/ (mode = Data /\ s.mapState = Unmarked)

(* Marked as "name", and otherwise the same.                               *)
StateIs(s, t, name) ==
    /\ t \in SectionType /\ t.frags = s.frags /\ t.exec = s.exec
    /\ t.archMarks = s.archMarks
    /\ t.mapState = name

(* Such a change keeps a section ready for its next statement, too.        *)
LEMMA SameMarksReady ==
    ASSUME NEW slots, NEW s, Ready(s, slots), NEW t, SameMarks(s, t)
    PROVE  Ready(t, slots)
BY SameMarksTrack DEF Ready

(* A section that has been in no state yet has no events.                  *)
LEMMA NoEventsYet ==
    ASSUME NEW slots, NEW s, Tracked(s, slots), s.mapState = Unmarked
    PROVE  s.mapEvents = <<>>
<1>1. SUFFICES ASSUME s.mapEvents # <<>> PROVE FALSE
  OBVIOUS
<1>2. s \in SectionType /\ Len(s.mapEvents) \in DOMAIN s.mapEvents
  BY <1>1, EventsType DEF Tracked
<1>3. s.mapState \in Marks
  BY <1>1, <1>2, EventsType DEF Tracked, EventsInOrder
<1> QED
  BY <1>3 DEF Marks, Modes, Arm, Data, Unmarked

(* A change of state is recorded where the next fragment starts.           *)
LEMMA TransitionTracks ==
    ASSUME NEW slots, NEW s, Ready(s, slots), NEW name \in Marks, NEW always \in BOOLEAN
    PROVE  /\ Ready(MapTransition(s, name, always), slots)
           /\ StateIs(s, MapTransition(s, name, always), name)
<1> DEFINE t == MapTransition(s, name, always)
           e == At(Len(s.frags), name)
           Event == [frag : Nat, name : Marks, odd : BOOLEAN]
<1>1. /\ s \in SectionType /\ Tracked(s, slots) /\ AllPadded(s) /\ s.mapEvents \in Seq(Event)
      /\ Len(s.frags) \in Nat
  BY EventsType DEF Ready, Tracked, SectionType
<1>2. t \in SectionType /\ t.exec = s.exec /\ t.frags = s.frags /\ t.archMarks = s.archMarks
  BY <1>1, MappingIsQuiet DEF Quiet
<1>3. CASE s.mapState = name /\ ~always
  <2>1. t = s
    BY <1>3 DEF MapTransition
  <2> QED
    BY <1>2, <1>3, <2>1 DEF StateIs
<1>4. e \in Event /\ e.frag = Len(s.frags) /\ e.name = name /\ ~e.odd
  BY <1>1 DEF At
<1>5. CASE /\ ~(s.mapState = name /\ ~always)
           /\ ~(s.mapState = Unmarked /\ name # Data /\ s.frags # <<>>)
  <2>1. s.mapEvents \o <<>> \o <<e>> = Append(s.mapEvents, e)
    BY <1>1, <1>4
  <2>2. t = [Seal(s) EXCEPT !.mapState = name, !.mapEvents = s.mapEvents \o <<>> \o <<e>>]
    BY <1>5 DEF MapTransition, Seal, NextFragIndex
  <2>3. /\ t.mapEvents = Append(s.mapEvents, e) /\ t.mapState = name /\ ~t.open
    BY <1>1, <2>1, <2>2 DEF Seal, SectionType
  <2>4. Marked(s, t, e) /\ NewEvent(s, e)
    BY <1>2, <1>4, <2>3 DEF Marked, NewEvent
  <2>5. Tracked(t, slots) /\ AllPadded(t)
    BY <1>1, <1>4, <2>4, EventIsTracked
  <2> QED
    BY <1>2, <2>3, <2>5 DEF StateIs, Ready
<1>6. CASE /\ ~(s.mapState = name /\ ~always)
           /\ s.mapState = Unmarked /\ name # Data /\ s.frags # <<>>
  <2> DEFINE d == At(0, Data)
             u == [s EXCEPT !.open = FALSE, !.mapState = Data, !.mapEvents = <<d>>]
  <2>1. s.mapEvents = <<>>
    BY <1>1, <1>6, NoEventsYet
  <2>2. d \in Event /\ d.name = Data /\ ~d.odd
    BY DEF At, Marks
  <2>3. s.mapEvents \o <<d>> \o <<e>> = Append(<<d>>, e) /\ <<d>> = Append(s.mapEvents, d)
        /\ <<d>> \in Seq(Event)
    BY <1>1, <1>4, <2>1, <2>2
  <2>4. /\ u \in SectionType /\ u.mapEvents = <<d>> /\ u.mapState = Data /\ u.frags = s.frags
        /\ ~u.open
    BY <1>1, <2>3 DEF SectionType, Marks
  <2>5. Marked(s, u, d) /\ NewEvent(s, d)
    BY <2>1, <2>2, <2>3, <2>4 DEF Marked, NewEvent
  <2> HIDE DEF u, d
  <2>6. Tracked(u, slots) /\ AllPadded(u)
    BY <1>1, <2>2, <2>5, EventIsTracked
  <2>7. t = [Seal(s) EXCEPT !.mapState = name, !.mapEvents = s.mapEvents \o <<d>> \o <<e>>]
    BY <1>6 DEF MapTransition, Seal, NextFragIndex, d
  <2>8. t.mapEvents = Append(u.mapEvents, e) /\ t.mapState = name /\ ~t.open
    BY <1>1, <2>3, <2>4, <2>7 DEF Seal, SectionType
  <2>9. Marked(u, t, e) /\ NewEvent(u, e)
    BY <1>2, <1>4, <2>4, <2>8 DEF Marked, NewEvent
  <2>10. Tracked(t, slots) /\ AllPadded(t)
    BY <1>4, <2>6, <2>9, EventIsTracked
  <2> QED
    BY <1>2, <2>8, <2>10 DEF StateIs, Ready
<1> QED
  BY <1>3, <1>5, <1>6

(* Code, data and the padding of data.                                     *)
LEMMA MarkingTracks ==
    ASSUME NEW slots, NEW s, Ready(s, slots), NEW mode \in Modes
    PROVE  /\ Ready(MapCode(s, mode), slots)
           /\ HasMapping(mode) => MapCode(s, mode).mapState = mode
           /\ Ready(MapData(s, mode), slots)
           /\ HasMapping(mode) => StateShows(MapData(s, mode), Data)
           /\ Ready(MapDataFrag(s, mode), slots)
           /\ HasMapping(mode) => MapDataFrag(s, mode).mapState = Data
<1>1. mode \in Marks /\ Data \in Marks /\ s \in SectionType
  BY DEF Marks, Ready, Tracked
<1>2. PICK u : u = RaiseAlign(s, CodeUnit(mode))
  OBVIOUS
<1>3. CodeUnit(mode) \in Nat
  BY DEF CodeUnit
<1>4. Quiet(s, u) /\ u.mapState = s.mapState /\ u.mapEvents = s.mapEvents
  BY <1>1, <1>2, <1>3, SealingIsQuiet DEF RaiseAlign, SectionType
<1>5. Ready(u, slots)
  BY <1>4, SameMarksReady DEF SameMarks, Quiet
<1>6. /\ Ready(MapTransition(u, mode, FALSE), slots)
      /\ StateIs(u, MapTransition(u, mode, FALSE), mode)
  BY Zenon, <1>1, <1>5, TransitionTracks
<1>7. /\ Ready(MapTransition(s, Data, FALSE), slots)
      /\ StateIs(s, MapTransition(s, Data, FALSE), Data)
  BY Zenon, <1>1, TransitionTracks
<1>8. /\ Ready(MapCode(s, mode), slots)
      /\ HasMapping(mode) => MapCode(s, mode).mapState = mode
  BY <1>2, <1>6 DEF MapCode, StateIs
<1>9. /\ Ready(MapData(s, mode), slots)
      /\ HasMapping(mode) => StateShows(MapData(s, mode), Data)
  BY <1>7 DEF MapData, StateShows, StateIs
<1>10. /\ Ready(MapDataFrag(s, mode), slots)
       /\ HasMapping(mode) => MapDataFrag(s, mode).mapState = Data
  BY <1>7 DEF MapDataFrag, StateIs
<1> QED
  BY <1>8, <1>9, <1>10

(* The event for the odd bytes of padding, before the padding is there.    *)
PaddingDue(s, mode) ==
    /\ Len(s.mapEvents) # 0
    /\ s.mapEvents[Len(s.mapEvents)] = OddPadding(Len(s.frags), mode)
    /\ ~s.open
    /\ \A i \in DOMAIN s.mapEvents :
          s.mapEvents[i].odd /\ i # Len(s.mapEvents) => s.mapEvents[i].frag < Len(s.frags)

(* It seals nothing, but what follows it does.                             *)
LEMMA AlignTracks ==
    ASSUME NEW slots, NEW s, Ready(s, slots), NEW mode \in Modes
    PROVE  /\ Tracked(Seal(MapAlign(s, mode)), slots)
           /\ PaddingDue(Seal(MapAlign(s, mode)), mode)
           /\ StateIs(s, Seal(MapAlign(s, mode)), mode)
<1>1. s \in SectionType /\ mode \in Marks
  BY DEF Ready, Tracked, Marks
<1>2. PICK t : t = MapTransition(s, mode, FALSE)
  OBVIOUS
<1>3. Ready(t, slots) /\ StateIs(s, t, mode)
  BY Zenon, <1>1, <1>2, TransitionTracks
<1>4. PICK u : u = Seal(MapAlign(s, mode))
  OBVIOUS
<1> DEFINE e == OddPadding(Len(t.frags), mode)
<1>5. u \in SectionType
  <2>1. MapAlign(s, mode) \in SectionType
    BY <1>1, MarkingIsQuiet DEF Quiet
  <2> QED
    BY <1>4, <2>1, SealingIsQuiet DEF Quiet
<1>6. MapAlign(s, mode) = [t EXCEPT !.mapEvents = Append(t.mapEvents, e)]
  BY <1>2 DEF MapAlign, NextFragIndex
<1>7. /\ t \in SectionType /\ t.mapState = mode /\ Len(t.frags) \in Nat
      /\ DOMAIN t.mapEvents = 1..Len(t.mapEvents) /\ Len(t.mapEvents) \in Nat
      /\ t.frags = s.frags /\ t.exec = s.exec /\ t.archMarks = s.archMarks
  BY <1>3, EventsType DEF StateIs
<1>8. /\ u.mapEvents = Append(t.mapEvents, e) /\ u.mapState = mode /\ u.frags = t.frags
      /\ ~u.open /\ u.exec = t.exec /\ u.archMarks = t.archMarks
  BY <1>4, <1>6, <1>7 DEF SectionType, Seal
<1>9. e.odd /\ e.name = mode /\ e.frag = Len(t.frags)
      /\ e \in [frag : Nat, name : Marks, odd : BOOLEAN]
  BY <1>1, <1>7 DEF OddPadding
<1>10. NewEvent(t, e) /\ Marked(t, u, e)
  BY <1>5, <1>7, <1>8, <1>9 DEF NewEvent, Marked
<1>11. Tracked(u, slots)
  BY <1>3, <1>10, EventIsTracked DEF Ready
<1>12. /\ Len(u.mapEvents) = Len(t.mapEvents) + 1
       /\ DOMAIN u.mapEvents = 1..Len(t.mapEvents) + 1
       /\ \A i \in DOMAIN t.mapEvents : u.mapEvents[i] = t.mapEvents[i]
       /\ u.mapEvents[Len(t.mapEvents) + 1] = e
  BY <1>7, <1>10, AppendedEvent
<1>13. ASSUME NEW i \in DOMAIN u.mapEvents, u.mapEvents[i].odd, i # Len(u.mapEvents)
       PROVE  u.mapEvents[i].frag < Len(u.frags)
  <2>1. i \in DOMAIN t.mapEvents
    BY <1>7, <1>12, <1>13
  <2> QED
    BY <1>3, <1>8, <1>12, <1>13, <2>1 DEF Ready, AllPadded
<1>14. PaddingDue(u, mode)
  <2>1. Len(u.mapEvents) # 0 /\ u.mapEvents[Len(u.mapEvents)] = e
    BY <1>7, <1>12
  <2> QED
    BY <1>8, <1>13, <2>1 DEF PaddingDue
<1> QED
  BY <1>4, <1>5, <1>7, <1>8, <1>11, <1>14 DEF StateIs

-----------------------------------------------------------------------------
(* What may be emitted: it is marked already.                              *)
Showing(s, item, slots) ==
    /\ item \in Item /\ item.slot < Len(slots)
    /\ item.is = "pad" => item.n # 0
    /\ Exempt(item, slots) \/ StateShows(s, item.mode)

(* The last event is the one before anything emitted now.                  *)
LEMMA StateIsInForce ==
    ASSUME NEW slots, NEW s, Tracked(s, slots), NEW f \in Nat,
           \A i \in DOMAIN s.mapEvents : s.mapEvents[i].frag < f,
           NEW mode \in Marks, StateShows(s, mode)
    PROVE  UnderMark(s, f, mode)
<1>1. /\ s \in SectionType /\ Len(s.mapEvents) \in Nat
      /\ DOMAIN s.mapEvents = 1..Len(s.mapEvents)
      /\ s.mapEvents = <<>> <=> Len(s.mapEvents) = 0
  BY EventsType DEF Tracked
<1>2. CASE s.mapEvents = <<>>
  <2>1. s.mapState = Unmarked
    BY <1>2 DEF Tracked, EventsInOrder
  <2>2. mode = Data
    BY <2>1 DEF StateShows, Marks, Modes, Arm, Unmarked
  <2> QED
    BY <1>1, <1>2, <2>2 DEF UnderMark
<1>3. CASE s.mapEvents # <<>>
  <2>1. PICK last : last = Len(s.mapEvents)
    OBVIOUS
  <2>2. last \in DOMAIN s.mapEvents /\ \A j \in DOMAIN s.mapEvents : ~(j > last)
    BY <1>1, <1>3, <2>1
  <2>3. s.mapState = s.mapEvents[last].name /\ s.mapEvents[last].name \in Marks
    BY <1>1, <1>3, <2>1, <2>2, EventsType DEF Tracked, EventsInOrder
  <2>4. s.mapState # Unmarked
    BY <2>3 DEF Marks, Modes, Arm, Data, Unmarked
  <2>5. s.mapEvents[last].name = mode
    BY <2>3, <2>4 DEF StateShows
  <2>6. InForce(s, f, last)
    BY <2>2 DEF InForce
  <2> QED
    BY <2>2, <2>5, <2>6 DEF UnderMark
<1> QED
  BY <1>2, <1>3

(* An item in a fragment of its own.                                       *)
Added(s, t, item) ==
    /\ t \in SectionType
    /\ t.frags = Append(s.frags, <<item>>)
    /\ t.mapEvents = s.mapEvents /\ t.mapState = s.mapState

(* Is it the padding an event is about?                                    *)
Pads(s, item) ==
    \A i \in DOMAIN s.mapEvents :
        s.mapEvents[i].odd /\ s.mapEvents[i].frag = Len(s.frags)
            => item.is = "pad" /\ item.mode = s.mapEvents[i].name

(* An item the state is right about, put at the end of the section, is     *)
(* marked as what it is.                                                   *)
LEMMA ItemIsTracked ==
    ASSUME NEW slots, NEW s, Tracked(s, slots), NEW item \in Item, Pads(s, item),
           NEW t, Added(s, t, item), ItemMarked(t, Len(s.frags) + 1, item, slots),
           t.open => AllPadded(s)
    PROVE  Ready(t, slots)
<1> DEFINE last == Len(s.frags)
<1>1. /\ s \in SectionType /\ last \in Nat /\ DOMAIN s.frags = 1..last
      /\ s.frags \in Seq(Seq(Item)) /\ <<item>> \in Seq(Item)
      /\ \A i \in DOMAIN s.mapEvents : s.mapEvents[i].frag \in Nat
  <2>1. s \in SectionType
    BY DEF Tracked
  <2>2. s.frags \in Seq(Seq(Item)) /\ <<item>> \in Seq(Item)
    BY <2>1 DEF SectionType
  <2> QED
    BY <2>1, <2>2, EventsType
<1>2. /\ t \in SectionType /\ Len(t.frags) = last + 1 /\ DOMAIN t.frags = 1..last + 1
      /\ \A f \in 1..last : t.frags[f] = s.frags[f]
      /\ t.frags[last + 1] = <<item>>
      /\ t.mapEvents = s.mapEvents /\ t.mapState = s.mapState
  BY <1>1 DEF Added
<1>3. \A i \in DOMAIN s.mapEvents : s.mapEvents[i].frag <= last
  BY DEF Tracked, EventsInOrder
<1>4. \A f, x : ItemMarked(s, f, x, slots) => ItemMarked(t, f, x, slots)
  BY <1>2 DEF ItemMarked, UnderMark, InForce
<1> HIDE DEF last
<1>5. ItemsMarked(t, slots)
  <2> SUFFICES ASSUME NEW f \in 1..last + 1, NEW k \in DOMAIN t.frags[f]
               PROVE  ItemMarked(t, f, t.frags[f][k], slots)
    BY <1>2 DEF ItemsMarked
  <2>1. f \in 1..last \/ f = last + 1
    BY <1>1
  <2>2. CASE f \in 1..last
    BY <1>1, <1>2, <1>4, <2>2 DEF Tracked, ItemsMarked
  <2>3. CASE f = last + 1
    <3>1. t.frags[f][k] = item
      BY <1>2, <2>3
    <3> QED
      BY <2>3, <3>1 DEF last
  <2> QED
    BY <2>1, <2>2, <2>3
<1>6. EventsInOrder(t)
  <2>1. \A i \in DOMAIN t.mapEvents : t.mapEvents[i].frag <= Len(t.frags)
    BY <1>1, <1>2, <1>3
  <2> QED
    BY <1>2, <2>1 DEF Tracked, EventsInOrder
<1>7. OddPads(t)
  <2> SUFFICES ASSUME NEW i \in DOMAIN s.mapEvents, s.mapEvents[i].odd
               PROVE  OddPad(t, s.mapEvents[i])
    BY <1>2 DEF Tracked, OddPads
  <2>1. PICK e : e = s.mapEvents[i]
    OBVIOUS
  <2>2. OddPad(s, e) /\ e.frag \in Nat /\ e.frag <= last
    BY <1>1, <1>3, <2>1 DEF Tracked, OddPads
  <2>3. CASE e.frag < last
    <3>1. e.frag + 1 \in 1..last
      BY <1>1, <2>2, <2>3
    <3> QED
      BY <1>2, <2>1, <2>2, <2>3, <3>1 DEF OddPad, last
  <2>4. CASE e.frag = last
    <3>1. item.is = "pad" /\ item.mode = e.name
      BY <2>1, <2>4 DEF Pads, last
    <3> QED
      BY <1>2, <2>1, <2>2, <2>4, <3>1 DEF OddPad
  <2> QED
    BY <1>1, <2>2, <2>3, <2>4
<1>8. AllPadded(t)
  BY <1>1, <1>2, <1>3 DEF AllPadded
<1>9. OpenIsMarked(t)
  BY <1>1, <1>2, <1>3 DEF OpenIsMarked, AllPadded, last
<1> QED
  BY <1>2, <1>5, <1>6, <1>7, <1>8, <1>9 DEF Ready, Tracked

(* The items of a section after one more.                                  *)
LEMMA AddedIsMarked ==
    ASSUME NEW slots, NEW s, Tracked(s, slots), NEW item, Showing(s, item, slots),
           NEW t, Added(s, t, item),
           IsNops(item) =>
              \/ Exempt(item, slots)
              \/ \E i \in DOMAIN s.mapEvents :
                    s.mapEvents[i] = OddPadding(Len(s.frags), item.mode)
    PROVE  ItemMarked(t, Len(s.frags) + 1, item, slots)
<1>1. /\ Len(s.frags) \in Nat /\ \A i \in DOMAIN s.mapEvents : s.mapEvents[i].frag \in Nat
      /\ \A i \in DOMAIN s.mapEvents : s.mapEvents[i].frag <= Len(s.frags)
  BY EventsType DEF Tracked, EventsInOrder
<1>2. \A i \in DOMAIN s.mapEvents : s.mapEvents[i].frag < Len(s.frags) + 1
  BY <1>1
<1>3. Exempt(item, slots) \/ UnderMark(s, Len(s.frags) + 1, item.mode)
  <2>1. item.mode \in Marks
    BY DEF Showing, Item
  <2>2. Len(s.frags) + 1 \in Nat
    BY <1>1
  <2> QED
    BY <1>2, <2>1, <2>2, StateIsInForce DEF Showing
<1>4. UnderMark(s, Len(s.frags) + 1, item.mode) => UnderMark(t, Len(s.frags) + 1, item.mode)
  BY DEF Added, UnderMark, InForce
<1>5. Len(s.frags) + 1 - 1 = Len(s.frags)
  BY <1>1
<1> QED
  BY <1>3, <1>4, <1>5 DEF ItemMarked, Showing, Added

(* An item pushed, other than no-op padding that has to be marked.         *)
LEMMA PushTracks ==
    ASSUME NEW slots, NEW s, Ready(s, slots), NEW item, Showing(s, item, slots),
           IsNops(item) => Exempt(item, slots)
    PROVE  /\ Ready(Push(s, item), slots)
           /\ Push(s, item).mapState = s.mapState
<1>1. s \in SectionType /\ item \in Item
  BY DEF Ready, Tracked, Showing
<1>2. PICK t : t = Push(s, item)
  OBVIOUS
<1>3. t \in SectionType /\ ~t.open
  BY <1>1, <1>2, PushPushes DEF Pushed
<1>4. Added(s, t, item)
  BY <1>1, <1>2, <1>3 DEF Push, Added, SectionType
<1>5. Pads(s, item)
  <2>1. Len(s.frags) \in Nat
    BY <1>1 DEF SectionType
  <2> QED
    BY <2>1 DEF Ready, AllPadded, Pads
<1>6. ItemMarked(t, Len(s.frags) + 1, item, slots)
  BY <1>4, AddedIsMarked DEF Ready
<1>7. Ready(t, slots)
  BY <1>1, <1>3, <1>4, <1>5, <1>6, ItemIsTracked DEF Ready
<1> QED
  BY <1>2, <1>4, <1>7 DEF Added

(* No-op padding after its own event.                                      *)
LEMMA PaddingTracks ==
    ASSUME NEW slots, NEW s, Tracked(s, slots), NEW mode \in Modes, PaddingDue(s, mode),
           s.mapState = mode, NEW item \in Item, item.is = "pad", item.mode = mode,
           item.n # 0, item.slot < Len(slots)
    PROVE  Ready(Push(s, item), slots)
<1>1. /\ s \in SectionType /\ Len(s.mapEvents) \in Nat /\ DOMAIN s.mapEvents = 1..Len(s.mapEvents)
      /\ Len(s.frags) \in Nat
  BY EventsType DEF Tracked
<1>2. PICK t : t = Push(s, item)
  OBVIOUS
<1>3. t \in SectionType /\ ~t.open
  BY <1>1, <1>2, PushPushes DEF Pushed
<1>4. Added(s, t, item)
  BY <1>1, <1>2, <1>3 DEF Push, Added, SectionType
<1>5. /\ Len(s.mapEvents) \in DOMAIN s.mapEvents
      /\ s.mapEvents[Len(s.mapEvents)] = OddPadding(Len(s.frags), mode)
  BY <1>1 DEF PaddingDue
<1>6. Pads(s, item)
  <2> SUFFICES ASSUME NEW i \in DOMAIN s.mapEvents, s.mapEvents[i].odd,
                      s.mapEvents[i].frag = Len(s.frags)
               PROVE  mode = s.mapEvents[i].name
    BY DEF Pads
  <2>1. i = Len(s.mapEvents)
    BY <1>1 DEF PaddingDue
  <2> QED
    BY <1>5, <2>1 DEF OddPadding
<1>7. Showing(s, item, slots)
  BY DEF Showing, StateShows
<1>8. ItemMarked(t, Len(s.frags) + 1, item, slots)
  BY <1>4, <1>5, <1>7, AddedIsMarked
<1>9. Ready(t, slots)
  BY <1>3, <1>4, <1>6, <1>8, ItemIsTracked
<1> QED
  BY <1>2, <1>9

(* Data merged into an open fragment is under the fragment's own mark.     *)
LEMMA EmitBytesTracks ==
    ASSUME NEW slots, NEW s, Ready(s, slots), s.open => s.frags # <<>>,
           NEW item, Showing(s, item, slots), item.is # "pad"
    PROVE  Ready(EmitBytes(s, item), slots)
<1>1. /\ s \in SectionType /\ item \in Item
      /\ Len(s.frags) \in Nat /\ DOMAIN s.frags = 1..Len(s.frags)
      /\ \A i \in DOMAIN s.mapEvents : s.mapEvents[i].frag \in Nat
  BY EventsType DEF Ready, Tracked, Showing
<1>2. PICK t : t = EmitBytes(s, item)
  OBVIOUS
<1>3. /\ Merged(s, t, item) /\ t \in SectionType
      /\ t.mapEvents = s.mapEvents /\ t.mapState = s.mapState
  <2>1. Merged(s, t, item)
    BY <1>1, <1>2, EmitBytesMerges
  <2> QED
    BY <1>1, <1>2, <2>1 DEF EmitBytes, SectionType, Merged
<1>4. CASE ~s.open
  <2>1. Added(s, t, item)
    BY <1>3, <1>4 DEF Added, Merged
  <2>2. ItemMarked(t, Len(s.frags) + 1, item, slots)
    BY <2>1, AddedIsMarked DEF Ready, IsNops
  <2>3. Pads(s, item)
    BY <1>1 DEF Ready, AllPadded, Pads
  <2> QED
    BY <1>1, <1>2, <2>1, <2>2, <2>3, ItemIsTracked DEF Ready
<1>5. CASE s.open
  <2> DEFINE last == Len(s.frags)
  <2>1. last # 0 /\ last \in Nat /\ last \in 1..last
    BY <1>1, <1>5
  <2>2. /\ Len(t.frags) = last /\ DOMAIN t.frags = 1..last
        /\ \A f \in 1..last - 1 : t.frags[f] = s.frags[f]
        /\ t.frags[last] = Append(s.frags[last], item)
    BY <1>3, <1>5, EventsType DEF Merged
  <2>3. /\ \A i \in DOMAIN s.mapEvents : /\ s.mapEvents[i].frag < last
                                         /\ s.mapEvents[i].odd => s.mapEvents[i].frag < last - 1
    BY <1>5 DEF Ready, Tracked, OpenIsMarked
  <2>4. ItemMarked(s, last, item, slots)
    <3>1. item.mode \in Marks
      BY DEF Showing, Item
    <3>2. Exempt(item, slots) \/ UnderMark(s, last, item.mode)
      BY <2>1, <2>3, <3>1, StateIsInForce DEF Showing, Ready
    <3> QED
      BY <3>2 DEF ItemMarked, Showing, IsNops
  <2>5. \A f, x : ItemMarked(s, f, x, slots) => ItemMarked(t, f, x, slots)
    BY <1>3 DEF ItemMarked, UnderMark, InForce
  <2>6. \A f \in 1..last : s.frags[f] \in Seq(Item)
    BY <1>1, EventsType
  <2> HIDE DEF last
  <2>7. ASSUME NEW f \in 1..last, NEW k \in DOMAIN t.frags[f]
        PROVE  ItemMarked(s, f, t.frags[f][k], slots)
    <3>1. f \in 1..last - 1 \/ f = last
      BY <2>1
    <3>2. CASE f \in 1..last - 1
      BY <1>1, <2>2, <2>7, <3>2 DEF Ready, Tracked, ItemsMarked, last
    <3>3. CASE f = last
      <4>1. PICK old \in Seq(Item) : old = s.frags[last]
        BY <2>1, <2>6
      <4>2. k \in 1..Len(old) + 1 /\ t.frags[f] = Append(old, item)
        BY <2>2, <2>7, <3>3, <4>1
      <4>3. CASE k = Len(old) + 1
        BY <2>4, <3>3, <4>2, <4>3
      <4>4. CASE k \in 1..Len(old)
        <5>1. t.frags[f][k] = s.frags[f][k] /\ k \in DOMAIN s.frags[f]
          BY <3>3, <4>1, <4>2, <4>4
        <5> QED
          BY <1>1, <5>1 DEF Ready, Tracked, ItemsMarked, last
      <4> QED
        BY <4>1, <4>2, <4>3, <4>4
    <3> QED
      BY <3>1, <3>2, <3>3
  <2>8. ItemsMarked(t, slots)
    BY <2>2, <2>5, <2>7 DEF ItemsMarked
  <2>9. EventsInOrder(t) /\ AllPadded(t)
    BY <1>3, <2>2 DEF Ready, Tracked, EventsInOrder, AllPadded, last
  <2>10. OpenIsMarked(t)
    BY <1>3, <2>2, <2>3 DEF OpenIsMarked
  <2>11. OddPads(t)
    <3> SUFFICES ASSUME NEW i \in DOMAIN s.mapEvents, s.mapEvents[i].odd
                 PROVE  OddPad(t, s.mapEvents[i])
      BY <1>3 DEF Ready, Tracked, OddPads
    <3>1. PICK e : e = s.mapEvents[i]
      OBVIOUS
    <3>2. OddPad(s, e) /\ e.frag \in Nat /\ e.frag < last - 1
      BY <1>1, <2>3, <3>1 DEF Ready, Tracked, OddPads
    <3>3. t.frags[e.frag + 1] = s.frags[e.frag + 1] /\ e.frag < last
      BY <2>1, <2>2, <3>2
    <3> QED
      BY <2>2, <3>1, <3>2, <3>3 DEF OddPad, last
  <2> QED
    BY <1>2, <1>3, <2>8, <2>9, <2>10, <2>11 DEF Ready, Tracked
<1> QED
  BY <1>4, <1>5

(* Items other than padding appended each in a fragment of its own.        *)
LEMMA AppendedTracks ==
    ASSUME NEW slots, NEW s, Ready(s, slots), NEW items \in Seq(Item), items # <<>>,
           \A k \in DOMAIN items : Showing(s, items[k], slots) /\ items[k].is # "pad",
           NEW t, Appended(s, t, items), t.mapEvents = s.mapEvents, t.mapState = s.mapState
    PROVE  Ready(t, slots)
<1> DEFINE last == Len(s.frags)
<1>1. /\ s \in SectionType /\ t \in SectionType
      /\ last \in Nat /\ DOMAIN s.frags = 1..last
      /\ \A i \in DOMAIN s.mapEvents : s.mapEvents[i].frag \in Nat
      /\ Len(items) \in Nat /\ Len(items) # 0 /\ DOMAIN items = 1..Len(items)
  BY EventsType DEF Ready, Tracked, Appended
<1>2. /\ Len(t.frags) = last + Len(items) /\ DOMAIN t.frags = 1..last + Len(items)
      /\ \A f \in 1..last : t.frags[f] = s.frags[f]
      /\ \A k \in 1..Len(items) : t.frags[last + k] = <<items[k]>>
  BY <1>1, EventsType DEF Appended
<1>3. \A i \in DOMAIN s.mapEvents : /\ s.mapEvents[i].frag <= last
                                    /\ s.mapEvents[i].odd => s.mapEvents[i].frag < last
  BY DEF Ready, Tracked, EventsInOrder, AllPadded
<1>4. \A f, x : ItemMarked(s, f, x, slots) => ItemMarked(t, f, x, slots)
  BY DEF ItemMarked, UnderMark, InForce
<1>5. ASSUME NEW k \in 1..Len(items) PROVE ItemMarked(s, last + k, items[k], slots)
  <2>1. Showing(s, items[k], slots) /\ items[k].is # "pad"
    BY <1>1
  <2>2. items[k].mode \in Marks
    BY <2>1 DEF Showing, Item
  <2>3. last + k \in Nat /\ \A i \in DOMAIN s.mapEvents : s.mapEvents[i].frag < last + k
    BY <1>1, <1>3
  <2>4. Exempt(items[k], slots) \/ UnderMark(s, last + k, items[k].mode)
    BY <2>1, <2>2, <2>3, StateIsInForce DEF Showing, Ready
  <2> QED
    BY <2>1, <2>4 DEF ItemMarked, Showing, IsNops
<1> HIDE DEF last
<1>6. ASSUME NEW f \in 1..last + Len(items), NEW k \in DOMAIN t.frags[f]
      PROVE  ItemMarked(s, f, t.frags[f][k], slots)
  <2>1. f \in 1..last \/ \E j \in 1..Len(items) : f = last + j
    <3>1. f > last => f - last \in 1..Len(items) /\ f = last + (f - last)
      BY <1>1
    <3> QED
      BY <1>1, <3>1
  <2>2. CASE f \in 1..last
    BY <1>1, <1>2, <1>6, <2>2 DEF Ready, Tracked, ItemsMarked
  <2>3. CASE \E j \in 1..Len(items) : f = last + j
    <3>1. PICK j \in 1..Len(items) : f = last + j
      BY <2>3
    <3>2. t.frags[f] = <<items[j]>>
      BY <1>2, <3>1
    <3>3. t.frags[f][k] = items[j]
      BY <1>6, <3>2
    <3> QED
      BY <1>5, <3>1, <3>3
  <2> QED
    BY <2>1, <2>2, <2>3
<1>7. ItemsMarked(t, slots)
  BY <1>2, <1>4, <1>6 DEF ItemsMarked
<1>8. \A i \in DOMAIN s.mapEvents :
          /\ s.mapEvents[i].frag < Len(t.frags)
          /\ s.mapEvents[i].odd => s.mapEvents[i].frag < Len(t.frags) - 1
  BY <1>1, <1>2, <1>3
<1>9. EventsInOrder(t)
  BY <1>1, <1>8 DEF Ready, Tracked, EventsInOrder
<1>10. OpenIsMarked(t) /\ AllPadded(t)
  BY <1>8 DEF OpenIsMarked, AllPadded
<1>11. OddPads(t)
  <2> SUFFICES ASSUME NEW i \in DOMAIN s.mapEvents, s.mapEvents[i].odd
               PROVE  OddPad(t, s.mapEvents[i])
    BY DEF Ready, Tracked, OddPads
  <2>1. PICK e : e = s.mapEvents[i]
    OBVIOUS
  <2>2. OddPad(s, e) /\ e.frag \in Nat /\ e.frag < last
    BY <1>1, <1>3, <2>1 DEF Ready, Tracked, OddPads
  <2>3. t.frags[e.frag + 1] = s.frags[e.frag + 1]
    BY <1>1, <1>2, <2>2, SMTT(30)
  <2> QED
    BY <2>1, <2>2, <2>3 DEF OddPad, last
<1> QED
  BY <1>1, <1>7, <1>9, <1>10, <1>11 DEF Ready, Tracked

-----------------------------------------------------------------------------
(* What the statements emit.                                               *)
LEMMA ActiveShows ==
    ASSUME TypeOK, NEW s, NEW item \in Item, item.slot = Slot, item.is = "pad" => item.n # 0,
           \/ ~HasMapping(Mode)
           \/ StateShows(s, item.mode)
           \/ item.is = "skip"
           \/ item.is = "pad" /\ item.mode = Data /\ AlignPaddingIsCode(Mode)
    PROVE  Showing(s, item, archSlots)
<1>1. Slot \in Nat /\ Slot < Len(archSlots) /\ archSlots[Slot + 1] = Mode
  <2>1. Len(archSlots) \in Nat \ {0}
    BY ActiveBackend
  <2>2. Slot + 1 = Len(archSlots)
    BY <2>1 DEF Slot
  <2> QED
    BY <2>1, <2>2, ActiveBackend DEF Slot, Mode
<1> QED
  BY <1>1 DEF Showing, Exempt

(* What changes neither the items nor the marks.                           *)
LEMMA AlignedReady ==
    ASSUME NEW slots, NEW s, Ready(s, slots)
    PROVE  /\ \A n \in Nat : Ready(RaiseAlign(s, n), slots)
           /\ \A labelled \in BOOLEAN : Ready(AtLabel(s, labelled), slots)
           /\ Ready(Seal(s), slots)
<1>1. s \in SectionType
  BY DEF Ready, Tracked
<1>2. ASSUME NEW n \in Nat PROVE SameMarks(s, RaiseAlign(s, n))
  <2>1. Quiet(s, RaiseAlign(s, n))
    BY <1>1, SealingIsQuiet
  <2>2. RaiseAlign(s, n).mapState = s.mapState /\ RaiseAlign(s, n).mapEvents = s.mapEvents
    BY <1>1 DEF RaiseAlign, SectionType
  <2> QED
    BY <2>1, <2>2 DEF SameMarks, Quiet
<1>3. SameMarks(s, Seal(s)) /\ SameMarks(s, s)
  BY <1>1, SealingIsQuiet DEF SameMarks, Quiet
<1>4. ASSUME NEW labelled \in BOOLEAN PROVE SameMarks(s, AtLabel(s, labelled))
  BY <1>3 DEF AtLabel
<1> QED
  BY <1>2, <1>3, <1>4, SameMarksReady

(* Zeros up to a boundary.                                                 *)
LEMMA AlignZeroReady ==
    ASSUME TypeOK, NEW s, Ready(s, archSlots), NEW n \in Nat \ {0}
    PROVE  Ready(AlignZero(s, n), archSlots)
<1> DEFINE item == Padding(n, Data, NoLimit, Slot)
<1>1. /\ Mode \in Modes /\ Slot \in Nat /\ Data \in Marks
  BY ActiveBackend DEF Marks
<1>2. /\ item \in Item /\ item.slot = Slot /\ item.is = "pad" /\ item.mode = Data /\ item.n = n
  BY <1>1, ItemsOfSlot DEF Padding
<1> HIDE DEF item
<1>3. CASE AlignPaddingIsCode(Mode)
  <2>1. Ready(MapCode(s, Mode), archSlots)
    BY <1>1, MarkingTracks
  <2>2. Showing(MapCode(s, Mode), item, archSlots)
    BY <1>2, <1>3, ActiveShows
  <2>3. Ready(Push(MapCode(s, Mode), item), archSlots)
    BY <1>2, <2>1, <2>2, PushTracks DEF IsNops
  <2> QED
    BY <1>3, <2>3 DEF AlignZero, item
<1>4. CASE ~AlignPaddingIsCode(Mode)
  <2>1. /\ Ready(MapDataFrag(s, Mode), archSlots)
        /\ HasMapping(Mode) => MapDataFrag(s, Mode).mapState = Data
    BY <1>1, MarkingTracks
  <2>2. Showing(MapDataFrag(s, Mode), item, archSlots)
    BY <1>2, <2>1, ActiveShows DEF StateShows
  <2>3. Ready(Push(MapDataFrag(s, Mode), item), archSlots)
    BY <1>2, <2>1, <2>2, PushTracks DEF IsNops
  <2> QED
    BY <1>4, <2>3 DEF AlignZero, item
<1> QED
  BY <1>3, <1>4

(* A pool: its boundary, its mark and its entries.                         *)
LEMMA FlushReady ==
    ASSUME TypeOK, NEW s, Ready(s, archSlots), NEW pool \in PoolOfLiterals
    PROVE  Ready(FlushLiterals(s, pool), archSlots)
<1>1. Data \in Marks /\ 4 \in Nat \ {0} /\ Slot \in Nat
  BY ActiveBackend DEF Marks
<1>2. PICK start : start = PoolStart(s)
  OBVIOUS
<1>3. Ready(start, archSlots) /\ start.mapState = Data
  <2>1. PICK u : u = RaiseAlign(AlignZero(s, 4), 4)
    OBVIOUS
  <2>2. Ready(AlignZero(s, 4), archSlots)
    BY <1>1, AlignZeroReady
  <2>3. Ready(u, archSlots)
    BY <1>1, <2>1, <2>2, AlignedReady
  <2>4. /\ Ready(MapTransition(u, Data, TRUE), archSlots)
        /\ StateIs(u, MapTransition(u, Data, TRUE), Data)
    BY Zenon, <1>1, <2>3, TransitionTracks
  <2> QED
    BY <1>2, <2>1, <2>4 DEF PoolStart, StateIs
<1>4. CASE pool = <<>>
  BY <1>4 DEF FlushLiterals
<1>5. CASE pool # <<>>
  <2>1. PICK items : items = Entries(pool)
    OBVIOUS
  <2>2. items \in Seq(Item) /\ SlotsAre(items, Slot) /\ items # <<>>
    BY <1>5, <2>1, EntriesType
  <2>3. \A k \in DOMAIN items : items[k].is = "entry" /\ items[k].mode = Data /\ items[k] \in Item
    <3>1. \A k \in DOMAIN items : items[k] \in Item
      BY <2>2
    <3>2. DOMAIN items = DOMAIN PoolValues(pool)
      BY <2>1, EntriesType
    <3> QED
      BY <2>1, <3>1, <3>2 DEF Entries, PoolEntry
  <2>4. \A k \in DOMAIN items : Showing(start, items[k], archSlots) /\ items[k].is # "pad"
    BY <1>3, <2>2, <2>3, ActiveShows DEF SlotsAre, StateShows
  <2>5. PICK t : t = [start EXCEPT !.frags = @ \o [k \in DOMAIN items |-> <<items[k]>>],
                                   !.open = TRUE]
    OBVIOUS
  <2>6. start \in SectionType
    BY <1>3 DEF Ready, Tracked
  <2>7. Appended(start, t, items)
    BY <2>2, <2>5, <2>6, EntriesAreAppended
  <2>8. t.mapEvents = start.mapEvents /\ t.mapState = start.mapState
    BY <2>5, <2>6 DEF SectionType
  <2>9. Ready(t, archSlots)
    BY <1>3, <2>2, <2>4, <2>7, <2>8, AppendedTracks
  <2>10. DOMAIN items = DOMAIN PoolValues(pool)
    BY <2>1, EntriesType
  <2>11. [k \in DOMAIN items |-> <<items[k]>>]
           = [k \in DOMAIN PoolValues(pool) |-> <<PoolEntry(PoolValues(pool)[k], Slot)>>]
    BY <2>1, <2>10 DEF Entries
  <2>12. FlushLiterals(s, pool) = t
    BY <1>2, <1>5, <2>5, <2>11 DEF FlushLiterals
  <2> QED
    BY <2>9, <2>12
<1> QED
  BY <1>4, <1>5

(* An instruction.                                                         *)
LEMMA InstructionReady ==
    ASSUME TypeOK, NEW s, Ready(s, archSlots), NEW n \in Nat
    PROVE  Ready(EmitInstruction(s, n), archSlots)
<1> DEFINE item == Insn(n, Mode, Slot)
<1>1. Mode \in Modes /\ Slot \in Nat
  BY ActiveBackend
<1>2. item \in Item /\ item.slot = Slot /\ item.is = "insn" /\ item.mode = Mode
  BY <1>1, ItemsOfSlot DEF Insn
<1> HIDE DEF item
<1>3. PICK u : u = MapCode(s, Mode)
  OBVIOUS
<1>4. Ready(u, archSlots) /\ (HasMapping(Mode) => u.mapState = Mode)
  BY <1>1, <1>3, MarkingTracks
<1>5. Showing(u, item, archSlots)
  BY <1>2, <1>4, ActiveShows DEF StateShows
<1>6. PICK pushed : pushed = Push(u, item)
  OBVIOUS
<1>7. Ready(pushed, archSlots)
  BY <1>2, <1>4, <1>5, <1>6, PushTracks DEF IsNops
<1>8. pushed \in SectionType
  BY <1>7 DEF Ready, Tracked
<1>9. CASE PadsAsLastInstruction(Mode)
  <2>1. PICK t : t = [pushed EXCEPT !.nopState = Mode]
    OBVIOUS
  <2>2. SameMarks(pushed, t)
    BY <1>1, <1>8, <1>9, <2>1 DEF SectionType, SameMarks, PadsAsLastInstruction
  <2>3. Ready(t, archSlots)
    BY <1>7, <2>2, SameMarksReady
  <2> QED
    BY <1>3, <1>6, <1>9, <2>1, <2>3 DEF EmitInstruction, item
<1>10. CASE ~PadsAsLastInstruction(Mode)
  BY <1>3, <1>6, <1>7, <1>10 DEF EmitInstruction, item
<1> QED
  BY <1>9, <1>10

(* No-op padding, which a backend without mapping symbols leaves unmarked. *)
LEMMA NopsReady ==
    ASSUME TypeOK, NEW s, Ready(s, archSlots), NEW n \in Nat \ {0}, NEW most \in Nat
    PROVE  /\ Ready(Push(MapCodeAlign(s, NopMode(s)), Padding(n, NopMode(s), most, Slot)), archSlots)
           /\ Mode \in Arm =>
                 Ready(Push(MapAlign(s, NopMode(s)), Padding(n, NopMode(s), most, Slot)), archSlots)
<1>1. Mode \in Modes /\ Slot \in Nat /\ s \in SectionType /\ Slot < Len(archSlots)
  <2>1. Len(archSlots) \in Nat \ {0}
    BY ActiveBackend
  <2> QED
    BY <2>1, ActiveBackend DEF Slot, Ready, Tracked
<1>2. PICK nops : nops = NopMode(s)
  OBVIOUS
<1>3. nops = Mode \/ nops \in Arm
  BY <1>1, <1>2, NopModes
<1>4. nops \in Modes /\ nops \in Marks
  BY <1>1, <1>3 DEF Modes, Marks
<1>5. PICK item : item = Padding(n, nops, most, Slot)
  OBVIOUS
<1>6. /\ item \in Item /\ item.slot = Slot /\ item.is = "pad" /\ item.mode = nops /\ item.n = n
  BY <1>1, <1>4, <1>5, ItemsOfSlot DEF Padding
<1>7. Ready(Push(MapAlign(s, nops), item), archSlots)
  <2>1. PICK u : u = Seal(MapAlign(s, nops))
    OBVIOUS
  <2>2. Tracked(u, archSlots) /\ PaddingDue(u, nops) /\ u.mapState = nops
    BY <1>4, <2>1, AlignTracks DEF StateIs
  <2>3. Ready(Push(u, item), archSlots)
    BY <1>1, <1>4, <1>6, <2>2, PaddingTracks
  <2>4. MapAlign(s, nops) \in SectionType
    BY <1>1, <1>4, MarkingIsQuiet DEF Quiet
  <2>5. Push(MapAlign(s, nops), item) = Push(u, item)
    BY <2>1, <2>4 DEF Push, Seal, SectionType
  <2> QED
    BY <2>3, <2>5
<1>8. CASE HasMapping(nops)
  BY <1>2, <1>5, <1>7, <1>8 DEF MapCodeAlign
<1>9. CASE ~HasMapping(nops)
  <2>1. nops = Mode /\ ~HasMapping(Mode)
    BY <1>3, <1>9 DEF HasMapping, Arm
  <2>2. Showing(s, item, archSlots)
    BY <1>6, <2>1, ActiveShows
  <2>3. Exempt(item, archSlots)
    <3>1. Len(archSlots) \in Nat \ {0}
      BY ActiveBackend
    <3>2. Slot + 1 = Len(archSlots)
      BY <3>1 DEF Slot
    <3> QED
      BY <1>6, <2>1, <3>2 DEF Exempt, Mode
  <2>4. Ready(Push(s, item), archSlots)
    BY <2>2, <2>3, PushTracks
  <2>5. Mode \notin Arm
    BY <2>1 DEF HasMapping, Arm
  <2> QED
    BY <1>2, <1>5, <1>9, <2>4, <2>5 DEF MapCodeAlign
<1> QED
  BY <1>2, <1>5, <1>7, <1>8, <1>9

-----------------------------------------------------------------------------
(* While the source is read every section is tracked.                      *)
AllReady == \A n \in DOMAIN sections : Ready(sections[n], archSlots)

(* What a backend marks is asked of the backend, whichever its state.      *)
SameBackends(slots, after) ==
    /\ Len(slots) \in Nat /\ Len(after) \in Nat /\ Len(slots) <= Len(after)
    /\ \A i \in 1..Len(slots) :
          /\ HasMapping(after[i]) <=> HasMapping(slots[i])
          /\ AlignPaddingIsCode(after[i]) <=> AlignPaddingIsCode(slots[i])

(* Another backend, or another state of one, changes nothing of what has   *)
(* been emitted.                                                           *)
LEMMA BackendsReady ==
    ASSUME NEW slots, NEW s, Ready(s, slots), NEW after, SameBackends(slots, after)
    PROVE  Ready(s, after)
<1>1. ASSUME NEW f \in DOMAIN s.frags, NEW k \in DOMAIN s.frags[f]
      PROVE  ItemMarked(s, f, s.frags[f][k], after)
  <2>1. PICK item : item = s.frags[f][k]
    OBVIOUS
  <2>2. item \in Item /\ ItemMarked(s, f, item, slots)
    BY <2>1, EventsType DEF Ready, Tracked, ItemsMarked
  <2>3. item.slot \in Nat /\ item.slot < Len(slots)
    BY <2>2 DEF ItemMarked, Item
  <2>4. item.slot + 1 \in 1..Len(slots) /\ item.slot < Len(after)
    BY <2>3 DEF SameBackends
  <2>5. Exempt(item, slots) <=> Exempt(item, after)
    BY <2>4 DEF SameBackends, Exempt
  <2> QED
    BY <2>1, <2>2, <2>4, <2>5 DEF ItemMarked
<1> QED
  BY <1>1 DEF Ready, Tracked, ItemsMarked

(* A statement that emits into the current section.                        *)
LEMMA CurrentReady ==
    ASSUME TypeOK, AllReady, NEW t, Ready(t, archSlots'),
           sections' = [sections EXCEPT ![cur] = t], SameBackends(archSlots, archSlots')
    PROVE  AllReady'
<1>1. \A n \in DOMAIN sections : Ready(sections[n], archSlots')
  BY BackendsReady DEF AllReady
<1>2. DOMAIN sections' = DOMAIN sections
      /\ \A n \in DOMAIN sections : sections'[n] = t \/ sections'[n] = sections[n]
  BY DEF TypeOK
<1> QED
  BY <1>1, <1>2 DEF AllReady

(* The current section, and what it is tracked by.                         *)
LEMMA CurrentIsReady ==
    ASSUME TypeOK, IInv, AllReady
    PROVE  /\ Ready(sections[cur], archSlots)
           /\ sections[cur].open => sections[cur].frags # <<>>
           /\ SameBackends(archSlots, archSlots)
           /\ Slot \in Nat /\ Mode \in Modes
<1>1. cur \in DOMAIN sections /\ Kept(sections[cur], Slot)
  BY CurrentSection
<1>2. Len(archSlots) \in Nat
  BY ActiveBackend
<1> QED
  BY <1>1, <1>2, ActiveBackend DEF AllReady, SameBackends, Kept, OpenIsCurrent

(* Labels, data, space and what .org skips.                                *)
LEMMA DataReady ==
    ASSUME TypeOK, IInv, AllReady
    PROVE  /\ DefineLabel \/ DirSpace \/ EmitOrg => AllReady'
           /\ \A labelled \in BOOLEAN : DirData(labelled) \/ RefuseInstruction(labelled) => AllReady'
<1>1. PICK s : s = sections[cur]
  OBVIOUS
<1>2. /\ Ready(s, archSlots) /\ (s.open => s.frags # <<>>) /\ s \in SectionType
      /\ SameBackends(archSlots, archSlots) /\ Slot \in Nat /\ Mode \in Modes
  BY <1>1, CurrentIsReady DEF Ready, Tracked
<1>3. /\ Byte(Slot) \in Item /\ Byte(Slot).slot = Slot /\ Byte(Slot).is = "byte"
      /\ Byte(Slot).mode = Data
      /\ Skip(Slot) \in Item /\ Skip(Slot).slot = Slot /\ Skip(Slot).is = "skip"
  BY <1>2, ItemsOfSlot DEF Byte, Skip
<1>4. ASSUME NEW labelled \in BOOLEAN, NEW t, t = AtLabel(s, labelled),
             sections' = [sections EXCEPT ![cur] = t], archSlots' = archSlots
      PROVE  AllReady'
  <2>1. Ready(t, archSlots')
    BY <1>2, <1>4, AlignedReady
  <2> QED
    BY <1>2, <1>4, <2>1, CurrentReady
<1>5. DefineLabel => AllReady'
  BY <1>1, <1>4 DEF DefineLabel
<1>6. ASSUME NEW labelled \in BOOLEAN, RefuseInstruction(labelled) PROVE AllReady'
  BY <1>1, <1>4, <1>6 DEF RefuseInstruction
<1>7. ASSUME EmitOrg PROVE AllReady'
  <2>1. Showing(s, Skip(Slot), archSlots)
    BY <1>3, ActiveShows
  <2>2. Ready(Push(s, Skip(Slot)), archSlots)
    BY <1>2, <1>3, <2>1, PushTracks DEF IsNops
  <2>3. sections' = [sections EXCEPT ![cur] = Push(s, Skip(Slot))] /\ archSlots' = archSlots
    BY <1>1, <1>7 DEF EmitOrg
  <2> QED
    BY <1>2, <2>2, <2>3, CurrentReady
<1>8. ASSUME DirSpace PROVE AllReady'
  <2>1. PICK m : m = MapData(s, Mode)
    OBVIOUS
  <2>2. PICK u : u = MapDataFrag(m, Mode)
    OBVIOUS
  <2>3. Ready(m, archSlots)
    BY <1>2, <2>1, MarkingTracks
  <2>4. Ready(u, archSlots) /\ (HasMapping(Mode) => u.mapState = Data)
    BY <1>2, <2>2, <2>3, MarkingTracks
  <2>5. Showing(u, Byte(Slot), archSlots)
    BY <1>3, <2>4, ActiveShows DEF StateShows
  <2>6. Ready(Push(u, Byte(Slot)), archSlots)
    BY <1>3, <2>4, <2>5, PushTracks DEF IsNops
  <2>7. sections' = [sections EXCEPT ![cur] = Push(u, Byte(Slot))] /\ archSlots' = archSlots
    BY <1>1, <1>8, <2>1, <2>2 DEF DirSpace
  <2> QED
    BY <1>2, <2>6, <2>7, CurrentReady
<1>9. ASSUME NEW labelled \in BOOLEAN, DirData(labelled) PROVE AllReady'
  <2>1. PICK a : a = AtLabel(s, labelled)
    OBVIOUS
  <2>2. PICK m : m = MapData(a, Mode)
    OBVIOUS
  <2>3. Ready(a, archSlots) /\ a \in SectionType
    BY <1>2, <2>1, AlignedReady DEF Ready, Tracked
  <2>4. Ready(m, archSlots) /\ (HasMapping(Mode) => StateShows(m, Data))
    BY <1>2, <2>2, <2>3, MarkingTracks
  <2>5. m.open => m.frags # <<>>
    <3>1. Quiet(s, a) /\ Quiet(a, m)
      BY <1>2, <2>1, <2>2, <2>3, SealingIsQuiet, MarkingIsQuiet
    <3> QED
      BY <1>2, <3>1 DEF Quiet
  <2>6. Showing(m, Byte(Slot), archSlots)
    BY <1>3, <2>4, ActiveShows
  <2>7. Ready(EmitBytes(m, Byte(Slot)), archSlots)
    BY <1>3, <2>4, <2>5, <2>6, EmitBytesTracks
  <2>8. PICK t : t = IF IsNobits(cur) THEN m ELSE EmitBytes(m, Byte(Slot))
    OBVIOUS
  <2>9. sections' = [sections EXCEPT ![cur] = t] /\ archSlots' = archSlots
    BY <1>1, <1>9, <2>1, <2>2, <2>8 DEF DirData
  <2>10. Ready(t, archSlots)
    BY <2>4, <2>7, <2>8
  <2> QED
    BY <1>2, <2>9, <2>10, CurrentReady
<1> QED
  BY <1>5, <1>6, <1>7, <1>8, <1>9

(* Alignments, instructions and loads.                                     *)
LEMMA CodeReady ==
    ASSUME TypeOK, IInv, AllReady
    PROVE  /\ DirAlign => AllReady'
           /\ \A labelled \in BOOLEAN :
                 Instruction(labelled) \/ PrefixedInstruction(labelled) => AllReady'
           /\ \A value \in source.values : LoadLiteral(value) => AllReady'
<1>1. PICK s : s = sections[cur]
  OBVIOUS
<1>2. /\ Ready(s, archSlots) /\ s \in SectionType
      /\ SameBackends(archSlots, archSlots) /\ Slot \in Nat /\ Mode \in Modes
  BY <1>1, CurrentIsReady DEF Ready, Tracked
<1>3. ASSUME NEW t, Ready(t, archSlots), sections' = [sections EXCEPT ![cur] = t],
             archSlots' = archSlots
      PROVE  AllReady'
  BY <1>2, <1>3, CurrentReady
<1>4. CodeUnit(Mode) \in Nat
  BY DEF CodeUnit
<1>5. ASSUME NEW value \in source.values, LoadLiteral(value) PROVE AllReady'
  <2>1. Ready(EmitInstruction(s, CodeUnit(Mode)), archSlots)
    BY <1>2, <1>4, InstructionReady
  <2> QED
    BY <1>1, <1>3, <1>5, <2>1 DEF LoadLiteral
<1>6. ASSUME NEW labelled \in BOOLEAN, Instruction(labelled) PROVE AllReady'
  <2>1. Ready(AtLabel(s, labelled), archSlots)
    BY <1>2, AlignedReady
  <2>2. Ready(EmitInstruction(AtLabel(s, labelled), CodeUnit(Mode)), archSlots)
    BY <1>4, <2>1, InstructionReady
  <2> QED
    BY <1>1, <1>3, <1>6, <2>2 DEF Instruction
<1>7. ASSUME NEW labelled \in BOOLEAN, PrefixedInstruction(labelled) PROVE AllReady'
  <2>1. PICK a : a = AtLabel(s, labelled)
    OBVIOUS
  <2>2. Ready(a, archSlots)
    BY <1>2, <2>1, AlignedReady
  <2>3. PrefixBoundary \in Nat \ {0} /\ 4 \in Nat /\ 8 \in Nat
    BY DEF PrefixBoundary
  <2>4. PICK padded : padded = BeforePrefixed(a)
    OBVIOUS
  <2>5. Ready(padded, archSlots)
    BY <2>2, <2>3, <2>4, NopsReady DEF BeforePrefixed
  <2>6. Ready(EmitInstruction(padded, 8), archSlots)
    BY <2>3, <2>5, InstructionReady
  <2>7. Ready(RaiseAlign(EmitInstruction(padded, 8), PrefixBoundary), archSlots)
    BY <2>3, <2>6, AlignedReady
  <2> QED
    BY <1>1, <1>3, <1>7, <2>1, <2>4, <2>7 DEF PrefixedInstruction
<1>8. ASSUME DirAlign PROVE AllReady'
  <2>1. PICK nopped : nopped = Push(MapCodeAlign(s, NopMode(s)), Padding(4, NopMode(s), NoLimit, Slot))
    OBVIOUS
  <2>2. PICK zeroed : zeroed = Push(MapDataFrag(s, Mode), Padding(4, Data, NoLimit, Slot))
    OBVIOUS
  <2>3. 4 \in Nat \ {0} /\ NoLimit \in Nat /\ Data \in Marks /\ 4 \in Nat
    BY DEF NoLimit, Marks
  <2>4. Ready(nopped, archSlots)
    BY <1>2, <2>1, <2>3, NopsReady
  <2>5. Ready(zeroed, archSlots)
    <3>1. PICK item : item = Padding(4, Data, NoLimit, Slot)
      OBVIOUS
    <3>2. /\ item \in Item /\ item.slot = Slot /\ item.is = "pad" /\ item.mode = Data
          /\ item.n = 4
      BY <1>2, <2>3, <3>1, ItemsOfSlot DEF Padding
    <3>3. PICK u : u = MapDataFrag(s, Mode)
      OBVIOUS
    <3>4. Ready(u, archSlots) /\ (HasMapping(Mode) => u.mapState = Data)
      BY <1>2, <3>3, MarkingTracks
    <3>5. Showing(u, item, archSlots)
      BY <3>2, <3>4, ActiveShows DEF StateShows
    <3> QED
      BY <2>2, <3>1, <3>2, <3>3, <3>4, <3>5, PushTracks DEF IsNops
  <2>6. PICK t : t = RaiseAlign(IF s.exec THEN nopped ELSE zeroed, 4)
    OBVIOUS
  <2>7. Ready(t, archSlots)
    BY <2>3, <2>4, <2>5, <2>6, AlignedReady
  <2>8. sections' = [sections EXCEPT ![cur] = t] /\ archSlots' = archSlots
    BY <1>1, <1>8, <2>1, <2>2, <2>6 DEF DirAlign
  <2> QED
    BY <1>3, <2>7, <2>8
<1> QED
  BY <1>5, <1>6, <1>7, <1>8

(* A change of state, which a backend with none does not make.             *)
LEMMA SetModeReady ==
    ASSUME TypeOK, IInv, AllReady, NEW mode \in Arm, SetMode(mode)
    PROVE  AllReady'
<1>1. PICK s : s = sections[cur]
  OBVIOUS
<1>2. Ready(s, archSlots) /\ archSlots \in Seq(Modes)
  BY <1>1, CurrentIsReady DEF TypeOK
<1>3. PICK last : last = Len(archSlots)
  OBVIOUS
<1>4. last \in Nat \ {0} /\ archSlots[last] = Mode /\ DOMAIN archSlots = 1..last
  BY <1>2, <1>3, ActiveBackend DEF Mode
<1>5. archSlots' = [archSlots EXCEPT ![last] = mode] /\ {Mode, mode} = Arm
  BY <1>3 DEF SetMode
<1>6. Len(archSlots') = last /\ archSlots'[last] = mode
      /\ \A i \in 1..last : i # last => archSlots'[i] = archSlots[i]
  BY <1>2, <1>4, <1>5 DEF Arm, Modes
<1>7. Mode \in Arm
  BY <1>5
<1>8. SameBackends(archSlots, archSlots')
  <2>1. \A m \in Arm : HasMapping(m) /\ ~AlignPaddingIsCode(m)
    BY DEF Arm, HasMapping, AlignPaddingIsCode
  <2> QED
    BY <1>3, <1>4, <1>6, <1>7, <2>1 DEF SameBackends
<1>9. PICK t : t = RaiseAlign(IF mode = "a" THEN AlignZero(s, 4) ELSE s, 2)
  OBVIOUS
<1>10. Ready(t, archSlots)
  <2>1. 4 \in Nat \ {0} /\ 2 \in Nat
    OBVIOUS
  <2>2. Ready(AlignZero(s, 4), archSlots)
    BY <1>2, <2>1, AlignZeroReady
  <2> QED
    BY <1>2, <1>9, <2>1, <2>2, AlignedReady
<1>11. sections' = [sections EXCEPT ![cur] = t]
  BY <1>1, <1>9 DEF SetMode
<1>12. Ready(t, archSlots')
  BY <1>8, <1>10, BackendsReady
<1> QED
  BY <1>8, <1>11, <1>12, CurrentReady

(* Pools, when they are asked for and when the backend changes.            *)
LEMMA FlushedReady ==
    ASSUME TypeOK, AllReady
    PROVE  \A n \in DOMAIN sections : Ready(FlushedSections[n], archSlots)
<1> SUFFICES ASSUME NEW n \in DOMAIN sections PROVE Ready(FlushedSections[n], archSlots)
  OBVIOUS
<1>1. literalPools[n] \in PoolOfLiterals
  BY DEF TypeOK, PoolOfLiterals
<1>2. Ready(sections[n], archSlots)
  BY DEF AllReady
<1>3. Ready(FlushLiterals(sections[n], literalPools[n]), archSlots)
  BY <1>1, <1>2, FlushReady
<1> QED
  BY <1>3 DEF FlushedSections

(* Neither does the mark of a backend.                                     *)
LEMMA MarkArchReady ==
    ASSUME NEW slots, NEW s, Ready(s, slots), NEW slot \in Nat, Kept(s, slot), NEW next \in Nat
    PROVE  Ready(MarkArch(s, next), slots)
<1>1. s \in SectionType /\ MarkArch(s, next) \in SectionType
  BY MarkArchKeeps DEF Kept
<1>2. SameMarks(s, MarkArch(s, next))
  BY <1>1 DEF SameMarks, MarkArch, SectionType
<1> QED
  BY <1>2, SameMarksReady

(* Writing the pools keeps every section ready: before another backend,    *)
(* and at the directive that asks for one.                                 *)
LEMMA PoolsReady ==
    ASSUME TypeOK, IInv, AllReady
    PROVE  /\ Ltorg => AllReady'
           /\ \A mode \in source.backends : SwitchArch(mode) => AllReady'
<1>1. \A n \in DOMAIN sections : Ready(FlushedSections[n], archSlots)
  BY FlushedReady
<1>2. /\ Slot \in Nat /\ Len(archSlots) \in Nat \ {0} /\ cur \in DOMAIN sections
      /\ SameBackends(archSlots, archSlots)
  BY ActiveBackend, CurrentIsReady, CurrentSection
<1>3. ASSUME Ltorg PROVE AllReady'
  <2>1. Ready(FlushLiterals(sections[cur], literalPools[cur]), archSlots)
    BY <1>1, <1>2 DEF FlushedSections
  <2>2. PICK t : t = FlushLiterals(sections[cur], literalPools[cur])
    OBVIOUS
  <2>3. sections' = [sections EXCEPT ![cur] = t] /\ archSlots' = archSlots
    BY <1>3, <2>2 DEF Ltorg
  <2> QED
    BY <1>2, <2>1, <2>2, <2>3, CurrentReady
<1>4. ASSUME NEW mode \in source.backends, SwitchArch(mode) PROVE AllReady'
  <2>1. archSlots' = Append(archSlots, mode) /\ archSlots \in Seq(Modes)
    BY <1>4 DEF SwitchArch, TypeOK
  <2>2. SameBackends(archSlots, archSlots')
    <3>1. Len(archSlots') = Len(archSlots) + 1
          /\ \A i \in 1..Len(archSlots) : archSlots'[i] = archSlots[i]
      BY <2>1
    <3> QED
      BY <1>2, <3>1 DEF SameBackends
  <2>3. ASSUME NEW n \in DOMAIN sections PROVE Ready(sections'[n], archSlots')
    <3>1. PICK s : s = FlushedSections[n]
      OBVIOUS
    <3>2. Kept(sections[n], Slot)
      BY DEF IInv, SectionsKept
    <3>3. literalPools[n] \in PoolOfLiterals
      BY DEF TypeOK, PoolOfLiterals
    <3>4. Kept(s, Slot)
      BY <3>1, <3>2, <3>3, FlushGrows DEF Grown, FlushedSections
    <3>5. Ready(s, archSlots)
      BY <1>1, <3>1
    <3>6. Slot + 1 \in Nat
      BY <1>2
    <3>7. Ready(MarkArch(s, Slot + 1), archSlots)
      BY <1>2, <3>4, <3>5, <3>6, MarkArchReady
    <3>8. sections'[n] = MarkArch(s, Slot + 1)
      BY <1>4, <3>1 DEF SwitchArch
    <3> QED
      BY <2>2, <3>7, <3>8, BackendsReady
  <2>4. DOMAIN sections' = DOMAIN sections
    BY <1>4 DEF SwitchArch
  <2> QED
    BY <2>3, <2>4 DEF AllReady
<1> QED
  BY <1>3, <1>4

(* A section named for the first time.                                     *)
LEMMA NamedReady ==
    ASSUME TypeOK, IInv, AllReady, NEW n \in AllSections
    PROVE  \A m \in DOMAIN WithSection(n) : Ready(WithSection(n)[m], archSlots)
<1>1. PICK new : new = NewSection(IsExec(n))
  OBVIOUS
<1>2. IsExec(n) \in BOOLEAN /\ Slot \in Nat
  BY ActiveBackend DEF IsExec
<1>3. Kept(new, 0) /\ new \in SectionType
  BY <1>1, <1>2, NewSectionIsKept DEF Kept
<1>4. new.mapEvents = <<>> /\ new.frags = <<>> /\ new.mapState = Unmarked /\ ~new.open
  BY <1>1 DEF NewSection
<1>5. Ready(new, archSlots)
  <2>1. DOMAIN new.mapEvents = {} /\ DOMAIN new.frags = {}
    BY <1>4
  <2>2. ItemsMarked(new, archSlots) /\ EventsInOrder(new)
    BY <1>4, <2>1 DEF ItemsMarked, EventsInOrder
  <2>3. OddPads(new) /\ OpenIsMarked(new) /\ AllPadded(new)
    BY <1>4, <2>1 DEF OddPads, OpenIsMarked, AllPadded
  <2> QED
    BY <1>3, <2>2, <2>3 DEF Ready, Tracked
<1>6. Ready(MarkArch(new, Slot), archSlots)
  <2>1. 0 \in Nat
    OBVIOUS
  <2> QED
    BY <1>2, <1>3, <1>5, <2>1, MarkArchReady
<1> QED
  BY <1>1, <1>6 DEF WithSection, AllReady

(* The statements that name a section, or go to one.                       *)
LEMMA SectionReady ==
    ASSUME TypeOK, IInv, AllReady
    PROVE  /\ \A n \in SectionNames : DirSection(n) \/ PushSection(n) => AllReady'
           /\ PopSection \/ SwapPrevious \/ ReserveBss => AllReady'
<1>1. SectionNames \subseteq AllSections /\ "bss" \in AllSections
  BY DEF AllSections
<1>2. ASSUME NEW n \in SectionNames, DirSection(n) \/ PushSection(n) PROVE AllReady'
  <2>1. sections' = WithSection(n) /\ archSlots' = archSlots
    BY <1>2 DEF DirSection, PushSection
  <2> QED
    BY <1>1, <2>1, NamedReady DEF AllReady
<1>3. ASSUME PopSection \/ SwapPrevious PROVE AllReady'
  <2>1. sections' = sections /\ archSlots' = archSlots
    BY <1>3 DEF PopSection, SwapPrevious
  <2> QED
    BY <2>1 DEF AllReady
<1>4. ASSUME ReserveBss PROVE AllReady'
  <2>1. PICK all : all = WithSection("bss")
    OBVIOUS
  <2>2. "bss" \in DOMAIN all /\ \A m \in DOMAIN all : Ready(all[m], archSlots)
    BY <1>1, <2>1, NamedReady, NamedSection DEF IInv
  <2>3. PICK padding : padding = Padding(4, Data, NoLimit, Slot)
    OBVIOUS
  <2>4. Slot \in Nat /\ Mode \in Modes /\ 4 \in Nat /\ NoLimit \in Nat /\ Data \in Marks
    BY ActiveBackend DEF NoLimit, Marks
  <2>5. /\ padding \in Item /\ padding.slot = Slot /\ padding.is = "pad" /\ padding.mode = Data
        /\ padding.n = 4
        /\ Byte(Slot) \in Item /\ Byte(Slot).slot = Slot /\ Byte(Slot).is = "byte"
        /\ Byte(Slot).mode = Data
    BY <2>3, <2>4, ItemsOfSlot DEF Padding, Byte
  <2>6. PICK u : u = MapDataFrag(all["bss"], Mode)
    OBVIOUS
  <2>7. Ready(u, archSlots) /\ (HasMapping(Mode) => u.mapState = Data)
    BY <2>2, <2>4, <2>6, MarkingTracks
  <2>8. Showing(u, padding, archSlots)
    BY <2>5, <2>7, ActiveShows DEF StateShows
  <2>9. PICK pushed : pushed = Push(u, padding)
    OBVIOUS
  <2>10. Ready(pushed, archSlots) /\ pushed.mapState = u.mapState
    BY <2>5, <2>7, <2>8, <2>9, PushTracks DEF IsNops
  <2>11. PICK aligned : aligned = RaiseAlign(pushed, 4)
    OBVIOUS
  <2>12. Ready(aligned, archSlots)
    BY <2>4, <2>10, <2>11, AlignedReady
  <2>13. aligned.mapState = u.mapState
    BY <2>10, <2>11 DEF RaiseAlign, Ready, Tracked, SectionType
  <2>14. Showing(aligned, Byte(Slot), archSlots)
    BY <2>5, <2>7, <2>13, ActiveShows DEF StateShows
  <2>15. Ready(Push(aligned, Byte(Slot)), archSlots)
    BY <2>5, <2>12, <2>14, PushTracks DEF IsNops
  <2>16. PICK t : t = Push(aligned, Byte(Slot))
    OBVIOUS
  <2>17. sections' = [all EXCEPT !["bss"] = t] /\ archSlots' = archSlots
    BY <1>4, <2>1, <2>3, <2>6, <2>9, <2>11, <2>16 DEF ReserveBss
  <2> QED
    BY <2>2, <2>15, <2>16, <2>17 DEF AllReady
<1> QED
  BY <1>2, <1>3, <1>4

(* Every statement leaves the sections tracked.                            *)
LEMMA StatementReady ==
    ASSUME TypeOK, IInv, AllReady, Next, ~Finish
    PROVE  AllReady'
BY DataReady, CodeReady, SetModeReady, PoolsReady, SectionReady DEF Next

(* The padding of a section's end is the last that is marked, or is marked *)
(* where there is none.                                                    *)
LEMMA TailIsTracked ==
    ASSUME TypeOK, NEW s, Ready(s, archSlots), Kept(s, Slot)
    PROVE  Tracked(Seal(PadTail(s)), archSlots)
<1>1. Slot \in Nat /\ Mode \in Modes /\ s \in SectionType
  BY ActiveBackend DEF Kept
<1>2. ArchSlot(s, NextFragIndex(s)) = Slot /\ archSlots[Slot + 1] = Mode
  <2>1. Len(s.frags) \in Nat /\ Len(s.frags) >= Len(s.frags) /\ NextFragIndex(s) = Len(s.frags)
    BY <1>1 DEF SectionType, NextFragIndex
  <2>2. ArchSlot(s, NextFragIndex(s)) = Slot
    BY <1>1, <2>1, ArchSlotAtEnd DEF Kept
  <2>3. Len(archSlots) \in Nat
    BY ActiveBackend
  <2>4. Slot + 1 = Len(archSlots)
    BY <2>3 DEF Slot
  <2> QED
    BY <2>2, <2>4 DEF Mode
<1>3. PICK nops : nops = NopMode(s)
  OBVIOUS
<1>4. PICK align : align = IF s.align < TailAlignLimit THEN s.align ELSE TailAlignLimit
  OBVIOUS
<1>5. align \in Nat
  BY <1>1, <1>4 DEF SectionType, TailAlignLimit
<1>6. nops \in Modes /\ (nops = Mode \/ nops \in Arm)
  BY <1>1, <1>3, NopModes
<1>7. PadTail(s) =
          IF ~PadsSectionTail(Mode, s.exec) THEN s
          ELSE IF align <= 1 THEN IF HasMapping(nops) /\ s.exec THEN MapAlign(s, nops) ELSE s
          ELSE Push(IF HasMapping(nops) /\ s.exec THEN MapAlign(s, nops) ELSE s,
                    Padding(align, IF s.exec THEN nops ELSE Data, NoLimit, Slot))
  BY <1>2, <1>3, <1>4 DEF PadTail, NopMode
<1>8. CASE ~PadsSectionTail(Mode, s.exec)
  BY <1>7, <1>8, AlignedReady DEF Ready
<1>9. CASE PadsSectionTail(Mode, s.exec)
  <2>1. Mode \in Arm /\ s.exec /\ nops \in Arm /\ HasMapping(nops)
    BY <1>6, <1>9 DEF PadsSectionTail, HasMapping, Arm
  <2>2. CASE align <= 1
    <3>1. PadTail(s) = MapAlign(s, nops)
      BY <1>7, <1>9, <2>1, <2>2
    <3> QED
      BY <1>6, <3>1, AlignTracks
  <2>3. CASE ~(align <= 1)
    <3>1. PadTail(s) = Push(MapAlign(s, nops), Padding(align, nops, NoLimit, Slot))
      BY <1>7, <1>9, <2>1, <2>3
    <3>2. align \in Nat \ {0} /\ NoLimit \in Nat
      BY <1>5, <2>3 DEF NoLimit
    <3>3. Ready(PadTail(s), archSlots)
      BY <1>3, <2>1, <3>1, <3>2, NopsReady
    <3> QED
      BY <3>3, AlignedReady DEF Ready
  <2> QED
    BY <2>2, <2>3
<1> QED
  BY <1>8, <1>9

-----------------------------------------------------------------------------
(* The marks of every source: tracked while it is read, and placed for     *)
(* what was tracked when its end has been reached.                         *)
MarksKept ==
    /\ phase = "reading" => AllReady
    /\ phase = "done" =>
          /\ \A n \in DOMAIN sections : Tracked(Seal(sections[n]), archSlots)
          /\ mappingSymbols = [n \in AllSections |->
                IF n \in DOMAIN sections THEN PlaceMappingSymbols(sections[n]) ELSE {}]

(* All of this is so whatever the source.                                  *)
LEMMA MarksAlwaysKept == Spec => [](TypeOK /\ IInv /\ MarksKept)
<1>1. Init => MarksKept
  <2> SUFFICES ASSUME Init PROVE AllReady
    BY DEF Init, MarksKept
  <2>1. PICK new : new = NewSection(TRUE)
    OBVIOUS
  <2>2. new \in SectionType
    BY <2>1, NewSectionIsKept DEF Kept
  <2>3. new.mapEvents = <<>> /\ new.frags = <<>> /\ new.mapState = Unmarked /\ ~new.open
    BY <2>1 DEF NewSection
  <2>4. DOMAIN new.mapEvents = {} /\ DOMAIN new.frags = {}
    BY <2>3
  <2>5. ItemsMarked(new, archSlots) /\ EventsInOrder(new)
    BY <2>3, <2>4 DEF ItemsMarked, EventsInOrder
  <2>6. OddPads(new) /\ OpenIsMarked(new) /\ AllPadded(new)
    BY <2>3, <2>4 DEF OddPads, OpenIsMarked, AllPadded
  <2> QED
    BY <2>1, <2>2, <2>5, <2>6 DEF Init, AllReady, Ready, Tracked
<1>2. ASSUME TypeOK, IInv, MarksKept, [Next]_vars PROVE MarksKept'
  <2>1. CASE UNCHANGED vars
    BY <1>2, <2>1 DEF vars, MarksKept, AllReady
  <2>2. CASE Finish
    <3>1. AllReady /\ phase' = "done" /\ archSlots' = archSlots
      BY <1>2, <2>2 DEF Finish, MarksKept
    <3>2. ASSUME NEW n \in DOMAIN sections PROVE Tracked(Seal(sections'[n]), archSlots')
      <4>1. PICK s : s = FlushedSections[n]
        OBVIOUS
      <4>2. Kept(sections[n], Slot) /\ literalPools[n] \in PoolOfLiterals
        BY <1>2 DEF IInv, SectionsKept, TypeOK, PoolOfLiterals
      <4>3. Kept(s, Slot)
        BY <1>2, <4>1, <4>2, FlushGrows DEF Grown, FlushedSections
      <4>4. Ready(s, archSlots)
        BY <1>2, <3>1, <4>1, FlushedReady
      <4>5. Tracked(Seal(PadTail(s)), archSlots)
        BY <1>2, <4>3, <4>4, TailIsTracked
      <4> QED
        BY <2>2, <3>1, <4>1, <4>5 DEF Finish
    <3>3. DOMAIN sections' = DOMAIN sections
      BY <2>2 DEF Finish
    <3>4. mappingSymbols' = [n \in AllSections |->
              IF n \in DOMAIN sections' THEN PlaceMappingSymbols(sections'[n]) ELSE {}]
      BY <2>2, <3>3 DEF Finish
    <3> QED
      BY <3>1, <3>2, <3>3, <3>4 DEF MarksKept
  <2>3. CASE Next /\ ~Finish
    <3>1. phase = "reading" /\ phase' = "reading"
      BY <2>3 DEF Next, Statement, DefineLabel, DirData, DirSpace, EmitOrg, DirAlign, Instruction,
                  PrefixedInstruction, LoadLiteral, RefuseInstruction, Ltorg, SetMode, SwitchArch,
                  DirSection, PushSection, PopSection, SwapPrevious, ReserveBss
    <3>2. AllReady'
      BY <1>2, <2>3, <3>1, StatementReady DEF MarksKept
    <3> QED
      BY <3>1, <3>2 DEF MarksKept
  <2> QED
    BY <1>2, <2>1, <2>2, <2>3
<1> QED
  BY <1>1, <1>2, InvariantAlways, PTL DEF Spec

-----------------------------------------------------------------------------
(* Offsets.  The recursive functions the layout and the symbols are        *)
(* computed by each go on from the value before with the next of a         *)
(* sequence; "step" is what they do with it.                               *)
IsRun(g, step, base, last) ==
    g = [i \in 0..last |-> IF i = 0 THEN base ELSE step[<<i, g[i - 1]>>]]

(* There is such a function, if the step stays among the values.           *)
LEMMA RunExists ==
    ASSUME NEW T, NEW base \in T, NEW step \in [Nat \X T -> T], NEW last \in Nat
    PROVE  \E g \in [0..last -> T] : IsRun(g, step, base, last)
<1> DEFINE S == {n \in Nat : \E g \in [0..n -> T] : IsRun(g, step, base, n)}
<1>1. 0 \in S
  <2>1. PICK g : g = [i \in 0..0 |-> base]
    OBVIOUS
  <2>2. g \in [0..0 -> T] /\ IsRun(g, step, base, 0)
    BY <2>1 DEF IsRun
  <2> QED
    BY <2>2
<1>2. ASSUME NEW n \in Nat, n \in S PROVE n + 1 \in S
  <2>1. PICK g \in [0..n -> T] : IsRun(g, step, base, n)
    BY <1>2
  <2> DEFINE h == [i \in 0..n + 1 |-> IF i = n + 1 THEN step[<<n + 1, g[n]>>] ELSE g[i]]
  <2>2. n \in 0..n /\ n + 1 \in Nat
    OBVIOUS
  <2>3. g[n] \in T /\ step[<<n + 1, g[n]>>] \in T
    BY <2>2
  <2>4. h \in [0..n + 1 -> T]
    BY <2>3
  <2>5. ASSUME NEW i \in 0..n + 1
        PROVE  h[i] = IF i = 0 THEN base ELSE step[<<i, h[i - 1]>>]
    <3>1. CASE i = n + 1
      <4>1. i # 0 /\ i - 1 = n /\ n \in 0..n + 1 /\ n # n + 1
        BY <3>1
      <4>2. h[i - 1] = g[n] /\ h[i] = step[<<n + 1, g[n]>>]
        BY <3>1, <4>1
      <4> QED
        BY <3>1, <4>1, <4>2
    <3>2. CASE i # n + 1
      <4>1. i \in 0..n /\ (i # 0 => i - 1 \in 0..n + 1 /\ i - 1 # n + 1)
        BY <3>2
      <4>2. h[i] = g[i] /\ (i # 0 => h[i - 1] = g[i - 1])
        BY <4>1
      <4>3. g[i] = IF i = 0 THEN base ELSE step[<<i, g[i - 1]>>]
        BY <2>1, <4>1 DEF IsRun
      <4> QED
        BY <4>2, <4>3
    <3> QED
      BY <3>1, <3>2
  <2>6. h = [i \in 0..n + 1 |-> h[i]]
    OBVIOUS
  <2> HIDE DEF h
  <2>7. IsRun(h, step, base, n + 1)
    BY <2>5, <2>6 DEF IsRun
  <2> QED
    BY <2>4, <2>7
<1> HIDE DEF S
<1>3. Nat \subseteq S
  BY <1>1, <1>2, InductionBySets
<1> QED
  BY <1>3 DEF S

(* The bytes of items emitted while the source was read.                   *)
Sized(item) == item \in Item /\ (item.is = "pad" => item.n # 0)

(* The size of an item is a number: no alignment is to a boundary of 0     *)
(* bytes.                                                                  *)
LEMMA SizesType ==
    ASSUME NEW item, Sized(item), NEW at \in Nat
    PROVE  ItemSize(item, at) \in Nat
<1>1. item.n \in Nat /\ item.most \in Nat /\ item.is \in {"insn", "byte", "entry", "pad", "skip"}
  BY DEF Sized, Item
<1>2. CASE item.is = "pad"
  <2>1. item.n \in Nat /\ item.n > 0
    BY <1>1, <1>2 DEF Sized
  <2>2. at % item.n \in 0..item.n - 1
    BY <2>1
  <2>3. item.n - (at % item.n) \in Nat
    BY <2>1, <2>2
  <2>4. (item.n - (at % item.n)) % item.n \in Nat
    BY <2>1, <2>3
  <2> QED
    BY <1>2, <2>4 DEF ItemSize
<1>3. CASE item.is # "pad"
  BY <1>1, <1>3 DEF ItemSize
<1> QED
  BY <1>2, <1>3

(* Where the items of a sequence end that starts at "base".                *)
IsSizes(g, items, base) ==
    g = [i \in 0..Len(items) |->
            IF i = 0 THEN base ELSE g[i - 1] + ItemSize(items[i], g[i - 1])]

SizesOf(items, base) == CHOOSE g : IsSizes(g, items, base)

AllSized(items) == items \in Seq(Item) /\ \A i \in DOMAIN items : Sized(items[i])

(* There is a function of where the items end.                             *)
LEMMA SizesExist ==
    ASSUME NEW items, AllSized(items), NEW base \in Nat
    PROVE  \E g \in [0..Len(items) -> Nat] : IsSizes(g, items, base)
<1>1. PICK last : last = Len(items)
  OBVIOUS
<1>2. last \in Nat /\ DOMAIN items = 1..last
  BY <1>1 DEF AllSized
<1> DEFINE step == [p \in Nat \X Nat |->
              IF p[1] \in 1..last THEN p[2] + ItemSize(items[p[1]], p[2]) ELSE p[2]]
<1>3. step \in [Nat \X Nat -> Nat]
  <2> SUFFICES ASSUME NEW p \in Nat \X Nat
               PROVE  (IF p[1] \in 1..last THEN p[2] + ItemSize(items[p[1]], p[2]) ELSE p[2]) \in Nat
    OBVIOUS
  <2>1. p[1] \in 1..last => ItemSize(items[p[1]], p[2]) \in Nat
    BY <1>2, SizesType DEF AllSized
  <2> QED
    BY <2>1
<1>4. \A i \in 1..last, v \in Nat : step[<<i, v>>] = v + ItemSize(items[i], v)
  BY <1>2
<1> HIDE DEF step
<1>5. PICK g \in [0..last -> Nat] : IsRun(g, step, base, last)
  BY <1>2, <1>3, RunExists
<1>6. ASSUME NEW i \in 0..last
      PROVE  g[i] = IF i = 0 THEN base ELSE g[i - 1] + ItemSize(items[i], g[i - 1])
  <2>1. g[i] = IF i = 0 THEN base ELSE step[<<i, g[i - 1]>>]
    BY <1>5 DEF IsRun
  <2>2. i # 0 => i \in 1..last /\ i - 1 \in 0..last
    BY <1>2
  <2>3. i # 0 => g[i - 1] \in Nat
    BY <2>2
  <2> QED
    BY <1>4, <2>1, <2>2, <2>3
<1>7. g = [i \in 0..last |-> g[i]]
  OBVIOUS
<1>8. IsSizes(g, items, base)
  BY <1>1, <1>6, <1>7 DEF IsSizes
<1> QED
  BY <1>1, <1>8

(* There is only one such function.                                        *)
LEMMA SizesAreUnique ==
    ASSUME NEW items, AllSized(items), NEW base, NEW g, IsSizes(g, items, base),
           NEW h, IsSizes(h, items, base)
    PROVE  g = h
<1>1. PICK last : last = Len(items)
  OBVIOUS
<1>2. last \in Nat
  BY <1>1 DEF AllSized
<1>3. g = [i \in 0..last |-> g[i]] /\ h = [i \in 0..last |-> h[i]]
  BY <1>1 DEF IsSizes
<1>4. \A i \in 0..last : i # 0 => /\ g[i] = g[i - 1] + ItemSize(items[i], g[i - 1])
                                  /\ h[i] = h[i - 1] + ItemSize(items[i], h[i - 1])
  BY <1>1 DEF IsSizes
<1>5. g[0] = base /\ h[0] = base
  BY <1>1, <1>2 DEF IsSizes
<1> DEFINE S == {n \in Nat : n \in 0..last => g[n] = h[n]}
<1>6. 0 \in S
  BY <1>5
<1>7. ASSUME NEW n \in Nat, n \in S PROVE n + 1 \in S
  <2>1. ASSUME n + 1 \in 0..last PROVE g[n + 1] = h[n + 1]
    <3>1. PICK m \in 0..last : m = n + 1
      BY <2>1
    <3>2. m # 0 /\ m - 1 = n /\ n \in 0..last
      BY <1>2, <3>1
    <3>3. g[n] = h[n]
      BY <1>7, <3>2
    <3> QED
      BY <1>4, <3>1, <3>2, <3>3
  <2> QED
    BY <2>1
<1> HIDE DEF S
<1>8. Nat \subseteq S
  BY <1>6, <1>7, InductionBySets
<1>9. \A i \in 0..last : g[i] = h[i]
  BY <1>8 DEF S
<1> QED
  BY <1>3, <1>9

(* So it is the one SizesOf chooses.                                       *)
LEMMA SizesOfItems ==
    ASSUME NEW items, AllSized(items), NEW base \in Nat
    PROVE  /\ IsSizes(SizesOf(items, base), items, base)
           /\ SizesOf(items, base) \in [0..Len(items) -> Nat]
           /\ \A g : IsSizes(g, items, base) => g = SizesOf(items, base)
<1>1. IsSizes(SizesOf(items, base), items, base)
  BY SizesExist DEF SizesOf
<1>2. \A g : IsSizes(g, items, base) => g = SizesOf(items, base)
  BY <1>1, SizesAreUnique
<1>3. PICK g \in [0..Len(items) -> Nat] : IsSizes(g, items, base)
  BY SizesExist
<1> QED
  BY <1>1, <1>2, <1>3

(* No item ends before it starts.                                          *)
LEMMA SizesGrow ==
    ASSUME NEW items, AllSized(items), NEW base \in Nat,
           NEW g, g = SizesOf(items, base)
    PROVE  \A i, j \in 0..Len(items) : i <= j => g[i] <= g[j]
<1>1. PICK last : last = Len(items)
  OBVIOUS
<1>2. last \in Nat /\ DOMAIN items = 1..last
  BY <1>1 DEF AllSized
<1>3. IsSizes(g, items, base) /\ g \in [0..last -> Nat]
  BY <1>1, SizesOfItems
<1> SUFFICES ASSUME NEW i \in 0..last PROVE \A j \in 0..last : i <= j => g[i] <= g[j]
  BY <1>1
<1> DEFINE S == {n \in Nat : n \in 0..last /\ i <= n => g[i] <= g[n]}
<1>4. 0 \in S
  BY <1>2, <1>3
<1>5. ASSUME NEW n \in Nat, n \in S PROVE n + 1 \in S
  <2>1. ASSUME n + 1 \in 0..last, i <= n + 1 PROVE g[i] <= g[n + 1]
    <3>1. PICK m \in 0..last : m = n + 1
      BY <2>1
    <3>2. m # 0 /\ m - 1 = n /\ n \in 0..last /\ m \in 1..last
      BY <1>2, <3>1
    <3>3. g[m] = g[n] + ItemSize(items[m], g[n])
      BY <1>1, <1>3, <3>2 DEF IsSizes
    <3>4. g[n] \in Nat /\ g[m] \in Nat /\ g[i] \in Nat
      BY <1>3, <3>2
    <3>5. ItemSize(items[m], g[n]) \in Nat
      BY <1>2, <3>2, <3>4, SizesType DEF AllSized
    <3>6. CASE i <= n
      BY <1>5, <3>1, <3>2, <3>3, <3>4, <3>5, <3>6
    <3>7. CASE i = n + 1
      BY <3>1, <3>4, <3>7
    <3> QED
      BY <2>1, <3>6, <3>7
  <2> QED
    BY <2>1
<1> HIDE DEF S
<1>6. Nat \subseteq S
  BY <1>4, <1>5, InductionBySets
<1> QED
  BY <1>6 DEF S

(* What the first fragments hold stays where it is when more come.         *)
LEMMA ItemsStay ==
    ASSUME NEW s \in SectionType, NEW f \in 0..Len(s.frags)
    PROVE  \A n \in f..Len(s.frags) :
               /\ Len(ItemsUpTo(s, f)) <= Len(ItemsUpTo(s, n))
               /\ \A i \in 1..Len(ItemsUpTo(s, f)) : ItemsUpTo(s, n)[i] = ItemsUpTo(s, f)[i]
<1> DEFINE last == Len(s.frags)
           Same(n) == /\ Len(ItemsUpTo(s, f)) <= Len(ItemsUpTo(s, n))
                      /\ \A i \in 1..Len(ItemsUpTo(s, f)) : ItemsUpTo(s, n)[i] = ItemsUpTo(s, f)[i]
           S == {n \in Nat : n \in f..last => Same(n)}
<1>1. last \in Nat /\ f \in 0..last
  BY EventsType
<1>2. \A n \in 0..last : ItemsUpTo(s, n) \in Seq(Item) /\ Len(ItemsUpTo(s, n)) \in Nat
  BY ItemsType
<1>3. Same(f)
  BY <1>1, <1>2
<1>4. 0 \in S
  BY <1>1, <1>3
<1>5. ASSUME NEW n \in Nat, n \in S PROVE n + 1 \in S
  <2>1. ASSUME n + 1 \in f..last PROVE Same(n + 1)
    <3>1. CASE n + 1 = f
      BY <1>3, <3>1
    <3>2. CASE n + 1 # f
      <4>1. n \in f..last /\ n \in 0..last /\ n + 1 \in 0..last /\ n + 1 \in 1..last
        BY <1>1, <2>1, <3>2
      <4>2. Same(n)
        BY <1>5, <4>1
      <4>3. PICK before : before = ItemsUpTo(s, n)
        OBVIOUS
      <4>4. PICK more : more = s.frags[n + 1]
        OBVIOUS
      <4>5. PICK after : after = ItemsUpTo(s, n + 1)
        OBVIOUS
      <4>6. before \in Seq(Item) /\ more \in Seq(Item) /\ after = before \o more
        BY <1>2, <4>1, <4>3, <4>4, <4>5, ItemsUnfold, EventsType
      <4>7. Len(before) <= Len(after) /\ \A i \in 1..Len(before) : after[i] = before[i]
        BY <4>6
      <4>8. PICK first : first = ItemsUpTo(s, f)
        OBVIOUS
      <4>9. Len(first) \in Nat /\ Len(before) \in Nat /\ Len(after) \in Nat
        BY <1>1, <1>2, <4>1, <4>3, <4>5, <4>8
      <4>10. Len(first) <= Len(before) /\ \A i \in 1..Len(first) : before[i] = first[i]
        BY <4>2, <4>3, <4>8
      <4>11. Len(first) <= Len(after) /\ \A i \in 1..Len(first) : after[i] = first[i]
        BY <4>7, <4>9, <4>10
      <4> QED
        BY <4>5, <4>8, <4>11
    <3> QED
      BY <3>1, <3>2
  <2> QED
    BY <2>1
<1> HIDE DEF S
<1>6. Nat \subseteq S
  BY <1>4, <1>5, InductionBySets
<1>7. ASSUME NEW n \in f..last PROVE Same(n)
  <2>1. n \in Nat
    BY <1>1
  <2> QED
    BY <1>6, <2>1 DEF S
<1> QED
  BY <1>7

(* Every item of a section is one of a fragment, and follows those of the  *)
(* fragments before.                                                       *)
LEMMA ItemsOfFragments ==
    ASSUME NEW s \in SectionType
    PROVE  /\ \A f \in 1..Len(s.frags) :
                 /\ Len(ItemsUpTo(s, f)) = Len(ItemsUpTo(s, f - 1)) + Len(s.frags[f])
                 /\ Len(s.frags[f]) \in Nat /\ Len(ItemsUpTo(s, f - 1)) \in Nat
                 /\ Len(ItemsUpTo(s, f)) <= Len(Contents(s))
                 /\ \A k \in 1..Len(s.frags[f]) :
                       Contents(s)[Len(ItemsUpTo(s, f - 1)) + k] = s.frags[f][k]
           /\ \A i \in 1..Len(Contents(s)) :
                 \E f \in 1..Len(s.frags) : \E k \in 1..Len(s.frags[f]) :
                     i = Len(ItemsUpTo(s, f - 1)) + k
<1> DEFINE last == Len(s.frags)
           Place(i, n) == \E f \in 1..n : \E k \in 1..Len(s.frags[f]) :
                              i = Len(ItemsUpTo(s, f - 1)) + k
           S == {n \in Nat : n \in 0..last => \A i \in 1..Len(ItemsUpTo(s, n)) : Place(i, n)}
<1>1. last \in Nat /\ \A f \in 1..last : s.frags[f] \in Seq(Item)
  BY EventsType
<1>2. \A n \in 0..last : ItemsUpTo(s, n) \in Seq(Item) /\ Len(ItemsUpTo(s, n)) \in Nat
  BY ItemsType
<1>3. ASSUME NEW f \in 1..last
      PROVE  /\ Len(ItemsUpTo(s, f)) = Len(ItemsUpTo(s, f - 1)) + Len(s.frags[f])
             /\ Len(s.frags[f]) \in Nat /\ Len(ItemsUpTo(s, f - 1)) \in Nat
             /\ Len(ItemsUpTo(s, f)) <= Len(Contents(s))
             /\ \A k \in 1..Len(s.frags[f]) :
                   Contents(s)[Len(ItemsUpTo(s, f - 1)) + k] = s.frags[f][k]
  <2>1. PICK before : before = ItemsUpTo(s, f - 1)
    OBVIOUS
  <2>2. PICK more : more = s.frags[f]
    OBVIOUS
  <2>3. PICK after : after = ItemsUpTo(s, f)
    OBVIOUS
  <2>4. f - 1 \in Nat /\ f - 1 \in 0..last /\ f \in 0..last /\ last \in f..last /\ f - 1 + 1 = f
    BY <1>1, <1>3
  <2>5. before \in Seq(Item) /\ more \in Seq(Item) /\ after = before \o more
    BY <1>1, <1>2, <1>3, <2>1, <2>2, <2>3, <2>4, ItemsUnfold
  <2>6. /\ Len(after) = Len(before) + Len(more) /\ Len(before) \in Nat /\ Len(more) \in Nat
        /\ \A k \in 1..Len(more) : after[Len(before) + k] = more[k]
    BY <2>5
  <2>7. Len(after) <= Len(Contents(s)) /\ \A i \in 1..Len(after) : Contents(s)[i] = after[i]
    BY <2>3, <2>4, ItemsStay DEF Contents
  <2>8. ASSUME NEW k \in 1..Len(more) PROVE Contents(s)[Len(before) + k] = more[k]
    <3>1. Len(before) + k \in 1..Len(after)
      BY <2>6
    <3> QED
      BY <2>6, <2>7, <3>1
  <2> QED
    BY <2>1, <2>2, <2>3, <2>6, <2>7, <2>8
<1>4. 0 \in S
  <2>1. ItemsUpTo(s, 0) = <<>>
    BY ItemsUnfold
  <2> QED
    BY <2>1
<1>5. ASSUME NEW n \in Nat, n \in S PROVE n + 1 \in S
  <2>1. ASSUME n + 1 \in 0..last, NEW i \in 1..Len(ItemsUpTo(s, n + 1)) PROVE Place(i, n + 1)
    <3>1. n \in 0..last /\ n + 1 \in 1..last /\ n + 1 - 1 = n
      BY <1>1, <2>1
    <3>2. /\ Len(ItemsUpTo(s, n + 1)) = Len(ItemsUpTo(s, n)) + Len(s.frags[n + 1])
          /\ Len(s.frags[n + 1]) \in Nat /\ Len(ItemsUpTo(s, n)) \in Nat
      <4>1. PICK f \in 1..last : f = n + 1
        BY <3>1
      <4>2. f - 1 = n
        BY <3>1, <4>1
      <4> QED
        BY <1>3, <4>1, <4>2
    <3>3. CASE i <= Len(ItemsUpTo(s, n))
      <4>1. i \in 1..Len(ItemsUpTo(s, n))
        BY <3>2, <3>3
      <4>2. PICK f \in 1..n : \E k \in 1..Len(s.frags[f]) : i = Len(ItemsUpTo(s, f - 1)) + k
        BY <1>5, <3>1, <4>1
      <4>3. f \in 1..n + 1
        OBVIOUS
      <4> QED
        BY <4>2, <4>3
    <3>4. CASE i > Len(ItemsUpTo(s, n))
      <4>1. PICK k : k = i - Len(ItemsUpTo(s, n))
        OBVIOUS
      <4>2. k \in 1..Len(s.frags[n + 1]) /\ i = Len(ItemsUpTo(s, n)) + k
        BY <3>2, <3>4, <4>1
      <4>3. n + 1 \in 1..n + 1
        OBVIOUS
      <4> QED
        BY <3>1, <4>2, <4>3
    <3> QED
      BY <3>2, <3>3, <3>4
  <2>2. n + 1 \in Nat
    OBVIOUS
  <2> HIDE DEF Place
  <2> QED
    BY <2>1, <2>2
<1> HIDE DEF S
<1>6. Nat \subseteq S
  BY <1>4, <1>5, InductionBySets
<1>7. \A i \in 1..Len(Contents(s)) : Place(i, last)
  <2>1. last \in 0..last /\ last \in S
    BY <1>1, <1>6
  <2> QED
    BY <2>1 DEF S, Contents
<1> QED
  BY <1>3, <1>7

(* The offsets of the fragments.                                           *)
IsEnds(h, s) ==
    h = [f \in 0..Len(s.frags) |->
            IF f = 0 THEN 0 ELSE SizesOf(s.frags[f], h[f - 1])[Len(s.frags[f])]]

(* FragOffsets goes over the fragments, and in each over its items.        *)
LEMMA OffsetsAreEnds == \A s : FragOffsets(s) = CHOOSE h : IsEnds(h, s)
BY DEF FragOffsets, IsEnds, SizesOf, IsSizes

(* A fragment starts where the items before it end.                        *)
LEMMA OffsetsOfItems ==
    ASSUME NEW s \in SectionType, AllSized(Contents(s)),
           NEW at, at = SizesOf(Contents(s), 0)
    PROVE  FragOffsets(s) = [f \in 0..Len(s.frags) |-> at[Len(ItemsUpTo(s, f))]]
<1>1. PICK last : last = Len(s.frags)
  OBVIOUS
<1>2. last \in Nat /\ \A f \in 1..last : s.frags[f] \in Seq(Item)
  BY <1>1, EventsType
<1>3. PICK items : items = Contents(s)
  OBVIOUS
<1>4. AllSized(items) /\ Len(items) \in Nat
  BY <1>3 DEF AllSized
<1>5. IsSizes(at, items, 0) /\ at \in [0..Len(items) -> Nat]
  BY <1>3, <1>4, SizesOfItems
<1>6. \A i \in 0..Len(items) : i # 0 => at[i] = at[i - 1] + ItemSize(items[i], at[i - 1])
  BY <1>5 DEF IsSizes
<1>7. PICK h : h = [f \in 0..last |-> at[Len(ItemsUpTo(s, f))]]
  OBVIOUS
<1>8. h[0] = 0
  <2>1. Len(ItemsUpTo(s, 0)) = 0
    BY ItemsUnfold
  <2>2. at[0] = 0
    BY <1>4, <1>5 DEF IsSizes
  <2> QED
    BY <1>2, <1>7, <2>1, <2>2
<1>9. ASSUME NEW f \in 1..last PROVE h[f] = SizesOf(s.frags[f], h[f - 1])[Len(s.frags[f])]
  <2>1. PICK own : own = s.frags[f]
    OBVIOUS
  <2>2. PICK before : before = Len(ItemsUpTo(s, f - 1))
    OBVIOUS
  <2>3. /\ Len(ItemsUpTo(s, f)) = before + Len(own) /\ Len(own) \in Nat /\ before \in Nat
        /\ before + Len(own) <= Len(items)
        /\ \A k \in 1..Len(own) : items[before + k] = own[k]
    BY <1>1, <1>3, <2>1, <2>2, ItemsOfFragments
  <2>4. own \in Seq(Item) /\ DOMAIN own = 1..Len(own)
    BY <1>2, <2>1
  <2>5. AllSized(own)
    <3>1. ASSUME NEW k \in 1..Len(own) PROVE Sized(own[k])
      <4>1. before + k \in DOMAIN items
        BY <1>4, <2>3 DEF AllSized
      <4> QED
        BY <1>4, <2>3, <4>1 DEF AllSized
    <3> QED
      BY <2>4, <3>1 DEF AllSized
  <2>6. h[f - 1] = at[before] /\ h[f] = at[before + Len(own)]
    <3>1. f - 1 \in 0..last /\ f \in 0..last
      BY <1>2
    <3> QED
      BY <1>7, <2>2, <2>3, <3>1
  <2>7. at[before] \in Nat
    BY <1>4, <1>5, <2>3
  <2> DEFINE g == [k \in 0..Len(own) |-> at[before + k]]
  <2>8. ASSUME NEW k \in 0..Len(own)
        PROVE  g[k] = IF k = 0 THEN at[before] ELSE g[k - 1] + ItemSize(own[k], g[k - 1])
    <3>1. CASE k = 0
      BY <2>3, <3>1
    <3>2. CASE k # 0
      <4>1. /\ k - 1 \in 0..Len(own) /\ k \in 1..Len(own)
            /\ before + k \in 0..Len(items) /\ before + k # 0
            /\ before + k - 1 = before + (k - 1)
        BY <1>4, <2>3, <3>2
      <4>2. at[before + k] = at[before + (k - 1)]
                                + ItemSize(items[before + k], at[before + (k - 1)])
        <5>1. PICK i \in 0..Len(items) : i = before + k
          BY <4>1
        <5>2. PICK j : j = i - 1
          OBVIOUS
        <5>3. at[i] = at[j] + ItemSize(items[i], at[j])
          BY <1>6, <4>1, <5>1, <5>2
        <5>4. j = before + (k - 1)
          BY <2>3, <4>1, <5>1, <5>2
        <5> QED
          BY Zenon, <5>1, <5>3, <5>4
      <4>3. g[k] = at[before + k] /\ g[k - 1] = at[before + (k - 1)]
        BY <4>1
      <4> HIDE DEF g
      <4> QED
        BY <2>3, <3>2, <4>1, <4>2, <4>3
    <3> QED
      BY <3>1, <3>2
  <2>9. g = [k \in 0..Len(own) |-> g[k]]
    OBVIOUS
  <2>10. Len(own) \in 0..Len(own) /\ g[Len(own)] = at[before + Len(own)]
    BY <2>3
  <2> HIDE DEF g
  <2>11. IsSizes(g, own, at[before])
    BY <2>8, <2>9 DEF IsSizes
  <2>12. g = SizesOf(own, at[before])
    BY <2>5, <2>7, <2>11, SizesOfItems
  <2> QED
    BY <2>1, <2>6, <2>10, <2>12
<1>10. IsEnds(h, s)
  <2>1. h = [f \in 0..last |-> h[f]]
    BY <1>7
  <2>2. \A f \in 0..last : h[f] = IF f = 0 THEN 0
                                  ELSE SizesOf(s.frags[f], h[f - 1])[Len(s.frags[f])]
    BY <1>2, <1>8, <1>9
  <2> QED
    BY <1>1, <2>1, <2>2 DEF IsEnds
<1>11. ASSUME NEW e, IsEnds(e, s) PROVE e = h
  <2>1. e = [f \in 0..last |-> e[f]]
    BY <1>1, <1>11 DEF IsEnds
  <2>2. e[0] = 0 /\ \A f \in 1..last : e[f] = SizesOf(s.frags[f], e[f - 1])[Len(s.frags[f])]
    <3>1. \A f \in 0..last : e[f] = IF f = 0 THEN 0
                                    ELSE SizesOf(s.frags[f], e[f - 1])[Len(s.frags[f])]
      BY <1>1, <1>11 DEF IsEnds
    <3>2. 0 \in 0..last /\ \A f \in 1..last : f \in 0..last /\ f # 0
      BY <1>2
    <3> QED
      BY <3>1, <3>2
  <2> DEFINE S == {n \in Nat : n \in 0..last => e[n] = h[n]}
  <2>3. 0 \in S
    BY <1>8, <2>2
  <2>4. ASSUME NEW n \in Nat, n \in S PROVE n + 1 \in S
    <3>1. ASSUME n + 1 \in 0..last PROVE e[n + 1] = h[n + 1]
      <4>1. PICK m \in 1..last : m = n + 1
        BY <1>2, <3>1
      <4>2. m - 1 = n /\ n \in 0..last
        BY <1>2, <4>1
      <4>3. e[n] = h[n]
        BY <2>4, <4>2
      <4>4. e[m] = SizesOf(s.frags[m], e[m - 1])[Len(s.frags[m])]
        BY <2>2
      <4>5. h[m] = SizesOf(s.frags[m], h[m - 1])[Len(s.frags[m])]
        BY <1>9
      <4> QED
        BY <4>1, <4>2, <4>3, <4>4, <4>5
    <3> QED
      BY <3>1
  <2> HIDE DEF S
  <2>5. Nat \subseteq S
    BY <2>3, <2>4, InductionBySets
  <2>6. \A f \in 0..last : e[f] = h[f]
    BY <2>5 DEF S
  <2> QED
    BY <1>7, <2>1, <2>6
<1>12. FragOffsets(s) = h
  <2>1. IsEnds(CHOOSE e : IsEnds(e, s), s)
    BY <1>10
  <2> QED
    BY <1>11, <2>1, OffsetsAreEnds
<1> QED
  BY <1>1, <1>7, <1>12

-----------------------------------------------------------------------------
(* Symbols.  The ones an event is placed as lie between the start of its   *)
(* fragment and that of the next.                                          *)
Event == [frag : Nat, name : Marks, odd : BOOLEAN]
Symbol == [at : Nat, name : Marks]

Offsets(start, last) ==
    /\ last \in Nat /\ start \in [0..last -> Nat]
    /\ \A i, j \in 0..last : i <= j => start[i] <= start[j]

(* The bytes of padding that are too few for a no-op.                      *)
OddOf(e, start) ==
    IF e.frag + 1 \in DOMAIN start
      THEN (start[e.frag + 1] - start[e.frag]) % CodeUnit(e.name) ELSE 0

(* The symbols of an event, written out.                                   *)
LEMMA PlacedEvent ==
    ASSUME NEW start, NEW last, Offsets(start, last), NEW e \in Event, e.frag <= last
    PROVE  /\ OddOf(e, start) \in Nat /\ start[e.frag] \in Nat
           /\ e.frag + 1 <= last => start[e.frag] + OddOf(e, start) <= start[e.frag + 1]
           /\ e.frag = last => OddOf(e, start) = 0
           /\ PlaceEvent(e, start) \in Seq(Symbol)
           /\ ~e.odd => PlaceEvent(e, start) = <<[at |-> start[e.frag], name |-> e.name]>>
           /\ e.odd /\ OddOf(e, start) = 0 => PlaceEvent(e, start) = <<>>
           /\ e.odd /\ OddOf(e, start) # 0 =>
                 PlaceEvent(e, start) =
                     <<[at |-> start[e.frag], name |-> Data],
                       [at |-> start[e.frag] + OddOf(e, start), name |-> e.name]>>
<1>1. /\ e.frag \in Nat /\ e.name \in Marks /\ e.odd \in BOOLEAN /\ Data \in Marks
  BY DEF Event, Marks
<1>2. last \in Nat /\ DOMAIN start = 0..last /\ e.frag \in 0..last /\ start[e.frag] \in Nat
  BY <1>1 DEF Offsets
<1>3. e.frag + 1 \in 0..last <=> e.frag + 1 <= last
  BY <1>1, <1>2
<1>4. ASSUME e.frag + 1 <= last
      PROVE  /\ OddOf(e, start) \in Nat
             /\ start[e.frag] + OddOf(e, start) <= start[e.frag + 1]
  <2>1. start[e.frag + 1] \in Nat /\ start[e.frag] <= start[e.frag + 1]
    BY <1>1, <1>2, <1>3, <1>4 DEF Offsets
  <2>2. PICK pad : pad = start[e.frag + 1] - start[e.frag]
    OBVIOUS
  <2>3. pad \in Nat
    BY <1>2, <2>1, <2>2
  <2>4. pad % 2 \in Nat /\ pad % 2 <= pad /\ pad % 4 \in Nat /\ pad % 4 <= pad
    BY <2>3
  <2>5. OddOf(e, start) = pad % 2 \/ OddOf(e, start) = pad % 4
    BY <1>2, <1>3, <1>4, <2>2 DEF OddOf, CodeUnit
  <2>6. OddOf(e, start) \in Nat /\ OddOf(e, start) <= pad
    BY <2>4, <2>5
  <2> QED
    BY <1>2, <2>1, <2>2, <2>3, <2>6
<1>5. ASSUME ~(e.frag + 1 <= last) PROVE OddOf(e, start) = 0
  BY <1>1, <1>2, <1>3, <1>5 DEF OddOf
<1>6. OddOf(e, start) \in Nat
  BY <1>4, <1>5
<1>7. e.frag = last => OddOf(e, start) = 0
  BY <1>1, <1>2, <1>3 DEF OddOf
<1>8. e.frag + 1 <= last => start[e.frag] + OddOf(e, start) <= start[e.frag + 1]
  BY <1>4
<1>9. ~e.odd => PlaceEvent(e, start) = <<[at |-> start[e.frag], name |-> e.name]>>
  BY DEF PlaceEvent
<1>10. e.odd /\ OddOf(e, start) = 0 => PlaceEvent(e, start) = <<>>
  BY <1>1, <1>2 DEF PlaceEvent, OddOf, CodeUnit
<1>11. e.odd /\ OddOf(e, start) # 0 =>
           PlaceEvent(e, start) =
               <<[at |-> start[e.frag], name |-> Data],
                 [at |-> start[e.frag] + OddOf(e, start), name |-> e.name]>>
  BY <1>1, <1>2 DEF PlaceEvent, OddOf, CodeUnit
<1>12. PlaceEvent(e, start) \in Seq(Symbol)
  <2>1. [at |-> start[e.frag], name |-> e.name] \in Symbol
        /\ [at |-> start[e.frag], name |-> Data] \in Symbol
        /\ [at |-> start[e.frag] + OddOf(e, start), name |-> e.name] \in Symbol
    BY <1>1, <1>2, <1>6 DEF Symbol
  <2>2. \A x, y \in Symbol : <<x>> \in Seq(Symbol) /\ <<x, y>> \in Seq(Symbol)
    OBVIOUS
  <2>3. <<>> \in Seq(Symbol)
    OBVIOUS
  <2>4. CASE ~e.odd
    BY <1>9, <2>1, <2>2, <2>4
  <2>5. CASE e.odd /\ OddOf(e, start) = 0
    BY <1>10, <2>3, <2>5
  <2>6. CASE e.odd /\ OddOf(e, start) # 0
    BY <1>11, <2>1, <2>2, <2>6
  <2> QED
    BY <1>1, <2>4, <2>5, <2>6
<1> QED
  BY <1>2, <1>6, <1>7, <1>8, <1>9, <1>10, <1>11, <1>12

(* Symbols by offset.                                                      *)
InOrder(all) == \A q, r \in DOMAIN all : q <= r => all[q].at <= all[r].at

(* They lie in order, between the starts of two fragments.                 *)
LEMMA PlacedBetween ==
    ASSUME NEW start, NEW last, Offsets(start, last), NEW e \in Event, e.frag <= last,
           NEW new, new = PlaceEvent(e, start)
    PROVE  /\ InOrder(new)
           /\ \A r \in DOMAIN new :
                 /\ new[r].at \in Nat /\ start[e.frag] <= new[r].at
                 /\ ~e.odd => new[r].at = start[e.frag]
                 /\ e.odd => e.frag + 1 <= last /\ new[r].at <= start[e.frag + 1]
<1>1. e.frag \in Nat /\ e.odd \in BOOLEAN /\ last \in Nat /\ OddOf(e, start) \in Nat /\ start[e.frag] \in Nat
  BY PlacedEvent DEF Event, Offsets
<1>2. CASE ~e.odd
  <2>1. new = <<[at |-> start[e.frag], name |-> e.name]>>
    BY <1>2, PlacedEvent
  <2>2. DOMAIN new = 1..1 /\ new[1].at = start[e.frag]
    BY <2>1
  <2> QED
    BY <1>1, <1>2, <2>2 DEF InOrder
<1>3. CASE e.odd /\ OddOf(e, start) = 0
  <2>1. new = <<>>
    BY <1>3, PlacedEvent
  <2>2. DOMAIN new = {}
    BY <2>1
  <2> QED
    BY <2>2 DEF InOrder
<1>4. CASE e.odd /\ OddOf(e, start) # 0
  <2>1. new = <<[at |-> start[e.frag], name |-> Data],
                [at |-> start[e.frag] + OddOf(e, start), name |-> e.name]>>
    BY <1>4, PlacedEvent
  <2>2. DOMAIN new = 1..2 /\ new[1].at = start[e.frag] /\ new[2].at = start[e.frag] + OddOf(e, start)
    BY <2>1
  <2>3. e.frag # last
    BY <1>4, PlacedEvent
  <2>4. e.frag + 1 <= last
    BY <1>1, <2>3
  <2>5. start[e.frag] + OddOf(e, start) <= start[e.frag + 1] /\ start[e.frag + 1] \in Nat
    <3>1. e.frag + 1 \in 0..last
      BY <1>1, <2>4
    <3> QED
      BY <2>4, <3>1, PlacedEvent DEF Offsets
  <2>6. \A r \in DOMAIN new : r = 1 \/ r = 2
    BY <2>2
  <2> HIDE DEF InOrder
  <2>7. InOrder(new)
    BY <1>1, <2>2, <2>6 DEF InOrder
  <2> QED
    BY <1>1, <1>4, <2>2, <2>4, <2>5, <2>6, <2>7
<1> QED
  BY <1>1, <1>2, <1>3, <1>4

(* Events as statements leave them.                                        *)
EventsOf(events, last) ==
    /\ events \in Seq(Event)
    /\ \A i \in DOMAIN events : events[i].frag <= last
    /\ \A i, j \in DOMAIN events :
          i < j => /\ events[i].frag <= events[j].frag
                   /\ events[i].odd => events[i].frag < events[j].frag

IsPlaced(g, events, start) ==
    g = [i \in 0..Len(events) |-> IF i = 0 THEN <<>> ELSE g[i - 1] \o PlaceEvent(events[i], start)]

PlacedOf(events, start) == CHOOSE g : IsPlaced(g, events, start)

(* The symbols placed are those of one event after the other.              *)
LEMMA PlacedUnfolds ==
    ASSUME NEW start, NEW last, Offsets(start, last), NEW events, EventsOf(events, last),
           NEW g, g = PlacedOf(events, start)
    PROVE  /\ g[0] = <<>>
           /\ \A i \in 0..Len(events) : g[i] \in Seq(Symbol)
           /\ \A i \in 1..Len(events) :
                 /\ g[i] = g[i - 1] \o PlaceEvent(events[i], start)
                 /\ PlaceEvent(events[i], start) \in Seq(Symbol)
<1>1. PICK count : count = Len(events)
  OBVIOUS
<1>2. /\ count \in Nat /\ DOMAIN events = 1..count
      /\ \A i \in 1..count : events[i] \in Event /\ events[i].frag <= last
  BY <1>1 DEF EventsOf
<1>3. \A i \in 1..count : PlaceEvent(events[i], start) \in Seq(Symbol)
  BY <1>2, PlacedEvent
<1> DEFINE step == [p \in Nat \X Seq(Symbol) |->
              IF p[1] \in 1..count THEN p[2] \o PlaceEvent(events[p[1]], start) ELSE p[2]]
<1>4. step \in [Nat \X Seq(Symbol) -> Seq(Symbol)]
  <2> SUFFICES ASSUME NEW p \in Nat \X Seq(Symbol)
               PROVE  (IF p[1] \in 1..count THEN p[2] \o PlaceEvent(events[p[1]], start) ELSE p[2])
                          \in Seq(Symbol)
    OBVIOUS
  <2>1. CASE p[1] \in 1..count
    <3>1. PlaceEvent(events[p[1]], start) \in Seq(Symbol) /\ p[2] \in Seq(Symbol)
      BY <1>3, <2>1
    <3> QED
      BY <2>1, <3>1
  <2> QED
    BY <2>1
<1>5. ASSUME NEW i \in 1..count, NEW v \in Seq(Symbol)
      PROVE  step[<<i, v>>] = v \o PlaceEvent(events[i], start)
  <2>0. i \in Nat /\ <<i, v>> \in Nat \X Seq(Symbol)
    OBVIOUS
  <2>1. PICK p \in Nat \X Seq(Symbol) : p = <<i, v>>
    BY Zenon, <2>0
  <2>2. step[p] = p[2] \o PlaceEvent(events[p[1]], start)
    BY <2>1
  <2> QED
    BY <2>1, <2>2
<1>6. <<>> \in Seq(Symbol)
  OBVIOUS
<1> HIDE DEF step
<1>7. PICK h \in [0..count -> Seq(Symbol)] : IsRun(h, step, <<>>, count)
  BY <1>2, <1>4, <1>6, RunExists
<1>8. ASSUME NEW i \in 0..count
      PROVE  h[i] = IF i = 0 THEN <<>> ELSE h[i - 1] \o PlaceEvent(events[i], start)
  <2>1. h[i] = IF i = 0 THEN <<>> ELSE step[<<i, h[i - 1]>>]
    BY <1>7 DEF IsRun
  <2>2. i # 0 => i \in 1..count /\ i - 1 \in 0..count
    BY <1>2
  <2>3. i # 0 => h[i - 1] \in Seq(Symbol)
    BY <2>2
  <2> QED
    BY <1>5, <2>1, <2>2, <2>3
<1>9. h = [i \in 0..count |-> h[i]]
  OBVIOUS
<1>10. IsPlaced(h, events, start)
  BY <1>1, <1>8, <1>9 DEF IsPlaced
<1>11. IsPlaced(g, events, start)
  BY <1>10 DEF PlacedOf
<1>12. \A i \in 0..count : g[i] = IF i = 0 THEN <<>> ELSE g[i - 1] \o PlaceEvent(events[i], start)
  BY <1>1, <1>11 DEF IsPlaced
<1>13. g[0] = <<>> /\ \A i \in 1..count : g[i] = g[i - 1] \o PlaceEvent(events[i], start)
  <2>1. 0 \in 0..count /\ \A i \in 1..count : i \in 0..count /\ i # 0
    BY <1>2
  <2> QED
    BY <1>12, <2>1
<1> DEFINE S == {n \in Nat : n \in 0..count => g[n] \in Seq(Symbol)}
<1>14. 0 \in S
  BY <1>6, <1>13
<1>15. ASSUME NEW n \in Nat, n \in S PROVE n + 1 \in S
  <2>1. ASSUME n + 1 \in 0..count PROVE g[n + 1] \in Seq(Symbol)
    <3>1. PICK m \in 1..count : m = n + 1
      BY <2>1
    <3>2. m - 1 = n /\ n \in 0..count
      BY <1>2, <3>1
    <3>3. g[n] \in Seq(Symbol) /\ PlaceEvent(events[m], start) \in Seq(Symbol)
      BY <1>3, <1>15, <3>2
    <3>4. g[m] = g[n] \o PlaceEvent(events[m], start)
      BY <1>13, <3>2
    <3> QED
      BY <3>1, <3>3, <3>4
  <2> QED
    BY <2>1
<1> HIDE DEF S
<1>16. Nat \subseteq S
  BY <1>14, <1>15, InductionBySets
<1>17. \A i \in 0..count : g[i] \in Seq(Symbol)
  BY <1>16 DEF S
<1> QED
  BY <1>1, <1>3, <1>13, <1>17

(* What two sequences of symbols hold one after the other.                 *)
LEMMA SymbolsAppended ==
    ASSUME NEW old \in Seq(Symbol), NEW new \in Seq(Symbol)
    PROVE  /\ Len(old) \in Nat /\ Len(new) \in Nat
           /\ DOMAIN old = 1..Len(old) /\ DOMAIN new = 1..Len(new)
           /\ old \o new \in Seq(Symbol)
           /\ DOMAIN (old \o new) = 1..Len(old) + Len(new)
           /\ \A r \in 1..Len(old) : (old \o new)[r] = old[r] /\ old[r] \in Symbol
           /\ \A r \in 1..Len(new) : (old \o new)[Len(old) + r] = new[r] /\ new[r] \in Symbol
           /\ \A r \in 1..Len(old) + Len(new) :
                 r \in 1..Len(old) \/ \E q \in 1..Len(new) : r = Len(old) + q
<1>1. Len(old) \in Nat /\ Len(new) \in Nat
  OBVIOUS
<1>2. ASSUME NEW r \in 1..Len(old) + Len(new), r \notin 1..Len(old)
      PROVE  \E q \in 1..Len(new) : r = Len(old) + q
  <2>1. PICK q : q = r - Len(old)
    OBVIOUS
  <2>2. q \in 1..Len(new) /\ r = Len(old) + q
    BY <1>1, <1>2, <2>1
  <2> QED
    BY <2>2
<1> QED
  BY <1>2

(* All the symbols placed lie in order.                                    *)
LEMMA PlacedInOrder ==
    ASSUME NEW start, NEW last, Offsets(start, last), NEW events, EventsOf(events, last),
           NEW g, g = PlacedOf(events, start)
    PROVE  InOrder(g[Len(events)])
<1>1. PICK count : count = Len(events)
  OBVIOUS
<1>2. /\ count \in Nat /\ DOMAIN events = 1..count /\ last \in Nat
      /\ \A i \in 1..count : events[i] \in Event /\ events[i].frag <= last /\ events[i].frag \in Nat
  <2>1. events \in Seq(Event) /\ last \in Nat /\ \A i \in DOMAIN events : events[i].frag <= last
    BY DEF EventsOf, Offsets
  <2>2. \A e \in Event : e.frag \in Nat
    BY DEF Event
  <2>3. count \in Nat /\ DOMAIN events = 1..count /\ \A i \in 1..count : events[i] \in Event
    BY <1>1, <2>1
  <2> QED
    BY <2>1, <2>2, <2>3
<1>3. /\ g[0] = <<>> /\ \A i \in 0..count : g[i] \in Seq(Symbol)
      /\ \A i \in 1..count : /\ g[i] = g[i - 1] \o PlaceEvent(events[i], start)
                             /\ PlaceEvent(events[i], start) \in Seq(Symbol)
  BY <1>1, PlacedUnfolds
<1> DEFINE Before(n) == \A r \in DOMAIN g[n] : \A j \in n + 1..count :
                            g[n][r].at <= start[events[j].frag]
           S == {n \in Nat : n \in 0..count => InOrder(g[n]) /\ Before(n)}
<1>4. 0 \in S
  <2>1. DOMAIN g[0] = {}
    BY <1>3
  <2> QED
    BY <2>1 DEF InOrder
<1>5. ASSUME NEW n \in Nat, n \in S PROVE n + 1 \in S
  <2>1. ASSUME n + 1 \in 0..count PROVE InOrder(g[n + 1]) /\ Before(n + 1)
    <3>1. PICK m \in 1..count : m = n + 1
      BY <2>1
    <3>2. m - 1 = n /\ n \in 0..count
      BY <1>2, <3>1
    <3>3. PICK old \in Seq(Symbol) : old = g[n]
      BY <1>3, <3>2
    <3>4. PICK new \in Seq(Symbol) : new = PlaceEvent(events[m], start)
      BY <1>3
    <3>5. PICK after : after = g[m]
      OBVIOUS
    <3>6. after = old \o new
      BY <1>3, <3>2, <3>3, <3>4, <3>5
    <3>7. /\ Len(old) \in Nat /\ Len(new) \in Nat
          /\ DOMAIN old = 1..Len(old) /\ DOMAIN new = 1..Len(new)
          /\ DOMAIN after = 1..Len(old) + Len(new)
          /\ \A r \in 1..Len(old) : after[r] = old[r] /\ old[r] \in Symbol
          /\ \A r \in 1..Len(new) : after[Len(old) + r] = new[r] /\ new[r] \in Symbol
          /\ \A r \in DOMAIN after : r \in 1..Len(old) \/ \E q \in 1..Len(new) : r = Len(old) + q
      BY <3>6, SymbolsAppended
    <3>8. InOrder(old) /\ \A r \in 1..Len(old) : old[r].at <= start[events[m].frag]
      <4>1. InOrder(g[n]) /\ Before(n) /\ m \in n + 1..count
        BY <1>5, <3>1, <3>2
      <4> QED
        BY <3>3, <3>7, <4>1
    <3>9. PICK e \in Event : e = events[m]
      BY <1>2
    <3>10. e.frag \in 0..last /\ start[e.frag] \in Nat
      BY <1>2, <3>9 DEF Offsets
    <3>11. /\ InOrder(new)
           /\ \A r \in 1..Len(new) :
                 /\ new[r].at \in Nat /\ start[e.frag] <= new[r].at
                 /\ ~e.odd => new[r].at = start[e.frag]
                 /\ e.odd => e.frag + 1 <= last /\ new[r].at <= start[e.frag + 1]
      BY <1>2, <3>4, <3>7, <3>9, PlacedBetween, SMTT(30)
    <3>12. \A r \in 1..Len(old) : old[r].at \in Nat
      BY <3>7 DEF Symbol
    <3>13. InOrder(after)
      <4> SUFFICES ASSUME NEW q \in DOMAIN after, NEW r \in DOMAIN after, q <= r
                   PROVE  after[q].at <= after[r].at
        BY DEF InOrder
      <4>1. CASE q \in 1..Len(old) /\ r \in 1..Len(old)
        BY <3>7, <3>8, <4>1 DEF InOrder
      <4>2. CASE q \in 1..Len(old) /\ \E x \in 1..Len(new) : r = Len(old) + x
        <5>1. PICK x \in 1..Len(new) : r = Len(old) + x
          BY <4>2
        <5>2. old[q].at <= start[e.frag] /\ start[e.frag] <= new[x].at
              /\ after[q] = old[q] /\ after[r] = new[x] /\ old[q].at \in Nat /\ new[x].at \in Nat
          BY <3>7, <3>8, <3>9, <3>11, <3>12, <4>2, <5>1
        <5> QED
          BY <3>10, <5>2
      <4>3. CASE \E x \in 1..Len(new) : q = Len(old) + x
        <5>1. PICK x \in 1..Len(new) : q = Len(old) + x
          BY <4>3
        <5>2. ~(r \in 1..Len(old))
          BY <3>7, <5>1
        <5>3. PICK y \in 1..Len(new) : r = Len(old) + y
          BY <3>7, <5>2
        <5>4. x <= y
          BY <3>7, <5>1, <5>3
        <5>5. new[x].at <= new[y].at
          BY <3>7, <3>11, <5>4 DEF InOrder
        <5> QED
          BY <3>7, <5>1, <5>3, <5>5
      <4> QED
        BY <3>7, <4>1, <4>2, <4>3
    <3>14. ASSUME NEW r \in DOMAIN after, NEW j \in m + 1..count
           PROVE  after[r].at <= start[events[j].frag]
      <4>1. j \in 1..count /\ m < j
        BY <1>2
      <4>2. e.frag <= events[j].frag /\ (e.odd => e.frag < events[j].frag)
        BY <1>2, <3>9, <4>1 DEF EventsOf
      <4>3. PICK f \in 0..last : f = events[j].frag
        BY <1>2, <4>1
      <4>4. start[f] \in Nat /\ start[e.frag] <= start[f]
        BY <3>10, <4>2, <4>3 DEF Offsets
      <4>5. CASE r \in 1..Len(old)
        <5>1. after[r].at <= start[e.frag] /\ after[r].at \in Nat
          BY <3>7, <3>8, <3>9, <3>12, <4>5
        <5> QED
          BY <3>10, <4>3, <4>4, <5>1
      <4>6. CASE \E x \in 1..Len(new) : r = Len(old) + x
        <5>1. PICK x \in 1..Len(new) : r = Len(old) + x
          BY <4>6
        <5>2. after[r] = new[x] /\ new[x].at \in Nat
          BY <3>7, <3>11, <5>1
        <5>3. CASE ~e.odd
          BY <3>11, <4>3, <4>4, <5>2, <5>3
        <5>4. CASE e.odd
          <6>1. e.frag + 1 <= f /\ e.frag + 1 \in 0..last
            <7>1. e.frag < f /\ last \in Nat
              BY <1>2, <4>2, <4>3, <5>4
            <7> QED
              BY <3>10, <7>1
          <6>2. start[e.frag + 1] \in Nat /\ start[e.frag + 1] <= start[f]
            BY <6>1 DEF Offsets
          <6>3. new[x].at <= start[e.frag + 1]
            BY <3>11, <5>4
          <6> QED
            BY <4>3, <4>4, <5>2, <6>2, <6>3
        <5> QED
          BY <5>3, <5>4
      <4> QED
        BY <3>7, <4>5, <4>6
    <3> QED
      BY <3>1, <3>5, <3>13, <3>14
  <2>2. n + 1 \in Nat
    OBVIOUS
  <2> HIDE DEF Before
  <2> QED
    BY <2>1, <2>2
<1> HIDE DEF S
<1>6. Nat \subseteq S
  BY <1>4, <1>5, InductionBySets
<1> QED
  <2>1. count \in S /\ count \in 0..count
    BY <1>2, <1>6
  <2> QED
    BY <1>1, <2>1 DEF S

(* The last symbol up to offset "p" says "name"; data is what is marked as *)
(* nothing yet.                                                            *)
LastAmong(all, p, name) ==
    \E r \in DOMAIN all : /\ all[r].at <= p /\ all[r].name = name
                          /\ \A q \in DOMAIN all : q > r => all[q].at > p

LastUpTo(all, p, name) ==
    \/ name = Data /\ \A r \in DOMAIN all : all[r].at > p
    \/ LastAmong(all, p, name)

(* The last symbol up to an offset is the second sequence's if it has one  *)
(* there.                                                                  *)
LEMMA LastOfBoth ==
    ASSUME NEW old \in Seq(Symbol), NEW new \in Seq(Symbol), NEW p \in Nat, NEW name
    PROVE  /\ LastUpTo(old, p, name) /\ (\A r \in DOMAIN new : new[r].at > p)
                 => LastUpTo(old \o new, p, name)
           /\ LastAmong(new, p, name) => LastUpTo(old \o new, p, name)
<1>1. PICK after : after = old \o new
  OBVIOUS
<1>2. /\ Len(old) \in Nat /\ Len(new) \in Nat
      /\ DOMAIN old = 1..Len(old) /\ DOMAIN new = 1..Len(new)
      /\ DOMAIN after = 1..Len(old) + Len(new)
      /\ \A r \in 1..Len(old) : after[r] = old[r]
      /\ \A r \in 1..Len(new) : after[Len(old) + r] = new[r]
      /\ \A r \in DOMAIN after : r \in 1..Len(old) \/ \E q \in 1..Len(new) : r = Len(old) + q
  BY <1>1, SymbolsAppended
<1>3. ASSUME LastUpTo(old, p, name), \A r \in DOMAIN new : new[r].at > p
      PROVE  LastUpTo(after, p, name)
  <2>1. \A r \in DOMAIN after : r \notin 1..Len(old) => after[r].at > p
    BY <1>2, <1>3
  <2>2. CASE name = Data /\ \A r \in DOMAIN old : old[r].at > p
    BY <1>2, <2>1, <2>2 DEF LastUpTo
  <2>3. CASE LastAmong(old, p, name)
    <3>1. PICK r \in DOMAIN old : /\ old[r].at <= p /\ old[r].name = name
                                  /\ \A q \in DOMAIN old : q > r => old[q].at > p
      BY <2>3 DEF LastAmong
    <3>2. r \in DOMAIN after /\ after[r] = old[r]
      BY <1>2, <3>1
    <3>3. \A q \in DOMAIN after : q > r => after[q].at > p
      BY <1>2, <2>1, <3>1
    <3> QED
      BY <3>1, <3>2, <3>3 DEF LastUpTo, LastAmong
  <2> QED
    BY <1>3, <2>2, <2>3 DEF LastUpTo
<1>4. ASSUME LastAmong(new, p, name) PROVE LastUpTo(after, p, name)
  <2>1. PICK r \in DOMAIN new : /\ new[r].at <= p /\ new[r].name = name
                                /\ \A q \in DOMAIN new : q > r => new[q].at > p
    BY <1>4 DEF LastAmong
  <2>2. PICK x : x = Len(old) + r
    OBVIOUS
  <2>3. x \in DOMAIN after /\ after[x] = new[r]
    BY <1>2, <2>2
  <2>4. ASSUME NEW q \in DOMAIN after, q > x PROVE after[q].at > p
    <3>1. q \notin 1..Len(old)
      BY <1>2, <2>2, <2>4
    <3>2. PICK y \in 1..Len(new) : q = Len(old) + y
      BY <1>2, <3>1
    <3>3. y > r
      BY <1>2, <2>2, <2>4, <3>2
    <3> QED
      BY <1>2, <2>1, <3>2, <3>3
  <2> QED
    BY <2>1, <2>3, <2>4 DEF LastUpTo, LastAmong
<1> QED
  BY <1>1, <1>3, <1>4

(* What an event says of offset "p" of fragment "f", and what the last of  *)
(* the first "n" of them up to the fragment's start does.                  *)
NameAt(e, start, f, p) ==
    IF e.odd /\ e.frag = f - 1 /\ p < start[e.frag] + OddOf(e, start) THEN Data ELSE e.name

Current(events, n, start, f, p, name) ==
    \/ name = Data /\ \A i \in 1..n : events[i].frag >= f
    \/ \E i \in 1..n : /\ events[i].frag < f
                       /\ \A j \in i + 1..n : events[j].frag >= f
                       /\ name = NameAt(events[i], start, f, p)

(* The event for odd bytes follows one that says the same of the rest.     *)
Repeats(events) ==
    \A i \in DOMAIN events : events[i].odd =>
        i - 1 \in DOMAIN events /\ events[i - 1].name = events[i].name

(* An event up to the fragment is what is placed last, or repeats it.      *)
LEMMA EventShows ==
    ASSUME NEW start, NEW last, Offsets(start, last), NEW f \in 1..last, NEW p \in Nat,
           start[f - 1] <= p, p < start[f], NEW e \in Event, e.frag < f
    PROVE  \/ LastAmong(PlaceEvent(e, start), p, NameAt(e, start, f, p))
           \/ e.odd /\ PlaceEvent(e, start) = <<>> /\ NameAt(e, start, f, p) = e.name
<1>1. /\ last \in Nat /\ e.frag \in Nat /\ e.odd \in BOOLEAN /\ e.frag <= last /\ e.frag <= f - 1
      /\ e.frag + 1 <= last /\ e.frag + 1 \in 0..last /\ f - 1 \in 0..last /\ f \in 0..last
      /\ e.frag \in 0..last
  BY DEF Event, Offsets
<1>2. /\ start[e.frag] \in Nat /\ start[f - 1] \in Nat /\ start[f] \in Nat
      /\ start[e.frag + 1] \in Nat /\ start[e.frag] <= start[f - 1]
  BY <1>1 DEF Offsets
<1>3. start[e.frag] <= p
  BY <1>2
<1>4. PICK odd : odd = OddOf(e, start)
  OBVIOUS
<1>5. odd \in Nat /\ start[e.frag] + odd <= start[e.frag + 1]
  BY <1>1, <1>4, PlacedEvent
<1>6. PICK new : new = PlaceEvent(e, start)
  OBVIOUS
<1>7. PICK name : name = NameAt(e, start, f, p)
  OBVIOUS
<1>8. CASE ~e.odd
  <2>1. new = <<[at |-> start[e.frag], name |-> e.name]>>
    BY <1>1, <1>6, <1>8, PlacedEvent
  <2>2. DOMAIN new = 1..1 /\ new[1].at = start[e.frag] /\ new[1].name = e.name
    BY <2>1
  <2>3. name = e.name
    BY <1>7, <1>8 DEF NameAt
  <2>4. LastAmong(new, p, name)
    BY <1>3, <2>2, <2>3 DEF LastAmong
  <2> QED
    BY <1>6, <1>7, <2>4
<1>9. CASE e.odd /\ odd = 0
  <2>1. new = <<>>
    BY <1>1, <1>4, <1>6, <1>9, PlacedEvent
  <2>2. name = e.name
    BY <1>2, <1>3, <1>4, <1>7, <1>9 DEF NameAt
  <2> QED
    BY <1>6, <1>7, <1>9, <2>1, <2>2
<1>10. CASE e.odd /\ odd # 0
  <2>1. new = <<[at |-> start[e.frag], name |-> Data],
                [at |-> start[e.frag] + odd, name |-> e.name]>>
    BY <1>1, <1>4, <1>6, <1>10, PlacedEvent
  <2>2. /\ DOMAIN new = 1..2
        /\ new[1].at = start[e.frag] /\ new[1].name = Data
        /\ new[2].at = start[e.frag] + odd /\ new[2].name = e.name
    BY <2>1
  <2>3. 1 \in DOMAIN new /\ 2 \in DOMAIN new /\ \A r \in DOMAIN new : r = 1 \/ r = 2
    BY <2>2
  <2>4. CASE p < start[e.frag] + odd
    <3>1. e.frag = f - 1
      <4>1. ASSUME e.frag # f - 1 PROVE FALSE
        <5>1. e.frag + 1 <= f - 1
          BY <1>1, <4>1
        <5>2. start[e.frag + 1] <= start[f - 1]
          BY <1>1, <5>1 DEF Offsets
        <5> QED
          BY <1>2, <1>5, <2>4, <5>2
      <4> QED
        BY <4>1
    <3>2. name = Data
      BY <1>4, <1>7, <1>10, <2>4, <3>1 DEF NameAt
    <3>3. \A q \in DOMAIN new : q > 1 => new[q].at > p
      BY <1>2, <1>5, <2>2, <2>3, <2>4
    <3>4. LastAmong(new, p, name)
      BY <1>3, <2>2, <2>3, <3>2, <3>3 DEF LastAmong
    <3> QED
      BY <1>6, <1>7, <3>4
  <2>5. CASE ~(p < start[e.frag] + odd)
    <3>1. name = e.name
      BY <1>4, <1>7, <2>5 DEF NameAt
    <3>2. new[2].at <= p
      BY <1>2, <1>5, <2>2, <2>5
    <3>3. \A q \in DOMAIN new : ~(q > 2)
      BY <2>2
    <3>4. LastAmong(new, p, name)
      BY <2>2, <2>3, <3>1, <3>2, <3>3 DEF LastAmong
    <3> QED
      BY <1>6, <1>7, <3>4
  <2> QED
    BY <2>4, <2>5
<1> QED
  BY <1>1, <1>8, <1>9, <1>10

(* The symbols show what the last event says.                              *)
LEMMA PlacedShow ==
    ASSUME NEW start, NEW last, Offsets(start, last), NEW events, EventsOf(events, last),
           Repeats(events), NEW f \in 1..last, NEW p \in Nat,
           start[f - 1] <= p, p < start[f],
           NEW name, Current(events, Len(events), start, f, p, name)
    PROVE  LastUpTo(PlacedOf(events, start)[Len(events)], p, name)
<1>1. PICK count : count = Len(events)
  OBVIOUS
<1>2. /\ count \in Nat /\ DOMAIN events = 1..count /\ last \in Nat
      /\ \A i \in 1..count : events[i] \in Event /\ events[i].frag <= last /\ events[i].frag \in Nat
  <2>1. events \in Seq(Event) /\ last \in Nat /\ \A i \in DOMAIN events : events[i].frag <= last
    BY DEF EventsOf, Offsets
  <2>2. \A e \in Event : e.frag \in Nat
    BY DEF Event
  <2>3. count \in Nat /\ DOMAIN events = 1..count /\ \A i \in 1..count : events[i] \in Event
    BY <1>1, <2>1
  <2> QED
    BY <2>1, <2>2, <2>3
<1>3. PICK g : g = PlacedOf(events, start)
  OBVIOUS
<1>4. /\ g[0] = <<>> /\ \A i \in 0..count : g[i] \in Seq(Symbol)
      /\ \A i \in 1..count : /\ g[i] = g[i - 1] \o PlaceEvent(events[i], start)
                             /\ PlaceEvent(events[i], start) \in Seq(Symbol)
  BY <1>1, <1>3, PlacedUnfolds
<1> DEFINE Shown(n) == \A x : Current(events, n, start, f, p, x) => LastUpTo(g[n], p, x)
           S == {n \in Nat : n \in 0..count => Shown(n)}
<1>5. 0 \in S
  <2>1. DOMAIN g[0] = {}
    BY <1>4
  <2>2. \A x : Current(events, 0, start, f, p, x) => x = Data
    BY DEF Current
  <2> QED
    BY <2>1, <2>2 DEF LastUpTo
<1>6. ASSUME NEW n \in Nat, n \in S PROVE n + 1 \in S
  <2>1. ASSUME n + 1 \in 0..count, NEW x, Current(events, n + 1, start, f, p, x)
        PROVE  LastUpTo(g[n + 1], p, x)
    <3>1. PICK m \in 1..count : m = n + 1
      BY <2>1
    <3>2. m - 1 = n /\ n \in 0..count /\ \A i \in 1..n : i \in 1..m
      BY <1>2, <3>1
    <3>3. PICK old \in Seq(Symbol) : old = g[n]
      BY <1>4, <3>2
    <3>4. PICK new \in Seq(Symbol) : new = PlaceEvent(events[m], start)
      BY <1>4
    <3>5. g[n + 1] = old \o new
      BY <1>4, <3>1, <3>2, <3>3, <3>4
    <3>6. Shown(n)
      BY <1>6, <3>2
    <3>7. PICK e \in Event : e = events[m]
      BY <1>2
    <3>8. e.frag \in Nat /\ e.frag <= last
      BY <1>2, <3>7
    <3>9. CASE e.frag >= f
      <4>1. \A r \in DOMAIN new : new[r].at > p
        <5>1. \A r \in DOMAIN new : new[r].at \in Nat /\ start[e.frag] <= new[r].at
          BY <3>4, <3>7, <3>8, PlacedBetween
        <5>2. e.frag \in 0..last /\ f \in 0..last
          BY <1>2, <3>8
        <5>3. start[f] \in Nat /\ start[e.frag] \in Nat /\ start[f] <= start[e.frag]
          BY <3>9, <5>2 DEF Offsets
        <5> QED
          BY <5>1, <5>3
      <4>2. Current(events, n, start, f, p, x)
        <5>1. CASE x = Data /\ \A i \in 1..m : events[i].frag >= f
          BY <3>2, <5>1 DEF Current
        <5>2. CASE \E i \in 1..m : /\ events[i].frag < f
                                   /\ \A j \in i + 1..m : events[j].frag >= f
                                   /\ x = NameAt(events[i], start, f, p)
          <6>1. PICK i \in 1..m : /\ events[i].frag < f
                                  /\ \A j \in i + 1..m : events[j].frag >= f
                                  /\ x = NameAt(events[i], start, f, p)
            BY <5>2
          <6>2. i # m
            BY <3>7, <3>8, <3>9, <6>1
          <6>3. i \in 1..n /\ \A j \in i + 1..n : j \in i + 1..m
            BY <3>1, <6>2
          <6> QED
            BY <6>1, <6>3 DEF Current
        <5> QED
          BY <2>1, <3>1, <5>1, <5>2 DEF Current
      <4> QED
        BY <3>3, <3>5, <3>6, <4>1, <4>2, LastOfBoth
    <3>10. CASE e.frag < f
      <4>1. x = NameAt(e, start, f, p)
        <5>1. m \in 1..m /\ ~(events[m].frag >= f)
          BY <1>2, <3>7, <3>8, <3>10
        <5>2. PICK i \in 1..m : /\ events[i].frag < f
                                /\ \A j \in i + 1..m : events[j].frag >= f
                                /\ x = NameAt(events[i], start, f, p)
          BY <2>1, <3>1, <5>1 DEF Current
        <5>3. i = m
          <6>1. i # m => m \in i + 1..m
            BY <1>2
          <6> QED
            BY <5>1, <5>2, <6>1
        <5> QED
          BY <3>7, <5>2, <5>3
      <4>2. CASE LastAmong(new, p, x)
        BY <3>5, <4>2, LastOfBoth
      <4>3. CASE e.odd /\ new = <<>> /\ x = e.name
        <5>1. m - 1 \in 1..count /\ events[m - 1].name = x
          BY <1>2, <3>7, <4>3 DEF Repeats
        <5>2. n \in 1..count /\ n < m /\ events[n].name = x
          BY <3>1, <3>2, <5>1
        <5>3. events[n].frag <= e.frag /\ (events[n].odd => events[n].frag < e.frag)
          BY <1>2, <3>7, <5>2 DEF EventsOf
        <5>4. events[n].frag \in Nat
          BY <1>2, <5>2
        <5>5. events[n].frag < f /\ (events[n].odd => events[n].frag # f - 1)
          BY <3>8, <3>10, <5>3, <5>4
        <5>6. NameAt(events[n], start, f, p) = x
          BY <5>2, <5>5 DEF NameAt
        <5>7. n \in 1..n /\ \A j \in n + 1..n : FALSE
          BY <5>2
        <5>8. Current(events, n, start, f, p, x)
          BY <5>5, <5>6, <5>7 DEF Current
        <5>9. \A r \in DOMAIN new : new[r].at > p
          BY <4>3
        <5> QED
          BY <3>3, <3>5, <3>6, <5>8, <5>9, LastOfBoth
      <4> QED
        BY <3>4, <3>7, <3>10, <4>1, <4>2, <4>3, EventShows
    <3> QED
      BY <3>8, <3>9, <3>10
  <2>2. n + 1 \in Nat
    OBVIOUS
  <2> QED
    BY <2>1, <2>2
<1> HIDE DEF S
<1>7. Nat \subseteq S
  BY <1>5, <1>6, InductionBySets
<1>8. Shown(count)
  <2>1. count \in S /\ count \in 0..count
    BY <1>2, <1>7
  <2> QED
    BY <2>1 DEF S
<1> QED
  BY <1>1, <1>3, <1>8

-----------------------------------------------------------------------------
(* What a disassembler goes by, and the symbols kept for it.               *)
MarkOf(symbols, p) ==
    LET before == {m \in symbols : m.at <= p}
    IN  IF before = {} THEN Data
        ELSE (CHOOSE m \in before : \A o \in before : o.at <= m.at).name

KeptOf(all, end) ==
    {i \in DOMAIN all : /\ \A j \in DOMAIN all : all[j].at = all[i].at => j <= i
                        /\ all[i].at # end}

SymbolsKept(all, end) == {all[i] : i \in KeptOf(all, end)}

(* The symbols of a section are what is kept of those placed.              *)
LEMMA PlacedAreKept ==
    ASSUME NEW s, NEW all, all = PlacedOf(s.mapEvents, FragOffsets(s))[Len(s.mapEvents)]
    PROVE  PlaceMappingSymbols(s) = SymbolsKept(all, FragOffsets(s)[Len(s.frags)])
BY DEF PlaceMappingSymbols, PlacedOf, IsPlaced, KeptOf, SymbolsKept

(* Dropping the symbols that say nothing leaves the last one up to every   *)
(* byte.                                                                   *)
LEMMA LastIsShown ==
    ASSUME NEW all \in Seq(Symbol), InOrder(all), NEW end \in Nat, NEW p \in Nat, p < end,
           NEW name, LastUpTo(all, p, name),
           NEW symbols, symbols = SymbolsKept(all, end)
    PROVE  MarkOf(symbols, p) = name
<1>1. DOMAIN all = 1..Len(all) /\ Len(all) \in Nat
  OBVIOUS
<1>2. \A r \in DOMAIN all : all[r].at \in Nat /\ r \in Nat
  <2>1. \A m \in Symbol : m.at \in Nat
    BY DEF Symbol
  <2>2. \A r \in DOMAIN all : all[r] \in Symbol /\ r \in Nat
    BY <1>1
  <2> QED
    BY <2>1, <2>2
<1>3. PICK before : before = {m \in symbols : m.at <= p}
  OBVIOUS
<1>4. CASE name = Data /\ \A r \in DOMAIN all : all[r].at > p
  <2>1. ASSUME NEW m \in before PROVE FALSE
    <3>1. PICK i \in DOMAIN all : m = all[i]
      BY <1>3, <2>1 DEF SymbolsKept, KeptOf
    <3> QED
      BY <1>2, <1>3, <1>4, <2>1, <3>1
  <2>2. before = {}
    BY <2>1
  <2> QED
    BY <1>3, <1>4, <2>2 DEF MarkOf
<1>5. CASE LastAmong(all, p, name)
  <2>1. PICK r \in DOMAIN all : /\ all[r].at <= p /\ all[r].name = name
                                /\ \A q \in DOMAIN all : q > r => all[q].at > p
    BY <1>5 DEF LastAmong
  <2>2. r \in KeptOf(all, end)
    <3>1. \A j \in DOMAIN all : all[j].at = all[r].at => j <= r
      BY <1>2, <2>1
    <3>2. all[r].at # end
      BY <1>2, <2>1
    <3> QED
      BY <2>1, <3>1, <3>2 DEF KeptOf
  <2>3. all[r] \in before
    BY <1>3, <2>1, <2>2 DEF SymbolsKept
  <2>4. ASSUME NEW o \in before
        PROVE  \E i \in KeptOf(all, end) : o = all[i] /\ i \in DOMAIN all /\ i <= r /\ o.at <= all[r].at
    <3>1. PICK i \in KeptOf(all, end) : o = all[i]
      BY <1>3, <2>4 DEF SymbolsKept
    <3>2. i \in DOMAIN all /\ o.at <= p
      BY <1>3, <2>4, <3>1 DEF KeptOf
    <3>3. i <= r
      BY <1>2, <2>1, <3>1, <3>2
    <3>4. o.at <= all[r].at
      BY <2>1, <3>1, <3>2, <3>3 DEF InOrder
    <3> QED
      BY <3>1, <3>2, <3>3, <3>4
  <2>5. PICK m : m = CHOOSE x \in before : \A o \in before : o.at <= x.at
    OBVIOUS
  <2>6. m \in before /\ \A o \in before : o.at <= m.at
    BY <2>3, <2>4, <2>5
  <2>7. PICK i \in KeptOf(all, end) : m = all[i] /\ i \in DOMAIN all /\ i <= r /\ m.at <= all[r].at
    BY <2>4, <2>6
  <2>8. all[r].at <= m.at
    BY <2>3, <2>6
  <2>9. all[r].at = all[i].at
    BY <1>2, <2>1, <2>7, <2>8
  <2>10. r <= i
    BY <2>1, <2>7, <2>9 DEF KeptOf
  <2>11. i = r
    BY <1>2, <2>1, <2>7, <2>10
  <2>12. m.name = name
    BY <2>1, <2>7, <2>11
  <2>13. before # {}
    BY <2>3
  <2> QED
    BY <1>3, <2>5, <2>12, <2>13 DEF MarkOf
<1> QED
  BY <1>4, <1>5 DEF LastUpTo

-----------------------------------------------------------------------------
(* What the layout of a section is made from at the end of the source,     *)
(* when no fragment is open any more.                                      *)
Covered(s, slots) ==
    s \in SectionType /\ ItemsMarked(s, slots) /\ EventsInOrder(s) /\ OddPads(s)

(* Sealing a section changes none of it.                                   *)
LEMMA SealedIsCovered ==
    ASSUME NEW s \in SectionType, NEW slots, Tracked(Seal(s), slots)
    PROVE  Covered(s, slots)
<1>1. PICK t : t = Seal(s)
  OBVIOUS
<1>2. /\ t.frags = s.frags /\ t.mapEvents = s.mapEvents /\ t.mapState = s.mapState
      /\ Tracked(t, slots)
  BY <1>1 DEF Seal, SectionType
<1>3. ItemsMarked(t, slots) /\ EventsInOrder(t) /\ OddPads(t)
  BY <1>2 DEF Tracked
<1>4. ItemsMarked(s, slots)
  BY <1>2, <1>3 DEF ItemsMarked, ItemMarked, UnderMark, InForce
<1>5. EventsInOrder(s)
  BY <1>2, <1>3 DEF EventsInOrder
<1>6. OddPads(s)
  BY <1>2, <1>3 DEF OddPads, OddPad
<1> QED
  BY <1>4, <1>5, <1>6 DEF Covered

(* Its items have sizes, its fragments offsets, and its events are placed. *)
LEMMA CoveredIsPlaced ==
    ASSUME NEW s, NEW slots, Covered(s, slots), NEW at, at = SizesOf(Contents(s), 0),
           NEW start, start = FragOffsets(s)
    PROVE  /\ AllSized(Contents(s))
           /\ start = [f \in 0..Len(s.frags) |-> at[Len(ItemsUpTo(s, f))]]
           /\ Offsets(start, Len(s.frags))
           /\ EventsOf(s.mapEvents, Len(s.frags))
           /\ Repeats(s.mapEvents)
<1>1. s \in SectionType /\ ItemsMarked(s, slots) /\ EventsInOrder(s) /\ OddPads(s)
  BY DEF Covered
<1>2. PICK items : items = Contents(s)
  OBVIOUS
<1>3. PICK last : last = Len(s.frags)
  OBVIOUS
<1>4. last \in Nat /\ DOMAIN s.frags = 1..last
      /\ \A f \in 1..last : /\ s.frags[f] \in Seq(Item)
                            /\ \A k \in DOMAIN s.frags[f] : s.frags[f][k] \in Item
  BY <1>1, <1>3, EventsType
<1>5. items \in Seq(Item)
  <2>1. \A f \in 0..last : ItemsUpTo(s, f) \in Seq(Item)
    BY <1>1, <1>3, ItemsType
  <2> QED
    BY <1>2, <1>3, <1>4, <2>1 DEF Contents
<1>6. ASSUME NEW i \in DOMAIN items PROVE Sized(items[i])
  <2>1. i \in 1..Len(Contents(s))
    BY <1>2, <1>5
  <2>2. PICK f \in 1..last : \E k \in 1..Len(s.frags[f]) : i = Len(ItemsUpTo(s, f - 1)) + k
    BY <1>1, <1>3, <2>1, ItemsOfFragments
  <2>3. PICK k \in 1..Len(s.frags[f]) : i = Len(ItemsUpTo(s, f - 1)) + k
    BY <2>2
  <2>4. items[i] = s.frags[f][k]
    BY <1>1, <1>2, <1>3, <2>2, <2>3, ItemsOfFragments
  <2>5. f \in DOMAIN s.frags /\ k \in DOMAIN s.frags[f]
    BY <1>4, <2>2, <2>3
  <2>6. ItemMarked(s, f, s.frags[f][k], slots)
    BY <1>1, <2>5 DEF ItemsMarked
  <2>7. s.frags[f][k] \in Item
    BY <1>4, <2>5
  <2> QED
    BY <2>4, <2>6, <2>7 DEF ItemMarked, Sized
<1>7. AllSized(items)
  BY <1>5, <1>6 DEF AllSized
<1>8. start = [f \in 0..last |-> at[Len(ItemsUpTo(s, f))]]
  BY <1>1, <1>2, <1>3, <1>7, OffsetsOfItems
<1>9. Offsets(start, last)
  <2>1. at \in [0..Len(items) -> Nat] /\ \A i, j \in 0..Len(items) : i <= j => at[i] <= at[j]
    BY <1>2, <1>7, SizesOfItems, SizesGrow
  <2>2. ASSUME NEW f \in 0..last
        PROVE  Len(ItemsUpTo(s, f)) \in 0..Len(items)
    <3>1. ItemsUpTo(s, f) \in Seq(Item)
      BY <1>1, <1>3, ItemsType
    <3>2. Len(ItemsUpTo(s, f)) \in Nat /\ Len(items) \in Nat
      BY <1>5, <3>1
    <3>3. Len(ItemsUpTo(s, f)) <= Len(ItemsUpTo(s, last))
      BY <1>1, <1>3, <1>4, ItemsStay
    <3> QED
      BY <1>2, <1>3, <3>2, <3>3 DEF Contents
  <2>3. ASSUME NEW i \in 0..last, NEW j \in 0..last, i <= j
        PROVE  Len(ItemsUpTo(s, i)) <= Len(ItemsUpTo(s, j))
    <3>1. j \in i..last
      BY <1>4, <2>3
    <3> QED
      BY <1>1, <1>3, <3>1, ItemsStay
  <2>4. start \in [0..last -> Nat]
    BY <1>8, <2>1, <2>2
  <2>5. ASSUME NEW i \in 0..last, NEW j \in 0..last, i <= j
        PROVE  start[i] <= start[j]
    <3>1. start[i] = at[Len(ItemsUpTo(s, i))] /\ start[j] = at[Len(ItemsUpTo(s, j))]
      BY <1>8
    <3> QED
      BY <2>1, <2>2, <2>3, <2>5, <3>1
  <2> QED
    BY <1>4, <2>4, <2>5 DEF Offsets
<1>10. EventsOf(s.mapEvents, last)
  <2>1. s.mapEvents \in Seq(Event)
    BY <1>1 DEF SectionType, Event
  <2> QED
    BY <1>1, <1>3, <2>1 DEF EventsInOrder, EventsOf
<1>11. Repeats(s.mapEvents)
  BY <1>1 DEF OddPads, Repeats
<1> QED
  BY <1>2, <1>3, <1>7, <1>8, <1>9, <1>10, <1>11

(* Where item "i" is, which is one of fragment "f".                        *)
Spans(s, at, start, f, i) ==
    /\ i \in 1..Len(Contents(s)) /\ i - 1 \in 0..Len(Contents(s))
    /\ at[i - 1] \in Nat /\ at[i] \in Nat
    /\ start[f - 1] \in Nat /\ start[f] \in Nat
    /\ start[f - 1] <= at[i - 1] /\ at[i] <= start[f]
    /\ start[f] <= start[Len(s.frags)]
    /\ Len(s.frags[f]) = 1 => start[f - 1] = at[i - 1] /\ start[f] = at[i]

(* It lies within the fragment.                                            *)
LEMMA ItemIsInFragment ==
    ASSUME NEW s, NEW slots, Covered(s, slots), NEW at, at = SizesOf(Contents(s), 0),
           NEW start, start = FragOffsets(s),
           NEW f \in 1..Len(s.frags), NEW k \in 1..Len(s.frags[f]),
           NEW i, i = Len(ItemsUpTo(s, f - 1)) + k
    PROVE  Spans(s, at, start, f, i)
<1>1. s \in SectionType
  BY DEF Covered
<1>2. PICK items : items = Contents(s)
  OBVIOUS
<1>3. PICK last : last = Len(s.frags)
  OBVIOUS
<1>4. PICK before : before = Len(ItemsUpTo(s, f - 1))
  OBVIOUS
<1>5. PICK count : count = Len(s.frags[f])
  OBVIOUS
<1>6. /\ before \in Nat /\ count \in Nat /\ last \in Nat /\ Len(items) \in Nat
      /\ Len(ItemsUpTo(s, f)) = before + count /\ before + count <= Len(items)
  <2>1. Len(ItemsUpTo(s, f)) = Len(ItemsUpTo(s, f - 1)) + Len(s.frags[f])
        /\ Len(s.frags[f]) \in Nat /\ Len(ItemsUpTo(s, f - 1)) \in Nat
        /\ Len(ItemsUpTo(s, f)) <= Len(Contents(s))
    BY <1>1, ItemsOfFragments
  <2>2. AllSized(items)
    BY <1>2, CoveredIsPlaced
  <2>3. Len(items) \in Nat
    BY <2>2 DEF AllSized
  <2>4. last \in Nat
    BY <1>1, <1>3, EventsType
  <2> QED
    BY <1>2, <1>4, <1>5, <2>1, <2>3, <2>4
<1>7. k \in 1..count /\ i = before + k
  BY <1>4, <1>5
<1>8. /\ i \in 1..Len(items) /\ i \in 0..Len(items) /\ i - 1 \in 0..Len(items)
      /\ before \in 0..Len(items) /\ before + count \in 0..Len(items)
      /\ before <= i - 1 /\ i <= before + count
  BY <1>6, <1>7
<1>9. /\ at \in [0..Len(items) -> Nat]
      /\ \A m, n \in 0..Len(items) : m <= n => at[m] <= at[n]
  BY <1>2, CoveredIsPlaced, SizesOfItems, SizesGrow
<1>10. f - 1 \in 0..last /\ f \in 0..last /\ last \in 0..last
  BY <1>3, <1>6
<1>11. start[f - 1] = at[before] /\ start[f] = at[before + count]
  <2>1. start = [g \in 0..last |-> at[Len(ItemsUpTo(s, g))]]
    BY <1>3, CoveredIsPlaced
  <2> QED
    BY <1>4, <1>6, <1>10, <2>1
<1>12. start[f] <= start[last]
  <2>1. Offsets(start, last)
    BY <1>3, CoveredIsPlaced
  <2> QED
    BY <1>3, <1>10, <2>1 DEF Offsets
<1>13. at[before] <= at[i - 1] /\ at[i] <= at[before + count]
  BY <1>8, <1>9
<1>14. count = 1 => before = i - 1 /\ before + count = i
  BY <1>6, <1>7
<1>15. at[i - 1] \in Nat /\ at[i] \in Nat /\ at[before] \in Nat /\ at[before + count] \in Nat
  BY <1>8, <1>9
<1> QED
  BY <1>2, <1>3, <1>5, <1>8, <1>11, <1>12, <1>13, <1>14, <1>15 DEF Spans

(* What the bytes of an item that starts at "from" and ends at "end" are.  *)
Says(item, from, end, p) ==
    LET odd == IF IsNops(item) THEN (end - from) % CodeUnit(item.mode) ELSE 0
    IN  IF p < from + odd THEN Data ELSE item.mode

(* The last event up to an item's fragment says what a byte of it is.      *)
LEMMA EventIsRight ==
    ASSUME NEW s, NEW slots, Covered(s, slots), NEW at, at = SizesOf(Contents(s), 0),
           NEW start, start = FragOffsets(s),
           NEW f \in 1..Len(s.frags), NEW k \in 1..Len(s.frags[f]),
           NEW i, i = Len(ItemsUpTo(s, f - 1)) + k,
           NEW item, item = s.frags[f][k], ~Exempt(item, slots),
           NEW p \in Nat, at[i - 1] <= p, p < at[i],
           NEW name, name = Says(item, at[i - 1], at[i], p)
    PROVE  Current(s.mapEvents, Len(s.mapEvents), start, f, p, name)
<1>1. s \in SectionType /\ ItemsMarked(s, slots) /\ EventsInOrder(s) /\ OddPads(s)
  BY DEF Covered
<1>2. PICK events : events = s.mapEvents
  OBVIOUS
<1>0. PICK odd : odd = IF IsNops(item) THEN (at[i] - at[i - 1]) % CodeUnit(item.mode) ELSE 0
  OBVIOUS
<1>3. name = IF p < at[i - 1] + odd THEN Data ELSE item.mode
  BY <1>0 DEF Says
<1>4. /\ Len(events) \in Nat /\ DOMAIN events = 1..Len(events)
      /\ \A j \in DOMAIN events : events[j].frag \in Nat
      /\ Len(s.frags) \in Nat /\ f \in Nat /\ f \in DOMAIN s.frags
      /\ k \in DOMAIN s.frags[f]
  <2>1. f \in DOMAIN s.frags
    BY <1>1, EventsType
  <2>2. s.frags[f] \in Seq(Item)
    BY <1>1, <2>1, EventsType
  <2> QED
    BY <1>1, <1>2, <2>1, <2>2, EventsType
<1>5. /\ UnderMark(s, f, item.mode)
      /\ IsNops(item) => \E j \in DOMAIN events : events[j] = OddPadding(f - 1, item.mode)
  BY <1>1, <1>2, <1>4 DEF ItemsMarked, ItemMarked
<1>6. /\ at[i - 1] \in Nat /\ at[i] \in Nat
      /\ Len(s.frags[f]) = 1 => start[f - 1] = at[i - 1] /\ start[f] = at[i]
  <2>1. Spans(s, at, start, f, i)
    BY ItemIsInFragment
  <2> QED
    BY <2>1 DEF Spans
<1>7. ~IsNops(item) => name = item.mode
  <2>1. ASSUME ~IsNops(item) PROVE name = item.mode
    <3>1. odd = 0
      BY <1>0, <2>1
    <3> QED
      BY <1>3, <1>6, <3>1
  <2> QED
    BY <2>1
<1>8. CASE item.mode = Data /\ \A j \in DOMAIN events : events[j].frag >= f
  <2>1. name = Data
    BY <1>3, <1>8
  <2> QED
    BY <1>2, <1>3, <1>4, <1>8, <2>1 DEF Current
<1>9. CASE \E j \in DOMAIN events : InForce(s, f, j) /\ events[j].name = item.mode
  <2>1. PICK j \in DOMAIN events : InForce(s, f, j) /\ events[j].name = item.mode
    BY <1>9
  <2>2. events[j].frag < f /\ \A m \in DOMAIN events : m > j => events[m].frag >= f
    BY <1>2, <2>1 DEF InForce
  <2>3. ASSUME NEW m \in j + 1..Len(events) PROVE events[m].frag >= f
    <3>1. j \in Nat /\ j >= 1
      BY <1>4
    <3>2. m \in DOMAIN events /\ m > j
      BY <1>4, <3>1
    <3> QED
      BY <2>2, <3>2
  <2>4. name = NameAt(events[j], start, f, p)
    <3>1. CASE ~IsNops(item)
      <4>1. ASSUME events[j].odd, events[j].frag = f - 1 PROVE FALSE
        <5>1. OddPad(s, events[j])
          BY <1>1, <1>2, <4>1 DEF OddPads
        <5>2. events[j].frag < Len(s.frags) /\ events[j].frag + 1 = f
          BY <1>4, <4>1
        <5>3. PICK pad \in Item : /\ pad.is = "pad" /\ pad.mode = events[j].name
                                  /\ s.frags[f] = <<pad>>
          BY <5>1, <5>2 DEF OddPad
        <5>4. item = pad
          BY <1>4, <5>3
        <5>5. events[j].name # Data
          BY <5>1 DEF OddPad, Modes, Arm, Data
        <5> QED
          BY <3>1, <5>3, <5>4, <5>5 DEF IsNops
      <4> QED
        BY <1>7, <2>1, <3>1, <4>1 DEF NameAt
    <3>2. CASE IsNops(item)
      <4>1. PICK m \in DOMAIN events : events[m] = OddPadding(f - 1, item.mode)
        BY <1>5, <3>2
      <4>2. events[m].frag = f - 1 /\ events[m].odd /\ events[m].name = item.mode
        BY <4>1 DEF OddPadding
      <4>3. m <= j
        <5>1. m \in Nat /\ j \in Nat /\ f \in Nat
          BY <1>4, SMTT(30)
        <5>2. ~(m > j)
          BY <2>2, <4>2, <5>1
        <5> QED
          BY <5>1, <5>2
      <4>4. ~(m < j)
        <5>1. ASSUME m < j PROVE FALSE
          <6>1. events[m].frag < events[j].frag
            BY <1>1, <1>2, <4>2, <5>1 DEF EventsInOrder
          <6> QED
            BY <1>4, <2>2, <4>2, <6>1
        <5> QED
          BY <5>1
      <4>5. m = j
        BY <1>4, <4>3, <4>4
      <4>6. OddPad(s, events[j])
        BY <1>1, <1>2, <4>2, <4>5 DEF OddPads
      <4>7. events[j].frag < Len(s.frags) /\ events[j].frag + 1 = f
        BY <1>4, <4>2, <4>5, SMTT(30)
      <4>8. PICK pad \in Item : s.frags[f] = <<pad>>
        BY <4>6, <4>7 DEF OddPad
      <4>9. Len(s.frags[f]) = 1
        BY <4>8
      <4>10. start[f - 1] = at[i - 1] /\ start[f] = at[i]
        BY <1>6, <4>9
      <4>11. f \in DOMAIN start
        <5>1. Offsets(start, Len(s.frags))
          BY CoveredIsPlaced
        <5> QED
          BY <1>4, <5>1 DEF Offsets
      <4>12. OddOf(events[j], start) = odd
        BY <1>0, <3>2, <4>2, <4>5, <4>7, <4>10, <4>11 DEF OddOf
      <4> QED
        BY <1>3, <2>1, <4>2, <4>5, <4>10, <4>12 DEF NameAt
    <3> QED
      BY <3>1, <3>2
  <2>5. j \in 1..Len(events)
    BY <1>4
  <2> QED
    BY <1>2, <1>3, <2>2, <2>3, <2>4, <2>5 DEF Current
<1> QED
  BY <1>2, <1>5, <1>8, <1>9 DEF UnderMark

(* So do the symbols placed and kept.                                      *)
LEMMA BytesAreMarked ==
    ASSUME NEW s, NEW slots, Covered(s, slots), NEW at, at = SizesOf(Contents(s), 0),
           NEW i \in 1..Len(Contents(s)), NEW item, item = Contents(s)[i], ~Exempt(item, slots),
           NEW p \in Nat, at[i - 1] <= p, p < at[i],
           NEW symbols, symbols = PlaceMappingSymbols(s)
    PROVE  MarkOf(symbols, p) = Says(item, at[i - 1], at[i], p)
<1>1. s \in SectionType
  BY DEF Covered
<1>2. PICK start : start = FragOffsets(s)
  OBVIOUS
<1>3. PICK last : last = Len(s.frags)
  OBVIOUS
<1>4. PICK name : name = Says(item, at[i - 1], at[i], p)
  OBVIOUS
<1>5. PICK f \in 1..last : \E k \in 1..Len(s.frags[f]) : i = Len(ItemsUpTo(s, f - 1)) + k
  BY <1>1, <1>3, ItemsOfFragments
<1>6. PICK k \in 1..Len(s.frags[f]) : i = Len(ItemsUpTo(s, f - 1)) + k
  BY <1>5
<1>7. item = s.frags[f][k]
  BY <1>1, <1>3, <1>5, <1>6, ItemsOfFragments
<1>8. Current(s.mapEvents, Len(s.mapEvents), start, f, p, name)
  BY <1>2, <1>3, <1>4, <1>6, <1>7, EventIsRight
<1>9. Spans(s, at, start, f, i)
  BY <1>2, <1>3, <1>6, ItemIsInFragment
<1>10. Offsets(start, last) /\ EventsOf(s.mapEvents, last) /\ Repeats(s.mapEvents)
  BY <1>2, <1>3, CoveredIsPlaced
<1>11. start[f - 1] <= p /\ p < start[f] /\ p < start[last] /\ start[last] \in Nat
  <2>1. start[last] \in Nat
    BY <1>10 DEF Offsets
  <2>2. /\ at[i - 1] \in Nat /\ at[i] \in Nat /\ start[f - 1] \in Nat /\ start[f] \in Nat
        /\ start[f - 1] <= at[i - 1] /\ at[i] <= start[f] /\ start[f] <= start[last]
    BY <1>3, <1>9 DEF Spans
  <2> DEFINE a == start[f - 1]   b == at[i - 1]   c == at[i]   d == start[f]   e == start[last]
  <2>3. /\ a \in Nat /\ b \in Nat /\ c \in Nat /\ d \in Nat /\ e \in Nat
        /\ a <= b /\ b <= p /\ p < c /\ c <= d /\ d <= e
    BY <2>1, <2>2
  <2> HIDE DEF a, b, c, d, e
  <2>4. a <= p /\ p < d /\ p < e
    BY <2>3
  <2> QED
    BY <2>1, <2>4 DEF a, d, e
<1>12. PICK placed : placed = PlacedOf(s.mapEvents, start)
  OBVIOUS
<1>13. PICK all : all = placed[Len(s.mapEvents)]
  OBVIOUS
<1>14. LastUpTo(all, p, name)
  BY <1>8, <1>10, <1>11, <1>12, <1>13, PlacedShow
<1>15. InOrder(all)
  BY <1>10, <1>12, <1>13, PlacedInOrder
<1>16. all \in Seq(Symbol)
  <2>1. \A j \in 0..Len(s.mapEvents) : placed[j] \in Seq(Symbol)
    BY <1>10, <1>12, PlacedUnfolds
  <2>2. Len(s.mapEvents) \in 0..Len(s.mapEvents)
    BY <1>1, EventsType
  <2> QED
    BY <1>13, <2>1, <2>2
<1>17. symbols = SymbolsKept(all, start[last])
  BY <1>2, <1>3, <1>12, <1>13, PlacedAreKept
<1> QED
  BY <1>4, <1>11, <1>14, <1>15, <1>16, <1>17, LastIsShown

(* Whatever the source, in the output every byte a backend with mapping    *)
(* symbols emitted is under one that says whether it is code, of which     *)
(* instruction set, or data (map_code, map_data, map_align and             *)
(* place_mapping_symbols).                                                 *)
THEOREM EveryByteIsMarked == Spec => []MappingCovers
<1>1. ASSUME TypeOK, IInv, MarksKept PROVE MappingCovers
  <2> SUFFICES ASSUME phase = "done", NEW n \in DOMAIN sections
               PROVE  LET items == Items(n)
                          at[i \in 0..Len(items)] ==
                              IF i = 0 THEN 0 ELSE at[i - 1] + ItemSize(items[i], at[i - 1])
                      IN  \A i \in DOMAIN items :
                              IsMarked(n, items[i], at[i - 1], at[i] - at[i - 1])
    BY DEF MappingCovers
  <2>1. PICK s : s = sections[n]
    OBVIOUS
  <2>2. s \in SectionType /\ n \in AllSections
    BY <1>1, <2>1 DEF IInv, SectionsKept, Kept, TypeOK
  <2>3. Covered(s, archSlots)
    BY <1>1, <2>1, <2>2, SealedIsCovered DEF MarksKept
  <2>4. PICK items : items = Contents(s)
    OBVIOUS
  <2>5. Items(n) = items
    BY <2>1, <2>4 DEF Items, Contents
  <2>6. PICK at : at = SizesOf(items, 0)
    OBVIOUS
  <2>7. mappingSymbols[n] = PlaceMappingSymbols(s)
    BY <1>1, <2>1, <2>2 DEF MarksKept
  <2>8. AllSized(items)
    BY <2>3, <2>4, CoveredIsPlaced
  <2>9. DOMAIN items = 1..Len(items) /\ Len(items) \in Nat
    BY <2>8 DEF AllSized
  <2>10. at \in [0..Len(items) -> Nat]
    BY <2>6, <2>8, SizesOfItems
  <2>11. ASSUME NEW i \in DOMAIN items
         PROVE  IsMarked(n, items[i], at[i - 1], at[i] - at[i - 1])
    <3>1. i \in 1..Len(items) /\ i - 1 \in 0..Len(items) /\ i \in 0..Len(items)
      BY <2>9
    <3>2. PICK from \in Nat, end \in Nat : from = at[i - 1] /\ end = at[i]
      BY <2>10, <3>1
    <3>3. PICK item : item = items[i]
      OBVIOUS
    <3>4. CASE Exempt(item, archSlots)
      BY <3>3, <3>4 DEF IsMarked, Exempt
    <3>5. CASE ~Exempt(item, archSlots)
      <4>1. ASSUME NEW p \in from..from + (end - from) - 1
            PROVE  MarkAt(n, p) = Says(item, from, end, p)
        <5>1. p \in Nat /\ from <= p /\ p < end
          BY <3>2
        <5>2. PICK symbols : symbols = mappingSymbols[n]
          OBVIOUS
        <5>3. symbols = PlaceMappingSymbols(s)
          BY <2>7, <5>2
        <5>4. at[i - 1] <= p /\ p < at[i]
          BY <3>2, <5>1
        <5>5. i \in 1..Len(Contents(s)) /\ item = Contents(s)[i] /\ at = SizesOf(Contents(s), 0)
          BY <2>4, <2>6, <3>1, <3>3
        <5>6. MarkOf(symbols, p) = Says(item, at[i - 1], at[i], p)
          BY <2>3, <3>5, <5>1, <5>3, <5>4, <5>5, BytesAreMarked
        <5> QED
          BY <3>2, <5>2, <5>6 DEF MarkAt, MarkOf
      <4> QED
        BY <3>2, <3>3, <4>1 DEF IsMarked, IsNops, Says
    <3> QED
      BY <3>4, <3>5
  <2>12. PICK sizes : sizes = CHOOSE g : IsSizes(g, items, 0)
    OBVIOUS
  <2>13. sizes = at
    BY <2>6, <2>12 DEF SizesOf
  <2>14. \A i \in DOMAIN items : IsMarked(n, items[i], sizes[i - 1], sizes[i] - sizes[i - 1])
    BY <2>11, <2>13
  <2> QED
    BY <2>5, <2>12, <2>14 DEF IsSizes
<1> QED
  BY <1>1, MarksAlwaysKept, PTL

-----------------------------------------------------------------------------
(* Data a section starts with.  What .byte emits waits to be marked until  *)
(* something else is; the invariant says that then the first event marks   *)
(* it, and no other is about the same offset.                              *)
StartsWithByte(s, slots) ==
    /\ s.frags # <<>>
    /\ s.frags[1][1].is = "byte"
    /\ HasMapping(slots[s.frags[1][1].slot + 1])

FirstIsData(s) ==
    /\ s.mapEvents[1] = At(0, Data)
    /\ \A i \in DOMAIN s.mapEvents : i # 1 => s.mapEvents[i].frag >= 1

Begun(s, slots) ==
    /\ s \in SectionType
    /\ s.mapEvents = <<>> <=> s.mapState = Unmarked
    /\ s.frags # <<>> => s.frags[1] # <<>>
    /\ s.open => s.frags # <<>>
    /\ StartsWithByte(s, slots) /\ s.mapEvents # <<>> => FirstIsData(s)

(* What a statement may do to a section it does not start with a byte.     *)
Continues(s, t, slots) ==
    /\ s.mapEvents # <<>> => t.mapEvents # <<>>
    /\ s.frags # <<>> => t.frags # <<>>
    /\ StartsWithByte(t, slots) => StartsWithByte(s, slots)

(* The statements do several of these one after the other.                 *)
LEMMA ContinuesOn ==
    ASSUME NEW slots, NEW s, NEW t, NEW u, Continues(s, t, slots), Continues(t, u, slots)
    PROVE  Continues(s, u, slots)
BY DEF Continues

(* What leaves the fragments and events alone.                             *)
LEMMA SameBegins ==
    ASSUME NEW slots, NEW s, Begun(s, slots), NEW t \in SectionType,
           t.frags = s.frags, t.mapEvents = s.mapEvents, t.mapState = s.mapState,
           t.open => s.open
    PROVE  Begun(t, slots) /\ Continues(s, t, slots)
BY DEF Begun, StartsWithByte, FirstIsData, Continues

(* Alignment, a label in front.                                            *)
LEMMA AlignedBegins ==
    ASSUME NEW slots, NEW s, Begun(s, slots)
    PROVE  /\ \A n \in Nat : Begun(RaiseAlign(s, n), slots) /\ Continues(s, RaiseAlign(s, n), slots)
           /\ \A labelled \in BOOLEAN : /\ Begun(AtLabel(s, labelled), slots)
                                        /\ Continues(s, AtLabel(s, labelled), slots)
<1>1. s \in SectionType
  BY DEF Begun
<1>2. ASSUME NEW n \in Nat PROVE Begun(RaiseAlign(s, n), slots) /\ Continues(s, RaiseAlign(s, n), slots)
  <2>1. PICK t : t = RaiseAlign(s, n)
    OBVIOUS
  <2>2. t \in SectionType
    BY <1>1, <2>1, SealingIsQuiet DEF Quiet
  <2>3. t.frags = s.frags /\ t.mapEvents = s.mapEvents /\ t.mapState = s.mapState /\ t.open = s.open
    BY <1>1, <2>1 DEF RaiseAlign, SectionType
  <2> QED
    BY <2>1, <2>2, <2>3, SameBegins
<1>3. ASSUME NEW labelled \in BOOLEAN
      PROVE  Begun(AtLabel(s, labelled), slots) /\ Continues(s, AtLabel(s, labelled), slots)
  <2>1. PICK t : t = AtLabel(s, labelled)
    OBVIOUS
  <2>2. t \in SectionType
    BY <1>1, <2>1, SealingIsQuiet DEF Quiet
  <2>3. t.frags = s.frags /\ t.mapEvents = s.mapEvents /\ t.mapState = s.mapState /\ (t.open => s.open)
    BY <1>1, <2>1 DEF AtLabel, Seal, SectionType
  <2> QED
    BY <2>1, <2>2, <2>3, SameBegins
<1> QED
  BY <1>2, <1>3

(* A change of state, to code or from another one.                         *)
LEMMA TransitionBegins ==
    ASSUME NEW slots, NEW s, Begun(s, slots), NEW name \in Marks, NEW always \in BOOLEAN,
           name # Data \/ s.mapEvents # <<>> \/ ~StartsWithByte(s, slots),
           NEW t, t = MapTransition(s, name, always)
    PROVE  Begun(t, slots) /\ Continues(s, t, slots) /\ t.mapEvents # <<>> /\ t.frags = s.frags
<1>1. s \in SectionType /\ (s.mapEvents = <<>> <=> s.mapState = Unmarked)
  BY DEF Begun
<1>2. name # Unmarked
  BY DEF Marks, Modes, Arm, Data, Unmarked
<1>3. CASE s.mapState = name /\ ~always
  <2>1. t = s
    BY <1>3 DEF MapTransition
  <2>2. s.mapEvents # <<>>
    BY <1>1, <1>2, <1>3
  <2> QED
    BY <2>1, <2>2 DEF Continues
<1>4. CASE ~(s.mapState = name /\ ~always)
  <2>1. PICK events : events = s.mapEvents
    OBVIOUS
  <2>2. PICK first : first = IF s.mapState = Unmarked /\ name # Data /\ s.frags # <<>>
                               THEN <<At(0, Data)>> ELSE <<>>
    OBVIOUS
  <2>3. PICK last : last = Len(s.frags)
    OBVIOUS
  <2>4. PICK new : new = At(last, name)
    OBVIOUS
  <2>5. last \in Nat /\ (s.frags # <<>> => last >= 1)
    BY <1>1, <2>3, EventsType DEF SectionType
  <2>6. events \in Seq(Event) /\ first \in Seq(Event) /\ new \in Event
    <3>1. events \in Seq(Event)
      BY <1>1, <2>1 DEF SectionType, Event
    <3>2. At(0, Data) \in Event /\ new \in Event
      BY <2>4, <2>5 DEF At, Event, Marks
    <3> QED
      BY <2>2, <3>1, <3>2
  <2>7. PICK after : after = events \o first \o <<new>>
    OBVIOUS
  <2>8. t = [Seal(s) EXCEPT !.mapState = name, !.mapEvents = after]
    <3>1. Seal(s).mapEvents = events
      BY <1>1, <2>1, SealingIsQuiet
    <3> QED
      BY <1>1, <1>4, <2>2, <2>3, <2>4, <2>7, <3>1 DEF MapTransition, NextFragIndex, Seal, SectionType
  <2>9. /\ t.mapState = name /\ t.mapEvents = after /\ t.frags = s.frags /\ ~t.open
    BY <1>1, <2>8 DEF Seal, SectionType
  <2>10. after \in Seq(Event) /\ after # <<>>
    BY <2>6, <2>7
  <2>11. t \in SectionType
    BY <1>1, <2>8, <2>10 DEF Seal, SectionType, Event
  <2>12. ASSUME StartsWithByte(t, slots) PROVE FirstIsData(t)
    <3>1. StartsWithByte(s, slots) /\ s.frags # <<>>
      BY <2>9, <2>12 DEF StartsWithByte
    <3>2. new.frag >= 1
      BY <2>4, <2>5, <3>1 DEF At
    <3>3. CASE events = <<>>
      <4>1. first = <<At(0, Data)>>
        BY <1>1, <2>1, <2>2, <3>1, <3>3
      <4>2. PICK one : one = At(0, Data)
        OBVIOUS
      <4>3. one \in Event /\ new \in Event /\ <<one>> \in Seq(Event) /\ <<new>> \in Seq(Event)
        BY <2>6, <4>1, <4>2
      <4>4. after = (<<>> \o <<one>>) \o <<new>>
        BY <2>7, <3>3, <4>1, <4>2
      <4>5. <<>> \o <<one>> = <<one>>
        BY <4>3
      <4>6. after = <<one>> \o <<new>>
        BY <4>4, <4>5
      <4>7. DOMAIN after = 1..2 /\ after[1] = one /\ after[2] = new
        BY <4>3, <4>6
      <4>8. \A i \in DOMAIN after : i # 1 => i = 2
        BY <4>7
      <4> QED
        BY <2>9, <3>2, <4>2, <4>7, <4>8 DEF FirstIsData
    <3>4. CASE events # <<>>
      <4>1. after = Append(events, new)
        <5>1. first = <<>>
          BY <1>1, <2>1, <2>2, <3>4
        <5>2. events \o <<>> = events /\ events \o <<new>> = Append(events, new)
          BY <2>6
        <5> QED
          BY <2>7, <5>1, <5>2
      <4>2. FirstIsData(s)
        BY <2>1, <3>1, <3>4 DEF Begun
      <4>3. Len(events) \in Nat /\ Len(events) >= 1 /\ DOMAIN events = 1..Len(events)
        BY <2>6, <3>4
      <4>4. /\ DOMAIN after = 1..Len(events) + 1 /\ after[Len(events) + 1] = new
            /\ \A i \in DOMAIN events : after[i] = events[i]
        BY <2>6, <4>1
      <4>5. after[1] = At(0, Data)
        BY <2>1, <4>2, <4>3, <4>4 DEF FirstIsData
      <4>6. ASSUME NEW i \in DOMAIN after, i # 1 PROVE after[i].frag >= 1
        <5>1. CASE i \in DOMAIN events
          BY <2>1, <4>2, <4>4, <4>6, <5>1 DEF FirstIsData
        <5>2. CASE i \notin DOMAIN events
          <6>1. i = Len(events) + 1
            BY <4>3, <4>4, <5>2
          <6> QED
            BY <3>2, <4>4, <6>1
        <5> QED
          BY <5>1, <5>2
      <4> QED
        BY <2>9, <4>5, <4>6 DEF FirstIsData
    <3> QED
      BY <3>3, <3>4
  <2> QED
    BY <1>2, <2>9, <2>10, <2>11, <2>12 DEF Begun, Continues, StartsWithByte
<1> QED
  BY <1>3, <1>4

(* The event of odd bytes, after another one.                              *)
LEMMA OddBegins ==
    ASSUME NEW slots, NEW s, Begun(s, slots), s.mapEvents # <<>>, NEW mode \in Modes,
           NEW t, t = [s EXCEPT !.mapEvents = Append(@, OddPadding(NextFragIndex(s), mode))]
    PROVE  Begun(t, slots) /\ Continues(s, t, slots) /\ t.frags = s.frags
<1>1. s \in SectionType /\ (s.mapEvents = <<>> <=> s.mapState = Unmarked)
  BY DEF Begun
<1>2. PICK events : events = s.mapEvents
  OBVIOUS
<1>3. PICK last : last = Len(s.frags)
  OBVIOUS
<1>4. PICK new : new = OddPadding(last, mode)
  OBVIOUS
<1>5. last \in Nat /\ (s.frags # <<>> => last >= 1)
  BY <1>1, <1>3, EventsType DEF SectionType
<1>6. events \in Seq(Event) /\ new \in Event
  <2>1. events \in Seq(Event)
    BY <1>1, <1>2 DEF SectionType, Event
  <2>2. new \in Event
    BY <1>4, <1>5 DEF OddPadding, Event, Marks
  <2> QED
    BY <2>1, <2>2
<1>7. PICK after : after = Append(events, new)
  OBVIOUS
<1>8. /\ t.mapState = s.mapState /\ t.mapEvents = after /\ t.frags = s.frags /\ t.open = s.open
  BY <1>1, <1>2, <1>3, <1>4, <1>7 DEF NextFragIndex, SectionType
<1>9. after \in Seq(Event) /\ after # <<>>
  BY <1>6, <1>7
<1>10. t = [s EXCEPT !.mapEvents = after]
  BY <1>1, <1>2, <1>3, <1>4, <1>7 DEF NextFragIndex, SectionType
<1>11. t \in SectionType
  BY <1>1, <1>9, <1>10 DEF SectionType, Event
<1>12. ASSUME StartsWithByte(t, slots) PROVE FirstIsData(t)
  <2>1. StartsWithByte(s, slots) /\ s.frags # <<>>
    BY <1>8, <1>12 DEF StartsWithByte
  <2>2. new.frag >= 1
    BY <1>4, <1>5, <2>1 DEF OddPadding
  <2>3. FirstIsData(s)
    BY <2>1 DEF Begun
  <2>4. Len(events) \in Nat /\ Len(events) >= 1 /\ DOMAIN events = 1..Len(events)
    BY <1>2, <1>6
  <2>5. /\ DOMAIN after = 1..Len(events) + 1 /\ after[Len(events) + 1] = new
        /\ \A i \in DOMAIN events : after[i] = events[i]
    BY <1>6, <1>7
  <2>6. after[1] = At(0, Data)
    BY <1>2, <2>3, <2>4, <2>5 DEF FirstIsData
  <2>7. ASSUME NEW i \in DOMAIN after, i # 1 PROVE after[i].frag >= 1
    <3>1. CASE i \in DOMAIN events
      BY <1>2, <2>3, <2>5, <2>7, <3>1 DEF FirstIsData
    <3>2. CASE i \notin DOMAIN events
      <4>1. i = Len(events) + 1
        BY <2>4, <2>5, <3>2
      <4> QED
        BY <2>2, <2>5, <4>1
    <3> QED
      BY <3>1, <3>2
  <2> QED
    BY <1>8, <2>6, <2>7 DEF FirstIsData
<1> QED
  BY <1>1, <1>8, <1>9, <1>11, <1>12 DEF Begun, Continues, StartsWithByte
(* What emits a fragment of its own.                                       *)
LEMMA PushBegins ==
    ASSUME NEW slots, NEW s, Begun(s, slots), NEW item \in Item,
           s.frags # <<>> \/ item.is # "byte",
           NEW t, t = Push(s, item)
    PROVE  /\ Begun(t, slots) /\ Continues(s, t, slots)
           /\ t.frags # <<>> /\ t.mapEvents = s.mapEvents
<1>1. s \in SectionType /\ (s.mapEvents = <<>> <=> s.mapState = Unmarked)
  BY DEF Begun
<1>2. /\ t \in SectionType /\ t.frags = Append(s.frags, <<item>>) /\ ~t.open
      /\ t.mapEvents = s.mapEvents /\ t.mapState = s.mapState
  BY <1>1, PushPushes DEF Pushed, Push, SectionType
<1>3. PICK frags : frags = s.frags
  OBVIOUS
<1>4. frags \in Seq(Seq(Item)) /\ Len(frags) \in Nat /\ <<item>> \in Seq(Item) /\ <<item>> # <<>>
  BY <1>1, <1>3 DEF SectionType
<1>5. t.frags # <<>> /\ (frags # <<>> => t.frags[1] = frags[1])
      /\ (frags = <<>> => t.frags[1] = <<item>>)
  BY <1>2, <1>3, <1>4
<1>6. t.frags[1] # <<>>
  BY <1>3, <1>4, <1>5 DEF Begun
<1>7. StartsWithByte(t, slots) => StartsWithByte(s, slots)
  <2>1. frags = <<>> => t.frags[1][1] = item
    BY <1>5
  <2> QED
    BY <1>3, <1>5, <2>1 DEF StartsWithByte
<1>8. StartsWithByte(t, slots) /\ t.mapEvents # <<>> => FirstIsData(t)
  BY <1>2, <1>7 DEF Begun, FirstIsData
<1> QED
  BY <1>1, <1>2, <1>5, <1>6, <1>7, <1>8 DEF Begun, Continues

(* Data appended to an open fragment, or not.                              *)
LEMMA EmitBytesBegins ==
    ASSUME NEW slots, NEW s, Begun(s, slots), NEW item \in Item,
           s.frags # <<>> \/ s.mapEvents = <<>>,
           NEW t, t = EmitBytes(s, item)
    PROVE  Begun(t, slots) /\ t.frags # <<>> /\ t.mapEvents = s.mapEvents
<1>1. s \in SectionType /\ (s.mapEvents = <<>> <=> s.mapState = Unmarked)
      /\ (s.open => s.frags # <<>>)
  BY DEF Begun
<1>2. PICK frags : frags = s.frags
  OBVIOUS
<1>3. PICK last : last = Len(frags)
  OBVIOUS
<1>4. frags \in Seq(Seq(Item)) /\ last \in Nat /\ <<item>> \in Seq(Item) /\ <<item>> # <<>>
  BY <1>1, <1>2, <1>3 DEF SectionType
<1>5. Merged(s, t, item)
  BY <1>1, EmitBytesMerges
<1>6. t \in SectionType
  BY <1>5 DEF Merged
<1>7. t.mapEvents = s.mapEvents /\ t.mapState = s.mapState
  BY <1>1 DEF EmitBytes, SectionType
<1>8. /\ t.frags # <<>> /\ t.frags[1] # <<>>
      /\ frags # <<>> => t.frags[1][1] = frags[1][1]
  <2>1. CASE s.open
    <3>1. t.frags = [frags EXCEPT ![last] = Append(frags[last], item)]
      BY <1>1, <1>2, <1>3, <2>1 DEF EmitBytes, SectionType
    <3>2. last \in DOMAIN frags /\ 1 \in DOMAIN frags /\ DOMAIN t.frags = DOMAIN frags
      BY <1>1, <1>2, <1>3, <1>4, <2>1, <3>1
    <3>3. frags[last] \in Seq(Item) /\ frags[1] \in Seq(Item) /\ frags[1] # <<>>
      BY <1>1, <1>2, <1>4, <2>1, <3>2 DEF Begun
    <3>4. CASE last = 1
      <4>1. t.frags[1] = Append(frags[1], item)
        BY <3>1, <3>2, <3>4
      <4>2. Append(frags[1], item) # <<>> /\ Append(frags[1], item)[1] = frags[1][1]
        BY <3>3
      <4>3. t.frags # <<>>
        BY <3>2
      <4> QED
        BY <4>1, <4>2, <4>3
    <3>5. CASE last # 1
      <4>1. t.frags[1] = frags[1]
        BY <3>1, <3>2, <3>5
      <4>2. t.frags # <<>>
        BY <3>2
      <4> QED
        BY <3>3, <4>1, <4>2
    <3> QED
      BY <3>4, <3>5
  <2>2. CASE ~s.open
    <3>1. t.frags = Append(frags, <<item>>)
      BY <1>1, <1>2, <2>2 DEF EmitBytes, SectionType
    <3>2. t.frags # <<>> /\ (frags # <<>> => t.frags[1] = frags[1])
          /\ (frags = <<>> => t.frags[1] = <<item>>)
      BY <1>4, <3>1
    <3> QED
      BY <1>2, <1>4, <3>2 DEF Begun
  <2> QED
    BY <2>1, <2>2
<1>9. StartsWithByte(t, slots) /\ t.mapEvents # <<>> => FirstIsData(t)
  <2>1. s.frags # <<>> /\ StartsWithByte(t, slots) => StartsWithByte(s, slots)
    BY <1>2, <1>8 DEF StartsWithByte
  <2> QED
    BY <1>7, <2>1 DEF Begun, FirstIsData
<1> QED
  BY <1>1, <1>6, <1>7, <1>8, <1>9 DEF Begun

(* The marks of code, data and padding.                                    *)
LEMMA MarkingBegins ==
    ASSUME NEW slots, NEW s, Begun(s, slots), NEW mode \in Modes
    PROVE  /\ Begun(MapCode(s, mode), slots) /\ Continues(s, MapCode(s, mode), slots)
           /\ Begun(MapData(s, mode), slots) /\ Continues(s, MapData(s, mode), slots)
           /\ s.mapEvents = <<>> => MapData(s, mode) = s
           /\ s.mapEvents # <<>> \/ ~StartsWithByte(s, slots) =>
                 Begun(MapDataFrag(s, mode), slots) /\ Continues(s, MapDataFrag(s, mode), slots)
           /\ Begun(MapAlign(s, mode), slots) /\ Continues(s, MapAlign(s, mode), slots)
           /\ Begun(MapCodeAlign(s, mode), slots) /\ Continues(s, MapCodeAlign(s, mode), slots)
<1>1. /\ s \in SectionType /\ (s.mapEvents = <<>> <=> s.mapState = Unmarked)
      /\ mode \in Marks /\ Data \in Marks /\ mode # Data /\ FALSE \in BOOLEAN
      /\ Continues(s, s, slots) /\ CodeUnit(mode) \in Nat
  BY DEF Begun, Marks, Modes, Arm, Data, Continues, CodeUnit
<1>2. Begun(MapCode(s, mode), slots) /\ Continues(s, MapCode(s, mode), slots)
  <2>1. PICK u : u = RaiseAlign(s, CodeUnit(mode))
    OBVIOUS
  <2>2. Begun(u, slots) /\ Continues(s, u, slots)
    BY <1>1, <2>1, AlignedBegins
  <2>3. PICK t : t = MapTransition(u, mode, FALSE)
    OBVIOUS
  <2>4. Begun(t, slots) /\ Continues(u, t, slots)
    BY <1>1, <2>2, <2>3, TransitionBegins
  <2>5. Continues(s, t, slots)
    BY <2>2, <2>4, ContinuesOn
  <2>6. MapCode(s, mode) = s \/ MapCode(s, mode) = t
    BY <2>1, <2>3 DEF MapCode
  <2> QED
    BY <1>1, <2>4, <2>5, <2>6
<1>3. ASSUME s.mapEvents # <<>> \/ ~StartsWithByte(s, slots), NEW t, t = MapTransition(s, Data, FALSE)
      PROVE  Begun(t, slots) /\ Continues(s, t, slots)
  BY <1>1, <1>3, TransitionBegins
<1>4. /\ Begun(MapData(s, mode), slots) /\ Continues(s, MapData(s, mode), slots)
      /\ s.mapEvents = <<>> => MapData(s, mode) = s
  <2>1. CASE MapData(s, mode) = s
    BY <1>1, <2>1
  <2>2. CASE MapData(s, mode) # s
    <3>1. s.mapState # Unmarked /\ MapData(s, mode) = MapTransition(s, Data, FALSE)
      BY <2>2 DEF MapData
    <3>2. s.mapEvents # <<>>
      BY <1>1, <3>1
    <3> QED
      BY <1>3, <3>1, <3>2
  <2> QED
    BY <2>1, <2>2
<1>5. s.mapEvents # <<>> \/ ~StartsWithByte(s, slots) =>
          Begun(MapDataFrag(s, mode), slots) /\ Continues(s, MapDataFrag(s, mode), slots)
  BY <1>1, <1>3 DEF MapDataFrag
<1>6. Begun(MapAlign(s, mode), slots) /\ Continues(s, MapAlign(s, mode), slots)
  <2>1. PICK u : u = MapTransition(s, mode, FALSE)
    OBVIOUS
  <2>2. Begun(u, slots) /\ Continues(s, u, slots) /\ u.mapEvents # <<>>
    <3>1. mode \in Marks /\ mode # Data /\ FALSE \in BOOLEAN
      BY <1>1
    <3> QED
      BY <2>1, <3>1, TransitionBegins
  <2>3. PICK t : t = [u EXCEPT !.mapEvents = Append(@, OddPadding(NextFragIndex(u), mode))]
    OBVIOUS
  <2>4. Begun(t, slots) /\ Continues(u, t, slots)
    BY <2>2, <2>3, OddBegins
  <2>5. Continues(s, t, slots)
    BY <2>2, <2>4, ContinuesOn
  <2>6. MapAlign(s, mode) = t
    BY <2>1, <2>3 DEF MapAlign
  <2> QED
    BY <2>4, <2>5, <2>6
<1>7. Begun(MapCodeAlign(s, mode), slots) /\ Continues(s, MapCodeAlign(s, mode), slots)
  BY <1>1, <1>6 DEF MapCodeAlign
<1> QED
  BY <1>2, <1>4, <1>5, <1>6, <1>7
(* The padding of a pool.                                                  *)
LEMMA AlignZeroBegins ==
    ASSUME TypeOK, NEW s, Begun(s, archSlots), s.mapEvents # <<>>, NEW n \in Nat \ {0},
           NEW t, t = AlignZero(s, n)
    PROVE  /\ Begun(t, archSlots) /\ Continues(s, t, archSlots)
           /\ t.frags # <<>> /\ t.mapEvents # <<>>
<1>1. Slot \in Nat /\ Mode \in Modes /\ Data \in Marks /\ NoLimit \in Nat
  BY ActiveBackend DEF Marks, NoLimit
<1>2. PICK item : item = Padding(n, Data, NoLimit, Slot)
  OBVIOUS
<1>3. item \in Item /\ item.is = "pad"
  BY <1>1, <1>2, ItemsOfSlot
<1>4. PICK u : u = IF AlignPaddingIsCode(Mode) THEN MapCode(s, Mode) ELSE MapDataFrag(s, Mode)
  OBVIOUS
<1>5. Begun(u, archSlots) /\ Continues(s, u, archSlots)
  BY <1>1, <1>4, MarkingBegins
<1>6. t = Push(u, item)
  BY <1>2, <1>4 DEF AlignZero
<1>7. /\ Begun(t, archSlots) /\ Continues(u, t, archSlots)
      /\ t.frags # <<>> /\ t.mapEvents = u.mapEvents
  BY <1>3, <1>5, <1>6, PushBegins
<1>8. Continues(s, t, archSlots)
  BY <1>5, <1>7, ContinuesOn
<1> QED
  BY <1>7, <1>8 DEF Continues

(* A pool: there is one only where code is, which is marked.               *)
LEMMA FlushBegins ==
    ASSUME TypeOK, NEW s, Begun(s, archSlots), NEW pool \in PoolOfLiterals,
           pool # <<>> => s.mapEvents # <<>>,
           NEW t, t = FlushLiterals(s, pool)
    PROVE  /\ Begun(t, archSlots) /\ Continues(s, t, archSlots)
           /\ t.frags = <<>> => t = s
<1>1. Data \in Marks /\ 4 \in Nat \ {0} /\ TRUE \in BOOLEAN
  BY DEF Marks
<1>2. CASE pool = <<>>
  BY <1>2 DEF FlushLiterals, Continues
<1>3. CASE pool # <<>>
  <2>1. PICK zero : zero = AlignZero(s, 4)
    OBVIOUS
  <2>2. /\ Begun(zero, archSlots) /\ Continues(s, zero, archSlots)
        /\ zero.frags # <<>> /\ zero.mapEvents # <<>>
    BY <1>1, <1>3, <2>1, AlignZeroBegins
  <2>3. PICK u : u = RaiseAlign(zero, 4)
    OBVIOUS
  <2>4. Begun(u, archSlots) /\ Continues(zero, u, archSlots)
    BY <1>1, <2>2, <2>3, AlignedBegins
  <2>5. u.mapEvents # <<>> /\ u.frags # <<>>
    BY <2>2, <2>4 DEF Continues
  <2>6. PICK start : start = MapTransition(u, Data, TRUE)
    OBVIOUS
  <2>7. /\ Begun(start, archSlots) /\ Continues(u, start, archSlots)
        /\ start.frags = u.frags
    <3>1. PICK always \in BOOLEAN : always = TRUE
      OBVIOUS
    <3>2. start = MapTransition(u, Data, always)
      BY <2>6, <3>1
    <3> QED
      BY <1>1, <2>4, <2>5, <3>2, TransitionBegins
  <2>8. start = PoolStart(s)
    BY <2>1, <2>3, <2>6 DEF PoolStart
  <2>9. PICK items : items = Entries(pool)
    OBVIOUS
  <2>10. items \in Seq(Item)
    BY <1>3, <2>9, EntriesType
  <2>11. PICK more : more = [k \in DOMAIN items |-> <<items[k]>>]
    OBVIOUS
  <2>12. t = [start EXCEPT !.frags = @ \o more, !.open = TRUE]
    <3>1. DOMAIN items = DOMAIN PoolValues(pool)
      BY <2>9, EntriesType
    <3>2. more = [k \in DOMAIN PoolValues(pool) |-> <<PoolEntry(PoolValues(pool)[k], Slot)>>]
      BY <2>9, <2>11, <3>1 DEF Entries
    <3> QED
      BY <1>3, <2>8, <3>2 DEF FlushLiterals
  <2>13. start \in SectionType
    BY <2>7 DEF Begun
  <2>14. /\ t.frags = start.frags \o more /\ t.open /\ t.mapEvents = start.mapEvents
         /\ t.mapState = start.mapState
    BY <2>12, <2>13 DEF SectionType
  <2>15. more \in Seq(Seq(Item)) /\ start.frags \in Seq(Seq(Item)) /\ start.frags # <<>>
    <3>1. DOMAIN items = 1..Len(items) /\ Len(items) \in Nat
      BY <2>10
    <3>2. \A k \in 1..Len(items) : <<items[k]>> \in Seq(Item)
      BY <2>10
    <3>3. more \in Seq(Seq(Item))
      BY <2>11, <3>1, <3>2
    <3> QED
      BY <2>5, <2>7, <2>13, <3>3 DEF SectionType
  <2>16. t.frags # <<>> /\ t.frags[1] = start.frags[1] /\ t.frags \in Seq(Seq(Item))
    BY <2>14, <2>15
  <2>17. t \in SectionType
    BY <2>12, <2>13, <2>14, <2>16 DEF SectionType
  <2>18. StartsWithByte(t, archSlots) => StartsWithByte(start, archSlots)
    BY <2>15, <2>16 DEF StartsWithByte
  <2>19. StartsWithByte(t, archSlots) /\ t.mapEvents # <<>> => FirstIsData(t)
    BY <2>7, <2>14, <2>18 DEF Begun, FirstIsData
  <2>20. Begun(t, archSlots)
    BY <2>7, <2>14, <2>15, <2>16, <2>17, <2>19 DEF Begun
  <2>21. Continues(start, t, archSlots)
    BY <2>14, <2>16, <2>18 DEF Continues
  <2>22. Continues(s, start, archSlots)
    BY <2>2, <2>4, <2>7, ContinuesOn
  <2> QED
    BY <2>16, <2>20, <2>21, <2>22, ContinuesOn
<1> QED
  BY <1>2, <1>3

(* An instruction.                                                         *)
LEMMA InstructionBegins ==
    ASSUME TypeOK, NEW s, Begun(s, archSlots), NEW n \in Nat,
           NEW t, t = EmitInstruction(s, n)
    PROVE  /\ Begun(t, archSlots) /\ Continues(s, t, archSlots) /\ t.frags # <<>>
           /\ HasMapping(Mode) => t.mapEvents # <<>>
<1>1. Slot \in Nat /\ Mode \in Modes
  BY ActiveBackend
<1>2. PICK item : item = Insn(n, Mode, Slot)
  OBVIOUS
<1>3. item \in Item /\ item.is = "insn"
  BY <1>1, <1>2, ItemsOfSlot
<1>4. PICK u : u = MapCode(s, Mode)
  OBVIOUS
<1>5. Begun(u, archSlots) /\ Continues(s, u, archSlots)
  BY <1>1, <1>4, MarkingBegins
<1>6. PICK v : v = Push(u, item)
  OBVIOUS
<1>7. Begun(v, archSlots) /\ Continues(u, v, archSlots) /\ v.frags # <<>> /\ v.mapEvents = u.mapEvents
  BY <1>3, <1>5, <1>6, PushBegins
<1>8. v \in SectionType
  BY <1>7 DEF Begun
<1>9. /\ t \in SectionType /\ t.frags = v.frags /\ t.mapEvents = v.mapEvents
      /\ t.mapState = v.mapState /\ t.open = v.open
  BY <1>1, <1>2, <1>4, <1>6, <1>8 DEF EmitInstruction, SectionType, PadsAsLastInstruction
<1>10. Begun(t, archSlots) /\ Continues(v, t, archSlots)
  BY <1>7, <1>9, SameBegins
<1>11. Continues(s, t, archSlots)
  BY <1>5, <1>7, <1>10, ContinuesOn
<1>12. HasMapping(Mode) => u.mapEvents # <<>>
  <2>1. ASSUME HasMapping(Mode) PROVE u.mapEvents # <<>>
    <3>1. CASE s.mapState = Mode
      <4>1. Mode # Unmarked
        BY <1>1 DEF Modes, Arm, Unmarked
      <4>2. u = s
        BY <1>4, <3>1 DEF MapCode
      <4> QED
        BY <3>1, <4>1, <4>2 DEF Begun
    <3>2. CASE s.mapState # Mode
      <4>1. PICK w : w = RaiseAlign(s, CodeUnit(Mode))
        OBVIOUS
      <4>2. CodeUnit(Mode) \in Nat /\ Mode \in Marks /\ Mode # Data /\ FALSE \in BOOLEAN
        BY <1>1 DEF CodeUnit, Marks, Modes, Arm, Data
      <4>3. Begun(w, archSlots)
        BY <4>1, <4>2, AlignedBegins
      <4>4. u = MapTransition(w, Mode, FALSE)
        BY <1>4, <2>1, <3>2, <4>1 DEF MapCode
      <4> QED
        BY <4>2, <4>3, <4>4, TransitionBegins
    <3> QED
      BY <3>1, <3>2
  <2> QED
    BY <2>1
<1> QED
  BY <1>7, <1>9, <1>10, <1>11, <1>12

(* The boundary of a prefixed one.                                         *)
LEMMA NopsBegin ==
    ASSUME TypeOK, NEW s, Begun(s, archSlots), NEW n \in Nat, NEW most \in Nat,
           NEW t, t = Push(MapCodeAlign(s, NopMode(s)), Padding(n, NopMode(s), most, Slot))
    PROVE  Begun(t, archSlots) /\ Continues(s, t, archSlots) /\ t.frags # <<>>
<1>1. Slot \in Nat /\ NopMode(s) \in Modes /\ NopMode(s) \in Marks
  <2>1. s.nopState \in Arm \cup {Unmarked}
    BY DEF Begun, SectionType
  <2> QED
    BY <2>1, ActiveBackend DEF NopMode, Marks, Modes
<1>2. PICK item : item = Padding(n, NopMode(s), most, Slot)
  OBVIOUS
<1>3. item \in Item /\ item.is = "pad"
  BY <1>1, <1>2, ItemsOfSlot
<1>4. PICK u : u = MapCodeAlign(s, NopMode(s))
  OBVIOUS
<1>5. Begun(u, archSlots) /\ Continues(s, u, archSlots)
  BY <1>1, <1>4, MarkingBegins
<1>6. t = Push(u, item)
  BY <1>2, <1>4
<1>7. Begun(t, archSlots) /\ Continues(u, t, archSlots) /\ t.frags # <<>>
  BY <1>3, <1>5, <1>6, PushBegins
<1> QED
  BY <1>5, <1>7, ContinuesOn
-----------------------------------------------------------------------------
(* What holds of every section while a source is read that uses none of    *)
(* the directives that mark what they emit, and no error is found.  .bss   *)
(* takes no data, and a pool waits only where code has been marked.        *)
Restricted == source.statements \cap {"align", "space", "org", "mode"} = {}

Fine(n, s, slots, pool) ==
    /\ Begun(s, slots)
    /\ s.frags = <<>> => s.mapEvents = <<>>
    /\ n = "bss" => ~StartsWithByte(s, slots)
    /\ pool # <<>> => s.mapEvents # <<>>

AllFine ==
    /\ \A n \in DOMAIN sections : Fine(n, sections[n], archSlots, literalPools[n])
    /\ \A n \in AllSections : literalPools[n] # <<>> => n \in DOMAIN sections

(* A section goes on as one of those.                                      *)
LEMMA FineContinues ==
    ASSUME NEW slots, NEW pool, NEW n, NEW s, Fine(n, s, slots, pool),
           NEW t, Begun(t, slots), Continues(s, t, slots),
           t.frags # <<>> \/ t.mapEvents = s.mapEvents
    PROVE  Fine(n, t, slots, pool)
BY DEF Fine, Continues

(* A statement about the current section.                                  *)
LEMMA CurrentFine ==
    ASSUME TypeOK, IInv, AllFine, NEW t, NEW pool, Fine(cur, t, archSlots, pool),
           sections' = [sections EXCEPT ![cur] = t], archSlots' = archSlots,
           literalPools' = [literalPools EXCEPT ![cur] = pool]
    PROVE  AllFine'
<1>1. cur \in DOMAIN sections /\ cur \in AllSections
  BY CurrentSection
<1>2. DOMAIN literalPools = AllSections /\ DOMAIN sections \subseteq AllSections
  BY DEF TypeOK
<1>3. DOMAIN sections' = DOMAIN sections
  OBVIOUS
<1>4. ASSUME NEW n \in DOMAIN sections' PROVE Fine(n, sections'[n], archSlots', literalPools'[n])
  <2>1. CASE n = cur
    BY <1>1, <1>2, <2>1
  <2>2. CASE n # cur
    <3>1. sections'[n] = sections[n] /\ literalPools'[n] = literalPools[n]
      BY <1>2, <1>3, <1>4, <2>2
    <3> QED
      BY <1>3, <1>4, <3>1 DEF AllFine
  <2> QED
    BY <2>1, <2>2
<1>5. ASSUME NEW n \in AllSections, literalPools'[n] # <<>> PROVE n \in DOMAIN sections'
  <2>1. CASE n = cur
    BY <1>1, <2>1
  <2>2. CASE n # cur
    BY <1>2, <1>3, <1>5, <2>2 DEF AllFine
  <2> QED
    BY <2>1, <2>2
<1> QED
  BY <1>4, <1>5 DEF AllFine

(* The current section, and that its pool may stay.                        *)
LEMMA CurrentIsFine ==
    ASSUME TypeOK, IInv, AllFine
    PROVE  /\ Fine(cur, sections[cur], archSlots, literalPools[cur])
           /\ literalPools = [literalPools EXCEPT ![cur] = literalPools[cur]]
           /\ literalPools[cur] \in PoolOfLiterals
           /\ Slot \in Nat /\ Mode \in Modes
<1>1. cur \in DOMAIN sections /\ cur \in AllSections
  BY CurrentSection
<1>2. literalPools \in [AllSections -> Seq(Nat \ {0})]
  BY DEF TypeOK
<1> QED
  BY <1>1, <1>2, ActiveBackend DEF AllFine, PoolOfLiterals

(* Labels and data.                                                        *)
LEMMA DataFine ==
    ASSUME TypeOK, IInv, AllFine
    PROVE  /\ DefineLabel => AllFine'
           /\ \A labelled \in BOOLEAN : DirData(labelled) /\ ~failed' => AllFine'
<1>1. PICK s : s = sections[cur]
  OBVIOUS
<1>2. PICK pool : pool = literalPools[cur]
  OBVIOUS
<1>3. /\ Fine(cur, s, archSlots, pool) /\ Begun(s, archSlots)
      /\ literalPools = [literalPools EXCEPT ![cur] = pool]
      /\ Slot \in Nat /\ Mode \in Modes
  BY <1>1, <1>2, CurrentIsFine DEF Fine
<1>4. ASSUME NEW labelled \in BOOLEAN
      PROVE  /\ Fine(cur, AtLabel(s, labelled), archSlots, pool)
             /\ AtLabel(s, labelled).frags = s.frags
  <2>1. PICK a : a = AtLabel(s, labelled)
    OBVIOUS
  <2>2. Begun(a, archSlots) /\ Continues(s, a, archSlots)
    BY <1>3, <2>1, AlignedBegins
  <2>3. a.mapEvents = s.mapEvents /\ a.frags = s.frags
    BY <1>3, <2>1 DEF AtLabel, Seal, Begun, SectionType
  <2> QED
    BY <1>3, <2>1, <2>2, <2>3, FineContinues
<1>5. ASSUME DefineLabel PROVE AllFine'
  <2>1. PICK labelled \in BOOLEAN : labelled = TRUE
    OBVIOUS
  <2>2. PICK t : t = AtLabel(s, labelled)
    OBVIOUS
  <2>3. /\ sections' = [sections EXCEPT ![cur] = t] /\ archSlots' = archSlots
        /\ literalPools' = literalPools
    BY <1>1, <1>5, <2>1, <2>2 DEF DefineLabel
  <2>4. Fine(cur, t, archSlots, pool)
    BY <1>4, <2>2
  <2> QED
    BY <1>3, <2>3, <2>4, CurrentFine
<1>6. ASSUME NEW labelled \in BOOLEAN, DirData(labelled), ~failed' PROVE AllFine'
  <2>1. ~IsNobits(cur)
    BY <1>6 DEF DirData
  <2>2. PICK a : a = AtLabel(s, labelled)
    OBVIOUS
  <2>3. Fine(cur, a, archSlots, pool) /\ Begun(a, archSlots)
    BY <1>4, <2>2 DEF Fine
  <2>4. PICK m : m = MapData(a, Mode)
    OBVIOUS
  <2>5. Begun(m, archSlots) /\ Continues(a, m, archSlots) /\ (a.mapEvents = <<>> => m = a)
    BY <1>3, <2>3, <2>4, MarkingBegins
  <2>6. m.frags # <<>> \/ m.mapEvents = <<>>
    BY <2>3, <2>5 DEF Fine, Continues
  <2>7. PICK item : item = Byte(Slot)
    OBVIOUS
  <2>8. item \in Item
    BY <1>3, <2>7, ItemsOfSlot
  <2>9. PICK t : t = EmitBytes(m, item)
    OBVIOUS
  <2>10. Begun(t, archSlots) /\ t.frags # <<>> /\ t.mapEvents = m.mapEvents
    BY <2>5, <2>6, <2>8, <2>9, EmitBytesBegins
  <2>11. cur # "bss"
    BY <2>1 DEF IsNobits
  <2>12. Fine(cur, t, archSlots, pool)
    BY <2>3, <2>5, <2>10, <2>11 DEF Fine, Continues
  <2>13. /\ sections' = [sections EXCEPT ![cur] = t] /\ archSlots' = archSlots
         /\ literalPools' = literalPools
    BY <1>1, <1>6, <2>1, <2>2, <2>4, <2>7, <2>9 DEF DirData
  <2> QED
    BY <1>3, <2>12, <2>13, CurrentFine
<1> QED
  BY <1>5, <1>6

(* Instructions and loads.                                                 *)
LEMMA CodeFine ==
    ASSUME TypeOK, IInv, AllFine
    PROVE  /\ \A labelled \in BOOLEAN :
                 Instruction(labelled) \/ PrefixedInstruction(labelled) => AllFine'
           /\ \A value \in source.values : LoadLiteral(value) => AllFine'
<1>1. PICK s : s = sections[cur]
  OBVIOUS
<1>2. PICK pool : pool = literalPools[cur]
  OBVIOUS
<1>3. /\ Fine(cur, s, archSlots, pool) /\ Begun(s, archSlots)
      /\ literalPools = [literalPools EXCEPT ![cur] = pool]
      /\ Slot \in Nat /\ Mode \in Modes
  BY <1>1, <1>2, CurrentIsFine DEF Fine
<1>4. CodeUnit(Mode) \in Nat
  BY DEF CodeUnit
<1>5. ASSUME NEW value \in source.values, LoadLiteral(value) PROVE AllFine'
  <2>1. PICK t : t = EmitInstruction(s, CodeUnit(Mode))
    OBVIOUS
  <2>2. HasMapping(Mode)
    BY <1>5 DEF LoadLiteral, HasLiteralPool, HasMapping
  <2>3. /\ Begun(t, archSlots) /\ Continues(s, t, archSlots)
        /\ t.frags # <<>> /\ t.mapEvents # <<>>
    BY <1>3, <1>4, <2>1, <2>2, InstructionBegins
  <2>4. PICK more : more = Append(pool, value)
    OBVIOUS
  <2>5. Fine(cur, t, archSlots, more)
    BY <1>3, <2>3 DEF Fine, Continues
  <2>6. /\ sections' = [sections EXCEPT ![cur] = t] /\ archSlots' = archSlots
        /\ literalPools' = [literalPools EXCEPT ![cur] = more]
    BY <1>1, <1>2, <1>5, <2>1, <2>4 DEF LoadLiteral
  <2> QED
    BY <2>5, <2>6, CurrentFine
<1>6. ASSUME NEW labelled \in BOOLEAN, Instruction(labelled) PROVE AllFine'
  <2>1. PICK a : a = AtLabel(s, labelled)
    OBVIOUS
  <2>2. Begun(a, archSlots) /\ Continues(s, a, archSlots)
    BY <1>3, <2>1, AlignedBegins
  <2>3. PICK t : t = EmitInstruction(a, CodeUnit(Mode))
    OBVIOUS
  <2>4. Begun(t, archSlots) /\ Continues(a, t, archSlots) /\ t.frags # <<>>
    BY <1>4, <2>2, <2>3, InstructionBegins
  <2>5. Fine(cur, t, archSlots, pool)
    BY <1>3, <2>2, <2>4, ContinuesOn, FineContinues
  <2>6. /\ sections' = [sections EXCEPT ![cur] = t] /\ archSlots' = archSlots
        /\ literalPools' = literalPools
    BY <1>1, <1>6, <2>1, <2>3 DEF Instruction
  <2> QED
    BY <1>3, <2>5, <2>6, CurrentFine
<1>7. ASSUME NEW labelled \in BOOLEAN, PrefixedInstruction(labelled) PROVE AllFine'
  <2>1. PICK a : a = AtLabel(s, labelled)
    OBVIOUS
  <2>2. Begun(a, archSlots) /\ Continues(s, a, archSlots)
    BY <1>3, <2>1, AlignedBegins
  <2>3. PrefixBoundary \in Nat /\ 4 \in Nat /\ 8 \in Nat
    BY DEF PrefixBoundary
  <2>4. PICK padded : padded = BeforePrefixed(a)
    OBVIOUS
  <2>5. padded = Push(MapCodeAlign(a, NopMode(a)), Padding(PrefixBoundary, NopMode(a), 4, Slot))
    BY <2>4 DEF BeforePrefixed
  <2>6. Begun(padded, archSlots) /\ Continues(a, padded, archSlots)
    BY <2>2, <2>3, <2>5, NopsBegin
  <2>7. PICK u : u = EmitInstruction(padded, 8)
    OBVIOUS
  <2>8. Begun(u, archSlots) /\ Continues(padded, u, archSlots) /\ u.frags # <<>>
    BY <2>3, <2>6, <2>7, InstructionBegins
  <2>9. PICK t : t = RaiseAlign(u, PrefixBoundary)
    OBVIOUS
  <2>10. Begun(t, archSlots) /\ Continues(u, t, archSlots)
    BY <2>3, <2>8, <2>9, AlignedBegins
  <2>11. Continues(s, t, archSlots) /\ t.frags # <<>>
    <3>1. Continues(s, padded, archSlots)
      BY <2>2, <2>6, ContinuesOn
    <3>2. Continues(s, u, archSlots)
      BY <2>8, <3>1, ContinuesOn
    <3> QED
      BY <2>8, <2>10, <3>2, ContinuesOn DEF Continues
  <2>12. Fine(cur, t, archSlots, pool)
    BY <1>3, <2>10, <2>11, FineContinues
  <2>13. /\ sections' = [sections EXCEPT ![cur] = t] /\ archSlots' = archSlots
         /\ literalPools' = literalPools
    BY <1>1, <1>7, <2>1, <2>4, <2>7, <2>9 DEF PrefixedInstruction
  <2> QED
    BY <1>3, <2>12, <2>13, CurrentFine
<1> QED
  BY <1>5, <1>6, <1>7
(* Pools, and another backend.                                             *)
LEMMA PoolsFine ==
    ASSUME TypeOK, IInv, AllReady, AllFine
    PROVE  /\ Ltorg => AllFine'
           /\ \A mode \in source.backends : SwitchArch(mode) => AllFine'
<1>1. ASSUME NEW n \in DOMAIN sections, NEW t, t = FlushLiterals(sections[n], literalPools[n])
      PROVE  /\ Begun(t, archSlots) /\ Continues(sections[n], t, archSlots)
             /\ t.frags = <<>> => t = sections[n]
  <2>1. PICK s : s = sections[n]
    OBVIOUS
  <2>2. PICK pool : pool = literalPools[n]
    OBVIOUS
  <2>3. n \in AllSections /\ literalPools \in [AllSections -> Seq(Nat \ {0})]
    BY DEF TypeOK
  <2>4. pool \in PoolOfLiterals
    BY <2>2, <2>3 DEF PoolOfLiterals
  <2>5. Begun(s, archSlots) /\ (pool # <<>> => s.mapEvents # <<>>)
    BY <2>1, <2>2 DEF AllFine, Fine
  <2> QED
    BY <1>1, <2>1, <2>2, <2>4, <2>5, FlushBegins
<1>2. ASSUME Ltorg PROVE AllFine'
  <2>1. PICK t : t = FlushLiterals(sections[cur], literalPools[cur])
    OBVIOUS
  <2>2. PICK pool : pool = <<>>
    OBVIOUS
  <2>3. cur \in DOMAIN sections
    BY CurrentSection
  <2>4. /\ Begun(t, archSlots) /\ Continues(sections[cur], t, archSlots)
        /\ t.frags = <<>> => t = sections[cur]
    BY <1>1, <2>1, <2>3
  <2>5. Fine(cur, sections[cur], archSlots, literalPools[cur])
    BY <2>3 DEF AllFine
  <2>6. Fine(cur, t, archSlots, literalPools[cur])
    BY <2>4, <2>5, FineContinues
  <2>7. Fine(cur, t, archSlots, pool)
    BY <2>2, <2>6 DEF Fine
  <2>8. /\ sections' = [sections EXCEPT ![cur] = t] /\ archSlots' = archSlots
        /\ literalPools' = [literalPools EXCEPT ![cur] = pool]
    BY <1>2, <2>1, <2>2 DEF Ltorg
  <2> QED
    BY <2>7, <2>8, CurrentFine
<1>3. ASSUME NEW mode \in source.backends, SwitchArch(mode) PROVE AllFine'
  <2>1. PICK slots : slots = Append(archSlots, mode)
    OBVIOUS
  <2>2. /\ archSlots' = slots /\ literalPools' = [n \in AllSections |-> <<>>]
        /\ sections' = [n \in DOMAIN sections |-> MarkArch(FlushedSections[n], Slot + 1)]
    BY <1>3, <2>1 DEF SwitchArch
  <2>3. /\ Len(archSlots) \in Nat /\ Slot \in Nat /\ Slot + 1 \in Nat
        /\ \A i \in 1..Len(archSlots) : slots[i] = archSlots[i]
    <3>1. archSlots \in Seq(Modes)
      BY DEF TypeOK
    <3> QED
      BY <2>1, <3>1, ActiveBackend
  <2>4. ASSUME NEW n \in DOMAIN sections, NEW u, u = MarkArch(FlushedSections[n], Slot + 1)
        PROVE  Fine(n, u, slots, <<>>)
    <3>1. PICK t : t = FlushLiterals(sections[n], literalPools[n])
      OBVIOUS
    <3>2. FlushedSections[n] = t
      BY <3>1 DEF FlushedSections
    <3>3. /\ Begun(t, archSlots) /\ Continues(sections[n], t, archSlots)
          /\ t.frags = <<>> => t = sections[n]
      BY <1>1, <3>1
    <3>4. Fine(n, sections[n], archSlots, literalPools[n])
      BY DEF AllFine
    <3>5. Fine(n, t, archSlots, literalPools[n])
      BY <3>3, <3>4, FineContinues
    <3>6. Ready(t, archSlots)
      BY <3>2, FlushedReady
    <3>7. u \in SectionType /\ u.frags = t.frags /\ u.mapEvents = t.mapEvents
          /\ u.mapState = t.mapState /\ ~u.open
      <4>1. t \in SectionType
        BY <3>3 DEF Begun
      <4>2. n \in DOMAIN sections /\ Kept(sections[n], Slot) /\ literalPools[n] \in PoolOfLiterals
        BY DEF IInv, SectionsKept, TypeOK, PoolOfLiterals
      <4>3. Kept(t, Slot)
        BY <3>1, <4>2, FlushGrows DEF Grown
      <4>4. u \in SectionType
        BY <2>3, <2>4, <3>2, <4>3, MarkArchKeeps DEF Kept
      <4> QED
        BY <2>4, <3>2, <4>1, <4>4 DEF MarkArch, SectionType
    <3>8. Begun(u, archSlots) /\ Continues(t, u, archSlots)
      BY <3>3, <3>7, SameBegins
    <3>9. Fine(n, u, archSlots, literalPools[n])
      BY <3>5, <3>7, <3>8, FineContinues
    <3>10. StartsWithByte(u, slots) <=> StartsWithByte(u, archSlots)
      <4>1. ASSUME u.frags # <<>> PROVE slots[u.frags[1][1].slot + 1] = archSlots[u.frags[1][1].slot + 1]
        <5>1. t.frags # <<>> /\ t.frags[1] # <<>> /\ t \in SectionType
          BY <3>3, <3>7, <4>1 DEF Begun
        <5>2. 1 \in DOMAIN t.frags /\ 1 \in DOMAIN t.frags[1]
          <6>1. t.frags \in Seq(Seq(Item))
            BY <5>1 DEF SectionType
          <6>2. 1 \in DOMAIN t.frags
            BY <5>1, <6>1
          <6>3. t.frags[1] \in Seq(Item)
            BY <6>1, <6>2
          <6> QED
            BY <5>1, <6>2, <6>3
        <5>3. PICK item : item = t.frags[1][1]
          OBVIOUS
        <5>4. ItemMarked(t, 1, item, archSlots)
          BY <3>6, <5>2, <5>3 DEF Ready, Tracked, ItemsMarked
        <5>5. item \in Item
          BY <5>1, <5>2, <5>3, EventsType
        <5>6. item.slot \in Nat /\ item.slot < Len(archSlots)
          BY <5>4, <5>5 DEF ItemMarked, Item
        <5>7. item.slot + 1 \in 1..Len(archSlots)
          BY <2>3, <5>6
        <5> QED
          BY <2>3, <3>7, <5>3, <5>7
      <4> QED
        BY <4>1 DEF StartsWithByte
    <3>11. Begun(u, slots)
      BY <3>8, <3>10 DEF Begun
    <3> QED
      BY <3>9, <3>10, <3>11 DEF Fine
  <2>5. ASSUME NEW n \in DOMAIN sections'
        PROVE  Fine(n, sections'[n], archSlots', literalPools'[n])
    <3>1. n \in DOMAIN sections /\ n \in AllSections
      BY <2>2, <2>5 DEF TypeOK
    <3>2. literalPools'[n] = <<>> /\ sections'[n] = MarkArch(FlushedSections[n], Slot + 1)
      BY <2>2, <3>1
    <3> QED
      BY <2>2, <2>4, <3>1, <3>2
  <2>6. \A n \in AllSections : literalPools'[n] = <<>>
    BY <2>2
  <2> QED
    BY <2>5, <2>6 DEF AllFine
<1> QED
  BY <1>2, <1>3

(* Sections named, and the reservation in .bss.                            *)
LEMMA SectionsFine ==
    ASSUME TypeOK, IInv, AllFine
    PROVE  /\ \A n \in SectionNames : DirSection(n) \/ PushSection(n) => AllFine'
           /\ PopSection \/ SwapPrevious \/ ReserveBss => AllFine'
<1>1. SectionNames \subseteq AllSections /\ "bss" \in AllSections
  BY DEF AllSections
<1>2. ASSUME NEW n \in AllSections, NEW all, all = WithSection(n)
      PROVE  /\ \A m \in DOMAIN all : Fine(m, all[m], archSlots, literalPools[m])
             /\ n \in DOMAIN all /\ DOMAIN sections \subseteq DOMAIN all
  <2>1. PICK new : new = NewSection(IsExec(n))
    OBVIOUS
  <2>2. IsExec(n) \in BOOLEAN /\ Slot \in Nat
    BY ActiveBackend DEF IsExec
  <2>3. new \in SectionType /\ Kept(new, 0)
    BY <2>1, <2>2, NewSectionIsKept DEF Kept
  <2>4. new.mapEvents = <<>> /\ new.frags = <<>> /\ new.mapState = Unmarked /\ ~new.open
    BY <2>1 DEF NewSection
  <2>5. PICK t : t = MarkArch(new, Slot)
    OBVIOUS
  <2>6. t \in SectionType
    BY <2>2, <2>3, <2>5, MarkArchKeeps DEF Kept
  <2>7. t.mapEvents = <<>> /\ t.frags = <<>> /\ t.mapState = Unmarked /\ ~t.open
    BY <2>3, <2>4, <2>5, <2>6 DEF MarkArch, SectionType
  <2>8. Begun(t, archSlots) /\ ~StartsWithByte(t, archSlots)
    BY <2>6, <2>7 DEF Begun, StartsWithByte
  <2>9. n \notin DOMAIN sections => literalPools[n] = <<>>
    BY <1>2 DEF AllFine
  <2>10. n \notin DOMAIN sections => Fine(n, t, archSlots, literalPools[n])
    BY <2>7, <2>8, <2>9 DEF Fine
  <2> QED
    BY <1>2, <2>1, <2>5, <2>10 DEF WithSection, AllFine
<1>3. ASSUME NEW n \in SectionNames, DirSection(n) \/ PushSection(n) PROVE AllFine'
  <2>1. /\ sections' = WithSection(n) /\ archSlots' = archSlots /\ literalPools' = literalPools
    BY <1>3 DEF DirSection, PushSection
  <2> QED
    BY <1>1, <1>2, <2>1 DEF AllFine
<1>4. ASSUME PopSection \/ SwapPrevious PROVE AllFine'
  <2>1. sections' = sections /\ archSlots' = archSlots /\ literalPools' = literalPools
    BY <1>4 DEF PopSection, SwapPrevious
  <2> QED
    BY <2>1 DEF AllFine
<1>5. ASSUME ReserveBss PROVE AllFine'
  <2>1. PICK all : all = WithSection("bss")
    OBVIOUS
  <2>2. /\ "bss" \in DOMAIN all /\ DOMAIN sections \subseteq DOMAIN all
        /\ \A m \in DOMAIN all : Fine(m, all[m], archSlots, literalPools[m])
    BY <1>1, <1>2, <2>1
  <2>3. PICK bss : bss = all["bss"]
    OBVIOUS
  <2>4. PICK pool : pool = literalPools["bss"]
    OBVIOUS
  <2>5. /\ Fine("bss", bss, archSlots, pool) /\ Begun(bss, archSlots)
        /\ ~StartsWithByte(bss, archSlots)
    BY <2>2, <2>3, <2>4 DEF Fine
  <2>6. Slot \in Nat /\ Mode \in Modes /\ 4 \in Nat /\ NoLimit \in Nat /\ Data \in Marks
    BY ActiveBackend DEF NoLimit, Marks
  <2>7. PICK padding : padding = Padding(4, Data, NoLimit, Slot)
    OBVIOUS
  <2>8. PICK byte : byte = Byte(Slot)
    OBVIOUS
  <2>9. padding \in Item /\ padding.is = "pad" /\ byte \in Item
    BY <2>6, <2>7, <2>8, ItemsOfSlot
  <2>10. PICK u : u = MapDataFrag(bss, Mode)
    OBVIOUS
  <2>11. Begun(u, archSlots) /\ Continues(bss, u, archSlots)
    BY <2>5, <2>6, <2>10, MarkingBegins
  <2>12. PICK pushed : pushed = Push(u, padding)
    OBVIOUS
  <2>13. Begun(pushed, archSlots) /\ Continues(u, pushed, archSlots) /\ pushed.frags # <<>>
    BY <2>9, <2>11, <2>12, PushBegins
  <2>14. PICK aligned : aligned = RaiseAlign(pushed, 4)
    OBVIOUS
  <2>15. Begun(aligned, archSlots) /\ Continues(pushed, aligned, archSlots)
    BY <2>6, <2>13, <2>14, AlignedBegins
  <2>16. aligned.frags # <<>>
    BY <2>13, <2>15 DEF Continues
  <2>17. PICK t : t = Push(aligned, byte)
    OBVIOUS
  <2>18. Begun(t, archSlots) /\ Continues(aligned, t, archSlots) /\ t.frags # <<>>
    BY <2>9, <2>15, <2>16, <2>17, PushBegins
  <2>19. Continues(bss, t, archSlots)
    <3>1. Continues(bss, pushed, archSlots)
      BY <2>11, <2>13, ContinuesOn
    <3>2. Continues(bss, aligned, archSlots)
      BY <2>15, <3>1, ContinuesOn
    <3> QED
      BY <2>18, <3>2, ContinuesOn
  <2>20. Fine("bss", t, archSlots, pool)
    BY <2>5, <2>18, <2>19, FineContinues
  <2>21. /\ sections' = [all EXCEPT !["bss"] = t] /\ archSlots' = archSlots
         /\ literalPools' = literalPools
    BY <1>5, <2>1, <2>3, <2>7, <2>8, <2>10, <2>12, <2>14, <2>17 DEF ReserveBss
  <2>22. DOMAIN sections' = DOMAIN all
    BY <2>21
  <2>23. ASSUME NEW m \in DOMAIN all PROVE Fine(m, sections'[m], archSlots, literalPools[m])
    <3>1. CASE m = "bss"
      BY <2>2, <2>4, <2>20, <2>21, <3>1
    <3>2. CASE m # "bss"
      BY <2>2, <2>21, <3>2
    <3> QED
      BY <3>1, <3>2
  <2> QED
    BY <2>2, <2>21, <2>22, <2>23 DEF AllFine
<1> QED
  BY <1>3, <1>4, <1>5

(* Every statement such a source has.                                      *)
LEMMA StatementFine ==
    ASSUME TypeOK, IInv, AllReady, AllFine, Restricted, Next, ~Finish, ~failed'
    PROVE  AllFine'
<1>1. ~DirSpace /\ ~EmitOrg /\ ~DirAlign /\ \A mode \in Arm : ~SetMode(mode)
  BY DEF Restricted, DirSpace, EmitOrg, DirAlign, SetMode, Statement
<1>2. \A labelled \in BOOLEAN : ~RefuseInstruction(labelled)
  BY DEF RefuseInstruction
<1> QED
  BY <1>1, <1>2, DataFine, CodeFine, PoolsFine, SectionsFine DEF Next
(* The end of the source.                                                  *)
LEMMA TailBegins ==
    ASSUME TypeOK, NEW s, Begun(s, archSlots), Kept(s, Slot)
    PROVE  Begun(PadTail(s), archSlots)
<1>1. Slot \in Nat /\ Mode \in Modes /\ s \in SectionType /\ Data \in Marks /\ NoLimit \in Nat
  BY ActiveBackend DEF Kept, Marks, NoLimit
<1>2. ArchSlot(s, NextFragIndex(s)) = Slot /\ archSlots[Slot + 1] = Mode
  <2>1. Len(s.frags) \in Nat /\ Len(s.frags) >= Len(s.frags) /\ NextFragIndex(s) = Len(s.frags)
    BY <1>1 DEF SectionType, NextFragIndex
  <2>2. ArchSlot(s, NextFragIndex(s)) = Slot
    BY <1>1, <2>1, ArchSlotAtEnd DEF Kept
  <2>3. Len(archSlots) \in Nat
    BY ActiveBackend
  <2>4. Slot + 1 = Len(archSlots)
    BY <2>3 DEF Slot
  <2> QED
    BY <2>2, <2>4 DEF Mode
<1>3. PICK nops : nops = NopMode(s)
  OBVIOUS
<1>4. PICK align : align = IF s.align < TailAlignLimit THEN s.align ELSE TailAlignLimit
  OBVIOUS
<1>5. align \in Nat
  BY <1>1, <1>4 DEF SectionType, TailAlignLimit
<1>6. nops \in Modes /\ nops \in Marks
  BY <1>1, <1>3, NopModes DEF Marks
<1>7. PICK mapped : mapped = IF HasMapping(nops) /\ s.exec THEN MapAlign(s, nops) ELSE s
  OBVIOUS
<1>8. Begun(mapped, archSlots)
  BY <1>6, <1>7, MarkingBegins
<1>9. PICK item : item = Padding(align, IF s.exec THEN nops ELSE Data, NoLimit, Slot)
  OBVIOUS
<1>10. item \in Item /\ item.is = "pad"
  BY <1>1, <1>5, <1>6, <1>9, ItemsOfSlot
<1>11. Begun(Push(mapped, item), archSlots)
  BY <1>8, <1>10, PushBegins
<1>12. PadTail(s) \in {s, mapped, Push(mapped, item)}
  BY <1>2, <1>3, <1>4, <1>7, <1>9 DEF PadTail, NopMode
<1> QED
  BY <1>8, <1>11, <1>12

(* A statement reads on, in the same source, and takes no error back.      *)
LEMMA StatementKeeps ==
    ASSUME TypeOK, Next, ~Finish
    PROVE  phase = "reading" /\ phase' = "reading" /\ source' = source /\ (failed => failed')
<1>1. /\ \A kind : Statement(kind) =>
                phase = "reading" /\ phase' = "reading" /\ source' = source
      /\ \A kind : Statement(kind) /\ failed' = failed =>
                phase = "reading" /\ phase' = "reading" /\ source' = source /\ (failed => failed')
  BY DEF Statement
<1>2. ASSUME NEW labelled \in BOOLEAN
      PROVE  /\ Instruction(labelled) =>
                   (phase = "reading" /\ phase' = "reading" /\ source' = source /\ (failed => failed'))
             /\ PrefixedInstruction(labelled) =>
                   (phase = "reading" /\ phase' = "reading" /\ source' = source /\ (failed => failed'))
  BY <1>1 DEF Instruction, PrefixedInstruction
<1>3. ASSUME NEW labelled \in BOOLEAN, DirData(labelled) \/ RefuseInstruction(labelled)
      PROVE  phase = "reading" /\ phase' = "reading" /\ source' = source /\ (failed => failed')
  <2>1. CASE DirData(labelled)
    <3>1. Statement("data") /\ failed' = (failed \/ IsNobits(cur))
      BY <2>1 DEF DirData
    <3>2. phase = "reading" /\ phase' = "reading" /\ source' = source
      BY <1>1, <3>1
    <3>3. failed => failed'
      BY <3>1
    <3> QED
      BY <3>2, <3>3
  <2>2. CASE RefuseInstruction(labelled)
    BY <1>1, <2>2 DEF RefuseInstruction
  <2> QED
    BY <1>3, <2>1, <2>2
<1>4. DefineLabel \/ DirSpace \/ EmitOrg \/ DirAlign \/ Ltorg \/ PopSection \/ SwapPrevious \/ ReserveBss =>
          (phase = "reading" /\ phase' = "reading" /\ source' = source /\ (failed => failed'))
  BY <1>1 DEF DefineLabel, DirSpace, EmitOrg, DirAlign, Ltorg, PopSection, SwapPrevious, ReserveBss
<1>5. \A x : LoadLiteral(x) \/ SetMode(x) \/ SwitchArch(x) \/ DirSection(x) \/ PushSection(x) =>
          (phase = "reading" /\ phase' = "reading" /\ source' = source /\ (failed => failed'))
  BY <1>1 DEF LoadLiteral, SetMode, SwitchArch, DirSection, PushSection
<1> QED
  BY <1>2, <1>3, <1>4, <1>5 DEF Next

(* All of this is so in every such source.                                 *)
DataKept ==
    Restricted /\ ~failed =>
        /\ phase = "reading" => AllFine
        /\ phase = "done" => \A n \in DOMAIN sections : Begun(sections[n], archSlots)

(* It is, with the invariants of the assembly and of its mapping symbols. *)
LEMMA DataAlwaysKept == Spec => [](TypeOK /\ IInv /\ MarksKept /\ DataKept)
<1>1. Init => DataKept
  <2> SUFFICES ASSUME Init PROVE AllFine
    BY DEF Init, DataKept
  <2>1. PICK new : new = NewSection(TRUE)
    OBVIOUS
  <2>2. new \in SectionType
    BY <2>1, NewSectionIsKept DEF Kept
  <2>3. new.mapEvents = <<>> /\ new.frags = <<>> /\ new.mapState = Unmarked /\ ~new.open
    BY <2>1 DEF NewSection
  <2>4. Begun(new, archSlots) /\ ~StartsWithByte(new, archSlots)
    BY <2>2, <2>3 DEF Begun, StartsWithByte
  <2>5. "text" \in AllSections /\ literalPools = [n \in AllSections |-> <<>>]
    BY SectionsAssumption DEF AllSections, Init
  <2> QED
    BY <2>1, <2>3, <2>4, <2>5 DEF Init, AllFine, Fine
<1>2. ASSUME TypeOK, IInv, MarksKept, DataKept, [Next]_vars PROVE DataKept'
  <2>1. CASE UNCHANGED vars
    BY <1>2, <2>1 DEF vars, DataKept, AllFine, Restricted
  <2>2. CASE Finish
    <3>1. AllReady /\ phase' = "done" /\ phase = "reading" /\ failed' = failed /\ source' = source
          /\ archSlots' = archSlots
          /\ sections' = [n \in DOMAIN sections |-> PadTail(FlushedSections[n])]
      BY <1>2, <2>2 DEF Finish, MarksKept
    <3>2. ASSUME Restricted, ~failed, NEW n \in DOMAIN sections
          PROVE  Begun(sections'[n], archSlots)
      <4>1. PICK s : s = sections[n]
        OBVIOUS
      <4>2. PICK pool : pool = literalPools[n]
        OBVIOUS
      <4>3. Fine(n, s, archSlots, pool)
        BY <1>2, <3>1, <3>2, <4>1, <4>2 DEF DataKept, AllFine
      <4>4. Kept(s, Slot) /\ pool \in PoolOfLiterals
        BY <1>2, <4>1, <4>2 DEF IInv, SectionsKept, TypeOK, PoolOfLiterals
      <4>5. PICK t : t = FlushLiterals(s, pool)
        OBVIOUS
      <4>6. Begun(t, archSlots)
        BY <1>2, <4>3, <4>4, <4>5, FlushBegins DEF Fine
      <4>7. Kept(t, Slot)
        BY <1>2, <4>4, <4>5, FlushGrows DEF Grown
      <4>8. Begun(PadTail(t), archSlots)
        BY <1>2, <4>6, <4>7, TailBegins
      <4>9. sections'[n] = PadTail(t)
        BY <3>1, <4>1, <4>2, <4>5 DEF FlushedSections
      <4> QED
        BY <4>8, <4>9
    <3>3. DOMAIN sections' = DOMAIN sections
      BY <3>1
    <3> QED
      BY <3>1, <3>2, <3>3 DEF DataKept, Restricted
  <2>3. CASE Next /\ ~Finish
    <3>1. phase = "reading" /\ phase' = "reading" /\ source' = source /\ (failed => failed')
      BY <1>2, <2>3, StatementKeeps
    <3>2. ASSUME Restricted, ~failed' PROVE AllFine'
      <4>1. AllFine /\ AllReady
        BY <1>2, <3>1, <3>2 DEF DataKept, MarksKept
      <4> QED
        BY <1>2, <2>3, <3>2, <4>1, StatementFine
    <3> QED
      BY <3>1, <3>2 DEF DataKept, Restricted
  <2> QED
    BY <1>2, <2>1, <2>2, <2>3
<1> QED
  BY <1>1, <1>2, MarksAlwaysKept, PTL DEF Spec

(* The symbols placed after those of the first "k" events.                 *)
AreLater(events, start, k, Later) ==
    \A i \in k + 1..Len(events) : \A r \in DOMAIN PlaceEvent(events[i], start) :
        PlaceEvent(events[i], start)[r] \in Later

FollowedBy(before, all, Later) ==
    /\ Len(before) <= Len(all)
    /\ \A r \in DOMAIN all : IF r <= Len(before) THEN all[r] = before[r] ELSE all[r] \in Later

(* They follow those.                                                      *)
LEMMA PlacedAfter ==
    ASSUME NEW start, NEW last, Offsets(start, last), NEW events, EventsOf(events, last),
           NEW g, g = PlacedOf(events, start), NEW k \in 0..Len(events), NEW Later,
           AreLater(events, start, k, Later)
    PROVE  FollowedBy(g[k], g[Len(events)], Later)
<1>1. PICK count : count = Len(events)
  OBVIOUS
<1>2. count \in Nat /\ k \in Nat /\ k <= count
  BY <1>1 DEF EventsOf
<1>3. /\ \A i \in 0..count : g[i] \in Seq(Symbol)
      /\ \A i \in 1..count : /\ g[i] = g[i - 1] \o PlaceEvent(events[i], start)
                             /\ PlaceEvent(events[i], start) \in Seq(Symbol)
  BY <1>1, PlacedUnfolds
<1>4. PICK size : size = Len(g[k])
  OBVIOUS
<1>5. size \in Nat
  BY <1>2, <1>3, <1>4
<1> DEFINE Split(i) == /\ size <= Len(g[i])
                       /\ \A r \in DOMAIN g[i] :
                             IF r <= size THEN g[i][r] = g[k][r] ELSE g[i][r] \in Later
           S == {i \in Nat : i \in k..count => Split(i)}
<1>6. 0 \in S
  <2>1. ASSUME 0 \in k..count PROVE Split(0)
    <3>1. k = 0
      BY <1>2, <2>1
    <3>2. DOMAIN g[0] = 1..size /\ size = Len(g[0])
      BY <1>2, <1>3, <1>4, <3>1
    <3> QED
      BY <1>5, <3>1, <3>2
  <2> QED
    BY <2>1
<1>7. ASSUME NEW n \in Nat, n \in S PROVE n + 1 \in S
  <2>1. ASSUME n + 1 \in k..count PROVE Split(n + 1)
    <3>1. PICK m \in Nat : m = n + 1
      OBVIOUS
    <3>2. CASE m = k
      <4>1. DOMAIN g[k] = 1..size
        BY <1>2, <1>3, <1>4
      <4>2. Split(k)
        BY <1>4, <1>5, <4>1
      <4> QED
        BY <3>1, <3>2, <4>2
    <3>3. CASE m # k
      <4>1. n \in k..count /\ m \in 1..count /\ m - 1 = n /\ m \in k + 1..count /\ n \in 0..count
        BY <1>2, <2>1, <3>1, <3>3
      <4>2. Split(n)
        BY <1>7, <4>1
      <4>3. PICK old : old = g[n]
        OBVIOUS
      <4>4. PICK new : new = PlaceEvent(events[m], start)
        OBVIOUS
      <4>5. old \in Seq(Symbol) /\ new \in Seq(Symbol) /\ g[m] = old \o new
        BY <1>3, <4>1, <4>3, <4>4
      <4>6. \A r \in DOMAIN new : new[r] \in Later
        BY <1>1, <4>1, <4>4 DEF AreLater
      <4>7. PICK both : both = old \o new
        OBVIOUS
      <4>8. /\ Len(old) \in Nat /\ Len(new) \in Nat
            /\ DOMAIN old = 1..Len(old) /\ DOMAIN new = 1..Len(new)
            /\ DOMAIN both = 1..Len(old) + Len(new)
            /\ \A r \in 1..Len(old) : both[r] = old[r]
            /\ \A r \in 1..Len(new) : both[Len(old) + r] = new[r]
            /\ \A r \in DOMAIN both : r \in 1..Len(old) \/ \E q \in 1..Len(new) : r = Len(old) + q
        BY <4>5, <4>7, SymbolsAppended
      <4>9. Len(both) = Len(old) + Len(new) /\ size <= Len(both) /\ size <= Len(old)
        BY <1>5, <4>2, <4>3, <4>5, <4>7, <4>8
      <4>10. ASSUME NEW r \in DOMAIN both
             PROVE  IF r <= size THEN both[r] = g[k][r] ELSE both[r] \in Later
        <5>1. CASE r \in 1..Len(old)
          <6>1. both[r] = old[r] /\ r \in DOMAIN old
            BY <4>8, <5>1
          <6>2. IF r <= size THEN old[r] = g[k][r] ELSE old[r] \in Later
            BY <4>2, <4>3, <6>1
          <6> QED
            BY <6>1, <6>2
        <5>2. CASE r \notin 1..Len(old)
          <6>1. PICK q \in 1..Len(new) : r = Len(old) + q
            BY <4>8, <5>2
          <6>2. both[r] \in Later
            BY <4>6, <4>8, <6>1
          <6>3. ~(r <= size)
            BY <1>5, <4>8, <4>9, <6>1
          <6> QED
            BY <6>2, <6>3
        <5> QED
          BY <5>1, <5>2
      <4>11. g[m] = both
        BY <4>5, <4>7
      <4>12. Split(m)
        BY <4>9, <4>10, <4>11
      <4> QED
        BY <3>1, <4>12
    <3> QED
      BY <3>2, <3>3
  <2> QED
    BY <2>1
<1> HIDE DEF S
<1>8. Nat \subseteq S
  BY <1>6, <1>7, InductionBySets
<1>9. \A i \in k..count : Split(i)
  <2>1. \A i \in k..count : i \in Nat
    BY <1>2
  <2> QED
    BY <1>8, <2>1 DEF S
<1>10. Split(count)
  BY <1>2, <1>9
<1> QED
  BY <1>1, <1>4, <1>10 DEF FollowedBy
(* Nothing is shown of a section without a fragment, or without an event.  *)
LEMMA EmptyShowsNothing ==
    ASSUME NEW s, NEW slots, Covered(s, slots), PlaceMappingSymbols(s) # {}
    PROVE  s.mapEvents # <<>> /\ s.frags # <<>>
<1>1. PICK start : start = FragOffsets(s)
  OBVIOUS
<1>2. PICK last : last = Len(s.frags)
  OBVIOUS
<1>3. PICK events : events = s.mapEvents
  OBVIOUS
<1>4. PICK g : g = PlacedOf(events, start)
  OBVIOUS
<1>5. PICK all : all = g[Len(events)]
  OBVIOUS
<1>6. Offsets(start, last) /\ EventsOf(events, last)
  BY <1>1, <1>2, <1>3, CoveredIsPlaced
<1>7. /\ Len(events) \in Nat /\ DOMAIN events = 1..Len(events) /\ last \in Nat
      /\ \A i \in DOMAIN events : events[i] \in Event /\ events[i].frag <= last
  BY <1>6 DEF EventsOf, Offsets
<1>8. PICK i \in DOMAIN all : all[i].at # start[last]
  <2>1. SymbolsKept(all, start[last]) # {}
    BY <1>1, <1>2, <1>3, <1>4, <1>5, PlacedAreKept
  <2> QED
    BY <2>1 DEF SymbolsKept, KeptOf
<1>9. g[0] = <<>> /\ all \in Seq(Symbol)
  <2>1. Len(events) \in 0..Len(events)
    BY <1>7
  <2>2. g[0] = <<>> /\ \A j \in 0..Len(events) : g[j] \in Seq(Symbol)
    BY <1>4, <1>6, PlacedUnfolds
  <2> QED
    BY <1>5, <2>1, <2>2
<1>10. events # <<>>
  BY <1>5, <1>7, <1>8, <1>9
<1>11. ASSUME last = 0 PROVE FALSE
  <2>1. PICK Later : Later = {m \in Symbol : m.at = start[last]}
    OBVIOUS
  <2>2. ASSUME NEW j \in 1..Len(events), NEW r \in DOMAIN PlaceEvent(events[j], start)
        PROVE  PlaceEvent(events[j], start)[r] \in Later
    <3>1. PICK e \in Event : e = events[j] /\ e.frag <= last
      BY <1>7
    <3>2. e.frag \in Nat /\ e.frag = 0
      BY <1>11, <3>1 DEF Event
    <3>3. PICK new : new = PlaceEvent(e, start)
      OBVIOUS
    <3>4. new \in Seq(Symbol) /\ r \in DOMAIN new
      BY <1>6, <3>1, <3>3, PlacedEvent
    <3>5. ~e.odd => new[r].at = start[e.frag]
      BY <1>6, <3>1, <3>3, <3>4, PlacedBetween
    <3>6. e.odd => e.frag + 1 <= last
      BY <1>6, <3>1, <3>3, <3>4, PlacedBetween
    <3>7. new[r].at = start[last]
      BY <1>11, <3>2, <3>5, <3>6
    <3>8. new[r] \in Symbol
      BY <3>4
    <3> QED
      BY <2>1, <3>1, <3>3, <3>7, <3>8
  <2>3. 0 \in 0..Len(events) /\ Len(events) \in 0..Len(events) /\ Len(g[0]) = 0
    BY <1>7, <1>9
  <2>4. PICK k \in 0..Len(events) : k = 0
    BY <2>3
  <2>5. \A r \in DOMAIN all : IF r <= Len(g[0]) THEN all[r] = g[0][r] ELSE all[r] \in Later
    <3>1. k + 1 = 1 /\ Len(events) \in k..Len(events)
      BY <2>3, <2>4
    <3>2. AreLater(events, start, k, Later)
      BY <2>2, <3>1 DEF AreLater
    <3>3. FollowedBy(g[k], g[Len(events)], Later)
      BY <1>4, <1>6, <3>2, PlacedAfter
    <3> QED
      BY <1>5, <2>4, <3>3 DEF FollowedBy
  <2>6. i \in Nat /\ i >= 1
    BY <1>8, <1>9
  <2>7. all[i] \in Later
    BY <1>8, <2>3, <2>5, <2>6
  <2> QED
    BY <1>8, <2>1, <2>7
<1> QED
  BY <1>2, <1>3, <1>7, <1>10, <1>11

(* The section starts with its first fragment, which its first item is at  *)
(* the start of.                                                           *)
LEMMA FirstFragment ==
    ASSUME NEW s, NEW slots, Covered(s, slots), s.frags # <<>>, s.frags[1] # <<>>,
           NEW start, start = FragOffsets(s)
    PROVE  /\ Contents(s)[1] = s.frags[1][1]
           /\ 1 \in 0..Len(s.frags) /\ start[0] = 0
           /\ s.frags[1][1].is = "byte" => start[1] >= 1
<1>1. PICK last : last = Len(s.frags)
  OBVIOUS
<1>2. PICK at : at = SizesOf(Contents(s), 0)
  OBVIOUS
<1>3. s \in SectionType
  BY DEF Covered
<1>4. last \in Nat /\ last >= 1 /\ s.frags[1] \in Seq(Item)
  <2>1. s.frags \in Seq(Seq(Item))
    BY <1>3 DEF SectionType
  <2> QED
    BY <1>1, <2>1
<1>5. 1 \in 1..Len(s.frags) /\ 1 \in 1..Len(s.frags[1])
  BY <1>1, <1>4
<1>6. ItemsUpTo(s, 0) = <<>>
  BY <1>3, <1>4, ItemsUnfold
<1>7. Contents(s)[1] = s.frags[1][1]
  <2>1. Contents(s)[Len(ItemsUpTo(s, 1 - 1)) + 1] = s.frags[1][1]
    BY <1>3, <1>5, ItemsOfFragments
  <2>2. Len(ItemsUpTo(s, 1 - 1)) + 1 = 1
    BY <1>6
  <2> QED
    BY <2>1, <2>2
<1>8. /\ AllSized(Contents(s))
      /\ start = [f \in 0..Len(s.frags) |-> at[Len(ItemsUpTo(s, f))]]
  BY <1>2, CoveredIsPlaced
<1>9. PICK items : items = Contents(s)
  OBVIOUS
<1>10. at = [i \in 0..Len(items) |-> IF i = 0 THEN 0 ELSE at[i - 1] + ItemSize(items[i], at[i - 1])]
  BY <1>2, <1>8, <1>9, SizesOfItems DEF IsSizes
<1>11. Spans(s, at, start, 1, 1)
  <2>1. 1 = Len(ItemsUpTo(s, 1 - 1)) + 1
    BY <1>6
  <2> QED
    BY <1>2, <1>5, <2>1, ItemIsInFragment
<1>12. 1 \in 1..Len(items) /\ at[1 - 1] \in Nat /\ at[1] \in Nat /\ start[1] \in Nat /\ at[1] <= start[1]
  BY <1>9, <1>11 DEF Spans
<1>13. Len(items) \in Nat
  BY <1>8, <1>9 DEF AllSized
<1>14. 0 \in 0..Len(items) /\ 1 \in 0..Len(items)
  BY <1>12, <1>13
<1>15. at[0] = 0
  BY <1>10, <1>14
<1>16. start[0] = 0
  <2>1. 0 \in 0..Len(s.frags) /\ Len(<<>>) = 0
    BY <1>1, <1>4
  <2> QED
    BY <1>6, <1>8, <1>15, <2>1
<1>17. ASSUME s.frags[1][1].is = "byte" PROVE start[1] >= 1
  <2>1. ItemSize(items[1], at[0]) = 1
    BY <1>7, <1>9, <1>17 DEF ItemSize
  <2>2. at[1] = at[0] + ItemSize(items[1], at[0])
    BY <1>10, <1>14
  <2> QED
    BY <1>12, <1>15, <2>1, <2>2
<1> QED
  BY <1>1, <1>4, <1>7, <1>16, <1>17

(* A first event that marks the start as data is shown.                    *)
LEMMA FirstIsShown ==
    ASSUME NEW s, NEW slots, Covered(s, slots), Begun(s, slots),
           NEW symbols, symbols = PlaceMappingSymbols(s), symbols # {},
           NEW first, first = Contents(s)[1], first.is = "byte", HasMapping(slots[first.slot + 1])
    PROVE  [at |-> 0, name |-> Data] \in symbols
<1>1. s.mapEvents # <<>> /\ s.frags # <<>> /\ s.frags[1] # <<>>
  BY EmptyShowsNothing DEF Begun
<1>2. PICK start : start = FragOffsets(s)
  OBVIOUS
<1>3. PICK last : last = Len(s.frags)
  OBVIOUS
<1>4. PICK events : events = s.mapEvents
  OBVIOUS
<1>5. PICK g : g = PlacedOf(events, start)
  OBVIOUS
<1>6. PICK all : all = g[Len(events)]
  OBVIOUS
<1>7. Offsets(start, last) /\ EventsOf(events, last)
  BY <1>2, <1>3, <1>4, CoveredIsPlaced
<1>8. /\ Len(events) \in Nat /\ DOMAIN events = 1..Len(events) /\ last \in Nat
      /\ \A i \in DOMAIN events : events[i] \in Event /\ events[i].frag <= last
      /\ Len(events) >= 1
  BY <1>1, <1>4, <1>7 DEF EventsOf, Offsets
<1>9. /\ first = s.frags[1][1] /\ 1 \in 0..last /\ start[0] = 0 /\ start[1] >= 1
  <2>1. first = s.frags[1][1] /\ 1 \in 0..last /\ start[0] = 0
    BY <1>1, <1>2, <1>3, FirstFragment
  <2> QED
    BY <1>1, <1>2, <2>1, FirstFragment
<1>10. FirstIsData(s)
  BY <1>1, <1>9 DEF Begun, StartsWithByte
<1>11. start[1] \in Nat /\ start[last] \in Nat /\ start[1] <= start[last]
  BY <1>7, <1>8, <1>9 DEF Offsets
<1>12. PICK mark : mark = [at |-> 0, name |-> Data]
  OBVIOUS
<1>13. g[1] = <<mark>> /\ all \in Seq(Symbol)
  <2>1. PICK e \in Event : e = events[1] /\ e.frag <= last
    BY <1>8
  <2>2. e.frag = 0 /\ e.name = Data /\ ~e.odd
    BY <1>4, <1>10, <2>1 DEF FirstIsData, At
  <2>3. PlaceEvent(e, start) = <<mark>>
    BY <1>7, <1>9, <1>12, <2>1, <2>2, PlacedEvent
  <2>4. 1 \in 1..Len(events) /\ Len(events) \in 0..Len(events)
    BY <1>8
  <2>5. g[1] = g[1 - 1] \o PlaceEvent(events[1], start)
    BY <1>5, <1>7, <2>4, PlacedUnfolds, ZenonT(30)
  <2>6. g[0] = <<>> /\ \A j \in 0..Len(events) : g[j] \in Seq(Symbol)
    BY <1>5, <1>7, PlacedUnfolds
  <2>7. <<>> \o <<mark>> = <<mark>>
    OBVIOUS
  <2>8. g[1] = <<mark>>
    <3>1. g[1 - 1] = <<>>
      BY <2>6
    <3>2. PlaceEvent(events[1], start) = <<mark>>
      BY <2>1, <2>3
    <3>3. PICK before : before = g[1 - 1]
      OBVIOUS
    <3>4. PICK new : new = PlaceEvent(events[1], start)
      OBVIOUS
    <3>5. g[1] = before \o new
      BY <2>5, <3>3, <3>4
    <3> QED
      BY <2>7, <3>1, <3>2, <3>3, <3>4, <3>5
  <2>9. all \in Seq(Symbol)
    BY <1>6, <2>4, <2>6
  <2> QED
    BY <2>8, <2>9
<1>14. PICK Later : Later = {m \in Symbol : m.at >= 1}
  OBVIOUS
<1>15. ASSUME NEW j \in 1 + 1..Len(events), NEW r \in DOMAIN PlaceEvent(events[j], start)
       PROVE  PlaceEvent(events[j], start)[r] \in Later
  <2>1. j \in DOMAIN events /\ j # 1
    BY <1>8
  <2>2. PICK e \in Event : e = events[j] /\ e.frag <= last
    BY <1>8, <2>1
  <2>3. e.frag \in Nat /\ e.frag >= 1
    BY <1>4, <1>10, <2>1, <2>2 DEF FirstIsData, Event
  <2>4. e.frag \in 0..last
    BY <1>8, <2>2, <2>3
  <2>5. start[e.frag] \in Nat /\ start[1] <= start[e.frag]
    BY <1>7, <1>9, <2>3, <2>4 DEF Offsets
  <2>6. PICK new : new = PlaceEvent(e, start)
    OBVIOUS
  <2>7. new \in Seq(Symbol) /\ r \in DOMAIN new
    BY <1>7, <2>2, <2>6, PlacedEvent
  <2>8. new[r].at \in Nat /\ start[e.frag] <= new[r].at
    BY <1>7, <2>2, <2>6, <2>7, PlacedBetween
  <2>9. new[r] \in Symbol
    BY <2>7
  <2>10. new[r].at >= 1
    BY <1>9, <1>11, <2>5, <2>8
  <2> QED
    BY <1>14, <2>2, <2>6, <2>9, <2>10
<1>16. Len(g[1]) = 1 /\ g[1][1] = mark
  BY <1>13
<1>17. /\ 1 <= Len(all)
       /\ \A r \in DOMAIN all : IF r <= 1 THEN all[r] = g[1][r] ELSE all[r] \in Later
  <2>1. 1 \in 0..Len(events) /\ Len(events) \in 1..Len(events)
    BY <1>8
  <2>2. PICK k \in 0..Len(events) : k = 1
    BY <2>1
  <2>3. AreLater(events, start, k, Later)
    BY <1>15, <2>2 DEF AreLater
  <2>4. FollowedBy(g[k], g[Len(events)], Later)
    BY <1>5, <1>7, <2>3, PlacedAfter
  <2> QED
    BY <1>6, <1>16, <2>2, <2>4 DEF FollowedBy
<1>18. DOMAIN all = 1..Len(all) /\ Len(all) \in Nat
  BY <1>13
<1>19. 1 \in DOMAIN all /\ all[1] = mark
  BY <1>16, <1>17, <1>18
<1>20. ASSUME NEW j \in DOMAIN all, all[j].at = all[1].at PROVE j <= 1
  <2>2. CASE j <= 1
    BY <2>2
  <2>3. CASE ~(j <= 1)
    <3>1. all[j] \in Symbol /\ all[j].at >= 1
      BY <1>14, <1>17, <2>3
    <3> QED
      BY <1>12, <1>19, <1>20, <3>1 DEF Symbol
  <2> QED
    BY <2>2, <2>3
<1>21. all[1].at # start[last]
  BY <1>9, <1>11, <1>12, <1>19
<1>22. 1 \in KeptOf(all, start[last])
  BY <1>19, <1>20, <1>21 DEF KeptOf
<1>23. mark \in SymbolsKept(all, start[last])
  BY <1>19, <1>22 DEF SymbolsKept
<1> QED
  BY <1>2, <1>3, <1>4, <1>5, <1>6, <1>12, <1>23, PlacedAreKept

(* In the output of a source without padding, .space, .org and .arm, data  *)
(* a section starts with is marked from its start, as soon as anything in  *)
(* the section is marked as code (map_transition_with, place_mapping_      *)
(* symbols).                                                               *)
THEOREM DataAtStartIsMarked == Spec => []DataIsMarkedFromStart
<1>1. ASSUME TypeOK, IInv, MarksKept, DataKept PROVE DataIsMarkedFromStart
  <2> SUFFICES ASSUME phase = "done", ~failed, Restricted, NEW n \in DOMAIN sections,
                      \E m \in mappingSymbols[n] : m.name # Data,
                      Items(n)[1].is = "byte", HasMapping(archSlots[Items(n)[1].slot + 1])
               PROVE  [at |-> 0, name |-> Data] \in mappingSymbols[n]
    BY Zenon DEF DataIsMarkedFromStart, Restricted
  <2>1. PICK s : s = sections[n]
    OBVIOUS
  <2>2. Begun(s, archSlots)
    BY <1>1, <2>1 DEF DataKept
  <2>3. s \in SectionType
    BY <2>2 DEF Begun
  <2>4. Covered(s, archSlots)
    BY <1>1, <2>1, <2>3, SealedIsCovered DEF MarksKept
  <2>5. PICK first : first = Items(n)[1]
    OBVIOUS
  <2>6. first = Contents(s)[1]
    BY <2>1, <2>5 DEF Items, Contents
  <2>7. mappingSymbols[n] = PlaceMappingSymbols(s)
    <3>1. n \in AllSections
      BY <1>1 DEF TypeOK
    <3> QED
      BY <1>1, <2>1, <3>1 DEF MarksKept
  <2>8. mappingSymbols[n] # {}
    OBVIOUS
  <2> QED
    BY <2>2, <2>4, <2>5, <2>6, <2>7, <2>8, FirstIsShown
<1> QED
  BY <1>1, DataAlwaysKept, PTL
=============================================================================
