-------------------------- MODULE FixedPointProofs --------------------------
(***************************************************************************)
(* The layout that settles is a fixed point, for every program.            *)
(*                                                                         *)
(* First the types: that a size computed from any layout is a natural, and *)
(* that the first candidate that reaches is one there is.                  *)
(*                                                                         *)
(* A pass computes sizes while it moves the offsets they are computed      *)
(* from, so what it computes agrees with nothing until it is known that    *)
(* nothing moved.  The walk's running offset is what shows it: candidates  *)
(* only grow between two walks that assign offsets, so before a walk no    *)
(* fragment starts past the end of the one before it, and in a walk that   *)
(* changes no size the running offset is never behind the offset it        *)
(* replaces.  Once ahead it stays ahead to the end of the section, whose   *)
(* size then differs.  A pass that reports no change has therefore moved   *)
(* nothing, and each test it made was made in the layout it ends with.     *)
(*                                                                         *)
(* The second half shows that code that only grows settles in its smallest *)
(* layout, by comparing each state with every layout that reaches.         *)
(*                                                                         *)
(* Then comes the refinement: settle_layout implements Settlement where    *)
(* sizes only grow, because the sections there were when a layout was      *)
(* published look to every later walk as they did then.                    *)
(*                                                                         *)
(* From that the last part bounds the passes: one in which nothing grew    *)
(* ends in a fixed point, which the next does not disturb.                 *)
(***************************************************************************)
EXTENDS LayoutProperties, PublishedLayout, FiniteSetTheorems,
        WellFoundedInduction, TLAPS

(* What the operators of Fragments need to know of a layout.               *)
IsLayout(L) ==
    /\ L.prog \in Program
    /\ L.chosen \in [FragIds(L.prog) -> Nat \ {0}]
    /\ \A id \in FragIds(L.prog) : L.chosen[id] \in 1 .. Candidates(L.prog, id)
    /\ L.cached \in [FragIds(L.prog) -> Nat]
    /\ L.off \in [FragIds(L.prog) -> Nat]
    /\ L.ssize \in [DOMAIN L.prog.sections -> Nat]
    /\ L.addr \in [DOMAIN L.prog.sections -> Nat]

-----------------------------------------------------------------------------
(* A set of naturals has a least element, so LeastOr returns it.           *)
LEMMA LeastOrIsLeast ==
    ASSUME NEW ks \in SUBSET Nat, NEW other
    PROVE  /\ ks = {} => LeastOr(ks, other) = other
           /\ ks # {} => /\ LeastOr(ks, other) \in ks
                         /\ \A j \in ks : LeastOr(ks, other) <= j
<1>1. CASE ks = {}
  BY <1>1 DEF LeastOr
<1>2. CASE ks # {}
  <2> DEFINE Less == {ss \in Nat \X Nat : ss[1] < ss[2]}
  <2>1. IsWellFoundedOn(Less, Nat)
    BY Zenon, NatLessThanWellFounded DEF OpToRel
  <2> HIDE DEF Less
  <2>2. PICK k \in ks : \A j \in ks : ~ (<<j, k>> \in Less)
    BY <1>2, <2>1, WFMin
  <2>3. ASSUME NEW j \in ks PROVE k <= j
    <3>1. ~ (<<j, k>> \in Less)
      BY <2>2
    <3>2. <<j, k>> \in Nat \X Nat /\ ~ (<<j, k>>[1] < <<j, k>>[2])
      BY <3>1 DEF Less
    <3> QED
      BY <3>2
  <2> QED
    BY <1>2, <2>3 DEF LeastOr
<1> QED
  BY <1>1, <1>2

(* The length of a LEB128 field, 10 when none of the shorter ones fits.    *)
LEMMA LeastOrIsNatural ==
    ASSUME NEW ks \in SUBSET Nat
    PROVE  LeastOr(ks, 10) \in Nat
<1>1. /\ ks = {} => LeastOr(ks, 10) = 10
      /\ ks # {} => LeastOr(ks, 10) \in ks
  BY Zenon, LeastOrIsLeast
<1>2. 10 \in Nat
  OBVIOUS
<1> QED
  BY <1>1, <1>2, Zenon

(* A remainder is less than what it is the remainder of a division by.     *)
LEMMA RemainderIsNatural ==
    ASSUME NEW n \in Int, NEW align \in Nat \ {0}
    PROVE  n % align \in 0 .. align - 1
OBVIOUS

-----------------------------------------------------------------------------
(* A fragment id is a pair of positions, and denotes a fragment.           *)
LEMMA FragmentsOfProgram ==
    ASSUME NEW p \in Program, NEW id \in FragIds(p)
    PROVE  /\ id \in Nat \X Nat
           /\ id[1] \in DOMAIN p.sections
           /\ id[2] \in DOMAIN p.sections[id[1]].frags
           /\ FragAt(p, id) \in Fragment
           /\ Candidates(p, id) \in Nat \ {0}
<1>1. PICK s \in DOMAIN p.sections : \E f \in DOMAIN p.sections[s].frags : id = <<s, f>>
  BY DEF FragIds
<1>2. PICK f \in DOMAIN p.sections[s].frags : id = <<s, f>>
  BY <1>1
<1>3. p.sections \in Seq(Section)
  BY DEF Program
<1>4. p.sections[s] \in Section /\ s \in Nat
  BY <1>3
<1>5. p.sections[s].frags \in Seq(Fragment)
  BY <1>4 DEF Section
<1>6. p.sections[s].frags[f] \in Fragment /\ f \in Nat
  BY <1>5
<1>7. FragAt(p, id) \in Fragment
  BY <1>2, <1>6 DEF FragAt
<1>8. Candidates(p, id) \in Nat \ {0}
  <2>1. CASE FragAt(p, id).kind = "bytes"
    BY <1>7, <2>1 DEF Fragment, Instruction, Candidates, Variants
  <2>2. CASE FragAt(p, id).kind # "bytes"
    BY <2>2 DEF Candidates
  <2> QED
    BY <2>1, <2>2
<1> QED
  BY <1>2, <1>4, <1>6, <1>7, <1>8

-----------------------------------------------------------------------------
(* Expressions have integer values and computed sizes are natural numbers, *)
(* whatever layout they are computed in.                                   *)

(* A label a section defines stands at a natural offset in it.             *)
LEMMA OffsetsAreNatural ==
    ASSUME NEW L, IsLayout(L), NEW l \in Labels, IsDefined(L.prog, l)
    PROVE  LabelOffset(L, l) \in Nat /\ L.addr[l[1]] \in Nat
BY DEF IsLayout, LabelOffset, IsDefined, Labels

(* symbol_addr of a defined label, shifted by a resized fragment or not.   *)
LEMMA AddressesAreIntegers ==
    ASSUME NEW L, IsLayout(L), NEW l \in Labels, IsDefined(L.prog, l),
           NEW shift, shift.by \in Int
    PROVE  SymbolAddr(L, l, shift) \in Int
<1> DEFINE moved == l[1] = shift.frag[1] /\ l[2] > shift.frag[2]
                       /\ LabelOffset(L, l) > shift.pc
<1>1. (IF moved THEN shift.by ELSE 0) \in Int
  OBVIOUS
<1>2. SymbolAddr(L, l, shift)
         = L.addr[l[1]] + LabelOffset(L, l) + (IF moved THEN shift.by ELSE 0)
  BY DEF SymbolAddr
<1> QED
  BY <1>1, <1>2, OffsetsAreNatural

(* resolve of an expression whose symbols all have addresses.              *)
LEMMA ValuesAreIntegers ==
    ASSUME NEW L, IsLayout(L), NEW e \in Expr, HasAddress(L.prog, e)
    PROVE  Resolve(L, e, NoShift) \in Int
<1> DEFINE Term(ls) == IF ls = {} THEN 0
                       ELSE SymbolAddr(L, CHOOSE l \in ls : TRUE, NoShift)
<1>1. ASSUME NEW ls \in {e.plus, e.minus} PROVE Term(ls) \in Int
  <2>1. CASE ls = {}
    BY <2>1
  <2>2. CASE ls # {}
    <3> DEFINE l == CHOOSE m \in ls : TRUE
    <3>1. l \in ls
      BY <2>2
    <3>2. l \in Labels /\ IsDefined(L.prog, l)
      BY <3>1 DEF Expr, HasAddress, Symbols
    <3>3. NoShift.by \in Int
      BY DEF NoShift
    <3>4. SymbolAddr(L, l, NoShift) \in Int
      BY <3>2, <3>3, AddressesAreIntegers
    <3> QED
      BY <2>2, <3>4
  <2> QED
    BY <2>1, <2>2
<1>2. e.add \in Int
  BY DEF Expr
<1>3. Resolve(L, e, NoShift) = e.add + Term(e.plus) - Term(e.minus)
  BY DEF Resolve
<1> QED
  BY <1>1, <1>2, <1>3

(* The offset .org asks for, when there is one, is an integer.             *)
LEMMA SectionOffsetsAreIntegers ==
    ASSUME NEW L, IsLayout(L), NEW e \in Expr, NEW s \in DOMAIN L.prog.sections
    PROVE  SectionRelative(L, e, s) \in SUBSET Int
<1>1. CASE Symbols(e) = {}
  BY <1>1 DEF SectionRelative, Expr
<1>2. CASE Symbols(e) # {} /\ e.minus = {} /\ \A l \in e.plus : l[1] = s
  BY <1>2, ValuesAreIntegers DEF HasAddress, Symbols, IsDefined, IsLayout, SectionRelative
<1>3. CASE Symbols(e) # {} /\ ~(e.minus = {} /\ \A l \in e.plus : l[1] = s)
  BY <1>3 DEF SectionRelative
<1> QED
  BY <1>1, <1>2, <1>3

(* Padding never takes a negative number of bytes, with or without a       *)
(* limit.                                                                  *)
LEMMA PaddingIsNatural ==
    ASSUME NEW align \in Nat, NEW maxSkip, NEW from \in Nat
    PROVE  Padding(align, maxSkip, from) \in Nat
<1>1. CASE align <= 1
  BY <1>1 DEF Padding
<1>2. CASE ~(align <= 1)
  BY <1>2, RemainderIsNatural DEF Padding
<1> QED
  BY <1>1, <1>2

(* leb128_len is at least nothing whatever the value.                      *)
LEMMA LebLengthIsNatural ==
    ASSUME NEW v, NEW signed
    PROVE  LebLength(v, signed) \in Nat
<1> DEFINE Fits(n) == IF signed THEN v \in -(2^(7*n - 1)) .. 2^(7*n - 1) - 1
                                ELSE v \in 0 .. 2^(7*n) - 1
           ks == {n \in 1..4 : Fits(n)}
<1>1. ks \in SUBSET Nat
  OBVIOUS
<1>2. LeastOr(ks, 10) \in Nat
  BY <1>1, Zenon, LeastOrIsNatural
<1> QED
  BY <1>2, Zenon DEF LebLength

(* A fragment that is not encoded bytes has a natural size: padding, .org  *)
(* and .space never run backwards.                                         *)
LEMMA SizesAreNatural ==
    ASSUME NEW L, IsLayout(L), NEW id \in FragIds(L.prog), NEW from \in Nat,
           FragAt(L.prog, id).kind # "bytes"
    PROVE  ComputeSize(L, id, from) \in Nat
<1> DEFINE frag == FragAt(L.prog, id)
<1>1. frag \in Fragment /\ id[1] \in DOMAIN L.prog.sections
  BY FragmentsOfProgram DEF IsLayout
<1>2. CASE frag.kind = "align"
  BY <1>1, <1>2, PaddingIsNatural DEF Fragment, Instruction, ComputeSize
<1>3. CASE frag.kind = "leb"
  BY <1>3, LebLengthIsNatural DEF ComputeSize
<1>4. CASE frag.kind = "org" /\ SizeError(L, id, from) = {}
  <2> DEFINE ts == SectionRelative(L, frag.target, id[1])
             t == CHOOSE x \in ts : TRUE
  <2>1. frag.target \in Expr
    BY <1>1, <1>4 DEF Fragment, Instruction
  <2>2. ts \in SUBSET Int
    BY <1>1, <2>1, SectionOffsetsAreIntegers
  <2>3. SizeError(L, id, from)
           = IF ts = {} THEN {"unresolved"} ELSE {"backwards" : x \in {y \in ts : y < from}}
    BY <1>4 DEF SizeError
  <2>4. ts # {} /\ \A y \in ts : ~(y < from)
    BY <1>4, <2>3
  <2>5. ComputeSize(L, id, from) = t - from
    BY <1>4 DEF ComputeSize
  <2>6. t \in ts
    BY <2>4
  <2> QED
    BY <2>2, <2>4, <2>5, <2>6
<1>5. CASE frag.kind = "space" /\ SizeError(L, id, from) = {}
  <2> DEFINE n == Resolve(L, frag.size, NoShift)
  <2>1. frag.size \in Expr
    BY <1>1, <1>5 DEF Fragment, Instruction
  <2>2. SizeError(L, id, from)
           = IF Value(L, frag.size, NoShift) = {} THEN {"unresolved"}
             ELSE {"negative" : x \in {y \in Value(L, frag.size, NoShift) : y < 0}}
    BY <1>5 DEF SizeError
  <2>3. Value(L, frag.size, NoShift) # {}
    BY <1>5, <2>2
  <2>4. HasAddress(L.prog, frag.size) /\ Value(L, frag.size, NoShift) = {n}
    BY <2>3 DEF Value
  <2>5. ~(n < 0)
    BY <1>5, <2>2, <2>4
  <2>6. n \in Int
    BY <2>1, <2>4, ValuesAreIntegers
  <2>7. ComputeSize(L, id, from) = n
    BY <1>5 DEF ComputeSize
  <2> QED
    BY <2>5, <2>6, <2>7
<1>6. CASE frag.kind = "org" /\ SizeError(L, id, from) # {}
  BY <1>6 DEF ComputeSize
<1>7. CASE frag.kind = "space" /\ SizeError(L, id, from) # {}
  BY <1>7 DEF ComputeSize
<1>8. frag.kind \in {"bytes", "align", "org", "space", "leb"}
  BY <1>1 DEF Fragment, Instruction
<1> QED
  BY <1>2, <1>3, <1>4, <1>5, <1>6, <1>7, <1>8

(* The size cached for a fragment is natural.                              *)
LEMMA FragSizeIsNatural ==
    ASSUME NEW L, IsLayout(L), NEW id \in FragIds(L.prog)
    PROVE  FragSize(L, id) \in Nat
<1> DEFINE frag == FragAt(L.prog, id)
<1>1. frag \in Fragment
  BY FragmentsOfProgram DEF IsLayout
<1>2. CASE frag.kind = "bytes"
  <2>1. frag.variants \in Seq([len : Nat, fixups : Seq(Fixup)])
    BY <1>1, <1>2 DEF Fragment, Instruction, Variants
  <2>2. L.chosen[id] \in 1 .. Len(frag.variants)
    BY <1>2 DEF IsLayout, Candidates
  <2>3. \A T : \A seq \in Seq(T) : \A i \in 1 .. Len(seq) : seq[i] \in T
    OBVIOUS
  <2>4. frag.variants[L.chosen[id]] \in [len : Nat, fixups : Seq(Fixup)]
    BY <2>1, <2>2, <2>3, Zenon
  <2> QED
    BY <1>2, <2>4 DEF FragSize
<1>3. CASE frag.kind # "bytes"
  BY <1>3 DEF FragSize, IsLayout
<1> QED
  BY <1>2, <1>3

(* A section is placed at a natural address.                               *)
LEMMA BaseIsNatural ==
    ASSUME NEW L, IsLayout(L), NEW s \in DOMAIN L.prog.sections, NEW from \in Nat
    PROVE  Base(L, s, from) \in Nat
<1> DEFINE section == L.prog.sections[s]
<1>1. section \in Section
  BY DEF IsLayout, Program
<1>2. section.align \in Nat \ {0} /\ section.origin \in SUBSET Nat
  BY <1>1 DEF Section
<1>3. (-from) % section.align \in Nat
  BY <1>2, RemainderIsNatural
<1>4. NextMultiple(from, section.align) \in Nat
  BY <1>3 DEF NextMultiple
<1>5. section.origin # {} => (CHOOSE a \in section.origin : TRUE) \in Nat
  BY <1>2
<1> QED
  BY <1>4, <1>5 DEF Base

-----------------------------------------------------------------------------
(* The layout of a state, and the ones a walk weighs candidates in.        *)

(* The current layout of a well-typed state is one the operators are       *)
(* defined on.                                                             *)
LEMMA HereIsLayout ==
    ASSUME TypeOK PROVE IsLayout(Here)
BY DEF TypeOK, IsLayout, Here, Ids, Sections

(* So is the layout as assign_offsets is replacing the offsets,            *)
LEMMA WithOffsetsIsLayout ==
    ASSUME TypeOK, NEW o \in [Ids -> Nat]
    PROVE  IsLayout([Here EXCEPT !.off = o])
BY DEF TypeOK, IsLayout, Here, Ids, Sections

(* and the one a walk in address order sees.                               *)
LEMMA MovedIsLayout ==
    ASSUME TypeOK, cur \in Ids PROVE IsLayout(Moved)
BY DEF TypeOK, IsLayout, Here, Moved, Ids, Sections

(* A program may be laid out from its initial sizes.                       *)
LEMMA InitialTypes == Init => TypeOK
<1> SUFFICES ASSUME Init PROVE TypeOK
  OBVIOUS
<1>1. prog \in Program
  BY ProgramsAssumption DEF Init
<1>2. \A id \in Ids : 1 \in 1 .. Candidates(prog, id)
  BY <1>1, FragmentsOfProgram DEF Ids
<1>3. \A id \in Ids : FirstSize(prog, id) \in Nat
  BY DEF FirstSize
<1>4. prog.base \in Nat
  BY <1>1 DEF Program
<1>5. chosen \in [Ids -> Nat \ {0}] /\ (\A id \in Ids : chosen[id] \in 1 .. Candidates(prog, id))
  BY <1>2 DEF Init
<1>6. cached \in [Ids -> Nat] /\ off \in [Ids -> Nat]
  BY <1>3 DEF Init
<1>7. flips \in [Ids -> [shrank : Nat, grew : Nat]]
  BY DEF Init
<1>8. ssize \in [Sections -> Nat] /\ addr \in [Sections -> Nat] /\ cur \in Nat \X Nat
  BY DEF Init
<1>9. held \subseteq Ids
  BY DEF Init
<1>10. changed \in BOOLEAN
  BY DEF Init
<1>11. pass \in Nat \ {0}
  BY DEF Init
<1>12. at \in Nat
  BY <1>4, Zenon DEF Init
<1>13. pc = "addresses"
  BY Zenon DEF Init
<1> QED
  BY <1>1, <1>5, <1>6, <1>7, <1>8, <1>9, <1>10, <1>11, <1>12, <1>13 DEF TypeOK

-----------------------------------------------------------------------------
(* One lemma for each kind of step.                                        *)

(* assign_addresses keeps the types.                                       *)
LEMMA AddressTypes ==
    ASSUME TypeOK, AssignAddress \/ NextRound \/ EndOfAddresses
    PROVE  TypeOK'
<1>1. CASE AssignAddress
  <2>1. cur[1] \in Sections /\ prog' = prog
    BY <1>1 DEF AssignAddress
  <2>2. Base(Here, cur[1], at) \in Nat
    BY <2>1, HereIsLayout, BaseIsNatural DEF TypeOK, Sections, Here
  <2>3. addr' \in [Sections -> Nat] /\ at' \in Nat
    BY <1>1, <2>1, <2>2 DEF AssignAddress, TypeOK
  <2>4. cur' \in Nat \X Nat
    BY <1>1 DEF AssignAddress, TypeOK
  <2> QED
    BY <1>1, <2>3, <2>4 DEF AssignAddress, TypeOK, memory, Ids, Sections
<1>2. CASE NextRound
  BY <1>2 DEF NextRound, TypeOK, memory, layout, Ids, Sections
<1>3. CASE EndOfAddresses
  BY <1>3 DEF EndOfAddresses, TypeOK, memory, layout, Ids, Sections
<1> QED
  BY <1>1, <1>2, <1>3

(* What moving on by one fragment, or to the next section, leaves in the   *)
(* cursor.                                                                 *)
LEMMA CursorTypes ==
    ASSUME TypeOK
    PROVE  /\ \A size \in Nat : Advance(size) => cur' \in Nat \X Nat /\ at' \in Nat
           /\ \A next \in {"relax", "decide"} :
                 CloseSection(next) => /\ cur' \in Nat \X Nat
                                       /\ at' \in Nat
                                       /\ pc' \in {pc, next}
BY DEF TypeOK, Advance, CloseSection

(* Closing a section records a natural size.                               *)
LEMMA ResizeTypes ==
    ASSUME TypeOK, ResizeSection
    PROVE  ssize' \in [Sections -> Nat] /\ changed' \in BOOLEAN
BY DEF TypeOK, ResizeSection

(* assign_offsets keeps the types.                                         *)
LEMMA OffsetTypes ==
    ASSUME TypeOK, PlaceFragment \/ EndOfOffsets
    PROVE  TypeOK'
<1>1. CASE PlaceFragment
  <2> DEFINE L == [Here EXCEPT !.off = off']
             size == IF FragAt(prog, cur).kind = "bytes" THEN FragSize(Here, cur)
                     ELSE ComputeSize(L, cur, at)
  <2>1. cur \in Ids /\ prog' = prog
    BY <1>1 DEF PlaceFragment, AtFragment
  <2>2. off' \in [Ids -> Nat]
    BY <1>1, <2>1 DEF PlaceFragment, TypeOK
  <2>3. IsLayout(L) /\ IsLayout(Here) /\ L.prog = prog /\ Here.prog = prog
    BY <2>2, WithOffsetsIsLayout, HereIsLayout DEF Here
  <2>4. size \in Nat
    BY <2>1, <2>3, SizesAreNatural, FragSizeIsNatural DEF TypeOK, Ids
  <2>5. cached' = [cached EXCEPT ![cur] = size] /\ Advance(size)
    BY <1>1 DEF PlaceFragment
  <2> HIDE DEF size
  <2>6. cached' \in [Ids -> Nat]
    BY <2>1, <2>4, <2>5 DEF TypeOK
  <2>7. cur' \in Nat \X Nat /\ at' \in Nat
    BY <2>4, <2>5, CursorTypes
  <2>8. changed' \in BOOLEAN
    BY <1>1 DEF PlaceFragment, TypeOK
  <2> QED
    BY <1>1, <2>1, <2>2, <2>6, <2>7, <2>8 DEF PlaceFragment, TypeOK, memory, Ids, Sections
<1>2. CASE EndOfOffsets
  BY <1>2, CursorTypes, ResizeTypes DEF EndOfOffsets, TypeOK, memory, Ids, Sections
<1> QED
  BY <1>1, <1>2

(* A candidate the fragment at the cursor has may be picked.               *)
LEMMA PickTypes ==
    ASSUME TypeOK, cur \in Ids, FragAt(prog, cur).kind = "bytes",
           NEW k \in 1 .. Candidates(prog, cur), Pick(k)
    PROVE  /\ off' \in [Ids -> Nat]
           /\ chosen' \in [Ids -> Nat \ {0}]
           /\ \A id \in Ids : chosen'[id] \in 1 .. Candidates(prog, id)
           /\ changed' \in BOOLEAN
           /\ cur' \in Nat \X Nat
           /\ at' \in Nat
           /\ UNCHANGED <<prog, cached, ssize, addr, pc, pass, errors>>
<1>1. FragAt(prog, cur) \in Fragment /\ Candidates(prog, cur) \in Nat \ {0}
  BY FragmentsOfProgram DEF TypeOK, Ids
<1>2. FragAt(prog, cur).variants \in Seq([len : Nat, fixups : Seq(Fixup)])
  BY <1>1 DEF Fragment, Instruction, Variants
<1>3. k \in 1 .. Len(FragAt(prog, cur).variants)
  BY DEF Candidates
<1>4. \A T : \A seq \in Seq(T) : \A i \in 1 .. Len(seq) : seq[i] \in T
  OBVIOUS
<1>5. FragAt(prog, cur).variants[k] \in [len : Nat, fixups : Seq(Fixup)]
  BY <1>2, <1>3, <1>4, Zenon
<1>6. FragAt(prog, cur).variants[k].len \in Nat
  BY <1>5
<1>7. cur' \in Nat \X Nat /\ at' \in Nat
  BY <1>6, CursorTypes DEF Pick
<1>8. off' \in [Ids -> Nat]
  BY DEF Pick, TypeOK
<1>9. k \in Nat \ {0}
  BY <1>1
<1>10. chosen' = [chosen EXCEPT ![cur] = k]
  BY DEF Pick
<1>11. chosen' \in [Ids -> Nat \ {0}]
  BY <1>9, <1>10 DEF TypeOK
<1>12. ASSUME NEW id \in Ids PROVE chosen'[id] \in 1 .. Candidates(prog, id)
  BY <1>10 DEF TypeOK
<1>13. changed' \in BOOLEAN
  BY DEF Pick, TypeOK
<1> QED
  BY <1>7, <1>8, <1>11, <1>12, <1>13 DEF Pick

(* Whatever the test of the candidates, the first of those from `low' on   *)
(* that pass it, or the last of all, is a candidate and not below `low'.   *)
LEMMA FirstFitIsCandidate ==
    ASSUME NEW n \in Nat \ {0}, NEW low \in 1 .. n, NEW ks \in SUBSET (low .. n)
    PROVE  LeastOr(ks, n) \in low .. n
<1>1. ks \in SUBSET Nat
  OBVIOUS
<1>2. LeastOr(ks, n) \in ks \cup {n}
  BY <1>1, LeastOrIsLeast
<1>3. n \in low .. n
  OBVIOUS
<1> QED
  BY <1>2, <1>3, Zenon

(* The pass that only grows fragments keeps the types.                     *)
LEMMA GrowthTypes ==
    ASSUME TypeOK, GrowFragment \/ EndOfGrowth
    PROVE  TypeOK'
<1>1. CASE GrowFragment
  <2>1. cur \in Ids /\ prog' = prog
    BY <1>1 DEF GrowFragment, AtFragment
  <2>2. Candidates(prog, cur) \in Nat
    BY <2>1, FragmentsOfProgram DEF TypeOK, Ids
  <2>3. chosen' \in [Ids -> Nat \ {0}]
    BY <1>1, <2>1 DEF GrowFragment, TypeOK
  <2>4. ASSUME NEW id \in Ids PROVE chosen'[id] \in 1 .. Candidates(prog, id)
    <3>1. CASE Grows(cur) /\ id = cur
      BY <1>1, <2>1, <2>2, <3>1 DEF GrowFragment, Grows, TypeOK
    <3>2. CASE ~(Grows(cur) /\ id = cur)
      BY <1>1, <2>1, <3>2 DEF GrowFragment, TypeOK
    <3> QED
      BY <3>1, <3>2
  <2>5. cur' \in Nat \X Nat /\ at' \in Nat
    BY <1>1, CursorTypes DEF GrowFragment
  <2>6. changed' \in BOOLEAN
    BY <1>1 DEF GrowFragment, TypeOK
  <2> QED
    BY <1>1, <2>3, <2>4, <2>5, <2>6 DEF GrowFragment, TypeOK, memory, Ids, Sections
<1>2. CASE EndOfGrowth
  BY <1>2, CursorTypes DEF EndOfGrowth, TypeOK, memory, layout, Ids, Sections
<1> QED
  BY <1>1, <1>2

(* The walk that grows fragments in address order keeps the types, and     *)
(* moves a fragment only to a later variant.                               *)
LEMMA GrowInOrderTypes ==
    ASSUME TypeOK, GrowInOrder
    PROVE  TypeOK' /\ NextInOrder(cur) \in chosen[cur] .. Candidates(prog, cur)
<1>1. cur \in Ids /\ FragAt(prog, cur).kind = "bytes"
  BY DEF GrowInOrder, InOrderWalk, AtFragment, IsRelaxable
<1>2. Candidates(prog, cur) \in Nat \ {0} /\ chosen[cur] \in 1 .. Candidates(prog, cur)
  BY <1>1, FragmentsOfProgram DEF TypeOK, Ids
<1> DEFINE n == Candidates(prog, cur)
           ks == {k \in chosen[cur] .. n : FitsInOrder(Moved, cur, k, Stretch)}
<1>3. LeastOr(ks, n) \in chosen[cur] .. n
  BY <1>2, FirstFitIsCandidate
<1>4. NextInOrder(cur) = LeastOr(ks, n)
  BY DEF NextInOrder
<1>5. NextInOrder(cur) \in 1 .. Candidates(prog, cur)
  BY <1>2, <1>3, <1>4
<1>6. Pick(NextInOrder(cur)) /\ UNCHANGED memory
  BY DEF GrowInOrder
<1>7. TypeOK'
  BY <1>1, <1>5, <1>6, PickTypes DEF TypeOK, memory, Ids, Sections
<1> QED
  BY <1>3, <1>4, <1>7

(* Picking the first variant that fits, each pass anew, keeps the types.   *)
LEMMA RepickEachPassTypes ==
    ASSUME TypeOK, RepickEachPass
    PROVE  TypeOK'
<1>1. cur \in Ids /\ FragAt(prog, cur).kind = "bytes"
  BY DEF RepickEachPass, InOrderWalk, AtFragment, IsRelaxable
<1>2. Candidates(prog, cur) \in Nat \ {0}
  BY <1>1, FragmentsOfProgram DEF TypeOK, Ids
<1> DEFINE n == Candidates(prog, cur)
           ks == {j \in 1 .. n : FitsStretched(Moved, cur, j, Stretch)}
           k == LeastOr(ks, n)
<1>3. k \in 1 .. n
  BY <1>2, FirstFitIsCandidate
<1>4. Pick(k) /\ UNCHANGED flips /\ held' = (IF KeepsForGood(k) THEN held \cup {cur} ELSE held)
  BY DEF RepickEachPass
<1> HIDE DEF k
<1>5. held' \subseteq Ids
  BY <1>1, <1>4 DEF TypeOK
<1> QED
  BY <1>1, <1>3, <1>4, <1>5, PickTypes DEF TypeOK, Ids, Sections

(* Repick picks one of the candidates, counts a flip when it changes the   *)
(* size, and never picks one below the fragment's lowest.                  *)
LEMMA RepickTypes ==
    ASSUME TypeOK, Repick
    PROVE  /\ TypeOK'
           /\ chosen'[cur] < chosen[cur] => /\ Lowest(cur) < chosen[cur]
                                            /\ ~Stuck(cur)
<1>1. cur \in Ids /\ FragAt(prog, cur).kind = "bytes"
  BY DEF Repick, InOrderWalk, AtFragment, IsRelaxable
<1>2. /\ Candidates(prog, cur) \in Nat \ {0}
      /\ chosen[cur] \in 1 .. Candidates(prog, cur)
  BY <1>1, FragmentsOfProgram DEF TypeOK, Ids
<1>3. Lowest(cur) \in 1 .. chosen[cur]
  BY <1>2 DEF Lowest
<1>4. Lowest(cur) \in 1 .. Candidates(prog, cur)
  BY <1>2, <1>3
<1> DEFINE n == Candidates(prog, cur)
           ks == {k \in Lowest(cur) .. n : VariantFits(Moved, cur, k, Stretch)}
           fit == LeastOr(ks, n)
<1>5. fit \in Lowest(cur) .. n
  BY <1>2, <1>4, FirstFitIsCandidate
<1>6. fit \in 1 .. n
  BY <1>2, <1>4, <1>5
<1>7. /\ \/ /\ fit < chosen[cur]
            /\ flips' = [flips EXCEPT ![cur].shrank = @ + 1]
            /\ Pick(IF Stuck(cur) THEN chosen[cur] ELSE fit)
         \/ /\ fit > chosen[cur]
            /\ flips' = [flips EXCEPT ![cur].grew = @ + 1]
            /\ Pick(fit)
         \/ /\ fit = chosen[cur]
            /\ flips' = flips
            /\ Pick(fit)
      /\ UNCHANGED held
  BY DEF Repick
<1> HIDE DEF fit
<1>8. flips[cur] \in [shrank : Nat, grew : Nat]
  BY <1>1 DEF TypeOK
<1>9. flips' \in [Ids -> [shrank : Nat, grew : Nat]]
  BY <1>1, <1>7, <1>8 DEF TypeOK
<1>10. PICK k \in 1 .. n : Pick(k) /\ (k < chosen[cur] => k = fit /\ ~Stuck(cur))
  BY <1>2, <1>6, <1>7
<1>11. TypeOK'
  BY <1>1, <1>7, <1>9, <1>10, PickTypes DEF TypeOK, Ids, Sections
<1>12. chosen' = [chosen EXCEPT ![cur] = k]
  BY <1>10 DEF Pick
<1>13. chosen'[cur] = k
  BY <1>1, <1>12 DEF TypeOK
<1> QED
  BY <1>2, <1>3, <1>5, <1>10, <1>11, <1>13

(* Padding and the fragments with one size, met by a walk, keep the types. *)
LEMMA WalkTypes ==
    ASSUME TypeOK, Repad \/ MoveOnly \/ EndOfWalk
    PROVE  TypeOK'
<1>1. CASE Repad
  <2>1. cur \in Ids /\ FragAt(prog, cur).kind = "align"
    BY <1>1 DEF Repad, InOrderWalk, AtFragment
  <2>2. IsLayout(Moved) /\ Moved.prog = prog
    BY <2>1, MovedIsLayout DEF Moved, Here
  <2>3. ComputeSize(Moved, cur, at) \in Nat
    BY <2>1, <2>2, SizesAreNatural DEF TypeOK, Ids
  <2>4. /\ cached' = [cached EXCEPT ![cur] = ComputeSize(Moved, cur, at)]
        /\ Advance(ComputeSize(Moved, cur, at))
    BY <1>1 DEF Repad
  <2>5. cached' \in [Ids -> Nat]
    BY <2>1, <2>3, <2>4 DEF TypeOK
  <2>6. cur' \in Nat \X Nat /\ at' \in Nat
    BY <2>3, <2>4, CursorTypes
  <2>7. off' \in [Ids -> Nat]
    BY <1>1 DEF Repad, TypeOK
  <2> QED
    BY <1>1, <2>5, <2>6, <2>7 DEF Repad, TypeOK, memory, Ids, Sections
<1>2. CASE MoveOnly
  <2>1. cur \in Ids
    BY <1>2 DEF MoveOnly, InOrderWalk, AtFragment
  <2>2. FragSize(Here, cur) \in Nat
    BY <2>1, HereIsLayout, FragSizeIsNatural DEF Here, Ids
  <2>3. cur' \in Nat \X Nat /\ at' \in Nat
    BY <1>2, <2>2, CursorTypes DEF MoveOnly
  <2>4. off' \in [Ids -> Nat]
    BY <1>2 DEF MoveOnly, TypeOK
  <2> QED
    BY <1>2, <2>3, <2>4 DEF MoveOnly, TypeOK, memory, Ids, Sections
<1>3. CASE EndOfWalk
  BY <1>3, CursorTypes, ResizeTypes DEF EndOfWalk, TypeOK, memory, Ids, Sections
<1> QED
  BY <1>1, <1>2, <1>3

(* The end of a pass and the steps that place the image keep the types.    *)
LEMMA DecisionTypes ==
    ASSUME TypeOK, Settle \/ NextPass \/ GiveUp \/ PlaceImage \/ ApplyFixups
    PROVE  TypeOK'
<1>1. prog.base \in Nat
  BY DEF TypeOK, Program
<1>2. CASE Settle
  BY <1>2 DEF Settle, TypeOK, memory, layout, Ids, Sections
<1>3. CASE NextPass
  BY <1>1, <1>3 DEF NextPass, TypeOK, memory, layout, Ids, Sections
<1>4. CASE GiveUp
  BY <1>4 DEF GiveUp, TypeOK, memory, layout, Ids, Sections
<1>5. CASE PlaceImage
  BY <1>1, <1>5 DEF PlaceImage, TypeOK, memory, layout, Ids, Sections
<1>6. CASE ApplyFixups
  BY <1>6 DEF ApplyFixups, TypeOK, memory, layout, Ids, Sections
<1> QED
  BY <1>2, <1>3, <1>4, <1>5, <1>6

(* Appending fragments to a section leaves those it had where they were.   *)
LEMMA AppendingKeepsElements ==
    ASSUME NEW T, NEW a \in Seq(T), a # <<>>, NEW b \in Seq(T)
    PROVE  /\ a \o b \in Seq(T) /\ a \o b # <<>>
           /\ \A s \in DOMAIN a : s \in DOMAIN (a \o b) /\ (a \o b)[s] = a[s]
<1>1. a \o b \in Seq(T) /\ Len(a \o b) = Len(a) + Len(b)
  OBVIOUS
<1>2. Len(a) \in Nat \ {0} /\ Len(b) \in Nat
  OBVIOUS
<1>3. a \o b # <<>>
  BY <1>1, <1>2
<1>4. DOMAIN a = 1 .. Len(a) /\ DOMAIN (a \o b) = 1 .. Len(a) + Len(b)
  BY <1>1
<1>5. \A s \in 1 .. Len(a) : (a \o b)[s] = a[s]
  OBVIOUS
<1> QED
  BY <1>1, <1>2, <1>3, <1>4, <1>5

(* Sections are added at the end: the fragments there were keep their ids. *)
LEMMA EmitExtends ==
    ASSUME TypeOK, Emit
    PROVE  /\ prog' \in Program
           /\ Ids \subseteq Ids'
           /\ \A id \in Ids : FragAt(prog', id) = FragAt(prog, id)
           /\ prog'.base = prog.base
           /\ chosen' = [id \in Ids' |-> IF id \in Ids THEN chosen[id] ELSE 1]
<1> DEFINE new == Head(prog.late)
           old == prog.sections
<1>1. /\ old \in Seq(Section) \ {<<>>}
      /\ prog.late \in Seq(Seq(Section)) /\ prog.late # <<>>
      /\ prog \in Program
  BY DEF TypeOK, Program, Emit, Emits
<1>2. new \in Seq(Section) /\ Tail(prog.late) \in Seq(Seq(Section))
  BY <1>1
<1>3. prog' = [prog EXCEPT !.sections = @ \o Head(prog.late), !.late = Tail(@)]
  BY DEF Emit
<1>4. prog'.sections = old \o new /\ prog'.late = Tail(prog.late)
  BY <1>1, <1>3 DEF Program
<1> HIDE DEF old, new
<1>5. /\ old \o new \in Seq(Section) /\ old \o new # <<>>
      /\ \A s \in DOMAIN old : s \in DOMAIN (old \o new) /\ (old \o new)[s] = old[s]
  <2>1. old \in Seq(Section) /\ old # <<>> /\ new \in Seq(Section)
    BY <1>1, <1>2
  <2> QED
    BY <2>1, AppendingKeepsElements, Zenon
<1>6. prog' \in Program /\ prog'.base = prog.base
  BY <1>1, <1>2, <1>3, <1>5 DEF Program, old, new
<1>7. ASSUME NEW id \in Ids PROVE id \in Ids' /\ FragAt(prog', id) = FragAt(prog, id)
  <2>1. id[1] \in DOMAIN old /\ id[2] \in DOMAIN old[id[1]].frags /\ id = <<id[1], id[2]>>
    BY <1>1, FragmentsOfProgram DEF Ids, old
  <2>2. prog'.sections[id[1]] = old[id[1]] /\ id[1] \in DOMAIN prog'.sections
    <3>1. (old \o new)[id[1]] = old[id[1]] /\ id[1] \in DOMAIN (old \o new)
      BY <1>5, <2>1, Zenon
    <3>2. prog'.sections = old \o new
      BY <1>4
    <3> QED
      BY <3>1, <3>2
  <2>3. id \in Ids'
    BY <2>1, <2>2 DEF Ids, FragIds
  <2> QED
    BY <2>2, <2>3 DEF FragAt, old
<1>8. chosen' = [id \in Ids' |-> IF id \in Ids THEN chosen[id] ELSE 1]
  BY DEF Emit, Extend, TypeOK
<1> QED
  BY <1>6, <1>7, <1>8

(* An emission, which adds sections between two layouts, keeps the types.  *)
LEMMA EmitTypes ==
    ASSUME TypeOK, Emit
    PROVE  TypeOK'
<1>1. /\ prog' \in Program
      /\ Ids \subseteq Ids'
      /\ \A id \in Ids : FragAt(prog', id) = FragAt(prog, id)
  BY EmitExtends
<1>2. chosen' = [id \in Ids' |-> IF id \in Ids THEN chosen[id] ELSE 1]
  BY EmitExtends
<1>3. chosen' \in [Ids' -> Nat \ {0}]
  BY <1>2 DEF TypeOK
<1>4. ASSUME NEW id \in Ids' PROVE chosen'[id] \in 1 .. Candidates(prog', id)
  <2>1. CASE id \in Ids
    BY <1>1, <1>2, <2>1 DEF Candidates, TypeOK
  <2>2. CASE id \notin Ids
    BY <1>1, <1>2, <2>2, FragmentsOfProgram DEF Ids
  <2> QED
    BY <2>1, <2>2
<1>5. cached' \in [Ids' -> Nat]
  BY DEF FirstSize, Emit, Extend, TypeOK
<1>6. off' \in [Ids' -> Nat]
  BY DEF Emit, Extend, TypeOK
<1>7. ssize' \in [Sections' -> Nat] /\ addr' \in [Sections' -> Nat]
  BY DEF Emit, Extend, TypeOK
<1>8. flips' \in [Ids' -> [shrank : Nat, grew : Nat]]
  BY DEF Emit
<1>9. prog.base \in Nat
  BY DEF TypeOK, Program
<1>10. at' \in Nat /\ pc' = "addresses" /\ pass' = 1 /\ held' = {} /\ UNCHANGED <<cur, changed>>
  BY <1>9 DEF Emit
<1> QED
  BY <1>1, <1>3, <1>4, <1>5, <1>6, <1>7, <1>8, <1>10 DEF TypeOK

-----------------------------------------------------------------------------
(* Every variable keeps the shape the code gives it: sizes and offsets are *)
(* never negative and no fragment picks a candidate it does not have.      *)
THEOREM TypeCorrect == Spec => []TypeOK
<1>1. Init => TypeOK
  BY InitialTypes
<1>2. TypeOK /\ [Next]_vars => TypeOK'
  <2> SUFFICES ASSUME TypeOK, [Next]_vars PROVE TypeOK'
    OBVIOUS
  <2>1. CASE AssignAddress \/ NextRound \/ EndOfAddresses
    BY <2>1, AddressTypes
  <2>2. CASE PlaceFragment \/ EndOfOffsets
    BY <2>2, OffsetTypes
  <2>3. CASE GrowFragment \/ EndOfGrowth
    BY <2>3, GrowthTypes
  <2>4. CASE GrowInOrder
    BY <2>4, GrowInOrderTypes
  <2>5. CASE RepickEachPass
    BY <2>5, RepickEachPassTypes
  <2>6. CASE Repick
    BY <2>6, RepickTypes
  <2>7. CASE Repad \/ MoveOnly \/ EndOfWalk
    BY <2>7, WalkTypes
  <2>8. CASE Settle \/ NextPass \/ GiveUp \/ PlaceImage \/ ApplyFixups
    BY <2>8, DecisionTypes
  <2>9. CASE Emit
    BY <2>9, EmitTypes
  <2>10. CASE UNCHANGED vars
    BY <2>10 DEF TypeOK, vars, layout, walk, memory, Ids, Sections
  <2>11. CASE Stop
    BY <2>10, <2>11 DEF Stop
  <2> QED
    BY <2>1, <2>2, <2>3, <2>4, <2>5, <2>6, <2>7, <2>8, <2>9, <2>10, <2>11 DEF Next
<1> QED
  BY <1>1, <1>2, PTL DEF Spec

(* Code keeps every size it has grown to, except where its strategy says   *)
(* it may shrink.                                                          *)
THEOREM OnlyAllowedShrinks == Spec => ShrinksAreAllowed
<1> DEFINE Allowed ==
        \A id \in DOMAIN chosen :
          chosen'[id] < chosen[id] =>
             \/ Mode = EachPass /\ id \notin held
             \/ /\ Mode = Shrinking
                /\ FragAt(prog, id).mode = Shrinking
                /\ ~(flips[id].shrank > FlipLimit /\ flips[id].grew > FlipLimit)
<1>1. TypeOK /\ [Next]_vars => [Allowed]_vars
  <2> SUFFICES ASSUME TypeOK, [Next]_vars, NEW id \in Ids, chosen'[id] < chosen[id]
               PROVE  \/ Mode = EachPass /\ id \notin held
                      \/ /\ Mode = Shrinking
                         /\ FragAt(prog, id).mode = Shrinking
                         /\ ~(flips[id].shrank > FlipLimit /\ flips[id].grew > FlipLimit)
    BY DEF TypeOK
  <2>1. chosen[id] \in Nat
    BY DEF TypeOK
  <2>2. CASE UNCHANGED chosen
    BY <2>1, <2>2
  <2>3. CASE GrowFragment
    BY <2>1, <2>3 DEF GrowFragment, TypeOK
  <2>4. CASE GrowInOrder
    <3>1. NextInOrder(cur) \in chosen[cur] .. Candidates(prog, cur) /\ cur \in Ids
      BY <2>4, GrowInOrderTypes DEF GrowInOrder, InOrderWalk, AtFragment
    <3>2. chosen' = [chosen EXCEPT ![cur] = NextInOrder(cur)]
      BY <2>4 DEF GrowInOrder, Pick
    <3>3. Candidates(prog, cur) \in Nat /\ chosen[cur] \in Nat
      BY <3>1, FragmentsOfProgram DEF TypeOK, Ids
    <3>4. NextInOrder(cur) \in Nat /\ NextInOrder(cur) >= chosen[cur]
      BY <3>1, <3>3
    <3>5. chosen'[id] \in Nat /\ chosen'[id] >= chosen[id]
      BY <2>1, <3>2, <3>4 DEF TypeOK
    <3> QED
      BY <2>1, <3>5
  <2>5. CASE RepickEachPass
    <3>1. Mode = EachPass /\ cur \in Ids /\ ~IsHeld(cur)
      BY <2>5 DEF RepickEachPass, InOrderWalk, AtFragment
    <3>2. PICK k : chosen' = [chosen EXCEPT ![cur] = k]
      BY <2>5 DEF RepickEachPass, Pick
    <3>3. id = cur
      BY <2>1, <3>2 DEF TypeOK
    <3> QED
      BY <3>1, <3>3 DEF IsHeld
  <2>6. CASE Repick
    <3>1. Mode = Shrinking /\ cur \in Ids
      BY <2>6 DEF Repick, InOrderWalk, AtFragment
    <3>2. PICK k : chosen' = [chosen EXCEPT ![cur] = k]
      BY <2>6 DEF Repick, Pick
    <3>3. id = cur
      BY <2>1, <3>2 DEF TypeOK
    <3>4. Lowest(cur) < chosen[cur] /\ ~Stuck(cur)
      BY <2>6, <3>3, RepickTypes
    <3> QED
      BY <2>1, <3>1, <3>3, <3>4 DEF Lowest, Stuck
  <2>7. CASE Emit
    BY <2>1, <2>7, EmitExtends
  <2>8. \/ UNCHANGED chosen \/ GrowFragment \/ GrowInOrder \/ RepickEachPass \/ Repick \/ Emit
    BY DEF Next, vars, layout, AssignAddress, NextRound, EndOfAddresses, PlaceFragment,
           EndOfOffsets, EndOfGrowth, Repad, MoveOnly, EndOfWalk, Settle, NextPass, GiveUp,
           PlaceImage, ApplyFixups, Stop
  <2> QED
    BY <2>2, <2>3, <2>4, <2>5, <2>6, <2>7, <2>8
<1> QED
  BY <1>1, TypeCorrect, PTL DEF Spec, ShrinksAreAllowed

-----------------------------------------------------------------------------
(* Positions: the starts of the fragments of each section, and its end.    *)
Positions(p) ==
    UNION {{<<s, f>> : f \in 1 .. NumFrags(p, s) + 1} : s \in DOMAIN p.sections}

(* Where the fragment before a position ends.                              *)
EndBefore(L, l) == IF l[2] = 1 THEN 0 ELSE FragEnd(L, <<l[1], l[2] - 1>>)

Meets(L, l) == LabelOffset(L, l) = EndBefore(L, l)
Trails(L, l) == LabelOffset(L, l) <= EndBefore(L, l)

Behind(l, c) == l[1] < c[1] \/ (l[1] = c[1] /\ l[2] < c[2])

-----------------------------------------------------------------------------
(* What a pass that changes nothing has established for a fragment.        *)

(* Its size is the one the layout gives, with what is wrong with it told.  *)
SizedHere(id) ==
    /\ FragAt(prog, id).kind # "bytes" => cached[id] = ComputeSize(Here, id, off[id])
    /\ \A e \in SizeError(Here, id, off[id]) : <<id, e>> \in errors

(* Its candidate reaches, and under repick no smaller one does.            *)
ChosenHere(id) ==
    /\ ~Stuck(id) /\ id \notin held /\ chosen[id] < Candidates(prog, id)
          => VariantFits(Here, id, chosen[id], 0)
    /\ Mode = Shrinking /\ FragAt(prog, id).mode = Shrinking /\ ~Stuck(id)
          => \A k \in 1 .. chosen[id] - 1 : ~VariantFits(Here, id, k, 0)

-----------------------------------------------------------------------------
(* Where the sections before one in the image end, and what it means for   *)
(* a section to have been placed there.                                    *)

Earlier(s) == {t \in Sections : Before(prog, t, s)}

LastOf(ss) == CHOOSE t \in ss : \A u \in ss : u # t => Before(prog, u, t)

EndOf(ss) == IF ss = {} THEN prog.base ELSE addr[LastOf(ss)] + ssize[LastOf(ss)]

InPlace(s) == addr[s] = Base(Here, s, EndOf(Earlier(s)))

(* The source placed no section of the flat image itself.                  *)
NoOrigins == ~prog.relocatable /\ \A s \in Sections : prog.sections[s].origin = {}

Apart(ss) ==
    NoOrigins => \A s, t \in ss : Before(prog, s, t) => addr[s] + ssize[s] <= addr[t]

Addressed == (\A s \in Sections : InPlace(s)) /\ Apart(Sections)

(* The sections the walk of assign_addresses has been over.                *)
Placed(c) ==
    {t \in Sections : Round(prog, t) < c[2] \/ (Round(prog, t) = c[2] /\ t < c[1])}

-----------------------------------------------------------------------------
(* The invariant, one conjunct for each part of a pass.                    *)

Settled ==
    /\ \A l \in Positions(prog) : Meets(Here, l)
    /\ \A id \in Ids : SizedHere(id) /\ ChosenHere(id)
    /\ Addressed

AddressWalk ==
    IsPlacing =>
        /\ cur[1] \in 1 .. Len(prog.sections) + 1
        /\ cur[2] \in 1 .. Rounds
        /\ at = EndOf(Placed(cur))
        /\ \A s \in Placed(cur) : InPlace(s) /\ (NoOrigins => addr[s] + ssize[s] <= at)
        /\ Apart(Placed(cur))

BeforeWalk == pc = "addresses" => \A l \in Positions(prog) : Trails(Here, l)

OffsetWalk ==
    pc = "offsets" =>
        /\ cur \in Positions(prog)
        /\ at = EndBefore(Here, cur)
        /\ \A l \in Positions(prog) :
              l # cur => IF Behind(l, cur) THEN Meets(Here, l) ELSE Trails(Here, l)
        /\ ~changed => /\ Addressed
                       /\ LabelOffset(Here, cur) <= at
                       /\ LabelOffset(Here, cur) = at
                             => \A id \in Ids : Behind(id, cur) => SizedHere(id)

RelaxWalk ==
    pc = "relax" =>
        /\ cur \in Positions(prog)
        /\ Mode = FromLastPass => \A l \in Positions(prog) : Trails(Here, l)
        /\ Mode # FromLastPass =>
              /\ at = EndBefore(Here, cur)
              /\ \A l \in Positions(prog) : l # cur => Meets(Here, l)
        /\ ~changed => /\ Addressed
                       /\ \A l \in Positions(prog) : Meets(Here, l)
                       /\ \A id \in Ids : SizedHere(id) /\ (Behind(id, cur) => ChosenHere(id))

EndOfPass ==
    pc \in {"decide", "settled"} =>
        /\ cur = <<1, 1>>
        /\ \A l \in Positions(prog) : Trails(Here, l)
        /\ pc = "settled" \/ ~changed => Settled

AfterPasses == pc \in {"final", "report", "done"} => Settled

SettlingInv ==
    TypeOK /\ AddressWalk /\ BeforeWalk /\ OffsetWalk /\ RelaxWalk /\ EndOfPass /\ AfterPasses

-----------------------------------------------------------------------------
(* A position is the start of a fragment or the end of a section, and is   *)
(* the start of the section or follows a fragment.                         *)
LEMMA PositionsOfProgram ==
    ASSUME NEW p \in Program, NEW l \in Positions(p)
    PROVE  /\ l \in Nat \X Nat
           /\ l[1] \in DOMAIN p.sections
           /\ NumFrags(p, l[1]) \in Nat
           /\ l[2] \in 1 .. NumFrags(p, l[1]) + 1
           /\ l \in FragIds(p) <=> l[2] # NumFrags(p, l[1]) + 1
           /\ l[2] # 1 => <<l[1], l[2] - 1>> \in FragIds(p)
<1>1. PICK s \in DOMAIN p.sections : \E f \in 1 .. NumFrags(p, s) + 1 : l = <<s, f>>
  BY DEF Positions
<1>2. PICK f \in 1 .. NumFrags(p, s) + 1 : l = <<s, f>>
  BY <1>1
<1>3. p.sections \in Seq(Section)
  BY DEF Program
<1>4. p.sections[s] \in Section /\ s \in Nat
  BY <1>3
<1>5. p.sections[s].frags \in Seq(Fragment)
  BY <1>4 DEF Section
<1>6. NumFrags(p, s) \in Nat /\ DOMAIN p.sections[s].frags = 1 .. NumFrags(p, s)
  BY <1>5 DEF NumFrags
<1>7. f \in Nat
  BY <1>6
<1>8. l \in FragIds(p) <=> f # NumFrags(p, s) + 1
  <2>1. ASSUME l \in FragIds(p) PROVE f # NumFrags(p, s) + 1
    BY <1>2, <1>6, <2>1, FragmentsOfProgram
  <2>2. ASSUME f # NumFrags(p, s) + 1 PROVE l \in FragIds(p)
    BY <1>2, <1>6, <1>7, <2>2 DEF FragIds
  <2> QED
    BY <2>1, <2>2
<1>9. f # 1 => <<s, f - 1>> \in FragIds(p)
  BY <1>6, <1>7 DEF FragIds
<1> QED
  BY <1>2, <1>4, <1>6, <1>7, <1>8, <1>9

(* A fragment starts at a position, and another position follows it.       *)
LEMMA PositionsOfFragment ==
    ASSUME NEW p \in Program, NEW id \in FragIds(p)
    PROVE  /\ id \in Positions(p)
           /\ <<id[1], id[2] + 1>> \in Positions(p)
           /\ id = <<id[1], id[2]>>
<1>1. /\ id \in Nat \X Nat
      /\ id[1] \in DOMAIN p.sections
      /\ id[2] \in DOMAIN p.sections[id[1]].frags
  BY FragmentsOfProgram
<1>2. p.sections[id[1]] \in Section
  BY <1>1 DEF Program
<1>3. NumFrags(p, id[1]) \in Nat /\ id[2] \in 1 .. NumFrags(p, id[1])
  BY <1>1, <1>2 DEF Section, NumFrags
<1>4. id[2] \in 1 .. NumFrags(p, id[1]) + 1 /\ id[2] + 1 \in 1 .. NumFrags(p, id[1]) + 1
  BY <1>3
<1>5. id = <<id[1], id[2]>>
  BY <1>1
<1> QED
  BY <1>1, <1>4, <1>5 DEF Positions

(* Every section has a first position and a last.                          *)
LEMMA PositionsOfSection ==
    ASSUME NEW p \in Program, NEW s \in DOMAIN p.sections
    PROVE  /\ <<s, 1>> \in Positions(p)
           /\ <<s, NumFrags(p, s) + 1>> \in Positions(p)
           /\ NumFrags(p, s) \in Nat
           /\ s \in Nat \ {0}
<1>1. p.sections[s] \in Section /\ s \in Nat \ {0}
  BY DEF Program
<1>2. NumFrags(p, s) \in Nat
  BY <1>1 DEF Section, NumFrags
<1>3. 1 \in 1 .. NumFrags(p, s) + 1 /\ NumFrags(p, s) + 1 \in 1 .. NumFrags(p, s) + 1
  BY <1>2
<1> QED
  BY <1>1, <1>2, <1>3 DEF Positions

(* Positions are natural offsets, and so are the ends of fragments.        *)
LEMMA PositionsAreNatural ==
    ASSUME NEW L, IsLayout(L), NEW l \in Positions(L.prog)
    PROVE  LabelOffset(L, l) \in Nat /\ EndBefore(L, l) \in Nat
<1>1. /\ l \in Nat \X Nat
      /\ l[1] \in DOMAIN L.prog.sections
      /\ l[2] # 1 => <<l[1], l[2] - 1>> \in FragIds(L.prog)
  BY PositionsOfProgram DEF IsLayout
<1>2. LabelOffset(L, l) \in Nat
  BY <1>1, OffsetsAreNatural DEF IsDefined, Labels
<1>3. l[2] # 1 => FragEnd(L, <<l[1], l[2] - 1>>) \in Nat
  <2>1. SUFFICES ASSUME l[2] # 1 PROVE FragEnd(L, <<l[1], l[2] - 1>>) \in Nat
    OBVIOUS
  <2> DEFINE id == <<l[1], l[2] - 1>>
  <2>2. id \in FragIds(L.prog)
    BY <1>1, <2>1
  <2>3. FragSize(L, id) \in Nat /\ L.off[id] \in Nat
    BY <2>2, FragSizeIsNatural DEF IsLayout
  <2> QED
    BY <2>3 DEF FragEnd
<1> QED
  BY <1>2, <1>3 DEF EndBefore

-----------------------------------------------------------------------------
(* A size computed from an expression depends on the layout's offsets and  *)
(* addresses only.                                                         *)
LEMMA SizesFollowOffsets ==
    ASSUME NEW L, NEW M, NEW id, NEW from,
           M.prog = L.prog, M.off = L.off, M.ssize = L.ssize, M.addr = L.addr
    PROVE  /\ ComputeSize(M, id, from) = ComputeSize(L, id, from)
           /\ SizeError(M, id, from) = SizeError(L, id, from)
<1>1. \A l, shift : SymbolAddr(M, l, shift) = SymbolAddr(L, l, shift)
  BY Zenon DEF SymbolAddr, LabelOffset
<1>2. \A e, shift : Resolve(M, e, shift) = Resolve(L, e, shift)
  BY <1>1, Zenon DEF Resolve
<1>3. \A e, shift : Value(M, e, shift) = Value(L, e, shift)
  BY <1>2, Zenon DEF Value
<1>4. \A e, s : SectionRelative(M, e, s) = SectionRelative(L, e, s)
  BY <1>2, Zenon DEF SectionRelative
<1>5. SizeError(M, id, from) = SizeError(L, id, from)
  BY <1>3, <1>4, Zenon DEF SizeError
<1>6. ComputeSize(M, id, from) = ComputeSize(L, id, from)
  BY <1>2, <1>4, <1>5 DEF ComputeSize
<1> QED
  BY <1>5, <1>6

(* Where a section goes depends on the sections' sizes only, and where the *)
(* source places none it is not before the ones already placed.            *)
LEMMA BaseFollowsSizes ==
    ASSUME NEW L, NEW M, M.prog = L.prog, M.ssize = L.ssize, NEW s, NEW from
    PROVE  Base(M, s, from) = Base(L, s, from)
BY DEF Base

(* A section the source does not place itself goes after the ones already  *)
(* placed.                                                                 *)
LEMMA BaseIsNotBefore ==
    ASSUME NEW L, IsLayout(L), NEW s \in DOMAIN L.prog.sections, NEW from \in Nat,
           ~L.prog.relocatable, L.prog.sections[s].origin = {}
    PROVE  Base(L, s, from) >= from
<1> DEFINE align == L.prog.sections[s].align
<1>1. align \in Nat \ {0}
  <2>1. L.prog.sections[s] \in Section
    BY DEF IsLayout, Program
  <2> QED
    BY <2>1 DEF Section
<1>2. (-from) % align \in 0 .. align - 1
  BY <1>1, RemainderIsNatural, SMTT(30)
<1>3. NextMultiple(from, align) >= from
  BY <1>1, <1>2 DEF NextMultiple
<1>4. Base(L, s, from) \in {from, NextMultiple(from, align)}
  BY DEF Base
<1> QED
  BY <1>3, <1>4

(* Where the positions are and where fragments end.                        *)
LEMMA PositionsFollowSizes ==
    ASSUME NEW L, NEW M, NEW l, M.prog = L.prog, M.off = L.off, M.ssize = L.ssize,
           M.chosen = L.chosen, M.cached = L.cached
    PROVE  LabelOffset(M, l) = LabelOffset(L, l) /\ EndBefore(M, l) = EndBefore(L, l)
BY DEF LabelOffset, EndBefore, FragEnd, FragSize

-----------------------------------------------------------------------------
(* The sections of an image are in an order of which every part that is    *)
(* not empty has a last.                                                   *)
LEMMA SectionsAreOrdered ==
    ASSUME NEW p \in Program, NEW ss \in SUBSET DOMAIN p.sections, ss # {}
    PROVE  \E t \in ss : \A u \in ss : u # t => Before(p, u, t)
<1> DEFINE n == Len(p.sections)
           Left(t) == IF Round(p, t) = 2 THEN n - t ELSE n + n - t
           lefts == {Left(t) : t \in ss}
<1>1. n \in Nat /\ DOMAIN p.sections = 1 .. n
  BY DEF Program
<1>2. \A t : Round(p, t) \in {1, 2}
  BY DEF Round
<1>3. lefts \in SUBSET Nat /\ lefts # {}
  BY <1>1
<1>4. LeastOr(lefts, 0) \in lefts /\ \A j \in lefts : LeastOr(lefts, 0) <= j
  BY <1>3, LeastOrIsLeast
<1>5. PICK t \in ss : \A u \in ss : Left(t) <= Left(u)
  BY <1>4
<1>6. ASSUME NEW u \in ss, u # t PROVE Before(p, u, t)
  <2>1. Left(t) <= Left(u) /\ t \in 1 .. n /\ u \in 1 .. n
    BY <1>1, <1>5
  <2>2. Round(p, t) \in {1, 2} /\ Round(p, u) \in {1, 2}
    BY <1>2
  <2>3. CASE Round(p, t) = 2 /\ Round(p, u) = 2
    BY <1>1, <1>6, <2>1, <2>3 DEF Before
  <2>4. CASE Round(p, t) = 2 /\ Round(p, u) = 1
    BY <2>4 DEF Before
  <2>5. CASE Round(p, t) = 1 /\ Round(p, u) = 2
    BY <1>1, <2>1, <2>5
  <2>6. CASE Round(p, t) = 1 /\ Round(p, u) = 1
    BY <1>1, <1>6, <2>1, <2>6 DEF Before
  <2> QED
    BY <2>2, <2>3, <2>4, <2>5, <2>6
<1> QED
  BY <1>6

(* No section is before another and after it.                              *)
LEMMA BeforeIsAsymmetric ==
    ASSUME NEW p \in Program, NEW s \in DOMAIN p.sections, NEW t \in DOMAIN p.sections,
           Before(p, s, t)
    PROVE  ~Before(p, t, s)
BY DEF Program, Round, Before

(* The end of the sections placed is that of one of them.                  *)
LEMMA LastIsPlaced ==
    ASSUME TypeOK, NEW ss \in SUBSET Sections, ss # {}
    PROVE  LastOf(ss) \in ss
BY SectionsAreOrdered DEF TypeOK, Sections, LastOf

(* A section placed after all of them is then the last.                    *)
LEMMA LastPlaced ==
    ASSUME TypeOK, NEW ss \in SUBSET Sections, NEW s \in Sections,
           \A t \in ss : Before(prog, t, s)
    PROVE  LastOf(ss \cup {s}) = s
<1> DEFINE all == ss \cup {s}
           IsLast(t) == \A u \in all : u # t => Before(prog, u, t)
<1>1. IsLast(s)
  OBVIOUS
<1>2. ASSUME NEW t \in all, IsLast(t) PROVE t = s
  <2>1. SUFFICES ASSUME t # s PROVE FALSE
    OBVIOUS
  <2>2. Before(prog, s, t) /\ Before(prog, t, s) /\ t \in Sections
    BY <1>2, <2>1
  <2> QED
    BY <2>2, BeforeIsAsymmetric DEF TypeOK, Sections
<1>3. LastOf(all) = CHOOSE t \in all : IsLast(t)
  BY DEF LastOf
<1> HIDE DEF IsLast
<1>4. LastOf(all) \in all /\ IsLast(LastOf(all))
  BY <1>1, <1>3
<1> QED
  BY <1>2, <1>4

(* Placing other sections does not move the end of those placed.           *)
LEMMA EndsStay ==
    ASSUME TypeOK, NEW ss \in SUBSET Sections, UNCHANGED prog,
           \A t \in ss : addr'[t] = addr[t] /\ ssize'[t] = ssize[t]
    PROVE  EndOf(ss)' = EndOf(ss)
<1>1. LastOf(ss)' = LastOf(ss)
  BY DEF LastOf
<1>2. CASE ss = {}
  BY <1>2 DEF EndOf
<1>3. CASE ss # {}
  BY <1>1, <1>3, LastIsPlaced DEF EndOf
<1> QED
  BY <1>2, <1>3

-----------------------------------------------------------------------------
(* The sections there are, and the one the walk has come to.               *)
LEMMA SectionsAreNumbered ==
    ASSUME TypeOK
    PROVE  /\ Len(prog.sections) \in Nat \ {0}
           /\ Sections = 1 .. Len(prog.sections)
           /\ \A t \in Sections : Round(prog, t) \in 1 .. Rounds
           /\ Rounds \in {1, 2}
           /\ prog.base \in Nat
BY DEF TypeOK, Program, Sections, Round, Rounds

(* A step of assign_addresses places the section it has come to in its     *)
(* round, after exactly those that are before it in the image.             *)
LEMMA PlacedAreEarlier ==
    ASSUME TypeOK, cur[1] \in Sections
    PROVE  /\ Placed(<<cur[1] + 1, cur[2]>>)
                = IF Round(prog, cur[1]) = cur[2] THEN Placed(cur) \cup {cur[1]} ELSE Placed(cur)
           /\ Round(prog, cur[1]) = cur[2] => /\ Earlier(cur[1]) = Placed(cur)
                                              /\ cur[1] \notin Placed(cur)
           /\ \A t \in Placed(cur) : Earlier(t) \subseteq Placed(cur)
<1>1. /\ \A t \in Sections : t \in Nat /\ Round(prog, t) \in Nat
      /\ cur[1] \in Nat /\ cur[2] \in Nat
  <2>1. \A t \in Sections : t \in Nat
    BY SectionsAreNumbered
  <2>2. \A t \in Sections : Round(prog, t) \in Nat
    BY DEF Round
  <2>3. cur \in Nat \X Nat
    BY DEF TypeOK
  <2> QED
    BY ONLY <2>1, <2>2, <2>3
<1>2. \A t \in Placed(cur) : t \in Sections /\ Earlier(t) \subseteq Placed(cur)
  BY <1>1 DEF Placed, Earlier, Before
<1>3. cur[1] \notin Placed(cur) \/ Round(prog, cur[1]) # cur[2]
  BY <1>1 DEF Placed
<1>4. Round(prog, cur[1]) = cur[2] => Earlier(cur[1]) = Placed(cur)
  BY DEF Placed, Earlier, Before
<1> QED
  BY <1>1, <1>2, <1>3, <1>4 DEF Placed

(* Placing a section leaves it where the sections before it put it, and    *)
(* those before it where they are.  A section placed again, by the walk    *)
(* that ends the program, does not move.                                   *)
LEMMA AddressWalkPlaces ==
    ASSUME TypeOK, TypeOK', AddressWalk, AssignAddress, Round(prog, cur[1]) = cur[2]
    PROVE  AddressWalk' /\ (InPlace(cur[1]) => addr' = addr)
<1>1. PICK s \in Sections : s = cur[1]
  BY DEF AssignAddress
<1>2. PICK ss \in SUBSET Sections : ss = Placed(cur)
  BY DEF Placed
<1>3. PICK start : start = Base(Here, s, at)
  OBVIOUS
<1>4. /\ addr' = [addr EXCEPT ![s] = start] /\ at' = start + ssize[s]
      /\ cur' = <<s + 1, cur[2]>>
      /\ UNCHANGED <<prog, chosen, cached, off, ssize, pc>>
      /\ IsPlacing
  BY <1>1, <1>3 DEF AssignAddress
<1>5. /\ cur[2] \in 1 .. Rounds
      /\ at = EndOf(ss)
      /\ \A t \in ss : InPlace(t) /\ (NoOrigins => addr[t] + ssize[t] <= at)
      /\ Apart(ss)
  BY <1>2, <1>4 DEF AddressWalk
<1>6. Earlier(s) = ss /\ s \notin ss /\ \A t \in ss : Earlier(t) \subseteq ss
  BY <1>1, <1>2, PlacedAreEarlier
<1>7. Placed(<<s + 1, cur[2]>>) = ss \cup {s}
  BY <1>1, <1>2, PlacedAreEarlier
<1>8. Placed(cur)' = ss \cup {s}
  BY <1>4, <1>7 DEF Placed, Sections
<1>9. /\ Sections' = Sections /\ Rounds' = Rounds
      /\ NoOrigins' = NoOrigins
      /\ \A t \in Sections : Earlier(t)' = Earlier(t)
      /\ IsPlacing'
  BY <1>4 DEF Sections, Rounds, NoOrigins, Earlier, IsPlacing
<1>10. start \in Nat /\ at \in Nat
  BY <1>3, HereIsLayout, BaseIsNatural DEF TypeOK, Sections, Here
<1>11. addr'[s] = start /\ \A t \in Sections \ {s} : addr'[t] = addr[t]
  BY <1>4 DEF TypeOK
<1>12. \A t \in Sections : addr[t] \in Nat /\ ssize[t] \in Nat
  BY DEF TypeOK
<1>13. ASSUME NEW ts \in SUBSET ss PROVE EndOf(ts)' = EndOf(ts)
  BY <1>4, <1>6, <1>11, EndsStay
<1>14. \A t, from : Base(Here', t, from) = Base(Here, t, from)
  BY <1>4, BaseFollowsSizes DEF Here
<1>15. ASSUME NEW t \in ss \cup {s} PROVE InPlace(t)'
  <2>1. PICK ts \in SUBSET ss : ts = Earlier(t)
    BY <1>6
  <2>2. Earlier(t)' = ts
    BY <1>9, <2>1
  <2>3. EndOf(Earlier(t))' = EndOf(ts)
    BY <1>13, <2>2 DEF EndOf, LastOf
  <2>4. addr'[t] = Base(Here, t, EndOf(ts))
    BY <1>3, <1>5, <1>6, <1>11, <2>1 DEF InPlace
  <2> QED
    BY <1>14, <2>3, <2>4 DEF InPlace
<1>16. at' = EndOf(ss \cup {s})'
  BY <1>4, <1>6, <1>11, LastPlaced DEF Earlier, LastOf, EndOf
<1>17. NoOrigins => start >= at
  BY <1>3, <1>10, HereIsLayout, BaseIsNotBefore DEF NoOrigins, Sections, Here
<1>18. ASSUME NEW t \in ss \cup {s}, NoOrigins PROVE addr'[t] + ssize'[t] <= at'
  BY <1>4, <1>5, <1>6, <1>10, <1>11, <1>12, <1>17, <1>18
<1>19. Apart(ss \cup {s})'
  <2>1. SUFFICES ASSUME NoOrigins, NEW t \in ss \cup {s}, NEW u \in ss \cup {s},
                        Before(prog, t, u)
                 PROVE  addr'[t] + ssize'[t] <= addr'[u]
    BY <1>4, <1>9 DEF Apart
  <2>2. t # s
    <3>1. SUFFICES ASSUME t = s PROVE FALSE
      OBVIOUS
    <3>2. ~Before(prog, s, s)
      BY BeforeIsAsymmetric DEF TypeOK, Sections
    <3>3. Before(prog, u, s)
      BY <1>6, <2>1, <3>1, <3>2 DEF Earlier
    <3> QED
      BY <2>1, <3>1, <3>3, BeforeIsAsymmetric DEF TypeOK, Sections
  <2>3. CASE u = s
    BY <1>4, <1>5, <1>10, <1>11, <1>12, <1>17, <2>1, <2>2, <2>3
  <2>4. CASE u # s
    BY <1>4, <1>5, <1>11, <2>1, <2>2, <2>4 DEF Apart
  <2> QED
    BY <2>3, <2>4
<1>20. cur'[1] \in 1 .. Len(prog'.sections) + 1 /\ cur'[2] \in 1 .. Rounds'
  BY <1>4, <1>5, <1>9, SectionsAreNumbered
<1>21. AddressWalk'
  BY <1>8, <1>9, <1>15, <1>16, <1>18, <1>19, <1>20 DEF EndOf, LastOf, Apart, AddressWalk
<1>22. ASSUME InPlace(s) PROVE addr' = addr
  BY <1>3, <1>4, <1>5, <1>6, <1>22 DEF InPlace, TypeOK
<1> QED
  BY <1>1, <1>21, <1>22

(* What is said of sections and fragments stays true while the layout and  *)
(* what the strategies remember stay as they are.                          *)
LEMMA AddressesStay ==
    ASSUME UNCHANGED <<prog, ssize, addr>>
    PROVE  /\ \A s \in Sections : InPlace(s)' = InPlace(s)
           /\ \A ss : Apart(ss)' = Apart(ss)
           /\ Addressed' = Addressed
           /\ \A ss : EndOf(ss)' = EndOf(ss)
<1>1. \A ss : EndOf(ss)' = EndOf(ss)
  BY DEF EndOf, LastOf
<1>2. \A s : Earlier(s)' = Earlier(s)
  BY DEF Earlier, Sections
<1>3. \A s, from : Base(Here', s, from) = Base(Here, s, from)
  BY BaseFollowsSizes DEF Here
<1>4. ASSUME NEW s \in Sections PROVE InPlace(s)' = InPlace(s)
  <2>1. PICK ss : ss = Earlier(s)
    OBVIOUS
  <2>2. Earlier(s)' = ss
    BY <1>2, <2>1
  <2>3. EndOf(Earlier(s))' = EndOf(ss)'
    BY <2>2 DEF EndOf, LastOf
  <2> QED
    BY <1>1, <1>3, <2>1, <2>3 DEF InPlace
<1>5. \A ss : Apart(ss)' = Apart(ss)
  BY DEF Apart, NoOrigins, Sections
<1>6. Sections' = Sections
  BY DEF Sections
<1>7. Apart(Sections)' = Apart(Sections)
  BY <1>6 DEF Apart, NoOrigins
<1>8. Addressed' = Addressed
  BY <1>4, <1>6, <1>7 DEF Addressed
<1> QED
  BY <1>1, <1>4, <1>5, <1>8

(* The layout is all that is looked at.                                    *)
LEMMA HereStays ==
    ASSUME UNCHANGED <<prog, layout>>
    PROVE  Here' = Here
BY DEF Here, layout

(* What a pass has established of a fragment stays true too.               *)
LEMMA FragmentsStay ==
    ASSUME UNCHANGED <<prog, layout, memory>>, errors \subseteq errors'
    PROVE  /\ \A id : SizedHere(id) => SizedHere(id)'
           /\ \A id : ChosenHere(id)' = ChosenHere(id)
<1>1. Here' = Here
  BY HereStays
<1>2. \A id : SizedHere(id) => SizedHere(id)'
  BY <1>1 DEF SizedHere, layout
<1>3. \A id : Stuck(id)' = Stuck(id)
  BY DEF Stuck, memory
<1>4. Mode' = Mode
  BY DEF Mode
<1>5. \A id : ChosenHere(id)' = ChosenHere(id)
  BY <1>1, <1>3, <1>4 DEF ChosenHere, layout, memory
<1> QED
  BY <1>2, <1>5

(* A settled layout stays settled.                                         *)
LEMMA SettledStays ==
    ASSUME Settled, UNCHANGED <<prog, layout, memory>>, errors \subseteq errors'
    PROVE  Settled'
<1>1. Here' = Here
  BY HereStays
<1>2. Addressed'
  BY AddressesStay DEF Settled, layout
<1>3. \A id \in Ids' : SizedHere(id)' /\ ChosenHere(id)'
  BY FragmentsStay DEF Settled, Ids
<1>4. \A l \in Positions(prog') : Meets(Here', l)
  BY <1>1 DEF Settled
<1> QED
  BY <1>2, <1>3, <1>4 DEF Settled

(* assign_addresses, before a pass and at the end.                         *)
LEMMA AddressSteps ==
    ASSUME SettlingInv, TypeOK', AssignAddress \/ NextRound \/ EndOfAddresses
    PROVE  SettlingInv'
<1> USE DEF SettlingInv
<1>1. IsPlacing /\ pc \in {"addresses", "final"}
  BY DEF AssignAddress, NextRound, EndOfAddresses, IsPlacing
<1>2. \A l \in Positions(prog') : Trails(Here, l) => Trails(Here', l)
  BY PositionsFollowSizes DEF AssignAddress, NextRound, EndOfAddresses, layout, Here, Trails
<1>3. CASE AssignAddress
  <2>1. UNCHANGED <<prog, chosen, cached, off, ssize, pc, memory, errors>> /\ cur[1] \in Sections
    BY <1>3 DEF AssignAddress
  <2>2. AddressWalk' /\ (InPlace(cur[1]) => addr' = addr)
    <3>1. CASE Round(prog, cur[1]) = cur[2]
      BY <1>3, <3>1, AddressWalkPlaces
    <3>2. CASE Round(prog, cur[1]) # cur[2]
      <4>1. UNCHANGED <<addr, at>> /\ cur' = <<cur[1] + 1, cur[2]>>
        BY <1>3, <3>2 DEF AssignAddress
      <4>2. PICK ss \in SUBSET Sections : ss = Placed(cur)
        BY DEF Placed
      <4>3. Placed(cur)' = ss
        BY <2>1, <3>2, <4>1, <4>2, PlacedAreEarlier DEF Placed, Sections
      <4>4. Sections' = Sections /\ Rounds' = Rounds /\ NoOrigins' = NoOrigins
        BY <2>1 DEF Sections, Rounds, NoOrigins
      <4>5. /\ cur[2] \in 1 .. Rounds
            /\ at = EndOf(ss)
            /\ \A t \in ss : InPlace(t) /\ (NoOrigins => addr[t] + ssize[t] <= at)
            /\ Apart(ss)
        BY <1>1, <4>2 DEF AddressWalk
      <4>6. at' = EndOf(Placed(cur))'
        <5>1. EndOf(ss)' = EndOf(ss)
          BY <2>1, <4>1, AddressesStay
        <5>2. EndOf(Placed(cur))' = EndOf(ss)'
          BY <4>3 DEF EndOf, LastOf
        <5> QED
          BY <4>1, <4>5, <5>1, <5>2
      <4>7. Apart(Placed(cur))'
        BY <2>1, <4>1, <4>3, <4>4, <4>5 DEF Apart
      <4>8. \A t \in Placed(cur)' :
               InPlace(t)' /\ (NoOrigins' => addr'[t] + ssize'[t] <= at')
        BY <2>1, <4>1, <4>3, <4>4, <4>5, AddressesStay
      <4>9. cur'[1] \in 1 .. Len(prog'.sections) + 1 /\ cur'[2] \in 1 .. Rounds'
        BY <2>1, <4>1, <4>4, <4>5, SectionsAreNumbered
      <4> QED
        BY <4>1, <4>6, <4>7, <4>8, <4>9 DEF AddressWalk
    <3> QED
      BY <3>1, <3>2
  <2>3. BeforeWalk'
    BY <1>2, <2>1 DEF BeforeWalk
  <2>4. AfterPasses'
    <3>1. SUFFICES ASSUME pc = "final" PROVE Settled'
      BY <1>1, <2>1 DEF AfterPasses
    <3>2. Settled
      BY <3>1 DEF AfterPasses
    <3>3. InPlace(cur[1])
      BY <2>1, <3>2 DEF Settled, Addressed
    <3>4. UNCHANGED <<prog, layout, memory, errors>>
      BY <2>1, <2>2, <3>3 DEF layout
    <3> QED
      BY <3>2, <3>4, SettledStays
  <2> QED
    BY <1>1, <2>1, <2>2, <2>3, <2>4 DEF OffsetWalk, RelaxWalk, EndOfPass
<1>4. CASE NextRound
  <2>1. /\ UNCHANGED <<prog, layout, pc, at, memory, errors>>
        /\ cur[1] \notin Sections /\ cur[2] < Rounds /\ cur' = <<1, cur[2] + 1>>
    BY <1>4 DEF NextRound
  <2>2. PICK ss \in SUBSET Sections : ss = Placed(cur)
    BY DEF Placed
  <2>3. Placed(cur)' = ss
    <3>1. cur[1] = Len(prog.sections) + 1 /\ cur[2] \in Nat
      BY <1>1, <2>1, SectionsAreNumbered DEF AddressWalk, TypeOK
    <3>2. \A t \in Sections : t \in Nat /\ Round(prog, t) \in Nat /\ t < cur[1] /\ ~(t < 1)
      BY <3>1, SectionsAreNumbered
    <3>3. \A t \in Sections : Round(prog, t) < cur[2] + 1
                                 <=> Round(prog, t) < cur[2] \/ Round(prog, t) = cur[2]
      BY <3>1, <3>2
    <3> QED
      BY <2>1, <2>2, <3>2, <3>3 DEF Placed, Sections
  <2>4. Sections' = Sections /\ Rounds' = Rounds /\ NoOrigins' = NoOrigins
    BY <2>1 DEF Sections, Rounds, NoOrigins
  <2>5. /\ cur[2] \in 1 .. Rounds
        /\ at = EndOf(ss)
        /\ \A t \in ss : InPlace(t) /\ (NoOrigins => addr[t] + ssize[t] <= at)
        /\ Apart(ss)
    BY <1>1, <2>2 DEF AddressWalk
  <2>6. UNCHANGED <<ssize, addr>>
    BY <2>1 DEF layout
  <2>7. at' = EndOf(Placed(cur))'
    <3>1. EndOf(ss)' = EndOf(ss)
      BY <2>1, <2>6, AddressesStay
    <3>2. EndOf(Placed(cur))' = EndOf(ss)'
      BY <2>3 DEF EndOf, LastOf
    <3> QED
      BY <2>1, <2>5, <3>1, <3>2
  <2>8. Apart(Placed(cur))'
    BY <2>1, <2>3, <2>4, <2>5, <2>6 DEF Apart
  <2>9. \A t \in Placed(cur)' : InPlace(t)' /\ (NoOrigins' => addr'[t] + ssize'[t] <= at')
    BY <2>1, <2>3, <2>4, <2>5, <2>6, AddressesStay
  <2>10. cur'[1] \in 1 .. Len(prog'.sections) + 1 /\ cur'[2] \in 1 .. Rounds'
    BY <2>1, <2>4, <2>5, SectionsAreNumbered
  <2>11. AddressWalk'
    BY <2>7, <2>8, <2>9, <2>10 DEF AddressWalk
  <2>12. BeforeWalk'
    BY <1>2, <2>1 DEF BeforeWalk
  <2>13. AfterPasses'
    BY <1>1, <2>1, SettledStays DEF AfterPasses
  <2> QED
    BY <1>1, <2>1, <2>11, <2>12, <2>13 DEF OffsetWalk, RelaxWalk, EndOfPass
<1>5. CASE EndOfAddresses
  <2>1. /\ UNCHANGED <<prog, layout, memory, errors>>
        /\ cur[1] \notin Sections /\ cur[2] = Rounds /\ cur' = <<1, 1>> /\ at' = 0
        /\ pc' = IF pc = "final" THEN "report" ELSE "offsets"
    BY <1>5 DEF EndOfAddresses
  <2>2. CASE pc = "final"
    BY <2>1, <2>2, SettledStays DEF AfterPasses, AddressWalk, IsPlacing, BeforeWalk,
       OffsetWalk, RelaxWalk, EndOfPass
  <2>3. CASE pc = "addresses"
    <3>1. Placed(cur) = Sections
      BY <1>1, <2>1, SectionsAreNumbered DEF AddressWalk, TypeOK, Placed
    <3>2. Addressed
      BY <1>1, <3>1 DEF AddressWalk, Addressed
    <3>3. Addressed' /\ Here' = Here
      BY <2>1, <3>2, AddressesStay, HereStays DEF layout
    <3>4. <<1, 1>> \in Positions(prog) /\ 1 \in Sections
      <4>1. 1 \in Sections
        BY SectionsAreNumbered
      <4> QED
        BY <4>1, PositionsOfSection DEF TypeOK, Sections
    <3>5. EndBefore(Here, <<1, 1>>) = 0
      BY DEF EndBefore
    <3>6. \A l \in Positions(prog) : Trails(Here, l) /\ ~Behind(l, <<1, 1>>)
      <4>1. SUFFICES ASSUME NEW l \in Positions(prog) PROVE ~Behind(l, <<1, 1>>)
        BY <2>3 DEF BeforeWalk
      <4>2. l[1] \in Sections /\ l[2] \in 1 .. NumFrags(prog, l[1]) + 1
            /\ NumFrags(prog, l[1]) \in Nat
        BY PositionsOfProgram DEF TypeOK, Sections
      <4>3. ~(l[1] < 1) /\ ~(l[2] < 1)
        BY <4>2, SectionsAreNumbered
      <4> QED
        BY <4>3 DEF Behind
    <3>7. Ids \subseteq Positions(prog)
      BY PositionsOfFragment DEF TypeOK, Ids
    <3>8. OffsetWalk'
      BY <2>1, <3>3, <3>4, <3>5, <3>6, <3>7 DEF Trails, OffsetWalk, Ids
    <3> QED
      BY <2>1, <2>3, <3>8 DEF AddressWalk, IsPlacing, BeforeWalk, RelaxWalk, EndOfPass, AfterPasses
  <2> QED
    BY <1>1, <2>2, <2>3
<1> QED
  BY <1>3, <1>4, <1>5

-----------------------------------------------------------------------------
(* A walk moves one position at a time.                                    *)

(* Placing a fragment moves its start, and the end before the next one.    *)
LEMMA PlacedFragment ==
    ASSUME NEW L, NEW M, IsLayout(L), IsLayout(M), M.prog = L.prog,
           NEW id \in FragIds(L.prog), NEW a \in Nat,
           M.off = [L.off EXCEPT ![id] = a], M.ssize = L.ssize,
           \A j \in FragIds(L.prog) \ {id} : FragSize(M, j) = FragSize(L, j)
    PROVE  /\ LabelOffset(M, id) = a
           /\ EndBefore(L, <<id[1], id[2] + 1>>) = L.off[id] + FragSize(L, id)
           /\ EndBefore(M, <<id[1], id[2] + 1>>) = a + FragSize(M, id)
           /\ \A l \in Positions(L.prog) :
                 /\ l # id => LabelOffset(M, l) = LabelOffset(L, l)
                 /\ l # <<id[1], id[2] + 1>> => EndBefore(M, l) = EndBefore(L, l)
<1>1. /\ L.prog \in Program /\ id \in Nat \X Nat /\ id[2] \in Nat \ {0}
      /\ id = <<id[1], id[2]>>
      /\ L.off \in [FragIds(L.prog) -> Nat]
  <2>1. L.prog \in Program /\ L.off \in [FragIds(L.prog) -> Nat]
    BY DEF IsLayout
  <2>2. id \in Positions(L.prog) /\ id = <<id[1], id[2]>>
    BY <2>1, PositionsOfFragment
  <2>3. id \in Nat \X Nat /\ NumFrags(L.prog, id[1]) \in Nat /\ id[2] \in 1 .. NumFrags(L.prog, id[1]) + 1
    BY <2>1, <2>2, PositionsOfProgram
  <2> QED
    BY <2>1, <2>2, <2>3
<1>2. LabelOffset(M, id) = a
  BY <1>1 DEF LabelOffset
<1>3. /\ EndBefore(L, <<id[1], id[2] + 1>>) = L.off[id] + FragSize(L, id)
      /\ EndBefore(M, <<id[1], id[2] + 1>>) = a + FragSize(M, id)
  BY <1>1 DEF EndBefore, FragEnd
<1>4. ASSUME NEW l \in Positions(L.prog), l # id
      PROVE  LabelOffset(M, l) = LabelOffset(L, l)
  BY <1>1, <1>4 DEF LabelOffset
<1>5. ASSUME NEW l \in Positions(L.prog), l # <<id[1], id[2] + 1>>
      PROVE  EndBefore(M, l) = EndBefore(L, l)
  <2>1. l \in Nat \X Nat /\ (l[2] # 1 => <<l[1], l[2] - 1>> \in FragIds(L.prog))
    BY <1>1, PositionsOfProgram
  <2>2. CASE l[2] = 1
    BY <2>2 DEF EndBefore
  <2>3. CASE l[2] # 1
    <3>1. PICK j \in FragIds(L.prog) : j = <<l[1], l[2] - 1>>
      BY <2>1, <2>3
    <3>2. j # id
      BY <1>1, <1>5, <2>1, <3>1
    <3>3. M.off[j] = L.off[j] /\ FragSize(M, j) = FragSize(L, j)
      BY <1>1, <3>2
    <3> QED
      BY <2>3, <3>1, <3>3 DEF EndBefore, FragEnd
  <2> QED
    BY <2>2, <2>3
<1> QED
  BY <1>2, <1>3, <1>4, <1>5

(* Closing a section moves its end.                                        *)
LEMMA ClosedSection ==
    ASSUME NEW L, NEW M, IsLayout(L), M.prog = L.prog,
           NEW s \in DOMAIN L.prog.sections, NEW a \in Nat,
           M.ssize = [L.ssize EXCEPT ![s] = a], M.off = L.off,
           M.chosen = L.chosen, M.cached = L.cached
    PROVE  /\ LabelOffset(M, <<s, NumFrags(L.prog, s) + 1>>) = a
           /\ LabelOffset(L, <<s, NumFrags(L.prog, s) + 1>>) = L.ssize[s]
           /\ \A l \in Positions(L.prog) :
                 /\ l # <<s, NumFrags(L.prog, s) + 1>> => LabelOffset(M, l) = LabelOffset(L, l)
                 /\ EndBefore(M, l) = EndBefore(L, l)
<1>1. L.prog \in Program /\ L.ssize \in [DOMAIN L.prog.sections -> Nat]
  BY DEF IsLayout
<1>2. PICK last \in Positions(L.prog) : last = <<s, NumFrags(L.prog, s) + 1>>
  BY <1>1, PositionsOfSection
<1>3. last \notin FragIds(L.prog) /\ last[1] = s
  BY <1>1, <1>2, PositionsOfProgram
<1>4. LabelOffset(M, last) = a /\ LabelOffset(L, last) = L.ssize[s]
  BY <1>1, <1>3 DEF LabelOffset
<1>5. ASSUME NEW l \in Positions(L.prog), l # last
      PROVE  LabelOffset(M, l) = LabelOffset(L, l)
  <2>1. /\ l \in Nat \X Nat /\ l[1] \in DOMAIN L.prog.sections
        /\ l \notin FragIds(L.prog) => l[2] = NumFrags(L.prog, l[1]) + 1
    BY <1>1, PositionsOfProgram
  <2>2. CASE l \in FragIds(L.prog)
    BY <2>2 DEF LabelOffset
  <2>3. CASE l \notin FragIds(L.prog)
    BY <1>1, <1>2, <1>5, <2>1, <2>3 DEF LabelOffset
  <2> QED
    BY <2>2, <2>3
<1>6. ASSUME NEW l \in Positions(L.prog) PROVE EndBefore(M, l) = EndBefore(L, l)
  BY DEF EndBefore, FragEnd, FragSize
<1> QED
  BY <1>2, <1>4, <1>5, <1>6

(* What is behind the cursor after a step is what was, and where it was.   *)
LEMMA BehindNextFragment ==
    ASSUME NEW l \in Nat \X Nat, NEW c \in Nat \X Nat
    PROVE  /\ Behind(l, <<c[1], c[2] + 1>>) <=> Behind(l, c) \/ l = c
           /\ ~Behind(<<c[1], c[2] + 1>>, c) /\ <<c[1], c[2] + 1>> # c
           /\ ~Behind(c, c)
BY DEF Behind

(* After the end of a section everything before it and in it is behind the *)
(* cursor.                                                                 *)
LEMMA BehindNextSection ==
    ASSUME NEW p \in Program, NEW l \in Positions(p), NEW s \in DOMAIN p.sections
    PROVE  LET last == <<s, NumFrags(p, s) + 1>>
           IN  /\ Behind(l, <<s + 1, 1>>) <=> Behind(l, last) \/ l = last
               /\ s + 1 \notin DOMAIN p.sections => Behind(l, last) \/ l = last
               /\ s + 1 \in DOMAIN p.sections =>
                     ~Behind(<<s + 1, 1>>, last) /\ <<s + 1, 1>> # last
               /\ ~Behind(l, <<1, 1>>)
<1>1. /\ l \in Nat \X Nat
      /\ l[1] \in DOMAIN p.sections
      /\ NumFrags(p, l[1]) \in Nat
      /\ l[2] \in 1 .. NumFrags(p, l[1]) + 1
  BY PositionsOfProgram
<1>2. p.sections \in Seq(Section)
  BY DEF Program
<1>3. /\ Len(p.sections) \in Nat /\ DOMAIN p.sections = 1 .. Len(p.sections)
      /\ NumFrags(p, s) \in Nat
  <2>1. NumFrags(p, s) \in Nat
    BY PositionsOfSection
  <2> QED
    BY <1>2, <2>1
<1>4. l = <<l[1], l[2]>>
  BY <1>1
<1>5. l[1] = s => l[2] <= NumFrags(p, s) + 1
  BY <1>1
<1> QED
  BY <1>1, <1>3, <1>4, <1>5 DEF Behind

(* assign_offsets places the fragment it has come to.                      *)
LEMMA OffsetStep ==
    ASSUME SettlingInv, TypeOK', PlaceFragment
    PROVE  SettlingInv'
<1>1. /\ cur \in Ids /\ prog \in Program /\ at \in Nat /\ cur \in Nat \X Nat
      /\ off \in [Ids -> Nat] /\ cached \in [Ids -> Nat]
      /\ IsLayout(Here) /\ Here.prog = prog
  BY HereIsLayout DEF SettlingInv, TypeOK, PlaceFragment, AtFragment, Here
<1>2. PICK L : L = [Here EXCEPT !.off = off']
  OBVIOUS
<1>3. PICK size : size = IF FragAt(prog, cur).kind = "bytes" THEN FragSize(Here, cur)
                         ELSE ComputeSize(L, cur, at)
  OBVIOUS
<1>4. /\ pc = "offsets"
      /\ off' = [off EXCEPT ![cur] = at]
      /\ cached' = [cached EXCEPT ![cur] = size]
      /\ changed' = (changed \/ FragSize(Here, cur) # size)
      /\ errors' = errors \cup Report(L, cur)
      /\ cur' = <<cur[1], cur[2] + 1>> /\ at' = at + size
      /\ UNCHANGED <<prog, chosen, ssize, addr, pc, pass, memory>>
  BY <1>2, <1>3 DEF PlaceFragment, Advance
<1>5. /\ cur \in Positions(prog)
      /\ at = EndBefore(Here, cur)
      /\ \A l \in Positions(prog) :
              l # cur => IF Behind(l, cur) THEN Meets(Here, l) ELSE Trails(Here, l)
      /\ ~changed => /\ Addressed
                     /\ LabelOffset(Here, cur) <= at
                     /\ LabelOffset(Here, cur) = at
                             => \A id \in Ids : Behind(id, cur) => SizedHere(id)
  BY <1>4 DEF SettlingInv, OffsetWalk
<1>6. /\ Here'.prog = prog /\ Here'.off = off' /\ Here'.ssize = ssize /\ Here'.addr = addr
      /\ Here'.chosen = chosen /\ Here'.cached = cached'
      /\ Here.off = off /\ Here.ssize = ssize /\ Here.addr = addr
      /\ Here.chosen = chosen /\ Here.cached = cached
      /\ L.prog = prog /\ L.off = off' /\ L.ssize = ssize /\ L.addr = addr
  BY <1>2, <1>4 DEF Here
<1>7. IsLayout(Here')
  <2>2. TypeOK' => IsLayout(Here)'
    BY HereIsLayout, PTL
  <2> QED
    BY <2>2 DEF IsLayout
<1>8. FragSize(Here', cur) = size
  <2>1. cached'[cur] = size
    BY <1>1, <1>4
  <2>2. CASE FragAt(prog, cur).kind = "bytes"
    BY <1>1, <1>3, <1>6, <2>2 DEF FragSize
  <2>3. CASE FragAt(prog, cur).kind # "bytes"
    BY <1>6, <2>1, <2>3 DEF FragSize
  <2> QED
    BY <2>2, <2>3
<1>9. \A j \in FragIds(prog) \ {cur} : FragSize(Here', j) = FragSize(Here, j)
  BY <1>1, <1>4, <1>6 DEF FragSize
<1>10. /\ LabelOffset(Here', cur) = at
       /\ EndBefore(Here, cur') = off[cur] + FragSize(Here, cur)
       /\ EndBefore(Here', cur') = at + size
       /\ \A l \in Positions(prog) :
             /\ l # cur => LabelOffset(Here', l) = LabelOffset(Here, l)
             /\ l # cur' => EndBefore(Here', l) = EndBefore(Here, l)
  <2>1. Here'.off = [Here.off EXCEPT ![cur] = at] /\ Here'.ssize = Here.ssize
        /\ Here'.prog = Here.prog /\ cur \in FragIds(Here.prog)
    BY <1>1, <1>4, <1>6 DEF Ids
  <2>2. \A j \in FragIds(Here.prog) \ {cur} : FragSize(Here', j) = FragSize(Here, j)
    BY <1>1, <1>9
  <2>3. Here.prog = prog /\ IsLayout(Here) /\ IsLayout(Here') /\ at \in Nat
    BY <1>1, <1>7
  <2>4. /\ LabelOffset(Here', cur) = at
        /\ EndBefore(Here, <<cur[1], cur[2] + 1>>) = Here.off[cur] + FragSize(Here, cur)
        /\ EndBefore(Here', <<cur[1], cur[2] + 1>>) = at + FragSize(Here', cur)
        /\ \A l \in Positions(Here.prog) :
              /\ l # cur => LabelOffset(Here', l) = LabelOffset(Here, l)
              /\ l # <<cur[1], cur[2] + 1>> => EndBefore(Here', l) = EndBefore(Here, l)
    BY <2>1, <2>2, <2>3, PlacedFragment
  <2> QED
    BY <1>4, <1>6, <1>8, <2>3, <2>4
<1>11. /\ cur' \in Positions(prog) /\ cur' # cur /\ ~Behind(cur', cur) /\ ~Behind(cur, cur)
       /\ \A l \in Positions(prog) : Behind(l, cur') <=> Behind(l, cur) \/ l = cur
  BY <1>1, <1>4, PositionsOfFragment, PositionsOfProgram, BehindNextFragment DEF Ids
<1>12. ASSUME NEW l \in Positions(prog), l # cur'
       PROVE  IF Behind(l, cur') THEN Meets(Here', l) ELSE Trails(Here', l)
  <2>1. CASE l = cur
    BY <1>5, <1>10, <1>11, <1>12, <2>1 DEF Meets
  <2>2. CASE l # cur
    BY <1>5, <1>10, <1>11, <1>12, <2>2 DEF Meets, Trails
  <2> QED
    BY <2>1, <2>2
<1>13. ASSUME ~changed'
       PROVE  /\ Addressed'
              /\ LabelOffset(Here', cur') <= at'
              /\ LabelOffset(Here', cur') = at'
                    => \A id \in Ids : Behind(id, cur') => SizedHere(id)'
  <2>1. ~changed /\ FragSize(Here, cur) = size
    BY <1>4, <1>13
  <2>2. Addressed'
    BY <1>4, <1>5, <2>1, AddressesStay
  <2>3. off[cur] <= at /\ off[cur] \in Nat /\ size \in Nat
    BY <1>1, <1>5, <1>6, <1>7, <1>8, <2>1, FragSizeIsNatural DEF LabelOffset, Ids
  <2>4. LabelOffset(Here', cur') <= off[cur] + size
    BY <1>5, <1>10, <1>11, <2>1 DEF Trails
  <2>5. LabelOffset(Here', cur') \in Nat
    BY <1>6, <1>7, <1>11, PositionsAreNatural
  <2>6. LabelOffset(Here', cur') <= at'
    BY <1>1, <1>4, <2>3, <2>4, <2>5
  <2>7. ASSUME LabelOffset(Here', cur') = at', NEW id \in Ids, Behind(id, cur')
        PROVE  SizedHere(id)'
    <3>1. off[cur] = at
      BY <1>1, <1>4, <2>3, <2>4, <2>5, <2>7
    <3>2. off' = off
      BY <1>1, <1>4, <3>1
    <3>3. \A j, from : /\ ComputeSize(Here', j, from) = ComputeSize(Here, j, from)
                       /\ ComputeSize(L, j, from) = ComputeSize(Here, j, from)
                       /\ SizeError(Here', j, from) = SizeError(Here, j, from)
                       /\ SizeError(L, j, from) = SizeError(Here, j, from)
      BY <1>1, <1>6, <3>2, SizesFollowOffsets
    <3>4. id \in Positions(prog)
      BY <1>1, PositionsOfFragment DEF Ids
    <3>5. CASE id = cur
      BY <1>1, <1>3, <1>4, <3>1, <3>2, <3>3, <3>5 DEF Report, SizedHere
    <3>6. CASE id # cur
      <4>1. SizedHere(id)
        <5>1. LabelOffset(Here, cur) = at
          BY <1>1, <1>6, <3>1 DEF LabelOffset, Ids
        <5> QED
          BY <1>5, <1>11, <2>1, <2>7, <3>4, <3>6, <5>1
      <4>2. cached'[id] = cached[id] /\ off'[id] = off[id]
        BY <1>1, <1>4, <3>2, <3>6
      <4>3. errors \subseteq errors'
        BY <1>4
      <4> QED
        BY <1>4, <3>3, <4>1, <4>2, <4>3 DEF SizedHere
    <3> QED
      BY <3>5, <3>6
  <2> QED
    BY <2>2, <2>6, <2>7
<1>14. Ids' = Ids
  BY <1>4 DEF Ids
<1>15. OffsetWalk'
  BY <1>4, <1>10, <1>11, <1>12, <1>13, <1>14 DEF OffsetWalk
<1> QED
  BY <1>4, <1>15 DEF SettlingInv, AddressWalk, IsPlacing, BeforeWalk, RelaxWalk, EndOfPass,
                     AfterPasses

(* Closing a section puts its end where its last fragment ends, and is     *)
(* noticed if that moves it.                                               *)
LEMMA ClosingSection ==
    ASSUME TypeOK, cur \in Positions(prog), ~AtFragment, ResizeSection,
           at = EndBefore(Here, cur), UNCHANGED <<prog, chosen, cached, off, addr>>
    PROVE  /\ LabelOffset(Here', cur) = EndBefore(Here', cur)
           /\ \A l \in Positions(prog) :
                 /\ l # cur => LabelOffset(Here', l) = LabelOffset(Here, l)
                 /\ EndBefore(Here', l) = EndBefore(Here, l)
           /\ ~changed' => ~changed /\ LabelOffset(Here, cur) = at /\ UNCHANGED layout
<1>1. /\ prog \in Program /\ at \in Nat /\ IsLayout(Here) /\ Here.prog = prog
      /\ ssize \in [Sections -> Nat]
  BY HereIsLayout DEF TypeOK, Here
<1>2. /\ cur \in Nat \X Nat /\ cur[1] \in DOMAIN prog.sections
      /\ cur[2] = NumFrags(prog, cur[1]) + 1
  BY <1>1, PositionsOfProgram DEF AtFragment, Ids
<1>3. cur = <<cur[1], NumFrags(prog, cur[1]) + 1>>
  BY <1>2
<1>4. /\ Here'.prog = Here.prog /\ Here'.ssize = [Here.ssize EXCEPT ![cur[1]] = at]
      /\ Here'.off = Here.off /\ Here'.chosen = Here.chosen /\ Here'.cached = Here.cached
      /\ Here.ssize = ssize /\ cur[1] \in DOMAIN Here.prog.sections
  BY <1>1, <1>2 DEF Here, ResizeSection
<1>5. /\ LabelOffset(Here', <<cur[1], NumFrags(prog, cur[1]) + 1>>) = at
      /\ LabelOffset(Here, <<cur[1], NumFrags(prog, cur[1]) + 1>>) = ssize[cur[1]]
      /\ \A l \in Positions(prog) :
           /\ l # <<cur[1], NumFrags(prog, cur[1]) + 1>>
                 => LabelOffset(Here', l) = LabelOffset(Here, l)
           /\ EndBefore(Here', l) = EndBefore(Here, l)
  <2> DEFINE s == cur[1]
             L == Here
             M == Here'
  <2>1. /\ IsLayout(L) /\ M.prog = L.prog /\ s \in DOMAIN L.prog.sections /\ at \in Nat
        /\ M.ssize = [L.ssize EXCEPT ![s] = at] /\ M.off = L.off
        /\ M.chosen = L.chosen /\ M.cached = L.cached
    BY <1>1, <1>4
  <2> HIDE DEF s, L, M
  <2>2. /\ LabelOffset(M, <<s, NumFrags(L.prog, s) + 1>>) = at
        /\ LabelOffset(L, <<s, NumFrags(L.prog, s) + 1>>) = L.ssize[s]
        /\ \A l \in Positions(L.prog) :
             /\ l # <<s, NumFrags(L.prog, s) + 1>> => LabelOffset(M, l) = LabelOffset(L, l)
             /\ EndBefore(M, l) = EndBefore(L, l)
    BY <2>1, ClosedSection
  <2> QED
    BY <1>1, <1>4, <2>2 DEF s, L, M
<1>6. ASSUME ~changed'
      PROVE  ~changed /\ LabelOffset(Here, cur) = at /\ UNCHANGED layout
  BY <1>1, <1>3, <1>5, <1>6 DEF ResizeSection, layout
<1> QED
  BY <1>3, <1>5, <1>6

(* The walk goes on to the next section, or every position is behind it.   *)
LEMMA NextSection ==
    ASSUME TypeOK, cur \in Positions(prog), NEW next, CloseSection(next)
    PROVE  /\ at' = 0
           /\ \/ /\ pc' = pc /\ cur' \in Positions(prog) /\ cur' # cur
                 /\ \A L : EndBefore(L, cur') = 0
                 /\ ~Behind(cur', cur) /\ ~Behind(cur, cur)
                 /\ \A l \in Positions(prog) : Behind(l, cur') <=> Behind(l, cur) \/ l = cur
              \/ /\ pc' = next /\ cur' = <<1, 1>> /\ cur' \in Positions(prog)
                 /\ \A L : EndBefore(L, cur') = 0
                 /\ \A l \in Positions(prog) : /\ Behind(l, cur) \/ l = cur
                                               /\ ~Behind(l, cur')
<1>1. prog \in Program
  BY DEF TypeOK
<1>2. /\ cur \in Nat \X Nat /\ cur[1] \in DOMAIN prog.sections
      /\ cur[2] = NumFrags(prog, cur[1]) + 1
  BY <1>1, PositionsOfProgram DEF CloseSection, AtFragment, Ids
<1>3. cur = <<cur[1], NumFrags(prog, cur[1]) + 1>>
  BY <1>2
<1>4. \A L, s : EndBefore(L, <<s, 1>>) = 0
  BY DEF EndBefore
<1>5. ~Behind(cur, cur)
  BY <1>2 DEF Behind
<1>6. CASE cur[1] + 1 \in Sections
  <2>1. cur' = <<cur[1] + 1, 1>> /\ pc' = pc /\ at' = 0
    BY <1>6 DEF CloseSection
  <2>2. <<cur[1] + 1, 1>> \in Positions(prog)
    BY <1>1, <1>6, PositionsOfSection DEF Sections
  <2>3. \A l \in Positions(prog) : Behind(l, <<cur[1] + 1, 1>>) <=> Behind(l, cur) \/ l = cur
    BY <1>1, <1>2, <1>3, BehindNextSection
  <2>4. ~Behind(<<cur[1] + 1, 1>>, cur) /\ <<cur[1] + 1, 1>> # cur
    BY <1>1, <1>2, <1>3, <1>6, BehindNextSection DEF Sections
  <2> QED
    BY <1>4, <1>5, <2>1, <2>2, <2>3, <2>4
<1>7. CASE cur[1] + 1 \notin Sections
  <2>1. cur' = <<1, 1>> /\ pc' = next /\ at' = 0
    BY <1>7 DEF CloseSection
  <2>2. <<1, 1>> \in Positions(prog)
    <3>1. 1 \in Sections
      BY SectionsAreNumbered
    <3> QED
      BY <1>1, <3>1, PositionsOfSection DEF Sections
  <2>3. ASSUME NEW l \in Positions(prog)
        PROVE  (Behind(l, cur) \/ l = cur) /\ ~Behind(l, <<1, 1>>)
    <3>1. /\ Behind(l, <<cur[1], NumFrags(prog, cur[1]) + 1>>)
             \/ l = <<cur[1], NumFrags(prog, cur[1]) + 1>>
          /\ ~Behind(l, <<1, 1>>)
      BY <1>1, <1>2, <1>7, BehindNextSection DEF Sections
    <3> QED
      BY <1>3, <3>1
  <2> QED
    BY <1>4, <2>1, <2>2, <2>3
<1> QED
  BY <1>6, <1>7

(* A fragment is at a position, the end of a section is not a fragment.    *)
LEMMA FragmentsArePositions ==
    ASSUME TypeOK
    PROVE  Ids \subseteq Positions(prog)
BY PositionsOfFragment DEF TypeOK, Ids

(* assign_offsets at the end of a section.                                 *)
LEMMA OffsetClose ==
    ASSUME SettlingInv, EndOfOffsets
    PROVE  /\ TypeOK' => SettlingInv'
<1>1. /\ TypeOK /\ OffsetWalk /\ pc = "offsets" /\ CloseSection("relax") /\ ResizeSection
      /\ UNCHANGED <<prog, chosen, cached, off, addr, pass, memory, errors>>
      /\ ~AtFragment
  BY DEF SettlingInv, EndOfOffsets, CloseSection
<1>2. /\ cur \in Positions(prog)
      /\ at = EndBefore(Here, cur)
      /\ \A l \in Positions(prog) :
              l # cur => IF Behind(l, cur) THEN Meets(Here, l) ELSE Trails(Here, l)
      /\ ~changed => /\ Addressed
                     /\ LabelOffset(Here, cur) = at
                             => \A id \in Ids : Behind(id, cur) => SizedHere(id)
  BY <1>1 DEF OffsetWalk
<1>3. /\ Meets(Here', cur)
      /\ \A l \in Positions(prog) :
            l # cur => Meets(Here', l) = Meets(Here, l) /\ Trails(Here', l) = Trails(Here, l)
      /\ ~changed' => ~changed /\ LabelOffset(Here, cur) = at /\ UNCHANGED layout
  BY <1>1, <1>2, ClosingSection DEF Meets, Trails
<1>4. ASSUME ~changed'
      PROVE  /\ Addressed'
             /\ \A id \in Ids : Behind(id, cur) => SizedHere(id)'
  BY <1>1, <1>2, <1>3, <1>4, AddressesStay, FragmentsStay DEF layout
<1>5. Ids' = Ids /\ Ids \subseteq Positions(prog) /\ cur \notin Ids
  BY <1>1, FragmentsArePositions DEF Ids, AtFragment
<1>6. CASE /\ pc' = pc /\ cur' \in Positions(prog) /\ cur' # cur
           /\ \A L : EndBefore(L, cur') = 0
           /\ ~Behind(cur', cur) /\ ~Behind(cur, cur)
           /\ \A l \in Positions(prog) : Behind(l, cur') <=> Behind(l, cur) \/ l = cur
           /\ at' = 0
  <2>1. \A l \in Positions(prog) :
            l # cur' => IF Behind(l, cur') THEN Meets(Here', l) ELSE Trails(Here', l)
    BY <1>2, <1>3, <1>6
  <2>2. EndBefore(Here', cur') = 0 /\ LabelOffset(Here', cur') <= at'
    BY <1>2, <1>3, <1>6 DEF Trails
  <2>3. OffsetWalk'
    BY <1>1, <1>4, <1>5, <1>6, <2>1, <2>2 DEF OffsetWalk
  <2> QED
    BY <1>1, <1>6, <2>3 DEF SettlingInv, AddressWalk, IsPlacing, BeforeWalk, RelaxWalk,
                            EndOfPass, AfterPasses
<1>7. CASE /\ pc' = "relax" /\ cur' = <<1, 1>> /\ cur' \in Positions(prog)
           /\ \A L : EndBefore(L, cur') = 0
           /\ \A l \in Positions(prog) : /\ Behind(l, cur) \/ l = cur
                                         /\ ~Behind(l, cur')
           /\ at' = 0
  <2>1. \A l \in Positions(prog) : Meets(Here', l)
    BY <1>2, <1>3, <1>7
  <2>2. ASSUME TypeOK', NEW l \in Positions(prog) PROVE Trails(Here', l)
    <3>1. TypeOK' => IsLayout(Here)'
      BY HereIsLayout, PTL
    <3>2. IsLayout(Here') /\ Here'.prog = prog
      BY <1>1, <2>2, <3>1 DEF IsLayout, Here
    <3> QED
      BY <2>1, <3>2, PositionsAreNatural DEF Meets, Trails
  <2>3. EndBefore(Here', cur') = 0
    BY <1>7
  <2>4. ASSUME TypeOK' PROVE RelaxWalk'
    BY <1>1, <1>4, <1>5, <1>7, <2>1, <2>2, <2>3, <2>4 DEF RelaxWalk
  <2> QED
    BY <1>7, <2>4 DEF SettlingInv, AddressWalk, IsPlacing, BeforeWalk, OffsetWalk,
                            EndOfPass, AfterPasses
<1> QED
  BY <1>1, <1>2, <1>6, <1>7, NextSection

-----------------------------------------------------------------------------
(* The walk that grows what does not reach.                                *)

(* Candidates are listed smallest-first, so the next one is not shorter.   *)
LEMMA NextCandidateIsNotShorter ==
    ASSUME NEW p \in Program, NEW id \in FragIds(p), NEW k \in 1 .. Candidates(p, id),
           k < Candidates(p, id)
    PROVE  /\ FragAt(p, id).kind = "bytes"
           /\ FragAt(p, id).variants[k].len \in Nat
           /\ FragAt(p, id).variants[k + 1].len \in Nat
           /\ FragAt(p, id).variants[k].len <= FragAt(p, id).variants[k + 1].len
<1>1. FragAt(p, id) \in Fragment /\ Candidates(p, id) \in Nat \ {0}
  BY FragmentsOfProgram
<1>2. FragAt(p, id).kind = "bytes"
  BY <1>1 DEF Candidates
<1>3. FragAt(p, id).variants \in Variants
  BY <1>1, <1>2 DEF Fragment, Instruction
<1>4. PICK vs \in Variants : vs = FragAt(p, id).variants
  BY <1>3
<1>5. k \in 1 .. Len(vs) /\ k + 1 \in 2 .. Len(vs) /\ Len(vs) \in Nat
  BY <1>1, <1>2, <1>4 DEF Candidates
<1>6. vs[(k + 1) - 1].len <= vs[k + 1].len
  BY <1>5 DEF Variants
<1>7. \A i \in 1 .. Len(vs) : vs[i] \in [len : Nat, fixups : Seq(Fixup)]
  <2>1. vs \in Seq([len : Nat, fixups : Seq(Fixup)])
    BY DEF Variants
  <2>2. \A T : \A seq \in Seq(T) : \A i \in 1 .. Len(seq) : seq[i] \in T
    OBVIOUS
  <2> QED
    BY <2>1, <2>2, Zenon
<1>8. vs[k].len \in Nat /\ vs[k + 1].len \in Nat
  BY <1>5, <1>7
<1>9. (k + 1) - 1 = k
  BY <1>5
<1> QED
  BY <1>2, <1>4, <1>6, <1>8, <1>9

(* Growing one fragment moves no position and no end backwards.            *)
LEMMA GrowthTrails ==
    ASSUME TypeOK, cur \in Ids, Grows(cur), chosen' = [chosen EXCEPT ![cur] = @ + 1],
           UNCHANGED <<prog, cached, off, ssize, addr>>,
           NEW l \in Positions(prog), Trails(Here, l)
    PROVE  Trails(Here', l)
<1>1. /\ prog \in Program /\ IsLayout(Here) /\ Here.prog = prog
      /\ Here.chosen = chosen /\ Here'.chosen = chosen' /\ Here'.prog = prog
      /\ Here'.cached = Here.cached /\ Here'.off = Here.off /\ Here'.ssize = Here.ssize
      /\ chosen \in [Ids -> Nat \ {0}]
  BY HereIsLayout DEF TypeOK, Here
<1>2. LabelOffset(Here', l) = LabelOffset(Here, l)
  BY <1>1 DEF LabelOffset
<1>3. /\ LabelOffset(Here, l) \in Nat /\ EndBefore(Here, l) \in Nat
      /\ l[2] # 1 => <<l[1], l[2] - 1>> \in Ids
  BY <1>1, PositionsOfProgram, PositionsAreNatural DEF Ids
<1>4. CASE l[2] = 1
  BY <1>2, <1>4 DEF Trails, EndBefore
<1>5. CASE l[2] # 1
  <2>1. PICK id \in Ids : id = <<l[1], l[2] - 1>>
    BY <1>3, <1>5
  <2>2. FragSize(Here, id) \in Nat /\ Here.off[id] \in Nat
    BY <1>1, FragSizeIsNatural DEF IsLayout, Ids
  <2>3. FragSize(Here', id) \in Nat /\ FragSize(Here, id) <= FragSize(Here', id)
    <3>1. CASE id = cur
      BY <1>1, <3>1, NextCandidateIsNotShorter DEF Grows, TypeOK, Ids, FragSize
    <3>2. CASE id # cur
      BY <1>1, <2>2, <3>2 DEF FragSize
    <3> QED
      BY <3>1, <3>2
  <2>4. /\ EndBefore(Here, l) = Here.off[id] + FragSize(Here, id)
        /\ EndBefore(Here', l) = Here.off[id] + FragSize(Here', id)
    BY <1>1, <1>5, <2>1 DEF EndBefore, FragEnd
  <2> QED
    BY <1>2, <1>3, <2>2, <2>3, <2>4 DEF Trails
<1> QED
  BY <1>4, <1>5

(* relax, one fragment.                                                    *)
LEMMA GrowthStep ==
    ASSUME SettlingInv, TypeOK', GrowFragment
    PROVE  SettlingInv'
<1>1. /\ TypeOK /\ pc = "relax" /\ Mode = FromLastPass /\ cur \in Ids
      /\ cur' = <<cur[1], cur[2] + 1>>
      /\ chosen' = IF Grows(cur) THEN [chosen EXCEPT ![cur] = @ + 1] ELSE chosen
      /\ changed' = (changed \/ Grows(cur))
      /\ UNCHANGED <<prog, cached, off, ssize, addr, pc, memory, errors>>
  BY DEF SettlingInv, GrowFragment, AtFragment, Advance
<1>2. /\ \A l \in Positions(prog) : Trails(Here, l)
      /\ ~changed => /\ Addressed
                     /\ \A l \in Positions(prog) : Meets(Here, l)
                     /\ \A id \in Ids : SizedHere(id) /\ (Behind(id, cur) => ChosenHere(id))
  BY <1>1 DEF SettlingInv, RelaxWalk
<1>3. /\ cur' \in Positions(prog) /\ cur \in Nat \X Nat
      /\ \A id \in Ids : Behind(id, cur') <=> Behind(id, cur) \/ id = cur
  BY <1>1, PositionsOfFragment, FragmentsOfProgram, BehindNextFragment DEF TypeOK, Ids
<1>4. \A l \in Positions(prog) : Trails(Here', l)
  <2>1. CASE Grows(cur)
    BY <1>1, <1>2, <2>1, GrowthTrails
  <2>2. CASE ~Grows(cur)
    BY <1>1, <1>2, <2>2 DEF Here
  <2> QED
    BY <2>1, <2>2
<1>5. ASSUME ~changed'
      PROVE  /\ Addressed'
             /\ \A l \in Positions(prog) : Meets(Here', l)
             /\ \A id \in Ids : SizedHere(id)' /\ (Behind(id, cur') => ChosenHere(id)')
  <2>1. ~changed /\ ~Grows(cur) /\ UNCHANGED <<prog, layout, memory>> /\ errors \subseteq errors'
    BY <1>1, <1>5 DEF layout
  <2>2. Addressed' /\ Here' = Here
    BY <1>2, <2>1, AddressesStay, HereStays DEF layout
  <2>3. ChosenHere(cur)
    BY <1>1, <2>1 DEF ChosenHere, Grows, FromLastPass, Shrinking
  <2> QED
    BY <1>2, <1>3, <2>1, <2>2, <2>3, FragmentsStay
<1>6. Ids' = Ids /\ Mode' = Mode
  BY <1>1 DEF Ids, Mode
<1>7. RelaxWalk'
  BY <1>1, <1>3, <1>4, <1>5, <1>6 DEF RelaxWalk
<1> QED
  BY <1>1, <1>7 DEF SettlingInv, AddressWalk, IsPlacing, BeforeWalk, OffsetWalk, EndOfPass,
                    AfterPasses

(* relax at the end of a section.                                          *)
LEMMA GrowthClose ==
    ASSUME SettlingInv, TypeOK', EndOfGrowth
    PROVE  SettlingInv'
<1>1. /\ TypeOK /\ pc = "relax" /\ Mode = FromLastPass /\ cur \notin Ids
      /\ CloseSection("decide")
      /\ UNCHANGED <<prog, layout, changed, memory, errors>>
  BY DEF SettlingInv, EndOfGrowth, AtFragment, CloseSection
<1>2. /\ cur \in Positions(prog)
      /\ \A l \in Positions(prog) : Trails(Here, l)
      /\ ~changed => /\ Addressed
                     /\ \A l \in Positions(prog) : Meets(Here, l)
                     /\ \A id \in Ids : SizedHere(id) /\ (Behind(id, cur) => ChosenHere(id))
  BY <1>1 DEF SettlingInv, RelaxWalk
<1>3. Here' = Here /\ Addressed' = Addressed /\ Ids' = Ids /\ Mode' = Mode
  BY <1>1, HereStays, AddressesStay DEF Ids, Mode, layout
<1>4. Ids \subseteq Positions(prog)
  BY <1>1, FragmentsArePositions
<1>5. \A id \in Ids : /\ SizedHere(id) => SizedHere(id)'
                      /\ ChosenHere(id) => ChosenHere(id)'
  BY <1>1, FragmentsStay
<1>6. CASE /\ pc' = pc /\ cur' \in Positions(prog)
           /\ \A l \in Positions(prog) : Behind(l, cur') <=> Behind(l, cur) \/ l = cur
  BY <1>1, <1>2, <1>3, <1>4, <1>5, <1>6 DEF RelaxWalk, SettlingInv, AddressWalk, IsPlacing,
     BeforeWalk, OffsetWalk, EndOfPass, AfterPasses
<1>7. CASE /\ pc' = "decide" /\ cur' = <<1, 1>>
           /\ \A l \in Positions(prog) : Behind(l, cur) \/ l = cur
  <2>1. ~changed => Settled'
    BY <1>1, <1>2, <1>3, <1>4, <1>5, <1>7 DEF Settled
  <2>2. EndOfPass'
    BY <1>1, <1>2, <1>3, <1>7, <2>1 DEF EndOfPass
  <2> QED
    BY <1>7, <2>2 DEF SettlingInv, AddressWalk, IsPlacing, BeforeWalk, OffsetWalk, RelaxWalk,
                      AfterPasses
<1> QED
  BY <1>1, <1>2, <1>6, <1>7, NextSection

-----------------------------------------------------------------------------
(* The tests of the walks in address order, where nothing has moved.       *)

(* A shift by nothing shifts no value.                                     *)
LEMMA ShiftOfNothing ==
    ASSUME NEW L, NEW shift, shift.by = 0, NEW x, NEW id
    PROVE  FixupValue(L, x, id, shift) = FixupValue(L, x, id, NoShift)
<1>1. \A l : SymbolAddr(L, l, shift) = SymbolAddr(L, l, NoShift)
  BY DEF SymbolAddr, NoShift
<1>2. \A e : Resolve(L, e, shift) = Resolve(L, e, NoShift)
  BY <1>1, Zenon DEF Resolve
<1>3. \A e : Value(L, e, shift) = Value(L, e, NoShift)
  BY <1>2, Zenon DEF Value
<1> QED
  BY <1>3, Zenon DEF FixupValue

(* What a fixup would write is an integer, when it is known.               *)
LEMMA FixupValuesAreIntegers ==
    ASSUME NEW L, IsLayout(L), NEW id \in FragIds(L.prog), NEW x \in Fixup
    PROVE  FixupValue(L, x, id, NoShift) \in SUBSET Int
<1>1. /\ x.expr \in Expr /\ x.at \in Nat /\ x.adjust \in Int /\ x.pcAlign \in Nat \ {0}
  BY DEF Fixup
<1>2. Value(L, x.expr, NoShift) \in SUBSET Int
  BY <1>1, ValuesAreIntegers DEF Value
<1>3. L.addr[id[1]] \in Nat /\ L.off[id] \in Nat
  BY FragmentsOfProgram DEF IsLayout
<1>4. \A n \in Int : Mask(n, x.pcAlign) \in Int
  BY <1>1, RemainderIsNatural DEF Mask
<1>5. PcOf(L, x, id) \in Int
  BY <1>1, <1>3, <1>4 DEF PcOf
<1>6. \A start \in {0, L.addr[id[1]]} :
         {t + start - PcOf(L, x, id) : t \in Value(L, x.expr, NoShift)} \in SUBSET Int
  BY <1>2, <1>3, <1>5
<1> QED
  BY <1>2, <1>6 DEF FixupValue

(* Of the alignments between a branch and its target one is the largest.   *)
LEMMA LargestAlignment ==
    ASSUME NEW p \in Program, NEW id \in FragIds(p), NEW f \in Nat, f > id[2]
    PROVE  \E a \in AlignsBetween(p, id, f) :
              a \in Nat /\ \A b \in AlignsBetween(p, id, f) : b <= a
<1> DEFINE Aligns(h) == {FragAt(p, <<id[1], g>>).align :
                           g \in {i \in {h} : i <= NumFrags(p, id[1])
                                                 /\ FragAt(p, <<id[1], i>>).kind = "align"}}
           Bounded(m) == \E b \in Nat \ {0} : \A h \in id[2]+1 .. m : \A a \in Aligns(h) : a <= b
           unbounded == {m \in Nat : ~Bounded(m)}
           aligns == AlignsBetween(p, id, f)
<1>1. /\ id[1] \in DOMAIN p.sections /\ id[2] \in Nat
      /\ p.sections[id[1]].frags \in Seq(Fragment)
      /\ NumFrags(p, id[1]) \in Nat
  <2>1. p.sections[id[1]] \in Section /\ id[1] \in DOMAIN p.sections /\ id[2] \in Nat
    BY FragmentsOfProgram DEF Program
  <2> QED
    BY <2>1 DEF Section, NumFrags
<1>2. ASSUME NEW h \in Nat \ {0} PROVE Aligns(h) \in SUBSET Nat
  <2>1. SUFFICES ASSUME h <= NumFrags(p, id[1]), FragAt(p, <<id[1], h>>).kind = "align"
                 PROVE  FragAt(p, <<id[1], h>>).align \in Nat
    OBVIOUS
  <2>2. p.sections[id[1]].frags[h] \in Fragment
    BY <1>1, <2>1 DEF NumFrags
  <2> QED
    BY <2>1, <2>2 DEF FragAt, Fragment, Instruction
<1>3. \A h : \A a \in Aligns(h) : Aligns(h) = {a}
  OBVIOUS
<1> HIDE DEF Aligns
<1>4. unbounded = {}
  <2>1. SUFFICES ASSUME unbounded # {} PROVE FALSE
    OBVIOUS
  <2>2. PICK m \in unbounded : \A j \in unbounded : m <= j
    <3>1. unbounded \in SUBSET Nat
      OBVIOUS
    <3> HIDE DEF unbounded
    <3>2. LeastOr(unbounded, 0) \in unbounded /\ \A j \in unbounded : LeastOr(unbounded, 0) <= j
      BY <2>1, <3>1, LeastOrIsLeast
    <3> QED
      BY <3>2
  <2>3. m \in Nat /\ ~Bounded(m)
    OBVIOUS
  <2>4. CASE m = 0
    BY <1>1, <2>3, <2>4
  <2>5. CASE m # 0
    <3>1. m - 1 \in Nat /\ ~(m <= m - 1)
      BY <2>3, <2>5
    <3>2. Bounded(m - 1)
      BY <2>2, <3>1
    <3>3. PICK b \in Nat \ {0} : \A h \in id[2]+1 .. m-1 : \A a \in Aligns(h) : a <= b
      BY <3>2
    <3>4. Aligns(m) \in SUBSET Nat
      BY <1>2, <2>3, <2>5
    <3>5. PICK c \in Nat \ {0} : b <= c /\ \A a \in Aligns(m) : a <= c
      <4>1. CASE \A a \in Aligns(m) : a <= b
        BY <4>1
      <4>2. CASE \E a \in Aligns(m) : ~(a <= b)
        <5>1. PICK a \in Aligns(m) : ~(a <= b)
          BY <4>2
        <5>2. Aligns(m) = {a} /\ a \in Nat \ {0} /\ b <= a
          BY <1>3, <3>4, <5>1
        <5> QED
          BY <5>2
      <4> QED
        BY <4>1, <4>2
    <3>6. ASSUME NEW h \in id[2]+1 .. m, NEW a \in Aligns(h) PROVE a <= c
      <4>1. h \in Nat \ {0} /\ (h = m \/ h \in id[2]+1 .. m-1)
        <5>1. m \in Nat /\ id[2] \in Nat
          BY <1>1, <2>3
        <5> HIDE DEF unbounded
        <5> QED
          BY <5>1
      <4>2. a \in Nat
        BY <1>2, <4>1
      <4> QED
        BY <3>3, <3>5, <4>1, <4>2
    <3>7. Bounded(m)
      BY <3>6
    <3> QED
      BY <2>3, <3>7
  <2> QED
    BY <2>4, <2>5
<1>5. PICK b \in Nat \ {0} : \A h \in id[2]+1 .. f-1 : \A a \in Aligns(h) : a <= b
  <2>1. f - 1 \in Nat
    BY <1>1
  <2> QED
    BY <1>4, <2>1
<1>6. 1 \in aligns /\ \A a \in aligns : a = 1 \/ \E h \in id[2]+1 .. f-1 : a \in Aligns(h)
  BY DEF AlignsBetween, Aligns
<1>7. aligns \in SUBSET Nat /\ 1 \in aligns /\ \A a \in aligns : a <= b
  BY <1>1, <1>2, <1>5, <1>6
<1> HIDE DEF aligns, unbounded, Bounded
<1> DEFINE bounds == {n \in Nat : \A a \in aligns : a <= n}
           top == LeastOr(bounds, 0)
<1>8. bounds \in SUBSET Nat /\ b \in bounds
  BY <1>7
<1>9. top \in bounds /\ \A n \in bounds : top <= n
  <2> HIDE DEF bounds
  <2> QED
    BY <1>8, LeastOrIsLeast
<1> HIDE DEF top
<1>10. top \in Nat /\ \A a \in aligns : a <= top
  BY <1>9
<1>11. top \in aligns
  <2>1. SUFFICES ASSUME top \notin aligns PROVE FALSE
    OBVIOUS
  <2>2. \A a \in aligns : a <= top - 1 /\ top - 1 \in Nat
    BY <1>7, <1>10, <2>1
  <2>3. top - 1 \in bounds
    BY <1>7, <2>2
  <2> QED
    BY <1>9, <1>10, <2>3
<1> QED
  BY <1>10, <1>11 DEF aligns

(* No alignment absorbs anything of a stretch of nothing.                  *)
LEMMA NothingAbsorbed ==
    ASSUME NEW p \in Program, NEW id \in FragIds(p), NEW f \in Nat, f > id[2]
    PROVE  Absorbed(0, AlignsBetween(p, id, f)) = 0
<1> DEFINE aligns == AlignsBetween(p, id, f)
           a == CHOOSE x \in aligns : \A y \in aligns : y <= x
<1>1. \E x \in aligns : x \in Nat /\ \A y \in aligns : y <= x
  BY LargestAlignment
<1>2. a \in aligns /\ \A y \in aligns : y <= a
  <2> HIDE DEF aligns
  <2> QED
    BY <1>1
<1>3. \A y \in aligns : y \in Int
  <2>1. \A y \in aligns :
           y = 1 \/ \E h \in id[2]+1 .. f-1 : /\ h <= NumFrags(p, id[1])
                                              /\ FragAt(p, <<id[1], h>>).kind = "align"
                                              /\ y = FragAt(p, <<id[1], h>>).align
    BY DEF AlignsBetween
  <2>2. ASSUME NEW h \in id[2]+1 .. f-1, h <= NumFrags(p, id[1]),
               FragAt(p, <<id[1], h>>).kind = "align"
        PROVE  FragAt(p, <<id[1], h>>).align \in Nat
    <3>1. p.sections[id[1]] \in Section /\ id[2] \in Nat
      BY FragmentsOfProgram DEF Program
    <3>2. p.sections[id[1]].frags \in Seq(Fragment)
      BY <3>1 DEF Section
    <3>3. h \in 1 .. Len(p.sections[id[1]].frags)
      BY <2>2, <3>1, <3>2 DEF NumFrags
    <3>4. p.sections[id[1]].frags[h] \in Fragment
      BY <3>2, <3>3
    <3> QED
      BY <2>2, <3>4 DEF FragAt, Fragment, Instruction
  <2> HIDE DEF aligns, a
  <2>3. ASSUME NEW y \in aligns, y # 1 PROVE y \in Int
    <3>1. PICK h \in id[2]+1 .. f-1 : /\ h <= NumFrags(p, id[1])
                                     /\ FragAt(p, <<id[1], h>>).kind = "align"
                                     /\ y = FragAt(p, <<id[1], h>>).align
      BY <2>1, <2>3
    <3>2. FragAt(p, <<id[1], h>>).align \in Nat
      BY <2>2, <3>1
    <3> QED
      BY <3>1, <3>2
  <2> QED
    BY <2>3
<1>4. a \in Int
  BY <1>2, <1>3
<1>5. Absorbed(0, aligns) = IF a <= 1 THEN 0 ELSE IF 0 < 0 THEN -((-0) - ((-0) % a)) ELSE 0 - (0 % a)
  BY DEF Absorbed
<1> HIDE DEF a, aligns
<1>6. a > 1 => 0 % a = 0
  BY <1>4
<1> QED
  BY <1>4, <1>5, <1>6 DEF aligns

(* A candidate kept by either walk, where nothing before it has moved,     *)
(* reaches in the sense of the strategies that look at the layout only.    *)
LEMMA FitsWhereItIs ==
    ASSUME NEW L, IsLayout(L), NEW id \in FragIds(L.prog),
           FragAt(L.prog, id).kind = "bytes", FragAt(L.prog, id).mode # Shrinking,
           FitsInOrder(L, id, L.chosen[id], 0) \/ FitsStretched(L, id, L.chosen[id], 0)
    PROVE  VariantFits(L, id, L.chosen[id], 0)
<1>1. FragAt(L.prog, id) \in Instruction /\ L.prog \in Program /\ id[2] \in Nat
  BY FragmentsOfProgram DEF IsLayout, Fragment
<1>2. PICK vs \in Variants : vs = FragAt(L.prog, id).variants
  BY <1>1 DEF Instruction
<1>3. PICK k \in 1 .. Len(vs) : k = L.chosen[id]
  BY <1>2 DEF IsLayout, Candidates
<1>4. vs[k] \in [len : Nat, fixups : Seq(Fixup)]
  <2>1. vs \in Seq([len : Nat, fixups : Seq(Fixup)])
    BY DEF Variants
  <2>2. \A T : \A seq \in Seq(T) : \A i \in 1 .. Len(seq) : seq[i] \in T
    OBVIOUS
  <2> QED
    BY <2>1, <2>2, Zenon
<1>5. PICK fx \in Seq(Fixup) : fx = vs[k].fixups
  BY <1>4
<1>6. ASSUME NEW i \in DOMAIN fx PROVE fx[i] \in Fixup /\ fx[i].diff = FALSE
  <2>1. fx[i] \in Fixup
    OBVIOUS
  <2>2. ~SizedByDifference(vs)
    BY <1>1, <1>2 DEF Instruction
  <2>3. k \in DOMAIN vs
    BY DEF Variants
  <2>4. ~fx[i].diff
    BY <1>5, <2>2, <2>3 DEF SizedByDifference
  <2>5. fx[i].diff \in BOOLEAN
    BY <2>1 DEF Fixup
  <2> QED
    BY <2>1, <2>4, <2>5
<1>7. ASSUME NEW i \in DOMAIN fx
      PROVE  FixupValue(L, fx[i], id, NoShift) \in SUBSET Int
  BY <1>6, FixupValuesAreIntegers
<1>8. Fixups(L, id, L.chosen[id]) = fx
  BY <1>2, <1>3, <1>5 DEF Fixups
<1>9. ASSUME NEW i \in DOMAIN fx
      PROVE  Reaches(fx[i], FixupValue(L, fx[i], id, NoShift))
  <2> DEFINE values == FixupValue(L, fx[i], id, NoShift)
  <2>1. CASE FitsInOrder(L, id, L.chosen[id], 0)
    <3> DEFINE IsAhead(x) == x.pcrel /\ 0 # 0 /\ Ahead(x.expr, id) # {}
               Moves(x) == /\ IsAhead(x)
                           /\ \/ 0 < 0
                              \/ \E f \in Ahead(x.expr, id) : SameRegion(L.prog, id, f)
               Measured(x) == {v + (IF Moves(x) THEN 0 ELSE 0) :
                                  v \in FixupValue(L, x, id, NoShift)}
               Passed(x) == /\ IsAhead(x) /\ ~Moves(x) /\ Measured(x) # {}
                            /\ Resolve(L, x.expr, NoShift) < L.addr[id[1]] + L.off[id]
               FitsUpTo(n) == \A j \in 1..n : Reaches(fx[j], Measured(fx[j]))
    <3>1. FitsUpTo(Len(fx)) \/ \E j \in DOMAIN fx : FitsUpTo(j - 1) /\ Passed(fx[j])
      BY <1>8, <2>1, Zenon DEF FitsInOrder
    <3>2. \A j : ~Passed(fx[j])
      OBVIOUS
    <3>3. Reaches(fx[i], Measured(fx[i]))
      <4>1. i \in 1 .. Len(fx)
        OBVIOUS
      <4> HIDE DEF Measured, Passed
      <4> QED
        BY <3>1, <3>2, <4>1
    <3>4. Measured(fx[i]) = values
      BY <1>7
    <3> QED
      BY <3>3, <3>4
  <2>2. CASE FitsStretched(L, id, L.chosen[id], 0)
    <3> DEFINE Moved0(x) ==
                  IF x.pcrel /\ x.expr.minus = {} /\ Ahead(x.expr, id) # {}
                  THEN LET f == CHOOSE g \in Ahead(x.expr, id) : TRUE
                       IN  Absorbed(0, AlignsBetween(L.prog, id, f))
                  ELSE 0
    <3>1. Reaches(fx[i], {v + Moved0(fx[i]) : v \in values})
      BY <1>8, <2>2 DEF FitsStretched
    <3>2. Moved0(fx[i]) = 0
      <4>1. SUFFICES ASSUME Ahead(fx[i].expr, id) # {}
                     PROVE  LET f == CHOOSE g \in Ahead(fx[i].expr, id) : TRUE
                            IN  Absorbed(0, AlignsBetween(L.prog, id, f)) = 0
        OBVIOUS
      <4>2. PICK f : f = CHOOSE g \in Ahead(fx[i].expr, id) : TRUE
        OBVIOUS
      <4>3. f \in Ahead(fx[i].expr, id)
        BY <4>1, <4>2
      <4>4. fx[i].expr.plus \in SUBSET Labels
        BY <1>6 DEF Fixup, Expr
      <4>5. f \in Nat /\ f > id[2]
        BY <4>3, <4>4 DEF Ahead, Labels
      <4> QED
        BY <1>1, <4>2, <4>5, NothingAbsorbed
    <3> HIDE DEF Moved0
    <3>3. {v + Moved0(fx[i]) : v \in values} = values
      BY <1>7, <3>2
    <3> QED
      BY <3>1, <3>3
  <2> QED
    BY <2>1, <2>2
<1>10. PICK shift : shift = [frag |-> id, pc |-> L.off[id],
                             by |-> vs[k].len - vs[k].len + 0]
  OBVIOUS
<1>11. shift.by = 0
  BY <1>4, <1>10
<1>12. ASSUME NEW i \in DOMAIN fx
       PROVE  Reaches(fx[i], IF fx[i].diff THEN RelaxedDifference(L, fx[i].expr, id, 0)
                                           ELSE FixupValue(L, fx[i], id, shift))
  BY <1>6, <1>9, <1>11, ShiftOfNothing
<1> QED
  BY <1>2, <1>3, <1>5, <1>10, <1>12 DEF VariantFits

(* The strategy of a file is as refined as that of its most refined code.  *)
LEMMA FilesRelaxation ==
    ASSUME NEW p \in Program
    PROVE  /\ FileRelaxation(p) \in Relaxation
           /\ \A id \in FragIds(p) : /\ FragAt(p, id).mode \in Relaxation
                                     /\ FragAt(p, id).mode <= FileRelaxation(p)
           /\ FileRelaxation(p) = FromLastPass
                \/ \E id \in FragIds(p) : FileRelaxation(p) = FragAt(p, id).mode
<1> DEFINE modes == {FromLastPass} \cup {FragAt(p, id).mode : id \in FragIds(p)}
<1>1. \A id \in FragIds(p) : FragAt(p, id).mode \in Relaxation
  <2>1. SUFFICES ASSUME NEW id \in FragIds(p) PROVE FragAt(p, id).mode \in Relaxation
    OBVIOUS
  <2>2. FragAt(p, id) \in Fragment
    BY FragmentsOfProgram
  <2> QED
    BY <2>2 DEF Fragment, Instruction
<1>2. modes \in SUBSET {0, 1, 2, 3} /\ modes # {}
  BY <1>1 DEF Relaxation, FromLastPass, InOrder, EachPass, Shrinking
<1>3. FileRelaxation(p) = CHOOSE m \in modes : \A n \in modes : n <= m
  BY DEF FileRelaxation
<1>4. \A id \in FragIds(p) : FragAt(p, id).mode \in modes
  OBVIOUS
<1>5. \A m \in modes : m = FromLastPass \/ \E id \in FragIds(p) : m = FragAt(p, id).mode
  OBVIOUS
<1> HIDE DEF modes
<1>6. \E m \in modes : \A n \in modes : n <= m
  <2>1. CASE 3 \in modes
    BY <1>2, <2>1
  <2>2. CASE 3 \notin modes /\ 2 \in modes
    BY <1>2, <2>2
  <2>3. CASE 3 \notin modes /\ 2 \notin modes /\ 1 \in modes
    BY <1>2, <2>3
  <2>4. CASE 3 \notin modes /\ 2 \notin modes /\ 1 \notin modes
    <3>1. \A m \in modes : m = 0
      BY <1>2, <2>4
    <3>2. 0 \in modes
      BY <1>2, <3>1
    <3>3. \A n \in modes : n <= 0
      BY <3>1
    <3> QED
      BY <3>2, <3>3
  <2> QED
    BY <2>1, <2>2, <2>3, <2>4
<1>7. FileRelaxation(p) \in modes /\ \A n \in modes : n <= FileRelaxation(p)
  BY <1>3, <1>6
<1>8. FileRelaxation(p) \in {0, 1, 2, 3}
  BY <1>2, <1>7
<1> QED
  BY <1>1, <1>4, <1>5, <1>7, <1>8 DEF Relaxation, FromLastPass, InOrder, EachPass, Shrinking

(* So code that shrinks is only ever in a file that shrinks.               *)
LEMMA ShrinkingFiles ==
    ASSUME TypeOK
    PROVE  /\ Mode \in Relaxation
           /\ \A id \in Ids : FragAt(prog, id).mode = Shrinking => Mode = Shrinking
BY FilesRelaxation DEF TypeOK, Mode, Ids, Relaxation, FromLastPass, InOrder, EachPass, Shrinking

-----------------------------------------------------------------------------
(* The walks in address order.                                             *)

(* While nothing has changed the walk finds every fragment where it is.    *)
LEMMA NothingHasMoved ==
    ASSUME SettlingInv, InOrderWalk, ~changed
    PROVE  at = off[cur] /\ Moved = Here /\ Stretch = 0 /\ SizedHere(cur)
<1>1. /\ TypeOK /\ cur \in Ids /\ pc = "relax" /\ Mode # FromLastPass
      /\ off \in [Ids -> Nat]
  BY DEF SettlingInv, TypeOK, InOrderWalk, AtFragment
<1>2. at = EndBefore(Here, cur) /\ Meets(Here, cur) /\ cur \in Positions(prog)
      /\ SizedHere(cur)
  BY <1>1 DEF SettlingInv, RelaxWalk
<1>3. LabelOffset(Here, cur) = off[cur]
  BY <1>1 DEF LabelOffset, Here, Ids
<1>4. at = off[cur] /\ off[cur] \in Nat
  BY <1>1, <1>2, <1>3 DEF Meets
<1>5. [off EXCEPT ![cur] = at] = off
  BY <1>1, <1>4
<1>6. Moved = Here
  BY <1>5 DEF Moved, Here
<1>7. Stretch = 0
  BY <1>4 DEF Stretch
<1> QED
  BY <1>2, <1>4, <1>6, <1>7

(* Whatever size the fragment at the cursor is given, it comes to stand    *)
(* where the one before it ends.                                           *)
LEMMA WalkStep ==
    ASSUME SettlingInv, TypeOK', InOrderWalk, NEW size, NEW c, c = cur,
           off' = [off EXCEPT ![cur] = at], Advance(size),
           FragSize(Here', cur) = size,
           \A j \in Ids \ {cur} : FragSize(Here', j) = FragSize(Here, j),
           UNCHANGED <<prog, ssize, addr, pc, errors>>,
           \A j \in Ids \ {cur} : flips'[j] = flips[j] /\ (j \in held' <=> j \in held),
           ~changed' => ~changed /\ UNCHANGED <<chosen, cached>> /\ ChosenHere(c)'
    PROVE  SettlingInv'
<1>1. /\ TypeOK /\ prog \in Program /\ at \in Nat /\ cur \in Ids /\ cur \in Nat \X Nat
      /\ pc = "relax" /\ Mode # FromLastPass /\ off \in [Ids -> Nat]
      /\ IsLayout(Here) /\ Here.prog = prog
      /\ cur' = <<cur[1], cur[2] + 1>> /\ at' = at + size
  BY HereIsLayout DEF SettlingInv, TypeOK, InOrderWalk, AtFragment, Here, Advance
<1>2. /\ cur \in Positions(prog)
      /\ at = EndBefore(Here, cur)
      /\ \A l \in Positions(prog) : l # cur => Meets(Here, l)
      /\ ~changed => /\ Addressed
                     /\ \A l \in Positions(prog) : Meets(Here, l)
                     /\ \A id \in Ids : SizedHere(id) /\ (Behind(id, cur) => ChosenHere(id))
  BY <1>1 DEF SettlingInv, RelaxWalk
<1>3. IsLayout(Here')
  <2>1. TypeOK' => IsLayout(Here)'
    BY HereIsLayout, PTL
  <2> QED
    BY <2>1 DEF IsLayout
<1>4. /\ LabelOffset(Here', cur) = at
      /\ EndBefore(Here', cur') = at + size
      /\ \A l \in Positions(prog) :
            /\ l # cur => LabelOffset(Here', l) = LabelOffset(Here, l)
            /\ l # cur' => EndBefore(Here', l) = EndBefore(Here, l)
  <2> DEFINE L == Here
             M == Here'
  <2>1. /\ IsLayout(L) /\ IsLayout(M) /\ M.prog = L.prog /\ L.prog = prog
        /\ M.off = [L.off EXCEPT ![cur] = at] /\ M.ssize = L.ssize
        /\ cur \in FragIds(L.prog)
        /\ \A j \in FragIds(L.prog) \ {cur} : FragSize(M, j) = FragSize(L, j)
    BY <1>1, <1>3 DEF Here, Ids
  <2> HIDE DEF L, M
  <2>2. /\ LabelOffset(M, cur) = at
        /\ EndBefore(M, <<cur[1], cur[2] + 1>>) = at + FragSize(M, cur)
        /\ \A l \in Positions(L.prog) :
              /\ l # cur => LabelOffset(M, l) = LabelOffset(L, l)
              /\ l # <<cur[1], cur[2] + 1>> => EndBefore(M, l) = EndBefore(L, l)
    BY <1>1, <2>1, PlacedFragment, SMTT(30)
  <2> QED
    BY <1>1, <2>1, <2>2 DEF L, M
<1>5. /\ cur' \in Positions(prog) /\ cur' # cur
      /\ \A id \in Ids : id # cur => (Behind(id, cur') <=> Behind(id, cur))
  BY <1>1, PositionsOfFragment, FragmentsOfProgram, BehindNextFragment DEF Ids
<1>6. \A l \in Positions(prog) : l # cur' => Meets(Here', l)
  BY <1>2, <1>4 DEF Meets
<1>7. ASSUME ~changed'
      PROVE  /\ Addressed'
             /\ \A l \in Positions(prog) : Meets(Here', l)
             /\ \A id \in Ids : SizedHere(id)' /\ (Behind(id, cur') => ChosenHere(id)')
  <2>1. at = off[cur] /\ ~changed /\ UNCHANGED <<chosen, cached>> /\ ChosenHere(c)'
    BY <1>7, NothingHasMoved
  <2>2. UNCHANGED <<prog, layout>>
    BY <1>1, <2>1 DEF layout
  <2>3. Here' = Here /\ Addressed'
    BY <1>2, <2>1, <2>2, HereStays, AddressesStay DEF layout
  <2>4. \A id \in Ids : SizedHere(id)'
    BY <1>2, <2>1, <2>2, <2>3 DEF SizedHere, layout
  <2>5. ASSUME NEW id \in Ids, Behind(id, cur') PROVE ChosenHere(id)'
    <3>1. CASE id = cur
      BY <2>1, <3>1
    <3>2. CASE id # cur
      BY <1>2, <1>5, <2>1, <2>2, <2>3, <2>5, <3>2 DEF Stuck, Mode, ChosenHere
    <3> QED
      BY <3>1, <3>2
  <2> QED
    BY <1>2, <2>1, <2>3, <2>4, <2>5
<1>8. Ids' = Ids /\ Mode' = Mode
  BY DEF Ids, Mode
<1>9. RelaxWalk'
  BY <1>1, <1>4, <1>5, <1>6, <1>7, <1>8 DEF RelaxWalk
<1> QED
  BY <1>1, <1>9 DEF SettlingInv, AddressWalk, IsPlacing, BeforeWalk, OffsetWalk, EndOfPass,
                    AfterPasses

(* A candidate picked, and what it is to be the right one.                 *)
LEMMA PickStep ==
    ASSUME SettlingInv, TypeOK', InOrderWalk, IsRelaxable(prog, cur), NEW k, Pick(k),
           NEW c, c = cur,
           \A j \in Ids \ {cur} : flips'[j] = flips[j] /\ (j \in held' <=> j \in held),
           ~changed /\ k = chosen[cur] => ChosenHere(c)'
    PROVE  SettlingInv'
<1>1. /\ off' = [off EXCEPT ![cur] = at] /\ chosen' = [chosen EXCEPT ![cur] = k]
      /\ changed' = (changed \/ k # chosen[cur])
      /\ Advance(FragAt(prog, cur).variants[k].len)
      /\ UNCHANGED <<prog, cached, ssize, addr, pc, pass, errors>>
      /\ cur \in Ids /\ FragAt(prog, cur).kind = "bytes"
      /\ chosen \in [Ids -> Nat \ {0}]
  BY DEF Pick, IsRelaxable, InOrderWalk, AtFragment, SettlingInv, TypeOK
<1>2. /\ Here'.prog = prog /\ Here'.chosen = chosen' /\ Here'.cached = cached
      /\ Here.prog = prog /\ Here.chosen = chosen /\ Here.cached = cached
  BY <1>1 DEF Here
<1>3. FragSize(Here', cur) = FragAt(prog, cur).variants[k].len
  BY <1>1, <1>2 DEF FragSize
<1>4. \A j \in Ids \ {cur} : FragSize(Here', j) = FragSize(Here, j)
  BY <1>1, <1>2 DEF FragSize
<1>5. ~changed' => ~changed /\ UNCHANGED <<chosen, cached>> /\ ChosenHere(c)'
  BY <1>1
<1>6. PICK size : size = FragAt(prog, cur).variants[k].len
  OBVIOUS
<1> QED
  BY <1>1, <1>3, <1>4, <1>5, <1>6, WalkStep

(* Where nothing has changed, a candidate that is kept leaves the layout   *)
(* as it is.                                                               *)
LEMMA KeptInPlace ==
    ASSUME SettlingInv, InOrderWalk, NEW k, Pick(k), ~changed, k = chosen[cur]
    PROVE  /\ Here' = Here /\ Moved = Here /\ Stretch = 0
           /\ UNCHANGED <<prog, chosen>> /\ Mode' = Mode
BY NothingHasMoved DEF Pick, SettlingInv, TypeOK, Here, Mode

(* relax_in_order: the candidate kept is the first from there on that      *)
(* reaches.                                                                *)
LEMMA GrowInOrderStep ==
    ASSUME SettlingInv, TypeOK', GrowInOrder
    PROVE  SettlingInv'
<1>0. PICK c : c = cur
  OBVIOUS
<1>1. /\ TypeOK /\ InOrderWalk /\ Mode = InOrder /\ IsRelaxable(prog, cur)
      /\ Pick(NextInOrder(cur)) /\ UNCHANGED memory
      /\ cur \in Ids /\ FragAt(prog, cur).kind = "bytes"
  BY DEF GrowInOrder, SettlingInv, InOrderWalk, AtFragment, IsRelaxable
<1>2. /\ Candidates(prog, cur) \in Nat \ {0}
      /\ chosen[cur] \in 1 .. Candidates(prog, cur)
  BY <1>1, FragmentsOfProgram DEF TypeOK, Ids
<1> DEFINE n == Candidates(prog, cur)
           ks == {k \in chosen[cur] .. n : FitsInOrder(Moved, cur, k, Stretch)}
<1>3. NextInOrder(cur) = LeastOr(ks, n)
  BY DEF NextInOrder
<1>4. PICK k : k = NextInOrder(cur)
  OBVIOUS
<1>5. ASSUME ~changed, k = chosen[cur] PROVE ChosenHere(c)'
  <2>1. /\ Here' = Here /\ Moved = Here /\ Stretch = 0
        /\ UNCHANGED <<prog, chosen>> /\ Mode' = Mode
    BY <1>1, <1>4, <1>5, KeptInPlace
  <2>2. ASSUME chosen[cur] < n PROVE VariantFits(Here, cur, chosen[cur], 0)
    <3>1. ks \in SUBSET Nat
      BY <1>2
    <3>2. k \in ks
      BY <1>2, <1>3, <1>4, <1>5, <2>2, <3>1, LeastOrIsLeast
    <3>3. FitsInOrder(Here, cur, chosen[cur], 0)
      BY <1>5, <2>1, <3>2
    <3>4. FragAt(prog, cur).mode # Shrinking
      BY <1>1, ShrinkingFiles DEF InOrder, Shrinking
    <3>5. IsLayout(Here) /\ Here.prog = prog /\ Here.chosen = chosen
      BY <1>1, HereIsLayout DEF Here
    <3> HIDE DEF Here
    <3> QED
      BY <1>1, <3>3, <3>4, <3>5, FitsWhereItIs DEF Ids
  <2>3. Mode' # Shrinking
    BY <1>1, <2>1 DEF InOrder, Shrinking
  <2> HIDE DEF Here, Mode
  <2> QED
    BY <1>0, <2>1, <2>2, <2>3 DEF ChosenHere
<1>6. \A j \in Ids \ {cur} : flips'[j] = flips[j] /\ (j \in held' <=> j \in held)
  BY <1>1 DEF memory
<1> QED
  BY <1>0, <1>1, <1>4, <1>5, <1>6, PickStep

(* repick_each_pass: the candidate taken is the first of all that reaches. *)
LEMMA RepickEachPassStep ==
    ASSUME SettlingInv, TypeOK', RepickEachPass
    PROVE  SettlingInv'
<1>0. PICK c : c = cur
  OBVIOUS
<1> DEFINE n == Candidates(prog, cur)
           ks == {j \in 1 .. n : FitsStretched(Moved, cur, j, Stretch)}
<1>1. PICK k : k = LeastOr(ks, n)
  OBVIOUS
<1>2. /\ TypeOK /\ InOrderWalk /\ Mode = EachPass /\ IsRelaxable(prog, cur)
      /\ Pick(k) /\ UNCHANGED flips
      /\ held' = IF KeepsForGood(k) THEN held \cup {cur} ELSE held
      /\ cur \in Ids /\ FragAt(prog, cur).kind = "bytes"
  BY <1>1 DEF RepickEachPass, SettlingInv, InOrderWalk, AtFragment, IsRelaxable
<1>3. /\ Candidates(prog, cur) \in Nat \ {0}
      /\ chosen[cur] \in 1 .. Candidates(prog, cur)
  BY <1>2, FragmentsOfProgram DEF TypeOK, Ids
<1>4. ASSUME ~changed, k = chosen[cur] PROVE ChosenHere(c)'
  <2>1. /\ Here' = Here /\ Moved = Here /\ Stretch = 0
        /\ UNCHANGED <<prog, chosen>> /\ Mode' = Mode
    BY <1>2, <1>4, KeptInPlace
  <2>2. ASSUME chosen[cur] < n PROVE VariantFits(Here, cur, chosen[cur], 0)
    <3>1. ks \in SUBSET Nat
      BY <1>3
    <3>2. k \in ks
      BY <1>1, <1>3, <1>4, <2>2, <3>1, LeastOrIsLeast
    <3>3. FitsStretched(Here, cur, chosen[cur], 0)
      BY <1>4, <2>1, <3>2
    <3>4. FragAt(prog, cur).mode # Shrinking
      BY <1>2, ShrinkingFiles DEF EachPass, Shrinking
    <3>5. IsLayout(Here) /\ Here.prog = prog /\ Here.chosen = chosen
      BY <1>2, HereIsLayout DEF Here
    <3> HIDE DEF Here
    <3> QED
      BY <1>2, <3>3, <3>4, <3>5, FitsWhereItIs DEF Ids
  <2>3. Mode' # Shrinking
    BY <1>2, <2>1 DEF EachPass, Shrinking
  <2> HIDE DEF Here, Mode
  <2> QED
    BY <1>0, <2>1, <2>2, <2>3 DEF ChosenHere
<1>5. \A j \in Ids \ {cur} : flips'[j] = flips[j] /\ (j \in held' <=> j \in held)
  BY <1>2
<1> QED
  BY <1>0, <1>2, <1>4, <1>5, PickStep

(* repick: the candidate taken is the first that reaches of those the      *)
(* fragment may take, and one that the guard stops is stuck.               *)
LEMMA RepickStep ==
    ASSUME SettlingInv, TypeOK', Repick
    PROVE  SettlingInv'
<1>0. PICK c : c = cur
  OBVIOUS
<1> DEFINE n == Candidates(prog, cur)
           ks == {k \in Lowest(cur) .. n : VariantFits(Moved, cur, k, Stretch)}
<1>1. PICK fit : fit = LeastOr(ks, n)
  OBVIOUS
<1>2. /\ TypeOK /\ InOrderWalk /\ Mode = Shrinking /\ IsRelaxable(prog, cur)
      /\ \/ /\ fit < chosen[cur]
            /\ flips' = [flips EXCEPT ![cur].shrank = @ + 1]
            /\ Pick(IF Stuck(cur) THEN chosen[cur] ELSE fit)
         \/ /\ fit > chosen[cur]
            /\ flips' = [flips EXCEPT ![cur].grew = @ + 1]
            /\ Pick(fit)
         \/ /\ fit = chosen[cur]
            /\ flips' = flips
            /\ Pick(fit)
      /\ UNCHANGED held
      /\ cur \in Ids /\ FragAt(prog, cur).kind = "bytes"
  BY <1>1 DEF Repick, SettlingInv, InOrderWalk, AtFragment, IsRelaxable
<1>3. /\ n \in Nat \ {0}
      /\ chosen[cur] \in 1 .. n
      /\ Lowest(cur) \in 1 .. chosen[cur]
  BY <1>2, FragmentsOfProgram DEF TypeOK, Ids, Lowest
<1>4. ks \in SUBSET Nat
  BY <1>3
<1>5. fit \in Lowest(cur) .. n
  BY <1>1, <1>3, FirstFitIsCandidate
<1>6. PICK k : /\ Pick(k)
               /\ k = IF fit < chosen[cur] /\ Stuck(cur) THEN chosen[cur] ELSE fit
  <2>1. chosen[cur] \in Int /\ fit \in Int
    BY <1>3, <1>5
  <2> HIDE DEF ks, n
  <2>2. Pick(IF fit < chosen[cur] /\ Stuck(cur) THEN chosen[cur] ELSE fit)
    BY <1>2, <2>1
  <2> QED
    BY <2>2
<1>7. flips \in [Ids -> [shrank : Nat, grew : Nat]] /\ Ids' = Ids
  BY <1>6 DEF SettlingInv, TypeOK, Pick, Ids
<1>8. ASSUME ~changed, k = chosen[cur] PROVE ChosenHere(c)'
  <2>1. /\ Here' = Here /\ Moved = Here /\ Stretch = 0
        /\ UNCHANGED <<prog, chosen>> /\ Mode' = Mode
    BY <1>2, <1>6, <1>8, KeptInPlace
  <2>2. CASE fit # chosen[cur]
    <3>1. fit < chosen[cur] /\ Stuck(cur) /\ fit \in Int
      BY <1>3, <1>5, <1>6, <1>8, <2>2
    <3>2. flips' = [flips EXCEPT ![cur].shrank = @ + 1]
      BY <1>2, <1>3, <3>1
    <3>3. FlipLimit \in Nat
      BY LimitAssumption
    <3>4. Stuck(c)'
      BY <1>0, <1>2, <1>7, <3>1, <3>2, <3>3 DEF Stuck
    <3> QED
      BY <3>4 DEF ChosenHere
  <2>3. CASE fit = chosen[cur]
    <3>1. chosen[cur] < n => VariantFits(Here, cur, chosen[cur], 0)
      <4>1. SUFFICES ASSUME chosen[cur] < n PROVE VariantFits(Here, cur, chosen[cur], 0)
        OBVIOUS
      <4>2. fit \in ks
        BY <1>1, <1>3, <1>4, <2>3, <4>1, LeastOrIsLeast
      <4> QED
        BY <2>1, <2>3, <4>2
    <3>2. ASSUME FragAt(prog, cur).mode = Shrinking, NEW j \in 1 .. chosen[cur] - 1
          PROVE  ~VariantFits(Here, cur, j, 0)
      <4>1. SUFFICES ASSUME VariantFits(Here, cur, j, 0) PROVE FALSE
        OBVIOUS
      <4>2. Lowest(cur) = 1
        BY <3>2 DEF Lowest
      <4>3. j \in ks
        BY <1>3, <2>1, <4>1, <4>2
      <4>4. fit <= j
        BY <1>1, <1>4, <4>3, LeastOrIsLeast
      <4> QED
        BY <1>3, <2>3, <4>4
    <3> HIDE DEF Here, Mode
    <3> QED
      BY <1>0, <2>1, <3>1, <3>2 DEF ChosenHere
  <2> QED
    BY <2>2, <2>3
<1>9. \A j \in Ids \ {cur} : flips'[j] = flips[j] /\ (j \in held' <=> j \in held)
  BY <1>2, <1>7
<1> QED
  BY <1>0, <1>2, <1>6, <1>8, <1>9, PickStep

(* A fragment with one candidate is where it belongs with it.              *)
LEMMA OneCandidate ==
    ASSUME TypeOK, NEW id \in Ids, ~IsRelaxable(prog, id), UNCHANGED <<prog, chosen>>
    PROVE  ChosenHere(id)'
<1>1. /\ Candidates(prog, id) \in Nat \ {0}
      /\ chosen[id] \in 1 .. Candidates(prog, id)
      /\ FragAt(prog, id) \in Fragment
  BY FragmentsOfProgram DEF TypeOK, Ids
<1>2. Candidates(prog, id) = 1
  <2>1. CASE FragAt(prog, id).kind = "bytes"
    <3>1. Candidates(prog, id) = Len(FragAt(prog, id).variants)
      BY <2>1 DEF Candidates
    <3>2. ~(Candidates(prog, id) > 1)
      BY <2>1, <3>1 DEF IsRelaxable
    <3> QED
      BY <1>1, <3>2
  <2>2. CASE FragAt(prog, id).kind # "bytes"
    BY <2>2 DEF Candidates
  <2> QED
    BY <2>1, <2>2
<1>3. chosen[id] = 1
  BY <1>1, <1>2
<1>4. prog' = prog /\ chosen'[id] = 1
  BY <1>3
<1> QED
  BY <1>2, <1>4 DEF ChosenHere

(* An alignment padded in an order walk.                                   *)
LEMMA RepadStep ==
    ASSUME SettlingInv, TypeOK', Repad
    PROVE  SettlingInv'
<1>1. PICK pad : pad = ComputeSize(Moved, cur, at)
  OBVIOUS
<1>2. PICK c : c = cur
  OBVIOUS
<1>3. /\ TypeOK /\ InOrderWalk /\ FragAt(prog, cur).kind = "align"
      /\ off' = [off EXCEPT ![cur] = at]
      /\ cached' = [cached EXCEPT ![cur] = pad] /\ Advance(pad)
      /\ UNCHANGED <<prog, chosen, ssize, addr, pc, pass, changed, memory, errors>>
      /\ cur \in Ids /\ cached \in [Ids -> Nat]
  BY <1>1 DEF Repad, SettlingInv, InOrderWalk, AtFragment, TypeOK
<1>4. /\ Here'.prog = prog /\ Here'.chosen = chosen /\ Here'.cached = cached'
      /\ Here.prog = prog /\ Here.chosen = chosen /\ Here.cached = cached
  BY <1>3 DEF Here
<1>5. FragSize(Here', cur) = pad
  BY <1>3, <1>4 DEF FragSize
<1>6. \A j \in Ids \ {cur} : FragSize(Here', j) = FragSize(Here, j)
  BY <1>3, <1>4 DEF FragSize
<1>7. ASSUME ~changed PROVE cached' = cached
  BY <1>1, <1>3, <1>7, NothingHasMoved DEF SizedHere
<1>8. ChosenHere(c)'
  BY <1>2, <1>3, OneCandidate DEF IsRelaxable
<1>9. UNCHANGED <<flips, held>>
  BY <1>3 DEF memory
<1> QED
  BY <1>2, <1>3, <1>5, <1>6, <1>7, <1>8, <1>9, WalkStep

(* Any other fragment that keeps the size it has.                          *)
LEMMA MoveStep ==
    ASSUME SettlingInv, TypeOK', MoveOnly
    PROVE  SettlingInv'
<1>1. PICK size : size = FragSize(Here, cur)
  OBVIOUS
<1>2. PICK c : c = cur
  OBVIOUS
<1>3. /\ TypeOK /\ InOrderWalk
      /\ ~IsRelaxable(prog, cur) \/ IsHeld(cur)
      /\ off' = [off EXCEPT ![cur] = at] /\ Advance(size)
      /\ UNCHANGED <<prog, chosen, cached, ssize, addr, pc, pass, changed, memory, errors>>
      /\ cur \in Ids
  BY <1>1 DEF MoveOnly, SettlingInv, InOrderWalk, AtFragment
<1>4. \A j : FragSize(Here', j) = FragSize(Here, j)
  BY <1>3 DEF FragSize, Here
<1>5. UNCHANGED <<flips, held>> /\ Mode' = Mode
  BY <1>3 DEF memory, Mode
<1>6. ChosenHere(c)'
  <2>1. CASE ~IsRelaxable(prog, cur)
    BY <1>2, <1>3, <2>1, OneCandidate
  <2>2. CASE IsHeld(cur)
    BY <1>2, <1>5, <2>2 DEF IsHeld, EachPass, Shrinking, ChosenHere
  <2> QED
    BY <1>3, <2>1, <2>2
<1> QED
  BY <1>1, <1>2, <1>3, <1>4, <1>5, <1>6, WalkStep

(* A walk in address order at the end of a section.                        *)
LEMMA WalkClose ==
    ASSUME SettlingInv, TypeOK', EndOfWalk
    PROVE  SettlingInv'
<1>1. /\ TypeOK /\ pc = "relax" /\ Mode # FromLastPass /\ ~AtFragment /\ cur \notin Ids
      /\ CloseSection("decide") /\ ResizeSection
      /\ UNCHANGED <<prog, chosen, cached, off, addr, pass, memory, errors>>
  BY DEF SettlingInv, EndOfWalk, AtFragment, CloseSection
<1>2. /\ cur \in Positions(prog)
      /\ at = EndBefore(Here, cur)
      /\ \A l \in Positions(prog) : l # cur => Meets(Here, l)
      /\ ~changed => /\ Addressed
                     /\ \A id \in Ids : SizedHere(id) /\ (Behind(id, cur) => ChosenHere(id))
  BY <1>1 DEF SettlingInv, RelaxWalk
<1>3. /\ Meets(Here', cur)
      /\ \A l \in Positions(prog) : l # cur => Meets(Here', l) = Meets(Here, l)
      /\ ~changed' => ~changed /\ UNCHANGED layout
  BY <1>1, <1>2, ClosingSection DEF Meets
<1>4. \A l \in Positions(prog) : Meets(Here', l)
  BY <1>2, <1>3
<1>5. Ids' = Ids /\ Mode' = Mode /\ Ids \subseteq Positions(prog)
  BY <1>1, FragmentsArePositions DEF Ids, Mode
<1>6. ASSUME ~changed'
      PROVE  /\ Addressed'
             /\ \A id \in Ids : SizedHere(id)' /\ (Behind(id, cur) => ChosenHere(id)')
  BY <1>1, <1>2, <1>3, <1>6, AddressesStay, FragmentsStay DEF layout
<1>7. CASE /\ pc' = pc /\ cur' \in Positions(prog) /\ at' = 0
           /\ \A L : EndBefore(L, cur') = 0
           /\ \A l \in Positions(prog) : Behind(l, cur') <=> Behind(l, cur) \/ l = cur
  BY <1>1, <1>4, <1>5, <1>6, <1>7 DEF RelaxWalk, SettlingInv, AddressWalk, IsPlacing,
     BeforeWalk, OffsetWalk, EndOfPass, AfterPasses
<1>8. CASE /\ pc' = "decide" /\ cur' = <<1, 1>>
           /\ \A l \in Positions(prog) : Behind(l, cur) \/ l = cur
  <2>1. IsLayout(Here') /\ Here'.prog = prog
    <3>1. TypeOK' => IsLayout(Here)'
      BY HereIsLayout, PTL
    <3> QED
      BY <1>1, <3>1 DEF IsLayout, Here
  <2>2. \A l \in Positions(prog) : Trails(Here', l)
    BY <1>4, <2>1, PositionsAreNatural DEF Meets, Trails
  <2>3. ~changed' => Settled'
    BY <1>1, <1>4, <1>5, <1>6, <1>8 DEF Settled
  <2>4. EndOfPass'
    BY <1>1, <1>8, <2>2, <2>3 DEF EndOfPass
  <2> QED
    BY <1>8, <2>4 DEF SettlingInv, AddressWalk, IsPlacing, BeforeWalk, OffsetWalk, RelaxWalk,
                      AfterPasses
<1> QED
  BY <1>1, <1>2, <1>7, <1>8, NextSection

-----------------------------------------------------------------------------
(* Between the walks.                                                      *)

(* assign_addresses starts with no section placed.                         *)
LEMMA WalkStarts ==
    ASSUME TypeOK, cur = <<1, 1>>, at = prog.base
    PROVE  AddressWalk
BY SectionsAreNumbered DEF Placed, AddressWalk, EndOf, Apart

(* The end of a pass, and what `finish' does with a layout that settled.   *)
LEMMA DecisionSteps ==
    ASSUME SettlingInv, TypeOK', Settle \/ NextPass \/ GiveUp \/ PlaceImage \/ ApplyFixups
    PROVE  SettlingInv'
<1>1. UNCHANGED <<prog, layout, cur, changed, memory>> /\ errors \subseteq errors'
  BY DEF Settle, NextPass, GiveUp, PlaceImage, ApplyFixups
<1>2. Settled => Settled'
  BY <1>1, SettledStays
<1>3. pc \in {"decide", "settled"} =>
        /\ cur' = <<1, 1>>
        /\ \A l \in Positions(prog') : Trails(Here', l)
        /\ pc = "settled" \/ ~changed => Settled'
  BY <1>1, <1>2, HereStays DEF SettlingInv, EndOfPass
<1>4. cur' = <<1, 1>> /\ at' = prog'.base => AddressWalk'
  <2>1. TypeOK' /\ (cur = <<1, 1>>)' /\ (at = prog.base)' => AddressWalk'
    BY WalkStarts, PTL
  <2> QED
    BY <2>1
<1>5. CASE Settle
  <2>1. pc = "decide" /\ pc' = "settled" /\ ~changed
    BY <1>5 DEF Settle
  <2> QED
    BY <1>3, <2>1 DEF SettlingInv, AddressWalk, IsPlacing, BeforeWalk, OffsetWalk,
                      RelaxWalk, EndOfPass, AfterPasses
<1>6. CASE NextPass
  BY <1>3, <1>4, <1>6 DEF NextPass, SettlingInv, BeforeWalk, OffsetWalk, RelaxWalk, EndOfPass,
     AfterPasses
<1>7. CASE GiveUp
  <2>1. pc' = "failed"
    BY <1>7 DEF GiveUp
  <2> QED
    BY <2>1 DEF SettlingInv, AddressWalk, IsPlacing, BeforeWalk, OffsetWalk, RelaxWalk,
                EndOfPass, AfterPasses
<1>8. CASE PlaceImage
  BY <1>3, <1>4, <1>8 DEF PlaceImage, SettlingInv, BeforeWalk, OffsetWalk, RelaxWalk,
     EndOfPass, AfterPasses
<1>9. CASE ApplyFixups
  <2>1. pc = "report" /\ pc' = "done"
    BY <1>9 DEF ApplyFixups
  <2>2. Settled'
    BY <1>2, <2>1 DEF SettlingInv, AfterPasses
  <2> QED
    BY <2>1, <2>2 DEF SettlingInv, AddressWalk, IsPlacing, BeforeWalk, OffsetWalk,
                      RelaxWalk, EndOfPass, AfterPasses
<1> QED
  BY <1>5, <1>6, <1>7, <1>8, <1>9

(* Sections that are added come after the ones there were, which keep      *)
(* their fragments.                                                        *)
LEMMA EmittedSections ==
    ASSUME TypeOK, Emit
    PROVE  /\ Sections \subseteq Sections'
           /\ \A s \in Sections : prog'.sections[s] = prog.sections[s]
<1> DEFINE new == Head(prog.late)
           old == prog.sections
<1>1. /\ old \in Seq(Section) /\ old # <<>>
      /\ prog.late \in Seq(Seq(Section)) /\ prog.late # <<>>
      /\ prog \in Program
  BY DEF TypeOK, Program, Emit, Emits
<1>2. new \in Seq(Section)
  BY <1>1
<1>3. prog'.sections = old \o new
  BY <1>1 DEF Emit, Program
<1> HIDE DEF old, new
<1>4. \A s \in DOMAIN old : s \in DOMAIN (old \o new) /\ (old \o new)[s] = old[s]
  BY <1>1, <1>2, AppendingKeepsElements, Zenon
<1> QED
  BY <1>3, <1>4 DEF Sections, old

(* emit_layout_records: the layout starts over from the one it left, with  *)
(* the new fragments where they trail.                                     *)
LEMMA EmitStep ==
    ASSUME SettlingInv, TypeOK', Emit
    PROVE  SettlingInv'
<1>1. /\ TypeOK /\ prog \in Program /\ prog' \in Program
      /\ pc = "settled" /\ pc' = "addresses" /\ at' = prog'.base /\ cur' = cur
  BY EmitExtends DEF SettlingInv, Emit, TypeOK
<1>2. cur = <<1, 1>> /\ \A l \in Positions(prog) : Trails(Here, l)
  BY <1>1 DEF SettlingInv, EndOfPass
<1>3. /\ Ids \subseteq Ids'
      /\ \A id \in Ids : FragAt(prog', id) = FragAt(prog, id)
      /\ Sections \subseteq Sections'
      /\ \A s \in Sections : prog'.sections[s] = prog.sections[s]
  BY <1>1, EmitExtends, EmittedSections
<1>4. /\ chosen' = [id \in Ids' |-> IF id \in Ids THEN chosen[id] ELSE 1]
      /\ cached' = [id \in Ids' |-> IF id \in Ids THEN cached[id] ELSE FirstSize(prog', id)]
      /\ off' = [id \in Ids' |-> IF id \in Ids THEN off[id] ELSE 0]
      /\ ssize' = [s \in Sections' |-> IF s \in Sections THEN ssize[s] ELSE 0]
  BY <1>1 DEF Emit, Extend, TypeOK
<1>5. IsLayout(Here') /\ Here'.prog = prog'
  <2>1. TypeOK' => IsLayout(Here)'
    BY HereIsLayout, PTL
  <2> QED
    BY <2>1 DEF IsLayout, Here
<1>6. /\ Here'.off = off' /\ Here'.ssize = ssize' /\ Here'.chosen = chosen'
      /\ Here'.cached = cached'
      /\ Here.prog = prog /\ Here.off = off /\ Here.ssize = ssize
      /\ Here.chosen = chosen /\ Here.cached = cached
  BY DEF Here
<1>7. \A id \in Ids : FragEnd(Here', id) = FragEnd(Here, id)
  BY <1>3, <1>4, <1>5, <1>6 DEF FragEnd, FragSize
<1>8. ASSUME NEW l \in Positions(prog') PROVE Trails(Here', l)
  <2>1. /\ l \in Nat \X Nat /\ l[1] \in Sections' /\ l = <<l[1], l[2]>>
        /\ l[2] \in 1 .. NumFrags(prog', l[1]) + 1
        /\ l \in Ids' <=> l[2] # NumFrags(prog', l[1]) + 1
        /\ l[2] # 1 => <<l[1], l[2] - 1>> \in Ids'
    BY <1>1, PositionsOfProgram DEF Sections, Ids
  <2>2. CASE l[1] \in Sections
    <3>1. NumFrags(prog', l[1]) = NumFrags(prog, l[1])
      BY <1>3, <2>2 DEF NumFrags
    <3>2. l \in Positions(prog)
      BY <2>1, <2>2, <3>1 DEF Positions, Sections
    <3>3. /\ l \in Ids <=> l[2] # NumFrags(prog, l[1]) + 1
          /\ l[2] # 1 => <<l[1], l[2] - 1>> \in Ids
      BY <1>1, <3>2, PositionsOfProgram DEF Ids
    <3>4. LabelOffset(Here', l) = LabelOffset(Here, l)
      BY <1>3, <1>4, <1>5, <1>6, <2>1, <2>2, <3>1, <3>3 DEF LabelOffset, Ids
    <3>5. EndBefore(Here', l) = EndBefore(Here, l)
      BY <1>7, <3>3 DEF EndBefore
    <3> QED
      BY <1>2, <3>2, <3>4, <3>5 DEF Trails
  <2>3. CASE l[1] \notin Sections
    BY <1>1, <1>4, <1>5, <1>6, <2>1, <2>3, FragmentsOfProgram, PositionsAreNatural DEF Ids,
       Sections, LabelOffset, Trails
  <2> QED
    BY <2>2, <2>3
<1>9. AddressWalk'
  <2>1. TypeOK' /\ (cur = <<1, 1>>)' /\ (at = prog.base)' => AddressWalk'
    BY WalkStarts, PTL
  <2> QED
    BY <1>1, <1>2, <2>1
<1> QED
  BY <1>1, <1>8, <1>9 DEF SettlingInv, BeforeWalk, OffsetWalk, RelaxWalk, EndOfPass, AfterPasses

(* Before the first pass every fragment is at the start of its section.    *)
LEMMA InitialSettling == Init => SettlingInv
<1> SUFFICES ASSUME Init PROVE SettlingInv
  OBVIOUS
<1>1. TypeOK /\ prog \in Program /\ IsLayout(Here) /\ Here.prog = prog
  BY InitialTypes, HereIsLayout DEF TypeOK, Here
<1>2. AddressWalk
  BY <1>1, WalkStarts DEF Init
<1>3. ASSUME NEW l \in Positions(prog) PROVE Trails(Here, l)
  <2>1. l[1] \in Sections
    BY <1>1, PositionsOfProgram DEF Sections
  <2>2. LabelOffset(Here, l) = 0
    BY <2>1 DEF LabelOffset, Here, Init, Ids
  <2>3. EndBefore(Here, l) \in Nat
    BY <1>1, PositionsAreNatural
  <2> QED
    BY <2>2, <2>3 DEF Trails
<1> QED
  BY <1>1, <1>2, <1>3 DEF SettlingInv, BeforeWalk, OffsetWalk, RelaxWalk, EndOfPass,
                          AfterPasses, Init

-----------------------------------------------------------------------------
(* In every state a pass has established what the code computed of it.     *)
THEOREM SettlingInvariant == Spec => []SettlingInv
<1>1. Init => SettlingInv
  BY InitialSettling
<1>2. SettlingInv /\ TypeOK' /\ [Next]_vars => SettlingInv'
  <2> SUFFICES ASSUME SettlingInv, TypeOK', [Next]_vars PROVE SettlingInv'
    OBVIOUS
  <2>1. CASE AssignAddress \/ NextRound \/ EndOfAddresses
    BY <2>1, AddressSteps
  <2>2. CASE PlaceFragment
    BY <2>2, OffsetStep
  <2>3. CASE EndOfOffsets
    BY <2>3, OffsetClose
  <2>4. CASE GrowFragment
    BY <2>4, GrowthStep
  <2>5. CASE EndOfGrowth
    BY <2>5, GrowthClose
  <2>6. CASE GrowInOrder
    BY <2>6, GrowInOrderStep
  <2>7. CASE RepickEachPass
    BY <2>7, RepickEachPassStep
  <2>8. CASE Repick
    BY <2>8, RepickStep
  <2>9. CASE Repad
    BY <2>9, RepadStep
  <2>10. CASE MoveOnly
    BY <2>10, MoveStep
  <2>11. CASE EndOfWalk
    BY <2>11, WalkClose
  <2>12. CASE Settle \/ NextPass \/ GiveUp \/ PlaceImage \/ ApplyFixups
    BY <2>12, DecisionSteps
  <2>13. CASE Emit
    BY <2>13, EmitStep
  <2>14. CASE UNCHANGED vars
    <3>1. UNCHANGED <<prog, layout, pc, cur, at, changed, memory, errors>>
      BY <2>14 DEF vars, walk
    <3>2. /\ Here' = Here /\ Ids' = Ids /\ Sections' = Sections /\ Rounds' = Rounds
          /\ Mode' = Mode /\ NoOrigins' = NoOrigins /\ Placed(cur)' = Placed(cur)
      BY <3>1, HereStays DEF Ids, Sections, Rounds, Mode, NoOrigins, Placed
    <3>3. /\ Addressed' = Addressed
          /\ \A s \in Sections : InPlace(s)' = InPlace(s)
          /\ \A ss : Apart(ss)' = Apart(ss) /\ EndOf(ss)' = EndOf(ss)
      BY <3>1, AddressesStay DEF layout
    <3>4. \A id : (SizedHere(id) => SizedHere(id)') /\ ChosenHere(id)' = ChosenHere(id)
      BY <3>1, FragmentsStay
    <3>5. AddressWalk'
      <4>1. PICK ss : ss = Placed(cur)
        OBVIOUS
      <4>2. Placed(cur)' = ss /\ ss \subseteq Sections
        BY <3>2, <4>1 DEF Placed
      <4>3. Apart(Placed(cur))' = Apart(ss)' /\ EndOf(Placed(cur))' = EndOf(ss)'
        BY <4>2 DEF Apart, EndOf, LastOf
      <4> QED
        BY <3>1, <3>2, <3>3, <4>1, <4>2, <4>3 DEF SettlingInv, AddressWalk, IsPlacing, layout
    <3>6. BeforeWalk' /\ OffsetWalk' /\ RelaxWalk'
      BY <3>1, <3>2, <3>3, <3>4 DEF SettlingInv, BeforeWalk, OffsetWalk, RelaxWalk
    <3>7. Settled => Settled'
      BY <3>1, SettledStays
    <3>8. EndOfPass' /\ AfterPasses'
      BY <3>1, <3>2, <3>7 DEF SettlingInv, EndOfPass, AfterPasses
    <3> QED
      BY <3>5, <3>6, <3>8 DEF SettlingInv
  <2>15. CASE Stop
    BY <2>14, <2>15 DEF Stop
  <2> QED
    BY <2>1, <2>2, <2>3, <2>4, <2>5, <2>6, <2>7, <2>8, <2>9, <2>10, <2>11, <2>12, <2>13,
       <2>14, <2>15 DEF Next
<1>3. Spec => []TypeOK
  BY TypeCorrect
<1> QED
  BY <1>1, <1>2, <1>3, PTL DEF Spec

-----------------------------------------------------------------------------
(* What the layout that is handed on is worth.                             *)

(* A layout that settled is the one its own offsets and sizes give.        *)
LEMMA SettledIsConsistent ==
    ASSUME TypeOK, Settled
    PROVE  Contiguous(Here) /\ SizesAgree(Here) /\ AddressesAgree(Here)
<1>1. /\ prog \in Program /\ Here.prog = prog /\ Here.off = off /\ Here.ssize = ssize
      /\ Here.chosen = chosen /\ Here.cached = cached /\ Here.addr = addr
  BY DEF TypeOK, Here
<1>2. Contiguous(Here)
  <2>1. ASSUME NEW id \in FragIds(prog)
        PROVE  off[id] = IF id[2] = 1 THEN 0 ELSE FragEnd(Here, <<id[1], id[2] - 1>>)
    BY <1>1, PositionsOfFragment DEF Settled, Meets, LabelOffset, EndBefore
  <2>2. ASSUME NEW s \in DOMAIN prog.sections
        PROVE  LET n == NumFrags(prog, s)
               IN  ssize[s] = IF n = 0 THEN 0 ELSE FragEnd(Here, <<s, n>>)
    <3>1. PICK n \in Nat : n = NumFrags(prog, s)
      BY <1>1, PositionsOfSection
    <3>2. PICK l \in Positions(prog) : l = <<s, n + 1>>
      BY <1>1, <3>1, PositionsOfSection
    <3>3. l \notin FragIds(prog)
      BY <1>1, <3>1, <3>2, PositionsOfProgram
    <3>4. LabelOffset(Here, l) = EndBefore(Here, l)
      BY DEF Settled, Meets
    <3>5. ssize[s] = EndBefore(Here, l)
      BY <1>1, <3>2, <3>3, <3>4 DEF LabelOffset
    <3>6. EndBefore(Here, l) = IF n = 0 THEN 0 ELSE FragEnd(Here, <<s, n>>)
      BY <3>2 DEF EndBefore
    <3> QED
      BY <3>1, <3>5, <3>6
  <2> QED
    BY <1>1, <2>1, <2>2 DEF Contiguous
<1>3. SizesAgree(Here)
  BY <1>1 DEF Settled, SizedHere, SizesAgree, Ids
<1>4. AddressesAgree(Here)
  <2>1. \A s \in Sections : InPlace(s)
    BY DEF Settled, Addressed
  <2>2. ASSUME NEW s \in DOMAIN Here.prog.sections
        PROVE  LET earlier == {t \in DOMAIN Here.prog.sections : Before(Here.prog, t, s)}
                   last == CHOOSE t \in earlier :
                              \A u \in earlier : u # t => Before(Here.prog, u, t)
               IN  Here.addr[s] = Base(Here, s, IF earlier = {} THEN Here.prog.base
                                                ELSE Here.addr[last] + Here.ssize[last])
    <3> DEFINE earlier == {t \in DOMAIN Here.prog.sections : Before(Here.prog, t, s)}
               last == CHOOSE t \in earlier :
                          \A u \in earlier : u # t => Before(Here.prog, u, t)
    <3>1. earlier = Earlier(s)
      BY <1>1 DEF Earlier, Sections
    <3> HIDE DEF earlier
    <3>2. last = LastOf(Earlier(s))
      BY <1>1, <3>1 DEF LastOf
    <3> HIDE DEF last
    <3>3. addr[s] = Base(Here, s, EndOf(Earlier(s)))
      BY <1>1, <2>1 DEF InPlace, Sections
    <3>4. Here.addr[s] = Base(Here, s, IF earlier = {} THEN Here.prog.base
                                       ELSE Here.addr[last] + Here.ssize[last])
      <4> HIDE DEF Here
      <4> QED
        BY <1>1, <3>1, <3>2, <3>3 DEF EndOf
    <3> QED
      BY <3>4, Zenon DEF earlier, last
  <2> HIDE DEF Here
  <2> QED
    BY <2>2, Zenon DEF AddressesAgree
<1> QED
  BY <1>2, <1>3, <1>4

(* No fragment was kept from being re-picked: repick's guard against flips *)
(* stopped none, and repick_each_pass settled early on none but the last   *)
(* candidate of a fragment.                                                *)
FreelyPicked ==
    \A id \in Ids : ~Stuck(id) /\ (id \in held => chosen[id] = Candidates(prog, id))

(* Every instruction of it reaches, or is as large as it can be.           *)
LEMMA SettledReaches ==
    ASSUME TypeOK, Settled, FreelyPicked
    PROVE  Reaching(Here)
<1>1. ASSUME NEW id \in Ids, chosen[id] < Candidates(prog, id)
      PROVE  VariantFits(Here, id, chosen[id], 0)
  BY <1>1 DEF Settled, FreelyPicked, TypeOK, ChosenHere
<1> QED
  BY <1>1 DEF Reaching, Ids, Here

(* settle_layout leaves its loop with a fixed point: offsets, computed     *)
(* sizes, addresses and candidates are the ones the rules give in the very *)
(* layout they make, wherever no guard overrules the choice of a size.     *)
THEOREM SettledLayoutIsFixed == Spec => [](FreelyPicked => SettledIsFixed)
<1>1. SettlingInv => (FreelyPicked => SettledIsFixed)
  BY SettledIsConsistent, SettledReaches DEF SettlingInv, EndOfPass, AfterPasses,
                                                   SettledIsFixed, IsFixed
<1> QED
  BY <1>1, SettlingInvariant, PTL

(* Even where a guard overrules it, the offsets, sizes and addresses of    *)
(* what settles are the ones the chosen candidates make.                   *)
THEOREM SettledLayoutIsConsistent ==
    Spec => [](pc \in {"settled", "done"} =>
                  Contiguous(Here) /\ SizesAgree(Here) /\ AddressesAgree(Here))
<1> DEFINE Consistent ==
              pc \in {"settled", "done"} =>
                  Contiguous(Here) /\ SizesAgree(Here) /\ AddressesAgree(Here)
<1>1. SettlingInv => Consistent
  BY SettledIsConsistent DEF SettlingInv, EndOfPass, AfterPasses
<1> QED
  BY <1>1, SettlingInvariant, PTL

(* What is wrong with a computed size in the final layout has been told.   *)
THEOREM ErrorsAreTold == Spec => []NoErrorMissed
<1>1. SettlingInv => NoErrorMissed
  BY DEF SettlingInv, AfterPasses, Settled, SizedHere, NoErrorMissed
<1> QED
  BY <1>1, SettlingInvariant, PTL

(* Under repick what settles is the smallest candidate that reaches.       *)
THEOREM SettledFragmentsAreSmallest == Spec => []SettledIsSmallestFit
<1>1. SettlingInv => SettledIsSmallestFit
  BY DEF SettlingInv, EndOfPass, Settled, ChosenHere, Stuck, SettledIsSmallestFit
<1> QED
  BY <1>1, SettlingInvariant, PTL

(* No two sections of a flat image claim the same bytes.                   *)
THEOREM ImageSectionsAreDisjoint == Spec => []SectionsDisjoint
<1>1. SettlingInv => SectionsDisjoint
  <2>1. SUFFICES ASSUME SettlingInv, pc \in {"settled", "done"}, NoOrigins,
                        NEW s \in Sections, NEW t \in Sections, s # t
                 PROVE  \/ addr[s] + ssize[s] <= addr[t]
                        \/ addr[t] + ssize[t] <= addr[s]
    BY DEF SectionsDisjoint, NoOrigins
  <2>2. TypeOK /\ Apart(Sections)
    BY <2>1 DEF SettlingInv, EndOfPass, AfterPasses, Settled, Addressed
  <2>3. Before(prog, s, t) \/ Before(prog, t, s)
    BY <2>1, <2>2, SectionsAreNumbered DEF Round, Before
  <2> QED
    BY <2>1, <2>2, <2>3 DEF Apart
<1> QED
  BY <1>1, SettlingInvariant, PTL

(* Only the two strategies that may shrink remember anything.              *)
Forgetful ==
    /\ Mode # EachPass => held = {}
    /\ Mode # Shrinking => \A id \in Ids : flips[id].shrank = 0

(* No other step touches what is remembered.                               *)
LEMMA OnlyRepickRemembers ==
    ASSUME Forgetful, [Next]_vars
    PROVE  Forgetful'
<1>1. CASE prog' = prog /\ memory' = memory
  BY <1>1 DEF Forgetful, Mode, Ids, memory
<1>2. CASE RepickEachPass
  BY <1>2 DEF RepickEachPass, Pick, Forgetful, Mode, Ids
<1>3. CASE Repick
  BY <1>3 DEF Repick, Pick, Forgetful, Mode
<1>4. CASE Emit
  BY <1>4 DEF Emit, Forgetful
<1>5. ASSUME Next, ~RepickEachPass, ~Repick, ~Emit PROVE prog' = prog /\ memory' = memory
  BY <1>5 DEF Next, AssignAddress, NextRound, EndOfAddresses, PlaceFragment, EndOfOffsets,
              GrowFragment, EndOfGrowth, GrowInOrder, Repad, MoveOnly, EndOfWalk, Settle,
              NextPass, GiveUp, PlaceImage, ApplyFixups, Stop, Pick, vars
<1>6. UNCHANGED vars => prog' = prog /\ memory' = memory
  BY DEF vars
<1> QED
  BY <1>1, <1>2, <1>3, <1>4, <1>5, <1>6

(* Where sizes only grow no guard ever overrules a choice, so whatever the *)
(* program, what settles is a fixed point.                                 *)
THEOREM GrowingLayoutIsFixed == Spec => [](GrowingMode => SettledIsFixed)
<1>1. Init => Forgetful
  BY DEF Init, Forgetful
<1>2. Forgetful /\ [Next]_vars => Forgetful'
  BY OnlyRepickRemembers
<1>3. Forgetful /\ GrowingMode => FreelyPicked
  BY LimitAssumption DEF Forgetful, GrowingMode, FreelyPicked, Stuck, FromLastPass, InOrder,
     EachPass, Shrinking
<1> QED
  BY <1>1, <1>2, <1>3, SettledLayoutIsFixed, PTL DEF Spec

-----------------------------------------------------------------------------
(***************************************************************************)
(* The smallest layout.  While candidates only grow, none outgrows the one *)
(* that any layout in which every form reaches has for that fragment: for  *)
(* it to be passed, it would have to fail where in that other layout it    *)
(* reaches, and there everything is at least as far away.                  *)
(***************************************************************************)

(* The position a label denotes.                                           *)
PositionOf(p, l) == IF l \in FragIds(p) THEN l ELSE <<l[1], NumFrags(p, l[1]) + 1>>

OneLabel(ls) == \A l, m \in ls : l = m

(* What sizes differ by where every one is a number of steps of g bytes    *)
(* from the next: by parcels of an instruction set, or by bytes.           *)
Steps(g) == {n * g : n \in Nat}

InSteps(p, g) ==
    \A id \in FragIds(p) : \A j, k \in 1 .. Candidates(p, id) :
        FragAt(p, id).kind = "bytes" /\ j <= k =>
            FragAt(p, id).variants[k].len - FragAt(p, id).variants[j].len \in Steps(g)

(* A form that holds the value of a distance also holds that of every      *)
(* shorter one the sizes can bring about, where no distance at all has the *)
(* value "base" and a byte more changes it by "sign".                      *)
HoldsNearer(x, base, sign, g) ==
    \A d \in Nat : \A e \in 0 .. d :
        d - e \in Steps(g) /\ Holds(x, base + sign * d) => Holds(x, base + sign * e)

(* "A form that reaches a target also reaches every nearer one", for field *)
(* x of candidate k: a target ahead is measured from the candidate's end,  *)
(* one behind from its start, and a distance between labels from one to    *)
(* the other.                                                              *)
ReachesNearer(p, id, k, x, g) ==
    LET e == x.expr
        l == PositionOf(p, CHOOSE m \in e.plus : TRUE)
        m == PositionOf(p, CHOOSE m \in e.minus : TRUE)
        from == e.add - x.at - x.adjust
    IN  /\ OneLabel(e.plus) /\ OneLabel(e.minus)
        /\ x.pcrel => /\ x.pcAlign = 1
                      /\ IF l[2] > id[2]
                         THEN HoldsNearer(x, from + FragAt(p, id).variants[k].len, 1, g)
                         ELSE HoldsNearer(x, from, -1, g)
        /\ ~x.pcrel => HoldsNearer(x, e.add, IF l[2] >= m[2] THEN 1 ELSE -1, g)

(* Which fields of an object the assembler fills in with a distance.       *)
IsDistance(p, id, x) ==
    /\ HasAddress(p, x.expr)
    /\ x.expr.plus # {}
    /\ x.pcrel => ~PcrelIsRelocated(x, id)
    /\ ~x.pcrel => x.expr.minus # {} /\ ~DistanceIsRelocated(p, x)

ReachedInSteps(p, g) ==
    /\ InSteps(p, g)
    /\ \A id \in FragIds(p) : \A k \in 1 .. Candidates(p, id) - 1 :
           FragAt(p, id).kind = "bytes" =>
               \A i \in DOMAIN FragAt(p, id).variants[k].fixups :
                   LET x == FragAt(p, id).variants[k].fixups[i]
                   IN  /\ ~IsAnchored(x, id)
                       /\ IsDistance(p, id, x) => ReachesNearer(p, id, k, x, g)

NearerIsReached(p) == \E g \in Nat : ReachedInSteps(p, g)

AllBytes(p) == \A id \in FragIds(p) : FragAt(p, id).kind = "bytes"

(* Code of backends that only grow, without padding.                       *)
AllGrow(p) == \A id \in FragIds(p) : FragAt(p, id).mode = FromLastPass

Straight(p) == p.relocatable /\ AllGrow(p) /\ AllBytes(p) /\ NearerIsReached(p)

-----------------------------------------------------------------------------
(* What holds of 0, and of n + 1 when it holds of n, holds of every        *)
(* natural.                                                                *)
LEMMA InductionBySets ==
    ASSUME NEW S, 0 \in S, \A n \in Nat : n \in S => n + 1 \in S
    PROVE  Nat \subseteq S
<1> DEFINE Less == {ss \in Nat \X Nat : ss[1] < ss[2]}
<1>1. IsWellFoundedOn(Less, Nat)
  BY Zenon, NatLessThanWellFounded DEF OpToRel
<1> HIDE DEF Less
<1>2. SUFFICES ASSUME Nat \ S # {} PROVE FALSE
  OBVIOUS
<1>3. PICK k \in Nat \ S : \A j \in Nat \ S : ~ (<<j, k>> \in Less)
  BY <1>1, <1>2, WFMin
<1>4. k # 0 /\ k - 1 \in Nat /\ k = (k - 1) + 1
  OBVIOUS
<1>5. k - 1 \notin S
  BY <1>4
<1>6. <<k - 1, k>> \in Less
  BY <1>4 DEF Less
<1> QED
  BY <1>3, <1>4, <1>5, <1>6

(* Steps add up.                                                           *)
LEMMA StepsAdd ==
    ASSUME NEW g \in Nat
    PROVE  /\ Steps(g) \subseteq Nat /\ 0 \in Steps(g)
           /\ \A x, y \in Steps(g) : x + y \in Steps(g)
<1>1. ASSUME NEW n \in Nat PROVE n * g \in Nat
  OBVIOUS
<1>2. 0 * g = 0
  OBVIOUS
<1>3. ASSUME NEW m \in Nat, NEW n \in Nat PROVE m * g + n * g = (m + n) * g /\ m + n \in Nat
  OBVIOUS
<1>4. ASSUME NEW x \in Steps(g), NEW y \in Steps(g) PROVE x + y \in Steps(g)
  <2>1. PICK m \in Nat, n \in Nat : x = m * g /\ y = n * g
    BY DEF Steps
  <2>2. x + y = (m + n) * g /\ m + n \in Nat
    BY <1>3, <2>1
  <2> QED
    BY <2>2 DEF Steps
<1>5. 0 \in Steps(g)
  BY <1>2, 0 \in Nat DEF Steps
<1> QED
  BY <1>1, <1>4, <1>5 DEF Steps

(* Positions of which neighbours are apart by steps less in one layout     *)
(* than in another are so however many lie between them.                   *)
LEMMA DistancesFollowGaps ==
    ASSUME NEW g \in Nat, NEW N \in Nat, NEW a, NEW b,
           \A i \in 1 .. N + 1 : a[i] \in Int /\ b[i] \in Int,
           \A i \in 1 .. N : a[i] <= a[i+1] /\ (b[i+1] - b[i]) - (a[i+1] - a[i]) \in Steps(g),
           NEW i \in 1 .. N + 1, NEW j \in 1 .. N + 1, i <= j
    PROVE  a[i] <= a[j] /\ (b[j] - b[i]) - (a[j] - a[i]) \in Steps(g)
<1> DEFINE S == {n \in Nat : i + n \in 1 .. N + 1 =>
                    a[i] <= a[i + n] /\ (b[i + n] - b[i]) - (a[i + n] - a[i]) \in Steps(g)}
<1>1. 0 \in S
  <2>1. i + 0 = i /\ a[i] \in Int /\ b[i] \in Int
    OBVIOUS
  <2>2. (b[i] - b[i]) - (a[i] - a[i]) = 0 /\ a[i] <= a[i]
    BY ONLY <2>1
  <2> QED
    BY <2>1, <2>2, StepsAdd
<1>2. ASSUME NEW n \in Nat, n \in S
      PROVE  n + 1 \in S
  <2>1. SUFFICES ASSUME i + (n + 1) \in 1 .. N + 1
                 PROVE  /\ a[i] <= a[i + (n + 1)]
                        /\ (b[i + (n + 1)] - b[i]) - (a[i + (n + 1)] - a[i]) \in Steps(g)
    OBVIOUS
  <2>2. PICK m \in 1 .. N : m = i + n
    BY <2>1
  <2>3. m + 1 = i + (n + 1) /\ m \in 1 .. N + 1 /\ m + 1 \in 1 .. N + 1
    BY <2>2
  <2>4. a[i] <= a[m] /\ (b[m] - b[i]) - (a[m] - a[i]) \in Steps(g)
    BY <1>2, <2>2, <2>3
  <2>5. a[m] <= a[m + 1] /\ (b[m + 1] - b[m]) - (a[m + 1] - a[m]) \in Steps(g)
    OBVIOUS
  <2>6. /\ a[i] \in Int /\ a[m] \in Int /\ a[m + 1] \in Int
        /\ b[i] \in Int /\ b[m] \in Int /\ b[m + 1] \in Int
    BY <2>3
  <2>7. /\ a[i] <= a[m + 1]
        /\ (b[m + 1] - b[i]) - (a[m + 1] - a[i])
             = ((b[m] - b[i]) - (a[m] - a[i])) + ((b[m + 1] - b[m]) - (a[m + 1] - a[m]))
    BY ONLY <2>4, <2>5, <2>6
  <2>8. (b[m + 1] - b[i]) - (a[m + 1] - a[i]) \in Steps(g)
    BY <2>4, <2>5, <2>7, StepsAdd
  <2> QED
    BY <2>3, <2>7, <2>8
<1> HIDE DEF S
<1>3. Nat \subseteq S
  BY <1>1, <1>2, InductionBySets
<1>4. j - i \in Nat /\ i + (j - i) = j
  OBVIOUS
<1>5. j - i \in S
  BY <1>3, <1>4
<1> QED
  BY <1>4, <1>5 DEF S

-----------------------------------------------------------------------------
(* The layout of a choice.  Its offsets are the values of a recursive      *)
(* function, which is shown to exist by induction.                         *)
SizeIn(p, c, id, start) ==
    IF FragAt(p, id).kind = "bytes"
    THEN FragAt(p, id).variants[c[id]].len
    ELSE Padding(FragAt(p, id).align, FragAt(p, id).maxSkip, start)

AreStarts(g, p, c, s, n) ==
    g = [f \in 1 .. n + 1 |-> IF f = 1 THEN 0 ELSE g[f-1] + SizeIn(p, c, <<s, f-1>>, g[f-1])]

(* Whatever the choices, there is such a function.                         *)
LEMMA StartsExist ==
    ASSUME NEW p, NEW c, NEW s, NEW last \in Nat
    PROVE  \E g : AreStarts(g, p, c, s, last)
<1> DEFINE S == {n \in Nat : \E g : AreStarts(g, p, c, s, n)}
<1>1. 0 \in S
  <2>1. AreStarts([f \in 1 .. 0 + 1 |-> 0], p, c, s, 0)
    BY DEF AreStarts
  <2> QED
    BY <2>1
<1>2. ASSUME NEW n \in Nat, n \in S
      PROVE  n + 1 \in S
  <2>1. PICK g : AreStarts(g, p, c, s, n)
    BY <1>2
  <2> DEFINE value == g[n + 1] + SizeIn(p, c, <<s, n + 1>>, g[n + 1])
             h == [f \in 1 .. (n + 1) + 1 |-> IF f = n + 2 THEN value ELSE g[f]]
  <2>2. ASSUME NEW f \in 1 .. (n + 1) + 1
        PROVE  h[f] = IF f = 1 THEN 0 ELSE h[f-1] + SizeIn(p, c, <<s, f-1>>, h[f-1])
    <3>1. CASE f = n + 2
      BY <3>1
    <3>2. CASE f # n + 2
      BY <2>1, <3>2 DEF AreStarts
    <3> QED
      BY <3>1, <3>2
  <2>3. h = [f \in 1 .. (n + 1) + 1 |-> h[f]]
    OBVIOUS
  <2> HIDE DEF h
  <2>4. AreStarts(h, p, c, s, n + 1)
    BY <2>2, <2>3 DEF AreStarts
  <2> QED
    BY <2>4
<1> HIDE DEF S
<1>3. Nat \subseteq S
  BY <1>1, <1>2, InductionBySets
<1> QED
  BY <1>3 DEF S

StartsOf(p, c, s) == CHOOSE g : AreStarts(g, p, c, s, NumFrags(p, s))

AllStarts(p, c) == [s \in DOMAIN p.sections |-> StartsOf(p, c, s)]

(* The fields of the layout of a choice.                                   *)
LEMMA FieldsOfLayout ==
    ASSUME NEW p, NEW c
    PROVE  /\ LayoutOf(p, c).prog = p
           /\ LayoutOf(p, c).chosen = c
           /\ \A id \in FragIds(p) : LayoutOf(p, c).off[id] = AllStarts(p, c)[id[1]][id[2]]
           /\ \A s \in DOMAIN p.sections :
                 /\ LayoutOf(p, c).ssize[s] = AllStarts(p, c)[s][NumFrags(p, s) + 1]
                 /\ LayoutOf(p, c).addr[s] = 0
<1>1. LayoutOf(p, c).prog = p /\ LayoutOf(p, c).chosen = c
  BY DEF LayoutOf
<1>2. LayoutOf(p, c).off = [id \in FragIds(p) |-> AllStarts(p, c)[id[1]][id[2]]]
  BY DEF LayoutOf, AllStarts, StartsOf, AreStarts, SizeIn
<1>3. LayoutOf(p, c).ssize
          = [s \in DOMAIN p.sections |-> AllStarts(p, c)[s][NumFrags(p, s) + 1]]
  BY DEF LayoutOf, AllStarts, StartsOf, AreStarts, SizeIn
<1>4. LayoutOf(p, c).addr = [s \in DOMAIN p.sections |-> 0]
  BY DEF LayoutOf
<1> QED
  BY <1>1, <1>2, <1>3, <1>4

(* LayoutOf puts the fragments where the sizes chosen say.                 *)
LEMMA OffsetsOfLayout ==
    ASSUME NEW p \in Program, NEW c, NEW s \in DOMAIN p.sections,
           NEW f \in 1 .. NumFrags(p, s) + 1
    PROVE  /\ LabelOffset(LayoutOf(p, c), <<s, f>>) = StartsOf(p, c, s)[f]
           /\ f # NumFrags(p, s) + 1 => /\ <<s, f>> \in FragIds(p)
                                        /\ LayoutOf(p, c).off[<<s, f>>] = StartsOf(p, c, s)[f]
<1> DEFINE l == <<s, f>>
<1>1. l \in Positions(p)
  BY DEF Positions
<1>2. /\ l[1] = s /\ l[2] = f
      /\ NumFrags(p, s) \in Nat
      /\ l \in FragIds(p) <=> f # NumFrags(p, s) + 1
  BY <1>1, PositionsOfProgram
<1>3. AllStarts(p, c)[s] = StartsOf(p, c, s)
  BY DEF AllStarts
<1> HIDE DEF l
<1>4. PICK M : M = LayoutOf(p, c)
  OBVIOUS
<1>5. /\ M.prog = p
      /\ \A id \in FragIds(p) : M.off[id] = AllStarts(p, c)[id[1]][id[2]]
      /\ \A t \in DOMAIN p.sections : M.ssize[t] = AllStarts(p, c)[t][NumFrags(p, t) + 1]
  BY <1>4, FieldsOfLayout
<1>6. CASE l \in FragIds(p)
  BY <1>2, <1>3, <1>4, <1>5, <1>6 DEF LabelOffset, l
<1>7. CASE l \notin FragIds(p)
  <2>1. f = NumFrags(p, s) + 1
    BY <1>2, <1>7
  <2>2. M.ssize[s] = AllStarts(p, c)[s][NumFrags(p, s) + 1]
    BY <1>5
  <2>3. M.ssize[s] = StartsOf(p, c, s)[f]
    BY <1>3, <2>1, <2>2
  <2>4. LabelOffset(M, l) = M.ssize[s]
    BY <1>2, <1>5, <1>7 DEF LabelOffset
  <2> QED
    BY <1>4, <2>1, <2>3, <2>4 DEF l
<1> QED
  BY <1>6, <1>7

(* Every candidate has a length and fields.                                *)
LEMMA CandidatesOfFragment ==
    ASSUME NEW p \in Program, NEW id \in FragIds(p), FragAt(p, id).kind = "bytes",
           NEW k \in 1 .. Candidates(p, id)
    PROVE  /\ FragAt(p, id).variants[k].len \in Nat
           /\ FragAt(p, id).variants[k].fixups \in Seq(Fixup)
<1>1. FragAt(p, id) \in Fragment
  BY FragmentsOfProgram
<1>2. FragAt(p, id).variants \in Variants
  BY <1>1 DEF Fragment, Instruction
<1>3. PICK vs \in Variants : vs = FragAt(p, id).variants
  BY <1>2
<1>4. k \in 1 .. Len(vs)
  BY <1>3 DEF Candidates
<1>5. vs[k] \in [len : Nat, fixups : Seq(Fixup)]
  <2>1. vs \in Seq([len : Nat, fixups : Seq(Fixup)])
    BY DEF Variants
  <2>2. \A T : \A seq \in Seq(T) : \A i \in 1 .. Len(seq) : seq[i] \in T
    OBVIOUS
  <2> QED
    BY <1>4, <2>1, <2>2, Zenon
<1> QED
  BY <1>3, <1>5

(* A choice picks for each fragment a candidate it has.                    *)
LEMMA ChoicesAreCandidates ==
    ASSUME NEW p \in Program, NEW c \in ChoicesOf(p), NEW id \in FragIds(p)
    PROVE  c[id] \in 1 .. Candidates(p, id)
<1> DEFINE widest == {Candidates(p, j) : j \in FragIds(p)}
<1>1. c \in [FragIds(p) -> UNION {1 .. n : n \in widest}] /\ c[id] <= Candidates(p, id)
  BY DEF ChoicesOf
<1>2. ASSUME NEW j \in FragIds(p) PROVE Candidates(p, j) \in Nat
  BY FragmentsOfProgram
<1>3. PICK n \in widest : c[id] \in 1 .. n
  BY <1>1
<1>4. n \in Nat
  BY <1>2
<1>5. c[id] \in Nat /\ c[id] >= 1 /\ Candidates(p, id) \in Nat
  BY <1>2, <1>3, <1>4
<1> HIDE DEF widest
<1> QED
  BY <1>1, <1>5

(* Where there is nothing but bytes, each fragment's end is its start and  *)
(* the length of the candidate chosen for it.                              *)
LengthOf(p, c, id) == FragAt(p, id).variants[c[id]].len

(* In a section of instructions each starts where the one before ends.     *)
LEMMA StartsFollow ==
    ASSUME NEW p \in Program, AllBytes(p), NEW c \in ChoicesOf(p), NEW s \in DOMAIN p.sections
    PROVE  /\ StartsOf(p, c, s)[1] = 0
           /\ \A f \in 1 .. NumFrags(p, s) :
                 /\ LengthOf(p, c, <<s, f>>) \in Nat
                 /\ StartsOf(p, c, s)[f + 1] = StartsOf(p, c, s)[f] + LengthOf(p, c, <<s, f>>)
           /\ \A f \in 1 .. NumFrags(p, s) + 1 : StartsOf(p, c, s)[f] \in Nat
<1>1. NumFrags(p, s) \in Nat /\ s \in Nat \ {0}
  BY PositionsOfSection
<1>2. PICK N \in Nat : N = NumFrags(p, s)
  BY <1>1
<1>3. PICK g : g = StartsOf(p, c, s)
  OBVIOUS
<1>4. AreStarts(g, p, c, s, N)
  BY <1>2, <1>3, StartsExist DEF StartsOf
<1>5. \A f \in 1 .. N : <<s, f>> \in FragIds(p)
  <2> TAKE f \in 1 .. N
  <2>1. f \in 1 .. NumFrags(p, s) + 1 /\ f # NumFrags(p, s) + 1
    BY <1>2
  <2> QED
    BY <2>1, OffsetsOfLayout
<1>6. g[1] = 0
  BY <1>4 DEF AreStarts
<1>7. ASSUME NEW f \in 1 .. N
      PROVE  /\ LengthOf(p, c, <<s, f>>) \in Nat
             /\ g[f + 1] = g[f] + LengthOf(p, c, <<s, f>>)
  <2>1. PICK id \in FragIds(p) : id = <<s, f>>
    BY <1>5
  <2>2. FragAt(p, id).kind = "bytes" /\ c[id] \in 1 .. Candidates(p, id)
    BY ChoicesAreCandidates DEF AllBytes
  <2>3. LengthOf(p, c, id) \in Nat
    BY <2>2, CandidatesOfFragment DEF LengthOf
  <2>4. f + 1 \in 1 .. N + 1 /\ f + 1 # 1 /\ (f + 1) - 1 = f
    OBVIOUS
  <2>5. g[f + 1] = g[f] + SizeIn(p, c, <<s, f>>, g[f])
    BY <1>4, <2>4 DEF AreStarts
  <2> QED
    BY <2>1, <2>2, <2>3, <2>5 DEF SizeIn, LengthOf
<1>8. ASSUME NEW f \in 1 .. N + 1 PROVE g[f] \in Nat
  <2> DEFINE S == {n \in Nat : n + 1 \in 1 .. N + 1 => g[n + 1] \in Nat}
  <2>1. 0 \in S
    BY <1>6
  <2>2. ASSUME NEW n \in Nat, n \in S PROVE n + 1 \in S
    <3>1. SUFFICES ASSUME (n + 1) + 1 \in 1 .. N + 1 PROVE g[(n + 1) + 1] \in Nat
      OBVIOUS
    <3>2. n + 1 \in 1 .. N /\ n + 1 \in 1 .. N + 1
      BY <3>1
    <3>3. PICK len \in Nat : g[(n + 1) + 1] = g[n + 1] + len
      BY <1>7, <3>2
    <3>4. g[n + 1] \in Nat
      BY <2>2, <3>2
    <3> QED
      BY <3>3, <3>4
  <2> HIDE DEF S
  <2>3. Nat \subseteq S
    BY <2>1, <2>2, InductionBySets
  <2>4. f - 1 \in Nat /\ (f - 1) + 1 = f
    OBVIOUS
  <2>5. f - 1 \in S
    BY <2>3, <2>4
  <2> QED
    BY <2>4, <2>5 DEF S
<1> QED
  BY <1>2, <1>3, <1>6, <1>7, <1>8

-----------------------------------------------------------------------------
(* Distances.  In layout L the positions of each section are in order, and *)
(* no two neighbours are further apart than they are in M, but nearer by   *)
(* some steps.                                                             *)
After(id) == <<id[1], id[2] + 1>>
Gap(L, id) == LabelOffset(L, After(id)) - LabelOffset(L, id)

NoWider(L, M, g) ==
    \A id \in FragIds(L.prog) : 0 <= Gap(L, id) /\ Gap(M, id) - Gap(L, id) \in Steps(g)

(* Layouts of the same program, whose addresses and offsets are numbers.   *)
Offsets(L, p) ==
    /\ L.prog = p
    /\ \A s \in DOMAIN p.sections : L.addr[s] \in Int
    /\ \A l \in Positions(p) : LabelOffset(L, l) \in Int

(* Two labels of a section are no further apart in the tighter layout.     *)
LEMMA DistancesAreNoWider ==
    ASSUME NEW p \in Program, NEW L, NEW M, Offsets(L, p), Offsets(M, p),
           NEW g \in Nat, NoWider(L, M, g),
           NEW l \in Positions(p), NEW m \in Positions(p), l[1] = m[1], l[2] <= m[2]
    PROVE  /\ LabelOffset(L, m) - LabelOffset(L, l) \in Nat
           /\ LabelOffset(M, m) - LabelOffset(M, l) \in Nat
           /\ LabelOffset(L, m) - LabelOffset(L, l) \in 0 .. LabelOffset(M, m) - LabelOffset(M, l)
           /\ (LabelOffset(M, m) - LabelOffset(M, l))
                - (LabelOffset(L, m) - LabelOffset(L, l)) \in Steps(g)
<1>1. /\ l \in Nat \X Nat /\ l[1] \in DOMAIN p.sections /\ NumFrags(p, l[1]) \in Nat
      /\ l[2] \in 1 .. NumFrags(p, l[1]) + 1
      /\ m \in Nat \X Nat /\ m[2] \in 1 .. NumFrags(p, l[1]) + 1
  BY PositionsOfProgram
<1>2. PICK s \in DOMAIN p.sections, N \in Nat : s = l[1] /\ N = NumFrags(p, s)
  BY <1>1
<1>3. PICK i \in 1 .. N + 1, j \in 1 .. N + 1 : i = l[2] /\ j = m[2]
  BY <1>1, <1>2
<1>4. l = <<s, i>> /\ m = <<s, j>> /\ i <= j
  BY <1>1, <1>2, <1>3
<1> DEFINE a == [f \in 1 .. N + 1 |-> LabelOffset(L, <<s, f>>)]
           b == [f \in 1 .. N + 1 |-> LabelOffset(M, <<s, f>>)]
<1>5. \A f \in 1 .. N + 1 : a[f] = LabelOffset(L, <<s, f>>) /\ b[f] = LabelOffset(M, <<s, f>>)
  OBVIOUS
<1>6. \A f \in 1 .. N + 1 : <<s, f>> \in Positions(p)
  BY <1>2 DEF Positions
<1> HIDE DEF a, b
<1>7. \A f \in 1 .. N + 1 : a[f] \in Int /\ b[f] \in Int
  BY <1>5, <1>6 DEF Offsets
<1>8. ASSUME NEW f \in 1 .. N
      PROVE  a[f] <= a[f + 1] /\ (b[f + 1] - b[f]) - (a[f + 1] - a[f]) \in Steps(g)
  <2>1. f \in 1 .. N + 1 /\ f + 1 \in 1 .. N + 1 /\ f # N + 1
    OBVIOUS
  <2>2. PICK id \in FragIds(p) : id = <<s, f>>
    BY <1>2, <2>1, OffsetsOfLayout
  <2>3. After(id) = <<s, f + 1>>
    BY <2>2 DEF After
  <2>4. 0 <= Gap(L, id) /\ Gap(M, id) - Gap(L, id) \in Steps(g)
    BY DEF NoWider, Offsets
  <2>5. Gap(L, id) = a[f + 1] - a[f] /\ Gap(M, id) = b[f + 1] - b[f]
    BY <1>5, <2>1, <2>2, <2>3 DEF Gap
  <2>6. a[f] \in Int /\ a[f + 1] \in Int /\ b[f] \in Int /\ b[f + 1] \in Int
    BY <1>7, <2>1
  <2> QED
    BY ONLY <2>4, <2>5, <2>6
<1>9. a[i] <= a[j] /\ (b[j] - b[i]) - (a[j] - a[i]) \in Steps(g) /\ Steps(g) \subseteq Nat
  BY <1>4, <1>7, <1>8, StepsAdd, DistancesFollowGaps
<1>10. a[i] \in Int /\ a[j] \in Int /\ b[i] \in Int /\ b[j] \in Int
  BY <1>7
<1>11. /\ a[j] - a[i] \in Nat /\ b[j] - b[i] \in Nat
      /\ a[j] - a[i] \in 0 .. b[j] - b[i]
  BY ONLY <1>9, <1>10
<1> QED
  BY <1>4, <1>5, <1>9, <1>11

(* What a field is filled in with, where it is with a distance: the        *)
(* distance between two positions of one section.                          *)
LEMMA LabelsArePositions ==
    ASSUME NEW p \in Program, NEW l \in Labels, IsDefined(p, l)
    PROVE  /\ PositionOf(p, l) \in Positions(p)
           /\ PositionOf(p, l)[1] = l[1]
           /\ \A L : L.prog = p => LabelOffset(L, PositionOf(p, l)) = LabelOffset(L, l)
<1>1. CASE l \in FragIds(p)
  BY <1>1, PositionsOfFragment DEF PositionOf
<1>2. CASE l \notin FragIds(p)
  <2>1. PICK e : e = <<l[1], NumFrags(p, l[1]) + 1>>
    OBVIOUS
  <2>2. PositionOf(p, l) = e /\ e[1] = l[1] /\ e[2] = NumFrags(p, l[1]) + 1
    BY <1>2, <2>1 DEF PositionOf
  <2>3. e \in Positions(p)
    BY <2>1, PositionsOfSection DEF IsDefined
  <2>4. e \notin FragIds(p)
    BY <2>2, <2>3, PositionsOfProgram
  <2>5. \A L : L.prog = p => LabelOffset(L, e) = LabelOffset(L, l)
    BY <1>2, <2>2, <2>4 DEF LabelOffset
  <2> QED
    BY <2>2, <2>3, <2>5
<1> QED
  BY <1>1, <1>2

(* The address of a label is its section's and its offset.                 *)
LEMMA LabelAddresses ==
    ASSUME NEW p \in Program, NEW L, Offsets(L, p), NEW l \in Labels, IsDefined(p, l)
    PROVE  /\ LabelOffset(L, l) \in Int /\ L.addr[l[1]] \in Int
           /\ SymbolAddr(L, l, NoShift) = L.addr[l[1]] + LabelOffset(L, l)
<1>1. LabelOffset(L, l) \in Int
  BY LabelsArePositions DEF Offsets
<1>2. L.addr[l[1]] \in Int
  BY DEF Offsets, IsDefined
<1>3. \A b : (IF b THEN NoShift.by ELSE 0) = 0
  BY DEF NoShift
<1>4. SymbolAddr(L, l, NoShift) = L.addr[l[1]] + LabelOffset(L, l) + 0
  BY <1>3 DEF SymbolAddr
<1> QED
  BY <1>1, <1>2, <1>4

(* The value of an expression with a label to add.                         *)
LEMMA DistanceResolves ==
    ASSUME NEW p \in Program, NEW L, Offsets(L, p), NEW e \in Expr, HasAddress(p, e),
           e.plus # {}, NEW l, l = CHOOSE m \in e.plus : TRUE,
           NEW m, m = CHOOSE n \in e.minus : TRUE
    PROVE  /\ l \in e.plus /\ l \in Labels /\ IsDefined(p, l)
           /\ e.minus # {} => m \in e.minus /\ m \in Labels /\ IsDefined(p, m)
           /\ e.minus = {} => Value(L, e, NoShift) = {e.add + (L.addr[l[1]] + LabelOffset(L, l)) - 0}
           /\ e.minus # {} => Value(L, e, NoShift) =
                                {e.add + (L.addr[l[1]] + LabelOffset(L, l))
                                    - (L.addr[m[1]] + LabelOffset(L, m))}
<1>1. l \in e.plus
  OBVIOUS
<1>2. e.minus # {} => m \in e.minus
  OBVIOUS
<1>3. l \in Labels /\ IsDefined(p, l)
  BY <1>1 DEF Expr, HasAddress, Symbols
<1>4. e.minus # {} => m \in Labels /\ IsDefined(p, m)
  BY <1>2 DEF Expr, HasAddress, Symbols
<1>5. Value(L, e, NoShift) = {Resolve(L, e, NoShift)}
  BY DEF Value, Offsets
<1>6. e.minus = {} => Resolve(L, e, NoShift) = e.add + SymbolAddr(L, l, NoShift) - 0
  BY DEF Resolve
<1>7. e.minus # {} => Resolve(L, e, NoShift)
                        = e.add + SymbolAddr(L, l, NoShift) - SymbolAddr(L, m, NoShift)
  BY DEF Resolve
<1>8. SymbolAddr(L, l, NoShift) = L.addr[l[1]] + LabelOffset(L, l)
  BY <1>3, LabelAddresses
<1>9. e.minus # {} => SymbolAddr(L, m, NoShift) = L.addr[m[1]] + LabelOffset(L, m)
  BY <1>4, LabelAddresses
<1> QED
  BY <1>1, <1>2, <1>3, <1>4, <1>5, <1>6, <1>7, <1>8, <1>9

(* What a pc-relative field holds is a distance within its section.        *)
LEMMA PcrelDistance ==
    ASSUME NEW p \in Program, p.relocatable, NEW L, Offsets(L, p), NEW id \in FragIds(p),
           NEW x \in Fixup, IsDistance(p, id, x), x.pcrel, x.pcAlign = 1, OneLabel(x.expr.plus),
           NEW l, l = PositionOf(p, CHOOSE m \in x.expr.plus : TRUE)
    PROVE  /\ l \in Positions(p) /\ l[1] = id[1]
           /\ FixupValue(L, x, id, NoShift)
                = {x.expr.add - x.at - x.adjust + (LabelOffset(L, l) - LabelOffset(L, id))}
<1> DEFINE e == x.expr
<1>1. e \in Expr /\ e.add \in Int /\ x.at \in Nat /\ x.adjust \in Int
  BY DEF Fixup, Expr
<1>2. HasAddress(p, e) /\ e.plus # {} /\ ~PcrelIsRelocated(x, id)
  BY DEF IsDistance
<1>3. e.minus = {} /\ \E k \in e.plus : k[1] = id[1]
  BY <1>2 DEF PcrelIsRelocated
<1>4. PICK t, m : t = (CHOOSE k \in e.plus : TRUE) /\ m = CHOOSE n \in e.minus : TRUE
  OBVIOUS
<1>5. /\ t \in e.plus /\ t \in Labels /\ IsDefined(p, t)
      /\ Value(L, e, NoShift) = {e.add + (L.addr[t[1]] + LabelOffset(L, t)) - 0}
  <2> HIDE DEF e
  <2> QED
    BY <1>1, <1>2, <1>3, <1>4, DistanceResolves
<1>6. t[1] = id[1]
  BY <1>3, <1>5 DEF OneLabel
<1>7. l \in Positions(p) /\ l[1] = t[1] /\ LabelOffset(L, l) = LabelOffset(L, t)
  BY <1>4, <1>5, LabelsArePositions DEF Offsets
<1>8. id \in Positions(p) /\ L.off[id] = LabelOffset(L, id)
  BY PositionsOfFragment DEF LabelOffset, Offsets
<1>9. L.addr[id[1]] \in Int /\ LabelOffset(L, id) \in Int /\ LabelOffset(L, l) \in Int
  BY <1>5, <1>6, <1>7, <1>8 DEF Offsets, IsDefined
<1>10. PcOf(L, x, id) = L.addr[id[1]] + (LabelOffset(L, id) + x.at + x.adjust)
  <2>1. PICK n \in Int : n = LabelOffset(L, id) + x.at + x.adjust
    BY <1>1, <1>9
  <2>2. PcOf(L, x, id) = L.addr[id[1]] + Mask(n, 1)
    BY <1>3, <1>8, <2>1 DEF PcOf
  <2>3. Mask(n, 1) = n
    BY RemainderIsNatural DEF Mask
  <2> QED
    BY <2>1, <2>2, <2>3
<1>11. FixupValue(L, x, id, NoShift) = {v + 0 - PcOf(L, x, id) : v \in Value(L, e, NoShift)}
  BY <1>2 DEF IsOffset, Symbols, FixupValue, Offsets
<1>12. PICK v : v = e.add + (L.addr[t[1]] + LabelOffset(L, t)) - 0
  OBVIOUS
<1>13. FixupValue(L, x, id, NoShift) = {v + 0 - PcOf(L, x, id)}
  BY <1>5, <1>11, <1>12
<1>14. v + 0 - PcOf(L, x, id) = e.add - x.at - x.adjust + (LabelOffset(L, l) - LabelOffset(L, id))
  BY <1>1, <1>6, <1>7, <1>9, <1>10, <1>12
<1> QED
  BY <1>6, <1>7, <1>13, <1>14

(* So is what a field with the difference of two labels holds.             *)
LEMMA DifferenceDistance ==
    ASSUME NEW p \in Program, p.relocatable, NEW L, Offsets(L, p), NEW id,
           NEW x \in Fixup, IsDistance(p, id, x), ~x.pcrel,
           NEW l, l = PositionOf(p, CHOOSE n \in x.expr.plus : TRUE),
           NEW m, m = PositionOf(p, CHOOSE n \in x.expr.minus : TRUE)
    PROVE  /\ l \in Positions(p) /\ m \in Positions(p) /\ l[1] = m[1]
           /\ FixupValue(L, x, id, NoShift)
                = {x.expr.add + (LabelOffset(L, l) - LabelOffset(L, m))}
<1> DEFINE e == x.expr
<1>1. e \in Expr /\ e.add \in Int
  BY DEF Fixup, Expr
<1>2. HasAddress(p, e) /\ e.plus # {} /\ e.minus # {} /\ ~DistanceIsRelocated(p, x)
  BY DEF IsDistance
<1>3. PICK t, u : t = (CHOOSE k \in e.plus : TRUE) /\ u = CHOOSE n \in e.minus : TRUE
  OBVIOUS
<1>4. /\ t \in e.plus /\ t \in Labels /\ IsDefined(p, t)
      /\ u \in e.minus /\ u \in Labels /\ IsDefined(p, u)
      /\ Value(L, e, NoShift) = {e.add + (L.addr[t[1]] + LabelOffset(L, t))
                                    - (L.addr[u[1]] + LabelOffset(L, u))}
  <2> HIDE DEF e
  <2> QED
    BY <1>1, <1>2, <1>3, DistanceResolves
<1>5. t[1] = u[1]
  BY <1>2, <1>4 DEF DistanceIsRelocated, Symbols
<1>6. /\ l \in Positions(p) /\ l[1] = t[1] /\ LabelOffset(L, l) = LabelOffset(L, t)
      /\ m \in Positions(p) /\ m[1] = u[1] /\ LabelOffset(L, m) = LabelOffset(L, u)
  BY <1>3, <1>4, LabelsArePositions DEF Offsets
<1>7. L.addr[t[1]] \in Int /\ LabelOffset(L, m) \in Int /\ LabelOffset(L, l) \in Int
  BY <1>4, <1>6 DEF Offsets, IsDefined
<1>8. FixupValue(L, x, id, NoShift) = Value(L, e, NoShift)
  BY <1>2 DEF FixupValue, Offsets
<1>9. e.add + (L.addr[t[1]] + LabelOffset(L, t)) - (L.addr[u[1]] + LabelOffset(L, u))
          = e.add + (LabelOffset(L, l) - LabelOffset(L, m))
  BY <1>1, <1>5, <1>6, <1>7
<1> QED
  BY <1>4, <1>5, <1>6, <1>8, <1>9

(* Every other field is filled in with a number, or by a relocation.       *)
LEMMA OtherFields ==
    ASSUME NEW p \in Program, p.relocatable, NEW L, L.prog = p, NEW id, NEW x \in Fixup,
           ~IsDistance(p, id, x), ~IsAnchored(x, id)
    PROVE  FixupValue(L, x, id, NoShift)
             = IF Symbols(x.expr) = {} /\ ~x.pcrel /\ ~x.deferred THEN {x.expr.add} ELSE {}
<1> DEFINE e == x.expr
<1>1. CASE ~HasAddress(p, e)
  <2>1. Value(L, e, NoShift) = {}
    BY <1>1 DEF Value
  <2>2. Symbols(e) # {}
    BY <1>1 DEF HasAddress
  <2> HIDE DEF e
  <2>3. FixupValue(L, x, id, NoShift) = {}
    BY <2>1 DEF FixupValue, e
  <2> QED
    BY <2>2, <2>3 DEF e
<1>2. CASE HasAddress(p, e) /\ Symbols(e) = {}
  <2>1. e.plus = {} /\ e.minus = {} /\ e.add \in Int
    BY <1>2 DEF Symbols, Fixup, Expr
  <2>2. Resolve(L, e, NoShift) = e.add + 0 - 0
    BY <2>1 DEF Resolve
  <2>3. Value(L, e, NoShift) = {e.add}
    BY <1>2, <2>1, <2>2 DEF Value
  <2>4. x.pcrel => PcrelIsRelocated(x, id)
    BY <2>1 DEF IsAnchored
  <2> QED
    BY <1>2, <2>1, <2>3, <2>4 DEF FixupValue
<1>3. CASE HasAddress(p, e) /\ Symbols(e) # {}
  BY <1>3 DEF IsDistance, IsAnchored, FixupValue
<1> QED
  BY <1>1, <1>2, <1>3

-----------------------------------------------------------------------------
(* A field that holds its value in M holds it in L, where nothing is       *)
(* further away, if a form that reaches a target reaches every nearer one. *)
LEMMA HoldsCloser ==
    ASSUME NEW x, NEW base, NEW sign, NEW g, NEW d \in Nat, NEW e \in 0 .. d, d - e \in Steps(g),
           HoldsNearer(x, base, sign, g),
           NEW far, far = base + sign * d, NEW near, near = base + sign * e, Holds(x, far)
    PROVE  Holds(x, near)
BY DEF HoldsNearer

(* A field that reaches does so where everything is closer together.       *)
LEMMA CloserFieldReaches ==
    ASSUME NEW p \in Program, p.relocatable,
           NEW L, Offsets(L, p), NEW M, Offsets(M, p), NEW g \in Nat, NoWider(L, M, g),
           NEW id \in FragIds(p), NEW k, NEW len \in Nat, len = FragAt(p, id).variants[k].len,
           Gap(L, id) = len, Gap(M, id) = len,
           NEW x \in Fixup, ~IsAnchored(x, id),
           IsDistance(p, id, x) => ReachesNearer(p, id, k, x, g),
           Reaches(x, FixupValue(M, x, id, NoShift))
    PROVE  Reaches(x, FixupValue(L, x, id, NoShift))
<1> DEFINE from == x.expr.add - x.at - x.adjust
<1>1. x.expr.add \in Int /\ x.at \in Nat /\ x.adjust \in Int /\ from \in Int
  BY DEF Fixup, Expr
<1>2. /\ id \in Positions(p) /\ After(id) \in Positions(p) /\ id \in Nat \X Nat
      /\ After(id)[1] = id[1] /\ After(id)[2] = id[2] + 1
  BY PositionsOfFragment, FragmentsOfProgram DEF After
<1>3. /\ LabelOffset(L, id) \in Int /\ LabelOffset(M, id) \in Int
      /\ LabelOffset(L, After(id)) = LabelOffset(L, id) + len
      /\ LabelOffset(M, After(id)) = LabelOffset(M, id) + len
  <2>1. /\ LabelOffset(L, id) \in Int /\ LabelOffset(L, After(id)) \in Int
        /\ LabelOffset(M, id) \in Int /\ LabelOffset(M, After(id)) \in Int
    BY <1>2 DEF Offsets
  <2>2. /\ LabelOffset(L, After(id)) - LabelOffset(L, id) = len
        /\ LabelOffset(M, After(id)) - LabelOffset(M, id) = len
    BY DEF Gap
  <2> QED
    BY ONLY <2>1, <2>2, len \in Nat
<1>4. CASE ~IsDistance(p, id, x)
  <2>1. L.prog = p /\ M.prog = p
    BY DEF Offsets
  <2>2. PICK values : values = IF Symbols(x.expr) = {} /\ ~x.pcrel /\ ~x.deferred
                               THEN {x.expr.add} ELSE {}
    OBVIOUS
  <2>3. FixupValue(L, x, id, NoShift) = values
    BY <1>4, <2>1, <2>2, OtherFields
  <2>4. FixupValue(M, x, id, NoShift) = values
    BY <1>4, <2>1, <2>2, OtherFields
  <2> QED
    BY <2>3, <2>4
<1>5. CASE IsDistance(p, id, x) /\ x.pcrel
  <2>1. PICK l : l = PositionOf(p, CHOOSE m \in x.expr.plus : TRUE)
    OBVIOUS
  <2>2. /\ OneLabel(x.expr.plus) /\ x.pcAlign = 1
        /\ IF l[2] > id[2] THEN HoldsNearer(x, from + len, 1, g) ELSE HoldsNearer(x, from, -1, g)
    BY <1>5, <2>1 DEF ReachesNearer
  <2>3. /\ l \in Positions(p) /\ l[1] = id[1]
        /\ FixupValue(L, x, id, NoShift) = {from + (LabelOffset(L, l) - LabelOffset(L, id))}
    BY <1>5, <2>1, <2>2, PcrelDistance
  <2>4. FixupValue(M, x, id, NoShift) = {from + (LabelOffset(M, l) - LabelOffset(M, id))}
    BY <1>5, <2>1, <2>2, PcrelDistance
  <2>5. /\ LabelOffset(L, l) \in Int /\ LabelOffset(M, l) \in Int
        /\ l \in Nat \X Nat
    BY <2>3, PositionsOfProgram DEF Offsets
  <2>6. Holds(x, from + (LabelOffset(M, l) - LabelOffset(M, id)))
    BY <2>4 DEF Reaches
  <2>7. CASE l[2] > id[2]
    <3>1. After(id)[2] <= l[2]
      BY <1>2, <2>5, <2>7
    <3>2. PICK d \in Nat, e \in Nat : /\ d = LabelOffset(M, l) - LabelOffset(M, After(id))
                                      /\ e = LabelOffset(L, l) - LabelOffset(L, After(id))
                                      /\ e \in 0 .. d /\ d - e \in Steps(g)
      BY <1>2, <2>3, <3>1, DistancesAreNoWider
    <3>3. /\ from + (LabelOffset(M, l) - LabelOffset(M, id)) = from + len + 1 * d
          /\ from + (LabelOffset(L, l) - LabelOffset(L, id)) = from + len + 1 * e
      BY <1>1, <1>3, <2>5, <3>2
    <3>4. HoldsNearer(x, from + len, 1, g)
      BY <2>2, <2>7
    <3>5. Holds(x, from + (LabelOffset(L, l) - LabelOffset(L, id)))
      BY ONLY <2>6, <3>2, <3>3, <3>4, HoldsCloser
    <3> QED
      BY <2>3, <3>5 DEF Reaches
  <2>8. CASE l[2] <= id[2]
    <3>1. PICK d \in Nat, e \in Nat : /\ d = LabelOffset(M, id) - LabelOffset(M, l)
                                      /\ e = LabelOffset(L, id) - LabelOffset(L, l)
                                      /\ e \in 0 .. d /\ d - e \in Steps(g)
      BY <1>2, <2>3, <2>8, DistancesAreNoWider
    <3>2. /\ from + (LabelOffset(M, l) - LabelOffset(M, id)) = from + (-1) * d
          /\ from + (LabelOffset(L, l) - LabelOffset(L, id)) = from + (-1) * e
      BY <1>1, <1>3, <2>5, <3>1
    <3>3. HoldsNearer(x, from, -1, g)
      BY <1>2, <2>2, <2>5, <2>8
    <3>4. Holds(x, from + (LabelOffset(L, l) - LabelOffset(L, id)))
      BY ONLY <2>6, <3>1, <3>2, <3>3, HoldsCloser
    <3> QED
      BY <2>3, <3>4 DEF Reaches
  <2> QED
    BY <1>2, <2>5, <2>7, <2>8
<1>6. CASE IsDistance(p, id, x) /\ ~x.pcrel
  <2>1. PICK l, m : /\ l = PositionOf(p, CHOOSE n \in x.expr.plus : TRUE)
                    /\ m = PositionOf(p, CHOOSE n \in x.expr.minus : TRUE)
    OBVIOUS
  <2>2. HoldsNearer(x, x.expr.add, IF l[2] >= m[2] THEN 1 ELSE -1, g)
    BY <1>6, <2>1 DEF ReachesNearer
  <2>3. /\ l \in Positions(p) /\ m \in Positions(p) /\ l[1] = m[1]
        /\ FixupValue(L, x, id, NoShift) = {x.expr.add + (LabelOffset(L, l) - LabelOffset(L, m))}
    BY <1>6, <2>1, DifferenceDistance
  <2>4. FixupValue(M, x, id, NoShift) = {x.expr.add + (LabelOffset(M, l) - LabelOffset(M, m))}
    BY <1>6, <2>1, DifferenceDistance
  <2>5. /\ LabelOffset(L, l) \in Int /\ LabelOffset(M, l) \in Int
        /\ LabelOffset(L, m) \in Int /\ LabelOffset(M, m) \in Int
        /\ l \in Nat \X Nat /\ m \in Nat \X Nat
    BY <2>3, PositionsOfProgram DEF Offsets
  <2>6. Holds(x, x.expr.add + (LabelOffset(M, l) - LabelOffset(M, m)))
    BY <2>4 DEF Reaches
  <2>7. CASE l[2] >= m[2]
    <3>1. PICK d \in Nat, e \in Nat : /\ d = LabelOffset(M, l) - LabelOffset(M, m)
                                      /\ e = LabelOffset(L, l) - LabelOffset(L, m)
                                      /\ e \in 0 .. d /\ d - e \in Steps(g)
      BY <2>3, <2>5, <2>7, DistancesAreNoWider
    <3>2. /\ x.expr.add + (LabelOffset(M, l) - LabelOffset(M, m)) = x.expr.add + 1 * d
          /\ x.expr.add + (LabelOffset(L, l) - LabelOffset(L, m)) = x.expr.add + 1 * e
      BY <1>1, <2>5, <3>1
    <3>3. HoldsNearer(x, x.expr.add, 1, g)
      BY <2>2, <2>7
    <3>4. Holds(x, x.expr.add + (LabelOffset(L, l) - LabelOffset(L, m)))
      BY ONLY <2>6, <3>1, <3>2, <3>3, HoldsCloser
    <3> QED
      BY <2>3, <3>4 DEF Reaches
  <2>8. CASE ~(l[2] >= m[2])
    <3>1. PICK d \in Nat, e \in Nat : /\ d = LabelOffset(M, m) - LabelOffset(M, l)
                                      /\ e = LabelOffset(L, m) - LabelOffset(L, l)
                                      /\ e \in 0 .. d /\ d - e \in Steps(g)
      BY <2>3, <2>5, <2>8, DistancesAreNoWider
    <3>2. /\ x.expr.add + (LabelOffset(M, l) - LabelOffset(M, m)) = x.expr.add + (-1) * d
          /\ x.expr.add + (LabelOffset(L, l) - LabelOffset(L, m)) = x.expr.add + (-1) * e
      BY <1>1, <2>5, <3>1
    <3>3. HoldsNearer(x, x.expr.add, -1, g)
      BY <2>2, <2>8
    <3>4. Holds(x, x.expr.add + (LabelOffset(L, l) - LabelOffset(L, m)))
      BY ONLY <2>6, <3>1, <3>2, <3>3, HoldsCloser
    <3> QED
      BY <2>3, <3>4 DEF Reaches
  <2> QED
    BY <2>7, <2>8
<1> QED
  BY <1>4, <1>5, <1>6

(* At the size a candidate has, the test of it is a test of its fields.    *)
FieldsReach(N, id, fx) ==
    \A i \in DOMAIN fx : Reaches(fx[i], FixupValue(N, fx[i], id, NoShift))

(* A form fits if each of its fields reaches.                              *)
LEMMA FitsByFields ==
    ASSUME NEW p \in Program, NEW N, N.prog = p, NEW id \in FragIds(p),
           FragAt(p, id).kind = "bytes", FragAt(p, id).mode # Shrinking,
           NEW k \in 1 .. Candidates(p, id), N.chosen[id] = k,
           NEW fx, fx = FragAt(p, id).variants[k].fixups
    PROVE  /\ fx \in Seq(Fixup)
           /\ VariantFits(N, id, k, 0) <=> FieldsReach(N, id, fx)
<1>1. FragAt(p, id).kind = "bytes" /\ FragAt(p, id).mode # Shrinking
  OBVIOUS
<1>2. FragAt(p, id).variants[k].len \in Nat /\ fx \in Seq(Fixup)
  BY <1>1, CandidatesOfFragment
<1>3. PICK len \in Nat : len = FragAt(p, id).variants[k].len
  BY <1>2
<1>4. ~SizedByDifference(FragAt(p, id).variants)
  BY <1>1, FragmentsOfProgram DEF Fragment, Instruction
<1>5. k \in DOMAIN FragAt(p, id).variants
  <2>1. PICK vs \in Variants : vs = FragAt(p, id).variants
    BY <1>1, FragmentsOfProgram DEF Fragment, Instruction
  <2> QED
    BY <1>1, <2>1 DEF Candidates, Variants
<1>6. \A i \in DOMAIN fx : ~fx[i].diff
  BY <1>4, <1>5 DEF SizedByDifference
<1> DEFINE shift == [frag |-> id, pc |-> N.off[id], by |-> len - len + 0]
<1>7. shift.by = 0
  OBVIOUS
<1> HIDE DEF shift
<1>8. \A i \in DOMAIN fx : FixupValue(N, fx[i], id, shift) = FixupValue(N, fx[i], id, NoShift)
  BY <1>7, ShiftOfNothing
<1> DEFINE Measured(x) == IF x.diff THEN RelaxedDifference(N, x.expr, id, 0)
                                    ELSE FixupValue(N, x, id, shift)
<1>9. VariantFits(N, id, k, 0) <=> \A i \in DOMAIN fx : Reaches(fx[i], Measured(fx[i]))
  BY <1>3 DEF VariantFits, shift
<1>10. \A i \in DOMAIN fx : Measured(fx[i]) = FixupValue(N, fx[i], id, NoShift)
  BY <1>6, <1>8
<1> HIDE DEF Measured
<1>11. \A i \in DOMAIN fx : Reaches(fx[i], Measured(fx[i]))
                              <=> Reaches(fx[i], FixupValue(N, fx[i], id, NoShift))
  BY <1>10, Zenon
<1>12. (\A i \in DOMAIN fx : Reaches(fx[i], Measured(fx[i]))) <=> FieldsReach(N, id, fx)
  BY <1>11, Zenon DEF FieldsReach
<1>13. fx \in Seq(Fixup)
  BY <1>2
<1> QED
  BY ONLY <1>9, <1>12, <1>13

(* So a form, not the longest, that reaches does so in a tighter layout.   *)
LEMMA CloserReaches ==
    ASSUME NEW p \in Program, Straight(p), NEW g \in Nat, ReachedInSteps(p, g),
           NEW L, Offsets(L, p), NEW M, Offsets(M, p), NoWider(L, M, g),
           NEW id \in FragIds(p), NEW k \in 1 .. Candidates(p, id), k < Candidates(p, id),
           L.chosen[id] = k, M.chosen[id] = k,
           Gap(L, id) = FragAt(p, id).variants[k].len,
           Gap(M, id) = FragAt(p, id).variants[k].len,
           VariantFits(M, id, k, 0)
    PROVE  VariantFits(L, id, k, 0)
<1>1. /\ FragAt(p, id).kind = "bytes" /\ FragAt(p, id).mode # Shrinking /\ p.relocatable
      /\ AllBytes(p) /\ AllGrow(p)
  BY DEF Straight, AllBytes, AllGrow, FromLastPass, Shrinking
<1>2. PICK len \in Nat : len = FragAt(p, id).variants[k].len
  BY <1>1, CandidatesOfFragment
<1>3. PICK fx : fx = FragAt(p, id).variants[k].fixups
  OBVIOUS
<1>4. L.prog = p /\ M.prog = p
  BY DEF Offsets
<1>5. /\ fx \in Seq(Fixup)
      /\ VariantFits(L, id, k, 0) <=> FieldsReach(L, id, fx)
  BY <1>1, <1>3, <1>4, FitsByFields
<1>6. VariantFits(M, id, k, 0) <=> FieldsReach(M, id, fx)
  BY <1>1, <1>3, <1>4, FitsByFields
<1>7. ASSUME NEW i \in DOMAIN fx
      PROVE  Reaches(fx[i], FixupValue(L, fx[i], id, NoShift))
  <2>1. Reaches(fx[i], FixupValue(M, fx[i], id, NoShift))
    BY <1>6 DEF FieldsReach
  <2>2. fx[i] \in Fixup
    BY <1>5
  <2>3. k \in 1 .. Candidates(p, id) - 1
    BY FragmentsOfProgram
  <2>4. /\ ~IsAnchored(fx[i], id)
        /\ IsDistance(p, id, fx[i]) => ReachesNearer(p, id, k, fx[i], g)
    BY <1>1, <1>3, <2>3 DEF ReachedInSteps
  <2>5. Gap(L, id) = len /\ Gap(M, id) = len
    BY <1>2
  <2> QED
    BY <1>1, <1>2, <2>1, <2>2, <2>4, <2>5, CloserFieldReaches
<1>8. FieldsReach(L, id, fx)
  BY <1>7 DEF FieldsReach
<1> QED
  BY <1>5, <1>8

-----------------------------------------------------------------------------
(* No candidate is shorter than one before it.                             *)
LEMMA LengthsGrow ==
    ASSUME NEW p \in Program, NEW id \in FragIds(p), FragAt(p, id).kind = "bytes",
           NEW j \in 1 .. Candidates(p, id), NEW k \in 1 .. Candidates(p, id), j <= k
    PROVE  FragAt(p, id).variants[j].len <= FragAt(p, id).variants[k].len
<1> DEFINE Length(i) == FragAt(p, id).variants[i].len
           S == {n \in Nat : j + n \in 1 .. Candidates(p, id) => Length(j) <= Length(j + n)}
<1>1. \A i \in 1 .. Candidates(p, id) : Length(i) \in Nat
  BY CandidatesOfFragment
<1>2. Candidates(p, id) \in Nat
  BY FragmentsOfProgram
<1>3. \A i \in 1 .. Candidates(p, id) : i < Candidates(p, id) => Length(i) <= Length(i + 1)
  BY NextCandidateIsNotShorter
<1> HIDE DEF Length
<1>4. 0 \in S
  BY <1>1
<1>5. ASSUME NEW n \in Nat, n \in S PROVE n + 1 \in S
  <2>1. SUFFICES ASSUME j + (n + 1) \in 1 .. Candidates(p, id)
                 PROVE  Length(j) <= Length(j + (n + 1))
    OBVIOUS
  <2>2. PICK i : i = j + n
    OBVIOUS
  <2>3. i \in 1 .. Candidates(p, id) /\ i < Candidates(p, id) /\ i + 1 = j + (n + 1)
    BY <1>2, <2>1, <2>2
  <2>4. Length(j) <= Length(i) /\ Length(i) <= Length(i + 1)
    BY <1>3, <1>5, <2>2, <2>3
  <2>5. Length(j) \in Nat /\ Length(i) \in Nat /\ Length(i + 1) \in Nat
    BY <1>1, <2>1, <2>3
  <2>6. Length(j) <= Length(i + 1)
    BY ONLY <2>4, <2>5
  <2> QED
    BY <2>3, <2>6
<1> HIDE DEF S
<1>6. Nat \subseteq S
  BY <1>4, <1>5, InductionBySets
<1>7. k - j \in Nat /\ j + (k - j) = k
  OBVIOUS
<1>8. k - j \in S
  BY <1>6, <1>7
<1> QED
  BY <1>7, <1>8 DEF S, Length

(* The layout of a choice, as the lemmas above want it.                    *)
LEMMA ChosenLayout ==
    ASSUME NEW p \in Program, AllBytes(p), NEW c \in ChoicesOf(p),
           NEW M, M = LayoutOf(p, c)
    PROVE  /\ Offsets(M, p) /\ M.chosen = c
           /\ \A id \in FragIds(p) : Gap(M, id) = LengthOf(p, c, id)
<1>1. M.prog = p /\ M.chosen = c /\ \A s \in DOMAIN p.sections : M.addr[s] = 0
  BY FieldsOfLayout
<1>2. ASSUME NEW l \in Positions(p) PROVE LabelOffset(M, l) \in Nat
  <2>1. /\ l \in Nat \X Nat /\ l[1] \in DOMAIN p.sections
        /\ l[2] \in 1 .. NumFrags(p, l[1]) + 1
    BY PositionsOfProgram
  <2>2. PICK s \in DOMAIN p.sections, f \in Nat : l = <<s, f>> /\ f \in 1 .. NumFrags(p, s) + 1
    BY <2>1
  <2>3. LabelOffset(M, l) = StartsOf(p, c, s)[f]
    BY <2>2, OffsetsOfLayout
  <2>4. StartsOf(p, c, s)[f] \in Nat
    BY <2>2, StartsFollow
  <2> QED
    BY <2>3, <2>4
<1>3. Offsets(M, p)
  BY <1>1, <1>2 DEF Offsets
<1>4. ASSUME NEW id \in FragIds(p) PROVE Gap(M, id) = LengthOf(p, c, id)
  <2>1. /\ id \in Positions(p) /\ After(id) \in Positions(p)
        /\ id \in Nat \X Nat /\ id[1] \in DOMAIN p.sections /\ NumFrags(p, id[1]) \in Nat
        /\ id[2] \in 1 .. NumFrags(p, id[1]) + 1 /\ id[2] # NumFrags(p, id[1]) + 1
    BY PositionsOfFragment, PositionsOfProgram DEF After
  <2>2. PICK s \in DOMAIN p.sections, f \in Nat :
            id = <<s, f>> /\ f \in 1 .. NumFrags(p, s)
    BY <2>1
  <2>3. After(id) = <<s, f + 1>>
    BY <2>2 DEF After
  <2>4. /\ f \in 1 .. NumFrags(p, s) + 1 /\ f + 1 \in 1 .. NumFrags(p, s) + 1
        /\ NumFrags(p, s) \in Nat
    BY <2>1, <2>2
  <2>5. /\ LabelOffset(M, id) = StartsOf(p, c, s)[f]
        /\ LabelOffset(M, After(id)) = StartsOf(p, c, s)[f + 1]
    BY <2>2, <2>3, <2>4, OffsetsOfLayout
  <2>6. /\ StartsOf(p, c, s)[f] \in Nat /\ LengthOf(p, c, id) \in Nat
        /\ StartsOf(p, c, s)[f + 1] = StartsOf(p, c, s)[f] + LengthOf(p, c, id)
    BY <2>2, <2>4, StartsFollow
  <2> QED
    BY <2>5, <2>6 DEF Gap
<1> QED
  BY <1>1, <1>3, <1>4

-----------------------------------------------------------------------------
(* While candidates grow, a fragment takes the room of the one it had when *)
(* it was placed, and positions the walk has not come to are where the     *)
(* fragment before them ends.                                              *)
RoomOf(p, now, L, id) ==
    /\ 0 <= Gap(L, id)
    /\ FragAt(p, id).kind = "bytes" =>
          \E k \in 1 .. now[id] : Gap(L, id) = FragAt(p, id).variants[k].len

GrowthOffsets ==
    pc = "relax" /\ Mode = FromLastPass =>
        /\ \A id \in Ids : RoomOf(prog, chosen, Here, id)
        /\ \A l \in Positions(prog) : l # cur /\ ~Behind(l, cur) => Meets(Here, l)

(* The gap a settled fragment leaves is no narrower than what is in it.    *)
LEMMA MeetingGap ==
    ASSUME NEW L, IsLayout(L), NEW id \in FragIds(L.prog)
    PROVE  /\ LabelOffset(L, id) \in Nat /\ LabelOffset(L, After(id)) \in Nat
           /\ FragSize(L, id) \in Nat
           /\ Meets(L, After(id)) => Gap(L, id) = FragSize(L, id)
           /\ Trails(L, After(id)) => Gap(L, id) <= FragSize(L, id)
<1>1. L.prog \in Program /\ L.off[id] \in Nat /\ LabelOffset(L, id) = L.off[id]
  BY DEF IsLayout, LabelOffset
<1>2. id \in Positions(L.prog) /\ After(id) \in Positions(L.prog) /\ id = <<id[1], id[2]>>
  BY <1>1, PositionsOfFragment DEF After
<1>3. LabelOffset(L, After(id)) \in Nat /\ FragSize(L, id) \in Nat
  BY <1>2, PositionsAreNatural, FragSizeIsNatural
<1>4. id[2] \in Nat \ {0}
  <2>1. PICK p \in Program : p = L.prog
    BY <1>1
  <2>2. NumFrags(p, id[1]) \in Nat /\ id[2] \in 1 .. NumFrags(p, id[1]) + 1
    BY <1>2, <2>1, PositionsOfProgram
  <2> QED
    BY ONLY <2>2
<1>5. After(id)[1] = id[1] /\ After(id)[2] = id[2] + 1 /\ (id[2] + 1) - 1 = id[2] /\ id[2] + 1 # 1
  BY <1>4 DEF After
<1>6. EndBefore(L, After(id)) = L.off[id] + FragSize(L, id)
  BY <1>2, <1>5 DEF EndBefore, FragEnd
<1> QED
  BY <1>1, <1>3, <1>6 DEF Meets, Trails, Gap

(* Closing the last section leaves every position where one ends.          *)
LEMMA OffsetsMeet ==
    ASSUME SettlingInv, EndOfOffsets, pc' = "relax"
    PROVE  \A l \in Positions(prog) : Meets(Here', l)
<1>1. /\ TypeOK /\ OffsetWalk /\ pc = "offsets" /\ CloseSection("relax") /\ ResizeSection
      /\ UNCHANGED <<prog, chosen, cached, off, addr, pass, memory, errors>>
      /\ ~AtFragment
  BY DEF SettlingInv, EndOfOffsets, CloseSection
<1>2. /\ cur \in Positions(prog)
      /\ at = EndBefore(Here, cur)
      /\ \A l \in Positions(prog) : l # cur /\ Behind(l, cur) => Meets(Here, l)
  BY <1>1 DEF OffsetWalk
<1>3. /\ Meets(Here', cur)
      /\ \A l \in Positions(prog) : l # cur => Meets(Here', l) = Meets(Here, l)
  BY <1>1, <1>2, ClosingSection DEF Meets
<1>4. \A l \in Positions(prog) : Behind(l, cur) \/ l = cur
  BY <1>1, <1>2, NextSection
<1> QED
  BY <1>2, <1>3, <1>4

(* No step of a pass disturbs what is known of the offsets.                *)
LEMMA GrowthOffsetsKept ==
    ASSUME SettlingInv, TypeOK', GrowthOffsets, [Next]_vars
    PROVE  GrowthOffsets'
<1>0. TypeOK /\ IsLayout(Here) /\ Here.prog = prog /\ prog \in Program
  BY HereIsLayout DEF SettlingInv, TypeOK, Here
<1>1. CASE pc' # "relax" \/ Mode' # FromLastPass
  BY <1>1 DEF GrowthOffsets
<1>2. CASE EndOfOffsets /\ pc' = "relax"
  <2>1. \A l \in Positions(prog) : Meets(Here', l)
    BY <1>2, OffsetsMeet
  <2>2. prog' = prog /\ Ids' = Ids /\ Here'.prog = prog
    BY <1>2 DEF EndOfOffsets, Ids, Here
  <2>3. IsLayout(Here')
    <3>1. TypeOK' => IsLayout(Here)'
      BY HereIsLayout, PTL
    <3> QED
      BY <3>1 DEF IsLayout, Here
  <2>4. ASSUME NEW id \in Ids PROVE RoomOf(prog, chosen', Here', id)
    <3>1. id \in FragIds(Here'.prog) /\ After(id) \in Positions(prog)
      BY <1>0, <2>2, PositionsOfFragment DEF Ids, After
    <3>2. Gap(Here', id) = FragSize(Here', id) /\ FragSize(Here', id) \in Nat
      BY <2>1, <2>3, <3>1, MeetingGap
    <3>3. chosen'[id] \in 1 .. chosen'[id]
      BY <2>2 DEF TypeOK
    <3>4. FragAt(prog, id).kind = "bytes" =>
              FragSize(Here', id) = FragAt(prog, id).variants[chosen'[id]].len
      BY <2>2 DEF FragSize, Here
    <3> QED
      BY <3>2, <3>3, <3>4 DEF RoomOf
  <2> QED
    BY <2>1, <2>2, <2>4 DEF GrowthOffsets
<1>3. CASE GrowFragment
  <2>1. /\ pc = "relax" /\ Mode = FromLastPass /\ cur \in Ids
        /\ cur' = <<cur[1], cur[2] + 1>>
        /\ chosen' = IF Grows(cur) THEN [chosen EXCEPT ![cur] = @ + 1] ELSE chosen
        /\ UNCHANGED <<prog, cached, off, ssize, addr>>
    BY <1>3 DEF GrowFragment, AtFragment, Advance
  <2>2. /\ \A id \in Ids : RoomOf(prog, chosen, Here, id)
        /\ \A l \in Positions(prog) : l # cur /\ ~Behind(l, cur) => Meets(Here, l)
    BY <2>1 DEF GrowthOffsets
  <2>3. Ids' = Ids
    BY <2>1 DEF Ids
  <2>4. /\ Here'.prog = prog /\ Here'.off = Here.off /\ Here'.ssize = Here.ssize
        /\ Here'.cached = Here.cached /\ Here.chosen = chosen /\ Here'.chosen = chosen'
    BY <2>1 DEF Here
  <2>5. \A l : LabelOffset(Here', l) = LabelOffset(Here, l)
    BY <1>0, <2>4 DEF LabelOffset
  <2>6. ASSUME NEW id \in Ids PROVE RoomOf(prog, chosen', Here', id)
    BY <1>0, <2>1, <2>2, <2>5 DEF Gap, TypeOK, RoomOf
  <2>7. ASSUME NEW l \in Positions(prog), l # cur', ~Behind(l, cur')
        PROVE  Meets(Here', l)
    <3>1. l \in Nat \X Nat /\ cur \in Nat \X Nat
      BY <1>0, <2>1, PositionsOfProgram, FragmentsOfProgram DEF Ids
    <3>2. l # cur /\ ~Behind(l, cur)
      BY <2>1, <2>7, <3>1, BehindNextFragment
    <3>3. Meets(Here, l)
      BY <2>2, <3>2
    <3>4. EndBefore(Here', l) = EndBefore(Here, l)
      <4>1. CASE l[2] = 1
        BY <4>1 DEF EndBefore
      <4>2. CASE l[2] # 1
        <5>1. PICK id \in Ids : id = <<l[1], l[2] - 1>>
          BY <1>0, <4>2, PositionsOfProgram DEF Ids
        <5>2. id # cur
          BY <2>1, <2>7, <3>1, <4>2, <5>1
        <5>3. chosen'[id] = chosen[id]
          BY <2>1, <5>2 DEF SettlingInv, TypeOK
        <5>4. FragEnd(Here', id) = FragEnd(Here, id)
          BY <1>0, <2>4, <5>3 DEF FragEnd, FragSize
        <5> QED
          BY <4>2, <5>1, <5>4 DEF EndBefore
      <4> QED
        BY <4>1, <4>2
    <3> QED
      BY <2>5, <3>3, <3>4 DEF Meets
  <2> QED
    BY <2>1, <2>2, <2>3, <2>6, <2>7 DEF GrowthOffsets
<1>4. CASE EndOfGrowth /\ pc' = "relax"
  <2>1. /\ pc = "relax" /\ Mode = FromLastPass /\ CloseSection("decide")
        /\ UNCHANGED <<prog, layout>>
    BY <1>4 DEF EndOfGrowth
  <2>2. cur \in Positions(prog)
    BY <2>1 DEF SettlingInv, RelaxWalk
  <2>3. \A l \in Positions(prog) : Behind(l, cur') <=> Behind(l, cur) \/ l = cur
    BY <1>0, <1>4, <2>1, <2>2, NextSection
  <2>4. Here' = Here /\ Ids' = Ids /\ chosen' = chosen /\ prog' = prog
    BY <2>1, HereStays DEF Ids, layout
  <2> QED
    BY <2>1, <2>3, <2>4 DEF GrowthOffsets
<1>5. CASE UNCHANGED vars
  BY <1>5 DEF vars, layout, walk, Here, GrowthOffsets, Ids, Mode
<1>6. ASSUME Next, pc' = "relax", Mode' = FromLastPass, ~EndOfOffsets, ~GrowFragment, ~EndOfGrowth
      PROVE  UNCHANGED vars
  BY <1>6 DEF Next, AssignAddress, NextRound, EndOfAddresses, PlaceFragment,
              GrowInOrder, RepickEachPass, Repick, Repad, MoveOnly, EndOfWalk, Settle,
              NextPass, GiveUp, Emit, PlaceImage, ApplyFixups, Stop, Pick, vars, InOrderWalk,
              Mode, CloseSection, IsPlacing, FromLastPass, InOrder, EachPass, Shrinking
<1> QED
  BY <1>1, <1>2, <1>3, <1>4, <1>5, <1>6

(* Code that only grows is all there is in a file that only grows.         *)
LEMMA GrowingFiles ==
    ASSUME NEW p \in Program
    PROVE  AllGrow(p) <=> FileRelaxation(p) = FromLastPass
<1>1. ASSUME AllGrow(p) PROVE FileRelaxation(p) = FromLastPass
  BY <1>1, FilesRelaxation DEF AllGrow
<1>2. ASSUME FileRelaxation(p) = FromLastPass, NEW id \in FragIds(p)
      PROVE  FragAt(p, id).mode = FromLastPass
  BY <1>2, FilesRelaxation DEF Relaxation, FromLastPass, InOrder, EachPass, Shrinking
<1> QED
  BY <1>1, <1>2 DEF AllGrow

-----------------------------------------------------------------------------
(* No fragment is larger than in any layout that reaches.                  *)
NoneIsLarger ==
    Straight(prog) =>
        \A c \in ChoicesOf(prog) : Reaching(LayoutOf(prog, c)) => \A id \in Ids : chosen[id] <= c[id]

(* Every fragment starts in its first form.                                *)
LEMMA NoneIsLargerAtFirst ==
    ASSUME Init
    PROVE  NoneIsLarger
<1>1. prog \in Program
  BY InitialTypes DEF TypeOK
<1>2. ASSUME NEW c \in ChoicesOf(prog), NEW id \in Ids PROVE chosen[id] <= c[id]
  BY <1>1, ChoicesAreCandidates, FragmentsOfProgram DEF Ids, Init
<1> QED
  BY <1>2 DEF NoneIsLarger

(* A fragment that is as large as in a layout that reaches does not grow.  *)
LEMMA NoneOutgrows ==
    ASSUME SettlingInv, GrowthOffsets, NoneIsLarger, GrowFragment, Straight(prog),
           NEW c \in ChoicesOf(prog), Reaching(LayoutOf(prog, c)),
           chosen[cur] = c[cur]
    PROVE  ~Grows(cur)
<1>1. /\ TypeOK /\ pc = "relax" /\ Mode = FromLastPass /\ cur \in Ids
      /\ prog \in Program /\ cur \in FragIds(prog)
      /\ AllBytes(prog)
  BY DEF SettlingInv, GrowFragment, AtFragment, TypeOK, Straight, Ids
<1>2. IsLayout(Here) /\ Here.prog = prog /\ Here.chosen = chosen /\ Here.addr = addr
  BY <1>1, HereIsLayout DEF Here
<1>3. PICK M : M = LayoutOf(prog, c)
  OBVIOUS
<1>4. /\ Offsets(M, prog) /\ M.chosen = c
      /\ \A id \in FragIds(prog) : Gap(M, id) = LengthOf(prog, c, id)
  BY <1>1, <1>3, ChosenLayout
<1>5. Offsets(Here, prog)
  BY <1>1, <1>2, PositionsAreNatural DEF TypeOK, Sections, Offsets
<1>6. /\ \A id \in Ids : RoomOf(prog, chosen, Here, id)
      /\ \A l \in Positions(prog) : l # cur /\ ~Behind(l, cur) => Meets(Here, l)
  BY <1>1 DEF GrowthOffsets
<1>7. PICK g \in Nat : ReachedInSteps(prog, g)
  BY DEF Straight, NearerIsReached
<1>8. \A id \in FragIds(prog) : chosen[id] <= c[id]
  BY <1>1 DEF NoneIsLarger, Ids
<1>9. ASSUME NEW id \in FragIds(prog)
      PROVE  /\ After(id) \in Positions(prog)
             /\ FragAt(prog, id).kind = "bytes"
             /\ chosen[id] \in 1 .. Candidates(prog, id) /\ c[id] \in 1 .. Candidates(prog, id)
             /\ FragSize(Here, id) = FragAt(prog, id).variants[chosen[id]].len
  BY <1>1, <1>2, PositionsOfFragment, ChoicesAreCandidates DEF After, AllBytes, TypeOK, Ids,
     FragSize
<1>10. ASSUME NEW id \in FragIds(prog)
       PROVE  0 <= Gap(Here, id) /\ Gap(M, id) - Gap(Here, id) \in Steps(g)
  <2>1. 0 <= Gap(Here, id)
    BY <1>6 DEF RoomOf, Ids
  <2>2. PICK j \in 1 .. chosen[id] : Gap(Here, id) = FragAt(prog, id).variants[j].len
    BY <1>6, <1>9 DEF RoomOf, Ids
  <2>3. Candidates(prog, id) \in Nat
    BY <1>1, FragmentsOfProgram
  <2>4. j \in 1 .. Candidates(prog, id) /\ j <= c[id]
    BY <1>8, <1>9, <2>3
  <2>5. Gap(M, id) = FragAt(prog, id).variants[c[id]].len
    BY <1>4 DEF LengthOf
  <2> QED
    BY <1>7, <1>9, <2>1, <2>2, <2>4, <2>5 DEF ReachedInSteps, InSteps
<1>11. NoWider(Here, M, g)
  BY <1>2, <1>10 DEF NoWider
<1>12. SUFFICES ASSUME Grows(cur) PROVE FALSE
  OBVIOUS
<1>13. PICK k : k = chosen[cur]
  OBVIOUS
<1>14. /\ k \in 1 .. Candidates(prog, cur) /\ k < Candidates(prog, cur)
       /\ Here.chosen[cur] = k /\ M.chosen[cur] = k
       /\ ~VariantFits(Here, cur, k, 0)
  BY <1>1, <1>2, <1>4, <1>9, <1>12, <1>13 DEF Grows
<1>15. VariantFits(M, cur, k, 0)
  BY <1>1, <1>3, <1>4, <1>14 DEF Reaching, Offsets
<1>16. Gap(M, cur) = FragAt(prog, cur).variants[k].len
  BY <1>1, <1>4, <1>13 DEF LengthOf
<1>17. Gap(Here, cur) = FragAt(prog, cur).variants[k].len
  <2>1. cur \in Nat \X Nat
    BY <1>1, FragmentsOfProgram
  <2>2. After(cur) # cur /\ ~Behind(After(cur), cur)
    BY <2>1, BehindNextFragment DEF After
  <2>3. Meets(Here, After(cur))
    BY <1>1, <1>6, <1>9, <2>2
  <2>4. Gap(Here, cur) = FragSize(Here, cur)
    BY <1>1, <1>2, <2>3, MeetingGap
  <2> QED
    BY <1>1, <1>9, <1>13, <2>4
<1>18. VariantFits(Here, cur, k, 0)
  BY <1>1, <1>4, <1>5, <1>7, <1>11, <1>14, <1>15, <1>16, <1>17, CloserReaches
<1> QED
  BY <1>14, <1>18

(* A fragment grows only where no layout that reaches has it smaller.      *)
LEMMA GrowthKeepsSmallest ==
    ASSUME SettlingInv, GrowthOffsets, NoneIsLarger, GrowFragment
    PROVE  NoneIsLarger'
<1>1. /\ prog' = prog /\ Ids' = Ids /\ cur \in Ids
      /\ chosen' = IF Grows(cur) THEN [chosen EXCEPT ![cur] = @ + 1] ELSE chosen
      /\ chosen \in [Ids -> Nat \ {0}] /\ prog \in Program
  BY DEF GrowFragment, AtFragment, Ids, SettlingInv, TypeOK
<1>2. SUFFICES ASSUME Straight(prog), NEW c \in ChoicesOf(prog), Reaching(LayoutOf(prog, c)),
                      NEW id \in Ids
               PROVE  chosen'[id] <= c[id]
  BY <1>1 DEF NoneIsLarger
<1>3. chosen[id] <= c[id] /\ chosen[id] \in Nat
  BY <1>1, <1>2 DEF NoneIsLarger
<1>4. c[id] \in Nat
  BY <1>1, ChoicesAreCandidates, FragmentsOfProgram DEF Ids
<1>5. CASE id = cur /\ Grows(cur)
  BY <1>1, <1>2, <1>3, <1>4, <1>5, NoneOutgrows
<1>6. CASE ~(id = cur /\ Grows(cur))
  BY <1>1, <1>3, <1>6
<1> QED
  BY <1>5, <1>6

(* Every other step but an emission leaves the choices alone, in code that *)
(* only grows.                                                             *)
LEMMA OtherStepsKeepSmallest ==
    ASSUME TypeOK, NoneIsLarger, [Next]_vars, ~GrowFragment, ~Emit
    PROVE  NoneIsLarger'
<1>1. prog \in Program
  BY DEF TypeOK
<1>2. CASE GrowInOrder \/ RepickEachPass \/ Repick
  BY <1>1, <1>2, GrowingFiles DEF GrowInOrder, RepickEachPass, Repick, Pick, InOrderWalk, Mode,
     NoneIsLarger, Straight
<1>3. CASE prog' = prog /\ chosen' = chosen
  BY <1>3 DEF NoneIsLarger, Ids
<1>4. ASSUME Next, ~GrowInOrder, ~RepickEachPass, ~Repick
      PROVE  prog' = prog /\ chosen' = chosen
  BY <1>4 DEF Next, AssignAddress, NextRound, EndOfAddresses, PlaceFragment, EndOfOffsets,
              EndOfGrowth, Repad, MoveOnly, EndOfWalk, Settle, NextPass, GiveUp, PlaceImage,
              ApplyFixups, Stop, layout, vars
<1>5. UNCHANGED vars => prog' = prog /\ chosen' = chosen
  BY DEF vars, layout
<1> QED
  BY <1>2, <1>3, <1>4, <1>5

-----------------------------------------------------------------------------
(* Program q is program p with sections added after those it has, none of  *)
(* which a field of p's names.                                             *)
NamesOnly(p, q, e) == \A l \in Symbols(e) : IsDefined(q, l) => IsDefined(p, l)

(* The expressions a fragment's contents or size come from.                *)
Expressions(p, id) ==
    LET frag == FragAt(p, id)
    IN  CASE frag.kind = "bytes" ->
               UNION {{frag.variants[k].fixups[i].expr : i \in DOMAIN frag.variants[k].fixups} :
                         k \in 1 .. Candidates(p, id)}
          [] frag.kind = "org" -> {frag.target}
          [] frag.kind = "space" -> {frag.size}
          [] frag.kind = "leb" -> {frag.value}
          [] OTHER -> {}

Appended(p, q) ==
    /\ q.relocatable = p.relocatable
    /\ DOMAIN p.sections \subseteq DOMAIN q.sections
    /\ \A s \in DOMAIN p.sections : q.sections[s] = p.sections[s]
    /\ \A id \in FragIds(p) : \A e \in Expressions(p, id) : NamesOnly(p, q, e)

LEMMA FixupExpressions ==
    ASSUME NEW p, NEW id, FragAt(p, id).kind = "bytes", NEW k \in 1 .. Candidates(p, id),
           NEW fx, fx = FragAt(p, id).variants[k].fixups, NEW i \in DOMAIN fx
    PROVE  fx[i].expr \in Expressions(p, id)
<1> DEFINE Of(j) == {FragAt(p, id).variants[j].fixups[n].expr :
                         n \in DOMAIN FragAt(p, id).variants[j].fixups}
<1>1. Expressions(p, id) = UNION {Of(j) : j \in 1 .. Candidates(p, id)}
  BY DEF Expressions
<1>2. fx[i].expr \in Of(k)
  OBVIOUS
<1> HIDE DEF Of
<1>3. Of(k) \in {Of(j) : j \in 1 .. Candidates(p, id)}
  OBVIOUS
<1> QED
  BY <1>1, <1>2, <1>3

(* Sections appended change nothing a field of an old one names.           *)
LEMMA AppendedFields ==
    ASSUME NEW p, NEW q, Appended(p, q), NEW id \in FragIds(p), FragAt(p, id).kind = "bytes",
           NEW k \in 1 .. Candidates(p, id), NEW i \in DOMAIN FragAt(p, id).variants[k].fixups
    PROVE  NamesOnly(p, q, FragAt(p, id).variants[k].fixups[i].expr)
BY FixupExpressions DEF Appended

(* They add fragments, and take none away.                                 *)
LEMMA AppendedFragments ==
    ASSUME NEW p \in Program, NEW q \in Program, Appended(p, q)
    PROVE  /\ \A s \in DOMAIN p.sections : NumFrags(q, s) = NumFrags(p, s)
           /\ \A id : id \in FragIds(p) <=> id \in FragIds(q) /\ id[1] \in DOMAIN p.sections
           /\ \A id \in FragIds(p) : /\ FragAt(q, id) = FragAt(p, id)
                                     /\ Candidates(q, id) = Candidates(p, id)
           /\ \A l : IsDefined(p, l) => PositionOf(q, l) = PositionOf(p, l)
           /\ Positions(p) \subseteq Positions(q)
<1>1. \A s \in DOMAIN p.sections : s \in DOMAIN q.sections /\ q.sections[s] = p.sections[s]
  BY DEF Appended
<1>2. \A s \in DOMAIN p.sections : NumFrags(q, s) = NumFrags(p, s)
  BY <1>1 DEF NumFrags
<1>3. \A id : id \in FragIds(p) <=> id \in FragIds(q) /\ id[1] \in DOMAIN p.sections
  BY <1>1 DEF FragIds
<1>4. ASSUME NEW id \in FragIds(p)
      PROVE  FragAt(q, id) = FragAt(p, id) /\ Candidates(q, id) = Candidates(p, id)
  BY <1>1, <1>3 DEF FragAt, Candidates
<1>5. ASSUME NEW l, IsDefined(p, l) PROVE PositionOf(q, l) = PositionOf(p, l)
  BY <1>2, <1>3, <1>5 DEF IsDefined, PositionOf
<1>6. Positions(p) \subseteq Positions(q)
  BY <1>1, <1>2 DEF Positions
<1> QED
  BY <1>2, <1>3, <1>4, <1>5, <1>6

(* They make no field a distance that was none, and the other way round.   *)
LEMMA AppendedDistances ==
    ASSUME NEW p \in Program, NEW q \in Program, Appended(p, q), NEW id,
           NEW x, NamesOnly(p, q, x.expr)
    PROVE  IsDistance(q, id, x) <=> IsDistance(p, id, x)
BY DEF Appended, IsDefined, HasAddress, NamesOnly, DistanceIsRelocated, IsDistance

(* A program is straight if it is with sections appended.                  *)
LEMMA AppendedIsStraight ==
    ASSUME NEW p \in Program, NEW q \in Program, Appended(p, q), Straight(q)
    PROVE  /\ Straight(p)
           /\ \A g \in Nat : ReachedInSteps(q, g) => ReachedInSteps(p, g)
<1>1. \A id \in FragIds(p) : /\ id \in FragIds(q)
                             /\ FragAt(q, id) = FragAt(p, id)
                             /\ Candidates(q, id) = Candidates(p, id)
  BY AppendedFragments
<1>2. p.relocatable /\ AllGrow(p) /\ AllBytes(p)
  BY <1>1 DEF Straight, AllGrow, AllBytes, Appended
<1>3. ASSUME NEW g \in Nat, ReachedInSteps(q, g), NEW id \in FragIds(p), NEW k \in 1 .. Candidates(p, id) - 1,
             FragAt(p, id).kind = "bytes",
             NEW x, \E i \in DOMAIN FragAt(p, id).variants[k].fixups :
                       x = FragAt(p, id).variants[k].fixups[i],
             IsDistance(p, id, x)
      PROVE  ReachesNearer(p, id, k, x, g)
  <2>1. PICK i \in DOMAIN FragAt(p, id).variants[k].fixups :
               x = FragAt(p, id).variants[k].fixups[i]
    BY <1>3
  <2>2. k \in 1 .. Candidates(p, id)
    BY FragmentsOfProgram
  <2>3. NamesOnly(p, q, x.expr)
    BY <1>3, <2>1, <2>2, AppendedFields
  <2>4. IsDistance(q, id, x)
    BY <1>3, <2>3, AppendedDistances
  <2>5. ReachesNearer(q, id, k, x, g)
    BY <1>1, <1>3, <2>1, <2>4 DEF ReachedInSteps
  <2> DEFINE t == CHOOSE m \in x.expr.plus : TRUE
             u == CHOOSE m \in x.expr.minus : TRUE
  <2>6. PositionOf(q, t) = PositionOf(p, t)
    <3>1. t \in x.expr.plus
      BY <1>3 DEF IsDistance
    <3>2. IsDefined(p, t)
      BY <1>3, <3>1 DEF IsDistance, HasAddress, Symbols
    <3> HIDE DEF t
    <3> QED
      BY <3>2, AppendedFragments
  <2>7. ~x.pcrel => PositionOf(q, u) = PositionOf(p, u)
    <3>1. SUFFICES ASSUME ~x.pcrel PROVE PositionOf(q, u) = PositionOf(p, u)
      OBVIOUS
    <3>2. u \in x.expr.minus
      BY <1>3, <3>1 DEF IsDistance
    <3>3. IsDefined(p, u)
      BY <1>3, <3>2 DEF IsDistance, HasAddress, Symbols
    <3> HIDE DEF u
    <3> QED
      BY <3>3, AppendedFragments
  <2>8. FragAt(q, id) = FragAt(p, id)
    BY <1>1
  <2> QED
    BY <2>5, <2>6, <2>7, <2>8 DEF ReachesNearer
<1>4. ASSUME NEW g \in Nat, ReachedInSteps(q, g)
      PROVE  ReachedInSteps(p, g)
  <2>1. InSteps(p, g)
    BY <1>1, <1>4 DEF ReachedInSteps, InSteps
  <2>2. ASSUME NEW id \in FragIds(p), NEW k \in 1 .. Candidates(p, id) - 1,
               FragAt(p, id).kind = "bytes",
               NEW i \in DOMAIN FragAt(p, id).variants[k].fixups
        PROVE  /\ ~IsAnchored(FragAt(p, id).variants[k].fixups[i], id)
               /\ IsDistance(p, id, FragAt(p, id).variants[k].fixups[i])
                    => ReachesNearer(p, id, k, FragAt(p, id).variants[k].fixups[i], g)
    <3>1. PICK x : x = FragAt(p, id).variants[k].fixups[i]
      OBVIOUS
    <3>2. IsDistance(p, id, x) => ReachesNearer(p, id, k, x, g)
      BY <1>3, <1>4, <2>2, <3>1
    <3>3. ~IsAnchored(x, id)
      BY <1>1, <1>4, <2>2, <3>1 DEF ReachedInSteps
    <3> QED
      BY <3>1, <3>2, <3>3
  <2> QED
    BY <2>1, <2>2 DEF ReachedInSteps
<1>5. NearerIsReached(p)
  BY <1>4 DEF Straight, NearerIsReached
<1> QED
  BY <1>2, <1>4, <1>5 DEF Straight

(* The sections there were are laid out as they are without the others.    *)
LEMMA RestrictedChoice ==
    ASSUME NEW p \in Program, NEW q \in Program, Appended(p, q), NEW d \in ChoicesOf(q),
           NEW c, c = [id \in FragIds(p) |-> d[id]]
    PROVE  c \in ChoicesOf(p)
<1>1. ASSUME NEW id \in FragIds(p)
      PROVE  c[id] = d[id] /\ c[id] \in 1 .. Candidates(p, id) /\ c[id] <= Candidates(p, id)
  BY AppendedFragments, ChoicesAreCandidates, FragmentsOfProgram
<1> DEFINE widest == {Candidates(p, id) : id \in FragIds(p)}
<1>2. \A id \in FragIds(p) : d[id] \in UNION {1 .. n : n \in widest}
  BY <1>1
<1>3. c \in [FragIds(p) -> UNION {1 .. n : n \in widest}]
  BY <1>2
<1> QED
  BY <1>1, <1>3 DEF ChoicesOf

(* The offsets of the old sections are those of the choices about them.    *)
LEMMA RestrictedOffsets ==
    ASSUME NEW p \in Program, NEW q \in Program, Appended(p, q), AllBytes(q),
           NEW d \in ChoicesOf(q), NEW c, c = [id \in FragIds(p) |-> d[id]],
           NEW l \in Positions(p)
    PROVE  LabelOffset(LayoutOf(q, d), l) = LabelOffset(LayoutOf(p, c), l)
<1>1. /\ l \in Nat \X Nat /\ l[1] \in DOMAIN p.sections /\ NumFrags(p, l[1]) \in Nat
      /\ l[2] \in 1 .. NumFrags(p, l[1]) + 1
  BY PositionsOfProgram
<1>2. PICK s \in DOMAIN p.sections, N \in Nat : s = l[1] /\ N = NumFrags(p, s)
  BY <1>1
<1>3. PICK f \in 1 .. N + 1 : l = <<s, f>>
  BY <1>1, <1>2
<1>4. s \in DOMAIN q.sections /\ NumFrags(q, s) = N
  BY <1>2, AppendedFragments DEF Appended
<1>5. AllBytes(p) /\ c \in ChoicesOf(p)
  BY AppendedFragments, RestrictedChoice DEF AllBytes
<1>6. PICK a, b : a = StartsOf(p, c, s) /\ b = StartsOf(q, d, s)
  OBVIOUS
<1>7. /\ a[1] = 0
      /\ \A g \in 1 .. N : LengthOf(p, c, <<s, g>>) \in Nat
                           /\ a[g + 1] = a[g] + LengthOf(p, c, <<s, g>>)
      /\ \A g \in 1 .. N + 1 : a[g] \in Nat
  BY <1>2, <1>5, <1>6, StartsFollow
<1>8. /\ b[1] = 0
      /\ \A g \in 1 .. N : LengthOf(q, d, <<s, g>>) \in Nat
                           /\ b[g + 1] = b[g] + LengthOf(q, d, <<s, g>>)
      /\ \A g \in 1 .. N + 1 : b[g] \in Nat
  BY <1>4, <1>6, StartsFollow
<1>9. ASSUME NEW g \in 1 .. N PROVE LengthOf(q, d, <<s, g>>) = LengthOf(p, c, <<s, g>>)
  <2>1. g \in 1 .. NumFrags(p, s) + 1 /\ g # NumFrags(p, s) + 1
    BY <1>2
  <2>2. PICK id \in FragIds(p) : id = <<s, g>>
    BY <2>1, OffsetsOfLayout
  <2>3. FragAt(q, id) = FragAt(p, id) /\ c[id] = d[id]
    BY AppendedFragments
  <2> QED
    BY <2>2, <2>3 DEF LengthOf
<1>10. ASSUME NEW g \in 1 .. N
       PROVE  a[g] <= a[g + 1] /\ (b[g + 1] - b[g]) - (a[g + 1] - a[g]) \in Steps(0)
  <2>1. g \in 1 .. N + 1 /\ g + 1 \in 1 .. N + 1
    OBVIOUS
  <2>2. PICK len \in Nat : a[g + 1] = a[g] + len /\ b[g + 1] = b[g] + len
    BY <1>7, <1>8, <1>9
  <2>3. a[g] \in Nat /\ b[g] \in Nat
    BY <1>7, <1>8, <2>1
  <2>4. a[g] <= a[g + 1] /\ (b[g + 1] - b[g]) - (a[g + 1] - a[g]) = 0
    BY ONLY <2>2, <2>3
  <2> QED
    BY <2>4, StepsAdd
<1>11. 1 \in 1 .. N + 1 /\ 1 <= f
  OBVIOUS
<1>12. \A g \in 1 .. N + 1 : a[g] \in Int /\ b[g] \in Int
  BY <1>7, <1>8
<1>13. (b[f] - b[1]) - (a[f] - a[1]) \in Steps(0)
  BY <1>10, <1>11, <1>12, DistancesFollowGaps
<1>14. (b[f] - b[1]) - (a[f] - a[1]) = 0
  BY <1>13 DEF Steps
<1>15. a[f] \in Nat /\ b[f] \in Nat
  BY <1>7, <1>8
<1>16. a[f] = b[f]
  BY <1>7, <1>8, <1>14, <1>15
<1>17. LabelOffset(LayoutOf(p, c), <<s, f>>) = a[f]
  BY <1>2, <1>6, OffsetsOfLayout
<1>18. LabelOffset(LayoutOf(q, d), <<s, f>>) = b[f]
  BY <1>4, <1>6, OffsetsOfLayout
<1> QED
  BY <1>3, <1>16, <1>17, <1>18

(* The fields of the old sections hold the same.                           *)
LEMMA RestrictedField ==
    ASSUME NEW p \in Program, NEW q \in Program, Appended(p, q), p.relocatable,
           NEW L, Offsets(L, p), NEW M, Offsets(M, q),
           \A l \in Positions(p) : LabelOffset(M, l) = LabelOffset(L, l),
           NEW id \in FragIds(p), NEW k, NEW g, NEW x \in Fixup, NamesOnly(p, q, x.expr),
           ~IsAnchored(x, id), IsDistance(p, id, x) => ReachesNearer(p, id, k, x, g)
    PROVE  FixupValue(M, x, id, NoShift) = FixupValue(L, x, id, NoShift)
<1>1. /\ q.relocatable /\ id \in FragIds(q) /\ id \in Positions(p)
      /\ IsDistance(q, id, x) <=> IsDistance(p, id, x)
  BY AppendedFragments, AppendedDistances, PositionsOfFragment DEF Appended
<1>2. CASE ~IsDistance(p, id, x)
  <2>1. PICK b \in BOOLEAN : b <=> Symbols(x.expr) = {} /\ ~x.pcrel /\ ~x.deferred
    OBVIOUS
  <2>2. FixupValue(L, x, id, NoShift) = IF b THEN {x.expr.add} ELSE {}
    BY <1>2, <2>1, OtherFields DEF Offsets
  <2>3. FixupValue(M, x, id, NoShift) = IF b THEN {x.expr.add} ELSE {}
    BY <1>1, <1>2, <2>1, OtherFields DEF Offsets
  <2> QED
    BY <2>2, <2>3
<1>3. CASE IsDistance(p, id, x) /\ x.pcrel
  <2>1. x.pcAlign = 1 /\ OneLabel(x.expr.plus)
    BY <1>3 DEF ReachesNearer
  <2>2. PICK t : t = CHOOSE m \in x.expr.plus : TRUE
    OBVIOUS
  <2>3. IsDefined(p, t)
    BY <1>3, <2>2 DEF IsDistance, HasAddress, Symbols
  <2>4. PICK l : l = PositionOf(p, t)
    OBVIOUS
  <2>5. l = PositionOf(q, t)
    BY <2>3, <2>4, AppendedFragments
  <2>6. /\ l \in Positions(p)
        /\ FixupValue(L, x, id, NoShift)
             = {x.expr.add - x.at - x.adjust + (LabelOffset(L, l) - LabelOffset(L, id))}
    BY <1>3, <2>1, <2>2, <2>4, PcrelDistance
  <2>7. FixupValue(M, x, id, NoShift)
             = {x.expr.add - x.at - x.adjust + (LabelOffset(M, l) - LabelOffset(M, id))}
    BY <1>1, <1>3, <2>1, <2>2, <2>5, PcrelDistance
  <2>8. LabelOffset(M, l) = LabelOffset(L, l) /\ LabelOffset(M, id) = LabelOffset(L, id)
    BY <1>1, <2>6
  <2> QED
    BY <2>6, <2>7, <2>8
<1>4. CASE IsDistance(p, id, x) /\ ~x.pcrel
  <2>1. PICK t, u : t = (CHOOSE n \in x.expr.plus : TRUE) /\ u = CHOOSE n \in x.expr.minus : TRUE
    OBVIOUS
  <2>2. IsDefined(p, t) /\ IsDefined(p, u)
    BY <1>4, <2>1 DEF IsDistance, HasAddress, Symbols
  <2>3. PICK l, m : l = PositionOf(p, t) /\ m = PositionOf(p, u)
    OBVIOUS
  <2>4. l = PositionOf(q, t) /\ m = PositionOf(q, u)
    BY <2>2, <2>3, AppendedFragments
  <2>5. /\ l \in Positions(p) /\ m \in Positions(p)
        /\ FixupValue(L, x, id, NoShift)
             = {x.expr.add + (LabelOffset(L, l) - LabelOffset(L, m))}
    BY <1>4, <2>1, <2>3, DifferenceDistance
  <2>6. FixupValue(M, x, id, NoShift)
             = {x.expr.add + (LabelOffset(M, l) - LabelOffset(M, m))}
    BY <1>1, <1>4, <2>1, <2>4, DifferenceDistance
  <2>7. LabelOffset(M, l) = LabelOffset(L, l) /\ LabelOffset(M, m) = LabelOffset(L, m)
    BY <2>5
  <2> QED
    BY <2>5, <2>6, <2>7
<1> QED
  BY <1>2, <1>3, <1>4

(* What reaches with the sections appended does so without them.           *)
LEMMA RestrictedReaches ==
    ASSUME NEW p \in Program, NEW q \in Program, Appended(p, q), Straight(q),
           NEW d \in ChoicesOf(q), Reaching(LayoutOf(q, d)),
           NEW c, c = [id \in FragIds(p) |-> d[id]]
    PROVE  Reaching(LayoutOf(p, c))
<1>1. Straight(p) /\ AllBytes(p) /\ AllGrow(p) /\ AllBytes(q) /\ AllGrow(q) /\ p.relocatable
  BY AppendedIsStraight DEF Straight
<1>2. PICK L, M : L = LayoutOf(p, c) /\ M = LayoutOf(q, d)
  OBVIOUS
<1>3. c \in ChoicesOf(p)
  BY RestrictedChoice
<1>4. Offsets(L, p) /\ L.chosen = c
  BY <1>1, <1>2, <1>3, ChosenLayout
<1>5. Offsets(M, q) /\ M.chosen = d
  BY <1>1, <1>2, ChosenLayout
<1>6. \A l \in Positions(p) : LabelOffset(M, l) = LabelOffset(L, l)
  BY <1>1, <1>2, RestrictedOffsets
<1>7. SUFFICES ASSUME NEW id \in FragIds(p), c[id] < Candidates(p, id)
               PROVE  VariantFits(L, id, c[id], 0)
  BY <1>2, <1>4 DEF Reaching, Offsets
<1>8. PICK k : k = c[id]
  OBVIOUS
<1>9. /\ k \in 1 .. Candidates(p, id) /\ k < Candidates(p, id) /\ k = d[id]
      /\ k \in 1 .. Candidates(p, id) - 1
  BY <1>3, <1>7, <1>8, ChoicesAreCandidates, FragmentsOfProgram
<1>10. /\ id \in FragIds(q) /\ FragAt(q, id) = FragAt(p, id)
       /\ Candidates(q, id) = Candidates(p, id)
       /\ FragAt(p, id).kind = "bytes" /\ FragAt(p, id).mode # Shrinking
  BY <1>1, AppendedFragments DEF AllBytes, AllGrow, FromLastPass, Shrinking
<1>11. VariantFits(M, id, k, 0)
  BY <1>2, <1>5, <1>9, <1>10 DEF Reaching, Offsets
<1>12. PICK fx : fx = FragAt(p, id).variants[k].fixups
  OBVIOUS
<1>13. fx \in Seq(Fixup) /\ (VariantFits(L, id, k, 0) <=> FieldsReach(L, id, fx))
  BY <1>4, <1>8, <1>9, <1>10, <1>12, FitsByFields DEF Offsets
<1>14. VariantFits(M, id, k, 0) <=> FieldsReach(M, id, fx)
  BY <1>5, <1>9, <1>10, <1>12, FitsByFields DEF Offsets
<1>15. ASSUME NEW i \in DOMAIN fx
       PROVE  Reaches(fx[i], FixupValue(L, fx[i], id, NoShift))
  <2>1. fx[i] \in Fixup /\ FragAt(p, id).kind = "bytes"
    BY <1>1, <1>13 DEF AllBytes
  <2>2. NamesOnly(p, q, fx[i].expr)
    BY <1>9, <1>12, <2>1, AppendedFields
  <2>3. PICK g \in Nat : ReachedInSteps(p, g)
    BY <1>1 DEF Straight, NearerIsReached
  <2>6. /\ ~IsAnchored(fx[i], id)
        /\ IsDistance(p, id, fx[i]) => ReachesNearer(p, id, k, fx[i], g)
    BY <1>9, <1>12, <2>1, <2>3 DEF ReachedInSteps
  <2>4. FixupValue(M, fx[i], id, NoShift) = FixupValue(L, fx[i], id, NoShift)
    BY SMTT(30), <1>1, <1>4, <1>5, <1>6, <2>1, <2>2, <2>6, RestrictedField
  <2>5. Reaches(fx[i], FixupValue(M, fx[i], id, NoShift))
    BY <1>11, <1>14 DEF FieldsReach
  <2> QED
    BY <2>4, <2>5
<1> QED
  BY <1>8, <1>13, <1>15 DEF FieldsReach

-----------------------------------------------------------------------------
(* Nothing in the sections laid out so far names the sections about to be  *)
(* added: line tables and unwind records have no names the source could    *)
(* use.                                                                    *)
NothingLateIsNamed ==
    Emits =>
        \A id \in Ids : \A e \in Expressions(prog, id) : \A l \in Symbols(e) :
            \/ l[1] <= Len(prog.sections)
            \/ l[1] > Len(prog.sections) + Len(Head(prog.late))

(* The sections a pass emits late are appended to those there are.         *)
LEMMA EmitAppends ==
    ASSUME TypeOK, Emit, NothingLateIsNamed
    PROVE  Appended(prog, prog')
<1>1. /\ prog.sections \in Seq(Section) /\ Head(prog.late) \in Seq(Section)
      /\ prog'.sections = prog.sections \o Head(prog.late)
      /\ prog'.relocatable = prog.relocatable
      /\ prog \in Program /\ Emits
  <2>1. /\ prog.sections \in Seq(Section) /\ prog.late \in Seq(Seq(Section))
        /\ prog.late # <<>> /\ prog \in Program /\ Emits
    BY DEF TypeOK, Program, Emit, Emits
  <2>2. prog' = [prog EXCEPT !.sections = @ \o Head(prog.late), !.late = Tail(@)]
    BY DEF Emit
  <2> QED
    BY <2>1, <2>2 DEF Program
<1>2. PICK old \in Seq(Section), new \in Seq(Section) :
          old = prog.sections /\ new = Head(prog.late)
  BY <1>1
<1>3. /\ DOMAIN old = 1 .. Len(old) /\ Len(old) \in Nat /\ Len(new) \in Nat
      /\ DOMAIN (old \o new) = 1 .. Len(old) + Len(new)
  OBVIOUS
<1>4. /\ DOMAIN prog.sections \subseteq DOMAIN prog'.sections
      /\ \A s \in DOMAIN prog.sections : prog'.sections[s] = prog.sections[s]
  BY EmittedSections DEF Sections
<1>5. ASSUME NEW id \in FragIds(prog), NEW e \in Expressions(prog, id)
      PROVE  NamesOnly(prog, prog', e)
  <2>1. ASSUME NEW l \in Symbols(e), IsDefined(prog', l)
        PROVE  IsDefined(prog, l)
    <3>1. l[1] <= Len(old) \/ l[1] > Len(old) + Len(new)
      BY <1>1, <1>2 DEF NothingLateIsNamed, Ids
    <3>2. l[1] \in 1 .. Len(old) + Len(new)
      BY <1>1, <1>2, <1>3, <2>1 DEF IsDefined
    <3>3. l[1] \in 1 .. Len(old)
      BY <1>3, <3>1, <3>2
    <3> QED
      BY <1>2, <1>3, <3>3 DEF IsDefined
  <2> QED
    BY <2>1 DEF NamesOnly
<1> QED
  BY <1>1, <1>4, <1>5 DEF Appended

(* So no fragment is larger than it must be after that either.             *)
LEMMA EmitKeepsSmallest ==
    ASSUME TypeOK, Emit, NothingLateIsNamed, NoneIsLarger
    PROVE  NoneIsLarger'
<1>1. /\ prog \in Program /\ prog' \in Program /\ Appended(prog, prog')
      /\ chosen' = [id \in Ids' |-> IF id \in Ids THEN chosen[id] ELSE 1]
  BY EmitExtends, EmitAppends DEF TypeOK
<1>2. PICK p \in Program, q \in Program : p = prog /\ q = prog' /\ Appended(p, q)
  BY <1>1
<1>3. Ids = FragIds(p) /\ Ids' = FragIds(q)
  BY <1>2 DEF Ids
<1>4. SUFFICES ASSUME Straight(q), NEW d \in ChoicesOf(q), Reaching(LayoutOf(q, d)),
                      NEW id \in FragIds(q)
               PROVE  chosen'[id] <= d[id]
  BY <1>2, <1>3 DEF NoneIsLarger
<1>5. d[id] \in 1 .. Candidates(q, id) /\ Candidates(q, id) \in Nat
  BY ChoicesAreCandidates, FragmentsOfProgram
<1>6. CASE id \in FragIds(p)
  <2>1. PICK c : c = [j \in FragIds(p) |-> d[j]]
    OBVIOUS
  <2>2. c \in ChoicesOf(p) /\ Reaching(LayoutOf(p, c)) /\ Straight(p)
    BY <1>2, <1>4, <2>1, RestrictedChoice, RestrictedReaches, AppendedIsStraight
  <2>3. chosen[id] <= c[id]
    BY <1>2, <1>3, <1>6, <2>2 DEF NoneIsLarger
  <2>4. c[id] = d[id]
    BY <1>6, <2>1
  <2>5. chosen'[id] = chosen[id]
    BY <1>1, <1>3, <1>6
  <2> QED
    BY <2>3, <2>4, <2>5
<1>7. CASE id \notin FragIds(p)
  BY <1>1, <1>3, <1>5, <1>7
<1> QED
  BY <1>6, <1>7

(* Layout starts each instruction at its smallest candidate, and in code   *)
(* without alignment finds the smallest layout whenever a form that        *)
(* reaches a target also reaches every nearer one: no layout in which      *)
(* every form reaches has a smaller candidate anywhere.                    *)
THEOREM GrowthFindsSmallest ==
    Spec /\ []NothingLateIsNamed => [](NearerIsReached(prog) => SmallestWithoutPadding)
<1>1. Init => NoneIsLarger /\ GrowthOffsets
  BY NoneIsLargerAtFirst DEF Init, GrowthOffsets
<1>2. SettlingInv /\ TypeOK' /\ GrowthOffsets /\ [Next]_vars => GrowthOffsets'
  BY GrowthOffsetsKept
<1>3. SettlingInv /\ GrowthOffsets /\ NoneIsLarger /\ NothingLateIsNamed /\ [Next]_vars
        => NoneIsLarger'
  <2> SUFFICES ASSUME SettlingInv, GrowthOffsets, NoneIsLarger, NothingLateIsNamed, [Next]_vars
               PROVE  NoneIsLarger'
    OBVIOUS
  <2>1. TypeOK
    BY DEF SettlingInv
  <2>2. CASE GrowFragment
    BY <2>2, GrowthKeepsSmallest
  <2>3. CASE Emit
    BY <2>1, <2>3, EmitKeepsSmallest
  <2>4. CASE ~GrowFragment /\ ~Emit
    BY <2>1, <2>4, OtherStepsKeepSmallest
  <2> QED
    BY <2>2, <2>3, <2>4
<1>4. SettlingInv /\ NoneIsLarger => (NearerIsReached(prog) => SmallestWithoutPadding)
  <2> SUFFICES ASSUME SettlingInv, NoneIsLarger, NearerIsReached(prog), Mode = FromLastPass,
                      ~SelfReferential, ~HasKind({"align"}), prog.relocatable
               PROVE  \A c \in ChoicesOf(prog) :
                          Reaching(LayoutOf(prog, c)) => \A id \in Ids : chosen[id] <= c[id]
    BY DEF SmallestWithoutPadding, NoLayoutIsSmaller
  <2>1. prog \in Program
    BY DEF SettlingInv, TypeOK
  <2>2. AllGrow(prog)
    BY <2>1, GrowingFiles DEF Mode
  <2>3. ASSUME NEW id \in FragIds(prog) PROVE FragAt(prog, id).kind = "bytes"
    BY <2>1, FragmentsOfProgram DEF Fragment, Instruction, SelfReferential, HasKind, Computed,
       Ids
  <2>4. Straight(prog)
    BY <2>2, <2>3 DEF Straight, AllBytes
  <2> QED
    BY <2>4 DEF NoneIsLarger
<1> QED
  BY <1>1, <1>2, <1>3, <1>4, SettlingInvariant, TypeCorrect, PTL DEF Spec

-----------------------------------------------------------------------------
(***************************************************************************)
(* The layout the sections added later were written from.  When they are   *)
(* laid out after the sections there were, those stay as they are: what    *)
(* the walks compute for them is what they were computed from.             *)
(***************************************************************************)

(* Layout L has the sections of layout old, and others after them.         *)
Repeats(old, L) ==
    /\ \A id \in FragIds(old.prog) :
          /\ L.chosen[id] = old.chosen[id]
          /\ L.off[id] = old.off[id]
          /\ FragAt(old.prog, id).kind # "bytes" => L.cached[id] = old.cached[id]
    /\ \A s \in DOMAIN old.prog.sections : L.ssize[s] = old.ssize[s] /\ L.addr[s] = old.addr[s]

KeepsOld(old, L) ==
    /\ IsLayout(old) /\ IsFixed(old) /\ old.prog.relocatable
    /\ L.prog \in Program /\ Appended(old.prog, L.prog)
    /\ Repeats(old, L)

(* What kept its offsets keeps the values of its expressions.              *)
LEMMA OldValues ==
    ASSUME NEW p \in Program, NEW old, old.prog = p, NEW L, KeepsOld(old, L),
           NEW id \in FragIds(p), NEW e \in Expressions(p, id)
    PROVE  /\ HasAddress(L.prog, e) <=> HasAddress(p, e)
           /\ HasAddress(p, e) => Resolve(L, e, NoShift) = Resolve(old, e, NoShift)
           /\ Value(L, e, NoShift) = Value(old, e, NoShift)
<1>1. /\ Appended(p, L.prog) /\ L.prog \in Program /\ Repeats(old, L)
      /\ NamesOnly(p, L.prog, e)
  BY DEF KeepsOld, Appended
<1>2. \A l : IsDefined(p, l) => IsDefined(L.prog, l)
  BY <1>1 DEF Appended, IsDefined
<1>3. HasAddress(L.prog, e) <=> HasAddress(p, e)
  BY <1>1, <1>2 DEF HasAddress, NamesOnly
<1>4. ASSUME NEW l, IsDefined(p, l)
      PROVE  SymbolAddr(L, l, NoShift) = SymbolAddr(old, l, NoShift)
  <2>1. l[1] \in DOMAIN p.sections
    BY <1>4 DEF IsDefined
  <2>2. L.addr[l[1]] = old.addr[l[1]] /\ L.ssize[l[1]] = old.ssize[l[1]]
    BY <1>1, <2>1 DEF Repeats
  <2>3. l \in FragIds(L.prog) <=> l \in FragIds(p)
    BY <1>1, <2>1, AppendedFragments
  <2>4. l \in FragIds(p) => L.off[l] = old.off[l]
    BY <1>1 DEF Repeats
  <2>5. LabelOffset(L, l) = LabelOffset(old, l)
    BY <2>2, <2>3, <2>4 DEF LabelOffset
  <2> QED
    BY <2>2, <2>5 DEF SymbolAddr
<1>5. ASSUME HasAddress(p, e) PROVE Resolve(L, e, NoShift) = Resolve(old, e, NoShift)
  <2>1. \A l \in e.plus \cup e.minus : SymbolAddr(L, l, NoShift) = SymbolAddr(old, l, NoShift)
    BY <1>4, <1>5 DEF HasAddress, Symbols
  <2> DEFINE TermIn(M, ls) == IF ls = {} THEN 0 ELSE SymbolAddr(M, CHOOSE l \in ls : TRUE, NoShift)
  <2>2. TermIn(L, e.plus) = TermIn(old, e.plus)
    BY <2>1
  <2>3. TermIn(L, e.minus) = TermIn(old, e.minus)
    BY <2>1
  <2>4. \A M : Resolve(M, e, NoShift) = e.add + TermIn(M, e.plus) - TermIn(M, e.minus)
    BY DEF Resolve
  <2> HIDE DEF TermIn
  <2> QED
    BY <2>2, <2>3, <2>4
<1> QED
  BY <1>3, <1>5 DEF Value

(* What a field is filled in with does not change either.                  *)
LEMMA OldFields ==
    ASSUME NEW p \in Program, NEW old, old.prog = p, NEW L, KeepsOld(old, L),
           NEW id \in FragIds(p), NEW x, x.expr \in Expressions(p, id)
    PROVE  FixupValue(L, x, id, NoShift) = FixupValue(old, x, id, NoShift)
<1>1. /\ Appended(p, L.prog) /\ Repeats(old, L) /\ old.prog.relocatable /\ L.prog.relocatable
  BY DEF KeepsOld, Appended
<1>2. Value(L, x.expr, NoShift) = Value(old, x.expr, NoShift)
  BY OldValues
<1>3. id[1] \in DOMAIN p.sections
  BY FragmentsOfProgram
<1>4. L.addr[id[1]] = old.addr[id[1]] /\ L.off[id] = old.off[id]
  BY <1>1, <1>3 DEF Repeats
<1>5. PcOf(L, x, id) = PcOf(old, x, id)
  BY <1>4 DEF PcOf
<1>6. DistanceIsRelocated(L.prog, x) <=> DistanceIsRelocated(old.prog, x)
  BY <1>1 DEF DistanceIsRelocated
<1> QED
  BY <1>1, <1>2, <1>4, <1>5, <1>6 DEF FixupValue

(* Nor does the size of a fragment where it is.                            *)
LEMMA OldSizes ==
    ASSUME NEW p \in Program, NEW old, old.prog = p, NEW L, KeepsOld(old, L),
           NEW id \in FragIds(p)
    PROVE  /\ FragSize(L, id) = FragSize(old, id)
           /\ FragAt(p, id).kind # "bytes" => ComputeSize(L, id, L.off[id]) = FragSize(L, id)
<1>1. /\ Appended(p, L.prog) /\ L.prog \in Program /\ Repeats(old, L) /\ SizesAgree(old)
  BY DEF KeepsOld, IsFixed
<1>2. FragAt(L.prog, id) = FragAt(p, id)
  BY <1>1, AppendedFragments
<1>3. FragSize(L, id) = FragSize(old, id)
  BY <1>1, <1>2 DEF FragSize, Repeats
<1>4. SUFFICES ASSUME FragAt(p, id).kind # "bytes"
               PROVE  ComputeSize(L, id, L.off[id]) = FragSize(L, id)
  BY <1>3
<1>5. old.cached[id] = ComputeSize(old, id, old.off[id]) /\ L.off[id] = old.off[id]
  BY <1>1, <1>4 DEF SizesAgree, Repeats
<1>6. PICK from : from = old.off[id]
  OBVIOUS
<1>7. id[1] \in DOMAIN p.sections
  BY FragmentsOfProgram
<1>8. L.addr[id[1]] = old.addr[id[1]]
  BY <1>1, <1>7 DEF Repeats
<1>9. ASSUME NEW e \in Expressions(p, id)
      PROVE  SectionRelative(L, e, id[1]) = SectionRelative(old, e, id[1])
  <2>1. ASSUME \A l \in e.plus : l[1] = id[1], e.minus = {}
        PROVE  HasAddress(p, e)
    BY <1>7, <2>1 DEF HasAddress, Symbols, IsDefined
  <2>2. HasAddress(p, e) => Resolve(L, e, NoShift) = Resolve(old, e, NoShift)
    BY OldValues
  <2> QED
    BY <1>8, <2>1, <2>2 DEF SectionRelative
<1>10. ComputeSize(L, id, from) = ComputeSize(old, id, from)
  <2>1. FragAt(p, id).kind \in {"align", "org", "space", "leb"}
    BY <1>4, FragmentsOfProgram DEF Fragment, Instruction
  <2>2. CASE FragAt(p, id).kind = "align"
    BY <1>2, <2>2 DEF ComputeSize
  <2>3. CASE FragAt(p, id).kind = "org"
    BY <1>2, <1>9, <2>3 DEF Expressions, SizeError, ComputeSize
  <2>4. CASE FragAt(p, id).kind = "space"
    <3>1. FragAt(p, id).size \in Expressions(p, id)
      BY <2>4 DEF Expressions
    <3>2. /\ HasAddress(p, FragAt(p, id).size)
               => Resolve(L, FragAt(p, id).size, NoShift) = Resolve(old, FragAt(p, id).size, NoShift)
          /\ Value(L, FragAt(p, id).size, NoShift) = Value(old, FragAt(p, id).size, NoShift)
      BY <3>1, OldValues
    <3>3. SizeError(L, id, from) = SizeError(old, id, from)
      BY <1>2, <2>4, <3>2 DEF SizeError
    <3>4. SizeError(old, id, from) = {} => HasAddress(p, FragAt(p, id).size)
      BY <2>4 DEF SizeError, Value
    <3> QED
      BY <1>2, <2>4, <3>2, <3>3, <3>4 DEF ComputeSize
  <2>5. CASE FragAt(p, id).kind = "leb"
    BY <1>2, <2>5, OldValues DEF Expressions, ComputeSize
  <2> QED
    BY <2>1, <2>2, <2>3, <2>4, <2>5
<1>11. FragSize(old, id) = old.cached[id]
  BY <1>4 DEF FragSize
<1> QED
  BY <1>3, <1>5, <1>6, <1>10, <1>11

(* A position is where the fragment before it ends.                        *)
LEMMA OldPositions ==
    ASSUME NEW p \in Program, NEW old, old.prog = p, NEW L, KeepsOld(old, L),
           NEW l \in Positions(p)
    PROVE  LabelOffset(L, l) = EndBefore(L, l)
<1>1. /\ Appended(p, L.prog) /\ L.prog \in Program /\ Repeats(old, L) /\ Contiguous(old)
  BY DEF KeepsOld, IsFixed
<1>2. /\ l \in Nat \X Nat /\ l[1] \in DOMAIN p.sections /\ NumFrags(p, l[1]) \in Nat
      /\ l[2] \in 1 .. NumFrags(p, l[1]) + 1
      /\ l \in FragIds(p) <=> l[2] # NumFrags(p, l[1]) + 1
      /\ l[2] # 1 => <<l[1], l[2] - 1>> \in FragIds(p)
  BY PositionsOfProgram
<1>3. LabelOffset(L, l) = LabelOffset(old, l)
  BY <1>1, <1>2, AppendedFragments DEF LabelOffset, Repeats
<1>4. EndBefore(L, l) = EndBefore(old, l)
  <2>1. CASE l[2] = 1
    BY <2>1 DEF EndBefore
  <2>2. CASE l[2] # 1
    <3>1. PICK id \in FragIds(p) : id = <<l[1], l[2] - 1>>
      BY <1>2, <2>2
    <3>2. FragSize(L, id) = FragSize(old, id) /\ L.off[id] = old.off[id]
      BY <1>1, OldSizes DEF Repeats
    <3> QED
      BY <2>2, <3>1, <3>2 DEF EndBefore, FragEnd
  <2> QED
    BY <2>1, <2>2
<1>5. LabelOffset(old, l) = EndBefore(old, l)
  <2>1. CASE l \in FragIds(p)
    BY <1>1, <2>1 DEF Contiguous, LabelOffset, EndBefore
  <2>2. CASE l \notin FragIds(p)
    <3>1. PICK n \in Nat : n = NumFrags(p, l[1]) /\ l[2] = n + 1
      BY <1>2, <2>2
    <3>2. old.ssize[l[1]] = IF n = 0 THEN 0 ELSE FragEnd(old, <<l[1], n>>)
      BY <1>1, <1>2, <3>1 DEF Contiguous
    <3>3. l[2] - 1 = n /\ (l[2] = 1 <=> n = 0)
      BY <3>1
    <3> QED
      BY <2>2, <3>2, <3>3 DEF LabelOffset, EndBefore
  <2> QED
    BY <2>1, <2>2
<1> QED
  BY <1>3, <1>4, <1>5

(* Every candidate that was large enough is.                               *)
LEMMA OldTests ==
    ASSUME NEW p \in Program, NEW old, old.prog = p, NEW L, KeepsOld(old, L),
           NEW id \in FragIds(p), NEW k, k = L.chosen[id], k < Candidates(p, id),
           FragAt(p, id).kind = "bytes", FragAt(p, id).mode # Shrinking,
           NEW fx, fx = FragAt(p, id).variants[k].fixups
    PROVE  /\ k \in 1 .. Candidates(p, id) /\ k \in 1 .. Candidates(L.prog, id)
           /\ FragAt(L.prog, id) = FragAt(p, id)
           /\ fx \in Seq(Fixup) /\ FieldsReach(L, id, fx) /\ VariantFits(L, id, k, 0)
<1>1. /\ Appended(p, L.prog) /\ L.prog \in Program /\ Repeats(old, L) /\ Reaching(old)
      /\ IsLayout(old)
  BY DEF KeepsOld, IsFixed
<1>2. k = old.chosen[id] /\ k \in 1 .. Candidates(p, id)
  BY <1>1 DEF Repeats, IsLayout
<1>3. VariantFits(old, id, k, 0)
  BY <1>1, <1>2 DEF Reaching
<1>4. fx \in Seq(Fixup) /\ (VariantFits(old, id, k, 0) <=> FieldsReach(old, id, fx))
  BY <1>2, FitsByFields
<1>5. /\ id \in FragIds(L.prog) /\ FragAt(L.prog, id) = FragAt(p, id)
      /\ Candidates(L.prog, id) = Candidates(p, id)
  BY <1>1, AppendedFragments
<1>6. PICK q \in Program : q = L.prog
  BY <1>1
<1>7. VariantFits(L, id, k, 0) <=> FieldsReach(L, id, fx)
  BY <1>2, <1>5, <1>6, FitsByFields
<1>8. ASSUME NEW i \in DOMAIN fx
      PROVE  Reaches(fx[i], FixupValue(L, fx[i], id, NoShift))
  <2>1. fx[i].expr \in Expressions(p, id)
    BY <1>2, FixupExpressions
  <2>2. FixupValue(L, fx[i], id, NoShift) = FixupValue(old, fx[i], id, NoShift)
    BY <2>1, OldFields
  <2>3. Reaches(fx[i], FixupValue(old, fx[i], id, NoShift))
    BY <1>3, <1>4 DEF FieldsReach
  <2> QED
    BY <2>2, <2>3
<1>9. FieldsReach(L, id, fx)
  BY <1>8 DEF FieldsReach
<1> QED
  BY <1>2, <1>4, <1>5, <1>7, <1>9

(* Where nothing has moved, the walk in order tests the same.              *)
LEMMA FieldsFitInOrder ==
    ASSUME NEW L, NEW id, NEW k, NEW fx \in Seq(Fixup), fx = FragAt(L.prog, id).variants[k].fixups,
           L.prog \in Program, IsLayout(L), id \in FragIds(L.prog),
           FieldsReach(L, id, fx)
    PROVE  FitsInOrder(L, id, k, 0)
<1>1. Fixups(L, id, k) = fx
  BY DEF Fixups
<1> DEFINE IsAhead(x) == x.pcrel /\ 0 # 0 /\ Ahead(x.expr, id) # {}
           Moves(x) == /\ IsAhead(x)
                       /\ \/ 0 < 0
                          \/ \E f \in Ahead(x.expr, id) : SameRegion(L.prog, id, f)
           Measured(x) == {v + (IF Moves(x) THEN 0 ELSE 0) :
                              v \in FixupValue(L, x, id, NoShift)}
           Passed(x) == /\ IsAhead(x) /\ ~Moves(x) /\ Measured(x) # {}
                        /\ Resolve(L, x.expr, NoShift) < L.addr[id[1]] + L.off[id]
           FitsUpTo(n) == \A j \in 1..n : Reaches(fx[j], Measured(fx[j]))
<1>2. ASSUME NEW i \in DOMAIN fx
      PROVE  Reaches(fx[i], Measured(fx[i]))
  <2>1. FixupValue(L, fx[i], id, NoShift) \in SUBSET Int
    BY FixupValuesAreIntegers
  <2>2. Measured(fx[i]) = FixupValue(L, fx[i], id, NoShift)
    BY <2>1
  <2> QED
    BY <2>2 DEF FieldsReach
<1> HIDE DEF Measured
<1>3. FitsUpTo(Len(fx))
  BY <1>2
<1> USE DEF Measured
<1>4. FitsInOrder(L, id, k, 0)
         <=> FitsUpTo(Len(fx)) \/ \E j \in DOMAIN fx : FitsUpTo(j - 1) /\ Passed(fx[j])
  BY <1>1, Zenon DEF FitsInOrder
<1> QED
  BY <1>3, <1>4

-----------------------------------------------------------------------------
(* Steps that visit a section there was leave it as it is.                 *)
LEMMA OldAddresses ==
    ASSUME SettlingInv, NEW old, KeepsOld(old, Here), AssignAddress, prog.relocatable
    PROVE  KeepsOld(old, Here')
<1>1. /\ prog' = prog /\ chosen' = chosen /\ cached' = cached /\ off' = off /\ ssize' = ssize
      /\ addr' = addr \/ addr' = [addr EXCEPT ![cur[1]] = Base(Here, cur[1], at)]
      /\ addr \in [Sections -> Nat]
  BY DEF AssignAddress, SettlingInv, TypeOK
<1>2. Base(Here, cur[1], at) = 0
  BY DEF Base, Here
<1>3. ASSUME NEW s \in DOMAIN old.prog.sections PROVE old.addr[s] = 0
  BY DEF KeepsOld, IsFixed, AddressesAgree, Base
<1>4. ASSUME NEW s \in DOMAIN old.prog.sections PROVE addr'[s] = old.addr[s]
  BY <1>1, <1>2, <1>3 DEF KeepsOld, Repeats, Appended, Here, Sections
<1>5. /\ Here'.prog = Here.prog /\ Here'.chosen = Here.chosen /\ Here'.cached = Here.cached
      /\ Here'.off = Here.off /\ Here'.ssize = Here.ssize /\ Here'.addr = addr'
  BY <1>1 DEF Here
<1> QED
  BY <1>4, <1>5 DEF KeepsOld, Repeats

(* What a walk finds at a fragment of a section there was.                 *)
LEMMA OldFragment ==
    ASSUME SettlingInv, NEW old, KeepsOld(old, Here), AtFragment, cur \in FragIds(old.prog),
           at = EndBefore(Here, cur)
    PROVE  /\ at = off[cur] /\ Moved = Here /\ Stretch = 0
           /\ [off EXCEPT ![cur] = at] = off
           /\ FragAt(prog, cur) = FragAt(old.prog, cur)
           /\ Candidates(prog, cur) = Candidates(old.prog, cur)
           /\ FragAt(prog, cur).kind # "bytes"
                => /\ ComputeSize(Here, cur, at) = cached[cur]
                   /\ FragSize(Here, cur) = cached[cur]
<1>1. PICK p \in Program : p = old.prog
  BY DEF KeepsOld, IsLayout
<1>2. cur \in Ids /\ prog \in Program /\ off \in [Ids -> Nat] /\ Here.prog = prog
      /\ Here.off = off /\ Here.cached = cached /\ Appended(p, prog)
  BY <1>1 DEF AtFragment, SettlingInv, TypeOK, Here, KeepsOld
<1>3. LabelOffset(Here, cur) = EndBefore(Here, cur)
  <2>1. cur \in Positions(p)
    BY <1>1, PositionsOfFragment
  <2> QED
    BY <1>1, <2>1, OldPositions
<1>4. at = off[cur]
  BY <1>2, <1>3 DEF LabelOffset, Ids
<1>5. [off EXCEPT ![cur] = at] = off
  BY <1>2, <1>4
<1>6. Moved = Here /\ Stretch = 0
  BY <1>2, <1>4, <1>5 DEF Moved, Here, Stretch
<1>7. FragAt(prog, cur) = FragAt(p, cur) /\ Candidates(prog, cur) = Candidates(p, cur)
  BY <1>1, <1>2, AppendedFragments
<1>8. FragAt(prog, cur).kind # "bytes" => /\ ComputeSize(Here, cur, at) = cached[cur]
                                          /\ FragSize(Here, cur) = cached[cur]
  <2>1. SUFFICES ASSUME FragAt(prog, cur).kind # "bytes"
                 PROVE  /\ ComputeSize(Here, cur, at) = cached[cur]
                        /\ FragSize(Here, cur) = cached[cur]
    OBVIOUS
  <2>2. ComputeSize(Here, cur, Here.off[cur]) = FragSize(Here, cur)
    BY <1>1, <1>7, <2>1, OldSizes
  <2>3. FragSize(Here, cur) = cached[cur]
    BY <1>2, <2>1 DEF FragSize
  <2> QED
    BY <1>2, <1>4, <2>2, <2>3
<1> QED
  BY <1>1, <1>4, <1>5, <1>6, <1>7, <1>8

(* A step that changes a fragment of another section changes nothing old.  *)
LEMMA OtherFragment ==
    ASSUME NEW old, KeepsOld(old, Here), TypeOK, cur \in Ids, cur \notin FragIds(old.prog),
           prog' = prog, ssize' = ssize, addr' = addr,
           \A id \in Ids \ {cur} : /\ chosen'[id] = chosen[id] /\ off'[id] = off[id]
                                   /\ cached'[id] = cached[id]
    PROVE  KeepsOld(old, Here')
<1>1. PICK p \in Program : p = old.prog
  BY DEF KeepsOld, IsLayout
<1>2. FragIds(p) \subseteq Ids \ {cur}
  BY <1>1, AppendedFragments DEF KeepsOld, Ids, Here
<1>3. \A id \in FragIds(p) : /\ chosen'[id] = chosen[id] /\ off'[id] = off[id]
                             /\ cached'[id] = cached[id]
  BY <1>2
<1>4. /\ Here'.prog = prog /\ Here'.ssize = ssize /\ Here'.addr = addr
      /\ Here'.chosen = chosen' /\ Here'.off = off' /\ Here'.cached = cached'
      /\ Here.prog = prog /\ Here.ssize = ssize /\ Here.addr = addr
      /\ Here.chosen = chosen /\ Here.off = off /\ Here.cached = cached
  BY DEF Here
<1> QED
  BY <1>1, <1>3, <1>4 DEF KeepsOld, Repeats

(* A step that leaves what the sections there were have leaves them old.   *)
LEMMA OldStays ==
    ASSUME NEW old, KeepsOld(old, Here), prog' = prog,
           \A s \in DOMAIN old.prog.sections : ssize'[s] = ssize[s],
           addr' = addr,
           \A id \in FragIds(old.prog) :
              /\ chosen'[id] = chosen[id] /\ off'[id] = off[id]
              /\ FragAt(old.prog, id).kind # "bytes" => cached'[id] = cached[id]
    PROVE  KeepsOld(old, Here')
BY DEF Here, KeepsOld, Repeats

(* assign_offsets computes for them the sizes they have.                   *)
LEMMA OldPlaced ==
    ASSUME SettlingInv, NEW old, KeepsOld(old, Here), PlaceFragment
    PROVE  KeepsOld(old, Here')
<1>1. /\ TypeOK /\ cur \in Ids /\ at = EndBefore(Here, cur)
      /\ prog' = prog /\ ssize' = ssize /\ addr' = addr /\ chosen' = chosen
      /\ off' = [off EXCEPT ![cur] = at]
      /\ off \in [Ids -> Nat] /\ cached \in [Ids -> Nat]
  BY DEF SettlingInv, TypeOK, OffsetWalk, PlaceFragment, AtFragment
<1>2. PICK size : /\ cached' = [cached EXCEPT ![cur] = size]
                  /\ FragAt(prog, cur).kind # "bytes"
                        => size = ComputeSize([Here EXCEPT !.off = off'], cur, at)
  BY DEF PlaceFragment
<1>3. CASE cur \notin FragIds(old.prog)
  BY <1>1, <1>2, <1>3, OtherFragment
<1>4. CASE cur \in FragIds(old.prog)
  <2>1. /\ off' = off /\ FragAt(prog, cur) = FragAt(old.prog, cur)
        /\ FragAt(prog, cur).kind # "bytes" => ComputeSize(Here, cur, at) = cached[cur]
    BY <1>1, <1>4, OldFragment DEF AtFragment
  <2>2. [Here EXCEPT !.off = off'] = Here
    BY <2>1 DEF Here
  <2>3. FragAt(prog, cur).kind # "bytes" => cached' = cached
    BY <1>1, <1>2, <2>1, <2>2
  <2>4. \A id \in Ids \ {cur} : cached'[id] = cached[id]
    BY <1>1, <1>2
  <2>5. FragIds(old.prog) \subseteq Ids
    BY AppendedFragments DEF KeepsOld, IsLayout, Here, Ids
  <2>6. \A id \in FragIds(old.prog) :
           FragAt(old.prog, id).kind # "bytes" => cached'[id] = cached[id]
    BY <2>1, <2>3, <2>4, <2>5
  <2> QED
    BY <1>1, <2>1, <2>6, OldStays
<1> QED
  BY <1>3, <1>4

(* The end of a section that was there is where it was.                    *)
LEMMA OldClosed ==
    ASSUME SettlingInv, NEW old, KeepsOld(old, Here), EndOfOffsets \/ EndOfWalk
    PROVE  KeepsOld(old, Here')
<1>1. /\ TypeOK /\ cur \in Positions(prog) /\ at = EndBefore(Here, cur)
      /\ prog' = prog /\ addr' = addr /\ chosen' = chosen /\ off' = off /\ cached' = cached
      /\ ssize' = [ssize EXCEPT ![cur[1]] = at] /\ cur \notin Ids
      /\ ssize \in [Sections -> Nat] /\ prog \in Program
  BY DEF SettlingInv, TypeOK, OffsetWalk, RelaxWalk, EndOfOffsets, EndOfWalk, CloseSection,
         ResizeSection, AtFragment
<1>2. PICK p \in Program : p = old.prog
  BY DEF KeepsOld, IsLayout
<1>3. Appended(p, prog) /\ Here.prog = prog /\ Here.ssize = ssize
  BY <1>2 DEF KeepsOld, Here
<1>4. ASSUME cur[1] \in DOMAIN p.sections PROVE ssize[cur[1]] = at
  <2>1. /\ cur \in Nat \X Nat /\ NumFrags(prog, cur[1]) \in Nat
        /\ cur[2] = NumFrags(prog, cur[1]) + 1
    BY <1>1, PositionsOfProgram DEF Ids
  <2>2. NumFrags(prog, cur[1]) = NumFrags(p, cur[1])
    BY <1>1, <1>3, <1>4, AppendedFragments
  <2>3. cur = <<cur[1], NumFrags(p, cur[1]) + 1>>
    BY <2>1, <2>2
  <2>4. cur \in Positions(p)
    BY <1>4, <2>3, PositionsOfSection
  <2>5. LabelOffset(Here, cur) = EndBefore(Here, cur)
    BY <1>2, <2>4, OldPositions
  <2>6. LabelOffset(Here, cur) = ssize[cur[1]]
    BY <1>1, <1>3 DEF LabelOffset, Ids
  <2> QED
    BY <1>1, <2>5, <2>6
<1>5. ASSUME NEW s \in DOMAIN p.sections PROVE ssize'[s] = ssize[s]
  BY <1>1, <1>3, <1>4 DEF Appended, Sections
<1> QED
  BY <1>1, <1>2, <1>5, OldStays

(* A fragment of a file that grows is sized by plain fields.               *)
LEMMA GrowingFragments ==
    ASSUME TypeOK, GrowingMode, NEW id \in Ids
    PROVE  FragAt(prog, id).mode # Shrinking
BY ShrinkingFiles DEF GrowingMode, FromLastPass, InOrder, Shrinking

(* Nothing that reached needs another size: in the last pass's layout,     *)
LEMMA OldGrowth ==
    ASSUME SettlingInv, GrowingMode, NEW old, KeepsOld(old, Here), GrowFragment
    PROVE  KeepsOld(old, Here')
<1>1. /\ TypeOK /\ cur \in Ids /\ chosen \in [Ids -> Nat \ {0}]
      /\ prog' = prog /\ ssize' = ssize /\ addr' = addr /\ off' = off /\ cached' = cached
      /\ chosen' = IF Grows(cur) THEN [chosen EXCEPT ![cur] = @ + 1] ELSE chosen
      /\ chosen[cur] \in 1 .. Candidates(prog, cur)
  BY DEF SettlingInv, TypeOK, GrowFragment, AtFragment
<1>2. PICK p \in Program : p = old.prog
  BY DEF KeepsOld, IsLayout
<1>3. CASE cur \notin FragIds(p)
  BY <1>1, <1>2, <1>3, OtherFragment
<1>4. CASE cur \in FragIds(p)
  <2>1. FragAt(prog, cur) = FragAt(p, cur) /\ Candidates(prog, cur) = Candidates(p, cur)
    BY <1>1, <1>2, <1>4, AppendedFragments DEF KeepsOld, Here, TypeOK
  <2>2. ~Grows(cur)
    <3>1. SUFFICES ASSUME chosen[cur] < Candidates(prog, cur)
                   PROVE  VariantFits(Here, cur, chosen[cur], 0)
      BY DEF Grows
    <3>2. FragAt(p, cur).mode # Shrinking
      BY <1>1, <2>1, GrowingFragments
    <3>3. FragAt(p, cur).kind = "bytes"
      BY <1>1, <2>1, <3>1 DEF Candidates
    <3>4. PICK k : k = Here.chosen[cur] /\ k = chosen[cur]
      BY DEF Here
    <3>5. PICK fx : fx = FragAt(p, cur).variants[k].fixups
      OBVIOUS
    <3> QED
      BY <1>2, <1>4, <2>1, <3>1, <3>2, <3>3, <3>4, <3>5, OldTests
  <2>3. chosen' = chosen
    BY <1>1, <2>2
  <2> QED
    BY <1>1, <2>3, HereStays DEF layout
<1> QED
  BY <1>3, <1>4

(* and where the walk in order finds it.                                   *)
LEMMA OldInOrder ==
    ASSUME SettlingInv, GrowingMode, NEW old, KeepsOld(old, Here), GrowInOrder
    PROVE  KeepsOld(old, Here')
<1>1. /\ TypeOK /\ cur \in Ids /\ chosen \in [Ids -> Nat \ {0}] /\ off \in [Ids -> Nat]
      /\ prog' = prog /\ ssize' = ssize /\ addr' = addr /\ cached' = cached
      /\ off' = [off EXCEPT ![cur] = at]
      /\ chosen' = [chosen EXCEPT ![cur] = NextInOrder(cur)]
      /\ chosen[cur] \in 1 .. Candidates(prog, cur)
      /\ at = EndBefore(Here, cur) /\ FragAt(prog, cur).kind = "bytes"
      /\ prog \in Program
  BY DEF SettlingInv, TypeOK, RelaxWalk, GrowInOrder, InOrderWalk, AtFragment, Pick, IsRelaxable
<1>2. PICK p \in Program : p = old.prog
  BY DEF KeepsOld, IsLayout
<1>3. CASE cur \notin FragIds(p)
  BY <1>1, <1>2, <1>3, OtherFragment
<1>4. CASE cur \in FragIds(p)
  <2>1. /\ off' = off /\ Moved = Here /\ Stretch = 0 /\ FragAt(prog, cur) = FragAt(p, cur)
        /\ Candidates(prog, cur) = Candidates(p, cur)
    BY <1>1, <1>2, <1>4, OldFragment DEF AtFragment
  <2>2. PICK k, n \in Nat : k = chosen[cur] /\ n = Candidates(prog, cur) /\ k \in 1 .. n
    BY <1>1, FragmentsOfProgram DEF Ids
  <2> DEFINE ks == {j \in k .. n : FitsInOrder(Here, cur, j, 0)}
  <2>3. NextInOrder(cur) = LeastOr(ks, n)
    BY <2>1, <2>2 DEF NextInOrder
  <2>4. k < n => k \in ks
    <3>1. SUFFICES ASSUME k < n PROVE FitsInOrder(Here, cur, k, 0)
      BY <2>2
    <3>2. FragAt(p, cur).mode # Shrinking
      BY <1>1, <2>1, GrowingFragments
    <3>3. PICK fx : fx = FragAt(p, cur).variants[k].fixups
      OBVIOUS
    <3>4. k = Here.chosen[cur] /\ Here.prog = prog /\ k < Candidates(p, cur)
          /\ FragAt(p, cur).kind = "bytes"
      BY <1>1, <2>1, <2>2, <3>1 DEF Here
    <3>5. fx \in Seq(Fixup) /\ FieldsReach(Here, cur, fx)
      BY <1>2, <1>4, <3>2, <3>3, <3>4, OldTests
    <3>6. IsLayout(Here) /\ Here.prog \in Program /\ cur \in FragIds(Here.prog)
      BY <1>1, <3>4, HereIsLayout DEF Ids
    <3> QED
      BY <2>1, <3>3, <3>4, <3>5, <3>6, FieldsFitInOrder
  <2>5. ks \in SUBSET Nat /\ \A j \in ks : k <= j /\ j <= n
    BY <2>2
  <2> HIDE DEF ks
  <2>6. /\ ks = {} => LeastOr(ks, n) = n
        /\ ks # {} => /\ LeastOr(ks, n) \in ks
                      /\ \A j \in ks : LeastOr(ks, n) <= j
    BY <2>5, LeastOrIsLeast
  <2>7. PICK r : r = LeastOr(ks, n)
    OBVIOUS
  <2>8. ks = {} => r = n
    BY <2>6, <2>7
  <2>9. ks # {} => r \in Nat /\ k <= r /\ r <= n
    BY <2>5, <2>6, <2>7
  <2>10. k \in ks => r <= k
    BY <2>6, <2>7
  <2>11. r = k
    BY <2>2, <2>4, <2>8, <2>9, <2>10
  <2>12. chosen' = chosen
    BY <1>1, <2>2, <2>3, <2>7, <2>11
  <2> QED
    BY <1>1, <2>1, <2>12, HereStays DEF layout
<1> QED
  BY <1>3, <1>4

(* The rest of the walk in order pads and moves as before.                 *)
LEMMA OldMoved ==
    ASSUME SettlingInv, NEW old, KeepsOld(old, Here), Repad \/ MoveOnly
    PROVE  KeepsOld(old, Here')
<1>1. /\ TypeOK /\ cur \in Ids /\ off \in [Ids -> Nat] /\ cached \in [Ids -> Nat]
      /\ prog' = prog /\ ssize' = ssize /\ addr' = addr /\ chosen' = chosen
      /\ off' = [off EXCEPT ![cur] = at]
      /\ at = EndBefore(Here, cur)
  BY DEF SettlingInv, TypeOK, RelaxWalk, Repad, MoveOnly, InOrderWalk, AtFragment
<1>2. PICK size : \/ cached' = cached
                  \/ /\ cached' = [cached EXCEPT ![cur] = size]
                     /\ FragAt(prog, cur).kind = "align"
                     /\ size = ComputeSize(Moved, cur, at)
  BY DEF Repad, MoveOnly
<1>3. CASE cur \notin FragIds(old.prog)
  BY <1>1, <1>2, <1>3, OtherFragment
<1>4. CASE cur \in FragIds(old.prog)
  BY <1>1, <1>2, <1>4, OldFragment, HereStays DEF AtFragment, layout
<1> QED
  BY <1>3, <1>4

-----------------------------------------------------------------------------
(* The layout that was published last is there while the emitted sections  *)
(* are laid out, and is the one at hand afterwards.                        *)

Working == {"addresses", "offsets", "relax", "decide"}
Finishing == {"settled", "final", "report", "done"}

PublishedKept ==
    /\ pc \in Working => \A old \in published : KeepsOld(old, Here)
    /\ pc \in Finishing => published = {Here}
    /\ pc \in {"final", "report", "done"} => ~Emits

(* No step of a pass disturbs it.                                          *)
LEMMA PassKeepsOld ==
    ASSUME SettlingInv, GrowingMode, NEW old, KeepsOld(old, Here), pc \in Working, Next,
           prog.relocatable
    PROVE  KeepsOld(old, Here')
<1>1. CASE UNCHANGED <<prog, layout>>
  BY <1>1, HereStays
<1>2. CASE AssignAddress
  BY <1>2, OldAddresses
<1>3. CASE PlaceFragment
  BY <1>3, OldPlaced
<1>4. CASE EndOfOffsets \/ EndOfWalk
  BY <1>4, OldClosed
<1>5. CASE GrowFragment
  BY <1>5, OldGrowth
<1>6. CASE GrowInOrder
  BY <1>6, OldInOrder
<1>7. CASE Repad \/ MoveOnly
  BY <1>7, OldMoved
<1>8. ~RepickEachPass /\ ~Repick
  BY DEF GrowingMode, RepickEachPass, Repick, FromLastPass, InOrder, EachPass, Shrinking
<1>9. ~Emit
  BY DEF Working, Emit
<1>10. ASSUME NextRound \/ EndOfAddresses \/ EndOfGrowth \/ Settle \/ NextPass \/ GiveUp
              \/ PlaceImage \/ ApplyFixups \/ Stop
       PROVE  UNCHANGED <<prog, layout>>
  BY <1>10 DEF NextRound, EndOfAddresses, EndOfGrowth, Settle, NextPass, GiveUp, PlaceImage,
               ApplyFixups, Stop, vars
<1> QED
  BY <1>1, <1>2, <1>3, <1>4, <1>5, <1>6, <1>7, <1>8, <1>9, <1>10 DEF Next

(* Which phases a step leads from and to.                                  *)
LEMMA PhaseSteps ==
    ASSUME Next
    PROVE  \/ Settle \/ GiveUp \/ Emit \/ PlaceImage \/ ApplyFixups
           \/ pc \in Working /\ pc' \in Working /\ prog' = prog
           \/ /\ pc = "final" /\ pc' \in {"final", "report"} /\ prog' = prog
              /\ AssignAddress \/ UNCHANGED layout
           \/ UNCHANGED vars
<1>1. ASSUME AssignAddress \/ NextRound \/ EndOfAddresses
      PROVE  \/ pc \in Working /\ pc' \in Working /\ prog' = prog
             \/ /\ pc = "final" /\ pc' \in {"final", "report"} /\ prog' = prog
                /\ AssignAddress \/ UNCHANGED layout
  BY <1>1 DEF AssignAddress, NextRound, EndOfAddresses, IsPlacing, Working
<1>2. ASSUME \/ PlaceFragment \/ EndOfOffsets \/ GrowFragment \/ EndOfGrowth \/ GrowInOrder
             \/ RepickEachPass \/ Repick \/ Repad \/ MoveOnly \/ EndOfWalk
      PROVE  pc \in Working /\ pc' \in Working /\ prog' = prog
  BY <1>2 DEF PlaceFragment, EndOfOffsets, GrowFragment, EndOfGrowth, GrowInOrder,
              RepickEachPass, Repick, Repad, MoveOnly, EndOfWalk, InOrderWalk, Pick,
              CloseSection, Working
<1>3. NextPass => pc \in Working /\ pc' \in Working /\ prog' = prog
  BY DEF NextPass, Working
<1>4. Stop => UNCHANGED vars
  BY DEF Stop
<1> QED
  BY <1>1, <1>2, <1>3, <1>4 DEF Next

(* What a pass without changes leaves is what may be published.            *)
LEMMA GrownIsFixed ==
    ASSUME SettlingInv, Forgetful, GrowingMode, Settled
    PROVE  IsLayout(Here) /\ IsFixed(Here)
<1>1. FreelyPicked
  BY LimitAssumption DEF Forgetful, GrowingMode, FreelyPicked, Stuck, FromLastPass, InOrder,
     EachPass, Shrinking
<1> QED
  BY <1>1, SettledIsConsistent, SettledReaches, HereIsLayout DEF SettlingInv, IsFixed

(* The sections emitted from a layout leave it as it is.                   *)
LEMMA EmitKeepsOld ==
    ASSUME SettlingInv, TypeOK', Forgetful, GrowingMode, NothingLateIsNamed, Emit,
           NEW old, old = Here
    PROVE  KeepsOld(old, Here')
<1>1. TypeOK /\ Settled /\ prog.relocatable
  BY DEF SettlingInv, EndOfPass, Emit, Emits
<1>2. IsLayout(old) /\ IsFixed(old)
  BY <1>1, GrownIsFixed
<1>3. /\ prog' \in Program /\ Appended(prog, prog') /\ Ids \subseteq Ids'
      /\ Sections \subseteq Sections'
  BY <1>1, EmitExtends, EmitAppends, EmittedSections
<1>4. /\ old.prog = prog /\ old.chosen = chosen /\ old.cached = cached
      /\ old.off = off /\ old.ssize = ssize /\ old.addr = addr
      /\ Here'.prog = prog' /\ Here'.chosen = chosen' /\ Here'.cached = cached'
      /\ Here'.off = off' /\ Here'.ssize = ssize' /\ Here'.addr = addr'
  BY DEF Here
<1>5. /\ DOMAIN chosen = Ids /\ DOMAIN cached = Ids /\ DOMAIN off = Ids
      /\ DOMAIN ssize = Sections /\ DOMAIN addr = Sections
  BY <1>1 DEF TypeOK
<1>6. ASSUME NEW id \in Ids
      PROVE  chosen'[id] = chosen[id] /\ cached'[id] = cached[id] /\ off'[id] = off[id]
  BY <1>3, <1>5 DEF Emit, Extend
<1>7. ASSUME NEW s \in Sections
      PROVE  ssize'[s] = ssize[s] /\ addr'[s] = addr[s]
  BY <1>3, <1>5 DEF Emit, Extend
<1>8. Repeats(old, Here')
  BY <1>4, <1>6, <1>7 DEF Repeats, Ids, Sections
<1> QED
  BY <1>1, <1>2, <1>3, <1>4, <1>8 DEF KeepsOld

(* The last assign_addresses finds every section where it belongs.         *)
LEMMA FinalAddresses ==
    ASSUME SettlingInv, TypeOK', pc = "final", AssignAddress
    PROVE  Here' = Here
<1>1. /\ TypeOK /\ AddressWalk /\ Settled
      /\ UNCHANGED <<prog, chosen, cached, off, ssize>> /\ cur[1] \in Sections
  BY DEF SettlingInv, AfterPasses, AssignAddress
<1>2. InPlace(cur[1])
  BY <1>1 DEF Settled, Addressed
<1>3. addr' = addr
  <2>1. CASE Round(prog, cur[1]) = cur[2]
    BY <1>1, <1>2, <2>1, AddressWalkPlaces
  <2>2. CASE Round(prog, cur[1]) # cur[2]
    BY <2>2 DEF AssignAddress
  <2> QED
    BY <2>1, <2>2
<1> QED
  BY <1>1, <1>3, HereStays DEF layout

(* No step of a pass moves what has been published.                        *)
LEMMA PublishedStays ==
    ASSUME SettlingInv, TypeOK', Forgetful, GrowingMode, NothingLateIsNamed, PublishedKept,
           [PublishedNext]_allVars
    PROVE  PublishedKept'
<1>1. CASE UNCHANGED allVars
  BY <1>1, HereStays DEF allVars, vars, walk, Emits, PublishedKept
<1>2. CASE PublishedNext
  <2>1. Next /\ published' = IF pc' \in {"settled", "done"} THEN {Here'} ELSE published
    BY <1>2 DEF PublishedNext
  <2>2. CASE Settle
    BY <2>1, <2>2 DEF Settle, PublishedKept, Working, Finishing
  <2>3. CASE GiveUp
    BY <2>1, <2>3 DEF GiveUp, PublishedKept, Working, Finishing
  <2>4. CASE Emit
    <3>1. PICK old : old = Here
      OBVIOUS
    <3>2. pc = "settled" /\ pc' = "addresses" /\ published' = published
      BY <2>1, <2>4 DEF Emit
    <3>3. published = {old}
      BY <3>1, <3>2 DEF PublishedKept, Finishing
    <3>4. KeepsOld(old, Here')
      BY <2>4, <3>1, EmitKeepsOld
    <3> QED
      BY <3>2, <3>3, <3>4 DEF PublishedKept, Finishing
  <2>5. CASE PlaceImage
    BY <2>1, <2>5, HereStays DEF PlaceImage, Emits, PublishedKept, Working, Finishing
  <2>6. CASE ApplyFixups
    BY <2>1, <2>6 DEF ApplyFixups, Emits, PublishedKept, Working
  <2>7. CASE pc \in Working /\ pc' \in Working /\ prog' = prog
    <3>1. published' = published /\ pc' \notin Finishing
      BY <2>1, <2>7 DEF Working, Finishing
    <3>2. ASSUME NEW old \in published PROVE KeepsOld(old, Here')
      BY <2>1, <2>7, PassKeepsOld DEF PublishedKept, KeepsOld, Appended, Here
    <3> QED
      BY <3>1, <3>2 DEF PublishedKept, Finishing
  <2>8. CASE /\ pc = "final" /\ pc' \in {"final", "report"} /\ prog' = prog
             /\ AssignAddress \/ UNCHANGED layout
    BY <2>1, <2>8, FinalAddresses, HereStays DEF Emits, PublishedKept, Working, Finishing
  <2>9. CASE UNCHANGED vars
    BY <2>1, <2>9, HereStays DEF vars, walk, Emits, PublishedKept, Finishing
  <2> QED
    BY <2>1, <2>2, <2>3, <2>4, <2>5, <2>6, <2>7, <2>8, <2>9, PhaseSteps
<1> QED
  BY <1>1, <1>2

(* A fixed point is the same thing to both.                                *)
LEMMA PromisedFixedPoint ==
    ASSUME NEW L
    PROVE  Promise!IsFixed(L) <=> IsFixed(L)
<1>1. Promise!Contiguous(L) <=> Contiguous(L)
  BY Zenon DEF Promise!Contiguous, Contiguous, Promise!FragEnd, FragEnd, Promise!FragIds,
               FragIds, Promise!FragAt, FragAt, Promise!NumFrags, NumFrags,
               Promise!FragSize, FragSize
<1>2. Promise!SizesAgree(L) <=> SizesAgree(L)
  BY Zenon DEF Promise!SizesAgree, SizesAgree, Promise!FragIds, FragIds, Promise!FragAt, FragAt,
               Promise!IsDefined, IsDefined, Promise!Symbols, Symbols,
               Promise!HasAddress, HasAddress, Promise!LabelOffset, LabelOffset,
               Promise!SymbolAddr, SymbolAddr, Promise!Resolve, Resolve,
               Promise!Value, Value, Promise!NoShift, NoShift,
               Promise!SectionRelative, SectionRelative, Promise!Padding, Padding,
               Promise!LeastOr, LeastOr, Promise!LebLength, LebLength,
               Promise!SizeError, SizeError, Promise!ComputeSize, ComputeSize
<1>3. Promise!AddressesAgree(L) <=> AddressesAgree(L)
  BY Zenon DEF Promise!AddressesAgree, AddressesAgree, Promise!Base, Base,
               Promise!NextMultiple, NextMultiple, Promise!Before, Before, Promise!Round, Round
<1>4. Promise!Reaching(L) <=> Reaching(L)
  BY Zenon DEF Promise!Reaching, Reaching, Promise!Candidates, Candidates,
               Promise!FragIds, FragIds, Promise!FragAt, FragAt,
               Promise!VariantFits, VariantFits, Promise!RelaxedDifference, RelaxedDifference,
               Promise!FixupValue, FixupValue, Promise!PcOf, PcOf,
               Promise!IsOffset, IsOffset, Promise!Mask, Mask,
               Promise!PcrelIsRelocated, PcrelIsRelocated,
               Promise!DistanceIsRelocated, DistanceIsRelocated,
               Promise!Holds, Holds, Promise!Reaches, Reaches,
               Promise!IsDefined, IsDefined, Promise!Symbols, Symbols,
               Promise!HasAddress, HasAddress, Promise!LabelOffset, LabelOffset,
               Promise!SymbolAddr, SymbolAddr, Promise!Resolve, Resolve,
               Promise!Value, Value, Promise!NoShift, NoShift
<1> QED
  BY <1>1, <1>2, <1>3, <1>4 DEF Promise!IsFixed, IsFixed

(* What the sections of a published layout keep is what is promised.       *)
LEMMA PromisedKept ==
    ASSUME NEW old, NEW L, KeepsOld(old, L)
    PROVE  Promise!Keeps(old, L)
<1>1. PICK p \in Program : p = old.prog
  BY DEF KeepsOld, IsLayout
<1>2. ASSUME NEW id \in FragIds(p)
      PROVE  /\ L.chosen[id] = old.chosen[id] /\ L.off[id] = old.off[id]
             /\ FragSize(L, id) = FragSize(old, id)
  BY <1>1, OldSizes DEF KeepsOld, Repeats
<1>3. ASSUME NEW M, NEW id PROVE Promise!FragSize(M, id) = FragSize(M, id)
  BY DEF Promise!FragSize, FragSize, Promise!FragAt, FragAt
<1>4. Promise!FragIds(p) = FragIds(p)
  BY DEF Promise!FragIds, FragIds
<1> QED
  BY <1>1, <1>2, <1>3, <1>4 DEF Promise!Keeps

(* Each step is one of Settlement or none.                                 *)
LEMMA StepsKeepThePromise ==
    ASSUME SettlingInv, TypeOK', Forgetful, GrowingMode, PublishedKept, PublishedKept',
           [PublishedNext]_allVars
    PROVE  [Promise!Next]_(Promise!vars)
<1>1. CASE UNCHANGED allVars
  BY <1>1 DEF allVars, vars, walk, Promise!vars, Status
<1>2. CASE PublishedNext
  <2>1. Next /\ published' = IF pc' \in {"settled", "done"} THEN {Here'} ELSE published
    BY <1>2 DEF PublishedNext
  <2>2. CASE Settle
    <3>1. /\ pc = "decide" /\ pc' = "settled" /\ ~changed /\ UNCHANGED <<prog, layout>>
      BY <2>2 DEF Settle
    <3>2. Here' = Here
      BY <3>1, HereStays
    <3>3. PICK L : L = Here
      OBVIOUS
    <3>4. published' = {L} /\ L.prog = prog
      BY <2>1, <3>1, <3>2, <3>3 DEF Here
    <3>5. Promise!IsFixed(L)
      BY <3>1, <3>3, GrownIsFixed, PromisedFixedPoint DEF SettlingInv, EndOfPass
    <3>6. ASSUME NEW old \in published PROVE Promise!Keeps(old, L)
      BY <3>1, <3>3, PromisedKept DEF PublishedKept, Working
    <3>7. Status = "working" /\ Status' = "settled"
      BY <3>1 DEF Status
    <3>8. Promise!Publish(L)
      BY <3>1, <3>4, <3>5, <3>6, <3>7 DEF Promise!Publish
    <3> QED
      BY <3>4, <3>8 DEF Promise!Next
  <2>3. CASE GiveUp
    BY <2>1, <2>3 DEF GiveUp, Status, Promise!Next, Promise!Fail
  <2>4. CASE Emit
    BY <2>1, <2>4 DEF Emit, Status, Emits, Promise!Next, Promise!Emit
  <2>5. CASE PlaceImage
    BY <2>1, <2>5 DEF PlaceImage, Status, Promise!vars
  <2>6. CASE ApplyFixups
    <3>1. pc = "report" /\ pc' = "done" /\ UNCHANGED <<prog, layout>>
      BY <2>6 DEF ApplyFixups
    <3>2. Status = "settled" /\ Status' = "done"
      BY <3>1 DEF Status
    <3>3. published' = {Here'} /\ published = {Here} /\ ~Emits /\ Here' = Here
      BY <2>1, <3>1, HereStays DEF PublishedKept, Finishing
    <3>4. ~prog.relocatable \/ prog.late = <<>>
      BY <3>3 DEF Emits
    <3> QED
      BY <3>1, <3>2, <3>3, <3>4 DEF Promise!Next, Promise!Finish
  <2>7. CASE pc \in Working /\ pc' \in Working /\ prog' = prog
    BY <2>1, <2>7 DEF Working, Status, Promise!vars
  <2>8. CASE /\ pc = "final" /\ pc' \in {"final", "report"} /\ prog' = prog
             /\ AssignAddress \/ UNCHANGED layout
    BY <2>1, <2>8 DEF Status, Promise!vars
  <2>9. CASE UNCHANGED vars
    BY <2>1, <2>9, HereStays DEF vars, walk, PublishedKept, Finishing, Status, Promise!vars
  <2> QED
    BY <2>1, <2>2, <2>3, <2>4, <2>5, <2>6, <2>7, <2>8, <2>9, PhaseSteps
<1> QED
  BY <1>1, <1>2

(* settle_layout, as `finish' drives it, implements Settlement wherever    *)
(* sizes only grow: what it publishes is a fixed point, and sections laid  *)
(* out afterwards leave the layout they were written from as it is.        *)
THEOREM LayoutKeepsItsPromise ==
    PublishedSpec /\ []GrowingMode /\ []NothingLateIsNamed => KeepsItsPromise
<1>1. PublishedInit => Init /\ Forgetful /\ PublishedKept /\ Promise!Init
  BY DEF PublishedInit, Init, Forgetful, PublishedKept, Finishing, Promise!Init, Status
<1>2. [PublishedNext]_allVars => [Next]_vars
  BY DEF PublishedNext, allVars
<1>3. Forgetful /\ [Next]_vars => Forgetful'
  BY OnlyRepickRemembers
<1>4. /\ SettlingInv /\ TypeOK' /\ Forgetful /\ GrowingMode /\ NothingLateIsNamed
      /\ PublishedKept /\ [PublishedNext]_allVars
      => PublishedKept'
  BY PublishedStays
<1>5. /\ SettlingInv /\ TypeOK' /\ Forgetful /\ GrowingMode
      /\ PublishedKept /\ PublishedKept' /\ [PublishedNext]_allVars
      => [Promise!Next]_(Promise!vars)
  BY StepsKeepThePromise
<1> QED
  BY <1>1, <1>2, <1>3, <1>4, <1>5, SettlingInvariant, TypeCorrect, PTL
     DEF PublishedSpec, Spec, KeepsItsPromise, Promise!Spec

-----------------------------------------------------------------------------
(***************************************************************************)
(* The passes.  After one in which nothing grew nothing moves any more, so *)
(* each pass but the last two is one in which a fragment grew.             *)
(***************************************************************************)

(* The values of a function on a finite set are finitely many.             *)
LEMMA ValuesAreFinite ==
    ASSUME NEW S, IsFiniteSet(S), NEW f
    PROVE  IsFiniteSet({f[x] : x \in S})
<1> DEFINE T == {f[x] : x \in S}
           g == [x \in S |-> f[x]]
<1>1. g \in Surjection(S, T)
  BY DEF Surjection
<1> QED
  BY <1>1, FS_Surjection

(* A program has finitely many fragments,                                  *)
LEMMA FragmentsAreFinite ==
    ASSUME NEW p \in Program
    PROVE  IsFiniteSet(FragIds(p))
<1>1. p.sections \in Seq(Section)
  BY DEF Program
<1> DEFINE row(s) == {<<s, f>> : f \in DOMAIN p.sections[s].frags}
           rows == [s \in DOMAIN p.sections |-> row(s)]
<1>2. ASSUME NEW s \in DOMAIN p.sections
      PROVE  IsFiniteSet(rows[s])
  <2>1. p.sections[s].frags \in Seq(Fragment)
    <3>1. p.sections[s] \in Section
      BY <1>1
    <3> QED
      BY <3>1 DEF Section
  <2>2. DOMAIN p.sections[s].frags = 1 .. Len(p.sections[s].frags)
        /\ Len(p.sections[s].frags) \in Nat
    BY <2>1
  <2>3. IsFiniteSet(DOMAIN p.sections[s].frags)
    BY <2>2, FS_Interval
  <2> DEFINE g == [f \in DOMAIN p.sections[s].frags |-> <<s, f>>]
  <2>4. IsFiniteSet({g[f] : f \in DOMAIN p.sections[s].frags})
    BY <2>3, ValuesAreFinite
  <2>5. {g[f] : f \in DOMAIN p.sections[s].frags} = row(s)
    OBVIOUS
  <2> QED
    BY <2>4, <2>5
<1>3. IsFiniteSet(DOMAIN p.sections)
  BY <1>1, FS_Interval
<1>4. IsFiniteSet({rows[s] : s \in DOMAIN p.sections})
  BY <1>3, ValuesAreFinite
<1>5. IsFiniteSet(UNION {rows[s] : s \in DOMAIN p.sections})
  BY <1>2, <1>4, FS_UNION
<1>6. UNION {rows[s] : s \in DOMAIN p.sections} = FragIds(p)
  <2>1. \A s \in DOMAIN p.sections : rows[s] = {<<s, f>> : f \in DOMAIN p.sections[s].frags}
    OBVIOUS
  <2> HIDE DEF rows
  <2> QED
    BY <2>1 DEF FragIds
<1> QED
  BY <1>5, <1>6

(* and these have outgrown finitely many candidates.                       *)
LEMMA FiniteGrowth ==
    ASSUME NEW p \in Program, NEW c \in [FragIds(p) -> Nat \ {0}]
    PROVE  IsFiniteSet(UNION {{id} \X (1 .. c[id] - 1) : id \in FragIds(p)})
<1>1. PICK rows : rows = [id \in FragIds(p) |-> {id} \X (1 .. c[id] - 1)]
  OBVIOUS
<1>2. ASSUME NEW id \in FragIds(p) PROVE IsFiniteSet(rows[id])
  <2>1. c[id] - 1 \in Int /\ 1 \in Int
    OBVIOUS
  <2>2. IsFiniteSet(1 .. c[id] - 1) /\ IsFiniteSet({id})
    BY <2>1, FS_Interval, FS_Singleton
  <2>3. IsFiniteSet({id} \X (1 .. c[id] - 1))
    BY <2>2, FS_Product
  <2> QED
    BY <1>1, <2>3
<1>3. IsFiniteSet({rows[id] : id \in FragIds(p)})
  BY FragmentsAreFinite, ValuesAreFinite
<1>4. IsFiniteSet(UNION {rows[id] : id \in FragIds(p)})
  BY <1>2, <1>3, FS_UNION
<1>5. UNION {rows[id] : id \in FragIds(p)}
         = UNION {{id} \X (1 .. c[id] - 1) : id \in FragIds(p)}
  BY <1>1
<1> QED
  BY <1>4, <1>5

(* What has grown so far is a natural number.                              *)
LEMMA GrowthIsNatural ==
    ASSUME TypeOK
    PROVE  IsFiniteSet(Outgrown) /\ Growth \in Nat
BY FiniteGrowth, FS_CardinalityType DEF Outgrown, TypeOK, Ids, Growth

(* One more for each fragment that grows.                                  *)
LEMMA GrowthGrows ==
    ASSUME TypeOK, TypeOK', prog' = prog, \A id \in Ids : chosen[id] <= chosen'[id]
    PROVE  /\ Growth <= Growth'
           /\ (\E id \in Ids : chosen[id] < chosen'[id]) => Growth + 1 <= Growth'
<1>1. Ids' = Ids /\ chosen \in [Ids -> Nat \ {0}] /\ chosen' \in [Ids -> Nat \ {0}]
  BY DEF TypeOK, Ids
<1>2. PICK before, after : before = Outgrown /\ after = Outgrown'
  OBVIOUS
<1>3. /\ IsFiniteSet(before) /\ IsFiniteSet(after)
      /\ Growth = Cardinality(before) /\ Growth' = Cardinality(after)
      /\ Growth \in Nat /\ Growth' \in Nat
  BY <1>1, <1>2, GrowthIsNatural, FiniteGrowth, FS_CardinalityType DEF TypeOK, Ids, Outgrown,
     Growth
<1>4. /\ \A x : x \in before <=> \E id \in Ids : x \in {id} \X (1 .. chosen[id] - 1)
      /\ \A x : x \in after <=> \E id \in Ids : x \in {id} \X (1 .. chosen'[id] - 1)
  BY <1>1, <1>2 DEF Outgrown
<1>5. ASSUME NEW id \in Ids PROVE (1 .. chosen[id] - 1) \subseteq (1 .. chosen'[id] - 1)
  BY <1>1
<1>6. before \subseteq after
  BY <1>4, <1>5
<1>7. Growth <= Growth'
  BY <1>3, <1>6, FS_Subset
<1>8. ASSUME NEW id \in Ids, chosen[id] < chosen'[id] PROVE Growth + 1 <= Growth'
  <2>1. PICK x : x = <<id, chosen[id]>>
    OBVIOUS
  <2>2. x \in {id} \X (1 .. chosen'[id] - 1)
    BY <1>1, <1>8, <2>1
  <2>3. x \in after
    BY <1>4, <2>2
  <2>4. x \notin before
    <3>1. SUFFICES ASSUME NEW j \in Ids, x \in {j} \X (1 .. chosen[j] - 1) PROVE FALSE
      BY <1>4
    <3>2. j = id /\ chosen[id] \in 1 .. chosen[id] - 1
      BY <2>1, <3>1
    <3> QED
      BY <1>1, <3>2
  <2>5. IsFiniteSet(before \cup {x}) /\ Cardinality(before \cup {x}) = Growth + 1
    BY <1>3, <2>4, FS_AddElement
  <2>6. before \cup {x} \subseteq after
    BY <1>6, <2>3
  <2> QED
    BY <1>3, <2>5, <2>6, FS_Subset
<1> QED
  BY <1>7, <1>8

(* While sizes only grow no step takes one back.                           *)
LEMMA GrowingSteps ==
    ASSUME TypeOK, GrowingMode, Next, ~Emit
    PROVE  /\ prog' = prog
           /\ \A id \in Ids : chosen[id] <= chosen'[id]
<1>1. chosen \in [Ids -> Nat \ {0}]
  BY DEF TypeOK
<1>2. CASE prog' = prog /\ chosen' = chosen
  BY <1>1, <1>2
<1>3. CASE GrowFragment
  BY <1>1, <1>3 DEF GrowFragment
<1>4. CASE GrowInOrder
  <2>1. NextInOrder(cur) \in chosen[cur] .. Candidates(prog, cur) /\ cur \in Ids
    BY <1>4, GrowInOrderTypes DEF GrowInOrder, InOrderWalk, AtFragment
  <2>2. chosen' = [chosen EXCEPT ![cur] = NextInOrder(cur)] /\ prog' = prog
    BY <1>4 DEF GrowInOrder, Pick
  <2>3. Candidates(prog, cur) \in Nat /\ chosen[cur] \in Nat
    BY <1>1, <2>1, FragmentsOfProgram DEF TypeOK, Ids
  <2>4. chosen[cur] <= NextInOrder(cur)
    BY <2>1, <2>3
  <2> QED
    BY <1>1, <2>2, <2>4
<1>5. ~RepickEachPass /\ ~Repick
  BY DEF GrowingMode, RepickEachPass, Repick, FromLastPass, InOrder, EachPass, Shrinking
<1>6. \/ prog' = prog /\ chosen' = chosen
      \/ GrowFragment \/ GrowInOrder
  BY <1>5 DEF Next, vars, layout, AssignAddress, NextRound, EndOfAddresses, PlaceFragment,
              EndOfOffsets, EndOfGrowth, Repad, MoveOnly, EndOfWalk, Settle, NextPass, GiveUp,
              PlaceImage, ApplyFixups, Stop
<1> QED
  BY <1>2, <1>3, <1>4, <1>6

-----------------------------------------------------------------------------
(* The layout at hand is a fixed point, or has been since the pass began.  *)
Calm == \E old : old.prog = prog /\ KeepsOld(old, Here)

(* Padding is the one kind of computed size left, and follows the offset.  *)
PaddedHere(id) ==
    LET frag == FragAt(prog, id)
    IN  frag.kind = "align" => cached[id] = Padding(frag.align, frag.maxSkip, off[id])

FormReaches(id) ==
    chosen[id] < Candidates(prog, id) => VariantFits(Here, id, chosen[id], 0)

(* In an object made of code, data and alignment all sections are at zero. *)
PlainObject == GrowingMode /\ prog.relocatable /\ ~SelfReferential

AtZero == prog.relocatable => \A s \in Sections : addr[s] = 0

(* A layout in which everything is where the sizes put it and every form   *)
(* reaches is a fixed point.                                               *)
LEMMA FixedPointIsCalm ==
    ASSUME TypeOK, PlainObject, AtZero, \A l \in Positions(prog) : Meets(Here, l),
           \A id \in Ids : PaddedHere(id) /\ FormReaches(id)
    PROVE  Calm
<1>1. /\ prog \in Program /\ Here.prog = prog /\ Here.addr = addr /\ Here.chosen = chosen
      /\ Here.off = off /\ Here.cached = cached
  BY DEF TypeOK, Here
<1>2. ASSUME NEW id \in Ids
      PROVE  SizedHere(id) /\ ChosenHere(id)
  <2>1. FragAt(prog, id) \in Fragment
    BY <1>1, FragmentsOfProgram DEF Ids
  <2>2. FragAt(prog, id).kind \in {"bytes", "align", "org", "space", "leb"}
    BY <2>1 DEF Fragment, Instruction
  <2>3. FragAt(prog, id).kind \in {"bytes", "align"}
    BY <2>2 DEF PlainObject, SelfReferential, HasKind, Computed
  <2>4. SizeError(Here, id, off[id]) = {}
    BY <1>1, <2>3 DEF SizeError
  <2>5. FragAt(prog, id).kind # "bytes" => cached[id] = ComputeSize(Here, id, off[id])
    BY <1>1, <2>3 DEF PaddedHere, ComputeSize
  <2>6. Mode # Shrinking
    BY DEF PlainObject, GrowingMode, FromLastPass, InOrder, Shrinking
  <2> QED
    BY <2>4, <2>5, <2>6 DEF SizedHere, ChosenHere, FormReaches
<1>3. Addressed
  <2>1. ASSUME NEW s \in Sections PROVE InPlace(s)
    BY <1>1 DEF InPlace, Base, PlainObject, AtZero
  <2> QED
    BY <2>1 DEF Addressed, Apart, NoOrigins, PlainObject
<1>4. Contiguous(Here) /\ SizesAgree(Here) /\ AddressesAgree(Here)
  BY <1>2, <1>3, SettledIsConsistent DEF Settled
<1>5. Reaching(Here)
  BY <1>1 DEF Reaching, FormReaches, Ids
<1>6. IsLayout(Here) /\ IsFixed(Here)
  BY <1>4, <1>5, HereIsLayout DEF IsFixed
<1>7. Appended(prog, prog)
  BY DEF Appended, NamesOnly
<1>8. Repeats(Here, Here)
  BY DEF Repeats
<1>9. KeepsOld(Here, Here)
  BY <1>1, <1>6, <1>7, <1>8 DEF KeepsOld, PlainObject
<1> QED
  BY <1>1, <1>9 DEF Calm

(* Nothing changes after that: no pass disturbs a fixed point or reports a *)
(* change of it.                                                           *)
LEMMA CalmStays ==
    ASSUME SettlingInv, PlainObject, Calm, pc \in Working, Next
    PROVE  /\ Calm'
           /\ pc \in {"offsets", "relax"} /\ ~changed => ~changed'
<1>1. PICK old : old.prog = prog /\ KeepsOld(old, Here)
  BY DEF Calm
<1>2. KeepsOld(old, Here')
  BY <1>1, PassKeepsOld DEF PlainObject
<1>3. ~Emit
  BY DEF Working, Emit
<1>4. TypeOK /\ prog' = prog
  BY <1>3, GrowingSteps DEF SettlingInv, PlainObject
<1>5. Calm'
  BY <1>1, <1>2, <1>4 DEF Calm
<1>6. /\ \A id \in Ids : /\ chosen'[id] = chosen[id]
                         /\ FragAt(prog, id).kind # "bytes" => cached'[id] = cached[id]
      /\ \A s \in Sections : ssize'[s] = ssize[s]
  BY <1>1, <1>2 DEF KeepsOld, Repeats, Here, Ids, Sections
<1>7. ASSUME pc \in {"offsets", "relax"}, ~changed PROVE ~changed'
  <2>1. /\ chosen \in [Ids -> Nat \ {0}] /\ cached \in [Ids -> Nat] /\ ssize \in [Sections -> Nat]
    BY <1>4 DEF TypeOK
  <2>2. CASE PlaceFragment
    <3>1. PICK size : /\ FragAt(prog, cur).kind = "bytes" => size = FragSize(Here, cur)
                      /\ cached' = [cached EXCEPT ![cur] = size]
                      /\ changed' = (changed \/ FragSize(Here, cur) # size)
                      /\ cur \in Ids
      BY <2>2 DEF PlaceFragment, AtFragment
    <3>2. FragAt(prog, cur).kind # "bytes" => size = FragSize(Here, cur)
      BY <1>6, <2>1, <3>1 DEF FragSize, Here
    <3> QED
      BY <1>7, <3>1, <3>2
  <2>3. CASE EndOfOffsets \/ EndOfWalk
    BY <1>4, <1>6, <1>7, <2>1, <2>3, PositionsOfProgram DEF SettlingInv, OffsetWalk, RelaxWalk,
       EndOfOffsets, EndOfWalk, ResizeSection, TypeOK, Sections
  <2>4. CASE GrowFragment
    <3>1. /\ cur \in Ids /\ changed' = (changed \/ Grows(cur))
          /\ chosen' = IF Grows(cur) THEN [chosen EXCEPT ![cur] = @ + 1] ELSE chosen
      BY <2>4 DEF GrowFragment, AtFragment
    <3>2. ~Grows(cur)
      BY <1>6, <2>1, <3>1
    <3> QED
      BY <1>7, <3>1, <3>2
  <2>5. CASE GrowInOrder
    <3>1. PICK k : /\ cur \in Ids /\ changed' = (changed \/ k # chosen[cur])
                   /\ chosen' = [chosen EXCEPT ![cur] = k]
      BY <2>5 DEF GrowInOrder, InOrderWalk, AtFragment, Pick
    <3>2. k = chosen[cur]
      BY <1>6, <2>1, <3>1
    <3> QED
      BY <1>7, <3>1, <3>2
  <2>6. ~RepickEachPass /\ ~Repick
    BY DEF PlainObject, GrowingMode, RepickEachPass, Repick, FromLastPass, InOrder, EachPass,
           Shrinking
  <2>7. \/ PlaceFragment \/ EndOfOffsets \/ EndOfWalk \/ GrowFragment \/ GrowInOrder
        \/ changed' = changed
    BY <1>7, <2>6 DEF Next, vars, walk, AssignAddress, NextRound, EndOfAddresses, IsPlacing,
                      EndOfGrowth, Repad, MoveOnly, Settle, NextPass, GiveUp, Emit, PlaceImage,
                      ApplyFixups, Stop
  <2> QED
    BY <1>7, <2>2, <2>3, <2>4, <2>5, <2>7
<1> QED
  BY <1>5, <1>7

-----------------------------------------------------------------------------
(* Nothing has grown in the walk so far: everything is where the walk that *)
(* assigned the offsets has put it, and the forms tested there reach.      *)
Quiet ==
    /\ \A l \in Positions(prog) : Meets(Here, l)
    /\ \A id \in Ids : PaddedHere(id) /\ (Behind(id, cur) => FormReaches(id))

(* A fragment with one candidate has no other to take.                     *)
LEMMA OnlyFormReaches ==
    ASSUME TypeOK, NEW id \in Ids, ~IsRelaxable(prog, id)
    PROVE  FormReaches(id)
BY FragmentsOfProgram DEF TypeOK, Ids, Candidates, IsRelaxable, FormReaches

(* A walk in order that has changed nothing is where the offsets are.      *)
LEMMA QuietInPlace ==
    ASSUME SettlingInv, Quiet, InOrderWalk
    PROVE  /\ at = off[cur] /\ Moved = Here /\ Stretch = 0
           /\ [off EXCEPT ![cur] = at] = off
<1>1. /\ cur \in Ids /\ prog \in Program /\ off \in [Ids -> Nat]
      /\ at = EndBefore(Here, cur) /\ Here.off = off /\ Here.prog = prog
  BY DEF SettlingInv, TypeOK, RelaxWalk, InOrderWalk, AtFragment, Here
<1>2. cur \in Positions(prog)
  BY <1>1, PositionsOfFragment DEF Ids
<1>3. at = off[cur]
  BY <1>1, <1>2 DEF Quiet, Meets, LabelOffset, Ids
<1>4. [off EXCEPT ![cur] = at] = off
  BY <1>1, <1>3
<1>5. Moved = [Here EXCEPT !.off = [off EXCEPT ![cur] = at]]
  BY DEF Moved, Here
<1>6. Moved = Here
  BY <1>4, <1>5 DEF Here
<1>7. Stretch = 0
  BY <1>1, <1>3 DEF Stretch
<1> QED
  BY <1>3, <1>4, <1>6, <1>7

(* What a quiet walk does at a fragment: it grows it, or it leaves         *)
(* everything as it is because the form reaches.                           *)
LEMMA QuietVisit ==
    ASSUME SettlingInv, PlainObject, Quiet, pc = "relax", AtFragment, Next
    PROVE  /\ cur \in Ids
           /\ \/ chosen[cur] < chosen'[cur]
              \/ /\ UNCHANGED <<prog, layout>> /\ pc' = pc
                 /\ cur' = <<cur[1], cur[2] + 1>>
                 /\ FormReaches(cur)
<1>1. /\ TypeOK /\ cur \in Ids /\ chosen \in [Ids -> Nat \ {0}] /\ cached \in [Ids -> Nat]
      /\ Mode \in {FromLastPass, InOrder} /\ prog \in Program
  BY DEF SettlingInv, TypeOK, AtFragment, PlainObject, GrowingMode
<1>2. /\ Candidates(prog, cur) \in Nat \ {0} /\ chosen[cur] \in 1 .. Candidates(prog, cur)
  BY <1>1, FragmentsOfProgram DEF TypeOK, Ids
<1>3. CASE GrowFragment
  <2>1. CASE Grows(cur)
    BY <1>1, <1>2, <1>3, <2>1 DEF GrowFragment
  <2>2. CASE ~Grows(cur)
    BY <1>1, <1>3, <2>2 DEF GrowFragment, Grows, FormReaches, layout, Advance
  <2> QED
    BY <2>1, <2>2
<1>4. CASE GrowInOrder
  <2>1. Moved = Here /\ Stretch = 0 /\ [off EXCEPT ![cur] = at] = off
    BY <1>4, QuietInPlace DEF GrowInOrder
  <2>2. PICK k, n, c \in Nat : k = NextInOrder(cur) /\ n = Candidates(prog, cur) /\ c = chosen[cur]
    BY <1>1, <1>2, <1>4, GrowInOrderTypes DEF GrowInOrder
  <2>3. c <= k /\ k <= n
    BY <1>1, <1>2, <1>4, <2>2, GrowInOrderTypes DEF GrowInOrder
  <2>4. /\ chosen' = [chosen EXCEPT ![cur] = k] /\ off' = off /\ pc' = pc
        /\ cur' = <<cur[1], cur[2] + 1>> /\ UNCHANGED <<prog, cached, ssize, addr>>
    BY <1>4, <2>1, <2>2 DEF GrowInOrder, Pick, Advance
  <2>5. CASE c < k
    BY <1>1, <2>2, <2>4, <2>5
  <2>6. CASE c = k
    <3>1. chosen' = chosen
      BY <1>1, <2>2, <2>4, <2>6
    <3>2. ASSUME c < n PROVE VariantFits(Here, cur, chosen[cur], 0)
      <4> DEFINE ks == {j \in c .. n : FitsInOrder(Here, cur, j, 0)}
      <4>1. k = LeastOr(ks, n)
        BY <2>1, <2>2 DEF NextInOrder
      <4>2. ks \in SUBSET Nat
        BY <2>2
      <4> HIDE DEF ks
      <4>3. ks # {}
        BY <2>6, <3>2, <4>1, <4>2, LeastOrIsLeast
      <4>4. k \in ks
        BY <4>1, <4>2, <4>3, LeastOrIsLeast
      <4>5. FitsInOrder(Here, cur, chosen[cur], 0)
        BY <2>2, <2>6, <4>4 DEF ks
      <4>6. FragAt(prog, cur).mode # Shrinking /\ FragAt(prog, cur).kind = "bytes"
        BY <1>1, <1>4, GrowingFragments DEF GrowInOrder, IsRelaxable, PlainObject
      <4>7. IsLayout(Here) /\ Here.prog = prog /\ Here.chosen = chosen
        BY <1>1, HereIsLayout DEF Here
      <4> HIDE DEF Here
      <4> QED
        BY <1>1, <4>5, <4>6, <4>7, FitsWhereItIs DEF Ids
    <3>3. FormReaches(cur)
      BY <2>2, <3>2 DEF FormReaches
    <3> QED
      BY <1>1, <2>4, <3>1, <3>3 DEF layout
  <2> QED
    BY <2>3, <2>5, <2>6
<1>5. CASE Repad
  <2>1. Moved = Here /\ [off EXCEPT ![cur] = at] = off /\ at = off[cur]
    BY <1>5, QuietInPlace DEF Repad
  <2>2. ComputeSize(Here, cur, at) = cached[cur]
    BY <1>1, <1>5, <2>1 DEF Quiet, Repad, Here, PaddedHere, ComputeSize
  <2>3. cached' = cached /\ off' = off
    BY <1>1, <1>5, <2>1, <2>2 DEF Repad
  <2>4. FormReaches(cur)
    BY <1>1, <1>5, OnlyFormReaches DEF Repad, IsRelaxable
  <2> QED
    BY <1>1, <1>5, <2>3, <2>4 DEF Repad, Advance, layout
<1>6. CASE MoveOnly
  BY <1>1, <1>6, QuietInPlace, OnlyFormReaches DEF MoveOnly, IsHeld, FromLastPass, InOrder,
     EachPass, Advance, layout
<1>7. GrowFragment \/ GrowInOrder \/ Repad \/ MoveOnly
  BY <1>1 DEF Next, AssignAddress, NextRound, EndOfAddresses, IsPlacing, PlaceFragment,
              EndOfOffsets, EndOfGrowth, EndOfWalk, CloseSection, RepickEachPass, Repick,
              FromLastPass, InOrder, EachPass, Shrinking, Settle, NextPass, GiveUp, Emit,
              PlaceImage, ApplyFixups, Stop
<1> QED
  BY <1>1, <1>3, <1>4, <1>5, <1>6, <1>7

(* At the end of a section it leaves everything as it is.                  *)
LEMMA QuietEnd ==
    ASSUME SettlingInv, PlainObject, Quiet, pc = "relax", ~AtFragment, Next
    PROVE  /\ UNCHANGED <<prog, layout>>
           /\ cur \in Positions(prog) /\ CloseSection("decide")
<1>1. /\ TypeOK /\ cur \in Positions(prog) /\ prog \in Program /\ ssize \in [Sections -> Nat]
      /\ cur \notin Ids
  BY DEF SettlingInv, TypeOK, RelaxWalk, AtFragment
<1>2. EndOfGrowth \/ EndOfWalk
  BY DEF Next, AssignAddress, NextRound, EndOfAddresses, IsPlacing, PlaceFragment,
         EndOfOffsets, GrowFragment, GrowInOrder, Repad, MoveOnly, InOrderWalk,
         RepickEachPass, Repick, Settle, NextPass, GiveUp, Emit, PlaceImage, ApplyFixups, Stop
<1>3. CASE EndOfGrowth
  BY <1>1, <1>3 DEF EndOfGrowth
<1>4. CASE EndOfWalk
  <2>1. /\ CloseSection("decide") /\ ssize' = [ssize EXCEPT ![cur[1]] = at]
        /\ UNCHANGED <<prog, chosen, cached, off, addr>> /\ at = EndBefore(Here, cur)
    BY <1>4 DEF EndOfWalk, ResizeSection, SettlingInv, RelaxWalk
  <2>2. LabelOffset(Here, cur) = ssize[cur[1]]
    BY <1>1 DEF LabelOffset, Here, Ids
  <2>3. ssize[cur[1]] = at
    BY <1>1, <2>1, <2>2 DEF Quiet, Meets
  <2>4. ssize' = ssize
    BY <1>1, <2>1, <2>3
  <2> QED
    BY <1>1, <2>1, <2>4 DEF layout
<1> QED
  BY <1>2, <1>3, <1>4

(* So a quiet walk goes on quietly, up to a layout that is a fixed point.  *)
LEMMA QuietSteps ==
    ASSUME SettlingInv, TypeOK', PlainObject, AtZero, Quiet, pc = "relax", Next
    PROVE  \/ \E id \in Ids : chosen[id] < chosen'[id]
           \/ pc' = "relax" /\ Quiet'
           \/ pc' = "decide" /\ Calm'
<1>1. TypeOK /\ prog \in Program /\ Ids \subseteq Positions(prog)
  BY FragmentsArePositions DEF SettlingInv, TypeOK
<1>2. ASSUME UNCHANGED <<prog, layout>>
      PROVE  /\ Here' = Here /\ Ids' = Ids
             /\ \A id : /\ PaddedHere(id)' <=> PaddedHere(id)
                        /\ FormReaches(id)' <=> FormReaches(id)
             /\ PlainObject' /\ AtZero'
  BY <1>2, HereStays DEF layout, Ids, PaddedHere, FormReaches, PlainObject, GrowingMode, Mode,
                         SelfReferential, HasKind, AtZero, Sections
<1>3. CASE AtFragment
  <2>1. SUFFICES ASSUME ~(\E id \in Ids : chosen[id] < chosen'[id])
                 PROVE  pc' = "relax" /\ Quiet'
    OBVIOUS
  <2>2. /\ cur \in Ids /\ UNCHANGED <<prog, layout>> /\ pc' = pc
        /\ cur' = <<cur[1], cur[2] + 1>> /\ FormReaches(cur)
    BY <1>3, <2>1, QuietVisit
  <2>3. ASSUME NEW id \in Ids, Behind(id, cur') PROVE FormReaches(id)
    BY <1>1, <2>2, <2>3, FragmentsOfProgram, BehindNextFragment DEF Ids, Quiet
  <2>4. Quiet'
    BY <1>2, <2>2, <2>3 DEF Quiet
  <2> QED
    BY <2>2, <2>4
<1>4. CASE ~AtFragment
  <2>1. UNCHANGED <<prog, layout>> /\ cur \in Positions(prog) /\ CloseSection("decide")
    BY <1>4, QuietEnd
  <2>2. cur \notin Ids
    BY <1>4 DEF AtFragment
  <2>3. PICK next : next = "decide"
    OBVIOUS
  <2>4. CASE /\ pc' = pc /\ \A l \in Positions(prog) : Behind(l, cur') <=> Behind(l, cur) \/ l = cur
    <3>1. \A id \in Ids : Behind(id, cur') => FormReaches(id)
      BY <1>1, <2>2, <2>4 DEF Quiet
    <3>2. \A id \in Ids : PaddedHere(id)' /\ (Behind(id, cur') => FormReaches(id)')
      BY <1>2, <2>1, <3>1 DEF Quiet
    <3>3. \A l \in Positions(prog) : Meets(Here', l)
      BY <1>2, <2>1 DEF Quiet
    <3>4. Ids' = Ids /\ prog' = prog
      BY <1>2, <2>1
    <3> QED
      BY <2>4, <3>2, <3>3, <3>4 DEF Quiet
  <2>5. CASE pc' = "decide" /\ \A l \in Positions(prog) : Behind(l, cur) \/ l = cur
    BY <1>1, <1>2, <2>1, <2>2, <2>5, FixedPointIsCalm DEF Quiet, Calm
  <2> QED
    BY <1>1, <2>1, <2>3, <2>4, <2>5, NextSection
<1> QED
  BY <1>3, <1>4

-----------------------------------------------------------------------------
(* The invariant.  What a pass has still to pay for, or no longer needs to *)
(* because the layout is a fixed point.                                    *)

PassIsPaid ==
    /\ pass <= Growth + 2
    /\ pc = "addresses" => pass <= Growth + 1 \/ Calm
    /\ pc = "offsets" => pass <= Growth + 1 \/ (Calm /\ ~changed)
    /\ pc = "relax" => \/ pass <= Growth
                       \/ pass <= Growth + 1 /\ Quiet
                       \/ Calm /\ ~changed
    /\ pc = "decide" => \/ pass <= Growth
                        \/ pass <= Growth + 1 /\ Calm
                        \/ ~changed

(* The walk that assigns the offsets pads what it has passed to fit them.  *)
PaddedBehind == pc = "offsets" => \A id \in Ids : Behind(id, cur) => PaddedHere(id)

GrowthInv == AtZero /\ PaddedBehind /\ (PlainObject => PassIsPaid)

(* The sections of a relocatable object stay at zero.                      *)
LEMMA ZeroStays ==
    ASSUME TypeOK, AtZero, Next
    PROVE  AtZero'
<1>1. SUFFICES ASSUME prog'.relocatable PROVE \A s \in Sections' : addr'[s] = 0
  BY DEF AtZero
<1>2. CASE Emit
  BY <1>1, <1>2 DEF Emit, TypeOK, Program, AtZero, Extend
<1>3. CASE AssignAddress
  <2>1. prog' = prog /\ \A s \in Sections : addr[s] = 0
    BY <1>1, <1>3 DEF AssignAddress, AtZero
  <2>2. Base(Here, cur[1], at) = 0
    BY <1>1, <2>1 DEF Base, Here
  <2>3. addr' = addr \/ addr' = [addr EXCEPT ![cur[1]] = 0]
    BY <1>3, <2>2 DEF AssignAddress
  <2>4. addr \in [Sections -> Nat]
    BY DEF TypeOK
  <2> QED
    BY <2>1, <2>3, <2>4 DEF Sections
<1>4. UNCHANGED <<prog, addr>> \/ AssignAddress \/ Emit
  BY DEF Next, vars, layout, NextRound, EndOfAddresses, PlaceFragment, EndOfOffsets,
         GrowFragment, EndOfGrowth, GrowInOrder, RepickEachPass, Repick, Pick, Repad, MoveOnly,
         EndOfWalk, Settle, NextPass, GiveUp, PlaceImage, ApplyFixups, Stop
<1>5. CASE UNCHANGED <<prog, addr>>
  BY <1>1, <1>5 DEF AtZero, Sections
<1> QED
  BY <1>2, <1>3, <1>4, <1>5

(* What the walk is past stays padded as its offset asks.                  *)
LEMMA PaddingFollows ==
    ASSUME SettlingInv, PaddedBehind, Next
    PROVE  PaddedBehind'
<1>1. SUFFICES ASSUME pc' = "offsets"
               PROVE  \A id \in Ids' : Behind(id, cur') => PaddedHere(id)'
  BY DEF PaddedBehind
<1>2. TypeOK /\ prog \in Program /\ Ids \subseteq Positions(prog)
  BY FragmentsArePositions DEF SettlingInv, TypeOK
<1>3. CASE EndOfAddresses
  <2>1. cur' = <<1, 1>> /\ Ids' = Ids
    BY <1>3 DEF EndOfAddresses, Ids
  <2>2. ASSUME NEW id \in Ids PROVE ~Behind(id, <<1, 1>>)
    BY <1>2, PositionsOfProgram, BehindNextSection
  <2> QED
    BY <2>1, <2>2
<1>4. CASE PlaceFragment
  <2>1. /\ cur \in Ids /\ cur' = <<cur[1], cur[2] + 1>> /\ prog' = prog
        /\ off' = [off EXCEPT ![cur] = at] /\ pc = "offsets"
    BY <1>4 DEF PlaceFragment, AtFragment, Advance
  <2>2. off \in [Ids -> Nat] /\ cached \in [Ids -> Nat]
    BY <1>2 DEF TypeOK
  <2>3. PICK size : /\ cached' = [cached EXCEPT ![cur] = size]
                    /\ FragAt(prog, cur).kind # "bytes"
                          => size = ComputeSize([Here EXCEPT !.off = off'], cur, at)
    BY <1>4 DEF PlaceFragment
  <2>4. ASSUME NEW id \in Ids, Behind(id, cur') PROVE PaddedHere(id)'
    <3>1. id \in Nat \X Nat /\ cur \in Nat \X Nat
      BY <1>2, <2>1, FragmentsOfProgram DEF Ids
    <3>2. Behind(id, cur) \/ id = cur
      BY <2>1, <2>4, <3>1, BehindNextFragment
    <3>3. CASE id = cur
      BY <2>1, <2>2, <2>3, <3>3 DEF ComputeSize, Here, PaddedHere
    <3>4. CASE id # cur /\ Behind(id, cur)
      BY <2>1, <2>2, <2>3, <3>4 DEF PaddedBehind, PaddedHere
    <3> QED
      BY <3>2, <3>3, <3>4
  <2> QED
    BY <2>1, <2>4 DEF Ids
<1>5. CASE EndOfOffsets
  <2>1. /\ pc = "offsets" /\ CloseSection("relax") /\ cur \in Positions(prog) /\ cur \notin Ids
        /\ UNCHANGED <<prog, cached, off>>
    BY <1>5 DEF EndOfOffsets, CloseSection, SettlingInv, OffsetWalk, AtFragment
  <2>2. PICK next : next = "relax"
    OBVIOUS
  <2>3. \A l \in Positions(prog) : Behind(l, cur') => Behind(l, cur) \/ l = cur
    BY <1>1, <1>2, <2>1, <2>2, NextSection
  <2> QED
    BY <1>2, <2>1, <2>3 DEF PaddedBehind, PaddedHere, Ids
<1>6. \/ EndOfAddresses \/ PlaceFragment \/ EndOfOffsets
      \/ UNCHANGED vars
  BY <1>1 DEF Next, AssignAddress, NextRound, IsPlacing, GrowFragment, EndOfGrowth,
              CloseSection, GrowInOrder, RepickEachPass, Repick, InOrderWalk, Pick, Repad,
              MoveOnly, EndOfWalk, Settle, NextPass, GiveUp, Emit, PlaceImage, ApplyFixups, Stop
<1>7. CASE UNCHANGED vars
  BY <1>1, <1>7 DEF vars, layout, walk, PaddedBehind, PaddedHere, Ids
<1> QED
  BY <1>3, <1>4, <1>5, <1>6, <1>7

(* When it ends, everything is where it has put it.                        *)
LEMMA QuietStart ==
    ASSUME SettlingInv, PaddedBehind, EndOfOffsets, pc' = "relax"
    PROVE  Quiet'
<1>1. /\ TypeOK /\ prog \in Program /\ Ids \subseteq Positions(prog)
      /\ cur \in Positions(prog) /\ pc = "offsets" /\ CloseSection("relax") /\ cur \notin Ids
      /\ ResizeSection /\ at = EndBefore(Here, cur)
      /\ UNCHANGED <<prog, chosen, cached, off, addr>>
  BY FragmentsArePositions
     DEF SettlingInv, TypeOK, OffsetWalk, EndOfOffsets, CloseSection, AtFragment
<1>2. PICK next : next = "relax"
  OBVIOUS
<1>3. \A l \in Positions(prog) : (Behind(l, cur) \/ l = cur) /\ ~Behind(l, cur')
  BY <1>1, <1>2, NextSection
<1>4. ASSUME NEW l \in Positions(prog) PROVE Meets(Here', l)
  BY <1>1, <1>3, ClosingSection DEF AtFragment, SettlingInv, OffsetWalk, Meets
<1>5. ASSUME NEW id \in Ids PROVE PaddedHere(id)' /\ ~Behind(id, cur')
  BY <1>1, <1>3 DEF PaddedBehind, PaddedHere
<1> QED
  BY <1>1, <1>4, <1>5 DEF Quiet, Ids

(* It is one after the step too.                                           *)
LEMMA GrowthStaysNatural ==
    ASSUME TypeOK'
    PROVE  Growth' \in Nat
<1>1. prog' \in Program /\ chosen' \in [FragIds(prog') -> Nat \ {0}]
  BY DEF TypeOK, Ids
<1>2. IsFiniteSet(Outgrown')
  BY <1>1, FiniteGrowth DEF Outgrown, Ids
<1>3. PICK after : after = Outgrown'
  OBVIOUS
<1>4. Cardinality(after) \in Nat
  BY <1>2, <1>3, FS_CardinalityType
<1> QED
  BY <1>3, <1>4 DEF Growth

(* The first pass needs no growth to pay for it.                           *)
LEMMA FirstGrowth ==
    ASSUME Init
    PROVE  GrowthInv
<1>1. TypeOK
  BY InitialTypes
<1>2. Growth \in Nat
  BY <1>1, GrowthIsNatural
<1>3. pc = "addresses" /\ pass = 1 /\ addr = [s \in Sections |-> 0]
  BY DEF Init
<1>4. pass <= Growth + 1 /\ pass <= Growth + 2
  BY <1>2, <1>3
<1>5. AtZero /\ PaddedBehind /\ PassIsPaid
  BY <1>3, <1>4 DEF AtZero, PaddedBehind, PassIsPaid
<1> QED
  BY <1>5 DEF GrowthInv

(* Neither does the pass that sections added later begin with.             *)
LEMMA EmitPays ==
    ASSUME TypeOK', Emit
    PROVE  PassIsPaid'
<1>1. Growth' \in Nat
  BY GrowthStaysNatural
<1>2. pc' = "addresses" /\ pass' = 1
  BY DEF Emit
<1>3. pass' <= Growth' + 1 /\ pass' <= Growth' + 2
  <2>1. PICK h \in Nat : h = Growth'
    BY <1>1
  <2>2. 1 <= h + 1 /\ 1 <= h + 2
    OBVIOUS
  <2> QED
    BY <1>2, <2>1, <2>2
<1> QED
  BY <1>2, <1>3 DEF PassIsPaid

(* Every other step pays for the pass it is in.                            *)
LEMMA StepPays ==
    ASSUME SettlingInv, TypeOK', GrowthInv, PlainObject, PassIsPaid, Next, ~Emit
    PROVE  PassIsPaid'
<1>1. /\ TypeOK /\ GrowingMode /\ AtZero /\ PaddedBehind
  BY DEF SettlingInv, PlainObject, GrowthInv
<1>2. /\ prog' = prog
      /\ Growth <= Growth'
      /\ (\E id \in Ids : chosen[id] < chosen'[id]) => Growth + 1 <= Growth'
  BY <1>1, GrowingSteps, GrowthGrows
<1>3. /\ Growth \in Nat /\ Growth' \in Nat
  BY <1>1, GrowthIsNatural, GrowthStaysNatural
<1>4. PICK g, h \in Nat : g = Growth /\ h = Growth'
  BY <1>3
<1>5. /\ pass \in Nat /\ g <= h
      /\ (\E id \in Ids : chosen[id] < chosen'[id]) => g + 1 <= h
  BY <1>1, <1>2, <1>4 DEF TypeOK
<1>6. /\ pass <= g + 2
      /\ pc = "addresses" => pass <= g + 1 \/ Calm
      /\ pc = "offsets" => pass <= g + 1 \/ (Calm /\ ~changed)
      /\ pc = "relax" => pass <= g \/ (pass <= g + 1 /\ Quiet) \/ (Calm /\ ~changed)
      /\ pc = "decide" => pass <= g \/ (pass <= g + 1 /\ Calm) \/ ~changed
  BY <1>4 DEF PassIsPaid
<1>7. Calm /\ pc \in Working => Calm' /\ (pc \in {"offsets", "relax"} /\ ~changed => ~changed')
  BY CalmStays
<1>8. SUFFICES /\ pass' <= h + 2
               /\ pc' = "addresses" => pass' <= h + 1 \/ Calm'
               /\ pc' = "offsets" => pass' <= h + 1 \/ (Calm' /\ ~changed')
               /\ pc' = "relax" => pass' <= h \/ (pass' <= h + 1 /\ Quiet') \/ (Calm' /\ ~changed')
               /\ pc' = "decide" => pass' <= h \/ (pass' <= h + 1 /\ Calm') \/ ~changed'
  BY <1>4 DEF PassIsPaid
<1>9. CASE pc = "addresses" /\ pass' = pass
           /\ (pc' = "addresses" \/ (pc' = "offsets" /\ changed' = FALSE))
  BY <1>5, <1>6, <1>7, <1>9 DEF Working
<1>10. CASE pc = "offsets" /\ pc' = "offsets" /\ pass' = pass
  BY <1>5, <1>6, <1>7, <1>10 DEF Working
<1>11. CASE EndOfOffsets /\ pc' = "relax"
  BY <1>1, <1>5, <1>6, <1>7, <1>11, QuietStart DEF EndOfOffsets, Working
<1>12. CASE pc = "relax" /\ pc' \in {"relax", "decide"} /\ pass' = pass
  <2>1. pass <= h + 2
    BY <1>5, <1>6
  <2>2. CASE pass <= g
    BY <1>5, <1>12, <2>1, <2>2
  <2>3. CASE pass <= g + 1 /\ Quiet
    BY <1>1, <1>5, <1>12, <2>1, <2>3, QuietSteps
  <2>4. CASE Calm /\ ~changed
    BY <1>7, <1>12, <2>1, <2>4 DEF Working
  <2> QED
    BY <1>6, <1>12, <2>2, <2>3, <2>4
<1>13. CASE NextPass
  BY <1>5, <1>6, <1>7, <1>13 DEF NextPass, Working
<1>14. CASE /\ pass' = pass
            /\ pc' \notin {"addresses", "offsets", "relax", "decide"}
  BY <1>5, <1>6, <1>14
<1>15. \/ pc = "addresses" /\ pass' = pass
          /\ (pc' = "addresses" \/ (pc' = "offsets" /\ changed' = FALSE))
       \/ pc = "offsets" /\ pc' = "offsets" /\ pass' = pass
       \/ EndOfOffsets /\ pc' = "relax"
       \/ pc = "relax" /\ pc' \in {"relax", "decide"} /\ pass' = pass
       \/ NextPass
       \/ pass' = pass /\ pc' \notin {"addresses", "offsets", "relax", "decide"}
  <2>1. CASE AssignAddress \/ NextRound \/ EndOfAddresses
    BY <2>1 DEF AssignAddress, NextRound, EndOfAddresses, IsPlacing
  <2>2. CASE PlaceFragment \/ EndOfOffsets
    BY <2>2 DEF PlaceFragment, EndOfOffsets, CloseSection
  <2>3. CASE GrowFragment \/ EndOfGrowth \/ GrowInOrder \/ Repad \/ MoveOnly \/ EndOfWalk
    BY <2>3 DEF GrowFragment, EndOfGrowth, GrowInOrder, InOrderWalk, Pick, Repad, MoveOnly,
                EndOfWalk, CloseSection
  <2>4. CASE Settle \/ GiveUp \/ PlaceImage \/ ApplyFixups \/ Stop
    BY <2>4 DEF Settle, GiveUp, PlaceImage, ApplyFixups, Stop, vars, walk
  <2>5. ~RepickEachPass /\ ~Repick
    BY <1>1 DEF GrowingMode, RepickEachPass, Repick, FromLastPass, InOrder, EachPass, Shrinking
  <2> QED
    BY <2>1, <2>2, <2>3, <2>4, <2>5 DEF Next
<1> QED
  BY <1>9, <1>10, <1>11, <1>12, <1>13, <1>14, <1>15

(* No step of a pass disturbs any of this.                                 *)
LEMMA GrowthInvStays ==
    ASSUME SettlingInv, TypeOK', GrowthInv, [Next]_vars
    PROVE  GrowthInv'
<1>1. CASE UNCHANGED vars
  BY <1>1 DEF vars, layout, walk, GrowthInv, AtZero, PaddedBehind, PaddedHere, PlainObject,
              GrowingMode, Mode, SelfReferential, HasKind, PassIsPaid, Growth, Outgrown, Calm,
              Quiet, FormReaches, Here, Ids, Sections
<1>2. CASE Next
  <2>1. AtZero' /\ PaddedBehind'
    BY <1>2, ZeroStays, PaddingFollows DEF GrowthInv, SettlingInv
  <2>2. CASE Emit
    BY <2>1, <2>2, EmitPays DEF GrowthInv
  <2>3. CASE ~Emit
    <3>1. SUFFICES ASSUME PlainObject' PROVE PassIsPaid'
      BY <2>1 DEF GrowthInv
    <3>2. prog' = prog
      BY <1>2, <2>3 DEF Next, vars, AssignAddress, NextRound, EndOfAddresses, PlaceFragment,
            EndOfOffsets, GrowFragment, EndOfGrowth, GrowInOrder, RepickEachPass, Repick, Pick,
            Repad, MoveOnly, EndOfWalk, Settle, NextPass, GiveUp, PlaceImage, ApplyFixups, Stop
    <3>3. PlainObject
      BY <3>1, <3>2 DEF PlainObject, GrowingMode, Mode, SelfReferential, HasKind, Ids
    <3> QED
      BY <1>2, <2>3, <3>3, StepPays DEF GrowthInv
  <2> QED
    BY <2>2, <2>3
<1> QED
  BY <1>1, <1>2

(* In an object made of code, data and alignment, laid out by a strategy   *)
(* that only grows, every pass but two is one in which a fragment grew: no *)
(* layout needs more passes than it has candidates to outgrow.             *)
THEOREM PassesArePaidFor == Spec => []PassesNeedGrowth
<1>1. Init => GrowthInv
  BY FirstGrowth
<1>2. SettlingInv /\ TypeOK' /\ GrowthInv /\ [Next]_vars => GrowthInv'
  BY GrowthInvStays
<1>3. GrowthInv => PassesNeedGrowth
  BY DEF GrowthInv, PlainObject, PassIsPaid, PassesNeedGrowth
<1> QED
  BY <1>1, <1>2, <1>3, SettlingInvariant, TypeCorrect, PTL DEF Spec

=============================================================================
