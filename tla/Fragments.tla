------------------------------ MODULE Fragments ------------------------------
(***************************************************************************)
(* What the layout pass computes from: a program as the parser leaves it   *)
(* (sections made of fragments), the values its expressions have in a      *)
(* given layout, and the tests that decide whether a candidate encoding of *)
(* an instruction reaches its target.  Everything here is a constant-level *)
(* operator over a layout L, a record                                      *)
(*                                                                         *)
(*   prog    the program                                                   *)
(*   chosen  for each fragment, the candidate it uses (FragKind::Bytes)    *)
(*   cached  for each fragment, the size layout last computed for it       *)
(*   off     for each fragment, Fragment::offset                           *)
(*   ssize   for each section, Section::size                               *)
(*   addr    for each section, Section::addr                               *)
(*                                                                         *)
(* A program is [relocatable, nasm, base, globals, sections, late].  A     *)
(* section is [align, origin, nobits, frags]; `late' holds the sections    *)
(* that `finish' adds once the code has settled, one entry per emission.   *)
(*                                                                         *)
(* A fragment is [mode, kind, ...], where mode is the Relaxation of the    *)
(* backend that emitted it, and the rest depends on the kind:              *)
(*   "bytes"  variants, a sequence of [len, fixups]                        *)
(*   "align"  align, maxSkip (a set of at most one number)                 *)
(*   "org"    target, "space" size, "leb" value and signed: expressions    *)
(*                                                                         *)
(* A label is <<section, fragment>>: it denotes the start of a fragment,   *)
(* or the end of the section when the fragment does not exist. A label in  *)
(* a section the program does not have is a symbol nothing defines. An     *)
(* expression is a Value in the code's normal form plus - minus + addend,  *)
(* the two symbols being sets of at most one label.                        *)
(*                                                                         *)
(* A fixup is [at, expr, pcrel, pcAlign, adjust, fromStart, deferred,      *)
(* diff, lo, hi, align, refused].  `fromStart' says that a PC-relative     *)
(* target that is a number counts from the section's start and not as an   *)
(* address (~pcrel_number_is_address), `deferred' stands for every other   *)
(* reason but a missing address for which fixup_value leaves the field to  *)
(* a relocation, and `diff' is FixupKind::relax_difference.  The rest says *)
(* what FixupKind::fits accepts: a range, value_align, and what `accepts'  *)
(* turns away within it.                                                   *)
(***************************************************************************)
EXTENDS Integers, Sequences

FromLastPass == 0
InOrder      == 1
EachPass     == 2
Shrinking    == 3

Labels == Nat \X Nat

Expr == [plus : SUBSET Labels, minus : SUBSET Labels, add : Int]

Fixup ==
    [at : Nat, expr : Expr, pcrel : BOOLEAN, pcAlign : Nat \ {0}, adjust : Int,
     fromStart : BOOLEAN, deferred : BOOLEAN, diff : BOOLEAN,
     lo : Int, hi : Int, align : Nat \ {0}, refused : SUBSET Int]

(* Candidates are listed smallest-first.                                   *)
Variants ==
    {vs \in Seq([len : Nat, fixups : Seq(Fixup)]) \ {<<>>} :
        \A k \in 2 .. Len(vs) : vs[k-1].len <= vs[k].len}

Relaxation == {FromLastPass, InOrder, EachPass, Shrinking}

(* Only the backend that shrinks sizes a field by a difference of labels.  *)
SizedByDifference(vs) ==
    \E k \in DOMAIN vs : \E i \in DOMAIN vs[k].fixups : vs[k].fixups[i].diff

Instruction ==
    {frag \in [mode : Relaxation, kind : {"bytes"}, variants : Variants] :
        SizedByDifference(frag.variants) => frag.mode = Shrinking}

Fragment ==
    Instruction
    \cup [mode : Relaxation, kind : {"align"}, align : Nat, maxSkip : SUBSET Nat]
    \cup [mode : Relaxation, kind : {"org"}, target : Expr]
    \cup [mode : Relaxation, kind : {"space"}, size : Expr]
    \cup [mode : Relaxation, kind : {"leb"}, value : Expr, signed : BOOLEAN]

Section ==
    [align : Nat \ {0}, origin : SUBSET Nat, nobits : BOOLEAN, frags : Seq(Fragment)]

Program ==
    [relocatable : BOOLEAN, nasm : BOOLEAN, base : Nat, globals : SUBSET Labels,
     sections : Seq(Section) \ {<<>>}, late : Seq(Seq(Section))]

FragIds(p) ==
    UNION {{<<s, f>> : f \in DOMAIN p.sections[s].frags} : s \in DOMAIN p.sections}

FragAt(p, id) == p.sections[id[1]].frags[id[2]]

NumFrags(p, s) == Len(p.sections[s].frags)

(* The most refined Relaxation of any backend the source used.             *)
FileRelaxation(p) ==
    LET modes == {FromLastPass} \cup {FragAt(p, id).mode : id \in FragIds(p)}
    IN  CHOOSE m \in modes : \A n \in modes : n <= m

IsRelaxable(p, id) ==
    /\ FragAt(p, id).kind = "bytes"
    /\ Len(FragAt(p, id).variants) > 1

(* Fragment::size: a candidate's length, or what layout last computed.     *)
FragSize(L, id) ==
    LET frag == FragAt(L.prog, id)
    IN  IF frag.kind = "bytes" THEN frag.variants[L.chosen[id]].len ELSE L.cached[id]

-----------------------------------------------------------------------------
(* Values.  `shift' is Assembler::relax_shift: while variant_fits weighs a *)
(* candidate, the labels past the fragment, and past its offset, count as  *)
(* moved by `by' bytes.                                                    *)

NoShift == [frag |-> <<0, 0>>, pc |-> 0, by |-> 0]

IsDefined(p, l) == l[1] \in DOMAIN p.sections

Symbols(e) == e.plus \cup e.minus

HasAddress(p, e) == \A l \in Symbols(e) : IsDefined(p, l)

LabelOffset(L, l) == IF l \in FragIds(L.prog) THEN L.off[l] ELSE L.ssize[l[1]]

SymbolAddr(L, l, shift) ==
    LET off   == LabelOffset(L, l)
        moved == l[1] = shift.frag[1] /\ l[2] > shift.frag[2] /\ off > shift.pc
    IN  L.addr[l[1]] + off + (IF moved THEN shift.by ELSE 0)

(* resolve_value, for an expression whose symbols all have an address.     *)
Resolve(L, e, shift) ==
    LET Term(ls) == IF ls = {} THEN 0 ELSE SymbolAddr(L, CHOOSE l \in ls : TRUE, shift)
    IN  e.add + Term(e.plus) - Term(e.minus)

Value(L, e, shift) == IF HasAddress(L.prog, e) THEN {Resolve(L, e, shift)} ELSE {}

(* resolve_section_relative: a number as it is, an address less its base.  *)
SectionRelative(L, e, s) ==
    CASE Symbols(e) = {} -> {e.add}
      [] Symbols(e) # {} /\ e.minus = {} /\ \A l \in e.plus : l[1] = s ->
            {Resolve(L, e, NoShift) - L.addr[s]}
      [] OTHER -> {}

-----------------------------------------------------------------------------
(* Sizes.                                                                  *)

Padding(align, maxSkip, off) ==
    LET pad == IF align <= 1 THEN 0 ELSE (-off) % align
    IN  IF \E m \in maxSkip : pad > m THEN 0 ELSE pad

LeastOr(ks, other) ==
    IF ks = {} THEN other ELSE CHOOSE k \in ks : \A j \in ks : k <= j

(* The number of LEB128 bytes of v.  Up to four groups of seven bits are   *)
(* told apart; past them, and for a negative number read as an unsigned    *)
(* 64-bit one, the length is the longest a 64-bit value has.               *)
LebLength(v, signed) ==
    LET Fits(n) == IF signed THEN v \in -(2^(7*n - 1)) .. 2^(7*n - 1) - 1
                             ELSE v \in 0 .. 2^(7*n) - 1
    IN  LeastOr({n \in 1..4 : Fits(n)}, 10)

(* The values a fragment's size comes from, and what is wrong with each.   *)
SizeError(L, id, off) ==
    LET frag == FragAt(L.prog, id)
    IN  CASE frag.kind = "org" ->
               LET t == SectionRelative(L, frag.target, id[1])
               IN  IF t = {} THEN {"unresolved"}
                   ELSE {"backwards" : x \in {y \in t : y < off}}
          [] frag.kind = "space" ->
               LET n == Value(L, frag.size, NoShift)
               IN  IF n = {} THEN {"unresolved"}
                   ELSE {"negative" : x \in {y \in n : y < 0}}
          [] frag.kind = "leb" ->
               IF Value(L, frag.value, NoShift) = {} THEN {"unresolved"} ELSE {}
          [] OTHER -> {}

(* compute_size of a fragment other than plain bytes, placed at off.       *)
ComputeSize(L, id, off) ==
    LET frag == FragAt(L.prog, id)
    IN  CASE frag.kind = "align" -> Padding(frag.align, frag.maxSkip, off)
          [] frag.kind = "leb" ->
               LebLength(IF HasAddress(L.prog, frag.value)
                         THEN Resolve(L, frag.value, NoShift) ELSE 0, frag.signed)
          [] frag.kind = "org" ->
               IF SizeError(L, id, off) # {} THEN 0
               ELSE (CHOOSE t \in SectionRelative(L, frag.target, id[1]) : TRUE) - off
          [] frag.kind = "space" ->
               IF SizeError(L, id, off) # {} THEN 0 ELSE Resolve(L, frag.size, NoShift)

-----------------------------------------------------------------------------
(* Addresses.  An object's sections all sit at zero; a flat image lays     *)
(* them end to end, NASM those with no contents after the others, and only *)
(* NASM aligns an empty one.                                               *)

NextMultiple_Down(n, align) == n - (n % align)

NextMultiple(n, align) == n + ((-n) % align)

(* Where a section goes when the ones before it end at `from'.             *)
Base(L, s, from) ==
    LET section == L.prog.sections[s]
    IN  IF L.prog.relocatable THEN 0
        ELSE IF section.origin # {} THEN CHOOSE a \in section.origin : TRUE
        ELSE IF L.ssize[s] = 0 /\ ~L.prog.nasm THEN from
        ELSE NextMultiple(from, section.align)

(* A section's place in the image: NASM's second round is for nobits.      *)
Round(p, s) == IF p.nasm /\ p.sections[s].nobits THEN 2 ELSE 1

Before(p, s, t) == Round(p, s) < Round(p, t) \/ (Round(p, s) = Round(p, t) /\ s < t)

-----------------------------------------------------------------------------
(***************************************************************************)
(* Whether a candidate encoding reaches: the value a fixup would write     *)
(* (plain_fixup_value), and the four tests the four relaxation strategies  *)
(* put it to.  A fixup value is a set: empty where the code returns None,  *)
(* that is, where only a relocation can fill the field in.                 *)
(***************************************************************************)
Mask(n, align) == n - (n % align)

(* A PC-relative target that is a number of bytes from the section's start *)
IsOffset(x) == x.fromStart /\ Symbols(x.expr) = {}

(* Where a PC-relative field is measured from.  Within one section the PC  *)
(* is rounded from the section's start, across sections from address zero. *)
PcOf(L, x, id) ==
    LET base == L.addr[id[1]]
        at   == L.off[id] + x.at + x.adjust
    IN  IF IsOffset(x) \/ \E l \in x.expr.plus : l[1] = id[1]
        THEN base + Mask(at, x.pcAlign)
        ELSE Mask(base + at, x.pcAlign)

(* In an object, what a PC-relative field leaves to the linker: a label of *)
(* its own section it does not, nor a number that is not an address, nor   *)
(* an expression that only takes a label away.                             *)
PcrelIsRelocated(x, id) ==
    IF x.expr.plus # {}
    THEN x.expr.minus # {} \/ x.deferred \/ \A l \in x.expr.plus : l[1] # id[1]
    ELSE x.expr.minus = {} /\ ~x.fromStart

(* In an object a distance is known within one section only.               *)
DistanceIsRelocated(p, x) ==
    p.relocatable /\ (x.deferred \/ \E l, m \in Symbols(x.expr) : l[1] # m[1])

(* plain_fixup_value: the number to write, or nothing.                     *)
FixupValue(L, x, id, shift) ==
    LET v == Value(L, x.expr, shift)
        start == IF IsOffset(x) THEN L.addr[id[1]] ELSE 0
    IN  CASE x.pcrel ->
                IF L.prog.relocatable /\ PcrelIsRelocated(x, id)
                THEN {} ELSE {t + start - PcOf(L, x, id) : t \in v}
          [] ~x.pcrel /\ x.expr.plus # {} /\ x.expr.minus # {} ->
                IF DistanceIsRelocated(L.prog, x) THEN {} ELSE v
          [] OTHER ->
                IF L.prog.relocatable /\ (Symbols(x.expr) # {} \/ x.deferred)
                THEN {} ELSE v

(* FixupKind::fits.                                                        *)
Holds(x, v) == x.lo <= v /\ v <= x.hi /\ v % x.align = 0 /\ v \notin x.refused

Reaches(x, values) == \E v \in values : Holds(x, v)

Fixups(L, id, k) == FragAt(L.prog, id).variants[k].fixups

(* The label ahead of fragment id, in its own section, that expression e   *)
(* measures to: the fragment it starts, if there is one.                   *)
Ahead(e, id) == {l[2] : l \in {m \in e.plus : m[1] = id[1] /\ m[2] > id[2]}}

-----------------------------------------------------------------------------
(* variant_fits: FromLastPass and Shrinking.  The fragment takes candidate *)
(* k's size and everything after it moves by that and by `stretch'.        *)

(* relaxed_difference: the value GNU as's RX port sizes an immediate by.   *)
(* A difference is compared with the PC as an unsigned number, so every    *)
(* negative one counts as past it.                                         *)
RelaxedDifference(L, e, id, stretch) ==
    LET local == \A l \in Symbols(e) : l[1] = id[1] /\ l \notin L.prog.globals
        diff  == Resolve(L, e, NoShift) - e.add
        grown == IF diff < 0 \/ diff > L.addr[id[1]] + L.off[id] THEN stretch ELSE 0
    IN  IF e.plus # {} /\ e.minus # {} /\ local THEN {diff + e.add + grown} ELSE {}

VariantFits(L, id, k, stretch) ==
    LET variants == FragAt(L.prog, id).variants
        shift == [frag |-> id, pc |-> L.off[id],
                  by |-> variants[k].len - variants[L.chosen[id]].len + stretch]
        Measured(x) == IF x.diff THEN RelaxedDifference(L, x.expr, id, stretch)
                                 ELSE FixupValue(L, x, id, shift)
    IN  \A i \in DOMAIN variants[k].fixups :
           Reaches(variants[k].fixups[i], Measured(variants[k].fixups[i]))

-----------------------------------------------------------------------------
(* fits_stretched: EachPass.  A later target moves by the growth so far,   *)
(* rounded towards zero to each alignment between, which for the powers of *)
(* two alignments are is a rounding to the largest of them.                *)

AlignsBetween(p, id, f) ==
    {1} \cup {FragAt(p, <<id[1], g>>).align :
                 g \in {h \in id[2]+1 .. f-1 :
                           h <= NumFrags(p, id[1]) /\ FragAt(p, <<id[1], h>>).kind = "align"}}

Absorbed(n, aligns) ==
    LET a == CHOOSE x \in aligns : \A y \in aligns : y <= x
    IN  IF a <= 1 THEN n ELSE IF n < 0 THEN -((-n) - ((-n) % a)) ELSE n - (n % a)

FitsStretched(L, id, k, stretch) ==
    LET Moved(x) ==
            IF x.pcrel /\ x.expr.minus = {} /\ Ahead(x.expr, id) # {}
            THEN LET f == CHOOSE g \in Ahead(x.expr, id) : TRUE
                 IN  Absorbed(stretch, AlignsBetween(L.prog, id, f))
            ELSE 0
    IN  \A i \in DOMAIN Fixups(L, id, k) :
           LET x == Fixups(L, id, k)[i]
           IN  Reaches(x, {v + Moved(x) : v \in FixupValue(L, x, id, NoShift)})

-----------------------------------------------------------------------------
(* fits_in_order: InOrder.  A later target moves by the growth so far only *)
(* if no alignment or .org lies between; one that the growth has carried   *)
(* the branch beyond ends the test, and the branch keeps its size.         *)

SameRegion(p, id, f) ==
    \A g \in id[2] .. f-1 :
        g <= NumFrags(p, id[1]) => FragAt(p, <<id[1], g>>).kind \notin {"align", "org"}

FitsInOrder(L, id, k, stretch) ==
    LET fixups == Fixups(L, id, k)
        IsAhead(x) == x.pcrel /\ stretch # 0 /\ Ahead(x.expr, id) # {}
        Moves(x) == /\ IsAhead(x)
                    /\ \/ stretch < 0
                       \/ \E f \in Ahead(x.expr, id) : SameRegion(L.prog, id, f)
        Measured(x) == {v + (IF Moves(x) THEN stretch ELSE 0) :
                           v \in FixupValue(L, x, id, NoShift)}
        Passed(x) == /\ IsAhead(x) /\ ~Moves(x) /\ Measured(x) # {}
                     /\ Resolve(L, x.expr, NoShift) < L.addr[id[1]] + L.off[id]
        FitsUpTo(n) == \A i \in 1..n : Reaches(fixups[i], Measured(fixups[i]))
    IN  \/ FitsUpTo(Len(fixups))
        \/ \E i \in DOMAIN fixups : FitsUpTo(i - 1) /\ Passed(fixups[i])
=============================================================================
