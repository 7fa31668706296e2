------------------------------ MODULE MCLayout ------------------------------
(***************************************************************************)
(* Programs for TLC: every short sequence over a menu of fragments, with   *)
(* reaches scaled down so that a handful of bytes is far away, and a few   *)
(* programs written out with the reaches real instructions have.           *)
(***************************************************************************)
EXTENDS LayoutProperties

Number(n) == [plus |-> {}, minus |-> {}, add |-> n]
To(l) == [plus |-> {l}, minus |-> {}, add |-> 0]
Distance(l, m, n) == [plus |-> {l}, minus |-> {m}, add |-> n]

Far == 100000

(* A field of an absolute value, and one measured from the byte `adjust'   *)
(* past the start of its instruction.                                      *)
Field(e, lo, hi) ==
    [at |-> 0, expr |-> e, pcrel |-> FALSE, pcAlign |-> 1, adjust |-> 0,
     fromStart |-> FALSE, deferred |-> FALSE, diff |-> FALSE,
     lo |-> lo, hi |-> hi, align |-> 1, refused |-> {}]

PcField(e, adjust, lo, hi) ==
    [Field(e, lo, hi) EXCEPT !.pcrel = TRUE, !.adjust = adjust]

(* A PC-relative field at the end of an instruction of the given length.   *)
Branch(len, l, lo, hi) ==
    [len |-> len, fixups |-> <<PcField(To(l), len, lo, hi)>>]

Jump(mode, l, short, long, lo, hi) ==
    [mode |-> mode, kind |-> "bytes",
     variants |-> <<Branch(short, l, lo, hi), Branch(long, l, -Far, Far)>>]

Data(mode, n) ==
    [mode |-> mode, kind |-> "bytes", variants |-> <<[len |-> n, fixups |-> <<>>]>>]

Align(mode, n, skip) ==
    [mode |-> mode, kind |-> "align", align |-> n, maxSkip |-> skip]

Org(mode, e) == [mode |-> mode, kind |-> "org", target |-> e]
Space(mode, e) == [mode |-> mode, kind |-> "space", size |-> e]
Leb(mode, e, signed) ==
    [mode |-> mode, kind |-> "leb", value |-> e, signed |-> signed]

Sect(frags) == [align |-> 1, origin |-> {}, nobits |-> FALSE, frags |-> frags]

Object(sections) ==
    [relocatable |-> TRUE, nasm |-> FALSE, base |-> 0, globals |-> {},
     sections |-> sections, late |-> <<>>]

Flat(base, sections) ==
    [Object(sections) EXCEPT !.relocatable = FALSE, !.base = base]

(* Two sections that are emitted once the code's layout is settled.        *)
Records == <<<<Sect(<<Data(FromLastPass, 3)>>)>>, <<Sect(<<Data(FromLastPass, 1)>>)>>>>

(* One section holding every sequence of n items of a menu; to keep the    *)
(* programs few, sections are emitted only from those that end aligned.    *)
Singles(n, menu) ==
    {[Object(<<Sect(fs)>>) EXCEPT
        !.late = IF fs[n].kind = "align" THEN Records ELSE <<>>] : fs \in [1..n -> menu]}

(* Two-byte jumps that reach three bytes and four-byte ones that reach     *)
(* everything, to the ends and the middle, among data and alignment.       *)
GrowMenu(mode) ==
    {Jump(mode, <<1, f>>, 2, 4, -4, 3) : f \in {1, 3, 5}}
    \cup {Data(mode, 1), Align(mode, 4, {})}

GrowPrograms == Singles(4, GrowMenu(FromLastPass))
InOrderPrograms == Singles(4, GrowMenu(InOrder))

(* Thumb's two lengths, near and further targets, and an alignment that    *)
(* gives up.                                                               *)
EachPassPrograms ==
    Singles(4, {Jump(EachPass, <<1, f>>, 2, 4, -4, 4) : f \in {1, 3, 5}}
               \cup {Jump(EachPass, <<1, 5>>, 2, 4, -6, 8), Data(EachPass, 2)}
               \cup {Align(EachPass, 8, {4})})

(* RX's three: the shortest branch reaches forward only, and not to the    *)
(* next instruction.  One branch is of a backend that only grows, and one  *)
(* instruction is sized by a difference of labels.                         *)
RxBranch(mode, l) ==
    [mode |-> mode, kind |-> "bytes",
     variants |-> <<Branch(1, l, 1, 4), Branch(2, l, -4, 3), Branch(3, l, -Far, Far)>>]

Sized(l, m) ==
    LET Imm(len, lo, hi) ==
            [len |-> len,
             fixups |-> <<[Field(Distance(l, m, 0), lo, hi) EXCEPT
                              !.at = 1, !.diff = TRUE]>>]
    IN  [mode |-> Shrinking, kind |-> "bytes",
         variants |-> <<Imm(2, -4, 3), Imm(3, -Far, Far)>>]

ShrinkPrograms ==
    Singles(4, {RxBranch(Shrinking, <<1, f>>) : f \in {1, 5}}
               \cup {RxBranch(FromLastPass, <<1, 5>>), Sized(<<1, 5>>, <<1, 2>>),
                     Align(Shrinking, 4, {})})

-----------------------------------------------------------------------------
(* Flat images: two sections whose labels depend on where the other ends.  *)

(* An absolute address: a short form for a low one, as on the 6502.        *)
Direct(l, limit) ==
    LET Form(len, hi) ==
            [len |-> len, fixups |-> <<[Field(To(l), 0, hi) EXCEPT !.at = 1]>>]
    IN  [mode |-> FromLastPass, kind |-> "bytes",
         variants |-> <<Form(2, limit), Form(3, Far)>>]

FlatCode ==
    {Direct(<<2, 2>>, 9), Direct(<<0, 0>>, 9), Data(FromLastPass, 3),
     Align(FromLastPass, 4, {2}),
     Org(FromLastPass, Number(5)), Org(FromLastPass, To(<<1, 2>>)),
     Space(FromLastPass, Distance(<<2, 2>>, <<1, 1>>, -4)),
     Space(FromLastPass, To(<<0, 0>>)),
     Leb(FromLastPass, Distance(<<1, 3>>, <<2, 1>>, 70), TRUE)}

FlatData ==
    {<<>>, <<Data(FromLastPass, 2)>>,
     <<Jump(FromLastPass, <<1, 2>>, 2, 3, -6, 6), Leb(FromLastPass, To(<<1, 3>>), FALSE)>>}

(* Whether the first section is empty in the file, whether progbits are    *)
(* placed first, and where the second section has to be.                   *)
Placements == {<<FALSE, FALSE, {}>>, <<FALSE, FALSE, {6}>>, <<TRUE, FALSE, {}>>, <<TRUE, TRUE, {}>>}

FlatPrograms ==
    {[Flat(4, <<[Sect(code) EXCEPT !.nobits = place[1]],
                [Sect(data) EXCEPT !.align = 4, !.origin = place[3]]>>)
        EXCEPT !.nasm = place[2]] :
        code \in [1..2 -> FlatCode], data \in FlatData, place \in Placements}

-----------------------------------------------------------------------------
(* Targets that are numbers, as addresses and as bytes from the section's  *)
(* start, a jump whose short form counts in parcels of two bytes, as       *)
(* RISC-V's do, and an instruction of one form that does not hold every    *)
(* value in its range, as ARM's `adr' does not.                            *)
Goto(mode, n, fromStart) ==
    LET Form(len, lo, hi) ==
            [len |-> len,
             fixups |-> <<[PcField(Number(n), len, lo, hi) EXCEPT !.fromStart = fromStart]>>]
    IN  [mode |-> mode, kind |-> "bytes", variants |-> <<Form(2, -4, 3), Form(4, -Far, Far)>>]

Adr(mode, l) ==
    [mode |-> mode, kind |-> "bytes",
     variants |-> <<[len |-> 2, fixups |-> <<[PcField(To(l), 2, -8, 8) EXCEPT
                                                 !.align = 2, !.refused = {4}]>>]>>]

Parcels(mode, l) ==
    LET Short(x) == [x EXCEPT !.align = 2]
    IN  [Jump(mode, l, 2, 4, -4, 3) EXCEPT !.variants[1].fixups[1] = Short(@)]

NumberMenu(mode) ==
    {Goto(mode, 8, TRUE), Goto(mode, 9, FALSE), Adr(mode, <<1, 4>>), Data(mode, 1),
     Parcels(mode, <<1, 3>>)}

NumberPrograms ==
    LET objects == Singles(3, NumberMenu(FromLastPass)) \cup Singles(3, NumberMenu(EachPass))
    IN  objects \cup {[p EXCEPT !.relocatable = FALSE, !.base = 4] : p \in objects}

(* Everything that has to settle.                                          *)
SettlingPrograms ==
    GrowPrograms \cup InOrderPrograms \cup EachPassPrograms \cup ShrinkPrograms
    \cup FlatPrograms \cup NumberPrograms

-----------------------------------------------------------------------------
(* Programs with real reaches.                                             *)

(* Thumb: `beq' reaches 256 bytes, the PC being four past it.              *)
Beq(l) ==
    LET Form(len, lo, hi) ==
            [len |-> len, fixups |-> <<PcField(To(l), 4, lo, hi)>>]
    IN  [mode |-> EachPass, kind |-> "bytes",
         variants |-> <<Form(2, -256, 254), Form(4, -Far, Far)>>]

ThumbPrograms ==
    {[Object(<<Sect(<<Beq(<<1, 5>>), Data(EachPass, 248), Align(EachPass, 16, {}),
                         Beq(<<1, 2>>)>>)>>) EXCEPT !.late = Records]}

=============================================================================
