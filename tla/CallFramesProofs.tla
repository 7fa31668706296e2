-------------------------- MODULE CallFramesProofs --------------------------
(***************************************************************************)
(* Whatever .cfi_* directives come in whatever order, the frames that are  *)
(* written are closed and no two have code in common.  It holds because    *)
(* only the last frame can be open, and because a frame begins where the   *)
(* code has got to, which no frame closed before is beyond.  And each of   *)
(* them refers to a CIE that says of it what is so: the second half shows  *)
(* it of a table by induction over its frames.                             *)
(***************************************************************************)
EXTENDS CallFramesProperties, SequenceTheorems, FiniteSetTheorems,
        WellFoundedInduction, TLAPS

FdeInsn == [at : Nat, insn : InsnType]
Fde ==
    [start : Nat, end : Int, simple : BOOLEAN, signal : BOOLEAN, column : Int,
     personality : PointerType, lsda : Encoding, insns : Seq(FdeInsn)]

TypeOK ==
    /\ source \in SourceType
    /\ frags \in Seq(FragType)
    /\ fdes \in Seq(Fde)
    /\ open \in Nat

(* The open frame is the last, and is not written.                         *)
OpenIsLast ==
    /\ open # None => open = Len(fdes)
    /\ Done => open = None

(* Every other one lies before the code that is still to come, and each    *)
(* before the next.                                                        *)
ClosedAreApart ==
    \A f \in 1 .. Len(fdes) :
        /\ fdes[f].start <= Here
        /\ f # open => fdes[f].start <= fdes[f].end /\ fdes[f].end <= Here
        /\ \A g \in 1 .. f - 1 : fdes[g].end <= fdes[f].start

IInv == TypeOK /\ OpenIsLast /\ ClosedAreApart

-----------------------------------------------------------------------------
(* At the end all that ClosedAreApart says of frames is said of each.      *)
LEMMA InvGivesApart == IInv => FramesAreApart
<1> SUFFICES ASSUME IInv, Done PROVE FramesAreApart
  BY DEF FramesAreApart
<1>1. DOMAIN fdes = 1 .. Len(fdes)
  BY LenProperties DEF IInv, TypeOK
<1>2. open = None /\ \A f \in 1 .. Len(fdes) : f # open
  BY DEF IInv, OpenIsLast, None
<1> QED
  BY <1>1, <1>2 DEF IInv, ClosedAreApart, FramesAreApart

(* Before the first directive no frame is open.                            *)
LEMMA InitInv == Init => IInv
<1> SUFFICES ASSUME Init PROVE IInv
  OBVIOUS
<1>1. source \in SourceType
  BY SourcesAssumption DEF Init
<1>2. frags \in Seq(FragType) /\ fdes \in Seq(Fde) /\ Len(fdes) = 0
  BY EmptySeq DEF Init
<1> QED
  BY <1>1, <1>2 DEF Init, IInv, TypeOK, OpenIsLast, ClosedAreApart, None, Done, Reading

(* A directive of the open frame changes nothing of where it lies.         *)
LEMMA InFrameKeepsInv ==
    ASSUME IInv, InFrame, NEW f \in Fde, fdes' = [fdes EXCEPT ![open] = f],
           f.start = fdes[open].start
    PROVE  IInv'
<1>1. /\ fdes \in Seq(Fde) /\ Len(fdes) \in Nat /\ open = Len(fdes) /\ open \in 1 .. Len(fdes)
      /\ open \in Nat
  BY LenProperties DEF IInv, TypeOK, OpenIsLast, InFrame, None
<1>2. /\ fdes' \in Seq(Fde) /\ Len(fdes') = Len(fdes)
      /\ \A g \in 1 .. Len(fdes) : fdes'[g] = IF g = open THEN f ELSE fdes[g]
  BY <1>1, ExceptSeq
<1>3. UNCHANGED <<source, frags, open, linked>>
  BY DEF InFrame, Statement
<1>4. Here' = Here
  BY <1>3 DEF Here
<1>5. ClosedAreApart'
  BY <1>1, <1>2, <1>3, <1>4 DEF IInv, ClosedAreApart
<1> QED
  BY <1>1, <1>2, <1>3, <1>5 DEF IInv, TypeOK, OpenIsLast, Done, Reading

(* A directive is carried out inside a frame only, and adds to that frame. *)
LEMMA DirectivesKeepInv ==
    ASSUME IInv,
           \/ \E insn \in source.insns : Directive(insn)
           \/ SignalFrame
           \/ \E reg \in source.columns : ReturnColumn(reg)
           \/ \E p \in source.personalities : Personality(p)
           \/ \E encoding \in source.lsdas : Lsda(encoding)
    PROVE  IInv'
<1>1. InFrame
  BY DEF Directive, SignalFrame, ReturnColumn, Personality, Lsda
<1>2. /\ open \in 1 .. Len(fdes) /\ fdes \in Seq(Fde)
  BY <1>1, LenProperties DEF IInv, TypeOK, OpenIsLast, InFrame, None
<1> DEFINE g == fdes[open]
<1>3. g \in Fde /\ g.insns \in Seq(FdeInsn)
  <2>1. g \in Fde
    BY <1>2, ElementOfSeq
  <2> HIDE DEF g
  <2> QED
    BY <2>1 DEF Fde
<1>4. Here \in Nat
  BY LenProperties DEF IInv, TypeOK, Here
<1>5. /\ source.insns \subseteq InsnType /\ source.columns \subseteq Nat
      /\ source.personalities \subseteq PointerType /\ source.lsdas \subseteq Encoding
  BY DEF IInv, TypeOK, SourceType
<1>6. CASE \E insn \in source.insns : Directive(insn)
  <2>1. PICK insn \in source.insns : Directive(insn)
    BY <1>6
  <2> DEFINE all == Append(g.insns, [at |-> Here, insn |-> insn])
  <2>2. all \in Seq(FdeInsn)
    BY <1>3, <1>4, <1>5, AppendProperties DEF FdeInsn
  <2> HIDE DEF all
  <2>3. [g EXCEPT !.insns = all] \in Fde /\ [g EXCEPT !.insns = all].start = g.start
    BY <1>3, <2>2 DEF Fde
  <2>4. fdes' = [fdes EXCEPT ![open] = [g EXCEPT !.insns = all]]
    BY <1>2, <2>1 DEF Directive, all
  <2> QED
    BY <1>1, <2>3, <2>4, InFrameKeepsInv
<1>7. CASE SignalFrame
  <2> DEFINE all == Append(g.insns, [at |-> Here, insn |-> Insn("mark", 0, 0)])
  <2>1. Insn("mark", 0, 0) \in InsnType
    BY DEF Insn, InsnType, InsnNames
  <2>2. all \in Seq(FdeInsn)
    BY <1>3, <1>4, <2>1, AppendProperties DEF FdeInsn
  <2> HIDE DEF all
  <2> DEFINE f == [g EXCEPT !.signal = TRUE, !.insns = all]
  <2>3. f \in Fde /\ f.start = g.start
    BY <1>3, <2>2 DEF Fde
  <2>4. fdes' = [fdes EXCEPT ![open] = f]
    BY <1>2, <1>3, <1>7 DEF SignalFrame, all, Fde
  <2> HIDE DEF f
  <2> QED
    BY <1>1, <2>3, <2>4, InFrameKeepsInv
<1>8. CASE \E reg \in source.columns : ReturnColumn(reg)
  <2>1. PICK reg \in source.columns : ReturnColumn(reg)
    BY <1>8
  <2>2. [g EXCEPT !.column = reg] \in Fde /\ [g EXCEPT !.column = reg].start = g.start
    BY <1>3, <1>5 DEF Fde
  <2>3. fdes' = [fdes EXCEPT ![open] = [g EXCEPT !.column = reg]]
    BY <1>2, <2>1 DEF ReturnColumn
  <2> QED
    BY <1>1, <2>2, <2>3, InFrameKeepsInv
<1>9. CASE \E p \in source.personalities : Personality(p)
  <2>1. PICK p \in source.personalities : Personality(p)
    BY <1>9
  <2>2. [g EXCEPT !.personality = p] \in Fde /\ [g EXCEPT !.personality = p].start = g.start
    BY <1>3, <1>5 DEF Fde
  <2>3. fdes' = [fdes EXCEPT ![open] = [g EXCEPT !.personality = p]]
    BY <1>2, <2>1 DEF Personality
  <2> QED
    BY <1>1, <2>2, <2>3, InFrameKeepsInv
<1>10. CASE \E encoding \in source.lsdas : Lsda(encoding)
  <2>1. PICK encoding \in source.lsdas : Lsda(encoding)
    BY <1>10
  <2>2. [g EXCEPT !.lsda = encoding] \in Fde /\ [g EXCEPT !.lsda = encoding].start = g.start
    BY <1>3, <1>5 DEF Fde
  <2>3. fdes' = [fdes EXCEPT ![open] = [g EXCEPT !.lsda = encoding]]
    BY <1>2, <2>1 DEF Lsda
  <2> QED
    BY <1>1, <2>2, <2>3, InFrameKeepsInv
<1> QED
  BY <1>6, <1>7, <1>8, <1>9, <1>10

(* A frame begins where the code has got to, after all that are closed,    *)
(* and there is none that is open.                                         *)
LEMMA StartProcKeepsInv ==
    ASSUME IInv, NEW simple \in BOOLEAN, StartProc(simple)
    PROVE  IInv'
<1>1. UNCHANGED <<source, frags, linked>> /\ Reading /\ Here' = Here
  BY DEF StartProc, Statement, Here
<1>2. CASE open # None
  BY <1>1, <1>2 DEF StartProc, IInv, TypeOK, OpenIsLast, ClosedAreApart, Done, Reading
<1>3. CASE open = None
  <2> DEFINE f == NewFde(Here, simple)
  <2>1. fdes' = Append(fdes, f) /\ open' = Len(fdes')
    BY <1>3 DEF StartProc
  <2>2. fdes \in Seq(Fde) /\ Len(fdes) \in Nat /\ Here \in Nat
    BY LenProperties DEF IInv, TypeOK, Here
  <2>3. f \in Fde /\ f.start = Here
    BY <2>2, EmptySeq DEF NewFde, Fde, Absent, NoPointer, Pointer, PointerType, Encoding, Omit
  <2> HIDE DEF f
  <2>4. /\ fdes' \in Seq(Fde) /\ Len(fdes') = Len(fdes) + 1
        /\ \A g \in 1 .. Len(fdes) : fdes'[g] = fdes[g]
        /\ fdes'[Len(fdes) + 1] = f
    BY <2>1, <2>2, <2>3, AppendProperties
  <2>5. \A g \in 1 .. Len(fdes) : g # open
    BY <1>3 DEF None
  <2>6. ClosedAreApart'
    <3>1. ASSUME NEW g \in 1 .. Len(fdes)
          PROVE  /\ fdes'[g].start <= Here' /\ fdes'[g].start <= fdes'[g].end
                 /\ fdes'[g].end <= Here'
                 /\ \A h \in 1 .. g - 1 : fdes'[h].end <= fdes'[g].start
      BY <1>1, <2>2, <2>4, <2>5 DEF IInv, ClosedAreApart
    <3>2. ASSUME NEW g \in 1 .. Len(fdes'), g # Len(fdes)  + 1
          PROVE  g \in 1 .. Len(fdes)
      BY <2>2, <2>4, <3>2
    <3>3. fdes'[Len(fdes) + 1].start = Here' /\ Here' <= Here'
      BY <1>1, <2>2, <2>3, <2>4
    <3>4. \A h \in 1 .. Len(fdes) : fdes'[h].end <= fdes'[Len(fdes) + 1].start
      BY <3>1, <3>3
    <3>5. open' = Len(fdes) + 1 /\ (Len(fdes) + 1) - 1 = Len(fdes)
      BY <2>1, <2>2, <2>4
    <3> QED
      BY <3>1, <3>2, <3>3, <3>4, <3>5 DEF ClosedAreApart
  <2>7. open' \in Nat
    BY <2>1, <2>2, <2>4
  <2> QED
    BY <1>1, <2>1, <2>4, <2>6, <2>7 DEF IInv, TypeOK, OpenIsLast, Done, Reading
<1> QED
  BY <1>2, <1>3

(* and it is closed where the code has got to since.                       *)
LEMMA EndProcKeepsInv ==
    ASSUME IInv, EndProc
    PROVE  IInv'
<1>1. UNCHANGED <<source, frags, linked>> /\ Here' = Here /\ open' = None /\ Reading
  BY DEF EndProc, Statement, Here
<1>2. CASE open = None
  BY <1>1, <1>2 DEF EndProc, IInv, TypeOK, OpenIsLast, ClosedAreApart, Done, Reading, None
<1>3. CASE open # None
  <2>1. /\ fdes \in Seq(Fde) /\ Len(fdes) \in Nat /\ open = Len(fdes)
        /\ open \in 1 .. Len(fdes) /\ Here \in Nat
    BY <1>3, LenProperties DEF IInv, TypeOK, OpenIsLast, None, Here
  <2> DEFINE g == fdes[open]
             f == [g EXCEPT !.end = Here]
  <2>2. g \in Fde
    BY <2>1, ElementOfSeq
  <2>3. f \in Fde /\ f.start = g.start /\ f.end = Here
    <3>1. Here \in Int
      BY <2>1
    <3> HIDE DEF g
    <3> QED
      BY <2>2, <3>1 DEF Fde
  <2>4. fdes' = [fdes EXCEPT ![open] = f]
    BY <1>3 DEF EndProc
  <2> HIDE DEF f
  <2>5. /\ fdes' \in Seq(Fde) /\ Len(fdes') = Len(fdes)
        /\ \A h \in 1 .. Len(fdes) : fdes'[h] = IF h = open THEN f ELSE fdes[h]
    BY <2>1, <2>3, <2>4, ExceptSeq
  <2>6. ClosedAreApart'
    <3>1. ASSUME NEW h \in 1 .. Len(fdes)
          PROVE  /\ fdes'[h].start = fdes[h].start
                 /\ fdes'[h].end = IF h = open THEN Here ELSE fdes[h].end
      BY <2>3, <2>5
    <3>2. ASSUME NEW h \in 1 .. Len(fdes)
          PROVE  fdes'[h].start <= fdes'[h].end /\ fdes'[h].end <= Here
      BY <2>1, <3>1 DEF IInv, ClosedAreApart
    <3>3. ASSUME NEW h \in 1 .. Len(fdes), NEW k \in 1 .. h - 1
          PROVE  fdes'[k].end <= fdes'[h].start
      <4>1. k \in 1 .. Len(fdes) /\ k # open
        BY <2>1
      <4> QED
        BY <3>1, <4>1 DEF IInv, ClosedAreApart
    <3>4. ASSUME NEW h \in 1 .. Len(fdes) PROVE fdes'[h].start <= Here
      BY <3>1 DEF IInv, ClosedAreApart
    <3> QED
      BY <1>1, <2>5, <3>2, <3>3, <3>4 DEF ClosedAreApart
  <2> QED
    BY <1>1, <2>5, <2>6 DEF IInv, TypeOK, OpenIsLast, Done, Reading, None
<1> QED
  BY <1>2, <1>3

(* Code moves the place that is still to come further on.                  *)
LEMMA InstructionKeepsInv ==
    ASSUME IInv, NEW frag \in source.frags, Instruction(frag)
    PROVE  IInv'
<1>1. UNCHANGED <<source, fdes, open, linked>> /\ frags' = Append(frags, frag)
  BY DEF Instruction, Statement
<1>2. frag \in FragType /\ frags \in Seq(FragType) /\ fdes \in Seq(Fde)
  BY DEF IInv, TypeOK, SourceType
<1>3. frags' \in Seq(FragType) /\ Here' = Here + 1 /\ Here \in Nat
  BY <1>1, <1>2, AppendProperties, LenProperties DEF Here
<1>4. ASSUME NEW f \in 1 .. Len(fdes)
      PROVE  /\ fdes[f].start <= Here'
             /\ f # open => fdes[f].start <= fdes[f].end /\ fdes[f].end <= Here'
  <2>1. fdes[f] \in Fde
    BY <1>2, ElementOfSeq
  <2>2. fdes[f].start \in Int /\ fdes[f].end \in Int
    BY <2>1 DEF Fde
  <2> QED
    BY <1>3, <2>2 DEF IInv, ClosedAreApart
<1>5. ClosedAreApart'
  BY <1>1, <1>4 DEF IInv, ClosedAreApart
<1> QED
  BY <1>1, <1>3, <1>5 DEF IInv, TypeOK, OpenIsLast, Done, Reading

(* Every step keeps the invariant: the inductive step of the theorem.      *)
LEMMA NextKeepsInv == IInv /\ [Next]_vars => IInv'
<1> SUFFICES ASSUME IInv, [Next]_vars PROVE IInv'
  OBVIOUS
<1>1. CASE UNCHANGED <<source, frags, fdes, open, linked>>
  BY <1>1 DEF IInv, TypeOK, OpenIsLast, ClosedAreApart, Done, Reading, Here
<1>2. CASE UNCHANGED vars
  BY <1>1, <1>2 DEF vars
<1>3. CASE \E frag \in source.frags : Instruction(frag)
  BY <1>3, InstructionKeepsInv
<1>4. CASE OutsideFrame \/ \E names \in source.sections : CfiSections(names)
  BY <1>1, <1>4 DEF OutsideFrame, CfiSections, Statement
<1>5. CASE \E simple \in source.simple : StartProc(simple)
  <2>1. source.simple \subseteq BOOLEAN
    BY DEF IInv, TypeOK, SourceType
  <2> QED
    BY <1>5, <2>1, StartProcKeepsInv
<1>6. CASE EndProc
  BY <1>6, EndProcKeepsInv
<1>7. CASE \/ \E insn \in source.insns : Directive(insn)
           \/ SignalFrame
           \/ \E reg \in source.columns : ReturnColumn(reg)
           \/ \E p \in source.personalities : Personality(p)
           \/ \E encoding \in source.lsdas : Lsda(encoding)
  BY <1>7, DirectivesKeepInv
<1>8. CASE \E taken \in SUBSET Moving : Link(taken)
  <2>1. UNCHANGED <<source, frags, fdes, open>> /\ (open # None => linked' = linked)
    BY <1>8 DEF Link
  <2>2. Done' => open = None
    BY <2>1 DEF IInv, OpenIsLast, Done, Reading
  <2> QED
    BY <2>1, <2>2 DEF IInv, TypeOK, OpenIsLast, ClosedAreApart, Here
<1> QED
  BY <1>2, <1>3, <1>4, <1>5, <1>6, <1>7, <1>8 DEF Next

(* Who looks up an address finds at most one frame, whatever directives    *)
(* came in whatever order: .cfi_startproc in an open frame and             *)
(* .cfi_endproc outside leave the frames there are as they were            *)
(* (dwarf/cfi.rs).                                                         *)
THEOREM FramesStayApart == Spec => []FramesAreApart
BY InitInv, NextKeepsInv, InvGivesApart, PTL DEF Spec

-----------------------------------------------------------------------------
(***************************************************************************)
(* Which CIE a frame refers to: tables are written frame by frame, and     *)
(* what a CIE was made for stays what it is for.                           *)
(***************************************************************************)
(* What holds of 0, and of n + 1 when it holds of n, holds of every        *)
(* natural.                                                                *)
LEMMA InductionBySets ==
    ASSUME NEW S, 0 \in S, \A n \in Nat : n \in S => n + 1 \in S
    PROVE  Nat \subseteq S
<1> DEFINE Less == {ss \in Nat \X Nat : ss[1] < ss[2]}
<1>1. IsWellFoundedOn(Less, Nat)
  BY Zenon, NatLessThanWellFounded DEF OpToRel
<1> HIDE DEF Less
<1>2. SUFFICES ASSUME Nat \ S # {} PROVE FALSE
  OBVIOUS
<1>3. PICK k \in Nat \ S : \A j \in Nat \ S : ~ (<<j, k>> \in Less)
  BY <1>1, <1>2, WFMin
<1>4. k - 1 \in Nat /\ <<k - 1, k>> \in Less
  BY DEF Less
<1>5. k - 1 \in S
  BY <1>3, <1>4
<1> QED
  BY <1>4, <1>5

(* A set of positions in a sequence has a first and a last.                *)
LEMMA FirstAndLast ==
    ASSUME NEW n \in Nat, NEW I \in SUBSET (1..n), I # {}
    PROVE  Min(I) \in I /\ Max(I) \in I
<1> DEFINE S == {k \in Nat : \A J \in SUBSET (1..n) :
                    /\ (\E j \in J : j <= k) => \E j \in J : \A i \in J : j <= i
                    /\ (\E j \in J : n - j <= k) => \E j \in J : \A i \in J : i <= j}
<1>1. 0 \in S
  OBVIOUS
<1>2. ASSUME NEW k \in Nat, k \in S
      PROVE  k + 1 \in S
  <2> SUFFICES ASSUME NEW J \in SUBSET (1..n)
               PROVE  /\ (\E j \in J : j <= k + 1) => \E j \in J : \A i \in J : j <= i
                      /\ (\E j \in J : n - j <= k + 1) => \E j \in J : \A i \in J : i <= j
    OBVIOUS
  <2>1. ASSUME NEW j \in J, j <= k + 1
        PROVE  \E l \in J : \A i \in J : l <= i
    <3>1. CASE \E i \in J : i <= k
      BY <1>2, <3>1
    <3>2. CASE ~ \E i \in J : i <= k
      <4>1. \A i \in J : j <= i
        BY <2>1, <3>2
      <4> QED
        BY <4>1
    <3> QED
      BY <3>1, <3>2
  <2>2. ASSUME NEW j \in J, n - j <= k + 1
        PROVE  \E l \in J : \A i \in J : i <= l
    <3>1. CASE \E i \in J : n - i <= k
      BY <1>2, <3>1
    <3>2. CASE ~ \E i \in J : n - i <= k
      <4>1. \A i \in J : i <= j
        BY <2>2, <3>2
      <4> QED
        BY <4>1
    <3> QED
      BY <3>1, <3>2
  <2> QED
    BY <2>1, <2>2
<1> HIDE DEF S
<1>3. n \in S
  BY <1>1, <1>2, InductionBySets
<1>4. \E j \in I : j <= n /\ n - j <= n
  <2>1. PICK j \in I : TRUE
    OBVIOUS
  <2>2. j \in 1..n
    BY <2>1
  <2>3. j <= n /\ n - j <= n
    BY <2>2
  <2> QED
    BY <2>1, <2>3
<1>5. (\E j \in I : \A i \in I : j <= i) /\ (\E j \in I : \A i \in I : i <= j)
  BY <1>3, <1>4 DEF S
<1>6. Min(I) \in I
  BY <1>5 DEF Min
<1>7. Max(I) \in I
  BY <1>5 DEF Max
<1> QED
  BY <1>6, <1>7

(* The function FramesOf is a value of.                                    *)
IsUpTo(g, target, of, ordered, eh, last) ==
    g = [n \in 0..last |->
            IF n = 0 THEN NoFrames ELSE AddFrame(target, of, eh, g[n - 1], ordered[n])]

(* There is one for every frame.                                           *)
LEMMA UpToExists ==
    ASSUME NEW target, NEW of, NEW ordered, NEW eh, NEW last \in Nat
    PROVE  \E g : IsUpTo(g, target, of, ordered, eh, last)
<1> DEFINE S == {n \in Nat : \E g : IsUpTo(g, target, of, ordered, eh, n)}
<1>1. 0 \in S
  <2>1. IsUpTo([n \in 0..0 |-> NoFrames], target, of, ordered, eh, 0)
    BY DEF IsUpTo
  <2> QED
    BY <2>1
<1>2. ASSUME NEW n \in Nat, n \in S
      PROVE  n + 1 \in S
  <2>1. PICK g : IsUpTo(g, target, of, ordered, eh, n)
    BY <1>2
  <2> DEFINE Next1(t, f) == AddFrame(target, of, eh, t, ordered[f])
             h == [f \in 0..n + 1 |-> IF f = n + 1 THEN Next1(g[n], n + 1) ELSE g[f]]
  <2>2. \A f \in 0..n : g[f] = IF f = 0 THEN NoFrames ELSE Next1(g[f - 1], f)
    BY <2>1 DEF IsUpTo
  <2> HIDE DEF Next1
  <2>3. ASSUME NEW f \in 0..n + 1
        PROVE  h[f] = IF f = 0 THEN NoFrames ELSE Next1(h[f - 1], f)
    <3>1. CASE f = n + 1
      <4>1. f # 0 /\ f - 1 = n /\ n \in 0..n + 1 /\ n # n + 1
        BY <3>1
      <4>2. h[f - 1] = g[n] /\ h[f] = Next1(g[n], n + 1)
        BY <3>1, <4>1
      <4> QED
        BY <3>1, <4>1, <4>2
    <3>2. CASE f # n + 1
      <4>1. f \in 0..n /\ (f # 0 => f - 1 \in 0..n + 1 /\ f - 1 # n + 1)
        BY <3>2
      <4>2. h[f] = g[f] /\ (f # 0 => h[f - 1] = g[f - 1])
        BY <4>1
      <4> QED
        BY <2>2, <4>1, <4>2
    <3> QED
      BY <3>1, <3>2
  <2>4. h = [f \in 0..n + 1 |-> h[f]]
    OBVIOUS
  <2> HIDE DEF h
  <2>5. IsUpTo(h, target, of, ordered, eh, n + 1)
    BY <2>3, <2>4 DEF IsUpTo, Next1
  <2> QED
    BY <2>5
<1> HIDE DEF S
<1>3. Nat \subseteq S
  BY <1>1, <1>2, InductionBySets
<1> QED
  BY <1>3 DEF S

(* FramesOf adds the frames one by one: what holds of no frames, and of    *)
(* one more when it holds of those before it, holds of all.                *)
LEMMA FramesOfIsLast ==
    ASSUME NEW target, NEW of, NEW all, Len(all) \in Nat, NEW eh
    PROVE  \E g :
              /\ FramesOf(target, of, all, eh) = g[Len(all)]
              /\ IsUpTo(g, target, of, Ordered(target, all), eh, Len(all))
<1>1. FramesOf(target, of, all, eh) =
         (CHOOSE g : IsUpTo(g, target, of, Ordered(target, all), eh, Len(all)))[Len(all)]
  BY DEF FramesOf, IsUpTo
<1>2. \E g : IsUpTo(g, target, of, Ordered(target, all), eh, Len(all))
  BY UpToExists
<1> QED
  BY <1>1, <1>2

-----------------------------------------------------------------------------
(* A table of n frames whose CIEs serve them; of llvm-mc what is kept      *)
(* under a key serves every frame with that key.                           *)
Keeps(target, cies, eh) ==
    target.flavor # "gnu" =>
        \A c \in 1 .. Len(cies) : \A fde \in Fde :
            cies[c].key = Key(target, fde) => Serves(target, cies[c].common, Common(target, fde, eh))

Agree(target, table, ordered, eh, n) ==
    /\ \E C : table.cies \in Seq(C)
    /\ \E F : table.frames \in Seq(F)
    /\ Len(table.frames) = n
    /\ Keeps(target, table.cies, eh)
    /\ \A f \in 1..n :
          /\ table.frames[f].cie \in 1 .. Len(table.cies)
          /\ Serves(target, table.cies[table.frames[f].cie].common, Common(target, ordered[f], eh))

(* A table with one more frame, whose CIE is there already or is added.    *)
LEMMA OneMoreAgrees ==
    ASSUME NEW target, NEW table, NEW ordered, NEW eh, NEW n \in Nat,
           Agree(target, table, ordered, eh, n),
           NEW next, NEW frame, NEW made, next.frames = Append(table.frames, frame),
           \/ next.cies = table.cies /\ frame.cie \in 1 .. Len(table.cies)
           \/ next.cies = Append(table.cies, made) /\ frame.cie = Len(next.cies),
           Keeps(target, next.cies, eh),
           Serves(target, next.cies[frame.cie].common, Common(target, ordered[n + 1], eh))
    PROVE  Agree(target, next, ordered, eh, n + 1)
<1>1. PICK C : table.cies \in Seq(C)
  BY DEF Agree
<1>2. PICK F : table.frames \in Seq(F)
  BY DEF Agree
<1> DEFINE D == C \cup {made}
           G == F \cup {frame}
<1>3. table.cies \in Seq(D) /\ made \in D /\ table.frames \in Seq(G) /\ frame \in G
  BY <1>1, <1>2
<1> HIDE DEF D, G
<1>4. /\ next.frames \in Seq(G) /\ Len(next.frames) = n + 1
      /\ \A f \in 1..n : next.frames[f] = table.frames[f]
      /\ next.frames[n + 1] = frame
  BY <1>3, AppendProperties DEF Agree
<1>5. /\ next.cies \in Seq(D) /\ Len(next.cies) \in Nat /\ Len(table.cies) \in Nat
      /\ Len(table.cies) <= Len(next.cies) /\ frame.cie \in 1 .. Len(next.cies)
      /\ \A c \in 1 .. Len(table.cies) : next.cies[c] = table.cies[c]
  <2>1. CASE next.cies = table.cies /\ frame.cie \in 1 .. Len(table.cies)
    BY <1>3, <2>1, LenProperties
  <2>2. CASE next.cies = Append(table.cies, made) /\ frame.cie = Len(next.cies)
    BY <1>3, <2>2, AppendProperties, LenProperties
  <2> QED
    BY <2>1, <2>2
<1>6. ASSUME NEW f \in 1 .. n + 1
      PROVE  /\ next.frames[f].cie \in 1 .. Len(next.cies)
             /\ Serves(target, next.cies[next.frames[f].cie].common, Common(target, ordered[f], eh))
  <2>1. CASE f = n + 1
    BY <1>4, <1>5, <2>1
  <2>2. CASE f \in 1..n
    <3>1. PICK c \in 1 .. Len(table.cies) :
             /\ table.frames[f].cie = c
             /\ Serves(target, table.cies[c].common, Common(target, ordered[f], eh))
      BY <2>2 DEF Agree
    <3>2. next.frames[f].cie = c /\ next.cies[c] = table.cies[c]
      BY <1>4, <1>5, <2>2, <3>1
    <3>3. c \in 1 .. Len(next.cies)
      BY <1>5
    <3> QED
      BY <3>1, <3>2, <3>3
  <2>3. f = n + 1 \/ f \in 1..n
    OBVIOUS
  <2> QED
    BY <2>1, <2>2, <2>3
<1> QED
  BY <1>4, <1>5, <1>6 DEF Agree

(* GNU as looks for a CIE by what it is for, and the instructions.         *)
LEMMA GnuFrameAgrees ==
    ASSUME NEW target, target.flavor = "gnu", NEW of, NEW table, NEW ordered, NEW eh,
           NEW n \in Nat, Agree(target, table, ordered, eh, n)
    PROVE  Agree(target, GnuFrame(target, of, eh, table, ordered[n + 1]), ordered, eh, n + 1)
<1> DEFINE fde == ordered[n + 1]
           insns == GnuInsns(target, of, fde)
           common == Common(target, fde, eh)
           Fits(c) == Shares(c, common, insns)
           found == SelectLastInSeq(table.cies, Fits)
           lead == SubSeq(insns, 1, Lead(insns))
           made == [common |-> common, insns |-> lead, ops |-> WriteInsns(target, lead)]
           cies == IF found = 0 THEN Append(table.cies, made) ELSE table.cies
           cie == IF found = 0 THEN Len(cies) ELSE found
           rest == SubSeq(insns, Len(cies[cie].insns) + 1, Len(insns))
           long == Offset(of, EndOf(fde)) - Offset(of, StartOf(fde))
           frame == Frame(cie, fde, WriteInsns(target, rest), long)
           next == GnuFrame(target, of, eh, table, fde)
<1>1. next = [cies |-> cies, frames |-> Append(table.frames, frame)]
  BY DEF GnuFrame
<1>2. PICK C : table.cies \in Seq(C)
  BY DEF Agree
<1>3. Len(table.cies) \in Nat
  BY <1>2, LenProperties
<1>4. found # 0 => found \in 1 .. Len(table.cies) /\ table.cies[found].common = common
  <2> DEFINE I == {i \in 1 .. Len(table.cies) : Fits(table.cies[i])}
  <2>1. found = IF I # {} THEN Max(I) ELSE 0
    BY DEF SelectLastInSeq
  <2>2. I # {} => Max(I) \in I
    BY <1>3, FirstAndLast
  <2>3. \A i \in I : i \in 1 .. Len(table.cies) /\ table.cies[i].common = common
    BY DEF Shares
  <2> HIDE DEF I, found
  <2> QED
    BY <2>1, <2>2, <2>3
<1>5. frame.cie = cie
  BY DEF Frame
<1>6. made.common = common
  OBVIOUS
<1> HIDE DEF made, found, frame, next, common
<1>7. /\ next.frames = Append(table.frames, frame) /\ next.cies = cies
      /\ Keeps(target, next.cies, eh)
  BY <1>1 DEF Keeps
<1>8. CASE found = 0
  <2>1. made \in C \cup {made} /\ table.cies \in Seq(C \cup {made})
    BY <1>2
  <2>2. cies = Append(table.cies, made) /\ cie = Len(cies)
    BY <1>8
  <2>3. Len(cies) = Len(table.cies) + 1 /\ cies[Len(table.cies) + 1] = made
    BY <2>1, <2>2, AppendProperties
  <2>4. Serves(target, next.cies[frame.cie].common, common)
    BY <1>5, <1>6, <1>7, <2>2, <2>3 DEF Serves
  <2> QED
    BY <1>5, <1>7, <2>2, <2>4, OneMoreAgrees DEF common, next
<1>9. CASE found # 0
  <2>1. cies = table.cies /\ cie = found
    BY <1>9
  <2>2. Serves(target, next.cies[frame.cie].common, common)
    BY <1>4, <1>5, <1>7, <1>9, <2>1 DEF Serves
  <2> QED
    BY <1>4, <1>5, <1>7, <1>9, <2>1, <2>2, OneMoreAgrees DEF common, next
<1> QED
  BY <1>8, <1>9 DEF next

(* A CIE made for one frame serves every other with its key.               *)
LEMMA KeySaysAll ==
    ASSUME NEW target, target.flavor # "gnu", NEW f \in Fde, NEW g \in Fde,
           Key(target, f) = Key(target, g)
    PROVE  Serves(target, Common(target, f, TRUE), Common(target, g, TRUE))
<1>1. /\ f.personality.name = g.personality.name
      /\ InKey(f.personality.enc) = InKey(g.personality.enc) /\ InKey(f.lsda) = InKey(g.lsda)
      /\ BoolToInt(f.signal) = BoolToInt(g.signal) /\ Column(target, f) = Column(target, g)
  BY DEF Key
<1>2. f.signal \in BOOLEAN /\ g.signal \in BOOLEAN
  BY DEF Fde
<1>3. f.signal = g.signal
  BY <1>1, <1>2 DEF BoolToInt
<1>4. \A enc, other : InKey(enc) = InKey(other) => Alike(enc, other)
  BY DEF InKey, Alike
<1>5. Alike(f.personality.enc, g.personality.enc) /\ Alike(f.lsda, g.lsda)
  BY <1>1, <1>4
<1> QED
  BY <1>1, <1>3, <1>5 DEF Common, Serves

(* llvm-mc's .eh_frame looks for a CIE by its key.                         *)
LEMMA LlvmFrameAgrees ==
    ASSUME NEW target, target.flavor # "gnu", NEW of, NEW table, NEW ordered, NEW n \in Nat,
           ordered[n + 1] \in Fde, Agree(target, table, ordered, TRUE, n)
    PROVE  Agree(target, LlvmFrame(target, of, TRUE, table, ordered[n + 1]), ordered, TRUE, n + 1)
<1> DEFINE fde == ordered[n + 1]
           key == Key(target, fde)
           Fits(c) == ~TRUE \/ c.key = key
           found == SelectInSeq(table.cies, Fits)
           insns == Initial(target, fde)
           starts == SelectSeq(insns, LAMBDA i : i.is \in {"def_cfa", "def_cfa_offset"})
           made == [key |-> key, common |-> Common(target, fde, TRUE), insns |-> insns,
                    ops |-> WriteInsns(target, insns),
                    cfa |-> IF starts = <<>> THEN table.cfa ELSE Last(starts).off]
           cies == IF found = 0 THEN Append(table.cies, made) ELSE table.cies
           cie == IF found = 0 THEN Len(cies) ELSE found
           start == Offset(of, StartOf(fde))
           end == Offset(of, EndOf(fde))
           long == IF MovesBetween(of, start, end) THEN Absent ELSE end - start
           Step(s, placed) == LlvmStep(target, of, s, placed)
           done == FoldLeft(Step, [ops |-> <<>>, cfa |-> cies[cie].cfa, last |-> start,
                                   at |-> StartOf(fde)], fde.insns)
           frame == Frame(cie, fde, done.ops, long)
           next == LlvmFrame(target, of, TRUE, table, fde)
<1>1. /\ next.cies = cies /\ next.frames = Append(table.frames, frame)
      /\ frame.cie = cie
  <2>1. next = [cies |-> cies, frames |-> Append(table.frames, frame), cfa |-> done.cfa]
    BY DEF LlvmFrame
  <2>2. frame.cie = cie
    BY DEF Frame
  <2> HIDE DEF next, frame, cies, cie, done
  <2> QED
    BY <2>1, <2>2
<1>2. PICK C : table.cies \in Seq(C)
  BY DEF Agree
<1>3. Len(table.cies) \in Nat
  BY <1>2, LenProperties
<1>4. found # 0 => found \in 1 .. Len(table.cies) /\ table.cies[found].key = key
  <2> DEFINE I == {i \in 1 .. Len(table.cies) : Fits(table.cies[i])}
  <2>1. found = IF I # {} THEN Min(I) ELSE 0
    BY DEF SelectInSeq
  <2>2. I # {} => Min(I) \in I
    BY <1>3, FirstAndLast
  <2>3. \A i \in I : i \in 1 .. Len(table.cies) /\ table.cies[i].key = key
    OBVIOUS
  <2> HIDE DEF I, found
  <2> QED
    BY <2>1, <2>2, <2>3
<1>5. made.key = key /\ made.common = Common(target, fde, TRUE)
  OBVIOUS
<1> HIDE DEF made, found, next, frame
<1>6. CASE found = 0
  <2>1. made \in C \cup {made} /\ table.cies \in Seq(C \cup {made})
    BY <1>2
  <2>2. cies = Append(table.cies, made) /\ cie = Len(cies)
    BY <1>6
  <2>3. /\ Len(cies) = Len(table.cies) + 1 /\ cies[Len(table.cies) + 1] = made
        /\ \A c \in 1 .. Len(table.cies) : cies[c] = table.cies[c]
    BY <2>1, <2>2, AppendProperties
  <2>4. Serves(target, next.cies[frame.cie].common, Common(target, fde, TRUE))
    BY <1>1, <1>5, <2>2, <2>3 DEF Serves, Alike
  <2> HIDE DEF cies
  <2>5. ASSUME NEW c \in 1 .. Len(cies), NEW g \in Fde, cies[c].key = Key(target, g)
        PROVE  Serves(target, cies[c].common, Common(target, g, TRUE))
    <3>1. CASE c = Len(table.cies) + 1
      <4>1. cies[c] = made
        BY <2>3, <3>1
      <4>2. Key(target, fde) = Key(target, g)
        BY <1>5, <2>5, <4>1
      <4> QED
        BY <1>5, <4>1, <4>2, KeySaysAll
    <3>2. CASE c \in 1 .. Len(table.cies)
      BY <2>3, <2>5, <3>2, ZenonT(30) DEF Agree, Keeps
    <3>3. c = Len(table.cies) + 1 \/ c \in 1 .. Len(table.cies)
      BY <1>3, <2>3
    <3> QED
      BY <3>1, <3>2, <3>3
  <2>6. Keeps(target, next.cies, TRUE)
    BY <1>1, <2>5 DEF Keeps
  <2> QED
    BY <1>1, <2>2, <2>4, <2>6, OneMoreAgrees DEF next
<1>7. CASE found # 0
  <2>1. cies = table.cies /\ cie = found
    BY <1>7
  <2>2. Serves(target, table.cies[found].common, Common(target, fde, TRUE))
    BY <1>4, <1>7 DEF Agree, Keeps
  <2>3. Keeps(target, next.cies, TRUE)
    BY <1>1, <2>1 DEF Agree
  <2> QED
    BY <1>1, <1>4, <1>7, <2>1, <2>2, <2>3, OneMoreAgrees DEF next
<1> QED
  BY <1>6, <1>7 DEF next

-----------------------------------------------------------------------------
(* Sorting by key: whether frame j comes no later than frame i.            *)
Before(target, all, j, i) ==
    LET key(k) == Key(target, all[k])
    IN  Below(key(j), key(i)) \/ (key(j) = key(i) /\ j <= i)

Earlier(target, all, i) == {j \in DOMAIN all : Before(target, all, j, i)}

Keys == Int \X Int \X Int \X Int \X Int \X Int

(* Keys are compared from the left.                                        *)
BelowInOrder(a, b) ==
    \/ a[1] < b[1]
    \/ a[1] = b[1] /\ a[2] < b[2]
    \/ a[1] = b[1] /\ a[2] = b[2] /\ a[3] < b[3]
    \/ a[1] = b[1] /\ a[2] = b[2] /\ a[3] = b[3] /\ a[4] < b[4]
    \/ a[1] = b[1] /\ a[2] = b[2] /\ a[3] = b[3] /\ a[4] = b[4] /\ a[5] < b[5]
    \/ /\ a[1] = b[1] /\ a[2] = b[2] /\ a[3] = b[3] /\ a[4] = b[4] /\ a[5] = b[5]
       /\ a[6] < b[6]

LEMMA BelowIsInOrder ==
    ASSUME NEW a \in Keys, NEW b \in Keys
    PROVE  Below(a, b) <=> BelowInOrder(a, b)
<1>1. DOMAIN a = {1, 2, 3, 4, 5, 6}
  BY DEF Keys
<1>2. /\ 1 .. 1 - 1 = {} /\ 1 .. 2 - 1 = {1} /\ 1 .. 3 - 1 = {1, 2} /\ 1 .. 4 - 1 = {1, 2, 3}
      /\ 1 .. 5 - 1 = {1, 2, 3, 4} /\ 1 .. 6 - 1 = {1, 2, 3, 4, 5}
  OBVIOUS
<1>3. Below(a, b) <=> \E i \in {1, 2, 3, 4, 5, 6} : a[i] < b[i] /\ \A j \in 1 .. i - 1 : a[j] = b[j]
  BY <1>1 DEF Below
<1> QED
  BY <1>2, <1>3 DEF BelowInOrder

(* The numbers a key is made of.                                           *)
LEMMA KeyType ==
    ASSUME NEW target \in TargetType, NEW f \in Fde
    PROVE  Key(target, f) \in Keys
<1>1. /\ f.personality \in PointerType /\ f.lsda \in Encoding /\ f.column \in Int
      /\ target.column \in Int
  BY DEF Fde, TargetType
<1>2. f.personality.name \in Nat /\ f.personality.enc \in Encoding
  BY <1>1 DEF PointerType
<1>3. /\ Column(target, f) \in Int /\ BoolToInt(f.signal) \in Int /\ BoolToInt(f.simple) \in Int
      /\ InKey(f.lsda) \in Int /\ InKey(f.personality.enc) \in Int
  BY <1>1, <1>2 DEF Column, BoolToInt, InKey, Encoding, Omit
<1> QED
  BY <1>2, <1>3 DEF Key, Keys

(* Of two frames one comes before the other, and one that comes before     *)
(* what comes before another comes before that.                            *)
LEMMA BeforeIsOrder ==
    ASSUME NEW target \in TargetType, NEW all \in Seq(Fde)
    PROVE  /\ \A i, j \in DOMAIN all :
                 /\ Before(target, all, i, j) \/ Before(target, all, j, i)
                 /\ Before(target, all, i, j) /\ Before(target, all, j, i) => i = j
           /\ \A i, j, k \in DOMAIN all :
                 Before(target, all, i, j) /\ Before(target, all, j, k) => Before(target, all, i, k)
<1> DEFINE key(i) == Key(target, all[i])
<1>1. \A i \in DOMAIN all : i \in Int /\ key(i) \in Keys
  <2> SUFFICES ASSUME NEW i \in DOMAIN all PROVE i \in Int /\ key(i) \in Keys
    OBVIOUS
  <2>1. i \in 1 .. Len(all)
    BY LenProperties
  <2>2. all[i] \in Fde
    BY <2>1, ElementOfSeq
  <2> QED
    BY <2>1, <2>2, KeyType
<1>2. ASSUME NEW a \in Keys, NEW b \in Keys
      PROVE  /\ Below(a, b) \/ Below(b, a) \/ a = b
             /\ ~ (Below(a, b) /\ Below(b, a)) /\ ~ Below(a, a)
  <2>1. /\ Below(a, b) <=> BelowInOrder(a, b)
        /\ Below(b, a) <=> BelowInOrder(b, a)
        /\ Below(a, a) <=> BelowInOrder(a, a)
    BY BelowIsInOrder
  <2>2. /\ a[1] \in Int /\ a[2] \in Int /\ a[3] \in Int /\ a[4] \in Int /\ a[5] \in Int /\ a[6] \in Int
        /\ b[1] \in Int /\ b[2] \in Int /\ b[3] \in Int /\ b[4] \in Int /\ b[5] \in Int /\ b[6] \in Int
    BY DEF Keys
  <2>3. ASSUME ~ BelowInOrder(a, b), ~ BelowInOrder(b, a)
        PROVE  a = b
    <3>1. a[1] = b[1]
      BY <2>2, <2>3, SMTT(30) DEF BelowInOrder, Keys
    <3>2. a[2] = b[2]
      BY <2>2, <2>3, <3>1, SMTT(30) DEF BelowInOrder, Keys
    <3>3. a[3] = b[3]
      BY <2>2, <2>3, <3>1, <3>2, SMTT(30) DEF BelowInOrder, Keys
    <3>4. a[4] = b[4]
      BY <2>2, <2>3, <3>1, <3>2, <3>3, SMTT(30) DEF BelowInOrder, Keys
    <3>5. a[5] = b[5]
      BY <2>2, <2>3, <3>1, <3>2, <3>3, <3>4, SMTT(30) DEF BelowInOrder, Keys
    <3>6. a[6] = b[6]
      BY <2>2, <2>3, <3>1, <3>2, <3>3, <3>4, <3>5, SMTT(30) DEF BelowInOrder, Keys
    <3> QED
      BY <3>1, <3>2, <3>3, <3>4, <3>5, <3>6 DEF Keys
  <2>4. ~ (BelowInOrder(a, b) /\ BelowInOrder(b, a))
    BY <2>2, SMTT(30) DEF BelowInOrder, Keys
  <2>5. ~ BelowInOrder(a, a)
    BY <2>2, SMTT(30) DEF BelowInOrder, Keys
  <2> QED
    BY <2>1, <2>3, <2>4, <2>5
<1>3. ASSUME NEW a \in Keys, NEW b \in Keys, NEW c \in Keys, Below(a, b), Below(b, c)
      PROVE  Below(a, c)
  <2>1. BelowInOrder(a, b) /\ BelowInOrder(b, c)
    BY <1>3, BelowIsInOrder
  <2>2. /\ a[1] \in Int /\ a[2] \in Int /\ a[3] \in Int /\ a[4] \in Int /\ a[5] \in Int /\ a[6] \in Int
        /\ b[1] \in Int /\ b[2] \in Int /\ b[3] \in Int /\ b[4] \in Int /\ b[5] \in Int /\ b[6] \in Int
        /\ c[1] \in Int /\ c[2] \in Int /\ c[3] \in Int /\ c[4] \in Int /\ c[5] \in Int /\ c[6] \in Int
    BY DEF Keys
  <2>3. \A x, y, z \in Int : x < y /\ y < z => x < z
    OBVIOUS
  <2>4. BelowInOrder(a, c)
    BY <2>1, <2>2, <2>3, ZenonT(30) DEF BelowInOrder
  <2> QED
    BY <2>4, BelowIsInOrder
<1>4. \A i, j : Before(target, all, i, j) <=> Below(key(i), key(j)) \/ (key(i) = key(j) /\ i <= j)
  BY DEF Before
<1> HIDE DEF key
<1>5. ASSUME NEW i \in DOMAIN all, NEW j \in DOMAIN all
      PROVE  /\ Before(target, all, i, j) \/ Before(target, all, j, i)
             /\ Before(target, all, i, j) /\ Before(target, all, j, i) => i = j
  <2>1. /\ Below(key(i), key(j)) \/ Below(key(j), key(i)) \/ key(i) = key(j)
        /\ ~ (Below(key(i), key(j)) /\ Below(key(j), key(i)))
        /\ key(i) = key(j) => ~ Below(key(i), key(j)) /\ ~ Below(key(j), key(i))
    BY <1>1, <1>2
  <2>2. i \in Int /\ j \in Int
    BY <1>1
  <2> QED
    BY <1>4, <2>1, <2>2
<1>6. ASSUME NEW i \in DOMAIN all, NEW j \in DOMAIN all, NEW k \in DOMAIN all,
             Before(target, all, i, j), Before(target, all, j, k)
      PROVE  Before(target, all, i, k)
  <2>1. Below(key(i), key(j)) /\ Below(key(j), key(k)) => Below(key(i), key(k))
    BY <1>1, <1>3
  <2>2. i \in Int /\ j \in Int /\ k \in Int
    BY <1>1
  <2> QED
    BY <1>4, <1>6, <2>1, <2>2
<1> QED
  BY <1>5, <1>6

(* The frames that come before one have as many numbers as there are       *)
(* frames: each place in the order is some frame's.                        *)
LEMMA EveryPlaceIsTaken ==
    ASSUME NEW target \in TargetType, NEW all \in Seq(Fde), NEW n \in 1 .. Len(all)
    PROVE  \E i \in DOMAIN all : Cardinality(Earlier(target, all, i)) = n
<1> DEFINE N == 1 .. Len(all)
           place == [i \in N |-> Cardinality(Earlier(target, all, i))]
<1>1. DOMAIN all = N /\ Len(all) \in Nat
  BY LenProperties
<1>2. IsFiniteSet(N) /\ Cardinality(N) = Len(all)
  BY <1>1, FS_Interval
<1>3. ASSUME NEW i \in N
      PROVE  /\ IsFiniteSet(Earlier(target, all, i)) /\ place[i] \in N
             /\ i \in Earlier(target, all, i)
  <2>1. Earlier(target, all, i) \in SUBSET N
    BY <1>1 DEF Earlier
  <2>2. i \in Earlier(target, all, i)
    BY <1>1, BeforeIsOrder DEF Earlier
  <2>3. /\ IsFiniteSet(Earlier(target, all, i))
        /\ Cardinality(Earlier(target, all, i)) <= Len(all)
    BY <1>2, <2>1, FS_Subset
  <2>4. /\ Cardinality(Earlier(target, all, i)) \in Nat
        /\ Cardinality(Earlier(target, all, i)) # 0
    BY <2>2, <2>3, FS_CardinalityType, FS_EmptySet
  <2> QED
    BY <1>1, <2>2, <2>3, <2>4
<1>4. ASSUME NEW i \in N, NEW j \in N, i # j, Before(target, all, i, j)
      PROVE  place[i] < place[j]
  <2>1. Earlier(target, all, i) \in SUBSET (Earlier(target, all, j) \ {j})
    <3>1. j \notin Earlier(target, all, i)
      BY <1>1, <1>4, BeforeIsOrder DEF Earlier
    <3>2. Earlier(target, all, i) \subseteq Earlier(target, all, j)
      BY <1>1, <1>4, BeforeIsOrder DEF Earlier
    <3> QED
      BY <3>1, <3>2
  <2>2. /\ IsFiniteSet(Earlier(target, all, j) \ {j})
        /\ Cardinality(Earlier(target, all, j) \ {j}) = place[j] - 1
    BY <1>3, FS_RemoveElement
  <2>3. place[i] <= place[j] - 1
    BY <2>1, <2>2, FS_Subset
  <2>4. place[i] \in N /\ place[j] \in N
    BY <1>3
  <2> QED
    BY <1>1, <2>3, <2>4
<1>5. place \in Injection(N, N)
  <2>1. ASSUME NEW i \in N, NEW j \in N, place[i] = place[j]
        PROVE  i = j
    <3>1. Before(target, all, i, j) \/ Before(target, all, j, i)
      BY <1>1, BeforeIsOrder
    <3>2. place[i] \in Int /\ place[j] \in Int
      BY <1>1, <1>3
    <3> QED
      BY <1>4, <2>1, <3>1, <3>2
  <2>2. place \in [N -> N]
    BY <1>3
  <2> HIDE DEF place, N
  <2> QED
    BY <2>1, <2>2 DEF Injection, IsInjective
<1>6. place \in Surjection(N, N)
  BY <1>2, <1>5, FS_Injection
<1>7. PICK i \in N : place[i] = n
  BY <1>6 DEF Surjection
<1> QED
  BY <1>1, <1>7

(* What is sorted are frames.                                              *)
LEMMA OrderedAreFrames ==
    ASSUME NEW target \in TargetType, NEW all \in Seq(Fde), NEW n \in 1 .. Len(all)
    PROVE  Ordered(target, all)[n] \in Fde
<1>1. DOMAIN all = 1 .. Len(all)
  BY LenProperties
<1>2. CASE target.flavor = "gnu"
  BY <1>1, <1>2, ElementOfSeq DEF Ordered
<1>3. CASE target.flavor # "gnu"
  <2>1. SortedByKey(target, all)[n] =
           all[CHOOSE i \in DOMAIN all : Cardinality(Earlier(target, all, i)) = n]
    BY <1>1 DEF SortedByKey, Earlier, Before
  <2>2. (CHOOSE i \in DOMAIN all : Cardinality(Earlier(target, all, i)) = n) \in DOMAIN all
    BY EveryPlaceIsTaken
  <2> QED
    BY <1>1, <1>3, <2>1, <2>2, ElementOfSeq DEF Ordered
<1> QED
  BY <1>2, <1>3

-----------------------------------------------------------------------------
(* After every frame the table agrees with the frames that are in it.      *)
LEMMA TablesAgree ==
    ASSUME NEW target \in TargetType, NEW of, NEW all \in Seq(Fde), NEW eh \in BOOLEAN,
           target.flavor = "gnu" \/ eh
    PROVE  Agree(target, FramesOf(target, of, all, eh), Ordered(target, all), eh, Len(all))
<1> DEFINE ordered == Ordered(target, all)
<1>1. Len(all) \in Nat
  BY LenProperties
<1>2. PICK g : FramesOf(target, of, all, eh) = g[Len(all)] /\ IsUpTo(g, target, of, ordered, eh, Len(all))
  BY <1>1, FramesOfIsLast
<1>3. \A n \in 1 .. Len(all) : ordered[n] \in Fde
  BY OrderedAreFrames
<1> HIDE DEF ordered
<1> DEFINE S == {n \in Nat : n <= Len(all) => Agree(target, g[n], ordered, eh, n)}
<1>4. 0 \in S
  <2>1. g[0] = NoFrames
    BY <1>1, <1>2 DEF IsUpTo
  <2>2. g[0].cies = <<>> /\ g[0].frames = <<>>
    BY <2>1 DEF NoFrames
  <2>3. Len(<<>>) = 0 /\ <<>> \in Seq({})
    BY EmptySeq
  <2>4. Agree(target, g[0], ordered, eh, 0)
    BY <2>2, <2>3 DEF Agree, Keeps
  <2> QED
    BY <2>4
<1>5. ASSUME NEW n \in Nat, n \in S
      PROVE  n + 1 \in S
  <2>1. ASSUME n + 1 <= Len(all)
        PROVE  Agree(target, g[n + 1], ordered, eh, n + 1)
    <3>1. Agree(target, g[n], ordered, eh, n) /\ ordered[n + 1] \in Fde
      BY <1>1, <1>3, <1>5, <2>1
    <3>2. PICK m \in 0 .. Len(all) : m = n + 1
      BY <1>1, <2>1
    <3>3. g[m] = AddFrame(target, of, eh, g[m - 1], ordered[m])
      BY <1>2, <3>2 DEF IsUpTo
    <3>4. g[n + 1] = AddFrame(target, of, eh, g[n], ordered[n + 1])
      BY <3>2, <3>3
    <3>5. CASE target.flavor = "gnu"
      BY <3>1, <3>4, <3>5, GnuFrameAgrees DEF AddFrame
    <3>6. CASE target.flavor # "gnu"
      <4>1. eh = TRUE
        BY <3>6
      <4> QED
        BY <3>1, <3>4, <3>6, <4>1, LlvmFrameAgrees DEF AddFrame
    <3> QED
      BY <3>5, <3>6
  <2> QED
    BY <2>1
<1> HIDE DEF S
<1>6. Len(all) \in S
  BY <1>1, <1>4, <1>5, InductionBySets
<1> QED
  BY <1>1, <1>2, <1>6 DEF S, ordered

(* A state whose frames have their types writes tables that agree.         *)
LEMMA InvGivesShared == IInv => FramesShareWhatTheyAgreeOn
<1> SUFFICES ASSUME IInv, NEW name \in tables, NEW eh \in BOOLEAN, eh = (name = "eh_frame"),
                    Target.flavor = "gnu" \/ eh,
                    NEW f \in DOMAIN Ordered(Target, fdes)
             PROVE  LET table == Written(eh)
                    IN  Serves(Target, table.cies[table.frames[f].cie].common,
                              Common(Target, Ordered(Target, fdes)[f], eh))
  BY DEF FramesShareWhatTheyAgreeOn, Ordered
<1>1. Target \in TargetType /\ fdes \in Seq(Fde)
  BY DEF IInv, TypeOK, SourceType, Target
<1>2. DOMAIN Ordered(Target, fdes) = 1 .. Len(fdes)
  BY <1>1, LenProperties DEF Ordered, SortedByKey
<1>3. Agree(Target, Written(eh), Ordered(Target, fdes), eh, Len(fdes))
  BY <1>1, TablesAgree DEF Written
<1> QED
  BY <1>2, <1>3 DEF Agree

(* What a consumer finds in the CIE of a frame is for that frame.  In      *)
(* every table GNU as writes it has the frame's own personality routine,   *)
(* encoding of its data area, return address and signal flag, for a CIE is *)
(* taken only for what it was made for.  In llvm-mc's .eh_frame return     *)
(* address and signal flag are the frame's own, and the name of the        *)
(* routine and the encodings as far as the key tells them apart, by which  *)
(* a CIE is taken: no pointer from one of encoding 0 it does not, nor what *)
(* is added to the routine's symbol (gnu_frames, llvm_frames).             *)
THEOREM FramesShareTheirCies == Spec => []FramesShareWhatTheyAgreeOn
BY InitInv, NextKeepsInv, InvGivesShared, PTL DEF Spec
=============================================================================
