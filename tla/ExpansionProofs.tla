-------------------------- MODULE ExpansionProofs --------------------------
(***************************************************************************)
(* Theorems about the walk, for every program and both limits.             *)
(*                                                                         *)
(* However texts include and call each other, at most 1 + MaxMacroDepth +  *)
(* MaxIncludeDepth + 1 of them are being read at once.  The depth counters *)
(* guard it; what makes the guards enough is that they count the frames of *)
(* the stack by what caused them, which no step that leaves a text early   *)
(* may upset.                                                              *)
(*                                                                         *)
(* Texts are left early by a flag, and what makes the flag enough is that  *)
(* the innermost text is never read on while the flag is up.               *)
(***************************************************************************)
EXTENDS ExpansionProperties, NestingProofs

Cond == [active : BOOLEAN, taken : BOOLEAN, seenElse : BOOLEAN]

(* The kinds of text macroDepth counts.                                    *)
Deep == {"macro", "repeat", "define"}

FramesOf(st, kinds) == {d \in 1 .. Len(st) : st[d].kind \in kinds}

DepthsCount ==
    /\ macroDepth = Cardinality(FramesOf(stack, Deep))
    /\ includeDepth = Cardinality(FramesOf(stack, {"include"}))

InputIsOutermost == \A d \in 1 .. Len(stack) : stack[d].kind = "input" <=> d = 1

DepthsBounded == macroDepth <= MaxMacroDepth /\ includeDepth <= MaxIncludeDepth + 1

(* TypeOK without the stack and the counters of its depth.                 *)
RestOK ==
    /\ prog \in Program
    /\ input \in 1 .. Len(prog.inputs)
    /\ cond \in Seq(Cond)
    /\ macros \in [DOMAIN macros -> Text]
    /\ exiting \in BOOLEAN /\ ended \in BOOLEAN
    /\ emitted \in Seq(Nat)

DepthsOK ==
    /\ stack \in Seq(Frame)
    /\ macroDepth \in Nat /\ includeDepth \in Nat
    /\ DepthsCount /\ InputIsOutermost /\ DepthsBounded

IInv == TypeOK /\ DepthsCount /\ InputIsOutermost /\ DepthsBounded

-----------------------------------------------------------------------------
(* Frames of a kind are counted by numbers.                                *)
LEMMA FramesCount ==
    ASSUME NEW st \in Seq(Frame), NEW kinds
    PROVE  /\ IsFiniteSet(FramesOf(st, kinds))
           /\ Cardinality(FramesOf(st, kinds)) \in Nat
<1>1. FramesOf(st, kinds) \subseteq 1 .. Len(st)
  BY DEF FramesOf
<1>2. Len(st) \in Nat
  BY LenProperties
<1>3. IsFiniteSet(1 .. Len(st))
  BY <1>2, FS_Interval
<1>4. IsFiniteSet(FramesOf(st, kinds))
  BY <1>1, <1>3, FS_Subset
<1> QED
  BY <1>4, FS_CardinalityType

(* How a step may change what the stack is made of.                        *)
SameKinds(s, t) == Len(t) = Len(s) /\ \A d \in 1 .. Len(s) : t[d].kind = s[d].kind
Pushed(s, t, kind) ==
    /\ Len(t) = Len(s) + 1
    /\ \A d \in 1 .. Len(s) : t[d].kind = s[d].kind
    /\ t[Len(t)].kind = kind
Popped(s, t) ==
    /\ Len(s) = Len(t) + 1
    /\ \A d \in 1 .. Len(t) : t[d].kind = s[d].kind

(* A frame pushed is counted once if it is of a kind that is counted.      *)
LEMMA PushCounts ==
    ASSUME NEW s \in Seq(Frame), NEW t \in Seq(Frame), NEW kind, NEW kinds,
           Pushed(s, t, kind)
    PROVE  Cardinality(FramesOf(t, kinds)) =
             Cardinality(FramesOf(s, kinds)) + (IF kind \in kinds THEN 1 ELSE 0)
<1>1. Len(s) \in Nat /\ Len(t) = Len(s) + 1
  BY LenProperties DEF Pushed
<1>2. CASE kind \in kinds
  <2>1. FramesOf(t, kinds) = FramesOf(s, kinds) \cup {Len(t)}
    BY <1>1, <1>2 DEF FramesOf, Pushed
  <2>2. Len(t) \notin FramesOf(s, kinds)
    BY <1>1 DEF FramesOf
  <2> QED
    BY <1>2, <2>1, <2>2, FramesCount, FS_AddElement
<1>3. CASE kind \notin kinds
  <2>1. FramesOf(t, kinds) = FramesOf(s, kinds)
    BY <1>1, <1>3 DEF FramesOf, Pushed
  <2> QED
    BY <1>3, <2>1, FramesCount
<1> QED
  BY <1>2, <1>3

(* Popping a frame of a counted kind takes one from the count.             *)
LEMMA PopCounts ==
    ASSUME NEW s \in Seq(Frame), NEW t \in Seq(Frame), NEW kinds,
           Popped(s, t)
    PROVE  Cardinality(FramesOf(t, kinds)) =
             Cardinality(FramesOf(s, kinds)) - (IF s[Len(s)].kind \in kinds THEN 1 ELSE 0)
BY PushCounts, FramesCount DEF Pushed, Popped

(* A stack with the same kinds in the same places has the same count.      *)
LEMMA SameCounts ==
    ASSUME NEW s \in Seq(Frame), NEW t \in Seq(Frame), NEW kinds, SameKinds(s, t)
    PROVE  FramesOf(t, kinds) = FramesOf(s, kinds)
BY DEF FramesOf, SameKinds

(* The invariant split into what the counters say and the rest.            *)
LEMMA IInvParts == IInv <=> RestOK /\ DepthsOK
BY DEF IInv, RestOK, DepthsOK, TypeOK, Cond

-----------------------------------------------------------------------------
(* The ways a step changes the stack and the counters, each of which keeps *)
(* the counters true.                                                      *)
Moves == stack' \in Seq(Frame) /\ SameKinds(stack, stack') /\ UNCHANGED depths

(* Moving within the innermost frame keeps the counters true.              *)
LEMMA MovesKeepDepths ==
    ASSUME DepthsOK, Moves
    PROVE  DepthsOK'
<1>1. /\ stack \in Seq(Frame) /\ stack' \in Seq(Frame) /\ SameKinds(stack, stack')
      /\ macroDepth' = macroDepth /\ includeDepth' = includeDepth
  BY DEF DepthsOK, Moves, depths
<1>2. /\ FramesOf(stack', Deep) = FramesOf(stack, Deep)
      /\ FramesOf(stack', {"include"}) = FramesOf(stack, {"include"})
  BY <1>1, SameCounts
<1>3. InputIsOutermost'
  BY <1>1 DEF DepthsOK, InputIsOutermost, SameKinds
<1>4. DepthsCount'
  BY <1>1, <1>2 DEF DepthsOK, DepthsCount
<1> QED
  BY <1>1, <1>3, <1>4 DEF DepthsOK, DepthsBounded

PushesDeep ==
    /\ stack # <<>> /\ stack' \in Seq(Frame)
    /\ \E kind \in Deep : Pushed(stack, stack', kind)
    /\ macroDepth < MaxMacroDepth
    /\ macroDepth' = macroDepth + 1 /\ includeDepth' = includeDepth

(* So does pushing an expansion together with macro_depth += 1,            *)
LEMMA DeepPushesKeepDepths ==
    ASSUME DepthsOK, PushesDeep
    PROVE  DepthsOK'
<1>1. PICK kind \in Deep : Pushed(stack, stack', kind)
  BY DEF PushesDeep
<1>2. /\ stack \in Seq(Frame) /\ stack' \in Seq(Frame) /\ Len(stack) \in Nat \ {0}
      /\ macroDepth \in Nat /\ macroDepth' = macroDepth + 1
      /\ includeDepth' = includeDepth /\ includeDepth \in Nat
      /\ macroDepth < MaxMacroDepth
  BY LenProperties, EmptySeq DEF DepthsOK, PushesDeep
<1>3. /\ Cardinality(FramesOf(stack', Deep)) = Cardinality(FramesOf(stack, Deep)) + 1
      /\ Cardinality(FramesOf(stack', {"include"})) =
           Cardinality(FramesOf(stack, {"include"})) + 0
  <2>1. ASSUME NEW kinds
        PROVE  Cardinality(FramesOf(stack', kinds)) =
                 Cardinality(FramesOf(stack, kinds)) + (IF kind \in kinds THEN 1 ELSE 0)
    BY <1>1, <1>2, PushCounts
  <2>2. kind \in Deep /\ kind \notin {"include"}
    BY DEF Deep
  <2> QED
    BY <2>1, <2>2
<1>4. DepthsCount'
  BY <1>2, <1>3 DEF DepthsOK, DepthsCount
<1>5. InputIsOutermost'
  BY <1>1, <1>2 DEF DepthsOK, InputIsOutermost, Pushed, Deep
<1>6. DepthsBounded'
  BY <1>2, DepthAssumption DEF DepthsOK, DepthsBounded
<1> QED
  BY <1>2, <1>4, <1>5, <1>6 DEF DepthsOK

PushesFile ==
    /\ stack # <<>> /\ stack' \in Seq(Frame)
    /\ Pushed(stack, stack', "include")
    /\ includeDepth <= MaxIncludeDepth
    /\ macroDepth' = macroDepth /\ includeDepth' = includeDepth + 1

(* an included file together with include_depth += 1,                      *)
LEMMA FilePushesKeepDepths ==
    ASSUME DepthsOK, PushesFile
    PROVE  DepthsOK'
<1>2. /\ stack \in Seq(Frame) /\ stack' \in Seq(Frame) /\ Len(stack) \in Nat \ {0}
      /\ Pushed(stack, stack', "include")
      /\ macroDepth \in Nat /\ macroDepth' = macroDepth
      /\ includeDepth' = includeDepth + 1 /\ includeDepth \in Nat
      /\ includeDepth <= MaxIncludeDepth
  BY LenProperties, EmptySeq DEF DepthsOK, PushesFile
<1>3. /\ Cardinality(FramesOf(stack', Deep)) = Cardinality(FramesOf(stack, Deep)) + 0
      /\ Cardinality(FramesOf(stack', {"include"})) =
           Cardinality(FramesOf(stack, {"include"})) + 1
  <2>1. ASSUME NEW kinds
        PROVE  Cardinality(FramesOf(stack', kinds)) =
                 Cardinality(FramesOf(stack, kinds)) + (IF "include" \in kinds THEN 1 ELSE 0)
    BY <1>2, PushCounts
  <2>2. "include" \notin Deep /\ "include" \in {"include"}
    BY DEF Deep
  <2> QED
    BY <2>1, <2>2
<1>4. DepthsCount'
  BY <1>2, <1>3 DEF DepthsOK, DepthsCount
<1>5. InputIsOutermost'
  BY <1>2 DEF DepthsOK, InputIsOutermost, Pushed
<1>6. DepthsBounded'
  BY <1>2, DepthAssumption DEF DepthsOK, DepthsBounded
<1> QED
  BY <1>2, <1>4, <1>5, <1>6 DEF DepthsOK

Pops ==
    /\ stack # <<>> /\ stack' \in Seq(Frame) /\ Popped(stack, stack')
    /\ macroDepth' = macroDepth - (IF stack[Len(stack)].kind \in Deep THEN 1 ELSE 0)
    /\ includeDepth' = includeDepth -
                         (IF stack[Len(stack)].kind \in {"include"} THEN 1 ELSE 0)

(* and leaving a frame together with the decrement of its own counter.     *)
LEMMA PopsKeepDepths ==
    ASSUME DepthsOK, Pops
    PROVE  DepthsOK'
<1>1. /\ stack \in Seq(Frame) /\ stack' \in Seq(Frame) /\ Len(stack') \in Nat
      /\ macroDepth \in Nat /\ includeDepth \in Nat
      /\ Popped(stack, stack')
  BY LenProperties DEF DepthsOK, Pops
<1>2. DepthsCount'
  BY <1>1, PopCounts DEF DepthsOK, DepthsCount, Pops
<1>3. macroDepth' \in Nat /\ includeDepth' \in Nat
  BY <1>1, <1>2, FramesCount DEF DepthsCount
<1>4. InputIsOutermost'
  BY <1>1 DEF DepthsOK, InputIsOutermost, Popped
<1>5. DepthsBounded'
  BY <1>1, DepthAssumption DEF DepthsOK, DepthsBounded, Pops
<1> QED
  BY <1>1, <1>2, <1>3, <1>4, <1>5 DEF DepthsOK

-----------------------------------------------------------------------------
(* What a step that reads a statement has to hand.                         *)
LEMMA WhatIsRead ==
    ASSUME DepthsOK, Reading
    PROVE  /\ stack # <<>> /\ Depth \in 1 .. Len(stack) /\ Len(stack) = Depth
           /\ Depth \in Nat \ {0}
           /\ Top \in Frame /\ Top.text \in Text /\ Top.at \in Nat \ {0}
           /\ Len(Top.text) \in Nat /\ Top.at \in 1 .. Len(Top.text)
           /\ Stmt \in Statement
<1>1. stack \in Seq(Frame) /\ stack # <<>> /\ HasStatement(Top)
  BY DEF DepthsOK, Reading
<1>2. Len(stack) \in Nat \ {0}
  BY <1>1, LenProperties, EmptySeq
<1>3. Top \in Frame
  BY <1>1, <1>2, ElementOfSeq DEF Top, Depth
<1>4. Top.text \in Text /\ Top.at \in Nat \ {0} /\ Top.at <= Len(Top.text)
  BY <1>1, <1>3 DEF Frame, HasStatement
<1>5. Len(Top.text) \in Nat
  BY <1>4, LenProperties DEF Text
<1>6. Stmt \in Statement
  BY <1>4, <1>5, ElementOfSeq DEF Text, Stmt
<1> QED
  BY <1>1, <1>2, <1>3, <1>4, <1>5, <1>6 DEF Depth

(* Setting the place the innermost frame reads next is a move.             *)
LEMMA GoToMoves ==
    ASSUME DepthsOK, Reading, NEW at \in Nat \ {0}, NEW stop \in BOOLEAN,
           GoTo(at, stop), UNCHANGED depths
    PROVE  Moves
<1>1. /\ stack \in Seq(Frame) /\ Depth \in 1 .. Len(stack) /\ Top \in Frame
      /\ Top = stack[Depth]
  BY WhatIsRead DEF DepthsOK, Top
<1>2. stack' = [stack EXCEPT ![Depth] = [Top EXCEPT !.at = at, !.stopped = stop]]
  BY <1>1 DEF GoTo, Frame
<1>3. [Top EXCEPT !.at = at, !.stopped = stop] \in Frame
  BY <1>1 DEF Frame
<1>4. [Top EXCEPT !.at = at, !.stopped = stop].kind = Top.kind
  BY <1>1 DEF Frame
<1>5. stack' \in Seq(Frame) /\ Len(stack') = Len(stack)
  BY <1>1, <1>2, <1>3, ExceptSeq
<1>6. \A d \in 1 .. Len(stack) : stack'[d].kind = stack[d].kind
  BY <1>1, <1>2, <1>4, LenProperties
<1> QED
  BY <1>5, <1>6 DEF Moves, SameKinds

(* A frame just entered is well formed and of the kind asked for.          *)
LEMMA EnterIsFrame ==
    ASSUME RestOK, NEW text \in Text, NEW kind \in Kinds
    PROVE  Enter(text, kind) \in Frame /\ Enter(text, kind).kind = kind
BY LenProperties DEF RestOK, Enter, Frame

(* Appending a frame of a kind to a moved stack is a push of that kind.    *)
LEMMA AppendPushes ==
    ASSUME NEW s \in Seq(Frame), NEW t \in Seq(Frame), NEW f \in Frame, NEW kind,
           SameKinds(s, t), f.kind = kind
    PROVE  Append(t, f) \in Seq(Frame) /\ Pushed(s, Append(t, f), kind)
BY AppendProperties, LenProperties DEF SameKinds, Pushed

(* expand either reports, or pushes what it expands.                       *)
LEMMA ExpandPushes ==
    ASSUME RestOK, DepthsOK, Reading, NEW text \in Text, NEW kind \in {"macro", "repeat"},
           NEW at \in Nat \ {0}, Expand(text, kind, at), ~(macroDepth >= MaxMacroDepth)
    PROVE  /\ stack # <<>> /\ stack' \in Seq(Frame) /\ Pushed(stack, stack', kind)
           /\ macroDepth' = macroDepth + 1
<1> DEFINE here == [stack EXCEPT ![Depth].at = at]
           frame == Enter(text, kind)
<1>1. stack' = Append(here, frame) /\ macroDepth' = macroDepth + 1
  BY DEF Expand
<1>2. frame \in Frame /\ frame.kind = kind
  BY EnterIsFrame DEF Kinds
<1>3. /\ stack \in Seq(Frame) /\ Depth \in 1 .. Len(stack) /\ Top \in Frame
      /\ Top = stack[Depth] /\ stack # <<>>
  BY WhatIsRead DEF DepthsOK, Top
<1>4. here = [stack EXCEPT ![Depth] = [Top EXCEPT !.at = at]]
  BY <1>3 DEF Frame
<1>5. [Top EXCEPT !.at = at] \in Frame /\ [Top EXCEPT !.at = at].kind = Top.kind
  BY <1>3 DEF Frame
<1>6. here \in Seq(Frame) /\ Len(here) = Len(stack)
  BY <1>3, <1>4, <1>5, ExceptSeq
<1>7. SameKinds(stack, here)
  BY <1>3, <1>4, <1>5, <1>6, LenProperties DEF SameKinds
<1> HIDE DEF here, frame
<1>8. stack' \in Seq(Frame) /\ Pushed(stack, stack', kind)
  BY <1>1, <1>2, <1>3, <1>6, <1>7, AppendPushes
<1> QED
  BY <1>1, <1>3, <1>8

(* Either way the counters stay true.                                      *)
LEMMA ExpandStep ==
    ASSUME RestOK, DepthsOK, Reading, NEW text \in Text, NEW kind \in {"macro", "repeat"},
           NEW at \in Nat \ {0}, Expand(text, kind, at), includeDepth' = includeDepth
    PROVE  DepthsOK'
<1>1. CASE macroDepth >= MaxMacroDepth
  <2>1. /\ GoTo(at + 1, StopsAfter(kind, exiting, ended))
        /\ UNCHANGED depths
    BY <1>1 DEF Expand, depths
  <2>2. StopsAfter(kind, exiting, ended) \in BOOLEAN /\ at + 1 \in Nat \ {0}
    BY DEF StopsAfter
  <2> QED
    BY <2>1, <2>2, GoToMoves, MovesKeepDepths
<1>2. CASE ~(macroDepth >= MaxMacroDepth)
  BY <1>2, ExpandPushes, DepthAssumption, DeepPushesKeepDepths DEF DepthsOK, Deep, PushesDeep
<1> QED
  BY <1>1, <1>2

-----------------------------------------------------------------------------
(* What a block holds is a text, and so are the copies a repeat reads.     *)
LEMMA BlockTexts ==
    ASSUME NEW text \in Text, NEW i \in 1 .. Len(text), NEW oneCloser,
           NEW end \in BlockEnds(text, i, oneCloser), NEW n \in Nat
    PROVE  /\ end \in Nat \ {0}
           /\ Body(text, i, end) \in Text
           /\ Copies(Body(text, i, end), n) \in Text
<1>1. Len(text) \in Nat /\ text \in Seq(Statement)
  BY LenProperties DEF Text
<1>2. end \in i + 1 .. Len(text)
  BY DEF BlockEnds
<1>3. Body(text, i, end) \in Seq(Statement)
  <2>1. CASE i + 1 <= end - 1
    BY <1>1, <1>2, <2>1, SubSeqProperties DEF Body
  <2>2. CASE ~(i + 1 <= end - 1)
    BY <1>1, <1>2, <2>2, SubSeqEmpty, EmptySeq DEF Body
  <2> QED
    BY <2>1, <2>2
<1> DEFINE body == Body(text, i, end)
<1> HIDE DEF body
<1>4. body \in Seq(Statement) /\ Len(body) \in Nat
  BY <1>3, LenProperties DEF body
<1>5. Copies(body, n) \in Seq(Statement)
  <2>1. n * Len(body) \in Nat
    BY <1>4
  <2>2. ASSUME NEW k \in 1 .. n * Len(body)
        PROVE  body[((k - 1) % Len(body)) + 1] \in Statement
    BY <1>4, <2>1, <2>2, ElementOfSeq
  <2> QED
    BY <2>1, <2>2, IsASeq DEF Copies
<1> QED
  BY <1>1, <1>2, <1>3, <1>5 DEF Text, body

-----------------------------------------------------------------------------
(* The conditionals keep their shape.                                      *)
LEMMA InnermostIsCond ==
    ASSUME RestOK, cond # <<>>
    PROVE  Innermost \in Cond /\ Len(cond) \in 1 .. Len(cond) /\ cond \in Seq(Cond)
BY EmptySeq, ElementOfSeq DEF RestOK, Innermost

(* Whether the walk is in an active branch is always decided.              *)
LEMMA CondFlagsAreBoolean ==
    ASSUME RestOK
    PROVE  CondActive \in BOOLEAN /\ EnclosingActive \in BOOLEAN
BY LenProperties DEF RestOK, CondActive, EnclosingActive

(* Replacing the innermost conditional keeps the stack of conditionals     *)
(* well formed.                                                            *)
LEMMA SetTopKeepsConds ==
    ASSUME RestOK, cond # <<>>, NEW c \in Cond, SetTop(c)
    PROVE  cond' \in Seq(Cond)
BY InnermostIsCond, ExceptSeq DEF SetTop

(* Truncating a stack keeps its lower elements, and leaves the length      *)
(* asked for.                                                              *)
LEMMA PrefixOfSeq ==
    ASSUME NEW S, NEW s \in Seq(S), NEW n \in 0 .. Len(s)
    PROVE  /\ SubSeq(s, 1, n) \in Seq(S) /\ Len(SubSeq(s, 1, n)) = n
           /\ \A d \in 1 .. n : SubSeq(s, 1, n)[d] = s[d]
BY LenProperties, ElementOfSeq, SubSeqProperties

-----------------------------------------------------------------------------
(* A step that goes on to another statement of the same text.              *)
LEMMA GoOnMoves ==
    ASSUME RestOK, DepthsOK, Reading, GoOn, UNCHANGED depths
    PROVE  DepthsOK'
<1>1. Top.at + 1 \in Nat \ {0}
  BY WhatIsRead
<1>2. (exiting \/ ended) \in BOOLEAN
  BY DEF RestOK
<1> QED
  BY <1>1, <1>2, GoToMoves, MovesKeepDepths DEF GoOn

(* .if, .elseif, .else and .endif, and what an inactive branch skips, keep *)
(* the invariant.                                                          *)
LEMMA ConditionalsKeepInv ==
    ASSUME RestOK, DepthsOK,
           Skip \/ DirIf \/ DirElseIf \/ DirElse \/ DirEndIf
    PROVE  RestOK' /\ DepthsOK'
<1>1. Reading /\ GoOn /\ UNCHANGED depths
  BY DEF Skip, DirIf, DirElseIf, DirElse, DirEndIf, Looks
<1>2. DepthsOK'
  BY <1>1, GoOnMoves
<1>3. UNCHANGED <<prog, input, macros, flags, emitted>>
  BY DEF Skip, DirIf, DirElseIf, DirElse, DirEndIf, result
<1>4. cond' \in Seq(Cond)
  <2>1. CASE Skip
    BY <2>1 DEF Skip, RestOK
  <2>2. CASE DirIf
    <3> DEFINE c == [active |-> CondActive /\ Value, taken |-> ~CondActive \/ Value,
                     seenElse |-> FALSE]
    <3>1. c \in Cond
      BY CondFlagsAreBoolean DEF Cond, Value
    <3>2. cond' = Append(cond, c)
      BY <2>2 DEF DirIf
    <3> HIDE DEF c
    <3> QED
      BY <3>1, <3>2, AppendProperties DEF RestOK
  <2>3. CASE DirElseIf
    <3>1. CASE cond = <<>> \/ Innermost.seenElse
      BY <2>3, <3>1 DEF DirElseIf, RestOK
    <3>2. CASE cond # <<>> /\ ~Innermost.seenElse /\ Innermost.taken
      BY <2>3, <3>2, InnermostIsCond, SetTopKeepsConds DEF Cond, DirElseIf
    <3>3. CASE cond # <<>> /\ ~Innermost.seenElse /\ ~Innermost.taken
      <4> DEFINE c == [Innermost EXCEPT !.active = EnclosingActive /\ Value,
                                        !.taken = EnclosingActive /\ Value]
      <4>0. (EnclosingActive /\ Value) \in BOOLEAN
        BY CondFlagsAreBoolean DEF Value
      <4>1. c \in Cond
        BY <3>3, <4>0, InnermostIsCond DEF Cond
      <4>2. SetTop(c)
        BY <2>3, <3>3 DEF DirElseIf
      <4> QED
        BY <3>3, <4>1, <4>2, SetTopKeepsConds
    <3> QED
      BY <3>1, <3>2, <3>3
  <2>4. CASE DirElse
    <3>1. CASE cond = <<>> \/ Innermost.seenElse
      BY <2>4, <3>1 DEF DirElse, RestOK
    <3>2. CASE cond # <<>> /\ ~Innermost.seenElse
      <4> DEFINE c == [active |-> EnclosingActive /\ ~Innermost.taken, taken |-> TRUE,
                       seenElse |-> TRUE]
      <4>1. c \in Cond
        BY CondFlagsAreBoolean DEF Cond
      <4>2. SetTop(c)
        BY <2>4, <3>2 DEF DirElse
      <4> QED
        BY <3>2, <4>1, <4>2, SetTopKeepsConds
    <3> QED
      BY <3>1, <3>2
  <2>5. CASE DirEndIf
    <3>1. CASE cond = <<>>
      BY <2>5, <3>1 DEF DirEndIf, RestOK
    <3>2. CASE cond # <<>>
      BY <2>5, <3>2, InnermostIsCond, PrefixOfSeq DEF DirEndIf
    <3> QED
      BY <3>1, <3>2
  <2> QED
    BY <2>1, <2>2, <2>3, <2>4, <2>5
<1> QED
  BY <1>2, <1>3, <1>4 DEF RestOK, flags

-----------------------------------------------------------------------------
(* Blocks, calls, files and code.                                          *)
LEMMA BlocksKeepInv ==
    ASSUME RestOK, DepthsOK, Unterminated \/ DefineMacro \/ ExpandRepeat
    PROVE  RestOK' /\ DepthsOK'
<1>0. Reading
  BY DEF Unterminated, DefineMacro, ExpandRepeat, Walks
<1>1. CASE Unterminated
  <2>1. Len(Top.text) + 1 \in Nat \ {0} /\ FALSE \in BOOLEAN
    BY <1>0, WhatIsRead
  <2>2. GoTo(Len(Top.text) + 1, FALSE) /\ UNCHANGED depths
    BY <1>1 DEF Unterminated
  <2>3. DepthsOK'
    BY <1>0, <2>1, <2>2, GoToMoves, MovesKeepDepths
  <2> QED
    BY <1>1, <2>3 DEF Unterminated, RestOK, flags
<1>2. CASE DefineMacro
  <2>1. PICK end \in BlockEnds(Top.text, Top.at, prog.oneCloser) :
          /\ GoTo(end + 1, FALSE)
          /\ IF Stmt.arg \in DOMAIN macros
             THEN Report("macro defined twice") /\ UNCHANGED macros
             ELSE /\ macros' = [m \in DOMAIN macros \cup {Stmt.arg} |->
                                  IF m = Stmt.arg THEN Body(Top.text, Top.at, end)
                                  ELSE macros[m]]
                  /\ UNCHANGED errors
    BY <1>2 DEF DefineMacro
  <2>2. end \in Nat \ {0} /\ Body(Top.text, Top.at, end) \in Text
    BY <1>0, 0 \in Nat, WhatIsRead, BlockTexts
  <2>6. end + 1 \in Nat \ {0} /\ FALSE \in BOOLEAN
    BY <2>2
  <2>3. UNCHANGED <<prog, input, cond, depths, flags, emitted>>
    BY <1>2 DEF DefineMacro
  <2>4. DepthsOK'
    BY <1>0, <2>1, <2>6, <2>3, GoToMoves, MovesKeepDepths
  <2>5. macros' \in [DOMAIN macros' -> Text]
    BY <2>1, <2>2 DEF RestOK
  <2> QED
    BY <2>3, <2>4, <2>5 DEF RestOK, flags
<1>3. CASE ExpandRepeat
  <2>1. PICK end \in BlockEnds(Top.text, Top.at, prog.oneCloser) :
          Expand(Copies(Body(Top.text, Top.at, end), Stmt.arg), "repeat", end)
    BY <1>3 DEF ExpandRepeat
  <2>2. Stmt.arg \in Nat
    BY <1>0, WhatIsRead DEF Statement
  <2>3. /\ end \in Nat \ {0}
        /\ Copies(Body(Top.text, Top.at, end), Stmt.arg) \in Text
    BY <1>0, <2>2, WhatIsRead, BlockTexts
  <2>4. UNCHANGED <<prog, input, cond, macros, includeDepth, flags, emitted>>
    BY <1>3 DEF ExpandRepeat
  <2>5. DepthsOK'
    BY <1>0, <2>1, <2>3, <2>4, ExpandStep
  <2> QED
    BY <2>4, <2>5 DEF RestOK, flags
<1> QED
  BY <1>1, <1>2, <1>3

(* The statements that read no block and no file keep the invariant.       *)
LEMMA StatementsKeepInv ==
    ASSUME RestOK, DepthsOK,
           StrayEnd \/ ExitMacro \/ ExpandMacro \/ PurgeMacro \/ End \/ Code
    PROVE  RestOK' /\ DepthsOK'
<1>r. Reading
  BY DEF StrayEnd, ExitMacro, ExpandMacro, PurgeMacro, End, Code, Walks
<1>0. Reading /\ Stmt \in Statement /\ Top.at \in Nat \ {0} /\ Top.at + 1 \in Nat \ {0}
  BY <1>r, WhatIsRead
<1>1. CASE StrayEnd
  BY <1>0, <1>1, GoToMoves, MovesKeepDepths DEF StrayEnd, RestOK, flags
<1>2. CASE ExitMacro
  BY <1>0, <1>2, GoToMoves, MovesKeepDepths DEF ExitMacro, RestOK
<1>3. CASE ExpandMacro
  BY <1>0, <1>3, ExpandStep DEF ExpandMacro, RestOK, flags
<1>4. CASE PurgeMacro
  BY <1>0, <1>4, GoOnMoves DEF PurgeMacro, RestOK, flags
<1>5. CASE End
  BY <1>0, <1>5, GoToMoves, MovesKeepDepths DEF End, RestOK, result
<1>6. CASE Code
  <2>1. DepthsOK'
    BY <1>0, <1>6, GoOnMoves DEF Code
  <2>2. emitted' \in Seq(Nat)
    <3>1. Stmt.arg \in Nat /\ emitted \in Seq(Nat)
      BY <1>0 DEF Statement, RestOK
    <3>2. emitted' = Append(emitted, Stmt.arg) \/ emitted' = emitted
      BY <1>6 DEF Code
    <3> QED
      BY <3>1, <3>2, AppendProperties
  <2> QED
    BY <1>6, <2>1, <2>2 DEF Code, RestOK, flags
<1> QED
  BY <1>1, <1>2, <1>3, <1>4, <1>5, <1>6

(* A nested text is read under one more of the counter that counts it.     *)
LEMMA FilesKeepInv ==
    ASSUME RestOK, DepthsOK, Include \/ ApplyDefine
    PROVE  RestOK' /\ DepthsOK'
<1>1. Reading
  BY DEF Include, ApplyDefine, Walks, IsRewritten
<1>2. /\ Stmt \in Statement /\ Top.at + 1 \in Nat \ {0} /\ stack # <<>>
      /\ stack \in Seq(Frame) /\ SameKinds(stack, stack)
  BY <1>1, WhatIsRead DEF DepthsOK, SameKinds
<1>3. prog.files \in Seq(Text) /\ prog.pieces \in Seq(Text)
  BY DEF RestOK, Program
<1>4. CASE Include
  <2>1. CASE includeDepth > MaxIncludeDepth \/ Stmt.arg \notin DOMAIN prog.files
    BY <1>1, <1>4, <2>1, GoOnMoves DEF Include, depths, RestOK, flags
  <2>2. CASE ~(includeDepth > MaxIncludeDepth) /\ Stmt.arg \in DOMAIN prog.files
    <3> DEFINE frame == Enter(prog.files[Stmt.arg], "include")
    <3>1. /\ stack' = Append(stack, frame) /\ includeDepth' = includeDepth + 1
          /\ macroDepth' = macroDepth
      BY <1>4, <2>2 DEF Include
    <3>2. prog.files[Stmt.arg] \in Text
      BY <1>3, <2>2
    <3>3. frame \in Frame /\ frame.kind = "include"
      BY <3>2, EnterIsFrame DEF Kinds
    <3> HIDE DEF frame
    <3>4. stack' \in Seq(Frame) /\ Pushed(stack, stack', "include")
      BY <1>2, <3>1, <3>3, AppendPushes
    <3>5. includeDepth <= MaxIncludeDepth
      BY <2>2, DepthAssumption DEF DepthsOK
    <3>6. DepthsOK'
      BY <1>2, <3>1, <3>4, <3>5, FilePushesKeepDepths DEF PushesFile
    <3> QED
      BY <1>4, <3>6 DEF Include, RestOK, flags
  <2> QED
    BY <2>1, <2>2
<1>5. CASE ApplyDefine
  <2>1. CASE macroDepth >= MaxMacroDepth
    <3>1. GoTo(Top.at + 1, TRUE) /\ UNCHANGED depths
      BY <1>5, <2>1 DEF ApplyDefine, depths
    <3>2. DepthsOK'
      BY <1>1, <1>2, <3>1, GoToMoves, MovesKeepDepths
    <3> QED
      BY <1>5, <3>2 DEF ApplyDefine, RestOK, flags
  <2>2. CASE ~(macroDepth >= MaxMacroDepth)
    <3> DEFINE frame == Enter(prog.pieces[Stmt.arg], "define")
    <3>1. /\ stack' = Append(stack, frame) /\ macroDepth' = macroDepth + 1
          /\ includeDepth' = includeDepth
      BY <1>5, <2>2 DEF ApplyDefine
    <3>a. Stmt.arg \in DOMAIN prog.pieces
      BY <1>5 DEF ApplyDefine, IsRewritten
    <3>2. prog.pieces[Stmt.arg] \in Text
      BY <1>3, <3>a
    <3>3. frame \in Frame /\ frame.kind = "define"
      BY <3>2, EnterIsFrame DEF Kinds
    <3> HIDE DEF frame
    <3>4. stack' \in Seq(Frame) /\ Pushed(stack, stack', "define")
      BY <1>2, <3>1, <3>3, AppendPushes
    <3>5. macroDepth < MaxMacroDepth /\ "define" \in Deep
      BY <2>2, DepthAssumption DEF DepthsOK, Deep
    <3>6. DepthsOK'
      BY <1>2, <3>1, <3>4, <3>5, DeepPushesKeepDepths DEF PushesDeep
    <3> QED
      BY <1>5, <3>6 DEF ApplyDefine, RestOK, flags
  <2> QED
    BY <2>1, <2>2
<1> QED
  BY <1>4, <1>5

(* A frame that has moved by a statement is of the kind it was.            *)
LEMMA MovedFrame ==
    ASSUME NEW f \in Frame, NEW stop \in BOOLEAN
    PROVE  LET g == [f EXCEPT !.at = @ + 1, !.stopped = stop]
           IN  g \in Frame /\ g.kind = f.kind
<1>1. f.at + 1 \in Nat \ {0}
  BY DEF Frame
<1> QED
  BY <1>1 DEF Frame

(* Leaving a frame, which checks what its text left open, keeps the        *)
(* invariant.                                                              *)
LEMMA LeaveKeepsInv ==
    ASSUME RestOK, DepthsOK, Leave
    PROVE  RestOK' /\ DepthsOK'
<1>1. /\ stack \in Seq(Frame) /\ stack # <<>> /\ Len(stack) \in Nat \ {0}
      /\ Depth = Len(stack)
  BY EmptySeq DEF Leave, DepthsOK, Depth
<1>2. Top \in Frame /\ Top = stack[Len(stack)]
  BY <1>1, ElementOfSeq DEF Top
<1> DEFINE back == SubSeq(stack, 1, Depth - 1)
<1>3. /\ back \in Seq(Frame) /\ Len(back) = Len(stack) - 1
      /\ \A d \in 1 .. Len(back) : back[d] = stack[d]
  BY <1>1, PrefixOfSeq
<1>4. exiting' \in BOOLEAN
  BY DEF Leave, RestOK, IsExpansion
<1>5. cond' \in Seq(Cond)
  <2>1. cond \in Seq(Cond) /\ Len(cond) \in Nat /\ OwnConds(Top) \in Nat
    BY <1>2, LenProperties DEF RestOK, OwnConds, Frame
  <2>2. cond' = IF Len(cond) > OwnConds(Top) THEN SubSeq(cond, 1, OwnConds(Top)) ELSE cond
    BY DEF Leave
  <2>3. Len(cond) > OwnConds(Top) => SubSeq(cond, 1, OwnConds(Top)) \in Seq(Cond)
    BY <2>1, PrefixOfSeq
  <2> QED
    BY <2>1, <2>2, <2>3
<1>6. stack' \in Seq(Frame) /\ Popped(stack, stack')
  <2>1. stack' = IF back = <<>> THEN back
                 ELSE [back EXCEPT
                         ![Depth - 1].at = @ + 1,
                         ![Depth - 1].stopped = StopsAfter(Top.kind, exiting', ended)]
    BY DEF Leave
  <2>2. CASE back = <<>>
    BY <1>1, <1>3, <2>1, <2>2 DEF Popped
  <2>3. CASE back # <<>>
    <3> DEFINE stop == StopsAfter(Top.kind, exiting', ended)
               under == [back[Depth - 1] EXCEPT !.at = @ + 1, !.stopped = stop]
    <3>1. Depth - 1 \in 1 .. Len(back)
      BY <1>1, <1>3, <2>3, EmptySeq
    <3>2. back[Depth - 1] \in Frame
      BY <1>3, <3>1, ElementOfSeq
    <3>3. stop \in BOOLEAN
      BY DEF StopsAfter
    <3> HIDE DEF stop, back
    <3>4. under \in Frame /\ under.kind = back[Depth - 1].kind
      BY <3>2, <3>3, MovedFrame
    <3>5. stack' = [back EXCEPT ![Depth - 1] = under]
      BY <2>1, <2>3, <3>2 DEF Frame, stop
    <3> HIDE DEF under
    <3>6. /\ stack' \in Seq(Frame) /\ Len(stack') = Len(back)
          /\ \A d \in 1 .. Len(back) : stack'[d] = IF d = Depth - 1 THEN under ELSE back[d]
      BY <1>3, <3>1, <3>4, <3>5, ExceptSeq
    <3> QED
      BY <1>1, <1>3, <3>4, <3>6 DEF Popped
  <2> QED
    BY <2>2, <2>3
<1>7. DepthsOK'
  <2>a. /\ macroDepth' = IF IsExpansion(Top.kind) \/ Top.kind = "define"
                         THEN macroDepth - 1 ELSE macroDepth
        /\ includeDepth' = IF Top.kind = "include" THEN includeDepth - 1 ELSE includeDepth
    BY DEF Leave
  <2>1. /\ macroDepth' = macroDepth - (IF Top.kind \in Deep THEN 1 ELSE 0)
        /\ includeDepth' = includeDepth - (IF Top.kind \in {"include"} THEN 1 ELSE 0)
    BY <2>a DEF IsExpansion, Deep, DepthsOK
  <2> QED
    BY <1>1, <1>2, <1>6, <2>1, PopsKeepDepths DEF Pops
<1> QED
  BY <1>4, <1>5, <1>7 DEF Leave, RestOK

-----------------------------------------------------------------------------
(* An input starts with nothing around it.                                 *)
LEMMA InputAlone ==
    ASSUME NEW text \in Text, NEW n \in Nat, NEW st,
           st = <<[text |-> text, at |-> 1, kind |-> "input", conds |-> n, stopped |-> FALSE]>>
    PROVE  /\ st \in Seq(Frame) /\ Len(st) = 1 /\ st[1].kind = "input"
           /\ Cardinality(FramesOf(st, Deep)) = 0
           /\ Cardinality(FramesOf(st, {"include"})) = 0
<1>1. [text |-> text, at |-> 1, kind |-> "input", conds |-> n, stopped |-> FALSE] \in Frame
  BY DEF Frame, Kinds
<1>2. st \in Seq(Frame) /\ Len(st) = 1 /\ st[1].kind = "input"
  BY <1>1
<1>3. FramesOf(st, Deep) = {} /\ FramesOf(st, {"include"}) = {}
  BY <1>2 DEF FramesOf, Deep
<1> QED
  BY <1>2, <1>3, FS_EmptySet

(* The first input alone on the stack satisfies the invariant.             *)
LEMMA InitInv == Init => IInv
<1> SUFFICES ASSUME Init PROVE IInv
  OBVIOUS
<1>1. prog \in Program
  BY ProgramsAssumption DEF Init
<1>2. prog.inputs \in Seq(Text) /\ prog.inputs # <<>>
  BY <1>1 DEF Program
<1>3. 1 \in 1 .. Len(prog.inputs) /\ prog.inputs[1] \in Text
  BY <1>2, EmptySeq, ElementOfSeq
<1>4. DepthsOK
  <2>1. /\ stack \in Seq(Frame) /\ Len(stack) = 1 /\ stack[1].kind = "input"
        /\ Cardinality(FramesOf(stack, Deep)) = 0
        /\ Cardinality(FramesOf(stack, {"include"})) = 0
    BY <1>3, InputAlone DEF Init
  <2> QED
    BY <2>1, DepthAssumption
       DEF Init, DepthsOK, DepthsCount, InputIsOutermost, DepthsBounded
<1>5. RestOK
  BY <1>1, <1>3, EmptySeq DEF Init, RestOK
<1> QED
  BY <1>4, <1>5, IInvParts

(* Starting the next input of the command line keeps the invariant.        *)
LEMMA NextInputKeepsInv ==
    ASSUME RestOK, DepthsOK, NextInput
    PROVE  RestOK' /\ DepthsOK'
<1>1. /\ prog.inputs \in Seq(Text) /\ input \in 1 .. Len(prog.inputs)
      /\ Len(prog.inputs) \in Nat
  BY LenProperties DEF RestOK, Program
<1>2. input' \in 1 .. Len(prog.inputs) /\ input' = input + 1
  BY <1>1 DEF NextInput
<1>3. prog.inputs[input + 1] \in Text /\ Len(cond) \in Nat
  BY <1>1, <1>2, ElementOfSeq, LenProperties DEF RestOK
<1>4. macroDepth = 0 /\ includeDepth = 0
  BY FS_EmptySet DEF NextInput, FramesOf, DepthsOK, DepthsCount
<1>5. /\ stack' = <<[text |-> prog.inputs[input + 1], at |-> 1, kind |-> "input",
                     conds |-> Len(cond), stopped |-> FALSE]>>
      /\ macroDepth' = 0 /\ includeDepth' = 0
  BY <1>4 DEF NextInput, Enter, depths
<1>6. DepthsOK'
  <2>1. /\ stack' \in Seq(Frame) /\ Len(stack') = 1 /\ stack'[1].kind = "input"
        /\ Cardinality(FramesOf(stack', Deep)) = 0
        /\ Cardinality(FramesOf(stack', {"include"})) = 0
    BY <1>3, <1>5, InputAlone
  <2> QED
    BY <1>5, <2>1, DepthAssumption
       DEF DepthsOK, DepthsCount, InputIsOutermost, DepthsBounded
<1> QED
  BY <1>2, <1>6 DEF NextInput, RestOK, flags, result

(* Every step keeps the invariant: the inductive step of the theorems      *)
(* below.                                                                  *)
LEMMA NextKeepsInv == IInv /\ [Next]_vars => IInv'
<1> SUFFICES ASSUME IInv, [Next]_vars PROVE IInv'
  OBVIOUS
<1>1. RestOK /\ DepthsOK
  BY IInvParts
<1>2. CASE UNCHANGED vars
  BY <1>2 DEF vars, depths, flags, result, IInv, TypeOK, DepthsCount, InputIsOutermost,
              DepthsBounded
<1>3. RestOK' /\ DepthsOK' => IInv'
  BY DEF IInv, RestOK, DepthsOK, TypeOK, Cond
<1>4. CASE Include \/ ApplyDefine
  BY <1>1, <1>3, <1>4, FilesKeepInv
<1>5. CASE Unterminated \/ DefineMacro \/ ExpandRepeat
  BY <1>1, <1>3, <1>5, BlocksKeepInv
<1>6. CASE StrayEnd \/ ExitMacro \/ ExpandMacro \/ PurgeMacro \/ End \/ Code
  BY <1>1, <1>3, <1>6, StatementsKeepInv
<1>7. CASE Skip \/ DirIf \/ DirElseIf \/ DirElse \/ DirEndIf
  BY <1>1, <1>3, <1>7, ConditionalsKeepInv
<1>8. CASE Leave
  BY <1>1, <1>3, <1>8, LeaveKeepsInv
<1>9. CASE NextInput
  BY <1>1, <1>3, <1>9, NextInputKeepsInv
<1>10. CASE Stop
  BY <1>2, <1>10 DEF Stop
<1> QED
  BY <1>2, <1>4, <1>5, <1>6, <1>7, <1>8, <1>9, <1>10 DEF Next

-----------------------------------------------------------------------------
(* The counters bound the stack: its frames are the input, those           *)
(* macroDepth counts and those includeDepth counts.                        *)
LEMMA CountersBoundDepth == IInv => NestingBounded
<1> SUFFICES ASSUME IInv PROVE NestingBounded
  OBVIOUS
<1>1. /\ stack \in Seq(Frame) /\ Len(stack) \in Nat
      /\ macroDepth \in Nat /\ includeDepth \in Nat
  BY LenProperties DEF IInv, TypeOK
<1> DEFINE deep == FramesOf(stack, Deep)
           files == FramesOf(stack, {"include"})
<1>2. 1 .. Len(stack) \subseteq {1} \cup (deep \cup files)
  <2>1. ASSUME NEW d \in 1 .. Len(stack) PROVE stack[d].kind \in Kinds
    <3>1. stack[d] \in Frame
      BY <1>1, ElementOfSeq
    <3> QED
      BY <3>1 DEF Frame
  <2> QED
    BY <2>1 DEF IInv, InputIsOutermost, FramesOf, Deep, Kinds
<1>3. /\ IsFiniteSet(deep) /\ Cardinality(deep) = macroDepth
      /\ IsFiniteSet(files) /\ Cardinality(files) = includeDepth
  BY <1>1, FramesCount DEF IInv, DepthsCount
<1> HIDE DEF deep, files
<1>4. /\ IsFiniteSet(deep \cup files)
      /\ Cardinality(deep \cup files) \in Nat
      /\ Cardinality(deep \cup files) <= macroDepth + includeDepth
  <2>1. IsFiniteSet(deep \cap files) /\ Cardinality(deep \cap files) \in Nat
    BY <1>3, FS_Intersection, FS_CardinalityType
  <2>2. IsFiniteSet(deep \cup files) /\ Cardinality(deep \cup files) \in Nat
    BY <1>3, FS_Union, FS_CardinalityType
  <2>3. Cardinality(deep \cup files) =
          Cardinality(deep) + Cardinality(files) - Cardinality(deep \cap files)
    BY <1>3, FS_Union
  <2> QED
    BY <1>1, <1>3, <2>1, <2>2, <2>3
<1>5. /\ IsFiniteSet({1} \cup (deep \cup files))
      /\ Cardinality({1} \cup (deep \cup files)) \in Nat
      /\ Cardinality({1} \cup (deep \cup files)) <= 1 + macroDepth + includeDepth
  <2>1. IsFiniteSet({1}) /\ Cardinality({1}) = 1
    BY FS_Singleton
  <2>2. IsFiniteSet({1} \cap (deep \cup files))
        /\ Cardinality({1} \cap (deep \cup files)) \in Nat
    BY <2>1, FS_Intersection, FS_CardinalityType
  <2>3. IsFiniteSet({1} \cup (deep \cup files))
        /\ Cardinality({1} \cup (deep \cup files)) \in Nat
    BY <1>4, <2>1, FS_Union, FS_CardinalityType
  <2>4. Cardinality({1} \cup (deep \cup files)) =
          Cardinality({1}) + Cardinality(deep \cup files)
            - Cardinality({1} \cap (deep \cup files))
    BY <1>4, <2>1, FS_Union
  <2> QED
    BY <1>1, <1>4, <2>1, <2>2, <2>3, <2>4
<1>6. Cardinality(1 .. Len(stack)) = Len(stack)
  <2>1. PICK n \in Nat : n = Len(stack)
    BY <1>1
  <2>2. 1 \in Int /\ n \in Int /\ (IF 1 > n THEN 0 ELSE n - 1 + 1) = n
    BY <2>1
  <2>3. Cardinality(1 .. n) = n
    BY <2>2, FS_Interval
  <2> QED
    BY <2>1, <2>3
<1>7. Cardinality(1 .. Len(stack)) <= Cardinality({1} \cup (deep \cup files))
  BY <1>2, <1>5, FS_Subset
<1>8. /\ macroDepth <= MaxMacroDepth /\ includeDepth <= MaxIncludeDepth + 1
      /\ MaxMacroDepth \in Nat /\ MaxIncludeDepth \in Nat
  BY DepthAssumption DEF IInv, DepthsBounded
<1> QED
  BY <1>1, <1>5, <1>6, <1>7, <1>8 DEF NestingBounded, Depth

(* The invariant holds throughout.                                         *)
THEOREM InvHolds == Spec => []IInv
BY InitInv, NextKeepsInv, PTL DEF Spec

(* However texts include and call each other and themselves, and however   *)
(* they are left, no more are open than the two limits allow: expand and   *)
(* include never recurse deeper (assembler.rs).                            *)
THEOREM NestingIsBounded == Spec => []NestingBounded
BY InvHolds, CountersBoundDepth, PTL

(* The walk's variables keep their shapes; the depth counters in           *)
(* particular, which the code subtracts from without a check, never go     *)
(* below zero.                                                             *)
THEOREM WalkTypeCorrect == Spec => []TypeOK
<1>1. IInv => TypeOK
  BY DEF IInv
<1> QED
  BY <1>1, InvHolds, PTL

-----------------------------------------------------------------------------
(***************************************************************************)
(* Leaving early.  A flag goes up together with the end of the innermost   *)
(* text, and while it is up every return ends the text returned to, so     *)
(* that nothing but returns can follow until it is taken down.             *)
(***************************************************************************)

(* Whoever asks what is read finds the innermost text stopped.             *)
InnermostStops == stack # <<>> /\ Top.stopped

(* Without a statement to read there are only returns.                     *)
LEMMA OnlyReturnsFollow ==
    ASSUME [Next]_vars, ~Reading
    PROVE  Leave \/ NextInput \/ UNCHANGED vars
BY DEF Next, ApplyDefine, IsRewritten, Unterminated, DefineMacro, ExpandRepeat, StrayEnd,
       ExitMacro, ExpandMacro, Skip, DirIf, DirElseIf, DirElse, DirEndIf, Include, PurgeMacro,
       End, Code, Walks, Looks, Stop

(* Setting the place the innermost text goes on at, and whether it does.   *)
LEMMA GoToKeepsKinds ==
    ASSUME IInv, Reading, NEW at \in Nat \ {0}, NEW stop \in BOOLEAN, GoTo(at, stop)
    PROVE  /\ SameKinds(stack, stack') /\ stack' # <<>>
           /\ stack'[Len(stack')].stopped = stop
<1>1. /\ stack \in Seq(Frame) /\ Len(stack) \in Nat \ {0} /\ Depth \in 1 .. Len(stack)
      /\ Depth = Len(stack) /\ stack[Depth] \in Frame
  BY IInvParts, WhatIsRead, ElementOfSeq DEF DepthsOK, Depth
<1> DEFINE moved == [stack[Depth] EXCEPT !.at = at, !.stopped = stop]
<1>2. stack' = [stack EXCEPT ![Depth] = moved]
  BY <1>1 DEF GoTo, Frame
<1>3. moved \in Frame /\ moved.kind = stack[Depth].kind /\ moved.stopped = stop
  BY <1>1 DEF Frame
<1> HIDE DEF moved
<1>4. /\ Len(stack') = Len(stack) /\ stack'[Depth] = moved
      /\ \A d \in 1 .. Len(stack) : stack'[d] = IF d = Depth THEN moved ELSE stack[d]
  BY <1>1, <1>2, <1>3, ExceptSeq
<1>5. stack' # <<>>
  BY <1>1, <1>4
<1> QED
  BY <1>1, <1>3, <1>4, <1>5 DEF SameKinds

(* END and .exitm raise their flags, and end the text they stand in.       *)
LEMMA FlagsAreRaised ==
    ASSUME IInv, [Next]_vars, Reading
    PROVE  /\ ended' => ended \/ InnermostStops'
           /\ exiting' =>
                \/ exiting
                \/ InnermostStops' /\ SameKinds(stack, stack') /\ macroDepth # 0
<1>1. CASE End
  <2>1. GoTo(Top.at + 1, TRUE) /\ exiting' = exiting
    BY <1>1 DEF End
  <2>a. Top.at + 1 \in Nat \ {0}
    BY IInvParts, WhatIsRead
  <2>2. InnermostStops'
    BY <2>1, <2>a, GoToKeepsKinds DEF InnermostStops, Top, Depth
  <2> QED
    BY <2>1, <2>2
<1>2. CASE ExitMacro
  <2>1. GoTo(Top.at + 1, TRUE) /\ ended' = ended /\ (exiting' = exiting \/ macroDepth # 0)
    BY <1>2 DEF ExitMacro
  <2>a. Top.at + 1 \in Nat \ {0}
    BY IInvParts, WhatIsRead
  <2>2. InnermostStops' /\ SameKinds(stack, stack')
    BY <2>1, <2>a, GoToKeepsKinds DEF InnermostStops, Top, Depth
  <2> QED
    BY <2>1, <2>2
<1>3. CASE Leave
  BY <1>3 DEF Leave, Reading
<1>4. CASE ~(End \/ ExitMacro \/ Leave)
  <2>1. exiting' = exiting /\ ended' = ended
    BY <1>4 DEF Next, ApplyDefine, Unterminated, DefineMacro, ExpandRepeat, StrayEnd,
                ExpandMacro, Skip, DirIf, DirElseIf, DirElse, DirEndIf, Include, PurgeMacro,
                Code, NextInput, Stop, vars, flags
  <2> QED
    BY <2>1
<1> QED
  BY <1>1, <1>2, <1>3, <1>4

(* What a return leaves and where it goes on.                              *)
LEMMA LeaveReturns ==
    ASSUME IInv, Leave
    PROVE  /\ Depth \in Nat \ {0} /\ Depth = Len(stack) /\ Len(stack') = Depth - 1
           /\ Top = stack[Depth] /\ Top.kind \in Kinds
           /\ \A d \in 1 .. Depth - 1 : stack'[d].kind = stack[d].kind
           /\ Depth # 1 => /\ Depth - 1 \in 1 .. Depth - 1
                           /\ stack'[Depth - 1].at = stack[Depth - 1].at + 1
                           /\ stack'[Depth - 1].stopped = StopsAfter(Top.kind, exiting', ended)
           /\ stack' # <<>> <=> Depth # 1
           /\ ended' = ended /\ emitted' = emitted
           /\ exiting' = (exiting /\ ~IsExpansion(Top.kind))
           /\ UNCHANGED <<prog, input>>
<1> DEFINE back == SubSeq(stack, 1, Depth - 1)
<1>1. /\ stack \in Seq(Frame) /\ stack # <<>> /\ Len(stack) \in Nat \ {0}
      /\ Depth = Len(stack)
  BY EmptySeq DEF Leave, IInv, TypeOK, Depth
<1>2. Top = stack[Depth] /\ Top \in Frame
  BY <1>1, ElementOfSeq DEF Top
<1>3. /\ back \in Seq(Frame) /\ Len(back) = Len(stack) - 1
      /\ \A d \in 1 .. Len(back) : back[d] = stack[d]
  BY <1>1, PrefixOfSeq
<1>4. stack' = IF back = <<>> THEN back
               ELSE [back EXCEPT
                       ![Depth - 1].at = @ + 1,
                       ![Depth - 1].stopped = StopsAfter(Top.kind, exiting', ended)]
  BY DEF Leave
<1> HIDE DEF back
<1>5. back = <<>> <=> Depth = 1
  BY <1>1, <1>3, EmptySeq
<1>8. /\ ended' = ended /\ emitted' = emitted /\ UNCHANGED <<prog, input>>
      /\ exiting' = (exiting /\ ~IsExpansion(Top.kind))
      /\ Top.kind \in Kinds
  BY <1>2 DEF Leave, Frame
<1>6. CASE Depth = 1
  <2>1. stack' = <<>> /\ Len(stack') = Depth - 1
    BY <1>1, <1>3, <1>4, <1>5, <1>6
  <2> QED
    <3>1. Depth \in Nat \ {0} /\ Depth = Len(stack) /\ Top = stack[Depth]
      BY <1>1, <1>2
    <3>2. 1 .. Depth - 1 = {}
      BY <1>6
    <3>3. \A d \in 1 .. Depth - 1 : stack'[d].kind = stack[d].kind
      BY ONLY <3>2
    <3> HIDE DEF Depth, Top, StopsAfter, IsExpansion
    <3> QED
      BY ONLY <1>6, <1>8, <2>1, <3>1, <3>3
<1>7. CASE Depth # 1
  <2>1. Depth - 1 \in 1 .. Depth - 1 /\ Depth - 1 \in 1 .. Len(back)
    BY <1>1, <1>3, <1>7
  <2>2. back[Depth - 1] \in Frame /\ back[Depth - 1] = stack[Depth - 1]
    BY <1>3, <2>1, ElementOfSeq
  <2> DEFINE stop == StopsAfter(Top.kind, exiting', ended)
  <2> HIDE DEF stop
  <2>3. stack' = [back EXCEPT ![Depth - 1].at = @ + 1, ![Depth - 1].stopped = stop]
    BY <1>4, <1>5, <1>7 DEF stop
  <2> DEFINE under == [back[Depth - 1] EXCEPT !.at = @ + 1, !.stopped = stop]
  <2>8. stop \in BOOLEAN
    BY DEF stop, StopsAfter
  <2>9. under \in Frame /\ under.kind = back[Depth - 1].kind
    BY <2>2, <2>8, MovedFrame
  <2>10. under.at = back[Depth - 1].at + 1 /\ under.stopped = stop
    BY <2>2 DEF Frame
  <2>11. stack' = [back EXCEPT ![Depth - 1] = under]
    BY <2>2, <2>3 DEF Frame
  <2> HIDE DEF under
  <2>4. /\ Len(stack') = Len(back)
        /\ \A d \in 1 .. Len(back) : stack'[d] = IF d = Depth - 1 THEN under ELSE back[d]
    BY <1>3, <2>1, <2>9, <2>11, ExceptSeq
  <2>5. /\ stack'[Depth - 1].kind = back[Depth - 1].kind
        /\ stack'[Depth - 1].at = back[Depth - 1].at + 1
        /\ stack'[Depth - 1].stopped = stop
    BY <2>1, <2>4, <2>9, <2>10
  <2>6. \A d \in 1 .. Depth - 1 : stack'[d].kind = stack[d].kind
    BY <1>1, <1>3, <2>4, <2>5
  <2>7. stack' # <<>>
    BY <1>1, <1>3, <1>7, <2>4
  <2>12. Len(stack') = Depth - 1
    BY <1>1, <1>3, <2>4
  <2>13. stack'[Depth - 1].at = stack[Depth - 1].at + 1
    BY <2>2, <2>5
  <2>14. stack'[Depth - 1].stopped = StopsAfter(Top.kind, exiting', ended)
    BY <2>5 DEF stop
  <2>15. Depth - 1 \in 1 .. Depth - 1
    BY <2>1
  <2>16. stack' # <<>> <=> Depth # 1
    BY <1>7, <2>7
  <2> HIDE DEF Depth, Top, StopsAfter, IsExpansion
  <2> QED
    <3>1. Depth \in Nat \ {0} /\ Depth = Len(stack) /\ Top = stack[Depth]
      BY <1>1, <1>2
    <3>2. Depth # 1 => /\ Depth - 1 \in 1 .. Depth - 1
                       /\ stack'[Depth - 1].at = stack[Depth - 1].at + 1
                       /\ stack'[Depth - 1].stopped = StopsAfter(Top.kind, exiting', ended)
      BY ONLY <2>13, <2>14, <2>15
    <3> QED
      BY ONLY <1>8, <2>6, <2>12, <2>16, <3>1, <3>2
<1> QED
  BY <1>6, <1>7

(***************************************************************************)
(* END.  The statement after a repeat is read whatever the flags say, and  *)
(* so is the first of another input.                                       *)
(***************************************************************************)

(* No repeat is being read, and no other input is left, after END.         *)
EndsOutsideRepeats ==
    ended => /\ input = Len(prog.inputs)
             /\ \A d \in 1 .. Depth : stack[d].kind # "repeat"

EndStops == IInv /\ (ended => stack = <<>> \/ Top.stopped)

(* After END no statement is read.                                         *)
LEMMA NextKeepsEnd ==
    ASSUME EndStops, EndsOutsideRepeats, [Next]_vars
    PROVE  EndStops' /\ (ended => emitted' = emitted)
<1>1. IInv /\ IInv'
  BY NextKeepsInv DEF EndStops
<1>2. CASE Reading
  BY <1>1, <1>2, FlagsAreRaised DEF EndStops, Reading, HasStatement, InnermostStops
<1>3. CASE Leave
  <2>1. ended' = ended /\ emitted' = emitted
    BY <1>1, <1>3, LeaveReturns
  <2>2. ASSUME ended, stack' # <<>>
        PROVE  stack'[Len(stack')].stopped
    <3>a. Depth # 1 /\ Depth \in Nat \ {0} /\ Len(stack') = Depth - 1 /\ Top = stack[Depth]
      BY <1>1, <1>3, <2>2, LeaveReturns
    <3>1. /\ Depth # 1 /\ Len(stack') = Depth - 1 /\ Depth \in 1 .. Depth
          /\ stack'[Depth - 1].stopped = StopsAfter(Top.kind, exiting', ended)
          /\ Top = stack[Depth]
      BY <1>1, <1>3, <3>a, LeaveReturns
    <3>2. Top.kind # "repeat"
      BY <2>2, <3>1 DEF EndsOutsideRepeats
    <3> QED
      BY <2>2, <3>1, <3>2 DEF StopsAfter
  <2> QED
    BY <1>1, <2>1, <2>2 DEF EndStops, Top, Depth
<1>4. CASE NextInput
  <2>1. ~ended /\ ended' = ended
    BY <1>4, <1>1 DEF NextInput, EndsOutsideRepeats, flags, IInv, TypeOK
  <2> QED
    BY <1>1, <2>1 DEF EndStops
<1>5. CASE UNCHANGED vars
  BY <1>1, <1>5 DEF vars, flags, result, EndStops, Top, Depth
<1> QED
  BY <1>2, <1>3, <1>4, <1>5, OnlyReturnsFollow

(* Nothing is assembled after END, however deep in files, expansions and   *)
(* rewritten statements it stands, unless that is in a repeat or before    *)
(* another input (end_of_source, run_statement).                           *)
THEOREM NothingIsAssembledAfterEnd == Spec /\ []EndsOutsideRepeats => NothingAfterEnd
<1>1. Init => EndStops
  BY InitInv DEF Init, EndStops
<1>2. EndStops /\ EndsOutsideRepeats /\ [Next]_vars => EndStops'
  BY NextKeepsEnd
<1>3. EndStops /\ EndsOutsideRepeats /\ [Next]_vars => [ended => emitted' = emitted]_vars
  BY NextKeepsEnd
<1> QED
  BY <1>1, <1>2, <1>3, PTL DEF Spec, NothingAfterEnd

(***************************************************************************)
(* .exitm, which leaves the innermost expansion.                           *)
(***************************************************************************)

(* There is an expansion to leave.                                         *)
ExitsAnExpansion == exiting => Expansions # {}

ExitStops == IInv /\ (exiting => InnermostStops)

(* The innermost expansion is the innermost text if that is one.           *)
LEMMA InnermostExpansion ==
    ASSUME IInv, stack # <<>>, IsExpansion(Top.kind)
    PROVE  Max(Expansions) = Depth /\ Depth \in Nat \ {0, 1}
<1>1. stack \in Seq(Frame) /\ Depth = Len(stack) /\ Depth \in Nat \ {0}
  BY EmptySeq DEF IInv, TypeOK, Depth
<1>2. Depth \in Expansions /\ \A d \in Expansions : d \in Nat /\ d <= Depth
  BY <1>1 DEF Expansions, Top
<1>3. \A d \in Expansions : (\A e \in Expansions : e <= d) => d = Depth
  BY <1>1, <1>2
<1>4. Depth # 1
  BY <1>1 DEF IInv, InputIsOutermost, Top, IsExpansion
<1> HIDE DEF Expansions
<1>5. Max(Expansions) = Depth
  BY <1>2, <1>3 DEF Max
<1> QED
  BY <1>1, <1>4, <1>5

(* While an expansion is being left nothing is read, and the return from   *)
(* it ends that.                                                           *)
LEMMA NextKeepsExit ==
    ASSUME ExitStops, ExitsAnExpansion, [Next]_vars
    PROVE  /\ ExitStops'
           /\ exiting =>
                /\ emitted' = emitted
                /\ ~exiting' => LET d == Max(Expansions)
                                IN  /\ Len(stack') = d - 1
                                    /\ stack'[d - 1].at = stack[d - 1].at + 1
                                    /\ ~stack'[d - 1].stopped \/ ended
<1>1. IInv /\ IInv'
  BY NextKeepsInv DEF ExitStops
<1>2. CASE Reading
  BY <1>1, <1>2, FlagsAreRaised DEF ExitStops, InnermostStops, Reading, HasStatement
<1>3. CASE Leave
  <2>1. /\ emitted' = emitted /\ ended' = ended
        /\ exiting' = (exiting /\ ~IsExpansion(Top.kind))
        /\ stack # <<>> /\ exiting \in BOOLEAN /\ ended \in BOOLEAN
    BY <1>1, <1>3, LeaveReturns DEF Leave, IInv, TypeOK
  <2>2. ASSUME exiting'
        PROVE  InnermostStops'
    <3>1. exiting /\ ~IsExpansion(Top.kind)
      BY <2>1, <2>2
    <3>2. PICK d \in 1 .. Depth : IsExpansion(stack[d].kind)
      BY <3>1 DEF ExitsAnExpansion, Expansions
    <3>3. d # Depth /\ Depth # 1
      BY <1>1, <1>3, <3>1, <3>2, LeaveReturns
    <3>4. /\ stack' # <<>> /\ Len(stack') = Depth - 1
          /\ stack'[Depth - 1].stopped = StopsAfter(Top.kind, exiting', ended)
      BY <1>1, <1>3, <3>3, LeaveReturns
    <3> QED
      BY <2>2, <3>1, <3>4 DEF StopsAfter, IsExpansion, InnermostStops, Top, Depth
  <2>3. ASSUME exiting, ~exiting'
        PROVE  LET d == Max(Expansions)
               IN  /\ Len(stack') = d - 1
                   /\ stack'[d - 1].at = stack[d - 1].at + 1
                   /\ ~stack'[d - 1].stopped \/ ended
    <3>1. IsExpansion(Top.kind)
      BY <2>1, <2>3
    <3>2. Max(Expansions) = Depth /\ Depth # 1
      BY <1>1, <2>1, <3>1, InnermostExpansion
    <3>3. /\ Len(stack') = Depth - 1
          /\ stack'[Depth - 1].at = stack[Depth - 1].at + 1
          /\ stack'[Depth - 1].stopped = StopsAfter(Top.kind, exiting', ended)
      BY <1>1, <1>3, <3>2, LeaveReturns
    <3>4. ~stack'[Depth - 1].stopped \/ ended
      BY <2>3, <3>3 DEF StopsAfter
    <3> QED
      BY <3>2, <3>3, <3>4
  <2> QED
    BY <1>1, <2>1, <2>2, <2>3 DEF ExitStops
<1>4. CASE NextInput
  BY <1>1, <1>4 DEF NextInput, flags, ExitStops, InnermostStops
<1>5. CASE UNCHANGED vars
  BY <1>1, <1>5 DEF vars, flags, result, ExitStops, InnermostStops, Top, Depth
<1> QED
  BY <1>2, <1>3, <1>4, <1>5, OnlyReturnsFollow

(* .exitm assembles nothing on its way out, leaves the innermost expansion *)
(* and ends at the statement after what caused that, whatever files and    *)
(* rewritten statements are between, as long as there is an expansion      *)
(* (exiting_macro, expand).                                                *)
THEOREM ExitmLeavesItsExpansion == Spec /\ []ExitsAnExpansion => ExitmLeavesOneExpansion
<1>1. Init => ExitStops
  BY InitInv DEF Init, ExitStops
<1>2. ExitStops /\ ExitsAnExpansion /\ [Next]_vars => ExitStops'
  BY NextKeepsExit
<1>3. ExitStops /\ ExitsAnExpansion /\ [Next]_vars =>
        [exiting =>
          /\ emitted' = emitted
          /\ ~exiting' => LET d == Max(Expansions)
                          IN  /\ Len(stack') = d - 1
                              /\ stack'[d - 1].at = stack[d - 1].at + 1
                              /\ ~stack'[d - 1].stopped \/ ended]_vars
  BY NextKeepsExit
<1> QED
  BY <1>1, <1>2, <1>3, PTL DEF Spec, ExitmLeavesOneExpansion

-----------------------------------------------------------------------------
(* Without rewritten statements .exitm always has an expansion to leave:   *)
(* what macro_depth counts is expansions.                                  *)
NothingRewritten == prog.pieces = <<>> /\ \A d \in 1 .. Depth : stack[d].kind # "define"

Grown == \E kind \in {"include", "macro", "repeat"} : Pushed(stack, stack', kind)

(* A statement that is not rewritten makes no piece be read.               *)
LEMMA StatementsGrow ==
    ASSUME IInv, [Next]_vars, Reading, prog.pieces = <<>>
    PROVE  SameKinds(stack, stack') \/ Grown
<1>1. RestOK /\ DepthsOK
  BY IInvParts
<1>2. /\ Stmt \in Statement /\ Top.at + 1 \in Nat \ {0} /\ Top.at \in Nat \ {0} /\ stack # <<>>
      /\ stack \in Seq(Frame) /\ SameKinds(stack, stack) /\ Len(Top.text) + 1 \in Nat \ {0}
      /\ FALSE \in BOOLEAN /\ TRUE \in BOOLEAN /\ (exiting \/ ended) \in BOOLEAN
  BY <1>1, WhatIsRead DEF DepthsOK, SameKinds, RestOK
<1>3. ASSUME NEW at \in Nat \ {0}, NEW stop \in BOOLEAN, GoTo(at, stop)
      PROVE  SameKinds(stack, stack')
  BY <1>3, GoToKeepsKinds
<1>4. CASE ExpandRepeat
  <2>1. PICK end \in BlockEnds(Top.text, Top.at, prog.oneCloser) :
          Expand(Copies(Body(Top.text, Top.at, end), Stmt.arg), "repeat", end)
    BY <1>4 DEF ExpandRepeat
  <2>2. Stmt.arg \in Nat
    BY <1>2 DEF Statement
  <2>3. /\ end \in Nat \ {0}
        /\ Copies(Body(Top.text, Top.at, end), Stmt.arg) \in Text
    BY <1>1, <2>2, WhatIsRead, BlockTexts
  <2>4. CASE macroDepth >= MaxMacroDepth
    <3>1. GoTo(end + 1, StopsAfter("repeat", exiting, ended))
      BY <2>1, <2>4 DEF Expand
    <3>2. end + 1 \in Nat \ {0} /\ StopsAfter("repeat", exiting, ended) \in BOOLEAN
      BY <2>3 DEF StopsAfter
    <3> QED
      BY <1>3, <3>1, <3>2
  <2>5. CASE ~(macroDepth >= MaxMacroDepth)
    BY <1>1, <2>1, <2>3, <2>5, ExpandPushes DEF Grown
  <2> QED
    BY <2>4, <2>5
<1>5. CASE ExpandMacro
  <2>1. macros[Stmt.arg] \in Text
    BY <1>1, <1>5 DEF ExpandMacro, RestOK
  <2>2. Expand(macros[Stmt.arg], "macro", Top.at)
    BY <1>5 DEF ExpandMacro
  <2>4. CASE macroDepth >= MaxMacroDepth
    BY <1>2, <1>3, <2>2, <2>4 DEF Expand, StopsAfter
  <2>5. CASE ~(macroDepth >= MaxMacroDepth)
    BY <1>1, <1>2, <2>1, <2>2, <2>5, ExpandPushes DEF Grown
  <2> QED
    BY <2>4, <2>5
<1>6. CASE Include
  <2>1. CASE includeDepth > MaxIncludeDepth \/ Stmt.arg \notin DOMAIN prog.files
    BY <1>2, <1>3, <1>6, <2>1 DEF Include, GoOn
  <2>2. CASE ~(includeDepth > MaxIncludeDepth) /\ Stmt.arg \in DOMAIN prog.files
    <3> DEFINE frame == Enter(prog.files[Stmt.arg], "include")
    <3>1. stack' = Append(stack, frame)
      BY <1>6, <2>2 DEF Include
    <3>2. prog.files[Stmt.arg] \in Text
      BY <1>1, <2>2 DEF RestOK, Program
    <3>3. frame \in Frame /\ frame.kind = "include"
      BY <1>1, <3>2, EnterIsFrame DEF Kinds
    <3> HIDE DEF frame
    <3> QED
      BY <1>2, <3>1, <3>3, AppendPushes DEF Grown
  <2> QED
    BY <2>1, <2>2
<1>7. CASE Unterminated \/ DefineMacro \/ StrayEnd \/ ExitMacro \/ Skip \/ DirIf \/ DirElseIf
           \/ DirElse \/ DirEndIf \/ PurgeMacro \/ End \/ Code
  <2>1. PICK at \in Nat \ {0}, stop \in BOOLEAN : GoTo(at, stop)
    <3>1. CASE DefineMacro
      <4>1. PICK end \in BlockEnds(Top.text, Top.at, prog.oneCloser) : GoTo(end + 1, FALSE)
        BY <3>1 DEF DefineMacro
      <4>2. end \in Nat \ {0}
        BY <1>1, 0 \in Nat, WhatIsRead, BlockTexts
      <4>3. end + 1 \in Nat \ {0}
        BY <4>2
      <4> QED
        BY <1>2, <4>1, <4>3
    <3>2. CASE Unterminated \/ StrayEnd \/ ExitMacro \/ End
      BY <1>2, <3>2 DEF Unterminated, StrayEnd, ExitMacro, End
    <3>3. CASE Skip \/ DirIf \/ DirElseIf \/ DirElse \/ DirEndIf \/ PurgeMacro \/ Code
      <4>1. GoOn
        BY <3>3 DEF Skip, DirIf, DirElseIf, DirElse, DirEndIf, PurgeMacro, Code
      <4> QED
        BY <1>2, <4>1 DEF GoOn
    <3> QED
      BY <1>7, <3>1, <3>2, <3>3
  <2> QED
    BY <2>1, <1>3
<1>8. CASE UNCHANGED vars
  BY <1>2, <1>8 DEF vars
<1>9. ~ApplyDefine
  BY DEF ApplyDefine, IsRewritten
<1>10. ~Leave /\ ~NextInput /\ ~Stop
  BY DEF Leave, NextInput, Stop, Finished, Reading
<1> QED
  BY <1>4, <1>5, <1>6, <1>7, <1>8, <1>9, <1>10 DEF Next

ExpansionsAreLeft == ExitStops /\ NothingRewritten /\ ExitsAnExpansion

(* Counting: what is open is expansions and files.                         *)
LEMMA DeepIsExpansions ==
    ASSUME IInv, NothingRewritten, macroDepth # 0
    PROVE  Expansions # {}
<1>1. stack \in Seq(Frame) /\ macroDepth = Cardinality(FramesOf(stack, Deep)) /\ Depth = Len(stack)
  BY DEF IInv, TypeOK, DepthsCount, Depth
<1>2. FramesOf(stack, Deep) # {}
  BY <1>1, FS_EmptySet
<1>3. PICK d \in 1 .. Depth : stack[d].kind \in Deep
  BY <1>1, <1>2 DEF FramesOf
<1>4. IsExpansion(stack[d].kind)
  BY <1>3 DEF NothingRewritten, Deep, IsExpansion
<1> QED
  BY <1>3, <1>4 DEF Expansions

(* As long as nothing is rewritten, no step gives .exitm nothing to leave. *)
LEMMA NextKeepsExpansions ==
    ASSUME ExpansionsAreLeft, [Next]_vars
    PROVE  ExpansionsAreLeft'
<1>1. IInv /\ IInv' /\ ExitStops'
  BY NextKeepsInv, NextKeepsExit DEF ExpansionsAreLeft, ExitStops
<1>2. CASE Reading
  <2>1. ~exiting /\ prog' = prog
    BY <1>2 DEF ExpansionsAreLeft, ExitStops, InnermostStops, Reading, HasStatement,
                Next, vars, ApplyDefine, Unterminated, DefineMacro, ExpandRepeat, StrayEnd,
                ExitMacro, ExpandMacro, Skip, DirIf, DirElseIf, DirElse, DirEndIf, Include,
                PurgeMacro, End, Code, Leave, NextInput, Stop
  <2>2. SameKinds(stack, stack') \/ Grown
    BY <1>1, <1>2, StatementsGrow DEF ExpansionsAreLeft, NothingRewritten
  <2>3. NothingRewritten'
    BY <2>1, <2>2 DEF ExpansionsAreLeft, NothingRewritten, SameKinds, Grown, Pushed, Depth
  <2>4. ASSUME exiting'
        PROVE  Expansions' # {}
    <3>1. SameKinds(stack, stack') /\ macroDepth # 0
      BY <1>1, <1>2, <2>1, <2>4, FlagsAreRaised
    <3>2. Expansions # {}
      BY <1>1, <3>1, DeepIsExpansions DEF ExpansionsAreLeft
    <3> QED
      BY <3>1, <3>2 DEF Expansions, SameKinds, Depth
  <2> QED
    BY <1>1, <2>3, <2>4 DEF ExpansionsAreLeft, ExitsAnExpansion
<1>3. CASE Leave
  <2>1. /\ Depth \in Nat \ {0} /\ Len(stack') = Depth - 1 /\ prog' = prog
        /\ \A d \in 1 .. Depth - 1 : stack'[d].kind = stack[d].kind
        /\ Top = stack[Depth]
        /\ exiting' = (exiting /\ ~IsExpansion(Top.kind))
    BY <1>1, <1>3, LeaveReturns
  <2>2. NothingRewritten'
    BY <2>1 DEF ExpansionsAreLeft, NothingRewritten, Depth
  <2>3. ASSUME exiting'
        PROVE  Expansions' # {}
    <3>1. exiting /\ ~IsExpansion(Top.kind)
      BY <2>1, <2>3
    <3>2. PICK d \in 1 .. Depth : IsExpansion(stack[d].kind)
      BY <3>1 DEF ExpansionsAreLeft, ExitsAnExpansion, Expansions
    <3>3. d \in 1 .. Depth - 1
      BY <2>1, <3>1, <3>2
    <3>4. d \in 1 .. Len(stack') /\ stack'[d].kind = stack[d].kind
      BY <2>1, <3>3
    <3> QED
      BY <3>2, <3>4 DEF Expansions, Depth
  <2> QED
    BY <1>1, <2>2, <2>3 DEF ExpansionsAreLeft, ExitsAnExpansion
<1>4. CASE NextInput
  <2>1. stack = <<>> /\ exiting' = exiting /\ prog' = prog
    BY <1>4 DEF NextInput, flags
  <2>2. ~exiting
    BY <2>1 DEF ExpansionsAreLeft, ExitStops, InnermostStops
  <2>3. Len(stack') = 1 /\ stack'[1].kind = "input"
    BY <1>4 DEF NextInput, Enter
  <2>4. NothingRewritten'
    BY <2>1, <2>3 DEF ExpansionsAreLeft, NothingRewritten, Depth
  <2> QED
    BY <1>1, <2>1, <2>2, <2>4 DEF ExpansionsAreLeft, ExitsAnExpansion
<1>5. CASE UNCHANGED vars
  BY <1>1, <1>5 DEF vars, flags, result, ExpansionsAreLeft, NothingRewritten, ExitsAnExpansion,
                    Expansions, Depth
<1> QED
  BY <1>2, <1>3, <1>4, <1>5, OnlyReturnsFollow

(* Outside CC-RX, whose .DEFINE is what rewrites, .exitm always leaves one *)
(* expansion (exiting_macro, macro_depth).                                 *)
THEOREM ExitmLeavesOne ==
    ASSUME \A p \in Programs : p.pieces = <<>>
    PROVE  Spec => ExitmLeavesOneExpansion
<1>1. Init => ExpansionsAreLeft
  BY InitInv DEF Init, ExpansionsAreLeft, ExitStops, NothingRewritten, ExitsAnExpansion, Depth
<1>2. ExpansionsAreLeft /\ [Next]_vars => ExpansionsAreLeft'
  BY NextKeepsExpansions
<1>3. ExpansionsAreLeft => ExitsAnExpansion
  BY DEF ExpansionsAreLeft
<1> QED
  BY <1>1, <1>2, <1>3, ExitmLeavesItsExpansion, PTL DEF Spec

-----------------------------------------------------------------------------
(***************************************************************************)
(* What is assembled is what the texts say.  The flags of the conditionals *)
(* of all texts are one stack; each text being read has a part of it, from *)
(* where it was entered to where the next one was, that follows its own    *)
(* conditionals as long as every text nests.                               *)
(***************************************************************************)

(* A false branch does not look at .ifb and .elif.                         *)
OnlyLookedAt(text) ==
    \A k \in 1 .. Len(text) : text[k].op \in Opening \cup Arms => text[k].op \in LookedAt

Readable(text) == NestsWell(text, prog.oneCloser) /\ OnlyLookedAt(text)

AllReadable == \A text \in TextsOf(prog) : Readable(text)

(* A rewritten statement that ends early leaves the conditionals it opened *)
(* to the text it stands in, which ends with it.                           *)
RewrittenStops ==
    stack # <<>> /\ Top.kind = "define" /\ Top.stopped => exiting \/ ended

Nest ==
    /\ StackFollows(cond, Len(cond), stack, prog.oneCloser)
    /\ \A d \in 1 .. Len(stack) : OnlyLookedAt(stack[d].text)
    /\ \A m \in DOMAIN macros : Readable(macros[m])
    /\ RewrittenStops

NestInv == IInv /\ (AllReadable /\ "define depth" \notin errors => Nest)

-----------------------------------------------------------------------------
(* What a block holds is readable if the text it is taken from is.         *)
LEMMA BodyIsReadable ==
    ASSUME NEW text \in Text, Readable(text), NEW i \in 1 .. Len(text),
           text[i].op \in BlockStarts, NEW e \in BlockEnds(text, i, prog.oneCloser)
    PROVE  Readable(Body(text, i, e))
<1>1. text \in Seq(Statement) /\ Len(text) \in Nat
  BY LenProperties DEF Text
<1>2. e \in i + 1 .. Len(text)
  BY BlockEndsMeans
<1>3. NestsWell(Body(text, i, e), prog.oneCloser)
  BY <1>1, BodyNests DEF Readable
<1>4. /\ Len(Body(text, i, e)) = e - i - 1
      /\ \A k \in 1 .. e - i - 1 : Body(text, i, e)[k] = text[k + i]
  BY <1>1, <1>2, BodyShape
<1>5. ASSUME NEW k \in 1 .. Len(Body(text, i, e))
      PROVE  Body(text, i, e)[k] = text[k + i] /\ k + i \in 1 .. Len(text)
  BY <1>1, <1>2, <1>4
<1>6. OnlyLookedAt(Body(text, i, e))
  BY <1>5 DEF Readable, OnlyLookedAt
<1> QED
  BY <1>3, <1>6 DEF Readable

(* So are the copies of it that a repeat reads.                            *)
LEMMA CopiesAreReadable ==
    ASSUME NEW body \in Text, Readable(body), NEW n \in Nat
    PROVE  Readable(Copies(body, n))
<1>1. body \in Seq(Statement) /\ Len(body) \in Nat
  BY LenProperties DEF Text
<1>2. NestsWell(Copies(body, n), prog.oneCloser)
  BY <1>1, CopiesNest DEF Readable
<1>3. /\ Len(Copies(body, n)) = n * Len(body)
      /\ \A r \in 0 .. n - 1 :
           SameOps(Copies(body, n), body, r * Len(body), r * Len(body) + 1,
                   r * Len(body) + Len(body))
  BY <1>1, CopiesShape
<1>4. ASSUME NEW k \in 1 .. Len(Copies(body, n))
      PROVE  \E m \in 1 .. Len(body) : Copies(body, n)[k].op = body[m].op
  <2>1. k \in 1 .. n * Len(body)
    BY <1>3
  <2>2. Len(body) # 0
    BY <1>1, <2>1
  <2>3. Len(body) \in Nat \ {0}
    BY <1>1, <2>2
  <2>4. PICK r \in 0 .. n - 1 : k \in r * Len(body) + 1 .. r * Len(body) + Len(body)
    BY <2>1, <2>3, InACopy
  <2>5. PICK p \in Nat : p = r * Len(body)
    BY <1>1
  <2>6. SameOps(Copies(body, n), body, p, p + 1, p + Len(body))
    BY <1>3, <2>5
  <2>7. k \in p + 1 .. p + Len(body)
    BY <2>4, <2>5
  <2>8. Copies(body, n)[k].op = body[k - p].op
    BY <2>6, <2>7 DEF SameOps
  <2>9. k - p \in 1 .. Len(body)
    BY <1>1, <2>5, <2>7
  <2> QED
    BY <2>8, <2>9
<1>5. OnlyLookedAt(Copies(body, n))
  BY <1>4 DEF Readable, OnlyLookedAt
<1> QED
  BY <1>2, <1>5 DEF Readable

-----------------------------------------------------------------------------
(* What holds of the text whose statement is read.                         *)
LEMMA WhatFollows ==
    ASSUME IInv, Reading, Nest
    PROVE  /\ Len(stack) \in Nat \ {0} /\ Depth = Len(stack) /\ Top = stack[Len(stack)]
           /\ Readable(Top.text) /\ Len(Top.text) \in Nat /\ Top.text \in Text
           /\ NestsIn(Top.text, 1, Len(Top.text))
           /\ Top.at \in 1 .. Len(Top.text)
           /\ Top.conds \in Nat /\ Len(cond) \in Nat /\ Top.conds <= Len(cond)
           /\ Follows(cond, Top.text, Top.at, Top.conds, Len(cond))
           /\ Stmt = Top.text[Top.at]
<1>1. RestOK /\ DepthsOK
  BY IInvParts
<1>2. /\ stack # <<>> /\ Len(stack) = Depth /\ Depth \in Nat \ {0}
      /\ Len(Top.text) \in Nat /\ Top.at \in 1 .. Len(Top.text) /\ Top.text \in Text
  BY <1>1, WhatIsRead
<1>3. Top = stack[Len(stack)] /\ Stmt = Top.text[Top.at] /\ Len(stack) \in 1 .. Len(stack)
  BY <1>2 DEF Top, Stmt
<1>4. Len(cond) \in Nat
  BY <1>1, LenProperties DEF RestOK
<1>5. /\ NestsWell(Top.text, prog.oneCloser) /\ Top.conds \in 0 .. Len(cond)
      /\ Reads(cond, Top, Len(cond))
  BY <1>2, <1>3 DEF Nest, StackFollows
<1>6. ~Top.stopped
  BY DEF Reading, HasStatement
<1>7. Follows(cond, Top.text, Top.at, Top.conds, Len(cond))
  BY <1>5, <1>6 DEF Reads
<1>8. OnlyLookedAt(Top.text)
  BY <1>3 DEF Nest
<1>9. NestsIn(Top.text, 1, Len(Top.text))
  BY <1>5 DEF NestsWell
<1> QED
  BY <1>2, <1>3, <1>4, <1>5, <1>7, <1>8, <1>9 DEF Readable

-----------------------------------------------------------------------------
(* The two ways the stack changes while the innermost text is read: it     *)
(* goes on, or causes another text to be read.                             *)

(* Only the innermost text of t is not that of s, and it is the same text. *)
OnlyTopDiffers(s, t) ==
    /\ \A d \in 1 .. Len(s) - 1 : t[d] = s[d]
    /\ SameText(s[Len(s)], t[Len(s)])
    /\ t[Len(s)].kind = s[Len(s)].kind

(* Setting a place in the innermost text changes nothing else.             *)
LEMMA PlaceIsSet ==
    ASSUME NEW s \in Seq(Frame), Len(s) \in Nat \ {0}, NEW f \in Frame,
           SameText(s[Len(s)], f), f.kind = s[Len(s)].kind
    PROVE  LET t == [s EXCEPT ![Len(s)] = f]
           IN  /\ t \in Seq(Frame) /\ Len(t) = Len(s) /\ t[Len(s)] = f
               /\ OnlyTopDiffers(s, t)
<1> DEFINE t == [s EXCEPT ![Len(s)] = f]
<1>1. Len(s) \in 1 .. Len(s)
  OBVIOUS
<1>2. /\ t \in Seq(Frame) /\ Len(t) = Len(s)
      /\ \A d \in 1 .. Len(s) : t[d] = IF d = Len(s) THEN f ELSE s[d]
  BY <1>1, ExceptSeq
<1> HIDE DEF t
<1>3. t[Len(s)] = f
  BY <1>1, <1>2
<1>4. \A d \in 1 .. Len(s) - 1 : t[d] = s[d]
  BY <1>2
<1>5. OnlyTopDiffers(s, t)
  BY <1>3, <1>4 DEF OnlyTopDiffers
<1> QED
  BY <1>2, <1>3, <1>5 DEF t

(* Going on is such a change.                                              *)
LEMMA GoToSetsPlace ==
    ASSUME IInv, Reading, NEW at \in Nat \ {0}, NEW stop \in BOOLEAN, GoTo(at, stop)
    PROVE  /\ Len(stack') = Len(stack) /\ Len(stack) \in Nat \ {0}
           /\ OnlyTopDiffers(stack, stack')
           /\ stack'[Len(stack)].at = at /\ stack'[Len(stack)].stopped = stop
<1>1. /\ stack \in Seq(Frame) /\ Len(stack) \in Nat \ {0} /\ Depth = Len(stack)
      /\ stack[Len(stack)] \in Frame
  BY IInvParts, WhatIsRead, ElementOfSeq DEF DepthsOK, Depth
<1> DEFINE f == [stack[Len(stack)] EXCEPT !.at = at, !.stopped = stop]
<1>2. stack' = [stack EXCEPT ![Len(stack)] = f]
  BY <1>1 DEF GoTo, Frame
<1>3. /\ f \in Frame /\ f.kind = stack[Len(stack)].kind /\ SameText(stack[Len(stack)], f)
      /\ f.at = at /\ f.stopped = stop
  BY <1>1 DEF Frame, SameText
<1> HIDE DEF f
<1> QED
  BY <1>1, <1>2, <1>3, PlaceIsSet

Enters(text, kind, at) ==
    stack' = Append([stack EXCEPT ![Depth].at = at], Enter(text, kind))

(* So is causing another to be read, below which the innermost waits.      *)
LEMMA EntersSetsPlace ==
    ASSUME IInv, Reading, NEW text \in Text, NEW kind \in Kinds, NEW at \in Nat \ {0},
           Enters(text, kind, at)
    PROVE  /\ Len(stack') = Len(stack) + 1 /\ Len(stack) \in Nat \ {0}
           /\ OnlyTopDiffers(stack, stack')
           /\ stack'[Len(stack)].at = at
           /\ stack'[Len(stack) + 1] = Enter(text, kind)
<1>1. /\ stack \in Seq(Frame) /\ Len(stack) \in Nat \ {0} /\ Depth = Len(stack)
      /\ stack[Len(stack)] \in Frame
  BY IInvParts, WhatIsRead, ElementOfSeq DEF DepthsOK, Depth
<1> DEFINE f == [stack[Len(stack)] EXCEPT !.at = at]
           here == [stack EXCEPT ![Len(stack)] = f]
           frame == Enter(text, kind)
<1>2. stack' = Append(here, frame)
  BY <1>1 DEF Enters, Frame
<1>3. /\ f \in Frame /\ f.kind = stack[Len(stack)].kind /\ SameText(stack[Len(stack)], f)
      /\ f.at = at
  BY <1>1 DEF Frame, SameText
<1>4. frame \in Frame
  BY IInvParts, EnterIsFrame
<1> HIDE DEF f, frame
<1>5. /\ here \in Seq(Frame) /\ Len(here) = Len(stack) /\ here[Len(stack)] = f
      /\ OnlyTopDiffers(stack, here)
  BY <1>1, <1>3, PlaceIsSet
<1> HIDE DEF here
<1>6. /\ Len(stack') = Len(here) + 1
      /\ \A d \in 1 .. Len(here) : stack'[d] = here[d]
      /\ stack'[Len(here) + 1] = frame
  BY <1>2, <1>4, <1>5, AppendProperties
<1>7. stack'[Len(stack)] = f
  BY <1>1, <1>5, <1>6
<1>8. \A d \in 1 .. Len(stack) - 1 : stack'[d] = here[d]
  BY <1>1, <1>5, <1>6
<1>9. OnlyTopDiffers(stack, stack')
  BY <1>5, <1>7, <1>8 DEF OnlyTopDiffers
<1> QED
  BY <1>1, <1>3, <1>5, <1>6, <1>7, <1>9 DEF frame

-----------------------------------------------------------------------------
(* What a statement may do: conditionals below the text's own stay, and    *)
(* the text is read on where its conditionals follow the flags, or not at  *)
(* all.                                                                    *)
GoesOn ==
    /\ Agree(cond, cond', Top.conds) /\ Top.conds <= Len(cond') /\ Len(cond') \in Nat
    /\ \E at \in Nat \ {0} : \E stop \in BOOLEAN :
          /\ GoTo(at, stop)
          /\ stop => (Top.kind = "define" => exiting' \/ ended')
          /\ ~stop => /\ at \in 1 .. Len(Top.text) + 1
                      /\ Follows(cond', Top.text, at, Top.conds, Len(cond'))

(* Or another text is read first, caused by a statement in the same arms   *)
(* that is about no conditional.                                           *)
ReadsAnother ==
    /\ cond' = cond
    /\ \E text \in Text : \E kind \in Kinds : \E at \in 1 .. Len(Top.text) :
          /\ Readable(text)
          /\ Enters(text, kind, at)
          /\ Quiet(Top.text[at].op)
          /\ SameNesting(Top.text, Top.at, at)

(* Both keep the walk with the texts.                                      *)
LEMMA GoingOnKeepsNest ==
    ASSUME IInv, Reading, Nest, GoesOn
    PROVE  /\ StackFollows(cond', Len(cond'), stack', prog.oneCloser)
           /\ \A d \in 1 .. Len(stack') : OnlyLookedAt(stack'[d].text)
           /\ RewrittenStops'
<1>0. /\ Agree(cond, cond', Top.conds) /\ Top.conds <= Len(cond') /\ Len(cond') \in Nat
  BY DEF GoesOn
<1>1. PICK at \in Nat \ {0} : \E stop \in BOOLEAN :
          /\ GoTo(at, stop)
          /\ stop => (Top.kind = "define" => exiting' \/ ended')
          /\ ~stop => /\ at \in 1 .. Len(Top.text) + 1
                      /\ Follows(cond', Top.text, at, Top.conds, Len(cond'))
  BY DEF GoesOn
<1>2. PICK stop \in BOOLEAN :
          /\ GoTo(at, stop)
          /\ stop => (Top.kind = "define" => exiting' \/ ended')
          /\ ~stop => /\ at \in 1 .. Len(Top.text) + 1
                      /\ Follows(cond', Top.text, at, Top.conds, Len(cond'))
  BY <1>1
<1>3. /\ Len(stack') = Len(stack) /\ Len(stack) \in Nat \ {0}
      /\ OnlyTopDiffers(stack, stack')
      /\ stack'[Len(stack)].at = at /\ stack'[Len(stack)].stopped = stop
  BY <1>2, GoToSetsPlace
<1>4. Top = stack[Len(stack)] /\ Len(cond) \in Nat
  BY WhatFollows
<1>5. /\ \A d \in 1 .. Len(stack) - 1 : stack'[d] = stack[d]
      /\ SameText(stack[Len(stack)], stack'[Len(stack)])
      /\ stack'[Len(stack)].text = Top.text /\ stack'[Len(stack)].conds = Top.conds
      /\ stack'[Len(stack)].kind = Top.kind
  BY <1>3, <1>4 DEF OnlyTopDiffers, SameText
<1>6. Reads(cond', stack'[Len(stack)], Len(cond'))
  BY <1>2, <1>3, <1>5 DEF Reads
<1>7. StackFollows(cond, Len(cond), stack, prog.oneCloser)
  BY DEF Nest
<1>8. StackFollows(cond', Len(cond'), stack', prog.oneCloser)
  BY <1>0, <1>3, <1>4, <1>5, <1>6, <1>7, StackAdvances
<1>9. \A d \in 1 .. Len(stack') : OnlyLookedAt(stack'[d].text)
  <2> SUFFICES ASSUME NEW d \in 1 .. Len(stack') PROVE OnlyLookedAt(stack'[d].text)
    OBVIOUS
  <2>1. d \in 1 .. Len(stack) /\ stack'[d].text = stack[d].text
    BY <1>3, <1>4, <1>5
  <2> QED
    BY <2>1 DEF Nest
<1>10. RewrittenStops'
  BY <1>2, <1>3, <1>5 DEF RewrittenStops, Top, Depth
<1> QED
  BY <1>8, <1>9, <1>10

(* The text that waits lies in the same arms.                              *)
LEMMA ReadingAnotherKeepsNest ==
    ASSUME IInv, Reading, Nest, ReadsAnother
    PROVE  /\ StackFollows(cond', Len(cond'), stack', prog.oneCloser)
           /\ \A d \in 1 .. Len(stack') : OnlyLookedAt(stack'[d].text)
           /\ RewrittenStops'
<1>1. PICK text \in Text : \E kind \in Kinds : \E at \in 1 .. Len(Top.text) :
          /\ Readable(text)
          /\ Enters(text, kind, at)
          /\ Quiet(Top.text[at].op)
          /\ SameNesting(Top.text, Top.at, at)
  BY DEF ReadsAnother
<1>2. PICK kind \in Kinds : \E at \in 1 .. Len(Top.text) :
          /\ Readable(text)
          /\ Enters(text, kind, at)
          /\ Quiet(Top.text[at].op)
          /\ SameNesting(Top.text, Top.at, at)
  BY <1>1
<1>3. PICK at \in 1 .. Len(Top.text) :
          /\ Readable(text)
          /\ Enters(text, kind, at)
          /\ Quiet(Top.text[at].op)
          /\ SameNesting(Top.text, Top.at, at)
  BY <1>2
<1>4. /\ Len(stack) \in Nat \ {0} /\ Top = stack[Len(stack)]
      /\ Len(Top.text) \in Nat /\ NestsIn(Top.text, 1, Len(Top.text))
      /\ Top.at \in 1 .. Len(Top.text) /\ Top.at \in 1 .. Len(Top.text) + 1
      /\ Top.conds \in Nat /\ Len(cond) \in Nat
      /\ Follows(cond, Top.text, Top.at, Top.conds, Len(cond))
  BY WhatFollows
<1>5. at \in Nat \ {0}
  BY <1>4
<1>6. /\ Len(stack') = Len(stack) + 1
      /\ OnlyTopDiffers(stack, stack')
      /\ stack'[Len(stack)].at = at
      /\ stack'[Len(stack) + 1] = Enter(text, kind)
  BY <1>3, <1>5, EntersSetsPlace
<1>7. /\ \A d \in 1 .. Len(stack) - 1 : stack'[d] = stack[d]
      /\ SameText(stack[Len(stack)], stack'[Len(stack)])
      /\ stack'[Len(stack)].text = Top.text /\ stack'[Len(stack)].conds = Top.conds
  BY <1>4, <1>6 DEF OnlyTopDiffers, SameText
<1>8. Follows(cond, Top.text, at, Top.conds, Len(cond))
  BY <1>3, <1>4, FollowsOn DEF Agree
<1>9. Waits(cond, stack'[Len(stack)], Len(cond))
  BY <1>3, <1>6, <1>7, <1>8 DEF Waits
<1>10. /\ stack'[Len(stack) + 1].text = text /\ stack'[Len(stack) + 1].at = 1
       /\ stack'[Len(stack) + 1].conds = Len(cond)
       /\ ~stack'[Len(stack) + 1].stopped
  BY <1>6 DEF Enter
<1>11. StackFollows(cond, Len(cond), stack, prog.oneCloser)
  BY DEF Nest
<1>12. NestsWell(text, prog.oneCloser) /\ Len(text) \in Nat
  BY <1>3, LenProperties DEF Readable, Text
<1>13. StackFollows(cond, Len(cond), stack', prog.oneCloser)
  BY <1>4, <1>6, <1>7, <1>9, <1>10, <1>11, <1>12, StackGrows
<1>14. \A d \in 1 .. Len(stack') : OnlyLookedAt(stack'[d].text)
  <2> SUFFICES ASSUME NEW d \in 1 .. Len(stack') PROVE OnlyLookedAt(stack'[d].text)
    OBVIOUS
  <2>1. CASE d = Len(stack) + 1
    BY <1>3, <1>10, <2>1 DEF Readable
  <2>2. CASE d # Len(stack) + 1
    BY <1>4, <1>6, <1>7, <2>2, SMTT(30) DEF Nest
  <2> QED
    BY <2>1, <2>2
<1>15. RewrittenStops'
  BY <1>6, <1>10 DEF RewrittenStops, Top, Depth
<1>16. cond' = cond
  BY DEF ReadsAnother
<1> QED
  BY <1>13, <1>14, <1>15, <1>16

-----------------------------------------------------------------------------
(* Each statement does one or the other.                                   *)

(* What holds up to the innermost conditional holds below it.              *)
LEMMA AgreeBelow ==
    ASSUME NEW vs, NEW ws, NEW m \in Nat, NEW n \in Nat, n <= m, Agree(vs, ws, m)
    PROVE  Agree(vs, ws, n)
BY DEF Agree

(* A statement about no conditional leads to one in the same arms.         *)
LEMMA QuietGoesOn ==
    ASSUME IInv, Reading, Nest, Quiet(Stmt.op), cond' = cond,
           NEW stop \in BOOLEAN, GoTo(Top.at + 1, stop),
           stop /\ Top.kind = "define" => exiting' \/ ended'
    PROVE  GoesOn
<1>1. /\ Len(Top.text) \in Nat /\ NestsIn(Top.text, 1, Len(Top.text))
      /\ Top.at \in 1 .. Len(Top.text) /\ Top.at \in 1 .. Len(Top.text) + 1
      /\ Top.conds \in Nat /\ Len(cond) \in Nat /\ Top.conds <= Len(cond)
      /\ Follows(cond, Top.text, Top.at, Top.conds, Len(cond))
      /\ Stmt = Top.text[Top.at]
  BY WhatFollows
<1>2. Agree(cond, cond, Len(cond)) /\ Agree(cond, cond, Top.conds)
  BY DEF Agree
<1>3. SameNesting(Top.text, Top.at, Top.at + 1)
  BY <1>1, QuietKeepsNesting
<1>4. Follows(cond, Top.text, Top.at + 1, Top.conds, Len(cond))
  BY <1>1, <1>2, <1>3, FollowsOn
<1>5. Top.at + 1 \in Nat \ {0} /\ Top.at + 1 \in 1 .. Len(Top.text) + 1
  BY <1>1
<1> QED
  BY <1>1, <1>2, <1>4, <1>5 DEF GoesOn

(* A conditional directive leads to the next statement if the flags it     *)
(* sets are those of the text there.                                       *)
LEMMA DirectiveGoesOn ==
    ASSUME IInv, Reading, Nest, GoOn, exiting' = exiting, ended' = ended,
           Agree(cond, cond', Top.conds), Top.conds <= Len(cond'), Len(cond') \in Nat,
           Follows(cond', Top.text, Top.at + 1, Top.conds, Len(cond'))
    PROVE  GoesOn
<1>1. /\ Len(Top.text) \in Nat /\ Top.at \in 1 .. Len(Top.text)
  BY WhatFollows
<1>2. Top.at + 1 \in Nat \ {0} /\ Top.at + 1 \in 1 .. Len(Top.text) + 1
  BY <1>1
<1>3. (exiting \/ ended) \in BOOLEAN
  BY DEF IInv, TypeOK
<1>4. PICK stop \in BOOLEAN : stop = (exiting \/ ended)
  BY <1>3
<1>5. GoTo(Top.at + 1, stop) /\ (stop => exiting' \/ ended')
  BY <1>4 DEF GoOn
<1> QED
  BY <1>2, <1>5 DEF GoesOn

(* .if opens the conditional its text opens there.                         *)
LEMMA IfGoesOn ==
    ASSUME IInv, Nest, DirIf
    PROVE  GoesOn
<1>0. Reading /\ GoOn /\ exiting' = exiting /\ ended' = ended /\ Stmt.op \in Opening
  BY DEF DirIf, Looks, flags
<1>1. /\ Len(Top.text) \in Nat /\ NestsIn(Top.text, 1, Len(Top.text))
      /\ Top.at \in 1 .. Len(Top.text)
      /\ Top.conds \in Nat /\ Len(cond) \in Nat /\ Top.conds <= Len(cond)
      /\ Follows(cond, Top.text, Top.at, Top.conds, Len(cond))
      /\ Stmt = Top.text[Top.at]
  BY <1>0, WhatFollows
<1> DEFINE c == [active |-> CondActive /\ Value, taken |-> ~CondActive \/ Value,
                 seenElse |-> FALSE]
<1>2. cond' = Append(cond, c)
  BY DEF DirIf
<1>3. c \in Cond /\ cond \in Seq(Cond)
  BY IInvParts, CondFlagsAreBoolean DEF Cond, Value, RestOK
<1>4. c.active = (CondActive /\ Value) /\ c.taken = (~CondActive \/ Value) /\ c.seenElse = FALSE
  OBVIOUS
<1> HIDE DEF c
<1>5. /\ Len(cond') = Len(cond) + 1 /\ cond'[Len(cond) + 1] = c
      /\ \A d \in 1 .. Len(cond) : cond'[d] = cond[d]
  BY <1>2, <1>3, AppendProperties
<1>6. Agree(cond, cond', Len(cond))
  BY <1>5 DEF Agree
<1>7. Outer(cond', Len(cond) + 1) <=> CondActive
  <2>1. CASE cond = <<>>
    BY <2>1 DEF Outer, CondActive
  <2>2. CASE cond # <<>>
    BY <1>1, <1>5, <2>2, IInvParts, InnermostIsCond DEF Outer, CondActive
  <2> QED
    BY <2>1, <2>2
<1>8. Holds(Stmt) <=> Value
  BY <1>0 DEF Holds, Value, Opening
<1>9. /\ cond'[Len(cond) + 1].taken <=> ~Outer(cond', Len(cond) + 1) \/ Holds(Top.text[Top.at])
      /\ cond'[Len(cond) + 1].active <=> Outer(cond', Len(cond) + 1) /\ Holds(Top.text[Top.at])
      /\ ~cond'[Len(cond) + 1].seenElse
  BY <1>1, <1>4, <1>5, <1>7, <1>8
<1>10. Follows(cond', Top.text, Top.at + 1, Top.conds, Len(cond) + 1)
  BY <1>0, <1>1, <1>6, <1>9, OpeningFollows
<1>11. Agree(cond, cond', Top.conds) /\ Top.conds <= Len(cond') /\ Len(cond') \in Nat
  BY <1>1, <1>5, <1>6, AgreeBelow
<1> QED
  BY <1>0, <1>5, <1>10, <1>11, DirectiveGoesOn

(* .endif closes the conditional its text closes there.                    *)
LEMMA EndIfGoesOn ==
    ASSUME IInv, Nest, DirEndIf
    PROVE  GoesOn
<1>0. Reading /\ GoOn /\ exiting' = exiting /\ ended' = ended /\ Stmt.op = "endif"
  BY DEF DirEndIf, Looks, flags
<1>1. /\ Len(Top.text) \in Nat /\ NestsIn(Top.text, 1, Len(Top.text))
      /\ Top.at \in 1 .. Len(Top.text)
      /\ Top.conds \in Nat /\ Len(cond) \in Nat /\ Top.conds <= Len(cond)
      /\ Follows(cond, Top.text, Top.at, Top.conds, Len(cond))
      /\ Stmt = Top.text[Top.at]
  BY <1>0, WhatFollows
<1>2. Top.conds < Len(cond)
  BY <1>0, <1>1, EndifFollows DEF Agree
<1>3. cond \in Seq(Cond) /\ cond # <<>> /\ Len(cond) - 1 \in 0 .. Len(cond) /\ Len(cond) - 1 \in Nat
  BY <1>1, <1>2, IInvParts, EmptySeq DEF RestOK
<1>4. cond' = SubSeq(cond, 1, Len(cond) - 1)
  BY <1>3 DEF DirEndIf
<1>5. Len(cond') = Len(cond) - 1 /\ \A d \in 1 .. Len(cond) - 1 : cond'[d] = cond[d]
  BY <1>3, <1>4, PrefixOfSeq
<1>6. Agree(cond, cond', Len(cond) - 1)
  BY <1>5 DEF Agree
<1>7. Follows(cond', Top.text, Top.at + 1, Top.conds, Len(cond) - 1)
  BY <1>0, <1>1, <1>6, EndifFollows
<1>8. Top.conds <= Len(cond) - 1
  BY <1>1, <1>2
<1>9. Agree(cond, cond', Top.conds) /\ Top.conds <= Len(cond') /\ Len(cond') \in Nat
  BY <1>1, <1>3, <1>5, <1>6, <1>8, AgreeBelow
<1> QED
  BY <1>0, <1>5, <1>7, <1>9, DirectiveGoesOn

(* What is around the innermost conditional.                               *)
LEMMA EnclosingIsOuter ==
    ASSUME Len(cond) \in Nat \ {0}
    PROVE  EnclosingActive <=> Outer(cond, Len(cond))
<1>1. PICK n \in Nat : n = Len(cond) /\ n # 0
  OBVIOUS
<1>2. n >= 2 <=> n # 1
  BY <1>1
<1>3. EnclosingActive <=> (n >= 2 => cond[n - 1].active)
  BY <1>1 DEF EnclosingActive
<1>4. Outer(cond, Len(cond)) <=> (n # 1 => cond[n - 1].active)
  BY <1>1 DEF Outer
<1> QED
  BY <1>2, <1>3, <1>4

(* What .elseif and .else find, and what they may leave.                   *)
LEMMA ArmGoesOn ==
    ASSUME IInv, Nest, Reading, GoOn, exiting' = exiting, ended' = ended, Stmt.op \in Arms,
           cond # <<>>, Len(cond') = Len(cond), Agree(cond, cond', Len(cond) - 1),
           cond'[Len(cond)].taken <=> Innermost.taken \/ Holds(Stmt),
           cond'[Len(cond)].active <=> EnclosingActive /\ ~Innermost.taken /\ Holds(Stmt),
           EnclosingActive /\ cond'[Len(cond)].seenElse => Stmt.op = "else"
    PROVE  GoesOn
<1>1. /\ Len(Top.text) \in Nat /\ NestsIn(Top.text, 1, Len(Top.text))
      /\ Top.at \in 1 .. Len(Top.text)
      /\ Top.conds \in Nat /\ Len(cond) \in Nat /\ Top.conds <= Len(cond)
      /\ Follows(cond, Top.text, Top.at, Top.conds, Len(cond))
      /\ Stmt = Top.text[Top.at]
  BY WhatFollows
<1>2. Top.conds < Len(cond)
  BY <1>1, ArmFollowsNoElse
<1>3. EnclosingActive <=> Outer(cond, Len(cond))
  BY <1>1, <1>2, EnclosingIsOuter
<1>4. Follows(cond', Top.text, Top.at + 1, Top.conds, Len(cond))
  BY <1>1, <1>3, ArmFollows DEF Innermost
<1>5. Len(cond) - 1 \in Nat /\ Top.conds <= Len(cond) - 1
  BY <1>1, <1>2
<1>6. Agree(cond, cond', Top.conds)
  BY <1>1, <1>5, AgreeBelow
<1> QED
  BY <1>1, <1>4, <1>6, DirectiveGoesOn

(* Where an arm begins there is a conditional, with no .else unless it is  *)
(* not being assembled anyway.                                             *)
LEMMA WhatArmsFind ==
    ASSUME IInv, Nest, Reading, Stmt.op \in Arms
    PROVE  /\ cond # <<>> /\ Len(cond) \in Nat \ {0}
           /\ EnclosingActive => ~Innermost.seenElse
           /\ ~EnclosingActive => Innermost.taken /\ ~Innermost.active
<1>1. /\ Len(Top.text) \in Nat /\ NestsIn(Top.text, 1, Len(Top.text))
      /\ Top.at \in 1 .. Len(Top.text)
      /\ Top.conds \in Nat /\ Len(cond) \in Nat /\ Top.conds <= Len(cond)
      /\ Follows(cond, Top.text, Top.at, Top.conds, Len(cond))
      /\ Stmt = Top.text[Top.at]
  BY WhatFollows
<1>2. /\ Top.conds < Len(cond)
      /\ Outer(cond, Len(cond)) => ~cond[Len(cond)].seenElse
      /\ ~Outer(cond, Len(cond)) => cond[Len(cond)].taken /\ ~cond[Len(cond)].active
  BY <1>1, ArmFollowsNoElse
<1>3. EnclosingActive <=> Outer(cond, Len(cond))
  BY <1>1, <1>2, EnclosingIsOuter
<1>4. Len(cond) \in Nat \ {0}
  BY <1>1, <1>2
<1>5. cond # <<>>
  BY <1>4, Len(<<>>) = 0
<1> QED
  BY <1>2, <1>3, <1>4, <1>5 DEF Innermost

(* Replacing the innermost conditional leaves those around it.             *)
LEMMA SetTopAgrees ==
    ASSUME IInv, cond # <<>>, NEW c \in Cond, SetTop(c)
    PROVE  /\ Len(cond') = Len(cond) /\ cond'[Len(cond)] = c
           /\ Agree(cond, cond', Len(cond) - 1)
BY IInvParts, InnermostIsCond, LenProperties, ExceptSeq DEF SetTop, Agree

(* .elseif turns to the arm its text turns to there.                       *)
LEMMA ElseIfGoesOn ==
    ASSUME IInv, Nest, DirElseIf
    PROVE  GoesOn
<1>0. /\ Reading /\ GoOn /\ exiting' = exiting /\ ended' = ended
      /\ Stmt.op \in {"elseif", "elif"} /\ Stmt.op \in Arms
  BY DEF DirElseIf, Looks, flags, Arms
<1>1. /\ cond # <<>> /\ Len(cond) \in Nat \ {0}
      /\ EnclosingActive => ~Innermost.seenElse
      /\ ~EnclosingActive => Innermost.taken /\ ~Innermost.active
  BY <1>0, WhatArmsFind
<1>2. Innermost \in Cond /\ EnclosingActive \in BOOLEAN /\ Value \in BOOLEAN
  BY <1>1, IInvParts, InnermostIsCond, CondFlagsAreBoolean DEF Value
<1>3. Holds(Stmt) <=> Value
  BY <1>0 DEF Holds, Value
<1>4. CASE Innermost.seenElse
  BY <1>0, <1>1, <1>4, ArmGoesOn DEF DirElseIf, Agree, Innermost
<1>5. CASE ~Innermost.seenElse /\ Innermost.taken
  <2> DEFINE c == [Innermost EXCEPT !.active = FALSE]
  <2>1. c \in Cond /\ ~c.active /\ c.taken /\ ~c.seenElse
    BY <1>2, <1>5 DEF Cond
  <2>2. SetTop(c)
    BY <1>1, <1>5 DEF DirElseIf
  <2> HIDE DEF c
  <2>3. /\ Len(cond') = Len(cond) /\ cond'[Len(cond)] = c
        /\ Agree(cond, cond', Len(cond) - 1)
    BY <1>1, <2>1, <2>2, SetTopAgrees
  <2>4. /\ cond'[Len(cond)].taken <=> Innermost.taken \/ Holds(Stmt)
        /\ cond'[Len(cond)].active <=> EnclosingActive /\ ~Innermost.taken /\ Holds(Stmt)
        /\ ~cond'[Len(cond)].seenElse
    BY <1>5, <2>1, <2>3
  <2> QED
    BY <1>0, <1>1, <2>3, <2>4, ArmGoesOn
<1>6. CASE ~Innermost.seenElse /\ ~Innermost.taken
  <2>0. EnclosingActive
    BY <1>1, <1>6
  <2> DEFINE c == [Innermost EXCEPT !.active = EnclosingActive /\ Value,
                                    !.taken = EnclosingActive /\ Value]
  <2>1. (EnclosingActive /\ Value) \in BOOLEAN
    BY <1>2
  <2>2. c \in Cond /\ c.active = (EnclosingActive /\ Value) /\ c.taken = (EnclosingActive /\ Value)
        /\ ~c.seenElse
    BY <1>2, <1>6, <2>1 DEF Cond
  <2>3. SetTop(c)
    BY <1>1, <1>6 DEF DirElseIf
  <2> HIDE DEF c
  <2>4. /\ Len(cond') = Len(cond) /\ cond'[Len(cond)] = c
        /\ Agree(cond, cond', Len(cond) - 1)
    BY <1>1, <2>2, <2>3, SetTopAgrees
  <2>5. /\ cond'[Len(cond)].taken <=> Innermost.taken \/ Holds(Stmt)
        /\ cond'[Len(cond)].active <=> EnclosingActive /\ ~Innermost.taken /\ Holds(Stmt)
        /\ ~cond'[Len(cond)].seenElse
    BY <1>3, <1>6, <2>0, <2>2, <2>4
  <2> QED
    BY <1>0, <1>1, <2>4, <2>5, ArmGoesOn
<1> QED
  BY <1>4, <1>5, <1>6

(* So does .else.                                                          *)
LEMMA ElseGoesOn ==
    ASSUME IInv, Nest, DirElse
    PROVE  GoesOn
<1>0. /\ Reading /\ GoOn /\ exiting' = exiting /\ ended' = ended
      /\ Stmt.op = "else" /\ Stmt.op \in Arms /\ Holds(Stmt)
  BY DEF DirElse, Looks, flags, Arms, Holds
<1>1. /\ cond # <<>> /\ Len(cond) \in Nat \ {0}
      /\ EnclosingActive => ~Innermost.seenElse
      /\ ~EnclosingActive => Innermost.taken /\ ~Innermost.active
  BY <1>0, WhatArmsFind
<1>2. Innermost \in Cond /\ EnclosingActive \in BOOLEAN
  BY <1>1, IInvParts, InnermostIsCond, CondFlagsAreBoolean
<1>4. CASE Innermost.seenElse
  BY <1>0, <1>1, <1>4, ArmGoesOn DEF DirElse, Agree, Innermost
<1>5. CASE ~Innermost.seenElse
  <2> DEFINE c == [active |-> EnclosingActive /\ ~Innermost.taken, taken |-> TRUE,
                   seenElse |-> TRUE]
  <2>1. c \in Cond /\ c.active = (EnclosingActive /\ ~Innermost.taken) /\ c.taken
    BY <1>2 DEF Cond
  <2>2. SetTop(c)
    BY <1>1, <1>5 DEF DirElse
  <2> HIDE DEF c
  <2>3. /\ Len(cond') = Len(cond) /\ cond'[Len(cond)] = c
        /\ Agree(cond, cond', Len(cond) - 1)
    BY <1>1, <2>1, <2>2, SetTopAgrees
  <2>4. /\ cond'[Len(cond)].taken <=> Innermost.taken \/ Holds(Stmt)
        /\ cond'[Len(cond)].active <=> EnclosingActive /\ ~Innermost.taken /\ Holds(Stmt)
    BY <1>0, <2>1, <2>3
  <2> QED
    BY <1>0, <1>1, <2>3, <2>4, ArmGoesOn
<1> QED
  BY <1>4, <1>5

(* A rewritten statement is read at some depth of expansions.              *)
LEMMA RewrittenIsDeep ==
    ASSUME IInv, Reading, Top.kind = "define"
    PROVE  macroDepth # 0
<1>1. /\ stack \in Seq(Frame) /\ Len(stack) \in Nat \ {0} /\ Top = stack[Len(stack)]
  BY IInvParts, WhatIsRead DEF DepthsOK, Top
<1>2. Len(stack) \in FramesOf(stack, Deep)
  BY <1>1 DEF FramesOf, Deep
<1>3. FramesOf(stack, Deep) # {} /\ IsFiniteSet(FramesOf(stack, Deep))
  BY <1>1, <1>2, FramesCount
<1>4. Cardinality(FramesOf(stack, Deep)) # 0
  BY <1>3, FS_EmptySet
<1> QED
  BY <1>4 DEF IInv, DepthsCount

(* The statements that only go on, or end their text.                      *)
LEMMA QuietStatementsGoOn ==
    ASSUME IInv, AllReadable, Nest,
           StrayEnd \/ ExitMacro \/ Skip \/ PurgeMacro \/ End \/ Code
    PROVE  GoesOn
<1>1. Reading /\ cond' = cond /\ (exiting \/ ended) \in BOOLEAN
  BY DEF StrayEnd, ExitMacro, Skip, PurgeMacro, End, Code, Walks, IInv, TypeOK
<1>2. PICK going \in BOOLEAN : going = (exiting \/ ended)
  BY <1>1
<1>3. CASE StrayEnd
  BY <1>1, <1>3, QuietGoesOn DEF StrayEnd, Quiet, Opening, Arms
<1>4. CASE ExitMacro
  BY <1>1, <1>4, RewrittenIsDeep, QuietGoesOn DEF ExitMacro, Quiet, Opening, Arms
<1>5. CASE End
  BY <1>1, <1>5, QuietGoesOn DEF End, Quiet, Opening, Arms
<1>6. CASE Skip \/ PurgeMacro \/ Code
  <2>a. GoOn /\ exiting' = exiting /\ ended' = ended
    BY <1>6 DEF Skip, PurgeMacro, Code, flags
  <2>1. GoTo(Top.at + 1, going) /\ (going => exiting' \/ ended')
    BY <1>2, <2>a DEF GoOn
  <2>2. CASE Skip
    <3>1. Stmt.op \notin LookedAt
      BY <2>2 DEF Skip
    <3>2. /\ OnlyLookedAt(Top.text) /\ Top.at \in 1 .. Len(Top.text)
          /\ Stmt = Top.text[Top.at]
      BY <1>1, WhatFollows DEF Readable
    <3>3. Stmt.op \in Opening \cup Arms => Stmt.op \in LookedAt
      BY <3>2 DEF OnlyLookedAt
    <3>4. Quiet(Stmt.op)
      BY <3>1, <3>3 DEF Quiet, LookedAt
    <3> QED
      BY <1>1, <2>1, <3>4, QuietGoesOn
  <2>3. CASE PurgeMacro \/ Code
    <3>1. Quiet(Stmt.op)
      BY <2>3 DEF PurgeMacro, Code, IsUnknown, Quiet, Opening, Arms
    <3> QED
      BY <1>1, <2>1, <3>1, QuietGoesOn
  <2> QED
    BY <1>6, <2>2, <2>3
<1> QED
  BY <1>3, <1>4, <1>5, <1>6

-----------------------------------------------------------------------------
(* What a block leads to.                                                  *)
LEMMA BlockAhead ==
    ASSUME IInv, Nest, Reading, Stmt.op \in BlockStarts
    PROVE  /\ BlockEnds(Top.text, Top.at, prog.oneCloser) # {}
           /\ \A end \in BlockEnds(Top.text, Top.at, prog.oneCloser) :
                 /\ end \in 1 .. Len(Top.text) /\ end + 1 \in 1 .. Len(Top.text) + 1
                 /\ Quiet(Top.text[end].op)
                 /\ SameNesting(Top.text, Top.at, end + 1)
                 /\ SameNesting(Top.text, Top.at, end)
                 /\ Readable(Body(Top.text, Top.at, end))
                 /\ Body(Top.text, Top.at, end) \in Text
<1>1. /\ Len(Top.text) \in Nat /\ NestsIn(Top.text, 1, Len(Top.text))
      /\ Top.at \in 1 .. Len(Top.text) /\ Top.text \in Text
      /\ Readable(Top.text) /\ Stmt = Top.text[Top.at]
  BY WhatFollows
<1>2. PICK e : BlockNests(Top.text, Top.at, e, prog.oneCloser)
  BY <1>1, NestsWellMeans DEF Readable
<1>3. /\ e \in BlockEnds(Top.text, Top.at, prog.oneCloser)
      /\ NestsIn(Top.text, Top.at + 1, e - 1)
  BY <1>2 DEF BlockNests
<1>4. ASSUME NEW end \in BlockEnds(Top.text, Top.at, prog.oneCloser)
      PROVE  /\ end \in 1 .. Len(Top.text) /\ end + 1 \in 1 .. Len(Top.text) + 1
             /\ Quiet(Top.text[end].op)
             /\ SameNesting(Top.text, Top.at, end + 1)
             /\ SameNesting(Top.text, Top.at, end)
             /\ Readable(Body(Top.text, Top.at, end))
             /\ Body(Top.text, Top.at, end) \in Text
  <2>1. Top.at \in Int
    BY <1>1
  <2>2. end = e
    BY <1>1, <1>3, <2>1, BlockEndsOnce
  <2>3. end \in Top.at + 1 .. Len(Top.text)
    BY BlockEndsMeans
  <2>4. end \in 1 .. Len(Top.text) /\ end + 1 \in 1 .. Len(Top.text) + 1
    BY <1>1, <2>3
  <2>5. Quiet(Top.text[Top.at].op) /\ Quiet(Top.text[end].op)
    BY <1>1, <2>1, BlockIsQuiet
  <2>6. SameNesting(Top.text, Top.at, end + 1)
    BY <1>1, <1>3, <2>2, <2>3, <2>5, BlockKeepsNesting
  <2>7. SameNesting(Top.text, end, end + 1)
    BY <1>1, <2>4, <2>5, QuietKeepsNesting
  <2>8. SameNesting(Top.text, Top.at, end)
    BY <2>6, <2>7 DEF SameNesting
  <2>9. Readable(Body(Top.text, Top.at, end))
    BY <1>1, BodyIsReadable
  <2>10. Body(Top.text, Top.at, end) \in Text
    BY <1>1, 0 \in Nat, BlockTexts
  <2> QED
    BY <2>4, <2>5, <2>6, <2>8, <2>9, <2>10
<1> QED
  BY <1>3, <1>4

(* The text is read on after its block.                                    *)
LEMMA AfterBlockGoesOn ==
    ASSUME IInv, Nest, Reading, Stmt.op \in BlockStarts, cond' = cond,
           NEW end \in BlockEnds(Top.text, Top.at, prog.oneCloser), GoTo(end + 1, FALSE)
    PROVE  GoesOn
<1>1. /\ Len(Top.text) \in Nat /\ NestsIn(Top.text, 1, Len(Top.text))
      /\ Top.at \in 1 .. Len(Top.text) /\ Top.at \in 1 .. Len(Top.text) + 1
      /\ Top.conds \in Nat /\ Len(cond) \in Nat /\ Top.conds <= Len(cond)
      /\ Follows(cond, Top.text, Top.at, Top.conds, Len(cond))
  BY WhatFollows
<1>2. end + 1 \in 1 .. Len(Top.text) + 1 /\ SameNesting(Top.text, Top.at, end + 1)
  BY BlockAhead
<1>3. Agree(cond, cond, Len(cond)) /\ Agree(cond, cond, Top.conds)
  BY DEF Agree
<1>4. Follows(cond, Top.text, end + 1, Top.conds, Len(cond))
  BY <1>1, <1>2, <1>3, FollowsOn
<1>5. end + 1 \in Nat \ {0}
  BY <1>1, <1>2
<1> QED
  BY <1>1, <1>2, <1>3, <1>4, <1>5 DEF GoesOn

(* A block that nests has an end.                                          *)
LEMMA NoneUnterminated ==
    ASSUME IInv, Nest, Unterminated
    PROVE  FALSE
BY BlockAhead DEF Unterminated, Walks, BlockStarts

(* A definition is skipped, and what it defines is readable.               *)
LEMMA DefinitionGoesOn ==
    ASSUME IInv, Nest, DefineMacro
    PROVE  GoesOn /\ \A m \in DOMAIN macros' : Readable(macros'[m])
<1>1. Reading /\ Stmt.op \in BlockStarts /\ cond' = cond
  BY DEF DefineMacro, Walks, BlockStarts
<1>2. PICK end \in BlockEnds(Top.text, Top.at, prog.oneCloser) :
          /\ GoTo(end + 1, FALSE)
          /\ IF Stmt.arg \in DOMAIN macros
             THEN Report("macro defined twice") /\ UNCHANGED macros
             ELSE /\ macros' = [m \in DOMAIN macros \cup {Stmt.arg} |->
                                  IF m = Stmt.arg THEN Body(Top.text, Top.at, end)
                                  ELSE macros[m]]
                  /\ UNCHANGED errors
  BY DEF DefineMacro
<1>3. GoesOn
  BY <1>1, <1>2, AfterBlockGoesOn
<1>4. Readable(Body(Top.text, Top.at, end))
  BY <1>1, BlockAhead
<1>5. \A m \in DOMAIN macros : Readable(macros[m])
  BY DEF Nest
<1>6. \A m \in DOMAIN macros' : \/ macros'[m] = Body(Top.text, Top.at, end)
                                \/ m \in DOMAIN macros /\ macros'[m] = macros[m]
  BY <1>2
<1>7. ASSUME NEW m \in DOMAIN macros' PROVE Readable(macros'[m])
  BY <1>4, <1>5, <1>6
<1> QED
  BY <1>3, <1>7

(* Entering a text with the place of the statement that causes it is       *)
(* entering it.                                                            *)
LEMMA EntersHere ==
    ASSUME IInv, Reading, NEW text, NEW kind, stack' = Append(stack, Enter(text, kind))
    PROVE  Enters(text, kind, Top.at)
<1>1. /\ stack \in Seq(Frame) /\ Len(stack) \in Nat \ {0} /\ Depth = Len(stack)
      /\ Depth \in 1 .. Len(stack) /\ Top = stack[Depth] /\ Top \in Frame
  BY IInvParts, WhatIsRead DEF DepthsOK, Top
<1> DEFINE t == [stack EXCEPT ![Depth] = Top]
<1>2. /\ t \in Seq(Frame) /\ Len(t) = Len(stack)
      /\ \A d \in 1 .. Len(stack) : t[d] = IF d = Depth THEN Top ELSE stack[d]
  BY <1>1, ExceptSeq
<1> HIDE DEF t
<1>3. t = stack
  BY <1>1, <1>2, SeqEqual
<1>4. [Top EXCEPT !.at = Top.at] = Top
  BY <1>1 DEF Frame
<1>5. [stack EXCEPT ![Depth].at = Top.at] = [stack EXCEPT ![Depth] = [Top EXCEPT !.at = Top.at]]
  BY <1>1 DEF Frame
<1>6. [stack EXCEPT ![Depth].at = Top.at] = stack
  BY <1>3, <1>4, <1>5 DEF t
<1> QED
  BY <1>6 DEF Enters

(* A statement that causes a readable text to be read.                     *)
LEMMA CausesReading ==
    ASSUME IInv, Nest, Reading, cond' = cond, Quiet(Stmt.op),
           NEW text \in Text, Readable(text), NEW kind \in Kinds, Enters(text, kind, Top.at)
    PROVE  ReadsAnother
BY WhatFollows, SameNestingAsItself DEF ReadsAnother

(* A macro is read where it is called, unless too many are being read.     *)
LEMMA CallGoesOn ==
    ASSUME IInv, Nest, ExpandMacro
    PROVE  GoesOn \/ ReadsAnother
<1>1. /\ Reading /\ cond' = cond /\ exiting' = exiting /\ ended' = ended
      /\ Stmt.op = "call" /\ Quiet(Stmt.op) /\ Stmt.arg \in DOMAIN macros
      /\ Expand(macros[Stmt.arg], "macro", Top.at)
  BY DEF ExpandMacro, Walks, flags, Quiet, Opening, Arms
<1>2. macros[Stmt.arg] \in Text /\ Readable(macros[Stmt.arg])
  BY <1>1 DEF IInv, TypeOK, Nest
<1>3. CASE macroDepth >= MaxMacroDepth
  <2>1. StopsAfter("macro", exiting, ended) \in BOOLEAN
    BY DEF StopsAfter
  <2>2. PICK stop \in BOOLEAN : stop = StopsAfter("macro", exiting, ended)
    BY <2>1
  <2>3. GoTo(Top.at + 1, stop)
    BY <1>1, <1>3, <2>2 DEF Expand
  <2>4. stop => exiting' \/ ended'
    BY <1>1, <2>2 DEF StopsAfter
  <2> QED
    BY <1>1, <2>3, <2>4, QuietGoesOn
<1>4. CASE ~(macroDepth >= MaxMacroDepth)
  BY <1>1, <1>2, <1>4, CausesReading DEF Expand, Enters, Kinds
<1> QED
  BY <1>3, <1>4

(* So are the copies of a repeated block.                                  *)
LEMMA RepeatGoesOn ==
    ASSUME IInv, Nest, ExpandRepeat
    PROVE  GoesOn \/ ReadsAnother
<1>1. /\ Reading /\ cond' = cond /\ exiting' = exiting /\ ended' = ended
      /\ Stmt.op \in BlockStarts
  BY DEF ExpandRepeat, Walks, flags, BlockStarts
<1>2. PICK end \in BlockEnds(Top.text, Top.at, prog.oneCloser) :
          Expand(Copies(Body(Top.text, Top.at, end), Stmt.arg), "repeat", end)
  BY DEF ExpandRepeat
<1>3. /\ end \in 1 .. Len(Top.text)
      /\ Quiet(Top.text[end].op)
      /\ SameNesting(Top.text, Top.at, end)
      /\ Readable(Body(Top.text, Top.at, end))
      /\ Body(Top.text, Top.at, end) \in Text
  BY <1>1, BlockAhead
<1>4. Stmt.arg \in Nat
  BY <1>1, IInvParts, WhatIsRead DEF Statement
<1>5. PICK copies : copies = Copies(Body(Top.text, Top.at, end), Stmt.arg)
  OBVIOUS
<1>6. Readable(copies)
  BY <1>3, <1>4, <1>5, CopiesAreReadable
<1>7. copies \in Text
  BY <1>1, <1>4, <1>5, IInvParts, WhatIsRead, BlockTexts
<1>8. Expand(copies, "repeat", end)
  BY <1>2, <1>5
<1>9. CASE macroDepth >= MaxMacroDepth
  BY <1>1, <1>8, <1>9, AfterBlockGoesOn DEF Expand, StopsAfter
<1>10. CASE ~(macroDepth >= MaxMacroDepth)
  <2>1. Enters(copies, "repeat", end)
    BY <1>8, <1>10 DEF Expand, Enters
  <2>2. "repeat" \in Kinds
    BY DEF Kinds
  <2> QED
    BY <1>1, <1>3, <1>6, <1>7, <2>1, <2>2 DEF ReadsAnother
<1> QED
  BY <1>9, <1>10

(* A file is read where it is included, unless there is none.              *)
LEMMA IncludeGoesOn ==
    ASSUME IInv, AllReadable, Nest, Include
    PROVE  GoesOn \/ ReadsAnother
<1>1. /\ Reading /\ cond' = cond /\ exiting' = exiting /\ ended' = ended
      /\ Quiet(Stmt.op) /\ (exiting \/ ended) \in BOOLEAN
  BY DEF Include, Walks, flags, Quiet, Opening, Arms, IInv, TypeOK
<1>2. CASE includeDepth > MaxIncludeDepth \/ Stmt.arg \notin DOMAIN prog.files
  <2>1. PICK stop \in BOOLEAN : stop = (exiting \/ ended)
    BY <1>1
  <2>2. GoOn
    BY <1>2 DEF Include
  <2>3. GoTo(Top.at + 1, stop) /\ (stop => exiting' \/ ended')
    BY <1>1, <2>1, <2>2 DEF GoOn
  <2> QED
    BY <1>1, <2>3, QuietGoesOn
<1>3. CASE ~(includeDepth > MaxIncludeDepth \/ Stmt.arg \notin DOMAIN prog.files)
  <2>1. stack' = Append(stack, Enter(prog.files[Stmt.arg], "include"))
    BY <1>3 DEF Include
  <2>2. Enters(prog.files[Stmt.arg], "include", Top.at)
    BY <1>1, <2>1, EntersHere
  <2>a. prog.files \in Seq(Text)
    BY DEF IInv, TypeOK, Program
  <2>3. prog.files[Stmt.arg] \in Text
    BY <1>3, <2>a
  <2>4. Readable(prog.files[Stmt.arg])
    BY <1>3 DEF AllReadable, TextsOf
  <2>5. "include" \in Kinds
    BY DEF Kinds
  <2> QED
    BY <1>1, <2>2, <2>3, <2>4, <2>5, CausesReading
<1> QED
  BY <1>2, <1>3

(* What a statement is rewritten to is read where it stands, unless it is  *)
(* rewritten too often.                                                    *)
LEMMA RewriteGoesOn ==
    ASSUME IInv, AllReadable, Nest, ApplyDefine, "define depth" \notin errors'
    PROVE  ReadsAnother
<1>1. /\ Reading /\ cond' = cond /\ Quiet(Stmt.op) /\ Stmt.arg \in DOMAIN prog.pieces
  BY DEF ApplyDefine, IsRewritten, Quiet, Opening, Arms
<1>2. stack' = Append(stack, Enter(prog.pieces[Stmt.arg], "define"))
  BY DEF ApplyDefine, Report
<1>3. Enters(prog.pieces[Stmt.arg], "define", Top.at)
  BY <1>1, <1>2, EntersHere
<1>a. prog.pieces \in Seq(Text)
  BY DEF IInv, TypeOK, Program
<1>b. Stmt.arg \in DOMAIN prog.pieces
  BY <1>1
<1>c. PICK pieces \in Seq(Text) : pieces = prog.pieces
  BY <1>a
<1>4. prog.pieces[Stmt.arg] \in Text
  BY LenProperties, <1>b, <1>c, ElementOfSeq
<1>5. Readable(prog.pieces[Stmt.arg])
  BY <1>1 DEF AllReadable, TextsOf
<1>6. "define" \in Kinds
  BY DEF Kinds
<1> QED
  BY <1>1, <1>3, <1>4, <1>5, <1>6, CausesReading

-----------------------------------------------------------------------------
(* The return from a text, and the steps together.                         *)

(* Errors stay, and so does the program.                                   *)
LEMMA ErrorsStay ==
    ASSUME [Next]_vars
    PROVE  errors \subseteq errors' /\ prog' = prog
<1>1. CASE DefineMacro
  BY <1>1 DEF DefineMacro, Report
<1>2. CASE ExpandRepeat
  BY <1>2 DEF ExpandRepeat, Expand, Report
<1>3. CASE Leave
  BY <1>3 DEF Leave, Report
<1>4. CASE ApplyDefine \/ Unterminated \/ StrayEnd \/ ExitMacro
  BY <1>4 DEF ApplyDefine, Unterminated, StrayEnd, ExitMacro, Report
<1>5. CASE ExpandMacro
  BY <1>5 DEF ExpandMacro, Expand, Report
<1>6. CASE Skip \/ DirIf
  BY <1>6 DEF Skip, DirIf, Report, Evaluate, result
<1>7. CASE DirElseIf
  BY <1>7 DEF DirElseIf, Report, Evaluate
<1>8. CASE DirElse \/ DirEndIf
  BY <1>8 DEF DirElse, DirEndIf, Report
<1>9. CASE Include \/ PurgeMacro
  BY <1>9 DEF Include, PurgeMacro, Report
<1>10. CASE End \/ Code
  BY <1>10 DEF End, Code, Report, result
<1>11. CASE NextInput \/ Stop \/ UNCHANGED vars
  BY <1>11 DEF NextInput, Stop, result, vars
<1> QED
  BY <1>1, <1>2, <1>3, <1>4, <1>5, <1>6, <1>7, <1>8, <1>9, <1>10, <1>11 DEF Next

(* Only definitions and .purgem touch the macros, and .purgem adds none.   *)
LEMMA MacrosStayReadable ==
    ASSUME IInv, Nest, [Next]_vars, ~DefineMacro
    PROVE  \A m \in DOMAIN macros' : Readable(macros'[m])
<1>1. \A m \in DOMAIN macros : Readable(macros[m])
  BY DEF Nest
<1>2. CASE PurgeMacro
  BY <1>1, <1>2 DEF PurgeMacro
<1>3. CASE ~PurgeMacro
  <2>1. macros' = macros
    BY <1>3 DEF Next, ApplyDefine, Unterminated, ExpandRepeat, StrayEnd, ExitMacro,
                ExpandMacro, Skip, DirIf, DirElseIf, DirElse, DirEndIf, Include, End, Code,
                Leave, NextInput, Stop, vars
  <2> QED
    BY <1>1, <2>1
<1> QED
  BY <1>2, <1>3

(* A statement read keeps the walk with the texts.                         *)
LEMMA StatementKeepsNest ==
    ASSUME IInv, AllReadable, Nest, [Next]_vars, Reading, vars' # vars,
           "define depth" \notin errors'
    PROVE  /\ StackFollows(cond', Len(cond'), stack', prog.oneCloser)
           /\ \A d \in 1 .. Len(stack') : OnlyLookedAt(stack'[d].text)
           /\ RewrittenStops'
           /\ \A m \in DOMAIN macros' : Readable(macros'[m])
<1>1. ~Leave /\ ~NextInput /\ ~Stop
  BY DEF Leave, NextInput, Stop, Finished, Reading
<1>2. ~Unterminated
  BY NoneUnterminated
<1>3. GoesOn \/ ReadsAnother
  BY <1>1, <1>2, RewriteGoesOn, DefinitionGoesOn, RepeatGoesOn, CallGoesOn,
     QuietStatementsGoOn, IfGoesOn, ElseIfGoesOn, ElseGoesOn, EndIfGoesOn, IncludeGoesOn
     DEF Next
<1>4. \A m \in DOMAIN macros' : Readable(macros'[m])
  BY DefinitionGoesOn, MacrosStayReadable
<1> QED
  BY <1>3, <1>4, GoingOnKeepsNest, ReadingAnotherKeepsNest

(* What a return does to the texts below.                                  *)
LEMMA LeaveSetsPlace ==
    ASSUME IInv, Leave
    PROVE  /\ Len(stack') \in Nat /\ Len(stack) = Len(stack') + 1
           /\ \A d \in 1 .. Len(stack') - 1 : stack'[d] = stack[d]
           /\ \A d \in 1 .. Len(stack') :
                 SameText(stack[d], stack'[d]) /\ stack'[d].kind = stack[d].kind
           /\ Len(stack') # 0 =>
                /\ stack'[Len(stack')].at = stack[Len(stack')].at + 1
                /\ stack'[Len(stack')].stopped = StopsAfter(Top.kind, exiting', ended)
<1> DEFINE back == SubSeq(stack, 1, Depth - 1)
<1>1. /\ stack \in Seq(Frame) /\ stack # <<>> /\ Len(stack) \in Nat \ {0}
      /\ Depth = Len(stack)
  BY EmptySeq DEF Leave, IInv, TypeOK, Depth
<1>2. /\ back \in Seq(Frame) /\ Len(back) = Len(stack) - 1
      /\ \A d \in 1 .. Len(back) : back[d] = stack[d]
  BY <1>1, PrefixOfSeq
<1>3. stack' = IF back = <<>> THEN back
               ELSE [back EXCEPT
                       ![Depth - 1].at = @ + 1,
                       ![Depth - 1].stopped = StopsAfter(Top.kind, exiting', ended)]
  BY DEF Leave
<1> HIDE DEF back
<1>4. CASE back = <<>>
  <2>1. Len(back) = 0
    BY <1>2, <1>4
  <2>2. stack' = back
    BY <1>3, <1>4
  <2>3. Len(stack') = 0
    BY <2>1, <2>2
  <2>4. PICK n \in Nat : n = Len(stack)
    BY <1>1
  <2>5. n - 1 = 0
    BY <1>2, <2>1, <2>4
  <2>6. n = 1
    BY <2>5
  <2> QED
    BY <2>3, <2>4, <2>6
<1>5. CASE back # <<>>
  <2>1. Len(back) \in Nat \ {0} /\ Depth - 1 = Len(back) /\ Len(back) \in 1 .. Len(back)
    BY <1>1, <1>2, <1>5, EmptySeq
  <2>2. back[Len(back)] \in Frame /\ back[Len(back)] = stack[Len(back)]
    BY <1>2, <2>1, ElementOfSeq
  <2> DEFINE stop == StopsAfter(Top.kind, exiting', ended)
             f == [back[Len(back)] EXCEPT !.at = @ + 1, !.stopped = stop]
  <2>3. stop \in BOOLEAN
    BY DEF StopsAfter
  <2>4. stack' = [back EXCEPT ![Len(back)].at = @ + 1, ![Len(back)].stopped = stop]
    BY <1>3, <1>5, <2>1
  <2> HIDE DEF stop
  <2>5. stack' = [back EXCEPT ![Len(back)] = f]
    BY <2>2, <2>4 DEF Frame
  <2>6. f \in Frame /\ f.kind = back[Len(back)].kind
    BY <2>2, <2>3, MovedFrame
  <2>7. f.at = back[Len(back)].at + 1 /\ f.stopped = stop /\ SameText(back[Len(back)], f)
    BY <2>2 DEF Frame, SameText
  <2> HIDE DEF f
  <2>8. /\ Len(stack') = Len(back) /\ stack'[Len(back)] = f
        /\ OnlyTopDiffers(back, stack')
    BY <1>2, <2>1, <2>5, <2>6, <2>7, PlaceIsSet
  <2>9. \A d \in 1 .. Len(stack') - 1 : stack'[d] = stack[d]
    BY <1>2, <2>1, <2>8 DEF OnlyTopDiffers
  <2>10. SameText(stack[Len(stack')], stack'[Len(stack')])
         /\ stack'[Len(stack')].kind = stack[Len(stack')].kind
    BY <2>2, <2>6, <2>7, <2>8
  <2>11. ASSUME NEW d \in 1 .. Len(stack')
         PROVE  SameText(stack[d], stack'[d]) /\ stack'[d].kind = stack[d].kind
    <3>1. CASE d = Len(stack')
      BY <2>10, <3>1
    <3>2. CASE d # Len(stack')
      BY <2>1, <2>8, <2>9, <3>2 DEF SameText
    <3> QED
      BY <3>1, <3>2
  <2>12. Len(stack') \in Nat /\ Len(stack) = Len(stack') + 1
    BY <1>1, <1>2, <2>1, <2>8
  <2>13. /\ stack'[Len(stack')].at = stack[Len(stack')].at + 1
         /\ stack'[Len(stack')].stopped = StopsAfter(Top.kind, exiting', ended)
    BY <2>2, <2>7, <2>8 DEF stop
  <2> QED
    BY <2>9, <2>11, <2>12, <2>13
<1> QED
  BY <1>4, <1>5

(* The return takes the conditionals the text has left open, or leaves     *)
(* them to a text that ends as well.                                       *)
LEMMA ReturnKeepsNest ==
    ASSUME IInv, Nest, Leave
    PROVE  /\ StackFollows(cond', Len(cond'), stack', prog.oneCloser)
           /\ \A d \in 1 .. Len(stack') : OnlyLookedAt(stack'[d].text)
           /\ RewrittenStops'
<1>1. /\ Len(stack') \in Nat /\ Len(stack) = Len(stack') + 1
      /\ \A d \in 1 .. Len(stack') - 1 : stack'[d] = stack[d]
      /\ \A d \in 1 .. Len(stack') :
            SameText(stack[d], stack'[d]) /\ stack'[d].kind = stack[d].kind
      /\ Len(stack') # 0 =>
           /\ stack'[Len(stack')].at = stack[Len(stack')].at + 1
           /\ stack'[Len(stack')].stopped = StopsAfter(Top.kind, exiting', ended)
  BY LeaveSetsPlace
<1>2. /\ stack \in Seq(Frame) /\ cond \in Seq(Cond) /\ Len(cond) \in Nat
      /\ Top = stack[Len(stack)] /\ ~HasStatement(Top) /\ ended' = ended
      /\ stack # <<>>
  BY LenProperties DEF IInv, TypeOK, Cond, Leave, Top, Depth
<1>3. Len(stack) \in 1 .. Len(stack) /\ Len(stack) # 0
  BY <1>1
<1>4. StackFollows(cond, Len(cond), stack, prog.oneCloser)
  BY DEF Nest
<1>5. /\ Top.conds \in 0 .. Len(cond) /\ NestsWell(Top.text, prog.oneCloser)
      /\ Len(Top.text) \in Nat /\ Reads(cond, Top, Len(cond))
  BY <1>2, <1>3, <1>4 DEF StackFollows
<1>7. ~Top.stopped => Top.conds = Len(cond)
  <2> SUFFICES ASSUME ~Top.stopped PROVE Top.conds = Len(cond)
    OBVIOUS
  <2>1. Top.at \in 1 .. Len(Top.text) + 1 /\ Follows(cond, Top.text, Top.at, Top.conds, Len(cond))
    BY <1>5 DEF Reads
  <2>2. Top.at = Len(Top.text) + 1
    BY <1>2, <1>5, <2>1 DEF HasStatement
  <2>3. Top.at - 1 = Len(Top.text)
    BY <1>5, <2>2
  <2>4. Len(cond) = Top.conds + Opened(Top.text, Len(Top.text))
    BY <2>1, <2>3 DEF Follows
  <2>5. Opened(Top.text, Len(Top.text)) = 0
    BY <1>5 DEF NestsWell, NestsIn, Opened
  <2> QED
    BY <1>2, <1>5, <2>4, <2>5
<1>8. OwnConds(Top) \in 0 .. Len(cond) /\ OwnConds(Top) \in Nat /\ Top.conds <= OwnConds(Top)
      /\ Top.conds \in Nat /\ Top.conds <= Len(cond)
  BY <1>2, <1>5 DEF OwnConds
<1>9. /\ Len(cond') = OwnConds(Top) /\ Agree(cond, cond', OwnConds(Top))
  <2>1. cond' = IF Len(cond) > OwnConds(Top) THEN SubSeq(cond, 1, OwnConds(Top)) ELSE cond
    BY DEF Leave
  <2>2. CASE Len(cond) > OwnConds(Top)
    BY <1>2, <1>8, <2>1, <2>2, PrefixOfSeq DEF Agree
  <2>3. CASE ~(Len(cond) > OwnConds(Top))
    BY <1>2, <1>8, <2>1, <2>3 DEF Agree
  <2> QED
    BY <2>2, <2>3
<1>10. Agree(cond, cond', Top.conds) /\ Top.conds <= Len(cond') /\ Len(cond') \in Nat
  BY <1>8, <1>9, AgreeBelow
<1>11. Len(cond') = Top.conds \/ (Len(stack') # 0 /\ stack'[Len(stack')].stopped)
  <2>1. CASE Top.kind # "define" \/ ~Top.stopped
    BY <1>7, <1>9, <2>1 DEF OwnConds
  <2>2. CASE Top.kind = "define" /\ Top.stopped
    <3>1. exiting \/ ended
      BY <1>2, <2>2 DEF Nest, RewrittenStops
    <3>2. exiting' = exiting
      BY <2>2 DEF Leave, IsExpansion, IInv, TypeOK
    <3>3. StopsAfter(Top.kind, exiting', ended)
      BY <2>2, <3>1, <3>2 DEF StopsAfter
    <3>4. Len(stack) # 1
      BY <1>2, <1>3, <2>2 DEF IInv, InputIsOutermost
    <3>5. Len(stack') # 0
      BY <1>1, <3>4
    <3> QED
      BY <1>1, <3>3, <3>5
  <2> QED
    BY <2>1, <2>2
<1>12. Len(stack') # 0 => /\ SameText(stack[Len(stack')], stack'[Len(stack')])
                          /\ stack'[Len(stack')].at = stack[Len(stack')].at + 1
  BY <1>1
<1>13. StackFollows(cond', Len(cond'), stack', prog.oneCloser)
  BY <1>1, <1>2, <1>4, <1>10, <1>11, <1>12, StackReturns
<1>14. ASSUME NEW d \in 1 .. Len(stack')
       PROVE  OnlyLookedAt(stack'[d].text)
  BY <1>1 DEF SameText, Nest
<1>15. RewrittenStops'
  <2> SUFFICES ASSUME stack' # <<>>, stack'[Len(stack')].stopped
               PROVE  exiting' \/ ended'
    BY DEF RewrittenStops, Top, Depth
  <2>1. Len(stack') # 0
    BY <1>1, <1>12, LeaveReturns
  <2>2. StopsAfter(Top.kind, exiting', ended)
    BY <1>1, <2>1
  <2> QED
    BY <1>2, <2>2 DEF StopsAfter
<1> QED
  BY <1>13, <1>14, <1>15

(* An input is read with nothing around it.                                *)
LEMMA InputFollows ==
    ASSUME NEW vs, NEW text \in Text, Readable(text), NEW st,
           st = <<[text |-> text, at |-> 1, kind |-> "input", conds |-> 0, stopped |-> FALSE]>>
    PROVE  /\ StackFollows(vs, 0, st, prog.oneCloser)
           /\ \A d \in 1 .. Len(st) : OnlyLookedAt(st[d].text)
           /\ Len(st) = 1 /\ ~st[1].stopped
<1>1. /\ Len(st) = 1 /\ st[1].text = text /\ st[1].at = 1 /\ st[1].conds = 0
      /\ ~st[1].stopped
  OBVIOUS
<1>2. NestsWell(text, prog.oneCloser) /\ OnlyLookedAt(text) /\ Len(text) \in Nat
  BY LenProperties DEF Readable, Text
<1>3. StackFollows(vs, 0, st, prog.oneCloser)
  BY <1>1, <1>2, StackStarts
<1>4. ASSUME NEW d \in 1 .. Len(st) PROVE OnlyLookedAt(st[d].text)
  BY <1>1, <1>2
<1> QED
  BY <1>1, <1>3, <1>4

(* So is the next.                                                         *)
LEMMA NextInputKeepsNest ==
    ASSUME IInv, AllReadable, Nest, NextInput
    PROVE  /\ StackFollows(cond', Len(cond'), stack', prog.oneCloser)
           /\ \A d \in 1 .. Len(stack') : OnlyLookedAt(stack'[d].text)
           /\ RewrittenStops'
<1>1. /\ prog.inputs \in Seq(Text) /\ Len(prog.inputs) \in Nat /\ input \in 1 .. Len(prog.inputs)
  BY LenProperties DEF IInv, TypeOK, Program
<1>2. input + 1 \in 1 .. Len(prog.inputs)
  BY <1>1 DEF NextInput
<1>3. PICK text \in Text : text = prog.inputs[input + 1]
  BY <1>1, <1>2, ElementOfSeq
<1>4. Readable(text)
  BY <1>1, <1>2, <1>3 DEF AllReadable, TextsOf
<1>5. Len(stack) = 0
  BY DEF NextInput
<1>6. Len(cond) = 0 /\ cond' = cond
  BY <1>5 DEF Nest, StackFollows, NextInput
<1>7. stack' = <<[text |-> text, at |-> 1, kind |-> "input", conds |-> 0, stopped |-> FALSE]>>
  BY <1>3, <1>6 DEF NextInput, Enter
<1>8. /\ StackFollows(cond, 0, stack', prog.oneCloser)
      /\ \A d \in 1 .. Len(stack') : OnlyLookedAt(stack'[d].text)
      /\ Len(stack') = 1 /\ ~stack'[1].stopped
  BY <1>4, <1>7, InputFollows
<1>9. RewrittenStops'
  BY <1>8 DEF RewrittenStops, Top, Depth
<1> QED
  BY <1>6, <1>8, <1>9

(* And the first.                                                          *)
LEMMA InitNests == Init => NestInv
<1> SUFFICES ASSUME Init, AllReadable PROVE Nest
  BY InitInv DEF NestInv
<1>1. prog.inputs \in Seq(Text) /\ prog.inputs # <<>> /\ IInv
  BY InitInv DEF IInv, TypeOK, Program
<1>2. 1 \in 1 .. Len(prog.inputs)
  BY <1>1, EmptySeq DEF IInv, TypeOK, Init
<1>3. PICK text \in Text : text = prog.inputs[1]
  BY <1>1, <1>2, ElementOfSeq
<1>4. Readable(text)
  BY <1>1, <1>2, <1>3 DEF AllReadable, TextsOf
<1>5. /\ stack = <<[text |-> text, at |-> 1, kind |-> "input", conds |-> 0, stopped |-> FALSE]>>
      /\ cond = <<>> /\ DOMAIN macros = {}
  BY <1>3 DEF Init
<1>6. Len(cond) = 0
  BY <1>5
<1>7. /\ StackFollows(cond, 0, stack, prog.oneCloser)
      /\ \A d \in 1 .. Len(stack) : OnlyLookedAt(stack[d].text)
      /\ Len(stack) = 1 /\ ~stack[1].stopped
  BY <1>4, <1>5, InputFollows
<1>8. RewrittenStops
  BY <1>7 DEF RewrittenStops, Top, Depth
<1> QED
  BY <1>5, <1>6, <1>7, <1>8 DEF Nest

(* Every step keeps the walk with the texts, as long as they are readable  *)
(* and nothing is rewritten too often.                                     *)
LEMMA NextKeepsNest == NestInv /\ [Next]_vars => NestInv'
<1> SUFFICES ASSUME NestInv, [Next]_vars PROVE NestInv'
  OBVIOUS
<1>1. IInv /\ IInv'
  BY NextKeepsInv DEF NestInv
<1>2. errors \subseteq errors' /\ prog' = prog
  BY ErrorsStay
<1>3. AllReadable' <=> AllReadable
  BY <1>2 DEF AllReadable, Readable
<1>4. ASSUME AllReadable, "define depth" \notin errors'
      PROVE  Nest'
  <2>1. Nest
    BY <1>2, <1>4 DEF NestInv
  <2>2. CASE UNCHANGED vars
    BY <2>1, <2>2, <1>2 DEF vars, flags, result, Nest, RewrittenStops, Readable, Top, Depth
  <2>3. CASE vars' # vars
    <3>1. /\ StackFollows(cond', Len(cond'), stack', prog.oneCloser)
          /\ \A d \in 1 .. Len(stack') : OnlyLookedAt(stack'[d].text)
          /\ RewrittenStops'
          /\ \A m \in DOMAIN macros' : Readable(macros'[m])
      <4>1. CASE Reading
        BY <1>1, <1>4, <2>1, <2>3, <4>1, StatementKeepsNest
      <4>2. CASE ~Reading
        <5>1. Leave \/ NextInput
          BY <2>3, <4>2, OnlyReturnsFollow
        <5>2. ~DefineMacro
          BY <4>2 DEF DefineMacro, Walks
        <5>3. \A m \in DOMAIN macros' : Readable(macros'[m])
          BY <1>1, <2>1, <5>2, MacrosStayReadable
        <5> QED
          BY <1>1, <1>4, <2>1, <5>1, <5>3, ReturnKeepsNest, NextInputKeepsNest
      <4> QED
        BY <4>1, <4>2
    <3>2. \A m \in DOMAIN macros' : NestsWell(macros'[m], prog'.oneCloser) /\ OnlyLookedAt(macros'[m])
      BY <1>2, <3>1 DEF Readable
    <3>3. StackFollows(cond', Len(cond'), stack', prog'.oneCloser)
      BY <1>2, <3>1
    <3> QED
      BY <3>1, <3>2, <3>3 DEF Nest, Readable
  <2> QED
    BY <2>2, <2>3
<1> QED
  BY <1>1, <1>3, <1>4 DEF NestInv

(* What the flags of the stack say of a statement is what the texts do.    *)
LEMMA NestReads ==
    ASSUME IInv, Nest, Reading
    PROVE  ReadsAsNested
<1>1. /\ Len(stack) \in Nat \ {0} /\ Depth = Len(stack) /\ Top = stack[Len(stack)]
      /\ Len(cond) \in Nat
  BY WhatFollows
<1>2. ~stack[Len(stack)].stopped
  BY <1>1 DEF Reading, HasStatement
<1>3. StackFollows(cond, Len(cond), stack, prog.oneCloser)
  BY DEF Nest
<1>4. Live(cond, Len(cond)) <=> \A d \in 1 .. Len(stack) : IsLive(stack[d].text, stack[d].at)
  BY <1>1, <1>2, <1>3, StackIsLive
<1>5. cond # <<>> <=> Len(cond) # 0
  BY EmptySeq DEF IInv, TypeOK
<1>6. CondActive <=> Live(cond, Len(cond))
  BY <1>5 DEF CondActive, Live
<1> QED
  BY <1>1, <1>4, <1>6 DEF ReadsAsNested

(* Only .if, .elseif and .else are looked at in a false branch: the texts  *)
(* use no other conditional directive.                                     *)
ConditionalsAreLookedAt == \A text \in TextsOf(prog) : OnlyLookedAt(text)

(* A statement is read as live exactly where its text and every text on    *)
(* the way to it say so, whatever files, expansions and rewritten          *)
(* statements these are and however they were left, in every program whose *)
(* texts nest and use no conditional directive a false branch does not     *)
(* look at (process, cond, assemble_file_in).                              *)
THEOREM ConditionalsFollowNesting == Spec /\ []ConditionalsAreLookedAt => []CondsFollowNesting
<1>1. NestInv /\ ConditionalsAreLookedAt => CondsFollowNesting
  <2> SUFFICES ASSUME NestInv, ConditionalsAreLookedAt, Reading, WellNested,
                      "define depth" \notin errors
               PROVE  ReadsAsNested
    BY DEF CondsFollowNesting
  <2>1. AllReadable
    BY DEF AllReadable, Readable, WellNested, ConditionalsAreLookedAt
  <2> QED
    BY <2>1, NestReads DEF NestInv
<1> QED
  BY <1>1, InitNests, NextKeepsNest, PTL DEF Spec

-----------------------------------------------------------------------------
(***************************************************************************)
(* No block or conditional is ended by another's directive.  A block in a  *)
(* false branch is not captured but walked over, so that its end is met as *)
(* a statement of its own; what keeps that end from being assembled is a   *)
(* flag that stays down until then, below those of all conditionals inside *)
(* the block.                                                              *)
(***************************************************************************)

NoneOverlooked(text) == \A k \in 1 .. Len(text) : text[k].op \notin Overlooked

Foreseen(text) == IsBracketed(text, prog.oneCloser) /\ NoneOverlooked(text)

AllForeseen == \A text \in TextsOf(prog) : Foreseen(text)

(* A flag is only up if those around it are.                               *)
OutersActive(vs) == \A c \in 1 .. Len(vs) : vs[c].active => AllActive(vs, c)

Closing ==
    /\ StackHasFlags(cond, Len(cond), stack, prog.oneCloser)
    /\ \A d \in 1 .. Len(stack) : NoneOverlooked(stack[d].text)
    /\ \A m \in DOMAIN macros : Foreseen(macros[m])
    /\ OutersActive(cond)

ClosingInv == IInv /\ (AllForeseen => Closing /\ errors \cap BlockErrors = {})

-----------------------------------------------------------------------------
(* What is captured of a foreseen text is foreseen.                        *)
LEMMA BodyIsForeseen ==
    ASSUME NEW text \in Text, Foreseen(text), NEW i \in 1 .. Len(text),
           text[i].op \in BlockStarts, NEW e \in i + 1 .. Len(text),
           EndsBracket(text, e, i, prog.oneCloser)
    PROVE  Foreseen(Body(text, i, e))
<1>1. text \in Seq(Statement) /\ Len(text) \in Nat
  BY LenProperties DEF Text
<1>2. IsBracketed(Body(text, i, e), prog.oneCloser)
  BY <1>1, BodyIsBracketed DEF Foreseen
<1>3. /\ Len(Body(text, i, e)) = e - i - 1
      /\ \A k \in 1 .. e - i - 1 : Body(text, i, e)[k] = text[k + i]
  BY <1>1, BodyShape
<1>4. ASSUME NEW k \in 1 .. Len(Body(text, i, e))
      PROVE  Body(text, i, e)[k] = text[k + i] /\ k + i \in 1 .. Len(text)
  BY <1>1, <1>3
<1>5. NoneOverlooked(Body(text, i, e))
  BY <1>4 DEF Foreseen, NoneOverlooked
<1> QED
  BY <1>2, <1>5 DEF Foreseen

(* So are the copies of it that a repeat reads.                            *)
LEMMA CopiesAreForeseen ==
    ASSUME NEW body \in Text, Foreseen(body), NEW n \in Nat
    PROVE  Foreseen(Copies(body, n))
<1>1. body \in Seq(Statement) /\ Len(body) \in Nat
  BY LenProperties DEF Text
<1>2. IsBracketed(Copies(body, n), prog.oneCloser)
  BY <1>1, CopiesAreBracketed DEF Foreseen
<1>3. /\ Len(Copies(body, n)) = n * Len(body)
      /\ \A r \in 0 .. n - 1 :
           SameOps(Copies(body, n), body, r * Len(body), r * Len(body) + 1,
                   r * Len(body) + Len(body))
  BY <1>1, CopiesShape
<1>4. ASSUME NEW k \in 1 .. Len(Copies(body, n))
      PROVE  \E m \in 1 .. Len(body) : Copies(body, n)[k].op = body[m].op
  <2>1. k \in 1 .. n * Len(body)
    BY <1>3
  <2>2. Len(body) # 0
    BY <1>1, <2>1
  <2>3. Len(body) \in Nat \ {0}
    BY <1>1, <2>2
  <2>4. PICK r \in 0 .. n - 1 : k \in r * Len(body) + 1 .. r * Len(body) + Len(body)
    BY <2>1, <2>3, InACopy
  <2>5. PICK p \in Nat : p = r * Len(body)
    BY <1>1
  <2>6. SameOps(Copies(body, n), body, p, p + 1, p + Len(body))
    BY <1>3, <2>5
  <2>7. k \in p + 1 .. p + Len(body)
    BY <2>4, <2>5
  <2>8. Copies(body, n)[k].op = body[k - p].op
    BY <2>6, <2>7 DEF SameOps
  <2>9. k - p \in 1 .. Len(body)
    BY <1>1, <2>5, <2>7
  <2> QED
    BY <2>8, <2>9
<1>5. NoneOverlooked(Copies(body, n))
  BY <1>4 DEF Foreseen, NoneOverlooked
<1> QED
  BY <1>2, <1>5 DEF Foreseen

(* Flags that stay have those around them up, and so has one more if the   *)
(* last of them is.                                                        *)
LEMMA OutersStayActive ==
    ASSUME NEW vs, NEW ws, Len(vs) \in Nat, OutersActive(vs), NEW m \in Nat, m <= Len(vs),
           Agree(vs, ws, m),
           \/ Len(ws) = m
           \/ Len(ws) = m + 1 /\ (ws[m + 1].active => (m # 0 => ws[m].active))
    PROVE  OutersActive(ws)
<1> SUFFICES ASSUME NEW c \in 1 .. Len(ws), ws[c].active PROVE AllActive(ws, c)
  BY DEF OutersActive
<1>1. ASSUME NEW b \in 1 .. m, ws[b].active PROVE AllActive(ws, b)
  BY <1>1 DEF Agree, OutersActive, AllActive
<1>2. CASE c \in 1 .. m
  BY <1>1, <1>2
<1>3. CASE c \notin 1 .. m
  <2>1. c = m + 1 /\ (m # 0 => ws[m].active)
    BY <1>3
  <2>2. m # 0 => AllActive(ws, m)
    <3> SUFFICES ASSUME m # 0 PROVE AllActive(ws, m)
      OBVIOUS
    <3>1. m \in 1 .. m /\ ws[m].active
      BY <2>1
    <3> QED
      BY <1>1, <3>1
  <2>3. ASSUME NEW a \in 1 .. c PROVE ws[a].active
    <3>1. CASE a = c
      BY <3>1
    <3>2. CASE a # c
      BY <2>1, <2>2, <3>2 DEF AllActive
    <3> QED
      BY <3>1, <3>2
  <2> QED
    BY <2>3 DEF AllActive
<1> QED
  BY <1>2, <1>3

-----------------------------------------------------------------------------
(* What holds of the text whose statement is read.                         *)
LEMMA WhatIsForeseen ==
    ASSUME IInv, Reading, Closing
    PROVE  /\ Len(stack) \in Nat \ {0} /\ Depth = Len(stack) /\ Top = stack[Len(stack)]
           /\ Foreseen(Top.text) /\ Len(Top.text) \in Nat /\ Top.text \in Text
           /\ Top.at \in 1 .. Len(Top.text)
           /\ Top.conds \in Nat /\ Len(cond) \in Nat /\ Top.conds <= Len(cond)
           /\ HasFlags(cond, Top.text, Top.at, Top.conds, Len(cond))
           /\ Stmt = Top.text[Top.at] /\ Stmt.op \notin Overlooked
           /\ CondActive <=> AllActive(cond, Len(cond))
<1>1. RestOK /\ DepthsOK
  BY IInvParts
<1>2. /\ stack # <<>> /\ Len(stack) = Depth /\ Depth \in Nat \ {0}
      /\ Len(Top.text) \in Nat /\ Top.at \in 1 .. Len(Top.text) /\ Top.text \in Text
  BY <1>1, WhatIsRead
<1>3. Top = stack[Len(stack)] /\ Stmt = Top.text[Top.at] /\ Len(stack) \in 1 .. Len(stack)
  BY <1>2 DEF Top, Stmt
<1>4. Len(cond) \in Nat
  BY <1>1, LenProperties DEF RestOK
<1>5. /\ IsBracketed(Top.text, prog.oneCloser) /\ Top.conds \in 0 .. Len(cond)
      /\ Continues(cond, Top, Len(cond))
  BY <1>2, <1>3 DEF Closing, StackHasFlags
<1>6. ~Top.stopped
  BY DEF Reading, HasStatement
<1>7. HasFlags(cond, Top.text, Top.at, Top.conds, Len(cond))
  BY <1>5, <1>6 DEF Continues
<1>8. NoneOverlooked(Top.text)
  BY <1>3 DEF Closing
<1>9. Stmt.op \notin Overlooked
  BY <1>2, <1>3, <1>8 DEF NoneOverlooked
<1>10. CondActive <=> AllActive(cond, Len(cond))
  <2>1. CASE cond = <<>>
    BY <2>1 DEF CondActive, AllActive
  <2>2. CASE cond # <<>>
    BY <1>1, <2>2, InnermostIsCond DEF Closing, CondActive, AllActive, OutersActive
  <2> QED
    BY <2>1, <2>2
<1> QED
  BY <1>2, <1>3, <1>4, <1>5, <1>7, <1>8, <1>9, <1>10 DEF Foreseen

(* What a statement may do: the text is read on with the flags it has to   *)
(* have, or not at all,                                                    *)
FlagsGoOn ==
    /\ Agree(cond, cond', Top.conds) /\ Top.conds <= Len(cond') /\ Len(cond') \in Nat
    /\ OutersActive(cond')
    /\ \E at \in Nat \ {0} : \E stop \in BOOLEAN :
          /\ GoTo(at, stop)
          /\ ~stop => /\ at \in 1 .. Len(Top.text) + 1
                      /\ HasFlags(cond', Top.text, at, Top.conds, Len(cond'))

(* or another is read first.                                               *)
FlagsReadAnother ==
    /\ cond' = cond
    /\ \E text \in Text : \E kind \in Kinds : \E at \in 1 .. Len(Top.text) :
          /\ Foreseen(text)
          /\ Enters(text, kind, at)
          /\ HasFlags(cond, Top.text, at + 1, Top.conds, Len(cond))

(* Either way the stack has them.                                          *)
LEMMA GoingOnKeepsFlags ==
    ASSUME IInv, Reading, Closing, FlagsGoOn
    PROVE  /\ StackHasFlags(cond', Len(cond'), stack', prog.oneCloser)
           /\ \A d \in 1 .. Len(stack') : NoneOverlooked(stack'[d].text)
           /\ OutersActive(cond')
<1>0. /\ Agree(cond, cond', Top.conds) /\ Top.conds <= Len(cond') /\ Len(cond') \in Nat
      /\ OutersActive(cond')
  BY DEF FlagsGoOn
<1>1. PICK at \in Nat \ {0} : \E stop \in BOOLEAN :
          /\ GoTo(at, stop)
          /\ ~stop => /\ at \in 1 .. Len(Top.text) + 1
                      /\ HasFlags(cond', Top.text, at, Top.conds, Len(cond'))
  BY DEF FlagsGoOn
<1>2. PICK stop \in BOOLEAN :
          /\ GoTo(at, stop)
          /\ ~stop => /\ at \in 1 .. Len(Top.text) + 1
                      /\ HasFlags(cond', Top.text, at, Top.conds, Len(cond'))
  BY <1>1
<1>3. /\ Len(stack') = Len(stack) /\ Len(stack) \in Nat \ {0}
      /\ OnlyTopDiffers(stack, stack')
      /\ stack'[Len(stack)].at = at /\ stack'[Len(stack)].stopped = stop
  BY <1>2, GoToSetsPlace
<1>4. Top = stack[Len(stack)] /\ Len(cond) \in Nat
  BY WhatIsForeseen
<1>5. /\ \A d \in 1 .. Len(stack) - 1 : stack'[d] = stack[d]
      /\ SameText(stack[Len(stack)], stack'[Len(stack)])
      /\ stack'[Len(stack)].text = Top.text /\ stack'[Len(stack)].conds = Top.conds
  BY <1>3, <1>4 DEF OnlyTopDiffers, SameText
<1>6. Continues(cond', stack'[Len(stack)], Len(cond'))
  BY <1>2, <1>3, <1>5 DEF Continues
<1>7. StackHasFlags(cond, Len(cond), stack, prog.oneCloser)
  BY DEF Closing
<1>8. StackHasFlags(cond', Len(cond'), stack', prog.oneCloser)
  BY <1>0, <1>3, <1>4, <1>5, <1>6, <1>7, FlagsAdvance
<1>9. \A d \in 1 .. Len(stack') : NoneOverlooked(stack'[d].text)
  <2> SUFFICES ASSUME NEW d \in 1 .. Len(stack') PROVE NoneOverlooked(stack'[d].text)
    OBVIOUS
  <2>1. d \in 1 .. Len(stack) /\ stack'[d].text = stack[d].text
    BY <1>3, <1>4, <1>5
  <2> QED
    BY <2>1 DEF Closing
<1> QED
  BY <1>0, <1>8, <1>9

(* The text that waits has them too.                                       *)
LEMMA ReadingAnotherKeepsFlags ==
    ASSUME IInv, Reading, Closing, FlagsReadAnother
    PROVE  /\ StackHasFlags(cond', Len(cond'), stack', prog.oneCloser)
           /\ \A d \in 1 .. Len(stack') : NoneOverlooked(stack'[d].text)
           /\ OutersActive(cond')
<1>1. PICK text \in Text : \E kind \in Kinds : \E at \in 1 .. Len(Top.text) :
          /\ Foreseen(text)
          /\ Enters(text, kind, at)
          /\ HasFlags(cond, Top.text, at + 1, Top.conds, Len(cond))
  BY DEF FlagsReadAnother
<1>2. PICK kind \in Kinds : \E at \in 1 .. Len(Top.text) :
          /\ Foreseen(text)
          /\ Enters(text, kind, at)
          /\ HasFlags(cond, Top.text, at + 1, Top.conds, Len(cond))
  BY <1>1
<1>3. PICK at \in 1 .. Len(Top.text) :
          /\ Foreseen(text)
          /\ Enters(text, kind, at)
          /\ HasFlags(cond, Top.text, at + 1, Top.conds, Len(cond))
  BY <1>2
<1>4. /\ Len(stack) \in Nat \ {0} /\ Top = stack[Len(stack)]
      /\ Len(Top.text) \in Nat /\ Len(cond) \in Nat
  BY WhatIsForeseen
<1>5. at \in Nat \ {0}
  BY <1>4
<1>6. /\ Len(stack') = Len(stack) + 1
      /\ OnlyTopDiffers(stack, stack')
      /\ stack'[Len(stack)].at = at
      /\ stack'[Len(stack) + 1] = Enter(text, kind)
  BY <1>3, <1>5, EntersSetsPlace
<1>7. /\ \A d \in 1 .. Len(stack) - 1 : stack'[d] = stack[d]
      /\ SameText(stack[Len(stack)], stack'[Len(stack)])
      /\ stack'[Len(stack)].text = Top.text /\ stack'[Len(stack)].conds = Top.conds
  BY <1>4, <1>6 DEF OnlyTopDiffers, SameText
<1>8. Resumes(cond, stack'[Len(stack)], Len(cond))
  BY <1>3, <1>6, <1>7 DEF Resumes
<1>9. /\ stack'[Len(stack) + 1].text = text /\ stack'[Len(stack) + 1].at = 1
      /\ stack'[Len(stack) + 1].conds = Len(cond)
  BY <1>6 DEF Enter
<1>10. StackHasFlags(cond, Len(cond), stack, prog.oneCloser)
  BY DEF Closing
<1>11. IsBracketed(text, prog.oneCloser) /\ Len(text) \in Nat
  BY <1>3, LenProperties DEF Foreseen, Text
<1>12. StackHasFlags(cond, Len(cond), stack', prog.oneCloser)
  BY <1>4, <1>6, <1>7, <1>8, <1>9, <1>10, <1>11, FlagsGrow
<1>13. \A d \in 1 .. Len(stack') : NoneOverlooked(stack'[d].text)
  <2> SUFFICES ASSUME NEW d \in 1 .. Len(stack') PROVE NoneOverlooked(stack'[d].text)
    OBVIOUS
  <2>1. CASE d = Len(stack) + 1
    BY <1>3, <1>9, <2>1 DEF Foreseen
  <2>2. CASE d # Len(stack) + 1
    BY <1>4, <1>6, <1>7, <2>2 DEF Closing
  <2> QED
    BY <2>1, <2>2
<1>14. cond' = cond
  BY DEF FlagsReadAnother
<1>15. OutersActive(cond)
  BY DEF Closing
<1> QED
  BY <1>12, <1>13, <1>14, <1>15

-----------------------------------------------------------------------------
(* Each statement does one or the other.                                   *)

(* The flags that are there, after a statement about no conditional.       *)
LEMMA QuietKeepsFlags ==
    ASSUME IInv, Reading, Closing, Quiet(Stmt.op), Stmt.op \in BlockStarts => ~CondActive
    PROVE  /\ HasFlags(cond, Top.text, Top.at + 1, Top.conds, Len(cond))
           /\ Top.at + 1 \in 1 .. Len(Top.text) + 1 /\ Top.at + 1 \in Nat \ {0}
<1>1. /\ Foreseen(Top.text) /\ Len(Top.text) \in Nat
      /\ Top.at \in 1 .. Len(Top.text)
      /\ Top.conds \in Nat /\ Len(cond) \in Nat
      /\ HasFlags(cond, Top.text, Top.at, Top.conds, Len(cond))
      /\ Stmt = Top.text[Top.at]
      /\ CondActive <=> AllActive(cond, Len(cond))
  BY WhatIsForeseen
<1>2. /\ Stmt.op \notin Opening /\ Stmt.op # "endif" /\ Stmt.op \notin Arms
      /\ Stmt.op \in BlockStarts => ~AllActive(cond, Len(cond))
  BY <1>1 DEF Quiet
<1>3. Agree(cond, cond, Len(cond))
  BY DEF Agree
<1>4. IsBracketed(Top.text, prog.oneCloser)
  BY <1>1 DEF Foreseen
<1>5. HasFlags(cond, Top.text, Top.at + 1, Top.conds, Len(cond))
  BY <1>1, <1>2, <1>3, <1>4, FlagsNext
<1> QED
  BY <1>1, <1>5

(* A text is read on with the flags that are there.                        *)
LEMMA SameFlagsGoOn ==
    ASSUME IInv, Reading, Closing, cond' = cond, NEW at \in Nat \ {0}, NEW stop \in BOOLEAN,
           GoTo(at, stop), at \in 1 .. Len(Top.text) + 1,
           HasFlags(cond, Top.text, at, Top.conds, Len(cond))
    PROVE  FlagsGoOn
BY WhatIsForeseen DEF Agree, Closing, FlagsGoOn

(* So it is after a statement about no conditional, unless it starts a     *)
(* block that is captured.                                                 *)
LEMMA QuietFlagsGoOn ==
    ASSUME IInv, Reading, Closing, Quiet(Stmt.op), Stmt.op \in BlockStarts => ~CondActive,
           cond' = cond, NEW stop \in BOOLEAN, GoTo(Top.at + 1, stop)
    PROVE  FlagsGoOn
BY QuietKeepsFlags, SameFlagsGoOn

(* A conditional directive leads to the next statement with its flags.     *)
LEMMA DirectiveFlagsGoOn ==
    ASSUME IInv, Reading, Closing, GoOn, NEW m \in Nat, m <= Len(cond), Agree(cond, cond', m),
           Top.conds <= m, Len(cond') \in Nat, OutersActive(cond'), m <= Len(cond'),
           HasFlags(cond', Top.text, Top.at + 1, Top.conds, Len(cond'))
    PROVE  FlagsGoOn
<1>1. /\ Len(Top.text) \in Nat /\ Top.at \in 1 .. Len(Top.text) /\ Top.conds \in Nat
  BY WhatIsForeseen
<1>2. Top.at + 1 \in Nat \ {0} /\ Top.at + 1 \in 1 .. Len(Top.text) + 1
  BY <1>1
<1>3. (exiting \/ ended) \in BOOLEAN
  BY DEF IInv, TypeOK
<1>4. PICK stop \in BOOLEAN : stop = (exiting \/ ended)
  BY <1>3
<1>5. GoTo(Top.at + 1, stop)
  BY <1>4 DEF GoOn
<1>6. Agree(cond, cond', Top.conds) /\ Top.conds <= Len(cond')
  BY <1>1, AgreeBelow
<1> QED
  BY <1>2, <1>5, <1>6 DEF FlagsGoOn

(* .if raises one more.                                                    *)
LEMMA IfFlagsGoOn ==
    ASSUME IInv, Closing, DirIf
    PROVE  FlagsGoOn
<1>0. Reading /\ GoOn /\ Stmt.op \in Opening
  BY DEF DirIf, Looks
<1>1. /\ Foreseen(Top.text) /\ Len(Top.text) \in Nat
      /\ Top.at \in 1 .. Len(Top.text)
      /\ Top.conds \in Nat /\ Len(cond) \in Nat /\ Top.conds <= Len(cond)
      /\ HasFlags(cond, Top.text, Top.at, Top.conds, Len(cond))
      /\ Stmt = Top.text[Top.at]
  BY <1>0, WhatIsForeseen
<1> DEFINE c == [active |-> CondActive /\ Value, taken |-> ~CondActive \/ Value,
                 seenElse |-> FALSE]
<1>2. cond' = Append(cond, c)
  BY DEF DirIf
<1>3. c \in Cond /\ cond \in Seq(Cond)
  BY IInvParts, CondFlagsAreBoolean DEF Cond, Value, RestOK
<1>4. c.active => CondActive
  OBVIOUS
<1> HIDE DEF c
<1>5. /\ Len(cond') = Len(cond) + 1 /\ cond'[Len(cond) + 1] = c
      /\ \A d \in 1 .. Len(cond) : cond'[d] = cond[d]
  BY <1>2, <1>3, AppendProperties
<1>6. Agree(cond, cond', Len(cond))
  BY <1>5 DEF Agree
<1>7. ASSUME cond'[Len(cond) + 1].active, Len(cond) # 0 PROVE cond'[Len(cond)].active
  BY <1>1, <1>4, <1>5, <1>7 DEF CondActive
<1>8. OutersActive(cond')
  BY <1>1, <1>5, <1>6, <1>7, OutersStayActive DEF Closing
<1>9. /\ Stmt.op # "endif" /\ Stmt.op \notin Arms /\ ~Quiet(Stmt.op)
      /\ Stmt.op \notin BlockStarts /\ IsBracketed(Top.text, prog.oneCloser)
  BY <1>0, <1>1 DEF Opening, Arms, Quiet, BlockStarts, Foreseen
<1>10. Len(cond) + 1 \in Nat /\ Len(cond) <= Len(cond) + 1
  BY <1>1
<1>11. HasFlags(cond', Top.text, Top.at + 1, Top.conds, Len(cond) + 1)
  BY <1>1, <1>6, <1>9, <1>10, FlagsNext
<1> QED
  BY <1>0, <1>1, <1>5, <1>6, <1>8, <1>10, <1>11, DirectiveFlagsGoOn

(* Where an arm or an .endif stands there is one of the text's own.        *)
LEMMA ArmsHaveFlags ==
    ASSUME IInv, Closing, Reading, Stmt.op \in Arms \cup {"endif"}
    PROVE  cond # <<>> /\ Len(cond) \in Nat \ {0} /\ Top.conds <= Len(cond) - 1
<1>1. /\ Foreseen(Top.text) /\ Len(Top.text) \in Nat
      /\ Top.at \in 1 .. Len(Top.text)
      /\ Top.conds \in Nat /\ Len(cond) \in Nat
      /\ HasFlags(cond, Top.text, Top.at, Top.conds, Len(cond))
      /\ Stmt = Top.text[Top.at]
  BY WhatIsForeseen
<1>2. Top.conds + 1 <= Len(cond)
  BY <1>1, FlagsOfArms DEF Foreseen
<1>3. Len(cond) # 0
  BY <1>1, <1>2
<1>4. cond # <<>>
  BY <1>3
<1> QED
  BY <1>1, <1>2, <1>3, <1>4

(* .endif takes it back.                                                   *)
LEMMA EndIfFlagsGoOn ==
    ASSUME IInv, Closing, DirEndIf
    PROVE  FlagsGoOn /\ cond # <<>>
<1>0. Reading /\ GoOn /\ Stmt.op = "endif"
  BY DEF DirEndIf, Looks
<1>1. /\ Foreseen(Top.text) /\ Len(Top.text) \in Nat
      /\ Top.at \in 1 .. Len(Top.text)
      /\ Top.conds \in Nat /\ Len(cond) \in Nat
      /\ HasFlags(cond, Top.text, Top.at, Top.conds, Len(cond))
      /\ Stmt = Top.text[Top.at]
  BY <1>0, WhatIsForeseen
<1>2. cond # <<>> /\ Len(cond) \in Nat \ {0} /\ Top.conds <= Len(cond) - 1
  BY <1>0, ArmsHaveFlags
<1>3. cond \in Seq(Cond) /\ Len(cond) - 1 \in 0 .. Len(cond) /\ Len(cond) - 1 \in Nat
      /\ Len(cond) - 1 <= Len(cond)
  BY <1>2, IInvParts DEF RestOK
<1>4. cond' = SubSeq(cond, 1, Len(cond) - 1)
  BY <1>2 DEF DirEndIf
<1>5. Len(cond') = Len(cond) - 1 /\ \A d \in 1 .. Len(cond) - 1 : cond'[d] = cond[d]
  BY <1>3, <1>4, PrefixOfSeq
<1>6. Agree(cond, cond', Len(cond) - 1)
  BY <1>5 DEF Agree
<1>7. OutersActive(cond')
  BY <1>1, <1>3, <1>5, <1>6, OutersStayActive DEF Closing
<1>8. /\ Stmt.op \notin Opening /\ Stmt.op \notin Arms /\ ~Quiet(Stmt.op)
      /\ Stmt.op \notin BlockStarts /\ IsBracketed(Top.text, prog.oneCloser)
  BY <1>0, <1>1 DEF Opening, Arms, Quiet, BlockStarts, Foreseen
<1>9. HasFlags(cond', Top.text, Top.at + 1, Top.conds, Len(cond) - 1)
  BY <1>1, <1>3, <1>6, <1>8, FlagsNext
<1>10. FlagsGoOn
  BY <1>0, <1>2, <1>3, <1>5, <1>6, <1>7, <1>9, DirectiveFlagsGoOn
<1> QED
  BY <1>2, <1>10

(* Arms only change the innermost.                                         *)
LEMMA ArmFlagsGoOn ==
    ASSUME IInv, Closing, Reading, GoOn, Stmt.op \in Arms,
           Len(cond') = Len(cond), Agree(cond, cond', Len(cond) - 1),
           cond'[Len(cond)].active => EnclosingActive
    PROVE  FlagsGoOn
<1>1. /\ Foreseen(Top.text) /\ Len(Top.text) \in Nat
      /\ Top.at \in 1 .. Len(Top.text)
      /\ Top.conds \in Nat /\ Len(cond) \in Nat
      /\ HasFlags(cond, Top.text, Top.at, Top.conds, Len(cond))
      /\ Stmt = Top.text[Top.at]
  BY WhatIsForeseen
<1>2. Len(cond) \in Nat \ {0} /\ Top.conds <= Len(cond) - 1
  BY ArmsHaveFlags
<1>3. PICK m \in Nat : m = Len(cond) - 1 /\ m + 1 = Len(cond) /\ m <= Len(cond)
  BY <1>2
<1>4. Agree(cond, cond', m)
  BY <1>3
<1>5. ASSUME cond'[m + 1].active, m # 0 PROVE cond'[m].active
  BY <1>3, <1>4, <1>5 DEF EnclosingActive, Agree
<1>6. OutersActive(cond')
  BY <1>1, <1>3, <1>4, <1>5, OutersStayActive DEF Closing
<1>7. /\ Stmt.op \notin Opening /\ Stmt.op # "endif" /\ ~Quiet(Stmt.op)
      /\ Stmt.op \notin BlockStarts /\ IsBracketed(Top.text, prog.oneCloser)
  BY <1>1 DEF Opening, Arms, Quiet, BlockStarts, Foreseen
<1>8. HasFlags(cond', Top.text, Top.at + 1, Top.conds, Len(cond))
  BY <1>1, <1>7, FlagsNext
<1> QED
  BY <1>1, <1>2, <1>3, <1>4, <1>6, <1>8, DirectiveFlagsGoOn

(* What a flag being up says of the one around it.                         *)
LEMMA OuterOfInnermost ==
    ASSUME Len(cond) \in Nat \ {0}, OutersActive(cond), cond[Len(cond)].active
    PROVE  EnclosingActive
BY DEF OutersActive, AllActive, EnclosingActive

(* .elseif leaves one up only where that is.                               *)
LEMMA ElseIfFlagsGoOn ==
    ASSUME IInv, Closing, DirElseIf
    PROVE  FlagsGoOn
<1>0. Reading /\ GoOn /\ Stmt.op \in Arms
  BY DEF DirElseIf, Looks, Arms
<1>1. cond # <<>> /\ Len(cond) \in Nat \ {0}
  BY <1>0, ArmsHaveFlags
<1>2. Innermost \in Cond /\ EnclosingActive \in BOOLEAN /\ Value \in BOOLEAN
  BY <1>1, IInvParts, InnermostIsCond, CondFlagsAreBoolean DEF Value
<1>3. CASE Innermost.seenElse
  BY <1>0, <1>1, <1>3, OuterOfInnermost, ArmFlagsGoOn DEF DirElseIf, Agree, Closing
<1>4. CASE ~Innermost.seenElse /\ Innermost.taken
  <2> DEFINE c == [Innermost EXCEPT !.active = FALSE]
  <2>1. c \in Cond /\ ~c.active
    BY <1>2 DEF Cond
  <2>2. SetTop(c)
    BY <1>1, <1>4 DEF DirElseIf
  <2> HIDE DEF c
  <2>3. /\ Len(cond') = Len(cond) /\ cond'[Len(cond)] = c
        /\ Agree(cond, cond', Len(cond) - 1)
    BY <1>1, <2>1, <2>2, SetTopAgrees
  <2> QED
    BY <1>0, <2>1, <2>3, ArmFlagsGoOn
<1>5. CASE ~Innermost.seenElse /\ ~Innermost.taken
  <2> DEFINE c == [Innermost EXCEPT !.active = EnclosingActive /\ Value,
                                    !.taken = EnclosingActive /\ Value]
  <2>1. (EnclosingActive /\ Value) \in BOOLEAN
    BY <1>2
  <2>2. c \in Cond /\ c.active = (EnclosingActive /\ Value)
    BY <1>2, <2>1 DEF Cond
  <2>3. SetTop(c)
    BY <1>1, <1>5 DEF DirElseIf
  <2> HIDE DEF c
  <2>4. /\ Len(cond') = Len(cond) /\ cond'[Len(cond)] = c
        /\ Agree(cond, cond', Len(cond) - 1)
    BY <1>1, <2>2, <2>3, SetTopAgrees
  <2> QED
    BY <1>0, <2>2, <2>4, ArmFlagsGoOn
<1> QED
  BY <1>3, <1>4, <1>5

(* So does .else.                                                          *)
LEMMA ElseFlagsGoOn ==
    ASSUME IInv, Closing, DirElse
    PROVE  FlagsGoOn
<1>0. Reading /\ GoOn /\ Stmt.op \in Arms
  BY DEF DirElse, Looks, Arms
<1>1. cond # <<>> /\ Len(cond) \in Nat \ {0}
  BY <1>0, ArmsHaveFlags
<1>2. Innermost \in Cond /\ EnclosingActive \in BOOLEAN
  BY <1>1, IInvParts, InnermostIsCond, CondFlagsAreBoolean
<1>3. CASE Innermost.seenElse
  BY <1>0, <1>1, <1>3, OuterOfInnermost, ArmFlagsGoOn DEF DirElse, Agree, Closing
<1>4. CASE ~Innermost.seenElse
  <2> DEFINE c == [active |-> EnclosingActive /\ ~Innermost.taken, taken |-> TRUE,
                   seenElse |-> TRUE]
  <2>1. c \in Cond /\ c.active = (EnclosingActive /\ ~Innermost.taken)
    BY <1>2 DEF Cond
  <2>2. SetTop(c)
    BY <1>1, <1>4 DEF DirElse
  <2> HIDE DEF c
  <2>3. /\ Len(cond') = Len(cond) /\ cond'[Len(cond)] = c
        /\ Agree(cond, cond', Len(cond) - 1)
    BY <1>1, <2>1, <2>2, SetTopAgrees
  <2> QED
    BY <1>0, <2>1, <2>3, ArmFlagsGoOn
<1> QED
  BY <1>3, <1>4

(* A stray .endm or .endr is one of a block that was passed over, and no   *)
(* statement is read as live there.                                        *)
LEMMA NoStrayEnds ==
    ASSUME IInv, Closing, StrayEnd
    PROVE  FALSE
BY WhatIsForeseen, FlagsOfBlockEnds DEF StrayEnd, Walks, Foreseen

(* The statements that only go on, or end their text.                      *)
LEMMA QuietStatementsKeepFlags ==
    ASSUME IInv, Closing, ExitMacro \/ Skip \/ PurgeMacro \/ End \/ Code
    PROVE  FlagsGoOn
<1>1. Reading /\ cond' = cond /\ (exiting \/ ended) \in BOOLEAN
  BY DEF ExitMacro, Skip, PurgeMacro, End, Code, Walks, IInv, TypeOK
<1>2. PICK going \in BOOLEAN : going = (exiting \/ ended)
  BY <1>1
<1>3. CASE ExitMacro \/ End
  <2>1. /\ Quiet(Stmt.op) /\ Stmt.op \notin BlockStarts
        /\ GoTo(Top.at + 1, TRUE)
    BY <1>3 DEF ExitMacro, End, Quiet, Opening, Arms, BlockStarts
  <2> QED
    BY <1>1, <2>1, QuietFlagsGoOn
<1>4. CASE PurgeMacro \/ Code
  <2>1. GoOn /\ Quiet(Stmt.op) /\ Stmt.op \notin BlockStarts
    BY <1>4 DEF PurgeMacro, Code, IsUnknown, Quiet, Opening, Arms, BlockStarts
  <2>2. GoTo(Top.at + 1, going)
    BY <1>2, <2>1 DEF GoOn
  <2> QED
    BY <1>1, <2>1, <2>2, QuietFlagsGoOn
<1>5. CASE Skip
  <2>1. GoOn /\ ~CondActive /\ Stmt.op \notin LookedAt
    BY <1>5 DEF Skip
  <2>2. GoTo(Top.at + 1, going)
    BY <1>2, <2>1 DEF GoOn
  <2>3. Stmt.op \notin Overlooked
    BY <1>1, WhatIsForeseen
  <2>4. CASE Stmt.op \in Arms
    <3>1. Len(cond) \in Nat \ {0}
      BY <1>1, <2>4, ArmsHaveFlags
    <3>2. Agree(cond, cond', Len(cond) - 1) /\ Len(cond') = Len(cond)
      BY <1>1 DEF Agree
    <3>3. cond'[Len(cond)].active => EnclosingActive
      BY <1>1, <3>1, OuterOfInnermost DEF Closing
    <3> QED
      BY <1>1, <2>1, <2>4, <3>2, <3>3, ArmFlagsGoOn
  <2>5. CASE Stmt.op \notin Arms
    <3>1. Quiet(Stmt.op)
      BY <2>1, <2>3, <2>5 DEF Quiet, LookedAt, Overlooked
    <3> QED
      BY <1>1, <2>1, <2>2, <3>1, QuietFlagsGoOn
  <2> QED
    BY <2>4, <2>5
<1> QED
  BY <1>3, <1>4, <1>5

-----------------------------------------------------------------------------
(* What a block leads to.                                                  *)
LEMMA ForeseenBlock ==
    ASSUME IInv, Closing, Reading, Stmt.op \in BlockStarts
    PROVE  /\ BlockEnds(Top.text, Top.at, prog.oneCloser) # {}
           /\ \A end \in BlockEnds(Top.text, Top.at, prog.oneCloser) :
                 /\ end \in 1 .. Len(Top.text) /\ end + 1 \in 1 .. Len(Top.text) + 1
                 /\ end + 1 \in Nat \ {0}
                 /\ HasFlags(cond, Top.text, end + 1, Top.conds, Len(cond))
                 /\ Foreseen(Body(Top.text, Top.at, end))
                 /\ Body(Top.text, Top.at, end) \in Text
<1>1. /\ Foreseen(Top.text) /\ Len(Top.text) \in Nat /\ Top.text \in Text
      /\ Top.at \in 1 .. Len(Top.text)
      /\ HasFlags(cond, Top.text, Top.at, Top.conds, Len(cond))
      /\ Stmt = Top.text[Top.at]
  BY WhatIsForeseen
<1>2. IsBracketed(Top.text, prog.oneCloser)
  BY <1>1 DEF Foreseen
<1>3. /\ BlockEnds(Top.text, Top.at, prog.oneCloser) # {}
      /\ \A e \in BlockEnds(Top.text, Top.at, prog.oneCloser) :
            e \in Top.at + 1 .. Len(Top.text) /\ EndsBracket(Top.text, e, Top.at, prog.oneCloser)
  BY <1>1, <1>2, BlockIsClosed
<1>4. ASSUME NEW end \in BlockEnds(Top.text, Top.at, prog.oneCloser)
      PROVE  /\ end \in 1 .. Len(Top.text) /\ end + 1 \in 1 .. Len(Top.text) + 1
             /\ end + 1 \in Nat \ {0}
             /\ HasFlags(cond, Top.text, end + 1, Top.conds, Len(cond))
             /\ Foreseen(Body(Top.text, Top.at, end))
             /\ Body(Top.text, Top.at, end) \in Text
  <2>1. end \in Top.at + 1 .. Len(Top.text) /\ EndsBracket(Top.text, end, Top.at, prog.oneCloser)
    BY <1>3
  <2>2. /\ end \in 1 .. Len(Top.text) /\ end + 1 \in 1 .. Len(Top.text) + 1
        /\ end + 1 \in Nat \ {0}
    BY <1>1, <2>1
  <2>3. HasFlags(cond, Top.text, end + 1, Top.conds, Len(cond))
    BY <1>1, <1>2, <2>1, FlagsAfterBlock
  <2>4. Foreseen(Body(Top.text, Top.at, end))
    BY <1>1, <2>1, BodyIsForeseen
  <2>5. Body(Top.text, Top.at, end) \in Text
    BY <1>1, 0 \in Nat, BlockTexts
  <2> QED
    BY <2>2, <2>3, <2>4, <2>5
<1> QED
  BY <1>3, <1>4

(* It has an end.                                                          *)
LEMMA EveryBlockEnds ==
    ASSUME IInv, Closing, Unterminated
    PROVE  FALSE
BY ForeseenBlock DEF Unterminated, Walks, BlockStarts

(* The text is read on after its block.                                    *)
LEMMA FlagsGoOnAfterBlock ==
    ASSUME IInv, Closing, Reading, Stmt.op \in BlockStarts, cond' = cond,
           NEW end \in BlockEnds(Top.text, Top.at, prog.oneCloser), GoTo(end + 1, FALSE)
    PROVE  FlagsGoOn
BY ForeseenBlock, SameFlagsGoOn

(* A definition is skipped, and what it defines is foreseen.               *)
LEMMA DefinitionKeepsFlags ==
    ASSUME IInv, Closing, DefineMacro
    PROVE  FlagsGoOn /\ \A m \in DOMAIN macros' : Foreseen(macros'[m])
<1>1. Reading /\ Stmt.op \in BlockStarts /\ cond' = cond
  BY DEF DefineMacro, Walks, BlockStarts
<1>2. PICK end \in BlockEnds(Top.text, Top.at, prog.oneCloser) :
          /\ GoTo(end + 1, FALSE)
          /\ IF Stmt.arg \in DOMAIN macros
             THEN Report("macro defined twice") /\ UNCHANGED macros
             ELSE /\ macros' = [m \in DOMAIN macros \cup {Stmt.arg} |->
                                  IF m = Stmt.arg THEN Body(Top.text, Top.at, end)
                                  ELSE macros[m]]
                  /\ UNCHANGED errors
  BY DEF DefineMacro
<1>3. FlagsGoOn
  BY <1>1, <1>2, FlagsGoOnAfterBlock
<1>4. Foreseen(Body(Top.text, Top.at, end))
  BY <1>1, ForeseenBlock
<1>5. \A m \in DOMAIN macros : Foreseen(macros[m])
  BY DEF Closing
<1>6. \A m \in DOMAIN macros' : \/ macros'[m] = Body(Top.text, Top.at, end)
                                \/ m \in DOMAIN macros /\ macros'[m] = macros[m]
  BY <1>2
<1>7. ASSUME NEW m \in DOMAIN macros' PROVE Foreseen(macros'[m])
  BY <1>4, <1>5, <1>6
<1> QED
  BY <1>3, <1>7

(* A statement that causes a foreseen text to be read.                     *)
LEMMA CausesForeseen ==
    ASSUME IInv, Closing, Reading, cond' = cond, Quiet(Stmt.op), Stmt.op \notin BlockStarts,
           NEW text \in Text, Foreseen(text), NEW kind \in Kinds, Enters(text, kind, Top.at)
    PROVE  FlagsReadAnother
BY WhatIsForeseen, QuietKeepsFlags DEF FlagsReadAnother

(* A macro is read where it is called, unless too many are being read.     *)
LEMMA CallKeepsFlags ==
    ASSUME IInv, Closing, ExpandMacro
    PROVE  FlagsGoOn \/ FlagsReadAnother
<1>1. /\ Reading /\ cond' = cond
      /\ Quiet(Stmt.op) /\ Stmt.op \notin BlockStarts /\ Stmt.arg \in DOMAIN macros
      /\ Expand(macros[Stmt.arg], "macro", Top.at)
  BY DEF ExpandMacro, Walks, flags, Quiet, Opening, Arms, BlockStarts
<1>2. macros[Stmt.arg] \in Text /\ Foreseen(macros[Stmt.arg])
  BY <1>1 DEF IInv, TypeOK, Closing
<1>3. CASE macroDepth >= MaxMacroDepth
  <2>1. StopsAfter("macro", exiting, ended) \in BOOLEAN
    BY DEF StopsAfter
  <2>2. PICK stop \in BOOLEAN : stop = StopsAfter("macro", exiting, ended)
    BY <2>1
  <2>3. GoTo(Top.at + 1, stop)
    BY <1>1, <1>3, <2>2 DEF Expand
  <2> QED
    BY <1>1, <2>3, QuietFlagsGoOn
<1>4. CASE ~(macroDepth >= MaxMacroDepth)
  BY <1>1, <1>2, <1>4, CausesForeseen DEF Expand, Enters, Kinds
<1> QED
  BY <1>3, <1>4

(* So are the copies of a repeated block.                                  *)
LEMMA RepeatKeepsFlags ==
    ASSUME IInv, Closing, ExpandRepeat
    PROVE  FlagsGoOn \/ FlagsReadAnother
<1>1. Reading /\ cond' = cond /\ Stmt.op \in BlockStarts
  BY DEF ExpandRepeat, Walks, BlockStarts
<1>2. PICK end \in BlockEnds(Top.text, Top.at, prog.oneCloser) :
          Expand(Copies(Body(Top.text, Top.at, end), Stmt.arg), "repeat", end)
  BY DEF ExpandRepeat
<1>3. /\ end \in 1 .. Len(Top.text)
      /\ HasFlags(cond, Top.text, end + 1, Top.conds, Len(cond))
      /\ Foreseen(Body(Top.text, Top.at, end))
      /\ Body(Top.text, Top.at, end) \in Text
  BY <1>1, ForeseenBlock
<1>4. Stmt.arg \in Nat
  BY <1>1, IInvParts, WhatIsRead DEF Statement
<1>5. PICK copies : copies = Copies(Body(Top.text, Top.at, end), Stmt.arg)
  OBVIOUS
<1>6. Foreseen(copies)
  BY <1>3, <1>4, <1>5, CopiesAreForeseen
<1>7. copies \in Text
  BY <1>1, <1>4, <1>5, IInvParts, WhatIsRead, BlockTexts
<1>8. Expand(copies, "repeat", end)
  BY <1>2, <1>5
<1>9. CASE macroDepth >= MaxMacroDepth
  BY <1>1, <1>8, <1>9, FlagsGoOnAfterBlock DEF Expand, StopsAfter
<1>10. CASE ~(macroDepth >= MaxMacroDepth)
  <2>1. Enters(copies, "repeat", end)
    BY <1>8, <1>10 DEF Expand, Enters
  <2>2. "repeat" \in Kinds
    BY DEF Kinds
  <2> QED
    BY <1>1, <1>3, <1>6, <1>7, <2>1, <2>2 DEF FlagsReadAnother
<1> QED
  BY <1>9, <1>10

(* A file is read where it is included, unless there is none.              *)
LEMMA IncludeKeepsFlags ==
    ASSUME IInv, AllForeseen, Closing, Include
    PROVE  FlagsGoOn \/ FlagsReadAnother
<1>1. /\ Reading /\ cond' = cond /\ Quiet(Stmt.op) /\ Stmt.op \notin BlockStarts
      /\ (exiting \/ ended) \in BOOLEAN
  BY DEF Include, Walks, Quiet, Opening, Arms, BlockStarts, IInv, TypeOK
<1>2. CASE includeDepth > MaxIncludeDepth \/ Stmt.arg \notin DOMAIN prog.files
  <2>1. PICK stop \in BOOLEAN : stop = (exiting \/ ended)
    BY <1>1
  <2>2. GoOn
    BY <1>2 DEF Include
  <2>3. GoTo(Top.at + 1, stop)
    BY <2>1, <2>2 DEF GoOn
  <2> QED
    BY <1>1, <2>3, QuietFlagsGoOn
<1>3. CASE ~(includeDepth > MaxIncludeDepth \/ Stmt.arg \notin DOMAIN prog.files)
  <2>1. stack' = Append(stack, Enter(prog.files[Stmt.arg], "include"))
    BY <1>3 DEF Include
  <2>2. Enters(prog.files[Stmt.arg], "include", Top.at)
    BY <1>1, <2>1, EntersHere
  <2>3. prog.files \in Seq(Text)
    BY DEF IInv, TypeOK, Program
  <2>4. prog.files[Stmt.arg] \in Text
    BY <1>3, <2>3
  <2>5. Foreseen(prog.files[Stmt.arg])
    BY <1>3 DEF AllForeseen, TextsOf
  <2>6. "include" \in Kinds
    BY DEF Kinds
  <2> QED
    BY <1>1, <2>2, <2>4, <2>5, <2>6, CausesForeseen
<1> QED
  BY <1>2, <1>3

(* What a statement is rewritten to is read where it stands, unless it is  *)
(* rewritten too often, which stops its text.                              *)
LEMMA RewriteKeepsFlags ==
    ASSUME IInv, AllForeseen, Closing, ApplyDefine
    PROVE  FlagsGoOn \/ FlagsReadAnother
<1>1. /\ Reading /\ cond' = cond /\ Quiet(Stmt.op) /\ Stmt.op \notin BlockStarts
      /\ Stmt.arg \in DOMAIN prog.pieces
  BY DEF ApplyDefine, IsRewritten, Quiet, Opening, Arms, BlockStarts
<1>2. CASE macroDepth >= MaxMacroDepth
  BY <1>1, <1>2, QuietFlagsGoOn DEF ApplyDefine
<1>3. CASE ~(macroDepth >= MaxMacroDepth)
  <2>1. stack' = Append(stack, Enter(prog.pieces[Stmt.arg], "define"))
    BY <1>3 DEF ApplyDefine
  <2>2. Enters(prog.pieces[Stmt.arg], "define", Top.at)
    BY <1>1, <2>1, EntersHere
  <2>3. PICK pieces \in Seq(Text) : pieces = prog.pieces
    BY DEF IInv, TypeOK, Program
  <2>4. prog.pieces[Stmt.arg] \in Text
    BY <1>1, <2>3, LenProperties, ElementOfSeq
  <2>5. Foreseen(prog.pieces[Stmt.arg])
    BY <1>1 DEF AllForeseen, TextsOf
  <2>6. "define" \in Kinds
    BY DEF Kinds
  <2> QED
    BY <1>1, <2>2, <2>4, <2>5, <2>6, CausesForeseen
<1> QED
  BY <1>2, <1>3

-----------------------------------------------------------------------------
(* The return from a text, and the steps together.                         *)

(* What is complained about otherwise is something else.                   *)
LEMMA OtherErrors ==
    ASSUME [Next]_vars, errors \cap BlockErrors = {}, ~Unterminated, ~StrayEnd,
           DirEndIf => cond # <<>>
    PROVE  errors' \cap BlockErrors = {}
<1>1. CASE DefineMacro
  BY <1>1 DEF DefineMacro, Report, BlockErrors
<1>2. CASE ExpandRepeat
  BY <1>2 DEF ExpandRepeat, Expand, Report, BlockErrors
<1>3. CASE Leave
  BY <1>3 DEF Leave, Report, BlockErrors
<1>4. CASE ApplyDefine \/ ExitMacro
  BY <1>4 DEF ApplyDefine, ExitMacro, Report, BlockErrors
<1>5. CASE ExpandMacro
  BY <1>5 DEF ExpandMacro, Expand, Report, BlockErrors
<1>6. CASE Skip \/ DirIf
  BY <1>6 DEF Skip, DirIf, Report, Evaluate, result, BlockErrors
<1>7. CASE DirElseIf
  BY <1>7 DEF DirElseIf, Report, Evaluate, BlockErrors
<1>8. CASE DirElse
  BY <1>8 DEF DirElse, Report, BlockErrors
<1>9. CASE DirEndIf
  BY <1>9 DEF DirEndIf
<1>10. CASE Include \/ PurgeMacro
  BY <1>10 DEF Include, PurgeMacro, Report, BlockErrors
<1>11. CASE End \/ Code
  BY <1>11 DEF End, Code, Report, result, BlockErrors
<1>12. CASE NextInput \/ Stop \/ UNCHANGED vars
  BY <1>12 DEF NextInput, Stop, result, vars
<1> QED
  BY <1>1, <1>2, <1>3, <1>4, <1>5, <1>6, <1>7, <1>8, <1>9, <1>10, <1>11, <1>12 DEF Next

(* Only definitions and .purgem touch the macros, and .purgem adds none.   *)
LEMMA MacrosStayForeseen ==
    ASSUME IInv, Closing, [Next]_vars, ~DefineMacro
    PROVE  \A m \in DOMAIN macros' : Foreseen(macros'[m])
<1>1. \A m \in DOMAIN macros : Foreseen(macros[m])
  BY DEF Closing
<1>2. CASE PurgeMacro
  BY <1>1, <1>2 DEF PurgeMacro
<1>3. CASE ~PurgeMacro
  <2>1. macros' = macros
    BY <1>3 DEF Next, ApplyDefine, Unterminated, ExpandRepeat, StrayEnd, ExitMacro,
                ExpandMacro, Skip, DirIf, DirElseIf, DirElse, DirEndIf, Include, End, Code,
                Leave, NextInput, Stop, vars
  <2> QED
    BY <1>1, <2>1
<1> QED
  BY <1>2, <1>3

(* A statement read keeps the flags there have to be, and complains about  *)
(* no bracket.                                                             *)
LEMMA StatementKeepsClosing ==
    ASSUME IInv, AllForeseen, Closing, errors \cap BlockErrors = {}, [Next]_vars, Reading,
           vars' # vars
    PROVE  /\ StackHasFlags(cond', Len(cond'), stack', prog.oneCloser)
           /\ \A d \in 1 .. Len(stack') : NoneOverlooked(stack'[d].text)
           /\ OutersActive(cond')
           /\ \A m \in DOMAIN macros' : Foreseen(macros'[m])
           /\ errors' \cap BlockErrors = {}
<1>1. ~Leave /\ ~NextInput /\ ~Stop
  BY DEF Leave, NextInput, Stop, Finished, Reading
<1>2. ~Unterminated /\ ~StrayEnd
  BY EveryBlockEnds, NoStrayEnds
<1>3. FlagsGoOn \/ FlagsReadAnother
  BY <1>1, <1>2, RewriteKeepsFlags, DefinitionKeepsFlags, RepeatKeepsFlags, CallKeepsFlags,
     QuietStatementsKeepFlags, IfFlagsGoOn, ElseIfFlagsGoOn, ElseFlagsGoOn, EndIfFlagsGoOn,
     IncludeKeepsFlags DEF Next
<1>4. \A m \in DOMAIN macros' : Foreseen(macros'[m])
  BY DefinitionKeepsFlags, MacrosStayForeseen
<1>5. DirEndIf => cond # <<>>
  BY EndIfFlagsGoOn
<1>6. errors' \cap BlockErrors = {}
  BY <1>2, <1>5, OtherErrors
<1> QED
  BY <1>3, <1>4, <1>6, GoingOnKeepsFlags, ReadingAnotherKeepsFlags

(* The return takes none of those the text below has to have.              *)
LEMMA ReturnKeepsFlags ==
    ASSUME IInv, Closing, Leave
    PROVE  /\ StackHasFlags(cond', Len(cond'), stack', prog.oneCloser)
           /\ \A d \in 1 .. Len(stack') : NoneOverlooked(stack'[d].text)
           /\ OutersActive(cond')
<1>1. /\ Len(stack') \in Nat /\ Len(stack) = Len(stack') + 1
      /\ \A d \in 1 .. Len(stack') - 1 : stack'[d] = stack[d]
      /\ \A d \in 1 .. Len(stack') :
            SameText(stack[d], stack'[d]) /\ stack'[d].kind = stack[d].kind
      /\ Len(stack') # 0 => stack'[Len(stack')].at = stack[Len(stack')].at + 1
  BY LeaveSetsPlace
<1>2. /\ stack \in Seq(Frame) /\ cond \in Seq(Cond) /\ Len(cond) \in Nat
      /\ Top = stack[Len(stack)]
  BY LenProperties DEF IInv, TypeOK, Cond, Top, Depth
<1>3. Len(stack) \in 1 .. Len(stack)
  BY <1>1
<1>4. StackHasFlags(cond, Len(cond), stack, prog.oneCloser)
  BY DEF Closing
<1>5. Top.conds \in 0 .. Len(cond)
  BY <1>2, <1>3, <1>4 DEF StackHasFlags
<1>6. OwnConds(Top) \in 0 .. Len(cond) /\ OwnConds(Top) \in Nat /\ Top.conds <= OwnConds(Top)
      /\ Top.conds \in Nat /\ OwnConds(Top) <= Len(cond)
  BY <1>2, <1>5 DEF OwnConds
<1>7. Len(cond') = OwnConds(Top) /\ Agree(cond, cond', OwnConds(Top))
  <2>1. cond' = IF Len(cond) > OwnConds(Top) THEN SubSeq(cond, 1, OwnConds(Top)) ELSE cond
    BY DEF Leave
  <2>2. CASE Len(cond) > OwnConds(Top)
    BY <1>2, <1>6, <2>1, <2>2, PrefixOfSeq DEF Agree
  <2>3. CASE ~(Len(cond) > OwnConds(Top))
    BY <1>2, <1>6, <2>1, <2>3 DEF Agree
  <2> QED
    BY <2>2, <2>3
<1>8. Agree(cond, cond', Top.conds) /\ Top.conds <= Len(cond') /\ Len(cond') \in Nat
  BY <1>6, <1>7, AgreeBelow
<1>9. Len(stack') # 0 => /\ SameText(stack[Len(stack')], stack'[Len(stack')])
                         /\ stack'[Len(stack')].at = stack[Len(stack')].at + 1
  BY <1>1
<1>10. StackHasFlags(cond', Len(cond'), stack', prog.oneCloser)
  BY <1>1, <1>2, <1>4, <1>8, <1>9, FlagsReturn
<1>11. ASSUME NEW d \in 1 .. Len(stack') PROVE NoneOverlooked(stack'[d].text)
  BY <1>1 DEF SameText, Closing
<1>12. OutersActive(cond')
  BY <1>2, <1>6, <1>7, OutersStayActive DEF Closing
<1> QED
  BY <1>10, <1>11, <1>12

(* An input begins with those there are.                                   *)
LEMMA InputHasFlags ==
    ASSUME NEW vs, NEW h \in Nat, NEW text \in Text, Foreseen(text), NEW st,
           st = <<[text |-> text, at |-> 1, kind |-> "input", conds |-> h, stopped |-> FALSE]>>
    PROVE  /\ StackHasFlags(vs, h, st, prog.oneCloser)
           /\ \A d \in 1 .. Len(st) : NoneOverlooked(st[d].text)
<1>1. Len(st) = 1 /\ st[1].text = text /\ st[1].at = 1 /\ st[1].conds = h
  OBVIOUS
<1>2. IsBracketed(text, prog.oneCloser) /\ NoneOverlooked(text) /\ Len(text) \in Nat
  BY LenProperties DEF Foreseen, Text
<1>3. StackHasFlags(vs, h, st, prog.oneCloser)
  BY <1>1, <1>2, FlagsStart
<1>4. ASSUME NEW d \in 1 .. Len(st) PROVE NoneOverlooked(st[d].text)
  BY <1>1, <1>2
<1> QED
  BY <1>3, <1>4

(* So does the next,                                                       *)
LEMMA NextInputKeepsFlags ==
    ASSUME IInv, AllForeseen, Closing, NextInput
    PROVE  /\ StackHasFlags(cond', Len(cond'), stack', prog.oneCloser)
           /\ \A d \in 1 .. Len(stack') : NoneOverlooked(stack'[d].text)
           /\ OutersActive(cond')
<1>1. /\ prog.inputs \in Seq(Text) /\ Len(prog.inputs) \in Nat /\ input \in 1 .. Len(prog.inputs)
  BY LenProperties DEF IInv, TypeOK, Program
<1>2. input + 1 \in 1 .. Len(prog.inputs)
  BY <1>1 DEF NextInput
<1>3. PICK text \in Text : text = prog.inputs[input + 1]
  BY <1>1, <1>2, ElementOfSeq
<1>4. Foreseen(text)
  BY <1>1, <1>2, <1>3 DEF AllForeseen, TextsOf
<1>5. Len(cond) \in Nat /\ cond' = cond
  BY LenProperties DEF IInv, TypeOK, NextInput
<1>6. stack' = <<[text |-> text, at |-> 1, kind |-> "input", conds |-> Len(cond),
                  stopped |-> FALSE]>>
  BY <1>3 DEF NextInput, Enter
<1>7. /\ StackHasFlags(cond, Len(cond), stack', prog.oneCloser)
      /\ \A d \in 1 .. Len(stack') : NoneOverlooked(stack'[d].text)
  BY <1>4, <1>5, <1>6, InputHasFlags
<1> QED
  BY <1>5, <1>7 DEF Closing

(* and the first.                                                          *)
LEMMA InitCloses == Init => ClosingInv
<1> SUFFICES ASSUME Init, AllForeseen PROVE Closing /\ errors \cap BlockErrors = {}
  BY InitInv DEF ClosingInv
<1>1. prog.inputs \in Seq(Text) /\ prog.inputs # <<>> /\ IInv
  BY InitInv DEF IInv, TypeOK, Program
<1>2. 1 \in 1 .. Len(prog.inputs)
  BY <1>1, EmptySeq DEF IInv, TypeOK, Init
<1>3. PICK text \in Text : text = prog.inputs[1]
  BY <1>1, <1>2, ElementOfSeq
<1>4. Foreseen(text)
  BY <1>1, <1>2, <1>3 DEF AllForeseen, TextsOf
<1>5. /\ stack = <<[text |-> text, at |-> 1, kind |-> "input", conds |-> 0, stopped |-> FALSE]>>
      /\ cond = <<>> /\ DOMAIN macros = {} /\ errors = {}
  BY <1>3 DEF Init
<1>6. Len(cond) = 0 /\ 0 \in Nat
  BY <1>5
<1>7. /\ StackHasFlags(cond, 0, stack, prog.oneCloser)
      /\ \A d \in 1 .. Len(stack) : NoneOverlooked(stack[d].text)
  BY <1>4, <1>5, <1>6, InputHasFlags
<1>8. OutersActive(cond)
  BY <1>6 DEF OutersActive
<1> QED
  BY <1>5, <1>6, <1>7, <1>8 DEF Closing

(* Every step keeps the flags there have to be.                            *)
LEMMA NextKeepsClosing == ClosingInv /\ [Next]_vars => ClosingInv'
<1> SUFFICES ASSUME ClosingInv, [Next]_vars PROVE ClosingInv'
  OBVIOUS
<1>1. IInv /\ IInv'
  BY NextKeepsInv DEF ClosingInv
<1>2. prog' = prog
  BY ErrorsStay
<1>3. AllForeseen' <=> AllForeseen
  BY <1>2 DEF AllForeseen, Foreseen
<1>4. ASSUME AllForeseen
      PROVE  Closing' /\ errors' \cap BlockErrors = {}
  <2>1. Closing /\ errors \cap BlockErrors = {}
    BY <1>4 DEF ClosingInv
  <2>2. CASE UNCHANGED vars
    BY <2>1, <2>2, <1>2 DEF vars, flags, result, Closing, Foreseen
  <2>3. CASE vars' # vars
    <3>1. /\ StackHasFlags(cond', Len(cond'), stack', prog.oneCloser)
          /\ \A d \in 1 .. Len(stack') : NoneOverlooked(stack'[d].text)
          /\ OutersActive(cond')
          /\ \A m \in DOMAIN macros' : Foreseen(macros'[m])
          /\ errors' \cap BlockErrors = {}
      <4>1. CASE Reading
        BY <1>1, <1>4, <2>1, <2>3, <4>1, StatementKeepsClosing
      <4>2. CASE ~Reading
        <5>1. Leave \/ NextInput
          BY <2>3, <4>2, OnlyReturnsFollow
        <5>2. ~DefineMacro /\ ~Unterminated /\ ~StrayEnd /\ ~DirEndIf
          BY <4>2 DEF DefineMacro, Unterminated, StrayEnd, DirEndIf, Walks, Looks
        <5>3. \A m \in DOMAIN macros' : Foreseen(macros'[m])
          BY <1>1, <2>1, <5>2, MacrosStayForeseen
        <5>4. errors' \cap BlockErrors = {}
          BY <2>1, <5>2, OtherErrors
        <5> QED
          BY <1>1, <1>4, <2>1, <5>1, <5>3, <5>4, ReturnKeepsFlags, NextInputKeepsFlags
      <4> QED
        BY <4>1, <4>2
    <3>2. \A m \in DOMAIN macros' :
             IsBracketed(macros'[m], prog'.oneCloser) /\ NoneOverlooked(macros'[m])
      BY <1>2, <3>1 DEF Foreseen
    <3>3. StackHasFlags(cond', Len(cond'), stack', prog'.oneCloser)
      BY <1>2, <3>1
    <3> QED
      BY <3>1, <3>2, <3>3 DEF Closing, Foreseen
  <2> QED
    BY <2>2, <2>3
<1> QED
  BY <1>1, <1>3, <1>4 DEF ClosingInv

(* No block is left unterminated, no .endm or .endr is stray, and no       *)
(* .endif is without a conditional, in any program whose texts close their *)
(* blocks and conditionals like brackets and use no conditional that a     *)
(* false branch does not look at: whatever is captured, repeated, included *)
(* or walked over, left early, or rewritten too often (capture_block,      *)
(* process, cond).                                                         *)
THEOREM BlocksFollowTheirNesting == Spec => []BlocksFollowNesting
<1>1. ClosingInv => BlocksFollowNesting
  <2> SUFFICES ASSUME ClosingInv, errors \cap BlockErrors # {}
               PROVE  \E text \in TextsOf(prog) :
                         \/ ~IsBracketed(text, prog.oneCloser)
                         \/ \E k \in DOMAIN text : text[k].op \in Overlooked
    BY DEF BlocksFollowNesting
  <2>1. ~AllForeseen
    BY DEF ClosingInv
  <2>2. PICK text \in TextsOf(prog) : ~Foreseen(text)
    BY <2>1 DEF AllForeseen
  <2>3. DOMAIN text = 1 .. Len(text)
    <3>1. prog \in Program
      BY DEF ClosingInv, IInv, TypeOK
    <3>2. prog.inputs \in Seq(Text) /\ prog.files \in Seq(Text) /\ prog.pieces \in Seq(Text)
      BY <3>1 DEF Program
    <3>3. text \in Text
      BY <2>2, <3>2, LenProperties, ElementOfSeq DEF TextsOf
    <3> QED
      BY <3>3, LenProperties DEF Text
  <2> QED
    BY <2>2, <2>3 DEF Foreseen, NoneOverlooked
<1> QED
  BY <1>1, InitCloses, NextKeepsClosing, PTL DEF Spec
=============================================================================
