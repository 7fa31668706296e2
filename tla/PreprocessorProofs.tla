------------------------- MODULE PreprocessorProofs -------------------------
(***************************************************************************)
(* However files, macros and `%rep' blocks contain and leave each other,   *)
(* an exit finds what it leaves and takes nothing else with it.  The guard *)
(* of `%exitmacro' asks for a frame and that of `%exitrep' compares two    *)
(* counters; what makes them enough is that the counters stand for the     *)
(* texts being read, and that nothing is read while a text is being left.  *)
(*                                                                         *)
(* And whatever contains whatever, a line is assembled where its text and  *)
(* the ones around it say so: the one stack of conditionals follows them   *)
(* all.                                                                    *)
(***************************************************************************)
EXTENDS PreprocessorProperties, NestingProofs

Unwinds == {"none", "macro", "rept"}

(* The texts of some kinds among the first n of a stack.                   *)
Of(st, kinds, n) == {k \in 1 .. n : st[k].kind \in kinds}

InputIsOutermost == \A d \in 1 .. Depth : stack[d].kind = "input" <=> d = 1

CountersBounded == depth <= MaxDepth /\ includeDepth <= MaxIncludeDepth + 1

(* The shapes of what the texts to be read come from.                      *)
RestOK ==
    /\ prog \in Program
    /\ conds \in Seq(States)
    /\ macros \subseteq Macro
    /\ definitions \in Nat /\ lastUnique \in Nat
    /\ ended \in BOOLEAN

StackOK ==
    /\ stack \in Seq(Reader)
    /\ reps \in Nat /\ depth \in Nat /\ includeDepth \in Nat
    /\ CountersFollowTexts /\ InputIsOutermost /\ CountersBounded

(* Nothing is read until what is being left has been left.                 *)
LeavingOK ==
    /\ unwind \in Unwinds
    /\ unwind # "none" => stack # <<>> /\ Top.stopped
    /\ ExitsHaveTargets

IInv == RestOK /\ StackOK /\ LeavingOK

-----------------------------------------------------------------------------
(* A set of positions has a greatest one, which Max picks.                 *)
LEMMA Smallest ==
    ASSUME NEW S, S \subseteq Nat, S # {}
    PROVE  \E x \in S : \A y \in S : x <= y
<1> DEFINE R == {ss \in Nat \X Nat : ss[1] < ss[2]}
<1>1. IsWellFoundedOn(R, Nat)
  BY NatLessThanWellFounded DEF OpToRel
<1>2. \E x \in S : \A y \in S : ~ (<<y, x>> \in R)
  <2> HIDE DEF R
  <2> QED
    BY <1>1, WFMin
<1>3. PICK x \in S : \A y \in S : ~ (<<y, x>> \in R)
  BY <1>2
<1>4. ASSUME NEW y \in S PROVE x <= y
  <2>1. x \in Nat /\ y \in Nat
    BY <1>3
  <2>2. y < x => <<y, x>> \in R
    BY <2>1
  <2> QED
    BY <1>3, <2>1, <2>2
<1> QED
  BY <1>3, <1>4

(* Max of a set of positions is its greatest member.                       *)
LEMMA Greatest ==
    ASSUME NEW n \in Nat, NEW S, S \subseteq 1 .. n, S # {}
    PROVE  Max(S) \in S /\ Max(S) \in Nat /\ \A y \in S : y <= Max(S)
<1> DEFINE T == {m \in Nat : n - m \in S}
<1>1. \A k \in S : k \in 1 .. n /\ n - k \in Nat /\ n - (n - k) = k
  OBVIOUS
<1>2. \A k \in S : n - k \in T
  BY <1>1
<1>3. T \subseteq Nat /\ T # {}
  BY <1>2
<1>4. PICK t \in T : \A u \in T : t <= u
  BY <1>3, Smallest
<1>5. n - t \in S /\ t \in Nat
  BY <1>4
<1>6. ASSUME NEW y \in S PROVE n - t >= y
  BY <1>1, <1>2, <1>4, <1>5
<1>7. \E z \in S : \A y \in S : z >= y
  BY <1>5, <1>6
<1> DEFINE max == Max(S)
<1>8. max \in S /\ \A y \in S : max >= y
  BY <1>7 DEF Max
<1> HIDE DEF max
<1>9. max \in S /\ max \in Nat /\ \A y \in S : y <= max
  BY <1>1, <1>8
<1> QED
  BY <1>9 DEF max

-----------------------------------------------------------------------------
(* How a step may change what the stack is made of.                        *)
SameBelow(s, t, n) == \A d \in 1 .. n : t[d].kind = s[d].kind /\ t[d].reps = s[d].reps
SameTexts(s, t) == Len(t) = Len(s) /\ SameBelow(s, t, Len(s))
Pushed(s, t, kind) == Len(t) = Len(s) + 1 /\ SameBelow(s, t, Len(s)) /\ t[Len(t)].kind = kind
Popped(s, t) == Len(s) = Len(t) + 1 /\ SameBelow(s, t, Len(t))

(* Texts of some kinds are counted by a number.                            *)
LEMMA TextsCount ==
    ASSUME NEW st \in Seq(Reader), NEW kinds, NEW n \in Nat
    PROVE  /\ IsFiniteSet(Of(st, kinds, n))
           /\ Cardinality(Of(st, kinds, n)) \in Nat
<1>1. Of(st, kinds, n) \subseteq 1 .. n
  BY DEF Of
<1>2. IsFiniteSet(1 .. n)
  BY FS_Interval
<1> QED
  BY <1>1, <1>2, FS_Subset, FS_CardinalityType

(* What was counted below a change is counted after it.                    *)
LEMMA BelowCounts ==
    ASSUME NEW s, NEW t, NEW n \in Nat, NEW m \in 0 .. n, NEW kinds, SameBelow(s, t, n)
    PROVE  Of(t, kinds, m) = Of(s, kinds, m)
BY DEF Of, SameBelow

(* One text more is counted if it is of a kind that is counted.            *)
LEMMA OneMoreCounts ==
    ASSUME NEW st \in Seq(Reader), NEW kinds, NEW n \in Nat \ {0}
    PROVE  Cardinality(Of(st, kinds, n)) =
             Cardinality(Of(st, kinds, n - 1)) + (IF st[n].kind \in kinds THEN 1 ELSE 0)
<1>1. n - 1 \in Nat /\ n \notin Of(st, kinds, n - 1)
  BY DEF Of
<1>2. /\ IsFiniteSet(Of(st, kinds, n - 1))
      /\ Cardinality(Of(st, kinds, n - 1)) \in Nat
  BY <1>1, TextsCount
<1>3. CASE st[n].kind \in kinds
  <2>1. Of(st, kinds, n) = Of(st, kinds, n - 1) \cup {n}
    BY <1>3 DEF Of
  <2> QED
    BY <1>1, <1>2, <1>3, <2>1, FS_AddElement
<1>4. CASE st[n].kind \notin kinds
  <2>1. Of(st, kinds, n) = Of(st, kinds, n - 1)
    BY <1>4 DEF Of
  <2> QED
    BY <1>2, <1>4, <2>1
<1> QED
  BY <1>3, <1>4

(* CountersFollowTexts, of any stack and any counters.                     *)
Counted(st, r, n, files) ==
    /\ r = Cardinality(Of(st, {"rept"}, Len(st)))
    /\ n = Cardinality(Of(st, {"macro", "rept"}, Len(st)))
    /\ files = Cardinality(Of(st, {"include"}, Len(st)))
    /\ \A d \in 1 .. Len(st) :
          st[d].kind = "macro" => st[d].reps = Cardinality(Of(st, {"rept"}, d))

(* The counters follow the texts when they count the stack.                *)
LEMMA CountedIsFollowing == CountersFollowTexts <=> Counted(stack, reps, depth, includeDepth)
BY DEF CountersFollowTexts, Counted, Among, Of, Depth, Frames

(* The same of the state after a step.                                     *)
LEMMA CountedIsFollowingNext ==
    CountersFollowTexts' <=> Counted(stack', reps', depth', includeDepth')
BY DEF CountersFollowTexts, Counted, Among, Of, Depth, Frames

(* A stack of the same texts is counted by the same counters.              *)
LEMMA SameCounted ==
    ASSUME NEW s \in Seq(Reader), NEW t \in Seq(Reader), SameTexts(s, t),
           NEW r, NEW n, NEW files, Counted(s, r, n, files)
    PROVE  Counted(t, r, n, files)
<1>1. Len(s) \in Nat /\ Len(t) = Len(s) /\ SameBelow(s, t, Len(s))
  BY LenProperties DEF SameTexts
<1>2. ASSUME NEW kinds, NEW m \in 0 .. Len(s)
      PROVE  Of(t, kinds, m) = Of(s, kinds, m)
  BY <1>1, BelowCounts
<1>3. ASSUME NEW kinds PROVE Of(t, kinds, Len(t)) = Of(s, kinds, Len(s))
  BY <1>1, <1>2
<1>4. ASSUME NEW d \in 1 .. Len(t), t[d].kind = "macro"
      PROVE  t[d].reps = Cardinality(Of(t, {"rept"}, d))
  BY <1>1, <1>2, <1>4 DEF SameBelow, Counted
<1> QED
  BY <1>3, <1>4 DEF Counted

(* Pushing a text and counting it keeps the counters following, when a     *)
(* macro notes how many `%rep' blocks there are,                           *)
LEMMA PushCounted ==
    ASSUME NEW s \in Seq(Reader), NEW t \in Seq(Reader), NEW kind, Pushed(s, t, kind),
           NEW r, NEW n, NEW files, Counted(s, r, n, files),
           kind = "macro" => t[Len(t)].reps = r
    PROVE  Counted(t, r + (IF kind = "rept" THEN 1 ELSE 0),
                   n + (IF kind \in {"macro", "rept"} THEN 1 ELSE 0),
                   files + (IF kind = "include" THEN 1 ELSE 0))
<1>1. /\ Len(s) \in Nat /\ Len(t) \in Nat \ {0} /\ Len(t) - 1 = Len(s)
      /\ SameBelow(s, t, Len(s)) /\ t[Len(t)].kind = kind
  BY LenProperties DEF Pushed
<1>2. ASSUME NEW kinds, NEW m \in 0 .. Len(s)
      PROVE  Of(t, kinds, m) = Of(s, kinds, m)
  BY <1>1, BelowCounts
<1>3. ASSUME NEW kinds
      PROVE  Cardinality(Of(t, kinds, Len(t))) =
               Cardinality(Of(s, kinds, Len(s))) + (IF kind \in kinds THEN 1 ELSE 0)
  BY <1>1, <1>2, OneMoreCounts
<1>4. ASSUME NEW d \in 1 .. Len(t), t[d].kind = "macro"
      PROVE  t[d].reps = Cardinality(Of(t, {"rept"}, d))
  <2>1. CASE d = Len(t)
    BY <1>1, <1>3, <1>4, <2>1, TextsCount DEF Counted
  <2>2. CASE d # Len(t)
    BY <1>1, <1>2, <1>4, <2>2 DEF SameBelow, Counted
  <2> QED
    BY <2>1, <2>2
<1> QED
  BY <1>3, <1>4 DEF Counted

(* and so does leaving one and counting it no more.                        *)
LEMMA PopCounted ==
    ASSUME NEW s \in Seq(Reader), NEW t \in Seq(Reader), Popped(s, t),
           NEW r, NEW n, NEW files, Counted(s, r, n, files)
    PROVE  /\ Counted(t, r - (IF s[Len(s)].kind = "rept" THEN 1 ELSE 0),
                      n - (IF s[Len(s)].kind \in {"macro", "rept"} THEN 1 ELSE 0),
                      files - (IF s[Len(s)].kind = "include" THEN 1 ELSE 0))
<1> DEFINE kind == s[Len(s)].kind
<1>1. /\ Len(s) \in Nat \ {0} /\ Len(t) \in Nat /\ Len(s) - 1 = Len(t)
      /\ SameBelow(s, t, Len(t))
  BY LenProperties DEF Popped
<1>2. ASSUME NEW kinds, NEW m \in 0 .. Len(t)
      PROVE  Of(t, kinds, m) = Of(s, kinds, m)
  BY <1>1, BelowCounts
<1>3. ASSUME NEW kinds
      PROVE  Cardinality(Of(t, kinds, Len(t))) =
               Cardinality(Of(s, kinds, Len(s))) - (IF kind \in kinds THEN 1 ELSE 0)
  <2>1. Of(t, kinds, Len(t)) = Of(s, kinds, Len(t))
    BY <1>1, <1>2
  <2>2. /\ Cardinality(Of(s, kinds, Len(t))) \in Nat
        /\ Cardinality(Of(s, kinds, Len(s))) =
             Cardinality(Of(s, kinds, Len(t))) + (IF kind \in kinds THEN 1 ELSE 0)
    BY <1>1, TextsCount, OneMoreCounts
  <2> QED
    BY <2>1, <2>2
<1>4. ASSUME NEW d \in 1 .. Len(t), t[d].kind = "macro"
      PROVE  t[d].reps = Cardinality(Of(t, {"rept"}, d))
  BY <1>1, <1>2, <1>4 DEF SameBelow, Counted
<1>5. kind = "rept" <=> kind \in {"rept"}
  OBVIOUS
<1>6. kind = "include" <=> kind \in {"include"}
  OBVIOUS
<1> HIDE DEF kind
<1>7. Counted(t, r - (IF kind = "rept" THEN 1 ELSE 0),
              n - (IF kind \in {"macro", "rept"} THEN 1 ELSE 0),
              files - (IF kind = "include" THEN 1 ELSE 0))
  BY <1>3, <1>4, <1>5, <1>6 DEF Counted
<1> QED
  BY <1>7 DEF kind

-----------------------------------------------------------------------------
(* The three things a step does to the stack, with its counters, all of    *)
(* which keep what is known of it: reading on in the same texts,           *)
Moves ==
    /\ stack' \in Seq(Reader) /\ SameTexts(stack, stack')
    /\ UNCHANGED counters

(* A step that stays in the same texts keeps the stack in order.           *)
LEMMA MovesKeepStack ==
    ASSUME StackOK, Moves
    PROVE  StackOK'
<1>1. /\ stack \in Seq(Reader) /\ stack' \in Seq(Reader) /\ SameTexts(stack, stack')
      /\ reps' = reps /\ depth' = depth /\ includeDepth' = includeDepth
  BY DEF StackOK, Moves, counters
<1>2. CountersFollowTexts'
  BY <1>1, SameCounted, CountedIsFollowing, CountedIsFollowingNext DEF StackOK
<1>3. InputIsOutermost'
  BY <1>1, LenProperties DEF StackOK, InputIsOutermost, SameTexts, SameBelow, Depth
<1> QED
  BY <1>1, <1>2, <1>3 DEF StackOK, CountersBounded

(* reading another text under one more of what counts it,                  *)
Pushes(kind) ==
    /\ stack' \in Seq(Reader) /\ Pushed(stack, stack', kind)
    /\ kind = "macro" => stack'[Len(stack')].reps = reps
    /\ kind \in {"macro", "rept"} => depth < MaxDepth
    /\ kind = "include" => includeDepth <= MaxIncludeDepth
    /\ reps' = reps + (IF kind = "rept" THEN 1 ELSE 0)
    /\ depth' = depth + (IF kind \in {"macro", "rept"} THEN 1 ELSE 0)
    /\ includeDepth' = includeDepth + (IF kind = "include" THEN 1 ELSE 0)

(* So does a step that starts reading a text.                              *)
LEMMA PushesKeepStack ==
    ASSUME StackOK, stack # <<>>, NEW kind \in Kinds \ {"input"}, Pushes(kind)
    PROVE  StackOK'
<1>1. /\ stack \in Seq(Reader) /\ stack' \in Seq(Reader) /\ Pushed(stack, stack', kind)
      /\ reps \in Nat /\ depth \in Nat /\ includeDepth \in Nat
      /\ Len(stack) \in Nat \ {0}
  BY EmptySeq, LenProperties DEF StackOK, Pushes
<1>2. CountersFollowTexts'
  BY <1>1, PushCounted, CountedIsFollowing, CountedIsFollowingNext DEF StackOK, Pushes
<1>3. InputIsOutermost'
  BY <1>1 DEF StackOK, InputIsOutermost, Pushed, SameBelow, Depth
<1>4. CountersBounded'
  BY <1>1, LimitsAssumption DEF Pushes, StackOK, CountersBounded
<1>5. reps' \in Nat /\ depth' \in Nat /\ includeDepth' \in Nat
  BY <1>1 DEF Pushes
<1> QED
  BY <1>1, <1>2, <1>3, <1>4, <1>5 DEF StackOK

(* and leaving one.                                                        *)
Pops ==
    /\ stack # <<>> /\ stack' \in Seq(Reader) /\ Popped(stack, stack')
    /\ reps' = reps - (IF Top.kind = "rept" THEN 1 ELSE 0)
    /\ depth' = depth - (IF Top.kind \in {"macro", "rept"} THEN 1 ELSE 0)
    /\ includeDepth' = includeDepth - (IF Top.kind = "include" THEN 1 ELSE 0)

(* So does a step that leaves the innermost text.                          *)
LEMMA PopsKeepStack ==
    ASSUME StackOK, Pops
    PROVE  StackOK'
<1>1. /\ stack \in Seq(Reader) /\ stack' \in Seq(Reader) /\ Popped(stack, stack')
      /\ reps \in Nat /\ depth \in Nat /\ includeDepth \in Nat
      /\ Len(stack') \in Nat /\ Top = stack[Len(stack)]
  BY LenProperties DEF StackOK, Pops, Top, Depth
<1>2. Counted(stack', reps', depth', includeDepth')
  BY <1>1, PopCounted, CountedIsFollowing DEF StackOK, Pops
<1>3. reps' \in Nat /\ depth' \in Nat /\ includeDepth' \in Nat
  BY <1>1, <1>2, TextsCount DEF Counted
<1>4. InputIsOutermost'
  BY <1>1 DEF StackOK, InputIsOutermost, Popped, SameBelow, Depth
<1>5. CountersBounded'
  BY <1>1, <1>3, LimitsAssumption DEF Pops, StackOK, CountersBounded
<1> QED
  BY <1>1, <1>2, <1>3, <1>4, <1>5, CountedIsFollowingNext DEF StackOK

-----------------------------------------------------------------------------
(* What a step that reads a line has to hand.                              *)
LEMMA WhatIsRead ==
    ASSUME StackOK, Reading
    PROVE  /\ stack # <<>> /\ stack \in Seq(Reader) /\ Len(stack) = Depth
           /\ Depth \in Nat \ {0} /\ Depth \in 1 .. Len(stack)
           /\ Top = stack[Depth] /\ Top \in Reader /\ ~Top.stopped
           /\ Top.text \in Lines /\ Len(Top.text) \in Nat
           /\ Top.at \in 1 .. Len(Top.text) /\ Top.at + 1 \in Nat \ {0}
           /\ Stmt \in Line
<1>1. stack \in Seq(Reader) /\ stack # <<>> /\ HasLine(Top)
  BY DEF StackOK, Reading
<1>2. Len(stack) \in Nat \ {0}
  BY <1>1, LenProperties, EmptySeq
<1>3. Top \in Reader
  BY <1>1, <1>2, ElementOfSeq DEF Top, Depth
<1>4. Top.text \in Lines /\ Top.at \in Nat \ {0} /\ Top.at <= Len(Top.text) /\ ~Top.stopped
  BY <1>1, <1>3 DEF Reader, HasLine
<1>5. Len(Top.text) \in Nat
  BY <1>4, LenProperties DEF Lines
<1>6. Top.at \in 1 .. Len(Top.text)
  BY <1>4, <1>5
<1>7. Stmt \in Line
  BY <1>4, <1>6, ElementOfSeq DEF Lines, Stmt
<1> QED
  BY <1>1, <1>2, <1>3, <1>4, <1>5, <1>6, <1>7 DEF Depth, Top

(* Nothing is being left while a line is read.                             *)
LEMMA ReadingGoesOn ==
    ASSUME StackOK, LeavingOK, Reading
    PROVE  unwind = "none"
BY DEF LeavingOK, Reading, HasLine

(* Moving on in one text leaves it of the kind it was, and the others.     *)
LEMMA OneMoves ==
    ASSUME NEW s \in Seq(Reader), NEW d \in 1 .. Len(s), NEW f \in Reader,
           f.kind = s[d].kind, f.reps = s[d].reps
    PROVE  /\ [s EXCEPT ![d] = f] \in Seq(Reader)
           /\ SameTexts(s, [s EXCEPT ![d] = f])
           /\ [s EXCEPT ![d] = f][d] = f
<1> DEFINE t == [s EXCEPT ![d] = f]
<1>1. /\ t \in Seq(Reader) /\ Len(t) = Len(s)
      /\ \A k \in 1 .. Len(s) : t[k] = IF k = d THEN f ELSE s[k]
  BY ExceptSeq
<1> HIDE DEF t
<1>2. t \in Seq(Reader) /\ SameTexts(s, t) /\ t[d] = f
  BY <1>1 DEF SameTexts, SameBelow
<1> QED
  BY <1>2 DEF t

(* Setting what the innermost text reads next is a move.                   *)
LEMMA GoToMoves ==
    ASSUME StackOK, Reading, NEW at \in Nat \ {0}, NEW stop \in BOOLEAN, GoTo(at, stop)
    PROVE  /\ stack' \in Seq(Reader) /\ SameTexts(stack, stack')
           /\ stack' # <<>> /\ Top'.stopped = stop
<1> DEFINE f == [Top EXCEPT !.at = at, !.stopped = stop]
<1>1. /\ stack \in Seq(Reader) /\ Depth \in 1 .. Len(stack) /\ Len(stack) = Depth
      /\ Top \in Reader /\ Top = stack[Depth] /\ Depth \in Nat \ {0}
  BY WhatIsRead
<1>2. stack' = [stack EXCEPT ![Depth] = f]
  BY <1>1 DEF GoTo, Reader
<1>3. f \in Reader /\ f.kind = Top.kind /\ f.reps = Top.reps /\ f.stopped = stop
  BY <1>1 DEF Reader
<1> HIDE DEF f
<1>4. stack' \in Seq(Reader) /\ SameTexts(stack, stack') /\ stack'[Depth] = f
  BY <1>1, <1>2, <1>3, OneMoves
<1>5. Len(stack') = Depth /\ stack' # <<>>
  BY <1>1, <1>4, EmptySeq DEF SameTexts
<1> QED
  BY <1>3, <1>4, <1>5 DEF Top, Depth

(* Most lines are read on from, and nothing else changes.                  *)
LEMMA GoToKeepsInv ==
    ASSUME StackOK, LeavingOK, Reading, NEW at \in Nat \ {0}, NEW stop \in BOOLEAN,
           GoTo(at, stop), UNCHANGED counters, unwind' = unwind
    PROVE  StackOK' /\ LeavingOK'
BY GoToMoves, MovesKeepStack, ReadingGoesOn DEF Moves, LeavingOK, ExitsHaveTargets, Unwinds

-----------------------------------------------------------------------------
(* Truncating a sequence keeps its lower elements.                         *)
LEMMA PrefixOfSeq ==
    ASSUME NEW S, NEW s \in Seq(S), NEW n \in 0 .. Len(s)
    PROVE  /\ SubSeq(s, 1, n) \in Seq(S) /\ Len(SubSeq(s, 1, n)) = n
           /\ \A d \in 1 .. n : SubSeq(s, 1, n)[d] = s[d]
BY LenProperties, ElementOfSeq, SubSeqProperties

(* What a block holds is lines, and so are the copies a `%rep' reads.      *)
LEMMA BlockTexts ==
    ASSUME NEW text \in Lines, NEW i \in 1 .. Len(text),
           NEW end \in BlockEnds(text, i, FALSE), NEW n \in Nat
    PROVE  /\ end \in Nat \ {0} /\ end + 1 \in Nat \ {0}
           /\ Body(text, i, end) \in Lines
           /\ Copies(Body(text, i, end), n) \in Lines
<1>1. Len(text) \in Nat /\ text \in Seq(Line)
  BY LenProperties DEF Lines
<1>2. end \in i + 1 .. Len(text)
  BY DEF BlockEnds
<1>3. Body(text, i, end) \in Seq(Line)
  <2>1. CASE i + 1 <= end - 1
    BY <1>1, <1>2, <2>1, SubSeqProperties DEF Body
  <2>2. CASE ~(i + 1 <= end - 1)
    BY <1>1, <1>2, <2>2, SubSeqEmpty, EmptySeq DEF Body
  <2> QED
    BY <2>1, <2>2
<1> DEFINE body == Body(text, i, end)
<1> HIDE DEF body
<1>4. body \in Seq(Line) /\ Len(body) \in Nat
  BY <1>3, LenProperties DEF body
<1>5. Copies(body, n) \in Seq(Line)
  <2>1. n * Len(body) \in Nat
    BY <1>4
  <2>2. ASSUME NEW k \in 1 .. n * Len(body)
        PROVE  body[((k - 1) % Len(body)) + 1] \in Line
    BY <1>4, <2>1, <2>2, ElementOfSeq
  <2> QED
    BY <2>1, <2>2, IsASeq DEF Copies
<1> QED
  BY <1>1, <1>2, <1>3, <1>5 DEF Lines, body

(* A text as it begins to be read.                                         *)
LEMMA ReadIsReader ==
    ASSUME RestOK, NEW text \in Lines, NEW kind \in Kinds
    PROVE  Read(text, kind) \in Reader /\ Read(text, kind).kind = kind
BY LenProperties DEF RestOK, Read, Reader

(* A text appended to a stack of the same texts is pushed.                 *)
LEMMA AppendPushes ==
    ASSUME NEW s \in Seq(Reader), NEW t \in Seq(Reader), NEW f \in Reader, SameTexts(s, t)
    PROVE  /\ Append(t, f) \in Seq(Reader) /\ Pushed(s, Append(t, f), f.kind)
           /\ Append(t, f)[Len(Append(t, f))] = f
BY AppendProperties, LenProperties DEF SameTexts, SameBelow, Pushed

(* Reading on in a new text: nothing is being left.                        *)
LEMMA PushKeepsInv ==
    ASSUME StackOK, LeavingOK, Reading, NEW t \in Seq(Reader), SameTexts(stack, t),
           NEW f \in Reader, f.kind # "input", stack' = Append(t, f), unwind' = unwind,
           f.kind = "macro" => f.reps = reps,
           f.kind \in {"macro", "rept"} => depth < MaxDepth,
           f.kind = "include" => includeDepth <= MaxIncludeDepth,
           reps' = reps + (IF f.kind = "rept" THEN 1 ELSE 0),
           depth' = depth + (IF f.kind \in {"macro", "rept"} THEN 1 ELSE 0),
           includeDepth' = includeDepth + (IF f.kind = "include" THEN 1 ELSE 0)
    PROVE  StackOK' /\ LeavingOK'
<1>1. stack \in Seq(Reader) /\ stack # <<>>
  BY WhatIsRead
<1>2. Pushes(f.kind)
  BY <1>1, AppendPushes DEF Pushes
<1>3. f.kind \in Kinds \ {"input"}
  BY DEF Reader
<1>4. StackOK'
  BY <1>1, <1>2, <1>3, PushesKeepStack
<1>5. unwind = "none"
  BY ReadingGoesOn
<1> QED
  BY <1>4, <1>5 DEF LeavingOK, ExitsHaveTargets, Unwinds

-----------------------------------------------------------------------------
(* An exit that finds its target among the texts being read.               *)
LEMMA ExitKeepsInv ==
    ASSUME StackOK, LeavingOK, Reading, NEW kind \in {"macro", "rept"}, unwind' = kind,
           GoTo(Top.at + 1, TRUE), UNCHANGED counters,
           NEW d \in 1 .. Depth, stack[d].kind = kind,
           \A k \in d + 1 .. Depth : stack[k].kind \in Between(kind)
    PROVE  StackOK' /\ LeavingOK'
<1>1. Top.at + 1 \in Nat \ {0} /\ TRUE \in BOOLEAN /\ Len(stack) = Depth /\ Depth \in Nat
  BY WhatIsRead
<1>2. /\ stack' \in Seq(Reader) /\ SameTexts(stack, stack')
      /\ stack' # <<>> /\ Top'.stopped = TRUE
  BY <1>1, GoToMoves
<1>3. StackOK'
  BY <1>2, MovesKeepStack DEF Moves
<1>4. Len(stack') = Depth /\ \A k \in 1 .. Depth : stack'[k].kind = stack[k].kind
  BY <1>1, <1>2 DEF SameTexts, SameBelow
<1>5. ExitsHaveTargets'
  BY <1>1, <1>4 DEF ExitsHaveTargets, Depth
<1> QED
  BY <1>2, <1>3, <1>5 DEF LeavingOK, Unwinds

(* The texts of some kinds that are being read have an innermost, and the  *)
(* texts inside it are of other kinds.                                     *)
LEMMA InnermostOf ==
    ASSUME StackOK, NEW kinds, NEW d \in 1 .. Depth, stack[d].kind \in kinds
    PROVE  LET m == Max(Of(stack, kinds, Depth))
           IN  /\ m \in 1 .. Depth /\ stack[m].kind \in kinds /\ d <= m
               /\ \A k \in m + 1 .. Depth : stack[k].kind \in Kinds \ (kinds \cup {"input"})
<1> DEFINE S == Of(stack, kinds, Depth)
           m == Max(S)
<1>1. stack \in Seq(Reader) /\ Depth \in Nat /\ Depth = Len(stack)
  BY LenProperties DEF StackOK, Depth
<1>2. S \subseteq 1 .. Depth /\ d \in S
  BY DEF Of
<1>3. \A k \in 1 .. Depth : k \in S <=> stack[k].kind \in kinds
  BY DEF Of
<1> HIDE DEF S
<1>4. m \in S /\ m \in Nat /\ \A y \in S : y <= m
  BY <1>1, <1>2, Greatest
<1> HIDE DEF m
<1>5. ASSUME NEW k \in m + 1 .. Depth
      PROVE  stack[k].kind \in Kinds \ (kinds \cup {"input"})
  <2>1. k \in 1 .. Depth /\ m < k /\ k # 1
    BY <1>1, <1>2, <1>4
  <2>2. stack[k].kind \notin kinds
    BY <1>3, <1>4, <2>1
  <2>3. stack[k] \in Reader
    BY <1>1, <2>1, ElementOfSeq
  <2> QED
    BY <2>1, <2>2, <2>3 DEF StackOK, InputIsOutermost, Reader
<1> QED
  BY <1>2, <1>3, <1>4, <1>5 DEF m, S

(* `%exitmacro' leaves the innermost macro.                                *)
LEMMA ExitMacroKeepsInv ==
    ASSUME StackOK, LeavingOK, ExitMacro
    PROVE  StackOK' /\ LeavingOK'
<1>1. Reading /\ UNCHANGED counters
  BY DEF ExitMacro, Walks
<1>2. Top.at + 1 \in Nat \ {0} /\ FALSE \in BOOLEAN
  BY <1>1, WhatIsRead
<1>3. CASE ~InMacro
  BY <1>1, <1>2, <1>3, GoToKeepsInv DEF ExitMacro
<1>4. CASE InMacro
  <2>1. PICK d \in 1 .. Depth : stack[d].kind \in {"macro"}
    BY <1>4 DEF InMacro, Frames
  <2>2. PICK m \in 1 .. Depth :
           /\ stack[m].kind \in {"macro"}
           /\ \A k \in m + 1 .. Depth : stack[k].kind \in Kinds \ ({"macro"} \cup {"input"})
    BY <2>1, InnermostOf
  <2>3. \A k \in m + 1 .. Depth : stack[k].kind \in Between("macro")
    BY <2>2 DEF Kinds, Between
  <2>4. unwind' = "macro" /\ GoTo(Top.at + 1, TRUE)
    BY <1>4 DEF ExitMacro
  <2> QED
    BY <1>1, <2>2, <2>3, <2>4, ExitKeepsInv
<1> QED
  BY <1>3, <1>4

(* `%exitrep' leaves the innermost `%rep' block: where the counters say    *)
(* there is one inside the innermost macro, there is one.                  *)
LEMMA ExitRepKeepsInv ==
    ASSUME StackOK, LeavingOK, ExitRep
    PROVE  StackOK' /\ LeavingOK'
<1>1. Reading /\ UNCHANGED counters
  BY DEF ExitRep, Walks
<1>2. Top.at + 1 \in Nat \ {0} /\ FALSE \in BOOLEAN
  BY <1>1, WhatIsRead
<1>3. CASE reps <= Floor
  BY <1>1, <1>2, <1>3, GoToKeepsInv DEF ExitRep
<1>4. CASE ~(reps <= Floor)
  <2>1. stack \in Seq(Reader) /\ Depth = Len(stack) /\ Depth \in Nat
    BY LenProperties DEF StackOK, Depth
  <2>2. reps = Cardinality(Of(stack, {"rept"}, Depth)) /\ reps \in Nat
    BY DEF StackOK, CountersFollowTexts, Among, Of
  <2>3. ASSUME NEW n \in 0 .. Depth,
               ~(Cardinality(Of(stack, {"rept"}, Depth)) <= Cardinality(Of(stack, {"rept"}, n)))
        PROVE  \E r \in n + 1 .. Depth : stack[r].kind \in {"rept"}
    <3>1. Of(stack, {"rept"}, Depth) # Of(stack, {"rept"}, n)
      BY <2>1, <2>2, <2>3
    <3> QED
      BY <2>1, <2>3, <3>1 DEF Of
  <2>4. \E r \in 1 .. Depth :
           /\ stack[r].kind \in {"rept"}
           /\ \A k \in r + 1 .. Depth : stack[k].kind \notin {"macro"}
    <3>1. CASE InMacro
      <4> DEFINE m == Max(Of(stack, {"macro"}, Depth))
      <4>1. PICK d \in 1 .. Depth : stack[d].kind \in {"macro"}
        BY <3>1 DEF InMacro, Frames
      <4>2. /\ m \in 1 .. Depth /\ stack[m].kind \in {"macro"}
            /\ \A k \in m + 1 .. Depth : stack[k].kind \in Kinds \ ({"macro"} \cup {"input"})
        BY <4>1, InnermostOf
      <4>3. Frames = Of(stack, {"macro"}, Depth)
        BY DEF Frames, Of
      <4>4. Floor = stack[m].reps
        BY <3>1, <4>3 DEF Floor, Innermost
      <4> HIDE DEF m
      <4>5. stack[m].reps = Cardinality(Of(stack, {"rept"}, m))
        BY <4>2 DEF StackOK, CountersFollowTexts, Frames, Among, Of
      <4>6. PICK r \in m + 1 .. Depth : stack[r].kind \in {"rept"}
        BY <1>4, <2>1, <2>2, <2>3, <4>2, <4>4, <4>5
      <4> QED
        BY <2>1, <4>2, <4>6
    <3>2. CASE ~InMacro
      <4>1. Floor = 0 /\ Of(stack, {"rept"}, 0) = {}
        BY <3>2 DEF Floor, Of
      <4>2. Cardinality(Of(stack, {"rept"}, 0)) = 0
        BY <4>1, FS_EmptySet
      <4>3. PICK r \in 0 + 1 .. Depth : stack[r].kind \in {"rept"}
        BY <1>4, <2>1, <2>2, <2>3, <4>1, <4>2
      <4>4. \A k \in 1 .. Depth : stack[k].kind # "macro"
        BY <3>2 DEF InMacro, Frames
      <4> QED
        BY <2>1, <4>3, <4>4
    <3> QED
      BY <3>1, <3>2
  <2>5. PICK r \in 1 .. Depth :
           /\ stack[r].kind \in {"rept"}
           /\ \A k \in r + 1 .. Depth : stack[k].kind \notin {"macro"}
    BY <2>4
  <2>6. PICK m \in 1 .. Depth :
           /\ stack[m].kind \in {"rept"} /\ r <= m
           /\ \A k \in m + 1 .. Depth : stack[k].kind \in Kinds \ ({"rept"} \cup {"input"})
    BY <2>5, InnermostOf
  <2>7. \A k \in m + 1 .. Depth : stack[k].kind \in Between("rept")
    BY <2>1, <2>5, <2>6 DEF Kinds, Between
  <2>8. unwind' = "rept" /\ GoTo(Top.at + 1, TRUE)
    BY <1>4 DEF ExitRep
  <2> QED
    BY <1>1, <2>6, <2>7, <2>8, ExitKeepsInv
<1> QED
  BY <1>3, <1>4

-----------------------------------------------------------------------------
(* The conditionals keep their shape.                                      *)
LEMMA CondsKeepShape ==
    ASSUME RestOK, StackOK, DirIf \/ DirElif \/ DirElse \/ DirEndif
    PROVE  conds' \in Seq(States)
<1>1. conds \in Seq(States) /\ Len(conds) \in Nat
  BY LenProperties DEF RestOK
<1>2. conds # <<>> => Len(conds) \in 1 .. Len(conds) /\ Last(conds) \in States
  BY <1>1, EmptySeq, ElementOfSeq DEF Last
<1>3. ASSUME NEW state \in States, conds # <<>>, Becomes(state)
      PROVE  conds' \in Seq(States)
  BY <1>1, <1>2, <1>3, ExceptSeq DEF Becomes
<1>4. CASE DirIf
  <2>1. PICK state \in States : conds' = Append(conds, state)
    BY <1>4 DEF DirIf, States
  <2> QED
    BY <1>1, <2>1, AppendProperties
<1>5. CASE DirElif
  BY <1>1, <1>3, <1>5 DEF DirElif, States
<1>6. CASE DirElse
  <2>1. CASE conds = <<>>
    BY <1>1, <1>6, <2>1 DEF DirElse
  <2>2. CASE conds # <<>>
    BY <1>3, <1>6, <2>2 DEF AfterElse, States, DirElse
  <2> QED
    BY <2>1, <2>2
<1>7. CASE DirEndif
  <2>1. CASE conds = <<>>
    BY <1>1, <1>7, <2>1 DEF DirEndif
  <2>2. CASE conds # <<>>
    BY <1>1, <1>2, <1>7, <2>2, PrefixOfSeq DEF DirEndif, Front
  <2> QED
    BY <2>1, <2>2
<1> QED
  BY <1>4, <1>5, <1>6, <1>7

(* Conditionals, and what a branch not taken skips.                        *)
LEMMA ConditionalsKeepInv ==
    ASSUME RestOK, StackOK, LeavingOK, Skip \/ DirIf \/ DirElif \/ DirElse \/ DirEndif
    PROVE  RestOK' /\ StackOK' /\ LeavingOK'
<1>1. /\ Reading /\ GoTo(Top.at + 1, FALSE)
      /\ UNCHANGED <<prog, macroVars, numbers, counters, flags>>
  BY DEF Skip, DirIf, DirElif, DirElse, DirEndif, Conditional
<1>2. Top.at + 1 \in Nat \ {0} /\ FALSE \in BOOLEAN
  BY <1>1, WhatIsRead
<1>3. StackOK' /\ LeavingOK'
  BY <1>1, <1>2, GoToKeepsInv DEF flags
<1>4. conds' \in Seq(States)
  BY CondsKeepShape DEF Skip, RestOK
<1> QED
  BY <1>1, <1>3, <1>4 DEF RestOK, macroVars, numbers, flags

(* Lines that are read on from.                                            *)
LEMMA LinesKeepInv ==
    ASSUME RestOK, StackOK, LeavingOK,
           StrayEnd \/ UnMacro \/ Push \/ Pop \/ Fatal \/ Code \/ Local \/ ContextLocal
    PROVE  RestOK' /\ StackOK' /\ LeavingOK'
<1>1. Reading
  BY DEF StrayEnd, UnMacro, Push, Pop, Fatal, Code, Local, ContextLocal, Walks
<1>2. Top.at + 1 \in Nat \ {0} /\ (~GoesOn) \in BOOLEAN
  BY <1>1, WhatIsRead
<1>3. /\ \E stop \in BOOLEAN : GoTo(Top.at + 1, stop)
      /\ UNCHANGED <<prog, conds, definitions, lastUnique, counters, unwind>>
      /\ macros' \subseteq macros
      /\ ended' \in BOOLEAN
  BY <1>2 DEF StrayEnd, UnMacro, Push, Pop, Fatal, Code, Local, ContextLocal, Assembles,
              macroVars, numbers, flags, RestOK
<1>4. StackOK' /\ LeavingOK'
  BY <1>1, <1>2, <1>3, GoToKeepsInv
<1> QED
  BY <1>3, <1>4 DEF RestOK

(* Blocks that are captured.                                               *)
LEMMA BlocksKeepInv ==
    ASSUME RestOK, StackOK, LeavingOK, Unterminated \/ DefineMacro \/ Rep
    PROVE  RestOK' /\ StackOK' /\ LeavingOK'
<1>0. Reading
  BY DEF Unterminated, DefineMacro, Rep, Walks
<1>r. /\ stack \in Seq(Reader) /\ Depth \in 1 .. Len(stack) /\ Top \in Reader
      /\ Top = stack[Depth] /\ Top.text \in Lines /\ Len(Top.text) \in Nat
      /\ Top.at \in 1 .. Len(Top.text) /\ Stmt \in Line
  BY <1>0, WhatIsRead
<1>1. CASE Unterminated
  <2>1. Len(Top.text) + 1 \in Nat \ {0} /\ FALSE \in BOOLEAN
    BY <1>r
  <2>2. /\ GoTo(Len(Top.text) + 1, FALSE)
        /\ UNCHANGED <<prog, conds, macroVars, numbers, counters, flags>>
    BY <1>1 DEF Unterminated
  <2>3. StackOK' /\ LeavingOK'
    BY <1>0, <2>1, <2>2, GoToKeepsInv DEF flags
  <2> QED
    BY <2>2, <2>3 DEF RestOK, macroVars, numbers, flags
<1>2. CASE DefineMacro
  <2>1. PICK end \in BlockEnds(Top.text, Top.at, FALSE) :
          /\ GoTo(end + 1, FALSE)
          /\ macros' = (macros \ Replaced) \cup
                {[name |-> Stmt.arg, lo |-> Stmt.lo, hi |-> Stmt.hi,
                  recursive |-> Stmt.recursive, id |-> definitions + 1,
                  body |-> Body(Top.text, Top.at, end)]}
          /\ definitions' = definitions + 1
    BY <1>2 DEF DefineMacro, Ends
  <2>2. end + 1 \in Nat \ {0} /\ Body(Top.text, Top.at, end) \in Lines /\ FALSE \in BOOLEAN
    BY <1>r, 0 \in Nat, BlockTexts
  <2>3. UNCHANGED <<prog, conds, numbers, counters, flags>>
    BY <1>2 DEF DefineMacro
  <2>4. StackOK' /\ LeavingOK'
    BY <1>0, <2>1, <2>2, <2>3, GoToKeepsInv DEF flags
  <2>5. macros' \subseteq Macro /\ definitions' \in Nat
    BY <1>r, <2>1, <2>2 DEF RestOK, Macro, Line
  <2> QED
    BY <2>3, <2>4, <2>5 DEF RestOK, numbers, flags
<1>3. CASE Rep
  <2> DEFINE Refused(body) == Stmt.arg > MaxRep \/ Stmt.arg = 0 \/ body = <<>> \/ depth >= MaxDepth
  <2>0. UNCHANGED <<prog, conds, macroVars, numbers, includeDepth, flags>>
    BY <1>3 DEF Rep
  <2>1. PICK end \in BlockEnds(Top.text, Top.at, FALSE) :
          IF Refused(Body(Top.text, Top.at, end))
          THEN GoTo(end + 1, ~GoesOn) /\ UNCHANGED <<reps, depth>>
          ELSE /\ stack' = Append([stack EXCEPT ![Depth].at = end],
                                  Read(Copies(Body(Top.text, Top.at, end), Stmt.arg), "rept"))
               /\ reps' = reps + 1 /\ depth' = depth + 1
    BY <1>3 DEF Rep, Ends
  <2> DEFINE body == Body(Top.text, Top.at, end)
  <2>2. Stmt.arg \in Nat
    BY <1>r DEF Line
  <2>3. /\ end \in Nat \ {0} /\ end + 1 \in Nat \ {0} /\ (~GoesOn) \in BOOLEAN
        /\ Copies(body, Stmt.arg) \in Lines
    BY <1>r, <2>2, BlockTexts
  <2>4. CASE Refused(body)
    <3>1. GoTo(end + 1, ~GoesOn) /\ UNCHANGED counters /\ unwind' = unwind
      BY <2>0, <2>1, <2>4 DEF counters, flags
    <3>2. StackOK' /\ LeavingOK'
      BY <1>0, <2>3, <3>1, GoToKeepsInv
    <3> QED
      BY <2>0, <3>2 DEF RestOK, macroVars, numbers, flags
  <2>5. CASE ~Refused(body)
    <3> DEFINE g == [Top EXCEPT !.at = end]
               here == [stack EXCEPT ![Depth].at = end]
               f == Read(Copies(body, Stmt.arg), "rept")
    <3>1. stack' = Append(here, f) /\ reps' = reps + 1 /\ depth' = depth + 1
      BY <2>1, <2>5
    <3>2. here = [stack EXCEPT ![Depth] = g]
      BY <1>r DEF Reader
    <3>3. g \in Reader /\ g.kind = Top.kind /\ g.reps = Top.reps
      BY <1>r, <2>3 DEF Reader
    <3>4. f \in Reader /\ f.kind = "rept"
      BY <2>3, ReadIsReader DEF Kinds
    <3>5. depth < MaxDepth
      BY <2>5, LimitsAssumption DEF StackOK
    <3> HIDE DEF g, f, here
    <3>6. here \in Seq(Reader) /\ SameTexts(stack, here)
      BY <1>r, <3>2, <3>3, OneMoves
    <3>7. StackOK' /\ LeavingOK'
      <4>1. unwind' = unwind /\ includeDepth' = includeDepth /\ includeDepth \in Nat
        BY <2>0 DEF flags, StackOK
      <4> QED
        BY <1>0, <3>1, <3>4, <3>5, <3>6, <4>1, PushKeepsInv
    <3> QED
      BY <2>0, <3>7 DEF RestOK, macroVars, numbers, flags
  <2> QED
    BY <2>4, <2>5
<1> QED
  BY <1>1, <1>2, <1>3

(* Calls and files.                                                        *)
LEMMA CallsKeepInv ==
    ASSUME RestOK, StackOK, LeavingOK, CallMacro \/ Include
    PROVE  RestOK' /\ StackOK' /\ LeavingOK'
<1>0. Reading
  BY DEF CallMacro, Include, Walks
<1>1. /\ stack \in Seq(Reader) /\ SameTexts(stack, stack) /\ Stmt \in Line
      /\ Top.at + 1 \in Nat \ {0} /\ FALSE \in BOOLEAN /\ (~GoesOn) \in BOOLEAN
  BY <1>0, WhatIsRead DEF SameTexts, SameBelow
<1>2. CASE CallMacro
  <2>0. UNCHANGED <<prog, conds, macroVars, contexts, lastContext, reps, includeDepth, flags>>
    BY <1>2 DEF CallMacro
  <2>1. CASE depth >= MaxDepth
    <3>1. /\ GoTo(Top.at + 1, ~GoesOn) /\ UNCHANGED counters /\ unwind' = unwind
          /\ lastUnique' = lastUnique
      BY <1>2, <2>0, <2>1 DEF CallMacro, counters, flags
    <3>2. StackOK' /\ LeavingOK'
      BY <1>0, <1>1, <3>1, GoToKeepsInv
    <3> QED
      BY <2>0, <3>1, <3>2 DEF RestOK, macroVars, flags
  <2>2. CASE ~(depth >= MaxDepth)
    <3>1. PICK m \in Callable : stack' = Append(stack, Expansion(m))
      BY <1>2, <2>2 DEF CallMacro
    <3>2. depth' = depth + 1 /\ lastUnique' = lastUnique + 1
      BY <1>2, <2>2 DEF CallMacro
    <3> DEFINE r == Read(m.body, "macro")
               f == Expansion(m)
    <3>3. m \in Macro
      BY <3>1 DEF Callable, RestOK
    <3>4. r \in Reader /\ r.kind = "macro"
      BY <3>3, ReadIsReader DEF Macro, Kinds
    <3>5. f \in Reader /\ f.kind = "macro" /\ f.reps = reps
      <4>1. m.id \in Nat /\ lastUnique + 1 \in Nat /\ reps \in Nat
        BY <3>3 DEF Macro, RestOK, StackOK
      <4> HIDE DEF r
      <4>2. f = [r EXCEPT !.id = m.id, !.unique = lastUnique + 1, !.reps = reps]
        BY DEF Expansion, r
      <4> QED
        BY <3>4, <4>1, <4>2 DEF Reader
    <3>6. depth < MaxDepth
      BY <2>2, LimitsAssumption DEF StackOK
    <3> HIDE DEF f
    <3>7. StackOK' /\ LeavingOK'
      <4>1. /\ stack' = Append(stack, f) /\ unwind' = unwind
            /\ reps' = reps + 0 /\ includeDepth' = includeDepth + 0
        BY <2>0, <3>1 DEF flags, StackOK, f
      <4> QED
        BY <1>0, <1>1, <3>2, <3>5, <3>6, <4>1, PushKeepsInv
    <3> QED
      BY <2>0, <3>2, <3>7 DEF RestOK, macroVars, flags
  <2> QED
    BY <2>1, <2>2
<1>3. CASE Include
  <2>0. UNCHANGED <<prog, conds, macroVars, numbers, reps, depth, flags>>
    BY <1>3 DEF Include
  <2>1. CASE Stmt.arg \notin DOMAIN prog.files \/ includeDepth > MaxIncludeDepth
    <3>1. /\ \E stop \in BOOLEAN : GoTo(Top.at + 1, stop)
          /\ UNCHANGED counters /\ unwind' = unwind
      BY <1>1, <1>3, <2>0, <2>1 DEF Include, counters, flags
    <3>2. StackOK' /\ LeavingOK'
      BY <1>0, <1>1, <3>1, GoToKeepsInv
    <3> QED
      BY <2>0, <3>2 DEF RestOK, macroVars, numbers, flags
  <2>2. CASE ~(Stmt.arg \notin DOMAIN prog.files \/ includeDepth > MaxIncludeDepth)
    <3> DEFINE f == Read(prog.files[Stmt.arg], "include")
    <3>1. stack' = Append(stack, f) /\ includeDepth' = includeDepth + 1
      BY <1>3, <2>2 DEF Include
    <3>2. prog.files[Stmt.arg] \in Lines
      BY <2>2, ElementOfSeq DEF RestOK, Program
    <3>3. f \in Reader /\ f.kind = "include"
      BY <3>2, ReadIsReader DEF Kinds
    <3>4. includeDepth <= MaxIncludeDepth
      BY <2>2, LimitsAssumption DEF StackOK
    <3> HIDE DEF f
    <3>5. StackOK' /\ LeavingOK'
      <4>1. unwind' = unwind /\ reps' = reps + 0 /\ depth' = depth + 0
        BY <2>0 DEF flags, StackOK
      <4> QED
        BY <1>0, <1>1, <3>1, <3>3, <3>4, <4>1, PushKeepsInv
    <3> QED
      BY <2>0, <3>5 DEF RestOK, macroVars, numbers, flags
  <2> QED
    BY <2>1, <2>2
<1> QED
  BY <1>2, <1>3

-----------------------------------------------------------------------------
(* Leaving a text: the one around it is read on, unless it is left too.    *)
Under == [stack[Depth - 1] EXCEPT !.at = @ + 1, !.stopped = unwind' # "none" \/ ended]

(* What returning from a text does to the stack.                           *)
LEMMA LeaveStep ==
    ASSUME RestOK, StackOK, Leave
    PROVE  /\ stack # <<>> /\ Depth \in Nat \ {0} /\ Depth = Len(stack)
           /\ Top \in Reader /\ Top = stack[Depth]
           /\ stack' \in Seq(Reader) /\ Len(stack') = Depth - 1 /\ Popped(stack, stack')
           /\ Depth # 1 => /\ Depth - 1 \in Nat \ {0}
                           /\ stack' # <<>> /\ stack'[Depth - 1] = Under
                           /\ stack'[Depth - 1].stopped = (unwind' # "none" \/ ended)
<1>1. /\ stack \in Seq(Reader) /\ stack # <<>> /\ Len(stack) \in Nat \ {0}
      /\ Depth = Len(stack)
  BY EmptySeq, LenProperties DEF Leave, StackOK, Depth
<1>2. Top \in Reader /\ Top = stack[Depth]
  BY <1>1, ElementOfSeq DEF Top
<1> DEFINE back == SubSeq(stack, 1, Depth - 1)
<1>3. /\ back \in Seq(Reader) /\ Len(back) = Depth - 1
      /\ \A d \in 1 .. Depth - 1 : back[d] = stack[d]
  BY <1>1, PrefixOfSeq
<1>4. stack' = IF back = <<>> THEN back
               ELSE [back EXCEPT ![Depth - 1].at = @ + 1,
                                 ![Depth - 1].stopped = unwind' # "none" \/ ended]
  BY <1>1 DEF Leave, Front
<1>5. CASE Depth = 1
  <2>1. back = <<>>
    BY <1>3, <1>5, EmptySeq
  <2>2. Popped(stack, stack')
    BY <1>1, <1>3, <1>4, <1>5, <2>1 DEF Popped, SameBelow
  <2> QED
    BY <1>1, <1>2, <1>3, <1>4, <1>5, <2>1, <2>2
<1>6. CASE Depth # 1
  <2>a. Depth - 1 \in Nat \ {0}
    BY <1>1, <1>6
  <2>b. back # <<>>
    BY <1>3, <2>a
  <2>1. Depth - 1 \in 1 .. Len(back) /\ Depth - 1 \in Nat \ {0} /\ back # <<>>
    BY <1>3, <2>a, <2>b
  <2>2. back[Depth - 1] = stack[Depth - 1] /\ stack[Depth - 1] \in Reader
    BY <1>1, <1>3, <2>1, ElementOfSeq
  <2> DEFINE stop == unwind' # "none" \/ ended
             f == [stack[Depth - 1] EXCEPT !.at = @ + 1, !.stopped = stop]
  <2>3. stop \in BOOLEAN /\ stack[Depth - 1].at + 1 \in Nat \ {0}
    BY <2>2 DEF RestOK, Reader
  <2> HIDE DEF stop, back
  <2>4. /\ f \in Reader /\ f.kind = stack[Depth - 1].kind /\ f.reps = stack[Depth - 1].reps
        /\ f.stopped = stop
    BY <2>2, <2>3 DEF Reader
  <2>5. stack' = [back EXCEPT ![Depth - 1] = f]
    BY <1>4, <2>1, <2>2 DEF Reader, stop
  <2> HIDE DEF f
  <2>6. /\ stack' \in Seq(Reader) /\ SameTexts(back, stack') /\ stack'[Depth - 1] = f
    <3>1. f.kind = back[Depth - 1].kind /\ f.reps = back[Depth - 1].reps
      BY <2>2, <2>4
    <3>2. back \in Seq(Reader) /\ Depth - 1 \in 1 .. Len(back) /\ f \in Reader
      BY <1>3, <2>1, <2>4
    <3> QED
      BY <2>5, <3>1, <3>2, OneMoves
  <2>7. Popped(stack, stack')
    BY <1>1, <1>3, <2>6 DEF Popped, SameTexts, SameBelow
  <2>8. Len(stack') = Depth - 1 /\ stack' # <<>>
    BY <1>3, <2>1, <2>6, EmptySeq DEF SameTexts
  <2>9. f = Under
    BY DEF Under, f, stop
  <2> QED
    BY <1>1, <1>2, <2>1, <2>4, <2>6, <2>7, <2>8, <2>9 DEF stop
<1> QED
  BY <1>5, <1>6

(* Returning from a text keeps the invariant.                              *)
LEMMA LeaveKeepsInv ==
    ASSUME RestOK, StackOK, LeavingOK, Leave
    PROVE  RestOK' /\ StackOK' /\ LeavingOK'
<1>1. /\ stack \in Seq(Reader) /\ stack # <<>> /\ Depth \in Nat \ {0} /\ Depth = Len(stack)
      /\ Top \in Reader /\ Top = stack[Depth]
      /\ stack' \in Seq(Reader) /\ Len(stack') = Depth - 1 /\ Popped(stack, stack')
  BY LeaveStep DEF StackOK
<1>2. UNCHANGED <<prog, macroVars, numbers, ended>>
  BY DEF Leave
<1>3. conds' \in Seq(States)
  <2>1. conds \in Seq(States) /\ Len(conds) \in Nat /\ Top.conds \in Nat
    BY <1>1, LenProperties DEF RestOK, Reader
  <2>2. conds' = IF Len(conds) > Top.conds THEN SubSeq(conds, 1, Top.conds) ELSE conds
    BY DEF Leave
  <2>3. Len(conds) > Top.conds => SubSeq(conds, 1, Top.conds) \in Seq(States)
    BY <2>1, PrefixOfSeq
  <2> QED
    BY <2>1, <2>2, <2>3
<1>4. StackOK'
  <2>1. /\ reps' = IF Top.kind = "rept" THEN reps - 1 ELSE reps
        /\ depth' = IF Top.kind \in {"macro", "rept"} THEN depth - 1 ELSE depth
        /\ includeDepth' = IF Top.kind = "include" THEN includeDepth - 1 ELSE includeDepth
    BY DEF Leave
  <2>2. /\ reps' = reps - (IF Top.kind = "rept" THEN 1 ELSE 0)
        /\ depth' = depth - (IF Top.kind \in {"macro", "rept"} THEN 1 ELSE 0)
        /\ includeDepth' = includeDepth - (IF Top.kind = "include" THEN 1 ELSE 0)
    BY <2>1 DEF StackOK
  <2> QED
    BY <1>1, <2>2, PopsKeepStack DEF Pops
<1>5. unwind' = IF unwind = Top.kind THEN "none" ELSE unwind
  BY DEF Leave, StillUnwinding
<1>6. ASSUME unwind' = "none" PROVE LeavingOK'
  BY <1>6 DEF LeavingOK, ExitsHaveTargets, Unwinds
<1>7. ASSUME unwind' # "none" PROVE LeavingOK'
  <2>1. unwind' = unwind /\ unwind # "none" /\ Top.kind # unwind
    BY <1>5, <1>7
  <2>2. PICK d \in 1 .. Depth :
           /\ stack[d].kind = unwind
           /\ \A k \in d + 1 .. Depth : stack[k].kind \in Between(unwind)
    BY <2>1 DEF LeavingOK, ExitsHaveTargets
  <2>3. d \in 1 .. Depth - 1 /\ Depth # 1
    BY <1>1, <2>1, <2>2
  <2>4. stack' # <<>> /\ stack'[Depth - 1].stopped = (unwind' # "none" \/ ended)
    BY <2>3, LeaveStep
  <2>5. \A k \in 1 .. Depth - 1 : stack'[k].kind = stack[k].kind
    BY <1>1 DEF Popped, SameBelow
  <2>6. ExitsHaveTargets'
    BY <1>1, <2>1, <2>2, <2>3, <2>5, SMTT(30) DEF ExitsHaveTargets, Depth
  <2>7. Top'.stopped
    BY <1>1, <1>7, <2>4 DEF Top, Depth
  <2> QED
    BY <2>1, <2>4, <2>6, <2>7 DEF LeavingOK
<1> QED
  BY <1>2, <1>3, <1>4, <1>6, <1>7 DEF RestOK, macroVars, numbers

-----------------------------------------------------------------------------
(* The file being assembled, alone on the stack.                           *)
LEMMA InitInv == Init => IInv
<1> SUFFICES ASSUME Init PROVE IInv
  OBVIOUS
<1>1. prog \in Program
  BY SourcesAssumption DEF Init
<1> DEFINE f == [text |-> prog.main, at |-> 1, kind |-> "input", conds |-> 0,
                 stopped |-> FALSE, id |-> 0, unique |-> 0, reps |-> 0]
<1>2. f \in Reader /\ f.kind = "input"
  BY <1>1 DEF Program, Reader, Kinds
<1>3. stack = <<f>>
  BY DEF Init
<1> HIDE DEF f
<1>4. stack \in Seq(Reader) /\ Len(stack) = 1 /\ stack[1].kind = "input"
  BY <1>2, <1>3
<1>5. CountersFollowTexts
  <2>1. /\ Of(stack, {"rept"}, 1) = {} /\ Of(stack, {"macro", "rept"}, 1) = {}
        /\ Of(stack, {"include"}, 1) = {}
    BY <1>4 DEF Of
  <2>2. Counted(stack, 0, 0, 0)
    <3>1. \A d \in 1 .. Len(stack) : stack[d].kind # "macro"
      BY <1>4
    <3>2. Cardinality({}) = 0
      BY FS_EmptySet
    <3> QED
      BY <1>4, <2>1, <3>1, <3>2 DEF Counted
  <2>3. reps = 0 /\ depth = 0 /\ includeDepth = 0
    BY DEF Init
  <2> QED
    BY <2>2, <2>3, CountedIsFollowing
<1>6. StackOK
  BY <1>4, <1>5, LimitsAssumption DEF Init, StackOK, InputIsOutermost, CountersBounded, Depth
<1>7. RestOK
  BY <1>1, EmptySeq DEF Init, RestOK
<1>8. LeavingOK
  BY DEF Init, LeavingOK, ExitsHaveTargets, Unwinds
<1> QED
  BY <1>6, <1>7, <1>8 DEF IInv

(* Every step keeps the invariant: the inductive step of the theorems      *)
(* below.                                                                  *)
LEMMA NextKeepsInv == IInv /\ [Next]_vars => IInv'
<1> SUFFICES ASSUME IInv, [Next]_vars PROVE IInv'
  OBVIOUS
<1>1. RestOK /\ StackOK /\ LeavingOK
  BY DEF IInv
<1>2. CASE UNCHANGED vars
  <2>1. RestOK'
    BY <1>1, <1>2 DEF vars, macroVars, numbers, flags, RestOK
  <2>2. StackOK'
    <3>1. Moves
      BY <1>1, <1>2 DEF vars, counters, Moves, StackOK, SameTexts, SameBelow
    <3> QED
      BY <1>1, <3>1, MovesKeepStack
  <2>3. LeavingOK'
    BY <1>1, <1>2 DEF vars, flags, LeavingOK, ExitsHaveTargets, Top, Depth
  <2> QED
    BY <2>1, <2>2, <2>3 DEF IInv
<1>3. CASE Skip \/ DirIf \/ DirElif \/ DirElse \/ DirEndif
  BY <1>1, <1>3, ConditionalsKeepInv DEF IInv
<1>4. CASE StrayEnd \/ UnMacro \/ Push \/ Pop \/ Fatal \/ Code \/ Local \/ ContextLocal
  BY <1>1, <1>4, LinesKeepInv DEF IInv
<1>5. CASE Unterminated \/ DefineMacro \/ Rep
  BY <1>1, <1>5, BlocksKeepInv DEF IInv
<1>6. CASE CallMacro \/ Include
  BY <1>1, <1>6, CallsKeepInv DEF IInv
<1>7. CASE ExitMacro \/ ExitRep
  <2>1. StackOK' /\ LeavingOK'
    BY <1>1, <1>7, ExitMacroKeepsInv, ExitRepKeepsInv
  <2>2. RestOK'
    BY <1>1, <1>7 DEF ExitMacro, ExitRep, RestOK, macroVars, numbers
  <2> QED
    BY <2>1, <2>2 DEF IInv
<1>8. CASE Leave
  BY <1>1, <1>8, LeaveKeepsInv DEF IInv
<1>9. CASE Stop
  BY <1>2, <1>9 DEF Stop
<1> QED
  BY <1>2, <1>3, <1>4, <1>5, <1>6, <1>7, <1>8, <1>9 DEF Next

(* Nothing but leaving a text is done while something is being left, and   *)
(* it goes as far as the text asked for.                                   *)
LEMMA LeavingStep ==
    ASSUME IInv, [Next]_vars, unwind # "none"
    PROVE  /\ UNCHANGED <<emitted, macroVars, numbers>>
           /\ unwind' = "none" =>
                LET d == Max({k \in 1 .. Depth : stack[k].kind = unwind})
                IN  /\ Len(stack') = d - 1
                    /\ ~stack'[d - 1].stopped \/ ended
                    /\ stack'[d - 1] = [stack[d - 1] EXCEPT !.at = @ + 1, !.stopped = ended]
<1>1. RestOK /\ StackOK /\ LeavingOK
  BY DEF IInv
<1>2. ~Reading /\ stack # <<>>
  BY <1>1, ReadingGoesOn DEF LeavingOK
<1>3. Leave \/ UNCHANGED vars
  BY <1>2 DEF Next, Conditional, Walks, DirIf, DirElif, DirElse, DirEndif, Skip, Unterminated,
              DefineMacro, UnMacro, CallMacro, ExitMacro, Rep, ExitRep, StrayEnd, Include,
              Push, Pop, Fatal, Code, Local, ContextLocal, Stop
<1>4. CASE UNCHANGED vars
  BY <1>4 DEF vars, flags, result
<1>5. CASE Leave
  <2>1. UNCHANGED <<emitted, macroVars, numbers>>
    BY <1>5 DEF Leave
  <2>2. ASSUME unwind' = "none"
        PROVE  LET d == Max({k \in 1 .. Depth : stack[k].kind = unwind})
               IN  /\ Len(stack') = d - 1
                   /\ ~stack'[d - 1].stopped \/ ended
                   /\ stack'[d - 1] = [stack[d - 1] EXCEPT !.at = @ + 1, !.stopped = ended]
    <3> DEFINE S == {k \in 1 .. Depth : stack[k].kind = unwind}
               d == Max(S)
    <3>1. Top.kind = unwind
      BY <1>5, <2>2 DEF Leave, StillUnwinding
    <3>2. /\ Depth \in Nat \ {0} /\ Depth = Len(stack) /\ Top = stack[Depth]
          /\ Len(stack') = Depth - 1
      BY <1>1, <1>5, LeaveStep
    <3>3. Depth # 1
      BY <1>1, <3>1, <3>2 DEF StackOK, InputIsOutermost, LeavingOK, Unwinds
    <3>4. /\ stack'[Depth - 1] = Under
          /\ stack'[Depth - 1].stopped = (unwind' # "none" \/ ended)
      BY <1>1, <1>5, <3>3, LeaveStep
    <3>5. d = Depth
      <4>1. Depth \in S /\ S \subseteq 1 .. Depth
        BY <3>1, <3>2
      <4> HIDE DEF S
      <4>2. d \in S /\ d \in Nat /\ \A y \in S : y <= d
        BY <3>2, <4>1, Greatest
      <4> QED
        BY <3>2, <4>1, <4>2
    <3> HIDE DEF d
    <3>6. /\ Len(stack') = d - 1
          /\ ~stack'[d - 1].stopped \/ ended
          /\ stack'[d - 1] = [stack[d - 1] EXCEPT !.at = @ + 1, !.stopped = ended]
      BY <1>1, <2>2, <3>2, <3>4, <3>5 DEF RestOK, Under
    <3> QED
      BY <3>6 DEF d
  <2> QED
    BY <2>1, <2>2
<1> QED
  BY <1>3, <1>4, <1>5

-----------------------------------------------------------------------------
(* The counters bound the stack: its texts are the input, those depth      *)
(* counts and those includeDepth counts.                                   *)
LEMMA CountersBoundDepth == IInv => NestingBounded
<1> SUFFICES ASSUME IInv PROVE NestingBounded
  OBVIOUS
<1>1. /\ stack \in Seq(Reader) /\ Depth = Len(stack) /\ Depth \in Nat
      /\ depth \in Nat /\ includeDepth \in Nat
  BY LenProperties DEF IInv, StackOK, Depth
<1> DEFINE deep == Of(stack, {"macro", "rept"}, Depth)
           files == Of(stack, {"include"}, Depth)
<1>2. 1 .. Depth \subseteq {1} \cup (deep \cup files)
  <2>1. ASSUME NEW d \in 1 .. Depth PROVE stack[d].kind \in Kinds
    <3>1. stack[d] \in Reader
      BY <1>1, ElementOfSeq
    <3> QED
      BY <3>1 DEF Reader
  <2> QED
    BY <2>1 DEF IInv, StackOK, InputIsOutermost, Of, Kinds
<1>3. /\ IsFiniteSet(deep) /\ Cardinality(deep) = depth
      /\ IsFiniteSet(files) /\ Cardinality(files) = includeDepth
  BY <1>1, TextsCount DEF IInv, StackOK, CountersFollowTexts, Among, Of
<1> HIDE DEF deep, files
<1>4. /\ IsFiniteSet(deep \cup files) /\ Cardinality(deep \cup files) \in Nat
      /\ Cardinality(deep \cup files) <= depth + includeDepth
  <2>1. IsFiniteSet(deep \cap files) /\ Cardinality(deep \cap files) \in Nat
    BY <1>3, FS_Intersection, FS_CardinalityType
  <2>2. IsFiniteSet(deep \cup files) /\ Cardinality(deep \cup files) \in Nat
    BY <1>3, FS_Union, FS_CardinalityType
  <2>3. Cardinality(deep \cup files) =
          Cardinality(deep) + Cardinality(files) - Cardinality(deep \cap files)
    BY <1>3, FS_Union
  <2> QED
    BY <1>1, <1>3, <2>1, <2>2, <2>3
<1> DEFINE all == deep \cup files
<1> HIDE DEF all
<1>5. /\ IsFiniteSet({1} \cup all) /\ Cardinality({1} \cup all) \in Nat
      /\ Cardinality({1} \cup all) <= 1 + Cardinality(all)
  <2>1. IsFiniteSet(all) /\ Cardinality(all) \in Nat
    BY <1>4 DEF all
  <2>2. CASE 1 \in all
    <3>1. {1} \cup all = all
      BY <2>2
    <3> QED
      BY <2>1, <3>1
  <2>3. CASE 1 \notin all
    BY <2>1, <2>3, FS_AddElement
  <2> QED
    BY <2>2, <2>3
<1>6. Cardinality(1 .. Depth) = Depth
  <2>1. Depth \in Nat /\ 1 \in Int /\ Depth \in Int
    BY <1>1
  <2>2. Cardinality(1 .. Depth) = IF 1 > Depth THEN 0 ELSE Depth - 1 + 1
    BY <2>1, FS_Interval
  <2> QED
    BY <2>1, <2>2
<1>7. Cardinality(1 .. Depth) <= Cardinality({1} \cup all)
  BY <1>2, <1>5, FS_Subset DEF all
<1>8. depth <= MaxDepth /\ includeDepth <= MaxIncludeDepth + 1
  BY DEF IInv, StackOK, CountersBounded
<1> QED
  BY <1>1, <1>4, <1>5, <1>6, <1>7, <1>8, LimitsAssumption DEF NestingBounded, all

(* The invariant holds throughout.                                         *)
THEOREM InvHolds == Spec => []IInv
BY InitInv, NextKeepsInv, PTL DEF Spec

(* Whatever `%exitmacro' and `%exitrep' leave is being read, and what lies *)
(* inside it may be left with it: State::unwind is never set without a     *)
(* text that will clear it (pp.rs).                                        *)
THEOREM ExitsFindTheirTargets == Spec => []ExitsHaveTargets
<1>1. IInv => ExitsHaveTargets
  BY DEF IInv, LeavingOK
<1> QED
  BY <1>1, InvHolds, PTL

(* While something is being left nothing is assembled, defined or          *)
(* numbered, and reading goes on just after what caused it to be read.     *)
THEOREM ExitsLeaveTheirOwnTexts == Spec => ExitsLeaveTheirOwn
<1>1. IInv /\ [Next]_vars =>
        [unwind # "none" =>
           /\ UNCHANGED <<emitted, macroVars, numbers>>
           /\ unwind' = "none" =>
                LET d == Max({k \in 1 .. Depth : stack[k].kind = unwind})
                IN  /\ Len(stack') = d - 1
                    /\ ~stack'[d - 1].stopped \/ ended
                    /\ stack'[d - 1] = [stack[d - 1] EXCEPT !.at = @ + 1, !.stopped = ended]]_vars
  BY LeavingStep
<1> QED
  BY <1>1, InvHolds, PTL DEF Spec, ExitsLeaveTheirOwn

(* State::reps and the two depths are the numbers of texts being read that *)
(* they are asked about as, whichever way texts were left.                 *)
THEOREM CountersFollow == Spec => []CountersFollowTexts
<1>1. IInv => CountersFollowTexts
  BY DEF IInv, StackOK
<1> QED
  BY <1>1, InvHolds, PTL

(* However macros call themselves and files include themselves, no more    *)
(* texts are open than the limits allow.                                   *)
THEOREM NestingIsBounded == Spec => []NestingBounded
BY InvHolds, CountersBoundDepth, PTL

-----------------------------------------------------------------------------
(***************************************************************************)
(* A line is assembled where the texts say so.  A state of State::conds    *)
(* says of a conditional what the flags of the GNU walker do: whether its  *)
(* arm is assembled, whether one has been or none may be, and whether it   *)
(* has had its `%else'.  The conditionals of all texts are one stack; each *)
(* text being read has a part of it, from where it was entered to where    *)
(* the next one was, that follows its own conditionals as long as every    *)
(* text nests.                                                             *)
(***************************************************************************)

FlagsOf(state) ==
    [active   |-> Emits(state),
     taken    |-> state # "IfFalse",
     seenElse |-> state \in {"ElseTrue", "ElseFalse"}]

Flags(cs) == [c \in 1 .. Len(cs) |-> FlagsOf(cs[c])]

(* The blocks of NASM are closed by directives of their own.               *)
Nests(text) == NestsWell(text, FALSE)

AllNest == \A text \in TextsOf(prog) : Nests(text)

Nest ==
    /\ StackFollows(Flags(conds), Len(conds), stack, FALSE)
    /\ \A m \in macros : Nests(m.body)

NestInv == IInv /\ (AllNest => Nest)

-----------------------------------------------------------------------------
(* Flags are as many as states.                                            *)
LEMMA FlagAt ==
    ASSUME NEW cs, NEW c \in 1 .. Len(cs)
    PROVE  /\ Flags(cs)[c].active <=> Emits(cs[c])
           /\ Flags(cs)[c].taken <=> cs[c] # "IfFalse"
           /\ Flags(cs)[c].seenElse <=> cs[c] \in {"ElseTrue", "ElseFalse"}
BY DEF Flags, FlagsOf, Emits

(* States that stay keep their flags.                                      *)
LEMMA FlagsAgree ==
    ASSUME NEW cs, NEW ds, Len(cs) \in Nat, Len(ds) \in Nat, NEW n \in Int,
           n <= Len(cs), n <= Len(ds), \A c \in 1 .. n : ds[c] = cs[c]
    PROVE  Agree(Flags(cs), Flags(ds), n)
<1>1. ASSUME NEW c \in 1 .. n
      PROVE  Flags(ds)[c] = Flags(cs)[c]
  BY DEF Flags
<1> QED
  BY <1>1 DEF Agree

(* What is emitted now is what is live.                                    *)
LEMMA EmittingIsLive ==
    ASSUME RestOK
    PROVE  /\ Emitting <=> Live(Flags(conds), Len(conds))
           /\ conds # <<>> <=> Len(conds) # 0
           /\ Len(conds) \in Nat
           /\ conds # <<>> => Last(conds) = conds[Len(conds)] /\ Len(conds) \in 1 .. Len(conds)
<1>1. conds \in Seq(States) /\ Len(conds) \in Nat
  BY LenProperties DEF RestOK
<1>2. conds # <<>> <=> Len(conds) # 0
  BY <1>1, EmptySeq
<1>3. CASE conds = <<>>
  BY <1>1, <1>2, <1>3 DEF Emitting, Live
<1>4. CASE conds # <<>>
  BY <1>1, <1>2, <1>4, FlagAt DEF Last, Emitting, Live
<1> QED
  BY <1>3, <1>4

(* What holds of the text whose line is read.                              *)
LEMMA WhatFollows ==
    ASSUME IInv, Reading, Nest
    PROVE  /\ Len(stack) \in Nat \ {0} /\ Depth = Len(stack) /\ Top = stack[Len(stack)]
           /\ Nests(Top.text) /\ Len(Top.text) \in Nat /\ Top.text \in Lines
           /\ NestsIn(Top.text, 1, Len(Top.text))
           /\ Top.at \in 1 .. Len(Top.text)
           /\ Top.conds \in Nat /\ Len(conds) \in Nat /\ Top.conds <= Len(conds)
           /\ Follows(Flags(conds), Top.text, Top.at, Top.conds, Len(conds))
           /\ Stmt = Top.text[Top.at] /\ Stmt \in Line
<1>1. RestOK /\ StackOK
  BY DEF IInv
<1>2. /\ stack # <<>> /\ Len(stack) = Depth /\ Depth \in Nat \ {0} /\ Depth \in 1 .. Len(stack)
      /\ Len(Top.text) \in Nat /\ Top.at \in 1 .. Len(Top.text) /\ Top.text \in Lines
      /\ Top = stack[Depth] /\ ~Top.stopped /\ Stmt \in Line
  BY <1>1, WhatIsRead
<1>3. Len(conds) \in Nat
  BY <1>1, EmittingIsLive
<1>4. StackFollows(Flags(conds), Len(conds), stack, FALSE)
  BY DEF Nest
<1>5. /\ NestsWell(Top.text, FALSE) /\ Top.conds \in 0 .. Len(conds)
      /\ Reads(Flags(conds), Top, Len(conds))
  BY <1>2, <1>4 DEF StackFollows
<1>6. Follows(Flags(conds), Top.text, Top.at, Top.conds, Len(conds))
  BY <1>2, <1>5 DEF Reads
<1>7. NestsIn(Top.text, 1, Len(Top.text))
  BY <1>5 DEF NestsWell
<1>8. Stmt = Top.text[Top.at]
  BY DEF Stmt
<1>9. Nests(Top.text)
  BY <1>5 DEF Nests
<1> QED
  BY <1>2, <1>3, <1>5, <1>6, <1>7, <1>8, <1>9

-----------------------------------------------------------------------------
(* The two ways the stack changes while the innermost text is read: it     *)
(* goes on, or causes another text to be read.                             *)

(* Only the innermost text of t is not that of s, and it is the same text. *)
OnlyTopDiffers(s, t) ==
    /\ \A d \in 1 .. Len(s) - 1 : t[d] = s[d]
    /\ SameText(s[Len(s)], t[Len(s)])

(* Setting a place in the innermost text changes nothing else.             *)
LEMMA PlaceIsSet ==
    ASSUME NEW s \in Seq(Reader), Len(s) \in Nat \ {0}, NEW f \in Reader,
           SameText(s[Len(s)], f)
    PROVE  LET t == [s EXCEPT ![Len(s)] = f]
           IN  /\ t \in Seq(Reader) /\ Len(t) = Len(s) /\ t[Len(s)] = f
               /\ OnlyTopDiffers(s, t)
<1> DEFINE t == [s EXCEPT ![Len(s)] = f]
<1>1. Len(s) \in 1 .. Len(s)
  OBVIOUS
<1>2. /\ t \in Seq(Reader) /\ Len(t) = Len(s)
      /\ \A d \in 1 .. Len(s) : t[d] = IF d = Len(s) THEN f ELSE s[d]
  BY <1>1, ExceptSeq
<1> HIDE DEF t
<1>3. t[Len(s)] = f
  BY <1>1, <1>2
<1>4. \A d \in 1 .. Len(s) - 1 : t[d] = s[d]
  BY <1>2
<1>5. OnlyTopDiffers(s, t)
  BY <1>3, <1>4 DEF OnlyTopDiffers
<1> QED
  BY <1>2, <1>3, <1>5 DEF t

(* Going on is such a change.                                              *)
LEMMA GoToSetsPlace ==
    ASSUME IInv, Reading, NEW at \in Nat \ {0}, NEW stop \in BOOLEAN, GoTo(at, stop)
    PROVE  /\ Len(stack') = Len(stack) /\ Len(stack) \in Nat \ {0}
           /\ OnlyTopDiffers(stack, stack')
           /\ stack'[Len(stack)].at = at /\ stack'[Len(stack)].stopped = stop
<1>1. /\ stack \in Seq(Reader) /\ Len(stack) \in Nat \ {0} /\ Depth = Len(stack)
      /\ stack[Len(stack)] \in Reader
  BY WhatIsRead DEF IInv
<1> DEFINE f == [stack[Len(stack)] EXCEPT !.at = at, !.stopped = stop]
<1>2. stack' = [stack EXCEPT ![Len(stack)] = f]
  BY <1>1 DEF GoTo, Reader
<1>3. /\ f \in Reader /\ SameText(stack[Len(stack)], f)
      /\ f.at = at /\ f.stopped = stop
  BY <1>1 DEF Reader, SameText
<1> HIDE DEF f
<1> QED
  BY <1>1, <1>2, <1>3, PlaceIsSet

(* A text begins to be read, caused by the line at a place of this one.    *)
Enters(f, at) == stack' = Append([stack EXCEPT ![Depth].at = at], f)

(* So is causing another to be read, below which the innermost waits.      *)
LEMMA EntersSetsPlace ==
    ASSUME IInv, Reading, NEW f \in Reader, NEW at \in Nat \ {0}, Enters(f, at)
    PROVE  /\ Len(stack') = Len(stack) + 1 /\ Len(stack) \in Nat \ {0}
           /\ OnlyTopDiffers(stack, stack')
           /\ stack'[Len(stack)].at = at
           /\ stack'[Len(stack) + 1] = f
<1>1. /\ stack \in Seq(Reader) /\ Len(stack) \in Nat \ {0} /\ Depth = Len(stack)
      /\ stack[Len(stack)] \in Reader
  BY WhatIsRead DEF IInv
<1> DEFINE g == [stack[Len(stack)] EXCEPT !.at = at]
           here == [stack EXCEPT ![Len(stack)] = g]
<1>2. stack' = Append(here, f)
  BY <1>1 DEF Enters, Reader
<1>3. g \in Reader /\ SameText(stack[Len(stack)], g) /\ g.at = at
  BY <1>1 DEF Reader, SameText
<1> HIDE DEF g
<1>4. /\ here \in Seq(Reader) /\ Len(here) = Len(stack) /\ here[Len(stack)] = g
      /\ OnlyTopDiffers(stack, here)
  BY <1>1, <1>3, PlaceIsSet
<1> HIDE DEF here
<1>5. /\ Len(stack') = Len(here) + 1
      /\ \A d \in 1 .. Len(here) : stack'[d] = here[d]
      /\ stack'[Len(here) + 1] = f
  BY <1>2, <1>4, AppendProperties
<1>6. stack'[Len(stack)] = g
  BY <1>1, <1>4, <1>5
<1>7. \A d \in 1 .. Len(stack) - 1 : stack'[d] = here[d]
  BY <1>1, <1>4, <1>5
<1>8. OnlyTopDiffers(stack, stack')
  BY <1>4, <1>6, <1>7 DEF OnlyTopDiffers
<1> QED
  BY <1>1, <1>3, <1>4, <1>5, <1>6, <1>8

-----------------------------------------------------------------------------
(* What a line may do: conditionals below the text's own stay, and the     *)
(* text is read on where its conditionals follow the states, or not at     *)
(* all.                                                                    *)
ReadsOn ==
    /\ Agree(Flags(conds), Flags(conds'), Top.conds)
    /\ Top.conds <= Len(conds') /\ Len(conds') \in Nat
    /\ \E at \in Nat \ {0} : \E stop \in BOOLEAN :
          /\ GoTo(at, stop)
          /\ ~stop => /\ at \in 1 .. Len(Top.text) + 1
                      /\ Follows(Flags(conds'), Top.text, at, Top.conds, Len(conds'))

(* Or another text is read first, caused by a line in the same arms that   *)
(* is about no conditional.                                                *)
ReadsAnother ==
    /\ conds' = conds
    /\ \E f \in Reader : \E at \in 1 .. Len(Top.text) :
          /\ Nests(f.text) /\ f.at = 1 /\ f.conds = Len(conds)
          /\ Enters(f, at)
          /\ Quiet(Top.text[at].op)
          /\ SameNesting(Top.text, Top.at, at)

(* Both keep the walk with the texts.                                      *)
LEMMA ReadingOnKeepsNest ==
    ASSUME IInv, Reading, Nest, ReadsOn
    PROVE  StackFollows(Flags(conds'), Len(conds'), stack', FALSE)
<1>0. /\ Agree(Flags(conds), Flags(conds'), Top.conds)
      /\ Top.conds <= Len(conds') /\ Len(conds') \in Nat
  BY DEF ReadsOn
<1>1. PICK at \in Nat \ {0} : \E stop \in BOOLEAN :
          /\ GoTo(at, stop)
          /\ ~stop => /\ at \in 1 .. Len(Top.text) + 1
                      /\ Follows(Flags(conds'), Top.text, at, Top.conds, Len(conds'))
  BY DEF ReadsOn
<1>2. PICK stop \in BOOLEAN :
          /\ GoTo(at, stop)
          /\ ~stop => /\ at \in 1 .. Len(Top.text) + 1
                      /\ Follows(Flags(conds'), Top.text, at, Top.conds, Len(conds'))
  BY <1>1
<1>3. /\ Len(stack') = Len(stack) /\ Len(stack) \in Nat \ {0}
      /\ OnlyTopDiffers(stack, stack')
      /\ stack'[Len(stack)].at = at /\ stack'[Len(stack)].stopped = stop
  BY <1>2, GoToSetsPlace
<1>4. Top = stack[Len(stack)] /\ Len(conds) \in Nat
  BY WhatFollows
<1>5. /\ \A d \in 1 .. Len(stack) - 1 : stack'[d] = stack[d]
      /\ SameText(stack[Len(stack)], stack'[Len(stack)])
      /\ stack'[Len(stack)].text = Top.text /\ stack'[Len(stack)].conds = Top.conds
  BY <1>3, <1>4 DEF OnlyTopDiffers, SameText
<1>6. Reads(Flags(conds'), stack'[Len(stack)], Len(conds'))
  BY <1>2, <1>3, <1>5 DEF Reads
<1>7. StackFollows(Flags(conds), Len(conds), stack, FALSE)
  BY DEF Nest
<1>8. PICK one \in BOOLEAN : one = FALSE
  OBVIOUS
<1>9. StackFollows(Flags(conds), Len(conds), stack, one)
  BY <1>7, <1>8
<1>10. StackFollows(Flags(conds'), Len(conds'), stack', one)
  BY <1>0, <1>3, <1>4, <1>5, <1>6, <1>9, StackAdvances
<1> QED
  BY <1>8, <1>10

(* The text that waits lies in the same arms.                              *)
LEMMA ReadingAnotherKeepsNest ==
    ASSUME IInv, Reading, Nest, ReadsAnother
    PROVE  StackFollows(Flags(conds'), Len(conds'), stack', FALSE)
<1>1. PICK f \in Reader : \E at \in 1 .. Len(Top.text) :
          /\ Nests(f.text) /\ f.at = 1 /\ f.conds = Len(conds)
          /\ Enters(f, at)
          /\ Quiet(Top.text[at].op)
          /\ SameNesting(Top.text, Top.at, at)
  BY DEF ReadsAnother
<1>2. PICK at \in 1 .. Len(Top.text) :
          /\ Nests(f.text) /\ f.at = 1 /\ f.conds = Len(conds)
          /\ Enters(f, at)
          /\ Quiet(Top.text[at].op)
          /\ SameNesting(Top.text, Top.at, at)
  BY <1>1
<1>3. /\ Len(stack) \in Nat \ {0} /\ Top = stack[Len(stack)]
      /\ Len(Top.text) \in Nat /\ NestsIn(Top.text, 1, Len(Top.text))
      /\ Top.at \in 1 .. Len(Top.text) /\ Top.at \in 1 .. Len(Top.text) + 1
      /\ Top.conds \in Nat /\ Len(conds) \in Nat
      /\ Follows(Flags(conds), Top.text, Top.at, Top.conds, Len(conds))
  BY WhatFollows
<1>4. at \in Nat \ {0}
  BY <1>3
<1>5. /\ Len(stack') = Len(stack) + 1
      /\ OnlyTopDiffers(stack, stack')
      /\ stack'[Len(stack)].at = at
      /\ stack'[Len(stack) + 1] = f
  BY <1>2, <1>4, EntersSetsPlace
<1>6. /\ \A d \in 1 .. Len(stack) - 1 : stack'[d] = stack[d]
      /\ SameText(stack[Len(stack)], stack'[Len(stack)])
      /\ stack'[Len(stack)].text = Top.text /\ stack'[Len(stack)].conds = Top.conds
  BY <1>3, <1>5 DEF OnlyTopDiffers, SameText
<1>7. Follows(Flags(conds), Top.text, at, Top.conds, Len(conds))
  BY <1>2, <1>3, FollowsOn DEF Agree
<1>8. Waits(Flags(conds), stack'[Len(stack)], Len(conds))
  BY <1>2, <1>5, <1>6, <1>7 DEF Waits
<1>9. /\ stack'[Len(stack) + 1].at = 1 /\ stack'[Len(stack) + 1].conds = Len(conds)
      /\ stack'[Len(stack) + 1].text = f.text
  BY <1>2, <1>5
<1>10. PICK one \in BOOLEAN : one = FALSE
  OBVIOUS
<1>11. StackFollows(Flags(conds), Len(conds), stack, one)
  BY <1>10 DEF Nest
<1>12. NestsWell(f.text, one)
  BY <1>2, <1>10 DEF Nests
<1>13. Len(f.text) \in Nat
  BY LenProperties DEF Reader, Lines
<1>14. StackFollows(Flags(conds), Len(conds), stack', one)
  BY <1>3, <1>5, <1>6, <1>8, <1>9, <1>11, <1>12, <1>13, StackGrows
<1>15. conds' = conds
  BY DEF ReadsAnother
<1> QED
  BY <1>10, <1>14, <1>15

-----------------------------------------------------------------------------
(* Each line does one or the other.                                        *)

(* What is kept up to some conditional is kept below it.                   *)
LEMMA AgreeBelow ==
    ASSUME NEW vs, NEW ws, NEW m \in Nat, NEW n \in Nat, n <= m, Agree(vs, ws, m)
    PROVE  Agree(vs, ws, n)
BY DEF Agree

(* A line about no conditional leads to one in the same arms.              *)
LEMMA QuietReadsOn ==
    ASSUME IInv, Reading, Nest, Quiet(Stmt.op), conds' = conds,
           NEW stop \in BOOLEAN, GoTo(Top.at + 1, stop)
    PROVE  ReadsOn
<1>1. /\ Len(Top.text) \in Nat /\ NestsIn(Top.text, 1, Len(Top.text))
      /\ Top.at \in 1 .. Len(Top.text) /\ Top.at \in 1 .. Len(Top.text) + 1
      /\ Top.conds \in Nat /\ Len(conds) \in Nat /\ Top.conds <= Len(conds)
      /\ Follows(Flags(conds), Top.text, Top.at, Top.conds, Len(conds))
      /\ Stmt = Top.text[Top.at]
  BY WhatFollows
<1>2. /\ Agree(Flags(conds), Flags(conds), Len(conds))
      /\ Agree(Flags(conds), Flags(conds), Top.conds)
  BY DEF Agree
<1>3. SameNesting(Top.text, Top.at, Top.at + 1)
  BY <1>1, QuietKeepsNesting
<1>4. Follows(Flags(conds), Top.text, Top.at + 1, Top.conds, Len(conds))
  BY <1>1, <1>2, <1>3, FollowsOn
<1>5. Top.at + 1 \in Nat \ {0} /\ Top.at + 1 \in 1 .. Len(Top.text) + 1
  BY <1>1
<1> QED
  BY <1>1, <1>2, <1>4, <1>5 DEF ReadsOn

(* A conditional directive leads to the next line if the states it leaves  *)
(* are those of the text there.                                            *)
LEMMA DirectiveReadsOn ==
    ASSUME IInv, Reading, Nest, GoTo(Top.at + 1, FALSE),
           Agree(Flags(conds), Flags(conds'), Top.conds),
           Top.conds <= Len(conds'), Len(conds') \in Nat,
           Follows(Flags(conds'), Top.text, Top.at + 1, Top.conds, Len(conds'))
    PROVE  ReadsOn
<1>1. /\ Len(Top.text) \in Nat /\ Top.at \in 1 .. Len(Top.text)
  BY WhatFollows
<1>2. Top.at + 1 \in Nat \ {0} /\ Top.at + 1 \in 1 .. Len(Top.text) + 1
  BY <1>1
<1>3. FALSE \in BOOLEAN
  OBVIOUS
<1> QED
  BY <1>2, <1>3 DEF ReadsOn

(* What a conditional opened next is around is what is live.               *)
LEMMA OuterIsLive ==
    ASSUME NEW vs, NEW ws, NEW h \in Nat, Agree(vs, ws, h)
    PROVE  Outer(ws, h + 1) <=> Live(vs, h)
<1>1. CASE h = 0
  BY <1>1 DEF Outer, Live
<1>2. CASE h # 0
  <2>1. h \in 1 .. h /\ h + 1 # 1 /\ (h + 1) - 1 = h
    BY <1>2
  <2>2. ws[h] = vs[h]
    BY <2>1 DEF Agree
  <2>3. Outer(ws, h + 1) <=> ws[h].active
    BY <2>1 DEF Outer
  <2>4. Live(vs, h) <=> vs[h].active
    BY <1>2 DEF Live
  <2> QED
    BY <2>2, <2>3, <2>4
<1> QED
  BY <1>1, <1>2

(* `%if' opens the conditional its text opens there.                       *)
LEMMA IfReadsOn ==
    ASSUME IInv, Nest, DirIf
    PROVE  ReadsOn
<1>0. Reading /\ GoTo(Top.at + 1, FALSE) /\ Stmt.op = "if" /\ Stmt.op \in Opening
  BY DEF DirIf, Conditional, Opening
<1>1. /\ Len(Top.text) \in Nat /\ NestsIn(Top.text, 1, Len(Top.text))
      /\ Top.at \in 1 .. Len(Top.text)
      /\ Top.conds \in Nat /\ Len(conds) \in Nat /\ Top.conds <= Len(conds)
      /\ Follows(Flags(conds), Top.text, Top.at, Top.conds, Len(conds))
      /\ Stmt = Top.text[Top.at]
  BY <1>0, WhatFollows
<1> DEFINE s == IF ~Emitting THEN "Never" ELSE IF Test THEN "IfTrue" ELSE "IfFalse"
<1>2. conds' = Append(conds, s)
  BY DEF DirIf
<1>3. /\ s \in States /\ s \notin {"ElseTrue", "ElseFalse"}
      /\ Emits(s) <=> Emitting /\ Test
      /\ s # "IfFalse" <=> ~Emitting \/ Test
  BY DEF States, Emits
<1> HIDE DEF s
<1>4. conds \in Seq(States)
  BY DEF IInv, RestOK
<1>5. /\ Len(conds') = Len(conds) + 1 /\ conds'[Len(conds) + 1] = s
      /\ \A d \in 1 .. Len(conds) : conds'[d] = conds[d]
  BY <1>2, <1>3, <1>4, AppendProperties
<1>6. /\ Len(conds') \in Nat /\ Len(conds) <= Len(conds') /\ Len(conds) \in Int
      /\ Len(conds) + 1 \in 1 .. Len(conds')
  BY <1>1, <1>5
<1>7. Agree(Flags(conds), Flags(conds'), Len(conds))
  BY <1>1, <1>5, <1>6, FlagsAgree
<1>8. /\ Flags(conds')[Len(conds) + 1].active <=> Emits(s)
      /\ Flags(conds')[Len(conds) + 1].taken <=> s # "IfFalse"
      /\ ~Flags(conds')[Len(conds) + 1].seenElse
  BY <1>3, <1>5, <1>6, FlagAt
<1>9. Emitting <=> Live(Flags(conds), Len(conds))
  BY EmittingIsLive DEF IInv
<1>10. Outer(Flags(conds'), Len(conds) + 1) <=> Emitting
  BY <1>1, <1>7, <1>9, OuterIsLive
<1>11. Holds(Top.text[Top.at]) <=> Test
  BY <1>0, <1>1 DEF Holds, Test
<1>12. /\ Flags(conds')[Len(conds) + 1].taken
             <=> ~Outer(Flags(conds'), Len(conds) + 1) \/ Holds(Top.text[Top.at])
       /\ Flags(conds')[Len(conds) + 1].active
             <=> Outer(Flags(conds'), Len(conds) + 1) /\ Holds(Top.text[Top.at])
  BY <1>3, <1>8, <1>10, <1>11
<1>13. Follows(Flags(conds'), Top.text, Top.at + 1, Top.conds, Len(conds) + 1)
  BY <1>0, <1>1, <1>7, <1>8, <1>12, OpeningFollows
<1>14. Agree(Flags(conds), Flags(conds'), Top.conds) /\ Top.conds <= Len(conds')
  BY <1>1, <1>5, <1>7, AgreeBelow
<1> QED
  BY <1>0, <1>5, <1>6, <1>13, <1>14, DirectiveReadsOn

(* `%endif' closes the conditional its text closes there.                  *)
LEMMA EndifReadsOn ==
    ASSUME IInv, Nest, DirEndif
    PROVE  ReadsOn
<1>0. Reading /\ GoTo(Top.at + 1, FALSE) /\ Stmt.op = "endif"
  BY DEF DirEndif, Conditional
<1>1. /\ Len(Top.text) \in Nat /\ NestsIn(Top.text, 1, Len(Top.text))
      /\ Top.at \in 1 .. Len(Top.text)
      /\ Top.conds \in Nat /\ Len(conds) \in Nat /\ Top.conds <= Len(conds)
      /\ Follows(Flags(conds), Top.text, Top.at, Top.conds, Len(conds))
      /\ Stmt = Top.text[Top.at]
  BY <1>0, WhatFollows
<1>2. Top.conds < Len(conds)
  BY <1>0, <1>1, EndifFollows DEF Agree
<1>3. /\ conds \in Seq(States) /\ conds # <<>>
      /\ Len(conds) - 1 \in 0 .. Len(conds) /\ Len(conds) - 1 \in Nat /\ Len(conds) - 1 \in Int
      /\ Len(conds) - 1 <= Len(conds)
  BY <1>1, <1>2, EmptySeq DEF IInv, RestOK
<1>4. conds' = SubSeq(conds, 1, Len(conds) - 1)
  BY <1>3 DEF DirEndif, Front
<1>5. Len(conds') = Len(conds) - 1 /\ \A d \in 1 .. Len(conds) - 1 : conds'[d] = conds[d]
  BY <1>3, <1>4, PrefixOfSeq
<1>6. Agree(Flags(conds), Flags(conds'), Len(conds) - 1)
  <2>1. Len(conds') \in Nat /\ Len(conds) - 1 <= Len(conds')
    BY <1>3, <1>5
  <2> QED
    BY <1>1, <1>3, <1>5, <2>1, FlagsAgree
<1>7. Follows(Flags(conds'), Top.text, Top.at + 1, Top.conds, Len(conds) - 1)
  BY <1>0, <1>1, <1>6, EndifFollows
<1>8. Top.conds <= Len(conds) - 1
  BY <1>1, <1>2
<1>9. /\ Agree(Flags(conds), Flags(conds'), Top.conds)
      /\ Top.conds <= Len(conds') /\ Len(conds') \in Nat
  BY <1>1, <1>3, <1>5, <1>6, <1>8, AgreeBelow
<1> QED
  BY <1>0, <1>5, <1>7, <1>9, DirectiveReadsOn

(* Where an arm begins there is a conditional, with no `%else' unless it   *)
(* is not being assembled anyway.                                          *)
LEMMA WhatArmsFind ==
    ASSUME IInv, Nest, Reading, Stmt.op \in Arms
    PROVE  /\ conds # <<>> /\ Len(conds) \in Nat \ {0} /\ Last(conds) \in States
           /\ Outer(Flags(conds), Len(conds)) => Last(conds) \notin {"ElseTrue", "ElseFalse"}
           /\ ~Outer(Flags(conds), Len(conds)) => Last(conds) \in {"ElseFalse", "Done", "Never"}
<1>1. /\ Len(Top.text) \in Nat /\ NestsIn(Top.text, 1, Len(Top.text))
      /\ Top.at \in 1 .. Len(Top.text)
      /\ Top.conds \in Nat /\ Len(conds) \in Nat /\ Top.conds <= Len(conds)
      /\ Follows(Flags(conds), Top.text, Top.at, Top.conds, Len(conds))
      /\ Stmt = Top.text[Top.at]
  BY WhatFollows
<1>2. /\ Top.conds < Len(conds)
      /\ Outer(Flags(conds), Len(conds)) => ~Flags(conds)[Len(conds)].seenElse
      /\ ~Outer(Flags(conds), Len(conds)) =>
            Flags(conds)[Len(conds)].taken /\ ~Flags(conds)[Len(conds)].active
  BY <1>1, ArmFollowsNoElse
<1>3. /\ conds # <<>> /\ Len(conds) \in Nat \ {0} /\ Len(conds) \in 1 .. Len(conds)
      /\ Last(conds) = conds[Len(conds)]
  BY <1>1, <1>2, EmittingIsLive DEF IInv
<1>4. Last(conds) \in States
  BY <1>3, ElementOfSeq DEF IInv, RestOK
<1>5. /\ Flags(conds)[Len(conds)].active <=> Emits(Last(conds))
      /\ Flags(conds)[Len(conds)].taken <=> Last(conds) # "IfFalse"
      /\ Flags(conds)[Len(conds)].seenElse <=> Last(conds) \in {"ElseTrue", "ElseFalse"}
  BY <1>3, FlagAt
<1>6. Outer(Flags(conds), Len(conds)) => Last(conds) \notin {"ElseTrue", "ElseFalse"}
  BY <1>2, <1>5
<1>7. ~Outer(Flags(conds), Len(conds)) => Last(conds) # "IfFalse" /\ ~Emits(Last(conds))
  BY <1>2, <1>5
<1>8. ~Outer(Flags(conds), Len(conds)) => Last(conds) \in {"ElseFalse", "Done", "Never"}
  BY <1>4, <1>7 DEF States, Emits
<1> QED
  BY <1>3, <1>4, <1>6, <1>8

(* What an arm may make of the state of its conditional.                   *)
LEMMA ArmReadsOn ==
    ASSUME IInv, Nest, Reading, GoTo(Top.at + 1, FALSE), Stmt.op \in Arms,
           NEW state \in States, Becomes(state),
           state # "IfFalse" <=> Last(conds) # "IfFalse" \/ Holds(Stmt),
           Emits(state) <=> Last(conds) = "IfFalse" /\ Holds(Stmt),
           state \in {"ElseTrue", "ElseFalse"} => Stmt.op = "else"
    PROVE  ReadsOn
<1>1. /\ Len(Top.text) \in Nat /\ NestsIn(Top.text, 1, Len(Top.text))
      /\ Top.at \in 1 .. Len(Top.text)
      /\ Top.conds \in Nat /\ Len(conds) \in Nat /\ Top.conds <= Len(conds)
      /\ Follows(Flags(conds), Top.text, Top.at, Top.conds, Len(conds))
      /\ Stmt = Top.text[Top.at]
  BY WhatFollows
<1>2. /\ conds # <<>> /\ Len(conds) \in Nat \ {0}
      /\ ~Outer(Flags(conds), Len(conds)) => Last(conds) # "IfFalse"
  BY WhatArmsFind
<1>3. conds \in Seq(States) /\ Last(conds) = conds[Len(conds)] /\ Len(conds) \in 1 .. Len(conds)
  BY <1>2, EmittingIsLive DEF IInv, RestOK
<1>4. /\ Len(conds') = Len(conds)
      /\ \A d \in 1 .. Len(conds) : conds'[d] = IF d = Len(conds) THEN state ELSE conds[d]
  BY <1>3, ExceptSeq DEF Becomes
<1>5. conds'[Len(conds)] = state /\ \A d \in 1 .. Len(conds) - 1 : conds'[d] = conds[d]
  BY <1>1, <1>3, <1>4
<1>6. /\ Len(conds) - 1 \in Int /\ Len(conds) - 1 <= Len(conds) /\ Len(conds) - 1 \in Nat
      /\ Len(conds') \in Nat /\ Len(conds) - 1 <= Len(conds')
  BY <1>1, <1>2, <1>4
<1>7. Agree(Flags(conds), Flags(conds'), Len(conds) - 1)
  BY <1>1, <1>4, <1>5, <1>6, FlagsAgree
<1>8. Flags(conds)[Len(conds)].taken <=> Last(conds) # "IfFalse"
  BY <1>3, FlagAt
<1>9. /\ Flags(conds')[Len(conds)].active <=> Emits(state)
      /\ Flags(conds')[Len(conds)].taken <=> state # "IfFalse"
      /\ Flags(conds')[Len(conds)].seenElse <=> state \in {"ElseTrue", "ElseFalse"}
  BY <1>3, <1>4, <1>5, FlagAt
<1>10. /\ Flags(conds')[Len(conds)].taken
             <=> Flags(conds)[Len(conds)].taken \/ Holds(Top.text[Top.at])
       /\ Flags(conds')[Len(conds)].active
             <=> /\ Outer(Flags(conds), Len(conds))
                 /\ ~Flags(conds)[Len(conds)].taken /\ Holds(Top.text[Top.at])
       /\ Outer(Flags(conds), Len(conds)) /\ Flags(conds')[Len(conds)].seenElse
             => Top.text[Top.at].op = "else"
  BY <1>1, <1>2, <1>8, <1>9
<1>11. Follows(Flags(conds'), Top.text, Top.at + 1, Top.conds, Len(conds))
  BY <1>1, <1>7, <1>10, ArmFollows
<1>12. Top.conds < Len(conds)
  BY <1>1, ArmFollowsNoElse
<1>13. Top.conds <= Len(conds) - 1
  BY <1>1, <1>12
<1>14. Agree(Flags(conds), Flags(conds'), Top.conds)
  BY <1>1, <1>6, <1>7, <1>13, AgreeBelow
<1> QED
  BY <1>1, <1>4, <1>11, <1>14, DirectiveReadsOn

(* `%elif' turns to the arm its text turns to there.                       *)
LEMMA ElifReadsOn ==
    ASSUME IInv, Nest, DirElif
    PROVE  ReadsOn
<1>0. Reading /\ GoTo(Top.at + 1, FALSE) /\ Stmt.op = "elif" /\ Stmt.op \in Arms
  BY DEF DirElif, Conditional, Arms
<1>1. /\ conds # <<>> /\ Len(conds) \in Nat \ {0} /\ Last(conds) \in States
      /\ Len(conds) \in 1 .. Len(conds) /\ Last(conds) = conds[Len(conds)]
      /\ conds \in Seq(States)
  BY <1>0, WhatArmsFind, EmittingIsLive DEF IInv, RestOK
<1>2. Holds(Stmt) <=> Test
  BY <1>0 DEF Holds, Test
<1>3. CASE Last(conds) \in {"IfTrue", "Done"}
  <2>1. Becomes("Done") /\ "Done" \in States
    BY <1>1, <1>3 DEF DirElif, States
  <2>2. PICK state \in States : state = "Done" /\ Becomes(state)
    BY <2>1
  <2>3. state # "IfFalse" /\ Last(conds) # "IfFalse" /\ ~Emits(state)
        /\ state \notin {"ElseTrue", "ElseFalse"}
    BY <1>3, <2>2 DEF Emits
  <2> QED
    BY <1>0, <2>2, <2>3, ArmReadsOn
<1>4. CASE Last(conds) = "IfFalse"
  <2>1. Becomes(IF Test THEN "IfTrue" ELSE "IfFalse")
    BY <1>1, <1>4 DEF DirElif
  <2>2. PICK state \in States : state = (IF Test THEN "IfTrue" ELSE "IfFalse") /\ Becomes(state)
    BY <2>1 DEF States
  <2>3. (state # "IfFalse" <=> Test) /\ (Emits(state) <=> Test)
        /\ state \notin {"ElseTrue", "ElseFalse"}
    BY <2>2 DEF Emits
  <2> QED
    BY <1>0, <1>2, <1>4, <2>2, <2>3, ArmReadsOn
<1>5. CASE Last(conds) = "Never"
  <2>1. conds' = conds
    BY <1>1, <1>5 DEF DirElif
  <2>2. PICK state \in States : state = "Never"
    BY DEF States
  <2>3. conds' = [conds EXCEPT ![Len(conds)] = state]
    <3>1. conds[Len(conds)] = state
      BY <1>1, <1>5, <2>2
    <3> DEFINE ds == [conds EXCEPT ![Len(conds)] = state]
    <3>2. /\ ds \in Seq(States) /\ Len(ds) = Len(conds)
          /\ \A d \in 1 .. Len(conds) : ds[d] = IF d = Len(conds) THEN state ELSE conds[d]
      BY <1>1, ExceptSeq
    <3> HIDE DEF ds
    <3>3. ds = conds
      BY <1>1, <3>1, <3>2, SeqEqual
    <3> QED
      BY <2>1, <3>3 DEF ds
  <2>4. Becomes(state)
    BY <2>3 DEF Becomes
  <2>5. state # "IfFalse" /\ Last(conds) # "IfFalse" /\ ~Emits(state)
        /\ state \notin {"ElseTrue", "ElseFalse"}
    BY <1>5, <2>2 DEF Emits
  <2> QED
    BY <1>0, <2>4, <2>5, ArmReadsOn
<1>6. CASE Last(conds) \in {"ElseTrue", "ElseFalse"}
  <2>1. Becomes("Never") /\ "Never" \in States
    BY <1>1, <1>6 DEF DirElif, States
  <2>2. PICK state \in States : state = "Never" /\ Becomes(state)
    BY <2>1
  <2>3. state # "IfFalse" /\ Last(conds) # "IfFalse" /\ ~Emits(state)
        /\ state \notin {"ElseTrue", "ElseFalse"}
    BY <1>6, <2>2 DEF Emits
  <2> QED
    BY <1>0, <2>2, <2>3, ArmReadsOn
<1> QED
  BY <1>1, <1>3, <1>4, <1>5, <1>6 DEF States

(* So does `%else'.                                                        *)
LEMMA ElseReadsOn ==
    ASSUME IInv, Nest, DirElse
    PROVE  ReadsOn
<1>0. /\ Reading /\ GoTo(Top.at + 1, FALSE) /\ Stmt.op = "else" /\ Stmt.op \in Arms
      /\ Holds(Stmt)
  BY DEF DirElse, Conditional, Arms, Holds
<1>1. conds # <<>> /\ Last(conds) \in States
  BY <1>0, WhatArmsFind
<1>2. /\ AfterElse(Last(conds)) \in States
      /\ AfterElse(Last(conds)) # "IfFalse"
      /\ Emits(AfterElse(Last(conds))) <=> Last(conds) = "IfFalse"
  BY <1>1 DEF AfterElse, States, Emits
<1>3. Becomes(AfterElse(Last(conds)))
  BY <1>1 DEF DirElse
<1>4. PICK state \in States : state = AfterElse(Last(conds)) /\ Becomes(state)
  BY <1>2, <1>3
<1> QED
  BY <1>0, <1>2, <1>4, ArmReadsOn

-----------------------------------------------------------------------------
(* Lines about no conditional.                                             *)

(* The lines that only go on, or end their text.                           *)
LEMMA LinesReadOn ==
    ASSUME IInv, Nest,
           \/ Skip \/ StrayEnd \/ UnMacro \/ ExitMacro \/ ExitRep
           \/ Push \/ Pop \/ Fatal \/ Code \/ Local \/ ContextLocal
    PROVE  ReadsOn
<1>1. Reading /\ conds' = conds
  BY DEF Skip, StrayEnd, UnMacro, ExitMacro, ExitRep, Push, Pop, Fatal, Code, Local,
         ContextLocal, Assembles, Walks
<1>2. Stmt \in Line
  BY <1>1, WhatFollows
<1>3. Quiet(Stmt.op)
  <2>1. CASE Skip
    <3>1. Stmt.op \in LineOps /\ Stmt.op \notin {"if", "elif", "else", "endif"}
      BY <1>2, <2>1 DEF Skip, Line
    <3> QED
      BY <3>1 DEF Quiet, Opening, Arms, LineOps
  <2>2. CASE ~Skip
    BY <2>2 DEF StrayEnd, UnMacro, ExitMacro, ExitRep, Push, Pop, Fatal, Code, Local,
                ContextLocal, Walks, Quiet, Opening, Arms
  <2> QED
    BY <2>1, <2>2
<1>4. FALSE \in BOOLEAN /\ TRUE \in BOOLEAN /\ (~GoesOn) \in BOOLEAN
  OBVIOUS
<1>5. GoTo(Top.at + 1, FALSE) \/ GoTo(Top.at + 1, TRUE) \/ GoTo(Top.at + 1, ~GoesOn)
  BY DEF Skip, StrayEnd, UnMacro, ExitMacro, ExitRep, Push, Pop, Fatal, Code, Local,
         ContextLocal, Assembles
<1>6. PICK stop \in BOOLEAN : GoTo(Top.at + 1, stop)
  BY <1>4, <1>5
<1> QED
  BY <1>1, <1>3, <1>6, QuietReadsOn

(* What a block leads to.                                                  *)
LEMMA BlockAhead ==
    ASSUME IInv, Nest, Reading, Stmt.op \in BlockStarts
    PROVE  /\ BlockEnds(Top.text, Top.at, FALSE) # {}
           /\ \A end \in BlockEnds(Top.text, Top.at, FALSE) :
                 /\ end \in 1 .. Len(Top.text) /\ end + 1 \in 1 .. Len(Top.text) + 1
                 /\ Quiet(Top.text[end].op)
                 /\ SameNesting(Top.text, Top.at, end + 1)
                 /\ SameNesting(Top.text, Top.at, end)
                 /\ Nests(Body(Top.text, Top.at, end))
                 /\ Body(Top.text, Top.at, end) \in Lines
<1>1. /\ Len(Top.text) \in Nat /\ NestsIn(Top.text, 1, Len(Top.text))
      /\ Top.at \in 1 .. Len(Top.text) /\ Top.text \in Lines /\ Top.text \in Seq(Line)
      /\ Nests(Top.text) /\ Stmt = Top.text[Top.at]
  BY WhatFollows DEF Lines
<1>0. PICK one \in BOOLEAN : one = FALSE
  OBVIOUS
<1>w. NestsWell(Top.text, one)
  BY <1>0, <1>1 DEF Nests
<1>2. PICK e : BlockNests(Top.text, Top.at, e, one)
  BY <1>1, <1>w, NestsWellMeans
<1>3. /\ e \in BlockEnds(Top.text, Top.at, one)
      /\ NestsIn(Top.text, Top.at + 1, e - 1)
  BY <1>2 DEF BlockNests
<1>4. ASSUME NEW end \in BlockEnds(Top.text, Top.at, one)
      PROVE  /\ end \in 1 .. Len(Top.text) /\ end + 1 \in 1 .. Len(Top.text) + 1
             /\ Quiet(Top.text[end].op)
             /\ SameNesting(Top.text, Top.at, end + 1)
             /\ SameNesting(Top.text, Top.at, end)
             /\ Nests(Body(Top.text, Top.at, end))
             /\ Body(Top.text, Top.at, end) \in Lines
  <2>1. Top.at \in Int
    BY <1>1
  <2>2. end = e
    BY <1>1, <1>3, <2>1, BlockEndsOnce
  <2>3. end \in Top.at + 1 .. Len(Top.text)
    BY BlockEndsMeans
  <2>4. end \in 1 .. Len(Top.text) /\ end + 1 \in 1 .. Len(Top.text) + 1
    BY <1>1, <2>3
  <2>5. Quiet(Top.text[Top.at].op) /\ Quiet(Top.text[end].op)
    BY <1>1, <2>1, BlockIsQuiet
  <2>6. SameNesting(Top.text, Top.at, end + 1)
    BY <1>1, <1>3, <2>2, <2>3, <2>5, BlockKeepsNesting
  <2>7. SameNesting(Top.text, end, end + 1)
    BY <1>1, <2>4, <2>5, QuietKeepsNesting
  <2>8. SameNesting(Top.text, Top.at, end)
    BY <2>6, <2>7 DEF SameNesting
  <2>9. NestsWell(Body(Top.text, Top.at, end), one)
    BY <1>1, <1>w, BodyNests
  <2>10. Nests(Body(Top.text, Top.at, end))
    BY <1>0, <2>9 DEF Nests
  <2>11. Body(Top.text, Top.at, end) \in Lines
    BY <1>0, <1>1, 0 \in Nat, BlockTexts
  <2> QED
    BY <2>4, <2>5, <2>6, <2>8, <2>10, <2>11
<1> QED
  BY <1>0, <1>3, <1>4

(* The text is read on after its block.                                    *)
LEMMA AfterBlockReadsOn ==
    ASSUME IInv, Nest, Reading, Stmt.op \in BlockStarts, conds' = conds,
           NEW end \in BlockEnds(Top.text, Top.at, FALSE), NEW stop \in BOOLEAN,
           GoTo(end + 1, stop)
    PROVE  ReadsOn
<1>1. /\ Len(Top.text) \in Nat /\ NestsIn(Top.text, 1, Len(Top.text))
      /\ Top.at \in 1 .. Len(Top.text) /\ Top.at \in 1 .. Len(Top.text) + 1
      /\ Top.conds \in Nat /\ Len(conds) \in Nat /\ Top.conds <= Len(conds)
      /\ Follows(Flags(conds), Top.text, Top.at, Top.conds, Len(conds))
  BY WhatFollows
<1>2. end + 1 \in 1 .. Len(Top.text) + 1 /\ SameNesting(Top.text, Top.at, end + 1)
  BY BlockAhead
<1>3. /\ Agree(Flags(conds), Flags(conds), Len(conds))
      /\ Agree(Flags(conds), Flags(conds), Top.conds)
  BY DEF Agree
<1>4. Follows(Flags(conds), Top.text, end + 1, Top.conds, Len(conds))
  BY <1>1, <1>2, <1>3, FollowsOn
<1>5. end + 1 \in Nat \ {0}
  BY <1>1, <1>2
<1> QED
  BY <1>1, <1>2, <1>3, <1>4, <1>5 DEF ReadsOn

(* A block that nests has an end.                                          *)
LEMMA NoneUnterminated ==
    ASSUME IInv, Nest, Unterminated
    PROVE  FALSE
BY BlockAhead DEF Unterminated, Walks, BlockStarts, Ends

(* A definition is skipped, and what it defines nests.                     *)
LEMMA DefinitionReadsOn ==
    ASSUME IInv, Nest, DefineMacro
    PROVE  ReadsOn /\ \A m \in macros' : Nests(m.body)
<1>1. Reading /\ Stmt.op \in BlockStarts /\ conds' = conds
  BY DEF DefineMacro, Walks, BlockStarts
<1>2. PICK end \in BlockEnds(Top.text, Top.at, FALSE) :
          /\ GoTo(end + 1, FALSE)
          /\ macros' = (macros \ Replaced) \cup
                {[name |-> Stmt.arg, lo |-> Stmt.lo, hi |-> Stmt.hi,
                  recursive |-> Stmt.recursive, id |-> definitions + 1,
                  body |-> Body(Top.text, Top.at, end)]}
  BY DEF DefineMacro, Ends
<1>3. ReadsOn
  <2>1. PICK stop \in BOOLEAN : stop = FALSE
    OBVIOUS
  <2>2. GoTo(end + 1, stop)
    BY <1>2, <2>1
  <2> QED
    BY <1>1, <2>2, AfterBlockReadsOn
<1>4. Nests(Body(Top.text, Top.at, end))
  BY <1>1, BlockAhead
<1>5. \A m \in macros : Nests(m.body)
  BY DEF Nest
<1>6. \A m \in macros' : m.body = Body(Top.text, Top.at, end) \/ m \in macros
  BY <1>2
<1>7. ASSUME NEW m \in macros' PROVE Nests(m.body)
  BY <1>4, <1>5, <1>6
<1> QED
  BY <1>3, <1>7

(* Entering a text with the place of the line that causes it is entering   *)
(* it.                                                                     *)
LEMMA EntersHere ==
    ASSUME IInv, Reading, NEW f, stack' = Append(stack, f)
    PROVE  Enters(f, Top.at)
<1>1. /\ stack \in Seq(Reader) /\ Len(stack) = Depth
      /\ Depth \in 1 .. Len(stack) /\ Top = stack[Depth] /\ Top \in Reader
  BY WhatIsRead DEF IInv
<1> DEFINE t == [stack EXCEPT ![Depth] = Top]
<1>2. /\ t \in Seq(Reader) /\ Len(t) = Len(stack)
      /\ \A d \in 1 .. Len(stack) : t[d] = IF d = Depth THEN Top ELSE stack[d]
  BY <1>1, ExceptSeq
<1> HIDE DEF t
<1>3. t = stack
  BY <1>1, <1>2, SeqEqual
<1>4. [Top EXCEPT !.at = Top.at] = Top
  BY <1>1 DEF Reader
<1>5. [stack EXCEPT ![Depth].at = Top.at] = [stack EXCEPT ![Depth] = [Top EXCEPT !.at = Top.at]]
  BY <1>1 DEF Reader
<1>6. [stack EXCEPT ![Depth].at = Top.at] = stack
  BY <1>3, <1>4, <1>5 DEF t
<1> QED
  BY <1>6 DEF Enters

(* A line that causes a text to be read.                                   *)
LEMMA CausesReading ==
    ASSUME IInv, Nest, Reading, conds' = conds, Quiet(Stmt.op),
           NEW f \in Reader, Nests(f.text), f.at = 1, f.conds = Len(conds),
           stack' = Append(stack, f)
    PROVE  ReadsAnother
BY WhatFollows, SameNestingAsItself, EntersHere DEF ReadsAnother

(* A text begins at its first line, under what is open.                    *)
LEMMA ReadBegins ==
    ASSUME NEW text, NEW kind
    PROVE  /\ Read(text, kind).text = text /\ Read(text, kind).at = 1
           /\ Read(text, kind).conds = Len(conds)
BY DEF Read

(* A macro is read where it is called, unless too many texts are.          *)
LEMMA CallReadsOn ==
    ASSUME IInv, Nest, CallMacro
    PROVE  ReadsOn \/ ReadsAnother
<1>1. /\ Reading /\ conds' = conds /\ Stmt.op = "call" /\ Quiet(Stmt.op)
  BY DEF CallMacro, Walks, Quiet, Opening, Arms
<1>2. CASE depth >= MaxDepth
  <2>1. PICK stop \in BOOLEAN : stop = (~GoesOn)
    OBVIOUS
  <2>2. GoTo(Top.at + 1, stop)
    BY <1>2, <2>1 DEF CallMacro
  <2> QED
    BY <1>1, <2>2, QuietReadsOn
<1>3. CASE ~(depth >= MaxDepth)
  <2>1. PICK m \in Callable : stack' = Append(stack, Expansion(m))
    BY <1>3 DEF CallMacro
  <2>2. m \in macros /\ m \in Macro
    BY <2>1 DEF Callable, IInv, RestOK
  <2>3. Nests(m.body)
    BY <2>2 DEF Nest
  <2> DEFINE r == Read(m.body, "macro")
             f == Expansion(m)
  <2>4. r \in Reader
    BY <2>2, ReadIsReader DEF Macro, Kinds, IInv
  <2>5. r.text = m.body /\ r.at = 1 /\ r.conds = Len(conds)
    BY ReadBegins
  <2>6. f \in Reader /\ f.text = m.body /\ f.at = 1 /\ f.conds = Len(conds)
    <3>1. m.id \in Nat /\ lastUnique + 1 \in Nat /\ reps \in Nat
      BY <2>2 DEF Macro, RestOK, StackOK, IInv
    <3> HIDE DEF r
    <3>2. f = [r EXCEPT !.id = m.id, !.unique = lastUnique + 1, !.reps = reps]
      BY DEF Expansion, r
    <3> QED
      BY <2>4, <2>5, <3>1, <3>2 DEF Reader
  <2>7. stack' = Append(stack, f)
    BY <2>1
  <2> HIDE DEF f
  <2>8. Nests(f.text)
    BY <2>3, <2>6
  <2> QED
    BY <1>1, <2>6, <2>7, <2>8, CausesReading
<1> QED
  BY <1>2, <1>3

(* A file is read where it is included, unless there is none.              *)
LEMMA IncludeReadsOn ==
    ASSUME IInv, AllNest, Nest, Include
    PROVE  ReadsOn \/ ReadsAnother
<1>1. /\ Reading /\ conds' = conds /\ Quiet(Stmt.op)
  BY DEF Include, Walks, Quiet, Opening, Arms
<1>2. CASE Stmt.arg \notin DOMAIN prog.files \/ includeDepth > MaxIncludeDepth
  <2>1. FALSE \in BOOLEAN /\ (~GoesOn) \in BOOLEAN
    OBVIOUS
  <2>2. GoTo(Top.at + 1, FALSE) \/ GoTo(Top.at + 1, ~GoesOn)
    BY <1>2 DEF Include
  <2>3. PICK stop \in BOOLEAN : GoTo(Top.at + 1, stop)
    BY <2>1, <2>2
  <2> QED
    BY <1>1, <2>3, QuietReadsOn
<1>3. CASE ~(Stmt.arg \notin DOMAIN prog.files \/ includeDepth > MaxIncludeDepth)
  <2> DEFINE f == Read(prog.files[Stmt.arg], "include")
  <2>1. stack' = Append(stack, f)
    BY <1>3 DEF Include
  <2>2. prog.files[Stmt.arg] \in Lines
    BY <1>3, ElementOfSeq DEF IInv, RestOK, Program
  <2>3. f \in Reader
    BY <2>2, ReadIsReader DEF IInv, Kinds
  <2>4. f.text = prog.files[Stmt.arg] /\ f.at = 1 /\ f.conds = Len(conds)
    BY ReadBegins
  <2> HIDE DEF f
  <2>5. Nests(f.text)
    BY <1>3, <2>4 DEF AllNest, TextsOf
  <2> QED
    BY <1>1, <2>1, <2>3, <2>4, <2>5, CausesReading
<1> QED
  BY <1>2, <1>3

(* The copies of a `%rep' are read at its end, unless there are none, too  *)
(* many, or too many texts being read.                                     *)
LEMMA RepReadsOn ==
    ASSUME IInv, Nest, Rep
    PROVE  ReadsOn \/ ReadsAnother
<1> DEFINE Refused(body) == Stmt.arg > MaxRep \/ Stmt.arg = 0 \/ body = <<>> \/ depth >= MaxDepth
<1>1. Reading /\ conds' = conds /\ Stmt.op \in BlockStarts
  BY DEF Rep, Walks, BlockStarts
<1>2. PICK end \in BlockEnds(Top.text, Top.at, FALSE) :
          IF Refused(Body(Top.text, Top.at, end))
          THEN GoTo(end + 1, ~GoesOn)
          ELSE stack' = Append([stack EXCEPT ![Depth].at = end],
                               Read(Copies(Body(Top.text, Top.at, end), Stmt.arg), "rept"))
  BY DEF Rep, Ends
<1>3. /\ end \in 1 .. Len(Top.text)
      /\ Quiet(Top.text[end].op)
      /\ SameNesting(Top.text, Top.at, end)
      /\ Nests(Body(Top.text, Top.at, end))
      /\ Body(Top.text, Top.at, end) \in Lines
  BY <1>1, BlockAhead
<1>4. Stmt.arg \in Nat
  BY <1>1, WhatFollows DEF Line
<1>5. CASE Refused(Body(Top.text, Top.at, end))
  <2>1. PICK stop \in BOOLEAN : stop = (~GoesOn)
    OBVIOUS
  <2>2. GoTo(end + 1, stop)
    BY <1>2, <1>5, <2>1
  <2> QED
    BY <1>1, <2>2, AfterBlockReadsOn
<1>6. CASE ~Refused(Body(Top.text, Top.at, end))
  <2> DEFINE copies == Copies(Body(Top.text, Top.at, end), Stmt.arg)
             f == Read(copies, "rept")
  <2>1. Enters(f, end)
    BY <1>2, <1>6 DEF Enters
  <2>2. copies \in Lines
    BY <1>1, <1>4, WhatFollows, BlockTexts
  <2>3. f \in Reader
    BY <2>2, ReadIsReader DEF IInv, Kinds
  <2>4. f.text = copies /\ f.at = 1 /\ f.conds = Len(conds)
    BY ReadBegins
  <2>5. Nests(copies)
    <3>1. PICK one \in BOOLEAN : one = FALSE
      OBVIOUS
    <3>2. NestsWell(Body(Top.text, Top.at, end), one)
      BY <1>3, <3>1 DEF Nests
    <3>3. NestsWell(copies, one)
      BY <1>3, <1>4, <3>2, CopiesNest DEF Lines
    <3> QED
      BY <3>1, <3>3 DEF Nests
  <2> HIDE DEF copies, f
  <2>6. Nests(f.text)
    BY <2>4, <2>5
  <2> QED
    BY <1>1, <1>3, <2>1, <2>3, <2>4, <2>6 DEF ReadsAnother
<1> QED
  BY <1>5, <1>6

-----------------------------------------------------------------------------
(* The return from a text, and the steps together.                         *)

(* What a return does to the texts below.                                  *)
LEMMA LeaveSetsPlace ==
    ASSUME IInv, Leave
    PROVE  /\ Len(stack') \in Nat /\ Len(stack) = Len(stack') + 1
           /\ \A d \in 1 .. Len(stack') - 1 : stack'[d] = stack[d]
           /\ Len(stack') # 0 =>
                /\ SameText(stack[Len(stack')], stack'[Len(stack')])
                /\ stack'[Len(stack')].at = stack[Len(stack')].at + 1
<1>1. /\ stack \in Seq(Reader) /\ stack # <<>> /\ Len(stack) \in Nat \ {0}
      /\ Depth = Len(stack)
  BY EmptySeq, LenProperties DEF Leave, IInv, StackOK, Depth
<1> DEFINE back == SubSeq(stack, 1, Depth - 1)
<1>2. /\ back \in Seq(Reader) /\ Len(back) = Depth - 1
      /\ \A d \in 1 .. Depth - 1 : back[d] = stack[d]
  BY <1>1, PrefixOfSeq
<1>3. stack' = IF back = <<>> THEN back
               ELSE [back EXCEPT ![Depth - 1].at = @ + 1,
                                 ![Depth - 1].stopped = unwind' # "none" \/ ended]
  BY <1>1 DEF Leave, Front
<1>4. PICK n \in Nat : n = Depth - 1
  BY <1>1
<1> HIDE DEF back
<1>5. CASE back = <<>>
  <2>1. stack' = back /\ Len(back) = n
    BY <1>2, <1>3, <1>4, <1>5
  <2>2. n = 0
    BY <1>5, <2>1
  <2>3. Len(stack') = 0 /\ Len(stack) = 1
    BY <1>1, <1>4, <2>1, <2>2
  <2> QED
    BY <2>3
<1>6. CASE back # <<>>
  <2>1. Len(back) = n /\ n \in 1 .. Len(back) /\ n \in Nat \ {0}
    BY <1>2, <1>4, <1>6, EmptySeq
  <2>2. back[n] \in Reader /\ back[n] = stack[n]
    BY <1>2, <1>4, <2>1, ElementOfSeq
  <2> DEFINE stop == unwind' # "none" \/ ended
             f == [back[n] EXCEPT !.at = @ + 1, !.stopped = stop]
  <2>3. stop \in BOOLEAN /\ back[n].at + 1 \in Nat \ {0}
    BY <2>2 DEF IInv, RestOK, Reader
  <2>4. stack' = [back EXCEPT ![n].at = @ + 1, ![n].stopped = stop]
    BY <1>3, <1>4, <1>6
  <2> HIDE DEF stop
  <2>5. stack' = [back EXCEPT ![n] = f]
    BY <2>2, <2>4 DEF Reader
  <2>6. f \in Reader /\ f.at = back[n].at + 1 /\ SameText(back[n], f)
    BY <2>2, <2>3 DEF Reader, SameText
  <2> HIDE DEF f
  <2>7. /\ Len(stack') = n /\ stack'[n] = f /\ OnlyTopDiffers(back, stack')
    BY <1>2, <2>1, <2>5, <2>6, PlaceIsSet
  <2>8. \A d \in 1 .. n - 1 : stack'[d] = stack[d]
    BY <1>2, <1>4, <2>1, <2>7 DEF OnlyTopDiffers
  <2>9. Len(stack) = n + 1
    BY <1>1, <1>4
  <2> QED
    BY <2>2, <2>6, <2>7, <2>8, <2>9
<1> QED
  BY <1>5, <1>6

(* The return takes the conditionals the text has left open.               *)
LEMMA ReturnKeepsNest ==
    ASSUME IInv, Nest, Leave
    PROVE  StackFollows(Flags(conds'), Len(conds'), stack', FALSE)
<1>1. /\ Len(stack') \in Nat /\ Len(stack) = Len(stack') + 1
      /\ \A d \in 1 .. Len(stack') - 1 : stack'[d] = stack[d]
      /\ Len(stack') # 0 =>
           /\ SameText(stack[Len(stack')], stack'[Len(stack')])
           /\ stack'[Len(stack')].at = stack[Len(stack')].at + 1
  BY LeaveSetsPlace
<1>2. /\ conds \in Seq(States) /\ Len(conds) \in Nat /\ Top = stack[Len(stack)]
  BY LenProperties DEF IInv, RestOK, Top, Depth
<1>3. Len(stack) \in 1 .. Len(stack)
  BY <1>1
<1>4. StackFollows(Flags(conds), Len(conds), stack, FALSE)
  BY DEF Nest
<1>5. Top.conds \in 0 .. Len(conds) /\ Top.conds \in Nat /\ Top.conds <= Len(conds)
  <2>1. Top.conds \in 0 .. Len(conds)
    BY <1>2, <1>3, <1>4 DEF StackFollows
  <2> QED
    BY <1>2, <2>1
<1>6. Len(conds') = Top.conds /\ \A d \in 1 .. Top.conds : conds'[d] = conds[d]
  <2>1. conds' = IF Len(conds) > Top.conds THEN SubSeq(conds, 1, Top.conds) ELSE conds
    BY DEF Leave
  <2>2. CASE Len(conds) > Top.conds
    BY <1>2, <1>5, <2>1, <2>2, PrefixOfSeq
  <2>3. CASE ~(Len(conds) > Top.conds)
    BY <1>2, <1>5, <2>1, <2>3
  <2> QED
    BY <2>2, <2>3
<1>7. Agree(Flags(conds), Flags(conds'), Top.conds)
  <2>1. Len(conds') \in Nat /\ Top.conds <= Len(conds') /\ Top.conds \in Int
    BY <1>5, <1>6
  <2> QED
    BY <1>2, <1>5, <1>6, <2>1, FlagsAgree
<1>8. PICK one \in BOOLEAN : one = FALSE
  OBVIOUS
<1>9. StackFollows(Flags(conds), Len(conds), stack, one)
  BY <1>4, <1>8
<1>10. /\ Agree(Flags(conds), Flags(conds'), stack[Len(stack)].conds)
       /\ stack[Len(stack)].conds <= Len(conds') /\ Len(conds') \in Nat
       /\ Len(conds') = stack[Len(stack)].conds
  BY <1>2, <1>5, <1>6, <1>7
<1>11. StackFollows(Flags(conds'), Len(conds'), stack', one)
  BY <1>1, <1>2, <1>9, <1>10, StackReturns
<1> QED
  BY <1>8, <1>11

(* The file being assembled is read with nothing around it.                *)
LEMMA InitNests == Init => NestInv
<1> SUFFICES ASSUME Init, AllNest PROVE Nest
  BY InitInv DEF NestInv
<1>1. prog.main \in Lines /\ Nests(prog.main)
  BY SourcesAssumption DEF Init, Program, AllNest, TextsOf
<1>2. stack = <<[text |-> prog.main, at |-> 1, kind |-> "input", conds |-> 0,
                 stopped |-> FALSE, id |-> 0, unique |-> 0, reps |-> 0]>>
      /\ conds = <<>> /\ macros = {}
  BY DEF Init
<1>3. /\ Len(stack) = 1 /\ stack[1].at = 1 /\ stack[1].conds = 0
      /\ stack[1].text = prog.main /\ Len(conds) = 0
  BY <1>2
<1>4. Len(stack[1].text) \in Nat
  BY <1>1, <1>3, LenProperties DEF Lines
<1>5. PICK one \in BOOLEAN : one = FALSE
  OBVIOUS
<1>6. NestsWell(stack[1].text, one)
  BY <1>1, <1>3, <1>5 DEF Nests
<1>7. StackFollows(Flags(conds), 0, stack, one)
  BY <1>3, <1>4, <1>6, StackStarts
<1>8. StackFollows(Flags(conds), Len(conds), stack, FALSE)
  BY <1>3, <1>5, <1>7
<1> QED
  BY <1>2, <1>8 DEF Nest

(* Only definitions and `%unmacro' touch the macros, and `%unmacro' adds   *)
(* none.                                                                   *)
LEMMA MacrosStayNested ==
    ASSUME Nest, [Next]_vars, ~DefineMacro
    PROVE  \A m \in macros' : Nests(m.body)
<1>1. macros' = macros \/ macros' = macros \ Replaced
  BY DEF Next, DirIf, DirElif, DirElse, DirEndif, Conditional, Skip, Unterminated, UnMacro,
         CallMacro, ExitMacro, Rep, ExitRep, StrayEnd, Include, Push, Pop, Fatal, Code, Local,
         ContextLocal, Assembles, Leave, Stop, vars, macroVars
<1> QED
  BY <1>1 DEF Nest

(* The program is not changed.                                             *)
LEMMA ProgramStays ==
    ASSUME [Next]_vars
    PROVE  prog' = prog
BY DEF Next, DirIf, DirElif, DirElse, DirEndif, Conditional, Skip, Unterminated, DefineMacro,
       UnMacro, CallMacro, ExitMacro, Rep, ExitRep, StrayEnd, Include, Push, Pop, Fatal, Code,
       Local, ContextLocal, Assembles, Leave, Stop, vars

(* Every step keeps the walk with the texts, as long as they nest.         *)
LEMMA NextKeepsNest == NestInv /\ [Next]_vars => NestInv'
<1> SUFFICES ASSUME NestInv, [Next]_vars PROVE NestInv'
  OBVIOUS
<1>1. IInv /\ IInv'
  BY NextKeepsInv DEF NestInv
<1>2. prog' = prog
  BY ProgramStays
<1>3. AllNest' <=> AllNest
  BY <1>2 DEF AllNest
<1>4. ASSUME AllNest
      PROVE  Nest'
  <2>1. Nest
    BY <1>4 DEF NestInv
  <2>2. CASE UNCHANGED vars
    BY <2>1, <2>2 DEF vars, macroVars, Nest
  <2>3. CASE ~UNCHANGED vars
    <3>1. \A m \in macros' : Nests(m.body)
      BY <1>1, <2>1, DefinitionReadsOn, MacrosStayNested
    <3>2. StackFollows(Flags(conds'), Len(conds'), stack', FALSE)
      <4>1. CASE Leave
        BY <1>1, <2>1, <4>1, ReturnKeepsNest
      <4>2. CASE ~Leave
        <5>1. ~Stop /\ ~Unterminated
          BY <1>1, <2>1, <2>3, NoneUnterminated DEF Stop
        <5>2. Reading
          BY <2>3, <4>2, <5>1 DEF Next, DirIf, DirElif, DirElse, DirEndif, Conditional, Skip,
             DefineMacro, UnMacro, CallMacro, ExitMacro, Rep, ExitRep, StrayEnd, Include, Push,
             Pop, Fatal, Code, Local, ContextLocal, Walks
        <5>3. ReadsOn \/ ReadsAnother
          BY <1>1, <1>4, <2>1, <2>3, <4>2, <5>1, IfReadsOn, ElifReadsOn, ElseReadsOn, EndifReadsOn,
             LinesReadOn, DefinitionReadsOn, CallReadsOn, IncludeReadsOn, RepReadsOn DEF Next
        <5> QED
          BY <1>1, <2>1, <5>2, <5>3, ReadingOnKeepsNest, ReadingAnotherKeepsNest
      <4> QED
        BY <4>1, <4>2
    <3> QED
      BY <3>1, <3>2 DEF Nest
  <2> QED
    BY <2>2, <2>3
<1> QED
  BY <1>1, <1>3, <1>4 DEF NestInv

(* What the states of the stack say of a line is what the texts do.        *)
LEMMA NestReads ==
    ASSUME IInv, Nest, Reading
    PROVE  Emitting <=> \A d \in 1 .. Depth : IsLive(stack[d].text, stack[d].at)
<1>1. /\ Len(stack) \in Nat \ {0} /\ Depth = Len(stack) /\ Top = stack[Len(stack)]
      /\ Len(conds) \in Nat
  BY WhatFollows
<1>2. ~stack[Len(stack)].stopped
  BY <1>1 DEF Reading, HasLine
<1>3. PICK one \in BOOLEAN : one = FALSE
  OBVIOUS
<1>4. StackFollows(Flags(conds), Len(conds), stack, one)
  BY <1>3 DEF Nest
<1>5. Live(Flags(conds), Len(conds))
        <=> \A d \in 1 .. Len(stack) : IsLive(stack[d].text, stack[d].at)
  BY <1>1, <1>2, <1>4, StackIsLive
<1>6. Emitting <=> Live(Flags(conds), Len(conds))
  BY EmittingIsLive DEF IInv
<1> QED
  BY <1>1, <1>5, <1>6

(* A line is assembled exactly where its text and every text on the way to *)
(* it say so, whatever files, expansions and copies these are and however  *)
(* they were left, in every program whose texts nest (run_nasm,            *)
(* nasm_conditional, nasm_emitting).                                       *)
THEOREM LinesFollowTheirNesting == Spec => []LinesFollowNesting
<1>1. NestInv => LinesFollowNesting
  <2> SUFFICES ASSUME NestInv, Reading, AllNest
               PROVE  Emitting = (\A d \in 1 .. Depth : IsLive(stack[d].text, stack[d].at))
    BY DEF LinesFollowNesting, AllNest, Nests
  <2>1. Emitting <=> \A d \in 1 .. Depth : IsLive(stack[d].text, stack[d].at)
    BY NestReads DEF NestInv
  <2>2. Emitting \in BOOLEAN
    BY DEF Emitting, Emits
  <2> QED
    BY <2>1, <2>2
<1> QED
  BY <1>1, InitNests, NextKeepsNest, PTL DEF Spec
=============================================================================
