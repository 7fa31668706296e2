--------------------------- MODULE NestingProofs ---------------------------
(***************************************************************************)
(* What the structure of a text means to one who reads it one statement at *)
(* a time, with a stack of the flags of the conditionals that are open.    *)
(*                                                                         *)
(* The definitions of Nesting look at whole texts: how many conditionals   *)
(* are open at a statement, which ones it lies in, which arms of them      *)
(* begin before it.  The lemmas here say how each of these follows from    *)
(* what it was one statement earlier, that the flags of a walk then follow *)
(* the conditionals of its text, that this survives blocks, which are      *)
(* skipped, copied and read on their own, and at last the same of a stack  *)
(* of texts each of which waits for the next one.  They are about no       *)
(* particular walk.                                                        *)
(***************************************************************************)
EXTENDS Nesting, FiniteSetTheorems, FunctionTheorems, SequenceTheorems,
        WellFoundedInduction, TLAPS

(* Induction over the naturals, as a fact about a set of them.             *)
LEMMA InductionBySets ==
    ASSUME NEW S, 0 \in S, \A n \in Nat : n \in S => n + 1 \in S
    PROVE  Nat \subseteq S
<1> DEFINE Less == {ss \in Nat \X Nat : ss[1] < ss[2]}
<1>1. IsWellFoundedOn(Less, Nat)
  BY Zenon, NatLessThanWellFounded DEF OpToRel
<1> HIDE DEF Less
<1>2. SUFFICES ASSUME Nat \ S # {} PROVE FALSE
  OBVIOUS
<1>3. PICK k \in Nat \ S : \A j \in Nat \ S : ~ (<<j, k>> \in Less)
  BY <1>1, <1>2, WFMin
<1>4. k # 0 /\ k - 1 \in Nat /\ k = (k - 1) + 1
  OBVIOUS
<1>5. k - 1 \notin S
  BY <1>4
<1>6. <<k - 1, k>> \in Less
  BY <1>4 DEF Less
<1> QED
  BY <1>3, <1>4, <1>5, <1>6

-----------------------------------------------------------------------------
(* Counts of statements.                                                   *)

(* There are finitely many to count.                                       *)
LEMMA CountIsNat ==
    ASSUME NEW text, NEW i \in Int, NEW j \in Int, NEW ops
    PROVE  /\ IsFiniteSet({k \in i .. j : text[k].op \in ops})
           /\ Count(text, i, j, ops) \in Nat
BY FS_Interval, FS_Subset, FS_CardinalityType DEF Count

(* Between nothing and nothing there are none.                             *)
LEMMA CountOfNone ==
    ASSUME NEW text, NEW i \in Int, NEW j \in Int, NEW ops, j < i
    PROVE  Count(text, i, j, ops) = 0
BY FS_EmptySet DEF Count

(* A statement is counted once or not at all.                              *)
LEMMA CountOfOne ==
    ASSUME NEW text, NEW k \in Int, NEW ops
    PROVE  Count(text, k, k, ops) = IF text[k].op \in ops THEN 1 ELSE 0
<1>1. CASE text[k].op \in ops
  BY <1>1, FS_Singleton DEF Count
<1>2. CASE text[k].op \notin ops
  BY <1>2, FS_EmptySet DEF Count
<1> QED
  BY <1>1, <1>2

(* Counts of adjoining stretches add up.                                   *)
LEMMA CountSplits ==
    ASSUME NEW text, NEW i \in Int, NEW m \in Int, NEW j \in Int, NEW ops,
           i <= m + 1, m <= j
    PROVE  Count(text, i, j, ops) = Count(text, i, m, ops) + Count(text, m + 1, j, ops)
<1> DEFINE A == {k \in i .. m : text[k].op \in ops}
           B == {k \in m + 1 .. j : text[k].op \in ops}
           C == {k \in i .. j : text[k].op \in ops}
<1>1. A \cup B = C /\ A \cap B = {}
  OBVIOUS
<1>a. m + 1 \in Int
  OBVIOUS
<1>2. IsFiniteSet(A) /\ IsFiniteSet(B)
  <2>1. IsFiniteSet(i .. m) /\ IsFiniteSet(m + 1 .. j)
    BY <1>a, FS_Interval
  <2>2. A \subseteq i .. m /\ B \subseteq m + 1 .. j
    OBVIOUS
  <2> HIDE DEF A, B
  <2> QED
    BY <2>1, <2>2, FS_Subset
<1>3. /\ Cardinality(A) = Count(text, i, m, ops)
      /\ Cardinality(B) = Count(text, m + 1, j, ops)
      /\ Cardinality(C) = Count(text, i, j, ops)
  BY DEF Count
<1> HIDE DEF A, B, C
<1>4. Cardinality(A \cup B) = Cardinality(A) + Cardinality(B) - Cardinality(A \cap B)
  BY <1>2, FS_Union
<1>5. Cardinality(A) \in Nat /\ Cardinality(B) \in Nat /\ Cardinality({}) = 0
  BY <1>2, FS_CardinalityType, FS_EmptySet
<1>6. Cardinality(C) = Cardinality(A) + Cardinality(B) - Cardinality({})
  BY <1>1, <1>4
<1>7. Cardinality(C) = Cardinality(A) + Cardinality(B)
  BY <1>5, <1>6
<1> QED
  BY <1>3, <1>7

(* The statements lo .. hi of t are those d before in s, as far as their   *)
(* operations go.                                                          *)
SameOps(t, s, d, lo, hi) == \A k \in lo .. hi : t[k].op = s[k - d].op

(* Counts follow the operations.                                           *)
LEMMA CountFollowsOps ==
    ASSUME NEW t, NEW s, NEW d \in Int, NEW i \in Int, NEW j \in Int, NEW ops,
           SameOps(t, s, d, i, j)
    PROVE  Count(t, i, j, ops) = Count(s, i - d, j - d, ops)
<1> DEFINE A == {k \in i .. j : t[k].op \in ops}
           B == {k \in i - d .. j - d : s[k].op \in ops}
           f == [k \in A |-> k - d]
<1>1. \A k \in i .. j : t[k].op = s[k - d].op
  BY DEF SameOps
<1>2. \A k \in A : k \in Int /\ k - d \in B
  BY <1>1
<1>3. ASSUME NEW m \in B PROVE m + d \in A /\ (m + d) - d = m
  BY <1>1
<1>4. f \in Bijection(A, B)
  <2>1. f \in [A -> B]
    BY <1>2
  <2>2. \A a, b \in A : f[a] = f[b] => a = b
    BY <1>2
  <2>3. \A m \in B : \E a \in A : f[a] = m
    BY <1>3
  <2> HIDE DEF A, B, f
  <2>4. f \in Injection(A, B)
    BY <2>1, <2>2 DEF Injection, IsInjective
  <2>5. f \in Surjection(A, B)
    BY <2>1, <2>3 DEF Surjection
  <2> QED
    BY <2>4, <2>5 DEF Bijection
<1>5. IsFiniteSet(A)
  BY CountIsNat
<1> HIDE DEF A, B, f
<1>6. ExistsBijection(A, B)
  BY <1>4 DEF ExistsBijection
<1>7. Cardinality(B) = Cardinality(A)
  BY <1>5, <1>6, FS_Bijection
<1> QED
  BY <1>7 DEF A, B, Count

-----------------------------------------------------------------------------
(* How many conditionals are open.                                         *)

(* A statement that neither begins nor ends an arm.                        *)
Quiet(op) == op \notin Opening \cup Arms \cup {"endif"}

(* One statement changes the number by one at most.                        *)
LEMMA OpenIsCounted ==
    ASSUME NEW text, NEW j \in Int, NEW k \in Int
    PROVE  /\ OpenFrom(text, j, k) \in Int
           /\ k < j => OpenFrom(text, j, k) = 0
           /\ j <= k + 1 =>
                /\ text[k + 1].op \in Opening =>
                     OpenFrom(text, j, k + 1) = OpenFrom(text, j, k) + 1
                /\ text[k + 1].op = "endif" =>
                     OpenFrom(text, j, k + 1) = OpenFrom(text, j, k) - 1
                /\ text[k + 1].op \notin Opening \cup {"endif"} =>
                     OpenFrom(text, j, k + 1) = OpenFrom(text, j, k)
<1>1. /\ Count(text, j, k, Opening) \in Nat
      /\ Count(text, j, k, {"endif"}) \in Nat
  BY CountIsNat
<1>2. OpenFrom(text, j, k) \in Int
  BY <1>1 DEF OpenFrom
<1>3. k < j => OpenFrom(text, j, k) = 0
  <2> SUFFICES ASSUME k < j PROVE OpenFrom(text, j, k) = 0
    OBVIOUS
  <2>1. Count(text, j, k, Opening) = 0 /\ Count(text, j, k, {"endif"}) = 0
    BY CountOfNone
  <2> QED
    BY <2>1 DEF OpenFrom
<1>4. ASSUME j <= k + 1
      PROVE  /\ text[k + 1].op \in Opening =>
                  OpenFrom(text, j, k + 1) = OpenFrom(text, j, k) + 1
             /\ text[k + 1].op = "endif" =>
                  OpenFrom(text, j, k + 1) = OpenFrom(text, j, k) - 1
             /\ text[k + 1].op \notin Opening \cup {"endif"} =>
                  OpenFrom(text, j, k + 1) = OpenFrom(text, j, k)
  <2>1. k + 1 \in Int /\ k <= k + 1
    OBVIOUS
  <2>2. /\ Count(text, j, k + 1, Opening)
             = Count(text, j, k, Opening) + Count(text, k + 1, k + 1, Opening)
        /\ Count(text, j, k + 1, {"endif"})
             = Count(text, j, k, {"endif"}) + Count(text, k + 1, k + 1, {"endif"})
    BY <1>4, <2>1, CountSplits
  <2>3. /\ Count(text, k + 1, k + 1, Opening) = IF text[k + 1].op \in Opening THEN 1 ELSE 0
        /\ Count(text, k + 1, k + 1, {"endif"}) = IF text[k + 1].op \in {"endif"} THEN 1 ELSE 0
    BY <2>1, CountOfOne
  <2>4. CASE text[k + 1].op \in Opening
    BY <1>1, <2>2, <2>3, <2>4 DEF Opening, OpenFrom
  <2>5. CASE text[k + 1].op = "endif"
    BY <1>1, <2>2, <2>3, <2>5 DEF Opening, OpenFrom
  <2>6. CASE text[k + 1].op \notin Opening \cup {"endif"}
    BY <1>1, <2>2, <2>3, <2>6 DEF OpenFrom
  <2> QED
    BY <2>4, <2>5, <2>6
<1> QED
  BY <1>2, <1>3, <1>4

(* The numbers of adjoining stretches add up.                              *)
LEMMA OpenSplits ==
    ASSUME NEW text, NEW j \in Int, NEW m \in Int, NEW k \in Int, j <= m + 1, m <= k
    PROVE  OpenFrom(text, j, k) = OpenFrom(text, j, m) + OpenFrom(text, m + 1, k)
<1>1. m + 1 \in Int
  OBVIOUS
<1>2. /\ Count(text, j, m, Opening) \in Nat /\ Count(text, m + 1, k, Opening) \in Nat
      /\ Count(text, j, m, {"endif"}) \in Nat /\ Count(text, m + 1, k, {"endif"}) \in Nat
  BY <1>1, CountIsNat
<1>3. Count(text, j, k, Opening)
        = Count(text, j, m, Opening) + Count(text, m + 1, k, Opening)
  BY CountSplits
<1>4. Count(text, j, k, {"endif"})
        = Count(text, j, m, {"endif"}) + Count(text, m + 1, k, {"endif"})
  BY CountSplits
<1> QED
  BY <1>2, <1>3, <1>4 DEF OpenFrom

(* They follow the operations.                                             *)
LEMMA OpenFollowsOps ==
    ASSUME NEW t, NEW s, NEW d \in Int, NEW i \in Int, NEW j \in Int,
           SameOps(t, s, d, i, j)
    PROVE  OpenFrom(t, i, j) = OpenFrom(s, i - d, j - d)
BY CountFollowsOps DEF OpenFrom

(* How many conditionals are open after statement k.                       *)
Opened(text, k) == OpenFrom(text, 1, k)

(* What a statement does to it.                                            *)
LEMMA OpenedSteps ==
    ASSUME NEW text, NEW k \in Nat \ {0}
    PROVE  /\ Opened(text, k) \in Int /\ Opened(text, k - 1) \in Int
           /\ Opened(text, 0) = 0
           /\ text[k].op \in Opening => Opened(text, k) = Opened(text, k - 1) + 1
           /\ text[k].op = "endif" => Opened(text, k) = Opened(text, k - 1) - 1
           /\ text[k].op \notin Opening \cup {"endif"} => Opened(text, k) = Opened(text, k - 1)
<1>1. k - 1 \in Int /\ (k - 1) + 1 = k /\ 1 <= (k - 1) + 1 /\ 1 \in Int /\ 0 \in Int /\ 0 < 1
      /\ k \in Int
  OBVIOUS
<1>2. OpenFrom(text, 1, k) \in Int /\ OpenFrom(text, 1, k - 1) \in Int
  BY <1>1, OpenIsCounted
<1>3. OpenFrom(text, 1, 0) = 0
  BY <1>1, OpenIsCounted
<1>4. PICK m \in Int : m = k - 1 /\ m + 1 = k /\ 1 <= m + 1
  BY <1>1
<1>5. /\ text[m + 1].op \in Opening => OpenFrom(text, 1, m + 1) = OpenFrom(text, 1, m) + 1
      /\ text[m + 1].op = "endif" => OpenFrom(text, 1, m + 1) = OpenFrom(text, 1, m) - 1
      /\ text[m + 1].op \notin Opening \cup {"endif"} =>
            OpenFrom(text, 1, m + 1) = OpenFrom(text, 1, m)
  BY <1>1, <1>4, OpenIsCounted
<1>6. /\ text[k].op \in Opening => OpenFrom(text, 1, k) = OpenFrom(text, 1, k - 1) + 1
      /\ text[k].op = "endif" => OpenFrom(text, 1, k) = OpenFrom(text, 1, k - 1) - 1
      /\ text[k].op \notin Opening \cup {"endif"} =>
            OpenFrom(text, 1, k) = OpenFrom(text, 1, k - 1)
  BY <1>4, <1>5
<1> QED
  BY <1>2, <1>3, <1>6 DEF Opened

(* The number opened in a stretch is a difference.                         *)
LEMMA OpenFromOpened ==
    ASSUME NEW text, NEW j \in Nat \ {0}, NEW k \in Nat, j <= k + 1
    PROVE  OpenFrom(text, j, k) = Opened(text, k) - Opened(text, j - 1)
<1>1. PICK m \in Nat : m = j - 1 /\ j = m + 1
  BY j \in Nat \ {0}
<1>2. OpenFrom(text, 1, k) = OpenFrom(text, 1, m) + OpenFrom(text, m + 1, k)
  BY <1>1, OpenSplits
<1>3. OpenFrom(text, 1, m) \in Int /\ OpenFrom(text, m + 1, k) \in Int
  BY <1>1, OpenIsCounted
<1>4. OpenFrom(text, m + 1, k) = OpenFrom(text, 1, k) - OpenFrom(text, 1, m)
  BY <1>2, <1>3
<1> QED
  BY <1>1, <1>4 DEF Opened

(* Where a text nests, no more are closed than were opened.                *)
LEMMA OpenedIsNat ==
    ASSUME NEW text, NEW n \in Nat, NestsIn(text, 1, n), NEW k \in 0 .. n
    PROVE  Opened(text, k) \in Nat
<1>1. CASE k = 0
  BY <1>1, 1 \in Nat \ {0}, OpenedSteps
<1>2. CASE k # 0
  BY <1>2, OpenIsCounted DEF NestsIn, Opened
<1> QED
  BY <1>1, <1>2

-----------------------------------------------------------------------------
(* The conditionals a statement lies in.                                   *)

(* They are those the statement before it lay in and left open, and the    *)
(* one it opened.                                                          *)
LEMMA EnclosingNext ==
    ASSUME NEW text, NEW a \in Nat \ {0}, NEW j
    PROVE  j \in Enclosing(text, a + 1) <=>
             \/ j \in Enclosing(text, a) /\ OpenFrom(text, j, a) > 0
             \/ j = a /\ text[a].op \in Opening
<1>1. a \in Int /\ (a + 1) - 1 = a
  OBVIOUS
<1>2. j \in Enclosing(text, a + 1) <=>
        /\ j \in 1 .. a /\ text[j].op \in Opening
        /\ \A k \in j .. a : OpenFrom(text, j, k) > 0
  BY <1>1 DEF Enclosing
<1>3. j \in Enclosing(text, a) <=>
        /\ j \in 1 .. a - 1 /\ text[j].op \in Opening
        /\ \A k \in j .. a - 1 : OpenFrom(text, j, k) > 0
  BY DEF Enclosing
<1>4. CASE j \in 1 .. a - 1
  BY <1>2, <1>3, <1>4
<1>5. CASE j = a
  <2>1. j \in 1 .. a /\ j \notin 1 .. a - 1
    BY <1>5
  <2>2. \A k \in j .. a : k = a
    BY <1>5
  <2>3. text[a].op \in Opening => OpenFrom(text, a, a) > 0
    <3>1. PICK m \in Int : m + 1 = a /\ m < a /\ a <= m + 1
      OBVIOUS
    <3>2. OpenFrom(text, a, m) = 0
      BY <1>1, <3>1, OpenIsCounted
    <3>3. text[m + 1].op \in Opening => OpenFrom(text, a, m + 1) = OpenFrom(text, a, m) + 1
      BY <1>1, <3>1, OpenIsCounted
    <3> QED
      BY <3>1, <3>2, <3>3
  <2> QED
    BY <1>2, <1>3, <1>5, <2>1, <2>2, <2>3
<1>6. CASE j \notin 1 .. a
  BY <1>2, <1>3, <1>6
<1>7. j \in 1 .. a => j \in 1 .. a - 1 \/ j = a
  OBVIOUS
<1> QED
  BY <1>4, <1>5, <1>6, <1>7

(* A statement begins an arm of the conditionals it is directly in.        *)
LEMMA ArmsNext ==
    ASSUME NEW text, NEW a \in Nat \ {0}, NEW j \in 1 .. a - 1
    PROVE  ArmsOf(text, j, a + 1) =
             ArmsOf(text, j, a)
               \cup {k \in {a} : text[k].op \in Arms /\ OpenFrom(text, j, k) = 1}
<1>1. (a + 1) - 1 = a
  OBVIOUS
<1>2. \A k : k \in j + 1 .. a <=> k \in j + 1 .. a - 1 \/ k \in {a}
  OBVIOUS
<1>3. ArmsOf(text, j, a + 1) =
        {j} \cup {k \in j + 1 .. a : text[k].op \in Arms /\ OpenFrom(text, j, k) = 1}
  BY <1>1 DEF ArmsOf
<1>4. ArmsOf(text, j, a) =
        {j} \cup {k \in j + 1 .. a - 1 : text[k].op \in Arms /\ OpenFrom(text, j, k) = 1}
  BY DEF ArmsOf
<1> QED
  BY Zenon, <1>2, <1>3, <1>4

(* A conditional a statement lies in is as deep as it was opened, and no   *)
(* deeper than the statement.                                              *)
LEMMA EnclosingDepth ==
    ASSUME NEW text, NEW n \in Nat, NestsIn(text, 1, n),
           NEW a \in 1 .. n + 1, NEW j \in Enclosing(text, a)
    PROVE  /\ j \in 1 .. a - 1 /\ text[j].op \in Opening
           /\ Opened(text, j) \in 1 .. Opened(text, a - 1)
           /\ Opened(text, a - 1) \in Nat
           /\ OpenFrom(text, j, a - 1) = Opened(text, a - 1) - Opened(text, j) + 1
<1>1. /\ j \in 1 .. a - 1 /\ text[j].op \in Opening
      /\ \A k \in j .. a - 1 : OpenFrom(text, j, k) > 0
  BY DEF Enclosing
<1>2. /\ j \in Nat \ {0} /\ a - 1 \in Nat /\ j - 1 \in 0 .. n /\ a - 1 \in 0 .. n
      /\ j <= (a - 1) + 1 /\ a - 1 \in j .. a - 1
  BY <1>1
<1>3. Opened(text, j - 1) \in Nat /\ Opened(text, a - 1) \in Nat
  BY <1>2, OpenedIsNat
<1>4. Opened(text, j) = Opened(text, j - 1) + 1
  BY <1>1, <1>2, OpenedSteps
<1>5. OpenFrom(text, j, a - 1) = Opened(text, a - 1) - Opened(text, j - 1)
  BY <1>2, OpenFromOpened
<1>6. OpenFrom(text, j, a - 1) > 0
  BY <1>1, <1>2
<1>7. PICK x \in Nat : x = Opened(text, j - 1)
  BY <1>3
<1>8. PICK y \in Nat : y = Opened(text, a - 1)
  BY <1>3
<1>9. Opened(text, j) = x + 1 /\ OpenFrom(text, j, a - 1) = y - x /\ y - x > 0
  BY <1>4, <1>5, <1>6, <1>7, <1>8
<1>10. x + 1 \in 1 .. y /\ y - x = y - (x + 1) + 1
  BY <1>9
<1> QED
  BY <1>1, <1>8, <1>9, <1>10

(* No two of them are equally deep.                                        *)
LEMMA EnclosingApart ==
    ASSUME NEW text, NEW n \in Nat, NestsIn(text, 1, n), NEW a \in 1 .. n + 1,
           NEW i \in Enclosing(text, a), NEW j \in Enclosing(text, a), i < j
    PROVE  Opened(text, i) < Opened(text, j)
<1>1. /\ i \in 1 .. a - 1 /\ j \in 1 .. a - 1 /\ text[i].op \in Opening /\ text[j].op \in Opening
      /\ \A k \in i .. a - 1 : OpenFrom(text, i, k) > 0
  BY DEF Enclosing
<1>2. /\ i \in Nat \ {0} /\ j \in Nat \ {0} /\ j - 1 \in Nat /\ i <= (j - 1) + 1
      /\ j - 1 \in i .. a - 1 /\ i - 1 \in 0 .. n /\ j - 1 \in 0 .. n
  BY <1>1
<1>3. OpenFrom(text, i, j - 1) = Opened(text, j - 1) - Opened(text, i - 1)
  BY <1>2, OpenFromOpened
<1>4. OpenFrom(text, i, j - 1) > 0
  BY <1>1, <1>2
<1>5. Opened(text, i) = Opened(text, i - 1) + 1 /\ Opened(text, j) = Opened(text, j - 1) + 1
  BY <1>1, <1>2, OpenedSteps
<1>6. Opened(text, i - 1) \in Nat /\ Opened(text, j - 1) \in Nat
  BY <1>2, OpenedIsNat
<1> QED
  BY <1>3, <1>4, <1>5, <1>6

(* And there is one of each depth, if that was so one statement earlier:   *)
LEMMA PlacesTakenNext ==
    ASSUME NEW text, NEW n \in Nat, NestsIn(text, 1, n), NEW a \in 1 .. n,
           \A r \in 1 .. Opened(text, a - 1) : \E j \in Enclosing(text, a) : Opened(text, j) = r,
           NEW r \in 1 .. Opened(text, a)
    PROVE  \E j \in Enclosing(text, a + 1) : Opened(text, j) = r
<1>1. a \in Nat \ {0} /\ a \in 1 .. n + 1 /\ a - 1 \in 0 .. n /\ a \in 0 .. n
  OBVIOUS
<1>2. Opened(text, a - 1) \in Nat /\ Opened(text, a) \in Nat
  BY <1>1, OpenedIsNat
<1>3. /\ text[a].op \in Opening => Opened(text, a) = Opened(text, a - 1) + 1
      /\ text[a].op = "endif" => Opened(text, a) = Opened(text, a - 1) - 1
      /\ text[a].op \notin Opening \cup {"endif"} => Opened(text, a) = Opened(text, a - 1)
  BY <1>1, OpenedSteps
<1>4. CASE text[a].op \in Opening /\ r = Opened(text, a)
  BY <1>1, <1>4, EnclosingNext
<1>5. CASE ~(text[a].op \in Opening /\ r = Opened(text, a))
  <2>1. r \in 1 .. Opened(text, a - 1)
    BY <1>2, <1>3, <1>5
  <2>2. PICK j \in Enclosing(text, a) : Opened(text, j) = r
    BY <2>1
  <2>3. j \in 1 .. a - 1 /\ text[j].op \in Opening
    BY <1>1, EnclosingDepth
  <2>4. j \in Nat \ {0} /\ j - 1 \in 0 .. n /\ a \in Nat /\ j <= a + 1
    BY <2>3
  <2>5. Opened(text, j) = Opened(text, j - 1) + 1 /\ Opened(text, j - 1) \in Nat
    BY <2>3, <2>4, OpenedSteps, OpenedIsNat
  <2>6. OpenFrom(text, j, a) = Opened(text, a) - Opened(text, j - 1)
    BY <2>4, OpenFromOpened
  <2>7. OpenFrom(text, j, a) > 0
    BY <1>2, <2>2, <2>5, <2>6
  <2>8. j \in Enclosing(text, a + 1)
    BY <1>1, <2>7, EnclosingNext
  <2> QED
    BY <2>2, <2>8
<1> QED
  BY <1>4, <1>5

(* so always.                                                              *)
LEMMA EnclosingAt ==
    ASSUME NEW text, NEW n \in Nat, NestsIn(text, 1, n), NEW a \in 1 .. n + 1,
           NEW r \in 1 .. Opened(text, a - 1)
    PROVE  \E j \in Enclosing(text, a) : Opened(text, j) = r
<1> DEFINE Taken(b) == \A q \in 1 .. Opened(text, b - 1) :
                          \E j \in Enclosing(text, b) : Opened(text, j) = q
           S == {m \in Nat : m + 1 <= n + 1 => Taken(m + 1)}
<1>1. 0 \in S
  <2>1. Opened(text, 0) = 0
    BY 1 \in Nat \ {0}, OpenedSteps
  <2>2. (0 + 1) - 1 = 0
    OBVIOUS
  <2>3. 1 .. Opened(text, (0 + 1) - 1) = {}
    BY <2>1, <2>2
  <2>4. Taken(0 + 1)
    BY <2>3
  <2> QED
    BY <2>4
<1>2. ASSUME NEW m \in Nat, m \in S PROVE m + 1 \in S
  <2> SUFFICES ASSUME (m + 1) + 1 <= n + 1 PROVE Taken((m + 1) + 1)
    OBVIOUS
  <2>1. m + 1 \in 1 .. n /\ m + 1 <= n + 1 /\ ((m + 1) + 1) - 1 = m + 1
    OBVIOUS
  <2>2. Taken(m + 1)
    BY <1>2, <2>1
  <2>3. ASSUME NEW q \in 1 .. Opened(text, ((m + 1) + 1) - 1)
        PROVE  \E j \in Enclosing(text, (m + 1) + 1) : Opened(text, j) = q
    <3>1. q \in 1 .. Opened(text, m + 1)
      BY <2>1
    <3> HIDE DEF S
    <3> QED
      BY <2>1, <2>2, <3>1, PlacesTakenNext
  <2> QED
    BY <2>3
<1> HIDE DEF S
<1>3. Nat \subseteq S
  BY <1>1, <1>2, InductionBySets
<1>4. a - 1 \in Nat /\ (a - 1) + 1 = a /\ a <= n + 1
  OBVIOUS
<1>5. a - 1 \in S
  BY <1>3, <1>4
<1>6. Taken(a)
  BY <1>4, <1>5 DEF S
<1> QED
  BY <1>6

-----------------------------------------------------------------------------
(* The arms of a conditional.                                              *)

(* One before statement i holds.                                           *)
SomeHolds(text, j, i) == \E k \in ArmsOf(text, j, i) : Holds(text[k])

(* One of them is .else.                                                   *)
ElseSeen(text, j, i) == \E k \in ArmsOf(text, j, i) : text[k].op = "else"

(* The last of them is the first that holds.                               *)
ArmLive(text, j, i) ==
    LET arms == ArmsOf(text, j, i)
        this == Max(arms)
    IN  Holds(text[this]) /\ \A k \in arms \ {this} : ~Holds(text[k])

(* The greatest of numbers is what it is known to be.                      *)
LEMMA GreatestIs ==
    ASSUME NEW S, \A y \in S : y \in Int, NEW x \in S, \A y \in S : x >= y
    PROVE  Max(S) = x
<1>1. \A z \in S : (\A y \in S : z >= y) => z = x
  <2> SUFFICES ASSUME NEW z \in S, \A y \in S : z >= y PROVE z = x
    OBVIOUS
  <2>1. z >= x /\ x >= z /\ x \in Int /\ z \in Int
    OBVIOUS
  <2> QED
    BY <2>1
<1> QED
  BY <1>1 DEF Max

(* The first arm is the one the conditional opens with.                    *)
LEMMA FirstArm ==
    ASSUME NEW text, NEW a \in Nat
    PROVE  /\ SomeHolds(text, a, a + 1) <=> Holds(text[a])
           /\ ArmLive(text, a, a + 1) <=> Holds(text[a])
<1>1. ArmsOf(text, a, a + 1) = {a}
  BY DEF ArmsOf
<1>2. Max({a}) = a
  BY GreatestIs
<1>3. {a} \ {a} = {}
  OBVIOUS
<1>4. SomeHolds(text, a, a + 1) <=> Holds(text[a])
  BY <1>1 DEF SomeHolds
<1>5. ArmLive(text, a, a + 1) <=> Holds(text[a])
  BY <1>1, <1>2, <1>3 DEF ArmLive
<1> QED
  BY <1>4, <1>5

(* Each further arm holds only if none before it did.                      *)
LEMMA AnotherArm ==
    ASSUME NEW text, NEW a \in Nat \ {0}, NEW j \in 1 .. a - 1,
           text[a].op \in Arms, OpenFrom(text, j, a) = 1
    PROVE  /\ SomeHolds(text, j, a + 1) <=> SomeHolds(text, j, a) \/ Holds(text[a])
           /\ ArmLive(text, j, a + 1) <=> Holds(text[a]) /\ ~SomeHolds(text, j, a)
           /\ ElseSeen(text, j, a + 1) <=> ElseSeen(text, j, a) \/ text[a].op = "else"
<1>1. PICK arms : arms = ArmsOf(text, j, a)
  OBVIOUS
<1>2. {k \in {a} : text[k].op \in Arms /\ OpenFrom(text, j, k) = 1} = {a}
  OBVIOUS
<1>3. ArmsOf(text, j, a + 1) = arms \cup {a}
  BY <1>1, <1>2, ArmsNext
<1>4. \A k \in arms : k \in 1 .. a - 1
  BY <1>1 DEF ArmsOf
<1>5. \A k \in arms \cup {a} : k \in Int /\ a >= k
  BY <1>4
<1>6. Max(arms \cup {a}) = a
  BY <1>5, GreatestIs
<1>7. \A k : k \in (arms \cup {a}) \ {a} <=> k \in arms
  BY <1>4
<1>8. SomeHolds(text, j, a + 1) <=> SomeHolds(text, j, a) \/ Holds(text[a])
  BY <1>1, <1>3 DEF SomeHolds
<1>9. ElseSeen(text, j, a + 1) <=> ElseSeen(text, j, a) \/ text[a].op = "else"
  BY <1>1, <1>3 DEF ElseSeen
<1>10. ArmLive(text, j, a + 1) <=>
         Holds(text[a]) /\ \A k \in (arms \cup {a}) \ {a} : ~Holds(text[k])
  BY <1>3, <1>6 DEF ArmLive
<1>11. SomeHolds(text, j, a) <=> \E k \in arms : Holds(text[k])
  BY <1>1 DEF SomeHolds
<1>12. ArmLive(text, j, a + 1) <=> Holds(text[a]) /\ ~SomeHolds(text, j, a)
  BY <1>7, <1>10, <1>11
<1> QED
  BY <1>8, <1>9, <1>12

(* Any other statement leaves them.                                        *)
LEMMA NoOtherArm ==
    ASSUME NEW text, NEW a \in Nat \ {0}, NEW j \in 1 .. a - 1,
           text[a].op \notin Arms \/ OpenFrom(text, j, a) # 1
    PROVE  ArmsOf(text, j, a + 1) = ArmsOf(text, j, a)
<1>1. {k \in {a} : text[k].op \in Arms /\ OpenFrom(text, j, k) = 1} = {}
  OBVIOUS
<1>2. ArmsOf(text, j, a + 1) =
        ArmsOf(text, j, a)
          \cup {k \in {a} : text[k].op \in Arms /\ OpenFrom(text, j, k) = 1}
  BY ArmsNext
<1>3. ArmsOf(text, j, a + 1) = ArmsOf(text, j, a) \cup {}
  BY Zenon, <1>1, <1>2
<1> QED
  BY <1>3

-----------------------------------------------------------------------------
(* Flags that follow a text.  A walk has flags vs[1], vs[2], ... for the   *)
(* conditionals that are open, those of the text from the one after lo.    *)

(* Whether what is around the conditional at c is assembled.               *)
Outer(vs, c) == c # 1 => vs[c - 1].active

(* The flags at c are those of the conditional opened at j.                *)
Fits(vs, c, text, j, at) ==
    /\ vs[c].taken <=> ~Outer(vs, c) \/ SomeHolds(text, j, at)
    /\ vs[c].active <=> Outer(vs, c) /\ ArmLive(text, j, at)
    /\ Outer(vs, c) /\ vs[c].seenElse => ElseSeen(text, j, at)

(* The flags lo + 1 .. hi are those of the conditionals statement at lies  *)
(* in.                                                                     *)
Follows(vs, text, at, lo, hi) ==
    /\ hi = lo + Opened(text, at - 1)
    /\ \A j \in Enclosing(text, at) : Fits(vs, lo + Opened(text, j), text, j, at)

(* Flags 1 .. n are the same.                                              *)
Agree(vs, ws, n) == \A c \in 1 .. n : ws[c] = vs[c]

(* Two statements lie in the same arms.                                    *)
SameNesting(text, a, b) ==
    /\ Opened(text, b - 1) = Opened(text, a - 1)
    /\ Enclosing(text, b) = Enclosing(text, a)
    /\ \A j \in Enclosing(text, a) : ArmsOf(text, j, b) = ArmsOf(text, j, a)

(* Flags that stay fit as long as the arms do.                             *)
LEMMA FitsKept ==
    ASSUME NEW vs, NEW ws, NEW m \in Int, NEW c \in 1 .. m, Agree(vs, ws, m),
           NEW text, NEW j, NEW a, NEW b, ArmsOf(text, j, b) = ArmsOf(text, j, a),
           Fits(vs, c, text, j, a)
    PROVE  Fits(ws, c, text, j, b)
<1>1. ws[c] = vs[c]
  BY DEF Agree
<1>2. Outer(ws, c) <=> Outer(vs, c)
  <2>1. CASE c = 1
    BY <2>1 DEF Outer
  <2>2. CASE c # 1
    BY <2>2 DEF Agree, Outer
  <2> QED
    BY <2>1, <2>2
<1>3. /\ SomeHolds(text, j, b) <=> SomeHolds(text, j, a)
      /\ ElseSeen(text, j, b) <=> ElseSeen(text, j, a)
      /\ ArmLive(text, j, b) <=> ArmLive(text, j, a)
  BY DEF SomeHolds, ElseSeen, ArmLive
<1> QED
  BY <1>1, <1>2, <1>3 DEF Fits

(* At its start a text lies in no conditional of its own.                  *)
LEMMA FollowsAtStart ==
    ASSUME NEW vs, NEW text, NEW lo \in Nat
    PROVE  Follows(vs, text, 1, lo, lo)
<1>1. Opened(text, 0) = 0
  BY 1 \in Nat \ {0}, OpenedSteps
<1>2. 1 - 1 = 0 /\ 1 .. 0 = {}
  OBVIOUS
<1>3. Enclosing(text, 1) = {}
  BY <1>2 DEF Enclosing
<1>4. lo = lo + Opened(text, 1 - 1)
  BY <1>1, <1>2
<1> QED
  BY <1>3, <1>4 DEF Follows

(* The flags of a text are among those of the walk:                        *)
LEMMA FollowsWithin ==
    ASSUME NEW vs, NEW text, NEW n \in Nat, NestsIn(text, 1, n), NEW at \in 1 .. n + 1,
           NEW lo \in Nat, NEW hi, Follows(vs, text, at, lo, hi)
    PROVE  /\ hi \in Nat /\ lo <= hi /\ Opened(text, at - 1) \in Nat
           /\ hi = lo + Opened(text, at - 1)
BY OpenedIsNat DEF Follows

(* each of them is.                                                        *)
LEMMA FlagsWithin ==
    ASSUME NEW vs, NEW text, NEW n \in Nat, NestsIn(text, 1, n), NEW at \in 1 .. n + 1,
           NEW lo \in Nat, NEW hi, Follows(vs, text, at, lo, hi),
           NEW j \in Enclosing(text, at)
    PROVE  lo + Opened(text, j) \in 1 .. hi
BY FollowsWithin, EnclosingDepth

(* They follow any statement in the same arms.                             *)
LEMMA FollowsOn ==
    ASSUME NEW vs, NEW ws, NEW text, NEW n \in Nat, NestsIn(text, 1, n),
           NEW at \in 1 .. n + 1, NEW lo \in Nat, NEW hi, Follows(vs, text, at, lo, hi),
           Agree(vs, ws, hi), NEW b, SameNesting(text, at, b)
    PROVE  Follows(ws, text, b, lo, hi)
<1>1. /\ hi \in Nat /\ \A j \in Enclosing(text, at) : lo + Opened(text, j) \in 1 .. hi
  BY FollowsWithin, FlagsWithin
<1>2. hi = lo + Opened(text, b - 1)
  BY DEF Follows, SameNesting
<1>3. ASSUME NEW j \in Enclosing(text, b)
      PROVE  Fits(ws, lo + Opened(text, j), text, j, b)
  BY <1>1, FitsKept DEF SameNesting, Follows
<1> QED
  BY <1>2, <1>3 DEF Follows

(* A statement lies in the arms it lies in.                                *)
LEMMA SameNestingAsItself ==
    ASSUME NEW text, NEW a
    PROVE  SameNesting(text, a, a)
BY DEF SameNesting

(* What is about no conditional changes no nesting.                        *)
LEMMA QuietKeepsNesting ==
    ASSUME NEW text, NEW n \in Nat, NestsIn(text, 1, n), NEW a \in 1 .. n, Quiet(text[a].op)
    PROVE  SameNesting(text, a, a + 1)
<1>1. a \in Nat \ {0} /\ (a + 1) - 1 = a /\ a \in 1 .. n + 1
  OBVIOUS
<1>2. text[a].op \notin Opening /\ text[a].op \notin Arms /\ text[a].op # "endif"
  BY DEF Quiet
<1>3. Opened(text, a) = Opened(text, a - 1)
  BY <1>1, <1>2, OpenedSteps
<1>4. ASSUME NEW j \in Enclosing(text, a)
      PROVE  OpenFrom(text, j, a) > 0 /\ ArmsOf(text, j, a + 1) = ArmsOf(text, j, a)
  <2>1. j \in 1 .. a - 1 /\ \A k \in j .. a - 1 : OpenFrom(text, j, k) > 0
    BY DEF Enclosing
  <2>2. PICK m \in Int : m = a - 1 /\ m + 1 = a
    OBVIOUS
  <2>3. j \in Int /\ j <= m + 1 /\ m \in j .. a - 1
    BY <2>1, <2>2
  <2>4. text[m + 1].op \notin Opening \cup {"endif"}
    BY <1>2, <2>2
  <2>5. OpenFrom(text, j, m + 1) = OpenFrom(text, j, m)
    BY <2>3, <2>4, OpenIsCounted
  <2>6. OpenFrom(text, j, a) > 0
    BY <2>1, <2>2, <2>3, <2>5
  <2>7. ArmsOf(text, j, a + 1) = ArmsOf(text, j, a)
    BY <1>1, <1>2, <2>1, NoOtherArm
  <2> QED
    BY <2>6, <2>7
<1>5. ASSUME NEW j PROVE j \in Enclosing(text, a + 1) <=> j \in Enclosing(text, a)
  BY <1>1, <1>2, <1>4, EnclosingNext
<1>6. Enclosing(text, a + 1) = Enclosing(text, a)
  BY <1>5
<1> QED
  BY <1>1, <1>3, <1>4, <1>6 DEF SameNesting

(* A conditional that opens begins with its own flags.                     *)
LEMMA OpeningFollows ==
    ASSUME NEW vs, NEW ws, NEW text, NEW n \in Nat, NestsIn(text, 1, n), NEW a \in 1 .. n,
           NEW lo \in Nat, NEW hi, Follows(vs, text, a, lo, hi), Agree(vs, ws, hi),
           text[a].op \in Opening,
           ws[hi + 1].taken <=> ~Outer(ws, hi + 1) \/ Holds(text[a]),
           ws[hi + 1].active <=> Outer(ws, hi + 1) /\ Holds(text[a]),
           ~ws[hi + 1].seenElse
    PROVE  Follows(ws, text, a + 1, lo, hi + 1)
<1>1. a \in Nat \ {0} /\ a \in Nat /\ (a + 1) - 1 = a /\ a \in 1 .. n + 1
  OBVIOUS
<1>2. /\ hi \in Nat /\ hi = lo + Opened(text, a - 1) /\ Opened(text, a - 1) \in Nat
  BY <1>1, FollowsWithin
<1>a. \A j \in Enclosing(text, a) : lo + Opened(text, j) \in 1 .. hi
  BY <1>1, FlagsWithin
<1>3. Opened(text, a) = Opened(text, a - 1) + 1
  BY <1>1, OpenedSteps
<1>4. hi + 1 = lo + Opened(text, a)
  BY <1>2, <1>3
<1>5. Fits(ws, hi + 1, text, a, a + 1)
  BY <1>1, FirstArm DEF Fits
<1>6. ASSUME NEW j \in Enclosing(text, a + 1)
      PROVE  Fits(ws, lo + Opened(text, j), text, j, a + 1)
  <2>1. CASE j = a
    BY <1>4, <1>5, <2>1
  <2>2. CASE j # a
    <3>1. j \in Enclosing(text, a)
      BY <1>1, <2>2, EnclosingNext
    <3>2. j \in 1 .. a - 1
      BY <3>1 DEF Enclosing
    <3>3. text[a].op \notin Arms
      BY DEF Opening, Arms
    <3>4. ArmsOf(text, j, a + 1) = ArmsOf(text, j, a)
      BY <1>1, <3>2, <3>3, NoOtherArm
    <3>5. Fits(vs, lo + Opened(text, j), text, j, a)
      BY <3>1 DEF Follows
    <3>6. lo + Opened(text, j) \in 1 .. hi /\ hi \in Int
      BY <1>2, <1>a, <3>1
    <3> QED
      BY <3>4, <3>5, <3>6, FitsKept
  <2> QED
    BY <2>1, <2>2
<1>7. hi + 1 = lo + Opened(text, (a + 1) - 1)
  BY <1>1, <1>4
<1> QED
  BY <1>6, <1>7 DEF Follows

(* One that ends leaves the flags of those around it.                      *)
LEMMA EndifFollows ==
    ASSUME NEW vs, NEW ws, NEW text, NEW n \in Nat, NestsIn(text, 1, n), NEW a \in 1 .. n,
           NEW lo \in Nat, NEW hi, Follows(vs, text, a, lo, hi), Agree(vs, ws, hi - 1),
           text[a].op = "endif"
    PROVE  lo < hi /\ Follows(ws, text, a + 1, lo, hi - 1)
<1>1. a \in Nat \ {0} /\ a \in Nat /\ (a + 1) - 1 = a /\ a \in 1 .. n + 1 /\ a \in 0 .. n
  OBVIOUS
<1>2. /\ hi \in Nat /\ hi = lo + Opened(text, a - 1) /\ Opened(text, a - 1) \in Nat
  BY <1>1, FollowsWithin
<1>3. Opened(text, a) = Opened(text, a - 1) - 1
  BY <1>1, OpenedSteps
<1>4. Opened(text, a) \in Nat
  BY <1>1, OpenedIsNat
<1>5. lo < hi /\ hi - 1 = lo + Opened(text, a)
  BY <1>2, <1>3, <1>4
<1>6. text[a].op \notin Opening /\ text[a].op \notin Arms
  BY DEF Opening, Arms
<1>7. ASSUME NEW j \in Enclosing(text, a + 1)
      PROVE  Fits(ws, lo + Opened(text, j), text, j, a + 1)
  <2>1. j \in Enclosing(text, a)
    BY <1>1, <1>6, EnclosingNext
  <2>2. j \in 1 .. a - 1
    BY <2>1 DEF Enclosing
  <2>3. ArmsOf(text, j, a + 1) = ArmsOf(text, j, a)
    BY <1>1, <1>6, <2>2, NoOtherArm
  <2>4. Fits(vs, lo + Opened(text, j), text, j, a)
    BY <2>1 DEF Follows
  <2>5. a + 1 \in 1 .. n + 1
    OBVIOUS
  <2>6. Opened(text, j) \in 1 .. Opened(text, (a + 1) - 1)
    BY <2>5, EnclosingDepth
  <2>7. lo + Opened(text, j) \in 1 .. hi - 1 /\ hi - 1 \in Int
    BY <1>1, <1>2, <1>4, <1>5, <2>6
  <2> QED
    BY <2>3, <2>4, <2>7, FitsKept
<1>8. hi - 1 = lo + Opened(text, (a + 1) - 1)
  BY <1>1, <1>5
<1> QED
  BY <1>5, <1>7, <1>8 DEF Follows

(* Where an arm begins, the conditional it is of has had no .else.         *)
LEMMA ArmsAreOpen ==
    ASSUME NEW text, NEW n \in Nat, NestsIn(text, 1, n), NEW a \in 1 .. n,
           text[a].op \in Arms
    PROVE  /\ Opened(text, a) = Opened(text, a - 1)
           /\ \E j \in Enclosing(text, a) :
                 /\ Opened(text, j) = Opened(text, a - 1) /\ OpenFrom(text, j, a) = 1
                 /\ ~ElseSeen(text, j, a)
<1>1. a \in Nat \ {0} /\ a \in Nat /\ a \in 1 .. n + 1
  OBVIOUS
<1>2. text[a].op \notin Opening \cup {"endif"}
  BY DEF Opening, Arms
<1>3. Opened(text, a) = Opened(text, a - 1)
  BY <1>1, <1>2, OpenedSteps
<1>4. PICK j \in 1 .. a - 1 :
          /\ j \in Enclosing(text, a)
          /\ OpenFrom(text, j, a) = 1
          /\ ~\E m \in j + 1 .. a - 1 : text[m].op = "else" /\ OpenFrom(text, j, m) = 1
  BY DEF NestsIn
<1>5. /\ text[j].op \in Opening /\ Opened(text, j) \in 1 .. Opened(text, a - 1)
      /\ Opened(text, a - 1) \in Nat
      /\ OpenFrom(text, j, a - 1) = Opened(text, a - 1) - Opened(text, j) + 1
  BY <1>1, <1>4, EnclosingDepth
<1>6. OpenFrom(text, j, a) = OpenFrom(text, j, a - 1)
  <2>1. PICK m \in Int : m = a - 1 /\ m + 1 = a
    OBVIOUS
  <2>2. j \in Int /\ j <= m + 1
    BY <2>1
  <2>3. OpenFrom(text, j, m + 1) = OpenFrom(text, j, m)
    BY <1>2, <2>1, <2>2, OpenIsCounted
  <2> QED
    BY <2>1, <2>3
<1>7. Opened(text, j) = Opened(text, a - 1)
  BY <1>4, <1>5, <1>6
<1>8. ~ElseSeen(text, j, a)
  BY <1>4, <1>5 DEF Opening, ArmsOf, ElseSeen
<1> QED
  BY <1>3, <1>4, <1>7, <1>8

(* The arm that begins turns the flags of its conditional to it.           *)
LEMMA ArmFollows ==
    ASSUME NEW vs, NEW ws, NEW text, NEW n \in Nat, NestsIn(text, 1, n), NEW a \in 1 .. n,
           NEW lo \in Nat, NEW hi, Follows(vs, text, a, lo, hi), Agree(vs, ws, hi - 1),
           text[a].op \in Arms,
           ws[hi].taken <=> vs[hi].taken \/ Holds(text[a]),
           ws[hi].active <=> Outer(vs, hi) /\ ~vs[hi].taken /\ Holds(text[a]),
           Outer(vs, hi) /\ ws[hi].seenElse => text[a].op = "else"
    PROVE  Follows(ws, text, a + 1, lo, hi)
<1>1. a \in Nat \ {0} /\ a \in Nat /\ (a + 1) - 1 = a /\ a \in 1 .. n + 1
  OBVIOUS
<1>2. /\ hi \in Nat /\ hi = lo + Opened(text, a - 1) /\ Opened(text, a - 1) \in Nat
  BY <1>1, FollowsWithin
<1>a. \A j \in Enclosing(text, a) : lo + Opened(text, j) \in 1 .. hi
  BY <1>1, FlagsWithin
<1>3. PICK i \in Enclosing(text, a) :
          /\ Opened(text, i) = Opened(text, a - 1) /\ OpenFrom(text, i, a) = 1
          /\ ~ElseSeen(text, i, a)
  BY ArmsAreOpen
<1>4. Opened(text, a) = Opened(text, a - 1)
  BY ArmsAreOpen
<1>5. lo + Opened(text, i) = hi /\ i \in 1 .. a - 1
  BY <1>2, <1>3 DEF Enclosing
<1>6. Outer(ws, hi) <=> Outer(vs, hi)
  <2>1. CASE hi = 1
    BY <2>1 DEF Outer
  <2>2. CASE hi # 1
    BY <1>2, <1>3, <1>5, <2>2, <1>a DEF Agree, Outer
  <2> QED
    BY <2>1, <2>2
<1>7. Fits(ws, hi, text, i, a + 1)
  <2>1. Fits(vs, hi, text, i, a)
    BY <1>3, <1>5 DEF Follows
  <2>2. /\ SomeHolds(text, i, a + 1) <=> SomeHolds(text, i, a) \/ Holds(text[a])
        /\ ArmLive(text, i, a + 1) <=> Holds(text[a]) /\ ~SomeHolds(text, i, a)
        /\ ElseSeen(text, i, a + 1) <=> ElseSeen(text, i, a) \/ text[a].op = "else"
    BY <1>1, <1>3, <1>5, AnotherArm
  <2>3. vs[hi].taken <=> ~Outer(vs, hi) \/ SomeHolds(text, i, a)
    BY <2>1 DEF Fits
  <2>4. ws[hi].taken <=> ~Outer(ws, hi) \/ SomeHolds(text, i, a + 1)
    BY <1>6, <2>2, <2>3
  <2>5. ws[hi].active <=> Outer(ws, hi) /\ ArmLive(text, i, a + 1)
    BY <1>6, <2>2, <2>3
  <2>6. Outer(ws, hi) /\ ws[hi].seenElse => ElseSeen(text, i, a + 1)
    BY <1>6, <2>2
  <2> QED
    BY <2>4, <2>5, <2>6 DEF Fits
<1>8. ASSUME NEW j \in Enclosing(text, a + 1)
      PROVE  Fits(ws, lo + Opened(text, j), text, j, a + 1)
  <2>1. CASE j = i
    BY <1>5, <1>7, <2>1
  <2>2. CASE j # i
    <3>1. text[a].op \notin Opening
      BY DEF Opening, Arms
    <3>2. j \in Enclosing(text, a)
      BY <1>1, <3>1, EnclosingNext
    <3>3. j \in 1 .. a - 1
      BY <3>2 DEF Enclosing
    <3>4. Opened(text, j) < Opened(text, i)
      <4>1. Opened(text, j) \in 1 .. Opened(text, a - 1)
        BY <1>1, <3>2, EnclosingDepth
      <4>2. i < j => Opened(text, i) < Opened(text, j)
        BY <1>1, <3>2, EnclosingApart
      <4>3. j < i => Opened(text, j) < Opened(text, i)
        BY <1>1, <3>2, EnclosingApart
      <4>4. i < j \/ j < i
        BY <1>5, <2>2, <3>3
      <4> QED
        BY <1>2, <1>3, <4>1, <4>2, <4>3, <4>4
    <3>5. OpenFrom(text, j, a) # 1
      <4>1. /\ j \in Nat \ {0} /\ i \in Nat \ {0} /\ a \in Nat /\ j <= a + 1 /\ i <= a + 1
        BY <1>5, <3>3
      <4>2. /\ OpenFrom(text, j, a) = Opened(text, a) - Opened(text, j - 1)
            /\ OpenFrom(text, i, a) = Opened(text, a) - Opened(text, i - 1)
        BY <4>1, OpenFromOpened
      <4>3. text[i].op \in Opening /\ text[j].op \in Opening
        BY <3>2 DEF Enclosing
      <4>4. /\ Opened(text, j) = Opened(text, j - 1) + 1 /\ Opened(text, j - 1) \in Int
            /\ Opened(text, i) = Opened(text, i - 1) + 1 /\ Opened(text, i - 1) \in Int
        BY <4>1, <4>3, OpenedSteps
      <4>5. Opened(text, a) \in Int
        BY <1>2, <1>4
      <4> QED
        BY <1>3, <3>4, <4>2, <4>4, <4>5
    <3>6. ArmsOf(text, j, a + 1) = ArmsOf(text, j, a)
      BY <1>1, <3>3, <3>5, NoOtherArm
    <3>7. Fits(vs, lo + Opened(text, j), text, j, a)
      BY <3>2 DEF Follows
    <3>8. Opened(text, j) \in 1 .. Opened(text, a - 1)
      BY <1>1, <3>2, EnclosingDepth
    <3>9. lo + Opened(text, j) \in 1 .. hi - 1 /\ hi - 1 \in Int
      BY <1>2, <1>3, <3>4, <3>8
    <3> QED
      BY <3>6, <3>7, <3>9, FitsKept
  <2> QED
    BY <2>1, <2>2
<1>9. hi = lo + Opened(text, (a + 1) - 1)
  BY <1>1, <1>2, <1>4
<1> QED
  BY <1>8, <1>9 DEF Follows

(* What the flags say where an arm begins.                                 *)
LEMMA ArmFollowsNoElse ==
    ASSUME NEW vs, NEW text, NEW n \in Nat, NestsIn(text, 1, n), NEW a \in 1 .. n,
           NEW lo \in Nat, NEW hi, Follows(vs, text, a, lo, hi), text[a].op \in Arms
    PROVE  /\ lo < hi
           /\ Outer(vs, hi) => ~vs[hi].seenElse
           /\ ~Outer(vs, hi) => vs[hi].taken /\ ~vs[hi].active
<1>1. a \in 1 .. n + 1
  OBVIOUS
<1>2. /\ hi \in Nat /\ hi = lo + Opened(text, a - 1) /\ Opened(text, a - 1) \in Nat
  BY <1>1, FollowsWithin
<1>3. PICK i \in Enclosing(text, a) :
          /\ Opened(text, i) = Opened(text, a - 1) /\ OpenFrom(text, i, a) = 1
          /\ ~ElseSeen(text, i, a)
  BY ArmsAreOpen
<1>4. Opened(text, i) \in 1 .. Opened(text, a - 1)
  BY <1>1, EnclosingDepth
<1>5. lo < hi /\ lo + Opened(text, i) = hi
  BY <1>2, <1>3, <1>4
<1>6. Fits(vs, hi, text, i, a)
  BY <1>5 DEF Follows
<1> QED
  BY <1>3, <1>5, <1>6 DEF Fits

-----------------------------------------------------------------------------
(* What flags that follow a text say.                                      *)

(* Whether what the conditional at c is the innermost of is assembled.     *)
Live(vs, c) == c # 0 => vs[c].active

(* The conditionals of the text that are no deeper than m are in live arms.*)
LiveTo(text, at, m) ==
    \A j \in Enclosing(text, at) : Opened(text, j) <= m => ArmLive(text, j, at)

(* Each flag adds one conditional.                                         *)
LEMMA LiveNext ==
    ASSUME NEW vs, NEW text, NEW n \in Nat, NestsIn(text, 1, n), NEW at \in 1 .. n + 1,
           NEW lo \in Nat, NEW hi, Follows(vs, text, at, lo, hi),
           NEW m \in Nat, lo + (m + 1) <= hi,
           Live(vs, lo + m) <=> Live(vs, lo) /\ LiveTo(text, at, m)
    PROVE  Live(vs, lo + (m + 1)) <=> Live(vs, lo) /\ LiveTo(text, at, m + 1)
<1>1. hi = lo + Opened(text, at - 1) /\ Opened(text, at - 1) \in Nat
  BY FollowsWithin
<1>2. m + 1 \in 1 .. Opened(text, at - 1)
  BY <1>1
<1>3. PICK j \in Enclosing(text, at) : Opened(text, j) = m + 1
  BY <1>2, EnclosingAt
<1>4. PICK c \in Nat : c = lo + (m + 1) /\ c - 1 = lo + m /\ c # 0
  OBVIOUS
<1>5. Fits(vs, c, text, j, at)
  BY <1>3, <1>4 DEF Follows
<1>6. vs[c].active <=> Outer(vs, c) /\ ArmLive(text, j, at)
  BY <1>5 DEF Fits
<1>7. Outer(vs, c) <=> Live(vs, c - 1)
  BY <1>4 DEF Outer, Live
<1>8. ASSUME NEW i \in Enclosing(text, at), Opened(text, i) <= m + 1, i # j
      PROVE  Opened(text, i) <= m
  <2>1. /\ i \in 1 .. at - 1 /\ Opened(text, i) \in 1 .. Opened(text, at - 1)
    BY EnclosingDepth
  <2>2. j \in 1 .. at - 1
    BY EnclosingDepth
  <2>3. i < j \/ j < i
    BY <1>8, <2>1, <2>2
  <2>4. i < j => Opened(text, i) < Opened(text, j)
    BY EnclosingApart
  <2>5. j < i => Opened(text, j) < Opened(text, i)
    BY EnclosingApart
  <2>6. Opened(text, i) \in Nat
    BY <1>1, <2>1
  <2> QED
    BY <1>3, <1>8, <2>3, <2>4, <2>5, <2>6
<1>9. LiveTo(text, at, m + 1) <=> LiveTo(text, at, m) /\ ArmLive(text, j, at)
  <2>1. ASSUME LiveTo(text, at, m + 1) PROVE LiveTo(text, at, m)
    <3>1. ASSUME NEW i \in Enclosing(text, at), Opened(text, i) <= m
          PROVE  Opened(text, i) <= m + 1
      BY <1>1, <3>1, EnclosingDepth
    <3> QED
      BY <2>1, <3>1 DEF LiveTo
  <2>2. ASSUME LiveTo(text, at, m + 1) PROVE ArmLive(text, j, at)
    BY <1>3, <2>2 DEF LiveTo
  <2>3. ASSUME LiveTo(text, at, m), ArmLive(text, j, at) PROVE LiveTo(text, at, m + 1)
    BY <1>8, <2>3 DEF LiveTo
  <2> QED
    BY <2>1, <2>2, <2>3
<1>10. Live(vs, c) <=> vs[c].active
  BY <1>4 DEF Live
<1>11. Live(vs, c) <=> Live(vs, c - 1) /\ ArmLive(text, j, at)
  BY <1>6, <1>7, <1>10
<1>12. Live(vs, lo + (m + 1)) <=> Live(vs, lo + m) /\ ArmLive(text, j, at)
  BY <1>4, <1>11
<1> QED
  BY <1>9, <1>12

(* So the innermost flag says what the text does, if what is around the    *)
(* text is assembled.                                                      *)
LEMMA FollowsIsLive ==
    ASSUME NEW vs, NEW text, NEW n \in Nat, NestsIn(text, 1, n), NEW at \in 1 .. n + 1,
           NEW lo \in Nat, NEW hi, Follows(vs, text, at, lo, hi)
    PROVE  Live(vs, hi) <=> Live(vs, lo) /\ IsLive(text, at)
<1> DEFINE Says(m) == Live(vs, lo + m) <=> Live(vs, lo) /\ LiveTo(text, at, m)
           S == {m \in Nat : lo + m <= hi => Says(m)}
<1>1. hi = lo + Opened(text, at - 1) /\ Opened(text, at - 1) \in Nat /\ hi \in Nat
  BY FollowsWithin
<1>2. 0 \in S
  <2>1. ASSUME NEW j \in Enclosing(text, at) PROVE ~(Opened(text, j) <= 0)
    BY <1>1, EnclosingDepth
  <2>2. LiveTo(text, at, 0)
    BY <2>1 DEF LiveTo
  <2>3. lo + 0 = lo
    OBVIOUS
  <2>4. Says(0)
    BY <2>2, <2>3
  <2> QED
    BY <2>4
<1>3. ASSUME NEW m \in Nat, m \in S PROVE m + 1 \in S
  <2> SUFFICES ASSUME lo + (m + 1) <= hi PROVE Says(m + 1)
    OBVIOUS
  <2>1. lo + m <= hi
    BY <1>1
  <2>2. Says(m)
    BY <1>3, <2>1
  <2> HIDE DEF S
  <2> QED
    BY <2>2, LiveNext
<1> HIDE DEF S
<1>4. Nat \subseteq S
  BY <1>2, <1>3, InductionBySets
<1>5. PICK m \in Nat : m = Opened(text, at - 1)
  BY <1>1
<1>6. m \in S /\ hi = lo + m /\ lo + m <= hi
  BY <1>1, <1>4, <1>5
<1>7. Says(m)
  BY <1>6 DEF S
<1>8. ASSUME NEW j \in Enclosing(text, at) PROVE Opened(text, j) <= m
  BY <1>5, EnclosingDepth
<1>9. LiveTo(text, at, m) <=> IsLive(text, at)
  BY <1>8 DEF LiveTo, IsLive, ArmLive
<1> QED
  BY <1>6, <1>7, <1>9

-----------------------------------------------------------------------------
(* Blocks.                                                                 *)

(* How many blocks of its kind the block opened at i has open at j.        *)
BlockDepth(text, i, j, oneCloser) ==
    Count(text, i, j, Opens(text[i].op, oneCloser))
      - Count(text, i, j, Closes(text[i].op, oneCloser))

(* Where a block ends.                                                     *)
LEMMA BlockEndsMeans ==
    ASSUME NEW text, NEW i, NEW oneCloser, NEW e
    PROVE  e \in BlockEnds(text, i, oneCloser) <=>
             /\ e \in i + 1 .. Len(text) /\ BlockDepth(text, i, e, oneCloser) = 0
             /\ \A k \in i .. e - 1 : BlockDepth(text, i, k, oneCloser) > 0
BY DEF BlockEnds, BlockDepth

(* It ends once.                                                           *)
LEMMA BlockEndsOnce ==
    ASSUME NEW text, NEW i \in Int, Len(text) \in Nat, NEW oneCloser,
           NEW e \in BlockEnds(text, i, oneCloser), NEW f \in BlockEnds(text, i, oneCloser)
    PROVE  e = f
<1>1. /\ e \in i + 1 .. Len(text) /\ BlockDepth(text, i, e, oneCloser) = 0
      /\ \A k \in i .. e - 1 : BlockDepth(text, i, k, oneCloser) > 0
  BY BlockEndsMeans
<1>2. /\ f \in i + 1 .. Len(text) /\ BlockDepth(text, i, f, oneCloser) = 0
      /\ \A k \in i .. f - 1 : BlockDepth(text, i, k, oneCloser) > 0
  BY BlockEndsMeans
<1>3. CASE e < f
  BY <1>1, <1>2, <1>3
<1>4. CASE f < e
  BY <1>1, <1>2, <1>4
<1> QED
  BY <1>1, <1>2, <1>3, <1>4

(* Neither its first statement nor its last is about a conditional.        *)
LEMMA BlockIsQuiet ==
    ASSUME NEW text, NEW i \in Int, text[i].op \in BlockStarts, NEW oneCloser,
           Len(text) \in Nat, NEW e \in BlockEnds(text, i, oneCloser)
    PROVE  Quiet(text[i].op) /\ Quiet(text[e].op)
<1>1. Quiet(text[i].op)
  BY DEF Quiet, BlockStarts, Opening, Arms
<1>2. /\ e \in i + 1 .. Len(text) /\ BlockDepth(text, i, e, oneCloser) = 0
      /\ \A k \in i .. e - 1 : BlockDepth(text, i, k, oneCloser) > 0
  BY BlockEndsMeans
<1> DEFINE opens == Opens(text[i].op, oneCloser)
           closes == Closes(text[i].op, oneCloser)
<1>3. closes \subseteq {"endm", "endr"}
  BY DEF Closes
<1> HIDE DEF opens, closes
<1>4. PICK m \in Int : m = e - 1 /\ m + 1 = e /\ i <= m + 1 /\ m <= e /\ m \in i .. e - 1
  BY <1>2
<1>5. /\ Count(text, i, e, opens) = Count(text, i, m, opens) + Count(text, e, e, opens)
      /\ Count(text, i, e, closes) = Count(text, i, m, closes) + Count(text, e, e, closes)
  BY <1>2, <1>4, CountSplits
<1>a. i \in Int /\ m \in Int /\ e \in Int
  BY <1>2, <1>4
<1>b. Count(text, i, m, opens) \in Nat
  BY <1>a, CountIsNat
<1>c. Count(text, e, e, opens) \in Nat
  BY <1>a, CountIsNat
<1>d. Count(text, i, m, closes) \in Nat
  BY <1>a, CountIsNat
<1>6. /\ Count(text, i, m, opens) \in Nat /\ Count(text, e, e, opens) \in Nat
      /\ Count(text, i, m, closes) \in Nat
  BY <1>b, <1>c, <1>d
<1>7. Count(text, e, e, closes) = IF text[e].op \in closes THEN 1 ELSE 0
  BY <1>2, CountOfOne
<1>8. /\ Count(text, i, e, opens) - Count(text, i, e, closes) = 0
      /\ Count(text, i, m, opens) - Count(text, i, m, closes) > 0
  BY <1>2, <1>4 DEF BlockDepth, opens, closes
<1>9. text[e].op \in closes
  <2> SUFFICES ASSUME text[e].op \notin closes PROVE FALSE
    OBVIOUS
  <2>1. Count(text, e, e, closes) = 0
    BY <1>7
  <2> QED
    BY <1>5, <1>6, <1>8, <2>1
<1>10. text[e].op = "endm" \/ text[e].op = "endr"
  BY <1>3, <1>9
<1>11. Quiet(text[e].op)
  BY <1>10 DEF Quiet, Opening, Arms
<1> QED
  BY <1>1, <1>11

(* A block in which conditionals nest is left in the arms it was entered   *)
(* in.                                                                     *)
LEMMA BlockKeepsNesting ==
    ASSUME NEW text, NEW n \in Nat, NestsIn(text, 1, n), NEW i \in 1 .. n,
           NEW e \in i + 1 .. n, Quiet(text[i].op), Quiet(text[e].op),
           NestsIn(text, i + 1, e - 1)
    PROVE  SameNesting(text, i, e + 1)
<1>1. /\ i \in Int /\ e \in Int /\ i \in Nat \ {0} /\ e \in Nat \ {0} /\ i < e
      /\ i \in 1 .. n + 1 /\ i - 1 \in Int /\ e - 1 \in Int /\ (e - 1) + 1 = e
      /\ (i - 1) + 1 = i /\ (e + 1) - 1 = e /\ i + 1 \in Int /\ i + 1 <= (e - 1) + 1
      /\ i <= (e - 1) + 1 /\ i <= i + 1 /\ i <= e - 1
  OBVIOUS
<1>2. /\ text[i].op \notin Opening \cup {"endif"} /\ text[e].op \notin Opening \cup {"endif"}
      /\ text[i].op \notin Arms /\ text[e].op \notin Arms
      /\ text[i].op \notin Opening /\ text[e].op \notin Opening
  BY DEF Quiet
<1>3. OpenFrom(text, i, i) = 0
  <2>1. PICK m \in Int : m = i - 1 /\ m + 1 = i /\ i <= m + 1 /\ m < i
    BY <1>1
  <2>2. OpenFrom(text, i, m) = 0
    BY <1>1, <2>1, OpenIsCounted
  <2>3. text[m + 1].op \notin Opening \cup {"endif"}
    BY <1>2, <2>1
  <2>4. OpenFrom(text, i, m + 1) = OpenFrom(text, i, m)
    BY <1>1, <2>1, <2>3, OpenIsCounted
  <2> QED
    BY <2>1, <2>2, <2>4
<1>4. OpenFrom(text, i + 1, e - 1) = 0
  BY DEF NestsIn
<1>5. ASSUME NEW k \in i .. e - 1
      PROVE  OpenFrom(text, i + 1, k) >= 0 /\ OpenFrom(text, i + 1, k) \in Int
  <2>1. k \in Int
    OBVIOUS
  <2>2. OpenFrom(text, i + 1, k) \in Int /\ (k < i + 1 => OpenFrom(text, i + 1, k) = 0)
    BY <1>1, <2>1, OpenIsCounted
  <2>3. CASE k = i
    BY <1>1, <2>2, <2>3
  <2>4. CASE k # i
    BY <2>2, <2>4 DEF NestsIn
  <2> QED
    BY <2>3, <2>4
<1>6. ASSUME NEW k \in i .. e - 1
      PROVE  OpenFrom(text, i, k) = OpenFrom(text, i + 1, k)
  BY <1>1, <1>3, <1>5, OpenSplits
<1>7. OpenFrom(text, i, e) = 0
  <2>1. PICK m \in Int : m = e - 1 /\ m + 1 = e /\ i <= m + 1 /\ m \in i .. e - 1
    BY <1>1
  <2>2. text[m + 1].op \notin Opening \cup {"endif"}
    BY <1>2, <2>1
  <2>3. OpenFrom(text, i, m + 1) = OpenFrom(text, i, m)
    BY <1>1, <2>1, <2>2, OpenIsCounted
  <2>4. OpenFrom(text, i, m) = OpenFrom(text, i + 1, m)
    BY <1>6, <2>1
  <2> QED
    BY <1>4, <2>1, <2>3, <2>4
<1>8. ASSUME NEW k \in i .. e
      PROVE  OpenFrom(text, i, k) >= 0 /\ OpenFrom(text, i, k) \in Int
  <2>1. CASE k = e
    BY <1>7, <2>1
  <2>2. CASE k # e
    BY <1>5, <1>6, <2>2
  <2> QED
    BY <2>1, <2>2
<1>9. Opened(text, e) = Opened(text, i - 1)
  BY <1>1, <1>7, OpenFromOpened, OpenedSteps
<1>10. ASSUME NEW j \in Enclosing(text, i), NEW k \in i - 1 .. e
       PROVE  OpenFrom(text, j, k) > 0 /\ OpenFrom(text, j, k) \in Int
  <2>1. j \in 1 .. i - 1 /\ \A m \in j .. i - 1 : OpenFrom(text, j, m) > 0
    BY DEF Enclosing
  <2>2. i - 1 \in j .. i - 1 /\ j \in Int /\ j <= (i - 1) + 1 /\ i - 1 <= k /\ k \in Int
    BY <2>1
  <2>3. OpenFrom(text, j, i - 1) > 0 /\ OpenFrom(text, j, i - 1) \in Int
    BY <1>1, <2>1, <2>2, OpenIsCounted
  <2>4. CASE k = i - 1
    BY <2>3, <2>4
  <2>5. CASE k # i - 1
    <3>1. k \in i .. e
      BY <2>5
    <3>2. PICK m \in Int : m = i - 1 /\ m + 1 = i /\ j <= m + 1 /\ m <= k
      BY <1>1, <2>2
    <3>3. OpenFrom(text, j, k) = OpenFrom(text, j, m) + OpenFrom(text, m + 1, k)
      BY <2>2, <3>2, OpenSplits
    <3>4. OpenFrom(text, j, k) = OpenFrom(text, j, i - 1) + OpenFrom(text, i, k)
      BY <3>2, <3>3
    <3>5. OpenFrom(text, i, k) >= 0 /\ OpenFrom(text, i, k) \in Int
      BY <1>8, <3>1
    <3> QED
      BY <2>3, <3>4, <3>5
  <2> QED
    BY <2>4, <2>5
<1>11. ASSUME NEW j \in Enclosing(text, i) PROVE j \in Enclosing(text, e + 1)
  <2>1. /\ j \in 1 .. i - 1 /\ text[j].op \in Opening
        /\ \A m \in j .. i - 1 : OpenFrom(text, j, m) > 0
    BY DEF Enclosing
  <2>2. ASSUME NEW k \in j .. e PROVE OpenFrom(text, j, k) > 0
    BY <1>10, <2>1
  <2>3. j \in 1 .. e
    BY <2>1
  <2> QED
    BY <1>1, <2>1, <2>2, <2>3 DEF Enclosing
<1>12. ASSUME NEW j \in Enclosing(text, e + 1) PROVE j \in Enclosing(text, i)
  <2>1. /\ j \in 1 .. e /\ text[j].op \in Opening
        /\ \A m \in j .. e : OpenFrom(text, j, m) > 0
    BY <1>1 DEF Enclosing
  <2>2. j # i /\ j # e
    BY <1>2, <2>1
  <2>3. CASE j \in i + 1 .. e - 1
    <3>1. PICK m \in Int : m = j - 1 /\ m + 1 = j /\ i + 1 <= m + 1 /\ m <= e - 1 /\ m \in i .. e - 1
      BY <2>3
    <3>2. OpenFrom(text, i + 1, e - 1) = OpenFrom(text, i + 1, m) + OpenFrom(text, m + 1, e - 1)
      BY <1>1, <3>1, OpenSplits
    <3>3. OpenFrom(text, i + 1, m) >= 0 /\ OpenFrom(text, i + 1, m) \in Int
      BY <1>5, <3>1
    <3>4. e - 1 \in j .. e /\ j \in Int
      BY <2>3
    <3>5. OpenFrom(text, j, e - 1) > 0 /\ OpenFrom(text, j, e - 1) \in Int
      BY <1>1, <2>1, <3>4, OpenIsCounted
    <3> QED
      BY <1>4, <3>1, <3>2, <3>3, <3>5
  <2>4. CASE j \notin i + 1 .. e - 1
    BY <2>1, <2>2, <2>4 DEF Enclosing
  <2> QED
    BY <2>3, <2>4
<1>13. ASSUME NEW j \in Enclosing(text, i)
       PROVE  ArmsOf(text, j, e + 1) = ArmsOf(text, j, i)
  <2>1. j \in 1 .. i - 1
    BY DEF Enclosing
  <2>2. ASSUME NEW k \in i .. e, text[k].op \in Arms PROVE OpenFrom(text, j, k) # 1
    <3>1. k # i /\ k # e
      BY <1>2, <2>2
    <3>2. k \in i + 1 .. e - 1
      BY <3>1
    <3>3. PICK h \in i + 1 .. k - 1 : h \in Enclosing(text, k) /\ OpenFrom(text, h, k) = 1
      BY <2>2, <3>2 DEF NestsIn
    <3>4. PICK m \in Int : m = h - 1 /\ m + 1 = h /\ j <= m + 1 /\ m <= k /\ m \in i - 1 .. e
      BY <2>1, <3>2, <3>3
    <3>5. j \in Int /\ k \in Int
      BY <2>1
    <3>6. OpenFrom(text, j, k) = OpenFrom(text, j, m) + OpenFrom(text, m + 1, k)
      BY <3>4, <3>5, OpenSplits
    <3>7. OpenFrom(text, j, m) > 0 /\ OpenFrom(text, j, m) \in Int
      BY <1>10, <3>4
    <3> QED
      BY <3>3, <3>4, <3>6, <3>7
  <2>3. ASSUME NEW k
        PROVE  (k \in j + 1 .. e /\ text[k].op \in Arms /\ OpenFrom(text, j, k) = 1) <=>
               (k \in j + 1 .. i - 1 /\ text[k].op \in Arms /\ OpenFrom(text, j, k) = 1)
    BY <2>1, <2>2
  <2>4. {k \in j + 1 .. e : text[k].op \in Arms /\ OpenFrom(text, j, k) = 1}
          = {k \in j + 1 .. i - 1 : text[k].op \in Arms /\ OpenFrom(text, j, k) = 1}
    BY Zenon, <2>3
  <2> QED
    BY <1>1, <2>4 DEF ArmsOf
<1>14. Enclosing(text, e + 1) = Enclosing(text, i)
  BY <1>11, <1>12
<1>15. Opened(text, (e + 1) - 1) = Opened(text, i - 1)
  BY <1>1, <1>9
<1> QED
  BY <1>13, <1>14, <1>15 DEF SameNesting

-----------------------------------------------------------------------------
(* All this depends on the operations alone.                               *)

(* What is so of a stretch is so of a part of it.                          *)
LEMMA SameOpsWithin ==
    ASSUME NEW t, NEW s, NEW d, NEW lo \in Int, NEW hi \in Int, SameOps(t, s, d, lo, hi),
           NEW a \in Int, NEW b \in Int, lo <= a, b <= hi
    PROVE  SameOps(t, s, d, a, b)
BY DEF SameOps

(* Whether conditionals nest does:                                         *)
LEMMA NestsFollowsOps ==
    ASSUME NEW t, NEW s, NEW d \in Int, NEW lo \in Nat \ {0}, NEW hi \in Int,
           SameOps(t, s, d, lo, hi), NestsIn(s, lo - d, hi - d)
    PROVE  NestsIn(t, lo, hi)
<1>1. lo \in Int
  OBVIOUS
<1>2. ASSUME NEW i \in Int, NEW j \in Int, lo <= i, j <= hi
      PROVE  OpenFrom(t, i, j) = OpenFrom(s, i - d, j - d)
  <2>1. SameOps(t, s, d, i, j)
    BY <1>1, <1>2, SameOpsWithin
  <2> QED
    BY <2>1, OpenFollowsOps
<1>3. \A k \in lo .. hi : t[k].op = s[k - d].op
  BY DEF SameOps
<1>4. OpenFrom(t, lo, hi) = 0
  BY <1>1, <1>2 DEF NestsIn
<1>5. ASSUME NEW k \in lo .. hi PROVE OpenFrom(t, lo, k) >= 0
  BY <1>1, <1>2 DEF NestsIn
<1>6. ASSUME NEW k \in lo .. hi, t[k].op \in Arms
      PROVE  \E j \in lo .. k - 1 :
                /\ j \in Enclosing(t, k)
                /\ OpenFrom(t, j, k) = 1
                /\ ~\E m \in j + 1 .. k - 1 : t[m].op = "else" /\ OpenFrom(t, j, m) = 1
  <2>1. k - d \in lo - d .. hi - d /\ s[k - d].op \in Arms
    BY <1>3, <1>6
  <2>2. PICK g \in lo - d .. (k - d) - 1 :
            /\ g \in Enclosing(s, k - d)
            /\ OpenFrom(s, g, k - d) = 1
            /\ ~\E m \in g + 1 .. (k - d) - 1 : s[m].op = "else" /\ OpenFrom(s, g, m) = 1
    BY <2>1 DEF NestsIn
  <2>3. PICK j \in Int : j = g + d /\ j - d = g /\ j \in lo .. k - 1 /\ j \in lo .. hi
                         /\ j \in 1 .. k - 1 /\ lo <= j
    OBVIOUS
  <2>4. s[g].op \in Opening /\ \A m \in g .. (k - d) - 1 : OpenFrom(s, g, m) > 0
    BY <2>2 DEF Enclosing
  <2>5. t[j].op \in Opening
    BY <1>3, <2>3, <2>4
  <2>6. ASSUME NEW m \in j .. k PROVE OpenFrom(t, j, m) = OpenFrom(s, g, m - d)
    BY <1>2, <2>3
  <2>7. ASSUME NEW m \in j .. k - 1 PROVE OpenFrom(t, j, m) > 0
    BY <2>3, <2>4, <2>6
  <2>8. j \in Enclosing(t, k)
    BY <2>3, <2>5, <2>7 DEF Enclosing
  <2>9. OpenFrom(t, j, k) = 1
    BY <2>2, <2>3, <2>6
  <2>10. ASSUME NEW m \in j + 1 .. k - 1, t[m].op = "else" PROVE OpenFrom(t, j, m) # 1
    BY <1>3, <2>2, <2>3, <2>6, <2>10
  <2> QED
    BY <2>3, <2>8, <2>9, <2>10
<1> QED
  BY <1>4, <1>5, <1>6 DEF NestsIn

(* where blocks end does,                                                  *)
LEMMA BlockEndsFollowOps ==
    ASSUME NEW t, NEW s, NEW d \in Int, NEW lo \in Int, NEW hi \in Int,
           SameOps(t, s, d, lo, hi), Len(t) \in Nat, hi <= Len(t), NEW oneCloser,
           NEW k \in lo .. hi, NEW e \in BlockEnds(s, k - d, oneCloser), Len(s) \in Nat,
           e + d <= hi
    PROVE  e + d \in BlockEnds(t, k, oneCloser)
<1>1. /\ e \in (k - d) + 1 .. Len(s) /\ BlockDepth(s, k - d, e, oneCloser) = 0
      /\ \A m \in k - d .. e - 1 : BlockDepth(s, k - d, m, oneCloser) > 0
  BY BlockEndsMeans
<1>2. t[k].op = s[k - d].op
  BY DEF SameOps
<1>3. PICK f \in Int : f = e + d /\ f - d = e /\ f \in k + 1 .. Len(t) /\ f <= hi
  BY <1>1
<1>4. ASSUME NEW j \in Int, j <= hi
      PROVE  BlockDepth(t, k, j, oneCloser) = BlockDepth(s, k - d, j - d, oneCloser)
  <2>1. SameOps(t, s, d, k, j) /\ k \in Int
    BY <1>4, SameOpsWithin
  <2>2. \A ops : Count(t, k, j, ops) = Count(s, k - d, j - d, ops)
    BY <2>1, CountFollowsOps
  <2> QED
    BY <1>2, <2>2 DEF BlockDepth
<1>5. BlockDepth(t, k, f, oneCloser) = 0
  BY <1>1, <1>3, <1>4
<1>6. ASSUME NEW m \in k .. f - 1 PROVE BlockDepth(t, k, m, oneCloser) > 0
  BY <1>1, <1>3, <1>4
<1> QED
  BY <1>3, <1>5, <1>6, BlockEndsMeans

(* and so does what nests in them.                                         *)
BlockNests(text, k, e, oneCloser) ==
    /\ e \in BlockEnds(text, k, oneCloser)
    /\ NestsIn(text, k + 1, e - 1)
    /\ HoldsBlocks(text, k, e, oneCloser)

(* A block nests wherever its operations are repeated.                     *)
LEMMA BlockNestsFollowsOps ==
    ASSUME NEW t, NEW s, NEW d \in Int, NEW lo \in Nat \ {0}, NEW hi \in Int,
           SameOps(t, s, d, lo, hi), Len(t) \in Nat, hi <= Len(t), NEW oneCloser,
           NEW k \in lo .. hi, NEW e \in Int, Len(s) \in Nat, e + d <= hi,
           BlockNests(s, k - d, e, oneCloser)
    PROVE  BlockNests(t, k, e + d, oneCloser)
<1>1. lo \in Int
  OBVIOUS
<1>2. e \in BlockEnds(s, k - d, oneCloser) /\ NestsIn(s, (k - d) + 1, e - 1)
      /\ HoldsBlocks(s, k - d, e, oneCloser)
  BY DEF BlockNests
<1>3. e + d \in BlockEnds(t, k, oneCloser)
  BY <1>1, <1>2, BlockEndsFollowOps
<1>4. NestsIn(t, k + 1, (e + d) - 1)
  <2>1. PICK a \in Nat \ {0} : a = k + 1 /\ a - d = (k - d) + 1 /\ lo <= a
    OBVIOUS
  <2>2. PICK b \in Int : b = (e + d) - 1 /\ b - d = e - 1 /\ b <= hi
    OBVIOUS
  <2>3. SameOps(t, s, d, a, b)
    BY <1>1, <2>1, <2>2, SameOpsWithin
  <2>4. NestsIn(s, a - d, b - d)
    BY <1>2, <2>1, <2>2
  <2>5. NestsIn(t, a, b)
    BY <2>3, <2>4, NestsFollowsOps
  <2> QED
    BY <2>1, <2>2, <2>5
<1>5. ASSUME NEW m \in k + 1 .. (e + d) - 1, t[m].op \in BlockStarts
      PROVE  \E f \in BlockEnds(t, m, oneCloser) : f < e + d
  <2>1. m \in lo .. hi /\ m - d \in (k - d) + 1 .. e - 1
    OBVIOUS
  <2>2. s[m - d].op \in BlockStarts
    BY <1>5, <2>1 DEF SameOps
  <2>3. PICK f \in BlockEnds(s, m - d, oneCloser) : f < e
    BY <1>2, <2>1, <2>2 DEF HoldsBlocks
  <2>4. f \in (m - d) + 1 .. Len(s)
    BY BlockEndsMeans
  <2>5. f + d <= hi /\ f + d < e + d
    BY <2>3, <2>4
  <2>6. f + d \in BlockEnds(t, m, oneCloser)
    BY <1>1, <2>1, <2>5, BlockEndsFollowOps
  <2> QED
    BY <2>5, <2>6
<1>6. HoldsBlocks(t, k, e + d, oneCloser)
  BY <1>5 DEF HoldsBlocks
<1> QED
  BY <1>3, <1>4, <1>6 DEF BlockNests

(* Texts that nest, in these terms.                                        *)
LEMMA NestsWellMeans ==
    ASSUME NEW text, NEW oneCloser
    PROVE  NestsWell(text, oneCloser) <=>
             /\ NestsIn(text, 1, Len(text))
             /\ \A i \in 1 .. Len(text) :
                   text[i].op \in BlockStarts => \E e : BlockNests(text, i, e, oneCloser)
BY DEF NestsWell, BlockNests

-----------------------------------------------------------------------------
(* Bodies.                                                                 *)

(* What the body of a block is.                                            *)
LEMMA BodyShape ==
    ASSUME NEW S, NEW text \in Seq(S), NEW i \in 1 .. Len(text),
           NEW e \in i + 1 .. Len(text)
    PROVE  /\ Body(text, i, e) \in Seq(S) /\ Len(Body(text, i, e)) = e - i - 1
           /\ \A k \in 1 .. e - i - 1 : Body(text, i, e)[k] = text[k + i]
<1>1. Len(text) \in Nat
  OBVIOUS
<1>2. PICK n \in Nat : n = Len(text)
  BY <1>1
<1>3. i + 1 \in 1 .. n + 1 /\ e - 1 \in i .. n /\ i \in Nat /\ e \in Nat /\ e - 1 \in 0 .. n
  BY <1>2
<1>4. i + 1 \in 1 .. Len(text) + 1 /\ e - 1 \in (i + 1) - 1 .. Len(text)
  BY <1>2, <1>3
<1>5. /\ SubSeq(text, i + 1, e - 1) \in Seq(S)
      /\ Len(SubSeq(text, i + 1, e - 1)) =
            IF i + 1 <= e - 1 THEN (e - 1) - (i + 1) + 1 ELSE 0
      /\ \A k \in 1 .. (e - 1) - (i + 1) + 1 :
            SubSeq(text, i + 1, e - 1)[k] = text[(i + 1) + k - 1]
  BY <1>4, SubSeqProperties
<1>6. /\ (e - 1) - (i + 1) + 1 = e - i - 1
      /\ (IF i + 1 <= e - 1 THEN (e - 1) - (i + 1) + 1 ELSE 0) = e - i - 1
      /\ \A k \in 1 .. e - i - 1 : (i + 1) + k - 1 = k + i
  BY <1>3
<1> QED
  BY <1>5, <1>6 DEF Body

(* It nests if its text does.                                              *)
LEMMA BodyNests ==
    ASSUME NEW S, NEW text \in Seq(S), NEW oneCloser, NestsWell(text, oneCloser),
           NEW i \in 1 .. Len(text), text[i].op \in BlockStarts,
           NEW e \in BlockEnds(text, i, oneCloser)
    PROVE  NestsWell(Body(text, i, e), oneCloser)
<1> DEFINE body == Body(text, i, e)
<1>1. PICK n \in Nat : n = Len(text)
  OBVIOUS
<1>2. i \in Int /\ i \in 1 .. n /\ Len(text) \in Nat
  BY <1>1
<1>3. e \in i + 1 .. Len(text)
  BY BlockEndsMeans
<1>4. \A m \in 1 .. Len(text) :
         text[m].op \in BlockStarts => \E f : BlockNests(text, m, f, oneCloser)
  BY NestsWellMeans
<1>5. PICK g : BlockNests(text, i, g, oneCloser)
  BY <1>4
<1>6. g \in BlockEnds(text, i, oneCloser)
  BY <1>5 DEF BlockNests
<1>7. g = e
  BY <1>2, <1>6, BlockEndsOnce
<1>8. NestsIn(text, i + 1, e - 1) /\ HoldsBlocks(text, i, e, oneCloser)
  BY <1>5, <1>7 DEF BlockNests
<1>9. /\ Len(body) = e - i - 1
      /\ \A k \in 1 .. e - i - 1 : body[k] = text[k + i]
  BY <1>3, BodyShape
<1> HIDE DEF body
<1>10. PICK l \in Nat : l = Len(body) /\ l = e - i - 1
  BY <1>1, <1>2, <1>3, <1>9
<1>11. PICK d \in Int : d = 0 - i
  BY <1>2
<1>12. SameOps(body, text, d, 1, l)
  <2>1. ASSUME NEW k \in 1 .. l PROVE body[k].op = text[k - d].op
    BY <1>2, <1>9, <1>10, <1>11
  <2> QED
    BY <2>1 DEF SameOps
<1>13. 1 \in Nat \ {0} /\ l \in Int /\ 1 - d = i + 1 /\ l - d = e - 1
  BY <1>2, <1>3, <1>10, <1>11
<1>14. NestsIn(text, 1 - d, l - d)
  BY <1>8, <1>13
<1>15. PICK one \in Nat \ {0} : one = 1
  OBVIOUS
<1>16. NestsIn(body, 1, l)
  BY <1>12, <1>13, <1>14, NestsFollowsOps
<1>17. ASSUME NEW k \in 1 .. l, body[k].op \in BlockStarts
       PROVE  \E f : BlockNests(body, k, f, oneCloser)
  <2>1. k - d = k + i /\ k + i \in i + 1 .. e - 1 /\ k + i \in 1 .. Len(text)
    BY <1>2, <1>3, <1>10, <1>11
  <2>2. text[k + i].op \in BlockStarts
    BY <1>9, <1>10, <1>17
  <2>3. PICK f \in BlockEnds(text, k + i, oneCloser) : f < e
    BY <1>8, <2>1, <2>2 DEF HoldsBlocks
  <2>4. PICK h : BlockNests(text, k + i, h, oneCloser)
    BY <1>4, <2>1, <2>2
  <2>5. h \in BlockEnds(text, k + i, oneCloser)
    BY <2>4 DEF BlockNests
  <2>6. k + i \in Int
    BY <2>1
  <2>7. h = f
    BY <1>2, <2>5, <2>6, BlockEndsOnce
  <2>8. f \in (k + i) + 1 .. Len(text)
    BY BlockEndsMeans
  <2>9. f \in Int /\ f + d <= l
    BY <1>1, <1>2, <1>3, <1>10, <1>11, <2>3, <2>6, <2>8
  <2>10. BlockNests(text, k - d, f, oneCloser)
    BY <2>1, <2>4, <2>7
  <2>11. k \in 1 .. l /\ Len(body) \in Nat /\ l <= Len(body)
    BY <1>10
  <2>12. BlockNests(body, k, f + d, oneCloser)
    BY <1>2, <1>12, <1>13, <2>9, <2>10, <2>11, BlockNestsFollowsOps
  <2> QED
    BY <2>12
<1>18. NestsWell(body, oneCloser)
  BY <1>10, <1>16, <1>17, NestsWellMeans
<1> QED
  BY <1>18 DEF body

-----------------------------------------------------------------------------
(* Copies of a body.                                                       *)

(* One copy more takes its length.                                         *)
LEMMA FewerCopies ==
    ASSUME NEW l \in Nat, NEW a \in Nat, NEW b \in Nat, a < b
    PROVE  a * l + l <= b * l
<1>1. PICK c \in Nat : b = a + 1 + c
  OBVIOUS
<1>2. b * l = a * l + l + c * l
  BY <1>1
<1>3. c * l \in Nat /\ a * l \in Nat
  OBVIOUS
<1> QED
  BY <1>2, <1>3

(* Every statement is in one of them,                                      *)
LEMMA InACopy ==
    ASSUME NEW l \in Nat \ {0}, NEW n \in Nat, NEW k \in 1 .. n * l
    PROVE  \E r \in 0 .. n - 1 : k \in r * l + 1 .. r * l + l
<1> DEFINE q == (k - 1) \div l
<1>1. n * l \in Nat /\ k \in Int /\ k - 1 \in Nat /\ k - 1 < n * l
  OBVIOUS
<1>a. PICK p \in Nat : p = k - 1
  BY <1>1
<1>b. p \div l \in Nat /\ p % l \in 0 .. l - 1 /\ p = l * (p \div l) + (p % l)
  OBVIOUS
<1>2. q \in Nat /\ (k - 1) % l \in 0 .. l - 1 /\ k - 1 = l * q + ((k - 1) % l)
  BY <1>a, <1>b
<1>3. PICK a \in Nat, b \in Nat : a = q /\ b = (k - 1) % l
  BY <1>2
<1>4. k - 1 = a * l + b /\ b <= l - 1 /\ a * l \in Nat
  BY <1>2, <1>3
<1>5. k \in a * l + 1 .. a * l + l
  BY <1>1, <1>4
<1>6. a < n
  <2> SUFFICES ASSUME n <= a PROVE FALSE
    OBVIOUS
  <2>1. CASE n = a
    BY <1>1, <1>4, <2>1
  <2>2. CASE n < a
    BY <1>1, <1>4, <2>2, FewerCopies
  <2> QED
    BY <2>1, <2>2
<1>7. a \in 0 .. n - 1
  BY <1>6
<1> QED
  BY <1>5, <1>7

(* at the place it has in the body.                                        *)
LEMMA RestOfCopies ==
    ASSUME NEW l \in Nat \ {0}, NEW r \in Nat, NEW m \in 0 .. l - 1
    PROVE  (r * l + m) % l = m
<1>1. PICK a \in Nat : a = r * l + m
  OBVIOUS
<1>2. PICK q \in Nat, b \in 0 .. l - 1 : b = a % l /\ a = l * q + b
  OBVIOUS
<1>a. l * q = q * l /\ q * l \in Nat /\ r * l \in Nat
  OBVIOUS
<1>3. q * l + b = r * l + m /\ q * l \in Nat /\ r * l \in Nat
  BY <1>1, <1>2, <1>a
<1>4. q = r
  <2>1. CASE q < r
    BY <1>3, <2>1, FewerCopies
  <2>2. CASE r < q
    BY <1>3, <2>2, FewerCopies
  <2> QED
    BY <2>1, <2>2
<1>5. b = m
  BY <1>3, <1>4
<1> QED
  BY <1>1, <1>2, <1>5

(* What copies of a body are: the body again and again.                    *)
LEMMA CopiesShape ==
    ASSUME NEW S, NEW body \in Seq(S), NEW n \in Nat
    PROVE  /\ Copies(body, n) \in Seq(S) /\ Len(Copies(body, n)) = n * Len(body)
           /\ \A r \in 0 .. n - 1 :
                 SameOps(Copies(body, n), body, r * Len(body),
                         r * Len(body) + 1, r * Len(body) + Len(body))
<1>1. PICK l \in Nat : l = Len(body)
  OBVIOUS
<1>2. n * l \in Nat
  OBVIOUS
<1>3. PICK c \in Nat : c = n * l
  BY <1>2
<1>4. Copies(body, n) = [k \in 1 .. c |-> body[((k - 1) % l) + 1]]
  BY <1>1, <1>3 DEF Copies
<1>5. ASSUME NEW k \in 1 .. c PROVE body[((k - 1) % l) + 1] \in S
  <2>1. l # 0
    <3>1. CASE l = 0
      BY <1>3, <1>5, <3>1
    <3> QED
      BY <3>1
  <2>2. PICK p \in Nat : p = k - 1
    OBVIOUS
  <2>3. p % l \in 0 .. l - 1
    BY <2>1
  <2>4. (p % l) + 1 \in 1 .. l
    BY <2>3
  <2>5. \A m \in 1 .. Len(body) : body[m] \in S
    OBVIOUS
  <2> QED
    BY <1>1, <2>2, <2>4, <2>5
<1>6. Copies(body, n) \in Seq(S)
  BY <1>4, <1>5
<1>7. Len(Copies(body, n)) = c
  BY <1>4
<1>8. ASSUME NEW r \in 0 .. n - 1
      PROVE  SameOps(Copies(body, n), body, r * Len(body),
                     r * Len(body) + 1, r * Len(body) + Len(body))
  <2>1. PICK d \in Nat : d = r * l
    OBVIOUS
  <2>2. d + l <= c
    BY <1>3, <2>1, FewerCopies
  <2>3. ASSUME NEW k \in d + 1 .. d + l PROVE Copies(body, n)[k].op = body[k - d].op
    <3>1. l \in Nat \ {0} /\ k \in 1 .. c
      BY <2>2
    <3>2. PICK m \in 0 .. l - 1 : m = k - d - 1 /\ k - 1 = d + m /\ m + 1 = k - d
      OBVIOUS
    <3>3. (r * l + m) % l = m
      BY <3>1, RestOfCopies
    <3>4. (k - 1) % l = m
      BY <2>1, <3>2, <3>3
    <3>5. Copies(body, n)[k] = body[((k - 1) % l) + 1]
      BY <1>4, <3>1
    <3>6. Copies(body, n)[k] = body[m + 1]
      BY <3>4, <3>5
    <3> QED
      BY <3>2, <3>6
  <2>4. SameOps(Copies(body, n), body, d, d + 1, d + l)
    BY <2>3 DEF SameOps
  <2> QED
    BY <1>1, <2>1, <2>4
<1> QED
  BY <1>1, <1>3, <1>6, <1>7, <1>8

(* Each copy begins with no conditional open.                              *)
LEMMA NothingOpenBetweenCopies ==
    ASSUME NEW S, NEW body \in Seq(S), NEW n \in Nat, NestsIn(body, 1, Len(body)),
           NEW r \in 0 .. n
    PROVE  Opened(Copies(body, n), r * Len(body)) = 0
<1> DEFINE text == Copies(body, n)
<1>1. PICK l \in Nat : l = Len(body)
  OBVIOUS
<1>2. \A a \in 0 .. n - 1 : SameOps(text, body, a * l, a * l + 1, a * l + l)
  BY <1>1, CopiesShape
<1> HIDE DEF text
<1> DEFINE Closed == {a \in Nat : a <= n => Opened(text, a * l) = 0}
<1>3. 0 \in Closed
  <2>1. Opened(text, 0) = 0
    BY 1 \in Nat \ {0}, OpenedSteps
  <2>2. 0 * l = 0
    OBVIOUS
  <2> QED
    BY <2>1, <2>2
<1>4. ASSUME NEW a \in Nat, a \in Closed PROVE a + 1 \in Closed
  <2> SUFFICES ASSUME a + 1 <= n PROVE Opened(text, (a + 1) * l) = 0
    OBVIOUS
  <2>1. Opened(text, a * l) = 0
    BY <1>4
  <2>2. PICK d \in Nat : d = a * l
    OBVIOUS
  <2>3. (a + 1) * l = d + l
    BY <2>2
  <2>4. SameOps(text, body, d, d + 1, d + l)
    BY <1>2, <2>2
  <2>5. /\ d \in Int /\ d + 1 \in Int /\ d + l \in Int /\ (d + 1) - d = 1 /\ (d + l) - d = l
        /\ 1 \in Int /\ 1 <= d + 1 /\ d <= d + l
    OBVIOUS
  <2>6. OpenFrom(text, d + 1, d + l) = OpenFrom(body, (d + 1) - d, (d + l) - d)
    BY <2>4, <2>5, OpenFollowsOps
  <2>7. OpenFrom(body, 1, l) = 0
    BY <1>1 DEF NestsIn
  <2>8. OpenFrom(text, d + 1, d + l) = 0
    BY <2>5, <2>6, <2>7
  <2>9. OpenFrom(text, 1, d + l) = OpenFrom(text, 1, d) + OpenFrom(text, d + 1, d + l)
    BY <2>5, OpenSplits
  <2>10. OpenFrom(text, 1, d) = 0
    BY <2>1, <2>2 DEF Opened
  <2>11. OpenFrom(text, 1, d + l) = 0
    BY <2>8, <2>9, <2>10
  <2> QED
    BY <2>3, <2>11 DEF Opened
<1> HIDE DEF Closed
<1>5. Nat \subseteq Closed
  BY <1>3, <1>4, InductionBySets
<1>6. r \in Closed /\ r <= n
  BY <1>5
<1>7. Opened(text, r * l) = 0
  BY <1>6 DEF Closed
<1> QED
  BY <1>1, <1>7 DEF text

(* Copies nest if what is copied does.                                     *)
LEMMA CopiesNest ==
    ASSUME NEW S, NEW body \in Seq(S), NEW n \in Nat, NEW oneCloser,
           NestsWell(body, oneCloser)
    PROVE  NestsWell(Copies(body, n), oneCloser)
<1> DEFINE text == Copies(body, n)
<1>1. PICK l \in Nat : l = Len(body)
  OBVIOUS
<1>2. PICK c \in Nat : c = n * l
  OBVIOUS
<1>3. Len(text) = c
  BY <1>1, <1>2, CopiesShape
<1>4. \A a \in 0 .. n - 1 : SameOps(text, body, a * l, a * l + 1, a * l + l)
  BY <1>1, CopiesShape
<1>5. /\ NestsIn(body, 1, l)
      /\ \A i \in 1 .. l :
            body[i].op \in BlockStarts => \E e : BlockNests(body, i, e, oneCloser)
  BY <1>1, NestsWellMeans
<1>6. \A r \in 0 .. n : Opened(text, r * l) = 0
  BY <1>1, <1>5, NothingOpenBetweenCopies
<1> HIDE DEF text
<1>7. ASSUME NEW k \in 1 .. c
      PROVE  \E d \in Nat :
                /\ k \in d + 1 .. d + l /\ d + l <= c /\ SameOps(text, body, d, d + 1, d + l)
                /\ OpenFrom(text, 1, d) = 0
  <2>1. l # 0
    <3>1. CASE l = 0
      BY <1>2, <1>7, <3>1
    <3> QED
      BY <3>1
  <2>2. l \in Nat \ {0} /\ k \in 1 .. n * l
    BY <1>2, <2>1
  <2>3. PICK r \in 0 .. n - 1 : k \in r * l + 1 .. r * l + l
    BY <2>2, InACopy
  <2>4. PICK d \in Nat : d = r * l
    OBVIOUS
  <2>5. d + l <= c
    BY <1>2, <2>4, FewerCopies
  <2>6. SameOps(text, body, d, d + 1, d + l)
    BY <1>4, <2>4
  <2>7. r \in 0 .. n
    OBVIOUS
  <2>8. OpenFrom(text, 1, d) = 0
    BY <1>6, <2>4, <2>7 DEF Opened
  <2> QED
    BY <2>3, <2>4, <2>5, <2>6, <2>8
<1>8. ASSUME NEW d \in Nat, SameOps(text, body, d, d + 1, d + l)
      PROVE  NestsIn(text, d + 1, d + l)
  BY <1>5, <1>8, NestsFollowsOps
<1>9. ASSUME NEW k \in 1 .. c PROVE OpenFrom(text, 1, k) >= 0
  <2>1. PICK d \in Nat :
            /\ k \in d + 1 .. d + l /\ d + l <= c /\ SameOps(text, body, d, d + 1, d + l)
            /\ OpenFrom(text, 1, d) = 0
    BY <1>7
  <2>2. NestsIn(text, d + 1, d + l)
    BY <1>8, <2>1
  <2>3. OpenFrom(text, d + 1, k) >= 0
    BY <2>1, <2>2 DEF NestsIn
  <2>4. d \in Int /\ k \in Int /\ 1 \in Int /\ 1 <= d + 1 /\ d <= k /\ d + 1 \in Int
    BY <2>1
  <2>5. OpenFrom(text, 1, k) = OpenFrom(text, 1, d) + OpenFrom(text, d + 1, k)
    BY <2>4, OpenSplits
  <2>6. OpenFrom(text, d + 1, k) \in Int
    BY <2>4, OpenIsCounted
  <2> QED
    BY <2>1, <2>3, <2>5, <2>6
<1>10. ASSUME NEW k \in 1 .. c, text[k].op \in Arms
       PROVE  \E j \in 1 .. k - 1 :
                 /\ j \in Enclosing(text, k)
                 /\ OpenFrom(text, j, k) = 1
                 /\ ~\E m \in j + 1 .. k - 1 :
                       text[m].op = "else" /\ OpenFrom(text, j, m) = 1
  <2>1. PICK d \in Nat :
            /\ k \in d + 1 .. d + l /\ d + l <= c /\ SameOps(text, body, d, d + 1, d + l)
            /\ OpenFrom(text, 1, d) = 0
    BY <1>7
  <2>2. NestsIn(text, d + 1, d + l)
    BY <1>8, <2>1
  <2>3. PICK j \in d + 1 .. k - 1 :
            /\ j \in Enclosing(text, k)
            /\ OpenFrom(text, j, k) = 1
            /\ ~\E m \in j + 1 .. k - 1 :
                  text[m].op = "else" /\ OpenFrom(text, j, m) = 1
    BY <1>10, <2>1, <2>2 DEF NestsIn
  <2>4. j \in 1 .. k - 1
    OBVIOUS
  <2> QED
    BY <2>3, <2>4
<1>11. OpenFrom(text, 1, c) = 0
  BY <1>2, <1>6 DEF Opened
<1>12. NestsIn(text, 1, c)
  BY <1>9, <1>10, <1>11 DEF NestsIn
<1>13. ASSUME NEW k \in 1 .. c, text[k].op \in BlockStarts
       PROVE  \E e : BlockNests(text, k, e, oneCloser)
  <2>1. PICK d \in Nat :
            /\ k \in d + 1 .. d + l /\ d + l <= c /\ SameOps(text, body, d, d + 1, d + l)
            /\ OpenFrom(text, 1, d) = 0
    BY <1>7
  <2>2. k - d \in 1 .. l /\ k \in Int
    BY <2>1
  <2>3. body[k - d].op \in BlockStarts
    BY <1>13, <2>1 DEF SameOps
  <2>4. PICK e : BlockNests(body, k - d, e, oneCloser)
    BY <1>5, <2>2, <2>3
  <2>5. e \in BlockEnds(body, k - d, oneCloser)
    BY <2>4 DEF BlockNests
  <2>6. e \in (k - d) + 1 .. Len(body)
    BY <2>5, BlockEndsMeans
  <2>7. e \in Int /\ e + d <= d + l
    BY <1>1, <2>2, <2>6
  <2>8. d + 1 \in Nat \ {0} /\ d + l \in Int /\ d \in Int /\ Len(text) \in Nat
        /\ d + l <= Len(text) /\ Len(body) \in Nat
    BY <1>1, <1>3, <2>1
  <2>9. BlockNests(text, k, e + d, oneCloser)
    BY <2>1, <2>4, <2>7, <2>8, BlockNestsFollowsOps
  <2> QED
    BY <2>9
<1>14. NestsWell(text, oneCloser)
  BY <1>3, <1>12, <1>13, NestsWellMeans
<1> QED
  BY <1>14 DEF text

-----------------------------------------------------------------------------
(* A stack of texts.  Each frame has a text, where it is in it, how many   *)
(* conditionals were open when it began, and whether it was stopped.  All  *)
(* but the last wait, at a statement about no conditional, for the next.   *)

Waits(vs, f, hi) ==
    /\ f.at \in 1 .. Len(f.text) /\ Quiet(f.text[f.at].op)
    /\ Follows(vs, f.text, f.at, f.conds, hi)

Reads(vs, f, hi) ==
    ~f.stopped => f.at \in 1 .. Len(f.text) + 1 /\ Follows(vs, f.text, f.at, f.conds, hi)

(* The flags 1 .. h of a walk follow its texts.                            *)
StackFollows(vs, h, st, oneCloser) ==
    /\ \A d \in 1 .. Len(st) :
          /\ NestsWell(st[d].text, oneCloser) /\ Len(st[d].text) \in Nat
          /\ st[d].conds \in 0 .. h
    /\ \A d, e \in 1 .. Len(st) : d <= e => st[d].conds <= st[e].conds
    /\ Len(st) = 0 => h = 0
    /\ Len(st) # 0 => st[1].conds = 0 /\ Reads(vs, st[Len(st)], h)
    /\ \A d \in 1 .. Len(st) - 1 : Waits(vs, st[d], st[d + 1].conds)

SameText(f, g) == g.text = f.text /\ g.conds = f.conds

(* Fewer flags are the same too.                                           *)
LEMMA AgreeWithin ==
    ASSUME NEW vs, NEW ws, NEW m \in Int, NEW k \in Int, k <= m, Agree(vs, ws, m)
    PROVE  Agree(vs, ws, k)
BY DEF Agree

(* A text that waits does so whatever happens to the flags after its own,  *)
LEMMA WaitsOn ==
    ASSUME NEW vs, NEW ws, NEW f, NEW hi, Waits(vs, f, hi), Agree(vs, ws, hi),
           NEW oneCloser, NestsWell(f.text, oneCloser), Len(f.text) \in Nat,
           f.conds \in Nat
    PROVE  Waits(ws, f, hi)
<1>1. f.at \in 1 .. Len(f.text) /\ Follows(vs, f.text, f.at, f.conds, hi)
  BY DEF Waits
<1>2. NestsIn(f.text, 1, Len(f.text)) /\ f.at \in 1 .. Len(f.text) + 1
  BY <1>1 DEF NestsWell
<1>3. SameNesting(f.text, f.at, f.at)
  BY SameNestingAsItself
<1>4. Follows(ws, f.text, f.at, f.conds, hi)
  BY <1>1, <1>2, <1>3, FollowsOn
<1> QED
  BY <1>4 DEF Waits

(* and goes on at the statement after the one it waited at.                *)
LEMMA ReadsAfterWaiting ==
    ASSUME NEW vs, NEW ws, NEW f, NEW hi, Waits(vs, f, hi), Agree(vs, ws, hi),
           NEW oneCloser, NestsWell(f.text, oneCloser), Len(f.text) \in Nat,
           f.conds \in Nat, NEW g, SameText(f, g), g.at = f.at + 1
    PROVE  Reads(ws, g, hi)
<1>1. /\ f.at \in 1 .. Len(f.text) /\ Quiet(f.text[f.at].op)
      /\ Follows(vs, f.text, f.at, f.conds, hi)
  BY DEF Waits
<1>2. NestsIn(f.text, 1, Len(f.text)) /\ f.at \in 1 .. Len(f.text) + 1
  BY <1>1 DEF NestsWell
<1>3. SameNesting(f.text, f.at, f.at + 1)
  BY <1>1, <1>2, QuietKeepsNesting
<1>4. Follows(ws, f.text, f.at + 1, f.conds, hi)
  BY <1>1, <1>2, <1>3, FollowsOn
<1>5. f.at + 1 \in 1 .. Len(f.text) + 1
  BY <1>1
<1>6. g.text = f.text /\ g.conds = f.conds
  BY DEF SameText
<1>7. g.at \in 1 .. Len(g.text) + 1 /\ Follows(ws, g.text, g.at, g.conds, hi)
  BY <1>4, <1>5, <1>6
<1> QED
  BY <1>7 DEF Reads

(* The last text goes on with flags of its own that follow it.             *)
LEMMA StackAdvances ==
    ASSUME NEW vs, NEW ws, NEW h \in Nat, NEW k \in Nat, NEW st, NEW su, NEW oneCloser,
           StackFollows(vs, h, st, oneCloser), Len(st) \in Nat \ {0}, Len(su) = Len(st),
           \A d \in 1 .. Len(st) - 1 : su[d] = st[d],
           SameText(st[Len(st)], su[Len(st)]),
           Agree(vs, ws, st[Len(st)].conds), st[Len(st)].conds <= k,
           Reads(ws, su[Len(st)], k)
    PROVE  StackFollows(ws, k, su, oneCloser)
<1>1. PICK n \in Nat : n = Len(st) /\ n # 0
  OBVIOUS
<1>2. /\ \A d \in 1 .. n :
            /\ NestsWell(st[d].text, oneCloser) /\ Len(st[d].text) \in Nat
            /\ st[d].conds \in 0 .. h
      /\ \A d, e \in 1 .. n : d <= e => st[d].conds <= st[e].conds
      /\ st[1].conds = 0
      /\ \A d \in 1 .. n - 1 : Waits(vs, st[d], st[d + 1].conds)
  BY <1>1 DEF StackFollows
<1>3. ASSUME NEW d \in 1 .. n PROVE su[d].text = st[d].text /\ su[d].conds = st[d].conds
  <2>1. CASE d = n
    BY <1>1, <2>1 DEF SameText
  <2>2. CASE d # n
    BY <1>1, <2>2
  <2> QED
    BY <2>1, <2>2
<1>4. ASSUME NEW d \in 1 .. n PROVE st[d].conds \in 0 .. st[n].conds
  BY <1>1, <1>2
<1>5. ASSUME NEW d \in 1 .. n
      PROVE  /\ NestsWell(su[d].text, oneCloser) /\ Len(su[d].text) \in Nat
             /\ su[d].conds \in 0 .. k
  BY <1>1, <1>2, <1>3, <1>4
<1>6. \A d, e \in 1 .. n : d <= e => su[d].conds <= su[e].conds
  BY <1>2, <1>3
<1>7. ASSUME NEW d \in 1 .. n - 1 PROVE Waits(ws, su[d], su[d + 1].conds)
  <2>1. d \in 1 .. n /\ d + 1 \in 1 .. n
    OBVIOUS
  <2>2. Waits(vs, st[d], st[d + 1].conds)
    BY <1>2
  <2>3. st[d + 1].conds \in 0 .. st[n].conds /\ st[n].conds \in 0 .. h
    BY <1>1, <1>2, <1>4, <2>1
  <2>4. st[d + 1].conds \in Int /\ st[n].conds \in Int /\ st[d + 1].conds <= st[n].conds
    BY <2>3
  <2>5. Agree(vs, ws, st[d + 1].conds)
    BY <1>1, <2>4, AgreeWithin
  <2>6. /\ NestsWell(st[d].text, oneCloser) /\ Len(st[d].text) \in Nat
        /\ st[d].conds \in Nat
    BY <1>2, <2>1
  <2>7. Waits(ws, st[d], st[d + 1].conds)
    BY <2>2, <2>5, <2>6, WaitsOn
  <2>8. su[d] = st[d] /\ su[d + 1].conds = st[d + 1].conds
    BY <1>1, <1>3, <2>1
  <2> QED
    BY <2>7, <2>8
<1>8. su[1].conds = 0
  BY <1>1, <1>2, <1>3
<1>9. Len(su) = n /\ Reads(ws, su[n], k)
  BY <1>1
<1> QED
  BY <1>1, <1>5, <1>6, <1>7, <1>8, <1>9 DEF StackFollows

(* A text that nests is begun, and the last one waits for it.              *)
LEMMA StackGrows ==
    ASSUME NEW vs, NEW h \in Nat, NEW st, NEW su, NEW oneCloser,
           StackFollows(vs, h, st, oneCloser), Len(st) \in Nat \ {0},
           Len(su) = Len(st) + 1, \A d \in 1 .. Len(st) - 1 : su[d] = st[d],
           SameText(st[Len(st)], su[Len(st)]), Waits(vs, su[Len(st)], h),
           NestsWell(su[Len(st) + 1].text, oneCloser),
           Len(su[Len(st) + 1].text) \in Nat,
           su[Len(st) + 1].at = 1, su[Len(st) + 1].conds = h
    PROVE  StackFollows(vs, h, su, oneCloser)
<1>1. PICK n \in Nat : n = Len(st) /\ n # 0
  OBVIOUS
<1>2. /\ \A d \in 1 .. n :
            /\ NestsWell(st[d].text, oneCloser) /\ Len(st[d].text) \in Nat
            /\ st[d].conds \in 0 .. h
      /\ \A d, e \in 1 .. n : d <= e => st[d].conds <= st[e].conds
      /\ st[1].conds = 0
      /\ \A d \in 1 .. n - 1 : Waits(vs, st[d], st[d + 1].conds)
  BY <1>1 DEF StackFollows
<1>3. ASSUME NEW d \in 1 .. n PROVE su[d].text = st[d].text /\ su[d].conds = st[d].conds
  <2>1. CASE d = n
    BY <1>1, <2>1 DEF SameText
  <2>2. CASE d # n
    BY <1>1, <2>2
  <2> QED
    BY <2>1, <2>2
<1>4. /\ NestsWell(su[n + 1].text, oneCloser) /\ Len(su[n + 1].text) \in Nat
      /\ su[n + 1].at = 1 /\ su[n + 1].conds = h /\ Len(su) = n + 1
      /\ Waits(vs, su[n], h)
  BY <1>1
<1>5. ASSUME NEW d \in 1 .. n + 1
      PROVE  /\ NestsWell(su[d].text, oneCloser) /\ Len(su[d].text) \in Nat
             /\ su[d].conds \in 0 .. h
  <2>1. CASE d = n + 1
    BY <1>4, <2>1
  <2>2. CASE d # n + 1
    <3>1. d \in 1 .. n
      BY <1>1, <2>2
    <3> QED
      BY <1>2, <1>3, <3>1
  <2> QED
    BY <2>1, <2>2
<1>6. ASSUME NEW d \in 1 .. n + 1, NEW e \in 1 .. n + 1, d <= e
      PROVE  su[d].conds <= su[e].conds
  <2>1. CASE e = n + 1
    BY <1>4, <1>5, <2>1
  <2>2. CASE e # n + 1
    BY <1>2, <1>3, <1>6, <2>2
  <2> QED
    BY <2>1, <2>2
<1>7. ASSUME NEW d \in 1 .. n PROVE Waits(vs, su[d], su[d + 1].conds)
  <2>1. CASE d = n
    BY <1>4, <2>1
  <2>2. CASE d # n
    BY <1>1, <1>2, <1>3, <2>2
  <2> QED
    BY <2>1, <2>2
<1>8. su[1].conds = 0
  BY <1>1, <1>2, <1>3
<1>9. Reads(vs, su[n + 1], h)
  BY <1>4, FollowsAtStart DEF Reads
<1>10. (n + 1) - 1 = n /\ n + 1 # 0
  OBVIOUS
<1>11. \A d \in 1 .. (n + 1) - 1 : Waits(vs, su[d], su[d + 1].conds)
  BY <1>7, <1>10
<1> QED
  BY <1>4, <1>5, <1>6, <1>8, <1>9, <1>10, <1>11 DEF StackFollows

(* The last text is over: the flags are cut back to those it began with,   *)
(* and the text before it goes on, unless it was stopped.                  *)
LEMMA StackReturns ==
    ASSUME NEW vs, NEW ws, NEW h \in Nat, NEW k \in Nat, NEW st, NEW su, NEW oneCloser,
           StackFollows(vs, h, st, oneCloser), Len(su) \in Nat, Len(st) = Len(su) + 1,
           \A d \in 1 .. Len(su) - 1 : su[d] = st[d],
           Len(su) # 0 =>
              SameText(st[Len(su)], su[Len(su)]) /\ su[Len(su)].at = st[Len(su)].at + 1,
           Agree(vs, ws, st[Len(st)].conds), st[Len(st)].conds <= k,
           k = st[Len(st)].conds \/ (Len(su) # 0 /\ su[Len(su)].stopped)
    PROVE  StackFollows(ws, k, su, oneCloser)
<1>1. PICK n \in Nat : n = Len(su) /\ Len(st) = n + 1
  OBVIOUS
<1>a. (n + 1) - 1 = n /\ n + 1 # 0
  OBVIOUS
<1>2. /\ \A d \in 1 .. n + 1 :
            /\ NestsWell(st[d].text, oneCloser) /\ Len(st[d].text) \in Nat
            /\ st[d].conds \in 0 .. h
      /\ \A d, e \in 1 .. n + 1 : d <= e => st[d].conds <= st[e].conds
      /\ st[1].conds = 0
  BY <1>1, <1>a DEF StackFollows
<1>b. \A d \in 1 .. n : Waits(vs, st[d], st[d + 1].conds)
  BY <1>1, <1>a DEF StackFollows
<1>3. ASSUME NEW d \in 1 .. n PROVE su[d].text = st[d].text /\ su[d].conds = st[d].conds
  <2>1. CASE d = n
    BY <1>1, <2>1 DEF SameText
  <2>2. CASE d # n
    BY <1>1, <2>2
  <2> QED
    BY <2>1, <2>2
<1>4. ASSUME NEW d \in 1 .. n + 1 PROVE st[d].conds \in 0 .. st[n + 1].conds
  BY <1>2
<1>5. st[n + 1].conds <= k /\ st[n + 1].conds \in Nat /\ Agree(vs, ws, st[n + 1].conds)
  BY <1>1, <1>2
<1>6. ASSUME NEW d \in 1 .. n
      PROVE  /\ NestsWell(su[d].text, oneCloser) /\ Len(su[d].text) \in Nat
             /\ su[d].conds \in 0 .. k
  <2>1. d \in 1 .. n + 1
    OBVIOUS
  <2>2. NestsWell(su[d].text, oneCloser) /\ Len(su[d].text) \in Nat
    BY <1>2, <1>3, <2>1
  <2>3. st[d].conds \in 0 .. st[n + 1].conds
    BY <1>4, <2>1
  <2>4. su[d].conds \in 0 .. k
    BY <1>3, <1>5, <2>3
  <2> QED
    BY <2>2, <2>4
<1>7. ASSUME NEW d \in 1 .. n, NEW e \in 1 .. n, d <= e
      PROVE  su[d].conds <= su[e].conds
  BY <1>2, <1>3, <1>7
<1>8. ASSUME NEW d \in 1 .. n
      PROVE  /\ NestsWell(st[d].text, oneCloser) /\ Len(st[d].text) \in Nat
             /\ st[d].conds \in Nat /\ Waits(vs, st[d], st[d + 1].conds)
             /\ Agree(vs, ws, st[d + 1].conds)
  <2>1. d \in 1 .. n + 1 /\ d + 1 \in 1 .. n + 1
    OBVIOUS
  <2>2. st[d + 1].conds \in 0 .. st[n + 1].conds
    BY <1>4, <2>1
  <2>3. st[d + 1].conds \in Int /\ st[n + 1].conds \in Int
        /\ st[d + 1].conds <= st[n + 1].conds
    BY <1>5, <2>2
  <2>4. Agree(vs, ws, st[d + 1].conds)
    BY <1>5, <2>3, AgreeWithin
  <2>5. Waits(vs, st[d], st[d + 1].conds)
    BY <1>b
  <2>6. /\ NestsWell(st[d].text, oneCloser) /\ Len(st[d].text) \in Nat
        /\ st[d].conds \in Nat
    BY <1>2, <2>1
  <2> QED
    BY <2>4, <2>5, <2>6
<1>9. ASSUME NEW d \in 1 .. n - 1 PROVE Waits(ws, su[d], su[d + 1].conds)
  <2>1. d \in 1 .. n /\ d + 1 \in 1 .. n
    OBVIOUS
  <2>2. /\ NestsWell(st[d].text, oneCloser) /\ Len(st[d].text) \in Nat
        /\ st[d].conds \in Nat /\ Waits(vs, st[d], st[d + 1].conds)
        /\ Agree(vs, ws, st[d + 1].conds)
    BY <1>8, <2>1
  <2>3. Waits(ws, st[d], st[d + 1].conds)
    BY <2>2, WaitsOn
  <2>4. su[d] = st[d] /\ su[d + 1].conds = st[d + 1].conds
    BY <1>1, <1>3, <2>1
  <2> QED
    BY <2>3, <2>4
<1>10. n = 0 => k = 0
  BY <1>1, <1>2
<1>11. ASSUME n # 0 PROVE su[1].conds = 0 /\ Reads(ws, su[n], k)
  <2>1. 1 \in 1 .. n /\ n \in 1 .. n
    BY <1>11
  <2>2. su[1].conds = 0
    BY <1>2, <1>3, <2>1
  <2>3. CASE su[n].stopped
    BY <2>2, <2>3 DEF Reads
  <2>4. CASE ~su[n].stopped
    <3>1. k = st[n + 1].conds
      BY <1>1, <2>4
    <3>2. /\ NestsWell(st[n].text, oneCloser) /\ Len(st[n].text) \in Nat
          /\ st[n].conds \in Nat /\ Waits(vs, st[n], k) /\ Agree(vs, ws, k)
      BY <1>8, <2>1, <3>1
    <3>3. SameText(st[n], su[n]) /\ su[n].at = st[n].at + 1
      BY <1>1, <1>11
    <3>4. Reads(ws, su[n], k)
      BY <3>2, <3>3, ReadsAfterWaiting
    <3> QED
      BY <2>2, <3>4
  <2> QED
    BY <2>3, <2>4
<1> QED
  BY <1>1, <1>6, <1>7, <1>9, <1>10, <1>11 DEF StackFollows

(* A first text is read under no conditional.                              *)
LEMMA StackStarts ==
    ASSUME NEW vs, NEW st, NEW oneCloser, Len(st) = 1, st[1].at = 1, st[1].conds = 0,
           NestsWell(st[1].text, oneCloser), Len(st[1].text) \in Nat
    PROVE  StackFollows(vs, 0, st, oneCloser)
<1>1. Follows(vs, st[1].text, 1, 0, 0)
  BY 0 \in Nat, FollowsAtStart
<1>2. Reads(vs, st[Len(st)], 0)
  BY <1>1 DEF Reads
<1>3. \A d \in 1 .. Len(st) : d = 1
  OBVIOUS
<1>4. \A d \in 1 .. Len(st) - 1 : FALSE
  OBVIOUS
<1>5. \A d \in 1 .. Len(st) :
         /\ NestsWell(st[d].text, oneCloser) /\ Len(st[d].text) \in Nat
         /\ st[d].conds \in 0 .. 0
  BY <1>3
<1>6. \A d, e \in 1 .. Len(st) : d <= e => st[d].conds <= st[e].conds
  BY <1>3
<1> QED
  BY <1>2, <1>4, <1>5, <1>6 DEF StackFollows

(* So the innermost flag says of a whole stack whether what is read is     *)
(* assembled: it is where every text is at a statement in live arms.       *)
LEMMA StackIsLive ==
    ASSUME NEW vs, NEW h \in Nat, NEW st, NEW oneCloser,
           StackFollows(vs, h, st, oneCloser), Len(st) \in Nat \ {0},
           ~st[Len(st)].stopped
    PROVE  Live(vs, h) <=> \A d \in 1 .. Len(st) : IsLive(st[d].text, st[d].at)
<1>1. PICK n \in Nat : n = Len(st) /\ n # 0
  OBVIOUS
<1>2. /\ \A d \in 1 .. n :
            /\ NestsWell(st[d].text, oneCloser) /\ Len(st[d].text) \in Nat
            /\ st[d].conds \in 0 .. h
      /\ st[1].conds = 0 /\ Reads(vs, st[n], h)
      /\ \A d \in 1 .. n - 1 : Waits(vs, st[d], st[d + 1].conds)
  BY <1>1 DEF StackFollows
<1> DEFINE LiveAt(d) == Live(vs, st[d].conds) <=> \A e \in 1 .. d - 1 : IsLive(st[e].text, st[e].at)
           S == {m \in Nat : m + 1 <= n => LiveAt(m + 1)}
<1>3. 0 \in S
  BY <1>2 DEF Live
<1>4. ASSUME NEW d \in 1 .. n, NEW hi, Follows(vs, st[d].text, st[d].at, st[d].conds, hi),
             st[d].at \in 1 .. Len(st[d].text) + 1
      PROVE  Live(vs, hi) <=> Live(vs, st[d].conds) /\ IsLive(st[d].text, st[d].at)
  BY <1>2, <1>4, FollowsIsLive, SMTT(30) DEF NestsWell
<1>5. ASSUME NEW m \in Nat, m \in S PROVE m + 1 \in S
  <2> SUFFICES ASSUME (m + 1) + 1 <= n PROVE LiveAt((m + 1) + 1)
    OBVIOUS
  <2>1. PICK d \in 1 .. n - 1 : d = m + 1 /\ d \in 1 .. n
    OBVIOUS
  <2>2. LiveAt(d)
    BY <1>5, <2>1
  <2>3. Waits(vs, st[d], st[d + 1].conds)
    BY <1>2
  <2>4. /\ Follows(vs, st[d].text, st[d].at, st[d].conds, st[d + 1].conds)
        /\ st[d].at \in 1 .. Len(st[d].text)
    BY <2>3 DEF Waits
  <2>5. st[d].at \in 1 .. Len(st[d].text) + 1
    <3>1. \A len \in Nat : \A at \in 1 .. len : at \in 1 .. len + 1
      OBVIOUS
    <3>2. Len(st[d].text) \in Nat
      BY <1>2, <2>1
    <3> QED
      BY <2>4, <3>1, <3>2
  <2>6. Live(vs, st[d + 1].conds) <=> Live(vs, st[d].conds) /\ IsLive(st[d].text, st[d].at)
    BY <1>4, <2>1, <2>4, <2>5
  <2>7. \A e : e \in 1 .. (d + 1) - 1 <=> e \in 1 .. d - 1 \/ e = d
    BY <2>1
  <2>8. LiveAt(d + 1)
    BY <2>2, <2>6, <2>7
  <2> QED
    BY <2>1, <2>8
<1> HIDE DEF S
<1>6. Nat \subseteq S
  BY <1>3, <1>5, InductionBySets
<1>7. PICK m \in Nat : m = n - 1 /\ m + 1 = n
  BY <1>1
<1>8. LiveAt(n)
  <2> HIDE DEF LiveAt
  <2>1. m \in S /\ m + 1 <= n
    BY <1>1, <1>6, <1>7
  <2> QED
    BY <1>7, <2>1 DEF S
<1>9. /\ Follows(vs, st[n].text, st[n].at, st[n].conds, h)
      /\ st[n].at \in 1 .. Len(st[n].text) + 1 /\ n \in 1 .. n
  BY <1>1, <1>2 DEF Reads
<1>10. Live(vs, h) <=> Live(vs, st[n].conds) /\ IsLive(st[n].text, st[n].at)
  BY <1>4, <1>9
<1>11. \A e : e \in 1 .. n <=> e \in 1 .. n - 1 \/ e = n
  BY <1>1
<1> QED
  BY <1>1, <1>8, <1>10, <1>11

-----------------------------------------------------------------------------
(* Brackets.  Blocks and conditionals close what was opened last, so that  *)
(* each kind of them is in balance wherever all of them are.               *)

(* How many more statements i .. j open one of a kind than close one.      *)
Balance(text, i, j, opens, closes) == Count(text, i, j, opens) - Count(text, i, j, closes)

(* What a statement does to it.                                            *)
LEMMA BalanceSteps ==
    ASSUME NEW text, NEW j \in Int, NEW k \in Int, j <= k, NEW opens, NEW closes,
           opens \cap closes = {}
    PROVE  /\ Balance(text, j, k - 1, opens, closes) \in Int
           /\ Balance(text, j, k, opens, closes) \in Int
           /\ text[k].op \in opens =>
                Balance(text, j, k, opens, closes) = Balance(text, j, k - 1, opens, closes) + 1
           /\ text[k].op \in closes =>
                Balance(text, j, k, opens, closes) = Balance(text, j, k - 1, opens, closes) - 1
           /\ text[k].op \notin opens \cup closes =>
                Balance(text, j, k, opens, closes) = Balance(text, j, k - 1, opens, closes)
<1>1. k - 1 \in Int /\ (k - 1) + 1 = k /\ j <= (k - 1) + 1 /\ k - 1 <= k
  OBVIOUS
<1>2. ASSUME NEW ops
      PROVE  /\ Count(text, j, k - 1, ops) \in Nat
             /\ Count(text, j, k, ops)
                  = Count(text, j, k - 1, ops) + (IF text[k].op \in ops THEN 1 ELSE 0)
  <2>1. Count(text, j, k, ops) = Count(text, j, k - 1, ops) + Count(text, (k - 1) + 1, k, ops)
    BY <1>1, CountSplits
  <2>2. Count(text, j, k - 1, ops) \in Nat
    BY <1>1, CountIsNat
  <2>3. Count(text, k, k, ops) = IF text[k].op \in ops THEN 1 ELSE 0
    BY CountOfOne
  <2>4. Count(text, (k - 1) + 1, k, ops) = Count(text, k, k, ops)
    BY <1>1
  <2> QED
    BY <2>1, <2>2, <2>3, <2>4
<1>3. /\ Count(text, j, k - 1, opens) \in Nat /\ Count(text, j, k - 1, closes) \in Nat
      /\ Count(text, j, k, opens)
           = Count(text, j, k - 1, opens) + (IF text[k].op \in opens THEN 1 ELSE 0)
      /\ Count(text, j, k, closes)
           = Count(text, j, k - 1, closes) + (IF text[k].op \in closes THEN 1 ELSE 0)
  BY <1>2
<1>4. text[k].op \in opens => text[k].op \notin closes
  OBVIOUS
<1> QED
  BY <1>3, <1>4 DEF Balance

(* It adds up,                                                             *)
LEMMA BalanceSplits ==
    ASSUME NEW text, NEW i \in Int, NEW m \in Int, NEW j \in Int, i <= m, m <= j,
           NEW opens, NEW closes
    PROVE  /\ Balance(text, i, m - 1, opens, closes) \in Int
           /\ Balance(text, m, j, opens, closes) \in Int
           /\ Balance(text, i, j, opens, closes)
                = Balance(text, i, m - 1, opens, closes) + Balance(text, m, j, opens, closes)
<1>1. m - 1 \in Int /\ (m - 1) + 1 = m /\ i <= (m - 1) + 1 /\ m - 1 <= j
  OBVIOUS
<1>2. ASSUME NEW ops
      PROVE  /\ Count(text, i, m - 1, ops) \in Nat /\ Count(text, m, j, ops) \in Nat
             /\ Count(text, i, j, ops) = Count(text, i, m - 1, ops) + Count(text, m, j, ops)
  <2>1. Count(text, i, j, ops) = Count(text, i, m - 1, ops) + Count(text, (m - 1) + 1, j, ops)
    BY <1>1, CountSplits
  <2> QED
    BY <1>1, <2>1, CountIsNat
<1>3. /\ Count(text, i, m - 1, opens) \in Nat /\ Count(text, m, j, opens) \in Nat
      /\ Count(text, i, j, opens) = Count(text, i, m - 1, opens) + Count(text, m, j, opens)
      /\ Count(text, i, m - 1, closes) \in Nat /\ Count(text, m, j, closes) \in Nat
      /\ Count(text, i, j, closes) = Count(text, i, m - 1, closes) + Count(text, m, j, closes)
  BY <1>2
<1> QED
  BY <1>3 DEF Balance

(* from nothing.                                                           *)
LEMMA BalanceOfNone ==
    ASSUME NEW text, NEW i \in Int, NEW opens, NEW closes
    PROVE  Balance(text, i, i - 1, opens, closes) = 0
BY CountOfNone DEF Balance

(* The open brackets, the open conditionals and the open blocks of a kind  *)
(* are three of them.                                                      *)
LEMMA Balances ==
    ASSUME NEW text, NEW i, NEW j, NEW oneCloser
    PROVE  /\ OpenBrackets(text, i, j) = Balance(text, i, j, Brackets, Closers)
           /\ OpenFrom(text, i, j) = Balance(text, i, j, Opening, {"endif"})
           /\ BlockDepth(text, i, j, oneCloser) =
                Balance(text, i, j, Opens(text[i].op, oneCloser), Closes(text[i].op, oneCloser))
BY DEF OpenBrackets, OpenFrom, BlockDepth, Balance

(* No statement is of two sorts.                                           *)
LEMMA BracketSorts ==
    /\ Brackets \cap Closers = {} /\ Brackets \cap Arms = {} /\ Closers \cap Arms = {}
    /\ Brackets = Opening \cup BlockStarts /\ Opening \cap BlockStarts = {}
BY DEF Brackets, Closers, Arms, Opening, BlockStarts

(* What is open at a statement was open before it.                         *)
LEMMA InsideBefore ==
    ASSUME NEW text, NEW i \in Int, NEW j, IsInside(text, i, j), NEW m \in Int,
           j < m, m <= i
    PROVE  IsInside(text, m, j)
BY DEF IsInside

(* How the brackets open in two places add up.                             *)
LEMMA OpenBracketsSplit ==
    ASSUME NEW text, NEW i \in Int, NEW m \in Int, NEW j \in Int, i <= m, m <= j
    PROVE  /\ OpenBrackets(text, i, m - 1) \in Int
           /\ OpenBrackets(text, m, j) \in Int
           /\ OpenBrackets(text, i, j) = OpenBrackets(text, i, m - 1) + OpenBrackets(text, m, j)
<1>1. /\ Balance(text, i, m - 1, Brackets, Closers) \in Int
      /\ Balance(text, m, j, Brackets, Closers) \in Int
      /\ Balance(text, i, j, Brackets, Closers)
           = Balance(text, i, m - 1, Brackets, Closers) + Balance(text, m, j, Brackets, Closers)
  BY BalanceSplits
<1> QED
  BY <1>1, Balances

(* And what a statement does to them.                                      *)
LEMMA OpenBracketsStep ==
    ASSUME NEW text, NEW j \in Int, NEW k \in Int, j <= k
    PROVE  /\ OpenBrackets(text, j, k - 1) \in Int /\ OpenBrackets(text, j, k) \in Int
           /\ text[k].op \in Brackets =>
                OpenBrackets(text, j, k) = OpenBrackets(text, j, k - 1) + 1
           /\ text[k].op \in Closers =>
                OpenBrackets(text, j, k) = OpenBrackets(text, j, k - 1) - 1
           /\ text[k].op \notin Brackets \cup Closers =>
                OpenBrackets(text, j, k) = OpenBrackets(text, j, k - 1)
<1>1. Brackets \cap Closers = {}
  BY BracketSorts
<1>2. /\ Balance(text, j, k - 1, Brackets, Closers) \in Int
      /\ Balance(text, j, k, Brackets, Closers) \in Int
      /\ text[k].op \in Brackets =>
           Balance(text, j, k, Brackets, Closers) = Balance(text, j, k - 1, Brackets, Closers) + 1
      /\ text[k].op \in Closers =>
           Balance(text, j, k, Brackets, Closers) = Balance(text, j, k - 1, Brackets, Closers) - 1
      /\ text[k].op \notin Brackets \cup Closers =>
           Balance(text, j, k, Brackets, Closers) = Balance(text, j, k - 1, Brackets, Closers)
  BY <1>1, BalanceSteps
<1> QED
  BY <1>2, Balances

(* Which brackets are open at the next statement.                          *)
LEMMA InsideNext ==
    ASSUME NEW text, NEW at \in Nat \ {0}, NEW j
    PROVE  IsInside(text, at + 1, j) <=>
             \/ IsInside(text, at, j) /\ OpenBrackets(text, j, at) > 0
             \/ j = at /\ text[at].op \in Brackets
<1>1. (at + 1) - 1 = at /\ at \in Int
  OBVIOUS
<1>2. IsInside(text, at + 1, j) <=>
        /\ j \in 1 .. at /\ text[j].op \in Brackets
        /\ \A k \in j .. at : OpenBrackets(text, j, k) > 0
  BY <1>1 DEF IsInside
<1>3. CASE j = at
  <2>1. ~IsInside(text, at, j)
    BY <1>3 DEF IsInside
  <2>2. text[at].op \in Brackets => OpenBrackets(text, at, at) > 0
    <3>1. Balance(text, at, at - 1, Brackets, Closers) = 0
      BY <1>1, BalanceOfNone
    <3>2. OpenBrackets(text, at, at - 1) = 0
      BY <3>1, Balances
    <3>3. text[at].op \in Brackets =>
            OpenBrackets(text, at, at) = OpenBrackets(text, at, at - 1) + 1
      BY <1>1, OpenBracketsStep
    <3> QED
      BY <3>2, <3>3
  <2>3. \A k \in at .. at : k = at
    BY <1>1
  <2>4. at \in 1 .. at
    OBVIOUS
  <2> QED
    BY <1>2, <1>3, <2>1, <2>2, <2>3, <2>4
<1>4. CASE j # at
  BY <1>2, <1>4 DEF IsInside
<1> QED
  BY <1>3, <1>4

(* A statement is directly inside the last of the brackets that are open.  *)
LEMMA DirectlyIsLast ==
    ASSUME NEW text, NEW i \in Int, NEW j, NEW m, IsDirectlyInside(text, i, j),
           IsInside(text, i, m)
    PROVE  m <= j
<1>1. /\ j \in 1 .. i - 1 /\ m \in 1 .. i - 1 /\ OpenBrackets(text, j, i - 1) = 1
      /\ \A k \in j .. i - 1 : OpenBrackets(text, j, k) > 0
      /\ \A k \in m .. i - 1 : OpenBrackets(text, m, k) > 0
  BY DEF IsDirectlyInside, IsInside
<1>2. SUFFICES ASSUME m > j PROVE FALSE
  BY <1>1
<1>3. m - 1 \in j .. i - 1 /\ i - 1 \in m .. i - 1 /\ j \in Int /\ m \in Int /\ i - 1 \in Int
      /\ j <= m /\ m <= i - 1
  BY <1>1, <1>2
<1>4. /\ OpenBrackets(text, j, m - 1) \in Int /\ OpenBrackets(text, m, i - 1) \in Int
      /\ OpenBrackets(text, j, i - 1)
           = OpenBrackets(text, j, m - 1) + OpenBrackets(text, m, i - 1)
  BY <1>3, OpenBracketsSplit
<1>5. OpenBrackets(text, j, m - 1) > 0 /\ OpenBrackets(text, m, i - 1) > 0
  BY <1>1, <1>3
<1> QED
  BY <1>1, <1>4, <1>5

-----------------------------------------------------------------------------
(* The brackets of a kind, and what closes them.                           *)
IsKind(opens, closes, oneCloser) ==
    /\ opens \subseteq Brackets /\ closes \subseteq Closers
    /\ \A op \in Brackets : Closer(op, oneCloser) \in closes <=> op \in opens

(* The conditionals are one,                                               *)
LEMMA ConditionalsAreAKind ==
    ASSUME NEW oneCloser
    PROVE  IsKind(Opening, {"endif"}, oneCloser)
BY DEF IsKind, Closer, Brackets, Closers, Opening, BlockStarts

(* and what a block counts is.                                             *)
LEMMA BlocksAreAKind ==
    ASSUME NEW oneCloser, NEW op \in BlockStarts
    PROVE  IsKind(Opens(op, oneCloser), Closes(op, oneCloser), oneCloser)
<1>1. CASE oneCloser
  <2>1. Opens(op, oneCloser) = {"macro", "rept"} /\ Closes(op, oneCloser) = {"endm"}
    BY <1>1 DEF Opens, Closes
  <2>2. \A b \in Brackets : Closer(b, oneCloser) = IF b \in Opening THEN "endif" ELSE "endm"
    BY <1>1 DEF Closer
  <2> QED
    BY <2>1, <2>2 DEF IsKind, Brackets, Closers, Opening, BlockStarts
<1>2. CASE ~oneCloser /\ op = "macro"
  <2>1. Opens(op, oneCloser) = {"macro"} /\ Closes(op, oneCloser) = {"endm"}
    BY <1>2 DEF Opens, Closes
  <2>2. \A b \in Brackets : Closer(b, oneCloser) =
          IF b \in Opening THEN "endif" ELSE IF b = "macro" THEN "endm" ELSE "endr"
    BY <1>2 DEF Closer
  <2> QED
    BY <2>1, <2>2 DEF IsKind, Brackets, Closers, Opening, BlockStarts
<1>3. CASE ~oneCloser /\ op = "rept"
  <2>1. Opens(op, oneCloser) = {"rept"} /\ Closes(op, oneCloser) = {"endr"}
    BY <1>3 DEF Opens, Closes
  <2>2. \A b \in Brackets : Closer(b, oneCloser) =
          IF b \in Opening THEN "endif" ELSE IF b = "macro" THEN "endm" ELSE "endr"
    BY <1>3 DEF Closer
  <2> QED
    BY <2>1, <2>2 DEF IsKind, Brackets, Closers, Opening, BlockStarts
<1> QED
  BY <1>1, <1>2, <1>3 DEF BlockStarts

(* After statement k, each open bracket of a kind has one of the kind      *)
(* open, and each other none, not counting those opened after it.          *)
BalancedTo(text, k, opens, closes) ==
    \A i \in 1 .. k : IsInside(text, k + 1, i) =>
        LET own == IF text[i].op \in opens THEN 1 ELSE 0
            all == Balance(text, i, k, opens, closes)
        IN  all >= own /\ (IsDirectlyInside(text, k + 1, i) => all = own)

(* One statement more keeps this.                                          *)
LEMMA BalancedNext ==
    ASSUME NEW text, NEW oneCloser, IsBracketed(text, oneCloser), Len(text) \in Nat,
           NEW opens, NEW closes, IsKind(opens, closes, oneCloser),
           NEW k \in 1 .. Len(text), \A m \in 1 .. k - 1 : BalancedTo(text, m, opens, closes)
    PROVE  BalancedTo(text, k, opens, closes)
<1> SUFFICES ASSUME NEW i \in 1 .. k, IsInside(text, k + 1, i)
             PROVE  LET own == IF text[i].op \in opens THEN 1 ELSE 0
                        all == Balance(text, i, k, opens, closes)
                    IN  all >= own /\ (IsDirectlyInside(text, k + 1, i) => all = own)
  BY DEF BalancedTo
<1>1. PICK own \in {0, 1} : own = IF text[i].op \in opens THEN 1 ELSE 0
  OBVIOUS
<1>2. SUFFICES /\ Balance(text, i, k, opens, closes) >= own
               /\ IsDirectlyInside(text, k + 1, i) => Balance(text, i, k, opens, closes) = own
  BY <1>1
<1>3. /\ k \in Int /\ i \in Int /\ k \in Nat \ {0} /\ (k + 1) - 1 = k /\ i <= k /\ i \in 1 .. k
      /\ k - 1 \in Int /\ (k - 1) + 1 = k
  OBVIOUS
<1>4. opens \cap closes = {} /\ opens \subseteq Brackets /\ closes \subseteq Closers
  BY BracketSorts DEF IsKind
<1>5. /\ text[i].op \in Brackets /\ \A m \in i .. k : OpenBrackets(text, i, m) > 0
  BY <1>3 DEF IsInside
<1>6. OpenBrackets(text, i, k) > 0
  BY <1>3, <1>5
<1>7. IsDirectlyInside(text, k + 1, i) => OpenBrackets(text, i, k) = 1
  BY <1>3 DEF IsDirectlyInside
<1>8. /\ Balance(text, i, k - 1, opens, closes) \in Int
      /\ Balance(text, i, k, opens, closes) \in Int
      /\ text[k].op \in opens =>
           Balance(text, i, k, opens, closes) = Balance(text, i, k - 1, opens, closes) + 1
      /\ text[k].op \in closes =>
           Balance(text, i, k, opens, closes) = Balance(text, i, k - 1, opens, closes) - 1
      /\ text[k].op \notin opens \cup closes =>
           Balance(text, i, k, opens, closes) = Balance(text, i, k - 1, opens, closes)
  BY <1>3, <1>4, BalanceSteps
<1>9. /\ OpenBrackets(text, i, k - 1) \in Int /\ OpenBrackets(text, i, k) \in Int
      /\ text[k].op \in Brackets =>
           OpenBrackets(text, i, k) = OpenBrackets(text, i, k - 1) + 1
      /\ text[k].op \in Closers =>
           OpenBrackets(text, i, k) = OpenBrackets(text, i, k - 1) - 1
      /\ text[k].op \notin Brackets \cup Closers =>
           OpenBrackets(text, i, k) = OpenBrackets(text, i, k - 1)
  BY <1>3, OpenBracketsStep
<1>10. Brackets \cap Closers = {}
  BY BracketSorts
<1>11. CASE i = k
  <2>1. Balance(text, k, k - 1, opens, closes) = 0
    BY <1>3, BalanceOfNone
  <2>2. text[k].op \notin closes
    BY <1>4, <1>5, <1>10, <1>11
  <2>3. Balance(text, i, k, opens, closes) = own
    BY <1>1, <1>8, <1>11, <2>1, <2>2
  <2> QED
    BY <1>1, <2>3
<1>12. CASE i # k
  <2>1. i \in 1 .. k - 1 /\ k - 1 \in 1 .. k - 1 /\ i < k /\ k <= k + 1 /\ k + 1 \in Int
    BY <1>12
  <2>2. IsInside(text, k, i)
    BY <1>3, <2>1, InsideBefore
  <2>3. BalancedTo(text, k - 1, opens, closes)
    BY <2>1
  <2>4. /\ Balance(text, i, k - 1, opens, closes) >= own
        /\ IsDirectlyInside(text, k, i) => Balance(text, i, k - 1, opens, closes) = own
    BY <1>1, <1>3, <2>1, <2>2, <2>3 DEF BalancedTo
  <2>5. k - 1 \in i .. k
    BY <2>1
  <2>6. OpenBrackets(text, i, k - 1) > 0
    BY <1>5, <2>5
  <2>7. CASE text[k].op \in Brackets
    <3>1. text[k].op \notin closes
      BY <1>4, <1>10, <2>7
    <3>2. Balance(text, i, k, opens, closes) >= Balance(text, i, k - 1, opens, closes)
      BY <1>8, <3>1
    <3>3. ~IsDirectlyInside(text, k + 1, i)
      BY <1>7, <1>9, <2>6, <2>7
    <3> QED
      BY <1>1, <1>8, <2>4, <3>2, <3>3
  <2>8. CASE text[k].op \in Closers
    <3>1. PICK j \in 1 .. k - 1 : EndsBracket(text, k, j, oneCloser)
      BY <2>8 DEF IsBracketed
    <3>2. /\ IsDirectlyInside(text, k, j) /\ text[k].op = Closer(text[j].op, oneCloser)
          /\ text[j].op \in Brackets /\ OpenBrackets(text, j, k - 1) = 1
          /\ IsInside(text, k, j)
      BY <3>1 DEF EndsBracket, IsDirectlyInside, IsInside
    <3>3. i <= j
      BY <1>3, <2>2, <3>2, DirectlyIsLast
    <3>4. i # j
      BY <1>6, <1>9, <2>8, <3>2
    <3>5. i < j /\ j \in Int /\ j <= k /\ j <= k - 1 /\ i <= j /\ j - 1 \in 1 .. k - 1
          /\ (j - 1) + 1 = j /\ i \in 1 .. j - 1
      BY <1>3, <3>1, <3>3, <3>4
    <3>6. IsInside(text, j, i)
      BY <1>3, <2>2, <3>5, InsideBefore
    <3>7. BalancedTo(text, j - 1, opens, closes)
      BY <3>5
    <3>8. /\ Balance(text, i, j - 1, opens, closes) >= own
          /\ IsDirectlyInside(text, j, i) => Balance(text, i, j - 1, opens, closes) = own
      BY <1>1, <3>5, <3>6, <3>7 DEF BalancedTo
    <3>9. Balance(text, j, k - 1, opens, closes) = IF text[j].op \in opens THEN 1 ELSE 0
      BY <1>3, <2>3, <3>1, <3>2 DEF BalancedTo
    <3>10. /\ Balance(text, i, j - 1, opens, closes) \in Int
           /\ Balance(text, j, k - 1, opens, closes) \in Int
           /\ Balance(text, i, k - 1, opens, closes)
                = Balance(text, i, j - 1, opens, closes) + Balance(text, j, k - 1, opens, closes)
      BY <1>3, <3>5, BalanceSplits
    <3>11. text[k].op \in closes <=> text[j].op \in opens
      BY <3>2 DEF IsKind
    <3>12. text[k].op \notin opens
      BY <1>4, <1>10, <2>8
    <3>13. Balance(text, i, k, opens, closes) = Balance(text, i, j - 1, opens, closes)
      BY <1>8, <3>9, <3>10, <3>11, <3>12
    <3>14. IsDirectlyInside(text, k + 1, i) => IsDirectlyInside(text, j, i)
      <4> SUFFICES ASSUME IsDirectlyInside(text, k + 1, i) PROVE IsDirectlyInside(text, j, i)
        OBVIOUS
      <4>1. OpenBrackets(text, i, k - 1) = 2
        BY <1>7, <1>9, <2>8
      <4>2. /\ OpenBrackets(text, i, j - 1) \in Int
            /\ OpenBrackets(text, i, k - 1)
                 = OpenBrackets(text, i, j - 1) + OpenBrackets(text, j, k - 1)
        BY <1>3, <3>5, OpenBracketsSplit
      <4>3. OpenBrackets(text, i, j - 1) = 1
        BY <3>2, <4>1, <4>2
      <4> QED
        BY <3>6, <4>3 DEF IsDirectlyInside
    <3> QED
      BY <3>8, <3>13, <3>14
  <2>9. CASE text[k].op \notin Brackets \cup Closers
    <3>1. Balance(text, i, k, opens, closes) = Balance(text, i, k - 1, opens, closes)
      BY <1>4, <1>8, <2>9
    <3>2. IsDirectlyInside(text, k + 1, i) => IsDirectlyInside(text, k, i)
      BY <1>7, <1>9, <2>2, <2>9 DEF IsDirectlyInside
    <3> QED
      BY <2>4, <3>1, <3>2
  <2> QED
    BY <2>7, <2>8, <2>9
<1> QED
  BY <1>11, <1>12

(* So it holds everywhere.                                                 *)
LEMMA BracketsBalance ==
    ASSUME NEW text, NEW oneCloser, IsBracketed(text, oneCloser), Len(text) \in Nat,
           NEW opens, NEW closes, IsKind(opens, closes, oneCloser),
           NEW k \in 1 .. Len(text)
    PROVE  BalancedTo(text, k, opens, closes)
<1> DEFINE Upto(n) == \A m \in 1 .. n : m <= Len(text) => BalancedTo(text, m, opens, closes)
           S == {n \in Nat : Upto(n)}
<1>1. 0 \in S
  OBVIOUS
<1>2. ASSUME NEW n \in Nat, n \in S PROVE n + 1 \in S
  <2>1. \A m \in 1 .. n : m <= Len(text) => BalancedTo(text, m, opens, closes)
    BY <1>2
  <2>2. n + 1 <= Len(text) => BalancedTo(text, n + 1, opens, closes)
    <3> SUFFICES ASSUME n + 1 <= Len(text) PROVE BalancedTo(text, n + 1, opens, closes)
      OBVIOUS
    <3>1. PICK l \in Nat : l = Len(text)
      OBVIOUS
    <3>2. \A m \in 1 .. (n + 1) - 1 : m \in 1 .. n /\ m <= Len(text)
      BY <3>1
    <3>3. \A m \in 1 .. (n + 1) - 1 : BalancedTo(text, m, opens, closes)
      BY <2>1, <3>2
    <3>4. n + 1 \in 1 .. Len(text)
      BY <3>1
    <3> QED
      BY <3>3, <3>4, BalancedNext
  <2>3. \A m \in 1 .. n + 1 : m \in 1 .. n \/ m = n + 1
    OBVIOUS
  <2>4. Upto(n + 1)
    BY <2>1, <2>2, <2>3
  <2>5. n + 1 \in Nat
    OBVIOUS
  <2> QED
    BY <2>4, <2>5
<1> HIDE DEF S
<1>3. Nat \subseteq S
  BY <1>1, <1>2, InductionBySets
<1>4. k \in Nat /\ k \in 1 .. k /\ k <= Len(text)
  OBVIOUS
<1>5. k \in S
  BY <1>3, <1>4
<1> QED
  BY <1>4, <1>5 DEF S

(* Where statement i comes inside bracket j, one of j's kind is open.      *)
LEMMA InsideBalances ==
    ASSUME NEW text, NEW oneCloser, IsBracketed(text, oneCloser), Len(text) \in Nat,
           NEW opens, NEW closes, IsKind(opens, closes, oneCloser),
           NEW i \in 1 .. Len(text) + 1, NEW j, IsInside(text, i, j)
    PROVE  /\ Balance(text, j, i - 1, opens, closes) \in Int
           /\ Balance(text, j, i - 1, opens, closes) >= 0
           /\ text[j].op \in opens => Balance(text, j, i - 1, opens, closes) >= 1
           /\ IsDirectlyInside(text, i, j) =>
                Balance(text, j, i - 1, opens, closes) = IF text[j].op \in opens THEN 1 ELSE 0
<1>1. j \in 1 .. i - 1
  BY DEF IsInside
<1>2. PICK k \in Int : k = i - 1
  OBVIOUS
<1>3. k \in 1 .. Len(text) /\ i = k + 1 /\ j \in 1 .. k /\ j \in Int /\ j <= k
  BY <1>1, <1>2
<1>4. BalancedTo(text, k, opens, closes)
  BY <1>3, BracketsBalance
<1>5. opens \cap closes = {}
  BY BracketSorts DEF IsKind
<1>6. Balance(text, j, k, opens, closes) \in Int
  BY <1>3, <1>5, BalanceSteps
<1>7. LET own == IF text[j].op \in opens THEN 1 ELSE 0
          all == Balance(text, j, k, opens, closes)
      IN  all >= own /\ (IsDirectlyInside(text, k + 1, j) => all = own)
  BY <1>3, <1>4 DEF BalancedTo
<1> QED
  BY <1>2, <1>3, <1>6, <1>7

(* Of conditionals.                                                        *)
LEMMA InsideConditionals ==
    ASSUME NEW text, NEW oneCloser, IsBracketed(text, oneCloser), Len(text) \in Nat,
           NEW i \in 1 .. Len(text) + 1, NEW j, IsInside(text, i, j)
    PROVE  /\ OpenFrom(text, j, i - 1) \in Nat
           /\ IsDirectlyInside(text, i, j) =>
                OpenFrom(text, j, i - 1) = IF text[j].op \in Opening THEN 1 ELSE 0
           /\ text[j].op \in Opening => OpenFrom(text, j, i - 1) >= 1
<1>1. IsKind(Opening, {"endif"}, oneCloser)
  BY ConditionalsAreAKind
<1>2. /\ Balance(text, j, i - 1, Opening, {"endif"}) \in Int
      /\ Balance(text, j, i - 1, Opening, {"endif"}) >= 0
      /\ text[j].op \in Opening => Balance(text, j, i - 1, Opening, {"endif"}) >= 1
      /\ IsDirectlyInside(text, i, j) =>
           Balance(text, j, i - 1, Opening, {"endif"}) = IF text[j].op \in Opening THEN 1 ELSE 0
  BY <1>1, InsideBalances
<1>3. OpenFrom(text, j, i - 1) = Balance(text, j, i - 1, Opening, {"endif"})
  BY Balances
<1>4. PICK n \in Int : n = Balance(text, j, i - 1, Opening, {"endif"})
  BY <1>2
<1>5. n >= 0 /\ n \in Nat /\ OpenFrom(text, j, i - 1) = n
  BY <1>2, <1>3, <1>4
<1> QED
  BY <1>2, <1>4, <1>5

(* A block ends where its bracket closes.                                  *)
LEMMA BlockEndsAsBracket ==
    ASSUME NEW text, NEW oneCloser, IsBracketed(text, oneCloser), Len(text) \in Nat,
           NEW i \in 1 .. Len(text), text[i].op \in BlockStarts
    PROVE  \E e \in BlockEnds(text, i, oneCloser) :
              e \in i + 1 .. Len(text) /\ EndsBracket(text, e, i, oneCloser)
<1>1. text[i].op \in Brackets /\ i \in Int
  BY BracketSorts
<1>2. PICK e \in i + 1 .. Len(text) : EndsBracket(text, e, i, oneCloser)
  BY <1>1 DEF IsBracketed
<1>3. /\ IsDirectlyInside(text, e, i) /\ IsInside(text, e, i)
      /\ text[e].op = Closer(text[i].op, oneCloser)
  BY <1>2 DEF EndsBracket, IsDirectlyInside
<1>4. PICK opens, closes : /\ opens = Opens(text[i].op, oneCloser)
                           /\ closes = Closes(text[i].op, oneCloser)
  OBVIOUS
<1>5. IsKind(opens, closes, oneCloser) /\ text[i].op \in opens
  BY <1>4, BlocksAreAKind DEF Opens, BlockStarts
<1>6. text[e].op \in closes /\ opens \cap closes = {}
  BY <1>1, <1>3, <1>5, BracketSorts DEF IsKind
<1>7. \A k : BlockDepth(text, i, k, oneCloser) = Balance(text, i, k, opens, closes)
  BY <1>4, Balances
<1>8. ASSUME NEW k \in i .. e - 1 PROVE BlockDepth(text, i, k, oneCloser) > 0
  <2>1. PICK m \in Int : m = k + 1 /\ m - 1 = k
    OBVIOUS
  <2>2. e \in Int /\ i < m /\ m <= e /\ m \in 1 .. Len(text) + 1
    BY <2>1
  <2>3. IsInside(text, m, i)
    BY <1>3, <2>2, InsideBefore
  <2>4. Balance(text, i, m - 1, opens, closes) \in Int /\ Balance(text, i, m - 1, opens, closes) >= 1
    BY <1>5, <2>2, <2>3, InsideBalances
  <2> QED
    BY <1>7, <2>1, <2>4
<1>9. BlockDepth(text, i, e, oneCloser) = 0
  <2>1. e \in 1 .. Len(text) + 1 /\ e \in Int /\ i <= e
    BY <1>2
  <2>2. Balance(text, i, e - 1, opens, closes) = 1
    BY <1>3, <1>5, <2>1, InsideBalances
  <2>3. Balance(text, i, e, opens, closes) = Balance(text, i, e - 1, opens, closes) - 1
    BY <1>1, <1>6, <2>1, BalanceSteps
  <2> QED
    BY <1>7, <2>2, <2>3
<1>10. e \in BlockEnds(text, i, oneCloser)
  BY <1>2, <1>8, <1>9, BlockEndsMeans
<1> QED
  BY <1>2, <1>10

(* And there only.                                                         *)
LEMMA BlockIsClosed ==
    ASSUME NEW text, NEW oneCloser, IsBracketed(text, oneCloser), Len(text) \in Nat,
           NEW i \in 1 .. Len(text), text[i].op \in BlockStarts
    PROVE  /\ BlockEnds(text, i, oneCloser) # {}
           /\ \A e \in BlockEnds(text, i, oneCloser) :
                 e \in i + 1 .. Len(text) /\ EndsBracket(text, e, i, oneCloser)
<1>1. PICK f \in BlockEnds(text, i, oneCloser) :
          f \in i + 1 .. Len(text) /\ EndsBracket(text, f, i, oneCloser)
  BY BlockEndsAsBracket
<1>2. i \in Int
  OBVIOUS
<1>3. ASSUME NEW e \in BlockEnds(text, i, oneCloser) PROVE e = f
  BY <1>2, BlockEndsOnce
<1> QED
  BY <1>1, <1>3

-----------------------------------------------------------------------------
(* What is inside what follows the operations.                             *)
LEMMA InsideFollowsOps ==
    ASSUME NEW t, NEW s, NEW d \in Int, NEW lo \in Int, NEW hi \in Int,
           SameOps(t, s, d, lo, hi), NEW i \in Int, NEW j \in Int,
           lo <= j, 1 <= j, i <= hi + 1, IsInside(s, i - d, j - d)
    PROVE  /\ IsInside(t, i, j)
           /\ IsDirectlyInside(s, i - d, j - d) => IsDirectlyInside(t, i, j)
<1>1. /\ j - d \in 1 .. (i - d) - 1 /\ s[j - d].op \in Brackets
      /\ \A k \in j - d .. (i - d) - 1 : OpenBrackets(s, j - d, k) > 0
  BY DEF IsInside
<1>2. j < i /\ j \in 1 .. i - 1 /\ j \in lo .. hi
  BY <1>1
<1>3. t[j].op \in Brackets
  BY <1>1, <1>2 DEF SameOps
<1>4. ASSUME NEW k \in j .. i - 1
      PROVE  /\ OpenBrackets(t, j, k) = OpenBrackets(s, j - d, k - d)
             /\ k - d \in j - d .. (i - d) - 1
  BY SameOpsWithin, CountFollowsOps DEF OpenBrackets
<1>5. \A k \in j .. i - 1 : OpenBrackets(t, j, k) > 0
  BY <1>1, <1>4
<1>6. IsInside(t, i, j)
  BY <1>2, <1>3, <1>5 DEF IsInside
<1>7. OpenBrackets(t, j, i - 1) = OpenBrackets(s, j - d, (i - d) - 1)
  BY <1>2, <1>4
<1> QED
  BY <1>6, <1>7 DEF IsDirectlyInside

(* So does what closes what.                                               *)
LEMMA EndsFollowOps ==
    ASSUME NEW t, NEW s, NEW d \in Int, NEW lo \in Int, NEW hi \in Int,
           SameOps(t, s, d, lo, hi), NEW i \in Int, NEW j \in Int,
           lo <= j, 1 <= j, i <= hi, NEW oneCloser, EndsBracket(s, i - d, j - d, oneCloser)
    PROVE  EndsBracket(t, i, j, oneCloser)
<1>1. /\ IsDirectlyInside(s, i - d, j - d) /\ IsInside(s, i - d, j - d)
      /\ s[i - d].op = Closer(s[j - d].op, oneCloser)
      /\ j - d \in 1 .. (i - d) - 1
  BY DEF EndsBracket, IsDirectlyInside, IsInside
<1>2. i <= hi + 1 /\ i \in lo .. hi /\ j \in lo .. hi
  BY <1>1
<1>3. IsDirectlyInside(t, i, j)
  BY <1>1, <1>2, InsideFollowsOps
<1>4. t[i].op = s[i - d].op /\ t[j].op = s[j - d].op
  BY <1>2 DEF SameOps
<1> QED
  BY <1>1, <1>3, <1>4 DEF EndsBracket

(* A piece of a text whose brackets are closed in it, and closed by it, is *)
(* bracketed.                                                              *)
LocallyBracketed(text, lo, hi, oneCloser) ==
    /\ \A j \in lo .. hi :
          text[j].op \in Brackets => \E i \in j + 1 .. hi : EndsBracket(text, i, j, oneCloser)
    /\ \A i \in lo .. hi :
          /\ text[i].op \in Closers => \E j \in lo .. i - 1 : EndsBracket(text, i, j, oneCloser)
          /\ text[i].op \in Arms =>
                \E j \in lo .. i - 1 : IsDirectlyInside(text, i, j) /\ text[j].op \in Opening

(* It is so wherever the operations are the same.                          *)
LEMMA LocallyFollowsOps ==
    ASSUME NEW t, NEW s, NEW d \in Int, NEW lo \in Int, NEW hi \in Int,
           SameOps(t, s, d, lo, hi), 1 <= lo, NEW oneCloser,
           LocallyBracketed(s, lo - d, hi - d, oneCloser)
    PROVE  LocallyBracketed(t, lo, hi, oneCloser)
<1>1. \A k \in lo .. hi : t[k].op = s[k - d].op /\ k - d \in lo - d .. hi - d
  BY DEF SameOps
<1>2. ASSUME NEW j \in lo .. hi, t[j].op \in Brackets
      PROVE  \E i \in j + 1 .. hi : EndsBracket(t, i, j, oneCloser)
  <2>1. s[j - d].op \in Brackets /\ j - d \in lo - d .. hi - d
    BY <1>1, <1>2
  <2>2. PICK n \in (j - d) + 1 .. hi - d : EndsBracket(s, n, j - d, oneCloser)
    BY <2>1 DEF LocallyBracketed
  <2>3. PICK i \in Int : i = n + d /\ i - d = n /\ i \in j + 1 .. hi /\ i <= hi
    OBVIOUS
  <2>4. lo <= j /\ 1 <= j /\ j \in Int
    OBVIOUS
  <2>5. EndsBracket(t, i, j, oneCloser)
    BY <2>2, <2>3, <2>4, EndsFollowOps
  <2> QED
    BY <2>3, <2>5
<1>3. ASSUME NEW i \in lo .. hi, t[i].op \in Closers
      PROVE  \E j \in lo .. i - 1 : EndsBracket(t, i, j, oneCloser)
  <2>1. s[i - d].op \in Closers /\ i - d \in lo - d .. hi - d
    BY <1>1, <1>3
  <2>2. PICK n \in lo - d .. (i - d) - 1 : EndsBracket(s, i - d, n, oneCloser)
    BY <2>1 DEF LocallyBracketed
  <2>3. PICK j \in Int : j - d = n /\ j \in lo .. i - 1 /\ lo <= j /\ 1 <= j
    OBVIOUS
  <2>4. i <= hi /\ i \in Int
    OBVIOUS
  <2>5. EndsBracket(t, i, j, oneCloser)
    BY <2>2, <2>3, <2>4, EndsFollowOps
  <2> QED
    BY <2>3, <2>5
<1>4. ASSUME NEW i \in lo .. hi, t[i].op \in Arms
      PROVE  \E j \in lo .. i - 1 : IsDirectlyInside(t, i, j) /\ t[j].op \in Opening
  <2>1. s[i - d].op \in Arms /\ i - d \in lo - d .. hi - d
    BY <1>1, <1>4
  <2>2. PICK n \in lo - d .. (i - d) - 1 : IsDirectlyInside(s, i - d, n) /\ s[n].op \in Opening
    BY <2>1 DEF LocallyBracketed
  <2>3. PICK j \in Int : j - d = n /\ j \in lo .. i - 1 /\ lo <= j /\ 1 <= j /\ j \in lo .. hi
    OBVIOUS
  <2>4. i <= hi + 1 /\ i \in Int
    OBVIOUS
  <2>5. IsInside(s, i - d, j - d)
    BY <2>2, <2>3 DEF IsDirectlyInside
  <2>6. IsDirectlyInside(t, i, j)
    BY <2>2, <2>3, <2>4, <2>5, InsideFollowsOps
  <2>7. t[j].op \in Opening
    BY <1>1, <2>2, <2>3
  <2> QED
    BY <2>3, <2>6, <2>7
<1> QED
  BY <1>2, <1>3, <1>4 DEF LocallyBracketed

(* A bracketed text is one piece.                                          *)
LEMMA BracketedMeans ==
    ASSUME NEW text, NEW oneCloser
    PROVE  IsBracketed(text, oneCloser) <=> LocallyBracketed(text, 1, Len(text), oneCloser)
BY DEF IsBracketed, LocallyBracketed

(* What a block holds is a piece.                                          *)
LEMMA BlockIsPiece ==
    ASSUME NEW text, NEW oneCloser, IsBracketed(text, oneCloser), Len(text) \in Nat,
           NEW i \in 1 .. Len(text), text[i].op \in BlockStarts,
           NEW e \in i + 1 .. Len(text), EndsBracket(text, e, i, oneCloser)
    PROVE  LocallyBracketed(text, i + 1, e - 1, oneCloser)
<1>1. /\ IsDirectlyInside(text, e, i) /\ IsInside(text, e, i)
      /\ \A k \in i .. e - 1 : OpenBrackets(text, i, k) > 0
  BY DEF EndsBracket, IsDirectlyInside, IsInside
<1>2. i \in Int /\ e \in Int
  OBVIOUS
<1>3. ASSUME NEW p \in i + 1 .. e - 1, NEW j, IsDirectlyInside(text, p, j)
      PROVE  j \in i .. p - 1
  <2>1. p \in Int /\ i < p /\ p <= e
    BY <1>2
  <2>2. IsInside(text, p, i)
    BY <1>1, <1>2, <2>1, InsideBefore
  <2>3. i <= j
    BY <1>3, <2>1, <2>2, DirectlyIsLast
  <2>4. j \in 1 .. p - 1
    BY <1>3 DEF IsDirectlyInside, IsInside
  <2> QED
    BY <2>3, <2>4
<1>4. ASSUME NEW p \in i + 1 .. e - 1, text[p].op \in Brackets
      PROVE  \E q \in p + 1 .. e - 1 : EndsBracket(text, q, p, oneCloser)
  <2>1. p \in 1 .. Len(text) /\ p \in Int
    OBVIOUS
  <2>2. PICK q \in p + 1 .. Len(text) : EndsBracket(text, q, p, oneCloser)
    BY <1>4, <2>1 DEF IsBracketed
  <2>3. IsInside(text, q, p) /\ q \in Int
    BY <2>2 DEF EndsBracket, IsDirectlyInside
  <2>4. ASSUME q >= e PROVE FALSE
    <3>1. p < e /\ e <= q
      BY <2>4
    <3>2. IsInside(text, e, p)
      BY <1>2, <2>3, <3>1, InsideBefore
    <3>3. p <= i
      BY <1>1, <1>2, <3>2, DirectlyIsLast
    <3> QED
      BY <3>3
  <2>5. q \in p + 1 .. e - 1
    BY <2>3, <2>4
  <2> QED
    BY <2>2, <2>5
<1>5. ASSUME NEW p \in i + 1 .. e - 1, text[p].op \in Closers
      PROVE  \E j \in i + 1 .. p - 1 : EndsBracket(text, p, j, oneCloser)
  <2>1. p \in 1 .. Len(text) /\ p \in Int /\ i <= p /\ p \in i .. e - 1
    OBVIOUS
  <2>2. PICK j \in 1 .. p - 1 : EndsBracket(text, p, j, oneCloser)
    BY <1>5, <2>1 DEF IsBracketed
  <2>3. IsDirectlyInside(text, p, j) /\ OpenBrackets(text, j, p - 1) = 1
    BY <2>2 DEF EndsBracket, IsDirectlyInside
  <2>4. j \in i .. p - 1
    BY <1>3, <2>3
  <2>5. j # i
    <3> SUFFICES ASSUME j = i PROVE FALSE
      OBVIOUS
    <3>1. OpenBrackets(text, i, p) = OpenBrackets(text, i, p - 1) - 1
      BY <1>2, <1>5, <2>1, OpenBracketsStep
    <3>2. OpenBrackets(text, i, p) > 0
      BY <1>1, <2>1
    <3> QED
      BY <2>3, <3>1, <3>2
  <2>6. j \in i + 1 .. p - 1
    BY <2>4, <2>5
  <2> QED
    BY <2>2, <2>6
<1>6. ASSUME NEW p \in i + 1 .. e - 1, text[p].op \in Arms
      PROVE  \E j \in i + 1 .. p - 1 : IsDirectlyInside(text, p, j) /\ text[j].op \in Opening
  <2>1. p \in 1 .. Len(text)
    OBVIOUS
  <2>2. PICK j \in 1 .. p - 1 : IsDirectlyInside(text, p, j) /\ text[j].op \in Opening
    BY <1>6, <2>1 DEF IsBracketed
  <2>3. j \in i .. p - 1
    BY <1>3, <2>2
  <2>4. j # i
    BY <2>2, BracketSorts
  <2>5. j \in i + 1 .. p - 1
    BY <2>3, <2>4
  <2> QED
    BY <2>2, <2>5
<1> QED
  BY <1>4, <1>5, <1>6 DEF LocallyBracketed

(* So is its body, read on its own,                                        *)
LEMMA BodyIsBracketed ==
    ASSUME NEW S, NEW text \in Seq(S), NEW oneCloser, IsBracketed(text, oneCloser),
           NEW i \in 1 .. Len(text), text[i].op \in BlockStarts,
           NEW e \in i + 1 .. Len(text), EndsBracket(text, e, i, oneCloser)
    PROVE  IsBracketed(Body(text, i, e), oneCloser)
<1>1. PICK body : body = Body(text, i, e)
  OBVIOUS
<1>2. Len(body) = e - i - 1 /\ \A k \in 1 .. e - i - 1 : body[k] = text[k + i]
  BY <1>1, BodyShape
<1>3. Len(text) \in Nat /\ i \in Int /\ e \in Int
  OBVIOUS
<1>4. PICK d \in Int : d = -i
  BY <1>3
<1>5. PICK l \in Nat : l = e - i - 1 /\ Len(body) = l /\ 1 - d = i + 1 /\ l - d = e - 1
  BY <1>2, <1>3, <1>4
<1>6. SameOps(body, text, d, 1, l)
  BY <1>2, <1>3, <1>4, <1>5 DEF SameOps
<1>7. LocallyBracketed(text, 1 - d, l - d, oneCloser)
  BY <1>3, <1>5, BlockIsPiece
<1>8. LocallyBracketed(body, 1, l, oneCloser)
  BY <1>6, <1>7, LocallyFollowsOps
<1> QED
  BY <1>1, <1>5, <1>8, BracketedMeans

(* and are the copies of it a repeat reads.                                *)
LEMMA CopiesAreBracketed ==
    ASSUME NEW S, NEW body \in Seq(S), NEW n \in Nat, NEW oneCloser,
           IsBracketed(body, oneCloser)
    PROVE  IsBracketed(Copies(body, n), oneCloser)
<1>1. PICK l \in Nat : l = Len(body)
  OBVIOUS
<1>2. PICK text : text = Copies(body, n)
  OBVIOUS
<1>3. PICK c \in Nat : c = n * l
  OBVIOUS
<1>4. /\ Len(text) = c
      /\ \A r \in 0 .. n - 1 : SameOps(text, body, r * l, r * l + 1, r * l + l)
  BY <1>1, <1>2, <1>3, CopiesShape
<1>5. LocallyBracketed(body, 1, l, oneCloser)
  BY <1>1, BracketedMeans
<1>6. ASSUME NEW k \in 1 .. c
      PROVE  \E d \in Nat :
                /\ k \in d + 1 .. d + l /\ d + l <= c
                /\ LocallyBracketed(text, d + 1, d + l, oneCloser)
  <2>1. l # 0
    BY <1>3
  <2>2. l \in Nat \ {0} /\ k \in 1 .. n * l
    BY <1>3, <2>1
  <2>3. PICK r \in 0 .. n - 1 : k \in r * l + 1 .. r * l + l
    BY <2>2, InACopy
  <2>4. PICK d \in Nat : d = r * l
    OBVIOUS
  <2>5. SameOps(text, body, d, d + 1, d + l)
    BY <1>4, <2>4
  <2>6. d + l <= c
    BY <1>3, <2>4, FewerCopies
  <2>7. d \in Int /\ d + 1 \in Int /\ d + l \in Int /\ 1 <= d + 1
        /\ (d + 1) - d = 1 /\ (d + l) - d = l
    OBVIOUS
  <2>8. LocallyBracketed(text, d + 1, d + l, oneCloser)
    BY <1>5, <2>5, <2>7, LocallyFollowsOps
  <2>9. k \in d + 1 .. d + l
    BY <2>3, <2>4
  <2> QED
    BY <2>6, <2>8, <2>9
<1>7. ASSUME NEW k \in 1 .. c
      PROVE  /\ text[k].op \in Brackets =>
                  \E i \in k + 1 .. c : EndsBracket(text, i, k, oneCloser)
             /\ text[k].op \in Closers =>
                  \E j \in 1 .. k - 1 : EndsBracket(text, k, j, oneCloser)
             /\ text[k].op \in Arms =>
                  \E j \in 1 .. k - 1 : IsDirectlyInside(text, k, j) /\ text[j].op \in Opening
  <2>1. PICK d \in Nat :
            /\ k \in d + 1 .. d + l /\ d + l <= c
            /\ LocallyBracketed(text, d + 1, d + l, oneCloser)
    BY <1>6
  <2>2. /\ \A i \in k + 1 .. d + l : i \in k + 1 .. c
        /\ \A j \in d + 1 .. k - 1 : j \in 1 .. k - 1
    BY <2>1
  <2> QED
    BY <2>1, <2>2 DEF LocallyBracketed
<1>8. LocallyBracketed(text, 1, Len(text), oneCloser)
  BY <1>4, <1>7 DEF LocallyBracketed
<1> QED
  BY <1>2, <1>8, BracketedMeans

-----------------------------------------------------------------------------
(* What is open after a block was open before it, and the conditionals     *)
(* inside it are closed again.                                             *)
LEMMA InsideAfterBlock ==
    ASSUME NEW text, NEW oneCloser, IsBracketed(text, oneCloser), Len(text) \in Nat,
           NEW i \in 1 .. Len(text), text[i].op \in BlockStarts,
           NEW e \in i + 1 .. Len(text), EndsBracket(text, e, i, oneCloser),
           NEW j, IsInside(text, e + 1, j)
    PROVE  IsInside(text, i, j) /\ OpenFrom(text, j, e) = OpenFrom(text, j, i - 1)
<1>1. /\ IsDirectlyInside(text, e, i) /\ IsInside(text, e, i)
      /\ text[e].op = Closer(text[i].op, oneCloser) /\ OpenBrackets(text, i, e - 1) = 1
  BY DEF EndsBracket, IsDirectlyInside
<1>2. i \in Int /\ e \in Int /\ e \in Nat \ {0} /\ i <= e /\ e \in 1 .. Len(text) + 1
      /\ i \in 1 .. Len(text) + 1
  OBVIOUS
<1>3. text[e].op \in {"endm", "endr"} /\ text[i].op \notin Opening
  BY <1>1 DEF Closer, Opening, BlockStarts
<1>4. text[e].op \in Closers /\ text[e].op \notin Brackets /\ text[e].op \notin Opening \cup {"endif"}
  BY <1>3 DEF Closers, Brackets, Opening, BlockStarts
<1>5. IsInside(text, e, j)
  BY <1>2, <1>4, InsideNext
<1>6. OpenBrackets(text, j, e) > 0 /\ j \in Int
  BY <1>2, <1>4, <1>5, InsideNext DEF IsInside
<1>7. j <= i
  BY <1>1, <1>2, <1>5, DirectlyIsLast
<1>8. j # i
  BY <1>1, <1>2, <1>4, <1>6, OpenBracketsStep
<1>9. j < i
  BY <1>2, <1>6, <1>7, <1>8
<1>10. IsInside(text, i, j)
  BY <1>2, <1>5, <1>9, InsideBefore
<1>11. OpenFrom(text, i, e - 1) = 0
  BY <1>1, <1>2, <1>3, InsideConditionals
<1>12. OpenFrom(text, i, e) = 0
  BY <1>2, <1>4, <1>11, OpenIsCounted
<1>13. PICK m \in Int : m = i - 1 /\ m + 1 = i
  BY <1>2
<1>14. OpenFrom(text, j, e) = OpenFrom(text, j, m) + OpenFrom(text, m + 1, e)
  BY <1>2, <1>6, <1>9, <1>13, OpenSplits
<1>15. OpenFrom(text, j, m) \in Int
  BY <1>6, OpenIsCounted
<1> QED
  BY <1>10, <1>12, <1>13, <1>14, <1>15

-----------------------------------------------------------------------------
(* A walk over a bracketed text has a flag for each of its conditionals    *)
(* that are open, and passed over the blocks that are, because a flag      *)
(* before those of the conditionals inside them was down.                  *)

AllActive(vs, n) == \A c \in 1 .. n : vs[c].active

HasFlags(vs, text, at, lo, hi) ==
    /\ lo <= hi
    /\ \A j : IsInside(text, at, j) /\ text[j].op \in Opening =>
                lo + OpenFrom(text, j, at - 1) <= hi
    /\ \A j : IsInside(text, at, j) /\ text[j].op \in BlockStarts =>
                ~AllActive(vs, hi - OpenFrom(text, j, at - 1))

(* Flags that are the same count for the same.                             *)
LEMMA NotAllActiveStays ==
    ASSUME NEW vs, NEW ws, NEW n \in Int, NEW m \in Int, NEW k \in Int,
           ~AllActive(vs, n), Agree(vs, ws, m), n <= m, n <= k
    PROVE  ~AllActive(ws, k)
<1>1. PICK c \in 1 .. n : ~vs[c].active
  BY DEF AllActive
<1>2. c \in 1 .. m /\ c \in 1 .. k
  OBVIOUS
<1>3. ws[c] = vs[c]
  BY <1>2 DEF Agree
<1> QED
  BY <1>1, <1>2, <1>3 DEF AllActive

(* It begins with any.                                                     *)
LEMMA FlagsAtStart ==
    ASSUME NEW vs, NEW text, NEW lo \in Nat, NEW hi \in Nat, lo <= hi
    PROVE  HasFlags(vs, text, 1, lo, hi)
BY DEF IsInside, HasFlags

(* More flags do no harm.                                                  *)
LEMMA MoreFlags ==
    ASSUME NEW vs, NEW ws, NEW text, NEW oneCloser, IsBracketed(text, oneCloser),
           Len(text) \in Nat, NEW at \in 1 .. Len(text) + 1, NEW lo \in Nat,
           NEW hi \in Nat, HasFlags(vs, text, at, lo, hi), Agree(vs, ws, hi),
           NEW top \in Nat, hi <= top
    PROVE  HasFlags(ws, text, at, lo, top)
<1>1. lo <= top
  BY DEF HasFlags
<1>2. ASSUME NEW j, IsInside(text, at, j)
      PROVE  /\ OpenFrom(text, j, at - 1) \in Nat
             /\ text[j].op \in Opening => lo + OpenFrom(text, j, at - 1) <= top
             /\ text[j].op \in BlockStarts => ~AllActive(ws, top - OpenFrom(text, j, at - 1))
  <2>1. OpenFrom(text, j, at - 1) \in Nat
    BY <1>2, InsideConditionals
  <2>2. PICK n \in Nat : n = OpenFrom(text, j, at - 1)
    BY <2>1
  <2>3. text[j].op \in Opening => lo + n <= hi
    BY <1>2, <2>2 DEF HasFlags
  <2>4. text[j].op \in BlockStarts => ~AllActive(vs, hi - n)
    BY <1>2, <2>2 DEF HasFlags
  <2>5. hi - n \in Int /\ hi \in Int /\ top - n \in Int /\ hi - n <= hi /\ hi - n <= top - n
    OBVIOUS
  <2>6. text[j].op \in BlockStarts => ~AllActive(ws, top - n)
    BY <2>4, <2>5, NotAllActiveStays
  <2> QED
    BY <2>2, <2>3, <2>6
<1> QED
  BY <1>1, <1>2 DEF HasFlags

(* A block that is captured needs none.                                    *)
LEMMA FlagsAfterBlock ==
    ASSUME NEW vs, NEW text, NEW oneCloser, IsBracketed(text, oneCloser), Len(text) \in Nat,
           NEW i \in 1 .. Len(text), text[i].op \in BlockStarts,
           NEW e \in i + 1 .. Len(text), EndsBracket(text, e, i, oneCloser),
           NEW lo, NEW hi, HasFlags(vs, text, i, lo, hi)
    PROVE  HasFlags(vs, text, e + 1, lo, hi)
<1>1. (e + 1) - 1 = e
  OBVIOUS
<1>2. ASSUME NEW j, IsInside(text, e + 1, j)
      PROVE  IsInside(text, i, j) /\ OpenFrom(text, j, (e + 1) - 1) = OpenFrom(text, j, i - 1)
  BY <1>1, <1>2, InsideAfterBlock
<1> QED
  BY <1>2 DEF HasFlags

(* Where an arm or an .endif stands there is a flag for it,                *)
LEMMA FlagsOfArms ==
    ASSUME NEW vs, NEW text, NEW oneCloser, IsBracketed(text, oneCloser), Len(text) \in Nat,
           NEW at \in 1 .. Len(text), NEW lo \in Nat, NEW hi \in Nat,
           HasFlags(vs, text, at, lo, hi), text[at].op \in Arms \cup {"endif"}
    PROVE  /\ lo + 1 <= hi
           /\ \E c : IsDirectlyInside(text, at, c) /\ text[c].op \in Opening
<1>1. \E c : IsDirectlyInside(text, at, c) /\ text[c].op \in Opening
  <2>1. CASE text[at].op \in Arms
    BY <2>1 DEF IsBracketed
  <2>2. CASE text[at].op = "endif"
    <3>1. PICK c \in 1 .. at - 1 : EndsBracket(text, at, c, oneCloser)
      BY <2>2 DEF IsBracketed, Closers
    <3>2. IsDirectlyInside(text, at, c) /\ text[at].op = Closer(text[c].op, oneCloser)
      BY <3>1 DEF EndsBracket
    <3>3. text[c].op \in Opening
      BY <2>2, <3>2 DEF Closer
    <3> QED
      BY <3>2, <3>3
  <2> QED
    BY <2>1, <2>2
<1>2. PICK c : IsDirectlyInside(text, at, c) /\ text[c].op \in Opening
  BY <1>1
<1>3. IsInside(text, at, c) /\ at \in 1 .. Len(text) + 1
  BY <1>2 DEF IsDirectlyInside
<1>4. OpenFrom(text, c, at - 1) = 1
  BY <1>2, <1>3, InsideConditionals
<1>5. lo + 1 <= hi
  BY <1>2, <1>3, <1>4 DEF HasFlags
<1> QED
  BY <1>1, <1>5

(* and the end of a block that was passed over is passed over.             *)
LEMMA FlagsOfBlockEnds ==
    ASSUME NEW vs, NEW text, NEW oneCloser, IsBracketed(text, oneCloser), Len(text) \in Nat,
           NEW at \in 1 .. Len(text), NEW lo \in Nat, NEW hi \in Nat,
           HasFlags(vs, text, at, lo, hi), text[at].op \in {"endm", "endr"}
    PROVE  ~AllActive(vs, hi)
<1>1. PICK c \in 1 .. at - 1 : EndsBracket(text, at, c, oneCloser)
  BY DEF IsBracketed, Closers
<1>2. /\ IsDirectlyInside(text, at, c) /\ text[at].op = Closer(text[c].op, oneCloser)
      /\ IsInside(text, at, c) /\ text[c].op \in Brackets /\ at \in 1 .. Len(text) + 1
  BY <1>1 DEF EndsBracket, IsDirectlyInside, IsInside
<1>3. text[c].op \notin Opening
  BY <1>2 DEF Closer
<1>4. text[c].op \in BlockStarts
  BY <1>2, <1>3, BracketSorts
<1>5. OpenFrom(text, c, at - 1) = 0
  BY <1>2, <1>3, InsideConditionals
<1>6. ~AllActive(vs, hi - OpenFrom(text, c, at - 1))
  BY <1>2, <1>4 DEF HasFlags
<1>7. hi - 0 = hi
  OBVIOUS
<1> QED
  BY <1>5, <1>6, <1>7

(* What a walk does at a statement gives it the flags it has to have at    *)
(* the next.                                                               *)
LEMMA FlagsNext ==
    ASSUME NEW vs, NEW ws, NEW text, NEW oneCloser, IsBracketed(text, oneCloser),
           Len(text) \in Nat, NEW at \in 1 .. Len(text), NEW lo \in Nat, NEW hi \in Nat,
           HasFlags(vs, text, at, lo, hi), NEW top \in Nat,
           text[at].op \in Opening => top = hi + 1 /\ Agree(vs, ws, hi),
           text[at].op = "endif" => top = hi - 1 /\ Agree(vs, ws, hi - 1),
           text[at].op \in Arms => top = hi /\ Agree(vs, ws, hi - 1),
           Quiet(text[at].op) => top = hi /\ Agree(vs, ws, hi),
           text[at].op \in BlockStarts => ~AllActive(vs, hi)
    PROVE  HasFlags(ws, text, at + 1, lo, top)
<1>1. /\ at \in Nat \ {0} /\ (at + 1) - 1 = at /\ at \in Int /\ at - 1 \in Int
      /\ (at - 1) + 1 = at /\ at \in 1 .. Len(text) + 1
  OBVIOUS
<1>2. lo <= hi /\ (text[at].op \in Arms \cup {"endif"} => lo + 1 <= hi)
  BY FlagsOfArms DEF HasFlags
<1>3. lo <= top
  BY <1>2 DEF Quiet
<1>4. ASSUME NEW j, IsInside(text, at, j)
      PROVE  /\ OpenFrom(text, j, at - 1) \in Nat /\ j \in Int
             /\ OpenFrom(text, j, at) \in Int
             /\ text[at].op \in Opening => OpenFrom(text, j, at) = OpenFrom(text, j, at - 1) + 1
             /\ text[at].op = "endif" => OpenFrom(text, j, at) = OpenFrom(text, j, at - 1) - 1
             /\ text[at].op \notin Opening \cup {"endif"} =>
                  OpenFrom(text, j, at) = OpenFrom(text, j, at - 1)
  <2>1. OpenFrom(text, j, at - 1) \in Nat
    BY <1>1, <1>4, InsideConditionals
  <2>2. j \in Int /\ j <= (at - 1) + 1
    BY <1>4 DEF IsInside
  <2>3. /\ text[(at - 1) + 1].op \in Opening =>
             OpenFrom(text, j, (at - 1) + 1) = OpenFrom(text, j, at - 1) + 1
        /\ text[(at - 1) + 1].op = "endif" =>
             OpenFrom(text, j, (at - 1) + 1) = OpenFrom(text, j, at - 1) - 1
        /\ text[(at - 1) + 1].op \notin Opening \cup {"endif"} =>
             OpenFrom(text, j, (at - 1) + 1) = OpenFrom(text, j, at - 1)
    BY <1>1, <2>2, OpenIsCounted
  <2>4. OpenFrom(text, j, at) \in Int
    BY <1>1, <2>2, OpenIsCounted
  <2> QED
    BY <1>1, <2>1, <2>2, <2>3, <2>4
<1>5. /\ text[at].op \in Opening => OpenFrom(text, at, at) = 1
      /\ text[at].op \in BlockStarts => OpenFrom(text, at, at) = 0
  <2>1. OpenFrom(text, at, at - 1) = 0
    BY <1>1, OpenIsCounted
  <2>2. /\ text[(at - 1) + 1].op \in Opening =>
             OpenFrom(text, at, (at - 1) + 1) = OpenFrom(text, at, at - 1) + 1
        /\ text[(at - 1) + 1].op \notin Opening \cup {"endif"} =>
             OpenFrom(text, at, (at - 1) + 1) = OpenFrom(text, at, at - 1)
    BY <1>1, OpenIsCounted
  <2>3. text[at].op \in BlockStarts => text[at].op \notin Opening \cup {"endif"}
    BY DEF BlockStarts, Opening
  <2> QED
    BY <1>1, <2>1, <2>2, <2>3
<1>6. ASSUME NEW j, IsInside(text, at + 1, j), text[j].op \in Opening
      PROVE  lo + OpenFrom(text, j, (at + 1) - 1) <= top
  <2>1. CASE j = at
    BY <1>1, <1>2, <1>5, <1>6, <2>1
  <2>2. CASE j # at
    <3>1. IsInside(text, at, j)
      BY <1>1, <1>6, <2>2, InsideNext
    <3>2. lo + OpenFrom(text, j, at - 1) <= hi
      BY <1>6, <3>1 DEF HasFlags
    <3>3. PICK n \in Nat, m \in Int : n = OpenFrom(text, j, at - 1) /\ m = OpenFrom(text, j, at)
      BY <1>4, <3>1
    <3>4. /\ text[at].op \in Opening => m = n + 1
          /\ text[at].op = "endif" => m = n - 1
          /\ text[at].op \notin Opening \cup {"endif"} => m = n
      BY <1>4, <3>1, <3>3
    <3>5. lo + m <= top
      <4>1. CASE text[at].op \in Opening
        BY <3>2, <3>3, <3>4, <4>1
      <4>2. CASE text[at].op = "endif"
        BY <3>2, <3>3, <3>4, <4>2
      <4>3. CASE text[at].op \notin Opening \cup {"endif"}
        BY <3>2, <3>3, <3>4, <4>3 DEF Quiet
      <4> QED
        BY <4>1, <4>2, <4>3
    <3> QED
      BY <1>1, <3>3, <3>5
  <2> QED
    BY <2>1, <2>2
<1>7. ASSUME NEW j, IsInside(text, at + 1, j), text[j].op \in BlockStarts
      PROVE  ~AllActive(ws, top - OpenFrom(text, j, (at + 1) - 1))
  <2>1. CASE j = at
    <3>1. Quiet(text[at].op)
      BY <1>7, <2>1 DEF Quiet, BlockStarts, Opening, Arms
    <3>2. ~AllActive(vs, hi) /\ top = hi /\ Agree(vs, ws, hi) /\ OpenFrom(text, at, at) = 0
      BY <1>5, <1>7, <2>1, <3>1
    <3>3. hi \in Int /\ hi <= hi /\ hi - 0 = hi
      OBVIOUS
    <3>4. ~AllActive(ws, hi)
      BY <3>2, <3>3, NotAllActiveStays
    <3> QED
      BY <1>1, <2>1, <3>2, <3>3, <3>4
  <2>2. CASE j # at
    <3>1. IsInside(text, at, j)
      BY <1>1, <1>7, <2>2, InsideNext
    <3>2. PICK n \in Nat, m \in Int : n = OpenFrom(text, j, at - 1) /\ m = OpenFrom(text, j, at)
      BY <1>4, <3>1
    <3>3. /\ text[at].op \in Opening => m = n + 1
          /\ text[at].op = "endif" => m = n - 1
          /\ text[at].op \notin Opening \cup {"endif"} => m = n
      BY <1>4, <3>1, <3>2
    <3>4. ~AllActive(vs, hi - n)
      BY <1>7, <3>1, <3>2 DEF HasFlags
    <3>5. text[at].op \in Arms \cup {"endif"} => n >= 1
      <4> SUFFICES ASSUME text[at].op \in Arms \cup {"endif"} PROVE n >= 1
        OBVIOUS
      <4>1. PICK c : IsDirectlyInside(text, at, c) /\ text[c].op \in Opening
        BY FlagsOfArms
      <4>2. IsInside(text, at, c) /\ c \in 1 .. at - 1
        BY <4>1 DEF IsDirectlyInside, IsInside
      <4>3. j <= c /\ j \in Int
        BY <1>1, <1>4, <3>1, <4>1, DirectlyIsLast
      <4>4. j # c
        BY <1>7, <4>1, BracketSorts
      <4>5. j < c /\ c \in Int /\ c <= at /\ c \in 1 .. Len(text) + 1
        BY <4>2, <4>3, <4>4
      <4>6. IsInside(text, c, j)
        BY <1>1, <3>1, <4>5, InsideBefore
      <4>7. OpenFrom(text, j, c - 1) \in Nat
        BY <4>5, <4>6, InsideConditionals
      <4>8. OpenFrom(text, c, at - 1) = 1
        BY <1>1, <4>1, <4>2, InsideConditionals
      <4>9. PICK b \in Int : b = c - 1 /\ b + 1 = c
        BY <4>5
      <4>10. OpenFrom(text, j, at - 1) = OpenFrom(text, j, b) + OpenFrom(text, b + 1, at - 1)
        <5>1. j <= b + 1 /\ b <= at - 1
          BY <1>1, <4>2, <4>3, <4>5, <4>9
        <5> QED
          BY <1>1, <4>3, <5>1, OpenSplits
      <4>11. PICK a \in Nat : a = OpenFrom(text, j, c - 1)
        BY <4>7
      <4>12. n = a + 1
        BY <3>2, <4>8, <4>9, <4>10, <4>11
      <4> QED
        BY <4>12
    <3>6. ~AllActive(ws, top - m)
      <4>1. CASE text[at].op \in Opening
        BY <3>3, <3>4, <4>1, NotAllActiveStays
      <4>2. CASE text[at].op = "endif"
        BY <3>3, <3>4, <3>5, <4>2, NotAllActiveStays
      <4>3. CASE text[at].op \in Arms
        BY <3>3, <3>4, <3>5, <4>3, NotAllActiveStays DEF Arms, Opening
      <4>4. CASE Quiet(text[at].op)
        BY <3>3, <3>4, <4>4, NotAllActiveStays DEF Quiet
      <4> QED
        BY <4>1, <4>2, <4>3, <4>4 DEF Quiet
    <3> QED
      BY <1>1, <3>2, <3>6
  <2> QED
    BY <2>1, <2>2
<1> QED
  BY <1>3, <1>6, <1>7 DEF HasFlags
-----------------------------------------------------------------------------
(* The same of a stack of texts: all but the last wait, each to go on at   *)
(* the statement after the one it is at.                                   *)

Resumes(vs, f, hi) ==
    f.at \in 1 .. Len(f.text) /\ HasFlags(vs, f.text, f.at + 1, f.conds, hi)

Continues(vs, f, hi) ==
    ~f.stopped => f.at \in 1 .. Len(f.text) + 1 /\ HasFlags(vs, f.text, f.at, f.conds, hi)

StackHasFlags(vs, h, st, oneCloser) ==
    /\ \A d \in 1 .. Len(st) :
          /\ IsBracketed(st[d].text, oneCloser) /\ Len(st[d].text) \in Nat
          /\ st[d].conds \in 0 .. h
    /\ \A d, e \in 1 .. Len(st) : d <= e => st[d].conds <= st[e].conds
    /\ Len(st) # 0 => Continues(vs, st[Len(st)], h)
    /\ \A d \in 1 .. Len(st) - 1 : Resumes(vs, st[d], st[d + 1].conds)

(* A text that waits does so whatever happens to the flags after its own,  *)
LEMMA ResumesOn ==
    ASSUME NEW vs, NEW ws, NEW f, NEW hi \in Nat, Resumes(vs, f, hi), Agree(vs, ws, hi),
           NEW oneCloser, IsBracketed(f.text, oneCloser), Len(f.text) \in Nat,
           f.conds \in Nat
    PROVE  Resumes(ws, f, hi)
BY MoreFlags DEF Resumes

(* and goes on with as many as there are.                                  *)
LEMMA ContinuesAfterWaiting ==
    ASSUME NEW vs, NEW ws, NEW f, NEW hi \in Nat, Resumes(vs, f, hi), Agree(vs, ws, hi),
           NEW oneCloser, IsBracketed(f.text, oneCloser), Len(f.text) \in Nat,
           f.conds \in Nat, NEW g, SameText(f, g), g.at = f.at + 1,
           NEW top \in Nat, hi <= top
    PROVE  Continues(ws, g, top)
<1>1. f.at \in 1 .. Len(f.text) /\ HasFlags(vs, f.text, f.at + 1, f.conds, hi)
  BY DEF Resumes
<1>2. f.at + 1 \in 1 .. Len(f.text) + 1
  BY <1>1
<1>3. HasFlags(ws, f.text, f.at + 1, f.conds, top)
  BY <1>1, <1>2, MoreFlags
<1>4. g.text = f.text /\ g.conds = f.conds
  BY DEF SameText
<1>5. g.at \in 1 .. Len(g.text) + 1 /\ HasFlags(ws, g.text, g.at, g.conds, top)
  BY <1>2, <1>3, <1>4
<1> QED
  BY <1>5 DEF Continues

(* The last text goes on with the flags it has to have.                    *)
LEMMA FlagsAdvance ==
    ASSUME NEW vs, NEW ws, NEW h \in Nat, NEW k \in Nat, NEW st, NEW su, NEW oneCloser,
           StackHasFlags(vs, h, st, oneCloser), Len(st) \in Nat \ {0}, Len(su) = Len(st),
           \A d \in 1 .. Len(st) - 1 : su[d] = st[d],
           SameText(st[Len(st)], su[Len(st)]),
           Agree(vs, ws, st[Len(st)].conds), st[Len(st)].conds <= k,
           Continues(ws, su[Len(st)], k)
    PROVE  StackHasFlags(ws, k, su, oneCloser)
<1>1. PICK n \in Nat : n = Len(st) /\ n # 0
  OBVIOUS
<1>2. /\ \A d \in 1 .. n :
            /\ IsBracketed(st[d].text, oneCloser) /\ Len(st[d].text) \in Nat
            /\ st[d].conds \in 0 .. h
      /\ \A d, e \in 1 .. n : d <= e => st[d].conds <= st[e].conds
      /\ \A d \in 1 .. n - 1 : Resumes(vs, st[d], st[d + 1].conds)
  BY <1>1 DEF StackHasFlags
<1>3. ASSUME NEW d \in 1 .. n PROVE su[d].text = st[d].text /\ su[d].conds = st[d].conds
  <2>1. CASE d = n
    BY <1>1, <2>1 DEF SameText
  <2>2. CASE d # n
    BY <1>1, <2>2
  <2> QED
    BY <2>1, <2>2
<1>4. ASSUME NEW d \in 1 .. n PROVE st[d].conds \in 0 .. st[n].conds
  BY <1>1, <1>2
<1>5. ASSUME NEW d \in 1 .. n
      PROVE  /\ IsBracketed(su[d].text, oneCloser) /\ Len(su[d].text) \in Nat
             /\ su[d].conds \in 0 .. k
  BY <1>1, <1>2, <1>3, <1>4
<1>6. \A d, e \in 1 .. n : d <= e => su[d].conds <= su[e].conds
  BY <1>2, <1>3
<1>7. ASSUME NEW d \in 1 .. n - 1 PROVE Resumes(ws, su[d], su[d + 1].conds)
  <2>1. d \in 1 .. n /\ d + 1 \in 1 .. n
    OBVIOUS
  <2>2. Resumes(vs, st[d], st[d + 1].conds)
    BY <1>2
  <2>3. st[d + 1].conds \in 0 .. st[n].conds /\ st[n].conds \in 0 .. h
    BY <1>1, <1>2, <1>4, <2>1
  <2>4. /\ st[d + 1].conds \in Int /\ st[n].conds \in Int /\ st[d + 1].conds \in Nat
        /\ st[d + 1].conds <= st[n].conds
    BY <2>3
  <2>5. Agree(vs, ws, st[d + 1].conds)
    BY <1>1, <2>4, AgreeWithin
  <2>6. /\ IsBracketed(st[d].text, oneCloser) /\ Len(st[d].text) \in Nat
        /\ st[d].conds \in Nat
    BY <1>2, <2>1
  <2>7. Resumes(ws, st[d], st[d + 1].conds)
    BY <2>2, <2>4, <2>5, <2>6, ResumesOn
  <2>8. su[d] = st[d] /\ su[d + 1].conds = st[d + 1].conds
    BY <1>1, <1>3, <2>1
  <2> QED
    BY <2>7, <2>8
<1>9. Len(su) = n /\ Continues(ws, su[n], k)
  BY <1>1
<1> QED
  BY <1>1, <1>5, <1>6, <1>7, <1>9 DEF StackHasFlags

(* A bracketed text is begun, and the last one waits for it.               *)
LEMMA FlagsGrow ==
    ASSUME NEW vs, NEW h \in Nat, NEW st, NEW su, NEW oneCloser,
           StackHasFlags(vs, h, st, oneCloser), Len(st) \in Nat \ {0},
           Len(su) = Len(st) + 1, \A d \in 1 .. Len(st) - 1 : su[d] = st[d],
           SameText(st[Len(st)], su[Len(st)]), Resumes(vs, su[Len(st)], h),
           IsBracketed(su[Len(st) + 1].text, oneCloser),
           Len(su[Len(st) + 1].text) \in Nat,
           su[Len(st) + 1].at = 1, su[Len(st) + 1].conds = h
    PROVE  StackHasFlags(vs, h, su, oneCloser)
<1>1. PICK n \in Nat : n = Len(st) /\ n # 0
  OBVIOUS
<1>2. /\ \A d \in 1 .. n :
            /\ IsBracketed(st[d].text, oneCloser) /\ Len(st[d].text) \in Nat
            /\ st[d].conds \in 0 .. h
      /\ \A d, e \in 1 .. n : d <= e => st[d].conds <= st[e].conds
      /\ \A d \in 1 .. n - 1 : Resumes(vs, st[d], st[d + 1].conds)
  BY <1>1 DEF StackHasFlags
<1>3. ASSUME NEW d \in 1 .. n PROVE su[d].text = st[d].text /\ su[d].conds = st[d].conds
  <2>1. CASE d = n
    BY <1>1, <2>1 DEF SameText
  <2>2. CASE d # n
    BY <1>1, <2>2
  <2> QED
    BY <2>1, <2>2
<1>4. /\ IsBracketed(su[n + 1].text, oneCloser) /\ Len(su[n + 1].text) \in Nat
      /\ su[n + 1].at = 1 /\ su[n + 1].conds = h /\ Len(su) = n + 1
      /\ Resumes(vs, su[n], h)
  BY <1>1
<1>5. ASSUME NEW d \in 1 .. n + 1
      PROVE  /\ IsBracketed(su[d].text, oneCloser) /\ Len(su[d].text) \in Nat
             /\ su[d].conds \in 0 .. h
  <2>1. CASE d = n + 1
    BY <1>4, <2>1
  <2>2. CASE d # n + 1
    <3>1. d \in 1 .. n
      BY <2>2
    <3> QED
      BY <1>2, <1>3, <3>1
  <2> QED
    BY <2>1, <2>2
<1>6. ASSUME NEW d \in 1 .. n + 1, NEW e \in 1 .. n + 1, d <= e
      PROVE  su[d].conds <= su[e].conds
  <2>1. CASE e = n + 1
    BY <1>4, <1>5, <2>1
  <2>2. CASE e # n + 1
    BY <1>2, <1>3, <1>6, <2>2
  <2> QED
    BY <2>1, <2>2
<1>7. ASSUME NEW d \in 1 .. n PROVE Resumes(vs, su[d], su[d + 1].conds)
  <2>1. CASE d = n
    BY <1>4, <2>1
  <2>2. CASE d # n
    BY <1>1, <1>2, <1>3, <2>2
  <2> QED
    BY <2>1, <2>2
<1>9. Continues(vs, su[n + 1], h)
  BY <1>4, FlagsAtStart DEF Continues
<1>10. (n + 1) - 1 = n /\ n + 1 # 0
  OBVIOUS
<1>11. \A d \in 1 .. (n + 1) - 1 : Resumes(vs, su[d], su[d + 1].conds)
  BY <1>7, <1>10
<1> QED
  BY <1>4, <1>5, <1>6, <1>9, <1>10, <1>11 DEF StackHasFlags

(* The last text is over: the flags are cut back, at most to those it      *)
(* began with, and the text before it goes on.                             *)
LEMMA FlagsReturn ==
    ASSUME NEW vs, NEW ws, NEW h \in Nat, NEW k \in Nat, NEW st, NEW su, NEW oneCloser,
           StackHasFlags(vs, h, st, oneCloser), Len(su) \in Nat, Len(st) = Len(su) + 1,
           \A d \in 1 .. Len(su) - 1 : su[d] = st[d],
           Len(su) # 0 =>
              SameText(st[Len(su)], su[Len(su)]) /\ su[Len(su)].at = st[Len(su)].at + 1,
           Agree(vs, ws, st[Len(st)].conds), st[Len(st)].conds <= k
    PROVE  StackHasFlags(ws, k, su, oneCloser)
<1>1. PICK n \in Nat : n = Len(su) /\ Len(st) = n + 1
  OBVIOUS
<1>a. (n + 1) - 1 = n /\ n + 1 # 0
  OBVIOUS
<1>2. /\ \A d \in 1 .. n + 1 :
            /\ IsBracketed(st[d].text, oneCloser) /\ Len(st[d].text) \in Nat
            /\ st[d].conds \in 0 .. h
      /\ \A d, e \in 1 .. n + 1 : d <= e => st[d].conds <= st[e].conds
  BY <1>1, <1>a DEF StackHasFlags
<1>b. \A d \in 1 .. n : Resumes(vs, st[d], st[d + 1].conds)
  BY <1>1, <1>a DEF StackHasFlags
<1>3. ASSUME NEW d \in 1 .. n PROVE su[d].text = st[d].text /\ su[d].conds = st[d].conds
  <2>1. CASE d = n
    BY <1>1, <2>1 DEF SameText
  <2>2. CASE d # n
    BY <1>1, <2>2
  <2> QED
    BY <2>1, <2>2
<1>4. ASSUME NEW d \in 1 .. n + 1 PROVE st[d].conds \in 0 .. st[n + 1].conds
  BY <1>2
<1>5. st[n + 1].conds <= k /\ st[n + 1].conds \in Nat /\ Agree(vs, ws, st[n + 1].conds)
  BY <1>1, <1>2
<1>6. ASSUME NEW d \in 1 .. n
      PROVE  /\ IsBracketed(su[d].text, oneCloser) /\ Len(su[d].text) \in Nat
             /\ su[d].conds \in 0 .. k
  <2>1. d \in 1 .. n + 1
    OBVIOUS
  <2>2. IsBracketed(su[d].text, oneCloser) /\ Len(su[d].text) \in Nat
    BY <1>2, <1>3, <2>1
  <2>3. st[d].conds \in 0 .. st[n + 1].conds
    BY <1>4, <2>1
  <2>4. su[d].conds \in 0 .. k
    BY <1>3, <1>5, <2>3
  <2> QED
    BY <2>2, <2>4
<1>7. ASSUME NEW d \in 1 .. n, NEW e \in 1 .. n, d <= e
      PROVE  su[d].conds <= su[e].conds
  BY <1>2, <1>3, <1>7
<1>8. ASSUME NEW d \in 1 .. n
      PROVE  /\ IsBracketed(st[d].text, oneCloser) /\ Len(st[d].text) \in Nat
             /\ st[d].conds \in Nat /\ Resumes(vs, st[d], st[d + 1].conds)
             /\ Agree(vs, ws, st[d + 1].conds)
             /\ st[d + 1].conds \in Nat
  <2>1. d \in 1 .. n + 1 /\ d + 1 \in 1 .. n + 1
    OBVIOUS
  <2>2. st[d + 1].conds \in 0 .. st[n + 1].conds
    BY <1>4, <2>1
  <2>3. st[d + 1].conds \in Int /\ st[n + 1].conds \in Int /\ st[d + 1].conds \in Nat
        /\ st[d + 1].conds <= st[n + 1].conds
    BY <1>5, <2>2
  <2>4. Agree(vs, ws, st[d + 1].conds)
    BY <1>5, <2>3, AgreeWithin
  <2>5. Resumes(vs, st[d], st[d + 1].conds)
    BY <1>b
  <2>6. /\ IsBracketed(st[d].text, oneCloser) /\ Len(st[d].text) \in Nat
        /\ st[d].conds \in Nat
    BY <1>2, <2>1
  <2> QED
    BY <2>3, <2>4, <2>5, <2>6
<1>9. ASSUME NEW d \in 1 .. n - 1 PROVE Resumes(ws, su[d], su[d + 1].conds)
  <2>1. d \in 1 .. n /\ d + 1 \in 1 .. n
    OBVIOUS
  <2>2. /\ IsBracketed(st[d].text, oneCloser) /\ Len(st[d].text) \in Nat
        /\ st[d].conds \in Nat /\ Resumes(vs, st[d], st[d + 1].conds)
        /\ Agree(vs, ws, st[d + 1].conds) /\ st[d + 1].conds \in Nat
    BY <1>8, <2>1
  <2>3. Resumes(ws, st[d], st[d + 1].conds)
    BY <2>2, ResumesOn
  <2>4. su[d] = st[d] /\ su[d + 1].conds = st[d + 1].conds
    BY <1>1, <1>3, <2>1
  <2> QED
    BY <2>3, <2>4
<1>10. ASSUME n # 0 PROVE Continues(ws, su[n], k)
  <2>1. n \in 1 .. n
    BY <1>10
  <2>2. /\ IsBracketed(st[n].text, oneCloser) /\ Len(st[n].text) \in Nat
        /\ st[n].conds \in Nat /\ Resumes(vs, st[n], st[n + 1].conds)
        /\ Agree(vs, ws, st[n + 1].conds)
    BY <1>8, <2>1
  <2>3. SameText(st[n], su[n]) /\ su[n].at = st[n].at + 1
    BY <1>1, <1>10
  <2> QED
    BY <1>5, <2>2, <2>3, ContinuesAfterWaiting
<1> QED
  BY <1>1, <1>6, <1>7, <1>9, <1>10 DEF StackHasFlags

(* A first text begins with the flags there are.                           *)
LEMMA FlagsStart ==
    ASSUME NEW vs, NEW h \in Nat, NEW st, NEW oneCloser, Len(st) = 1, st[1].at = 1,
           st[1].conds = h, IsBracketed(st[1].text, oneCloser), Len(st[1].text) \in Nat
    PROVE  StackHasFlags(vs, h, st, oneCloser)
<1>1. HasFlags(vs, st[1].text, 1, h, h)
  BY FlagsAtStart
<1>2. Continues(vs, st[Len(st)], h)
  BY <1>1 DEF Continues
<1>3. \A d \in 1 .. Len(st) : d = 1
  OBVIOUS
<1>4. \A d \in 1 .. Len(st) - 1 : FALSE
  OBVIOUS
<1>5. \A d \in 1 .. Len(st) :
         /\ IsBracketed(st[d].text, oneCloser) /\ Len(st[d].text) \in Nat
         /\ st[d].conds \in 0 .. h
  BY <1>3
<1>6. \A d, e \in 1 .. Len(st) : d <= e => st[d].conds <= st[e].conds
  BY <1>3
<1> QED
  BY <1>2, <1>4, <1>5, <1>6 DEF StackHasFlags
=============================================================================
