--------------------------- MODULE LineRowsProofs ---------------------------
(***************************************************************************)
(* Whatever the source holds, the rows of a section are in one sequence,   *)
(* in the order of what they are at.  The reason is that code only grows:  *)
(* where a row would come next there is none yet, except at the start of   *)
(* that very fragment.  The instructions of RX put a row before their end, *)
(* which stays in order because no linker moves what they are in.  And the *)
(* rows made for the source itself, which -g has until a numbered .file,   *)
(* are dropped all together or kept where they are.                        *)
(*                                                                         *)
(* And the table says so.  The writer and a consumer are two machines over *)
(* the same opcodes; what the writer keeps of the last row is what the     *)
(* consumer's registers hold, up to the address, which for the consumer is *)
(* that of the linked code.  The two differ only by what the linker takes  *)
(* from fragments that move, and across such a fragment the writer leaves  *)
(* the distance to the linker.                                             *)
(***************************************************************************)
EXTENDS LineRowsProperties, SequenceTheorems, FiniteSetTheorems,
        WellFoundedInduction, TLAPS

CodeType == [frags : Seq(FragType), open : BOOLEAN]
PathType == {NoPath, "main", "other"}
RowType == [section : Sections, frag : Nat, loc : LocType, back : OptNat, path : PathType]
AtType == PathType \X Nat
LineType ==
    [current : LocType, pending : BOOLEAN, sequences : Seq(Seq(RowType)),
     index : [Sections -> Nat], markLabels : BOOLEAN, files : SUBSET Nat,
     on : BOOLEAN, last : AtType, described : SUBSET Sections]

TypeOK ==
    /\ source \in SourceType
    /\ code \in [Sections -> CodeType]
    /\ cur \in Sections
    /\ line \in LineType
    /\ \A j \in 1 .. Len(log) : log[j].at \in AtType
    /\ \E E : log \in Seq(E)

(* A row is in a fragment there is or the next one, and one before the end *)
(* of its fragment in one there is.                                        *)
Fits(row, c) ==
    LET frags == c[row.section].frags
    IN  /\ row.frag \in 1 .. Len(frags) + 1
        /\ row.back # Absent =>
              /\ row.frag <= Len(frags)
              /\ row.back <= frags[row.frag].size /\ ~frags[row.frag].moves

Follows(first, second) ==
    \/ first.frag < second.frag
    \/ first.frag = second.frag /\ first.back \in {Absent, second.back}

(* A section has one sequence, which is the one its index says.            *)
IndexIsRight(l) ==
    /\ \A i \in 1 .. Len(l.sequences) :
          /\ Len(l.sequences[i]) > 0
          /\ l.index[l.sequences[i][1].section] = i
          /\ \A a \in 1 .. Len(l.sequences[i]) :
                l.sequences[i][a].section = l.sequences[i][1].section
    /\ \A s \in Sections : l.index[s] # 0 =>
          l.index[s] \in 1 .. Len(l.sequences) /\ l.sequences[l.index[s]][1].section = s

RowsFit(l, c) ==
    \A i \in 1 .. Len(l.sequences) : \A a \in 1 .. Len(l.sequences[i]) :
        /\ Fits(l.sequences[i][a], c)
        /\ \A b \in a + 1 .. Len(l.sequences[i]) : Follows(l.sequences[i][a], l.sequences[i][b])

(* Rows are made for the source itself only until it brings its own.       *)
IsGenerating(l) ==
    l.on => /\ ~l.pending /\ l.files = {}
            /\ \A i \in 1 .. Len(l.sequences) : \A a \in 1 .. Len(l.sequences[i]) :
                  l.sequences[i][a].path # NoPath

Kept(l, c) == l \in LineType /\ IndexIsRight(l) /\ RowsFit(l, c)

(* Rows of fragment "frag" of a section would be the last of that section. *)
AreLast(l, s, frag, back) ==
    \A i \in 1 .. Len(l.sequences) : \A a \in 1 .. Len(l.sequences[i]) :
        l.sequences[i][a].section = s =>
            Follows(l.sequences[i][a], [frag |-> frag, back |-> back])

OpenHasData == \A s \in Sections : code[s].open => Len(code[s].frags) > 0

(* Where a row would come, there is none yet that is not at the start of   *)
(* its fragment.                                                           *)
NextsAreLast(l, c) ==
    \A s \in Sections : \A back \in OptNat : AreLast(l, s, Len(c[s].frags) + 1, back)

(* As long as they are made, an instruction has a path.                    *)
InsnsHavePaths ==
    line.on => \A j \in 1 .. Len(log) : log[j].is = "insn" => log[j].at[1] # NoPath

IInv ==
    TypeOK /\ Kept(line, code) /\ NextsAreLast(line, code) /\ IsGenerating(line) /\ OpenHasData
    /\ InsnsHavePaths
-----------------------------------------------------------------------------
(* What the invariant says of the rows is that they are ordered.           *)
LEMMA InvGivesOrder == IInv => RowsAreOrdered
<1> SUFFICES ASSUME IInv PROVE RowsAreOrdered
  OBVIOUS
<1>1. line.sequences \in Seq(Seq(RowType)) /\ IndexIsRight(line) /\ RowsFit(line, code)
  BY DEF IInv, Kept, LineType
<1>2. DOMAIN line.sequences = 1 .. Len(line.sequences)
  BY <1>1, LenProperties
<1>3. ASSUME NEW i \in DOMAIN line.sequences
      PROVE  DOMAIN line.sequences[i] = 1 .. Len(line.sequences[i])
  BY <1>1, <1>2, LenProperties, ElementOfSeq
<1>4. ASSUME NEW i \in DOMAIN line.sequences, NEW j \in DOMAIN line.sequences,
             NEW a \in DOMAIN line.sequences[i], NEW b \in DOMAIN line.sequences[j],
             line.sequences[i][a].section = line.sequences[j][b].section
      PROVE  i = j
  <2>1. i \in 1 .. Len(line.sequences) /\ a \in 1 .. Len(line.sequences[i])
    BY <1>2, <1>3
  <2>2. j \in 1 .. Len(line.sequences) /\ b \in 1 .. Len(line.sequences[j])
    BY <1>2, <1>3
  <2>3. line.index[line.sequences[i][a].section] = i
    BY <1>1, <2>1 DEF IndexIsRight
  <2>4. line.index[line.sequences[j][b].section] = j
    BY <1>1, <2>2 DEF IndexIsRight
  <2> QED
    BY <1>4, <2>3, <2>4
<1>5. ASSUME NEW i \in DOMAIN line.sequences,
             NEW a \in DOMAIN line.sequences[i], NEW b \in DOMAIN line.sequences[i]
      PROVE  LET first == line.sequences[i][a]
                 second == line.sequences[i][b]
             IN  /\ first.section = second.section
                 /\ a < b => Follows(first, second)
  <2>1. a \in 1 .. Len(line.sequences[i]) /\ b \in 1 .. Len(line.sequences[i])
    BY <1>3
  <2>2. line.sequences[i][a].section = line.sequences[i][b].section
    BY <1>1, <1>2, <2>1 DEF IndexIsRight
  <2>3. a < b => b \in a + 1 .. Len(line.sequences[i])
    BY <2>1
  <2> QED
    BY <1>1, <1>2, <2>1, <2>2, <2>3 DEF RowsFit
<1> QED
  BY <1>4, <1>5 DEF RowsAreOrdered, Follows

(* Before the first statement there are no rows.                           *)
LEMMA InitInv == Init => IInv
<1> SUFFICES ASSUME Init PROVE IInv
  OBVIOUS
<1>1. source \in SourceType /\ source.g \in BOOLEAN
  BY SourcesAssumption DEF Init, SourceType
<1>2. Text \in Sections
  BY SectionsAssumption
<1>3. NewCode \in CodeType
  BY EmptySeq DEF NewCode, CodeType
<1>4. DefaultLoc \in LocType
  BY DEF DefaultLoc, LocType, Views
<1>5. NoLine \in AtType
  BY DEF NoLine, AtType, PathType
<1>6. <<>> \in Seq(Seq(RowType)) /\ Len(<<>>) = 0
  BY EmptySeq
<1>7. line \in LineType
  BY <1>1, <1>2, <1>4, <1>5, <1>6 DEF Init, NewLine, LineType
<1>8. code \in [Sections -> CodeType] /\ \A s \in Sections : ~code[s].open
  BY <1>3 DEF Init, NewCode
<1>9. TypeOK
  BY <1>1, <1>2, <1>6, <1>7, <1>8 DEF Init, TypeOK
<1>10. /\ line.sequences = <<>> /\ ~line.pending /\ line.files = {}
       /\ \A s \in Sections : line.index[s] = 0
  BY DEF Init, NewLine
<1>11. log = <<>> /\ Len(log) = 0
  BY <1>6 DEF Init
<1> QED
  BY <1>6, <1>7, <1>8, <1>9, <1>10, <1>11
  DEF IInv, Kept, IndexIsRight, RowsFit, NextsAreLast, AreLast, IsGenerating, OpenHasData,
      InsnsHavePaths
-----------------------------------------------------------------------------
(* A state of the line table that differs in none of what rows are kept    *)
(* by keeps them.                                                          *)
LEMMA SameRowsKept ==
    ASSUME NEW l, NEW m, NEW c, Kept(l, c), m \in LineType,
           m.sequences = l.sequences, m.index = l.index
    PROVE  /\ Kept(m, c)
           /\ \A s, f, back : AreLast(l, s, f, back) => AreLast(m, s, f, back)
BY DEF Kept, IndexIsRight, RowsFit, AreLast

(* A row that comes after all of its section can be added, and then is the *)
(* last itself.                                                            *)
LEMMA PushRowKeeps ==
    ASSUME NEW c, NEW l, Kept(l, c), NEW row \in RowType, Fits(row, c),
           AreLast(l, row.section, row.frag, row.back)
    PROVE  LET m == PushRow(l, row)
           IN  /\ Kept(m, c) /\ AreLast(m, row.section, row.frag, row.back)
               /\ \A s, f, back : s # row.section /\ AreLast(l, s, f, back) => AreLast(m, s, f, back)
               /\ m.pending = l.pending /\ m.files = l.files /\ m.on = l.on
               /\ m.current = l.current /\ m.last = l.last /\ m.described = l.described
               /\ m.markLabels = l.markLabels
               /\ row.path # NoPath /\ IsGenerating(l) => IsGenerating(m)
<1> DEFINE m == PushRow(l, row)
           s0 == row.section
           n == Len(l.sequences)
<1>1. l \in LineType /\ IndexIsRight(l) /\ RowsFit(l, c) /\ s0 \in Sections
  BY DEF Kept, RowType
<1>2. l.sequences \in Seq(Seq(RowType)) /\ l.index \in [Sections -> Nat] /\ n \in Nat
  BY <1>1, LenProperties DEF LineType
<1>3. \A i \in 1..n : l.sequences[i] \in Seq(RowType) /\ Len(l.sequences[i]) \in Nat
  BY <1>2, LenProperties, ElementOfSeq
<1>4. Follows(row, row) /\ Follows(row, [frag |-> row.frag, back |-> row.back])
  BY DEF Follows
<1>5. CASE l.index[s0] # 0
  <2>1. PICK k \in 1..n : k = l.index[s0] /\ l.sequences[k][1].section = s0
    BY <1>1, <1>5 DEF IndexIsRight
  <2> DEFINE rows == Append(l.sequences[k], row)
  <2>2. /\ rows \in Seq(RowType) /\ Len(rows) = Len(l.sequences[k]) + 1
        /\ rows[Len(rows)] = row
        /\ \A a \in 1 .. Len(l.sequences[k]) : rows[a] = l.sequences[k][a]
    BY <1>3, AppendProperties
  <2>3. m = [l EXCEPT !.sequences = [l.sequences EXCEPT ![k] = rows]]
    BY <1>1, <1>5, <2>1 DEF PushRow, LineType
  <2> HIDE DEF rows, m
  <2>4. /\ [l.sequences EXCEPT ![k] = rows] \in Seq(Seq(RowType))
        /\ Len([l.sequences EXCEPT ![k] = rows]) = n
        /\ \A i \in 1..n : [l.sequences EXCEPT ![k] = rows][i] =
                              IF i = k THEN rows ELSE l.sequences[i]
    <3>1. PICK sq \in Seq(Seq(RowType)) : sq = l.sequences
      BY <1>2
    <3>2. k \in 1 .. Len(sq) /\ Len(sq) = n
      BY <2>1, <3>1
    <3>3. /\ [sq EXCEPT ![k] = rows] \in Seq(Seq(RowType)) /\ Len([sq EXCEPT ![k] = rows]) = n
          /\ \A i \in 1..n : [sq EXCEPT ![k] = rows][i] = IF i = k THEN rows ELSE sq[i]
      BY <2>2, <3>2, ExceptSeq
    <3> QED
      BY <3>1, <3>3
  <2> DEFINE seqs == [l.sequences EXCEPT ![k] = rows]
  <2> HIDE DEF seqs
  <2>5. /\ m \in LineType /\ m.sequences = seqs /\ m.index = l.index
        /\ m.pending = l.pending /\ m.files = l.files /\ m.on = l.on
        /\ m.current = l.current /\ m.last = l.last /\ m.described = l.described
        /\ m.markLabels = l.markLabels
    BY <1>1, <2>3, <2>4 DEF LineType, seqs
  <2>6. /\ Len(seqs) = n
        /\ \A i \in 1..n : seqs[i] = IF i = k THEN rows ELSE l.sequences[i]
    BY <2>4 DEF seqs
  <2>7. Len(l.sequences[k]) \in Nat /\ Len(l.sequences[k]) > 0
    BY <1>1, <1>3, <2>1 DEF IndexIsRight
  <2>8. ASSUME NEW a \in 1 .. Len(rows)
        PROVE  rows[a].section = s0
    <3>1. CASE a = Len(rows)
      BY <2>2, <3>1
    <3>2. CASE a # Len(rows)
      <4>1. a \in 1 .. Len(l.sequences[k])
        BY <2>2, <2>7, <3>2
      <4>2. l.sequences[k][a].section = l.sequences[k][1].section
        BY <1>1, <4>1 DEF IndexIsRight
      <4> QED
        BY <2>1, <2>2, <4>1, <4>2
    <3> QED
      BY <3>1, <3>2
  <2>9. IndexIsRight(m)
    <3>1. ASSUME NEW i \in 1..n
          PROVE  /\ Len(seqs[i]) > 0 /\ l.index[seqs[i][1].section] = i
                 /\ seqs[i][1].section = l.sequences[i][1].section
                 /\ \A a \in 1 .. Len(seqs[i]) : seqs[i][a].section = seqs[i][1].section
      <4>1. CASE i = k
        <5>1. seqs[i] = rows /\ 1 \in 1 .. Len(rows) /\ Len(rows) > 0
          BY <2>2, <2>6, <2>7, <4>1
        <5>2. rows[1].section = s0
          BY <2>8, <5>1
        <5> QED
          BY <2>1, <2>8, <4>1, <5>1, <5>2
      <4>2. CASE i # k
        BY <1>1, <2>6, <4>2 DEF IndexIsRight
      <4> QED
        BY <4>1, <4>2
    <3>2. ASSUME NEW s \in Sections, l.index[s] # 0
          PROVE  l.index[s] \in 1..n /\ seqs[l.index[s]][1].section = s
      BY <1>1, <3>1, <3>2 DEF IndexIsRight
    <3> QED
      BY <2>5, <2>6, <3>1, <3>2 DEF IndexIsRight
  <2>10. RowsFit(m, c)
    <3>1. ASSUME NEW i \in 1..n, NEW a \in 1 .. Len(seqs[i])
          PROVE  /\ Fits(seqs[i][a], c)
                 /\ \A b \in a + 1 .. Len(seqs[i]) : Follows(seqs[i][a], seqs[i][b])
      <4>1. CASE i = k
        <5>1. seqs[i] = rows
          BY <2>6, <4>1
        <5>2. CASE a = Len(rows)
          BY <2>2, <5>1, <5>2, <2>7
        <5>3. CASE a # Len(rows)
          <6>1. a \in 1 .. Len(l.sequences[k]) /\ rows[a] = l.sequences[k][a]
            BY <2>2, <2>7, <5>1, <5>3
          <6>2. Fits(rows[a], c)
            BY <1>1, <2>1, <6>1 DEF RowsFit
          <6>3. Follows(rows[a], row)
            <7>1. Follows(rows[a], [frag |-> row.frag, back |-> row.back])
              <8>1. rows[a].section = row.section
                BY <2>8, <5>1
              <8>2. k \in 1 .. Len(l.sequences) /\ l.sequences[k][a].section = row.section
                BY <2>1, <6>1, <8>1
              <8> QED
                BY <6>1, <8>2 DEF AreLast
            <7> QED
              BY <7>1 DEF Follows
          <6>4. ASSUME NEW b \in a + 1 .. Len(rows)
                PROVE  Follows(rows[a], rows[b])
            <7>1. CASE b = Len(rows)
              BY <2>2, <6>3, <7>1
            <7>2. CASE b # Len(rows)
              <8>1. b \in a + 1 .. Len(l.sequences[k]) /\ b \in 1 .. Len(l.sequences[k])
                BY <2>2, <2>7, <6>1, <7>2, SMTT(30)
              <8> QED
                BY <1>1, <2>1, <2>2, <6>1, <8>1 DEF RowsFit
            <7> QED
              BY <7>1, <7>2
          <6> QED
            BY <5>1, <6>2, <6>4
        <5> QED
          BY <5>2, <5>3
      <4>2. CASE i # k
        BY <1>1, <2>6, <4>2 DEF RowsFit
      <4> QED
        BY <4>1, <4>2
    <3> QED
      BY <2>5, <2>6, <3>1 DEF RowsFit
  <2>11. ASSUME NEW i \in 1..n, NEW a \in 1 .. Len(seqs[i])
         PROVE  \/ seqs[i][a] = row
                \/ a \in 1 .. Len(l.sequences[i]) /\ seqs[i][a] = l.sequences[i][a]
    <3>1. CASE i = k
      BY <2>2, <2>6, <2>7, <3>1
    <3>2. CASE i # k
      BY <2>6, <3>2
    <3> QED
      BY <3>1, <3>2
  <2>12. AreLast(m, s0, row.frag, row.back)
    BY <1>4, <2>5, <2>6, <2>11 DEF AreLast
  <2>13. \A s, f, back : s # s0 /\ AreLast(l, s, f, back) => AreLast(m, s, f, back)
    BY <2>5, <2>6, <2>11 DEF AreLast
  <2>14. row.path # NoPath /\ IsGenerating(l) => IsGenerating(m)
    BY <2>5, <2>6, <2>11 DEF IsGenerating
  <2> QED
    BY <2>5, <2>9, <2>10, <2>12, <2>13, <2>14 DEF Kept, m
<1>6. CASE l.index[s0] = 0
  <2> DEFINE seqs == Append(l.sequences, <<row>>)
             index == [l.index EXCEPT ![s0] = n + 1]
  <2>1. m = [l EXCEPT !.sequences = seqs, !.index = index]
    BY <1>1, <1>6 DEF PushRow, LineType
  <2>2. <<row>> \in Seq(RowType) /\ Len(<<row>>) = 1 /\ <<row>>[1] = row
    OBVIOUS
  <2>3. /\ seqs \in Seq(Seq(RowType)) /\ Len(seqs) = n + 1 /\ seqs[n + 1] = <<row>>
        /\ \A i \in 1..n : seqs[i] = l.sequences[i]
    BY <1>2, <2>2, AppendProperties
  <2>4. /\ index \in [Sections -> Nat] /\ index[s0] = n + 1
        /\ \A s \in Sections : s # s0 => index[s] = l.index[s]
    BY <1>1, <1>2
  <2> HIDE DEF seqs, index, m
  <2>5. /\ m \in LineType /\ m.sequences = seqs /\ m.index = index
        /\ m.pending = l.pending /\ m.files = l.files /\ m.on = l.on
        /\ m.current = l.current /\ m.last = l.last /\ m.described = l.described
        /\ m.markLabels = l.markLabels
    BY <1>1, <2>1, <2>3, <2>4 DEF LineType
  <2>6. \A i \in 1 .. n + 1 : i \in 1..n \/ (i = n + 1 /\ i \notin 1..n)
    BY <1>2
  <2>7. IndexIsRight(m)
    <3>1. ASSUME NEW i \in 1 .. n + 1
          PROVE  /\ Len(seqs[i]) > 0 /\ index[seqs[i][1].section] = i
                 /\ \A a \in 1 .. Len(seqs[i]) : seqs[i][a].section = seqs[i][1].section
      <4>1. CASE i = n + 1
        <5>1. seqs[i] = <<row>> /\ seqs[i][1] = row /\ Len(seqs[i]) = 1
          BY <2>2, <2>3, <4>1
        <5>2. \A a \in 1 .. Len(seqs[i]) : seqs[i][a] = row
          BY <5>1
        <5> QED
          BY <2>4, <4>1, <5>1, <5>2
      <4>2. CASE i \in 1..n
        <5>1. /\ Len(l.sequences[i]) > 0
              /\ l.index[l.sequences[i][1].section] = i
              /\ \A a \in 1 .. Len(l.sequences[i]) :
                    l.sequences[i][a].section = l.sequences[i][1].section
          BY <1>1, <4>2 DEF IndexIsRight
        <5>2. l.sequences[i][1] \in RowType
          BY <1>3, <4>2, <5>1, ElementOfSeq
        <5>3. l.sequences[i][1].section \in Sections /\ l.sequences[i][1].section # s0
          BY <1>2, <1>6, <4>2, <5>1, <5>2 DEF RowType
        <5> QED
          BY <2>3, <2>4, <4>2, <5>1, <5>3
      <4> QED
        BY <2>6, <4>1, <4>2
    <3>2. ASSUME NEW s \in Sections, index[s] # 0
          PROVE  index[s] \in 1 .. n + 1 /\ seqs[index[s]][1].section = s
      <4>1. CASE s = s0
        BY <1>2, <2>2, <2>3, <2>4, <4>1
      <4>2. CASE s # s0
        <5>1. l.index[s] \in 1..n /\ l.sequences[l.index[s]][1].section = s /\ index[s] = l.index[s]
          BY <1>1, <2>4, <3>2, <4>2 DEF IndexIsRight
        <5>2. l.index[s] \in 1 .. n + 1 /\ seqs[l.index[s]] = l.sequences[l.index[s]]
          <6>1. PICK i \in 1..n : i = l.index[s]
            BY <5>1
          <6>2. i \in 1 .. n + 1
            BY <1>2
          <6> QED
            BY <2>3, <6>1, <6>2
        <5> QED
          BY <5>1, <5>2
      <4> QED
        BY <4>1, <4>2
    <3> QED
      BY <2>3, <2>5, <3>1, <3>2 DEF IndexIsRight
  <2>8. ASSUME NEW i \in 1 .. n + 1, NEW a \in 1 .. Len(seqs[i])
        PROVE  \/ i \notin 1..n /\ Len(seqs[i]) = 1 /\ a = 1 /\ seqs[i][a] = row
               \/ i \in 1..n /\ seqs[i] = l.sequences[i]
    <3>1. CASE i = n + 1
      <4>1. seqs[i] = <<row>> /\ seqs[i][1] = row /\ Len(seqs[i]) = 1
        BY <2>2, <2>3, <3>1
      <4>2. a = 1
        BY <4>1
      <4> QED
        BY <1>2, <3>1, <4>1, <4>2
    <3>2. CASE i \in 1..n
      BY <2>3, <3>2
    <3> QED
      BY <2>6, <3>1, <3>2
  <2>9. RowsFit(m, c)
    <3>1. ASSUME NEW i \in 1 .. n + 1, NEW a \in 1 .. Len(seqs[i])
          PROVE  /\ Fits(seqs[i][a], c)
                 /\ \A b \in a + 1 .. Len(seqs[i]) : Follows(seqs[i][a], seqs[i][b])
      <4>1. CASE i \notin 1..n /\ Len(seqs[i]) = 1 /\ a = 1 /\ seqs[i][a] = row
        BY <4>1
      <4>2. CASE i \in 1..n /\ seqs[i] = l.sequences[i]
        BY <1>1, <4>2 DEF RowsFit
      <4> QED
        BY <2>8, <4>1, <4>2
    <3> QED
      BY <2>3, <2>5, <3>1 DEF RowsFit
  <2>10. AreLast(m, s0, row.frag, row.back)
    BY <1>4, <2>3, <2>5, <2>8 DEF AreLast
  <2>11. \A s, f, back : s # s0 /\ AreLast(l, s, f, back) => AreLast(m, s, f, back)
    BY <2>3, <2>5, <2>8 DEF AreLast
  <2>12. ASSUME row.path # NoPath, IsGenerating(l)
         PROVE  IsGenerating(m)
    <3>1. ASSUME l.on, NEW i \in 1 .. n + 1, NEW a \in 1 .. Len(seqs[i])
          PROVE  seqs[i][a].path # NoPath
      <4>1. CASE i \notin 1..n /\ seqs[i][a] = row
        BY <2>12, <4>1
      <4>2. CASE i \in 1..n /\ seqs[i] = l.sequences[i]
        BY <2>12, <3>1, <4>2 DEF IsGenerating
      <4> QED
        BY <2>8, <4>1, <4>2
    <3> QED
      BY <2>3, <2>5, <2>12, <3>1 DEF IsGenerating
  <2> QED
    BY <2>5, <2>7, <2>9, <2>10, <2>11, <2>12 DEF Kept, m
<1> QED
  BY <1>2, <1>5, <1>6
-----------------------------------------------------------------------------
(* What a .loc left behind is still a location.                            *)
LEMMA SpentType ==
    ASSUME NEW loc \in LocType
    PROVE  Spent(loc) \in LocType
BY DEF Spent, LocType, Views

(* A row for a .loc where rows would be last keeps what rows are kept by.  *)
LEMMA ConsumeLocKeeps ==
    ASSUME NEW c, NEW l, Kept(l, c), IsGenerating(l),
           NEW s \in Sections, NEW frag \in Nat, NEW back \in OptNat,
           Fits([section |-> s, frag |-> frag, back |-> back], c), AreLast(l, s, frag, back)
    PROVE  LET m == ConsumeLoc(l, s, frag, back)
           IN  /\ Kept(m, c) /\ AreLast(m, s, frag, back) /\ IsGenerating(m)
               /\ \A t, f, b : t # s /\ AreLast(l, t, f, b) => AreLast(m, t, f, b)
               /\ ~m.pending /\ m.files = l.files /\ m.on = l.on
<1> DEFINE m == ConsumeLoc(l, s, frag, back)
           row == Row(s, frag, l.current, back, NoPath)
           done == [l EXCEPT !.pending = FALSE, !.current = IF IsGnu THEN Spent(@) ELSE @]
<1>1. l \in LineType /\ l.current \in LocType
  BY DEF Kept, LineType
<1>2. CASE ~l.pending
  BY <1>2 DEF ConsumeLoc
<1>3. CASE l.pending
  <2>1. m = IF IsGnu /\ (l.current.line = 0 \/ s \notin CodeSections)
            THEN done ELSE PushRow(done, row)
    BY <1>3 DEF ConsumeLoc
  <2>2. /\ done \in LineType /\ done.sequences = l.sequences /\ done.index = l.index
        /\ ~done.pending /\ done.files = l.files /\ done.on = l.on
    BY <1>1, SpentType DEF LineType
  <2>3. row \in RowType /\ row.section = s /\ row.frag = frag /\ row.back = back
    BY <1>1 DEF Row, RowType, PathType
  <2>4. Fits(row, c)
    BY <2>3 DEF Fits
  <2> HIDE DEF m, row, done
  <2>5. Kept(done, c) /\ \A t, f, b : AreLast(l, t, f, b) => AreLast(done, t, f, b)
    BY <2>2, SameRowsKept
  <2>6. ~l.on
    BY <1>3 DEF IsGenerating
  <2>7. CASE m = done
    BY <2>2, <2>5, <2>6, <2>7 DEF IsGenerating, m
  <2>8. CASE m = PushRow(done, row)
    <3>1. AreLast(done, row.section, row.frag, row.back)
      BY <2>3, <2>5
    <3>2. /\ Kept(m, c) /\ AreLast(m, s, frag, back)
          /\ \A t, f, b : t # s /\ AreLast(done, t, f, b) => AreLast(m, t, f, b)
          /\ m.pending = done.pending /\ m.files = done.files /\ m.on = done.on
      BY <2>3, <2>4, <2>5, <2>8, <3>1, PushRowKeeps
    <3> QED
      BY <2>2, <2>5, <2>6, <3>2 DEF IsGenerating, m
  <2> QED
    BY <2>1, <2>7, <2>8
<1> QED
  BY <1>2, <1>3

(* And so does one for the source itself.                                  *)
LEMMA SourceRowKeeps ==
    ASSUME NEW c, NEW l, Kept(l, c), IsGenerating(l),
           NEW s \in Sections, NEW frag \in Nat, NEW back \in OptNat, NEW at \in AtType,
           l.on => at[1] # NoPath,
           Fits([section |-> s, frag |-> frag, back |-> back], c), AreLast(l, s, frag, back)
    PROVE  LET m == SourceRow(l, s, frag, back, at)
           IN  /\ Kept(m, c) /\ AreLast(m, s, frag, back) /\ IsGenerating(m)
               /\ \A t, f, b : t # s /\ AreLast(l, t, f, b) => AreLast(m, t, f, b)
<1> DEFINE m == SourceRow(l, s, frag, back, at)
           loc == [DefaultLoc EXCEPT !.file = 0, !.line = at[2],
                                     !.isa = IF IsGnu THEN l.current.isa ELSE 0]
           row == Row(s, frag, loc, back, at[1])
           seen == [l EXCEPT !.last = at]
<1>1. l \in LineType /\ l.current.isa \in Nat
  BY DEF Kept, LineType, LocType
<1>2. CASE m = l
  BY <1>2
<1>3. /\ m = l \/ m = seen \/ m = PushRow(seen, row) \/ m = PushRow(l, row)
      /\ m # l => l.on
  BY DEF SourceRow
<1>4. at[1] \in PathType /\ at[2] \in Nat
  BY DEF AtType
<1>5. loc \in LocType
  BY <1>1, <1>4 DEF DefaultLoc, LocType, Views
<1>6. row \in RowType /\ row.section = s /\ row.frag = frag /\ row.back = back /\ row.path = at[1]
  BY <1>4, <1>5 DEF Row, RowType
<1>7. Fits(row, c)
  BY <1>6 DEF Fits
<1>8. /\ seen \in LineType /\ seen.sequences = l.sequences /\ seen.index = l.index
      /\ seen.pending = l.pending /\ seen.files = l.files /\ seen.on = l.on
  BY <1>1 DEF LineType
<1> HIDE DEF m, loc, row, seen
<1>9. /\ Kept(seen, c) /\ IsGenerating(seen)
      /\ \A t, f, b : AreLast(l, t, f, b) => AreLast(seen, t, f, b)
  BY <1>8, SameRowsKept DEF IsGenerating
<1>10. ASSUME NEW k, k = l \/ k = seen, m = PushRow(k, row), l.on
       PROVE  /\ Kept(m, c) /\ AreLast(m, s, frag, back) /\ IsGenerating(m)
              /\ \A t, f, b : t # s /\ AreLast(l, t, f, b) => AreLast(m, t, f, b)
  BY <1>6, <1>7, <1>9, <1>10, PushRowKeeps
<1> QED
  BY <1>2, <1>3, <1>9, <1>10 DEF m
-----------------------------------------------------------------------------
(* The function Picked is a value of.                                      *)
IsPicked(g, seq, at, last) ==
    g = [n \in 0..last |->
            IF n = 0 THEN <<>> ELSE g[n - 1] \o (IF n \in at THEN <<seq[n]>> ELSE <<>>)]

(* What holds of 0, and of n + 1 when it holds of n, holds of every        *)
(* natural.                                                                *)
LEMMA InductionBySets ==
    ASSUME NEW S, 0 \in S, \A n \in Nat : n \in S => n + 1 \in S
    PROVE  Nat \subseteq S
<1> DEFINE Less == {ss \in Nat \X Nat : ss[1] < ss[2]}
<1>1. IsWellFoundedOn(Less, Nat)
  BY Zenon, NatLessThanWellFounded DEF OpToRel
<1> HIDE DEF Less
<1>2. SUFFICES ASSUME Nat \ S # {} PROVE FALSE
  OBVIOUS
<1>3. PICK k \in Nat \ S : \A j \in Nat \ S : ~ (<<j, k>> \in Less)
  BY <1>1, <1>2, WFMin
<1>4. k - 1 \in Nat /\ <<k - 1, k>> \in Less
  BY DEF Less
<1>5. k - 1 \in S
  BY <1>3, <1>4
<1> QED
  BY <1>4, <1>5

(* Nothing is picked at no position.                                       *)
LEMMA PickedNowhere ==
    ASSUME NEW seq, Len(seq) \in Nat, NEW at, \A n \in 1 .. Len(seq) : n \notin at
    PROVE  Picked(seq, at) = <<>>
<1> DEFINE none == [n \in 0 .. Len(seq) |-> <<>>]
<1>1. Picked(seq, at) = (CHOOSE g : IsPicked(g, seq, at, Len(seq)))[Len(seq)]
  BY DEF Picked, IsPicked
<1>2. IsPicked(none, seq, at, Len(seq))
  <2>1. ASSUME NEW n \in 0 .. Len(seq)
        PROVE  none[n] =
                  IF n = 0 THEN <<>> ELSE none[n - 1] \o (IF n \in at THEN <<seq[n]>> ELSE <<>>)
    <3>1. CASE n = 0
      BY <3>1
    <3>2. CASE n # 0
      <4>1. n - 1 \in 0 .. Len(seq) /\ n \notin at
        BY <3>2
      <4>2. none[n] = <<>> /\ none[n - 1] = <<>>
        BY <4>1
      <4>3. <<>> \o <<>> = <<>>
        OBVIOUS
      <4> QED
        BY <3>2, <4>1, <4>2, <4>3
    <3> QED
      BY <3>1, <3>2
  <2>2. none = [n \in 0 .. Len(seq) |-> none[n]]
    OBVIOUS
  <2> HIDE DEF none
  <2> QED
    BY <2>1, <2>2 DEF IsPicked
<1>3. ASSUME NEW g, IsPicked(g, seq, at, Len(seq))
      PROVE  g[Len(seq)] = <<>>
  <2> DEFINE S == {n \in Nat : n <= Len(seq) => g[n] = <<>>}
  <2>1. 0 \in S
    BY <1>3 DEF IsPicked
  <2>2. ASSUME NEW n \in Nat, n \in S
        PROVE  n + 1 \in S
    <3>1. ASSUME n + 1 <= Len(seq)
          PROVE  g[n + 1] = <<>>
      <4>1. PICK k \in 1 .. Len(seq) : k = n + 1
        BY <3>1
      <4>2. g[k] = g[k - 1] \o (IF k \in at THEN <<seq[k]>> ELSE <<>>)
        <5>1. k \in 0 .. Len(seq) /\ k # 0
          OBVIOUS
        <5> QED
          BY <1>3, <5>1 DEF IsPicked
      <4>3. g[k - 1] = <<>> /\ k \notin at
        BY <2>2, <4>1
      <4>4. <<>> \o <<>> = <<>>
        OBVIOUS
      <4> QED
        BY <4>1, <4>2, <4>3, <4>4
    <3> QED
      BY <3>1
  <2> HIDE DEF S
  <2>3. Len(seq) \in S
    BY <2>1, <2>2, InductionBySets
  <2> QED
    BY <2>3 DEF S
<1> HIDE DEF none
<1> QED
  BY <1>1, <1>2, <1>3

(* While rows are made for the source, those are all there are, so that    *)
(* GNU as drops all; llvm-mc keeps each where it is.                       *)
LEMMA StopGeneratingKeeps ==
    ASSUME NEW c, NEW l, Kept(l, c), IsGenerating(l)
    PROVE  LET m == StopGenerating(l)
           IN  /\ Kept(m, c) /\ ~m.on
               /\ \A s, f, b : AreLast(l, s, f, b) => AreLast(m, s, f, b)
<1> DEFINE m == StopGenerating(l)
           seqs == l.sequences
           n == Len(seqs)
<1>1. l \in LineType /\ IndexIsRight(l) /\ RowsFit(l, c) /\ seqs \in Seq(Seq(RowType))
  BY DEF Kept, LineType
<1>2. /\ DOMAIN seqs = 1..n /\ n \in Nat
      /\ \A i \in 1..n : /\ seqs[i] \in Seq(RowType) /\ DOMAIN seqs[i] = 1 .. Len(seqs[i])
                         /\ Len(seqs[i]) \in Nat
  BY <1>1, LenProperties, ElementOfSeq
<1>3. CASE ~l.on
  BY <1>3 DEF StopGenerating
<1>4. CASE l.on /\ IsGnu
  <2> DEFINE at(i) == {j \in DOMAIN seqs[i] : IsGiven(seqs[i][j])}
             kept == [i \in DOMAIN seqs |-> Picked(seqs[i], at(i))]
             some == {i \in DOMAIN kept : kept[i] # <<>>}
  <2>1. m = [l EXCEPT !.on = FALSE, !.sequences = Picked(kept, some),
                      !.index = IndexOf(Picked(kept, some))]
    BY <1>4 DEF StopGenerating, DropGenerated
  <2>2. ASSUME NEW i \in 1..n
        PROVE  Picked(seqs[i], at(i)) = <<>>
    <3>1. \A a \in 1 .. Len(seqs[i]) : a \notin at(i)
      BY <1>4 DEF IsGenerating, IsGiven
    <3> HIDE DEF at
    <3> QED
      BY <1>2, <3>1, PickedNowhere
  <2>3. kept = [i \in 1..n |-> <<>>]
    BY <1>2, <2>2
  <2> HIDE DEF kept
  <2>4. Len(kept) = n /\ \A i \in 1..n : i \notin some
    BY <1>2, <2>3
  <2> HIDE DEF some
  <2>5. Picked(kept, some) = <<>>
    BY <1>2, <2>4, PickedNowhere
  <2>6. IndexOf(<<>>) = [s \in Sections |-> 0]
    BY DEF IndexOf
  <2>7. <<>> \in Seq(Seq(RowType)) /\ Len(<<>>) = 0
    BY EmptySeq
  <2> DEFINE zero == [s \in Sections |-> 0]
  <2>8. /\ m \in LineType /\ ~m.on /\ m.sequences = <<>> /\ \A s \in Sections : m.index[s] = 0
    <3>1. zero \in [Sections -> Nat] /\ \A s \in Sections : zero[s] = 0
      OBVIOUS
    <3>2. m = [l EXCEPT !.on = FALSE, !.sequences = <<>>, !.index = zero]
      BY <2>1, <2>5, <2>6
    <3> HIDE DEF zero, m
    <3> QED
      BY <1>1, <2>7, <3>1, <3>2 DEF LineType
  <2> HIDE DEF m
  <2> QED
    BY <2>7, <2>8 DEF Kept, IndexIsRight, RowsFit, AreLast, m
<1>5. CASE l.on /\ ~IsGnu
  <2> DEFINE taken(row) ==
                 IF row.path = NoPath THEN row
                 ELSE [row EXCEPT !.path = NoPath,
                                  !.loc.file = IF Target.version >= 5 THEN 0 ELSE 1]
             rows(i) == [j \in DOMAIN seqs[i] |-> taken(seqs[i][j])]
             all == [i \in DOMAIN seqs |-> rows(i)]
  <2>1. m = [l EXCEPT !.on = FALSE, !.sequences = all]
    BY <1>1, <1>5 DEF StopGenerating, LineType
  <2>2. ASSUME NEW row \in RowType
        PROVE  /\ taken(row) \in RowType /\ taken(row).section = row.section
               /\ taken(row).frag = row.frag /\ taken(row).back = row.back
    BY DEF RowType, LocType, PathType
  <2> HIDE DEF taken
  <2>3. ASSUME NEW i \in 1..n
        PROVE  /\ rows(i) \in Seq(RowType) /\ Len(rows(i)) = Len(seqs[i])
               /\ \A a \in 1 .. Len(seqs[i]) : rows(i)[a] = taken(seqs[i][a])
    BY <1>2, <2>2, ElementOfSeq, SMTT(30)
  <2> HIDE DEF rows
  <2>4. all \in Seq(Seq(RowType)) /\ Len(all) = n /\ \A i \in 1..n : all[i] = rows(i)
    BY <1>2, <2>3
  <2> HIDE DEF all
  <2>5. /\ m \in LineType /\ ~m.on /\ m.sequences = all /\ m.index = l.index
    BY <1>1, <2>1, <2>4 DEF LineType
  <2> HIDE DEF m
  <2>6. ASSUME NEW i \in 1..n
        PROVE  /\ Len(all[i]) = Len(seqs[i])
               /\ \A a \in 1 .. Len(seqs[i]) :
                     /\ all[i][a].section = seqs[i][a].section
                     /\ all[i][a].frag = seqs[i][a].frag /\ all[i][a].back = seqs[i][a].back
    BY <1>2, <2>2, <2>3, <2>4, ElementOfSeq
  <2>7. IndexIsRight(m)
    <3>1. \A i \in 1..n : Len(seqs[i]) > 0 /\ all[i][1].section = seqs[i][1].section
      BY <1>1, <1>2, <2>6, SMTT(30) DEF IndexIsRight
    <3>2. ASSUME NEW i \in 1..n
          PROVE  /\ Len(all[i]) > 0 /\ m.index[all[i][1].section] = i
                 /\ \A a \in 1 .. Len(all[i]) : all[i][a].section = all[i][1].section
      <4>1. /\ l.index[seqs[i][1].section] = i
            /\ \A a \in 1 .. Len(seqs[i]) : seqs[i][a].section = seqs[i][1].section
        BY <1>1 DEF IndexIsRight
      <4>2. /\ Len(all[i]) = Len(seqs[i])
            /\ \A a \in 1 .. Len(seqs[i]) : all[i][a].section = seqs[i][a].section
        BY <2>6
      <4>3. m.index[all[i][1].section] = i
        BY <2>5, <3>1, <4>1
      <4> QED
        BY <3>1, <4>1, <4>2, <4>3
    <3>3. ASSUME NEW s \in Sections, m.index[s] # 0
          PROVE  m.index[s] \in 1..n /\ all[m.index[s]][1].section = s
      BY <1>1, <2>5, <3>1, <3>3 DEF IndexIsRight
    <3> QED
      BY <2>4, <2>5, <3>2, <3>3 DEF IndexIsRight
  <2>8. RowsFit(m, c)
    <3>1. ASSUME NEW i \in 1..n, NEW a \in 1 .. Len(seqs[i])
          PROVE  /\ Fits(all[i][a], c)
                 /\ \A b \in a + 1 .. Len(seqs[i]) : Follows(all[i][a], all[i][b])
      <4>1. Fits(all[i][a], c)
        BY <1>1, <2>6 DEF RowsFit, Fits
      <4>2. ASSUME NEW b \in a + 1 .. Len(seqs[i])
            PROVE  Follows(all[i][a], all[i][b])
        <5>1. Follows(seqs[i][a], seqs[i][b]) /\ b \in 1 .. Len(seqs[i])
          BY <1>1, <1>2 DEF RowsFit
        <5> QED
          BY <2>6, <5>1 DEF Follows
      <4> QED
        BY <4>1, <4>2
    <3> QED
      BY <2>4, <2>5, <2>6, <3>1 DEF RowsFit
  <2>9. ASSUME NEW s, NEW f, NEW b, AreLast(l, s, f, b)
        PROVE  AreLast(m, s, f, b)
    <3>1. ASSUME NEW i \in 1..n, NEW a \in 1 .. Len(all[i]), all[i][a].section = s
          PROVE  Follows(all[i][a], [frag |-> f, back |-> b])
      <4>1. /\ i \in 1 .. Len(l.sequences) /\ a \in 1 .. Len(l.sequences[i])
            /\ l.sequences[i][a].section = s
        BY <2>6, <3>1
      <4>2. Follows(l.sequences[i][a], [frag |-> f, back |-> b])
        BY <2>9, <4>1 DEF AreLast
      <4>3. all[i][a].frag = seqs[i][a].frag /\ all[i][a].back = seqs[i][a].back
        BY <2>6, <4>1
      <4> QED
        BY <4>2, <4>3 DEF Follows
    <3> QED
      BY <2>4, <2>5, <3>1 DEF AreLast
  <2> QED
    BY <2>5, <2>7, <2>8, <2>9 DEF Kept, m
<1> QED
  BY <1>3, <1>4, <1>5
-----------------------------------------------------------------------------
(* Code only grows: fragments are added, and the last may take more data.  *)
Grows(c, d) ==
    \A s \in Sections :
        /\ Len(c[s].frags) <= Len(d[s].frags)
        /\ \A f \in 1 .. Len(c[s].frags) :
              /\ c[s].frags[f].size <= d[s].frags[f].size
              /\ d[s].frags[f].moves = c[s].frags[f].moves

(* Rows that fit the code fit it when it has grown.                        *)
LEMMA GrowthKeepsRows ==
    ASSUME NEW c \in [Sections -> CodeType], NEW d \in [Sections -> CodeType], Grows(c, d),
           NEW l, Kept(l, c)
    PROVE  Kept(l, d)
<1>1. ASSUME NEW row \in RowType, Fits(row, c)
      PROVE  Fits(row, d)
  <2> DEFINE s == row.section
  <2>1. s \in Sections /\ row.back \in OptNat /\ row.frag \in Nat
    BY DEF RowType
  <2>2. c[s].frags \in Seq(FragType) /\ d[s].frags \in Seq(FragType)
    BY <2>1 DEF CodeType
  <2>3. Len(c[s].frags) \in Nat /\ Len(d[s].frags) \in Nat
    BY <2>2, LenProperties
  <2>4. row.frag \in 1 .. Len(d[s].frags) + 1
    BY <1>1, <2>1, <2>3, SMTT(30) DEF Fits, Grows
  <2>5. ASSUME row.back # Absent
        PROVE  /\ row.frag <= Len(d[s].frags)
               /\ row.back <= d[s].frags[row.frag].size /\ ~d[s].frags[row.frag].moves
    <3>1. /\ row.frag \in 1 .. Len(c[s].frags) /\ row.back <= c[s].frags[row.frag].size
          /\ ~c[s].frags[row.frag].moves
      BY <1>1, <2>1, <2>3, <2>5 DEF Fits
    <3>2. row.frag \in 1 .. Len(d[s].frags)
      BY <2>1, <2>3, <3>1 DEF Grows
    <3>3. c[s].frags[row.frag] \in FragType /\ d[s].frags[row.frag] \in FragType
      BY <2>2, <3>1, <3>2, ElementOfSeq
    <3>4. row.back \in Int /\ c[s].frags[row.frag].size \in Int /\ d[s].frags[row.frag].size \in Int
      BY <2>1, <3>3 DEF FragType, OptNat, Absent
    <3>5. /\ c[s].frags[row.frag].size <= d[s].frags[row.frag].size
          /\ d[s].frags[row.frag].moves = c[s].frags[row.frag].moves
      BY <2>1, <3>1 DEF Grows
    <3> QED
      BY <2>3, <3>1, <3>2, <3>4, <3>5, SMTT(30)
  <2> QED
    BY <2>4, <2>5 DEF Fits
<1>2. ASSUME NEW i \in 1 .. Len(l.sequences), NEW a \in 1 .. Len(l.sequences[i])
      PROVE  l.sequences[i][a] \in RowType
  BY ElementOfSeq DEF Kept, LineType
<1>3. RowsFit(l, d)
  <2>1. ASSUME NEW i \in 1 .. Len(l.sequences), NEW a \in 1 .. Len(l.sequences[i])
        PROVE  /\ Fits(l.sequences[i][a], d)
               /\ \A b \in a + 1 .. Len(l.sequences[i]) :
                     Follows(l.sequences[i][a], l.sequences[i][b])
    BY <1>1, <1>2 DEF Kept, RowsFit
  <2> QED
    BY <2>1 DEF RowsFit
<1> QED
  BY <1>3 DEF Kept

(* Fragments that are added are behind all rows.                           *)
LEMMA LaterIsLast ==
    ASSUME NEW c, NEW l, Kept(l, c), NEW s, NEW f \in Nat, NEW b, AreLast(l, s, f, b),
           NEW g \in Nat, g > f, NEW h
    PROVE  AreLast(l, s, g, h)
<1>1. ASSUME NEW i \in 1 .. Len(l.sequences), NEW a \in 1 .. Len(l.sequences[i]),
             l.sequences[i][a].section = s
      PROVE  Follows(l.sequences[i][a], [frag |-> g, back |-> h])
  <2>1. l.sequences \in Seq(Seq(RowType))
    BY DEF Kept, LineType
  <2>2. l.sequences[i] \in Seq(RowType)
    BY <2>1, ElementOfSeq
  <2>3. l.sequences[i][a] \in RowType
    BY <2>2, ElementOfSeq
  <2>4. l.sequences[i][a].frag \in Nat
    BY <2>3 DEF RowType
  <2>5. Follows(l.sequences[i][a], [frag |-> f, back |-> b])
    BY <1>1 DEF AreLast
  <2> QED
    BY <2>4, <2>5 DEF Follows
<1> QED
  BY <1>1 DEF AreLast

(* The start of a fragment is before any other place in it.                *)
LEMMA StartIsFirst ==
    ASSUME NEW l, NEW s, NEW f, AreLast(l, s, f, Absent), NEW b
    PROVE  AreLast(l, s, f, b)
BY DEF AreLast, Follows

(* And where a row would come stays after all there are.                   *)
LEMMA GrowthKeepsNexts ==
    ASSUME NEW c \in [Sections -> CodeType], NEW d \in [Sections -> CodeType], Grows(c, d),
           NEW l, Kept(l, c), NextsAreLast(l, c)
    PROVE  NextsAreLast(l, d)
<1>1. ASSUME NEW s \in Sections, NEW back \in OptNat
      PROVE  AreLast(l, s, Len(d[s].frags) + 1, back)
  <2>1. Len(c[s].frags) \in Nat /\ Len(d[s].frags) \in Nat
    BY LenProperties DEF CodeType
  <2>2. Len(c[s].frags) <= Len(d[s].frags) /\ AreLast(l, s, Len(c[s].frags) + 1, back)
    BY DEF Grows, NextsAreLast
  <2>3. CASE Len(c[s].frags) = Len(d[s].frags)
    BY <2>2, <2>3
  <2>4. CASE Len(c[s].frags) < Len(d[s].frags)
    <3> DEFINE f == Len(c[s].frags) + 1
               g == Len(d[s].frags) + 1
    <3>1. f \in Nat /\ g \in Nat /\ g > f /\ AreLast(l, s, f, back)
      BY <2>1, <2>2, <2>4
    <3> HIDE DEF f, g
    <3>2. AreLast(l, s, g, back)
      BY <3>1, LaterIsLast
    <3> QED
      BY <3>2 DEF g
  <2> QED
    BY <2>1, <2>2, <2>3, <2>4
<1> QED
  BY <1>1 DEF NextsAreLast

(* What one section of code gains leaves the others.                       *)
LEMMA OneGrows ==
    ASSUME NEW c \in [Sections -> CodeType], NEW s \in Sections, NEW e \in CodeType,
           Len(c[s].frags) <= Len(e.frags),
           \A f \in 1 .. Len(c[s].frags) :
               /\ c[s].frags[f].size <= e.frags[f].size
               /\ e.frags[f].moves = c[s].frags[f].moves
    PROVE  /\ [c EXCEPT ![s] = e] \in [Sections -> CodeType]
           /\ Grows(c, [c EXCEPT ![s] = e])
<1> DEFINE d == [c EXCEPT ![s] = e]
<1>1. d \in [Sections -> CodeType]
  OBVIOUS
<1>2. ASSUME NEW t \in Sections
      PROVE  /\ Len(c[t].frags) <= Len(d[t].frags)
             /\ \A f \in 1 .. Len(c[t].frags) :
                   /\ c[t].frags[f].size <= d[t].frags[f].size
                   /\ d[t].frags[f].moves = c[t].frags[f].moves
  <2>1. CASE t = s
    BY <2>1
  <2>2. CASE t # s
    <3>1. d[t] = c[t] /\ c[t].frags \in Seq(FragType)
      BY <2>2 DEF CodeType
    <3>2. Len(c[t].frags) \in Nat
      BY <3>1, LenProperties
    <3>3. ASSUME NEW f \in 1 .. Len(c[t].frags)
          PROVE  c[t].frags[f].size \in Nat
      <4>1. c[t].frags[f] \in FragType
        BY <3>1, ElementOfSeq
      <4> QED
        BY <4>1 DEF FragType
    <3> QED
      BY <3>1, <3>2, <3>3
  <2> QED
    BY <2>1, <2>2
<1> QED
  BY <1>1, <1>2 DEF Grows

(* A new fragment comes after all others, and takes no data.               *)
LEMMA PushGrows ==
    ASSUME NEW c \in CodeType, NEW frag \in FragType
    PROVE  /\ Push(c, frag) \in CodeType /\ Len(Push(c, frag).frags) = Len(c.frags) + 1
           /\ Push(c, frag).frags[Len(c.frags) + 1] = frag
           /\ \A f \in 1 .. Len(c.frags) :
                 /\ c.frags[f].size <= Push(c, frag).frags[f].size
                 /\ Push(c, frag).frags[f].moves = c.frags[f].moves
           /\ ~Push(c, frag).open /\ Len(c.frags) \in Nat
<1>1. c.frags \in Seq(FragType) /\ Len(c.frags) \in Nat
  BY LenProperties DEF CodeType
<1>2. /\ Append(c.frags, frag) \in Seq(FragType) /\ Len(Append(c.frags, frag)) = Len(c.frags) + 1
      /\ Append(c.frags, frag)[Len(c.frags) + 1] = frag
      /\ \A f \in 1 .. Len(c.frags) : Append(c.frags, frag)[f] = c.frags[f]
  BY <1>1, AppendProperties
<1>3. ASSUME NEW f \in 1 .. Len(c.frags)
      PROVE  c.frags[f].size \in Nat
  <2>1. c.frags[f] \in FragType
    BY <1>1, ElementOfSeq
  <2> QED
    BY <2>1 DEF FragType
<1> QED
  BY <1>1, <1>2, <1>3 DEF Push, CodeType

(* Data joins the last fragment where it may, and has one of its own else. *)
LEMMA EmitByteGrows ==
    ASSUME NEW c \in CodeType, c.open => Len(c.frags) > 0
    PROVE  /\ EmitByte(c) \in CodeType /\ Len(c.frags) <= Len(EmitByte(c).frags)
           /\ \A f \in 1 .. Len(c.frags) :
                 /\ c.frags[f].size <= EmitByte(c).frags[f].size
                 /\ EmitByte(c).frags[f].moves = c.frags[f].moves
           /\ Len(EmitByte(c).frags) > 0
<1>1. c.frags \in Seq(FragType) /\ Len(c.frags) \in Nat
  BY LenProperties DEF CodeType
<1>2. ASSUME NEW f \in 1 .. Len(c.frags)
      PROVE  c.frags[f] \in FragType /\ c.frags[f].size \in Nat
  <2>1. c.frags[f] \in FragType
    BY <1>1, ElementOfSeq
  <2> QED
    BY <2>1 DEF FragType
<1>3. CASE c.open
  <2> DEFINE n == Len(c.frags)
             last == [c.frags[n] EXCEPT !.size = @ + 1]
  <2>1. n \in 1..n
    BY <1>1, <1>3
  <2>2. last \in FragType /\ last.size = c.frags[n].size + 1 /\ last.moves = c.frags[n].moves
    BY <1>2, <2>1 DEF FragType
  <2>3. EmitByte(c) = [c EXCEPT !.frags = [c.frags EXCEPT ![n] = last]]
    BY <1>1, <1>2, <1>3, <2>1 DEF EmitByte, CodeType
  <2> HIDE DEF last
  <2>4. /\ [c.frags EXCEPT ![n] = last] \in Seq(FragType)
        /\ Len([c.frags EXCEPT ![n] = last]) = n
        /\ \A f \in 1..n : [c.frags EXCEPT ![n] = last][f] = IF f = n THEN last ELSE c.frags[f]
    BY <1>1, <2>1, <2>2, ExceptSeq
  <2> DEFINE all == [c.frags EXCEPT ![n] = last]
  <2> HIDE DEF all
  <2>5. EmitByte(c) \in CodeType /\ EmitByte(c).frags = all
    BY <2>3, <2>4 DEF CodeType, all
  <2>6. \A f \in 1..n : c.frags[f].size <= all[f].size /\ all[f].moves = c.frags[f].moves
    BY <1>2, <2>2, <2>4 DEF all
  <2> QED
    BY <1>1, <1>3, <2>4, <2>5, <2>6 DEF all
<1>4. CASE ~c.open
  <2>1. Byte \in FragType
    BY DEF Byte, FragType
  <2> DEFINE p == Push(c, Byte)
  <2>2. /\ p \in CodeType /\ Len(p.frags) = Len(c.frags) + 1
        /\ \A f \in 1 .. Len(c.frags) :
              c.frags[f].size <= p.frags[f].size /\ p.frags[f].moves = c.frags[f].moves
    BY <2>1, PushGrows
  <2> HIDE DEF p
  <2>3. EmitByte(c) = [p EXCEPT !.open = TRUE]
    BY <1>4 DEF EmitByte, p
  <2>4. EmitByte(c) \in CodeType /\ EmitByte(c).frags = p.frags
    BY <2>2, <2>3 DEF CodeType
  <2> QED
    BY <1>1, <2>2, <2>4
<1> QED
  BY <1>3, <1>4
-----------------------------------------------------------------------------
(* A row for a .loc at the position of what comes next.                    *)
LEMMA ConsumeHereKeeps ==
    ASSUME NEW c \in [Sections -> CodeType], NEW l, Kept(l, c), IsGenerating(l),
           NextsAreLast(l, c), NEW s \in Sections
    PROVE  LET m == ConsumeLoc(l, s, Len(c[s].frags) + 1, Absent)
           IN  /\ Kept(m, c) /\ IsGenerating(m) /\ NextsAreLast(m, c)
               /\ ~m.pending /\ m.files = l.files /\ m.on = l.on
<1> DEFINE frag == Len(c[s].frags) + 1
           m == ConsumeLoc(l, s, frag, Absent)
<1>1. Len(c[s].frags) \in Nat /\ frag \in Nat /\ Absent \in OptNat
  BY LenProperties DEF CodeType, OptNat
<1>2. Fits([section |-> s, frag |-> frag, back |-> Absent], c)
  BY <1>1 DEF Fits
<1>3. AreLast(l, s, frag, Absent)
  BY <1>1 DEF NextsAreLast
<1> HIDE DEF frag
<1>4. /\ Kept(m, c) /\ AreLast(m, s, frag, Absent) /\ IsGenerating(m)
      /\ \A t, f, b : t # s /\ AreLast(l, t, f, b) => AreLast(m, t, f, b)
      /\ ~m.pending /\ m.files = l.files /\ m.on = l.on
  BY <1>1, <1>2, <1>3, ConsumeLocKeeps
<1> HIDE DEF m
<1>5. ASSUME NEW t \in Sections, NEW back \in OptNat
      PROVE  AreLast(m, t, Len(c[t].frags) + 1, back)
  <2>1. CASE t = s
    BY <1>4, <2>1, StartIsFirst DEF frag
  <2>2. CASE t # s
    BY <1>4, <2>2 DEF NextsAreLast
  <2> QED
    BY <2>1, <2>2
<1>6. NextsAreLast(m, c)
  BY <1>5 DEF NextsAreLast
<1> QED
  BY <1>4, <1>6 DEF m, frag

(* Rows at a place in the fragment that was next, which code now has.      *)
LEMMA NextsAfterRows ==
    ASSUME NEW c \in [Sections -> CodeType], NEW d \in [Sections -> CodeType], Grows(c, d),
           NEW l, NEW m, Kept(l, c), NextsAreLast(l, c), Kept(m, d), NEW s \in Sections, NEW b,
           Len(d[s].frags) = Len(c[s].frags) + 1, AreLast(m, s, Len(c[s].frags) + 1, b),
           \A t, f, e : t # s /\ AreLast(l, t, f, e) => AreLast(m, t, f, e)
    PROVE  NextsAreLast(m, d)
<1>1. NextsAreLast(l, d)
  BY GrowthKeepsNexts
<1>2. ASSUME NEW t \in Sections, NEW back \in OptNat
      PROVE  AreLast(m, t, Len(d[t].frags) + 1, back)
  <2>1. CASE t = s
    <3> DEFINE f == Len(c[s].frags) + 1
               g == Len(d[s].frags) + 1
    <3>1. f \in Nat /\ g \in Nat /\ g > f /\ AreLast(m, s, f, b)
      BY LenProperties DEF CodeType
    <3> HIDE DEF f, g
    <3>2. AreLast(m, s, g, back)
      BY <3>1, LaterIsLast
    <3> QED
      BY <2>1, <3>2 DEF g
  <2>2. CASE t # s
    BY <1>1, <2>2 DEF NextsAreLast
  <2> QED
    BY <2>1, <2>2
<1> QED
  BY <1>2 DEF NextsAreLast
-----------------------------------------------------------------------------
(* What a statement has to keep.                                           *)
LEMMA StatementKeepsInv ==
    ASSUME IInv, UNCHANGED source, NEW e, log' = Append(log, e), e.at \in AtType,
           line'.on => line.on /\ (e.is = "insn" => e.at[1] # NoPath),
           cur' \in Sections, code' \in [Sections -> CodeType], OpenHasData',
           Kept(line', code'), NextsAreLast(line', code'), IsGenerating(line')
    PROVE  IInv'
<1>1. PICK E : log \in Seq(E)
  BY DEF IInv, TypeOK
<1> DEFINE F == E \cup {e}
<1>2. log \in Seq(F) /\ e \in F
  <2>1. E \subseteq F
    OBVIOUS
  <2> HIDE DEF F
  <2> QED
    BY <1>1, <2>1 DEF F
<1> HIDE DEF F
<1>3. /\ log' \in Seq(F) /\ Len(log') = Len(log) + 1 /\ log'[Len(log) + 1] = e
      /\ \A j \in 1 .. Len(log) : log'[j] = log[j]
  BY <1>2, AppendProperties
<1>4. Len(log) \in Nat
  BY <1>2, LenProperties
<1>5. \A j \in 1 .. Len(log') : j \in 1 .. Len(log) \/ j = Len(log) + 1
  BY <1>3, <1>4
<1>6. \A j \in 1 .. Len(log') : log'[j].at \in AtType
  BY <1>3, <1>5 DEF IInv, TypeOK
<1>7. InsnsHavePaths'
  BY <1>3, <1>5 DEF IInv, InsnsHavePaths
<1>8. TypeOK'
  BY <1>3, <1>6 DEF IInv, TypeOK, Kept
<1> QED
  BY <1>7, <1>8 DEF IInv

(* The position of what no instruction is at.                              *)
LEMMA NoLineType == NoLine \in AtType
BY DEF NoLine, AtType, PathType

(* Where data may not join leaves the fragments as they are.               *)
LEMMA SealKeeps ==
    ASSUME IInv, NEW seals \in BOOLEAN, code' = SealIf(seals), NEW l, Kept(l, code),
           NextsAreLast(l, code)
    PROVE  /\ code' \in [Sections -> CodeType] /\ OpenHasData'
           /\ Kept(l, code') /\ NextsAreLast(l, code')
<1>1. /\ code \in [Sections -> CodeType] /\ cur \in Sections
      /\ \A s \in Sections : code[s] \in CodeType
  BY DEF IInv, TypeOK
<1> DEFINE e == [code[cur] EXCEPT !.open = @ /\ ~seals]
<1>2. /\ e \in CodeType /\ e.frags = code[cur].frags /\ e.open = (code[cur].open /\ ~seals)
      /\ code' = [code EXCEPT ![cur] = e]
  BY <1>1 DEF SealIf, CodeType
<1> HIDE DEF e
<1>3. ASSUME NEW s \in Sections
      PROVE  code'[s].frags = code[s].frags /\ (code'[s].open => code[s].open)
  BY <1>1, <1>2
<1>4. code' \in [Sections -> CodeType]
  BY <1>1, <1>2
<1>5. OpenHasData'
  BY <1>3 DEF IInv, OpenHasData
<1>6. ASSUME NEW s \in Sections
      PROVE  /\ Len(code[s].frags) <= Len(code'[s].frags)
             /\ \A f \in 1 .. Len(code[s].frags) :
                   /\ code[s].frags[f].size <= code'[s].frags[f].size
                   /\ code'[s].frags[f].moves = code[s].frags[f].moves
  <2>1. code[s].frags \in Seq(FragType)
    BY <1>1 DEF CodeType
  <2>2. Len(code[s].frags) \in Nat
    BY <2>1, LenProperties
  <2>3. ASSUME NEW f \in 1 .. Len(code[s].frags)
        PROVE  code[s].frags[f].size \in Nat
    <3>1. code[s].frags[f] \in FragType
      BY <2>1, ElementOfSeq
    <3> QED
      BY <3>1 DEF FragType
  <2> QED
    BY <1>3, <2>2, <2>3
<1>7. Grows(code, code')
  BY <1>6 DEF Grows
<1> QED
  BY <1>1, <1>4, <1>5, <1>7, GrowthKeepsRows, GrowthKeepsNexts

(* What .loc gives is a location.                                          *)
LEMMA GivenType ==
    ASSUME NEW prev \in LocType, NEW arg \in DirectiveType
    PROVE  Given(prev, arg) \in LocType
<1>1. Spent(prev) \in LocType
  BY SpentType
<1>2. [DefaultLoc EXCEPT !.isStmt = prev.isStmt] \in LocType
  BY DEF DefaultLoc, LocType, Views
<1> DEFINE kept == IF IsGnu THEN Spent(prev) ELSE [DefaultLoc EXCEPT !.isStmt = prev.isStmt]
<1>3. kept \in LocType
  BY <1>1, <1>2
<1> HIDE DEF kept
<1>4. /\ (IF arg.column = Absent THEN kept.column ELSE arg.column) \in Nat
      /\ (IF arg.isa = Absent THEN kept.isa ELSE arg.isa) \in Nat
      /\ (IF arg.isStmt = Absent THEN kept.isStmt ELSE arg.isStmt = 1) \in BOOLEAN
      /\ (IF IsGnu THEN arg.view ELSE "none") \in Views
      /\ arg.file \in Nat /\ arg.line \in Nat /\ arg.disc \in Nat /\ arg.flags \in SUBSET Flags
  BY <1>3 DEF LocType, DirectiveType, OptNat, Views
<1>5. Given(prev, arg) =
        [file |-> arg.file, line |-> arg.line,
         column |-> IF arg.column = Absent THEN kept.column ELSE arg.column,
         isa |-> IF arg.isa = Absent THEN kept.isa ELSE arg.isa,
         isStmt |-> IF arg.isStmt = Absent THEN kept.isStmt ELSE arg.isStmt = 1,
         disc |-> arg.disc, flags |-> arg.flags,
         view |-> IF IsGnu THEN arg.view ELSE "none"]
  BY DEF Given, kept
<1> QED
  BY <1>4, <1>5 DEF LocType

(* .loc                                                                    *)
LEMMA DirLocKeepsInv ==
    ASSUME IInv, NEW arg \in DirectiveType, DirLoc(arg)
    PROVE  IInv'
<1> DEFINE made == ConsumeLoc(line, cur, NextFrag, Absent)
           next == [made EXCEPT !.current = Given(made.current, arg), !.pending = TRUE]
           then == ConsumeLoc(next, cur, NextFrag, Absent)
<1>1. /\ code \in [Sections -> CodeType] /\ cur \in Sections
      /\ Kept(line, code) /\ IsGenerating(line) /\ NextsAreLast(line, code) /\ line \in LineType
  BY DEF IInv, TypeOK
<1>2. NextFrag = Len(code[cur].frags) + 1
  BY DEF NextFrag
<1>3. /\ Kept(made, code) /\ IsGenerating(made) /\ NextsAreLast(made, code)
      /\ made.files = line.files /\ made.on = line.on
  BY <1>1, <1>2, ConsumeHereKeeps
<1>4. /\ line' = IF arg.bad \/ arg.file \notin line.files THEN made
                 ELSE IF next.current.view = "none" THEN next ELSE then
      /\ code' = SealIf(line.pending \/ arg.view # "none")
      /\ UNCHANGED <<source, cur>>
      /\ log' = Append(log, [Entry("loc") EXCEPT !.arg = arg])
  BY DEF DirLoc
<1> HIDE DEF made
<1>5. /\ Kept(line', code) /\ IsGenerating(line') /\ NextsAreLast(line', code)
      /\ line'.on = line.on
  <2>1. CASE arg.file \notin line.files
    BY <1>3, <1>4, <2>1
  <2>2. CASE arg.file \in line.files
    <3>1. made \in LineType /\ made.current \in LocType
      BY <1>3 DEF Kept, LineType
    <3>2. Given(made.current, arg) \in LocType
      BY <3>1, GivenType
    <3>3. /\ next \in LineType /\ next.sequences = made.sequences /\ next.index = made.index
          /\ next.on = made.on
      BY <3>1, <3>2 DEF LineType
    <3> HIDE DEF next
    <3>4. ~line.on
      BY <1>1, <2>2 DEF IsGenerating
    <3>5. Kept(next, code) /\ \A s, f, b : AreLast(made, s, f, b) => AreLast(next, s, f, b)
      BY <1>3, <3>3, SameRowsKept
    <3>6. NextsAreLast(next, code)
      BY <1>3, <3>5 DEF NextsAreLast
    <3>7. IsGenerating(next)
      BY <1>3, <3>3, <3>4 DEF IsGenerating
    <3>8. Kept(then, code) /\ IsGenerating(then) /\ NextsAreLast(then, code) /\ then.on = next.on
      BY <1>1, <1>2, <3>5, <3>6, <3>7, ConsumeHereKeeps
    <3> HIDE DEF then
    <3> QED
      BY <1>3, <1>4, <3>3, <3>5, <3>6, <3>7, <3>8
  <2> QED
    BY <2>1, <2>2
<1>6. (line.pending \/ arg.view # "none") \in BOOLEAN
  BY <1>1 DEF LineType
<1>7. /\ code' \in [Sections -> CodeType] /\ OpenHasData'
      /\ Kept(line', code') /\ NextsAreLast(line', code')
  BY <1>4, <1>5, <1>6, SealKeeps
<1> DEFINE e == [Entry("loc") EXCEPT !.arg = arg]
<1>8. e.at = NoLine /\ e.is = "loc"
  BY DEF Entry
<1> HIDE DEF e, next, then
<1> QED
  BY <1>1, <1>4, <1>5, <1>7, <1>8, NoLineType, StatementKeepsInv DEF e

(* An instruction, whose fragment its rows are in.                         *)
LEMMA InstructionKeepsInv ==
    ASSUME IInv, NEW insn \in InsnType, NEW at \in Lines, Instruction(insn, at)
    PROVE  IInv'
<1> DEFINE emits == insn.frag.size > 0
           frag == NextFrag
           rowed == SourceRow(line, cur, frag, insn.back, at)
           done == ConsumeLoc(rowed, cur, frag, insn.back)
           e == [Entry("insn") EXCEPT !.emits = emits, !.back = insn.back, !.at = at]
           p == Push(code[cur], insn.frag)
<1>1. /\ code \in [Sections -> CodeType] /\ cur \in Sections /\ code[cur] \in CodeType
      /\ Kept(line, code) /\ IsGenerating(line) /\ NextsAreLast(line, code) /\ line \in LineType
      /\ \A j \in 1 .. Len(log) : log[j].at \in AtType
  BY DEF IInv, TypeOK
<1>2. /\ line' = IF emits THEN done ELSE line
      /\ code' = [code EXCEPT ![cur] = p]
      /\ UNCHANGED <<source, cur>> /\ log' = Append(log, e)
  BY DEF Instruction
<1>3. e.at = at /\ e.is = "insn"
  BY DEF Entry
<1>4. insn.frag \in FragType /\ insn.back \in OptNat
      /\ (insn.back # Absent => insn.back <= insn.frag.size /\ ~insn.frag.moves)
  BY DEF InsnType
<1>5. Len(log) \in Nat
  <2>1. PICK E : log \in Seq(E)
    BY DEF IInv, TypeOK
  <2> QED
    BY <2>1, LenProperties
<1>6. at \in AtType /\ (line.on => at[1] # NoPath)
  <2>1. CASE ~line.on
    BY <2>1, NoLineType DEF Lines
  <2>2. CASE line.on
    <3>1. \/ at = <<"main", Len(log) + 1>> \/ at = <<"other", 1>>
          \/ /\ log # <<>> /\ log[Len(log)].is = "insn" /\ at = log[Len(log)].at
      BY <2>2 DEF Lines
    <3>2. CASE at = <<"main", Len(log) + 1>> \/ at = <<"other", 1>>
      <4>1. "main" \in PathType /\ "other" \in PathType /\ "main" # NoPath /\ "other" # NoPath
        BY DEF PathType, NoPath
      <4>2. Len(log) + 1 \in Nat
        BY <1>5
      <4>3. at \in PathType \X Nat
        BY <3>2, <4>1, <4>2
      <4>4. at[1] = "main" \/ at[1] = "other"
        BY <3>2
      <4> QED
        BY <4>1, <4>3, <4>4 DEF AtType
    <3>3. CASE log # <<>> /\ log[Len(log)].is = "insn" /\ at = log[Len(log)].at
      <4>1. Len(log) \in 1 .. Len(log)
        <5>1. PICK E : log \in Seq(E)
          BY DEF IInv, TypeOK
        <5> QED
          BY <3>3, <5>1, EmptySeq, LenProperties
      <4> QED
        BY <1>1, <2>2, <3>3, <4>1 DEF IInv, InsnsHavePaths
    <3> QED
      BY <3>1, <3>2, <3>3
  <2> QED
    BY <2>1, <2>2
<1>7. /\ p \in CodeType /\ Len(p.frags) = Len(code[cur].frags) + 1
      /\ p.frags[Len(code[cur].frags) + 1] = insn.frag
      /\ \A f \in 1 .. Len(code[cur].frags) :
            /\ code[cur].frags[f].size <= p.frags[f].size
            /\ p.frags[f].moves = code[cur].frags[f].moves
      /\ ~p.open /\ Len(code[cur].frags) \in Nat
  BY <1>1, <1>4, PushGrows
<1> HIDE DEF p, e
<1>8. Len(code[cur].frags) <= Len(p.frags)
  BY <1>7
<1>9. code' \in [Sections -> CodeType] /\ Grows(code, code')
  BY <1>1, <1>2, <1>7, <1>8, OneGrows
<1>10. code'[cur] = p /\ \A s \in Sections : s # cur => code'[s] = code[s]
  BY <1>1, <1>2
<1>11. OpenHasData'
  BY <1>7, <1>10 DEF IInv, OpenHasData
<1>12. Kept(line, code')
  BY <1>1, <1>9, GrowthKeepsRows
<1>13. frag = Len(code[cur].frags) + 1 /\ frag \in Nat /\ frag = Len(p.frags)
  BY <1>7 DEF NextFrag
<1>14. Fits([section |-> cur, frag |-> frag, back |-> insn.back], code')
  BY <1>4, <1>7, <1>10, <1>13 DEF Fits
<1>15. AreLast(line, cur, frag, insn.back)
  BY <1>1, <1>4, <1>13 DEF NextsAreLast
<1> HIDE DEF frag
<1>16. /\ Kept(rowed, code') /\ AreLast(rowed, cur, frag, insn.back) /\ IsGenerating(rowed)
       /\ \A t, f, b : t # cur /\ AreLast(line, t, f, b) => AreLast(rowed, t, f, b)
  BY <1>1, <1>4, <1>6, <1>12, <1>13, <1>14, <1>15, SourceRowKeeps
<1>17. rowed.on = line.on
  BY <1>1 DEF SourceRow, PushRow, LineType
<1> HIDE DEF rowed
<1>18. /\ Kept(done, code') /\ AreLast(done, cur, frag, insn.back) /\ IsGenerating(done)
       /\ \A t, f, b : t # cur /\ AreLast(rowed, t, f, b) => AreLast(done, t, f, b)
       /\ done.on = rowed.on
  BY <1>1, <1>4, <1>13, <1>14, <1>16, ConsumeLocKeeps
<1> HIDE DEF done
<1>19. NextsAreLast(done, code')
  <2>1. \A t, f, b : t # cur /\ AreLast(line, t, f, b) => AreLast(done, t, f, b)
    BY <1>16, <1>18
  <2>2. /\ Len(code'[cur].frags) = Len(code[cur].frags) + 1
        /\ AreLast(done, cur, Len(code[cur].frags) + 1, insn.back)
    BY <1>7, <1>10, <1>13, <1>18
  <2> QED
    BY <1>1, <1>9, <1>18, <2>1, <2>2, NextsAfterRows
<1>20. NextsAreLast(line, code')
  BY <1>1, <1>9, GrowthKeepsNexts
<1>21. /\ Kept(line', code') /\ NextsAreLast(line', code') /\ IsGenerating(line')
       /\ line'.on = line.on
  BY <1>1, <1>2, <1>12, <1>17, <1>18, <1>19, <1>20
<1> QED
  BY <1>1, <1>2, <1>3, <1>6, <1>9, <1>11, <1>21, StatementKeepsInv

(* Data, which llvm-mc gives a row at its start.                           *)
LEMMA DataKeepsInv ==
    ASSUME IInv, Data
    PROVE  IInv'
<1> DEFINE rows == line.pending /\ ~IsGnu
           m == ConsumeLoc(line, cur, NextFrag, Absent)
           before == [code[cur] EXCEPT !.open = @ /\ ~rows]
           after == EmitByte(before)
<1>1. /\ code \in [Sections -> CodeType] /\ cur \in Sections /\ code[cur] \in CodeType
      /\ Kept(line, code) /\ IsGenerating(line) /\ NextsAreLast(line, code) /\ line \in LineType
  BY DEF IInv, TypeOK
<1>2. /\ line' = IF rows THEN m ELSE line
      /\ code' = [code EXCEPT ![cur] = after]
      /\ UNCHANGED <<source, cur>> /\ log' = Append(log, Entry("data"))
  BY DEF Data
<1>3. Entry("data").at = NoLine /\ Entry("data").is = "data"
  BY DEF Entry
<1>4. /\ Kept(m, code) /\ IsGenerating(m) /\ NextsAreLast(m, code) /\ m.on = line.on
  BY <1>1, ConsumeHereKeeps DEF NextFrag
<1> HIDE DEF m
<1>5. /\ Kept(line', code) /\ IsGenerating(line') /\ NextsAreLast(line', code)
      /\ line'.on = line.on
  BY <1>1, <1>2, <1>4
<1>6. rows \in BOOLEAN
  OBVIOUS
<1> HIDE DEF rows
<1>7. /\ before \in CodeType /\ before.frags = code[cur].frags
      /\ (before.open => code[cur].open)
  BY <1>1, <1>6 DEF CodeType
<1>8. before.open => Len(before.frags) > 0
  BY <1>1, <1>7 DEF IInv, OpenHasData
<1> HIDE DEF before
<1>9. /\ after \in CodeType /\ Len(code[cur].frags) <= Len(after.frags)
      /\ \A f \in 1 .. Len(code[cur].frags) :
            /\ code[cur].frags[f].size <= after.frags[f].size
            /\ after.frags[f].moves = code[cur].frags[f].moves
      /\ Len(after.frags) > 0
  BY <1>7, <1>8, EmitByteGrows
<1> HIDE DEF after
<1>10. code' \in [Sections -> CodeType] /\ Grows(code, code')
  BY <1>1, <1>2, <1>9, OneGrows
<1>11. OpenHasData'
  BY <1>1, <1>2, <1>9 DEF IInv, OpenHasData
<1>12. Kept(line', code') /\ NextsAreLast(line', code')
  BY <1>1, <1>5, <1>10, GrowthKeepsRows, GrowthKeepsNexts
<1> QED
  BY <1>1, <1>2, <1>3, <1>5, <1>10, <1>11, <1>12, NoLineType, StatementKeepsInv

(* Padding, which has no row.                                              *)
LEMMA AlignKeepsInv ==
    ASSUME IInv, NEW frag \in FragType, Align(frag)
    PROVE  IInv'
<1> DEFINE p == Push(code[cur], frag)
<1>1. /\ code \in [Sections -> CodeType] /\ cur \in Sections /\ code[cur] \in CodeType
      /\ Kept(line, code) /\ IsGenerating(line) /\ NextsAreLast(line, code)
  BY DEF IInv, TypeOK
<1>2. /\ code' = [code EXCEPT ![cur] = p]
      /\ UNCHANGED <<source, cur, line>> /\ log' = Append(log, Entry("align"))
  BY DEF Align
<1>3. Entry("align").at = NoLine /\ Entry("align").is = "align"
  BY DEF Entry
<1>4. /\ p \in CodeType /\ Len(p.frags) = Len(code[cur].frags) + 1
      /\ \A f \in 1 .. Len(code[cur].frags) :
            /\ code[cur].frags[f].size <= p.frags[f].size
            /\ p.frags[f].moves = code[cur].frags[f].moves
      /\ ~p.open /\ Len(code[cur].frags) \in Nat
  BY <1>1, PushGrows
<1> HIDE DEF p
<1>5. Len(code[cur].frags) <= Len(p.frags)
  BY <1>4
<1>6. code' \in [Sections -> CodeType] /\ Grows(code, code')
  BY <1>1, <1>2, <1>4, <1>5, OneGrows
<1>7. OpenHasData'
  BY <1>1, <1>2, <1>4 DEF IInv, OpenHasData
<1>8. Kept(line', code') /\ NextsAreLast(line', code') /\ IsGenerating(line')
  BY <1>1, <1>2, <1>6, GrowthKeepsRows, GrowthKeepsNexts
<1> QED
  BY <1>1, <1>2, <1>3, <1>6, <1>7, <1>8, NoLineType, StatementKeepsInv

(* A state of the line table with the same rows, where code is as it was.  *)
LEMMA SameRowsKeepInv ==
    ASSUME IInv, UNCHANGED <<source, code>>, NEW e, log' = Append(log, e), e.at \in AtType,
           e.is # "insn", cur' \in Sections, line'.on => line.on,
           line' \in LineType, line'.sequences = line.sequences, line'.index = line.index,
           IsGenerating(line')
    PROVE  IInv'
<1>1. code \in [Sections -> CodeType] /\ Kept(line, code) /\ NextsAreLast(line, code)
  BY DEF IInv, TypeOK
<1>2. Kept(line', code') /\ \A s, f, b : AreLast(line, s, f, b) => AreLast(line', s, f, b)
  BY <1>1, SameRowsKept
<1>3. NextsAreLast(line', code')
  BY <1>1, <1>2 DEF NextsAreLast
<1>4. OpenHasData'
  BY DEF IInv, OpenHasData
<1> QED
  BY <1>1, <1>2, <1>3, <1>4, StatementKeepsInv

(* Another section, where llvm-mc forgets the .loc that waits.             *)
LEMMA SwitchSectionKeepsInv ==
    ASSUME IInv, NEW s \in Sections, NEW named \in BOOLEAN, SwitchSection(s, named)
    PROVE  IInv'
<1> DEFINE e == [Entry("section") EXCEPT !.section = s, !.emits = named]
<1>1. line \in LineType /\ IsGenerating(line)
  BY DEF IInv, TypeOK
<1>2. /\ UNCHANGED <<source, code>> /\ cur' = s /\ log' = Append(log, e)
      /\ line' = [line EXCEPT
            !.pending = @ /\ (IsGnu \/ s = cur),
            !.described = IF named /\ line.on /\ s \in CodeSections THEN @ \cup {s} ELSE @]
  BY DEF SwitchSection
<1>3. e.at = NoLine /\ e.is = "section"
  BY DEF Entry
<1> HIDE DEF e
<1>4. /\ line' \in LineType /\ line'.sequences = line.sequences /\ line'.index = line.index
      /\ line'.on = line.on /\ line'.files = line.files /\ (line'.pending => line.pending)
  BY <1>1, <1>2 DEF LineType
<1>5. IsGenerating(line')
  BY <1>1, <1>4 DEF IsGenerating
<1> QED
  BY <1>2, <1>3, <1>4, <1>5, NoLineType, SameRowsKeepInv

(* .loc_mark_labels, which only says what labels do from then on.          *)
LEMMA DirLocMarkLabelsKeepsInv ==
    ASSUME IInv, NEW on \in BOOLEAN, DirLocMarkLabels(on)
    PROVE  IInv'
<1> DEFINE e == [Entry("mark") EXCEPT !.emits = on]
<1>1. line \in LineType /\ IsGenerating(line) /\ cur \in Sections
  BY DEF IInv, TypeOK
<1>2. /\ UNCHANGED <<source, code, cur>> /\ log' = Append(log, e)
      /\ line' = [line EXCEPT !.markLabels = on]
  BY DEF DirLocMarkLabels
<1>3. e.at = NoLine /\ e.is = "mark"
  BY DEF Entry
<1> HIDE DEF e
<1>4. /\ line' \in LineType /\ line'.sequences = line.sequences /\ line'.index = line.index
      /\ line'.on = line.on /\ line'.files = line.files /\ line'.pending = line.pending
  BY <1>1, <1>2 DEF LineType
<1>5. IsGenerating(line')
  BY <1>1, <1>4 DEF IsGenerating
<1> QED
  BY <1>1, <1>2, <1>3, <1>4, <1>5, NoLineType, SameRowsKeepInv

(* A label whose row is at the position of what comes next.                *)
LEMMA LabelKeepsInv ==
    ASSUME IInv, Label
    PROVE  IInv'
<1> DEFINE marked == [line.current EXCEPT !.flags = @ \cup {"basic_block"}]
           rows == line.markLabels /\ IsGnu /\ line.files # {} /\ cur \in CodeSections
           row == Row(cur, NextFrag, marked, Absent, NoPath)
           pushed == PushRow(line, row)
           m == [pushed EXCEPT !.pending = FALSE, !.current = Spent(@)]
<1>1. /\ code \in [Sections -> CodeType] /\ cur \in Sections /\ code[cur] \in CodeType
      /\ Kept(line, code) /\ IsGenerating(line) /\ NextsAreLast(line, code) /\ line \in LineType
      /\ line.current \in LocType
  BY DEF IInv, TypeOK, LineType
<1>2. /\ line' = IF ~rows THEN line ELSE m
      /\ code' = SealIf(TRUE)
      /\ UNCHANGED <<source, cur>> /\ log' = Append(log, Entry("label"))
  <2>1. line' = IF ~rows THEN line ELSE m
    BY ZenonT(30) DEF Label
  <2>2. /\ code' = SealIf(TRUE)
        /\ UNCHANGED <<source, cur>> /\ log' = Append(log, Entry("label"))
    BY DEF Label
  <2> QED
    BY <2>1, <2>2
<1>3. Entry("label").at = NoLine /\ Entry("label").is = "label"
  BY DEF Entry
<1>4. ASSUME rows
      PROVE  /\ Kept(m, code) /\ NextsAreLast(m, code) /\ IsGenerating(m) /\ m.on = line.on
  <2>1. ~line.on
    BY <1>1, <1>4 DEF IsGenerating
  <2>2. marked \in LocType
    BY <1>1 DEF LocType, Flags
  <2>3. NextFrag = Len(code[cur].frags) + 1 /\ Len(code[cur].frags) \in Nat
    BY <1>1, LenProperties DEF NextFrag, CodeType
  <2> HIDE DEF marked
  <2>4. /\ row \in RowType /\ row.section = cur /\ row.frag = NextFrag /\ row.back = Absent
    BY <1>1, <2>2, <2>3 DEF Row, RowType, OptNat, PathType
  <2> HIDE DEF row
  <2>5. Fits(row, code)
    BY <2>3, <2>4 DEF Fits
  <2>6. AreLast(line, row.section, row.frag, row.back)
    BY <1>1, <2>3, <2>4 DEF NextsAreLast, OptNat
  <2>7. /\ Kept(pushed, code) /\ AreLast(pushed, cur, NextFrag, Absent)
        /\ \A s, f, back : s # cur /\ AreLast(line, s, f, back) => AreLast(pushed, s, f, back)
        /\ pushed.on = line.on /\ pushed.current = line.current
    BY <1>1, <2>4, <2>5, <2>6, PushRowKeeps
  <2>8. pushed \in LineType
    BY <2>7 DEF Kept
  <2> HIDE DEF pushed
  <2>9. /\ m \in LineType /\ m.sequences = pushed.sequences /\ m.index = pushed.index
        /\ m.on = line.on
    BY <2>7, <2>8, <1>1, SpentType DEF LineType
  <2> HIDE DEF m
  <2>10. Kept(m, code) /\ \A s, f, back : AreLast(pushed, s, f, back) => AreLast(m, s, f, back)
    BY <2>7, <2>9, SameRowsKept
  <2>11. ASSUME NEW t \in Sections, NEW back \in OptNat
         PROVE  AreLast(m, t, Len(code[t].frags) + 1, back)
    <3>1. CASE t = cur
      BY <2>3, <2>7, <2>10, <3>1, StartIsFirst
    <3>2. CASE t # cur
      BY <1>1, <2>7, <2>10, <3>2 DEF NextsAreLast
    <3> QED
      BY <3>1, <3>2
  <2> QED
    BY <2>1, <2>9, <2>10, <2>11 DEF NextsAreLast, IsGenerating
<1> HIDE DEF rows, m
<1>5. /\ Kept(line', code) /\ IsGenerating(line') /\ NextsAreLast(line', code)
      /\ line'.on = line.on
  BY <1>1, <1>2, <1>4
<1>6. /\ code' \in [Sections -> CodeType] /\ OpenHasData'
      /\ Kept(line', code') /\ NextsAreLast(line', code')
  BY <1>2, <1>5, SealKeeps
<1> QED
  BY <1>1, <1>2, <1>3, <1>5, <1>6, NoLineType, StatementKeepsInv

(* A numbered .file, from which on no rows are made for the source.        *)
LEMMA DirFileKeepsInv ==
    ASSUME IInv, NEW n \in Nat, DirFile(n)
    PROVE  IInv'
<1> DEFINE e == [Entry("file") EXCEPT !.arg.file = n]
           m == StopGenerating(line)
<1>1. /\ code \in [Sections -> CodeType] /\ cur \in Sections
      /\ Kept(line, code) /\ IsGenerating(line) /\ NextsAreLast(line, code) /\ line \in LineType
  BY DEF IInv, TypeOK
<1>2. /\ UNCHANGED <<source, code, cur>> /\ log' = Append(log, e)
      /\ line' = [m EXCEPT !.files = @ \cup {n}]
  BY DEF DirFile
<1>3. e.at = NoLine /\ e.is = "file"
  BY DEF Entry
<1> HIDE DEF e
<1>4. /\ Kept(m, code) /\ ~m.on
      /\ \A s, f, b : AreLast(line, s, f, b) => AreLast(m, s, f, b)
  BY <1>1, StopGeneratingKeeps
<1>5. m \in LineType
  BY <1>4 DEF Kept
<1> HIDE DEF m
<1>6. /\ line' \in LineType /\ line'.sequences = m.sequences /\ line'.index = m.index
      /\ line'.on = m.on
  BY <1>2, <1>5 DEF LineType
<1>7. Kept(line', code) /\ \A s, f, b : AreLast(m, s, f, b) => AreLast(line', s, f, b)
  BY <1>4, <1>6, SameRowsKept
<1>8. NextsAreLast(line', code')
  BY <1>1, <1>2, <1>4, <1>7 DEF NextsAreLast
<1>9. IsGenerating(line')
  BY <1>4, <1>6 DEF IsGenerating
<1>10. OpenHasData'
  BY <1>2 DEF IInv, OpenHasData
<1> QED
  BY <1>1, <1>2, <1>3, <1>4, <1>6, <1>7, <1>8, <1>9, <1>10, NoLineType, StatementKeepsInv

(* Every step keeps what rows are kept by; linking leaves them as they are.*)
LEMMA NextKeepsInv ==
    ASSUME IInv, [Next]_vars
    PROVE  IInv'
<1>1. /\ source.locs \subseteq DirectiveType /\ source.insns \subseteq InsnType
      /\ source.aligns \subseteq FragType /\ source.files \subseteq Nat
      /\ line.on \in BOOLEAN
  BY DEF IInv, TypeOK, SourceType, LineType
<1>2. CASE \E arg \in source.locs : DirLoc(arg)
  BY <1>1, <1>2, DirLocKeepsInv
<1>3. CASE \E insn \in source.insns, at \in Lines : Instruction(insn, at)
  BY <1>1, <1>3, InstructionKeepsInv
<1>4. CASE Data
  BY <1>4, DataKeepsInv
<1>5. CASE \E frag \in source.aligns : Align(frag)
  BY <1>1, <1>5, AlignKeepsInv
<1>6. CASE \E s \in Sections, named \in {FALSE, line.on} : SwitchSection(s, named)
  BY <1>1, <1>6, SwitchSectionKeepsInv
<1>7. CASE Label
  BY <1>7, LabelKeepsInv
<1>8. CASE \E on \in BOOLEAN : DirLocMarkLabels(on)
  BY <1>8, DirLocMarkLabelsKeepsInv
<1>9. CASE \E n \in source.files : DirFile(n)
  BY <1>1, <1>9, DirFileKeepsInv
<1>10. CASE (\E taken \in SUBSET Moving : Link(taken)) \/ UNCHANGED vars
  <2>1. UNCHANGED <<source, code, cur, line, log>>
    BY <1>10 DEF Link, vars
  <2> QED
    BY <2>1 DEF IInv, TypeOK, OpenHasData, InsnsHavePaths
<1> QED
  BY <1>2, <1>3, <1>4, <1>5, <1>6, <1>7, <1>8, <1>9, <1>10 DEF Next

(* Whatever the statements of the source and however they are mixed, the   *)
(* rows of a section are in one sequence, in which they never go back: a   *)
(* distance that would be negative is never written as none (line_program).*)
THEOREM RowsStayOrdered == Spec => []RowsAreOrdered
<1>1. Spec => []IInv
  BY InitInv, NextKeepsInv, PTL DEF Spec
<1> QED
  BY <1>1, InvGivesOrder, PTL

-----------------------------------------------------------------------------
(***************************************************************************)
(* Positions.  Offset is a sum over the fragments before one.              *)
(***************************************************************************)
IsOffset(g, frags, last) ==
    g = [f \in 0..last |-> IF f = 0 THEN 0 ELSE g[f - 1] + frags[f].size]

(* There are such sums.                                                    *)
LEMMA OffsetsExist ==
    ASSUME NEW frags, NEW last \in Nat
    PROVE  \E g : IsOffset(g, frags, last)
<1> DEFINE S == {n \in Nat : \E g : IsOffset(g, frags, n)}
<1>1. 0 \in S
  <2>1. IsOffset([f \in 0..0 |-> 0], frags, 0)
    BY DEF IsOffset
  <2> QED
    BY <2>1
<1>2. ASSUME NEW n \in Nat, n \in S
      PROVE  n + 1 \in S
  <2>1. PICK g : IsOffset(g, frags, n)
    BY <1>2
  <2> DEFINE h == [f \in 0 .. n + 1 |-> IF f = n + 1 THEN g[n] + frags[f].size ELSE g[f]]
  <2>2. ASSUME NEW f \in 0 .. n + 1
        PROVE  h[f] = IF f = 0 THEN 0 ELSE h[f - 1] + frags[f].size
    <3>1. CASE f = n + 1
      BY <3>1
    <3>2. CASE f # n + 1
      BY <2>1, <3>2 DEF IsOffset
    <3> QED
      BY <3>1, <3>2
  <2>3. h = [f \in 0 .. n + 1 |-> h[f]]
    OBVIOUS
  <2> HIDE DEF h
  <2>4. IsOffset(h, frags, n + 1)
    BY <2>2, <2>3 DEF IsOffset
  <2> QED
    BY <2>4
<1> HIDE DEF S
<1>3. last \in S
  BY <1>1, <1>2, InductionBySets
<1> QED
  BY <1>3 DEF S

(* The start of each fragment, and of what comes after the last.           *)
LEMMA OffsetProperties ==
    ASSUME NEW frags \in Seq(FragType)
    PROVE  /\ Offset(frags, 1) = 0
           /\ \A f \in 1 .. Len(frags) : Offset(frags, f + 1) = Offset(frags, f) + frags[f].size
           /\ \A f \in 1 .. Len(frags) + 1 : Offset(frags, f) \in Nat
<1> DEFINE n == Len(frags)
<1>1. n \in Nat /\ \A f \in 1..n : frags[f].size \in Nat
  <2>1. n \in Nat /\ \A f \in 1..n : frags[f] \in FragType
    BY LenProperties, ElementOfSeq
  <2> QED
    BY <2>1 DEF FragType
<1> DEFINE g == CHOOSE g : IsOffset(g, frags, n)
<1>2. \A f : Offset(frags, f) = g[f - 1]
  BY DEF Offset, IsOffset
<1>3. IsOffset(g, frags, n)
  BY <1>1, OffsetsExist
<1> HIDE DEF g, n
<1>4. \A f \in 0..n : g[f] = IF f = 0 THEN 0 ELSE g[f - 1] + frags[f].size
  BY <1>3 DEF IsOffset
<1> DEFINE S == {f \in Nat : f <= n => g[f] \in Nat}
<1>5. 0 \in S
  BY <1>1, <1>4
<1>6. ASSUME NEW f \in Nat, f \in S
      PROVE  f + 1 \in S
  <2>1. ASSUME f + 1 <= n
        PROVE  g[f + 1] \in Nat
    BY <1>1, <1>4, <1>6, <2>1
  <2> QED
    BY <2>1
<1> HIDE DEF S
<1>7. Nat \subseteq S
  BY <1>5, <1>6, InductionBySets
<1>8. \A f \in 0..n : g[f] \in Nat
  BY <1>1, <1>7 DEF S
<1>9. ASSUME NEW f \in 1..n
      PROVE  Offset(frags, f + 1) = Offset(frags, f) + frags[f].size
  BY <1>1, <1>2, <1>4
<1>10. ASSUME NEW f \in 1 .. n + 1
       PROVE  Offset(frags, f) \in Nat
  BY <1>1, <1>2, <1>8
<1>11. Offset(frags, 1) = 0
  BY <1>1, <1>2, <1>4
<1> QED
  BY <1>9, <1>10, <1>11 DEF n

(* What a linker may make of the code: fragments it may move code after    *)
(* can be smaller.                                                         *)
Shrunk(frags, linkedFrags) ==
    /\ linkedFrags \in Seq(FragType)
    /\ Len(linkedFrags) = Len(frags)
    /\ \A f \in 1 .. Len(frags) :
          \/ linkedFrags[f].size = frags[f].size
          \/ linkedFrags[f].size < frags[f].size /\ frags[f].moves

(* How far apart the starts of two fragments are, before and after.        *)
LEMMA OffsetsApart ==
    ASSUME NEW frags \in Seq(FragType), NEW lf, Shrunk(frags, lf),
           NEW f \in 1 .. Len(frags) + 1, NEW g \in f .. Len(frags) + 1
    PROVE  LET before == Offset(frags, g) - Offset(frags, f)
               after == Offset(lf, g) - Offset(lf, f)
           IN  /\ 0 <= after /\ after <= before
               /\ \/ after = before
                  \/ \E h \in f .. g - 1 : frags[h].moves /\ frags[h].size > 0
<1> DEFINE n == Len(frags)
           before(k) == Offset(frags, k) - Offset(frags, f)
           after(k) == Offset(lf, k) - Offset(lf, f)
           Fine(k) == /\ 0 <= after(k) /\ after(k) <= before(k)
                      /\ \/ after(k) = before(k)
                         \/ \E h \in f .. k - 1 : frags[h].moves /\ frags[h].size > 0
           S == {d \in Nat : f + d <= n + 1 => Fine(f + d)}
<1>1. /\ n \in Nat /\ lf \in Seq(FragType) /\ Len(lf) = n
      /\ \A k \in 1 .. n + 1 : Offset(frags, k) \in Nat /\ Offset(lf, k) \in Nat
      /\ \A k \in 1..n : /\ Offset(frags, k + 1) = Offset(frags, k) + frags[k].size
                         /\ Offset(lf, k + 1) = Offset(lf, k) + lf[k].size
                         /\ frags[k].size \in Nat /\ lf[k].size \in Nat
  <2>1. n \in Nat /\ lf \in Seq(FragType) /\ Len(lf) = n
    BY LenProperties DEF Shrunk
  <2>2. \A k \in 1..n : frags[k].size \in Nat /\ lf[k].size \in Nat
    <3>1. \A k \in 1..n : frags[k] \in FragType /\ lf[k] \in FragType
      BY <2>1, ElementOfSeq
    <3> QED
      BY <3>1 DEF FragType
  <2> QED
    BY <2>1, <2>2, OffsetProperties
<1>2. 0 \in S
  BY <1>1
<1>3. ASSUME NEW d \in Nat, d \in S
      PROVE  d + 1 \in S
  <2>1. ASSUME f + (d + 1) <= n + 1
        PROVE  Fine(f + (d + 1))
    <3> DEFINE m == f + d
    <3>1. m \in 1..n /\ m \in 1 .. n + 1 /\ m + 1 = f + (d + 1) /\ m \in f .. (m + 1) - 1
          /\ m + 1 \in 1 .. n + 1
      <4>1. f \in Int /\ 1 <= f /\ n \in Nat /\ f + (d + 1) <= n + 1
        BY <1>1, <2>1
      <4> HIDE DEF n
      <4> QED
        BY <4>1
    <3>2. Fine(m)
      <4> HIDE DEF Fine
      <4>1. f + d <= n + 1
        BY <3>1
      <4> QED
        BY <1>3, <4>1
    <3> HIDE DEF m
    <3>3. /\ Offset(frags, m + 1) = Offset(frags, m) + frags[m].size
          /\ Offset(lf, m + 1) = Offset(lf, m) + lf[m].size
          /\ frags[m].size \in Nat /\ lf[m].size \in Nat
          /\ Offset(frags, m) \in Nat /\ Offset(lf, m) \in Nat
          /\ Offset(frags, f) \in Nat /\ Offset(lf, f) \in Nat
      BY <1>1, <3>1
    <3>4. /\ after(m + 1) = after(m) + lf[m].size /\ before(m + 1) = before(m) + frags[m].size
          /\ after(m) \in Int /\ before(m) \in Int
      <4> DEFINE start == Offset(frags, f)   lstart == Offset(lf, f)
                 here == Offset(frags, m)    lhere == Offset(lf, m)
                 size == frags[m].size       lsize == lf[m].size
                 next == Offset(frags, m + 1)
                 lnext == Offset(lf, m + 1)
      <4>1. /\ start \in Nat /\ here \in Nat /\ size \in Nat /\ next = here + size
            /\ lstart \in Nat /\ lhere \in Nat /\ lsize \in Nat /\ lnext = lhere + lsize
        BY <3>3
      <4>2. /\ after(m + 1) = lnext - lstart /\ before(m + 1) = next - start
            /\ after(m) = lhere - lstart /\ before(m) = here - start
        OBVIOUS
      <4> HIDE DEF start, lstart, here, lhere, size, lsize, next, lnext, before, after
      <4>3. /\ lnext - lstart = (lhere - lstart) + lsize /\ next - start = (here - start) + size
            /\ lhere - lstart \in Int /\ here - start \in Int
        BY <4>1
      <4> QED
        BY <4>2, <4>3 DEF size, lsize
    <3>5. \/ lf[m].size = frags[m].size
          \/ lf[m].size < frags[m].size /\ frags[m].moves /\ frags[m].size > 0
      BY <3>1, <3>3 DEF Shrunk
    <3>6. \A h \in f .. m - 1 : h \in f .. (m + 1) - 1
      BY <3>1
    <3> HIDE DEF after, before
    <3>7. 0 <= after(m + 1) /\ after(m + 1) <= before(m + 1)
      <4>1. 0 <= after(m) /\ after(m) <= before(m)
        BY <3>2 DEF Fine
      <4>2. /\ lf[m].size <= frags[m].size /\ 0 <= lf[m].size
            /\ lf[m].size \in Int /\ frags[m].size \in Int
        BY <3>3, <3>5, SMTT(30)
      <4>3. 0 <= after(m) + lf[m].size /\ after(m) + lf[m].size <= before(m) + frags[m].size
        BY <3>4, <4>1, <4>2
      <4> QED
        BY <3>4, <4>3
    <3>8. \/ after(m + 1) = before(m + 1)
          \/ \E h \in f .. (m + 1) - 1 : frags[h].moves /\ frags[h].size > 0
      BY <3>1, <3>2, <3>3, <3>4, <3>5, <3>6
    <3> QED
      BY <3>1, <3>7, <3>8
  <2> HIDE DEF Fine
  <2> QED
    BY <2>1
<1> HIDE DEF S
<1>4. g - f \in Nat /\ g - f \in S
  <2>1. Nat \subseteq S
    BY <1>2, <1>3, InductionBySets
  <2> QED
    BY <1>1, <2>1
<1>5. Fine(f + (g - f)) /\ f + (g - f) = g
  BY <1>1, <1>4 DEF S
<1> QED
  BY <1>5

(* A row is in a fragment or at the end of all, and some bytes before the  *)
(* end of a fragment only where no linker moves code.                      *)
FitsIn(row, frags) ==
    /\ row.frag \in 1 .. Len(frags) + 1 /\ row.back \in OptNat
    /\ row.back # Absent =>
          /\ row.frag <= Len(frags)
          /\ row.back <= frags[row.frag].size /\ ~frags[row.frag].moves

(* The distance of a row into its fragment, which a linker does not change.*)
LEMMA RowIsAt ==
    ASSUME NEW frags \in Seq(FragType), NEW row, FitsIn(row, frags)
    PROVE  \E o \in Nat :
              /\ RowAddr(frags, row) = Offset(frags, row.frag) + o
              /\ RowAddr(frags, row) \in Nat
              /\ At(frags, row) = [frag |-> row.frag, off |-> o]
              /\ row.back = Absent => o = 0
              /\ row.back # Absent => o = frags[row.frag].size - row.back
              /\ o # 0 => /\ row.frag \in 1 .. Len(frags) /\ ~frags[row.frag].moves
                          /\ o <= frags[row.frag].size
<1> DEFINE start == Offset(frags, row.frag)
<1>1. start \in Nat /\ Len(frags) \in Nat
  BY LenProperties, OffsetProperties DEF FitsIn
<1>2. CASE row.back = Absent
  <2>1. RowAddr(frags, row) = start + 0 /\ start - start = 0 /\ start + 0 = start
    BY <1>1, <1>2 DEF RowAddr
  <2> QED
    BY <1>1, <1>2, <2>1 DEF At, Place
<1>3. CASE row.back # Absent
  <2> DEFINE size == frags[row.frag].size
             o == size - row.back
  <2>1. /\ row.frag \in 1 .. Len(frags) /\ row.back \in Nat /\ row.back <= size
        /\ ~frags[row.frag].moves
    BY <1>1, <1>3 DEF FitsIn, OptNat
  <2>2. frags[row.frag] \in FragType
    BY <2>1, ElementOfSeq
  <2>3. size \in Nat
    BY <2>2 DEF FragType
  <2>4. Offset(frags, row.frag + 1) = start + size
    BY <2>1, OffsetProperties
  <2> HIDE DEF start, size
  <2>5. o \in Nat /\ o <= size /\ row.back <= start + size
        /\ (start + size) - row.back = start + o /\ (start + o) - start = o /\ start + o \in Nat
    BY <1>1, <2>1, <2>3
  <2>6. RowAddr(frags, row) = start + o
    <3>1. RowAddr(frags, row) = IF row.back > start + size THEN 0 ELSE (start + size) - row.back
      BY <1>3, <2>4 DEF RowAddr
    <3> QED
      BY <1>1, <2>1, <2>3, <2>5, <3>1
  <2>7. At(frags, row) = [frag |-> row.frag, off |-> o]
    BY <2>5, <2>6 DEF At, Place, start
  <2>8. o = frags[row.frag].size - row.back
    BY DEF size
  <2> HIDE DEF o
  <2>9. o <= frags[row.frag].size
    BY <2>5 DEF size
  <2> QED
    BY <1>3, <2>1, <2>5, <2>6, <2>7, <2>8, <2>9 DEF start
<1> QED
  BY <1>2, <1>3

(* How far apart two rows are, and how far a linker leaves them.           *)
LEMMA RowsApart ==
    ASSUME NEW frags \in Seq(FragType), NEW lf, Shrunk(frags, lf),
           NEW first, FitsIn(first, frags), NEW second, FitsIn(second, frags),
           Follows(first, second)
    PROVE  LET from == RowAddr(frags, first)
               to == RowAddr(frags, second)
               after == LinkedAddress(lf, At(frags, second)) - LinkedAddress(lf, At(frags, first))
           IN  /\ from \in Nat /\ to \in Nat /\ from <= to
               /\ LinkedAddress(lf, At(frags, second)) \in Nat
               /\ LinkedAddress(lf, At(frags, first)) \in Nat
               /\ 0 <= after /\ after <= to - from
               /\ ~MovesBetween(frags, from, to) => after = to - from
<1> DEFINE n == Len(frags)
           f == first.frag
           g == second.frag
<1>1. PICK o \in Nat :
         /\ RowAddr(frags, first) = Offset(frags, f) + o
         /\ At(frags, first) = [frag |-> f, off |-> o]
         /\ first.back = Absent => o = 0
         /\ first.back # Absent => o = frags[f].size - first.back
         /\ o # 0 => f \in 1..n /\ ~frags[f].moves /\ o <= frags[f].size
  BY RowIsAt
<1>2. PICK p \in Nat :
         /\ RowAddr(frags, second) = Offset(frags, g) + p
         /\ At(frags, second) = [frag |-> g, off |-> p]
         /\ second.back # Absent => p = frags[g].size - second.back
  BY RowIsAt
<1>3. /\ f \in 1 .. n + 1 /\ g \in 1 .. n + 1 /\ n \in Nat /\ g \in f .. n + 1
      /\ lf \in Seq(FragType) /\ Len(lf) = n
  BY LenProperties DEF FitsIn, Shrunk, Follows
<1>4. /\ Offset(frags, f) \in Nat /\ Offset(frags, g) \in Nat
      /\ Offset(lf, f) \in Nat /\ Offset(lf, g) \in Nat
  BY <1>3, OffsetProperties
<1>5. /\ LinkedAddress(lf, At(frags, first)) = Offset(lf, f) + o
      /\ LinkedAddress(lf, At(frags, second)) = Offset(lf, g) + p
  BY <1>1, <1>2 DEF LinkedAddress
<1>6. CASE f = g
  <2>1. o <= p
    <3>1. CASE first.back = Absent
      BY <1>1, <3>1
    <3>2. CASE first.back # Absent
      BY <1>1, <1>2, <1>3, <1>6, <3>2 DEF Follows
    <3> QED
      BY <3>1, <3>2
  <2> HIDE DEF f, g, n
  <2> QED
    <3> DEFINE from == RowAddr(frags, first)   to == RowAddr(frags, second)
               old == LinkedAddress(lf, At(frags, first))
               new == LinkedAddress(lf, At(frags, second))
               a == Offset(frags, f)           b == Offset(lf, f)
    <3>1. /\ from = a + o /\ to = a + p /\ old = b + o /\ new = b + p
          /\ a \in Nat /\ b \in Nat
      BY <1>1, <1>2, <1>4, <1>5, <1>6
    <3> HIDE DEF from, to, old, new, a, b
    <3>2. /\ from \in Nat /\ to \in Nat /\ from <= to /\ old \in Nat /\ new \in Nat
          /\ 0 <= new - old /\ new - old = to - from /\ new - old <= to - from
      BY <2>1, <3>1
    <3> QED
      BY <3>2 DEF from, to, old, new
<1>7. CASE f # g
  <2>1. f + 1 \in 1 .. n + 1 /\ g \in f + 1 .. n + 1 /\ f \in 1..n
    BY <1>3, <1>7
  <2>2. frags[f].size \in Nat /\ lf[f].size \in Nat /\ o <= frags[f].size
    <3>1. frags[f] \in FragType /\ lf[f] \in FragType
      BY <1>3, <2>1, ElementOfSeq
    <3>2. frags[f].size \in Nat /\ lf[f].size \in Nat
      BY <3>1 DEF FragType
    <3> QED
      BY <1>1, <3>2
  <2>3. /\ Offset(frags, f + 1) = Offset(frags, f) + frags[f].size
        /\ Offset(lf, f + 1) = Offset(lf, f) + lf[f].size
    BY <1>3, <2>1, OffsetProperties
  <2>4. o # 0 => lf[f].size = frags[f].size
    BY <1>1, <2>1 DEF Shrunk
  <2>5. /\ 0 <= Offset(lf, g) - Offset(lf, f)
        /\ Offset(lf, g) - Offset(lf, f) <= Offset(frags, g) - Offset(frags, f)
        /\ \/ Offset(lf, g) - Offset(lf, f) = Offset(frags, g) - Offset(frags, f)
           \/ \E h \in f .. g - 1 : frags[h].moves /\ frags[h].size > 0
    BY <1>3, OffsetsApart
  <2>6. 0 <= Offset(lf, g) - Offset(lf, f + 1)
    BY <2>1, OffsetsApart
  <2>7. o <= Offset(lf, g) - Offset(lf, f)
    <3> DEFINE a == Offset(lf, f)   b == Offset(lf, f + 1)   to == Offset(lf, g)
               size == frags[f].size   lsize == lf[f].size
    <3>1. /\ a \in Nat /\ to \in Nat /\ size \in Nat /\ b = a + lsize /\ 0 <= to - b
          /\ 0 <= to - a /\ o <= size /\ (o # 0 => lsize = size) /\ lsize \in Nat
      BY <1>4, <2>2, <2>3, <2>4, <2>5, <2>6
    <3> HIDE DEF a, b, to, size, lsize
    <3>2. o <= to - a
      BY <3>1
    <3> QED
      BY <3>2 DEF a, to
  <2>8. ASSUME NEW h \in f .. g - 1, frags[h].moves, frags[h].size > 0
        PROVE  MovesBetween(frags, RowAddr(frags, first), RowAddr(frags, second))
    <3>1. h \in 1..n /\ h \in 1 .. n + 1 /\ h + 1 \in 1 .. n + 1 /\ g \in h + 1 .. n + 1
      BY <1>3
    <3>2. frags[h].size \in Nat /\ h \in DOMAIN frags
      <4>1. frags[h] \in FragType
        BY <3>1, ElementOfSeq
      <4> QED
        BY <3>1, <4>1, LenProperties DEF FragType
    <3>3. Offset(frags, h + 1) = Offset(frags, h) + frags[h].size /\ Offset(frags, h) \in Nat
      BY <3>1, OffsetProperties
    <3>4. Offset(frags, h + 1) <= Offset(frags, g)
      BY <1>4, <3>1, <3>2, <3>3, OffsetsApart DEF Shrunk
    <3>5. RowAddr(frags, first) <= Offset(frags, h)
      <4>1. CASE h = f
        BY <1>1, <1>4, <2>8, <4>1
      <4>2. CASE h # f
        <5>1. h \in f + 1 .. n + 1
          BY <1>3, <4>2
        <5>2. Shrunk(frags, frags)
          BY DEF Shrunk
        <5>3. 0 <= Offset(frags, h) - Offset(frags, f + 1)
          BY <2>1, <5>1, <5>2, OffsetsApart
        <5> QED
          <6> DEFINE a == Offset(frags, f)   b == Offset(frags, f + 1)   size == frags[f].size
                     to == Offset(frags, h)  from == RowAddr(frags, first)
          <6>1. /\ a \in Nat /\ size \in Nat /\ to \in Nat /\ b = a + size /\ 0 <= to - b
                /\ from = a + o /\ o <= size
            BY <1>1, <1>4, <2>2, <2>3, <3>3, <5>3
          <6> HIDE DEF a, b, size, to, from
          <6>2. from <= to
            BY <6>1
          <6> QED
            BY <6>2 DEF from, to
      <4> QED
        BY <4>1, <4>2
    <3>6. Offset(frags, h) < RowAddr(frags, second)
      BY <1>2, <1>4, <2>8, <3>2, <3>3, <3>4
    <3> QED
      BY <2>8, <3>2, <3>5, <3>6 DEF MovesBetween
  <2>9. ~MovesBetween(frags, RowAddr(frags, first), RowAddr(frags, second)) =>
            Offset(lf, g) - Offset(lf, f) = Offset(frags, g) - Offset(frags, f)
    BY <2>5, <2>8
  <2>10. o <= Offset(frags, g) - Offset(frags, f)
    BY <1>4, <2>5, <2>7
  <2> DEFINE x == Offset(frags, f)
             y == Offset(frags, g)
             u == Offset(lf, f)
             v == Offset(lf, g)
  <2> HIDE DEF x, y, u, v
  <2>11. /\ RowAddr(frags, first) = x + o /\ RowAddr(frags, second) = y + p
         /\ LinkedAddress(lf, At(frags, first)) = u + o
         /\ LinkedAddress(lf, At(frags, second)) = v + p
         /\ x \in Nat /\ y \in Nat /\ u \in Nat /\ v \in Nat
         /\ o <= v - u /\ o <= y - x /\ v - u <= y - x
         /\ ~MovesBetween(frags, x + o, y + p) => v - u = y - x
    BY <1>1, <1>2, <1>4, <1>5, <2>5, <2>7, <2>9, <2>10 DEF x, y, u, v
  <2>12. /\ x + o \in Nat /\ y + p \in Nat /\ x + o <= y + p /\ v + p \in Nat /\ u + o \in Nat
         /\ 0 <= (v + p) - (u + o) /\ (v + p) - (u + o) <= (y + p) - (x + o)
         /\ v - u = y - x => (v + p) - (u + o) = (y + p) - (x + o)
    BY <2>11
  <2> QED
    BY <2>11, <2>12
<1> QED
  BY <1>6, <1>7
-----------------------------------------------------------------------------
(***************************************************************************)
(* A consumer reads one opcode after the other.                            *)
(***************************************************************************)
PlaceType == [frag : Nat, off : Nat]
OpType == [code : Nat, sub : Nat, arg : Int, from : PlaceType, to : PlaceType]

IsReading(g, target, lf, ops, last) ==
    g = [n \in 0..last |->
            IF n = 0 THEN Registers ELSE Execute(target, lf, g[n - 1], ops[n])]

(* There are registers for as many opcodes as there may be.                *)
LEMMA ReadingsExist ==
    ASSUME NEW target, NEW lf, NEW ops, NEW last \in Nat
    PROVE  \E g : IsReading(g, target, lf, ops, last)
<1> DEFINE S == {n \in Nat : \E g : IsReading(g, target, lf, ops, n)}
<1>1. 0 \in S
  <2>1. IsReading([n \in 0..0 |-> Registers], target, lf, ops, 0)
    BY DEF IsReading
  <2> QED
    BY <2>1
<1>2. ASSUME NEW n \in Nat, n \in S
      PROVE  n + 1 \in S
  <2>1. PICK g : IsReading(g, target, lf, ops, n)
    BY <1>2
  <2> DEFINE h == [k \in 0 .. n + 1 |->
                      IF k = n + 1 THEN Execute(target, lf, g[n], ops[k]) ELSE g[k]]
  <2>2. ASSUME NEW k \in 0 .. n + 1
        PROVE  h[k] = IF k = 0 THEN Registers ELSE Execute(target, lf, h[k - 1], ops[k])
    <3>1. CASE k = n + 1
      BY <3>1
    <3>2. CASE k # n + 1
      BY <2>1, <3>2 DEF IsReading
    <3> QED
      BY <3>1, <3>2
  <2>3. h = [k \in 0 .. n + 1 |-> h[k]]
    OBVIOUS
  <2> HIDE DEF h
  <2>4. IsReading(h, target, lf, ops, n + 1)
    BY <2>2, <2>3 DEF IsReading
  <2> QED
    BY <2>4
<1> HIDE DEF S
<1>3. Nat \subseteq S
  BY <1>1, <1>2, InductionBySets
<1> QED
  BY <1>3 DEF S

(* And they are the same for opcodes that begin in the same way.           *)
LEMMA ReadingsAgree ==
    ASSUME NEW target, NEW lf, NEW ops, NEW more, NEW last \in Nat, NEW longer \in Nat,
           last <= longer, \A n \in 1..last : ops[n] = more[n],
           NEW g, IsReading(g, target, lf, ops, last),
           NEW h, IsReading(h, target, lf, more, longer)
    PROVE  g[last] = h[last]
<1> DEFINE S == {n \in Nat : n <= last => g[n] = h[n]}
<1>1. 0 \in S
  BY DEF IsReading
<1>2. ASSUME NEW n \in Nat, n \in S
      PROVE  n + 1 \in S
  <2>1. ASSUME n + 1 <= last
        PROVE  g[n + 1] = h[n + 1]
    <3>1. PICK k \in 1..last : k = n + 1
      BY <2>1
    <3>2. k \in 0..last /\ k \in 0..longer /\ k # 0 /\ k - 1 = n
      BY <3>1
    <3>3. g[k] = Execute(target, lf, g[k - 1], ops[k])
      BY <3>2 DEF IsReading
    <3>4. h[k] = Execute(target, lf, h[k - 1], more[k])
      BY <3>2 DEF IsReading
    <3>5. g[k - 1] = h[k - 1]
      BY <1>2, <2>1, <3>2
    <3> QED
      BY <3>1, <3>3, <3>4, <3>5
  <2> QED
    BY <2>1
<1> HIDE DEF S
<1>3. last \in S
  BY <1>1, <1>2, InductionBySets
<1> QED
  BY <1>3 DEF S

(* What is read from one opcode more.                                      *)
LEMMA ConsumedOneMore ==
    ASSUME NEW target, NEW lf, NEW ops \in Seq(OpType), NEW op \in OpType
    PROVE  Consumed(target, lf, Append(ops, op)) =
              Execute(target, lf, Consumed(target, lf, ops), op)
<1> DEFINE more == Append(ops, op)
           n == Len(ops)
           g == CHOOSE g : IsReading(g, target, lf, ops, Len(ops))
           h == CHOOSE h : IsReading(h, target, lf, more, Len(more))
<1>1. /\ n \in Nat /\ Len(more) = n + 1 /\ \A k \in 1..n : ops[k] = more[k]
      /\ more[n + 1] = op
  BY AppendProperties, LenProperties
<1>2. Consumed(target, lf, ops) = g[n]
  BY DEF Consumed, IsReading
<1>3. Consumed(target, lf, more) = h[Len(more)]
  BY DEF Consumed, IsReading
<1> HIDE DEF more
<1>4. IsReading(g, target, lf, ops, n) /\ IsReading(h, target, lf, more, n + 1)
  <2>1. \E x : IsReading(x, target, lf, ops, Len(ops))
    BY <1>1, ReadingsExist
  <2>2. \E x : IsReading(x, target, lf, more, Len(more))
    <3>1. Len(more) \in Nat
      BY <1>1
    <3> QED
      BY <3>1, ReadingsExist
  <2>3. IsReading(g, target, lf, ops, Len(ops))
    BY <2>1
  <2>4. IsReading(h, target, lf, more, Len(more))
    BY <2>2
  <2> QED
    BY <1>1, <2>3, <2>4
<1> HIDE DEF g, h, n
<1>5. g[n] = h[n]
  BY <1>1, <1>4, ReadingsAgree
<1>6. h[n + 1] = Execute(target, lf, h[n], more[n + 1])
  BY <1>1, <1>4 DEF IsReading
<1> QED
  BY <1>1, <1>2, <1>3, <1>5, <1>6 DEF more

(* Before the first opcode.                                                *)
LEMMA ConsumedNone ==
    ASSUME NEW target, NEW lf
    PROVE  Consumed(target, lf, <<>>) = Registers
<1> DEFINE g == CHOOSE g : IsReading(g, target, lf, <<>>, Len(<<>>))
<1>1. Consumed(target, lf, <<>>) = g[Len(<<>>)] /\ Len(<<>>) = 0
  BY EmptySeq DEF Consumed, IsReading
<1>2. IsReading(g, target, lf, <<>>, 0)
  BY <1>1, ReadingsExist
<1> HIDE DEF g
<1> QED
  BY <1>1, <1>2 DEF IsReading

(* These opcodes take a consumer from some registers to others.            *)
Reads(target, lf, was, ops, now) ==
    /\ ops \in Seq(OpType)
    /\ \A before \in Seq(OpType) : Consumed(target, lf, before) = was =>
          Consumed(target, lf, before \o ops) = now

(* Nothing, one opcode, and two programs one after the other.              *)
LEMMA ReadsNone ==
    ASSUME NEW target, NEW lf, NEW was
    PROVE  Reads(target, lf, was, <<>>, was)
BY ConcatEmptySeq, EmptySeq DEF Reads

LEMMA ReadsOne ==
    ASSUME NEW target, NEW lf, NEW was, NEW op \in OpType
    PROVE  Reads(target, lf, was, <<op>>, Execute(target, lf, was, op))
<1>1. <<op>> \in Seq(OpType)
  OBVIOUS
<1>2. ASSUME NEW before \in Seq(OpType), Consumed(target, lf, before) = was
      PROVE  Consumed(target, lf, before \o <<op>>) = Execute(target, lf, was, op)
  <2>1. before \o <<op>> = Append(before, op)
    BY AppendIsConcat
  <2> QED
    BY <1>2, <2>1, ConsumedOneMore
<1> QED
  BY <1>1, <1>2 DEF Reads

LEMMA ReadsBoth ==
    ASSUME NEW target, NEW lf, NEW was, NEW now, NEW then,
           NEW ops, Reads(target, lf, was, ops, now),
           NEW more, Reads(target, lf, now, more, then)
    PROVE  Reads(target, lf, was, ops \o more, then)
<1>1. ops \in Seq(OpType) /\ more \in Seq(OpType) /\ ops \o more \in Seq(OpType)
  BY ConcatProperties DEF Reads
<1>2. ASSUME NEW before \in Seq(OpType), Consumed(target, lf, before) = was
      PROVE  Consumed(target, lf, before \o (ops \o more)) = then
  <2>1. before \o (ops \o more) = (before \o ops) \o more
    BY <1>1, ConcatAssociative
  <2>2. before \o ops \in Seq(OpType)
    BY <1>1, ConcatProperties
  <2>3. Consumed(target, lf, before \o ops) = now
    BY <1>2 DEF Reads
  <2> QED
    BY <2>1, <2>2, <2>3 DEF Reads
<1> QED
  BY <1>1, <1>2 DEF Reads

LEMMA PairIsConcat ==
    ASSUME NEW a \in OpType, NEW b \in OpType
    PROVE  <<a>> \o <<b>> = <<a, b>>
<1>1. <<a>> \in Seq(OpType) /\ <<a>> \o <<b>> = Append(<<a>>, b)
  BY AppendIsConcat
<1>2. Append(<<a>>, b) = <<a, b>>
  <2> DEFINE x == Append(<<a>>, b)
             y == <<a, b>>
  <2>1. <<a>> \in Seq(OpType) /\ Len(<<a>>) = 1 /\ <<a>>[1] = a
    OBVIOUS
  <2>2. x \in Seq(OpType) /\ Len(x) = 2 /\ x[1] = a /\ x[2] = b
    BY <2>1, AppendProperties
  <2>3. y \in Seq(OpType) /\ Len(y) = 2 /\ y[1] = a /\ y[2] = b
    OBVIOUS
  <2> HIDE DEF x, y
  <2>4. \A n \in 1 .. Len(x) : x[n] = y[n]
    BY <2>2, <2>3
  <2>5. x = y
    BY <2>2, <2>3, <2>4, SeqEqual
  <2> QED
    BY <2>5 DEF x, y
<1> QED
  BY <1>1, <1>2

LEMMA ReadsTwo ==
    ASSUME NEW target, NEW lf, NEW was, NEW a \in OpType, NEW b \in OpType
    PROVE  Reads(target, lf, was, <<a, b>>,
                 Execute(target, lf, Execute(target, lf, was, a), b))
BY PairIsConcat, ReadsOne, ReadsBoth

(* An opcode that is written only if something has changed.                *)
LEMMA ReadsChanged ==
    ASSUME NEW target, NEW lf, NEW was, NEW old, NEW new, NEW op \in OpType, NEW now,
           old = new => now = was,
           old # new => now = Execute(target, lf, was, op)
    PROVE  Reads(target, lf, was, Changed(old, new, op), now)
BY ReadsNone, ReadsOne DEF Changed

(***************************************************************************)
(* What a consumer does at each opcode that is written.                    *)
(***************************************************************************)
OpcodeNames ==
    /\ Copy = 1 /\ AdvancePc = 2 /\ AdvanceLine = 3 /\ SetFile = 4 /\ SetColumn = 5
    /\ NegateStmt = 6 /\ SetBasicBlock = 7 /\ ConstAddPc = 8 /\ FixedAdvancePc = 9
    /\ SetPrologueEnd = 10 /\ SetEpilogueBegin = 11 /\ SetIsa = 12 /\ Extended = 0

(* The numbers of the opcodes, and where the special ones start.           *)
LEMMA OpcodesAreNamed == OpcodeNames
BY DEF OpcodeNames, Copy, AdvancePc, AdvanceLine, SetFile, SetColumn, NegateStmt,
       SetBasicBlock, ConstAddPc, FixedAdvancePc, SetPrologueEnd, SetEpilogueBegin,
       SetIsa, Extended

LEMMA BaseIsOneOfTwo ==
    ASSUME NEW target
    PROVE  OpcodeBase(target) \in {10, 13}
BY DEF OpcodeBase

(* Those with a number of their own; a version 2 table does without the last. *)
LEMMA ExecuteStandard ==
    ASSUME NEW target, NEW lf, NEW c, NEW op
    PROVE  LET now == Execute(target, lf, c, op)
           IN  /\ op.code = Copy => now = AddRow(c)
               /\ op.code = AdvancePc => now = Forward(c, op.arg * target.min)
               /\ op.code = AdvanceLine => now = [c EXCEPT !.line = @ + op.arg]
               /\ op.code = SetFile => now = [c EXCEPT !.file = op.arg]
               /\ op.code = SetColumn => now = [c EXCEPT !.column = op.arg]
               /\ op.code = NegateStmt => now = [c EXCEPT !.isStmt = ~@]
               /\ op.code = SetBasicBlock => now = [c EXCEPT !.flags = @ \cup {"basic_block"}]
               /\ op.code = ConstAddPc =>
                     now = Forward(c, MaxSpecial(OpcodeBase(target)) * target.min)
               /\ op.code = FixedAdvancePc /\ op.arg # Absent => now = Forward(c, op.arg)
               /\ op.code = SetPrologueEnd /\ OpcodeBase(target) > SetIsa =>
                     now = [c EXCEPT !.flags = @ \cup {"prologue_end"}]
               /\ op.code = SetEpilogueBegin /\ OpcodeBase(target) > SetIsa =>
                     now = [c EXCEPT !.flags = @ \cup {"epilogue_begin"}]
               /\ op.code = SetIsa /\ OpcodeBase(target) > SetIsa => now = [c EXCEPT !.isa = op.arg]
<1>1. OpcodeBase(target) \in {10, 13}
  BY BaseIsOneOfTwo
<1>2. OpcodeNames
  BY OpcodesAreNamed
<1>3. ASSUME op.code = Copy
      PROVE  Execute(target, lf, c, op) = AddRow(c)
  BY <1>1, <1>2, <1>3 DEF Execute, OpcodeNames
<1>4. ASSUME op.code = AdvancePc
      PROVE  Execute(target, lf, c, op) = Forward(c, op.arg * target.min)
  BY <1>1, <1>2, <1>4 DEF Execute, OpcodeNames
<1>5. ASSUME op.code = AdvanceLine
      PROVE  Execute(target, lf, c, op) = [c EXCEPT !.line = @ + op.arg]
  BY <1>1, <1>2, <1>5 DEF Execute, OpcodeNames
<1>6. ASSUME op.code = SetFile
      PROVE  Execute(target, lf, c, op) = [c EXCEPT !.file = op.arg]
  BY <1>1, <1>2, <1>6 DEF Execute, OpcodeNames
<1>7. ASSUME op.code = SetColumn
      PROVE  Execute(target, lf, c, op) = [c EXCEPT !.column = op.arg]
  BY <1>1, <1>2, <1>7 DEF Execute, OpcodeNames
<1>8. ASSUME op.code = NegateStmt
      PROVE  Execute(target, lf, c, op) = [c EXCEPT !.isStmt = ~@]
  BY <1>1, <1>2, <1>8 DEF Execute, OpcodeNames
<1>9. ASSUME op.code = SetBasicBlock
      PROVE  Execute(target, lf, c, op) = [c EXCEPT !.flags = @ \cup {"basic_block"}]
  BY <1>1, <1>2, <1>9 DEF Execute, OpcodeNames
<1>10. ASSUME op.code = ConstAddPc
      PROVE  Execute(target, lf, c, op) = Forward(c, MaxSpecial(OpcodeBase(target)) * target.min)
  BY <1>1, <1>2, <1>10 DEF Execute, OpcodeNames
<1>11. ASSUME op.code = FixedAdvancePc /\ op.arg # Absent
      PROVE  Execute(target, lf, c, op) = Forward(c, op.arg)
  BY <1>1, <1>2, <1>11 DEF Execute, OpcodeNames
<1>12. ASSUME op.code = SetPrologueEnd /\ OpcodeBase(target) > SetIsa
      PROVE  Execute(target, lf, c, op) = [c EXCEPT !.flags = @ \cup {"prologue_end"}]
  BY <1>1, <1>2, <1>12 DEF Execute, OpcodeNames
<1>13. ASSUME op.code = SetEpilogueBegin /\ OpcodeBase(target) > SetIsa
      PROVE  Execute(target, lf, c, op) = [c EXCEPT !.flags = @ \cup {"epilogue_begin"}]
  BY <1>1, <1>2, <1>13 DEF Execute, OpcodeNames
<1>14. ASSUME op.code = SetIsa /\ OpcodeBase(target) > SetIsa
      PROVE  Execute(target, lf, c, op) = [c EXCEPT !.isa = op.arg]
  BY <1>1, <1>2, <1>14 DEF Execute, OpcodeNames
<1> QED
  BY <1>3, <1>4, <1>5, <1>6, <1>7, <1>8, <1>9, <1>10, <1>11, <1>12, <1>13, <1>14

(* An address, an advance the linker fills in, and the other extended ones. *)
WithAddress(c, address) == [c EXCEPT !.address = address, !.view = 0]

(* What the opcodes with an address or a distance do.                      *)
LEMMA ExecuteAddress ==
    ASSUME NEW target, NEW lf, NEW c, NEW to
    PROVE  Execute(target, lf, c, AddressOf(to)) = WithAddress(c, LinkedAddress(lf, to))
<1> DEFINE address == AddressOf(to)
<1>1. address.code = 0 /\ address.sub = 2 /\ address.to = to
  BY DEF AddressOf, ExtendedOp, Op, Extended, SetAddress
<1>2. OpcodeBase(target) \in {10, 13}
  BY BaseIsOneOfTwo
<1>3. SetAddress = 2 /\ SetDiscriminator = 4 /\ EndSequence = 1
  BY DEF SetAddress, SetDiscriminator, EndSequence
<1> HIDE DEF address
<1>4. Execute(target, lf, c, address) = [c EXCEPT !.address = LinkedAddress(lf, to), !.view = 0]
  BY <1>1, <1>2, <1>3, OpcodesAreNamed DEF Execute, OpcodeNames
<1> QED
  BY <1>4 DEF address, WithAddress

LEMMA ExecuteMeasured ==
    ASSUME NEW target, NEW lf, NEW c, NEW from, NEW to
    PROVE  Execute(target, lf, c, Measured(from, to)) =
              Forward(c, (LinkedAddress(lf, to) - LinkedAddress(lf, from)) % FieldSize)
<1> DEFINE measured == Measured(from, to)
<1>1. measured.code = 9 /\ measured.arg = Absent /\ measured.from = from /\ measured.to = to
  BY DEF Measured, Op, FixedAdvancePc
<1>2. OpcodeBase(target) \in {10, 13}
  BY BaseIsOneOfTwo
<1>3. SetAddress = 2 /\ SetDiscriminator = 4 /\ EndSequence = 1
  BY DEF SetAddress, SetDiscriminator, EndSequence
<1> HIDE DEF measured
<1>4. Execute(target, lf, c, measured) =
         Forward(c, (LinkedAddress(lf, to) - LinkedAddress(lf, from)) % FieldSize)
  BY <1>1, <1>2, <1>3, OpcodesAreNamed DEF Execute, OpcodeNames
<1> QED
  BY <1>4 DEF measured

LEMMA ExecuteExtended ==
    ASSUME NEW target, NEW lf, NEW c, NEW arg
    PROVE  /\ Execute(target, lf, c, ExtendedOp(SetDiscriminator, arg)) = [c EXCEPT !.disc = arg]
           /\ Execute(target, lf, c, ExtendedOp(EndSequence, arg)) = [c EXCEPT !.end = c.address]
<1>1. \A sub : /\ ExtendedOp(sub, arg).code = 0 /\ ExtendedOp(sub, arg).sub = sub
               /\ ExtendedOp(sub, arg).arg = arg
  BY DEF ExtendedOp, Op, Extended
<1>2. OpcodeBase(target) \in {10, 13}
  BY BaseIsOneOfTwo
<1>3. SetAddress = 2 /\ SetDiscriminator = 4 /\ EndSequence = 1
  BY DEF SetAddress, SetDiscriminator, EndSequence
<1>4. Execute(target, lf, c, ExtendedOp(SetDiscriminator, arg)) = [c EXCEPT !.disc = arg]
  BY <1>1, <1>2, <1>3, OpcodesAreNamed DEF Execute, OpcodeNames
<1>5. Execute(target, lf, c, ExtendedOp(EndSequence, arg)) = [c EXCEPT !.end = c.address]
  BY <1>1, <1>2, <1>3, OpcodesAreNamed DEF Execute, OpcodeNames
<1> QED
  BY <1>4, <1>5

(* And a special one.                                                      *)
LEMMA ExecuteSpecial ==
    ASSUME NEW target, NEW lf, NEW c, NEW special \in Nat
    PROVE  Execute(target, lf, c, Op(OpcodeBase(target) + special, 0)) =
              AddRow([Forward(c, (special \div LineRange) * target.min) EXCEPT
                         !.line = @ + LineBase + (special % LineRange)])
<1> DEFINE op == Op(OpcodeBase(target) + special, 0)
<1>1. op.code = OpcodeBase(target) + special
  BY DEF Op
<1>2. OpcodeBase(target) \in {10, 13}
  BY BaseIsOneOfTwo
<1> HIDE DEF op
<1>3. op.code >= OpcodeBase(target) /\ op.code - OpcodeBase(target) = special
  BY <1>1, <1>2
<1> DEFINE moved == Forward(c, (special \div LineRange) * target.min)
<1>4. Execute(target, lf, c, op) =
         AddRow([moved EXCEPT !.line = @ + LineBase + (special % LineRange)])
  <2>1. op.code > 9 /\ OpcodeBase(target) > 9
    BY <1>1, <1>2, <1>3
  <2>2. op.code \notin 0..9 /\ op.code \in Nat
        /\ (OpcodeBase(target) = 13 => op.code \notin 0..12)
    BY <1>1, <1>2, <1>3
  <2> HIDE DEF moved
  <2> QED
    BY <1>2, <1>3, <2>1, <2>2, OpcodesAreNamed DEF Execute, OpcodeNames, moved
<1> QED
  BY <1>4 DEF op

(* They are all opcodes.                                                   *)
LEMMA OpsAreOps ==
    /\ \A number \in Nat, arg \in Int : Op(number, arg) \in OpType
    /\ \A sub \in Nat, arg \in Int : ExtendedOp(sub, arg) \in OpType
    /\ \A from, to \in PlaceType : Measured(from, to) \in OpType /\ AddressOf(to) \in OpType
<1>1. Nowhere \in PlaceType
  BY DEF Nowhere, Place, PlaceType
<1>2. ASSUME NEW number \in Nat, NEW arg \in Int
      PROVE  Op(number, arg) \in OpType
  BY <1>1 DEF Op, OpType
<1>3. ASSUME NEW sub \in Nat, NEW arg \in Int
      PROVE  ExtendedOp(sub, arg) \in OpType
  BY <1>1 DEF ExtendedOp, Op, OpType, Extended
<1>4. ASSUME NEW from \in PlaceType, NEW to \in PlaceType
      PROVE  Measured(from, to) \in OpType /\ AddressOf(to) \in OpType
  <2>1. Op(FixedAdvancePc, Absent) \in OpType
    BY <1>2 DEF FixedAdvancePc, Absent
  <2>2. ExtendedOp(SetAddress, 0) \in OpType
    BY <1>3 DEF SetAddress
  <2>3. \A op \in OpType : /\ [op EXCEPT !.to = to] \in OpType
                          /\ [op EXCEPT !.from = from, !.to = to] \in OpType
    BY DEF OpType
  <2> QED
    BY <2>1, <2>2, <2>3 DEF Measured, AddressOf
<1> QED
  BY <1>2, <1>3, <1>4

(***************************************************************************)
(* A row: what it changes besides its line and address.                    *)
(***************************************************************************)
SeenType ==
    [address : Nat, file : Nat, line : Int, column : Nat, isa : Nat, isStmt : BOOLEAN,
     disc : Nat, flags : SUBSET Flags, view : Nat]
RegisterType ==
    [address : Nat, file : Nat, line : Int, column : Nat, isa : Nat, isStmt : BOOLEAN,
     disc : Nat, flags : SUBSET Flags, view : Nat, rows : Seq(SeenType), end : Int]

HasDiscriminators(target) == target.flavor = "gnu" \/ target.version >= 4

(* The registers of a consumer that has read what a row changes.           *)
WithLoc(target, c, loc) ==
    [c EXCEPT !.file = loc.file, !.column = loc.column,
              !.disc = IF HasDiscriminators(target) THEN loc.disc ELSE 0,
              !.isa = loc.isa, !.isStmt = loc.isStmt, !.flags = loc.flags]

(* The writer and the consumer agree on where they are.                    *)
Agree(was, c) ==
    /\ c \in RegisterType /\ c.disc = 0 /\ c.flags = {}
    /\ was.file = c.file /\ was.line = c.line /\ was.column = c.column
    /\ was.isa = c.isa /\ was.isStmt = c.isStmt

CanWrite(target, was, loc) ==
    OpcodeBase(target) > SetIsa \/ (was.isa = 0 /\ IsVersion2(loc))

(* Registers are the same if all but one are and that one is too.          *)
LEMMA SetTheSame ==
    ASSUME NEW c \in RegisterType
    PROVE  /\ [c EXCEPT !.file = c.file] = c /\ [c EXCEPT !.column = c.column] = c
           /\ [c EXCEPT !.disc = c.disc] = c /\ [c EXCEPT !.isa = c.isa] = c
           /\ [c EXCEPT !.isStmt = c.isStmt] = c /\ [c EXCEPT !.flags = c.flags] = c
BY DEF RegisterType

(* A flag that may be set.                                                 *)
LEMMA FlagReads ==
    ASSUME NEW target, NEW lf, NEW c \in RegisterType, NEW set, NEW flag \in Flags,
           NEW op \in OpType,
           flag \in set => Execute(target, lf, c, op) = [c EXCEPT !.flags = @ \cup {flag}]
    PROVE  /\ Reads(target, lf, c, Changed(FALSE, flag \in set, op),
                    [c EXCEPT !.flags = @ \cup ({flag} \cap set)])
           /\ [c EXCEPT !.flags = @ \cup ({flag} \cap set)] \in RegisterType
<1> DEFINE now == [c EXCEPT !.flags = @ \cup ({flag} \cap set)]
<1>1. c.flags \in SUBSET Flags
  BY DEF RegisterType
<1>2. now \in RegisterType
  BY <1>1 DEF RegisterType
<1>3. CASE flag \in set
  <2>1. {flag} \cap set = {flag}
    BY <1>3
  <2>2. now = Execute(target, lf, c, op)
    BY <1>3, <2>1
  <2>3. (flag \in set) # FALSE
    BY <1>3
  <2> HIDE DEF now
  <2> QED
    BY <1>2, <2>2, <2>3, ReadsChanged DEF now
<1>4. CASE flag \notin set
  <2>1. {flag} \cap set = {} /\ c.flags \cup {} = c.flags
    BY <1>4
  <2>2. now = c
    BY <2>1, SetTheSame
  <2>3. (flag \in set) = FALSE
    BY <1>4
  <2> HIDE DEF now
  <2> QED
    BY <1>2, <2>2, <2>3, ReadsChanged DEF now
<1> QED
  BY <1>3, <1>4

(* The flags are set one by one.                                           *)
LEMMA FlagsRead ==
    ASSUME NEW target, NEW lf, NEW c \in RegisterType, c.flags = {},
           NEW flags \in SUBSET Flags,
           OpcodeBase(target) > SetIsa
              \/ flags \cap {"prologue_end", "epilogue_begin"} = {}
    PROVE  Reads(target, lf, c,
                 Changed(FALSE, "basic_block" \in flags, Op(SetBasicBlock, 0)) \o
                 Changed(FALSE, "prologue_end" \in flags, Op(SetPrologueEnd, 0)) \o
                 Changed(FALSE, "epilogue_begin" \in flags, Op(SetEpilogueBegin, 0)),
                 [c EXCEPT !.flags = flags])
<1> DEFINE block == Op(SetBasicBlock, 0)
           prologue == Op(SetPrologueEnd, 0)
           epilogue == Op(SetEpilogueBegin, 0)
           c1 == [c EXCEPT !.flags = @ \cup ({"basic_block"} \cap flags)]
           c2 == [c1 EXCEPT !.flags = @ \cup ({"prologue_end"} \cap flags)]
           c3 == [c2 EXCEPT !.flags = @ \cup ({"epilogue_begin"} \cap flags)]
<1>1. /\ block \in OpType /\ prologue \in OpType /\ epilogue \in OpType
      /\ block.code = SetBasicBlock /\ prologue.code = SetPrologueEnd
      /\ epilogue.code = SetEpilogueBegin
  BY OpcodesAreNamed, OpsAreOps DEF OpcodeNames, Op
<1>2. "basic_block" \in Flags /\ "prologue_end" \in Flags /\ "epilogue_begin" \in Flags
  BY DEF Flags
<1>3. c3 = [c EXCEPT !.flags = flags]
  BY DEF Flags, RegisterType
<1> HIDE DEF block, prologue, epilogue
<1>4. Reads(target, lf, c, Changed(FALSE, "basic_block" \in flags, block), c1)
      /\ c1 \in RegisterType
  <2>1. Execute(target, lf, c, block) = [c EXCEPT !.flags = @ \cup {"basic_block"}]
    BY <1>1, ExecuteStandard
  <2> QED
    BY <1>1, <1>2, <2>1, FlagReads
<1> HIDE DEF c1
<1>5. Reads(target, lf, c1, Changed(FALSE, "prologue_end" \in flags, prologue), c2)
      /\ c2 \in RegisterType
  <2>1. "prologue_end" \in flags =>
           Execute(target, lf, c1, prologue) = [c1 EXCEPT !.flags = @ \cup {"prologue_end"}]
    BY <1>1, ExecuteStandard
  <2> QED
    BY <1>1, <1>2, <1>4, <2>1, FlagReads
<1> HIDE DEF c2
<1>6. Reads(target, lf, c2, Changed(FALSE, "epilogue_begin" \in flags, epilogue), c3)
  <2>1. "epilogue_begin" \in flags =>
           Execute(target, lf, c2, epilogue) = [c2 EXCEPT !.flags = @ \cup {"epilogue_begin"}]
    BY <1>1, ExecuteStandard
  <2> QED
    BY <1>1, <1>2, <1>5, <2>1, FlagReads
<1> HIDE DEF c3
<1>7. Reads(target, lf, c,
            Changed(FALSE, "basic_block" \in flags, block) \o
            Changed(FALSE, "prologue_end" \in flags, prologue), c2)
  BY <1>4, <1>5, ReadsBoth
<1>8. Reads(target, lf, c,
            Changed(FALSE, "basic_block" \in flags, block) \o
            Changed(FALSE, "prologue_end" \in flags, prologue) \o
            Changed(FALSE, "epilogue_begin" \in flags, epilogue), c3)
  BY <1>6, <1>7, ReadsBoth
<1> QED
  BY <1>3, <1>8 DEF block, prologue, epilogue

(* All of it.                                                              *)
LEMMA RowStateReads ==
    ASSUME NEW target, NEW lf, NEW was, NEW c, Agree(was, c), NEW loc \in LocType,
           CanWrite(target, was, loc)
    PROVE  Reads(target, lf, c, RowState(target, was, loc), WithLoc(target, c, loc))
<1> DEFINE disc == IF HasDiscriminators(target) THEN loc.disc ELSE 0
           file == Op(SetFile, loc.file)
           column == Op(SetColumn, loc.column)
           discriminator == ExtendedOp(SetDiscriminator, loc.disc)
           isa == Op(SetIsa, loc.isa)
           stmt == Op(NegateStmt, 0)
           A1 == Changed(was.file, loc.file, file)
           A2 == Changed(was.column, loc.column, column)
           A3 == IF HasDiscriminators(target) THEN Changed(0, loc.disc, discriminator) ELSE <<>>
           A4 == Changed(was.isa, loc.isa, isa)
           A5 == Changed(was.isStmt, loc.isStmt, stmt)
           B1 == Changed(FALSE, "basic_block" \in loc.flags, Op(SetBasicBlock, 0))
           B2 == Changed(FALSE, "prologue_end" \in loc.flags, Op(SetPrologueEnd, 0))
           B3 == Changed(FALSE, "epilogue_begin" \in loc.flags, Op(SetEpilogueBegin, 0))
           c1 == [c EXCEPT !.file = loc.file]
           c2 == [c1 EXCEPT !.column = loc.column]
           c3 == [c2 EXCEPT !.disc = disc]
           c4 == [c3 EXCEPT !.isa = loc.isa]
           c5 == [c4 EXCEPT !.isStmt = loc.isStmt]
           c6 == [c5 EXCEPT !.flags = loc.flags]
<1>1. c \in RegisterType /\ c.disc = 0 /\ c.flags = {}
  BY DEF Agree
<1>2. /\ loc.file \in Nat /\ loc.column \in Nat /\ loc.disc \in Nat /\ disc \in Nat
      /\ loc.isa \in Nat /\ loc.isStmt \in BOOLEAN /\ loc.flags \in SUBSET Flags
  BY DEF LocType
<1>3. /\ file \in OpType /\ column \in OpType /\ discriminator \in OpType
      /\ isa \in OpType /\ stmt \in OpType
  BY <1>2, OpcodesAreNamed, OpsAreOps DEF OpcodeNames, SetDiscriminator
<1>4. /\ file.code = SetFile /\ file.arg = loc.file
      /\ column.code = SetColumn /\ column.arg = loc.column
      /\ isa.code = SetIsa /\ isa.arg = loc.isa
      /\ stmt.code = NegateStmt
  BY DEF Op
<1>5. ASSUME NEW d
      PROVE  Execute(target, lf, d, discriminator) = [d EXCEPT !.disc = loc.disc]
  <2> HIDE DEF disc, c1, c2, c3, c4, c5, c6
  <2> QED
    BY ExecuteExtended
<1> HIDE DEF file, column, discriminator, isa, stmt, disc
<1>5a. ASSUME NEW d
       PROVE  /\ Execute(target, lf, d, file) = [d EXCEPT !.file = loc.file]
              /\ Execute(target, lf, d, column) = [d EXCEPT !.column = loc.column]
              /\ OpcodeBase(target) > SetIsa =>
                    Execute(target, lf, d, isa) = [d EXCEPT !.isa = loc.isa]
              /\ Execute(target, lf, d, stmt) = [d EXCEPT !.isStmt = ~@]
  <2> HIDE DEF c1, c2, c3, c4, c5, c6
  <2> QED
    BY <1>4, ExecuteStandard
<1>6. RowState(target, was, loc) = A1 \o A2 \o A3 \o A4 \o A5 \o B1 \o B2 \o B3
  BY DEF RowState, HasDiscriminators, file, column, discriminator, isa, stmt
<1>7. c6 = WithLoc(target, c, loc)
  BY <1>1 DEF WithLoc, RegisterType, disc
<1>8. /\ c1 \in RegisterType /\ c2 \in RegisterType /\ c3 \in RegisterType
      /\ c4 \in RegisterType /\ c5 \in RegisterType
      /\ c1.column = c.column /\ c2.disc = 0 /\ c3.isa = c.isa /\ c4.isStmt = c.isStmt
      /\ c5.flags = {}
  BY <1>1, <1>2 DEF RegisterType
<1>9. Reads(target, lf, c, A1, c1)
  <2>1. was.file = loc.file => c1 = c
    BY <1>1, SetTheSame DEF Agree
  <2>2. c1 = Execute(target, lf, c, file)
    BY <1>5a
  <2> HIDE DEF c1
  <2> QED
    BY <1>3, <2>1, <2>2, ReadsChanged
<1>10. Reads(target, lf, c1, A2, c2)
  <2>1. was.column = loc.column => c2 = c1
    <3>1. was.column = c1.column
      BY <1>1, <1>8 DEF Agree
    <3>2. [c1 EXCEPT !.column = c1.column] = c1
      BY <1>8, SetTheSame
    <3>3. c2 = [c1 EXCEPT !.column = loc.column]
      OBVIOUS
    <3> HIDE DEF c1, c2
    <3> QED
      BY <3>1, <3>2, <3>3
  <2>2. c2 = Execute(target, lf, c1, column)
    BY <1>5a
  <2> HIDE DEF c1, c2
  <2> QED
    BY <1>3, <2>1, <2>2, ReadsChanged
<1>11. Reads(target, lf, c2, A3, c3)
  <2>1. disc = 0 => c3 = c2
    BY <1>8, SetTheSame
  <2>2. disc = loc.disc => c3 = Execute(target, lf, c2, discriminator)
    BY <1>5
  <2> HIDE DEF c2, c3
  <2>3. CASE HasDiscriminators(target)
    BY <1>3, <2>1, <2>2, <2>3, ReadsChanged DEF disc
  <2>4. CASE ~HasDiscriminators(target)
    BY <2>1, <2>4, ReadsNone DEF disc
  <2> QED
    BY <2>3, <2>4
<1>12. Reads(target, lf, c3, A4, c4)
  <2>1. was.isa = loc.isa => c4 = c3
    <3>1. was.isa = c3.isa
      BY <1>1, <1>8 DEF Agree
    <3>2. [c3 EXCEPT !.isa = c3.isa] = c3
      BY <1>8, SetTheSame
    <3>3. c4 = [c3 EXCEPT !.isa = loc.isa]
      OBVIOUS
    <3> HIDE DEF c3, c4
    <3> QED
      BY <3>1, <3>2, <3>3
  <2>2. OpcodeBase(target) > SetIsa => c4 = Execute(target, lf, c3, isa)
    BY <1>5a
  <2>3. OpcodeBase(target) > SetIsa \/ was.isa = loc.isa
    BY DEF CanWrite, IsVersion2
  <2> HIDE DEF c3, c4
  <2> QED
    BY <1>3, <2>1, <2>2, <2>3, ReadsChanged
<1>13. Reads(target, lf, c4, A5, c5)
  <2>1. was.isStmt = loc.isStmt => c5 = c4
    <3>1. was.isStmt = c4.isStmt
      BY <1>1, <1>8 DEF Agree
    <3>2. [c4 EXCEPT !.isStmt = c4.isStmt] = c4
      BY <1>8, SetTheSame
    <3>3. c5 = [c4 EXCEPT !.isStmt = loc.isStmt]
      OBVIOUS
    <3> HIDE DEF c4, c5
    <3> QED
      BY <3>1, <3>2, <3>3
  <2>2. was.isStmt # loc.isStmt => c5 = Execute(target, lf, c4, stmt)
    <3>1. ASSUME was.isStmt # loc.isStmt
          PROVE  c5 = [c4 EXCEPT !.isStmt = ~@]
      BY <1>1, <1>2, <1>8, <3>1 DEF Agree, RegisterType
    <3> QED
      BY <1>5a, <3>1
  <2> HIDE DEF c4, c5
  <2> QED
    BY <1>3, <2>1, <2>2, ReadsChanged
<1>14. Reads(target, lf, c5, B1 \o B2 \o B3, c6)
  <2> HIDE DEF c5
  <2>1. OpcodeBase(target) > SetIsa \/ loc.flags \cap {"prologue_end", "epilogue_begin"} = {}
    BY DEF CanWrite, IsVersion2
  <2> QED
    BY <1>2, <1>8, <2>1, FlagsRead
<1>15. B1 \in Seq(OpType) /\ B2 \in Seq(OpType) /\ B3 \in Seq(OpType)
  BY OpcodesAreNamed, OpsAreOps DEF OpcodeNames, Changed
<1> HIDE DEF A1, A2, A3, A4, A5, B1, B2, B3, c1, c2, c3, c4, c5, c6
<1>16. Reads(target, lf, c, A1 \o A2, c2)
  BY <1>9, <1>10, ReadsBoth
<1>17. Reads(target, lf, c, A1 \o A2 \o A3, c3)
  BY <1>11, <1>16, ReadsBoth
<1>18. Reads(target, lf, c, A1 \o A2 \o A3 \o A4, c4)
  BY <1>12, <1>17, ReadsBoth
<1>19. Reads(target, lf, c, A1 \o A2 \o A3 \o A4 \o A5, c5)
  BY <1>13, <1>18, ReadsBoth
<1> DEFINE X == A1 \o A2 \o A3 \o A4 \o A5
<1> HIDE DEF X
<1>20. X \in Seq(OpType)
  BY <1>19 DEF Reads, X
<1>21. Reads(target, lf, c, X \o (B1 \o B2 \o B3), c6)
  BY <1>14, <1>19, ReadsBoth DEF X
<1>22. X \o (B1 \o B2 \o B3) = X \o B1 \o B2 \o B3
  <2>1. B1 \o B2 \in Seq(OpType)
    BY <1>15, ConcatProperties
  <2>2. \A s, t, u \in Seq(OpType) : s \o (t \o u) = (s \o t) \o u
    BY ConcatAssociative
  <2>3. X \o ((B1 \o B2) \o B3) = (X \o (B1 \o B2)) \o B3
    BY <1>15, <1>20, <2>1, <2>2, SMTT(30)
  <2>4. X \o (B1 \o B2) = (X \o B1) \o B2
    BY <1>15, <1>20, <2>2
  <2> QED
    BY <2>3, <2>4, ZenonT(30)
<1> QED
  BY <1>6, <1>7, <1>21, <1>22 DEF X

(***************************************************************************)
(* A row: the advance to it.                                               *)
(***************************************************************************)
Moved(c, delta, bytes) ==
    [c EXCEPT !.line = @ + delta, !.address = @ + bytes, !.view = IF bytes = 0 THEN @ ELSE 0]

(* Advances and changes of line add up.                                    *)
LEMMA MovedType ==
    ASSUME NEW c \in RegisterType, NEW delta \in Int, NEW bytes \in Nat
    PROVE  Moved(c, delta, bytes) \in RegisterType
<1>1. /\ c.line + delta \in Int /\ c.address + bytes \in Nat
      /\ (IF bytes = 0 THEN c.view ELSE 0) \in Nat
  BY DEF RegisterType
<1> QED
  BY <1>1 DEF Moved, RegisterType

LEMMA ForwardMoves ==
    ASSUME NEW c \in RegisterType, NEW bytes \in Nat
    PROVE  Forward(c, bytes) = Moved(c, 0, bytes) /\ Forward(c, bytes) \in RegisterType
<1>1. c.line + 0 = c.line /\ c.address + bytes \in Nat
  BY DEF RegisterType
<1>2. Forward(c, bytes) = Moved(c, 0, bytes)
  BY <1>1 DEF Moved, Forward, RegisterType
<1>3. Moved(c, 0, bytes) \in RegisterType
  BY MovedType
<1> QED
  BY <1>2, <1>3

LEMMA LineMoves ==
    ASSUME NEW c \in RegisterType, NEW delta \in Int
    PROVE  [c EXCEPT !.line = @ + delta] = Moved(c, delta, 0) /\ Moved(c, 0, 0) = c
<1>1. c.line + 0 = c.line /\ c.address + 0 = c.address
  BY DEF RegisterType
<1>2. Moved(c, 0, 0) = c
  BY <1>1 DEF Moved, RegisterType
<1>3. [c EXCEPT !.line = @ + delta] = Moved(c, delta, 0)
  BY <1>1 DEF Moved, RegisterType
<1> QED
  BY <1>2, <1>3

LEMMA ForwardLineMoves ==
    ASSUME NEW c \in RegisterType, NEW delta \in Int, NEW bytes \in Nat
    PROVE  [Forward(c, bytes) EXCEPT !.line = @ + delta] = Moved(c, delta, bytes)
BY DEF Moved, Forward, RegisterType

LEMMA MovedTwice ==
    ASSUME NEW c \in RegisterType, NEW d \in Int, NEW a \in Nat, NEW e \in Int, NEW b \in Nat,
           NEW delta, delta = d + e, NEW bytes, bytes = a + b
    PROVE  Moved(Moved(c, d, a), e, b) = Moved(c, delta, bytes)
<1>1. /\ (c.line + d) + e = c.line + delta /\ (c.address + a) + b = c.address + bytes
      /\ bytes = 0 <=> (a = 0 /\ b = 0)
  <2> DEFINE at == c.line   here == c.address
  <2>1. at \in Int /\ here \in Nat
    BY DEF RegisterType
  <2> HIDE DEF at, here
  <2>2. (at + d) + e = at + delta /\ (here + a) + b = here + bytes
    BY <2>1
  <2>3. bytes = 0 <=> (a = 0 /\ b = 0)
    OBVIOUS
  <2> QED
    BY <2>2, <2>3 DEF at, here
<1> DEFINE once == Moved(c, d, a)
           view == IF bytes = 0 THEN c.view ELSE 0
           line2 == c.line + delta
           address == c.address + bytes
<1>2. /\ once.line = c.line + d /\ once.address = c.address + a
      /\ once.view = IF a = 0 THEN c.view ELSE 0
  BY DEF Moved, RegisterType
<1>3. (IF b = 0 THEN once.view ELSE 0) = view /\ once.line + e = line2 /\ once.address + b = address
  BY <1>1, <1>2
<1>4. Moved(c, delta, bytes) =
        [once EXCEPT !.line = line2, !.address = address, !.view = view]
  BY DEF Moved, RegisterType
<1> HIDE DEF once, view, line2, address
<1>5. Moved(once, e, b) = [once EXCEPT !.line = line2, !.address = address, !.view = view]
  BY <1>3 DEF Moved
<1>6. Moved(once, e, b) = Moved(c, delta, bytes)
  BY <1>4, <1>5
<1> QED
  BY <1>6 DEF once

(* A special opcode moves by what it was chosen for.                       *)
LEMMA SpecialStep ==
    ASSUME NEW target \in TargetType, NEW lf, NEW c \in RegisterType,
           NEW left \in Int, left - LineBase \in 0 .. LineRange - 1, NEW n \in Nat,
           NEW opcode \in Nat, opcode = left - LineBase + OpcodeBase(target) + n * LineRange
    PROVE  Execute(target, lf, c, Op(opcode, 0)) = AddRow(Moved(c, left, n * target.min))
<1> DEFINE base == OpcodeBase(target)
           low == left - LineBase
           special == low + n * LineRange
<1>1. base \in {10, 13}
  BY BaseIsOneOfTwo
<1>2. LineRange = 14 /\ LineBase = -5 /\ low \in 0..13
  BY DEF LineRange, LineBase
<1>3. special \in Nat /\ special \div LineRange = n /\ special % LineRange = low
  <2> HIDE DEF low
  <2>1. \A k \in 0..13, m \in Nat : (k + m * 14) \in Nat /\ (k + m * 14) \div 14 = m
                                    /\ (k + m * 14) % 14 = k
    OBVIOUS
  <2> QED
    BY <1>2, <2>1
<1>4. opcode = base + special
  <2> HIDE DEF low, base
  <2>1. low \in Int /\ base \in Int /\ n * LineRange \in Int
    BY <1>1, <1>2
  <2>2. opcode = low + base + n * LineRange
    BY DEF low, base
  <2> QED
    BY <2>1, <2>2
<1>5. n * target.min \in Nat /\ target.min \in Nat
  BY DEF TargetType
<1>6. c.line + LineBase + low = c.line + left
  BY <1>2 DEF RegisterType
<1> HIDE DEF special
<1>7. Execute(target, lf, c, Op(opcode, 0)) =
         AddRow([Forward(c, (special \div LineRange) * target.min) EXCEPT
                    !.line = @ + LineBase + (special % LineRange)])
  BY <1>3, <1>4, ExecuteSpecial
<1> DEFINE bytes == n * target.min
<1> HIDE DEF bytes, low
<1>8. Execute(target, lf, c, Op(opcode, 0)) =
         AddRow([Forward(c, bytes) EXCEPT !.line = @ + LineBase + low])
  BY <1>3, <1>7 DEF bytes
<1>9. [Forward(c, bytes) EXCEPT !.line = @ + LineBase + low] =
      [Forward(c, bytes) EXCEPT !.line = @ + left]
  BY <1>6 DEF Forward, RegisterType
<1>10. [Forward(c, bytes) EXCEPT !.line = @ + left] = Moved(c, left, bytes)
  BY <1>5, ForwardLineMoves DEF bytes
<1> QED
  BY <1>8, <1>9, <1>10 DEF bytes

(* A row that is some lines and instructions on.                           *)
LEMMA SpecialReads ==
    ASSUME NEW target \in TargetType, NEW lf, NEW c \in RegisterType,
           NEW delta \in Int, NEW n \in Nat
    PROVE  Reads(target, lf, c, SpecialAdvance(delta, n, OpcodeBase(target)),
                 AddRow(Moved(c, delta, n * target.min)))
<1> DEFINE base == OpcodeBase(target)
           min == target.min
           near == delta - LineBase \in 0 .. LineRange - 1
           left == IF near THEN delta ELSE 0
           still == left - LineBase + base
           short == still + n * LineRange
           long == short - MaxSpecial(base) * LineRange
           fits == n < 256 + MaxSpecial(base)
           first == IF near THEN <<>> ELSE <<Op(AdvanceLine, delta)>>
           rest == IF left = 0 /\ n = 0 THEN <<Op(Copy, 0)>>
                   ELSE IF fits /\ short <= 255 THEN <<Op(short, 0)>>
                   ELSE IF fits /\ long <= 255 THEN <<Op(ConstAddPc, 0), Op(long, 0)>>
                   ELSE <<Op(AdvancePc, n), Op(IF near THEN still ELSE Copy, 0)>>
           c1 == Moved(c, delta - left, 0)
           end == AddRow(Moved(c1, left, n * min))
<1>1. base \in {10, 13} /\ base \in Nat
  BY BaseIsOneOfTwo
<1>2. LineRange = 14 /\ LineBase = -5 /\ min \in Nat
  BY DEF LineRange, LineBase, TargetType
<1>3. MaxSpecial(base) = 17
  BY <1>1, <1>2 DEF MaxSpecial
<1>4. left \in Int /\ delta - left \in Int /\ left - LineBase \in 0 .. LineRange - 1
  BY <1>2
<1>5. SpecialAdvance(delta, n, base) = first \o rest
  BY DEF SpecialAdvance
<1>6. c1 \in RegisterType
  BY <1>4, MovedType
<1>7. AddRow(Moved(c, delta, n * min)) = end
  <2> DEFINE bytes == n * min
             d == delta - left
             none == 0
  <2>1. /\ bytes \in Nat /\ none \in Nat /\ bytes = none + bytes
        /\ d \in Int /\ delta = d + left /\ left \in Int
    BY <1>2, <1>4
  <2> HIDE DEF left, bytes, d, none
  <2>2. Moved(Moved(c, d, none), left, bytes) = Moved(c, delta, bytes)
    BY <2>1, MovedTwice
  <2> QED
    BY <2>2 DEF bytes, d, none
<1>8. Reads(target, lf, c, first, c1)
  <2>1. CASE near
    BY <1>4, <2>1, LineMoves, ReadsNone
  <2>2. CASE ~near
    <3> DEFINE op == Op(AdvanceLine, delta)
    <3>1. op \in OpType /\ op.code = AdvanceLine /\ op.arg = delta
      BY OpcodesAreNamed, OpsAreOps DEF OpcodeNames, Op
    <3>2. first = <<op>>
      BY <2>2
    <3>3. c1 = [c EXCEPT !.line = @ + delta]
      BY <2>2, LineMoves
    <3> HIDE DEF op, first, c1
    <3>4. Execute(target, lf, c, op) = c1
      BY <3>1, <3>3, ExecuteStandard
    <3> QED
      BY <3>1, <3>2, <3>4, ReadsOne
  <2> QED
    BY <2>1, <2>2
<1> HIDE DEF c1, first
<1>9. Reads(target, lf, c1, rest, end)
  <2>1. CASE left = 0 /\ n = 0
    <3> DEFINE op == Op(Copy, 0)
    <3>1. op \in OpType /\ op.code = Copy /\ rest = <<op>>
      BY <2>1, OpcodesAreNamed, OpsAreOps DEF OpcodeNames, Op
    <3>2. n * min = 0
      BY <1>2, <2>1
    <3>3. end = AddRow(c1)
      BY <1>6, <2>1, <3>2, LineMoves
    <3> HIDE DEF op, rest, end
    <3>4. Execute(target, lf, c1, op) = end
      BY <3>1, <3>3, ExecuteStandard
    <3> QED
      BY <3>1, <3>4, ReadsOne
  <2>2. CASE ~(left = 0 /\ n = 0) /\ fits /\ short <= 255
    <3>1. short \in Nat /\ short = left - LineBase + base + n * LineRange /\ rest = <<Op(short, 0)>>
      BY <1>1, <1>2, <1>4, <2>2
    <3>2. Op(short, 0) \in OpType
      BY <3>1, OpsAreOps
    <3> HIDE DEF short, left, rest
    <3>3. Execute(target, lf, c1, Op(short, 0)) = end
      BY <1>4, <1>6, <3>1, SpecialStep
    <3> HIDE DEF end
    <3> QED
      BY <3>1, <3>2, <3>3, ReadsOne
  <2>3. CASE ~(left = 0 /\ n = 0) /\ ~(fits /\ short <= 255) /\ fits /\ long <= 255
    <3> DEFINE op == Op(ConstAddPc, 0)
               more == n - 17
               c2 == Moved(c1, 0, 17 * min)
    <3>1. op \in OpType /\ op.code = ConstAddPc
      BY OpcodesAreNamed, OpsAreOps DEF OpcodeNames, Op
    <3>2. more \in Nat /\ long \in Nat /\ long = left - LineBase + base + more * LineRange
      <4>0. short > 255
        BY <1>1, <1>2, <1>4, <2>3
      <4> HIDE DEF left
      <4>1. left - LineBase \in 0..13 /\ short > 255
        BY <1>2, <1>4, <4>0
      <4>2. short = left - LineBase + base + n * 14 /\ long = short - 17 * 14
        BY <1>2, <1>3
      <4> DEFINE low == left - LineBase
      <4> HIDE DEF low, base, short, long, min
      <4>3. low \in 0..13 /\ short = low + base + n * 14 /\ long = short - 238
        BY <4>1, <4>2 DEF low
      <4>4. n >= 17
        BY <1>1, <4>1, <4>3
      <4>5. long = low + base + more * 14 /\ more \in Nat /\ long \in Nat
        BY <1>1, <4>3, <4>4
      <4> QED
        BY <1>2, <4>5 DEF low
    <3>3. rest = <<op, Op(long, 0)>>
      BY <2>3
    <3>4. Op(long, 0) \in OpType
      BY <3>2, OpsAreOps
    <3>5. Execute(target, lf, c1, op) = c2 /\ c2 \in RegisterType
      <4>1. 17 * min \in Nat
        BY <1>2
      <4>2. Forward(c1, 17 * min) = c2 /\ c2 \in RegisterType
        <5> DEFINE bytes == 17 * min
        <5>1. bytes \in Nat /\ c2 = Moved(c1, 0, bytes)
          BY <4>1
        <5> HIDE DEF bytes, c2
        <5>2. Forward(c1, bytes) = c2 /\ c2 \in RegisterType
          BY <1>6, <5>1, ForwardMoves
        <5> QED
          BY <5>2 DEF bytes
      <4> HIDE DEF op, c2
      <4>3. Execute(target, lf, c1, op) = Forward(c1, MaxSpecial(OpcodeBase(target)) * target.min)
        BY <3>1, ExecuteStandard
      <4> QED
        BY <1>3, <4>2, <4>3
    <3>6. Execute(target, lf, c2, Op(long, 0)) = AddRow(Moved(c2, left, more * min))
      <4> HIDE DEF c2, left, long, more
      <4> QED
        BY <1>4, <3>2, <3>5, SpecialStep
    <3>7. Moved(c2, left, more * min) = Moved(c1, left, n * min)
      <4> DEFINE a == 17 * min
                 b == more * min
                 sum == n * min
      <4>1. a \in Nat /\ b \in Nat
        BY <1>2, <3>2
      <4>2. sum = a + b
        <5>1. n = 17 + more
          BY <3>2
        <5>2. \A x, y \in Nat : 17 * y + x * y = (17 + x) * y
          OBVIOUS
        <5> HIDE DEF more, min
        <5> QED
          BY <1>2, <3>2, <5>1, <5>2
      <4> HIDE DEF a, b, sum, left
      <4>3. left = 0 + left /\ left \in Int
        BY <1>4
      <4>4. Moved(Moved(c1, 0, a), left, b) = Moved(c1, left, sum)
        BY <1>6, <4>1, <4>2, <4>3, MovedTwice
      <4> QED
        BY <4>4 DEF a, b, sum
    <3> HIDE DEF op, rest, c2, long
    <3>8. Reads(target, lf, c1, rest, Execute(target, lf, c2, Op(long, 0)))
      BY <3>1, <3>3, <3>4, <3>5, ReadsTwo
    <3> QED
      BY <3>6, <3>7, <3>8
  <2>4. CASE ~(left = 0 /\ n = 0) /\ ~(fits /\ short <= 255) /\ ~(fits /\ long <= 255)
    <3> DEFINE op == Op(AdvancePc, n)
               last == Op(IF near THEN still ELSE Copy, 0)
               c2 == Moved(c1, 0, n * min)
    <3>1. op \in OpType /\ op.code = AdvancePc /\ op.arg = n
      BY OpcodesAreNamed, OpsAreOps DEF OpcodeNames, Op
    <3>2. still \in Nat /\ still = left - LineBase + base + 0 * LineRange
      BY <1>1, <1>2, <1>4
    <3>3. last \in OpType
      <4>1. Copy \in Nat
        BY OpcodesAreNamed DEF OpcodeNames
      <4> HIDE DEF still, near
      <4> QED
        BY <3>2, <4>1, OpsAreOps
    <3>4. rest = <<op, last>>
      BY <2>4
    <3>5. Execute(target, lf, c1, op) = c2 /\ c2 \in RegisterType
      <4>1. n * min \in Nat
        BY <1>2
      <4>2. Forward(c1, n * min) = c2 /\ c2 \in RegisterType
        <5> DEFINE bytes == n * min
        <5>1. bytes \in Nat /\ c2 = Moved(c1, 0, bytes)
          BY <4>1
        <5> HIDE DEF bytes, c2
        <5>2. Forward(c1, bytes) = c2 /\ c2 \in RegisterType
          BY <1>6, <5>1, ForwardMoves
        <5> QED
          BY <5>2 DEF bytes
      <4> HIDE DEF op, c2
      <4>3. Execute(target, lf, c1, op) = Forward(c1, n * target.min)
        BY <3>1, ExecuteStandard
      <4> QED
        BY <4>2, <4>3
    <3>6. Execute(target, lf, c2, last) = AddRow(Moved(c2, left, 0))
      <4>1. CASE near
        <5>1. last = Op(still, 0) /\ 0 * target.min = 0
          BY <1>2, <4>1
        <5> HIDE DEF c2, left, still, last
        <5>2. Execute(target, lf, c2, Op(still, 0)) = AddRow(Moved(c2, left, 0 * target.min))
          BY <1>4, <3>2, <3>5, SpecialStep
        <5> QED
          BY <5>1, <5>2
      <4>2. CASE ~near
        <5>1. last.code = Copy /\ left = 0
          BY <4>2 DEF Op
        <5> HIDE DEF c2, left, last
        <5>2. Execute(target, lf, c2, last) = AddRow(c2)
          BY <5>1, ExecuteStandard
        <5>3. Moved(c2, 0, 0) = c2
          BY <3>5, LineMoves
        <5> QED
          BY <5>1, <5>2, <5>3
      <4> QED
        BY <4>1, <4>2
    <3>7. Moved(c2, left, 0) = Moved(c1, left, n * min)
      <4> DEFINE a == n * min
                 none == 0
      <4>1. a \in Nat /\ none \in Nat /\ a = a + none
        BY <1>2
      <4> HIDE DEF a, left, none
      <4>2. left = 0 + left /\ left \in Int
        BY <1>4
      <4>3. Moved(Moved(c1, 0, a), left, none) = Moved(c1, left, a)
        BY <1>6, <4>1, <4>2, MovedTwice
      <4> QED
        BY <4>3 DEF a, none
    <3> HIDE DEF op, last, rest, c2
    <3>8. Reads(target, lf, c1, rest, Execute(target, lf, c2, last))
      BY <3>1, <3>3, <3>4, <3>5, ReadsTwo
    <3> QED
      BY <3>6, <3>7, <3>8
  <2> HIDE DEF left, fits, short, long
  <2> QED
    BY <2>1, <2>2, <2>3, <2>4
<1> HIDE DEF rest, end
<1>10. Reads(target, lf, c, first \o rest, end)
  BY <1>8, <1>9, ReadsBoth
<1> QED
  BY <1>5, <1>7, <1>10

(* A row that is some lines on, at an address.                             *)
Placed(c, delta, address, view) ==
    [c EXCEPT !.line = @ + delta, !.address = address, !.view = view]

(* To move is to be at another place.                                      *)
LEMMA MovedIsPlaced ==
    ASSUME NEW c \in RegisterType, NEW delta \in Int, NEW bytes \in Nat
    PROVE  Moved(c, delta, bytes) =
              Placed(c, delta, c.address + bytes, IF bytes = 0 THEN c.view ELSE 0)
BY DEF Moved, Placed

(* With the address as a field of its own.                                 *)
LEMMA AddressReads ==
    ASSUME NEW target \in TargetType, NEW lf, NEW c \in RegisterType,
           NEW delta \in Int, NEW to \in PlaceType, LinkedAddress(lf, to) \in Nat
    PROVE  Reads(target, lf, c,
                 <<AddressOf(to)>> \o SpecialAdvance(delta, 0, OpcodeBase(target)),
                 AddRow(Placed(c, delta, LinkedAddress(lf, to), 0)))
<1> DEFINE address == LinkedAddress(lf, to)
           c1 == WithAddress(c, address)
           ops == SpecialAdvance(delta, 0, OpcodeBase(target))
<1>1. AddressOf(to) \in OpType
  BY OpsAreOps
<1>2. Execute(target, lf, c, AddressOf(to)) = c1
  BY ExecuteAddress
<1>3. Reads(target, lf, c, <<AddressOf(to)>>, c1)
  BY <1>1, <1>2, ReadsOne
<1>4. c1 \in RegisterType
  BY DEF RegisterType, WithAddress
<1>5. Reads(target, lf, c1, ops, AddRow(Moved(c1, delta, 0)))
  <2> HIDE DEF c1
  <2>1. 0 \in Nat /\ 0 * target.min = 0
    BY DEF TargetType
  <2> DEFINE none == 0
             bytes == none * target.min
  <2>2. none \in Nat /\ bytes = 0
    BY <2>1
  <2> HIDE DEF none
  <2>3. Reads(target, lf, c1, SpecialAdvance(delta, none, OpcodeBase(target)),
              AddRow(Moved(c1, delta, none * target.min)))
    BY <1>4, <2>2, SpecialReads
  <2> QED
    BY <2>2, <2>3 DEF none
<1>6. Moved(c1, delta, 0) = Placed(c, delta, address, 0)
  <2>1. address + 0 = address /\ c1.view = 0
    BY DEF RegisterType, WithAddress
  <2> QED
    BY <2>1 DEF Moved, Placed, RegisterType, WithAddress
<1> HIDE DEF c1
<1> QED
  BY <1>3, <1>5, <1>6, ReadsBoth

(* With the distance as a field.                                           *)
LEMMA FixedReads ==
    ASSUME NEW target \in TargetType, NEW lf, NEW c \in RegisterType,
           NEW delta \in Int, NEW from \in PlaceType, NEW to \in PlaceType,
           NEW addr \in Nat, NEW moves \in BOOLEAN, NEW bytes \in Nat,
           LinkedAddress(lf, to) \in Nat, c.address = LinkedAddress(lf, from),
           bytes = LinkedAddress(lf, to) - LinkedAddress(lf, from),
           bytes <= addr, ~moves => bytes = addr
    PROVE  Reads(target, lf, c, FixedAdvance(delta, from, to, addr, moves),
                 AddRow(Placed(c, delta, LinkedAddress(lf, to),
                               IF addr > FarAdvance \/ bytes # 0 THEN 0 ELSE c.view)))
<1> DEFINE address == LinkedAddress(lf, to)
           view == IF addr > FarAdvance \/ bytes # 0 THEN 0 ELSE c.view
           lines == Op(AdvanceLine, delta)
           field == IF addr > FarAdvance THEN AddressOf(to)
                    ELSE AdvanceField(from, to, addr, moves)
           copy == Op(Copy, 0)
           c1 == [c EXCEPT !.line = @ + delta]
           c2 == Placed(c, delta, address, view)
<1>1. lines \in OpType /\ copy \in OpType
  BY OpcodesAreNamed, OpsAreOps DEF OpcodeNames
<1>2. lines.code = AdvanceLine /\ lines.arg = delta /\ copy.code = Copy
  BY DEF Op
<1>3. FieldSize = 65536 /\ FarAdvance = 50000
  BY DEF FieldSize, FarAdvance
<1>4. c1 \in RegisterType /\ c1.address = c.address /\ c1.view = c.view
  <2>1. c.line + delta \in Int
    BY DEF RegisterType
  <2> QED
    BY <2>1 DEF RegisterType
<1>5. c.address + bytes = address /\ bytes \in Nat
  BY DEF RegisterType
<1>6. Execute(target, lf, c, lines) = c1
  <2> HIDE DEF lines
  <2> QED
    BY <1>2, ExecuteStandard
<1>7. Forward(c1, bytes) = Placed(c, delta, address, IF bytes = 0 THEN c.view ELSE 0)
  BY <1>4, <1>5 DEF Forward, Placed, RegisterType
<1>8. field \in OpType /\ Execute(target, lf, c1, field) = c2
  <2>1. CASE addr > FarAdvance
    <3>1. field = AddressOf(to) /\ view = 0
      BY <2>1
    <3>2. Execute(target, lf, c1, AddressOf(to)) = WithAddress(c1, address)
      BY ExecuteAddress
    <3>3. WithAddress(c1, address) = Placed(c, delta, address, 0)
      BY DEF Placed, RegisterType, WithAddress
    <3> HIDE DEF c1
    <3> QED
      BY <3>1, <3>2, <3>3, OpsAreOps
  <2>2. CASE ~(addr > FarAdvance)
    <3>1. bytes <= 50000 /\ addr <= 50000
      BY <1>3, <2>2
    <3>2. bytes % FieldSize = bytes /\ addr % FieldSize = addr
      BY <1>3, <3>1
    <3>3. view = IF bytes = 0 THEN c.view ELSE 0
      BY <2>2
    <3>4. CASE moves
      <4>1. field = Measured(from, to)
        BY <2>2, <3>4 DEF AdvanceField
      <4> HIDE DEF c1
      <4>2. Execute(target, lf, c1, Measured(from, to)) = Forward(c1, bytes % FieldSize)
        BY ExecuteMeasured
      <4> QED
        BY <1>7, <3>2, <3>3, <4>1, <4>2, OpsAreOps
    <3>5. CASE ~moves
      <4>1. field = Op(FixedAdvancePc, bytes)
        BY <2>2, <3>2, <3>5 DEF AdvanceField
      <4>2. /\ Op(FixedAdvancePc, bytes).code = FixedAdvancePc
            /\ Op(FixedAdvancePc, bytes).arg = bytes /\ bytes # Absent
        BY DEF Op, Absent
      <4>3. Op(FixedAdvancePc, bytes) \in OpType
        BY OpcodesAreNamed, OpsAreOps DEF OpcodeNames
      <4> DEFINE op == Op(FixedAdvancePc, bytes)
      <4>4. op.code = FixedAdvancePc /\ op.arg = bytes /\ op.arg # Absent
        BY <4>2
      <4> HIDE DEF c1, op, field
      <4>5. Execute(target, lf, c1, op) = Forward(c1, op.arg)
        BY <4>4, ExecuteStandard
      <4> QED
        BY <1>7, <3>3, <4>1, <4>3, <4>4, <4>5 DEF op
    <3> QED
      BY <3>4, <3>5
  <2> QED
    BY <2>1, <2>2
<1>9. Execute(target, lf, c2, copy) = AddRow(c2)
  <2> HIDE DEF copy, c2
  <2> QED
    BY <1>2, ExecuteStandard
<1> HIDE DEF lines, field, copy, c1, c2
<1>10. Reads(target, lf, c, <<lines, field>>, c2)
  BY <1>1, <1>6, <1>8, ReadsTwo
<1>11. Reads(target, lf, c2, <<copy>>, AddRow(c2))
  BY <1>1, <1>9, ReadsOne
<1>12. <<lines, field>> \o <<copy>> = <<lines, field, copy>>
  <2> DEFINE x == <<lines, field>> \o <<copy>>
             y == <<lines, field, copy>>
  <2>1. <<lines, field>> \in Seq(OpType) /\ Len(<<lines, field>>) = 2
        /\ <<copy>> \in Seq(OpType) /\ Len(<<copy>>) = 1
        /\ <<lines, field>>[1] = lines /\ <<lines, field>>[2] = field /\ <<copy>>[1] = copy
    BY <1>1, <1>8
  <2>2. x \in Seq(OpType) /\ Len(x) = 3 /\ x[1] = lines /\ x[2] = field /\ x[3] = copy
    BY <2>1, ConcatProperties
  <2>3. y \in Seq(OpType) /\ Len(y) = 3 /\ y[1] = lines /\ y[2] = field /\ y[3] = copy
    BY <1>1, <1>8
  <2> HIDE DEF x, y
  <2>4. \A n \in 1 .. Len(x) : x[n] = y[n]
    BY <2>2, <2>3
  <2>5. x = y
    BY <2>2, <2>3, <2>4, SeqEqual
  <2> QED
    BY <2>5 DEF x, y
<1>13. FixedAdvance(delta, from, to, addr, moves) = <<lines, field, copy>>
  BY DEF FixedAdvance, lines, field, copy
<1> QED
  BY <1>10, <1>11, <1>12, <1>13, ReadsBoth DEF c2

(* Where the writer is before a row: nowhere, or at a row before it, and   *)
(* the consumer is where the linker has put that.                          *)
IsBefore(target, frags, lf, was, c, row) ==
    \E prev :
       /\ FitsIn(prev, frags) /\ Follows(prev, row)
       /\ was.last = RowAddr(frags, prev) /\ was.at = At(frags, prev)
       /\ c.address = LinkedAddress(lf, At(frags, prev))
       /\ (RowAddr(frags, row) - RowAddr(frags, prev)) % target.min = 0

(* A row has a position and an address.                                    *)
LEMMA PositionType ==
    ASSUME NEW frags \in Seq(FragType), NEW row, FitsIn(row, frags)
    PROVE  At(frags, row) \in PlaceType /\ RowAddr(frags, row) \in Nat
BY LenProperties, RowIsAt DEF FitsIn, PlaceType

(* How far the writer and the consumer are from it.                        *)
LEMMA GapBefore ==
    ASSUME NEW target \in TargetType, NEW frags \in Seq(FragType), NEW lf, Shrunk(frags, lf),
           NEW row, FitsIn(row, frags), NEW was, NEW c \in RegisterType,
           IsBefore(target, frags, lf, was, c, row)
    PROVE  LET addr == RowAddr(frags, row)
               gap == Distance(was.last, addr)
               bytes == LinkedAddress(lf, At(frags, row)) - c.address
           IN  /\ was.last \in Nat /\ gap = addr - was.last /\ gap \in Nat
               /\ was.at \in PlaceType /\ c.address = LinkedAddress(lf, was.at)
               /\ LinkedAddress(lf, At(frags, row)) \in Nat
               /\ bytes \in Nat /\ bytes <= gap
               /\ ~MovesBetween(frags, was.last, addr) => bytes = gap
               /\ gap % target.min = 0
<1> DEFINE addr == RowAddr(frags, row)
           address == LinkedAddress(lf, At(frags, row))
           moves == MovesBetween(frags, was.last, addr)
           bytes == address - c.address
           gap == Distance(was.last, addr)
<1>1. PICK prev :
         /\ FitsIn(prev, frags) /\ Follows(prev, row)
         /\ was.last = RowAddr(frags, prev) /\ was.at = At(frags, prev)
         /\ c.address = LinkedAddress(lf, At(frags, prev))
         /\ (RowAddr(frags, row) - RowAddr(frags, prev)) % target.min = 0
  BY DEF IsBefore
<1>2. /\ was.last \in Nat /\ addr \in Nat /\ was.last <= addr
      /\ address \in Nat /\ c.address \in Nat
      /\ 0 <= address - c.address /\ address - c.address <= addr - was.last
      /\ ~moves => address - c.address = addr - was.last
  BY <1>1, RowsApart
<1>3. gap = addr - was.last
  BY <1>2 DEF Distance
<1>4. was.at \in PlaceType
  BY <1>1, PositionType
<1>5. gap % target.min = 0
  BY <1>1, <1>3
<1> HIDE DEF addr, address, moves, gap
<1>6. bytes \in Nat /\ bytes <= addr - was.last /\ addr - was.last \in Nat
      /\ (~moves => bytes = addr - was.last)
  BY <1>2
<1> QED
  BY <1>1, <1>2, <1>3, <1>4, <1>5, <1>6 DEF addr, address, moves, gap

(* The consumer follows the writer from one row to the next.               *)
LEMMA RowAdvanceReads ==
    ASSUME NEW target \in TargetType, NEW frags \in Seq(FragType), NEW lf, Shrunk(frags, lf),
           NEW row, row.loc \in LocType, FitsIn(row, frags),
           NEW was, NEW c \in RegisterType, was.line = c.line,
           was.last = Absent \/ IsBefore(target, frags, lf, was, c, row),
           LinkedAddress(lf, At(frags, row)) \in Nat
    PROVE  \E view \in Nat :
              LET address == LinkedAddress(lf, At(frags, row))
                  afresh == StartsAfresh(was, row.loc, RowAddr(frags, row))
              IN  /\ Reads(target, lf, c, RowAdvance(target, frags, was, row),
                           AddRow(Placed(c, row.loc.line - was.line, address, view)))
                  /\ afresh => view = 0
                  /\ ~afresh /\ address # c.address => view = 0
                  /\ ~afresh /\ RowAddr(frags, row) = was.last => view = c.view
<1> DEFINE addr == RowAddr(frags, row)
           at == At(frags, row)
           address == LinkedAddress(lf, at)
           delta == row.loc.line - was.line
           moves == MovesBetween(frags, was.last, addr)
           uncertain == UncertainBetween(frags, was.at.frag, at.frag)
           base == OpcodeBase(target)
           afresh == StartsAfresh(was, row.loc, addr)
           Goal(view) ==
              /\ Reads(target, lf, c, RowAdvance(target, frags, was, row),
                       AddRow(Placed(c, delta, address, view)))
              /\ afresh => view = 0
              /\ ~afresh /\ address # c.address => view = 0
              /\ ~afresh /\ addr = was.last => view = c.view
<1>1. delta \in Int /\ address \in Nat
  <2>1. row.loc.line \in Nat
    BY DEF LocType
  <2>2. c.line \in Int
    BY DEF RegisterType
  <2> QED
    BY <2>1, <2>2
<1>2. at \in PlaceType /\ addr \in Nat
  BY PositionType
<1>3. CASE afresh
  <2>1. RowAdvance(target, frags, was, row) = <<AddressOf(at)>> \o SpecialAdvance(delta, 0, base)
    BY <1>3 DEF RowAdvance
  <2> HIDE DEF delta, at, addr, afresh
  <2>2. Reads(target, lf, c, <<AddressOf(at)>> \o SpecialAdvance(delta, 0, base),
              AddRow(Placed(c, delta, LinkedAddress(lf, at), 0)))
    BY <1>1, <1>2, AddressReads
  <2>3. Goal(0)
    BY <1>3, <2>1, <2>2
  <2> QED
    BY <2>3 DEF delta, at, addr, afresh
<1>4. CASE ~afresh
  <2>1. was.last # Absent /\ IsBefore(target, frags, lf, was, c, row)
    BY <1>4 DEF StartsAfresh
  <2> DEFINE bytes == address - c.address
             gap == Distance(was.last, addr)
  <2>2. c.address = LinkedAddress(lf, was.at) /\ was.at \in PlaceType
    BY <2>1, GapBefore
  <2>3. /\ was.last \in Nat /\ gap = addr - was.last /\ gap \in Nat
        /\ bytes \in Nat /\ bytes <= gap
        /\ ~moves => bytes = gap
        /\ gap % target.min = 0
    BY <2>1, GapBefore
  <2>5. gap = 0 <=> addr = was.last
    <3> HIDE DEF addr, gap
    <3> QED
      BY <1>2, <2>3
  <2>6. bytes = 0 <=> address = c.address
    <3> HIDE DEF address
    <3>1. c.address \in Nat
      BY DEF RegisterType
    <3> QED
      BY <1>1, <3>1
  <2>7. c.view \in Nat
    BY DEF RegisterType
  <2>8. CASE target.fixed \/ moves \/ uncertain
    <3>1. RowAdvance(target, frags, was, row) = FixedAdvance(delta, was.at, at, gap, moves)
      BY <1>4, <2>8 DEF RowAdvance
    <3> DEFINE view == IF gap > FarAdvance \/ bytes # 0 THEN 0 ELSE c.view
    <3>2. moves \in BOOLEAN
      BY DEF MovesBetween
    <3>3. c.address = LinkedAddress(lf, was.at)
      BY <2>2
    <3>4. gap = 0 => view = c.view
      <4> HIDE DEF gap, bytes
      <4> QED
        BY <2>3 DEF FarAdvance
    <3> HIDE DEF gap, moves, delta, at
    <3>5. Reads(target, lf, c, FixedAdvance(delta, was.at, at, gap, moves),
                AddRow(Placed(c, delta, LinkedAddress(lf, at), view)))
      <4>1. bytes = LinkedAddress(lf, at) - LinkedAddress(lf, was.at)
        BY <3>3
      <4>2. LinkedAddress(lf, at) \in Nat
        BY <1>1
      <4> HIDE DEF bytes
      <4> QED
        BY <1>1, <1>2, <2>2, <2>3, <3>2, <3>3, <4>1, <4>2, FixedReads
    <3>6. bytes # 0 => view = 0
      OBVIOUS
    <3> HIDE DEF view, bytes, addr, address, afresh
    <3>7. view \in Nat
      BY <2>7 DEF view
    <3>8. Goal(view)
      BY <1>4, <2>5, <2>6, <3>1, <3>4, <3>5, <3>6 DEF address
    <3> QED
      BY <3>7, <3>8 DEF delta, at, addr, address, afresh
  <2>9. CASE ~(target.fixed \/ moves \/ uncertain)
    <3> DEFINE n == gap \div target.min
               view == IF gap = 0 THEN c.view ELSE 0
    <3>1. RowAdvance(target, frags, was, row) = SpecialAdvance(delta, n, base)
      BY <1>4, <2>9 DEF RowAdvance
    <3>2. n \in Nat /\ n * target.min = gap
      <4>1. target.min \in Nat \ {0}
        BY DEF TargetType
      <4>2. \A x \in Nat, y \in Nat \ {0} : x % y = 0 => x \div y \in Nat /\ (x \div y) * y = x
        OBVIOUS
      <4> HIDE DEF gap
      <4> QED
        BY <2>3, <4>1, <4>2
    <3>3. bytes = gap /\ c.address + gap = address
      <4>1. bytes = gap
        BY <2>3, <2>9
      <4>2. c.address \in Nat
        BY DEF RegisterType
      <4> HIDE DEF address, gap
      <4> QED
        BY <1>1, <4>1, <4>2
    <3> HIDE DEF n, delta
    <3>4. Reads(target, lf, c, SpecialAdvance(delta, n, base),
                AddRow(Moved(c, delta, n * target.min)))
      BY <1>1, <3>2, SpecialReads
    <3>5. Moved(c, delta, gap) = Placed(c, delta, address, view)
      <4> HIDE DEF gap, address
      <4>1. Moved(c, delta, gap) =
              Placed(c, delta, c.address + gap, IF gap = 0 THEN c.view ELSE 0)
        BY <1>1, <2>3, MovedIsPlaced
      <4> QED
        BY <3>3, <4>1
    <3> HIDE DEF view, bytes, addr, address, afresh, gap
    <3>6. view \in Nat
      BY <2>7 DEF view
    <3>7. Goal(view)
      <4>1. Reads(target, lf, c, RowAdvance(target, frags, was, row),
                  AddRow(Placed(c, delta, address, view)))
        BY <3>1, <3>2, <3>4, <3>5
      <4> QED
        BY <1>4, <2>5, <2>6, <3>3, <4>1 DEF view
    <3> QED
      BY <3>6, <3>7 DEF delta, addr, address, afresh
  <2> QED
    BY <2>8, <2>9
<1> QED
  BY <1>3, <1>4

(***************************************************************************)
(* The end, which is advanced to as if it were a row.                      *)
(***************************************************************************)
EndOf(frags) == [frag |-> Len(frags) + 1, back |-> Absent]

(* The end of the code is no row, and is where one would be.               *)
LEMMA EndIsLast ==
    ASSUME NEW frags \in Seq(FragType), NEW lf, Shrunk(frags, lf)
    PROVE  /\ FitsIn(EndOf(frags), frags)
           /\ RowAddr(frags, EndOf(frags)) = Size(frags)
           /\ At(frags, EndOf(frags)) = Place(Len(frags) + 1, 0)
           /\ LinkedAddress(lf, Place(Len(frags) + 1, 0)) = Size(lf)
           /\ Size(lf) \in Nat
<1> DEFINE n == Len(frags)
<1>1. n \in Nat /\ n + 1 \in 1 .. n + 1 /\ lf \in Seq(FragType) /\ Len(lf) = n
  BY LenProperties DEF Shrunk
<1>2. Offset(frags, n + 1) \in Nat /\ Offset(lf, n + 1) \in Nat
  BY <1>1, OffsetProperties
<1>3. EndOf(frags).frag = n + 1 /\ EndOf(frags).back = Absent
  BY DEF EndOf
<1>4. FitsIn(EndOf(frags), frags)
  BY <1>1, <1>3 DEF FitsIn, OptNat
<1>5. RowAddr(frags, EndOf(frags)) = Size(frags)
  BY <1>3 DEF RowAddr, Size
<1>6. At(frags, EndOf(frags)) = Place(n + 1, 0)
  BY <1>2, <1>3, <1>5 DEF At, Size
<1>7. LinkedAddress(lf, Place(n + 1, 0)) = Size(lf)
  BY <1>1, <1>2 DEF LinkedAddress, Place, Size
<1> QED
  BY <1>1, <1>2, <1>4, <1>5, <1>6, <1>7 DEF Size

EndWritten(target, frags, was) ==
    LET end == Place(Len(frags) + 1, 0)
        addr == Distance(was.last, Size(frags))
        moves == MovesBetween(frags, was.last, Size(frags))
    IN  IF target.fixed \/ moves \/ UncertainBetween(frags, was.at.frag, end.frag)
          THEN FixedEnd(was.at, end, addr, moves)
          ELSE SpecialEnd(addr \div target.min, OpcodeBase(target))

Ended(c, bytes) == [Forward(c, bytes) EXCEPT !.end = c.address + bytes]

(* The last opcode ends the sequence where the consumer is.                *)
LEMMA EndSequenceReads ==
    ASSUME NEW target, NEW lf, NEW c \in RegisterType, NEW bytes \in Nat
    PROVE  Reads(target, lf, Forward(c, bytes), <<ExtendedOp(EndSequence, 0)>>, Ended(c, bytes))
<1> DEFINE op == ExtendedOp(EndSequence, 0)
           now == Forward(c, bytes)
<1>1. op \in OpType
  BY OpsAreOps DEF EndSequence
<1>2. Execute(target, lf, now, op) = [now EXCEPT !.end = now.address]
  BY ExecuteExtended
<1>3. now.address = c.address + bytes
  BY DEF Forward, RegisterType
<1>4. Execute(target, lf, now, op) = Ended(c, bytes)
  BY <1>2, <1>3 DEF Ended
<1> HIDE DEF op, now
<1> QED
  BY <1>1, <1>4, ReadsOne DEF op, now

(* An advance of a number of instructions.                                 *)
LEMMA SpecialEndReads ==
    ASSUME NEW target \in TargetType, NEW lf, NEW c \in RegisterType, NEW n \in Nat
    PROVE  Reads(target, lf, c, SpecialEnd(n, OpcodeBase(target)), Ended(c, n * target.min))
<1> DEFINE base == OpcodeBase(target)
           bytes == n * target.min
           first == CASE n = MaxSpecial(base) -> <<Op(ConstAddPc, 0)>>
                      [] n = 0 -> <<>>
                      [] OTHER -> <<Op(AdvancePc, n)>>
           last == <<ExtendedOp(EndSequence, 0)>>
<1>1. bytes \in Nat
  BY DEF TargetType
<1>2. MaxSpecial(base) = 17
  BY BaseIsOneOfTwo DEF MaxSpecial, LineRange
<1>3. Reads(target, lf, c, first, Forward(c, bytes))
  <2>1. CASE n = 17
    <3> DEFINE op == Op(ConstAddPc, 0)
    <3>1. op \in OpType /\ op.code = ConstAddPc
      BY OpcodesAreNamed, OpsAreOps DEF OpcodeNames, Op
    <3>2. first = <<op>>
      BY <1>2, <2>1
    <3> HIDE DEF op, first
    <3>3. Execute(target, lf, c, op) = Forward(c, MaxSpecial(OpcodeBase(target)) * target.min)
      BY <3>1, ExecuteStandard
    <3> QED
      BY <1>2, <2>1, <3>1, <3>2, <3>3, ReadsOne
  <2>2. CASE n = 0
    BY <1>2, <2>2, ForwardMoves, LineMoves, ReadsNone DEF TargetType
  <2>3. CASE n # 17 /\ n # 0
    <3> DEFINE op == Op(AdvancePc, n)
    <3>1. op \in OpType /\ op.code = AdvancePc /\ op.arg = n
      BY OpcodesAreNamed, OpsAreOps DEF OpcodeNames, Op
    <3>2. first = <<op>>
      BY <1>2, <2>3
    <3> HIDE DEF op, first
    <3>3. Execute(target, lf, c, op) = Forward(c, n * target.min)
      BY <3>1, ExecuteStandard
    <3> QED
      BY <3>1, <3>2, <3>3, ReadsOne
  <2> QED
    BY <2>1, <2>2, <2>3
<1>4. SpecialEnd(n, base) = first \o last
  BY DEF SpecialEnd
<1> HIDE DEF first, bytes, base
<1>5. Reads(target, lf, Forward(c, bytes), last, Ended(c, bytes))
  BY <1>1, EndSequenceReads
<1> HIDE DEF last
<1> QED
  BY <1>3, <1>4, <1>5, ReadsBoth DEF bytes, base

(* A number of bytes, of 16 bits.                                          *)
EndField(lf, from, to, addr, moves) ==
    IF moves THEN (LinkedAddress(lf, to) - LinkedAddress(lf, from)) % FieldSize
    ELSE addr % FieldSize

(* A fixed advance to the end.                                             *)
LEMMA FixedEndReads ==
    ASSUME NEW target \in TargetType, NEW lf, NEW c \in RegisterType,
           NEW from \in PlaceType, NEW to \in PlaceType,
           NEW addr \in Nat, NEW moves \in BOOLEAN,
           LinkedAddress(lf, to) \in Nat, LinkedAddress(lf, from) \in Nat
    PROVE  /\ EndField(lf, from, to, addr, moves) \in Nat
           /\ Reads(target, lf, c, FixedEnd(from, to, addr, moves),
                    Ended(c, EndField(lf, from, to, addr, moves)))
<1> DEFINE field == AdvanceField(from, to, addr, moves)
           last == ExtendedOp(EndSequence, 0)
           bytes == EndField(lf, from, to, addr, moves)
<1>1. bytes \in Nat
  BY DEF EndField, FieldSize
<1>3. field \in OpType /\ Execute(target, lf, c, field) = Forward(c, bytes)
  <2>1. CASE moves
    BY <2>1, ExecuteMeasured, OpsAreOps DEF AdvanceField, EndField
  <2>2. CASE ~moves
    <3> DEFINE op == Op(FixedAdvancePc, bytes)
    <3>1. field = op
      BY <2>2 DEF AdvanceField, EndField
    <3>2. op.code = FixedAdvancePc /\ op.arg = bytes /\ op.arg # Absent
      BY <1>1 DEF Op, Absent
    <3>3. op \in OpType
      BY <1>1, OpcodesAreNamed, OpsAreOps DEF OpcodeNames
    <3> HIDE DEF op, field, bytes
    <3>4. Execute(target, lf, c, op) = Forward(c, op.arg)
      BY <3>2, ExecuteStandard
    <3> QED
      BY <3>1, <3>2, <3>3, <3>4
  <2> QED
    BY <2>1, <2>2
<1> HIDE DEF bytes
<1>4. last \in OpType
  BY OpsAreOps DEF EndSequence
<1>5. Reads(target, lf, Forward(c, bytes), <<last>>, Ended(c, bytes))
  BY <1>1, EndSequenceReads
<1>6. FixedEnd(from, to, addr, moves) = <<field, last>>
  BY DEF FixedEnd
<1> HIDE DEF field, last
<1>7. Reads(target, lf, c, <<field>>, Forward(c, bytes))
  BY <1>3, ReadsOne
<1>8. <<field>> \o <<last>> = <<field, last>>
  BY <1>3, <1>4, PairIsConcat
<1>9. Reads(target, lf, c, FixedEnd(from, to, addr, moves), Ended(c, bytes))
  BY <1>5, <1>6, <1>7, <1>8, ReadsBoth
<1> QED
  BY <1>1, <1>9 DEF bytes

(* The end of the code, by whatever advance.                               *)
LEMMA EndReads ==
    ASSUME NEW target \in TargetType, NEW frags \in Seq(FragType), NEW lf, Shrunk(frags, lf),
           NEW was, NEW c \in RegisterType, IsBefore(target, frags, lf, was, c, EndOf(frags))
    PROVE  \E bytes \in Nat :
              /\ Reads(target, lf, c, EndWritten(target, frags, was), Ended(c, bytes))
              /\ (target.fixed \/ (\E f \in DOMAIN frags : frags[f].moves) =>
                     Size(frags) - was.last < FieldSize)
                 => c.address + bytes = Size(lf)
<1> DEFINE end == Place(Len(frags) + 1, 0)
           addr == Distance(was.last, Size(frags))
           bytes == Size(lf) - c.address
           moves == MovesBetween(frags, was.last, Size(frags))
           uncertain == UncertainBetween(frags, was.at.frag, end.frag)
<1>1. /\ FitsIn(EndOf(frags), frags)
      /\ RowAddr(frags, EndOf(frags)) = Size(frags)
      /\ At(frags, EndOf(frags)) = end
      /\ LinkedAddress(lf, end) = Size(lf)
      /\ Size(lf) \in Nat
  BY EndIsLast
<1>2. /\ was.last \in Nat /\ addr = Size(frags) - was.last /\ addr \in Nat
      /\ was.at \in PlaceType /\ c.address = LinkedAddress(lf, was.at)
      /\ bytes \in Nat /\ bytes <= addr
      /\ ~moves => bytes = addr
      /\ addr % target.min = 0
  BY <1>1, GapBefore
<1>3. end \in PlaceType
  BY <1>1, PositionType
<1>4. c.address + bytes = Size(lf)
  BY <1>1 DEF RegisterType
<1> DEFINE reach == target.fixed \/ (\E f \in DOMAIN frags : frags[f].moves) =>
                       Size(frags) - was.last < FieldSize
<1>5. CASE target.fixed \/ moves \/ uncertain
  <2>1. EndWritten(target, frags, was) = FixedEnd(was.at, end, addr, moves)
    BY <1>5 DEF EndWritten
  <2>2. reach => addr < FieldSize
    BY <1>2, <1>5 DEF MovesBetween, UncertainBetween
  <2>3. moves \in BOOLEAN
    BY DEF MovesBetween
  <2>4. bytes = LinkedAddress(lf, end) - LinkedAddress(lf, was.at)
    BY <1>1, <1>2
  <2>5. LinkedAddress(lf, end) \in Nat /\ LinkedAddress(lf, was.at) \in Nat
    BY <1>1, <1>2 DEF RegisterType
  <2> HIDE DEF addr, moves, end, bytes, reach
  <2> DEFINE field == EndField(lf, was.at, end, addr, moves)
  <2>6. /\ field \in Nat
        /\ Reads(target, lf, c, FixedEnd(was.at, end, addr, moves), Ended(c, field))
    BY <1>2, <1>3, <2>3, <2>5, FixedEndReads
  <2>7. reach => field = bytes
    BY <1>2, <2>2, <2>4 DEF FieldSize, EndField
  <2> HIDE DEF field
  <2>8. reach => c.address + field = Size(lf)
    BY <1>4, <2>7
  <2> QED
    BY <2>1, <2>6, <2>8 DEF reach
<1>6. CASE ~(target.fixed \/ moves \/ uncertain)
  <2> DEFINE n == addr \div target.min
  <2>1. EndWritten(target, frags, was) = SpecialEnd(n, OpcodeBase(target))
    BY <1>6 DEF EndWritten
  <2>2. n \in Nat /\ n * target.min = addr
    <3>1. target.min \in Nat \ {0}
      BY DEF TargetType
    <3>2. \A x \in Nat, y \in Nat \ {0} : x % y = 0 => x \div y \in Nat /\ (x \div y) * y = x
      OBVIOUS
    <3> HIDE DEF addr
    <3> QED
      BY <1>2, <3>1, <3>2
  <2>3. bytes = addr
    BY <1>2, <1>6
  <2> HIDE DEF n, addr, bytes, moves
  <2>4. Reads(target, lf, c, SpecialEnd(n, OpcodeBase(target)), Ended(c, n * target.min))
    BY <2>2, SpecialEndReads
  <2> QED
    BY <1>2, <1>4, <2>1, <2>2, <2>3, <2>4
<1> QED
  BY <1>5, <1>6

(***************************************************************************)
(* The rows, one after the other.                                          *)
(***************************************************************************)
(* A row as a consumer sees it.                                            *)
SeenAs(target, address, loc, view) ==
    [address |-> address, file |-> loc.file, line |-> loc.line, column |-> loc.column,
     isa |-> loc.isa, isStmt |-> loc.isStmt,
     disc |-> IF HasDiscriminators(target) THEN loc.disc ELSE 0,
     flags |-> loc.flags, view |-> view]

LEMMA SeenHasType ==
    ASSUME NEW target, NEW address \in Nat, NEW loc \in LocType, NEW view \in Nat
    PROVE  SeenAs(target, address, loc, view) \in SeenType
BY DEF LocType, SeenAs, SeenType

(* The registers after a row.                                              *)
AfterRow(target, c, address, loc, view) ==
    [c EXCEPT !.file = loc.file, !.column = loc.column, !.isa = loc.isa,
              !.isStmt = loc.isStmt, !.line = loc.line, !.address = address,
              !.disc = 0, !.flags = {}, !.view = view + 1,
              !.rows = Append(@, SeenAs(target, address, loc, view))]

(* The row that a consumer adds.                                           *)
LEMMA AddRowGives ==
    ASSUME NEW target, NEW c \in RegisterType, NEW loc \in LocType,
           NEW address \in Nat, NEW view \in Nat, NEW delta, delta = loc.line - c.line
    PROVE  AddRow(Placed(WithLoc(target, c, loc), delta, address, view)) =
              AfterRow(target, c, address, loc, view)
<1> DEFINE d == WithLoc(target, c, loc)
           e == Placed(d, delta, address, view)
           seen == [address |-> e.address, file |-> e.file, line |-> e.line,
                    column |-> e.column, isa |-> e.isa, isStmt |-> e.isStmt,
                    disc |-> e.disc, flags |-> e.flags, view |-> e.view]
           row == SeenAs(target, address, loc, view)
           next == view + 1
           rows == Append(c.rows, row)
<1>1. c.line + delta = loc.line
  BY SMTT(30) DEF RegisterType, LocType
<1>2. /\ d.line = c.line /\ d.rows = c.rows /\ d.end = c.end /\ d.file = loc.file
      /\ d.column = loc.column /\ d.isa = loc.isa /\ d.isStmt = loc.isStmt /\ d.flags = loc.flags
      /\ d.disc = IF HasDiscriminators(target) THEN loc.disc ELSE 0
  BY DEF WithLoc, RegisterType
<1>3. /\ e.line = loc.line /\ e.rows = c.rows /\ e.file = loc.file
      /\ e.column = loc.column /\ e.isa = loc.isa /\ e.isStmt = loc.isStmt /\ e.flags = loc.flags
      /\ e.disc = IF HasDiscriminators(target) THEN loc.disc ELSE 0
      /\ e.address = address /\ e.view = view
  BY <1>1, <1>2 DEF Placed, WithLoc, RegisterType
<1>4. seen = row
  BY <1>3 DEF SeenAs
<1>5. AddRow(e) = [e EXCEPT !.disc = 0, !.flags = {}, !.view = next, !.rows = rows]
  <2>1. Append(e.rows, seen) = rows /\ e.view + 1 = next
    BY <1>3, <1>4
  <2> HIDE DEF e, row, next, rows
  <2> QED
    BY <2>1 DEF AddRow
<1>6. e = [c EXCEPT !.file = loc.file, !.column = loc.column, !.isa = loc.isa,
                    !.isStmt = loc.isStmt, !.line = loc.line, !.address = address,
                    !.disc = IF HasDiscriminators(target) THEN loc.disc ELSE 0,
                    !.flags = loc.flags, !.view = view]
  BY <1>1, <1>2 DEF Placed, WithLoc, RegisterType
<1> HIDE DEF e, next, rows
<1>7. AddRow(e) =
        [c EXCEPT !.file = loc.file, !.column = loc.column, !.isa = loc.isa,
                  !.isStmt = loc.isStmt, !.line = loc.line, !.address = address,
                  !.disc = 0, !.flags = {}, !.view = next, !.rows = rows]
  BY <1>5, <1>6 DEF RegisterType
<1>8. AfterRow(target, c, address, loc, view) =
        [c EXCEPT !.file = loc.file, !.column = loc.column, !.isa = loc.isa,
                  !.isStmt = loc.isStmt, !.line = loc.line, !.address = address,
                  !.disc = 0, !.flags = {}, !.view = next, !.rows = rows]
  BY DEF AfterRow, next, rows
<1> QED
  BY <1>7, <1>8 DEF e

IsAt(now, target, c, address, loc, view) ==
    /\ now \in RegisterType /\ now.disc = 0 /\ now.flags = {}
    /\ now.file = loc.file /\ now.line = loc.line /\ now.column = loc.column
    /\ now.isa = loc.isa /\ now.isStmt = loc.isStmt
    /\ now.address = address /\ now.view = view + 1
    /\ now.rows = Append(c.rows, SeenAs(target, address, loc, view))

(* The consumer agrees with the writer after a row.                        *)
LEMMA AfterRowType ==
    ASSUME NEW target, NEW c \in RegisterType, NEW loc \in LocType,
           NEW address \in Nat, NEW view \in Nat
    PROVE  IsAt(AfterRow(target, c, address, loc, view), target, c, address, loc, view)
<1> DEFINE row == SeenAs(target, address, loc, view)
           rows == Append(c.rows, row)
           next == view + 1
<1>1. row \in SeenType
  BY SeenHasType
<1>2. rows \in Seq(SeenType)
  BY <1>1, AppendProperties DEF RegisterType
<1>3. /\ loc.file \in Nat /\ loc.line \in Int /\ loc.column \in Nat /\ loc.isa \in Nat
      /\ loc.isStmt \in BOOLEAN /\ next \in Nat
  BY DEF LocType
<1> DEFINE now == AfterRow(target, c, address, loc, view)
<1>4. now = [c EXCEPT !.file = loc.file, !.column = loc.column, !.isa = loc.isa,
                      !.isStmt = loc.isStmt, !.line = loc.line, !.address = address,
                      !.disc = 0, !.flags = {}, !.view = next, !.rows = rows]
  BY DEF AfterRow
<1> HIDE DEF rows, now, next, row
<1>5. now \in RegisterType
  BY <1>2, <1>3, <1>4 DEF RegisterType
<1>6. /\ now.disc = 0 /\ now.flags = {}
      /\ now.file = loc.file /\ now.line = loc.line /\ now.column = loc.column
      /\ now.isa = loc.isa /\ now.isStmt = loc.isStmt
      /\ now.address = address /\ now.view = next /\ now.rows = rows
  BY <1>4 DEF RegisterType
<1>7. IsAt(now, target, c, address, loc, view)
  BY <1>5, <1>6 DEF IsAt, rows, next, row
<1> QED
  BY <1>7 DEF now

(* One row.                                                                *)
LEMMA RowReads ==
    ASSUME NEW target \in TargetType, NEW frags \in Seq(FragType), NEW lf, Shrunk(frags, lf),
           NEW row, row.loc \in LocType, FitsIn(row, frags),
           NEW was, NEW c, Agree(was, c), CanWrite(target, was, row.loc),
           was.last = Absent \/ IsBefore(target, frags, lf, was, c, row)
    PROVE  \E view \in Nat :
              LET address == LinkedAddress(lf, At(frags, row))
                  afresh == StartsAfresh(was, row.loc, RowAddr(frags, row))
              IN  /\ Reads(target, lf, c,
                           RowState(target, was, row.loc) \o RowAdvance(target, frags, was, row),
                           AfterRow(target, c, address, row.loc, view))
                  /\ address \in Nat
                  /\ afresh => view = 0
                  /\ ~afresh /\ address # c.address => view = 0
                  /\ ~afresh /\ RowAddr(frags, row) = was.last => view = c.view
<1> DEFINE address == LinkedAddress(lf, At(frags, row))
           afresh == StartsAfresh(was, row.loc, RowAddr(frags, row))
           d == WithLoc(target, c, row.loc)
           delta == row.loc.line - was.line
<1>1. c \in RegisterType /\ was.line = c.line
  BY DEF Agree
<1>2. address \in Nat
  BY RowsApart DEF Follows
<1>3. /\ d \in RegisterType /\ d.line = c.line /\ d.address = c.address /\ d.view = c.view
  BY <1>1 DEF LocType, WithLoc, RegisterType
<1>4. Reads(target, lf, c, RowState(target, was, row.loc), d)
  BY RowStateReads
<1>5. was.last = Absent \/ IsBefore(target, frags, lf, was, d, row)
  <2> HIDE DEF d
  <2> QED
    BY <1>3 DEF IsBefore
<1>6. was.line = d.line
  BY <1>1, <1>3
<1> HIDE DEF d
<1>7. PICK view \in Nat :
         /\ Reads(target, lf, d, RowAdvance(target, frags, was, row),
                  AddRow(Placed(d, delta, address, view)))
         /\ afresh => view = 0
         /\ ~afresh /\ address # d.address => view = 0
         /\ ~afresh /\ RowAddr(frags, row) = was.last => view = d.view
  BY <1>2, <1>3, <1>5, <1>6, RowAdvanceReads, ZenonT(60)
<1> HIDE DEF address, delta, afresh
<1>8. AddRow(Placed(d, delta, address, view)) = AfterRow(target, c, address, row.loc, view)
  BY <1>1, <1>2, AddRowGives DEF delta, d
<1>9. Reads(target, lf, c,
            RowState(target, was, row.loc) \o RowAdvance(target, frags, was, row),
            AfterRow(target, c, address, row.loc, view))
  BY <1>4, <1>7, <1>8, ReadsBoth
<1> QED
  BY <1>2, <1>3, <1>7, <1>9 DEF address, afresh

(* Rows the writer has opcodes for, in order and at whole instructions.    *)
Writable(target, frags, rows) ==
    /\ Len(rows) \in Nat
    /\ \A k \in 1 .. Len(rows) :
          /\ rows[k].loc \in LocType /\ FitsIn(rows[k], frags)
          /\ OpcodeBase(target) > SetIsa \/ IsVersion2(rows[k].loc)
    /\ \A k \in 1 .. Len(rows) - 1 :
          /\ Follows(rows[k], rows[k + 1])
          /\ (RowAddr(frags, rows[k + 1]) - RowAddr(frags, rows[k])) % target.min = 0

WriteRow(target, frags, was, row) ==
    [file |-> row.loc.file, line |-> row.loc.line, column |-> row.loc.column,
     isa |-> row.loc.isa, isStmt |-> row.loc.isStmt,
     last |-> RowAddr(frags, row), at |-> At(frags, row),
     ops |-> was.ops \o RowState(target, was, row.loc) \o RowAdvance(target, frags, was, row)]

IsWriting(g, target, frags, rows, last) ==
    g = [i \in 0..last |->
            IF i = 0 THEN FirstRegisters ELSE WriteRow(target, frags, g[i - 1], rows[i])]

(* The writer is a function of the rows before.                            *)
LEMMA WritingsExist ==
    ASSUME NEW target, NEW frags, NEW rows, NEW last \in Nat
    PROVE  \E g : IsWriting(g, target, frags, rows, last)
<1> DEFINE S == {n \in Nat : \E g : IsWriting(g, target, frags, rows, n)}
<1>1. 0 \in S
  <2>1. IsWriting([n \in 0..0 |-> FirstRegisters], target, frags, rows, 0)
    BY DEF IsWriting
  <2> QED
    BY <2>1
<1>2. ASSUME NEW n \in Nat, n \in S
      PROVE  n + 1 \in S
  <2>1. PICK g : IsWriting(g, target, frags, rows, n)
    BY <1>2
  <2> DEFINE h == [k \in 0 .. n + 1 |->
                      IF k = n + 1 THEN WriteRow(target, frags, g[n], rows[k]) ELSE g[k]]
  <2>2. ASSUME NEW k \in 0 .. n + 1
        PROVE  h[k] = IF k = 0 THEN FirstRegisters
                      ELSE WriteRow(target, frags, h[k - 1], rows[k])
    <3>1. CASE k = n + 1
      BY <3>1
    <3>2. CASE k # n + 1
      BY <2>1, <3>2 DEF IsWriting
    <3> QED
      BY <3>1, <3>2
  <2>3. h = [k \in 0 .. n + 1 |-> h[k]]
    OBVIOUS
  <2> HIDE DEF h
  <2>4. IsWriting(h, target, frags, rows, n + 1)
    BY <2>2, <2>3 DEF IsWriting
  <2> QED
    BY <2>4
<1> HIDE DEF S
<1>3. Nat \subseteq S
  BY <1>1, <1>2, InductionBySets
<1> QED
  BY <1>3 DEF S

LEMMA RowsWrittenIs ==
    ASSUME NEW target, NEW frags, NEW rows, Len(rows) \in Nat
    PROVE  \E g : /\ IsWriting(g, target, frags, rows, Len(rows))
                  /\ RowsWritten(target, frags, rows) = g[Len(rows)]
<1> DEFINE g == CHOOSE g : IsWriting(g, target, frags, rows, Len(rows))
<1>1. IsWriting(g, target, frags, rows, Len(rows))
  BY WritingsExist
<1>2. RowsWritten(target, frags, rows) = g[Len(rows)]
  BY DEF RowsWritten, IsWriting, WriteRow
<1> QED
  BY <1>1, <1>2

(* The numbers of views: a row where the one before it is counts up.       *)
CountsViews(frags, rows, views) ==
    \A k \in 1 .. Len(rows) :
       views[k] = IF /\ k > 1
                     /\ RowAddr(frags, rows[k]) <= RowAddr(frags, rows[k - 1])
                     /\ rows[k].loc.view # "reset"
                  THEN views[k - 1] + 1 ELSE 0

(* The consumer has read the first j rows.                                 *)
IsSeen(target, frags, lf, row, view, seen) ==
    \E counted \in Nat :
       /\ seen = SeenAs(target, LinkedAddress(lf, At(frags, row)), row.loc, counted)
       /\ lf = frags => counted = view

ReadsRows(target, frags, lf, rows, views, j, was, c) ==
    /\ Reads(target, lf, Registers, was.ops, c)
    /\ Agree(was, c)
    /\ OpcodeBase(target) > SetIsa \/ was.isa = 0
    /\ j = 0 => was.last = Absent
    /\ j > 0 => /\ was.last = RowAddr(frags, rows[j]) /\ was.at = At(frags, rows[j])
                /\ c.address = LinkedAddress(lf, At(frags, rows[j]))
                /\ lf = frags => c.view = views[j] + 1
    /\ Len(c.rows) = j
    /\ \A k \in 1..j : IsSeen(target, frags, lf, rows[k], views[k], c.rows[k])

(* It starts with none, and reads one at a time, hence all.                *)
LEMMA ReadsNoRows ==
    ASSUME NEW target, NEW frags, NEW lf, NEW rows, NEW views
    PROVE  ReadsRows(target, frags, lf, rows, views, 0, FirstRegisters, Registers)
<1>1. Reads(target, lf, Registers, <<>>, Registers)
  BY ReadsNone
<1>2. /\ FirstRegisters.ops = <<>> /\ FirstRegisters.isa = 0 /\ FirstRegisters.last = Absent
      /\ FirstRegisters.file = 1 /\ FirstRegisters.line = 1 /\ FirstRegisters.column = 0
      /\ FirstRegisters.isStmt = TRUE
  BY DEF FirstRegisters
<1>3. Registers \in RegisterType
  BY DEF Absent, Registers, RegisterType
<1>4. /\ Registers.disc = 0 /\ Registers.flags = {} /\ Registers.file = 1 /\ Registers.line = 1
      /\ Registers.column = 0 /\ Registers.isa = 0 /\ Registers.isStmt = TRUE
      /\ Registers.rows = <<>>
  BY DEF Registers
<1>5. Agree(FirstRegisters, Registers)
  BY <1>2, <1>3, <1>4 DEF Agree
<1>6. Len(<<>>) = 0 /\ 1..0 = {}
  BY EmptySeq
<1> QED
  BY <1>1, <1>2, <1>4, <1>5, <1>6 DEF ReadsRows

(* Where nothing was taken, a row is linked where it was written.          *)
LEMMA LinkedIsRow ==
    ASSUME NEW frags \in Seq(FragType), NEW row, FitsIn(row, frags)
    PROVE  LinkedAddress(frags, At(frags, row)) = RowAddr(frags, row)
BY RowIsAt DEF LinkedAddress

(* One row more.                                                           *)
LEMMA ReadsOneRowMore ==
    ASSUME NEW target \in TargetType, NEW frags \in Seq(FragType), NEW lf, Shrunk(frags, lf),
           NEW rows, Writable(target, frags, rows), NEW views, CountsViews(frags, rows, views),
           NEW j \in Nat, j + 1 <= Len(rows), NEW was, NEW c,
           ReadsRows(target, frags, lf, rows, views, j, was, c)
    PROVE  \E now : ReadsRows(target, frags, lf, rows, views, j + 1,
                              WriteRow(target, frags, was, rows[j + 1]), now)
<1> DEFINE i == j + 1
           row == rows[i]
           addr == RowAddr(frags, row)
           address == LinkedAddress(lf, At(frags, row))
           afresh == StartsAfresh(was, row.loc, addr)
           then == WriteRow(target, frags, was, row)
           last == rows[j]
<1>1. i \in 1 .. Len(rows) /\ Len(rows) \in Nat
  BY DEF Writable
<1>2. /\ row.loc \in LocType /\ FitsIn(row, frags)
      /\ OpcodeBase(target) > SetIsa \/ IsVersion2(row.loc)
  BY <1>1 DEF Writable
<1>3. /\ Reads(target, lf, Registers, was.ops, c) /\ Agree(was, c)
      /\ OpcodeBase(target) > SetIsa \/ was.isa = 0
      /\ j = 0 => was.last = Absent
      /\ j > 0 => /\ was.last = RowAddr(frags, last) /\ was.at = At(frags, last)
                  /\ c.address = LinkedAddress(lf, At(frags, last))
                  /\ lf = frags => c.view = views[j] + 1
      /\ Len(c.rows) = j
      /\ \A k \in 1..j : IsSeen(target, frags, lf, rows[k], views[k], c.rows[k])
  BY DEF ReadsRows
<1>4. CanWrite(target, was, row.loc)
  BY <1>2, <1>3 DEF CanWrite
<1>5. j > 0 => /\ FitsIn(last, frags) /\ Follows(last, row)
               /\ (addr - RowAddr(frags, last)) % target.min = 0
               /\ RowAddr(frags, last) \in Nat /\ addr \in Nat /\ RowAddr(frags, last) <= addr
  <2>1. ASSUME j > 0
        PROVE  FitsIn(last, frags) /\ Follows(last, row)
               /\ (addr - RowAddr(frags, last)) % target.min = 0
    BY <1>1, <2>1 DEF Writable
  <2>2. ASSUME j > 0
        PROVE  RowAddr(frags, last) \in Nat /\ addr \in Nat /\ RowAddr(frags, last) <= addr
    BY <1>2, <2>1, <2>2, RowsApart
  <2> QED
    BY <2>1, <2>2
<1>6. was.last = Absent \/ IsBefore(target, frags, lf, was, c, row)
  <2>1. ASSUME j > 0
        PROVE  IsBefore(target, frags, lf, was, c, row)
    BY <1>3, <1>5, <2>1 DEF IsBefore
  <2> QED
    BY <1>3, <2>1
<1>7. PICK view \in Nat :
         /\ Reads(target, lf, c,
                  RowState(target, was, row.loc) \o RowAdvance(target, frags, was, row),
                  AfterRow(target, c, address, row.loc, view))
         /\ address \in Nat
         /\ afresh => view = 0
         /\ ~afresh /\ address # c.address => view = 0
         /\ ~afresh /\ addr = was.last => view = c.view
  BY <1>2, <1>3, <1>4, <1>6, RowReads
<1> DEFINE now == AfterRow(target, c, address, row.loc, view)
           seen == SeenAs(target, address, row.loc, view)
<1>8. c \in RegisterType
  BY <1>3 DEF Agree
<1>9. /\ now \in RegisterType /\ now.disc = 0 /\ now.flags = {}
      /\ now.file = row.loc.file /\ now.line = row.loc.line /\ now.column = row.loc.column
      /\ now.isa = row.loc.isa /\ now.isStmt = row.loc.isStmt
      /\ now.address = address /\ now.view = view + 1
      /\ now.rows = Append(c.rows, seen)
  <2>1. row.loc \in LocType /\ address \in Nat /\ view \in Nat
    BY <1>2, <1>7
  <2>2. IsAt(now, target, c, address, row.loc, view)
    BY <1>8, <2>1, AfterRowType
  <2> HIDE DEF now, address, row
  <2> QED
    BY <2>2 DEF IsAt
<1>10. lf = frags => view = views[i]
  <2>1. ASSUME lf = frags
        PROVE  view = views[i]
    <3>1. views[i] = IF /\ i > 1 /\ addr <= RowAddr(frags, rows[i - 1])
                        /\ row.loc.view # "reset"
                     THEN views[i - 1] + 1 ELSE 0
      BY <1>1 DEF CountsViews
    <3>2. i - 1 = j /\ (i > 1 <=> j > 0)
      OBVIOUS
    <3>3. address = addr
      BY <1>2, <2>1, LinkedIsRow
    <3>4. CASE j = 0
      BY <1>3, <1>7, <3>1, <3>2, <3>4 DEF StartsAfresh
    <3>5. CASE j > 0
      <4>1. c.address = RowAddr(frags, last) /\ was.last = RowAddr(frags, last)
        BY <1>3, <1>5, <2>1, <3>5, LinkedIsRow
      <4>2. was.last # Absent
        BY <1>5, <3>5, <4>1 DEF Absent
      <4>3. afresh <=> row.loc.view = "reset" /\ RowAddr(frags, last) = addr
        BY <4>1, <4>2 DEF StartsAfresh
      <4>4. addr <= RowAddr(frags, last) <=> addr = RowAddr(frags, last)
        BY <1>5, <3>5
      <4>5. views[i] = IF addr = RowAddr(frags, last) /\ row.loc.view # "reset"
                       THEN views[j] + 1 ELSE 0
        BY <3>1, <3>2, <3>5, <4>4
      <4>6. c.view = views[j] + 1
        BY <1>3, <2>1, <3>5
      <4> HIDE DEF addr, address, afresh, row, i, last
      <4> QED
        BY <1>7, <3>3, <4>1, <4>3, <4>5, <4>6
    <3> QED
      BY <3>4, <3>5
  <2> QED
    BY <2>1
<1>11. /\ then.file = row.loc.file /\ then.line = row.loc.line /\ then.column = row.loc.column
       /\ then.isa = row.loc.isa /\ then.isStmt = row.loc.isStmt
       /\ then.last = addr /\ then.at = At(frags, row)
       /\ then.ops = was.ops \o RowState(target, was, row.loc)
                             \o RowAdvance(target, frags, was, row)
  BY DEF WriteRow
<1> HIDE DEF i, then, now
<1>12. Agree(then, now)
  BY <1>9, <1>11 DEF Agree
<1>13. Reads(target, lf, Registers, then.ops, now)
  <2> DEFINE state == RowState(target, was, row.loc)
             advance == RowAdvance(target, frags, was, row)
  <2>1. was.ops \in Seq(OpType)
    BY <1>3 DEF Reads
  <2>2. state \in Seq(OpType) /\ advance \in Seq(OpType)
    <3>1. Reads(target, lf, c, state, WithLoc(target, c, row.loc))
      BY <1>2, <1>3, <1>4, RowStateReads
    <3>3. advance \in Seq(OpType)
      BY <1>2, <1>3, <1>6, <1>7, <1>8, RowAdvanceReads DEF Reads, Agree
    <3> QED
      BY <3>1, <3>3 DEF Reads
  <2> DEFINE before == was.ops
  <2> HIDE DEF state, advance
  <2>3. then.ops = before \o (state \o advance)
    <3>1. then.ops = before \o state \o advance
      BY <1>11 DEF state, advance
    <3> HIDE DEF before
    <3>2. before \in Seq(OpType)
      BY <2>1 DEF before
    <3>3. (before \o state) \o advance = before \o (state \o advance)
      BY <2>2, <3>2, ConcatAssociative, SMTT(30)
    <3> QED
      BY <3>1, <3>3
  <2>4. Reads(target, lf, c, state \o advance, now)
    BY <1>7 DEF state, advance, now
  <2> QED
    BY <1>3, <2>3, <2>4, ReadsBoth
<1>14. OpcodeBase(target) > SetIsa \/ then.isa = 0
  BY <1>2, <1>11 DEF IsVersion2
<1>15. /\ Len(now.rows) = i /\ now.rows[i] = seen
       /\ \A k \in 1..j : now.rows[k] = c.rows[k]
  <2>1. seen \in SeenType /\ c.rows \in Seq(SeenType)
    BY <1>2, <1>7, <1>8, SeenHasType DEF RegisterType
  <2> HIDE DEF seen
  <2> QED
    BY <1>3, <1>9, <2>1, AppendProperties DEF i
<1>16. ASSUME NEW k \in 1..i
       PROVE  IsSeen(target, frags, lf, rows[k], views[k], now.rows[k])
  <2>1. CASE k = i
    BY <1>7, <1>10, <1>15, <2>1 DEF IsSeen
  <2>2. CASE k # i
    BY <1>3, <1>15, <2>2 DEF i
  <2> QED
    BY <2>1, <2>2
<1>17. i > 0 /\ i # 0
  BY DEF i
<1>18. ReadsRows(target, frags, lf, rows, views, i, then, now)
  <2>1. lf = frags => now.view = views[i] + 1
    BY <1>9, <1>10
  <2> QED
    BY <1>9, <1>11, <1>12, <1>13, <1>14, <1>15, <1>16, <1>17, <2>1 DEF ReadsRows
<1> QED
  BY <1>18 DEF i, then

(* All the rows.                                                           *)
LEMMA RowsRead ==
    ASSUME NEW target \in TargetType, NEW frags \in Seq(FragType), NEW lf, Shrunk(frags, lf),
           NEW rows, Writable(target, frags, rows), NEW views, CountsViews(frags, rows, views)
    PROVE  \E c : ReadsRows(target, frags, lf, rows, views, Len(rows),
                            RowsWritten(target, frags, rows), c)
<1> DEFINE n == Len(rows)
<1>1. n \in Nat
  BY DEF Writable
<1>2. PICK g : IsWriting(g, target, frags, rows, n) /\ RowsWritten(target, frags, rows) = g[n]
  BY <1>1, RowsWrittenIs
<1> DEFINE S == {j \in Nat : j <= n =>
                    \E c : ReadsRows(target, frags, lf, rows, views, j, g[j], c)}
<1>3. 0 \in S
  BY <1>1, <1>2, ReadsNoRows DEF IsWriting
<1>4. ASSUME NEW j \in Nat, j \in S
      PROVE  j + 1 \in S
  <2>1. ASSUME j + 1 <= n
        PROVE  \E c : ReadsRows(target, frags, lf, rows, views, j + 1, g[j + 1], c)
    <3>1. PICK c : ReadsRows(target, frags, lf, rows, views, j, g[j], c)
      BY <1>1, <1>4, <2>1
    <3>2. g[j + 1] = WriteRow(target, frags, g[j], rows[j + 1])
      <4>1. PICK k \in 0..n : k = j + 1
        BY <1>1, <2>1
      <4>2. k # 0 /\ k - 1 = j
        BY <4>1
      <4>3. g[k] = WriteRow(target, frags, g[k - 1], rows[k])
        BY <1>2, <4>2 DEF IsWriting
      <4> QED
        BY <4>1, <4>2, <4>3
    <3>3. \E now : ReadsRows(target, frags, lf, rows, views, j + 1,
                             WriteRow(target, frags, g[j], rows[j + 1]), now)
      BY <2>1, <3>1, ReadsOneRowMore
    <3> QED
      BY <3>2, <3>3
  <2> QED
    BY <2>1
<1> HIDE DEF S
<1>5. n \in S
  BY <1>1, <1>3, <1>4, InductionBySets
<1> QED
  BY <1>2, <1>5 DEF S

(* All that is written for a sequence.                                     *)
LEMMA ProgramReads ==
    ASSUME NEW target \in TargetType, NEW frags \in Seq(FragType), NEW lf, Shrunk(frags, lf),
           NEW rows, Writable(target, frags, rows), Len(rows) > 0,
           NEW views, CountsViews(frags, rows, views),
           (Size(frags) - RowAddr(frags, rows[Len(rows)])) % target.min = 0
    PROVE  LET read == Consumed(target, lf, LineProgram(target, frags, rows))
           IN  /\ Len(read.rows) = Len(rows)
               /\ \A k \in 1 .. Len(rows) :
                     IsSeen(target, frags, lf, rows[k], views[k], read.rows[k])
               /\ (target.fixed \/ (\E f \in DOMAIN frags : frags[f].moves) =>
                     Size(frags) - RowAddr(frags, rows[Len(rows)]) < FieldSize)
                  => read.end = Size(lf)
<1> DEFINE n == Len(rows)
           last == rows[n]
           was == RowsWritten(target, frags, rows)
           reach == target.fixed \/ (\E f \in DOMAIN frags : frags[f].moves) =>
                       Size(frags) - RowAddr(frags, last) < FieldSize
           read == Consumed(target, lf, LineProgram(target, frags, rows))
<1>1. n \in Nat /\ n \in 1..n
  BY DEF Writable
<1>2. last.loc \in LocType /\ FitsIn(last, frags)
  BY <1>1 DEF Writable
<1>3. PICK c : ReadsRows(target, frags, lf, rows, views, n, was, c)
  BY RowsRead
<1> HIDE DEF was
<1>4. /\ Reads(target, lf, Registers, was.ops, c) /\ c \in RegisterType
      /\ was.last = RowAddr(frags, last) /\ was.at = At(frags, last)
      /\ c.address = LinkedAddress(lf, At(frags, last))
      /\ Len(c.rows) = n
      /\ \A k \in 1..n : IsSeen(target, frags, lf, rows[k], views[k], c.rows[k])
  BY <1>1, <1>3 DEF ReadsRows, Agree
<1>5. was.last # Absent
  BY <1>2, <1>4, PositionType DEF Absent
<1>6. IsBefore(target, frags, lf, was, c, EndOf(frags))
  <2>1. Follows(last, EndOf(frags))
    <3>1. last.frag \in 1 .. Len(frags) + 1 /\ last.back \in OptNat
          /\ (last.back # Absent => last.frag <= Len(frags))
      BY <1>2 DEF FitsIn
    <3>2. Len(frags) \in Nat
      BY LenProperties
    <3>3. EndOf(frags).frag = Len(frags) + 1 /\ EndOf(frags).back = Absent
      BY DEF EndOf
    <3> HIDE DEF last
    <3>4. last.frag < Len(frags) + 1 \/ (last.frag = Len(frags) + 1 /\ last.back = Absent)
      BY <3>1, <3>2
    <3> QED
      BY <3>3, <3>4 DEF Follows
  <2>2. RowAddr(frags, EndOf(frags)) = Size(frags)
    BY EndIsLast
  <2> HIDE DEF last
  <2>3. (RowAddr(frags, EndOf(frags)) - RowAddr(frags, last)) % target.min = 0
    BY <2>2 DEF last
  <2> QED
    BY <1>2, <1>4, <2>1, <2>3 DEF IsBefore
<1>7. PICK bytes \in Nat :
         /\ Reads(target, lf, c, EndWritten(target, frags, was), Ended(c, bytes))
         /\ reach => c.address + bytes = Size(lf)
  <2> HIDE DEF last
  <2> QED
    BY <1>4, <1>6, EndReads
<1>8. LineProgram(target, frags, rows) = was.ops \o EndWritten(target, frags, was)
  BY <1>5 DEF LineProgram, EndWritten, was
<1>9. Reads(target, lf, Registers, LineProgram(target, frags, rows), Ended(c, bytes))
  BY <1>4, <1>7, <1>8, ReadsBoth
<1>10. read = Ended(c, bytes)
  <2>1. <<>> \in Seq(OpType) /\ Consumed(target, lf, <<>>) = Registers
    BY ConsumedNone
  <2>2. LineProgram(target, frags, rows) \in Seq(OpType)
    BY <1>9 DEF Reads
  <2>3. <<>> \o LineProgram(target, frags, rows) = LineProgram(target, frags, rows)
    BY <2>2, ConcatEmptySeq
  <2> QED
    BY <1>9, <2>1, <2>3 DEF Reads
<1>11. Ended(c, bytes).rows = c.rows /\ Ended(c, bytes).end = c.address + bytes
  BY <1>4 DEF Ended, Forward, RegisterType
<1> HIDE DEF read, reach
<1> QED
  BY <1>4, <1>7, <1>10, <1>11 DEF read, reach

(***************************************************************************)
(* The source: what is linked is what was written, less what a linker      *)
(* takes away.                                                             *)
(***************************************************************************)
LinkedIsShrunk ==
    linked # Unlinked => \A s \in Sections : Shrunk(code[s].frags, linked[s])

(* A linker takes bytes only where code moves.                             *)
LEMMA MovingIs ==
    ASSUME NEW s, NEW f, <<s, f>> \in Moving
    PROVE  code[s].frags[f].moves /\ code[s].frags[f].size > 0
<1>1. PICK t \in Sections :
         \E g \in DOMAIN code[t].frags :
            /\ code[t].frags[g].moves /\ code[t].frags[g].size > 0
            /\ <<s, f>> = <<t, g>>
  BY DEF Moving
<1>2. PICK g \in DOMAIN code[t].frags :
         /\ code[t].frags[g].moves /\ code[t].frags[g].size > 0
         /\ <<s, f>> = <<t, g>>
  BY <1>1
<1>3. s = t /\ f = g
  BY <1>2
<1> QED
  BY <1>2, <1>3

(* What it leaves is what was written, less those bytes.                   *)
LEMMA LinkShrinks ==
    ASSUME IInv, NEW taken \in SUBSET Moving, Link(taken)
    PROVE  LinkedIsShrunk'
<1>1. code \in [Sections -> CodeType] /\ code' = code
  BY DEF IInv, TypeOK, Link
<1>2. ASSUME NEW s \in Sections
      PROVE  Shrunk(code[s].frags, linked'[s])
  <2> DEFINE frags == code[s].frags
             n == Len(frags)
             new(f) == IF <<s, f>> \in taken THEN [frags[f] EXCEPT !.size = @ - 1] ELSE frags[f]
             lf == [f \in 1..n |-> new(f)]
  <2>1. frags \in Seq(FragType) /\ n \in Nat /\ DOMAIN frags = 1..n
    BY <1>1, LenProperties DEF CodeType
  <2>2. linked'[s] = lf
    <3>1. linked'[s] = [f \in DOMAIN frags |-> new(f)]
      BY DEF Link
    <3> HIDE DEF new
    <3> QED
      BY <2>1, <3>1
  <2>3. ASSUME NEW f \in 1..n
        PROVE  /\ new(f) \in FragType
               /\ \/ new(f).size = frags[f].size
                  \/ new(f).size < frags[f].size /\ frags[f].moves
    <3>1. frags[f] \in FragType
      BY <2>1, ElementOfSeq
    <3>2. frags[f].size \in Nat
      BY <3>1 DEF FragType
    <3>3. CASE <<s, f>> \in taken
      <4>1. frags[f].moves /\ frags[f].size > 0
        BY <3>3, MovingIs
      <4>2. new(f) = [frags[f] EXCEPT !.size = @ - 1]
        BY <3>3
      <4> HIDE DEF new
      <4> DEFINE frag == frags[f]
      <4> HIDE DEF frag
      <4>3. /\ frag \in FragType /\ frag.size \in Nat /\ frag.size > 0 /\ frag.moves
            /\ new(f) = [frag EXCEPT !.size = @ - 1]
        BY <3>1, <3>2, <4>1, <4>2 DEF frag
      <4>4. frag.size - 1 \in Nat /\ frag.size - 1 < frag.size
        BY <4>3
      <4>5. new(f) \in FragType /\ new(f).size = frag.size - 1
        BY <4>3, <4>4 DEF FragType
      <4> QED
        BY <4>3, <4>4, <4>5 DEF frag
    <3>4. CASE <<s, f>> \notin taken
      BY <3>1, <3>4
    <3> QED
      BY <3>3, <3>4
  <2> HIDE DEF new
  <2>4. lf \in Seq(FragType) /\ Len(lf) = n
    <3>1. lf \in [1..n -> FragType]
      BY <2>3
    <3> HIDE DEF lf
    <3>2. lf \in Seq(FragType)
      BY <2>1, <3>1, SeqDef
    <3>3. DOMAIN lf = 1..n /\ DOMAIN lf = 1 .. Len(lf) /\ Len(lf) \in Nat
      BY <3>1, <3>2, LenProperties
    <3> QED
      BY <2>1, <3>2, <3>3
  <2>5. \A f \in 1..n : lf[f] = new(f)
    OBVIOUS
  <2> HIDE DEF lf
  <2>6. Shrunk(frags, lf)
    BY <2>3, <2>4, <2>5 DEF Shrunk
  <2> QED
    BY <2>2, <2>6
<1> QED
  BY <1>1, <1>2 DEF LinkedIsShrunk

(* No other statement links.                                               *)
LEMMA NextKeepsLinked ==
    ASSUME IInv, LinkedIsShrunk, [Next]_vars
    PROVE  LinkedIsShrunk'
<1>1. CASE linked' = Unlinked
  BY <1>1 DEF LinkedIsShrunk
<1>2. CASE UNCHANGED <<code, linked>>
  BY <1>2 DEF LinkedIsShrunk
<1>3. CASE \E taken \in SUBSET Moving : Link(taken)
  BY <1>3, LinkShrinks
<1>4. ASSUME \E is : Statement(is), linked' = linked
      PROVE  linked' = Unlinked
  BY <1>4 DEF Statement, Reading
<1>5. linked' = Unlinked \/ UNCHANGED <<code, linked>> \/ \E taken \in SUBSET Moving : Link(taken)
  <2>1. ASSUME NEW arg, DirLoc(arg)
        PROVE  linked' = Unlinked
    BY <1>4, <2>1 DEF DirLoc
  <2>2. ASSUME NEW insn, NEW at, Instruction(insn, at)
        PROVE  linked' = Unlinked
    BY <1>4, <2>2 DEF Instruction
  <2>3. ASSUME Data
        PROVE  linked' = Unlinked
    BY <1>4, <2>3 DEF Data
  <2>4. ASSUME NEW frag, Align(frag)
        PROVE  linked' = Unlinked
    BY <1>4, <2>4 DEF Align
  <2>5. ASSUME NEW s, NEW named, SwitchSection(s, named)
        PROVE  linked' = Unlinked
    BY <1>4, <2>5 DEF SwitchSection
  <2>6. ASSUME Label
        PROVE  linked' = Unlinked
    BY <1>4, <2>6 DEF Label
  <2>7. ASSUME NEW on, DirLocMarkLabels(on)
        PROVE  linked' = Unlinked
    BY <1>4, <2>7 DEF DirLocMarkLabels
  <2>8. ASSUME NEW n, DirFile(n)
        PROVE  linked' = Unlinked
    BY <1>4, <2>8 DEF DirFile
  <2> QED
    BY <2>1, <2>2, <2>3, <2>4, <2>5, <2>6, <2>7, <2>8 DEF Next, vars
<1> QED
  BY <1>1, <1>2, <1>3, <1>5

(* Views are numbered one after the other.                                 *)
IsNumbering(g, frags, rows, last) ==
    g = [i \in 0..last |->
            IF i < 2 THEN 0
            ELSE IF /\ RowAddr(frags, rows[i]) <= RowAddr(frags, rows[i - 1])
                    /\ rows[i].loc.view # "reset"
              THEN g[i - 1] + 1
              ELSE 0]

(* There are such numbers, and the views are they.                         *)
LEMMA NumberingsExist ==
    ASSUME NEW frags, NEW rows, NEW last \in Nat
    PROVE  \E g : IsNumbering(g, frags, rows, last)
<1> DEFINE Cond(i) == /\ RowAddr(frags, rows[i]) <= RowAddr(frags, rows[i - 1])
                      /\ rows[i].loc.view # "reset"
           Is(i, prev) == IF i < 2 THEN 0 ELSE IF Cond(i) THEN prev + 1 ELSE 0
           S == {n \in Nat : \E g : IsNumbering(g, frags, rows, n)}
<1>1. 0 \in S
  <2>1. IsNumbering([n \in 0..0 |-> 0], frags, rows, 0)
    BY DEF IsNumbering
  <2> QED
    BY <2>1
<1>2. ASSUME NEW n \in Nat, n \in S
      PROVE  n + 1 \in S
  <2>1. PICK g : IsNumbering(g, frags, rows, n)
    BY <1>2
  <2> DEFINE h == [k \in 0 .. n + 1 |-> IF k = n + 1 THEN Is(k, g[n]) ELSE g[k]]
  <2>2. ASSUME NEW k \in 0 .. n + 1
        PROVE  h[k] = Is(k, h[k - 1])
    <3>1. CASE k = n + 1
      <4>1. k - 1 = n /\ n \in 0 .. n + 1 /\ n # n + 1
        BY <3>1
      <4> HIDE DEF Is
      <4>2. h[n] = g[n] /\ h[k] = Is(k, g[n])
        BY <3>1, <4>1
      <4> QED
        BY <4>1, <4>2
    <3>2. CASE k # n + 1
      <4>1. k \in 0..n /\ h[k] = g[k]
        BY <3>2
      <4>2. g[k] = Is(k, g[k - 1])
        BY <2>1, <4>1 DEF IsNumbering
      <4>3. k # 0 => h[k - 1] = g[k - 1]
        BY <3>2
      <4>4. k = 0 => \A x, y : Is(k, x) = Is(k, y)
        OBVIOUS
      <4> HIDE DEF Is, h
      <4> QED
        BY <4>1, <4>2, <4>3, <4>4
    <3> QED
      BY <3>1, <3>2
  <2>3. h = [k \in 0 .. n + 1 |-> h[k]]
    OBVIOUS
  <2> HIDE DEF h
  <2>4. IsNumbering(h, frags, rows, n + 1)
    BY <2>2, <2>3 DEF IsNumbering
  <2> QED
    BY <2>4
<1> HIDE DEF S
<1>3. Nat \subseteq S
  BY <1>1, <1>2, InductionBySets
<1> QED
  BY <1>3 DEF S

LEMMA ViewsCount ==
    ASSUME NEW frags, NEW rows, Len(rows) \in Nat
    PROVE  CountsViews(frags, rows, AssignViews(frags, rows))
<1> DEFINE n == Len(rows)
           g == CHOOSE g : IsNumbering(g, frags, rows, n)
           views == AssignViews(frags, rows)
<1>1. IsNumbering(g, frags, rows, n)
  BY NumberingsExist
<1>2. views = [i \in 1..n |-> g[i]]
  BY DEF AssignViews, IsNumbering
<1> HIDE DEF g, views
<1>3. ASSUME NEW k \in 1..n
      PROVE  views[k] = IF /\ k > 1
                           /\ RowAddr(frags, rows[k]) <= RowAddr(frags, rows[k - 1])
                           /\ rows[k].loc.view # "reset"
                        THEN views[k - 1] + 1 ELSE 0
  <2>1. k \in 0..n /\ views[k] = g[k]
    BY <1>2
  <2>2. g[k] = IF k < 2 THEN 0
               ELSE IF /\ RowAddr(frags, rows[k]) <= RowAddr(frags, rows[k - 1])
                       /\ rows[k].loc.view # "reset"
                 THEN g[k - 1] + 1 ELSE 0
    BY <1>1, <2>1 DEF IsNumbering
  <2>3. k > 1 => k - 1 \in 1..n /\ views[k - 1] = g[k - 1]
    BY <1>2
  <2>4. k < 2 <=> ~(k > 1)
    OBVIOUS
  <2> QED
    BY <2>1, <2>2, <2>3, <2>4
<1> QED
  BY <1>3 DEF CountsViews, views

(* A row of the source itself has the number its file was given.           *)
Numbered(row) ==
    IF row.path = NoPath THEN row ELSE [row EXCEPT !.loc.file = FileNumber(row.path)]

(* Files have numbers.                                                     *)
LEMMA FileNumberType == ASSUME NEW path PROVE FileNumber(path) \in Nat
<1> DEFINE both == {"main", "other"}
           S == {p \in both : FirstOccursBy(p, path)}
<1>1. IsFiniteSet(both)
  <2>1. both = {"main"} \cup {"other"}
    OBVIOUS
  <2>2. IsFiniteSet({"main"})
    BY FS_Singleton
  <2> QED
    BY <2>1, <2>2, FS_AddElement
<1>2. S \in SUBSET both
  OBVIOUS
<1> HIDE DEF both
<1>3. IsFiniteSet(S)
  BY <1>1, <1>2, FS_Subset
<1>4. Cardinality(S) \in Nat
  BY <1>3, FS_CardinalityType
<1>5. FileNumber(path) = IF IsGnu THEN Cardinality(S) ELSE IF LineVersion >= 5 THEN 0 ELSE 1
  BY DEF FileNumber, both
<1> HIDE DEF S
<1> QED
  BY <1>4, <1>5

(* Only the file of a row is numbered: it stays where it is.               *)
LEMMA NumberedIs ==
    ASSUME NEW row \in RowType
    PROVE  LET q == Numbered(row)
           IN  /\ q \in RowType
               /\ q.frag = row.frag /\ q.back = row.back /\ q.section = row.section
               /\ q.loc.view = row.loc.view /\ q.loc.isa = row.loc.isa
               /\ q.loc.flags = row.loc.flags
<1> DEFINE number == FileNumber(row.path)
<1>1. number \in Nat
  BY FileNumberType
<1> HIDE DEF number
<1>2. CASE row.path = NoPath
  BY <1>2 DEF Numbered
<1>3. CASE row.path # NoPath
  <2>1. Numbered(row) = [row EXCEPT !.loc.file = number]
    BY <1>3 DEF Numbered, number
  <2> DEFINE loc == [row.loc EXCEPT !.file = number]
  <2>2. /\ loc \in LocType /\ loc.view = row.loc.view /\ loc.isa = row.loc.isa
        /\ loc.flags = row.loc.flags
    BY <1>1 DEF RowType, LocType
  <2>3. Numbered(row) = [row EXCEPT !.loc = loc]
    BY <2>1
  <2> HIDE DEF loc
  <2> QED
    BY <2>2, <2>3 DEF RowType
<1> QED
  BY <1>2, <1>3

(* So do all the rows of a sequence.                                       *)
LEMMA NumberedRowsAre ==
    ASSUME NEW rows \in Seq(RowType)
    PROVE  /\ NumberedRows(rows) \in Seq(RowType)
           /\ Len(NumberedRows(rows)) = Len(rows)
           /\ \A k \in 1 .. Len(rows) : NumberedRows(rows)[k] = Numbered(rows[k])
<1> DEFINE n == Len(rows)
           given == NumberedRows(rows)
<1>1. n \in Nat /\ DOMAIN rows = 1..n /\ \A k \in 1..n : rows[k] \in RowType
  BY LenProperties, ElementOfSeq
<1>2. given = [k \in 1..n |-> Numbered(rows[k])]
  BY <1>1 DEF NumberedRows, Numbered
<1>3. given \in [1..n -> RowType]
  BY <1>1, <1>2, NumberedIs
<1> HIDE DEF given, n
<1>4. given \in Seq(RowType)
  BY <1>1, <1>3, SeqDef
<1>5. Len(given) \in Nat /\ DOMAIN given = 1 .. Len(given) /\ DOMAIN given = 1..n
  BY <1>3, <1>4, LenProperties
<1> DEFINE m == Len(given)
<1>6. m \in Nat /\ 1..m = 1..n
  BY <1>5
<1> HIDE DEF m
<1>7. m = n
  BY <1>1, <1>6
<1> QED
  BY <1>2, <1>4, <1>7 DEF given, m, n

(* The table's target is the source's with another version.                *)
LEMMA TableTargetIs ==
    ASSUME TypeOK
    PROVE  /\ TableTarget \in TargetType
           /\ TableTarget.min = Target.min /\ TableTarget.fixed = Target.fixed
           /\ HasDiscriminators(TableTarget) <=> IsGnu \/ LineVersion >= 4
           /\ Target.min \in Nat \ {0}
<1>1. Target \in TargetType
  BY DEF TypeOK, Target, SourceType
<1>2. LineVersion \in Nat
  BY <1>1 DEF LineVersion, TargetType
<1> QED
  BY <1>1, <1>2 DEF TableTarget, TargetType, HasDiscriminators, IsGnu

(* What the rows of a sequence are, numbered, that can be written.         *)
IsWritten(i) == i \in DOMAIN line.sequences /\ IsAligned(i) /\ HasOpcodes(i)

(* What the invariant says of the rows of a sequence, before and after.    *)
LEMMA SequenceIs ==
    ASSUME IInv, NEW i \in DOMAIN line.sequences
    PROVE  LET rows == line.sequences[i]
               given == NumberedRows(rows)
               frags == Fragments(i)
           IN  /\ rows \in Seq(RowType) /\ DOMAIN rows = 1 .. Len(rows)
               /\ Len(rows) \in Nat /\ Len(rows) > 0
               /\ Len(given) = Len(rows) /\ DOMAIN given = 1 .. Len(rows)
               /\ frags \in Seq(FragType) /\ SectionOf(rows) \in Sections
               /\ SectionOf(given) = SectionOf(rows)
               /\ \A k \in 1 .. Len(rows) :
                     /\ FitsIn(rows[k], frags) /\ FitsIn(given[k], frags)
                     /\ given[k] \in RowType
                     /\ RowAddr(frags, given[k]) = RowAddr(frags, rows[k])
                     /\ given[k].loc.view = rows[k].loc.view
                     /\ given[k].loc.isa = rows[k].loc.isa
                     /\ given[k].loc.flags = rows[k].loc.flags
               /\ \A j \in 1 .. Len(rows), k \in 1 .. Len(rows) :
                     j < k => Follows(given[j], given[k])
<1> DEFINE rows == line.sequences[i]
           given == NumberedRows(rows)
           frags == Fragments(i)
           n == Len(rows)
<1>1. /\ line.sequences \in Seq(Seq(RowType)) /\ IndexIsRight(line) /\ RowsFit(line, code)
      /\ code \in [Sections -> CodeType]
  BY DEF IInv, Kept, LineType, TypeOK
<1>2. i \in 1 .. Len(line.sequences) /\ rows \in Seq(RowType)
  BY <1>1, LenProperties, ElementOfSeq
<1>3. n \in Nat /\ DOMAIN rows = 1..n /\ \A k \in 1..n : rows[k] \in RowType
  BY <1>2, LenProperties, ElementOfSeq
<1>4. n > 0 /\ \A k \in 1..n : rows[k].section = SectionOf(rows)
  BY <1>1, <1>2 DEF IndexIsRight, SectionOf
<1>5. /\ \A k \in 1..n : Fits(rows[k], code)
      /\ \A j \in 1..n : \A k \in j + 1 .. n : Follows(rows[j], rows[k])
  BY <1>1, <1>2 DEF RowsFit
<1>6. given \in Seq(RowType) /\ Len(given) = n /\ \A k \in 1..n : given[k] = Numbered(rows[k])
  BY <1>2, NumberedRowsAre
<1>7. DOMAIN given = 1..n
  BY <1>6, LenProperties
<1> HIDE DEF rows, given
<1>8. /\ 1 \in 1..n /\ rows[1] \in RowType
  BY <1>3, <1>4
<1>9. SectionOf(rows) \in Sections /\ SectionOf(given) = SectionOf(rows)
  BY <1>6, <1>8, NumberedIs DEF RowType, SectionOf
<1>10. frags = code[SectionOf(rows)].frags /\ frags \in Seq(FragType)
  BY <1>1, <1>9 DEF Fragments, rows, CodeType
<1> HIDE DEF frags, n
<1>11. ASSUME NEW k \in 1..n
       PROVE  /\ FitsIn(rows[k], frags) /\ FitsIn(given[k], frags)
              /\ given[k] \in RowType
              /\ RowAddr(frags, given[k]) = RowAddr(frags, rows[k])
              /\ given[k].loc.view = rows[k].loc.view
              /\ given[k].loc.isa = rows[k].loc.isa
              /\ given[k].loc.flags = rows[k].loc.flags
              /\ given[k].frag = rows[k].frag /\ given[k].back = rows[k].back
  <2>1. rows[k] \in RowType /\ given[k] = Numbered(rows[k])
    BY <1>3, <1>6
  <2>2. /\ given[k] \in RowType
        /\ given[k].frag = rows[k].frag /\ given[k].back = rows[k].back
        /\ given[k].loc.view = rows[k].loc.view /\ given[k].loc.isa = rows[k].loc.isa
        /\ given[k].loc.flags = rows[k].loc.flags
    BY <2>1, NumberedIs
  <2>3. FitsIn(rows[k], frags)
    BY <1>4, <1>5, <1>10, <2>1 DEF RowType, Fits, FitsIn
  <2>4. FitsIn(given[k], frags) /\ RowAddr(frags, given[k]) = RowAddr(frags, rows[k])
    BY <2>2, <2>3 DEF FitsIn, RowAddr
  <2> QED
    BY <2>2, <2>3, <2>4
<1>12. ASSUME NEW j \in 1..n, NEW k \in 1..n, j < k
       PROVE  Follows(given[j], given[k])
  BY <1>3, <1>5, <1>11, <1>12 DEF Follows
<1> QED
  BY <1>2, <1>3, <1>4, <1>6, <1>7, <1>9, <1>10, <1>11, <1>12 DEF rows, given, frags, n

(* They can be written: they are in order, at whole instructions.          *)
LEMMA SequenceIsWritable ==
    ASSUME IInv, NEW i, IsWritten(i)
    PROVE  LET frags == Fragments(i)
               given == NumberedRows(line.sequences[i])
           IN  /\ Writable(TableTarget, frags, given)
               /\ (Size(frags) - RowAddr(frags, given[Len(given)])) % TableTarget.min = 0
               /\ EndsInReach(i) =>
                     (TableTarget.fixed \/ (\E f \in DOMAIN frags : frags[f].moves) =>
                        Size(frags) - RowAddr(frags, given[Len(given)]) < FieldSize)
<1> DEFINE rows == line.sequences[i]
           given == NumberedRows(rows)
           frags == Fragments(i)
           n == Len(rows)
<1>1. i \in DOMAIN line.sequences
  BY DEF IsWritten
<1>2. /\ DOMAIN rows = 1..n /\ n \in Nat /\ n > 0 /\ Len(given) = n
      /\ frags \in Seq(FragType)
      /\ \A k \in 1..n :
            /\ FitsIn(given[k], frags) /\ given[k] \in RowType
            /\ RowAddr(frags, given[k]) = RowAddr(frags, rows[k])
            /\ given[k].loc.isa = rows[k].loc.isa
            /\ given[k].loc.flags = rows[k].loc.flags
      /\ \A j \in 1..n, k \in 1..n : j < k => Follows(given[j], given[k])
  BY <1>1, SequenceIs
<1>3. /\ TableTarget.min = Target.min /\ TableTarget.fixed = Target.fixed
  BY TableTargetIs DEF IInv
<1>4. ASSUME NEW k \in 1..n
      PROVE  RowAddr(frags, given[k]) \in Addresses(i)
  BY <1>2, <1>4 DEF Addresses
<1>5. \A a, b \in Addresses(i) \cup {Size(frags)} : (a - b) % TableTarget.min = 0
  BY <1>3 DEF IsWritten, IsAligned
<1>6. ASSUME NEW k \in 1..n
      PROVE  OpcodeBase(TableTarget) > SetIsa \/ IsVersion2(given[k].loc)
  BY <1>2 DEF IsWritten, HasOpcodes, IsVersion2
<1> HIDE DEF rows, given, frags, n
<1>7. Writable(TableTarget, frags, given)
  <2>1. ASSUME NEW k \in 1..n
        PROVE  given[k].loc \in LocType /\ FitsIn(given[k], frags)
    BY <1>2 DEF RowType
  <2>2. ASSUME NEW k \in 1 .. n - 1
        PROVE  /\ Follows(given[k], given[k + 1])
               /\ (RowAddr(frags, given[k + 1]) - RowAddr(frags, given[k]))
                     % TableTarget.min = 0
    BY <1>2, <1>4, <1>5
  <2> QED
    BY <1>2, <1>6, <2>1, <2>2 DEF Writable
<1>8. n \in 1..n
  BY <1>2
<1>9. (Size(frags) - RowAddr(frags, given[n])) % TableTarget.min = 0
  BY <1>4, <1>5, <1>8
<1>10. ASSUME EndsInReach(i), TableTarget.fixed \/ (\E f \in DOMAIN frags : frags[f].moves)
       PROVE  Size(frags) - RowAddr(frags, given[n]) < FieldSize
  <2>1. \E a \in Addresses(i) : Size(frags) - a < FieldSize
    BY <1>3, <1>10 DEF EndsInReach, frags
  <2>2. PICK k \in 1..n : Size(frags) - RowAddr(frags, rows[k]) < FieldSize
    BY <1>2, <2>1 DEF Addresses, frags, rows
  <2>3. Size(frags) - RowAddr(frags, given[k]) < FieldSize
    BY <1>2, <2>2
  <2>4. RowAddr(frags, given[k]) <= RowAddr(frags, given[n])
        /\ RowAddr(frags, given[k]) \in Nat /\ RowAddr(frags, given[n]) \in Nat
    <3>1. Shrunk(frags, frags)
      BY <1>2 DEF Shrunk
    <3>2. k = n \/ k < n
      BY <1>2
    <3>3. FitsIn(given[k], frags) /\ FitsIn(given[n], frags)
      BY <1>2, <1>8
    <3>4. Follows(given[k], given[n])
      BY <1>2, <1>8, <3>2 DEF Follows, FitsIn, OptNat
    <3> QED
      BY <1>2, <3>1, <3>3, <3>4, RowsApart
  <2>5. Size(frags) \in Nat
    BY <1>2, LenProperties, OffsetProperties DEF Size
  <2> QED
    BY <2>3, <2>4, <2>5 DEF FieldSize
<1> QED
  BY <1>2, <1>7, <1>9, <1>10 DEF rows, given, frags, n

(* Numbered or not, the rows have the same views.                          *)
LEMMA ViewsCountNumbered ==
    ASSUME IInv, NEW i \in DOMAIN line.sequences
    PROVE  LET rows == line.sequences[i]
           IN  CountsViews(Fragments(i), NumberedRows(rows), AssignViews(Fragments(i), rows))
<1> DEFINE rows == line.sequences[i]
           given == NumberedRows(rows)
           frags == Fragments(i)
           views == AssignViews(frags, rows)
           n == Len(rows)
<1>1. /\ n \in Nat /\ Len(given) = n
      /\ \A k \in 1..n : /\ RowAddr(frags, given[k]) = RowAddr(frags, rows[k])
                         /\ given[k].loc.view = rows[k].loc.view
  BY SequenceIs
<1>2. CountsViews(frags, rows, views)
  BY <1>1, ViewsCount
<1> HIDE DEF rows, given, frags, views
<1>3. ASSUME NEW k \in 1..n
      PROVE  views[k] = IF /\ k > 1
                           /\ RowAddr(frags, given[k]) <= RowAddr(frags, given[k - 1])
                           /\ given[k].loc.view # "reset"
                        THEN views[k - 1] + 1 ELSE 0
  <2>1. k > 1 => k - 1 \in 1..n
    BY <1>1
  <2>2. k > 1 => RowAddr(frags, given[k - 1]) = RowAddr(frags, rows[k - 1])
    BY <1>1, <2>1
  <2>3. RowAddr(frags, given[k]) = RowAddr(frags, rows[k]) /\ given[k].loc.view = rows[k].loc.view
    BY <1>1
  <2>4. views[k] = IF /\ k > 1
                      /\ RowAddr(frags, rows[k]) <= RowAddr(frags, rows[k - 1])
                      /\ rows[k].loc.view # "reset"
                   THEN views[k - 1] + 1 ELSE 0
    BY <1>2 DEF CountsViews
  <2> QED
    BY <2>2, <2>3, <2>4
<1>4. CountsViews(frags, given, views)
  BY <1>1, <1>3 DEF CountsViews
<1> QED
  BY <1>4 DEF rows, given, frags, views

(* What a consumer reads of a sequence.                                    *)
LEMMA SequenceReads ==
    ASSUME IInv, LinkedIsShrunk, Written, NEW i, IsWritten(i)
    PROVE  LET frags == Fragments(i)
               lf == LinkedFragments(i)
               given == NumberedRows(line.sequences[i])
               views == AssignViews(frags, line.sequences[i])
               read == Consumed(TableTarget, lf, WrittenFor(i))
           IN  /\ Len(read.rows) = Len(given)
               /\ \A k \in DOMAIN given :
                     IsSeen(TableTarget, frags, lf, given[k], views[k], read.rows[k])
               /\ EndsInReach(i) => read.end = Size(lf)
<1> DEFINE rows == line.sequences[i]
           given == NumberedRows(rows)
           frags == Fragments(i)
           lf == LinkedFragments(i)
           views == AssignViews(frags, rows)
           program == LineProgram(TableTarget, frags, given)
<1>1. i \in DOMAIN line.sequences
  BY DEF IsWritten
<1>2. /\ frags \in Seq(FragType) /\ SectionOf(rows) \in Sections
      /\ SectionOf(given) = SectionOf(rows)
      /\ Len(given) > 0 /\ DOMAIN given = 1 .. Len(given)
  BY <1>1, SequenceIs
<1>3. Shrunk(frags, lf)
  BY <1>2 DEF Written, Reading, LinkedIsShrunk, Fragments, LinkedFragments
<1>4. WrittenFor(i) = program
  BY <1>2 DEF WrittenFor, Fragments
<1>5. CountsViews(frags, given, views)
  BY <1>1, ViewsCountNumbered
<1>6. TableTarget \in TargetType
  BY TableTargetIs DEF IInv
<1>7. /\ Writable(TableTarget, frags, given)
      /\ (Size(frags) - RowAddr(frags, given[Len(given)])) % TableTarget.min = 0
      /\ EndsInReach(i) =>
            (TableTarget.fixed \/ (\E f \in DOMAIN frags : frags[f].moves) =>
               Size(frags) - RowAddr(frags, given[Len(given)]) < FieldSize)
  BY SequenceIsWritable
<1> HIDE DEF rows, given, frags, lf, views
<1> DEFINE read == Consumed(TableTarget, lf, program)
<1>8. /\ Len(read.rows) = Len(given)
      /\ \A k \in 1 .. Len(given) :
            IsSeen(TableTarget, frags, lf, given[k], views[k], read.rows[k])
      /\ (TableTarget.fixed \/ (\E f \in DOMAIN frags : frags[f].moves) =>
            Size(frags) - RowAddr(frags, given[Len(given)]) < FieldSize)
         => read.end = Size(lf)
  BY <1>2, <1>3, <1>5, <1>6, <1>7, ProgramReads
<1>9. read = Consumed(TableTarget, lf, WrittenFor(i))
  BY <1>4
<1> HIDE DEF read, program
<1> QED
  BY <1>2, <1>7, <1>8, <1>9 DEF rows, given, frags, lf, views

(* Without its view, a row as it is seen is what the row means.            *)
LEMMA SeenIsMeant ==
    ASSUME TypeOK, NEW i, NEW row, NEW view
    PROVE  LET seen == SeenAs(TableTarget,
                              LinkedAddress(LinkedFragments(i), At(Fragments(i), row)),
                              row.loc, view)
           IN  /\ [f \in DOMAIN seen \ {"view"} |-> seen[f]] = RowMeaning(i, row)
               /\ seen.view = view
<1> DEFINE address == LinkedAddress(LinkedFragments(i), At(Fragments(i), row))
           seen == SeenAs(TableTarget, address, row.loc, view)
           disc == IF HasDiscriminators(TableTarget) THEN row.loc.disc ELSE 0
<1>1. disc = IF IsGnu \/ LineVersion >= 4 THEN row.loc.disc ELSE 0
  BY TableTargetIs
<1>2. seen = [address |-> address, file |-> row.loc.file, line |-> row.loc.line,
              column |-> row.loc.column, isa |-> row.loc.isa, isStmt |-> row.loc.isStmt,
              disc |-> disc, flags |-> row.loc.flags, view |-> view]
  BY DEF SeenAs
<1>3. RowMeaning(i, row) =
        [address |-> address, file |-> row.loc.file, line |-> row.loc.line,
         column |-> row.loc.column, isa |-> row.loc.isa, isStmt |-> row.loc.isStmt,
         flags |-> row.loc.flags, disc |-> disc]
  BY <1>1 DEF RowMeaning
<1> HIDE DEF address, disc, seen
<1>4. DOMAIN seen \ {"view"} =
        {"address", "file", "line", "column", "isa", "isStmt", "flags", "disc"}
  BY <1>2
<1>5. [f \in DOMAIN seen \ {"view"} |-> seen[f]] = RowMeaning(i, row)
  BY <1>2, <1>3, <1>4
<1> QED
  BY <1>2, <1>5 DEF seen, address

(* The table is read back.                                                 *)
LEMMA InvGivesTable ==
    ASSUME IInv, LinkedIsShrunk
    PROVE  TableReadsBack
<1> SUFFICES ASSUME Written, NEW i \in DOMAIN line.sequences,
                    IsAligned(i), HasOpcodes(i), EndsInReach(i)
             PROVE  ReadsBack(i)
  BY DEF TableReadsBack
<1> DEFINE frags == Fragments(i)
           lf == LinkedFragments(i)
           given == NumberedRows(line.sequences[i])
           views == AssignViews(frags, line.sequences[i])
           read == Consumed(TableTarget, lf, WrittenFor(i))
           seen(row) == [f \in DOMAIN row \ {"view"} |-> row[f]]
<1>1. /\ Len(read.rows) = Len(given)
      /\ \A k \in DOMAIN given :
            IsSeen(TableTarget, frags, lf, given[k], views[k], read.rows[k])
      /\ read.end = Size(lf)
  BY SequenceReads DEF IsWritten
<1>2. ASSUME NEW k \in DOMAIN given
      PROVE  seen(read.rows[k]) = RowMeaning(i, given[k])
  <2>1. PICK counted \in Nat :
           read.rows[k] =
              SeenAs(TableTarget, LinkedAddress(lf, At(frags, given[k])), given[k].loc, counted)
    BY <1>1 DEF IsSeen
  <2> HIDE DEF given, read
  <2> DEFINE row == SeenAs(TableTarget, LinkedAddress(lf, At(frags, given[k])),
                           given[k].loc, counted)
  <2>2. TypeOK
    BY DEF IInv
  <2>3. [f \in DOMAIN row \ {"view"} |-> row[f]] = RowMeaning(i, given[k])
    BY <2>2, SeenIsMeant
  <2>4. read.rows[k] = row
    BY <2>1
  <2> HIDE DEF row
  <2> QED
    BY <2>3, <2>4
<1> HIDE DEF read, given
<1> QED
  BY <1>1, <1>2 DEF ReadsBack, read, given

(* The views are read back.                                                *)
LEMMA InvGivesViews ==
    ASSUME IInv, LinkedIsShrunk
    PROVE  ViewsReadBack
<1> SUFFICES ASSUME Written, NEW i \in DOMAIN line.sequences, IsAligned(i), HasOpcodes(i),
                    LinkedFragments(i) = Fragments(i), NEW j \in DOMAIN line.sequences[i]
             PROVE  Consumed(TableTarget, Fragments(i), WrittenFor(i)).rows[j].view =
                       AssignViews(Fragments(i), line.sequences[i])[j]
  BY DEF ViewsReadBack
<1> DEFINE frags == Fragments(i)
           given == NumberedRows(line.sequences[i])
           views == AssignViews(frags, line.sequences[i])
           read == Consumed(TableTarget, frags, WrittenFor(i))
<1>1. j \in DOMAIN given
  BY SequenceIs
<1>2. IsSeen(TableTarget, frags, frags, given[j], views[j], read.rows[j])
  BY <1>1, SequenceReads DEF IsWritten
<1> HIDE DEF given, read, views
<1>3. read.rows[j] =
         SeenAs(TableTarget, LinkedAddress(frags, At(frags, given[j])), given[j].loc, views[j])
  BY <1>2 DEF IsSeen
<1>4. read.rows[j].view = views[j]
  BY <1>3 DEF SeenAs
<1> QED
  BY <1>4 DEF read, views

LEMMA InitLinked == Init => LinkedIsShrunk
BY DEF Init, LinkedIsShrunk

(* What a consumer reads of a line table is the rows that were recorded,   *)
(* each at the place its position has once the program is linked, whatever *)
(* the linker took from the fragments that move, and the end of the code   *)
(* (line_program).               *)
THEOREM TableIsReadBack == Spec => []TableReadsBack
<1>1. Spec => [](IInv /\ LinkedIsShrunk)
  BY InitInv, InitLinked, NextKeepsInv, NextKeepsLinked, PTL DEF Spec
<1> QED
  BY <1>1, InvGivesTable, PTL

(* The number a view symbol is given is the one a consumer counts for its  *)
(* row, which counts up where it does not move and starts again where the  *)
(* address changes or is set (assign_views, with line_program): for rows of*)
(* GNU as at whole instructions that the version has opcodes for, in code  *)
(* no linker takes bytes from.                                             *)
THEOREM ViewsAreReadBack == Spec => []ViewsReadBack
<1>1. Spec => [](IInv /\ LinkedIsShrunk)
  BY InitInv, InitLinked, NextKeepsInv, NextKeepsLinked, PTL DEF Spec
<1> QED
  BY <1>1, InvGivesViews, PTL
=============================================================================
