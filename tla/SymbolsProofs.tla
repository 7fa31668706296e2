--------------------------- MODULE SymbolsProofs ----------------------------
(***************************************************************************)
(* Theorems about the symbol table, for every source, and at the end about *)
(* the slots of the literal pools of ARM.                                  *)
(*                                                                         *)
(* Following the sizes of aliases ends.  A symbol takes its size from      *)
(* another only if that one is undefined when this one is defined, and     *)
(* what is undefined takes its size from nothing.  So the symbol a link    *)
(* goes to has none when the link is made: a circle would have to be       *)
(* closed by a link to a symbol that has one.                              *)
(*                                                                         *)
(* References to local labels mean what the text says.  The slots of a     *)
(* number are its labels in the order of the text, so that a reference,    *)
(* which took the slot last defined or the next, is told from the others   *)
(* by how many labels were before it, and that never changes again.        *)
(*                                                                         *)
(* Numbers stay.  What was a number when it was read is written as numbers *)
(* only, which no later statement can change the meaning of.               *)
(***************************************************************************)
EXTENDS SymbolsProperties, LiteralSlots, SequenceTheorems, FiniteSetTheorems,
        WellFoundedInduction, TLAPS

Fields == {"is", "at", "expr", "was", "span", "redefinable", "size", "sizeFrom"}

IsSymbol(r) == r = [f \in Fields |-> r[f]]

(* A table whose symbols are records, and whose undefined symbols take     *)
(* their sizes from nothing.                                               *)
IsTable(t) ==
    /\ t = [id \in DOMAIN t |-> t[id]]
    /\ None \notin DOMAIN t
    /\ \A id \in DOMAIN t : IsSymbol(t[id])

UndefinedHaveNoSource(t) ==
    \A id \in DOMAIN t : t[id].is = "undefined" => t[id].sizeFrom = None

ChainsEnd(t) ==
    \A S \in SUBSET DOMAIN t : S # {} => \E id \in S : t[id].sizeFrom \notin S

Good(t) == IsTable(t) /\ UndefinedHaveNoSource(t) /\ ChainsEnd(t)

-----------------------------------------------------------------------------
(* Symbols.                                                                *)

(* A symbol only mentioned is undefined and takes its size from nothing.   *)
LEMMA MentionedIs ==
    /\ IsSymbol(Mentioned)
    /\ Mentioned.is = "undefined"
    /\ Mentioned.sizeFrom = None
BY DEF Mentioned, IsSymbol, Fields

(* Defining a label leaves where the symbol's size comes from.             *)
LEMMA AsLabelIs ==
    ASSUME NEW r, IsSymbol(r), NEW o, NEW span
    PROVE  /\ IsSymbol(AsLabel(r, o, span))
           /\ AsLabel(r, o, span).is = "label"
           /\ AsLabel(r, o, span).sizeFrom = r.sizeFrom
BY DEF AsLabel, IsSymbol, Fields

(* So does defining an expression.                                         *)
LEMMA AsExprIs ==
    ASSUME NEW r, IsSymbol(r), NEW e, NEW span
    PROVE  /\ IsSymbol(AsExpr(r, e, span))
           /\ AsExpr(r, e, span).is = "expr"
           /\ AsExpr(r, e, span).sizeFrom = r.sizeFrom
BY DEF AsExpr, IsSymbol, Fields

-----------------------------------------------------------------------------
(* Tables.                                                                 *)

(* New symbols that take their sizes from nothing close no circle, and     *)
(* neither does changing what else there is about a symbol.                *)
LEMMA Extended ==
    ASSUME NEW t, Good(t), NEW u, IsTable(u),
           DOMAIN t \subseteq DOMAIN u,
           \A id \in DOMAIN t : u[id].sizeFrom = t[id].sizeFrom,
           \A id \in DOMAIN t : u[id].is = "undefined" => t[id].is = "undefined",
           \A id \in DOMAIN u \ DOMAIN t : u[id].sizeFrom = None
    PROVE  Good(u)
<1>1. UndefinedHaveNoSource(u)
  BY DEF UndefinedHaveNoSource, Good
<1>2. ChainsEnd(u)
  <2> SUFFICES ASSUME NEW S \in SUBSET DOMAIN u, S # {}
               PROVE  \E id \in S : u[id].sizeFrom \notin S
    BY DEF ChainsEnd
  <2>1. CASE S \subseteq DOMAIN t
    <3>1. PICK id \in S : t[id].sizeFrom \notin S
      BY <2>1 DEF Good, ChainsEnd
    <3> QED
      BY <3>1, <2>1
  <2>2. CASE ~(S \subseteq DOMAIN t)
    <3>1. PICK id \in S : id \notin DOMAIN t
      BY <2>2
    <3>2. u[id].sizeFrom = None /\ None \notin S
      BY <3>1 DEF IsTable
    <3> QED
      BY <3>2
  <2> QED
    BY <2>1, <2>2
<1> QED
  BY <1>1, <1>2 DEF Good

(* A symbol that is defined may be given a source that is still undefined. *)
LEMMA Linked ==
    ASSUME NEW t, Good(t), NEW u, IsTable(u), NEW id \in DOMAIN t,
           DOMAIN u = DOMAIN t,
           \A other \in DOMAIN t \ {id} : u[other] = t[other],
           u[id].is # "undefined",
           \/ u[id].sizeFrom = None
           \/ /\ u[id].sizeFrom \in DOMAIN t \ {id}
              /\ t[u[id].sizeFrom].is = "undefined"
    PROVE  Good(u)
<1>1. UndefinedHaveNoSource(u)
  BY DEF UndefinedHaveNoSource, Good
<1>2. ChainsEnd(u)
  <2> SUFFICES ASSUME NEW S \in SUBSET DOMAIN u, S # {}
               PROVE  \E i \in S : u[i].sizeFrom \notin S
    BY DEF ChainsEnd
  <2>1. CASE id \notin S
    <3>1. PICK i \in S : t[i].sizeFrom \notin S
      BY DEF Good, ChainsEnd
    <3> QED
      BY <3>1, <2>1
  <2>2. CASE id \in S /\ u[id].sizeFrom \notin S
    BY <2>2
  <2>3. CASE id \in S /\ u[id].sizeFrom \in S
    <3> DEFINE source_ == u[id].sizeFrom
    <3>1. source_ \in DOMAIN t \ {id} /\ t[source_].is = "undefined"
      BY <2>3 DEF IsTable
    <3>2. u[source_].sizeFrom = None
      BY <3>1 DEF Good, UndefinedHaveNoSource
    <3>3. None \notin S
      BY DEF IsTable
    <3> QED
      BY <2>3, <3>2, <3>3
  <2> QED
    BY <2>1, <2>2, <2>3
<1> QED
  BY <1>1, <1>2 DEF Good

(* Mentioning symbols.                                                     *)
LEMMA Interned ==
    ASSUME NEW t, Good(t), NEW ids, None \notin ids
    PROVE  /\ Good(Intern(t, ids))
           /\ DOMAIN Intern(t, ids) = DOMAIN t \cup ids
           /\ \A id \in DOMAIN t : Intern(t, ids)[id] = t[id]
<1> DEFINE u == Intern(t, ids)
<1>1. /\ DOMAIN u = DOMAIN t \cup ids
      /\ \A id \in DOMAIN t : u[id] = t[id]
      /\ \A id \in DOMAIN u \ DOMAIN t : u[id] = Mentioned
      /\ u = [id \in DOMAIN u |-> u[id]]
  BY DEF Intern
<1> HIDE DEF u
<1>2. IsTable(u)
  BY <1>1, MentionedIs DEF IsTable, Good
<1>3. Good(u)
  BY <1>1, <1>2, MentionedIs, Extended
<1> QED
  BY <1>1, <1>3 DEF u

(* So is a table with one more name in it.                                 *)
LEMMA InternedOne ==
    ASSUME NEW t, Good(t), NEW id, id # None
    PROVE  Good(Intern(t, {id})) /\ id \in DOMAIN Intern(t, {id})
<1> DEFINE ids == {id}
<1>1. None \notin ids /\ id \in ids
  OBVIOUS
<1> HIDE DEF ids
<1>2. Good(Intern(t, ids)) /\ id \in DOMAIN Intern(t, ids)
  BY <1>1, Interned
<1> QED
  BY <1>2 DEF ids

(* Changing one symbol, but not where its size comes from.                 *)
LEMMA Changed ==
    ASSUME NEW t, Good(t), NEW id \in DOMAIN t, NEW r, IsSymbol(r),
           r.sizeFrom = t[id].sizeFrom,
           r.is = "undefined" => t[id].is = "undefined"
    PROVE  Good([t EXCEPT ![id] = r])
<1> DEFINE u == [t EXCEPT ![id] = r]
<1>1. /\ DOMAIN u = DOMAIN t
      /\ u[id] = r
      /\ \A i \in DOMAIN t \ {id} : u[i] = t[i]
      /\ u = [i \in DOMAIN u |-> u[i]]
  OBVIOUS
<1> HIDE DEF u
<1>2. IsTable(u)
  BY <1>1 DEF IsTable, Good
<1>3. Good(u)
  BY <1>1, <1>2, Extended
<1> QED
  BY <1>3 DEF u

(* The symbols of positions take their sizes from nothing.                 *)
LEMMA Positioned ==
    ASSUME NEW t, Good(t), NEW exprs
    PROVE  /\ Good(WithPositions(t, exprs))
           /\ DOMAIN t \subseteq DOMAIN WithPositions(t, exprs)
           /\ \A id \in DOMAIN t : WithPositions(t, exprs)[id] = t[id]
<1> DEFINE u == WithPositions(t, exprs)
<1>1. /\ DOMAIN u = DOMAIN t \cup Positions(exprs) \cup Awaited(exprs)
      /\ \A id \in DOMAIN t : u[id] = t[id]
      /\ \A id \in DOMAIN u \ DOMAIN t :
            u[id] = Mentioned \/ u[id] = AsLabel(Mentioned, at + id[3] - 1, This)
      /\ u = [id \in DOMAIN u |-> u[id]]
  BY DEF WithPositions
<1>2. None \notin Positions(exprs) \cup Awaited(exprs)
  BY DEF None, Positions, Awaited, LocalForward, HereAt, Slot
<1>3. \A id \in DOMAIN u \ DOMAIN t : IsSymbol(u[id]) /\ u[id].sizeFrom = None
  BY <1>1, MentionedIs, AsLabelIs
<1> HIDE DEF u
<1>4. IsTable(u)
  BY <1>1, <1>2, <1>3 DEF IsTable, Good
<1>5. Good(u)
  BY <1>1, <1>3, <1>4, Extended
<1> QED
  BY <1>1, <1>5 DEF u

(* Binding a definition.                                                   *)
LEMMA SettledIsGood ==
    ASSUME NEW t, Good(t), NEW id \in DOMAIN t, NEW s
    PROVE  Good(Settled(t, id, s))
<1> DEFINE r == [t[id] EXCEPT !.expr = Bound(t, @, 1)]
           u == [t EXCEPT ![id] = r]
           v == WithPositions(u, s.exprs)
           q == [v[id] EXCEPT !.was = NumberThere(t, v[id].expr)]
<1>1. IsSymbol(t[id])
  BY DEF Good, IsTable
<1>2. IsSymbol(r) /\ r.sizeFrom = t[id].sizeFrom /\ r.is = t[id].is
  BY <1>1 DEF IsSymbol, Fields
<1>3. Good(u) /\ id \in DOMAIN u
  <2> HIDE DEF r
  <2> QED
    BY <1>2, Changed
<1>4. Good(v) /\ id \in DOMAIN v
  <2> HIDE DEF u
  <2> QED
    BY <1>3, Positioned
<1>5. IsSymbol(v[id])
  BY <1>4 DEF Good, IsTable
<1>6. IsSymbol(q) /\ q.sizeFrom = v[id].sizeFrom /\ q.is = v[id].is
  <2> HIDE DEF v
  <2> QED
    BY <1>5 DEF IsSymbol, Fields
<1>7. Good([v EXCEPT ![id] = q])
  <2> HIDE DEF v, q
  <2> QED
    BY <1>4, <1>6, Changed
<1>8. u = [t EXCEPT ![id].expr = Bound(t, @, 1)]
  OBVIOUS
<1>9. Settled(t, id, s) = [v EXCEPT ![id] = q]
  BY <1>8 DEF Settled
<1> QED
  BY <1>7, <1>9

(* A definition that takes its size from elsewhere.                        *)
LEMMA LinkIsGood ==
    ASSUME NEW t, Good(t), NEW id \in DOMAIN t, NEW e, NEW span, NEW redefinable,
           HeadSymbol(e) # None => HeadSymbol(e) \in DOMAIN t
    PROVE  LET v == WithSizeOf(t, id, e)
           IN  /\ Good([v EXCEPT ![id] = [AsExpr(@, e, span) EXCEPT !.redefinable = redefinable]])
               /\ DOMAIN v = DOMAIN t
<1> DEFINE head == HeadSymbol(e)
           v == WithSizeOf(t, id, e)
           r == [AsExpr(v[id], e, span) EXCEPT !.redefinable = redefinable]
           u == [v EXCEPT ![id] = r]
<1>1. IsSymbol(t[id])
  BY DEF Good, IsTable
<1>2. /\ DOMAIN v = DOMAIN t
      /\ v = [i \in DOMAIN v |-> v[i]]
      /\ \A i \in DOMAIN t \ {id} : v[i] = t[i]
  BY DEF WithSizeOf, Good, IsTable
<1>3. IsSymbol(v[id])
  BY <1>1 DEF WithSizeOf, IsSymbol, Fields
<1>4. \/ v[id].sizeFrom = t[id].sizeFrom
      \/ v[id].sizeFrom = None
      \/ v[id].sizeFrom = head /\ head \in DOMAIN t \ {id} /\ t[head].is = "undefined"
  <2>1. CASE head \in {None, id}
    BY <2>1 DEF WithSizeOf
  <2>2. CASE head \notin {None, id}
    BY <1>1, <2>2 DEF WithSizeOf, IsSymbol, Fields, SizeSource, IsDefined
  <2> QED
    BY <2>1, <2>2
<1>5. IsSymbol(r) /\ r.is = "expr" /\ r.sizeFrom = v[id].sizeFrom
  BY <1>3, AsExprIs DEF IsSymbol, Fields
<1> HIDE DEF v, r
<1>6. /\ DOMAIN u = DOMAIN t
      /\ u[id] = r
      /\ \A i \in DOMAIN t \ {id} : u[i] = t[i]
      /\ u = [i \in DOMAIN u |-> u[i]]
  BY <1>2
<1> HIDE DEF u
<1>7. IsTable(u)
  BY <1>5, <1>6 DEF Good, IsTable
<1>8. Good(u)
  <2>1. CASE v[id].sizeFrom = t[id].sizeFrom
    BY <1>5, <1>6, <1>7, <2>1, Extended
  <2>2. CASE v[id].sizeFrom = None
    BY <1>5, <1>6, <1>7, <2>2, Linked
  <2>3. CASE v[id].sizeFrom = head /\ head \in DOMAIN t \ {id} /\ t[head].is = "undefined"
    BY <1>5, <1>6, <1>7, <2>3, Linked
  <2> QED
    BY <1>4, <2>1, <2>2, <2>3
<1> QED
  BY <1>2, <1>8 DEF u, r, v

-----------------------------------------------------------------------------
(* The inductive invariant, and the theorem.                               *)

IInv == source \in Sources /\ Good(table)

(* No name is the absence of one.                                          *)
LEMMA NamesAreNotNone ==
    /\ \A id : IsName(id) => id # None
    /\ \A e : HeadSymbol(e) # None => IsName(HeadSymbol(e))
    /\ \A id : id[1] = "slot" => id # None
BY DEF IsName, None, HeadSymbol, HeadOf

(* Nor is the slot of a local label.                                       *)
LEMMA SlotsAreNotNone == \A n, k : Slot(n, k) # None
BY DEF Slot, None

(* A statement that names a symbol has a name.                             *)
LEMMA NamedStatements ==
    ASSUME IInv, NEW s \in source.statements, s.is \notin Nameless
    PROVE  IsName(s.name) /\ s.name # None
BY SourcesAssumption, NamesAreNotNone DEF IInv

(* The empty table is in order.                                            *)
LEMMA InitGood == Init => IInv
<1> SUFFICES ASSUME Init PROVE IInv
  OBVIOUS
<1>1. /\ source \in Sources
      /\ DOMAIN table = source.predefined
      /\ table = [id \in DOMAIN table |-> table[id]]
      /\ \A id \in DOMAIN table : table[id] = AsExpr(Mentioned, Just(Number(7)), 0)
  BY DEF Init
<1>2. None \notin DOMAIN table
  BY <1>1, SourcesAssumption, NamesAreNotNone
<1>3. \A id \in DOMAIN table :
        IsSymbol(table[id]) /\ table[id].is = "expr" /\ table[id].sizeFrom = None
  BY <1>1, MentionedIs, AsExprIs
<1>4. IsTable(table) /\ UndefinedHaveNoSource(table)
  BY <1>1, <1>2, <1>3 DEF IsTable, UndefinedHaveNoSource
<1>5. ChainsEnd(table)
  BY <1>2, <1>3 DEF ChainsEnd
<1> QED
  BY <1>1, <1>4, <1>5 DEF IInv, Good

(* A label keeps the table in order.                                       *)
LEMMA LabelGood ==
    ASSUME IInv, NEW s \in source.statements, DefineLabel(s)
    PROVE  Good(table')
<1> DEFINE t == Intern(table, {s.name})
           r == AsLabel(t[s.name], at, This)
<1>1. s.is \notin Nameless
  BY DEF DefineLabel, Read, Nameless
<1>2. Good(t) /\ s.name \in DOMAIN t
  BY <1>1, NamedStatements, InternedOne DEF IInv
<1>3. table' = t \/ table' = [t EXCEPT ![s.name] = r]
  BY DEF DefineLabel
<1>4. IsSymbol(r) /\ r.is = "label" /\ r.sizeFrom = t[s.name].sizeFrom
  BY <1>2, AsLabelIs DEF Good, IsTable
<1> HIDE DEF t, r
<1>5. Good([t EXCEPT ![s.name] = r])
  BY <1>2, <1>4, Changed
<1> QED
  BY <1>2, <1>3, <1>5

(* So does a numeric local label.                                          *)
LEMMA LocalGood ==
    ASSUME IInv, NEW s \in source.statements, DefineLocal(s)
    PROVE  Good(table')
<1> DEFINE id == LocalForward(s.n)
           t == Intern(table, {id})
           r == AsLabel(t[id], at, This)
<1>1. id # None
  BY SlotsAreNotNone DEF LocalForward
<1>2. Good(t) /\ id \in DOMAIN t
  BY <1>1, InternedOne DEF IInv
<1>3. table' = [t EXCEPT ![id] = r]
  BY DEF DefineLocal
<1>4. IsSymbol(r) /\ r.is = "label" /\ r.sizeFrom = t[id].sizeFrom
  BY <1>2, AsLabelIs DEF Good, IsTable
<1> HIDE DEF t, r, id
<1>5. Good([t EXCEPT ![id] = r])
  BY <1>2, <1>4, Changed
<1> QED
  BY <1>3, <1>5

(* So does .set, which may take over a size.                               *)
LEMMA SetGood ==
    ASSUME IInv, NEW s \in source.statements, DirSet(s)
    PROVE  Good(table')
<1> DEFINE e == s.exprs[1]
           t == Intern(table, {s.name})
           u == Intern(t, {HeadSymbol(e)} \ {None})
           v == WithSizeOf(u, s.name, e)
           w == [v EXCEPT ![s.name] = [AsExpr(@, e, This) EXCEPT !.redefinable = ~(s.is = "equiv")]]
<1>1. s.is \notin Nameless
  BY DEF DirSet, Read, Nameless
<1>2. Good(t) /\ s.name \in DOMAIN t
  BY <1>1, NamedStatements, InternedOne DEF IInv
<1>3. Good(u) /\ s.name \in DOMAIN u /\ (HeadSymbol(e) # None => HeadSymbol(e) \in DOMAIN u)
  <2> DEFINE ids == {HeadSymbol(e)} \ {None}
  <2>1. None \notin ids /\ (HeadSymbol(e) # None => HeadSymbol(e) \in ids)
    OBVIOUS
  <2> HIDE DEF t, ids
  <2>2. Good(Intern(t, ids)) /\ DOMAIN Intern(t, ids) = DOMAIN t \cup ids
    BY <1>2, <2>1, Interned
  <2> QED
    BY <1>2, <2>1, <2>2 DEF ids
<1>4. Good(w) /\ DOMAIN v = DOMAIN u
  <2> HIDE DEF u, e
  <2> QED
    BY <1>3, LinkIsGood
<1>5. s.name \in DOMAIN w
  <2> HIDE DEF v
  <2> QED
    BY <1>3, <1>4
<1>6. Good(Settled(w, s.name, s))
  <2> HIDE DEF w
  <2> QED
    BY <1>4, <1>5, SettledIsGood
<1>7. Good(WithPositions(t, s.exprs))
  <2> HIDE DEF t
  <2> QED
    BY <1>2, Positioned
<1>8. table' = WithPositions(t, s.exprs) \/ table' = Settled(w, s.name, s)
  BY DEF DirSet
<1> QED
  BY <1>6, <1>7, <1>8

(* So does a definition with =.                                            *)
LEMMA AssignGood ==
    ASSUME IInv, NEW s \in source.statements, Assign(s)
    PROVE  Good(table')
<1> DEFINE e == s.exprs[1]
           snapshot == s.is = "snapshot"
           known == IF snapshot THEN Intern(table, {leaf \in Leaves(e) : IsName(leaf)}) ELSE table
           t == Intern(known, {s.name})
           kept == IF s.is = "keep" THEN e ELSE Snapshot(known, e)
           once == source.dialect = "cc" /\ ~snapshot
           r == [AsExpr(t[s.name], kept, This) EXCEPT !.redefinable = ~once]
           w == [t EXCEPT ![s.name] = r]
<1>1. s.is \notin Nameless
  BY DEF Assign, Read, Nameless
<1>2. Good(known)
  BY NamesAreNotNone, Interned DEF IInv
<1>3. Good(t) /\ s.name \in DOMAIN t
  <2> HIDE DEF known
  <2> QED
    BY <1>1, <1>2, NamedStatements, InternedOne
<1>4. IsSymbol(t[s.name])
  BY <1>3 DEF Good, IsTable
<1>5. IsSymbol(r) /\ r.is = "expr" /\ r.sizeFrom = t[s.name].sizeFrom
  <2> HIDE DEF t, kept, once
  <2>1. /\ IsSymbol(AsExpr(t[s.name], kept, This))
        /\ AsExpr(t[s.name], kept, This).is = "expr"
        /\ AsExpr(t[s.name], kept, This).sizeFrom = t[s.name].sizeFrom
    BY <1>4, AsExprIs
  <2> QED
    BY <2>1 DEF IsSymbol, Fields
<1>6. Good(w) /\ s.name \in DOMAIN w
  <2> HIDE DEF t, r
  <2> QED
    BY <1>3, <1>5, Changed
<1>7. Good(Settled(w, s.name, s))
  <2> HIDE DEF w
  <2> QED
    BY <1>6, SettledIsGood
<1>8. Good(WithPositions(known, s.exprs)) /\ Good(WithPositions(t, s.exprs))
  <2> HIDE DEF known, t
  <2> QED
    BY <1>2, <1>3, Positioned
<1>9. \/ table' = WithPositions(known, s.exprs)
      \/ table' = WithPositions(t, s.exprs)
      \/ table' = Settled(w, s.name, s)
  BY DEF Assign
<1> QED
  BY <1>7, <1>8, <1>9

(* So does .size.                                                          *)
LEMMA SizeGood ==
    ASSUME IInv, NEW s \in source.statements, DirSize(s)
    PROVE  Good(table')
<1> DEFINE t == Intern(table, {s.name})
           r == [t[s.name] EXCEPT !.size = Bound(t, s.exprs[1], 1)]
           u == [t EXCEPT ![s.name] = r]
<1>1. s.is \notin Nameless
  BY DEF DirSize, Read, Nameless
<1>2. Good(t) /\ s.name \in DOMAIN t
  BY <1>1, NamedStatements, InternedOne DEF IInv
<1>3. IsSymbol(t[s.name])
  BY <1>2 DEF Good, IsTable
<1>4. IsSymbol(r) /\ r.is = t[s.name].is /\ r.sizeFrom = t[s.name].sizeFrom
  <2> HIDE DEF t
  <2> QED
    BY <1>3 DEF IsSymbol, Fields
<1>5. Good(u)
  <2> HIDE DEF t, r
  <2> QED
    BY <1>2, <1>4, Changed
<1>6. table' = WithPositions(u, s.exprs)
  BY DEF DirSize
<1> HIDE DEF u
<1> QED
  BY <1>5, <1>6, Positioned

(* So does .comm.                                                          *)
LEMMA CommGood ==
    ASSUME IInv, NEW s \in source.statements, DirComm(s)
    PROVE  Good(table')
<1> DEFINE t == Intern(table, {s.name})
           r == [t[s.name] EXCEPT !.is = "common", !.span = This]
<1>1. s.is \notin Nameless
  BY DEF DirComm, Read, Nameless
<1>2. Good(t) /\ s.name \in DOMAIN t
  BY <1>1, NamedStatements, InternedOne DEF IInv
<1>3. IsSymbol(t[s.name])
  BY <1>2 DEF Good, IsTable
<1>4. IsSymbol(r) /\ r.is = "common" /\ r.sizeFrom = t[s.name].sizeFrom
  <2> HIDE DEF t
  <2> QED
    BY <1>3 DEF IsSymbol, Fields
<1>5. table' = [t EXCEPT ![s.name] = r]
  BY <1>2 DEF DirComm, Good, IsTable
<1>6. Good([t EXCEPT ![s.name] = r])
  <2> HIDE DEF t, r
  <2> QED
    BY <1>2, <1>4, Changed
<1> QED
  BY <1>5, <1>6

(* So does a statement that only mentions symbols.                         *)
LEMMA UsesGood ==
    ASSUME IInv, NEW s \in source.statements, DirData(s) \/ Operand(s)
    PROVE  Good(table')
BY Positioned DEF DirData, Operand, Emit, IInv

(* Every statement keeps the table in order.                               *)
LEMMA NextGood == IInv /\ [Next]_vars => IInv'
<1> SUFFICES ASSUME IInv, [Next]_vars PROVE IInv'
  OBVIOUS
<1>1. CASE \E s \in source.statements :
             DefineLabel(s) \/ DefineLocal(s) \/ DirSet(s) \/ Assign(s) \/ DirSize(s)
               \/ DirComm(s) \/ DirData(s) \/ Operand(s)
  <2> PICK s \in source.statements :
        DefineLabel(s) \/ DefineLocal(s) \/ DirSet(s) \/ Assign(s) \/ DirSize(s)
          \/ DirComm(s) \/ DirData(s) \/ Operand(s)
    BY <1>1
  <2>1. Good(table')
    BY LabelGood, LocalGood, SetGood, AssignGood, SizeGood, CommGood, UsesGood
  <2>2. source' = source
    BY DEF DefineLabel, DefineLocal, DirSet, Assign, DirSize, DirComm, DirData, Operand, Read
  <2> QED
    BY <2>1, <2>2 DEF IInv, Good, IsTable, IsSymbol, UndefinedHaveNoSource, ChainsEnd
<1>2. CASE Finish
  BY <1>2 DEF Finish, IInv, Good, IsTable, IsSymbol, UndefinedHaveNoSource, ChainsEnd
<1>3. CASE UNCHANGED vars
  BY <1>3 DEF vars, IInv, Good, IsTable, IsSymbol, UndefinedHaveNoSource, ChainsEnd
<1> QED
  BY <1>1, <1>2, <1>3 DEF Next

(* However names are made aliases of each other, redefined and given       *)
(* sizes, the symbols they take their sizes from never form a circle: the  *)
(* loop of symbol_size comes to an end without its bound, for every source *)
(* and of whatever length.                                                 *)
THEOREM SizesEnd == Spec => []SizeChainsEnd
<1>1. IInv => SizeChainsEnd
  BY DEF IInv, Good, ChainsEnd, SizeChainsEnd
<1> QED
  BY InitGood, NextGood, <1>1, PTL DEF Spec

-----------------------------------------------------------------------------
(***************************************************************************)
(* Where statements and labels are: the text alone tells what the bytes    *)
(* before a statement are.                                                 *)
(***************************************************************************)

(* What holds of 0, and of n + 1 when it holds of n, holds of every        *)
(* natural: the form of induction the recursive functions here unfold by.  *)
LEMMA InductionBySets ==
    ASSUME NEW S, 0 \in S, \A n \in Nat : n \in S => n + 1 \in S
    PROVE  Nat \subseteq S
<1> DEFINE Less == {ss \in Nat \X Nat : ss[1] < ss[2]}
<1>1. IsWellFoundedOn(Less, Nat)
  BY Zenon, NatLessThanWellFounded DEF OpToRel
<1> HIDE DEF Less
<1>2. SUFFICES ASSUME Nat \ S # {} PROVE FALSE
  OBVIOUS
<1>3. PICK k \in Nat \ S : \A j \in Nat \ S : ~ (<<j, k>> \in Less)
  BY <1>1, <1>2, WFMin
<1>4. k # 0
  OBVIOUS
<1>5. k - 1 \in Nat
  BY <1>4
<1>6. <<k - 1, k>> \in Less
  BY <1>5 DEF Less
<1>7. k - 1 \in S
  BY <1>3, <1>5, <1>6
<1> QED
  BY <1>5, <1>7

(* The bytes of the first statements of a text.                            *)
IsBytes(g, w, last) ==
    g = [k \in 0..last |-> IF k = 0 THEN 0 ELSE g[k - 1] + BytesOf(w[k])]

(* They can be counted.                                                    *)
LEMMA BytesExist ==
    ASSUME NEW w, NEW last \in Nat
    PROVE  \E g : IsBytes(g, w, last)
<1> DEFINE S == {n \in Nat : \E g : IsBytes(g, w, n)}
<1>1. 0 \in S
  <2>1. IsBytes([k \in 0..0 |-> 0], w, 0)
    BY DEF IsBytes
  <2> QED
    BY <2>1
<1>2. ASSUME NEW n \in Nat, n \in S
      PROVE  n + 1 \in S
  <2>1. PICK g : IsBytes(g, w, n)
    BY <1>2
  <2> DEFINE h == [k \in 0..n + 1 |-> IF k = n + 1 THEN g[n] + BytesOf(w[n + 1]) ELSE g[k]]
  <2>2. ASSUME NEW k \in 0..n + 1
        PROVE  h[k] = IF k = 0 THEN 0 ELSE h[k - 1] + BytesOf(w[k])
    <3>1. CASE k = n + 1
      BY <3>1
    <3>2. CASE k # n + 1
      BY <2>1, <3>2 DEF IsBytes
    <3> QED
      BY <3>1, <3>2
  <2>3. h = [k \in 0..n + 1 |-> h[k]]
    OBVIOUS
  <2> HIDE DEF h
  <2>4. IsBytes(h, w, n + 1)
    BY <2>2, <2>3 DEF IsBytes
  <2> QED
    BY <2>4
<1> HIDE DEF S
<1>3. Nat \subseteq S
  BY <1>1, <1>2, InductionBySets
<1> QED
  BY <1>3 DEF S

(* Two texts start alike.                                                  *)
StartAlike(v, w, less) == \A k \in 1..less : v[k] = w[k]

(* Texts that start alike have the same bytes there.                       *)
LEMMA BytesAgree ==
    ASSUME NEW w, NEW v, NEW last \in Nat, NEW less \in 0..last,
           StartAlike(v, w, less),
           NEW g, IsBytes(g, w, last), NEW h, IsBytes(h, v, less)
    PROVE  \A k \in 0..less : g[k] = h[k]
<1> DEFINE S == {n \in Nat : n \in 0..less => g[n] = h[n]}
<1>1. 0 \in S
  BY DEF IsBytes
<1>2. ASSUME NEW n \in Nat, n \in S
      PROVE  n + 1 \in S
  <2>1. ASSUME n + 1 \in 0..less
        PROVE  g[n + 1] = h[n + 1]
    <3>1. PICK m \in 1..less : m = n + 1
      BY <2>1
    <3>2. m # 0 /\ m \in 0..last /\ m \in 0..less /\ m - 1 = n /\ n \in 0..less
      BY <3>1
    <3>3. g[m] = g[m - 1] + BytesOf(w[m])
      BY <3>2 DEF IsBytes
    <3>4. h[m] = h[m - 1] + BytesOf(v[m])
      BY <3>2 DEF IsBytes
    <3> QED
      BY <1>2, <3>1, <3>2, <3>3, <3>4 DEF StartAlike
  <2> QED
    BY <2>1
<1> HIDE DEF S
<1>3. Nat \subseteq S
  BY <1>1, <1>2, InductionBySets
<1> QED
  BY <1>3 DEF S

(* A statement more moves none of those before it, and is followed by the  *)
(* bytes it emits.                                                         *)
LEMMA BytesAppended ==
    ASSUME NEW S, text \in Seq(S), NEW s \in S, text' = Append(text, s)
    PROVE  /\ \A j \in 1..Len(text) + 1 : BytesBefore(j)' = BytesBefore(j)
           /\ \A j : j = Len(text) + 2 => BytesBefore(j)' = BytesBefore(Len(text) + 1) + BytesOf(s)
<1>1. /\ Len(text) \in Nat /\ Len(text') = Len(text) + 1 /\ Len(text') \in Nat
      /\ \A k \in 1..Len(text) : text'[k] = text[k]
      /\ text'[Len(text) + 1] = s
  BY AppendProperties
<1>2. PICK g : g = CHOOSE x : IsBytes(x, text, Len(text))
  OBVIOUS
<1>3. PICK h : h = CHOOSE x : IsBytes(x, text', Len(text'))
  OBVIOUS
<1>4. IsBytes(g, text, Len(text)) /\ IsBytes(h, text', Len(text'))
  BY <1>1, <1>2, <1>3, BytesExist
<1>5. \A j : BytesBefore(j) = g[j - 1]
  BY <1>2 DEF BytesBefore, IsBytes
<1>6. \A j : BytesBefore(j)' = h[j - 1]
  BY <1>3 DEF BytesBefore, IsBytes
<1>7. \A k \in 0..Len(text) : h[k] = g[k]
  <2>1. PICK v, w, less, last :
            v = text /\ w = text' /\ less = Len(text) /\ last = Len(text')
    OBVIOUS
  <2>2. last \in Nat /\ less \in 0..last /\ StartAlike(v, w, less)
    BY <1>1, <2>1 DEF StartAlike
  <2>3. IsBytes(h, w, last) /\ IsBytes(g, v, less)
    BY <1>4, <2>1
  <2>4. \A k \in 0..less : h[k] = g[k]
    BY <2>2, <2>3, BytesAgree
  <2> QED
    BY <2>1, <2>4
<1>8. ASSUME NEW j \in 1..Len(text) + 1
      PROVE  BytesBefore(j)' = BytesBefore(j)
  BY <1>1, <1>5, <1>6, <1>7
<1>9. ASSUME NEW j, j = Len(text) + 2
      PROVE  BytesBefore(j)' = BytesBefore(Len(text) + 1) + BytesOf(s)
  <2>1. PICK m : m = Len(text) + 1
    OBVIOUS
  <2>2. m \in 0..Len(text') /\ m # 0 /\ m - 1 = Len(text) /\ j - 1 = m
    BY <1>1, <1>9, <2>1
  <2>3. h[m] = h[m - 1] + BytesOf(text'[m])
    BY <1>4, <2>2 DEF IsBytes
  <2>4. h[Len(text)] = g[Len(text)]
    BY <1>1, <1>7
  <2> QED
    BY <1>1, <1>5, <1>6, <2>1, <2>2, <2>3, <2>4
<1> QED
  BY <1>8, <1>9

(* Nothing is before the first statement.                                  *)
LEMMA NothingBefore ==
    ASSUME text = <<>>
    PROVE  BytesBefore(1) = 0
<1>1. PICK g : g = CHOOSE x : IsBytes(x, text, 0)
  OBVIOUS
<1>2. IsBytes(g, text, 0)
  BY <1>1, BytesExist
<1>3. Len(text) = 0
  OBVIOUS
<1>4. BytesBefore(1) = g[1 - 1]
  BY <1>1, <1>3 DEF BytesBefore, IsBytes
<1>5. g[0] = 0
  BY <1>2 DEF IsBytes
<1> QED
  BY <1>4, <1>5

-----------------------------------------------------------------------------
(***************************************************************************)
(* Numeric labels and "." as the table has them, against the text.  The    *)
(* span of a slot is the statement of its label: the slots of a number are *)
(* its labels in the order of the text, each as it is defined, so that how *)
(* many were defined at a statement tells its references apart for good.   *)
(***************************************************************************)

Span(n, k) == table[Slot(n, k)].span

(* The labels "n:" before statement "j" are those of the first "d" slots.  *)
Before(n, j, d) ==
    /\ d \in 0..defined[n]
    /\ \A k \in 1..d : Span(n, k) < j
    /\ \A k \in d + 1..defined[n] : j < Span(n, k)

(* The symbols there are: names, slots up to the next, and items' places.  *)
PlacesKnown(id) ==
    \/ IsName(id)
    \/ \E n \in Numbers : \E k \in 1..defined[n] + 1 : id = Slot(n, k)
    \/ \E j \in DOMAIN text : \E i \in DOMAIN text[j].exprs :
          /\ id = HereAt(j, i)
          /\ table[id].is = "label"
          /\ table[id].at = BytesBefore(j) + i - 1

(* The slots of a number that are defined are its labels in order.         *)
SlotsDefined(n) ==
    /\ \A k \in 1..defined[n] :
          /\ Slot(n, k) \in DOMAIN table
          /\ table[Slot(n, k)].is = "label"
          /\ Span(n, k) \in LocalsNamed(n)
          /\ table[Slot(n, k)].at = BytesBefore(Span(n, k))
    /\ \A k \in 1..defined[n] : \A l \in 1..k - 1 : Span(n, l) < Span(n, k)
    /\ \A j \in LocalsNamed(n) : \E k \in 1..defined[n] : Span(n, k) = j

(* The next slot is there if a statement awaits it.                        *)
NextSlotAwaited(n) ==
    Slot(n, defined[n] + 1) \in DOMAIN table =>
        /\ table[Slot(n, defined[n] + 1)].is = "undefined"
        /\ \E j \in DOMAIN text : Forward(n) \in LeavesOf(text[j].exprs) /\ Before(n, j, defined[n])

(* A statement that refers to a label after it has its slot.               *)
AwaitedSlotsKept(n) ==
    \A j \in DOMAIN text :
        Forward(n) \in LeavesOf(text[j].exprs) =>
            \E d \in 0..defined[n] : Before(n, j, d) /\ Slot(n, d + 1) \in DOMAIN table

SlotsKept ==
    \A n \in Numbers :
        /\ defined[n] \in Nat
        /\ SlotsDefined(n)
        /\ NextSlotAwaited(n)
        /\ AwaitedSlotsKept(n)

(* What a leaf written in statement "j" was bound to.                      *)
IsResolved(written, bound, j, item) ==
    IsPositional(written) /\ ~IsNumber(bound) =>
        /\ j \in DOMAIN text
        /\ \/ written = Here /\ bound = HereAt(j, item) /\ bound \in DOMAIN table
           \/ \E n \in Numbers : \E d \in 0..defined[n] :
                 /\ Before(n, j, d)
                 /\ \/ written = Backward(n) /\ bound = IF d = 0 THEN written ELSE Slot(n, d)
                    \/ written = Forward(n) /\ bound = Slot(n, d + 1)

ExprIsResolved(written, bound, j, item) ==
    IsResolved(written.l, bound.l, j, item) /\ IsResolved(written.r, bound.r, j, item)

UsesResolved ==
    \A i \in DOMAIN uses :
        ExprIsResolved(uses[i].written, uses[i].expr, uses[i].span, uses[i].item)

DefinitionsResolved ==
    \A id \in DOMAIN table :
        table[id].is = "expr" /\ table[id].span # 0 =>
            /\ table[id].span \in DOMAIN text
            /\ ExprIsResolved(text[table[id].span].exprs[1], table[id].expr, table[id].span, 1)

(* A statement asks for a label that is not there before it.               *)
AskedInVain ==
    \E j \in DOMAIN text : \E n \in Numbers :
        Backward(n) \in LeavesOf(text[j].exprs) /\ Before(n, j, 0)

(* Each report has its reason.                                             *)
ErrorsKept ==
    /\ (\E e \in errors : e[1] = "no previous") <=> AskedInVain
    /\ (\E e \in errors : e[1] = "no local") <=> Done /\ UndefinedLocals(table) # {}

IsSeq(q) == Len(q) \in Nat /\ q = [i \in 1..Len(q) |-> q[i]]

PlacesInv ==
    /\ IInv
    /\ text \in Seq(source.statements)
    /\ IsSeq(uses)
    /\ at \in Nat
    /\ defined = [n \in Numbers |-> defined[n]]
    /\ phase \in {"reading", "done"}
    /\ at = BytesBefore(Len(text) + 1)
    /\ \A id \in DOMAIN table : PlacesKnown(id)
    /\ SlotsKept
    /\ UsesResolved
    /\ DefinitionsResolved
    /\ ErrorsKept

-----------------------------------------------------------------------------
(***************************************************************************)
(* What a statement makes of the table, in the steps it takes.             *)
(***************************************************************************)

(* What a leaf is bound to by the statement being read.                    *)
IsBoundTo(written, bound, item) ==
    IsPositional(written) /\ ~IsNumber(bound) => bound = BoundLeaf(table, written, item)

ExprIsBoundTo(written, bound, item) ==
    IsBoundTo(written.l, bound.l, item) /\ IsBoundTo(written.r, bound.r, item)

IsNewSlot(t, id, exprs) ==
    \E n \in Numbers :
        /\ Forward(n) \in LeavesOf(exprs)
        /\ id = Slot(n, defined[n] + 1)
        /\ t[id].is = "undefined"

IsNewPlace(t, id, exprs) ==
    \E i \in DOMAIN exprs :
        /\ id = HereAt(This, i)
        /\ t[id].is = "label"
        /\ t[id].at = at + i - 1

SameDefinition(t, id) ==
    /\ id \in DOMAIN table
    /\ table[id].is = "expr"
    /\ t[id].expr = table[id].expr
    /\ t[id].span = table[id].span

PlacedOver(t, id, exprs) ==
    \/ IsName(id)
    \/ id \in DOMAIN table /\ t[id] = table[id]
    \/ id \notin DOMAIN table /\ (IsNewSlot(t, id, exprs) \/ IsNewPlace(t, id, exprs))

(* A table "t" on the way from one statement to the next, with other       *)
(* definitions of the names in "but".                                      *)
Over(t, exprs, but) ==
    /\ DOMAIN table \subseteq DOMAIN t
    /\ \A id \in DOMAIN t : PlacedOver(t, id, exprs)
    /\ \A id \in DOMAIN t \ but : t[id].is = "expr" => SameDefinition(t, id)

(* The places and slots of a statement's leaves are in the table.          *)
AllThere(t, exprs) ==
    /\ \A i \in DOMAIN exprs : Here \in Leaves(exprs[i]) => HereAt(This, i) \in DOMAIN t
    /\ \A n \in Numbers : Forward(n) \in LeavesOf(exprs) => Slot(n, defined[n] + 1) \in DOMAIN t

(* Symbols of different kinds are different.                               *)
LEMMA KindsDiffer ==
    /\ \A n, k, m, l : Slot(n, k) = Slot(m, l) => n = m /\ k = l
    /\ \A j, i, m, l : HereAt(j, i) = HereAt(m, l) => j = m /\ i = l
    /\ \A n, k, j, i : Slot(n, k) # HereAt(j, i)
    /\ \A n, k : ~IsName(Slot(n, k)) /\ ~IsName(HereAt(n, k))
    /\ \A n, k : ~IsNumber(Slot(n, k)) /\ ~IsNumber(HereAt(n, k))
    /\ \A n, k : HereAt(n, k)[3] = k
BY DEF Slot, HereAt, IsName, IsNumber

(* The table before the statement.                                         *)
LEMMA OverStart ==
    ASSUME NEW exprs
    PROVE  Over(table, exprs, {})
BY DEF Over, PlacedOver, SameDefinition

(* Mentioning names.                                                       *)
LEMMA OverIntern ==
    ASSUME NEW t, NEW exprs, NEW but, Over(t, exprs, but), NEW ids, \A id \in ids : IsName(id)
    PROVE  Over(Intern(t, ids), exprs, but)
<1> DEFINE u == Intern(t, ids)
<1>1. /\ DOMAIN u = DOMAIN t \cup ids
      /\ \A id \in DOMAIN t : u[id] = t[id]
      /\ \A id \in DOMAIN u \ DOMAIN t : u[id] = Mentioned /\ id \in ids
  BY DEF Intern
<1> HIDE DEF u
<1>2. ASSUME NEW id \in DOMAIN u
      PROVE  PlacedOver(u, id, exprs)
  <2>1. CASE id \in DOMAIN t
    BY <1>1, <2>1 DEF Over, PlacedOver, IsNewSlot, IsNewPlace
  <2>2. CASE id \notin DOMAIN t
    BY <1>1, <2>2 DEF PlacedOver
  <2> QED
    BY <2>1, <2>2
<1>3. ASSUME NEW id \in DOMAIN u \ but, u[id].is = "expr"
      PROVE  SameDefinition(u, id)
  BY <1>1, <1>3, MentionedIs DEF Over, SameDefinition
<1>4. Over(u, exprs, but)
  BY <1>1, <1>2, <1>3 DEF Over
<1> QED
  BY <1>4 DEF u

(* Changing what there is about a name.                                    *)
LEMMA OverChanged ==
    ASSUME NEW t, NEW exprs, NEW but, Over(t, exprs, but),
           NEW id \in DOMAIN t, IsName(id), NEW r, NEW names, but \subseteq names,
           \/ id \in names
           \/ r.is # "expr"
           \/ r.is = t[id].is /\ r.expr = t[id].expr /\ r.span = t[id].span
    PROVE  Over([t EXCEPT ![id] = r], exprs, names)
<1> DEFINE u == [t EXCEPT ![id] = r]
<1>1. /\ DOMAIN u = DOMAIN t
      /\ u[id] = r
      /\ \A i \in DOMAIN t \ {id} : u[i] = t[i]
  OBVIOUS
<1> HIDE DEF u
<1>2. ASSUME NEW i \in DOMAIN u
      PROVE  PlacedOver(u, i, exprs)
  <2>1. CASE i = id
    BY <2>1 DEF PlacedOver
  <2>2. CASE i # id
    BY <1>1, <2>2 DEF Over, PlacedOver, IsNewSlot, IsNewPlace
  <2> QED
    BY <2>1, <2>2
<1>3. ASSUME NEW i \in DOMAIN u \ names, u[i].is = "expr"
      PROVE  SameDefinition(u, i)
  <2>1. i \in DOMAIN t \ but
    BY <1>1
  <2>2. CASE i = id
    BY <1>1, <1>3, <2>1, <2>2 DEF Over, SameDefinition
  <2>3. CASE i # id
    BY <1>1, <1>3, <2>1, <2>3 DEF Over, SameDefinition
  <2> QED
    BY <2>2, <2>3
<1>4. Over(u, exprs, names)
  BY <1>1, <1>2, <1>3 DEF Over
<1> QED
  BY <1>4 DEF u

(* The places and slots of a statement.                                    *)
LEMMA OverPositions ==
    ASSUME NEW t, NEW exprs, NEW but, Over(t, exprs, but)
    PROVE  Over(WithPositions(t, exprs), exprs, but) /\ AllThere(WithPositions(t, exprs), exprs)
<1> DEFINE u == WithPositions(t, exprs)
<1>1. /\ DOMAIN u = DOMAIN t \cup Positions(exprs) \cup Awaited(exprs)
      /\ \A id \in DOMAIN t : u[id] = t[id]
      /\ \A id \in Awaited(exprs) \ DOMAIN t : u[id] = Mentioned
      /\ \A id \in Positions(exprs) \ (DOMAIN t \cup Awaited(exprs)) :
            u[id] = AsLabel(Mentioned, at + id[3] - 1, This)
  BY DEF WithPositions
<1> HIDE DEF u
<1>2. \A id \in Awaited(exprs) :
        \E n \in Numbers : Forward(n) \in LeavesOf(exprs) /\ id = Slot(n, defined[n] + 1)
  BY DEF Awaited, LocalForward
<1>3. \A id \in Positions(exprs) : \E i \in DOMAIN exprs : id = HereAt(This, i)
  BY DEF Positions
<1>4. ASSUME NEW id \in DOMAIN u
      PROVE  PlacedOver(u, id, exprs)
  <2>1. CASE id \in DOMAIN t
    BY <1>1, <2>1 DEF Over, PlacedOver, IsNewSlot, IsNewPlace
  <2>2. CASE id \notin DOMAIN t /\ id \in Awaited(exprs)
    BY <1>1, <1>2, <2>2, MentionedIs DEF Over, IsNewSlot, PlacedOver
  <2>3. CASE id \notin DOMAIN t /\ id \notin Awaited(exprs)
    <3>1. id \notin DOMAIN table /\ id \in Positions(exprs)
      BY <1>1, <2>3 DEF Over
    <3>2. PICK i \in DOMAIN exprs : id = HereAt(This, i)
      BY <1>3, <3>1
    <3>3. u[id] = AsLabel(Mentioned, at + i - 1, This)
      BY <1>1, <2>3, <3>1, <3>2, KindsDiffer
    <3>4. u[id].is = "label" /\ u[id].at = at + i - 1
      BY <3>3 DEF AsLabel, Mentioned
    <3> QED
      BY <3>1, <3>2, <3>4 DEF PlacedOver, IsNewPlace
  <2> QED
    BY <2>1, <2>2, <2>3
<1>5. ASSUME NEW id \in DOMAIN u \ but, u[id].is = "expr"
      PROVE  SameDefinition(u, id)
  <2>1. CASE id \in DOMAIN t
    BY <1>1, <1>5, <2>1 DEF Over, SameDefinition
  <2>2. CASE id \notin DOMAIN t
    BY <1>1, <1>5, <2>2, MentionedIs, AsLabelIs
  <2> QED
    BY <2>1, <2>2
<1>6. Over(u, exprs, but)
  BY <1>1, <1>4, <1>5 DEF Over
<1>7. AllThere(u, exprs)
  BY <1>1 DEF Positions, Awaited, LocalForward, AllThere
<1> QED
  BY <1>6, <1>7 DEF u

-----------------------------------------------------------------------------
(* What a statement that is not a local label does.                        *)

DefinedBy(symbol, s) ==
    /\ 1 \in DOMAIN s.exprs
    /\ symbol.span = This
    /\ ExprIsBoundTo(s.exprs[1], symbol.expr, 1)

TableReads(t, s) ==
    /\ Over(t, s.exprs, DOMAIN t)
    /\ AllThere(t, s.exprs)
    /\ \A id \in DOMAIN t : t[id].is = "expr" => SameDefinition(t, id) \/ DefinedBy(t[id], s)

UseRead(u, s) ==
    /\ u.span = This
    /\ u.item \in DOMAIN s.exprs
    /\ u.written = s.exprs[u.item]
    /\ ExprIsBoundTo(u.written, u.expr, u.item)

UsesReads(s) ==
    /\ IsSeq(uses')
    /\ \A i \in DOMAIN uses' :
          (i \in DOMAIN uses /\ uses'[i] = uses[i]) \/ UseRead(uses'[i], s)

ErrorsReads(s) ==
    /\ errors \subseteq errors'
    /\ NoPrevious(s.exprs) \subseteq errors'
    /\ \A e \in errors' \ errors :
          e[1] # "no local" /\ (e[1] = "no previous" => NoPrevious(s.exprs) # {})

Reads(s) ==
    /\ s.is # "local"
    /\ text' = Append(text, s)
    /\ source' = source
    /\ phase = "reading" /\ phase' = "reading"
    /\ defined' = defined
    /\ TableReads(table', s)
    /\ at' = at + BytesOf(s)
    /\ UsesReads(s)
    /\ ErrorsReads(s)

(* What a leaf that is no name is bound to does not depend on the table.   *)
LEMMA PositionsAreBound ==
    ASSUME NEW t, NEW e, NEW item
    PROVE  /\ ExprIsBoundTo(e, Bound(t, e, item), item)
           /\ \A n : ExprIsBoundTo(e, Bound(t, Just(Number(n)), item), item)
           /\ \A n : ExprIsBoundTo(e, Just(Number(n)), item)
<1>1. ASSUME NEW leaf, IsPositional(leaf)
      PROVE  BoundLeaf(t, leaf, item) = BoundLeaf(table, leaf, item)
  BY <1>1 DEF IsPositional, IsName, BoundLeaf
<1>2. ASSUME NEW n
      PROVE  IsNumber(Number(n)) /\ BoundLeaf(t, Number(n), item) = Number(n)
  BY DEF Number, Here, BoundLeaf, IsName, IsNumber
<1>3. /\ Bound(t, e, item).l = BoundLeaf(t, e.l, item)
      /\ Bound(t, e, item).r = BoundLeaf(t, e.r, item)
  BY DEF Bound, Expr
<1>4. ExprIsBoundTo(e, Bound(t, e, item), item)
  BY <1>1, <1>3 DEF ExprIsBoundTo, IsBoundTo
<1>5. ASSUME NEW n
      PROVE  ExprIsBoundTo(e, Bound(t, Just(Number(n)), item), item)
             /\ ExprIsBoundTo(e, Just(Number(n)), item)
  BY <1>2 DEF Just, Expr, Bound, ExprIsBoundTo, IsBoundTo
<1> QED
  BY <1>4, <1>5

(* A table of the same definitions, and one with one more.                 *)
LEMMA OverReads ==
    ASSUME NEW t, NEW s, AllThere(t, s.exprs), NEW id,
           Over(t, s.exprs, {}) \/ (Over(t, s.exprs, {id}) /\ DefinedBy(t[id], s))
    PROVE  TableReads(t, s)
BY DEF TableReads, Over

(* Binding a definition.                                                   *)
LEMMA SettledReads ==
    ASSUME NEW s, NEW t, Good(t), NEW id \in DOMAIN t, IsName(id),
           Over(t, s.exprs, {id}), t[id].span = This, 1 \in DOMAIN s.exprs,
           t[id].expr = s.exprs[1] \/ \E n : t[id].expr = Just(Number(n))
    PROVE  TableReads(Settled(t, id, s), s)
<1> DEFINE r == [t[id] EXCEPT !.expr = Bound(t, @, 1)]
           u == [t EXCEPT ![id] = r]
           v == WithPositions(u, s.exprs)
           q == [v[id] EXCEPT !.was = NumberThere(t, v[id].expr)]
           w == [v EXCEPT ![id] = q]
<1>1. IsSymbol(t[id])
  BY DEF Good, IsTable
<1>2. /\ IsSymbol(r) /\ r.sizeFrom = t[id].sizeFrom /\ r.is = t[id].is /\ r.span = t[id].span
      /\ r.expr = Bound(t, t[id].expr, 1)
  BY <1>1 DEF IsSymbol, Fields
<1>3. ExprIsBoundTo(s.exprs[1], r.expr, 1)
  BY <1>2, PositionsAreBound
<1> HIDE DEF r
<1>4. Good(u) /\ id \in DOMAIN u /\ u[id] = r
  BY <1>2, Changed
<1>5. Over(u, s.exprs, {id})
  <2> DEFINE but == {id}
  <2>1. id \in but /\ Over(t, s.exprs, but)
    OBVIOUS
  <2> HIDE DEF but
  <2>2. Over(u, s.exprs, but)
    BY <2>1, OverChanged
  <2> QED
    BY <2>2 DEF but
<1> HIDE DEF u
<1>6. /\ Over(v, s.exprs, {id}) /\ AllThere(v, s.exprs)
      /\ id \in DOMAIN v /\ v[id] = r /\ Good(v)
  BY <1>4, <1>5, OverPositions, Positioned
<1> HIDE DEF v
<1>7. q.is = r.is /\ q.expr = r.expr /\ q.span = This
  BY <1>2, <1>6 DEF IsSymbol, Fields
<1> HIDE DEF q
<1>8. Over(w, s.exprs, {id}) /\ DOMAIN w = DOMAIN v /\ w[id] = q
  <2> DEFINE but == {id}
  <2>1. id \in but /\ Over(v, s.exprs, but)
    BY <1>6
  <2> HIDE DEF but
  <2>2. Over(w, s.exprs, but) /\ DOMAIN w = DOMAIN v /\ w[id] = q
    BY <1>6, <2>1, OverChanged
  <2> QED
    BY <2>2 DEF but
<1> HIDE DEF w
<1>9. DefinedBy(w[id], s)
  BY <1>3, <1>7, <1>8 DEF DefinedBy
<1>10. AllThere(w, s.exprs)
  BY <1>6, <1>8 DEF AllThere
<1>11. TableReads(w, s)
  BY <1>8, <1>9, <1>10, OverReads
<1>12. Settled(t, id, s) = w
  BY DEF u, r, Settled, w, q, v
<1> QED
  BY <1>11, <1>12

(* A statement without expressions asks for no place.                      *)
LEMMA NothingThere ==
    ASSUME NEW t, NEW exprs, exprs = <<>>
    PROVE  AllThere(t, exprs) /\ NoPrevious(exprs) = {} /\ LeavesOf(exprs) = {}
BY DEF LeavesOf, AllThere, NoPrevious

(* What is assumed of the statements of a source.                          *)
LEMMA StatementsAreWritten ==
    ASSUME IInv, NEW s \in source.statements
    PROVE  /\ s.is \notin Nameless => IsName(s.name)
           /\ s.is = "local" => s.n \in Numbers
           /\ Len(s.exprs) \in Nat /\ DOMAIN s.exprs = 1..Len(s.exprs)
           /\ \A i \in DOMAIN s.exprs : s.exprs[i].op \in {"+", "-", "*"}
           /\ \A leaf \in LeavesOf(s.exprs) : IsWritten(leaf)
           /\ s.is \in Expressionless => s.exprs = <<>>
           /\ s.is \notin Expressionless \cup Emitting => 1 \in DOMAIN s.exprs
<1>1. /\ s.is \notin Nameless => IsName(s.name)
      /\ s.is = "local" => s.n \in Numbers
      /\ AreWritten(s.exprs)
      /\ s.is \in Expressionless => s.exprs = <<>>
      /\ s.is \notin Expressionless \cup Emitting => Len(s.exprs) = 1
  BY Zenon, SourcesAssumption DEF IInv
<1> QED
  BY <1>1 DEF AreWritten

(* What reading any statement does.                                        *)
LEMMA ReadDoes ==
    ASSUME NEW s, NEW is, Read(is, s)
    PROVE  /\ text' = Append(text, s) /\ source' = source /\ s.is = is
           /\ phase = "reading" /\ phase' = "reading" /\ s \in source.statements
BY DEF Read

(* A statement that leaves the uses alone.                                 *)
LEMMA NoUses ==
    ASSUME NEW s, IsSeq(uses), uses' = uses
    PROVE  UsesReads(s)
BY DEF UsesReads, IsSeq

(* What a statement reports of its own.                                    *)
LEMMA Reports ==
    ASSUME NEW s, NEW what, what \notin {"no local", "no previous"},
           \/ errors' = errors \cup NoPrevious(s.exprs)
           \/ errors' = errors \cup Report(what) \cup NoPrevious(s.exprs)
    PROVE  ErrorsReads(s)
<1>1. \A e \in NoPrevious(s.exprs) : e[1] # "no local"
  <2>1. NoPrevious(s.exprs) \subseteq {<<"no previous", This>>}
    BY Zenon DEF NoPrevious, Report
  <2>2. <<"no previous", This>>[1] # "no local"
    OBVIOUS
  <2> QED
    BY <2>1, <2>2
<1>2. \A e \in Report(what) : e[1] \notin {"no local", "no previous"}
  <2>1. <<what, This>>[1] = what
    OBVIOUS
  <2> QED
    BY <2>1 DEF Report
<1> QED
  BY <1>1, <1>2 DEF ErrorsReads

(* A label.                                                                *)
LEMMA LabelReads ==
    ASSUME PlacesInv, NEW s \in source.statements, DefineLabel(s)
    PROVE  Reads(s)
<1> DEFINE t == Intern(table, {s.name})
           r == AsLabel(t[s.name], at, This)
<1> IInv /\ IsSeq(uses) /\ at \in Nat
  BY DEF PlacesInv
<1>1. Read("label", s)
  BY DEF DefineLabel
<1>2. s.is = "label" /\ s.exprs = <<>> /\ IsName(s.name)
  BY <1>1, ReadDoes, StatementsAreWritten DEF Nameless, Expressionless
<1>3. Good(t) /\ s.name \in DOMAIN t
  BY <1>2, NamesAreNotNone, InternedOne DEF IInv
<1>4. Over(t, s.exprs, {})
  <2> DEFINE ids == {s.name}
  <2>1. \A id \in ids : IsName(id)
    BY <1>2
  <2> HIDE DEF ids
  <2>2. Over(Intern(table, ids), s.exprs, {})
    BY <2>1, OverStart, OverIntern
  <2> QED
    BY <2>2 DEF ids
<1>5. table' = t \/ table' = [t EXCEPT ![s.name] = r]
  BY DEF DefineLabel
<1>6. r.is = "label"
  BY <1>3, AsLabelIs DEF Good, IsTable
<1> HIDE DEF t, r
<1>7. Over([t EXCEPT ![s.name] = r], s.exprs, {})
  BY <1>2, <1>3, <1>4, <1>6, OverChanged
<1>8. TableReads(table', s)
  BY <1>2, <1>4, <1>5, <1>7, NothingThere, OverReads
<1>9. ErrorsReads(s)
  <2>1. NoPrevious(s.exprs) = {}
    BY <1>2, NothingThere
  <2>2. errors' = errors \/ errors' = errors \cup Report("redefined")
    BY DEF DefineLabel
  <2>3. "redefined" \notin {"no local", "no previous"}
    OBVIOUS
  <2>4. \/ errors' = errors \cup NoPrevious(s.exprs)
        \/ errors' = errors \cup Report("redefined") \cup NoPrevious(s.exprs)
    BY <2>1, <2>2
  <2> QED
    BY Zenon, <2>3, <2>4, Reports
<1>10. at' = at /\ defined' = defined /\ uses' = uses
  BY DEF DefineLabel
<1>11. at' = at + BytesOf(s)
  BY <1>2, <1>10 DEF BytesOf, Emitting
<1> QED
  BY <1>1, <1>2, <1>8, <1>9, <1>10, <1>11, ReadDoes, NoUses DEF Reads

(* .set and .equiv.                                                        *)
LEMMA SetReads ==
    ASSUME PlacesInv, NEW s \in source.statements, DirSet(s)
    PROVE  Reads(s)
<1> DEFINE e == s.exprs[1]
           t == Intern(table, {s.name})
           u == Intern(t, {HeadSymbol(e)} \ {None})
           v == WithSizeOf(u, s.name, e)
           r == [AsExpr(v[s.name], e, This) EXCEPT !.redefinable = ~(s.is = "equiv")]
           w == [v EXCEPT ![s.name] = r]
<1> IInv /\ IsSeq(uses) /\ at \in Nat
  BY DEF PlacesInv
<1>1. Read("set", s) \/ Read("equiv", s)
  BY DEF DirSet
<1>2. s.is \in {"set", "equiv"} /\ 1 \in DOMAIN s.exprs /\ IsName(s.name)
  BY <1>1, ReadDoes, StatementsAreWritten DEF Nameless, Expressionless, Emitting
<1>3. Good(t) /\ s.name \in DOMAIN t
  BY <1>2, NamesAreNotNone, InternedOne DEF IInv
<1>4. Over(t, s.exprs, {})
  <2> DEFINE ids == {s.name}
  <2>1. \A id \in ids : IsName(id)
    BY <1>2
  <2> HIDE DEF ids
  <2>2. Over(Intern(table, ids), s.exprs, {})
    BY <2>1, OverStart, OverIntern
  <2> QED
    BY <2>2 DEF ids
<1>5. /\ Good(u) /\ s.name \in DOMAIN u /\ (HeadSymbol(e) # None => HeadSymbol(e) \in DOMAIN u)
      /\ Over(u, s.exprs, {})
  <2> DEFINE ids == {HeadSymbol(e)} \ {None}
  <2>1. /\ None \notin ids /\ (HeadSymbol(e) # None => HeadSymbol(e) \in ids)
        /\ \A id \in ids : IsName(id)
    BY NamesAreNotNone
  <2> HIDE DEF t, ids
  <2>2. Good(Intern(t, ids)) /\ DOMAIN Intern(t, ids) = DOMAIN t \cup ids
    BY <1>3, <2>1, Interned
  <2>3. Over(Intern(t, ids), s.exprs, {})
    BY <1>4, <2>1, OverIntern
  <2> QED
    BY <1>3, <2>1, <2>2, <2>3 DEF ids
<1>6. Good(w) /\ DOMAIN v = DOMAIN u
  <2> HIDE DEF u, e
  <2> QED
    BY <1>5, LinkIsGood
<1>7. /\ \A i \in DOMAIN u \ {s.name} : v[i] = u[i]
      /\ IsSymbol(v[s.name])
  <2>1. IsSymbol(u[s.name])
    BY <1>5 DEF Good, IsTable
  <2> HIDE DEF u
  <2> QED
    BY <1>5, <2>1 DEF WithSizeOf, IsSymbol, Fields, Good, IsTable
<1> HIDE DEF u, v
<1>8. r.expr = e /\ r.span = This
  BY <1>7 DEF AsExpr, IsSymbol, Fields
<1> HIDE DEF r
<1>9. s.name \in DOMAIN w /\ w[s.name] = r
  BY <1>5, <1>6
<1>10. Over(w, s.exprs, {s.name})
  <2> DEFINE names == {s.name}
             x == [u EXCEPT ![s.name] = r]
  <2>1. s.name \in names /\ {} \subseteq names
    OBVIOUS
  <2> HIDE DEF names
  <2>2. Over(x, s.exprs, names)
    BY <1>2, <1>5, <2>1, OverChanged
  <2>3. DOMAIN w = DOMAIN x /\ \A i \in DOMAIN w : w[i] = x[i]
    BY <1>5, <1>6, <1>7, <1>9
  <2>4. \A id \in DOMAIN w : PlacedOver(x, id, s.exprs) => PlacedOver(w, id, s.exprs)
    BY <2>3 DEF PlacedOver, IsNewSlot, IsNewPlace
  <2>5. \A id \in DOMAIN w : SameDefinition(x, id) => SameDefinition(w, id)
    BY <2>3 DEF SameDefinition
  <2>6. Over(w, s.exprs, names)
    BY <2>2, <2>3, <2>4, <2>5 DEF Over
  <2> QED
    BY <2>6 DEF names
<1> HIDE DEF w
<1>11. TableReads(Settled(w, s.name, s), s)
  BY <1>2, <1>6, <1>8, <1>9, <1>10, SettledReads
<1>12. TableReads(WithPositions(t, s.exprs), s)
  <2> HIDE DEF t
  <2>1. Over(WithPositions(t, s.exprs), s.exprs, {}) /\ AllThere(WithPositions(t, s.exprs), s.exprs)
    BY <1>4, OverPositions
  <2> QED
    BY <2>1, OverReads
<1>13. TableReads(table', s)
  BY <1>11, <1>12 DEF DirSet, w, v, u, r
<1>14. ErrorsReads(s)
  <2>1. \/ errors' = errors \cup NoPrevious(s.exprs)
        \/ errors' = errors \cup Report("redefined") \cup NoPrevious(s.exprs)
    BY DEF DirSet
  <2>2. "redefined" \notin {"no local", "no previous"}
    OBVIOUS
  <2> QED
    BY Zenon, <2>1, <2>2, Reports
<1>15. at' = at /\ defined' = defined /\ uses' = uses
  BY DEF DirSet
<1>16. at' = at + BytesOf(s)
  BY <1>2, <1>15 DEF BytesOf, Emitting
<1> QED
  BY <1>1, <1>2, <1>13, <1>14, <1>15, <1>16, ReadDoes, NoUses DEF Reads

(* =, EQU, SET and .SET.                                                   *)
LEMMA AssignReads ==
    ASSUME PlacesInv, NEW s \in source.statements, Assign(s)
    PROVE  Reads(s)
<1> DEFINE e == s.exprs[1]
           snapshot == s.is = "snapshot"
           known == IF snapshot THEN Intern(table, {leaf \in Leaves(e) : IsName(leaf)}) ELSE table
           t == Intern(known, {s.name})
           kept == IF s.is = "keep" THEN e ELSE Snapshot(known, e)
           once == source.dialect = "cc" /\ ~snapshot
           r == [AsExpr(t[s.name], kept, This) EXCEPT !.redefinable = ~once]
           w == [t EXCEPT ![s.name] = r]
<1> IInv /\ IsSeq(uses) /\ at \in Nat
  BY DEF PlacesInv
<1>1. Read("keep", s) \/ Read("count", s) \/ Read("snapshot", s)
  BY DEF Assign
<1>2. s.is \in {"keep", "count", "snapshot"} /\ 1 \in DOMAIN s.exprs /\ IsName(s.name)
  BY <1>1, ReadDoes, StatementsAreWritten DEF Nameless, Expressionless, Emitting
<1>3. Good(known) /\ Over(known, s.exprs, {})
  <2> DEFINE ids == {leaf \in Leaves(e) : IsName(leaf)}
  <2>1. None \notin ids /\ \A id \in ids : IsName(id)
    BY NamesAreNotNone
  <2> HIDE DEF ids
  <2>2. Good(Intern(table, ids)) /\ Over(Intern(table, ids), s.exprs, {})
    BY <2>1, Interned, OverStart, OverIntern DEF IInv
  <2>3. Good(table) /\ Over(table, s.exprs, {})
    BY OverStart DEF IInv
  <2> QED
    BY <2>2, <2>3 DEF ids
<1>4. kept = e \/ \E n : kept = Just(Number(n))
  <2> HIDE DEF known
  <2> QED
    BY DEF Snapshot
<1> HIDE DEF known
<1>5. Good(t) /\ s.name \in DOMAIN t
  BY <1>2, <1>3, NamesAreNotNone, InternedOne
<1>6. Over(t, s.exprs, {})
  <2> DEFINE ids == {s.name}
  <2>1. \A id \in ids : IsName(id)
    BY <1>2
  <2> HIDE DEF ids
  <2>2. Over(Intern(known, ids), s.exprs, {})
    BY <1>3, <2>1, OverIntern
  <2> QED
    BY <2>2 DEF ids
<1> HIDE DEF t, kept
<1>7. IsSymbol(t[s.name])
  BY <1>5 DEF Good, IsTable
<1>8. r.expr = kept /\ r.span = This /\ IsSymbol(r) /\ r.is = "expr" /\ r.sizeFrom = t[s.name].sizeFrom
  <2> HIDE DEF once
  <2>1. IsSymbol(AsExpr(t[s.name], kept, This))
    BY <1>7, AsExprIs
  <2>2. /\ AsExpr(t[s.name], kept, This).is = "expr"
        /\ AsExpr(t[s.name], kept, This).sizeFrom = t[s.name].sizeFrom
    BY <1>7, AsExprIs
  <2>3. /\ AsExpr(t[s.name], kept, This).expr = kept
        /\ AsExpr(t[s.name], kept, This).span = This
    BY <1>7 DEF AsExpr, IsSymbol, Fields
  <2> QED
    BY <2>1, <2>2, <2>3 DEF IsSymbol, Fields
<1> HIDE DEF r
<1>9. Good(w) /\ s.name \in DOMAIN w /\ w[s.name] = r
  BY <1>5, <1>8, Changed
<1>10. Over(w, s.exprs, {s.name})
  <2> DEFINE names == {s.name}
  <2>1. s.name \in names /\ {} \subseteq names
    OBVIOUS
  <2> HIDE DEF names
  <2>2. Over(w, s.exprs, names)
    BY <1>2, <1>5, <1>6, <2>1, OverChanged
  <2> QED
    BY <2>2 DEF names
<1> HIDE DEF w
<1>11. TableReads(Settled(w, s.name, s), s)
  BY <1>2, <1>4, <1>8, <1>9, <1>10, SettledReads
<1>12. TableReads(WithPositions(t, s.exprs), s) /\ TableReads(WithPositions(known, s.exprs), s)
  BY <1>3, <1>6, OverPositions, OverReads
<1>13. TableReads(table', s)
  BY <1>11, <1>12 DEF Assign, w, t, r, kept, known
<1>14. ErrorsReads(s)
  <2>1. \/ errors' = errors \cup NoPrevious(s.exprs)
        \/ errors' = errors \cup Report("redefined") \cup NoPrevious(s.exprs)
        \/ errors' = errors \cup Report("not a number") \cup NoPrevious(s.exprs)
    BY DEF Assign
  <2>2. /\ "redefined" \notin {"no local", "no previous"}
        /\ "not a number" \notin {"no local", "no previous"}
    OBVIOUS
  <2> QED
    BY Zenon, <2>1, <2>2, Reports
<1>15. at' = at /\ defined' = defined /\ uses' = uses
  BY DEF Assign
<1>16. at' = at + BytesOf(s)
  BY <1>2, <1>15 DEF BytesOf, Emitting
<1> QED
  BY <1>1, <1>2, <1>13, <1>14, <1>15, <1>16, ReadDoes, NoUses DEF Reads

(* .size.                                                                  *)
LEMMA SizeReads ==
    ASSUME PlacesInv, NEW s \in source.statements, DirSize(s)
    PROVE  Reads(s)
<1> DEFINE t == Intern(table, {s.name})
           r == [t[s.name] EXCEPT !.size = Bound(t, s.exprs[1], 1)]
           u == [t EXCEPT ![s.name] = r]
<1> IInv /\ IsSeq(uses) /\ at \in Nat
  BY DEF PlacesInv
<1>1. Read("size", s)
  BY DEF DirSize
<1>2. s.is = "size" /\ IsName(s.name)
  BY <1>1, ReadDoes, StatementsAreWritten DEF Nameless
<1>3. Good(t) /\ s.name \in DOMAIN t
  BY <1>2, NamesAreNotNone, InternedOne DEF IInv
<1>4. Over(t, s.exprs, {})
  <2> DEFINE ids == {s.name}
  <2>1. \A id \in ids : IsName(id)
    BY <1>2
  <2> HIDE DEF ids
  <2>2. Over(Intern(table, ids), s.exprs, {})
    BY <2>1, OverStart, OverIntern
  <2> QED
    BY <2>2 DEF ids
<1>5. IsSymbol(t[s.name])
  BY <1>3 DEF Good, IsTable
<1>6. r.is = t[s.name].is /\ r.expr = t[s.name].expr /\ r.span = t[s.name].span
  <2> HIDE DEF t
  <2> QED
    BY <1>5 DEF IsSymbol, Fields
<1>7. table' = WithPositions(u, s.exprs)
  BY DEF DirSize
<1> HIDE DEF t, r
<1>8. Over(u, s.exprs, {})
  BY <1>2, <1>3, <1>4, <1>6, OverChanged
<1> HIDE DEF u
<1>9. TableReads(table', s)
  BY <1>7, <1>8, OverPositions, OverReads
<1>10. ErrorsReads(s)
  <2>1. errors' = errors \cup NoPrevious(s.exprs)
    BY DEF DirSize
  <2>2. "redefined" \notin {"no local", "no previous"}
    OBVIOUS
  <2> QED
    BY Zenon, <2>1, <2>2, Reports
<1>11. at' = at /\ defined' = defined /\ uses' = uses
  BY DEF DirSize
<1>12. at' = at + BytesOf(s)
  BY <1>2, <1>11 DEF BytesOf, Emitting
<1> QED
  BY <1>1, <1>2, <1>9, <1>10, <1>11, <1>12, ReadDoes, NoUses DEF Reads

(* .comm.                                                                  *)
LEMMA CommReads ==
    ASSUME PlacesInv, NEW s \in source.statements, DirComm(s)
    PROVE  Reads(s)
<1> DEFINE t == Intern(table, {s.name})
           r == [t[s.name] EXCEPT !.is = "common", !.span = This]
<1> IInv /\ IsSeq(uses) /\ at \in Nat
  BY DEF PlacesInv
<1>1. Read("comm", s)
  BY DEF DirComm
<1>2. s.is = "comm" /\ s.exprs = <<>> /\ IsName(s.name)
  BY <1>1, ReadDoes, StatementsAreWritten DEF Nameless, Expressionless
<1>3. Good(t) /\ s.name \in DOMAIN t
  BY <1>2, NamesAreNotNone, InternedOne DEF IInv
<1>4. Over(t, s.exprs, {})
  <2> DEFINE ids == {s.name}
  <2>1. \A id \in ids : IsName(id)
    BY <1>2
  <2> HIDE DEF ids
  <2>2. Over(Intern(table, ids), s.exprs, {})
    BY <2>1, OverStart, OverIntern
  <2> QED
    BY <2>2 DEF ids
<1>5. IsSymbol(t[s.name])
  BY <1>3 DEF Good, IsTable
<1>6. r.is # "expr"
  <2> HIDE DEF t
  <2> QED
    BY <1>5 DEF IsSymbol, Fields
<1>7. table' = [t EXCEPT ![s.name] = r]
  BY <1>3 DEF DirComm, Good, IsTable
<1> HIDE DEF t, r
<1>8. TableReads(table', s)
  BY <1>2, <1>3, <1>4, <1>6, <1>7, OverChanged, NothingThere, OverReads
<1>9. ErrorsReads(s)
  <2>1. errors' = errors \cup NoPrevious(s.exprs)
    BY <1>2, NothingThere DEF DirComm
  <2>2. "redefined" \notin {"no local", "no previous"}
    OBVIOUS
  <2> QED
    BY Zenon, <2>1, <2>2, Reports
<1>10. at' = at /\ defined' = defined /\ uses' = uses
  BY DEF DirComm
<1>11. at' = at + BytesOf(s)
  BY <1>2, <1>10 DEF BytesOf, Emitting
<1> QED
  BY <1>1, <1>2, <1>8, <1>9, <1>10, <1>11, ReadDoes, NoUses DEF Reads

(* A function on the first numbers is a sequence.                          *)
LEMMA FunctionsAreSequences ==
    ASSUME NEW S, NEW n \in Nat, NEW f \in [1..n -> S]
    PROVE  f \in Seq(S) /\ Len(f) = n /\ DOMAIN f = 1..n
OBVIOUS

(* A sequence is one of the values of two others.                          *)
IsMadeOf(pq, p, q) ==
    /\ IsSeq(pq)
    /\ \A i \in DOMAIN pq :
          \/ i \in DOMAIN p /\ pq[i] = p[i]
          \/ \E j \in DOMAIN q : pq[i] = q[j]

(* Adding to a sequence.                                                   *)
LEMMA Concatenated ==
    ASSUME NEW p, NEW q, IsSeq(p), IsSeq(q)
    PROVE  IsMadeOf(p \o q, p, q)
<1> DEFINE S == {p[i] : i \in 1..Len(p)} \cup {q[i] : i \in 1..Len(q)}
<1>1. p \in [1..Len(p) -> S] /\ q \in [1..Len(q) -> S] /\ Len(p) \in Nat /\ Len(q) \in Nat
  BY DEF IsSeq
<1> HIDE DEF S
<1>2. PICK m, n : m = Len(p) /\ n = Len(q)
  OBVIOUS
<1>3. m \in Nat /\ n \in Nat /\ p \in [1..m -> S] /\ q \in [1..n -> S]
  BY <1>1, <1>2
<1>4. p \in Seq(S) /\ q \in Seq(S) /\ DOMAIN p = 1..m /\ DOMAIN q = 1..n
  BY Zenon, <1>3, FunctionsAreSequences
<1>5. /\ p \o q \in Seq(S) /\ Len(p \o q) = m + n
      /\ \A i \in 1..m + n : (p \o q)[i] = IF i <= m THEN p[i] ELSE q[i - m]
  BY <1>2, <1>4, ConcatProperties
<1>6. PICK pq : pq = p \o q
  OBVIOUS
<1>7. ASSUME NEW i \in 1..m + n
      PROVE  \/ i \in DOMAIN p /\ pq[i] = p[i]
             \/ \E j \in DOMAIN q : pq[i] = q[j]
  <2>1. CASE i <= m
    BY <1>3, <1>4, <1>5, <1>6, <2>1
  <2>2. CASE ~ (i <= m)
    <3>1. i - m \in 1..n
      BY <1>3, <2>2
    <3> QED
      BY <1>4, <1>5, <1>6, <2>2, <3>1
  <2> QED
    BY <2>1, <2>2
<1>8. IsSeq(pq) /\ DOMAIN pq = 1..m + n
  BY <1>3, <1>5, <1>6, LenProperties DEF IsSeq
<1> QED
  BY <1>6, <1>7, <1>8 DEF IsMadeOf

(* Data and operands.                                                      *)
LEMMA EmitReads ==
    ASSUME PlacesInv, NEW s \in source.statements, DirData(s) \/ Operand(s)
    PROVE  Reads(s)
<1> IInv /\ IsSeq(uses) /\ at \in Nat
  BY DEF PlacesInv
<1>1. Read("data", s) \/ Read("operand", s)
  BY DEF DirData, Operand
<1>2. /\ s.is \in Emitting /\ s.is # "local"
      /\ Len(s.exprs) \in Nat /\ DOMAIN s.exprs = 1..Len(s.exprs)
  BY <1>1, ReadDoes, StatementsAreWritten DEF Emitting
<1>3. PICK t, left, was :
        /\ t = WithPositions(table, s.exprs)
        /\ Emit(t, s.exprs, left, was)
        /\ \A i \in DOMAIN s.exprs : ExprIsBoundTo(s.exprs[i], left[i], i)
  <2> DEFINE t == WithPositions(table, s.exprs)
             bound == BoundItems(t, s.exprs)
             now == IF Here \in LeavesOf(s.exprs) THEN bound ELSE s.exprs
             data == [i \in DOMAIN bound |-> DataValue(t, now[i], bound[i])]
  <2>1. \E was : Emit(t, s.exprs, bound, was) \/ Emit(t, s.exprs, data, was)
    BY DEF DirData, Operand
  <2>2. DOMAIN bound = DOMAIN s.exprs /\ \A i \in DOMAIN s.exprs : bound[i] = Bound(t, s.exprs[i], i)
    BY DEF BoundItems
  <2> HIDE DEF t, bound
  <2>3. \A i \in DOMAIN s.exprs :
            data[i] = bound[i] \/ \E n : data[i] = Just(Number(n))
    BY <2>2 DEF DataValue
  <2> HIDE DEF data
  <2>4. \A i \in DOMAIN s.exprs : ExprIsBoundTo(s.exprs[i], bound[i], i)
    BY <2>2, PositionsAreBound
  <2>5. \A i \in DOMAIN s.exprs : ExprIsBoundTo(s.exprs[i], data[i], i)
    BY <2>3, <2>4, PositionsAreBound
  <2> QED
    BY <2>1, <2>4, <2>5 DEF t
<1>4. TableReads(table', s)
  BY <1>3, OverStart, OverPositions, OverReads DEF Emit
<1>5. UsesReads(s)
  <2>1. PICK new :
          /\ new = [i \in DOMAIN s.exprs |->
                Use(s.exprs[i], left[i], i, was[i])]
          /\ uses' = uses \o new
    BY <1>3 DEF Emit
  <2>2. ASSUME NEW i \in DOMAIN new
        PROVE  UseRead(new[i], s)
    BY <1>3, <2>1, <2>2 DEF UseRead, Use
  <2>3. IsSeq(new)
    BY <1>2, <2>1 DEF IsSeq
  <2>4. IsMadeOf(uses', uses, new)
    BY <2>1, <2>3, Concatenated
  <2> QED
    BY <2>2, <2>4 DEF UsesReads, IsMadeOf
<1>6. ErrorsReads(s)
  <2>1. errors' = errors \cup NoPrevious(s.exprs)
    BY <1>3 DEF Emit
  <2>2. "redefined" \notin {"no local", "no previous"}
    OBVIOUS
  <2> QED
    BY Zenon, <2>1, <2>2, Reports
<1>7. at' = at + BytesOf(s) /\ defined' = defined
  BY <1>2, <1>3 DEF Emit, BytesOf
<1> QED
  BY <1>1, <1>2, <1>4, <1>5, <1>6, <1>7, ReadDoes DEF Reads

-----------------------------------------------------------------------------
(***************************************************************************)
(* A statement more moves no label, so that what was resolved stays so.    *)
(***************************************************************************)
Keeps(s) ==
    /\ text' = Append(text, s)
    /\ \A n \in Numbers :
          \/ defined'[n] = defined[n]
          \/ defined'[n] = defined[n] + 1 /\ table'[Slot(n, defined[n] + 1)].span = This
    /\ \A id \in DOMAIN table :
          ~IsName(id) => /\ id \in DOMAIN table'
                         /\ \/ table'[id] = table[id]
                            \/ \E n \in Numbers : id = Slot(n, defined[n] + 1)

(* The text before and after, and where its statements are.                *)
LEMMA TextGrows ==
    ASSUME PlacesInv, NEW s \in source.statements, text' = Append(text, s)
    PROVE  /\ Len(text) \in Nat /\ DOMAIN text = 1..Len(text)
           /\ Len(text') = Len(text) + 1 /\ DOMAIN text' = 1..Len(text) + 1
           /\ \A j \in DOMAIN text : j \in DOMAIN text' /\ text'[j] = text[j]
           /\ text'[Len(text) + 1] = s
           /\ text' \in Seq(source.statements)
BY AppendProperties DEF PlacesInv

(* No table moves what is not a name.                                      *)
LEMMA PlacesStay ==
    ASSUME NEW t, NEW exprs, NEW but, Over(t, exprs, but), NEW id \in DOMAIN table, ~IsName(id)
    PROVE  id \in DOMAIN t /\ t[id] = table[id]
BY DEF Over, PlacedOver

(* A statement that is not a local label keeps all of it.                  *)
LEMMA ReadsKeeps ==
    ASSUME PlacesInv, NEW s \in source.statements, Reads(s)
    PROVE  Keeps(s)
BY PlacesStay DEF Reads, TableReads, Keeps

(* The labels that are defined stay where they are.                        *)
LEMMA SlotsStay ==
    ASSUME PlacesInv, NEW s, Keeps(s), NEW n \in Numbers, NEW k \in 1..defined[n]
    PROVE  /\ defined[n] \in Nat
           /\ Slot(n, k) \in DOMAIN table
           /\ Slot(n, k) \in DOMAIN table'
           /\ table'[Slot(n, k)] = table[Slot(n, k)]
           /\ Span(n, k)' = Span(n, k)
           /\ Span(n, k) \in LocalsNamed(n)
BY KindsDiffer DEF PlacesInv, SlotsKept, SlotsDefined, Keeps, Span

(* Which labels are before a statement is settled.                         *)
LEMMA BeforeStays ==
    ASSUME PlacesInv, NEW s \in source.statements, Keeps(s),
           NEW n \in Numbers, NEW j \in DOMAIN text
    PROVE  /\ \A d : Before(n, j, d) => Before(n, j, d)'
           /\ Before(n, j, 0)' => Before(n, j, 0)
           /\ defined[n] \in Nat
           /\ \A d \in 0..defined[n] : d \in 0..defined'[n]
<1>1. defined[n] \in Nat
  BY DEF PlacesInv, SlotsKept
<1>2. Len(text) \in Nat /\ j \in 1..Len(text)
  BY TextGrows DEF Keeps
<1>3. \/ defined'[n] = defined[n]
      \/ defined'[n] = defined[n] + 1 /\ table'[Slot(n, defined[n] + 1)].span = This
  BY DEF Keeps
<1>4. \A k \in 1..defined[n] : Span(n, k)' = Span(n, k)
  BY SlotsStay
<1>5. PICK last : last = defined[n]
  OBVIOUS
<1>6. defined'[n] = last \/ (defined'[n] = last + 1 /\ Span(n, last + 1)' = Len(text) + 1)
  BY <1>3, <1>5 DEF Span, This
<1>7. ASSUME NEW d, Before(n, j, d)
      PROVE  Before(n, j, d)'
  <2>1. d \in 0..defined'[n]
    BY <1>1, <1>5, <1>6, <1>7 DEF Before
  <2>2. \A k \in 1..d : Span(n, k)' < j
    BY <1>1, <1>4, <1>7 DEF Before
  <2>3. ASSUME NEW k \in d + 1..defined'[n]
        PROVE  j < Span(n, k)'
    <3>1. CASE k \in 1..defined[n]
      BY <1>1, <1>4, <1>7, <2>3, <3>1 DEF Before
    <3>2. CASE k \notin 1..defined[n]
      BY <1>1, <1>2, <1>5, <1>6, <1>7, <2>3, <3>2 DEF Before
    <3> QED
      BY <3>1, <3>2
  <2> QED
    BY <2>1, <2>2, <2>3 DEF Before
<1>8. ASSUME Before(n, j, 0)'
      PROVE  Before(n, j, 0)
  BY <1>1, <1>4, <1>5, <1>6, <1>8 DEF Before
<1>9. \A d \in 0..defined[n] : d \in 0..defined'[n]
  BY <1>1, <1>5, <1>6
<1> QED
  BY <1>1, <1>7, <1>8, <1>9

(* What was resolved stays resolved.                                       *)
LEMMA ResolvedStays ==
    ASSUME PlacesInv, NEW s \in source.statements, Keeps(s),
           NEW written, NEW bound, NEW j, NEW item, IsResolved(written, bound, j, item)
    PROVE  IsResolved(written, bound, j, item)'
<1> SUFFICES ASSUME IsPositional(written), ~IsNumber(bound)
             PROVE  IsResolved(written, bound, j, item)'
  BY DEF IsResolved
<1>1. j \in DOMAIN text /\ j \in DOMAIN text'
  BY TextGrows DEF IsResolved, Keeps
<1>2. CASE written = Here /\ bound = HereAt(j, item) /\ bound \in DOMAIN table
  BY <1>1, <1>2, KindsDiffer DEF Keeps, IsResolved
<1>3. ASSUME NEW n \in Numbers, NEW d \in 0..defined[n], Before(n, j, d),
             \/ written = Backward(n) /\ bound = IF d = 0 THEN written ELSE Slot(n, d)
             \/ written = Forward(n) /\ bound = Slot(n, d + 1)
      PROVE  IsResolved(written, bound, j, item)'
  BY <1>1, <1>3, BeforeStays DEF IsResolved
<1> QED
  BY <1>2, <1>3 DEF IsResolved

(* The statement read now is after all the labels there are.               *)
LEMMA AfterAll ==
    ASSUME PlacesInv, NEW s \in source.statements, Reads(s), NEW n \in Numbers,
           NEW this, this = This
    PROVE  /\ defined[n] \in Nat /\ defined' = defined
           /\ Before(n, this, defined[n])'
           /\ Before(n, this, 0)' => defined[n] = 0
           /\ this \in DOMAIN text' /\ text'[this] = s
<1>1. defined[n] \in Nat /\ defined' = defined /\ Keeps(s)
  BY ReadsKeeps DEF PlacesInv, SlotsKept, Reads
<1>2. this \in Nat /\ this \in DOMAIN text' /\ text'[this] = s /\ DOMAIN text = 1..this - 1
  BY TextGrows DEF Reads, This
<1>3. ASSUME NEW k \in 1..defined[n]
      PROVE  Span(n, k)' < this
  BY <1>1, <1>2, SlotsStay DEF LocalsNamed
<1>4. PICK last \in Nat : last = defined[n]
  BY <1>1
<1>5. Before(n, this, last)'
  BY <1>1, <1>3, <1>4 DEF Before
<1>6. ASSUME Before(n, this, 0)', last # 0
      PROVE  FALSE
  <2>1. 1 \in 1..last /\ 1 \in 0 + 1..defined'[n]
    BY <1>1, <1>4, <1>6
  <2>2. this < Span(n, 1)'
    BY <1>6, <2>1 DEF Before
  <2>3. Span(n, 1)' < this
    BY <1>3, <1>4, <2>1
  <2>4. Span(n, 1)' \in Int
    BY <1>1, <1>2, <1>4, <2>1, SlotsStay DEF LocalsNamed
  <2> QED
    BY <1>2, <2>2, <2>3, <2>4
<1>7. Before(n, this, defined[n])'
  BY <1>1, <1>4, <1>5
<1> QED
  BY <1>1, <1>2, <1>4, <1>6, <1>7

-----------------------------------------------------------------------------
(* Reading a statement keeps the invariant.                                *)

(* What it binds means what it says.                                       *)
LEMMA BoundIsResolved ==
    ASSUME PlacesInv, NEW s \in source.statements, Reads(s), NEW this, this = This,
           NEW item \in DOMAIN s.exprs, NEW written \in Leaves(s.exprs[item]), NEW bound,
           IsBoundTo(written, bound, item)
    PROVE  IsResolved(written, bound, this, item)'
<1> SUFFICES ASSUME IsPositional(written), ~IsNumber(bound)
             PROVE  IsResolved(written, bound, this, item)'
  BY DEF IsResolved
<1>1. bound = BoundLeaf(table, written, item)
  BY DEF IsBoundTo
<1>2. written \in LeavesOf(s.exprs) /\ IsWritten(written)
  BY StatementsAreWritten DEF LeavesOf, PlacesInv
<1>3. AllThere(table', s.exprs)
  BY DEF Reads, TableReads
<1>4. this \in DOMAIN text'
  BY AfterAll, TextGrows DEF Reads, This
<1>5. CASE written = Here
  BY <1>1, <1>3, <1>4, <1>5 DEF BoundLeaf, Here, IsName, AllThere, IsResolved
<1>6. ASSUME NEW n \in Numbers, written = Forward(n)
      PROVE  IsResolved(written, bound, this, item)'
  <2>1. bound = Slot(n, defined[n] + 1)
    BY <1>1, <1>6 DEF BoundLeaf, Here, IsName, Forward, LocalForward
  <2>2. PICK d : d = defined[n]
    OBVIOUS
  <2>3. Before(n, this, d)' /\ d \in 0..defined'[n]
    BY <2>2, AfterAll
  <2> QED
    BY <1>4, <1>6, <2>1, <2>2, <2>3 DEF IsResolved
<1>7. ASSUME NEW n \in Numbers, written = Backward(n)
      PROVE  IsResolved(written, bound, this, item)'
  <2>1. PICK d : d = defined[n]
    OBVIOUS
  <2>2. Before(n, this, d)' /\ d \in 0..defined'[n] /\ d \in Nat
    BY <2>1, AfterAll
  <2>3. bound = IF d = 0 THEN written ELSE Slot(n, d)
    BY <1>1, <1>7, <2>1, <2>2 DEF BoundLeaf, Here, IsName, Backward, LocalBackward
  <2> QED
    BY <1>4, <1>7, <2>2, <2>3 DEF IsResolved
<1>8. ~IsNumber(written) /\ ~IsName(written)
  BY DEF IsPositional, IsNumber, IsName
<1> QED
  BY <1>2, <1>5, <1>6, <1>7, <1>8 DEF IsWritten

(* So do both leaves of its expressions.                                   *)
LEMMA ExprBoundIsResolved ==
    ASSUME PlacesInv, NEW s \in source.statements, Reads(s), NEW this, this = This,
           NEW item \in DOMAIN s.exprs, NEW bound, ExprIsBoundTo(s.exprs[item], bound, item)
    PROVE  ExprIsResolved(s.exprs[item], bound, this, item)'
<1>1. PICK e, l, r : e = s.exprs[item] /\ l = bound.l /\ r = bound.r
  OBVIOUS
<1>2. e.l \in Leaves(e) /\ e.r \in Leaves(e)
  BY DEF Leaves
<1>3. IsBoundTo(e.l, l, item) /\ IsBoundTo(e.r, r, item)
  BY <1>1 DEF ExprIsBoundTo
<1>4. IsResolved(e.l, l, this, item)'
  BY <1>1, <1>2, <1>3, BoundIsResolved
<1>5. IsResolved(e.r, r, this, item)'
  BY <1>1, <1>2, <1>3, BoundIsResolved
<1> QED
  BY <1>1, <1>4, <1>5 DEF ExprIsResolved

(* An expression that was resolved stays so too.                           *)
LEMMA ExprResolvedStays ==
    ASSUME PlacesInv, NEW s \in source.statements, Keeps(s),
           NEW written, NEW bound, NEW j, NEW item, ExprIsResolved(written, bound, j, item)
    PROVE  ExprIsResolved(written, bound, j, item)'
BY ResolvedStays DEF ExprIsResolved

(* The uses.                                                               *)
LEMMA UsesStayResolved ==
    ASSUME PlacesInv, NEW s \in source.statements, Reads(s)
    PROVE  UsesResolved'
<1>1. ASSUME NEW i \in DOMAIN uses'
      PROVE  ExprIsResolved(uses[i].written, uses[i].expr, uses[i].span, uses[i].item)'
  <2>1. PICK w, b, j, m :
          w = uses'[i].written /\ b = uses'[i].expr /\ j = uses'[i].span /\ m = uses'[i].item
    OBVIOUS
  <2>2. CASE i \in DOMAIN uses /\ uses'[i] = uses[i]
    BY <2>1, <2>2, ReadsKeeps, ExprResolvedStays DEF PlacesInv, UsesResolved
  <2>3. CASE UseRead(uses'[i], s)
    BY <2>1, <2>3, ExprBoundIsResolved DEF UseRead
  <2> QED
    BY <2>2, <2>3 DEF Reads, UsesReads
<1> QED
  BY <1>1 DEF UsesResolved

(* The definitions.                                                        *)
LEMMA DefinitionsStayResolved ==
    ASSUME PlacesInv, NEW s \in source.statements, Reads(s)
    PROVE  DefinitionsResolved'
<1>1. ASSUME NEW id \in DOMAIN table', table'[id].is = "expr", table'[id].span # 0
      PROVE  /\ table'[id].span \in DOMAIN text'
             /\ ExprIsResolved(text[table[id].span].exprs[1], table[id].expr, table[id].span, 1)'
  <2>1. PICK j, b : j = table'[id].span /\ b = table'[id].expr
    OBVIOUS
  <2>2. CASE SameDefinition(table', id)
    <3>1. /\ id \in DOMAIN table /\ table[id].is = "expr"
          /\ table[id].span = j /\ table[id].expr = b /\ j # 0
      BY <1>1, <2>1, <2>2 DEF SameDefinition
    <3>2. j \in DOMAIN text /\ ExprIsResolved(text[j].exprs[1], b, j, 1)
      BY <3>1 DEF PlacesInv, DefinitionsResolved
    <3>3. j \in DOMAIN text' /\ text'[j] = text[j]
      BY <3>2, TextGrows DEF Reads
    <3>4. PICK w : w = text[j].exprs[1]
      OBVIOUS
    <3>5. ExprIsResolved(w, b, j, 1)'
      BY <3>2, <3>4, ReadsKeeps, ExprResolvedStays
    <3> QED
      BY <2>1, <3>3, <3>4, <3>5
  <2>3. CASE DefinedBy(table'[id], s)
    <3>1. j = This /\ 1 \in DOMAIN s.exprs /\ ExprIsBoundTo(s.exprs[1], b, 1)
      BY <2>1, <2>3 DEF DefinedBy
    <3>2. ExprIsResolved(s.exprs[1], b, j, 1)'
      BY <3>1, ExprBoundIsResolved
    <3>3. j \in DOMAIN text' /\ text'[j] = s
      BY <3>1, TextGrows DEF Reads, This
    <3> QED
      BY <2>1, <3>2, <3>3
  <2> QED
    BY <1>1, <2>2, <2>3 DEF Reads, TableReads
<1> QED
  BY <1>1 DEF DefinitionsResolved

(* Where the bytes before each statement end.                              *)
LEMMA BytesStay ==
    ASSUME PlacesInv, NEW s \in source.statements, text' = Append(text, s),
           at' = at + BytesOf(s)
    PROVE  /\ \A j \in DOMAIN text : BytesBefore(j)' = BytesBefore(j)
           /\ \A j : j = This => BytesBefore(j)' = at
           /\ (at = BytesBefore(Len(text) + 1))'
<1>1. /\ text \in Seq(source.statements) /\ Len(text) \in Nat
      /\ at = BytesBefore(Len(text) + 1) /\ DOMAIN text = 1..Len(text)
      /\ Len(text') = Len(text) + 1
  BY TextGrows DEF PlacesInv
<1>2. /\ \A j \in 1..Len(text) + 1 : BytesBefore(j)' = BytesBefore(j)
      /\ \A j : j = Len(text) + 2 => BytesBefore(j)' = BytesBefore(Len(text) + 1) + BytesOf(s)
  BY <1>1, BytesAppended
<1>3. \A j \in DOMAIN text : BytesBefore(j)' = BytesBefore(j)
  BY <1>1, <1>2
<1>4. ASSUME NEW j, j = This
      PROVE  BytesBefore(j)' = at
  BY <1>1, <1>2, <1>4 DEF This
<1>5. (at = BytesBefore(Len(text) + 1))'
  <2>1. PICK next : next = Len(text) + 2
    OBVIOUS
  <2>2. BytesBefore(next)' = at'
    BY <1>1, <1>2, <2>1
  <2>3. next = Len(text') + 1
    BY <1>1, <2>1
  <2> QED
    BY <2>2, <2>3
<1> QED
  BY <1>3, <1>4, <1>5

(* The symbols there are.                                                  *)
LEMMA PlacesStayKnown ==
    ASSUME PlacesInv, NEW s \in source.statements, Reads(s)
    PROVE  \A id \in DOMAIN table' : PlacesKnown(id)'
<1>1. /\ text' = Append(text, s) /\ at' = at + BytesOf(s) /\ defined' = defined
      /\ Over(table', s.exprs, DOMAIN table')
  BY DEF Reads, TableReads
<1>2. PICK this : this = This
  OBVIOUS
<1>3. this \in DOMAIN text' /\ text'[this] = s /\ BytesBefore(this)' = at
  BY <1>1, <1>2, TextGrows, BytesStay DEF This
<1>4. ASSUME NEW id \in DOMAIN table'
      PROVE  PlacesKnown(id)'
  <2>1. CASE IsName(id)
    BY <2>1 DEF PlacesKnown
  <2>2. CASE id \in DOMAIN table /\ table'[id] = table[id] /\ ~IsName(id)
    <3>1. PlacesKnown(id)
      BY <2>2 DEF PlacesInv
    <3>2. CASE \E n \in Numbers : \E k \in 1..defined[n] + 1 : id = Slot(n, k)
      BY <1>1, <3>2 DEF PlacesKnown
    <3>3. ASSUME NEW j \in DOMAIN text, NEW i \in DOMAIN text[j].exprs, id = HereAt(j, i),
                 table[id].is = "label", table[id].at = BytesBefore(j) + i - 1
          PROVE  PlacesKnown(id)'
      BY <1>1, <2>2, <3>3, TextGrows, BytesStay DEF PlacesKnown
    <3> QED
      BY <2>2, <3>1, <3>2, <3>3 DEF PlacesKnown
  <2>3. CASE IsNewSlot(table', id, s.exprs)
    <3>1. PICK n \in Numbers : id = Slot(n, defined[n] + 1)
      BY <2>3 DEF IsNewSlot
    <3>2. defined[n] \in Nat
      BY DEF PlacesInv, SlotsKept
    <3>3. defined[n] + 1 \in 1..defined'[n] + 1
      BY <1>1, <3>2
    <3> QED
      BY <3>1, <3>3 DEF PlacesKnown
  <2>4. CASE IsNewPlace(table', id, s.exprs)
    <3>1. PICK i \in DOMAIN s.exprs :
            id = HereAt(this, i) /\ table'[id].is = "label" /\ table'[id].at = at + i - 1
      BY <1>2, <2>4 DEF IsNewPlace
    <3>2. table'[id].at = BytesBefore(this)' + i - 1
      BY <1>3, <3>1
    <3> QED
      BY <1>3, <3>1, <3>2 DEF PlacesKnown
  <2> QED
    BY <1>1, <2>1, <2>2, <2>3, <2>4 DEF Over, PlacedOver
<1> QED
  BY <1>4

(* The local labels of the text so far.                                    *)
LEMMA LocalsStay ==
    ASSUME PlacesInv, NEW s \in source.statements, text' = Append(text, s), NEW n
    PROVE  /\ LocalsNamed(n) \subseteq DOMAIN text
           /\ LocalsNamed(n)' = LocalsNamed(n)
                \cup (IF s.is = "local" /\ s.n = n THEN {This} ELSE {})
BY TextGrows DEF LocalsNamed, This

(* The slots of a number.                                                  *)
LEMMA SlotsStayKept ==
    ASSUME PlacesInv, NEW s \in source.statements, Reads(s)
    PROVE  SlotsKept'
<1> Keeps(s)
  BY ReadsKeeps
<1>1. /\ text' = Append(text, s) /\ defined' = defined /\ s.is # "local"
      /\ at' = at + BytesOf(s)
      /\ Over(table', s.exprs, DOMAIN table') /\ AllThere(table', s.exprs)
  BY DEF Reads, TableReads
<1>2. PICK this : this = This
  OBVIOUS
<1>3. this \in DOMAIN text' /\ text'[this] = s
  BY <1>1, <1>2, TextGrows DEF This
<1>4. ASSUME NEW j \in DOMAIN text'
      PROVE  (j \in DOMAIN text /\ text'[j] = text[j]) \/ j = this
  BY <1>1, <1>2, TextGrows DEF This
<1>5. ASSUME NEW n \in Numbers
      PROVE  defined'[n] \in Nat /\ SlotsDefined(n)' /\ NextSlotAwaited(n)' /\ AwaitedSlotsKept(n)'
  <2>1. PICK d : d = defined[n]
    OBVIOUS
  <2>2. d \in Nat /\ defined'[n] = d /\ SlotsDefined(n) /\ NextSlotAwaited(n) /\ AwaitedSlotsKept(n)
    BY <1>1, <2>1 DEF PlacesInv, SlotsKept
  <2>3. LocalsNamed(n)' = LocalsNamed(n) /\ LocalsNamed(n) \subseteq DOMAIN text
    BY <1>1, LocalsStay
  <2>4. ASSUME NEW k \in 1..d
        PROVE  /\ Slot(n, k) \in DOMAIN table' /\ table'[Slot(n, k)] = table[Slot(n, k)]
               /\ Span(n, k)' = Span(n, k) /\ Span(n, k) \in LocalsNamed(n)
               /\ BytesBefore(Span(n, k))' = BytesBefore(Span(n, k))
    <3>1. /\ Slot(n, k) \in DOMAIN table' /\ table'[Slot(n, k)] = table[Slot(n, k)]
          /\ Span(n, k)' = Span(n, k) /\ Span(n, k) \in LocalsNamed(n)
      BY <2>1, SlotsStay
    <3>2. PICK j : j = Span(n, k)
      OBVIOUS
    <3>3. BytesBefore(j)' = BytesBefore(j)
      BY <1>1, <2>3, <3>1, <3>2, BytesStay
    <3> QED
      BY <3>1, <3>2, <3>3
  <2>5. SlotsDefined(n)'
    <3>1. ASSUME NEW k \in 1..d
          PROVE  /\ Slot(n, k) \in DOMAIN table'
                 /\ table'[Slot(n, k)].is = "label"
                 /\ Span(n, k)' \in LocalsNamed(n)'
                 /\ table'[Slot(n, k)].at = BytesBefore(Span(n, k))'
      BY <2>1, <2>2, <2>3, <2>4 DEF SlotsDefined
    <3>2. \A k \in 1..d : \A l \in 1..k - 1 : Span(n, l)' < Span(n, k)'
      <4>1. ASSUME NEW k \in 1..d, NEW l \in 1..k - 1
            PROVE  Span(n, l)' < Span(n, k)'
        BY <2>1, <2>2, <2>4 DEF SlotsDefined
      <4> QED
        BY <4>1
    <3>3. \A j \in LocalsNamed(n)' : \E k \in 1..d : Span(n, k)' = j
      BY <2>1, <2>2, <2>3, <2>4 DEF SlotsDefined
    <3> QED
      BY <2>2, <3>1, <3>2, <3>3 DEF SlotsDefined
  <2>6. NextSlotAwaited(n)'
    <3>1. PICK id : id = Slot(n, d + 1)
      OBVIOUS
    <3>2. ASSUME id \in DOMAIN table'
          PROVE  /\ table'[id].is = "undefined"
                 /\ \E j \in DOMAIN text' : Forward(n) \in LeavesOf(text'[j].exprs) /\ Before(n, j, d)'
      <4>1. CASE id \in DOMAIN table
        <5>1. table'[id] = table[id]
          BY <1>1, <3>1, <4>1, KindsDiffer, PlacesStay
        <5>2. PICK j \in DOMAIN text : Forward(n) \in LeavesOf(text[j].exprs) /\ Before(n, j, d)
          BY <2>1, <2>2, <3>1, <4>1 DEF NextSlotAwaited
        <5>3. Before(n, j, d)' /\ j \in DOMAIN text' /\ text'[j] = text[j]
          BY <1>1, <5>2, BeforeStays, TextGrows
        <5>4. table[id].is = "undefined"
          BY <2>1, <2>2, <3>1, <4>1 DEF NextSlotAwaited
        <5> QED
          BY <5>1, <5>2, <5>3, <5>4
      <4>2. CASE id \notin DOMAIN table
        <5>1. IsNewSlot(table', id, s.exprs)
          BY <1>1, <3>1, <3>2, <4>2, KindsDiffer DEF IsNewPlace, Over, PlacedOver
        <5>2. Forward(n) \in LeavesOf(s.exprs) /\ table'[id].is = "undefined"
          BY <3>1, <5>1, KindsDiffer DEF IsNewSlot
        <5>3. Before(n, this, d)'
          BY <1>2, <2>1, AfterAll
        <5> QED
          BY <1>3, <5>2, <5>3
      <4> QED
        BY <4>1, <4>2
    <3> QED
      BY <2>2, <3>1, <3>2 DEF NextSlotAwaited
  <2>7. AwaitedSlotsKept(n)'
    <3>1. ASSUME NEW j \in DOMAIN text', Forward(n) \in LeavesOf(text'[j].exprs)
          PROVE  \E l \in 0..d : Before(n, j, l)' /\ Slot(n, l + 1) \in DOMAIN table'
      <4>1. CASE j \in DOMAIN text /\ text'[j] = text[j]
        <5>1. PICK l \in 0..d : Before(n, j, l) /\ Slot(n, l + 1) \in DOMAIN table
          BY <2>1, <2>2, <3>1, <4>1 DEF AwaitedSlotsKept
        <5>2. Before(n, j, l)'
          BY <4>1, <5>1, BeforeStays
        <5>3. Slot(n, l + 1) \in DOMAIN table'
          BY <1>1, <5>1, KindsDiffer, PlacesStay
        <5> QED
          BY <5>2, <5>3
      <4>2. CASE j = this
        BY <1>1, <1>2, <1>3, <2>1, <2>2, <3>1, <4>2, AfterAll DEF AllThere
      <4> QED
        BY <1>4, <4>1, <4>2
    <3> QED
      BY <2>2, <3>1 DEF AwaitedSlotsKept
  <2> QED
    BY <2>2, <2>5, <2>6, <2>7
<1> QED
  BY <1>5 DEF SlotsKept

(* What is reported.                                                       *)
LEMMA ErrorsStayKept ==
    ASSUME PlacesInv, NEW s \in source.statements, Reads(s)
    PROVE  ErrorsKept'
<1> Keeps(s)
  BY ReadsKeeps
<1>1. /\ text' = Append(text, s) /\ defined' = defined /\ phase = "reading" /\ phase' = "reading"
      /\ ErrorsReads(s) /\ ErrorsKept
  BY DEF Reads, PlacesInv
<1>2. PICK this : this = This
  OBVIOUS
<1>3. this \in DOMAIN text' /\ text'[this] = s
  BY <1>1, <1>2, TextGrows DEF This
<1>4. ASSUME NEW j \in DOMAIN text'
      PROVE  (j \in DOMAIN text /\ text'[j] = text[j]) \/ j = this
  BY <1>1, <1>2, TextGrows DEF This
<1>5. (\E n \in Numbers : defined[n] = 0 /\ Backward(n) \in LeavesOf(s.exprs))
        <=> NoPrevious(s.exprs) # {}
  BY DEF NoPrevious, Report
<1>6. ASSUME NoPrevious(s.exprs) # {}
      PROVE  \E e \in errors' : e[1] = "no previous"
  BY <1>1, <1>6 DEF NoPrevious, Report, ErrorsReads
<1>7. AskedInVain' <=> AskedInVain \/ NoPrevious(s.exprs) # {}
  <2>1. ASSUME NEW j \in DOMAIN text, NEW n \in Numbers,
               Backward(n) \in LeavesOf(text[j].exprs), Before(n, j, 0)
        PROVE  AskedInVain'
    BY <1>1, <2>1, TextGrows, BeforeStays DEF AskedInVain
  <2>2. ASSUME NEW n \in Numbers, defined[n] = 0, Backward(n) \in LeavesOf(s.exprs)
        PROVE  AskedInVain'
    <3>1. PICK d : d = defined[n]
      OBVIOUS
    <3>2. Before(n, this, d)'
      BY <1>2, <3>1, AfterAll
    <3>3. d = 0
      BY <2>2, <3>1
    <3>4. Before(n, this, 0)'
      BY <3>2, <3>3
    <3> QED
      BY <1>3, <2>2, <3>4 DEF AskedInVain
  <2>3. ASSUME NEW j \in DOMAIN text', NEW n \in Numbers,
               Backward(n) \in LeavesOf(text'[j].exprs), Before(n, j, 0)'
        PROVE  AskedInVain \/ NoPrevious(s.exprs) # {}
    <3>1. CASE j \in DOMAIN text /\ text'[j] = text[j]
      BY <2>3, <3>1, BeforeStays DEF AskedInVain
    <3>2. CASE j = this
      BY <1>2, <1>3, <1>5, <2>3, <3>2, AfterAll
    <3> QED
      BY <1>4, <3>1, <3>2
  <2> QED
    BY <1>5, <2>1, <2>2, <2>3 DEF AskedInVain
<1>8. (\E e \in errors' : e[1] = "no previous")
        <=> (\E e \in errors : e[1] = "no previous") \/ NoPrevious(s.exprs) # {}
  BY <1>1, <1>6 DEF ErrorsReads
<1>9. ~ \E e \in errors' : e[1] = "no local"
  BY <1>1 DEF ErrorsReads, ErrorsKept, Done
<1>10. ~Done'
  BY <1>1 DEF Done
<1> QED
  BY <1>1, <1>7, <1>8, <1>9, <1>10 DEF ErrorsKept

(* So a statement that is not a local label keeps the invariant.           *)
LEMMA ReadsKeepsPlaces ==
    ASSUME PlacesInv, NEW s \in source.statements, Reads(s), IInv'
    PROVE  PlacesInv'
<1>1. /\ text' = Append(text, s) /\ source' = source /\ defined' = defined
      /\ phase' = "reading" /\ at' = at + BytesOf(s) /\ IsSeq(uses)'
  BY DEF Reads, UsesReads, IsSeq
<1>2. text' \in Seq(source'.statements)
  BY <1>1, TextGrows
<1>3. at' \in Nat
  BY <1>1, StatementsAreWritten DEF PlacesInv, BytesOf
<1>4. (at = BytesBefore(Len(text) + 1))'
  BY <1>1, BytesStay
<1>5. (defined = [n \in Numbers |-> defined[n]])'
  BY <1>1 DEF PlacesInv
<1>6. (\A id \in DOMAIN table : PlacesKnown(id))'
  BY PlacesStayKnown
<1> QED
  BY <1>1, <1>2, <1>3, <1>4, <1>5, <1>6, SlotsStayKept, ErrorsStayKept, UsesStayResolved,
     DefinitionsStayResolved DEF PlacesInv

-----------------------------------------------------------------------------
(***************************************************************************)
(* A local label: the next slot of its number becomes the last.            *)
(***************************************************************************)

(* A label is where and in the statement it is said to be.                 *)
LEMMA AsLabelHas ==
    ASSUME NEW r, IsSymbol(r), NEW o, NEW span
    PROVE  /\ AsLabel(r, o, span).is = "label"
           /\ AsLabel(r, o, span).at = o
           /\ AsLabel(r, o, span).span = span
BY DEF AsLabel, IsSymbol, Fields

(* The slot "id" of number "n" is defined by the statement "this".         *)
Defines(s, n, d, id, this) ==
    /\ n = s.n /\ n \in Numbers
    /\ d = defined[n] /\ d \in Nat
    /\ this = Len(text) + 1 /\ this \in Nat
    /\ id = Slot(n, d + 1)
    /\ s.is = "local" /\ s.exprs = <<>>
    /\ text' = Append(text, s)
    /\ source' = source
    /\ phase = "reading" /\ phase' = "reading"
    /\ DOMAIN defined' = Numbers /\ defined' = [k \in Numbers |-> defined'[k]]
    /\ defined'[n] = d + 1
    /\ \A k \in Numbers \ {n} : defined'[k] = defined[k]
    /\ DOMAIN table \subseteq DOMAIN table'
    /\ id \in DOMAIN table'
    /\ \A i \in DOMAIN table' : i = id \/ (i \in DOMAIN table /\ table'[i] = table[i])
    /\ table'[id].is = "label" /\ table'[id].at = at /\ table'[id].span = this
    /\ at' = at /\ uses' = uses /\ errors' = errors

(* A numbered label defines the next symbol of its number.                 *)
LEMMA LocalDefines ==
    ASSUME PlacesInv, NEW s \in source.statements, DefineLocal(s),
           NEW n, n = s.n, NEW d, d = defined[n], NEW id, id = Slot(n, d + 1), NEW this, this = This
    PROVE  Defines(s, n, d, id, this)
<1> DEFINE t == Intern(table, {id})
           r == AsLabel(t[id], at, this)
<1>1. /\ Read("local", s)
      /\ LocalForward(s.n) = id
      /\ table' = [t EXCEPT ![id] = r]
      /\ defined' = [defined EXCEPT ![n] = @ + 1]
      /\ at' = at /\ uses' = uses /\ errors' = errors
  BY DEF DefineLocal, LocalForward
<1>2. s.is = "local" /\ n \in Numbers /\ s.exprs = <<>>
  BY <1>1, StatementsAreWritten DEF Read, PlacesInv, Expressionless
<1>3. /\ text' = Append(text, s) /\ source' = source /\ phase = "reading" /\ phase' = "reading"
      /\ this = Len(text) + 1 /\ this \in Nat
  BY <1>1, ReadDoes, TextGrows DEF This
<1>4. d \in Nat /\ defined = [k \in Numbers |-> defined[k]]
  BY <1>2 DEF PlacesInv, SlotsKept
<1>5. /\ DOMAIN defined' = Numbers /\ defined' = [k \in Numbers |-> defined'[k]]
      /\ defined'[n] = d + 1
      /\ \A k \in Numbers \ {n} : defined'[k] = defined[k]
  BY <1>1, <1>2, <1>4
<1>6. id # None
  BY SlotsAreNotNone
<1>7. Good(t) /\ id \in DOMAIN t
  BY <1>6, InternedOne DEF PlacesInv, IInv
<1>8. IsSymbol(t[id])
  BY <1>7 DEF Good, IsTable
<1>9. r.is = "label" /\ r.at = at /\ r.span = this
  BY <1>8, AsLabelHas
<1>10. DOMAIN t = DOMAIN table \cup {id} /\ \A i \in DOMAIN table : t[i] = table[i]
  BY DEF Intern
<1> HIDE DEF t, r
<1>11. DOMAIN table' = DOMAIN t /\ table'[id] = r /\ \A i \in DOMAIN t \ {id} : table'[i] = t[i]
  BY <1>1, <1>7
<1>12. \A i \in DOMAIN table' : i = id \/ (i \in DOMAIN table /\ table'[i] = table[i])
  BY <1>10, <1>11
<1> QED
  BY <1>1, <1>2, <1>3, <1>4, <1>5, <1>7, <1>9, <1>10, <1>11, <1>12 DEF Defines

(* The label moves none of those before it.                                *)
LEMMA LocalKeeps ==
    ASSUME PlacesInv, NEW s \in source.statements,
           NEW n, NEW d, NEW id, NEW this, Defines(s, n, d, id, this)
    PROVE  /\ Keeps(s)
           /\ \A j \in DOMAIN text : BytesBefore(j)' = BytesBefore(j)
           /\ BytesBefore(this)' = at
           /\ (at = BytesBefore(Len(text) + 1))'
           /\ this \in DOMAIN text' /\ text'[this] = s /\ this \notin DOMAIN text
           /\ \A j \in DOMAIN text' : j = this \/ (j \in DOMAIN text /\ text'[j] = text[j])
           /\ LeavesOf(s.exprs) = {}
<1>1. /\ text' = Append(text, s) /\ this = This /\ s.is = "local" /\ at' = at
      /\ id = Slot(n, d + 1) /\ d = defined[n] /\ n \in Numbers /\ defined'[n] = d + 1
      /\ table'[id].span = this
      /\ \A k \in Numbers \ {n} : defined'[k] = defined[k]
      /\ DOMAIN table \subseteq DOMAIN table'
      /\ \A i \in DOMAIN table' : i = id \/ (i \in DOMAIN table /\ table'[i] = table[i])
  BY DEF Defines, This
<1>2. \A k \in Numbers :
        \/ defined'[k] = defined[k]
        \/ defined'[k] = defined[k] + 1 /\ table'[Slot(k, defined[k] + 1)].span = This
  BY <1>1
<1>3. \A i \in DOMAIN table :
        /\ i \in DOMAIN table'
        /\ table'[i] = table[i] \/ \E k \in Numbers : i = Slot(k, defined[k] + 1)
  BY <1>1
<1>4. Keeps(s)
  BY <1>1, <1>2, <1>3 DEF Keeps
<1>5. at' = at + BytesOf(s)
  BY <1>1 DEF BytesOf, Emitting, PlacesInv
<1>6. /\ \A j \in DOMAIN text : BytesBefore(j)' = BytesBefore(j)
      /\ BytesBefore(this)' = at
      /\ (at = BytesBefore(Len(text) + 1))'
  BY <1>1, <1>5, BytesStay
<1>7. /\ this \in DOMAIN text' /\ text'[this] = s /\ this \notin DOMAIN text
      /\ \A j \in DOMAIN text' : j = this \/ (j \in DOMAIN text /\ text'[j] = text[j])
  BY <1>1, TextGrows DEF This
<1>8. LeavesOf(s.exprs) = {}
  BY NothingThere DEF Defines
<1> QED
  BY <1>4, <1>6, <1>7, <1>8

(* The symbols there are stay known.                                       *)
LEMMA LocalPlacesKnown ==
    ASSUME PlacesInv, NEW s \in source.statements,
           NEW n, NEW d, NEW id, NEW this, Defines(s, n, d, id, this)
    PROVE  \A i \in DOMAIN table' : PlacesKnown(i)'
<1>1. /\ d \in Nat /\ d = defined[n] /\ defined'[n] = d + 1 /\ n \in Numbers
      /\ id = Slot(n, d + 1)
      /\ \A k \in Numbers \ {n} : defined'[k] = defined[k]
      /\ \A i \in DOMAIN table' : i = id \/ (i \in DOMAIN table /\ table'[i] = table[i])
      /\ text' = Append(text, s)
  BY DEF Defines
<1>2. ASSUME NEW m \in Numbers
      PROVE  \A k \in 1..defined[m] + 1 : k \in 1..defined'[m] + 1
  BY <1>1
<1>3. ASSUME NEW i \in DOMAIN table', i = id
      PROVE  PlacesKnown(i)'
  BY <1>1, <1>3 DEF PlacesKnown
<1>4. ASSUME NEW i \in DOMAIN table, table'[i] = table[i]
      PROVE  PlacesKnown(i)'
  <2>1. PlacesKnown(i)
    BY DEF PlacesInv
  <2>2. CASE IsName(i)
    BY <2>2 DEF PlacesKnown
  <2>3. CASE \E m \in Numbers : \E k \in 1..defined[m] + 1 : i = Slot(m, k)
    BY <1>2, <2>3 DEF PlacesKnown
  <2>4. ASSUME NEW j \in DOMAIN text, NEW k \in DOMAIN text[j].exprs, i = HereAt(j, k),
               table[i].is = "label", table[i].at = BytesBefore(j) + k - 1
        PROVE  PlacesKnown(i)'
    BY <1>1, <1>4, <2>4, TextGrows, LocalKeeps DEF PlacesKnown
  <2> QED
    BY <2>1, <2>2, <2>3, <2>4 DEF PlacesKnown
<1> QED
  BY <1>1, <1>3, <1>4

(* The slots of the other numbers stay.                                    *)
LEMMA OtherSlotsStayKept ==
    ASSUME PlacesInv, NEW s \in source.statements,
           NEW n, NEW d, NEW id, NEW this, Defines(s, n, d, id, this),
           NEW m \in Numbers, m # n
    PROVE  defined'[m] \in Nat /\ SlotsDefined(m)' /\ NextSlotAwaited(m)' /\ AwaitedSlotsKept(m)'
<1>1. /\ defined'[m] = defined[m] /\ id = Slot(n, d + 1) /\ s.n = n
      /\ DOMAIN table \subseteq DOMAIN table'
      /\ \A i \in DOMAIN table' : i = id \/ (i \in DOMAIN table /\ table'[i] = table[i])
      /\ text' = Append(text, s)
  BY DEF Defines
<1>2. /\ Keeps(s)
      /\ \A j \in DOMAIN text : BytesBefore(j)' = BytesBefore(j)
      /\ \A j \in DOMAIN text' : j = this \/ (j \in DOMAIN text /\ text'[j] = text[j])
      /\ text'[this] = s /\ LeavesOf(s.exprs) = {}
  BY LocalKeeps
<1>3. \A k : /\ Slot(m, k) \in DOMAIN table' <=> Slot(m, k) \in DOMAIN table
             /\ Slot(m, k) \in DOMAIN table => table'[Slot(m, k)] = table[Slot(m, k)]
  BY <1>1, KindsDiffer
<1>4. /\ defined[m] \in Nat /\ SlotsDefined(m) /\ NextSlotAwaited(m) /\ AwaitedSlotsKept(m)
  BY DEF PlacesInv, SlotsKept
<1>5. LocalsNamed(m)' = LocalsNamed(m) /\ LocalsNamed(m) \subseteq DOMAIN text
  BY <1>1, LocalsStay
<1>6. PICK last \in Nat : last = defined[m] /\ last = defined'[m]
  BY <1>1, <1>4
<1>7. ASSUME NEW k \in 1..last
      PROVE  /\ Slot(m, k) \in DOMAIN table' /\ table'[Slot(m, k)] = table[Slot(m, k)]
             /\ Span(m, k)' = Span(m, k) /\ Span(m, k) \in LocalsNamed(m)
             /\ BytesBefore(Span(m, k))' = BytesBefore(Span(m, k))
  <2>1. /\ Slot(m, k) \in DOMAIN table' /\ table'[Slot(m, k)] = table[Slot(m, k)]
        /\ Span(m, k)' = Span(m, k) /\ Span(m, k) \in LocalsNamed(m)
    BY <1>2, <1>6, SlotsStay
  <2>2. PICK j : j = Span(m, k)
    OBVIOUS
  <2>3. BytesBefore(j)' = BytesBefore(j)
    BY <1>2, <1>5, <2>1, <2>2
  <2> QED
    BY <2>1, <2>2, <2>3
<1>8. SlotsDefined(m)'
  <2>1. ASSUME NEW k \in 1..last
        PROVE  /\ Slot(m, k) \in DOMAIN table'
               /\ table'[Slot(m, k)].is = "label"
               /\ Span(m, k)' \in LocalsNamed(m)'
               /\ table'[Slot(m, k)].at = BytesBefore(Span(m, k))'
    BY <1>4, <1>5, <1>6, <1>7 DEF SlotsDefined
  <2>2. ASSUME NEW k \in 1..last, NEW l \in 1..k - 1
        PROVE  Span(m, l)' < Span(m, k)'
    BY <1>4, <1>6, <1>7 DEF SlotsDefined
  <2>3. \A j \in LocalsNamed(m)' : \E k \in 1..last : Span(m, k)' = j
    BY <1>4, <1>5, <1>6, <1>7 DEF SlotsDefined
  <2> QED
    BY <1>6, <2>1, <2>2, <2>3 DEF SlotsDefined
<1>9. NextSlotAwaited(m)'
  <2>1. ASSUME Slot(m, last + 1) \in DOMAIN table'
        PROVE  /\ table'[Slot(m, last + 1)].is = "undefined"
               /\ \E j \in DOMAIN text' :
                     Forward(m) \in LeavesOf(text'[j].exprs) /\ Before(m, j, last)'
    <3>1. /\ table'[Slot(m, last + 1)] = table[Slot(m, last + 1)]
          /\ Slot(m, last + 1) \in DOMAIN table
      BY <1>3, <2>1
    <3>2. table[Slot(m, last + 1)].is = "undefined"
      BY <1>4, <1>6, <3>1 DEF NextSlotAwaited
    <3>3. PICK j \in DOMAIN text : Forward(m) \in LeavesOf(text[j].exprs) /\ Before(m, j, last)
      BY <1>4, <1>6, <3>1 DEF NextSlotAwaited
    <3>4. Before(m, j, last)' /\ j \in DOMAIN text' /\ text'[j] = text[j]
      BY <1>1, <1>2, <3>3, BeforeStays, TextGrows
    <3> QED
      BY <3>1, <3>2, <3>3, <3>4
  <2> QED
    BY <1>6, <2>1 DEF NextSlotAwaited
<1>10. AwaitedSlotsKept(m)'
  <2>1. ASSUME NEW j \in DOMAIN text', Forward(m) \in LeavesOf(text'[j].exprs)
        PROVE  \E l \in 0..last : Before(m, j, l)' /\ Slot(m, l + 1) \in DOMAIN table'
    <3>1. j \in DOMAIN text /\ text'[j] = text[j]
      BY <1>2, <2>1
    <3>2. PICK l \in 0..last : Before(m, j, l) /\ Slot(m, l + 1) \in DOMAIN table
      BY <1>4, <1>6, <2>1, <3>1 DEF AwaitedSlotsKept
    <3>3. Before(m, j, l)'
      BY <1>2, <3>1, <3>2, BeforeStays
    <3> QED
      BY <1>3, <3>2, <3>3
  <2> QED
    BY <1>6, <2>1 DEF AwaitedSlotsKept
<1> QED
  BY <1>4, <1>6, <1>8, <1>9, <1>10

(* Those of the label's number gain one.                                   *)
LEMMA OwnSlotsStayKept ==
    ASSUME PlacesInv, NEW s \in source.statements,
           NEW n, NEW d, NEW id, NEW this, Defines(s, n, d, id, this)
    PROVE  defined'[n] \in Nat /\ SlotsDefined(n)' /\ NextSlotAwaited(n)' /\ AwaitedSlotsKept(n)'
<1>1. /\ n \in Numbers /\ d \in Nat /\ d = defined[n] /\ defined'[n] = d + 1
      /\ id = Slot(n, d + 1) /\ id \in DOMAIN table'
      /\ this = Len(text) + 1 /\ s.is = "local" /\ s.n = n
      /\ table'[id].is = "label" /\ table'[id].at = at /\ table'[id].span = this
      /\ DOMAIN table \subseteq DOMAIN table'
      /\ \A i \in DOMAIN table' : i = id \/ (i \in DOMAIN table /\ table'[i] = table[i])
      /\ text' = Append(text, s)
  BY DEF Defines
<1>2. /\ Keeps(s)
      /\ \A j \in DOMAIN text : BytesBefore(j)' = BytesBefore(j)
      /\ BytesBefore(this)' = at
      /\ this \in DOMAIN text' /\ text'[this] = s /\ LeavesOf(s.exprs) = {}
      /\ \A j \in DOMAIN text' : j = this \/ (j \in DOMAIN text /\ text'[j] = text[j])
  BY LocalKeeps
<1>3. SlotsDefined(n) /\ NextSlotAwaited(n) /\ AwaitedSlotsKept(n)
  BY <1>1 DEF PlacesInv, SlotsKept
<1>4. /\ LocalsNamed(n)' = LocalsNamed(n) \cup {this} /\ LocalsNamed(n) \subseteq DOMAIN text
      /\ DOMAIN text = 1..this - 1 /\ this \in Nat
  BY <1>1, LocalsStay, TextGrows DEF This
<1>5. ASSUME NEW k \in 1..d
      PROVE  /\ Slot(n, k) \in DOMAIN table' /\ table'[Slot(n, k)] = table[Slot(n, k)]
             /\ Span(n, k)' = Span(n, k) /\ Span(n, k) \in LocalsNamed(n)
             /\ BytesBefore(Span(n, k))' = BytesBefore(Span(n, k))
             /\ Span(n, k) \in 1..this - 1
  <2>1. /\ Slot(n, k) \in DOMAIN table' /\ table'[Slot(n, k)] = table[Slot(n, k)]
        /\ Span(n, k)' = Span(n, k) /\ Span(n, k) \in LocalsNamed(n)
    BY <1>1, <1>2, SlotsStay
  <2>2. PICK j : j = Span(n, k)
    OBVIOUS
  <2>3. BytesBefore(j)' = BytesBefore(j) /\ j \in 1..this - 1
    BY <1>2, <1>4, <2>1, <2>2
  <2> QED
    BY <2>1, <2>2, <2>3
<1>6. Span(n, d + 1)' = this
  BY <1>1 DEF Span
<1>7. PICK last : last = d + 1 /\ last = defined'[n]
  BY <1>1
<1>8. SlotsDefined(n)'
  <2>1. ASSUME NEW k \in 1..last
        PROVE  /\ Slot(n, k) \in DOMAIN table'
               /\ table'[Slot(n, k)].is = "label"
               /\ Span(n, k)' \in LocalsNamed(n)'
               /\ table'[Slot(n, k)].at = BytesBefore(Span(n, k))'
    <3>1. CASE k \in 1..d
      BY <1>1, <1>3, <1>4, <1>5, <3>1 DEF SlotsDefined
    <3>2. CASE k = last
      BY <1>1, <1>2, <1>4, <1>6, <1>7, <3>2
    <3>3. k \in 1..d \/ k = last
      BY <1>1, <1>7
    <3> QED
      BY <3>1, <3>2, <3>3
  <2>2. ASSUME NEW k \in 1..last, NEW l \in 1..k - 1
        PROVE  Span(n, l)' < Span(n, k)'
    <3>1. l \in 1..d
      BY <1>1, <1>7
    <3>2. CASE k \in 1..d
      BY <1>1, <1>3, <1>5, <3>1, <3>2 DEF SlotsDefined
    <3>3. CASE k = last
      BY <1>4, <1>5, <1>6, <1>7, <3>1, <3>3
    <3>4. k \in 1..d \/ k = last
      BY <1>1, <1>7
    <3> QED
      BY <3>2, <3>3, <3>4
  <2>3. ASSUME NEW j \in LocalsNamed(n)'
        PROVE  \E k \in 1..last : Span(n, k)' = j
    <3>1. CASE j \in LocalsNamed(n)
      <4>1. PICK k \in 1..d : Span(n, k) = j
        BY <1>1, <1>3, <3>1 DEF SlotsDefined
      <4>2. k \in 1..last /\ Span(n, k)' = j
        BY <1>1, <1>5, <1>7, <4>1
      <4> QED
        BY <4>2
    <3>2. CASE j = this
      BY <1>1, <1>6, <1>7, <3>2
    <3> QED
      BY <1>4, <3>1, <3>2
  <2> QED
    BY <1>7, <2>1, <2>2, <2>3 DEF SlotsDefined
<1>9. NextSlotAwaited(n)'
  <2>1. Slot(n, last + 1) \notin DOMAIN table'
    <3>1. ASSUME Slot(n, last + 1) \in DOMAIN table
          PROVE  FALSE
      BY <1>1, <1>7, <3>1, KindsDiffer DEF PlacesInv, PlacesKnown
    <3>2. Slot(n, last + 1) # id
      BY <1>1, <1>7, KindsDiffer
    <3> QED
      BY <1>1, <3>1, <3>2
  <2> QED
    BY <1>7, <2>1 DEF NextSlotAwaited
<1>10. AwaitedSlotsKept(n)'
  <2>1. ASSUME NEW j \in DOMAIN text', Forward(n) \in LeavesOf(text'[j].exprs)
        PROVE  \E l \in 0..last : Before(n, j, l)' /\ Slot(n, l + 1) \in DOMAIN table'
    <3>1. j \in DOMAIN text /\ text'[j] = text[j]
      BY <1>2, <2>1
    <3>2. PICK l \in 0..d : Before(n, j, l) /\ Slot(n, l + 1) \in DOMAIN table
      BY <1>1, <1>3, <2>1, <3>1 DEF AwaitedSlotsKept
    <3>3. Before(n, j, l)'
      BY <1>1, <1>2, <3>1, <3>2, BeforeStays
    <3>4. l \in 0..last
      BY <1>1, <1>7
    <3> QED
      BY <1>1, <3>2, <3>3, <3>4
  <2> QED
    BY <1>7, <2>1 DEF AwaitedSlotsKept
<1>11. last \in Nat
  BY <1>1, <1>7
<1> QED
  BY <1>7, <1>8, <1>9, <1>10, <1>11

(* Nothing is reported.                                                    *)
LEMMA LocalErrorsStayKept ==
    ASSUME PlacesInv, NEW s \in source.statements,
           NEW n, NEW d, NEW id, NEW this, Defines(s, n, d, id, this)
    PROVE  ErrorsKept'
<1>1. /\ phase = "reading" /\ phase' = "reading" /\ errors' = errors /\ ErrorsKept
      /\ text' = Append(text, s)
  BY DEF Defines, PlacesInv
<1>2. /\ Keeps(s) /\ text'[this] = s /\ LeavesOf(s.exprs) = {}
      /\ \A j \in DOMAIN text' : j = this \/ (j \in DOMAIN text /\ text'[j] = text[j])
  BY LocalKeeps
<1>3. ASSUME AskedInVain
      PROVE  AskedInVain'
  <2>1. PICK j \in DOMAIN text, m \in Numbers :
          Backward(m) \in LeavesOf(text[j].exprs) /\ Before(m, j, 0)
    BY <1>3 DEF AskedInVain
  <2>2. Before(m, j, 0)' /\ j \in DOMAIN text' /\ text'[j] = text[j]
    BY <1>1, <1>2, <2>1, BeforeStays, TextGrows
  <2> QED
    BY <2>1, <2>2 DEF AskedInVain
<1>4. ASSUME AskedInVain'
      PROVE  AskedInVain
  <2>1. PICK j \in DOMAIN text', m \in Numbers :
          Backward(m) \in LeavesOf(text'[j].exprs) /\ Before(m, j, 0)'
    BY <1>4 DEF AskedInVain
  <2>2. j \in DOMAIN text /\ text'[j] = text[j]
    BY <1>2, <2>1
  <2>3. Before(m, j, 0)
    BY <1>2, <2>1, <2>2, BeforeStays
  <2> QED
    BY <2>1, <2>2, <2>3 DEF AskedInVain
<1> QED
  BY <1>1, <1>3, <1>4 DEF ErrorsKept, Done

(* So a local label keeps the invariant.                                   *)
LEMMA LocalKeepsPlaces ==
    ASSUME PlacesInv, NEW s \in source.statements, DefineLocal(s), IInv'
    PROVE  PlacesInv'
<1>1. PICK n, d, id, this : n = s.n /\ d = defined[n] /\ id = Slot(n, d + 1) /\ this = This
  OBVIOUS
<1>2. Defines(s, n, d, id, this)
  BY <1>1, LocalDefines
<1>3. /\ text' = Append(text, s) /\ source' = source /\ phase' = "reading"
      /\ at' = at /\ uses' = uses
      /\ defined' = [k \in Numbers |-> defined'[k]]
      /\ table'[id].is = "label"
      /\ \A i \in DOMAIN table' : i = id \/ (i \in DOMAIN table /\ table'[i] = table[i])
  BY <1>2 DEF Defines
<1>4. Keeps(s) /\ (at = BytesBefore(Len(text) + 1))'
  BY <1>2, LocalKeeps
<1>5. text' \in Seq(source'.statements)
  BY <1>3, TextGrows
<1>6. SlotsKept'
  BY <1>2, OtherSlotsStayKept, OwnSlotsStayKept DEF SlotsKept
<1>7. UsesResolved'
  <2>1. ASSUME NEW i \in DOMAIN uses'
        PROVE  ExprIsResolved(uses[i].written, uses[i].expr, uses[i].span, uses[i].item)'
    <3>1. PICK w, b, j, m :
            w = uses[i].written /\ b = uses[i].expr /\ j = uses[i].span /\ m = uses[i].item
      OBVIOUS
    <3>2. ExprIsResolved(w, b, j, m)
      BY <1>3, <2>1, <3>1 DEF PlacesInv, UsesResolved
    <3>3. ExprIsResolved(w, b, j, m)'
      BY <1>4, <3>2, ExprResolvedStays
    <3> QED
      BY <1>3, <3>1, <3>3
  <2> QED
    BY <2>1 DEF UsesResolved
<1>8. DefinitionsResolved'
  <2>1. ASSUME NEW i \in DOMAIN table', table'[i].is = "expr", table'[i].span # 0
        PROVE  /\ table'[i].span \in DOMAIN text'
               /\ ExprIsResolved(text[table[i].span].exprs[1], table[i].expr, table[i].span, 1)'
    <3>1. i \in DOMAIN table /\ table'[i] = table[i]
      BY <1>3, <2>1
    <3>2. PICK j, b : j = table[i].span /\ b = table[i].expr
      OBVIOUS
    <3>3. j \in DOMAIN text /\ ExprIsResolved(text[j].exprs[1], b, j, 1)
      BY <2>1, <3>1, <3>2 DEF PlacesInv, DefinitionsResolved
    <3>4. j \in DOMAIN text' /\ text'[j] = text[j]
      BY <1>3, <3>3, TextGrows
    <3>5. PICK w : w = text[j].exprs[1]
      OBVIOUS
    <3>6. ExprIsResolved(w, b, j, 1)'
      BY <1>4, <3>3, <3>5, ExprResolvedStays
    <3> QED
      BY <3>1, <3>2, <3>4, <3>5, <3>6
  <2> QED
    BY <2>1 DEF DefinitionsResolved
<1>9. (\A i \in DOMAIN table : PlacesKnown(i))' /\ ErrorsKept'
  BY <1>2, LocalPlacesKnown, LocalErrorsStayKept
<1>10. at' \in Nat /\ IsSeq(uses)' /\ phase' \in {"reading", "done"}
  BY <1>3 DEF PlacesInv, IsSeq
<1> QED
  BY <1>3, <1>4, <1>5, <1>6, <1>7, <1>8, <1>9, <1>10 DEF PlacesInv

(* All but the reports are about the text, the table and the uses.         *)
LEMMA UntouchedPlaces ==
    ASSUME PlacesInv, UNCHANGED <<source, text, table, defined, at, uses>>
    PROVE  /\ text' \in Seq(source'.statements)
           /\ IsSeq(uses)'
           /\ at' \in Nat
           /\ (defined = [n \in Numbers |-> defined[n]])'
           /\ (at = BytesBefore(Len(text) + 1))'
           /\ (\A id \in DOMAIN table : PlacesKnown(id))'
           /\ SlotsKept' /\ UsesResolved' /\ DefinitionsResolved'
           /\ AskedInVain' <=> AskedInVain
           /\ UndefinedLocals(table)' = UndefinedLocals(table)
<1>1. /\ source' = source /\ text' = text /\ table' = table /\ defined' = defined
      /\ at' = at /\ uses' = uses
  OBVIOUS
<1>2. \A j : BytesBefore(j)' = BytesBefore(j)
  BY <1>1 DEF BytesBefore, BytesOf
<1>3. \A n, j, d : Before(n, j, d)' <=> Before(n, j, d)
  BY <1>1 DEF Before, Span
<1>4. (\A id \in DOMAIN table : PlacesKnown(id))'
  BY <1>1, <1>2 DEF PlacesInv, PlacesKnown
<1>5. SlotsKept'
  <2>1. ASSUME NEW n \in Numbers
        PROVE  SlotsDefined(n)' /\ NextSlotAwaited(n)' /\ AwaitedSlotsKept(n)'
    <3>1. SlotsDefined(n) /\ NextSlotAwaited(n) /\ AwaitedSlotsKept(n)
      BY DEF PlacesInv, SlotsKept
    <3>2. SlotsDefined(n)'
      BY <1>1, <1>2, <3>1 DEF SlotsDefined, Span, LocalsNamed
    <3>3. NextSlotAwaited(n)'
      BY <1>1, <1>3, <3>1 DEF NextSlotAwaited
    <3>4. AwaitedSlotsKept(n)'
      BY <1>1, <1>3, <3>1 DEF AwaitedSlotsKept
    <3> QED
      BY <3>2, <3>3, <3>4
  <2> QED
    BY <1>1, <2>1 DEF PlacesInv, SlotsKept
<1>6. \A w, b, j, i : ExprIsResolved(w, b, j, i)' <=> ExprIsResolved(w, b, j, i)
  BY <1>1, <1>3 DEF ExprIsResolved, IsResolved
<1>7. UsesResolved'
  BY <1>1, <1>6 DEF PlacesInv, UsesResolved
<1>8. DefinitionsResolved'
  BY <1>1, <1>6 DEF PlacesInv, DefinitionsResolved
<1>9. AskedInVain' <=> AskedInVain
  BY <1>1, <1>3 DEF AskedInVain
<1>10. UndefinedLocals(table)' = UndefinedLocals(table)
  BY <1>1 DEF UndefinedLocals
<1>11. text' \in Seq(source'.statements) /\ IsSeq(uses)' /\ at' \in Nat
       /\ (defined = [n \in Numbers |-> defined[n]])'
  BY <1>1 DEF PlacesInv, IsSeq
<1>12. (at = BytesBefore(Len(text) + 1))'
  BY <1>1, <1>2 DEF PlacesInv
<1> QED
  BY <1>4, <1>5, <1>7, <1>8, <1>9, <1>10, <1>11, <1>12

(* The end of the source reports the labels still awaited.                 *)
LEMMA FinishKeepsPlaces ==
    ASSUME PlacesInv, Finish, IInv'
    PROVE  PlacesInv'
<1> DEFINE locals == {<<"no local", id>> : id \in UndefinedLocals(table)}
           values == {<<"no value", i>> : i \in {j \in DOMAIN uses : image'[j] = Unresolved}}
<1>1. /\ phase = "reading" /\ phase' = "done"
      /\ errors' = errors \cup locals \cup values
      /\ UNCHANGED <<source, text, table, defined, at, uses>>
  BY DEF Finish
<1>2. \A e \in locals : e[1] = "no local"
  <2>1. \A id : <<"no local", id>>[1] = "no local"
    OBVIOUS
  <2>2. \A e \in locals : \E id : e = <<"no local", id>>
    OBVIOUS
  <2> HIDE DEF locals
  <2> QED
    BY <2>1, <2>2
<1>3. \A e \in values : e[1] = "no value"
  <2>1. \A i : <<"no value", i>>[1] = "no value"
    OBVIOUS
  <2>2. \A e \in values : \E i : e = <<"no value", i>>
    OBVIOUS
  <2> HIDE DEF values
  <2> QED
    BY <2>1, <2>2
<1>4. locals # {} <=> UndefinedLocals(table) # {}
  OBVIOUS
<1> HIDE DEF locals, values
<1>5. "no local" # "no previous" /\ "no value" # "no previous" /\ "no value" # "no local"
  OBVIOUS
<1>6. ~ \E e \in errors : e[1] = "no local"
  BY <1>1 DEF PlacesInv, ErrorsKept, Done
<1>7. (\E e \in errors' : e[1] = "no local") <=> UndefinedLocals(table) # {}
  BY <1>1, <1>2, <1>3, <1>4, <1>5, <1>6
<1>8. (\E e \in errors' : e[1] = "no previous") <=> AskedInVain
  BY <1>1, <1>2, <1>3, <1>5 DEF PlacesInv, ErrorsKept
<1>9. ErrorsKept'
  BY <1>1, <1>7, <1>8, UntouchedPlaces DEF ErrorsKept, Done
<1> QED
  BY <1>1, <1>9, UntouchedPlaces DEF PlacesInv

(* Every step keeps the invariant.                                         *)
LEMMA NextKeepsPlaces == PlacesInv /\ [Next]_vars => PlacesInv'
<1> SUFFICES ASSUME PlacesInv, [Next]_vars PROVE PlacesInv'
  OBVIOUS
<1>1. IInv'
  BY NextGood DEF PlacesInv
<1>2. CASE \E s \in source.statements :
             DefineLabel(s) \/ DefineLocal(s) \/ DirSet(s) \/ Assign(s) \/ DirSize(s)
               \/ DirComm(s) \/ DirData(s) \/ Operand(s)
  <2> PICK s \in source.statements :
        DefineLabel(s) \/ DefineLocal(s) \/ DirSet(s) \/ Assign(s) \/ DirSize(s)
          \/ DirComm(s) \/ DirData(s) \/ Operand(s)
    BY <1>2
  <2>1. CASE DefineLocal(s)
    BY <1>1, <2>1, LocalKeepsPlaces
  <2>2. CASE DefineLabel(s)
    BY <1>1, <2>2, LabelReads, ReadsKeepsPlaces
  <2>3. CASE DirSet(s)
    BY <1>1, <2>3, SetReads, ReadsKeepsPlaces
  <2>4. CASE Assign(s)
    BY <1>1, <2>4, AssignReads, ReadsKeepsPlaces
  <2>5. CASE DirSize(s)
    BY <1>1, <2>5, SizeReads, ReadsKeepsPlaces
  <2>6. CASE DirComm(s)
    BY <1>1, <2>6, CommReads, ReadsKeepsPlaces
  <2>7. CASE DirData(s) \/ Operand(s)
    BY <1>1, <2>7, EmitReads, ReadsKeepsPlaces
  <2> QED
    BY <2>1, <2>2, <2>3, <2>4, <2>5, <2>6, <2>7
<1>3. CASE Finish
  BY <1>1, <1>3, FinishKeepsPlaces
<1>4. CASE UNCHANGED vars
  BY <1>1, <1>4, UntouchedPlaces DEF vars, PlacesInv, ErrorsKept, Done
<1> QED
  BY <1>2, <1>3, <1>4 DEF Next

(* Nothing is read at first.                                               *)
LEMMA InitPlaces == Init => PlacesInv
<1> SUFFICES ASSUME Init PROVE PlacesInv
  OBVIOUS
<1>1. /\ source \in Sources /\ text = <<>> /\ uses = <<>> /\ errors = {} /\ at = 0
      /\ phase = "reading" /\ defined = [n \in Numbers |-> 0]
      /\ DOMAIN table = source.predefined
      /\ \A id \in DOMAIN table : table[id] = AsExpr(Mentioned, Just(Number(7)), 0)
  BY DEF Init
<1>2. IInv
  BY InitGood
<1>3. /\ Len(text) = 0 /\ DOMAIN text = {} /\ text \in Seq(source.statements)
      /\ DOMAIN uses = {} /\ IsSeq(uses)
  BY <1>1 DEF IsSeq
<1>4. at = BytesBefore(Len(text) + 1)
  BY <1>1, <1>3, NothingBefore
<1>5. \A id \in DOMAIN table : IsName(id)
  BY <1>1, SourcesAssumption
<1>6. \A id \in DOMAIN table : table[id].span = 0
  BY <1>1 DEF AsExpr, Mentioned
<1>7. SlotsKept
  <2>1. ASSUME NEW n \in Numbers
        PROVE  defined[n] = 0 /\ Slot(n, 0 + 1) \notin DOMAIN table /\ LocalsNamed(n) = {}
    BY <1>1, <1>3, <1>5, KindsDiffer DEF LocalsNamed
  <2> QED
    BY <1>3, <2>1 DEF SlotsKept, SlotsDefined, NextSlotAwaited, AwaitedSlotsKept
<1>8. ErrorsKept
  BY <1>1, <1>3 DEF ErrorsKept, AskedInVain, Done
<1> QED
  BY <1>1, <1>2, <1>3, <1>4, <1>5, <1>6, <1>7, <1>8
     DEF PlacesInv, PlacesKnown, UsesResolved, DefinitionsResolved

-----------------------------------------------------------------------------
(***************************************************************************)
(* What the invariant says of references.                                  *)
(***************************************************************************)

(* The labels of a number, by their slots.                                 *)
LEMMA LabelsAreSlots ==
    ASSUME PlacesInv, NEW n \in Numbers
    PROVE  /\ defined[n] \in Nat
           /\ LocalsNamed(n) \subseteq DOMAIN text
           /\ \A j \in DOMAIN text : j \in Nat
           /\ \A k \in 1..defined[n] : Span(n, k) \in LocalsNamed(n) /\ Span(n, k) \in Nat
           /\ \A j \in LocalsNamed(n) : \E k \in 1..defined[n] : Span(n, k) = j
<1>1. text \in Seq(source.statements) /\ defined[n] \in Nat /\ SlotsDefined(n)
  BY DEF PlacesInv, SlotsKept
<1>2. DOMAIN text = 1..Len(text) /\ Len(text) \in Nat
  BY <1>1, LenProperties
<1>3. \A j \in DOMAIN text : j \in Nat
  BY <1>2
<1>4. LocalsNamed(n) \subseteq DOMAIN text
  BY DEF LocalsNamed
<1> QED
  BY <1>1, <1>3, <1>4 DEF SlotsDefined

(* The last label before a statement, if there is one, is that of slot     *)
(* "d".                                                                    *)
LEMMA BackwardFinds ==
    ASSUME PlacesInv, NEW n \in Numbers, NEW j \in DOMAIN text, NEW d, Before(n, j, d)
    PROVE  /\ d = 0 => Candidates(Backward(n), j) = {}
           /\ d # 0 => /\ Candidates(Backward(n), j) # {}
                       /\ Latest(Candidates(Backward(n), j)) = Span(n, d)
                       /\ d \in 1..defined[n]
<1> DEFINE there == {k \in LocalsNamed(n) : k < j}
<1>1. Candidates(Backward(n), j) = there
  BY DEF Candidates, Backward
<1>2. /\ defined[n] \in Nat /\ d \in 0..defined[n] /\ j \in Nat
      /\ \A k \in 1..defined[n] : Span(n, k) \in LocalsNamed(n) /\ Span(n, k) \in Nat
      /\ \A k \in LocalsNamed(n) : \E l \in 1..defined[n] : Span(n, l) = k
      /\ \A k \in 1..d : Span(n, k) < j
      /\ \A k \in d + 1..defined[n] : j < Span(n, k)
  BY LabelsAreSlots DEF Before
<1>3. ASSUME NEW k \in there
      PROVE  k \in Nat /\ \E l \in 1..d : Span(n, l) = k
  <2>1. PICK l \in 1..defined[n] : Span(n, l) = k
    BY <1>2
  <2>2. k \in Nat /\ k < j
    BY <1>2, <2>1
  <2>3. l \notin d + 1..defined[n]
    BY <1>2, <2>1, <2>2
  <2>4. l \in 1..d
    BY <1>2, <2>3
  <2> QED
    BY <2>1, <2>2, <2>4
<1>4. CASE d = 0
  BY <1>1, <1>3, <1>4
<1>5. CASE d # 0
  <2>1. d \in 1..defined[n] /\ d \in 1..d
    BY <1>2, <1>5
  <2>2. Span(n, d) \in there /\ Span(n, d) \in Nat
    BY <1>2, <2>1
  <2>3. ASSUME NEW k \in there
        PROVE  k <= Span(n, d)
    <3>1. PICK l \in 1..d : Span(n, l) = k
      BY <1>3
    <3>2. CASE l = d
      BY <2>2, <3>1, <3>2
    <3>3. CASE l # d
      BY <1>2, <2>1, <2>2, <3>1, <3>3 DEF PlacesInv, SlotsKept, SlotsDefined
    <3> QED
      BY <3>2, <3>3
  <2>4. ASSUME NEW k \in there, \A l \in there : l <= k
        PROVE  k = Span(n, d)
    BY <1>3, <2>2, <2>3, <2>4
  <2> HIDE DEF there
  <2>5. Latest(there) = Span(n, d)
    BY <2>2, <2>3, <2>4 DEF Latest
  <2> QED
    BY <1>1, <1>5, <2>1, <2>2, <2>5
<1> QED
  BY <1>4, <1>5

(* The first label after it is that of the slot after.                     *)
LEMMA ForwardFinds ==
    ASSUME PlacesInv, NEW n \in Numbers, NEW j \in DOMAIN text, NEW d, Before(n, j, d)
    PROVE  /\ d \in 0..defined[n]
           /\ d = defined[n] => Candidates(Forward(n), j) = {}
           /\ d # defined[n] => /\ Candidates(Forward(n), j) # {}
                                /\ Earliest(Candidates(Forward(n), j)) = Span(n, d + 1)
                                /\ d + 1 \in 1..defined[n]
<1> DEFINE there == {k \in LocalsNamed(n) : k > j}
<1>1. Candidates(Forward(n), j) = there
  BY DEF Candidates, Forward
<1>2. /\ defined[n] \in Nat /\ d \in 0..defined[n] /\ j \in Nat
      /\ \A k \in 1..defined[n] : Span(n, k) \in LocalsNamed(n) /\ Span(n, k) \in Nat
      /\ \A k \in LocalsNamed(n) : \E l \in 1..defined[n] : Span(n, l) = k
      /\ \A k \in 1..d : Span(n, k) < j
      /\ \A k \in d + 1..defined[n] : j < Span(n, k)
  BY LabelsAreSlots DEF Before
<1>3. ASSUME NEW k \in there
      PROVE  k \in Nat /\ \E l \in d + 1..defined[n] : Span(n, l) = k
  <2>1. PICK l \in 1..defined[n] : Span(n, l) = k
    BY <1>2
  <2>2. k \in Nat /\ j < k
    BY <1>2, <2>1
  <2>3. l \notin 1..d
    BY <1>2, <2>1, <2>2
  <2>4. l \in d + 1..defined[n]
    BY <1>2, <2>3
  <2> QED
    BY <2>1, <2>2, <2>4
<1>4. CASE d = defined[n]
  BY <1>1, <1>2, <1>3, <1>4
<1>5. CASE d # defined[n]
  <2>1. d + 1 \in 1..defined[n] /\ d + 1 \in d + 1..defined[n]
    BY <1>2, <1>5
  <2>2. Span(n, d + 1) \in there /\ Span(n, d + 1) \in Nat
    BY <1>2, <2>1
  <2>3. ASSUME NEW k \in there
        PROVE  Span(n, d + 1) <= k
    <3>1. PICK l \in d + 1..defined[n] : Span(n, l) = k
      BY <1>3
    <3>2. CASE l = d + 1
      BY <2>2, <3>1, <3>2
    <3>3. CASE l # d + 1
      <4>1. d + 1 \in 1..l - 1 /\ l \in 1..defined[n]
        BY <1>2, <3>3
      <4>2. Span(n, d + 1) < Span(n, l)
        BY <4>1 DEF PlacesInv, SlotsKept, SlotsDefined
      <4> QED
        BY <1>2, <2>2, <3>1, <4>1, <4>2
    <3> QED
      BY <3>2, <3>3
  <2>4. ASSUME NEW k \in there, \A l \in there : k <= l
        PROVE  k = Span(n, d + 1)
    BY <1>3, <2>2, <2>3, <2>4
  <2> HIDE DEF there
  <2>5. Earliest(there) = Span(n, d + 1)
    BY <2>2, <2>3, <2>4 DEF Earliest
  <2> QED
    BY <1>1, <1>2, <1>5, <2>1, <2>2, <2>5
<1> QED
  BY <1>4, <1>5

(* What was resolved is where it was written to be.                        *)
LEMMA ResolvedIsThere ==
    ASSUME PlacesInv, NEW written, NEW bound, NEW j, NEW item, IsResolved(written, bound, j, item)
    PROVE  BoundThere(written, bound, j, item)
<1> SUFFICES ASSUME IsPositional(written), ~IsNumber(bound)
             PROVE  BoundThere(written, bound, j, item)
  BY DEF BoundThere
<1>1. j \in DOMAIN text
  BY DEF IsResolved
<1>2. CASE written = Here /\ bound = HereAt(j, item) /\ bound \in DOMAIN table
  BY <1>2, KindsDiffer DEF PlacesInv, PlacesKnown, HasPlace, Place, BoundThere
<1>3. ASSUME NEW n \in Numbers, NEW d \in 0..defined[n], Before(n, j, d),
             written = Backward(n), bound = IF d = 0 THEN written ELSE Slot(n, d)
      PROVE  BoundThere(written, bound, j, item)
  <2>1. written # Here /\ written[1] = "backward"
    BY <1>3 DEF Here, Backward
  <2>2. CASE d = 0
    <3>1. ~HasPlace(written, j)
      BY <1>1, <1>3, <2>1, <2>2, BackwardFinds DEF HasPlace
    <3>2. bound[1] = "backward"
      BY <1>3, <2>1, <2>2
    <3>3. ~PlacesKnown(bound)
      BY <3>2 DEF IsName, Slot, HereAt, PlacesKnown
    <3>4. bound \notin DOMAIN table
      BY <3>3 DEF PlacesInv
    <3> QED
      BY <3>1, <3>4 DEF BoundThere
  <2>3. CASE d # 0
    BY <1>1, <1>3, <2>1, <2>3, BackwardFinds DEF HasPlace, Place, PlacesInv, SlotsKept,
       SlotsDefined, BoundThere
  <2> QED
    BY <2>2, <2>3
<1>4. ASSUME NEW n \in Numbers, NEW d \in 0..defined[n], Before(n, j, d),
             written = Forward(n), bound = Slot(n, d + 1)
      PROVE  BoundThere(written, bound, j, item)
  <2>1. written # Here /\ written[1] = "forward" /\ "forward" # "backward"
    BY <1>4 DEF Here, Forward
  <2>2. CASE d = defined[n]
    BY <1>1, <1>4, <2>1, <2>2, ForwardFinds DEF HasPlace, PlacesInv, SlotsKept,
       NextSlotAwaited, BoundThere
  <2>3. CASE d # defined[n]
    <3>1. PICK e : e = d + 1
      OBVIOUS
    <3>2. /\ Candidates(written, j) # {} /\ Earliest(Candidates(written, j)) = Span(n, e)
          /\ e \in 1..defined[n]
      BY <1>1, <1>4, <2>3, <3>1, ForwardFinds
    <3>3. HasPlace(written, j) /\ Place(written, j, item) = BytesBefore(Span(n, e))
      BY <2>1, <3>2 DEF HasPlace, Place
    <3>4. /\ bound = Slot(n, e) /\ bound \in DOMAIN table /\ table[bound].is = "label"
          /\ table[bound].at = BytesBefore(Span(n, e))
      BY <1>4, <3>1, <3>2 DEF PlacesInv, SlotsKept, SlotsDefined
    <3> QED
      BY <3>3, <3>4 DEF BoundThere
  <2> QED
    BY <2>2, <2>3
<1> QED
  BY <1>2, <1>3, <1>4 DEF IsResolved

(* A reference that has no label, before or after it, is reported.         *)
LEMMA UnplacedAreReported ==
    ASSUME PlacesInv, NEW j \in DOMAIN text, NEW leaf \in LeavesOf(text[j].exprs),
           leaf[1] \in {"forward", "backward"}, ~HasPlace(leaf, j)
    PROVE  AskedInVain \/ UndefinedLocals(table) # {}
<1>1. text[j] \in source.statements
  BY ElementOfSeq, LenProperties DEF PlacesInv
<1>2. IsWritten(leaf) /\ (text[j].is = "local" => text[j].exprs = <<>>)
  BY <1>1, StatementsAreWritten DEF PlacesInv, Expressionless
<1>3. text[j].is # "local"
  BY <1>2, NothingThere
<1>4. \A n \in Numbers : j \notin LocalsNamed(n)
  BY <1>3 DEF LocalsNamed
<1>5. PICK n \in Numbers : leaf \in {Forward(n), Backward(n)}
  BY <1>2 DEF IsWritten, IsNumber, IsName, Here
<1>6. Candidates(leaf, j) = {}
  BY DEF HasPlace
<1>7. /\ defined[n] \in Nat /\ j \in Nat
      /\ \A k \in 1..defined[n] : Span(n, k) \in LocalsNamed(n) /\ Span(n, k) \in Nat
  BY LabelsAreSlots
<1>8. CASE leaf = Backward(n)
  BY <1>4, <1>6, <1>7, <1>8 DEF Candidates, Backward, Before, AskedInVain
<1>9. CASE leaf = Forward(n)
  <2>1. PICK d \in 0..defined[n] : Before(n, j, d) /\ Slot(n, d + 1) \in DOMAIN table
    BY <1>9 DEF PlacesInv, SlotsKept, AwaitedSlotsKept
  <2>2. d = defined[n]
    BY <1>6, <1>9, <2>1, ForwardFinds
  <2>3. /\ Slot(n, d + 1)[1] = "slot" /\ Slot(n, d + 1)[2] = n /\ Slot(n, d + 1)[3] = d + 1
        /\ d + 1 > defined[n]
    BY <1>7, <2>2 DEF Slot
  <2>4. Slot(n, d + 1) \in UndefinedLocals(table)
    BY <2>1, <2>3 DEF UndefinedLocals
  <2> QED
    BY <2>4
<1> QED
  BY <1>5, <1>8, <1>9

(* And nothing else is.                                                    *)
LEMMA ReportedAreUnplaced ==
    ASSUME PlacesInv, AskedInVain \/ UndefinedLocals(table) # {}
    PROVE  \E j \in DOMAIN text : \E leaf \in LeavesOf(text[j].exprs) :
              leaf[1] \in {"forward", "backward"} /\ ~HasPlace(leaf, j)
<1>1. CASE AskedInVain
  <2>1. PICK j \in DOMAIN text, n \in Numbers :
          Backward(n) \in LeavesOf(text[j].exprs) /\ Before(n, j, 0)
    BY <1>1 DEF AskedInVain
  <2>2. Candidates(Backward(n), j) = {}
    BY <2>1, BackwardFinds
  <2>3. Backward(n)[1] = "backward" /\ Backward(n) # Here
    BY DEF Backward, Here
  <2> QED
    BY <2>1, <2>2, <2>3 DEF HasPlace
<1>2. CASE UndefinedLocals(table) # {}
  <2>1. PICK id \in DOMAIN table : id[1] = "slot" /\ id[3] > defined[id[2]]
    BY <1>2 DEF UndefinedLocals
  <2>2. PlacesKnown(id)
    BY <2>1 DEF PlacesInv
  <2>3. \A j, i : HereAt(j, i)[1] = "at"
    BY DEF HereAt
  <2>4. "at" # "slot" /\ "name" # "slot"
    OBVIOUS
  <2>5. PICK n \in Numbers : \E k \in 1..defined[n] + 1 : id = Slot(n, k)
    BY <2>1, <2>2, <2>3, <2>4 DEF PlacesKnown, IsName
  <2> PICK k \in 1..defined[n] + 1 : id = Slot(n, k)
    BY <2>5
  <2>6. id[2] = n /\ id[3] = k
    BY <2>5 DEF Slot
  <2>7. defined[n] \in Nat /\ NextSlotAwaited(n)
    BY DEF PlacesInv, SlotsKept
  <2>8. k = defined[n] + 1
    BY <2>1, <2>5, <2>6, <2>7
  <2>9. PICK j \in DOMAIN text : Forward(n) \in LeavesOf(text[j].exprs) /\ Before(n, j, defined[n])
    BY <2>1, <2>5, <2>7, <2>8 DEF NextSlotAwaited
  <2>10. Candidates(Forward(n), j) = {}
    <3>1. PICK d : d = defined[n]
      OBVIOUS
    <3>2. Before(n, j, d)
      BY <2>9, <3>1
    <3> QED
      BY <3>1, <3>2, ForwardFinds
  <2>11. Forward(n)[1] = "forward" /\ Forward(n) # Here
    BY DEF Forward, Here
  <2> QED
    BY <2>9, <2>10, <2>11 DEF HasPlace
<1> QED
  BY <1>1, <1>2

(* Whatever is read between a reference and its label, "." means the place *)
(* of its item, "1b" the last "1:" before its statement and "1f" the first *)
(* after it, and one without a label means none, for every source and of   *)
(* whatever length (local_backward, local_forward, local_define_slot,      *)
(* bind_positional).                                                       *)
THEOREM LocalsFindTheirPlace == Spec => []LocalsByPosition
<1>1. PlacesInv => LocalsByPosition
  <2> SUFFICES ASSUME PlacesInv, Done PROVE LocalsByPosition
    BY DEF LocalsByPosition
  <2>1. ASSUME NEW w, NEW b, NEW j, NEW i, ExprIsResolved(w, b, j, i)
        PROVE  ExprBoundThere(w, b, j, i)
    BY <2>1, ResolvedIsThere DEF ExprIsResolved, ExprBoundThere
  <2>2. ASSUME NEW i \in DOMAIN uses
        PROVE  ExprBoundThere(uses[i].written, uses[i].expr, uses[i].span, uses[i].item)
    BY <2>1 DEF PlacesInv, UsesResolved
  <2>3. ASSUME NEW id \in DOMAIN table, table[id].is = "expr", ~Predefined(table[id])
        PROVE  ExprBoundThere(text[table[id].span].exprs[1], table[id].expr, table[id].span, 1)
    BY <2>1, <2>3 DEF Predefined, IsDefined, PlacesInv, DefinitionsResolved
  <2> QED
    BY <2>2, <2>3 DEF LocalsByPosition
<1> QED
  BY InitPlaces, NextKeepsPlaces, <1>1, PTL DEF Spec

(* A source is refused for a missing label exactly if it refers to one     *)
(* that is not there (undefined_locals, report_undefined_locals).          *)
THEOREM OnlyMissingLocalsAreReported == Spec => []MissingLocalsReported
<1>1. PlacesInv => MissingLocalsReported
  <2> SUFFICES ASSUME PlacesInv, Done PROVE MissingLocalsReported
    BY DEF MissingLocalsReported
  <2>1. (\E e \in errors : e[1] \in {"no previous", "no local"})
          <=> AskedInVain \/ UndefinedLocals(table) # {}
    BY DEF PlacesInv, ErrorsKept
  <2> QED
    BY <2>1, UnplacedAreReported, ReportedAreUnplaced DEF MissingLocalsReported
<1> QED
  BY InitPlaces, NextKeepsPlaces, <1>1, PTL DEF Spec

-----------------------------------------------------------------------------
(***************************************************************************)
(* Numbers stay.  What is written as a number is one whatever the table    *)
(* is, so that all there is to show is that what was a number when it was  *)
(* read is written as one; and for that, that a name that is a number is   *)
(* replaced with the value that evaluating it would have found.            *)
(***************************************************************************)
Operators == {"+", "-", "*"}

IsComputable(e) ==
    /\ e.op \in Operators
    /\ IsNumber(e.l) => e.l[2] \in Int
    /\ IsNumber(e.r) => e.r[2] \in Int

OnlyNumbers(e) == IsComputable(e) /\ IsNumber(e.l) /\ IsNumber(e.r)

Arithmetic(e) ==
    IF e.op = "+" THEN e.l[2] + e.r[2]
    ELSE IF e.op = "-" THEN e.l[2] - e.r[2] ELSE e.l[2] * e.r[2]

SaysNumber(e, was) == OnlyNumbers(e) /\ was = <<Arithmetic(e)>>

(* A value is what the operators make of numbers and symbols.              *)
IsValue(v) == v = Failed \/ (v.addend \in Int /\ v = Value(v.plus, v.minus, v.addend))

(* The parts of a value.                                                   *)
LEMMA ValueParts ==
    /\ \A p, m, a : /\ Value(p, m, a).ok = TRUE
                    /\ Value(p, m, a).plus = p
                    /\ Value(p, m, a).minus = m
                    /\ Value(p, m, a).addend = a
    /\ Failed.ok = FALSE
BY DEF Value, Failed, Abs

(* What is made of parts is a value.                                       *)
LEMMA ValuesAre ==
    ASSUME NEW p, NEW m, NEW a \in Int
    PROVE  IsValue(Value(p, m, a))
BY ValueParts DEF IsValue

(* A value that has not failed has parts.                                  *)
LEMMA ValuesHave ==
    ASSUME NEW v, IsValue(v), v.ok
    PROVE  v = Value(v.plus, v.minus, v.addend) /\ v.addend \in Int
BY ValueParts DEF IsValue

(* Products of integers are integers.                                      *)
LEMMA ProductsAreIntegers == \A a, b \in Int : a * b \in Int
OBVIOUS

(* The operators make values of values.                                    *)
LEMMA BinaryIsValue ==
    ASSUME NEW op \in Operators, NEW l, IsValue(l), NEW r, IsValue(r)
    PROVE  IsValue(EvalBinary(op, l, r))
<1>1. IsValue(Failed)
  BY DEF IsValue
<1>2. CASE ~(l.ok /\ r.ok)
  BY <1>1, <1>2 DEF EvalBinary
<1>3. CASE l.ok /\ r.ok
  <2>1. l.addend \in Int /\ r.addend \in Int
    BY <1>3, ValuesHave
  <2>2. /\ l.addend + r.addend \in Int
        /\ l.addend - r.addend \in Int
        /\ l.addend * r.addend \in Int
    BY <2>1, ProductsAreIntegers
  <2>3. IsValue(EvalAdd(l, r))
    <3> DEFINE sum == l.addend + r.addend
    <3>1. sum \in Int
      BY <2>2
    <3> HIDE DEF sum
    <3>2. \/ EvalAdd(l, r) = Failed
          \/ \E p, m : EvalAdd(l, r) = Value(p, m, sum)
      BY DEF EvalAdd, sum
    <3> QED
      BY <1>1, <3>1, <3>2, ValuesAre
  <2>4. IsValue(EvalSub(l, r))
    <3> DEFINE difference == l.addend - r.addend
    <3>1. difference \in Int
      BY <2>2
    <3> HIDE DEF difference
    <3>2. \/ EvalSub(l, r) = Failed
          \/ \E p, m : EvalSub(l, r) = Value(p, m, difference)
      BY DEF EvalSub, Abs, difference
    <3> QED
      BY <1>1, <3>1, <3>2, ValuesAre
  <2>5. IsValue(EvalMul(l, r))
    <3> DEFINE product == l.addend * r.addend
    <3>1. product \in Int
      BY <2>2
    <3> HIDE DEF product
    <3>2. EvalMul(l, r) = Failed \/ EvalMul(l, r) = Value(None, None, product)
      BY DEF EvalMul, Abs, product
    <3> QED
      BY <1>1, <3>1, <3>2, ValuesAre
  <2>6. EvalBinary(op, l, r) = IF op = "+" THEN EvalAdd(l, r)
                               ELSE IF op = "-" THEN EvalSub(l, r) ELSE EvalMul(l, r)
    BY <1>3 DEF EvalBinary, Operators
  <2> QED
    BY <2>3, <2>4, <2>5, <2>6
<1> QED
  BY <1>2, <1>3

(* Numbers are computed as numbers.                                        *)
LEMMA NumbersAreComputed ==
    ASSUME NEW op \in Operators, NEW a \in Int, NEW b \in Int
    PROVE  EvalBinary(op, Abs(a), Abs(b)) =
                Abs(IF op = "+" THEN a + b ELSE IF op = "-" THEN a - b ELSE a * b)
<1>1. /\ Abs(a).ok = TRUE /\ Abs(a).plus = None /\ Abs(a).minus = None /\ Abs(a).addend = a
      /\ Abs(b).ok = TRUE /\ Abs(b).plus = None /\ Abs(b).minus = None /\ Abs(b).addend = b
  BY DEF Abs, Value
<1> DEFINE l == Abs(a)
           r == Abs(b)
<1>2. /\ l.ok /\ l.plus = None /\ l.minus = None /\ l.addend = a
      /\ r.ok /\ r.plus = None /\ r.minus = None /\ r.addend = b
      /\ IsAbs(l) /\ IsAbs(r)
  BY <1>1 DEF IsAbs
<1> HIDE DEF l, r
<1>3. EvalAdd(l, r) = Abs(a + b)
  BY <1>2 DEF EvalAdd, Abs, Either
<1>4. EvalSub(l, r) = Abs(a - b)
  BY <1>2 DEF EvalSub, Abs
<1>5. EvalMul(l, r) = Abs(a * b)
  BY <1>2 DEF EvalMul
<1>6. EvalBinary(op, l, r) = IF op = "+" THEN EvalAdd(l, r)
                             ELSE IF op = "-" THEN EvalSub(l, r) ELSE EvalMul(l, r)
  BY <1>2 DEF EvalBinary, Operators
<1>7. EvalBinary(op, l, r) =
          Abs(IF op = "+" THEN a + b ELSE IF op = "-" THEN a - b ELSE a * b)
  BY <1>3, <1>4, <1>5, <1>6
<1> QED
  BY <1>7 DEF l, r

(* A value plus nothing is a number only if it is that number.             *)
LEMMA PlusNothing ==
    ASSUME NEW v, IsValue(v), IsAbs(EvalBinary("+", v, Abs(0)))
    PROVE  /\ IsAbs(v) /\ v.addend \in Int /\ v = Abs(v.addend)
           /\ EvalBinary("+", v, Abs(0)) = v
<1>1. Abs(0).ok = TRUE /\ Abs(0).plus = None /\ Abs(0).minus = None /\ Abs(0).addend = 0
  BY DEF Abs, Value
<1> DEFINE z == Abs(0)
<1>2. z.ok /\ z.plus = None /\ z.minus = None /\ z.addend = 0
  BY <1>1
<1>3. v.ok
  BY ValueParts DEF EvalBinary, IsAbs
<1>4. v = Value(v.plus, v.minus, v.addend) /\ v.addend \in Int
  BY <1>3, ValuesHave
<1> HIDE DEF z
<1>5. EvalAdd(v, z) = Value(v.plus, v.minus, v.addend + 0)
  BY <1>2 DEF EvalAdd, Either
<1>6. EvalBinary("+", v, z) = EvalAdd(v, z)
  BY <1>2, <1>3 DEF EvalBinary
<1>7. EvalBinary("+", v, z) = v
  BY <1>4, <1>5, <1>6
<1>8. IsAbs(v)
  BY <1>7 DEF z
<1> QED
  BY <1>4, <1>7, <1>8 DEF z, IsAbs, Abs

-----------------------------------------------------------------------------
(* The values of symbols, followed as far as definitions are.              *)

Followed(t, env, inner, id) ==
    AliasValue(t, env, id,
        EvalBinary(t[id].expr.op, LeafValue(t, env, inner, t[id].expr.l),
                                  LeafValue(t, env, inner, t[id].expr.r)))

IsFollowing(g, t, env, last) ==
    g = [left \in 0..last |->
            [id \in DOMAIN t |->
                IF t[id].is # "expr" THEN LabelValue(env, id, t[id])
                ELSE IF left = 0 THEN Failed
                ELSE Followed(t, env, g[left - 1], id)]]

(* They can be followed.                                                   *)
LEMMA FollowingExists ==
    ASSUME NEW t, NEW env, NEW last \in Nat
    PROVE  \E g : IsFollowing(g, t, env, last)
<1> DEFINE S == {n \in Nat : \E g : IsFollowing(g, t, env, n)}
           At0 == [id \in DOMAIN t |->
                      IF t[id].is # "expr" THEN LabelValue(env, id, t[id]) ELSE Failed]
           After(inner) == [id \in DOMAIN t |->
                      IF t[id].is # "expr" THEN LabelValue(env, id, t[id])
                      ELSE Followed(t, env, inner, id)]
<1>1. \A g, n : IsFollowing(g, t, env, n) <=>
          g = [left \in 0..n |-> IF left = 0 THEN At0 ELSE After(g[left - 1])]
  <2> SUFFICES ASSUME NEW g, NEW n
               PROVE  IsFollowing(g, t, env, n) <=>
                        g = [left \in 0..n |-> IF left = 0 THEN At0 ELSE After(g[left - 1])]
    OBVIOUS
  <2> DEFINE Here_(left) == [id \in DOMAIN t |->
                IF t[id].is # "expr" THEN LabelValue(env, id, t[id])
                ELSE IF left = 0 THEN Failed
                ELSE Followed(t, env, g[left - 1], id)]
  <2>1. \A left \in 0..n : Here_(left) = IF left = 0 THEN At0 ELSE After(g[left - 1])
    <3> SUFFICES ASSUME NEW left \in 0..n
                 PROVE  Here_(left) = IF left = 0 THEN At0 ELSE After(g[left - 1])
      OBVIOUS
    <3>1. CASE left = 0
      BY <3>1
    <3>2. CASE left # 0
      BY <3>2
    <3> QED
      BY <3>1, <3>2
  <2>2. IsFollowing(g, t, env, n) <=> g = [left \in 0..n |-> Here_(left)]
    BY DEF IsFollowing
  <2> HIDE DEF Here_, At0, After
  <2> QED
    BY <2>1, <2>2
<1> HIDE DEF At0, After
<1>2. 0 \in S
  <2>1. IsFollowing([left \in 0..0 |-> At0], t, env, 0)
    <3> DEFINE g == [left \in 0..0 |-> At0]
    <3>1. g = [left \in 0..0 |-> IF left = 0 THEN At0 ELSE After(g[left - 1])]
      OBVIOUS
    <3> HIDE DEF g
    <3>2. IsFollowing(g, t, env, 0)
      BY <1>1, <3>1
    <3> QED
      BY <3>2 DEF g
  <2> QED
    BY <2>1
<1>3. ASSUME NEW n \in Nat, n \in S
      PROVE  n + 1 \in S
  <2>1. PICK g : IsFollowing(g, t, env, n)
    BY <1>3
  <2>2. g = [left \in 0..n |-> IF left = 0 THEN At0 ELSE After(g[left - 1])]
    BY <1>1, <2>1
  <2> DEFINE h == [left \in 0..n + 1 |-> IF left = n + 1 THEN After(g[n]) ELSE g[left]]
  <2>3. ASSUME NEW k \in 0..n + 1
        PROVE  h[k] = IF k = 0 THEN At0 ELSE After(h[k - 1])
    <3>1. CASE k = n + 1
      BY <3>1
    <3>2. CASE k # n + 1
      BY <2>2, <3>2
    <3> QED
      BY <3>1, <3>2
  <2>4. h = [k \in 0..n + 1 |-> h[k]]
    OBVIOUS
  <2> HIDE DEF h
  <2>5. h = [left \in 0..n + 1 |-> IF left = 0 THEN At0 ELSE After(h[left - 1])]
    BY <2>3, <2>4
  <2>6. IsFollowing(h, t, env, n + 1)
    BY <1>1, <2>5
  <2> QED
    BY <2>6
<1> HIDE DEF S
<1>4. Nat \subseteq S
  BY <1>2, <1>3, InductionBySets
<1> QED
  BY <1>4 DEF S

(* What SymbolValues computes.                                             *)
LEMMA ValuesAreFollowed ==
    ASSUME NEW t, NEW env
    PROVE  \E g : /\ IsFollowing(g, t, env, MaxChain + 1)
                  /\ SymbolValues(t, env) = g[MaxChain + 1]
<1> DEFINE g == CHOOSE f : IsFollowing(f, t, env, MaxChain + 1)
<1>1. SymbolValues(t, env) = g[MaxChain + 1]
  BY Zenon DEF SymbolValues, IsFollowing, Followed
<1>2. MaxChain + 1 \in Nat
  BY MaxChainAssumption
<1>3. IsFollowing(g, t, env, MaxChain + 1)
  BY <1>2, FollowingExists
<1> QED
  BY <1>1, <1>3

(* The value of a symbol that is defined by no expression, and of one that *)
(* is.                                                                     *)
LEMMA SymbolValueIs ==
    ASSUME NEW t, NEW env, NEW id \in DOMAIN t
    PROVE  /\ t[id].is # "expr" => SymbolValues(t, env)[id] = LabelValue(env, id, t[id])
           /\ t[id].is = "expr" =>
                \E inner : SymbolValues(t, env)[id] = Followed(t, env, inner, id)
<1>1. PICK g : /\ IsFollowing(g, t, env, MaxChain + 1)
               /\ SymbolValues(t, env) = g[MaxChain + 1]
  BY ValuesAreFollowed
<1>2. MaxChain + 1 \in 0..MaxChain + 1 /\ MaxChain + 1 # 0
  BY MaxChainAssumption
<1> DEFINE last == MaxChain + 1
<1>3. last \in 0..last /\ last # 0 /\ IsFollowing(g, t, env, last)
  BY <1>1, <1>2
<1> HIDE DEF last
<1>4. g[last] = [i \in DOMAIN t |->
                IF t[i].is # "expr" THEN LabelValue(env, i, t[i])
                ELSE IF last = 0 THEN Failed
                ELSE Followed(t, env, g[last - 1], i)]
  BY <1>3 DEF IsFollowing
<1>5. g[last][id] = IF t[id].is # "expr" THEN LabelValue(env, id, t[id])
                    ELSE Followed(t, env, g[last - 1], id)
  BY <1>3, <1>4
<1> QED
  BY <1>1, <1>5 DEF last

(* The definitions of a table can be computed.                             *)
Computable(t) == \A id \in DOMAIN t : t[id].is = "expr" => IsComputable(t[id].expr)

(* The value of a leaf, if those of symbols are values.                    *)
LEMMA LeavesAreValues ==
    ASSUME NEW t, NEW values, \A id \in DOMAIN t : IsValue(values[id]),
           NEW leaf, IsNumber(leaf) => leaf[2] \in Int
    PROVE  IsValue(LeafValue(t, "ref", values, leaf))
<1>1. IsValue(Failed)
  BY DEF IsValue
<1>2. CASE IsNumber(leaf)
  BY <1>2, ValuesAre DEF IsNumber, IsPositional, None, LeafValue, Abs
<1>3. CASE ~IsNumber(leaf)
  BY <1>1, <1>3 DEF LeafValue
<1> QED
  BY <1>2, <1>3

(* The values of symbols are values.                                       *)
LEMMA SymbolsAreValues ==
    ASSUME NEW t, Computable(t)
    PROVE  \A id \in DOMAIN t : IsValue(SymbolValues(t, "ref")[id])
<1>1. PICK g : /\ IsFollowing(g, t, "ref", MaxChain + 1)
               /\ SymbolValues(t, "ref") = g[MaxChain + 1]
  BY ValuesAreFollowed
<1> DEFINE last == MaxChain + 1
<1>2. last \in Nat /\ IsFollowing(g, t, "ref", last)
  BY <1>1, MaxChainAssumption
<1> HIDE DEF last
<1> DEFINE S == {n \in Nat : n <= last => \A id \in DOMAIN t : IsValue(g[n][id])}
<1>3. IsValue(Failed)
  BY DEF IsValue
<1>4. ASSUME NEW id \in DOMAIN t PROVE IsValue(LabelValue("ref", id, t[id]))
  BY ValuesAre DEF LabelValue, Sym
<1>5. ASSUME NEW n \in Nat, n <= last, NEW id \in DOMAIN t
      PROVE  g[n][id] = IF t[id].is # "expr" THEN LabelValue("ref", id, t[id])
                        ELSE IF n = 0 THEN Failed ELSE Followed(t, "ref", g[n - 1], id)
  <2>1. n \in 0..last
    BY <1>2, <1>5
  <2>2. g[n] = [i \in DOMAIN t |->
                IF t[i].is # "expr" THEN LabelValue("ref", i, t[i])
                ELSE IF n = 0 THEN Failed ELSE Followed(t, "ref", g[n - 1], i)]
    BY <1>2, <2>1 DEF IsFollowing
  <2> QED
    BY <2>2
<1>6. 0 \in S
  BY <1>3, <1>4, <1>5
<1>7. ASSUME NEW n \in Nat, n \in S PROVE n + 1 \in S
  <2> SUFFICES ASSUME n + 1 <= last, NEW id \in DOMAIN t PROVE IsValue(g[n + 1][id])
    OBVIOUS
  <2>1. n <= last /\ n + 1 # 0 /\ n + 1 - 1 = n /\ n + 1 \in Nat
    BY <1>2
  <2>2. \A i \in DOMAIN t : IsValue(g[n][i])
    BY <1>7, <2>1
  <2>3. g[n + 1][id] = IF t[id].is # "expr" THEN LabelValue("ref", id, t[id])
                       ELSE Followed(t, "ref", g[n], id)
    BY <1>5, <2>1
  <2>4. CASE t[id].is # "expr"
    BY <1>4, <2>3, <2>4
  <2>5. CASE t[id].is = "expr"
    <3> DEFINE e == t[id].expr
               l == LeafValue(t, "ref", g[n], e.l)
               r == LeafValue(t, "ref", g[n], e.r)
    <3>1. IsComputable(e)
      BY <2>5 DEF Computable
    <3>2. IsValue(l) /\ IsValue(r) /\ e.op \in Operators
      BY <2>2, <3>1, LeavesAreValues DEF IsComputable
    <3>3. g[n + 1][id] = AliasValue(t, "ref", id, EvalBinary(e.op, l, r))
      BY <2>3, <2>5 DEF Followed
    <3> HIDE DEF l, r, e
    <3>4. g[n + 1][id] = EvalBinary(e.op, l, r)
      BY <3>3 DEF AliasValue
    <3> QED
      BY <3>2, <3>4, BinaryIsValue
  <2> QED
    BY <2>4, <2>5
<1> HIDE DEF S
<1>8. Nat \subseteq S
  BY <1>6, <1>7, InductionBySets
<1> QED
  BY <1>1, <1>2, <1>8 DEF S, last

(* So is what an expression comes to.                                      *)
LEMMA EvalIsValue ==
    ASSUME NEW t, Computable(t), NEW e, IsComputable(e)
    PROVE  IsValue(Eval(t, "ref", e))
<1> DEFINE values == SymbolValues(t, "ref")
           l == LeafValue(t, "ref", values, e.l)
           r == LeafValue(t, "ref", values, e.r)
<1>1. IsValue(l) /\ IsValue(r)
  BY SymbolsAreValues, LeavesAreValues DEF IsComputable
<1>2. Eval(t, "ref", e) = EvalBinary(e.op, l, r)
  BY DEF Eval
<1>3. e.op \in Operators
  BY DEF IsComputable
<1> HIDE DEF l, r
<1> QED
  BY <1>1, <1>2, <1>3, BinaryIsValue

(* What is a number is an integer.                                         *)
LEMMA ConstantsAre ==
    ASSUME NEW t, Computable(t), NEW e, IsComputable(e), Constant(t, e) # Unresolved
    PROVE  \E n \in Int : Constant(t, e) = <<n>>
<1> DEFINE v == Eval(t, "ref", e)
<1>1. IsValue(v)
  BY EvalIsValue
<1>2. Constant(t, e) = IF IsAbs(v) THEN <<v.addend>> ELSE Unresolved
  BY DEF Constant
<1> HIDE DEF v
<1>3. IsAbs(v) /\ v.ok
  BY <1>2 DEF IsAbs
<1>4. v.addend \in Int
  BY <1>1, <1>3, ValuesHave
<1> QED
  BY <1>2, <1>3, <1>4

(* A name alone can be computed, and so can a number.                      *)
LEMMA JustIs ==
    ASSUME NEW leaf
    PROVE  /\ Just(leaf).l = leaf /\ Just(leaf).r = Number(0) /\ Just(leaf).op = "+"
           /\ (IsNumber(leaf) => leaf[2] \in Int) => IsComputable(Just(leaf))
           /\ Leaves(Just(leaf)) = {leaf, Number(0)}
BY DEF Just, Expr, Number, IsNumber, IsComputable, Leaves, Operators

(* The number of one leaf is the value it is evaluated to.                 *)
LEMMA LeafNumber ==
    ASSUME NEW t, Computable(t), NEW leaf, IsNumber(leaf) => leaf[2] \in Int,
           Constant(t, Just(leaf)) # Unresolved
    PROVE  \E n \in Int : /\ Constant(t, Just(leaf)) = <<n>>
                          /\ LeafValue(t, "ref", SymbolValues(t, "ref"), leaf) = Abs(n)
<1> DEFINE v == LeafValue(t, "ref", SymbolValues(t, "ref"), leaf)
<1>1. IsValue(v)
  BY SymbolsAreValues, LeavesAreValues
<1>2. LeafValue(t, "ref", SymbolValues(t, "ref"), Number(0)) = Abs(0)
  BY DEF IsNumber, Number, IsPositional, None, LeafValue
<1>3. Eval(t, "ref", Just(leaf)) = EvalBinary("+", v, Abs(0))
  BY <1>2, JustIs DEF Eval
<1>4. Constant(t, Just(leaf)) = IF IsAbs(EvalBinary("+", v, Abs(0)))
                                  THEN <<EvalBinary("+", v, Abs(0)).addend>> ELSE Unresolved
  BY <1>3 DEF Constant
<1> HIDE DEF v
<1>5. IsAbs(EvalBinary("+", v, Abs(0)))
  BY <1>4
<1>6. v.addend \in Int /\ v = Abs(v.addend) /\ EvalBinary("+", v, Abs(0)) = v
  BY <1>1, <1>5, PlusNothing
<1>7. Constant(t, Just(leaf)) = <<v.addend>>
  BY <1>4, <1>5, <1>6
<1> QED
  BY <1>6, <1>7 DEF v

(* Only a name that stands for an expression is a number.                  *)
LEMMA NumbersAreDefined ==
    ASSUME NEW t, Computable(t), NEW leaf, IsName(leaf), Constant(t, Just(leaf)) # Unresolved
    PROVE  leaf \in DOMAIN t /\ t[leaf].is = "expr"
<1> DEFINE values == SymbolValues(t, "ref")
<1>1. ~IsNumber(leaf) /\ ~IsPositional(leaf) /\ leaf # None
  BY DEF IsName, IsNumber, IsPositional, None
<1>2. PICK n \in Int : LeafValue(t, "ref", values, leaf) = Abs(n)
  BY <1>1, LeafNumber
<1>3. Abs(n).ok = TRUE /\ Abs(n).plus = None
  BY DEF Abs, Value
<1>4. leaf \in DOMAIN t
  BY <1>1, <1>2, <1>3, ValueParts DEF LeafValue
<1>5. LeafValue(t, "ref", values, leaf) = values[leaf]
  BY <1>1, <1>4 DEF LeafValue
<1>6. t[leaf].is = "expr"
  <2>1. t[leaf].is # "expr" => values[leaf] = LabelValue("ref", leaf, t[leaf])
    BY <1>4, SymbolValueIs
  <2>2. LabelValue("ref", leaf, t[leaf]).plus = leaf
    BY DEF LabelValue, Sym, Value
  <2> QED
    BY <1>1, <1>2, <1>3, <1>5, <2>1, <2>2
<1> QED
  BY <1>4, <1>6

(* What is written in numbers is one number to all evaluators, whatever is *)
(* in the table.                                                           *)
LEMMA WrittenNumbers ==
    ASSUME NEW e, OnlyNumbers(e), NEW t
    PROVE  /\ Arithmetic(e) \in Int
           /\ \A env : Eval(t, env, e) = Abs(Arithmetic(e))
           /\ Constant(t, e) = <<Arithmetic(e)>>
           /\ FixupValue(t, e) = <<Arithmetic(e)>>
<1> DEFINE n == Arithmetic(e)
<1>1. e.l[2] \in Int /\ e.r[2] \in Int /\ e.op \in Operators
  BY DEF OnlyNumbers, IsComputable
<1>2. n \in Int
  BY <1>1, ProductsAreIntegers DEF Arithmetic
<1>3. ASSUME NEW env
      PROVE  Eval(t, env, e) = Abs(n)
  <2> DEFINE values == SymbolValues(t, env)
  <2>1. /\ LeafValue(t, env, values, e.l) = Abs(e.l[2])
        /\ LeafValue(t, env, values, e.r) = Abs(e.r[2])
    BY DEF OnlyNumbers, IsNumber, IsPositional, None, LeafValue
  <2>2. Eval(t, env, e) = EvalBinary(e.op, Abs(e.l[2]), Abs(e.r[2]))
    BY <2>1 DEF Eval
  <2> QED
    BY <1>1, <2>2, NumbersAreComputed DEF Arithmetic
<1> HIDE DEF n
<1>4. Abs(n).ok = TRUE /\ Abs(n).plus = None /\ Abs(n).minus = None /\ Abs(n).addend = n
  BY DEF Abs, Value
<1>5. IsAbs(Abs(n))
  BY <1>4 DEF IsAbs
<1>6. Constant(t, e) = <<n>>
  BY <1>3, <1>4, <1>5 DEF Constant
<1>7. FixupValue(t, e) = <<n>>
  BY <1>2, <1>3, <1>4 DEF FixupValue, Unresolved, ResolveValue
<1> QED
  BY <1>2, <1>3, <1>6, <1>7 DEF n

-----------------------------------------------------------------------------
(* Binding.                                                                *)

(* Whether a name is replaced with its value.                              *)
IsReplaced(t, leaf) ==
    /\ BindsValues
    /\ leaf \in DOMAIN t
    /\ t[leaf].is = "expr"
    /\ ~Predefined(t[leaf])
    /\ Constant(t, Just(leaf)) # Unresolved

(* What leaves are bound to.                                               *)
LEMMA BoundLeaves ==
    ASSUME NEW t, Computable(t), NEW leaf, IsNumber(leaf) => leaf[2] \in Int, NEW item
    PROVE  LET b == BoundLeaf(t, leaf, item)
           IN  /\ IsNumber(b) => b[2] \in Int
               /\ IsNumber(leaf) => b = leaf
               /\ IsName(b) => b = leaf
               /\ IsName(leaf) /\ ~IsReplaced(t, leaf) => b = leaf
               /\ IsName(leaf) /\ IsReplaced(t, leaf) =>
                    b = Number(Constant(t, Just(leaf))[1])
<1> DEFINE b == BoundLeaf(t, leaf, item)
<1>1. /\ \A n : IsNumber(Number(n)) /\ Number(n)[2] = n /\ ~IsName(Number(n))
      /\ \A n, k : ~IsName(Slot(n, k)) /\ ~IsNumber(Slot(n, k))
      /\ \A n, k : ~IsName(HereAt(n, k)) /\ ~IsNumber(HereAt(n, k))
  BY KindsDiffer DEF Number, IsNumber, IsName
<1>2. CASE IsName(leaf)
  <2>1. b = BoundName(t, leaf)
    BY <1>2 DEF IsName, Here, BoundLeaf
  <2>2. b = IF IsReplaced(t, leaf) THEN Number(Constant(t, Just(leaf))[1]) ELSE leaf
    BY <2>1 DEF BoundName, IsReplaced
  <2>3. ~IsNumber(leaf)
    BY <1>2 DEF IsName, IsNumber
  <2>4. CASE IsReplaced(t, leaf)
    <3>1. PICK n \in Int : Constant(t, Just(leaf)) = <<n>>
      BY <2>3, <2>4, LeafNumber DEF IsReplaced
    <3>2. b = Number(n) /\ b = Number(Constant(t, Just(leaf))[1])
      BY <2>2, <2>4, <3>1
    <3> QED
      BY <1>1, <2>3, <2>4, <3>2
  <2>5. CASE ~IsReplaced(t, leaf)
    BY <2>2, <2>3, <2>5
  <2> QED
    BY <2>4, <2>5
<1>3. CASE ~IsName(leaf)
  <2>1. CASE IsNumber(leaf)
    BY <1>3, <2>1 DEF IsNumber, Here, BoundLeaf
  <2>2. CASE ~IsNumber(leaf)
    <3>1. \/ b = leaf
          \/ \E n, k : b = Slot(n, k)
          \/ \E n, k : b = HereAt(n, k)
      <4>1. CASE leaf = Here
        BY <1>3, <4>1 DEF Here, BoundLeaf
      <4>2. CASE leaf # Here /\ leaf[1] = "forward"
        BY <1>3, <4>2 DEF BoundLeaf, LocalForward
      <4>3. CASE leaf # Here /\ leaf[1] = "backward"
        BY <1>3, <4>3 DEF BoundLeaf, LocalBackward
      <4>4. CASE leaf # Here /\ leaf[1] # "forward" /\ leaf[1] # "backward"
        BY <1>3, <4>4 DEF BoundLeaf
      <4> QED
        BY <4>1, <4>2, <4>3, <4>4
    <3>2. ~IsName(b) /\ ~IsNumber(b)
      BY <1>1, <1>3, <2>2, <3>1
    <3> QED
      BY <1>3, <2>2, <3>2
  <2> QED
    BY <2>1, <2>2
<1> QED
  BY <1>2, <1>3

(* The parts of what an expression is bound to.                            *)
LEMMA BoundParts ==
    ASSUME NEW t, NEW e, NEW item
    PROVE  /\ Bound(t, e, item).l = BoundLeaf(t, e.l, item)
           /\ Bound(t, e, item).r = BoundLeaf(t, e.r, item)
           /\ Bound(t, e, item).op = e.op
BY DEF Bound, Expr

(* What is bound can be computed.                                          *)
LEMMA BoundIsComputable ==
    ASSUME NEW t, Computable(t), NEW e, IsComputable(e), NEW item
    PROVE  IsComputable(Bound(t, e, item))
BY BoundLeaves, BoundParts DEF IsComputable

(* Where values are bound, a name that is a number is not left.            *)
LEMMA NoNumberIsLeft ==
    ASSUME BindsValues, NEW t, Computable(t), NEW leaf, IsNumber(leaf) => leaf[2] \in Int,
           NEW item, IsNumberThere(t, BoundLeaf(t, leaf, item))
    PROVE  IsNumber(BoundLeaf(t, leaf, item))
<1> DEFINE b == BoundLeaf(t, leaf, item)
<1>1. SUFFICES ASSUME IsName(b), ReadAs(t, Just(b)) # Unresolved PROVE FALSE
  BY DEF IsNumberThere
<1>2. b = leaf /\ ~IsReplaced(t, leaf)
  BY <1>1, BoundLeaves DEF Number, IsName
<1> HIDE DEF b
<1>3. /\ ~(leaf \in DOMAIN t /\ Predefined(t[leaf]))
      /\ Constant(t, Just(leaf)) # Unresolved
  BY <1>1, <1>2, JustIs DEF ReadAs
<1>4. leaf \in DOMAIN t /\ t[leaf].is = "expr"
  BY <1>1, <1>2, <1>3, NumbersAreDefined
<1> QED
  BY <1>2, <1>3, <1>4 DEF IsReplaced

(* So what was a number because its names were is written in numbers.      *)
LEMMA NumbersAreWritten ==
    ASSUME BindsValues, NEW t, Computable(t), NEW e, IsComputable(e), NEW item,
           NumberThere(t, Bound(t, e, item)) # Unresolved
    PROVE  SaysNumber(Bound(t, e, item), NumberThere(t, Bound(t, e, item)))
<1> DEFINE b == Bound(t, e, item)
<1>1. /\ IsNumberThere(t, b.l) /\ IsNumberThere(t, b.r)
      /\ NumberThere(t, b) = Constant(t, b)
  BY DEF NumberThere, Leaves
<1>2. IsNumber(b.l) /\ IsNumber(b.r)
  BY <1>1, BoundParts, NoNumberIsLeft DEF IsComputable
<1>3. IsComputable(b)
  BY BoundIsComputable
<1> HIDE DEF b
<1>4. OnlyNumbers(b)
  BY <1>2, <1>3 DEF OnlyNumbers
<1> QED
  BY <1>1, <1>4, WrittenNumbers DEF SaysNumber, b

(* A number written at once.                                               *)
LEMMA JustNumbers ==
    ASSUME NEW n \in Int
    PROVE  SaysNumber(Just(Number(n)), <<n>>)
<1> DEFINE e == Just(Number(n))
<1>1. /\ IsNumber(Number(n)) /\ Number(n)[2] = n /\ IsNumber(Number(0)) /\ Number(0)[2] = 0
  BY DEF Number, IsNumber
<1>2. e.l = Number(n) /\ e.r = Number(0) /\ e.op = "+" /\ IsComputable(e)
  BY <1>1, JustIs
<1> HIDE DEF e
<1>3. OnlyNumbers(e) /\ Arithmetic(e) = n
  BY <1>1, <1>2 DEF OnlyNumbers, Arithmetic
<1> QED
  BY <1>3 DEF SaysNumber, e

(* Binding changes the number of no expression whose leaves are not bound  *)
(* to labels.                                                              *)
LEMMA BoundIsTheSame ==
    ASSUME NEW t, Computable(t), NEW e, IsComputable(e), NEW item,
           \A leaf \in Leaves(e) : IsNumber(leaf) \/ IsName(leaf)
    PROVE  Constant(t, Bound(t, e, item)) = Constant(t, e)
<1> DEFINE values == SymbolValues(t, "ref")
<1>1. ASSUME NEW leaf, IsNumber(leaf) \/ IsName(leaf), IsNumber(leaf) => leaf[2] \in Int
      PROVE  LeafValue(t, "ref", values, BoundLeaf(t, leaf, item))
                = LeafValue(t, "ref", values, leaf)
  <2>1. CASE IsNumber(leaf) \/ ~IsReplaced(t, leaf)
    BY <1>1, <2>1, BoundLeaves
  <2>2. CASE IsName(leaf) /\ IsReplaced(t, leaf)
    <3>1. PICK n \in Int : /\ Constant(t, Just(leaf)) = <<n>>
                           /\ LeafValue(t, "ref", values, leaf) = Abs(n)
      BY <1>1, <2>2, LeafNumber DEF IsReplaced
    <3>2. BoundLeaf(t, leaf, item) = Number(n)
      BY <1>1, <2>2, <3>1, BoundLeaves
    <3>3. /\ IsNumber(Number(n)) /\ Number(n)[2] = n
          /\ ~IsPositional(Number(n)) /\ Number(n) # None
      BY DEF Number, IsNumber, IsPositional, None
    <3>4. LeafValue(t, "ref", values, Number(n)) = Abs(n)
      BY <3>3 DEF LeafValue
    <3> QED
      BY <3>1, <3>2, <3>4
  <2> QED
    BY <1>1, <2>1, <2>2
<1>2. Eval(t, "ref", Bound(t, e, item)) = Eval(t, "ref", e)
  BY <1>1, BoundParts DEF IsComputable, Leaves, Eval
<1> QED
  BY <1>2 DEF Constant

-----------------------------------------------------------------------------
(* Definitions.                                                            *)

DefinitionKept(t, id) ==
    t[id].is = "expr" =>
        /\ IsName(id)
        /\ IsComputable(t[id].expr)
        /\ BindsValues /\ t[id].was # Unresolved => SaysNumber(t[id].expr, t[id].was)

DefinitionsKept(t) == \A id \in DOMAIN t : DefinitionKept(t, id)

(* The definitions of one table are those of another, but for some names.  *)
AlikeBut(t, u, but) ==
    \A id \in DOMAIN u \ but :
        u[id].is = "expr" =>
            /\ id \in DOMAIN t /\ t[id].is = "expr"
            /\ u[id].expr = t[id].expr /\ u[id].was = t[id].was

(* What is kept in one table is kept in one that is alike.                 *)
LEMMA AlikeKeeps ==
    ASSUME NEW t, DefinitionsKept(t), NEW u, NEW but, AlikeBut(t, u, but),
           \A id \in but \cap DOMAIN u : DefinitionKept(u, id)
    PROVE  DefinitionsKept(u)
<1> SUFFICES ASSUME NEW id \in DOMAIN u, u[id].is = "expr"
             PROVE  DefinitionKept(u, id)
  BY DEF DefinitionsKept, DefinitionKept
<1>1. CASE id \in but
  BY <1>1
<1>2. CASE id \notin but
  BY <1>2 DEF AlikeBut, DefinitionsKept, DefinitionKept
<1> QED
  BY <1>1, <1>2

(* What is kept can be computed.                                           *)
LEMMA KeptIsComputable ==
    ASSUME NEW t, DefinitionsKept(t)
    PROVE  Computable(t)
BY DEF DefinitionsKept, DefinitionKept, Computable

(* A table is like itself, and like what is like one that is like it.      *)
LEMMA AlikeSteps ==
    /\ \A t : AlikeBut(t, t, {})
    /\ \A t, u, v, but : AlikeBut(t, u, but) /\ AlikeBut(u, v, but) => AlikeBut(t, v, but)
    /\ \A t, u, but : AlikeBut(t, u, {}) => AlikeBut(t, u, but)
BY DEF AlikeBut

(* Mentioning defines nothing.                                             *)
LEMMA InternAlike ==
    ASSUME NEW t, NEW ids
    PROVE  /\ AlikeBut(t, Intern(t, ids), {})
           /\ DOMAIN Intern(t, ids) = DOMAIN t \cup ids
<1> DEFINE u == Intern(t, ids)
<1>1. /\ DOMAIN u = DOMAIN t \cup ids
      /\ \A id \in DOMAIN u : u[id] = IF id \in DOMAIN t THEN t[id] ELSE Mentioned
  BY DEF Intern
<1> HIDE DEF u
<1>2. AlikeBut(t, u, {})
  BY <1>1, MentionedIs DEF AlikeBut
<1> QED
  BY <1>1, <1>2 DEF u

(* Neither do the places and slots of a statement.                         *)
LEMMA PositionsAlike ==
    ASSUME NEW t, NEW exprs
    PROVE  /\ AlikeBut(t, WithPositions(t, exprs), {})
           /\ DOMAIN t \subseteq DOMAIN WithPositions(t, exprs)
           /\ \A id \in DOMAIN t : WithPositions(t, exprs)[id] = t[id]
<1> DEFINE u == WithPositions(t, exprs)
<1>1. /\ DOMAIN u = DOMAIN t \cup Positions(exprs) \cup Awaited(exprs)
      /\ \A id \in DOMAIN t : u[id] = t[id]
      /\ \A id \in DOMAIN u \ DOMAIN t :
            u[id] = Mentioned \/ \E o : u[id] = AsLabel(Mentioned, o, This)
  BY DEF WithPositions
<1> HIDE DEF u
<1>2. \A id \in DOMAIN u \ DOMAIN t : u[id].is # "expr"
  BY <1>1, MentionedIs, AsLabelIs
<1>3. AlikeBut(t, u, {})
  BY <1>1, <1>2 DEF AlikeBut
<1> QED
  BY <1>1, <1>3 DEF u

(* Changing one symbol leaves the others.                                  *)
LEMMA ChangeAlike ==
    ASSUME NEW t, NEW id \in DOMAIN t, NEW r
    PROVE  LET u == [t EXCEPT ![id] = r]
           IN  /\ AlikeBut(t, u, {id})
               /\ DOMAIN u = DOMAIN t /\ u[id] = r
               /\ \/ r.is # "expr"
                  \/ r.is = t[id].is /\ r.expr = t[id].expr /\ r.was = t[id].was
                  => AlikeBut(t, u, {})
<1> DEFINE u == [t EXCEPT ![id] = r]
<1>1. /\ DOMAIN u = DOMAIN t
      /\ u[id] = r
      /\ \A i \in DOMAIN t \ {id} : u[i] = t[i]
  OBVIOUS
<1> HIDE DEF u
<1>2. AlikeBut(t, u, {id})
  BY <1>1 DEF AlikeBut
<1>3. ASSUME \/ r.is # "expr"
             \/ r.is = t[id].is /\ r.expr = t[id].expr /\ r.was = t[id].was
      PROVE  AlikeBut(t, u, {})
  <2> SUFFICES ASSUME NEW i \in DOMAIN u, u[i].is = "expr"
               PROVE  /\ i \in DOMAIN t /\ t[i].is = "expr"
                      /\ u[i].expr = t[i].expr /\ u[i].was = t[i].was
    BY DEF AlikeBut
  <2>1. CASE i = id
    BY <1>1, <1>3, <2>1
  <2>2. CASE i # id
    BY <1>1, <2>2
  <2> QED
    BY <2>1, <2>2
<1> QED
  BY <1>1, <1>2, <1>3 DEF u

(* Binding a definition: the number it was when it was read is written.    *)
LEMMA SettledKept ==
    ASSUME NEW t, Good(t), Computable(t), NEW id \in DOMAIN t, IsName(id),
           t[id].is = "expr", NEW s
    PROVE  /\ AlikeBut(t, Settled(t, id, s), {id})
           /\ DefinitionKept(Settled(t, id, s), id)
<1> DEFINE b == Bound(t, t[id].expr, 1)
           r == [t[id] EXCEPT !.expr = b]
           u == [t EXCEPT ![id] = r]
           v == WithPositions(u, s.exprs)
           q == [v[id] EXCEPT !.was = NumberThere(t, v[id].expr)]
           w == [v EXCEPT ![id] = q]
<1>1. IsSymbol(t[id])
  BY DEF Good, IsTable
<1>2. IsComputable(t[id].expr)
  BY DEF Computable
<1>3. r.is = "expr" /\ r.expr = b /\ IsSymbol(r)
  BY <1>1 DEF IsSymbol, Fields
<1>4. /\ IsComputable(b)
      /\ BindsValues /\ NumberThere(t, b) # Unresolved => SaysNumber(b, NumberThere(t, b))
  BY <1>2, BoundIsComputable, NumbersAreWritten
<1>5. Settled(t, id, s) = w
  BY DEF Settled
<1> HIDE DEF b, r
<1>6. AlikeBut(t, u, {id}) /\ DOMAIN u = DOMAIN t /\ u[id] = r
  BY ChangeAlike
<1> HIDE DEF u
<1>7. AlikeBut(u, v, {}) /\ id \in DOMAIN v /\ v[id] = r
  BY <1>6, PositionsAlike
<1> HIDE DEF v
<1>8. q.is = "expr" /\ q.expr = b /\ q.was = NumberThere(t, b)
  BY <1>3, <1>7 DEF IsSymbol, Fields
<1> HIDE DEF q
<1>9. AlikeBut(v, w, {id}) /\ w[id] = q
  BY <1>7, ChangeAlike
<1> HIDE DEF w
<1>10. AlikeBut(t, w, {id})
  BY <1>6, <1>7, <1>9, AlikeSteps
<1>11. DefinitionKept(w, id)
  BY <1>4, <1>8, <1>9 DEF DefinitionKept
<1> QED
  BY <1>5, <1>10, <1>11

(* A definition that is bound where it is read.                            *)
LEMMA DefinedKept ==
    ASSUME NEW t, DefinitionsKept(t), NEW u, AlikeBut(t, u, {}),
           NEW id \in DOMAIN u, IsName(id), NEW r, r.is = "expr", IsComputable(r.expr), NEW s,
           Good([u EXCEPT ![id] = r])
    PROVE  DefinitionsKept(Settled([u EXCEPT ![id] = r], id, s))
<1> DEFINE w == [u EXCEPT ![id] = r]
           x == Settled(w, id, s)
<1>1. Good(w) /\ AlikeBut(u, w, {id}) /\ DOMAIN w = DOMAIN u /\ w[id] = r
  BY ChangeAlike
<1> HIDE DEF w
<1>2. AlikeBut(t, w, {id})
  BY <1>1, AlikeSteps
<1>3. Computable(w)
  <2> SUFFICES ASSUME NEW i \in DOMAIN w, w[i].is = "expr" PROVE IsComputable(w[i].expr)
    BY DEF Computable
  <2>1. CASE i = id
    BY <1>1, <2>1
  <2>2. CASE i # id
    BY <1>2, <2>2, KeptIsComputable DEF AlikeBut, Computable
  <2> QED
    BY <2>1, <2>2
<1>4. AlikeBut(w, x, {id}) /\ DefinitionKept(x, id)
  BY <1>1, <1>3, SettledKept
<1> HIDE DEF x
<1>5. AlikeBut(t, x, {id})
  BY <1>2, <1>4, AlikeSteps
<1>6. DefinitionsKept(x)
  BY <1>4, <1>5, AlikeKeeps
<1> QED
  BY <1>6 DEF x, w

(* What is alike is kept, and so is what is changed in nothing of that.    *)
LEMMA AlikeIsKept ==
    ASSUME NEW t, DefinitionsKept(t), NEW u, AlikeBut(t, u, {})
    PROVE  /\ DefinitionsKept(u)
           /\ \A r : \A id \in DOMAIN u :
                \/ r.is # "expr"
                \/ r.is = u[id].is /\ r.expr = u[id].expr /\ r.was = u[id].was
                => DefinitionsKept([u EXCEPT ![id] = r])
<1>1. ASSUME NEW v, AlikeBut(t, v, {})
      PROVE  DefinitionsKept(v)
  <2> PICK but : but = {}
    OBVIOUS
  <2>1. AlikeBut(t, v, but) /\ \A id \in but \cap DOMAIN v : DefinitionKept(v, id)
    BY <1>1
  <2> QED
    BY <2>1, AlikeKeeps
<1>2. ASSUME NEW id \in DOMAIN u, NEW r,
             \/ r.is # "expr"
             \/ r.is = u[id].is /\ r.expr = u[id].expr /\ r.was = u[id].was
      PROVE  DefinitionsKept([u EXCEPT ![id] = r])
  <2> DEFINE v == [u EXCEPT ![id] = r]
  <2>1. AlikeBut(u, v, {})
    BY <1>2, ChangeAlike
  <2> HIDE DEF v
  <2>2. DefinitionsKept(v)
    BY <1>1, <2>1, AlikeSteps
  <2> QED
    BY <2>2 DEF v
<1> QED
  BY <1>1, <1>2

(* Taking a size from elsewhere defines nothing.                           *)
LEMMA SizesAlike ==
    ASSUME NEW t, Good(t), NEW id \in DOMAIN t, NEW e
    PROVE  AlikeBut(t, WithSizeOf(t, id, e), {}) /\ DOMAIN WithSizeOf(t, id, e) = DOMAIN t
<1> DEFINE v == WithSizeOf(t, id, e)
<1>1. IsSymbol(t[id])
  BY DEF Good, IsTable
<1>2. /\ DOMAIN v = DOMAIN t
      /\ \A i \in DOMAIN t \ {id} : v[i] = t[i]
  BY DEF WithSizeOf, Good, IsTable
<1>3. v[id].is = t[id].is /\ v[id].expr = t[id].expr /\ v[id].was = t[id].was
  BY <1>1 DEF WithSizeOf, IsSymbol, Fields
<1> HIDE DEF v
<1>4. \A i \in DOMAIN v :
        v[i].is = t[i].is /\ v[i].expr = t[i].expr /\ v[i].was = t[i].was
  BY <1>2, <1>3
<1>5. AlikeBut(t, v, {})
  BY <1>2, <1>4 DEF AlikeBut
<1> QED
  BY <1>2, <1>5 DEF v

(* What is written can be computed.                                        *)
LEMMA WrittenIsComputable ==
    ASSUME IInv, NEW s \in source.statements, NEW i \in DOMAIN s.exprs
    PROVE  /\ IsComputable(s.exprs[i])
           /\ \A leaf \in Leaves(s.exprs[i]) : leaf \in LeavesOf(s.exprs) /\ IsWritten(leaf)
<1>1. \A leaf \in Leaves(s.exprs[i]) : leaf \in LeavesOf(s.exprs)
  BY DEF LeavesOf
<1>2. \A leaf \in LeavesOf(s.exprs) : IsWritten(leaf)
  BY StatementsAreWritten
<1>3. ASSUME NEW leaf, IsWritten(leaf), IsNumber(leaf)
      PROVE  leaf[2] \in Int
  BY <1>3 DEF IsWritten, IsNumber, IsName, Here, Forward, Backward
<1>4. s.exprs[i].op \in Operators
  BY StatementsAreWritten DEF Operators
<1>5. s.exprs[i].l \in Leaves(s.exprs[i]) /\ s.exprs[i].r \in Leaves(s.exprs[i])
  BY DEF Leaves
<1> QED
  BY <1>1, <1>2, <1>3, <1>4, <1>5 DEF IsComputable

(* A label keeps the definitions.                                          *)
LEMMA LabelKept ==
    ASSUME IInv, DefinitionsKept(table), NEW s \in source.statements, DefineLabel(s)
    PROVE  DefinitionsKept(table')
<1> DEFINE t == Intern(table, {s.name})
           r == AsLabel(t[s.name], at, This)
<1>1. s.is \notin Nameless
  BY DEF DefineLabel, Read, Nameless
<1>2. Good(t) /\ s.name \in DOMAIN t
  BY <1>1, NamedStatements, InternedOne DEF IInv
<1>3. table' = t \/ table' = [t EXCEPT ![s.name] = r]
  BY DEF DefineLabel
<1>4. r.is # "expr"
  BY <1>2, AsLabelIs DEF Good, IsTable
<1>5. AlikeBut(table, t, {})
  BY InternAlike
<1> HIDE DEF t, r
<1> QED
  BY <1>2, <1>3, <1>4, <1>5, AlikeIsKept

(* So does a numeric local label.                                          *)
LEMMA LocalKept ==
    ASSUME IInv, DefinitionsKept(table), NEW s \in source.statements, DefineLocal(s)
    PROVE  DefinitionsKept(table')
<1> DEFINE id == LocalForward(s.n)
           t == Intern(table, {id})
           r == AsLabel(t[id], at, This)
<1>1. id # None
  BY SlotsAreNotNone DEF LocalForward
<1>2. Good(t) /\ id \in DOMAIN t
  BY <1>1, InternedOne DEF IInv
<1>3. table' = [t EXCEPT ![id] = r]
  BY DEF DefineLocal
<1>4. r.is # "expr"
  BY <1>2, AsLabelIs DEF Good, IsTable
<1>5. AlikeBut(table, t, {})
  BY InternAlike
<1> HIDE DEF t, r, id
<1> QED
  BY <1>2, <1>3, <1>4, <1>5, AlikeIsKept

(* So does .set.                                                           *)
LEMMA SetKept ==
    ASSUME IInv, DefinitionsKept(table), NEW s \in source.statements, DirSet(s)
    PROVE  DefinitionsKept(table')
<1> DEFINE e == s.exprs[1]
           t == Intern(table, {s.name})
           u == Intern(t, {HeadSymbol(e)} \ {None})
           v == WithSizeOf(u, s.name, e)
           r == [AsExpr(v[s.name], e, This) EXCEPT !.redefinable = ~(s.is = "equiv")]
           w == [v EXCEPT ![s.name] = r]
<1>1. Read("set", s) \/ Read("equiv", s)
  BY DEF DirSet
<1>2. s.is \in {"set", "equiv"} /\ 1 \in DOMAIN s.exprs /\ IsName(s.name)
  BY <1>1, ReadDoes, StatementsAreWritten DEF Nameless, Expressionless, Emitting
<1>3. Good(t) /\ s.name \in DOMAIN t
  BY <1>2, NamesAreNotNone, InternedOne DEF IInv
<1>4. AlikeBut(table, t, {})
  BY InternAlike
<1>5. /\ Good(u) /\ s.name \in DOMAIN u /\ (HeadSymbol(e) # None => HeadSymbol(e) \in DOMAIN u)
      /\ AlikeBut(t, u, {})
  <2> DEFINE ids == {HeadSymbol(e)} \ {None}
  <2>1. None \notin ids /\ (HeadSymbol(e) # None => HeadSymbol(e) \in ids)
    OBVIOUS
  <2> HIDE DEF t, ids
  <2>2. Good(Intern(t, ids)) /\ DOMAIN Intern(t, ids) = DOMAIN t \cup ids
    BY <1>3, <2>1, Interned
  <2>3. AlikeBut(t, Intern(t, ids), {})
    BY InternAlike
  <2> QED
    BY <1>3, <2>1, <2>2, <2>3 DEF ids
<1>6. Good(w)
  <2> HIDE DEF u, e
  <2> QED
    BY <1>5, LinkIsGood
<1>7. AlikeBut(u, v, {}) /\ DOMAIN v = DOMAIN u
  <2> HIDE DEF u, e
  <2> QED
    BY <1>5, SizesAlike
<1>8. IsSymbol(v[s.name])
  <2>1. IsSymbol(u[s.name])
    BY <1>5 DEF Good, IsTable
  <2> HIDE DEF u
  <2> QED
    BY <1>5, <2>1 DEF WithSizeOf, IsSymbol, Fields, Good, IsTable
<1>9. table' = WithPositions(t, s.exprs) \/ table' = Settled(w, s.name, s)
  BY DEF DirSet
<1> HIDE DEF t, u, v
<1>10. r.is = "expr" /\ r.expr = e
  BY <1>8 DEF AsExpr, IsSymbol, Fields
<1>11. IsComputable(e)
  BY <1>2, WrittenIsComputable
<1> HIDE DEF r, e
<1>12. AlikeBut(table, v, {})
  BY <1>4, <1>5, <1>7, AlikeSteps
<1>13. DefinitionsKept(Settled(w, s.name, s))
  BY <1>2, <1>5, <1>6, <1>7, <1>10, <1>11, <1>12, DefinedKept
<1>14. DefinitionsKept(WithPositions(t, s.exprs))
  BY <1>4, PositionsAlike, AlikeSteps, AlikeIsKept
<1> QED
  BY <1>9, <1>13, <1>14

(* So does a definition with =, which may keep a number only.              *)
LEMMA AssignKept ==
    ASSUME IInv, DefinitionsKept(table), NEW s \in source.statements, Assign(s)
    PROVE  DefinitionsKept(table')
<1> DEFINE e == s.exprs[1]
           snapshot == s.is = "snapshot"
           known == IF snapshot THEN Intern(table, {leaf \in Leaves(e) : IsName(leaf)}) ELSE table
           t == Intern(known, {s.name})
           kept == IF s.is = "keep" THEN e ELSE Snapshot(known, e)
           once == source.dialect = "cc" /\ ~snapshot
           r == [AsExpr(t[s.name], kept, This) EXCEPT !.redefinable = ~once]
           w == [t EXCEPT ![s.name] = r]
<1>1. Read("keep", s) \/ Read("count", s) \/ Read("snapshot", s)
  BY DEF Assign
<1>2. s.is \in {"keep", "count", "snapshot"} /\ 1 \in DOMAIN s.exprs /\ IsName(s.name)
  BY <1>1, ReadDoes, StatementsAreWritten DEF Nameless, Expressionless, Emitting
<1>3. \/ table' = WithPositions(known, s.exprs)
      \/ table' = WithPositions(t, s.exprs)
      \/ table' = Settled(w, s.name, s)
  BY DEF Assign
<1>4. Good(known) /\ AlikeBut(table, known, {})
  BY NamesAreNotNone, Interned, InternAlike, AlikeSteps DEF IInv
<1>5. IsComputable(e)
  BY <1>2, WrittenIsComputable
<1> HIDE DEF known, e
<1>6. Computable(known)
  BY <1>4, AlikeIsKept, KeptIsComputable
<1>7. IsComputable(kept)
  <2>1. CASE Constant(known, e) = Unresolved
    BY <1>5, <2>1 DEF Snapshot
  <2>2. CASE Constant(known, e) # Unresolved
    <3>1. PICK n \in Int : Constant(known, e) = <<n>>
      BY <1>5, <1>6, <2>2, ConstantsAre
    <3>2. kept \in {e, Just(Number(n))}
      BY <2>2, <3>1 DEF Snapshot
    <3>3. IsComputable(Just(Number(n)))
      BY JustIs DEF Number
    <3> QED
      BY <1>5, <3>2, <3>3
  <2> QED
    BY <2>1, <2>2
<1>8. Good(t) /\ s.name \in DOMAIN t
  BY <1>2, <1>4, NamesAreNotNone, InternedOne
<1>9. AlikeBut(table, t, {})
  BY <1>4, InternAlike, AlikeSteps
<1>10. IsSymbol(t[s.name])
  BY <1>8 DEF Good, IsTable
<1> HIDE DEF t, kept, once
<1>11. r.is = "expr" /\ r.expr = kept /\ IsSymbol(r) /\ r.sizeFrom = t[s.name].sizeFrom
  BY <1>10, AsExprIs DEF AsExpr, IsSymbol, Fields
<1> HIDE DEF r
<1>12. Good(w)
  BY <1>8, <1>11, Changed
<1>13. DefinitionsKept(Settled(w, s.name, s))
  BY <1>2, <1>7, <1>8, <1>9, <1>11, <1>12, DefinedKept
<1>14. /\ DefinitionsKept(WithPositions(t, s.exprs))
       /\ DefinitionsKept(WithPositions(known, s.exprs))
  BY <1>4, <1>9, PositionsAlike, AlikeSteps, AlikeIsKept
<1> QED
  BY <1>3, <1>13, <1>14

(* So does .size.                                                          *)
LEMMA SizeKept ==
    ASSUME IInv, DefinitionsKept(table), NEW s \in source.statements, DirSize(s)
    PROVE  DefinitionsKept(table')
<1> DEFINE t == Intern(table, {s.name})
           r == [t[s.name] EXCEPT !.size = Bound(t, s.exprs[1], 1)]
           u == [t EXCEPT ![s.name] = r]
<1>1. s.is \notin Nameless
  BY DEF DirSize, Read, Nameless
<1>2. Good(t) /\ s.name \in DOMAIN t
  BY <1>1, NamedStatements, InternedOne DEF IInv
<1>3. IsSymbol(t[s.name])
  BY <1>2 DEF Good, IsTable
<1>4. AlikeBut(table, t, {})
  BY InternAlike
<1>5. table' = WithPositions(u, s.exprs)
  BY DEF DirSize
<1> HIDE DEF t
<1>6. r.is = t[s.name].is /\ r.expr = t[s.name].expr /\ r.was = t[s.name].was
  BY <1>3 DEF IsSymbol, Fields
<1> HIDE DEF r
<1>7. AlikeBut(t, u, {})
  BY <1>2, <1>6, ChangeAlike
<1> HIDE DEF u
<1> QED
  BY <1>4, <1>5, <1>7, PositionsAlike, AlikeSteps, AlikeIsKept

(* So does .comm.                                                          *)
LEMMA CommKept ==
    ASSUME IInv, DefinitionsKept(table), NEW s \in source.statements, DirComm(s)
    PROVE  DefinitionsKept(table')
<1> DEFINE t == Intern(table, {s.name})
           r == [t[s.name] EXCEPT !.is = "common", !.span = This]
<1>1. s.is \notin Nameless
  BY DEF DirComm, Read, Nameless
<1>2. Good(t) /\ s.name \in DOMAIN t
  BY <1>1, NamedStatements, InternedOne DEF IInv
<1>3. IsSymbol(t[s.name])
  BY <1>2 DEF Good, IsTable
<1>4. AlikeBut(table, t, {})
  BY InternAlike
<1>5. table' = [t EXCEPT ![s.name] = r]
  BY <1>2 DEF DirComm, Good, IsTable
<1> HIDE DEF t
<1>6. r.is # "expr"
  BY <1>3 DEF IsSymbol, Fields
<1> HIDE DEF r
<1> QED
  BY <1>2, <1>4, <1>5, <1>6, AlikeIsKept

-----------------------------------------------------------------------------
(* Uses, the invariant and the theorem.                                    *)

(* Whether a use has to stay the number it was.                            *)
Holds(is, e, exprs) ==
    IF is = "data"
      THEN \/ Here \in LeavesOf(exprs)
           \/ \A leaf \in Leaves(e) : leaf[1] \notin {"forward", "backward"}
      ELSE BindsValues

UseKept(u) ==
    /\ u.span \in DOMAIN text
    /\ u.was # Unresolved /\ Holds(text[u.span].is, u.written, text[u.span].exprs) =>
            SaysNumber(u.expr, u.was)

NumbersInv ==
    /\ PlacesInv
    /\ DefinitionsKept(table)
    /\ \A i \in DOMAIN uses : UseKept(uses[i])
    /\ Done => image = [i \in DOMAIN uses |-> FixupValue(table, uses[i].expr)]

(* A value that was a number is written as it, whether its names are       *)
(* replaced or not.                                                        *)
LEMMA DataSays ==
    ASSUME IInv, NEW t, Computable(t), NEW s \in source.statements,
           NEW i \in DOMAIN s.exprs, NEW b, b = Bound(t, s.exprs[i], i),
           ReadAs(t, b) # Unresolved, Holds("data", s.exprs[i], s.exprs)
    PROVE  SaysNumber(
                DataValue(t, IF Here \in LeavesOf(s.exprs) THEN b ELSE s.exprs[i], b),
                ReadAs(t, b))
<1> DEFINE e == s.exprs[i]
           now == IF Here \in LeavesOf(s.exprs) THEN b ELSE e
<1>1. /\ IsComputable(e)
      /\ \A leaf \in Leaves(e) : leaf \in LeavesOf(s.exprs) /\ IsWritten(leaf)
  BY WrittenIsComputable
<1>2. IsComputable(b)
  BY <1>1, BoundIsComputable
<1>3. Constant(t, b) = ReadAs(t, b)
  BY DEF ReadAs
<1>4. PICK n \in Int : ReadAs(t, b) = <<n>>
  BY <1>2, <1>3, ConstantsAre
<1>5. Constant(t, now) = <<n>>
  <2>1. CASE Here \in LeavesOf(s.exprs)
    BY <1>3, <1>4, <2>1
  <2>2. CASE Here \notin LeavesOf(s.exprs)
    <3>1. \A leaf \in Leaves(e) : leaf[1] \notin {"forward", "backward"}
      BY <2>2 DEF Holds
    <3>2. ASSUME NEW leaf \in Leaves(e)
          PROVE  IsNumber(leaf) \/ IsName(leaf)
      BY <1>1, <2>2, <3>1 DEF Forward, Backward, IsWritten
    <3>3. Constant(t, Bound(t, e, i)) = Constant(t, e)
      BY <1>1, <3>2, BoundIsTheSame
    <3> QED
      BY <1>3, <1>4, <2>2, <3>3
  <2> QED
    BY <2>1, <2>2
<1> HIDE DEF now
<1>6. <<n>> # Unresolved /\ <<n>>[1] = n
  BY DEF Unresolved
<1>7. DataValue(t, now, b) = Just(Number(n))
  BY <1>5, <1>6 DEF DataValue
<1>8. SaysNumber(DataValue(t, now, b), ReadAs(t, b))
  BY <1>4, <1>7, JustNumbers
<1> QED
  BY <1>8 DEF now

(* What data and operands emit.                                            *)
LEMMA EmitSays ==
    ASSUME IInv, DefinitionsKept(table), NEW s \in source.statements, DirData(s) \/ Operand(s)
    PROVE  \E left, was :
             /\ Emit(WithPositions(table, s.exprs), s.exprs, left, was)
             /\ \A i \in DOMAIN s.exprs :
                    was[i] # Unresolved /\ Holds(s.is, s.exprs[i], s.exprs) =>
                        SaysNumber(left[i], was[i])
<1> DEFINE t == WithPositions(table, s.exprs)
           bound == BoundItems(t, s.exprs)
           now == IF Here \in LeavesOf(s.exprs) THEN bound ELSE s.exprs
           values == [i \in DOMAIN bound |-> DataValue(t, now[i], bound[i])]
           numbers == [i \in DOMAIN bound |-> ReadAs(t, bound[i])]
           there == [i \in DOMAIN bound |-> NumberThere(t, bound[i])]
<1>1. Computable(t)
  BY PositionsAlike, AlikeIsKept, KeptIsComputable
<1>2. DOMAIN bound = DOMAIN s.exprs /\ \A i \in DOMAIN s.exprs : bound[i] = Bound(t, s.exprs[i], i)
  BY DEF BoundItems
<1>3. CASE DirData(s)
  <2>1. Emit(t, s.exprs, values, numbers) /\ s.is = "data"
    BY <1>3 DEF DirData, Read
  <2> HIDE DEF t, bound
  <2>2. ASSUME NEW i \in DOMAIN s.exprs, numbers[i] # Unresolved,
               Holds(s.is, s.exprs[i], s.exprs)
        PROVE  SaysNumber(values[i], numbers[i])
    <3>1. now[i] = IF Here \in LeavesOf(s.exprs) THEN bound[i] ELSE s.exprs[i]
      OBVIOUS
    <3>2. values[i] = DataValue(t, now[i], bound[i]) /\ numbers[i] = ReadAs(t, bound[i])
      BY <1>2
    <3> HIDE DEF values, numbers, now
    <3>3. SaysNumber(DataValue(t, now[i], bound[i]), ReadAs(t, bound[i]))
      BY <1>1, <1>2, <2>1, <2>2, <3>1, <3>2, DataSays
    <3> QED
      BY <3>2, <3>3
  <2> QED
    BY <2>1, <2>2 DEF t
<1>4. CASE Operand(s)
  <2>1. Emit(t, s.exprs, bound, there) /\ s.is = "operand"
    BY <1>4 DEF Operand, Read
  <2> HIDE DEF t, bound
  <2>2. ASSUME NEW i \in DOMAIN s.exprs, there[i] # Unresolved,
               Holds(s.is, s.exprs[i], s.exprs)
        PROVE  SaysNumber(bound[i], there[i])
    BY <1>1, <1>2, <2>1, <2>2, WrittenIsComputable, NumbersAreWritten DEF Holds
  <2> QED
    BY <2>1, <2>2 DEF t
<1> QED
  BY <1>3, <1>4

(* A use stays what it is as the text grows.                               *)
LEMMA UseStaysKept ==
    ASSUME PlacesInv, NEW s \in source.statements, text' = Append(text, s),
           source' = source, NEW u, UseKept(u)
    PROVE  UseKept(u)'
<1>1. u.span \in DOMAIN text' /\ text'[u.span] = text[u.span]
  BY TextGrows DEF UseKept
<1>2. PICK is, exprs : is = text[u.span].is /\ exprs = text[u.span].exprs
  OBVIOUS
<1>3. Holds(is, u.written, exprs)' <=> Holds(is, u.written, exprs)
  BY DEF Holds, BindsValues
<1> QED
  BY <1>1, <1>2, <1>3 DEF UseKept

(* Data and operands keep the uses.                                        *)
LEMMA EmitKept ==
    ASSUME PlacesInv, DefinitionsKept(table), \A i \in DOMAIN uses : UseKept(uses[i]),
           NEW s \in source.statements, DirData(s) \/ Operand(s)
    PROVE  DefinitionsKept(table') /\ (\A i \in DOMAIN uses : UseKept(uses[i]))'
<1> IInv /\ IsSeq(uses)
  BY DEF PlacesInv
<1>1. PICK left, was :
        /\ Emit(WithPositions(table, s.exprs), s.exprs, left, was)
        /\ \A i \in DOMAIN s.exprs :
                was[i] # Unresolved /\ Holds(s.is, s.exprs[i], s.exprs) =>
                    SaysNumber(left[i], was[i])
  BY EmitSays
<1>2. DefinitionsKept(table')
  BY <1>1, PositionsAlike, AlikeIsKept DEF Emit
<1>3. text' = Append(text, s) /\ source' = source
  BY DEF DirData, Operand, Read
<1>4. /\ This \in DOMAIN text' /\ text'[This] = s
      /\ Len(s.exprs) \in Nat /\ DOMAIN s.exprs = 1..Len(s.exprs)
  BY <1>3, TextGrows, StatementsAreWritten DEF This
<1>5. PICK new :
        /\ new = [i \in DOMAIN s.exprs |-> Use(s.exprs[i], left[i], i, was[i])]
        /\ uses' = uses \o new
  BY <1>1 DEF Emit
<1>6. ASSUME NEW i \in DOMAIN new
      PROVE  UseKept(new[i])'
  <2>1. i \in DOMAIN s.exprs /\ new[i] = Use(s.exprs[i], left[i], i, was[i])
    BY <1>5, <1>6
  <2>2. /\ new[i].span = This /\ new[i].written = s.exprs[i]
        /\ new[i].expr = left[i] /\ new[i].was = was[i]
    BY <2>1 DEF Use
  <2>3. PICK j, w, e, n : j = This /\ w = s.exprs[i] /\ e = left[i] /\ n = was[i]
    OBVIOUS
  <2>4. Holds(s.is, w, s.exprs)' <=> Holds(s.is, w, s.exprs)
    BY <1>3 DEF Holds, BindsValues
  <2>5. n # Unresolved /\ Holds(s.is, w, s.exprs) => SaysNumber(e, n)
    BY <1>1, <2>1, <2>3
  <2> QED
    BY <1>4, <2>2, <2>3, <2>4, <2>5 DEF UseKept
<1>7. IsMadeOf(uses', uses, new)
  BY <1>4, <1>5, Concatenated DEF IsSeq
<1>8. ASSUME NEW i \in DOMAIN uses'
      PROVE  UseKept(uses[i])'
  <2>1. CASE i \in DOMAIN uses /\ uses'[i] = uses[i]
    <3>1. PICK u : u = uses[i]
      OBVIOUS
    <3>2. UseKept(u)'
      BY <1>3, <2>1, <3>1, UseStaysKept
    <3> QED
      BY <2>1, <3>1, <3>2
  <2>2. CASE \E j \in DOMAIN new : uses'[i] = new[j]
    BY <1>6, <2>2
  <2> QED
    BY <1>7, <1>8, <2>1, <2>2 DEF IsMadeOf
<1> QED
  BY <1>2, <1>8

(* Nothing is a use at first, and the names of the prelude are names.      *)
LEMMA InitNumbers == Init => NumbersInv
<1> SUFFICES ASSUME Init PROVE NumbersInv
  OBVIOUS
<1>1. PlacesInv
  BY InitPlaces
<1>2. /\ source \in Sources /\ uses = <<>> /\ phase = "reading"
      /\ DOMAIN table = source.predefined
      /\ \A id \in DOMAIN table : table[id] = AsExpr(Mentioned, Just(Number(7)), 0)
  BY DEF Init
<1>3. /\ AsExpr(Mentioned, Just(Number(7)), 0).expr = Just(Number(7))
      /\ AsExpr(Mentioned, Just(Number(7)), 0).was = Unresolved
  BY DEF AsExpr, Mentioned
<1>4. IsComputable(Just(Number(7)))
  BY JustIs DEF Number
<1>5. \A id \in DOMAIN table : IsName(id)
  BY <1>2, SourcesAssumption
<1>6. DefinitionsKept(table)
  BY <1>2, <1>3, <1>4, <1>5 DEF DefinitionsKept, DefinitionKept
<1> QED
  BY <1>1, <1>2, <1>6 DEF NumbersInv, Done

(* Every step keeps the invariant.                                         *)
LEMMA NextKeepsNumbers == NumbersInv /\ [Next]_vars => NumbersInv'
<1> SUFFICES ASSUME NumbersInv, [Next]_vars PROVE NumbersInv'
  OBVIOUS
<1> PlacesInv /\ IInv /\ DefinitionsKept(table) /\ (\A i \in DOMAIN uses : UseKept(uses[i]))
  BY DEF NumbersInv, PlacesInv
<1>1. PlacesInv'
  BY NextKeepsPlaces
<1>2. source' = source /\ DefinitionsKept(table') => (DefinitionsKept(table))'
  BY DEF DefinitionsKept, DefinitionKept, BindsValues
<1>3. CASE \E s \in source.statements :
             DefineLabel(s) \/ DefineLocal(s) \/ DirSet(s) \/ Assign(s) \/ DirSize(s)
               \/ DirComm(s) \/ DirData(s) \/ Operand(s)
  <2> PICK s \in source.statements :
        DefineLabel(s) \/ DefineLocal(s) \/ DirSet(s) \/ Assign(s) \/ DirSize(s)
          \/ DirComm(s) \/ DirData(s) \/ Operand(s)
    BY <1>3
  <2>1. /\ text' = Append(text, s) /\ source' = source /\ phase' = "reading"
    BY DEF DefineLabel, DefineLocal, DirSet, Assign, DirSize, DirComm, DirData, Operand, Read
  <2>2. DefinitionsKept(table')
    BY LabelKept, LocalKept, SetKept, AssignKept, SizeKept, CommKept, EmitKept
  <2>3. (\A i \in DOMAIN uses : UseKept(uses[i]))'
    <3>1. CASE DirData(s) \/ Operand(s)
      BY <3>1, EmitKept
    <3>2. CASE ~(DirData(s) \/ Operand(s))
      <4>1. uses' = uses
        BY <3>2 DEF DefineLabel, DefineLocal, DirSet, Assign, DirSize, DirComm
      <4>2. ASSUME NEW i \in DOMAIN uses'
            PROVE  UseKept(uses[i])'
        <5>1. PICK u : u = uses[i]
          OBVIOUS
        <5>2. UseKept(u)
          BY <4>1, <4>2, <5>1
        <5>3. UseKept(u)'
          BY <2>1, <5>2, UseStaysKept
        <5> QED
          BY <4>1, <5>1, <5>3
      <4> QED
        BY <4>2
    <3> QED
      BY <3>1, <3>2
  <2> QED
    BY <1>1, <1>2, <2>1, <2>2, <2>3 DEF NumbersInv, Done
<1>4. ASSUME UNCHANGED <<source, text, table, uses>>
      PROVE  (DefinitionsKept(table))' /\ (\A i \in DOMAIN uses : UseKept(uses[i]))'
  BY <1>2, <1>4 DEF UseKept, Holds, BindsValues
<1>5. CASE Finish
  BY <1>1, <1>4, <1>5 DEF Finish, NumbersInv
<1>6. CASE UNCHANGED vars
  BY <1>1, <1>4, <1>6 DEF vars, NumbersInv, Done
<1> QED
  BY <1>3, <1>5, <1>6 DEF Next

(* A definition that is a number is that number to a use of its name.      *)
LEMMA KeptNumbers ==
    ASSUME NEW t, DefinitionsKept(t), BindsValues,
           NEW id \in DOMAIN t, t[id].is = "expr", t[id].was # Unresolved
    PROVE  Constant(t, Just(id)) = t[id].was
<1> DEFINE e == t[id].expr
           values == SymbolValues(t, "ref")
<1>1. IsName(id) /\ OnlyNumbers(e) /\ t[id].was = <<Arithmetic(e)>>
  BY DEF DefinitionsKept, DefinitionKept, SaysNumber
<1>2. PICK n : n = Arithmetic(e)
  OBVIOUS
<1>3. n \in Int /\ Constant(t, e) = <<n>> /\ Eval(t, "ref", e) = Abs(n)
  BY <1>1, <1>2, WrittenNumbers
<1>4. /\ IsNumber(e.l) /\ IsNumber(e.r)
      /\ ~IsPositional(e.l) /\ ~IsPositional(e.r) /\ e.l # None /\ e.r # None
      /\ ~IsNumber(id) /\ ~IsPositional(id) /\ id # None
      /\ ~IsPositional(Number(0)) /\ Number(0) # None /\ IsNumber(Number(0)) /\ Number(0)[2] = 0
  BY <1>1 DEF OnlyNumbers, IsNumber, IsPositional, IsName, None, Number
<1>5. \A inner : /\ LeafValue(t, "ref", inner, e.l) = Abs(e.l[2])
                 /\ LeafValue(t, "ref", inner, e.r) = Abs(e.r[2])
                 /\ LeafValue(t, "ref", inner, Number(0)) = Abs(0)
  BY <1>4 DEF LeafValue
<1>6. Abs(n) = EvalBinary(e.op, Abs(e.l[2]), Abs(e.r[2]))
  BY <1>3, <1>5 DEF Eval
<1>7. values[id] = Abs(n)
  <2>1. PICK inner : values[id] = Followed(t, "ref", inner, id)
    BY SymbolValueIs
  <2>2. Followed(t, "ref", inner, id) = AliasValue(t, "ref", id, Abs(n))
    BY <1>5, <1>6 DEF Followed
  <2> QED
    BY <2>1, <2>2 DEF AliasValue
<1>8. LeafValue(t, "ref", values, id) = Abs(n)
  BY <1>4, <1>7 DEF LeafValue
<1>9. Eval(t, "ref", Just(id)) = EvalBinary("+", Abs(n), Abs(0))
  BY <1>5, <1>8, JustIs DEF Eval
<1>10. EvalBinary("+", Abs(n), Abs(0)) = Abs(n)
  <2>1. EvalBinary("+", Abs(n), Abs(0)) = Abs(n + 0)
    BY <1>3, NumbersAreComputed DEF Operators
  <2> QED
    BY <1>3, <2>1
<1>11. IsAbs(Abs(n)) /\ Abs(n).addend = n
  BY DEF IsAbs, Abs, Value
<1> QED
  BY <1>1, <1>2, <1>9, <1>10, <1>11 DEF Constant

(* Whatever is said of the names in it later, a value that was a number    *)
(* when it was read fills its field with that number, and in the dialects  *)
(* whose uses mean the value a name has there, so do operands and          *)
(* definitions whose names were numbers, for every source and of whatever  *)
(* length (emit_value_of, bind_set_values).                                *)
THEOREM ReadNumbersStay == Spec => []NumbersStay
<1>1. NumbersInv => NumbersStay
  <2> SUFFICES ASSUME NumbersInv, Done PROVE NumbersStay
    BY DEF NumbersStay
  <2>1. ASSUME NEW i \in DOMAIN uses, uses[i].was # Unresolved,
               IF text[uses[i].span].is = "data" THEN IsReadBound(uses[i]) ELSE BindsValues
        PROVE  image[i] = uses[i].was
    BY <2>1, WrittenNumbers DEF Holds, IsReadBound, NumbersInv, UseKept, SaysNumber
  <2>2. ASSUME BindsValues, NEW id \in ExprIds, table[id].was # Unresolved
        PROVE  Constant(table, Just(id)) = table[id].was
    BY <2>2, KeptNumbers DEF NumbersInv, ExprIds
  <2> QED
    BY <2>1, <2>2 DEF NumbersStay
<1> QED
  BY InitNumbers, NextKeepsNumbers, <1>1, PTL DEF Spec
-----------------------------------------------------------------------------
(***************************************************************************)
(* The literal pools of ARM, for every set of literals, every size a pool  *)
(* may have and every number of requests.                                  *)
(***************************************************************************)
SlotType == [value : Seq(Nat), padding : BOOLEAN]
UseType == [slot : Nat, value : Literals]

(* TypeOK bounds the sequences; this is what they are sequences of.        *)
PoolInv ==
    /\ poolSlots \in Seq(SlotType)
    /\ loads \in Seq(UseType)
    /\ refused \subseteq Nat
    /\ PoolTypeOK
    /\ WideUsesAreAligned

(* The walk of the slots stops at the first of those it may stop at.       *)
LEMMA FirstOfNaturals ==
    ASSUME NEW ks \in SUBSET Nat, ks # {}
    PROVE  \E k \in ks : \A j \in ks : k <= j
<1> DEFINE Less == {ss \in Nat \X Nat : ss[1] < ss[2]}
<1>1. IsWellFoundedOn(Less, Nat)
  BY Zenon, NatLessThanWellFounded DEF OpToRel
<1> HIDE DEF Less
<1>2. PICK k \in ks : \A j \in ks : ~ (<<j, k>> \in Less)
  BY <1>1, WFMin
<1>3. ASSUME NEW j \in ks PROVE k <= j
  <2>1. ~ (<<j, k>> \in Less)
    BY <1>2
  <2>2. <<j, k>> \in Nat \X Nat /\ ~ (<<j, k>>[1] < <<j, k>>[2])
    BY <2>1 DEF Less
  <2> QED
    BY <2>2
<1> QED
  BY <1>3

(* A literal's entry is a slot the walk stops at, or past them all.        *)
LEMMA EntryStops ==
    ASSUME poolSlots \in Seq(SlotType), NEW v
    PROVE  /\ Entry(v) \in 0..Len(poolSlots)
           /\ Entry(v) < Len(poolSlots) => StopsAt(Entry(v), v)
<1> DEFINE stops == {e \in 0..Len(poolSlots) - 1 : StopsAt(e, v)}
<1>1. Len(poolSlots) \in Nat
  OBVIOUS
<1>2. Entry(v) = IF stops = {} THEN Len(poolSlots)
                 ELSE CHOOSE e \in stops : \A f \in stops : e <= f
  BY Zenon DEF Entry
<1>3. \A e \in stops : e \in 0..Len(poolSlots) - 1 /\ StopsAt(e, v)
  BY Zenon
<1> HIDE DEF stops
<1>4. CASE stops = {}
  BY <1>1, <1>2, <1>4
<1>5. CASE stops # {}
  <2>1. stops \in SUBSET Nat
    BY <1>1, <1>3
  <2>2. \E e \in stops : \A f \in stops : e <= f
    BY Zenon, <1>5, <2>1, FirstOfNaturals
  <2>3. Entry(v) \in stops
    BY Zenon, <1>2, <1>5, <2>2
  <2> QED
    BY <1>1, <1>3, <2>3
<1> QED
  BY <1>4, <1>5

(* An empty table of entries satisfies the invariant.                      *)
LEMMA InitInv == PoolInit => PoolInv
BY BoundsAssumption DEF PoolInit, PoolInv, PoolTypeOK, WideUsesAreAligned

(* Serving one more load keeps the invariant when its slot is there, and   *)
(* is aligned if the literal is wide, unless the load is refused.          *)
LEMMA UseKeepsInv ==
    ASSUME PoolInv, NEW v \in Literals, NEW e \in Nat,
           loads' = Append(loads, Load(e, v)),
           poolSlots' \in Seq(SlotType),
           Len(poolSlots) <= Len(poolSlots'), Len(poolSlots') <= MaxEntries,
           e < Len(poolSlots'),
           refused \subseteq refused', refused' \subseteq Nat,
           Len(v) = 2 /\ Len(loads) + 1 \notin refused' => e % 2 = 0
    PROVE  PoolInv'
<1> USE DEF Load
<1>1. /\ poolSlots \in Seq(SlotType) /\ Len(poolSlots) \in Nat /\ Len(poolSlots') \in Nat
      /\ loads \in Seq(UseType) /\ Len(loads) \in Nat
      /\ PoolTypeOK /\ WideUsesAreAligned
  BY DEF PoolInv
<1>2. [slot |-> e, value |-> v] \in UseType
  BY DEF UseType
<1>3. loads' \in Seq(UseType) /\ DOMAIN loads' = 1..Len(loads) + 1
  BY <1>1, <1>2
<1>4. \A i \in 1..Len(loads) : loads'[i] = loads[i] /\ loads[i] \in UseType
  BY <1>1
<1>5. loads'[Len(loads) + 1] = [slot |-> e, value |-> v]
  BY <1>1
<1>6. ASSUME NEW i \in DOMAIN loads'
      PROVE  /\ loads'[i].slot \in 0..Len(poolSlots') - 1
             /\ loads'[i].value \in Literals
             /\ i \notin refused' /\ Len(loads'[i].value) = 2 => loads'[i].slot % 2 = 0
  <2>1. CASE i = Len(loads) + 1
    BY <1>1, <1>5, <2>1
  <2>2. CASE i # Len(loads) + 1
    <3>1. i \in 1..Len(loads) /\ i \in DOMAIN loads
      BY <1>1, <1>3, <2>2
    <3>2. loads'[i] = loads[i] /\ loads[i].slot \in Nat
      BY <1>4, <3>1 DEF UseType
    <3>3. loads[i].slot \in 0..Len(poolSlots) - 1 /\ loads[i].value \in Literals
      BY <1>1, <3>1 DEF PoolTypeOK
    <3>4. i \notin refused /\ Len(loads[i].value) = 2 => loads[i].slot % 2 = 0
      BY <1>1, <3>1 DEF WideUsesAreAligned
    <3> QED
      BY <1>1, <3>2, <3>3, <3>4
  <2> QED
    BY <2>1, <2>2
<1>7. PoolTypeOK'
  BY <1>6 DEF PoolTypeOK
<1>8. WideUsesAreAligned'
  BY <1>6 DEF WideUsesAreAligned
<1> QED
  BY <1>3, <1>7, <1>8 DEF PoolInv

(* The slots of a literal that is appended, and where they start.          *)
LEMMA AppendedSlots ==
    ASSUME poolSlots \in Seq(SlotType), NEW v \in Literals
    PROVE  /\ AddedSlots(v) \in Seq(SlotType)
           /\ Len(AddedSlots(v)) = Needed(v)
           /\ EntryAfter(v) \in Nat
           /\ EntryAfter(v) + Len(v) = Len(poolSlots) + Needed(v)
           /\ Len(v) = 2 => EntryAfter(v) % 2 = 0
<1>1. v \in Seq(Nat) /\ Len(v) \in {1, 2} /\ Len(poolSlots) \in Nat
  BY LiteralsAssumption
<1>2. PaddingBefore(v) \in Seq(SlotType)
  <2>1. <<0>> \in Seq(Nat)
    OBVIOUS
  <2>2. PoolSlot(<<0>>, TRUE) \in SlotType
    BY <2>1 DEF PoolSlot, SlotType
  <2>3. <<PoolSlot(<<0>>, TRUE)>> \in Seq(SlotType)
    <3>1. \A slot \in SlotType : <<slot>> \in Seq(SlotType)
      OBVIOUS
    <3> QED
      BY Zenon, <2>2, <3>1
  <2>4. <<>> \in Seq(SlotType)
    OBVIOUS
  <2> QED
    BY Zenon, <2>3, <2>4 DEF PaddingBefore
<1>3. Len(PaddingBefore(v)) = IF Len(v) = 2 /\ Len(poolSlots) % 2 = 1 THEN 1 ELSE 0
  BY DEF PaddingBefore
<1> DEFINE own == [i \in DOMAIN v |-> PoolSlot(<<v[i]>>, FALSE)]
<1>4. DOMAIN v = 1..Len(v) /\ Len(v) \in Nat
  BY <1>1
<1>5. \A i \in DOMAIN v : PoolSlot(<<v[i]>>, FALSE) \in SlotType
  BY <1>1, <1>4 DEF PoolSlot, SlotType
<1>6. own \in Seq(SlotType) /\ Len(own) = Len(v)
  <2>1. own \in [1..Len(v) -> SlotType] /\ DOMAIN own = 1..Len(v)
    BY <1>4, <1>5
  <2> HIDE DEF own
  <2> QED
    BY <1>4, <2>1
<1> HIDE DEF own
<1>7. /\ PaddingBefore(v) \o own \in Seq(SlotType)
      /\ Len(PaddingBefore(v) \o own) = Len(PaddingBefore(v)) + Len(v)
  BY <1>2, <1>6
<1>8. Len(PaddingBefore(v) \o own) = Needed(v)
  BY <1>1, <1>3, <1>7 DEF Needed
<1>9. EntryAfter(v) = Len(poolSlots) + Len(PaddingBefore(v))
  BY DEF EntryAfter
<1>10. EntryAfter(v) \in Nat /\ (Len(v) = 2 => EntryAfter(v) % 2 = 0)
  <2>1. CASE Len(v) = 2 /\ Len(poolSlots) % 2 = 1
    BY <1>1, <1>3, <1>9, <2>1
  <2>2. CASE ~ (Len(v) = 2 /\ Len(poolSlots) % 2 = 1)
    <3>1. Len(poolSlots) % 2 \in {0, 1}
      BY <1>1
    <3>2. EntryAfter(v) = Len(poolSlots)
      BY <1>1, <1>3, <1>9, <2>2
    <3> QED
      BY <1>1, <2>2, <3>1, <3>2
  <2> QED
    BY <2>1, <2>2
<1>11. EntryAfter(v) + Len(v) = Len(poolSlots) + Needed(v)
  BY <1>1, <1>3, <1>9 DEF Needed
<1> QED
  BY <1>7, <1>8, <1>10, <1>11 DEF own, AddedSlots

(* A literal that is found is read where it was found.                     *)
LEMMA ShareKeepsInv ==
    ASSUME PoolInv, NEW v \in Literals, Share(v)
    PROVE  PoolInv'
<1> DEFINE e == Entry(v)
<1>1. poolSlots \in Seq(SlotType) /\ Len(poolSlots) \in Nat /\ Len(poolSlots) <= MaxEntries
      /\ refused \subseteq Nat
  BY DEF PoolInv, PoolTypeOK
<1>2. e \in 0..Len(poolSlots) /\ e < Len(poolSlots) /\ StopsAt(e, v)
  BY <1>1, EntryStops DEF Share
<1>3. Len(v) = 2 => e % 2 = 0
  BY <1>2 DEF StopsAt, Matches
<1>4. /\ loads' = Append(loads, Load(e, v))
      /\ poolSlots' = IF TakenForPadding(e, v)
                    THEN [poolSlots EXCEPT ![e + 1] = PoolSlot(v, FALSE)] ELSE poolSlots
      /\ refused' = refused
  BY DEF Share
<1> HIDE DEF e
<1>5. PoolSlot(v, FALSE) \in SlotType
  BY LiteralsAssumption DEF PoolSlot, SlotType
<1>6. poolSlots' \in Seq(SlotType) /\ Len(poolSlots') = Len(poolSlots)
  <2>1. CASE TakenForPadding(e, v)
    <3>1. poolSlots' = [poolSlots EXCEPT ![e + 1] = PoolSlot(v, FALSE)]
      BY <1>4, <2>1
    <3> QED
      <4>1. poolSlots \in [1..Len(poolSlots) -> SlotType] /\ e + 1 \in 1..Len(poolSlots)
        BY <1>1, <1>2
      <4>2. poolSlots' \in [1..Len(poolSlots) -> SlotType] /\ DOMAIN poolSlots' = 1..Len(poolSlots)
        BY Zenon, <1>5, <3>1, <4>1
      <4> QED
        BY <1>1, <4>2
  <2>2. CASE ~ TakenForPadding(e, v)
    BY <1>1, <1>4, <2>2
  <2> QED
    BY <2>1, <2>2
<1>7. e \in Nat /\ e < Len(poolSlots') /\ Len(poolSlots) <= Len(poolSlots') /\ Len(poolSlots') <= MaxEntries
  BY <1>1, <1>2, <1>6
<1>8. refused \subseteq refused' /\ refused' \subseteq Nat
  BY <1>1, <1>4
<1>9. loads' = Append(loads, Load(e, v))
  BY <1>4
<1> QED
  BY Zenon, <1>3, <1>6, <1>7, <1>8, <1>9, UseKeepsInv

(* A literal that is appended is read where its own slots start.           *)
LEMMA AppendKeepsInv ==
    ASSUME PoolInv, NEW v \in Literals, AppendSlots(v)
    PROVE  PoolInv'
<1>1. poolSlots \in Seq(SlotType) /\ Len(poolSlots) \in Nat /\ refused \subseteq Nat
  BY DEF PoolInv
<1>2. /\ AddedSlots(v) \in Seq(SlotType) /\ Len(AddedSlots(v)) = Needed(v)
      /\ EntryAfter(v) \in Nat
      /\ EntryAfter(v) + Len(v) = Len(poolSlots) + Needed(v)
      /\ Len(v) = 2 => EntryAfter(v) % 2 = 0
  BY <1>1, AppendedSlots
<1>3. /\ poolSlots' = poolSlots \o AddedSlots(v)
      /\ loads' = Append(loads, Load(EntryAfter(v), v))
      /\ refused' = refused
      /\ Len(poolSlots) + Needed(v) <= MaxEntries
  BY DEF AppendSlots
<1>4. poolSlots' \in Seq(SlotType) /\ Len(poolSlots') = Len(poolSlots) + Needed(v)
      /\ Needed(v) \in Nat
  BY <1>1, <1>2, <1>3
<1>5. Len(v) \in {1, 2}
  BY LiteralsAssumption
<1>6. /\ EntryAfter(v) < Len(poolSlots')
      /\ Len(poolSlots) <= Len(poolSlots') /\ Len(poolSlots') <= MaxEntries
  <2>1. MaxEntries \in Nat
    BY BoundsAssumption
  <2>2. Len(poolSlots') = Len(poolSlots) + Needed(v) /\ Needed(v) \in Nat
    BY <1>4
  <2>3. EntryAfter(v) \in Nat /\ EntryAfter(v) + Len(v) = Len(poolSlots')
    BY <1>2, <2>2
  <2>4. EntryAfter(v) < Len(poolSlots')
    <3>1. \A start, width, end \in Nat :
              width \in {1, 2} /\ start + width = end => start < end
      OBVIOUS
    <3>2. Len(v) \in Nat /\ Len(poolSlots') \in Nat
      BY <1>1, <1>5, <2>2
    <3> QED
      BY Zenon, <1>5, <2>3, <3>1, <3>2
  <2>5. Len(poolSlots) <= Len(poolSlots') /\ Len(poolSlots') <= MaxEntries
    BY <1>1, <1>3, <2>1, <2>2
  <2> QED
    BY <2>4, <2>5
<1>7. refused \subseteq refused' /\ refused' \subseteq Nat
  BY <1>1, <1>3
<1>8. loads' = Append(loads, Load(EntryAfter(v), v))
  BY <1>3
<1> QED
  BY Zenon, <1>2, <1>4, <1>6, <1>7, <1>8, UseKeepsInv

(* A literal the pool has no slot for reads the last one there is.         *)
LEMMA RefuseKeepsInv ==
    ASSUME PoolInv, NEW v \in Literals, Refuse(v)
    PROVE  PoolInv'
<1>1. /\ poolSlots \in Seq(SlotType) /\ Len(poolSlots) \in Nat /\ Len(poolSlots) <= MaxEntries
      /\ loads \in Seq(UseType) /\ Len(loads) \in Nat
      /\ refused \subseteq Nat
  BY DEF PoolInv, PoolTypeOK
<1>2. /\ poolSlots' = poolSlots
      /\ refused' = refused \cup {Len(loads) + 1}
      /\ loads' = IF Len(poolSlots) > 0 THEN Append(loads, Load(Len(poolSlots) - 1, v)) ELSE loads
  BY DEF Refuse
<1>3. Len(poolSlots) > 0
  <2>1. Len(v) \in {1, 2} /\ MaxEntries \in Nat /\ MaxEntries > 2
    BY LiteralsAssumption, BoundsAssumption
  <2>2. Len(poolSlots) + Needed(v) > MaxEntries
    BY DEF Refuse
  <2>3. ASSUME Len(poolSlots) = 0 PROVE FALSE
    <3>1. Needed(v) \in {1, 2}
      BY <2>1, <2>3 DEF Needed, PaddingBefore
    <3> QED
      BY <2>1, <2>2, <2>3, <3>1
  <2> QED
    BY <1>1, <2>3
<1>4. loads' = Append(loads, Load(Len(poolSlots) - 1, v))
  BY Zenon, <1>2, <1>3
<1>5. Len(loads) + 1 \in refused' /\ refused' \subseteq Nat /\ refused \subseteq refused'
  <2>1. refused' = refused \cup {Len(loads) + 1}
    BY <1>2
  <2>2. refused \subseteq Nat /\ Len(loads) + 1 \in Nat
    BY <1>1
  <2> QED
    BY Zenon, <2>1, <2>2
<1>6. /\ Len(poolSlots) - 1 \in Nat /\ Len(poolSlots) - 1 < Len(poolSlots')
      /\ Len(poolSlots) <= Len(poolSlots') /\ Len(poolSlots') <= MaxEntries
      /\ poolSlots' \in Seq(SlotType)
  BY <1>1, <1>2, <1>3, BoundsAssumption
<1> QED
  BY Zenon, <1>4, <1>5, <1>6, UseKeepsInv

(* Every step keeps the invariant: the inductive step of the theorems      *)
(* below.                                                                  *)
LEMMA NextKeepsInv == PoolInv /\ [PoolNext]_poolVars => PoolInv'
<1> SUFFICES ASSUME PoolInv, [PoolNext]_poolVars PROVE PoolInv'
  OBVIOUS
<1>1. CASE UNCHANGED poolVars
  BY <1>1 DEF poolVars, PoolInv, PoolTypeOK, WideUsesAreAligned
<1>2. ASSUME NEW v \in Literals, Share(v) PROVE PoolInv'
  BY <1>2, ShareKeepsInv
<1>3. ASSUME NEW v \in Literals, AppendSlots(v) PROVE PoolInv'
  BY <1>3, AppendKeepsInv
<1>4. ASSUME NEW v \in Literals, Refuse(v) PROVE PoolInv'
  BY <1>4, RefuseKeepsInv
<1> QED
  BY <1>1, <1>2, <1>3, <1>4 DEF PoolNext

(* No load of a pool, shared, appended or refused, names a slot past the   *)
(* pool's end (flush_literal_slots).                                       *)
THEOREM SlotsExist == PoolSpec => []PoolTypeOK
<1>1. PoolInv => PoolTypeOK
  BY DEF PoolInv
<1> QED
  BY <1>1, InitInv, NextKeepsInv, PTL DEF PoolSpec

(* An eight-byte load that is not refused reads at a multiple of eight,    *)
(* whatever slots were shared, taken over or added as padding before       *)
(* (flush_literal_slots).                                                  *)
THEOREM WideLoadsAreAligned == PoolSpec => []WideUsesAreAligned
<1>1. PoolInv => WideUsesAreAligned
  BY DEF PoolInv
<1> QED
  BY <1>1, InitInv, NextKeepsInv, PTL DEF PoolSpec

-----------------------------------------------------------------------------
(* What the slots hold.  The search for an eight-byte literal compares all *)
(* the bits of a slot with those of a half, so that a half of zero is      *)
(* found in padding, which is taken over later: the literals here have     *)
(* none.                                                                   *)
HalvesAreNonzero ==
    \A v \in Literals : Len(v) = 2 => v[1] # 0 /\ v[2] # 0

(* A slot rewritten to emit eight bytes leaves the second half of the pair *)
(* behind it.                                                              *)
SlotsAreWhole ==
    \A k \in DOMAIN poolSlots :
        /\ Len(poolSlots[k].value) \in {1, 2}
        /\ poolSlots[k].padding => poolSlots[k].value = <<0>>
        /\ IsWide(poolSlots[k]) =>
              /\ poolSlots[k].value \in Literals
              /\ k + 1 \in DOMAIN poolSlots
              /\ ~poolSlots[k + 1].padding
              /\ poolSlots[k + 1].value[1] = poolSlots[k].value[2]

(* The words of a literal start the slots from its entry on.               *)
SlotsHold(e, v) ==
    \A j \in DOMAIN v :
        /\ e + j \in DOMAIN poolSlots
        /\ ~poolSlots[e + j].padding
        /\ poolSlots[e + j].value[1] = v[j]

UsesHold ==
    \A i \in DOMAIN loads : i \notin refused => SlotsHold(loads[i].slot, loads[i].value)

(* What a step leaves of every slot that is not padding.                   *)
SlotsStand ==
    \A k \in DOMAIN poolSlots :
        /\ k \in DOMAIN poolSlots'
        /\ ~poolSlots[k].padding =>
              ~poolSlots'[k].padding /\ poolSlots'[k].value[1] = poolSlots[k].value[1]

WholeInv == PoolInv /\ SlotsAreWhole /\ UsesHold

(* Uses that were served stay served, and so is the next one.              *)
LEMMA UsesStayServed ==
    ASSUME PoolInv, UsesHold, SlotsStand, NEW v \in Literals, NEW e \in Nat,
           loads' = Append(loads, Load(e, v)), refused \subseteq refused',
           Len(loads) + 1 \notin refused' => SlotsHold(e, v)'
    PROVE  UsesHold'
<1>1. loads \in Seq(UseType) /\ Len(loads) \in Nat
  BY DEF PoolInv
<1>2. Load(e, v) \in UseType /\ Load(e, v).slot = e /\ Load(e, v).value = v
  BY DEF Load, UseType
<1>3. /\ DOMAIN loads' = 1..Len(loads) + 1 /\ loads'[Len(loads) + 1] = Load(e, v)
      /\ \A i \in 1..Len(loads) : loads'[i] = loads[i]
  BY <1>1, <1>2
<1>4. ASSUME NEW i \in DOMAIN loads', i \notin refused'
      PROVE  SlotsHold(loads[i].slot, loads[i].value)'
  <2>1. CASE i = Len(loads) + 1
    BY <1>2, <1>3, <1>4, <2>1 DEF SlotsHold
  <2>2. CASE i # Len(loads) + 1
    <3>1. i \in DOMAIN loads /\ loads'[i] = loads[i] /\ i \notin refused
      BY <1>1, <1>3, <1>4, <2>2
    <3>2. PICK d, w : d = loads[i].slot /\ w = loads[i].value
      OBVIOUS
    <3>3. SlotsHold(d, w)
      BY <3>1, <3>2 DEF UsesHold
    <3>4. SlotsHold(d, w)'
      BY <3>3 DEF SlotsHold, SlotsStand
    <3> QED
      BY <3>1, <3>2, <3>4 DEF SlotsHold
  <2> QED
    BY <2>1, <2>2
<1> QED
  BY <1>4 DEF UsesHold

(* A word that is not zero is only found in a slot of that word.           *)
LEMMA WordsAreFound ==
    ASSUME HalvesAreNonzero, SlotsAreWhole, NEW k \in DOMAIN poolSlots, NEW w \in Nat, w # 0,
           IsWord(poolSlots[k].value, w)
    PROVE  poolSlots[k].value = <<w>> /\ ~poolSlots[k].padding
<1>1. PICK value : value = poolSlots[k].value
  OBVIOUS
<1>2. value # <<w, 0>>
  <2>1. ASSUME value = <<w, 0>>
        PROVE  FALSE
    <3>1. Len(value) = 2 /\ value[2] = 0
      BY <2>1
    <3>2. value \in Literals
      BY <1>1, <3>1 DEF SlotsAreWhole, IsWide
    <3> QED
      BY <3>1, <3>2 DEF HalvesAreNonzero
  <2> QED
    BY <2>1
<1>3. value = <<w>>
  BY <1>1, <1>2 DEF IsWord
<1>4. <<w>> # <<0>>
  OBVIOUS
<1> QED
  BY <1>1, <1>3, <1>4 DEF SlotsAreWhole

(* A shared literal is in the slots from its entry on.                     *)
LEMMA SharedIsHeld ==
    ASSUME HalvesAreNonzero, PoolInv, SlotsAreWhole, NEW v \in Literals, Share(v),
           NEW e, e = Entry(v)
    PROVE  SlotsAreWhole' /\ SlotsStand /\ SlotsHold(e, v)'
<1>1. poolSlots \in Seq(SlotType) /\ Len(poolSlots) \in Nat /\ DOMAIN poolSlots = 1..Len(poolSlots)
  BY DEF PoolInv
<1>2. v \in Seq(Nat) /\ Len(v) \in {1, 2} /\ DOMAIN v = 1..Len(v)
  BY LiteralsAssumption
<1>3. e = Entry(v)
  OBVIOUS
<1>4. e \in 0..Len(poolSlots) - 1 /\ StopsAt(e, v)
  BY <1>1, <1>3, EntryStops DEF Share
<1>5. poolSlots' = IF TakenForPadding(e, v) THEN [poolSlots EXCEPT ![e + 1] = PoolSlot(v, FALSE)] ELSE poolSlots
  BY <1>3 DEF Share
<1>6. /\ PoolSlot(v, FALSE).value = v /\ ~ PoolSlot(v, FALSE).padding
  BY DEF PoolSlot
<1>7. PICK k : k = e + 1
  OBVIOUS
<1>8. k \in DOMAIN poolSlots /\ k \in Nat
  BY <1>1, <1>4, <1>7
<1>9. /\ DOMAIN poolSlots' = DOMAIN poolSlots
      /\ poolSlots'[k] = poolSlots[k] \/ poolSlots'[k] = PoolSlot(v, FALSE)
      /\ \A m \in DOMAIN poolSlots : m # k => poolSlots'[m] = poolSlots[m]
  BY <1>1, <1>5, <1>7, <1>8
<1>11. /\ ~poolSlots'[k].padding
       /\ poolSlots'[k].value[1] = v[1]
       /\ poolSlots'[k].value = v \/ Len(poolSlots'[k].value) = 1
       /\ ~poolSlots[k].padding => poolSlots[k].value[1] = v[1]
       /\ Len(v) = 2 => /\ k + 1 \in DOMAIN poolSlots
                        /\ ~poolSlots[k + 1].padding /\ poolSlots[k + 1].value[1] = v[2]
  <2>1. PICK before, after : before = poolSlots[k] /\ after = poolSlots'[k]
    OBVIOUS
  <2>2. PICK own : own = PoolSlot(v, FALSE)
    OBVIOUS
  <2>3. (after = before \/ after = own) /\ own.value = v /\ ~own.padding
    BY <1>6, <1>9, <2>1, <2>2
  <2>4. CASE Len(v) = 1 /\ Matches(e, v)
    BY <1>7, <2>1, <2>3, <2>4 DEF Matches
  <2>5. CASE Len(v) = 2 /\ Matches(e, v)
    <3>1. e + 2 = k + 1 /\ k + 1 \in DOMAIN poolSlots
      BY <1>1, <1>4, <1>7, <2>5 DEF Matches
    <3>2. IsWord(poolSlots[k].value, v[1]) /\ IsWord(poolSlots[k + 1].value, v[2])
      BY <1>7, <2>5, <3>1 DEF Matches
    <3>3. v[1] \in Nat /\ v[2] \in Nat /\ v[1] # 0 /\ v[2] # 0
      BY <1>2, <2>5 DEF HalvesAreNonzero
    <3>4. before.value = <<v[1]>> /\ ~before.padding
      BY <1>8, <2>1, <3>2, <3>3, WordsAreFound
    <3>5. poolSlots[k + 1].value = <<v[2]>> /\ ~poolSlots[k + 1].padding
      BY <3>1, <3>2, <3>3, WordsAreFound
    <3>6. ~after.padding /\ (after.value = <<v[1]>> \/ after.value = v)
      BY <2>3, <3>4
    <3> QED
      BY <2>1, <3>1, <3>4, <3>5, <3>6
  <2>6. CASE ~ Matches(e, v)
    <3>1. Len(v) = 1 /\ before.padding
      BY <1>4, <1>7, <2>1, <2>6 DEF StopsAt
    <3>2. TakenForPadding(e, v)
      BY <1>7, <2>1, <2>6, <3>1 DEF TakenForPadding
    <3>3. poolSlots' = [poolSlots EXCEPT ![k] = own]
      BY <1>5, <1>7, <2>2, <3>2
    <3>4. after = own
      BY <1>8, <2>1, <3>3
    <3> QED
      BY <2>1, <2>3, <3>1, <3>4
  <2> QED
    BY <1>2, <2>4, <2>5, <2>6
<1>12. SlotsStand
  <2>1. ASSUME NEW m \in DOMAIN poolSlots, ~poolSlots[m].padding
        PROVE  ~poolSlots'[m].padding /\ poolSlots'[m].value[1] = poolSlots[m].value[1]
    BY <1>9, <1>11, <2>1
  <2> QED
    BY <1>9, <2>1 DEF SlotsStand
<1>13. ASSUME NEW m \in DOMAIN poolSlots'
       PROVE  /\ Len(poolSlots'[m].value) \in {1, 2}
              /\ poolSlots'[m].padding => poolSlots'[m].value = <<0>>
              /\ IsWide(poolSlots'[m]) =>
                    /\ poolSlots'[m].value \in Literals
                    /\ m + 1 \in DOMAIN poolSlots'
                    /\ ~poolSlots'[m + 1].padding
                    /\ poolSlots'[m + 1].value[1] = poolSlots'[m].value[2]
  <2>1. CASE m = k
    <3>1. k + 1 # k
      BY <1>8
    <3>2. IsWide(poolSlots'[m]) => poolSlots'[m].value = v /\ Len(v) = 2
      BY <1>11, <2>1 DEF IsWide
    <3>3. Len(poolSlots'[m].value) \in {1, 2}
      BY <1>2, <1>11, <2>1
    <3> QED
      BY <1>9, <1>11, <2>1, <3>1, <3>2, <3>3
  <2>2. CASE m # k
    BY <1>9, <1>12, <2>2 DEF SlotsAreWhole, SlotsStand
  <2> QED
    BY <2>1, <2>2
<1>14. SlotsAreWhole'
  BY <1>13 DEF SlotsAreWhole
<1>15. ASSUME NEW j \in DOMAIN v
       PROVE  /\ e + j \in DOMAIN poolSlots'
              /\ ~poolSlots'[e + j].padding
              /\ poolSlots'[e + j].value[1] = v[j]
  <2>1. CASE j = 1
    BY <1>7, <1>8, <1>9, <1>11, <2>1
  <2>2. CASE j = 2
    <3>1. Len(v) = 2 /\ e + j = k + 1 /\ k + 1 # k
      BY <1>2, <1>4, <1>7, <2>2, SMTT(30)
    <3> QED
      BY <1>9, <1>11, <2>2, <3>1
  <2> QED
    BY <1>2, <2>1, <2>2
<1>16. SlotsHold(e, v)'
  BY <1>15 DEF SlotsHold
<1> QED
  BY <1>12, <1>14, <1>16

(* The slots a literal adds hold a word each, in front of them the padding.*)
LEMMA AddedHoldWords ==
    ASSUME NEW v \in Literals
    PROVE  /\ Len(PaddingBefore(v)) \in Nat
           /\ Len(AddedSlots(v)) = Len(PaddingBefore(v)) + Len(v)
           /\ \A j \in 1..Len(AddedSlots(v)) :
                 AddedSlots(v)[j] = IF j <= Len(PaddingBefore(v)) THEN PoolSlot(<<0>>, TRUE)
                               ELSE PoolSlot(<<v[j - Len(PaddingBefore(v))]>>, FALSE)
<1>1. v \in Seq(Nat) /\ Len(v) \in {1, 2} /\ DOMAIN v = 1..Len(v) /\ Len(v) \in Nat
  BY LiteralsAssumption
<1>2. PICK pad, own : pad = PaddingBefore(v) /\ own = [i \in 1..Len(v) |-> PoolSlot(<<v[i]>>, FALSE)]
  OBVIOUS
<1>3. PICK zero : zero = PoolSlot(<<0>>, TRUE)
  OBVIOUS
<1>4. zero \in SlotType /\ \A w \in Nat : PoolSlot(<<w>>, FALSE) \in SlotType
  BY <1>3 DEF PoolSlot, SlotType
<1>5. /\ Len(pad) \in Nat /\ pad \in Seq(SlotType)
      /\ \A j \in 1..Len(pad) : pad[j] = zero
  <2>1. pad = <<>> \/ pad = <<zero>>
    BY <1>2, <1>3 DEF PaddingBefore
  <2>2. \A slot \in SlotType : <<slot>> \in Seq(SlotType) /\ Len(<<slot>>) = 1
    OBVIOUS
  <2>3. CASE pad = <<>>
    BY <2>3
  <2>4. CASE pad = <<zero>>
    BY <1>4, <2>2, <2>4
  <2> QED
    BY <2>1, <2>3, <2>4
<1>6. own \in Seq(SlotType) /\ Len(own) = Len(v)
      /\ \A j \in 1..Len(v) : own[j] = PoolSlot(<<v[j]>>, FALSE)
  <2>1. ASSUME NEW j \in 1..Len(v)
        PROVE  PoolSlot(<<v[j]>>, FALSE) \in SlotType
    BY <1>1, <1>4, ElementOfSeq
  <2>2. own \in [1..Len(v) -> SlotType]
    BY <1>2, <2>1
  <2>3. own \in Seq(SlotType) /\ Len(own) = Len(v)
    BY <1>1, <2>2
  <2> QED
    BY <1>2, <2>3
<1>7. /\ Len(pad \o own) = Len(pad) + Len(v)
      /\ \A j \in 1..Len(pad) + Len(v) :
            (pad \o own)[j] = IF j <= Len(pad) THEN pad[j] ELSE own[j - Len(pad)]
  BY <1>5, <1>6, ConcatProperties
<1>8. AddedSlots(v) = pad \o own
  BY <1>1, <1>2 DEF AddedSlots
<1>9. ASSUME NEW j \in 1..Len(AddedSlots(v))
      PROVE  AddedSlots(v)[j] = IF j <= Len(pad) THEN PoolSlot(<<0>>, TRUE)
                           ELSE PoolSlot(<<v[j - Len(pad)]>>, FALSE)
  <2>1. j \in 1..Len(pad) + Len(v)
    BY <1>7, <1>8
  <2>2. CASE j <= Len(pad)
    <3>1. j \in 1..Len(pad)
      BY <1>5, <2>1, <2>2
    <3> QED
      BY <1>3, <1>5, <1>7, <1>8, <2>1, <2>2, <3>1
  <2>3. CASE ~ (j <= Len(pad))
    <3>1. j - Len(pad) \in 1..Len(v)
      BY <1>1, <1>5, <2>1, <2>3
    <3> QED
      BY <1>6, <1>7, <1>8, <2>1, <2>3, <3>1
  <2> QED
    BY <2>2, <2>3
<1> QED
  BY <1>2, <1>5, <1>7, <1>8, <1>9

(* An appended literal is in the slots from its entry on.                  *)
LEMMA AppendedIsHeld ==
    ASSUME PoolInv, SlotsAreWhole, NEW v \in Literals, AppendSlots(v), NEW e, e = EntryAfter(v)
    PROVE  SlotsAreWhole' /\ SlotsStand /\ SlotsHold(e, v)'
<1>1. poolSlots \in Seq(SlotType) /\ Len(poolSlots) \in Nat /\ DOMAIN poolSlots = 1..Len(poolSlots)
  BY DEF PoolInv
<1>2. v \in Seq(Nat) /\ Len(v) \in {1, 2} /\ DOMAIN v = 1..Len(v) /\ Len(v) \in Nat
  BY LiteralsAssumption
<1>3. PICK last, pad, added : last = Len(poolSlots) /\ pad = Len(PaddingBefore(v)) /\ added = AddedSlots(v)
  OBVIOUS
<1>4. /\ pad \in Nat /\ last \in Nat /\ e = last + pad
      /\ added \in Seq(SlotType) /\ Len(added) = pad + Len(v)
      /\ \A j \in 1..pad + Len(v) :
            added[j] = IF j <= pad THEN PoolSlot(<<0>>, TRUE) ELSE PoolSlot(<<v[j - pad]>>, FALSE)
  BY <1>1, <1>3, AddedHoldWords, AppendedSlots DEF EntryAfter
<1>5. poolSlots' = poolSlots \o added
  BY <1>3 DEF AppendSlots
<1>6. /\ DOMAIN poolSlots' = 1..last + pad + Len(v)
      /\ \A k \in 1..last : poolSlots'[k] = poolSlots[k]
      /\ \A j \in 1..pad + Len(v) : poolSlots'[last + j] = added[j]
  <2>1. /\ poolSlots' \in Seq(SlotType) /\ Len(poolSlots') = last + (pad + Len(v))
        /\ \A k \in 1..last + (pad + Len(v)) :
              poolSlots'[k] = IF k <= last THEN poolSlots[k] ELSE added[k - last]
    <3>1. poolSlots \in Seq(SlotType) /\ added \in Seq(SlotType)
      BY <1>1, <1>4
    <3>2. /\ poolSlots \o added \in Seq(SlotType)
          /\ Len(poolSlots \o added) = Len(poolSlots) + Len(added)
          /\ \A k \in 1..Len(poolSlots) + Len(added) :
                (poolSlots \o added)[k] = IF k <= Len(poolSlots) THEN poolSlots[k]
                                      ELSE added[k - Len(poolSlots)]
      BY <3>1, ConcatProperties
    <3>3. Len(poolSlots) = last /\ Len(added) = pad + Len(v)
      BY <1>3, <1>4
    <3> QED
      BY <1>5, <3>2, <3>3
  <2>2. last + (pad + Len(v)) = last + pad + Len(v) /\ last + pad + Len(v) \in Nat
    BY <1>2, <1>4
  <2>3. DOMAIN poolSlots' = 1..last + pad + Len(v)
    BY <2>1, <2>2
  <2>4. ASSUME NEW k \in 1..last
        PROVE  poolSlots'[k] = poolSlots[k]
    BY <1>2, <1>4, <2>1
  <2>5. ASSUME NEW j \in 1..pad + Len(v)
        PROVE  poolSlots'[last + j] = added[j]
    BY <1>2, <1>4, <2>1
  <2> QED
    BY <2>3, <2>4, <2>5
<1>7. SlotsStand
  BY <1>1, <1>2, <1>3, <1>4, <1>6 DEF SlotsStand
<1>8. ASSUME NEW k \in DOMAIN poolSlots'
      PROVE  \/ k \in DOMAIN poolSlots /\ poolSlots'[k] = poolSlots[k]
             \/ poolSlots'[k] = PoolSlot(<<0>>, TRUE)
             \/ \E w : poolSlots'[k] = PoolSlot(<<w>>, FALSE)
  <2>1. CASE k \in 1..last
    BY <1>1, <1>3, <1>6, <2>1
  <2>2. CASE k \notin 1..last
    <3>1. PICK j \in 1..pad + Len(v) : k = last + j
      <4>1. k - last \in 1..pad + Len(v) /\ k = last + (k - last)
        BY <1>2, <1>4, <1>6, <2>2
      <4> QED
        BY <4>1
    <3> QED
      BY <1>4, <1>6, <3>1
  <2> QED
    BY <2>1, <2>2
<1>9. ASSUME NEW k \in DOMAIN poolSlots'
      PROVE  /\ Len(poolSlots'[k].value) \in {1, 2}
             /\ poolSlots'[k].padding => poolSlots'[k].value = <<0>>
             /\ IsWide(poolSlots'[k]) =>
                   /\ poolSlots'[k].value \in Literals
                   /\ k + 1 \in DOMAIN poolSlots'
                   /\ ~poolSlots'[k + 1].padding
                   /\ poolSlots'[k + 1].value[1] = poolSlots'[k].value[2]
  <2>1. CASE k \in DOMAIN poolSlots /\ poolSlots'[k] = poolSlots[k]
    BY <1>7, <2>1 DEF SlotsAreWhole, SlotsStand
  <2>2. CASE poolSlots'[k] = PoolSlot(<<0>>, TRUE) \/ \E w : poolSlots'[k] = PoolSlot(<<w>>, FALSE)
    <3>1. PICK after : after = poolSlots'[k]
      OBVIOUS
    <3>2. \A w : Len(<<w>>) = 1
      OBVIOUS
    <3>3. Len(after.value) = 1 /\ (after.padding => after.value = <<0>>)
      BY <2>2, <3>1, <3>2 DEF PoolSlot
    <3> QED
      BY <3>1, <3>3 DEF IsWide
  <2> QED
    BY <1>8, <2>1, <2>2
<1>10. ASSUME NEW j \in DOMAIN v
       PROVE  /\ e + j \in DOMAIN poolSlots'
              /\ ~poolSlots'[e + j].padding
              /\ poolSlots'[e + j].value[1] = v[j]
  <2>1. PICK i \in 1..pad + Len(v) : i = pad + j /\ ~ (i <= pad) /\ i - pad = j /\ e + j = last + i
    <3>1. pad + j \in 1..pad + Len(v) /\ ~ (pad + j <= pad) /\ (pad + j) - pad = j
          /\ e + j = last + (pad + j)
      BY <1>2, <1>4
    <3> QED
      BY <3>1
  <2>2. poolSlots'[e + j] = PoolSlot(<<v[j]>>, FALSE)
    BY <1>4, <1>6, <2>1
  <2>3. e + j \in DOMAIN poolSlots'
    BY <1>2, <1>4, <1>6, <2>1
  <2> QED
    BY <2>2, <2>3 DEF PoolSlot
<1>11. SlotsAreWhole' /\ SlotsHold(e, v)'
  BY <1>9, <1>10 DEF SlotsAreWhole, SlotsHold
<1> QED
  BY <1>7, <1>11

(* Every step keeps the slots whole and the uses served.                   *)
LEMMA NextKeepsWhole ==
    ASSUME HalvesAreNonzero, WholeInv, [PoolNext]_poolVars
    PROVE  WholeInv'
<1>1. PoolInv /\ SlotsAreWhole /\ UsesHold /\ PoolInv' /\ poolSlots \in Seq(SlotType)
  BY NextKeepsInv DEF WholeInv, PoolInv
<1>2. ASSUME NEW v \in Literals, Share(v)
      PROVE  SlotsAreWhole' /\ UsesHold'
  <2>1. PICK e : e = Entry(v)
    OBVIOUS
  <2>2. e \in Nat
    BY <1>1, <2>1, EntryStops
  <2>3. SlotsAreWhole' /\ SlotsStand /\ SlotsHold(e, v)'
    BY <1>1, <1>2, <2>1, SharedIsHeld
  <2>4. loads' = Append(loads, Load(e, v)) /\ refused \subseteq refused'
    BY <1>2, <2>1 DEF Share
  <2> QED
    BY <1>1, <2>2, <2>3, <2>4, UsesStayServed
<1>3. ASSUME NEW v \in Literals, AppendSlots(v)
      PROVE  SlotsAreWhole' /\ UsesHold'
  <2>1. PICK e : e = EntryAfter(v)
    OBVIOUS
  <2>2. e \in Nat
    BY <1>1, <2>1, AppendedSlots
  <2>3. SlotsAreWhole' /\ SlotsStand /\ SlotsHold(e, v)'
    BY <1>1, <1>3, <2>1, AppendedIsHeld
  <2>4. loads' = Append(loads, Load(e, v)) /\ refused \subseteq refused'
    BY <1>3, <2>1 DEF AppendSlots
  <2> QED
    BY <1>1, <2>2, <2>3, <2>4, UsesStayServed
<1>4. ASSUME NEW v \in Literals, Refuse(v)
      PROVE  SlotsAreWhole' /\ UsesHold'
  <2>1. poolSlots' = poolSlots /\ refused' = refused \cup {Len(loads) + 1}
        /\ loads' = IF Len(poolSlots) > 0 THEN Append(loads, Load(Len(poolSlots) - 1, v)) ELSE loads
    BY <1>4 DEF Refuse
  <2>2. SlotsAreWhole' /\ SlotsStand
    BY <1>1, <2>1 DEF SlotsAreWhole, SlotsStand
  <2>3. CASE Len(poolSlots) > 0
    <3>1. PICK e \in Nat : e = Len(poolSlots) - 1
      BY <1>1, <2>3
    <3> QED
      BY <1>1, <2>1, <2>2, <2>3, <3>1, UsesStayServed
  <2>4. CASE ~ (Len(poolSlots) > 0)
    BY <1>1, <2>1, <2>2, <2>4 DEF UsesHold, SlotsHold
  <2> QED
    BY <2>3, <2>4
<1>5. CASE UNCHANGED poolVars
  BY <1>1, <1>5 DEF poolVars, SlotsAreWhole, UsesHold, SlotsHold, WholeInv
<1> QED
  BY <1>1, <1>2, <1>3, <1>4, <1>5 DEF PoolNext, WholeInv

(* The words of the slots up to each of the first "last".                  *)
IsChunked(g, last) ==
    g = [i \in 0..last |-> IF i = 0 THEN <<>> ELSE g[i - 1] \o poolSlots[i].value]

(* There is one for every number of slots.                                 *)
LEMMA WrittenExists ==
    ASSUME NEW last \in Nat
    PROVE  \E g : IsChunked(g, last)
<1> DEFINE S == {n \in Nat : \E g : IsChunked(g, n)}
<1>1. 0 \in S
  <2>1. IsChunked([f \in 0..0 |-> <<>>], 0)
    BY DEF IsChunked
  <2> QED
    BY <2>1
<1>2. ASSUME NEW n \in Nat, n \in S
      PROVE  n + 1 \in S
  <2>1. PICK g : IsChunked(g, n)
    BY <1>2
  <2> DEFINE h == [f \in 0..n + 1 |-> IF f = n + 1 THEN g[n] \o poolSlots[n + 1].value ELSE g[f]]
  <2>2. ASSUME NEW f \in 0..n + 1
        PROVE  h[f] = IF f = 0 THEN <<>> ELSE h[f - 1] \o poolSlots[f].value
    <3>1. CASE f = n + 1
      <4>1. f # 0 /\ f - 1 = n /\ n \in 0..n + 1 /\ n # n + 1
        BY <3>1
      <4>2. h[f - 1] = g[n] /\ h[f] = g[n] \o poolSlots[n + 1].value
        BY <3>1, <4>1
      <4> QED
        BY <3>1, <4>1, <4>2
    <3>2. CASE f # n + 1
      <4>1. f \in 0..n /\ (f # 0 => f - 1 \in 0..n + 1 /\ f - 1 # n + 1)
        BY <3>2
      <4>2. h[f] = g[f] /\ (f # 0 => h[f - 1] = g[f - 1])
        BY <4>1
      <4>3. g[f] = IF f = 0 THEN <<>> ELSE g[f - 1] \o poolSlots[f].value
        BY <2>1, <4>1 DEF IsChunked
      <4> QED
        BY <4>2, <4>3
    <3> QED
      BY <3>1, <3>2
  <2>3. h = [f \in 0..n + 1 |-> h[f]]
    OBVIOUS
  <2> HIDE DEF h
  <2>4. IsChunked(h, n + 1)
    BY <2>2, <2>3 DEF IsChunked
  <2> QED
    BY <2>4
<1> HIDE DEF S
<1>3. Nat \subseteq S
  BY <1>1, <1>2, InductionBySets
<1> QED
  BY <1>3 DEF S

(* Words that begin with others, and those that others follow at a place.  *)
StartsAs(words, head) == \A p \in 1..Len(head) : words[p] = head[p]
GoesOnAs(words, offset, tail) == \A p \in 1..Len(tail) : words[offset + p] = tail[p]

(* One more slot adds its words, one or two, and moves none.               *)
LEMMA SlotAddsItsWords ==
    ASSUME poolSlots \in Seq(SlotType), SlotsAreWhole, NEW g, IsChunked(g, Len(poolSlots)),
           NEW i \in 1..Len(poolSlots), g[i - 1] \in Seq(Nat)
    PROVE  /\ g[i] \in Seq(Nat)
           /\ Len(g[i - 1]) \in Nat
           /\ Len(g[i]) = Len(g[i - 1]) + Len(poolSlots[i].value)
           /\ Len(poolSlots[i].value) \in {1, 2}
           /\ StartsAs(g[i], g[i - 1])
           /\ GoesOnAs(g[i], Len(g[i - 1]), poolSlots[i].value)
<1>1. Len(poolSlots) \in Nat /\ i \in DOMAIN poolSlots /\ i \in 0..Len(poolSlots) /\ i # 0
  OBVIOUS
<1>2. g[i] = g[i - 1] \o poolSlots[i].value
  BY <1>1 DEF IsChunked
<1>3. poolSlots[i].value \in Seq(Nat)
  <2>1. poolSlots[i] \in SlotType
    BY <1>1, ElementOfSeq
  <2> QED
    BY <2>1 DEF SlotType
<1>4. Len(poolSlots[i].value) \in {1, 2}
  BY <1>1 DEF SlotsAreWhole
<1>5. PICK head, tail : head = g[i - 1] /\ tail = poolSlots[i].value
  OBVIOUS
<1>6. /\ head \o tail \in Seq(Nat)
      /\ Len(head \o tail) = Len(head) + Len(tail)
      /\ \A p \in 1..Len(head) + Len(tail) :
            (head \o tail)[p] = IF p <= Len(head) THEN head[p] ELSE tail[p - Len(head)]
  BY <1>3, <1>5, ConcatProperties
<1>7. Len(head) \in Nat /\ Len(tail) \in Nat
  BY <1>3, <1>5
<1>8. ASSUME NEW p \in 1..Len(head)
      PROVE  (head \o tail)[p] = head[p]
  BY <1>6, <1>7
<1>9. ASSUME NEW p \in 1..Len(tail)
      PROVE  (head \o tail)[Len(head) + p] = tail[p]
  BY <1>6, <1>7
<1>10. StartsAs(head \o tail, head)
  BY <1>8 DEF StartsAs
<1>11. GoesOnAs(head \o tail, Len(head), tail)
  BY <1>9 DEF GoesOnAs
<1> QED
  BY ONLY <1>2, <1>4, <1>5, <1>6, <1>7, <1>10, <1>11

(* One more slot before a slot is a word more, or two if it is wide.       *)
LEMMA SlotAddsToWords ==
    /\ WordsBefore(0) = 0
    /\ \A n \in Nat :
          /\ WordsBefore(n) \in Nat
          /\ WordsBefore(n + 1) = WordsBefore(n) + IF IsWide(poolSlots[n + 1]) THEN 2 ELSE 1
          /\ (\A k \in 1..n : ~IsWide(poolSlots[k])) => WordsBefore(n) = n
<1> DEFINE W(n) == {k \in 1..n : IsWide(poolSlots[k])}
<1>1. ASSUME NEW n \in Nat
      PROVE  IsFiniteSet(W(n)) /\ Cardinality(W(n)) \in Nat
  <2>1. IsFiniteSet(1..n) /\ W(n) \subseteq 1..n
    BY FS_Interval
  <2> QED
    BY ONLY <2>1, FS_Subset, FS_CardinalityType
<1>2. ASSUME NEW n \in Nat
      PROVE  Cardinality(W(n + 1)) = Cardinality(W(n)) + IF IsWide(poolSlots[n + 1]) THEN 1 ELSE 0
  <2>1. n + 1 \notin W(n)
    OBVIOUS
  <2>2. CASE IsWide(poolSlots[n + 1])
    <3>1. W(n + 1) = W(n) \cup {n + 1}
      BY <2>2
    <3> HIDE DEF W
    <3> QED
      BY <1>1, <2>1, <2>2, <3>1, FS_AddElement
  <2>3. CASE ~IsWide(poolSlots[n + 1])
    <3>1. W(n + 1) = W(n)
      BY <2>3
    <3> HIDE DEF W
    <3> QED
      BY <1>1, <2>3, <3>1
  <2> QED
    BY <2>2, <2>3
<1>3. \A n : (\A k \in 1..n : ~IsWide(poolSlots[k])) => Cardinality(W(n)) = 0
  BY FS_EmptySet
<1>4. WordsBefore(0) = 0
  BY <1>3 DEF WordsBefore
<1>5. \A n : WordsBefore(n) = n + Cardinality(W(n))
  BY DEF WordsBefore
<1> HIDE DEF W
<1>6. ASSUME NEW n \in Nat
      PROVE  /\ WordsBefore(n) \in Nat
             /\ WordsBefore(n + 1) = WordsBefore(n) + IF IsWide(poolSlots[n + 1]) THEN 2 ELSE 1
  BY <1>1, <1>2, <1>5
<1>7. ASSUME NEW n \in Nat, \A k \in 1..n : ~IsWide(poolSlots[k])
      PROVE  WordsBefore(n) = n
  BY <1>3, <1>5, <1>7
<1> QED
  BY <1>4, <1>6, <1>7

(* The words up to a slot are in front of those up to every later one, and *)
(* there are as many as slots before it, wide ones counted twice.          *)
LEMMA WordsStayInPlace ==
    ASSUME poolSlots \in Seq(SlotType), SlotsAreWhole, NEW g, IsChunked(g, Len(poolSlots)),
           NEW m \in 0..Len(poolSlots)
    PROVE  /\ g[m] \in Seq(Nat)
           /\ Len(g[m]) \in Nat
           /\ \A n \in m..Len(poolSlots) :
                 /\ g[n] \in Seq(Nat)
                 /\ Len(g[m]) <= Len(g[n])
                 /\ \A p \in 1..Len(g[m]) : g[n][p] = g[m][p]
           /\ Len(g[m]) = WordsBefore(m)
<1>1. Len(poolSlots) \in Nat
  OBVIOUS
<1>2. g[0] = <<>> /\ Len(g[0]) = 0 /\ g[0] \in Seq(Nat)
  BY <1>1 DEF IsChunked
<1> DEFINE Counted(n) == Len(g[n]) = WordsBefore(n)
<1> DEFINE S == {n \in Nat : n <= Len(poolSlots) => g[n] \in Seq(Nat) /\ Counted(n)}
<1>3. 0 \in S
  BY <1>2, SlotAddsToWords
<1>4. ASSUME NEW n \in Nat, n \in S
      PROVE  n + 1 \in S
  <2>1. ASSUME n + 1 <= Len(poolSlots)
        PROVE  g[n + 1] \in Seq(Nat) /\ Counted(n + 1)
    <3>1. PICK i \in 1..Len(poolSlots) : i = n + 1 /\ i - 1 = n
      BY <1>1, <2>1
    <3>2. g[i - 1] \in Seq(Nat) /\ Counted(n)
      BY <1>1, <1>4, <2>1, <3>1
    <3>3. /\ g[i] \in Seq(Nat)
          /\ Len(g[i]) = Len(g[i - 1]) + Len(poolSlots[i].value)
          /\ Len(poolSlots[i].value) \in {1, 2}
      BY <3>2, SlotAddsItsWords
    <3>4. Len(poolSlots[i].value) = IF IsWide(poolSlots[i]) THEN 2 ELSE 1
      BY <3>3 DEF IsWide
    <3>5. WordsBefore(n + 1) = WordsBefore(n) + IF IsWide(poolSlots[i]) THEN 2 ELSE 1
      BY <3>1, SlotAddsToWords
    <3>6. Counted(n + 1)
      BY <3>1, <3>2, <3>3, <3>4, <3>5
    <3> QED
      BY <3>1, <3>3, <3>6
  <2> QED
    BY <2>1
<1>5. Nat \subseteq S
  <2> HIDE DEF S
  <2> QED
    BY <1>3, <1>4, InductionBySets
<1>6. \A n \in 0..Len(poolSlots) : g[n] \in Seq(Nat) /\ Counted(n)
  BY <1>1, <1>5
<1> HIDE DEF S, Counted
<1> DEFINE KeptIn(n) == Len(g[m]) <= Len(g[n]) /\ \A p \in 1..Len(g[m]) : g[n][p] = g[m][p]
<1> DEFINE T == {n \in Nat : n \in m..Len(poolSlots) => KeptIn(n)}
<1>7. Len(g[m]) \in Nat
  BY <1>6
<1>8. KeptIn(m)
  BY <1>7
<1>9. 0 \in T
  <2>1. ASSUME 0 \in m..Len(poolSlots)
        PROVE  m = 0
    BY <2>1
  <2> QED
    BY <1>8, <2>1
<1>10. ASSUME NEW n \in Nat, n \in T
       PROVE  n + 1 \in T
  <2>1. ASSUME n + 1 \in m..Len(poolSlots)
        PROVE  KeptIn(n + 1)
    <3>1. CASE m = n + 1
      BY <1>8, <3>1
    <3>2. CASE m # n + 1
      <4>1. n \in m..Len(poolSlots)
        BY <1>1, <2>1, <3>2
      <4>2. KeptIn(n)
        BY <1>10, <4>1
      <4>3. PICK i \in 1..Len(poolSlots) : i = n + 1 /\ i - 1 = n
        BY <1>1, <2>1
      <4>4. g[i - 1] \in Seq(Nat)
        BY <1>1, <1>6, <4>3
      <4>5. /\ Len(g[i - 1]) \in Nat /\ Len(poolSlots[i].value) \in {1, 2}
            /\ Len(g[i]) = Len(g[i - 1]) + Len(poolSlots[i].value)
            /\ \A p \in 1..Len(g[i - 1]) : g[i][p] = g[i - 1][p]
        <5>1. /\ poolSlots \in Seq(SlotType) /\ SlotsAreWhole /\ IsChunked(g, Len(poolSlots))
              /\ i \in 1..Len(poolSlots)
          BY Zenon, <4>3
        <5>2. Len(g[i - 1]) \in Nat /\ Len(poolSlots[i].value) \in {1, 2}
          BY ONLY <5>1, <4>4, SlotAddsItsWords
        <5>3. Len(g[i]) = Len(g[i - 1]) + Len(poolSlots[i].value)
          BY ONLY <5>1, <4>4, SlotAddsItsWords
        <5>4. StartsAs(g[i], g[i - 1])
          BY ONLY <5>1, <4>4, SlotAddsItsWords
        <5>5. \A p \in 1..Len(g[i - 1]) : g[i][p] = g[i - 1][p]
          BY ONLY <5>4 DEF StartsAs
        <5> QED
          BY ONLY <5>2, <5>3, <5>5
      <4>6. Len(g[n]) \in Nat /\ Len(g[n]) <= Len(g[n + 1])
        <5>1. \A a \in Nat, w \in {1, 2} : a <= a + w
          OBVIOUS
        <5>2. Len(g[i - 1]) \in Nat /\ Len(g[i - 1]) <= Len(g[i])
          BY Zenon, <4>5, <5>1
        <5> QED
          BY Zenon, <4>3, <5>2
      <4>7. ASSUME NEW p \in 1..Len(g[m])
            PROVE  g[n + 1][p] = g[m][p]
        BY <1>7, <4>2, <4>3, <4>5, <4>6
      <4> QED
        BY <1>7, <4>2, <4>6, <4>7
    <3> QED
      BY <3>1, <3>2
  <2> QED
    BY <2>1
<1>11. Nat \subseteq T
  <2> HIDE DEF T
  <2> QED
    BY <1>9, <1>10, InductionBySets
<1>12. \A n \in m..Len(poolSlots) : KeptIn(n) /\ g[n] \in Seq(Nat)
  BY <1>1, <1>6, <1>11
<1> QED
  BY <1>6, <1>7, <1>12 DEF Counted

(* What the slots of a load hold is written from its first slot's words on.*)
LEMMA HeldIsWritten ==
    ASSUME poolSlots \in Seq(SlotType), SlotsAreWhole,
           NEW u \in UseType, SlotsHold(u.slot, u.value)
    PROVE  WrittenFor(u) = u.value
<1>1. Len(poolSlots) \in Nat /\ DOMAIN poolSlots = 1..Len(poolSlots)
  OBVIOUS
<1>2. PICK e, v, d : e = u.slot /\ v = u.value /\ d = WordsBefore(e)
  OBVIOUS
<1>3. /\ e \in Nat /\ v \in Literals
      /\ v \in Seq(Nat) /\ Len(v) \in {1, 2} /\ DOMAIN v = 1..Len(v)
  BY <1>2, LiteralsAssumption DEF UseType
<1>4. PICK k : k = e + 1
  OBVIOUS
<1>5. SlotsHold(e, v)
  BY <1>2
<1>6. k \in 1..Len(poolSlots) /\ k - 1 = e /\ poolSlots[k].value[1] = v[1]
  BY <1>1, <1>3, <1>4, <1>5 DEF SlotsHold
<1>7. PICK g : g = CHOOSE x : IsChunked(x, Len(poolSlots))
  OBVIOUS
<1>8. IsChunked(g, Len(poolSlots)) /\ Chunks = g[Len(poolSlots)]
  BY <1>1, <1>7, WrittenExists DEF Chunks, IsChunked
<1>9. g[e] \in Seq(Nat) /\ Len(g[e]) = d /\ d \in Nat
  <2>1. e \in 0..Len(poolSlots)
    BY <1>1, <1>6
  <2> QED
    BY Zenon, <1>2, <1>8, <2>1, WordsStayInPlace
<1>10. /\ g[k] \in Seq(Nat)
       /\ Len(g[k]) = d + Len(poolSlots[k].value)
       /\ Len(poolSlots[k].value) \in {1, 2}
       /\ \A p \in 1..Len(poolSlots[k].value) : g[k][d + p] = poolSlots[k].value[p]
  <2>1. g[k - 1] \in Seq(Nat) /\ Len(g[k - 1]) = d
    BY <1>6, <1>9
  <2>2. /\ g[k] \in Seq(Nat)
        /\ Len(g[k]) = Len(g[k - 1]) + Len(poolSlots[k].value)
        /\ Len(poolSlots[k].value) \in {1, 2}
        /\ \A p \in 1..Len(poolSlots[k].value) : g[k][Len(g[k - 1]) + p] = poolSlots[k].value[p]
    <3>1. /\ g[k] \in Seq(Nat)
          /\ Len(g[k]) = Len(g[k - 1]) + Len(poolSlots[k].value)
          /\ Len(poolSlots[k].value) \in {1, 2}
          /\ GoesOnAs(g[k], Len(g[k - 1]), poolSlots[k].value)
      BY Zenon, <1>6, <1>8, <2>1, SlotAddsItsWords
    <3> QED
      BY ONLY <3>1 DEF GoesOnAs
  <2> QED
    BY Zenon, <2>1, <2>2
<1>11. Chunks \in Seq(Nat)
  <2>1. Len(poolSlots) \in 0..Len(poolSlots) /\ Len(poolSlots) \in Len(poolSlots)..Len(poolSlots)
    BY <1>1
  <2> QED
    BY Zenon, <1>8, <2>1, WordsStayInPlace
<1>12. /\ k \in 0..Len(poolSlots)
       /\ Len(g[k]) \in Nat /\ Len(g[k]) <= Len(Chunks)
       /\ \A p \in 1..Len(g[k]) : Chunks[p] = g[k][p]
  <2>1. k \in 0..Len(poolSlots) /\ Len(poolSlots) \in k..Len(poolSlots)
    BY <1>1, <1>6
  <2> QED
    BY Zenon, <1>8, <2>1, WordsStayInPlace
<1>13. d + 1 <= Len(Chunks) /\ Chunks[d + 1] = v[1]
  <2>1. d + 1 \in 1..Len(g[k]) /\ 1 \in 1..Len(poolSlots[k].value)
    <3>1. \A w \in {1, 2} : d + 1 \in 1..d + w /\ 1 \in 1..w
      BY <1>9
    <3> QED
      BY Zenon, <1>10, <3>1
  <2>2. g[k][d + 1] = v[1]
    BY <1>6, <1>10, <2>1
  <2>3. Len(Chunks) \in Nat
    BY <1>11
  <2> QED
    BY <1>9, <1>12, <2>1, <2>2, <2>3
<1>14. ASSUME Len(v) = 2
       PROVE  d + 2 <= Len(Chunks) /\ Chunks[d + 2] = v[2]
  <2>1. k + 1 \in 1..Len(poolSlots) /\ poolSlots[k + 1].value[1] = v[2]
    BY <1>1, <1>3, <1>4, <1>5, <1>14 DEF SlotsHold
  <2>2. Len(Chunks) \in Nat
    BY <1>11
  <2>3. CASE IsWide(poolSlots[k])
    <3>1. poolSlots[k].value[2] = v[2] /\ Len(poolSlots[k].value) = 2
      BY <1>1, <1>6, <2>1, <2>3 DEF SlotsAreWhole, IsWide
    <3>2. d + 2 \in 1..Len(g[k]) /\ 2 \in 1..Len(poolSlots[k].value)
      BY <1>9, <1>10, <3>1
    <3>3. g[k][d + 2] = v[2]
      BY <1>10, <3>1, <3>2
    <3> QED
      BY <1>9, <1>12, <2>2, <3>2, <3>3
  <2>4. CASE ~IsWide(poolSlots[k])
    <3>1. PICK n \in 1..Len(poolSlots) : n = k + 1 /\ n - 1 = k
      BY <1>6, <2>1
    <3>2. g[n - 1] \in Seq(Nat) /\ Len(g[n - 1]) = d + 1
      BY <1>10, <2>4, <3>1 DEF IsWide
    <3>3. /\ g[n] \in Seq(Nat)
          /\ Len(g[n]) = Len(g[n - 1]) + Len(poolSlots[n].value)
          /\ Len(poolSlots[n].value) \in {1, 2}
          /\ \A p \in 1..Len(poolSlots[n].value) : g[n][Len(g[n - 1]) + p] = poolSlots[n].value[p]
      <4>1. /\ g[n] \in Seq(Nat)
            /\ Len(g[n]) = Len(g[n - 1]) + Len(poolSlots[n].value)
            /\ Len(poolSlots[n].value) \in {1, 2}
            /\ GoesOnAs(g[n], Len(g[n - 1]), poolSlots[n].value)
        BY Zenon, <1>8, <3>2, SlotAddsItsWords
      <4> QED
        BY ONLY <4>1 DEF GoesOnAs
    <3>4. /\ Len(g[n]) \in Nat /\ Len(g[n]) <= Len(Chunks)
          /\ \A p \in 1..Len(g[n]) : Chunks[p] = g[n][p]
      <4>1. n \in 0..Len(poolSlots) /\ Len(poolSlots) \in n..Len(poolSlots)
        BY <1>1, <3>1
      <4> QED
        BY Zenon, <1>8, <4>1, WordsStayInPlace
    <3>5. 1 \in 1..Len(poolSlots[n].value) /\ (d + 1) + 1 \in 1..Len(g[n])
      <4>1. \A w \in {1, 2} : 1 \in 1..w /\ (d + 1) + 1 \in 1..(d + 1) + w
        BY <1>9
      <4>2. Len(g[n]) = (d + 1) + Len(poolSlots[n].value)
        BY Zenon, <3>2, <3>3
      <4> QED
        BY Zenon, <3>3, <4>1, <4>2
    <3>6. g[n][(d + 1) + 1] = v[2]
      BY <2>1, <3>1, <3>2, <3>3, <3>5
    <3>7. (d + 1) + 1 = d + 2
      BY <1>9
    <3> QED
      BY <1>9, <2>2, <3>4, <3>5, <3>6, <3>7
  <2> QED
    BY <2>3, <2>4
<1>15. WrittenFor(u) = SubSeq(Chunks, d + 1, d + Len(v))
  BY <1>2 DEF WrittenFor
<1>16. PICK bytes : bytes = SubSeq(Chunks, d + 1, d + Len(v))
  OBVIOUS
<1>17. d + Len(v) <= Len(Chunks) /\ \A j \in 1..Len(v) : Chunks[d + j] = v[j]
  <2>2. CASE Len(v) = 1
    BY <1>13, <2>2
  <2>3. CASE Len(v) = 2
    BY <1>13, <1>14, <2>3
  <2> QED
    BY <1>3, <2>2, <2>3
<1>18. /\ bytes \in Seq(Nat) /\ Len(bytes) = Len(v)
       /\ \A j \in 1..Len(v) : bytes[j] = v[j]
  <2>1. PICK first, last : first = d + 1 /\ last = d + Len(v)
    OBVIOUS
  <2>2. first \in Int /\ last \in Int /\ first <= last /\ last - first + 1 = Len(v)
        /\ \A j \in 1..Len(v) : first + j - 1 = d + j
    BY <1>3, <1>9, <2>1
  <2>3. \A i \in first..last : Chunks[i] \in Nat
    <3>1. ASSUME NEW i \in first..last
          PROVE  i \in 1..Len(Chunks)
      BY <1>3, <1>9, <1>11, <1>17, <2>1
    <3> QED
      BY <1>11, <3>1, ElementOfSeq
  <2>4. /\ SubSeq(Chunks, first, last) \in Seq(Nat)
        /\ Len(SubSeq(Chunks, first, last)) = IF first <= last THEN last - first + 1 ELSE 0
        /\ \A j \in 1..last - first + 1 : SubSeq(Chunks, first, last)[j] = Chunks[first + j - 1]
    <3>1. first \in Int /\ last \in Int /\ \A i \in first..last : Chunks[i] \in Nat
      BY Zenon, <2>2, <2>3
    <3> QED
      BY <3>1, SubSeqProperties
  <2> QED
    BY Zenon, <1>16, <1>17, <2>1, <2>2, <2>4
<1>19. bytes = v
  BY <1>3, <1>18
<1> QED
  BY <1>2, <1>15, <1>16, <1>19

(* The value of every load that was given a slot is written as a whole     *)
(* from what its slot emits on, whatever slots were shared or taken over   *)
(* for padding, and the load reads it there unless a slot before its own   *)
(* emits eight bytes (flush_literal_slots).  The literals are those whose  *)
(* halves are found in no padding.                                         *)
THEOREM LoadsReadTheirValue ==
    ASSUME HalvesAreNonzero
    PROVE  PoolSpec => []UsesReadTheirValue
<1>1. PoolInit => WholeInv
  BY InitInv DEF PoolInit, WholeInv, SlotsAreWhole, UsesHold
<1>2. WholeInv /\ [PoolNext]_poolVars => WholeInv'
  BY NextKeepsWhole
<1>3. WholeInv => UsesReadTheirValue
  <2>1. ASSUME WholeInv, NEW i \in DOMAIN loads, i \notin refused
        PROVE  /\ WrittenFor(loads[i]) = loads[i].value
               /\ (\A k \in 1..loads[i].slot : ~IsWide(poolSlots[k])) =>
                     ReadBy(loads[i]) = loads[i].value
    <3>1. poolSlots \in Seq(SlotType) /\ SlotsAreWhole /\ loads \in Seq(UseType) /\ UsesHold
      BY <2>1 DEF WholeInv, PoolInv
    <3>2. loads[i] \in UseType /\ SlotsHold(loads[i].slot, loads[i].value)
      BY <2>1, <3>1, ElementOfSeq DEF UsesHold
    <3>3. WrittenFor(loads[i]) = loads[i].value
      BY Zenon, <3>1, <3>2, HeldIsWritten
    <3>4. loads[i].slot \in Nat
      BY <3>2 DEF UseType
    <3>5. ASSUME \A k \in 1..loads[i].slot : ~IsWide(poolSlots[k])
          PROVE  ReadBy(loads[i]) = WrittenFor(loads[i])
      BY <3>4, <3>5, SlotAddsToWords DEF ReadBy, WrittenFor
    <3> QED
      BY <3>3, <3>5
  <2> QED
    BY <2>1 DEF UsesReadTheirValue
<1> QED
  BY <1>1, <1>2, <1>3, PTL DEF PoolSpec
=============================================================================
