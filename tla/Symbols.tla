------------------------------ MODULE Symbols -------------------------------
(***************************************************************************)
(* The symbol table (symbol.rs) as the statements of a source change it:   *)
(* labels, numeric local labels and ".", definitions by .set, = and their  *)
(* relatives, .comm and .size, and the uses of all of them in data and in  *)
(* operands, until a flat image is filled with their values.               *)
(***************************************************************************)
EXTENDS Terms, FiniteSets

CONSTANTS
    Sources,    \* the kinds of source to read
    Numbers,    \* of local labels
    MaxHops     \* how many symbols are asked for a size

(* dialect: whose statements these are; statements: those it consists of;  *)
(* predefined: the names the backend's prelude defines; most: how many     *)
(* statements are read.  A source defines names and local labels only: the *)
(* symbols behind "." and "1f" cannot be written, nor can they be in an    *)
(* expression.                                                             *)
Nameless == {"local", "data", "operand"}
Expressionless == {"label", "local", "comm"}
Emitting == {"data", "operand"}

IsWritten(leaf) ==
    \/ IsNumber(leaf) /\ leaf[2] \in Int
    \/ IsName(leaf) \/ leaf = Here
    \/ \E n \in Numbers : leaf \in {Forward(n), Backward(n)}

LeavesOf(exprs) == UNION {Leaves(exprs[i]) : i \in DOMAIN exprs}

AreWritten(exprs) ==
    /\ Len(exprs) \in Nat
    /\ DOMAIN exprs = 1..Len(exprs)
    /\ \A i \in DOMAIN exprs : exprs[i].op \in {"+", "-", "*"}
    /\ \A leaf \in LeavesOf(exprs) : IsWritten(leaf)

ASSUME SourcesAssumption ==
    \A s \in Sources :
        /\ s.dialect \in {"gas", "cc", "eight"}
        /\ s.most \in Nat
        /\ \A id \in s.predefined : IsName(id)
        /\ \A st \in s.statements :
              /\ st.is \notin Nameless => IsName(st.name)
              /\ st.is = "local" => st.n \in Numbers
              /\ AreWritten(st.exprs)
              /\ st.is \in Expressionless => st.exprs = <<>>
              /\ st.is \notin Expressionless \cup Emitting => Len(st.exprs) = 1

ASSUME MaxHopsAssumption == MaxHops \in Nat

VARIABLES
    source,     \* what is read
    text,       \* the statements read so far
    table,      \* the symbols mentioned so far
    defined,    \* how many of the slots of each number are
    at,         \* the bytes emitted
    uses,       \* the expressions emitted, a byte each
    errors,     \* what was reported, and of which statement
    image,      \* the values the image is filled with
    phase

vars == <<source, text, table, defined, at, uses, errors, image, phase>>

(* A statement: what it is, the symbol or the number it is about, and its  *)
(* expressions.                                                            *)
Statement(is, name, exprs) == [is |-> is, name |-> name, n |-> 0, exprs |-> exprs]
LocalStatement(n) == [Statement("local", None, <<>>) EXCEPT !.n = n]

(* "span" is the statement that defined the symbol, 0 for the prelude.     *)
(* "was" is the number a definition was when it was read.                  *)
Mentioned ==
    [is |-> "undefined", at |-> 0, expr |-> NoExpr, was |-> Unresolved, span |-> 0,
     redefinable |-> FALSE, size |-> NoExpr, sizeFrom |-> None]

IsDefined(symbol) == symbol.is # "undefined"
Predefined(symbol) == IsDefined(symbol) /\ symbol.span = 0

AsLabel(symbol, offset, span) ==
    [symbol EXCEPT !.is = "label", !.at = offset, !.span = span]
AsExpr(symbol, e, span) ==
    [symbol EXCEPT !.is = "expr", !.expr = e, !.span = span, !.redefinable = TRUE]

Intern(t, ids) ==
    [id \in DOMAIN t \cup ids |-> IF id \in DOMAIN t THEN t[id] ELSE Mentioned]

Init ==
    /\ source \in Sources
    /\ text = <<>>
    /\ table = [id \in source.predefined |-> AsExpr(Mentioned, Just(Number(7)), 0)]
    /\ defined = [n \in Numbers |-> 0]
    /\ at = 0
    /\ uses = <<>>
    /\ errors = {}
    /\ image = <<>>
    /\ phase = "reading"

This == Len(text) + 1
Report(what) == {<<what, This>>}

(***************************************************************************)
(* Binding: what "." and local labels mean is settled when the statement   *)
(* has been read, and in the dialects where a use means the value a name   *)
(* has there, so is a name that is a number.                               *)
(***************************************************************************)
BindsValues == source.dialect \in {"cc", "eight"}

LocalBackward_Next(n) == Slot(n, defined[n] + 1)
LocalBackward(n) == Slot(n, defined[n])
LocalForward(n) == Slot(n, defined[n] + 1)

BoundName(t, leaf) ==
    IF /\ BindsValues
       /\ leaf \in DOMAIN t
       /\ t[leaf].is = "expr"
       /\ ~Predefined(t[leaf])
       /\ Constant(t, Just(leaf)) # Unresolved
      THEN Number(Constant(t, Just(leaf))[1]) ELSE leaf

BoundLeaf(t, leaf, item) ==
    CASE IsName(leaf) -> BoundName(t, leaf)
      [] leaf = Here -> HereAt(This, item)
      [] leaf[1] = "forward" -> LocalForward(leaf[2])
      [] leaf[1] = "backward" /\ defined[leaf[2]] > 0 -> LocalBackward(leaf[2])
      [] OTHER -> leaf

Bound(t, e, item) == Expr(BoundLeaf(t, e.l, item), e.op, BoundLeaf(t, e.r, item))

(* The table with the symbols a statement's positional leaves need: a      *)
(* label where each item is, and the slots of labels still to come.        *)
Positions(exprs) == {HereAt(This, i) : i \in {j \in DOMAIN exprs : Here \in Leaves(exprs[j])}}

Awaited(exprs) == {LocalForward(n) : n \in {m \in Numbers : Forward(m) \in LeavesOf(exprs)}}

WithPositions(t, exprs) ==
    [id \in DOMAIN t \cup Positions(exprs) \cup Awaited(exprs) |->
        IF id \in DOMAIN t THEN t[id]
        ELSE IF id \in Awaited(exprs) THEN Mentioned
        ELSE AsLabel(Mentioned, at + id[3] - 1, This)]

NoPrevious(exprs) ==
    IF \E n \in Numbers : defined[n] = 0 /\ Backward(n) \in LeavesOf(exprs)
      THEN Report("no previous") ELSE {}

(* The number an expression is where it is read, unless it names what the  *)
(* prelude defines, which a label may still take over; and the number it   *)
(* is because its names are.                                               *)
ReadAs(t, e) ==
    IF \E leaf \in Leaves(e) : leaf \in DOMAIN t /\ Predefined(t[leaf])
      THEN Unresolved ELSE Constant(t, e)

IsNumberThere(t, leaf) ==
    \/ IsNumber(leaf)
    \/ IsName(leaf) /\ ReadAs(t, Just(leaf)) # Unresolved

NumberThere(t, e) ==
    IF \A leaf \in Leaves(e) : IsNumberThere(t, leaf) THEN Constant(t, e) ELSE Unresolved

(***************************************************************************)
(* The statements.                                                         *)
(***************************************************************************)
Read(is, s) ==
    /\ phase = "reading"
    /\ Len(text) < source.most
    /\ s \in source.statements
    /\ s.is = is
    /\ text' = Append(text, s)
    /\ UNCHANGED <<source, image, phase>>

MayBeLabelled(symbol) == ~IsDefined(symbol) \/ Predefined(symbol)

(* "a:"                                                                    *)
DefineLabel(s) ==
    /\ Read("label", s)
    /\ LET t == Intern(table, {s.name})
       IN  IF MayBeLabelled(t[s.name])
             THEN /\ table' = [t EXCEPT ![s.name] = AsLabel(@, at, This)]
                  /\ UNCHANGED errors
             ELSE /\ table' = t
                  /\ errors' = errors \cup Report("redefined")
    /\ UNCHANGED <<defined, at, uses>>

(* "1:" takes the next slot, which a reference may have made already.      *)
DefineLocal(s) ==
    /\ Read("local", s)
    /\ LET id == LocalForward(s.n)
           t == Intern(table, {id})
       IN  table' = [t EXCEPT ![id] = AsLabel(@, at, This)]
    /\ defined' = [defined EXCEPT ![s.n] = @ + 1]
    /\ UNCHANGED <<at, uses, errors>>

(* The symbol an alias is written around.                                  *)
HeadOf(leaf) == IF IsName(leaf) THEN leaf ELSE None
HeadSymbol(e) ==
    LET l == HeadOf(e.l)
        r == HeadOf(e.r)
    IN  CASE e.op = "+" -> IF l = None THEN r ELSE IF r = None THEN l ELSE None
          [] e.op = "-" -> IF r = None THEN l ELSE None
          [] OTHER -> None

SizeSource_EvenDefined(t, e, head) ==
    LET v == Eval(t, "ref", e)
    IN  IF IsAddress(v) /\ v.addend = 0 THEN head ELSE None

(* An alias takes the size its source has, or is given later if the source *)
(* is still undefined and the alias adds nothing to it.                    *)
SizeSource(t, e, head) ==
    LET v == Eval(t, "ref", e)
    IN  IF ~IsDefined(t[head]) /\ IsAddress(v) /\ v.plus = head /\ v.addend = 0
          THEN head ELSE None

WithSizeOf(t, id, e) ==
    LET head == HeadSymbol(e)
    IN  IF head \in {None, id} THEN t
        ELSE [t EXCEPT ![id].size = IF IsDefined(t[head]) THEN t[head].size ELSE NoExpr,
                       ![id].sizeFrom = SizeSource(t, e, head)]

SymbolSize_OneHop(t, id) ==
    IF t[id].size # NoExpr \/ t[id].sizeFrom = None THEN t[id].size
    ELSE t[t[id].sizeFrom].size

(* The size of a symbol is its block's (which its name stands for here),   *)
(* what .size said, or the size of the symbol it takes it from.            *)
SymbolSize(t, id) ==
    LET size[hops \in 0..MaxHops] ==
            [i \in DOMAIN t \cup {None} |->
                IF hops = 0 \/ i = None THEN NoExpr
                ELSE IF t[i].is = "common" THEN Just(i)
                ELSE IF t[i].size # NoExpr THEN t[i].size
                ELSE size[hops - 1][t[i].sizeFrom]]
    IN  size[MaxHops][id]

(* A definition once it is bound.                                          *)
Settled(t, id, s) ==
    LET bound == WithPositions([t EXCEPT ![id].expr = Bound(t, @, 1)], s.exprs)
    IN  [bound EXCEPT ![id].was = NumberThere(t, bound[id].expr)]

(* .set, .equ, and .equiv, which defines "once" only.                      *)
DirSet(s) ==
    /\ Read("set", s) \/ Read("equiv", s)
    /\ LET e == s.exprs[1]
           once == s.is = "equiv"
           t == Intern(table, {s.name})
           u == Intern(t, {HeadSymbol(e)} \ {None})
           v == WithSizeOf(u, s.name, e)
       IN  IF once /\ IsDefined(t[s.name])
             THEN /\ table' = WithPositions(t, s.exprs)
                  /\ errors' = errors \cup Report("redefined") \cup NoPrevious(s.exprs)
             ELSE /\ table' = Settled(
                        [v EXCEPT ![s.name] = [AsExpr(@, e, This) EXCEPT !.redefinable = ~once]],
                        s.name, s)
                  /\ errors' = errors \cup NoPrevious(s.exprs)
    /\ UNCHANGED <<defined, at, uses>>

(* What "=" keeps: the expression, or the number it is there.              *)
Snapshot(t, e) == LET v == Constant(t, e) IN IF v = Unresolved THEN e ELSE Just(Number(v[1]))

(* "a = e", a name's EQU ("keep"), the 8-bit dialect's SET ("count") and   *)
(* CC-RL's .SET ("snapshot"), which wants a number.                        *)
Assign(s) ==
    /\ Read("keep", s) \/ Read("count", s) \/ Read("snapshot", s)
    /\ LET e == s.exprs[1]
           snapshot == s.is = "snapshot"
           known == IF snapshot THEN Intern(table, {leaf \in Leaves(e) : IsName(leaf)}) ELSE table
           refused == snapshot /\ ~IsAbs(Eval(known, "env", e))
           t == Intern(known, {s.name})
           once == source.dialect = "cc" /\ ~snapshot
           kept == IF s.is = "keep" THEN e ELSE Snapshot(known, e)
       IN  IF refused
             THEN /\ table' = WithPositions(known, s.exprs)
                  /\ errors' = errors \cup Report("not a number") \cup NoPrevious(s.exprs)
             ELSE IF IsDefined(t[s.name]) /\ ~t[s.name].redefinable
             THEN /\ table' = WithPositions(t, s.exprs)
                  /\ errors' = errors \cup Report("redefined") \cup NoPrevious(s.exprs)
             ELSE /\ table' = Settled(
                        [t EXCEPT ![s.name] = [AsExpr(@, kept, This) EXCEPT !.redefinable = ~once]],
                        s.name, s)
                  /\ errors' = errors \cup NoPrevious(s.exprs)
    /\ UNCHANGED <<defined, at, uses>>

DirSize(s) ==
    /\ Read("size", s)
    /\ LET t == Intern(table, {s.name})
       IN  table' = WithPositions([t EXCEPT ![s.name].size = Bound(t, s.exprs[1], 1)], s.exprs)
    /\ errors' = errors \cup NoPrevious(s.exprs)
    /\ UNCHANGED <<defined, at, uses>>

(* .comm, where it does not reserve the block in .bss.                     *)
DirComm(s) ==
    /\ Read("comm", s)
    /\ LET t == Intern(table, {s.name})
       IN  table' = [t EXCEPT ![s.name].is = "common", ![s.name].span = This]
    /\ UNCHANGED <<defined, at, uses, errors>>

(* A use: what is left of the expression, as what was written, where, and  *)
(* the number it was there.                                                *)
Use(written, e, item, was) ==
    [written |-> written, expr |-> e, span |-> This, item |-> item, was |-> was]

BoundItems(t, exprs) == [i \in DOMAIN exprs |-> Bound(t, exprs[i], i)]

Emit(t, exprs, left, was) ==
    /\ table' = t
    /\ uses' = uses \o [i \in DOMAIN exprs |-> Use(exprs[i], left[i], i, was[i])]
    /\ at' = at + Len(exprs)
    /\ errors' = errors \cup NoPrevious(exprs)
    /\ UNCHANGED defined

DataValue_Late(t, e, bound) == bound

(* A value that is a number already is written at once.  Local labels are  *)
(* bound by then only if the statement has a "." too.                      *)
DataValue(t, e, bound) ==
    LET now == Constant(t, e) IN IF now = Unresolved THEN bound ELSE Just(Number(now[1]))

DirData(s) ==
    /\ Read("data", s)
    /\ LET t == WithPositions(table, s.exprs)
           bound == BoundItems(t, s.exprs)
           now == IF Here \in LeavesOf(s.exprs) THEN bound ELSE s.exprs
       IN  Emit(t, s.exprs,
                [i \in DOMAIN bound |-> DataValue(t, now[i], bound[i])],
                [i \in DOMAIN bound |-> ReadAs(t, bound[i])])

Operand(s) ==
    /\ Read("operand", s)
    /\ LET t == WithPositions(table, s.exprs)
           bound == BoundItems(t, s.exprs)
       IN  Emit(t, s.exprs, bound, [i \in DOMAIN bound |-> NumberThere(t, bound[i])])

UndefinedLocals_None(t) == {}
UndefinedLocals(t) == {id \in DOMAIN t : id[1] = "slot" /\ id[3] > defined[id[2]]}

(* The end of the source: a flat image is filled in.                       *)
Finish ==
    /\ phase = "reading"
    /\ phase' = "done"
    /\ image' = [i \in DOMAIN uses |-> FixupValue(table, uses[i].expr)]
    /\ errors' = errors
         \cup {<<"no local", id>> : id \in UndefinedLocals(table)}
         \cup {<<"no value", i>> : i \in {j \in DOMAIN uses : image'[j] = Unresolved}}
    /\ UNCHANGED <<source, text, table, defined, at, uses>>

Next ==
    \/ \E s \in source.statements :
          DefineLabel(s) \/ DefineLocal(s) \/ DirSet(s) \/ Assign(s) \/ DirSize(s)
            \/ DirComm(s) \/ DirData(s) \/ Operand(s)
    \/ Finish

Spec == Init /\ [][Next]_vars
=============================================================================
