------------------------------- MODULE Terms --------------------------------
(***************************************************************************)
(* Expressions, the values they may have before addresses are known, and   *)
(* the three evaluators of the assembler (expr.rs; Env in assembler.rs;    *)
(* AddressEnv in layout.rs).                                               *)
(*                                                                         *)
(* An expression is two leaves and an operator; longer ones are built with *)
(* symbols.  A leaf is a tuple whose first member says what it is.         *)
(***************************************************************************)
EXTENDS Integers, Sequences

CONSTANTS
    MaxChain,   \* how deep definitions may refer to definitions
    Base        \* the address of the section

ASSUME MaxChainAssumption == MaxChain \in Nat
ASSUME BaseAssumption == Base \in Int

None == <<"none">>

(* Leaves as they are written: a number, a name, "." and "1f" and "1b".    *)
Number(n) == <<"number", n>>
Named(n) == <<"name", n>>
Here == <<"here">>
Forward(n) == <<"forward", n>>
Backward(n) == <<"backward", n>>

(* The symbols behind the last three: item "i" of a statement, and the     *)
(* k-th "n:" of the source.  Named(n) is the symbol of the name too.       *)
HereAt(statement, i) == <<"at", statement, i>>
Slot(n, k) == <<"slot", n, k>>

IsNumber(leaf) == leaf[1] = "number"
IsName(leaf) == leaf[1] = "name"
IsPositional(leaf) == leaf[1] \in {"here", "forward", "backward"}

Expr(l, op, r) == [l |-> l, op |-> op, r |-> r]
Just(leaf) == Expr(leaf, "+", Number(0))
NoExpr == Just(None)
Leaves(e) == {e.l, e.r}

(* A value is plus - minus + addend.                                       *)
Value(plus, minus, addend) == [ok |-> TRUE, plus |-> plus, minus |-> minus, addend |-> addend]
Abs(n) == Value(None, None, n)
Sym(id) == Value(id, None, 0)
Failed == [Abs(0) EXCEPT !.ok = FALSE]

IsAbs(v) == v.ok /\ v.plus = None /\ v.minus = None
IsAddress(v) == v.ok /\ v.plus # None /\ v.minus = None

Either(a, b) == IF a = None THEN b ELSE a

EvalAdd(l, r) ==
    LET sum == l.addend + r.addend
    IN  CASE l.minus # None /\ l.minus = r.plus /\ r.minus = None -> Value(l.plus, None, sum)
          [] l.plus # None /\ l.minus = None /\ l.plus = r.minus -> Value(r.plus, None, sum)
          [] OTHER ->
                IF None \in {l.plus, r.plus} /\ None \in {l.minus, r.minus}
                  THEN Value(Either(l.plus, r.plus), Either(l.minus, r.minus), sum)
                  ELSE Failed

EvalSub(l, r) ==
    LET difference == l.addend - r.addend
    IN  CASE IsAbs(r) -> Value(l.plus, l.minus, difference)
          [] IsAddress(l) /\ IsAddress(r) ->
                IF l.plus = r.plus THEN Abs(difference)
                ELSE Value(l.plus, r.plus, difference)
          [] OTHER -> Failed

(* "*" stands for every operator that wants numbers.                       *)
EvalMul(l, r) == IF IsAbs(l) /\ IsAbs(r) THEN Abs(l.addend * r.addend) ELSE Failed

EvalBinary(op, l, r) ==
    IF l.ok /\ r.ok
      THEN CASE op = "+" -> EvalAdd(l, r)
             [] op = "-" -> EvalSub(l, r)
             [] op = "*" -> EvalMul(l, r)
      ELSE Failed

(* The evaluators differ in what they make of a name nobody has mentioned  *)
(* to the table, of a label, and of a name that stands for a label:        *)
(* "ref" is SymbolEnv, "env" is Env and "address" AddressEnv.              *)
LeafValue(table, env, values, leaf) ==
    CASE IsNumber(leaf) -> Abs(leaf[2])
      [] IsPositional(leaf) \/ leaf = None -> Failed
      [] OTHER -> IF leaf \in DOMAIN table THEN values[leaf]
                  ELSE IF env = "env" THEN Sym(leaf) ELSE Failed

LabelValue(env, id, symbol) ==
    IF env = "address" /\ symbol.is = "label" THEN Abs(Base + symbol.at) ELSE Sym(id)

AliasValue_AnyShape(table, env, id, v) ==
    IF env = "env" /\ v.ok /\ v.plus # None THEN Sym(id) ELSE v

(* A name that stands for a label, or for such a name, keeps its own name. *)
AliasValue(table, env, id, v) ==
    IF /\ env = "env"
       /\ IsAddress(v)
       /\ v.plus \in DOMAIN table
       /\ table[v.plus].is \in {"label", "expr"}
      THEN Sym(id) ELSE v

(* The value of every symbol, following "left" definitions further.        *)
SymbolValues(table, env) ==
    LET following[left \in 0..(MaxChain + 1)] ==
            [id \in DOMAIN table |->
                IF table[id].is # "expr" THEN LabelValue(env, id, table[id])
                ELSE IF left = 0 THEN Failed
                ELSE LET e == table[id].expr
                         inner == following[left - 1]
                     IN  AliasValue(table, env, id,
                            EvalBinary(e.op, LeafValue(table, env, inner, e.l),
                                             LeafValue(table, env, inner, e.r)))]
    IN  following[MaxChain + 1]

Eval(table, env, e) ==
    LET values == SymbolValues(table, env)
    IN  EvalBinary(e.op, LeafValue(table, env, values, e.l), LeafValue(table, env, values, e.r))

(* A number that may not be known: an empty sequence, or one of a number.  *)
Unresolved == <<>>

(* The number an expression is already, before anything has an address.    *)
Constant(table, e) ==
    LET v == Eval(table, "ref", e) IN IF IsAbs(v) THEN <<v.addend>> ELSE Unresolved

(* symbol_addr: the address of a label, or of a name that stands for one.  *)
SymbolAddr(table, id) ==
    LET v == Eval(table, "ref", Just(id))
    IN  IF IsAddress(v) /\ table[v.plus].is = "label"
          THEN <<Base + table[v.plus].at + v.addend>> ELSE Unresolved

ResolveValue(table, v) ==
    LET plus == IF v.plus = None THEN <<0>> ELSE SymbolAddr(table, v.plus)
        minus == IF v.minus = None THEN <<0>> ELSE SymbolAddr(table, v.minus)
    IN  IF plus = Unresolved \/ minus = Unresolved THEN Unresolved
        ELSE <<plus[1] - minus[1] + v.addend>>

(* What a field of a flat image is filled with.                            *)
FixupValue(table, e) ==
    LET v == Eval(table, "env", e)
        w == Eval(table, "address", e)
    IN  IF v.ok THEN ResolveValue(table, v)
        ELSE IF IsAbs(w) THEN <<w.addend>> ELSE Unresolved
=============================================================================
