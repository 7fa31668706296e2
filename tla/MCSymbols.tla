----------------------------- MODULE MCSymbols ------------------------------
(* Kinds of source for the symbol table.                                   *)
EXTENDS SymbolsProperties

a == Named("a")
b == Named("b")
c == Named("c")
p == Named("p")

One(l) == <<Just(l)>>
Two(l, op, r) == <<Expr(l, op, r)>>
Label(name) == Statement("label", name, <<>>)
Set(name, exprs) == Statement("set", name, exprs)
Data(exprs) == Statement("data", None, exprs)
OperandOf(exprs) == Statement("operand", None, exprs)

Source(dialect, statements, predefined, most) ==
    [dialect |-> dialect, statements |-> statements, predefined |-> predefined, most |-> most]

(* Numeric labels and "." in data, operands and definitions.               *)
Locals == Source("gas",
    {LocalStatement(1), LocalStatement(2),
     Data(One(Backward(1))), Data(Two(Forward(1), "-", Here)),
     Data(One(Here) \o Two(Forward(2), "-", Here)),
     OperandOf(Two(Forward(1), "-", Backward(1))),
     Set(a, One(Forward(1))), Set(b, Two(Here, "-", Backward(1))),
     Data(Two(a, "-", b))}, {}, 5)

(* Names that stand for labels, for names, for differences and for         *)
(* themselves.                                                             *)
Chains == Source("gas",
    {Label(a), Label(b),
     Set(a, One(b)), Set(a, Two(b, "*", Number(2))),
     Set(b, Two(c, "-", a)), Set(b, Two(a, "+", Number(1))),
     Set(c, One(Here)), Set(c, Two(a, "-", b)), Set(c, Two(a, "+", b)),
     Data(Two(c, "+", b)), OperandOf(One(c))}, {}, 5)

(* Redefinition, and what a definition takes over from the one before.     *)
Redefinitions == Source("gas",
    {Label(a), Label(b), Set(a, One(Number(1))), Set(a, Two(b, "+", Number(1))), Set(a, One(b)),
     Statement("equiv", a, One(Forward(1))), Statement("keep", a, One(Number(2))),
     Statement("comm", a, <<>>), Statement("size", b, One(Number(4))),
     Set(b, One(a)), Set(b, One(c)), Set(c, One(a)), Set(b, One(Number(3))),
     Data(One(a)), Data(Two(a, "-", b)), OperandOf(One(b))}, {}, 4)

(* What "1b" and "." are bound to, and when.                               *)
Bindings == Source("gas",
    {LocalStatement(1), Label(b), Set(a, One(Backward(1))), Set(a, One(Number(5))),
     Data(Two(Backward(1), "-", a)), Data(Two(Backward(1), "-", a) \o One(Here)),
     Statement("size", b, Two(Here, "-", Backward(1))), Set(c, One(b)), Data(Two(a, "-", c))},
    {}, 5)

(* CC-RL's .SET and .EQU.                                                  *)
Cc == Source("cc",
    {Label(c), Statement("snapshot", a, One(Number(1))),
     Statement("snapshot", a, Two(a, "+", Number(1))), Statement("snapshot", a, One(Here)),
     Statement("keep", a, One(Number(3))), Statement("keep", b, Two(a, "+", Number(1))),
     Statement("keep", b, Two(c, "+", a)),
     Data(One(b)), OperandOf(Two(b, "-", a)), OperandOf(One(a))}, {}, 5)

(* The 8-bit dialect's SET and EQU, with a name the backend predefines.    *)
EightBit == Source("eight",
    {Label(p), Label(c), Statement("count", a, Two(a, "+", Number(1))),
     Statement("count", a, One(p)), Statement("count", a, Two(c, "+", Number(2))),
     Statement("keep", b, One(a)), Statement("keep", b, One(p)), Statement("keep", p, One(Number(1))),
     Data(One(p)), OperandOf(One(p)), OperandOf(Two(a, "+", b)),
     OperandOf(Two(a, "-", c))}, {p}, 5)

AllSources == {Locals, Chains, Redefinitions, Bindings, Cc, EightBit}
=============================================================================
