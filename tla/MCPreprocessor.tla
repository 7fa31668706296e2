--------------------------- MODULE MCPreprocessor ---------------------------
(***************************************************************************)
(* NASM sources for TLC, put together so that conditionals, macros, `%rep' *)
(* blocks, files and exits meet in every way.                              *)
(***************************************************************************)
EXTENDS PreprocessorProperties

L(op, arg) == [op |-> op, arg |-> arg, lo |-> 0, hi |-> 0, recursive |-> FALSE]
Byte(n) == L("code", n)
If(v) == L("if", v)
Elif(v) == L("elif", v)
Else == L("else", 0)
Endif == L("endif", 0)
Erroneous(s) == [s EXCEPT !.lo = 1]
EndM == L("endm", 0)
EndR == L("endr", 0)
Rept(n) == L("rept", n)
Take(f) == L("include", f)
ExitM == L("exitmacro", 0)
ExitR == L("exitrep", 0)
Call(m) == L("call", m)
CallWith(m, n) == [Call(m) EXCEPT !.lo = n]

Defines(name, lo, hi, recursive) ==
    [op |-> "macro", arg |-> name, lo |-> lo, hi |-> hi, recursive |-> recursive]
Plain(name, body) == <<Defines(name, 0, 0, FALSE)>> \o body \o <<EndM>>
Recursive(name, body) == <<Defines(name, 0, 0, TRUE)>> \o body \o <<EndM>>

Source(main, file) == [main |-> main, files |-> <<file>>]

-----------------------------------------------------------------------------
(* Two arms and an %else, each with code or a conditional.                 *)
Inner == {<<Byte(1)>>} \cup
         {<<If(v), Byte(2), Elif(w), Byte(3), Else, Byte(4), Endif>> : v, w \in {0, 1}}

Nested ==
    {Source(<<s>> \o a \o <<t>> \o b \o <<Else>> \o c \o <<Endif, Byte(5)>>, <<>>) :
        s \in {If(0), If(1), Erroneous(If(0)), Erroneous(If(1))},
        t \in {Elif(0), Elif(1), Erroneous(Elif(0)), Erroneous(Elif(1))},
        a, b, c \in Inner}

(* Conditionals that do not nest: closed or taken up in another text.      *)
Crossing ==
    {Source(<<If(v)>> \o a \o <<L("endif", 0), L("elif", 1), Byte(2)>>, b) :
        v \in {0, 1},
        a \in {<<Take(1)>>, <<Else, Elif(1)>>, <<Else, Else, Byte(1)>>, <<Else, Take(1)>>},
        b \in {<<Endif, If(1)>>, <<Else, Byte(1)>>, <<Endif, Endif>>, <<If(1)>>}}

-----------------------------------------------------------------------------
(* A macro, a file and repeats that leave early, call or include each      *)
(* other and themselves.                                                   *)
Leave1 == {<<ExitM>>, <<ExitR>>, <<If(1), ExitM, Endif>>, <<If(1), ExitR, Endif>>}
Pieces == Leave1 \cup {<<Byte(1)>>, <<Call(1)>>, <<Take(1)>>, <<If(0), ExitR, Endif>>}
Repeats == {<<Rept(2)>> \o p \o <<Byte(2), EndR>> : p \in Pieces}

Exits ==
    {Source(def \o <<If(1)>> \o a \o <<Else, Byte(4), Endif>> \o b \o <<Byte(3)>>, file) :
        def \in {Plain(1, p \o q) : p \in Pieces \cup Repeats, q \in {<<Byte(5)>>}}
                \cup {Recursive(1, p \o <<Byte(5)>>) : p \in Pieces \cup Repeats},
        a \in {<<Call(1)>>, <<Take(1)>>} \cup Repeats,
        b \in {<<Call(1)>>, <<ExitR>>},
        file \in {p \o <<Byte(6)>> : p \in Pieces} \cup {<<Rept(2), Call(1), ExitR, EndR>>}}

-----------------------------------------------------------------------------
(* Macros by their number of parameters, redefined, removed and defined    *)
(* again while they are being expanded.                                    *)
Overloads ==
    {Source(Plain(1, a) \o <<Defines(1, lo, 2, r)>> \o b \o <<EndM>> \o c \o
            <<CallWith(1, n), CallWith(1, 1), Byte(3)>>, <<>>) :
        a, b \in {<<Byte(1)>>, <<CallWith(1, 1)>>, <<Call(1)>>},
        lo \in {0, 1}, r \in BOOLEAN, n \in 0 .. 3,
        c \in {<<>>, Plain(1, <<Byte(2)>>), <<[L("unmacro", 1) EXCEPT !.lo = 1, !.hi = 2]>>}}
    \cup {Source(Plain(2, Plain(1, <<Byte(1), Call(2)>>) \o <<Call(1)>>) \o a, <<>>) :
            a \in {<<Call(2)>>, <<Call(2), Call(1)>>, <<Call(1)>>}}

(* Blocks in blocks, unterminated, and repeats that are too many.          *)
Wraps(texts) ==
    UNION {{<<Rept(n)>> \o t \o <<EndR>> : n \in {0, 2, 4}} \cup
           {Plain(2, t), <<If(0)>> \o t \o <<Endif>>} : t \in texts}

Blocks ==
    {Source(a \o <<Call(2)>>, <<>>) : a \in Wraps(Wraps(Wraps({<<Byte(1)>>, <<Call(2)>>, <<>>})))}
    \cup {Source(a \o <<Byte(1)>>, <<>>) :
            a \in {<<Rept(2), Byte(2)>>, <<EndR>>, <<EndM>>, <<Rept(2), EndM, EndR>>,
                   <<Defines(1, 0, 0, FALSE), EndR>>, <<Take(2)>>,
                   <<Rept(2), If(0), EndM, Endif, Defines(1, 0, 0, FALSE), EndR, EndM>>}}

-----------------------------------------------------------------------------
(* Contexts and the labels of contexts and expansions.                     *)
Scoped == {<<L("local", 0)>>, <<L("contextlocal", 1)>>, <<L("contextlocal", 2)>>,
           <<L("push", 0)>>, <<L("pop", 0)>>, <<Call(2)>>}

Scopes ==
    {Source(Plain(2, a \o b) \o c \o <<Call(2)>> \o d, <<>>) : a, b, c \in Scoped, d \in {<<L("local", 0)>>, <<L("contextlocal", 1)>>}}

(* %fatal in every place.                                                  *)
Fatals ==
    {Source(Plain(1, a) \o <<If(1)>> \o b \o <<Endif, Byte(3)>>, c) :
        a, b, c \in {<<L("fatal", 0), Byte(1)>>, <<Call(1)>>, <<Take(1)>>,
                     <<Rept(2), L("fatal", 0), Byte(2), EndR>>}}

(* Everything that has to be walked to its end.                            *)
NasmPrograms == Nested \cup Crossing \cup Exits \cup Overloads \cup Blocks \cup Scopes \cup Fatals

=============================================================================
