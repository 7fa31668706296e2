----------------------------- MODULE MCExpansion -----------------------------
(***************************************************************************)
(* Programs for TLC, put together from short pieces so that conditionals,  *)
(* expansions and files meet in every way.                                 *)
(***************************************************************************)
EXTENDS ExpansionProperties

S(op, arg) == [op |-> op, arg |-> arg]
Byte(n) == S("code", n)
If(v) == S("if", v)
ElseIf(v) == S("elseif", v)
Else == S("else", 0)
EndIf == S("endif", 0)
EndM == S("endm", 0)
EndR == S("endr", 0)
Call(m) == S("call", m)
Take(f) == S("include", f)
ExitM == S("exitm", 0)

Source(main, files) ==
    [oneCloser |-> FALSE, inputs |-> <<main>>, files |-> files, pieces |-> <<>>]

-----------------------------------------------------------------------------
(* Conditionals: two arms and an .else, each with code or a conditional.   *)

Inner == {<<Byte(1)>>} \cup
         {<<If(v), Byte(2), ElseIf(w), Byte(3), Else, Byte(4), EndIf>> : v, w \in {0, 1}}

NestedText(v, w, a, b, c) ==
    <<If(v)>> \o a \o <<ElseIf(w)>> \o b \o <<Else>> \o c \o <<EndIf, Byte(5)>>

NestedPrograms ==
    {Source(NestedText(v, w, a, b, c), <<>>) : v, w \in {0, 1, 2}, a, b, c \in Inner}

(* The same shapes with the directives that test for a blank argument and  *)
(* the other spelling of .elseif.                                          *)
BlankPrograms ==
    {Source(NestedText(0, 0, <<S("ifb", 1), Byte(2), EndIf>>, b, <<Byte(1)>>), <<>>) : b \in Inner}

-----------------------------------------------------------------------------
(* A macro, a file and the input that uses them.  Each may call or include *)
(* the others, itself too, and leave early, in a conditional or not.  A    *)
(* second input calls the macro of a first that leaves a conditional open. *)

Leaving(v) == <<If(v), ExitM, EndIf>>

Bodies == {a \o b : a, b \in
             {<<Byte(1)>>, <<Call(1)>>, <<Take(1)>>, Leaving(0), Leaving(1), <<ExitM>>}}
Files == {a \o b : a, b \in {<<Byte(2)>>, <<Call(1)>>, <<Take(1)>>, Leaving(1)}}
Uses == {<<Call(1)>>, <<Take(1)>>, <<S("rept", 2), Call(1), EndR>>,
         <<S("rept", 2), ExitM, EndR>>}

ExpansionPrograms ==
    {Source(<<S("macro", 1)>> \o body \o <<EndM, If(1), If(0), Byte(4), Else>> \o a \o
            <<EndIf, Else>> \o b \o <<EndIf, Byte(3)>>, <<file>>) :
        body \in Bodies, file \in Files, a \in Uses, b \in {<<Call(1)>>, <<Take(1)>>}}
    \cup {[Source(<<>>, <<file>>) EXCEPT
             !.inputs = <<<<S("macro", 1)>> \o body \o <<EndM, If(v)>>, <<Call(1), Byte(3)>>>>] :
             body \in Bodies, file \in Files, v \in {0, 1}}

-----------------------------------------------------------------------------
(* Blocks in blocks, captured, expanded, redefined and purged, and both    *)
(* ways to end a repeat.                                                   *)

Wraps(cc, texts) ==
    UNION {{<<S("macro", 2)>> \o t \o <<EndM>>,
            <<S("rept", 2)>> \o t \o <<IF cc THEN EndM ELSE EndR>>,
            <<If(0)>> \o t \o <<EndIf>>,
            <<If(1)>> \o t \o <<Else, Byte(1), EndIf>>} : t \in texts}

Blocks(cc) ==
    LET once == Wraps(cc, {<<Byte(1)>>, <<Call(2)>>, <<ExitM>>})
        twice == Wraps(cc, once)
    IN  twice \cup Wraps(cc, twice)

BlockPrograms ==
    UNION {{[Source(<<S("macro", 1)>> \o a \o <<EndM, Call(1)>> \o b \o
                    <<S("purgem", 2), Call(1), Call(2)>>, <<>>) EXCEPT !.oneCloser = cc] :
              a \in Blocks(cc), b \in Wraps(cc, {<<Call(1)>>, <<>>})} : cc \in BOOLEAN}
    \cup {Source(<<S("macro", 1), Byte(1), EndR, Byte(2)>>, <<>>),
          Source(<<Take(1), S("define", 1), Byte(1)>>, <<>>),
          Source(<<EndR, S("rept", 2), S("rept", 2), EndR, EndM>>, <<>>),
          Source(<<S("rept", 2), If(0), EndM, EndIf, S("macro", 3), EndR, EndM>>, <<>>),
          Source(<<If(0), S("macro", 1), Else, EndM, EndIf>>, <<>>)}

-----------------------------------------------------------------------------
(* END in every place but a repeat, with CC-RX's rewritten statements,     *)
(* which may call themselves or open a conditional.                        *)

Define(n) == S("define", n)
Places == {<<Byte(1)>>, <<S("end", 0)>>, <<Call(1)>>, <<Take(1)>>, <<Define(1)>>,
           <<If(1), S("end", 0), EndIf>>}
Pieces == {<<S("end", 0)>>, <<Call(1)>>, <<Define(1)>>, <<If(0)>>, <<If(1)>>, <<Byte(4)>>,
           <<If(0), Define(1), EndIf>>}

EndPrograms ==
    {[Source(<<S("macro", 1)>> \o a \o <<EndM>> \o b \o c \o <<Byte(3)>>, <<d \o <<Byte(2)>>>>)
        EXCEPT !.pieces = <<p>>] :
        a, b, c, d \in Places, p \in Pieces}

(* Everything that has to be walked to its end.                            *)
WalkPrograms == NestedPrograms \cup ExpansionPrograms \cup BlockPrograms \cup EndPrograms

=============================================================================
