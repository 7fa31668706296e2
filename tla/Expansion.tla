------------------------------ MODULE Expansion ------------------------------
(***************************************************************************)
(* The statement walker: files, macro expansions and repeated blocks read  *)
(* a statement at a time, each inside the one that caused it, under one    *)
(* stack of conditionals that all of them share.                           *)
(*                                                                         *)
(* The code recurses -- run, run_statement, expand, assemble_file -- and   *)
(* unwinds through flags every level looks at after the one inside it has  *)
(* returned.  Here the recursion is the variable `stack', and one step is  *)
(* one statement of the innermost text or the return from it.              *)
(***************************************************************************)
EXTENDS Statements

CONSTANTS
    Programs,         \* what to assemble
    MaxMacroDepth,    \* 64 in expand
    MaxIncludeDepth   \* 32 in include, which lets one more through

(* oneCloser: the CC-RL and CC-RH block keywords.  inputs: the files named *)
(* on the command line; files: the ones .include finds; pieces: what the   *)
(* names CC-RX `.DEFINE' gave a string to expand a statement to.           *)
Program ==
    [oneCloser : BOOLEAN, inputs : Seq(Text) \ {<<>>}, files : Seq(Text), pieces : Seq(Text)]

ASSUME DepthAssumption == MaxMacroDepth \in Nat /\ MaxIncludeDepth \in Nat
ASSUME ProgramsAssumption == Programs \subseteq Program

VARIABLES
    prog,
    input,         \* the input being assembled
    stack,         \* the texts being read, outermost first
    cond,          \* Assembler::cond
    macros,        \* Assembler::macros: name -> body
    macroDepth,    \* Assembler::macro_depth
    includeDepth,  \* Assembler::include_depth
    exiting,       \* Assembler::exiting_macro
    ended,         \* Assembler::end_of_source
    emitted,       \* the code assembled, in order
    errors         \* the diagnostics, by what they complain about

depths == <<macroDepth, includeDepth>>
flags  == <<exiting, ended>>
result == <<emitted, errors>>
vars   == <<prog, input, stack, cond, macros, depths, flags, result>>

Kinds == {"input", "include", "macro", "repeat", "define"}
IsExpansion(kind) == kind \in {"macro", "repeat"}

(* A text being read: where, what made it be read, how many conditionals   *)
(* were open when it was entered, and whether its walk has been told to    *)
(* stop.                                                                   *)
Frame == [text : Text, at : Nat \ {0}, kind : Kinds, conds : Nat, stopped : BOOLEAN]

Enter(text, kind) ==
    [text |-> text, at |-> 1, kind |-> kind, conds |-> Len(cond), stopped |-> FALSE]

Init ==
    /\ prog \in Programs
    /\ input = 1
    /\ stack = <<[text |-> prog.inputs[1], at |-> 1, kind |-> "input", conds |-> 0,
                  stopped |-> FALSE]>>
    /\ cond = <<>>
    /\ macros = [m \in {} |-> <<>>]
    /\ macroDepth = 0 /\ includeDepth = 0
    /\ exiting = FALSE /\ ended = FALSE
    /\ emitted = <<>> /\ errors = {}

-----------------------------------------------------------------------------
Depth == Len(stack)
Top == stack[Depth]
HasStatement(f) == ~f.stopped /\ f.at <= Len(f.text)
Reading == stack # <<>> /\ HasStatement(Top)
Stmt == Top.text[Top.at]

CondActive == cond # <<>> => cond[Len(cond)].active
EnclosingActive == Len(cond) >= 2 => cond[Len(cond) - 1].active

(* On to statement `at' of the innermost text, or out of it.               *)
GoTo(at, stop) == stack' = [stack EXCEPT ![Depth].at = at, ![Depth].stopped = stop]

(* run_statement goes on to the next statement unless one of the flags is  *)
(* up.                                                                     *)
GoOn == GoTo(Top.at + 1, exiting \/ ended)

Report(what) == errors' = errors \cup {what}

(* CC-RX: a statement with a .DEFINEd name is rewritten and read again, as *)
(* a piece of the file it stands in, before anything else looks at it.     *)
IsRewritten == Reading /\ Stmt.op = "define" /\ Stmt.arg \in DOMAIN prog.pieces

ApplyDefine ==
    /\ IsRewritten
    /\ IF macroDepth >= MaxMacroDepth
       THEN /\ Report("define depth")
            /\ GoTo(Top.at + 1, TRUE)
            /\ UNCHANGED macroDepth
       ELSE /\ stack' = Append(stack, Enter(prog.pieces[Stmt.arg], "define"))
            /\ macroDepth' = macroDepth + 1
            /\ UNCHANGED errors
    /\ UNCHANGED <<prog, input, cond, macros, includeDepth, flags, emitted>>

-----------------------------------------------------------------------------
(* Block constructs and macro calls, which a false conditional hides.      *)

Walks == Reading /\ CondActive

(* A captured block with no end takes the rest of the text with it.        *)
Unterminated ==
    /\ Walks
    /\ Stmt.op \in {"macro", "rept"}
    /\ BlockEnds(Top.text, Top.at, prog.oneCloser) = {}
    /\ Report("unterminated block")
    /\ GoTo(Len(Top.text) + 1, FALSE)
    /\ UNCHANGED <<prog, input, cond, macros, depths, flags, emitted>>

DefineMacro ==
    /\ Walks
    /\ Stmt.op = "macro"
    /\ \E end \in BlockEnds(Top.text, Top.at, prog.oneCloser) :
          /\ GoTo(end + 1, FALSE)
          /\ IF Stmt.arg \in DOMAIN macros
             THEN Report("macro defined twice") /\ UNCHANGED macros
             ELSE /\ macros' = [m \in DOMAIN macros \cup {Stmt.arg} |->
                                  IF m = Stmt.arg THEN Body(Top.text, Top.at, end)
                                  ELSE macros[m]]
                  /\ UNCHANGED errors
    /\ UNCHANGED <<prog, input, cond, depths, flags, emitted>>

Expand_Unbounded(text, kind, at) ==
    /\ stack' = Append([stack EXCEPT ![Depth].at = at], Enter(text, kind))
    /\ macroDepth' = macroDepth + 1
    /\ UNCHANGED errors

StopsAfter_Never(kind, unwinding, over) == FALSE

(* The walk a repeat block stands in goes on after it whatever the flags   *)
(* say; every other construct's asks them.                                 *)
StopsAfter(kind, unwinding, over) == kind # "repeat" /\ (unwinding \/ over)

(* expand.  `at' is the last statement of what is expanded.                *)
Expand(text, kind, at) ==
    IF macroDepth >= MaxMacroDepth
    THEN /\ Report("macro depth")
         /\ GoTo(at + 1, StopsAfter(kind, exiting, ended))
         /\ UNCHANGED macroDepth
    ELSE /\ stack' = Append([stack EXCEPT ![Depth].at = at], Enter(text, kind))
         /\ macroDepth' = macroDepth + 1
         /\ UNCHANGED errors

ExpandRepeat ==
    /\ Walks
    /\ Stmt.op = "rept"
    /\ \E end \in BlockEnds(Top.text, Top.at, prog.oneCloser) :
          Expand(Copies(Body(Top.text, Top.at, end), Stmt.arg), "repeat", end)
    /\ UNCHANGED <<prog, input, cond, macros, includeDepth, flags, emitted>>

StrayEnd ==
    /\ Walks
    /\ Stmt.op \in {"endm", "endr"}
    /\ Report("stray block end")
    /\ GoTo(Top.at + 1, FALSE)
    /\ UNCHANGED <<prog, input, cond, macros, depths, flags, emitted>>

(* .exitm: the walks up to the innermost expansion's all stop.             *)
ExitMacro ==
    /\ Walks
    /\ Stmt.op = "exitm"
    /\ GoTo(Top.at + 1, TRUE)
    /\ IF macroDepth = 0
       THEN Report("exitm outside a macro") /\ UNCHANGED exiting
       ELSE exiting' = TRUE /\ UNCHANGED errors
    /\ UNCHANGED <<prog, input, cond, macros, depths, ended, emitted>>

ExpandMacro ==
    /\ Walks
    /\ Stmt.op = "call"
    /\ Stmt.arg \in DOMAIN macros
    /\ Expand(macros[Stmt.arg], "macro", Top.at)
    /\ UNCHANGED <<prog, input, cond, macros, includeDepth, flags, emitted>>

-----------------------------------------------------------------------------
LookedAt_NoNesting == {"elseif", "else", "endif"}

(* process.  While a conditional is false, only some of the conditional    *)
(* directives are looked at.                                               *)
LookedAt == {"if", "elseif", "else", "endif"}

Looks == Reading /\ (~CondActive => Stmt.op \in LookedAt)

Skip ==
    /\ Reading
    /\ ~CondActive
    /\ Stmt.op \notin LookedAt
    /\ ~IsRewritten
    /\ GoOn
    /\ UNCHANGED <<prog, input, cond, macros, depths, flags, result>>

(* eval_condition: 0 and 1 are what they are, anything else does not       *)
(* resolve to a number, which is an error and counts as false.             *)
Value == Stmt.arg = 1
Evaluate == IF Stmt.arg \in {0, 1} THEN UNCHANGED errors ELSE Report("condition")

SetTop(c) == cond' = [cond EXCEPT ![Len(cond)] = c]

(* A conditional inside a false branch is pushed as one whose branch has   *)
(* been taken already, and its condition is not evaluated.                 *)
DirIf ==
    /\ Looks
    /\ Stmt.op \in Opening
    /\ cond' = Append(cond, [active |-> CondActive /\ Value, taken |-> ~CondActive \/ Value,
                             seenElse |-> FALSE])
    /\ IF CondActive THEN Evaluate ELSE UNCHANGED errors
    /\ GoOn
    /\ UNCHANGED <<prog, input, macros, depths, flags, emitted>>

Innermost == cond[Len(cond)]

DirElseIf ==
    /\ Looks
    /\ Stmt.op \in {"elseif", "elif"}
    /\ IF cond = <<>> \/ Innermost.seenElse
       THEN Report("elseif") /\ UNCHANGED cond
       ELSE IF Innermost.taken
       THEN SetTop([Innermost EXCEPT !.active = FALSE]) /\ UNCHANGED errors
       ELSE /\ SetTop([Innermost EXCEPT !.active = EnclosingActive /\ Value,
                                        !.taken = EnclosingActive /\ Value])
            /\ IF EnclosingActive THEN Evaluate ELSE UNCHANGED errors
    /\ GoOn
    /\ UNCHANGED <<prog, input, macros, depths, flags, emitted>>

DirElse ==
    /\ Looks
    /\ Stmt.op = "else"
    /\ IF cond = <<>> \/ Innermost.seenElse
       THEN Report("else") /\ UNCHANGED cond
       ELSE /\ SetTop([active |-> EnclosingActive /\ ~Innermost.taken, taken |-> TRUE,
                       seenElse |-> TRUE])
            /\ UNCHANGED errors
    /\ GoOn
    /\ UNCHANGED <<prog, input, macros, depths, flags, emitted>>

(* .endif closes whichever conditional is innermost.                       *)
DirEndIf ==
    /\ Looks
    /\ Stmt.op = "endif"
    /\ IF cond = <<>>
       THEN Report("endif") /\ UNCHANGED cond
       ELSE cond' = SubSeq(cond, 1, Len(cond) - 1) /\ UNCHANGED errors
    /\ GoOn
    /\ UNCHANGED <<prog, input, macros, depths, flags, emitted>>

Include ==
    /\ Walks
    /\ Stmt.op = "include"
    /\ IF includeDepth > MaxIncludeDepth \/ Stmt.arg \notin DOMAIN prog.files
       THEN Report("include") /\ GoOn /\ UNCHANGED includeDepth
       ELSE /\ stack' = Append(stack, Enter(prog.files[Stmt.arg], "include"))
            /\ includeDepth' = includeDepth + 1
            /\ UNCHANGED errors
    /\ UNCHANGED <<prog, input, cond, macros, macroDepth, flags, emitted>>

PurgeMacro ==
    /\ Walks
    /\ Stmt.op = "purgem"
    /\ IF Stmt.arg \in DOMAIN macros
       THEN macros' = [m \in DOMAIN macros \ {Stmt.arg} |-> macros[m]] /\ UNCHANGED errors
       ELSE Report("purgem") /\ UNCHANGED macros
    /\ GoOn
    /\ UNCHANGED <<prog, input, cond, depths, flags, emitted>>

(* A vendor END: nothing after it is assembled.                            *)
End ==
    /\ Walks
    /\ Stmt.op = "end"
    /\ ended' = TRUE
    /\ GoTo(Top.at + 1, TRUE)
    /\ UNCHANGED <<prog, input, cond, macros, depths, exiting, result>>

(* A word that is no macro and stands for nothing.                         *)
IsUnknown ==
    \/ Stmt.op = "call" /\ Stmt.arg \notin DOMAIN macros
    \/ Stmt.op = "define" /\ Stmt.arg \notin DOMAIN prog.pieces

(* An instruction or data, and a word that is neither.                     *)
Code ==
    /\ Walks
    /\ Stmt.op = "code" \/ IsUnknown
    /\ IF Stmt.op = "code"
       THEN emitted' = Append(emitted, Stmt.arg) /\ UNCHANGED errors
       ELSE Report("unknown instruction") /\ UNCHANGED emitted
    /\ GoOn
    /\ UNCHANGED <<prog, input, cond, macros, depths, flags>>

-----------------------------------------------------------------------------
(* The end of a text.                                                      *)

OwnConds_Kept(f) == Len(cond)

(* How many conditionals stay open: a text closes the ones it opened, but  *)
(* a rewritten statement may open one for the text it stands in.           *)
OwnConds(f) == IF f.kind = "define" THEN Len(cond) ELSE f.conds

(* The end of assemble_file_in and the return to what called it.           *)
Leave ==
    /\ stack # <<>>
    /\ ~HasStatement(Top)
    /\ LET left == Len(cond) > OwnConds(Top)
           back == SubSeq(stack, 1, Depth - 1)
       IN  /\ cond' = IF left THEN SubSeq(cond, 1, OwnConds(Top)) ELSE cond
           /\ IF left /\ ~exiting THEN Report("unterminated if") ELSE UNCHANGED errors
           /\ exiting' = (exiting /\ ~IsExpansion(Top.kind))
           /\ macroDepth' = IF IsExpansion(Top.kind) \/ Top.kind = "define"
                            THEN macroDepth - 1 ELSE macroDepth
           /\ includeDepth' = IF Top.kind = "include" THEN includeDepth - 1 ELSE includeDepth
           /\ stack' = IF back = <<>> THEN back
                       ELSE [back EXCEPT
                               ![Depth - 1].at = @ + 1,
                               ![Depth - 1].stopped = StopsAfter(Top.kind, exiting', ended)]
    /\ UNCHANGED <<prog, input, macros, ended, emitted>>

(* The next file of the command line.                                      *)
NextInput ==
    /\ stack = <<>>
    /\ input < Len(prog.inputs)
    /\ input' = input + 1
    /\ stack' = <<Enter(prog.inputs[input + 1], "input")>>
    /\ UNCHANGED <<prog, cond, macros, depths, flags, result>>

Finished == stack = <<>> /\ input = Len(prog.inputs)
Stop == Finished /\ UNCHANGED vars

Next ==
    \/ ApplyDefine
    \/ Unterminated \/ DefineMacro \/ ExpandRepeat \/ StrayEnd \/ ExitMacro \/ ExpandMacro
    \/ Skip \/ DirIf \/ DirElseIf \/ DirElse \/ DirEndIf
    \/ Include \/ PurgeMacro \/ End \/ Code
    \/ Leave \/ NextInput \/ Stop

Spec == Init /\ [][Next]_vars

(* The walk goes on as long as there is something to read.                 *)
FairSpec == Spec /\ WF_vars(Next)

=============================================================================
