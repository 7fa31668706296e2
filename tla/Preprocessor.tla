---------------------------- MODULE Preprocessor ----------------------------
(***************************************************************************)
(* The NASM preprocessor: files, macro expansions, `%rep' blocks and       *)
(* included files read a line at a time under one stack of conditionals,   *)
(* left early by `%exitmacro' and `%exitrep', with the numbers that make   *)
(* the names of an expansion and of a context its own.                     *)
(*                                                                         *)
(* As in Expansion the recursion of the code -- run_nasm, nasm_line,       *)
(* nasm_call, nasm_rep, assemble_file -- is the variable `stack'.  A line  *)
(* is a statement of Statements, `%rep' and `%endrep' under the names of   *)
(* the blocks that nest the same way there.  What single-line macros and   *)
(* parameters substitute is left out, and so is a label before a call.     *)
(***************************************************************************)
EXTENDS Statements, SequencesExt

CONSTANTS
    Programs,        \* what to assemble
    MaxDepth,        \* MAX_DEPTH, 64
    MaxRep,          \* MAX_REP, a million
    MaxIncludeDepth  \* 32 in include, which lets one more through

LineOps ==
    {"if", "elif", "else", "endif", "macro", "endm", "exitmacro", "unmacro", "call",
     "rept", "endr", "exitrep", "include", "push", "pop", "fatal",
     "code", "local", "contextlocal"}

(* arg: what a condition comes to, 1 when it holds, the count of a `%rep', *)
(* or what the line names.  lo and hi: how many parameters a macro takes,  *)
(* or a call gives; lo of a condition: 0 when it is evaluated without an   *)
(* error.                                                                  *)
Line == [op : LineOps, arg : Nat, lo : Nat, hi : Nat, recursive : BOOLEAN]
Lines == Seq(Line)
Program == [main : Lines, files : Seq(Lines)]

ASSUME LimitsAssumption == MaxDepth \in Nat /\ MaxRep \in Nat /\ MaxIncludeDepth \in Nat
ASSUME SourcesAssumption == Programs \subseteq Program

VARIABLES
    prog,
    stack,         \* the texts being read, outermost first, with State::frames
    conds,         \* State::conds
    macros,        \* State::mmacros, each definition with its number
    definitions,   \* how many there have been: what Rc::ptr_eq tells apart
    contexts,      \* State::contexts, each by its number
    lastContext,   \* State::next_context
    lastUnique,    \* State::next_unique
    reps,          \* State::reps
    depth,         \* State::depth
    includeDepth,  \* Assembler::include_depth
    unwind,        \* State::unwind: "none", "macro" or "rept"
    ended,         \* Assembler::end_of_source
    emitted,       \* what was assembled, in order
    errors         \* the diagnostics, by what they complain about

macroVars == <<macros, definitions>>
numbers   == <<contexts, lastContext, lastUnique>>
counters  == <<reps, depth, includeDepth>>
flags     == <<unwind, ended>>
result    == <<emitted, errors>>
vars == <<prog, stack, conds, macroVars, numbers, counters, flags, result>>

-----------------------------------------------------------------------------
States == {"IfTrue", "IfFalse", "ElseTrue", "ElseFalse", "Done", "Never"}
Macro == [name : Nat, lo : Nat, hi : Nat, recursive : BOOLEAN, id : Nat, body : Lines]
Kinds == {"input", "include", "macro", "rept"}

(* A text being read.  Where it is a macro's, its Frame is part of it: the *)
(* definition expanded, the number of the expansion and how many `%rep'    *)
(* blocks were open when it began.                                         *)
Reader == [text : Lines, at : Nat \ {0}, kind : Kinds, conds : Nat, stopped : BOOLEAN,
           id : Nat, unique : Nat, reps : Nat]

Read(text, kind) ==
    [text |-> text, at |-> 1, kind |-> kind, conds |-> Len(conds), stopped |-> FALSE,
     id |-> 0, unique |-> 0, reps |-> 0]

Init ==
    /\ prog \in Programs
    /\ stack = <<[text |-> prog.main, at |-> 1, kind |-> "input", conds |-> 0,
                  stopped |-> FALSE, id |-> 0, unique |-> 0, reps |-> 0]>>
    /\ conds = <<>>
    /\ macros = {} /\ definitions = 0
    /\ contexts = <<>> /\ lastContext = 0 /\ lastUnique = 0
    /\ reps = 0 /\ depth = 0 /\ includeDepth = 0
    /\ unwind = "none" /\ ended = FALSE
    /\ emitted = <<>> /\ errors = {}

Depth == Len(stack)
Top == stack[Depth]
HasLine(r) == ~r.stopped /\ r.at <= Len(r.text)
Reading == stack # <<>> /\ HasLine(Top)
Stmt == Top.text[Top.at]

(* State::frames, by where they are on the stack.                          *)
Frames == {d \in 1 .. Depth : stack[d].kind = "macro"}
InMacro == Frames # {}
Innermost == stack[Max(Frames)]

Emits(c) == c \in {"IfTrue", "ElseTrue"}
Emitting == conds # <<>> => Emits(Last(conds))

GoesOn == unwind = "none" /\ ~ended
GoTo(at, stop) == stack' = [stack EXCEPT ![Depth].at = at, ![Depth].stopped = stop]
Report(what) == errors' = errors \cup {what}
Assemble(what, n) == emitted' = Append(emitted, [what |-> what, n |-> n])

-----------------------------------------------------------------------------
(* Conditionals, which are carried out whether or not the lines around     *)
(* them are.                                                               *)

(* What a condition comes to says nothing of an error in it: one without a *)
(* value does not hold, negated it does, and `%ifidn' and `%ifnidn'        *)
(* without a comma both do not.                                            *)
Test == Stmt.arg = 1
Evaluate == IF Stmt.lo = 0 THEN UNCHANGED errors ELSE Report("condition")

Conditional(ops) ==
    /\ Reading
    /\ Stmt.op \in ops
    /\ GoTo(Top.at + 1, FALSE)
    /\ UNCHANGED <<prog, macroVars, numbers, counters, flags, emitted>>

DirIf ==
    /\ Conditional({"if"})
    /\ conds' = Append(conds, IF ~Emitting THEN "Never" ELSE IF Test THEN "IfTrue" ELSE "IfFalse")
    /\ IF Emitting THEN Evaluate ELSE UNCHANGED errors

Becomes(state) == conds' = [conds EXCEPT ![Len(conds)] = state]

DirElif ==
    /\ Conditional({"elif"})
    /\ IF conds = <<>> THEN Report("elif") /\ UNCHANGED conds
       ELSE \/ /\ Last(conds) \in {"IfTrue", "Done"}
               /\ Becomes("Done") /\ UNCHANGED errors
            \/ /\ Last(conds) = "IfFalse"
               /\ Becomes(IF Test THEN "IfTrue" ELSE "IfFalse") /\ Evaluate
            \/ Last(conds) = "Never" /\ UNCHANGED <<conds, errors>>
            \/ /\ Last(conds) \in {"ElseTrue", "ElseFalse"}
               /\ Becomes("Never") /\ Report("elif after else")

AfterElse_DoneAsFalse(state) ==
    CASE state = "IfTrue" -> "ElseFalse"
      [] state \in {"IfFalse", "Done"} -> "ElseTrue"
      [] OTHER -> "Never"

AfterElse(state) ==
    CASE state \in {"IfTrue", "Done"} -> "ElseFalse"
      [] state = "IfFalse" -> "ElseTrue"
      [] OTHER -> "Never"

DirElse ==
    /\ Conditional({"else"})
    /\ IF conds = <<>> THEN Report("else") /\ UNCHANGED conds
       ELSE /\ Becomes(AfterElse(Last(conds)))
            /\ IF Last(conds) \in {"ElseTrue", "ElseFalse"}
               THEN Report("else after else") ELSE UNCHANGED errors

(* `%endif' closes whichever conditional is innermost.                     *)
DirEndif ==
    /\ Conditional({"endif"})
    /\ IF conds = <<>> THEN Report("endif") /\ UNCHANGED conds
       ELSE conds' = Front(conds) /\ UNCHANGED errors

Skip ==
    /\ Reading
    /\ ~Emitting
    /\ Stmt.op \notin {"if", "elif", "else", "endif"}
    /\ GoTo(Top.at + 1, FALSE)
    /\ UNCHANGED <<prog, conds, macroVars, numbers, counters, flags, result>>

-----------------------------------------------------------------------------
(* Multi-line macros.                                                      *)

Walks(op) == Reading /\ Emitting /\ Stmt.op = op

Ends == BlockEnds(Top.text, Top.at, FALSE)

(* A captured block with no end takes the rest of the text with it.        *)
Unterminated ==
    /\ \E op \in {"macro", "rept"} : Walks(op)
    /\ Ends = {}
    /\ Report("unterminated block")
    /\ GoTo(Len(Top.text) + 1, FALSE)
    /\ UNCHANGED <<prog, conds, macroVars, numbers, counters, flags, emitted>>

(* What takes as many parameters as the line says, of the same name.       *)
Replaced == {m \in macros : m.name = Stmt.arg /\ m.lo = Stmt.lo /\ m.hi = Stmt.hi}

(* A definition that takes as many parameters as an older one replaces it. *)
DefineMacro ==
    /\ Walks("macro")
    /\ \E end \in Ends :
          /\ GoTo(end + 1, FALSE)
          /\ macros' = (macros \ Replaced) \cup
                {[name |-> Stmt.arg, lo |-> Stmt.lo, hi |-> Stmt.hi,
                  recursive |-> Stmt.recursive, id |-> definitions + 1,
                  body |-> Body(Top.text, Top.at, end)]}
          /\ definitions' = definitions + 1
    /\ UNCHANGED <<prog, conds, numbers, counters, flags, result>>

UnMacro ==
    /\ Walks("unmacro")
    /\ GoTo(Top.at + 1, FALSE)
    /\ macros' = macros \ Replaced
    /\ UNCHANGED <<prog, conds, definitions, numbers, counters, flags, result>>

(* What a line may call: the definitions of the name that take what it     *)
(* gives, but for the ones being expanded that may not call themselves.    *)
Callable ==
    {m \in macros :
        /\ m.name = Stmt.arg
        /\ m.lo <= Stmt.lo /\ Stmt.lo <= m.hi
        /\ m.recursive \/ \A d \in Frames : stack[d].id # m.id}

(* The frame pushed for a call.                                            *)
Expansion(m) ==
    [Read(m.body, "macro") EXCEPT !.id = m.id, !.unique = lastUnique + 1, !.reps = reps]

(* nasm_call, of the oldest.                                               *)
CallMacro ==
    /\ Walks("call")
    /\ Callable # {}
    /\ IF depth >= MaxDepth
       THEN /\ Report("macro depth")
            /\ GoTo(Top.at + 1, ~GoesOn)
            /\ UNCHANGED <<lastUnique, depth>>
       ELSE /\ \E m \in Callable :
                  /\ \A older \in Callable : m.id <= older.id
                  /\ stack' = Append(stack, Expansion(m))
            /\ lastUnique' = lastUnique + 1
            /\ depth' = depth + 1
            /\ UNCHANGED errors
    /\ UNCHANGED <<prog, conds, macroVars, contexts, lastContext, reps, includeDepth, flags, emitted>>

ExitMacro ==
    /\ Walks("exitmacro")
    /\ IF InMacro
       THEN unwind' = "macro" /\ GoTo(Top.at + 1, TRUE) /\ UNCHANGED errors
       ELSE Report("exitmacro outside a macro") /\ GoTo(Top.at + 1, FALSE) /\ UNCHANGED unwind
    /\ UNCHANGED <<prog, conds, macroVars, numbers, counters, ended, emitted>>

-----------------------------------------------------------------------------
(* `%rep': the copies are one text, a `%rep' with a count that is too high *)
(* or has no value is an error.                                            *)
Rep ==
    /\ Walks("rept")
    /\ \E end \in Ends :
          LET body == Body(Top.text, Top.at, end)
              nothing == Stmt.arg = 0 \/ body = <<>>
          IN  IF Stmt.arg > MaxRep \/ nothing \/ depth >= MaxDepth
              THEN /\ GoTo(end + 1, ~GoesOn)
                   /\ IF Stmt.arg > MaxRep THEN Report("rep count")
                      ELSE IF nothing THEN UNCHANGED errors
                      ELSE Report("rep depth")
                   /\ UNCHANGED <<reps, depth>>
              ELSE /\ stack' = Append([stack EXCEPT ![Depth].at = end],
                                      Read(Copies(body, Stmt.arg), "rept"))
                   /\ reps' = reps + 1 /\ depth' = depth + 1
                   /\ UNCHANGED errors
    /\ UNCHANGED <<prog, conds, macroVars, numbers, includeDepth, flags, emitted>>

Floor_None == 0

(* How many of the `%rep' blocks being read are not the innermost macro's  *)
(* to leave.                                                               *)
Floor == IF InMacro THEN Innermost.reps ELSE 0

ExitRep ==
    /\ Walks("exitrep")
    /\ IF reps <= Floor
       THEN Report("exitrep outside a rep") /\ GoTo(Top.at + 1, FALSE) /\ UNCHANGED unwind
       ELSE unwind' = "rept" /\ GoTo(Top.at + 1, TRUE) /\ UNCHANGED errors
    /\ UNCHANGED <<prog, conds, macroVars, numbers, counters, ended, emitted>>

StrayEnd ==
    /\ \E op \in {"endm", "endr"} : Walks(op)
    /\ Report("stray block end")
    /\ GoTo(Top.at + 1, FALSE)
    /\ UNCHANGED <<prog, conds, macroVars, numbers, counters, flags, emitted>>

-----------------------------------------------------------------------------
Include ==
    /\ Walks("include")
    /\ IF Stmt.arg \notin DOMAIN prog.files
       THEN Report("include") /\ GoTo(Top.at + 1, FALSE) /\ UNCHANGED includeDepth
       ELSE IF includeDepth > MaxIncludeDepth
       THEN Report("include depth") /\ GoTo(Top.at + 1, ~GoesOn) /\ UNCHANGED includeDepth
       ELSE /\ stack' = Append(stack, Read(prog.files[Stmt.arg], "include"))
            /\ includeDepth' = includeDepth + 1
            /\ UNCHANGED errors
    /\ UNCHANGED <<prog, conds, macroVars, numbers, reps, depth, flags, emitted>>

Push ==
    /\ Walks("push")
    /\ contexts' = Append(contexts, lastContext + 1)
    /\ lastContext' = lastContext + 1
    /\ GoTo(Top.at + 1, FALSE)
    /\ UNCHANGED <<prog, conds, macroVars, lastUnique, counters, flags, result>>

Pop ==
    /\ Walks("pop")
    /\ IF contexts = <<>> THEN Report("pop") /\ UNCHANGED contexts
       ELSE contexts' = Front(contexts) /\ UNCHANGED errors
    /\ GoTo(Top.at + 1, FALSE)
    /\ UNCHANGED <<prog, conds, macroVars, lastContext, lastUnique, counters, flags, emitted>>

(* `%fatal': nothing after it is assembled.                                *)
Fatal ==
    /\ Walks("fatal")
    /\ ended' = TRUE
    /\ Report("fatal")
    /\ GoTo(Top.at + 1, TRUE)
    /\ UNCHANGED <<prog, conds, macroVars, numbers, counters, unwind, emitted>>

-----------------------------------------------------------------------------
(* Lines that are assembled.                                               *)

Assembles ==
    /\ GoTo(Top.at + 1, ~GoesOn)
    /\ UNCHANGED <<prog, conds, macroVars, numbers, counters, flags>>

(* An instruction, or a word that calls nothing and means nothing.         *)
Code ==
    /\ \/ Walks("code") /\ Assemble("code", Stmt.arg) /\ UNCHANGED errors
       \/ Walks("call") /\ Callable = {} /\ Report("unknown instruction") /\ UNCHANGED emitted
    /\ Assembles

(* A label `%%x', which is `..@N.x' with the number of the expansion.      *)
Local ==
    /\ Walks("local")
    /\ IF InMacro THEN Assemble("expansion", Innermost.unique) /\ UNCHANGED errors
       ELSE Report("local outside a macro") /\ UNCHANGED emitted
    /\ Assembles

(* A label `%$x', `%$$x' and so on outwards: `..@N.x' with the number of   *)
(* the context.                                                            *)
ContextLocal ==
    /\ Walks("contextlocal")
    /\ IF Stmt.arg \in 1 .. Len(contexts)
       THEN /\ Assemble("context", contexts[Len(contexts) + 1 - Stmt.arg])
            /\ UNCHANGED errors
       ELSE Report("context level") /\ UNCHANGED emitted
    /\ Assembles

-----------------------------------------------------------------------------
StillUnwinding_Kept(kind) == unwind
StillUnwinding_Any(kind) == IF kind \in {"macro", "rept"} THEN "none" ELSE unwind

(* What is left to unwind once a text of a kind has been left.             *)
StillUnwinding(kind) == IF unwind = kind THEN "none" ELSE unwind

(* The end of run_nasm and of what called it.                              *)
Leave ==
    /\ stack # <<>>
    /\ ~HasLine(Top)
    /\ LET open == Len(conds) > Top.conds
           back == Front(stack)
       IN  /\ conds' = IF open THEN SubSeq(conds, 1, Top.conds) ELSE conds
           /\ IF open /\ GoesOn THEN Report("unterminated if") ELSE UNCHANGED errors
           /\ unwind' = StillUnwinding(Top.kind)
           /\ reps' = IF Top.kind = "rept" THEN reps - 1 ELSE reps
           /\ depth' = IF Top.kind \in {"macro", "rept"} THEN depth - 1 ELSE depth
           /\ includeDepth' = IF Top.kind = "include" THEN includeDepth - 1 ELSE includeDepth
           /\ stack' = IF back = <<>> THEN back
                       ELSE [back EXCEPT ![Depth - 1].at = @ + 1,
                                         ![Depth - 1].stopped = unwind' # "none" \/ ended]
    /\ UNCHANGED <<prog, macroVars, numbers, ended, emitted>>

Finished == stack = <<>>
Stop == Finished /\ UNCHANGED vars

Next ==
    \/ DirIf \/ DirElif \/ DirElse \/ DirEndif \/ Skip
    \/ Unterminated \/ DefineMacro \/ UnMacro \/ CallMacro \/ ExitMacro
    \/ Rep \/ ExitRep \/ StrayEnd
    \/ Include \/ Push \/ Pop \/ Fatal
    \/ Code \/ Local \/ ContextLocal
    \/ Leave \/ Stop

Spec == Init /\ [][Next]_vars

(* The walk goes on as long as there is something to read.                 *)
FairSpec == Spec /\ WF_vars(Next)

=============================================================================
