----------------------- MODULE PreprocessorProperties -----------------------
(***************************************************************************)
(* What the preprocessor has to achieve: the lines a reader expects are    *)
(* assembled, leaving early leaves what is one's own and nothing else, and *)
(* whatever calls whatever the walk comes back.                            *)
(***************************************************************************)
EXTENDS Preprocessor, Nesting

TextsOf(p) == {p.main} \cup {p.files[i] : i \in DOMAIN p.files}

(* A line is assembled exactly where every text on the way to it says so,  *)
(* unless some text does not nest: one stack of states tells apart the     *)
(* arms taken, skipped and nested across files, macro bodies and the       *)
(* copies of a `%rep', whichever of them was left early.                   *)
LinesFollowNesting ==
    Reading /\ Emitting # (\A d \in 1 .. Depth : IsLive(stack[d].text, stack[d].at)) =>
        \E text \in TextsOf(prog) : ~NestsWell(text, FALSE)

-----------------------------------------------------------------------------
(* The texts between what is being left and the line that leaves it.       *)
Between(kind) == IF kind = "macro" THEN {"rept", "include"} ELSE {"include"}

(* What `%exitmacro' or `%exitrep' leaves is there: the innermost macro,   *)
(* or a `%rep' block inside it ("so `%exitrep' only ends one of its own"). *)
ExitsHaveTargets ==
    unwind # "none" =>
        \E d \in 1 .. Depth :
            stack[d].kind = unwind /\ \A k \in d + 1 .. Depth : stack[k].kind \in Between(unwind)

(* From the exit to the return nothing is assembled, no macro or context   *)
(* changes, and the text that caused what was left is read on after it.    *)
ExitsLeaveTheirOwn ==
    [][unwind # "none" =>
          /\ UNCHANGED <<emitted, macroVars, numbers>>
          /\ unwind' = "none" =>
                LET d == Max({k \in 1 .. Depth : stack[k].kind = unwind})
                IN  /\ Len(stack') = d - 1
                    /\ ~stack'[d - 1].stopped \/ ended
                    /\ stack'[d - 1] = [stack[d - 1] EXCEPT !.at = @ + 1, !.stopped = ended]]_vars

(* The counters the guards ask stand for the texts being read: `%rep'      *)
(* blocks, expansions and files are each counted while they are read, and  *)
(* an expansion remembers how many `%rep' blocks are outside it.           *)
Among(kinds, d) == {k \in 1 .. d : stack[k].kind \in kinds}
CountersFollowTexts ==
    /\ reps = Cardinality(Among({"rept"}, Depth))
    /\ depth = Cardinality(Among({"macro", "rept"}, Depth))
    /\ includeDepth = Cardinality(Among({"include"}, Depth))
    /\ \A d \in Frames : stack[d].reps = Cardinality(Among({"rept"}, d))

(* Macros that call themselves and files that include themselves nest only *)
(* so far.                                                                 *)
NestingBounded == Depth <= 1 + MaxDepth + MaxIncludeDepth + 1

(* "`%%' gives each expansion its own label": nothing but that expansion   *)
(* has a name with its number.                                             *)
ExpansionsOwnTheirLabels ==
    \A i, j \in DOMAIN emitted :
        emitted[i].what = "expansion" /\ emitted[j].what = "context" =>
            emitted[i].n # emitted[j].n

-----------------------------------------------------------------------------
(* Whatever calls, repeats or includes whatever, the walk ends, with every *)
(* conditional closed and nothing left to unwind.                          *)
WalkReturns == <>(Finished /\ conds = <<>> /\ unwind = "none" /\ depth = 0)

=============================================================================
