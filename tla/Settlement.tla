------------------------------ MODULE Settlement ------------------------------
(***************************************************************************)
(* What `finish' promises of a layout, without saying how it is found.     *)
(* Some fixed point is published, or none is.  DWARF lines, layout records *)
(* and unwind tables are then written from it into sections of their own;  *)
(* each such emission has the program laid out again, and the layout it    *)
(* was written from is not taken back.                                     *)
(***************************************************************************)
EXTENDS FixedPoint

CONSTANT Programs

VARIABLES
    prog,    \* the program, with the sections emitted so far
    result,  \* the layouts published last: a set of at most one
    status   \* "working", "settled", "done" or "failed"

vars == <<prog, result, status>>

(* new leaves everything old says as it was.                               *)
Keeps(old, new) ==
    \A id \in FragIds(old.prog) :
        /\ new.chosen[id] = old.chosen[id]
        /\ new.off[id] = old.off[id]
        /\ FragSize(new, id) = FragSize(old, id)

Init ==
    /\ prog \in Programs
    /\ result = {}
    /\ status = "working"

Publish(L) ==
    /\ status = "working"
    /\ L.prog = prog
    /\ IsFixed(L)
    /\ \A old \in result : Keeps(old, L)
    /\ result' = {L}
    /\ status' = "settled"
    /\ UNCHANGED prog

Emit ==
    /\ status = "settled"
    /\ prog.relocatable /\ prog.late # <<>>
    /\ prog' = [prog EXCEPT !.sections = @ \o Head(prog.late), !.late = Tail(@)]
    /\ status' = "working"
    /\ UNCHANGED result

Finish ==
    /\ status = "settled"
    /\ ~prog.relocatable \/ prog.late = <<>>
    /\ status' = "done"
    /\ UNCHANGED <<prog, result>>

Fail ==
    /\ status = "working"
    /\ status' = "failed"
    /\ UNCHANGED <<prog, result>>

Next == (\E L \in result' : Publish(L)) \/ Emit \/ Finish \/ Fail

Spec == Init /\ [][Next]_vars

=============================================================================
