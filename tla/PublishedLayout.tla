--------------------------- MODULE PublishedLayout ---------------------------
(***************************************************************************)
(* settle_layout implements Settlement.  The published layout is a history *)
(* of the states that `finish' reads the layout in: after a settle_layout, *)
(* where the emitted sections are written from it, and after the last      *)
(* assign_addresses, where the image is.                                   *)
(***************************************************************************)
EXTENDS LayoutProperties

VARIABLE published

allVars == <<vars, published>>

PublishedInit == Init /\ published = {}

PublishedNext ==
    /\ Next
    /\ published' = IF pc' \in {"settled", "done"} THEN {Here'} ELSE published

PublishedSpec == PublishedInit /\ [][PublishedNext]_allVars

Status ==
    CASE pc \in {"settled", "done", "failed"} -> pc
      [] pc \in {"final", "report"} -> "settled"
      [] OTHER -> "working"

Promise == INSTANCE Settlement WITH result <- published, status <- Status

(* Whatever is published is a fixed point, the last assign_addresses finds *)
(* nothing to move, and "the layout of the code cannot change when it runs *)
(* again" (finish) to place the sections emitted from it.                  *)
KeepsItsPromise == Promise!Spec

=============================================================================
