----------------------------- MODULE MCPublished -----------------------------
(***************************************************************************)
(* The programs of MCLayout that sections are emitted from.                *)
(***************************************************************************)
EXTENDS PublishedLayout, MCLayout

(* Growing code of both kinds that ends aligned, and NASM's flat images.   *)
GrowingPrograms ==
    {p \in GrowPrograms : p.late # <<>>} \cup {p \in InOrderPrograms : p.late # <<>>}
    \cup {p \in FlatPrograms : p.nasm}

=============================================================================
