----------------------------- MODULE MCAssembly -----------------------------
(***************************************************************************)
(* Kinds of source for Assembly.  The states one starts in and the         *)
(* backends it may switch to choose the rules, the kinds of statement the  *)
(* interactions.                                                           *)
(***************************************************************************)
EXTENDS AssemblyProperties

Source(first, backends, statements, values) ==
    [first |-> first, backends |-> backends, statements |-> statements, values |-> values]

(* One section of ARM, Thumb or AArch64 code, data, padding and literals.  *)
Marked ==
    Source({"a", "t", "x"}, {},
           {"data", "space", "org", "align", "insn", "mode", "literal", "ltorg"}, {1})

(* Backends that take over from each other in two sections.                *)
Switching ==
    Source({"a", "p"}, {"a", "x", "p"},
           {"label", "data", "insn", "literal", "arch", "section"}, {1, 2})

(* Sections left and returned to in every way there is, and prefixed       *)
(* instructions with labels before them.                                   *)
Sectioned ==
    Source({"t", "p"}, {},
           {"label", "data", "insn", "prefixed", "align", "section", "push", "previous",
            "lcomm"}, {})

AllSources == {Marked, Switching, Sectioned}

=============================================================================
