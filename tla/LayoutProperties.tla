-------------------------- MODULE LayoutProperties --------------------------
(***************************************************************************)
(* What settling a layout has to achieve, stated over the states of the    *)
(* passes: the layout handed to the writers is a fixed point of every rule *)
(* that produced it, and the passes that search for it end.                *)
(***************************************************************************)
EXTENDS Layout, FiniteSets

(* The kinds of fragment whose size may depend on a symbol.                *)
Computed == {"org", "space", "leb"}

HasKind(kinds) == \E id \in Ids : FragAt(prog, id).kind \in kinds

-----------------------------------------------------------------------------
(* The variables have the shapes the code gives them.                      *)
TypeOK ==
    /\ prog \in Program
    /\ chosen \in [Ids -> Nat \ {0}]
    /\ \A id \in Ids : chosen[id] \in 1 .. Candidates(prog, id)
    /\ cached \in [Ids -> Nat]
    /\ off \in [Ids -> Nat]
    /\ ssize \in [Sections -> Nat]
    /\ addr \in [Sections -> Nat]
    /\ pc \in {"addresses", "offsets", "relax", "decide", "settled", "failed",
              "final", "report", "done"}
    /\ pass \in Nat \ {0}
    /\ cur \in Nat \X Nat
    /\ at \in Nat
    /\ changed \in BOOLEAN
    /\ flips \in [Ids -> [shrank : Nat, grew : Nat]]
    /\ held \subseteq Ids

-----------------------------------------------------------------------------
(* "The loop only ends on a pass where no size changed, and addresses are  *)
(* a function of sizes, so the addresses that pass used are the final      *)
(* ones" (settle_layout).  Sizes computed mid-walk from a mixture of two   *)
(* passes' labels have to agree with the labels the walk ends with.        *)
SettledIsFixed == pc \in {"settled", "done"} => IsFixed(Here)

(* A `.org', `.space' or LEB128 the final layout gives no size to is       *)
(* always reported: the pass that settles evaluates it where it ends up.   *)
NoErrorMissed ==
    pc = "done" =>
        \A id \in Ids : \A e \in SizeError(Here, id, off[id]) : <<id, e>> \in errors

-----------------------------------------------------------------------------
(* How the sizes move.                                                     *)

GrowingMode == Mode \in {FromLastPass, InOrder}

(* A size shrinks only where the strategy says it may: never under the two *)
(* that only grow, never once held by repick_each_pass, and under repick   *)
(* only in a backend that shrinks, before its flip guard has stopped it.   *)
(* Growing code that shares a file with a shrinking backend keeps growing. *)
ShrinksAreAllowed ==
    [][\A id \in DOMAIN chosen :
          chosen'[id] < chosen[id] =>
             \/ Mode = EachPass /\ id \notin held
             \/ /\ Mode = Shrinking
                /\ FragAt(prog, id).mode = Shrinking
                /\ ~(flips[id].shrank > FlipLimit /\ flips[id].grew > FlipLimit)]_vars

(* The input is self-referential: a size depends on a symbol.              *)
SelfReferential == HasKind(Computed)

(* Code made of instructions, data and alignment settles: no two fragments *)
(* push each other back and forth for ever, and the limit on the passes is *)
(* never what ends the search.                                             *)
CodeSettles == ~SelfReferential ~> pc = "done"

(* Each pass but two is paid for by a fragment that grew in the one before *)
(* or in this one, which is why a layout that only grows needs no limit.   *)
(* A candidate is outgrown when a larger one has been taken.               *)
Outgrown == UNION {{id} \X (1 .. chosen[id] - 1) : id \in Ids}
Growth == Cardinality(Outgrown)
PassesNeedGrowth ==
    GrowingMode /\ prog.relocatable /\ ~SelfReferential => pass <= Growth + 2

-----------------------------------------------------------------------------
(* The smallest layout.                                                    *)

NoLayoutIsSmaller ==
    prog.relocatable =>
        \A c \in ChoicesOf(prog) :
            Reaching(LayoutOf(prog, c)) => \A id \in Ids : chosen[id] <= c[id]

(* In an object, a field that is measured to a place that does not move    *)
(* with the code.                                                          *)
IsAnchored(x, id) == x.pcrel /\ x.expr.plus = {} /\ ~PcrelIsRelocated(x, id)

NothingIsAnchored ==
    \A id \in Ids : FragAt(prog, id).kind = "bytes" =>
        \A k \in DOMAIN FragAt(prog, id).variants :
            \A i \in DOMAIN Fixups(Here, id, k) : ~IsAnchored(Fixups(Here, id, k)[i], id)

(* "Layout starts each instruction at its smallest candidate, which finds  *)
(* the smallest layout whenever a form that reaches a target also reaches  *)
(* every nearer one" (Relaxation::FromLastPass).  Without alignment the    *)
(* distances between labels only grow with the sizes and it does.  To a    *)
(* number of bytes from the section's start they may shrink: a branch can  *)
(* outgrow a form that the code before it later brings within reach.       *)
SmallestWithoutPadding ==
    pc = "settled" /\ Mode = FromLastPass /\ ~SelfReferential /\ ~HasKind({"align"})
    /\ NothingIsAnchored
        => NoLayoutIsSmaller

(* Under repick every fragment of a shrinking backend ends as the smallest *)
(* candidate that reaches, whatever order the others settled in, unless    *)
(* its flip guard has stopped it from shrinking.                           *)
SettledIsSmallestFit ==
    pc = "settled" =>
        \A id \in Ids : \A k \in 1 .. chosen[id] - 1 :
            /\ Mode = Shrinking
            /\ FragAt(prog, id).mode = Shrinking
            /\ VariantFits(Here, id, k, 0)
            => flips[id].shrank > FlipLimit /\ flips[id].grew > FlipLimit

-----------------------------------------------------------------------------
(* The image.                                                              *)

(* In a flat image no two sections claim the same bytes, whichever of them *)
(* were empty, nobits or re-ordered, unless the source placed one itself.  *)
SectionsDisjoint ==
    pc \in {"settled", "done"} /\ ~prog.relocatable
    /\ (\A s \in Sections : prog.sections[s].origin = {})
    => \A s, t \in Sections :
          s # t => \/ addr[s] + ssize[s] <= addr[t]
                   \/ addr[t] + ssize[t] <= addr[s]

=============================================================================
