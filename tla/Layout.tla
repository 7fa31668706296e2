-------------------------------- MODULE Layout --------------------------------
(***************************************************************************)
(* settle_layout as `finish' drives it: passes over every fragment of      *)
(* every section until one changes nothing.  A pass assigns section        *)
(* addresses, walks the fragments assigning offsets and recomputing the    *)
(* sizes that depend on them, then walks them again growing (or, for two   *)
(* of the strategies, re-picking) the instructions that do not reach.      *)
(*                                                                         *)
(* Each step visits one fragment, because that is what the code's answers  *)
(* depend on: while a walk is under way, a label behind the cursor has     *)
(* this pass's offset and a label ahead of it still has the last pass's.   *)
(***************************************************************************)
EXTENDS FixedPoint

CONSTANTS
    Programs,            \* the programs to lay out
    MaxPasses,           \* MAX_PASSES
    MaxPassesShrinking,  \* MAX_PASSES_SHRINKING
    FlipLimit            \* the shrinks, and the growths, repick allows first

ASSUME LimitAssumption ==
    MaxPasses \in Nat /\ MaxPassesShrinking \in Nat /\ FlipLimit \in Nat

ASSUME ProgramsAssumption == Programs \subseteq Program

VARIABLES
    prog,      \* the program, with the sections emitted so far
    chosen,    \* FragKind::Bytes::chosen, from 1
    cached,    \* Align::pad, Org::size, Space::resolved, Leb128::encoded.len()
    off,       \* Fragment::offset
    ssize,     \* Section::size
    addr,      \* Section::addr
    pc,        \* what settle_layout does next
    pass,      \* the pass under way, from 1
    cur,       \* the fragment the walk is at
    at,        \* the walk's running offset
    changed,   \* sizes_changed \/ relaxed
    flips,     \* repick's history: how often a fragment shrank and grew
    held,      \* repick_each_pass's settled fragments
    errors     \* diagnostics, as <<fragment, what>>

layout == <<chosen, cached, off, ssize, addr>>
walk   == <<pc, pass, cur, at, changed>>
memory == <<flips, held>>
vars   == <<prog, layout, walk, memory, errors>>

Here == [prog |-> prog, chosen |-> chosen, cached |-> cached,
         off |-> off, ssize |-> ssize, addr |-> addr]

Sections == DOMAIN prog.sections
Ids == FragIds(prog)
Mode == FileRelaxation(prog)

PassLimit == IF Mode >= EachPass THEN MaxPassesShrinking ELSE MaxPasses

(* A LEB128 fragment starts as one zero byte, everything else empty.       *)
FirstSize(p, id) == IF FragAt(p, id).kind = "leb" THEN 1 ELSE 0

Init ==
    /\ prog \in Programs
    /\ chosen = [id \in Ids |-> 1]
    /\ cached = [id \in Ids |-> FirstSize(prog, id)]
    /\ off = [id \in Ids |-> 0]
    /\ ssize = [s \in Sections |-> 0]
    /\ addr = [s \in Sections |-> 0]
    /\ pc = "addresses"
    /\ pass = 1
    /\ cur = <<1, 1>>
    /\ at = prog.base
    /\ changed = FALSE
    /\ flips = [id \in Ids |-> [shrank |-> 0, grew |-> 0]]
    /\ held = {}
    /\ errors = {}

-----------------------------------------------------------------------------
(* assign_addresses.  The walk goes over the sections once for each round, *)
(* and `at' is where the next one may start.                               *)

Rounds == IF prog.nasm THEN 2 ELSE 1

IsPlacing == pc \in {"addresses", "final"}

AssignAddress ==
    /\ IsPlacing
    /\ cur[1] \in Sections
    /\ IF Round(prog, cur[1]) = cur[2]
       THEN LET start == Base(Here, cur[1], at)
            IN  /\ addr' = [addr EXCEPT ![cur[1]] = start]
                /\ at' = start + ssize[cur[1]]
       ELSE UNCHANGED <<addr, at>>
    /\ cur' = <<cur[1] + 1, cur[2]>>
    /\ UNCHANGED <<prog, chosen, cached, off, ssize, pc, pass, changed, memory, errors>>

NextRound ==
    /\ IsPlacing
    /\ cur[1] \notin Sections
    /\ cur[2] < Rounds
    /\ cur' = <<1, cur[2] + 1>>
    /\ UNCHANGED <<prog, layout, pc, pass, at, changed, memory, errors>>

EndOfAddresses ==
    /\ IsPlacing
    /\ cur[1] \notin Sections
    /\ cur[2] = Rounds
    /\ pc' = IF pc = "final" THEN "report" ELSE "offsets"
    /\ cur' = <<1, 1>>
    /\ at' = 0
    /\ changed' = FALSE
    /\ UNCHANGED <<prog, layout, pass, memory, errors>>

-----------------------------------------------------------------------------
(* The walks.                                                              *)

AtFragment == cur \in Ids
Advance(size) == cur' = <<cur[1], cur[2] + 1>> /\ at' = at + size

(* The end of a section: its size is the running offset.                   *)
CloseSection(next) ==
    /\ ~AtFragment
    /\ at' = 0
    /\ IF cur[1] + 1 \in Sections
       THEN cur' = <<cur[1] + 1, 1>> /\ pc' = pc
       ELSE cur' = <<1, 1>> /\ pc' = next

ResizeSection_FromZero ==
    /\ ssize' = [ssize EXCEPT ![cur[1]] = at]
    /\ changed' = (changed \/ at > 0)

ResizeSection_Silent ==
    /\ ssize' = [ssize EXCEPT ![cur[1]] = at]
    /\ changed' = changed

ResizeSection ==
    /\ ssize' = [ssize EXCEPT ![cur[1]] = at]
    /\ changed' = (changed \/ ssize[cur[1]] # at)

Report_OnFirstPass(L, id) == {<<id, e>> : e \in IF pass = 1 THEN SizeError(L, id, at) ELSE {}}

Report(L, id) == {<<id, e>> : e \in SizeError(L, id, at)}

(* assign_offsets, one fragment.  The size is computed with the fragment   *)
(* already at its new offset.                                              *)
PlaceFragment ==
    /\ pc = "offsets"
    /\ AtFragment
    /\ off' = [off EXCEPT ![cur] = at]
    /\ LET L    == [Here EXCEPT !.off = off']
           size == IF FragAt(prog, cur).kind = "bytes" THEN FragSize(Here, cur)
                   ELSE ComputeSize(L, cur, at)
       IN  /\ cached' = [cached EXCEPT ![cur] = size]
           /\ changed' = (changed \/ FragSize(Here, cur) # size)
           /\ errors' = errors \cup Report(L, cur)
           /\ Advance(size)
    /\ UNCHANGED <<prog, chosen, ssize, addr, pc, pass, memory>>

EndOfOffsets ==
    /\ pc = "offsets"
    /\ CloseSection("relax")
    /\ ResizeSection
    /\ UNCHANGED <<prog, chosen, cached, off, addr, pass, memory, errors>>

-----------------------------------------------------------------------------
(* relax, FromLastPass: one size up, at the offsets just assigned.         *)

Grows_NoLimit(id) ==
    FragAt(prog, id).kind = "bytes" /\ ~VariantFits(Here, id, chosen[id], 0)

Grows_Pessimistic(id) ==
    /\ chosen[id] < Candidates(prog, id)
    /\ ~VariantFits(Here, id, chosen[id], 2)

Grows(id) ==
    /\ chosen[id] < Candidates(prog, id)
    /\ ~VariantFits(Here, id, chosen[id], 0)

GrowFragment ==
    /\ pc = "relax"
    /\ Mode = FromLastPass
    /\ AtFragment
    /\ Advance(0)
    /\ chosen' = IF Grows(cur) THEN [chosen EXCEPT ![cur] = @ + 1] ELSE chosen
    /\ changed' = (changed \/ Grows(cur))
    /\ UNCHANGED <<prog, cached, off, ssize, addr, pc, pass, memory, errors>>

EndOfGrowth ==
    /\ pc = "relax"
    /\ Mode = FromLastPass
    /\ CloseSection("decide")
    /\ UNCHANGED <<prog, layout, pass, changed, memory, errors>>

(* The other three walk in order: the fragment moves to the running offset *)
(* before it is sized, and `stretch' is how far that is.                   *)
InOrderWalk == pc = "relax" /\ Mode # FromLastPass /\ AtFragment
Stretch == at - off[cur]
Moved == [Here EXCEPT !.off[cur] = at]

Pick(k) ==
    /\ off' = [off EXCEPT ![cur] = at]
    /\ chosen' = [chosen EXCEPT ![cur] = k]
    /\ changed' = (changed \/ k # chosen[cur])
    /\ Advance(FragAt(prog, cur).variants[k].len)
    /\ UNCHANGED <<prog, cached, ssize, addr, pc, pass, errors>>

(* The candidate a fragment keeps, or the first larger one that reaches.   *)
NextInOrder(id) ==
    LET n == Candidates(prog, id)
    IN  LeastOr({k \in chosen[id] .. n : FitsInOrder(Moved, id, k, Stretch)}, n)

GrowInOrder ==
    /\ InOrderWalk
    /\ Mode = InOrder
    /\ IsRelaxable(prog, cur)
    /\ Pick(NextInOrder(cur))
    /\ UNCHANGED memory

(* A larger size taken where nothing before it has grown is kept for good. *)
KeepsForGood(k) == k > 1 /\ Stretch <= 0

IsHeld_Never(id) == FALSE

IsHeld(id) == Mode = EachPass /\ id \in held

RepickEachPass ==
    /\ InOrderWalk
    /\ Mode = EachPass
    /\ IsRelaxable(prog, cur)
    /\ ~IsHeld(cur)
    /\ LET n == Candidates(prog, cur)
           k == LeastOr({j \in 1 .. n : FitsStretched(Moved, cur, j, Stretch)}, n)
       IN  /\ Pick(k)
           /\ held' = IF KeepsForGood(k) THEN held \cup {cur} ELSE held
    /\ UNCHANGED flips

Lowest_Never(id) == chosen[id]

(* In a file with code for a backend that does not shrink, that code keeps *)
(* growing only.                                                           *)
Lowest(id) == IF FragAt(prog, id).mode = Shrinking THEN 1 ELSE chosen[id]

Stuck_Never(id) == FALSE

(* GNU as's guard against a size that flips back and forth.                *)
Stuck(id) == flips[id].shrank > FlipLimit /\ flips[id].grew > FlipLimit

(* repick: the smallest candidate that reaches, and a count of the flips.  *)
Repick ==
    /\ InOrderWalk
    /\ Mode = Shrinking
    /\ IsRelaxable(prog, cur)
    /\ LET n == Candidates(prog, cur)
           fit == LeastOr({k \in Lowest(cur) .. n : VariantFits(Moved, cur, k, Stretch)}, n)
       IN  \/ /\ fit < chosen[cur]
              /\ flips' = [flips EXCEPT ![cur].shrank = @ + 1]
              /\ Pick(IF Stuck(cur) THEN chosen[cur] ELSE fit)
           \/ /\ fit > chosen[cur]
              /\ flips' = [flips EXCEPT ![cur].grew = @ + 1]
              /\ Pick(fit)
           \/ /\ fit = chosen[cur]
              /\ flips' = flips
              /\ Pick(fit)
    /\ UNCHANGED held

Repad ==
    /\ InOrderWalk
    /\ FragAt(prog, cur).kind = "align"
    /\ off' = [off EXCEPT ![cur] = at]
    /\ LET pad == ComputeSize(Moved, cur, at)
       IN  cached' = [cached EXCEPT ![cur] = pad] /\ Advance(pad)
    /\ UNCHANGED <<prog, chosen, ssize, addr, pc, pass, changed, memory, errors>>

(* Everything else only moves; .org, .space and LEB128 sizes wait for the  *)
(* next full pass, and a held fragment keeps the size it has.              *)
MoveOnly ==
    /\ InOrderWalk
    /\ FragAt(prog, cur).kind # "align"
    /\ ~IsRelaxable(prog, cur) \/ IsHeld(cur)
    /\ off' = [off EXCEPT ![cur] = at]
    /\ Advance(FragSize(Here, cur))
    /\ UNCHANGED <<prog, chosen, cached, ssize, addr, pc, pass, changed, memory, errors>>

EndOfWalk ==
    /\ pc = "relax"
    /\ Mode # FromLastPass
    /\ CloseSection("decide")
    /\ ResizeSection
    /\ UNCHANGED <<prog, chosen, cached, off, addr, pass, memory, errors>>

-----------------------------------------------------------------------------
(* The end of a pass, and `finish' around it.                              *)

Settle_Early ==
    /\ pc = "decide"
    /\ pc' = "settled"
    /\ UNCHANGED <<prog, layout, pass, cur, at, changed, memory, errors>>

Settle ==
    /\ pc = "decide"
    /\ ~changed
    /\ pc' = "settled"
    /\ UNCHANGED <<prog, layout, pass, cur, at, changed, memory, errors>>

NextPass ==
    /\ pc = "decide"
    /\ changed
    /\ pass < PassLimit
    /\ pc' = "addresses"
    /\ pass' = pass + 1
    /\ at' = prog.base
    /\ UNCHANGED <<prog, layout, cur, changed, memory, errors>>

GiveUp ==
    /\ pc = "decide"
    /\ changed
    /\ pass >= PassLimit
    /\ pc' = "failed"
    /\ UNCHANGED <<prog, layout, pass, cur, at, changed, memory, errors>>

Extend(old, initial) ==
    [x \in DOMAIN initial |-> IF x \in DOMAIN old THEN old[x] ELSE initial[x]]

(* emit_dwarf, emit_layout_records, emit_coff_unwind: sections are added   *)
(* after the code has settled, and settle_layout runs again from the       *)
(* layout it left, remembering nothing.  A flat image has no room for      *)
(* sections nobody loads.                                                  *)
Emits == prog.relocatable /\ prog.late # <<>>

Emit ==
    /\ pc = "settled"
    /\ Emits
    /\ prog' = [prog EXCEPT !.sections = @ \o Head(prog.late), !.late = Tail(@)]
    /\ chosen' = Extend(chosen, [id \in Ids' |-> 1])
    /\ cached' = Extend(cached, [id \in Ids' |-> FirstSize(prog', id)])
    /\ off' = Extend(off, [id \in Ids' |-> 0])
    /\ ssize' = Extend(ssize, [s \in Sections' |-> 0])
    /\ addr' = Extend(addr, [s \in Sections' |-> 0])
    /\ flips' = [id \in Ids' |-> [shrank |-> 0, grew |-> 0]]
    /\ held' = {}
    /\ pc' = "addresses"
    /\ pass' = 1
    /\ at' = prog.base
    /\ UNCHANGED <<cur, changed, errors>>

(* `finish' assigns the addresses once more.                               *)
PlaceImage ==
    /\ pc = "settled"
    /\ ~Emits
    /\ pc' = "final"
    /\ at' = prog.base
    /\ UNCHANGED <<prog, layout, pass, cur, changed, memory, errors>>

(* apply_fixups refuses a value that the field of the candidate settled on *)
(* does not hold.                                                          *)
Overflows(id) ==
    /\ FragAt(prog, id).kind = "bytes"
    /\ \E i \in DOMAIN Fixups(Here, id, chosen[id]) :
          LET x == Fixups(Here, id, chosen[id])[i]
          IN  \E v \in FixupValue(Here, x, id, NoShift) : ~Holds(x, v)

ApplyFixups ==
    /\ pc = "report"
    /\ errors' = errors \cup {<<id, "range">> : id \in {i \in Ids : Overflows(i)}}
    /\ pc' = "done"
    /\ UNCHANGED <<prog, layout, pass, cur, at, changed, memory>>

(* The assembler has nothing left to do.                                   *)
Stop == pc \in {"done", "failed"} /\ UNCHANGED vars

Next ==
    \/ AssignAddress \/ NextRound \/ EndOfAddresses
    \/ PlaceFragment \/ EndOfOffsets
    \/ GrowFragment \/ EndOfGrowth
    \/ GrowInOrder \/ RepickEachPass \/ Repick \/ Repad \/ MoveOnly \/ EndOfWalk
    \/ Settle \/ NextPass \/ GiveUp
    \/ Emit \/ PlaceImage \/ ApplyFixups
    \/ Stop

Spec == Init /\ [][Next]_vars

(* The loop is never left but by one of its own steps.                     *)
FairSpec == Spec /\ WF_vars(Next)

=============================================================================
