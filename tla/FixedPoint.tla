----------------------------- MODULE FixedPoint -----------------------------
(***************************************************************************)
(* When a layout is a fixed point of the rules that compute layouts, which *)
(* is what settle_layout searches for, and the layout that a choice of     *)
(* candidates has, for comparing the one it finds with the others.         *)
(***************************************************************************)
EXTENDS Fragments

Candidates(p, id) ==
    IF FragAt(p, id).kind = "bytes" THEN Len(FragAt(p, id).variants) ELSE 1

FragEnd(L, id) == L.off[id] + FragSize(L, id)

(* Fragments follow each other without gap or overlap, and a section ends  *)
(* where its last fragment does.                                           *)
Contiguous(L) ==
    /\ \A id \in FragIds(L.prog) :
          L.off[id] = IF id[2] = 1 THEN 0 ELSE FragEnd(L, <<id[1], id[2] - 1>>)
    /\ \A s \in DOMAIN L.prog.sections :
          LET n == NumFrags(L.prog, s)
          IN  L.ssize[s] = IF n = 0 THEN 0 ELSE FragEnd(L, <<s, n>>)

(* Every computed size is the one the final labels and offsets give.       *)
SizesAgree(L) ==
    \A id \in FragIds(L.prog) :
        FragAt(L.prog, id).kind # "bytes" =>
            L.cached[id] = ComputeSize(L, id, L.off[id])

(* Every section is where the ones before it in the image put it.          *)
AddressesAgree(L) ==
    \A s \in DOMAIN L.prog.sections :
        LET earlier == {t \in DOMAIN L.prog.sections : Before(L.prog, t, s)}
            last == CHOOSE t \in earlier :
                        \A u \in earlier : u # t => Before(L.prog, u, t)
        IN  L.addr[s] = Base(L, s, IF earlier = {} THEN L.prog.base
                                   ELSE L.addr[last] + L.ssize[last])

(* Every instruction reaches, or is as large as it can be.                 *)
Reaching(L) ==
    \A id \in FragIds(L.prog) :
        L.chosen[id] < Candidates(L.prog, id) => VariantFits(L, id, L.chosen[id], 0)

IsFixed(L) == Contiguous(L) /\ SizesAgree(L) /\ AddressesAgree(L) /\ Reaching(L)

-----------------------------------------------------------------------------
(* The layout a choice of candidates has in an object, where nothing is    *)
(* computed from a symbol.                                                 *)
LayoutOf(p, choice) ==
    LET Size(id, start) ==
            IF FragAt(p, id).kind = "bytes"
            THEN FragAt(p, id).variants[choice[id]].len
            ELSE Padding(FragAt(p, id).align, FragAt(p, id).maxSkip, start)
        Start == [s \in DOMAIN p.sections |->
                    LET At[f \in 1 .. NumFrags(p, s) + 1] ==
                            IF f = 1 THEN 0 ELSE At[f-1] + Size(<<s, f-1>>, At[f-1])
                    IN  At]
        sizes == [s \in DOMAIN p.sections |-> Start[s][NumFrags(p, s) + 1]]
    IN  [prog   |-> p,
         chosen |-> choice,
         cached |-> [id \in FragIds(p) |-> Size(id, Start[id[1]][id[2]])],
         off    |-> [id \in FragIds(p) |-> Start[id[1]][id[2]]],
         ssize  |-> sizes,
         addr   |-> [s \in DOMAIN p.sections |-> 0]]

ChoicesOf(p) ==
    LET widest == {Candidates(p, id) : id \in FragIds(p)}
    IN  {c \in [FragIds(p) -> UNION {1 .. n : n \in widest}] :
            \A id \in FragIds(p) : c[id] <= Candidates(p, id)}

=============================================================================
