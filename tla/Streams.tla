------------------------------- MODULE Streams -------------------------------
(***************************************************************************)
(* What a source says, without fragments: each section is the stream of    *)
(* the items its statements emit, and a label names one item of it, the    *)
(* one emitted there or the next to be.                                    *)
(***************************************************************************)
EXTENDS Integers, Sequences

VARIABLES
    stream,     \* [section -> the items emitted into it]
    place       \* [label -> the section, index and literal value it names]

Init ==
    /\ \A n \in DOMAIN stream : stream[n] = <<>>
    /\ place = <<>>

(* The items a step emits into section "n", by their index in its stream.  *)
New(n) == Len(stream[n]) + 1 .. Len(stream'[n])

(* A label names what its statement emits past the padding in front of it, *)
(* or what comes next if it emits nothing.                                 *)
NamesStatement(p) ==
    LET emitted == {i \in New(p.section) : stream'[p.section][i].is # "pad"}
    IN  IF emitted = {} THEN p.index = Len(stream'[p.section]) + 1
        ELSE p.index \in emitted /\ \A i \in emitted : p.index <= i

(* The label of a literal names the entry that holds its value, written by *)
(* the backend that loads it.                                              *)
NamesEntry(p) ==
    /\ p.index \in New(p.section)
    /\ LET item == stream'[p.section][p.index]
       IN  <<item.is, item.n, item.slot>> = <<"entry", p.value, p.slot>>

Emit ==
    /\ \A n \in DOMAIN stream :
          /\ Len(stream'[n]) >= Len(stream[n])
          /\ SubSeq(stream'[n], 1, Len(stream[n])) = stream[n]
    /\ DOMAIN stream' = DOMAIN stream
    /\ DOMAIN place \subseteq DOMAIN place'
    /\ \A l \in DOMAIN place' :
          LET p == place'[l]
          IN  IF l \in DOMAIN place /\ place[l].index > 0 THEN p = place[l]
              ELSE \/ p.index = 0 /\ p.value # 0
                   \/ p.value = 0 /\ NamesStatement(p)
                   \/ p.value # 0 /\ NamesEntry(p)

Spec == Init /\ [][Emit]_<<stream, place>>
=============================================================================
