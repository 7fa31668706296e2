---------------------------- MODULE LiteralSlots ----------------------------
(***************************************************************************)
(* The pool of ARM (flush_literal_slots): an array of four-byte slots that *)
(* every literal walks from the start.  A four-byte literal takes the      *)
(* first slot that holds its value or is only padding; an eight-byte one   *)
(* takes an aligned pair that holds its halves, or appends, after a        *)
(* padding slot if the end is not aligned.                                 *)
(*                                                                         *)
(* A value is the sequence of the words it is written as, in the order of  *)
(* memory on a little-endian target.                                       *)
(***************************************************************************)
EXTENDS Integers, Sequences, FiniteSets

CONSTANTS
    Literals,       \* the literals a source may ask for, of one or two words
    MaxEntries,     \* the most slots of a pool
    MaxRequests     \* how many literals a source asks for between two pools

ASSUME LiteralsAssumption == \A v \in Literals : v \in Seq(Nat) /\ Len(v) \in {1, 2}
ASSUME BoundsAssumption == MaxEntries \in Nat \ 0..2 /\ MaxRequests \in Nat

VARIABLES
    poolSlots,      \* the pool's slots
    loads,          \* the slot each load reads from, counted from 0
    refused         \* loads the pool had no slot for

poolVars == <<poolSlots, loads, refused>>

(* A slot holds a value and emits as many bytes as the literal that took   *)
(* it has; "padding" is what the literal after it must be aligned by.      *)
PoolSlot(value, padding) == [value |-> value, padding |-> padding]

PoolInit ==
    /\ poolSlots = <<>>
    /\ loads = <<>>
    /\ refused = {}

(* What is_word compares: all the bits of a number with those of a word.   *)
IsWord(value, word) == value = <<word>> \/ value = <<word, 0>>

Matches_AnyOffset(e, v) ==
    IF Len(v) = 1 THEN ~poolSlots[e + 1].padding /\ poolSlots[e + 1].value = v
    ELSE /\ e + 1 < Len(poolSlots)
         /\ IsWord(poolSlots[e + 1].value, v[1])
         /\ IsWord(poolSlots[e + 2].value, v[2])

(* Whether the literal "v" is found at entry "e".  Whether a slot is there *)
(* for padding is only asked for a literal of one word.                    *)
Matches(e, v) ==
    IF Len(v) = 1 THEN ~poolSlots[e + 1].padding /\ poolSlots[e + 1].value = v
    ELSE /\ e % 2 = 0
         /\ e + 1 < Len(poolSlots)
         /\ IsWord(poolSlots[e + 1].value, v[1])
         /\ IsWord(poolSlots[e + 2].value, v[2])

StopsAt(e, v) == Matches(e, v) \/ (Len(v) = 1 /\ poolSlots[e + 1].padding)

Entry(v) ==
    LET stops == {e \in 0..Len(poolSlots) - 1 : StopsAt(e, v)}
    IN  IF stops = {} THEN Len(poolSlots)
        ELSE CHOOSE e \in stops : \A f \in stops : e <= f

(* The flag the walk left off with, which a match leaves as the slot       *)
(* before it set it.                                                       *)
TakenForPadding(e, v) ==
    IF Matches(e, v) THEN e > 0 /\ poolSlots[e].padding ELSE poolSlots[e + 1].padding

PaddingBefore(v) ==
    IF Len(v) = 2 /\ Len(poolSlots) % 2 = 1 THEN <<PoolSlot(<<0>>, TRUE)>> ELSE <<>>

Needed(v) == Len(v) + Len(PaddingBefore(v))

AddedSlots(v) == PaddingBefore(v) \o [i \in DOMAIN v |-> PoolSlot(<<v[i]>>, FALSE)]

EntryAfter_Unmoved(v) == Len(poolSlots)

(* The entry moves on with the padding slot in front of it.                *)
EntryAfter(v) == Len(poolSlots) + Len(PaddingBefore(v))

Load(e, v) == [slot |-> e, value |-> v]

Share(v) ==
    /\ Entry(v) < Len(poolSlots)
    /\ loads' = Append(loads, Load(Entry(v), v))
    /\ poolSlots' = IF TakenForPadding(Entry(v), v)
                      THEN [poolSlots EXCEPT ![Entry(v) + 1] = PoolSlot(v, FALSE)]
                      ELSE poolSlots
    /\ UNCHANGED refused

AppendSlots(v) ==
    /\ Entry(v) = Len(poolSlots)
    /\ Len(poolSlots) + Needed(v) <= MaxEntries
    /\ poolSlots' = poolSlots \o AddedSlots(v)
    /\ loads' = Append(loads, Load(EntryAfter(v), v))
    /\ UNCHANGED refused

(* A load the pool has no slot for keeps the slot before it.               *)
Refuse(v) ==
    /\ Entry(v) = Len(poolSlots)
    /\ Len(poolSlots) + Needed(v) > MaxEntries
    /\ refused' = refused \cup {Len(loads) + 1}
    /\ loads' = IF Len(poolSlots) > 0 THEN Append(loads, Load(Len(poolSlots) - 1, v)) ELSE loads
    /\ UNCHANGED poolSlots

PoolNext ==
    /\ Len(loads) < MaxRequests
    /\ \E v \in Literals : Share(v) \/ AppendSlots(v) \/ Refuse(v)

PoolSpec == PoolInit /\ [][PoolNext]_poolVars

(* The pool as it is written, four bytes at a time.                        *)
Chunks ==
    LET upTo[i \in 0..Len(poolSlots)] ==
            IF i = 0 THEN <<>> ELSE upTo[i - 1] \o poolSlots[i].value
    IN  upTo[Len(poolSlots)]

(* Where a load reads: four times its slot's index into the pool, whatever *)
(* the slots before it emit.                                               *)
ReadBy(u) == SubSeq(Chunks, u.slot + 1, u.slot + Len(u.value))

IsWide(slot) == Len(slot.value) = 2

(* How many words the slots before slot "e" emit, and what is written from *)
(* there on.                                                               *)
WordsBefore(e) == e + Cardinality({k \in 1..e : IsWide(poolSlots[k])})
WrittenFor(u) == SubSeq(Chunks, WordsBefore(u.slot) + 1, WordsBefore(u.slot) + Len(u.value))

(* A pool holds no more slots than it may, and no load names a slot past   *)
(* its end, however often loads are refused.                               *)
PoolTypeOK ==
    /\ Len(poolSlots) <= MaxEntries
    /\ \A i \in DOMAIN loads :
          /\ loads[i].slot \in 0..Len(poolSlots) - 1
          /\ loads[i].value \in Literals

(* Whatever slots are shared or taken over for padding, the value of every *)
(* load that was given a slot is in the pool as a whole, from what its     *)
(* slot emits on.  There the load reads it, except past a slot that "emits *)
(* eight bytes ..., which is where a load of the wrong bytes comes from"   *)
(* (flush_literal_slots).                                                  *)
UsesReadTheirValue ==
    \A i \in DOMAIN loads : i \notin refused =>
        /\ WrittenFor(loads[i]) = loads[i].value
        /\ \/ \E k \in 1..loads[i].slot : IsWide(poolSlots[k])
           \/ ReadBy(loads[i]) = loads[i].value

(* An eight-byte literal is read from an address the eight bytes are       *)
(* aligned at, shared or not, as the pool is aligned to eight from then on.*)
WideUsesAreAligned ==
    \A i \in DOMAIN loads :
        i \notin refused /\ Len(loads[i].value) = 2 => loads[i].slot % 2 = 0
=============================================================================
