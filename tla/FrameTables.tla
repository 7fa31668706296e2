---------------------------- MODULE FrameTables ----------------------------
(***************************************************************************)
(* Writing call frame information from the directives kept while the       *)
(* source was read (dwarf/cfi.rs), once layout has settled.                *)
(*                                                                         *)
(* An instruction is a record: what it is, a register and an offset, which *)
(* is the second register of "register".  What is written is a sequence of *)
(* operations of the frame table: a register, an operand, and for an       *)
(* advance the object leaves to the linker the two fragments the linker    *)
(* measures between.  Variable-length numbers are numbers.                 *)
(***************************************************************************)
EXTENDS Positions, SequencesExt

Insn(is, reg, off) == [is |-> is, reg |-> reg, off |-> off]

(***************************************************************************)
(* The pointers a frame may have.  A personality routine is an encoding,   *)
(* the place of its symbol's name among all names, 0 when it is a number,  *)
(* and what is added to it; of the data area only the encoding matters.    *)
(* There is none where the encoding is Omit; 0 is an encoding like others. *)
(***************************************************************************)
Omit == 255
Pointer(enc, name, add) == [enc |-> enc, name |-> name, add |-> add]
NoPointer == Pointer(Omit, 0, 0)

(***************************************************************************)
(* Operations.                                                             *)
(***************************************************************************)
Op(code, reg, arg) == [code |-> code, reg |-> reg, arg |-> arg, from |-> 0, to |-> 0]
Measured(code, from, to) == [Op(code, 0, Absent) EXCEPT !.from = from, !.to = to]

AdvanceForm(scaled) ==
    CASE scaled < 64 -> "advance_loc"
      [] scaled \in 64..255 -> "advance_loc1"
      [] scaled \in 256..65535 -> "advance_loc2"
      [] OTHER -> "advance_loc4"

Advance(delta, unit) ==
    LET scaled == delta \div unit
    IN  IF scaled = 0 THEN <<>> ELSE <<Op(AdvanceForm(scaled), 0, scaled)>>

(* The form is the one for the distance before the linker takes from it.   *)
DeferredAdvance(from, to, delta, unit) ==
    <<Measured(AdvanceForm(delta \div unit), from, to)>>

Sign(n) == IF n < 0 THEN -1 ELSE 1
Factored(off, align) ==
    Sign(off) * Sign(align) * ((Sign(off) * off) \div (Sign(align) * align))

Small == 64     \* registers that share a byte with their operation

(* An instruction whose relative forms have been resolved.                 *)
WriteInsn(target, insn) ==
    LET reg == insn.reg
        off == insn.off
        f == Factored(off, target.dataAlign)
        signed == off < 0 /\ target.flavor = "gnu"
    IN  CASE insn.is = "advance" -> Advance(off, target.unit)
          [] insn.is \in {"def_cfa", "def_cfa_offset"} /\ signed -> <<Op(insn.is \o "_sf", reg, f)>>
          [] insn.is \in {"offset", "val_offset"} ->
                <<Op(CASE insn.is = "val_offset" -> IF f < 0 THEN "val_offset_sf" ELSE "val_offset"
                       [] f < 0 -> "offset_extended_sf"
                       [] f >= 0 /\ reg < Small -> "offset"
                       [] OTHER -> "offset_extended", reg, f)>>
          [] insn.is = "restore" -> <<Op(IF reg < Small THEN "restore" ELSE "restore_extended", reg, 0)>>
          [] insn.is \in {"adjust_cfa_offset", "rel_offset", "mark"} -> <<>>
          [] OTHER -> <<Op(insn.is, reg, off)>>

WriteInsns(target, insns) == FlattenSeq([i \in DOMAIN insns |-> WriteInsn(target, insns[i])])

(***************************************************************************)
(* Resolving directives that count from the CFA's offset.                  *)
(***************************************************************************)
Resolved(cfa, insn) ==
    CASE insn.is = "adjust_cfa_offset" -> Insn("def_cfa_offset", 0, cfa + insn.off)
      [] insn.is = "rel_offset" -> Insn("offset", insn.reg, insn.off - cfa)
      [] OTHER -> insn

CfaAfter(cfa, insn) ==
    CASE insn.is \in {"def_cfa", "def_cfa_offset"} -> insn.off
      [] insn.is = "adjust_cfa_offset" -> cfa + insn.off
      [] OTHER -> cfa

StartOf(fde) == fde.start
EndOf(fde) == IF fde.end = Absent THEN fde.start ELSE fde.end
Column(target, fde) == IF fde.column = Absent THEN target.column ELSE fde.column
Initial(target, fde) == IF fde.simple THEN <<>> ELSE target.initial

Positive(n) == IF n < 0 THEN 0 ELSE n

(***************************************************************************)
(* GNU as.                                                                 *)
(***************************************************************************)
GnuStep(frags, s, placed) ==
    LET addr == Offset(frags, placed.at)
        insn == placed.insn
        moved == IF addr = s.last THEN <<>>
                 ELSE <<Insn("advance", 0, Positive(addr - s.last))>>
        pops == insn.is = "restore_state" /\ s.stack # <<>>
    IN  [out |-> s.out \o moved \o (IF insn.is = "mark" THEN <<>> ELSE <<Resolved(s.cfa, insn)>>),
         cfa |-> IF pops THEN Last(s.stack) ELSE CfaAfter(s.cfa, insn),
         stack |-> CASE insn.is = "remember_state" -> Append(s.stack, s.cfa)
                     [] pops -> Front(s.stack)
                     [] OTHER -> s.stack,
         last |-> addr]

GnuInsns(target, frags, fde) ==
    LET first == Initial(target, fde)
        step(s, placed) == GnuStep(frags, s, placed)
    IN  FoldLeft(step,
                 [out |-> first,
                  cfa |-> LET defined == SelectSeq(first, LAMBDA i : i.is = "def_cfa")
                          IN  IF defined = <<>> THEN 0 ELSE Last(defined).off,
                  stack |-> <<>>, last |-> Offset(frags, StartOf(fde))],
                 fde.insns).out

CieInsns ==
    {"def_cfa", "def_cfa_register", "def_cfa_offset", "offset", "val_offset", "register",
     "restore", "undefined", "same_value"}

(* How many instructions a CIE can take.                                   *)
Lead(insns) ==
    CHOOSE n \in 0 .. Len(insns) :
        /\ \A i \in 1..n : insns[i].is \in CieInsns
        /\ n = Len(insns) \/ insns[n + 1].is \notin CieInsns

Common(target, fde, eh) ==
    [column |-> Column(target, fde), signal |-> fde.signal,
     personality |-> IF eh THEN fde.personality ELSE NoPointer,
     lsda |-> IF eh THEN fde.lsda ELSE Omit]

Shares_AnyLead(cie, common, insns) ==
    cie.common = common /\ Len(cie.insns) <= Len(insns)

Shares(cie, common, insns) ==
    cie.common = common /\ IsPrefix(cie.insns, insns)

Frame(cie, fde, ops, long) ==
    [cie |-> cie, begin |-> StartOf(fde), end |-> EndOf(fde), long |-> long, ops |-> ops]

(* A table is the CIEs' and the frames that refer to them.  A frame takes  *)
(* the last CIE its instructions start with, or makes one.                 *)
GnuFrame(target, frags, eh, table, fde) ==
    LET insns == GnuInsns(target, frags, fde)
        common == Common(target, fde, eh)
        found == SelectLastInSeq(table.cies, LAMBDA c : Shares(c, common, insns))
        made == [common |-> common, insns |-> SubSeq(insns, 1, Lead(insns)),
                 ops |-> WriteInsns(target, SubSeq(insns, 1, Lead(insns)))]
        cies == IF found = 0 THEN Append(table.cies, made) ELSE table.cies
        cie == IF found = 0 THEN Len(cies) ELSE found
        rest == SubSeq(insns, Len(cies[cie].insns) + 1, Len(insns))
        long == Offset(frags, EndOf(fde)) - Offset(frags, StartOf(fde))
    IN  [cies |-> cies,
         frames |-> Append(table.frames, Frame(cie, fde, WriteInsns(target, rest), long))]

(***************************************************************************)
(* llvm-mc.                                                                *)
(***************************************************************************)
BoolToInt(b) == IF b THEN 1 ELSE 0

InKey(enc) == IF enc = Omit THEN 0 ELSE enc

Key_NoSignal(target, fde) ==
    <<fde.personality.name, InKey(fde.personality.enc), InKey(fde.lsda), 0,
      BoolToInt(fde.simple), Column(target, fde)>>

(* What frames have to agree on to share a CIE, in the order of the keys:  *)
(* not what is added to the personality routine's symbol, and no pointer   *)
(* is like one of encoding 0.                                              *)
Key(target, fde) ==
    <<fde.personality.name, InKey(fde.personality.enc), InKey(fde.lsda), BoolToInt(fde.signal),
      BoolToInt(fde.simple), Column(target, fde)>>

Below(a, b) == \E i \in DOMAIN a : a[i] < b[i] /\ \A j \in 1 .. i - 1 : a[j] = b[j]

SortedByKey(target, fdes) ==
    LET key(i) == Key(target, fdes[i])
        before(i) == {j \in DOMAIN fdes : Below(key(j), key(i)) \/ (key(j) = key(i) /\ j <= i)}
    IN  [n \in DOMAIN fdes |-> fdes[CHOOSE i \in DOMAIN fdes : Cardinality(before(i)) = n]]

LlvmStep(target, frags, s, placed) ==
    LET addr == Offset(frags, placed.at)
        insn == placed.insn
        delta == Positive(addr - s.last)
    IN  IF insn.is = "mark" THEN s
        ELSE [ops |-> s.ops \o (IF MovesBetween(frags, s.last, addr)
                                  THEN DeferredAdvance(s.at, placed.at, delta, target.unit)
                                  ELSE Advance(delta, target.unit))
                            \o WriteInsn(target, Resolved(s.cfa, insn)),
              cfa |-> CfaAfter(s.cfa, insn), last |-> addr, at |-> placed.at]

(* "cfa" is the offset the frame before left, which a CIE without initial  *)
(* instructions keeps.                                                     *)
LlvmFrame(target, frags, eh, table, fde) ==
    LET key == Key(target, fde)
        found == SelectInSeq(table.cies, LAMBDA c : ~eh \/ c.key = key)
        insns == Initial(target, fde)
        starts == SelectSeq(insns, LAMBDA i : i.is \in {"def_cfa", "def_cfa_offset"})
        made == [key |-> key, common |-> Common(target, fde, eh), insns |-> insns,
                 ops |-> WriteInsns(target, insns),
                 cfa |-> IF starts = <<>> THEN table.cfa ELSE Last(starts).off]
        cies == IF found = 0 THEN Append(table.cies, made) ELSE table.cies
        cie == IF found = 0 THEN Len(cies) ELSE found
        start == Offset(frags, StartOf(fde))
        end == Offset(frags, EndOf(fde))
        long == IF MovesBetween(frags, start, end) THEN Absent ELSE end - start
        step(s, placed) == LlvmStep(target, frags, s, placed)
        done == FoldLeft(step, [ops |-> <<>>, cfa |-> cies[cie].cfa, last |-> start,
                                at |-> StartOf(fde)], fde.insns)
    IN  [cies |-> cies, frames |-> Append(table.frames, Frame(cie, fde, done.ops, long)),
         cfa |-> done.cfa]

(***************************************************************************)
(* The table: frame by frame, of llvm-mc in the order of the keys.         *)
(***************************************************************************)
NoFrames == [cies |-> <<>>, frames |-> <<>>, cfa |-> 0]

AddFrame(target, frags, eh, table, fde) ==
    IF target.flavor = "gnu" THEN GnuFrame(target, frags, eh, table, fde)
    ELSE LlvmFrame(target, frags, eh, table, fde)

Ordered(target, fdes) ==
    IF target.flavor = "gnu" THEN fdes ELSE SortedByKey(target, fdes)

FramesOf(target, frags, fdes, eh) ==
    LET ordered == Ordered(target, fdes)
        upTo[n \in 0 .. Len(fdes)] ==
            IF n = 0 THEN NoFrames
            ELSE AddFrame(target, frags, eh, upTo[n - 1], ordered[n])
    IN  upTo[Len(fdes)]
=============================================================================
