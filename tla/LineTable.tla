------------------------------ MODULE LineTable ------------------------------
(***************************************************************************)
(* Writing the rows of one section as a line number program (emit.rs).     *)
(*                                                                         *)
(* A section's code is a sequence of fragments; a position is the index of *)
(* one, or one past the last, and a distance into it.  An opcode is a      *)
(* record: its number, the number of an extended one, its operand, and for *)
(* a field the object leaves to the linker the two positions the linker    *)
(* measures between.  Variable-length numbers are numbers.                 *)
(***************************************************************************)
EXTENDS Positions

Copy == 1
AdvancePc == 2
AdvanceLine == 3
SetFile == 4
SetColumn == 5
NegateStmt == 6
SetBasicBlock == 7
ConstAddPc == 8
FixedAdvancePc == 9
SetPrologueEnd == 10
SetEpilogueBegin == 11
SetIsa == 12
Extended == 0
EndSequence == 1
SetAddress == 2
SetDiscriminator == 4

LineBase == -5
LineRange == 14

(* GNU as's version 2 tables stop at FixedAdvancePc.                       *)
OpcodeBase(target) == IF target.flavor = "gnu" /\ target.version = 2 THEN 10 ELSE 13

Place(frag, off) == [frag |-> frag, off |-> off]
Nowhere == Place(0, 0)
Op(code, arg) == [code |-> code, sub |-> 0, arg |-> arg, from |-> Nowhere, to |-> Nowhere]
ExtendedOp(sub, arg) == [Op(Extended, arg) EXCEPT !.sub = sub]
Measured(from, to) == [Op(FixedAdvancePc, Absent) EXCEPT !.from = from, !.to = to]
AddressOf(at) == [ExtendedOp(SetAddress, 0) EXCEPT !.to = at]

(* A row's advance has a field of 16 bits, and is replaced by an address   *)
(* long before it fills it.                                                *)
FieldSize == 65536
FarAdvance == 50000

(* A row is at the start of its fragment, or some bytes before its end.    *)
RowAddr(frags, row) ==
    IF row.back = Absent THEN Offset(frags, row.frag)
    ELSE LET end == Offset(frags, row.frag + 1)
         IN  IF row.back > end THEN 0 ELSE end - row.back

At(frags, row) == Place(row.frag, RowAddr(frags, row) - Offset(frags, row.frag))

(***************************************************************************)
(* Advances.                                                               *)
(***************************************************************************)
MaxSpecial(base) == (255 - base) \div LineRange

(* A row "delta" lines and "addr" instructions on.                         *)
SpecialAdvance(delta, addr, base) ==
    LET near == delta - LineBase \in 0 .. LineRange - 1
        left == IF near THEN delta ELSE 0
        still == left - LineBase + base
        short == still + addr * LineRange
        long == short - MaxSpecial(base) * LineRange
        fits == addr < 256 + MaxSpecial(base)
    IN  (IF near THEN <<>> ELSE <<Op(AdvanceLine, delta)>>) \o
        (IF left = 0 /\ addr = 0 THEN <<Op(Copy, 0)>>
         ELSE IF fits /\ short <= 255 THEN <<Op(short, 0)>>
         ELSE IF fits /\ long <= 255 THEN <<Op(ConstAddPc, 0), Op(long, 0)>>
         ELSE <<Op(AdvancePc, addr), Op(IF near THEN still ELSE Copy, 0)>>)

SpecialEnd(addr, base) ==
    (CASE addr = MaxSpecial(base) -> <<Op(ConstAddPc, 0)>>
       [] addr = 0 -> <<>>
       [] OTHER -> <<Op(AdvancePc, addr)>>)
    \o <<ExtendedOp(EndSequence, 0)>>

(* The distance as a field: the linker's to fill in where it may move what *)
(* is between, and a number where it may not.                              *)
AdvanceField(from, to, delta, moves) ==
    IF moves THEN Measured(from, to) ELSE Op(FixedAdvancePc, delta % FieldSize)

FixedAdvance(delta, from, to, addr, moves) ==
    <<Op(AdvanceLine, delta),
      IF addr > FarAdvance THEN AddressOf(to) ELSE AdvanceField(from, to, addr, moves),
      Op(Copy, 0)>>

FixedEnd(from, to, addr, moves) ==
    <<AdvanceField(from, to, addr, moves), ExtendedOp(EndSequence, 0)>>

(***************************************************************************)
(* The program of one section.                                             *)
(***************************************************************************)
FirstRegisters ==
    [file |-> 1, line |-> 1, column |-> 0, isa |-> 0, isStmt |-> TRUE,
     last |-> Absent, at |-> Nowhere, ops |-> <<>>]

Changed(old, new, op) == IF old = new THEN <<>> ELSE <<op>>

(* What a row changes besides its line and address.                        *)
RowState(target, was, loc) ==
    Changed(was.file, loc.file, Op(SetFile, loc.file)) \o
    Changed(was.column, loc.column, Op(SetColumn, loc.column)) \o
    (IF target.flavor = "gnu" \/ target.version >= 4
       THEN Changed(0, loc.disc, ExtendedOp(SetDiscriminator, loc.disc)) ELSE <<>>) \o
    Changed(was.isa, loc.isa, Op(SetIsa, loc.isa)) \o
    Changed(was.isStmt, loc.isStmt, Op(NegateStmt, 0)) \o
    Changed(FALSE, "basic_block" \in loc.flags, Op(SetBasicBlock, 0)) \o
    Changed(FALSE, "prologue_end" \in loc.flags, Op(SetPrologueEnd, 0)) \o
    Changed(FALSE, "epilogue_begin" \in loc.flags, Op(SetEpilogueBegin, 0))

StartsAfresh_First(was, loc, addr) == was.last = Absent

(* The first row has an address of its own, and so has one that restarts   *)
(* the count of views where the last row is.                               *)
StartsAfresh(was, loc, addr) ==
    was.last = Absent \/ (loc.view = "reset" /\ was.last = addr)

Distance(from, to) == IF to > from THEN to - from ELSE 0

RowAdvance(target, frags, was, row) ==
    LET addr == RowAddr(frags, row)
        at == At(frags, row)
        delta == row.loc.line - was.line
        moves == MovesBetween(frags, was.last, addr)
    IN  IF StartsAfresh(was, row.loc, addr)
          THEN <<AddressOf(at)>> \o SpecialAdvance(delta, 0, OpcodeBase(target))
        ELSE IF target.fixed \/ moves \/ UncertainBetween(frags, was.at.frag, at.frag)
          THEN FixedAdvance(delta, was.at, at, Distance(was.last, addr), moves)
        ELSE SpecialAdvance(delta, Distance(was.last, addr) \div target.min, OpcodeBase(target))

RowsWritten(target, frags, rows) ==
    LET after[i \in 0..Len(rows)] ==
            IF i = 0 THEN FirstRegisters
            ELSE LET was == after[i - 1]
                     loc == rows[i].loc
                 IN  [file |-> loc.file, line |-> loc.line, column |-> loc.column,
                      isa |-> loc.isa, isStmt |-> loc.isStmt,
                      last |-> RowAddr(frags, rows[i]), at |-> At(frags, rows[i]),
                      ops |-> was.ops \o RowState(target, was, loc)
                                      \o RowAdvance(target, frags, was, rows[i])]
    IN  after[Len(rows)]

LineProgram(target, frags, rows) ==
    LET was == RowsWritten(target, frags, rows)
        end == Place(Len(frags) + 1, 0)
        prev == IF was.last = Absent THEN Size(frags) ELSE was.last
        from == IF was.last = Absent THEN end ELSE was.at
        addr == Distance(prev, Size(frags))
        moves == MovesBetween(frags, prev, Size(frags))
    IN  was.ops \o
        (IF target.fixed \/ moves \/ UncertainBetween(frags, from.frag, end.frag)
           THEN FixedEnd(from, end, addr, moves)
           ELSE SpecialEnd(addr \div target.min, OpcodeBase(target)))

(***************************************************************************)
(* The numbers of GNU as's views: a row where the one before it is counts  *)
(* one up, and any other starts again.                                     *)
(***************************************************************************)
AssignViews(frags, rows) ==
    LET view[i \in 0..Len(rows)] ==
            IF i < 2 THEN 0
            ELSE IF /\ RowAddr(frags, rows[i]) <= RowAddr(frags, rows[i - 1])
                    /\ rows[i].loc.view # "reset"
              THEN view[i - 1] + 1
              ELSE 0
    IN  [i \in 1..Len(rows) |-> view[i]]
=============================================================================
