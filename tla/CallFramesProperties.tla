------------------------ MODULE CallFramesProperties ------------------------
(***************************************************************************)
(* What a frame table has to say: at every address of a frame, how the     *)
(* frame before it is found, as the frame's directives up to there say.    *)
(***************************************************************************)
EXTENDS CallFrames

Done == ~Reading

(***************************************************************************)
(* Rules, by the DWARF standard: the CFA is a register and an offset, and  *)
(* "rules" has how the registers are found that it says it of.             *)
(***************************************************************************)
Unspecified == <<"unspecified">>
Clear == [reg |-> 0, off |-> 0, rules |-> <<>>, signed |-> FALSE, saved |-> <<>>]

RuleOf(s, reg) == IF reg \in DOMAIN s.rules THEN s.rules[reg] ELSE Unspecified
WithRule(s, reg, rule) == [s EXCEPT !.rules = (reg :> rule) @@ @]
Restored(s) == IF s.saved = <<>> THEN s ELSE [Last(s.saved) EXCEPT !.saved = Front(s.saved)]

Effect(s, is, reg, off, initial) ==
    CASE is = "def_cfa" -> [s EXCEPT !.reg = reg, !.off = off]
      [] is = "def_cfa_register" -> [s EXCEPT !.reg = reg]
      [] is = "def_cfa_offset" -> [s EXCEPT !.off = off]
      [] is \in {"offset", "val_offset", "register"} -> WithRule(s, reg, <<is, off>>)
      [] is \in {"undefined", "same_value"} -> WithRule(s, reg, <<is>>)
      [] is = "restore" -> WithRule(s, reg, RuleOf(initial, reg))
      [] is = "remember_state" -> [s EXCEPT !.saved = Append(@, s)]
      [] is = "restore_state" -> Restored(s)
      [] is = "window_save" -> [s EXCEPT !.signed = ~@]
      [] OTHER -> s

SameRules(s, t) ==
    /\ s.reg = t.reg /\ s.off = t.off /\ s.signed = t.signed
    /\ \A reg \in DOMAIN s.rules \cup DOMAIN t.rules : RuleOf(s, reg) = RuleOf(t, reg)

(***************************************************************************)
(* What the directives of a frame say.                                     *)
(***************************************************************************)
Is(fde, i, names) == fde.insns[i].insn.is \in names

Balance(fde, from, to) ==
    Cardinality({i \in from..to : Is(fde, i, {"remember_state"})})
    - Cardinality({i \in from..to : Is(fde, i, {"restore_state"})})

(* The .cfi_remember_state that a .cfi_restore_state goes back to, or 0.   *)
Matching(fde, i) == Max({0} \cup {j \in 1 .. i - 1 : Balance(fde, j, i - 1) = 1})

InitialOffset(fde) ==
    LET defining == SelectSeq(Initial(Target, fde), LAMBDA i : i.is = "def_cfa")
    IN  IF defining = <<>> THEN 0 ELSE Last(defining).off

(* The offset directive i + 1 counts from.                                 *)
Base(fde, i) ==
    LET base[j \in 0..i] ==
            IF j = 0 THEN InitialOffset(fde)
            ELSE LET off == fde.insns[j].insn.off
                 IN  CASE Is(fde, j, {"def_cfa", "def_cfa_offset"}) -> off
                       [] Is(fde, j, {"adjust_cfa_offset"}) -> base[j - 1] + off
                       [] /\ Is(fde, j, {"restore_state"}) /\ Target.flavor = "gnu"
                          /\ Matching(fde, j) # 0 -> base[Matching(fde, j) - 1]
                       [] OTHER -> base[j - 1]
    IN  base[i]

Initially(fde) ==
    LET step(s, insn) == Effect(s, insn.is, insn.reg, insn.off, Clear)
    IN  FoldLeft(step, Clear, Initial(Target, fde))

Meaning(fde, address) ==
    LET initial == Initially(fde)
        after[i \in 0 .. Len(fde.insns)] ==
            IF i = 0 THEN initial
            ELSE LET insn == fde.insns[i].insn
                     s == after[i - 1]
                 IN  CASE Offset(linked, fde.insns[i].at) > address -> s
                       [] insn.is = "adjust_cfa_offset" -> [s EXCEPT !.off = Base(fde, i)]
                       [] insn.is = "rel_offset" ->
                             WithRule(s, insn.reg, <<"offset", insn.off - Base(fde, i - 1)>>)
                       [] OTHER -> Effect(s, insn.is, insn.reg, insn.off, initial)
    IN  after[Len(fde.insns)]

(***************************************************************************)
(* What a consumer reads.                                                  *)
(***************************************************************************)
Capacity == [advance_loc |-> 64, advance_loc1 |-> 256, advance_loc2 |-> 65536]

Distance(op) ==
    LET value == IF op.arg # Absent THEN op.arg
                 ELSE Offset(linked, op.to) - Offset(linked, op.from)
    IN  IF op.code \in DOMAIN Capacity THEN value % Capacity[op.code] ELSE value

Execute(initial, s, op) ==
    LET scaled == op.arg * Target.dataAlign
    IN  CASE op.code \in {"def_cfa_sf", "def_cfa_offset_sf"} ->
                Effect(s, IF op.code = "def_cfa_sf" THEN "def_cfa" ELSE "def_cfa_offset",
                       op.reg, scaled, initial)
          [] op.code \in {"offset", "offset_extended", "offset_extended_sf"} ->
                Effect(s, "offset", op.reg, scaled, initial)
          [] op.code \in {"val_offset", "val_offset_sf"} ->
                Effect(s, "val_offset", op.reg, scaled, initial)
          [] op.code = "restore_extended" -> Effect(s, "restore", op.reg, 0, initial)
          [] OTHER -> Effect(s, op.code, op.reg, op.arg, initial)

IsAdvance(op) == op.code \in DOMAIN Capacity \cup {"advance_loc4"}

(* The rules at an address: all operations up to the first advance past it.*)
Read(table, frame, address) ==
    LET cie(s, op) == Execute(Clear, s, op)
        initial == FoldLeft(cie, Clear, table.cies[frame.cie].ops)
        step(r, op) ==
            IF IsAdvance(op) THEN [r EXCEPT !.loc = @ + Distance(op) * Target.unit]
            ELSE IF r.loc > address THEN r
            ELSE [r EXCEPT !.state = Execute(initial, @, op)]
    IN  FoldLeft(step, [loc |-> Offset(linked, frame.begin), state |-> initial], frame.ops).state

Length(frame) ==
    IF frame.long # Absent THEN frame.long
    ELSE Offset(linked, frame.end) - Offset(linked, frame.begin)

(***************************************************************************)
(* Frames that a table cannot say, by the rules of its reference.          *)
(***************************************************************************)
(* A distance is written in units.                                         *)
IsAligned(fde) ==
    \A i \in DOMAIN fde.insns :
        (Offset(frags, fde.insns[i].at) - Offset(frags, fde.start)) % Target.unit = 0

(* GNU as moves the instructions of a frame's first address into the CIE,  *)
(* and .cfi_restore goes back to the rules the CIE ends with, not to those *)
(* .cfi_startproc gives.                                                   *)
IsRestored(fde, i) ==
    Is(fde, i, {"restore"}) =>
        /\ Offset(frags, fde.insns[i].at) > Offset(frags, fde.start)
        /\ \A j \in DOMAIN fde.insns :
              fde.insns[j].insn.reg = fde.insns[i].insn.reg =>
                  Offset(frags, fde.insns[j].at) > Offset(frags, fde.start)

(* Where an offset is written in units of the data alignment, what is left *)
(* of the division is lost.                                                *)
IsFactored(fde) ==
    \A i \in DOMAIN fde.insns :
        LET off == fde.insns[i].insn.off
            Fits(n) == Factored(n, Target.dataAlign) * Target.dataAlign = n
            FitsIfSigned(n) == n < 0 /\ Target.flavor = "gnu" => Fits(n)
        IN  /\ Is(fde, i, {"offset", "val_offset"}) => Fits(off)
            /\ Is(fde, i, {"rel_offset"}) => Fits(off - Base(fde, i - 1))
            /\ Is(fde, i, {"def_cfa", "def_cfa_offset"}) => FitsIfSigned(off)
            /\ Is(fde, i, {"adjust_cfa_offset"}) => FitsIfSigned(Base(fde, i))

(* llvm-mc counts a simple frame's offsets from where the frame before it  *)
(* ended.                                                                  *)
CountsFromItself(fde) ==
    fde.simple => \A i \in DOMAIN fde.insns :
        Is(fde, i, {"adjust_cfa_offset", "rel_offset"}) =>
            \E j \in 1 .. i - 1 : Is(fde, j, {"def_cfa", "def_cfa_offset"})

(* llvm-mc's .debug_frame has the CIE of its first frame for all.          *)
ShareOneCie(eh) ==
    eh \/ \A f, g \in DOMAIN fdes :
             fdes[f].simple = fdes[g].simple /\ Column(Target, fdes[f]) = Column(Target, fdes[g])

CanSay(eh, fde) ==
    /\ IsAligned(fde) /\ IsFactored(fde)
    /\ IF Target.flavor = "gnu" THEN \A i \in DOMAIN fde.insns : IsRestored(fde, i)
       ELSE CountsFromItself(fde) /\ ShareOneCie(eh)

(***************************************************************************)
(* Properties.                                                             *)
(***************************************************************************)
(* At the end every frame is closed, and no two have code in common: who   *)
(* looks up an address finds one frame.  A second .cfi_startproc, or one   *)
(* without its end, is an error that leaves the frame there is as it was   *)
(* (cfi_startproc).                                                        *)
FramesAreApart ==
    Done => \A f \in DOMAIN fdes :
        /\ fdes[f].start <= fdes[f].end /\ fdes[f].end <= Here
        /\ \A g \in 1 .. f - 1 : fdes[g].end <= fdes[f].start

IsFrameOf(frame, fde) == frame.begin = fde.start /\ frame.end = fde.end

Says(table, frame, fde) ==
    /\ Offset(linked, frame.begin) + Length(frame) = Offset(linked, fde.end)
    /\ \A p \in fde.start .. fde.end - 1 :
          LET address == Offset(linked, p)
          IN  SameRules(Read(table, frame, address), Meaning(fde, address))

(* A consumer finds every frame, as long as the code of it that is left    *)
(* when it is linked, and at every address in it the rules its directives  *)
(* give up to there: whatever the CIE it shares with other frames took of  *)
(* them, whichever form the advances between them have, and whatever       *)
(* .cfi_restore_state and the relative directives go back to or count from *)
(* (gnu_frames, llvm_frames).                                              *)
FramesReadBack ==
    Done => \A name \in tables :
        LET eh == name = "eh_frame"
            table == Written(eh)
        IN  /\ Len(table.frames) = Len(fdes)
            /\ \A f \in DOMAIN fdes : CanSay(eh, fdes[f]) =>
                  \E g \in DOMAIN table.frames :
                      IsFrameOf(table.frames[g], fdes[f]) /\ Says(table, table.frames[g], fdes[f])

(* Encodings of which llvm-mc's key makes one.                             *)
Alike(enc, other) == enc = other \/ {enc, other} = {0, Omit}

(* What a CIE says may stand for what a frame says.                        *)
Serves(target, cie, frame) ==
    IF target.flavor = "gnu" THEN cie = frame
    ELSE /\ cie.column = frame.column /\ cie.signal = frame.signal
         /\ Alike(cie.lsda, frame.lsda)
         /\ cie.personality.name = frame.personality.name
         /\ Alike(cie.personality.enc, frame.personality.enc)

(* The CIE a frame refers to is for frames like it, wherever in it they    *)
(* were given and whichever frames came between: in GNU as's tables the    *)
(* personality routine, the encoding of its data area, the return address  *)
(* and whether it is a signal frame are those of the frame.  In llvm-mc's  *)
(* .eh_frame they are too, but for what is added to the routine's symbol,  *)
(* and that no pointer passes for one of encoding 0 and the other way      *)
(* round (gnu_frames, llvm_frames).                                        *)
FramesShareWhatTheyAgreeOn ==
    Done => \A name \in tables :
        LET eh == name = "eh_frame"
            table == Written(eh)
            ordered == IF Target.flavor = "gnu" THEN fdes ELSE SortedByKey(Target, fdes)
        IN  Target.flavor = "gnu" \/ eh => \A f \in DOMAIN ordered :
                Serves(Target, table.cies[table.frames[f].cie].common,
                       Common(Target, ordered[f], eh))
=============================================================================
