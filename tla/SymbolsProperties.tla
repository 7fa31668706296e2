------------------------- MODULE SymbolsProperties --------------------------
(***************************************************************************)
(* What the symbol table makes of a source, against what the source says.  *)
(***************************************************************************)
EXTENDS Symbols

Done == phase = "done"

(***************************************************************************)
(* A statement's place in the text, told from the text alone.              *)
(***************************************************************************)
BytesOf(s) == IF s.is \in Emitting THEN Len(s.exprs) ELSE 0

BytesBefore(j) ==
    LET before[k \in 0..Len(text)] == IF k = 0 THEN 0 ELSE before[k - 1] + BytesOf(text[k])
    IN  before[j - 1]

LocalsNamed(n) == {j \in DOMAIN text : text[j].is = "local" /\ text[j].n = n}

Latest(S) == CHOOSE j \in S : \A k \in S : k <= j
Earliest(S) == CHOOSE j \in S : \A k \in S : j <= k

(* The statements a numeric reference in statement "j" may mean.           *)
Candidates(leaf, j) ==
    IF leaf[1] = "backward" THEN {k \in LocalsNamed(leaf[2]) : k < j}
    ELSE {k \in LocalsNamed(leaf[2]) : k > j}

Place(leaf, j, item) ==
    LET there == Candidates(leaf, j)
    IN  IF leaf = Here THEN BytesBefore(j) + item - 1
        ELSE BytesBefore(IF leaf[1] = "backward" THEN Latest(there) ELSE Earliest(there))

HasPlace(leaf, j) == leaf = Here \/ Candidates(leaf, j) # {}

BoundThere(written, bound, j, item) ==
    IsPositional(written) /\ ~IsNumber(bound) =>
        IF HasPlace(written, j)
          THEN /\ bound \in DOMAIN table
               /\ table[bound].is = "label"
               /\ table[bound].at = Place(written, j, item)
          ELSE bound \in DOMAIN table => table[bound].is = "undefined"

ExprBoundThere(written, bound, j, item) ==
    /\ BoundThere(written.l, bound.l, j, item)
    /\ BoundThere(written.r, bound.r, j, item)

(* "." means the place of its own item, "1b" the last "1:" before its      *)
(* statement and "1f" the first one after it, in whatever statement they   *)
(* are written and whenever they are evaluated, and a reference to a label *)
(* that does not exist means none (local_backward, local_forward,          *)
(* local_define_slot, bind_positional, bind_here_to_item).                 *)
LocalsByPosition ==
    Done =>
      /\ \A i \in DOMAIN uses : LET u == uses[i] IN
            ExprBoundThere(u.written, u.expr, u.span, u.item)
      /\ \A id \in DOMAIN table : LET symbol == table[id] IN
            symbol.is = "expr" /\ ~Predefined(symbol) =>
                ExprBoundThere(text[symbol.span].exprs[1], symbol.expr, symbol.span, 1)

(* A source with a numeric reference no label answers is refused, and no   *)
(* other is for that reason (undefined_locals, report_undefined_locals).   *)
MissingLocalsReported ==
    Done =>
      ((\E e \in errors : e[1] \in {"no previous", "no local"}) <=>
       \E j \in DOMAIN text : \E leaf \in LeavesOf(text[j].exprs) :
            leaf[1] \in {"forward", "backward"} /\ ~HasPlace(leaf, j))

(***************************************************************************)
(* The number each name is, worked out from the labels upwards: names that *)
(* need "k" steps are known after "k" rounds.                              *)
(***************************************************************************)
IsKnown(leaf, numbers) == IsNumber(leaf) \/ leaf \in DOMAIN numbers
NumberOf(leaf, numbers) == IF IsNumber(leaf) THEN leaf[2] ELSE numbers[leaf]

Compute(e, numbers) ==
    LET l == NumberOf(e.l, numbers)
        r == NumberOf(e.r, numbers)
    IN  CASE e.op = "+" -> l + r [] e.op = "-" -> l - r [] e.op = "*" -> l * r

LabelIds == {id \in DOMAIN table : table[id].is = "label"}
ExprIds == {id \in DOMAIN table : table[id].is = "expr"}

KnownNumbers ==
    LET after[k \in 0..Cardinality(ExprIds)] ==
            IF k = 0 THEN [id \in LabelIds |-> Base + table[id].at]
            ELSE LET before == after[k - 1]
                     ready == {id \in ExprIds \ DOMAIN before :
                        \A leaf \in Leaves(table[id].expr) : IsKnown(leaf, before)}
                 IN  [id \in DOMAIN before \cup ready |->
                        IF id \in DOMAIN before THEN before[id]
                        ELSE Compute(table[id].expr, before)]
    IN  after[Cardinality(ExprIds)]

(* What evaluating an expression may come to.                              *)
MentionedBy(e) ==
    LET reach[k \in 0..Cardinality(DOMAIN table)] ==
            IF k = 0 THEN Leaves(e)
            ELSE reach[k - 1] \cup UNION {Leaves(table[id].expr) : id \in reach[k - 1] \cap ExprIds}
    IN  reach[Cardinality(DOMAIN table)]

IsCircular(e) == \E id \in MentionedBy(e) \cap ExprIds : id \in MentionedBy(table[id].expr)

(* The three evaluators agree with arithmetic: a use of names that are all *)
(* defined in the end has the number it works out to, through whatever     *)
(* aliases and differences, whether it could be kept as a symbol or only   *)
(* be computed from addresses; and a use that is defined by itself has no  *)
(* value (eval_binary, Env, SymbolEnv, AddressEnv, plain_fixup_value).     *)
UsesAreComputed ==
    Done =>
      LET numbers == KnownNumbers
      IN  \A i \in DOMAIN uses : LET e == uses[i].expr IN
            /\ (\A leaf \in Leaves(e) : IsKnown(leaf, numbers)) =>
                    image[i] = <<Compute(e, numbers)>>
            /\ IsCircular(e) => image[i] = Unresolved

(* Whether the local labels in a value are bound when it is evaluated.     *)
IsReadBound(u) ==
    \/ Here \in LeavesOf(text[u.span].exprs)
    \/ \A leaf \in Leaves(u.written) : leaf[1] \notin {"forward", "backward"}

(* What was a number when it was read stays that number, whatever happens  *)
(* to the names in it: for data everywhere, even if its names are no       *)
(* numbers and only their difference is, unless it has local labels that   *)
(* are bound too late; and in the dialects whose uses mean the value a     *)
(* name has there for operands and definitions of names that were numbers  *)
(* (emit_value_of, bind_set_values).                                       *)
NumbersStay ==
    Done =>
      /\ \A i \in DOMAIN uses : LET u == uses[i] IN
            /\ u.was # Unresolved
            /\ IF text[u.span].is = "data" THEN IsReadBound(u) ELSE BindsValues
            => image[i] = u.was
      /\ BindsValues => \A id \in ExprIds :
            table[id].was # Unresolved => Constant(table, Just(id)) = table[id].was

(***************************************************************************)
(* The statements that say anything about a name.                          *)
(***************************************************************************)
About(id) == {j \in DOMAIN text : text[j].name = id}
Defining(id) == {j \in About(id) : text[j].is # "size"}

(* The symbols names take their sizes from never form a circle, so that    *)
(* following them ends: every set of symbols has one that takes its size   *)
(* from none of them (dir_set; symbol_size).                               *)
SizeChainsEnd ==
    \A S \in SUBSET DOMAIN table :
        S # {} => \E id \in S : table[id].sizeFrom \notin S

Same(written, bound) == IsPositional(written) \/ bound = written

(* Whether a size is the one statement "k" gives, and means what that says.*)
IsSizeOf(k, size) ==
    LET written == text[k].exprs[1]
    IN  /\ Same(written.l, size.l) /\ size.op = written.op /\ Same(written.r, size.r)
        /\ ExprBoundThere(written, size, k, 1)

(* Whether a size is the last one given before statement "j".              *)
IsSizeGiven(id, j, size) ==
    LET given == {k \in About(id) \ Defining(id) : k < j}
    IN  IF given = {} THEN size = NoExpr ELSE IsSizeOf(Latest(given), size)

(* An alias that nothing was said about later has the size its source has  *)
(* in the end if it was made before its source, however many aliases that  *)
(* is away; and if its source is a label and came first, the size that was *)
(* given by then, and none that is given later (dir_set, symbol_size).     *)
AliasSizes ==
    Done =>
      \A j \in DOMAIN text :
        LET id == text[j].name
            e == text[j].exprs[1]
        IN  (text[j].is = "set" /\ e.r = Number(0) /\ IsName(e.l) /\ e.l # id
                /\ \A k \in About(id) : k <= j) =>
              LET earlier == {k \in Defining(e.l) : k < j}
              IN  /\ earlier = {} => SymbolSize(table, id) = SymbolSize(table, e.l)
                  /\ (earlier # {} /\ \A k \in Defining(e.l) : text[k].is = "label") =>
                        IsSizeGiven(e.l, j, SymbolSize(table, id))
=============================================================================
