# TLA+ models of rsasm

rsasm is a multi-architecture assembler written in Rust: it reads assembly
source in the dialects of several assemblers, encodes it with one of sixteen
backends, and writes an ELF, Mach-O, COFF, hex or flat image whose bytes are to
be those of GNU as, llvm-mc, NASM or a vendor's assembler. This directory holds
TLA+ models of the parts of it that keep state, the TLC runs that check them on
small instances, and proofs, checked by TLAPS, of theorems about them for every
instance. Every definition is translated from the source; `PROJECT.json` maps
each to the lines it stands for.

## The system

Nothing in rsasm runs concurrently, nothing is persisted, and no message can be
lost. What is hard about it is of another kind: one mutable `Assembler` is
changed by recursion that unwinds through flags, by directives that leave a
section and come back, by backends that take over from each other, by data
written long after the statement that asked for it (and read again by a linker
and a debugger, which must get out what was put in), and by a fixed-point search
in which every size depends on every address. The order of legal statements is
the adversary here, and the fixed point the thing that may not exist.

| Component | State it keeps | Operations | What makes it correct |
|---|---|---|---|
| statement walker (`assembler.rs`: `run`, `run_statement`, `expand`, `assemble_file_in`) | the reader of each nested text (on the Rust stack), `cond`, `macros`, `macro_depth`, `include_depth`, `exiting_macro`, `end_of_source` | read a statement; capture a block; call, repeat, include, rewrite; open, turn and close a conditional; leave early; stop at END | a statement is assembled exactly if the nesting of the source says so; leaving early leaves one expansion; recursion is bounded |
| sections (`section.rs`, `directives.rs`) | fragments, the open fragment, alignment, `arch_marks`, `nop_state`; `cur`, previous section, section stack | push, merge and seal fragments; enter, leave, swap and stack sections | every item stays with the section, backend and label its statement gave it |
| labels and symbols (`symbol.rs`, `assembler.rs`) | each symbol's value: undefined, a label at a fragment, an expression, a common block | define, refer, redefine; reattach to the fragment after padding | a label denotes what its own statement emits |
| literal pools, backend requests (`literals.rs`) | the literals asked for since the section's last pool, the pool's alignment, the last implicit IT | request a literal; write pools at `.ltorg`, at a switch of backend and at the end | each load reads its own value, at an address it can be read from |
| mapping symbols (`mapping.rs`) | per section the last mark and the recorded marks | mark code, data, padding; place the marks after layout | every byte is under a mark that says what it is |
| layout (`layout.rs`) | per fragment the offset, the candidate chosen and the computed size; per section size and address; the history of shrinks | passes of addresses, offsets and relaxation; emission of sections from a settled layout and layout again; range checks | the passes end; the layout is a fixed point; nothing read from it changes later; errors are those of the final layout |
| expressions (`expr.rs`) | an arena of nodes | parse, bind `.` and local labels, evaluate | values of the reference assemblers |
| lexer, parser (`lexer.rs`, `parser.rs`, `cursor.rs`, `intern.rs`) | none between statements | tokenise, split | text processing |
| macro text (`macros.rs`) | none | substitute parameters | text processing |
| NASM front end (`nasm/`) | single- and multi-line macros, contexts, one stack of conditional states for all texts, frames of expansions, the counts of nested texts, `unwind` | read a line; capture a block; expand, repeat, include; exit an expansion or a repeat; push and pop a context | as the walker; an exit finds what it leaves, and leaves only that |
| line tables (`dwarf/line.rs`, `source.rs`, `emit.rs`) | the `.loc` row that waits, the rows of each section, the rows made for the source itself | record while reading; write each section's program from a settled layout | the rows are those the source asks for, and a consumer reads them at their linked addresses |
| call frames (`dwarf/cfi.rs`, `emit.rs`) | the open frame, the frames with their instructions, the tables asked for | open, describe and close a frame; write the tables, sharing what frames agree on | a consumer finds at every linked address the rules the directives give |
| other DWARF (`dwarf/info.rs`, `md5.rs`) | the compilation unit made for the source | written with the line tables | |
| COFF, CodeView (`coff.rs`, `codeview.rs`) | the open `.def`, function and unwind records | as DWARF | |
| object writers (`output/`), relocations (`reloc.rs`), linking (`link.rs`) | none | serialise | |
| backends (`arch/*`) | `ArchState`: instruction set, syntax, CPU | encode one instruction as candidates with fixups, and requests to the core | encodings |
| diagnostics, sources, command line (`diag.rs`, `source.rs`, `main.rs`, `lib.rs`) | messages, files | | |

How they interact: the walker hands one statement after another to a directive
or to the active backend; both push fragments into the current section and bind
labels to fragment numbers, and a backend's requests have the core pad, mark or
remember a literal. A `.arch` writes the open pools, then marks all sections,
so that layout, which runs when every statement has been read, asks each
fragment's own backend for its byte order, its reach and its no-ops. Layout
settles; DWARF, layout records and unwind tables are then written from the
settled layout into new sections, and layout runs again after each; then the
writers read the result. Nothing is called back: all of it is one thread.

## Modules

Each component has a pure part without variables, a state machine with one
action per statement or step, a module of properties, an MC module with the
instances for TLC, and where there are theorems a module of proofs. A
definition named `X_Y` is a mutated form of `X` and is used by nothing; it is
there to show that a property can fail.

**Layout.** `Fragments` (program, expressions, sizes, addresses and the four
tests for "this candidate reaches"), `FixedPoint` (what a settled layout is),
`Layout` (the passes), `LayoutProperties`, `MCLayout`, `FixedPointProofs`;
`Settlement` is the abstract promise, `PublishedLayout` and `MCPublished` the
refinement.
A state is `settle_layout` between two fragments: the code walks sections and
fragments in loops, and what it computes for one depends on which labels have
moved in this pass already, so `Layout` visits one fragment per step.
`AssignAddress` … `EndOfAddresses` are `assign_addresses`; `PlaceFragment`,
`EndOfOffsets` are `assign_offsets` with `compute_size`; `GrowFragment` is
`relax` for backends that only grow; `GrowInOrder`, `RepickEachPass`, `Repick`,
`Repad`, `MoveOnly` are the loops of `grow_in_order`, `repick_each_pass` and
`repick`; `Settle`, `NextPass`, `GiveUp` the end of a pass; `Emit` an emission
of sections with the new `settle_layout` it starts; `PlaceImage`, `ApplyFixups`
the end of `finish`. An instruction is a sequence of candidates, each a length
with fixups that hold a range of values; its bytes are left out.

**Statement walker.** `Statements` (texts, blocks), `Expansion`,
`ExpansionProperties`, `MCExpansion`, `ExpansionProofs`; `Nesting` says of a text,
without running it, which arms a reader expects to be assembled, and
`NestingProofs` what that means to one who reads it statement by statement. The Rust
recursion is the variable `stack`; `Leave` is the return from `assemble_file_in`
and all that its callers do next. Conditions and repetition counts are written in
the program; what arguments substitute is left out.

**NASM preprocessor.** `Preprocessor`, `PreprocessorProperties`,
`MCPreprocessor`, `PreprocessorProofs`, over the same `Statements`, `Nesting` and
`NestingProofs`.
The recursion run_nasm, nasm_line, nasm_call, nasm_rep, assemble_file is `stack`
again, and one action is one line; `Leave` is the end of `run_nasm` with what its
caller does after it. It differs from the GNU walker where the code does: all
texts share one stack of conditional states, which each text cuts back to the
length it found; exits are one flag, `unwind`, which what is being left clears on
return; `%exitrep` asks a count of repeats against the count outside the
innermost expansion; a macro is chosen by its number of parameters and not
entered again while it is read, unless it is recursive; redefining it meanwhile
changes who is being read, so definitions are numbered (`Rc::ptr_eq`). The labels
of an expansion and of a context are represented by their numbers.

**Line tables.** `Positions` (offsets in a section, where a linker may shorten
code), `LineTable` (the program of one section: `line_program` and what it
calls, opcode by opcode), `LineRows` (what is kept while reading),
`LineRowsProperties`, `MCLineRows`, `LineRowsProofs`. One action per statement that
bears on rows;
`Link` is the end: the tables are written, and a linker takes a byte from any of
the fragments it may shorten. `log` keeps the statements, so that the properties
can say from the source, in the words of the table at the head of
`dwarf/line.rs`, which rows it asks for. The properties have a consumer of their
own: the state machine of the DWARF standard, which knows nothing of how a
program was put together. A byte of a fragment is a number; LEB128 numbers are
numbers.

**Call frames.** `FrameTables` (both writers, `gnu_frames` and `llvm_frames`,
with `advance`, `write_insn` and the sharing of CIEs), `CallFrames` (one action
per `.cfi_*` directive and per piece of code), `CallFramesProperties`,
`MCCallFrames`, `CallFramesProofs`. A directive is a name, a register and an
offset; the properties again have a consumer by the standard, and `Meaning` says
from the directives alone what it should find.

**Sections and labels.** `Sections` (a section record, what may be done to it,
and its mapping symbols), `Assembly`, `AssemblyProperties`, `MCAssembly`, `AssemblyProofs`;
`Streams` is the abstract specification. One action per kind of statement; each is the whole
statement: a label of its own line, the requests, the marks, the fragments, and
for `.arch` the pools of every section. A fragment is the sequence of the items
in it and an item has a size, the slot of the backend that emitted it, and for
code the instruction set; layout is represented by the sizes of a single pass
(nothing here relaxes). Modes "a" and "t" are ARM and Thumb, "x" AArch64, "p"
PowerPC, which has no mapping symbols and prefixed instructions that may not
cross a boundary.

**Symbols.** `Terms` (expressions, values, the evaluators), `Symbols`,
`SymbolsProperties`, `MCSymbols`, `SymbolsProofs`. One action per kind of
statement that defines or uses a symbol: `DefineLabel` and `DefineLocal` are
`define_label`, `DirSet` is `.set`, `.equ` and `.equiv`, `Assign` every spelling
of `=` with the rules of three dialects, `DirSize`, `DirComm`, `DirData` and
`Operand` the rest; each includes the binding `process` ends with
(`bind_positional`, `bind_set_values`). A symbol is named by what made it: a
name, the k-th label of a number, or the place of an item. An expression is two
leaves and an operator, and longer ones are made of symbols; `*` stands for all
operators that want numbers. What a data directive writes at once and an operand
leaves to the end differs as in the code: data is looked at before the local
labels of its statement are bound, unless a `.` in it has them all bound first.
A use emits one byte, into one
section, and the end of the source fills a flat image by `plain_fixup_value`.
The evaluators `SymbolEnv`, `Env` and `AddressEnv` are one definition with three
answers for a leaf. Two limits of 64, on the depth of definitions and on the
hops to a size, are constants. Labels `.` makes for statements that do not bind
it are left out: nothing refers to them.

**Literal slots.** `LiteralSlots`, `MCLiteralSlots`, and the last part of
`SymbolsProofs`: the array of slots GNU as's ARM port keeps, and which
`flush_literal_slots` imitates slot by slot. `Assembly` has pools of one width in
their place among the fragments; this has one pool in all its detail.

## Runs

| Run | Instance | Shows |
|---|---|---|
| `settles` | every sequence of four fragments over a menu of jumps (near and far, forward and back), data and alignments, for each of the four relaxation strategies; flat images of two sections with `.org`, `.space`, LEB128 and short forms that depend on the other section; three fragments that are measured to a number, as an address or from the section's start, among forms that take even distances only, in objects and flat | the passes end without meeting a limit, on a fixed point of every rule; growing needs a pass per growth only; without padding it is the smallest layout, under `repick` every candidate is the smallest that reaches; a size shrinks only where its strategy allows it; sections do not overlap; no error of the final layout goes unreported |
| `promise` | the growing programs with two emissions, and flat images | `Layout` implements `Settlement` |
| `thumb` (violated) | a Thumb branch over an alignment | a second layout after an emission shrinks what the first had settled |
| `walks` | conditionals two deep with every value; a macro and a file of two pieces each that call, include and leave each other in every way; blocks three deep; END everywhere but in a repeat | conditionals and blocks follow the text's nesting, `.exitm` leaves one expansion, END ends, depth is bounded, and the walk ends with every conditional closed |
| `blank` (violated) | `.ifb` in a false branch | its `.endif` closes the branch around it |
| `sources` | five statements of three kinds of source: marked code and data; backends that switch in two sections; sections entered in every way | fragments implement `Streams`, each has one backend, literals are written by theirs, every byte is under the right mark |
| `literals` | six loads over six literals that share words, six slots | each value is whole at its load's slot, aligned where it is wide, and read where no slot before it emits eight bytes, or the load is refused |
| `symbols` | numeric labels and `.` in data, operands and definitions, and when they are bound; names defined by each other; redefinitions and inherited sizes; CC-RL's `.SET` and `.EQU`; the 8-bit dialect's `SET` and `EQU` with a predefined name | numeric references follow the text's order and missing ones are reported; every use has the number its names work out to, and circular ones have none; what was a number when read stays it where it must; sizes follow aliases and end |
| `lines` | up to five statements of ten kinds of source, under DWARF 2 to 5, GNU as and llvm-mc: what one `.loc` leaves to the next, labels that make rows, switches of section, rows for the source itself, sections returned to; advances about every bound of the special opcodes, of two-byte instructions, in 16-bit fields; views; code a linker shortens | rows are those the source asks for and never go back; a consumer reads every row at its linked address; views are those it counts |
| `frames` | up to eight statements of nine kinds of source for x86-64, SuperH, RISC-V and PowerPC: frames that share their first instructions or not, relative directives, every form of an advance and of an instruction, what frames have to agree on, pointers of every encoding and none, offsets the data alignment does not divide, both tables, frames open, closed twice or not closed, calls a linker shortens | frames are apart; a consumer finds the rules of the directives at every address; CIEs are shared by frames that agree, as far as the assembler compares them |
| `preprocessor` | conditionals with every value, nested or crossing texts; a macro, a file and repeats that leave early and call, repeat and include each other and themselves; overloads redefined while they are read; blocks three deep and unterminated; contexts; `%fatal` everywhere | lines follow the nesting; exits find what they leave and leave nothing else; the walk returns with everything closed |
| `labels` (violated) | `%push`, then a macro with a label of its own and one of the context | both are spelled `..@1.x` |

The violated runs check a sentence of the source or of its tests that the code
does not keep; `PROJECT.json` quotes each.

More such cases are known and are not kept as runs.

* `.set` and `.comm` take over a plain label without an error, and in the 8-bit
  dialect a label that took over a predefined name stays `redefinable`, so that
  a later `EQU` takes it over in turn, against the comment on
  `Symbol::redefinable` ("plain labels may not").
* The comment in `emit_value_of` that "a `.set` symbol is a snapshot at each use"
  is kept for numbers only: with a label `b`, data that names `a` between
  `.set a, b` and `.set a, b + 1` is the address of the second definition. So it
  is with `SET` of the 8-bit dialect and operands, of which `bind_set_values` says
  that "every use means the value it had there": a definition by a label is not
  bound. `NumbersStay` says what holds: a use is a snapshot where it is a number.
  Not even that holds of data like `1b - a` in a statement without a `.`: its
  local labels are not bound yet when it is looked at, so it is no number then,
  and later definitions of `a` reach it.
* "One hop is all `dir_set` ever records", says `symbol_size`; `.set a, b` and
  `.set b, c` before `c` is defined make two, and the loop beside the comment is
  needed: its mutant `SymbolSize_OneHop` violates `AliasSizes`.
* The search for an eight-byte literal does not ask whether a slot is padding: a
  literal with a zero high half shares the slot of its low half and the padding
  after it, a later four-byte literal takes the padding over, and the first load
  reads wrong bytes. The code imitates the array of GNU as, whose disagreement
  its doc attributes to slots of eight bytes. `literals` therefore has no zero halves.
* A load counts slots of four bytes, so one behind a slot that emits eight reads
  the wrong bytes: the words 1, then 1 and 2 of an eight-byte literal, the
  same again, which makes its slot one of eight bytes, then 2 and 1. The doc of
  `flush_literal_slots` says so, and GNU as does it. `UsesReadTheirValue` lets
  such a load read what it finds, but still wants its literal whole where its
  slot's own bytes are.
* llvm-mc's `.eh_frame` shares a CIE by a key (`Key`) in which no personality
  routine or data area is like one of encoding 0, and in which a number is like
  no symbol and what is added to a symbol does not count. `cfi_pointer` accepts
  encoding 0, so a frame with `.cfi_lsda 0, x` shares the CIE of one without
  a data area, whose `L` follows the frame that made it; a routine `f + 8` shares
  that of `f`. LLVM's own key of a CIE is the same. `FramesShareWhatTheyAgreeOn`
  says what is compared (`Alike`); GNU as marks none by 0xff, and compares all.
* Offsets are divided by the data alignment and what is left over is lost:
  `.cfi_offset 6, -12` on x86-64 is read as -8. `CanSay` leaves such frames out
  (`IsFactored`).
* With an absolute target on a backend whose pc-relative numbers count from the
  section's start, a branch may outgrow a form that code growing before it later
  brings within reach: the smallest layout is not found, against the doc
  of `Relaxation::FromLastPass` (`NothingIsAnchored`).
* A `.space` measured to the second of two sections of a flat image is reported
  negative because of the addresses of the first pass, though the settled one is
  positive; an error is never taken back. `NoErrorMissed` is the direction that
  holds.
* The padding at the end of a section is that of the backend active when the
  source ends: ARM code followed by `.arch` of AArch64 is padded as AArch64.
* `.lcomm` visits `.bss` by the directives that change sections, so a `.previous`
  after it goes to `.bss`.
* The statement after a repeat that contains END is assembled, because the
  repeat's reader stops and its caller's does not look again; and of each input
  after one with END the first statement is, because `end_of_source` is never
  cleared and is looked at after a statement.
* A version 2 line table says it has nine standard opcodes and may still contain
  `DW_LNS_set_prologue_end`, `_epilogue_begin` and `_set_isa`, which its consumer
  reads as special opcodes, if a `.loc` asks for them. `TableReadsBack` leaves
  such rows out (`HasOpcodes`).
* Where advances are fixed (AVR), or a linker may move code, the one that ends a
  sequence is 16 bits however long it is, and is cut off for more than 65535 bytes
  (`EndsInReach`); only those between rows are replaced by an address before.
* GNU as's frames move the instructions of a frame's first address into its CIE,
  so a later `.cfi_restore` of a register given there restores that rule
  (`IsRestored`). llvm-mc counts the offsets of a simple frame from where the
  frame before it ended (`CountsFromItself`), and its `.debug_frame` has the CIE
  of its first frame for all (`ShareOneCie`). rsasm reproduces all three, and
  `CanSay` names them.
* A `.cfi_*` directive in another section than its frame's is not refused; the
  frames of the model have their code in one section.
* Forty chained x86 jumps reach `MAX_PASSES` though nothing refers to itself,
  against the comment on that constant.
* With an alignment in between, starting from the smallest candidates does not
  find the smallest layout, against the doc of `Relaxation::FromLastPass`;
  `SmallestWithoutPadding` says what does hold, and `GrowthFindsSmallest` proves it.
* In a false branch blocks do not count, so an `.else` inside a macro that is
  defined there belongs to the conditional around it: the rest of the definition
  is assembled and its `.endm` is stray. `BlocksFollowNesting` therefore asks that
  arms are in no block of their own, and that no text uses `.ifb`, whose `.endif`
  a false branch looks at and whose beginning it does not (the run `blank`).
* A name given by CC-RX's `.DEFINE` that stands for `.EXITM` is, outside every
  macro, taken for one inside, because rewriting raises `macro_depth` too.
* A name of `.DEFINE` rewritten too often stops the text it stands in and no other,
  and that text, being itself a rewritten statement, leaves the conditionals it
  opened to the one around it: what follows is then assembled, or not, by a
  conditional that is over.

### Bounds, and why they are enough

* Four fragments: two jumps whose reaches overlap, an alignment between them
  and data that tips either are the smallest case in which growth of one makes
  another's test stale, and every order of them is there. Reaches are scaled to
  a few bytes. The limits are `MaxPasses` 10 for the code's `MAX_PASSES` 32,
  `MaxPassesShrinking` 20 for `MAX_PASSES_SHRINKING` 1000 and `FlipLimit` 2 for
  the code's 10: smaller than the code's, so that "no limit is met" is checked
  for the stronger claim. `CodeSettles` fails where the flip guard is removed.
* `MaxMacroDepth` 3 and `MaxIncludeDepth` 1 for 64 and 32 (which lets one more
  through, as the code's `>` does): the texts call themselves, so both limits
  are met from every combination of callers.
* `MaxStatements` 5: label, switch, code, section, and one to come back with.
  PowerPC's prefix boundary of 64 is 8 here, so that it is met.
* `MaxEntries` 6 and six requests for the 1024 entries of a pool: a pool meets
  its limit with an odd and an even number of slots, with padding slots taken
  over and not.
* Five statements (four for the redefinitions) over three names: a name, its
  source and its source's source, each defined before and after the use.
  `MaxChain` 2 for the code's 64 lets a chain of three definitions through, as
  its `>` does, which is the longest three names make without a circle, so a
  definition is refused exactly if it is circular. `MaxHops` 3 for 64 likewise.
* `lines`: five statements are a numbered `.file` and two rows with code behind
  each. Opcodes, line base and range, the field of 16 bits and the far advance of
  50000 are those of the code, unscaled; the sizes and lines chosen are at and
  past each bound.
* `frames`: eight statements are two frames with two directives each, before and
  after code; the sharing of a CIE's first instructions needs no more. Sizes are
  at and past the bounds of each advance. Pointers are none, or have encoding 0
  or another, and a symbol, the symbol with something added, or a number.
* `preprocessor`: `MaxDepth` 3, `MaxRep` 3 and `MaxIncludeDepth` 1 for 64, a
  million and 32. Texts call, repeat and include themselves, so both limits on
  nesting are met from every kind of text.

### Fairness

`FairSpec` of `Layout`, `Expansion` and `Preprocessor` is weak fairness of `Next`:
all are loops of one thread that do nothing but their next step, and stop only by
reaching `Stop`. No other fairness is assumed, and no run without a liveness
property uses any. The runs of `Assembly`, `LiteralSlots`, `Symbols`, `LineRows`
and `CallFrames` do not check deadlock, because a source may end anywhere.

## Proofs

All proofs hold for every value of the constants under the assumptions the
modules name: that programs are programs (`ProgramsAssumption`), that limits are
naturals, that sources are sources (`SourcesAssumption`: of `Assembly` that the
values of literals are not the zero of padding, of `Symbols` that expressions are
made of leaves that can be written, and that a statement has as many as its
directive reads, of `LineRows` that a row some bytes before the end of its
instruction is in that instruction, and in code no linker shortens), and for pools that literals are one or two words long and a
pool may hold three slots at least. Two
facts about backends are part of what a program is (`Variants`, `Instruction`):
that candidates are listed smallest-first, as `src/src/section.rs:590` requires of
them, and that only a backend that shrinks sizes a field by a difference of
labels, as `relaxed_as_difference` is used in `src/src/arch/rx/encode.rs` alone.

* `FixedPointProofs`. `TypeCorrect`: sizes, offsets and addresses are naturals and
  every fragment uses a candidate it has, whatever the programs; the type
  invariant is inductive, and the work is in the lemmas that a size computed
  from any layout is a natural (`SizesAreNatural`: alignments, `.org`, `.space`,
  LEB128) and that the first candidate that reaches is one there is
  (`FirstFitIsCandidate`). `OnlyAllowedShrinks` is the action property: one step
  per action on top of the type invariant.
* There too, `SettledLayoutIsFixed`: what `settle_layout` leaves its loop
  with is a fixed point of every rule, although a pass computes each size while it
  moves the offsets the size is computed from, so that nothing a pass computes
  need agree with what it ends with. `SettlingInv` has one conjunct for each part
  of a pass. The argument is about the running offset. Between two walks that
  assign offsets candidates only grow, or a walk has just moved everything, so
  before each walk no fragment starts past the end of the one before it
  (`Trails`). In a walk that has changed no size yet, the running offset is then
  never behind the offset it replaces; once ahead it stays ahead to the end of
  the section, and closing the section notices. So a pass that reports no change
  has moved nothing (`NothingHasMoved`), and every test it made was made in the
  layout it ends with: the test with a stretch of zero is the one the final layout
  is judged by (`FitsWhereItIs`), for each of the four strategies. The candidates
  have to be listed smallest-first for this: with a shorter one after a longer a
  fragment could start past the end of the one before it, and the offsets of a
  pass without changes could fall back. Sections added later trail trivially
  (`EmitStep`), and addresses are those of a walk over sizes that have not changed
  since (`Addressed`), which is what the comment in `settle_layout` argues with
  "addresses are a function of sizes".
  The theorem has one condition, `FreelyPicked`: `repick`'s guard against flips,
  and what `repick_each_pass` keeps for good, overrule the test of a candidate,
  so nothing follows for those fragments. `GrowingLayoutIsFixed` shows that under
  the two strategies that only grow the condition always holds, and
  `SettledLayoutIsConsistent` that offsets, sizes and addresses need no condition
  under any. `ErrorsAreTold`, `SettledFragmentsAreSmallest` and
  `ImageSectionsAreDisjoint` follow from the same invariant; the last needs that
  the two rounds of NASM's order of sections are a total order (`LastPlaced`).
  `GrowthFindsSmallest` proves `SmallestWithoutPadding`. Each state is compared
  with every layout in which every form reaches (`NoneIsLarger`): as long as no
  candidate is larger than there, no two neighbours are further apart than there
  (`NoWider`, from `GrowthOffsets`: positions stay in order and offsets never get
  ahead of the sizes), so that a form that reaches there reaches here
  (`CloserReaches`) and no candidate need pass the one it has there. Its
  hypotheses are those of the doc and of the source. `NearerIsReached` says of each
  field what "a form that reaches a target also reaches every nearer one" means
  for it, the rounding of the PC included: nearer by a multiple of a number that
  divides every difference of lengths, so that forms which take even distances
  only are covered where all code is even; and no field is measured to a place
  that does not move (`IsAnchored`). `NothingLateIsNamed` says that the
  source names no section emitted later, so that a layout of the whole program
  restricted to the sections there are is one of theirs (`RestrictedReaches`).
  `LayoutKeepsItsPromise` is the refinement: with sizes that only grow
  (`GrowingMode`, under the same `NothingLateIsNamed`) `Layout` implements
  `Settlement`. `Settle` maps to `Publish`, `Emit` to `Emit`, `ApplyFixups` to
  `Finish`, `GiveUp` to `Fail`, and every other step to none. That what is
  published is a fixed point is `GrownIsFixed`. That it is not taken back when
  sections are emitted from it is the larger part (`PublishedKept`): until layout
  has settled again, the sections there were still have the offsets, candidates,
  sizes and addresses they were published with (`KeepsOld`). Their labels are at
  the same places, so each size computed for them is the one they have
  (`OldSizes`), the running offset reaches each of them where it stands
  (`OldPositions`), with a stretch of zero, and each test they passed they pass
  again (`OldTests`), in the walk in order as well (`FieldsFitInOrder`). The last
  `assign_addresses` then finds every section in its place (`FinalAddresses`).
  `PassesArePaidFor` bounds the passes: in an object made of code, data and
  alignment each pass but two has outgrown a candidate, so the number of
  candidates is a limit already. The walk that assigns the offsets pads every
  alignment to fit them (`PaddedBehind`), so until something grows each form is
  tested in the layout the walk ends with (`Quiet`), and a walk in which nothing
  grew ends in a fixed point (`FixedPointIsCalm`). The lemmas of the refinement
  say that another pass leaves a fixed point as it is; that it also reports no
  change (`CalmStays`) makes it the last. `GrowthInv` says what each phase of a
  pass has been paid with.
* `ExpansionProofs`. `NestingIsBounded`: at most 1 + MaxMacroDepth +
  MaxIncludeDepth + 1 texts are read at once. The guards test two counters, not
  the depth, so the bound alone is not inductive; `IInv` adds that the counters
  count the frames of the stack by what caused them (`DepthsCount`), that only
  the outermost frame is an input (`InputIsOutermost`) and that the counters
  respect the limits. `WalkTypeCorrect` follows: in particular the counters,
  which the code decrements unchecked, never go below zero.
  `NothingIsAssembledAfterEnd` and `ExitmLeavesItsExpansion` are about the two
  flags that leave texts early. A flag is raised by a statement of the innermost
  text and looked at when that text would read on, so the argument is that the
  innermost text is never read on while a flag is up; each step is then a return,
  and for `.exitm` the flag goes down with the text it leaves. Both have a
  hypothesis on the run, because the code has cases where the flag is not looked
  at, which are among the cases above: `EndsOutsideRepeats` (END stands in no
  repeat, and in the last input) and `ExitsAnExpansion` (`.exitm` is obeyed only
  where a macro or a repeat is being read). `ExitmLeavesOne` discharges the second
  for every program in which no statement is rewritten, that is for all dialects
  but CC-RX's: there `macro_depth` above zero means that there is an expansion.
  `ConditionalsFollowNesting` says what the walk is for: a statement is read as
  live exactly where its text and every text on the way to it say so. Its
  invariant is `StackFollows`, about all flags and all texts being read
  (`NestingProofs`); each statement reads on at a place whose conditionals the
  flags follow (`GoesOn`), or makes its text wait for another one
  (`ReadsAnother`), and a return cuts the flags to where the text began. Two
  hypotheses are those the code needs. `ConditionalsAreLookedAt`: a false branch
  looks at `.if`, `.elseif`, `.else` and `.endif` only, and with `.ifb` in one the
  property is false, which the run `blank` shows. And `CondsFollowNesting` itself
  excepts walks that reported `define depth`, the case listed above: a rewritten
  statement keeps its conditionals for the text it stands in, which is right
  only where both end together (`RewrittenStops`).
  `BlocksFollowTheirNesting` has no hypothesis: no block is reported unterminated,
  no `.endm` or `.endr` stray and no `.endif` without a conditional, unless some
  text is not bracketed or uses what a false branch overlooks. Read blocks are
  captured to their own end (`BlockIsClosed`), though only statements of their own
  kind are counted. The hard part is a block in a false branch: it is walked over
  statement by statement, the conditionals in it push and pop flags of their own,
  and nothing but a flag keeps its `.endm` from being assembled. So the invariant
  (`Closing`) says of each block the place is inside that some flag is down below
  those of the conditionals in the block (`HasFlags`), of each open conditional
  that there is a flag for it, and that a flag is only up if those around it are
  (`OutersActive`). Flags left by a rewritten statement only add to the stack,
  which harms none of this (`MoreFlags`), so `define depth` is no exception here.
* `NestingProofs` is about texts, and about no walk. `Nesting` looks at a text as
  a whole, by counting; the lemmas say how what it finds changes from one
  statement to the next (`EnclosingNext`, `ArmsNext`), and that flags which fit
  before a statement fit after it if they are set as a conditional directive has
  to set them (`OpeningFollows`, `ArmFollows`, `EndifFollows`). What steps over a
  block, reads its body or copies of it comes back to the same arms
  (`BlockKeepsNesting`, `BodyNests`, `CopiesNest`). That made `NestsWell` say
  more than that conditionals close in their text and their blocks: it also asks
  that the blocks inside a block end inside it (`HoldsBlocks`), because where a
  macro and a repeat cross, the body taken from one has the other's end in it.
  `StackFollows` joins the texts: each has a stretch of the flags, from where it
  was entered to where the next one was, that follows its own conditionals, and
  all but the innermost wait at a statement about none. It is kept when the
  innermost reads on (`StackAdvances`), waits (`StackGrows`) or returns
  (`StackReturns`), and it makes the last flag the conjunction of what all texts
  say (`StackIsLive`).
  The second half is about brackets. Where every bracket is closed by its own
  closer with nothing open inside, the counts of each kind are in balance on their
  own (`BracketsBalance`), which is what lets the code count one kind and ignore
  the rest; a captured body and its copies are bracketed again (`BodyIsBracketed`,
  `CopiesAreBracketed`); and `FlagsNext` and the lemmas on `StackHasFlags` say how
  the flags a walk must have change with a statement, a block and a return.
* `AssemblyProofs`. What a statement does to a section is a few things one after
  the other: marks and alignments that leave its items alone, an item pushed or
  merged, the mark of a backend. One lemma for each says that it keeps fragments
  to the backends that emitted them (`Kept`) and adds to the end of the items
  without moving what was there (`Emitted`). `IInv` is the conjunction of three parts:
  `SectionsKept` (types, and that an open fragment, the only one that can grow,
  is the active backend's), `LiteralsAreWritten` itself, and `LabelsFixed` (no
  item can be merged across the fragment boundary a bound label points to).
  `EveryFragmentHasOneBackend` and `EveryLiteralIsWritten` follow.
  `FragmentsImplementStreams` is the refinement: initial states map to initial
  states, and every step appends to the streams, or binds a label at the end of
  one, or stutters. A pending label is the hard case: its fragment is known only
  when something is emitted after it, and alignments may come in between.
  `EveryByteIsMarked` is about the mapping symbols of the output, and its argument
  has two halves. While the source is read every section is `Tracked`: events
  come in the order of the fragments, the last one up to an item's fragment says
  what the item is, and no-op padding has an event for its odd bytes, which is the
  last one before it and follows one that says the same of the rest. When it has
  been read, the recursive functions the symbols are computed by are unfolded, the
  offsets of items and fragments (`OffsetsOfItems`) and the symbols of the events
  (`PlacedShow`): the last symbol up to a byte says what that event does, and
  dropping the ones that say nothing leaves it there (`LastIsShown`).
  `DataAtStartIsMarked` is about what `EveryByteIsMarked` must leave out, data that
  nothing marks when it is emitted: what a section starts with waits until code
  follows. Its invariant (`Begun`) is that as soon as such a section has an event,
  the first one marks its start as data and every other is about a later fragment
  (`FirstIsData`), so that none is placed at the same offset. `Fine` adds
  what the next statement needs: nothing is marked in a section without fragments, a
  pool waits only where something has been marked, and `.bss` never starts with a byte. The
  theorem has the property's own hypothesis, a source without the statements that mark
  themselves.
* `SymbolsProofs`. `SizesEnd`: the symbols that names take their sizes from form
  no circle. The loop in the code has a limit "so nothing can spin"; the theorem
  says it needs none beyond the number of symbols. That no circle is there is
  not inductive: `IInv` adds that a symbol nobody has defined takes its size
  from nothing (`Good`), so that a new link, which leads to an undefined symbol,
  ends there (`Linked`). The other lemmas say that mentioning, labelling and
  binding change no link.
  `LocalsFindTheirPlace` and `OnlyMissingLocalsAreReported`: the code resolves
  `1b` and `1f` by counting, the property by the order of the text. `PlacesInv`
  ties the two: the slots of a number that are defined are its labels in
  text order, each at the bytes emitted before its statement (`SlotsKept`), the
  slot after them exists only if somebody awaits it, and whatever an emitted
  expression, a definition or an error refers to was resolved against the labels
  before its statement (`UsesResolved`, `DefinitionsResolved`, `ErrorsKept`).
  `ReadNumbersStay`: what was a number when it was read stays it. The invariant
  (`NumbersInv`) is about what is written and not about values: such a use or
  definition consists of numbers, and these come to the same in every table and
  every evaluator (`WrittenNumbers`). That it is written so rests on three lemmas:
  values are what the operators make of numbers and symbols, for every depth that
  definitions are followed to (`SymbolsAreValues`, an induction over that depth);
  only a name that stands for an expression can be a number
  (`NumbersAreDefined`), so where values are bound none is left
  (`NoNumberIsLeft`); and replacing names by their numbers changes no number
  (`BoundIsTheSame`), so that it does not matter that data is evaluated before
  and remembered after.
* The last part of `SymbolsProofs` is about the slots of one pool (`LiteralSlots`).
  `SlotsExist` and `WideLoadsAreAligned`: the invariant `PoolInv` is the
  two properties with the element types of the two sequences; one lemma says
  where a search ends (`EntryStops`), one what any new use preserves
  (`UseKeepsInv`), and one per action that it is such a use.
  `LoadsReadTheirValue`: the literal of each load that was given a slot is written
  whole from what that slot emits on (`WrittenFor`), and read there unless a slot
  before it emits eight bytes. `WholeInv` adds that each slot is a word of its
  own or half of a literal that is there as a whole (`SlotsAreWhole`), and that
  each served load's slots hold its literal (`UsesHold`): later loads share, take
  padding over and append, and what was written from a slot on stays, though it
  may move. Where that is in the pool is an induction over the slots
  (`SlotAddsToWords`, `WordsStayInPlace`). It assumes that no half of a literal is zero
  (`HalvesAreNonzero`): without it a literal may share a slot with padding that is
  taken over later, the case listed above, and the property is false.
* `PreprocessorProofs`. The bound on nesting, and what exits leave, follow from
  one inductive invariant, `IInv`. Two parts of it carry the argument. The
  counters follow the texts (`CountersFollowTexts`, a theorem of its own,
  `CountersFollow`): `reps`, `depth` and `include_depth` are the numbers of
  repeats, of expansions and repeats, and of files on the stack, and each
  expansion remembers how many repeats are outside it. That is why asking
  `%exitrep` for more repeats than the floor finds one inside the innermost
  expansion: without it `ExitsFindTheirTargets` is not inductive. And while an
  exit unwinds the innermost text has stopped (`LeavingOK`), so nothing is read
  and each step is a return, until what is left returns itself. `ExitsLeaveTheirOwnTexts` is the action property;
  `NestingIsBounded` adds the guards. That `stack` shortens to the target and not
  beyond needs a lemma on counting the kinds of texts up to a depth
  (cardinalities of ranges one longer or shorter).
  `LinesFollowTheirNesting` is the theorem on conditionals for this walker, over
  the same lemmas. Each of its six states stands for flags of a conditional
  (`FlagsOf`), `Never` and `Done` for one in which no arm may be taken any more;
  that an arm is `IfFalse` only where what is around it is assembled is what
  makes `%elif` and `%else` right to ask nothing of the states below
  (`WhatArmsFind`). Conditionals are carried out wherever they stand and every
  return cuts back, so it has no hypothesis but the property's own, that every
  text nests.
* `LineRowsProofs`. `RowsStayOrdered`: rows of a section are in one sequence, in
  which they never go back, which is what lets a line program advance only. Rows
  are recorded in the order of the source while the source goes from section to
  section and back, and GNU as drops some of them in the middle of it. The
  invariant has a part for each. A section's rows are in the sequence its index
  says, and in no other (`IndexIsRight`). Where the next fragment of a section will
  be there is no row yet but at its very start (`NextsAreLast`), which stays so
  because code only grows (`GrowthKeepsNexts`); a row at the end of an instruction
  less some bytes, which RX has, is in a fragment of its own that no linker
  shortens (`RowsFit`), so that nothing comes between. And while rows are made for
  the source itself there are no others (`IsGenerating`), so that a numbered
  `.file` takes out every row or, as llvm-mc does, moves none
  (`StopGeneratingKeeps`); the index is then rebuilt for what is left. That what
  is picked from a sequence at no position is nothing is an induction over it
  (`PickedNowhere`).
  `TableIsReadBack` is on top of it, and about every table of versions 2 to 5,
  every minimum instruction length, and whatever bytes a linker takes out of the
  fragments that move. The writer and the consumer are two folds over the same
  opcodes, and the argument is a simulation: after every row the file, line,
  column and other registers of the consumer are what the writer remembers
  (`Agree`), the row was added as it was recorded, up to its view (`IsSeen`), and
  the consumer is at the address the position has in the linked code, which need
  not be where the writer thinks it is (`ReadsRows`, kept by `ReadsOneRowMore`).
  A row is carried over in two steps: what it changes besides line and address,
  with the discriminator and flags a row uses up (`RowStateReads`), and the
  advance in each of its forms (`RowAdvanceReads`): a new address, a special
  opcode alone, after `DW_LNS_const_add_pc` or after a change of line, an advance
  of its own, or a field. In the special forms the line and the address are
  computed back from one number (`SpecialReads`), which is where the limits of
  special opcodes have to be right, and the address only where nothing between
  the two rows moves, so that their distance is the same after linking
  (`OffsetsApart`, `RowsApart`). That rows do not go back is what makes the
  writer's saturating distance the distance. Its hypotheses are those of the
  property: addresses at whole instructions, opcodes the version has, and an end
  within reach of 16 bits where the last advance is a field.
  `ViewsAreReadBack` follows the view register through the same steps: it starts
  again exactly where `assign_views` does, under the same hypotheses but the last,
  and as long as the linker takes nothing away. Views are GNU as's alone.
* `CallFramesProofs`. `FramesStayApart`: frames do not overlap, because at any
  time only the last one is open, and those before it are closed, in order, and
  end where code has come to. It rests on code never getting shorter while it is
  read. `FramesShareTheirCies`: the CIE a frame refers to is one for frames like
  it, by induction over the frames of a table. GNU as looks for a CIE by what it
  is for, so all its pointers are the frame's own. llvm-mc looks by a key, so what the CIEs so far keep under a key has to
  be what every frame with that key has in common (`Keeps`), and a key has to say
  all of it (`KeySaysAll`); that what is sorted by key are the frames themselves
  is a counting argument (`EveryPlaceIsTaken`).

Only model-checked: that held and guarded fragments reach as well, the values of
uses of labels (`UsesAreComputed`) and the sizes aliases inherit (`AliasSizes`),
that the rows of the line table are the ones the source asks for
(`RowsFollowSource`), and what the consumers of both frame tables read
(`FramesReadBack`). The two of symbols hold only where the bounds on depth and hops are large enough for
the source, which their theorems would have to assume. None of these is out of
reach in principle: frames could follow `TableIsReadBack`, with two writers instead
of one and an opcode per directive. Such programs are recursive functions or folds,
and theorems about one need that the function exists and an induction over it,
which the prover has only for a set and not for an operator: `AssemblyProofs`,
`NestingProofs` and `LineRowsProofs` show the form (a set that holds 0 and every
successor is all, `InductionBySets`).
Liveness, which this prover does not reach, stays with TLC for good.

## Not modelled

`PROJECT.json` lists every component with the reason. In short:

* Text processing (lexer, parser, macro substitution, NASM's single-line macros),
  serialisation (object writers, relocations, linking, the headers and file lists
  of DWARF tables) and instruction encoding are functions of their input without
  state between statements, and the repository tests them against the reference
  assemblers byte by byte. They are by far most of its lines: tables and encoders
  of sixteen backends, of which the models use only the answers that steer the
  core.
* Of the walker: substitution into bodies, locals of macros, `.altmacro`. Of the
  NASM preprocessor: parameters and their rotation, greedy and default
  parameters, a label in front of a call, the names of contexts and the
  conditions that ask for them. Conditions and counts are inputs instead, so that
  every value of each is tried.
* Of pools: several widths in one pool, literals that name symbols, and the
  requests only the ARM backend makes (masks of IT blocks, build attributes).
* Of sections: attributes, COMDAT groups and subsections.
* Of DWARF: `.debug_info` for the source, compact unwind tables, and MSP430,
  whose rows and frames differ in the width of addresses only; a personality
  routine whose expression has no value where frames are written, and the bytes of
  a pointer: of a data area only its encoding is kept.
* Of fixups: fields that take no symbol at all (`without_symbol`).
* Of running time: without a limit on errors a macro that calls itself twice is
  expanded two to the 64 times before the limit on depth has stopped all of it;
  `WalkEnds` and `WalkReturns` say that walks end, not when.

## Plan

Written so far, in this order: layout, its promise and proofs, and that what
settles is a fixed point; the walker and
its proofs; sections, labels, mapping symbols and pools; literal slots and
their proofs; the symbol table and its proofs; the NASM preprocessor and its
proofs; line tables, call frames and their proofs. Still worth doing:

1. `ByWidth` pools of several widths, IT masks and marks in `Assembly`.
2. Proofs, in order of what they would say: that frames are read back, by the
   argument of `TableIsReadBack` and for both writers; `AliasSizes`, on top of
   `PlacesInv` and for chains the bounds allow.
3. The parameters of NASM macros, whose rotation and greedy last one depend on
   the number a call gives.
