# A TLA+ model of afs-as

afs-as is a stand-alone assembler. It reads one source of ARM64 or x86_64
assembly text and writes one relocatable object: Mach-O or ELF for ARM64, ELF
for x86_64. This directory holds TLA+ modules translated from its source, the
TLC models that check them on small instances, and proofs of theorems about
them that TLAPS checks.

The program is sequential and keeps nothing between runs. What is hard about it
is not concurrency: it is that every number in an object is computed *twice or
more, at different times, by different code*. Offsets are measured by one walk
over the source and used by another; a symbol has a value before its
definition, another after it, and a last one at the end; an addend goes into
the instruction, into a relocation, or into an extra relocation, depending on
the format and on where the target lies; a range is tested by the parser and
again by the encoder; a frame is told once and written in two encodings; a
constant is taken while parsing and computed again when all labels are known.
When two of these disagree there is
rarely an error message: the object is merely wrong. Tests compare objects with
those of another assembler, source by source. The model compares the walks with
each other, and the object with what the source means, for *every* source of a
bounded size, and for some of it for every source.

## 1. Inventory

| component | source | state it keeps | operations |
|---|---|---|---|
| lexer | `src/lex.rs` | position | `tokenize` |
| statement parser | `src/parse.rs` | position, previewed `.set` values, numeric label counts | `parse_program`, one function per directive and instruction family |
| expressions | `src/expr.rs` | none | `linearize`, `classify_with_lookup`, `eval_with_symbols` |
| `.set` resolver | `src/expr.rs` | dependencies, an explicit stack, a state per assignment | `resolve_all`, `resolve_assignment` |
| arm64 assembler | `src/assemble.rs` | `struct Assembler`: section table, labels, commons, attributes, assignments, CFI procedure and rows, fixups, pending relocations | `collect_layout`, `prepare_*`, `reset_for_emission`, `process`, `resolve_fixups`, `finish`, `finish_elf` |
| instruction encoder | `src/encode.rs`, `src/reg.rs` | none | `Inst::encode`, one row of fields for each of 496 variants |
| Mach-O writer | `src/macho.rs` | none | `write_macho` |
| ELF writer, reader, checks | `src/elf.rs` | none | `write`, `read`, `validate` |
| x86_64 assembler | `src/x86/assemble.rs` | item streams per subsection, sizes of branches, label offsets | pass 1, `merge_subsections`, relaxation, materialisation, symbols |
| x86_64 parser and encoder | `src/x86/parse.rs`, `encode.rs`, `reg.rs` | none | |
| command line | `src/main.rs`, `src/lib.rs` | none | options, `assemble_cli` |

**How they interact.** There are only calls. `main` reads the source, calls
`assemble_source_bytes`, `assemble_source_bytes_elf` or the x86 entry, and
writes what it returns. These call the parser for a list of statements and then
run the assembler over the list, in phases, each of which reads what the
previous ones left in `struct Assembler`:

    collect_layout -> prepare_unwind_layout -> prepare_expression_state
      -> reset_for_emission -> process -> resolve_fixups -> finish | finish_elf

`prepare_expression_state` calls the `.set` resolver with the labels of the
first pass; `process` and `resolve_fixups` call `classify_expr` with the labels
of the first pass and the absolute symbols *of the moment*.

**What makes each component correct**, and where it is hard:

- *Sections and passes*: both passes meet every statement at the same place;
  `size` and `data` stay together; sections and unwind rows do not overlap.
- *Expressions*: the classified form means what the expression means whatever
  the linker does; nothing representable is refused.
- *`.set` resolver*: the result does not depend on the order of the search;
  cycles end, with the blame on the cycle; the search itself ends.
- *Parsing and encoding of instructions*: what the parser accepts the encoder
  can hold; each operand arrives in its field, is no other's, and means to the
  processor what the statement says: constants, conditions, register 31, targets.
- *Preview*: a constant taken while parsing is the value the assembler finds
  with the labels; numeric references name the nearest definition on their side.
- *Symbols, fixups, relocations*: the linked value of every operand and datum
  is the value of its expression in the source; preemptible symbols stay so.
- *Unwind*: rows cover what the procedures cover; the compact encoding and the
  DWARF row restore the same registers.
- *Object construction*: symbols are in their groups and relocation indices
  follow their order; ELF mapping symbols tell code from data.
- *Writers*: offsets, sizes and alignments of the file agree with its headers.
- *x86_64*: relaxation ends, every short branch reaches, the offsets of all
  walks agree, merged subsections keep their labels.
- *Command line*: a failed assembly leaves the old output alone.

The hazards, each at its line with the properties that watch it, are in
`PROJECT.json`.

## 2. Modules

    Sections          the section table; measuring and emitting, one operator each
      Layout          the two passes over a list of statements (state machine)
        MCLayout      its TLC model
    Expressions       linearize, anchors, classify_with_lookup (operators)
      Expressions_proofs     lemmas about them, sums and lists; theorems about outcomes
      Classification  classification against meaning; MCClassification
        Classification_proofs   theorems about Classification
      Assignments     .set assignments, their dependencies and outcomes (operators)
        SetResolver   the explicit-stack search (state machine); MCSetResolver
          SetResolver_proofs theorems about SetResolver
    Assembler         Layout joined with symbols, fixups and relocations,
                      over Expressions and Assignments; MCAssembler
      Assembler_proofs       theorems about Layout, then about Assembler
      Objects         Assembler joined with the order of names, mapping symbols,
                      the finished object and the writers; MCObjects
        Objects_proofs       theorems about Objects
      Preview         constants and numeric labels during the parse, against
                      the resolver (state machine); MCPreview
    CfiUnwind         .cfi directives, compact rows and the bytes of __eh_frame,
                      read by an unwinder (state machine); MCCfiUnwind
    Words             bit fields of machine words
    Instructions      the variants of Inst and the types of their operands
    LogicalImmediates the bitmask immediates, searched by parser and encoder
      Encoding        a row of fields for every variant; assertions; encode
    Operands          operands of a statement, what is asked of one
      IntegerParser, MemoryParser, VectorParser
                      one operator for each parse_* function
        InstructionParser  from a mnemonic to the function
    Architecture      what a processor and a linker make of a word (external)
      ArmStatements   one statement parsed, encoded, resolved or relocated and
                      linked, over the eight above (state machine); MCArmStatements
    X86Relax          relaxation and emission of one x86_64 section (state machine)
      X86Relax_proofs theorems about X86Relax, checked by TLAPS
      MCX86Relax      its TLC model
      X86Assembler    the whole x86_64 assembler, every section laid out by
                      X86Relax; MCX86Assembler
        X86Assembler_proofs  theorem about X86Assembler
    Lists             selections from a list, stable sorting (operators)
    BasicLemmas       induction as a least element, maxima, counting, selections,
                      sorted and flattened lists; no code

`Sections`, `Expressions`, `Assignments`, and the modules from `Words` to
`InstructionParser`, are libraries of operators translated
from functions without state. `Layout` and `SetResolver` are state machines with
one action per handler. `Assembler` composes: each of its actions is an action
of `Layout` conjoined with what the same code
does to labels, assignments, fixups and relocations; only the actions that
resolve one fixup are its own. It EXTENDS `Layout`, whose specification is named
`LayoutSpec` for that reason, and has its variables as they are, so that the
theorems about `Layout` can be cited: tlapm takes no theorem through an `INSTANCE`. `Objects` joins every action of `Assembler` with
what the same code notes of names and marks, makes the object in the step in which
`Assembler` finishes, and adds one step, `Write`, for the writers. `X86Assembler` composes in the same way with
`Relax == INSTANCE X86Relax`: the loops over the items of a section are the
actions of `X86Relax`, joined with what emission does to relocations, labels
and `.size` positions.

### Layout: state and actions

| variable | field of `struct Assembler` or the like |
|---|---|
| `format`, `prog` | `format`; the parsed statements |
| `phase`, `pc` | which call of `assemble_located_stmts` runs, and at which statement |
| `layout` | `section` and `sections` (name, kind, `size`, `align_pow2`, length of `data`) |
| `sourceCount` | `source_section_count` |
| `proc`, `rows`, `frames` | `active_cfi_proc`, `compact_unwind_rows`, `eh_frame_rows` |
| `expected`, `bases` | `expected_section_layout`, `section_bases` |
| `trail` | history variable: the layout before each statement of the first pass |

`Collect*` are the arms of `collect_directive_layout`, `Emit*` those of
`process_directive`. The arithmetic of the two is written separately in the
program (`collect_alignment` and `emit_alignment`, `reserve_zerofill` and
`emit_zerofill`, `unwind_layout_sections` and `materialize_*`), and therefore
in the model: that they agree is the theorem, not a definition. `Fail` stands for the errors of
a phase that depend on what is not modelled (the size of a value, a missing
label); errors that are modelled are guards, and leave only `Fail`.

An instruction, `.byte`, `.word`, a string are `bytes` with a length. `.quad`
and an instruction with an operand to be fixed up are `quad` and `fixup`.
Alignment in code is modelled with its zeros and NOPs, by how many bytes each of
the three parts has. Whether a CFI frame needs a DWARF row is a choice, except
where the code rules a choice out: the registers are not kept. `CfiUnwind` keeps them.

### Expressions, Classification

An expression is the sequence of its leaves with their signs, which is all that
`linearize` takes from the tree. A term is the position of its first leaf, so
that the order in which the code collects terms, on which the choice of an
anchor depends, is that of numbers; sums go over the leaves. Integers
are exact and compared with the ranges of `i64` and `u64` where the code uses
checked operations.

### Assignments, SetResolver

`Assignments` has the dependencies (a name depends on the last assignment
before it, or else on the first one after it; a self reference to the first
assignment of a name is a cycle) and `Outcomes`, the definition of the result
by depth (a function of how long the chains are that it follows, with the error of a cycle
where they are longer), which `Assembler` uses. `SetResolver` has `dependencies`, `stack` and
`states` of the code, one action per turn of the loop in `resolve_assignment`.

### Preview

Constants that the parser needs at once (`.space x`, an immediate) come from a scan
of the tokens that resolves every `.set` before the parse, without labels.

| variable | field or variable |
|---|---|
| `previews`, `absolute_assignment_values` | what `scan_absolute_assignments` found, and its outcomes |
| `symbols`, `numeric_labels` | `absolute_symbols` and `numeric_labels` of the parser |
| `assigned`, `labels`, `offset` | what the parser delivers, and what the first pass finds in it |
| `uses`, `references` | history variables: constants that were taken, numeric references |

`Scan` and `EndScan` are the scan; `Label`, `NumericLabel`, `Set`, `Constant` and
`Branch` the turns of the loop of `parse_program` that matter here. The mutable
state that makes it hard is `symbols`: its values before the first `.set`, between two, and
of what waits for labels.

### CfiUnwind

| variable | field of `struct Assembler` |
|---|---|
| `section`, `size` | the current section, the bytes in each |
| `proc` | `active_cfi_proc`: its frame (`cfa_register`, `cfa_offset`, `saved_gp_offsets`), its events, and whether a compact row is forbidden |
| `compact`, `frames` | `compact_unwind_rows`, `eh_frame_rows` |
| `eh_frame` | the entries that `materialize_eh_frame_section` writes |
| `told`, `history` | history variables: the frame behind each directive, of this and of all procedures |

Instructions of a row are kept as bytes, and a DWARF interpreter (`Table`) and a
reader of compact rows (`RowFrame`), written from the two formats and not from the code, read them
back. They are the specification that the encoders are compared with.

### ArmStatements and its libraries

An instruction is a record of the variant's own fields. A word is the set of its
one bits, and a field the sequence of the positions that the bits of its
value go to: split fields, negative values and 64-bit immediates need
nothing more, and no integer is wider than those of TLC. `Encoding` has one row per variant (the
constant bits, the field of each operand, the scale of its offset)
and `Code` for what is computed from operands, `Asserts` for the
assertions of the encoder. In the parser modules every `parse_*` function is an operator
from operands to the *set* of its results: one, or none where it refuses.

`phase` is where the statement is; `Refuse`, `Parse`, `Emit`, `ResolveBranch`,
`ResolveLiteral`, `ResolveAdr`, `Unreachable`, `Relocate` are what the assembler does to it, `Link` what a
linker does. `panic` and `internal` are phases the
program must never be in. `Architecture` reads words from the manual's side: positions of
registers, `DecodeBitMasks`, what a bitfield move does to every bit of its destination, what a condition
number says of all sixteen states of the flags, which fields read register 31 as SP, and
what each ELF relocation changes. Nothing in it is taken from `encode.rs`, so
that the two can disagree.

The operands are the parser's: how tokens become operands, and whether a
spelling like `v0.2d` is legal, is left out.

### Assembler

| variable | field |
|---|---|
| `labels`, `commons`, `attrs`, `setNames` | `labels`, `common_symbols`, `symbol_attrs` with `elf_attrs`, `absolute_symbol_names` |
| `assigns`, `aliases`, `values`, `cursor` | `absolute_assignments`, `absolute_assignment_aliases`, `absolute_assignment_values`, `next_absolute_assignment` |
| `initial`, `final`, `absolutes` | `initial_`, `final_absolute_symbols`, `absolute_symbols` |
| `fixups`, `resolved`, `patches`, `relocs` | `fixups`, the loop of `resolve_fixups`, what `patch_section_data` wrote, `pending_relocs` and then the `relas` |
| `landed` | history variable: where the second pass met each definition |

Branch widths and the range of `ARM64_RELOC_ADDEND` are constants, so that a
small instance reaches their ends. The fixups for the halves of an address, of
itself, in the global offset table or the one of thread locals (`PageKinds`), are all resolved by
`resolve_page_fixup` in one way. `LinkedValue` compares an object as a linker sees it
with the source: `Meant` is the sum of the leaves of a fixup's expression, each
with the value its name has at that statement, `Linked` the sum of what is in place and what
the relocations at that offset contribute, for every place in `Linkings` where sections,
outside symbols and table entries may come to lie.

### Objects

| variable | field or variable |
|---|---|
| `noted` | `symbol_order`: the names, each at the place of its number |
| `mapping` | `elf_mapping`, `elf_map_state`, `elf_pending_align`, by section |
| `content` | history variable: where the second pass emitted code and data |
| `object` | the `ObjectFile`: symbols in order, relocations with symbol indices |
| `file` | what `write_macho` or `write_elf` makes of it, or that it refuses |

Whether a name is local to the assembler is asked by the code in three ways: by the prefix
`.L`, by `.L` or `L`, and by `.Ltmp$` or `L`. They are the constants `DotNames`, `LocalNames`
and `HiddenNames`. The comparator of the Mach-O symbol table is a key in two halves (`Opening`,
`Closing`) with `Forced` between them, which decides between a section temporary
and a label at one place and is no key of either. Because of it
the comparison is not an order: with three symbols, a thread-local label `t`
whose anchor comes early, its section's temporary, which `Forced` puts before it, and a
label noted between the two go round in a circle. The model therefore sorts as the
library does, by stable insertion, which holds for up to 20 symbols; for more, `sort_by` may
panic when it meets a circle. `Table` is the section table that the object gets: a Mach-O object
includes the unwind sections, which `finish` materializes before it makes symbols.

### X86Relax

| variable | variable of `assemble_x86_bytes_with_provenance` |
|---|---|
| `section` | the merged `SecBuild`: items, `labels` as item indices, which are weak, NOBITS or not |
| `stage`, `at`, `pos` | the loop that runs, its item, `pos` |
| `long`, `offsets`, `grew` | of the fixed point, by the same names |
| `itemOffsets` | `item_offsets` |
| `emitted`, `written` | where each item was written, with what displacement; `bytes.len()` |

The walks are written out in the code three times, with item sizes given in two
places and a third set of lengths in the emission (`LongLength`,
`HeadLength`); the model keeps the duplication, since that the three agree is
what is checked and proved.

### X86Assembler

| variable | variable of the code |
|---|---|
| `streams`, `current` | `streams`, `current` (0 for `usize::MAX`) |
| `info` | `syminfo` |
| `commons` | `commons`, with which of them were local when read (`local_common_names`, `global_common_names`) |
| `labelSection` | `label_section`, of streams and after `Merge` of sections |
| `secs`, `laid` | `secs`, `laid` and the sections of the object |
| `resolved`, `sizeDot` | `resolved_labels`, `size_dot` |
| `relocs`, `folded` | `Laid::relocs`; differences that became numbers |
| `symbols`, `symIndex`, `sectionSym` | `obj.symbols`, `model_sym_index`, `section_sym` |
| `bss`, `bssSize` | `local_bss`, `nobits_size` of `.bss` |
| `relas`, `patches` | `relas` of all sections; displacements patched in place |
| `phase`, `cursor` | which loop runs, and its element |

A statement that makes bytes has a size and fields that refer to symbols; which bytes they are
is left out. `.byte` to `.quad`, strings, `.space` and `.zero` are one
action (`Bytes`): they differ in the bytes, and in `.bss` only zeros pass.

## 3. Runs

All runs are exhaustive over the instance. Programs are built from fragments
(one to three statements that belong together), so that bounds are spent on
combinations and not on programs that fail at once.

| run | model | question | bounds |
|---|---|---|---|
| `layout` | `MCLayout` | do the passes agree, do sizes, rows and addresses hold? | every list of up to 4 fragments, both formats; `MaxSize` 100, `MaxSpace` 64 |
| `classification` | `MCClassification` | does classification keep the meaning? | up to 4 leaves, 3-bit signed and unsigned range, two sections |
| `set_resolver` | `MCSetResolver` | does the search compute what the definition says? | every list of up to 3 assignments to the names x and y, of expressions over them, two labels of one section and an undefined name |
| `assembler` | `MCAssembler` | does the object mean what the source says? | up to 3 of 22 fragments, both formats, branches of 2-4 bits, addends of a few units, two linkings |
| `elf_addends` | `MCAssembler` | as the comments say, are addends never lost in ELF? (no) | as above, ELF |
| `objects` | `MCObjects` | does the file have the symbols and relocations that were made, in an order that holds? | up to 3 of 18 fragments with names of every sort, both formats, six sections |
| `arm_statements` | `MCArmStatements` | does every instruction do what its statement says, and is every bad one an error message? | every mnemonic, both widths, the three kinds of register 31, constants at both sides of every bound; 18 distances, 4 offsets in a page |
| `cfi_unwind` | `MCCfiUnwind` | do compact rows and `__eh_frame` tell of the same frames as the directives? | a procedure of up to 3 of 24 pieces, up to 2 with those at a bound, 2 behind a frame record; two code sections |
| `preview` | `MCPreview` | is what the parser computes what the assembler would? | every source of up to 3 of 20 statements; three assignments around two numeric labels with every expression over them; values -8 to 7 |
| `preview_constants` | `MCPreview` | also where a `.set` looks back to a numeric label? (no) | as above |
| `x86_relax` | `MCX86Relax` | does relaxation end, with least growth and branches that reach? | every section of up to 3 items and cascades of 4 branches; displacements -8 to 7 and -24 to 15, `MaxOffset` 18 |
| `x86_assembler` | `MCX86Assembler` | is the object what the source says, when linked in any way? | 10 sets of declarations, 10 layouts, 9 uses, before or after each other, and 10 faults; 1910 sources; displacements -8 to 7 and -40 to 40 |

Why the bounds are enough. *layout*: a disagreement of the passes needs a
statement and a state of its section to show; four fragments give it a switch
away, a switch back, a statement before and one after. The limits are a few
times the largest statement, so that room runs out in some programs and in
others does not. Unbounded sizes and programs are what the theorems are for.
*classification*: three bits make every overflow reachable with literals -4 to
3; four leaves give two anchor groups with two labels each, the only case in which
the nested search of anchors has a choice in both. *set_resolver*: three
assignments have a cycle with an entry that is not in it, a redefinition
between two uses, and a chain that runs into a settled error. *assembler*: three
fragments give a definition, a use and something between them. *objects*: the order of two symbols
depends on what a third statement refers to (an anchor, a page operand), so three
fragments reach every branch of the comparator, also the circles; limits are never met, as
that is the question of `layout`. *arm_statements*: statements do not
depend on each other; of a constant only the sides of the bounds that the code
tests tell values apart, registers are numbers with different bits, and of the properties each
bit of an operand is seen by `FieldsKept`. Real widths are used
throughout. *cfi_unwind*: an advance has five forms and takes the place of the
directive before it; three pieces put a save, a restore and a new
frame in every order, and the lone ones reach each bound. *preview*: three statements have a use
before, between and behind two assignments; two numbers with two
definitions tell the nearest from any other. *x86_relax*: a
branch is 2 bytes short and 5 or 6 long, so with displacements of 4 bits the growth of one
branch puts another out of reach, and a cascade of four takes four rounds;
`MaxOffset` is passed by some sections and not by others, in the first and in later
rounds. *x86_assembler*: each source has what is
said of the names, where they are, and a reference; the faults take every
error path of the code that depends on what is modelled.

Each property has a mutant in `PROJECT.json`: a definition of the model changed
as a plausible bug would change the code, for which TLC finds the property
violated. The mutated forms are in the modules, before what they replace, and say
in a comment what bug they stand for.

**Deadlock** is checked in all runs but `classification` (which is one step
long): a state that is stuck would be a phase that neither goes on nor fails.

**Fairness** is assumed in one run, `x86_relax`: weak fairness of `Next`. One
thread runs the rounds, nothing makes it wait, and a step that can be taken is taken;
that the rounds end (`Terminates`) is then a question of what they compute.
All other specifications say that the program may stop at any point. In
`SetResolver`, the other loop that is not over a list, termination is stated as safety: `WorkGrows`
says that every step increases a bounded measure, and freedom from deadlock that there
is a step until the search is done. The other state machines only advance a cursor or `phase`.

### What the violations show

- `elf_addends`: `.quad sym+4` writes the addend in place and records a
  relocation with RELA addend 0; a branch `bl g+8` to a label of the same object that
  is preemptible or in another section drops the addend as well. The comment
  above `record_symbol_reloc` promises the RELA field. `LinkedValue`, the
  property of the passing run, excludes exactly these two
  (`AddendLost`), so the run shows that there are no others in the bound.
- `preview_constants`: the scan before the parse has counted no numeric label, so that
  a `.set` that says `2b` is an error there and left out; a later `.space x` takes the
  value of `x` from before it, and the assembler, which has the labels, gives `x` another.
  `PreviewCurrent`, in the passing run, leaves out the sources with such a `.set` (`Unseen`).

### What the properties leave out

Every exclusion is a named definition or a clause of its own, so that all else is
checked. They are where code and expectation part, and worth knowing:

- A lone label is an alias only if it is a label itself (`assemble.rs:962`): `.set a, real`
  then `.set b, a` makes `b` a number and no alias.
- `.local c` with `.comm c,8,3` makes a global common in an arm64 ELF object (3139); the x86_64 assembler
  allocates it in `.bss`, as GNU as does.
- On x86_64 an alias of an alias has type and address of the label, but the size of the
  alias between them, so 0 (`x86/assemble.rs:1233`); `SymbolsMean` leaves out these sizes.
- A `jmp` or `jcc` on x86_64 to a `.globl` label of its own section is bound to
  it (`x86/assemble.rs:666`), as GNU as does, although lines 16 and 17 say that global symbols always keep
  a relocation. `call` and weak labels keep theirs. `LinkedValue` has this as the one
  reference that the linker cannot redirect, next to differences of labels in one section.
- `and`, `orr`, `eor` and `mov` of a bitmask take `xzr` as destination (`parse.rs:3371`), and the
  word writes SP: `ZeroDestination`, left out of `RegistersMeant`.
- A GOT or TLV page offset is recorded for an `add` and for a load of four bytes in
  Mach-O objects (`assemble.rs:4115`): `GotMisread`, left out of `LinkedRight`.
- `cset x0, al` is accepted and sets 0, as AL has no inverse: `InvertedAlways`, left out of
  `ConditionsMeant`.
- A `.cfi` directive in another section than its procedure's is recorded at that section's
  offset. `EntriesMeant` compares frames only of procedures told in one section. A compact row describes the
  last frame that was told, also for the code before; `CompactMeant` says just that.
- An alias gets its number after the first pass, so it can stand on the wrong
  side of a section temporary at the same place. A `.set` of a `.L` name is
  written to the ELF symbol table, which leaves `.L` labels out; and in ELF a name with a capital
  `L`, an ordinary name there, is refused when it is undefined (`bl Lookup`).
  `SymbolsWritten` and the model follow the code in all three.
- Sources that define a name twice through `.set`, which the x86_64 assembler does not refuse (the symbol
  table then has the name twice, or a common's alignment is stored in a label's value), and names with
  two `.size` directives. Differences that do not fit their field are cut off by
  the code; the x86_64 `LinkedValue` compares modulo the width.

Met while translating, and followed by the model without a property: `dup.2d v0, w1` is read as if it said `x1`,
`mov w0, #0x100000001` is cut to 32 bits, `adr x0, x1` takes
the name of the register for a label, `mnemonic_has_apple_simd_row`
(`parse.rs:6767`) lists mnemonics that the dispatch does not know, and `.cfi_def_cfa_offset 8` in a frame of SP is
an error and not a DWARF row.

Hazards without a property, beside the one `PROJECT.json` lists: a name that is a label and an absolute
symbol is refused by `finish` for Mach-O only (`assemble.rs:3328`); a user label called `ltmp0` is left
out for the temporary of that name (849); the statement blamed for an overflow of addresses is found by
measuring prefixes again (1085). Only what is said or called differs in these.

## 4. Proofs

All theorems are of the specification with its constants left open, so for every source,
format and limit. Types and invariants of the parts are conjuncts, and each action has a lemma
of its own. What is assumed of constants is named in the module that declares
them, and TLC evaluates it in every run: names include the built-in sections, limits are ordered and
powers of two positive (`Sections`); statements are what the parser
delivers (`ProgramsAssumption`, `SymbolsAssumption`: an instruction is 4 bytes, a `.quad` 8,
leaves are those of `linearize`); the range of `i64` is one with 0 in it (`IntegersAssumption`); the
linker puts things at integers (`LinkingsAssumption`); the local names
are those with the prefixes of either format (`PrefixAssumption`), names are in the order of an alphabet, none is that of
a section temporary, of a mapping symbol or empty, and every section has a temporary (`AlphabetAssumption`), and what makes bytes has a kind (`ContentAssumption`); lists and expressions are over the
names (`ListsAssumption`, `ExpressionsAssumption`); ranges of displacements
contain 0 and items are those of the parser (`RangesAssumption`, `SectionsAssumption`), and subsections have numbers (`ProgramsAssumption` of `X86Assembler`).

| module | theorem | says |
|---|---|---|
| `Assembler_proofs` | `Invariance`, `TypeCorrect` | of `Layout`: `Spec => []Inv`, `[]TypeOK` |
| | `PassesAgree`, `NoDrift` | `[]LayoutAgrees`, `[]NoLayoutDrift` |
| | `ContentMatches`, `EmissionNeverRunsOut` | `[]ContentMatchesSize`, `[]EmissionFits` |
| | `RowsAreDisjoint`, `BasesAreDisjoint` | `[]RowsDisjoint`, `[]BasesDisjoint` |
| | `AssemblerIsLayout`, `StepsAreLayouts` | of `Assembler`: `Spec => LayoutSpec`, `LayoutSteps` |
| | `LayoutClaimsHold` | what is proved of `Layout`, of the assembler |
| | `SymbolsAreWhereTheyLand`, `SetsStayInStep` | `[]SymbolsLand`, `[]SetsInStep` |
| | `PreemptibleStays` | `[]PreemptibleKept` |
| | `LinkedAsMeant` | `[]LinkedValue` |
| `Expressions_proofs` | `OutcomesSolve` | `Outcomes` satisfies the equations of `evaluate_assignment` |
| | `CyclesAreCyclic` | a circle of assignments has the error of a cycle |
| `Classification_proofs` | `MeaningIsKept` | `[]MeaningKept` |
| | `RefusedOnlyIfIllegalHolds`, `OverflowOnlyIfForcedHolds` | `[]RefusedOnlyIfIllegal`, `[]OverflowOnlyIfForced` |
| `SetResolver_proofs` | `InvHolds`, `NothingIsUnreachable` | `[]Inv`, `[]NothingUnreachable` |
| | `ResolvedIsRight` | `[]ResolvedRight` |
| | `WorkAlwaysGrows`, `WorkIsBounded` | `[][WorkGrows]_vars`, and a bound on the work |
| `Objects_proofs` | `ObjectsAreAssembled` | `ObjectsSpec => Spec` |
| | `NamesAreWritten`, `TableIsCut` | `[]SymbolsWritten`, `[]GroupsContiguous` |
| | `RelocationsAreKept`, `WritersAccept` | `[]RelocationsKept`, `[]WriterAccepts` |
| | `ContentIsDescribed` | `[]ContentDescribed` |
| `X86Relax_proofs` | `Invariance`, `TypeCorrect` | `[]Inv`, `[]TypeOK` |
| | `WalksMeet`, `AllBranchesReach` | `[]WalksAgree`, `[]BranchesReach` |
| | `GrowthIsMonotonic`, `GrowthIsLeast` | `GrowOnly`, `[]LeastGrowth` |
| `X86Assembler_proofs` | `ItemsKeepOrder` | `[]MergeKeepsOrder` |

### Layout

None of the properties is inductive: that the second pass is at the offset the
first one had says nothing about the next statement unless it is known what
the first pass did there. `Inv` has three parts:

- `TypeOK`;
- `TrailInv`: the history of the first pass is well formed. `trail[1]` is the
  initial layout, `trail[i + 1]` comes from `trail[i]` by what measuring
  statement `i` does, and could do it; so later tables extend earlier ones, keep names
  and kinds, and only grow;
- `PhaseInv`: what each phase knows. In the second pass the table has the
  identities of the final first-pass table, cut back to the source sections, the sizes
  of `trail[pc]` (0 for sections not known yet) and lengths that match them;
  after it, everything the finish check compares is equal.

The step lemmas state that measuring and emitting one statement agree when
their sections do (`EmitPadding` in three parts against `ReserveAlign` in one is the
one with arithmetic in it), that `Ensure` and `Switch` find in a longer table what
they found in a prefix, and that written and reserved unwind sections have one size.
`NoDrift` follows from `PhaseInv` because `Finish` compares fingerprints that are equal.

Rows are apart by `RowsInv`: those there are, and a procedure that is open starts where
no row of its section reaches, which holds because sections only grow. Addresses
are apart by `BasesInv` (they are `Bases` of the table that was expected) and two lemmas: the
order of allocation is a permutation, and along it the ends grow.

### Expressions and Classification

Classification collects leaves in terms, terms in sections, sections in anchors, and each
step could lose a leaf or count it twice. `Expressions_proofs` has the one lemma for all of
these: a sum over a list is the sum over the groups of any partition of it (`TotalGrouped`), from
which `LeafSumSplits` gets the sum of leaves as constant, sections and rest. `MeaningIsKept` moves
one address, or one symbol, by one: what the sum of the leaves gains is the
coefficient of what was moved, on both sides. The other two theorems turn that around: a result with the
same meaning in every linking has the coefficients of the expression, so
the code's tests of coefficients and of anchors refuse nothing else. `ClassifyMeans` is the same for
given addresses, and what `LinkedAsMeant` rests on.

### Assignments and SetResolver

`Outcomes` is recursive over depth. A greater depth only changes what was in a cycle (`DepthRefines`), and until
nothing changes every depth settles an assignment more (`Settles`), so that a list is settled
at its length: `OutcomesSolve`. `SetResolver`'s
`Inv` says that the stack is a path of dependencies, that what is visited is on it, and that what a
frame has passed has a value; `OutcomesMeant` that what is settled is what `Outcomes` has. A cycle is on the stack
as a whole when it is found, and `CyclesAreCyclic` is what it then gets. `WorkGrows` counts, with each assignment at most
as many turns as it has dependencies, and two.

### Assembler

`AssemblerIsLayout` is the refinement: initial states map to initial states, and every step, symbols taken
away, is one of `Layout`'s or a stutter. All of `Layout`'s invariants then hold of
`Assembler`, and each of its own theorems adds one invariant that is inductive with them:

- `SetsInv`: the list of assignments is that of the `.set` statements before `pc`, and the cursor of the second
  pass at the number of those it has met (`SetsStayInStep`);
- `PlacesInv`: the labels of the first pass, and the places where the second pass has landed, are both those
  of one function of the source and the history, up to `pc` (`SymbolsAreWhereTheyLand`);
- `FixupsInv`: in ELF, fixups that are resolved against what can be preempted have a relocation
  with the symbol's name, also after `finish_elf` rewrites relocations (`PreemptibleStays`).

`LinkedAsMeant` needs all of these and three more. `StatementsInv`: a fixup has expression, place and environment of
its statement, and no two are of one statement; as a statement starts where the one before it
ended, no two fixups are at one place (`FixupsApart`). `GivenInv`: values that `prepare_expression_state` computes are
integers and aliases are of labels. `AnswersInv`: what
is written and recorded so far is at places of fixups that are resolved, and for each of these
the linker finds what its leaves come to (`Answered`), or it is one whose addend ELF loses (`AddendLost`), or
the object is one that `finish_elf` refuses (`Refused`). The last is needed because
relocations of a difference are recorded for ELF as for Mach-O, and only the end refuses them.
A step that resolves a fixup adds relocations to the list; sums over a list and what
follows it (`TotalJoin`) with `FixupsApart` show that the other fixups keep theirs
(`SharesElsewhere`), and `ClassifyMeans` that the new ones come to the expression. A branch that is resolved in place is
right for every linking because both ends are in one section. `FinishAnswers` and `FinishElfAnswers` show that neither
the rewriting of relocations to section symbols nor the joining of the lists changes
what one of them contributes.

### Objects

Every step of `Objects` is one of `Assembler`'s or leaves its variables alone (`ObjectsAreAssembled`), so the
invariants of both modules below hold here. `ObjectInv` is what a finished object knows of its making:

- its symbols are an entry for each section (ELF), then right entries (`EntriesFor`: one for each wanted name,
  in the group and the place that the name's definition says) sorted as the file wants them;
- its relocations are those recorded, section by section, and each points to the symbol it named.

`NamesAreWritten` follows from the first, `TableIsCut` from it and what sorting does. The comparator of the
Mach-O table is no order, so that sorting by it promises nothing in general. `SortedIs` is the lemma
that helps: where the comparator agrees with a key between elements whose keys differ, however it
decides between the others, the key rises along the sorted list. The group of a symbol is such a
key, and so is its rank in the alphabet among the exported ones and the undefined.

`RelocationsAreKept` needs that the sort of relocations by descending offset in Mach-O objects, and renumbering
in both, leave those of one place in their order: a SUBTRACTOR stands before its UNSIGNED, an ADDEND before the
branch or page it is for. `WritersAccept` needs one invariant more, `RelocsInv`: what was recorded comes
in pairs where it should (`Paired`), with a kind its width admits, and there is room for it in the
section. The room is that of the statement: the fixup is where it starts, and `TrailInv`, from `Layout`, says
that its bytes end before the section does. Selecting a section, sorting and renumbering keep pairs together
(`SectionPaired`, `DescendingPaired`, `NumberedPaired`).

`ContentIsDescribed` speaks of the file, while marks are made statement by statement. `ContentInv` holds from
the second pass on: the marks of each section rise and stay within its size (`MarkedUpTo`),
and of everything emitted the last mark at or before it has its kind (`Tells`). A new mark changes that for
nothing: it is made at the end of its section, which only grows (`EmissionGrows`, by the trail), or where an
alignment was armed, behind everything emitted. In the file, the symbol table has the marks behind those of
the sections (`MarksStand`), and `LocalsFirst` keeps local symbols in their order
(`FileOrdered`), so the table tells what the marks do (`TableTells`).

Proving found three places where the model said less than the code or more: Mach-O
objects had lacked the unwind sections, `PageTargets` did not tell the two halves of an address apart, and
`SymbolsWritten` had asked for `.L` names of `.set` that the file does have. They are corrected, and the
run that checks them has the fragments that tell.

### X86Relax

`BranchesReach` says something of what is written at the end, and what makes it
true happens in the last round of the fixed point, two walks earlier. `Inv` carries it: while a
round grows, every short branch already passed either reaches in `offsets`
or `grew` is set; when the loop settles, all reach; the final walk
retraces `offsets` because sizes depend on `long` and the position only; and so
does the emission, whose own lengths equal those of `SizeOf`. `LeastInv` says that the long branches
are in every set under which all others reach, because
offsets, without alignments, only grow with the set.

### X86Assembler

`MergeKeepsOrder` speaks of the merged sections, while pass 1 goes from stream to stream. `StreamsInv` is what holds
after each statement: every stream has a section and a subsection of its own, a source position belongs to the one
that its last `.section` names (`HomeIs`), and a stream holds the items of the statements that belong to it, each once
and by line, its labels between those they stood between. A statement changes one stream, at its end
(`StreamChanges`), or begins one (`StreamBegins`); the label table is needed too, because a label defined twice would
move the first one, and is refused.

`Merge` then makes `MergedInv` of it, which is what the property says, of the list of sections. Sorting
streams by subsection keeps each of them once and in order (`PartsAre`, from
`SortedIs`). In the concatenation the parts begin where those before end, so that each index comes from one
index of one part (`FlattenPlaces`, `PiecesRise`), and adding to the index of a label the lengths of the parts before its
own puts it between the same items (`PieceLabels`). This is the
re-indexing that the code does by hand, and the one step where a label could name a place in another
stream. All later steps change the order of labels and the alignment of a section, no item and no label that
the source has.

### Only model-checked

- Liveness: `Terminates` of `X86Relax`, as the prover does no `ENABLED`.
- `X86Assembler` (`SymbolsMean`, `LinkedValue`), `CfiUnwind` (two), `Preview` (two): see the plan.
- `ArmStatements` (seven): they compare one table with another, 496 variants
  at real widths, and the runs go through all of them with operands at both sides of every bound; a proof would be the same
  enumeration, as the modules have no other parameter.

Induction over data is not what the prover's theorems of that name can be used for here, as they take an operator.
It is done instead by a least counterexample (`LeastElement`): sums are a sequence of partial sums
(`Parts`), outcomes a function of depth, and a claim that fails fails first
somewhere. For functions over sequences of statements the trail and the
counts in the invariants serve.

## 5. Plan

In this order, the most important behaviour first:

1. `Sections`, `Layout`, with their theorems: done.
2. `Expressions`, `Classification`, `Assignments`, `SetResolver`: done.
3. `Assembler`, refining `Layout`: done, `.word` and symbol sizes to follow.
4. `X86Relax`, `X86Relax_proofs`, `X86Assembler`: done.
5. `Objects`, both formats, with the writers' part in symbols and relocations: done.
6. `CfiUnwind`, `Preview`: done.
7. `Words` to `InstructionParser`, `Architecture`, `ArmStatements`: done for every variant of `Inst` and every mnemonic.
8. File offsets and string tables of both writers against headers, and the ELF reader against the writer.
9. The x86_64 parser and encoder, in the manner of 7. The arguments of directives.

Theorems to come: for `Preview`, that numeric references name the nearest definition (`NumericMeant`)
and, where no `.set` looks back to a numeric label, `PreviewCurrent`, with `OutcomesSolve`; for `CfiUnwind`, that a compact
row determines its frame; for `X86Assembler`, that it lays
sections out by steps of `X86Relax`, and `SymbolsMean`; for `Encoding`, that fields that are disjoint and avoid the constant bits read back
(`ReadsBack`), for every operand.

## 6. Not modelled, and why

Text: the lexer, how tokens form operands and expressions, diagnostics and their columns, because the
properties are about statements. The arguments of directives, beyond what they do to sections, symbols and
frames. The x86_64 parser and encoder: instructions have a length there, which the relaxation takes as
given. Serialisation, type, size and
visibility of symbols, relocations of unwind rows and the choice of the symbol a row names, linker
optimization hints, build versions: straight-line. ELF objects keep no unwind rows, and the model makes none. Offsets are not cut to 32
bits, as sections of 4 GB are not reached in practice. The command line: two calls of the file
system in a row. Of the x86_64 assembler: which NOPs fill
an alignment, `.section .note.GNU-stack`, unknown section flags, and the
final `elf::validate`, which `Objects` has for the other target.
