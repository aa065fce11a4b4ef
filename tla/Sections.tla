------------------------------ MODULE Sections ------------------------------
(***************************************************************************)
(* The section table of the assembler (src/assemble.rs, struct Assembler)  *)
(* and what each directive does to it, once for the pass that measures     *)
(* and once for the pass that emits.                                       *)
(*                                                                         *)
(* A layout is a record [section, sections]: the index of the current      *)
(* section and the table.  An entry of the table is                        *)
(*   name, kind   the identity and the class of the section                *)
(*   size         the field size, that the pass advances                   *)
(*   align        align_pow2, the largest alignment asked for              *)
(*   len          the number of bytes in data                              *)
(* Bytes themselves are left out: what the two passes must agree on is     *)
(* how many there are.  The pairs of operators below are kept apart, as    *)
(* they are in the code: agreement of the two passes is a theorem about    *)
(* them (Assembler_proofs), not a shared definition.                       *)
(***************************************************************************)
EXTENDS Integers, Sequences, FiniteSets

CONSTANTS
    SectionNames, \* identities of sections
    MaxSize,      \* the largest u64
    MaxSpace      \* the limit on one .space or .fill: 64 MB

MaxPower == 30    \* the largest alignment power the assembler accepts

BuiltIn == {"__text", "__compact_unwind", "__eh_frame", ".text", ".data", ".bss"}

ASSUME NamesAssumption == BuiltIn \subseteq SectionNames

ASSUME LimitsAssumption == /\ MaxSize \in Nat \ {0}
                           /\ MaxSpace \in 0 .. MaxSize

ASSUME PowersAssumption == \A p \in 0 .. MaxPower : 2^p \in Nat \ {0}

Kinds == {"text", "data", "zerofill"}

Section == [name : SectionNames, kind : Kinds, size : Nat, align : 0 .. MaxPower,
            len : Nat]

NewSection(name, kind) ==
    [name |-> name, kind |-> kind, size |-> 0, align |-> 0, len |-> 0]

Layouts == { l \in [section : Nat, sections : Seq(Section)] :
                 l.section \in 1 .. Len(l.sections) }

Current(layout) == layout.sections[layout.section]

-----------------------------------------------------------------------------
(* checked_align_value: the next multiple of 2^power, unless adding the   *)
(* mask overflows.                                                         *)
CanAlign(value, power) == value + (2^power - 1) <= MaxSize

AlignUp(value, power) == 2^power * ((value + (2^power - 1)) \div 2^power)

-----------------------------------------------------------------------------
(* The measuring pass, on one section: collect_directive_layout.           *)

CanGrow(section, bytes) == section.size + bytes <= MaxSize

Grow(section, bytes) == [section EXCEPT !.size = @ + bytes]

\* reserve_initialized_bytes
CanReserve(section, bytes) ==
    /\ section.kind # "zerofill"
    /\ CanGrow(section, bytes)

\* .fill repeat, size: at most eight bytes per element
FillBytes(repeat, width) == repeat * (IF width < 8 THEN width ELSE 8)

Raise(section, power) ==
    [section EXCEPT !.align = IF @ < power THEN power ELSE @]

\* collect_alignment: the alignment is recorded even when max_skip says
\* that the padding is too long to be written.
CanReserveAlign(section, power) ==
    /\ power <= MaxPower
    /\ CanAlign(section.size, power)

ReserveAlign(section, power, skip) ==
    LET aligned == AlignUp(section.size, power)
        raised  == Raise(section, power)
    IN  IF aligned - section.size > skip THEN raised
        ELSE [raised EXCEPT !.size = aligned]

\* reserve_zerofill: align, place the symbol, then add the size
CanZerofill(section, power, bytes) ==
    /\ power <= MaxPower
    /\ section.kind = "zerofill"
    /\ CanAlign(section.size, power)
    /\ AlignUp(section.size, power) + bytes <= MaxSize

ReserveZerofill(section, power, bytes) ==
    LET placed == [Raise(section, power) EXCEPT !.size = AlignUp(@, power)]
    IN  Grow(placed, bytes)

-----------------------------------------------------------------------------
(* The emitting pass, on one section: process_directive.                   *)

\* emit_initialized_bytes
Emit(section, bytes) == [Grow(section, bytes) EXCEPT !.len = @ + bytes]

\* Mutant: bytes are written to zero-fill sections, too.
EmitSpaceBytes(section, bytes) == Emit(section, bytes)

\* emit_space: a zero-fill section grows without bytes
EmitSpace(section, bytes) ==
    IF section.kind = "zerofill" THEN Grow(section, bytes) ELSE Emit(section, bytes)

CanEmitFill(section, bytes) ==
    /\ bytes <= MaxSpace
    /\ CanReserve(section, bytes)

\* emit_alignment_padding: in code, zeros up to a multiple of four, then
\* NOPs, then the odd bytes that are left.
EmitPadding(section, padding, fill) ==
    IF section.kind = "text" /\ ~fill
    THEN LET toWord == (4 - (section.size % 4)) % 4
             zeros  == IF toWord < padding THEN toWord ELSE padding
             rest   == padding - zeros
             nops   == Emit(EmitSpace(section, zeros), 4 * (rest \div 4))
         IN  EmitSpace(nops, rest % 4)
    ELSE EmitSpace(section, padding)

\* Mutant: the padding is written even when it is longer than max_skip.
EmitAlignAlways(section, power, fill, skip) ==
    EmitPadding(Raise(section, power), AlignUp(section.size, power) - section.size, fill)

\* emit_alignment
EmitAlign(section, power, fill, skip) ==
    LET padding == AlignUp(section.size, power) - section.size
        raised  == Raise(section, power)
    IN  IF padding > skip THEN raised ELSE EmitPadding(raised, padding, fill)

\* emit_zerofill
EmitZerofill(section, power, bytes) ==
    Grow([Raise(section, power) EXCEPT !.size = AlignUp(@, power)], bytes)

-----------------------------------------------------------------------------
(* The table.  Sections are found by name; the first use of a name         *)
(* creates the section, and a later one keeps the kind it was given.       *)

Has(table, name) == \E i \in 1 .. Len(table) : table[i].name = name

\* No two sections have one name, so the first match is the only one.
IndexOf(table, name) == CHOOSE i \in 1 .. Len(table) : table[i].name = name

\* ensure_section, and the search in switch_to_elf_section
Ensure(table, name, kind) ==
    IF Has(table, name) THEN table ELSE Append(table, NewSection(name, kind))

Replace(layout, i, section) ==
    [layout EXCEPT !.sections = [@ EXCEPT ![i] = section]]

ReplaceCurrent(layout, section) == Replace(layout, layout.section, section)

\* switch_to, switch_to_elf_section
Switch(layout, name, kind) ==
    LET table == Ensure(layout.sections, name, kind)
    IN  [section |-> IndexOf(table, name), sections |-> table]

\* .zerofill: the section it names is created, but not made current
Open(layout, name, kind) ==
    [layout EXCEPT !.sections = Ensure(@, name, kind)]

\* Mutant: the content goes, and the size stays.
TruncateData(table, count) == [i \in 1 .. count |-> [table[i] EXCEPT !.len = 0]]

\* reset_for_emission: the unwind sections go, the others keep their
\* identity and alignment and lose their content.
Truncate(table, count) ==
    [i \in 1 .. count |-> [table[i] EXCEPT !.size = 0, !.len = 0]]

-----------------------------------------------------------------------------
(* What the check between the passes compares, and section addresses.      *)

Fingerprints(table) ==
    [i \in 1 .. Len(table) |-> [name  |-> table[i].name,
                                kind  |-> table[i].kind,
                                align |-> table[i].align,
                                size  |-> table[i].size]]

\* Mutant: sections are placed in the order of the table.
TableOrder(prints) == [i \in 1 .. Len(prints) |-> i]

\* section_allocation_order: a stable sort, zero-fill sections last.  A
\* section has the place that those before it leave.
Precedes(prints, i, j) ==
    LET last(k) == prints[k].kind = "zerofill"
    IN  IF last(i) = last(j) THEN i < j ELSE last(j)

PlaceInOrder(prints, i) == 1 + Cardinality({ j \in 1 .. Len(prints) : Precedes(prints, j, i) })

AllocationOrder(prints) ==
    [k \in 1 .. Len(prints) |-> CHOOSE i \in 1 .. Len(prints) : PlaceInOrder(prints, i) = k]

\* section_base_addresses_for: Ends[k] is the address after the first k
\* sections of the order
Ends(prints) ==
    LET order == AllocationOrder(prints)
        End[k \in 0 .. Len(prints)] ==
            IF k = 0 THEN 0
            ELSE AlignUp(End[k - 1], prints[order[k]].align) + prints[order[k]].size
    IN  End

CanPlace(prints) ==
    LET order == AllocationOrder(prints)
        end   == Ends(prints)
    IN  \A k \in 1 .. Len(prints) :
            /\ CanAlign(end[k - 1], prints[order[k]].align)
            /\ end[k] <= MaxSize

Bases(prints) ==
    LET order == AllocationOrder(prints)
        end   == Ends(prints)
    IN  [i \in 1 .. Len(prints) |->
            LET k == CHOOSE k \in 1 .. Len(prints) : order[k] = i
            IN  AlignUp(end[k - 1], prints[i].align)]

-----------------------------------------------------------------------------
(* Unwind sections: reserved after the first pass, written at the end.     *)
(* There is a row in __compact_unwind for every function, and one in       *)
(* __eh_frame for those that need DWARF; of the latter only the sum        *)
(* matters here: frames has their count and the bytes of all their         *)
(* instructions.                                                           *)

UnwindAlign    == 3
CompactRowSize == 32    \* COMPACT_UNWIND_ENTRY_SIZE
CieSize        == 20    \* EH_FRAME_CIE_SIZE
FdeFixedSize   == 25    \* EH_FRAME_FDE_FIXED_SIZE

UnwindSection(name, size, len) ==
    [name |-> name, kind |-> "data", size |-> size, align |-> UnwindAlign, len |-> len]

OneIf(test, section) == IF test THEN <<section>> ELSE <<>>

\* unwind_layout_sections
ReservedUnwind(rows, frames) ==
    LET compact == CompactRowSize * rows
        dwarf   == CieSize + FdeFixedSize * frames.count + frames.bytes
    IN  OneIf(rows # 0, UnwindSection("__compact_unwind", compact, 0))
          \o OneIf(frames.count # 0, UnwindSection("__eh_frame", dwarf, 0))

\* materialize_compact_unwind_section: address, length, encoding and two
\* pointers per row; materialize_eh_frame_section: the CIE, then for each
\* row its length, CIE pointer, address, range, an empty augmentation and
\* the instructions.
WrittenRow == 8 + 4 + 4 + 8 + 8
WrittenFdeBare == 4 + (4 + 8 + 8)    \* mutant: without the augmentation
WrittenFde == 4 + (4 + 8 + 8 + 1)

WrittenUnwind(rows, frames) ==
    LET compact == WrittenRow * rows
        dwarf   == CieSize + WrittenFde * frames.count + frames.bytes
    IN  OneIf(rows # 0, UnwindSection("__compact_unwind", compact, compact))
          \o OneIf(frames.count # 0, UnwindSection("__eh_frame", dwarf, dwarf))

=============================================================================
