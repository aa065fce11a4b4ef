------------------------------- MODULE Layout -------------------------------
(***************************************************************************)
(* The two passes of the arm64 assembler over one source, as far as they   *)
(* decide where bytes go (src/assemble.rs, assemble_located_stmts for      *)
(* Mach-O and assemble_source_bytes_elf for ELF):                          *)
(*                                                                         *)
(*   collect      collect_layout measures every statement                  *)
(*   unwind       prepare_unwind_layout reserves the unwind sections       *)
(*   expressions  prepare_expression_state fixes section addresses and     *)
(*                remembers the layout                                     *)
(*   reset        reset_for_emission empties the table                     *)
(*   emit         process writes every statement                           *)
(*   fixups       resolve_fixups patches what was written                  *)
(*   finish       finish writes the unwind sections and compares the       *)
(*                layout with the remembered one; finish_elf does not      *)
(*                                                                         *)
(* Everything a fixup, a symbol value or a relocation is computed from is  *)
(* an offset measured by the first pass and used by the second.  What a    *)
(* statement says about symbols is left to module Assembler.               *)
(***************************************************************************)
EXTENDS Sections

CONSTANTS
    Formats,      \* the output formats, a subset of {"macho", "elf"}
    Programs      \* sequences of statements, the sources considered

SymbolOps == {"label", "set", "comm", "global", "weak", "local",
              "subsections"}                          \* no effect on the layout
ByteOps   == {"bytes", "quad", "fixup"}      \* instructions and data
Ops       == SymbolOps \union ByteOps \union
             {"fill", "space", "align", "section", "zerofill",
              "startproc", "cfi", "endproc"}

\* What the parser delivers of a statement, as far as the layout needs it.
IsStatement(s) ==
    /\ s.op \in Ops
    /\ s.op \in ByteOps \union {"space", "zerofill", "cfi"} => s.bytes \in Nat
    /\ s.op = "fill" => s.repeat \in Nat /\ s.width \in Nat
    /\ s.op \in {"align", "zerofill"} => s.power \in Nat
    /\ s.op = "align" => s.fill \in BOOLEAN /\ s.skip \in Nat
    /\ s.op \in {"section", "zerofill"} => s.name \in SectionNames /\ s.kind \in Kinds
    /\ s.op = "cfi" => s.forbids \in BOOLEAN

ASSUME FormatsAssumption == Formats \subseteq {"macho", "elf"}

ASSUME ProgramsAssumption ==
    \A p \in Programs : /\ Len(p) \in Nat
                        /\ \A i \in 1 .. Len(p) : IsStatement(p[i])

VARIABLES
    format,       \* the output format
    prog,         \* the statements
    phase,
    pc,           \* the statement the pass is at
    layout,       \* fields section and sections
    sourceCount,  \* field source_section_count
    proc,         \* field active_cfi_proc
    rows,         \* field compact_unwind_rows
    frames,       \* field eh_frame_rows: how many, and their bytes
    expected,     \* field expected_section_layout
    bases,        \* field section_bases
    trail         \* history: the layout the first pass had before each statement

source == <<format, prog>>
unwind == <<proc, rows, frames>>
agreed == <<sourceCount, expected, bases>>
layoutVars == <<source, phase, pc, layout, unwind, agreed, trail>>

Phases == {"collect", "unwind", "expressions", "reset", "emit", "fixups",
           "finish", "done", "drift", "error"}

\* new_with_format: ELF objects start with three sections, Mach-O with one.
Seed(f) == IF f = "elf" THEN << NewSection(".text", "text"),
                                NewSection(".data", "data"),
                                NewSection(".bss",  "zerofill") >>
                        ELSE << NewSection("__text", "text") >>

NoProc == [open |-> FALSE]

LayoutInit ==
    /\ format \in Formats
    /\ prog \in Programs
    /\ phase = "collect"
    /\ pc = 1
    /\ layout = [section |-> 1, sections |-> Seed(format)]
    /\ sourceCount = Len(Seed(format))
    /\ proc = NoProc
    /\ rows = <<>>
    /\ frames = [count |-> 0, bytes |-> 0]
    /\ expected = <<>>
    /\ bases = <<>>
    /\ trail = << layout >>

Offset == Current(layout).size

At(p) == phase = p /\ pc <= Len(prog)

-----------------------------------------------------------------------------
(* The first pass. *)

Advance(next) ==
    /\ layout' = next
    /\ pc' = pc + 1
    /\ trail' = Append(trail, next)
    /\ UNCHANGED <<source, phase, agreed>>

CollectSymbol ==
    /\ At("collect")
    /\ prog[pc].op \in SymbolOps
    /\ Advance(layout)
    /\ UNCHANGED unwind

CollectBytes ==
    /\ At("collect")
    /\ prog[pc].op \in ByteOps
    /\ CanReserve(Current(layout), prog[pc].bytes)
    /\ Advance(ReplaceCurrent(layout, Grow(Current(layout), prog[pc].bytes)))
    /\ UNCHANGED unwind

CollectFill ==
    /\ At("collect")
    /\ prog[pc].op = "fill"
    /\ LET bytes == FillBytes(prog[pc].repeat, prog[pc].width)
       IN  /\ CanReserve(Current(layout), bytes)
           /\ Advance(ReplaceCurrent(layout, Grow(Current(layout), bytes)))
    /\ UNCHANGED unwind

CollectSpace ==
    /\ At("collect")
    /\ prog[pc].op = "space"
    /\ prog[pc].bytes <= MaxSpace
    /\ CanGrow(Current(layout), prog[pc].bytes)
    /\ Advance(ReplaceCurrent(layout, Grow(Current(layout), prog[pc].bytes)))
    /\ UNCHANGED unwind

CollectAlign ==
    /\ At("collect")
    /\ prog[pc].op = "align"
    /\ CanReserveAlign(Current(layout), prog[pc].power)
    /\ Advance(ReplaceCurrent(layout,
           ReserveAlign(Current(layout), prog[pc].power, prog[pc].skip)))
    /\ UNCHANGED unwind

CollectSection ==
    /\ At("collect")
    /\ prog[pc].op = "section"
    /\ Advance(Switch(layout, prog[pc].name, prog[pc].kind))
    /\ UNCHANGED unwind

CollectZerofills ==
    /\ At("collect")
    /\ prog[pc].op = "zerofill"
    /\ LET s      == prog[pc]
           opened == Open(layout, s.name, s.kind)
           target == IndexOf(opened.sections, s.name)
           old    == opened.sections[target]
       IN  /\ CanZerofill(old, s.power, s.bytes)
           /\ Advance(Replace(opened, target, ReserveZerofill(old, s.power, s.bytes)))
    /\ UNCHANGED unwind

\* start_cfi_proc; that a label stands here is module Assembler's concern
CollectStartProc ==
    /\ At("collect")
    /\ prog[pc].op = "startproc"
    /\ ~proc.open
    /\ Current(layout).kind = "text"
    /\ proc' = [open |-> TRUE, section |-> layout.section, start |-> Offset,
                last |-> 0, bytes |-> 0, forbidden |-> FALSE, regressed |-> FALSE]
    /\ Advance(layout)
    /\ UNCHANGED <<rows, frames>>

\* emit_advance_loc: the bytes that move the location by delta
AdvanceLoc(delta) ==
    IF delta = 0 THEN 0
    ELSE IF delta < 64 THEN 1
    ELSE IF delta < 256 THEN 2
    ELSE IF delta < 65536 THEN 3 ELSE 5

\* apply_cfi_directive: an event at the saturated distance from the start.
\* eh_frame_record walks the events at .cfi_endproc; its sums are kept here.
CollectCfi ==
    /\ At("collect")
    /\ prog[pc].op = "cfi"
    /\ proc.open
    /\ LET code == IF Offset < proc.start THEN 0 ELSE Offset - proc.start
           back == code < proc.last
       IN  proc' = [proc EXCEPT
                !.last      = code,
                !.bytes     = IF back THEN @ + prog[pc].bytes
                              ELSE @ + AdvanceLoc(code - proc.last) + prog[pc].bytes,
                !.forbidden = @ \/ prog[pc].forbids,
                !.regressed = @ \/ back]
    /\ Advance(layout)
    /\ UNCHANGED <<rows, frames>>

\* Mutant: the section is not compared.
CollectEndProcAnywhere(dwarf) ==
    /\ At("collect")
    /\ prog[pc].op = "endproc"
    /\ proc.open
    /\ Offset >= proc.start
    /\ proc.forbidden => dwarf
    /\ dwarf => ~proc.regressed
    /\ rows' = Append(rows, [section |-> proc.section, start |-> proc.start,
                             length |-> Offset - proc.start])
    /\ frames' = IF dwarf THEN [count |-> frames.count + 1,
                                bytes |-> frames.bytes + proc.bytes]
                 ELSE frames
    /\ proc' = NoProc
    /\ Advance(layout)

\* finish_cfi_proc.  Whether the frame has a compact encoding depends on
\* registers and offsets that are not kept; .cfi_restore and
\* .cfi_adjust_cfa_offset (forbids) rule it out.
CollectEndProc(dwarf) ==
    /\ At("collect")
    /\ prog[pc].op = "endproc"
    /\ proc.open
    /\ proc.section = layout.section
    /\ Offset >= proc.start
    /\ proc.forbidden => dwarf
    /\ dwarf => ~proc.regressed
    /\ rows' = Append(rows, [section |-> proc.section, start |-> proc.start,
                             length |-> Offset - proc.start])
    /\ frames' = IF dwarf THEN [count |-> frames.count + 1,
                                bytes |-> frames.bytes + proc.bytes]
                 ELSE frames
    /\ proc' = NoProc
    /\ Advance(layout)

EndCollect ==
    /\ phase = "collect"
    /\ pc = Len(prog) + 1
    /\ ~proc.open
    /\ phase' = "unwind"
    /\ UNCHANGED <<source, pc, layout, unwind, agreed, trail>>

-----------------------------------------------------------------------------
(* Between the passes. *)

PrepareUnwind ==
    /\ phase = "unwind"
    /\ phase' = "expressions"
    /\ sourceCount' = Len(layout.sections)
    /\ layout' = [layout EXCEPT !.sections = @ \o ReservedUnwind(Len(rows), frames)]
    /\ UNCHANGED <<source, pc, unwind, expected, bases, trail>>

LayoutPrepare ==
    /\ phase = "expressions"
    /\ CanPlace(Fingerprints(layout.sections))
    /\ phase' = "reset"
    /\ bases' = Bases(Fingerprints(layout.sections))
    /\ expected' = Fingerprints(layout.sections)
    /\ UNCHANGED <<source, pc, layout, unwind, sourceCount, trail>>

LayoutReset ==
    /\ phase = "reset"
    /\ phase' = "emit"
    /\ pc' = 1
    /\ layout' = [section |-> 1, sections |-> Truncate(layout.sections, sourceCount)]
    /\ proc' = NoProc
    /\ UNCHANGED <<source, rows, frames, agreed, trail>>

-----------------------------------------------------------------------------
(* The second pass. *)

Proceed(next) ==
    /\ layout' = next
    /\ pc' = pc + 1
    /\ UNCHANGED <<source, phase, unwind, agreed, trail>>

EmitNothing ==
    /\ At("emit")
    /\ prog[pc].op \in SymbolOps \union {"startproc", "cfi", "endproc"}
    /\ Proceed(layout)

EmitBytes ==
    /\ At("emit")
    /\ prog[pc].op \in ByteOps
    /\ CanReserve(Current(layout), prog[pc].bytes)
    /\ Proceed(ReplaceCurrent(layout, Emit(Current(layout), prog[pc].bytes)))

EmitFill ==
    /\ At("emit")
    /\ prog[pc].op = "fill"
    /\ LET bytes == FillBytes(prog[pc].repeat, prog[pc].width)
       IN  /\ CanEmitFill(Current(layout), bytes)
           /\ Proceed(ReplaceCurrent(layout, Emit(Current(layout), bytes)))

EmitSpaces ==
    /\ At("emit")
    /\ prog[pc].op = "space"
    /\ prog[pc].bytes <= MaxSpace
    /\ CanGrow(Current(layout), prog[pc].bytes)
    /\ Proceed(ReplaceCurrent(layout, EmitSpace(Current(layout), prog[pc].bytes)))

EmitAlignment ==
    /\ At("emit")
    /\ prog[pc].op = "align"
    /\ CanReserveAlign(Current(layout), prog[pc].power)
    /\ Proceed(ReplaceCurrent(layout,
           EmitAlign(Current(layout), prog[pc].power, prog[pc].fill, prog[pc].skip)))

EmitSection ==
    /\ At("emit")
    /\ prog[pc].op = "section"
    /\ Proceed(Switch(layout, prog[pc].name, prog[pc].kind))

EmitZerofills ==
    /\ At("emit")
    /\ prog[pc].op = "zerofill"
    /\ LET s      == prog[pc]
           opened == Open(layout, s.name, s.kind)
           target == IndexOf(opened.sections, s.name)
           old    == opened.sections[target]
       IN  /\ CanZerofill(old, s.power, s.bytes)
           /\ Proceed(Replace(opened, target, EmitZerofill(old, s.power, s.bytes)))

EndEmit ==
    /\ phase = "emit"
    /\ pc = Len(prog) + 1
    /\ phase' = "fixups"
    /\ UNCHANGED <<source, pc, layout, unwind, agreed, trail>>

\* patch_section_data overwrites bytes and moves none.
ResolveFixups ==
    /\ phase = "fixups"
    /\ phase' = "finish"
    /\ UNCHANGED <<source, pc, layout, unwind, agreed, trail>>

-----------------------------------------------------------------------------
(* The object. *)

LayoutFinish ==
    /\ phase = "finish"
    /\ format = "macho"
    /\ LET table == layout.sections \o WrittenUnwind(Len(rows), frames)
           print == Fingerprints(table)
       IN  /\ layout' = [layout EXCEPT !.sections = table]
           /\ phase' = IF Bases(print) = bases /\ print = expected
                       THEN "done" ELSE "drift"
    /\ UNCHANGED <<source, pc, unwind, agreed, trail>>

\* finish_elf writes the table as it is, and refuses a section that only
\* a Mach-O directive could have made.
LayoutFinishElf ==
    /\ phase = "finish"
    /\ format = "elf"
    /\ \A i \in 1 .. Len(prog) : prog[i].op # "zerofill"
    /\ phase' = "done"
    /\ UNCHANGED <<source, pc, layout, unwind, agreed, trail>>

\* An error of the source, found by any of the fallible steps.
LayoutFail ==
    /\ phase \in {"collect", "expressions", "emit", "fixups", "finish"}
    /\ phase' = "error"
    /\ UNCHANGED <<source, pc, layout, unwind, agreed, trail>>

LayoutTerminated ==
    /\ phase \in {"done", "drift", "error"}
    /\ UNCHANGED layoutVars

LayoutNext ==
    \/ CollectSymbol \/ CollectBytes \/ CollectFill \/ CollectSpace
    \/ CollectAlign \/ CollectSection \/ CollectZerofills
    \/ CollectStartProc \/ CollectCfi
    \/ \E dwarf \in BOOLEAN : CollectEndProc(dwarf)
    \/ EndCollect \/ PrepareUnwind \/ LayoutPrepare \/ LayoutReset
    \/ EmitNothing \/ EmitBytes \/ EmitFill \/ EmitSpaces
    \/ EmitAlignment \/ EmitSection \/ EmitZerofills
    \/ EndEmit \/ ResolveFixups \/ LayoutFinish \/ LayoutFinishElf
    \/ LayoutFail \/ LayoutTerminated

LayoutSpec == LayoutInit /\ [][LayoutNext]_layoutVars

-----------------------------------------------------------------------------
(* Properties. *)

Row == [section : Nat, start : Nat, length : Nat]

ProcState == [open : {TRUE}, section : Nat, start : Nat, last : Nat, bytes : Nat,
              forbidden : BOOLEAN, regressed : BOOLEAN]

\* The cursor of either pass stays inside the source, and the current
\* section inside the table, also after the table was truncated.
TypeOK ==
    /\ format \in Formats
    /\ Len(prog) \in Nat
    /\ \A i \in 1 .. Len(prog) : IsStatement(prog[i])
    /\ phase \in Phases
    /\ pc \in 1 .. Len(prog) + 1
    /\ layout \in Layouts
    /\ sourceCount \in 1 .. Len(layout.sections)
    /\ proc \in ProcState \union {NoProc}
    /\ rows \in Seq(Row)
    /\ frames \in [count : Nat, bytes : Nat]
    /\ trail \in Seq(Layouts)

\* The second pass meets every statement in the section and at the offset
\* where the first pass met it: a section the first pass knew by then has
\* the size it had then, one it did not know is still empty.  Labels,
\* fixups and CFI rows hold first-pass offsets and are used as second-pass
\* ones.
LayoutAgrees ==
    phase = "emit" =>
        LET first == trail[pc]
        IN  /\ layout.section = first.section
            /\ \A i \in 1 .. Len(layout.sections) :
                  layout.sections[i].size =
                      IF i <= Len(first.sections) THEN first.sections[i].size ELSE 0

\* The test at the top of finish never fires: "section layout changed
\* between assembly passes" is an internal error, not one of the source.
NoLayoutDrift == phase # "drift"

\* size and the length of data, that are advanced separately, are the same
\* whenever a section is written out; a zero-fill section has no data (what
\* finish_elf checks of SHT_NOBITS sections).
ContentMatchesSize ==
    phase \in {"emit", "fixups", "finish", "done"} =>
        \A i \in 1 .. Len(layout.sections) :
            layout.sections[i].len =
                IF layout.sections[i].kind = "zerofill" THEN 0
                ELSE layout.sections[i].size

\* No statement that could be measured is refused by the second pass for
\* want of room or for its section, except a .fill over the limit, that
\* only emit_fill knows.
CanWrite(s) ==
    LET here   == Current(layout)
        opened == Ensure(layout.sections, s.name, s.kind)
    IN  CASE s.op \in ByteOps  -> CanReserve(here, s.bytes)
          [] s.op = "fill"     -> LET bytes == FillBytes(s.repeat, s.width)
                                  IN  bytes > MaxSpace \/ CanEmitFill(here, bytes)
          [] s.op = "space"    -> s.bytes <= MaxSpace /\ CanGrow(here, s.bytes)
          [] s.op = "align"    -> CanReserveAlign(here, s.power)
          [] s.op = "zerofill" -> CanZerofill(opened[IndexOf(opened, s.name)],
                                              s.power, s.bytes)
          [] OTHER -> TRUE

EmissionFits == At("emit") => CanWrite(prog[pc])

\* The address ranges that unwind rows cover lie in what their section
\* holds at the end, and two rows of a section do not overlap.
RowsDisjoint ==
    phase = "done" =>
        /\ \A i \in 1 .. Len(rows) :
              rows[i].start + rows[i].length <= layout.sections[rows[i].section].size
        /\ \A i, j \in 1 .. Len(rows) :
              i < j /\ rows[i].section = rows[j].section =>
                  rows[i].start + rows[i].length <= rows[j].start

\* section_bases gives every section an aligned address range of its own,
\* and puts zero-fill sections, that take no room in the file, after all
\* the others.
BasesDisjoint ==
    phase = "done" =>
        LET t == expected
        IN  /\ \A i \in 1 .. Len(t) : bases[i] % 2^t[i].align = 0
            /\ \A i, j \in 1 .. Len(t) : i # j =>
                  \/ bases[i] + t[i].size <= bases[j]
                  \/ bases[j] + t[j].size <= bases[i]
            /\ \A i, j \in 1 .. Len(t) :
                  t[i].kind # "zerofill" /\ t[j].kind = "zerofill" =>
                      bases[i] + t[i].size <= bases[j]

=============================================================================
