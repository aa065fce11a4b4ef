------------------------------ MODULE Assembler ------------------------------
(***************************************************************************)
(* The arm64 assembler with its symbols (src/assemble.rs): module Layout,  *)
(* and beside it what every statement does to labels, .set assignments,    *)
(* fixups and relocations.  Every action but ResolveFixup is one of        *)
(* Layout's, joined with its effect on these; so what is proved of Layout  *)
(* holds here.                                                             *)
(*                                                                         *)
(* Symbol values have the form that expressions use: Undefined,            *)
(* [kind |-> "absolute", value], [kind |-> "defined", section, value].     *)
(***************************************************************************)
EXTENDS Layout, Assignments

CONSTANTS
    Names,        \* names of symbols
    LocalNames,   \* those with the prefix of an assembler-local symbol, .L or L
    DotNames,     \* those with the prefix .L
    HiddenNames,  \* those no Mach-O symbol is made for: prefix .Ltmp$ or L
    Bits,         \* the width of the offset, for every kind of branch
    MaxAddend,    \* the largest addend ARM64_RELOC_ADDEND can carry
    Linkings      \* what a linker can do: where it puts sections and symbols

VARIABLES
    labels,       \* field labels: Undefined, or a place
    commons,      \* field common_symbols: the names
    attrs,        \* symbol_attrs, elf_attrs and subsections_via_symbols
    assigns,      \* field absolute_assignments
    setNames,     \* field absolute_symbol_names
    aliases,      \* field absolute_assignment_aliases, NoName for None
    values,       \* field absolute_assignment_values
    initial,      \* field initial_absolute_symbols
    final,        \* field final_absolute_symbols
    absolutes,    \* field absolute_symbols
    cursor,       \* field next_absolute_assignment, from 1
    fixups,       \* field fixups
    resolved,     \* how many of them resolve_fixups is done with
    patches,      \* what it wrote: [section, offset, value]
    relocs,       \* field pending_relocs, then the relocations of the object
    landed        \* history: where the second pass met the definitions

symbols     == <<labels, commons, attrs, assigns, setNames>>
expressions == <<aliases, values, initial, final>>
emission    == <<absolutes, cursor, fixups, landed>>
resolution  == <<resolved, patches, relocs>>
vars        == <<layoutVars, symbols, expressions, emission, resolution>>

NoName == "no name"

\* The halves of an address, of one in the global offset table, and of one
\* in the table of thread locals.
PageKinds == {"PAGE21", "PAGEOFF12", "GOT_LOAD_PAGE21", "GOT_LOAD_PAGEOFF12",
              "TLVP_LOAD_PAGE21", "TLVP_LOAD_PAGEOFF12"}

\* What the parser delivers of a statement, as far as symbols need it.  The
\* operands that are left to a fixup are those of instructions.
NamesSymbols(s) ==
    /\ s.op \in {"label", "set", "comm", "global", "weak", "local"} => s.name \in Names
    /\ s.op = "zerofill" => s.symbol \in Names \union {NoName}
    /\ s.op \in {"set", "quad", "fixup"} =>
          /\ s.expr \in Seq(Leaf)
          /\ \A i \in DOMAIN s.expr :
                s.expr[i].kind \in {"sym", "got"} => s.expr[i].name \in Names
    /\ s.op = "quad" => s.bytes = 8
    /\ s.op = "fixup" => s.bytes = 4 /\ s.reloc \in DOMAIN Bits \union PageKinds

ASSUME SymbolsAssumption ==
    /\ NoName \notin Names
    /\ DOMAIN Bits \intersect (PageKinds \union {"Data64"}) = {}
    /\ \A p \in Programs : \A i \in 1 .. Len(p) : NamesSymbols(p[i])

\* Addresses of sections, of symbols that this object does not define, and
\* of entries in the global offset table.
ASSUME LinkingsAssumption ==
    Linkings \subseteq [sections : [SectionNames -> Int], externals : [Names -> Int],
                        gots : [Names -> Int]]

Nowhere == [n \in Names |-> Undefined]

Place(section, offset) == [kind |-> "defined", section |-> section, value |-> offset]
Absolute(v) == [kind |-> "absolute", value |-> v]

Init ==
    /\ LayoutInit
    /\ labels = Nowhere
    /\ commons = {}
    /\ attrs = [global |-> {}, weak |-> {}, local |-> {}, subsections |-> FALSE]
    /\ assigns = <<>>
    /\ setNames = {}
    /\ aliases = <<>>
    /\ values = <<>>
    /\ initial = Nowhere
    /\ final = Nowhere
    /\ absolutes = Nowhere
    /\ cursor = 1
    /\ fixups = <<>>
    /\ landed = Nowhere
    /\ resolved = 0
    /\ patches = {}
    /\ relocs = <<>>

Stmt == prog[pc]
Is(op) == pc <= Len(prog) /\ Stmt.op = op

-----------------------------------------------------------------------------
(* The first pass. *)

LaterUnchanged == UNCHANGED <<expressions, emission, resolution>>

\* Mutant: the label is taken to be in the section that was created last.
CollectLabelInLast ==
    /\ Is("label")
    /\ CollectSymbol
    /\ labels' = [labels EXCEPT ![Stmt.name] = Place(Len(layout.sections), Offset)]
    /\ UNCHANGED <<commons, attrs, assigns, setNames>>
    /\ LaterUnchanged

CollectLabel ==
    /\ Is("label")
    /\ CollectSymbol
    /\ Stmt.name \notin commons
    /\ labels[Stmt.name] = Undefined
    /\ labels' = [labels EXCEPT ![Stmt.name] = Place(layout.section, Offset)]
    /\ UNCHANGED <<commons, attrs, assigns, setNames>>
    /\ LaterUnchanged

\* Nothing is compared: whether the name is a label is found out later.
CollectSet ==
    /\ Is("set")
    /\ CollectSymbol
    /\ assigns' = Append(assigns, [name |-> Stmt.name, expr |-> Stmt.expr])
    /\ setNames' = setNames \union {Stmt.name}
    /\ UNCHANGED <<labels, commons, attrs>>
    /\ LaterUnchanged

CollectComm ==
    /\ Is("comm")
    /\ CollectSymbol
    /\ labels[Stmt.name] = Undefined
    /\ Stmt.name \notin setNames
    /\ commons' = commons \union {Stmt.name}
    /\ UNCHANGED <<labels, attrs, assigns, setNames>>
    /\ LaterUnchanged

CollectAttribute ==
    /\ CollectSymbol
    /\ \/ /\ Stmt.op \in {"global", "weak", "local"}
          /\ attrs' = [attrs EXCEPT ![Stmt.op] = @ \union {Stmt.name}]
       \/ /\ Stmt.op = "subsections"
          /\ attrs' = [attrs EXCEPT !.subsections = TRUE]
    /\ UNCHANGED <<labels, commons, assigns, setNames>>
    /\ LaterUnchanged

\* Where .zerofill puts its symbol.
ZerofillPlace(s) ==
    LET table == Open(layout, s.name, s.kind).sections
        i     == IndexOf(table, s.name)
    IN  Place(i, AlignUp(table[i].size, s.power))

CollectZerofill ==
    /\ CollectZerofills
    /\ \/ /\ Stmt.symbol = NoName
          /\ UNCHANGED labels
       \/ /\ Stmt.symbol \in Names \ (commons \union setNames)
          /\ labels[Stmt.symbol] = Undefined
          /\ labels' = [labels EXCEPT ![Stmt.symbol] = ZerofillPlace(Stmt)]
    /\ UNCHANGED <<commons, attrs, assigns, setNames>>
    /\ LaterUnchanged

CollectOther ==
    /\ \/ CollectBytes \/ CollectFill \/ CollectSpace
       \/ CollectAlign \/ CollectSection
       \/ CollectStartProc \/ CollectCfi
       \/ \E dwarf \in BOOLEAN : CollectEndProc(dwarf)
       \/ EndCollect \/ PrepareUnwind
    /\ UNCHANGED symbols
    /\ LaterUnchanged

-----------------------------------------------------------------------------
(* prepare_expression_state.  An assignment of a lone symbol that is not   *)
(* itself assigned is an alias: it is resolved as if it were zero, and its *)
(* name becomes a label.                                                   *)

Lone(expr) == Len(expr) = 1 /\ expr[1].kind = "sym" /\ expr[1].sign = 1

AliasTarget(expr) ==
    IF Lone(expr) /\ expr[1].name \notin setNames THEN expr[1].name ELSE NoName

Zero == << [sign |-> 1, kind |-> "int", value |-> 0] >>

\* The assignments to n, by index, that are (not) aliases.
AliasSlots(n) == { i \in DOMAIN aliases : assigns[i].name = n /\ aliases[i] # NoName }
ValueSlots(n) == { i \in DOMAIN aliases : assigns[i].name = n /\ aliases[i] = NoName }

\* apply_set_aliases, one after the other: the last one of a name stays
ApplyAliases ==
    /\ \A i \in DOMAIN aliases' : aliases'[i] # NoName => labels[aliases'[i]] # Undefined
    /\ LET slots(n) == AliasSlots(n)'
       IN  /\ labels' = [n \in Names |-> IF slots(n) = {} THEN labels[n]
                                         ELSE labels[aliases'[Max(slots(n))]]]
           /\ setNames' = { n \in setNames : slots(n) = {} }

\* "An alias keeps its slot so the emission cursor stays aligned"
SlotValues(outcomes) == [i \in DOMAIN outcomes |-> outcomes[i].value]

PrepareExpressions ==
    /\ LayoutPrepare
    /\ aliases' = [i \in DOMAIN assigns |-> AliasTarget(assigns[i].expr)]
    /\ LET resolvable == [i \in DOMAIN assigns |->
                             IF aliases'[i] = NoName THEN assigns[i]
                             ELSE [assigns[i] EXCEPT !.expr = Zero]]
           outcomes == Outcomes(resolvable, labels)
       IN  /\ \A i \in DOMAIN outcomes : outcomes[i].kind = "value"
           /\ values' = SlotValues(outcomes)
    /\ UNCHANGED <<commons, attrs, assigns>>
    /\ ApplyAliases
    /\ LET slots(n)  == ValueSlots(n)'
           of(n, i)  == Absolute(values'[i])
       IN  /\ initial' = [n \in Names |-> IF slots(n) = {} THEN Undefined
                                          ELSE of(n, Min(slots(n)))]
           /\ final' = [n \in Names |-> IF slots(n) = {} THEN Undefined
                                        ELSE of(n, Max(slots(n)))]
    /\ absolutes' = final'
    /\ UNCHANGED <<cursor, fixups, landed, resolution>>

\* Mutant: symbols start the second pass with their last values.
ResetToFinal ==
    /\ LayoutReset
    /\ absolutes' = final
    /\ cursor' = 1
    /\ fixups' = <<>>
    /\ relocs' = <<>>
    /\ UNCHANGED <<symbols, expressions, landed, resolved, patches>>

Reset ==
    /\ LayoutReset
    /\ absolutes' = initial
    /\ cursor' = 1
    /\ fixups' = <<>>
    /\ relocs' = <<>>
    /\ UNCHANGED <<symbols, expressions, landed, resolved, patches>>

-----------------------------------------------------------------------------
(* The second pass. *)

\* classify_expr: absolute symbols first, then labels
Environment == [n \in Names |-> IF absolutes[n] # Undefined THEN absolutes[n] ELSE labels[n]]

EmitSet ==
    /\ Is("set")
    /\ EmitNothing
    /\ cursor <= Len(assigns)
    /\ assigns[cursor].name = Stmt.name
    /\ absolutes' = IF aliases[cursor] # NoName THEN absolutes
                    ELSE [absolutes EXCEPT ![Stmt.name] = Absolute(values[cursor])]
    /\ cursor' = cursor + 1
    /\ UNCHANGED <<symbols, expressions, fixups, landed, resolution>>

Fixup(kind, classified) ==
    [kind |-> kind, section |-> layout.section, offset |-> Offset,
     stmt |-> pc, expr |-> Stmt.expr, classified |-> classified]

\* .quad is classified here, an instruction's operand in resolve_fixups
EmitQuad ==
    /\ Is("quad")
    /\ EmitBytes
    /\ LET classified == Classify(Stmt.expr, Environment)
       IN  /\ ~IsError(classified)
           /\ fixups' = Append(fixups, Fixup("Data64", classified))
    /\ UNCHANGED <<symbols, expressions, absolutes, cursor, landed, resolution>>

EmitFixup ==
    /\ Is("fixup")
    /\ EmitBytes
    /\ fixups' = Append(fixups, Fixup(Stmt.reloc, Undefined))
    /\ UNCHANGED <<symbols, expressions, absolutes, cursor, landed, resolution>>

EmitLabel ==
    /\ Is("label")
    /\ EmitNothing
    /\ landed' = [landed EXCEPT ![Stmt.name] = Place(layout.section, Offset)]
    /\ UNCHANGED <<symbols, expressions, absolutes, cursor, fixups, resolution>>

EmitZerofillSymbol ==
    /\ EmitZerofills
    /\ landed' = [n \in Names |-> IF n = Stmt.symbol THEN ZerofillPlace(Stmt) ELSE landed[n]]
    /\ UNCHANGED <<symbols, expressions, absolutes, cursor, fixups, resolution>>

EmitOther ==
    /\ \/ EmitFill \/ EmitSpaces \/ EmitAlignment \/ EmitSection
       \/ EndEmit
       \/ Is("bytes") /\ EmitBytes
       \/ pc <= Len(prog) /\ Stmt.op \notin {"set", "label"} /\ EmitNothing
    /\ UNCHANGED <<symbols, expressions, emission, resolution>>

-----------------------------------------------------------------------------
(* resolve_fixups, one fixup after the other. *)

Fix == fixups[resolved + 1]

Symbol(n)     == [kind |-> "symbol", name |-> n]
SectionSymbol(i) == [kind |-> "section", section |-> i]
Raw(v)        == [kind |-> "raw", value |-> v]

\* record_pending_reloc_addend
Reloc(type, target, addend) ==
    [type |-> type, section |-> Fix.section, offset |-> Fix.offset,
     target |-> target, addend |-> addend]

\* record_symbol_reloc: where the addend goes depends on the format
SymbolRelocs(type, n, addend) ==
    IF format = "elf" THEN << Reloc(type, Symbol(n), addend) >>
    ELSE (IF addend = 0 THEN <<>> ELSE << Reloc("ADDEND", Raw(addend), 0) >>)
           \o << Reloc(type, Symbol(n), 0) >>

\* encode_addend_symbolnum
CanCarry(addend) == format = "macho" => addend \in -MaxAddend - 1 .. MaxAddend

\* Mutant: a patch grows the section.
ResolveGrowing(written, recorded) ==
    /\ phase = "fixups"
    /\ resolved' = resolved + 1
    /\ patches' = patches \union written
    /\ relocs' = relocs \o recorded
    /\ layout' = Replace(layout, Fix.section, Emit(layout.sections[Fix.section], 4))
    /\ UNCHANGED <<format, prog, phase, pc, sourceCount, proc, rows, frames,
                   expected, bases, trail, symbols, expressions, emission>>

Resolve(written, recorded) ==
    /\ phase = "fixups"
    /\ resolved' = resolved + 1
    /\ patches' = patches \union written
    /\ relocs' = relocs \o recorded
    /\ UNCHANGED <<layoutVars, symbols, expressions, emission>>

\* patch_section_data, that looks at the bounds
Width(fix) == IF fix.kind = "Data64" THEN 8 ELSE 4
InBounds(fix) == fix.offset + Width(fix) <= layout.sections[fix.section].len
Patch(v) == { [section |-> Fix.section, offset |-> Fix.offset, value |-> v] }

\* resolve_data64_fixup: the addend is written in place, in both formats
Data64Relocs(c) ==
    CASE c.kind = "relocatable" -> << Reloc("UNSIGNED", Symbol(c.symbol), 0) >>
      [] c.kind = "difference"  -> << Reloc("SUBTRACTOR", Symbol(c.subtrahend), 0),
                                      Reloc("UNSIGNED", Symbol(c.minuend), 0) >>
      [] c.kind = "got"         -> << Reloc("POINTER_TO_GOT", Symbol(c.symbol), 0) >>
      [] OTHER                  -> <<>>

ResolveData64 ==
    /\ resolved < Len(fixups)
    /\ Fix.kind = "Data64"
    /\ InBounds(Fix)
    /\ LET c == Fix.classified
       IN  /\ c.kind = "got" => ~c.pcrel
           /\ Resolve(Patch(IF c.kind \in {"absolute", "unsigned"} THEN c.value ELSE c.addend),
                      Data64Relocs(c))

\* elf_symbol_is_preemptible
Preemptible(n) == n \notin attrs.local /\ n \in attrs.weak \union attrs.global

\* Mutant: a branch with an addend can have a relocation too.
RelocatesAnyAddend(n, addend) ==
    /\ Fix.kind = "Branch26"
    /\ IF format = "elf" THEN Fix.section # labels[n].section \/ Preemptible(n)
       ELSE /\ attrs.subsections
            /\ Fix.section = labels[n].section
            /\ layout.sections[labels[n].section].kind = "text"
            /\ n \notin LocalNames

\* should_emit_local_branch_reloc
RelocatesLocally(n, addend) ==
    /\ Fix.kind = "Branch26"
    /\ IF format = "elf" THEN Fix.section # labels[n].section \/ Preemptible(n)
       ELSE /\ addend = 0
            /\ attrs.subsections
            /\ Fix.section = labels[n].section
            /\ layout.sections[labels[n].section].kind = "text"
            /\ n \notin LocalNames

\* check_branch_offset, check_pcrel_offset
Reaches(kind, delta) ==
    LET half == 2^(Bits[kind] - 1)
    IN  IF kind = "Adr21" THEN delta \in -half .. half - 1
        ELSE delta % 4 = 0 /\ delta \div 4 \in -half .. half - 1

\* A target in this object, at a distance the instruction can hold.
ResolveHere(c) ==
    LET delta == labels[c.symbol].value - Fix.offset + c.addend
    IN  /\ Fix.section = labels[c.symbol].section
        /\ Reaches(Fix.kind, delta)
        /\ InBounds(Fix)
        /\ Resolve(Patch(delta), <<>>)

\* resolve_branch_or_reloc, resolve_literal_fixup, resolve_adr_fixup
ResolveBranch ==
    /\ resolved < Len(fixups)
    /\ Fix.kind \in DOMAIN Bits
    /\ LET c == Classify(Fix.expr, Environment)
       IN  /\ c.kind = "relocatable"
           /\ IF labels[c.symbol] = Undefined
              THEN /\ Fix.kind = "Branch26"
                   /\ CanCarry(c.addend)
                   /\ Resolve({}, SymbolRelocs("BRANCH26", c.symbol, c.addend))
              ELSE IF RelocatesLocally(c.symbol, c.addend)
                   THEN Resolve({}, << Reloc("BRANCH26", Symbol(c.symbol), 0) >>)
                   ELSE ResolveHere(c)

\* resolve_page_fixup
ResolvePage ==
    /\ resolved < Len(fixups)
    /\ Fix.kind \in PageKinds
    /\ LET c == Classify(Fix.expr, Environment)
       IN  /\ c.kind = "relocatable"
           /\ c.addend # 0 => Fix.kind \in {"PAGE21", "PAGEOFF12"} /\ CanCarry(c.addend)
           /\ Resolve({}, SymbolRelocs(Fix.kind, c.symbol, c.addend))

EndFixups ==
    /\ resolved = Len(fixups)
    /\ ResolveFixups
    /\ UNCHANGED <<symbols, expressions, emission, resolution>>

-----------------------------------------------------------------------------
(* The object. *)

Relocated == { r.target.name : r \in { x \in ToSet(relocs) : x.target.kind = "symbol" } }

\* symbol_attrs and, for ELF, elf_attrs have an entry.
Declared(n) == n \in attrs.global \union attrs.weak \union
                     (IF format = "elf" THEN attrs.local ELSE {})

\* Whether finish makes a symbol for a name that a relocation uses: a hidden
\* label has none, and a local name is not taken for an undefined one.
CanName(n) ==
    IF labels[n] # Undefined THEN n \notin HiddenNames \/ Declared(n)
    ELSE n \in LocalNames => Declared(n) \/ n \in commons \/ absolutes[n] # Undefined

Finish ==
    /\ LayoutFinish
    /\ \A n \in Names : labels[n] # Undefined => absolutes[n] = Undefined
    /\ \A n \in commons : labels[n] = Undefined /\ absolutes[n] = Undefined
    /\ \A n \in Relocated : CanName(n)
    /\ UNCHANGED <<symbols, expressions, emission, resolution>>

\* Mutant: every definition of this object is.
IsDefined(n) == labels[n] # Undefined

\* A definition that nothing can preempt is named by its section.
IsFixed(n) == labels[n] # Undefined /\ ~Preemptible(n)

Rela(r) ==
    LET n == r.target.name
    IN  IF IsFixed(n) THEN [r EXCEPT !.target = SectionSymbol(labels[n].section),
                                     !.addend = @ + labels[n].value]
        ELSE r

\* And finish_elf: a definition that nothing can preempt needs none.
CanNameElf(n) ==
    IF labels[n] # Undefined THEN IsFixed(n) \/ n \notin DotNames
    ELSE n \in LocalNames => \/ n \in commons \/ absolutes[n] # Undefined
                             \/ Declared(n) /\ n \notin DotNames

FinishElf ==
    /\ LayoutFinishElf
    /\ ~attrs.subsections
    /\ \A n \in commons \ DotNames : labels[n] = Undefined
    /\ \A n \in commons : absolutes[n] = Undefined
    /\ \A r \in ToSet(relocs) : r.type \notin {"SUBTRACTOR", "POINTER_TO_GOT"}
    /\ \A n \in Relocated : CanNameElf(n)
    /\ relocs' = [i \in DOMAIN relocs |-> Rela(relocs[i])]
    /\ UNCHANGED <<symbols, expressions, emission, resolved, patches>>

Fail ==
    /\ LayoutFail
    /\ UNCHANGED <<symbols, expressions, emission, resolution>>

Terminated ==
    /\ LayoutTerminated
    /\ UNCHANGED <<symbols, expressions, emission, resolution>>

Next ==
    \/ CollectLabel \/ CollectSet \/ CollectComm \/ CollectAttribute
    \/ CollectZerofill \/ CollectOther
    \/ PrepareExpressions \/ Reset
    \/ EmitSet \/ EmitQuad \/ EmitFixup \/ EmitLabel \/ EmitZerofillSymbol \/ EmitOther
    \/ ResolveData64 \/ ResolveBranch \/ ResolvePage \/ EndFixups
    \/ Finish \/ FinishElf \/ Fail \/ Terminated

Spec == Init /\ [][Next]_vars

-----------------------------------------------------------------------------
(* What the source says, by itself. *)

\* The value that name n has after the k-th assignment: the one it was last
\* given, or, before there is one, the one it is given first.
VisibleSlot(n, k) ==
    LET prior == { i \in ValueSlots(n) : i <= k }
    IN  IF prior # {} THEN Max(prior) ELSE Min(ValueSlots(n))

SetsBefore(p) == Cardinality({ j \in 1 .. p - 1 : prog[j].op = "set" })

\* A section, and a place, when the linker has put the sections where link
\* says.
SectionAddress(i, link) == link.sections[layout.sections[i].name]
Located(place, link) == SectionAddress(place.section, link) + place.value

MeaningOf(n, k, link) ==
    IF ValueSlots(n) # {} THEN values[VisibleSlot(n, k)]
    ELSE IF AliasSlots(n) # {} THEN Located(landed[aliases[Max(AliasSlots(n))]], link)
    ELSE IF landed[n] # Undefined THEN Located(landed[n], link)
    ELSE link.externals[n]

\* .quad means its expression where it stands, an operand means it at the
\* end of the source.
Meant(fix, link) ==
    LET k == IF fix.kind = "Data64" THEN SetsBefore(fix.stmt) ELSE Len(assigns)
        Worth(leaf) == CASE leaf.kind = "int"  -> leaf.value
                         [] leaf.kind = "sym"  -> MeaningOf(leaf.name, k, link)
                         [] leaf.kind = "got"  -> link.gots[leaf.name]
                         [] leaf.kind = "here" -> SectionAddress(fix.section, link) + fix.offset
    IN  Total([i \in DOMAIN fix.expr |-> fix.expr[i].sign * Worth(fix.expr[i])])

(* And what the linker finds in the object: what was written in place, and *)
(* what the relocations of the place add to it.  In ELF the addend of a    *)
(* RELA relocation takes the place of what was written.                    *)

RelocsAt(fix) ==
    { i \in DOMAIN relocs : relocs[i].section = fix.section /\ relocs[i].offset = fix.offset }

Address(target, link) ==
    CASE target.kind = "raw"     -> target.value
      [] target.kind = "section" -> SectionAddress(target.section, link)
      [] target.kind = "symbol"  ->
            IF labels[target.name] # Undefined THEN Located(labels[target.name], link)
            ELSE link.externals[target.name]

Contribution(r, link) ==
    CASE r.type = "SUBTRACTOR" -> -Address(r.target, link)
      [] r.type = "POINTER_TO_GOT" -> link.gots[r.target.name]
      [] OTHER -> Address(r.target, link) + r.addend

InPlace(fix, link) ==
    LET here == { p \in patches : p.section = fix.section /\ p.offset = fix.offset }
        from == IF fix.kind \in DOMAIN Bits
                THEN SectionAddress(fix.section, link) + fix.offset ELSE 0
    IN  IF here = {} \/ (format = "elf" /\ RelocsAt(fix) # {}) THEN 0
        ELSE from + (CHOOSE p \in here : TRUE).value

Linked(fix, link) ==
    InPlace(fix, link) +
    Total([i \in DOMAIN relocs |->
              IF i \in RelocsAt(fix) THEN Contribution(relocs[i], link) ELSE 0])

Operand(fix) ==
    IF fix.kind = "Data64" THEN fix.classified ELSE Classify(fix.expr, Environment)

-----------------------------------------------------------------------------
(* Properties. *)

\* Symbols are where the second pass meets them: a label has in the first
\* pass, and so in every fixup and relocation, the place of its definition,
\* and an alias has the place of its target, defined before it or after.
\* (A label that is assigned an alias as well takes the alias's place.)
SymbolsLand ==
    phase = "done" =>
        \A n \in Names :
            IF AliasSlots(n) # {} THEN labels[n] = landed[aliases[Max(AliasSlots(n))]]
            ELSE labels[n] = landed[n]

\* The cursor over the assignments is at the one the second pass meets next
\* ("absolute assignment order changed between passes" is an internal
\* error), and what expressions see is what the resolver assumed: the last
\* value given before, or else the first one.
SetsInStep ==
    /\ phase = "emit" =>
          /\ cursor = SetsBefore(pc) + 1
          /\ Is("set") => cursor <= Len(assigns) /\ assigns[cursor].name = Stmt.name
          /\ \A n \in Names :
                absolutes[n] = IF ValueSlots(n) = {} THEN Undefined
                               ELSE Absolute(values[VisibleSlot(n, cursor - 1)])
    /\ phase \in {"fixups", "finish", "done"} => absolutes = final

\* In ELF objects these two lose their addend (see ElfAddendsKept).
AddendLost(fix) ==
    LET c == Operand(fix)
    IN  /\ format = "elf"
        /\ c.kind = "relocatable"
        /\ c.addend # 0
        /\ \/ fix.kind = "Data64"
           \/ fix.kind = "Branch26" /\ labels[c.symbol] # Undefined

\* Wherever the linker puts sections and undefined symbols, every operand
\* and every .quad comes out as the expression of the source: no addend is
\* lost, counted twice, or added to a moved label.
LinkedRight(fix) == \A link \in Linkings : Linked(fix, link) = Meant(fix, link)

LinkedValue ==
    phase = "done" => \A fix \in ToSet(fixups) : AddendLost(fix) \/ LinkedRight(fix)

\* In ELF, a branch to a symbol that can be bound elsewhere at link time
\* keeps a relocation that names the symbol, wherever it is defined.
PreemptibleKept ==
    phase = "done" /\ format = "elf" =>
        \A fix \in ToSet(fixups) :
            fix.kind = "Branch26" /\ Preemptible(Operand(fix).symbol) =>
                \E i \in RelocsAt(fix) : relocs[i].target = Symbol(Operand(fix).symbol)

\* Without its symbols the assembler is Layout: every step is one of
\* Layout's, or changes nothing that Layout knows; Init has LayoutInit in it.
\* So what holds of Layout, proofs included, holds here.
LayoutSteps == [][LayoutNext]_layoutVars

-----------------------------------------------------------------------------
(* What the repository says, and the code does not do. *)

\* "an explicit RELA field for ELF": with no exceptions.
ElfAddendsKept ==
    phase = "done" /\ format = "elf" => \A fix \in ToSet(fixups) : LinkedRight(fix)

=============================================================================
