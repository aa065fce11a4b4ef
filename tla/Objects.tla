------------------------------- MODULE Objects -------------------------------
(***************************************************************************)
(* What the arm64 assembler hands to the linker: the symbol table and the  *)
(* relocations that refer to it by index (src/assemble.rs, finish and      *)
(* finish_elf), and what the writers do to both (src/macho.rs write_macho, *)
(* src/elf.rs write_elf).  Every step of the assembler is one of module    *)
(* Assembler's, with its effect on the order in which names are first met  *)
(* and on the AArch64 mapping symbols; the writers add a step of their own.*)
(*                                                                         *)
(* An entry of a symbol table is [name, place, bind]: a place in a section *)
(* ("defined", as Assembler has it), "absolute", "common" or "undefined".  *)
(* Indices count from 1.  The relocations of unwind rows, and the type,    *)
(* size and visibility of a symbol, are left out.                          *)
(***************************************************************************)
EXTENDS Assembler, Lists

CONSTANTS
    TempNames,    \* the names ltmp0, ltmp1, ... of the section temporaries
    PoolNames,    \* names with the prefix lCPI
    Alphabet      \* all names, in byte order

ASSUME PrefixAssumption == /\ DotNames \subseteq LocalNames
                           /\ HiddenNames \subseteq LocalNames
                           /\ LocalNames \subseteq DotNames \union HiddenNames

\* No source uses a name of the form ltmp0, nor that of a section or of a
\* mapping symbol; every section has a temporary, the two for unwinding too.
ASSUME AlphabetAssumption ==
    /\ Alphabet \in Seq(STRING) /\ TempNames \in Seq(STRING)
    /\ \A i, j \in DOMAIN Alphabet : Alphabet[i] = Alphabet[j] => i = j
    /\ ToSet(Alphabet) = ToSet(TempNames) \union Names
    /\ Names \intersect (ToSet(TempNames) \union {"", "$x", "$d"}) = {}
    /\ IsFiniteSet(SectionNames)
    /\ Len(TempNames) >= Cardinality(SectionNames) + 2

\* A statement "bytes" is an instruction (code) or a list of data.
ASSUME ContentAssumption ==
    \A p \in Programs : \A i \in 1 .. Len(p) : p[i].op = "bytes" => p[i].code \in BOOLEAN

VARIABLES
    noted,        \* field symbol_order: the names, in the order of their numbers
    mapping,      \* fields elf_mapping, elf_map_state, elf_pending_align
    content,      \* history: what was emitted, [section, offset, kind]
    object,       \* the ObjectFile
    file          \* what is written

objects == <<noted, mapping, content, object, file>>

None    == [kind |-> "none"]
Common  == [kind |-> "common"]
Temp(i) == TempNames[i]

Unmarked == [n \in SectionNames |-> [state |-> "neither", armed |-> -1, marks |-> <<>>]]

ObjectsInit ==
    /\ Init
    /\ noted = << Temp(1) >>
    /\ mapping = Unmarked
    /\ content = {}
    /\ object = None
    /\ file = None

-----------------------------------------------------------------------------
(* The first pass: names are numbered as they are met (note_symbol), a     *)
(* section temporary when its section is created (note_section_temp).      *)

NamesOf(s) ==
    CASE s.op \in {"label", "set", "comm", "global", "weak", "local"} -> << s.name >>
      [] s.op = "zerofill" /\ s.symbol # NoName -> << s.symbol >>
      [] OTHER -> <<>>

NewTemps(before, after) == [i \in 1 .. Len(after) - Len(before) |-> Temp(Len(before) + i)]

Note ==
    LET temps == NewTemps(layout.sections, layout'.sections)
        names == IF phase = "collect" /\ pc <= Len(prog) THEN NamesOf(Stmt) ELSE <<>>
    IN  noted' = Distinct(noted \o temps \o names)

Measure ==
    /\ \/ CollectLabel \/ CollectSet \/ CollectComm \/ CollectAttribute
       \/ CollectZerofill \/ CollectOther
    /\ Note
    /\ UNCHANGED <<mapping, content, object, file>>

-----------------------------------------------------------------------------
(* The second pass: in ELF every section has marks, where code ($x) or     *)
(* data ($d) begins.                                                       *)

Code == "$x"
Data == "$d"
Neither  == "neither"
NotArmed == -1

IsCode(s)    == \/ s.op = "fixup"
                \/ s.op = "bytes" /\ s.code
IsContent(s) == s.op \in {"bytes", "quad", "fixup", "space", "fill"}
KindOf(s)    == IF IsCode(s) THEN Code ELSE Data

\* directive_data_mapping: code and these begin a region, other data goes
\* on with the one there is.
Establishes(s) == IsCode(s) \/ s.op \in {"space", "fill"}

Disarmed(m) == [m EXCEPT !.armed = NotArmed]

Marked(m, s, here) ==
    [m EXCEPT !.state = KindOf(s),
              !.marks = Append(@, [kind   |-> KindOf(s),
                                   offset |-> IF m.armed = NotArmed THEN here ELSE m.armed])]

Continues(m, s) == \/ m.state = Neither /\ ~Establishes(s) /\ m.armed = NotArmed
                   \/ m.state = KindOf(s)

\* Mutant: an alignment stays armed when the region goes on.
MarkArmed(m, s, here) == IF Continues(m, s) THEN m ELSE Disarmed(Marked(m, s, here))

\* elf_mark_kind
Mark(m, s, here) == Disarmed(IF Continues(m, s) THEN m ELSE Marked(m, s, here))

\* elf_arm_align
Arm(m, s, here) == IF s.power = 0 THEN m ELSE [m EXCEPT !.armed = here]

MarkStatement(s) ==
    LET name == Current(layout).name
        here == Offset
    IN  mapping' = CASE format # "elf" -> mapping
                     [] IsContent(s)   -> [mapping EXCEPT ![name] = Mark(@, s, here)]
                     [] s.op = "align" -> [mapping EXCEPT ![name] = Arm(@, s, here)]
                     [] OTHER -> mapping

Written(s) ==
    IF IsContent(s) /\ layout'.sections[layout.section].size > Offset
    THEN { [section |-> layout.section, offset |-> Offset, kind |-> KindOf(s)] }
    ELSE {}

EmitStatement ==
    /\ pc <= Len(prog)
    /\ \/ EmitSet \/ EmitLabel \/ EmitQuad \/ EmitFixup \/ EmitZerofillSymbol \/ EmitOther
    /\ MarkStatement(Stmt)
    /\ content' = content \union Written(Stmt)
    /\ UNCHANGED <<noted, object, file>>

ResetMarks ==
    /\ Reset
    /\ mapping' = Unmarked
    /\ UNCHANGED <<noted, content, object, file>>

Elsewhere ==
    /\ \/ PrepareExpressions
       \/ pc > Len(prog) /\ EmitOther
       \/ ResolveData64 \/ ResolveBranch \/ ResolvePage \/ EndFixups
       \/ Fail \/ Terminated
    /\ UNCHANGED objects

-----------------------------------------------------------------------------
(* Symbols, as both formats make them. *)

Entry(n, place, bind) == [name |-> n, place |-> place, bind |-> bind]

Defined   == { n \in Names : labels[n] # Undefined }
Absolutely == { n \in Names : absolutes[n] # Undefined }

PlaceOf(n) == IF labels[n] # Undefined THEN labels[n]
              ELSE IF absolutes[n] # Undefined THEN absolutes[n]
              ELSE IF n \in commons THEN Common ELSE Undefined

IsUndefined(entry) == entry.place.kind \in {"undefined", "common"}

InOrder(names) == Those(Alphabet, names)

Entries(names, bind(_)) ==
    [i \in DOMAIN names |-> Entry(names[i], PlaceOf(names[i]), bind(names[i]))]

\* Mach-O objects have the unwind sections as well, that finish writes first.
Table == IF format = "macho" THEN layout.sections \o WrittenUnwind(Len(rows), frames)
         ELSE layout.sections

\* pending_relocs, section after section
InSectionOf(rs, i) == Those(rs, { r \in ToSet(rs) : r.section = i })
AllRelocs == FlattenSeq([i \in DOMAIN layout.sections |-> InSectionOf(relocs, i)])
NamesUsed(s) == Distinct([i \in DOMAIN s |-> s[i].target.name])
NamedBy(relocations) == { r \in relocations : r.target.kind = "symbol" }
UsedNames    == NamesUsed(Those(AllRelocs, NamedBy(ToSet(relocs))))

\* Of the relocation r, with the index it gives its symbol.
Numbered(r, IndexOfTarget(_)) ==
    [type   |-> r.type, offset |-> r.offset,
     symbol |-> IF r.target.kind = "raw" THEN 0 ELSE IndexOfTarget(r.target),
     addend |-> IF r.target.kind = "raw" THEN r.target.value ELSE r.addend]

NumberedRelocs(rs, IndexOfTarget(_)) ==
    [i \in DOMAIN Table |->
        LET mine == InSectionOf(rs, i) IN [k \in DOMAIN mine |-> Numbered(mine[k], IndexOfTarget)]]

-----------------------------------------------------------------------------
(* finish: first the sections, then every name once. *)

Attributed == attrs.global \union attrs.weak

MachOBind(n) == IF IsUndefined(Entry(n, PlaceOf(n), "")) \/ n \in attrs.global
                THEN "global" ELSE "local"

MachOEntries ==
    LET plain  == Defined \ (Attributed \union HiddenNames)
        known  == plain \union Absolutely \union commons \union Attributed
        unseen == Those(UsedNames, Names \ (known \union Defined))
    IN  [i \in DOMAIN Table |-> Entry(Temp(i), Place(i, 0), "local")]
          \o Entries(InOrder(plain), MachOBind)
          \o Entries(InOrder(Absolutely \ Attributed), MachOBind)
          \o Entries(InOrder(commons), MachOBind)
          \o Entries(InOrder(Attributed \ commons), MachOBind)
          \o Entries(unseen, MachOBind)

(* The order of the table.  A local symbol that a relocation needs sorts   *)
(* with the symbol the relocation is in (its owner), or by its first use.  *)

Leading  == {"__literal16", "__thread_data", "__thread_bss"}  \* the temporary first
Trailing == {"__cstring", "__const", "__data", "__bss"}       \* and here last

NameOfSection(i) == Table[i].name

\* Names that only relocations mention are noted before the symbols are sorted.
Order     == Distinct(noted \o NewTemps(layout.sections, Table) \o UsedNames)
Number(n) == Position(Order, n)
Never     == Len(Order) + 1

Owners(r) == { n \in Defined : /\ labels[n].section = r.section
                               /\ labels[n].value <= r.offset }

\* The last label at or before the relocation; at one place one that is not
\* local, and of those the one that was noted last.
Owner(r) ==
    LET Below(m, n) ==
            \/ labels[m].value < labels[n].value
            \/ /\ labels[m].value = labels[n].value
               /\ \/ m \in LocalNames /\ n \notin LocalNames
                  \/ (m \in LocalNames <=> n \in LocalNames) /\ Number(m) < Number(n)
    IN  CHOOSE n \in Owners(r) : \A m \in Owners(r) \ {n} : Below(m, n)

\* section_base_reloc_anchor_order
Anchoring(n) ==
    { r \in ToSet(relocs) :
        /\ r.target = Symbol(n)
        /\ Owners(r) # {}
        /\ Owner(r) \notin attrs.global }

AnchorOf(n) ==
    IF n \in Defined /\ labels[n].value = 0 /\ NameOfSection(labels[n].section) # "__literal16"
    THEN Min({ Number(Owner(r)) : r \in Anchoring(n) } \union {Never})
    ELSE Never

PageTargets ==
    NamesUsed(Those(AllRelocs, { r \in ToSet(relocs) : r.type \in {"PAGE21", "PAGEOFF12"} }))

\* page_target_base_use_order
FirstUses == Those(PageTargets, Defined \ (HiddenNames \union PoolNames))

TargetsIn(i) == { n \in (ToSet(PageTargets) \intersect Defined) \ HiddenNames :
                     labels[n].section = i }

\* section_temp_trailing_order, of the sections where it has an entry
Trails(i) ==
    /\ NameOfSection(i) \in Trailing
    /\ \E n \in TargetsIn(i) : labels[n].value = 0
    /\ TargetsIn(i) \ PoolNames # {}

TrailingOrder(i) == Max({ Number(n) : n \in TargetsIn(i) \ PoolNames })

(* The comparison, as the two halves of a key and what is decided between  *)
(* them for a temporary and a label at one place.  Names are compared by   *)
(* Alphabet.                                                               *)

IsTemp(entry)   == entry.name \in ToSet(TempNames)
IsPlaced(entry) == entry.place.kind = "defined"
InAlphabet(entry) == Position(Alphabet, entry.name)

\* Mutant: what is global is taken for a definition first.
RankGlobalFirst(entry) ==
    IF entry.bind = "global" THEN 1 ELSE IF IsUndefined(entry) THEN 2 ELSE 0

\* symbol_class_rank
Rank(entry) == IF IsUndefined(entry) THEN 2 ELSE IF entry.bind = "global" THEN 1 ELSE 0

Bucket(entry) ==
    CASE /\ ~IsTemp(entry) /\ IsPlaced(entry)
         /\ Table[entry.place.section].kind = "text" -> 0
      [] Contains(FirstUses, entry.name) -> 1
      [] OTHER -> 2

Opening(entry) ==
    IF Rank(entry) # 0 THEN << Rank(entry), InAlphabet(entry), 0, 0 >>
    ELSE << 0, IF entry.name = Temp(1) THEN 0 ELSE 1, Bucket(entry),
            IF Bucket(entry) = 1 THEN Position(FirstUses, entry.name) ELSE 0 >>

Closing(entry) ==
    LET trails == IsTemp(entry) /\ Trails(entry.place.section)
        order  == IF trails THEN TrailingOrder(entry.place.section)
                  ELSE IF IsTemp(entry) THEN Number(entry.name)
                  ELSE Min({Number(entry.name), AnchorOf(entry.name)})
    IN  IF Rank(entry) # 0 THEN << 0, 0, 0, 0 >>
        ELSE << order, IF trails THEN 1 ELSE 0, Number(entry.name), InAlphabet(entry) >>

\* -1 when the first of the two, at one place, is to come first, 1 the second
Forced(a, b) ==
    IF ~IsPlaced(a) \/ a.place # b.place \/ (IsTemp(a) <=> IsTemp(b)) THEN 0
    ELSE IF NameOfSection(a.place.section) \in Leading THEN (IF IsTemp(a) THEN -1 ELSE 1)
    ELSE IF Trails(a.place.section) THEN (IF IsTemp(a) THEN 1 ELSE -1)
    ELSE 0

Keyed(entry) == [entry |-> entry, opening |-> Opening(entry), closing |-> Closing(entry)]

\* Negative, zero or positive as a is before, like or behind b.
Difference(a, b) ==
    LET all == [k \in 1 .. 4 |-> a.opening[k] - b.opening[k]]
                 \o << Forced(a.entry, b.entry) >>
                 \o [k \in 1 .. 4 |-> a.closing[k] - b.closing[k]]
        decisive == { k \in DOMAIN all : all[k] # 0 }
    IN  IF decisive = {} THEN 0 ELSE all[Min(decisive)]

(* Sorting is stable, and it matters that it is by insertion where the     *)
(* comparison is not an order.                                             *)
Behind(keyed) == { p \in keyed \X keyed : Difference(p[1], p[2]) > 0 }

MachOSorted ==
    LET entries == MachOEntries
        keyed  == [i \in DOMAIN entries |-> Keyed(entries[i])]
        sorted == Sorted(keyed, Behind(ToSet(keyed)))
    IN  [i \in DOMAIN sorted |-> sorted[i].entry]

IndexNamed(entries, n) == Position([i \in DOMAIN entries |-> entries[i].name], n)

\* Mutant: symbols are counted before they are sorted.
MachOObjectOfUnsorted ==
    LET entries == MachOEntries
    IN  [kind |-> "macho", sections |-> Table, symbols |-> MachOSorted,
         relocs |-> NumberedRelocs(relocs, LAMBDA target : IndexNamed(entries, target.name))]

MachOObject ==
    LET sorted == MachOSorted
    IN  [kind |-> "macho", sections |-> Table, symbols |-> sorted,
         relocs |-> NumberedRelocs(relocs, LAMBDA target : IndexNamed(sorted, target.name))]

FinishMachO ==
    /\ Finish
    /\ UNCHANGED <<mapping, content, file>>
    /\ noted' = IF phase' = "done" THEN Order ELSE noted
    /\ object' = IF phase' = "done" THEN MachOObject ELSE None

-----------------------------------------------------------------------------
(* finish_elf: sections, mapping symbols, then names; a relocation against *)
(* a fixed definition refers to its section.                               *)

\* Mutant: .local does not take .globl back.
ElfBindOfGlobal(n) ==
    IF n \in attrs.weak THEN "weak" ELSE IF n \in attrs.global THEN "global" ELSE "local"

ElfBind(n) == IF ~Preemptible(n) THEN "local" ELSE IF n \in attrs.weak THEN "weak" ELSE "global"

Marks(i) ==
    LET marks == mapping[NameOfSection(i)].marks
    IN  [k \in DOMAIN marks |-> Entry(marks[k].kind, Place(i, marks[k].offset), "local")]

\* By place, and at one place in the order of their numbers.
Follows(a, b) ==
    LET x == labels[a.name]
        y == labels[b.name]
    IN  \/ x.section > y.section
        \/ x.section = y.section /\ x.value > y.value
        \/ x = y /\ Number(a.name) > Number(b.name)

ByPlace(entries) ==
    Sorted(entries, { p \in ToSet(entries) \X ToSet(entries) : Follows(p[1], p[2]) })

Locals(entries) == Those(entries, { e \in ToSet(entries) : e.bind = "local" })
Others(entries) == Those(entries, { e \in ToSet(entries) : e.bind # "local" })

ElfEntries ==
    LET seen     == Defined \ DotNames
        defined  == ByPlace(Entries(InOrder(seen), ElfBind))
        absolute == InOrder(Absolutely \ seen)
        values64 == [i \in DOMAIN absolute |->
                        Entry(absolute[i], absolutes[absolute[i]],
                              IF Preemptible(absolute[i]) THEN "global" ELSE "local")]
        common   == InOrder(commons)
        named    == seen \union Absolutely \union commons
        declared == attrs.global \union attrs.weak
        Undef(names) == Entries(names, LAMBDA n : IF n \in attrs.weak THEN "weak" ELSE "global")
        first    == InOrder(declared \ (named \union DotNames))
        second   == InOrder(attrs.local \ (named \union declared \union DotNames))
        unseen   == Those(UsedNames, Names \ (named \union Defined \union declared
                                                \union attrs.local))
    IN  [i \in DOMAIN layout.sections |-> Entry("", Place(i, 0), "local")]
          \o FlattenSeq([i \in DOMAIN layout.sections |-> Marks(i)])
          \o Locals(defined) \o Locals(values64)
          \o Others(defined) \o Others(values64)
          \o [i \in DOMAIN common |-> Entry(common[i], Common, "global")]
          \o Undef(first) \o Undef(second) \o Undef(unseen)

ElfObject ==
    LET entries == ElfEntries
        asked   == [i \in DOMAIN relocs |-> Rela(relocs[i])]
        IndexOfTarget(t) == IF t.kind = "section" THEN t.section
                            ELSE IndexNamed(entries, t.name)
    IN  [kind |-> "elf", sections |-> Table, symbols |-> entries,
         relocs |-> NumberedRelocs(asked, IndexOfTarget)]

FinishElfObject ==
    /\ FinishElf
    /\ UNCHANGED <<noted, mapping, content, file>>
    /\ object' = IF phase' = "done" THEN ElfObject ELSE None

-----------------------------------------------------------------------------
(* The writers. *)

CountOf(entries, Belongs(_)) == Cardinality({ i \in DOMAIN entries : Belongs(entries[i]) })

IsLocal(entry)     == entry.bind = "local"
IsExternal(entry)  == ~IsLocal(entry) /\ ~IsUndefined(entry)

RelocWidth(r) == IF r.type \in {"UNSIGNED", "SUBTRACTOR", "POINTER_TO_GOT"} THEN 8 ELSE 4

\* What must follow at the same offset.
Partners(type) == CASE type = "ADDEND"     -> {"BRANCH26", "PAGE21", "PAGEOFF12"}
                    [] type = "SUBTRACTOR" -> {"UNSIGNED"}
                    [] OTHER -> {}

\* Mutant: relocations of one place change their order.
DescendingReversed(rs) ==
    Sorted(Reverse(rs), { p \in ToSet(rs) \X ToSet(rs) : p[1].offset < p[2].offset })

\* sorted_relocations
Descending(rs) == Sorted(rs, { p \in ToSet(rs) \X ToSet(rs) : p[1].offset < p[2].offset })

\* validate_relocations, of section i of the object o
ValidMachO(o, i) ==
    LET rs == Descending(o.relocs[i])
    IN  /\ o.sections[i].kind = "zerofill" => rs = <<>>
        /\ \A k \in DOMAIN rs :
              /\ rs[k].offset + RelocWidth(rs[k]) <= o.sections[i].size
              /\ rs[k].type # "ADDEND" => rs[k].symbol \in DOMAIN o.symbols
              /\ Partners(rs[k].type) # {} =>
                    /\ k < Len(rs)
                    /\ rs[k + 1].offset = rs[k].offset
                    /\ rs[k + 1].type \in Partners(rs[k].type)

\* The symbol table is cut by counts into local ones, definitions and the
\* undefined ones.
MachOFile(o) ==
    [kind    |-> "macho",
     symbols |-> o.symbols,
     relocs  |-> [i \in DOMAIN o.relocs |-> Descending(o.relocs[i])],
     groups  |-> << CountOf(o.symbols, LAMBDA e : IsLocal(e) /\ ~IsUndefined(e)),
                    CountOf(o.symbols, IsExternal),
                    CountOf(o.symbols, IsUndefined) >>]

\* validate: once at the end of finish_elf, again in write_elf
ValidElf(o, i) ==
    \A k \in DOMAIN o.relocs[i] :
        LET r == o.relocs[i][k]
        IN  /\ r.symbol \in DOMAIN o.symbols
            /\ o.sections[i].kind # "zerofill"
            /\ r.offset + RelocWidth(r) <= o.sections[i].len

\* Local symbols first, the others in the order they have.
LocalsFirst(symbolTable) ==
    LET indices == [i \in DOMAIN symbolTable |-> i]
        locals  == { i \in DOMAIN indices : IsLocal(symbolTable[i]) }
    IN  Those(indices, locals) \o Those(indices, DOMAIN indices \ locals)

\* model_to_file.  finish_elf makes them in that order already.
FileIndex(order, i) == Position(order, i)

ElfFile(o) ==
    LET order == LocalsFirst(o.symbols)
        Renumbered(r) == [r EXCEPT !.symbol = FileIndex(order, @)]
        locals == CountOf(o.symbols, IsLocal)
    IN  [kind    |-> "elf",
         symbols |-> [i \in DOMAIN order |-> o.symbols[order[i]]],
         relocs  |-> [i \in DOMAIN o.relocs |->
                         [k \in DOMAIN o.relocs[i] |-> Renumbered(o.relocs[i][k])]],
         groups  |-> << locals, Len(o.symbols) - locals >>]

Refused == [kind |-> "refused"]

\* write_macho, write_elf
Output(o) ==
    IF o.kind = "macho"
    THEN IF \A i \in DOMAIN o.relocs : ValidMachO(o, i) THEN MachOFile(o) ELSE Refused
    ELSE IF \A i \in DOMAIN o.relocs : ValidElf(o, i) THEN ElfFile(o) ELSE Refused

Write ==
    /\ object # None
    /\ file = None
    /\ file' = Output(object)
    /\ UNCHANGED <<vars, noted, mapping, content, object>>

ObjectsNext ==
    \/ Measure \/ EmitStatement \/ ResetMarks \/ Elsewhere
    \/ FinishMachO \/ FinishElfObject \/ Write

ObjectsSpec == ObjectsInit /\ [][ObjectsNext]_<<vars, objects>>

-----------------------------------------------------------------------------
(* Properties. *)

IsWritten == file.kind \in {"macho", "elf"}

\* Names are in the file once, where they are defined, and the undefined
\* ones a relocation uses are, too; a name that nothing exports is local.
\* What assemblers keep to themselves is not written, unless it is exported;
\* in ELF no label .L is, though an assignment to .L is written.
IsKept(n) == IF format = "elf" THEN n \in DotNames ELSE n \in HiddenNames /\ ~Declared(n)
AsLabel(n) == labels[n] # Undefined /\ (format = "elf" => ~IsKept(n))

ShouldBeWritten(n) ==
    IF AsLabel(n) THEN ~IsKept(n)
    ELSE absolutes[n] # Undefined \/ n \in commons \/ n \in Relocated \/
         (Declared(n) /\ ~(format = "elf" /\ n \in DotNames))

PlaceWritten(n) ==
    IF AsLabel(n) THEN labels[n]
    ELSE IF absolutes[n] # Undefined THEN absolutes[n]
    ELSE IF n \in commons THEN Common ELSE Undefined

SymbolsWritten ==
    IsWritten =>
        \A n \in Names :
            LET found == { i \in DOMAIN file.symbols : file.symbols[i].name = n }
            IN  /\ Cardinality(found) = (IF ShouldBeWritten(n) THEN 1 ELSE 0)
                /\ \A i \in found :
                      /\ file.symbols[i].place = PlaceWritten(n)
                      /\ file.symbols[i].bind = "local" <=>
                            /\ PlaceWritten(n).kind \notin {"undefined", "common"}
                            /\ IF format = "elf" THEN ~Preemptible(n) ELSE n \notin attrs.global

\* Through the sorting of symbols and relocations, twice over, a relocation
\* of the file still names what the fixup asked for, and those of one place
\* still follow each other as they were recorded.
Answers(f, r) ==
    /\ f.type = r.type
    /\ f.addend = (IF r.target.kind = "raw" THEN r.target.value ELSE r.addend)
    /\ CASE r.target.kind = "symbol"  -> file.symbols[f.symbol].name = r.target.name
         [] r.target.kind = "section" -> file.symbols[f.symbol] =
                                            Entry("", Place(r.target.section, 0), "local")
         [] OTHER -> TRUE

RelocationsKept ==
    IsWritten =>
        \A i \in DOMAIN layout.sections :
            LET asked == InSectionOf(relocs, i)
                AtOffset(s, o) == Those(s, { r \in ToSet(s) : r.offset = o })
            IN  /\ Len(file.relocs[i]) = Len(asked)
                /\ \A o \in { r.offset : r \in ToSet(asked) } :
                      LET got  == AtOffset(file.relocs[i], o)
                          want == AtOffset(asked, o)
                      IN  /\ Len(got) = Len(want)
                          /\ \A k \in DOMAIN want : Answers(got[k], want[k])

\* LC_DYSYMTAB and sh_info say where groups of symbols begin by counting
\* them: the symbols must be in that order, and in Mach-O those that are not
\* local are sorted by name, as the linker searches for them.
GroupOf(entry) ==
    IF IsLocal(entry) THEN 1
    ELSE IF file.kind = "elf" \/ ~IsUndefined(entry) THEN 2 ELSE 3

GroupEnd(g) ==
    (IF g > 0 THEN file.groups[1] ELSE 0) + (IF g > 1 THEN file.groups[2] ELSE 0)
                                          + (IF g > 2 THEN file.groups[3] ELSE 0)

GroupsContiguous ==
    IsWritten =>
        /\ \A i \in DOMAIN file.symbols :
              LET g == GroupOf(file.symbols[i]) IN i \in GroupEnd(g - 1) + 1 .. GroupEnd(g)
        /\ file.kind = "macho" =>
              \A i, j \in DOMAIN file.symbols :
                 i < j /\ GroupOf(file.symbols[i]) = GroupOf(file.symbols[j])
                       /\ ~IsLocal(file.symbols[i])
                    => InAlphabet(file.symbols[i]) < InAlphabet(file.symbols[j])

\* What the assembler finished no writer refuses: every check of theirs
\* (pairs of relocations, bounds, indices) is one the assembler's own checks
\* imply.
WriterAccepts == file # Refused

\* In ELF the mapping symbol at or before what was emitted has its kind, so
\* that a disassembler knows code from data (of several at one place the last
\* in the table counts); only data can have none.
ContentDescribed ==
    IsWritten /\ file.kind = "elf" =>
        \A c \in content :
            LET before == { i \in DOMAIN file.symbols :
                               /\ file.symbols[i].name \in {Code, Data}
                               /\ file.symbols[i].place.section = c.section
                               /\ file.symbols[i].place.value <= c.offset }
                Earlier(i, j) ==
                    \/ file.symbols[i].place.value < file.symbols[j].place.value
                    \/ /\ file.symbols[i].place.value = file.symbols[j].place.value
                       /\ i < j
            IN  IF before = {} THEN c.kind = Data
                ELSE \E i \in before : /\ \A j \in before \ {i} : Earlier(j, i)
                                       /\ file.symbols[i].name = c.kind

=============================================================================
