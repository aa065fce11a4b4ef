----------------------------- MODULE X86Assembler -----------------------------
(***************************************************************************)
(* The x86_64 assembler (src/x86/assemble.rs): statements become items in  *)
(* streams, one per subsection; streams are merged into sections; every    *)
(* section is laid out by X86Relax; and symbols and relocations are made   *)
(* from what is then known.  The actions that lay a section out are those  *)
(* of X86Relax, joined with what the same loops do to relocations.         *)
(***************************************************************************)
EXTENDS Lists

CONSTANTS
    Programs,               \* the sources considered: sequences of statements
    Names,                  \* symbols that statements may name
    Temporary,              \* those that begin with .L
    MaxOffset,              \* u64::MAX
    MinShort, MaxShort,     \* i8
    MinLong, MaxLong,       \* i32
    Modulus,                \* how many values a datum of 1, 2, 4, 8 bytes has
    Linkings                \* what a linker may do: [base, ext, preempts]

ASSUME NamesAssumption == Temporary \subseteq Names

\* Subsections have numbers.
ASSUME ProgramsAssumption ==
    \A p \in Programs :
        /\ p \in Seq(ToSet(p))
        /\ \A i \in DOMAIN p : p[i].op = "section" => p[i].sub \in Int

VARIABLES
    prog, phase,
    cursor,         \* where the loop of this phase is
    streams, current,       \* SubsectionBuild; 0 before the first section
    info,           \* syminfo
    commons,        \* .comm directives, with what .local said of each by then
    labelSection,   \* label_section: a stream, and once merged a section
    secs, laid,     \* merged sections; those that are laid out
    resolved,       \* resolved_labels
    sizeDot,        \* size_dot of the section that is laid out
    relocs, folded, \* Laid::relocs of all sections in turn; differences written as numbers
    symbols, symIndex, sectionSym,
    bss, bssSize,   \* local_bss, and how far .bss reaches
    relas, patches, \* relocations of the object; those resolved in place
    stage, at, pos, long, offsets, grew, itemOffsets, emitted, written  \* X86Relax

source   == <<prog, streams, current, info, commons, labelSection>>
layout   == <<secs, laid, resolved, sizeDot, relocs, folded>>
object   == <<symbols, symIndex, sectionSym, bss, bssSize, relas, patches>>
relaxing == <<stage, at, pos, long, offsets, grew, itemOffsets, emitted, written>>

vars == <<phase, cursor, source, layout, object, relaxing>>

\* The section that is being laid out, as X86Relax sees it.
Laying ==
    [items  |-> secs[Len(laid) + 1].items,
     labels |-> secs[Len(laid) + 1].labels,
     weak   |-> { n \in Names : info[n].weak },
     nobits |-> secs[Len(laid) + 1].nobits]

Relax == INSTANCE X86Relax WITH Sections <- {}, section <- Laying

\* HashMap::insert
Inserted(map, key, value) ==
    [k \in {key} \union DOMAIN map |-> IF k = key THEN value ELSE map[k]]

NoName == ""
NoInfo == [globl |-> FALSE, weak |-> FALSE, hidden |-> FALSE, local |-> FALSE, typ |-> "none",
           size |-> [kind |-> "none"], sizeSection |-> 0, aliasOf |-> NoName]

\* default_section_metadata
DefaultType(name) == IF name = ".bss" THEN "nobits" ELSE "progbits"
DefaultFlags(name) ==
    CASE name = ".text" -> "ax" [] name \in {".data", ".bss"} -> "aw" [] name = ".rodata" -> "a" [] OTHER -> ""

NewStream(name, sub) ==
    [section |-> name, sub |-> sub, items |-> <<>>, labels |-> <<>>, order |-> <<>>,
     align |-> 1, type |-> DefaultType(name), flags |-> DefaultFlags(name)]

Given(option, default) == IF option = "none" THEN default ELSE option

Init ==
    /\ prog \in Programs
    /\ phase = "pass1" /\ cursor = 1
    /\ streams = << NewStream(".text", 0), NewStream(".data", 0), NewStream(".bss", 0) >>
    /\ current = 0
    /\ info = [n \in Names |-> NoInfo]
    /\ commons = <<>> /\ labelSection = <<>>
    /\ secs = <<>> /\ laid = <<>> /\ resolved = <<>> /\ sizeDot = <<>>
    /\ relocs = <<>> /\ folded = <<>>
    /\ symbols = <<>> /\ symIndex = <<>> /\ sectionSym = <<>>
    /\ bss = <<>> /\ bssSize = 0
    /\ relas = <<>> /\ patches = <<>>
    /\ stage = "measure" /\ at = 1 /\ pos = 0 /\ long = <<>> /\ offsets = <<>>
    /\ grew = FALSE /\ itemOffsets = <<>> /\ emitted = <<>> /\ written = 0

-----------------------------------------------------------------------------
(* Pass 1. *)

S == prog[cursor]

Reading(ops) == phase = "pass1" /\ cursor <= Len(prog) /\ S.op \in ops

\* What needs a section opens .text if there is none.
Here == IF current = 0 THEN 1 ELSE current

StreamIndex(name, sub) ==
    SelectInSeq(streams, LAMBDA s : s.section = name /\ s.sub = sub)

CommonNames(local) == { commons[i].sym : i \in { j \in DOMAIN commons : commons[j].local = local } }

\* The errors of pass 1.
Refused ==
    \/ /\ S.op = "label"
       /\ S.name \in CommonNames(TRUE) \union CommonNames(FALSE) \union DOMAIN labelSection
    \/ /\ S.op = "section"
       /\ StreamIndex(S.name, S.sub) # 0
       /\ LET stream == streams[StreamIndex(S.name, S.sub)]
          IN  \/ Given(S.type, stream.type) # stream.type
              \/ Given(S.flags, stream.flags) # stream.flags
    \/ /\ S.op = "attr" /\ S.attr = "weak"
       /\ S.name \in CommonNames(FALSE)
    \/ S.op = "size" /\ S.size.kind = "dot" /\ current = 0
    \/ /\ S.op = "comm"
       /\ \/ S.name \in DOMAIN labelSection
          \/ info[S.name].weak /\ ~info[S.name].local
          \/ info[S.name].local /\ S.name \in CommonNames(TRUE)
    \/ S.op = "data" /\ ~S.zero /\ streams[Here].type = "nobits"

Refuse ==
    /\ phase = "pass1" /\ cursor <= Len(prog)
    /\ Refused
    /\ phase' = "failed"
    /\ UNCHANGED <<cursor, source, layout, object, relaxing>>

Accept(ops) ==
    /\ Reading(ops)
    /\ ~Refused
    /\ cursor' = cursor + 1
    /\ UNCHANGED <<prog, phase, layout, object, relaxing>>

Label ==
    /\ Accept({"label"})
    /\ current' = Here
    /\ labelSection' = Inserted(labelSection, S.name, Here)
    /\ streams' = [streams EXCEPT
            ![Here].labels = Inserted(@, S.name, Len(streams[Here].items) + 1),
            ![Here].order  = Append(@, S.name)]
    /\ UNCHANGED <<info, commons>>

SwitchSection ==
    /\ Accept({"section"})
    /\ LET found == StreamIndex(S.name, S.sub)
           new   == [NewStream(S.name, S.sub) EXCEPT !.type = Given(S.type, @), !.flags = Given(S.flags, @)]
       IN  IF found # 0
           THEN current' = found /\ UNCHANGED streams
           ELSE current' = Len(streams) + 1 /\ streams' = Append(streams, new)
    /\ UNCHANGED <<info, commons, labelSection>>

\* .globl, .weak, .hidden, .local; .extern sets nothing.
Attribute ==
    /\ Accept({"attr"})
    /\ info' = CASE S.attr = "globl"  -> [info EXCEPT ![S.name].globl = TRUE]
                 [] S.attr = "weak"   -> [info EXCEPT ![S.name].weak = TRUE]
                 [] S.attr = "hidden" -> [info EXCEPT ![S.name].hidden = TRUE]
                 [] S.attr = "local"  -> [info EXCEPT ![S.name].local = TRUE]
                 [] S.attr = "extern" -> info
    /\ UNCHANGED <<streams, current, commons, labelSection>>

Type ==
    /\ Accept({"type"})
    /\ info' = [info EXCEPT ![S.name].typ = S.typ]
    /\ UNCHANGED <<streams, current, commons, labelSection>>

Pushed(item) == [streams EXCEPT ![Here].items = Append(@, item)]

Size ==
    /\ Accept({"size"})
    /\ LET dot == S.size.kind = "dot"
       IN  /\ info' = [info EXCEPT ![S.name].size = S.size,
                                   ![S.name].sizeSection = IF dot THEN current ELSE 0]
           /\ streams' = IF dot THEN Pushed([kind |-> "sizedot", sym |-> S.name, line |-> cursor])
                         ELSE streams
    /\ UNCHANGED <<current, commons, labelSection>>

Comm ==
    /\ Accept({"comm"})
    /\ commons' = Append(commons, [sym |-> S.name, size |-> S.size, align |-> S.align,
                                   local |-> info[S.name].local])
    /\ UNCHANGED <<streams, current, info, labelSection>>

\* .set and .file are only noted: see Aliases and Files.
Note ==
    /\ Accept({"set", "file"})
    /\ UNCHANGED <<streams, current, info, commons, labelSection>>

AlignTo ==
    /\ Accept({"align"})
    /\ current' = Here
    /\ streams' = [Pushed([kind |-> "align", align |-> S.align, max |-> S.max, line |-> cursor])
                      EXCEPT ![Here].align = IF S.align > @ THEN S.align ELSE @]
    /\ UNCHANGED <<info, commons, labelSection>>

\* Data, strings, space, and instructions that are no branches: so many
\* bytes, with fields that refer to symbols.  In .bss only zeros count.
Bytes ==
    /\ Accept({"data", "insn"})
    /\ current' = Here
    /\ streams' = Pushed([kind |-> "fixed", size |-> S.size, fields |-> S.fields, line |-> cursor])
    /\ UNCHANGED <<info, commons, labelSection>>

Branch ==
    /\ Accept({"branch"})
    /\ current' = Here
    /\ streams' = Pushed([kind |-> "branch", jcc |-> S.jcc, label |-> S.label, line |-> cursor])
    /\ UNCHANGED <<info, commons, labelSection>>

-----------------------------------------------------------------------------
(* merge_subsections: the streams of a section in the order of their       *)
(* numbers, sections in the order of their first streams.                  *)

SectionOrder == Distinct([k \in DOMAIN streams |-> streams[k].section])

\* The streams of a section, in the order of the source; without the sort
\* they would stay in it.
StreamsIn(name) ==
    Those([k \in DOMAIN streams |-> k], { k \in DOMAIN streams : streams[k].section = name })

StreamsOf(name) ==
    LET indices == DOMAIN streams
    IN  Sorted(StreamsIn(name),
               { jk \in indices \X indices : streams[jk[1]].sub > streams[jk[2]].sub })

Merged(name) ==
    LET parts == StreamsOf(name)
        ItemsOf(count) == FlattenSeq([i \in 1 .. count |-> streams[parts[i]].items])
        Part(label) == CHOOSE i \in DOMAIN parts : label \in DOMAIN streams[parts[i]].labels
        labels == UNION { DOMAIN streams[parts[i]].labels : i \in DOMAIN parts }
    IN  [name   |-> name,
         items  |-> ItemsOf(Len(parts)),
         labels |-> [l \in labels |->
                        Len(ItemsOf(Part(l) - 1)) + streams[parts[Part(l)]].labels[l]],
         order  |-> FlattenSeq([i \in DOMAIN parts |-> streams[parts[i]].order]),
         align  |-> FoldSeq(LAMBDA a, b : IF a > b THEN a ELSE b, 1,
                            [i \in DOMAIN parts |-> streams[parts[i]].align]),
         nobits |-> streams[SelectLastInSeq(streams, LAMBDA s : s.section = name)].type = "nobits"]

Fresh(items) ==
    /\ stage' = "measure" /\ at' = 1 /\ pos' = 0
    /\ long' = [i \in DOMAIN items |-> FALSE]
    /\ offsets' = <<>> /\ grew' = FALSE
    /\ itemOffsets' = <<>> /\ emitted' = <<>> /\ written' = 0

\* A stream's section, as label_section and size_section are remapped.
SectionOf(stream) == SelectInSeq(SectionOrder, LAMBDA name : name = streams[stream].section)

Merge ==
    /\ phase = "pass1" /\ cursor = Len(prog) + 1
    /\ LET names == SectionOrder
       IN  secs' = [i \in DOMAIN names |-> Merged(names[i])]
    /\ labelSection' = [l \in DOMAIN labelSection |-> SectionOf(labelSection[l])]
    /\ info' = [n \in Names |->
                   [info[n] EXCEPT !.sizeSection = IF @ = 0 THEN 0 ELSE SectionOf(@)]]
    /\ phase' = "relax"
    /\ Fresh(secs'[1].items)
    /\ UNCHANGED <<cursor, prog, streams, current, commons, laid, resolved, sizeDot, relocs, folded, object>>

-----------------------------------------------------------------------------
(* Layout of one section after the other. *)

\* What the emission of a field at offset p comes to.  Absolute fields of 4
\* and 8 bytes and PC-relative ones have a relocation.
Reloc(p, sym, type, addend, field, line) ==
    [kind |-> "reloc", sec |-> Len(laid) + 1, at |-> p, sym |-> sym, type |-> type,
     addend |-> addend, field |-> field, line |-> line]

Resolvable(atom) == atom = "." \/ atom \in DOMAIN resolved
AtomValue(atom, p) == IF atom = "." THEN [sec |-> Len(laid) + 1, off |-> p] ELSE resolved[atom]

Folds(f, p) ==
    /\ Resolvable(f.minuend) /\ Resolvable(f.subtrahend)
    /\ AtomValue(f.minuend, p).sec = AtomValue(f.subtrahend, p).sec

\* to_le_bytes()[..width]: what does not fit is cut off.
FoldedValue(f, p) ==
    (AtomValue(f.minuend, p).off - AtomValue(f.subtrahend, p).off + f.addend) % Modulus[f.width]

RelocatableDifference(f, p) ==
    /\ f.minuend # "."
    /\ Resolvable(f.subtrahend)
    /\ AtomValue(f.subtrahend, p).sec = Len(laid) + 1
    /\ f.width \in {4, 8}

DifferenceAddend(f, p) == p - AtomValue(f.subtrahend, p).off + f.addend

DataOutcome(f, p, line) ==
    CASE f.kind = "num" -> [kind |-> "none"]
      [] f.kind = "insn" -> Reloc(p, f.sym, f.type, f.addend, f, line)
      [] f.kind = "sym" /\ f.width \in {4, 8} ->
             Reloc(p, f.sym, IF f.width = 4 THEN "abs32" ELSE "abs64", f.addend, f, line)
      [] f.kind = "diff" /\ Folds(f, p) ->
             [kind |-> "folded", sec |-> Len(laid) + 1, at |-> p, value |-> FoldedValue(f, p),
              field |-> f, line |-> line]
      [] f.kind = "diff" /\ ~Folds(f, p) /\ RelocatableDifference(f, p) ->
             Reloc(p, f.minuend, IF f.width = 4 THEN "pc32" ELSE "pc64", DifferenceAddend(f, p), f, line)
      [] OTHER -> [kind |-> "error"]

\* The fields of the item that is emitted, at pos.
Outcomes ==
    LET item == Laying.items[at]
    IN  [i \in DOMAIN item.fields |->
            DataOutcome(item.fields[i], pos + item.fields[i].at, item.line)]

FieldError == \E i \in DOMAIN Outcomes : Outcomes[i].kind = "error"

Relaxing == phase = "relax" /\ UNCHANGED <<phase, cursor, source, object, secs, laid>>

MeasureAndGrow ==
    /\ Relaxing
    /\ \/ Relax!MeasureItem \/ Relax!TooLarge \/ Relax!MeasureEnd
       \/ Relax!GrowItem \/ Relax!KeepItem \/ Relax!NextRound \/ Relax!Settle
       \/ Relax!FinalItem
       \/ Relax!EmitShort \/ Relax!EmitLong \/ Relax!EmitAlign \/ Relax!EmitEnd
    /\ UNCHANGED <<resolved, sizeDot, relocs, folded>>

\* After the second walk the labels of the section have their values.
FixLabels ==
    /\ Relaxing
    /\ Relax!FinalEnd
    /\ resolved' = [l \in DOMAIN Laying.labels |->
                        [sec |-> Len(laid) + 1, off |-> itemOffsets'[Laying.labels[l]]]] @@ resolved
    /\ UNCHANGED <<sizeDot, relocs, folded>>

EmitBytes ==
    /\ Relaxing
    /\ Relax!EmitFixed
    /\ ~FieldError
    /\ relocs' = relocs \o SelectSeq(Outcomes, LAMBDA o : o.kind = "reloc")
    /\ folded' = folded \o SelectSeq(Outcomes, LAMBDA o : o.kind = "folded")
    /\ UNCHANGED <<resolved, sizeDot>>

\* "subtrahend of a relocatable difference must be in the current section"
\* and the like.
EmitFails ==
    /\ phase = "relax"
    /\ Relax!Emitting("fixed")
    /\ FieldError
    /\ phase' = "failed"
    /\ UNCHANGED <<cursor, source, layout, object, relaxing>>

\* A branch to what is no label of the section, or a weak one: PLT32.
EmitExternal ==
    /\ Relaxing
    /\ Relax!EmitExternal
    /\ LET item == Laying.items[at]
           head == Relax!HeadLength(item.jcc)
       IN  relocs' = Append(relocs, Reloc(pos + head, item.label, "plt32", -4,
                                          [kind |-> "branch", end |-> pos + head + 4, sym |-> item.label],
                                          item.line))
    /\ UNCHANGED <<resolved, sizeDot, folded>>

EmitSizeDot ==
    /\ Relaxing
    /\ Relax!EmitSizeDot
    /\ sizeDot' = Inserted(sizeDot, Laying.items[at].sym, pos)
    /\ UNCHANGED <<resolved, relocs, folded>>

SectionLaid ==
    LET sec == secs[Len(laid) + 1]
    IN  [name |-> sec.name, size |-> pos, nobits |-> sec.nobits, sizeDot |-> sizeDot,
         labels |-> [l \in DOMAIN sec.labels |-> itemOffsets[sec.labels[l]]],
         places |-> [i \in DOMAIN emitted |-> emitted[i].at],
         disps  |-> [i \in DOMAIN emitted |-> emitted[i].disp]]

NextSection ==
    /\ phase = "relax"
    /\ stage = "done"
    /\ laid' = Append(laid, SectionLaid)
    /\ sizeDot' = <<>>
    /\ IF Len(laid') < Len(secs)
       THEN Fresh(secs[Len(laid') + 1].items) /\ UNCHANGED <<phase, cursor>>
       ELSE phase' = "alias" /\ cursor' = 1 /\ Fresh(<<>>)
    /\ UNCHANGED <<source, secs, resolved, relocs, folded, object>>

RelaxFails ==
    /\ phase = "relax"
    /\ stage \in {"tooLarge", "tooFar", "broken"}
    /\ phase' = "failed"
    /\ UNCHANGED <<cursor, source, layout, object, relaxing>>

-----------------------------------------------------------------------------
(* .set: an alias takes the place of its target, wherever that is laid. *)

Aliases == SelectSeq(prog, LAMBDA s : s.op = "set")

Holding(label) == SelectInSeq(laid, LAMBDA l : label \in DOMAIN l.labels)

Alias == Aliases[cursor]

ResolveAlias ==
    /\ phase = "alias" /\ cursor <= Len(Aliases)
    /\ LET sec == Holding(Alias.target)
       IN  /\ sec # 0
           /\ laid' = [laid EXCEPT ![sec].labels = Inserted(@, Alias.name, laid[sec].labels[Alias.target])]
           /\ secs' = [secs EXCEPT ![sec].order = Append(@, Alias.name)]
           /\ labelSection' = Inserted(labelSection, Alias.name, sec)
    /\ info' = [info EXCEPT
            ![Alias.name].typ = IF @ = "none" THEN info[Alias.target].typ ELSE @,
            ![Alias.name].aliasOf = IF info[Alias.name].size.kind = "none" THEN Alias.target ELSE @]
    /\ cursor' = cursor + 1
    /\ UNCHANGED <<phase, prog, streams, current, commons, resolved, sizeDot, relocs, folded,
                   object, relaxing>>

AliasFails ==
    /\ phase = "alias" /\ cursor <= Len(Aliases)
    /\ Holding(Alias.target) = 0
    /\ phase' = "failed"
    /\ UNCHANGED <<cursor, source, layout, object, relaxing>>

BssSection == SelectInSeq(secs, LAMBDA s : s.name = ".bss")

AliasesDone ==
    /\ phase = "alias" /\ cursor = Len(Aliases) + 1
    /\ phase' = "commons" /\ cursor' = 1
    /\ bssSize' = laid[BssSection].size
    /\ UNCHANGED <<source, layout, relaxing, symbols, symIndex, sectionSym, bss, relas, patches>>

-----------------------------------------------------------------------------
(* Local commons are allocated in .bss, in the order of their directives. *)

AtCommon == phase = "commons" /\ cursor <= Len(commons)

IsLocalCommon(c) == info[c.sym].local

PowersOfTwo == { 2 ^ k : k \in 0 .. 16 }

AlignedUp(value, align) == IF value % align = 0 THEN value ELSE value + align - (value % align)

LocalAlign(c) == IF c.align = 0 THEN 1 ELSE c.align

AllocateCommon ==
    /\ AtCommon
    /\ LET c == commons[cursor]
           off == AlignedUp(bssSize, LocalAlign(c))
       IN  /\ IsLocalCommon(c)
           /\ LocalAlign(c) \in PowersOfTwo
           /\ off + c.size <= MaxOffset
           /\ bss' = Inserted(bss, c.sym, [off |-> off, size |-> c.size])
           /\ bssSize' = off + c.size
           /\ secs' = [secs EXCEPT ![BssSection].align = IF LocalAlign(c) > @ THEN LocalAlign(c) ELSE @]
    /\ cursor' = cursor + 1
    /\ UNCHANGED <<phase, source, laid, resolved, sizeDot, relocs, folded, relaxing,
                   symbols, symIndex, sectionSym, relas, patches>>

AllocateFails ==
    /\ AtCommon
    /\ LET c == commons[cursor]
       IN  /\ IsLocalCommon(c)
           /\ \/ LocalAlign(c) \notin PowersOfTwo
              \/ AlignedUp(bssSize, LocalAlign(c)) + c.size > MaxOffset
    /\ phase' = "failed"
    /\ UNCHANGED <<cursor, source, layout, object, relaxing>>

SkipCommon ==
    /\ AtCommon
    /\ ~IsLocalCommon(commons[cursor])
    /\ cursor' = cursor + 1
    /\ UNCHANGED <<phase, source, layout, object, relaxing>>

\* One loop ends, the next begins.
Turn(from, count, to) ==
    /\ phase = from /\ cursor = count + 1
    /\ phase' = to /\ cursor' = 1
    /\ UNCHANGED <<source, layout, object, relaxing>>

CommonsDone == Turn("commons", Len(commons), "labels")

-----------------------------------------------------------------------------
(* Symbols. *)

\* A size that is measured (modulo 2^64), or an error; sec is 0 for what is
\* not defined here.
SizeError == [ok |-> FALSE]

SymbolSize(name, sec) ==
    LET i == info[name]
    IN  CASE i.size.kind = "none"  -> [ok |-> TRUE, size |-> 0]
          [] i.size.kind = "const" -> [ok |-> TRUE, size |-> i.size.value]
          [] i.size.kind = "dot" ->
                 LET home == laid[i.sizeSection]
                 IN  IF \/ sec # 0 /\ sec # i.sizeSection
                        \/ name \notin DOMAIN home.sizeDot
                        \/ i.size.base \notin DOMAIN home.labels
                     THEN SizeError
                     ELSE [ok |-> TRUE, size |-> (home.sizeDot[name] - home.labels[i.size.base]) % Modulus[8]]

\* Whose size a label has.
SizeOwner(name) == IF info[name].aliasOf = NoName THEN name ELSE info[name].aliasOf

Binding(i) == IF i.weak THEN "weak" ELSE IF i.globl THEN "global" ELSE "local"

Exported(n) == info[n].globl \/ info[n].weak

LabelOrder ==
    FlattenSeq([i \in DOMAIN secs |-> [j \in DOMAIN secs[i].order |-> <<i, secs[i].order[j]>>]])

AddSymbol(name, symbol) ==
    /\ symbols' = Append(symbols, symbol)
    /\ symIndex' = Inserted(symIndex, name, Len(symbols) + 1)

Step(name) ==
    /\ phase = name
    /\ cursor' = cursor + 1
    /\ UNCHANGED <<phase, source, layout, relaxing, sectionSym, bss, bssSize, relas, patches>>

\* Mutant: .L labels are left out even if they are exported.
HiddenTemporary(label) == label \in Temporary

Omitted(label) == label \in Temporary /\ ~Exported(label)

AddLabel ==
    /\ cursor <= Len(LabelOrder)
    /\ Step("labels")
    /\ LET sec   == LabelOrder[cursor][1]
           label == LabelOrder[cursor][2]
           size  == SymbolSize(SizeOwner(label), sec)
       IN  /\ size.ok
           /\ IF Omitted(label)
              THEN UNCHANGED <<symbols, symIndex>>
              ELSE AddSymbol(label, [name |-> label, bind |-> Binding(info[label]), typ |-> info[label].typ,
                                     hidden |-> info[label].hidden, place |-> sec,
                                     value |-> laid[sec].labels[label], size |-> size.size])

LabelFails ==
    /\ phase = "labels" /\ cursor <= Len(LabelOrder)
    /\ ~SymbolSize(SizeOwner(LabelOrder[cursor][2]), LabelOrder[cursor][1]).ok
    /\ phase' = "failed"
    /\ UNCHANGED <<cursor, source, layout, object, relaxing>>

LabelsDone == Turn("labels", Len(LabelOrder), "locals")

\* The symbol that a statement declares, for two loops over the statements.
Declares(s, commonsToo) ==
    \/ s.op \in {"type", "size"}
    \/ s.op = "comm" /\ commonsToo
    \/ s.op = "attr" /\ (commonsToo => s.attr # "extern")

\* Local commons, at the first statement that names them.
AddLocalCommon ==
    /\ cursor <= Len(prog)
    /\ Step("locals")
    /\ IF Declares(S, TRUE) /\ S.name \in DOMAIN bss /\ S.name \notin DOMAIN symIndex
       THEN AddSymbol(S.name, [name |-> S.name, bind |-> "local", hidden |-> info[S.name].hidden,
                               typ |-> IF info[S.name].typ = "none" THEN "object" ELSE info[S.name].typ,
                               place |-> BssSection, value |-> bss[S.name].off, size |-> bss[S.name].size])
       ELSE UNCHANGED <<symbols, symIndex>>

LocalsDone == Turn("locals", Len(prog), "globals")

\* Places that are no section.
Undef  == -1
Common == -2
Abs    == -3

Largest(a, b) == IF a > b THEN a ELSE b

\* default_common_alignment: size.clamp(1, 16).next_power_of_two()
DefaultAlign(size) == CHOOSE a \in {1, 2, 4, 8, 16} : (a >= size \/ a = 16) /\ (a = 1 \/ a \div 2 < size)

\* Repeated commons have the largest alignment and the first size.
AddGlobalCommon ==
    /\ cursor <= Len(commons)
    /\ Step("globals")
    /\ LET c == commons[cursor]
           align == IF c.align = 0 THEN DefaultAlign(c.size) ELSE c.align
       IN  CASE c.sym \in DOMAIN bss ->
                  UNCHANGED <<symbols, symIndex>>
             [] c.sym \notin DOMAIN bss /\ c.sym \in DOMAIN symIndex ->
                  /\ symbols' = [symbols EXCEPT
                         ![symIndex[c.sym]].hidden = @ \/ info[c.sym].hidden,
                         ![symIndex[c.sym]].value  = Largest(@, align),
                         ![symIndex[c.sym]].size   = IF @ = 0 THEN c.size ELSE @]
                  /\ UNCHANGED symIndex
             [] OTHER ->
                  AddSymbol(c.sym, [name |-> c.sym, bind |-> "global", typ |-> "object",
                                    hidden |-> info[c.sym].hidden, place |-> Common,
                                    value |-> align, size |-> c.size])

GlobalsDone == Turn("globals", Len(commons), "undefined")

\* Strong declarations of what is not defined here stay.
Retained(n) ==
    /\ n \notin DOMAIN symIndex /\ n \notin DOMAIN labelSection
    /\ ~info[n].weak
    /\ info[n].globl \/ info[n].hidden \/ info[n].typ # "none" \/ info[n].size.kind # "none"

UndefinedSymbol(n) ==
    [name |-> n, bind |-> IF info[n].weak THEN "weak" ELSE "global", typ |-> info[n].typ,
     hidden |-> info[n].hidden, place |-> Undef, value |-> 0, size |-> SymbolSize(n, 0).size]

AddUndefined ==
    /\ cursor <= Len(prog)
    /\ Step("undefined")
    /\ IF Declares(S, FALSE) /\ Retained(S.name)
       THEN SymbolSize(S.name, 0).ok /\ AddSymbol(S.name, UndefinedSymbol(S.name))
       ELSE UNCHANGED <<symbols, symIndex>>

UndefinedFails ==
    /\ phase = "undefined" /\ cursor <= Len(prog)
    /\ Declares(S, FALSE) /\ Retained(S.name)
    /\ ~SymbolSize(S.name, 0).ok
    /\ phase' = "failed"
    /\ UNCHANGED <<cursor, source, layout, object, relaxing>>

UndefinedDone == Turn("undefined", Len(prog), "files")

\* The first statement that makes a symbol exist (symbol_creation_order).
Creation(n) ==
    SelectInSeq(prog, LAMBDA s :
        s.op \in {"label", "set", "attr", "type", "size", "comm"} /\ s.name = n)

\* .file begins a group of local symbols: those created after it.  The first
\* one moves to the front, ahead of locals created before it.
FileOrder ==
    LET files  == SelectSeq([p \in DOMAIN prog |-> p], LAMBDA p : prog[p].op = "file")
        locals == SelectSeq(symbols, LAMBDA s : s.bind = "local")
        entries == { [order |-> Creation(locals[i].name), serial |-> i, symbol |-> locals[i]] : i \in DOMAIN locals }
            \union { [order |-> files[i], serial |-> Len(locals) + i,
                      symbol |-> [name |-> prog[files[i]].name, bind |-> "local", typ |-> "file",
                                  hidden |-> FALSE, place |-> Abs, value |-> 0, size |-> 0]] : i \in DOMAIN files }
        sorted == SetToSortSeq(entries, LAMBDA a, b :
                      a.order < b.order \/ (a.order = b.order /\ a.serial < b.serial))
        first  == SelectInSeq(sorted, LAMBDA e : e.serial = Len(locals) + 1)
        moved  == << sorted[first] >> \o RemoveAt(sorted, first)
    IN  [i \in DOMAIN moved |-> moved[i].symbol] \o SelectSeq(symbols, LAMBDA s : s.bind # "local")

IndexOf(list) ==
    [n \in { list[i].name : i \in { j \in DOMAIN list : list[j].typ # "file" } } |->
        SelectLastInSeq(list, LAMBDA s : s.name = n /\ s.typ # "file")]

Files ==
    /\ phase = "files"
    /\ IF \E p \in DOMAIN prog : prog[p].op = "file"
       THEN symbols' = FileOrder /\ symIndex' = IndexOf(symbols')
       ELSE UNCHANGED <<symbols, symIndex>>
    /\ phase' = "relocs" /\ cursor' = 1
    /\ UNCHANGED <<source, layout, relaxing, sectionSym, bss, bssSize, relas, patches>>

-----------------------------------------------------------------------------
(* Relocations, one after the other. *)

R == relocs[cursor]

AtReloc == phase = "relocs" /\ cursor <= Len(relocs)

\* What a relocation refers to, if it is defined here.
DefinedHere(n) == n \in DOMAIN labelSection \union DOMAIN bss

Target(n) ==
    IF n \in DOMAIN labelSection
    THEN [sec |-> labelSection[n], off |-> laid[labelSection[n]].labels[n], local |-> ~Exported(n)]
    ELSE [sec |-> BssSection, off |-> bss[n].off, local |-> TRUE]

PcRelative(type) == type \in {"pc32", "plt32"}

ResolvesInPlace ==
    /\ DefinedHere(R.sym)
    /\ Target(R.sym).local
    /\ PcRelative(R.type)
    /\ Target(R.sym).sec = R.sec

InPlaceValue == Target(R.sym).off + R.addend - R.at

\* "displacement to '{}' overflows i32"; or .bss has no bytes to patch.
InPlaceError == InPlaceValue \notin MinLong .. MaxLong \/ laid[R.sec].nobits

PatchInPlace ==
    /\ AtReloc
    /\ ResolvesInPlace
    /\ ~InPlaceError
    /\ patches' = Append(patches, [sec |-> R.sec, at |-> R.at, value |-> InPlaceValue, of |-> cursor])
    /\ cursor' = cursor + 1
    /\ UNCHANGED <<phase, source, layout, relaxing, symbols, symIndex, sectionSym, bss, bssSize, relas>>

Relocate(index, type, addend) ==
    /\ ~laid[R.sec].nobits
    /\ relas' = Append(relas, [sec |-> R.sec, at |-> R.at, symbol |-> index, type |-> type,
                               addend |-> addend, of |-> cursor])
    /\ cursor' = cursor + 1
    /\ UNCHANGED <<phase, source, layout, relaxing, bss, bssSize, patches>>

SectionSymbol(sec) ==
    [name |-> secs[sec].name, bind |-> "local", typ |-> "section", hidden |-> FALSE,
     place |-> sec, value |-> 0, size |-> 0]

\* Mutant: the addend alone, without the target's place in its section.
AddendInSymbol == R.addend

AddendInSection == Target(R.sym).off + R.addend

\* Nothing can preempt the target: section and offset stand for it.
RelocateToSection ==
    /\ AtReloc
    /\ DefinedHere(R.sym) /\ Target(R.sym).local /\ ~ResolvesInPlace
    /\ LET sec   == Target(R.sym).sec
           known == sec \in DOMAIN sectionSym
           index == IF known THEN sectionSym[sec] ELSE Len(symbols) + 1
       IN  /\ symbols' = IF known THEN symbols ELSE Append(symbols, SectionSymbol(sec))
           /\ sectionSym' = Inserted(sectionSym, sec, index)
           /\ Relocate(index, IF R.type = "plt32" THEN "pc32" ELSE R.type, AddendInSection)
    /\ UNCHANGED symIndex

RelocateToSymbol ==
    /\ AtReloc
    /\ ~ResolvesInPlace
    /\ DefinedHere(R.sym) => ~Target(R.sym).local
    /\ R.sym \in DOMAIN symIndex
    /\ Relocate(symIndex[R.sym], R.type, R.addend)
    /\ UNCHANGED <<symbols, symIndex, sectionSym>>

\* Nothing declared the symbol, or only weakly.
RelocateToUndefined ==
    /\ AtReloc
    /\ ~DefinedHere(R.sym) /\ R.sym \notin DOMAIN symIndex
    /\ SymbolSize(R.sym, 0).ok
    /\ AddSymbol(R.sym, UndefinedSymbol(R.sym))
    /\ Relocate(Len(symbols) + 1, R.type, R.addend)
    /\ UNCHANGED sectionSym

RelocationFails ==
    /\ AtReloc
    /\ \/ laid[R.sec].nobits
       \/ ResolvesInPlace /\ InPlaceError
       \/ ~DefinedHere(R.sym) /\ R.sym \notin DOMAIN symIndex /\ ~SymbolSize(R.sym, 0).ok
    /\ phase' = "failed"
    /\ UNCHANGED <<cursor, source, layout, object, relaxing>>

Finish ==
    /\ phase = "relocs" /\ cursor = Len(relocs) + 1
    /\ phase' = "done"
    /\ UNCHANGED <<cursor, source, layout, object, relaxing>>

Terminated == phase \in {"done", "failed"} /\ UNCHANGED vars

Pass1 ==
    \/ Refuse \/ Label \/ SwitchSection \/ Attribute \/ Type \/ Size \/ Comm \/ Note
    \/ AlignTo \/ Bytes \/ Branch \/ Merge

LayOut ==
    \/ MeasureAndGrow \/ FixLabels \/ EmitBytes \/ EmitFails \/ EmitExternal \/ EmitSizeDot
    \/ NextSection \/ RelaxFails

Define ==
    \/ ResolveAlias \/ AliasFails \/ AliasesDone
    \/ AllocateCommon \/ AllocateFails \/ SkipCommon \/ CommonsDone
    \/ AddLabel \/ LabelFails \/ LabelsDone \/ AddLocalCommon \/ LocalsDone
    \/ AddGlobalCommon \/ GlobalsDone \/ AddUndefined \/ UndefinedFails \/ UndefinedDone
    \/ Files

Resolve ==
    \/ PatchInPlace \/ RelocateToSection \/ RelocateToSymbol \/ RelocateToUndefined
    \/ RelocationFails \/ Finish

Next == Pass1 \/ LayOut \/ Define \/ Resolve \/ Terminated

Spec == Init /\ [][Next]_vars
-----------------------------------------------------------------------------
(* Properties, stated of the source text: what it says of a name, where a  *)
(* statement is laid, and what a reference is worth once linked.           *)

Says(n, attr) == \E p \in DOMAIN prog : prog[p].op = "attr" /\ prog[p].name = n /\ prog[p].attr = attr

Statements(op, n) == { p \in DOMAIN prog : prog[p].op = op /\ prog[p].name = n }

Only(set) == CHOOSE x \in set : TRUE

\* Programs that define nothing twice (.set over a label is not refused).
DefinedOnce ==
    \A n \in Names :
        LET defs == Statements("label", n) \union Statements("set", n)
        IN  /\ \A p, q \in defs : p = q
            /\ defs # {} => Statements("comm", n) = {}

\* The section and subsection of a statement; order in a section.
Home(p) ==
    LET q == SelectLastInSeq(SubSeq(prog, 1, p), LAMBDA s : s.op = "section")
    IN  IF q = 0 THEN [section |-> ".text", sub |-> 0]
        ELSE [section |-> prog[q].name, sub |-> prog[q].sub]

Precedes(p, q) ==
    \/ Home(p).sub < Home(q).sub
    \/ Home(p).sub = Home(q).sub /\ p < q

SecOf(p) == SelectInSeq(secs, LAMBDA s : s.name = Home(p).section)

HasItem(s) ==
    s.op \in {"align", "data", "insn", "branch"} \/ (s.op = "size" /\ s.size.kind = "dot")

\* A section holds the items of its statements, each once, by subsection and
\* then by line, and every label stands between the items it stands between
\* in that order, whatever sections the source went through on the way.
MergeKeepsOrder ==
    phase \notin {"pass1", "failed"} =>
        /\ \A k \in DOMAIN secs :
               LET items == secs[k].items
               IN  /\ { items[i].line : i \in DOMAIN items } =
                          { p \in DOMAIN prog : HasItem(prog[p]) /\ SecOf(p) = k }
                   /\ \A i \in 1 .. Len(items) - 1 : Precedes(items[i].line, items[i + 1].line)
        /\ \A p \in DOMAIN prog : prog[p].op = "label" =>
               LET items == secs[SecOf(p)].items
               IN  \A i \in DOMAIN items :
                       i < secs[SecOf(p)].labels[prog[p].name] <=> Precedes(items[i].line, p)

\* Where statement p is in its section.
Offset(p) ==
    LET k     == SecOf(p)
        after == { i \in DOMAIN secs[k].items : ~Precedes(secs[k].items[i].line, p) }
    IN  IF after = {} THEN laid[k].size
        ELSE laid[k].places[CHOOSE i \in after : \A j \in after : i <= j]

\* The label that a name stands for, through .set, and its statement.
IsLabel(n) == Statements("label", n) # {}
IsAlias(n) == Statements("set", n) # {}
TargetOf(n) == prog[Only(Statements("set", n))].target

Root(n) ==
    LET root[k \in Nat] ==
            [m \in Names |-> IF k = 0 \/ ~IsAlias(m) THEN m ELSE root[k - 1][TargetOf(m)]]
    IN  root[Len(prog)][n]

Definition(n) == Only(Statements("label", Root(n)))

\* .local makes a common local whatever else is said; of a label it says nothing.
IsCommonHere(n) == Statements("comm", n) # {} /\ Says(n, "local")

BindingSaid(n) ==
    IF IsCommonHere(n) THEN "local"
    ELSE IF Says(n, "weak") THEN "weak" ELSE IF Says(n, "globl") THEN "global" ELSE "local"

TypeSaid(n) ==
    LET typed(m) == Statements("type", m)
        typ(m)   == prog[CHOOSE p \in typed(m) : \A q \in typed(m) : q <= p].typ
    IN  IF typed(n) # {} THEN typ(n)
        ELSE IF IsAlias(n) /\ typed(TargetOf(n)) # {} THEN typ(TargetOf(n))
        ELSE IF IsAlias(n) /\ typed(Root(n)) # {} /\ ~IsLabel(TargetOf(n)) THEN typ(Root(n))
        ELSE "none"

\* The size that one .size gives (of several, in several subsections, the
\* code takes the place of one and the base of another).
SizeSaid(n) ==
    LET p == Only(Statements("size", n))
    IN  IF Statements("size", n) = {} THEN 0
        ELSE IF prog[p].size.kind = "const" THEN prog[p].size.value
        ELSE (Offset(p) - Offset(Definition(prog[p].size.base))) % Modulus[8]

SizedOnce(n) == \A p, q \in Statements("size", n) : p = q

IsNamed(i) == symbols[i].typ \notin {"file", "section"}
SymbolsOf(n) == { symbols[i] : i \in { j \in DOMAIN symbols : IsNamed(j) /\ symbols[j].name = n } }

\* A label or alias has the symbol that the source says, unless it is a
\* temporary that nothing exports.  An alias of an alias: see AliasKeepsSize.
LabelSymbolMeans(n) ==
    LET sized == IF IsAlias(n) /\ Statements("size", n) = {} THEN TargetOf(n) ELSE n
    IN  IF n \in Temporary /\ BindingSaid(n) = "local"
        THEN SymbolsOf(n) = {}
        ELSE \E s \in SymbolsOf(n) :
                /\ s.bind = BindingSaid(n) /\ s.hidden = Says(n, "hidden") /\ s.typ = TypeSaid(n)
                /\ s.place = SecOf(Definition(n)) /\ s.value = Offset(Definition(n))
                /\ SizedOnce(sized) => s.size = SizeSaid(sized)

\* A common that is not local has the largest alignment and the first size
\* that is not zero; a local one has room of its own in .bss, aligned there.
GlobalCommonMeans(n) ==
    LET said == Statements("comm", n)
        Align(p) == IF prog[p].align = 0 THEN DefaultAlign(prog[p].size) ELSE prog[p].align
    IN  \E s \in SymbolsOf(n) :
            /\ s.place = Common /\ s.bind = "global"
            /\ s.value \in { Align(p) : p \in said }
            /\ \A p \in said : Align(p) <= s.value
            /\ \E p \in said : /\ s.size = prog[p].size
                               /\ \A q \in said : q < p => prog[q].size = 0

Overlap(from, size, otherFrom, otherSize) == from < otherFrom + otherSize /\ otherFrom < from + size

LocalCommonMeans(n) ==
    LET p == Max(Statements("comm", n))
    IN  \E s \in SymbolsOf(n) :
            /\ s.place = BssSection /\ s.bind = "local" /\ s.size = prog[p].size
            /\ s.value % LocalAlign(prog[p]) = 0
            /\ secs[BssSection].align % LocalAlign(prog[p]) = 0
            /\ laid[BssSection].size <= s.value /\ s.value + s.size <= bssSize
            /\ \A m \in DOMAIN bss \ {n} : ~Overlap(s.value, s.size, bss[m].off, bss[m].size)

\* Every name has at most one symbol, and it is what the source says of it.
SymbolsMean ==
    phase = "done" /\ DefinedOnce =>
        /\ \A i, j \in DOMAIN symbols :
               IsNamed(i) /\ IsNamed(j) /\ symbols[i].name = symbols[j].name => i = j
        /\ \A n \in Names :
               LET common == Statements("comm", n) # {}
               IN  IF IsLabel(n) \/ IsAlias(n) THEN LabelSymbolMeans(n)
                   ELSE IF IsCommonHere(n) THEN LocalCommonMeans(n)
                   ELSE IF common THEN GlobalCommonMeans(n)
                   ELSE \A s \in SymbolsOf(n) :
                            s.place = Undef /\ s.bind = (IF Says(n, "weak") THEN "weak" ELSE "global")

\* Where a name is once linked: the definition of this file, or another one
\* where the linker may choose it.
Preemptible(n) == BindingSaid(n) # "local" /\ ~Says(n, "hidden")

OwnAddress(n, linking) ==
    IF IsLabel(n) \/ IsAlias(n) THEN linking.base[Home(Definition(n)).section] + Offset(Definition(n))
    ELSE IF n \in DOMAIN bss THEN linking.base[".bss"] + bss[n].off
    ELSE linking.ext[n]

Address(n, linking) ==
    IF linking.preempts /\ Preemptible(n) THEN linking.ext[n] ELSE OwnAddress(n, linking)

\* What a reference at address p is worth.  Differences are between the
\* definitions of this file as far as one section has both.
AtomAddress(atom, p, linking) == IF atom = "." THEN p ELSE OwnAddress(atom, linking)

AtomSection(atom, k) == IF atom = "." THEN k ELSE IF IsLabel(atom) THEN SecOf(Definition(atom)) ELSE 0

Meaning(f, k, p, linking) ==
    CASE f.kind = "sym"  -> Address(f.sym, linking) + f.addend
      [] f.kind = "insn" -> Address(f.sym, linking) + f.addend - p
      [] f.kind = "diff" ->
             LET together == AtomSection(f.minuend, k) = AtomSection(f.subtrahend, k)
             IN  (IF together \/ f.minuend = "." THEN AtomAddress(f.minuend, p, linking)
                  ELSE Address(f.minuend, linking))
                 - AtomAddress(f.subtrahend, p, linking) + f.addend

\* What the linker makes of a relocation at address p.
SymbolAddress(s, linking) ==
    IF \/ s.place \in {Undef, Common}
       \/ linking.preempts /\ s.bind # "local" /\ ~s.hidden
    THEN linking.ext[s.name]
    ELSE linking.base[secs[s.place].name] + s.value

Linked(rela, p, linking) ==
    SymbolAddress(symbols[rela.symbol], linking) + rela.addend
        - (IF rela.type \in {"pc32", "plt32", "pc64"} THEN p ELSE 0)

\* All that fills the field at an offset of a section.
Found(set, k, off) == { i \in DOMAIN set : set[i].sec = k /\ set[i].at = off }

FilledOnce(k, off) ==
    \/ /\ \E i \in DOMAIN relas : Found(relas, k, off) = {i}
       /\ Found(patches, k, off) = {} /\ Found(folded, k, off) = {}
    \/ /\ \E i \in DOMAIN patches : Found(patches, k, off) = {i}
       /\ Found(relas, k, off) = {} /\ Found(folded, k, off) = {}
    \/ /\ \E i \in DOMAIN folded : Found(folded, k, off) = {i}
       /\ Found(relas, k, off) = {} /\ Found(patches, k, off) = {}

Holds(k, off, width, value, linking) ==
    /\ FilledOnce(k, off)
    /\ \A i \in Found(relas, k, off) :
           (Linked(relas[i], linking.base[secs[k].name] + off, linking) - value) % Modulus[width] = 0
    /\ \A i \in Found(patches, k, off) : patches[i].value = value
    /\ \A i \in Found(folded, k, off) : (folded[i].value - value) % Modulus[width] = 0

EndAt(k, i) == IF i < Len(laid[k].places) THEN laid[k].places[i + 1] ELSE laid[k].size

\* A branch goes to its label from the end of its bytes.  To a label of its
\* section that is not weak it goes whatever the linker does.
BranchMeans(k, i, linking) ==
    LET item == secs[k].items[i]
        end  == EndAt(k, i)
        own  == IsLabel(item.label) /\ SecOf(Definition(item.label)) = k /\ ~Says(item.label, "weak")
    IN  IF own
        THEN end + laid[k].disps[i] = Offset(Definition(item.label))
        ELSE Holds(k, end - 4, 4, Address(item.label, linking) - (linking.base[secs[k].name] + end), linking)

\* Every reference, by relocation, patched in place or folded, is worth what
\* it means, wherever sections are put and whatever definition is chosen.
LinkedValue ==
    phase = "done" /\ DefinedOnce =>
        \A linking \in Linkings, k \in DOMAIN secs :
            \A i \in DOMAIN secs[k].items :
                LET item == secs[k].items[i]
                IN  /\ item.kind = "branch" => BranchMeans(k, i, linking)
                    /\ item.kind = "fixed" =>
                           \A j \in DOMAIN item.fields :
                               LET f   == item.fields[j]
                                   off == laid[k].places[i] + f.at
                               IN  f.kind # "num" =>
                                       Holds(k, off, f.width,
                                             Meaning(f, k, linking.base[secs[k].name] + off, linking),
                                             linking)

=============================================================================
