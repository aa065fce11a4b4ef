------------------------------- MODULE X86Relax -------------------------------
(***************************************************************************)
(* Branch relaxation and emission of one x86_64 section (src/x86/          *)
(* assemble.rs).  Every jump to a label of the section starts with an      *)
(* 8-bit displacement; rounds over the section measure all offsets and     *)
(* then lengthen the jumps that do not reach, until none is left.  A       *)
(* second walk computes the offsets that become addresses of labels, a     *)
(* third one, with sizes of its own, writes the bytes.                     *)
(***************************************************************************)
EXTENDS Integers, Sequences

CONSTANTS
    Sections,               \* the merged sections considered
    MaxOffset,              \* u64::MAX
    MinShort, MaxShort,     \* the range of i8
    MinLong, MaxLong        \* the range of i32

ASSUME RangesAssumption ==
    /\ MaxOffset \in Nat
    /\ {MinShort, MaxShort, MinLong, MaxLong} \subseteq Int
    /\ 0 \in MinShort .. MaxShort

\* "fixed" is an item whose size nothing changes: encoded bytes, data,
\* zeros, fills.  An alignment without a limit has one that is never met.
IsItem(item) ==
    \/ item.kind = "fixed"  /\ item.size \in Nat
    \/ item.kind = "branch" /\ item.jcc \in BOOLEAN
    \/ item.kind = "align"  /\ item.align \in Nat \ {0} /\ item.max \in Nat
    \/ item.kind = "sizedot"

IsSection(s) ==
    /\ Len(s.items) \in Nat
    /\ \A i \in 1 .. Len(s.items) : IsItem(s.items[i])
    /\ \A l \in DOMAIN s.labels : s.labels[l] \in 1 .. Len(s.items) + 1

ASSUME SectionsAssumption == \A s \in Sections : IsSection(s)

VARIABLES
    section,    \* [items, labels, weak, nobits]: labels to the item they precede
    stage, at,  \* the loop that runs, and its item
    pos,
    long,       \* which items are branches that have grown
    offsets, grew,      \* of the current round
    itemOffsets,        \* of the walk after the last round
    emitted,    \* of every item written: where, and the displacement it holds
    written     \* bytes.len()

vars == <<section, stage, at, pos, long, offsets, grew, itemOffsets, emitted, written>>

Items == section.items
Item  == Items[at]
Count == Len(Items)

\* Jumps that the section resolves itself.  Whether the label is .globl is
\* not asked.
IsLocalBranch(label) == label \in DOMAIN section.labels /\ label \notin section.weak

BranchLength(jcc, isLong) == IF ~isLong THEN 2 ELSE IF jcc THEN 6 ELSE 5

\* Nothing is inserted when it would be more than max.
AlignPad(p, align, max) ==
    LET pad == IF p % align = 0 THEN 0 ELSE align - (p % align)
    IN  IF pad > max THEN 0 ELSE pad

\* The size of item i at offset p, as the first two walks compute it.
SizeOf(i, p) ==
    LET item == Items[i]
    IN  CASE item.kind = "fixed"   -> item.size
          [] item.kind = "branch"  -> BranchLength(item.jcc, IsLocalBranch(item.label) => long[i])
          [] item.kind = "align"   -> AlignPad(p, item.align, item.max)
          [] item.kind = "sizedot" -> 0

Fresh ==
    /\ stage = "measure"
    /\ at = 1
    /\ pos = 0
    /\ long = [i \in 1 .. Count |-> FALSE]
    /\ offsets = <<>>
    /\ grew = FALSE
    /\ itemOffsets = <<>>
    /\ emitted = <<>>
    /\ written = 0

Init == section \in Sections /\ Fresh

-----------------------------------------------------------------------------
(* One round: measure, then grow. *)

\* checked_layout_add
Advance(size) ==
    /\ pos + size <= MaxOffset
    /\ pos' = pos + size
    /\ at' = at + 1

MeasureItem ==
    /\ stage = "measure"
    /\ at <= Count
    /\ Advance(SizeOf(at, pos))
    /\ offsets' = Append(offsets, pos)
    /\ UNCHANGED <<section, stage, long, grew, itemOffsets, emitted, written>>

\* "section layout size overflows u64"
TooLarge ==
    /\ stage = "measure"
    /\ at <= Count
    /\ pos + SizeOf(at, pos) > MaxOffset
    /\ stage' = "tooLarge"
    /\ UNCHANGED <<section, at, pos, long, offsets, grew, itemOffsets, emitted, written>>

MeasureEnd ==
    /\ stage = "measure"
    /\ at = Count + 1
    /\ offsets' = Append(offsets, pos)
    /\ stage' = "grow"
    /\ at' = 1
    /\ UNCHANGED <<section, pos, long, grew, itemOffsets, emitted, written>>

\* The displacement of the short form of branch i in a given layout.
ShortDisp(i, layout) == layout[section.labels[Items[i].label]] - (layout[i] + 2)

FitsShort(disp) == disp \in MinShort .. MaxShort

IsShort(i) ==
    /\ Items[i].kind = "branch"
    /\ ~long[i]
    /\ IsLocalBranch(Items[i].label)

\* Mutants: branches grow that are long already, so that no round is the
\* last; the far end of the range is taken to be one byte further; branches
\* are given up for long a byte before the end of the range.
NeedsGrowthAgain ==
    /\ Item.kind = "branch"
    /\ IsLocalBranch(Item.label)
    /\ ~FitsShort(ShortDisp(at, offsets))

NeedsGrowthLate ==
    /\ IsShort(at)
    /\ ShortDisp(at, offsets) \notin MinShort .. MaxShort + 1

NeedsGrowthEarly ==
    /\ IsShort(at)
    /\ ShortDisp(at, offsets) \notin MinShort .. MaxShort - 1

NeedsGrowth ==
    /\ IsShort(at)
    /\ ~FitsShort(ShortDisp(at, offsets))

GrowItem ==
    /\ stage = "grow"
    /\ at <= Count
    /\ NeedsGrowth
    /\ long' = [long EXCEPT ![at] = TRUE]
    /\ grew' = TRUE
    /\ at' = at + 1
    /\ UNCHANGED <<section, stage, pos, offsets, itemOffsets, emitted, written>>

KeepItem ==
    /\ stage = "grow"
    /\ at <= Count
    /\ ~NeedsGrowth
    /\ at' = at + 1
    /\ UNCHANGED <<section, stage, pos, long, offsets, grew, itemOffsets, emitted, written>>

NextRound ==
    /\ stage = "grow"
    /\ at = Count + 1
    /\ grew
    /\ stage' = "measure"
    /\ at' = 1
    /\ pos' = 0
    /\ offsets' = <<>>
    /\ grew' = FALSE
    /\ UNCHANGED <<section, long, itemOffsets, emitted, written>>

Settle ==
    /\ stage = "grow"
    /\ at = Count + 1
    /\ ~grew
    /\ stage' = "final"
    /\ at' = 1
    /\ pos' = 0
    /\ UNCHANGED <<section, long, offsets, grew, itemOffsets, emitted, written>>

-----------------------------------------------------------------------------
(* The offsets of labels.  That the sum fits is known from the last round. *)

FinalItem ==
    /\ stage = "final"
    /\ at <= Count
    /\ Advance(SizeOf(at, pos))
    /\ itemOffsets' = Append(itemOffsets, pos)
    /\ UNCHANGED <<section, stage, long, offsets, grew, emitted, written>>

FinalEnd ==
    /\ stage = "final"
    /\ at = Count + 1
    /\ itemOffsets' = Append(itemOffsets, pos)
    /\ stage' = "emit"
    /\ at' = 1
    /\ pos' = 0
    /\ UNCHANGED <<section, long, offsets, grew, emitted, written>>

-----------------------------------------------------------------------------
(* Materialization: one item, at pos, with the size it has here. *)

Emit(size, disp, next) ==
    /\ stage' = IF pos + size > MaxOffset THEN "tooLarge" ELSE next
    /\ emitted' = Append(emitted, [at |-> pos, disp |-> disp])
    /\ written' = IF section.nobits THEN written ELSE written + size
    /\ pos' = pos + size
    /\ at' = at + 1
    /\ UNCHANGED <<section, long, offsets, grew, itemOffsets>>

Emitting(kind) == stage = "emit" /\ at <= Count /\ Item.kind = kind

EmitFixed == Emitting("fixed") /\ Emit(Item.size, 0, "emit")

TargetDisp(length) == itemOffsets[section.labels[Item.label]] - (pos + length)

EmitShort ==
    /\ Emitting("branch")
    /\ IsLocalBranch(Item.label)
    /\ ~long[at]
    /\ LET disp == TargetDisp(2)
       \* "relaxed branch displacement exceeds i8"
       IN  Emit(2, disp, IF FitsShort(disp) THEN "emit" ELSE "broken")

\* Mutant: a long jcc is written with the opcode of one byte of jmp.
LongLengthOfJmp(jcc) == 5

LongLength(jcc) == IF jcc THEN 6 ELSE 5

EmitLong ==
    /\ Emitting("branch")
    /\ IsLocalBranch(Item.label)
    /\ long[at]
    /\ LET disp == TargetDisp(LongLength(Item.jcc))
       \* "branch displacement to '{}' exceeds i32"
       IN  Emit(LongLength(Item.jcc), disp, IF disp \in MinLong .. MaxLong THEN "emit" ELSE "tooFar")

\* opcode and a zero displacement, for a relocation
HeadLength(jcc) == IF jcc THEN 2 ELSE 1

EmitExternal ==
    /\ Emitting("branch")
    /\ ~IsLocalBranch(Item.label)
    /\ Emit(HeadLength(Item.jcc) + 4, 0, "emit")

EmitAlign == Emitting("align") /\ Emit(AlignPad(pos, Item.align, Item.max), 0, "emit")

EmitSizeDot == Emitting("sizedot") /\ Emit(0, 0, "emit")

EmitItem ==
    EmitFixed \/ EmitShort \/ EmitLong \/ EmitExternal \/ EmitAlign \/ EmitSizeDot

EmitEnd ==
    /\ stage = "emit"
    /\ at = Count + 1
    /\ stage' = "done"
    /\ UNCHANGED <<section, at, pos, long, offsets, grew, itemOffsets, emitted, written>>

Ended == stage \in {"done", "tooLarge", "tooFar", "broken"}

Terminated == Ended /\ UNCHANGED vars

Next ==
    \/ MeasureItem \/ TooLarge \/ MeasureEnd
    \/ GrowItem \/ KeepItem \/ NextRound \/ Settle
    \/ FinalItem \/ FinalEnd
    \/ EmitItem \/ EmitEnd
    \/ Terminated

Spec == Init /\ [][Next]_vars

\* One thread runs the loops, and nothing makes it wait.
FairSpec == Spec /\ WF_vars(Next)

-----------------------------------------------------------------------------
(* Properties. *)

Stages == {"measure", "grow", "final", "emit", "done", "tooLarge", "tooFar", "broken"}

TypeOK ==
    /\ IsSection(section)
    /\ stage \in Stages
    /\ at \in 1 .. Count + 1
    /\ pos \in Nat
    /\ long \in [1 .. Count -> BOOLEAN]
    /\ grew \in BOOLEAN
    /\ offsets \in Seq(Nat) /\ Len(offsets) <= Count + 1
    /\ itemOffsets \in Seq(Nat) /\ Len(itemOffsets) <= Count + 1
    /\ emitted \in Seq([at : Nat, disp : Int])
    /\ written \in Nat

\* The three walks meet every item at the same offset, and the bytes written
\* are those up to pos: what labels are worth, what branches were measured
\* by, and where bytes are come from one walk each.
WalksAgree ==
    stage \in {"emit", "done"} =>
        /\ itemOffsets = offsets
        /\ Len(emitted) = at - 1
        /\ \A i \in 1 .. Len(emitted) : emitted[i].at = itemOffsets[i]
        /\ pos = itemOffsets[at]
        /\ written = IF section.nobits THEN 0 ELSE pos

\* What a branch holds takes it from the end of its own bytes, which is where
\* the next item begins, to its label; a short one reaches: "relaxed branch
\* displacement exceeds i8" is never reported.
EndOf(i) == IF i < Count THEN emitted[i + 1].at ELSE pos

BranchesReach ==
    /\ stage # "broken"
    /\ stage = "done" =>
          \A i \in 1 .. Count :
              Items[i].kind = "branch" /\ IsLocalBranch(Items[i].label) =>
                  /\ EndOf(i) + emitted[i].disp = itemOffsets[section.labels[Items[i].label]]
                  /\ ~long[i] => FitsShort(emitted[i].disp)

\* Nothing is long that need not be: where no padding depends on the offset,
\* the branches that grew are the least set under which all others reach.
\* (With padding there need not be a least set.)
SizeWith(longSet, i) ==
    LET item == Items[i]
    IN  CASE item.kind = "fixed"  -> item.size
          [] item.kind = "branch" ->
                 BranchLength(item.jcc, i \in longSet \/ ~IsLocalBranch(item.label))
          [] OTHER                -> 0

OffsetsWith(longSet) ==
    LET offset[k \in 1 .. Count + 1] ==
            IF k = 1 THEN 0 ELSE offset[k - 1] + SizeWith(longSet, k - 1)
    IN  offset

LocalBranches == { i \in 1 .. Count : Items[i].kind = "branch" /\ IsLocalBranch(Items[i].label) }

OthersReach(longSet) ==
    LET layout == OffsetsWith(longSet)
    IN  \A i \in LocalBranches \ longSet : FitsShort(ShortDisp(i, layout))

LeastGrowth ==
    stage = "done" /\ (\A i \in 1 .. Count : Items[i].kind # "align") =>
        \A longSet \in SUBSET LocalBranches :
            OthersReach(longSet) => { i \in 1 .. Count : long[i] } \subseteq longSet

\* The rounds end.  "growth is monotonic, so it terminates"
Terminates == <>Ended
=============================================================================
