---------------------------- MODULE X86Relax_proofs ----------------------------
(***************************************************************************)
(* Theorems about X86Relax for all sections, of any length, and all ranges *)
(* of displacements: the walks agree, every branch reaches its label, and  *)
(* without alignments no branch is long that could be short.               *)
(***************************************************************************)
EXTENDS X86Relax, BasicLemmas

-----------------------------------------------------------------------------
(* The inductive invariant.                                                *)

\* A list of offsets is a walk: it starts at 0 and adds sizes.
Walk(list) ==
    /\ list # <<>> => list[1] = 0
    /\ \A k \in 1 .. Len(list) - 1 : list[k + 1] = list[k] + SizeOf(k, list[k])

\* pos is where the next element of the list will be.
Heads(list) == pos = IF at = 1 THEN 0 ELSE list[at - 1] + SizeOf(at - 1, list[at - 1])

AllReach(upTo) == \A i \in 1 .. upTo : IsShort(i) => FitsShort(ShortDisp(i, offsets))

\* A round measures with the lengths that all its offsets have.
MeasureInv ==
    stage = "measure" =>
        /\ Len(offsets) = at - 1
        /\ Walk(offsets)
        /\ Heads(offsets)
        /\ ~grew

\* As long as nothing grew, the offsets are good for the lengths of now.
GrowInv ==
    stage = "grow" =>
        /\ Len(offsets) = Count + 1
        /\ ~grew => Walk(offsets) /\ AllReach(at - 1)

SettledInv ==
    stage \in {"final", "emit", "done"} =>
        /\ Len(offsets) = Count + 1
        /\ Walk(offsets)
        /\ AllReach(Count)

FinalInv ==
    stage = "final" =>
        /\ Len(itemOffsets) = at - 1
        /\ \A k \in 1 .. at - 1 : itemOffsets[k] = offsets[k]
        /\ pos = offsets[at]
        /\ emitted = <<>>
        /\ written = 0

DispRight(i) ==
    Items[i].kind = "branch" /\ IsLocalBranch(Items[i].label) =>
        offsets[i + 1] + emitted[i].disp = offsets[section.labels[Items[i].label]]

EmitInv ==
    stage \in {"emit", "done"} =>
        /\ Len(itemOffsets) = Count + 1
        /\ \A k \in 1 .. Count + 1 : itemOffsets[k] = offsets[k]
        /\ Len(emitted) = at - 1
        /\ \A k \in 1 .. at - 1 : emitted[k].at = offsets[k] /\ DispRight(k)
        /\ pos = offsets[at]
        /\ written = IF section.nobits THEN 0 ELSE pos

\* What the later walks find untouched.
IdleInv ==
    /\ stage \in {"measure", "grow"} => itemOffsets = <<>>
    /\ stage \in {"measure", "grow"} => emitted = <<>> /\ written = 0
    /\ stage = "done" => at = Count + 1
    /\ stage # "broken"

Inv ==
    /\ TypeOK
    /\ MeasureInv
    /\ GrowInv
    /\ SettledInv
    /\ FinalInv
    /\ EmitInv
    /\ IdleInv

-----------------------------------------------------------------------------
(* Sizes. *)

LEMMA ElementType ==
    ASSUME NEW S, NEW s \in Seq(S), NEW i \in 1 .. Len(s)
    PROVE  s[i] \in S
OBVIOUS

LEMMA PadIsNat ==
    ASSUME NEW p \in Nat, NEW align \in Nat \ {0}, NEW max \in Nat
    PROVE  AlignPad(p, align, max) \in Nat
<1>1. p % align \in 0 .. align - 1
    OBVIOUS
<1> QED
    BY <1>1 DEF AlignPad

LEMMA SizeIsNat ==
    ASSUME TypeOK, NEW i \in 1 .. Count, NEW p \in Nat
    PROVE  SizeOf(i, p) \in Nat
<1>1. IsItem(Items[i])
    BY DEF TypeOK, IsSection, Items, Count
<1>2. CASE Items[i].kind = "align"
    BY <1>1, <1>2, PadIsNat DEF SizeOf, IsItem
<1>3. CASE Items[i].kind # "align"
    BY <1>1, <1>3 DEF SizeOf, IsItem, BranchLength
<1> QED
    BY <1>2, <1>3

LEMMA CountIsNat == TypeOK => Count \in Nat
BY DEF TypeOK, IsSection, Count, Items

LEMMA LabelPlace ==
    ASSUME TypeOK, NEW l, IsLocalBranch(l)
    PROVE  section.labels[l] \in 1 .. Count + 1
BY DEF TypeOK, IsSection, IsLocalBranch, Count, Items

\* A walk goes on: appending pos keeps it one, and the next size leads on.
LEMMA WalkOn ==
    ASSUME TypeOK, NEW list \in Seq(Nat), Len(list) = at - 1, Walk(list), Heads(list)
    PROVE  Walk(Append(list, pos))
<1>1. at \in Nat \ {0} /\ pos \in Nat
    BY CountIsNat DEF TypeOK
<1>2. Len(Append(list, pos)) = at /\ Append(list, pos)[at] = pos
    BY <1>1
<1>3. \A k \in 1 .. at - 1 : Append(list, pos)[k] = list[k]
    BY <1>1
<1>4. Append(list, pos)[1] = 0
    BY <1>1, <1>2, <1>3 DEF Walk, Heads
<1>5. ASSUME NEW k \in 1 .. at - 1
      PROVE  Append(list, pos)[k + 1] = Append(list, pos)[k] + SizeOf(k, Append(list, pos)[k])
    <2>1. CASE k = at - 1
        BY <1>1, <1>2, <1>3, <2>1 DEF Heads
    <2>2. CASE k # at - 1
        BY <1>1, <1>3, <1>5, <2>2 DEF Walk
    <2> QED
        BY <2>1, <2>2
<1> QED
    BY <1>2, <1>4, <1>5 DEF Walk

-----------------------------------------------------------------------------
(* Steps.  Every action leaves the section alone, so what is said of its   *)
(* items and labels stays.                                                 *)

LEMMA InitInv == Init => Inv
<1> SUFFICES ASSUME Init
             PROVE  Inv
    OBVIOUS
<1>1. IsSection(section)
    BY SectionsAssumption DEF Init
<1>2. Count \in Nat
    BY <1>1 DEF IsSection, Count, Items
<1>3. offsets \in Seq(Nat) /\ itemOffsets \in Seq(Nat) /\ Len(offsets) = 0 /\ Len(itemOffsets) = 0
    BY DEF Init, Fresh
<1>4. emitted \in Seq([at : Nat, disp : Int])
    BY DEF Init, Fresh
<1>5. long \in [1 .. Count -> BOOLEAN]
    BY DEF Init, Fresh
<1>6. stage \in Stages /\ at \in 1 .. Count + 1 /\ pos \in Nat /\ written \in Nat
    BY <1>2 DEF Init, Fresh, Stages
<1>7. grew \in BOOLEAN
    BY Zenon DEF Init, Fresh
<1>8. TypeOK
    BY <1>1, <1>2, <1>3, <1>4, <1>5, <1>6, <1>7 DEF TypeOK
<1>9. MeasureInv
    BY DEF Init, Fresh, MeasureInv, Walk, Heads
<1> QED
    BY <1>8, <1>9 DEF Init, Fresh, Inv, GrowInv, SettledInv, FinalInv, EmitInv, IdleInv

\* When section and long are the same, so are the sizes.
LEMMA SameSizes ==
    ASSUME section' = section, long' = long
    PROVE  /\ Items' = Items /\ Count' = Count
           /\ \A i, p : SizeOf(i, p)' = SizeOf(i, p)
           /\ \A i : IsShort(i)' = IsShort(i)
           /\ \A l : IsLocalBranch(l)' = IsLocalBranch(l)
<1>1. Items' = Items /\ Count' = Count
    BY DEF Items, Count
<1>2. \A l : IsLocalBranch(l)' = IsLocalBranch(l)
    BY DEF IsLocalBranch
<1>3. \A i, p : SizeOf(i, p)' = SizeOf(i, p)
    BY <1>1, <1>2 DEF SizeOf, AlignPad, BranchLength
<1>4. \A i : IsShort(i)' = IsShort(i)
    BY <1>1, <1>2 DEF IsShort
<1> QED
    BY <1>1, <1>2, <1>3, <1>4

LEMMA MeasureItemInv ==
    ASSUME Inv, MeasureItem
    PROVE  Inv'
<1>1. at \in 1 .. Count /\ Count \in Nat /\ pos \in Nat
    BY CountIsNat DEF Inv, TypeOK, MeasureItem
<1>2. SizeOf(at, pos) \in Nat
    BY <1>1, SizeIsNat DEF Inv
<1>3. /\ Items' = Items /\ Count' = Count
      /\ \A i, p : SizeOf(i, p)' = SizeOf(i, p)
    BY SameSizes DEF MeasureItem
<1>4. offsets \in Seq(Nat) /\ Len(offsets) = at - 1 /\ Walk(offsets) /\ Heads(offsets)
    BY DEF Inv, TypeOK, MeasureInv, MeasureItem
<1>5. offsets' = Append(offsets, pos) /\ at' = at + 1 /\ pos' = pos + SizeOf(at, pos)
    BY DEF MeasureItem, Advance
<1>6. offsets' \in Seq(Nat) /\ Len(offsets') = at /\ offsets'[at] = pos
    BY <1>1, <1>4, <1>5
<1>7. TypeOK'
    BY <1>1, <1>2, <1>3, <1>5, <1>6 DEF Inv, TypeOK, MeasureItem
<1>8. Walk(offsets')
    BY <1>4, <1>5, WalkOn DEF Inv
<1>9. Walk(offsets)'
    BY <1>8, <1>3 DEF Walk
<1>10. Heads(offsets)'
    BY <1>1, <1>3, <1>5, <1>6 DEF Heads
<1> QED
    BY <1>1, <1>5, <1>6, <1>7, <1>9, <1>10
    DEF Inv, MeasureItem, MeasureInv, GrowInv, SettledInv, FinalInv, EmitInv, IdleInv

LEMMA TooLargeInv ==
    ASSUME Inv, TooLarge
    PROVE  Inv'
<1>1. Count' = Count
    BY SameSizes DEF TooLarge
<1>2. TypeOK'
    BY <1>1 DEF Inv, TypeOK, TooLarge, Stages
<1> QED
    BY <1>2
    DEF Inv, TooLarge, MeasureInv, GrowInv, SettledInv, FinalInv, EmitInv, IdleInv

LEMMA MeasureEndInv ==
    ASSUME Inv, MeasureEnd
    PROVE  Inv'
<1>1. at = Count + 1 /\ Count \in Nat /\ pos \in Nat
    BY CountIsNat DEF Inv, TypeOK, MeasureEnd
<1>2. /\ Items' = Items /\ Count' = Count
      /\ \A i, p : SizeOf(i, p)' = SizeOf(i, p)
    BY SameSizes DEF MeasureEnd
<1>3. offsets \in Seq(Nat) /\ Len(offsets) = at - 1 /\ Walk(offsets) /\ Heads(offsets)
    BY DEF Inv, TypeOK, MeasureInv, MeasureEnd
<1>4. offsets' \in Seq(Nat) /\ Len(offsets') = Count + 1
    BY <1>1, <1>3 DEF MeasureEnd
<1>5. TypeOK'
    BY <1>1, <1>2, <1>4 DEF Inv, TypeOK, MeasureEnd, Stages
<1>6. Walk(offsets')
    BY <1>3, WalkOn DEF Inv, MeasureEnd
<1>7. Walk(offsets)'
    BY <1>6, <1>2 DEF Walk
<1>8. AllReach(at - 1)'
    BY <1>1 DEF AllReach, MeasureEnd
<1> QED
    BY <1>2, <1>4, <1>5, <1>7, <1>8
    DEF Inv, MeasureEnd, MeasureInv, GrowInv, SettledInv, FinalInv, EmitInv, IdleInv

\* Once something grew, the offsets of the round promise nothing.
LEMMA GrowItemInv ==
    ASSUME Inv, GrowItem
    PROVE  Inv'
<1>1. Count' = Count /\ Count \in Nat
    BY CountIsNat DEF Inv, GrowItem, Count, Items
<1>2. at \in 1 .. Count
    BY DEF Inv, TypeOK, GrowItem
<1>3. TypeOK'
    BY <1>1, <1>2 DEF Inv, TypeOK, GrowItem, Stages
<1> QED
    BY <1>1, <1>3
    DEF Inv, GrowItem, MeasureInv, GrowInv, SettledInv, FinalInv, EmitInv, IdleInv

LEMMA KeepItemInv ==
    ASSUME Inv, KeepItem
    PROVE  Inv'
<1>1. at \in 1 .. Count /\ Count \in Nat
    BY CountIsNat DEF Inv, TypeOK, KeepItem
<1>2. /\ Items' = Items /\ Count' = Count
      /\ \A i, p : SizeOf(i, p)' = SizeOf(i, p)
      /\ \A i : IsShort(i)' = IsShort(i)
    BY SameSizes DEF KeepItem
<1>3. TypeOK'
    BY <1>1, <1>2 DEF Inv, TypeOK, KeepItem, Stages
<1>4. ASSUME ~grew
      PROVE  Walk(offsets)' /\ AllReach(at - 1)'
    <2>1. Walk(offsets) /\ AllReach(at - 1)
        BY <1>4 DEF Inv, GrowInv, KeepItem
    <2>2. Walk(offsets)'
        BY <2>1, <1>2 DEF Walk, KeepItem
    <2>3. AllReach(at)
        BY <1>1, <2>1 DEF AllReach, KeepItem, NeedsGrowth
    <2>4. AllReach(at - 1)'
        BY <1>1, <1>2, <2>3 DEF AllReach, KeepItem, ShortDisp
    <2> QED
        BY <2>2, <2>4
<1> QED
    BY <1>2, <1>3, <1>4
    DEF Inv, KeepItem, MeasureInv, GrowInv, SettledInv, FinalInv, EmitInv, IdleInv

LEMMA NextRoundInv ==
    ASSUME Inv, NextRound
    PROVE  Inv'
<1>1. Count' = Count /\ Count \in Nat
    BY CountIsNat, SameSizes DEF Inv, NextRound
<1>2. offsets' \in Seq(Nat) /\ Len(offsets') = 0
    BY DEF NextRound
<1>3. grew' \in BOOLEAN
    BY Zenon DEF NextRound
<1>4. TypeOK'
    BY <1>1, <1>2, <1>3 DEF Inv, TypeOK, NextRound, Stages
<1>5. Walk(offsets)' /\ Heads(offsets)'
    BY <1>2 DEF NextRound, Walk, Heads
<1> QED
    BY <1>2, <1>4, <1>5
    DEF Inv, NextRound, MeasureInv, GrowInv, SettledInv, FinalInv, EmitInv, IdleInv

LEMMA SettleInv ==
    ASSUME Inv, Settle
    PROVE  Inv'
<1>1. Count \in Nat
    BY CountIsNat DEF Inv
<1>2. /\ Items' = Items /\ Count' = Count
      /\ \A i, p : SizeOf(i, p)' = SizeOf(i, p)
      /\ \A i : IsShort(i)' = IsShort(i)
    BY SameSizes DEF Settle
<1>3. TypeOK'
    BY <1>1, <1>2 DEF Inv, TypeOK, Settle, Stages
<1>4. Len(offsets) = Count + 1 /\ Walk(offsets) /\ AllReach(Count)
    BY <1>1 DEF Inv, GrowInv, Settle
<1>5. Walk(offsets)'
    BY <1>2, <1>4 DEF Walk, Settle
<1>6. AllReach(Count)'
    BY <1>2, <1>4 DEF AllReach, Settle, ShortDisp
<1>7. itemOffsets = <<>> /\ emitted = <<>> /\ written = 0
    BY DEF Inv, IdleInv, Settle
<1>8. FinalInv'
    BY <1>1, <1>4, <1>7 DEF FinalInv, Settle, Walk
<1> QED
    BY <1>2, <1>3, <1>4, <1>5, <1>6, <1>8
    DEF Inv, Settle, MeasureInv, GrowInv, SettledInv, EmitInv, IdleInv

\* What is known from the last round, and stays known.
LEMMA SettledStays ==
    ASSUME Inv, stage \in {"final", "emit", "done"}, UNCHANGED <<section, long, offsets>>
    PROVE  SettledInv'
<1>1. /\ Items' = Items /\ Count' = Count
      /\ \A i, p : SizeOf(i, p)' = SizeOf(i, p)
      /\ \A i : IsShort(i)' = IsShort(i)
    BY SameSizes
<1>2. Len(offsets) = Count + 1 /\ Walk(offsets) /\ AllReach(Count)
    BY DEF Inv, SettledInv
<1>3. Walk(offsets)'
    BY <1>1, <1>2 DEF Walk
<1>4. AllReach(Count)'
    BY <1>1, <1>2 DEF AllReach, ShortDisp
<1> QED
    BY <1>1, <1>2, <1>3, <1>4 DEF SettledInv

\* The size of an item separates its offset from the next one.
LEMMA NextOffset ==
    ASSUME Inv, stage \in {"final", "emit", "done"}, NEW i \in 1 .. Count
    PROVE  /\ offsets[i] \in Nat /\ offsets[i + 1] \in Nat
           /\ offsets[i + 1] = offsets[i] + SizeOf(i, offsets[i])
<1>1. Len(offsets) = Count + 1 /\ Walk(offsets) /\ offsets \in Seq(Nat) /\ Count \in Nat
    BY CountIsNat DEF Inv, SettledInv, TypeOK
<1> QED
    BY <1>1 DEF Walk

LEMMA FinalItemInv ==
    ASSUME Inv, FinalItem
    PROVE  Inv'
<1>1. at \in 1 .. Count /\ Count \in Nat /\ pos \in Nat
    BY CountIsNat DEF Inv, TypeOK, FinalItem
<1>2. Count' = Count
    BY SameSizes DEF FinalItem
<1>3. SettledInv'
    BY SettledStays DEF FinalItem
<1>4. /\ itemOffsets \in Seq(Nat) /\ Len(itemOffsets) = at - 1 /\ pos = offsets[at]
      /\ \A k \in 1 .. at - 1 : itemOffsets[k] = offsets[k]
    BY DEF Inv, TypeOK, FinalInv, FinalItem
<1>5. itemOffsets' = Append(itemOffsets, pos) /\ at' = at + 1 /\ pos' = pos + SizeOf(at, pos)
    BY DEF FinalItem, Advance
<1>6. /\ itemOffsets' \in Seq(Nat) /\ Len(itemOffsets') = at
      /\ \A k \in 1 .. at : itemOffsets'[k] = offsets[k]
    BY <1>1, <1>4, <1>5
<1>7. pos' = offsets[at'] /\ pos' \in Nat
    BY <1>1, <1>4, <1>5, NextOffset DEF FinalItem
<1>8. TypeOK'
    BY <1>1, <1>2, <1>5, <1>6, <1>7 DEF Inv, TypeOK, FinalItem
<1>9. FinalInv'
    BY <1>1, <1>5, <1>6, <1>7 DEF Inv, FinalInv, FinalItem
<1> QED
    BY <1>3, <1>8, <1>9 DEF Inv, FinalItem, MeasureInv, GrowInv, EmitInv, IdleInv

LEMMA FinalEndInv ==
    ASSUME Inv, FinalEnd
    PROVE  Inv'
<1>1. at = Count + 1 /\ Count \in Nat /\ pos \in Nat
    BY CountIsNat DEF Inv, TypeOK, FinalEnd
<1>2. Count' = Count
    BY SameSizes DEF FinalEnd
<1>3. SettledInv'
    BY SettledStays DEF FinalEnd
<1>4. /\ itemOffsets \in Seq(Nat) /\ Len(itemOffsets) = at - 1 /\ pos = offsets[at]
      /\ \A k \in 1 .. at - 1 : itemOffsets[k] = offsets[k]
      /\ emitted = <<>> /\ written = 0
    BY DEF Inv, TypeOK, FinalInv, FinalEnd
<1>5. /\ itemOffsets' \in Seq(Nat) /\ Len(itemOffsets') = Count + 1
      /\ \A k \in 1 .. Count + 1 : itemOffsets'[k] = offsets[k]
    BY <1>1, <1>4 DEF FinalEnd
<1>6. TypeOK'
    BY <1>1, <1>2, <1>5 DEF Inv, TypeOK, FinalEnd, Stages
<1>7. offsets[1] = 0
    BY <1>1 DEF Inv, SettledInv, FinalEnd, Walk
<1>8. EmitInv'
    BY <1>1, <1>2, <1>4, <1>5, <1>7 DEF EmitInv, FinalEnd
<1> QED
    BY <1>3, <1>6, <1>8 DEF Inv, FinalEnd, MeasureInv, GrowInv, FinalInv, IdleInv

\* All of emission in one: an item written with the size it was measured by,
\* and with the displacement that leads to its label, keeps the invariant.
LEMMA EmitKeepsInv ==
    ASSUME Inv, stage = "emit", at <= Count,
           NEW disp \in Int, NEW next \in {"emit", "tooFar"},
           Emit(SizeOf(at, pos), disp, next),
           Item.kind = "branch" /\ IsLocalBranch(Item.label) =>
               pos + SizeOf(at, pos) + disp = offsets[section.labels[Item.label]]
    PROVE  Inv'
<1>1. at \in 1 .. Count /\ Count \in Nat /\ pos \in Nat
    BY CountIsNat DEF Inv, TypeOK
<1>2. SizeOf(at, pos) \in Nat
    BY <1>1, SizeIsNat DEF Inv
<1>3. UNCHANGED <<section, long, offsets, grew, itemOffsets>> /\ at' = at + 1
      /\ pos' = pos + SizeOf(at, pos)
      /\ emitted' = Append(emitted, [at |-> pos, disp |-> disp])
      /\ stage' \in {"emit", "tooLarge", "tooFar"}
    BY DEF Emit
<1>4. /\ Items' = Items /\ Count' = Count
      /\ \A l : IsLocalBranch(l)' = IsLocalBranch(l)
    BY <1>3, SameSizes
<1>5. /\ emitted \in Seq([at : Nat, disp : Int]) /\ Len(emitted) = at - 1
      /\ pos = offsets[at] /\ written = IF section.nobits THEN 0 ELSE pos
      /\ \A k \in 1 .. at - 1 : emitted[k].at = offsets[k] /\ DispRight(k)
    BY DEF Inv, TypeOK, EmitInv
<1>6. [at |-> pos, disp |-> disp] \in [at : Nat, disp : Int]
    BY <1>1
<1>7. /\ emitted' \in Seq([at : Nat, disp : Int]) /\ Len(emitted') = at
      /\ emitted'[at] = [at |-> pos, disp |-> disp]
      /\ \A k \in 1 .. at - 1 : emitted'[k] = emitted[k]
    BY <1>1, <1>3, <1>5, <1>6
<1>8. pos' = offsets[at + 1] /\ pos' \in Nat
    BY <1>1, <1>2, <1>3, <1>5, NextOffset
<1>9. written' = (IF section.nobits THEN 0 ELSE pos') /\ written' \in Nat
    BY <1>1, <1>2, <1>3, <1>5 DEF Emit
<1>10. TypeOK'
    BY <1>1, <1>3, <1>4, <1>7, <1>8, <1>9 DEF Inv, TypeOK, Stages
<1>11. ASSUME NEW k \in 1 .. at
       PROVE  emitted'[k].at = offsets[k] /\ DispRight(k)'
    <2>1. CASE k = at
        <3>1. emitted'[k].at = offsets[k] /\ emitted'[k].disp = disp
            BY <1>5, <1>7, <2>1
        <3>2. DispRight(k)'
            BY <1>3, <1>4, <1>8, <2>1, <3>1 DEF DispRight, Item
        <3> QED
            BY <3>1, <3>2
    <2>2. CASE k # at
        <3>1. k \in 1 .. at - 1
            BY <1>1, <2>2
        <3>2. emitted'[k] = emitted[k] /\ emitted[k].at = offsets[k] /\ DispRight(k)
            BY <1>5, <1>7, <3>1
        <3> QED
            BY <1>3, <1>4, <3>2 DEF DispRight
    <2> QED
        BY <2>1, <2>2
<1>12. SettledInv'
    <2>1. CASE stage' \in {"final", "emit", "done"}
        BY <1>3, <2>1, SettledStays
    <2>2. CASE stage' \notin {"final", "emit", "done"}
        BY <2>2 DEF SettledInv
    <2> QED
        BY <2>1, <2>2
<1>13. EmitInv'
    BY <1>1, <1>3, <1>4, <1>7, <1>8, <1>9, <1>11 DEF Inv, EmitInv
<1> QED
    BY <1>3, <1>10, <1>12, <1>13 DEF Inv, MeasureInv, GrowInv, FinalInv, IdleInv

\* Each kind of item is written with the size it was measured by.
LEMMA EmitItemInv ==
    ASSUME Inv, EmitItem
    PROVE  Inv'
<1>1. at \in 1 .. Count /\ Count \in Nat /\ pos \in Nat /\ stage = "emit"
    BY CountIsNat DEF Inv, TypeOK, EmitItem, Emitting, EmitFixed, EmitShort, EmitLong,
                      EmitExternal, EmitAlign, EmitSizeDot
<1>2. IsItem(Item) /\ Item = Items[at]
    BY <1>1 DEF Inv, TypeOK, IsSection, Items, Count, Item
<1>3. pos = offsets[at] /\ \A k \in 1 .. Count + 1 : itemOffsets[k] = offsets[k]
    BY <1>1 DEF Inv, EmitInv
<1>4. offsets \in Seq(Nat) /\ Len(offsets) = Count + 1 /\ AllReach(Count)
    BY <1>1 DEF Inv, TypeOK, SettledInv
<1>5. CASE EmitFixed
    <2>1. Item.kind = "fixed" /\ Emit(Item.size, 0, "emit")
        BY <1>5 DEF EmitFixed, Emitting
    <2>2. SizeOf(at, pos) = Item.size
        BY <1>2, <2>1 DEF SizeOf
    <2> QED
        BY <1>1, <2>1, <2>2, EmitKeepsInv
<1>6. CASE EmitAlign
    <2>1. Item.kind = "align" /\ Emit(AlignPad(pos, Item.align, Item.max), 0, "emit")
        BY <1>6 DEF EmitAlign, Emitting
    <2>2. SizeOf(at, pos) = AlignPad(pos, Item.align, Item.max)
        BY <1>2, <2>1 DEF SizeOf
    <2> QED
        BY <1>1, <2>1, <2>2, EmitKeepsInv
<1>7. CASE EmitSizeDot
    <2>1. Item.kind = "sizedot" /\ Emit(0, 0, "emit")
        BY <1>7 DEF EmitSizeDot, Emitting
    <2>2. SizeOf(at, pos) = 0
        BY <1>2, <2>1 DEF SizeOf
    <2> QED
        BY <1>1, <2>1, <2>2, EmitKeepsInv
<1>8. CASE EmitExternal
    <2>1. Item.kind = "branch" /\ ~IsLocalBranch(Item.label)
          /\ Emit(HeadLength(Item.jcc) + 4, 0, "emit")
        BY <1>8 DEF EmitExternal, Emitting
    <2>2. SizeOf(at, pos) = HeadLength(Item.jcc) + 4
        BY <1>2, <2>1 DEF SizeOf, BranchLength, HeadLength
    <2> QED
        BY <1>1, <2>1, <2>2, EmitKeepsInv
<1>9. CASE EmitShort
    <2> DEFINE target == offsets[section.labels[Item.label]]
    <2>1. Item.kind = "branch" /\ IsLocalBranch(Item.label) /\ ~long[at]
        BY <1>9 DEF EmitShort, Emitting
    <2>2. section.labels[Item.label] \in 1 .. Count + 1
        BY <2>1, LabelPlace DEF Inv
    <2>3. target \in Nat /\ TargetDisp(2) = target - (pos + 2)
        BY <1>3, <1>4, <2>2 DEF TargetDisp
    <2>4. SizeOf(at, pos) = 2
        BY <1>2, <2>1 DEF SizeOf, BranchLength
    <2>5. FitsShort(TargetDisp(2))
        BY <1>1, <1>2, <1>3, <1>4, <2>1, <2>3 DEF AllReach, IsShort, ShortDisp
    <2>6. Emit(2, TargetDisp(2), "emit")
        BY <1>9, <2>5 DEF EmitShort
    <2>7. TargetDisp(2) \in Int /\ pos + 2 + TargetDisp(2) = target
        BY <1>1, <2>3
    <2> QED
        BY <1>1, <2>4, <2>6, <2>7, EmitKeepsInv
<1>10. CASE EmitLong
    <2> DEFINE target == offsets[section.labels[Item.label]]
               length == LongLength(Item.jcc)
    <2>1. Item.kind = "branch" /\ IsLocalBranch(Item.label) /\ long[at]
        BY <1>10 DEF EmitLong, Emitting
    <2>2. section.labels[Item.label] \in 1 .. Count + 1
        BY <2>1, LabelPlace DEF Inv
    <2>3. length \in Nat
        BY <1>2, <2>1 DEF LongLength
    <2>4. target \in Nat /\ TargetDisp(length) = target - (pos + length)
        BY <1>3, <1>4, <2>2 DEF TargetDisp
    <2>5. SizeOf(at, pos) = length
        BY <1>2, <2>1 DEF SizeOf, BranchLength, LongLength
    <2>6. PICK next \in {"emit", "tooFar"} : Emit(length, TargetDisp(length), next)
        BY <1>10 DEF EmitLong
    <2>7. TargetDisp(length) \in Int /\ pos + length + TargetDisp(length) = target
        BY <1>1, <2>3, <2>4
    <2> QED
        BY <1>1, <2>5, <2>6, <2>7, EmitKeepsInv
<1> QED
    BY <1>5, <1>6, <1>7, <1>8, <1>9, <1>10 DEF EmitItem

LEMMA EmitEndInv ==
    ASSUME Inv, EmitEnd
    PROVE  Inv'
<1>1. /\ Items' = Items /\ Count' = Count
      /\ \A l : IsLocalBranch(l)' = IsLocalBranch(l)
    BY SameSizes DEF EmitEnd
<1>2. TypeOK'
    BY <1>1 DEF Inv, TypeOK, EmitEnd, Stages
<1>3. SettledInv'
    BY SettledStays DEF EmitEnd
<1>4. EmitInv'
    BY <1>1 DEF Inv, EmitInv, EmitEnd, DispRight
<1> QED
    BY <1>1, <1>2, <1>3, <1>4 DEF Inv, EmitEnd, MeasureInv, GrowInv, FinalInv, IdleInv

LEMMA StutterInv ==
    ASSUME Inv, UNCHANGED vars
    PROVE  Inv'
<1>1. /\ Items' = Items /\ Count' = Count
      /\ \A i, p : SizeOf(i, p)' = SizeOf(i, p)
      /\ \A i : IsShort(i)' = IsShort(i)
      /\ \A l : IsLocalBranch(l)' = IsLocalBranch(l)
    BY SameSizes DEF vars
<1>2. TypeOK'
    BY <1>1 DEF Inv, TypeOK, vars
<1>3. Walk(offsets)' = Walk(offsets) /\ Heads(offsets)' = Heads(offsets)
    BY <1>1 DEF Walk, Heads, vars
<1>4. AllReach(at - 1)' = AllReach(at - 1) /\ AllReach(Count)' = AllReach(Count)
    BY <1>1 DEF AllReach, ShortDisp, vars
<1>5. \A k : DispRight(k)' = DispRight(k)
    BY <1>1 DEF DispRight, vars
<1> QED
    BY <1>1, <1>2, <1>3, <1>4, <1>5
    DEF Inv, MeasureInv, GrowInv, SettledInv, FinalInv, EmitInv, IdleInv, vars

\* The invariant of the three walks holds in every reachable state.
THEOREM Invariance == Spec => []Inv
<1>1. Init => Inv
    BY InitInv
<1>2. Inv /\ [Next]_vars => Inv'
    <2> SUFFICES ASSUME Inv, [Next]_vars
                 PROVE  Inv'
        OBVIOUS
    <2>1. CASE MeasureItem  BY <2>1, MeasureItemInv
    <2>2. CASE TooLarge     BY <2>2, TooLargeInv
    <2>3. CASE MeasureEnd   BY <2>3, MeasureEndInv
    <2>4. CASE GrowItem     BY <2>4, GrowItemInv
    <2>5. CASE KeepItem     BY <2>5, KeepItemInv
    <2>6. CASE NextRound    BY <2>6, NextRoundInv
    <2>7. CASE Settle       BY <2>7, SettleInv
    <2>8. CASE FinalItem    BY <2>8, FinalItemInv
    <2>9. CASE FinalEnd     BY <2>9, FinalEndInv
    <2>10. CASE EmitItem    BY <2>10, EmitItemInv
    <2>11. CASE EmitEnd     BY <2>11, EmitEndInv
    <2>12. CASE UNCHANGED vars  BY <2>12, StutterInv
    <2> QED
        BY <2>1, <2>2, <2>3, <2>4, <2>5, <2>6, <2>7, <2>8, <2>9, <2>10, <2>11, <2>12
        DEF Next, Terminated
<1> QED
    BY <1>1, <1>2, PTL DEF Spec

-----------------------------------------------------------------------------
(* What follows from it. *)

\* Every variable keeps its type: offsets never outnumber the items, and
\* are natural numbers.
THEOREM TypeCorrect == Spec => []TypeOK
<1>1. Inv => TypeOK
    BY DEF Inv
<1> QED
    BY <1>1, Invariance, PTL

\* The last round, the walk that gives labels their values and the walk
\* that writes bytes meet every item at the same offset (assemble.rs has the
\* three loops, with sizes of their own in the last).
THEOREM WalksMeet == Spec => []WalksAgree
<1>1. Inv => WalksAgree
    <2> SUFFICES ASSUME Inv, stage \in {"emit", "done"}
                 PROVE  WalksAgree
        BY DEF WalksAgree
    <2>1. at \in 1 .. Count + 1 /\ Count \in Nat
        BY CountIsNat DEF Inv, TypeOK
    <2>2. /\ offsets \in Seq(Nat) /\ Len(offsets) = Count + 1
          /\ itemOffsets \in Seq(Nat) /\ Len(itemOffsets) = Count + 1
          /\ \A k \in 1 .. Count + 1 : itemOffsets[k] = offsets[k]
        BY DEF Inv, TypeOK, SettledInv, EmitInv
    <2>3. itemOffsets = offsets
        BY <2>1, <2>2
    <2> QED
        BY <2>1, <2>3 DEF Inv, EmitInv, WalksAgree
<1> QED
    BY <1>1, Invariance, PTL

\* Every branch the section resolves leads from the end of its bytes to its
\* label, short ones within 8 bits: the error "relaxed branch displacement
\* exceeds i8" cannot occur.
THEOREM AllBranchesReach == Spec => []BranchesReach
<1>1. Inv => BranchesReach
    <2> SUFFICES ASSUME Inv
                 PROVE  BranchesReach
        OBVIOUS
    <2>1. stage # "broken"
        BY DEF Inv, IdleInv
    <2>2. ASSUME stage = "done", NEW i \in 1 .. Count,
                 Items[i].kind = "branch", IsLocalBranch(Items[i].label)
          PROVE  /\ EndOf(i) + emitted[i].disp = itemOffsets[section.labels[Items[i].label]]
                 /\ ~long[i] => FitsShort(emitted[i].disp)
        <3> DEFINE target == section.labels[Items[i].label]
        <3>1. Count \in Nat /\ at = Count + 1 /\ target \in 1 .. Count + 1
            BY <2>2, CountIsNat, LabelPlace DEF Inv, IdleInv
        <3>2. EndOf(i) = offsets[i + 1]
            BY <2>2, <3>1 DEF Inv, EmitInv, EndOf
        <3>3. offsets[i + 1] + emitted[i].disp = offsets[target]
            BY <2>2, <3>1 DEF Inv, EmitInv, DispRight
        <3>4. itemOffsets[target] = offsets[target]
            BY <2>2, <3>1 DEF Inv, EmitInv
        <3>5. ASSUME ~long[i]
              PROVE  FitsShort(emitted[i].disp)
            <4>1. FitsShort(offsets[target] - (offsets[i] + 2))
                BY <2>2, <3>1, <3>5 DEF Inv, SettledInv, AllReach, IsShort, ShortDisp
            <4>2. SizeOf(i, offsets[i]) = 2
                BY <2>2, <3>5 DEF SizeOf, BranchLength
            <4>3. offsets[i] \in Nat /\ offsets[i + 1] = offsets[i] + 2
                BY <2>2, <4>2, NextOffset
            <4>5. offsets \in Seq(Nat) /\ Len(offsets) = Count + 1
                BY <2>2 DEF Inv, TypeOK, SettledInv
            <4>6. emitted \in Seq([at : Nat, disp : Int]) /\ Len(emitted) = Count
                BY <2>2, <3>1 DEF Inv, TypeOK, EmitInv
            <4>7. emitted[i] \in [at : Nat, disp : Int]
                BY <2>2, <4>6, ElementType
            <4>4. offsets[target] \in Nat /\ emitted[i].disp \in Int
                BY <3>1, <4>5, <4>7
            <4> QED
                BY <3>3, <4>1, <4>3, <4>4
        <3> QED
            BY <3>2, <3>3, <3>4, <3>5
    <2> QED
        BY <2>1, <2>2 DEF BranchesReach
<1> QED
    BY <1>1, Invariance, PTL

\* "growth is monotonic": what is long stays long, so that there are at most
\* as many rounds as branches, and one.
GrowOnly == [][ \A i \in 1 .. Count : long[i] => long'[i] ]_vars

THEOREM GrowthIsMonotonic == Spec => GrowOnly
<1>1. Inv /\ [Next]_vars => [ \A i \in 1 .. Count : long[i] => long'[i] ]_vars
    <2> SUFFICES ASSUME Inv, Next, NEW i \in 1 .. Count, long[i]
                 PROVE  long'[i]
        OBVIOUS
    <2>1. CASE GrowItem
        BY <2>1, CountIsNat DEF Inv, TypeOK, GrowItem
    <2>2. CASE ~GrowItem
        <3>1. long' = long
            BY <2>2 DEF Next, MeasureItem, TooLarge, MeasureEnd, KeepItem, NextRound, Settle,
                        FinalItem, FinalEnd, EmitItem, EmitFixed, EmitShort, EmitLong,
                        EmitExternal, EmitAlign, EmitSizeDot, Emit, EmitEnd, Terminated, vars
        <3> QED
            BY <3>1
    <2> QED
        BY <2>1, <2>2
<1> QED
    BY <1>1, Invariance, PTL DEF Spec, GrowOnly

-----------------------------------------------------------------------------
(* The rounds lengthen no branch that some set of long branches, under     *)
(* which the others reach, leaves short.  A round decides by offsets that  *)
(* are those of a part of the branches that are long by now: with more of  *)
(* them long, what is too far apart is no nearer.                          *)

LongSet == { i \in 1 .. Count : long[i] }

Padless == \A i \in 1 .. Count : Items[i].kind # "align"

\* The offsets when exactly the branches of longSet are long.
Lays(layout, longSet) ==
    /\ layout \in [1 .. Count + 1 -> Nat]
    /\ layout[1] = 0
    /\ \A k \in 1 .. Count : layout[k + 1] = layout[k] + SizeWith(longSet, k)

Suffices(longSet) ==
    \E layout \in [1 .. Count + 1 -> Nat] :
        /\ Lays(layout, longSet)
        /\ \A i \in LocalBranches \ longSet : FitsShort(ShortDisp(i, layout))

LeastInv ==
    Padless =>
        /\ stage = "grow" =>
              \E longSet \in SUBSET LongSet : Lays(offsets, longSet)
        /\ \A longSet \in SUBSET LocalBranches :
              Suffices(longSet) => LongSet \subseteq longSet

LEMMA LocalBranchItem ==
    ASSUME TypeOK, NEW i \in LocalBranches
    PROVE  /\ i \in 1 .. Count /\ Count \in Nat
           /\ Items[i].kind = "branch" /\ IsLocalBranch(Items[i].label)
           /\ section.labels[Items[i].label] \in 1 .. Count + 1
BY CountIsNat, LabelPlace DEF LocalBranches

LEMMA SizeWithIsNat ==
    ASSUME TypeOK, NEW longSet, NEW i \in 1 .. Count
    PROVE  SizeWith(longSet, i) \in Nat
<1>1. IsItem(Items[i])
    BY DEF TypeOK, IsSection, Items, Count
<1> QED
    BY <1>1 DEF SizeWith, IsItem, BranchLength

\* OffsetsWith computes them.
LEMMA OffsetsWithLays ==
    ASSUME TypeOK, NEW longSet
    PROVE  Lays(OffsetsWith(longSet), longSet)
<1> DEFINE n == Count
           size == [i \in 1 .. Count |-> SizeWith(longSet, i)]
           Body(f) == [k \in 1 .. Count + 1 |->
                          IF k = 1 THEN 0 ELSE f[k - 1] + SizeWith(longSet, k - 1)]
<1>1. n \in Nat
    BY CountIsNat
<1>2. size \in [1 .. n -> Nat]
    BY SizeWithIsNat
<1>3. OffsetsWith(longSet) = CHOOSE f : f = Body(f)
    BY DEF OffsetsWith
<1>4. ASSUME NEW f
      PROVE  Body(f) = [k \in 1 .. n + 1 |-> IF k = 1 THEN 0 ELSE f[k - 1] + size[k - 1]]
    <2>1. ASSUME NEW k \in 1 .. n + 1, k # 1
          PROVE  size[k - 1] = SizeWith(longSet, k - 1)
        <3>1. k - 1 \in 1 .. Count
            BY <1>1, <2>1
        <3> QED
            BY <3>1
    <2> QED
        BY <2>1
<1> HIDE DEF Body, size
<1>5. PICK f : PartialSums(f, size, n)
    BY <1>1, <1>2, PartialSumsExist
<1>6. f = Body(f)
    BY <1>4, <1>5 DEF PartialSums
<1>7. PICK g : g = OffsetsWith(longSet)
    OBVIOUS
<1>8. g = Body(g)
    BY <1>3, <1>6, <1>7
<1>9. PartialSums(g, size, n)
    BY <1>4, <1>8 DEF PartialSums
<1>10. /\ g \in [1 .. n + 1 -> Nat]
       /\ g[1] = 0
       /\ \A k \in 1 .. n : g[k + 1] = g[k] + size[k]
    BY <1>1, <1>2, <1>9, PartialSumsAdd
<1>11. \A k \in 1 .. n : size[k] = SizeWith(longSet, k)
    BY DEF size
<1> QED
    BY <1>7, <1>10, <1>11 DEF Lays

\* A longer layout brings no label nearer.
LEMMA NoNearer ==
    ASSUME TypeOK, NEW part, NEW all, part \subseteq all,
           NEW near \in [1 .. Count + 1 -> Nat], Lays(near, part),
           NEW far \in [1 .. Count + 1 -> Nat], Lays(far, all),
           NEW i \in LocalBranches \ all, FitsShort(ShortDisp(i, far))
    PROVE  FitsShort(ShortDisp(i, near))
<1> DEFINE t == section.labels[Items[i].label]
<1>1. /\ i \in 1 .. Count /\ Count \in Nat /\ t \in 1 .. Count + 1
      /\ Items[i].kind = "branch" /\ IsLocalBranch(Items[i].label)
    BY LocalBranchItem
<1>2. SizeWith(part, i) = 2 /\ SizeWith(all, i) = 2
    BY <1>1 DEF SizeWith, BranchLength
<1>3. near[i + 1] = near[i] + 2 /\ far[i + 1] = far[i] + 2
    BY <1>1, <1>2 DEF Lays
<1>4. ASSUME NEW k \in 1 .. Count
      PROVE  0 <= near[k + 1] - near[k] /\ near[k + 1] - near[k] <= far[k + 1] - far[k]
    <2>1. IsItem(Items[k])
        BY DEF TypeOK, IsSection, Items, Count
    <2>2. SizeWith(part, k) \in Nat /\ SizeWith(all, k) \in Nat
        BY SizeWithIsNat
    <2>3. SizeWith(part, k) <= SizeWith(all, k)
        BY <2>1, <2>2 DEF SizeWith, BranchLength, IsItem
    <2>4. near[k] \in Nat /\ far[k] \in Nat
        BY <1>1
    <2>5. near[k + 1] = near[k] + SizeWith(part, k) /\ far[k + 1] = far[k] + SizeWith(all, k)
        BY DEF Lays
    <2> QED
        BY <2>2, <2>3, <2>4, <2>5
<1>5. /\ ShortDisp(i, near) = near[t] - (near[i] + 2)
      /\ ShortDisp(i, far) = far[t] - (far[i] + 2)
    BY DEF ShortDisp
<1>6. /\ near[t] \in Nat /\ near[i] \in Nat /\ near[i + 1] \in Nat
      /\ far[t] \in Nat /\ far[i] \in Nat /\ far[i + 1] \in Nat
    BY <1>1
<1>7. /\ MinShort \in Int /\ MaxShort \in Int /\ MinShort <= 0 /\ 0 <= MaxShort
    BY RangesAssumption
<1> HIDE DEF t
<1>8. CASE i + 1 <= t
    <2>1. i + 1 \in 1 .. Count + 1
        BY <1>1
    <2>2. 0 <= near[t] - near[i + 1] /\ near[t] - near[i + 1] <= far[t] - far[i + 1]
        BY <1>1, <1>4, <1>8, <2>1, StepsApart
    <2>3. ShortDisp(i, near) \in Int /\ ShortDisp(i, far) \in Int
        BY <1>5, <1>6
    <2>4. 0 <= ShortDisp(i, near) /\ ShortDisp(i, near) <= ShortDisp(i, far)
        BY <1>3, <1>5, <1>6, <2>2
    <2> QED
        BY <1>7, <2>3, <2>4 DEF FitsShort
<1>9. CASE t <= i
    <2>1. i \in 1 .. Count + 1
        BY <1>1
    <2>2. 0 <= near[i] - near[t] /\ near[i] - near[t] <= far[i] - far[t]
        BY <1>1, <1>4, <1>9, <2>1, StepsApart
    <2>3. ShortDisp(i, near) \in Int /\ ShortDisp(i, far) \in Int
        BY <1>5, <1>6
    <2>4. ShortDisp(i, near) <= 0 /\ ShortDisp(i, far) <= ShortDisp(i, near)
        BY <1>5, <1>6, <2>2
    <2> QED
        BY <1>7, <2>3, <2>4 DEF FitsShort
<1> QED
    BY <1>1, <1>8, <1>9

\* A round of a section without padding lays it out as its long branches say.
LEMMA WalkLays ==
    ASSUME TypeOK, Padless, Len(offsets) = Count + 1, Walk(offsets)
    PROVE  Lays(offsets, LongSet)
<1>1. Count \in Nat
    BY CountIsNat
<1>2. offsets \in [1 .. Count + 1 -> Nat]
    BY <1>1 DEF TypeOK
<1>3. offsets[1] = 0
    BY <1>1 DEF Walk
<1>4. ASSUME NEW k \in 1 .. Count
      PROVE  offsets[k + 1] = offsets[k] + SizeWith(LongSet, k)
    <2>1. offsets[k + 1] = offsets[k] + SizeOf(k, offsets[k])
        BY <1>1 DEF Walk
    <2>2. IsItem(Items[k]) /\ Items[k].kind # "align"
        BY DEF TypeOK, IsSection, Items, Count, Padless
    <2>3. k \in LongSet <=> long[k]
        BY DEF LongSet
    <2>4. SizeOf(k, offsets[k]) = SizeWith(LongSet, k)
        BY <2>2, <2>3 DEF SizeOf, SizeWith, BranchLength, IsItem
    <2> QED
        BY <2>1, <2>4
<1> QED
    BY <1>2, <1>3, <1>4 DEF Lays

\* What the invariant is about is the section's alone.
LEMMA SameSection ==
    ASSUME section' = section
    PROVE  /\ Count' = Count
           /\ Padless' = Padless
           /\ LocalBranches' = LocalBranches
           /\ \A longSet : Suffices(longSet)' = Suffices(longSet)
           /\ \A layout, longSet : Lays(layout, longSet)' = Lays(layout, longSet)
<1>1. Items' = Items /\ Count' = Count
    BY DEF Items, Count
<1>2. \A l : IsLocalBranch(l)' = IsLocalBranch(l)
    BY DEF IsLocalBranch
<1>3. LocalBranches' = LocalBranches
    BY <1>1, <1>2 DEF LocalBranches
<1>4. \A longSet, i : SizeWith(longSet, i)' = SizeWith(longSet, i)
    BY <1>1, <1>2 DEF SizeWith, BranchLength
<1>5. \A layout, longSet : Lays(layout, longSet)' = Lays(layout, longSet)
    BY <1>1, <1>4 DEF Lays
<1>6. \A layout, i : ShortDisp(i, layout)' = ShortDisp(i, layout)
    BY <1>1 DEF ShortDisp
<1>7. \A longSet : Suffices(longSet)' = Suffices(longSet)
    BY <1>1, <1>3, <1>5, <1>6 DEF Suffices, FitsShort
<1>8. Padless' = Padless
    BY <1>1 DEF Padless
<1> QED
    BY <1>1, <1>3, <1>5, <1>7, <1>8

LEMMA InitLeast == Init => LeastInv
BY DEF Init, Fresh, LeastInv, LongSet

\* Only a branch that every sufficient set contains is lengthened.
LEMMA GrowItemLeast ==
    ASSUME Inv, LeastInv, GrowItem
    PROVE  LeastInv'
<1> SUFFICES ASSUME Padless'
             PROVE  /\ \E longSet \in SUBSET LongSet' : Lays(offsets, longSet)'
                    /\ \A longSet \in SUBSET LocalBranches' :
                          Suffices(longSet)' => LongSet' \subseteq longSet
    BY DEF LeastInv
<1>1. section' = section /\ offsets' = offsets
    BY DEF GrowItem
<1>2. Padless
    BY <1>1, SameSection
<1>3. at \in 1 .. Count /\ IsShort(at) /\ ~FitsShort(ShortDisp(at, offsets))
    BY DEF Inv, TypeOK, GrowItem, NeedsGrowth
<1>4. LongSet' = LongSet \union {at}
    <2>1. Count' = Count /\ long \in [1 .. Count -> BOOLEAN] /\ long' = [long EXCEPT ![at] = TRUE]
        BY <1>1, SameSection DEF Inv, TypeOK, GrowItem
    <2> QED
        BY <1>3, <2>1 DEF LongSet
<1>5. PICK part \in SUBSET LongSet : Lays(offsets, part)
    BY <1>2 DEF LeastInv, GrowItem
<1>6. Lays(offsets, part)'
    <2>1. Lays(offsets', part)
        BY <1>1, <1>5
    <2>2. \A layout : layout = offsets' => (Lays(layout, part)' <=> Lays(offsets, part)')
        BY <1>1 DEF Lays
    <2> QED
        BY <1>1, <1>5, SameSection DEF Lays
<1>7. ASSUME NEW longSet \in SUBSET LocalBranches', Suffices(longSet)'
      PROVE  LongSet' \subseteq longSet
    <2>1. longSet \in SUBSET LocalBranches /\ Suffices(longSet)
        BY <1>1, <1>7, SameSection
    <2>2. LongSet \subseteq longSet
        BY <1>2, <2>1 DEF LeastInv
    <2>3. at \in longSet
        <3> SUFFICES ASSUME at \notin longSet
                     PROVE  FALSE
            OBVIOUS
        <3>1. at \in LocalBranches \ longSet
            BY <1>3 DEF IsShort, LocalBranches
        <3>2. PICK layout \in [1 .. Count + 1 -> Nat] :
                 /\ Lays(layout, longSet)
                 /\ \A i \in LocalBranches \ longSet : FitsShort(ShortDisp(i, layout))
            BY <2>1 DEF Suffices
        <3>3. offsets \in [1 .. Count + 1 -> Nat] /\ part \subseteq longSet
            BY <1>5, <2>2 DEF Lays
        <3> QED
            BY <1>3, <1>5, <3>1, <3>2, <3>3, NoNearer DEF Inv
    <2> QED
        BY <1>4, <2>2, <2>3
<1> QED
    BY <1>4, <1>5, <1>6, <1>7

\* Every other step leaves what is long alone, and the offsets of a round
\* that has begun to grow.
LEMMA OtherLeast ==
    ASSUME Inv, Inv', LeastInv, [Next]_vars, ~GrowItem
    PROVE  LeastInv'
<1> SUFFICES ASSUME Padless'
             PROVE  /\ stage' = "grow" => \E longSet \in SUBSET LongSet' : Lays(offsets, longSet)'
                    /\ \A longSet \in SUBSET LocalBranches' :
                          Suffices(longSet)' => LongSet' \subseteq longSet
    BY DEF LeastInv
<1>1. /\ section' = section /\ long' = long
      /\ stage' = "grow" => \/ stage = "grow" /\ offsets' = offsets
                            \/ MeasureEnd
    BY DEF Next, MeasureItem, TooLarge, MeasureEnd, KeepItem, NextRound, Settle,
           FinalItem, FinalEnd, EmitItem, EmitFixed, EmitShort, EmitLong,
           EmitExternal, EmitAlign, EmitSizeDot, Emit, Emitting, EmitEnd, Terminated, vars
<1>2. Padless /\ LongSet' = LongSet /\ LocalBranches' = LocalBranches
    BY <1>1, SameSection DEF LongSet
<1>3. ASSUME NEW longSet \in SUBSET LocalBranches', Suffices(longSet)'
      PROVE  LongSet' \subseteq longSet
    BY <1>1, <1>2, <1>3, SameSection DEF LeastInv
<1>4. ASSUME stage' = "grow"
      PROVE  \E longSet \in SUBSET LongSet' : Lays(offsets, longSet)'
    <2>1. CASE stage = "grow" /\ offsets' = offsets
        <3>1. PICK part \in SUBSET LongSet : Lays(offsets, part)
            BY <1>2, <2>1 DEF LeastInv
        <3>2. Lays(offsets, part)'
            BY <1>1, <2>1, <3>1, SameSection DEF Lays
        <3> QED
            BY <1>2, <3>1, <3>2
    <2>2. CASE MeasureEnd
        <3>1. TypeOK' /\ Len(offsets)' = Count' + 1 /\ Walk(offsets)'
            <4>1. ~grew'
                BY <2>2 DEF Inv, MeasureInv, MeasureEnd
            <4> QED
                BY <1>4, <4>1 DEF Inv, GrowInv
        <3>2. (TypeOK /\ Padless /\ Len(offsets) = Count + 1 /\ Walk(offsets)
                 => Lays(offsets, LongSet))'
            BY WalkLays, PTL
        <3>3. Lays(offsets, LongSet)'
            BY <3>1, <3>2
        <3> QED
            BY <3>3
    <2> QED
        BY <1>1, <1>4, <2>1, <2>2
<1> QED
    BY <1>3, <1>4

\* In a section whose sizes do not depend on its offsets, the branches that
\* are long in the end are the least set under which all others reach: no
\* branch is long that could be short.
THEOREM GrowthIsLeast == Spec => []LeastGrowth
<1>1. Inv /\ LeastInv => LeastGrowth
    <2> SUFFICES ASSUME Inv, LeastInv, Padless,
                        NEW longSet \in SUBSET LocalBranches, OthersReach(longSet)
                 PROVE  LongSet \subseteq longSet
        BY DEF LeastGrowth, LongSet, Padless
    <2>1. Lays(OffsetsWith(longSet), longSet)
        BY OffsetsWithLays DEF Inv
    <2>2. OffsetsWith(longSet) \in [1 .. Count + 1 -> Nat]
        BY <2>1 DEF Lays
    <2>3. Suffices(longSet)
        BY <2>1, <2>2 DEF OthersReach, Suffices
    <2> QED
        BY <2>3 DEF LeastInv
<1>2. Inv /\ Inv' /\ LeastInv /\ [Next]_vars => LeastInv'
    BY GrowItemLeast, OtherLeast
<1>3. Init => LeastInv
    BY InitLeast
<1> QED
    BY <1>1, <1>2, <1>3, Invariance, PTL DEF Spec
=============================================================================
