------------------------------ MODULE MCX86Relax ------------------------------
(***************************************************************************)
(* X86Relax over every section of up to MCLength items, and of up to       *)
(* MCCascade items of fewer kinds, with labels l and m in any place, for   *)
(* displacements of four bits.                                             *)
(***************************************************************************)
EXTENDS X86Relax

CONSTANTS
    MCLength,     \* how many items of any kind a section has at most
    MCCascade     \* and how many of those of cascades

MCMinShort == -8
MCMinLong == -24

Fixed(size)         == [kind |-> "fixed", size |-> size]
Branch(jcc, label)  == [kind |-> "branch", jcc |-> jcc, label |-> label]
Align(align, max)   == [kind |-> "align", align |-> align, max |-> max]

\* w is a weak label, and e no label at all
ItemSet == {
    Fixed(1), Fixed(5),
    Branch(FALSE, "l"), Branch(TRUE, "l"), Branch(FALSE, "m"),
    Branch(TRUE, "w"), Branch(FALSE, "e"),
    Align(4, MaxOffset), Align(8, 3),
    [kind |-> "sizedot", sym |-> "l"]
}

\* For the longer sections: what makes one branch push another out of reach.
CascadeItems == { Fixed(2), Fixed(5), Branch(FALSE, "l"), Branch(TRUE, "m"), Align(4, MaxOffset) }

ItemLists ==
    UNION { [1 .. n -> ItemSet] : n \in 0 .. MCLength } \union
    UNION { [1 .. n -> CascadeItems] : n \in MCLength + 1 .. MCCascade }

Uses(items, label) ==
    \E i \in 1 .. Len(items) : items[i].kind = "branch" /\ items[i].label = label

\* Labels nobody jumps to stand still.
Places(items, label) == IF Uses(items, label) THEN 1 .. Len(items) + 1 ELSE {1}

Labels(l, m) == [n \in {"l", "m", "w"} |-> CASE n = "l" -> l [] n = "m" -> m [] n = "w" -> 1]

SectionsOf(items) ==
    { [items |-> items, weak |-> {"w"}, labels |-> Labels(l, m), nobits |-> Len(items) = 2] :
      l \in Places(items, "l"), m \in Places(items, "m") }

MCSections == UNION { SectionsOf(items) : items \in ItemLists }
=============================================================================
