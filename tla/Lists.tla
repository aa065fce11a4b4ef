-------------------------------- MODULE Lists --------------------------------
(***************************************************************************)
(* Selections from a list by a set, in place of SelectSeq of module        *)
(* Sequences, of which the provers know nothing.                           *)
(***************************************************************************)
EXTENDS Integers, SequencesExt

\* The elements of s that are in T, in the order of s.
Those(s, T) ==
    LET kept[k \in 0 .. Len(s)] ==
            IF k = 0 THEN <<>>
            ELSE IF s[k] \in T THEN Append(kept[k - 1], s[k]) ELSE kept[k - 1]
    IN  kept[Len(s)]

\* The position of e in s, or the one behind the last.
Position(s, e) == Min({ i \in DOMAIN s : s[i] = e } \union {Len(s) + 1})

\* s without the elements that occur before
Distinct(s) ==
    LET firsts == Those([i \in DOMAIN s |-> i],
                        { i \in DOMAIN s : \A j \in 1 .. i - 1 : s[j] # s[i] })
    IN  [k \in DOMAIN firsts |-> s[firsts[k]]]

\* s sorted by insertion, as the library sorts so few elements: each goes
\* behind the last one that it is not to precede.  behind has the pairs
\* <<a, b>> of which a is to come after b.  It is stable.
Sorted(s, behind) ==
    LET sorted[k \in 0 .. Len(s)] ==
            IF k = 0 THEN <<>>
            ELSE LET before == sorted[k - 1]
                     stay   == { i \in DOMAIN before : <<before[i], s[k]>> \notin behind }
                 IN  InsertAt(before, 1 + Max({0} \union stay), s[k])
    IN  sorted[Len(s)]

=============================================================================
