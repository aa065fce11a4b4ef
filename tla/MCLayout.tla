------------------------------ MODULE MCLayout ------------------------------
(***************************************************************************)
(* Layout over every source made of up to MCLength fragments.  A fragment  *)
(* is a statement, or a few that only make sense together.                 *)
(***************************************************************************)
EXTENDS Layout

CONSTANT MCLength    \* how many fragments a source has at most

MCNames == BuiltIn \union {"__data", "__bss"}

Bytes(n)             == [op |-> "bytes", bytes |-> n]
Fill(repeat, width)  == [op |-> "fill", repeat |-> repeat, width |-> width]
Space(n)             == [op |-> "space", bytes |-> n]
Align(p, fill, skip) == [op |-> "align", power |-> p, fill |-> fill, skip |-> skip]
InSection(n, k)      == [op |-> "section", name |-> n, kind |-> k]
Zerofill(p, n)       == [op |-> "zerofill", name |-> "__bss", kind |-> "zerofill",
                         power |-> p, bytes |-> n]
Cfi(n, forbids)      == [op |-> "cfi", bytes |-> n, forbids |-> forbids]
Do(op)               == [op |-> op]

Fragments == {
    << Bytes(3) >>,
    << Fill(2, 9), Do("label") >>,                 \* sixteen bytes: width is at most 8
    << Fill(9, 8) >>,                              \* measured, then over the limit
    << Space(60) >>,
    << Align(2, FALSE, MaxSize) >>,
    << Bytes(1), Align(3, FALSE, 3), Bytes(4) >>,  \* padding is skipped, or not
    << InSection("__data", "data") >>,
    << InSection("__data", "data"), Align(4, TRUE, MaxSize) >>,
    << InSection("__bss", "zerofill"), Space(5), Align(2, FALSE, MaxSize) >>,
    << Zerofill(3, 6) >>,
    << InSection("__text", "text"), Do("startproc"), Bytes(4), Cfi(2, FALSE) >>,
    << Do("startproc"), Space(64), Cfi(3, TRUE) >>,
    << Bytes(4), Do("endproc") >>
}

Sources[n \in Nat] ==
    IF n = 0 THEN { <<>> }
    ELSE Sources[n - 1] \union { s \o f : s \in Sources[n - 1], f \in Fragments }

MCPrograms == Sources[MCLength]

=============================================================================
