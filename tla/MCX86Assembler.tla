---------------------------- MODULE MCX86Assembler ----------------------------
(***************************************************************************)
(* Small x86_64 sources: what is declared of the symbols, how they are     *)
(* laid out and how they are referred to, in every combination, with the   *)
(* declarations before or after the references.                            *)
(***************************************************************************)
EXTENDS X86Assembler, TLC

MCNames == {"f", "L", "a", "b", "c", "u"}
MCTemporary == {"L"}
MCMinShort == -8
MCMinLong  == -40
MCModulus == (1 :> 8) @@ (2 :> 64) @@ (4 :> 4096) @@ (8 :> 65536)

MCBase == (".text" :> 100) @@ (".data" :> 300) @@ (".bss" :> 500)
MCExt == ("f" :> 711) @@ ("L" :> 722) @@ ("a" :> 733) @@ ("b" :> 744) @@ ("c" :> 755) @@ ("u" :> 766)
MCLinkings == { [base |-> MCBase, ext |-> MCExt, preempts |-> p] : p \in BOOLEAN }

-----------------------------------------------------------------------------
(* Statements. *)

Lab(n)          == [op |-> "label", name |-> n]
Set(n, t)       == [op |-> "set", name |-> n, target |-> t]
Sect(n, sub)    == [op |-> "section", name |-> n, sub |-> sub, type |-> "none", flags |-> "none"]
Attr(n, attr)   == [op |-> "attr", name |-> n, attr |-> attr]
Typ(n, t)       == [op |-> "type", name |-> n, typ |-> t]
SizeConst(n, v) == [op |-> "size", name |-> n, size |-> [kind |-> "const", value |-> v]]
SizeDot(n, b)   == [op |-> "size", name |-> n, size |-> [kind |-> "dot", base |-> b]]
CommOf(n, s, al) == [op |-> "comm", name |-> n, size |-> s, align |-> al]
FileOf(n)       == [op |-> "file", name |-> n]
AlignOf(al, mx) == [op |-> "align", align |-> al, max |-> mx]
Data(size, fields) == [op |-> "data", size |-> size, fields |-> fields, zero |-> FALSE]
Num(size)       == Data(size, << [kind |-> "num", at |-> 0, width |-> size] >>)
ZeroOf(size)    == [Num(size) EXCEPT !.zero = TRUE]
Insn(size, fields) == [op |-> "insn", size |-> size, fields |-> fields, zero |-> TRUE]
Br(jcc, l)      == [op |-> "branch", jcc |-> jcc, label |-> l]

SymAt(off, width, n, add) == [kind |-> "sym", at |-> off, width |-> width, sym |-> n, addend |-> add]
DiffAt(off, width, m, s, add) ==
    [kind |-> "diff", at |-> off, width |-> width, minuend |-> m, subtrahend |-> s, addend |-> add]

\* call n; an instruction with n(%rip) and an immediate byte after it.
Call(n)     == Insn(5, << [kind |-> "insn", at |-> 1, width |-> 4, sym |-> n, type |-> "plt32", addend |-> -4] >>)
WithRip(n)  == Insn(7, << [kind |-> "insn", at |-> 2, width |-> 4, sym |-> n, type |-> "pc32", addend |-> 1 - 5] >>)

-----------------------------------------------------------------------------

Declarations == {
    << >>,
    << Attr("f", "globl"), Typ("f", "func") >>,
    << Attr("f", "weak") >>,
    << Attr("f", "globl"), Attr("f", "hidden") >>,
    << FileOf("x.c"), Attr("L", "globl"), FileOf("y.c") >>,
    << Attr("f", "globl"), Attr("a", "globl"), Attr("u", "extern"), Attr("u", "weak") >>,
    << Attr("c", "local"), FileOf("x.c") >>,
    << Typ("f", "func"), SizeDot("f", "f"), Typ("u", "object") >>,
    << SizeConst("f", 3), SizeDot("a", "L") >>,
    << Attr("c", "weak"), SizeDot("u", "f"), Attr("u", "weak") >> }

Layouts == {
    << Lab("f"), Num(1), Lab("L"), Num(2) >>,
    << Sect(".text", 1), Lab("L"), Num(2), Sect(".text", 0), Lab("f"), Num(1) >>,
    << Lab("f"), Num(1), Sect(".data", 0), Lab("L"), Num(2), Set("a", "L"), Sect(".data", 1), Lab("b") >>,
    << Sect(".data", 0), Num(2), Lab("f"), Num(1), Sect(".text", 0), Num(1), Lab("L") >>,
    << Lab("f"), Num(6), AlignOf(4, 4), Num(1), Lab("L"), Sect(".text", 0) >>,
    << Sect(".bss", 0), Lab("f"), ZeroOf(2), Sect(".text", 0), Lab("L") >>,
    << Sect(".text", 2), Lab("f"), Num(1), SizeDot("f", "f"), Set("a", "f"), Set("b", "a") >>,
    << CommOf("c", 3, 0), Lab("f"), CommOf("c", 2, 8), Num(1), Set("a", "f"), Attr("c", "hidden") >>,
    << Attr("c", "local"), CommOf("c", 3, 4), Sect(".bss", 0), ZeroOf(1), Sect(".text", 0), Lab("f"),
       Attr("b", "local"), CommOf("b", 4, 2) >>,
    << Sect(".text", 0) >> }

Uses == {
    << Br(FALSE, "f"), Br(TRUE, "L") >>,
    << Num(1), Br(TRUE, "u"), Call("f"), WithRip("L") >>,
    << Sect(".data", 0), Data(12, << SymAt(0, 4, "f", 1), SymAt(4, 8, "L", 0) >>) >>,
    << Sect(".text", 0), Num(1), Data(4, << DiffAt(0, 4, "L", "f", 0) >>) >>,
    << Data(9, << DiffAt(0, 1, "L", ".", 1), DiffAt(1, 8, "f", "L", 0) >>) >>,
    << Call("a"), Sect(".data", 0), Data(8, << SymAt(0, 8, "b", 0) >>), Num(1), Data(4, << DiffAt(0, 4, "a", ".", 0) >>) >>,
    << WithRip("c"), Sect(".data", 0), Data(12, << SymAt(0, 8, "c", 1), SymAt(8, 4, "u", 0) >>) >>,
    << Sect(".text", 1), Num(4), Br(FALSE, "f"), Num(4), Br(TRUE, "a") >>,
    << Sect(".bss", 0), Call("f") >> }

\* What pass 1 and the allocation of commons refuse.
Faults == {
    << Sect(".data", 0), [Sect(".data", 0) EXCEPT !.flags = "ax"] >>,
    << [Sect(".data", 0) EXCEPT !.type = "nobits"] >>,
    << SizeDot("f", "f") >>,
    << Sect(".bss", 0), Num(1) >>,
    << Lab("f"), CommOf("f", 1, 0) >>,
    << Attr("c", "local"), CommOf("c", 1, 0), CommOf("c", 1, 0) >>,
    << CommOf("c", 1, 0), Attr("c", "weak") >>,
    << Attr("c", "local"), CommOf("c", 1, 3) >>,
    << Set("a", "u") >>,
    << Sect(".text", 0), Num(30), Br(FALSE, "f"), Num(30) >> }

MCPrograms ==
    { d \o l \o u : d \in Declarations, l \in Layouts, u \in Uses }
        \union { u \o l \o d : d \in Declarations, l \in Layouts, u \in Uses }
        \union { l \o f : l \in Layouts, f \in Faults }
        \union Faults
=============================================================================
