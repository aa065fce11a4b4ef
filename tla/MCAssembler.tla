----------------------------- MODULE MCAssembler -----------------------------
(***************************************************************************)
(* Assembler over every source made of up to MCLength fragments: two       *)
(* labels, one of them in data, a label with the local prefix, a zero-fill *)
(* symbol, a common one, a name nobody defines, and two that are assigned. *)
(***************************************************************************)
EXTENDS Assembler, TLC

CONSTANT MCLength    \* how many fragments a source has at most

MCSections == BuiltIn \union {"__data", "__bss"}
MCNames    == {"f", "d", "L", "z", "c", "u", "a", "b"}
MCMinInt   == -10000

\* Reaches, in bits, of three branches: 32 and 2 instructions, and 16 bytes.
MCBits == ("Branch26" :> 6) @@ ("Branch19" :> 2) @@ ("Adr21" :> 5)

Plus(n)    == [sign |-> 1,  kind |-> "sym", name |-> n]
Minus(n)   == [sign |-> -1, kind |-> "sym", name |-> n]
Got(n)     == [sign |-> 1,  kind |-> "got", name |-> n]
Lit(v)     == [sign |-> 1,  kind |-> "int", value |-> v]

Do(op, n)         == [op |-> op, name |-> n]
Set(n, e)         == [op |-> "set", name |-> n, expr |-> e]
Quad(e)           == [op |-> "quad", bytes |-> 8, expr |-> e]
Operator(r, e)    == [op |-> "fixup", bytes |-> 4, reloc |-> r, expr |-> e]
Bytes(n)          == [op |-> "bytes", bytes |-> n]
Align(p)          == [op |-> "align", power |-> p, fill |-> FALSE, skip |-> MaxSize]
InSection(n, k)   == [op |-> "section", name |-> n, kind |-> k]
Zerofill(p, b, n) == [op |-> "zerofill", name |-> "__bss", kind |-> "zerofill",
                      power |-> p, bytes |-> b, symbol |-> n]
Text == InSection("__text", "text")
Data == InSection("__data", "data")

Fragments == {
    << Do("label", "f"), Bytes(4) >>,
    << Bytes(3), Align(2) >>,
    << Do("label", "L"), [op |-> "fill", repeat |-> 1, width |-> 4] >>,
    << Data, Do("label", "d"), Quad(<< Plus("f"), Lit(4) >>) >>,
    << Quad(<< Plus("d"), Minus("f") >>), Quad(<< Got("u") >>) >>,
    << Quad(<< Plus("a"), Lit(1) >>) >>,
    << Quad(<< Plus("b") >>), [op |-> "space", bytes |-> 20] >>,
    << Text, Operator("Branch26", << Plus("f") >>) >>,
    << Operator("Branch26", << Plus("u"), Plus("a") >>) >>,
    << Operator("Branch26", << Plus("f"), Lit(8) >>) >>,
    << Operator("Branch19", << Plus("L") >>), Operator("Adr21", << Plus("L"), Lit(1) >>) >>,
    << Operator("PAGE21", << Plus("z"), Lit(4) >>), Operator("PAGEOFF12", << Plus("z"), Lit(4) >>),
       Operator("GOT_LOAD_PAGE21", << Plus("c") >>) >>,
    << Set("a", << Lit(4) >>) >>,
    << Set("a", << Plus("a"), Lit(4) >>) >>,
    << Set("a", << Plus("f") >>) >>,
    << Set("b", << Plus("a") >>) >>,
    << Set("f", << Plus("d") >>) >>,
    << Do("global", "f") >>,
    << Do("weak", "d"), Do("local", "f"), [op |-> "subsections"] >>,
    << Zerofill(3, 4, "z") >>,
    << Do("comm", "c"), Quad(<< Plus("c"), Lit(2) >>) >>,
    << [op |-> "startproc"], Bytes(4), [op |-> "cfi", bytes |-> 2, forbids |-> FALSE],
       [op |-> "endproc"] >>
}

Sources[n \in Nat] ==
    IF n = 0 THEN { <<>> }
    ELSE Sources[n - 1] \union { s \o f : s \in Sources[n - 1], f \in Fragments }

MCPrograms == Sources[MCLength]

\* Addresses that no small sum confuses.
Spread(first) ==
    [sections  |-> [n \in MCSections |->
                       first * CASE n = "__text"           -> 1
                                 [] n = ".text"            -> 8
                                 [] n = "__data"           -> 27
                                 [] n = ".data"            -> 64
                                 [] n = "__bss"            -> 125
                                 [] n = ".bss"             -> 216
                                 [] n = "__compact_unwind" -> 343
                                 [] n = "__eh_frame"       -> 512],
     externals |-> [n \in Names |-> CASE n = "u" -> 1000003 * first
                                      [] n = "c" -> 1100009 * first
                                      [] OTHER   -> 900001 * first],
     gots      |-> [n \in Names |-> IF n = "u" THEN 1500007 * first ELSE 1700011 * first]]

MCLinkings == { Spread(101), Spread(57) }

=============================================================================
