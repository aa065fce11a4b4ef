------------------------------ MODULE MCObjects ------------------------------
(***************************************************************************)
(* Objects over every source made of up to MCLength fragments, with names  *)
(* of every sort that the symbol table treats in its own way.              *)
(***************************************************************************)
EXTENDS Objects, TLC

CONSTANT MCLength    \* how many fragments a source has at most

MCSections == BuiltIn \union {"__cstring", "__data", "__thread_vars", "__thread_data"}
MCTemps    == << "ltmp0", "ltmp1", "ltmp2", "ltmp3", "ltmp4", "ltmp5",
                  "ltmp6", "ltmp7", "ltmp8", "ltmp9", "ltmp10", "ltmp11" >>
MCAlphabet == << ".L", "L", "a", "b", "c", "d", "f", "g", "lCPI" >>
                \o MCTemps \o << "m", "t", "u", "v" >>
MCNames    == { MCAlphabet[i] : i \in DOMAIN MCAlphabet }
                 \ { MCTemps[i] : i \in DOMAIN MCTemps }
MCMinInt   == -10000
MCBits     == ("Branch26" :> 10) @@ ("Branch19" :> 6)

Plus(n)    == [sign |-> 1,  kind |-> "sym", name |-> n]
Minus(n)   == [sign |-> -1, kind |-> "sym", name |-> n]
Lit(v)     == [sign |-> 1,  kind |-> "int", value |-> v]

Do(op, n)         == [op |-> op, name |-> n]
Set(n, e)         == [op |-> "set", name |-> n, expr |-> e]
Quad(e)           == [op |-> "quad", bytes |-> 8, expr |-> e]
Operator(r, e)    == [op |-> "fixup", bytes |-> 4, reloc |-> r, expr |-> e]
Instr             == [op |-> "bytes", bytes |-> 4, code |-> TRUE]
Chars(n)          == [op |-> "bytes", bytes |-> n, code |-> FALSE]
Align(p)          == [op |-> "align", power |-> p, fill |-> FALSE, skip |-> MaxSize]
InSection(n, k)   == [op |-> "section", name |-> n, kind |-> k]
Text  == InSection("__text", "text")
DataS == InSection("__data", "data")

Fragments == {
    << Text, Do("label", "f"), Instr >>,
    << Do("global", "g"), Text, Do("label", "g"), Instr, Operator("Branch26", << Plus("f") >>) >>,
    << InSection("__cstring", "data"), Do("label", "m"), Chars(3), Do("label", ".L"), Chars(1) >>,
    << Text, Operator("PAGE21", << Plus("m"), Lit(4) >>), Operator("Branch26", << Plus("u") >>) >>,
    << DataS, Do("label", "d"), Quad(<< Plus("f") >>), Do("label", "lCPI") >>,
    << Quad(<< Plus("d"), Minus("f") >>), Quad(<< Plus("u") >>) >>,
    << Text, Operator("PAGE21", << Plus("d") >>), Operator("PAGE21", << Plus("lCPI") >>) >>,
    << InSection("__thread_vars", "data"), Do("label", "v"), Quad(<< Plus("t") >>) >>,
    << InSection("__thread_data", "data"), Do("label", "t"), Chars(4) >>,
    << Do("label", "L"), Instr, Operator("Branch19", << Plus("L") >>) >>,
    << Align(2), [op |-> "space", bytes |-> 2] >>,
    << Set("a", << Lit(4) >>), Do("global", "a") >>,
    << Set("b", << Plus("m") >>) >>,
    << Do("comm", "c"), Operator("Branch26", << Plus("c"), Lit(4) >>) >>,
    << Do("weak", "d"), Do("local", "c"), Do("local", "g") >>,
    << [op |-> "subsections"], Do("weak", "f") >>,
    << Set(".L", << Lit(4) >>), [op |-> "space", bytes |-> 0] >>,
    << [op |-> "startproc"], Instr, [op |-> "endproc"] >>
}

Sources[n \in Nat] ==
    IF n = 0 THEN { <<>> }
    ELSE Sources[n - 1] \union { s \o f : s \in Sources[n - 1], f \in Fragments }

MCPrograms == Sources[MCLength]

=============================================================================
