---------------------------- MODULE MCSetResolver ----------------------------
(***************************************************************************)
(* SetResolver over every source of up to MCLength assignments to two      *)
(* names, with two labels of one section and a name nobody defines.        *)
(***************************************************************************)
EXTENDS SetResolver

CONSTANT MCLength     \* how many assignments a source has at most

MCMinInt == -4

Plus(name)    == [sign |-> 1,  kind |-> "sym", name |-> name]
Minus(name)   == [sign |-> -1, kind |-> "sym", name |-> name]
Literal(v)    == [sign |-> 1,  kind |-> "int", value |-> v]
Got(name)     == [sign |-> 1,  kind |-> "got", name |-> name]

Expressions1 == {
    << Literal(1) >>,
    << Literal(5) >>,                              \* more than MaxInt
    << Plus("x") >>,
    << Plus("y"), Literal(1) >>,
    << Plus("y"), Plus("x"), Minus("y") >>,    \* y cancels out, and is needed
    << Plus("m"), Minus("l") >>,
    << Minus("l"), Plus("x") >>,
    << Plus("u"), Minus("l"), Plus("y") >>,
    << Got("l") >>
}

Assigns == [name : {"x", "y"}, expr : Expressions1]

MCLists == UNION { [1 .. n -> Assigns] : n \in 0 .. MCLength }

Label(v) == [kind |-> "defined", section |-> 1, value |-> v]

MCBases == { [n \in {"x", "y", "l", "m", "u"} |->
                 CASE n = "l" -> Label(1) [] n = "m" -> Label(3) [] OTHER -> Undefined] }

=============================================================================
