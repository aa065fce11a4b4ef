------------------------------ MODULE MCPreview ------------------------------
(***************************************************************************)
(* Preview over every source of up to MCLength statements, and over        *)
(* sources that define two numeric labels between three assignments.       *)
(***************************************************************************)
EXTENDS Preview

CONSTANT MCLength     \* how many statements a source has at most

MCMinInt == -8

Plus(name)     == [sign |-> 1,  kind |-> "sym", name |-> name]
Minus(name)    == [sign |-> -1, kind |-> "sym", name |-> name]
Literal(v)     == [sign |-> 1,  kind |-> "int", value |-> v]
Numeric(sign, k, back) ==
  [sign |-> sign, kind |-> "numeric", number |-> k, back |-> back]
Back(sign, k)  == Numeric(sign, k, TRUE)
Ahead(sign, k) == Numeric(sign, k, FALSE)

\* every definition that a source can have, and the one that it refers to last
MCSymbols == << <<"1$1", "1$2", "1$3", "1$4">>,
                <<"2$1", "2$2", "2$3", "2$4">> >>

Set1 == {[op |-> "set", name |-> n, expr |-> e] : n \in {"x", "y"},
           e \in { << Literal(5) >>,
                   << Plus("x"), Literal(1) >>,
                   << Plus("y"), Plus("y") >>,
                   << Plus("m"), Minus("l") >>,
                   << Plus("x"), Plus("l"), Minus("l") >>,
                   << Plus("l") >> }}

Set2 == {[op |-> "set", name |-> n, expr |-> e] : n \in {"x", "y"},
           e \in { << Back(1, 2), Back(-1, 1) >>,
                   << Ahead(1, 2), Ahead(-1, 1) >>,
                   << Back(1, 2), Ahead(-1, 2), Literal(1) >> }}

Labels1  == {[op |-> "label", name |-> n] : n \in {"l", "m"}}
Numeric1 == {[op |-> "numeric", number |-> k] : k \in {1, 2}}
Uses1    == {[op |-> "constant", name |-> n, bytes |-> 2] : n \in {"x", "y"}}
Branch1(leaf) == [op |-> "branch", leaf |-> leaf, bytes |-> 2]
Statements1 ==
  Set1 \cup Labels1 \cup Uses1 \cup Numeric1 \cup
    {Branch1(Back(1, 1)), Branch1(Ahead(1, 1))}

DefinedOnce(stmts) ==
  \A i, j \in DOMAIN stmts :
    stmts[i] = stmts[j] /\ stmts[i].op = "label" => i = j

Short ==
  {stmts \in UNION {[1 .. n -> Statements1] : n \in 1 .. MCLength} :
     DefinedOnce(stmts)}

Long ==
  {<<a, n, Branch1(Ahead(1, 1)), k, b, c, u>> :
     a \in Set1 \cup Set2, n \in Numeric1, k \in Numeric1,
     b \in Set1 \cup Set2, c \in Set1, u \in Uses1}

MCPrograms == Short \cup Long
=============================================================================
