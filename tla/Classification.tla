--------------------------- MODULE Classification ---------------------------
(***************************************************************************)
(* Classification of an expression against what the expression means: a    *)
(* constant plus a multiple of the address of every section and of every   *)
(* undefined symbol, whatever these addresses turn out to be.              *)
(***************************************************************************)
EXTENDS Expressions

CONSTANTS
    Names,          \* names of symbols
    SectionIds,     \* the sections that labels can be in
    Exprs,          \* the expressions considered
    Envs            \* the environments, functions on Names

\* No symbol.
Nothing == ""

Place == {Undefined}
           \union [kind : {"absolute"}, value : MinInt .. MaxInt]
           \union [kind : {"defined"}, section : SectionIds, value : 0 .. MaxUnsigned]

\* The leaves are those of linearize, and every name has a value (lookup).
ASSUME ExpressionsAssumption ==
    /\ Nothing \notin Names
    /\ \A e \in Exprs :
          /\ e \in Seq(Leaf)
          /\ \A i \in DOMAIN e : e[i].kind = "sym" => e[i].name \in Names
    /\ Envs \subseteq [Names -> Place]

VARIABLES expr, env, result
vars == <<expr, env, result>>

Pending == [kind |-> "pending"]

Init == /\ expr \in Exprs
        /\ env \in Envs
        /\ result = Pending

\* classify_with_lookup
ClassifyIt == /\ result = Pending
              /\ result' = Classify(expr, env)
              /\ UNCHANGED <<expr, env>>

Next == ClassifyIt

Spec == Init /\ [][Next]_vars

-----------------------------------------------------------------------------
(* The meaning of an expression: the sum of its leaves with their signs. *)

SumOf(worth) == Total([i \in DOMAIN expr |-> expr[i].sign * worth[i]])

ConstantMeant ==
    SumOf([i \in DOMAIN expr |->
              CASE expr[i].kind = "int" -> expr[i].value
                [] expr[i].kind = "sym" /\ env[expr[i].name] # Undefined ->
                      env[expr[i].name].value
                [] OTHER -> 0])

\* How often the expression counts the address of section s ...
SectionMeant(s) ==
    SumOf([i \in DOMAIN expr |->
              IF /\ expr[i].kind = "sym"
                 /\ env[expr[i].name].kind = "defined"
                 /\ env[expr[i].name].section = s
              THEN 1 ELSE 0])

\* ... and the leaves of a kind that name n.
Times(kind, n) ==
    SumOf([i \in DOMAIN expr |->
              IF expr[i].kind = kind /\ expr[i].name = n THEN 1 ELSE 0])

SymbolMeant(n) == IF env[n] = Undefined THEN Times("sym", n) ELSE 0

HereMeant == SumOf([i \in DOMAIN expr |-> IF expr[i].kind = "here" THEN 1 ELSE 0])

\* What a linker makes of a symbol.
ConstantOf(n) == IF n # Nothing /\ env[n] # Undefined THEN env[n].value ELSE 0
SectionOf(n, s) ==
    IF n # Nothing /\ env[n].kind = "defined" /\ env[n].section = s THEN 1 ELSE 0
SymbolOf(n, m) == IF n = m /\ env[m] = Undefined THEN 1 ELSE 0

\* What it finds at the place, symbol plus - symbol minus + addend, is what
\* the expression means, wherever it puts the sections and the symbols.
Linked(plus, minus, addend) ==
    /\ ConstantMeant = addend + ConstantOf(plus) - ConstantOf(minus)
    /\ \A s \in SectionIds : SectionMeant(s) = SectionOf(plus, s) - SectionOf(minus, s)
    /\ \A m \in Names : SymbolMeant(m) = SymbolOf(plus, m) - SymbolOf(minus, m)

\* What classification returns is what the expression means: no addend is
\* lost or counted twice when labels are folded into their section, when a
\* label is exchanged for another anchor, or when a name occurs twice.
MeaningKept ==
    CASE result.kind = "absolute"    -> Linked(Nothing, Nothing, result.value)
      [] result.kind = "unsigned"    -> Linked(Nothing, Nothing, result.value)
      [] result.kind = "relocatable" -> Linked(result.symbol, Nothing, result.addend)
      [] result.kind = "difference"  -> Linked(result.minuend, result.subtrahend,
                                               result.addend)
      [] result.kind = "got"         -> /\ Linked(Nothing, Nothing, result.addend)
                                        /\ Times("got", result.symbol) = 1
                                        /\ HereMeant = IF result.pcrel THEN -1 ELSE 0
      [] OTHER                       -> TRUE

\* The addresses that an expression can depend on: of the sections and of
\* the symbols that are not defined.  It counts exactly those in plus once,
\* and exactly those in minus with a minus sign.
Counts(plus, minus) ==
    /\ \A s \in SectionIds :
          SectionMeant(s) = CASE <<"section", s>> \in plus  -> 1
                              [] <<"section", s>> \in minus -> -1
                              [] OTHER -> 0
    /\ \A m \in Names :
          SymbolMeant(m) = CASE <<"symbol", m>> \in plus  -> 1
                             [] <<"symbol", m>> \in minus -> -1
                             [] OTHER -> 0

Addresses == ({"section"} \X SectionIds) \union ({"symbol"} \X Names)

\* An expression is only refused as not representable when it is not: the
\* addresses it depends on are not none, one, or the difference of two.
RefusedOnlyIfIllegal ==
    result = Illegal =>
        \/ /\ ~Counts({}, {})
           /\ \A a \in Addresses :
                 /\ ~Counts({a}, {})
                 /\ \A b \in Addresses \ {a} : ~Counts({a}, {b})
        \/ LET gots == { i \in DOMAIN expr : expr[i].kind = "got" /\ Times("got", expr[i].name) # 0 }
           IN  /\ gots # {} \/ HereMeant # 0
               /\ \/ ~Counts({}, {})
                  \/ HereMeant \notin {0, -1}
                  \/ ~ \E n \in { expr[i].name : i \in gots } :
                        /\ \A i \in gots : expr[i].name = n
                        /\ Times("got", n) = 1

\* It counts some address once, or with a minus sign.
Needs(sign) == \/ \E s \in SectionIds : SectionMeant(s) = sign
               \/ \E m \in Names : SymbolMeant(m) = sign

\* An expression whose parts add up without overflow is only refused for
\* overflow when its addend fits with no anchor: "keep the source's first
\* viable anchor, then try equivalent anchors".
OverflowOnlyIfForced ==
    result = Overflow /\ ~HasUnsigned(expr) /\ ~Overflows(Additions(expr, env)) =>
        \A plus, minus \in { n \in Names : Times("sym", n) # 0 } \union {Nothing} :
            /\ plus # Nothing <=> Needs(1)
            /\ minus # Nothing <=> Needs(-1)
            => \A addend \in MinInt .. MaxInt : ~Linked(plus, minus, addend)

=============================================================================
