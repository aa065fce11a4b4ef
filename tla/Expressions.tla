----------------------------- MODULE Expressions -----------------------------
(***************************************************************************)
(* Expressions of directives and operands, and what they are classified as *)
(* (src/expr.rs, classify_with_lookup).                                    *)
(*                                                                         *)
(* An expression is the sequence of its leaves from left to right, each    *)
(* with the sign that the minus signs above it give it: linearize sees     *)
(* nothing else of the tree.  A leaf has a kind:                           *)
(*   int    a literal, value                                               *)
(*   sym    a symbol, name                                                 *)
(*   got    name@GOT                                                       *)
(*   here   the current location                                           *)
(* An environment gives every name a value: [kind |-> "absolute", value],  *)
(* [kind |-> "defined", section, value] for a label, or Undefined.         *)
(***************************************************************************)
EXTENDS Integers, SequencesExt

CONSTANTS
    MinInt, MaxInt,   \* the range of i64
    MaxUnsigned       \* the largest u64

\* The integers are those of i64 and u64.
ASSUME IntegersAssumption ==
    /\ MinInt \in Int /\ MaxInt \in Int /\ 0 \in MinInt .. MaxInt
    /\ MaxUnsigned \in Nat

\* What linearize finds at the ends of the tree.
Leaf == [sign : {-1, 1}, kind : {"int"}, value : Int]
          \union [sign : {-1, 1}, kind : {"sym", "got", "here"}, name : STRING]

Undefined == [kind |-> "undefined"]

Fits(n) == n \in MinInt .. MaxInt

Total(s) ==
    LET part[k \in 0 .. Len(s)] == IF k = 0 THEN 0 ELSE part[k - 1] + s[k]
    IN  part[Len(s)]

\* checked_add, one element after the other
Overflows(s) ==
    \E i \in 1 .. Len(s) : ~Fits(s[i]) \/ ~Fits(Total(SubSeq(s, 1, i)))

-----------------------------------------------------------------------------
(* linearize: the literals are added up, the other leaves are terms, each  *)
(* at the place of its first appearance, with the sum of their signs.  A   *)
(* sum over some of the places adds 0 for the others.                      *)

Literals(expr) ==
    [i \in DOMAIN expr |-> IF expr[i].kind = "int" THEN expr[i].sign * expr[i].value ELSE 0]

\* Expr::Unsigned is not accepted inside of an expression
HasUnsigned(expr) ==
    \E i \in DOMAIN expr : expr[i].kind = "int" /\ expr[i].value > MaxInt

\* existing == term
SameTerm(a, b) == a.kind # "int" /\ a.kind = b.kind /\ a.name = b.name

Coefficient(expr, i) ==
    Total([j \in DOMAIN expr |-> IF SameTerm(expr[i], expr[j]) THEN expr[j].sign ELSE 0])

\* push_term, and terms.retain
Terms(expr) ==
    { i \in DOMAIN expr : /\ expr[i].kind # "int"
                          /\ \A j \in 1 .. i - 1 : ~SameTerm(expr[i], expr[j])
                          /\ Coefficient(expr, i) # 0 }

-----------------------------------------------------------------------------
(* The terms by what their names stand for. *)

Absolutes(expr, env) ==
    { i \in Terms(expr) : expr[i].kind = "sym" /\ env[expr[i].name].kind = "absolute" }

Labelled(expr, env) ==
    { i \in Terms(expr) : expr[i].kind = "sym" /\ env[expr[i].name].kind = "defined" }

Remaining(expr, env) ==
    { i \in Terms(expr) : expr[i].kind = "sym" /\ env[expr[i].name] = Undefined }

Gots(expr) == { i \in Terms(expr) : expr[i].kind = "got" }

Here(expr) == Total([i \in DOMAIN expr |->
                        IF expr[i].kind = "here" THEN expr[i].sign ELSE 0])

Products(expr, env, terms) ==
    [i \in DOMAIN expr |->
        IF i \in terms THEN Coefficient(expr, i) * env[expr[i].name].value ELSE 0]

\* The additions that make the constant.
Additions(expr, env) == Literals(expr) \o Products(expr, env, Absolutes(expr, env))

AbsolutePart(expr, env) ==
    Total(Literals(expr)) + Total(Products(expr, env, Absolutes(expr, env)))

\* Mutant: the offset of a label is counted once, whatever its sign.
ConstantUnsigned(expr, env) ==
    AbsolutePart(expr, env) +
    Total([i \in DOMAIN expr |->
              IF i \in Labelled(expr, env) THEN env[expr[i].name].value ELSE 0])

\* defined_constant, in i128: with the offsets of all labels
DefinedConstant(expr, env) ==
    AbsolutePart(expr, env) + Total(Products(expr, env, Labelled(expr, env)))

\* defined_groups: the labels of the section of the label at i
Group(expr, env, i) ==
    { j \in Labelled(expr, env) : env[expr[j].name].section = env[expr[i].name].section }

SectionSum(expr, env, i) ==
    LET group == Group(expr, env, i)
    IN  Total([j \in DOMAIN expr |-> IF j \in group THEN Coefficient(expr, j) ELSE 0])

\* anchor_groups: the sections that do not cancel out, each at the place of
\* its first label
Anchored(expr, env) ==
    { i \in Labelled(expr, env) : /\ \A j \in Group(expr, env, i) : i <= j
                                  /\ SectionSum(expr, env, i) # 0 }

\* What a relocation would have to name, with its coefficient.
Coefficients(expr, env) ==
    LET anchored == Anchored(expr, env)
    IN  [i \in Remaining(expr, env) \union anchored |->
            IF i \in anchored THEN SectionSum(expr, env, i) ELSE Coefficient(expr, i)]

\* Mutant: the subtrahend may not come first.
SupportedInOrder(coefficients) ==
    LET terms == DOMAIN coefficients
    IN  \/ terms = {}
        \/ \E plus \in terms :
              /\ coefficients[plus] = 1
              /\ \/ terms = {plus}
                 \/ \E minus \in terms : /\ plus < minus
                                         /\ terms = {plus, minus}
                                         /\ coefficients[minus] = -1

\* relocation_coefficients_are_supported
Supported(coefficients) ==
    LET terms == DOMAIN coefficients
    IN  \/ terms = {}
        \/ \E plus \in terms :
              /\ coefficients[plus] = 1
              /\ \/ terms = {plus}
                 \/ \E minus \in terms : /\ terms = {plus, minus}
                                         /\ coefficients[minus] = -1

\* Mutant: only the first label of every section is tried.
FirstAnchorChoice(expr, env) == { [i \in Anchored(expr, env) |-> i] }

\* The labels that can stand for the anchored sections, one for each.
AnchorChoices(expr, env) ==
    { c \in [Anchored(expr, env) -> Labelled(expr, env)] :
          \A i \in DOMAIN c : c[i] \in Group(expr, env, i) }

\* What is left of the constant when the labels chosen account for theirs.
Addend(expr, env, choice) ==
    DefinedConstant(expr, env) -
    Total([i \in DOMAIN expr |->
              IF i \in DOMAIN choice
              THEN SectionSum(expr, env, i) * env[expr[choice[i]].name].value
              ELSE 0])

\* select_defined_anchors: those that leave a constant that fits
Anchors(expr, env) == { c \in AnchorChoices(expr, env) : Fits(Addend(expr, env, c)) }

\* the first of them: the loop over the first section is the outer one
FirstAnchor(anchors) ==
    CHOOSE c \in anchors : \A d \in anchors :
        \/ c = d
        \/ \E i \in DOMAIN c : c[i] < d[i] /\ \A j \in DOMAIN c : j < i => c[j] = d[j]

-----------------------------------------------------------------------------

Overflow == [kind |-> "overflow"]
Illegal  == [kind |-> "illegal"]

ClassifyGot(expr, env) ==
    IF \/ DOMAIN Coefficients(expr, env) # {}
       \/ ~ \E i \in DOMAIN expr : Gots(expr) = {i} /\ Coefficient(expr, i) = 1
       \/ Here(expr) \notin {0, -1}
    THEN Illegal
    ELSE IF ~Fits(DefinedConstant(expr, env)) THEN Overflow
    ELSE [kind |-> "got", symbol |-> expr[CHOOSE i \in Gots(expr) : TRUE].name,
          addend |-> DefinedConstant(expr, env), pcrel |-> Here(expr) = -1]

\* The terms that are left, and the constant.
Represent(expr, coefficients, choice, addend) ==
    LET terms   == DOMAIN coefficients
        Name(i) == expr[IF i \in DOMAIN choice THEN choice[i] ELSE i].name
        plus    == CHOOSE i \in terms : coefficients[i] = 1
        minus   == CHOOSE i \in terms : i # plus
    IN  CASE terms = {}     -> [kind |-> "absolute", value |-> addend]
          [] terms = {plus} -> [kind |-> "relocatable", symbol |-> Name(plus),
                                addend |-> addend]
          [] OTHER          -> [kind |-> "difference", minuend |-> Name(plus),
                                subtrahend |-> Name(minus), addend |-> addend]

ClassifyPlain(expr, env) ==
    IF ~Supported(Coefficients(expr, env)) THEN Illegal
    ELSE LET anchors == Anchors(expr, env)
             first   == FirstAnchor(anchors)
         IN  IF anchors = {} THEN Overflow
             ELSE Represent(expr, Coefficients(expr, env), first, Addend(expr, env, first))

Classify(expr, env) ==
    IF Len(expr) = 1 /\ HasUnsigned(expr) /\ expr[1].sign = 1
    THEN [kind |-> "unsigned", value |-> expr[1].value]
    ELSE IF HasUnsigned(expr) \/ Overflows(Additions(expr, env)) THEN Overflow
    ELSE IF \E i \in Anchored(expr, env) : SectionSum(expr, env, i) \notin {-1, 1} THEN Illegal
    ELSE IF Gots(expr) # {} \/ Here(expr) # 0 THEN ClassifyGot(expr, env)
    ELSE ClassifyPlain(expr, env)

IsError(result) == result.kind \in {"overflow", "illegal"}

=============================================================================
