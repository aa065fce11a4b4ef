------------------------ MODULE Classification_proofs ------------------------
(***************************************************************************)
(* Proofs about Classification, for every expression and environment.      *)
(*                                                                         *)
(* What an expression means does not say where the sections and symbols    *)
(* are, and what it is classified as does not either.  So the proofs put   *)
(* them somewhere: a section at 1 and all the others at 0, or a symbol, or *)
(* the current location.  ClassifyMeans (Expressions_proofs) holds         *)
(* wherever they are; the difference to all of them at 0 is how often the  *)
(* expression counts the one that was moved.                               *)
(***************************************************************************)
EXTENDS Classification, Expressions_proofs

\* The expression, its environment, and its result.
Inv == /\ expr \in Exprs /\ env \in Envs
       /\ result \in {Pending, Classify(expr, env)}

LEMMA InvHolds ==
  Spec => []Inv
<1>1. Init => Inv
  BY DEF Init, Inv
<1>2. Inv /\ [Next]_vars => Inv'
  BY DEF Inv, Next, ClassifyIt, vars
<1>3. QED
  BY <1>1, <1>2, PTL DEF Spec

LEMMA ExpressionsAreSound ==
  ASSUME Inv
  PROVE  /\ Sound(expr, env)
         /\ \A i \in 1 .. Len(expr) : expr[i].kind = "sym" => expr[i].name \in Names
         /\ \A n \in Names : \/ env[n] = Undefined
                             \/ /\ env[n].kind \in {"absolute", "defined"}
                                /\ env[n].value \in Int
                                /\ env[n] # Undefined
<1>1. expr \in Seq(Leaf) /\ env \in [Names -> Place]
      /\ \A i \in DOMAIN expr : expr[i].kind = "sym" => expr[i].name \in Names
  BY ExpressionsAssumption, IntegersAssumption DEF Inv
<1>2. ASSUME NEW n \in Names
      PROVE  \/ env[n] = Undefined
             \/ /\ env[n].kind \in {"absolute", "defined"}
                /\ env[n].value \in Int
                /\ env[n] # Undefined
  <2>1. env[n] \in Place
    BY <1>1
  <2>2. \/ env[n] = Undefined
        \/ env[n] \in [kind : {"absolute"}, value : MinInt .. MaxInt]
        \/ env[n] \in [kind : {"defined"}, section : SectionIds, value : 0 .. MaxUnsigned]
    BY <2>1 DEF Place
  <2>3. MinInt .. MaxInt \subseteq Int /\ 0 .. MaxUnsigned \subseteq Int
    BY ExpressionsAssumption, IntegersAssumption
  <2>4. Undefined.kind = "undefined"
    BY DEF Undefined
  <2>5. QED
    BY <2>2, <2>3, <2>4
<1>3. Len(expr) \in Nat /\ DOMAIN expr = 1 .. Len(expr)
      /\ \A i \in 1 .. Len(expr) : expr[i] \in Leaf
  BY <1>1
<1>4. ASSUME NEW i \in 1 .. Len(expr)
      PROVE  /\ expr[i].sign \in {-1, 1}
             /\ expr[i].kind \in {"int", "sym", "got", "here"}
             /\ expr[i].kind = "int" => expr[i].value \in Int
  BY <1>3 DEF Leaf
<1>5. QED
  BY <1>1, <1>2, <1>3, <1>4 DEF Sound

-----------------------------------------------------------------------------
(* Everything at 0, and one address at 1.                                  *)

Zeros == [i \in 1 .. Len(expr) |-> 0]

Base == [i \in 1 .. Len(expr) |->
            CASE expr[i].kind = "int" -> expr[i].value
              [] expr[i].kind = "sym" /\ env[expr[i].name] # Undefined ->
                    env[expr[i].name].value
              [] OTHER -> 0]

InSection(s) == [i \in 1 .. Len(expr) |->
                    IF /\ expr[i].kind = "sym"
                       /\ env[expr[i].name].kind = "defined"
                       /\ env[expr[i].name].section = s
                    THEN 1 ELSE 0]

OfKind(kind, n) == [i \in 1 .. Len(expr) |->
                       IF expr[i].kind = kind /\ expr[i].name = n THEN 1 ELSE 0]

AtHere == [i \in 1 .. Len(expr) |-> IF expr[i].kind = "here" THEN 1 ELSE 0]

LEMMA SumsAreLeafSums ==
  ASSUME Inv
  PROVE  /\ ConstantMeant = LeafSum(expr, Base)
         /\ \A s : SectionMeant(s) = LeafSum(expr, InSection(s))
         /\ \A kind, n : Times(kind, n) = LeafSum(expr, OfKind(kind, n))
         /\ HereMeant = LeafSum(expr, AtHere)
<1>1. DOMAIN expr = 1 .. Len(expr)
  BY ExpressionsAreSound DEF Sound
<1>2. ConstantMeant = LeafSum(expr, Base)
  BY <1>1 DEF ConstantMeant, SumOf, LeafSum, Base
<1>3. ASSUME NEW s
      PROVE  SectionMeant(s) = LeafSum(expr, InSection(s))
  BY <1>1 DEF SectionMeant, SumOf, LeafSum, InSection
<1>4. ASSUME NEW kind, NEW n
      PROVE  Times(kind, n) = LeafSum(expr, OfKind(kind, n))
  BY <1>1 DEF Times, SumOf, LeafSum, OfKind
<1>5. HereMeant = LeafSum(expr, AtHere)
  BY <1>1 DEF HereMeant, SumOf, LeafSum, AtHere
<1>6. QED
  BY <1>2, <1>3, <1>4, <1>5

LEMMA ZerosAreList ==
  ASSUME Inv
  PROVE  IsList(Len(expr), Zeros) /\ \A i \in 1 .. Len(expr) : Zeros[i] = 0
<1>1. Len(expr) \in Nat
  BY ExpressionsAreSound DEF Sound
<1>2. QED
  BY <1>1 DEF IsList, Zeros

LEMMA BaseIsWorth ==
  ASSUME Inv
  PROVE  Worth(expr, env, Base, Zeros, 0)
<1>1. Sound(expr, env)
      /\ \A i \in 1 .. Len(expr) : expr[i].kind = "sym" => expr[i].name \in Names
  BY ExpressionsAreSound
<1>2. Zeros \in [1 .. Len(expr) -> Int] /\ \A i \in 1 .. Len(expr) : Zeros[i] = 0
  BY ZerosAreList DEF IsList
<1>3. PICK w : w = Base
  OBVIOUS
<1>4. ASSUME NEW i \in 1 .. Len(expr)
      PROVE  /\ expr[i].kind = "int" => w[i] = expr[i].value
             /\ expr[i].kind \notin {"int", "sym"} => w[i] = 0
             /\ expr[i].kind = "sym" =>
                   w[i] = IF env[expr[i].name] = Undefined THEN 0 ELSE env[expr[i].name].value
             /\ w[i] \in Int
  <2>1. \/ expr[i].kind = "int" /\ expr[i].value \in Int
        \/ expr[i].kind \in {"got", "here"}
        \/ /\ expr[i].kind = "sym"
           /\ env[expr[i].name] = Undefined \/ env[expr[i].name].value \in Int
    BY <1>1 DEF Sound
  <2>2. w[i] = CASE expr[i].kind = "int" -> expr[i].value
                 [] expr[i].kind = "sym" /\ env[expr[i].name] # Undefined ->
                       env[expr[i].name].value
                 [] OTHER -> 0
    BY <1>3 DEF Base
  <2>3. QED
    BY <2>1, <2>2
<1>5. w \in [1 .. Len(expr) -> Int]
  BY <1>3, <1>4 DEF Base
<1>6. ASSUME NEW i \in 1 .. Len(expr)
      PROVE  /\ expr[i].kind = "int" => w[i] = expr[i].value
             /\ expr[i].kind = "here" => w[i] = 0
             /\ IsAbsolute(expr, env, i) => w[i] = env[expr[i].name].value
             /\ IsLabel(expr, env, i) => w[i] = env[expr[i].name].value + Zeros[i]
  <2>1. IsAbsolute(expr, env, i) \/ IsLabel(expr, env, i) =>
           /\ expr[i].kind = "sym" /\ env[expr[i].name] # Undefined
           /\ env[expr[i].name].value \in Int
    BY <1>1 DEF IsAbsolute, IsLabel, Undefined, Sound
  <2>2. QED
    BY <1>2, <1>4, <2>1
<1>7. \A i, j \in 1 .. Len(expr) : SameTerm(expr[i], expr[j]) => w[i] = w[j]
  BY <1>1, <1>4 DEF SameTerm
<1>8. Worth(expr, env, w, Zeros, 0)
  BY <1>2, <1>5, <1>6, <1>7 DEF Worth
<1>9. QED
  BY <1>3, <1>8

\* A section that is moved.
LEMMA SectionShift ==
  ASSUME Inv, NEW s
  PROVE  /\ Shift(expr, env, InSection(s), InSection(s), 0)
         /\ \A i \in 1 .. Len(expr) :
               InSection(s)[i] = IF IsLabel(expr, env, i) /\ SectionAt(expr, env, i) = s
                                 THEN 1 ELSE 0
<1>1. Sound(expr, env)
  BY ExpressionsAreSound
<1>2. PICK d : d = InSection(s)
  OBVIOUS
<1>3. \A i \in 1 .. Len(expr) :
         d[i] = IF IsLabel(expr, env, i) /\ SectionAt(expr, env, i) = s THEN 1 ELSE 0
  BY <1>2 DEF InSection, IsLabel, SectionAt
<1>4. d \in [1 .. Len(expr) -> Int]
  BY <1>2 DEF InSection
<1>5. IsList(Len(expr), d)
  BY <1>1, <1>4 DEF IsList, Sound
<1>6. \A i \in 1 .. Len(expr) : /\ expr[i].kind = "int" => d[i] = 0
                                /\ expr[i].kind = "here" => d[i] = 0
                                /\ IsAbsolute(expr, env, i) => d[i] = 0
  BY <1>3 DEF IsLabel, IsAbsolute
<1>7. \A i, j \in 1 .. Len(expr) : SameTerm(expr[i], expr[j]) => d[i] = d[j]
  BY <1>3 DEF SameTerm, IsLabel, SectionAt
<1>8. \A i, j \in { k \in 1 .. Len(expr) : IsLabel(expr, env, k) } :
         SectionAt(expr, env, i) = SectionAt(expr, env, j) => d[i] = d[j]
  BY <1>3
<1>9. Shift(expr, env, d, d, 0)
  BY <1>5, <1>6, <1>7, <1>8 DEF Shift
<1>10. QED
  BY <1>2, <1>3, <1>9

\* A name that stands for nothing, or an entry of the GOT, that is moved.
LEMMA NameShift ==
  ASSUME Inv, NEW n, NEW kind, (kind = "sym" /\ env[n] = Undefined) \/ kind = "got"
  PROVE  /\ Shift(expr, env, OfKind(kind, n), Zeros, 0)
         /\ \A i \in 1 .. Len(expr) :
               OfKind(kind, n)[i] = IF Named(expr, i, kind, n) THEN 1 ELSE 0
<1>1. Sound(expr, env)
  BY ExpressionsAreSound
<1>2. PICK d : d = OfKind(kind, n)
  OBVIOUS
<1>3. \A i \in 1 .. Len(expr) : d[i] = IF expr[i].kind = kind /\ expr[i].name = n THEN 1 ELSE 0
  BY <1>2 DEF OfKind
<1>4. d \in [1 .. Len(expr) -> Int]
  BY <1>2 DEF OfKind
<1>5. IsList(Len(expr), d)
  BY <1>1, <1>4 DEF IsList, Sound
<1>6. IsList(Len(expr), Zeros) /\ \A i \in 1 .. Len(expr) : Zeros[i] = 0
  BY ZerosAreList
<1>7. \A i \in 1 .. Len(expr) : /\ expr[i].kind = "int" => d[i] = 0
                                /\ expr[i].kind = "here" => d[i] = 0
                                /\ IsAbsolute(expr, env, i) => d[i] = 0
                                /\ IsLabel(expr, env, i) => d[i] = Zeros[i]
  BY <1>3, <1>6 DEF IsLabel, IsAbsolute, Undefined
<1>8. \A i, j \in 1 .. Len(expr) : SameTerm(expr[i], expr[j]) => d[i] = d[j]
  BY <1>3 DEF SameTerm
<1>9. Shift(expr, env, d, Zeros, 0)
  BY <1>5, <1>6, <1>7, <1>8 DEF Shift
<1>10. QED
  BY <1>2, <1>3, <1>9 DEF Named

\* The current location that is moved.
LEMMA HereShift ==
  ASSUME Inv
  PROVE  /\ Shift(expr, env, AtHere, Zeros, 1)
         /\ \A i \in 1 .. Len(expr) : expr[i].kind # "here" => AtHere[i] = 0
<1>1. Sound(expr, env)
  BY ExpressionsAreSound
<1>2. PICK d : d = AtHere
  OBVIOUS
<1>3. \A i \in 1 .. Len(expr) : d[i] = IF expr[i].kind = "here" THEN 1 ELSE 0
  BY <1>2 DEF AtHere
<1>4. d \in [1 .. Len(expr) -> Int]
  BY <1>2 DEF AtHere
<1>5. IsList(Len(expr), d)
  BY <1>1, <1>4 DEF IsList, Sound
<1>6. IsList(Len(expr), Zeros) /\ \A i \in 1 .. Len(expr) : Zeros[i] = 0
  BY ZerosAreList
<1>7. \A i \in 1 .. Len(expr) : /\ expr[i].kind = "int" => d[i] = 0
                                /\ expr[i].kind = "here" => d[i] = 1
                                /\ IsAbsolute(expr, env, i) => d[i] = 0
                                /\ IsLabel(expr, env, i) => d[i] = Zeros[i]
  BY <1>3, <1>6 DEF IsLabel, IsAbsolute
<1>8. \A i, j \in 1 .. Len(expr) : SameTerm(expr[i], expr[j]) => d[i] = d[j]
  BY <1>3 DEF SameTerm
<1>9. Shift(expr, env, d, Zeros, 1)
  BY <1>5, <1>6, <1>7, <1>8 DEF Shift
<1>10. QED
  BY <1>2, <1>3, <1>9

-----------------------------------------------------------------------------
(* What is classified is meant.                                            *)

\* The names of leaves.
LEMMA NamesMean ==
  ASSUME Inv, NEW i, NEW n, Named(expr, i, "sym", n)
  PROVE  /\ n \in Names /\ n # Nothing
         /\ ConstantOf(n) = Base[i]
         /\ \A s : SectionOf(n, s) = InSection(s)[i]
         /\ \A m : env[m] = Undefined => SymbolOf(n, m) = OfKind("sym", m)[i]
<1>1. i \in 1 .. Len(expr) /\ expr[i].kind = "sym" /\ expr[i].name = n
  BY DEF Named
<1>2. n \in Names
  BY <1>1, ExpressionsAreSound
<1>3. n # Nothing
  BY <1>2, ExpressionsAssumption, IntegersAssumption
<1>4. ConstantOf(n) = Base[i]
  BY <1>1, <1>3 DEF ConstantOf, Base
<1>5. ASSUME NEW s
      PROVE  SectionOf(n, s) = InSection(s)[i]
  BY <1>1, <1>3 DEF SectionOf, InSection
<1>6. ASSUME NEW m, env[m] = Undefined
      PROVE  SymbolOf(n, m) = OfKind("sym", m)[i]
  BY <1>1, <1>6 DEF SymbolOf, OfKind
<1>7. QED
  BY <1>2, <1>3, <1>4, <1>5, <1>6

\* No symbol.
LEMMA NothingMeans ==
  ASSUME Inv
  PROVE  /\ ConstantOf(Nothing) = 0
         /\ \A s : SectionOf(Nothing, s) = 0
         /\ \A m \in Names : SymbolOf(Nothing, m) = 0
<1>1. \A m \in Names : m # Nothing
  BY ExpressionsAssumption, IntegersAssumption
<1>2. QED
  BY <1>1 DEF ConstantOf, SectionOf, SymbolOf

LEMMA ResultKept ==
  ASSUME Inv, result = Classify(expr, env)
  PROVE  /\ ComesTo(expr, Base, 0, result)
         /\ \A s : MovesBy(expr, InSection(s), 0, result)
         /\ \A n, kind : (kind = "sym" /\ env[n] = Undefined) \/ kind = "got" =>
               MovesBy(expr, OfKind(kind, n), 0, result)
         /\ MovesBy(expr, AtHere, 1, result)
<1>1. Sound(expr, env) /\ Worth(expr, env, Base, Zeros, 0)
  BY ExpressionsAreSound, BaseIsWorth
<1>2. ComesTo(expr, Base, 0, result)
  BY <1>1, ClassifyMeans
<1>3. ASSUME NEW s
      PROVE  MovesBy(expr, InSection(s), 0, result)
  BY <1>1, SectionShift, ShiftMeans
<1>4. ASSUME NEW n, NEW kind, (kind = "sym" /\ env[n] = Undefined) \/ kind = "got"
      PROVE  MovesBy(expr, OfKind(kind, n), 0, result)
  <2>1. Shift(expr, env, OfKind(kind, n), Zeros, 0)
    BY <1>4, NameShift
  <2>2. QED
    BY <1>1, <2>1, ShiftMeans
<1>5. MovesBy(expr, AtHere, 1, result)
  BY <1>1, HereShift, ShiftMeans
<1>6. QED
  BY <1>2, <1>3, <1>4, <1>5

LEMMA SumsAreInts ==
  ASSUME Inv
  PROVE  /\ ConstantMeant \in Int
         /\ \A i \in 1 .. Len(expr) : Base[i] \in Int
<1>1. IsList(Len(expr), Base) /\ \A i \in 1 .. Len(expr) : Base[i] \in Int
  BY ExpressionsAreSound, BaseIsWorth, WorthIsList
<1>2. IsList(Len(expr), Zeros) /\ \A i \in 1 .. Len(expr) : Zeros[i] = 0
  BY ZerosAreList
<1>3. AddsUp(Len(expr), 1 .. Len(expr), Base, Zeros, Base)
  BY <1>1, <1>2 DEF AddsUp
<1>4. LeafSum(expr, Base) \in Int
  BY <1>1, <1>2, <1>3, ExpressionsAreSound, LeafSumAdds
<1>5. QED
  BY <1>1, <1>4, SumsAreLeafSums

LEMMA ValuesAreInts ==
  ASSUME Inv, NEW i, NEW n, Named(expr, i, "sym", n)
  PROVE  ConstantOf(n) \in Int
  BY NamesMean, SumsAreInts DEF Named

LEMMA ConstantResult ==
  ASSUME Inv, result = Classify(expr, env), result.kind \in {"absolute", "unsigned"}
  PROVE  Linked(Nothing, Nothing, result.value)
<1>1. ConstantMeant = result.value
  BY ResultKept, SumsAreLeafSums DEF ComesTo
<1>2. \A s : SectionMeant(s) = 0
  BY ResultKept, SumsAreLeafSums DEF MovesBy
<1>3. ASSUME NEW m \in Names
      PROVE  SymbolMeant(m) = 0
  <2>1. CASE env[m] = Undefined
    <3>1. MovesBy(expr, OfKind("sym", m), 0, result)
      BY <2>1, ResultKept
    <3>2. LeafSum(expr, OfKind("sym", m)) = 0
      BY <3>1 DEF MovesBy
    <3>3. QED
      BY <2>1, <3>2, SumsAreLeafSums DEF SymbolMeant
  <2>2. CASE env[m] # Undefined
    BY <2>2 DEF SymbolMeant
  <2>3. QED
    BY <2>1, <2>2
<1>4. result.value \in Int
  BY <1>1, SumsAreInts
<1>5. ConstantMeant = result.value + ConstantOf(Nothing) - ConstantOf(Nothing)
  BY <1>1, <1>4, NothingMeans
<1>6. \A s \in SectionIds : SectionMeant(s) = SectionOf(Nothing, s) - SectionOf(Nothing, s)
  BY <1>2, NothingMeans
<1>7. \A m \in Names : SymbolMeant(m) = SymbolOf(Nothing, m) - SymbolOf(Nothing, m)
  BY <1>3, NothingMeans
<1>8. QED
  BY <1>5, <1>6, <1>7 DEF Linked

\* What a move of m counts for the name of a symbol.
LEMMA SymbolsMove ==
  ASSUME Inv, NEW m \in Names, env[m] # Undefined
  PROVE  SymbolMeant(m) = 0 /\ \A n : SymbolOf(n, m) = 0
  BY DEF SymbolMeant, SymbolOf

LEMMA RelocatableResult ==
  ASSUME Inv, result = Classify(expr, env), result.kind = "relocatable"
  PROVE  Linked(result.symbol, Nothing, result.addend)
<1>1. PICK n, a : n = result.symbol /\ a = result.addend
  OBVIOUS
<1>2. a \in Int
  BY <1>1, ExpressionsAreSound, BaseIsWorth, ClassifiedIsInt
<1>3. ConstantMeant = a + ConstantOf(n) - ConstantOf(Nothing)
  <2>1. Plus(expr, Base, n, a)
    BY <1>1, ResultKept DEF ComesTo
  <2>2. PICK i \in 1 .. Len(expr) : Named(expr, i, "sym", n) /\ LeafSum(expr, Base) = a + Base[i]
    BY <2>1 DEF Plus
  <2>3. ConstantMeant = a + ConstantOf(n) /\ ConstantOf(n) \in Int
    BY <2>2, NamesMean, SumsAreLeafSums, ValuesAreInts
  <2>4. QED
    BY <1>2, <2>3, NothingMeans
<1>4. ASSUME NEW s
      PROVE  SectionMeant(s) = SectionOf(n, s) - SectionOf(Nothing, s)
  <2>1. MovesBy(expr, InSection(s), 0, result)
    BY ResultKept
  <2>2. PICK i \in 1 .. Len(expr) : /\ Named(expr, i, "sym", n)
                                    /\ LeafSum(expr, InSection(s)) = InSection(s)[i]
    BY <1>1, <2>1 DEF MovesBy
  <2>3. SectionMeant(s) = SectionOf(n, s)
    BY <2>2, NamesMean, SumsAreLeafSums
  <2>4. QED
    BY <2>3, NothingMeans DEF SectionOf
<1>5. ASSUME NEW m \in Names
      PROVE  SymbolMeant(m) = SymbolOf(n, m) - SymbolOf(Nothing, m)
  <2>1. CASE env[m] = Undefined
    <3>1. MovesBy(expr, OfKind("sym", m), 0, result)
      BY <2>1, ResultKept
    <3>2. PICK i \in 1 .. Len(expr) : /\ Named(expr, i, "sym", n)
                                      /\ LeafSum(expr, OfKind("sym", m)) = OfKind("sym", m)[i]
      BY <1>1, <3>1 DEF MovesBy
    <3>3. SymbolMeant(m) = SymbolOf(n, m)
      BY <2>1, <3>2, NamesMean, SumsAreLeafSums DEF SymbolMeant
    <3>4. QED
      BY <3>3, NothingMeans DEF SymbolOf
  <2>2. CASE env[m] # Undefined
    BY <2>2, SymbolsMove
  <2>3. QED
    BY <2>1, <2>2
<1>6. QED
  BY <1>1, <1>3, <1>4, <1>5 DEF Linked

LEMMA DifferenceResult ==
  ASSUME Inv, result = Classify(expr, env), result.kind = "difference"
  PROVE  Linked(result.minuend, result.subtrahend, result.addend)
<1>1. PICK n, k, a : n = result.minuend /\ k = result.subtrahend /\ a = result.addend
  OBVIOUS
<1>2. a \in Int
  BY <1>1, ExpressionsAreSound, BaseIsWorth, ClassifiedIsInt
<1>3. ConstantMeant = a + ConstantOf(n) - ConstantOf(k)
  <2>1. Minus(expr, Base, n, k, a)
    BY <1>1, ResultKept DEF ComesTo
  <2>2. PICK i \in 1 .. Len(expr), j \in 1 .. Len(expr) :
           /\ Named(expr, i, "sym", n) /\ Named(expr, j, "sym", k)
           /\ LeafSum(expr, Base) = a + Base[i] - Base[j]
    BY <2>1 DEF Minus
  <2>3. QED
    BY <2>2, NamesMean, SumsAreLeafSums
<1>4. ASSUME NEW s
      PROVE  SectionMeant(s) = SectionOf(n, s) - SectionOf(k, s)
  <2>1. MovesBy(expr, InSection(s), 0, result)
    BY ResultKept
  <2>2. PICK i \in 1 .. Len(expr), j \in 1 .. Len(expr) :
           /\ Named(expr, i, "sym", n) /\ Named(expr, j, "sym", k)
           /\ LeafSum(expr, InSection(s)) = InSection(s)[i] - InSection(s)[j]
    BY <1>1, <2>1 DEF MovesBy
  <2>3. QED
    BY <2>2, NamesMean, SumsAreLeafSums
<1>5. ASSUME NEW m \in Names
      PROVE  SymbolMeant(m) = SymbolOf(n, m) - SymbolOf(k, m)
  <2>1. CASE env[m] = Undefined
    <3>1. MovesBy(expr, OfKind("sym", m), 0, result)
      BY <2>1, ResultKept
    <3>2. PICK i \in 1 .. Len(expr), j \in 1 .. Len(expr) :
             /\ Named(expr, i, "sym", n) /\ Named(expr, j, "sym", k)
             /\ LeafSum(expr, OfKind("sym", m)) = OfKind("sym", m)[i] - OfKind("sym", m)[j]
      BY <1>1, <3>1 DEF MovesBy
    <3>3. QED
      BY <2>1, <3>2, NamesMean, SumsAreLeafSums DEF SymbolMeant
  <2>2. CASE env[m] # Undefined
    BY <2>2, SymbolsMove
  <2>3. QED
    BY <2>1, <2>2
<1>6. QED
  BY <1>1, <1>3, <1>4, <1>5 DEF Linked

LEMMA GotResult ==
  ASSUME Inv, result = Classify(expr, env), result.kind = "got"
  PROVE  /\ Linked(Nothing, Nothing, result.addend)
         /\ Times("got", result.symbol) = 1
         /\ HereMeant = IF result.pcrel THEN -1 ELSE 0
<1>1. PICK n, a : n = result.symbol /\ a = result.addend
  OBVIOUS
<1>2. a \in Int
  BY <1>1, ExpressionsAreSound, BaseIsWorth, ClassifiedIsInt
<1>3. ASSUME NEW i, Named(expr, i, "got", n)
      PROVE  /\ Base[i] = 0 /\ \A s : InSection(s)[i] = 0
             /\ \A m : OfKind("sym", m)[i] = 0
             /\ OfKind("got", n)[i] = 1 /\ AtHere[i] = 0
  <2>1. i \in 1 .. Len(expr) /\ expr[i].kind = "got" /\ expr[i].name = n
    BY <1>3 DEF Named
  <2>2. QED
    BY <2>1 DEF Base, InSection, OfKind, AtHere
<1>4. ConstantMeant = a
  <2>1. PlusGot(expr, Base, 0, n, a, result.pcrel)
    BY <1>1, ResultKept DEF ComesTo
  <2>2. PICK i \in 1 .. Len(expr) :
           /\ Named(expr, i, "got", n)
           /\ LeafSum(expr, Base) = a + Base[i] + (IF result.pcrel THEN -0 ELSE 0)
    BY <2>1 DEF PlusGot
  <2>3. QED
    BY <1>2, <1>3, <2>2, SumsAreLeafSums
<1>5. \A s : SectionMeant(s) = 0
  <2>1. ASSUME NEW s
        PROVE  SectionMeant(s) = 0
    <3>1. MovesBy(expr, InSection(s), 0, result)
      BY ResultKept
    <3>2. PICK i \in 1 .. Len(expr) :
             /\ Named(expr, i, "got", n)
             /\ LeafSum(expr, InSection(s))
                  = InSection(s)[i] + (IF result.pcrel THEN -0 ELSE 0)
      BY <1>1, <3>1 DEF MovesBy
    <3>3. QED
      BY <1>3, <3>2, SumsAreLeafSums
  <2>2. QED
    BY <2>1
<1>6. ASSUME NEW m \in Names
      PROVE  SymbolMeant(m) = 0
  <2>1. CASE env[m] = Undefined
    <3>1. MovesBy(expr, OfKind("sym", m), 0, result)
      BY <2>1, ResultKept
    <3>2. PICK i \in 1 .. Len(expr) :
             /\ Named(expr, i, "got", n)
             /\ LeafSum(expr, OfKind("sym", m))
                  = OfKind("sym", m)[i] + (IF result.pcrel THEN -0 ELSE 0)
      BY <1>1, <3>1 DEF MovesBy
    <3>3. QED
      BY <1>3, <2>1, <3>2, SumsAreLeafSums DEF SymbolMeant
  <2>2. CASE env[m] # Undefined
    BY <2>2, SymbolsMove
  <2>3. QED
    BY <2>1, <2>2
<1>7. Times("got", n) = 1
  <2>1. MovesBy(expr, OfKind("got", n), 0, result)
    BY ResultKept
  <2>2. PICK i \in 1 .. Len(expr) :
           /\ Named(expr, i, "got", n)
           /\ LeafSum(expr, OfKind("got", n))
                = OfKind("got", n)[i] + (IF result.pcrel THEN -0 ELSE 0)
    BY <1>1, <2>1 DEF MovesBy
  <2>3. QED
    BY <1>3, <2>2, SumsAreLeafSums
<1>8. HereMeant = IF result.pcrel THEN -1 ELSE 0
  <2>1. MovesBy(expr, AtHere, 1, result)
    BY ResultKept
  <2>2. PICK i \in 1 .. Len(expr) :
           /\ Named(expr, i, "got", n)
           /\ LeafSum(expr, AtHere) = AtHere[i] + (IF result.pcrel THEN -1 ELSE 0)
    BY <1>1, <2>1 DEF MovesBy
  <2>3. QED
    BY <1>3, <2>2, SumsAreLeafSums
<1>9. Linked(Nothing, Nothing, a)
  BY <1>2, <1>4, <1>5, <1>6, NothingMeans DEF Linked
<1>10. QED
  BY <1>1, <1>7, <1>8, <1>9

\* What classification returns is what the expression means, wherever the
\* linker puts the sections and the symbols (classify_with_lookup): the
\* constant, the section anchors and the terms that are left account for
\* every leaf exactly once.
THEOREM MeaningIsKept ==
  Spec => []MeaningKept
<1>1. Inv => MeaningKept
  <2>1. SUFFICES ASSUME Inv
                 PROVE  MeaningKept
    OBVIOUS
  <2>2. CASE result = Pending
    BY <2>2 DEF MeaningKept, Pending
  <2>3. CASE result = Classify(expr, env)
    BY <2>1, <2>3, ConstantResult, RelocatableResult, DifferenceResult, GotResult
       DEF MeaningKept
  <2>4. QED
    BY <2>1, <2>2, <2>3 DEF Inv
<1>2. QED
  BY <1>1, InvHolds, PTL

-----------------------------------------------------------------------------
(* The addresses that are counted.                                         *)

\* The address that a relocation has to name at i, and how often it is
\* counted.
AddressOf(i) ==
    IF i \in Anchored(expr, env) THEN <<"section", SectionAt(expr, env, i)>>
                                 ELSE <<"symbol", expr[i].name>>

CountOf(a) == IF a[1] = "section" THEN SectionMeant(a[2]) ELSE SymbolMeant(a[2])

LEMMA LabelsAreInSections ==
  ASSUME Inv, NEW i \in 1 .. Len(expr), IsLabel(expr, env, i)
  PROVE  SectionAt(expr, env, i) \in SectionIds
<1>1. expr[i].name \in Names /\ env[expr[i].name].kind = "defined"
  BY ExpressionsAreSound DEF IsLabel
<1>2. env \in [Names -> Place]
  BY ExpressionsAssumption, IntegersAssumption DEF Inv
<1>3. env[expr[i].name] \in Place
  BY <1>1, <1>2
<1>4. env[expr[i].name] \in [kind : {"defined"}, section : SectionIds, value : 0 .. MaxUnsigned]
  BY <1>1, <1>3 DEF Place, Undefined
<1>5. QED
  BY <1>4 DEF SectionAt

LEMMA SectionCounted ==
  ASSUME Inv
  PROVE  \A s : /\ \A i \in Anchored(expr, env) :
                      SectionAt(expr, env, i) = s => SectionMeant(s) = SectionSum(expr, env, i)
                /\ (\A i \in Anchored(expr, env) : SectionAt(expr, env, i) # s) =>
                      SectionMeant(s) = 0
<1>1. TAKE s
<1>2. Sound(expr, env) /\ Worth(expr, env, Base, Zeros, 0)
  BY ExpressionsAreSound, BaseIsWorth
<1>3. PICK d : d = InSection(s)
  OBVIOUS
<1>4. Shift(expr, env, d, d, 0)
  BY <1>3, SectionShift
<1>5. \A i \in 1 .. Len(expr) :
         d[i] = IF IsLabel(expr, env, i) /\ SectionAt(expr, env, i) = s THEN 1 ELSE 0
  BY <1>3, SectionShift
<1>6. /\ \A i \in Anchored(expr, env) :
            SectionAt(expr, env, i) = s => LeafSum(expr, d) = SectionSum(expr, env, i)
      /\ (\A i \in Anchored(expr, env) : SectionAt(expr, env, i) # s) => LeafSum(expr, d) = 0
  BY <1>2, <1>4, <1>5, SectionMoves
<1>7. SectionMeant(s) = LeafSum(expr, d)
  BY <1>3, SumsAreLeafSums
<1>8. QED
  BY <1>6, <1>7

LEMMA NamesCounted ==
  ASSUME Inv, NEW kind \in {"sym", "got"}, NEW n
  PROVE  /\ \A i \in Terms(expr) :
               Named(expr, i, kind, n) => Times(kind, n) = Coefficient(expr, i)
         /\ (\A i \in Terms(expr) : ~ Named(expr, i, kind, n)) => Times(kind, n) = 0
<1>1. Sound(expr, env)
  BY ExpressionsAreSound
<1>2. PICK d : d = OfKind(kind, n)
  OBVIOUS
<1>3. d \in [1 .. Len(expr) -> Int]
  BY <1>2 DEF OfKind
<1>4. IsList(Len(expr), d)
  BY <1>1, <1>3 DEF IsList, Sound
<1>5. \A i \in 1 .. Len(expr) : d[i] = IF Named(expr, i, kind, n) THEN 1 ELSE 0
  BY <1>2 DEF OfKind, Named
<1>6. /\ \A i \in Terms(expr) :
            Named(expr, i, kind, n) => LeafSum(expr, d) = Coefficient(expr, i)
      /\ (\A i \in Terms(expr) : ~ Named(expr, i, kind, n)) => LeafSum(expr, d) = 0
  BY <1>1, <1>4, <1>5, NamedSum
<1>7. Times(kind, n) = LeafSum(expr, d)
  BY <1>2, SumsAreLeafSums
<1>8. QED
  BY <1>6, <1>7

LEMMA HereCounted ==
  ASSUME Inv
  PROVE  HereMeant = Here(expr)
<1>1. Len(expr) \in Nat /\ DOMAIN expr = 1 .. Len(expr)
      /\ \A i \in 1 .. Len(expr) : expr[i].sign \in Int
  BY ExpressionsAreSound DEF Sound
<1>2. \A i \in 1 .. Len(expr) :
         expr[i].sign * (IF expr[i].kind = "here" THEN 1 ELSE 0)
           = IF expr[i].kind = "here" THEN expr[i].sign ELSE 0
  BY <1>1, Multiply
<1>3. [i \in 1 .. Len(expr) |-> expr[i].sign * AtHere[i]]
        = [i \in DOMAIN expr |-> IF expr[i].kind = "here" THEN expr[i].sign ELSE 0]
  BY <1>1, <1>2 DEF AtHere
<1>4. HereMeant = LeafSum(expr, AtHere)
  BY SumsAreLeafSums
<1>5. QED
  BY <1>3, <1>4 DEF LeafSum, Here

\* The places of the coefficients.
LEMMA PlacesOfCoefficients ==
  ASSUME Inv
  PROVE  /\ DOMAIN Coefficients(expr, env)
              = Remaining(expr, env) \union Anchored(expr, env)
         /\ \A i \in Anchored(expr, env) :
               /\ i \in 1 .. Len(expr) /\ IsLabel(expr, env, i)
               /\ Coefficients(expr, env)[i] = SectionSum(expr, env, i)
               /\ SectionSum(expr, env, i) # 0
         /\ \A i \in Remaining(expr, env) :
               /\ i \notin Anchored(expr, env) /\ i \in Terms(expr)
               /\ i \in 1 .. Len(expr) /\ Named(expr, i, "sym", expr[i].name)
               /\ env[expr[i].name] = Undefined /\ expr[i].name \in Names
               /\ Coefficients(expr, env)[i] = Coefficient(expr, i)
               /\ Coefficient(expr, i) # 0
<1>1. Sound(expr, env)
  BY ExpressionsAreSound
<1>2. DOMAIN Coefficients(expr, env) = Remaining(expr, env) \union Anchored(expr, env)
  BY DEF Coefficients
<1>3. ASSUME NEW i \in Anchored(expr, env)
      PROVE  /\ i \in 1 .. Len(expr) /\ IsLabel(expr, env, i)
             /\ Coefficients(expr, env)[i] = SectionSum(expr, env, i)
             /\ SectionSum(expr, env, i) # 0
  <2>1. i \in 1 .. Len(expr) /\ IsLabel(expr, env, i)
    BY <1>1, LabelledAreLabels
  <2>2. SectionSum(expr, env, i) # 0
    BY DEF Anchored
  <2>3. QED
    BY <2>1, <2>2 DEF Coefficients
<1>4. ASSUME NEW i \in Remaining(expr, env)
      PROVE  /\ i \notin Anchored(expr, env) /\ i \in Terms(expr)
             /\ i \in 1 .. Len(expr) /\ Named(expr, i, "sym", expr[i].name)
             /\ env[expr[i].name] = Undefined /\ expr[i].name \in Names
             /\ Coefficients(expr, env)[i] = Coefficient(expr, i)
             /\ Coefficient(expr, i) # 0
  <2>1. i \in Terms(expr) /\ expr[i].kind = "sym" /\ env[expr[i].name] = Undefined
    BY DEF Remaining
  <2>2. i \in 1 .. Len(expr) /\ Coefficient(expr, i) # 0
    BY <1>1, <2>1, TermsAreFirst DEF Terms
  <2>3. i \notin Anchored(expr, env)
    BY <1>3, <2>1 DEF IsLabel, Undefined
  <2>4. expr[i].name \in Names
    BY <2>1, <2>2, ExpressionsAreSound
  <2>5. Coefficients(expr, env)[i] = Coefficient(expr, i)
    BY <2>3 DEF Coefficients
  <2>6. QED
    BY <2>1, <2>2, <2>3, <2>4, <2>5 DEF Named
<1>5. QED
  BY <1>2, <1>3, <1>4

\* What a relocation has to name is exactly what is counted.
LEMMA AddressesAreCounted ==
  ASSUME Inv
  PROVE  /\ \A i \in DOMAIN Coefficients(expr, env) :
               /\ AddressOf(i) \in Addresses
               /\ CountOf(AddressOf(i)) = Coefficients(expr, env)[i]
               /\ Coefficients(expr, env)[i] # 0
         /\ \A a \in Addresses :
               CountOf(a) # 0 => \E i \in DOMAIN Coefficients(expr, env) : AddressOf(i) = a
         /\ \A i, j \in DOMAIN Coefficients(expr, env) : AddressOf(i) = AddressOf(j) => i = j
<1>1. PICK A, R, D : /\ A = Anchored(expr, env) /\ R = Remaining(expr, env)
                     /\ D = DOMAIN Coefficients(expr, env)
  OBVIOUS
<1>2. D = R \union A
  BY <1>1, PlacesOfCoefficients
<1>3. Sound(expr, env)
  BY ExpressionsAreSound
<1>4. ASSUME NEW i \in A
      PROVE  /\ AddressOf(i) = <<"section", SectionAt(expr, env, i)>>
             /\ SectionAt(expr, env, i) \in SectionIds
             /\ CountOf(AddressOf(i)) = Coefficients(expr, env)[i]
             /\ Coefficients(expr, env)[i] # 0
  <2>1. AddressOf(i) = <<"section", SectionAt(expr, env, i)>>
    BY <1>1 DEF AddressOf
  <2>2. CountOf(AddressOf(i)) = SectionMeant(SectionAt(expr, env, i))
    BY <2>1 DEF CountOf
  <2>3. SectionMeant(SectionAt(expr, env, i)) = SectionSum(expr, env, i)
    BY <1>1, SectionCounted
  <2>4. SectionAt(expr, env, i) \in SectionIds
    BY <1>1, PlacesOfCoefficients, LabelsAreInSections
  <2>5. QED
    BY <1>1, <2>1, <2>2, <2>3, <2>4, PlacesOfCoefficients
<1>5. ASSUME NEW i \in R
      PROVE  /\ AddressOf(i) = <<"symbol", expr[i].name>>
             /\ expr[i].name \in Names
             /\ CountOf(AddressOf(i)) = Coefficients(expr, env)[i]
             /\ Coefficients(expr, env)[i] # 0
  <2>1. /\ i \notin A /\ i \in Terms(expr) /\ Named(expr, i, "sym", expr[i].name)
        /\ env[expr[i].name] = Undefined /\ expr[i].name \in Names
        /\ Coefficients(expr, env)[i] = Coefficient(expr, i)
        /\ Coefficient(expr, i) # 0
    BY <1>1, PlacesOfCoefficients
  <2>2. AddressOf(i) = <<"symbol", expr[i].name>>
    BY <1>1, <2>1 DEF AddressOf
  <2>3. CountOf(AddressOf(i)) = SymbolMeant(expr[i].name)
    BY <2>2 DEF CountOf
  <2>4. SymbolMeant(expr[i].name) = Times("sym", expr[i].name)
    BY <2>1 DEF SymbolMeant
  <2>5. Times("sym", expr[i].name) = Coefficient(expr, i)
    BY <2>1, NamesCounted
  <2>6. QED
    BY <2>1, <2>2, <2>3, <2>4, <2>5
<1>6. ASSUME NEW i \in D
      PROVE  /\ AddressOf(i) \in Addresses
             /\ CountOf(AddressOf(i)) = Coefficients(expr, env)[i]
             /\ Coefficients(expr, env)[i] # 0
  BY <1>2, <1>4, <1>5 DEF Addresses
<1>7. ASSUME NEW a \in Addresses, CountOf(a) # 0
      PROVE  \E i \in D : AddressOf(i) = a
  <2>1. CASE a \in {"section"} \X SectionIds
    <3>1. PICK s \in SectionIds : a = <<"section", s>>
      BY <2>1
    <3>2. SectionMeant(s) # 0
      BY <1>7, <3>1 DEF CountOf
    <3>3. PICK i \in A : SectionAt(expr, env, i) = s
      BY <1>1, <3>2, SectionCounted
    <3>4. QED
      BY <1>2, <1>4, <3>1, <3>3
  <2>2. CASE a \in {"symbol"} \X Names
    <3>1. PICK m \in Names : a = <<"symbol", m>>
      BY <2>2
    <3>2. SymbolMeant(m) # 0
      BY <1>7, <3>1 DEF CountOf
    <3>3. env[m] = Undefined /\ Times("sym", m) # 0
      BY <3>2 DEF SymbolMeant
    <3>4. PICK i \in Terms(expr) : Named(expr, i, "sym", m)
      BY <3>3, NamesCounted
    <3>5. i \in R /\ expr[i].name = m
      BY <1>1, <3>3, <3>4 DEF Remaining, Named
    <3>6. QED
      BY <1>2, <1>5, <3>1, <3>5
  <2>3. QED
    BY <2>1, <2>2 DEF Addresses
<1>8. ASSUME NEW i \in D, NEW j \in D, AddressOf(i) = AddressOf(j)
      PROVE  i = j
  <2>1. CASE i \in A /\ j \in A
    <3>1. SectionAt(expr, env, i) = SectionAt(expr, env, j)
      BY <1>4, <1>8, <2>1
    <3>2. QED
      BY <1>1, <1>3, <2>1, <3>1, SectionsAreApart
  <2>2. CASE i \in R /\ j \in R
    <3>1. expr[i].name = expr[j].name
      BY <1>5, <1>8, <2>2
    <3>2. /\ i \in Terms(expr) /\ j \in Terms(expr)
          /\ expr[i].kind = "sym" /\ expr[j].kind = "sym"
      BY <1>1, <2>2 DEF Remaining
    <3>3. SameTerm(expr[i], expr[j])
      BY <3>1, <3>2 DEF SameTerm
    <3>4. QED
      BY <1>3, <3>2, <3>3, TermsAreApart
  <2>3. CASE (i \in A /\ j \in R) \/ (i \in R /\ j \in A)
    <3>1. \A k \in A : AddressOf(k)[1] = "section"
      BY <1>4
    <3>2. \A k \in R : AddressOf(k)[1] = "symbol"
      BY <1>5
    <3>3. AddressOf(i)[1] = AddressOf(j)[1]
      BY <1>8
    <3>4. CASE i \in A /\ j \in R
      <4>1. AddressOf(i)[1] = "section" /\ AddressOf(j)[1] = "symbol"
        BY <3>1, <3>2, <3>4
      <4>2. "section" = "symbol"
        BY <3>3, <4>1
      <4>3. QED
        BY <4>2
    <3>5. CASE i \in R /\ j \in A
      <4>1. AddressOf(i)[1] = "symbol" /\ AddressOf(j)[1] = "section"
        BY <3>1, <3>2, <3>5
      <4>2. "symbol" = "section"
        BY <3>3, <4>1
      <4>3. QED
        BY <4>2
    <3>6. QED
      BY <2>3, <3>4, <3>5
  <2>4. QED
    BY <1>2, <2>1, <2>2, <2>3
<1>9. QED
  BY <1>1, <1>6, <1>7, <1>8

-----------------------------------------------------------------------------
(* What is refused as not representable.                                   *)

\* Counts says how often each address is counted.
LEMMA CountsSay ==
  ASSUME NEW P, NEW M, Counts(P, M), NEW a \in Addresses
  PROVE  CountOf(a) = CASE a \in P -> 1 [] a \in M -> -1 [] OTHER -> 0
<1>1. CASE a \in {"section"} \X SectionIds
  <2>1. PICK s \in SectionIds : a = <<"section", s>>
    BY <1>1
  <2>2. SectionMeant(s) = CASE a \in P -> 1 [] a \in M -> -1 [] OTHER -> 0
    BY <2>1 DEF Counts
  <2>3. CountOf(a) = SectionMeant(s)
    BY <2>1 DEF CountOf
  <2>4. QED
    BY <2>2, <2>3
<1>2. CASE a \in {"symbol"} \X Names
  <2>1. PICK m \in Names : a = <<"symbol", m>>
    BY <1>2
  <2>2. SymbolMeant(m) = CASE a \in P -> 1 [] a \in M -> -1 [] OTHER -> 0
    BY <2>1 DEF Counts
  <2>3. CountOf(a) = SymbolMeant(m)
    BY <2>1 DEF CountOf
  <2>4. QED
    BY <2>2, <2>3
<1>3. QED
  BY <1>1, <1>2 DEF Addresses

\* An expression that depends on none, one, or the difference of two
\* addresses can be represented.
LEMMA CountsAreSupported ==
  ASSUME Inv
  PROVE  /\ Counts({}, {}) => DOMAIN Coefficients(expr, env) = {}
         /\ \A a \in Addresses :
               Counts({a}, {}) => Supported(Coefficients(expr, env))
         /\ \A a \in Addresses, b \in Addresses :
               a # b /\ Counts({a}, {b}) => Supported(Coefficients(expr, env))
<1>1. PICK D, k : D = DOMAIN k /\ k = Coefficients(expr, env)
  OBVIOUS
<1>2. /\ \A i \in D : AddressOf(i) \in Addresses /\ CountOf(AddressOf(i)) = k[i] /\ k[i] # 0
      /\ \A a \in Addresses : CountOf(a) # 0 => \E i \in D : AddressOf(i) = a
      /\ \A i, j \in D : AddressOf(i) = AddressOf(j) => i = j
  BY <1>1, AddressesAreCounted
<1>3. ASSUME Counts({}, {})
      PROVE  D = {}
  <2>1. \A a \in Addresses : CountOf(a) = 0
    BY <1>3, CountsSay
  <2>2. QED
    BY <1>2, <2>1
<1>4. ASSUME NEW a \in Addresses, Counts({a}, {})
      PROVE  Supported(k)
  <2>1. CountOf(a) = 1 /\ \A c \in Addresses : c # a => CountOf(c) = 0
    BY <1>4, CountsSay
  <2>2. PICK i \in D : AddressOf(i) = a
    BY <1>2, <2>1
  <2>3. k[i] = 1
    BY <1>2, <2>1, <2>2
  <2>4. D = {i}
    BY <1>2, <2>1, <2>2
  <2>5. QED
    BY <1>1, <2>3, <2>4 DEF Supported
<1>5. ASSUME NEW a \in Addresses, NEW b \in Addresses, a # b, Counts({a}, {b})
      PROVE  Supported(k)
  <2>1. /\ CountOf(a) = 1 /\ CountOf(b) = -1
        /\ \A c \in Addresses : c # a /\ c # b => CountOf(c) = 0
    BY <1>5, CountsSay
  <2>2. PICK i \in D : AddressOf(i) = a
    BY <1>2, <2>1
  <2>3. PICK j \in D : AddressOf(j) = b
    BY <1>2, <2>1
  <2>4. k[i] = 1 /\ k[j] = -1
    BY <1>2, <2>1, <2>2, <2>3
  <2>5. D = {i, j}
    <3>1. ASSUME NEW l \in D
          PROVE  l \in {i, j}
      <4>1. AddressOf(l) = a \/ AddressOf(l) = b
        BY <1>2, <2>1
      <4>2. QED
        BY <1>2, <2>2, <2>3, <4>1
    <3>2. QED
      BY <3>1
  <2>6. QED
    BY <1>1, <2>4, <2>5 DEF Supported
<1>6. QED
  BY <1>1, <1>3, <1>4, <1>5

\* An expression that depends on no address, on one, or on the difference of
\* two.
Representable ==
    \/ Counts({}, {})
    \/ \E a \in Addresses : \/ Counts({a}, {})
                            \/ \E b \in Addresses \ {a} : Counts({a}, {b})

LEMMA IllegalSections ==
  ASSUME Inv, NEW i \in Anchored(expr, env), SectionSum(expr, env, i) \notin {-1, 1}
  PROVE  ~ Representable
<1>1. PICK a : a = AddressOf(i)
  OBVIOUS
<1>2. i \in DOMAIN Coefficients(expr, env)
      /\ Coefficients(expr, env)[i] = SectionSum(expr, env, i)
  BY PlacesOfCoefficients
<1>3. a \in Addresses /\ CountOf(a) \notin {-1, 0, 1}
  BY <1>1, <1>2, AddressesAreCounted
<1>4. \A P, M : ~ Counts(P, M)
  BY <1>3, CountsSay
<1>5. QED
  BY <1>4 DEF Representable

LEMMA IllegalCoefficients ==
  ASSUME Inv, ~ Supported(Coefficients(expr, env))
  PROVE  ~ Representable
<1>1. DOMAIN Coefficients(expr, env) # {}
  BY DEF Supported
<1>2. QED
  BY <1>1, CountsAreSupported DEF Representable

\* The @GOTs that count.
GotsThatCount ==
    { i \in DOMAIN expr : expr[i].kind = "got" /\ Times("got", expr[i].name) # 0 }

LEMMA GotsCounted ==
  ASSUME Inv
  PROVE  /\ Gots(expr) \subseteq GotsThatCount
         /\ \A i \in GotsThatCount :
               \E k \in Gots(expr) : Named(expr, k, "got", expr[i].name)
         /\ \A i \in Gots(expr) : /\ Named(expr, i, "got", expr[i].name)
                                  /\ Times("got", expr[i].name) = Coefficient(expr, i)
<1>1. Sound(expr, env)
  BY ExpressionsAreSound
<1>2. ASSUME NEW i \in Gots(expr)
      PROVE  /\ Named(expr, i, "got", expr[i].name) /\ i \in DOMAIN expr
             /\ Times("got", expr[i].name) = Coefficient(expr, i)
             /\ Coefficient(expr, i) # 0 /\ expr[i].kind = "got"
  <2>1. i \in Terms(expr) /\ expr[i].kind = "got"
    BY DEF Gots
  <2>2. i \in 1 .. Len(expr) /\ i \in DOMAIN expr /\ Coefficient(expr, i) # 0
    BY <1>1, <2>1, TermsAreFirst DEF Terms
  <2>3. Named(expr, i, "got", expr[i].name)
    BY <2>1, <2>2 DEF Named
  <2>4. QED
    BY <2>1, <2>2, <2>3, NamesCounted
<1>3. ASSUME NEW i \in GotsThatCount
      PROVE  \E k \in Gots(expr) : Named(expr, k, "got", expr[i].name)
  <2>1. Times("got", expr[i].name) # 0
    BY DEF GotsThatCount
  <2>2. PICK k \in Terms(expr) : Named(expr, k, "got", expr[i].name)
    BY <2>1, NamesCounted
  <2>3. QED
    BY <2>2 DEF Named, Gots
<1>4. QED
  BY <1>2, <1>3 DEF GotsThatCount

LEMMA IllegalGots ==
  ASSUME Inv, ClassifyGot(expr, env) = Illegal, Gots(expr) # {} \/ Here(expr) # 0
  PROVE  /\ GotsThatCount # {} \/ HereMeant # 0
         /\ \/ ~ Counts({}, {})
            \/ HereMeant \notin {0, -1}
            \/ ~ \E n \in { expr[i].name : i \in GotsThatCount } :
                  /\ \A i \in GotsThatCount : expr[i].name = n
                  /\ Times("got", n) = 1
<1>1. GotsThatCount # {} \/ HereMeant # 0
  BY GotsCounted, HereCounted
<1>2. \/ DOMAIN Coefficients(expr, env) # {}
      \/ ~ \E i \in DOMAIN expr : Gots(expr) = {i} /\ Coefficient(expr, i) = 1
      \/ Here(expr) \notin {0, -1}
  BY DEF ClassifyGot, Illegal, Overflow
<1>3. CASE DOMAIN Coefficients(expr, env) # {}
  BY <1>1, <1>3, CountsAreSupported
<1>4. CASE Here(expr) \notin {0, -1}
  BY <1>1, <1>4, HereCounted
<1>5. CASE ~ \E i \in DOMAIN expr : Gots(expr) = {i} /\ Coefficient(expr, i) = 1
  <2>1. SUFFICES ASSUME NEW n, \A i \in GotsThatCount : expr[i].name = n,
                        Times("got", n) = 1
                 PROVE  FALSE
    BY <1>1
  <2>2. PICK k \in Terms(expr) : Named(expr, k, "got", n)
    BY <2>1, NamesCounted
  <2>3. k \in Gots(expr) /\ k \in DOMAIN expr /\ Coefficient(expr, k) = 1
    <3>1. expr[k].kind = "got" /\ expr[k].name = n /\ k \in 1 .. Len(expr)
      BY <2>2 DEF Named
    <3>2. k \in Gots(expr) /\ k \in DOMAIN expr
      BY <2>2, <3>1, ExpressionsAreSound DEF Gots, Sound
    <3>3. QED
      BY <2>1, <2>2, <3>2, NamesCounted
  <2>4. ASSUME NEW j \in Gots(expr)
        PROVE  j = k
    <3>1. j \in GotsThatCount /\ expr[j].kind = "got" /\ j \in Terms(expr)
      BY GotsCounted DEF Gots
    <3>2. expr[j].name = n
      BY <2>1, <3>1
    <3>3. SameTerm(expr[j], expr[k])
      BY <2>2, <3>1, <3>2 DEF SameTerm, Named
    <3>4. QED
      BY <2>2, <3>1, <3>3, ExpressionsAreSound, TermsAreApart
  <2>5. Gots(expr) = {k}
    BY <2>3, <2>4
  <2>6. QED
    BY <1>5, <2>3, <2>5
<1>6. QED
  BY <1>2, <1>3, <1>4, <1>5

\* Classification refuses an expression only when no relocation of the
\* model's kinds, symbol or difference plus addend, means the same
\* (anchor_groups, relocation_coefficients_are_supported, and the @GOT
\* rules of classify_with_lookup).
THEOREM RefusedOnlyIfIllegalHolds ==
  Spec => []RefusedOnlyIfIllegal
<1>1. Inv => RefusedOnlyIfIllegal
  <2>1. SUFFICES ASSUME Inv, result = Illegal
                 PROVE  RefusedOnlyIfIllegal
    BY DEF RefusedOnlyIfIllegal
  <2>2. Classify(expr, env) = Illegal
    BY <2>1 DEF Inv, Illegal, Pending
  <2>3. \/ \E i \in Anchored(expr, env) : SectionSum(expr, env, i) \notin {-1, 1}
        \/ /\ Gots(expr) # {} \/ Here(expr) # 0
           /\ ClassifyGot(expr, env) = Illegal
        \/ ClassifyPlain(expr, env) = Illegal
    BY <2>2 DEF Classify, Illegal, Overflow
  <2>4. ASSUME ~ Representable
        PROVE  RefusedOnlyIfIllegal
    <3>1. /\ ~ Counts({}, {})
          /\ \A a \in Addresses : ~ Counts({a}, {})
                                  /\ \A b \in Addresses \ {a} : ~ Counts({a}, {b})
      BY <2>4 DEF Representable
    <3>2. QED
      BY <3>1 DEF RefusedOnlyIfIllegal
  <2>5. CASE \E i \in Anchored(expr, env) : SectionSum(expr, env, i) \notin {-1, 1}
    BY <2>1, <2>4, <2>5, IllegalSections
  <2>6. CASE /\ Gots(expr) # {} \/ Here(expr) # 0
             /\ ClassifyGot(expr, env) = Illegal
    BY <2>1, <2>6, IllegalGots DEF RefusedOnlyIfIllegal, GotsThatCount
  <2>7. CASE ClassifyPlain(expr, env) = Illegal
    <3>1. CASE ~ Supported(Coefficients(expr, env))
      BY <2>1, <2>4, <3>1, IllegalCoefficients
    <3>2. CASE Supported(Coefficients(expr, env))
      <4>1. ClassifyPlain(expr, env) # Illegal
        BY <3>2 DEF ClassifyPlain, Represent, Overflow, Illegal
      <4>2. QED
        BY <2>7, <4>1
    <3>3. QED
      BY <3>1, <3>2
  <2>8. QED
    BY <2>3, <2>5, <2>6, <2>7
<1>2. QED
  BY <1>1, InvHolds, PTL

-----------------------------------------------------------------------------
(* What is refused for overflow.                                           *)

\* The constant that is meant is the one that is computed.
LEMMA ConstantIsDefined ==
  ASSUME Inv
  PROVE  ConstantMeant = DefinedConstant(expr, env)
<1>1. Sound(expr, env) /\ Worth(expr, env, Base, Zeros, 0)
  BY ExpressionsAreSound, BaseIsWorth
<1>2. PICK n, t, s, A, R, G :
         /\ n = Len(expr) /\ t = TermSigns(expr) /\ s = SectionSigns(expr, env)
         /\ A = Anchored(expr, env) /\ R = Remaining(expr, env) /\ G = Gots(expr)
  OBVIOUS
<1>3. PICK w, z : w = Base /\ z = Zeros
  OBVIOUS
<1>4. IsList(n, t) /\ IsList(n, s)
  BY <1>1, <1>2, CoefficientsAreInts
<1>5. IsList(n, w) /\ IsList(n, z) /\ \A i \in 1 .. n : z[i] = 0
  BY <1>1, <1>2, <1>3, WorthIsList, ZerosAreList
<1>6. n \in Nat
  BY <1>4 DEF IsList
<1>7. PICK x : x = Weighed(n, t, w) /\ \A i \in 1 .. n : x[i] = t[i] * w[i]
  BY <1>4, <1>5, WeighedIsList
<1>8. PICK y : y = Weighed(n, s, z) /\ \A i \in 1 .. n : y[i] = s[i] * z[i]
  BY <1>4, <1>5, WeighedIsList
<1>9. Over(n, A, y) = 0
  <2>1. ASSUME NEW i \in 1 .. n
        PROVE  y[i] = 0
    <3>1. s[i] \in Int /\ y[i] = s[i] * 0
      BY <1>4, <1>5, <1>8 DEF IsList
    <3>2. QED
      BY <3>1, Multiply
  <2>2. QED
    BY <1>6, <2>1, OverZero
<1>10. Over(n, R, x) = 0 /\ Over(n, G, x) = 0
  <2>1. ASSUME NEW i \in 1 .. n, i \in R \union G
        PROVE  x[i] = 0
    <3>1. expr[i].kind = "got" \/ (expr[i].kind = "sym" /\ env[expr[i].name] = Undefined)
      BY <1>2, <2>1 DEF Remaining, Gots
    <3>2. w[i] = 0
      BY <1>2, <1>3, <3>1 DEF Base
    <3>3. t[i] \in Int /\ x[i] = t[i] * 0
      BY <1>4, <1>7, <3>2 DEF IsList
    <3>4. QED
      BY <3>3, Multiply
  <2>2. QED
    BY <1>6, <2>1, OverZero
<1>11. /\ LeafSum(expr, w) = DefinedConstant(expr, env) + Over(n, A, y) + Over(n, R, x)
                             + Over(n, G, x) + Here(expr) * 0
       /\ DefinedConstant(expr, env) \in Int /\ Here(expr) * 0 = 0
  <2>1. /\ LeafSum(expr, w)
              = DefinedConstant(expr, env)
                + Over(Len(expr), Anchored(expr, env),
                       Weighed(Len(expr), SectionSigns(expr, env), z))
                + Over(Len(expr), Remaining(expr, env), Weighed(Len(expr), TermSigns(expr), w))
                + Over(Len(expr), Gots(expr), Weighed(Len(expr), TermSigns(expr), w))
                + Here(expr) * 0
        /\ DefinedConstant(expr, env) \in Int /\ Here(expr) \in Int
    BY <1>1, <1>3, LeafSumIs
  <2>2. Here(expr) * 0 = 0
    BY <2>1, Multiply
  <2>3. QED
    BY <1>2, <1>7, <1>8, <2>1, <2>2
<1>12. LeafSum(expr, w) = DefinedConstant(expr, env)
  BY <1>9, <1>10, <1>11
<1>13. QED
  BY <1>3, <1>12, SumsAreLeafSums

\* The symbols that an addend could be added to.
Candidates == { n \in Names : Times("sym", n) # 0 } \union {Nothing}

Fitting(plus, minus, addend) ==
    /\ plus \in Candidates /\ minus \in Candidates
    /\ plus # Nothing <=> Needs(1)
    /\ minus # Nothing <=> Needs(-1)
    /\ addend \in MinInt .. MaxInt
    /\ Linked(plus, minus, addend)

LEMMA NeedsAreCounted ==
  ASSUME Inv, NEW sign \in {-1, 1}
  PROVE  Needs(sign) <=> \E i \in DOMAIN Coefficients(expr, env) :
                            Coefficients(expr, env)[i] = sign
<1>1. PICK D, k : D = DOMAIN k /\ k = Coefficients(expr, env)
  OBVIOUS
<1>2. /\ \A i \in D : AddressOf(i) \in Addresses /\ CountOf(AddressOf(i)) = k[i] /\ k[i] # 0
      /\ \A a \in Addresses : CountOf(a) # 0 => \E i \in D : AddressOf(i) = a
  BY <1>1, AddressesAreCounted
<1>3. Needs(sign) <=> \E a \in Addresses : CountOf(a) = sign
  <2>1. \A s \in SectionIds : /\ <<"section", s>> \in Addresses
                              /\ CountOf(<<"section", s>>) = SectionMeant(s)
    BY DEF Addresses, CountOf
  <2>2. \A m \in Names : /\ <<"symbol", m>> \in Addresses
                         /\ CountOf(<<"symbol", m>>) = SymbolMeant(m)
    BY DEF Addresses, CountOf
  <2>3. ASSUME NEW a \in Addresses, CountOf(a) = sign
        PROVE  Needs(sign)
    <3>1. CASE a \in {"section"} \X SectionIds
      <4>1. PICK s \in SectionIds : a = <<"section", s>>
        BY <3>1
      <4>2. SectionMeant(s) = sign
        BY <2>1, <2>3, <4>1
      <4>3. QED
        BY <4>2 DEF Needs
    <3>2. CASE a \in {"symbol"} \X Names
      <4>1. PICK m \in Names : a = <<"symbol", m>>
        BY <3>2
      <4>2. SymbolMeant(m) = sign
        BY <2>2, <2>3, <4>1
      <4>3. QED
        BY <4>2 DEF Needs
    <3>3. QED
      BY <3>1, <3>2 DEF Addresses
  <2>4. ASSUME Needs(sign)
        PROVE  \E a \in Addresses : CountOf(a) = sign
    BY <2>1, <2>2, <2>4 DEF Needs
  <2>5. QED
    BY <2>3, <2>4
<1>4. (\E a \in Addresses : CountOf(a) = sign) <=> \E i \in D : k[i] = sign
  <2>1. ASSUME NEW a \in Addresses, CountOf(a) = sign
        PROVE  \E i \in D : k[i] = sign
    <3>1. CountOf(a) # 0
      BY <2>1
    <3>2. PICK i \in D : AddressOf(i) = a
      BY <1>2, <3>1
    <3>3. QED
      BY <1>2, <2>1, <3>2
  <2>2. ASSUME NEW i \in D, k[i] = sign
        PROVE  \E a \in Addresses : CountOf(a) = sign
    BY <1>2, <2>2
  <2>3. QED
    BY <2>1, <2>2
<1>5. QED
  BY <1>1, <1>3, <1>4

\* The place of a candidate that is in a section: the first leaf that names
\* it.
LEMMA CandidateStands ==
  ASSUME Inv, NEW n \in Candidates, NEW s, SectionOf(n, s) = 1
  PROVE  \E j \in Labelled(expr, env) : /\ Named(expr, j, "sym", n)
                                        /\ SectionAt(expr, env, j) = s
<1>1. n # Nothing /\ env[n].kind = "defined" /\ env[n].section = s
  BY DEF SectionOf
<1>2. Times("sym", n) # 0
  BY <1>1 DEF Candidates
<1>3. PICK j \in Terms(expr) : Named(expr, j, "sym", n)
  BY <1>2, NamesCounted
<1>4. QED
  BY <1>1, <1>3 DEF Labelled, Named, SectionAt

\* The sections can be anchored at the candidates.
LEMMA ChoiceOfCandidates ==
  ASSUME Inv, NEW plus, NEW minus, NEW addend, Fitting(plus, minus, addend),
         \A i \in Anchored(expr, env) : SectionSum(expr, env, i) \in {-1, 1}
  PROVE  \E c \in AnchorChoices(expr, env) :
            \A i \in Anchored(expr, env) :
               Named(expr, c[i], "sym",
                     IF SectionSum(expr, env, i) = 1 THEN plus ELSE minus)
<1>1. PICK A, L : A = Anchored(expr, env) /\ L = Labelled(expr, env)
  OBVIOUS
<1> DEFINE fits(i, j) == /\ j \in L
                         /\ Named(expr, j, "sym",
                                  IF SectionSum(expr, env, i) = 1 THEN plus ELSE minus)
                         /\ SectionAt(expr, env, j) = SectionAt(expr, env, i)
<1>2. ASSUME NEW i \in A
      PROVE  \E j : fits(i, j)
  <2>1. PICK s : s = SectionAt(expr, env, i)
    OBVIOUS
  <2>2. s \in SectionIds
    BY <1>1, <2>1, PlacesOfCoefficients, LabelsAreInSections
  <2>3. SectionMeant(s) = SectionSum(expr, env, i)
    BY <1>1, <2>1, SectionCounted
  <2>4. SectionMeant(s) = SectionOf(plus, s) - SectionOf(minus, s)
    BY <2>2 DEF Fitting, Linked
  <2>5. PICK x \in {0, 1}, y \in {0, 1} : x = SectionOf(plus, s) /\ y = SectionOf(minus, s)
    <3>1. SectionOf(plus, s) \in {0, 1} /\ SectionOf(minus, s) \in {0, 1}
      BY DEF SectionOf
    <3>2. QED
      BY <3>1
  <2>6. SectionSum(expr, env, i) = x - y
    BY <2>3, <2>4, <2>5
  <2>7. CASE SectionSum(expr, env, i) = 1
    <3>1. SectionOf(plus, s) = 1
      BY <2>5, <2>7, <2>6
    <3>2. PICK j \in L : Named(expr, j, "sym", plus) /\ SectionAt(expr, env, j) = s
      BY <1>1, <3>1, CandidateStands DEF Fitting
    <3>3. fits(i, j)
      BY <2>1, <2>7, <3>2
    <3>4. QED
      BY <3>3
  <2>8. CASE SectionSum(expr, env, i) = -1
    <3>1. SectionOf(minus, s) = 1
      BY <2>5, <2>8, <2>6
    <3>2. PICK j \in L : Named(expr, j, "sym", minus) /\ SectionAt(expr, env, j) = s
      BY <1>1, <3>1, CandidateStands DEF Fitting
    <3>3. fits(i, j)
      BY <2>1, <2>8, <3>2
    <3>4. QED
      BY <3>3
  <2>9. QED
    BY <1>1, <2>7, <2>8
<1>3. PICK c : c = [i \in A |-> CHOOSE j : fits(i, j)]
  OBVIOUS
<1>4. \A i \in A : fits(i, c[i])
  <2> HIDE DEF fits
  <2>1. QED
    BY <1>2, <1>3
<1>5. ASSUME NEW i \in A
      PROVE  c[i] \in L /\ c[i] \in Group(expr, env, i)
  <2>1. i \in L
    BY <1>1 DEF Anchored
  <2>2. c[i] \in L /\ SectionAt(expr, env, c[i]) = SectionAt(expr, env, i)
    BY <1>4
  <2>3. QED
    BY <1>1, <2>1, <2>2, ExpressionsAreSound, LabelledAreLabels
<1>6. c \in AnchorChoices(expr, env)
  BY <1>1, <1>3, <1>5 DEF AnchorChoices
<1>7. QED
  BY <1>1, <1>4, <1>6

\* What stands for an address that is counted once is worth the candidate.
LEMMA CandidatesWorth ==
  ASSUME Inv, NEW plus, NEW minus, NEW addend, Fitting(plus, minus, addend),
         NEW c, c \in AnchorChoices(expr, env),
         \A i \in Anchored(expr, env) :
            Named(expr, c[i], "sym", IF SectionSum(expr, env, i) = 1 THEN plus ELSE minus),
         NEW i \in DOMAIN Coefficients(expr, env), Coefficients(expr, env)[i] \in {-1, 1}
  PROVE  Base[Stands(c, i)]
           = ConstantOf(IF Coefficients(expr, env)[i] = 1 THEN plus ELSE minus)
<1>1. DOMAIN c = Anchored(expr, env)
  BY ExpressionsAreSound, ChoicesStand
<1>2. CASE i \in Anchored(expr, env)
  <2>1. Stands(c, i) = c[i] /\ Coefficients(expr, env)[i] = SectionSum(expr, env, i)
    BY <1>1, <1>2, PlacesOfCoefficients DEF Stands
  <2>2. Named(expr, c[i], "sym", IF SectionSum(expr, env, i) = 1 THEN plus ELSE minus)
    BY <1>2
  <2>3. PICK n : n = IF SectionSum(expr, env, i) = 1 THEN plus ELSE minus
    OBVIOUS
  <2>4. ConstantOf(n) = Base[c[i]]
    BY <2>2, <2>3, NamesMean
  <2>5. QED
    BY <2>1, <2>3, <2>4
<1>3. CASE i \in Remaining(expr, env)
  <2>1. /\ i \notin Anchored(expr, env) /\ i \in Terms(expr) /\ i \in 1 .. Len(expr)
        /\ Named(expr, i, "sym", expr[i].name)
        /\ env[expr[i].name] = Undefined /\ expr[i].name \in Names
        /\ Coefficients(expr, env)[i] = Coefficient(expr, i)
    BY <1>3, PlacesOfCoefficients
  <2>2. PICK m \in Names : m = expr[i].name /\ env[m] = Undefined
    BY <2>1
  <2>3. Stands(c, i) = i
    BY <1>1, <2>1 DEF Stands
  <2>4. Base[i] = 0
    BY <2>1 DEF Base, Named
  <2>5. SymbolMeant(m) = Coefficients(expr, env)[i]
    BY <2>1, <2>2, NamesCounted DEF SymbolMeant
  <2>6. SymbolMeant(m) = SymbolOf(plus, m) - SymbolOf(minus, m)
    BY DEF Fitting, Linked
  <2>7. SymbolOf(plus, m) = (IF plus = m THEN 1 ELSE 0)
        /\ SymbolOf(minus, m) = (IF minus = m THEN 1 ELSE 0)
    BY <2>2 DEF SymbolOf
  <2>8. PICK x \in {0, 1}, y \in {0, 1} : /\ x = (IF plus = m THEN 1 ELSE 0)
                                          /\ y = (IF minus = m THEN 1 ELSE 0)
    OBVIOUS
  <2>9. Coefficients(expr, env)[i] = x - y
    BY <2>5, <2>6, <2>7, <2>8
  <2>10. CASE Coefficients(expr, env)[i] = 1
    <3>1. plus = m
      BY <2>8, <2>9, <2>10
    <3>2. ConstantOf(plus) = 0
      BY <2>2, <3>1 DEF ConstantOf
    <3>3. QED
      BY <2>3, <2>4, <2>10, <3>2
  <2>11. CASE Coefficients(expr, env)[i] = -1
    <3>1. minus = m
      BY <2>8, <2>9, <2>11
    <3>2. ConstantOf(minus) = 0
      BY <2>2, <3>1 DEF ConstantOf
    <3>3. QED
      BY <2>3, <2>4, <2>11, <3>2
  <2>12. QED
    BY <2>10, <2>11
<1>4. QED
  BY <1>2, <1>3, PlacesOfCoefficients

\* The addend that a choice of the candidates leaves is the one that fits.
LEMMA CandidatesLeave ==
  ASSUME Inv, NEW plus, NEW minus, NEW addend, Fitting(plus, minus, addend),
         Gots(expr) = {}, Here(expr) = 0, Supported(Coefficients(expr, env)),
         NEW c, c \in AnchorChoices(expr, env),
         \A i \in Anchored(expr, env) :
            Named(expr, c[i], "sym", IF SectionSum(expr, env, i) = 1 THEN plus ELSE minus)
  PROVE  Addend(expr, env, c) = addend
<1>1. PICK n, k, D, a : /\ n = Len(expr) /\ k = Coefficients(expr, env) /\ D = DOMAIN k
                        /\ a = Addend(expr, env, c)
  OBVIOUS
<1>2. PICK x : /\ IsList(n, x)
               /\ LeafSum(expr, Base) = a + Over(n, D, x)
               /\ a \in Int
               /\ \A i \in D : /\ i \in 1 .. n /\ x[i] = k[i] * Base[Stands(c, i)]
                               /\ Base[Stands(c, i)] \in Int
  BY <1>1, ExpressionsAreSound, BaseIsWorth, PlainSum
<1>3. \A i \in D : k[i] \in {-1, 1} =>
         Base[Stands(c, i)] = ConstantOf(IF k[i] = 1 THEN plus ELSE minus)
  BY <1>1, CandidatesWorth
<1>4. /\ plus # Nothing <=> \E i \in D : k[i] = 1
      /\ minus # Nothing <=> \E i \in D : k[i] = -1
  BY <1>1, NeedsAreCounted DEF Fitting
<1>5. ConstantMeant = LeafSum(expr, Base) /\ ConstantOf(Nothing) = 0
  BY SumsAreLeafSums, NothingMeans
<1>6. ConstantMeant = addend + ConstantOf(plus) - ConstantOf(minus) /\ addend \in Int
  BY ExpressionsAssumption, IntegersAssumption DEF Fitting, Linked
<1>7. /\ Over(n, D, x) = ConstantOf(plus) - ConstantOf(minus)
      /\ ConstantOf(plus) \in Int /\ ConstantOf(minus) \in Int
  <2>1. CASE D = {}
    <3>1. ConstantOf(plus) = 0 /\ ConstantOf(minus) = 0
      BY <1>4, <1>5, <2>1
    <3>2. Over(n, D, x) = 0
      BY <1>2, <2>1, OverNone
    <3>3. QED
      BY <3>1, <3>2
  <2>2. CASE D # {}
    <3>1. PICK i \in D : /\ k[i] = 1
                         /\ \/ D = {i}
                            \/ \E j \in D : D = {i, j} /\ k[j] = -1
      BY <1>1, <2>2 DEF Supported
    <3>2. x[i] = ConstantOf(plus) /\ ConstantOf(plus) \in Int
      <4>1. Base[Stands(c, i)] = ConstantOf(plus)
        BY <1>3, <3>1
      <4>2. QED
        BY <1>2, <3>1, <4>1, Multiply
    <3>3. CASE D = {i}
      <4>1. minus = Nothing
        BY <1>4, <3>1, <3>3
      <4>2. ConstantOf(minus) = 0
        BY <1>5, <4>1
      <4>3. Over(n, D, x) = x[i]
        BY <1>2, <3>3, OverOne
      <4>4. QED
        BY <3>2, <4>2, <4>3
    <3>4. CASE D # {i}
      <4>1. PICK j \in D : D = {i, j} /\ k[j] = -1 /\ j # i
        BY <3>1, <3>4
      <4>2. Base[Stands(c, j)] = ConstantOf(minus)
        BY <1>3, <4>1
      <4>3. x[j] = -ConstantOf(minus) /\ ConstantOf(minus) \in Int
        BY <1>2, <4>1, <4>2, Multiply
      <4>4. Over(n, D, x) = x[i] + x[j]
        BY <1>2, <3>1, <4>1, OverTwo
      <4>5. QED
        BY <3>2, <4>3, <4>4
    <3>5. QED
      BY <3>3, <3>4
  <2>3. QED
    BY <2>1, <2>2
<1>8. PICK u \in Int, v \in Int : u = ConstantOf(plus) /\ v = ConstantOf(minus)
  BY <1>7
<1>9. a + (u - v) = addend + u - v
  BY <1>2, <1>5, <1>6, <1>7, <1>8
<1>10. QED
  BY <1>1, <1>2, <1>6, <1>8, <1>9

LEMMA OverflowIsForced ==
  ASSUME Inv, Classify(expr, env) = Overflow, ~ HasUnsigned(expr),
         ~ Overflows(Additions(expr, env)),
         NEW plus, NEW minus, NEW addend, Fitting(plus, minus, addend)
  PROVE  FALSE
<1>1. /\ \A i \in Anchored(expr, env) : SectionSum(expr, env, i) \in {-1, 1}
      /\ \/ ClassifyGot(expr, env) = Overflow
         \/ /\ Gots(expr) = {} /\ Here(expr) = 0
            /\ ClassifyPlain(expr, env) = Overflow
  BY DEF Classify, Illegal, Overflow
<1>2. CASE ClassifyGot(expr, env) = Overflow
  <2>1. DOMAIN Coefficients(expr, env) = {} /\ ~ Fits(DefinedConstant(expr, env))
    BY <1>2 DEF ClassifyGot, Illegal, Overflow
  <2>2. plus = Nothing /\ minus = Nothing
    BY <2>1, NeedsAreCounted DEF Fitting
  <2>3. ConstantMeant = addend + 0 - 0 /\ addend \in Int /\ addend \in MinInt .. MaxInt
    BY <2>2, NothingMeans, ExpressionsAssumption, IntegersAssumption DEF Fitting, Linked
  <2>4. DefinedConstant(expr, env) = addend
    BY <2>3, ConstantIsDefined
  <2>5. QED
    BY <2>1, <2>3, <2>4 DEF Fits
<1>3. CASE /\ Gots(expr) = {} /\ Here(expr) = 0
           /\ ClassifyPlain(expr, env) = Overflow
  <2>1. Supported(Coefficients(expr, env)) /\ Anchors(expr, env) = {}
    <3>1. Supported(Coefficients(expr, env))
      BY <1>3 DEF ClassifyPlain, Illegal, Overflow
    <3>2. CASE Anchors(expr, env) # {}
      <4>1. ClassifyPlain(expr, env) # Overflow
        BY <3>1, <3>2 DEF ClassifyPlain, Represent, Overflow
      <4>2. QED
        BY <1>3, <4>1
    <3>3. QED
      BY <3>1, <3>2
  <2>2. PICK c \in AnchorChoices(expr, env) :
           \A i \in Anchored(expr, env) :
              Named(expr, c[i], "sym", IF SectionSum(expr, env, i) = 1 THEN plus ELSE minus)
    BY <1>1, ChoiceOfCandidates
  <2>3. Addend(expr, env, c) = addend
    BY <1>3, <2>1, <2>2, CandidatesLeave
  <2>4. Fits(Addend(expr, env, c))
    BY <2>3 DEF Fits, Fitting
  <2>5. c \in Anchors(expr, env)
    BY <2>4 DEF Anchors
  <2>6. QED
    BY <2>1, <2>5
<1>4. QED
  BY <1>1, <1>2, <1>3

\* An overflow is reported only when no symbol that the expression names
\* leaves an addend that fits (select_defined_anchors tries every anchor).
THEOREM OverflowOnlyIfForcedHolds ==
  Spec => []OverflowOnlyIfForced
<1>1. Inv => OverflowOnlyIfForced
  <2>1. SUFFICES ASSUME Inv, result = Overflow, ~ HasUnsigned(expr),
                        ~ Overflows(Additions(expr, env)),
                        NEW plus \in Candidates, NEW minus \in Candidates,
                        plus # Nothing <=> Needs(1),
                        minus # Nothing <=> Needs(-1),
                        NEW addend \in MinInt .. MaxInt,
                        Linked(plus, minus, addend)
                 PROVE  FALSE
    BY DEF OverflowOnlyIfForced, Candidates
  <2>2. Classify(expr, env) = Overflow
    BY <2>1 DEF Inv, Overflow, Pending
  <2>3. Fitting(plus, minus, addend)
    BY <2>1 DEF Fitting
  <2>4. QED
    BY <2>1, <2>2, <2>3, OverflowIsForced
<1>2. QED
  BY <1>1, InvHolds, PTL

=============================================================================
