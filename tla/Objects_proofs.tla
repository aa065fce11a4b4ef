--------------------------- MODULE Objects_proofs ---------------------------
(***************************************************************************)
(* What is proved of the objects that finish and finish_elf make, and of   *)
(* the files that the writers make of them.                                *)
(*                                                                         *)
(* The steps of module Objects are steps of the assembler, so all that     *)
(* Assembler_proofs knows holds of them.  On top of it, ObjectInv says     *)
(* what an object is made of: its symbols are a list of right entries for  *)
(* the names that are wanted, in the order that the counts of the file     *)
(* rest on, and its relocations are those that were recorded, section by   *)
(* section and in their order, with the numbers of the symbols they name.  *)
(***************************************************************************)
EXTENDS Objects, Assembler_proofs

\* Every step is one of the assembler's, or the writers', that changes
\* nothing the assembler knows.
LEMMA StepIsAssemblers == [ObjectsNext]_<<vars, objects>> => [Next]_vars
<1>1. Measure \/ EmitStatement \/ ResetMarks \/ Elsewhere \/ FinishMachO \/ FinishElfObject => Next
  BY DEF Measure, EmitStatement, ResetMarks, Elsewhere, FinishMachO, FinishElfObject, Next
<1>2. Write => UNCHANGED vars
  BY DEF Write
<1>3. QED
  BY <1>1, <1>2 DEF ObjectsNext

\* What finish and the writers do is added to the assembler, and changes
\* nothing of it: so what is proved of the assembler holds here.
THEOREM ObjectsAreAssembled == ObjectsSpec => Spec
<1>1. ObjectsInit => Init
  BY DEF ObjectsInit
<1>2. QED
  BY <1>1, StepIsAssemblers, PTL DEF ObjectsSpec, Spec

\* All that is known of the assembler.
Assembled == /\ Inv /\ SourceKnown /\ SetsInv /\ PlacesInv /\ GivenInv /\ StatementsInv
             /\ FixupsInv /\ AnswersInv

\* In every state.
LEMMA AssembledHolds == ObjectsSpec => []Assembled
<1>1. Spec => []Assembled
  BY LayoutHolds, SourceStays, SetsHold, PlacesHold, GivenHolds, StatementsHold, FixupsHold,
     AnswersHold, PTL DEF Assembled
<1>2. QED
  BY <1>1, ObjectsAreAssembled, PTL

\* The names of symbols that are common or have attributes are the source's.
NamesInv == /\ commons \subseteq Names
            /\ attrs.global \subseteq Names /\ attrs.weak \subseteq Names
            /\ attrs.local \subseteq Names
            /\ attrs = [global |-> attrs.global, weak |-> attrs.weak, local |-> attrs.local,
                        subsections |-> attrs.subsections]

\* Only names of the source become common or get attributes.
LEMMA NamesStay ==
  ASSUME Assembled, NamesInv, [Next]_vars
  PROVE  NamesInv'
<1>1. ASSUME Is("comm") \/ Is("global") \/ Is("weak") \/ Is("local")
      PROVE  Stmt.name \in Names
  <2>1. prog \in Programs /\ pc \in 1 .. Len(prog)
    BY <1>1 DEF Assembled, SourceKnown, Inv, TypeOK, Is
  <2>2. NamesSymbols(prog[pc])
    BY <2>1, SymbolsAssumption
  <2>3. QED
    BY <1>1, <2>2 DEF NamesSymbols, Is, Stmt
<1>2. CASE CollectComm
  BY <1>1, <1>2 DEF CollectComm, NamesInv
<1>3. CASE CollectAttribute
  <2>1. CASE Stmt.op = "subsections" /\ attrs' = [attrs EXCEPT !.subsections = TRUE]
                /\ commons' = commons
    BY <2>1 DEF NamesInv
  <2>2. CASE /\ Stmt.op \in {"global", "weak", "local"}
             /\ attrs' = [attrs EXCEPT ![Stmt.op] = @ \union {Stmt.name}]
             /\ commons' = commons
    <3>1. Stmt.name \in Names
      <4>1. At("collect")
        BY <1>3 DEF CollectAttribute, CollectSymbol
      <4>2. QED
        BY <1>1, <2>2, <4>1 DEF Is, At, Stmt
    <3>2. PICK n \in Names : n = Stmt.name
      BY <3>1
    <3>3. CASE Stmt.op = "global"
      BY <2>2, <3>2, <3>3 DEF NamesInv
    <3>4. CASE Stmt.op = "weak"
      BY <2>2, <3>2, <3>4 DEF NamesInv
    <3>5. CASE Stmt.op = "local"
      BY <2>2, <3>2, <3>5 DEF NamesInv
    <3>6. QED
      BY <2>2, <3>3, <3>4, <3>5
  <2>3. QED
    BY <1>3, <2>1, <2>2 DEF CollectAttribute
<1>4. CASE UNCHANGED <<commons, attrs>>
  BY <1>4 DEF NamesInv
<1>5. CASE CollectLabel \/ CollectSet \/ CollectZerofill \/ CollectOther
  BY <1>4, <1>5 DEF CollectLabel, CollectSet, CollectZerofill, CollectOther, symbols
<1>6. CASE PrepareExpressions \/ Reset \/ EmitSet \/ EmitQuad \/ EmitFixup \/ EmitLabel
            \/ EmitZerofillSymbol \/ EmitOther
  BY <1>4, <1>6 DEF PrepareExpressions, Reset, EmitSet, EmitQuad, EmitFixup, EmitLabel,
     EmitZerofillSymbol, EmitOther, symbols
<1>7. CASE ResolveData64 \/ ResolveBranch \/ ResolvePage
  BY <1>4, <1>7 DEF ResolveData64, ResolveBranch, ResolvePage, ResolveHere, Resolve, symbols
<1>8. CASE EndFixups \/ Finish \/ FinishElf \/ Fail \/ Terminated \/ UNCHANGED vars
  BY <1>4, <1>8 DEF EndFixups, Finish, FinishElf, Fail, Terminated, vars, symbols
<1>9. QED
  BY <1>2, <1>3, <1>5, <1>6, <1>7, <1>8 DEF Next

\* In every state.
LEMMA NamesHold == ObjectsSpec => []NamesInv
<1>1. ObjectsInit => NamesInv
  BY DEF ObjectsInit, Init, NamesInv
<1>2. Assembled /\ NamesInv /\ [ObjectsNext]_<<vars, objects>> => NamesInv'
  BY NamesStay, StepIsAssemblers
<1>3. QED
  BY <1>1, <1>2, AssembledHolds, PTL DEF ObjectsSpec

-----------------------------------------------------------------------------
(* Symbol tables as lists of entries. *)

\* How a symbol that is defined here is bound.
BoundLocally(n) ==
    /\ PlaceWritten(n).kind \notin {"undefined", "common"}
    /\ IF format = "elf" THEN ~Preemptible(n) ELSE n \notin attrs.global

\* An entry is right for its name, or it is local and has none of the source.
RightEntry(e) ==
    /\ e.bind \in {"local", "global", "weak"}
    /\ format = "macho" => e.bind # "weak"
    /\ e.name \in Names => e.place = PlaceWritten(e.name) /\ (e.bind = "local" <=> BoundLocally(e.name))
    /\ e.name \notin Names => IsPlaced(e) /\ e.bind = "local"

\* A list of right entries that has the names N, each once.
EntriesFor(t, N) ==
    /\ IsSequence(t)
    /\ N \subseteq Names
    /\ \A i \in 1 .. Len(t) : RightEntry(t[i])
    /\ \A i \in 1 .. Len(t) : t[i].name \in Names => t[i].name \in N
    /\ \A i, j \in 1 .. Len(t) : t[i].name \in Names /\ t[i].name = t[j].name => i = j
    /\ \A n \in N : \E i \in 1 .. Len(t) : t[i].name = n

\* Two lists for names that are apart make one for all of them.
LEMMA EntriesJoin ==
  ASSUME NEW t, NEW N, EntriesFor(t, N), NEW u, NEW M, EntriesFor(u, M), N \intersect M = {}
  PROVE  EntriesFor(t \o u, N \union M)
<1>1. /\ IsSequence(t) /\ N \subseteq Names
      /\ \A i \in 1 .. Len(t) : RightEntry(t[i])
      /\ \A i \in 1 .. Len(t) : t[i].name \in Names => t[i].name \in N
      /\ \A i, j \in 1 .. Len(t) : t[i].name \in Names /\ t[i].name = t[j].name => i = j
      /\ \A n \in N : \E i \in 1 .. Len(t) : t[i].name = n
  BY DEF EntriesFor
<1>2. /\ IsSequence(u) /\ M \subseteq Names
      /\ \A i \in 1 .. Len(u) : RightEntry(u[i])
      /\ \A i \in 1 .. Len(u) : u[i].name \in Names => u[i].name \in M
      /\ \A i, j \in 1 .. Len(u) : u[i].name \in Names /\ u[i].name = u[j].name => i = j
      /\ \A n \in M : \E i \in 1 .. Len(u) : u[i].name = n
  BY DEF EntriesFor
<1>3. PICK v : v = t \o u
  OBVIOUS
<1>4. /\ IsSequence(v) /\ Len(t) \in Nat /\ Len(u) \in Nat
      /\ \A k \in 1 .. Len(t) : v[k] = t[k]
      /\ \A k \in 1 .. Len(u) : v[Len(t) + k] = u[k]
  BY <1>1, <1>2, <1>3, SequencesJoin
<1>5. Len(v) = Len(t) + Len(u)
  BY <1>1, <1>2, <1>3, SequencesJoin DEF IsSequence
<1>6. ASSUME NEW i \in 1 .. Len(v)
      PROVE  \/ i \in 1 .. Len(t) /\ v[i] = t[i]
             \/ i - Len(t) \in 1 .. Len(u) /\ v[i] = u[i - Len(t)]
  <2>1. i \in 1 .. Len(t) \/ (i - Len(t) \in 1 .. Len(u) /\ i = Len(t) + (i - Len(t)))
    BY <1>4, <1>5
  <2>2. QED
    BY <1>4, <2>1
<1>7. ASSUME NEW i \in 1 .. Len(v)
      PROVE  RightEntry(v[i]) /\ (v[i].name \in Names => v[i].name \in N \union M)
  BY <1>1, <1>2, <1>6
<1>8. ASSUME NEW i \in 1 .. Len(v), NEW j \in 1 .. Len(v),
             v[i].name \in Names, v[i].name = v[j].name
      PROVE  i = j
  <2>1. CASE i \in 1 .. Len(t) /\ v[i] = t[i]
    <3>1. v[i].name \in N
      BY <1>1, <1>8, <2>1
    <3>2. j \in 1 .. Len(t) /\ v[j] = t[j]
      BY <1>2, <1>6, <1>8, <3>1
    <3>3. QED
      BY <1>1, <1>8, <2>1, <3>2
  <2>2. CASE i - Len(t) \in 1 .. Len(u) /\ v[i] = u[i - Len(t)]
    <3>1. v[i].name \in M
      BY <1>2, <1>8, <2>2
    <3>2. j - Len(t) \in 1 .. Len(u) /\ v[j] = u[j - Len(t)]
      BY <1>1, <1>6, <1>8, <3>1
    <3>3. i - Len(t) = j - Len(t)
      BY <1>2, <1>8, <2>2, <3>2
    <3>4. QED
      BY <1>4, <3>3
  <2>3. QED
    BY <1>6, <2>1, <2>2
<1>9. ASSUME NEW n \in N \union M
      PROVE  \E i \in 1 .. Len(v) : v[i].name = n
  <2>1. CASE n \in N
    <3>1. PICK i \in 1 .. Len(t) : t[i].name = n
      BY <1>1, <2>1
    <3>2. i \in 1 .. Len(v)
      BY <1>4, <1>5
    <3>3. QED
      BY <1>4, <3>1, <3>2
  <2>2. CASE n \in M
    <3>1. PICK i \in 1 .. Len(u) : u[i].name = n
      BY <1>2, <2>2
    <3>2. Len(t) + i \in 1 .. Len(v)
      BY <1>4, <1>5
    <3>3. QED
      BY <1>4, <3>1, <3>2
  <2>3. QED
    BY <2>1, <2>2
<1>10. EntriesFor(v, N \union M)
  BY <1>1, <1>2, <1>4, <1>7, <1>8, <1>9 DEF EntriesFor
<1>11. QED
  BY <1>3, <1>10

\* u has the elements of t in the order p.
Permutes(p, t, u) ==
    /\ Arranges(p, Len(t))
    /\ IsSequence(u) /\ Len(u) = Len(t)
    /\ \A i \in 1 .. Len(t) : u[i] = t[p[i]]

\* The order of a list does not matter.
LEMMA EntriesPermuted ==
  ASSUME NEW t, NEW N, EntriesFor(t, N), NEW p, NEW u, Permutes(p, t, u)
  PROVE  EntriesFor(u, N)
<1>1. /\ IsSequence(t) /\ N \subseteq Names
      /\ \A i \in 1 .. Len(t) : RightEntry(t[i])
      /\ \A i \in 1 .. Len(t) : t[i].name \in Names => t[i].name \in N
      /\ \A i, j \in 1 .. Len(t) : t[i].name \in Names /\ t[i].name = t[j].name => i = j
      /\ \A n \in N : \E i \in 1 .. Len(t) : t[i].name = n
  BY DEF EntriesFor
<1>2. /\ IsSequence(u) /\ Len(u) = Len(t)
      /\ \A i \in 1 .. Len(t) : p[i] \in 1 .. Len(t) /\ u[i] = t[p[i]]
      /\ \A i, j \in 1 .. Len(t) : p[i] = p[j] => i = j
  BY DEF Permutes, Arranges
<1>3. ASSUME NEW n \in N
      PROVE  \E i \in 1 .. Len(u) : u[i].name = n
  <2>1. PICK k \in 1 .. Len(t) : t[k].name = n
    BY <1>1
  <2>2. Len(t) \in Nat
    BY <1>1 DEF IsSequence
  <2>3. PICK i \in 1 .. Len(t) : p[i] = k
    BY <2>2, ArrangesAll DEF Permutes
  <2>4. QED
    BY <1>2, <2>1, <2>3
<1>4. ASSUME NEW i \in 1 .. Len(u), NEW j \in 1 .. Len(u),
             u[i].name \in Names, u[i].name = u[j].name
      PROVE  i = j
  BY <1>1, <1>2, <1>4
<1>5. ASSUME NEW i \in 1 .. Len(u)
      PROVE  RightEntry(u[i]) /\ (u[i].name \in Names => u[i].name \in N)
  BY <1>1, <1>2
<1>6. QED
  BY <1>1, <1>2, <1>3, <1>4, <1>5 DEF EntriesFor

\* The names of those entries that are in T.
NamesWithin(t, T) == { t[i].name : i \in { j \in 1 .. Len(t) : t[j] \in T } }

\* Some of the entries are entries for some of the names.
LEMMA EntriesSelected ==
  ASSUME NEW t, NEW N, EntriesFor(t, N), NEW T
  PROVE  EntriesFor(Those(t, T), NamesWithin(t, T) \intersect Names)
<1>1. /\ IsSequence(t) /\ N \subseteq Names
      /\ \A i \in 1 .. Len(t) : RightEntry(t[i])
      /\ \A i \in 1 .. Len(t) : t[i].name \in Names => t[i].name \in N
      /\ \A i, j \in 1 .. Len(t) : t[i].name \in Names /\ t[i].name = t[j].name => i = j
  BY DEF EntriesFor
<1>2. t \in Seq(ToSet(t))
  BY <1>1 DEF IsSequence
<1>3. PICK u : u = Those(t, T)
  OBVIOUS
<1>4. u \in Seq(ToSet(t)) /\ \E f : Selects(f, t, T)
  BY <1>2, <1>3, ThoseEnumerates
<1>5. PICK f : Selects(f, t, T)
  BY <1>4
<1>6. /\ Len(u) \in Nat
      /\ \A i \in 1 .. Len(u) : f[i] \in 1 .. Len(t) /\ t[f[i]] \in T /\ u[i] = t[f[i]]
      /\ \A i, j \in 1 .. Len(u) : i < j => f[i] < f[j]
      /\ \A k \in 1 .. Len(t) : t[k] \in T => \E i \in 1 .. Len(u) : f[i] = k
  BY <1>3, <1>5 DEF Selects, Enumerates
<1>7. IsSequence(u)
  BY <1>4, ListIsSequence
<1>8. ASSUME NEW i \in 1 .. Len(u), NEW j \in 1 .. Len(u),
             u[i].name \in Names, u[i].name = u[j].name
      PROVE  i = j
  <2>1. f[i] \in 1 .. Len(t) /\ f[j] \in 1 .. Len(t) /\ u[i] = t[f[i]] /\ u[j] = t[f[j]]
    BY <1>6
  <2>2. f[i] = f[j]
    BY <1>1, <1>8, <2>1
  <2>3. ~ (f[i] < f[j]) /\ ~ (f[j] < f[i])
    BY <2>1, <2>2
  <2>4. ~ (i < j) /\ ~ (j < i)
    BY <1>6, <2>3
  <2>5. QED
    BY <1>6, <2>4
<1>9. ASSUME NEW i \in 1 .. Len(u)
      PROVE  RightEntry(u[i]) /\ u[i].name \in NamesWithin(t, T)
  BY <1>1, <1>6 DEF NamesWithin
<1>10. ASSUME NEW n \in NamesWithin(t, T)
       PROVE  \E i \in 1 .. Len(u) : u[i].name = n
  <2>1. PICK k \in 1 .. Len(t) : t[k] \in T /\ t[k].name = n
    BY DEF NamesWithin
  <2>2. PICK i \in 1 .. Len(u) : f[i] = k
    BY <1>6, <2>1
  <2>3. QED
    BY <1>6, <2>1, <2>2
<1>11. EntriesFor(u, NamesWithin(t, T) \intersect Names)
  BY <1>7, <1>8, <1>9, <1>10 DEF EntriesFor
<1>12. QED
  BY <1>3, <1>11

\* Every element of t is in one of the two.
Splits(t, T, R) == \A i \in 1 .. Len(t) : t[i] \in T <=> t[i] \notin R

\* A selection and the rest of it have all names, and none in common.
LEMMA SelectionsApart ==
  ASSUME NEW t, NEW N, EntriesFor(t, N), NEW T, NEW R, Splits(t, T, R)
  PROVE  /\ (NamesWithin(t, T) \intersect Names) \intersect (NamesWithin(t, R) \intersect Names) = {}
         /\ (NamesWithin(t, T) \intersect Names) \union (NamesWithin(t, R) \intersect Names) = N
<1>1. /\ N \subseteq Names
      /\ \A i \in 1 .. Len(t) : t[i].name \in Names => t[i].name \in N
      /\ \A i, j \in 1 .. Len(t) : t[i].name \in Names /\ t[i].name = t[j].name => i = j
      /\ \A n \in N : \E i \in 1 .. Len(t) : t[i].name = n
      /\ \A i \in 1 .. Len(t) : t[i] \in T <=> t[i] \notin R
  BY DEF EntriesFor, Splits
<1>2. ASSUME NEW n \in NamesWithin(t, T), n \in NamesWithin(t, R), n \in Names
      PROVE  FALSE
  <2>1. PICK i \in 1 .. Len(t) : t[i] \in T /\ t[i].name = n
    BY DEF NamesWithin
  <2>2. PICK j \in 1 .. Len(t) : t[j] \in R /\ t[j].name = n
    BY <1>2 DEF NamesWithin
  <2>3. i = j
    BY <1>1, <1>2, <2>1, <2>2
  <2>4. QED
    BY <1>1, <2>1, <2>2, <2>3
<1>3. ASSUME NEW n \in N
      PROVE  n \in NamesWithin(t, T) \/ n \in NamesWithin(t, R)
  <2>1. PICK i \in 1 .. Len(t) : t[i].name = n
    BY <1>1
  <2>2. QED
    BY <1>1, <2>1 DEF NamesWithin
<1>4. ASSUME NEW n \in NamesWithin(t, T) \union NamesWithin(t, R), n \in Names
      PROVE  n \in N
  BY <1>1, <1>4 DEF NamesWithin
<1>5. QED
  BY <1>1, <1>2, <1>3, <1>4

\* Entries made of a list of different names.
LEMMA EntriesMade ==
  ASSUME NEW names, NEW N \in SUBSET Names, IsSequence(names), ToSet(names) = N,
         \A i, j \in 1 .. Len(names) : names[i] = names[j] => i = j,
         NEW t, IsSequence(t), Len(t) = Len(names),
         \A i \in 1 .. Len(names) : t[i].name = names[i] /\ RightEntry(t[i])
  PROVE  EntriesFor(t, N)
<1>1. DOMAIN names = 1 .. Len(names)
  BY DEF IsSequence
<1>2. \A i \in 1 .. Len(names) : names[i] \in N
  BY <1>1 DEF ToSet
<1>3. \A n \in N : \E i \in 1 .. Len(names) : names[i] = n
  BY <1>1 DEF ToSet
<1>4. QED
  BY <1>2, <1>3 DEF EntriesFor

\* Entries without a name of the source.
LEMMA EntriesUnnamed ==
  ASSUME NEW t, IsSequence(t), \A i \in 1 .. Len(t) : RightEntry(t[i]) /\ t[i].name \notin Names
  PROVE  EntriesFor(t, {})
BY DEF EntriesFor

\* All elements of the lists are in the joined one, and no others.
LEMMA FlattenHas ==
  ASSUME NEW S, NEW ss \in Seq(Seq(S))
  PROVE  /\ FlattenSeq(ss) \in Seq(S)
         /\ ToSet(FlattenSeq(ss)) = UNION { ToSet(ss[i]) : i \in 1 .. Len(ss) }
<1>1. PICK flat \in Seq(S) : flat = FlattenSeq(ss)
  BY FlattenIs
<1>2. PICK at : Flattens(at, flat, ss, Len(ss))
  BY <1>1, FlattenIs
<1>3. DOMAIN flat = 1 .. Len(flat) /\ \A i \in 1 .. Len(ss) : ss[i] \in Seq(S)
  OBVIOUS
<1>4. ASSUME NEW e \in ToSet(flat)
      PROVE  \E i \in 1 .. Len(ss) : e \in ToSet(ss[i])
  <2>1. PICK m \in 1 .. Len(flat) : flat[m] = e
    BY <1>3 DEF ToSet
  <2>2. PICK i \in 1 .. Len(ss) : \E k \in 1 .. Len(ss[i]) : m = at[i] + k
    BY <1>2 DEF Flattens
  <2>3. PICK k \in 1 .. Len(ss[i]) : m = at[i] + k
    BY <2>2
  <2>4. flat[m] = ss[i][k]
    BY <1>2, <2>3 DEF Flattens
  <2>5. k \in DOMAIN ss[i]
    BY <1>3, <2>2
  <2>6. QED
    BY <2>1, <2>4, <2>5 DEF ToSet
<1>5. ASSUME NEW i \in 1 .. Len(ss), NEW e \in ToSet(ss[i])
      PROVE  e \in ToSet(flat)
  <2>1. PICK k \in 1 .. Len(ss[i]) : e = ss[i][k]
    BY <1>3 DEF ToSet
  <2>2. at[i] + k \in 1 .. Len(flat) /\ flat[at[i] + k] = e
    BY <1>2, <2>1 DEF Flattens
  <2>3. QED
    BY <1>3, <2>2 DEF ToSet
<1>6. QED
  BY <1>1, <1>4, <1>5

\* What is known of the relocations of section i.
LEMMA SectionRelocs ==
  ASSUME NEW rs, IsSequence(rs), NEW i
  PROVE  /\ IsSequence(InSectionOf(rs, i))
         /\ InSectionOf(rs, i) \in Seq(ToSet(rs))
         /\ ToSet(InSectionOf(rs, i)) = { r \in ToSet(rs) : r.section = i }
<1>1. rs \in Seq(ToSet(rs))
  BY DEF IsSequence
<1>2. PICK T : T = { r \in ToSet(rs) : r.section = i }
  OBVIOUS
<1>3. Those(rs, T) \in Seq(ToSet(rs)) /\ ToSet(Those(rs, T)) = ToSet(rs) \intersect T
  BY <1>1, ThoseContains
<1>4. InSectionOf(rs, i) = Those(rs, T)
  BY <1>2 DEF InSectionOf
<1>5. IsSequence(Those(rs, T))
  BY <1>3, ListIsSequence
<1>6. QED
  BY <1>2, <1>3, <1>4, <1>5

\* The names that a list of relocations uses, each once.
LEMMA NamesUsedKnown ==
  ASSUME NEW s, IsSequence(s)
  PROVE  /\ IsSequence(NamesUsed(s))
         /\ ToSet(NamesUsed(s)) = { r.target.name : r \in ToSet(s) }
         /\ \A i, j \in 1 .. Len(NamesUsed(s)) : NamesUsed(s)[i] = NamesUsed(s)[j] => i = j
<1>1. s \in Seq(ToSet(s)) /\ DOMAIN s = 1 .. Len(s) /\ Len(s) \in Nat
  BY DEF IsSequence
<1>2. PICK t : t = [i \in 1 .. Len(s) |-> s[i].target.name]
  OBVIOUS
<1>3. PICK N : N = { r.target.name : r \in ToSet(s) }
  OBVIOUS
<1>4. t \in Seq(N) /\ DOMAIN t = 1 .. Len(s)
  <2>1. \A i \in 1 .. Len(s) : s[i] \in ToSet(s)
    BY <1>1 DEF ToSet
  <2>2. \A i \in 1 .. Len(s) : t[i] \in N
    BY <1>2, <1>3, <2>1
  <2>3. QED
    BY <1>1, <1>2, <2>2
<1>5. ToSet(t) = N
  BY <1>1, <1>2, <1>3, <1>4 DEF ToSet
<1>6. /\ Distinct(t) \in Seq(N) /\ ToSet(Distinct(t)) = ToSet(t)
      /\ \A i, j \in 1 .. Len(Distinct(t)) : Distinct(t)[i] = Distinct(t)[j] => i = j
  BY <1>4, DistinctIs
<1>7. NamesUsed(s) = Distinct(t)
  BY <1>1, <1>2 DEF NamesUsed
<1>8. IsSequence(Distinct(t))
  BY <1>6, ListIsSequence
<1>9. QED
  BY <1>3, <1>5, <1>6, <1>7, <1>8

\* Everything is resolved, and the object is to be made.
Ready == Assembled /\ NamesInv /\ phase = "finish"

\* What the relocations are when they are numbered.
LEMMA RelocationsKnown ==
  ASSUME Ready
  PROVE  /\ IsSequence(relocs)
         /\ \A r \in ToSet(relocs) :
               IsReloc(r) /\ r.offset \in Int /\ r.section \in 1 .. Len(layout.sections)
         /\ Relocated \subseteq Names
<1>1. IsSequence(relocs) /\ resolved \in 0 .. Len(fixups) /\ resolved = Len(fixups)
  BY DEF Ready, Assembled, FixupsInv
<1>2. Resolving
  BY DEF Ready, Assembled, Resolving, AnswersInv
<1>3. ASSUME NEW r \in ToSet(relocs)
      PROVE  IsReloc(r) /\ r.offset \in Int /\ r.section \in 1 .. Len(layout.sections)
  <2>1. PICK i \in 1 .. Len(relocs) : r = relocs[i]
    BY <1>1 DEF IsSequence, ToSet
  <2>2. IsReloc(r) /\ AtDone(r)
    BY <2>1 DEF Ready, Assembled, AnswersInv
  <2>3. PICK k \in 1 .. resolved : r.section = fixups[k].section /\ r.offset = fixups[k].offset
    BY <2>2 DEF AtDone, SamePlace
  <2>4. k \in 1 .. Len(fixups)
    BY <1>1
  <2>5. fixups[k].section \in 1 .. Len(Final.sections) /\ fixups[k].offset \in Int
    <3>1. PICK fix : fix = fixups[k]
      OBVIOUS
    <3>2. fix.section \in 1 .. Len(Final.sections) /\ fix.offset \in Int
      BY <1>2, <2>4, <3>1, FixupKnown
    <3>3. QED
      BY <3>1, <3>2
  <2>6. Len(Final.sections) <= Len(layout.sections)
    BY <1>2 DEF Resolving
  <2>7. Len(layout.sections) \in Nat
    BY DEF Ready, Assembled, Inv, TypeOK, Layouts
  <2>8. Len(Final.sections) \in Nat
    <3>1. trail \in Seq(Layouts) /\ Len(trail) = Len(prog) + 1 /\ Len(prog) \in Nat
      BY DEF Ready, Assembled, Inv, TypeOK, PhaseInv
    <3>2. Final \in Layouts
      BY <3>1 DEF Final
    <3>3. QED
      BY <3>2 DEF Layouts
  <2>9. QED
    BY <2>2, <2>3, <2>5, <2>6, <2>7, <2>8
<1>4. Relocated \subseteq Names
  <2>1. ASSUME NEW r \in ToSet(relocs), r.target.kind = "symbol"
        PROVE  r.target.name \in Names
    <3>1. (\E n \in Names : r.target = Symbol(n)) \/ \E v \in Int : r.target = Raw(v)
      BY <1>3 DEF IsReloc
    <3>2. CASE \E n \in Names : r.target = Symbol(n)
      BY <3>2 DEF Symbol
    <3>3. ASSUME NEW v \in Int, r.target = Raw(v)
          PROVE  FALSE
      <4>1. Raw(v).kind = "raw"
        BY DEF Raw
      <4>2. QED
        BY <2>1, <3>3, <4>1
    <3>4. QED
      BY <3>1, <3>2, <3>3
  <2>2. QED
    BY <2>1 DEF Relocated
<1>5. QED
  BY <1>1, <1>3, <1>4

\* The names that relocations use, in the order of the sections.
LEMMA UsedNamesKnown ==
  ASSUME Ready
  PROVE  /\ IsSequence(UsedNames)
         /\ ToSet(UsedNames) = Relocated
         /\ \A i, j \in 1 .. Len(UsedNames) : UsedNames[i] = UsedNames[j] => i = j
<1>1. /\ IsSequence(relocs)
      /\ \A r \in ToSet(relocs) : r.section \in 1 .. Len(layout.sections)
  BY RelocationsKnown
<1>2. DOMAIN layout.sections = 1 .. Len(layout.sections) /\ Len(layout.sections) \in Nat
  BY DEF Ready, Assembled, Inv, TypeOK, Layouts
<1>3. PICK ss : ss = [i \in 1 .. Len(layout.sections) |-> InSectionOf(relocs, i)]
  OBVIOUS
<1>4. /\ ss \in Seq(Seq(ToSet(relocs))) /\ Len(ss) = Len(layout.sections)
      /\ \A i \in 1 .. Len(layout.sections) : ss[i] = InSectionOf(relocs, i)
  <2>1. \A i \in 1 .. Len(layout.sections) : InSectionOf(relocs, i) \in Seq(ToSet(relocs))
    BY <1>1, SectionRelocs
  <2>2. QED
    BY <1>2, <1>3, <2>1
<1>5. AllRelocs = FlattenSeq(ss)
  BY <1>2, <1>3 DEF AllRelocs
<1>6. /\ AllRelocs \in Seq(ToSet(relocs))
      /\ ToSet(AllRelocs) = UNION { ToSet(ss[i]) : i \in 1 .. Len(ss) }
  BY <1>4, <1>5, FlattenHas
<1>7. ToSet(AllRelocs) = ToSet(relocs)
  <2>1. \A i \in 1 .. Len(ss) : ToSet(ss[i]) = { r \in ToSet(relocs) : r.section = i }
    BY <1>1, <1>4, SectionRelocs
  <2>2. ASSUME NEW r \in ToSet(relocs)
        PROVE  r \in ToSet(AllRelocs)
    <3>1. PICK i \in 1 .. Len(ss) : r.section = i
      BY <1>1, <1>4
    <3>2. r \in ToSet(ss[i])
      BY <2>1, <3>1
    <3>3. QED
      BY <1>6, <3>2
  <2>3. QED
    BY <1>6, <2>1, <2>2
<1>8. PICK T : T = NamedBy(ToSet(relocs))
  OBVIOUS
<1>9. PICK named : named = Those(AllRelocs, T)
  OBVIOUS
<1>10. named \in Seq(ToSet(relocs)) /\ ToSet(named) = ToSet(AllRelocs) \intersect T
  BY <1>6, <1>9, ThoseContains
<1>11. IsSequence(named)
  BY <1>10, ListIsSequence
<1>12. UsedNames = NamesUsed(named)
  BY <1>8, <1>9 DEF UsedNames
<1>13. Relocated = { r.target.name : r \in ToSet(named) }
  BY <1>7, <1>8, <1>10 DEF Relocated, NamedBy
<1>14. QED
  BY <1>11, <1>12, <1>13, NamesUsedKnown

\* Names in byte order.
LEMMA InOrderKnown ==
  ASSUME NEW N \in SUBSET Names
  PROVE  /\ IsSequence(InOrder(N))
         /\ ToSet(InOrder(N)) = N
         /\ \A i, j \in 1 .. Len(InOrder(N)) : InOrder(N)[i] = InOrder(N)[j] => i = j
<1>1. /\ Alphabet \in Seq(STRING) /\ DOMAIN Alphabet = 1 .. Len(Alphabet)
      /\ \A i, j \in DOMAIN Alphabet : Alphabet[i] = Alphabet[j] => i = j
      /\ Names \subseteq ToSet(Alphabet)
  <2>1. /\ Alphabet \in Seq(STRING)
        /\ \A i, j \in DOMAIN Alphabet : Alphabet[i] = Alphabet[j] => i = j
        /\ ToSet(Alphabet) = ToSet(TempNames) \union Names
    BY AlphabetAssumption, Zenon
  <2>2. DOMAIN Alphabet = 1 .. Len(Alphabet)
    BY <2>1
  <2>3. QED
    BY <2>1, <2>2
<1>2. /\ Those(Alphabet, N) \in Seq(STRING)
      /\ ToSet(Those(Alphabet, N)) = ToSet(Alphabet) \intersect N
      /\ \A i, j \in 1 .. Len(Those(Alphabet, N)) :
            Those(Alphabet, N)[i] = Those(Alphabet, N)[j] => i = j
  BY <1>1, ThoseContains
<1>3. IsSequence(Those(Alphabet, N))
  BY <1>2, ListIsSequence
<1>4. QED
  BY <1>1, <1>2, <1>3 DEF InOrder

\* A name has a place in a section, a value, or neither.
LEMMA PlacesKnown ==
  ASSUME Ready, NEW n \in Names
  PROVE  /\ labels[n] = Undefined \/ IsPlaced([place |-> labels[n]])
         /\ absolutes[n] = Undefined \/ absolutes[n].kind = "absolute"
<1>1. Lies(labels[n])
  BY LabelsLie DEF Ready, Assembled
<1>2. absolutes = ValuesAfter(Len(assigns))
  BY DEF Ready, Assembled, SetsInv
<1>3. absolutes[n] = Undefined \/ absolutes[n].kind = "absolute"
  BY <1>2 DEF ValuesAfter, Absolute
<1>4. labels[n] = Undefined \/ labels[n].kind = "defined"
  BY <1>1 DEF Lies, Place
<1>5. QED
  BY <1>3, <1>4 DEF IsPlaced

-----------------------------------------------------------------------------
(* The entries that finish makes. *)

\* The names the object is to have, when its relocations use the names R.
Wanted(R) ==
    { n \in Names : IF AsLabel(n) THEN ~IsKept(n)
                    ELSE \/ absolutes[n] # Undefined \/ n \in commons \/ n \in R
                         \/ Declared(n) /\ ~(format = "elf" /\ n \in DotNames) }

\* A list with different elements in a finite set is no longer than that.
LEMMA DifferentElements ==
  ASSUME NEW S, IsFiniteSet(S), NEW n \in Nat, NEW f \in [1 .. n -> S],
         \A i, j \in 1 .. n : f[i] = f[j] => i = j
  PROVE  n <= Cardinality(S)
<1>1. IsFiniteSet(1 .. n) /\ Cardinality(1 .. n) = n
  BY FS_Interval
<1>2. f \in Injection(1 .. n, S)
  BY DEF Injection, IsInjective
<1>3. Cardinality(1 .. n) <= Cardinality(S)
  BY <1>2, FS_Injection
<1>4. QED
  BY <1>1, <1>3

\* finish adds one unwind section or two, or none.
LEMMA AtMostTwo ==
  ASSUME NEW a, NEW b, NEW x, NEW y
  PROVE  Len(OneIf(a, x) \o OneIf(b, y)) <= 2
<1>1. PICK S : S = {x, y}
  OBVIOUS
<1>2. PICK none, one, other : none = <<>> /\ one = <<x>> /\ other = <<y>>
  OBVIOUS
<1>3. none \in Seq(S) /\ Len(none) \in 0 .. 1
  BY <1>2, EmptySeq
<1>4. one \in Seq(S) /\ Len(one) \in 0 .. 1
  BY <1>1, <1>2
<1>5. other \in Seq(S) /\ Len(other) \in 0 .. 1
  BY <1>1, <1>2
<1>6. ASSUME NEW p \in {none, one}, NEW q \in {none, other}
      PROVE  Len(p \o q) <= 2
  <2>1. p \in Seq(S) /\ Len(p) \in 0 .. 1
    BY <1>3, <1>4, Zenon
  <2>2. q \in Seq(S) /\ Len(q) \in 0 .. 1
    BY <1>3, <1>5, Zenon
  <2>3. Len(p \o q) = Len(p) + Len(q)
    BY <2>1, <2>2, ConcatProperties
  <2>4. \A i, j \in 0 .. 1 : i + j <= 2
    OBVIOUS
  <2>5. QED
    BY <2>1, <2>2, <2>3, <2>4, Zenon
<1>7. OneIf(a, x) \in {none, one} /\ OneIf(b, y) \in {none, other}
  BY <1>2, Zenon DEF OneIf
<1>8. QED
  BY <1>6, <1>7, Zenon

\* The sections that Mach-O objects have.
LEMMA TableKnown ==
  ASSUME Ready
  PROVE  /\ Table \in Seq(Section) /\ DOMAIN Table = 1 .. Len(Table) /\ Len(Table) \in Nat
         /\ DOMAIN layout.sections = 1 .. Len(layout.sections) /\ Len(layout.sections) \in Nat
         /\ Len(layout.sections) <= Len(Table)
         /\ \A i \in 1 .. Len(layout.sections) : Table[i] = layout.sections[i]
         /\ Len(Table) <= Cardinality(SectionNames) + 2
<1> DEFINE u == WrittenUnwind(Len(rows), frames)
<1>1. layout.sections \in Seq(Section) /\ rows \in Seq(Row) /\ frames \in [count : Nat, bytes : Nat]
      /\ trail \in Seq(Layouts) /\ Len(trail) = Len(prog) + 1 /\ Len(prog) \in Nat
  BY DEF Ready, Assembled, Inv, TypeOK, PhaseInv, Layouts
<1>2. u \in Seq(Section) /\ Len(u) \in Nat /\ Len(u) <= 2
  <2>1. Len(rows) \in Nat
    BY <1>1
  <2>2. u \in Seq(Section) /\ Len(u) = Len(ReservedUnwind(Len(rows), frames))
    BY <1>1, <2>1, UnwindLemma
  <2>4. Len(u) <= 2
    BY AtMostTwo DEF WrittenUnwind
  <2>5. QED
    BY <2>2, <2>4
<1> HIDE DEF u
<1>3. Len(layout.sections) <= Cardinality(SectionNames)
  <2>1. Agree(layout, Final, Final) /\ Unique(Final.sections) /\ Final \in Layouts
    <3>1. Len(prog) + 1 \in 1 .. Len(trail)
      BY <1>1
    <3>2. QED
      BY <1>1, <3>1 DEF Ready, Assembled, Inv, PhaseInv, TrailInv, Final
  <2>2. \A i, j \in 1 .. Len(layout.sections) :
           layout.sections[i].name = layout.sections[j].name => i = j
    BY <2>1 DEF Agree, Unique
  <2>3. PICK f : f = [i \in 1 .. Len(layout.sections) |-> layout.sections[i].name]
    OBVIOUS
  <2>4. f \in [1 .. Len(layout.sections) -> SectionNames] /\ Len(layout.sections) \in Nat
    <3>1. layout.sections \in Seq(Section)
      BY <1>1
    <3>2. \A i \in 1 .. Len(layout.sections) : layout.sections[i] \in Section
      BY <3>1
    <3>3. \A s \in Section : s.name \in SectionNames
      BY DEF Section
    <3>4. Len(layout.sections) \in Nat
      BY <3>1
    <3>5. QED
      BY <2>3, <3>2, <3>3, <3>4
  <2>5. \A i, j \in 1 .. Len(layout.sections) : f[i] = f[j] => i = j
    BY <2>2, <2>3
  <2>6. IsFiniteSet(SectionNames)
    BY AlphabetAssumption, Zenon
  <2>7. QED
    BY <2>4, <2>5, <2>6, DifferentElements
<1>4. Cardinality(SectionNames) \in Nat
  <2>1. IsFiniteSet(SectionNames)
    BY AlphabetAssumption, Zenon
  <2>2. QED
    BY <2>1, FS_CardinalityType
<1>5. PICK t : t = layout.sections \o u
  OBVIOUS
<1>6. /\ t \in Seq(Section) /\ Len(t) = Len(layout.sections) + Len(u)
      /\ \A i \in 1 .. Len(layout.sections) : t[i] = layout.sections[i]
  <2>1. Len(layout.sections) \in Nat
    BY <1>1
  <2>2. QED
    BY <1>1, <1>2, <1>5, <2>1, ConcatProperties
<1>7. Table = t \/ Table = layout.sections
  BY <1>5 DEF Table, u
<1>8. QED
  BY <1>1, <1>2, <1>3, <1>4, <1>6, <1>7

\* No section's temporary has a name of the source.
LEMMA TempsApart ==
  ASSUME Ready, NEW i \in DOMAIN Table
  PROVE  Temp(i) \in ToSet(TempNames) /\ Temp(i) \notin Names
<1>1. i \in 1 .. Len(Table) /\ Len(Table) \in Nat /\ Len(Table) <= Cardinality(SectionNames) + 2
  BY TableKnown
<1>2. /\ TempNames \in Seq(STRING) /\ IsFiniteSet(SectionNames)
      /\ Len(TempNames) >= Cardinality(SectionNames) + 2
      /\ Names \intersect (ToSet(TempNames) \union {"", "$x", "$d"}) = {}
  BY AlphabetAssumption, Zenon
<1>3. Cardinality(SectionNames) \in Nat
  BY <1>2, FS_CardinalityType
<1>4. Len(TempNames) \in Nat /\ DOMAIN TempNames = 1 .. Len(TempNames)
  <2>1. PICK S : S = STRING
    OBVIOUS
  <2>2. TempNames \in Seq(S)
    BY <1>2, <2>1
  <2>3. QED
    BY <2>2
<1>5. i \in DOMAIN TempNames
  <2>1. i \in 1 .. Len(Table) /\ Len(Table) \in Nat
        /\ Len(Table) <= Cardinality(SectionNames) + 2
        /\ Len(TempNames) >= Cardinality(SectionNames) + 2
    BY <1>1, <1>2, Zenon
  <2>2. PICK c \in Nat : c = Cardinality(SectionNames)
    BY <1>3
  <2>3. QED
    BY <1>4, <2>1, <2>2
<1>6. QED
  BY <1>2, <1>5 DEF Temp, ToSet

\* Entries of names, as finish makes them.
LEMMA MachOEntriesOf ==
  ASSUME Ready, format = "macho", NEW N \in SUBSET Names, NEW names, IsSequence(names),
         ToSet(names) = N, \A i, j \in 1 .. Len(names) : names[i] = names[j] => i = j
  PROVE  EntriesFor(Entries(names, MachOBind), N)
<1>1. DOMAIN names = 1 .. Len(names) /\ Len(names) \in Nat
  BY DEF IsSequence
<1>2. PICK t : t = [i \in 1 .. Len(names) |->
                       Entry(names[i], PlaceOf(names[i]), MachOBind(names[i]))]
  OBVIOUS
<1>3. Entries(names, MachOBind) = t
  BY <1>1, <1>2 DEF Entries
<1>4. t \in Seq({ t[i] : i \in 1 .. Len(names) }) /\ Len(t) = Len(names)
  BY <1>1, <1>2
<1>5. IsSequence(t)
  BY <1>4, ListIsSequence
<1>6. ASSUME NEW n \in Names, NEW e, e = Entry(n, PlaceOf(n), MachOBind(n))
      PROVE  e.name = n /\ RightEntry(e)
  <2>1. e.name = n /\ e.place = PlaceOf(n) /\ e.bind = MachOBind(n)
    BY <1>6 DEF Entry
  <2>2. PlaceOf(n) = PlaceWritten(n)
    BY DEF PlaceOf, PlaceWritten, AsLabel
  <2>3. MachOBind(n) = IF PlaceOf(n).kind \in {"undefined", "common"} \/ n \in attrs.global
                       THEN "global" ELSE "local"
    BY DEF MachOBind, IsUndefined, Entry
  <2>4. QED
    BY <2>1, <2>2, <2>3 DEF RightEntry, BoundLocally
<1>7. \A i \in 1 .. Len(names) : names[i] \in Names
  BY <1>1 DEF ToSet
<1>8. \A i \in 1 .. Len(names) : t[i].name = names[i] /\ RightEntry(t[i])
  BY <1>2, <1>6, <1>7
<1>9. EntriesFor(t, N)
  BY <1>4, <1>5, <1>8, EntriesMade
<1>10. QED
  BY <1>3, <1>9

\* The entries of the sections.
LEMMA MachOTemps ==
  ASSUME Ready, format = "macho"
  PROVE  EntriesFor([i \in DOMAIN Table |-> Entry(Temp(i), Place(i, 0), "local")], {})
<1>1. DOMAIN Table = 1 .. Len(Table) /\ Len(Table) \in Nat
  BY TableKnown
<1>2. PICK t : t = [i \in 1 .. Len(Table) |-> Entry(Temp(i), Place(i, 0), "local")]
  OBVIOUS
<1>3. t \in Seq({ t[i] : i \in 1 .. Len(Table) }) /\ Len(t) = Len(Table)
  BY <1>1, <1>2
<1>4. IsSequence(t)
  BY <1>3, ListIsSequence
<1>5. \A i \in 1 .. Len(t) : RightEntry(t[i]) /\ t[i].name \notin Names
  BY <1>1, <1>2, <1>3, TempsApart DEF RightEntry, Entry, Place, IsPlaced
<1>6. EntriesFor(t, {})
  BY <1>4, <1>5, EntriesUnnamed
<1>7. QED
  BY <1>1, <1>2, <1>6

\* finish: every name once, as it is defined.
LEMMA MachOEntriesFit ==
  ASSUME Ready, format = "macho", Finish
  PROVE  EntriesFor(MachOEntries, Wanted(Relocated))
<1>1. /\ \A n \in Names : labels[n] # Undefined => absolutes[n] = Undefined
      /\ \A n \in commons : labels[n] = Undefined /\ absolutes[n] = Undefined
  BY DEF Finish
<1>2. commons \subseteq Names /\ attrs.global \subseteq Names /\ attrs.weak \subseteq Names
  BY DEF Ready, NamesInv
<1> DEFINE plain  == Defined \ (Attributed \union HiddenNames)
           known  == plain \union Absolutely \union commons \union Attributed
           missing == Names \ (known \union Defined)
           unseen == Those(UsedNames, missing)
           late   == Relocated \intersect missing
           t0 == [i \in DOMAIN Table |-> Entry(Temp(i), Place(i, 0), "local")]
           t1 == Entries(InOrder(plain), MachOBind)
           t2 == Entries(InOrder(Absolutely \ Attributed), MachOBind)
           t3 == Entries(InOrder(commons), MachOBind)
           t4 == Entries(InOrder(Attributed \ commons), MachOBind)
           t5 == Entries(unseen, MachOBind)
<1>3. MachOEntries = ((((t0 \o t1) \o t2) \o t3) \o t4) \o t5
  BY DEF MachOEntries
<1>4. plain \subseteq Names /\ Absolutely \subseteq Names /\ Attributed \subseteq Names
  BY <1>2 DEF Defined, Absolutely, Attributed
<1>5. EntriesFor(t0, {})
  BY MachOTemps
<1>6. ASSUME NEW N \in SUBSET Names
      PROVE  EntriesFor(Entries(InOrder(N), MachOBind), N)
  BY InOrderKnown, MachOEntriesOf
<1>7. EntriesFor(t1, plain) /\ EntriesFor(t2, Absolutely \ Attributed) /\ EntriesFor(t3, commons)
      /\ EntriesFor(t4, Attributed \ commons)
  BY <1>2, <1>4, <1>6
<1>8. EntriesFor(t5, late)
  <2>1. /\ IsSequence(UsedNames)
        /\ ToSet(UsedNames) = Relocated
        /\ \A i, j \in 1 .. Len(UsedNames) : UsedNames[i] = UsedNames[j] => i = j
    BY UsedNamesKnown
  <2>2. UsedNames \in Seq(Relocated)
    BY <2>1 DEF IsSequence
  <2> HIDE DEF missing
  <2>3. /\ unseen \in Seq(Relocated)
        /\ ToSet(unseen) = late
        /\ \A i, j \in 1 .. Len(unseen) : unseen[i] = unseen[j] => i = j
    BY <2>1, <2>2, ThoseContains
  <2>4. IsSequence(unseen)
    BY <2>3, ListIsSequence
  <2>5. late \subseteq Names
    BY DEF missing
  <2> HIDE DEF unseen, late
  <2>6. QED
    BY <2>3, <2>4, <2>5, MachOEntriesOf
<1> DEFINE N2 == plain \union (Absolutely \ Attributed)
           N3 == N2 \union commons
           N4 == N3 \union (Attributed \ commons)
<1>9. /\ plain \intersect (Absolutely \ Attributed) = {}
      /\ N2 \intersect commons = {}
      /\ N3 \intersect (Attributed \ commons) = {}
      /\ N4 \intersect late = {}
  BY <1>1 DEF Defined, Absolutely
<1>10. N4 \union late = Wanted(Relocated)
  <2>1. Relocated \subseteq Names
    BY RelocationsKnown
  <2>2. ASSUME NEW n \in Names
        PROVE  n \in N4 \union late <=> n \in Wanted(Relocated)
    <3>1. AsLabel(n) <=> n \in Defined
      BY DEF AsLabel, Defined
    <3>2. Declared(n) <=> n \in Attributed
      BY DEF Declared, Attributed
    <3>3. IsKept(n) <=> n \in HiddenNames /\ n \notin Attributed
      BY <3>2 DEF IsKept
    <3>4. n \in Wanted(Relocated) <=>
             IF n \in Defined THEN ~ (n \in HiddenNames /\ n \notin Attributed)
             ELSE n \in Absolutely \/ n \in commons \/ n \in Relocated \/ n \in Attributed
      BY <3>1, <3>2, <3>3 DEF Wanted, Absolutely
    <3>5. n \in Defined => n \notin Absolutely /\ n \notin commons
      BY <1>1 DEF Defined, Absolutely
    <3>6. QED
      BY <3>4, <3>5
  <2>3. Wanted(Relocated) \subseteq Names
    BY DEF Wanted
  <2>4. N4 \union late \subseteq Names
    BY <1>2, <1>4
  <2>5. QED
    BY <2>2, <2>3, <2>4
<1> HIDE DEF t0, t1, t2, t3, t4, t5, plain, late
<1>11. EntriesFor(t0 \o t1, plain)
  <2>1. {} \intersect plain = {} /\ {} \union plain = plain
    OBVIOUS
  <2>2. EntriesFor(t0 \o t1, {} \union plain)
    BY <1>5, <1>7, <2>1, EntriesJoin
  <2>3. QED
    BY <2>1, <2>2
<1>12. EntriesFor((t0 \o t1) \o t2, N2)
  BY <1>7, <1>9, <1>11, EntriesJoin
<1> HIDE DEF N2
<1>13. EntriesFor(((t0 \o t1) \o t2) \o t3, N3)
  BY <1>7, <1>9, <1>12, EntriesJoin
<1> HIDE DEF N3
<1>14. EntriesFor((((t0 \o t1) \o t2) \o t3) \o t4, N4)
  BY <1>7, <1>9, <1>13, EntriesJoin
<1> HIDE DEF N4
<1>15. EntriesFor(((((t0 \o t1) \o t2) \o t3) \o t4) \o t5, N4 \union late)
  BY <1>8, <1>9, <1>14, EntriesJoin
<1>16. QED
  BY <1>3, <1>10, <1>15

-----------------------------------------------------------------------------
(* Mapping symbols. *)

Markings == [kind : {Code, Data}, offset : Int]
Mappings == [state : {Neither, Code, Data}, armed : Int, marks : Seq(Markings)]

\* What every section has of them.
MappingInv == mapping \in [SectionNames -> Mappings]

\* The offsets at which statements stand are numbers, and sections have names.
LEMMA StandsAt ==
  ASSUME Inv
  PROVE  Offset \in Nat /\ Current(layout).name \in SectionNames
<1>1. layout \in Layouts
  BY DEF Inv, TypeOK
<1>2. layout.section \in 1 .. Len(layout.sections) /\ layout.sections \in Seq(Section)
  BY <1>1 DEF Layouts
<1>3. Current(layout) \in Section
  BY <1>2 DEF Current
<1>4. QED
  BY <1>3 DEF Section, Offset

\* elf_mark_kind
LEMMA MarkTyped ==
  ASSUME NEW m \in Mappings, NEW s, NEW here \in Int
  PROVE  Mark(m, s, here) \in Mappings /\ Arm(m, s, here) \in Mappings
<1>1. KindOf(s) \in {Code, Data}
  BY DEF KindOf
<1>2. PICK mark : mark = [kind |-> KindOf(s), offset |-> IF m.armed = NotArmed THEN here ELSE m.armed]
  OBVIOUS
<1>3. mark \in Markings
  BY <1>1, <1>2 DEF Markings, Mappings
<1>4. PICK more : more = Append(m.marks, mark)
  OBVIOUS
<1>5. m.marks \in Seq(Markings)
  BY DEF Mappings
<1>6. more \in Seq(Markings)
  BY <1>3, <1>4, <1>5, AppendProperties
<1>7. Marked(m, s, here) = [m EXCEPT !.state = KindOf(s), !.marks = more]
  BY <1>2, <1>4 DEF Marked
<1>8. Marked(m, s, here) \in Mappings
  BY <1>1, <1>6, <1>7 DEF Mappings
<1>9. ASSUME NEW x \in Mappings
      PROVE  Disarmed(x) \in Mappings
  BY DEF Disarmed, Mappings, NotArmed
<1>10. Mark(m, s, here) \in Mappings
  BY <1>8, <1>9 DEF Mark
<1>11. Arm(m, s, here) \in Mappings
  BY DEF Arm, Mappings
<1>12. QED
  BY <1>10, <1>11

\* No section is marked before the second pass.
LEMMA UnmarkedTyped == Unmarked \in [SectionNames -> Mappings]
<1>1. <<>> \in Seq(Markings)
  BY EmptySeq
<1>2. PICK none : none = <<>>
  OBVIOUS
<1>3. [state |-> "neither", armed |-> -1, marks |-> none] \in Mappings
  BY <1>1, <1>2 DEF Mappings, Neither
<1>4. QED
  BY <1>2, <1>3 DEF Unmarked

\* Every step.
LEMMA MappingSteps ==
  ASSUME Inv, MappingInv, [ObjectsNext]_<<vars, objects>>
  PROVE  MappingInv'
<1>1. CASE ResetMarks
  BY <1>1, UnmarkedTyped DEF ResetMarks, MappingInv
<1>2. CASE EmitStatement
  <2>1. Offset \in Nat /\ Current(layout).name \in SectionNames
    BY StandsAt
  <2>2. PICK name, here, s : name = Current(layout).name /\ here = Offset /\ s = Stmt
    OBVIOUS
  <2>3. \/ mapping' = mapping
        \/ mapping' = [mapping EXCEPT ![name] = Mark(@, s, here)]
        \/ mapping' = [mapping EXCEPT ![name] = Arm(@, s, here)]
    BY <1>2, <2>2 DEF EmitStatement, MarkStatement
  <2>4. mapping \in [SectionNames -> Mappings]
    BY DEF MappingInv
  <2>5. name \in SectionNames /\ here \in Int
    BY <2>1, <2>2
  <2>6. mapping[name] \in Mappings
    BY <2>4, <2>5
  <2>7. Mark(mapping[name], s, here) \in Mappings /\ Arm(mapping[name], s, here) \in Mappings
    BY <2>5, <2>6, MarkTyped
  <2>8. QED
    BY <2>3, <2>4, <2>5, <2>7 DEF MappingInv
<1>3. CASE Measure \/ Elsewhere \/ FinishMachO \/ FinishElfObject \/ Write
           \/ UNCHANGED <<vars, objects>>
  BY <1>3 DEF Measure, Elsewhere, FinishMachO, FinishElfObject, Write, objects, MappingInv
<1>4. QED
  BY <1>1, <1>2, <1>3 DEF ObjectsNext

\* In every state.
LEMMA MappingHolds == ObjectsSpec => []MappingInv
<1>1. ObjectsInit => MappingInv
  BY UnmarkedTyped DEF ObjectsInit, MappingInv
<1>2. Assembled /\ MappingInv /\ [ObjectsNext]_<<vars, objects>> => MappingInv'
  BY MappingSteps DEF Assembled
<1>3. QED
  BY <1>1, <1>2, AssembledHolds, PTL DEF ObjectsSpec

-----------------------------------------------------------------------------
(* The entries that finish_elf makes. *)

\* The names of mapping symbols, and of sections, are not the source's.
LEMMA UnnamedApart == "" \notin Names /\ Code \notin Names /\ Data \notin Names
<1>1. Names \intersect (ToSet(TempNames) \union {"", "$x", "$d"}) = {}
  BY AlphabetAssumption, Zenon
<1>2. QED
  BY <1>1 DEF Code, Data

\* In ELF nothing is added to the sections.
LEMMA TableOfElf ==
  ASSUME Assembled, format = "elf"
  PROVE  /\ Table = layout.sections /\ layout.sections \in Seq(Section)
         /\ DOMAIN layout.sections = 1 .. Len(layout.sections) /\ Len(layout.sections) \in Nat
         /\ \A i \in 1 .. Len(layout.sections) : NameOfSection(i) \in SectionNames
<1>1. layout.sections \in Seq(Section)
  BY DEF Assembled, Inv, TypeOK, Layouts
<1>2. Table = layout.sections
  BY DEF Table
<1>3. \A i \in 1 .. Len(layout.sections) : layout.sections[i] \in Section
  BY <1>1
<1>4. QED
  BY <1>1, <1>2, <1>3 DEF NameOfSection, Section

\* The symbols of sections have no name.
LEMMA ElfSections ==
  ASSUME Assembled, format = "elf"
  PROVE  EntriesFor([i \in DOMAIN layout.sections |-> Entry("", Place(i, 0), "local")], {})
<1>1. DOMAIN layout.sections = 1 .. Len(layout.sections) /\ Len(layout.sections) \in Nat
  BY TableOfElf
<1>2. PICK empty : empty = ""
  OBVIOUS
<1>3. PICK n, t : /\ n \in Nat /\ n = Len(layout.sections)
                  /\ t = [i \in 1 .. n |-> Entry(empty, Place(i, 0), "local")]
  BY <1>1
<1>4. t \in Seq({ t[i] : i \in 1 .. n }) /\ Len(t) = n
  BY <1>3
<1>5. IsSequence(t)
  BY <1>4, ListIsSequence
<1>6. empty \notin Names
  BY <1>2, UnnamedApart, Zenon
<1>7. \A i \in 1 .. Len(t) : RightEntry(t[i]) /\ t[i].name \notin Names
  BY <1>3, <1>4, <1>6 DEF RightEntry, Entry, Place, IsPlaced
<1>8. EntriesFor(t, {})
  BY <1>5, <1>7, EntriesUnnamed
<1>9. t = [i \in DOMAIN layout.sections |-> Entry("", Place(i, 0), "local")]
  BY <1>1, <1>2, <1>3, Zenon
<1>10. QED
  BY <1>8, <1>9, Zenon

\* The entries that mapping symbols can have.
MarkEntries == { Entry(kind, Place(i, offset), "local") :
                    kind \in {Code, Data}, i \in 1 .. Len(layout.sections), offset \in Int }

\* The mapping symbols of a section.
LEMMA MarksAre ==
  ASSUME Assembled, format = "elf", MappingInv, NEW i \in 1 .. Len(layout.sections)
  PROVE  /\ mapping[NameOfSection(i)] \in Mappings
         /\ Marks(i) \in Seq(MarkEntries)
         /\ Len(Marks(i)) = Len(mapping[NameOfSection(i)].marks)
         /\ Len(Marks(i)) \in Nat
         /\ \A k \in 1 .. Len(Marks(i)) :
               LET mark == mapping[NameOfSection(i)].marks[k]
               IN  /\ mark \in Markings
                   /\ Marks(i)[k] = Entry(mark.kind, Place(i, mark.offset), "local")
<1>1. NameOfSection(i) \in SectionNames
  BY TableOfElf
<1>2. mapping[NameOfSection(i)] \in Mappings
  BY <1>1 DEF MappingInv
<1>3. PICK marks : marks = mapping[NameOfSection(i)].marks
  OBVIOUS
<1>4. marks \in Seq(Markings)
  BY <1>2, <1>3 DEF Mappings
<1>5. DOMAIN marks = 1 .. Len(marks) /\ Len(marks) \in Nat /\ \A k \in 1 .. Len(marks) : marks[k] \in Markings
  BY <1>4
<1>6. Marks(i) = [k \in 1 .. Len(marks) |-> Entry(marks[k].kind, Place(i, marks[k].offset), "local")]
  BY <1>3, <1>5 DEF Marks
<1>7. ASSUME NEW k \in 1 .. Len(marks)
      PROVE  Entry(marks[k].kind, Place(i, marks[k].offset), "local") \in MarkEntries
  <2>1. marks[k].kind \in {Code, Data} /\ marks[k].offset \in Int
    BY <1>5 DEF Markings
  <2>2. QED
    BY <2>1 DEF MarkEntries
<1>8. Marks(i) \in Seq(MarkEntries) /\ Len(Marks(i)) = Len(marks)
  BY <1>5, <1>6, <1>7
<1>9. QED
  BY <1>2, <1>3, <1>5, <1>6, <1>8

\* The lists of mapping symbols, and what is joined of them.
LEMMA ListsOfMarks ==
  ASSUME Assembled, format = "elf", MappingInv
  PROVE  [i \in DOMAIN layout.sections |-> Marks(i)] \in Seq(Seq(MarkEntries))
         /\ Len([i \in DOMAIN layout.sections |-> Marks(i)]) = Len(layout.sections)
<1>1. DOMAIN layout.sections = 1 .. Len(layout.sections) /\ Len(layout.sections) \in Nat
  BY TableOfElf
<1>2. \A i \in 1 .. Len(layout.sections) : Marks(i) \in Seq(MarkEntries)
  BY MarksAre
<1>3. QED
  BY <1>1, <1>2

\* Those of all sections: no name of the source is among them.
LEMMA ElfMarks ==
  ASSUME Assembled, format = "elf", MappingInv
  PROVE  EntriesFor(FlattenSeq([i \in DOMAIN layout.sections |-> Marks(i)]), {})
<1>1. PICK ss : ss = [i \in DOMAIN layout.sections |-> Marks(i)]
  OBVIOUS
<1>2. ss \in Seq(Seq(MarkEntries))
  BY <1>1, ListsOfMarks
<1>3. FlattenSeq(ss) \in Seq(MarkEntries)
  BY <1>2, FlattenHas
<1>4. IsSequence(FlattenSeq(ss))
  BY <1>3, ListIsSequence
<1>5. \A i \in 1 .. Len(FlattenSeq(ss)) : FlattenSeq(ss)[i] \in MarkEntries
  BY <1>3
<1>6. ASSUME NEW e \in MarkEntries
      PROVE  RightEntry(e) /\ e.name \notin Names
  <2>1. PICK kind \in {Code, Data}, i \in 1 .. Len(layout.sections), offset \in Int :
           e = Entry(kind, Place(i, offset), "local")
    BY DEF MarkEntries
  <2>2. e.name = kind /\ e.bind = "local" /\ e.place.kind = "defined"
    BY <2>1 DEF Entry, Place
  <2>3. e.name \notin Names
    BY <2>2, UnnamedApart
  <2>4. QED
    BY <2>2, <2>3 DEF RightEntry, IsPlaced
<1>7. QED
  BY <1>1, <1>4, <1>5, <1>6, EntriesUnnamed

\* Every entry has a name of the source.
EntriesOf(t, N) == EntriesFor(t, N) /\ \A i \in 1 .. Len(t) : t[i].name \in Names

\* The entries of u are right for N; those of b are first, and only those
\* behind them have names of the source.
EntriesAfter(b, u, N) ==
    /\ EntriesFor(u, N)
    /\ Len(b) \in Nat /\ Len(b) <= Len(u)
    /\ \A i \in 1 .. Len(b) : u[i] = b[i]
    /\ \A i \in 1 .. Len(u) : i > Len(b) => u[i].name \in Names

\* What follows the unnamed ones is counted from their end.
LEMMA EntriesFollow ==
  ASSUME NEW b, NEW u, NEW N, EntriesAfter(b, u, N), NEW t, NEW M, EntriesOf(t, M),
         N \intersect M = {}
  PROVE  EntriesAfter(b, u \o t, N \union M)
<1>1. PICK v : v = u \o t
  OBVIOUS
<1>2. EntriesFor(u, N) /\ EntriesFor(t, M)
  BY DEF EntriesAfter, EntriesOf
<1>3. EntriesFor(v, N \union M)
  BY <1>1, <1>2, EntriesJoin
<1>4. IsSequence(u) /\ IsSequence(t)
  BY <1>2 DEF EntriesFor
<1>5. /\ IsSequence(v) /\ Len(u) \in Nat /\ Len(t) \in Nat
      /\ DOMAIN v = 1 .. Len(u) + Len(t)
      /\ \A k \in 1 .. Len(u) : v[k] = u[k]
      /\ \A k \in 1 .. Len(t) : v[Len(u) + k] = t[k]
  BY <1>1, <1>4, SequencesJoin
<1>6. Len(v) = Len(u) + Len(t)
  BY <1>5 DEF IsSequence
<1>7. ASSUME NEW i \in 1 .. Len(v), i > Len(b)
      PROVE  v[i].name \in Names
  <2>1. CASE i \in 1 .. Len(u)
    BY <1>5, <1>7, <2>1 DEF EntriesAfter
  <2>2. CASE i \notin 1 .. Len(u)
    <3>1. i - Len(u) \in 1 .. Len(t) /\ i = Len(u) + (i - Len(u))
      BY <1>5, <1>6, <2>2
    <3>2. v[i] = t[i - Len(u)]
      BY <1>5, <3>1
    <3>3. QED
      BY <3>1, <3>2 DEF EntriesOf
  <2>3. QED
    BY <2>1, <2>2
<1>8. Len(b) \in Nat /\ Len(b) <= Len(v) /\ \A i \in 1 .. Len(b) : v[i] = b[i]
  BY <1>5, <1>6 DEF EntriesAfter
<1>9. EntriesAfter(b, v, N \union M)
  BY <1>3, <1>7, <1>8 DEF EntriesAfter
<1>10. QED
  BY <1>1, <1>9

\* Entries of names, as finish_elf makes them.
LEMMA ElfEntriesOf ==
  ASSUME NEW N \in SUBSET Names, NEW names, IsSequence(names), ToSet(names) = N,
         \A i, j \in 1 .. Len(names) : names[i] = names[j] => i = j,
         NEW t, t = [i \in DOMAIN names |-> t[i]],
         \A i \in DOMAIN names : t[i].name = names[i] /\ (names[i] \in N => RightEntry(t[i]))
  PROVE  EntriesOf(t, N)
<1>1. DOMAIN names = 1 .. Len(names) /\ Len(names) \in Nat
  BY DEF IsSequence
<1>2. PICK n \in Nat : n = Len(names)
  BY <1>1
<1>3. t = [i \in 1 .. n |-> t[i]]
  BY <1>1, <1>2
<1>4. t \in Seq({ t[i] : i \in 1 .. n }) /\ Len(t) = n
  BY <1>3
<1>5. IsSequence(t)
  BY <1>4, ListIsSequence
<1>6. \A i \in 1 .. Len(names) : names[i] \in N
  BY <1>1 DEF ToSet
<1>7. \A i \in 1 .. Len(names) : t[i].name = names[i] /\ RightEntry(t[i])
  BY <1>1, <1>6
<1>8. EntriesFor(t, N)
  BY <1>2, <1>4, <1>5, <1>7, EntriesMade
<1>9. QED
  BY <1>2, <1>4, <1>6, <1>7, <1>8 DEF EntriesOf

\* What the entry of a name must be, for names that are not defined here.
LEMMA RightForeign ==
  ASSUME format = "elf", NEW n \in Names, ~ AsLabel(n), absolutes[n] = Undefined,
         NEW e, e.name = n, e.bind \in {"global", "weak"},
         e.place = IF n \in commons THEN Common ELSE Undefined
  PROVE  RightEntry(e)
<1>1. PlaceWritten(n) = e.place
  BY DEF PlaceWritten
<1>2. PlaceWritten(n).kind \in {"undefined", "common"}
  BY <1>1 DEF Common, Undefined
<1>3. QED
  BY <1>1, <1>2 DEF RightEntry, BoundLocally

\* Order does not matter.
LEMMA PlacedEntries ==
  ASSUME NEW t, NEW N, EntriesOf(t, N)
  PROVE  EntriesOf(ByPlace(t), N) /\ \E p : Permutes(p, t, ByPlace(t))
<1>1. IsSequence(t) /\ EntriesFor(t, N) /\ \A i \in 1 .. Len(t) : t[i].name \in Names
  BY DEF EntriesOf, EntriesFor
<1>2. t \in Seq(ToSet(t))
  BY <1>1 DEF IsSequence
<1>3. PICK behind : behind = { p \in ToSet(t) \X ToSet(t) : Follows(p[1], p[2]) }
  OBVIOUS
<1>4. PICK key : key = [e \in ToSet(t) |-> 0]
  OBVIOUS
<1>5. key \in [ToSet(t) -> Int] /\ AgreesWith(behind, key, ToSet(t))
  BY <1>4 DEF AgreesWith
<1>6. /\ Sorted(t, behind) \in Seq(ToSet(t))
      /\ \E p : Arranged(p, Len(t), t, Sorted(t, behind), behind, key)
  BY <1>2, <1>5, SortedIs
<1>7. ByPlace(t) = Sorted(t, behind)
  BY <1>3 DEF ByPlace
<1>8. PICK p : Arranged(p, Len(t), t, Sorted(t, behind), behind, key)
  BY <1>6
<1>9. IsSequence(Sorted(t, behind))
  BY <1>6, ListIsSequence
<1>10. Permutes(p, t, Sorted(t, behind))
  BY <1>8, <1>9 DEF Arranged, Permutes
<1>11. EntriesFor(ByPlace(t), N)
  BY <1>1, <1>7, <1>10, EntriesPermuted
<1>12. \A i \in 1 .. Len(ByPlace(t)) : ByPlace(t)[i].name \in Names
  BY <1>1, <1>7, <1>10 DEF Permutes, Arranges
<1>13. QED
  BY <1>7, <1>10, <1>11, <1>12 DEF EntriesOf

\* The two parts of a list, in either order.
LEMMA EntriesParted ==
  ASSUME NEW t, NEW N, EntriesOf(t, N)
  PROVE  \E L, R : /\ L \intersect R = {} /\ L \union R = N
                   /\ EntriesOf(Locals(t), L) /\ EntriesOf(Others(t), R)
<1>1. PICK T, U : T = { e \in ToSet(t) : e.bind = "local" } /\ U = { e \in ToSet(t) : e.bind # "local" }
  OBVIOUS
<1>2. EntriesFor(t, N) /\ IsSequence(t) /\ \A i \in 1 .. Len(t) : t[i].name \in Names
  BY DEF EntriesOf, EntriesFor
<1>3. \A i \in 1 .. Len(t) : t[i] \in ToSet(t)
  BY <1>2 DEF ToSet, IsSequence
<1>4. Splits(t, T, U)
  BY <1>1, <1>3 DEF Splits
<1>5. PICK L, R : L = NamesWithin(t, T) \intersect Names /\ R = NamesWithin(t, U) \intersect Names
  OBVIOUS
<1>6. L \intersect R = {} /\ L \union R = N
  <2>1. /\ (NamesWithin(t, T) \intersect Names) \intersect (NamesWithin(t, U) \intersect Names) = {}
        /\ (NamesWithin(t, T) \intersect Names) \union (NamesWithin(t, U) \intersect Names) = N
    BY <1>2, <1>4, SelectionsApart
  <2>2. QED
    BY <1>5, <2>1
<1>7. EntriesFor(Those(t, T), L) /\ EntriesFor(Those(t, U), R)
  BY <1>2, <1>5, EntriesSelected
<1>8. ASSUME NEW V
      PROVE  \A i \in 1 .. Len(Those(t, V)) : Those(t, V)[i].name \in Names
  <2>1. t \in Seq(ToSet(t))
    BY <1>2 DEF IsSequence
  <2>2. PICK f : Selects(f, t, V)
    BY <2>1, ThoseEnumerates
  <2>3. QED
    BY <1>2, <2>2 DEF Selects, Enumerates
<1>9. EntriesOf(Those(t, T), L) /\ EntriesOf(Those(t, U), R)
  BY <1>7, <1>8 DEF EntriesOf
<1>10. Locals(t) = Those(t, T) /\ Others(t) = Those(t, U)
  BY <1>1 DEF Locals, Others
<1>11. QED
  BY <1>6, <1>9, <1>10

\* The names that the relocations of an ELF object use.
RelocatedLater == { r.target.name : r \in { x \in ToSet([i \in DOMAIN relocs |-> Rela(relocs[i])]) :
                                              x.target.kind = "symbol" } }

\* In ELF what is fixed is no longer named, but its section.
LEMMA RelocatedOfElf ==
  ASSUME Ready
  PROVE  RelocatedLater = { n \in Relocated : ~ IsFixed(n) }
<1>1. IsSequence(relocs) /\ \A r \in ToSet(relocs) : IsReloc(r)
  BY RelocationsKnown
<1>2. DOMAIN relocs = 1 .. Len(relocs)
  BY <1>1 DEF IsSequence
<1>3. ToSet([i \in DOMAIN relocs |-> Rela(relocs[i])]) = { Rela(r) : r \in ToSet(relocs) }
  BY DEF ToSet
<1>4. RelocatedLater = { r.target.name : r \in { x \in { Rela(q) : q \in ToSet(relocs) } : x.target.kind = "symbol" } }
  BY <1>3 DEF RelocatedLater
<1>5. ASSUME NEW n \in RelocatedLater
      PROVE  n \in Relocated /\ ~ IsFixed(n)
  <2>1. PICK q \in ToSet(relocs) : Rela(q).target.kind = "symbol" /\ n = Rela(q).target.name
    BY <1>4
  <2>2. IsReloc(q)
    BY <1>1
  <2>3. CASE IsFixed(q.target.name)
    <3>1. Rela(q) = [q EXCEPT !.target = SectionSymbol(labels[q.target.name].section),
                              !.addend = @ + labels[q.target.name].value]
      BY <2>3 DEF Rela
    <3>2. Rela(q).target = SectionSymbol(labels[q.target.name].section)
      BY <3>1 DEF IsReloc
    <3>3. QED
      BY <2>1, <3>2 DEF SectionSymbol
  <2>4. CASE ~ IsFixed(q.target.name)
    <3>1. Rela(q) = q
      BY <2>4 DEF Rela
    <3>2. QED
      BY <2>1, <2>4, <3>1 DEF Relocated
  <2>5. QED
    BY <2>3, <2>4
<1>6. ASSUME NEW n \in Relocated, ~ IsFixed(n)
      PROVE  n \in RelocatedLater
  <2>1. PICK q \in ToSet(relocs) : q.target.kind = "symbol" /\ n = q.target.name
    BY DEF Relocated
  <2>2. Rela(q) = q
    BY <1>6, <2>1 DEF Rela
  <2>3. QED
    BY <1>4, <2>1, <2>2
<1>7. QED
  BY <1>5, <1>6

\* finish_elf: every name once, as it is defined.
ElfUnnamed == [i \in DOMAIN layout.sections |-> Entry("", Place(i, 0), "local")]
                 \o FlattenSeq([i \in DOMAIN layout.sections |-> Marks(i)])

\* finish_elf: the names it wants, behind the unnamed ones.
LEMMA ElfEntriesFit ==
  ASSUME Ready, format = "elf", FinishElf, MappingInv
  PROVE  EntriesAfter(ElfUnnamed, ElfEntries, Wanted(RelocatedLater))
<1>1. /\ \A n \in commons \ DotNames : labels[n] = Undefined
      /\ \A n \in commons : absolutes[n] = Undefined
      /\ \A n \in Relocated : CanNameElf(n)
  BY DEF FinishElf
<1>2. commons \subseteq Names /\ attrs.global \subseteq Names /\ attrs.weak \subseteq Names
      /\ attrs.local \subseteq Names
  BY DEF Ready, NamesInv
<1> DEFINE seen     == Defined \ DotNames
           defined  == ByPlace(Entries(InOrder(seen), ElfBind))
           absolute == InOrder(Absolutely \ seen)
           values64 == [i \in DOMAIN absolute |->
                           Entry(absolute[i], absolutes[absolute[i]],
                                 IF Preemptible(absolute[i]) THEN "global" ELSE "local")]
           common   == InOrder(commons)
           named    == seen \union Absolutely \union commons
           declared == attrs.global \union attrs.weak
           Undef(names) == Entries(names, LAMBDA n : IF n \in attrs.weak THEN "weak" ELSE "global")
           firsts   == declared \ (named \union DotNames)
           seconds  == attrs.local \ (named \union declared \union DotNames)
           missing  == Names \ (named \union Defined \union declared \union attrs.local)
           late     == Relocated \intersect missing
           t1 == [i \in DOMAIN layout.sections |-> Entry("", Place(i, 0), "local")]
           t2 == FlattenSeq([i \in DOMAIN layout.sections |-> Marks(i)])
           t3 == Locals(defined)
           t4 == Locals(values64)
           t5 == Others(defined)
           t6 == Others(values64)
           t7 == [i \in DOMAIN common |-> Entry(common[i], Common, "global")]
           t8 == Undef(InOrder(firsts))
           t9 == Undef(InOrder(seconds))
           t10 == Undef(Those(UsedNames, missing))
<1>3. ElfEntries = ((((((((t1 \o t2) \o t3) \o t4) \o t5) \o t6) \o t7) \o t8) \o t9) \o t10
  BY DEF ElfEntries
<1>4. /\ seen \subseteq Names /\ Absolutely \subseteq Names /\ firsts \subseteq Names
      /\ seconds \subseteq Names /\ late \subseteq Names
  BY <1>2 DEF Defined, Absolutely
<1>5. EntriesFor(t1, {}) /\ EntriesFor(t2, {})
  BY ElfSections, ElfMarks DEF Ready
<1>6. EntriesOf(Entries(InOrder(seen), ElfBind), seen)
  <2>1. ASSUME NEW n \in seen, NEW e, e = Entry(n, PlaceOf(n), ElfBind(n))
        PROVE  RightEntry(e)
    <3>1. labels[n] # Undefined /\ n \in Names /\ n \notin DotNames
      BY <1>4 DEF Defined
    <3>2. AsLabel(n)
      BY <3>1 DEF AsLabel, IsKept
    <3>3. e.name = n /\ e.place = PlaceWritten(n) /\ e.bind = ElfBind(n)
      BY <2>1, <3>1, <3>2 DEF Entry, PlaceOf, PlaceWritten
    <3>4. PlaceWritten(n).kind \notin {"undefined", "common"}
      BY <3>1, <3>2, PlacesKnown DEF PlaceWritten, IsPlaced
    <3>5. QED
      BY <3>1, <3>3, <3>4 DEF RightEntry, BoundLocally, ElfBind
  <2> HIDE DEF seen
  <2>2. PICK names : names = InOrder(seen)
    OBVIOUS
  <2>3. /\ IsSequence(names) /\ ToSet(names) = seen
        /\ \A i, j \in 1 .. Len(names) : names[i] = names[j] => i = j
    BY <1>4, <2>2, InOrderKnown
  <2>4. PICK t : t = [i \in DOMAIN names |-> Entry(names[i], PlaceOf(names[i]), ElfBind(names[i]))]
    OBVIOUS
  <2>5. \A i \in DOMAIN names : t[i].name = names[i] /\ (names[i] \in seen => RightEntry(t[i]))
    BY <2>1, <2>4 DEF Entry
  <2>6. t = [i \in DOMAIN names |-> t[i]]
    BY <2>4
  <2>7. EntriesOf(t, seen)
    BY <1>4, <2>3, <2>5, <2>6, ElfEntriesOf
  <2>8. QED
    BY <2>2, <2>4, <2>7 DEF Entries
<1>7. EntriesOf(defined, seen)
  BY <1>6, PlacedEntries
<1>8. EntriesOf(values64, Absolutely \ seen)
  <2>1. ASSUME NEW n \in Absolutely \ seen, NEW e,
               e = Entry(n, absolutes[n], IF Preemptible(n) THEN "global" ELSE "local")
        PROVE  RightEntry(e)
    <3>1. n \in Names /\ absolutes[n] # Undefined /\ (labels[n] = Undefined \/ n \in DotNames)
      BY <1>4 DEF Defined, Absolutely
    <3>2. ~ AsLabel(n)
      BY <3>1 DEF AsLabel, IsKept
    <3>3. e.name = n /\ e.place = PlaceWritten(n) /\ e.bind = IF Preemptible(n) THEN "global" ELSE "local"
      BY <2>1, <3>1, <3>2 DEF Entry, PlaceWritten
    <3>4. PlaceWritten(n).kind = "absolute"
      BY <3>1, <3>2, PlacesKnown DEF PlaceWritten
    <3>5. QED
      BY <3>1, <3>3, <3>4 DEF RightEntry, BoundLocally
  <2>2. Absolutely \ seen \subseteq Names
    BY <1>4
  <2> HIDE DEF seen
  <2>3. /\ IsSequence(absolute) /\ ToSet(absolute) = Absolutely \ seen
        /\ \A i, j \in 1 .. Len(absolute) : absolute[i] = absolute[j] => i = j
    BY <2>2, InOrderKnown
  <2> HIDE DEF absolute
  <2>4. \A i \in DOMAIN absolute :
           values64[i].name = absolute[i] /\ (absolute[i] \in Absolutely \ seen => RightEntry(values64[i]))
    BY <2>1 DEF Entry
  <2>5. values64 = [i \in DOMAIN absolute |-> values64[i]]
    OBVIOUS
  <2> HIDE DEF values64
  <2>6. QED
    BY <2>2, <2>3, <2>4, <2>5, ElfEntriesOf
<1>9. EntriesOf(t7, commons)
  <2>1. ASSUME NEW n \in commons, NEW e, e = Entry(n, Common, "global")
        PROVE  RightEntry(e)
    <3>1. n \in Names /\ absolutes[n] = Undefined /\ (labels[n] = Undefined \/ n \in DotNames)
      BY <1>1, <1>2
    <3>2. ~ AsLabel(n)
      BY <3>1 DEF AsLabel, IsKept
    <3>3. QED
      BY <2>1, <3>1, <3>2, RightForeign DEF Entry
  <2>2. /\ IsSequence(common) /\ ToSet(common) = commons
        /\ \A i, j \in 1 .. Len(common) : common[i] = common[j] => i = j
    BY <1>2, InOrderKnown
  <2> HIDE DEF common
  <2>3. \A i \in DOMAIN common :
           t7[i].name = common[i] /\ (common[i] \in commons => RightEntry(t7[i]))
    BY <2>1 DEF Entry
  <2>4. t7 = [i \in DOMAIN common |-> t7[i]]
    OBVIOUS
  <2> HIDE DEF t7
  <2>5. QED
    BY <1>2, <2>2, <2>3, <2>4, ElfEntriesOf
<1>10. ASSUME NEW N \in SUBSET Names, \A n \in N : labels[n] = Undefined /\ n \notin Absolutely /\ n \notin commons,
              NEW names, IsSequence(names), ToSet(names) = N,
              \A i, j \in 1 .. Len(names) : names[i] = names[j] => i = j
       PROVE  EntriesOf(Undef(names), N)
  <2>1. ASSUME NEW n \in N, NEW e, e = Entry(n, PlaceOf(n), IF n \in attrs.weak THEN "weak" ELSE "global")
        PROVE  RightEntry(e)
    <3>1. n \in Names /\ absolutes[n] = Undefined /\ labels[n] = Undefined /\ n \notin commons
      BY <1>10 DEF Absolutely
    <3>2. ~ AsLabel(n)
      BY <3>1 DEF AsLabel
    <3>3. PlaceOf(n) = Undefined
      BY <3>1 DEF PlaceOf
    <3>4. QED
      BY <2>1, <3>1, <3>2, <3>3, RightForeign DEF Entry
  <2>2. PICK t : t = [i \in DOMAIN names |->
                        Entry(names[i], PlaceOf(names[i]), IF names[i] \in attrs.weak THEN "weak" ELSE "global")]
    OBVIOUS
  <2>3. \A i \in DOMAIN names : t[i].name = names[i] /\ (names[i] \in N => RightEntry(t[i]))
    BY <2>1, <2>2 DEF Entry
  <2>4. t = [i \in DOMAIN names |-> t[i]]
    BY <2>2
  <2>5. EntriesOf(t, N)
    BY <1>10, <2>3, <2>4, ElfEntriesOf
  <2>6. QED
    BY <2>2, <2>5 DEF Entries
<1>11. /\ \A n \in firsts : labels[n] = Undefined /\ n \notin Absolutely /\ n \notin commons
       /\ \A n \in seconds : labels[n] = Undefined /\ n \notin Absolutely /\ n \notin commons
       /\ \A n \in late : labels[n] = Undefined /\ n \notin Absolutely /\ n \notin commons
  BY <1>4 DEF Defined
<1>12. EntriesOf(t8, firsts) /\ EntriesOf(t9, seconds) /\ EntriesOf(t10, late)
  <2> HIDE DEF firsts, seconds, missing
  <2>1. EntriesOf(t8, firsts)
    BY <1>4, <1>10, <1>11, InOrderKnown
  <2>2. EntriesOf(t9, seconds)
    BY <1>4, <1>10, <1>11, InOrderKnown
  <2>3. EntriesOf(t10, late)
    <3>1. /\ IsSequence(UsedNames)
          /\ ToSet(UsedNames) = Relocated
          /\ \A i, j \in 1 .. Len(UsedNames) : UsedNames[i] = UsedNames[j] => i = j
      BY UsedNamesKnown
    <3>2. UsedNames \in Seq(Relocated)
      BY <3>1 DEF IsSequence
    <3>3. PICK unseen : unseen = Those(UsedNames, missing)
      OBVIOUS
    <3>4. /\ unseen \in Seq(Relocated)
          /\ ToSet(unseen) = late
          /\ \A i, j \in 1 .. Len(unseen) : unseen[i] = unseen[j] => i = j
      BY <3>1, <3>2, <3>3, ThoseContains
    <3>5. IsSequence(unseen)
      BY <3>4, ListIsSequence
    <3> HIDE DEF late
    <3>6. EntriesOf(Undef(unseen), late)
      BY <1>4, <1>10, <1>11, <3>4, <3>5
    <3>7. QED
      BY <3>3, <3>6
  <2>4. QED
    BY <2>1, <2>2, <2>3
<1>13. PICK L3, L5 : /\ L3 \intersect L5 = {} /\ L3 \union L5 = seen
                     /\ EntriesOf(t3, L3) /\ EntriesOf(t5, L5)
  BY <1>7, EntriesParted
<1>14. PICK L4, L6 : /\ L4 \intersect L6 = {} /\ L4 \union L6 = Absolutely \ seen
                     /\ EntriesOf(t4, L4) /\ EntriesOf(t6, L6)
  BY <1>8, EntriesParted
<1>15. /\ {} \intersect {} = {} /\ {} \intersect L3 = {} /\ L3 \intersect L4 = {}
       /\ (L3 \union L4) \intersect L5 = {}
       /\ ((L3 \union L4) \union L5) \intersect L6 = {}
       /\ (((L3 \union L4) \union L5) \union L6) \intersect commons = {}
       /\ ((((L3 \union L4) \union L5) \union L6) \union commons) \intersect firsts = {}
       /\ (((((L3 \union L4) \union L5) \union L6) \union commons) \union firsts) \intersect seconds = {}
       /\ ((((((L3 \union L4) \union L5) \union L6) \union commons) \union firsts) \union seconds) \intersect late = {}
  <2>1. L3 \union L5 = seen /\ L4 \union L6 = Absolutely \ seen
    BY <1>13, <1>14
  <2>2. seen \intersect commons = {} /\ Absolutely \intersect commons = {}
    BY <1>1 DEF Defined, Absolutely
  <2>3. L3 \intersect L5 = {} /\ L4 \intersect L6 = {}
    BY <1>13, <1>14
  <2>4. firsts \intersect (seen \union Absolutely \union commons) = {}
    OBVIOUS
  <2>5. seconds \intersect (seen \union Absolutely \union commons \union firsts) = {}
    OBVIOUS
  <2>6. late \intersect (seen \union Absolutely \union commons \union firsts \union seconds) = {}
    OBVIOUS
  <2> HIDE DEF seen, firsts, seconds, late
  <2>7. QED
    BY <2>1, <2>2, <2>3, <2>4, <2>5, <2>6
<1> HIDE DEF t1, t2, t3, t4, t5, t6, t7, t8, t9, t10
<1>16. EntriesAfter(t1 \o t2, (((((((t1 \o t2) \o t3) \o t4) \o t5) \o t6) \o t7) \o t8) \o t9 \o t10,
          ((((((L3 \union L4) \union L5) \union L6) \union commons) \union firsts) \union seconds) \union late)
  <2> HIDE DEF firsts, seconds, late
  <2>1. EntriesFor(t1 \o t2, {} \union {})
    BY <1>5, <1>15, EntriesJoin
  <2>2. EntriesFor(t1 \o t2, {})
    <3>1. {} \union {} = {}
      OBVIOUS
    <3>2. QED
      BY <2>1, <3>1, Zenon
  <2>a. EntriesAfter(t1 \o t2, t1 \o t2, {})
    <3>1. IsSequence(t1 \o t2)
      BY <2>2 DEF EntriesFor
    <3>2. Len(t1 \o t2) \in Nat
      BY <3>1 DEF IsSequence
    <3>3. QED
      BY <2>2, <3>2 DEF EntriesAfter
  <2>b. PICK b : b = t1 \o t2
    OBVIOUS
  <2>3. EntriesAfter(b, (t1 \o t2) \o t3, {} \union L3)
    BY <1>13, <1>15, <2>a, <2>b, EntriesFollow
  <2>4. {} \union L3 = L3
    OBVIOUS
  <2>5. PICK u3 : u3 = (t1 \o t2) \o t3
    OBVIOUS
  <2>6. EntriesAfter(b, u3, L3)
    BY <2>3, <2>4, <2>5, Zenon
  <2>7. PICK u4, n4 : u4 = u3 \o t4 /\ n4 = L3 \union L4
    OBVIOUS
  <2>8. EntriesAfter(b, u4, n4)
    BY <1>14, <1>15, <2>6, <2>7, EntriesFollow
  <2>9. PICK u5, n5 : u5 = u4 \o t5 /\ n5 = n4 \union L5
    OBVIOUS
  <2>10. EntriesAfter(b, u5, n5)
    BY <1>13, <1>15, <2>7, <2>8, <2>9, EntriesFollow
  <2>11. PICK u6, n6 : u6 = u5 \o t6 /\ n6 = n5 \union L6
    OBVIOUS
  <2>12. EntriesAfter(b, u6, n6)
    BY <1>14, <1>15, <2>7, <2>9, <2>10, <2>11, EntriesFollow
  <2>13. PICK u7, n7 : u7 = u6 \o t7 /\ n7 = n6 \union commons
    OBVIOUS
  <2>14. EntriesAfter(b, u7, n7)
    BY <1>9, <1>15, <2>7, <2>9, <2>11, <2>12, <2>13, EntriesFollow
  <2>15. PICK u8, n8 : u8 = u7 \o t8 /\ n8 = n7 \union firsts
    OBVIOUS
  <2>16. EntriesAfter(b, u8, n8)
    BY <1>12, <1>15, <2>7, <2>9, <2>11, <2>13, <2>14, <2>15, EntriesFollow
  <2>17. PICK u9, n9 : u9 = u8 \o t9 /\ n9 = n8 \union seconds
    OBVIOUS
  <2>18. EntriesAfter(b, u9, n9)
    BY <1>12, <1>15, <2>7, <2>9, <2>11, <2>13, <2>15, <2>16, <2>17, EntriesFollow
  <2>19. EntriesAfter(b, u9 \o t10, n9 \union late)
    BY <1>12, <1>15, <2>7, <2>9, <2>11, <2>13, <2>15, <2>17, <2>18, EntriesFollow
  <2>20. QED
    BY <2>b, <2>5, <2>7, <2>9, <2>11, <2>13, <2>15, <2>17, <2>19
<1>17. ((((((L3 \union L4) \union L5) \union L6) \union commons) \union firsts) \union seconds) \union late
         = Wanted(RelocatedLater)
  <2>1. ((((((L3 \union L4) \union L5) \union L6) \union commons) \union firsts) \union seconds) \union late
          = seen \union Absolutely \union commons \union firsts \union seconds \union late
    BY <1>13, <1>14
  <2>2. ASSUME NEW n \in Names
        PROVE  n \in seen \union Absolutely \union commons \union firsts \union seconds \union late
                 <=> n \in Wanted(RelocatedLater)
    <3>1. AsLabel(n) <=> n \in seen
      BY DEF AsLabel, IsKept, Defined
    <3>2. Declared(n) <=> n \in attrs.global \/ n \in attrs.weak \/ n \in attrs.local
      BY DEF Declared
    <3>3. n \in RelocatedLater <=> n \in Relocated /\ ~ IsFixed(n)
      BY RelocatedOfElf
    <3>4. n \in Wanted(RelocatedLater) <=>
             IF n \in seen THEN TRUE
             ELSE n \in Absolutely \/ n \in commons \/ n \in RelocatedLater
                  \/ (Declared(n) /\ n \notin DotNames)
      <4>1. IsKept(n) <=> n \in DotNames
        BY DEF IsKept
      <4>2. CASE n \in seen
        <5>1. AsLabel(n) /\ ~ IsKept(n)
          BY <3>1, <4>1, <4>2
        <5>2. QED
          BY <4>2, <5>1 DEF Wanted
      <4>3. CASE n \notin seen
        <5>1. ~ AsLabel(n)
          BY <3>1, <4>3
        <5>2. n \in Absolutely <=> absolutes[n] # Undefined
          BY DEF Absolutely
        <5> HIDE DEF seen
        <5>3. QED
          BY <4>3, <5>1, <5>2 DEF Wanted
      <4>4. QED
        BY <4>2, <4>3
    <3>5. CASE n \in seen
      BY <3>4, <3>5
    <3>6. CASE n \notin seen /\ n \in RelocatedLater /\ n \notin Absolutely /\ n \notin commons
      <4>1. CanNameElf(n) /\ ~ IsFixed(n) /\ n \in Relocated
        BY <1>1, <3>3, <3>6
      <4>2. labels[n] = Undefined
        BY <3>6, <4>1 DEF CanNameElf, Defined
      <4>3. n \in DotNames => n \in LocalNames
        BY PrefixAssumption
      <4>4. absolutes[n] = Undefined
        BY <3>6 DEF Absolutely
      <4>5. n \notin DotNames
        BY <3>6, <4>1, <4>2, <4>3, <4>4 DEF CanNameElf
      <4>6. n \notin Defined
        BY <4>2 DEF Defined
      <4>7. QED
        BY <3>4, <3>6, <4>1, <4>5, <4>6
    <3>7. CASE n \notin seen /\ ~ (n \in RelocatedLater /\ n \notin Absolutely /\ n \notin commons)
      <4>1. n \in late => n \in RelocatedLater /\ n \notin Absolutely /\ n \notin commons
        BY <3>3 DEF IsFixed, Defined
      <4>2. n \in firsts \/ n \in seconds <=>
               n \notin Absolutely /\ n \notin commons /\ Declared(n) /\ n \notin DotNames
        BY <3>2, <3>7
      <4>3. n \in Wanted(RelocatedLater) <=>
               n \in Absolutely \/ n \in commons \/ (Declared(n) /\ n \notin DotNames)
        BY <3>4, <3>7
      <4> HIDE DEF seen, firsts, seconds, late
      <4>4. QED
        BY <3>7, <4>1, <4>2, <4>3
    <3>8. QED
      BY <3>5, <3>6, <3>7
  <2>3. Wanted(RelocatedLater) \subseteq Names
    BY DEF Wanted
  <2>4. seen \union Absolutely \union commons \union firsts \union seconds \union late \subseteq Names
    BY <1>2, <1>4
  <2>5. QED
    BY <2>1, <2>2, <2>3, <2>4
<1>18. t1 \o t2 = ElfUnnamed
  BY DEF ElfUnnamed, t1, t2
<1>19. QED
  BY <1>3, <1>16, <1>17, <1>18

-----------------------------------------------------------------------------
(* The order of the Mach-O table. *)

\* What decides between two entries of different groups, and of one group
\* that is not local: the first two elements of Opening.
GroupKey(e) == IF Rank(e) = 0 THEN 0 ELSE Rank(e) * (Len(Alphabet) + 2) + InAlphabet(e)

\* There are names enough for the temporaries of all sections.
LEMMA AlphabetLong ==
  Len(Alphabet) \in Nat /\ \E S : Alphabet \in Seq(S)
<1>1. PICK S : S = STRING
  OBVIOUS
<1>2. Alphabet \in Seq(STRING)
  BY AlphabetAssumption, Zenon
<1>3. Alphabet \in Seq(S)
  BY <1>1, <1>2
<1>4. QED
  BY <1>3

\* Where a name is in the alphabet.
LEMMA InAlphabetKnown ==
  ASSUME NEW e
  PROVE  InAlphabet(e) \in 1 .. Len(Alphabet) + 1
<1>1. PICK S : Alphabet \in Seq(S)
  BY AlphabetLong
<1>2. Position(Alphabet, e.name) \in 1 .. Len(Alphabet) + 1
  BY <1>1, PositionIs
<1>3. QED
  BY <1>2 DEF InAlphabet

\* There are three ranks.
LEMMA RankKnown ==
  ASSUME NEW e
  PROVE  /\ Rank(e) \in 0 .. 2
         /\ Rank(e) = 0 <=> ~ IsUndefined(e) /\ e.bind # "global"
         /\ Rank(e) = 1 <=> ~ IsUndefined(e) /\ e.bind = "global"
         /\ Rank(e) = 2 <=> IsUndefined(e)
BY DEF Rank

\* The comparison begins with these two.
LEMMA DifferencesBegin ==
  ASSUME NEW f, NEW g, NEW x, NEW all,
         all = [k \in 1 .. 4 |-> f[k]] \o << x >> \o [k \in 1 .. 4 |-> g[k]]
  PROVE  DOMAIN all = 1 .. 9 /\ all[1] = f[1] /\ all[2] = f[2]
<1>1. PICK a, b, c : /\ a = [k \in 1 .. 4 |-> f[k]]
                     /\ b = << x >>
                     /\ c = [k \in 1 .. 4 |-> g[k]]
  OBVIOUS
<1>2. PICK S : S = { a[k] : k \in 1 .. 4 } \union {x} \union { c[k] : k \in 1 .. 4 }
  OBVIOUS
<1>3. a \in Seq(S) /\ Len(a) = 4
  BY <1>1, <1>2
<1>4. b \in Seq(S) /\ Len(b) = 1
  BY <1>1, <1>2
<1>5. c \in Seq(S) /\ Len(c) = 4
  BY <1>1, <1>2
<1>6. PICK d : d = a \o b
  OBVIOUS
<1>7. d \in Seq(S) /\ Len(d) = 5 /\ d[1] = a[1] /\ d[2] = a[2]
  <2>1. d \in Seq(S) /\ Len(d) = Len(a) + Len(b)
    BY <1>3, <1>4, <1>6, ConcatProperties
  <2>2. \A i \in 1 .. Len(a) + Len(b) : d[i] = IF i <= Len(a) THEN a[i] ELSE b[i - Len(a)]
    BY <1>3, <1>4, <1>6, ConcatProperties
  <2>3. QED
    BY <1>3, <1>4, <2>1, <2>2
<1>8. d \o c \in Seq(S) /\ Len(d \o c) = 9 /\ (d \o c)[1] = d[1] /\ (d \o c)[2] = d[2]
  <2>1. d \o c \in Seq(S) /\ Len(d \o c) = Len(d) + Len(c)
    BY <1>5, <1>7, ConcatProperties
  <2>2. \A i \in 1 .. Len(d) + Len(c) : (d \o c)[i] = IF i <= Len(d) THEN d[i] ELSE c[i - Len(d)]
    BY <1>5, <1>7, ConcatProperties
  <2>3. QED
    BY <1>5, <1>7, <2>1, <2>2
<1>9. all = d \o c
  BY <1>1, <1>6
<1>10. QED
  BY <1>1, <1>7, <1>8, <1>9

\* The comparison agrees with the key.
LEMMA DifferenceByGroup ==
  ASSUME NEW e, NEW f, NEW a, a = Keyed(e), NEW b, b = Keyed(f)
  PROVE  /\ GroupKey(e) > GroupKey(f) => Difference(a, b) > 0
         /\ Difference(a, b) > 0 => GroupKey(e) >= GroupKey(f)
<1>1. PICK p, q, r, s, d :
         /\ p = Rank(e) /\ q = Rank(f)
         /\ r = InAlphabet(e) /\ s = InAlphabet(f)
         /\ d = Len(Alphabet)
  OBVIOUS
<1>2. p \in 0 .. 2 /\ q \in 0 .. 2 /\ r \in 1 .. d + 1 /\ s \in 1 .. d + 1 /\ d \in Nat
  BY <1>1, RankKnown, InAlphabetKnown, AlphabetLong
<1>3. a.opening = Opening(e) /\ b.opening = Opening(f)
  BY DEF Keyed
<1>4. /\ Opening(e)[1] = p /\ (p # 0 => Opening(e)[2] = r)
      /\ Opening(f)[1] = q /\ (q # 0 => Opening(f)[2] = s)
  BY <1>1 DEF Opening
<1>5. PICK all : all = [k \in 1 .. 4 |-> a.opening[k] - b.opening[k]]
                         \o << Forced(a.entry, b.entry) >>
                         \o [k \in 1 .. 4 |-> a.closing[k] - b.closing[k]]
  OBVIOUS
<1>6. PICK F, G : /\ F = [k \in 1 .. 4 |-> a.opening[k] - b.opening[k]]
                  /\ G = [k \in 1 .. 4 |-> a.closing[k] - b.closing[k]]
  OBVIOUS
<1>7. /\ F = [k \in 1 .. 4 |-> F[k]] /\ G = [k \in 1 .. 4 |-> G[k]]
      /\ F[1] = a.opening[1] - b.opening[1] /\ F[2] = a.opening[2] - b.opening[2]
  BY <1>6
<1>8. all = [k \in 1 .. 4 |-> F[k]] \o << Forced(a.entry, b.entry) >> \o [k \in 1 .. 4 |-> G[k]]
  BY <1>5, <1>6, <1>7
<1>9. DOMAIN all = 1 .. 9 /\ all[1] = F[1] /\ all[2] = F[2]
  BY <1>8, DifferencesBegin
<1>10. all[1] = p - q /\ (p # 0 /\ q # 0 => all[2] = r - s)
  BY <1>3, <1>4, <1>7, <1>9
<1>11. PICK D : D = { k \in DOMAIN all : all[k] # 0 }
  OBVIOUS
<1>12. Difference(a, b) = IF D = {} THEN 0 ELSE all[Min(D)]
  BY <1>5, <1>11 DEF Difference
<1>13. D \in SUBSET Nat /\ \A k \in D : k >= 1
  BY <1>9, <1>11
<1>14. GroupKey(e) = (IF p = 0 THEN 0 ELSE p * (d + 2) + r)
       /\ GroupKey(f) = (IF q = 0 THEN 0 ELSE q * (d + 2) + s)
  BY <1>1 DEF GroupKey
<1>15. CASE p # q
  <2>1. 1 \in D
    BY <1>2, <1>9, <1>10, <1>11, <1>15
  <2>2. Min(D) \in D /\ Min(D) <= 1
    BY <1>13, <2>1, MinOfNaturals
  <2>3. Min(D) = 1
    <3>1. PICK m : m = Min(D)
      OBVIOUS
    <3>2. m \in D /\ m <= 1
      BY <2>2, <3>1
    <3>3. m \in Nat /\ m >= 1
      BY <1>13, <3>2
    <3>4. QED
      BY <3>1, <3>2, <3>3
  <2>4. Difference(a, b) = p - q
    BY <1>10, <1>12, <2>1, <2>3
  <2>5. CASE p > q
    <3>1. GroupKey(e) >= GroupKey(f)
      <4>1. (p = 1 /\ q = 0) \/ (p = 2 /\ q = 0) \/ (p = 2 /\ q = 1)
        BY <1>2, <2>5
      <4>2. QED
        BY <1>2, <1>14, <4>1
    <3>2. QED
      BY <1>2, <2>4, <2>5, <3>1
  <2>6. CASE p < q
    <3>1. ~ (GroupKey(e) > GroupKey(f))
      <4>1. (q = 1 /\ p = 0) \/ (q = 2 /\ p = 0) \/ (q = 2 /\ p = 1)
        BY <1>2, <2>6
      <4>2. QED
        BY <1>2, <1>14, <4>1
    <3>2. QED
      BY <1>2, <2>4, <2>6, <3>1
  <2>7. QED
    BY <1>2, <1>15, <2>5, <2>6
<1>16. CASE p = q /\ p = 0
  BY <1>14, <1>16
<1>17. CASE p = q /\ p # 0 /\ r = s
  <2>1. GroupKey(e) = GroupKey(f)
    BY <1>14, <1>17
  <2>2. GroupKey(e) \in Int
    <3>1. p = 1 \/ p = 2
      BY <1>2, <1>17
    <3>2. QED
      BY <1>2, <1>14, <3>1
  <2>3. QED
    BY <2>1, <2>2
<1>18. CASE p = q /\ p # 0 /\ r # s
  <2>1. all[1] = 0 /\ all[2] = r - s
    BY <1>2, <1>10, <1>18
  <2>2. 2 \in D /\ 1 \notin D
    BY <1>2, <1>9, <1>11, <1>18, <2>1
  <2>3. Min(D) \in D /\ Min(D) <= 2
    BY <1>13, <2>2, MinOfNaturals
  <2>4. Min(D) = 2
    <3>1. PICK m : m = Min(D)
      OBVIOUS
    <3>2. m \in D /\ m <= 2
      BY <2>3, <3>1
    <3>3. m \in Nat /\ m >= 1 /\ m # 1
      BY <1>13, <2>2, <3>2
    <3>4. QED
      BY <3>1, <3>2, <3>3
  <2>5. Difference(a, b) = r - s
    BY <1>12, <2>1, <2>2, <2>4
  <2>6. p = 1 \/ p = 2
    BY <1>2, <1>18
  <2>7. /\ GroupKey(e) > GroupKey(f) <=> r > s
        /\ GroupKey(e) >= GroupKey(f) <=> r >= s
    BY <1>2, <1>14, <1>18, <2>6
  <2>8. QED
    BY <1>2, <2>5, <2>7
<1>19. QED
  BY <1>15, <1>16, <1>17, <1>18

\* By groups, and those that are not local by name.
InGroups(t) == \A i, j \in 1 .. Len(t) : i < j => GroupKey(t[i]) <= GroupKey(t[j])

\* The sorted table has the entries of the other, by rank and, of those that
\* are not local, by name.
LEMMA MachOSortedIs ==
  ASSUME IsSequence(MachOEntries)
  PROVE  InGroups(MachOSorted) /\ \E p : Permutes(p, MachOEntries, MachOSorted)
<1>1. PICK t : t = MachOEntries
  OBVIOUS
<1>2. IsSequence(t) /\ DOMAIN t = 1 .. Len(t) /\ Len(t) \in Nat
  BY <1>1 DEF IsSequence
<1>3. PICK keyed : keyed = [i \in 1 .. Len(t) |-> Keyed(t[i])]
  OBVIOUS
<1>4. PICK K : K = ToSet(keyed)
  OBVIOUS
<1>5. keyed \in Seq(K) /\ Len(keyed) = Len(t) /\ DOMAIN keyed = 1 .. Len(t)
  <2>1. keyed \in Seq({ keyed[i] : i \in 1 .. Len(t) }) /\ Len(keyed) = Len(t)
    BY <1>2, <1>3
  <2>2. K = { keyed[i] : i \in 1 .. Len(t) }
    BY <1>3, <1>4 DEF ToSet
  <2>3. QED
    BY <1>3, <2>1, <2>2
<1>6. \A x \in K : x = Keyed(x.entry)
  <2>1. ASSUME NEW x \in K
        PROVE  x = Keyed(x.entry)
    <3>1. PICK i \in 1 .. Len(t) : x = Keyed(t[i])
      BY <1>3, <1>4 DEF ToSet
    <3>2. x.entry = t[i]
      BY <3>1 DEF Keyed
    <3>3. QED
      BY <3>1, <3>2
  <2>2. QED
    BY <2>1
<1>7. PICK key : key = [x \in K |-> GroupKey(x.entry)]
  OBVIOUS
<1>8. \A e : GroupKey(e) \in Int
  <2>1. ASSUME NEW e
        PROVE  GroupKey(e) \in Int
    <3>1. Rank(e) \in Int /\ InAlphabet(e) \in Int /\ Len(Alphabet) \in Int
      BY RankKnown, InAlphabetKnown, AlphabetLong
    <3>2. QED
      BY <3>1 DEF GroupKey
  <2>2. QED
    BY <2>1
<1>9. key \in [K -> Int]
  BY <1>7, <1>8
<1>10. AgreesWith(Behind(K), key, K)
  <2>1. ASSUME NEW a \in K, NEW b \in K
        PROVE  /\ key[a] > key[b] => <<a, b>> \in Behind(K)
               /\ <<a, b>> \in Behind(K) => key[a] >= key[b]
    <3>1. a = Keyed(a.entry) /\ b = Keyed(b.entry)
      BY <1>6
    <3>2. /\ GroupKey(a.entry) > GroupKey(b.entry) => Difference(a, b) > 0
          /\ Difference(a, b) > 0 => GroupKey(a.entry) >= GroupKey(b.entry)
      BY <3>1, DifferenceByGroup
    <3>3. <<a, b>> \in Behind(K) <=> Difference(a, b) > 0
      BY DEF Behind
    <3>4. QED
      BY <1>7, <3>2, <3>3
  <2>2. QED
    BY <2>1 DEF AgreesWith
<1>11. PICK sorted : sorted = Sorted(keyed, Behind(K))
  OBVIOUS
<1>12. PICK p : /\ sorted \in Seq(K)
                /\ Arranged(p, Len(keyed), keyed, sorted, Behind(K), key)
  BY <1>5, <1>9, <1>10, <1>11, SortedIs
<1>13. /\ Arranges(p, Len(t)) /\ Len(sorted) = Len(t)
       /\ \A i \in 1 .. Len(t) : sorted[i] = keyed[p[i]]
       /\ \A i, j \in 1 .. Len(t) : i < j => key[sorted[i]] <= key[sorted[j]]
  BY <1>5, <1>12 DEF Arranged
<1>14. DOMAIN sorted = 1 .. Len(t) /\ \A i \in 1 .. Len(t) : sorted[i] \in K
  BY <1>2, <1>12, <1>13
<1>15. PICK u : u = [i \in 1 .. Len(t) |-> sorted[i].entry]
  OBVIOUS
<1>16. MachOSorted = u
  <2>1. keyed = [i \in DOMAIN MachOEntries |-> Keyed(MachOEntries[i])]
    BY <1>1, <1>2, <1>3
  <2>2. MachOSorted = [i \in DOMAIN sorted |-> sorted[i].entry]
    BY <1>4, <1>11, <2>1 DEF MachOSorted
  <2>3. QED
    BY <1>14, <1>15, <2>2
<1>17. u \in Seq({ u[i] : i \in 1 .. Len(t) }) /\ Len(u) = Len(t)
  BY <1>2, <1>15
<1>18. IsSequence(u)
  BY <1>17, ListIsSequence
<1>19. \A i \in 1 .. Len(t) : u[i] = t[p[i]]
  <2>1. ASSUME NEW i \in 1 .. Len(t)
        PROVE  u[i] = t[p[i]]
    <3>1. p[i] \in 1 .. Len(t)
      BY <1>13 DEF Arranges
    <3>2. sorted[i] = Keyed(t[p[i]])
      BY <1>3, <1>13, <3>1
    <3>3. QED
      BY <1>15, <3>2 DEF Keyed
  <2>2. QED
    BY <2>1
<1>20. Permutes(p, t, u)
  BY <1>13, <1>17, <1>18, <1>19 DEF Permutes
<1>21. InGroups(u)
  <2>1. ASSUME NEW i \in 1 .. Len(u), NEW j \in 1 .. Len(u), i < j
        PROVE  GroupKey(u[i]) <= GroupKey(u[j])
    <3>1. key[sorted[i]] <= key[sorted[j]]
      BY <1>13, <1>17, <2>1
    <3>2. key[sorted[i]] = GroupKey(u[i]) /\ key[sorted[j]] = GroupKey(u[j])
      BY <1>7, <1>14, <1>15, <1>17
    <3>3. QED
      BY <3>1, <3>2
  <2>2. QED
    BY <2>1 DEF InGroups
<1>22. QED
  BY <1>1, <1>16, <1>20, <1>21

-----------------------------------------------------------------------------
(* The order of an ELF file. *)

\* How many numbers an interval has.
LEMMA SizeOfInterval ==
  ASSUME NEW n \in Nat
  PROVE  IsFiniteSet(1 .. n) /\ Cardinality(1 .. n) = n
BY FS_Interval

\* A list that has all of 1 .. n, each once, is n long.
LEMMA AllOnce ==
  ASSUME NEW n \in Nat, NEW s \in Seq(1 .. n),
         \A i, j \in 1 .. Len(s) : s[i] = s[j] => i = j,
         \A k \in 1 .. n : \E i \in 1 .. Len(s) : s[i] = k
  PROVE  Len(s) = n
<1>1. PICK m \in Nat : m = Len(s)
  OBVIOUS
<1>2. IsFiniteSet(1 .. n) /\ Cardinality(1 .. n) = n /\ IsFiniteSet(1 .. m) /\ Cardinality(1 .. m) = m
  BY SizeOfInterval
<1>3. PICK f : f = [i \in 1 .. m |-> s[i]]
  OBVIOUS
<1>4. f \in [1 .. m -> 1 .. n] /\ \A i, j \in 1 .. m : f[i] = f[j] => i = j
  <2>1. \A i \in 1 .. m : s[i] \in 1 .. n
    BY <1>1
  <2>2. f \in [1 .. m -> 1 .. n]
    BY <1>3, <2>1
  <2>3. \A i, j \in 1 .. m : f[i] = f[j] => i = j
    BY <1>1, <1>3
  <2>4. QED
    BY <2>2, <2>3
<1>5. m <= n
  <2>1. m <= Cardinality(1 .. n)
    BY <1>2, <1>4, DifferentElements
  <2>2. QED
    BY <1>2, <2>1
<1>6. PICK g : g = [k \in 1 .. n |-> CHOOSE i \in 1 .. m : s[i] = k]
  OBVIOUS
<1>7. \A k \in 1 .. n : g[k] \in 1 .. m /\ s[g[k]] = k
  <2>1. ASSUME NEW k \in 1 .. n
        PROVE  g[k] \in 1 .. m /\ s[g[k]] = k
    <3>1. \E i \in 1 .. m : s[i] = k
      BY <1>1
    <3>2. g[k] = CHOOSE i \in 1 .. m : s[i] = k
      BY <1>6
    <3>3. QED
      BY <3>1, <3>2, Zenon
  <2>2. QED
    BY <2>1
<1>8. g \in [1 .. n -> 1 .. m] /\ \A i, j \in 1 .. n : g[i] = g[j] => i = j
  BY <1>6, <1>7
<1>9. n <= m
  <2>1. n <= Cardinality(1 .. m)
    BY <1>2, <1>8, DifferentElements
  <2>2. QED
    BY <1>2, <2>1
<1>10. QED
  BY <1>1, <1>5, <1>9

\* The first m of the order p are the local ones of t, as they are in t.
First(p, t, m) ==
    /\ m \in 0 .. Len(t)
    /\ \A i, j \in 1 .. m : i < j => p[i] < p[j]
    /\ \A i \in 1 .. Len(t) : IsLocal(t[p[i]]) <=> i <= m

\* The order of the ELF file: all of the table, local ones first.
LEMMA LocalsFirstIs ==
  ASSUME NEW t, IsSequence(t)
  PROVE  \E m : /\ IsSequence(LocalsFirst(t)) /\ Len(LocalsFirst(t)) = Len(t)
                /\ Arranges(LocalsFirst(t), Len(t))
                /\ First(LocalsFirst(t), t, m)
                /\ m = CountOf(t, IsLocal)
<1>1. PICK n \in Nat : n = Len(t) /\ DOMAIN t = 1 .. n
  BY DEF IsSequence
<1>2. PICK indices, L, R :
         /\ indices = [i \in 1 .. n |-> i]
         /\ L = { i \in 1 .. n : IsLocal(t[i]) }
         /\ R = (1 .. n) \ L
  OBVIOUS
<1>3. indices \in Seq(1 .. n) /\ Len(indices) = n /\ ToSet(indices) = 1 .. n
      /\ \A i, j \in 1 .. Len(indices) : indices[i] = indices[j] => i = j
  <2>1. indices \in Seq(1 .. n) /\ Len(indices) = n /\ DOMAIN indices = 1 .. n
    BY <1>1, <1>2
  <2>2. ToSet(indices) = { indices[i] : i \in 1 .. n }
    BY <2>1 DEF ToSet
  <2>3. \A i \in 1 .. n : indices[i] = i
    BY <1>2
  <2>4. QED
    BY <2>1, <2>2, <2>3
<1>4. PICK A, B : A = Those(indices, L) /\ B = Those(indices, R)
  OBVIOUS
<1>5. /\ A \in Seq(1 .. n) /\ ToSet(A) = (1 .. n) \intersect L
      /\ \A i, j \in 1 .. Len(A) : A[i] = A[j] => i = j
  <2>1. /\ Those(indices, L) \in Seq(1 .. n)
        /\ ToSet(Those(indices, L)) = ToSet(indices) \intersect L
        /\ \A i, j \in 1 .. Len(Those(indices, L)) :
              Those(indices, L)[i] = Those(indices, L)[j] => i = j
    BY <1>3, ThoseContains
  <2>2. QED
    BY <1>3, <1>4, <2>1
<1>6. /\ B \in Seq(1 .. n) /\ ToSet(B) = (1 .. n) \intersect R
      /\ \A i, j \in 1 .. Len(B) : B[i] = B[j] => i = j
  <2>1. /\ Those(indices, R) \in Seq(1 .. n)
        /\ ToSet(Those(indices, R)) = ToSet(indices) \intersect R
        /\ \A i, j \in 1 .. Len(Those(indices, R)) :
              Those(indices, R)[i] = Those(indices, R)[j] => i = j
    BY <1>3, ThoseContains
  <2>2. QED
    BY <1>3, <1>4, <2>1
<1>7. LocalsFirst(t) = A \o B
  <2>1. DOMAIN indices = 1 .. n /\ indices = [i \in DOMAIN t |-> i]
    BY <1>1, <1>2
  <2>2. L = { i \in DOMAIN indices : IsLocal(t[i]) } /\ R = DOMAIN indices \ L
    BY <1>2, <2>1
  <2>3. QED
    BY <1>4, <2>1, <2>2 DEF LocalsFirst
<1>8. PICK order : order = A \o B
  OBVIOUS
<1>9. PICK m \in Nat, l \in Nat : m = Len(A) /\ l = Len(B)
  BY <1>5, <1>6
<1>10. /\ order \in Seq(1 .. n) /\ Len(order) = m + l
       /\ \A i \in 1 .. m : order[i] = A[i]
       /\ \A i \in 1 .. l : order[m + i] = B[i]
  <2>1. order \in Seq(1 .. n) /\ Len(order) = m + l
    BY <1>5, <1>6, <1>8, <1>9, ConcatProperties
  <2>2. \A i \in 1 .. Len(A) + Len(B) : order[i] = IF i <= Len(A) THEN A[i] ELSE B[i - Len(A)]
    BY <1>5, <1>6, <1>8, ConcatProperties
  <2>3. \A i \in 1 .. m : order[i] = A[i]
    BY <1>9, <2>2
  <2>4. \A i \in 1 .. l : order[m + i] = B[i]
    BY <1>9, <2>2
  <2>5. QED
    BY <2>1, <2>3, <2>4
<1>11. \A i \in 1 .. m : order[i] \in L
  <2>1. \A i \in 1 .. m : A[i] \in ToSet(A)
    BY <1>5, <1>9 DEF ToSet
  <2>2. QED
    BY <1>5, <1>10, <2>1
<1>12. \A i \in 1 .. l : B[i] \in R
  <2>1. \A i \in 1 .. l : B[i] \in ToSet(B)
    BY <1>6, <1>9 DEF ToSet
  <2>2. QED
    BY <1>6, <2>1
<1>13. ASSUME NEW i \in 1 .. Len(order), i > m
       PROVE  i - m \in 1 .. l /\ order[i] = B[i - m]
  <2>1. i \in 1 .. m + l
    BY <1>10
  <2>2. i - m \in 1 .. l /\ m + (i - m) = i
    BY <1>9, <1>13, <2>1
  <2>3. QED
    BY <1>10, <2>2
<1>14. \A i \in 1 .. Len(order) : i <= m => i \in 1 .. m
  BY <1>9, <1>10
<1>15. ASSUME NEW i \in 1 .. Len(order)
       PROVE  order[i] \in L <=> i <= m
  <2>1. i \in 1 .. m + l
    BY <1>10
  <2>2. CASE i <= m
    BY <1>11, <1>14, <2>2
  <2>3. CASE i > m
    <3>1. order[i] \in R
      BY <1>12, <1>13, <2>3
    <3>2. QED
      BY <1>2, <1>9, <2>1, <2>3, <3>1
  <2>4. QED
    BY <1>9, <2>1, <2>2, <2>3
<1>16. ASSUME NEW i \in 1 .. Len(order), NEW j \in 1 .. Len(order), order[i] = order[j]
       PROVE  i = j
  <2>1. i <= m <=> j <= m
    BY <1>15, <1>16
  <2>2. CASE i <= m /\ j <= m
    BY <1>5, <1>9, <1>10, <1>14, <1>16, <2>2
  <2>3. CASE i > m /\ j > m
    <3>1. i - m \in 1 .. l /\ j - m \in 1 .. l /\ B[i - m] = B[j - m]
      BY <1>13, <1>16, <2>3
    <3>2. i - m = j - m
      BY <1>6, <1>9, <3>1
    <3>3. QED
      BY <1>9, <1>10, <3>2
  <2>4. QED
    BY <1>9, <1>10, <2>1, <2>2, <2>3
<1>17. ASSUME NEW k \in 1 .. n
       PROVE  \E i \in 1 .. Len(order) : order[i] = k
  <2>1. CASE k \in L
    <3>1. PICK i \in 1 .. m : A[i] = k
      BY <1>5, <1>9, <2>1 DEF ToSet
    <3>2. i \in 1 .. Len(order)
      BY <1>9, <1>10
    <3>3. QED
      BY <1>10, <3>1, <3>2
  <2>2. CASE k \in R
    <3>1. PICK i \in 1 .. l : B[i] = k
      BY <1>6, <1>9, <2>2 DEF ToSet
    <3>2. m + i \in 1 .. Len(order)
      BY <1>9, <1>10
    <3>3. QED
      BY <1>10, <3>1, <3>2
  <2>3. QED
    BY <1>2, <2>1, <2>2
<1>18. Len(order) = n
  BY <1>10, <1>16, <1>17, AllOnce
<1>19. Arranges(order, n)
  BY <1>10, <1>16, <1>18 DEF Arranges
<1>20. First(order, t, m)
  <2>1. m \in 0 .. n
    BY <1>9, <1>10, <1>18
  <2>2. \A i \in 1 .. n : order[i] \in 1 .. n
    BY <1>10, <1>18
  <2>3. \A i \in 1 .. n : IsLocal(t[order[i]]) <=> i <= m
    BY <1>2, <1>15, <1>18, <2>2
  <2>4. \A i, j \in 1 .. m : i < j => order[i] < order[j]
    <3>1. \E f : Selects(f, indices, L)
      BY <1>3, ThoseEnumerates
    <3>2. PICK f : Selects(f, indices, L)
      BY <3>1
    <3>3. /\ \A i \in 1 .. m : f[i] \in 1 .. n /\ A[i] = indices[f[i]]
          /\ \A i, j \in 1 .. m : i < j => f[i] < f[j]
      BY <1>3, <1>4, <1>9, <3>2 DEF Selects, Enumerates
    <3>4. \A i \in 1 .. m : A[i] = f[i]
      BY <1>2, <3>3
    <3>5. QED
      BY <1>10, <3>3, <3>4
  <2>5. QED
    BY <1>1, <2>1, <2>3, <2>4 DEF First
<1>21. m = CountOf(t, IsLocal)
  <2>1. PICK f : f = [i \in 1 .. m |-> A[i]]
    OBVIOUS
  <2>2. f \in [1 .. m -> L] /\ \A i, j \in 1 .. m : f[i] = f[j] => i = j
    BY <1>5, <1>9, <1>10, <1>11, <2>1
  <2>3. \A k \in L : \E i \in 1 .. m : f[i] = k
    <3>1. ASSUME NEW k \in L
          PROVE  \E i \in 1 .. m : f[i] = k
      <4>1. k \in ToSet(A)
        BY <1>2, <1>5
      <4>2. QED
        BY <1>5, <1>9, <2>1, <4>1 DEF ToSet
    <3>2. QED
      BY <3>1
  <2>4. f \in Bijection(1 .. m, L)
    BY <2>2, <2>3 DEF Bijection, Injection, Surjection, IsInjective
  <2>5. ExistsBijection(1 .. m, L)
    BY <2>4 DEF ExistsBijection
  <2>6. IsFiniteSet(1 .. m) /\ Cardinality(1 .. m) = m
    BY SizeOfInterval
  <2>7. Cardinality(L) = m
    BY <2>5, <2>6, FS_Bijection
  <2>8. QED
    BY <1>1, <1>2, <2>7 DEF CountOf
<1>22. IsSequence(order)
  BY <1>10, ListIsSequence
<1>23. QED
  BY <1>1, <1>7, <1>8, <1>18, <1>19, <1>20, <1>21, <1>22

\* The symbols of the file are those of the object.
LEMMA ElfFileSymbols ==
  ASSUME NEW o, IsSequence(o.symbols)
  PROVE  Permutes(LocalsFirst(o.symbols), o.symbols, ElfFile(o).symbols)
<1>1. PICK t, order : t = o.symbols /\ order = LocalsFirst(t)
  OBVIOUS
<1>2. IsSequence(order) /\ Len(order) = Len(t) /\ Arranges(order, Len(t))
  BY <1>1, LocalsFirstIs
<1>3. PICK u : u = [i \in DOMAIN order |-> t[order[i]]]
  OBVIOUS
<1>4. ElfFile(o).symbols = u
  BY <1>1, <1>3 DEF ElfFile
<1>5. DOMAIN order = 1 .. Len(t) /\ Len(t) \in Nat
  BY <1>2 DEF IsSequence
<1>6. u \in Seq({ u[i] : i \in 1 .. Len(t) }) /\ Len(u) = Len(t)
  BY <1>3, <1>5
<1>7. IsSequence(u)
  BY <1>6, ListIsSequence
<1>8. QED
  BY <1>1, <1>2, <1>3, <1>4, <1>5, <1>6, <1>7 DEF Permutes

-----------------------------------------------------------------------------
(* The object, from finish on. *)

\* The symbols of object o are right for what is assembled.
GoodSymbols(o) ==
    /\ EntriesFor(o.symbols, Wanted(Relocated))
    /\ format = "macho" => InGroups(o.symbols)
    /\ format = "elf" => EntriesAfter(ElfUnnamed, o.symbols, Wanted(Relocated))

\* The symbol of section i, in ELF.
SectionEntry(i) == Entry("", Place(i, 0), "local")

\* Relocation r as it is in an object, with the number x of its symbol.
NumberOf(r, x) ==
    [type   |-> r.type, offset |-> r.offset,
     symbol |-> IF r.target.kind = "raw" THEN 0 ELSE x,
     addend |-> IF r.target.kind = "raw" THEN r.target.value ELSE r.addend]

\* A numbered relocation f, of an object with the symbols t, is of r.
Points(t, f, r) ==
    /\ f = NumberOf(r, f.symbol)
    /\ r.target.kind \in {"raw", "section", "symbol"}
    /\ r.target.kind # "raw" => f.symbol \in 1 .. Len(t)
    /\ r.target.kind = "symbol" => t[f.symbol].name = r.target.name
    /\ r.target.kind = "section" => t[f.symbol] = SectionEntry(r.target.section)

\* A raw value needs no symbol.
LEMMA PointsRaw ==
  ASSUME NEW t, NEW r, NEW f, NEW x, f = NumberOf(r, x), r.target.kind = "raw"
  PROVE  Points(t, f, r)
<1>1. f.symbol = 0 /\ NumberOf(r, 0) = f
  BY DEF NumberOf
<1>2. QED
  BY <1>1 DEF Points

\* A number that finds the symbol, or the section.
LEMMA PointsSymbol ==
  ASSUME NEW t, NEW r, NEW f, NEW x \in 1 .. Len(t), f = NumberOf(r, x),
         \/ r.target.kind = "symbol" /\ t[x].name = r.target.name
         \/ r.target.kind = "section" /\ t[x] = SectionEntry(r.target.section)
  PROVE  Points(t, f, r)
<1>1. r.target.kind # "raw"
  OBVIOUS
<1>2. f.symbol = x
  BY <1>1 DEF NumberOf
<1>3. QED
  BY <1>1, <1>2 DEF Points

\* The relocations of object o are those that were asked for, by sections.
GoodRelocs(o) ==
    /\ o.sections = layout.sections
    /\ DOMAIN o.relocs = DOMAIN layout.sections
    /\ \A i \in DOMAIN layout.sections :
          /\ IsSequence(o.relocs[i])
          /\ Len(o.relocs[i]) = Len(InSectionOf(relocs, i))
          /\ \A k \in 1 .. Len(o.relocs[i]) :
                /\ Points(o.symbols, o.relocs[i][k], InSectionOf(relocs, i)[k])
                /\ InSectionOf(relocs, i)[k].offset \in Int

ObjectInv ==
    /\ object = None => file = None
    /\ object # None =>
          /\ phase = "done"
          /\ object.kind = format
          /\ file = None \/ file = Output(object)
          /\ GoodSymbols(object) /\ GoodRelocs(object)

\* Nothing happens to what is assembled.
LEMMA DoneStays ==
  ASSUME phase = "done", [Next]_vars
  PROVE  UNCHANGED vars
<1>1. CASE CollectLabel \/ CollectSet \/ CollectComm \/ CollectAttribute \/ CollectZerofill
           \/ CollectOther
  BY <1>1 DEF CollectLabel, CollectSet, CollectComm, CollectAttribute, CollectZerofill,
     CollectOther, CollectSymbol, CollectZerofills, CollectBytes, CollectFill, CollectSpace,
     CollectAlign, CollectSection, CollectStartProc, CollectCfi, CollectEndProc, EndCollect,
     PrepareUnwind, At
<1>2. CASE PrepareExpressions \/ Reset \/ EmitSet \/ EmitQuad \/ EmitFixup \/ EmitLabel
           \/ EmitZerofillSymbol \/ EmitOther
  BY <1>2 DEF PrepareExpressions, LayoutPrepare, Reset, LayoutReset, EmitSet, EmitQuad,
     EmitFixup, EmitLabel, EmitZerofillSymbol, EmitOther, EmitNothing, EmitBytes, EmitFill,
     EmitSpaces, EmitAlignment, EmitSection, EmitZerofills, EndEmit, At
<1>3. CASE ResolveData64 \/ ResolveBranch \/ ResolvePage
  BY <1>3 DEF ResolveData64, ResolveBranch, ResolvePage, ResolveHere, Resolve
<1>4. CASE EndFixups \/ Finish \/ FinishElf \/ Fail
  BY <1>4 DEF EndFixups, ResolveFixups, Finish, LayoutFinish, FinishElf, LayoutFinishElf,
     Fail, LayoutFail
<1>5. CASE Terminated \/ UNCHANGED vars
  BY <1>5 DEF Terminated, LayoutTerminated, vars
<1>6. QED
  BY <1>1, <1>2, <1>3, <1>4, <1>5 DEF Next

\* What makes entries right.
LEMMA SymbolsStay ==
  ASSUME UNCHANGED <<format, labels, absolutes, commons, attrs>>, NEW R, NEW t, NEW N
  PROVE  /\ Wanted(R)' = Wanted(R)
         /\ EntriesFor(t, N) => EntriesFor(t, N)'
<1>1. \A n : /\ AsLabel(n)' = AsLabel(n)
             /\ IsKept(n)' = IsKept(n)
             /\ Declared(n)' = Declared(n)
             /\ Preemptible(n)' = Preemptible(n)
  BY DEF AsLabel, IsKept, Declared, Preemptible
<1>2. Wanted(R)' = Wanted(R)
  BY <1>1 DEF Wanted
<1>3. \A n : PlaceWritten(n)' = PlaceWritten(n)
  BY <1>1 DEF PlaceWritten
<1>4. \A n : BoundLocally(n)' = BoundLocally(n)
  BY <1>1, <1>3 DEF BoundLocally
<1>5. \A e : RightEntry(e)' = RightEntry(e)
  BY <1>3, <1>4 DEF RightEntry
<1>6. QED
  BY <1>2, <1>5 DEF EntriesFor

\* A symbol is found by its name.
LEMMA NamedFound ==
  ASSUME NEW t, NEW N, EntriesFor(t, N), NEW n \in N
  PROVE  IndexNamed(t, n) \in 1 .. Len(t) /\ t[IndexNamed(t, n)].name = n
<1>1. IsSequence(t) /\ \E i \in 1 .. Len(t) : t[i].name = n
  BY DEF EntriesFor
<1>2. DOMAIN t = 1 .. Len(t) /\ Len(t) \in Nat
  BY <1>1 DEF IsSequence
<1>3. PICK m \in Nat : m = Len(t)
  BY <1>2
<1>4. PICK names : names = [i \in 1 .. m |-> t[i].name]
  OBVIOUS
<1>5. PICK S : S = { t[i].name : i \in 1 .. m }
  OBVIOUS
<1>6. names \in Seq(S) /\ Len(names) = m
  BY <1>4, <1>5
<1>7. n \in ToSet(names)
  BY <1>1, <1>3, <1>4 DEF ToSet
<1>8. Position(names, n) \in 1 .. m /\ names[Position(names, n)] = n
  BY <1>6, <1>7, PositionIs
<1>9. IndexNamed(t, n) = Position(names, n)
  BY <1>2, <1>3, <1>4 DEF IndexNamed
<1>10. QED
  BY <1>3, <1>4, <1>8, <1>9

\* The relocations of a section are known if all are.
LEMMA SectionHas ==
  ASSUME NEW rs, IsSequence(rs), NEW i
  PROVE  /\ Len(InSectionOf(rs, i)) \in Nat
         /\ DOMAIN InSectionOf(rs, i) = 1 .. Len(InSectionOf(rs, i))
         /\ \A k \in 1 .. Len(InSectionOf(rs, i)) :
               InSectionOf(rs, i)[k] \in ToSet(rs) /\ InSectionOf(rs, i)[k].section = i
<1>1. PICK mine : mine = InSectionOf(rs, i)
  OBVIOUS
<1>2. IsSequence(mine) /\ ToSet(mine) = { r \in ToSet(rs) : r.section = i }
  BY <1>1, SectionRelocs
<1>3. Len(mine) \in Nat /\ DOMAIN mine = 1 .. Len(mine)
  BY <1>2 DEF IsSequence
<1>4. \A k \in 1 .. Len(mine) : mine[k] \in ToSet(mine)
  BY <1>3 DEF ToSet
<1>5. QED
  BY <1>1, <1>2, <1>3, <1>4

\* finish: what it makes.
LEMMA FinishMakes ==
  ASSUME Assembled, NamesInv, FinishMachO, phase' = "done"
  PROVE  /\ Ready /\ format = "macho" /\ Finish
         /\ format' = format /\ file' = file
         /\ UNCHANGED <<labels, absolutes, commons, attrs, relocs>>
         /\ layout'.sections = Table
         /\ object' = MachOObject
<1>1. Finish /\ object' = MachOObject /\ file' = file
  BY DEF FinishMachO
<1>2. /\ phase = "finish" /\ format = "macho" /\ format' = format
      /\ layout' = [layout EXCEPT !.sections = layout.sections \o WrittenUnwind(Len(rows), frames)]
  BY <1>1 DEF Finish, LayoutFinish, source
<1>3. UNCHANGED <<labels, absolutes, commons, attrs, relocs>>
  BY <1>1 DEF Finish, symbols, emission, resolution
<1>4. layout'.sections = Table
  <2>1. layout \in Layouts
    BY DEF Assembled, Inv, TypeOK
  <2>2. QED
    BY <1>2, <2>1 DEF Layouts, Table
<1>5. QED
  BY <1>1, <1>2, <1>3, <1>4 DEF Ready

\* A name that a relocation of finish uses has a symbol.
LEMMA FinishNames ==
  ASSUME Ready, Finish, format = "macho", NEW n \in Relocated
  PROVE  n \in Wanted(Relocated)
<1>1. n \in Names /\ CanName(n)
  BY RelocationsKnown DEF Finish
<1>2. n \in LocalNames \/ n \notin HiddenNames
  BY PrefixAssumption
<1>3. QED
  BY <1>1, <1>2 DEF Wanted, AsLabel, IsKept, CanName

\* finish makes a good object.
LEMMA FinishGood ==
  ASSUME Assembled, NamesInv, FinishMachO, phase' = "done"
  PROVE  object'.kind = format' /\ GoodSymbols(object)' /\ GoodRelocs(object)'
<1>1. /\ Ready /\ format = "macho" /\ Finish /\ format' = format
      /\ UNCHANGED <<labels, absolutes, commons, attrs, relocs>>
      /\ layout'.sections = Table
      /\ object' = MachOObject
  BY FinishMakes
<1>2. EntriesFor(MachOEntries, Wanted(Relocated))
  BY <1>1, MachOEntriesFit
<1>3. IsSequence(MachOEntries)
  BY <1>2 DEF EntriesFor
<1>4. InGroups(MachOSorted) /\ \E p : Permutes(p, MachOEntries, MachOSorted)
  BY <1>3, MachOSortedIs
<1>5. PICK t, N : t = MachOSorted /\ N = Wanted(Relocated)
  OBVIOUS
<1>6. EntriesFor(t, N) /\ InGroups(t)
  BY <1>2, <1>4, <1>5, EntriesPermuted
<1>7. PICK R : R = Relocated
  OBVIOUS
<1>8. Relocated' = R
  BY <1>1, <1>7 DEF Relocated
<1>9. EntriesFor(t, N)' /\ Wanted(R)' = N
  BY <1>1, <1>5, <1>6, <1>7, SymbolsStay
<1>10. EntriesFor(t, Wanted(Relocated))'
  BY <1>8, <1>9
<1>11. object'.symbols = t /\ object'.kind = "macho" /\ object'.sections = Table
  BY <1>1, <1>5 DEF MachOObject
<1>12. GoodSymbols(object)'
  BY <1>1, <1>6, <1>10, <1>11 DEF GoodSymbols
<1>13. PICK table : table = Table /\ DOMAIN table = 1 .. Len(table) /\ Len(table) \in Nat
  BY <1>1, TableKnown
<1>14. PICK rs : /\ rs = object'.relocs
                 /\ rs = [i \in DOMAIN table |->
                            [k \in DOMAIN InSectionOf(relocs, i) |->
                               NumberOf(InSectionOf(relocs, i)[k],
                                        IndexNamed(t, InSectionOf(relocs, i)[k].target.name))]]
  <2>1. object'.relocs = NumberedRelocs(relocs, LAMBDA target : IndexNamed(MachOSorted, target.name))
    BY <1>1 DEF MachOObject
  <2>2. QED
    BY <1>5, <1>13, <2>1 DEF NumberedRelocs, Numbered, NumberOf
<1>15. ASSUME NEW i \in DOMAIN table
       PROVE  /\ IsSequence(rs[i]) /\ Len(rs[i]) = Len(InSectionOf(relocs, i))
              /\ \A k \in 1 .. Len(rs[i]) : /\ Points(t, rs[i][k], InSectionOf(relocs, i)[k])
                                            /\ InSectionOf(relocs, i)[k].offset \in Int
  <2>1. PICK mine : mine = InSectionOf(relocs, i)
    OBVIOUS
  <2>2. /\ Len(mine) \in Nat /\ DOMAIN mine = 1 .. Len(mine)
        /\ \A k \in 1 .. Len(mine) : mine[k] \in ToSet(relocs)
    BY <1>1, <2>1, RelocationsKnown, SectionHas
  <2>3. rs[i] = [k \in 1 .. Len(mine) |-> NumberOf(mine[k], IndexNamed(t, mine[k].target.name))]
    BY <1>14, <2>1, <2>2
  <2>4. rs[i] \in Seq({ rs[i][k] : k \in 1 .. Len(mine) }) /\ Len(rs[i]) = Len(mine)
    <3>0. PICK u : u = rs[i]
      OBVIOUS
    <3>1. PICK m \in Nat : u = rs[i] /\ m = Len(mine)
      BY <2>2, <3>0
    <3>2. DOMAIN u = 1 .. m /\ u = [k \in 1 .. m |-> u[k]]
      BY <2>3, <3>1
    <3>3. u \in Seq({ u[k] : k \in 1 .. m }) /\ Len(u) = m
      BY <3>2
    <3>4. QED
      BY <3>1, <3>3
  <2>5. IsSequence(rs[i])
    BY <2>4, ListIsSequence
  <2>6. ASSUME NEW k \in 1 .. Len(mine)
        PROVE  Points(t, rs[i][k], mine[k]) /\ mine[k].offset \in Int
    <3>1. PICK r, f : r = mine[k] /\ f = rs[i][k]
      OBVIOUS
    <3>2. r \in ToSet(relocs) /\ IsReloc(r) /\ mine[k].offset \in Int
      BY <1>1, <2>2, <3>1, RelocationsKnown
    <3>3. f = NumberOf(r, IndexNamed(t, r.target.name))
      BY <2>3, <3>1
    <3>4. CASE \E n \in Names : r.target = Symbol(n)
      <4>1. PICK n \in Names : r.target = Symbol(n)
        BY <3>4
      <4>2. r.target.kind = "symbol" /\ r.target.name = n
        BY <4>1 DEF Symbol
      <4>3. n \in Relocated
        BY <3>2, <4>2 DEF Relocated
      <4>4. n \in N
        BY <1>1, <1>5, <4>3, FinishNames
      <4>5. IndexNamed(t, n) \in 1 .. Len(t) /\ t[IndexNamed(t, n)].name = n
        BY <1>6, <4>4, NamedFound
      <4>6. Points(t, f, r)
        BY <3>3, <4>2, <4>5, PointsSymbol
      <4>7. QED
        BY <3>1, <3>2, <4>6
    <3>5. CASE \E v \in Int : r.target = Raw(v)
      <4>1. r.target.kind = "raw"
        BY <3>5 DEF Raw
      <4>2. QED
        BY <3>1, <3>2, <3>3, <4>1, PointsRaw
    <3>6. QED
      BY <3>1, <3>2, <3>4, <3>5 DEF IsReloc
  <2>7. QED
    BY <2>1, <2>4, <2>5, <2>6
<1>16. GoodRelocs(object)'
  <2>1. \A i : InSectionOf(relocs, i)' = InSectionOf(relocs, i)
    BY <1>1 DEF InSectionOf
  <2>2. object'.relocs = rs /\ DOMAIN rs = DOMAIN table
    BY <1>14
  <2>3. layout'.sections = table /\ object'.sections = table
    BY <1>1, <1>11, <1>13
  <2>4. ASSUME NEW i \in DOMAIN table
        PROVE  /\ IsSequence(object.relocs[i])'
               /\ Len(object'.relocs[i]) = Len(InSectionOf(relocs, i)')
               /\ \A k \in 1 .. Len(object'.relocs[i]) :
                     /\ Points(object'.symbols, object'.relocs[i][k], InSectionOf(relocs, i)'[k])
                     /\ InSectionOf(relocs, i)'[k].offset \in Int
    BY <1>11, <1>15, <2>1, <2>2 DEF IsSequence
  <2>5. QED
    BY <2>2, <2>3, <2>4 DEF GoodRelocs
<1>17. QED
  BY <1>1, <1>11, <1>12, <1>16

\* finish_elf: what it makes.
LEMMA FinishElfMakes ==
  ASSUME Assembled, NamesInv, FinishElfObject
  PROVE  /\ Ready /\ format = "elf" /\ FinishElf /\ phase' = "done"
         /\ format' = format /\ file' = file
         /\ UNCHANGED <<labels, absolutes, commons, attrs, layout, mapping>>
         /\ relocs' = [i \in DOMAIN relocs |-> Rela(relocs[i])]
         /\ object' = ElfObject
<1>1. FinishElf /\ file' = file /\ mapping' = mapping
  BY DEF FinishElfObject
<1>2. phase = "finish" /\ format = "elf" /\ format' = format /\ phase' = "done" /\ layout' = layout
  BY <1>1 DEF FinishElf, LayoutFinishElf, source
<1>3. UNCHANGED <<labels, absolutes, commons, attrs>> /\ relocs' = [i \in DOMAIN relocs |-> Rela(relocs[i])]
  BY <1>1 DEF FinishElf, symbols, emission
<1>4. object' = ElfObject
  BY <1>2 DEF FinishElfObject
<1>5. QED
  BY <1>1, <1>2, <1>3, <1>4 DEF Ready

\* What names are looked up in does not change.
LEMMA UnnamedStay ==
  ASSUME format = "elf", UNCHANGED <<format, layout, mapping>>
  PROVE  ElfUnnamed' = ElfUnnamed
<1>1. Table' = Table
  BY DEF Table
<1>2. \A i : Marks(i)' = Marks(i)
  BY <1>1 DEF Marks, NameOfSection
<1>3. QED
  BY <1>2 DEF ElfUnnamed

\* The symbols of the sections come first.
LEMMA UnnamedBegin ==
  ASSUME Assembled, MappingInv, format = "elf", NEW t, NEW N, EntriesAfter(ElfUnnamed, t, N),
         NEW i \in 1 .. Len(layout.sections)
  PROVE  i \in 1 .. Len(t) /\ t[i] = SectionEntry(i)
<1>1. PICK n \in Nat : n = Len(layout.sections) /\ DOMAIN layout.sections = 1 .. n
  BY TableOfElf
<1>2. PICK e : e = [j \in DOMAIN layout.sections |-> SectionEntry(j)]
  OBVIOUS
<1>3. PICK m : m = FlattenSeq([j \in DOMAIN layout.sections |-> Marks(j)])
  OBVIOUS
<1>4. IsSequence(e)
  <2>1. EntriesFor(e, {})
    BY <1>2, ElfSections, Zenon DEF SectionEntry
  <2>2. QED
    BY <2>1 DEF EntriesFor
<1>5. IsSequence(m)
  BY <1>3, ElfMarks DEF EntriesFor
<1>6. PICK b : b = e \o m /\ b = ElfUnnamed
  BY <1>2, <1>3, Zenon DEF ElfUnnamed, SectionEntry
<1>7. Len(e) = n /\ e[i] = SectionEntry(i)
  <2>1. DOMAIN e = 1 .. n
    BY <1>1, <1>2, Zenon
  <2>2. DOMAIN e = 1 .. Len(e) /\ Len(e) \in Nat
    BY <1>4 DEF IsSequence
  <2>3. Len(e) = n
    BY <1>1, <2>1, <2>2
  <2>4. i \in DOMAIN layout.sections
    BY <1>1
  <2>5. e[i] = SectionEntry(i)
    BY <1>2, <2>4, Zenon
  <2>6. QED
    BY <2>3, <2>5
<1>8. /\ IsSequence(b) /\ Len(m) \in Nat /\ DOMAIN b = 1 .. Len(e) + Len(m)
      /\ \A k \in 1 .. Len(e) : b[k] = e[k]
  <2>1. /\ IsSequence(e \o m) /\ Len(m) \in Nat /\ DOMAIN (e \o m) = 1 .. Len(e) + Len(m)
        /\ \A k \in 1 .. Len(e) : (e \o m)[k] = e[k]
    BY <1>4, <1>5, SequencesJoin, Zenon
  <2>2. QED
    BY <1>6, <2>1, Zenon
<1>9. Len(b) = n + Len(m)
  <2>1. DOMAIN b = 1 .. Len(b) /\ Len(b) \in Nat
    BY <1>8 DEF IsSequence
  <2>2. DOMAIN b = 1 .. n + Len(m) /\ Len(m) \in Nat
    BY <1>7, <1>8
  <2>3. PICK x \in Nat : x = Len(m)
    BY <2>2
  <2>4. PICK y \in Nat : y = Len(b)
    BY <2>1
  <2>5. 1 .. y = 1 .. n + x
    BY <2>1, <2>2, <2>3, <2>4
  <2>6. y = n + x
    BY <2>5
  <2>7. QED
    BY <2>3, <2>4, <2>6
<1>10. /\ Len(b) <= Len(t) /\ \A k \in 1 .. Len(b) : t[k] = b[k]
       /\ Len(t) \in Nat
  BY <1>6 DEF EntriesAfter, EntriesFor, IsSequence
<1>11. i \in 1 .. n
  BY <1>1
<1>12. i \in 1 .. Len(b) /\ i \in 1 .. Len(t) /\ b[i] = e[i]
  BY <1>7, <1>8, <1>9, <1>10, <1>11
<1>13. t[i] = e[i]
  BY <1>10, <1>12
<1>14. QED
  BY <1>7, <1>12, <1>13, Zenon

\* A name that a relocation of finish_elf uses has a symbol.
LEMMA FinishElfNames ==
  ASSUME Ready, FinishElf, format = "elf", NEW n \in RelocatedLater
  PROVE  n \in Wanted(RelocatedLater)
<1>1. n \in Relocated /\ ~ IsFixed(n)
  BY RelocatedOfElf
<1>2. n \in Names /\ CanNameElf(n)
  BY <1>1, RelocationsKnown DEF FinishElf
<1>3. labels[n] # Undefined => n \notin DotNames
  BY <1>1, <1>2 DEF CanNameElf
<1>4. QED
  BY <1>2, <1>3 DEF Wanted, AsLabel, IsKept

\* A label is in a section of the table.
LEMMA LabelsInside ==
  ASSUME Ready, NEW n \in Names, labels[n] # Undefined
  PROVE  labels[n].section \in 1 .. Len(layout.sections)
<1>1. Lies(labels[n])
  BY LabelsLie DEF Ready, Assembled
<1>2. Len(Final.sections) <= Len(layout.sections)
  BY DEF Ready, Assembled, AnswersInv
<1>3. Len(layout.sections) \in Nat
  BY TableKnown
<1>4. labels[n].section \in 1 .. Len(Final.sections)
  BY <1>1 DEF Lies
<1>5. Len(Final.sections) \in Int
  <2>1. trail \in Seq(Layouts) /\ Len(trail) = Len(prog) + 1 /\ Len(prog) \in Nat
    BY DEF Ready, Assembled, Inv, TypeOK, PhaseInv
  <2>2. Len(prog) + 1 \in 1 .. Len(trail)
    BY <2>1
  <2>3. Final \in Layouts
    BY <2>1, <2>2 DEF Final
  <2>4. Final.sections \in Seq(Section)
    BY <2>3 DEF Layouts
  <2>5. QED
    BY <2>4
<1>6. QED
  BY <1>2, <1>3, <1>4, <1>5

\* Where a target is in the symbols t, in ELF.
IndexIn(t, target) == IF target.kind = "section" THEN target.section ELSE IndexNamed(t, target.name)

\* So does finish_elf.
LEMMA FinishElfGood ==
  ASSUME Assembled, NamesInv, MappingInv, FinishElfObject
  PROVE  object'.kind = format' /\ GoodSymbols(object)' /\ GoodRelocs(object)'
<1>1. /\ Ready /\ format = "elf" /\ FinishElf /\ format' = format
      /\ UNCHANGED <<labels, absolutes, commons, attrs, layout, mapping>>
      /\ relocs' = [i \in DOMAIN relocs |-> Rela(relocs[i])]
      /\ object' = ElfObject
  BY FinishElfMakes
<1>2. EntriesAfter(ElfUnnamed, ElfEntries, Wanted(RelocatedLater))
  BY <1>1, ElfEntriesFit
<1>3. PICK t, N, R, b : t = ElfEntries /\ N = Wanted(R) /\ R = RelocatedLater /\ b = ElfUnnamed
  OBVIOUS
<1>4. EntriesFor(t, N) /\ EntriesAfter(b, t, N)
  BY <1>2, <1>3 DEF EntriesAfter
<1>5. Relocated' = R
  BY <1>1, <1>3 DEF Relocated, RelocatedLater
<1>6. EntriesFor(t, N)' /\ Wanted(R)' = N
  BY <1>1, <1>3, <1>4, SymbolsStay
<1>7. EntriesFor(t, Wanted(Relocated))' /\ EntriesAfter(ElfUnnamed, t, Wanted(Relocated))'
  <2>1. EntriesFor(t, Wanted(Relocated))'
    BY <1>5, <1>6
  <2>2. ElfUnnamed' = b
    BY <1>1, <1>3, UnnamedStay
  <2>3. QED
    BY <1>4, <2>1, <2>2 DEF EntriesAfter
<1>8. object'.symbols = t /\ object'.kind = "elf" /\ object'.sections = layout'.sections
  BY <1>1, <1>3 DEF ElfObject, Table
<1>9. GoodSymbols(object)'
  BY <1>1, <1>7, <1>8 DEF GoodSymbols
<1>10. PICK n \in Nat : n = Len(layout.sections) /\ DOMAIN layout.sections = 1 .. n
  BY <1>1, TableOfElf DEF Ready
<1>11. PICK asked : asked = [i \in DOMAIN relocs |-> Rela(relocs[i])]
  OBVIOUS
<1>12. IsSequence(relocs) /\ \A r \in ToSet(relocs) : IsReloc(r) /\ r.offset \in Int
  BY <1>1, RelocationsKnown
<1>13. IsSequence(asked) /\ ToSet(asked) = { Rela(r) : r \in ToSet(relocs) }
  <2>1. DOMAIN relocs = 1 .. Len(relocs) /\ Len(relocs) \in Nat
    BY <1>12 DEF IsSequence
  <2>2. asked \in Seq({ asked[i] : i \in 1 .. Len(relocs) })
    BY <1>11, <2>1
  <2>3. IsSequence(asked)
    BY <2>2, ListIsSequence
  <2>4. ToSet(asked) = { Rela(r) : r \in ToSet(relocs) }
    BY <1>11 DEF ToSet
  <2>5. QED
    BY <2>3, <2>4
<1>14. PICK rs : /\ rs = object'.relocs
                 /\ rs = [i \in 1 .. n |->
                            [k \in DOMAIN InSectionOf(asked, i) |->
                               NumberOf(InSectionOf(asked, i)[k],
                                        IndexIn(t, InSectionOf(asked, i)[k].target))]]
  <2>1. DOMAIN Table = 1 .. n
    BY <1>1, <1>10 DEF Table
  <2>2. QED
    BY <1>1, <1>3, <1>11, <2>1 DEF ElfObject, NumberedRelocs, Numbered, NumberOf, IndexIn
<1>15. ASSUME NEW i \in 1 .. n
       PROVE  /\ IsSequence(rs[i]) /\ Len(rs[i]) = Len(InSectionOf(asked, i))
              /\ \A k \in 1 .. Len(rs[i]) : /\ Points(t, rs[i][k], InSectionOf(asked, i)[k])
                                            /\ InSectionOf(asked, i)[k].offset \in Int
  <2>1. PICK mine : mine = InSectionOf(asked, i)
    OBVIOUS
  <2>2. /\ Len(mine) \in Nat /\ DOMAIN mine = 1 .. Len(mine)
        /\ \A k \in 1 .. Len(mine) : mine[k] \in ToSet(asked)
    BY <1>13, <2>1, SectionHas
  <2>3. rs[i] = [k \in 1 .. Len(mine) |-> NumberOf(mine[k], IndexIn(t, mine[k].target))]
    BY <1>14, <2>1, <2>2
  <2>4. rs[i] \in Seq({ rs[i][k] : k \in 1 .. Len(mine) }) /\ Len(rs[i]) = Len(mine)
    <3>0. PICK u : u = rs[i]
      OBVIOUS
    <3>1. PICK m \in Nat : u = rs[i] /\ m = Len(mine)
      BY <2>2, <3>0
    <3>2. DOMAIN u = 1 .. m /\ u = [k \in 1 .. m |-> u[k]]
      BY <2>3, <3>1
    <3>3. u \in Seq({ u[k] : k \in 1 .. m }) /\ Len(u) = m
      BY <3>2
    <3>4. QED
      BY <3>1, <3>3
  <2>5. IsSequence(rs[i])
    BY <2>4, ListIsSequence
  <2>6. ASSUME NEW k \in 1 .. Len(mine)
        PROVE  Points(t, rs[i][k], mine[k]) /\ mine[k].offset \in Int
    <3>1. PICK r, f : r = mine[k] /\ f = rs[i][k]
      OBVIOUS
    <3>2. f = NumberOf(r, IndexIn(t, r.target))
      BY <2>3, <3>1
    <3>3. PICK q \in ToSet(relocs) : r = Rela(q)
      BY <1>13, <2>2, <3>1
    <3>4. PICK m \in Names : q.target = Symbol(m)
      BY <1>1, <1>12, <3>3 DEF IsReloc
    <3>5. q.target.kind = "symbol" /\ q.target.name = m
      BY <3>4 DEF Symbol
    <3>6. mine[k].offset \in Int
      <4>1. q.offset \in Int
        BY <1>12
      <4>2. Rela(q).offset = q.offset
        BY DEF Rela
      <4>3. QED
        BY <3>1, <3>3, <4>1, <4>2
    <3>7. CASE IsFixed(m)
      <4>1. r = [q EXCEPT !.target = SectionSymbol(labels[m].section), !.addend = @ + labels[m].value]
        BY <3>3, <3>5, <3>7 DEF Rela
      <4>2. r.target = SectionSymbol(labels[m].section)
        BY <3>4, <4>1 DEF Symbol
      <4>3. r.target.kind = "section" /\ r.target.section = labels[m].section
        BY <4>2 DEF SectionSymbol
      <4>4. IndexIn(t, r.target) = labels[m].section
        BY <4>3 DEF IndexIn
      <4>5. labels[m].section \in 1 .. n
        BY <1>1, <1>10, <3>7, LabelsInside DEF IsFixed
      <4>6. /\ labels[m].section \in 1 .. Len(t)
            /\ t[labels[m].section] = SectionEntry(labels[m].section)
        BY <1>1, <1>3, <1>4, <1>10, <4>5, UnnamedBegin DEF SectionEntry, Ready
      <4>7. Points(t, f, r)
        BY <3>2, <4>3, <4>4, <4>6, PointsSymbol
      <4>8. QED
        BY <3>1, <3>6, <4>7
    <3>8. CASE ~ IsFixed(m)
      <4>1. r = q
        BY <3>3, <3>5, <3>8 DEF Rela
      <4>2. m \in R
        BY <1>3, <1>11, <1>13, <3>3, <3>5, <4>1 DEF RelocatedLater
      <4>3. m \in N
        BY <1>1, <1>3, <4>2, FinishElfNames
      <4>4. IndexNamed(t, m) \in 1 .. Len(t) /\ t[IndexNamed(t, m)].name = m
        BY <1>4, <4>3, NamedFound
      <4>5. IndexIn(t, r.target) = IndexNamed(t, m)
        BY <3>5, <4>1 DEF IndexIn
      <4>6. Points(t, f, r)
        BY <3>2, <3>5, <4>1, <4>4, <4>5, PointsSymbol
      <4>7. QED
        BY <3>1, <3>6, <4>6
    <3>9. QED
      BY <3>7, <3>8
  <2>7. QED
    BY <2>1, <2>4, <2>5, <2>6
<1>16. GoodRelocs(object)'
  <2>1. relocs' = asked /\ \A i : InSectionOf(relocs, i)' = InSectionOf(asked, i)
    BY <1>1, <1>11 DEF InSectionOf
  <2>2. object'.relocs = rs /\ DOMAIN rs = 1 .. n
    BY <1>14
  <2>3. DOMAIN layout'.sections = 1 .. n /\ object'.sections = layout'.sections
    BY <1>1, <1>8, <1>10
  <2>4. QED
    BY <1>8, <1>15, <2>1, <2>2, <2>3 DEF GoodRelocs, IsSequence
<1>17. QED
  BY <1>1, <1>8, <1>9, <1>16

\* Only the passes change the marks.
LEMMA MarksStay ==
  ASSUME phase = "done", ObjectsNext
  PROVE  mapping' = mapping
<1>1. CASE Measure \/ Elsewhere \/ Write
  BY <1>1 DEF Measure, Elsewhere, Write, objects
<1>2. ~ EmitStatement
  BY DEF EmitStatement, EmitSet, EmitQuad, EmitFixup, EmitLabel, EmitZerofillSymbol, EmitOther,
     EmitNothing, EmitBytes, EmitFill, EmitSpaces, EmitAlignment, EmitSection, EmitZerofills, EndEmit, At
<1>3. ~ ResetMarks /\ ~ FinishMachO /\ ~ FinishElfObject
  BY DEF ResetMarks, Reset, LayoutReset, FinishMachO, FinishElfObject, Finish, FinishElf,
     LayoutFinish, LayoutFinishElf
<1>4. QED
  BY <1>1, <1>2, <1>3 DEF ObjectsNext

\* Every step.
LEMMA ObjectSteps ==
  ASSUME Assembled, NamesInv, MappingInv, ObjectInv, [ObjectsNext]_<<vars, objects>>
  PROVE  ObjectInv'
<1>1. CASE object # None
  <2>1. /\ phase = "done" /\ object.kind = format
        /\ file = None \/ file = Output(object)
        /\ GoodSymbols(object) /\ GoodRelocs(object)
    BY <1>1 DEF ObjectInv
  <2>2. UNCHANGED vars
    BY <2>1, DoneStays, StepIsAssemblers
  <2>3. UNCHANGED <<phase, format, layout, labels, absolutes, commons, attrs, relocs>>
    BY <2>2 DEF vars, layoutVars, source, symbols, emission, resolution
  <2>4. object' = object /\ mapping' = mapping /\ (file' = file \/ file' = Output(object))
    <3>1. CASE Write
      BY <3>1 DEF Write
    <3>2. CASE FinishMachO \/ FinishElfObject
      BY <2>1, <3>2 DEF FinishMachO, FinishElfObject, Finish, FinishElf, LayoutFinish, LayoutFinishElf
    <3>3. CASE UNCHANGED <<vars, objects>>
      BY <3>3 DEF objects
    <3>4. CASE Measure \/ EmitStatement \/ ResetMarks \/ Elsewhere
      <4>1. mapping' = mapping
        BY <2>1, <3>4, MarksStay DEF ObjectsNext
      <4>2. QED
        BY <3>4, <4>1 DEF Measure, EmitStatement, ResetMarks, Elsewhere, objects
    <3>5. QED
      BY <3>1, <3>2, <3>3, <3>4 DEF ObjectsNext
  <2>5. GoodSymbols(object)'
    <3>1. PICK t, N, R : t = object.symbols /\ R = Relocated /\ N = Wanted(R)
      OBVIOUS
    <3>2. EntriesFor(t, N)' /\ Wanted(R)' = N
      BY <2>1, <2>3, <3>1, SymbolsStay DEF GoodSymbols
    <3>3. Relocated' = R /\ object'.symbols = t
      BY <2>3, <2>4, <3>1 DEF Relocated
    <3>4. EntriesFor(t, Wanted(Relocated))'
      BY <3>2, <3>3
    <3>5. InGroups(t)' = InGroups(t)
      BY DEF InGroups
    <3>6. format = "elf" => EntriesAfter(ElfUnnamed, t, Wanted(Relocated))'
      <4>1. format = "elf" => ElfUnnamed' = ElfUnnamed
        BY <2>3, <2>4, UnnamedStay
      <4>2. QED
        BY <2>1, <3>1, <3>4, <4>1 DEF GoodSymbols, EntriesAfter
    <3>7. QED
      BY <2>1, <2>3, <3>1, <3>3, <3>4, <3>5, <3>6 DEF GoodSymbols
  <2>6. GoodRelocs(object)'
    <3>1. \A i : InSectionOf(relocs, i)' = InSectionOf(relocs, i)
      BY <2>3 DEF InSectionOf
    <3>2. QED
      BY <2>1, <2>3, <2>4, <3>1 DEF GoodRelocs, IsSequence
  <2>7. QED
    BY <1>1, <2>1, <2>3, <2>4, <2>5, <2>6 DEF ObjectInv
<1>2. CASE object = None
  <2>1. file = None
    BY <1>2 DEF ObjectInv
  <2>2. CASE FinishMachO /\ phase' = "done"
    <3>1. file' = None /\ object'.kind = format' /\ GoodSymbols(object)' /\ GoodRelocs(object)'
      BY <2>1, <2>2, FinishGood, FinishMakes
    <3>2. object'.kind # "none" /\ object' # None
      BY <2>2, FinishMakes DEF MachOObject, None
    <3>3. QED
      BY <2>2, <3>1, <3>2 DEF ObjectInv
  <2>3. CASE FinishMachO /\ phase' # "done"
    BY <2>1, <2>3 DEF FinishMachO, ObjectInv
  <2>4. CASE FinishElfObject
    <3>1. /\ file' = None /\ object'.kind = format' /\ GoodSymbols(object)' /\ GoodRelocs(object)'
          /\ phase' = "done"
      BY <2>1, <2>4, FinishElfGood, FinishElfMakes
    <3>2. object' # None
      BY <2>4, FinishElfMakes DEF ElfObject, None
    <3>3. QED
      BY <3>1, <3>2 DEF ObjectInv
  <2>5. CASE Measure \/ EmitStatement \/ ResetMarks \/ Elsewhere \/ UNCHANGED <<vars, objects>>
    BY <1>2, <2>1, <2>5 DEF Measure, EmitStatement, ResetMarks, Elsewhere, objects, ObjectInv
  <2>6. CASE Write
    BY <1>2, <2>6 DEF Write
  <2>7. QED
    BY <2>2, <2>3, <2>4, <2>5, <2>6 DEF ObjectsNext
<1>3. QED
  BY <1>1, <1>2

\* In every state.
LEMMA ObjectHolds == ObjectsSpec => []ObjectInv
<1>1. ObjectsInit => ObjectInv
  BY DEF ObjectsInit, ObjectInv
<1>2. Assembled /\ NamesInv /\ MappingInv /\ ObjectInv /\ [ObjectsNext]_<<vars, objects>>
        => ObjectInv'
  BY ObjectSteps
<1>3. QED
  BY <1>1, <1>2, AssembledHolds, NamesHold, MappingHolds, PTL DEF ObjectsSpec

-----------------------------------------------------------------------------
(* The symbols of the file. *)

\* A list of right entries has its names once, each as it is defined.
LEMMA EntriesFound ==
  ASSUME NEW t, NEW N, EntriesFor(t, N), NEW n \in Names,
         NEW found, found = { i \in DOMAIN t : t[i].name = n }
  PROVE  /\ Cardinality(found) = IF n \in N THEN 1 ELSE 0
         /\ \A i \in found : t[i].place = PlaceWritten(n) /\ (t[i].bind = "local" <=> BoundLocally(n))
<1>1. /\ IsSequence(t)
      /\ \A i \in 1 .. Len(t) : RightEntry(t[i])
      /\ \A i \in 1 .. Len(t) : t[i].name \in Names => t[i].name \in N
      /\ \A i, j \in 1 .. Len(t) : t[i].name \in Names /\ t[i].name = t[j].name => i = j
      /\ \A m \in N : \E i \in 1 .. Len(t) : t[i].name = m
  BY DEF EntriesFor
<1>2. DOMAIN t = 1 .. Len(t)
  BY <1>1 DEF IsSequence
<1>3. \A i \in found : t[i].place = PlaceWritten(n) /\ (t[i].bind = "local" <=> BoundLocally(n))
  BY <1>1, <1>2 DEF RightEntry
<1>4. CASE n \in N
  <2>1. PICK i \in 1 .. Len(t) : t[i].name = n
    BY <1>1, <1>4
  <2>2. found = {i}
    BY <1>1, <1>2, <2>1
  <2>3. Cardinality({i}) = 1
    BY FS_Singleton
  <2>4. QED
    BY <1>3, <1>4, <2>2, <2>3
<1>5. CASE n \notin N
  <2>1. found = {}
    BY <1>1, <1>2, <1>5
  <2>2. Cardinality({}) = 0
    BY FS_EmptySet
  <2>3. QED
    BY <1>3, <1>5, <2>1, <2>2
<1>6. QED
  BY <1>4, <1>5

\* What is written is written of the object.
LEMMA WrittenIs ==
  ASSUME Assembled, ObjectInv, IsWritten
  PROVE  /\ phase = "done" /\ format \in {"macho", "elf"} /\ object.kind = format
         /\ GoodSymbols(object)
         /\ file.kind = format
         /\ file = IF format = "macho" THEN MachOFile(object) ELSE ElfFile(object)
<1>1. file # None
  BY DEF IsWritten, None
<1>2. /\ phase = "done" /\ object.kind = format /\ GoodSymbols(object) /\ file = Output(object)
  BY <1>1 DEF ObjectInv
<1>3. format \in {"macho", "elf"}
  BY FormatsAssumption DEF Assembled, Inv, TypeOK
<1>4. file # Refused
  BY DEF IsWritten, Refused
<1>5. file = IF format = "macho" THEN MachOFile(object) ELSE ElfFile(object)
  BY <1>2, <1>3, <1>4 DEF Output
<1>6. file.kind = format
  BY <1>3, <1>5 DEF MachOFile, ElfFile
<1>7. QED
  BY <1>2, <1>3, <1>5, <1>6

\* The writers keep the entries that the object has.
LEMMA FileSymbols ==
  ASSUME Assembled, ObjectInv, IsWritten
  PROVE  EntriesFor(file.symbols, Wanted(Relocated))
<1>1. GoodSymbols(object) /\ file = IF format = "macho" THEN MachOFile(object) ELSE ElfFile(object)
  BY WrittenIs
<1>2. EntriesFor(object.symbols, Wanted(Relocated))
  BY <1>1 DEF GoodSymbols
<1>3. CASE format = "macho"
  BY <1>1, <1>2, <1>3 DEF MachOFile
<1>4. CASE format # "macho"
  <2>1. IsSequence(object.symbols)
    BY <1>2 DEF EntriesFor
  <2>2. Permutes(LocalsFirst(object.symbols), object.symbols, ElfFile(object).symbols)
    BY <2>1, ElfFileSymbols
  <2>3. EntriesFor(ElfFile(object).symbols, Wanted(Relocated))
    BY <1>2, <2>2, EntriesPermuted
  <2>4. QED
    BY <1>1, <1>4, <2>3
<1>5. QED
  BY <1>3, <1>4

\* finish and finish_elf, write_macho and write_elf: a name is in the symbol
\* table once if it is to be there, as what it is defined, and local unless
\* it is exported; no other is.
THEOREM NamesAreWritten == ObjectsSpec => []SymbolsWritten
<1>1. Assembled /\ ObjectInv => SymbolsWritten
  <2>1. SUFFICES ASSUME Assembled, ObjectInv, IsWritten, NEW n \in Names,
                        NEW found, found = { i \in DOMAIN file.symbols : file.symbols[i].name = n }
                 PROVE  /\ Cardinality(found) = (IF ShouldBeWritten(n) THEN 1 ELSE 0)
                        /\ \A i \in found :
                              /\ file.symbols[i].place = PlaceWritten(n)
                              /\ file.symbols[i].bind = "local" <=>
                                    /\ PlaceWritten(n).kind \notin {"undefined", "common"}
                                    /\ IF format = "elf" THEN ~Preemptible(n) ELSE n \notin attrs.global
    BY DEF SymbolsWritten
  <2>2. EntriesFor(file.symbols, Wanted(Relocated))
    BY <2>1, FileSymbols
  <2>3. /\ Cardinality(found) = IF n \in Wanted(Relocated) THEN 1 ELSE 0
        /\ \A i \in found : /\ file.symbols[i].place = PlaceWritten(n)
                            /\ file.symbols[i].bind = "local" <=> BoundLocally(n)
    BY <2>1, <2>2, EntriesFound
  <2>4. n \in Wanted(Relocated) <=> ShouldBeWritten(n)
    BY DEF Wanted, ShouldBeWritten
  <2>5. QED
    BY <2>3, <2>4 DEF BoundLocally
<1>2. QED
  BY <1>1, AssembledHolds, ObjectHolds, PTL

-----------------------------------------------------------------------------
(* The groups of the symbol table. *)

\* What has rank r.
Ranked(R, n, r) == { i \in 1 .. n : R[i] = r }

\* The first a have rank 0, the next b rank 1 and the other c rank 2.
CutInThree(R, n, a, b, c) ==
    /\ a \in Nat /\ b \in Nat /\ c \in Nat
    /\ \A i \in 1 .. n : /\ R[i] = 0 => i \in 1 .. a
                         /\ R[i] = 1 => i \in a + 1 .. a + b
                         /\ R[i] = 2 => i \in a + b + 1 .. a + b + c

\* What is sorted into three groups is cut by counting them.
LEMMA ThreeGroups ==
  ASSUME NEW n \in Nat, NEW R \in [1 .. n -> 0 .. 2],
         \A i, j \in 1 .. n : i < j => R[i] <= R[j]
  PROVE  CutInThree(R, n, Cardinality(Ranked(R, n, 0)), Cardinality(Ranked(R, n, 1)),
                    Cardinality(Ranked(R, n, 2)))
<1>0. PICK a, b, c : /\ a = Cardinality(Ranked(R, n, 0))
                     /\ b = Cardinality(Ranked(R, n, 1))
                     /\ c = Cardinality(Ranked(R, n, 2))
  OBVIOUS
<1>1. PICK A, B, C, D :
         /\ A = { i \in 1 .. n : R[i] = 0 } /\ B = { i \in 1 .. n : R[i] = 1 }
         /\ C = { i \in 1 .. n : R[i] = 2 } /\ D = { i \in 1 .. n : R[i] <= 1 }
  OBVIOUS
<1>a. a = Cardinality(A) /\ b = Cardinality(B) /\ c = Cardinality(C)
  BY <1>0, <1>1 DEF Ranked
<1>2. \A i \in 1 .. n : R[i] \in 0 .. 2
  OBVIOUS
<1>3. IsFiniteSet(1 .. n) /\ Cardinality(1 .. n) = n
  BY FS_Interval
<1>4. /\ IsFiniteSet(A) /\ IsFiniteSet(B) /\ IsFiniteSet(C)
      /\ Cardinality(A) \in Nat /\ Cardinality(B) \in Nat /\ Cardinality(C) \in Nat
  <2>1. A \subseteq 1 .. n /\ B \subseteq 1 .. n /\ C \subseteq 1 .. n
    BY <1>1
  <2>2. IsFiniteSet(A) /\ IsFiniteSet(B) /\ IsFiniteSet(C)
    BY <1>3, <2>1, FS_Subset
  <2>3. QED
    BY <2>2, FS_CardinalityType
<1>5. A = 1 .. Cardinality(A)
  <2>1. \A i \in 1 .. n, j \in A : i < j => i \in A
    <3>1. ASSUME NEW i \in 1 .. n, NEW j \in A, i < j
          PROVE  i \in A
      <4>1. R[i] <= R[j] /\ R[j] = 0 /\ R[i] \in 0 .. 2
        BY <1>1, <1>2, <3>1
      <4>2. R[i] = 0
        BY <4>1
      <4>3. QED
        BY <1>1, <4>2
    <3>2. QED
      BY <3>1
  <2>2. A \in SUBSET (1 .. n)
    BY <1>1
  <2>3. QED
    BY <2>1, <2>2, BeginningIs
<1>6. D = 1 .. Cardinality(D)
  <2>1. \A i \in 1 .. n, j \in D : i < j => i \in D
    <3>1. ASSUME NEW i \in 1 .. n, NEW j \in D, i < j
          PROVE  i \in D
      <4>1. R[i] <= R[j] /\ R[j] <= 1 /\ R[i] \in 0 .. 2 /\ R[j] \in 0 .. 2
        BY <1>1, <1>2, <3>1
      <4>2. R[i] <= 1
        BY <4>1
      <4>3. QED
        BY <1>1, <4>2
    <3>2. QED
      BY <3>1
  <2>2. D \in SUBSET (1 .. n)
    BY <1>1
  <2>3. QED
    BY <2>1, <2>2, BeginningIs
<1>7. Cardinality(D) = a + b
  <2>1. A \union B = D /\ A \intersect B = {}
    BY <1>1, <1>2
  <2>2. Cardinality(A \union B) = Cardinality(A) + Cardinality(B) - Cardinality(A \intersect B)
    BY <1>4, FS_Union
  <2>3. Cardinality(A \intersect B) = 0
    BY <2>1, FS_EmptySet
  <2>4. Cardinality(A) = a /\ Cardinality(B) = b
    BY <1>a
  <2>5. Cardinality(D) = a + b - 0
    BY <2>1, <2>2, <2>3, <2>4
  <2>6. a \in Nat /\ b \in Nat
    BY <1>4, <2>4
  <2>7. QED
    BY <2>5, <2>6
<1>8. n = a + b + c
  <2>1. D \union C = 1 .. n /\ D \intersect C = {}
    BY <1>1, <1>2
  <2>2. IsFiniteSet(D) /\ Cardinality(D) \in Nat
    <3>1. D \subseteq 1 .. n
      BY <1>1
    <3>2. QED
      BY <1>3, <3>1, FS_Subset, FS_CardinalityType
  <2>3. Cardinality(D \union C) = Cardinality(D) + Cardinality(C) - Cardinality(D \intersect C)
    BY <1>4, <2>2, FS_Union
  <2>4. Cardinality(D \intersect C) = 0
    BY <2>1, FS_EmptySet
  <2>5. Cardinality(C) = c /\ Cardinality(A) = a /\ Cardinality(B) = b
    BY <1>a
  <2>6. n = a + b + c - 0
    BY <1>3, <1>7, <2>1, <2>3, <2>4, <2>5
  <2>7. a \in Nat /\ b \in Nat /\ c \in Nat
    BY <1>4, <2>5
  <2>8. QED
    BY <2>6, <2>7
<1>9. a \in Nat /\ b \in Nat /\ c \in Nat
  BY <1>a, <1>4
<1>10. ASSUME NEW i \in 1 .. n
       PROVE  /\ R[i] = 0 => i \in 1 .. a
              /\ R[i] = 1 => i \in a + 1 .. a + b
              /\ R[i] = 2 => i \in a + b + 1 .. a + b + c
  <2>1. i \in A <=> i \in 1 .. a
    <3>1. Cardinality(A) = a
      BY <1>a
    <3>2. A = 1 .. a
      BY <1>5, <3>1
    <3>3. QED
      BY <3>2
  <2>2. i \in D <=> i \in 1 .. a + b
    BY <1>6, <1>7
  <2>3. /\ i \in A <=> R[i] = 0
        /\ i \in D <=> R[i] <= 1
    BY <1>1
  <2>4. /\ R[i] = 0 <=> i <= a
        /\ R[i] <= 1 <=> i <= a + b
        /\ R[i] \in 0 .. 2 /\ i \in 1 .. a + b + c
    BY <1>2, <1>8, <1>9, <2>1, <2>2, <2>3
  <2>5. QED
    BY <1>9, <2>4
<1>11. QED
  BY <1>0, <1>9, <1>10 DEF CutInThree

\* The key of a group tells its rank, and names within one that is not the
\* first.
LEMMA KeyTells ==
  ASSUME NEW e, NEW f, GroupKey(e) <= GroupKey(f)
  PROVE  /\ Rank(e) <= Rank(f)
         /\ Rank(e) = Rank(f) /\ Rank(e) # 0 => InAlphabet(e) <= InAlphabet(f)
<1>1. PICK p, q, r, s, d :
         /\ p = Rank(e) /\ q = Rank(f)
         /\ r = InAlphabet(e) /\ s = InAlphabet(f)
         /\ d = Len(Alphabet)
  OBVIOUS
<1>2. p \in 0 .. 2 /\ q \in 0 .. 2 /\ r \in 1 .. d + 1 /\ s \in 1 .. d + 1 /\ d \in Nat
  BY <1>1, RankKnown, InAlphabetKnown, AlphabetLong
<1>3. (IF p = 0 THEN 0 ELSE p * (d + 2) + r) <= (IF q = 0 THEN 0 ELSE q * (d + 2) + s)
  BY <1>1 DEF GroupKey
<1>4. p <= q
  <2>1. CASE p = 0
    BY <1>2, <2>1
  <2>2. CASE p = 1
    BY <1>2, <1>3, <2>2
  <2>3. CASE p = 2
    <3>1. q # 0 /\ q # 1
      BY <1>2, <1>3, <2>3
    <3>2. QED
      BY <1>2, <2>3, <3>1
  <2>4. QED
    BY <1>2, <2>1, <2>2, <2>3
<1>5. ASSUME p = q, p # 0
      PROVE  r <= s
  <2>1. p * (d + 2) + r <= p * (d + 2) + s
    BY <1>3, <1>5
  <2>2. p = 1 \/ p = 2
    BY <1>2, <1>5
  <2>3. QED
    BY <1>2, <2>1, <2>2
<1>6. QED
  BY <1>1, <1>4, <1>5

\* The rank of an entry of a Mach-O table is its group.
LEMMA RanksGroup ==
  ASSUME NEW e, RightEntry(e), format = "macho"
  PROVE  /\ Rank(e) = 0 <=> e.bind = "local"
         /\ Rank(e) = 0 <=> e.bind = "local" /\ ~IsUndefined(e)
         /\ Rank(e) = 1 <=> e.bind # "local" /\ ~IsUndefined(e)
         /\ Rank(e) = 2 <=> IsUndefined(e)
<1>1. e.bind = "local" \/ e.bind = "global"
  BY DEF RightEntry
<1>2. IsUndefined(e) => e.bind # "local"
  <2>1. CASE e.name \in Names
    <3>1. e.place = PlaceWritten(e.name) /\ (e.bind = "local" <=> BoundLocally(e.name))
      BY <2>1 DEF RightEntry
    <3>2. QED
      BY <3>1 DEF IsUndefined, BoundLocally
  <2>2. CASE e.name \notin Names
    BY <2>2 DEF RightEntry, IsPlaced, IsUndefined
  <2>3. QED
    BY <2>1, <2>2
<1>3. QED
  BY <1>1, <1>2, RankKnown

\* Two names of the table have different places in the alphabet.
LEMMA NamesApart ==
  ASSUME NEW e, NEW f, e.name \in Names, InAlphabet(e) = InAlphabet(f), f.name \in Names
  PROVE  e.name = f.name
<1>1. PICK S : Alphabet \in Seq(S)
  BY AlphabetLong
<1>2. e.name \in ToSet(Alphabet) /\ f.name \in ToSet(Alphabet)
  BY AlphabetAssumption
<1>3. Alphabet[Position(Alphabet, e.name)] = e.name /\ Alphabet[Position(Alphabet, f.name)] = f.name
  BY <1>1, <1>2, PositionIs
<1>4. QED
  BY <1>3 DEF InAlphabet

\* The groups of the Mach-O table, and the order in the last two.
LEMMA MachOGroups ==
  ASSUME NEW o, o.kind = "macho", format = "macho", GoodSymbols(o), file = MachOFile(o)
  PROVE  /\ \A i \in DOMAIN file.symbols :
              LET g == GroupOf(file.symbols[i]) IN i \in GroupEnd(g - 1) + 1 .. GroupEnd(g)
         /\ \A i, j \in DOMAIN file.symbols :
               i < j /\ GroupOf(file.symbols[i]) = GroupOf(file.symbols[j])
                     /\ ~IsLocal(file.symbols[i])
                  => InAlphabet(file.symbols[i]) < InAlphabet(file.symbols[j])
<1>1. PICK t, n, N : t = o.symbols /\ n = Len(t) /\ N = Wanted(Relocated)
  OBVIOUS
<1>2. EntriesFor(t, N) /\ InGroups(t)
  BY <1>1 DEF GoodSymbols
<1>3. /\ IsSequence(t)
      /\ \A i \in 1 .. n : RightEntry(t[i])
      /\ \A i, j \in 1 .. n : t[i].name \in Names /\ t[i].name = t[j].name => i = j
  BY <1>1, <1>2 DEF EntriesFor
<1>4. n \in Nat /\ DOMAIN t = 1 .. n
  BY <1>1, <1>3 DEF IsSequence
<1>5. PICK R : R = [i \in 1 .. n |-> Rank(t[i])]
  OBVIOUS
<1>6. R \in [1 .. n -> 0 .. 2] /\ \A i, j \in 1 .. n : i < j => R[i] <= R[j]
  <2>1. R \in [1 .. n -> 0 .. 2]
    BY <1>5, RankKnown
  <2>2. ASSUME NEW i \in 1 .. n, NEW j \in 1 .. n, i < j
        PROVE  R[i] <= R[j]
    <3>1. GroupKey(t[i]) <= GroupKey(t[j])
      BY <1>1, <1>2, <2>2 DEF InGroups
    <3>2. Rank(t[i]) <= Rank(t[j])
      BY <3>1, KeyTells
    <3>3. QED
      BY <1>5, <3>2
  <2>3. QED
    BY <2>1, <2>2
<1>7. PICK a, b, c : /\ a = Cardinality(Ranked(R, n, 0))
                     /\ b = Cardinality(Ranked(R, n, 1))
                     /\ c = Cardinality(Ranked(R, n, 2))
  OBVIOUS
<1>8. /\ a \in Nat /\ b \in Nat /\ c \in Nat
      /\ \A i \in 1 .. n : /\ R[i] = 0 => i \in 1 .. a
                           /\ R[i] = 1 => i \in a + 1 .. a + b
                           /\ R[i] = 2 => i \in a + b + 1 .. a + b + c
  <2>1. CutInThree(R, n, a, b, c)
    BY <1>4, <1>6, <1>7, ThreeGroups
  <2>2. QED
    BY <2>1 DEF CutInThree
<1>9. \A i \in 1 .. n : /\ R[i] = 0 <=> IsLocal(t[i])
                        /\ R[i] = 0 <=> IsLocal(t[i]) /\ ~IsUndefined(t[i])
                        /\ R[i] = 1 <=> IsExternal(t[i])
                        /\ R[i] = 2 <=> IsUndefined(t[i])
  <2>1. ASSUME NEW i \in 1 .. n
        PROVE  /\ R[i] = 0 <=> IsLocal(t[i])
               /\ R[i] = 0 <=> IsLocal(t[i]) /\ ~IsUndefined(t[i])
               /\ R[i] = 1 <=> IsExternal(t[i])
               /\ R[i] = 2 <=> IsUndefined(t[i])
    <3>1. /\ Rank(t[i]) = 0 <=> t[i].bind = "local"
          /\ Rank(t[i]) = 0 <=> t[i].bind = "local" /\ ~IsUndefined(t[i])
          /\ Rank(t[i]) = 1 <=> t[i].bind # "local" /\ ~IsUndefined(t[i])
          /\ Rank(t[i]) = 2 <=> IsUndefined(t[i])
      BY <1>3, RanksGroup
    <3>2. R[i] = Rank(t[i])
      BY <1>5
    <3>3. QED
      BY <3>1, <3>2 DEF IsLocal, IsExternal
  <2>2. QED
    BY <2>1
<1>10. file.symbols = t /\ file.kind = "macho"
  BY <1>1 DEF MachOFile
<1>11. file.groups[1] = a /\ file.groups[2] = b /\ file.groups[3] = c
  <2>1. /\ { i \in DOMAIN t : IsLocal(t[i]) /\ ~IsUndefined(t[i]) } = Ranked(R, n, 0)
        /\ { i \in DOMAIN t : IsExternal(t[i]) } = Ranked(R, n, 1)
        /\ { i \in DOMAIN t : IsUndefined(t[i]) } = Ranked(R, n, 2)
    BY <1>4, <1>9 DEF Ranked
  <2>2. file.groups = << Cardinality({ i \in DOMAIN t : IsLocal(t[i]) /\ ~IsUndefined(t[i]) }),
                         Cardinality({ i \in DOMAIN t : IsExternal(t[i]) }),
                         Cardinality({ i \in DOMAIN t : IsUndefined(t[i]) }) >>
    BY <1>1 DEF MachOFile, CountOf
  <2>3. file.groups = << a, b, c >>
    BY <1>7, <2>1, <2>2
  <2>4. QED
    BY <2>3
<1>12. GroupEnd(0) = 0 /\ GroupEnd(1) = a /\ GroupEnd(2) = a + b /\ GroupEnd(3) = a + b + c
  BY <1>8, <1>11 DEF GroupEnd
<1>13. \A i \in 1 .. n : GroupOf(t[i]) = R[i] + 1
  <2>1. ASSUME NEW i \in 1 .. n
        PROVE  GroupOf(t[i]) = R[i] + 1
    <3>1. GroupOf(t[i]) = IF IsLocal(t[i]) THEN 1 ELSE IF ~IsUndefined(t[i]) THEN 2 ELSE 3
      BY <1>10 DEF GroupOf
    <3>2. R[i] \in 0 .. 2
      BY <1>6
    <3>3. QED
      BY <1>9, <3>1, <3>2
  <2>2. QED
    BY <2>1
<1>14. ASSUME NEW i \in 1 .. n
       PROVE  i \in GroupEnd(GroupOf(t[i]) - 1) + 1 .. GroupEnd(GroupOf(t[i]))
  <2>1. R[i] \in 0 .. 2
    BY <1>6
  <2>2. CASE R[i] = 0
    <3>1. GroupOf(t[i]) = 1 /\ GroupOf(t[i]) - 1 = 0
      BY <1>13, <2>2
    <3>2. i \in 0 + 1 .. a
      BY <1>8, <2>2
    <3>3. QED
      BY <1>12, <3>1, <3>2
  <2>3. CASE R[i] = 1
    <3>1. GroupOf(t[i]) = 2 /\ GroupOf(t[i]) - 1 = 1
      BY <1>13, <2>3
    <3>2. QED
      BY <1>8, <1>12, <2>3, <3>1
  <2>4. CASE R[i] = 2
    <3>1. GroupOf(t[i]) = 3 /\ GroupOf(t[i]) - 1 = 2
      BY <1>13, <2>4
    <3>2. QED
      BY <1>8, <1>12, <2>4, <3>1
  <2>5. QED
    BY <2>1, <2>2, <2>3, <2>4
<1>15. ASSUME NEW i \in 1 .. n, NEW j \in 1 .. n, i < j, GroupOf(t[i]) = GroupOf(t[j]), ~IsLocal(t[i])
       PROVE  InAlphabet(t[i]) < InAlphabet(t[j])
  <2>1. R[i] = R[j] /\ R[i] # 0 /\ R[j] # 0
    BY <1>6, <1>9, <1>13, <1>15
  <2>2. InAlphabet(t[i]) <= InAlphabet(t[j])
    <3>1. GroupKey(t[i]) <= GroupKey(t[j])
      BY <1>1, <1>2, <1>15 DEF InGroups
    <3>2. QED
      BY <1>5, <2>1, <3>1, KeyTells
  <2>3. t[i].name \in Names /\ t[j].name \in Names
    BY <1>3, <1>9, <2>1 DEF RightEntry, IsLocal
  <2>4. InAlphabet(t[i]) # InAlphabet(t[j])
    <3>1. t[i].name # t[j].name
      BY <1>3, <1>15, <2>3
    <3>2. QED
      BY <2>3, <3>1, NamesApart
  <2>5. InAlphabet(t[i]) \in 1 .. Len(Alphabet) + 1 /\ InAlphabet(t[j]) \in 1 .. Len(Alphabet) + 1
    BY InAlphabetKnown
  <2>6. Len(Alphabet) \in Nat
    BY AlphabetLong
  <2>7. QED
    BY <2>2, <2>4, <2>5, <2>6
<1>16. QED
  BY <1>4, <1>10, <1>14, <1>15

\* In ELF the local ones come first, whatever the order was.
LEMMA ElfGroups ==
  ASSUME NEW o, IsSequence(o.symbols), file = ElfFile(o)
  PROVE  \A i \in DOMAIN file.symbols :
              LET g == GroupOf(file.symbols[i]) IN i \in GroupEnd(g - 1) + 1 .. GroupEnd(g)
<1>1. PICK t, n, p, u : t = o.symbols /\ n = Len(t) /\ p = LocalsFirst(t) /\ u = file.symbols
  OBVIOUS
<1>2. PICK m : First(p, t, m) /\ m = CountOf(t, IsLocal)
  BY <1>1, LocalsFirstIs
<1>3. Permutes(p, t, u)
  BY <1>1, ElfFileSymbols
<1>4. n \in Nat /\ m \in 0 .. n /\ DOMAIN u = 1 .. n
  BY <1>1, <1>2, <1>3 DEF Permutes, IsSequence, First
<1>5. \A i \in 1 .. n : IsLocal(u[i]) <=> i <= m
  BY <1>1, <1>2, <1>3 DEF Permutes, First
<1>6. file.groups[1] = m /\ file.groups[2] = n - m /\ file.kind = "elf"
  <2>1. file.groups = << m, n - m >> /\ file.kind = "elf"
    BY <1>1, <1>2 DEF ElfFile
  <2>2. QED
    BY <2>1
<1>7. GroupEnd(0) = 0 /\ GroupEnd(1) = m /\ GroupEnd(2) = n
  BY <1>4, <1>6 DEF GroupEnd
<1>8. ASSUME NEW i \in 1 .. n
      PROVE  i \in GroupEnd(GroupOf(u[i]) - 1) + 1 .. GroupEnd(GroupOf(u[i]))
  <2>1. GroupOf(u[i]) = IF IsLocal(u[i]) THEN 1 ELSE 2
    BY <1>6 DEF GroupOf
  <2>2. CASE i <= m
    <3>1. GroupOf(u[i]) = 1 /\ GroupOf(u[i]) - 1 = 0
      BY <1>5, <2>1, <2>2
    <3>2. QED
      BY <1>4, <1>7, <2>2, <3>1
  <2>3. CASE i > m
    <3>1. GroupOf(u[i]) = 2 /\ GroupOf(u[i]) - 1 = 1
      BY <1>4, <1>5, <2>1, <2>3
    <3>2. QED
      BY <1>4, <1>7, <2>3, <3>1
  <2>4. QED
    BY <1>4, <2>2, <2>3
<1>9. QED
  BY <1>1, <1>4, <1>8

\* write_macho and write_elf: the counts they put in the headers cut the
\* symbol table where its groups begin, and what is not local is in the
\* order of its names.
THEOREM TableIsCut == ObjectsSpec => []GroupsContiguous
<1>1. Assembled /\ ObjectInv => GroupsContiguous
  <2>1. SUFFICES ASSUME Assembled, ObjectInv, IsWritten
                 PROVE  GroupsContiguous
    BY DEF GroupsContiguous
  <2>2. /\ format \in {"macho", "elf"} /\ object.kind = format /\ GoodSymbols(object)
        /\ file.kind = format
        /\ file = IF format = "macho" THEN MachOFile(object) ELSE ElfFile(object)
    BY <2>1, WrittenIs
  <2>3. CASE format = "macho"
    <3>1. object.kind = "macho" /\ file = MachOFile(object)
      BY <2>2, <2>3
    <3>2. QED
      BY <2>2, <2>3, <3>1, MachOGroups DEF GroupsContiguous
  <2>4. CASE format = "elf"
    <3>1. file = ElfFile(object) /\ IsSequence(object.symbols)
      BY <2>2, <2>4 DEF GoodSymbols, EntriesFor
    <3>2. QED
      BY <2>2, <2>4, <3>1, ElfGroups DEF GroupsContiguous
  <2>5. QED
    BY <2>2, <2>3, <2>4
<1>2. QED
  BY <1>1, AssembledHolds, ObjectHolds, PTL

-----------------------------------------------------------------------------
(* The relocations of the file. *)

\* v has the offsets of s in the order p, with those of one offset as they
\* follow each other in s.
Follow(p, v, s) ==
    /\ Arranges(p, Len(s))
    /\ Len(v) = Len(s)
    /\ \A i \in 1 .. Len(s) : v[i].offset = s[p[i]].offset
    /\ \A i, j \in 1 .. Len(s) : i < j /\ p[j] < p[i] => v[i].offset # v[j].offset

\* The elements of a list at an offset.
ThoseAt(s, o) == Those(s, { r \in ToSet(s) : r.offset = o })

PlacesAt(s, o) == { i \in 1 .. Len(s) : s[i].offset = o }

SelectsAt(f, u, s, o) ==
    /\ Enumerates(f, Len(u), PlacesAt(s, o))
    /\ \A k \in 1 .. Len(u) : u[k] = s[f[k]]

\* Where those of an offset stand in the list.
LEMMA AtSelects ==
  ASSUME NEW S, NEW s \in Seq(S), NEW o
  PROVE  /\ Len(ThoseAt(s, o)) \in Nat
         /\ \E f : SelectsAt(f, ThoseAt(s, o), s, o)
<1>1. PICK T : T = { r \in ToSet(s) : r.offset = o }
  OBVIOUS
<1>2. PICK f : Selects(f, s, T)
  BY ThoseEnumerates
<1>3. ThoseAt(s, o) = Those(s, T)
  BY <1>1 DEF ThoseAt
<1>4. { i \in 1 .. Len(s) : s[i] \in T } = { i \in 1 .. Len(s) : s[i].offset = o }
  <2>1. \A i \in 1 .. Len(s) : s[i] \in ToSet(s)
    BY DEF ToSet
  <2>2. QED
    BY <1>1, <2>1
<1>5. SelectsAt(f, ThoseAt(s, o), s, o)
  BY <1>2, <1>3, <1>4 DEF Selects, SelectsAt, PlacesAt
<1>6. Len(ThoseAt(s, o)) \in Nat
  BY <1>5 DEF SelectsAt, Enumerates
<1>7. QED
  BY <1>5, <1>6

\* Through such an order, what is at one offset stays in step.
LEMMA StaysInStep ==
  ASSUME NEW S, NEW s \in Seq(S), NEW V, NEW v \in Seq(V), NEW p, Follow(p, v, s), NEW o
  PROVE  /\ Len(ThoseAt(v, o)) = Len(ThoseAt(s, o)) /\ Len(ThoseAt(s, o)) \in Nat
         /\ \A k \in 1 .. Len(ThoseAt(s, o)) : \E i \in 1 .. Len(s) :
               ThoseAt(v, o)[k] = v[i] /\ ThoseAt(s, o)[k] = s[p[i]]
<1>1. PICK n \in Nat : n = Len(s) /\ n = Len(v)
  BY DEF Follow
<1>2. PICK D, E : /\ D = { i \in 1 .. n : v[i].offset = o }
                  /\ E = { i \in 1 .. n : s[i].offset = o }
  OBVIOUS
<1>a. D = PlacesAt(v, o) /\ E = PlacesAt(s, o)
  BY <1>1, <1>2 DEF PlacesAt
<1>b. PICK f : SelectsAt(f, ThoseAt(v, o), v, o)
  BY AtSelects
<1>c. PICK g : SelectsAt(g, ThoseAt(s, o), s, o)
  BY AtSelects
<1>3. /\ Enumerates(f, Len(ThoseAt(v, o)), D)
      /\ \A k \in 1 .. Len(ThoseAt(v, o)) : ThoseAt(v, o)[k] = v[f[k]]
  BY <1>a, <1>b DEF SelectsAt
<1>4. /\ Enumerates(g, Len(ThoseAt(s, o)), E)
      /\ \A k \in 1 .. Len(ThoseAt(s, o)) : ThoseAt(s, o)[k] = s[g[k]]
  BY <1>a, <1>c DEF SelectsAt
<1>5. PICK m : m = Len(ThoseAt(v, o))
  OBVIOUS
<1>6. /\ m \in Nat /\ f \in [1 .. m -> D]
      /\ \A i, j \in 1 .. m : i < j => f[i] < f[j]
      /\ \A d \in D : \E i \in 1 .. m : f[i] = d
  BY <1>3, <1>5 DEF Enumerates
<1>7. /\ p \in [1 .. n -> 1 .. n]
      /\ \A i, j \in 1 .. n : p[i] = p[j] => i = j
      /\ \A i \in 1 .. n : v[i].offset = s[p[i]].offset
      /\ \A i, j \in 1 .. n : i < j /\ p[j] < p[i] => v[i].offset # v[j].offset
  BY <1>1 DEF Follow, Arranges
<1>8. PICK h : h = [k \in 1 .. m |-> p[f[k]]]
  OBVIOUS
<1>9. h \in [1 .. m -> E]
  <2>1. ASSUME NEW k \in 1 .. m
        PROVE  p[f[k]] \in E
    <3>1. f[k] \in 1 .. n /\ v[f[k]].offset = o
      BY <1>2, <1>6
    <3>2. p[f[k]] \in 1 .. n /\ s[p[f[k]]].offset = o
      BY <1>7, <3>1
    <3>3. QED
      BY <1>2, <3>2
  <2>2. QED
    BY <1>8, <2>1
<1>10. ASSUME NEW i \in 1 .. m, NEW j \in 1 .. m, i < j
       PROVE  h[i] < h[j]
  <2>1. f[i] \in 1 .. n /\ f[j] \in 1 .. n /\ f[i] < f[j] /\ v[f[i]].offset = v[f[j]].offset
    BY <1>2, <1>6, <1>10
  <2>2. p[f[i]] \in 1 .. n /\ p[f[j]] \in 1 .. n /\ p[f[i]] # p[f[j]] /\ ~ (p[f[j]] < p[f[i]])
    <3>1. PICK a \in 1 .. n, b \in 1 .. n : a = f[i] /\ b = f[j]
      BY <2>1
    <3>2. a < b /\ v[a].offset = v[b].offset
      BY <2>1, <3>1
    <3>3. p[a] \in 1 .. n /\ p[b] \in 1 .. n /\ p[a] # p[b] /\ ~ (p[b] < p[a])
      BY <1>7, <3>2
    <3>4. QED
      BY <3>1, <3>3
  <2>3. p[f[i]] < p[f[j]]
    BY <2>2
  <2>4. QED
    BY <1>8, <2>3
<1>11. ASSUME NEW d \in E
       PROVE  \E k \in 1 .. m : h[k] = d
  <2>1. d \in 1 .. n /\ s[d].offset = o
    BY <1>2
  <2>2. PICK i \in 1 .. n : p[i] = d
    BY <1>1, <2>1, ArrangesAll DEF Follow
  <2>3. i \in D
    BY <1>2, <1>7, <2>1, <2>2
  <2>4. PICK k \in 1 .. m : f[k] = i
    BY <1>6, <2>3
  <2>5. QED
    BY <1>8, <2>2, <2>4
<1>12. Enumerates(h, m, E)
  BY <1>6, <1>9, <1>10, <1>11 DEF Enumerates
<1>13. E \in SUBSET Nat
  BY <1>2
<1>14. m = Len(ThoseAt(s, o)) /\ h = g
  BY <1>4, <1>12, <1>13, EnumerationsAgree
<1>15. ASSUME NEW k \in 1 .. m
       PROVE  \E i \in 1 .. n : ThoseAt(v, o)[k] = v[i] /\ ThoseAt(s, o)[k] = s[p[i]]
  <2>1. f[k] \in 1 .. n
    BY <1>2, <1>6
  <2>2. ThoseAt(v, o)[k] = v[f[k]]
    BY <1>3, <1>5
  <2>3. ThoseAt(s, o)[k] = s[p[f[k]]]
    BY <1>4, <1>8, <1>14
  <2>4. QED
    BY <2>1, <2>2, <2>3
<1>16. QED
  BY <1>1, <1>5, <1>6, <1>14, <1>15

\* Every numbered relocation of rs is of the one of asked that stands there.
PointAll(t, rs, asked) ==
    /\ IsSequence(rs) /\ Len(rs) = Len(asked)
    /\ \A k \in 1 .. Len(rs) : Points(t, rs[k], asked[k]) /\ asked[k].offset \in Int

\* sorted_relocations: falling offsets, and at one offset the order there was.
LEMMA DescendingIs ==
  ASSUME NEW t, NEW rs, NEW asked, PointAll(t, rs, asked)
  PROVE  /\ Descending(rs) \in Seq(ToSet(rs)) /\ Len(Descending(rs)) = Len(rs)
         /\ \E p : /\ Arranges(p, Len(rs))
                   /\ \A i \in 1 .. Len(rs) : Descending(rs)[i] = rs[p[i]]
                   /\ \A i, j \in 1 .. Len(rs) :
                         i < j => Descending(rs)[i].offset >= Descending(rs)[j].offset
                   /\ \A i, j \in 1 .. Len(rs) :
                         i < j /\ p[j] < p[i] => Descending(rs)[i].offset # Descending(rs)[j].offset
<1>1. /\ IsSequence(rs) /\ rs \in Seq(ToSet(rs)) /\ DOMAIN rs = 1 .. Len(rs) /\ Len(rs) \in Nat
  BY DEF PointAll, IsSequence
<1>2. ASSUME NEW k \in 1 .. Len(rs)
      PROVE  rs[k].offset \in Int
  <2>1. Points(t, rs[k], asked[k]) /\ asked[k].offset \in Int
    BY DEF PointAll
  <2>2. rs[k].offset = asked[k].offset
    BY <2>1 DEF Points, NumberOf
  <2>3. QED
    BY <2>1, <2>2
<1>3. \A r \in ToSet(rs) : r.offset \in Int
  BY <1>1, <1>2 DEF ToSet
<1>4. PICK S : S = ToSet(rs)
  OBVIOUS
<1>5. PICK behind : behind = { q \in S \X S : q[1].offset < q[2].offset }
  OBVIOUS
<1>6. \A a, b \in S : <<a, b>> \in behind <=> a.offset < b.offset
  BY <1>5
<1>7. PICK key : key = [r \in S |-> - r.offset]
  OBVIOUS
<1>8. key \in [S -> Int] /\ AgreesWith(behind, key, S)
  BY <1>3, <1>4, <1>6, <1>7 DEF AgreesWith
<1>9. PICK v : v = Sorted(rs, behind)
  OBVIOUS
<1>10. v = Descending(rs)
  BY <1>4, <1>5, <1>9 DEF Descending
<1>11. rs \in Seq(S)
  BY <1>1, <1>4
<1>12. v \in Seq(S) /\ \E p : Arranged(p, Len(rs), rs, v, behind, key)
  BY <1>8, <1>9, <1>11, SortedIs
<1>13. PICK p : Arranged(p, Len(rs), rs, v, behind, key)
  BY <1>12
<1>14. /\ Arranges(p, Len(rs)) /\ Len(v) = Len(rs)
       /\ \A i \in 1 .. Len(rs) : v[i] = rs[p[i]]
       /\ \A i, j \in 1 .. Len(rs) : i < j => key[v[i]] <= key[v[j]]
       /\ \A i, j \in 1 .. Len(rs) : i < j /\ p[j] < p[i] => <<v[j], v[i]>> \in behind
  BY <1>13 DEF Arranged
<1>15. \A i \in 1 .. Len(rs) : v[i] \in S /\ v[i].offset \in Int
  BY <1>3, <1>4, <1>12, <1>14
<1>16. ASSUME NEW i \in 1 .. Len(rs), NEW j \in 1 .. Len(rs), i < j
       PROVE  v[i].offset >= v[j].offset
  <2>1. key[v[i]] = - v[i].offset /\ key[v[j]] = - v[j].offset
    BY <1>7, <1>15
  <2>2. key[v[i]] <= key[v[j]]
    BY <1>14, <1>16
  <2>3. QED
    BY <1>15, <2>1, <2>2
<1>17. ASSUME NEW i \in 1 .. Len(rs), NEW j \in 1 .. Len(rs), i < j, p[j] < p[i]
       PROVE  v[i].offset # v[j].offset
  <2>1. v[j].offset < v[i].offset
    BY <1>6, <1>14, <1>15, <1>17
  <2>2. QED
    BY <1>15, <2>1
<1>18. QED
  BY <1>4, <1>10, <1>12, <1>14, <1>16, <1>17

\* A relocation of the file says what was asked for.
Says(t, f, r) ==
    /\ f.type = r.type
    /\ f.addend = (IF r.target.kind = "raw" THEN r.target.value ELSE r.addend)
    /\ r.target.kind = "symbol" => t[f.symbol].name = r.target.name
    /\ r.target.kind = "section" => t[f.symbol] = SectionEntry(r.target.section)

\* What is numbered says what was asked for.
LEMMA PointsSay ==
  ASSUME NEW t, NEW f, NEW r, Points(t, f, r)
  PROVE  Says(t, f, r) /\ f.offset = r.offset
BY DEF Points, Says, NumberOf

\* Relocations v of the file that follow those that were asked for.
StillAsked(t, v, asked) ==
    /\ \E S : v \in Seq(S)
    /\ \E S : asked \in Seq(S)
    /\ \E p : /\ Follow(p, v, asked)
              /\ \A i \in 1 .. Len(asked) : Says(t, v[i], asked[p[i]])

\* write_macho sorts the relocations of a section.
LEMMA MachOKeeps ==
  ASSUME NEW t, NEW rs, NEW asked, NEW S, asked \in Seq(S), PointAll(t, rs, asked)
  PROVE  StillAsked(t, Descending(rs), asked)
<1>1. PICK v, n : v = Descending(rs) /\ n = Len(rs)
  OBVIOUS
<1>2. v \in Seq(ToSet(rs)) /\ Len(v) = n
  BY <1>1, DescendingIs
<1>3. PICK p : /\ Arranges(p, n)
               /\ \A i \in 1 .. n : v[i] = rs[p[i]]
               /\ \A i, j \in 1 .. n : i < j /\ p[j] < p[i] => v[i].offset # v[j].offset
  BY <1>1, DescendingIs
<1>4. n = Len(asked) /\ \A k \in 1 .. n : Points(t, rs[k], asked[k])
  BY <1>1 DEF PointAll
<1>5. ASSUME NEW i \in 1 .. n
      PROVE  Says(t, v[i], asked[p[i]]) /\ v[i].offset = asked[p[i]].offset
  <2>1. p[i] \in 1 .. n /\ v[i] = rs[p[i]]
    BY <1>3 DEF Arranges
  <2>2. Points(t, v[i], asked[p[i]])
    BY <1>4, <2>1
  <2>3. QED
    BY <2>2, PointsSay
<1>6. Follow(p, v, asked)
  BY <1>2, <1>3, <1>4, <1>5 DEF Follow
<1>7. QED
  BY <1>1, <1>2, <1>4, <1>5, <1>6 DEF StillAsked

\* model_to_file leaves them in their order, and puts the symbols in another.
LEMMA ElfKeeps ==
  ASSUME NEW o, IsSequence(o.symbols), NEW i, NEW asked, NEW S, asked \in Seq(S),
         PointAll(o.symbols, o.relocs[i], asked), i \in DOMAIN o.relocs
  PROVE  StillAsked(ElfFile(o).symbols, ElfFile(o).relocs[i], asked)
<1>1. PICK t, order, rs, v, n, u :
               /\ t = o.symbols /\ order = LocalsFirst(t) /\ rs = o.relocs[i]
               /\ v = ElfFile(o).relocs[i] /\ n = Len(rs) /\ u = ElfFile(o).symbols
  OBVIOUS
<1>2. /\ IsSequence(rs) /\ n = Len(asked) /\ n \in Nat /\ DOMAIN rs = 1 .. n
      /\ \A k \in 1 .. n : Points(t, rs[k], asked[k])
  BY <1>1 DEF PointAll, IsSequence
<1>3. v = [k \in 1 .. n |-> [rs[k] EXCEPT !.symbol = FileIndex(order, @)]]
  BY <1>1, <1>2 DEF ElfFile
<1>4. /\ u = [x \in DOMAIN order |-> t[order[x]]]
      /\ Arranges(order, Len(t)) /\ IsSequence(order) /\ Len(order) = Len(t)
      /\ Len(t) \in Nat
  <2>1. \E m : /\ IsSequence(order) /\ Len(order) = Len(t)
               /\ Arranges(order, Len(t)) /\ First(order, t, m)
               /\ m = CountOf(t, IsLocal)
    BY <1>1, LocalsFirstIs
  <2>2. u = [x \in DOMAIN order |-> t[order[x]]]
    BY <1>1 DEF ElfFile
  <2>3. Len(t) \in Nat
    BY <1>1 DEF IsSequence
  <2>4. QED
    BY <2>1, <2>2, <2>3
<1>5. ASSUME NEW x \in 1 .. Len(t)
      PROVE  u[FileIndex(order, x)] = t[x]
  <2>1. x \in ToSet(order)
    <3>1. \E k \in 1 .. Len(t) : order[k] = x
      BY <1>4, ArrangesAll
    <3>2. DOMAIN order = 1 .. Len(t)
      BY <1>4 DEF IsSequence
    <3>3. QED
      BY <3>1, <3>2 DEF ToSet
  <2>2. order \in Seq(ToSet(order))
    BY <1>4 DEF IsSequence
  <2>3. FileIndex(order, x) \in 1 .. Len(order) /\ order[FileIndex(order, x)] = x
    BY <2>1, <2>2, PositionIs DEF FileIndex
  <2>4. FileIndex(order, x) \in DOMAIN order
    BY <2>2, <2>3
  <2>5. QED
    BY <1>4, <2>3, <2>4
<1>6. ASSUME NEW k \in 1 .. n
      PROVE  Says(u, v[k], asked[k]) /\ v[k].offset = asked[k].offset
  <2>1. Points(t, rs[k], asked[k])
    BY <1>2
  <2>2. PICK x : x = rs[k].symbol /\ rs[k] = NumberOf(asked[k], x)
    BY <2>1 DEF Points
  <2>3. v[k] = [rs[k] EXCEPT !.symbol = FileIndex(order, @)]
    BY <1>3
  <2>4. /\ v[k].type = rs[k].type /\ v[k].offset = rs[k].offset /\ v[k].addend = rs[k].addend
        /\ v[k].symbol = FileIndex(order, rs[k].symbol)
    BY <2>2, <2>3 DEF NumberOf
  <2>5. Says(t, rs[k], asked[k]) /\ rs[k].offset = asked[k].offset
    BY <2>1, PointsSay
  <2>6. asked[k].target.kind # "raw" => u[v[k].symbol] = t[rs[k].symbol]
    <3>1. asked[k].target.kind # "raw" => rs[k].symbol \in 1 .. Len(t)
      BY <2>1 DEF Points
    <3>2. QED
      BY <1>5, <2>4, <3>1
  <2>7. Says(u, v[k], asked[k])
    BY <2>4, <2>5, <2>6 DEF Says
  <2>8. QED
    BY <2>4, <2>5, <2>7
<1>7. PICK p : p = [k \in 1 .. n |-> k]
  OBVIOUS
<1>8. v \in Seq(ToSet(v)) /\ Len(v) = n
  <2>1. \A k \in 1 .. n : v[k] \in ToSet(v)
    BY <1>3 DEF ToSet
  <2>2. v = [k \in 1 .. n |-> v[k]]
    BY <1>3
  <2>3. QED
    BY <1>2, <2>1, <2>2
<1>9. Follow(p, v, asked)
  <2>1. Arranges(p, n) /\ \A a, b \in 1 .. n : ~ (a < b /\ p[b] < p[a])
    BY <1>2, <1>7 DEF Arranges
  <2>2. \A k \in 1 .. n : v[k].offset = asked[p[k]].offset
    BY <1>6, <1>7
  <2>3. QED
    BY <1>2, <1>8, <2>1, <2>2 DEF Follow
<1>10. \A k \in 1 .. n : Says(u, v[k], asked[p[k]])
  BY <1>6, <1>7
<1>11. QED
  BY <1>1, <1>2, <1>8, <1>9, <1>10 DEF StillAsked

\* What still is asked is asked at every offset, in that order.
LEMMA AskedInStep ==
  ASSUME NEW t, NEW v, NEW asked, StillAsked(t, v, asked), NEW o
  PROVE  /\ Len(ThoseAt(v, o)) = Len(ThoseAt(asked, o)) /\ Len(ThoseAt(asked, o)) \in Nat
         /\ \A k \in 1 .. Len(ThoseAt(asked, o)) :
               Says(t, ThoseAt(v, o)[k], ThoseAt(asked, o)[k])
<1>1. PICK S, V : v \in Seq(V) /\ asked \in Seq(S)
  BY DEF StillAsked
<1>2. PICK p : Follow(p, v, asked) /\ \A i \in 1 .. Len(asked) : Says(t, v[i], asked[p[i]])
  BY DEF StillAsked
<1>3. /\ Len(ThoseAt(v, o)) = Len(ThoseAt(asked, o)) /\ Len(ThoseAt(asked, o)) \in Nat
      /\ \A k \in 1 .. Len(ThoseAt(asked, o)) : \E i \in 1 .. Len(asked) :
            ThoseAt(v, o)[k] = v[i] /\ ThoseAt(asked, o)[k] = asked[p[i]]
  BY <1>1, <1>2, StaysInStep
<1>4. QED
  BY <1>2, <1>3

\* Of the object, every section is still what was asked for.
LEMMA SectionsKept ==
  ASSUME Assembled, ObjectInv, IsWritten, NEW i \in DOMAIN layout.sections
  PROVE  StillAsked(file.symbols, file.relocs[i], InSectionOf(relocs, i))
<1>1. /\ format \in {"macho", "elf"} /\ object.kind = format /\ GoodSymbols(object)
      /\ file = IF format = "macho" THEN MachOFile(object) ELSE ElfFile(object)
  BY WrittenIs
<1>2. GoodRelocs(object)
  BY DEF ObjectInv, IsWritten, None
<1>3. IsSequence(relocs) /\ IsSequence(object.symbols)
  <2>1. IsSequence(relocs)
    BY DEF Assembled, FixupsInv
  <2>2. QED
    BY <1>1, <2>1 DEF GoodSymbols, EntriesFor
<1>4. PICK asked : asked = InSectionOf(relocs, i)
  OBVIOUS
<1>5. asked \in Seq(ToSet(asked))
  <2>1. IsSequence(asked)
    BY <1>3, <1>4, SectionRelocs
  <2>2. QED
    BY <2>1 DEF IsSequence
<1>6. i \in DOMAIN object.relocs /\ PointAll(object.symbols, object.relocs[i], asked)
  BY <1>2, <1>4 DEF GoodRelocs, PointAll
<1>7. CASE format = "macho"
  <2>1. file.symbols = object.symbols /\ file.relocs[i] = Descending(object.relocs[i])
    BY <1>1, <1>6, <1>7 DEF MachOFile
  <2>2. StillAsked(object.symbols, Descending(object.relocs[i]), asked)
    BY <1>5, <1>6, MachOKeeps
  <2>3. QED
    BY <1>4, <2>1, <2>2
<1>8. CASE format = "elf"
  <2>1. StillAsked(ElfFile(object).symbols, ElfFile(object).relocs[i], asked)
    BY <1>3, <1>5, <1>6, ElfKeeps
  <2>2. QED
    BY <1>1, <1>4, <1>8, <2>1
<1>9. QED
  BY <1>1, <1>7, <1>8

\* finish and finish_elf, write_macho and write_elf: a relocation of the file
\* names what the fixup asked for, and those of one place follow each other
\* as they were recorded.
THEOREM RelocationsAreKept == ObjectsSpec => []RelocationsKept
<1>1. Assembled /\ ObjectInv => RelocationsKept
  <2>1. SUFFICES ASSUME Assembled, ObjectInv, IsWritten, NEW i \in DOMAIN layout.sections
                 PROVE  /\ Len(file.relocs[i]) = Len(InSectionOf(relocs, i))
                        /\ \A o \in { r.offset : r \in ToSet(InSectionOf(relocs, i)) } :
                              /\ Len(ThoseAt(file.relocs[i], o)) = Len(ThoseAt(InSectionOf(relocs, i), o))
                              /\ \A k \in DOMAIN ThoseAt(InSectionOf(relocs, i), o) :
                                    Answers(ThoseAt(file.relocs[i], o)[k],
                                            ThoseAt(InSectionOf(relocs, i), o)[k])
    BY DEF RelocationsKept, ThoseAt
  <2>2. PICK v, asked : v = file.relocs[i] /\ asked = InSectionOf(relocs, i)
    OBVIOUS
  <2>3. StillAsked(file.symbols, v, asked)
    BY <2>1, <2>2, SectionsKept
  <2>4. Len(v) = Len(asked)
    BY <2>3 DEF StillAsked, Follow
  <2>5. ASSUME NEW o
        PROVE  /\ Len(ThoseAt(v, o)) = Len(ThoseAt(asked, o))
               /\ \A k \in DOMAIN ThoseAt(asked, o) :
                     Answers(ThoseAt(v, o)[k], ThoseAt(asked, o)[k])
    <3>1. /\ Len(ThoseAt(v, o)) = Len(ThoseAt(asked, o)) /\ Len(ThoseAt(asked, o)) \in Nat
          /\ \A k \in 1 .. Len(ThoseAt(asked, o)) :
                Says(file.symbols, ThoseAt(v, o)[k], ThoseAt(asked, o)[k])
      BY <2>3, AskedInStep
    <3>2. DOMAIN ThoseAt(asked, o) = 1 .. Len(ThoseAt(asked, o))
      <4>1. PICK S : asked \in Seq(S)
        BY <2>3 DEF StillAsked
      <4>2. ThoseAt(asked, o) \in Seq(S)
        BY <4>1, ThoseEnumerates DEF ThoseAt
      <4>3. QED
        BY <4>2
    <3>3. \A f, r : Says(file.symbols, f, r) => Answers(f, r)
      BY Zenon DEF Says, Answers, SectionEntry
    <3>4. QED
      BY <3>1, <3>2, <3>3
  <2>6. QED
    BY <2>2, <2>4, <2>5
<1>2. QED
  BY <1>1, AssembledHolds, ObjectHolds, PTL

-----------------------------------------------------------------------------
(* What the writers check of relocations: bounds and pairs. *)

\* Section x.section has n bytes from x.offset on.
RoomFor(x, n) ==
    /\ x.section \in 1 .. Len(layout.sections) /\ x.offset \in Nat
    /\ layout.sections[x.section].kind # "zerofill"
    /\ x.offset + n <= layout.sections[x.section].size
    /\ x.offset + n <= layout.sections[x.section].len

\* The bytes of a fixup are in its section, as its statement emitted them.
LEMMA FixupsFit ==
  ASSUME Inv, SourceKnown, StatementsInv, phase \in {"fixups", "finish"},
         NEW k \in 1 .. Len(fixups), NEW fix, fix = fixups[k]
  PROVE  RoomFor(fix, Width(fix))
<1>2. /\ Len(trail) = Len(prog) + 1 /\ Len(prog) \in Nat /\ trail \in Seq(Layouts)
      /\ \A i \in 1 .. Len(prog) : IsStatement(prog[i])
      /\ Agree(layout, Final, Final) /\ layout \in Layouts
  BY DEF Inv, PhaseInv, TypeOK
<1>3. PICK s \in 1 .. Len(prog) : s = fix.stmt
  BY DEF StatementsInv, FixesStatement
<1>5. FixesStatement(fix)
  BY DEF StatementsInv
<1>6. PICK x \in Layouts : x = trail[s]
  BY <1>2
<1>7. PICK y \in Layouts : y = trail[s + 1]
  BY <1>2
<1>8. PICK z \in Layouts : z = Final
  BY <1>2 DEF Final
<1>9. PICK i \in 1 .. Len(x.sections) : /\ i = x.section /\ i = fix.section
                                        /\ fix.offset = x.sections[i].size
  BY <1>3, <1>5, <1>6 DEF FixesStatement, Current, Layouts
<1>10. /\ x.sections \in Seq(Section) /\ y.sections \in Seq(Section)
       /\ z.sections \in Seq(Section) /\ layout.sections \in Seq(Section)
  BY <1>2 DEF Layouts
<1>11. PICK n \in Nat \ {0} : n = prog[s].bytes /\ n = Width(fix)
  <2>1. NamesSymbols(prog[s]) /\ prog[s].op \in {"quad", "fixup"}
    BY <1>3, <1>5, SymbolsAssumption DEF SourceKnown, FixesStatement
  <2>2. "Data64" \notin DOMAIN Bits \union PageKinds
    BY SymbolsAssumption DEF PageKinds
  <2>3. CASE prog[s].op = "quad"
    <3>1. prog[s].bytes = 8 /\ fix.kind = "Data64"
      BY <1>3, <1>5, <2>1, <2>3 DEF NamesSymbols, FixesStatement
    <3>2. QED
      BY <3>1 DEF Width
  <2>4. CASE prog[s].op = "fixup"
    <3>1. prog[s].bytes = 4 /\ fix.kind # "Data64"
      BY <1>3, <1>5, <2>1, <2>2, <2>4 DEF NamesSymbols, FixesStatement
    <3>2. QED
      BY <3>1 DEF Width
  <2>5. QED
    BY <2>1, <2>3, <2>4
<1>12. /\ Len(y.sections) = Len(x.sections)
       /\ y.sections[i].size = x.sections[i].size + n
       /\ y.sections[i].kind # "zerofill"
       /\ x.sections[i].size \in Nat
  <2>1. PICK o : o = prog[s]
    OBVIOUS
  <2>2. o.op \in ByteOps /\ o.bytes = n
    BY <1>3, <1>5, <1>11, <2>1 DEF FixesStatement, ByteOps
  <2>3. FirstPass(o, x, y)
    BY <1>2, <1>6, <1>7, <2>1 DEF Inv, TrailInv
  <2>4. o.op \in Local /\ o.op \notin Quiet /\ o.op # "section" /\ o.op # "zerofill"
    BY <2>2 DEF Local, Quiet, SymbolOps, ByteOps
  <2>5. y = Replace(x, i, Grow(x.sections[i], n)) /\ x.sections[i].kind # "zerofill"
    <3>1. Opened(o, x) = x /\ Target(o, x) = i
      BY <1>9, <2>4 DEF Opened, Target
    <3>2. y = Replace(x, i, Measured(o, x.sections[i])) /\ Measurable(o, x.sections[i])
      BY <2>3, <2>4, <3>1 DEF FirstPass
    <3>3. Measured(o, x.sections[i]) = Grow(x.sections[i], n)
      BY <2>2 DEF Measured, ByteOps
    <3>4. CanReserve(x.sections[i], n)
      BY <2>2, <3>2 DEF Measurable, ByteOps
    <3>5. QED
      BY <3>2, <3>3, <3>4 DEF CanReserve
  <2>6. x.sections[i] \in Section
    BY <1>10
  <2>7. x.sections[i].size \in Nat
    BY <2>6 DEF Section
  <2>8. /\ Grow(x.sections[i], n) \in Section /\ Grow(x.sections[i], n).size = x.sections[i].size + n
        /\ Grow(x.sections[i], n).kind = x.sections[i].kind
    BY <2>6, GrowLemma
  <2>9. QED
    BY <2>5, <2>6, <2>8, <2>7, ReplaceLemma
<1>13. Extends(y.sections, z.sections)
  <2>1. s + 1 \in 1 .. Len(trail) /\ Len(trail) \in 1 .. Len(trail) /\ s + 1 <= Len(trail)
    BY <1>2
  <2>2. QED
    BY <1>2, <1>7, <1>8, <2>1, TrailGrows DEF Final
<1>14. /\ i \in 1 .. Len(z.sections) /\ Later(y.sections[i], z.sections[i])
  BY <1>10, <1>12, <1>13 DEF Extends
<1>15. /\ i \in 1 .. Len(layout.sections)
       /\ layout.sections[i].kind = z.sections[i].kind
       /\ layout.sections[i].size = z.sections[i].size
       /\ Filled(layout.sections[i])
  BY <1>2, <1>8, <1>10, <1>14 DEF Agree
<1>16. layout.sections[i].kind # "zerofill" /\ layout.sections[i].len = layout.sections[i].size
  BY <1>12, <1>14, <1>15 DEF Later, Filled
<1>17. y.sections[i] \in Section /\ z.sections[i] \in Section
  BY <1>10, <1>12, <1>14
<1>18. y.sections[i].size \in Nat /\ z.sections[i].size \in Nat
  BY <1>17 DEF Section
<1>19. x.sections[i].size + n <= z.sections[i].size
  BY <1>12, <1>14, <1>18 DEF Later
<1>20. QED
  BY <1>9, <1>11, <1>12, <1>15, <1>16, <1>19 DEF RoomFor

\* Every relocation that needs a partner is followed by one.
Paired(s) ==
    \A j \in 1 .. Len(s) :
        Partners(s[j].type) # {} =>
            /\ j < Len(s)
            /\ s[j + 1].section = s[j].section /\ s[j + 1].offset = s[j].offset
            /\ s[j + 1].type \in Partners(s[j].type)

\* A raw value is what an ADDEND has, and no other; ELF has none.
Shaped(r) ==
    /\ r.target.kind = "raw" <=> r.type = "ADDEND"
    /\ r.type = "ADDEND" => format = "macho"

\* Pairs stay pairs when more follow them.
LEMMA PairsJoin ==
  ASSUME NEW s, IsSequence(s), Paired(s), NEW u, IsSequence(u), Paired(u)
  PROVE  Paired(s \o u)
<1>0. PICK v : v = s \o u
  OBVIOUS
<1>1. PICK m \in Nat, n \in Nat : m = Len(s) /\ n = Len(u)
  BY SequencesJoin
<1>2. /\ Len(v) = m + n
      /\ \A k \in 1 .. m : v[k] = s[k]
      /\ \A k \in 1 .. n : v[m + k] = u[k]
  <2>1. IsSequence(v) /\ DOMAIN v = 1 .. m + n
    BY <1>0, <1>1, SequencesJoin
  <2>2. Len(v) \in Nat /\ DOMAIN v = 1 .. Len(v)
    BY <2>1 DEF IsSequence
  <2>3. Len(v) = m + n
    BY <1>1, <2>1, <2>2
  <2>4. QED
    BY <1>0, <1>1, <2>3, SequencesJoin
<1>3. ASSUME NEW j \in 1 .. m + n, Partners(v[j].type) # {}
      PROVE  /\ j < m + n
             /\ v[j + 1].section = v[j].section /\ v[j + 1].offset = v[j].offset
             /\ v[j + 1].type \in Partners(v[j].type)
  <2>1. CASE j \in 1 .. m
    <3>1. v[j] = s[j]
      BY <1>2, <2>1
    <3>2. /\ j < m
          /\ s[j + 1].section = s[j].section /\ s[j + 1].offset = s[j].offset
          /\ s[j + 1].type \in Partners(s[j].type)
      BY <1>1, <1>3, <2>1, <3>1 DEF Paired
    <3>3. j + 1 \in 1 .. m /\ v[j + 1] = s[j + 1]
      BY <1>2, <2>1, <3>2
    <3>4. QED
      BY <3>1, <3>2, <3>3
  <2>2. CASE j \notin 1 .. m
    <3>1. PICK k \in 1 .. n : j = m + k
      <4>1. j - m \in 1 .. n /\ j = m + (j - m)
        BY <2>2
      <4>2. QED
        BY <4>1
    <3>2. v[j] = u[k]
      BY <1>2, <3>1
    <3>3. /\ k < n
          /\ u[k + 1].section = u[k].section /\ u[k + 1].offset = u[k].offset
          /\ u[k + 1].type \in Partners(u[k].type)
      BY <1>1, <1>3, <3>2 DEF Paired
    <3>4. k + 1 \in 1 .. n /\ v[m + (k + 1)] = u[k + 1] /\ m + (k + 1) = j + 1
      BY <1>2, <3>1, <3>3
    <3>5. QED
      BY <3>1, <3>2, <3>3, <3>4
  <2>3. QED
    BY <2>1, <2>2
<1>4. QED
  BY <1>0, <1>2, <1>3 DEF Paired

\* What a step records for fixup fix is what the writers expect there.
RightFor(s, fix) ==
    /\ IsSequence(s) /\ Paired(s)
    /\ \A j \in 1 .. Len(s) :
          /\ s[j].section = fix.section /\ s[j].offset = fix.offset
          /\ RelocWidth(s[j]) <= Width(fix) /\ RelocWidth(s[j]) \in {4, 8}
          /\ Shaped(s[j])

\* Nothing, one relocation that needs no partner, and one with its partner.
LEMMA RightNone ==
  ASSUME NEW fix
  PROVE  RightFor(<<>>, fix)
<1>1. IsSequence(<<>>) /\ Len(<<>>) = 0
  BY RecordedLists
<1>2. QED
  BY <1>1 DEF RightFor, Paired

\* One that needs no partner.
LEMMA RightOne ==
  ASSUME NEW fix, NEW r, r.section = fix.section, r.offset = fix.offset,
         RelocWidth(r) <= Width(fix), Shaped(r), Partners(r.type) = {}
  PROVE  RightFor(<< r >>, fix)
<1>1. IsSequence(<< r >>) /\ Len(<< r >>) = 1 /\ << r >>[1] = r
  BY RecordedLists
<1>2. PICK s : s = << r >>
  OBVIOUS
<1>3. RelocWidth(r) \in {4, 8}
  BY DEF RelocWidth
<1>4. \A j \in 1 .. Len(s) : s[j] = r
  BY <1>1, <1>2
<1>5. Paired(s)
  BY <1>4 DEF Paired
<1>6. RightFor(s, fix)
  BY <1>1, <1>2, <1>3, <1>4, <1>5 DEF RightFor
<1>7. QED
  BY <1>2, <1>6

\* One and its partner.
LEMMA RightTwo ==
  ASSUME NEW fix, NEW q, NEW r, q.section = fix.section, q.offset = fix.offset,
         r.section = fix.section, r.offset = fix.offset,
         RelocWidth(q) <= Width(fix), RelocWidth(r) <= Width(fix), Shaped(q), Shaped(r),
         r.type \in Partners(q.type), Partners(r.type) = {}
  PROVE  RightFor(<< q, r >>, fix)
<1>1. IsSequence(<< q, r >>) /\ Len(<< q, r >>) = 2 /\ << q, r >>[1] = q /\ << q, r >>[2] = r
  BY RecordedLists
<1>2. PICK s : s = << q, r >>
  OBVIOUS
<1>3. RelocWidth(q) \in {4, 8} /\ RelocWidth(r) \in {4, 8}
  BY DEF RelocWidth
<1>4. Len(s) = 2 /\ s[1] = q /\ s[2] = r
  BY <1>1, <1>2
<1>5. Paired(s)
  <2>1. ASSUME NEW j \in 1 .. Len(s), Partners(s[j].type) # {}
        PROVE  j = 1
    BY <1>4, <2>1
  <2>2. QED
    BY <1>4, <2>1 DEF Paired
<1>6. \A j \in 1 .. Len(s) : s[j] = q \/ s[j] = r
  BY <1>4
<1>7. RightFor(s, fix)
  BY <1>1, <1>2, <1>3, <1>5, <1>6 DEF RightFor
<1>8. QED
  BY <1>2, <1>7

\* What is recorded of a fixup, case by case.
LEMMA Data64Right ==
  ASSUME NEW c, Fix.kind = "Data64"
  PROVE  RightFor(Data64Relocs(c), Fix)
<1>1. Width(Fix) = 8
  BY DEF Width
<1>2. ASSUME NEW type \in {"UNSIGNED", "SUBTRACTOR", "POINTER_TO_GOT"}, NEW n
      PROVE  /\ Reloc(type, Symbol(n), 0).section = Fix.section
             /\ Reloc(type, Symbol(n), 0).offset = Fix.offset
             /\ RelocWidth(Reloc(type, Symbol(n), 0)) <= Width(Fix)
             /\ Shaped(Reloc(type, Symbol(n), 0))
             /\ Reloc(type, Symbol(n), 0).type = type
  BY <1>1 DEF Reloc, Symbol, RelocWidth, Shaped
<1>3. Partners("UNSIGNED") = {} /\ Partners("POINTER_TO_GOT") = {} /\ "UNSIGNED" \in Partners("SUBTRACTOR")
  BY DEF Partners
<1>4. CASE c.kind = "relocatable"
  <2>1. Data64Relocs(c) = << Reloc("UNSIGNED", Symbol(c.symbol), 0) >>
    BY <1>4 DEF Data64Relocs
  <2>2. RightFor(<< Reloc("UNSIGNED", Symbol(c.symbol), 0) >>, Fix)
    BY <1>2, <1>3, RightOne
  <2>3. QED
    BY <2>1, <2>2
<1>5. CASE c.kind = "difference"
  <2>1. Data64Relocs(c) = << Reloc("SUBTRACTOR", Symbol(c.subtrahend), 0),
                             Reloc("UNSIGNED", Symbol(c.minuend), 0) >>
    BY <1>5 DEF Data64Relocs
  <2>2. RightFor(<< Reloc("SUBTRACTOR", Symbol(c.subtrahend), 0),
                    Reloc("UNSIGNED", Symbol(c.minuend), 0) >>, Fix)
    <3>1. PICK q, r : /\ q = Reloc("SUBTRACTOR", Symbol(c.subtrahend), 0)
                      /\ r = Reloc("UNSIGNED", Symbol(c.minuend), 0)
      OBVIOUS
    <3>2. /\ q.section = Fix.section /\ q.offset = Fix.offset /\ RelocWidth(q) <= Width(Fix)
          /\ Shaped(q) /\ q.type = "SUBTRACTOR"
      BY <1>2, <3>1
    <3>3. /\ r.section = Fix.section /\ r.offset = Fix.offset /\ RelocWidth(r) <= Width(Fix)
          /\ Shaped(r) /\ r.type = "UNSIGNED"
      BY <1>2, <3>1
    <3>4. RightFor(<< q, r >>, Fix)
      BY <1>3, <3>2, <3>3, RightTwo
    <3>5. QED
      BY <3>1, <3>4
  <2>3. QED
    BY <2>1, <2>2
<1>6. CASE c.kind = "got"
  <2>1. Data64Relocs(c) = << Reloc("POINTER_TO_GOT", Symbol(c.symbol), 0) >>
    BY <1>6 DEF Data64Relocs
  <2>2. RightFor(<< Reloc("POINTER_TO_GOT", Symbol(c.symbol), 0) >>, Fix)
    BY <1>2, <1>3, RightOne
  <2>3. QED
    BY <2>1, <2>2
<1>7. CASE c.kind \notin {"relocatable", "difference", "got"}
  <2>1. Data64Relocs(c) = <<>>
    BY <1>7 DEF Data64Relocs
  <2>2. QED
    BY <2>1, RightNone
<1>8. QED
  BY <1>4, <1>5, <1>6, <1>7

\* A symbol with an addend: an ADDEND goes before it, or in ELF in it.
LEMMA SymbolRight ==
  ASSUME NEW type \in {"BRANCH26"} \union PageKinds, NEW n, NEW addend,
         addend # 0 => type \in {"BRANCH26", "PAGE21", "PAGEOFF12"},
         format \in {"macho", "elf"}
  PROVE  /\ RightFor(SymbolRelocs(type, n, addend), Fix)
         /\ RightFor(<< Reloc(type, Symbol(n), addend) >>, Fix)
<1>1. Width(Fix) \in {4, 8}
  BY DEF Width
<1>2. type \notin {"UNSIGNED", "SUBTRACTOR", "POINTER_TO_GOT", "ADDEND"} /\ Partners(type) = {}
  BY DEF PageKinds, Partners
<1>3. ASSUME NEW a
      PROVE  /\ Reloc(type, Symbol(n), a).section = Fix.section
             /\ Reloc(type, Symbol(n), a).offset = Fix.offset
             /\ RelocWidth(Reloc(type, Symbol(n), a)) <= Width(Fix)
             /\ Shaped(Reloc(type, Symbol(n), a))
             /\ Reloc(type, Symbol(n), a).type = type
             /\ RightFor(<< Reloc(type, Symbol(n), a) >>, Fix)
  <2>1. PICK r : r = Reloc(type, Symbol(n), a)
    OBVIOUS
  <2>2. /\ r.section = Fix.section /\ r.offset = Fix.offset /\ r.type = type
        /\ r.target.kind = "symbol"
    BY <2>1 DEF Reloc, Symbol
  <2>3. RelocWidth(r) <= Width(Fix) /\ Shaped(r)
    BY <1>1, <1>2, <2>2 DEF RelocWidth, Shaped
  <2>4. RightFor(<< r >>, Fix)
    BY <1>2, <2>2, <2>3, RightOne
  <2>5. QED
    BY <2>1, <2>2, <2>3, <2>4
<1>4. CASE format = "elf"
  <2>1. SymbolRelocs(type, n, addend) = << Reloc(type, Symbol(n), addend) >>
    BY <1>4 DEF SymbolRelocs
  <2>2. QED
    BY <1>3, <2>1
<1>5. CASE format # "elf" /\ addend = 0
  <2>1. SymbolRelocs(type, n, addend) = <<>> \o << Reloc(type, Symbol(n), 0) >>
    BY <1>5 DEF SymbolRelocs
  <2>2. <<>> \o << Reloc(type, Symbol(n), 0) >> = << Reloc(type, Symbol(n), 0) >>
    OBVIOUS
  <2>3. QED
    BY <1>3, <2>1, <2>2
<1>6. CASE format # "elf" /\ addend # 0
  <2>1. PICK q, r : q = Reloc("ADDEND", Raw(addend), 0) /\ r = Reloc(type, Symbol(n), 0)
    OBVIOUS
  <2>2. SymbolRelocs(type, n, addend) = << q >> \o << r >>
    BY <1>6, <2>1 DEF SymbolRelocs
  <2>3. << q >> \o << r >> = << q, r >>
    <3>1. PICK a, b, c, S : a = << q >> /\ b = << r >> /\ c = << q, r >> /\ S = {q, r}
      OBVIOUS
    <3>2. /\ a \in Seq(S) /\ Len(a) = 1 /\ a[1] = q
          /\ b \in Seq(S) /\ Len(b) = 1 /\ b[1] = r
          /\ c \in Seq(S) /\ Len(c) = 2 /\ c[1] = q /\ c[2] = r
      <4>1. a \in Seq(S) /\ Len(a) = 1 /\ a[1] = q
        BY <3>1
      <4>2. b \in Seq(S) /\ Len(b) = 1 /\ b[1] = r
        BY <3>1
      <4>3. c \in Seq(S) /\ Len(c) = 2 /\ c[1] = q /\ c[2] = r
        BY <3>1
      <4>4. QED
        BY <4>1, <4>2, <4>3
    <3>5. /\ a \o b \in Seq(S) /\ Len(a \o b) = 2
          /\ (a \o b)[1] = q /\ (a \o b)[2] = r
      <4>1. /\ a \o b \in Seq(S) /\ Len(a \o b) = Len(a) + Len(b)
            /\ \A i \in 1 .. Len(a) + Len(b) : (a \o b)[i] =
                  IF i <= Len(a) THEN a[i] ELSE b[i - Len(a)]
        BY <3>2, ConcatProperties
      <4>2. \A i \in 1 .. 2 : (a \o b)[i] = IF i <= 1 THEN a[i] ELSE b[i - 1]
        BY <3>2, <4>1
      <4>3. (a \o b)[1] = a[1] /\ (a \o b)[2] = b[1]
        <5>1. 1 \in 1 .. 2 /\ 2 \in 1 .. 2 /\ 2 - 1 = 1 /\ 1 <= 1 /\ ~ (2 <= 1)
          OBVIOUS
        <5>2. (a \o b)[1] = a[1]
          BY <4>2, <5>1
        <5>3. (a \o b)[2] = b[2 - 1]
          BY <4>2, <5>1
        <5>4. QED
          BY <5>1, <5>2, <5>3
      <4>4. QED
        BY <3>2, <4>1, <4>3
    <3>6. a \o b = c
      <4>1. Len(a \o b) = Len(c) /\ \A i \in 1 .. Len(c) : (a \o b)[i] = c[i]
        BY <3>2, <3>5
      <4>2. QED
        BY <3>2, <3>5, <4>1, SeqEqual
    <3>7. QED
      BY <3>1, <3>6
  <2>4. /\ q.section = Fix.section /\ q.offset = Fix.offset /\ q.type = "ADDEND"
        /\ q.target.kind = "raw"
    BY <2>1 DEF Reloc, Raw
  <2>5. RelocWidth(q) <= Width(Fix) /\ Shaped(q)
    BY <1>1, <1>6, <2>4 DEF RelocWidth, Shaped
  <2>6. type \in Partners("ADDEND")
    BY <1>6 DEF Partners
  <2>7. /\ r.section = Fix.section /\ r.offset = Fix.offset /\ r.type = type
        /\ RelocWidth(r) <= Width(Fix) /\ Shaped(r)
    BY <1>3, <2>1
  <2>8. RightFor(<< q, r >>, Fix)
    BY <1>2, <2>4, <2>5, <2>6, <2>7, RightTwo
  <2>9. QED
    BY <1>3, <2>2, <2>3, <2>8
<1>7. QED
  BY <1>4, <1>5, <1>6

\* The relocations: in pairs where they have to be, each in the bytes of its
\* section.
RelocsInv ==
    /\ phase = "emit" => relocs = <<>>
    /\ phase \in {"fixups", "finish", "done"} =>
          /\ Paired(relocs)
          /\ \A r \in ToSet(relocs) :
                Shaped(r) /\ RoomFor(r, RelocWidth(r))

\* Fewer bytes from the same place on have room, too.
LEMMA RoomSmaller ==
  ASSUME layout \in Layouts, NEW x, NEW n \in Nat, RoomFor(x, n), NEW y, y.section = x.section, y.offset = x.offset,
         NEW m \in Nat, m <= n
  PROVE  RoomFor(y, m)
<1>1. x.offset \in Nat /\ x.section \in 1 .. Len(layout.sections)
  BY DEF RoomFor
<1>2. layout.sections[x.section] \in Section
  BY <1>1 DEF Layouts
<1>3. layout.sections[x.section].size \in Nat /\ layout.sections[x.section].len \in Nat
  BY <1>2 DEF Section
<1>4. QED
  BY <1>1, <1>3 DEF RoomFor

\* One more fixup is done with.
LEMMA RelocsMore ==
  ASSUME Inv, SourceKnown, StatementsInv, FixupsInv, RelocsInv, resolved < Len(fixups),
         NEW written, NEW recorded, RightFor(recorded, Fix), Resolve(written, recorded)
  PROVE  RelocsInv'
<1>1. /\ phase = "fixups" /\ phase' = phase /\ layout' = layout /\ format' = format
      /\ relocs' = relocs \o recorded /\ IsSequence(relocs)
      /\ layout \in Layouts
  BY DEF Resolve, layoutVars, source, FixupsInv, Inv, TypeOK
<1>2. PICK k \in 1 .. Len(fixups) : Fix = fixups[k]
  <2>1. resolved \in 0 .. Len(fixups) /\ Len(fixups) \in Nat
    BY DEF FixupsInv, IsSequence
  <2>2. QED
    BY <2>1 DEF Fix
<1>3. RoomFor(Fix, Width(Fix)) /\ Width(Fix) \in {4, 8}
  <2>1. RoomFor(Fix, Width(Fix))
    BY <1>1, <1>2, FixupsFit
  <2>2. QED
    BY <2>1 DEF Width
<1>4. IsSequence(recorded) /\ Paired(recorded) /\ Paired(relocs)
  BY <1>1 DEF RightFor, RelocsInv
<1>5. Paired(relocs \o recorded)
  BY <1>1, <1>4, PairsJoin
<1>6. ASSUME NEW r \in ToSet(relocs \o recorded)
      PROVE  Shaped(r) /\ RoomFor(r, RelocWidth(r))
  <2>1. r \in ToSet(relocs) \union ToSet(recorded)
    <3>1. PICK S : relocs \in Seq(S) /\ S = ToSet(relocs)
      BY <1>1 DEF IsSequence
    <3>2. PICK T : recorded \in Seq(T) /\ T = ToSet(recorded)
      BY <1>4 DEF IsSequence
    <3>3. relocs \o recorded \in Seq(S \union T)
      BY <3>1, <3>2
    <3>4. \A i \in DOMAIN (relocs \o recorded) : (relocs \o recorded)[i] \in S \union T
      BY <3>3
    <3>5. QED
      BY <3>1, <3>2, <3>4 DEF ToSet
  <2>2. CASE r \in ToSet(relocs)
    BY <1>1, <2>2 DEF RelocsInv
  <2>3. CASE r \in ToSet(recorded)
    <3>1. PICK j \in 1 .. Len(recorded) : r = recorded[j]
      BY <1>4, <2>3 DEF ToSet, IsSequence
    <3>2. /\ r.section = Fix.section /\ r.offset = Fix.offset
          /\ RelocWidth(r) <= Width(Fix) /\ RelocWidth(r) \in {4, 8} /\ Shaped(r)
      BY <3>1 DEF RightFor
    <3>3. PICK m \in Nat, n \in Nat : m = RelocWidth(r) /\ n = Width(Fix)
      BY <1>3, <3>2
    <3>4. RoomFor(r, m)
      BY <1>1, <1>3, <3>2, <3>3, RoomSmaller
    <3>5. QED
      BY <3>2, <3>3, <3>4
  <2>4. QED
    BY <2>1, <2>2, <2>3
<1>7. /\ Paired(relocs)' /\ ToSet(relocs)' = ToSet(relocs \o recorded)
  BY <1>1, <1>5 DEF Paired, ToSet
<1>8. \A r : /\ Shaped(r) => Shaped(r)'
             /\ RoomFor(r, RelocWidth(r)) => RoomFor(r, RelocWidth(r))'
  BY <1>1 DEF Shaped, RoomFor, RelocWidth
<1>9. QED
  BY <1>1, <1>6, <1>7, <1>8 DEF RelocsInv

\* resolve_fixups: every step.
LEMMA ResolveRelocs ==
  ASSUME Inv, SourceKnown, StatementsInv, FixupsInv, RelocsInv,
         ResolveData64 \/ ResolveBranch \/ ResolvePage
  PROVE  RelocsInv'
<1>1. format \in {"macho", "elf"}
  BY FormatsAssumption DEF Inv, TypeOK
<1>2. resolved < Len(fixups)
  BY DEF ResolveData64, ResolveBranch, ResolvePage
<1>3. \E written, recorded : RightFor(recorded, Fix) /\ Resolve(written, recorded)
  <2>1. CASE ResolveData64
    <3>1. PICK c : c = Fix.classified
      OBVIOUS
    <3>2. /\ Fix.kind = "Data64"
          /\ \E written : Resolve(written, Data64Relocs(c))
      BY <2>1, <3>1 DEF ResolveData64
    <3>3. RightFor(Data64Relocs(c), Fix)
      BY <3>2, Data64Right
    <3>4. QED
      BY <3>2, <3>3
  <2>2. CASE ResolveBranch
    <3>1. PICK n, addend : /\ n = Classify(Fix.expr, Environment).symbol
                          /\ addend = Classify(Fix.expr, Environment).addend
      OBVIOUS
    <3>2. \E written : \/ Resolve(written, SymbolRelocs("BRANCH26", n, addend))
                       \/ Resolve(written, << Reloc("BRANCH26", Symbol(n), 0) >>)
                       \/ Resolve(written, <<>>)
      BY <2>2, <3>1 DEF ResolveBranch, ResolveHere
    <3>3. /\ RightFor(SymbolRelocs("BRANCH26", n, addend), Fix)
          /\ RightFor(<< Reloc("BRANCH26", Symbol(n), 0) >>, Fix)
      BY <1>1, SymbolRight
    <3>4. RightFor(<<>>, Fix)
      BY RightNone
    <3>5. QED
      BY <3>2, <3>3, <3>4
  <2>3. CASE ResolvePage
    <3>1. PICK n, addend : /\ n = Classify(Fix.expr, Environment).symbol
                          /\ addend = Classify(Fix.expr, Environment).addend
      OBVIOUS
    <3>2. /\ Fix.kind \in PageKinds
          /\ addend # 0 => Fix.kind \in {"PAGE21", "PAGEOFF12"}
          /\ \E written : Resolve(written, SymbolRelocs(Fix.kind, n, addend))
      BY <2>3, <3>1 DEF ResolvePage
    <3>3. RightFor(SymbolRelocs(Fix.kind, n, addend), Fix)
      BY <1>1, <3>2, SymbolRight
    <3>4. QED
      BY <3>2, <3>3
  <2>4. QED
    BY <2>1, <2>2, <2>3
<1>4. QED
  BY <1>2, <1>3, RelocsMore

\* A table that begins like another one has the room that one has.
LEMMA RoomStays ==
  ASSUME NEW x, NEW n, RoomFor(x, n),
         Len(layout.sections) \in Nat, Len(layout'.sections) \in Nat,
         Len(layout.sections) <= Len(layout'.sections),
         \A i \in 1 .. Len(layout.sections) : layout'.sections[i] = layout.sections[i]
  PROVE  /\ x.section \in 1 .. Len(layout'.sections) /\ x.offset \in Nat
         /\ layout'.sections[x.section].kind # "zerofill"
         /\ x.offset + n <= layout'.sections[x.section].size
         /\ x.offset + n <= layout'.sections[x.section].len
BY DEF RoomFor

\* finish and finish_elf, and what goes before: nothing is moved.
LEMMA RelocsStay ==
  ASSUME RelocsInv, phase \in {"fixups", "finish", "done"}, phase' # "emit",
         relocs' = relocs, format' = format,
         Len(layout.sections) \in Nat, Len(layout'.sections) \in Nat,
         Len(layout.sections) <= Len(layout'.sections),
         \A i \in 1 .. Len(layout.sections) : layout'.sections[i] = layout.sections[i]
  PROVE  RelocsInv'
<1>1. Paired(relocs) /\ \A r \in ToSet(relocs) : Shaped(r) /\ RoomFor(r, RelocWidth(r))
  BY DEF RelocsInv
<1>2. ASSUME NEW r \in ToSet(relocs)
      PROVE  Shaped(r)' /\ RoomFor(r, RelocWidth(r))'
  <2>1. Shaped(r)'
    BY <1>1, <1>2 DEF Shaped
  <2>2. RoomFor(r, RelocWidth(r))'
    <3>1. PICK n : n = RelocWidth(r)
      OBVIOUS
    <3>2. RoomFor(r, n)
      BY <1>1, <1>2, <3>1
    <3>3. /\ r.section \in 1 .. Len(layout'.sections) /\ r.offset \in Nat
          /\ layout'.sections[r.section].kind # "zerofill"
          /\ r.offset + n <= layout'.sections[r.section].size
          /\ r.offset + n <= layout'.sections[r.section].len
      BY <3>2, RoomStays
    <3>4. QED
      BY <3>1, <3>3 DEF RoomFor
  <2>3. QED
    BY <2>1, <2>2
<1>3. Paired(relocs)' /\ ToSet(relocs)' = ToSet(relocs)
  BY <1>1 DEF Paired, ToSet
<1>4. QED
  BY <1>2, <1>3 DEF RelocsInv

\* finish puts unwind sections behind the others.
LEMMA FinishRelocs ==
  ASSUME Inv, RelocsInv, Finish
  PROVE  RelocsInv'
<1>1. /\ phase = "finish" /\ phase' # "emit" /\ relocs' = relocs /\ format' = format
      /\ layout' = [layout EXCEPT !.sections = layout.sections \o WrittenUnwind(Len(rows), frames)]
      /\ layout \in Layouts /\ Len(rows) \in Nat /\ frames \in [count : Nat, bytes : Nat]
  BY DEF Finish, LayoutFinish, source, resolution, Inv, TypeOK
<1>2. PICK t \in Seq(Section) : t = layout.sections
  BY <1>1 DEF Layouts
<1>3. PICK w \in Seq(Section) : w = WrittenUnwind(Len(rows), frames)
  BY <1>1, UnwindLemma
<1>4. PICK y \in Seq(Section) : y = t \o w
  BY ConcatProperties
<1>5. /\ Len(t) \in Nat /\ Len(y) \in Nat /\ Len(t) <= Len(y)
      /\ \A i \in 1 .. Len(t) : y[i] = t[i]
  <2>1. Len(y) = Len(t) + Len(w) /\ \A i \in 1 .. Len(t) + Len(w) : y[i] = IF i <= Len(t) THEN t[i] ELSE w[i - Len(t)]
    BY <1>4, ConcatProperties
  <2>2. QED
    BY <2>1
<1>6. layout'.sections = y
  BY <1>1, <1>2, <1>3, <1>4 DEF Layouts
<1>7. QED
  BY <1>1, <1>2, <1>5, <1>6, RelocsStay

\* finish_elf names some by their sections, and leaves them where they are.
LEMMA FinishElfRelocs ==
  ASSUME Ready, RelocsInv, FinishElf
  PROVE  RelocsInv'
<1>1. /\ phase = "finish" /\ phase' # "emit" /\ layout' = layout /\ format' = format
      /\ format = "elf" /\ IsSequence(relocs)
      /\ relocs' = [i \in DOMAIN relocs |-> Rela(relocs[i])]
  BY DEF FinishElf, LayoutFinishElf, source, Ready, Assembled, FixupsInv
<1>0. PICK u : u = relocs'
  OBVIOUS
<1>2. PICK n \in Nat : n = Len(relocs)
  BY <1>1 DEF IsSequence
<1>3. DOMAIN relocs = 1 .. n /\ u = [i \in 1 .. n |-> Rela(relocs[i])]
  BY <1>0, <1>1, <1>2 DEF IsSequence
<1>4. Len(u) = n
  BY <1>3
<1>5. Paired(relocs) /\ \A r \in ToSet(relocs) : Shaped(r) /\ RoomFor(r, RelocWidth(r))
  BY <1>1 DEF RelocsInv
<1>6. ASSUME NEW r \in ToSet(relocs)
      PROVE  /\ Rela(r).type = r.type /\ Rela(r).section = r.section /\ Rela(r).offset = r.offset
             /\ Shaped(Rela(r))
  <2>0. IsReloc(r) /\ Shaped(r)
    BY <1>5, RelocationsKnown
  <2>1. CASE IsFixed(r.target.name)
    <3>1. Rela(r) = [r EXCEPT !.target = SectionSymbol(labels[r.target.name].section),
                              !.addend = @ + labels[r.target.name].value]
      BY <2>1 DEF Rela
    <3>2. /\ Rela(r).type = r.type /\ Rela(r).section = r.section /\ Rela(r).offset = r.offset
          /\ Rela(r).target = SectionSymbol(labels[r.target.name].section)
      BY <2>0, <3>1 DEF IsReloc
    <3>3. r.type # "ADDEND"
      BY <1>1, <2>0 DEF Shaped
    <3>4. Rela(r).target.kind # "raw"
      BY <3>2 DEF SectionSymbol
    <3>5. QED
      BY <3>2, <3>3, <3>4 DEF Shaped
  <2>2. CASE ~ IsFixed(r.target.name)
    <3>1. Rela(r) = r
      BY <2>2 DEF Rela
    <3>2. QED
      BY <2>0, <3>1
  <2>3. QED
    BY <2>1, <2>2
<1>7. \A i \in 1 .. n : relocs[i] \in ToSet(relocs) /\ u[i] = Rela(relocs[i])
  BY <1>3 DEF ToSet
<1>8. ASSUME NEW i \in 1 .. n
      PROVE  /\ u[i].type = relocs[i].type /\ u[i].section = relocs[i].section
             /\ u[i].offset = relocs[i].offset /\ Shaped(u[i])
  BY <1>6, <1>7
<1>9. Paired(u)
  <2>1. ASSUME NEW j \in 1 .. n, Partners(u[j].type) # {}
        PROVE  /\ j < n
               /\ u[j + 1].section = u[j].section /\ u[j + 1].offset = u[j].offset
               /\ u[j + 1].type \in Partners(u[j].type)
    <3>1. u[j].type = relocs[j].type /\ u[j].section = relocs[j].section /\ u[j].offset = relocs[j].offset
      BY <1>8
    <3>2. /\ j < n
          /\ relocs[j + 1].section = relocs[j].section /\ relocs[j + 1].offset = relocs[j].offset
          /\ relocs[j + 1].type \in Partners(relocs[j].type)
      BY <1>2, <1>5, <2>1, <3>1 DEF Paired
    <3>3. j + 1 \in 1 .. n
      BY <3>2
    <3>4. u[j + 1].type = relocs[j + 1].type /\ u[j + 1].section = relocs[j + 1].section /\ u[j + 1].offset = relocs[j + 1].offset
      BY <1>8, <3>3
    <3>5. QED
      BY <3>1, <3>2, <3>4
  <2>2. QED
    BY <1>4, <2>1 DEF Paired
<1>10. ASSUME NEW r \in ToSet(u)
       PROVE  Shaped(r) /\ RoomFor(r, RelocWidth(r))
  <2>1. PICK i \in 1 .. n : r = u[i]
    BY <1>3 DEF ToSet
  <2>2. PICK x \in ToSet(relocs) : x = relocs[i]
    BY <1>7
  <2>3. r.type = x.type /\ r.section = x.section /\ r.offset = x.offset /\ Shaped(r)
    BY <1>8, <2>1, <2>2
  <2>4. RoomFor(x, RelocWidth(x)) /\ RelocWidth(x) = RelocWidth(r)
    BY <1>5, <2>3 DEF RelocWidth
  <2>5. QED
    BY <2>3, <2>4 DEF RoomFor
<1>11. /\ Paired(relocs)' /\ ToSet(relocs)' = ToSet(u)
       /\ \A r : /\ Shaped(r) => Shaped(r)'
                 /\ RoomFor(r, RelocWidth(r)) => RoomFor(r, RelocWidth(r))'
  <2>1. Paired(relocs)'
    BY <1>0, <1>9 DEF Paired
  <2>2. ToSet(relocs)' = ToSet(u)
    BY <1>0 DEF ToSet
  <2>3. \A r : Shaped(r) => Shaped(r)'
    BY <1>1 DEF Shaped
  <2>4. \A r : RoomFor(r, RelocWidth(r)) => RoomFor(r, RelocWidth(r))'
    BY <1>1 DEF RoomFor, RelocWidth
  <2>5. QED
    BY <2>1, <2>2, <2>3, <2>4
<1>12. QED
  BY <1>1, <1>10, <1>11 DEF RelocsInv

\* The first pass, and the second one, record none.
LEMMA EmitRelocs ==
  ASSUME RelocsInv,
         \/ CollectLabel \/ CollectSet \/ CollectComm \/ CollectAttribute
         \/ CollectZerofill \/ CollectOther \/ PrepareExpressions \/ Reset
         \/ EmitSet \/ EmitQuad \/ EmitFixup \/ EmitLabel \/ EmitZerofillSymbol \/ EmitOther
  PROVE  RelocsInv'
<1>1. CASE Reset
  <2>1. phase' = "emit" /\ relocs' = <<>>
    BY <1>1 DEF Reset, LayoutReset
  <2>2. QED
    BY <2>1 DEF RelocsInv
<1>2. CASE PrepareExpressions
  <2>1. phase' = "reset"
    BY <1>2 DEF PrepareExpressions, LayoutPrepare
  <2>2. QED
    BY <2>1 DEF RelocsInv
<1>3. CASE \/ CollectLabel \/ CollectSet \/ CollectComm \/ CollectAttribute
           \/ CollectZerofill \/ CollectOther
  <2>1. phase' \in {"collect", "unwind", "expressions"}
    BY <1>3 DEF CollectLabel, CollectSet, CollectComm, CollectAttribute,
       CollectZerofill, CollectOther, CollectSymbol, CollectZerofills, CollectBytes, CollectFill,
       CollectSpace, CollectAlign, CollectSection, CollectStartProc, CollectCfi, CollectEndProc,
       EndCollect, PrepareUnwind, Advance, At
  <2>2. QED
    BY <2>1 DEF RelocsInv
<1>4. CASE EmitSet \/ EmitQuad \/ EmitFixup \/ EmitLabel \/ EmitZerofillSymbol \/ EmitOther
  <2>1. /\ phase = "emit" /\ phase' \in {"emit", "fixups"} /\ relocs' = relocs
    BY <1>4 DEF EmitSet, EmitQuad, EmitFixup, EmitLabel, EmitZerofillSymbol, EmitOther,
       EmitNothing, EmitBytes, EmitFill, EmitSpaces, EmitAlignment, EmitSection,
       EmitZerofills, EndEmit, Proceed, At, resolution
  <2>2. relocs' = <<>>
    BY <2>1 DEF RelocsInv
  <2>3. Paired(relocs)' /\ ToSet(relocs)' = {}
    <3>1. Len(relocs') = 0 /\ DOMAIN relocs' = {}
      BY <2>2
    <3>2. QED
      BY <3>1 DEF Paired, ToSet
  <2>4. QED
    BY <2>1, <2>2, <2>3 DEF RelocsInv
<1>5. QED
  BY <1>1, <1>2, <1>3, <1>4

\* Steps that record nothing.
LEMMA RelocsSame ==
  ASSUME Inv, RelocsInv, EndFixups \/ Fail \/ Terminated \/ UNCHANGED vars
  PROVE  RelocsInv'
<1>1. /\ relocs' = relocs /\ format' = format /\ layout' = layout
      /\ phase' = phase \/ phase' = "error" \/ (phase = "fixups" /\ phase' = "finish")
  BY DEF EndFixups, Fail, Terminated, vars, layoutVars, source, resolution, ResolveFixups,
     LayoutFail, LayoutTerminated
<1>2. CASE phase \in {"fixups", "finish", "done"} /\ phase' # "error"
  <2>1. Len(layout.sections) \in Nat
    BY DEF Inv, TypeOK, Layouts
  <2>2. phase' # "emit"
    BY <1>1, <1>2
  <2>3. QED
    BY <1>1, <1>2, <2>1, <2>2, RelocsStay
<1>3. CASE phase = "emit" /\ phase' = "emit"
  BY <1>1, <1>3 DEF RelocsInv
<1>4. CASE phase' \notin {"emit", "fixups", "finish", "done"}
  BY <1>4 DEF RelocsInv
<1>5. QED
  BY <1>1, <1>2, <1>3, <1>4

\* In every state.
LEMMA RelocsHold == ObjectsSpec => []RelocsInv
<1>1. ObjectsInit => RelocsInv
  BY DEF ObjectsInit, Init, LayoutInit, RelocsInv
<1>2. ASSUME Assembled, NamesInv, RelocsInv, [ObjectsNext]_<<vars, objects>>
      PROVE  RelocsInv'
  <2>1. [Next]_vars
    BY <1>2, StepIsAssemblers
  <2>2. Inv /\ SourceKnown /\ StatementsInv /\ FixupsInv
    BY <1>2 DEF Assembled
  <2>3. CASE \/ CollectLabel \/ CollectSet \/ CollectComm \/ CollectAttribute
             \/ CollectZerofill \/ CollectOther \/ PrepareExpressions \/ Reset
             \/ EmitSet \/ EmitQuad \/ EmitFixup \/ EmitLabel \/ EmitZerofillSymbol \/ EmitOther
    BY <1>2, <2>3, EmitRelocs
  <2>4. CASE ResolveData64 \/ ResolveBranch \/ ResolvePage
    BY <1>2, <2>2, <2>4, ResolveRelocs
  <2>5. CASE Finish
    BY <1>2, <2>2, <2>5, FinishRelocs
  <2>6. CASE FinishElf
    <3>1. Ready
      BY <1>2, <2>6 DEF Ready, FinishElf, LayoutFinishElf
    <3>2. QED
      BY <1>2, <2>6, <3>1, FinishElfRelocs
  <2>7. CASE EndFixups \/ Fail \/ Terminated \/ UNCHANGED vars
    BY <1>2, <2>2, <2>7, RelocsSame
  <2>8. QED
    BY <2>1, <2>3, <2>4, <2>5, <2>6, <2>7 DEF Next
<1>3. QED
  BY <1>1, <1>2, AssembledHolds, NamesHold, PTL DEF ObjectsSpec

-----------------------------------------------------------------------------
(* Pairs stay pairs: those of a section, as they are numbered and sorted. *)

\* The same, of the relocations of one section.
PairedHere(s) ==
    \A j \in 1 .. Len(s) :
        Partners(s[j].type) # {} =>
            /\ j < Len(s)
            /\ s[j + 1].offset = s[j].offset
            /\ s[j + 1].type \in Partners(s[j].type)

\* Partners are of one section, so that selecting it takes both or neither.
LEMMA SectionPaired ==
  ASSUME NEW rs, IsSequence(rs), Paired(rs), NEW i
  PROVE  PairedHere(InSectionOf(rs, i))
<1>1. PICK S, T : S = ToSet(rs) /\ T = { r \in ToSet(rs) : r.section = i }
  OBVIOUS
<1>2. rs \in Seq(S)
  BY <1>1 DEF IsSequence
<1>3. PICK mine : mine = Those(rs, T) /\ mine = InSectionOf(rs, i)
  BY <1>1 DEF InSectionOf
<1>4. PICK f : Selects(f, rs, T)
  BY <1>2, ThoseEnumerates
<1>5. PICK n \in Nat : n = Len(rs)
  BY <1>2
<1>6. PICK D : D = { k \in 1 .. n : rs[k] \in T }
  OBVIOUS
<1>7. PICK m : m = Len(mine)
  OBVIOUS
<1>8. Enumerates(f, m, D) /\ \A k \in 1 .. m : mine[k] = rs[f[k]]
  BY <1>3, <1>4, <1>5, <1>6, <1>7 DEF Selects
<1>9. /\ m \in Nat /\ f \in [1 .. m -> D]
      /\ \A a, b \in 1 .. m : a < b => f[a] < f[b]
      /\ \A d \in D : \E k \in 1 .. m : f[k] = d
  BY <1>8 DEF Enumerates
<1>10. \A k \in 1 .. n : rs[k] \in S
  BY <1>1, <1>2, <1>5
<1>11. ASSUME NEW k \in 1 .. m, Partners(mine[k].type) # {}
       PROVE  /\ k < m /\ mine[k + 1].offset = mine[k].offset
              /\ mine[k + 1].type \in Partners(mine[k].type)
  <2>1. PICK j \in 1 .. n : j = f[k] /\ j \in D
    BY <1>6, <1>9
  <2>2. mine[k] = rs[j] /\ rs[j].section = i
    BY <1>1, <1>6, <1>8, <2>1
  <2>3. /\ j < n /\ rs[j + 1].section = rs[j].section /\ rs[j + 1].offset = rs[j].offset
        /\ rs[j + 1].type \in Partners(rs[j].type)
    BY <1>5, <1>11, <2>2 DEF Paired
  <2>4. j + 1 \in D
    BY <1>1, <1>6, <1>10, <2>2, <2>3
  <2>5. PICK l \in 1 .. m : f[l] = j + 1
    BY <1>9, <2>4
  <2>6. k < l
    <3>1. CASE l < k
      <4>1. f[l] < f[k]
        BY <1>9, <3>1
      <4>2. QED
        BY <2>1, <2>5, <4>1
    <3>2. CASE l = k
      BY <2>1, <2>5, <3>2
    <3>3. QED
      BY <1>9, <3>1, <3>2
  <2>7. l = k + 1
    <3>1. CASE k + 1 < l
      <4>1. PICK q \in 1 .. m : q = k + 1
        BY <1>9, <2>6
      <4>2. f[k] < f[q] /\ f[q] < f[l] /\ f[q] \in 1 .. n
        BY <1>6, <1>9, <3>1, <4>1
      <4>3. QED
        BY <2>1, <2>5, <4>2
    <3>2. QED
      BY <1>9, <2>6, <3>1
  <2>8. mine[k + 1] = rs[j + 1]
    BY <1>8, <2>5, <2>7
  <2>9. QED
    BY <1>9, <2>2, <2>3, <2>6, <2>7, <2>8
<1>12. QED
  BY <1>3, <1>7, <1>11 DEF PairedHere

\* Numbering keeps types and offsets.
LEMMA NumberedPaired ==
  ASSUME NEW t, NEW rs, NEW asked, PointAll(t, rs, asked), PairedHere(asked)
  PROVE  PairedHere(rs)
<1>1. PICK n : n = Len(rs) /\ n = Len(asked)
  BY DEF PointAll
<1>2. \A k \in 1 .. n : rs[k].type = asked[k].type /\ rs[k].offset = asked[k].offset
  <2>1. ASSUME NEW k \in 1 .. n
        PROVE  rs[k].type = asked[k].type /\ rs[k].offset = asked[k].offset
    <3>1. Points(t, rs[k], asked[k])
      BY <1>1 DEF PointAll
    <3>2. rs[k] = NumberOf(asked[k], rs[k].symbol)
      BY <3>1 DEF Points
    <3>3. \A x : /\ NumberOf(asked[k], x).type = asked[k].type
                /\ NumberOf(asked[k], x).offset = asked[k].offset
      BY DEF NumberOf
    <3>4. QED
      BY <3>2, <3>3
  <2>2. QED
    BY <2>1
<1>3. n \in Nat
  BY <1>1 DEF PointAll, IsSequence
<1>4. ASSUME NEW j \in 1 .. n, Partners(rs[j].type) # {}
      PROVE  /\ j < n /\ rs[j + 1].offset = rs[j].offset
             /\ rs[j + 1].type \in Partners(rs[j].type)
  <2>1. rs[j].type = asked[j].type /\ rs[j].offset = asked[j].offset
    BY <1>2
  <2>2. /\ j < n /\ asked[j + 1].offset = asked[j].offset
        /\ asked[j + 1].type \in Partners(asked[j].type)
    BY <1>1, <1>4, <2>1 DEF PairedHere
  <2>3. j + 1 \in 1 .. n
    BY <1>3, <2>2
  <2>4. rs[j + 1].type = asked[j + 1].type /\ rs[j + 1].offset = asked[j + 1].offset
    BY <1>2, <2>3
  <2>5. QED
    BY <2>1, <2>2, <2>4
<1>5. QED
  BY <1>1, <1>4 DEF PairedHere

\* Sorting is stable: nothing comes between two of one offset that was not
\* between them.
LEMMA DescendingPaired ==
  ASSUME NEW t, NEW rs, NEW asked, PointAll(t, rs, asked), PairedHere(rs)
  PROVE  PairedHere(Descending(rs))
<1>1. PICK v : v = Descending(rs)
  OBVIOUS
<1>2. PICK n \in Nat : n = Len(rs)
  BY DEF PointAll, IsSequence
<1>3. Len(v) = n
  BY <1>1, <1>2, DescendingIs
<1>4. PICK p : /\ Arranges(p, n)
               /\ \A i \in 1 .. n : v[i] = rs[p[i]]
               /\ \A i, j \in 1 .. n : i < j => v[i].offset >= v[j].offset
               /\ \A i, j \in 1 .. n : i < j /\ p[j] < p[i] => v[i].offset # v[j].offset
  BY <1>1, <1>2, DescendingIs
<1>5. p \in [1 .. n -> 1 .. n] /\ \A i, j \in 1 .. n : p[i] = p[j] => i = j
  BY <1>4 DEF Arranges
<1>6. \A i \in 1 .. n : v[i].offset \in Int
  <2>1. ASSUME NEW k \in 1 .. n
        PROVE  rs[k].offset \in Int
    <3>1. Points(t, rs[k], asked[k]) /\ asked[k].offset \in Int
      BY <1>2 DEF PointAll
    <3>2. rs[k].offset = asked[k].offset
      BY <3>1 DEF Points, NumberOf
    <3>3. QED
      BY <3>1, <3>2
  <2>2. QED
    BY <1>4, <1>5, <2>1
<1>7. ASSUME NEW k \in 1 .. n, Partners(v[k].type) # {}
      PROVE  /\ k < n /\ v[k + 1].offset = v[k].offset
             /\ v[k + 1].type \in Partners(v[k].type)
  <2>1. PICK j \in 1 .. n : j = p[k] /\ v[k] = rs[j]
    BY <1>4, <1>5
  <2>2. /\ j < n /\ rs[j + 1].offset = rs[j].offset
        /\ rs[j + 1].type \in Partners(rs[j].type)
    BY <1>2, <1>7, <2>1 DEF PairedHere
  <2>3. PICK l \in 1 .. n : p[l] = j + 1
    <3>1. j + 1 \in 1 .. n
      BY <2>2
    <3>2. QED
      BY <1>4, <3>1, ArrangesAll
  <2>4. v[l] = rs[j + 1] /\ v[l].offset = v[k].offset
    BY <1>4, <2>1, <2>2, <2>3
  <2>5. k < l
    <3>1. CASE l < k
      <4>1. p[k] < p[l]
        BY <2>1, <2>3
      <4>2. v[l].offset # v[k].offset
        BY <1>4, <3>1, <4>1
      <4>3. QED
        BY <2>4, <4>2
    <3>2. CASE l = k
      BY <2>1, <2>3, <3>2
    <3>3. QED
      BY <3>1, <3>2
  <2>6. l = k + 1
    <3>1. ASSUME k + 1 < l
          PROVE  FALSE
      <4>1. PICK q \in 1 .. n : q = k + 1 /\ k < q /\ q < l
        BY <2>5, <3>1
      <4>2. v[k].offset >= v[q].offset /\ v[q].offset >= v[l].offset
        BY <1>4, <4>1
      <4>3. v[q].offset = v[k].offset /\ v[q].offset = v[l].offset
        BY <1>6, <2>4, <4>2
      <4>4. ~ (p[q] < p[k]) /\ ~ (p[l] < p[q])
        BY <1>4, <4>1, <4>3
      <4>5. p[q] # p[k] /\ p[q] # p[l] /\ p[q] \in 1 .. n
        BY <1>5, <4>1
      <4>6. QED
        BY <2>1, <2>3, <4>4, <4>5
    <3>2. QED
      BY <2>5, <3>1
  <2>7. QED
    BY <2>1, <2>2, <2>4, <2>5, <2>6
<1>8. QED
  BY <1>1, <1>3, <1>7 DEF PairedHere

-----------------------------------------------------------------------------
(* Nothing the assembler finished is refused. *)

\* A numbered relocation f is in the bytes of section i of object o, and names
\* one of its symbols where it has to.
Acceptable(o, i, f) ==
    /\ o.sections[i].kind # "zerofill"
    /\ f.offset + RelocWidth(f) <= o.sections[i].size
    /\ f.offset + RelocWidth(f) <= o.sections[i].len
    /\ f.type # "ADDEND" => f.symbol \in DOMAIN o.symbols
    /\ f.type = "ADDEND" => format = "macho"

\* Every relocation of the object is.
LEMMA ObjectAcceptable ==
  ASSUME Assembled, ObjectInv, RelocsInv, object # None,
         NEW i \in DOMAIN layout.sections, NEW k \in 1 .. Len(object.relocs[i])
  PROVE  Acceptable(object, i, object.relocs[i][k])
<1>1. /\ phase = "done" /\ GoodSymbols(object) /\ GoodRelocs(object)
  BY DEF ObjectInv
<1>2. IsSequence(relocs) /\ IsSequence(object.symbols)
  <2>1. IsSequence(relocs)
    BY DEF Assembled, FixupsInv
  <2>2. QED
    BY <1>1, <2>1 DEF GoodSymbols, EntriesFor
<1>3. PICK asked : asked = InSectionOf(relocs, i)
  OBVIOUS
<1>4. PICK f, r : f = object.relocs[i][k] /\ r = asked[k]
  OBVIOUS
<1>5. Points(object.symbols, f, r) /\ Len(object.relocs[i]) = Len(asked)
  BY <1>1, <1>3, <1>4 DEF GoodRelocs
<1>6. r \in ToSet(relocs) /\ r.section = i
  BY <1>2, <1>3, <1>4, <1>5, SectionHas
<1>7. Shaped(r) /\ RoomFor(r, RelocWidth(r))
  BY <1>1, <1>6 DEF RelocsInv
<1>8. f.type = r.type /\ f.offset = r.offset
  <2>1. f = NumberOf(r, f.symbol)
    BY <1>5 DEF Points
  <2>2. \A x : NumberOf(r, x).type = r.type /\ NumberOf(r, x).offset = r.offset
    BY DEF NumberOf
  <2>3. QED
    BY <2>1, <2>2
<1>9. RelocWidth(f) = RelocWidth(r)
  BY <1>8 DEF RelocWidth
<1>10. object.sections = layout.sections
  BY <1>1 DEF GoodRelocs
<1>11. f.type # "ADDEND" => f.symbol \in DOMAIN object.symbols
  <2>1. f.type # "ADDEND" => r.target.kind # "raw"
    BY <1>7, <1>8 DEF Shaped
  <2>2. r.target.kind # "raw" => f.symbol \in 1 .. Len(object.symbols)
    BY <1>5 DEF Points
  <2>3. QED
    BY <1>2, <2>1, <2>2 DEF IsSequence
<1>12. /\ object.sections[i].kind # "zerofill"
       /\ f.offset + RelocWidth(f) <= object.sections[i].size
       /\ f.offset + RelocWidth(f) <= object.sections[i].len
  BY <1>6, <1>7, <1>8, <1>9, <1>10 DEF RoomFor
<1>13. f.type = "ADDEND" => format = "macho"
  BY <1>7, <1>8 DEF Shaped
<1>14. QED
  BY <1>4, <1>11, <1>12, <1>13 DEF Acceptable

\* validate_relocations finds nothing.
LEMMA MachOAccepted ==
  ASSUME Assembled, ObjectInv, RelocsInv, object # None, NEW i \in DOMAIN layout.sections
  PROVE  ValidMachO(object, i)
<1>1. /\ phase = "done" /\ GoodRelocs(object)
  BY DEF ObjectInv
<1>2. IsSequence(relocs) /\ Paired(relocs)
  BY <1>1 DEF Assembled, FixupsInv, RelocsInv
<1>3. PICK rs, asked, t : /\ rs = object.relocs[i] /\ asked = InSectionOf(relocs, i)
                          /\ t = object.symbols
  OBVIOUS
<1>4. PointAll(t, rs, asked)
  BY <1>1, <1>3 DEF GoodRelocs, PointAll
<1>5. PICK v : v = Descending(rs)
  OBVIOUS
<1>6. PICK n \in Nat : n = Len(rs)
  BY <1>4 DEF PointAll, IsSequence
<1>7. v \in Seq(ToSet(rs)) /\ Len(v) = n
  BY <1>4, <1>5, <1>6, DescendingIs
<1>8. PICK p : Arranges(p, n) /\ \A k \in 1 .. n : v[k] = rs[p[k]]
  BY <1>4, <1>5, <1>6, DescendingIs
<1>9. PairedHere(v)
  <2>1. PairedHere(asked)
    BY <1>2, <1>3, SectionPaired
  <2>2. PairedHere(rs)
    BY <1>4, <2>1, NumberedPaired
  <2>3. QED
    BY <1>4, <1>5, <2>2, DescendingPaired
<1>10. ASSUME NEW k \in 1 .. n
       PROVE  Acceptable(object, i, v[k])
  <2>1. p[k] \in 1 .. n /\ v[k] = rs[p[k]]
    BY <1>8 DEF Arranges
  <2>2. Acceptable(object, i, rs[p[k]])
    BY <1>3, <1>6, <2>1, ObjectAcceptable
  <2>3. QED
    BY <2>1, <2>2
<1>11. object.sections[i].kind = "zerofill" => v = <<>>
  <2>1. object.sections[i].kind = "zerofill" => ~ (\E k \in 1 .. n : TRUE)
    BY <1>10 DEF Acceptable
  <2>2. (~ (\E k \in 1 .. n : TRUE)) => n = 0
    BY <1>6
  <2>3. n = 0 => v = <<>>
    BY <1>7
  <2>4. QED
    BY <2>1, <2>2, <2>3
<1>12. DOMAIN v = 1 .. n
  BY <1>7
<1>13. ASSUME NEW k \in 1 .. n
       PROVE  /\ v[k].offset + RelocWidth(v[k]) <= object.sections[i].size
              /\ v[k].type # "ADDEND" => v[k].symbol \in DOMAIN object.symbols
              /\ Partners(v[k].type) # {} =>
                    /\ k < n
                    /\ v[k + 1].offset = v[k].offset
                    /\ v[k + 1].type \in Partners(v[k].type)
  <2>1. Acceptable(object, i, v[k])
    BY <1>10
  <2>2. Partners(v[k].type) # {} =>
                    /\ k < n
                    /\ v[k + 1].offset = v[k].offset
                    /\ v[k + 1].type \in Partners(v[k].type)
    BY <1>7, <1>9 DEF PairedHere
  <2>3. QED
    BY <2>1, <2>2 DEF Acceptable
<1>14. ValidMachO(object, i) <=>
         /\ object.sections[i].kind = "zerofill" => v = <<>>
         /\ \A k \in DOMAIN v :
              /\ v[k].offset + RelocWidth(v[k]) <= object.sections[i].size
              /\ v[k].type # "ADDEND" => v[k].symbol \in DOMAIN object.symbols
              /\ Partners(v[k].type) # {} =>
                    /\ k < Len(v)
                    /\ v[k + 1].offset = v[k].offset
                    /\ v[k + 1].type \in Partners(v[k].type)
  BY <1>3, <1>5, Zenon DEF ValidMachO
<1>15. QED
  BY <1>7, <1>11, <1>12, <1>13, <1>14

\* Nor does validate, in ELF.
LEMMA ElfAccepted ==
  ASSUME Assembled, ObjectInv, RelocsInv, object # None, format # "macho",
         NEW i \in DOMAIN layout.sections
  PROVE  ValidElf(object, i)
<1>1. GoodRelocs(object)
  BY DEF ObjectInv
<1>2. DOMAIN object.relocs[i] = 1 .. Len(object.relocs[i])
  BY <1>1 DEF GoodRelocs, IsSequence
<1>3. \A k \in 1 .. Len(object.relocs[i]) : Acceptable(object, i, object.relocs[i][k])
  BY ObjectAcceptable
<1>4. QED
  BY <1>2, <1>3 DEF ValidElf, Acceptable

\* resolve_fixups, finish, finish_elf and the writers: what the assembler
\* finished no writer refuses, since pairs of relocations are recorded in pairs
\* and stay so, and every relocation is in the bytes its statement emitted.
THEOREM WritersAccept == ObjectsSpec => []WriterAccepts
<1>1. Assembled /\ ObjectInv /\ RelocsInv => WriterAccepts
  <2>1. SUFFICES ASSUME Assembled, ObjectInv, RelocsInv
                 PROVE  file # Refused
    BY DEF WriterAccepts
  <2>2. CASE file = None
    BY <2>2 DEF None, Refused
  <2>3. CASE file # None
    <3>1. object # None /\ file = Output(object) /\ object.kind = format /\ GoodRelocs(object)
      BY <2>1, <2>3 DEF ObjectInv
    <3>2. DOMAIN object.relocs = DOMAIN layout.sections
      BY <3>1 DEF GoodRelocs
    <3>3. CASE format = "macho"
      <4>1. \A i \in DOMAIN object.relocs : ValidMachO(object, i)
        BY <2>1, <3>1, <3>2, MachOAccepted
      <4>2. file = MachOFile(object)
        BY <3>1, <3>3, <4>1 DEF Output
      <4>3. QED
        BY <4>2 DEF MachOFile, Refused
    <3>4. CASE format # "macho"
      <4>1. \A i \in DOMAIN object.relocs : ValidElf(object, i)
        BY <2>1, <3>1, <3>2, <3>4, ElfAccepted
      <4>2. file = ElfFile(object)
        BY <3>1, <3>4, <4>1 DEF Output
      <4>3. QED
        BY <4>2 DEF ElfFile, Refused
    <3>5. QED
      BY <3>3, <3>4
  <2>4. QED
    BY <2>2, <2>3
<1>2. QED
  BY <1>1, AssembledHolds, ObjectHolds, RelocsHold, PTL

-----------------------------------------------------------------------------
(* What the mapping symbols of a section tell of its content. *)

\* The marks of a section of n bytes: rising, the last one as the state says,
\* and an alignment that is armed behind them.
MarkedUpTo(m, n) ==
    /\ \A k \in 1 .. Len(m.marks) : m.marks[k].offset <= n
    /\ \A j, k \in 1 .. Len(m.marks) : j < k => m.marks[j].offset <= m.marks[k].offset
    /\ Len(m.marks) = 0 <=> m.state = Neither
    /\ Len(m.marks) > 0 => m.state = m.marks[Len(m.marks)].kind
    /\ m.armed # NotArmed =>
          /\ m.armed <= n
          /\ \A k \in 1 .. Len(m.marks) : m.marks[k].offset <= m.armed

\* The last mark at or before content c has its kind; only data can have none.
\* An alignment that is armed is behind it.
Tells(m, c) ==
    /\ m.armed # NotArmed => c.offset < m.armed
    /\ \/ c.kind = Data /\ \A k \in 1 .. Len(m.marks) : c.offset < m.marks[k].offset
       \/ \E k \in 1 .. Len(m.marks) :
             /\ m.marks[k].offset <= c.offset /\ m.marks[k].kind = c.kind
             /\ \A j \in 1 .. Len(m.marks) : k < j => c.offset < m.marks[j].offset

\* Code, data, and neither of them.
LEMMA KindsApart == Code # Data /\ Code # Neither /\ Data # Neither
  BY DEF Code, Data, Neither

\* elf_mark_kind: one mark more, or none.
LEMMA MarkIs ==
  ASSUME NEW m \in Mappings, NEW s, NEW n \in Int, NEW w, w = Mark(m, s, n)
  PROVE  /\ w \in Mappings /\ w.armed = NotArmed
         /\ Continues(m, s) => w.marks = m.marks /\ w.state = m.state
         /\ ~ Continues(m, s) =>
               /\ w.state = KindOf(s)
               /\ Len(w.marks) = Len(m.marks) + 1
               /\ \A k \in 1 .. Len(m.marks) : w.marks[k] = m.marks[k]
               /\ w.marks[Len(m.marks) + 1] =
                     [kind |-> KindOf(s), offset |-> IF m.armed = NotArmed THEN n ELSE m.armed]
<1>1. w \in Mappings
  BY MarkTyped
<1>2. PICK mark : mark = [kind |-> KindOf(s), offset |-> IF m.armed = NotArmed THEN n ELSE m.armed]
  OBVIOUS
<1>3. mark \in Markings /\ m.marks \in Seq(Markings)
  BY <1>2 DEF Markings, Mappings, KindOf
<1>4. PICK more : more = Append(m.marks, mark)
  OBVIOUS
<1>5. /\ Len(more) = Len(m.marks) + 1
      /\ \A k \in 1 .. Len(m.marks) : more[k] = m.marks[k]
      /\ more[Len(m.marks) + 1] = mark
      /\ more \in Seq(Markings)
  BY <1>3, <1>4, AppendProperties
<1>6. Marked(m, s, n) = [m EXCEPT !.state = KindOf(s), !.marks = more]
  BY <1>2, <1>4 DEF Marked
<1>7. CASE Continues(m, s)
  <2>1. w = [m EXCEPT !.armed = NotArmed]
    BY <1>7 DEF Mark, Disarmed
  <2>2. w.armed = NotArmed /\ w.marks = m.marks /\ w.state = m.state
    BY <2>1 DEF Mappings
  <2>3. QED
    BY <1>1, <1>7, <2>2
<1>8. CASE ~ Continues(m, s)
  <2>1. w = [[m EXCEPT !.state = KindOf(s), !.marks = more] EXCEPT !.armed = NotArmed]
    BY <1>6, <1>8 DEF Mark, Disarmed
  <2>2. w.armed = NotArmed /\ w.marks = more /\ w.state = KindOf(s)
    BY <2>1 DEF Mappings
  <2>3. QED
    BY <1>1, <1>2, <1>5, <1>8, <2>2
<1>9. QED
  BY <1>7, <1>8

\* The two, with the number of marks given.
LEMMA MarksKnown ==
  ASSUME NEW m, NEW l, l = Len(m.marks)
  PROVE  /\ \A n : MarkedUpTo(m, n) <=>
               /\ \A k \in 1 .. l : m.marks[k].offset <= n
               /\ \A j, k \in 1 .. l : j < k => m.marks[j].offset <= m.marks[k].offset
               /\ l = 0 <=> m.state = Neither
               /\ l > 0 => m.state = m.marks[l].kind
               /\ m.armed # NotArmed =>
                     /\ m.armed <= n
                     /\ \A k \in 1 .. l : m.marks[k].offset <= m.armed
         /\ \A c : Tells(m, c) <=>
               /\ m.armed # NotArmed => c.offset < m.armed
               /\ \/ c.kind = Data /\ \A k \in 1 .. l : c.offset < m.marks[k].offset
                  \/ \E k \in 1 .. l :
                        /\ m.marks[k].offset <= c.offset /\ m.marks[k].kind = c.kind
                        /\ \A j \in 1 .. l : k < j => c.offset < m.marks[j].offset
  BY Zenon DEF MarkedUpTo, Tells

\* What is emitted next is told by the marks there are then.
LEMMA MarkTells ==
  ASSUME NEW m \in Mappings, NEW s, NEW n \in Nat, MarkedUpTo(m, n), NEW w, w = Mark(m, s, n)
  PROVE  /\ MarkedUpTo(w, n) /\ w.armed = NotArmed
         /\ \A c : c.offset \in Nat /\ c.offset < n /\ Tells(m, c) => Tells(w, c)
         /\ \A c : c.offset = n /\ c.kind = KindOf(s) => Tells(w, c)
<1>1. PICK l \in Nat : l = Len(m.marks)
  BY DEF Mappings
<1>2. /\ \A k \in 1 .. l : m.marks[k] \in Markings
      /\ \A k \in 1 .. l : m.marks[k].offset \in Int /\ m.marks[k].offset <= n
      /\ \A j, k \in 1 .. l : j < k => m.marks[j].offset <= m.marks[k].offset
      /\ l = 0 <=> m.state = Neither
      /\ l > 0 => m.state = m.marks[l].kind
      /\ m.armed \in Int
      /\ m.armed # NotArmed =>
            /\ m.armed <= n
            /\ \A k \in 1 .. l : m.marks[k].offset <= m.armed
  <2>1. m.marks \in Seq(Markings) /\ m.armed \in Int
    BY DEF Mappings
  <2>2. \A k \in 1 .. l : m.marks[k] \in Markings /\ m.marks[k].offset \in Int
    <3>1. \A k \in 1 .. l : m.marks[k] \in Markings
      BY <1>1, <2>1
    <3>2. \A x \in Markings : x.offset \in Int
      BY DEF Markings
    <3>3. QED
      BY <3>1, <3>2
  <2>3. QED
    BY <1>1, <2>1, <2>2, MarksKnown
<1>3. KindOf(s) \in {Code, Data} /\ KindOf(s) # Neither
  BY KindsApart DEF KindOf
<1>4. /\ w.armed = NotArmed
      /\ Continues(m, s) => w.marks = m.marks /\ w.state = m.state
      /\ ~ Continues(m, s) =>
            /\ w.state = KindOf(s)
            /\ Len(w.marks) = Len(m.marks) + 1
            /\ \A k \in 1 .. Len(m.marks) : w.marks[k] = m.marks[k]
            /\ w.marks[Len(m.marks) + 1] =
                  [kind |-> KindOf(s), offset |-> IF m.armed = NotArmed THEN n ELSE m.armed]
  <2>1. n \in Int
    OBVIOUS
  <2>2. QED
    BY <2>1, MarkIs
<1>5. CASE Continues(m, s)
  <2>1. w.marks = m.marks /\ w.state = m.state
    BY <1>4, <1>5
  <2>2. MarkedUpTo(w, n)
    BY <1>4, <2>1, Zenon DEF MarkedUpTo
  <2>3. ASSUME NEW c, Tells(m, c)
        PROVE  Tells(w, c)
    BY <1>4, <2>1, <2>3, Zenon DEF Tells
  <2>4. ASSUME NEW c, c.offset = n, c.kind = KindOf(s)
        PROVE  Tells(w, c)
    <3>1. CASE m.state = KindOf(s)
      <4>1. l \in 1 .. l /\ m.marks[l].kind = c.kind /\ m.marks[l].offset <= c.offset
        <5>1. l # 0
          BY <1>2, <1>3, <3>1
        <5>2. l \in 1 .. l /\ l > 0
          BY <1>1, <5>1
        <5>3. m.marks[l].kind = KindOf(s)
          BY <1>2, <3>1, <5>2
        <5>4. m.marks[l].offset <= n
          BY <1>2, <5>2
        <5>5. QED
          BY <2>4, <5>2, <5>3, <5>4
      <4>2. \A j \in 1 .. l : ~ (l < j)
        OBVIOUS
      <4>3. QED
        BY <1>1, <1>4, <2>1, <4>1, <4>2 DEF Tells
    <3>2. CASE m.state # KindOf(s)
      <4>1. m.state = Neither /\ ~Establishes(s)
        BY <1>5, <3>2 DEF Continues
      <4>2. l = 0 /\ c.kind = Data
        BY <1>2, <2>4, <4>1 DEF Establishes, KindOf
      <4>3. QED
        BY <1>1, <1>4, <2>1, <4>2 DEF Tells
    <3>3. QED
      BY <3>1, <3>2
  <2>5. QED
    BY <1>4, <2>2, <2>3, <2>4
<1>6. CASE ~ Continues(m, s)
  <2>1. PICK x : x = IF m.armed = NotArmed THEN n ELSE m.armed
    OBVIOUS
  <2>2. /\ w.state = KindOf(s) /\ Len(w.marks) = l + 1
        /\ \A k \in 1 .. l : w.marks[k] = m.marks[k]
        /\ w.marks[l + 1].kind = KindOf(s) /\ w.marks[l + 1].offset = x
    BY <1>1, <1>4, <1>6, <2>1
  <2>3. x \in Int /\ x <= n /\ \A k \in 1 .. l : m.marks[k].offset <= x
    BY <1>2, <2>1
  <2>4. \A k \in 1 .. l + 1 : k \in 1 .. l \/ k = l + 1
    BY <1>1
  <2>5. MarkedUpTo(w, n)
    <3>1. \A k \in 1 .. l + 1 : w.marks[k].offset <= n
      BY <1>2, <2>2, <2>3, <2>4
    <3>2. ASSUME NEW j \in 1 .. l + 1, NEW k \in 1 .. l + 1, j < k
          PROVE  w.marks[j].offset <= w.marks[k].offset
      <4>1. j \in 1 .. l
        BY <1>1, <3>2
      <4>2. QED
        BY <1>2, <2>2, <2>3, <2>4, <3>2, <4>1
    <3>3. QED
      BY <1>1, <1>3, <1>4, <2>2, <3>1, <3>2 DEF MarkedUpTo
  <2>6. ASSUME NEW c, c.offset \in Nat, c.offset < n, Tells(m, c)
        PROVE  Tells(w, c)
    <3>1. c.offset < x
      BY <2>1, <2>6 DEF Tells
    <3>2. CASE c.kind = Data /\ \A k \in 1 .. l : c.offset < m.marks[k].offset
      <4>1. \A k \in 1 .. l + 1 : c.offset < w.marks[k].offset
        BY <2>2, <2>4, <3>1, <3>2
      <4>2. QED
        BY <1>4, <2>2, <3>2, <4>1 DEF Tells
    <3>3. CASE \E k \in 1 .. l : /\ m.marks[k].offset <= c.offset /\ m.marks[k].kind = c.kind
                                 /\ \A j \in 1 .. l : k < j => c.offset < m.marks[j].offset
      <4>1. PICK k \in 1 .. l : /\ m.marks[k].offset <= c.offset /\ m.marks[k].kind = c.kind
                                /\ \A j \in 1 .. l : k < j => c.offset < m.marks[j].offset
        BY <3>3
      <4>2. /\ k \in 1 .. l + 1 /\ w.marks[k].offset <= c.offset /\ w.marks[k].kind = c.kind
            /\ \A j \in 1 .. l + 1 : k < j => c.offset < w.marks[j].offset
        BY <1>1, <2>2, <2>4, <3>1, <4>1
      <4>3. QED
        BY <1>4, <2>2, <4>2 DEF Tells
    <3>4. QED
      BY <1>1, <2>6, <3>2, <3>3 DEF Tells
  <2>7. ASSUME NEW c, c.offset = n, c.kind = KindOf(s)
        PROVE  Tells(w, c)
    <3>1. /\ l + 1 \in 1 .. l + 1 /\ w.marks[l + 1].offset <= c.offset /\ w.marks[l + 1].kind = c.kind
          /\ \A j \in 1 .. l + 1 : ~ (l + 1 < j)
      BY <1>1, <2>2, <2>3, <2>7
    <3>2. QED
      BY <1>4, <2>2, <3>1 DEF Tells
  <2>8. QED
    BY <1>4, <2>5, <2>6, <2>7
<1>7. QED
  BY <1>5, <1>6

\* elf_arm_align
LEMMA ArmTells ==
  ASSUME NEW m \in Mappings, NEW s, NEW n \in Nat, MarkedUpTo(m, n), NEW w, w = Arm(m, s, n)
  PROVE  /\ MarkedUpTo(w, n)
         /\ \A c : c.offset \in Nat /\ c.offset < n /\ Tells(m, c) => Tells(w, c)
<1>1. CASE w = m
  BY <1>1
<1>2. CASE w = [m EXCEPT !.armed = n]
  <2>1. w.marks = m.marks /\ w.state = m.state /\ w.armed = n
    BY <1>2 DEF Mappings
  <2>2. QED
    BY <2>1 DEF MarkedUpTo, Tells
<1>3. QED
  BY <1>1, <1>2 DEF Arm

\* A section that grows stays marked.
LEMMA MarkedGrows ==
  ASSUME NEW m \in Mappings, NEW n \in Nat, MarkedUpTo(m, n), NEW p \in Nat, n <= p
  PROVE  MarkedUpTo(m, p)
<1>1. m.armed \in Int /\ \A k \in 1 .. Len(m.marks) : m.marks[k].offset \in Int
  <2>1. m.armed \in Int /\ m.marks \in Seq(Markings)
    BY DEF Mappings
  <2>2. \A k \in 1 .. Len(m.marks) : m.marks[k] \in Markings
    BY <2>1
  <2>3. QED
    BY <2>1, <2>2 DEF Markings
<1>2. QED
  BY <1>1 DEF MarkedUpTo

\* What was emitted is in its section, and told there.
Told(l, marked, emitted) ==
    /\ \A i \in 1 .. Len(l.sections) : MarkedUpTo(marked[l.sections[i].name], l.sections[i].size)
    /\ \A c \in emitted :
          /\ c.section \in 1 .. Len(l.sections) /\ c.offset \in Nat
          /\ c.offset < l.sections[c.section].size
          /\ Tells(marked[l.sections[c.section].name], c)

ContentInv ==
    /\ phase \in {"collect", "unwind", "expressions", "reset"} => content = {}
    /\ phase \in {"emit", "fixups", "finish", "done"} /\ format = "elf" =>
          Told(layout, mapping, content)

\* emit_stmt: the sections stay, and grow.
LEMMA EmissionGrows ==
  ASSUME Inv, Inv', EmitStatement
  PROVE  /\ phase = "emit" /\ phase' = "emit" /\ format' = format
         /\ Len(layout.sections) \in Nat /\ Len(layout'.sections) = Len(layout.sections)
         /\ layout.section \in 1 .. Len(layout.sections)
         /\ Offset = layout.sections[layout.section].size
         /\ Current(layout).name = layout.sections[layout.section].name
         /\ \A i \in 1 .. Len(layout.sections) :
               /\ layout'.sections[i].name = layout.sections[i].name
               /\ layout.sections[i].name \in SectionNames
               /\ layout.sections[i].size \in Nat /\ layout'.sections[i].size \in Nat
               /\ layout.sections[i].size <= layout'.sections[i].size
               /\ layout.sections[i].name = layout.sections[layout.section].name
                     => i = layout.section
<1>1. /\ phase = "emit" /\ phase' = "emit" /\ pc <= Len(prog) /\ pc' = pc + 1
      /\ format' = format /\ prog' = prog /\ trail' = trail
  BY DEF EmitStatement, EmitSet, EmitQuad, EmitFixup, EmitLabel, EmitZerofillSymbol, EmitOther,
     EmitNothing, EmitBytes, EmitFill, EmitSpaces, EmitAlignment, EmitSection, EmitZerofills,
     EndEmit, Proceed, At, source
<1>2. PICK p \in 1 .. Len(prog) : p = pc
  BY <1>1 DEF Inv, TypeOK
<1>3. /\ Len(trail) = Len(prog) + 1 /\ Len(prog) \in Nat /\ trail \in Seq(Layouts)
      /\ layout \in Layouts /\ layout' \in Layouts
      /\ Agree(layout, trail[p], Final)
  BY <1>1, <1>2 DEF Inv, PhaseInv, TypeOK
<1>4. Final' = Final /\ Agree(layout', trail[p + 1], Final)
  BY <1>1, <1>2 DEF Inv, PhaseInv, Final
<1>5. p \in 1 .. Len(trail) /\ p + 1 \in 1 .. Len(trail) /\ p <= p + 1
      /\ Len(trail) \in 1 .. Len(trail)
  BY <1>2, <1>3
<1>6. PICK a, b, f \in Layouts : a = trail[p] /\ b = trail[p + 1] /\ f = Final
  BY <1>3, <1>5 DEF Final
<1>7. Extends(a.sections, b.sections)
  BY <1>5, <1>6, TrailGrows
<1>8. Unique(f.sections)
  BY <1>3, <1>5, <1>6 DEF Inv, TrailInv, Final
<1>9. PICK l, m \in Layouts : l = layout /\ m = layout'
  BY <1>3
<1>10. Agree(l, a, f) /\ Agree(m, b, f)
  BY <1>3, <1>4, <1>6, <1>9
<1>11. /\ a.sections \in Seq(Section) /\ b.sections \in Seq(Section) /\ f.sections \in Seq(Section)
       /\ l.sections \in Seq(Section) /\ m.sections \in Seq(Section)
       /\ l.section \in 1 .. Len(l.sections)
  BY DEF Layouts
<1>12. /\ Len(l.sections) \in Nat /\ Len(m.sections) = Len(l.sections)
       /\ Len(f.sections) = Len(l.sections)
  BY <1>10, <1>11 DEF Agree
<1>13. ASSUME NEW i \in 1 .. Len(l.sections)
       PROVE  /\ m.sections[i].name = l.sections[i].name
              /\ l.sections[i].name \in SectionNames
              /\ l.sections[i].size \in Nat /\ m.sections[i].size \in Nat
              /\ l.sections[i].size <= m.sections[i].size
              /\ l.sections[i].name = l.sections[l.section].name => i = l.section
  <2>1. l.sections[i] \in Section /\ m.sections[i] \in Section
    BY <1>11, <1>12
  <2>2. /\ l.sections[i].name \in SectionNames
        /\ l.sections[i].size \in Nat /\ m.sections[i].size \in Nat
    BY <2>1 DEF Section
  <2>3. /\ l.sections[i].name = f.sections[i].name /\ m.sections[i].name = f.sections[i].name
        /\ l.sections[i].size = IF i <= Len(a.sections) THEN a.sections[i].size ELSE 0
        /\ m.sections[i].size = IF i <= Len(b.sections) THEN b.sections[i].size ELSE 0
        /\ l.sections[l.section].name = f.sections[l.section].name
    BY <1>10, <1>11, <1>12 DEF Agree
  <2>4. l.sections[i].name = l.sections[l.section].name => i = l.section
    BY <1>8, <1>11, <1>12, <2>3 DEF Unique
  <2>5. l.sections[i].size <= m.sections[i].size
    <3>1. CASE i <= Len(a.sections)
      <4>1. /\ i \in 1 .. Len(a.sections) /\ Len(a.sections) <= Len(b.sections)
            /\ Len(a.sections) \in Nat /\ Len(b.sections) \in Nat
        BY <1>7, <1>11, <3>1 DEF Extends
      <4>2. Later(a.sections[i], b.sections[i])
        BY <1>7, <4>1 DEF Extends
      <4>3. i <= Len(b.sections)
        BY <4>1
      <4>4. QED
        BY <2>2, <2>3, <3>1, <4>2, <4>3 DEF Later
    <3>2. CASE ~ (i <= Len(a.sections))
      <4>1. l.sections[i].size = 0
        BY <2>3, <3>2
      <4>2. QED
        BY <2>2, <4>1
    <3>3. QED
      BY <3>1, <3>2
  <2>6. QED
    BY <2>2, <2>3, <2>4, <2>5
<1>14. QED
  BY <1>1, <1>9, <1>11, <1>12, <1>13 DEF Offset, Current

\* The marks of the current section, and no other, are changed by a statement.
LEMMA MarksMove ==
  ASSUME MappingInv, EmitStatement, format = "elf",
         NEW name \in SectionNames, name = Current(layout).name, NEW n, n = Offset
  PROVE  /\ mapping'[name] = IF IsContent(Stmt) THEN Mark(mapping[name], Stmt, n)
                             ELSE IF Stmt.op = "align" THEN Arm(mapping[name], Stmt, n)
                             ELSE mapping[name]
         /\ \A m \in SectionNames : m # name => mapping'[m] = mapping[m]
<1>1. mapping \in [SectionNames -> Mappings]
  BY DEF MappingInv
<1>2. PICK s : s = Stmt
  OBVIOUS
<1>3. mapping' = IF IsContent(s) THEN [mapping EXCEPT ![name] = Mark(mapping[name], s, n)]
                 ELSE IF s.op = "align" THEN [mapping EXCEPT ![name] = Arm(mapping[name], s, n)]
                 ELSE mapping
  <2>1. MarkStatement(s)
    BY <1>2 DEF EmitStatement
  <2>2. CASE IsContent(s)
    <3>1. mapping' = [mapping EXCEPT ![name] = Mark(@, s, n)]
      BY <2>1, <2>2 DEF MarkStatement, IsContent
    <3>2. QED
      BY <2>2, <3>1
  <2>3. CASE ~ IsContent(s) /\ s.op = "align"
    BY <2>1, <2>3 DEF MarkStatement
  <2>4. CASE ~ IsContent(s) /\ s.op # "align"
    BY <2>1, <2>4 DEF MarkStatement
  <2>5. QED
    BY <2>2, <2>3, <2>4
<1>4. QED
  BY <1>1, <1>2, <1>3

\* emit_stmt and elf_mark_kind: what was told stays so, and what is emitted
\* is told as well.
LEMMA EmitTold ==
  ASSUME Inv, Inv', MappingInv, ContentInv, EmitStatement, format = "elf"
  PROVE  Told(layout, mapping, content)'
<1>1. PICK l, t, u : l = layout.section /\ t = layout.sections /\ u = layout'.sections
  OBVIOUS
<1>2. /\ Len(t) \in Nat /\ Len(u) = Len(t) /\ l \in 1 .. Len(t)
      /\ Offset = t[l].size /\ Current(layout).name = t[l].name
      /\ \A i \in 1 .. Len(t) :
            /\ u[i].name = t[i].name /\ t[i].name \in SectionNames
            /\ t[i].size \in Nat /\ u[i].size \in Nat /\ t[i].size <= u[i].size
            /\ t[i].name = t[l].name => i = l
  BY <1>1, EmissionGrows
<1>3. PICK n \in Nat : n = t[l].size /\ n = Offset
  BY <1>2
<1>4. PICK name \in SectionNames : name = t[l].name /\ name = Current(layout).name
  BY <1>2
<1>5. PICK s : s = Stmt
  OBVIOUS
<1>6. PICK m \in Mappings : m = mapping[name]
  BY DEF MappingInv
<1>7. PICK w : w = mapping'[name]
  OBVIOUS
<1>8. /\ w = IF IsContent(s) THEN Mark(m, s, n) ELSE IF s.op = "align" THEN Arm(m, s, n) ELSE m
      /\ \A k \in SectionNames : k # name => mapping'[k] = mapping[k]
  BY <1>3, <1>4, <1>5, <1>6, <1>7, MarksMove
<1>9. Told(layout, mapping, content)
  BY EmissionGrows DEF ContentInv
<1>10. /\ \A i \in 1 .. Len(t) : MarkedUpTo(mapping[t[i].name], t[i].size)
       /\ \A c \in content : /\ c.section \in 1 .. Len(t) /\ c.offset \in Nat
                             /\ c.offset < t[c.section].size
                             /\ Tells(mapping[t[c.section].name], c)
  BY <1>1, <1>9 DEF Told
<1>11. MarkedUpTo(m, n)
  BY <1>2, <1>3, <1>4, <1>6, <1>10
<1>12. /\ w \in Mappings /\ MarkedUpTo(w, n)
       /\ \A c : c.offset \in Nat /\ c.offset < n /\ Tells(m, c) => Tells(w, c)
       /\ IsContent(s) => \A c : c.offset = n /\ c.kind = KindOf(s) => Tells(w, c)
  <2>0. n \in Int
    OBVIOUS
  <2>1. CASE IsContent(s)
    <3>1. w = Mark(m, s, n)
      BY <1>8, <2>1
    <3>2. w \in Mappings
      BY <2>0, <3>1, MarkIs
    <3>3. /\ MarkedUpTo(w, n)
          /\ \A c : c.offset \in Nat /\ c.offset < n /\ Tells(m, c) => Tells(w, c)
          /\ \A c : c.offset = n /\ c.kind = KindOf(s) => Tells(w, c)
      BY <1>11, <3>1, MarkTells
    <3>4. QED
      BY <3>2, <3>3
  <2>2. CASE ~ IsContent(s) /\ s.op = "align"
    <3>1. w = Arm(m, s, n)
      BY <1>8, <2>2
    <3>2. w \in Mappings
      BY <2>0, <3>1, MarkTyped
    <3>3. /\ MarkedUpTo(w, n)
          /\ \A c : c.offset \in Nat /\ c.offset < n /\ Tells(m, c) => Tells(w, c)
      BY <1>11, <3>1, ArmTells
    <3>4. QED
      BY <2>2, <3>2, <3>3
  <2>3. CASE ~ IsContent(s) /\ s.op # "align"
    BY <1>8, <1>11, <2>3
  <2>4. QED
    BY <2>1, <2>2, <2>3
<1>13. ASSUME NEW i \in 1 .. Len(u)
       PROVE  MarkedUpTo(mapping'[u[i].name], u[i].size)
  <2>1. i \in 1 .. Len(t) /\ u[i].name = t[i].name
    BY <1>2
  <2>2. CASE i = l
    <3>1. u[i].size \in Nat /\ n <= u[i].size
      BY <1>2, <1>3, <2>1, <2>2
    <3>2. MarkedUpTo(w, u[i].size)
      BY <1>12, <3>1, MarkedGrows
    <3>3. QED
      BY <1>4, <1>7, <2>1, <2>2, <3>2
  <2>3. CASE i # l
    <3>1. t[i].name # name /\ t[i].name \in SectionNames
      BY <1>2, <1>4, <2>1, <2>3
    <3>2. PICK x \in Mappings : x = mapping[t[i].name]
      BY <3>1 DEF MappingInv
    <3>3. MarkedUpTo(x, t[i].size) /\ mapping'[u[i].name] = x
      BY <1>8, <1>10, <2>1, <3>1, <3>2
    <3>4. t[i].size \in Nat /\ u[i].size \in Nat /\ t[i].size <= u[i].size
      BY <1>2, <2>1
    <3>5. MarkedUpTo(x, u[i].size)
      BY <3>3, <3>4, MarkedGrows
    <3>6. QED
      BY <3>3, <3>5
  <2>4. QED
    BY <2>2, <2>3
<1>14. ASSUME NEW c \in content
       PROVE  /\ c.section \in 1 .. Len(u) /\ c.offset \in Nat
              /\ c.offset < u[c.section].size
              /\ Tells(mapping'[u[c.section].name], c)
  <2>1. PICK i \in 1 .. Len(t) : i = c.section
    BY <1>10
  <2>2. /\ c.offset \in Nat /\ c.offset < t[i].size /\ Tells(mapping[t[i].name], c)
        /\ u[i].name = t[i].name /\ t[i].name \in SectionNames
        /\ t[i].size \in Nat /\ u[i].size \in Nat /\ t[i].size <= u[i].size
    BY <1>2, <1>10, <2>1
  <2>3. c.offset < u[i].size
    BY <2>2
  <2>4. CASE i = l
    <3>1. Tells(m, c) /\ c.offset < n
      BY <1>3, <1>4, <1>6, <2>2, <2>4
    <3>2. Tells(w, c)
      BY <1>12, <2>2, <3>1
    <3>3. QED
      BY <1>2, <1>4, <1>7, <2>1, <2>2, <2>3, <2>4, <3>2
  <2>5. CASE i # l
    <3>1. t[i].name # name
      BY <1>2, <1>4, <2>5
    <3>2. mapping'[t[i].name] = mapping[t[i].name]
      BY <1>8, <2>2, <3>1
    <3>3. QED
      BY <1>2, <2>1, <2>2, <2>3, <3>2
  <2>6. QED
    BY <2>4, <2>5
<1>15. ASSUME NEW c \in content', c \notin content
       PROVE  /\ c.section \in 1 .. Len(u) /\ c.offset \in Nat
              /\ c.offset < u[c.section].size
              /\ Tells(mapping'[u[c.section].name], c)
  <2>1. content' = content \union Written(s)
    BY <1>5 DEF EmitStatement
  <2>2. c \in Written(s)
    BY <1>15, <2>1
  <2>3. /\ IsContent(s) /\ u[l].size > n
        /\ c = [section |-> l, offset |-> n, kind |-> KindOf(s)]
    BY <1>1, <1>3, <2>2 DEF Written
  <2>4. c.section = l /\ c.offset = n /\ c.kind = KindOf(s)
    BY <2>3
  <2>5. Tells(w, c)
    BY <1>12, <2>3, <2>4
  <2>6. u[l].name = name /\ l \in 1 .. Len(u) /\ u[l].size \in Nat
    BY <1>2, <1>4
  <2>7. QED
    BY <1>7, <2>3, <2>4, <2>5, <2>6
<1>16. QED
  BY <1>1, <1>13, <1>14, <1>15 DEF Told

\* No mark is wrong where there is none.
LEMMA ResetTold ==
  ASSUME Inv', ContentInv, ResetMarks
  PROVE  Told(layout, mapping, content)'
<1>1. phase = "reset" /\ content' = content /\ mapping' = Unmarked
  BY DEF ResetMarks, Reset, LayoutReset
<1>2. content' = {}
  BY <1>1 DEF ContentInv
<1>3. PICK t : t = layout'.sections
  OBVIOUS
<1>4. t \in Seq(Section)
  BY <1>3 DEF Inv, TypeOK, Layouts
<1>5. ASSUME NEW i \in 1 .. Len(t)
      PROVE  MarkedUpTo(mapping'[t[i].name], t[i].size)
  <2>1. t[i] \in Section
    BY <1>4
  <2>2. t[i].name \in SectionNames
    BY <2>1 DEF Section
  <2>3. PICK none : none = <<>>
    OBVIOUS
  <2>4. Len(none) = 0
    BY <2>3
  <2>5. mapping'[t[i].name] = [state |-> "neither", armed |-> -1, marks |-> none]
    BY <1>1, <2>2, <2>3 DEF Unmarked
  <2>6. PICK m : m = mapping'[t[i].name]
    OBVIOUS
  <2>7. m.marks = none /\ m.state = Neither /\ m.armed = NotArmed
    BY <2>5, <2>6 DEF Neither, NotArmed
  <2>8. MarkedUpTo(m, t[i].size)
    BY <2>4, <2>7 DEF MarkedUpTo
  <2>9. QED
    BY <2>6, <2>8
<1>6. QED
  BY <1>2, <1>3, <1>5 DEF Told

\* Every step.
LEMMA ContentSteps ==
  ASSUME Inv, Inv', MappingInv, ContentInv, [ObjectsNext]_<<vars, objects>>
  PROVE  ContentInv'
<1>1. CASE EmitStatement
  <2>1. phase = "emit" /\ phase' = "emit" /\ format' = format
    BY <1>1, EmissionGrows
  <2>2. format = "elf" => Told(layout, mapping, content)'
    BY <1>1, EmitTold
  <2>3. QED
    BY <2>1, <2>2 DEF ContentInv
<1>2. CASE ResetMarks
  <2>1. phase' = "emit"
    BY <1>2 DEF ResetMarks, Reset, LayoutReset
  <2>2. QED
    BY <1>2, <2>1, ResetTold DEF ContentInv
<1>3. CASE Measure
  <2>1. /\ phase = "collect" \/ phase = "unwind"
        /\ phase' \in {"collect", "unwind", "expressions"} /\ content' = content
    BY <1>3 DEF Measure, CollectLabel, CollectSet, CollectComm, CollectAttribute,
       CollectZerofill, CollectOther, CollectSymbol, CollectZerofills, CollectBytes, CollectFill,
       CollectSpace, CollectAlign, CollectSection, CollectStartProc, CollectCfi, CollectEndProc,
       EndCollect, PrepareUnwind, Advance, At
  <2>2. QED
    BY <2>1 DEF ContentInv
<1>4. CASE Elsewhere \/ Write \/ FinishElfObject \/ UNCHANGED <<vars, objects>>
  <2>1. /\ layout' = layout /\ mapping' = mapping /\ content' = content /\ format' = format
        /\ \/ phase' = phase \/ phase' = "error"
           \/ phase = "expressions" /\ phase' = "reset"
           \/ phase \in {"emit", "fixups", "finish"} /\ phase' \in {"fixups", "finish", "done"}
    <3>1. CASE Elsewhere
      <4>1. mapping' = mapping /\ content' = content
        BY <3>1 DEF Elsewhere, objects
      <4>2. CASE pc > Len(prog) /\ EmitOther
        <5>1. pc \in Nat /\ Len(prog) \in Nat
          BY DEF Inv, TypeOK
        <5>2. ~ At("emit")
          BY <4>2, <5>1 DEF At
        <5>3. EndEmit
          BY <4>2, <5>2 DEF EmitOther, EmitNothing, EmitBytes, EmitFill, EmitSpaces,
             EmitAlignment, EmitSection
        <5>4. QED
          BY <4>1, <5>3 DEF EndEmit, source
      <4>3. CASE PrepareExpressions
        BY <4>1, <4>3 DEF PrepareExpressions, LayoutPrepare, source
      <4>4. CASE ResolveData64 \/ ResolveBranch \/ ResolvePage
        BY <4>1, <4>4 DEF ResolveData64, ResolveBranch, ResolvePage, Resolve, ResolveHere, source, layoutVars
      <4>5. CASE EndFixups \/ Fail \/ Terminated
        BY <4>1, <4>5 DEF EndFixups, ResolveFixups, Fail, LayoutFail, Terminated, LayoutTerminated,
           source, vars, layoutVars
      <4>6. QED
        BY <3>1, <4>2, <4>3, <4>4, <4>5 DEF Elsewhere
    <3>2. CASE Write \/ UNCHANGED <<vars, objects>>
      BY <3>2 DEF Write, vars, layoutVars, source, objects
    <3>3. CASE FinishElfObject
      BY <3>3 DEF FinishElfObject, FinishElf, LayoutFinishElf, source
    <3>4. QED
      BY <1>4, <3>1, <3>2, <3>3
  <2>2. Told(layout, mapping, content)' <=> Told(layout, mapping, content)
    BY <2>1 DEF Told
  <2>3. QED
    BY <2>1, <2>2 DEF ContentInv
<1>5. CASE FinishMachO
  <2>1. format' = "macho" /\ phase' \in {"done", "drift"}
    BY <1>5 DEF FinishMachO, Finish, LayoutFinish, source
  <2>2. QED
    BY <2>1 DEF ContentInv
<1>6. QED
  BY <1>1, <1>2, <1>3, <1>4, <1>5 DEF ObjectsNext

\* In every state.
LEMMA ContentHolds == ObjectsSpec => []ContentInv
<1>1. ObjectsInit => ContentInv
  BY DEF ObjectsInit, Init, LayoutInit, ContentInv
<1>2. Inv /\ Inv' /\ MappingInv /\ ContentInv /\ [ObjectsNext]_<<vars, objects>> => ContentInv'
  BY ContentSteps
<1>3. Assembled => Inv
  BY DEF Assembled
<1>4. QED
  BY <1>1, <1>2, <1>3, AssembledHolds, MappingHolds, PTL DEF ObjectsSpec

-----------------------------------------------------------------------------
(* The mapping symbols of the file. *)

\* The mapping symbols of section i are those of t behind at[i], and there
\* are no others.
MarkedAt(at, t) ==
    /\ at \in [1 .. Len(layout.sections) -> Nat]
    /\ \A i \in 1 .. Len(layout.sections) : \A k \in 1 .. Len(Marks(i)) :
          at[i] + k \in 1 .. Len(t) /\ t[at[i] + k] = Marks(i)[k]
    /\ \A x \in 1 .. Len(t) : t[x].name \in {Code, Data} =>
          \E i \in 1 .. Len(layout.sections) : \E k \in 1 .. Len(Marks(i)) : x = at[i] + k

\* finish_elf puts them behind the symbols of sections.
LEMMA MarksStand ==
  ASSUME Assembled, MappingInv, format = "elf", NEW t, NEW N, EntriesAfter(ElfUnnamed, t, N)
  PROVE  \E at : MarkedAt(at, t)
<1>1. PICK n \in Nat : n = Len(layout.sections) /\ DOMAIN layout.sections = 1 .. n
  BY TableOfElf
<1>2. PICK e : e = [j \in DOMAIN layout.sections |-> SectionEntry(j)]
  OBVIOUS
<1>3. PICK ss : ss = [j \in DOMAIN layout.sections |-> Marks(j)]
  OBVIOUS
<1>4. PICK m : m = FlattenSeq(ss)
  OBVIOUS
<1>5. IsSequence(e) /\ Len(e) = n /\ \A j \in 1 .. n : e[j] = SectionEntry(j)
  <2>1. EntriesFor(e, {})
    BY <1>2, ElfSections, Zenon DEF SectionEntry
  <2>2. IsSequence(e)
    BY <2>1 DEF EntriesFor
  <2>3. DOMAIN e = 1 .. n /\ \A j \in 1 .. n : e[j] = SectionEntry(j)
    BY <1>1, <1>2, Zenon
  <2>4. DOMAIN e = 1 .. Len(e) /\ Len(e) \in Nat
    BY <2>2 DEF IsSequence
  <2>5. Len(e) = n
    BY <1>1, <2>3, <2>4
  <2>6. QED
    BY <2>2, <2>3, <2>5
<1>6. /\ ss \in Seq(Seq(MarkEntries)) /\ Len(ss) = n /\ \A i \in 1 .. n : ss[i] = Marks(i)
  BY <1>1, <1>3, ListsOfMarks
<1>7. m \in Seq(MarkEntries) /\ \E at : Flattens(at, m, ss, n)
  BY <1>4, <1>6, FlattenIs
<1>8. PICK at : Flattens(at, m, ss, n)
  BY <1>7
<1>9. IsSequence(m)
  BY <1>7, ListIsSequence
<1>10. PICK b : b = e \o m /\ b = ElfUnnamed
  BY <1>2, <1>3, <1>4, Zenon DEF ElfUnnamed, SectionEntry
<1>11. PICK w \in Nat : w = Len(m)
  BY <1>9 DEF IsSequence
<1>12. /\ IsSequence(b) /\ DOMAIN b = 1 .. n + w
       /\ \A k \in 1 .. n : b[k] = e[k]
       /\ \A k \in 1 .. w : b[n + k] = m[k]
  <2>1. IsSequence(e) /\ IsSequence(m) /\ Len(e) = n
    BY <1>5, <1>9
  <2>2. /\ IsSequence(e \o m) /\ DOMAIN (e \o m) = 1 .. Len(e) + Len(m)
        /\ \A k \in 1 .. Len(e) : (e \o m)[k] = e[k]
    BY <2>1, SequencesJoin, Zenon
  <2>3. ASSUME NEW k \in 1 .. w
        PROVE  b[n + k] = m[k]
    <3>1. PICK S : S = ToSet(e) \union ToSet(m)
      OBVIOUS
    <3>2. e \in Seq(S) /\ m \in Seq(S)
      BY <2>1, <3>1 DEF IsSequence
    <3>3. b = e \o m
      BY <1>10
    <3>4. \A i \in 1 .. Len(e) + Len(m) : b[i] = IF i <= Len(e) THEN e[i] ELSE m[i - Len(e)]
      <4>1. \A i \in 1 .. Len(e) + Len(m) : (e \o m)[i] = IF i <= Len(e) THEN e[i] ELSE m[i - Len(e)]
        BY <3>2, ConcatProperties
      <4>2. QED
        BY <3>3, <4>1, Zenon
    <3>5. n + k \in 1 .. n + w /\ ~ (n + k <= n) /\ (n + k) - n = k
      OBVIOUS
    <3>6. QED
      BY <1>11, <2>1, <3>4, <3>5
  <2>4. QED
    BY <1>10, <1>11, <2>1, <2>2, <2>3, Zenon
<1>13. Len(b) = n + w
  <2>1. DOMAIN b = 1 .. Len(b) /\ Len(b) \in Nat
    BY <1>12 DEF IsSequence
  <2>2. PICK y \in Nat : y = Len(b)
    BY <2>1
  <2>3. 1 .. y = 1 .. n + w
    BY <1>12, <2>1, <2>2
  <2>4. QED
    BY <2>2, <2>3
<1>14. /\ n + w <= Len(t) /\ \A k \in 1 .. n + w : t[k] = b[k]
       /\ Len(t) \in Nat
       /\ \A x \in 1 .. Len(t) : x > n + w => t[x].name \in Names
  BY <1>10, <1>13 DEF EntriesAfter, EntriesFor, IsSequence
<1>15. /\ at \in [1 .. n -> Nat]
       /\ \A i \in 1 .. n : \A k \in 1 .. Len(ss[i]) :
             at[i] + k \in 1 .. w /\ m[at[i] + k] = ss[i][k]
       /\ \A x \in 1 .. w : \E i \in 1 .. n : \E k \in 1 .. Len(ss[i]) : x = at[i] + k
  BY <1>8, <1>11 DEF Flattens
<1>16. PICK behind : behind = [i \in 1 .. n |-> n + at[i]]
  OBVIOUS
<1>17. behind \in [1 .. n -> Nat] /\ \A i \in 1 .. n : behind[i] = n + at[i]
  BY <1>15, <1>16
<1>18. ASSUME NEW i \in 1 .. n, NEW k \in 1 .. Len(Marks(i))
       PROVE  behind[i] + k \in 1 .. Len(t) /\ t[behind[i] + k] = Marks(i)[k]
  <2>1. k \in 1 .. Len(ss[i]) /\ ss[i][k] = Marks(i)[k]
    BY <1>6
  <2>2. PICK x \in 1 .. w : x = at[i] + k /\ m[x] = ss[i][k]
    BY <1>15, <2>1
  <2>3. k \in Int /\ at[i] \in Nat
    BY <1>15, <1>18
  <2>4. behind[i] + k = n + x /\ n + x \in 1 .. n + w
    BY <1>17, <2>2, <2>3
  <2>5. t[n + x] = m[x]
    BY <1>12, <1>14, <2>4
  <2>6. n + x \in 1 .. Len(t)
    BY <1>14, <2>4
  <2>7. QED
    BY <2>1, <2>2, <2>4, <2>5, <2>6
<1>19. ASSUME NEW x \in 1 .. Len(t), t[x].name \in {Code, Data}
       PROVE  \E i \in 1 .. n : \E k \in 1 .. Len(Marks(i)) : x = behind[i] + k
  <2>1. t[x].name \notin Names
    BY <1>19, UnnamedApart
  <2>2. x \in 1 .. n + w
    BY <1>14, <2>1
  <2>3. ~ (x \in 1 .. n)
    <3>1. ASSUME x \in 1 .. n
          PROVE  FALSE
      <4>1. t[x] = SectionEntry(x)
        BY <1>5, <1>12, <1>14, <2>2, <3>1
      <4>2. t[x].name = ""
        <5>1. PICK empty : empty = ""
          OBVIOUS
        <5>2. t[x] = [name |-> empty, place |-> Place(x, 0), bind |-> "local"]
          BY <4>1, <5>1, Zenon DEF SectionEntry, Entry
        <5>3. t[x].name = empty
          BY <5>2
        <5>4. QED
          BY <5>1, <5>3, Zenon
      <4>3. "" # Code /\ "" # Data
        BY DEF Code, Data
      <4>4. QED
        BY <1>19, <4>2, <4>3, Zenon
    <3>2. QED
      BY <3>1
  <2>4. PICK y \in 1 .. w : x = n + y
    <3>1. x - n \in 1 .. w /\ x = n + (x - n)
      BY <2>2, <2>3
    <3>2. QED
      BY <3>1
  <2>5. PICK i \in 1 .. n : \E k \in 1 .. Len(ss[i]) : y = at[i] + k
    BY <1>15
  <2>6. PICK k \in 1 .. Len(ss[i]) : y = at[i] + k
    BY <2>5
  <2>7. k \in 1 .. Len(Marks(i)) /\ k \in Int /\ at[i] \in Nat
    BY <1>6, <1>15
  <2>8. x = behind[i] + k
    BY <1>17, <2>4, <2>6, <2>7
  <2>9. QED
    BY <2>7, <2>8
<1>20. MarkedAt(behind, t)
  BY <1>1, <1>17, <1>18, <1>19 DEF MarkedAt
<1>21. QED
  BY <1>20

\* The symbols of an ELF file, from those of the object.
OrderedBy(p, t, u) ==
    /\ Arranges(p, Len(t)) /\ Len(t) \in Nat
    /\ DOMAIN u = 1 .. Len(t)
    /\ \A x \in 1 .. Len(t) : u[x] = t[p[x]]
    /\ \A x, y \in 1 .. Len(t) : IsLocal(u[x]) /\ IsLocal(u[y]) /\ x < y => p[x] < p[y]

LEMMA FileOrdered ==
  ASSUME Assembled, ObjectInv, IsWritten, format = "elf"
  PROVE  \E p : OrderedBy(p, object.symbols, file.symbols)
<1>1. GoodSymbols(object) /\ file = ElfFile(object)
  BY WrittenIs
<1>2. PICK t, u : t = object.symbols /\ u = file.symbols
  OBVIOUS
<1>3. IsSequence(t)
  BY <1>1, <1>2 DEF GoodSymbols, EntriesFor
<1>4. Len(t) \in Nat
  BY <1>3 DEF IsSequence
<1>5. PICK p : p = LocalsFirst(t)
  OBVIOUS
<1>6. PICK m : First(p, t, m)
  BY <1>3, <1>5, LocalsFirstIs
<1>7. Permutes(p, t, u)
  BY <1>1, <1>2, <1>3, <1>5, ElfFileSymbols
<1>8. /\ Arranges(p, Len(t)) /\ DOMAIN u = 1 .. Len(t)
      /\ \A x \in 1 .. Len(t) : u[x] = t[p[x]]
  BY <1>7 DEF Permutes, IsSequence
<1>9. ASSUME NEW x \in 1 .. Len(t), NEW y \in 1 .. Len(t), IsLocal(u[x]), IsLocal(u[y]), x < y
      PROVE  p[x] < p[y]
  <2>1. IsLocal(t[p[x]]) /\ IsLocal(t[p[y]])
    BY <1>8, <1>9
  <2>2. x <= m /\ y <= m /\ m \in Nat
    BY <1>4, <1>6, <2>1 DEF First
  <2>3. x \in 1 .. m /\ y \in 1 .. m
    BY <2>2
  <2>4. QED
    BY <1>6, <1>9, <2>3 DEF First
<1>10. QED
  BY <1>2, <1>4, <1>8, <1>9 DEF OrderedBy

\* What the symbols of the file say of section i: each comes from a mark, and
\* each mark has one; later marks later.
MarksOf(f, u, i, m) ==
    /\ f \in [1 .. Len(m.marks) -> DOMAIN u]
    /\ \A k \in 1 .. Len(m.marks) :
          /\ u[f[k]].name = m.marks[k].kind
          /\ u[f[k]].place.section = i /\ u[f[k]].place.value = m.marks[k].offset
    /\ \A j, k \in 1 .. Len(m.marks) : j < k => f[j] < f[k]
    /\ \A x \in DOMAIN u : u[x].name \in {Code, Data} /\ u[x].place.section = i =>
          \E k \in 1 .. Len(m.marks) : x = f[k]

LEMMA FileMarks ==
  ASSUME Assembled, MappingInv, ObjectInv, IsWritten, format = "elf",
         NEW i \in 1 .. Len(layout.sections)
  PROVE  \E f : MarksOf(f, file.symbols, i, mapping[NameOfSection(i)])
<1>1. PICK t, u : t = object.symbols /\ u = file.symbols
  OBVIOUS
<1>2. EntriesAfter(ElfUnnamed, t, Wanted(Relocated))
  BY <1>1, WrittenIs DEF GoodSymbols
<1>3. PICK at : MarkedAt(at, t)
  BY <1>2, MarksStand
<1>4. PICK p : OrderedBy(p, t, u)
  BY <1>1, FileOrdered
<1>5. PICK n \in Nat : n = Len(t)
  BY <1>4 DEF OrderedBy
<1>6. /\ Arranges(p, n) /\ DOMAIN u = 1 .. n
      /\ \A x \in 1 .. n : p[x] \in 1 .. n /\ u[x] = t[p[x]]
      /\ \A x, y \in 1 .. n : p[x] = p[y] => x = y
      /\ \A x, y \in 1 .. n : IsLocal(u[x]) /\ IsLocal(u[y]) /\ x < y => p[x] < p[y]
  BY <1>4, <1>5 DEF OrderedBy, Arranges
<1>7. PICK m : m = mapping[NameOfSection(i)]
  OBVIOUS
<1>8. PICK l \in Nat : l = Len(m.marks)
  BY <1>7, MarksAre
<1>9. ASSUME NEW j \in 1 .. Len(layout.sections), NEW k \in 1 .. Len(Marks(j))
      PROVE  /\ Marks(j)[k].name = mapping[NameOfSection(j)].marks[k].kind
             /\ Marks(j)[k].place.section = j
             /\ Marks(j)[k].place.value = mapping[NameOfSection(j)].marks[k].offset
             /\ IsLocal(Marks(j)[k])
  <2>1. PICK mark : mark = mapping[NameOfSection(j)].marks[k]
    OBVIOUS
  <2>2. Marks(j)[k] = Entry(mark.kind, Place(j, mark.offset), "local")
    BY <2>1, MarksAre
  <2>3. QED
    BY <2>1, <2>2 DEF Entry, Place, IsLocal
<1>10. Len(Marks(i)) = l
  BY <1>7, <1>8, MarksAre
<1>11. PICK f : f = [k \in 1 .. l |-> CHOOSE x \in 1 .. n : p[x] = at[i] + k]
  OBVIOUS
<1>12. ASSUME NEW k \in 1 .. l
       PROVE  /\ f[k] \in 1 .. n /\ p[f[k]] = at[i] + k
              /\ u[f[k]] = Marks(i)[k]
  <2>1. at[i] + k \in 1 .. n /\ t[at[i] + k] = Marks(i)[k]
    BY <1>3, <1>5, <1>10 DEF MarkedAt
  <2>2. \E x \in 1 .. n : p[x] = at[i] + k
    <3>1. PICK y \in 1 .. n : y = at[i] + k
      BY <2>1
    <3>2. \E x \in 1 .. n : p[x] = y
      BY <1>6, ArrangesAll
    <3>3. QED
      BY <3>1, <3>2
  <2>3. f[k] = CHOOSE x \in 1 .. n : p[x] = at[i] + k
    BY <1>11
  <2>4. f[k] \in 1 .. n /\ p[f[k]] = at[i] + k
    BY <2>2, <2>3, Zenon
  <2>5. QED
    BY <1>6, <2>1, <2>4
<1>13. f \in [1 .. l -> DOMAIN u]
  BY <1>6, <1>11, <1>12
<1>14. \A k \in 1 .. l : /\ u[f[k]].name = m.marks[k].kind
                         /\ u[f[k]].place.section = i
                         /\ u[f[k]].place.value = m.marks[k].offset
                         /\ IsLocal(u[f[k]])
  BY <1>7, <1>9, <1>10, <1>12
<1>15. at[i] \in Nat
  BY <1>3 DEF MarkedAt
<1>16. ASSUME NEW j \in 1 .. l, NEW k \in 1 .. l, j < k
       PROVE  f[j] < f[k]
  <2>1. /\ f[j] \in 1 .. n /\ f[k] \in 1 .. n
        /\ p[f[j]] = at[i] + j /\ p[f[k]] = at[i] + k
    BY <1>12
  <2>2. at[i] + j < at[i] + k
    BY <1>15, <1>16
  <2>3. ~ (f[k] < f[j])
    <3>1. ASSUME f[k] < f[j]
          PROVE  FALSE
      <4>1. p[f[k]] < p[f[j]]
        BY <1>6, <1>14, <2>1, <3>1
      <4>2. QED
        BY <1>15, <2>1, <2>2, <4>1
    <3>2. QED
      BY <3>1
  <2>4. f[k] # f[j]
    BY <1>15, <1>16, <2>1
  <2>5. QED
    BY <2>1, <2>3, <2>4
<1>17. ASSUME NEW x \in 1 .. n, u[x].name \in {Code, Data}, u[x].place.section = i
       PROVE  \E k \in 1 .. l : x = f[k]
  <2>1. p[x] \in 1 .. n /\ u[x] = t[p[x]]
    BY <1>6
  <2>2. \E j \in 1 .. Len(layout.sections) : \E k \in 1 .. Len(Marks(j)) : p[x] = at[j] + k
    BY <1>3, <1>5, <1>17, <2>1 DEF MarkedAt
  <2>3. PICK j \in 1 .. Len(layout.sections) : \E k \in 1 .. Len(Marks(j)) : p[x] = at[j] + k
    BY <2>2
  <2>4. PICK k \in 1 .. Len(Marks(j)) : p[x] = at[j] + k
    BY <2>3
  <2>5. u[x] = Marks(j)[k]
    BY <1>3, <2>1, <2>4 DEF MarkedAt
  <2>6. j = i
    BY <1>9, <1>17, <2>5
  <2>7. k \in 1 .. l /\ p[x] = at[i] + k
    BY <1>10, <2>4, <2>6
  <2>8. p[f[k]] = p[x] /\ f[k] \in 1 .. n
    BY <1>12, <2>7
  <2>9. x = f[k]
    BY <1>6, <2>8
  <2>10. QED
    BY <2>7, <2>9
<1>18. MarksOf(f, u, i, m)
  BY <1>6, <1>8, <1>13, <1>14, <1>16, <1>17 DEF MarksOf
<1>19. QED
  BY <1>1, <1>7, <1>18

\* The mapping symbols at or before content c, in the table u.
MarksBefore(u, c) == { x \in DOMAIN u : /\ u[x].name \in {Code, Data}
                                        /\ u[x].place.section = c.section
                                        /\ u[x].place.value <= c.offset }

\* Mark x is before mark y.
MarkBefore(u, x, y) ==
    \/ u[x].place.value < u[y].place.value
    \/ u[x].place.value = u[y].place.value /\ x < y

\* What the marks tell, the table does.
LEMMA TableTells ==
  ASSUME NEW m \in Mappings, NEW n, MarkedUpTo(m, n), NEW c, Tells(m, c), c.offset \in Nat,
         NEW f, NEW u, MarksOf(f, u, c.section, m), DOMAIN u \subseteq Int
  PROVE  IF MarksBefore(u, c) = {} THEN c.kind = Data
         ELSE \E x \in MarksBefore(u, c) :
                 /\ \A y \in MarksBefore(u, c) \ {x} : MarkBefore(u, y, x)
                 /\ u[x].name = c.kind
<1>1. PICK l \in Nat : l = Len(m.marks)
  BY DEF Mappings
<1>2. /\ \A k \in 1 .. l : m.marks[k].offset \in Int /\ m.marks[k].kind \in {Code, Data}
      /\ \A j, k \in 1 .. l : j < k => m.marks[j].offset <= m.marks[k].offset
  <2>1. m.marks \in Seq(Markings)
    BY DEF Mappings
  <2>2. \A k \in 1 .. l : m.marks[k] \in Markings
    BY <1>1, <2>1
  <2>3. \A mark \in Markings : mark.offset \in Int /\ mark.kind \in {Code, Data}
    BY DEF Markings
  <2>4. \A j, k \in 1 .. l : j < k => m.marks[j].offset <= m.marks[k].offset
    BY <1>1, MarksKnown
  <2>5. QED
    BY <2>2, <2>3, <2>4
<1>3. /\ \A k \in 1 .. l : f[k] \in DOMAIN u /\ f[k] \in Int
      /\ \A k \in 1 .. l : /\ u[f[k]].name = m.marks[k].kind
                           /\ u[f[k]].place.section = c.section
                           /\ u[f[k]].place.value = m.marks[k].offset
      /\ \A j, k \in 1 .. l : j < k => f[j] < f[k]
      /\ \A x \in DOMAIN u : u[x].name \in {Code, Data} /\ u[x].place.section = c.section =>
            \E k \in 1 .. l : x = f[k]
  BY <1>1 DEF MarksOf
<1>4. PICK before : before = MarksBefore(u, c)
  OBVIOUS
<1>5. ASSUME NEW x \in before
      PROVE  \E k \in 1 .. l : x = f[k] /\ m.marks[k].offset <= c.offset
  <2>1. /\ x \in DOMAIN u /\ u[x].name \in {Code, Data} /\ u[x].place.section = c.section
        /\ u[x].place.value <= c.offset
    BY <1>4 DEF MarksBefore
  <2>2. PICK k \in 1 .. l : x = f[k]
    BY <1>3, <2>1
  <2>3. QED
    BY <1>3, <2>1, <2>2
<1>6. ASSUME NEW k \in 1 .. l, m.marks[k].offset <= c.offset
      PROVE  f[k] \in before
  BY <1>2, <1>3, <1>4, <1>6 DEF MarksBefore
<1>7. \/ c.kind = Data /\ \A k \in 1 .. l : c.offset < m.marks[k].offset
      \/ \E k \in 1 .. l : /\ m.marks[k].offset <= c.offset /\ m.marks[k].kind = c.kind
                           /\ \A j \in 1 .. l : k < j => c.offset < m.marks[j].offset
  BY <1>1, MarksKnown
<1>8. CASE c.kind = Data /\ \A k \in 1 .. l : c.offset < m.marks[k].offset
  <2>1. \A k \in 1 .. l : ~ (m.marks[k].offset <= c.offset)
    BY <1>2, <1>8
  <2>2. before = {}
    BY <1>5, <2>1
  <2>3. QED
    BY <1>4, <1>8, <2>2
<1>9. CASE \E k \in 1 .. l : /\ m.marks[k].offset <= c.offset /\ m.marks[k].kind = c.kind
                             /\ \A j \in 1 .. l : k < j => c.offset < m.marks[j].offset
  <2>1. PICK k \in 1 .. l : /\ m.marks[k].offset <= c.offset /\ m.marks[k].kind = c.kind
                            /\ \A j \in 1 .. l : k < j => c.offset < m.marks[j].offset
    BY <1>9
  <2>2. PICK x \in before : x = f[k]
    BY <1>6, <2>1
  <2>3. u[x].name = c.kind /\ u[x].place.value = m.marks[k].offset
    BY <1>3, <2>1, <2>2
  <2>4. ASSUME NEW y \in before, y # x
        PROVE  MarkBefore(u, y, x)
    <3>1. PICK j \in 1 .. l : y = f[j] /\ m.marks[j].offset <= c.offset
      BY <1>5
    <3>2. j # k
      BY <2>2, <2>4, <3>1
    <3>3. ~ (k < j)
      BY <1>2, <2>1, <3>1
    <3>4. j < k
      BY <1>1, <3>2, <3>3
    <3>5. /\ m.marks[j].offset <= m.marks[k].offset /\ f[j] < f[k]
          /\ m.marks[j].offset \in Int /\ m.marks[k].offset \in Int
      BY <1>2, <1>3, <3>4
    <3>6. u[y].place.value = m.marks[j].offset
      BY <1>3, <3>1
    <3>7. QED
      BY <2>2, <2>3, <3>1, <3>5, <3>6 DEF MarkBefore
  <2>5. QED
    BY <1>4, <2>2, <2>3, <2>4
<1>10. QED
  BY <1>7, <1>8, <1>9

\* elf_mark_kind and elf_arm_align, finish_elf and write_elf: of what was
\* emitted the mapping symbols of the file tell whether it is code or data.
THEOREM ContentIsDescribed == ObjectsSpec => []ContentDescribed
<1>1. Assembled /\ MappingInv /\ ObjectInv /\ ContentInv => ContentDescribed
  <2>1. SUFFICES ASSUME Assembled, MappingInv, ObjectInv, ContentInv, IsWritten,
                        file.kind = "elf", NEW c \in content
                 PROVE  IF MarksBefore(file.symbols, c) = {} THEN c.kind = Data
                        ELSE \E x \in MarksBefore(file.symbols, c) :
                                /\ \A y \in MarksBefore(file.symbols, c) \ {x} :
                                      MarkBefore(file.symbols, y, x)
                                /\ file.symbols[x].name = c.kind
    BY DEF ContentDescribed, MarksBefore, MarkBefore
  <2>2. phase = "done" /\ format = "elf"
    BY <2>1, WrittenIs
  <2>3. Told(layout, mapping, content)
    BY <2>1, <2>2 DEF ContentInv
  <2>4. PICK i \in 1 .. Len(layout.sections) : i = c.section
    BY <2>1, <2>3 DEF Told
  <2>5. PICK m \in Mappings : m = mapping[NameOfSection(i)]
    BY <2>1, <2>2, MarksAre
  <2>6. NameOfSection(i) = layout.sections[i].name
    <3>1. Table = layout.sections
      BY <2>1, <2>2, TableOfElf
    <3>2. QED
      BY <3>1 DEF NameOfSection
  <2>7. /\ MarkedUpTo(m, layout.sections[i].size) /\ Tells(m, c) /\ c.offset \in Nat
    BY <2>1, <2>3, <2>4, <2>5, <2>6 DEF Told
  <2>8. PICK u : u = file.symbols
    OBVIOUS
  <2>9. PICK f : MarksOf(f, u, i, m)
    BY <2>1, <2>2, <2>5, <2>8, FileMarks
  <2>10. DOMAIN u \subseteq Int
    <3>1. IsSequence(u)
      BY <2>1, <2>8, FileSymbols DEF EntriesFor
    <3>2. QED
      BY <3>1 DEF IsSequence
  <2>11. MarksOf(f, u, c.section, m)
    BY <2>4, <2>9
  <2>12. PICK n : n = layout.sections[i].size
    OBVIOUS
  <2>13. MarkedUpTo(m, n)
    BY <2>7, <2>12
  <2>14. IF MarksBefore(u, c) = {} THEN c.kind = Data
         ELSE \E x \in MarksBefore(u, c) :
                 /\ \A y \in MarksBefore(u, c) \ {x} : MarkBefore(u, y, x)
                 /\ u[x].name = c.kind
    BY <2>7, <2>10, <2>11, <2>13, TableTells
  <2>15. QED
    BY <2>8, <2>14
<1>2. QED
  BY <1>1, AssembledHolds, MappingHolds, ObjectHolds, ContentHolds, PTL

=============================================================================
