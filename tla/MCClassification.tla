-------------------------- MODULE MCClassification --------------------------
(***************************************************************************)
(* Classification with integers of three bits, three names and two         *)
(* sections: every expression of up to four symbols, and of up to three    *)
(* with a literal, a GOT reference or the current location.                *)
(***************************************************************************)
EXTENDS Classification

CONSTANTS
    MCSymbols,    \* how many symbols an expression has at most
    MCOffsets     \* offsets of labels

MCNames == {"a", "b", "c"}
MCMinInt == -4

SymbolLeaf == [sign : {-1, 1}, kind : {"sym"}, name : Names]
OtherLeaf  == [sign : {-1, 1}, kind : {"int"}, value : {MinInt, 3, 5}]
                \union [sign : {-1, 1}, kind : {"got"}, name : {"a"}]
                \union [sign : {-1}, kind : {"here"}, name : {"."}]

Of(n, leaf) == [1 .. n -> leaf]
GotHere(name) == << [sign |-> 1,  kind |-> "got",  name |-> name],
                    [sign |-> -1, kind |-> "here", name |-> "."] >>
Tails == { <<>> } \union Of(1, OtherLeaf) \union { GotHere(n) : n \in Names }

MCExprs == (Of(MCSymbols, SymbolLeaf)
            \union { s \o t : s \in UNION { Of(n, SymbolLeaf) : n \in 0 .. MCSymbols - 1 },
                              t \in Tails })
           \ { <<>> }

Values == {Undefined}
            \union [kind : {"absolute"}, value : {MinInt, 3}]
            \union [kind : {"defined"}, section : SectionIds, value : MCOffsets]

\* Environments, up to a renaming of the symbols.
Rank(v) == CASE v.kind = "undefined" -> MinInt - 1
             [] v.kind = "absolute"  -> v.value
             [] v.kind = "defined"   -> v.section * (MaxUnsigned + 1) + v.value

MCEnvs == { e \in [Names -> Values] :
               /\ Rank(e["a"]) <= Rank(e["b"])
               /\ Rank(e["b"]) <= Rank(e["c"]) }

=============================================================================
