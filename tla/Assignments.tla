----------------------------- MODULE Assignments -----------------------------
(***************************************************************************)
(* The .set assignments of a source, in source order, and what each of     *)
(* them depends on (src/expr.rs, AbsoluteAssignmentResolver).  How the     *)
(* resolver walks them is in SetResolver; Outcomes states what it comes to *)
(* for modules that do not care how.                                       *)
(*                                                                         *)
(* An assignment is a record [name, expr].  The outcome of one is          *)
(* [kind |-> "value", value] or [kind |-> "error", error, at] with the     *)
(* index of the assignment at fault.  base gives the labels' values.       *)
(***************************************************************************)
EXTENDS Expressions, FiniteSetsExt

Value(v) == [kind |-> "value", value |-> v]
Error(error, i) == [kind |-> "error", error |-> error, at |-> i]

\* A list of assignments that a source can have.
IsSequence(s) == s \in Seq(ToSet(s))

WellFormed(assigns) ==
    /\ IsSequence(assigns)
    /\ \A i \in DOMAIN assigns : IsSequence(assigns[i].expr)

\* referenced_symbols, without the repeated ones: the names in the order in
\* which they are met first
Referenced(expr) ==
    LET named == { k \in DOMAIN expr : expr[k].kind \in {"sym", "got"} }
        new   == { k \in named :
                     \A j \in named : expr[j].name = expr[k].name => k <= j }
        Place(k) == Cardinality({ j \in new : j <= k })
    IN  [n \in 1 .. Cardinality(new) |->
            expr[CHOOSE k \in new : Place(k) = n].name]

\* dependency_for_symbol: the last assignment to the name before the i-th,
\* else the first from there on; 0 when there is none.
DependencyOf(assigns, i, name) ==
    LET prior == { j \in 1 .. i - 1 : assigns[j].name = name }
        later == { j \in i .. Len(assigns) : assigns[j].name = name }
    IN  IF prior # {} THEN Max(prior)
        ELSE IF later # {} THEN Min(later)
        ELSE 0

\* AbsoluteAssignmentResolver::new: the references of every assignment, in
\* the order of its expression, each with the assignment it depends on.
Dependencies(assigns) ==
    LET Reference(i, name) == [name |-> name, target |-> DependencyOf(assigns, i, name)]
        References(i) ==
            LET names == Referenced(assigns[i].expr)
            IN  [k \in 1 .. Len(names) |-> Reference(i, names[k])]
    IN  [i \in 1 .. Len(assigns) |-> References(i)]

\* can_resolve_with_labels: as an expression of labels of one section
CouldBeLabels(expr, env, unresolved) ==
    LET labels == [n \in DOMAIN env |->
                      IF n \in unresolved
                      THEN [kind |-> "defined", section |-> 0, value |-> 0]
                      ELSE env[n]]
    IN  Classify(expr, labels).kind = "absolute"

\* u64 as i64
Reinterpret(v) == v - (MaxUnsigned + 1)

\* evaluate_assignment: the outcome when the expression is classified
Judge(result, i, couldBeLabels) ==
    CASE result.kind = "absolute" -> Value(result.value)
      [] result.kind = "unsigned" -> Value(Reinterpret(result.value))
      [] result = Overflow        -> Error("overflow", i)
      [] OTHER -> IF couldBeLabels THEN Error("undefined", i)
                  ELSE IF result = Illegal THEN Error("illegal", i)
                  ELSE Error("nonabsolute", i)

\* ... and before, when all dependencies of the i-th have an outcome
Evaluate(assigns, deps, base, i, outcome) ==
    LET failed == { k \in DOMAIN deps[i] :
                      /\ deps[i][k].target # 0
                      /\ outcome[deps[i][k].target].kind = "error" }
        Given(n) == { ref \in ToSet(deps[i]) : ref.name = n /\ ref.target # 0 }
        env    == [n \in DOMAIN base |->
                      IF Given(n) = {} THEN base[n]
                      ELSE LET ref == CHOOSE ref \in Given(n) : TRUE
                           IN  [kind |-> "absolute", value |-> outcome[ref.target].value]]
        unresolved == { ref.name : ref \in { r \in ToSet(deps[i]) : r.target = 0 } }
                        \intersect { n \in DOMAIN base : base[n] = Undefined }
    IN  IF failed # {} THEN outcome[deps[i][Min(failed)].target]
        ELSE Judge(Classify(assigns[i].expr, env), i,
                   unresolved # {} /\ CouldBeLabels(assigns[i].expr, env, unresolved))

-----------------------------------------------------------------------------
(* What the assignments mean: an assignment is its expression with the     *)
(* meaning of its dependencies, and a cycle has none.  Depth[k] allows     *)
(* chains of k assignments; no chain without a cycle is longer than the    *)
(* source.                                                                 *)

Cyclic == [kind |-> "error", error |-> "cyclic", at |-> 0]

Outcomes(assigns, base) ==
    LET deps == Dependencies(assigns)
        Depth[k \in 0 .. Len(assigns)] ==
            IF k = 0 THEN [i \in 1 .. Len(assigns) |-> Cyclic]
            ELSE LET outcome == Depth[k - 1]
                 IN  [i \in 1 .. Len(assigns) |-> Evaluate(assigns, deps, base, i, outcome)]
                       \o <<>>    \* for TLC: evaluated once, here
    IN  Depth[Len(assigns)]

\* Two outcomes that differ in the assignment at fault at most.
Same(outcome, meant) ==
    /\ outcome.kind = meant.kind
    /\ outcome.kind = "value" => outcome = meant
    /\ outcome.kind = "error" => outcome.error = meant.error
=============================================================================
