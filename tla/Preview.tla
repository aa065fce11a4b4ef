------------------------------- MODULE Preview -------------------------------
(***************************************************************************)
(* Constants that the parser needs while it parses (the size of .space, an *)
(* immediate operand), of symbols that .set gives: before it parses, it    *)
(* looks through the tokens for every .set and resolves what it finds, as  *)
(* the assembler does again later with the labels (src/parse.rs            *)
(* parse_bytes_with_locations, scan_absolute_assignments, parse_program).  *)
(* Numeric labels are named in the same walk, by counting their            *)
(* definitions.                                                            *)
(*                                                                         *)
(* A leaf of kind "numeric" is a reference to a numeric label, with its    *)
(* number and whether it looks back; all others are those of Expressions.  *)
(***************************************************************************)
EXTENDS Assignments, Lists

CONSTANTS
  Programs,              \* sequences of statements
  Names,                 \* the symbols and the labels that are no numbers
  numeric_label_symbol   \* for each number, the names of its definitions

Numbers == DOMAIN numeric_label_symbol
NumericNames == UNION {ToSet(numeric_label_symbol[k]) : k \in Numbers}

ASSUME NamesAssumption == Names \cap NumericNames = {}

VARIABLES
  phase, program, pc,
  previews,         \* what the scan found: [name, expr, stmt]
  absolute_assignment_values,   \* the outcomes of the previews
  symbols,          \* absolute_symbols: Undefined or a value for every name
  numeric_labels,   \* how many definitions of every number are passed
  assigned,         \* the .set statements that the parser delivers
  labels,           \* where labels are, as the first pass finds them
  offset,           \* how many bytes are before the statement
  uses,             \* history: the constants, [name, value, before]
  references        \* history: numeric references, [number, back, name, stmt]

vars == <<phase, program, pc, previews, absolute_assignment_values, symbols,
          numeric_labels, assigned, labels, offset, uses, references>>

AllNames == Names \cup NumericNames
NoValues == [n \in AllNames |-> Undefined]

Init ==
  /\ program \in Programs
  /\ phase = "scan" /\ pc = 1
  /\ previews = <<>> /\ absolute_assignment_values = <<>>
  /\ symbols = NoValues
  /\ numeric_labels = [k \in Numbers |-> 0]
  /\ assigned = <<>> /\ labels = NoValues /\ offset = 0
  /\ uses = <<>> /\ references = <<>>

Stmt == program[pc]
At(op) == pc <= Len(program) /\ Stmt.op = op

NumericLeaves(expr) == {i \in DOMAIN expr : expr[i].kind = "numeric"}

(* resolve_numeric_label_ref refuses to look back where nothing is *)
LooksBehind(expr, counts) ==
  \E i \in NumericLeaves(expr) : expr[i].back /\ counts[expr[i].number] = 0

ReferredName(leaf, counts) ==
  numeric_label_symbol[leaf.number]
    [counts[leaf.number] + (IF leaf.back THEN 0 ELSE 1)]

Named(expr, counts) ==
  [i \in DOMAIN expr |->
     IF i \in NumericLeaves(expr)
     THEN [sign |-> expr[i].sign, kind |-> "sym",
           name |-> ReferredName(expr[i], counts)]
     ELSE expr[i]]

-----------------------------------------------------------------------------
(* scan_absolute_assignments: each .set by a parser of its own, for which  *)
(* no numeric label is defined; what that one refuses is left out.         *)

Unnumbered == [k \in Numbers |-> 0]

Scan ==
  /\ phase = "scan" /\ pc <= Len(program)
  /\ previews' = IF Stmt.op = "set" /\ ~LooksBehind(Stmt.expr, Unnumbered)
                 THEN Append(previews,
                             [name |-> Stmt.name, stmt |-> pc,
                              expr |-> Named(Stmt.expr, Unnumbered)])
                 ELSE previews
  /\ pc' = pc + 1
  /\ UNCHANGED <<phase, program, absolute_assignment_values, symbols,
                 numeric_labels, assigned, labels, offset, uses, references>>

FirstOf(name, outcomes) == {outcomes[i] : i \in
  {i \in DOMAIN previews : /\ previews[i].name = name
                           /\ \A j \in 1 .. i - 1 : previews[j].name # name}}

(* as a bug would: the value of the last one *)
FirstValueOfLast(name, outcomes) ==
  LET given == {i \in DOMAIN previews : previews[i].name = name}
  IN  IF given # {} /\ outcomes[Max(given)].kind = "value"
      THEN outcomes[Max(given)] ELSE Undefined

(* of a symbol that is used before its first .set, the value it gets there *)
FirstValue(name, outcomes) ==
  IF \E v \in FirstOf(name, outcomes) : v.kind = "value"
  THEN CHOOSE v \in FirstOf(name, outcomes) : TRUE ELSE Undefined

EndScan ==
  /\ phase = "scan" /\ pc = Len(program) + 1
  /\ absolute_assignment_values' = Outcomes(previews, NoValues)
  /\ symbols' = [n \in AllNames |-> FirstValue(n, absolute_assignment_values')]
  /\ phase' = "parse" /\ pc' = 1
  /\ UNCHANGED <<program, previews, numeric_labels, assigned, labels, offset,
                 uses, references>>

-----------------------------------------------------------------------------
(* parse_program                                                           *)

Refuse ==
  /\ phase' = "refused"
  /\ UNCHANGED <<program, pc, previews, absolute_assignment_values, symbols,
                 numeric_labels, assigned, labels, offset, uses, references>>

Parses(op) == phase = "parse" /\ At(op)

Place == [kind |-> "defined", section |-> 1, value |-> offset]

Label ==
  /\ Parses("label")
  /\ labels' = [labels EXCEPT ![Stmt.name] = Place]
  /\ pc' = pc + 1
  /\ UNCHANGED <<phase, program, previews, absolute_assignment_values,
                 symbols, numeric_labels, assigned, offset, uses,
                 references>>

(* as a bug would: a definition is counted behind its statement *)
define_numeric_label_late(number) ==
  numeric_label_symbol[number][Max({numeric_labels[number], 1})]

define_numeric_label(number) ==
  numeric_label_symbol[number][numeric_labels[number] + 1]

NumericLabel ==
  /\ Parses("numeric")
  /\ numeric_labels' = [numeric_labels EXCEPT ![Stmt.number] = @ + 1]
  /\ labels' = [labels EXCEPT ![define_numeric_label(Stmt.number)] = Place]
  /\ pc' = pc + 1
  /\ UNCHANGED <<phase, program, previews, absolute_assignment_values,
                 symbols, assigned, offset, uses, references>>

References(expr) ==
  LET leaves == Those(expr, {leaf \in ToSet(expr) : leaf.kind = "numeric"})
  IN  [i \in DOMAIN leaves |->
         [number |-> leaves[i].number, back |-> leaves[i].back, stmt |-> pc,
          name |-> ReferredName(leaves[i], numeric_labels)]]

(* eval_with_symbols: none, or the only element of the set *)
eval_with_symbols(expr, values) ==
  LET terms == [i \in DOMAIN expr |->
                  expr[i].sign * (IF expr[i].kind = "int" THEN expr[i].value
                                  ELSE values[expr[i].name].value)]
  IN  IF \/ \E i \in DOMAIN expr :
              IF expr[i].kind = "int" THEN expr[i].value > MaxInt
              ELSE expr[i].kind # "sym" \/ values[expr[i].name] = Undefined
         \/ Overflows(terms)
      THEN {} ELSE {Value(Total(terms))}

Only(values) == IF values = {} THEN Undefined ELSE CHOOSE v \in values : TRUE

(* may_resolve_with_labels *)
Deferred == {"undefined", "nonabsolute"}

Previewed(stmt) == {i \in DOMAIN previews : previews[i].stmt = stmt}

(* what the preview has for the statement, or what its expression has now *)
Outcome(expr) ==
  IF Previewed(pc) = {} THEN Only(eval_with_symbols(expr, symbols))
  ELSE absolute_assignment_values[CHOOSE i \in Previewed(pc) : TRUE]

(* as a bug would: what waits for labels keeps the value it had *)
AssignKept(name, outcome) ==
  IF outcome.kind = "value" THEN [symbols EXCEPT ![name] = outcome]
  ELSE symbols

(* the value, or for an error that waits for labels none at all *)
Assign(name, outcome) ==
  [symbols EXCEPT ![name] = IF outcome.kind = "value" THEN outcome
                            ELSE Undefined]

Set ==
  /\ Parses("set")
  /\ LET expr == Named(Stmt.expr, numeric_labels)
         fails(outcome) == outcome.kind = "error" /\ outcome.error \notin Deferred
     IN  IF LooksBehind(Stmt.expr, numeric_labels) \/ fails(Outcome(expr))
         THEN Refuse
         ELSE /\ symbols' = Assign(Stmt.name, Outcome(expr))
              /\ assigned' = Append(assigned,
                                  [name |-> Stmt.name, expr |-> expr])
              /\ references' = references \o References(Stmt.expr)
              /\ pc' = pc + 1
              /\ UNCHANGED <<phase, program, previews,
                             absolute_assignment_values, numeric_labels,
                             labels, offset, uses>>

(* an operand that must be a constant, of a statement with that many bytes *)
Constant ==
  /\ Parses("constant")
  /\ LET value == eval_with_symbols(<<[sign |-> 1, kind |-> "sym",
                                       name |-> Stmt.name]>>, symbols)
     IN  IF value = {} THEN Refuse
         ELSE /\ uses' = Append(uses,
                          [name |-> Stmt.name, value |-> Only(value),
                           before |-> Len(assigned)])
              /\ offset' = offset + Stmt.bytes
              /\ pc' = pc + 1
              /\ UNCHANGED <<phase, program, previews,
                             absolute_assignment_values, symbols,
                             numeric_labels, assigned, labels, references>>

(* a branch, with the label it refers to *)
Branch ==
  /\ Parses("branch")
  /\ IF LooksBehind(<<Stmt.leaf>>, numeric_labels)
     THEN Refuse
     ELSE /\ references' = references \o References(<<Stmt.leaf>>)
          /\ offset' = offset + Stmt.bytes
          /\ pc' = pc + 1
          /\ UNCHANGED <<phase, program, previews,
                         absolute_assignment_values, symbols, numeric_labels,
                         assigned, labels, uses>>

EndParse ==
  /\ phase = "parse" /\ pc = Len(program) + 1
  /\ phase' = "parsed"
  /\ UNCHANGED <<program, pc, previews, absolute_assignment_values, symbols,
                 numeric_labels, assigned, labels, offset, uses, references>>

Stopped == phase \in {"parsed", "refused"} /\ UNCHANGED vars

Next ==
  \/ Scan \/ EndScan
  \/ Label \/ NumericLabel \/ Set \/ Constant \/ Branch \/ EndParse
  \/ Stopped

Spec == Init /\ [][Next]_vars

-----------------------------------------------------------------------------
(* Properties.                                                             *)

(* the assembler's own view, with all labels: prepare_expression_state *)
Final == Outcomes(assigned, labels)

(* what is seen behind so many: the last of them, or the first to come *)
Visible(name, before) ==
  DependencyOf(assigned, before + 1, name)

(* a .set that looks back to a numeric label, which the scan cannot see *)
Unseen == \E i \in DOMAIN program :
            /\ program[i].op = "set"
            /\ \E k \in NumericLeaves(program[i].expr) :
                 program[i].expr[k].back

Current ==
  phase = "parsed" =>
    \A u \in ToSet(uses) : Final[Visible(u.name, u.before)] = u.value

\* A constant that the parser took of a symbol is the value that the assembler
\* gives the symbol at that place, when it has the labels: also before its
\* first .set, between two of them, and through others that depend on it.  It
\* leaves out the sources of ConstantsCurrent.
PreviewCurrent == Unseen \/ Current

\* A test has it that symbols "use the value visible at each data directive"
\* (arm64_directive_ranges.rs:300): also where a .set looks back to a numeric
\* label.
ConstantsCurrent == Current

(* the statements that define a number, before and behind another *)
Definitions(number, stmts) ==
  {i \in stmts : program[i].op = "numeric" /\ program[i].number = number}

(* the name of the definition at a statement *)
NameAt(number, i) ==
  numeric_label_symbol[number][Cardinality(Definitions(number, 1 .. i))]

\* A numeric reference names the nearest definition on its side, whatever is
\* defined in between by other numbers or later by the same; no two
\* definitions have one name.
NumericMeant ==
  /\ \A r \in ToSet(references) :
       LET side == Definitions(r.number, IF r.back THEN 1 .. r.stmt - 1
                                         ELSE r.stmt + 1 .. Len(program))
       IN  side # {} => r.name = NameAt(r.number, IF r.back THEN Max(side)
                                                  ELSE Min(side))
  /\ phase = "parsed" =>
       \A n \in NumericNames : labels[n] # Undefined <=>
         \E k \in Numbers : \E i \in Definitions(k, DOMAIN program) :
           n = NameAt(k, i)
=============================================================================
