----------------------------- MODULE SetResolver -----------------------------
(***************************************************************************)
(* The depth-first search that gives every .set assignment its value       *)
(* (src/expr.rs, resolve_all and resolve_assignment): iterative, with an   *)
(* explicit stack, so that a long chain of assignments cannot overflow the *)
(* stack of the process.  One action per turn of its loop.                 *)
(***************************************************************************)
EXTENDS Assignments

CONSTANTS
    Lists,      \* sequences of assignments, the sources considered
    Bases       \* functions from names to Undefined or a label's value

ASSUME ListsAssumption == \A list \in Lists : WellFormed(list)

VARIABLES
    assigns, base,
    deps,       \* dependencies
    root,       \* the assignment resolve_all is at
    stack,      \* frames [index, next]: next_dependency counts from 1
    states      \* AssignmentResolutionState of every assignment

vars == <<assigns, base, deps, root, stack, states>>

Unvisited == [kind |-> "unvisited"]
Visiting  == [kind |-> "visiting"]

Init ==
    /\ assigns \in Lists
    /\ base \in Bases
    /\ deps = Dependencies(assigns)
    /\ root = 1
    /\ stack = <<>>
    /\ states = [i \in 1 .. Len(assigns) |-> Unvisited]

Top  == stack[Len(stack)]
Below == SubSeq(stack, 1, Len(stack) - 1)
Frame(i) == [index |-> i, next |-> 1]

Busy == stack # <<>>
Pending == Busy /\ Top.next <= Len(deps[Top.index])
Target == deps[Top.index][Top.next].target

\* resolve_assignment(root): visited already, or the first frame
NextRoot ==
    /\ ~Busy
    /\ root <= Len(assigns)
    /\ states[root] # Unvisited
    /\ root' = root + 1
    /\ UNCHANGED <<assigns, base, deps, stack, states>>

Start ==
    /\ ~Busy
    /\ root <= Len(assigns)
    /\ states[root] = Unvisited
    /\ states' = [states EXCEPT ![root] = Visiting]
    /\ stack' = << Frame(root) >>
    /\ UNCHANGED <<assigns, base, deps, root>>

\* Base, Undefined, and assignments that have a value
Skip ==
    /\ Pending
    /\ Target # 0 => states[Target].kind = "value"
    /\ stack' = [stack EXCEPT ![Len(stack)].next = @ + 1]
    /\ UNCHANGED <<assigns, base, deps, root, states>>

Push ==
    /\ Pending
    /\ Target # 0
    /\ states[Target] = Unvisited
    /\ states' = [states EXCEPT ![Target] = Visiting]
    /\ stack' = Append(stack, Frame(Target))
    /\ UNCHANGED <<assigns, base, deps, root>>

\* Three mutants: the error goes to the cycle alone and the rest of the stack
\* is forgotten; it goes to nobody, for another search to find; it blames
\* the assignment the search began with.
CycleAlone ==
    /\ Pending
    /\ Target # 0
    /\ states[Target] = Visiting
    /\ LET at == CHOOSE k \in 1 .. Len(stack) : stack[k].index = Target
           drained == { stack[k].index : k \in at .. Len(stack) }
       IN  states' = [i \in DOMAIN states |->
                         IF i \in drained THEN Error("cyclic", Target) ELSE states[i]]
    /\ stack' = <<>>
    /\ UNCHANGED <<assigns, base, deps, root>>

CycleRetried ==
    /\ Pending
    /\ Target # 0
    /\ states[Target] = Visiting
    /\ states' = [i \in DOMAIN states |->
                     IF states[i] = Visiting THEN Unvisited ELSE states[i]]
    /\ stack' = <<>>
    /\ UNCHANGED <<assigns, base, deps, root>>

\* The error goes to the whole stack, not only to the frames of the cycle.
Cycle ==
    /\ Pending
    /\ Target # 0
    /\ states[Target] = Visiting
    /\ LET drained == { stack[k].index : k \in 1 .. Len(stack) }
       IN  states' = [i \in DOMAIN states |->
                         IF i \in drained THEN Error("cyclic", Target) ELSE states[i]]
    /\ stack' = <<>>
    /\ UNCHANGED <<assigns, base, deps, root>>

\* Mutant: the error of a dependency becomes one of the assignment's own.
PropagateAsOwn ==
    /\ Pending
    /\ Target # 0
    /\ states[Target].kind = "error"
    /\ states' = [states EXCEPT ![Top.index] = Error("nonabsolute", Top.index)]
    /\ stack' = Below
    /\ UNCHANGED <<assigns, base, deps, root>>

Propagate ==
    /\ Pending
    /\ Target # 0
    /\ states[Target].kind = "error"
    /\ states' = [states EXCEPT ![Top.index] = states[Target]]
    /\ stack' = Below
    /\ UNCHANGED <<assigns, base, deps, root>>

EvaluateTop ==
    /\ Busy
    /\ ~Pending
    /\ states' = [states EXCEPT ![Top.index] = Evaluate(assigns, deps, base, Top.index, states)]
    /\ stack' = Below
    /\ UNCHANGED <<assigns, base, deps, root>>

Done == ~Busy /\ root = Len(assigns) + 1

Terminated == Done /\ UNCHANGED vars

Next == NextRoot \/ Start \/ Skip \/ Push \/ Cycle \/ Propagate \/ EvaluateTop \/ Terminated

Spec == Init /\ [][Next]_vars

-----------------------------------------------------------------------------
(* Properties. *)

Indices == 1 .. Len(assigns)

DependsOn(i) == { ref.target : ref \in ToSet(deps[i]) } \ {0}

Resolved(i) == states[i].kind \in {"value", "error"}

\* "assignment dependencies resolve before evaluation", and "every absolute
\* assignment was visited": neither of the two unreachable!() is reached.
NothingUnreachable ==
    /\ Busy /\ ~Pending =>
          \A j \in DependsOn(Top.index) : Resolved(j)
    /\ Done => \A i \in Indices : Resolved(i)

\* The outcome of an assignment does not depend on where the search came
\* from: it is the one its expression has by itself, an error included.
ResolvedRight ==
    Done => LET meant == Outcomes(assigns, base)
            IN  \A i \in Indices : Same(states[i], meant[i])

\* Every turn of the loop uses up some work: an assignment is entered once,
\* each of its references is passed once, and then it is left.  So every
\* search ends, cycles or not, after turns linear in the size of the source
\* (a state it could be stuck in would be a deadlock).
Passed(i) ==
    LET frames == { k \in 1 .. Len(stack) : stack[k].index = i }
    IN  IF Resolved(i) THEN Len(deps[i]) + 2
        ELSE IF frames = {} THEN 0
        ELSE stack[CHOOSE k \in frames : TRUE].next

Turns == UNION { {i} \X (1 .. Passed(i)) : i \in Indices }

Work == root + Cardinality(Turns)

WorkGrows == [][Work' > Work]_vars
=============================================================================
