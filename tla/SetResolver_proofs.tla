------------------------- MODULE SetResolver_proofs -------------------------
(***************************************************************************)
(* Theorems about SetResolver for every list of assignments: nothing that  *)
(* the code calls unreachable is reached, every turn of the loop makes     *)
(* progress, and the outcomes are those of the definition by depth.        *)
(***************************************************************************)
EXTENDS SetResolver, Expressions_proofs, SequenceTheorems

Count == Len(assigns)

-----------------------------------------------------------------------------
(* The inductive invariant of the search.                                  *)

DepsOK ==
    /\ DOMAIN deps = Indices
    /\ \A i \in Indices :
          /\ Len(deps[i]) \in Nat
          /\ DOMAIN deps[i] = 1 .. Len(deps[i])
          /\ \A k \in 1 .. Len(deps[i]) : deps[i][k].target \in 0 .. Count

Kinds == {"unvisited", "visiting", "value", "error"}

FrameType == [index : Indices, next : Nat \ {0}]

TypeOK ==
    /\ Count \in Nat
    /\ DepsOK
    /\ root \in 1 .. Count + 1
    /\ stack \in Seq(FrameType)
    /\ DOMAIN states = Indices
    /\ \A i \in Indices :
          /\ states[i].kind \in Kinds
          /\ states[i].kind = "unvisited" => states[i] = Unvisited
          /\ states[i].kind = "visiting" => states[i] = Visiting

\* What is visited now is on the stack, and once.
StackIsVisited ==
    /\ \A k \in 1 .. Len(stack) : states[stack[k].index] = Visiting
    /\ \A i \in Indices : states[i] = Visiting =>
          \E k \in 1 .. Len(stack) : stack[k].index = i
    /\ \A k, m \in 1 .. Len(stack) : stack[k].index = stack[m].index => k = m

Reference(k) == deps[stack[k].index][stack[k].next]

\* The stack is a path: each frame waits for the one above it.
StackIsPath ==
    \A k \in 1 .. Len(stack) :
        /\ stack[k].next <= Len(deps[stack[k].index]) + 1
        /\ k < Len(stack) => /\ stack[k].next <= Len(deps[stack[k].index])
                             /\ Reference(k).target = stack[k + 1].index

HasValue(target) == target # 0 => states[target].kind = "value"

\* A frame has passed only what has a value.
PassedHaveValues ==
    \A k \in 1 .. Len(stack) :
        \A n \in 1 .. Len(deps[stack[k].index]) :
            n < stack[k].next => HasValue(deps[stack[k].index][n].target)

\* resolve_all leaves nothing behind.
RootsResolved ==
    /\ \A i \in 1 .. root - 1 : Resolved(i)
    /\ Busy => root <= Count

Inv ==
    /\ TypeOK
    /\ StackIsVisited
    /\ StackIsPath
    /\ PassedHaveValues
    /\ RootsResolved

-----------------------------------------------------------------------------
(* The invariant holds at the start, and every turn of the loop keeps it.  *)

LEMMA InitInv == Init => Inv
<1> SUFFICES ASSUME Init
             PROVE  Inv
  OBVIOUS
<1>1. Count \in Nat /\ DepsOK
  <2>1. Count \in Nat
    BY ListsAssumption DEF Init, Count, IsSequence
  <2>2. DepsOK
    BY DependenciesInList, ListsAssumption DEF Init, DepsOK, Indices, Count
  <2>3. QED
    BY <2>1, <2>2
<1>2. TypeOK
  BY <1>1 DEF Init, TypeOK, Count, Indices, Unvisited, Kinds
<1>3. QED
  BY <1>2 DEF Init, Inv, StackIsVisited, StackIsPath, PassedHaveValues, RootsResolved,
              Busy, Unvisited, Visiting, Indices

\* The frames of the stack, with their types.
LEMMA Frames ==
  ASSUME TypeOK
  PROVE  /\ Len(stack) \in Nat
         /\ DOMAIN stack = 1 .. Len(stack)
         /\ \A k \in 1 .. Len(stack) :
               /\ stack[k].index \in Indices
               /\ stack[k].next \in Nat \ {0}
               /\ Len(deps[stack[k].index]) \in Nat
<1>1. Len(stack) \in Nat /\ DOMAIN stack = 1 .. Len(stack)
  BY DEF TypeOK
<1>2. \A k \in 1 .. Len(stack) : stack[k] \in FrameType
  BY <1>1 DEF TypeOK
<1>3. \A k \in 1 .. Len(stack) :
        stack[k].index \in Indices /\ stack[k].next \in Nat \ {0}
  BY <1>2 DEF FrameType
<1>4. \A i \in Indices : Len(deps[i]) \in Nat
  BY DEF TypeOK, DepsOK
<1>5. QED
  BY <1>1, <1>3, <1>4

\* What the actions read, with its type.
LEMMA TopFrame ==
  ASSUME TypeOK, Busy
  PROVE  /\ Len(stack) \in Nat \ {0}
         /\ Top.index \in Indices
         /\ Top.next \in Nat \ {0}
         /\ Len(deps[Top.index]) \in Nat
         /\ Pending => /\ Top.next \in 1 .. Len(deps[Top.index])
                       /\ Target \in 0 .. Count
<1>1. Len(stack) \in Nat \ {0}
  BY DEF TypeOK, Busy
<1>2. /\ Top.index \in Indices
      /\ Top.next \in Nat \ {0}
      /\ Len(deps[Top.index]) \in Nat
  BY <1>1, Frames DEF Top
<1>3. Pending => Top.next \in 1 .. Len(deps[Top.index])
  BY <1>2 DEF Pending
<1>4. Pending => Target \in 0 .. Count
  BY <1>2, <1>3 DEF Target, TypeOK, DepsOK
<1>5. QED
  BY <1>1, <1>2, <1>3, <1>4

\* The frame on top has passed a reference.
LEMMA SkipShape ==
  ASSUME TypeOK, Skip
  PROVE  /\ Len(stack') = Len(stack)
         /\ \A k \in 1 .. Len(stack) :
               /\ stack'[k].index = stack[k].index
               /\ stack'[k].next = IF k = Len(stack) THEN stack[k].next + 1
                                   ELSE stack[k].next
         /\ stack' \in Seq(FrameType)
<1> DEFINE top == Len(stack)
           frame == [stack[top] EXCEPT !.next = stack[top].next + 1]
<1>1. stack' = [stack EXCEPT ![top] = frame]
  BY DEF Skip
<1>2. stack \in Seq(FrameType) /\ top \in 1 .. Len(stack)
  BY TopFrame DEF TypeOK, Skip, Pending
<1>3. stack[top] \in FrameType
  BY <1>2
<1>4. /\ frame \in FrameType
      /\ frame.index = stack[top].index
      /\ frame.next = stack[top].next + 1
  BY <1>3 DEF FrameType
<1> HIDE DEF frame, top
<1>5. /\ Len(stack') = Len(stack)
      /\ stack' \in Seq(FrameType)
      /\ \A k \in 1 .. Len(stack) : stack'[k] = IF k = top THEN frame ELSE stack[k]
  BY <1>1, <1>2, <1>4
<1>6. QED
  BY <1>4, <1>5 DEF top

LEMMA SkipInv == Inv /\ Skip => Inv'
<1> SUFFICES ASSUME Inv, Skip
             PROVE  Inv'
  OBVIOUS
<1>0. /\ Busy /\ TypeOK
      /\ Len(stack) \in Nat \ {0}
      /\ Top.next \in 1 .. Len(deps[Top.index])
      /\ Top.index \in Indices
      /\ HasValue(Target)
      /\ UNCHANGED <<assigns, base, deps, root, states>>
      /\ \A k \in 1 .. Len(stack) :
            /\ stack[k].index \in Indices
            /\ stack[k].next \in Nat \ {0}
            /\ Len(deps[stack[k].index]) \in Nat
  BY TopFrame, Frames DEF Inv, Skip, Pending, HasValue
<1>1. /\ Len(stack') = Len(stack)
      /\ \A k \in 1 .. Len(stack) :
            /\ stack'[k].index = stack[k].index
            /\ stack'[k].next = IF k = Len(stack) THEN stack[k].next + 1
                                ELSE stack[k].next
      /\ stack' \in Seq(FrameType)
  BY <1>0, SkipShape
<1>2. TypeOK'
  <2>1. FrameType' = FrameType
    BY <1>0 DEF FrameType, Indices
  <2>2. QED
    BY <1>0, <1>1, <2>1 DEF TypeOK, DepsOK, Indices, Count
<1>3. StackIsVisited'
  <2>1. StackIsVisited
    BY DEF Inv
  <2>2. states' = states /\ Indices' = Indices /\ Visiting' = Visiting
    BY <1>0 DEF Indices, Visiting
  <2>3. QED
    BY <1>1, <2>1, <2>2 DEF StackIsVisited
<1>4. StackIsPath'
  <2>1. SUFFICES ASSUME NEW k \in 1 .. Len(stack)
                 PROVE  /\ stack'[k].next <= Len(deps[stack[k].index]) + 1
                        /\ k < Len(stack) =>
                              /\ stack'[k].next <= Len(deps[stack[k].index])
                              /\ deps[stack[k].index][stack'[k].next].target
                                    = stack'[k + 1].index
    BY <1>0, <1>1 DEF StackIsPath, Reference
  <2>2. CASE k = Len(stack)
    BY <1>0, <1>1, <2>2 DEF Top
  <2>3. CASE k < Len(stack)
    <3>1. /\ stack[k].next <= Len(deps[stack[k].index])
          /\ Reference(k).target = stack[k + 1].index
      BY <2>3 DEF Inv, StackIsPath
    <3>2. stack'[k].next = stack[k].next /\ stack'[k + 1].index = stack[k + 1].index
      BY <1>0, <1>1, <2>3
    <3>3. QED
      BY <1>0, <3>1, <3>2 DEF Reference
  <2>4. QED
    BY <1>0, <2>2, <2>3
<1>5. PassedHaveValues'
  <2>1. SUFFICES ASSUME NEW k \in 1 .. Len(stack),
                        NEW n \in 1 .. Len(deps[stack[k].index]),
                        n < stack'[k].next
                 PROVE  HasValue(deps[stack[k].index][n].target)
    BY <1>0, <1>1 DEF PassedHaveValues, HasValue
  <2>2. CASE n < stack[k].next
    BY <2>2 DEF Inv, PassedHaveValues
  <2>3. CASE ~(n < stack[k].next)
    <3>1. k = Len(stack) /\ n = stack[k].next
      BY <1>0, <1>1, <2>1, <2>3
    <3>2. QED
      BY <1>0, <3>1 DEF Target, Top
  <2>4. QED
    BY <2>2, <2>3
<1>6. RootsResolved'
  BY <1>0, <1>1 DEF Inv, RootsResolved, Resolved, Busy, Count
<1>7. QED
  BY <1>2, <1>3, <1>4, <1>5, <1>6 DEF Inv

LEMMA NextRootInv == Inv /\ NextRoot => Inv'
<1> SUFFICES ASSUME Inv, NextRoot
             PROVE  Inv'
  OBVIOUS
<1>1. /\ stack = <<>> /\ root <= Count /\ states[root] # Unvisited
      /\ root' = root + 1
      /\ UNCHANGED <<assigns, base, deps, stack, states>>
  BY DEF NextRoot, Busy, Count
<1>2. root \in Indices /\ Count \in Nat
  BY <1>1 DEF Inv, TypeOK, Indices, Count
<1>3. TypeOK'
  BY <1>1, <1>2 DEF Inv, TypeOK, DepsOK, Indices, Count, FrameType
<1>4. Resolved(root)
  <2>1. states[root] # Visiting
    BY <1>1, <1>2 DEF Inv, StackIsVisited
  <2>2. QED
    BY <1>1, <1>2, <2>1 DEF Inv, TypeOK, Kinds, Resolved
<1>5. RootsResolved'
  BY <1>1, <1>2, <1>4 DEF Inv, RootsResolved, Resolved, Busy, Indices, Count
<1>6. QED
  BY <1>1, <1>3, <1>5 DEF Inv, StackIsVisited, StackIsPath, Reference, PassedHaveValues,
                         HasValue, Indices

LEMMA StartInv == Inv /\ Start => Inv'
<1> SUFFICES ASSUME Inv, Start
             PROVE  Inv'
  OBVIOUS
<1>1. /\ stack = <<>> /\ root <= Count /\ states[root] = Unvisited
      /\ states' = [states EXCEPT ![root] = Visiting]
      /\ stack' = << Frame(root) >>
      /\ UNCHANGED <<assigns, base, deps, root>>
  BY DEF Start, Busy, Count
<1>2. root \in Indices /\ Count \in Nat
  BY <1>1 DEF Inv, TypeOK, Indices, Count
<1>3. /\ Len(stack') = 1
      /\ stack'[1].index = root /\ stack'[1].next = 1
      /\ stack' \in Seq(FrameType)
  <2>1. Frame(root) \in FrameType
    BY <1>2 DEF Frame, FrameType
  <2>2. QED
    BY <1>1, <2>1 DEF Frame
<1>4. \A i \in Indices : states'[i] = IF i = root THEN Visiting ELSE states[i]
  BY <1>1, <1>2 DEF Inv, TypeOK
<1>5. TypeOK'
  <2>1. FrameType' = FrameType /\ Indices' = Indices /\ Count' = Count
    BY <1>1 DEF FrameType, Indices, Count
  <2>2. DepsOK' /\ root' \in 1 .. Count' + 1 /\ DOMAIN states' = Indices
    BY <1>1, <2>1 DEF Inv, TypeOK, DepsOK
  <2>3. QED
    BY <1>3, <1>4, <2>1, <2>2 DEF Inv, TypeOK, Kinds, Visiting, Unvisited
<1>6. StackIsVisited'
  <2>1. \A i \in Indices : states[i] # Visiting
    BY <1>1 DEF Inv, StackIsVisited
  <2>2. Indices' = Indices
    BY <1>1 DEF Indices
  <2>3. QED
    BY <1>2, <1>3, <1>4, <2>1, <2>2 DEF StackIsVisited, Visiting
<1>7. StackIsPath'
  BY <1>1, <1>2, <1>3 DEF Inv, TypeOK, DepsOK, StackIsPath
<1>8. PassedHaveValues'
  BY <1>1, <1>2, <1>3 DEF Inv, TypeOK, DepsOK, PassedHaveValues
<1>9. RootsResolved'
  BY <1>1, <1>2, <1>4 DEF Inv, TypeOK, RootsResolved, Resolved, Busy, Indices, Count
<1>10. QED
  BY <1>5, <1>6, <1>7, <1>8, <1>9 DEF Inv

\* There is a frame more.
LEMMA PushShape ==
  ASSUME TypeOK, Push
  PROVE  /\ Len(stack') = Len(stack) + 1
         /\ \A k \in 1 .. Len(stack) : stack'[k] = stack[k]
         /\ stack'[Len(stack) + 1].index = Target
         /\ stack'[Len(stack) + 1].next = 1
         /\ stack' \in Seq(FrameType)
<1>1. stack' = Append(stack, Frame(Target)) /\ Target \in Indices
  BY TopFrame DEF Push, Pending, TypeOK, Count, Indices
<1>2. Frame(Target) \in FrameType
  BY <1>1 DEF Frame, FrameType
<1>3. stack \in Seq(FrameType)
  BY DEF TypeOK
<1>4. /\ Len(stack') = Len(stack) + 1
      /\ \A k \in 1 .. Len(stack) : stack'[k] = stack[k]
      /\ stack'[Len(stack) + 1] = Frame(Target)
      /\ stack' \in Seq(FrameType)
  BY <1>1, <1>2, <1>3
<1>5. QED
  BY <1>4 DEF Frame

LEMMA PushInv == Inv /\ Push => Inv'
<1> SUFFICES ASSUME Inv, Push
             PROVE  Inv'
  OBVIOUS
<1> DEFINE n == Len(stack)
<1>0. /\ Busy /\ Pending /\ TypeOK
      /\ Target \in Indices
      /\ states[Target] = Unvisited
      /\ n \in Nat \ {0}
      /\ Top.next \in 1 .. Len(deps[Top.index])
      /\ Count \in Nat
      /\ \A k \in 1 .. n :
            /\ stack[k].index \in Indices
            /\ stack[k].next \in Nat \ {0}
            /\ Len(deps[stack[k].index]) \in Nat
  BY TopFrame, Frames DEF Inv, TypeOK, Push, Pending, Indices, Count
<1>1. /\ states' = [states EXCEPT ![Target] = Visiting]
      /\ stack' = Append(stack, Frame(Target))
      /\ UNCHANGED <<assigns, base, deps, root>>
      /\ FrameType' = FrameType /\ Indices' = Indices /\ Count' = Count
  BY DEF Push, FrameType, Indices, Count
<1>2. /\ Len(stack') = n + 1
      /\ \A k \in 1 .. n : stack'[k] = stack[k]
      /\ stack'[n + 1].index = Target /\ stack'[n + 1].next = 1
      /\ stack' \in Seq(FrameType)
  BY <1>0, PushShape
<1>3. \A i \in Indices : states'[i] = IF i = Target THEN Visiting ELSE states[i]
  BY <1>0, <1>1 DEF TypeOK
<1> HIDE DEF n
<1>4. TypeOK'
  <2>1. DepsOK' /\ root' \in 1 .. Count' + 1 /\ DOMAIN states' = Indices
    BY <1>0, <1>1 DEF TypeOK, DepsOK
  <2>2. QED
    BY <1>0, <1>1, <1>2, <1>3, <2>1 DEF TypeOK, Kinds, Visiting, Unvisited
<1>5. StackIsVisited'
  <2>1. \A k \in 1 .. n : states[stack[k].index] = Visiting /\ stack[k].index # Target
    BY <1>0 DEF Inv, StackIsVisited, Unvisited, Visiting, n
  <2>2. ASSUME NEW k \in 1 .. n + 1
        PROVE  states'[stack'[k].index] = Visiting
    <3>1. CASE k = n + 1
      BY <1>0, <1>2, <1>3, <3>1
    <3>2. CASE k \in 1 .. n
      BY <1>0, <1>2, <1>3, <2>1, <3>2
    <3>3. QED
      BY <1>0, <3>1, <3>2
  <2>3. ASSUME NEW i \in Indices, states'[i] = Visiting
        PROVE  \E k \in 1 .. n + 1 : stack'[k].index = i
    <3>1. CASE i = Target
      BY <1>0, <1>2, <3>1
    <3>2. CASE i # Target
      <4>1. PICK k \in 1 .. n : stack[k].index = i
        BY <1>3, <2>3, <3>2 DEF Inv, StackIsVisited, n
      <4>2. QED
        BY <1>0, <1>2, <4>1
    <3>3. QED
      BY <3>1, <3>2
  <2>4. ASSUME NEW k \in 1 .. n + 1, NEW m \in 1 .. n + 1,
               stack'[k].index = stack'[m].index
        PROVE  k = m
    <3>1. CASE k \in 1 .. n /\ m \in 1 .. n
      BY <1>2, <2>4, <3>1 DEF Inv, StackIsVisited, n
    <3>2. CASE k = n + 1 \/ m = n + 1
      BY <1>0, <1>2, <2>1, <2>4, <3>2
    <3>3. QED
      BY <1>0, <3>1, <3>2
  <2>5. Visiting' = Visiting
    BY DEF Visiting
  <2>6. QED
    BY <1>1, <1>2, <2>2, <2>3, <2>4, <2>5 DEF StackIsVisited
<1>6. StackIsPath'
  <2>1. SUFFICES ASSUME NEW k \in 1 .. n + 1
                 PROVE  /\ stack'[k].next <= Len(deps[stack'[k].index]) + 1
                        /\ k < n + 1 =>
                              /\ stack'[k].next <= Len(deps[stack'[k].index])
                              /\ deps[stack'[k].index][stack'[k].next].target
                                    = stack'[k + 1].index
    BY <1>1, <1>2 DEF StackIsPath, Reference
  <2>2. CASE k = n + 1
    BY <1>0, <1>2, <2>2 DEF TypeOK, DepsOK
  <2>3. CASE k = n
    BY <1>0, <1>2, <2>3 DEF Top, Target, n
  <2>4. CASE k < n
    <3>1. /\ stack[k].next <= Len(deps[stack[k].index])
          /\ Reference(k).target = stack[k + 1].index
      BY <1>0, <2>4 DEF Inv, StackIsPath, n
    <3>2. k \in 1 .. n /\ k + 1 \in 1 .. n
      BY <1>0, <2>4
    <3>3. stack'[k] = stack[k] /\ stack'[k + 1] = stack[k + 1]
      BY <1>2, <3>2
    <3>4. QED
      BY <1>0, <3>1, <3>2, <3>3 DEF Reference
  <2>5. QED
    BY <1>0, <2>2, <2>3, <2>4
<1>7. PassedHaveValues'
  <2>1. SUFFICES ASSUME NEW k \in 1 .. n + 1,
                        NEW m \in 1 .. Len(deps[stack'[k].index]),
                        m < stack'[k].next,
                        deps[stack'[k].index][m].target # 0
                 PROVE  states'[deps[stack'[k].index][m].target].kind = "value"
    BY <1>1, <1>2 DEF PassedHaveValues, HasValue
  <2>2. k \in 1 .. n /\ stack'[k] = stack[k]
    BY <1>0, <1>2, <2>1
  <2>3. PICK t : t = deps[stack[k].index][m].target
    OBVIOUS
  <2>4. HasValue(t)
    BY <2>1, <2>2, <2>3 DEF Inv, PassedHaveValues, n
  <2>5. t \in Indices
    BY <1>0, <2>1, <2>2, <2>3 DEF TypeOK, DepsOK, Indices, Count
  <2>6. states'[t].kind = "value"
    BY <1>0, <1>3, <2>1, <2>2, <2>3, <2>4, <2>5 DEF HasValue, Unvisited
  <2>7. QED
    BY <2>2, <2>3, <2>6
<1>8. RootsResolved'
  <2>1. \A i \in Indices : Resolved(i) => Resolved(i)'
    BY <1>0, <1>3 DEF Resolved, Unvisited
  <2>2. \A i \in 1 .. root - 1 : i \in Indices
    BY <1>0 DEF TypeOK, Indices, Count
  <2>3. QED
    BY <1>0, <1>1, <2>1, <2>2 DEF Inv, RootsResolved
<1>9. QED
  BY <1>4, <1>5, <1>6, <1>7, <1>8 DEF Inv

LEMMA CycleInv == Inv /\ Cycle => Inv'
<1> SUFFICES ASSUME Inv, Cycle
             PROVE  Inv'
  OBVIOUS
<1> DEFINE drained == { stack[k].index : k \in 1 .. Len(stack) }
<1>1. /\ stack' = <<>>
      /\ states' = [i \in DOMAIN states |->
                      IF i \in drained THEN Error("cyclic", Target) ELSE states[i]]
      /\ UNCHANGED <<assigns, base, deps, root>>
      /\ FrameType' = FrameType /\ Indices' = Indices /\ Count' = Count
  BY DEF Cycle, FrameType, Indices, Count
<1>2. /\ DOMAIN states' = Indices
      /\ \A i \in Indices : IF i \in drained THEN states'[i].kind = "error"
                            ELSE states'[i] = states[i]
  BY <1>1 DEF Inv, TypeOK, Error
<1>3. \A i \in Indices : i \in drained <=> states[i] = Visiting
  BY DEF Inv, StackIsVisited
<1> HIDE DEF drained
<1>4. TypeOK'
  BY <1>1, <1>2 DEF Inv, TypeOK, DepsOK, Kinds
<1>5. StackIsVisited'
  <2>1. \A i \in Indices : states'[i] # Visiting
    BY <1>2, <1>3 DEF Visiting
  <2>2. QED
    BY <1>1, <2>1 DEF StackIsVisited, Visiting
<1>6. StackIsPath' /\ PassedHaveValues'
  BY <1>1 DEF StackIsPath, PassedHaveValues
<1>7. RootsResolved'
  <2>1. \A i \in Indices : Resolved(i) => Resolved(i)'
    BY <1>2 DEF Resolved
  <2>2. \A i \in 1 .. root - 1 : i \in Indices
    BY DEF Inv, TypeOK, Indices, Count
  <2>3. QED
    BY <1>1, <2>1, <2>2 DEF Inv, RootsResolved, Busy
<1>8. QED
  BY <1>4, <1>5, <1>6, <1>7 DEF Inv

\* The frame on top is left with the outcome of its assignment.
Leave(outcome) ==
    /\ Busy
    /\ states' = [states EXCEPT ![Top.index] = outcome]
    /\ stack' = Below
    /\ UNCHANGED <<assigns, base, deps, root>>

LEMMA LeaveShape ==
  ASSUME TypeOK, Busy, stack' = Below
  PROVE  /\ Len(stack') = Len(stack) - 1
         /\ \A k \in 1 .. Len(stack) - 1 : stack'[k] = stack[k]
         /\ stack' \in Seq(FrameType)
<1> DEFINE n == Len(stack) - 1
<1>1. n \in Nat /\ stack' = SubSeq(stack, 1, n)
  BY TopFrame DEF Below
<1>2. \A k \in 1 .. n : stack[k] \in FrameType
  BY <1>1 DEF TypeOK
<1> HIDE DEF n
<1>3. /\ stack' \in Seq(FrameType)
      /\ Len(stack') = IF 1 <= n THEN n - 1 + 1 ELSE 0
      /\ \A k \in 1 .. n - 1 + 1 : stack'[k] = stack[1 + k - 1]
  BY <1>1, <1>2, SubSeqProperties
<1>4. Len(stack') = n
  BY <1>1, <1>3
<1>5. \A k \in 1 .. n : stack'[k] = stack[k]
  BY <1>1, <1>3
<1>6. QED
  BY <1>3, <1>4, <1>5 DEF n

LEMMA LeaveInv ==
  ASSUME Inv, NEW outcome, outcome.kind \in {"value", "error"}, Leave(outcome)
  PROVE  Inv'
<1> DEFINE n == Len(stack)
<1>0. /\ Busy /\ TypeOK
      /\ n \in Nat \ {0}
      /\ Top.index \in Indices
      /\ Count \in Nat
      /\ \A k \in 1 .. n :
            /\ stack[k].index \in Indices
            /\ stack[k].next \in Nat \ {0}
            /\ Len(deps[stack[k].index]) \in Nat
  BY TopFrame, Frames DEF Inv, TypeOK, Leave, Count
<1>1. /\ states' = [states EXCEPT ![Top.index] = outcome]
      /\ stack' = SubSeq(stack, 1, n - 1)
      /\ UNCHANGED <<assigns, base, deps, root>>
      /\ FrameType' = FrameType /\ Indices' = Indices /\ Count' = Count
  BY DEF Leave, FrameType, Indices, Count, Below
<1>2. /\ Len(stack') = n - 1
      /\ \A k \in 1 .. n - 1 : stack'[k] = stack[k]
      /\ stack' \in Seq(FrameType)
  BY <1>0, LeaveShape DEF Leave
<1>3. \A i \in Indices : states'[i] = IF i = Top.index THEN outcome ELSE states[i]
  BY <1>0, <1>1 DEF TypeOK
<1>4. /\ states[Top.index] = Visiting
      /\ \A k \in 1 .. n - 1 :
            /\ states[stack[k].index] = Visiting
            /\ stack[k].index # Top.index
  BY <1>0 DEF Inv, StackIsVisited, Top
<1> HIDE DEF n
<1>5. TypeOK'
  <2>1. DepsOK' /\ root' \in 1 .. Count' + 1 /\ DOMAIN states' = Indices
    BY <1>0, <1>1 DEF TypeOK, DepsOK
  <2>2. QED
    BY <1>0, <1>1, <1>2, <1>3, <2>1 DEF TypeOK, Kinds
<1>6. StackIsVisited'
  <2>1. ASSUME NEW k \in 1 .. n - 1
        PROVE  states'[stack'[k].index] = Visiting
    BY <1>0, <1>2, <1>3, <1>4
  <2>2. ASSUME NEW i \in Indices, states'[i] = Visiting
        PROVE  \E k \in 1 .. n - 1 : stack'[k].index = i
    <3>1. i # Top.index
      BY <1>3, <2>2 DEF Visiting
    <3>2. PICK k \in 1 .. n : stack[k].index = i
      BY <1>3, <2>2, <3>1 DEF Inv, StackIsVisited, n
    <3>3. k \in 1 .. n - 1
      BY <1>0, <3>1, <3>2 DEF Top, n
    <3>4. QED
      BY <1>2, <3>2, <3>3
  <2>3. ASSUME NEW k \in 1 .. n - 1, NEW m \in 1 .. n - 1,
               stack'[k].index = stack'[m].index
        PROVE  k = m
    BY <1>0, <1>2, <2>3 DEF Inv, StackIsVisited, n
  <2>4. Visiting' = Visiting
    BY DEF Visiting
  <2>5. QED
    BY <1>1, <1>2, <2>1, <2>2, <2>3, <2>4 DEF StackIsVisited
<1>7. StackIsPath'
  <2>1. SUFFICES ASSUME NEW k \in 1 .. n - 1
                 PROVE  /\ stack'[k].next <= Len(deps[stack'[k].index]) + 1
                        /\ k < n - 1 =>
                              /\ stack'[k].next <= Len(deps[stack'[k].index])
                              /\ deps[stack'[k].index][stack'[k].next].target
                                    = stack'[k + 1].index
    BY <1>1, <1>2 DEF StackIsPath, Reference
  <2>2. /\ k \in 1 .. n /\ stack'[k] = stack[k]
        /\ k < n - 1 => stack'[k + 1] = stack[k + 1]
    BY <1>0, <1>2
  <2>3. /\ stack[k].next <= Len(deps[stack[k].index]) + 1
        /\ k < n => /\ stack[k].next <= Len(deps[stack[k].index])
                    /\ Reference(k).target = stack[k + 1].index
    BY <2>2 DEF Inv, StackIsPath, n
  <2>4. QED
    BY <1>0, <2>2, <2>3 DEF Reference
<1>8. PassedHaveValues'
  <2>1. SUFFICES ASSUME NEW k \in 1 .. n - 1,
                        NEW m \in 1 .. Len(deps[stack'[k].index]),
                        m < stack'[k].next,
                        deps[stack'[k].index][m].target # 0
                 PROVE  states'[deps[stack'[k].index][m].target].kind = "value"
    BY <1>0, <1>1, <1>2 DEF PassedHaveValues, HasValue
  <2>2. k \in 1 .. n /\ stack'[k] = stack[k]
    BY <1>0, <1>2
  <2>3. PICK t : t = deps[stack[k].index][m].target
    OBVIOUS
  <2>4. HasValue(t)
    BY <2>1, <2>2, <2>3 DEF Inv, PassedHaveValues, n
  <2>5. t \in Indices
    BY <1>0, <2>1, <2>2, <2>3 DEF TypeOK, DepsOK, Indices, Count
  <2>6. states'[t].kind = "value"
    BY <1>3, <1>4, <2>1, <2>2, <2>3, <2>4, <2>5 DEF HasValue, Visiting
  <2>7. QED
    BY <2>2, <2>3, <2>6
<1>9. RootsResolved'
  <2>1. \A i \in Indices : Resolved(i) => Resolved(i)'
    BY <1>3 DEF Resolved
  <2>2. \A i \in 1 .. root - 1 : i \in Indices
    BY <1>0 DEF TypeOK, Indices, Count
  <2>3. QED
    BY <1>0, <1>1, <2>1, <2>2 DEF Inv, RootsResolved
<1>10. QED
  BY <1>5, <1>6, <1>7, <1>8, <1>9 DEF Inv

LEMMA PropagateInv == Inv /\ Propagate => Inv'
<1> SUFFICES ASSUME Inv, Propagate
             PROVE  Inv'
  OBVIOUS
<1>1. states[Target].kind = "error" /\ Leave(states[Target])
  BY DEF Propagate, Leave, Pending
<1>2. QED
  BY <1>1, LeaveInv

LEMMA EvaluateTopInv == Inv /\ EvaluateTop => Inv'
<1> SUFFICES ASSUME Inv, EvaluateTop
             PROVE  Inv'
  OBVIOUS
<1> DEFINE outcome == Evaluate(assigns, deps, base, Top.index, states)
<1>1. Leave(outcome)
  BY DEF EvaluateTop, Leave
<1>2. DOMAIN deps[Top.index] \in SUBSET Nat
  BY TopFrame DEF Inv, TypeOK, DepsOK, EvaluateTop
<1>3. outcome.kind \in {"value", "error"}
  BY <1>2, EvaluateResolves
<1> HIDE DEF outcome
<1>4. QED
  BY <1>1, <1>3, LeaveInv

LEMMA NextInv == Inv /\ [Next]_vars => Inv'
<1> SUFFICES ASSUME Inv, [Next]_vars
             PROVE  Inv'
  OBVIOUS
<1>1. CASE UNCHANGED vars
  BY <1>1 DEF Inv, TypeOK, DepsOK, FrameType, Count, Indices, StackIsVisited, Visiting,
              StackIsPath, Reference, PassedHaveValues, HasValue, RootsResolved, Resolved,
              Busy, vars
<1>2. CASE NextRoot
  BY <1>2, NextRootInv
<1>3. CASE Start
  BY <1>3, StartInv
<1>4. CASE Skip
  BY <1>4, SkipInv
<1>5. CASE Push
  BY <1>5, PushInv
<1>6. CASE Cycle
  BY <1>6, CycleInv
<1>7. CASE Propagate
  BY <1>7, PropagateInv
<1>8. CASE EvaluateTop
  BY <1>8, EvaluateTopInv
<1>9. QED
  BY <1>1, <1>2, <1>3, <1>4, <1>5, <1>6, <1>7, <1>8 DEF Next, Terminated

\* What is visited is on the stack, once; the stack is a path of assignments
\* that wait for one another; a reference was passed for a value; and every
\* assignment before the root was resolved (resolve_all, resolve_assignment).
THEOREM InvHolds == Spec => []Inv
BY InitInv, NextInv, PTL DEF Spec

\* Neither unreachable!() of resolve_assignment and resolve_all is reached:
\* what is evaluated has dependencies with an outcome, and in the end every
\* assignment has one.
THEOREM NothingIsUnreachable == Spec => []NothingUnreachable
<1>1. Inv => NothingUnreachable
  <2>1. ASSUME Inv, Busy, ~Pending, NEW j \in DependsOn(Top.index)
        PROVE  Resolved(j)
    <3>1. /\ TypeOK
          /\ Len(stack) \in Nat \ {0}
          /\ Top.index \in Indices
          /\ Top.next > Len(deps[Top.index])
      BY <2>1, TopFrame DEF Inv, Pending
    <3>2. PICK m \in 1 .. Len(deps[Top.index]) : j = deps[Top.index][m].target /\ j # 0
      BY <3>1 DEF DependsOn, ToSet, TypeOK, DepsOK
    <3>3. m < Top.next
      BY <3>1, TopFrame, <2>1 DEF Inv
    <3>4. HasValue(j)
      BY <2>1, <3>1, <3>2, <3>3 DEF Inv, PassedHaveValues, Top
    <3>5. QED
      BY <3>2, <3>4 DEF HasValue, Resolved
  <2>2. ASSUME Inv, Done
        PROVE  \A i \in Indices : Resolved(i)
    BY <2>2 DEF Inv, Done, TypeOK, RootsResolved, Indices, Count
  <2>3. QED
    BY <2>1, <2>2 DEF NothingUnreachable
<1>2. QED
  BY <1>1, InvHolds, PTL

-----------------------------------------------------------------------------
(* Every turn of the loop uses up some work.                               *)

\* Counting pairs: n columns, of f[i] places each.
Places(n, f) == UNION { {i} \X (1 .. f[i]) : i \in 1 .. n }

LEMMA PlacesFinite ==
  ASSUME NEW n \in Nat, NEW f, \A i \in 1 .. n : f[i] \in Nat
  PROVE  IsFiniteSet(Places(n, f))
<1>1. \A i \in 1 .. n : IsFiniteSet({i} \X (1 .. f[i]))
  <2>1. TAKE i \in 1 .. n
  <2>2. IsFiniteSet({i})
    BY FS_Singleton
  <2>3. IsFiniteSet(1 .. f[i])
    BY FS_Interval
  <2>4. QED
    BY <2>2, <2>3, FS_Product
<1>2. IsFiniteSet({ {i} \X (1 .. f[i]) : i \in 1 .. n })
  <2> DEFINE columns == { {i} \X (1 .. f[i]) : i \in 1 .. n }
             column  == [i \in 1 .. n |-> {i} \X (1 .. f[i])]
  <2>1. IsFiniteSet(1 .. n)
    BY FS_Interval
  <2>2. column \in Surjection(1 .. n, columns)
    BY DEF Surjection
  <2>3. QED
    BY <2>1, <2>2, FS_Surjection
<1>3. QED
  BY <1>1, <1>2, FS_UNION DEF Places

\* When no column shrinks and one grows, there are more places.
LEMMA MorePlaces ==
  ASSUME NEW n \in Nat, NEW f, NEW g,
         \A i \in 1 .. n : f[i] \in Nat /\ g[i] \in Nat /\ f[i] <= g[i],
         NEW j \in 1 .. n, f[j] < g[j]
  PROVE  /\ Cardinality(Places(n, f)) \in Nat
         /\ Cardinality(Places(n, g)) \in Nat
         /\ Cardinality(Places(n, f)) < Cardinality(Places(n, g))
<1>1. Places(n, f) \subseteq Places(n, g)
  BY DEF Places
<1>2. <<j, g[j]>> \in Places(n, g)
  BY DEF Places
<1>3. <<j, g[j]>> \notin Places(n, f)
  BY DEF Places
<1>4. IsFiniteSet(Places(n, g))
  BY PlacesFinite
<1>5. QED
  BY <1>1, <1>2, <1>3, <1>4, StrictlyMore

\* How far each assignment is, by its state.
PassedMeans ==
    \A i \in Indices :
        /\ Passed(i) \in Nat
        /\ states[i] = Unvisited => Passed(i) = 0
        /\ Resolved(i) => Passed(i) = Len(deps[i]) + 2
        /\ \A k \in 1 .. Len(stack) :
              stack[k].index = i =>
                 /\ ~Resolved(i)
                 /\ Passed(i) = stack[k].next
                 /\ Passed(i) < Len(deps[i]) + 2

LEMMA PassedIs == Inv => PassedMeans
<1> SUFFICES ASSUME Inv, NEW i \in Indices
             PROVE  /\ Passed(i) \in Nat
                    /\ states[i] = Unvisited => Passed(i) = 0
                    /\ Resolved(i) => Passed(i) = Len(deps[i]) + 2
                    /\ \A k \in 1 .. Len(stack) :
                          stack[k].index = i =>
                             /\ ~Resolved(i)
                             /\ Passed(i) = stack[k].next
                             /\ Passed(i) < Len(deps[i]) + 2
  BY DEF PassedMeans
<1> DEFINE frames == { k \in 1 .. Len(stack) : stack[k].index = i }
<1>1. Len(deps[i]) \in Nat /\ TypeOK
  BY DEF Inv, TypeOK, DepsOK
<1>2. CASE frames = {}
  <2>1. states[i] # Visiting
    BY <1>2 DEF Inv, StackIsVisited
  <2>2. states[i] = Unvisited \/ Resolved(i)
    BY <2>1 DEF Inv, TypeOK, Kinds, Resolved
  <2>3. states[i] = Unvisited => ~Resolved(i)
    BY DEF Unvisited, Resolved
  <2>4. QED
    BY <1>1, <1>2, <2>2, <2>3 DEF Passed
<1>3. CASE frames # {}
  <2>1. PICK k \in frames : TRUE
    BY <1>3
  <2>2. states[i] = Visiting
    BY <2>1 DEF Inv, StackIsVisited
  <2>3. ~Resolved(i) /\ states[i] # Unvisited
    BY <2>2 DEF Resolved, Visiting, Unvisited
  <2>4. \A m \in frames : m = k
    BY <2>1 DEF Inv, StackIsVisited
  <2>5. (CHOOSE m \in frames : TRUE) = k
    BY <2>1, <2>4
  <2>6. Passed(i) = stack[k].next
    BY <1>3, <2>3, <2>5 DEF Passed
  <2>7. stack[k].next \in Nat /\ stack[k].next <= Len(deps[i]) + 1
    BY <1>1, <2>1, Frames DEF Inv, StackIsPath
  <2> HIDE DEF frames
  <2>8. \A m \in 1 .. Len(stack) : stack[m].index = i => m = k
    BY <2>4 DEF frames
  <2>9. QED
    BY <1>1, <2>3, <2>6, <2>7, <2>8
<1>4. QED
  BY <1>2, <1>3

\* One turn: nothing is unresolved again, a frame that is not left stays
\* where it is, and some assignment has got further.
LEMMA TurnsGrow ==
  ASSUME Inv, PassedMeans, PassedMeans',
         root' = root, deps' = deps, assigns' = assigns,
         \A i \in Indices : Resolved(i) => Resolved(i)',
         \A i \in Indices : \A k \in 1 .. Len(stack) :
             stack[k].index = i =>
                \/ Resolved(i)'
                \/ /\ k \in 1 .. Len(stack')
                   /\ stack'[k].index = i
                   /\ stack'[k].next >= stack[k].next,
         NEW j \in Indices, Passed(j) < Passed(j)'
  PROVE  Work' > Work
<1> DEFINE f == [i \in Indices |-> Passed(i)]
           g == [i \in Indices |-> Passed(i)']
<1>1. Indices' = Indices /\ Count \in Nat /\ Indices = 1 .. Count /\ root \in Nat
  BY DEF Inv, TypeOK, Indices, Count
<1>2. Turns = Places(Count, f) /\ Turns' = Places(Count, g)
  BY <1>1 DEF Turns, Places
<1>3. ASSUME NEW i \in Indices
      PROVE  Passed(i) \in Nat /\ Passed(i)' \in Nat /\ Passed(i) <= Passed(i)'
  <2>1. Passed(i) \in Nat /\ Passed(i)' \in Nat /\ Len(deps[i]) \in Nat
    BY <1>1 DEF PassedMeans, Inv, TypeOK, DepsOK
  <2>2. CASE states[i] = Unvisited
    BY <2>1, <2>2 DEF PassedMeans
  <2>3. CASE Resolved(i)
    <3>1. Resolved(i)'
      BY <2>3
    <3>2. Passed(i) = Len(deps[i]) + 2
      BY <2>3 DEF PassedMeans
    <3>3. Passed(i)' = Len(deps[i]) + 2
      BY <1>1, <3>1 DEF PassedMeans
    <3>4. QED
      BY <2>1, <3>2, <3>3
  <2>4. CASE states[i] = Visiting
    <3>1. PICK k \in 1 .. Len(stack) : stack[k].index = i
      BY <2>4 DEF Inv, StackIsVisited
    <3>2. Passed(i) = stack[k].next /\ Passed(i) < Len(deps[i]) + 2
      BY <3>1 DEF PassedMeans
    <3>3. CASE Resolved(i)'
      <4>1. Passed(i)' = Len(deps[i]) + 2
        BY <1>1, <3>3 DEF PassedMeans
      <4>2. QED
        BY <2>1, <3>2, <4>1
    <3>4. CASE ~Resolved(i)'
      <4>1. /\ k \in 1 .. Len(stack')
            /\ stack'[k].index = i
            /\ stack'[k].next >= stack[k].next
        BY <3>1, <3>4
      <4>2. Passed(i)' = stack'[k].next
        BY <1>1, <4>1 DEF PassedMeans
      <4>3. QED
        BY <2>1, <3>2, <4>1, <4>2
    <3>5. QED
      BY <3>3, <3>4
  <2>5. QED
    BY <2>2, <2>3, <2>4 DEF Inv, TypeOK, Kinds, Resolved
<1> HIDE DEF f, g
<1>4. /\ \A i \in 1 .. Count : f[i] \in Nat /\ g[i] \in Nat /\ f[i] <= g[i]
      /\ j \in 1 .. Count /\ f[j] < g[j]
  BY <1>1, <1>3 DEF f, g
<1>5. /\ Cardinality(Places(Count, f)) \in Nat
      /\ Cardinality(Places(Count, g)) \in Nat
      /\ Cardinality(Places(Count, f)) < Cardinality(Places(Count, g))
  BY <1>1, <1>4, MorePlaces
<1>6. QED
  BY <1>1, <1>2, <1>5 DEF Work

LEMMA StepGrows == Inv /\ PassedMeans /\ PassedMeans' /\ [Next]_vars => [Work' > Work]_vars
<1> SUFFICES ASSUME Inv, PassedMeans, PassedMeans', Next, ~UNCHANGED vars
             PROVE  Work' > Work
  OBVIOUS
<1>0. /\ TypeOK
      /\ Len(stack) \in Nat
      /\ \A k \in 1 .. Len(stack) :
            /\ stack[k].index \in Indices
            /\ stack[k].next \in Nat \ {0}
            /\ Len(deps[stack[k].index]) \in Nat
  BY Frames DEF Inv
<1>1. CASE NextRoot
  <2>1. Turns' = Turns
    BY <1>1 DEF NextRoot, Turns, Indices, Passed, Resolved
  <2>2. Turns = Places(Count, [i \in Indices |-> Passed(i)])
    BY DEF Turns, Places, Indices, Count
  <2>3. IsFiniteSet(Turns)
    BY <2>2, PlacesFinite DEF PassedMeans, Inv, TypeOK, Indices, Count
  <2>4. Cardinality(Turns) \in Nat /\ root \in Nat /\ root' = root + 1
    BY <1>1, <2>3, FS_CardinalityType DEF NextRoot, Inv, TypeOK
  <2> QED
    BY <2>1, <2>4 DEF Work
<1>2. CASE Start
  <2>1. /\ root \in Indices /\ states[root] = Unvisited
        /\ stack = <<>>
        /\ Len(stack') = 1 /\ stack'[1].index = root /\ stack'[1].next = 1
        /\ root' = root /\ deps' = deps /\ assigns' = assigns /\ Indices' = Indices
    BY <1>0, <1>2 DEF Start, Busy, TypeOK, Indices, Count, Frame
  <2>2. \A i \in Indices : Resolved(i) => Resolved(i)'
    BY <1>0, <1>2 DEF Start, TypeOK, Resolved, Unvisited
  <2>3. Passed(root) = 0 /\ Passed(root)' = 1
    BY <2>1 DEF PassedMeans
  <2>4. QED
    BY <2>1, <2>2, <2>3, TurnsGrow
<1>3. CASE Skip
  <2>1. /\ Top.index \in Indices
        /\ Top = stack[Len(stack)] /\ Len(stack) \in 1 .. Len(stack)
        /\ root' = root /\ deps' = deps /\ assigns' = assigns /\ states' = states
        /\ Indices' = Indices
    BY <1>0, <1>3, TopFrame DEF Skip, Pending, Indices, Top
  <2>2. \A i \in Indices : Resolved(i) => Resolved(i)'
    BY <2>1 DEF Resolved
  <2>3. /\ Len(stack') = Len(stack)
        /\ \A k \in 1 .. Len(stack) :
              /\ stack'[k].index = stack[k].index
              /\ stack'[k].next = IF k = Len(stack) THEN stack[k].next + 1
                                  ELSE stack[k].next
    BY <1>0, <1>3, SkipShape
  <2>4. Passed(Top.index) = Top.next
    BY <2>1 DEF PassedMeans
  <2>5. PICK j \in Indices : j = Top.index
    BY <2>1
  <2>6. Passed(j) < Passed(j)'
    <3>1. stack'[Len(stack)].index = j /\ stack'[Len(stack)].next = Top.next + 1
      BY <2>1, <2>3, <2>5
    <3>2. Passed(j)' = Top.next + 1
      BY <2>1, <2>3, <3>1 DEF PassedMeans
    <3>3. QED
      BY <1>0, <2>1, <2>4, <2>5, <3>2
  <2>7. \A k \in 1 .. Len(stack) : stack'[k].next >= stack[k].next
    BY <1>0, <2>3
  <2>8. QED
    BY <2>1, <2>2, <2>3, <2>6, <2>7, TurnsGrow
<1>4. CASE Push
  <2>1. /\ Target \in Indices /\ states[Target] = Unvisited
        /\ states' = [states EXCEPT ![Target] = Visiting]
        /\ root' = root /\ deps' = deps /\ assigns' = assigns
        /\ Indices' = Indices
    BY <1>0, <1>4, TopFrame DEF Push, Pending, Indices, Count, TypeOK
  <2>2. \A i \in Indices : Resolved(i) => Resolved(i)'
    BY <1>0, <2>1 DEF TypeOK, Resolved, Unvisited
  <2>3. /\ Len(stack') = Len(stack) + 1
        /\ \A k \in 1 .. Len(stack) : stack'[k] = stack[k]
        /\ stack'[Len(stack) + 1].index = Target
        /\ stack'[Len(stack) + 1].next = 1
    BY <1>0, <1>4, PushShape
  <2>4. PICK j \in Indices : j = Target
    BY <2>1
  <2>5. Passed(j) = 0 /\ Passed(j)' = 1
    BY <1>0, <2>1, <2>3, <2>4 DEF PassedMeans
  <2>6. \A k \in 1 .. Len(stack) : /\ k \in 1 .. Len(stack')
                                   /\ stack'[k].index = stack[k].index
                                   /\ stack'[k].next >= stack[k].next
    BY <1>0, <2>3
  <2>7. QED
    BY <2>1, <2>2, <2>5, <2>6, TurnsGrow
<1>5. CASE Cycle
  <2>1. /\ Top.index \in Indices
        /\ Top = stack[Len(stack)] /\ Len(stack) \in 1 .. Len(stack)
        /\ root' = root /\ deps' = deps /\ assigns' = assigns
        /\ Indices' = Indices
    BY <1>0, <1>5, TopFrame DEF Cycle, Pending, Indices, Top
  <2>2. \A i \in Indices :
           /\ Resolved(i) => Resolved(i)'
           /\ \A k \in 1 .. Len(stack) : stack[k].index = i => Resolved(i)'
    BY <1>0, <1>5 DEF Cycle, TypeOK, Resolved, Error
  <2>3. PICK j \in Indices : j = Top.index
    BY <2>1
  <2>4. Passed(j) < Len(deps[j]) + 2 /\ Passed(j)' = Len(deps[j]) + 2
    BY <2>1, <2>2, <2>3 DEF PassedMeans
  <2>5. QED
    BY <2>1, <2>2, <2>4, TurnsGrow
<1>6. ASSUME NEW outcome, outcome.kind \in {"value", "error"}, Leave(outcome)
      PROVE  Work' > Work
  <2>1. /\ Top.index \in Indices
        /\ Top = stack[Len(stack)] /\ Len(stack) \in 1 .. Len(stack)
        /\ states' = [states EXCEPT ![Top.index] = outcome]
        /\ root' = root /\ deps' = deps /\ assigns' = assigns
        /\ Indices' = Indices
    BY <1>0, <1>6, TopFrame DEF Leave, Indices, Top
  <2>2. \A i \in Indices : states'[i] = IF i = Top.index THEN outcome ELSE states[i]
    BY <1>0, <2>1 DEF TypeOK
  <2>3. \A i \in Indices : Resolved(i) => Resolved(i)'
    BY <1>6, <2>2 DEF Resolved
  <2>4. PICK j \in Indices : j = Top.index
    BY <2>1
  <2>5. Resolved(j)'
    BY <1>6, <2>2, <2>4 DEF Resolved
  <2>6. Passed(j) < Len(deps[j]) + 2 /\ Passed(j)' = Len(deps[j]) + 2
    BY <2>1, <2>4, <2>5 DEF PassedMeans
  <2>7. /\ Len(stack') = Len(stack) - 1
        /\ \A k \in 1 .. Len(stack) - 1 : stack'[k] = stack[k]
    BY <1>0, <1>6, LeaveShape DEF Leave
  <2>8. ASSUME NEW i \in Indices, NEW k \in 1 .. Len(stack), stack[k].index = i
        PROVE  \/ Resolved(i)'
               \/ /\ k \in 1 .. Len(stack')
                  /\ stack'[k].index = i
                  /\ stack'[k].next >= stack[k].next
    <3>1. CASE k = Len(stack)
      BY <2>1, <2>4, <2>5, <2>8, <3>1
    <3>2. CASE k \in 1 .. Len(stack) - 1
      BY <1>0, <2>7, <2>8, <3>2
    <3>3. QED
      BY <1>0, <3>1, <3>2
  <2>9. QED
    BY <2>1, <2>3, <2>6, <2>8, TurnsGrow
<1>7. CASE Propagate
  <2>1. states[Target].kind = "error" /\ Leave(states[Target])
    BY <1>7 DEF Propagate, Pending, Leave
  <2>2. QED
    BY <1>6, <2>1
<1>8. CASE EvaluateTop
  <2> DEFINE outcome == Evaluate(assigns, deps, base, Top.index, states)
  <2>1. Leave(outcome)
    BY <1>8 DEF EvaluateTop, Leave
  <2>2. DOMAIN deps[Top.index] \in SUBSET Nat
    BY <1>0, <1>8, TopFrame DEF TypeOK, DepsOK, EvaluateTop
  <2>3. outcome.kind \in {"value", "error"}
    BY <2>2, EvaluateResolves
  <2> HIDE DEF outcome
  <2>4. QED
    BY <1>6, <2>1, <2>3
<1>9. QED
  BY <1>1, <1>2, <1>3, <1>4, <1>5, <1>7, <1>8 DEF Next, Terminated

\* Every turn uses up work that there is only so much of: an assignment is
\* entered once, each reference is passed once, and it is left once.  So
\* resolve_all ends after a number of turns that is linear in its source,
\* cycles or not (resolve_assignment: "iterative DFS").
THEOREM WorkAlwaysGrows == Spec => WorkGrows
<1>1. Inv /\ [Next]_vars => PassedMeans /\ PassedMeans'
  <2>1. Inv => PassedMeans
    BY PassedIs
  <2>2. (Inv => PassedMeans)'
    BY PassedIs, PTL
  <2>3. QED
    BY <2>1, <2>2, NextInv
<1>2. Inv /\ [Next]_vars => [Work' > Work]_vars
  BY <1>1, StepGrows
<1>3. QED
  BY <1>2, InvHolds, PTL DEF Spec, WorkGrows

\* The most work that there is.
Limit == Count + 1 + Cardinality(Places(Count, [i \in Indices |-> Len(deps[i]) + 2]))

\* The work is bounded by a number that no turn changes: what makes the loop
\* of resolve_assignment end.
THEOREM WorkIsBounded == Spec => [](Work <= Limit) /\ [][Limit' = Limit]_vars
<1> DEFINE f == [i \in Indices |-> Passed(i)]
           g == [i \in Indices |-> Len(deps[i]) + 2]
<1>1. Inv => Work <= Limit
  <2>1. SUFFICES ASSUME Inv
                 PROVE  Work <= Limit
    OBVIOUS
  <2>2. Count \in Nat /\ Indices = 1 .. Count /\ root \in Nat /\ root <= Count + 1
    BY <2>1 DEF Inv, TypeOK, Indices, Count
  <2>3. ASSUME NEW i \in Indices
        PROVE  Passed(i) \in Nat /\ Len(deps[i]) \in Nat /\ Passed(i) <= Len(deps[i]) + 2
    <3>1. Passed(i) \in Nat /\ Len(deps[i]) \in Nat
      BY <2>1, PassedIs DEF PassedMeans, Inv, TypeOK, DepsOK
    <3>2. CASE states[i] = Unvisited
      BY <2>1, <3>1, <3>2, PassedIs DEF PassedMeans
    <3>3. CASE states[i] = Visiting
      BY <2>1, <3>1, <3>3, PassedIs DEF PassedMeans, Inv, StackIsVisited
    <3>4. CASE Resolved(i)
      BY <2>1, <3>1, <3>4, PassedIs DEF PassedMeans
    <3>5. QED
      BY <2>1, <3>2, <3>3, <3>4 DEF Inv, TypeOK, Kinds, Resolved
  <2>4. Turns = Places(Count, f)
    BY <2>2 DEF Turns, Places
  <2>5. Places(Count, f) \subseteq Places(Count, g)
    BY <2>2, <2>3 DEF Places
  <2>6. IsFiniteSet(Places(Count, g))
    <3>1. \A i \in 1 .. Count : g[i] \in Nat
      BY <2>2, <2>3
    <3> HIDE DEF g
    <3>2. QED
      BY <2>2, <3>1, PlacesFinite
  <2> HIDE DEF f, g
  <2>7. /\ Cardinality(Places(Count, f)) <= Cardinality(Places(Count, g))
        /\ IsFiniteSet(Places(Count, f))
    BY <2>5, <2>6, FS_Subset
  <2>8. Cardinality(Places(Count, f)) \in Nat /\ Cardinality(Places(Count, g)) \in Nat
    BY <2>6, <2>7, FS_CardinalityType
  <2>9. QED
    BY <2>2, <2>4, <2>7, <2>8 DEF Work, Limit, g
<1>2. [Next]_vars => [Limit' = Limit]_vars
  BY DEF Next, NextRoot, Start, Skip, Push, Cycle, Propagate, EvaluateTop, Terminated,
         vars, Limit, Count, Indices
<1>3. QED
  BY <1>1, <1>2, InvHolds, PTL DEF Spec

-----------------------------------------------------------------------------
(* The outcomes are those that the source means.                           *)

Meant == Outcomes(assigns, base)

OutcomesMeant ==
    /\ WellFormed(assigns)
    /\ deps = Dependencies(assigns)
    /\ \A i \in Indices : Resolved(i) => Same(states[i], Meant[i])

\* An outcome that follows from dependencies that are resolved is the one
\* meant: nothing after the first failed one counts.
LEMMA EvaluateMeant ==
  ASSUME Inv, OutcomesMeant, NEW i \in Indices,
         \A k \in DOMAIN deps[i] :
            deps[i][k].target # 0 /\ ValuesBefore(deps, i, k, states) =>
               Resolved(deps[i][k].target)
  PROVE  Same(Evaluate(assigns, deps, base, i, states), Meant[i])
<1>1. /\ DOMAIN deps[i] \in SUBSET Nat
      /\ \A k \in DOMAIN deps[i] : deps[i][k].target # 0 => deps[i][k].target \in Indices
  BY DependenciesOf DEF OutcomesMeant, Indices
<1>2. \A k \in DOMAIN deps[i] :
         deps[i][k].target # 0 /\ ValuesBefore(deps, i, k, states) =>
            /\ states[deps[i][k].target].kind \in {"value", "error"}
            /\ Same(states[deps[i][k].target], Meant[deps[i][k].target])
  BY <1>1 DEF OutcomesMeant, Resolved
<1>3. Same(Evaluate(assigns, deps, base, i, states), Evaluate(assigns, deps, base, i, Meant))
  BY <1>1, <1>2, EvaluateSame
<1>4. Same(Meant[i], Evaluate(assigns, deps, base, i, Meant))
  BY OutcomesSolve DEF OutcomesMeant, Meant, Indices
<1>5. QED
  BY <1>3, <1>4 DEF Same

\* What a frame has passed has the value that is meant.
LEMMA PassedMeant ==
  ASSUME Inv, OutcomesMeant, NEW k \in 1 .. Len(stack)
  PROVE  LET i == stack[k].index
         IN  \A q \in DOMAIN deps[i] :
                q < stack[k].next /\ deps[i][q].target # 0 =>
                   /\ states[deps[i][q].target].kind = "value"
                   /\ Meant[deps[i][q].target].kind = "value"
<1>1. PICK i \in Indices : i = stack[k].index
  BY Frames DEF Inv
<1>2. SUFFICES ASSUME NEW q \in DOMAIN deps[i], q < stack[k].next, deps[i][q].target # 0
               PROVE  /\ states[deps[i][q].target].kind = "value"
                      /\ Meant[deps[i][q].target].kind = "value"
  BY <1>1
<1>3. /\ DOMAIN deps[i] = 1 .. Len(deps[i])
      /\ deps[i][q].target \in Indices
  BY <1>2, DependenciesOf DEF Inv, TypeOK, DepsOK, OutcomesMeant, Indices
<1>4. states[deps[i][q].target].kind = "value"
  BY <1>1, <1>2, <1>3 DEF Inv, PassedHaveValues, HasValue
<1>5. QED
  BY <1>3, <1>4 DEF OutcomesMeant, Resolved, Same

\* The assignments on the stack of a cycle are in one, or wait for it.
LEMMA CycleMeant ==
  ASSUME Inv, OutcomesMeant, Cycle
  PROVE  \A k \in 1 .. Len(stack) : IsCyclic(Meant[stack[k].index])
<1> DEFINE X == { stack[k].index : k \in 1 .. Len(stack) }
<1>1. X \in SUBSET Indices
  BY Frames DEF Inv
<1>2. ASSUME NEW i \in X
      PROVE  \E q \in DOMAIN deps[i] : /\ deps[i][q].target # 0
                                       /\ deps[i][q].target \in X
                                       /\ ValuesBefore(deps, i, q, Meant)
  <2>1. PICK k \in 1 .. Len(stack) : i = stack[k].index
    OBVIOUS
  <2>2. PICK q : q = stack[k].next
    OBVIOUS
  <2>3. /\ i \in Indices
        /\ Len(stack) \in Nat \ {0}
        /\ Top.next \in 1 .. Len(deps[Top.index])
        /\ DOMAIN deps[i] = 1 .. Len(deps[i]) /\ Len(deps[i]) \in Nat
        /\ q \in Nat \ {0}
    BY <1>1, <2>1, <2>2, TopFrame, Frames DEF Inv, TypeOK, DepsOK, Cycle, Pending
  <2>4. q \in DOMAIN deps[i] /\ deps[i][q].target \in X
    <3>1. CASE k = Len(stack)
      <4>1. q \in DOMAIN deps[i] /\ deps[i][q].target = Target
        BY <2>1, <2>2, <2>3, <3>1 DEF Top, Target
      <4>2. Target \in Indices /\ states[Target] = Visiting
        BY <2>3, TopFrame DEF Inv, Cycle, Pending, Indices, Count, TypeOK
      <4>3. QED
        BY <4>1, <4>2 DEF Inv, StackIsVisited
    <3>2. CASE k < Len(stack)
      <4>1. /\ q <= Len(deps[i])
            /\ deps[i][q].target = stack[k + 1].index
        BY <2>1, <2>2, <3>2 DEF Inv, StackIsPath, Reference
      <4>2. k + 1 \in 1 .. Len(stack)
        BY <2>3, <3>2
      <4>3. QED
        BY <2>3, <4>1, <4>2
    <3>3. k = Len(stack) \/ k < Len(stack)
      BY <2>3
    <3>4. QED
      BY <3>1, <3>2, <3>3
  <2>5. deps[i][q].target # 0
    <3>1. \A j \in Indices : j # 0
      BY DEF Inv, TypeOK, Indices, Count
    <3>2. QED
      BY <1>1, <2>4, <3>1
  <2>6. ValuesBefore(deps, i, q, Meant)
    BY <2>1, <2>2, PassedMeant DEF ValuesBefore
  <2>7. QED
    BY <2>4, <2>5, <2>6
<1> HIDE DEF X
<1>3. \A i \in X : IsCyclic(Meant[i])
  BY <1>1, <1>2, CyclesAreCyclic DEF OutcomesMeant, Meant, Indices
<1>4. QED
  BY <1>3 DEF X

LEMMA InitMeant == Init => OutcomesMeant
BY ListsAssumption DEF Init, OutcomesMeant, Resolved, Unvisited, Indices

LEMMA LeaveMeant ==
  ASSUME Inv, OutcomesMeant, NEW outcome, Leave(outcome), Same(outcome, Meant[Top.index])
  PROVE  OutcomesMeant'
<1>1. /\ UNCHANGED <<assigns, base, deps>> /\ Meant' = Meant /\ Indices' = Indices
      /\ states' = [states EXCEPT ![Top.index] = outcome]
      /\ Top.index \in Indices
      /\ DOMAIN states = Indices
  BY TopFrame DEF Leave, Meant, Indices, Inv, TypeOK
<1>2. \A i \in Indices : states'[i] = IF i = Top.index THEN outcome ELSE states[i]
  BY <1>1
<1>3. \A i \in Indices : Resolved(i)' => Same(states'[i], Meant[i])
  BY <1>2 DEF OutcomesMeant, Resolved
<1>4. QED
  BY <1>1, <1>3 DEF OutcomesMeant

LEMMA NextMeant == Inv /\ OutcomesMeant /\ [Next]_vars => OutcomesMeant'
<1> SUFFICES ASSUME Inv, OutcomesMeant, [Next]_vars
             PROVE  OutcomesMeant'
  OBVIOUS
<1>0. TypeOK /\ Len(stack) \in Nat
  BY Frames DEF Inv
<1>1. CASE UNCHANGED <<assigns, base, deps, states>>
  BY <1>1 DEF OutcomesMeant, Meant, Indices, Resolved
<1>2. ASSUME NEW i \in Indices, states[i] = Unvisited,
             states' = [states EXCEPT ![i] = Visiting], UNCHANGED <<assigns, base, deps>>
      PROVE  OutcomesMeant'
  <2>1. \A j \in Indices : states'[j] = IF j = i THEN Visiting ELSE states[j]
    BY <1>0, <1>2 DEF TypeOK
  <2>2. Meant' = Meant /\ Indices' = Indices
    BY <1>2 DEF Meant, Indices
  <2>3. QED
    BY <1>2, <2>1, <2>2 DEF OutcomesMeant, Resolved, Visiting
<1>3. CASE Start
  <2>1. root \in Indices
    BY <1>0, <1>3 DEF Start, TypeOK, Indices, Count
  <2>2. QED
    BY <1>2, <1>3, <2>1 DEF Start
<1>4. CASE Push
  <2>1. Target \in Indices
    BY <1>0, <1>4, TopFrame DEF Push, Pending, Indices, Count, TypeOK
  <2>2. QED
    BY <1>2, <1>4, <2>1 DEF Push
<1>5. CASE Cycle
  <2>1. \A k \in 1 .. Len(stack) : IsCyclic(Meant[stack[k].index])
    BY <1>5, CycleMeant
  <2>2. /\ UNCHANGED <<assigns, base, deps>> /\ Meant' = Meant /\ Indices' = Indices
        /\ DOMAIN states = Indices
    BY <1>0, <1>5 DEF Cycle, Meant, Indices, TypeOK
  <2>3. ASSUME NEW i \in Indices, Resolved(i)'
        PROVE  Same(states'[i], Meant[i])
    <3>1. CASE \E k \in 1 .. Len(stack) : stack[k].index = i
      <4>1. states'[i] = Error("cyclic", Target)
        BY <1>5, <2>2, <3>1 DEF Cycle
      <4>2. QED
        BY <2>1, <3>1, <4>1 DEF Same, Error, IsCyclic
    <3>2. CASE ~ \E k \in 1 .. Len(stack) : stack[k].index = i
      <4>1. states'[i] = states[i]
        BY <1>5, <2>2, <3>2 DEF Cycle
      <4>2. QED
        BY <2>3, <4>1 DEF OutcomesMeant, Resolved
    <3>3. QED
      BY <3>1, <3>2
  <2>4. QED
    BY <2>2, <2>3 DEF OutcomesMeant
<1>6. CASE Propagate
  <2>1. PICK i \in Indices : i = Top.index
    BY <1>0, <1>6, TopFrame DEF Propagate, Pending
  <2>2. PICK k \in DOMAIN deps[i] : k = Top.next /\ deps[i][k].target = Target
    BY <1>0, <1>6, <2>1, TopFrame DEF Propagate, Pending, Target, TypeOK, DepsOK
  <2>3. Target # 0 /\ states[Target].kind = "error" /\ Leave(states[Target])
    BY <1>6 DEF Propagate, Pending, Leave
  <2>4. Len(stack) \in 1 .. Len(stack) /\ Top = stack[Len(stack)]
    BY <1>0, <2>3, TopFrame DEF Leave, Top
  <2>5. ValuesBefore(deps, i, k, states)
    BY <2>1, <2>2, <2>4, PassedMeant DEF ValuesBefore
  <2>6. DOMAIN deps[i] \in SUBSET Nat
    BY <1>0 DEF TypeOK, DepsOK
  <2>7. Evaluate(assigns, deps, base, i, states) = states[Target]
    BY <2>2, <2>3, <2>5, <2>6, EvaluateStops
  <2>8. ASSUME NEW q \in DOMAIN deps[i], deps[i][q].target # 0,
               ValuesBefore(deps, i, q, states)
        PROVE  Resolved(deps[i][q].target)
    <3>1. q <= k
      BY <2>2, <2>3, <2>6, <2>8 DEF ValuesBefore
    <3>2. QED
      BY <2>2, <2>3, <2>5, <2>6, <2>8, <3>1 DEF ValuesBefore, Resolved
  <2>9. Same(states[Target], Meant[i])
    BY <2>7, <2>8, EvaluateMeant
  <2>10. QED
    BY <2>1, <2>3, <2>9, LeaveMeant
<1>7. CASE EvaluateTop
  <2>1. PICK i \in Indices : i = Top.index
    BY <1>0, <1>7, TopFrame DEF EvaluateTop
  <2>2. PICK outcome : outcome = Evaluate(assigns, deps, base, i, states)
    OBVIOUS
  <2>3. Leave(outcome)
    BY <1>7, <2>1, <2>2 DEF EvaluateTop, Leave
  <2>4. /\ Len(stack) \in 1 .. Len(stack) /\ Top = stack[Len(stack)]
        /\ Top.next > Len(deps[i])
        /\ DOMAIN deps[i] = 1 .. Len(deps[i])
    BY <1>0, <1>7, <2>1, TopFrame DEF EvaluateTop, Pending, Top, TypeOK, DepsOK
  <2>5. \A q \in DOMAIN deps[i] : deps[i][q].target # 0 => Resolved(deps[i][q].target)
    <3>1. Busy /\ Len(deps[i]) \in Nat /\ Top.next \in Nat
      BY <1>0, <1>7, <2>1, TopFrame DEF EvaluateTop
    <3>2. \A q \in DOMAIN deps[i] : q < Top.next
      BY <2>4, <3>1
    <3>3. \A q \in DOMAIN deps[i] :
             deps[i][q].target # 0 => states[deps[i][q].target].kind = "value"
      BY <2>1, <2>4, <3>2, PassedMeant
    <3>4. QED
      BY <3>3 DEF Resolved
  <2>6. Same(outcome, Meant[i])
    BY <2>2, <2>5, EvaluateMeant
  <2>7. QED
    BY <2>1, <2>3, <2>6, LeaveMeant
<1>8. QED
  BY <1>1, <1>3, <1>4, <1>5, <1>6, <1>7 DEF Next, NextRoot, Skip, Terminated, vars

\* Whenever resolve_all has an outcome for an assignment, it is the one that
\* the source means, wherever the search came from: its value, or the error
\* of its own or of the first of its dependencies that has one.
THEOREM ResolvedIsRight == Spec => []ResolvedRight
<1>1. Spec => [](Inv /\ OutcomesMeant)
  BY InitInv, NextInv, InitMeant, NextMeant, PTL DEF Spec
<1>2. Inv /\ OutcomesMeant => ResolvedRight
  <2>1. SUFFICES ASSUME Inv, OutcomesMeant, Done, NEW i \in Indices
                 PROVE  Same(states[i], Outcomes(assigns, base)[i])
    BY DEF ResolvedRight
  <2>2. Resolved(i)
    BY <2>1 DEF Inv, Done, TypeOK, RootsResolved, Indices, Count
  <2>3. QED
    BY <2>1, <2>2 DEF OutcomesMeant, Meant
<1>3. QED
  BY <1>1, <1>2, PTL
=============================================================================
