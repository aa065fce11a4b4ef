---------------------------- MODULE Assembler_proofs ----------------------------
(***************************************************************************)
(* Theorems about the arm64 assembler, for every source, both formats and  *)
(* all limits.  First Layout alone: its two passes agree, the test of      *)
(* finish never fires, rows of unwind information lie apart, and so do the *)
(* addresses of sections.  Then the assembler with its symbols: it is a    *)
(* run of Layout, so that all that is proved of Layout holds of it; its    *)
(* symbols are where the second pass meets them; its assignments are       *)
(* applied in step; in ELF a branch to a symbol that can be preempted      *)
(* keeps its relocation; and wherever the linker puts sections, operands   *)
(* come out as the source has them.                                        *)
(***************************************************************************)
EXTENDS Assembler, SequenceTheorems, Expressions_proofs

-----------------------------------------------------------------------------
(* Arithmetic. *)

\* The quotient and the remainder of a division add up.
LEMMA DivisionLemma ==
    ASSUME NEW n \in Nat, NEW a \in Nat \ {0}
    PROVE  /\ n \div a \in Nat
           /\ a * (n \div a) \in Nat
           /\ n < a * (n \div a) + a
  OBVIOUS

\* checked_align_value never goes back.
LEMMA AlignUpLemma ==
    ASSUME NEW v \in Nat, NEW p \in 0 .. MaxPower
    PROVE  AlignUp(v, p) \in Nat /\ AlignUp(v, p) >= v
<1> DEFINE a == 2^p
           n == v + (a - 1)
           m == a * (n \div a)
<1>1. a \in Nat \ {0}
  BY PowersAssumption DEF a
<1>2. AlignUp(v, p) = m
  BY DEF AlignUp
<1> HIDE DEF a
<1>3. n \in Nat
  BY <1>1
<1>4. m \in Nat /\ n < m + a
  BY <1>1, <1>3, DivisionLemma
<1> HIDE DEF m
<1>5. m >= v
  BY <1>1, <1>4 DEF n
<1>6. QED
  BY <1>2, <1>4, <1>5

\* What .fill asks for is a number of bytes.
LEMMA FillLemma ==
    ASSUME NEW r \in Nat, NEW w \in Nat
    PROVE  FillBytes(r, w) \in Nat
  BY DEF FillBytes

-----------------------------------------------------------------------------
(* One statement, one section. *)

Local == ByteOps \union {"fill", "space", "align", "zerofill"}

\* The first pass.
Measurable(s, x) ==
    CASE s.op \in ByteOps   -> CanReserve(x, s.bytes)
      [] s.op = "fill"      -> CanReserve(x, FillBytes(s.repeat, s.width))
      [] s.op = "space"     -> s.bytes <= MaxSpace /\ CanGrow(x, s.bytes)
      [] s.op = "align"     -> CanReserveAlign(x, s.power)
      [] s.op = "zerofill"  -> CanZerofill(x, s.power, s.bytes)

Measured(s, x) ==
    CASE s.op \in ByteOps   -> Grow(x, s.bytes)
      [] s.op = "fill"      -> Grow(x, FillBytes(s.repeat, s.width))
      [] s.op = "space"     -> Grow(x, s.bytes)
      [] s.op = "align"     -> ReserveAlign(x, s.power, s.skip)
      [] s.op = "zerofill"  -> ReserveZerofill(x, s.power, s.bytes)

\* The second.
Emitted(s, x) ==
    CASE s.op \in ByteOps   -> Emit(x, s.bytes)
      [] s.op = "fill"      -> Emit(x, FillBytes(s.repeat, s.width))
      [] s.op = "space"     -> EmitSpace(x, s.bytes)
      [] s.op = "align"     -> EmitAlign(x, s.power, s.fill, s.skip)
      [] s.op = "zerofill"  -> EmitZerofill(x, s.power, s.bytes)

\* What the first pass makes of a section: the same, no smaller, and aligned
\* no worse.
Later(x, y) == /\ y.name = x.name
               /\ y.kind = x.kind
               /\ y.align >= x.align
               /\ y.size >= x.size

\* The steps all of them are made of.
LEMMA RaiseLemma ==
    ASSUME NEW x \in Section, NEW p \in 0 .. MaxPower
    PROVE  /\ Raise(x, p) \in Section
           /\ Raise(x, p).name = x.name /\ Raise(x, p).kind = x.kind
           /\ Raise(x, p).size = x.size /\ Raise(x, p).len = x.len
           /\ Raise(x, p).align = IF x.align < p THEN p ELSE x.align
           /\ Raise(x, p).align >= x.align
  BY DEF Raise, Section

LEMMA SizeLemma ==
    ASSUME NEW x \in Section, NEW n \in Nat
    PROVE  /\ [x EXCEPT !.size = n] \in Section
           /\ [x EXCEPT !.size = n].name = x.name
           /\ [x EXCEPT !.size = n].kind = x.kind
           /\ [x EXCEPT !.size = n].size = n
           /\ [x EXCEPT !.size = n].align = x.align
           /\ [x EXCEPT !.size = n].len = x.len
  BY DEF Section

LEMMA GrowLemma ==
    ASSUME NEW x \in Section, NEW n \in Nat
    PROVE  /\ Grow(x, n) \in Section
           /\ Grow(x, n).name = x.name /\ Grow(x, n).kind = x.kind
           /\ Grow(x, n).align = x.align
           /\ Grow(x, n).size = x.size + n /\ Grow(x, n).len = x.len
  BY DEF Grow, Section

LEMMA EmitLemma ==
    ASSUME NEW x \in Section, NEW n \in Nat
    PROVE  /\ Emit(x, n) \in Section
           /\ Emit(x, n).name = x.name /\ Emit(x, n).kind = x.kind
           /\ Emit(x, n).align = x.align
           /\ Emit(x, n).size = x.size + n /\ Emit(x, n).len = x.len + n
  BY GrowLemma DEF Emit, Section

\* A section with as many bytes as it says: none in a zero-fill section.
Filled(x) == x.len = IF x.kind = "zerofill" THEN 0 ELSE x.size

LEMMA EmitSpaceLemma ==
    ASSUME NEW x \in Section, NEW n \in Nat
    PROVE  /\ EmitSpace(x, n) \in Section
           /\ EmitSpace(x, n).name = x.name /\ EmitSpace(x, n).kind = x.kind
           /\ EmitSpace(x, n).align = x.align
           /\ EmitSpace(x, n).size = x.size + n
           /\ Filled(x) => Filled(EmitSpace(x, n))
<1>1. CASE x.kind = "zerofill"
  BY <1>1, GrowLemma DEF EmitSpace, Filled
<1>2. CASE x.kind # "zerofill"
  <2>1. EmitSpace(x, n) = Emit(x, n)
    BY <1>2 DEF EmitSpace
  <2>2. QED
    BY <1>2, <2>1, EmitLemma DEF Filled
<1>3. QED
  BY <1>1, <1>2

\* Whatever the padding is made of, it is as long as it should be.
LEMMA EmitPaddingLemma ==
    ASSUME NEW x \in Section, NEW n \in Nat, NEW fill
    PROVE  /\ EmitPadding(x, n, fill) \in Section
           /\ EmitPadding(x, n, fill).name = x.name
           /\ EmitPadding(x, n, fill).kind = x.kind
           /\ EmitPadding(x, n, fill).align = x.align
           /\ EmitPadding(x, n, fill).size = x.size + n
           /\ Filled(x) => Filled(EmitPadding(x, n, fill))
<1>1. CASE x.kind = "text" /\ ~fill
  <2> DEFINE toWord == (4 - (x.size % 4)) % 4
             zeros  == IF toWord < n THEN toWord ELSE n
             rest   == n - zeros
             y      == EmitSpace(x, zeros)
             z      == Emit(y, 4 * (rest \div 4))
  <2>1. x.size \in Nat
    BY DEF Section
  <2>2. toWord \in Nat
    BY <2>1
  <2>3. zeros \in Nat /\ rest \in Nat /\ zeros + rest = n
    BY <2>2
  <2>4. /\ 4 * (rest \div 4) \in Nat
        /\ rest % 4 \in Nat
        /\ 4 * (rest \div 4) + (rest % 4) = rest
    BY <2>3
  <2>5. EmitPadding(x, n, fill) = EmitSpace(z, rest % 4)
    BY <1>1 DEF EmitPadding
  <2> HIDE DEF toWord, zeros, rest
  <2>6. /\ y \in Section /\ y.name = x.name /\ y.kind = x.kind
        /\ y.align = x.align /\ y.size = x.size + zeros
        /\ Filled(x) => Filled(y)
    BY <2>3, EmitSpaceLemma
  <2> HIDE DEF y
  <2>7. /\ z \in Section /\ z.name = x.name /\ z.kind = x.kind
        /\ z.align = x.align /\ z.size = x.size + zeros + 4 * (rest \div 4)
        /\ z.len = y.len + 4 * (rest \div 4)
    BY <2>4, <2>6, EmitLemma DEF Section
  <2>8. Filled(x) => Filled(z)
    BY <1>1, <2>4, <2>6, <2>7 DEF Filled, Section
  <2> HIDE DEF z
  <2>9. /\ EmitSpace(z, rest % 4) \in Section
        /\ EmitSpace(z, rest % 4).name = x.name
        /\ EmitSpace(z, rest % 4).kind = x.kind
        /\ EmitSpace(z, rest % 4).align = x.align
        /\ EmitSpace(z, rest % 4).size = z.size + (rest % 4)
        /\ Filled(x) => Filled(EmitSpace(z, rest % 4))
    BY <2>4, <2>7, <2>8, EmitSpaceLemma
  <2>10. z.size + (rest % 4) = x.size + n
    BY <2>1, <2>3, <2>4, <2>7
  <2>11. QED
    BY <2>5, <2>9, <2>10
<1>2. CASE ~(x.kind = "text" /\ ~fill)
  BY <1>2, EmitSpaceLemma DEF EmitPadding
<1>3. QED
  BY <1>1, <1>2

\* Both passes of .zerofill: align, then grow.
LEMMA ZerofillLemma ==
    ASSUME NEW x \in Section, NEW p \in 0 .. MaxPower, NEW n \in Nat,
           NEW z, z = ReserveZerofill(x, p, n) \/ z = EmitZerofill(x, p, n)
    PROVE  /\ z \in Section
           /\ z.name = x.name /\ z.kind = x.kind /\ z.len = x.len
           /\ z.size = AlignUp(x.size, p) + n
           /\ z.align = IF x.align < p THEN p ELSE x.align
           /\ z.align >= x.align
<1>1. p \in Nat /\ x.size \in Nat
  BY DEF Section, MaxPower
<1>2. PICK m \in Nat : m = AlignUp(x.size, p)
  BY <1>1, AlignUpLemma
<1>3. PICK r \in Section : r = Raise(x, p)
  BY <1>1, RaiseLemma
<1>4. /\ r.name = x.name /\ r.kind = x.kind /\ r.len = x.len /\ r.size = x.size
      /\ r.align = IF x.align < p THEN p ELSE x.align
      /\ r.align >= x.align
  BY <1>1, <1>3, RaiseLemma
<1>5. PICK u \in Section : u = [r EXCEPT !.size = m]
  BY SizeLemma
<1>6. /\ u.name = x.name /\ u.kind = x.kind /\ u.len = x.len
      /\ u.size = m /\ u.align = r.align
  BY <1>4, <1>5, SizeLemma
<1>7. z = Grow(u, n)
  BY <1>2, <1>3, <1>4, <1>5 DEF ReserveZerofill, EmitZerofill
<1>8. /\ z \in Section
      /\ z.name = u.name /\ z.kind = u.kind /\ z.len = u.len
      /\ z.align = u.align
      /\ z.size = u.size + n
  BY <1>7, GrowLemma
<1>9. z.size = AlignUp(x.size, p) + n
  BY <1>2, <1>6, <1>8
<1>10. QED
  BY <1>4, <1>6, <1>8, <1>9

\* The first pass keeps a section's identity and never lowers its alignment.
LEMMA MeasuredLemma ==
    ASSUME NEW s, IsStatement(s), s.op \in Local, NEW x \in Section, Measurable(s, x)
    PROVE  Measured(s, x) \in Section /\ Later(x, Measured(s, x))
<1>1. CASE s.op \in ByteOps
  BY <1>1, GrowLemma DEF ByteOps, Measured, IsStatement, Section, Later
<1>2. CASE s.op = "fill"
  BY <1>2, FillLemma, GrowLemma DEF ByteOps, Measured, IsStatement, Section, Later
<1>3. CASE s.op = "space"
  BY <1>3, GrowLemma DEF ByteOps, Measured, IsStatement, Section, Later
<1>4. CASE s.op = "align"
  <2> DEFINE n == AlignUp(x.size, s.power)
             r == Raise(x, s.power)
  <2>1. s.power \in 0 .. MaxPower /\ s.power \in Nat /\ s.skip \in Nat
    BY <1>4 DEF ByteOps, Measurable, CanReserveAlign, IsStatement, MaxPower
  <2>2. n \in Nat /\ n >= x.size
    BY <2>1, AlignUpLemma DEF Section
  <2>3. \/ Measured(s, x) = r
        \/ Measured(s, x) = [r EXCEPT !.size = n]
    BY <1>4 DEF ByteOps, Measured, ReserveAlign
  <2>4. r \in Section /\ r.size = x.size /\ Later(x, r)
    <3>1. x.size \in Nat
      BY DEF Section
    <3>2. QED
      BY <2>1, <3>1, RaiseLemma DEF Later
  <2> HIDE DEF n, r
  <2>5. [r EXCEPT !.size = n] \in Section /\ Later(x, [r EXCEPT !.size = n])
    BY <2>2, <2>4, SizeLemma DEF Later
  <2>6. QED
    BY <2>3, <2>4, <2>5
<1>5. CASE s.op = "zerofill"
  <2>1. s.power \in 0 .. MaxPower /\ s.bytes \in Nat
    BY <1>5 DEF ByteOps, Measurable, CanZerofill, IsStatement, MaxPower
  <2>2. Measured(s, x) = ReserveZerofill(x, s.power, s.bytes)
    BY <1>5 DEF ByteOps, Measured
  <2>3. AlignUp(x.size, s.power) \in Nat /\ AlignUp(x.size, s.power) >= x.size /\ x.size \in Nat
    BY <2>1, AlignUpLemma DEF Section
  <2>4. PICK z : z = Measured(s, x)
    OBVIOUS
  <2>5. /\ z \in Section
        /\ z.name = x.name /\ z.kind = x.kind
        /\ z.size = AlignUp(x.size, s.power) + s.bytes
        /\ z.align >= x.align
    BY <2>1, <2>2, <2>4, ZerofillLemma
  <2>6. z.size >= x.size
    BY <2>1, <2>3, <2>5
  <2>7. QED
    BY <2>4, <2>5, <2>6 DEF Later
<1>6. QED
  BY <1>1, <1>2, <1>3, <1>4, <1>5 DEF Local

\* On a section of the same kind and size, the second pass has room for the
\* statement and ends at the same size; the alignment was known before.
LEMMA EmittedLemma ==
    ASSUME NEW s, IsStatement(s), s.op \in Local,
           NEW x \in Section, Measurable(s, x),
           NEW y \in Section, y.kind = x.kind, y.size = x.size,
           y.align >= Measured(s, x).align, Filled(y)
    PROVE  /\ Measurable(s, y)
           /\ Emitted(s, y) \in Section
           /\ Emitted(s, y).name = y.name
           /\ Emitted(s, y).kind = y.kind
           /\ Emitted(s, y).align = y.align
           /\ Emitted(s, y).size = Measured(s, x).size
           /\ Filled(Emitted(s, y))
<1>0. Measurable(s, y)
  BY DEF Measurable, CanReserve, CanGrow, CanReserveAlign, CanZerofill, ByteOps, Local
<1>1. ASSUME NEW n \in Nat, x.kind # "zerofill",
             Measured(s, x) = Grow(x, n), Emitted(s, y) = Emit(y, n)
      PROVE  /\ Emitted(s, y) \in Section
             /\ Emitted(s, y).name = y.name
             /\ Emitted(s, y).kind = y.kind
             /\ Emitted(s, y).align = y.align
             /\ Emitted(s, y).size = Measured(s, x).size
             /\ Filled(Emitted(s, y))
  <2>1. /\ Emit(y, n) \in Section
        /\ Emit(y, n).name = y.name /\ Emit(y, n).kind = y.kind
        /\ Emit(y, n).align = y.align
        /\ Emit(y, n).size = x.size + n /\ Emit(y, n).len = y.len + n
    BY <1>1, EmitLemma
  <2>2. Grow(x, n).size = x.size + n
    BY <1>1, GrowLemma
  <2>3. y.len = x.size
    BY <1>1 DEF Filled
  <2>4. QED
    BY <1>1, <2>1, <2>2, <2>3 DEF Filled
<1>2. CASE s.op \in ByteOps
  <2>1. /\ s.bytes \in Nat /\ x.kind # "zerofill"
        /\ Measured(s, x) = Grow(x, s.bytes)
        /\ Emitted(s, y) = Emit(y, s.bytes)
    BY <1>2 DEF IsStatement, ByteOps, Measured, Emitted, Measurable, CanReserve
  <2>2. QED
    BY <1>0, <1>1, <2>1
<1>3. CASE s.op = "fill"
  <2>1. /\ FillBytes(s.repeat, s.width) \in Nat /\ x.kind # "zerofill"
        /\ Measured(s, x) = Grow(x, FillBytes(s.repeat, s.width))
        /\ Emitted(s, y) = Emit(y, FillBytes(s.repeat, s.width))
    BY <1>3, FillLemma
       DEF IsStatement, ByteOps, Measured, Emitted, Measurable, CanReserve
  <2>2. QED
    BY <1>0, <1>1, <2>1
<1>4. CASE s.op = "space"
  <2>1. PICK n \in Nat : n = s.bytes
    BY <1>4 DEF IsStatement, ByteOps
  <2>2. Measured(s, x) = Grow(x, n) /\ Emitted(s, y) = EmitSpace(y, n)
    BY <1>4, <2>1 DEF ByteOps, Measured, Emitted
  <2>3. Grow(x, n).size = x.size + n
    BY GrowLemma
  <2>4. QED
    BY <1>0, <2>2, <2>3, EmitSpaceLemma
<1>5. CASE s.op = "align"
  <2> DEFINE n == AlignUp(x.size, s.power)
             r == Raise(x, s.power)
             q == Raise(y, s.power)
  <2>1. s.power \in 0 .. MaxPower /\ s.power \in Nat /\ s.skip \in Nat
    BY <1>5 DEF ByteOps, Measurable, CanReserveAlign, IsStatement, MaxPower
  <2>2. n \in Nat /\ n >= x.size /\ x.size \in Nat
    BY <2>1, AlignUpLemma DEF Section
  <2>3. Measured(s, x) = IF n - x.size > s.skip THEN r ELSE [r EXCEPT !.size = n]
    BY <1>5 DEF ByteOps, Measured, ReserveAlign
  <2>4. Emitted(s, y) = IF n - x.size > s.skip THEN q
                        ELSE EmitPadding(q, n - x.size, s.fill)
    BY <1>5 DEF ByteOps, Emitted, EmitAlign
  <2>5. /\ r \in Section /\ r.size = x.size
        /\ r.align = IF x.align < s.power THEN s.power ELSE x.align
    BY <2>1, RaiseLemma
  <2>6. /\ q \in Section /\ q.name = y.name /\ q.kind = y.kind
        /\ q.size = x.size /\ q.len = y.len
        /\ q.align = IF y.align < s.power THEN s.power ELSE y.align
    BY <2>1, RaiseLemma
  <2> HIDE DEF r, q
  <2>7. /\ [r EXCEPT !.size = n].align = r.align
        /\ [r EXCEPT !.size = n].size = n
    BY <2>2, <2>5, SizeLemma
  <2> HIDE DEF n
  <2>8. q.align = y.align
    BY <2>1, <2>3, <2>5, <2>6, <2>7 DEF Section
  <2>9. Filled(q)
    BY <2>6 DEF Filled
  <2>10. /\ n - x.size \in Nat
         /\ x.size + (n - x.size) = n
    BY <2>2
  <2>11. /\ EmitPadding(q, n - x.size, s.fill) \in Section
         /\ EmitPadding(q, n - x.size, s.fill).name = y.name
         /\ EmitPadding(q, n - x.size, s.fill).kind = y.kind
         /\ EmitPadding(q, n - x.size, s.fill).align = y.align
         /\ EmitPadding(q, n - x.size, s.fill).size = n
         /\ Filled(EmitPadding(q, n - x.size, s.fill))
    BY <2>6, <2>8, <2>9, <2>10, EmitPaddingLemma
  <2>12. QED
    BY <1>0, <2>3, <2>4, <2>5, <2>6, <2>7, <2>8, <2>9, <2>11
<1>6. CASE s.op = "zerofill"
  <2>1. s.power \in 0 .. MaxPower /\ s.bytes \in Nat /\ x.kind = "zerofill"
    BY <1>6 DEF ByteOps, Measurable, CanZerofill, IsStatement, MaxPower
  <2>2. PICK u : u = Measured(s, x)
    OBVIOUS
  <2>3. PICK v : v = Emitted(s, y)
    OBVIOUS
  <2>4. /\ u = ReserveZerofill(x, s.power, s.bytes)
        /\ v = EmitZerofill(y, s.power, s.bytes)
    BY <1>6, <2>2, <2>3 DEF ByteOps, Measured, Emitted
  <2>5. /\ u.size = AlignUp(x.size, s.power) + s.bytes
        /\ u.align = IF x.align < s.power THEN s.power ELSE x.align
    BY <2>1, <2>4, ZerofillLemma
  <2>6. /\ v \in Section
        /\ v.name = y.name /\ v.kind = y.kind /\ v.len = y.len
        /\ v.size = AlignUp(x.size, s.power) + s.bytes
        /\ v.align = IF y.align < s.power THEN s.power ELSE y.align
    BY <2>1, <2>4, ZerofillLemma
  <2>7. y.align >= u.align
    BY <2>2
  <2>8. v.align = y.align
    BY <2>1, <2>5, <2>6, <2>7 DEF Section
  <2>9. Filled(v)
    BY <2>1, <2>6 DEF Filled
  <2>10. QED
    BY <1>0, <2>2, <2>3, <2>5, <2>6, <2>8, <2>9
<1>7. QED
  BY <1>2, <1>3, <1>4, <1>5, <1>6 DEF Local

-----------------------------------------------------------------------------
(* One statement, the whole table. *)

Extends(t, u) == /\ Len(t) <= Len(u)
                 /\ \A i \in 1 .. Len(t) : Later(t[i], u[i])

Unique(t) == \A i, j \in 1 .. Len(t) : t[i].name = t[j].name => i = j

LEMMA ReplaceLemma ==
    ASSUME NEW l \in Layouts, NEW i \in 1 .. Len(l.sections), NEW e \in Section
    PROVE  /\ Replace(l, i, e) \in Layouts
           /\ Replace(l, i, e).section = l.section
           /\ Len(Replace(l, i, e).sections) = Len(l.sections)
           /\ \A j \in 1 .. Len(l.sections) :
                 Replace(l, i, e).sections[j] = IF j = i THEN e ELSE l.sections[j]
<1>1. l.sections \in Seq(Section) /\ l.section \in Nat
  BY DEF Layouts
<1>2. PICK t : t = [l.sections EXCEPT ![i] = e]
  OBVIOUS
<1>3. /\ t \in Seq(Section)
      /\ Len(t) = Len(l.sections)
      /\ \A j \in 1 .. Len(l.sections) : t[j] = IF j = i THEN e ELSE l.sections[j]
  BY <1>1, <1>2, ExceptSeq
<1>4. Replace(l, i, e) = [section |-> l.section, sections |-> t]
  BY <1>2 DEF Replace, Layouts
<1>5. QED
  BY <1>1, <1>3, <1>4 DEF Layouts

LEMMA NewSectionLemma ==
    ASSUME NEW n \in SectionNames, NEW k \in Kinds
    PROVE  /\ NewSection(n, k) \in Section
           /\ NewSection(n, k).name = n
           /\ NewSection(n, k).size = 0
  BY DEF NewSection, Section, MaxPower

LEMMA LaterReflexive ==
    ASSUME NEW x \in Section
    PROVE  Later(x, x)
  BY DEF Later, Section

\* A section that is there keeps its place; a new one comes last.
LEMMA EnsureLemma ==
    ASSUME NEW t, NEW n, NEW k, NEW u, u = Ensure(t, n, k),
           t \in Seq(Section), Unique(t), n \in SectionNames, k \in Kinds
    PROVE  /\ u \in Seq(Section) /\ Unique(u) /\ Extends(t, u)
           /\ \A i \in 1 .. Len(t) : u[i] = t[i]
           /\ \A i \in 1 .. Len(u) : i > Len(t) => u[i].size = 0
           /\ IndexOf(u, n) \in 1 .. Len(u)
           /\ u[IndexOf(u, n)].name = n
<1>1. \A i \in 1 .. Len(t) : t[i] \in Section /\ Later(t[i], t[i])
  BY LaterReflexive
<1>2. CASE Has(t, n)
  <2>1. u = t
    BY <1>2 DEF Ensure
  <2>2. IndexOf(u, n) \in 1 .. Len(u) /\ u[IndexOf(u, n)].name = n
    BY <1>2, <2>1 DEF Has, IndexOf
  <2>3. QED
    BY <1>1, <2>1, <2>2 DEF Extends
<1>3. CASE ~Has(t, n)
  <2>1. PICK e \in Section : e = NewSection(n, k) /\ e.name = n /\ e.size = 0
    BY NewSectionLemma
  <2>2. u = Append(t, e)
    BY <1>3, <2>1 DEF Ensure
  <2>3. /\ u \in Seq(Section)
        /\ Len(u) = Len(t) + 1 /\ Len(t) \in Nat
        /\ \A i \in 1 .. Len(t) : u[i] = t[i]
        /\ u[Len(t) + 1] = e
    BY <2>1, <2>2
  <2>4. \A i \in 1 .. Len(u) : i \in 1 .. Len(t) \/ i = Len(t) + 1
    BY <2>3
  <2>5. \A i \in 1 .. Len(t) : u[i].name # n
    BY <1>3, <2>3 DEF Has
  <2>6. Unique(u)
    BY <2>1, <2>3, <2>4, <2>5 DEF Unique
  <2>7. IndexOf(u, n) \in 1 .. Len(u) /\ u[IndexOf(u, n)].name = n
    BY <2>1, <2>3 DEF IndexOf
  <2>8. Extends(t, u)
    BY <1>1, <2>3 DEF Extends
  <2>9. QED
    BY <2>1, <2>3, <2>4, <2>6, <2>7, <2>8
<1>4. QED
  BY <1>2, <1>3

-----------------------------------------------------------------------------
(* One statement, both passes. *)

Quiet == SymbolOps \union {"startproc", "cfi", "endproc"}

\* The table a statement works on, and the section it works on.
Opened(s, l) == IF s.op = "zerofill" THEN Open(l, s.name, s.kind) ELSE l
Target(s, l) == IF s.op = "zerofill" THEN IndexOf(Opened(s, l).sections, s.name)
                ELSE l.section

FirstPass(s, a, b) ==
    \/ s.op \in Quiet /\ b = a
    \/ s.op = "section" /\ b = Switch(a, s.name, s.kind)
    \/ /\ s.op \in Local
       /\ Measurable(s, Opened(s, a).sections[Target(s, a)])
       /\ b = Replace(Opened(s, a), Target(s, a),
                      Measured(s, Opened(s, a).sections[Target(s, a)]))

SecondPass(s, a, b) ==
    \/ s.op \in Quiet /\ b = a
    \/ s.op = "section" /\ b = Switch(a, s.name, s.kind)
    \/ /\ s.op \in Local
       /\ b = Replace(Opened(s, a), Target(s, a),
                      Emitted(s, Opened(s, a).sections[Target(s, a)]))

LEMMA OpenedLemma ==
    ASSUME NEW s, IsStatement(s), s.op \in Local,
           NEW a \in Layouts, Unique(a.sections)
    PROVE  /\ Opened(s, a) \in Layouts
           /\ Opened(s, a).section = a.section
           /\ Unique(Opened(s, a).sections)
           /\ Extends(a.sections, Opened(s, a).sections)
           /\ Target(s, a) \in 1 .. Len(Opened(s, a).sections)
           /\ \A i \in 1 .. Len(a.sections) : Opened(s, a).sections[i] = a.sections[i]
           /\ \A i \in 1 .. Len(Opened(s, a).sections) :
                 i > Len(a.sections) => Opened(s, a).sections[i].size = 0
<1>1. a.sections \in Seq(Section) /\ a.section \in 1 .. Len(a.sections)
      /\ a.section \in Nat
  BY DEF Layouts
<1>2. CASE s.op = "zerofill"
  <2>1. s.name \in SectionNames /\ s.kind \in Kinds
    BY <1>2 DEF IsStatement
  <2>2. PICK u : u = Ensure(a.sections, s.name, s.kind)
    OBVIOUS
  <2>3. /\ u \in Seq(Section) /\ Unique(u) /\ Extends(a.sections, u)
        /\ \A i \in 1 .. Len(a.sections) : u[i] = a.sections[i]
        /\ \A i \in 1 .. Len(u) : i > Len(a.sections) => u[i].size = 0
        /\ IndexOf(u, s.name) \in 1 .. Len(u)
    BY <1>1, <2>1, <2>2, EnsureLemma
  <2>4. Opened(s, a) = [section |-> a.section, sections |-> u]
    BY <1>2, <2>2 DEF Opened, Open, Layouts
  <2>5. Target(s, a) = IndexOf(u, s.name)
    BY <1>2, <2>4 DEF Target
  <2>6. a.section \in 1 .. Len(u)
    BY <1>1, <2>3 DEF Extends
  <2>7. Opened(s, a) \in Layouts
    BY <1>1, <2>3, <2>4, <2>6 DEF Layouts
  <2>8. QED
    BY <2>3, <2>4, <2>5, <2>7
<1>3. CASE s.op # "zerofill"
  <2>1. Opened(s, a) = a /\ Target(s, a) = a.section
    BY <1>3 DEF Opened, Target
  <2>2. \A i \in 1 .. Len(a.sections) : Later(a.sections[i], a.sections[i])
    BY <1>1, LaterReflexive
  <2>3. QED
    BY <1>1, <2>1, <2>2 DEF Extends
<1>4. QED
  BY <1>2, <1>3

LEMMA SwitchLemma ==
    ASSUME NEW s, IsStatement(s), s.op = "section",
           NEW a \in Layouts, Unique(a.sections),
           NEW b, b = Switch(a, s.name, s.kind)
    PROVE  /\ b \in Layouts
           /\ Unique(b.sections)
           /\ Extends(a.sections, b.sections)
           /\ b.sections[b.section].name = s.name
           /\ \A i \in 1 .. Len(a.sections) : b.sections[i] = a.sections[i]
           /\ \A i \in 1 .. Len(b.sections) : i > Len(a.sections) => b.sections[i].size = 0
<1>1. s.name \in SectionNames /\ s.kind \in Kinds /\ a.sections \in Seq(Section)
  BY DEF IsStatement, Layouts
<1>2. PICK u : u = Ensure(a.sections, s.name, s.kind)
  OBVIOUS
<1>3. /\ u \in Seq(Section) /\ Unique(u) /\ Extends(a.sections, u)
      /\ \A i \in 1 .. Len(a.sections) : u[i] = a.sections[i]
      /\ \A i \in 1 .. Len(u) : i > Len(a.sections) => u[i].size = 0
      /\ IndexOf(u, s.name) \in 1 .. Len(u)
      /\ u[IndexOf(u, s.name)].name = s.name
  BY <1>1, <1>2, EnsureLemma
<1>4. b = [section |-> IndexOf(u, s.name), sections |-> u]
  BY <1>2 DEF Switch
<1>5. b \in Layouts
  BY <1>3, <1>4 DEF Layouts
<1>6. QED
  BY <1>3, <1>4, <1>5

\* Alignment grows along the first pass.
LEMMA LaterTransitive ==
    ASSUME NEW x \in Section, NEW y \in Section, NEW z \in Section,
           Later(x, y), Later(y, z)
    PROVE  Later(x, z)
  BY DEF Later, Section

LEMMA ExtendsTransitive ==
    ASSUME NEW t \in Seq(Section), NEW u \in Seq(Section), NEW v \in Seq(Section),
           Extends(t, u), Extends(u, v)
    PROVE  Extends(t, v)
<1>1. Len(t) <= Len(v)
  BY DEF Extends
<1>2. ASSUME NEW i \in 1 .. Len(t)
      PROVE  Later(t[i], v[i])
  <2>1. i \in 1 .. Len(u) /\ i \in 1 .. Len(v)
    BY <1>1 DEF Extends
  <2>2. t[i] \in Section /\ u[i] \in Section /\ v[i] \in Section
    BY <2>1
  <2>3. Later(t[i], u[i]) /\ Later(u[i], v[i])
    BY <2>1 DEF Extends
  <2>4. QED
    BY <2>2, <2>3, LaterTransitive
<1>3. QED
  BY <1>1, <1>2 DEF Extends

\* A statement of the first pass that measures bytes: the table it opens
\* grows in the one section it is about.
LEMMA MeasuredTable ==
    ASSUME NEW s, IsStatement(s), s.op \in Local,
           NEW a \in Layouts, Unique(a.sections),
           NEW b, FirstPass(s, a, b)
    PROVE  /\ b \in Layouts /\ Unique(b.sections)
           /\ Extends(Opened(s, a).sections, b.sections)
<1>1. PICK o \in Layouts : o = Opened(s, a)
  BY OpenedLemma
<1>2. PICK t \in 1 .. Len(o.sections) : t = Target(s, a)
  BY <1>1, OpenedLemma
<1>3. Unique(o.sections) /\ o.sections \in Seq(Section)
  BY <1>1, OpenedLemma DEF Layouts
<1>4. PICK x \in Section : x = o.sections[t]
  BY <1>3
<1>5. PICK e : e = Measured(s, x)
  OBVIOUS
<1>6. s.op \notin Quiet /\ s.op # "section"
  BY DEF Local, Quiet, ByteOps, SymbolOps
<1>7. Measurable(s, x) /\ b = Replace(o, t, e)
  BY <1>1, <1>2, <1>4, <1>5, <1>6 DEF FirstPass
<1>8. e \in Section /\ Later(x, e)
  BY <1>4, <1>5, <1>7, MeasuredLemma
<1>9. /\ b \in Layouts
      /\ Len(b.sections) = Len(o.sections)
      /\ \A j \in 1 .. Len(o.sections) : b.sections[j] = IF j = t THEN e ELSE o.sections[j]
  BY <1>7, <1>8, ReplaceLemma
<1>10. \A j \in 1 .. Len(o.sections) : Later(o.sections[j], b.sections[j])
  <2>1. \A j \in 1 .. Len(o.sections) : o.sections[j] \in Section
    BY <1>3
  <2>2. QED
    BY <1>4, <1>8, <1>9, <2>1, LaterReflexive
<1>11. Extends(o.sections, b.sections) /\ b.sections \in Seq(Section)
  BY <1>3, <1>9, <1>10 DEF Extends, Layouts
<1>12. \A j \in 1 .. Len(o.sections) : b.sections[j].name = o.sections[j].name
  BY <1>10 DEF Later
<1>13. Unique(b.sections)
  BY <1>3, <1>9, <1>12 DEF Unique
<1>14. QED
  BY <1>1, <1>9, <1>11, <1>13

LEMMA FirstPassLemma ==
    ASSUME NEW s, IsStatement(s), NEW a \in Layouts, Unique(a.sections),
           NEW b, FirstPass(s, a, b)
    PROVE  b \in Layouts /\ Unique(b.sections) /\ Extends(a.sections, b.sections)
<1>1. a.sections \in Seq(Section)
  BY DEF Layouts
<1>2. CASE s.op \in Quiet /\ b = a
  <2>1. \A i \in 1 .. Len(a.sections) : Later(a.sections[i], a.sections[i])
    BY <1>1, LaterReflexive
  <2>2. QED
    BY <1>1, <1>2, <2>1 DEF Extends
<1>3. CASE s.op = "section" /\ b = Switch(a, s.name, s.kind)
  BY <1>3, SwitchLemma
<1>4. CASE s.op \in Local
  <2>1. PICK o \in Layouts : o = Opened(s, a) /\ Extends(a.sections, o.sections)
    BY <1>4, OpenedLemma
  <2>2. b \in Layouts /\ Unique(b.sections) /\ Extends(o.sections, b.sections)
    BY <1>4, <2>1, MeasuredTable
  <2>3. Extends(a.sections, b.sections)
    BY <1>1, <2>1, <2>2, ExtendsTransitive DEF Layouts
  <2>4. QED
    BY <2>2, <2>3
<1>5. QED
  BY <1>2, <1>3, <1>4 DEF FirstPass

-----------------------------------------------------------------------------
(* The second pass follows the first. *)

\* In layout l of the second pass every section is known already, with the
\* identity and the alignment it has in f, the end of the first pass; what
\* it holds is what it held in layout a of the first pass.
Agree(l, a, f) ==
    /\ l.section = a.section
    /\ Len(l.sections) = Len(f.sections)
    /\ \A i \in 1 .. Len(f.sections) :
          /\ l.sections[i].name  = f.sections[i].name
          /\ l.sections[i].kind  = f.sections[i].kind
          /\ l.sections[i].align = f.sections[i].align
          /\ l.sections[i].size  = IF i <= Len(a.sections) THEN a.sections[i].size ELSE 0
          /\ Filled(l.sections[i])

\* A table of which another is an extension can be looked up in that one.
LEMMA LookupLemma ==
    ASSUME NEW l \in Layouts, NEW a \in Layouts, NEW f \in Layouts, Agree(l, a, f),
           Unique(f.sections), NEW n \in SectionNames, NEW k,
           NEW i \in 1 .. Len(f.sections), f.sections[i].name = n
    PROVE  /\ Ensure(l.sections, n, k) = l.sections
           /\ IndexOf(l.sections, n) = i
<1>1. /\ i \in 1 .. Len(l.sections)
      /\ l.sections[i].name = n
      /\ \A j \in 1 .. Len(l.sections) : l.sections[j].name = n => j = i
  BY DEF Agree, Unique
<1>2. Has(l.sections, n)
  BY <1>1 DEF Has
<1>3. QED
  BY <1>1, <1>2 DEF Ensure, IndexOf

\* Opening a section in the second pass finds the one the first pass opened.
LEMMA OpenAgrees ==
    ASSUME NEW s, IsStatement(s), s.op \in Local,
           NEW a \in Layouts, Unique(a.sections),
           NEW f \in Layouts, Unique(f.sections),
           NEW o, o = Opened(s, a), Extends(o.sections, f.sections),
           NEW l \in Layouts, Agree(l, a, f)
    PROVE  /\ Opened(s, l) = l
           /\ Target(s, l) = Target(s, a)
           /\ Agree(l, o, f)
<1>1. /\ o \in Layouts /\ o.section = a.section
      /\ Extends(a.sections, o.sections)
      /\ \A i \in 1 .. Len(a.sections) : o.sections[i] = a.sections[i]
      /\ \A i \in 1 .. Len(o.sections) : i > Len(a.sections) => o.sections[i].size = 0
  BY OpenedLemma
<1>2. Len(a.sections) \in Nat /\ Len(o.sections) \in Nat /\ Len(f.sections) \in Nat
  BY <1>1 DEF Layouts
<1>3. Len(a.sections) <= Len(o.sections) /\ Len(o.sections) <= Len(f.sections)
  BY <1>1 DEF Extends
<1>4. ASSUME NEW i \in 1 .. Len(f.sections)
      PROVE  l.sections[i].size = IF i <= Len(o.sections) THEN o.sections[i].size ELSE 0
  <2>1. CASE i \in 1 .. Len(a.sections)
    BY <1>1, <1>2, <1>3, <2>1 DEF Agree
  <2>2. CASE i \in 1 .. Len(o.sections) /\ i > Len(a.sections)
    BY <1>1, <1>2, <1>3, <2>2 DEF Agree
  <2>3. CASE i > Len(o.sections)
    BY <1>1, <1>2, <1>3, <2>3 DEF Agree
  <2>4. QED
    BY <1>2, <2>1, <2>2, <2>3
<1>5. Agree(l, o, f)
  BY <1>1, <1>4 DEF Agree
<1>6. CASE s.op = "zerofill"
  <2>1. s.name \in SectionNames /\ s.kind \in Kinds /\ a.sections \in Seq(Section)
    BY <1>6 DEF IsStatement, Layouts
  <2>2. PICK u : u = Ensure(a.sections, s.name, s.kind)
    OBVIOUS
  <2>3. IndexOf(u, s.name) \in 1 .. Len(u) /\ u[IndexOf(u, s.name)].name = s.name
    BY <2>1, <2>2, EnsureLemma
  <2>4. o.sections = u /\ Target(s, a) = IndexOf(u, s.name)
    BY <1>6, <2>2 DEF Opened, Open, Target, Layouts
  <2>5. PICK i \in 1 .. Len(u) : i = IndexOf(u, s.name) /\ u[i].name = s.name
    BY <2>3
  <2>6. i \in 1 .. Len(f.sections) /\ f.sections[i].name = s.name
    BY <1>2, <1>3, <2>4, <2>5 DEF Extends, Later
  <2>7. Ensure(l.sections, s.name, s.kind) = l.sections /\ IndexOf(l.sections, s.name) = i
    BY <2>1, <2>6, LookupLemma
  <2>8. Opened(s, l) = l
    BY <1>6, <2>7 DEF Opened, Open, Layouts
  <2>9. Target(s, l) = Target(s, a)
    BY <1>6, <2>4, <2>5, <2>7, <2>8 DEF Target
  <2>10. QED
    BY <1>5, <2>8, <2>9
<1>7. CASE s.op # "zerofill"
  BY <1>5, <1>7 DEF Opened, Target, Agree
<1>8. QED
  BY <1>6, <1>7

\* Where the first pass measured a statement, the second has the room to
\* write it, and both are in agreement again.
LEMMA SecondPassLemma ==
    ASSUME NEW s, IsStatement(s),
           NEW a \in Layouts, Unique(a.sections),
           NEW b, FirstPass(s, a, b),
           NEW f \in Layouts, Unique(f.sections), Extends(b.sections, f.sections),
           NEW l \in Layouts, Agree(l, a, f)
    PROVE  /\ s.op \in Local => Measurable(s, Opened(s, l).sections[Target(s, l)])
           /\ \A m : SecondPass(s, l, m) => m \in Layouts /\ Agree(m, b, f)
<1>1. /\ b \in Layouts /\ Unique(b.sections) /\ Extends(a.sections, b.sections)
  BY FirstPassLemma
<1>2. \A op : /\ op \in Quiet => op \notin Local /\ op # "section"
              /\ op \in Local => op # "section"
  BY DEF Quiet, Local, SymbolOps, ByteOps
<1>3. CASE s.op \in Quiet
  BY <1>2, <1>3 DEF FirstPass, SecondPass
<1>4. CASE s.op = "section"
  <2>1. b = Switch(a, s.name, s.kind)
    BY <1>2, <1>4 DEF FirstPass
  <2>2. /\ b.sections[b.section].name = s.name
        /\ \A i \in 1 .. Len(a.sections) : b.sections[i] = a.sections[i]
        /\ \A i \in 1 .. Len(b.sections) : i > Len(a.sections) => b.sections[i].size = 0
    BY <1>4, <2>1, SwitchLemma
  <2>3. /\ Len(a.sections) \in Nat /\ Len(b.sections) \in Nat /\ Len(f.sections) \in Nat
        /\ Len(a.sections) <= Len(b.sections) /\ Len(b.sections) <= Len(f.sections)
        /\ b.section \in 1 .. Len(f.sections)
        /\ b.section \in 1 .. Len(b.sections)
        /\ s.name \in SectionNames
    BY <1>1, <1>4 DEF Extends, Layouts, IsStatement
  <2>4. f.sections[b.section].name = s.name
    BY <2>2, <2>3 DEF Extends, Later
  <2>5. /\ Ensure(l.sections, s.name, s.kind) = l.sections
        /\ IndexOf(l.sections, s.name) = b.section
    <3>1. PICK i \in 1 .. Len(f.sections) : i = b.section /\ f.sections[i].name = s.name
      BY <2>3, <2>4
    <3>2. QED
      BY <2>3, <3>1, LookupLemma
  <2>6. ASSUME NEW m, SecondPass(s, l, m)
        PROVE  m \in Layouts /\ Agree(m, b, f)
    <3>1. m = Switch(l, s.name, s.kind)
      BY <1>2, <1>4, <2>6 DEF SecondPass
    <3>2. m = [section |-> b.section, sections |-> l.sections]
      BY <2>5, <3>1 DEF Switch
    <3>3. b.section \in 1 .. Len(l.sections)
      BY <2>3 DEF Agree
    <3>4. m \in Layouts
      BY <3>2, <3>3 DEF Layouts
    <3>5. ASSUME NEW i \in 1 .. Len(f.sections)
          PROVE  l.sections[i].size = IF i <= Len(b.sections) THEN b.sections[i].size ELSE 0
      <4>1. CASE i \in 1 .. Len(a.sections)
        BY <2>2, <2>3, <4>1 DEF Agree
      <4>2. CASE i \in 1 .. Len(b.sections) /\ i > Len(a.sections)
        BY <2>2, <2>3, <4>2 DEF Agree
      <4>3. CASE i > Len(b.sections)
        BY <2>2, <2>3, <4>3 DEF Agree
      <4>4. QED
        BY <2>3, <4>1, <4>2, <4>3
    <3>6. QED
      BY <3>2, <3>4, <3>5 DEF Agree
  <2>7. QED
    BY <1>2, <1>4, <2>6
<1>5. CASE s.op \in Local
  <2>1. PICK o \in Layouts : o = Opened(s, a)
    BY <1>5, OpenedLemma
  <2>2. PICK t \in 1 .. Len(o.sections) : t = Target(s, a)
    BY <1>5, <2>1, OpenedLemma
  <2>3. o.section = a.section /\ Unique(o.sections) /\ o.sections \in Seq(Section)
        /\ f.sections \in Seq(Section) /\ l.sections \in Seq(Section)
    BY <1>5, <2>1, OpenedLemma DEF Layouts
  <2>4. PICK x \in Section : x = o.sections[t]
    BY <2>3
  <2>5. PICK e : e = Measured(s, x)
    OBVIOUS
  <2>6. Measurable(s, x) /\ b = Replace(o, t, e)
    BY <1>2, <1>5, <2>1, <2>2, <2>4, <2>5 DEF FirstPass
  <2>7. e \in Section /\ Later(x, e)
    BY <1>5, <2>5, <2>6, MeasuredLemma
  <2>8. /\ b.section = o.section
        /\ Len(b.sections) = Len(o.sections)
        /\ \A j \in 1 .. Len(o.sections) : b.sections[j] = IF j = t THEN e ELSE o.sections[j]
    BY <2>6, <2>7, ReplaceLemma
  <2>9. Extends(o.sections, f.sections)
    <3>1. \A j \in 1 .. Len(o.sections) : Later(o.sections[j], b.sections[j])
      BY <2>3, <2>4, <2>7, <2>8, LaterReflexive
    <3>2. Extends(o.sections, b.sections) /\ b.sections \in Seq(Section)
      BY <1>1, <2>3, <2>8, <3>1 DEF Extends, Layouts
    <3>3. QED
      BY <2>3, <3>2, ExtendsTransitive
  <2>10. Opened(s, l) = l /\ Target(s, l) = t /\ Agree(l, o, f)
    BY <1>5, <2>1, <2>2, <2>9, OpenAgrees
  <2>11. t \in 1 .. Len(f.sections) /\ t \in 1 .. Len(l.sections) /\ Len(f.sections) \in Nat
         /\ Len(o.sections) \in Nat /\ t <= Len(o.sections)
    BY <2>3, <2>9, <2>10 DEF Extends, Agree
  <2>12. PICK y \in Section : y = l.sections[t]
    BY <2>3, <2>11
  <2>13. /\ y.name = f.sections[t].name /\ y.kind = f.sections[t].kind
         /\ y.align = f.sections[t].align /\ y.size = x.size /\ Filled(y)
    BY <2>4, <2>10, <2>11, <2>12 DEF Agree
  <2>14. y.kind = x.kind /\ y.align >= e.align
    <3>1. Later(e, f.sections[t])
      BY <2>8, <2>11 DEF Extends
    <3>2. QED
      BY <2>7, <2>13, <3>1 DEF Later
  <2>15. PICK g : g = Emitted(s, y)
    OBVIOUS
  <2>16. /\ Measurable(s, y) /\ g \in Section
         /\ g.name = y.name /\ g.kind = y.kind /\ g.align = y.align
         /\ g.size = e.size /\ Filled(g)
    BY <1>5, <2>5, <2>6, <2>13, <2>14, <2>15, EmittedLemma
  <2>17. ASSUME NEW m, SecondPass(s, l, m)
         PROVE  m \in Layouts /\ Agree(m, b, f)
    <3>1. m = Replace(l, t, g)
      BY <1>2, <1>5, <2>10, <2>12, <2>15, <2>17 DEF SecondPass
    <3>2. /\ m \in Layouts /\ m.section = l.section
          /\ Len(m.sections) = Len(l.sections)
          /\ \A j \in 1 .. Len(l.sections) : m.sections[j] = IF j = t THEN g ELSE l.sections[j]
      BY <2>11, <2>16, <3>1, ReplaceLemma
    <3>3. m.section = b.section /\ Len(m.sections) = Len(f.sections)
      BY <2>8, <2>10, <3>2 DEF Agree
    <3>4. ASSUME NEW i \in 1 .. Len(f.sections)
          PROVE  /\ m.sections[i].name  = f.sections[i].name
                 /\ m.sections[i].kind  = f.sections[i].kind
                 /\ m.sections[i].align = f.sections[i].align
                 /\ m.sections[i].size  =
                       IF i <= Len(b.sections) THEN b.sections[i].size ELSE 0
                 /\ Filled(m.sections[i])
      <4>1. CASE i = t
        BY <2>8, <2>11, <2>13, <2>16, <3>2, <3>3, <4>1
      <4>2. CASE i # t
        <5>1. m.sections[i] = l.sections[i]
          BY <3>2, <3>3, <4>2
        <5>2. i <= Len(o.sections) => b.sections[i] = o.sections[i]
          BY <2>8, <2>11, <4>2
        <5>3. QED
          BY <2>8, <2>10, <5>1, <5>2 DEF Agree
      <4>3. QED
        BY <4>1, <4>2
    <3>5. QED
      BY <3>2, <3>3, <3>4 DEF Agree
  <2>18. QED
    BY <2>10, <2>12, <2>16, <2>17
<1>6. QED
  BY <1>3, <1>4, <1>5 DEF FirstPass

-----------------------------------------------------------------------------
(* The inductive invariant. *)

\* The layout at the end of the first pass.
Final == trail[Len(prog) + 1]

\* The layout that prepare_expression_state remembers.
Remembered == Final.sections \o ReservedUnwind(Len(rows), frames)

\* The history is a run of the first pass, along which names stay different
\* and what is known of a section stays known.
TrailInv ==
    /\ Len(trail) \in 1 .. Len(prog) + 1
    /\ trail[1] = [section |-> 1, sections |-> Seed(format)]
    /\ \A k \in 1 .. Len(trail) :
          /\ Unique(trail[k].sections)
          /\ Extends(trail[k].sections, trail[Len(trail)].sections)
    /\ \A k \in 1 .. Len(trail) - 1 : FirstPass(prog[k], trail[k], trail[k + 1])

\* What is known of the current layout in every phase.
PhaseInv ==
    /\ phase = "collect" => pc = Len(trail) /\ layout = trail[pc]
    /\ phase \notin {"collect", "error"} => Len(trail) = Len(prog) + 1
    /\ phase = "unwind" => layout = Final
    /\ phase \in {"expressions", "reset"} => layout.sections = Remembered
    /\ phase \in {"expressions", "reset", "emit", "fixups", "finish"} =>
          sourceCount = Len(Final.sections)
    /\ phase \in {"reset", "emit", "fixups", "finish"} =>
          expected = Fingerprints(Remembered) /\ bases = Bases(expected)
    /\ phase = "emit" => Agree(layout, trail[pc], Final)
    /\ phase \in {"fixups", "finish"} => Agree(layout, Final, Final)
    /\ phase = "done" =>
          \A i \in 1 .. Len(layout.sections) : Filled(layout.sections[i])
    /\ phase # "drift"

Inv == TypeOK /\ TrailInv /\ PhaseInv

LEMMA SeedLemma ==
    ASSUME NEW f \in {"macho", "elf"}
    PROVE  /\ Seed(f) \in Seq(Section)
           /\ Len(Seed(f)) \in {1, 3}
           /\ Unique(Seed(f))
           /\ \A i \in 1 .. Len(Seed(f)) : Seed(f)[i].size = 0
           /\ [section |-> 1, sections |-> Seed(f)] \in Layouts
<1>0. /\ "text" \in Kinds /\ "data" \in Kinds /\ "zerofill" \in Kinds
      /\ "__text" \in SectionNames /\ ".text" \in SectionNames
      /\ ".data" \in SectionNames /\ ".bss" \in SectionNames
  BY NamesAssumption DEF Kinds, BuiltIn
<1>1. CASE f = "macho"
  <2>1. PICK t \in Section : t = NewSection("__text", "text") /\ t.size = 0
    BY <1>0, NewSectionLemma
  <2>2. Seed(f) = << t >>
    BY <1>1, <2>1 DEF Seed
  <2>3. QED
    BY <2>1, <2>2 DEF Unique, Layouts
<1>2. CASE f = "elf"
  <2>1. PICK t \in Section :
           t = NewSection(".text", "text") /\ t.size = 0 /\ t.name = ".text"
    BY <1>0, NewSectionLemma
  <2>2. PICK d \in Section :
           d = NewSection(".data", "data") /\ d.size = 0 /\ d.name = ".data"
    BY <1>0, NewSectionLemma
  <2>3. PICK b \in Section :
           b = NewSection(".bss", "zerofill") /\ b.size = 0 /\ b.name = ".bss"
    BY <1>0, NewSectionLemma
  <2>4. Seed(f) = << t, d, b >>
    BY <1>2, <2>1, <2>2, <2>3 DEF Seed
  <2>5. PICK u : u = << t, d, b >>
    OBVIOUS
  <2>6. u \in Seq(Section) /\ Len(u) = 3 /\ u[1] = t /\ u[2] = d /\ u[3] = b
    BY <2>5
  <2>7. \A i \in 1 .. 3 : u[i].size = 0
    BY <2>1, <2>2, <2>3, <2>6
  <2>8. Unique(u)
    BY <2>1, <2>2, <2>3, <2>6 DEF Unique
  <2>9. QED
    BY <2>4, <2>5, <2>6, <2>7, <2>8 DEF Layouts
<1>3. QED
  BY <1>1, <1>2

LEMMA InitInv == LayoutInit => Inv
<1> SUFFICES ASSUME LayoutInit PROVE Inv
  OBVIOUS
<1>1. format \in {"macho", "elf"} /\ format \in Formats /\ prog \in Programs
  BY FormatsAssumption DEF LayoutInit
<1>2. Len(prog) \in Nat /\ \A i \in 1 .. Len(prog) : IsStatement(prog[i])
  BY <1>1, ProgramsAssumption
<1>3. PICK u : u = Seed(format)
  OBVIOUS
<1>4. /\ u \in Seq(Section) /\ Len(u) \in {1, 3} /\ Unique(u)
      /\ [section |-> 1, sections |-> u] \in Layouts
  BY <1>1, <1>3, SeedLemma
<1>5. /\ layout = [section |-> 1, sections |-> u] /\ layout \in Layouts
      /\ trail = << layout >> /\ sourceCount = Len(u)
  BY <1>3, <1>4 DEF LayoutInit
<1>6. TypeOK
  BY <1>1, <1>2, <1>4, <1>5 DEF LayoutInit, TypeOK, Phases, Row
<1>7. \A i \in 1 .. Len(u) : Later(u[i], u[i])
  BY <1>4, LaterReflexive
<1>8. TrailInv
  BY <1>2, <1>3, <1>4, <1>5, <1>7 DEF TrailInv, Extends
<1>9. PhaseInv
  BY <1>5 DEF LayoutInit, PhaseInv
<1>10. QED
  BY <1>6, <1>8, <1>9 DEF Inv

-----------------------------------------------------------------------------
(* Steps of the first pass. *)

LEMMA ExtendsReflexive ==
    ASSUME NEW t, t \in Seq(Section)
    PROVE  Extends(t, t)
<1>1. \A i \in 1 .. Len(t) : t[i] \in Section
  OBVIOUS
<1>2. QED
  BY <1>1, LaterReflexive DEF Extends

\* Measuring a statement keeps the invariant, whatever it does to unwind state.
LEMMA AdvanceLemma ==
    ASSUME Inv, At("collect"),
           NEW next, FirstPass(prog[pc], layout, next), Advance(next),
           proc' \in ProcState \union {NoProc}, rows' \in Seq(Row),
           frames' \in [count : Nat, bytes : Nat]
    PROVE  Inv'
<1>1. /\ Len(prog) \in Nat /\ pc \in Nat /\ pc >= 1 /\ pc <= Len(prog)
      /\ phase = "collect" /\ IsStatement(prog[pc])
      /\ layout \in Layouts /\ trail \in Seq(Layouts)
      /\ Len(trail) = pc /\ layout = trail[pc]
  BY DEF Inv, TypeOK, At, PhaseInv
<1>2. /\ layout' = next /\ pc' = pc + 1 /\ trail' = Append(trail, next)
      /\ format' = format /\ prog' = prog /\ phase' = phase
      /\ sourceCount' = sourceCount
  BY DEF Advance, source, agreed
<1>3. Unique(layout.sections)
  BY <1>1 DEF Inv, TrailInv
<1>4. next \in Layouts /\ Unique(next.sections) /\ Extends(layout.sections, next.sections)
  BY <1>1, <1>3, FirstPassLemma
<1>5. /\ trail' \in Seq(Layouts) /\ Len(trail') = pc + 1
      /\ \A k \in 1 .. pc : trail'[k] = trail[k]
      /\ trail'[pc + 1] = next
  BY <1>1, <1>2, <1>4
<1>6. TypeOK'
  <2>1. sourceCount \in 1 .. Len(next.sections)
    <3>1. Len(layout.sections) \in Nat /\ Len(next.sections) \in Nat
      BY <1>1, <1>4 DEF Layouts
    <3>2. QED
      BY <1>4, <3>1 DEF Inv, TypeOK, Extends
  <2>2. QED
    BY <1>1, <1>2, <1>4, <1>5, <2>1 DEF Inv, TypeOK
<1>7. TrailInv'
  <2>1. ASSUME NEW k \in 1 .. pc + 1
        PROVE  Unique(trail'[k].sections) /\ Extends(trail'[k].sections, next.sections)
    <3>1. CASE k \in 1 .. pc
      <4>1. Unique(trail[k].sections) /\ Extends(trail[k].sections, layout.sections)
        BY <1>1, <3>1 DEF Inv, TrailInv
      <4>2. trail[k].sections \in Seq(Section)
        BY <1>1, <3>1 DEF Layouts
      <4>3. layout.sections \in Seq(Section) /\ next.sections \in Seq(Section)
        BY <1>1, <1>4 DEF Layouts
      <4>4. QED
        BY <1>4, <1>5, <3>1, <4>1, <4>2, <4>3, ExtendsTransitive
    <3>2. CASE k = pc + 1
      BY <1>4, <1>5, <3>2, ExtendsReflexive DEF Layouts
    <3>3. QED
      BY <1>1, <3>1, <3>2
  <2>2. ASSUME NEW k \in 1 .. pc
        PROVE  FirstPass(prog[k], trail'[k], trail'[k + 1])
    <3>1. CASE k = pc
      BY <1>1, <1>5, <3>1
    <3>2. CASE k # pc
      <4>1. k \in 1 .. Len(trail) - 1 /\ k + 1 \in 1 .. pc
        BY <1>1, <3>2
      <4>2. QED
        BY <1>5, <4>1 DEF Inv, TrailInv
    <3>3. QED
      BY <3>1, <3>2
  <2>3. trail'[1] = [section |-> 1, sections |-> Seed(format')]
    BY <1>1, <1>2, <1>5 DEF Inv, TrailInv
  <2>4. Len(trail') - 1 = pc /\ Len(trail') \in 1 .. Len(prog) + 1
    BY <1>1, <1>5
  <2>5. QED
    BY <1>2, <1>5, <2>1, <2>2, <2>3, <2>4 DEF TrailInv
<1>8. PhaseInv'
  BY <1>1, <1>2, <1>5 DEF PhaseInv
<1>9. QED
  BY <1>6, <1>7, <1>8 DEF Inv

LEMMA LocalFirst ==
    ASSUME NEW s, NEW a, NEW b, s.op \in Local, s.op # "zerofill",
           Measurable(s, Current(a)), b = ReplaceCurrent(a, Measured(s, Current(a)))
    PROVE  FirstPass(s, a, b)
  BY DEF FirstPass, Opened, Target, Current, ReplaceCurrent

\* Each action of the first pass is a FirstPass step on the layout.
LEMMA CollectInv ==
    ASSUME Inv,
           \/ CollectSymbol \/ CollectBytes \/ CollectFill \/ CollectSpace
           \/ CollectAlign \/ CollectSection \/ CollectZerofills
           \/ CollectStartProc \/ CollectCfi
           \/ \E dwarf \in BOOLEAN : CollectEndProc(dwarf)
    PROVE  Inv'
<1> DEFINE s == prog[pc]
           x == Current(layout)
           Typed == /\ proc' \in ProcState \union {NoProc} /\ rows' \in Seq(Row)
                    /\ frames' \in [count : Nat, bytes : Nat]
<1>1. /\ proc \in ProcState \union {NoProc} /\ rows \in Seq(Row)
      /\ frames \in [count : Nat, bytes : Nat]
  BY DEF Inv, TypeOK
<1>2. UNCHANGED unwind => Typed
  BY <1>1 DEF unwind
<1>3. /\ layout.section \in Nat /\ x \in Section /\ x.size \in Nat /\ Offset \in Nat
  <2>1. /\ layout.section \in 1 .. Len(layout.sections)
        /\ layout.sections \in Seq(Section)
    BY DEF Inv, TypeOK, Layouts
  <2>2. x \in Section
    BY <2>1 DEF Current
  <2>3. x.size \in Nat
    BY <2>2 DEF Section
  <2>4. QED
    BY <2>1, <2>2, <2>3 DEF Offset
<1>4. phase = "collect" /\ pc <= Len(prog) => IsStatement(s)
  BY DEF Inv, TypeOK
<1>5. ASSUME NEW next, FirstPass(s, layout, next), Advance(next), Typed, At("collect")
      PROVE  Inv'
  BY <1>5, AdvanceLemma
<1>6. CASE CollectSymbol
  <2>1. FirstPass(s, layout, layout)
    BY <1>6 DEF CollectSymbol, FirstPass, Quiet
  <2>2. QED
    BY <1>2, <1>5, <1>6, <2>1 DEF CollectSymbol
<1>7. CASE CollectBytes
  <2>1. FirstPass(s, layout, ReplaceCurrent(layout, Grow(x, s.bytes)))
    BY <1>7, LocalFirst DEF CollectBytes, Local, ByteOps, Measurable, Measured
  <2>2. QED
    BY <1>2, <1>5, <1>7, <2>1 DEF CollectBytes
<1>8. CASE CollectFill
  <2>1. FirstPass(s, layout, ReplaceCurrent(layout, Grow(x, FillBytes(s.repeat, s.width))))
    BY <1>8, LocalFirst DEF CollectFill, Local, ByteOps, Measurable, Measured
  <2>2. QED
    BY <1>2, <1>5, <1>8, <2>1 DEF CollectFill
<1>9. CASE CollectSpace
  <2>1. FirstPass(s, layout, ReplaceCurrent(layout, Grow(x, s.bytes)))
    BY <1>9, LocalFirst DEF CollectSpace, Local, ByteOps, Measurable, Measured
  <2>2. QED
    BY <1>2, <1>5, <1>9, <2>1 DEF CollectSpace
<1>10. CASE CollectAlign
  <2>1. FirstPass(s, layout, ReplaceCurrent(layout, ReserveAlign(x, s.power, s.skip)))
    BY <1>10, LocalFirst DEF CollectAlign, Local, ByteOps, Measurable, Measured
  <2>2. QED
    BY <1>2, <1>5, <1>10, <2>1 DEF CollectAlign
<1>11. CASE CollectSection
  <2>1. FirstPass(s, layout, Switch(layout, s.name, s.kind))
    BY <1>11 DEF CollectSection, FirstPass
  <2>2. QED
    BY <1>2, <1>5, <1>11, <2>1 DEF CollectSection
<1>12. CASE CollectZerofills
  <2> DEFINE o == Open(layout, s.name, s.kind)
             t == IndexOf(o.sections, s.name)
             b == Replace(o, t, ReserveZerofill(o.sections[t], s.power, s.bytes))
  <2>1. s.op = "zerofill" /\ CanZerofill(o.sections[t], s.power, s.bytes) /\ Advance(b)
    BY <1>12 DEF CollectZerofills
  <2>2. FirstPass(s, layout, b)
    BY <2>1 DEF FirstPass, Local, ByteOps, Measurable, Measured, Opened, Target
  <2>3. QED
    BY <1>2, <1>5, <1>12, <2>1, <2>2 DEF CollectZerofills
<1>13. CASE CollectStartProc
  <2>1. FirstPass(s, layout, layout)
    BY <1>13 DEF CollectStartProc, FirstPass, Quiet
  <2>2. Typed
    BY <1>1, <1>3, <1>13 DEF CollectStartProc, ProcState
  <2>3. QED
    BY <1>5, <1>13, <2>1, <2>2 DEF CollectStartProc
<1>14. CASE CollectCfi
  <2> DEFINE code == IF Offset < proc.start THEN 0 ELSE Offset - proc.start
             back == code < proc.last
             more == IF back THEN proc.bytes + s.bytes
                     ELSE proc.bytes + AdvanceLoc(code - proc.last) + s.bytes
  <2>1. proc \in ProcState
    BY <1>1, <1>14 DEF CollectCfi, NoProc
  <2>2. s.bytes \in Nat /\ s.forbids \in BOOLEAN
    BY <1>4, <1>14 DEF CollectCfi, At, IsStatement
  <2>3. code \in Nat /\ more \in Nat
    BY <1>3, <2>1, <2>2 DEF ProcState, AdvanceLoc
  <2>4. proc' = [proc EXCEPT !.last = code, !.bytes = more,
                             !.forbidden = @ \/ s.forbids, !.regressed = @ \/ back]
    BY <1>14, <2>1 DEF CollectCfi, ProcState
  <2> HIDE DEF code, more
  <2>5. proc' \in ProcState
    BY <2>1, <2>2, <2>3, <2>4 DEF ProcState
  <2>6. FirstPass(s, layout, layout)
    BY <1>14 DEF CollectCfi, FirstPass, Quiet
  <2>7. Typed
    BY <1>1, <1>14, <2>5 DEF CollectCfi
  <2>8. QED
    BY <1>5, <1>14, <2>6, <2>7 DEF CollectCfi
<1>15. CASE \E dwarf \in BOOLEAN : CollectEndProc(dwarf)
  <2>1. PICK dwarf \in BOOLEAN : CollectEndProc(dwarf)
    BY <1>15
  <2>2. proc \in ProcState
    BY <1>1, <2>1 DEF CollectEndProc, NoProc
  <2>3. Offset - proc.start \in Nat
    BY <1>3, <2>1, <2>2 DEF CollectEndProc, ProcState
  <2>4. [section |-> proc.section, start |-> proc.start,
         length |-> Offset - proc.start] \in Row
    BY <2>2, <2>3 DEF Row, ProcState
  <2>5. rows' \in Seq(Row)
    BY <1>1, <2>1, <2>4 DEF CollectEndProc
  <2>6. frames' \in [count : Nat, bytes : Nat]
    BY <1>1, <2>1, <2>2 DEF CollectEndProc, ProcState
  <2>7. proc' = NoProc
    BY <2>1 DEF CollectEndProc
  <2>8. FirstPass(s, layout, layout)
    BY <2>1 DEF CollectEndProc, FirstPass, Quiet
  <2>9. QED
    BY <1>5, <2>1, <2>5, <2>6, <2>7, <2>8 DEF CollectEndProc
<1>16. QED
  BY <1>6, <1>7, <1>8, <1>9, <1>10, <1>11, <1>12, <1>13, <1>14, <1>15

-----------------------------------------------------------------------------
(* Steps of the second pass. *)

LEMMA WriteLemma ==
    ASSUME Inv, At("emit"), NEW next, SecondPass(prog[pc], layout, next), Proceed(next)
    PROVE  Inv'
<1>1. /\ Len(prog) \in Nat /\ pc \in Nat /\ pc >= 1 /\ pc <= Len(prog)
      /\ phase = "emit" /\ IsStatement(prog[pc])
      /\ layout \in Layouts /\ trail \in Seq(Layouts)
      /\ Len(trail) = Len(prog) + 1 /\ sourceCount = Len(Final.sections)
      /\ Agree(layout, trail[pc], Final)
  BY DEF Inv, TypeOK, At, PhaseInv
<1>2. /\ layout' = next /\ pc' = pc + 1
      /\ format' = format /\ prog' = prog /\ phase' = phase
      /\ proc' = proc /\ rows' = rows /\ frames' = frames
      /\ sourceCount' = sourceCount /\ expected' = expected /\ bases' = bases
      /\ trail' = trail
  BY DEF Proceed, source, unwind, agreed
<1>3. PICK a \in Layouts : a = trail[pc]
  BY <1>1
<1>4. PICK b \in Layouts : b = trail[pc + 1]
  BY <1>1
<1>5. PICK f \in Layouts : f = Final
  BY <1>1 DEF Final
<1>6. /\ Unique(a.sections) /\ FirstPass(prog[pc], a, b)
      /\ Unique(f.sections) /\ Extends(b.sections, f.sections)
  BY <1>1, <1>3, <1>4, <1>5 DEF Inv, TrailInv, Final
<1>7. next \in Layouts /\ Agree(next, b, f)
  BY <1>1, <1>3, <1>5, <1>6, SecondPassLemma
<1>8. TypeOK'
  BY <1>1, <1>2, <1>5, <1>7 DEF Inv, TypeOK, Agree
<1>9. TrailInv'
  BY <1>2 DEF Inv, TrailInv
<1>10. Final' = Final /\ Remembered' = Remembered
  BY <1>2 DEF Final, Remembered
<1>11. PhaseInv'
  BY <1>1, <1>2, <1>4, <1>5, <1>7, <1>10 DEF Inv, PhaseInv
<1>12. QED
  BY <1>8, <1>9, <1>11 DEF Inv

LEMMA LocalSecond ==
    ASSUME NEW s, NEW a, NEW b, s.op \in Local, s.op # "zerofill",
           b = ReplaceCurrent(a, Emitted(s, Current(a)))
    PROVE  SecondPass(s, a, b)
  BY DEF SecondPass, Opened, Target, Current, ReplaceCurrent

\* Each action of the second pass is a SecondPass step on the layout.
LEMMA EmitInv ==
    ASSUME Inv,
           \/ EmitNothing \/ EmitBytes \/ EmitFill \/ EmitSpaces
           \/ EmitAlignment \/ EmitSection \/ EmitZerofills
    PROVE  Inv'
<1> DEFINE s == prog[pc]
           x == Current(layout)
<1>1. CASE EmitNothing
  <2>1. SecondPass(s, layout, layout)
    BY <1>1 DEF EmitNothing, SecondPass, Quiet
  <2>2. QED
    BY <1>1, <2>1, WriteLemma DEF EmitNothing
<1>2. CASE EmitBytes
  <2>1. SecondPass(s, layout, ReplaceCurrent(layout, Emit(x, s.bytes)))
    BY <1>2, LocalSecond DEF EmitBytes, Local, ByteOps, Emitted
  <2>2. QED
    BY <1>2, <2>1, WriteLemma DEF EmitBytes
<1>3. CASE EmitFill
  <2>1. SecondPass(s, layout, ReplaceCurrent(layout, Emit(x, FillBytes(s.repeat, s.width))))
    BY <1>3, LocalSecond DEF EmitFill, Local, ByteOps, Emitted
  <2>2. QED
    BY <1>3, <2>1, WriteLemma DEF EmitFill
<1>4. CASE EmitSpaces
  <2>1. SecondPass(s, layout, ReplaceCurrent(layout, EmitSpace(x, s.bytes)))
    BY <1>4, LocalSecond DEF EmitSpaces, Local, ByteOps, Emitted
  <2>2. QED
    BY <1>4, <2>1, WriteLemma DEF EmitSpaces
<1>5. CASE EmitAlignment
  <2>1. SecondPass(s, layout, ReplaceCurrent(layout, EmitAlign(x, s.power, s.fill, s.skip)))
    BY <1>5, LocalSecond DEF EmitAlignment, Local, ByteOps, Emitted
  <2>2. QED
    BY <1>5, <2>1, WriteLemma DEF EmitAlignment
<1>6. CASE EmitSection
  <2>1. SecondPass(s, layout, Switch(layout, s.name, s.kind))
    BY <1>6 DEF EmitSection, SecondPass
  <2>2. QED
    BY <1>6, <2>1, WriteLemma DEF EmitSection
<1>7. CASE EmitZerofills
  <2> DEFINE o == Open(layout, s.name, s.kind)
             t == IndexOf(o.sections, s.name)
             b == Replace(o, t, EmitZerofill(o.sections[t], s.power, s.bytes))
  <2>1. s.op = "zerofill" /\ Proceed(b) /\ At("emit")
    BY <1>7 DEF EmitZerofills
  <2>2. SecondPass(s, layout, b)
    BY <2>1 DEF SecondPass, Local, ByteOps, Emitted, Opened, Target
  <2>3. QED
    BY <2>1, <2>2, WriteLemma
<1>8. QED
  BY <1>1, <1>2, <1>3, <1>4, <1>5, <1>6, <1>7

-----------------------------------------------------------------------------
(* Steps between the passes and after them. *)

\* What finish writes for an unwind section is what was reserved for it.
WrittenAs(x, y) == /\ y.name = x.name /\ y.kind = x.kind
                 /\ y.align = x.align /\ y.size = x.size
                 /\ Filled(y)

\* Two sequences of one element, put together.
LEMMA TwoElements ==
    ASSUME NEW S, NEW a \in S, NEW b \in S
    PROVE  LET s == << a >> \o << b >>
           IN  s \in Seq(S) /\ Len(s) = 2 /\ s[1] = a /\ s[2] = b
<1>1. /\ << a >> \in Seq(S) /\ Len(<< a >>) = 1 /\ << a >>[1] = a
      /\ << b >> \in Seq(S) /\ Len(<< b >>) = 1 /\ << b >>[1] = b
  OBVIOUS
<1>2. PICK p : p = << a >>
  OBVIOUS
<1>3. PICK q : q = << b >>
  OBVIOUS
<1>4. /\ p \o q \in Seq(S) /\ Len(p \o q) = 2
      /\ (p \o q)[1] = a /\ (p \o q)[2] = b
  <2>1. p \in Seq(S) /\ q \in Seq(S) /\ Len(p) = 1 /\ Len(q) = 1 /\ p[1] = a /\ q[1] = b
    BY <1>1, <1>2, <1>3
  <2>2. QED
    BY <2>1, ConcatProperties
<1>5. QED
  BY <1>2, <1>3, <1>4

LEMMA UnwindLemma ==
    ASSUME NEW n \in Nat, NEW f \in [count : Nat, bytes : Nat]
    PROVE  /\ ReservedUnwind(n, f) \in Seq(Section)
           /\ WrittenUnwind(n, f) \in Seq(Section)
           /\ Len(WrittenUnwind(n, f)) = Len(ReservedUnwind(n, f))
           /\ \A i \in 1 .. Len(ReservedUnwind(n, f)) :
                 WrittenAs(ReservedUnwind(n, f)[i], WrittenUnwind(n, f)[i])
<1> SUFFICES ASSUME NEW u, u = ReservedUnwind(n, f), NEW w, w = WrittenUnwind(n, f)
             PROVE  /\ u \in Seq(Section) /\ w \in Seq(Section)
                    /\ Len(w) = Len(u)
                    /\ \A i \in 1 .. Len(u) : WrittenAs(u[i], w[i])
  OBVIOUS
<1> DEFINE c == CompactRowSize * n
           d == CieSize + FdeFixedSize * f.count + f.bytes
<1>1. /\ c \in Nat /\ d \in Nat
      /\ WrittenRow * n = c
      /\ CieSize + WrittenFde * f.count + f.bytes = d
  BY DEF CompactRowSize, CieSize, FdeFixedSize, WrittenRow, WrittenFde
<1>2. /\ u = OneIf(n # 0, UnwindSection("__compact_unwind", c, 0))
               \o OneIf(f.count # 0, UnwindSection("__eh_frame", d, 0))
      /\ w = OneIf(n # 0, UnwindSection("__compact_unwind", c, c))
               \o OneIf(f.count # 0, UnwindSection("__eh_frame", d, d))
  BY <1>1 DEF ReservedUnwind, WrittenUnwind
<1> HIDE DEF c, d
<1>3. ASSUME NEW m \in {"__compact_unwind", "__eh_frame"}, NEW b \in Nat,
             NEW x, x = UnwindSection(m, b, 0), NEW y, y = UnwindSection(m, b, b)
      PROVE  x \in Section /\ y \in Section /\ WrittenAs(x, y)
  <2>1. m \in SectionNames /\ "data" \in Kinds /\ "data" # "zerofill"
    BY NamesAssumption DEF BuiltIn, Kinds
  <2>2. x \in Section /\ y \in Section
    BY <1>3, <2>1 DEF UnwindSection, UnwindAlign, Section, MaxPower
  <2>3. QED
    BY <1>3, <2>1, <2>2 DEF UnwindSection, WrittenAs, Filled
<1>4. PICK x1 : x1 = UnwindSection("__compact_unwind", c, 0)
  OBVIOUS
<1>5. PICK y1 : y1 = UnwindSection("__compact_unwind", c, c)
  OBVIOUS
<1>6. PICK x2 : x2 = UnwindSection("__eh_frame", d, 0)
  OBVIOUS
<1>7. PICK y2 : y2 = UnwindSection("__eh_frame", d, d)
  OBVIOUS
<1>8. /\ x1 \in Section /\ y1 \in Section /\ WrittenAs(x1, y1)
      /\ x2 \in Section /\ y2 \in Section /\ WrittenAs(x2, y2)
  BY <1>1, <1>3, <1>4, <1>5, <1>6, <1>7
<1>9. CASE n = 0 /\ f.count = 0
  BY <1>2, <1>9 DEF OneIf
<1>10. CASE n # 0 /\ f.count = 0
  <2>1. u = << x1 >> /\ w = << y1 >>
    BY <1>2, <1>4, <1>5, <1>8, <1>10 DEF OneIf
  <2>2. QED
    BY <1>8, <2>1
<1>11. CASE n = 0 /\ f.count # 0
  <2>1. u = << x2 >> /\ w = << y2 >>
    BY <1>2, <1>6, <1>7, <1>8, <1>11 DEF OneIf
  <2>2. QED
    BY <1>8, <2>1
<1>12. CASE n # 0 /\ f.count # 0
  <2>1. u = << x1 >> \o << x2 >> /\ w = << y1 >> \o << y2 >>
    BY <1>2, <1>4, <1>5, <1>6, <1>7, <1>12 DEF OneIf
  <2>2. /\ u \in Seq(Section) /\ Len(u) = 2 /\ u[1] = x1 /\ u[2] = x2
        /\ w \in Seq(Section) /\ Len(w) = 2 /\ w[1] = y1 /\ w[2] = y2
    BY <1>8, <2>1, TwoElements
  <2>3. QED
    BY <1>8, <2>2
<1>13. QED
  BY <1>9, <1>10, <1>11, <1>12

\* Everything but a step of a pass.
LEMMA PhaseLemma ==
    ASSUME Inv, EndCollect \/ PrepareUnwind \/ LayoutPrepare \/ EndEmit
                \/ ResolveFixups \/ LayoutFinishElf \/ LayoutFail \/ UNCHANGED layoutVars
    PROVE  Inv'
<1>1. /\ Len(prog) \in Nat /\ layout \in Layouts /\ trail \in Seq(Layouts)
      /\ Len(layout.sections) \in Nat /\ pc \in 1 .. Len(prog) + 1
  BY DEF Inv, TypeOK, Layouts
<1>2. CASE EndCollect \/ LayoutPrepare \/ EndEmit
           \/ ResolveFixups \/ LayoutFinishElf \/ LayoutFail \/ UNCHANGED layoutVars
  <2>1. /\ format' = format /\ prog' = prog /\ layout' = layout /\ trail' = trail
        /\ pc' = pc /\ proc' = proc /\ rows' = rows /\ frames' = frames
        /\ sourceCount' = sourceCount
    BY <1>2 DEF EndCollect, LayoutPrepare, EndEmit, ResolveFixups, LayoutFinishElf,
                LayoutFail, source, unwind, agreed, layoutVars
  <2>2. phase' \in Phases
    BY <1>2 DEF EndCollect, LayoutPrepare, EndEmit, ResolveFixups, LayoutFinishElf,
                LayoutFail, layoutVars, Phases, Inv, TypeOK
  <2>3. TypeOK' /\ TrailInv'
    BY <2>1, <2>2 DEF Inv, TypeOK, TrailInv
  <2>4. Final' = Final /\ Remembered' = Remembered
    BY <2>1 DEF Final, Remembered
  <2> SUFFICES PhaseInv'
    BY <2>3 DEF Inv
  <2>5. CASE EndCollect
    BY <1>1, <2>1, <2>4, <2>5 DEF EndCollect, Inv, TrailInv, PhaseInv, Final, agreed
  <2>6. CASE LayoutPrepare
    BY <2>1, <2>4, <2>6 DEF LayoutPrepare, Inv, PhaseInv
  <2>7. CASE EndEmit
    BY <2>1, <2>4, <2>7 DEF EndEmit, Inv, PhaseInv, Final, agreed
  <2>8. CASE ResolveFixups
    BY <2>1, <2>4, <2>8 DEF ResolveFixups, Inv, PhaseInv, agreed
  <2>9. CASE LayoutFinishElf
    BY <2>1, <2>4, <2>9 DEF LayoutFinishElf, Inv, PhaseInv, Agree
  <2>10. CASE LayoutFail
    BY <2>1, <2>10 DEF LayoutFail, PhaseInv
  <2>11. CASE UNCHANGED layoutVars
    BY <2>1, <2>4, <2>11 DEF Inv, PhaseInv, layoutVars, agreed
  <2>12. QED
    BY <1>2, <2>5, <2>6, <2>7, <2>8, <2>9, <2>10, <2>11
<1>3. CASE PrepareUnwind
  <2>1. /\ format' = format /\ prog' = prog /\ trail' = trail /\ phase' = "expressions"
        /\ pc' = pc /\ proc' = proc /\ rows' = rows /\ frames' = frames
        /\ layout = Final /\ sourceCount' = Len(Final.sections)
        /\ Len(trail) = Len(prog) + 1
    BY <1>3 DEF PrepareUnwind, source, unwind, Inv, PhaseInv
  <2>2. PICK u \in Seq(Section) : u = ReservedUnwind(Len(rows), frames)
    <3>1. Len(rows) \in Nat /\ frames \in [count : Nat, bytes : Nat]
      BY DEF Inv, TypeOK
    <3>2. QED
      BY <3>1, UnwindLemma
  <2>3. layout' = [section |-> layout.section, sections |-> layout.sections \o u]
    BY <1>1, <1>3, <2>2 DEF PrepareUnwind, Layouts
  <2>4. /\ layout.sections \in Seq(Section)
        /\ layout.section \in 1 .. Len(layout.sections) /\ Len(u) \in Nat
    BY <1>1 DEF Layouts
  <2>5. /\ layout.sections \o u \in Seq(Section)
        /\ Len(layout.sections \o u) = Len(layout.sections) + Len(u)
    BY <2>2, <2>4, ConcatProperties
  <2>6. layout' \in Layouts /\ sourceCount' \in 1 .. Len(layout'.sections)
    BY <1>1, <2>1, <2>3, <2>4, <2>5 DEF Layouts
  <2>7. TypeOK' /\ TrailInv'
    BY <2>1, <2>6 DEF Inv, TypeOK, TrailInv, Phases
  <2>8. Final' = Final /\ Remembered' = Final.sections \o u
    BY <2>1, <2>2 DEF Final, Remembered
  <2>9. PhaseInv'
    BY <2>1, <2>3, <2>8 DEF PhaseInv
  <2>10. QED
    BY <2>7, <2>9 DEF Inv
<1>4. QED
  BY <1>2, <1>3

\* An emptied table agrees with the one the first pass started from.
LEMMA ResetLemma ==
    ASSUME Inv, LayoutReset
    PROVE  Inv'
<1>1. /\ Len(prog) \in Nat /\ layout \in Layouts /\ trail \in Seq(Layouts)
      /\ format \in {"macho", "elf"} /\ Len(trail) = Len(prog) + 1
      /\ layout.sections = Remembered /\ sourceCount = Len(Final.sections)
      /\ Len(rows) \in Nat /\ frames \in [count : Nat, bytes : Nat]
      /\ Len(Final.sections) \in 1 .. Len(layout.sections)
  BY FormatsAssumption DEF Inv, TypeOK, PhaseInv, LayoutReset
<1>2. /\ format' = format /\ prog' = prog /\ trail' = trail /\ phase' = "emit"
      /\ pc' = 1 /\ rows' = rows /\ frames' = frames /\ proc' = NoProc
      /\ sourceCount' = sourceCount /\ expected' = expected /\ bases' = bases
  BY DEF LayoutReset, source, agreed
<1>3. PICK f \in Layouts : f = Final
  BY <1>1 DEF Final
<1>4. PICK a \in Layouts : a = trail[1]
  BY <1>1
<1>5. f.sections \in Seq(Section) /\ Len(f.sections) \in Nat
  BY DEF Layouts
<1>6. /\ a.section = 1 /\ Len(a.sections) \in 1 .. Len(f.sections)
      /\ \A i \in 1 .. Len(a.sections) : a.sections[i].size = 0
  <2>1. a = [section |-> 1, sections |-> Seed(format)] /\ Extends(a.sections, f.sections)
    BY <1>1, <1>3, <1>4 DEF Inv, TrailInv, Final
  <2>2. Len(Seed(format)) \in {1, 3} /\ \A i \in 1 .. Len(Seed(format)) : Seed(format)[i].size = 0
    BY <1>1, SeedLemma
  <2>3. Len(a.sections) <= Len(f.sections) /\ a.section = 1
    BY <2>1 DEF Extends
  <2>4. PICK s : s = Seed(format)
    OBVIOUS
  <2>5. Len(s) \in {1, 3} /\ \A i \in 1 .. Len(s) : s[i].size = 0
    BY <2>2, <2>4, Zenon
  <2>6. a.sections = s
    BY <2>1, <2>4
  <2>7. Len(s) \in 1 .. Len(f.sections)
    <3>1. PICK k : k = Len(s)
      OBVIOUS
    <3>2. k \in {1, 3} /\ k <= Len(f.sections)
      BY <2>3, <2>5, <2>6, <3>1
    <3>3. k \in 1 .. Len(f.sections)
      BY <1>5, <3>2
    <3>4. QED
      BY <3>1, <3>3
  <2>8. QED
    BY <2>3, <2>5, <2>6, <2>7, Zenon
<1>7. ASSUME NEW i \in 1 .. Len(f.sections)
      PROVE  layout.sections[i] = f.sections[i] /\ f.sections[i] \in Section
  <2>1. PICK u \in Seq(Section) : u = ReservedUnwind(Len(rows), frames)
    BY <1>1, UnwindLemma
  <2>2. layout.sections = f.sections \o u
    BY <1>1, <1>3, <2>1 DEF Remembered
  <2>3. QED
    BY <1>5, <2>1, <2>2, ConcatProperties
<1>8. PICK t : t = Truncate(layout.sections, Len(f.sections))
  OBVIOUS
<1>9. layout' = [section |-> 1, sections |-> t]
  BY <1>1, <1>3, <1>8 DEF LayoutReset
<1>10. t = [i \in 1 .. Len(f.sections) |-> [f.sections[i] EXCEPT !.size = 0, !.len = 0]]
  BY <1>7, <1>8 DEF Truncate
<1>11. ASSUME NEW i \in 1 .. Len(f.sections)
       PROVE  /\ t[i] \in Section
              /\ t[i].name = f.sections[i].name /\ t[i].kind = f.sections[i].kind
              /\ t[i].align = f.sections[i].align /\ t[i].size = 0 /\ t[i].len = 0
  <2>1. PICK e \in Section : e = f.sections[i]
    BY <1>7
  <2>2. t[i] = [e EXCEPT !.size = 0, !.len = 0]
    BY <1>10, <2>1
  <2>3. t[i] = [name |-> e.name, kind |-> e.kind, size |-> 0, align |-> e.align, len |-> 0]
    BY <2>2 DEF Section
  <2>4. e.name \in SectionNames /\ e.kind \in Kinds /\ e.align \in Nat
    BY DEF Section
  <2>5. t[i] \in Section
    BY <2>3, <2>4 DEF Section
  <2>6. QED
    BY <2>1, <2>3, <2>5
<1>12. t \in Seq(Section) /\ Len(t) = Len(f.sections)
  <2>1. t \in [1 .. Len(f.sections) -> Section]
    BY <1>10, <1>11
  <2>2. t \in Seq(Section)
    BY <1>5, <2>1, SeqDef
  <2>3. QED
    BY <1>5, <2>1, <2>2, LenProperties
<1>13. layout' \in Layouts /\ sourceCount' \in 1 .. Len(layout'.sections)
  BY <1>1, <1>2, <1>3, <1>5, <1>6, <1>9, <1>12 DEF Layouts
<1>14. TypeOK' /\ TrailInv'
  BY <1>1, <1>2, <1>13 DEF Inv, TypeOK, TrailInv, Phases
<1>15. Agree(layout', a, f)
  BY <1>5, <1>6, <1>9, <1>11, <1>12 DEF Agree, Filled
<1>16. Final' = Final /\ Remembered' = Remembered
  BY <1>2 DEF Final, Remembered
<1>17. PhaseInv'
  BY <1>1, <1>2, <1>3, <1>4, <1>15, <1>16 DEF LayoutReset, Inv, PhaseInv
<1>18. QED
  BY <1>14, <1>17 DEF Inv

\* The layout finish sees is the one that was remembered.
LEMMA FinishLemma ==
    ASSUME Inv, LayoutFinish
    PROVE  Inv'
<1>1. /\ layout \in Layouts /\ Agree(layout, Final, Final)
      /\ Len(trail) = Len(prog) + 1 /\ trail \in Seq(Layouts) /\ Len(prog) \in Nat
      /\ sourceCount = Len(Final.sections)
      /\ expected = Fingerprints(Remembered) /\ bases = Bases(expected)
      /\ Len(rows) \in Nat /\ frames \in [count : Nat, bytes : Nat]
  BY DEF Inv, TypeOK, PhaseInv, LayoutFinish
<1>2. PICK f \in Seq(Section) : f = Final.sections
  BY <1>1 DEF Final, Layouts
<1>3. PICK t \in Seq(Section) : t = layout.sections
  BY <1>1 DEF Layouts
<1>4. PICK u \in Seq(Section) : u = ReservedUnwind(Len(rows), frames)
  BY <1>1, UnwindLemma
<1>5. PICK w \in Seq(Section) : w = WrittenUnwind(Len(rows), frames)
  BY <1>1, UnwindLemma
<1>6. Len(w) = Len(u) /\ \A i \in 1 .. Len(u) : WrittenAs(u[i], w[i])
  BY <1>1, <1>4, <1>5, UnwindLemma
<1>7. /\ Len(t) = Len(f)
      /\ \A i \in 1 .. Len(f) : WrittenAs(f[i], t[i])
  BY <1>1, <1>2, <1>3 DEF Agree, WrittenAs
<1>8. PICK x \in Seq(Section) : x = f \o u
  BY ConcatProperties
<1>9. PICK y \in Seq(Section) : y = t \o w
  BY ConcatProperties
<1>10. /\ Len(x) = Len(f) + Len(u) /\ Len(y) = Len(x)
       /\ Len(f) \in Nat /\ Len(u) \in Nat
       /\ \A i \in 1 .. Len(x) : x[i] = IF i <= Len(f) THEN f[i] ELSE u[i - Len(f)]
       /\ \A i \in 1 .. Len(x) : y[i] = IF i <= Len(f) THEN t[i] ELSE w[i - Len(f)]
  <2>1. /\ Len(x) = Len(f) + Len(u)
        /\ \A i \in 1 .. Len(f) + Len(u) : x[i] = IF i <= Len(f) THEN f[i] ELSE u[i - Len(f)]
    BY <1>8, ConcatProperties
  <2>2. /\ Len(y) = Len(t) + Len(w)
        /\ \A i \in 1 .. Len(t) + Len(w) : y[i] = IF i <= Len(t) THEN t[i] ELSE w[i - Len(t)]
    BY <1>9, ConcatProperties
  <2>3. Len(f) \in Nat /\ Len(u) \in Nat /\ Len(t) = Len(f) /\ Len(w) = Len(u)
    BY <1>6, <1>7
  <2>4. QED
    BY <2>1, <2>2, <2>3
<1>11. ASSUME NEW i \in 1 .. Len(x)
       PROVE  WrittenAs(x[i], y[i])
  <2>1. CASE i \in 1 .. Len(f)
    <3>1. WrittenAs(f[i], t[i])
      BY <1>7, <2>1
    <3>2. x[i] = f[i] /\ y[i] = t[i]
      BY <1>10, <2>1
    <3>3. QED
      BY <3>1, <3>2
  <2>2. CASE i > Len(f)
    <3>1. i - Len(f) \in 1 .. Len(u)
      BY <1>10, <2>2
    <3>2. WrittenAs(u[i - Len(f)], w[i - Len(f)])
      BY <1>6, <3>1
    <3>3. x[i] = u[i - Len(f)] /\ y[i] = w[i - Len(f)]
      BY <1>10, <2>2
    <3>4. QED
      BY <3>2, <3>3
  <2>3. QED
    BY <1>10, <2>1, <2>2
<1>12. Fingerprints(y) = Fingerprints(x)
  BY <1>10, <1>11 DEF Fingerprints, WrittenAs
<1>13. /\ layout' = [layout EXCEPT !.sections = y]
       /\ phase' = "done"
  BY <1>1, <1>2, <1>3, <1>4, <1>5, <1>8, <1>9, <1>12 DEF LayoutFinish, Remembered
<1>14. layout' \in Layouts /\ layout'.sections = y /\ Len(y) >= Len(f)
  <2>1. layout.section \in Nat /\ layout.section \in 1 .. Len(y)
    BY <1>1, <1>3, <1>7, <1>10 DEF Layouts
  <2>2. layout' = [section |-> layout.section, sections |-> y]
    BY <1>1, <1>13 DEF Layouts
  <2>3. QED
    BY <1>10, <2>1, <2>2 DEF Layouts
<1>15. /\ format' = format /\ prog' = prog /\ trail' = trail /\ pc' = pc
       /\ rows' = rows /\ frames' = frames /\ proc' = proc /\ sourceCount' = sourceCount
  BY DEF LayoutFinish, source, unwind, agreed
<1>16. sourceCount \in 1 .. Len(y)
  BY <1>1, <1>2, <1>3, <1>7, <1>10 DEF Inv, TypeOK
<1>17. TypeOK' /\ TrailInv'
  BY <1>1, <1>13, <1>14, <1>15, <1>16 DEF Inv, TypeOK, TrailInv, Phases
<1>18. PhaseInv'
  BY <1>1, <1>10, <1>11, <1>13, <1>14, <1>15 DEF PhaseInv, WrittenAs
<1>19. QED
  BY <1>17, <1>18 DEF Inv

LEMMA NextInv ==
    ASSUME Inv, [LayoutNext]_layoutVars
    PROVE  Inv'
<1>1. CASE \/ CollectSymbol \/ CollectBytes \/ CollectFill \/ CollectSpace
           \/ CollectAlign \/ CollectSection \/ CollectZerofills
           \/ CollectStartProc \/ CollectCfi
           \/ \E dwarf \in BOOLEAN : CollectEndProc(dwarf)
  BY <1>1, CollectInv
<1>2. CASE \/ EmitNothing \/ EmitBytes \/ EmitFill \/ EmitSpaces
           \/ EmitAlignment \/ EmitSection \/ EmitZerofills
  BY <1>2, EmitInv
<1>3. CASE LayoutReset
  BY <1>3, ResetLemma
<1>4. CASE LayoutFinish
  BY <1>4, FinishLemma
<1>5. CASE EndCollect \/ PrepareUnwind \/ LayoutPrepare \/ EndEmit
           \/ ResolveFixups \/ LayoutFinishElf \/ LayoutFail \/ UNCHANGED layoutVars
  BY <1>5, PhaseLemma
<1>6. CASE LayoutTerminated
  BY <1>6, PhaseLemma DEF LayoutTerminated
<1>7. QED
  BY <1>1, <1>2, <1>3, <1>4, <1>5, <1>6 DEF LayoutNext

-----------------------------------------------------------------------------
(* What holds of every run, for every source and every limit. *)

\* The inductive invariant: the history is a run of the first pass, and the
\* layout of the second agrees with the point of it that it is at.
THEOREM Invariance == LayoutSpec => []Inv
<1>1. LayoutInit => Inv
  BY InitInv
<1>2. Inv /\ [LayoutNext]_layoutVars => Inv'
  BY NextInv
<1>3. QED
  BY <1>1, <1>2, PTL DEF LayoutSpec

\* The cursors, the table and the rows are what their declarations say in
\* both passes (fields of struct Assembler).
THEOREM TypeCorrect == LayoutSpec => []TypeOK
<1>1. Inv => TypeOK
  BY DEF Inv
<1>2. QED
  BY <1>1, Invariance, PTL

\* process meets every statement where collect_layout measured it.
THEOREM PassesAgree == LayoutSpec => []LayoutAgrees
<1>1. Inv => LayoutAgrees
  BY DEF Inv, PhaseInv, Agree, LayoutAgrees
<1>2. QED
  BY <1>1, Invariance, PTL

\* The internal error of finish, "section layout changed between assembly
\* passes", is unreachable.
THEOREM NoDrift == LayoutSpec => []NoLayoutDrift
<1>1. Inv => NoLayoutDrift
  BY DEF Inv, PhaseInv, NoLayoutDrift
<1>2. QED
  BY <1>1, Invariance, PTL

\* size and the length of data never part.
THEOREM ContentMatches == LayoutSpec => []ContentMatchesSize
<1>1. Inv => ContentMatchesSize
  BY DEF Inv, PhaseInv, Agree, Filled, ContentMatchesSize
<1>2. QED
  BY <1>1, Invariance, PTL

\* A statement that was measured can be written: no error of emit_space,
\* emit_alignment, emit_zerofill or emit_initialized_bytes is first found by
\* the second pass, but for a .fill over the limit.
THEOREM EmissionNeverRunsOut == LayoutSpec => []EmissionFits
<1>1. ASSUME Inv, At("emit")
      PROVE  CanWrite(prog[pc])
  <2> DEFINE s == prog[pc]
  <2>1. /\ Len(prog) \in Nat /\ pc \in 1 .. Len(prog) /\ IsStatement(s)
        /\ layout \in Layouts /\ trail \in Seq(Layouts)
        /\ Len(trail) = Len(prog) + 1 /\ Agree(layout, trail[pc], Final)
    BY <1>1 DEF Inv, TypeOK, At, PhaseInv
  <2>2. PICK a \in Layouts : a = trail[pc]
    BY <2>1
  <2>3. PICK b \in Layouts : b = trail[pc + 1]
    BY <2>1
  <2>4. PICK f \in Layouts : f = Final
    BY <2>1 DEF Final
  <2>5. /\ Unique(a.sections) /\ FirstPass(s, a, b)
        /\ Unique(f.sections) /\ Extends(b.sections, f.sections)
    BY <1>1, <2>1, <2>2, <2>3, <2>4 DEF Inv, TrailInv, Final
  <2>6. s.op \in Local => Measurable(s, Opened(s, layout).sections[Target(s, layout)])
    BY <2>1, <2>2, <2>4, <2>5, SecondPassLemma
  <2>7. CASE s.op \in Local /\ s.op # "zerofill"
    <3>1. Measurable(s, Current(layout))
      BY <2>6, <2>7 DEF Opened, Target, Current
    <3>2. CASE s.op = "fill"
      <4>1. PICK n \in Nat : n = FillBytes(s.repeat, s.width)
        BY <2>1, <3>2, FillLemma DEF IsStatement
      <4>2. CanReserve(Current(layout), n)
        BY <3>1, <3>2, <4>1 DEF Measurable, ByteOps
      <4>3. n > MaxSpace \/ CanEmitFill(Current(layout), n)
        BY <4>2, LimitsAssumption DEF CanEmitFill
      <4>4. QED
        BY <3>2, <4>1, <4>3 DEF CanWrite, ByteOps
    <3>3. CASE s.op # "fill"
      BY <2>7, <3>1, <3>3 DEF CanWrite, Measurable, ByteOps, Local
    <3>4. QED
      BY <3>2, <3>3
  <2>8. CASE s.op = "zerofill"
    <3>1. s.op \in Local /\ Opened(s, layout).sections = Ensure(layout.sections, s.name, s.kind)
      BY <2>1, <2>8 DEF Opened, Open, Layouts, Local
    <3>2. QED
      BY <2>6, <2>8, <3>1 DEF CanWrite, Measurable, ByteOps, Target
  <2>9. CASE s.op \notin Local
    BY <2>9 DEF CanWrite, Local
  <2>10. QED
    BY <2>7, <2>8, <2>9
<1>2. Inv => EmissionFits
  BY <1>1 DEF EmissionFits
<1>3. QED
  BY <1>2, Invariance, PTL

-----------------------------------------------------------------------------
(* The rows of the unwind sections.  A row ends where its section did when *)
(* .cfi_endproc was met, sections only grow in the first pass, and the     *)
(* next procedure of the section starts there or later.                    *)

End(row) == row.start + row.length

RowsWithin(sections) ==
    \A i \in 1 .. Len(rows) :
        /\ rows[i].section \in 1 .. Len(sections)
        /\ End(rows[i]) <= sections[rows[i].section].size

RowsApart ==
    \A i, j \in 1 .. Len(rows) :
        i < j /\ rows[i].section = rows[j].section => End(rows[i]) <= rows[j].start

ProcApart ==
    proc.open => \A i \in 1 .. Len(rows) :
                    rows[i].section = proc.section => End(rows[i]) <= proc.start

SizesKept ==
    /\ Len(Final.sections) <= Len(layout.sections)
    /\ \A i \in 1 .. Len(Final.sections) : layout.sections[i].size = Final.sections[i].size

RowsInv ==
    /\ RowsApart
    /\ phase = "collect" => RowsWithin(layout.sections) /\ ProcApart
    /\ phase \notin {"collect", "error"} => RowsWithin(Final.sections)
    /\ phase = "done" => SizesKept

LEMMA RowType ==
    ASSUME TypeOK, NEW i \in 1 .. Len(rows)
    PROVE  /\ rows[i] \in Row /\ End(rows[i]) \in Nat
           /\ rows[i].start \in Nat /\ rows[i].section \in Nat
<1>1. PICK r \in Row : r = rows[i]
  BY DEF TypeOK
<1>2. r.start \in Nat /\ r.length \in Nat /\ r.section \in Nat
  BY DEF Row
<1>3. QED
  BY <1>1, <1>2 DEF End

\* A statement of the first pass leaves every section as large as it was.
LEMMA TableGrows ==
    ASSUME Inv, Inv', phase = "collect", phase' = "collect",
           trail' = Append(trail, layout')
    PROVE  /\ layout.sections \in Seq(Section) /\ layout'.sections \in Seq(Section)
           /\ Extends(layout.sections, layout'.sections)
<1>1. /\ trail \in Seq(Layouts) /\ Len(trail) \in Nat \ {0} /\ layout = trail[Len(trail)]
      /\ layout \in Layouts /\ layout' \in Layouts
  BY DEF Inv, TypeOK, PhaseInv, TrailInv
<1>2. /\ Len(trail') = Len(trail) + 1
      /\ trail'[Len(trail)] = layout /\ trail'[Len(trail')] = layout'
  BY <1>1
<1>3. Len(trail) \in 1 .. Len(trail')
  BY <1>1, <1>2
<1>4. Extends(trail'[Len(trail)].sections, trail'[Len(trail')].sections)
  BY <1>3 DEF Inv, TrailInv
<1>5. QED
  BY <1>1, <1>2, <1>4 DEF Layouts

LEMMA StayWithin ==
    ASSUME TypeOK, NEW t \in Seq(Section), NEW u \in Seq(Section), Extends(t, u),
           RowsWithin(t)
    PROVE  RowsWithin(u)
<1>1. ASSUME NEW i \in 1 .. Len(rows)
      PROVE  /\ rows[i].section \in 1 .. Len(u)
             /\ End(rows[i]) <= u[rows[i].section].size
  <2>1. PICK k \in 1 .. Len(t) : k = rows[i].section
    BY DEF RowsWithin
  <2>2. k \in 1 .. Len(u) /\ t[k] \in Section /\ u[k] \in Section /\ u[k].size >= t[k].size
    BY DEF Extends, Later
  <2>3. End(rows[i]) <= t[k].size /\ End(rows[i]) \in Nat
    BY <2>1, RowType DEF RowsWithin
  <2>4. t[k].size \in Nat /\ u[k].size \in Nat
    BY <2>2 DEF Section
  <2>5. End(rows[i]) <= u[k].size
    BY <2>2, <2>3, <2>4
  <2>6. QED
    BY <2>1, <2>2, <2>5
<1>2. QED
  BY <1>1 DEF RowsWithin

\* A statement that ends no procedure.
LEMMA CollectRows ==
    ASSUME Inv, Inv', RowsInv, phase = "collect", phase' = "collect",
           trail' = Append(trail, layout'), rows' = rows, ProcApart'
    PROVE  RowsInv'
<1>1. RowsWithin(layout'.sections)
  BY TableGrows, StayWithin DEF Inv, RowsInv
<1>2. RowsWithin(layout.sections)' /\ RowsApart'
  BY <1>1 DEF RowsInv, RowsWithin, RowsApart
<1>3. QED
  BY <1>2 DEF RowsInv

\* .cfi_endproc closes a row that ends where its section does.
LEMMA EndProcRows ==
    ASSUME Inv, Inv', RowsInv, NEW dwarf \in BOOLEAN, CollectEndProc(dwarf)
    PROVE  RowsInv'
<1>1. /\ phase = "collect" /\ phase' = "collect" /\ trail' = Append(trail, layout')
      /\ layout' = layout /\ proc.open /\ proc' = NoProc
      /\ proc.section = layout.section /\ Offset >= proc.start
  BY DEF CollectEndProc, At, Advance
<1>2. PICK row : row = [section |-> proc.section, start |-> proc.start,
                        length |-> Offset - proc.start]
  OBVIOUS
<1>3. rows \in Seq(Row) /\ rows' = Append(rows, row)
  BY <1>2 DEF CollectEndProc, Inv, TypeOK
<1>4. /\ layout.section \in 1 .. Len(layout.sections) /\ layout.sections \in Seq(Section)
      /\ Offset = layout.sections[layout.section].size /\ Offset \in Nat
  <2>1. layout.section \in 1 .. Len(layout.sections) /\ layout.sections \in Seq(Section)
    BY DEF Inv, TypeOK, Layouts
  <2>2. layout.sections[layout.section] \in Section
    BY <2>1
  <2>3. layout.sections[layout.section].size \in Nat
    BY <2>2 DEF Section
  <2>4. QED
    BY <2>1, <2>3 DEF Offset, Current
<1>5. proc.start \in Nat
  <2>1. proc \in ProcState
    BY <1>1 DEF Inv, TypeOK, NoProc
  <2>2. QED
    BY <2>1 DEF ProcState
<1>6. /\ End(row) = Offset /\ row.start = proc.start /\ row.section = layout.section
  BY <1>1, <1>2, <1>4, <1>5 DEF End
<1>7. /\ Len(rows') = Len(rows) + 1 /\ Len(rows) \in Nat /\ rows'[Len(rows')] = row
      /\ \A i \in 1 .. Len(rows) : rows'[i] = rows[i]
  BY <1>3
<1>8. \A i \in 1 .. Len(rows') : i \in 1 .. Len(rows) \/ i = Len(rows')
  BY <1>7
<1>9. RowsWithin(layout.sections)'
  <2>1. ASSUME NEW i \in 1 .. Len(rows')
        PROVE  /\ rows'[i].section \in 1 .. Len(layout'.sections)
               /\ End(rows'[i]) <= layout'.sections[rows'[i].section].size
    <3>1. CASE i \in 1 .. Len(rows)
      BY <1>1, <1>7, <3>1 DEF RowsInv, RowsWithin
    <3>2. CASE i = Len(rows')
      BY <1>1, <1>4, <1>6, <1>7, <3>2
    <3>3. QED
      BY <1>8, <3>1, <3>2
  <2>2. QED
    BY <2>1 DEF RowsWithin, End
<1>10. RowsApart'
  <2>1. ASSUME NEW i \in 1 .. Len(rows'), NEW j \in 1 .. Len(rows'),
               i < j, rows'[i].section = rows'[j].section
        PROVE  End(rows'[i]) <= rows'[j].start
    <3>1. i \in 1 .. Len(rows)
      BY <1>7, <1>8, <2>1
    <3>2. CASE j \in 1 .. Len(rows)
      BY <1>7, <2>1, <3>1, <3>2 DEF RowsInv, RowsApart
    <3>3. CASE j = Len(rows')
      BY <1>1, <1>2, <1>6, <1>7, <2>1, <3>1, <3>3 DEF RowsInv, ProcApart
    <3>4. QED
      BY <1>8, <3>2, <3>3
  <2>2. QED
    BY <2>1 DEF RowsApart, End
<1>11. ProcApart'
  BY <1>1 DEF ProcApart, NoProc
<1>12. QED
  BY <1>1, <1>9, <1>10, <1>11 DEF RowsInv

LEMMA RowsStep ==
    ASSUME Inv, Inv', RowsInv, [LayoutNext]_layoutVars
    PROVE  RowsInv'
<1> DEFINE Plain == \/ CollectSymbol \/ CollectBytes \/ CollectFill \/ CollectSpace
                    \/ CollectAlign \/ CollectSection \/ CollectZerofills
           Second == \/ PrepareUnwind \/ LayoutPrepare \/ LayoutReset
                     \/ EmitNothing \/ EmitBytes \/ EmitFill \/ EmitSpaces
                     \/ EmitAlignment \/ EmitSection \/ EmitZerofills
                     \/ EndEmit \/ ResolveFixups \/ LayoutFail
<1>1. CASE Plain
  <2>1. /\ phase = "collect" /\ phase' = "collect" /\ trail' = Append(trail, layout')
        /\ rows' = rows /\ proc' = proc
    BY <1>1 DEF CollectSymbol, CollectBytes, CollectFill, CollectSpace, CollectAlign,
                CollectSection, CollectZerofills, At, Advance, unwind
  <2>2. ProcApart'
    BY <2>1 DEF RowsInv, ProcApart
  <2>3. QED
    BY <2>1, <2>2, CollectRows
<1>2. CASE CollectStartProc
  <2>1. /\ phase = "collect" /\ phase' = "collect" /\ trail' = Append(trail, layout')
        /\ rows' = rows /\ proc'.section = layout.section /\ proc'.start = Offset
    BY <1>2 DEF CollectStartProc, At, Advance
  <2>2. ASSUME NEW i \in 1 .. Len(rows), rows[i].section = layout.section
        PROVE  End(rows[i]) <= Offset
    BY <2>1, <2>2 DEF RowsInv, RowsWithin, Offset, Current
  <2>3. ProcApart'
    BY <2>1, <2>2 DEF ProcApart
  <2>4. QED
    BY <2>1, <2>3, CollectRows
<1>3. CASE CollectCfi
  <2>1. /\ phase = "collect" /\ phase' = "collect" /\ trail' = Append(trail, layout')
        /\ rows' = rows /\ proc.open
    BY <1>3 DEF CollectCfi, At, Advance
  <2>2. proc \in ProcState
    BY <2>1 DEF Inv, TypeOK, NoProc
  <2>3. proc'.section = proc.section /\ proc'.start = proc.start
    BY <1>3, <2>2 DEF CollectCfi, ProcState
  <2>4. ProcApart'
    BY <2>1, <2>3 DEF RowsInv, ProcApart
  <2>5. QED
    BY <2>1, <2>4, CollectRows
<1>4. CASE \E dwarf \in BOOLEAN : CollectEndProc(dwarf)
  BY <1>4, EndProcRows
<1>5. CASE EndCollect
  <2>1. /\ phase = "collect" /\ phase' = "unwind" /\ rows' = rows /\ trail' = trail
        /\ prog' = prog /\ pc = Len(prog) + 1
    BY <1>5 DEF EndCollect, source, unwind
  <2>2. Final' = layout
    BY <2>1 DEF Inv, PhaseInv, Final
  <2>3. RowsWithin(Final.sections)' /\ RowsApart'
    BY <2>1, <2>2 DEF RowsInv, RowsWithin, RowsApart
  <2>4. QED
    BY <2>1, <2>3 DEF RowsInv
<1>6. ASSUME rows' = rows, trail' = trail, prog' = prog
      PROVE  /\ RowsApart' = RowsApart /\ Final' = Final
             /\ RowsWithin(Final.sections)' = RowsWithin(Final.sections)
  BY <1>6 DEF RowsApart, RowsWithin, Final
<1>7. CASE Second
  <2>1. /\ rows' = rows /\ trail' = trail /\ prog' = prog
        /\ phase = "collect" => phase' = "error"
        /\ phase' # "collect" /\ phase' # "done"
        /\ phase = "error" => phase' = "error"
    BY <1>7 DEF PrepareUnwind, LayoutPrepare, LayoutReset, EmitNothing, EmitBytes, EmitFill,
                EmitSpaces, EmitAlignment, EmitSection, EmitZerofills, EndEmit,
                ResolveFixups, LayoutFail, Proceed, At, source, unwind
  <2>2. QED
    BY <1>6, <2>1 DEF RowsInv
<1>8. CASE LayoutFinish \/ LayoutFinishElf
  <2>1. /\ rows' = rows /\ trail' = trail /\ prog' = prog /\ phase = "finish"
        /\ phase' # "collect" /\ Agree(layout, Final, Final) /\ layout \in Layouts
    BY <1>8 DEF LayoutFinish, LayoutFinishElf, source, unwind, Inv, PhaseInv, TypeOK
  <2>2. SizesKept
    BY <2>1 DEF Agree, SizesKept
  <2>3. /\ Len(layout.sections) <= Len(layout'.sections)
        /\ \A i \in 1 .. Len(layout.sections) : layout'.sections[i] = layout.sections[i]
        /\ Len(layout.sections) \in Nat
    <3>1. CASE LayoutFinish
      <4>1. layout.sections \in Seq(Section)
        BY <2>1 DEF Layouts
      <4>2. PICK w \in Seq(Section) : w = WrittenUnwind(Len(rows), frames)
        BY UnwindLemma DEF Inv, TypeOK
      <4>3. layout'.sections = layout.sections \o w
        BY <2>1, <3>1, <4>2 DEF LayoutFinish, Layouts
      <4>4. QED
        BY <4>1, <4>2, <4>3, ConcatProperties
    <3>2. CASE LayoutFinishElf
      BY <2>1, <3>2 DEF LayoutFinishElf, Layouts
    <3>3. QED
      BY <1>8, <3>1, <3>2
  <2>4. SizesKept'
    <3>1. Len(Final.sections) \in Nat
      BY <2>1 DEF Agree, Layouts
    <3>2. QED
      BY <1>6, <2>1, <2>2, <2>3, <3>1 DEF SizesKept
  <2>5. QED
    BY <1>6, <2>1, <2>4 DEF RowsInv
<1>9. CASE UNCHANGED layoutVars
  <2>1. /\ rows' = rows /\ trail' = trail /\ prog' = prog /\ phase' = phase
        /\ layout' = layout /\ proc' = proc
    BY <1>9 DEF layoutVars, source, unwind
  <2>2. /\ RowsWithin(layout.sections)' = RowsWithin(layout.sections)
        /\ ProcApart' = ProcApart /\ SizesKept' = SizesKept
    BY <1>6, <2>1 DEF RowsWithin, ProcApart, SizesKept
  <2>3. QED
    BY <1>6, <2>1, <2>2 DEF RowsInv
<1>10. QED
  BY <1>1, <1>2, <1>3, <1>4, <1>5, <1>7, <1>8, <1>9 DEF LayoutNext, LayoutTerminated

\* No two rows of the unwind sections cover one address, and none reaches
\* beyond the end of its section (finish_cfi_proc).
THEOREM RowsAreDisjoint == LayoutSpec => []RowsDisjoint
<1>1. LayoutInit => RowsInv
  BY DEF LayoutInit, NoProc, RowsInv, RowsApart, RowsWithin, ProcApart
<1>2. Inv /\ Inv' /\ RowsInv /\ [LayoutNext]_layoutVars => RowsInv'
  BY RowsStep
<1>3. Inv /\ RowsInv => RowsDisjoint
  <2> SUFFICES ASSUME Inv, RowsInv, phase = "done"
               PROVE  RowsDisjoint
    BY DEF RowsDisjoint
  <2>1. ASSUME NEW i \in 1 .. Len(rows)
        PROVE  rows[i].start + rows[i].length <= layout.sections[rows[i].section].size
    BY DEF RowsInv, RowsWithin, SizesKept, End
  <2>2. QED
    BY <2>1 DEF RowsInv, RowsApart, RowsDisjoint, End
<1>4. QED
  BY <1>1, <1>2, <1>3, Invariance, PTL DEF LayoutSpec

-----------------------------------------------------------------------------
(* The addresses of sections, for any table of fingerprints.               *)

Fingerprint == [name : SectionNames, kind : Kinds, align : 0 .. MaxPower, size : Nat]

\* checked_align_value reaches a multiple.
LEMMA AlignedLemma ==
    ASSUME NEW v \in Nat, NEW p \in 0 .. MaxPower
    PROVE  AlignUp(v, p) % 2^p = 0
<1> DEFINE a == 2^p
<1>1. a \in Nat \ {0}
  BY PowersAssumption
<1>2. AlignUp(v, p) = a * ((v + (a - 1)) \div a)
  BY DEF AlignUp
<1> HIDE DEF a
<1>3. v + (a - 1) \in Nat
  BY <1>1
<1>4. ASSUME NEW n \in Nat
      PROVE  (a * (n \div a)) % a = 0
  BY <1>1
<1>5. (a * ((v + (a - 1)) \div a)) % a = 0
  BY <1>3, <1>4
<1>6. QED
  BY <1>2, <1>5 DEF a

\* The sections before i.
Earlier(prints, i) == { j \in 1 .. Len(prints) : Precedes(prints, j, i) }

LEMMA PlacesGrow ==
    ASSUME NEW prints, Len(prints) \in Nat,
           NEW i \in 1 .. Len(prints), NEW j \in 1 .. Len(prints), Precedes(prints, i, j)
    PROVE  PlaceInOrder(prints, i) < PlaceInOrder(prints, j)
<1>1. i \in Earlier(prints, j) /\ i \notin Earlier(prints, i)
  BY DEF Earlier, Precedes
<1>2. ASSUME NEW k \in Earlier(prints, i)
      PROVE  k \in Earlier(prints, j)
  BY DEF Earlier, Precedes
<1>3. IsFiniteSet(1 .. Len(prints))
  BY FS_Interval
<1>4. IsFiniteSet(Earlier(prints, j))
  BY <1>3, FS_Subset DEF Earlier
<1>5. /\ Cardinality(Earlier(prints, i)) \in Nat /\ Cardinality(Earlier(prints, j)) \in Nat
      /\ Cardinality(Earlier(prints, i)) < Cardinality(Earlier(prints, j))
  BY <1>1, <1>2, <1>4, StrictlyMore
<1>6. QED
  BY <1>5 DEF PlaceInOrder, Earlier

\* Every section has a place of its own.
LEMMA PlacesDiffer ==
    ASSUME NEW prints, Len(prints) \in Nat
    PROVE  /\ \A i \in 1 .. Len(prints) : PlaceInOrder(prints, i) \in 1 .. Len(prints)
           /\ \A i, j \in 1 .. Len(prints) :
                 PlaceInOrder(prints, i) = PlaceInOrder(prints, j) => i = j
<1> DEFINE n == Len(prints)
<1>1. ASSUME NEW i \in 1 .. n
      PROVE  PlaceInOrder(prints, i) \in 1 .. n
  <2>1. IsFiniteSet(1 .. n) /\ Cardinality(1 .. n) = n
    <3>1. 1 \in Int /\ n \in Int
      OBVIOUS
    <3> HIDE DEF n
    <3>2. /\ IsFiniteSet(1 .. n)
          /\ Cardinality(1 .. n) = IF 1 > n THEN 0 ELSE n - 1 + 1
      BY <3>1, FS_Interval
    <3>3. QED
      BY <3>2 DEF n
  <2>2. Earlier(prints, i) \in SUBSET (1 .. n) /\ Earlier(prints, i) # 1 .. n
    <3>1. i \notin Earlier(prints, i)
      BY DEF Earlier, Precedes
    <3>2. QED
      BY <3>1 DEF Earlier
  <2>3. Cardinality(Earlier(prints, i)) \in Nat /\ Cardinality(Earlier(prints, i)) < n
    BY <2>1, <2>2, StrictlyMore
  <2>4. QED
    BY <2>3 DEF PlaceInOrder, Earlier
<1>2. ASSUME NEW i \in 1 .. n, NEW j \in 1 .. n, PlaceInOrder(prints, i) = PlaceInOrder(prints, j)
      PROVE  i = j
  <2>1. CASE Precedes(prints, i, j)
    BY <1>1, <1>2, <2>1, PlacesGrow
  <2>2. CASE Precedes(prints, j, i)
    BY <1>1, <1>2, <2>2, PlacesGrow
  <2>3. QED
    BY <2>1, <2>2 DEF Precedes
<1>3. QED
  BY <1>1, <1>2

\* The order lists the sections by their places.
LEMMA OrderLemma ==
    ASSUME NEW prints, Len(prints) \in Nat
    PROVE  LET order == AllocationOrder(prints)
           IN  /\ \A k \in 1 .. Len(prints) : order[k] \in 1 .. Len(prints)
               /\ \A k \in 1 .. Len(prints) : PlaceInOrder(prints, order[k]) = k
               /\ \A i \in 1 .. Len(prints) : order[PlaceInOrder(prints, i)] = i
<1> DEFINE n == Len(prints)
           rank == [i \in 1 .. n |-> PlaceInOrder(prints, i)]
           order == AllocationOrder(prints)
<1>1. rank \in [1 .. n -> 1 .. n] /\ \A i, j \in 1 .. n : rank[i] = rank[j] => i = j
  BY PlacesDiffer
<1>2. \A k \in 1 .. n : \E i \in 1 .. n : rank[i] = k
  <2> HIDE DEF rank
  <2>1. QED
    BY <1>1, PlacesAllTaken
<1>3. ASSUME NEW k \in 1 .. n
      PROVE  order[k] \in 1 .. n /\ PlaceInOrder(prints, order[k]) = k
  <2>1. \E i \in 1 .. n : PlaceInOrder(prints, i) = k
    BY <1>2
  <2>2. order[k] = CHOOSE i \in 1 .. n : PlaceInOrder(prints, i) = k
    BY DEF AllocationOrder
  <2>3. QED
    BY <2>1, <2>2
<1>4. ASSUME NEW i \in 1 .. n
      PROVE  order[PlaceInOrder(prints, i)] = i
  <2>1. PlaceInOrder(prints, i) \in 1 .. n
    BY PlacesDiffer
  <2>2. /\ PlaceInOrder(prints, order[PlaceInOrder(prints, i)]) = PlaceInOrder(prints, i)
        /\ order[PlaceInOrder(prints, i)] \in 1 .. n
    BY <1>3, <2>1
  <2>3. QED
    BY <2>2, PlacesDiffer
<1>5. QED
  BY <1>3, <1>4

\* A list of ends: each section after the last one of the order, aligned.
EndsOf(prints, end) ==
    /\ end \in [0 .. Len(prints) -> Nat]
    /\ end[0] = 0
    /\ \A k \in 1 .. Len(prints) :
          LET print == prints[AllocationOrder(prints)[k]]
          IN  end[k] = AlignUp(end[k - 1], print.align) + print.size

LEMMA EndsLemma ==
    ASSUME NEW prints \in Seq(Fingerprint)
    PROVE  EndsOf(prints, Ends(prints))
<1> DEFINE n == Len(prints)
           order == AllocationOrder(prints)
           Body(e) == [k \in 0 .. n |->
                          IF k = 0 THEN 0
                          ELSE AlignUp(e[k - 1], prints[order[k]].align) + prints[order[k]].size]
           step == [k \in 1 .. n |-> [v \in Nat |->
                       AlignUp(v, prints[order[k]].align) + prints[order[k]].size]]
<1>1. n \in Nat
  OBVIOUS
<1>2. ASSUME NEW k \in 1 .. n
      PROVE  prints[order[k]].align \in 0 .. MaxPower /\ prints[order[k]].size \in Nat
  <2>1. order[k] \in 1 .. n
    BY <1>1, OrderLemma
  <2>2. PICK print \in Fingerprint : print = prints[order[k]]
    BY <2>1
  <2>3. QED
    BY <2>2 DEF Fingerprint
<1>3. ASSUME NEW k \in 1 .. n, NEW v \in Nat
      PROVE  AlignUp(v, prints[order[k]].align) + prints[order[k]].size \in Nat
  <2>1. AlignUp(v, prints[order[k]].align) \in Nat
    BY <1>2, AlignUpLemma
  <2>2. QED
    BY <1>2, <2>1
<1>4. step \in [1 .. n -> [Nat -> Nat]]
  BY <1>3
<1>5. \A k \in 1 .. n, v \in Nat :
         step[k][v] = AlignUp(v, prints[order[k]].align) + prints[order[k]].size
  OBVIOUS
<1>6. Ends(prints) = CHOOSE e : e = Body(e)
  BY DEF Ends
<1> HIDE DEF step, order
<1>7. PICK f : Iterated(f, n, Nat, 0, step)
  <2>1. 0 \in Nat
    OBVIOUS
  <2>2. QED
    BY <1>1, <1>4, <2>1, Iterates
<1>8. f = Body(f)
  <2>1. f = [k \in 0 .. n |-> f[k]]
    BY <1>7 DEF Iterated
  <2>2. ASSUME NEW k \in 0 .. n
        PROVE  f[k] = IF k = 0 THEN 0
                      ELSE AlignUp(f[k - 1], prints[order[k]].align) + prints[order[k]].size
    <3>1. CASE k = 0
      BY <1>7, <3>1 DEF Iterated
    <3>2. CASE k # 0
      <4>1. k \in 1 .. n /\ k - 1 \in 0 .. n
        BY <1>1, <3>2
      <4>2. f[k - 1] \in Nat /\ f[k] = step[k][f[k - 1]]
        BY <1>7, <4>1 DEF Iterated
      <4>3. QED
        BY <1>5, <3>2, <4>1, <4>2
    <3>3. QED
      BY <3>1, <3>2
  <2>3. QED
    BY <2>1, <2>2
<1>9. PICK e : e = Ends(prints) /\ e = Body(e)
  BY <1>6, <1>8
<1>10. e[0] = 0
  <2>1. 0 \in 0 .. n
    BY <1>1
  <2>2. QED
    BY <1>9, <2>1
<1>11. ASSUME NEW k \in 1 .. n
       PROVE  e[k] = AlignUp(e[k - 1], prints[order[k]].align) + prints[order[k]].size
  <2>1. k \in 0 .. n /\ k # 0
    BY <1>1
  <2>2. QED
    BY <1>9, <2>1
<1>12. e = [k \in 0 .. n |-> e[k]]
  BY <1>9, Zenon
<1> HIDE DEF Body
<1> DEFINE Bad == { k \in 0 .. n : e[k] \notin Nat }
<1>13. Bad = {}
  <2>1. SUFFICES ASSUME Bad # {}
                 PROVE  FALSE
    OBVIOUS
  <2>2. Bad \in SUBSET Nat
    OBVIOUS
  <2>3. PICK k \in Bad : \A m \in Nat : m < k => m \notin Bad
    <3> HIDE DEF Bad
    <3>1. QED
      BY <2>1, <2>2, LeastOne
  <2>4. k \in 1 .. n /\ k - 1 \in Nat /\ k - 1 < k /\ k - 1 \in 0 .. n
    BY <1>1, <1>10, <2>3
  <2>5. k - 1 \notin Bad
    BY <2>3, <2>4
  <2>6. e[k - 1] \in Nat
    BY <2>4, <2>5
  <2>7. e[k] \in Nat
    BY <1>3, <1>11, <2>4, <2>6
  <2>8. QED
    BY <2>3, <2>7
<1>14. e \in [0 .. n -> Nat]
  BY <1>12, <1>13
<1>15. QED
  BY <1>9, <1>10, <1>11, <1>14 DEF EndsOf, order

\* A section has its range between the end of the one before it in the order
\* and its own.
Ranged(prints, base, end) ==
    \A i \in 1 .. Len(prints) :
        LET k == PlaceInOrder(prints, i)
        IN  /\ k \in 1 .. Len(prints)
            /\ base[i] \in Nat /\ base[i] % 2^prints[i].align = 0
            /\ end[k - 1] <= base[i]
            /\ end[k] = base[i] + prints[i].size

LEMMA BasesLemma ==
    ASSUME NEW prints \in Seq(Fingerprint)
    PROVE  Ranged(prints, Bases(prints), Ends(prints))
<1> DEFINE n == Len(prints)
           order == AllocationOrder(prints)
<1>1. n \in Nat
  OBVIOUS
<1>2. PICK end : end = Ends(prints) /\ EndsOf(prints, end)
  BY EndsLemma
<1>3. PICK base : base = Bases(prints)
  OBVIOUS
<1>4. ASSUME NEW i \in 1 .. n
      PROVE  LET k == PlaceInOrder(prints, i)
             IN  /\ k \in 1 .. n
                 /\ base[i] \in Nat /\ base[i] % 2^prints[i].align = 0
                 /\ end[k - 1] <= base[i]
                 /\ end[k] = base[i] + prints[i].size
  <2>1. PICK k \in 1 .. n : k = PlaceInOrder(prints, i)
    BY <1>1, PlacesDiffer
  <2>2. order[k] = i /\ \A m \in 1 .. n : order[m] = i => m = k
    BY <1>1, <2>1, OrderLemma
  <2>3. base[i] = AlignUp(end[(CHOOSE m \in 1 .. n : order[m] = i) - 1], prints[i].align)
    BY <1>2, <1>3 DEF Bases
  <2>4. (CHOOSE m \in 1 .. n : order[m] = i) = k
    BY <2>2
  <2>5. base[i] = AlignUp(end[k - 1], prints[i].align)
    BY <2>3, <2>4
  <2>6. PICK print \in Fingerprint : print = prints[i]
    OBVIOUS
  <2>7. prints[i].align \in 0 .. MaxPower /\ prints[i].size \in Nat
    BY <2>6 DEF Fingerprint
  <2>8. end[k - 1] \in Nat
    BY <1>1, <1>2 DEF EndsOf
  <2>9. /\ base[i] \in Nat /\ base[i] % 2^prints[i].align = 0
        /\ end[k - 1] <= base[i]
    BY <2>5, <2>7, <2>8, AlignUpLemma, AlignedLemma
  <2>10. end[k] = base[i] + prints[i].size
    BY <1>2, <2>2, <2>5 DEF EndsOf
  <2>11. QED
    BY <2>1, <2>9, <2>10
<1>5. QED
  BY <1>2, <1>3, <1>4 DEF Ranged

LEMMA EndsGrow ==
    ASSUME NEW prints \in Seq(Fingerprint), NEW end, EndsOf(prints, end),
           NEW a \in 0 .. Len(prints), NEW b \in 0 .. Len(prints), a <= b
    PROVE  end[a] <= end[b]
<1> DEFINE n == Len(prints)
           Bad == { c \in a .. b : ~ (end[a] <= end[c]) }
<1>1. SUFFICES ASSUME Bad # {}
               PROVE  FALSE
  <2>1. b \in a .. b
    OBVIOUS
  <2>2. QED
    BY <2>1
<1>2. PICK c \in Bad : \A m \in Nat : m < c => m \notin Bad
  <2>1. Bad \in SUBSET Nat
    OBVIOUS
  <2> HIDE DEF Bad
  <2>2. QED
    BY <1>1, <2>1, LeastOne
<1>3. end[a] \in Nat
  BY DEF EndsOf
<1>4. /\ c \in 1 .. n /\ c - 1 \in Nat /\ c - 1 < c /\ c - 1 \in a .. b
      /\ c - 1 \in 0 .. n /\ c \in 0 .. n /\ ~ (end[a] <= end[c])
  BY <1>2, <1>3
<1>5. end[a] <= end[c - 1]
  BY <1>2, <1>4
<1>6. end[c - 1] \in Nat /\ end[c] \in Nat
  BY <1>4 DEF EndsOf
<1>7. end[c - 1] <= end[c]
  <2>1. AllocationOrder(prints)[c] \in 1 .. n
    BY <1>4, OrderLemma
  <2>2. PICK print \in Fingerprint : print = prints[AllocationOrder(prints)[c]]
    BY <2>1
  <2>3. end[c] = AlignUp(end[c - 1], print.align) + print.size
    BY <1>4, <2>2 DEF EndsOf
  <2>4. print.align \in 0 .. MaxPower /\ print.size \in Nat
    BY DEF Fingerprint
  <2>5. AlignUp(end[c - 1], print.align) \in Nat /\ AlignUp(end[c - 1], print.align) >= end[c - 1]
    BY <1>6, <2>4, AlignUpLemma
  <2>6. QED
    BY <1>6, <2>3, <2>4, <2>5
<1>8. QED
  BY <1>3, <1>4, <1>5, <1>6, <1>7

\* The range of a section of an earlier place comes first.
LEMMA RangesInOrder ==
    ASSUME NEW prints \in Seq(Fingerprint),
           NEW i \in 1 .. Len(prints), NEW j \in 1 .. Len(prints),
           PlaceInOrder(prints, i) < PlaceInOrder(prints, j)
    PROVE  Bases(prints)[i] + prints[i].size <= Bases(prints)[j]
<1>1. PICK end : end = Ends(prints) /\ EndsOf(prints, end)
  BY EndsLemma
<1>2. PICK base : base = Bases(prints) /\ Ranged(prints, base, end)
  BY <1>1, BasesLemma
<1>3. PICK k \in 1 .. Len(prints) : k = PlaceInOrder(prints, i)
  BY <1>2 DEF Ranged
<1>4. PICK m \in 1 .. Len(prints) : m = PlaceInOrder(prints, j)
  BY <1>2 DEF Ranged
<1>5. k \in 0 .. Len(prints) /\ m - 1 \in 0 .. Len(prints) /\ k <= m - 1
  BY <1>3, <1>4
<1>6. end[k] <= end[m - 1]
  BY <1>1, <1>5, EndsGrow
<1>7. end[k] = base[i] + prints[i].size /\ end[m - 1] <= base[j] /\ base[j] \in Nat
  BY <1>2, <1>3, <1>4 DEF Ranged
<1>8. end[k] \in Nat /\ end[m - 1] \in Nat
  BY <1>1, <1>5 DEF EndsOf
<1>9. end[k] <= base[j]
  BY <1>6, <1>7, <1>8
<1>10. QED
  BY <1>2, <1>7, <1>9

\* At the end the addresses are those of the layout that was remembered.
BasesInv == phase = "done" => expected \in Seq(Fingerprint) /\ bases = Bases(expected)

LEMMA PrintsLemma ==
    ASSUME NEW t \in Seq(Section)
    PROVE  Fingerprints(t) \in Seq(Fingerprint)
<1>1. ASSUME NEW i \in 1 .. Len(t)
      PROVE  Fingerprints(t)[i] \in Fingerprint
  <2>1. PICK x \in Section : x = t[i]
    OBVIOUS
  <2>2. QED
    BY <2>1 DEF Fingerprints, Fingerprint, Section
<1>2. Fingerprints(t) \in [1 .. Len(t) -> Fingerprint]
  BY <1>1 DEF Fingerprints
<1>3. QED
  BY <1>2, SeqDef

LEMMA BasesStep ==
    ASSUME Inv, BasesInv, [LayoutNext]_layoutVars
    PROVE  BasesInv'
<1>1. CASE phase = "finish" /\ expected' = expected /\ bases' = bases
  <2>1. /\ expected = Fingerprints(Remembered) /\ bases = Bases(expected)
        /\ Len(trail) = Len(prog) + 1 /\ trail \in Seq(Layouts) /\ Len(prog) \in Nat
        /\ Len(rows) \in Nat /\ frames \in [count : Nat, bytes : Nat]
    BY <1>1 DEF Inv, TypeOK, PhaseInv
  <2>2. Final.sections \in Seq(Section)
    BY <2>1 DEF Final, Layouts
  <2>3. ReservedUnwind(Len(rows), frames) \in Seq(Section)
    BY <2>1, UnwindLemma
  <2>4. Remembered \in Seq(Section)
    BY <2>2, <2>3, ConcatProperties DEF Remembered
  <2>5. expected \in Seq(Fingerprint)
    BY <2>1, <2>4, PrintsLemma
  <2>6. QED
    BY <1>1, <2>1, <2>5 DEF BasesInv
<1>2. CASE phase' # "done"
  BY <1>2 DEF BasesInv
<1>3. CASE phase = "done" /\ expected' = expected /\ bases' = bases
  BY <1>3 DEF BasesInv
<1>4. \/ phase' # "done"
      \/ phase \in {"finish", "done"} /\ expected' = expected /\ bases' = bases
  BY DEF LayoutNext, CollectSymbol, CollectBytes, CollectFill, CollectSpace, CollectAlign,
         CollectSection, CollectZerofills, CollectStartProc, CollectCfi, CollectEndProc,
         EndCollect, PrepareUnwind, LayoutPrepare, LayoutReset, EmitNothing, EmitBytes,
         EmitFill, EmitSpaces, EmitAlignment, EmitSection, EmitZerofills, EndEmit,
         ResolveFixups, LayoutFinish, LayoutFinishElf, LayoutFail, LayoutTerminated,
         Advance, Proceed, At, layoutVars, agreed
<1>5. QED
  BY <1>1, <1>2, <1>3, <1>4

\* Every section has an address range of its own, aligned as it asked, and
\* the sections that take no room in the file have theirs last
\* (section_base_addresses_for).
THEOREM BasesAreDisjoint == LayoutSpec => []BasesDisjoint
<1>1. LayoutInit => BasesInv
  BY DEF LayoutInit, BasesInv
<1>2. Inv /\ BasesInv /\ [LayoutNext]_layoutVars => BasesInv'
  BY BasesStep
<1>3. BasesInv => BasesDisjoint
  <2> SUFFICES ASSUME BasesInv, phase = "done"
               PROVE  BasesDisjoint
    BY DEF BasesDisjoint
  <2>1. PICK t \in Seq(Fingerprint) : t = expected
    BY DEF BasesInv
  <2>2. bases = Bases(t) /\ Ranged(t, bases, Ends(t)) /\ Len(t) \in Nat
    BY <2>1, BasesLemma DEF BasesInv
  <2>3. \A i, j \in 1 .. Len(t) :
           PlaceInOrder(t, i) < PlaceInOrder(t, j) => bases[i] + t[i].size <= bases[j]
    BY <2>2, RangesInOrder
  <2>4. ASSUME NEW i \in 1 .. Len(t), NEW j \in 1 .. Len(t), i # j
        PROVE  bases[i] + t[i].size <= bases[j] \/ bases[j] + t[j].size <= bases[i]
    <3>1. /\ PlaceInOrder(t, i) \in Nat /\ PlaceInOrder(t, j) \in Nat
          /\ PlaceInOrder(t, i) # PlaceInOrder(t, j)
      BY <2>2, <2>4, PlacesDiffer
    <3>2. QED
      BY <2>3, <3>1
  <2>5. ASSUME NEW i \in 1 .. Len(t), NEW j \in 1 .. Len(t),
               t[i].kind # "zerofill", t[j].kind = "zerofill"
        PROVE  bases[i] + t[i].size <= bases[j]
    <3>1. Precedes(t, i, j)
      BY <2>5 DEF Precedes
    <3>2. QED
      BY <2>2, <2>3, <3>1, PlacesGrow
  <2>6. \A i \in 1 .. Len(t) : bases[i] % 2^t[i].align = 0
    BY <2>2 DEF Ranged
  <2>7. QED
    BY <2>1, <2>4, <2>5, <2>6 DEF BasesDisjoint
<1>4. QED
  BY <1>1, <1>2, <1>3, Invariance, PTL DEF LayoutSpec

-----------------------------------------------------------------------------
(* The assembler and Layout. *)

\* Every step of the assembler is one of Layout's, or none that Layout knows.
LEMMA StepIsLayouts == [Next]_vars => [LayoutNext]_layoutVars
  BY DEF Next, LayoutNext, vars, layoutVars, source, unwind, agreed, symbols,
         CollectLabel, CollectSet, CollectComm, CollectAttribute, CollectZerofill,
         CollectOther, PrepareExpressions, Reset, EmitSet, EmitQuad, EmitFixup,
         EmitLabel, EmitZerofillSymbol, EmitOther, ResolveData64, ResolveBranch,
         ResolvePage, ResolveHere, Resolve, EndFixups, Finish, FinishElf, Fail,
         Terminated

\* The passes of the assembler, with all that they do to symbols, fixups and
\* relocations, are the passes that Layout has: a refinement, by the
\* variables they share.
THEOREM AssemblerIsLayout == Spec => LayoutSpec
<1>1. Init => LayoutInit
  BY DEF Init
<1>2. QED
  BY <1>1, StepIsLayouts, PTL DEF Spec, LayoutSpec

\* The steps alone, as the runs check them.
THEOREM StepsAreLayouts == Spec => LayoutSteps
  BY StepIsLayouts, PTL DEF Spec, LayoutSteps

\* What is proved of Layout holds of the assembler: the invariant that the
\* passes agree by (fields of struct Assembler), and the claims it is for.
LEMMA LayoutHolds == Spec => []Inv
  BY AssemblerIsLayout, Invariance, PTL

\* No drift, no row that overlaps another, and no section address that does:
\* in the assembler as a whole.
THEOREM LayoutClaimsHold ==
    Spec => [](LayoutAgrees /\ NoLayoutDrift /\ ContentMatchesSize /\ EmissionFits
                 /\ RowsDisjoint /\ BasesDisjoint)
  BY AssemblerIsLayout, PassesAgree, NoDrift, ContentMatches, EmissionNeverRunsOut,
     RowsAreDisjoint, BasesAreDisjoint, PTL

-----------------------------------------------------------------------------
(* Fixups and their relocations. *)

\* A branch that has to keep a relocation has one that names its symbol.
Kept(fix) ==
    fix.kind = "Branch26" /\ Preemptible(Operand(fix).symbol) =>
        \E i \in RelocsAt(fix) : relocs[i].target = Symbol(Operand(fix).symbol)

\* The fixups that are done with.
Done == { fixups[k] : k \in 1 .. resolved }

\* Fixups are collected by the second pass, and are resolved after it, one
\* after the other.  A fixup that is done with has the relocation it needs;
\* what follows adds relocations and removes none, and the symbol it means
\* is not given another value.
FixupsInv ==
    /\ IsSequence(fixups) /\ IsSequence(relocs)
    /\ resolved \in 0 .. Len(fixups)
    /\ phase \notin {"fixups", "finish", "done", "error", "drift"} => resolved = 0
    /\ phase \in {"finish", "done"} => resolved = Len(fixups)
    /\ phase \in {"fixups", "finish", "done"} /\ format = "elf" =>
          \A fix \in Done : Kept(fix)

\* A sequence of which one is the beginning.
LEMMA SequenceGrows ==
    ASSUME NEW s, IsSequence(s), NEW e
    PROVE  /\ IsSequence(Append(s, e))
           /\ Len(s) \in Nat /\ DOMAIN s = 1 .. Len(s)
           /\ Len(Append(s, e)) = Len(s) + 1
           /\ Append(s, e)[Len(s) + 1] = e
           /\ \A k \in 1 .. Len(s) : Append(s, e)[k] = s[k]
<1> DEFINE S == ToSet(s) \union {e}
<1>1. s \in Seq(S) /\ e \in S
  BY DEF IsSequence, ToSet
<1> HIDE DEF S
<1>2. PICK t : t = Append(s, e)
  OBVIOUS
<1>3. t \in Seq(S) /\ Len(t) = Len(s) + 1
  BY <1>1, <1>2
<1>4. t \in Seq(ToSet(t))
  BY <1>3 DEF ToSet
<1>5. QED
  BY <1>1, <1>2, <1>3, <1>4 DEF IsSequence

LEMMA SequencesJoin ==
    ASSUME NEW s, IsSequence(s), NEW u, IsSequence(u)
    PROVE  /\ IsSequence(s \o u)
           /\ Len(s) \in Nat /\ Len(u) \in Nat
           /\ DOMAIN s = 1 .. Len(s) /\ DOMAIN (s \o u) = 1 .. Len(s) + Len(u)
           /\ \A k \in 1 .. Len(s) : (s \o u)[k] = s[k]
           /\ \A k \in 1 .. Len(u) : (s \o u)[Len(s) + k] = u[k]
<1> DEFINE S == ToSet(s) \union ToSet(u)
<1>1. s \in Seq(S) /\ u \in Seq(S)
  BY DEF IsSequence, ToSet
<1> HIDE DEF S
<1>2. PICK t : t = s \o u
  OBVIOUS
<1>3. t \in Seq(S) /\ Len(t) = Len(s) + Len(u)
  BY <1>1, <1>2
<1>4. t \in Seq(ToSet(t))
  BY <1>3 DEF ToSet
<1>5. QED
  BY <1>1, <1>2, <1>3, <1>4 DEF IsSequence

\* Steps before the fixups are resolved: what they collect is a sequence.
LEMMA BeforeFixups ==
    ASSUME FixupsInv,
           phase \notin {"fixups", "finish", "done", "error", "drift"},
           phase' \notin {"finish", "done"},
           resolved' = resolved,
           IsSequence(fixups'), IsSequence(relocs')
    PROVE  FixupsInv'
<1>1. resolved = 0 /\ 0 \in 0 .. Len(fixups')
  BY DEF FixupsInv, IsSequence
<1>2. Done' = {}
  BY <1>1 DEF Done
<1>3. QED
  BY <1>1, <1>2 DEF FixupsInv

LEMMA CollectFixups ==
    ASSUME FixupsInv,
           \/ CollectLabel \/ CollectSet \/ CollectComm \/ CollectAttribute
           \/ CollectZerofill \/ CollectOther \/ PrepareExpressions \/ Reset
    PROVE  FixupsInv'
<1>1. IsSequence(<<>>)
  BY DEF IsSequence
<1>2. CASE Reset
  <2>1. phase = "reset" /\ phase' = "emit" /\ resolved' = resolved
        /\ fixups' = <<>> /\ relocs' = <<>>
    BY <1>2 DEF Reset, LayoutReset
  <2>2. QED
    BY <1>1, <2>1, BeforeFixups
<1>3. CASE PrepareExpressions
  <2>1. phase = "expressions" /\ phase' = "reset" /\ UNCHANGED <<fixups, relocs, resolved>>
    BY <1>3 DEF PrepareExpressions, LayoutPrepare, resolution
  <2>2. QED
    BY <2>1, BeforeFixups DEF FixupsInv
<1>4. CASE ~ Reset /\ ~ PrepareExpressions
  <2>1. /\ phase \in {"collect", "unwind"}
        /\ phase' \in {"collect", "unwind", "expressions"}
        /\ UNCHANGED <<fixups, relocs, resolved>>
    BY <1>4 DEF CollectLabel, CollectSet, CollectComm, CollectAttribute,
       CollectZerofill, CollectOther, LaterUnchanged, emission, resolution,
       CollectSymbol, CollectZerofills, CollectBytes, CollectFill, CollectSpace,
       CollectAlign, CollectSection, CollectStartProc, CollectCfi, CollectEndProc,
       EndCollect, PrepareUnwind, Advance, At
  <2>2. QED
    BY <2>1, BeforeFixups DEF FixupsInv
<1>5. QED
  BY <1>2, <1>3, <1>4

LEMMA EmitFixups ==
    ASSUME FixupsInv,
           EmitSet \/ EmitQuad \/ EmitFixup \/ EmitLabel \/ EmitZerofillSymbol \/ EmitOther
    PROVE  FixupsInv'
<1>1. /\ phase = "emit" /\ phase' \in {"emit", "fixups"}
      /\ resolved' = resolved /\ relocs' = relocs
  BY DEF EmitSet, EmitQuad, EmitFixup, EmitLabel, EmitZerofillSymbol, EmitOther,
     EmitNothing, EmitBytes, EmitFill, EmitSpaces, EmitAlignment, EmitSection,
     EmitZerofills, EndEmit, Proceed, At, resolution
<1>2. fixups' = fixups \/ \E e : fixups' = Append(fixups, e)
  BY DEF EmitSet, EmitQuad, EmitFixup, EmitLabel, EmitZerofillSymbol, EmitOther, emission
<1>3. IsSequence(fixups) /\ IsSequence(relocs)
  BY DEF FixupsInv
<1>4. IsSequence(fixups')
  <2>1. ASSUME NEW e, fixups' = Append(fixups, e)
        PROVE  IsSequence(fixups')
    <3>1. PICK t : t = Append(fixups, e) /\ IsSequence(t)
      BY <1>3, SequenceGrows
    <3>2. QED
      BY <2>1, <3>1
  <2>2. QED
    BY <1>2, <1>3, <2>1
<1>5. QED
  BY <1>1, <1>3, <1>4, BeforeFixups

\* A fixup that is done with stays so while others are resolved.
LEMMA StaysKept ==
    ASSUME NEW fix, Kept(fix), IsSequence(relocs),
           NEW recorded, IsSequence(recorded), relocs' = relocs \o recorded,
           UNCHANGED <<labels, absolutes, attrs>>
    PROVE  Kept(fix)'
<1>1. /\ Operand(fix)' = Operand(fix)
      /\ Preemptible(Operand(fix).symbol)' = Preemptible(Operand(fix).symbol)
  BY DEF Operand, Environment, Preemptible
<1>2. SUFFICES ASSUME fix.kind = "Branch26", Preemptible(Operand(fix).symbol)
               PROVE  \E i \in RelocsAt(fix)' : relocs'[i].target = Symbol(Operand(fix).symbol)
  BY <1>1 DEF Kept, Symbol
<1>3. PICK i \in RelocsAt(fix) : relocs[i].target = Symbol(Operand(fix).symbol)
  BY <1>2 DEF Kept
<1>4. i \in DOMAIN relocs' /\ relocs'[i] = relocs[i]
  <2>1. PICK t : t = relocs \o recorded
    OBVIOUS
  <2>2. i \in DOMAIN relocs
    BY <1>3 DEF RelocsAt
  <2>3. /\ Len(relocs) \in Nat /\ Len(recorded) \in Nat
        /\ DOMAIN relocs = 1 .. Len(relocs) /\ DOMAIN t = 1 .. Len(relocs) + Len(recorded)
        /\ \A k \in 1 .. Len(relocs) : t[k] = relocs[k]
    BY <2>1, SequencesJoin
  <2>4. i \in DOMAIN t /\ t[i] = relocs[i]
    BY <2>2, <2>3
  <2>5. QED
    BY <2>1, <2>4
<1>5. i \in RelocsAt(fix)'
  BY <1>3, <1>4 DEF RelocsAt
<1>6. QED
  BY <1>3, <1>4, <1>5

\* One more fixup is done with.
LEMMA ResolveFixup ==
    ASSUME FixupsInv, resolved < Len(fixups),
           NEW written, NEW recorded, IsSequence(recorded), Resolve(written, recorded),
           NEW fix, fix = Fix, format = "elf" => Kept(fix)'
    PROVE  FixupsInv'
<1>1. /\ phase = "fixups" /\ phase' = "fixups"
      /\ resolved' = resolved + 1
      /\ relocs' = relocs \o recorded
      /\ UNCHANGED <<labels, absolutes, attrs, fixups, format>>
  BY DEF Resolve, layoutVars, source, symbols, emission
<1>2. IsSequence(fixups') /\ resolved' \in 0 .. Len(fixups')
  BY <1>1 DEF FixupsInv, IsSequence
<1>3. IsSequence(relocs')
  <2>1. PICK t : t = relocs \o recorded /\ IsSequence(t)
    BY SequencesJoin DEF FixupsInv
  <2>2. QED
    BY <1>1, <2>1
<1>4. ASSUME format = "elf", NEW f \in Done'
      PROVE  Kept(f)'
  <2>1. PICK k \in 1 .. resolved + 1 : f = fixups[k]
    BY <1>1, <1>4 DEF Done
  <2>2. CASE k = resolved + 1
    BY <1>4, <2>1, <2>2 DEF Fix
  <2>3. CASE k # resolved + 1
    <3>1. f \in Done
      BY <1>1, <2>1, <2>3 DEF FixupsInv, Done
    <3>2. Kept(f) /\ IsSequence(relocs)
      BY <1>1, <1>4, <3>1 DEF FixupsInv
    <3>3. QED
      BY <1>1, <3>2, StaysKept
  <2>4. QED
    BY <2>2, <2>3
<1>5. QED
  BY <1>1, <1>2, <1>3, <1>4 DEF FixupsInv

\* The relocations of a fixup are a list, in all cases.
LEMMA RecordedLists ==
    /\ IsSequence(<<>>)
    /\ \A r : IsSequence(<< r >>)
    /\ \A q, r : IsSequence(<< q, r >>)
    /\ \A type, n, addend : IsSequence(SymbolRelocs(type, n, addend))
    /\ \A c : IsSequence(Data64Relocs(c))
<1>1. IsSequence(<<>>)
  BY DEF IsSequence
<1>2. ASSUME NEW r PROVE IsSequence(<< r >>)
  BY DEF IsSequence, ToSet
<1>3. ASSUME NEW q, NEW r PROVE IsSequence(<< q, r >>)
  <2>1. PICK u : u = << q, r >>
    OBVIOUS
  <2>2. u \in Seq({q, r}) /\ Len(u) = 2
    BY <2>1
  <2>3. u \in Seq(ToSet(u))
    BY <2>2 DEF ToSet
  <2>4. QED
    BY <2>1, <2>3 DEF IsSequence
<1>4. ASSUME NEW type, NEW n, NEW addend
      PROVE  IsSequence(SymbolRelocs(type, n, addend))
  <2>1. PICK r : r = Reloc(type, Symbol(n), addend)
    OBVIOUS
  <2>2. PICK q : q = Reloc("ADDEND", Raw(addend), 0)
    OBVIOUS
  <2>3. PICK p : p = Reloc(type, Symbol(n), 0)
    OBVIOUS
  <2>4. SymbolRelocs(type, n, addend) \in { << r >>, <<>> \o << p >>, << q >> \o << p >> }
    BY <2>1, <2>2, <2>3 DEF SymbolRelocs
  <2>5. IsSequence(<<>> \o << p >>) /\ IsSequence(<< q >> \o << p >>)
    BY <1>1, <1>2, SequencesJoin, Zenon
  <2>6. QED
    BY <1>2, <2>4, <2>5
<1>5. ASSUME NEW c PROVE IsSequence(Data64Relocs(c))
  BY <1>1, <1>2, <1>3, Zenon DEF Data64Relocs
<1>6. QED
  BY <1>1, <1>2, <1>3, <1>4, <1>5

\* A branch to a symbol of ELF that can be preempted: whether it is defined
\* here or not, the relocation recorded names it.
LEMMA ResolveSteps ==
    ASSUME FixupsInv, ResolveData64 \/ ResolveBranch \/ ResolvePage
    PROVE  FixupsInv'
<1>1. PICK fix : fix = Fix
  OBVIOUS
<1>2. CASE ResolveData64
  <2>1. PICK written, recorded :
           IsSequence(recorded) /\ Resolve(written, recorded)
    BY <1>2, RecordedLists DEF ResolveData64
  <2>2. resolved < Len(fixups) /\ fix.kind = "Data64"
    BY <1>1, <1>2 DEF ResolveData64
  <2>3. Kept(fix)'
    BY <2>2 DEF Kept
  <2>4. QED
    BY <1>1, <2>1, <2>2, <2>3, ResolveFixup
<1>3. CASE ResolvePage
  <2>1. PICK written, recorded :
           IsSequence(recorded) /\ Resolve(written, recorded)
    BY <1>3, RecordedLists DEF ResolvePage
  <2>2. resolved < Len(fixups) /\ fix.kind \in PageKinds
    BY <1>1, <1>3 DEF ResolvePage, PageKinds
  <2>3. Kept(fix)'
    BY <2>2 DEF Kept, PageKinds
  <2>4. QED
    BY <1>1, <2>1, <2>2, <2>3, ResolveFixup
<1>4. CASE ResolveBranch
  <2>1. resolved < Len(fixups)
    BY <1>4 DEF ResolveBranch
  <2>2. PICK n : n = Classify(fix.expr, Environment).symbol
    OBVIOUS
  <2>3. PICK addend : addend = Classify(fix.expr, Environment).addend
    OBVIOUS
  <2>4. PICK written, recorded :
           /\ IsSequence(recorded) /\ Resolve(written, recorded)
           /\ \/ recorded = SymbolRelocs("BRANCH26", n, addend)
              \/ recorded = << Reloc("BRANCH26", Symbol(n), 0) >>
              \/ recorded = <<>> /\ ~ RelocatesLocally(n, addend)
    BY <1>1, <1>4, <2>2, <2>3, RecordedLists DEF ResolveBranch, ResolveHere
  <2>5. ASSUME format = "elf", fix.kind = "Branch26", Preemptible(n)
        PROVE  \E i \in RelocsAt(fix)' : relocs'[i].target = Symbol(n)
    <3>1. PICK r : /\ recorded = << r >>
                   /\ r.target = Symbol(n) /\ r.section = fix.section /\ r.offset = fix.offset
      BY <1>1, <2>4, <2>5 DEF RelocatesLocally, SymbolRelocs, Reloc
    <3>2. IsSequence(relocs) /\ relocs' = relocs \o << r >>
      BY <2>4, <3>1 DEF FixupsInv, Resolve
    <3>3. PICK i : i = Len(relocs) + 1
      OBVIOUS
    <3>4. i \in DOMAIN relocs' /\ relocs'[i] = r
      BY <3>2, <3>3 DEF IsSequence
    <3>5. i \in RelocsAt(fix)'
      BY <3>1, <3>4 DEF RelocsAt
    <3>6. QED
      BY <3>1, <3>4, <3>5
  <2>6. UNCHANGED <<labels, absolutes, attrs>>
    BY <2>4 DEF Resolve, symbols, emission
  <2>7. fix.kind = "Branch26" => Operand(fix)'.symbol = n
    BY <2>2, <2>6 DEF Operand, Environment
  <2>8. Preemptible(n)' = Preemptible(n)
    BY <2>6 DEF Preemptible
  <2>9. format = "elf" => Kept(fix)'
    BY <2>5, <2>7, <2>8 DEF Kept, Symbol
  <2>10. QED
    BY <1>1, <2>1, <2>4, <2>9, ResolveFixup
<1>5. QED
  BY <1>2, <1>3, <1>4

\* Steps that leave fixups and relocations as they are.
LEMMA FixupsSame ==
    ASSUME FixupsInv, EndFixups \/ Finish \/ Fail \/ Terminated \/ UNCHANGED vars
    PROVE  FixupsInv'
<1>1. /\ UNCHANGED <<fixups, relocs, resolved, labels, absolutes, attrs, format>>
      /\ Done' = Done
  BY DEF EndFixups, Finish, Fail, Terminated, vars, layoutVars, source, symbols,
     emission, resolution, Done, ResolveFixups, LayoutFinish, LayoutFail,
     LayoutTerminated
<1>2. ASSUME NEW fix, Kept(fix)
      PROVE  Kept(fix)'
  BY <1>1, <1>2 DEF Kept, Operand, Environment, Preemptible, RelocsAt, Symbol
<1>3. \/ phase' = phase \/ phase' = "error"
      \/ phase = "fixups" /\ phase' = "finish" /\ resolved = Len(fixups)
      \/ phase = "finish" /\ phase' \in {"done", "drift"}
  BY DEF EndFixups, Finish, Fail, Terminated, vars, layoutVars, ResolveFixups,
     LayoutFinish, LayoutFail, LayoutTerminated
<1>4. QED
  BY <1>1, <1>2, <1>3 DEF FixupsInv

\* A definition that can be preempted is not replaced by its section.
LEMMA FinishElfKeeps ==
    ASSUME FixupsInv, FinishElf
    PROVE  FixupsInv'
<1>1. /\ phase = "finish" /\ phase' = "done" /\ format' = format
      /\ UNCHANGED <<fixups, resolved, labels, absolutes, attrs>>
      /\ Done' = Done
  BY DEF FinishElf, LayoutFinishElf, source, symbols, emission, Done
<1>2. /\ IsSequence(relocs) /\ DOMAIN relocs' = DOMAIN relocs
      /\ \A i \in DOMAIN relocs : relocs'[i] = Rela(relocs[i])
  BY DEF FixupsInv, FinishElf
<1>3. IsSequence(relocs')
  BY <1>2 DEF IsSequence, ToSet, FinishElf
<1>4. ASSUME NEW fix, Kept(fix)
      PROVE  Kept(fix)'
  <2>1. PICK n : n = Operand(fix).symbol
    OBVIOUS
  <2>2. Operand(fix)'.symbol = n
    BY <1>1, <2>1 DEF Operand, Environment
  <2>3. Preemptible(n)' = Preemptible(n)
    BY <1>1 DEF Preemptible
  <2>4. ASSUME fix.kind = "Branch26", Preemptible(n)
        PROVE  \E i \in RelocsAt(fix)' : relocs'[i].target = Symbol(n)
    <3>1. PICK i \in RelocsAt(fix) : relocs[i].target = Symbol(n)
      BY <1>4, <2>1, <2>4 DEF Kept
    <3>2. i \in DOMAIN relocs /\ relocs[i].target.name = n
      BY <3>1 DEF RelocsAt, Symbol
    <3>3. Rela(relocs[i]) = relocs[i]
      BY <2>4, <3>2 DEF Rela, IsFixed
    <3>4. i \in RelocsAt(fix)'
      BY <1>2, <3>1, <3>2, <3>3 DEF RelocsAt
    <3>5. QED
      BY <1>2, <3>1, <3>2, <3>3, <3>4
  <2>5. QED
    BY <2>2, <2>3, <2>4 DEF Kept, Symbol
<1>5. QED
  BY <1>1, <1>3, <1>4 DEF FixupsInv

LEMMA FixupsHold == Spec => []FixupsInv
<1>1. Init => FixupsInv
  <2>1. IsSequence(<<>>)
    BY DEF IsSequence
  <2>2. QED
    BY <2>1 DEF Init, LayoutInit, FixupsInv, Done
<1>2. FixupsInv /\ [Next]_vars => FixupsInv'
  BY CollectFixups, EmitFixups, ResolveSteps, FixupsSame, FinishElfKeeps DEF Next
<1>3. QED
  BY <1>1, <1>2, PTL DEF Spec

\* should_emit_local_branch_reloc and finish_elf: a branch to a symbol that
\* may be bound elsewhere at link time has a relocation with the symbol's
\* name, in every ELF object.
THEOREM PreemptibleStays == Spec => []PreemptibleKept
<1>1. FixupsInv => PreemptibleKept
  <2> SUFFICES ASSUME FixupsInv, phase = "done", format = "elf", NEW fix \in ToSet(fixups)
               PROVE  Kept(fix)
    BY DEF PreemptibleKept, Kept
  <2>1. resolved = Len(fixups) /\ IsSequence(fixups)
    BY DEF FixupsInv
  <2>2. fix \in Done
    BY <2>1 DEF Done, IsSequence, ToSet
  <2>3. QED
    BY <2>2 DEF FixupsInv
<1>2. QED
  BY <1>1, FixupsHold, PTL

-----------------------------------------------------------------------------
(* Assignments in step. *)

\* The record that the first pass makes of statement s.
Recorded(s) == [name |-> s.name, expr |-> s.expr]

\* The assignments are those of the first p - 1 statements, in their order.
Listed(p) ==
    /\ Len(assigns) = SetsBefore(p)
    /\ \A j \in 1 .. p - 1 :
          prog[j].op = "set" => assigns[SetsBefore(j) + 1].name = prog[j].name

\* What a name has after the first k assignments (VisibleSlot), by the
\* assignments that give it a value.
VisibleOf(slots, k) ==
    LET prior == { i \in slots : i <= k }
    IN  IF prior # {} THEN Max(prior) ELSE Min(slots)

\* The values of all names after the first k assignments.
ValuesAfter(k) ==
    [n \in Names |-> IF ValueSlots(n) = {} THEN Undefined
                     ELSE Absolute(values[VisibleOf(ValueSlots(n), k)])]

\* While the first pass lists the assignments, the list is that of the
\* statements before; the second pass has applied as many of them as it has
\* met, and what it sees is what VisibleSlot says.
SetsInv ==
    /\ IsSequence(assigns)
    /\ phase = "collect" => Listed(pc)
    /\ phase \in {"unwind", "expressions", "reset", "emit", "fixups", "finish", "done"} =>
          Listed(Len(prog) + 1)
    /\ phase \in {"reset", "emit"} => initial = ValuesAfter(0)
    /\ phase \in {"reset", "emit", "fixups", "finish", "done"} =>
          /\ DOMAIN aliases = DOMAIN assigns
          /\ final = ValuesAfter(Len(assigns))
    /\ phase = "emit" =>
          /\ cursor = SetsBefore(pc) + 1
          /\ absolutes = ValuesAfter(cursor - 1)
    /\ phase \in {"fixups", "finish", "done"} => absolutes = final

\* Counting the assignments before a statement.
LEMMA CountSets ==
    ASSUME NEW p \in Nat \ {0}
    PROVE  /\ SetsBefore(1) = 0
           /\ SetsBefore(p) \in Nat
           /\ SetsBefore(p + 1) = SetsBefore(p) + (IF prog[p].op = "set" THEN 1 ELSE 0)
           /\ \A j \in 1 .. p : SetsBefore(j) \in Nat /\ SetsBefore(j) <= SetsBefore(p)
           /\ \A j \in 1 .. p - 1 : prog[j].op = "set" => SetsBefore(j) + 1 \in 1 .. SetsBefore(p)
<1> DEFINE Sets(q) == { j \in 1 .. q - 1 : prog[j].op = "set" }
<1>1. \A q : SetsBefore(q) = Cardinality(Sets(q))
  BY DEF SetsBefore
<1>2. ASSUME NEW q \in Nat \ {0}
      PROVE  IsFiniteSet(Sets(q)) /\ Cardinality(Sets(q)) \in Nat
  <2>1. IsFiniteSet(1 .. q - 1)
    <3>1. 1 \in Int /\ q - 1 \in Int
      OBVIOUS
    <3>2. QED
      BY <3>1, FS_Interval
  <2>2. IsFiniteSet(Sets(q))
    BY <2>1, FS_Subset
  <2>3. QED
    BY <2>2, FS_CardinalityType
<1>3. ASSUME NEW q \in Nat \ {0}
      PROVE  Cardinality(Sets(q + 1)) = Cardinality(Sets(q)) + (IF prog[q].op = "set" THEN 1 ELSE 0)
  <2>1. CASE prog[q].op = "set"
    <3>1. Sets(q + 1) = Sets(q) \union {q} /\ q \notin Sets(q)
      BY <2>1
    <3>2. IsFiniteSet(Sets(q))
      BY <1>2
    <3> HIDE DEF Sets
    <3>3. Cardinality(Sets(q) \union {q}) = Cardinality(Sets(q)) + 1
      BY <3>1, <3>2, FS_AddElement
    <3>4. QED
      BY <1>2, <2>1, <3>1, <3>3
  <2>2. CASE prog[q].op # "set"
    <3>1. Sets(q + 1) = Sets(q)
      BY <2>2
    <3> HIDE DEF Sets
    <3>2. QED
      BY <1>2, <2>2, <3>1
  <2>3. QED
    BY <2>1, <2>2
<1>4. Cardinality(Sets(1)) = 0
  <2>1. Sets(1) = {}
    OBVIOUS
  <2>2. QED
    BY <2>1, FS_EmptySet
<1>5. ASSUME NEW j \in 1 .. p
      PROVE  j \in Nat \ {0} /\ Cardinality(Sets(j)) <= Cardinality(Sets(p))
  <2>1. Sets(j) \subseteq Sets(p)
    OBVIOUS
  <2>2. QED
    BY <1>2, <2>1, FS_Subset
<1>6. ASSUME NEW j \in 1 .. p - 1, prog[j].op = "set"
      PROVE  Cardinality(Sets(j)) + 1 \in 1 .. Cardinality(Sets(p))
  <2>1. j \in Nat \ {0} /\ j + 1 \in 1 .. p
    OBVIOUS
  <2>2. Cardinality(Sets(j + 1)) = Cardinality(Sets(j)) + 1
    BY <1>3, <1>6, <2>1
  <2>3. Cardinality(Sets(j + 1)) <= Cardinality(Sets(p))
    BY <1>5, <2>1
  <2>4. Cardinality(Sets(j)) \in Nat /\ Cardinality(Sets(p)) \in Nat
    BY <1>2, <2>1
  <2> HIDE DEF Sets
  <2>5. QED
    BY <2>2, <2>3, <2>4
<1> HIDE DEF Sets
<1>7. \A j \in 1 .. p : Cardinality(Sets(j)) \in Nat
  BY <1>2
<1>8. QED
  BY <1>1, <1>2, <1>3, <1>4, <1>5, <1>6, <1>7

\* The first of the values, to begin with; the last one in the end; and in
\* between a new one with every assignment that gives the name a value.
LEMMA VisibleMoves ==
    ASSUME NEW n \in Nat, NEW slots \in SUBSET (1 .. n), slots # {}, NEW k \in 0 .. n
    PROVE  /\ VisibleOf(slots, 0) = Min(slots)
           /\ VisibleOf(slots, n) = Max(slots)
           /\ k + 1 \in slots => VisibleOf(slots, k + 1) = k + 1
           /\ k + 1 \notin slots => VisibleOf(slots, k + 1) = VisibleOf(slots, k)
<1> DEFINE Prior(m) == { i \in slots : i <= m }
<1>1. \A m : VisibleOf(slots, m) = IF Prior(m) # {} THEN Max(Prior(m)) ELSE Min(slots)
  BY DEF VisibleOf
<1>2. \A i \in slots : i \in Nat /\ 1 <= i /\ i <= n
  <2>1. \A i \in slots : i \in 1 .. n
    OBVIOUS
  <2>2. \A i \in 1 .. n : i \in Nat /\ 1 <= i /\ i <= n
    OBVIOUS
  <2>3. QED
    BY <2>1, <2>2
<1>3. Prior(0) = {} /\ Prior(n) = slots
  <2>1. \A i \in slots : ~ (i <= 0) /\ i <= n
    BY <1>2
  <2>2. QED
    BY <2>1, Zenon
<1>4. k + 1 \notin slots => Prior(k + 1) = Prior(k)
  <2>1. ASSUME k + 1 \notin slots, NEW i \in slots
        PROVE  i <= k + 1 <=> i <= k
    <3>1. i \in Nat /\ k \in Nat /\ i # k + 1
      BY <1>2, <2>1
    <3>2. QED
      BY <3>1
  <2>2. QED
    BY <2>1, Zenon
<1>5. ASSUME k + 1 \in slots
      PROVE  Prior(k + 1) # {} /\ Max(Prior(k + 1)) = k + 1
  <2>1. k + 1 \in Prior(k + 1) /\ k + 1 \in Nat
    BY <1>5
  <2>2. Prior(k + 1) \in SUBSET Nat /\ \A i \in Prior(k + 1) : i <= k + 1
    BY <1>2
  <2> HIDE DEF Prior
  <2>3. /\ Max(Prior(k + 1)) \in Prior(k + 1)
        /\ \A i \in Prior(k + 1) : Max(Prior(k + 1)) >= i
    BY <2>1, <2>2, MaxOfNaturals
  <2>4. PICK m \in Nat : m = Max(Prior(k + 1))
    BY <2>2, <2>3
  <2>5. m <= k + 1 /\ m >= k + 1
    BY <2>1, <2>2, <2>3, <2>4
  <2>6. QED
    BY <2>1, <2>4, <2>5
<1> HIDE DEF Prior
<1>6. QED
  BY <1>1, <1>3, <1>4, <1>5

\* A statement that assigns nothing leaves the list as it is.
LEMMA ListedSame ==
    ASSUME NEW p \in Nat \ {0}, Listed(p), prog[p].op # "set", UNCHANGED <<assigns, prog>>
    PROVE  Listed(p + 1)'
<1>1. SetsBefore(p + 1) = SetsBefore(p)
  <2>1. SetsBefore(p) \in Nat /\ SetsBefore(p + 1) = SetsBefore(p) + 0
    BY CountSets
  <2>2. QED
    BY <2>1
<1>2. \A j : SetsBefore(j)' = SetsBefore(j)
  BY DEF SetsBefore
<1>3. ASSUME NEW j \in 1 .. (p + 1) - 1, prog[j].op = "set"
      PROVE  assigns[SetsBefore(j) + 1].name = prog[j].name
  <2>1. j \in 1 .. p - 1
    BY <1>3
  <2>2. QED
    BY <1>3, <2>1 DEF Listed
<1>4. QED
  BY <1>1, <1>2, <1>3 DEF Listed

\* collect_layout, .set: the assignment is the next one of the list.
LEMMA ListedSet ==
    ASSUME NEW p \in Nat \ {0}, Listed(p), IsSequence(assigns), prog[p].op = "set",
           prog' = prog, assigns' = Append(assigns, Recorded(prog[p]))
    PROVE  IsSequence(assigns') /\ Listed(p + 1)'
<1>1. PICK t : t = Append(assigns, Recorded(prog[p]))
  OBVIOUS
<1>2. /\ IsSequence(t) /\ Len(assigns) \in Nat
      /\ Len(t) = Len(assigns) + 1 /\ t[Len(assigns) + 1] = Recorded(prog[p])
      /\ \A k \in 1 .. Len(assigns) : t[k] = assigns[k]
  BY <1>1, SequenceGrows
<1>3. SetsBefore(p + 1) = SetsBefore(p) + 1 /\ SetsBefore(p) \in Nat
      /\ \A j \in 1 .. p - 1 : prog[j].op = "set" => SetsBefore(j) + 1 \in 1 .. SetsBefore(p)
  BY CountSets
<1>4. \A j : SetsBefore(j)' = SetsBefore(j)
  BY DEF SetsBefore
<1>5. Len(assigns) = SetsBefore(p)
  BY DEF Listed
<1>6. ASSUME NEW j \in 1 .. (p + 1) - 1, prog[j].op = "set"
      PROVE  t[SetsBefore(j) + 1].name = prog[j].name
  <2>1. CASE j = p
    BY <1>2, <1>5, <2>1 DEF Recorded
  <2>2. CASE j # p
    <3>1. j \in 1 .. p - 1
      BY <2>2
    <3>2. t[SetsBefore(j) + 1] = assigns[SetsBefore(j) + 1]
      BY <1>2, <1>3, <1>5, <1>6, <3>1
    <3>3. QED
      BY <1>6, <3>1, <3>2 DEF Listed
  <2>3. QED
    BY <2>1, <2>2
<1>7. QED
  BY <1>1, <1>2, <1>3, <1>4, <1>5, <1>6 DEF Listed

LEMMA CollectSets ==
    ASSUME Inv, SetsInv,
           \/ CollectLabel \/ CollectSet \/ CollectComm \/ CollectAttribute
           \/ CollectZerofill \/ CollectOther
    PROVE  SetsInv'
<1>1. PICK p \in Nat \ {0} : p = pc
  BY DEF Inv, TypeOK
<1>2. IsSequence(assigns)
  BY DEF SetsInv
<1>3. CASE CollectSet
  <2>1. /\ phase = "collect" /\ phase' = "collect" /\ pc' = p + 1
        /\ prog' = prog /\ prog[p].op = "set"
        /\ assigns' = Append(assigns, Recorded(prog[p]))
    BY <1>1, <1>3 DEF CollectSet, CollectSymbol, Advance, At, Is, Stmt, source, Recorded
  <2>2. IsSequence(assigns') /\ Listed(p + 1)'
    BY <1>1, <1>2, <2>1, ListedSet DEF SetsInv
  <2>3. QED
    BY <2>1, <2>2 DEF SetsInv, Listed
<1>4. CASE CollectOther /\ (EndCollect \/ PrepareUnwind)
  <2>1. UNCHANGED <<assigns, prog>>
    BY <1>4 DEF CollectOther, symbols, EndCollect, PrepareUnwind, source
  <2>2. \/ phase = "collect" /\ pc = Len(prog) + 1 /\ phase' = "unwind"
        \/ phase = "unwind" /\ phase' = "expressions"
    BY <1>4 DEF EndCollect, PrepareUnwind
  <2>3. Listed(Len(prog) + 1)
    BY <2>2 DEF SetsInv
  <2>4. Listed(Len(prog) + 1)'
    BY <2>1, <2>3 DEF Listed, SetsBefore
  <2>5. QED
    BY <1>2, <2>1, <2>2, <2>4 DEF SetsInv
<1>5. CASE ~ CollectSet /\ ~ (CollectOther /\ (EndCollect \/ PrepareUnwind))
  <2>1. /\ phase = "collect" /\ phase' = "collect" /\ pc' = p + 1
        /\ UNCHANGED <<assigns, prog>> /\ prog[p].op # "set"
    BY <1>1, <1>5 DEF CollectLabel, CollectComm, CollectAttribute, CollectZerofill,
       CollectOther, symbols, CollectSymbol, CollectZerofills, CollectBytes, CollectFill,
       CollectSpace, CollectAlign, CollectSection, CollectStartProc, CollectCfi,
       CollectEndProc, Advance, At, Is, Stmt, source, ByteOps
  <2>2. Listed(p + 1)'
    BY <1>1, <2>1, ListedSame DEF SetsInv
  <2>3. QED
    BY <1>2, <2>1, <2>2 DEF SetsInv, Listed
<1>6. QED
  BY <1>3, <1>4, <1>5

\* prepare_expression_state: the first value of every name, and the last.
LEMMA PrepareSets ==
    ASSUME SetsInv, PrepareExpressions
    PROVE  SetsInv'
<1>1. /\ phase = "expressions" /\ phase' = "reset" /\ UNCHANGED <<assigns, prog>>
      /\ DOMAIN aliases' = DOMAIN assigns
  BY DEF PrepareExpressions, LayoutPrepare, source
<1>2. Listed(Len(prog) + 1)'
  BY <1>1 DEF SetsInv, Listed, SetsBefore
<1>3. PICK n \in Nat : n = Len(assigns) /\ DOMAIN assigns = 1 .. n
  BY DEF SetsInv, IsSequence
<1>4. \A name : ValueSlots(name)' \in SUBSET (1 .. n)
  BY <1>1, <1>3 DEF ValueSlots
<1>5. ASSUME NEW name, ValueSlots(name)' # {}
      PROVE  /\ VisibleOf(ValueSlots(name)', 0) = Min(ValueSlots(name)')
             /\ VisibleOf(ValueSlots(name)', n) = Max(ValueSlots(name)')
  <2>1. PICK slots \in SUBSET (1 .. n) : slots = ValueSlots(name)'
    BY <1>4
  <2>2. 0 \in 0 .. n
    OBVIOUS
  <2>3. QED
    BY <1>5, <2>1, <2>2, VisibleMoves
<1>6. /\ initial' = [name \in Names |->
                        IF ValueSlots(name)' = {} THEN Undefined
                        ELSE Absolute(values'[Min(ValueSlots(name)')])]
      /\ final' = [name \in Names |->
                        IF ValueSlots(name)' = {} THEN Undefined
                        ELSE Absolute(values'[Max(ValueSlots(name)')])]
  BY DEF PrepareExpressions
<1>7. initial' = ValuesAfter(0)' /\ final' = ValuesAfter(n)'
  BY <1>5, <1>6 DEF ValuesAfter
<1>8. final' = ValuesAfter(Len(assigns))'
  BY <1>1, <1>3, <1>7 DEF ValuesAfter
<1>9. IsSequence(assigns')
  BY <1>1 DEF SetsInv
<1>10. QED
  BY <1>1, <1>2, <1>7, <1>8, <1>9 DEF SetsInv

\* reset_for_emission: names start with their first value.
LEMMA ResetSets ==
    ASSUME SetsInv, Reset
    PROVE  SetsInv'
<1>1. /\ phase = "reset" /\ phase' = "emit" /\ pc' = 1 /\ cursor' = 1
      /\ absolutes' = initial
      /\ UNCHANGED <<assigns, prog, aliases, values, initial, final>>
  BY DEF Reset, LayoutReset, source, symbols, expressions
<1>2. SetsBefore(1) = 0
  <2>1. 1 \in Nat \ {0}
    OBVIOUS
  <2>2. QED
    BY <2>1, CountSets
<1>3. /\ \A j : SetsBefore(j)' = SetsBefore(j)
      /\ \A k : ValuesAfter(k)' = ValuesAfter(k)
  BY <1>1 DEF SetsBefore, ValuesAfter, ValueSlots
<1>4. Listed(Len(prog) + 1)'
  BY <1>1, <1>3 DEF SetsInv, Listed
<1>5. /\ DOMAIN aliases' = DOMAIN assigns' /\ initial' = ValuesAfter(0)'
      /\ final' = ValuesAfter(Len(assigns))'
  <2>1. DOMAIN aliases = DOMAIN assigns /\ initial = ValuesAfter(0)
        /\ final = ValuesAfter(Len(assigns))
    BY <1>1 DEF SetsInv
  <2>2. ValuesAfter(Len(assigns))' = ValuesAfter(Len(assigns))
    BY <1>1 DEF ValuesAfter, ValueSlots
  <2>3. QED
    BY <1>1, <1>3, <2>1, <2>2
<1>6. cursor' = SetsBefore(pc)' + 1
  BY <1>1, <1>2 DEF SetsBefore
<1>7. absolutes' = ValuesAfter(cursor - 1)'
  <2>1. absolutes' = ValuesAfter(0)' /\ cursor' - 1 = 0
    BY <1>1, <1>5
  <2>2. QED
    BY <2>1 DEF ValuesAfter
<1>8. IsSequence(assigns')
  BY <1>1 DEF SetsInv
<1>9. QED
  BY <1>1, <1>4, <1>5, <1>6, <1>7, <1>8 DEF SetsInv

\* A .set of the second pass: emit_absolute_assignment.
LEMMA ValuesMove ==
    ASSUME IsSequence(assigns), DOMAIN aliases = DOMAIN assigns,
           NEW c \in 1 .. Len(assigns), NEW now, now = ValuesAfter(c - 1)
    PROVE  ValuesAfter(c) = IF aliases[c] # NoName THEN now
                            ELSE [now EXCEPT ![assigns[c].name] = Absolute(values[c])]
<1>1. PICK n \in Nat : n = Len(assigns) /\ DOMAIN aliases = 1 .. n
  BY DEF IsSequence
<1>2. PICK k \in 0 .. n : k = c - 1 /\ k + 1 = c
  <2>1. c \in 1 .. n
    BY <1>1
  <2>2. c - 1 \in 0 .. n /\ (c - 1) + 1 = c
    BY <2>1
  <2>3. QED
    BY <2>2
<1>3. ASSUME NEW name
      PROVE  /\ ValueSlots(name) \in SUBSET (1 .. n)
             /\ (c \in ValueSlots(name)) <=> (assigns[c].name = name /\ aliases[c] = NoName)
  <2>1. c \in DOMAIN aliases
    BY <1>1
  <2>2. QED
    BY <1>1, <2>1, Zenon DEF ValueSlots
<1>4. ASSUME NEW name, ValueSlots(name) # {}
      PROVE  VisibleOf(ValueSlots(name), c) =
                IF c \in ValueSlots(name) THEN c ELSE VisibleOf(ValueSlots(name), k)
  <2>1. PICK slots \in SUBSET (1 .. n) : slots = ValueSlots(name)
    BY <1>3
  <2>2. /\ k + 1 \in slots => VisibleOf(slots, k + 1) = k + 1
        /\ k + 1 \notin slots => VisibleOf(slots, k + 1) = VisibleOf(slots, k)
    BY <1>4, <2>1, VisibleMoves
  <2>3. QED
    BY <1>2, <2>1, <2>2
<1>5. now = ValuesAfter(k)
  BY <1>2
<1>6. CASE aliases[c] # NoName
  BY <1>3, <1>4, <1>5, <1>6 DEF ValuesAfter
<1>7. CASE aliases[c] = NoName
  <2>1. PICK was : was = assigns[c].name
    OBVIOUS
  <2>2. PICK next : next = [now EXCEPT ![was] = Absolute(values[c])]
    OBVIOUS
  <2>3. ASSUME NEW name \in Names
        PROVE  ValuesAfter(c)[name] = next[name]
    <3>1. CASE name = was
      <4>1. c \in ValueSlots(name)
        BY <1>3, <1>7, <2>1, <3>1
      <4>2. VisibleOf(ValueSlots(name), c) = c
        BY <1>4, <4>1
      <4>3. ValuesAfter(c)[name] = Absolute(values[c])
        BY <4>1, <4>2 DEF ValuesAfter
      <4>4. next[name] = Absolute(values[c])
        BY <1>5, <2>2, <3>1 DEF ValuesAfter
      <4>5. QED
        BY <4>3, <4>4
    <3>2. CASE name # was
      <4>1. c \notin ValueSlots(name)
        BY <1>3, <2>1, <3>2
      <4>2. ValuesAfter(c)[name] = ValuesAfter(k)[name]
        BY <1>4, <4>1 DEF ValuesAfter
      <4>3. next[name] = ValuesAfter(k)[name]
        BY <1>5, <2>2, <3>2 DEF ValuesAfter
      <4>4. QED
        BY <4>2, <4>3
    <3>3. QED
      BY <3>1, <3>2
  <2>4. ValuesAfter(c) = [name \in Names |-> ValuesAfter(c)[name]]
    BY DEF ValuesAfter
  <2>5. next = [name \in Names |-> next[name]]
    BY <1>5, <2>2 DEF ValuesAfter
  <2>6. ValuesAfter(c) = next
    BY <2>3, <2>4, <2>5
  <2>7. QED
    BY <1>7, <2>1, <2>2, <2>6
<1>8. QED
  BY <1>6, <1>7

LEMMA EmitSets ==
    ASSUME Inv, SetsInv,
           EmitSet \/ EmitQuad \/ EmitFixup \/ EmitLabel \/ EmitZerofillSymbol \/ EmitOther
    PROVE  SetsInv'
<1>1. PICK p \in Nat \ {0} : p = pc
  BY DEF Inv, TypeOK
<1>2. /\ phase = "emit" /\ UNCHANGED <<prog, assigns, aliases, values, initial, final>>
  BY DEF EmitSet, EmitQuad, EmitFixup, EmitLabel, EmitZerofillSymbol, EmitOther,
     EmitNothing, EmitBytes, EmitFill, EmitSpaces, EmitAlignment, EmitSection,
     EmitZerofills, EndEmit, Proceed, At, symbols, expressions, source
<1>3. /\ IsSequence(assigns) /\ Listed(Len(prog) + 1)
      /\ DOMAIN aliases = DOMAIN assigns
      /\ initial = ValuesAfter(0) /\ final = ValuesAfter(Len(assigns))
      /\ cursor = SetsBefore(p) + 1 /\ absolutes = ValuesAfter(cursor - 1)
  BY <1>1, <1>2 DEF SetsInv
<1>4. SetsBefore(p) \in Nat
      /\ SetsBefore(p + 1) = SetsBefore(p) + (IF prog[p].op = "set" THEN 1 ELSE 0)
  BY CountSets
<1>5. PICK c \in Nat \ {0} : c = cursor
  BY <1>3, <1>4
<1>6. /\ \A j : SetsBefore(j)' = SetsBefore(j)
      /\ \A k : ValuesAfter(k)' = ValuesAfter(k)
  BY <1>2 DEF SetsBefore, ValuesAfter, ValueSlots
<1>7. /\ IsSequence(assigns') /\ Listed(Len(prog) + 1)'
      /\ DOMAIN aliases' = DOMAIN assigns'
      /\ initial' = ValuesAfter(0)' /\ final' = ValuesAfter(Len(assigns))'
  <2>1. Listed(Len(prog) + 1)'
    BY <1>2, <1>3, <1>6 DEF Listed
  <2>2. ValuesAfter(Len(assigns))' = ValuesAfter(Len(assigns))
    BY <1>2 DEF ValuesAfter, ValueSlots
  <2>3. QED
    BY <1>2, <1>3, <1>6, <2>1, <2>2
<1>8. ASSUME phase' = "emit", pc' = p + 1,
             NEW d \in Nat \ {0}, cursor' = d, d = SetsBefore(p + 1) + 1,
             absolutes' = ValuesAfter(d - 1)
      PROVE  SetsInv'
  <2>1. cursor' = SetsBefore(pc)' + 1
    BY <1>2, <1>8 DEF SetsBefore
  <2>2. absolutes' = ValuesAfter(cursor - 1)'
    BY <1>2, <1>8 DEF ValuesAfter, ValueSlots
  <2>3. QED
    BY <1>7, <1>8, <2>1, <2>2 DEF SetsInv
<1>9. CASE EmitSet
  <2>1. /\ phase' = "emit" /\ pc' = p + 1 /\ prog[p].op = "set"
        /\ c <= Len(assigns) /\ assigns[c].name = prog[p].name /\ cursor' = c + 1
        /\ absolutes' = IF aliases[c] # NoName THEN absolutes
                        ELSE [absolutes EXCEPT ![assigns[c].name] = Absolute(values[c])]
    BY <1>1, <1>2, <1>5, <1>9 DEF EmitSet, Is, Stmt, EmitNothing, Proceed
  <2>2. c \in 1 .. Len(assigns)
    BY <1>3, <2>1 DEF IsSequence
  <2>3. absolutes' = ValuesAfter(c)
    BY <1>3, <1>5, <2>1, <2>2, ValuesMove
  <2>4. PICK d \in Nat \ {0} : d = c + 1 /\ d - 1 = c
    <3>1. c + 1 \in Nat \ {0} /\ (c + 1) - 1 = c
      OBVIOUS
    <3>2. QED
      BY <3>1
  <2>5. d = SetsBefore(p + 1) + 1
    BY <1>3, <1>4, <1>5, <2>1, <2>4
  <2>6. QED
    BY <1>8, <2>1, <2>3, <2>4, <2>5
<1>10. CASE EndEmit /\ EmitOther
  <2>1. /\ phase' = "fixups" /\ p = Len(prog) + 1 /\ UNCHANGED <<absolutes, cursor>>
    BY <1>1, <1>10 DEF EndEmit, EmitOther, emission
  <2>2. cursor - 1 = Len(assigns)
    BY <1>3, <1>4, <2>1 DEF Listed
  <2>3. absolutes' = final'
    BY <1>2, <1>3, <2>1, <2>2
  <2>4. QED
    BY <1>7, <2>1, <2>3 DEF SetsInv
<1>11. CASE ~ EmitSet /\ ~ (EndEmit /\ EmitOther)
  <2>1. /\ phase' = "emit" /\ pc' = p + 1 /\ prog[p].op # "set"
        /\ UNCHANGED <<absolutes, cursor>>
    BY <1>1, <1>2, <1>11 DEF EmitQuad, EmitFixup, EmitLabel, EmitZerofillSymbol, EmitOther,
       EmitNothing, EmitBytes, EmitFill, EmitSpaces, EmitAlignment, EmitSection,
       EmitZerofills, Proceed, At, Is, Stmt, emission, ByteOps
  <2>2. c = SetsBefore(p + 1) + 1
    BY <1>3, <1>4, <1>5, <2>1
  <2>3. QED
    BY <1>3, <1>5, <1>8, <2>1, <2>2
<1>12. QED
  BY <1>9, <1>10, <1>11

\* What comes after has no assignments to apply.
LEMMA AfterSets ==
    ASSUME SetsInv,
           \/ ResolveData64 \/ ResolveBranch \/ ResolvePage \/ EndFixups
           \/ Finish \/ FinishElf \/ Fail \/ Terminated \/ UNCHANGED vars
    PROVE  SetsInv'
<1>1. /\ UNCHANGED <<prog, assigns, aliases, values, initial, final, absolutes, cursor>>
      /\ \/ phase \in {"fixups", "finish"} /\ phase' \in {"fixups", "finish", "done", "drift"}
         \/ phase' = "error"
         \/ phase' = phase /\ pc' = pc
  BY DEF ResolveData64, ResolveBranch, ResolvePage, ResolveHere, Resolve, EndFixups,
     Finish, FinishElf, Fail, Terminated, vars, layoutVars, source, symbols, expressions,
     emission, ResolveFixups, LayoutFinish, LayoutFinishElf, LayoutFail, LayoutTerminated
<1>2. CASE phase' = phase /\ pc' = pc
  <2>1. /\ Listed(pc)' <=> Listed(pc)
        /\ Listed(Len(prog) + 1)' <=> Listed(Len(prog) + 1)
        /\ SetsBefore(pc)' = SetsBefore(pc)
    BY <1>1, <1>2 DEF Listed, SetsBefore
  <2>2. /\ ValuesAfter(0)' = ValuesAfter(0)
        /\ ValuesAfter(Len(assigns))' = ValuesAfter(Len(assigns))
        /\ ValuesAfter(cursor - 1)' = ValuesAfter(cursor - 1)
    BY <1>1 DEF ValuesAfter, ValueSlots
  <2>3. QED
    BY <1>1, <1>2, <2>1, <2>2 DEF SetsInv
<1>3. CASE phase' = "error"
  BY <1>1, <1>3 DEF SetsInv
<1>4. CASE phase \in {"fixups", "finish"} /\ phase' \in {"fixups", "finish", "done", "drift"}
  <2>1. ValuesAfter(Len(assigns))' = ValuesAfter(Len(assigns))
    BY <1>1 DEF ValuesAfter, ValueSlots
  <2>2. Listed(Len(prog) + 1)' <=> Listed(Len(prog) + 1)
    BY <1>1 DEF Listed, SetsBefore
  <2>3. QED
    BY <1>1, <1>4, <2>1, <2>2 DEF SetsInv
<1>5. QED
  BY <1>1, <1>2, <1>3, <1>4

LEMMA SetsHold == Spec => []SetsInv
<1>1. Init => SetsInv
  <2> SUFFICES ASSUME Init PROVE SetsInv
    OBVIOUS
  <2>1. phase = "collect" /\ pc = 1 /\ assigns = <<>>
    BY DEF Init, LayoutInit
  <2>2. SetsBefore(1) = 0
    <3>1. 1 \in Nat \ {0}
      OBVIOUS
    <3>2. QED
      BY <3>1, CountSets
  <2>3. IsSequence(<<>>) /\ Len(<<>>) = 0
    BY DEF IsSequence
  <2>4. QED
    BY <2>1, <2>2, <2>3 DEF SetsInv, Listed
<1>2. Inv /\ SetsInv /\ [Next]_vars => SetsInv'
  BY CollectSets, PrepareSets, ResetSets, EmitSets, AfterSets DEF Next
<1>3. QED
  BY <1>1, <1>2, LayoutHolds, PTL DEF Spec

\* emit_absolute_assignment: the internal error "absolute assignment order
\* changed between passes" is unreachable, and every expression of the second
\* pass sees the value of its place.
THEOREM SetsStayInStep == Spec => []SetsInStep
<1>1. Inv /\ SetsInv => SetsInStep
  <2> SUFFICES ASSUME Inv, SetsInv PROVE SetsInStep
    OBVIOUS
  <2>1. ASSUME phase = "emit"
        PROVE  /\ cursor = SetsBefore(pc) + 1
               /\ Is("set") => cursor <= Len(assigns) /\ assigns[cursor].name = Stmt.name
               /\ \A n \in Names :
                     absolutes[n] = IF ValueSlots(n) = {} THEN Undefined
                                    ELSE Absolute(values[VisibleSlot(n, cursor - 1)])
    <3>1. PICK p \in Nat \ {0} : p = pc
      BY DEF Inv, TypeOK
    <3>2. PICK q \in Nat \ {0} : q = Len(prog) + 1
      BY DEF Inv, TypeOK
    <3>3. /\ cursor = SetsBefore(p) + 1 /\ absolutes = ValuesAfter(cursor - 1)
          /\ Listed(q)
      BY <2>1, <3>1, <3>2 DEF SetsInv
    <3>4. ASSUME Is("set")
          PROVE  cursor <= Len(assigns) /\ assigns[cursor].name = prog[p].name
      <4>1. p \in 1 .. q - 1 /\ prog[p].op = "set"
        BY <3>1, <3>2, <3>4 DEF Is, Stmt, Inv, TypeOK
      <4>2. SetsBefore(p) + 1 \in 1 .. SetsBefore(q)
        BY <4>1, CountSets
      <4>3. SetsBefore(q) \in Nat
        BY CountSets
      <4>4. QED
        BY <3>3, <4>1, <4>2, <4>3 DEF Listed
    <3>5. ASSUME NEW n \in Names
          PROVE  absolutes[n] = IF ValueSlots(n) = {} THEN Undefined
                                ELSE Absolute(values[VisibleSlot(n, cursor - 1)])
      BY <3>3 DEF ValuesAfter, VisibleOf, VisibleSlot
    <3>6. QED
      BY <3>1, <3>3, <3>4, <3>5 DEF Stmt
  <2>2. QED
    BY <2>1 DEF SetsInStep, SetsInv
<1>2. QED
  BY <1>1, SetsHold, LayoutHolds, PTL

-----------------------------------------------------------------------------
(* Symbols where the second pass meets them. *)

\* Statement s puts symbol n where it stands.
Defines(s, n) ==
    \/ s.op = "label" /\ s.name = n
    \/ s.op = "zerofill" /\ s.symbol = n

\* Where that is, when the statement is met in layout l.
Landing(s, l) ==
    IF s.op = "label" THEN Place(l.section, Current(l).size)
    ELSE Place(Target(s, l), AlignUp(Opened(s, l).sections[Target(s, l)].size, s.power))

\* places has the symbols that the first p - 1 statements of a source
\* define, each where it is in the layout t has for its statement, and no
\* others.
Placed(places, program, t, p) ==
    /\ places = [n \in Names |-> places[n]]
    /\ \A n \in Names : \A j \in 1 .. p - 1 :
          Defines(program[j], n) => places[n] = Landing(program[j], t[j])
    /\ \A n \in Names :
          (\A j \in 1 .. p - 1 : ~ Defines(program[j], n)) => places[n] = Undefined

\* What apply_set_aliases makes of the labels that the first pass found.
Renamed(first) ==
    [n \in Names |-> IF AliasSlots(n) = {} THEN first[n]
                     ELSE first[aliases[Max(AliasSlots(n))]]]

\* The labels the first pass found are still what the labels are made of.
LabelsKept ==
    \E first : Placed(first, prog, trail, Len(prog) + 1) /\ labels = Renamed(first)

\* The first pass settles the labels, in the layouts of its history; the
\* second pass meets the same definitions, in layouts that agree with these.
PlacesInv ==
    /\ phase = "collect" => Placed(labels, prog, trail, pc)
    /\ phase \in {"unwind", "expressions"} =>
          Placed(labels, prog, trail, Len(prog) + 1)
    /\ phase \in {"reset", "emit", "fixups", "finish", "done"} => LabelsKept
    /\ phase \in {"collect", "unwind", "expressions", "reset"} => landed = Nowhere
    /\ phase = "emit" => Placed(landed, prog, trail, pc)
    /\ phase \in {"fixups", "finish", "done"} =>
          Placed(landed, prog, trail, Len(prog) + 1)

LEMMA LandingDefined ==
    ASSUME NEW s, NEW l
    PROVE  Landing(s, l) # Undefined
  BY DEF Landing, Place, Undefined

\* There is one way to settle all symbols.
LEMMA SettledOnce ==
    ASSUME NEW one, NEW other, NEW program, NEW t, NEW p,
           Placed(one, program, t, p), Placed(other, program, t, p)
    PROVE  one = other
<1>1. ASSUME NEW n \in Names
      PROVE  one[n] = other[n]
  <2>1. CASE \A j \in 1 .. p - 1 : ~ Defines(program[j], n)
    BY <2>1 DEF Placed
  <2>2. CASE \E j \in 1 .. p - 1 : Defines(program[j], n)
    BY <2>2 DEF Placed
  <2>3. QED
    BY <2>1, <2>2
<1>2. one = [n \in Names |-> one[n]] /\ other = [n \in Names |-> other[n]]
  BY DEF Placed
<1>3. QED
  BY <1>1, <1>2

\* A history that goes on is the same history.
LEMMA SettledFrame ==
    ASSUME NEW places, NEW program, NEW t, NEW u, NEW p \in Nat \ {0},
           Placed(places, program, t, p), \A j \in 1 .. p - 1 : u[j] = t[j]
    PROVE  Placed(places, program, u, p)
  BY DEF Placed

\* The statement at p has been met, and its symbol, if it defines one, put in
\* its place: the one place that it has, should it be defined twice.
LEMMA SettledMore ==
    ASSUME NEW places, NEW program, NEW t, NEW p \in Nat \ {0},
           Placed(places, program, t, p),
           NEW more, more = [n \in Names |-> more[n]],
           \A n \in Names : more[n] = IF Defines(program[p], n) THEN Landing(program[p], t[p])
                                      ELSE places[n],
           \A n \in Names : \A j \in 1 .. p - 1 :
              Defines(program[j], n) /\ Defines(program[p], n) =>
                  Landing(program[j], t[j]) = Landing(program[p], t[p])
    PROVE  Placed(more, program, t, p + 1)
<1>1. \A j \in 1 .. (p + 1) - 1 : j = p \/ j \in 1 .. p - 1
  OBVIOUS
<1>2. p \in 1 .. (p + 1) - 1 /\ \A j \in 1 .. p - 1 : j \in 1 .. (p + 1) - 1
  OBVIOUS
<1>3. ASSUME NEW n \in Names, NEW j \in 1 .. (p + 1) - 1, Defines(program[j], n)
      PROVE  more[n] = Landing(program[j], t[j])
  <2>1. CASE j = p
    BY <1>3, <2>1
  <2>2. CASE j \in 1 .. p - 1
    BY <1>3, <2>2 DEF Placed
  <2>3. QED
    BY <1>1, <2>1, <2>2
<1>4. ASSUME NEW n \in Names, \A j \in 1 .. (p + 1) - 1 : ~ Defines(program[j], n)
      PROVE  more[n] = Undefined
  BY <1>2, <1>4 DEF Placed
<1>5. QED
  BY <1>3, <1>4 DEF Placed

\* The same for a statement that defines nothing.
LEMMA SettledOn ==
    ASSUME NEW places, NEW program, NEW t, NEW p \in Nat \ {0},
           Placed(places, program, t, p), \A n \in Names : ~ Defines(program[p], n)
    PROVE  Placed(places, program, t, p + 1)
<1>1. places = [n \in Names |-> places[n]]
  BY DEF Placed
<1>2. QED
  BY <1>1, SettledMore

\* A statement of the first pass, and the history with it.
LEMMA CollectOne ==
    ASSUME Inv, PlacesInv, phase = "collect", phase' = "collect",
           pc <= Len(prog), pc' = pc + 1, prog' = prog, landed' = landed,
           NEW next, trail' = Append(trail, next),
           labels' = [n \in Names |-> labels'[n]],
           \A n \in Names :
              IF Defines(prog[pc], n)
              THEN labels[n] = Undefined /\ labels'[n] = Landing(prog[pc], layout)
              ELSE labels'[n] = labels[n]
    PROVE  PlacesInv'
<1>1. PICK p \in Nat \ {0} : p = pc
  BY DEF Inv, TypeOK
<1>2. PICK t : t = trail'
  OBVIOUS
<1>3. p = Len(trail) /\ layout = trail[p] /\ trail \in Seq(Layouts)
  BY <1>1 DEF Inv, PhaseInv, TypeOK
<1>4. \A j \in 1 .. p : t[j] = trail[j]
  <2>1. PICK u \in Seq(Layouts) : u = trail
    BY <1>3
  <2>2. PICK S : S = Layouts \union {next}
    OBVIOUS
  <2>3. u \in Seq(S) /\ next \in S
    BY <2>1, <2>2
  <2>4. \A j \in 1 .. Len(u) : Append(u, next)[j] = u[j]
    BY <2>3
  <2>5. QED
    BY <1>2, <1>3, <2>1, <2>4
<1>5. Placed(labels, prog, trail, p)
  BY <1>1 DEF PlacesInv
<1>6. \A j \in 1 .. p - 1 : t[j] = trail[j]
  BY <1>4
<1>7. Placed(labels, prog, t, p)
  BY <1>5, <1>6, SettledFrame
<1>8. PICK more : more = labels'
  OBVIOUS
<1>9. t[p] = layout
  BY <1>3, <1>4
<1>10. ASSUME NEW n \in Names
       PROVE  /\ more[n] = IF Defines(prog[p], n) THEN Landing(prog[p], t[p]) ELSE labels[n]
              /\ \A j \in 1 .. p - 1 : ~ (Defines(prog[j], n) /\ Defines(prog[p], n))
  <2>1. \A j \in 1 .. p - 1 : Defines(prog[j], n) => labels[n] # Undefined
    BY <1>5, LandingDefined DEF Placed
  <2>2. QED
    BY <1>1, <1>8, <1>9, <2>1
<1>11. Placed(more, prog, t, p + 1)
  <2>1. more = [n \in Names |-> more[n]]
    BY <1>8
  <2>2. QED
    BY <1>7, <1>10, <2>1, SettledMore
<1>12. Placed(labels, prog, trail, pc)'
  BY <1>1, <1>2, <1>8, <1>11
<1>13. QED
  BY <1>12 DEF PlacesInv, Nowhere

LEMMA CollectPlaces ==
    ASSUME Inv, PlacesInv,
           \/ CollectLabel \/ CollectSet \/ CollectComm \/ CollectAttribute
           \/ CollectZerofill \/ CollectOther
    PROVE  PlacesInv'
<1>1. labels = [n \in Names |-> labels[n]] \/ phase # "collect"
  BY DEF PlacesInv, Placed
<1>2. landed' = landed /\ prog' = prog
  BY DEF CollectLabel, CollectSet, CollectComm, CollectAttribute, CollectZerofill,
     CollectOther, LaterUnchanged, emission, CollectSymbol, CollectZerofills,
     CollectBytes, CollectFill, CollectSpace, CollectAlign, CollectSection,
     CollectStartProc, CollectCfi, CollectEndProc, EndCollect, PrepareUnwind,
     Advance, source
<1>3. CASE CollectLabel
  <2>1. /\ phase = "collect" /\ phase' = "collect" /\ pc <= Len(prog) /\ pc' = pc + 1
        /\ trail' = Append(trail, layout) /\ prog[pc].op = "label"
        /\ labels[prog[pc].name] = Undefined
        /\ labels' = [labels EXCEPT ![prog[pc].name] = Place(layout.section, Current(layout).size)]
    BY <1>3 DEF CollectLabel, CollectSymbol, Advance, At, Is, Stmt, Offset
  <2>2. \A n \in Names : Defines(prog[pc], n) <=> prog[pc].name = n
    BY <2>1 DEF Defines
  <2>3. Landing(prog[pc], layout) = Place(layout.section, Current(layout).size)
    BY <2>1 DEF Landing
  <2>4. labels' = [n \in Names |-> labels'[n]]
    BY <1>1, <2>1
  <2>5. QED
    BY <1>1, <1>2, <2>1, <2>2, <2>3, <2>4, CollectOne
<1>4. CASE CollectZerofill
  <2>1. /\ phase = "collect" /\ phase' = "collect" /\ pc <= Len(prog) /\ pc' = pc + 1
        /\ prog[pc].op = "zerofill"
        /\ \E next : trail' = Append(trail, next)
    BY <1>4 DEF CollectZerofill, CollectZerofills, Advance, At
  <2>2. Landing(prog[pc], layout) = ZerofillPlace(prog[pc])
    BY <2>1 DEF Landing, ZerofillPlace, Opened, Target, Open
  <2>3. \A n \in Names : Defines(prog[pc], n) <=> prog[pc].symbol = n
    BY <2>1 DEF Defines
  <2>4. CASE prog[pc].symbol = NoName /\ labels' = labels
    <3>1. \A n \in Names : ~ Defines(prog[pc], n)
      BY <2>3, <2>4, SymbolsAssumption
    <3>2. QED
      BY <1>1, <1>2, <2>1, <2>4, <3>1, CollectOne
  <2>5. CASE /\ labels[prog[pc].symbol] = Undefined
             /\ labels' = [labels EXCEPT ![prog[pc].symbol] = ZerofillPlace(prog[pc])]
    <3>1. labels' = [n \in Names |-> labels'[n]]
      BY <1>1, <2>1, <2>5
    <3>2. QED
      BY <1>1, <1>2, <2>1, <2>2, <2>3, <2>5, <3>1, CollectOne
  <2>6. QED
    BY <1>4, <2>4, <2>5 DEF CollectZerofill, Stmt
<1>5. CASE CollectOther /\ (EndCollect \/ PrepareUnwind)
  <2>1. /\ UNCHANGED <<labels, prog, trail>>
        /\ \/ phase = "collect" /\ pc = Len(prog) + 1 /\ phase' = "unwind"
           \/ phase = "unwind" /\ phase' = "expressions"
    BY <1>5 DEF CollectOther, symbols, EndCollect, PrepareUnwind, source
  <2>2. QED
    BY <1>2, <2>1 DEF PlacesInv, Nowhere
<1>6. CASE /\ ~ CollectLabel /\ ~ CollectZerofill
           /\ ~ (CollectOther /\ (EndCollect \/ PrepareUnwind))
  <2>1. /\ phase = "collect" /\ phase' = "collect" /\ pc <= Len(prog) /\ pc' = pc + 1
        /\ prog[pc].op \notin {"label", "zerofill"} /\ labels' = labels
        /\ \E next : trail' = Append(trail, next)
    BY <1>6 DEF CollectSet, CollectComm, CollectAttribute,
       CollectOther, symbols, CollectSymbol, CollectBytes, CollectFill,
       CollectSpace, CollectAlign, CollectSection, CollectStartProc, CollectCfi,
       CollectEndProc, Advance, At, Is, Stmt, ByteOps
  <2>2. \A n \in Names : ~ Defines(prog[pc], n)
    BY <2>1 DEF Defines
  <2>3. QED
    BY <1>1, <1>2, <2>1, <2>2, CollectOne
<1>7. QED
  BY <1>3, <1>4, <1>5, <1>6

\* prepare_expression_state: aliases take the labels of their targets.
LEMMA PreparePlaces ==
    ASSUME PlacesInv, PrepareExpressions
    PROVE  PlacesInv'
<1>1. /\ phase = "expressions" /\ phase' = "reset"
      /\ UNCHANGED <<prog, trail, landed>>
  BY DEF PrepareExpressions, LayoutPrepare, source
<1>2. labels' = [n \in Names |-> IF AliasSlots(n)' = {} THEN labels[n]
                                 ELSE labels[aliases'[Max(AliasSlots(n)')]]]
  BY DEF PrepareExpressions, ApplyAliases
<1>3. PICK first : first = labels
  OBVIOUS
<1>4. Placed(first, prog, trail, Len(prog) + 1)
  BY <1>1, <1>3 DEF PlacesInv
<1>5. labels' = Renamed(first)'
  BY <1>2, <1>3 DEF Renamed
<1>6. LabelsKept'
  BY <1>1, <1>4, <1>5 DEF LabelsKept
<1>7. QED
  BY <1>1, <1>6 DEF PlacesInv, Nowhere

\* Steps that leave the labels, and the history, as they are.
LEMMA LabelsStay ==
    ASSUME LabelsKept, UNCHANGED <<prog, trail, labels, assigns, aliases>>
    PROVE  LabelsKept'
<1>1. PICK first : Placed(first, prog, trail, Len(prog) + 1) /\ labels = Renamed(first)
  BY DEF LabelsKept
<1>2. Renamed(first)' = Renamed(first)
  BY DEF Renamed, AliasSlots
<1>3. QED
  BY <1>1, <1>2 DEF LabelsKept

LEMMA ResetPlaces ==
    ASSUME PlacesInv, Reset
    PROVE  PlacesInv'
<1>1. /\ phase = "reset" /\ phase' = "emit" /\ pc' = 1 /\ landed' = landed
      /\ UNCHANGED <<prog, trail, labels, assigns, aliases>>
  BY DEF Reset, LayoutReset, source, symbols, expressions
<1>2. LabelsKept'
  BY <1>1, LabelsStay DEF PlacesInv
<1>3. PICK none : none = Nowhere
  OBVIOUS
<1>4. Placed(none, prog, trail, 1)
  BY <1>3 DEF Placed, Nowhere
<1>5. landed' = none
  BY <1>1, <1>3 DEF PlacesInv
<1>6. Placed(landed, prog, trail, pc)'
  BY <1>1, <1>4, <1>5
<1>7. QED
  BY <1>1, <1>2, <1>6 DEF PlacesInv

\* A definition is met by the second pass where it was by the first.
LEMMA LandingAgrees ==
    ASSUME Inv, phase = "emit", pc <= Len(prog), prog[pc].op \in {"label", "zerofill"}
    PROVE  Landing(prog[pc], layout) = Landing(prog[pc], trail[pc])
<1>1. PICK p \in Nat \ {0} : p = pc /\ p <= Len(prog)
  BY DEF Inv, TypeOK
<1>2. /\ Len(trail) = Len(prog) + 1 /\ Len(prog) \in Nat /\ IsStatement(prog[p])
      /\ trail \in Seq(Layouts) /\ layout \in Layouts
      /\ Agree(layout, trail[p], Final)
  BY <1>1 DEF Inv, PhaseInv, TypeOK
<1>3. PICK s : s = prog[p]
  OBVIOUS
<1>4. PICK a \in Layouts : a = trail[p]
  BY <1>1, <1>2
<1>5. PICK b \in Layouts : b = trail[p + 1]
  BY <1>1, <1>2
<1>6. PICK f \in Layouts : f = Final
  BY <1>2 DEF Final
<1>7. PICK l \in Layouts : l = layout
  BY <1>2
<1>8. Agree(l, a, f) /\ IsStatement(s)
  BY <1>2, <1>3, <1>4, <1>6, <1>7
<1>9. CASE s.op = "label"
  <2>1. /\ l.section = a.section /\ a.section \in 1 .. Len(a.sections)
        /\ l.section \in 1 .. Len(l.sections) /\ Len(l.sections) = Len(f.sections)
        /\ a.section <= Len(a.sections)
    BY <1>8 DEF Agree, Layouts
  <2>2. Current(l).size = Current(a).size
    BY <1>8, <2>1 DEF Agree, Current
  <2>3. Landing(s, l) = Landing(s, a)
    BY <1>9, <2>1, <2>2 DEF Landing
  <2>4. QED
    BY <1>1, <1>3, <1>4, <1>7, <2>3
<1>10. CASE s.op = "zerofill"
  <2>1. s.op \in Local /\ s.op # "label"
    BY <1>10 DEF Local
  <2>2. PICK o : o = Opened(s, a)
    OBVIOUS
  <2>3. /\ Unique(a.sections) /\ Unique(f.sections) /\ Extends(b.sections, f.sections)
        /\ FirstPass(s, a, b)
    BY <1>1, <1>2, <1>3, <1>4, <1>5, <1>6 DEF Inv, TrailInv, Final
  <2>4. Extends(o.sections, b.sections)
    BY <1>8, <2>1, <2>2, <2>3, MeasuredTable
  <2>5. o \in Layouts /\ Target(s, a) \in 1 .. Len(o.sections)
    BY <1>8, <2>1, <2>2, <2>3, OpenedLemma
  <2>6. Extends(o.sections, f.sections)
    BY <2>3, <2>4, <2>5, ExtendsTransitive DEF Layouts
  <2>7. Opened(s, l) = l /\ Target(s, l) = Target(s, a) /\ Agree(l, o, f)
    BY <1>8, <2>1, <2>2, <2>3, <2>6, OpenAgrees
  <2>8. PICK i \in 1 .. Len(o.sections) : i = Target(s, a)
    BY <2>5
  <2>9. i \in 1 .. Len(f.sections) /\ i <= Len(o.sections)
    BY <2>5, <2>6 DEF Extends, Layouts
  <2>10. l.sections[i].size = o.sections[i].size
    BY <2>7, <2>9 DEF Agree
  <2>11. Landing(s, l) = Landing(s, a)
    BY <2>1, <2>2, <2>7, <2>8, <2>10 DEF Landing
  <2>12. QED
    BY <1>1, <1>3, <1>4, <1>7, <2>11
<1>11. QED
  BY <1>1, <1>3, <1>9, <1>10

\* A statement of the second pass.
LEMMA EmitOne ==
    ASSUME Inv, PlacesInv, phase = "emit", phase' = "emit",
           pc <= Len(prog), pc' = pc + 1,
           UNCHANGED <<prog, trail, labels, assigns, aliases>>,
           landed' = [n \in Names |-> landed'[n]],
           \A n \in Names :
              landed'[n] = IF Defines(prog[pc], n) THEN Landing(prog[pc], layout)
                           ELSE landed[n]
    PROVE  PlacesInv'
<1>1. PICK p \in Nat \ {0} : p = pc /\ p \in 1 .. (Len(prog) + 1) - 1
  BY DEF Inv, TypeOK
<1>2. Placed(landed, prog, trail, p) /\ LabelsKept
  BY <1>1 DEF PlacesInv
<1>3. PICK first : Placed(first, prog, trail, Len(prog) + 1)
  BY <1>2 DEF LabelsKept
<1>4. PICK more : more = landed'
  OBVIOUS
<1>5. ASSUME NEW n \in Names
      PROVE  more[n] = IF Defines(prog[p], n) THEN Landing(prog[p], trail[p]) ELSE landed[n]
  <2>1. CASE Defines(prog[p], n)
    <3>1. prog[p].op \in {"label", "zerofill"}
      BY <2>1 DEF Defines
    <3>2. Landing(prog[p], layout) = Landing(prog[p], trail[p])
      BY <1>1, <3>1, LandingAgrees
    <3>3. QED
      BY <1>1, <1>4, <2>1, <3>2
  <2>2. CASE ~ Defines(prog[p], n)
    BY <1>1, <1>4, <2>2
  <2>3. QED
    BY <2>1, <2>2
<1>6. ASSUME NEW n \in Names, NEW j \in 1 .. p - 1, Defines(prog[j], n), Defines(prog[p], n)
      PROVE  Landing(prog[j], trail[j]) = Landing(prog[p], trail[p])
  <2>1. j \in 1 .. (Len(prog) + 1) - 1
    BY <1>1, <1>6
  <2>2. QED
    BY <1>1, <1>3, <1>6, <2>1 DEF Placed
<1>7. more = [n \in Names |-> more[n]]
  BY <1>4
<1>8. Placed(more, prog, trail, p + 1)
  BY <1>2, <1>5, <1>6, <1>7, SettledMore
<1>9. Placed(landed, prog, trail, pc)'
  BY <1>1, <1>4, <1>8
<1>10. LabelsKept'
  BY <1>2, LabelsStay
<1>11. QED
  BY <1>9, <1>10 DEF PlacesInv

LEMMA EmitPlaces ==
    ASSUME Inv, PlacesInv,
           EmitSet \/ EmitQuad \/ EmitFixup \/ EmitLabel \/ EmitZerofillSymbol \/ EmitOther
    PROVE  PlacesInv'
<1>1. phase = "emit" /\ UNCHANGED <<prog, trail, labels, assigns, aliases>>
  BY DEF EmitSet, EmitQuad, EmitFixup, EmitLabel, EmitZerofillSymbol, EmitOther,
     EmitNothing, EmitBytes, EmitFill, EmitSpaces, EmitAlignment, EmitSection,
     EmitZerofills, EndEmit, Proceed, At, symbols, expressions, source
<1>2. landed = [n \in Names |-> landed[n]]
  BY <1>1 DEF PlacesInv, Placed
<1>3. CASE EmitLabel
  <2>1. /\ phase' = "emit" /\ pc <= Len(prog) /\ pc' = pc + 1 /\ prog[pc].op = "label"
        /\ landed' = [landed EXCEPT ![prog[pc].name] = Place(layout.section, Current(layout).size)]
    BY <1>1, <1>3 DEF EmitLabel, EmitNothing, Proceed, At, Is, Stmt, Offset
  <2>2. \A n \in Names : Defines(prog[pc], n) <=> prog[pc].name = n
    BY <2>1 DEF Defines
  <2>3. Landing(prog[pc], layout) = Place(layout.section, Current(layout).size)
    BY <2>1 DEF Landing
  <2>4. landed' = [n \in Names |-> landed'[n]]
    BY <1>2, <2>1
  <2>5. QED
    BY <1>1, <1>2, <2>1, <2>2, <2>3, <2>4, EmitOne
<1>4. CASE EmitZerofillSymbol
  <2>1. /\ phase' = "emit" /\ pc <= Len(prog) /\ pc' = pc + 1 /\ prog[pc].op = "zerofill"
        /\ landed' = [n \in Names |-> IF n = prog[pc].symbol THEN ZerofillPlace(prog[pc])
                                      ELSE landed[n]]
    BY <1>1, <1>4 DEF EmitZerofillSymbol, EmitZerofills, Proceed, At, Stmt
  <2>2. Landing(prog[pc], layout) = ZerofillPlace(prog[pc])
    BY <2>1 DEF Landing, ZerofillPlace, Opened, Target, Open
  <2>3. \A n \in Names : Defines(prog[pc], n) <=> prog[pc].symbol = n
    BY <2>1 DEF Defines
  <2>4. landed' = [n \in Names |-> landed'[n]]
    BY <2>1
  <2>5. QED
    BY <1>1, <2>1, <2>2, <2>3, <2>4, EmitOne
<1>5. CASE EndEmit /\ EmitOther
  <2>1. phase' = "fixups" /\ pc = Len(prog) + 1 /\ landed' = landed
    BY <1>5 DEF EndEmit, EmitOther, emission
  <2>2. LabelsKept'
    BY <1>1, LabelsStay DEF PlacesInv
  <2>3. Placed(landed, prog, trail, Len(prog) + 1)'
    BY <1>1, <2>1 DEF PlacesInv
  <2>4. QED
    BY <2>1, <2>2, <2>3 DEF PlacesInv
<1>6. CASE ~ EmitLabel /\ ~ EmitZerofillSymbol /\ ~ (EndEmit /\ EmitOther)
  <2>1. /\ phase' = "emit" /\ pc <= Len(prog) /\ pc' = pc + 1 /\ landed' = landed
        /\ prog[pc].op \notin {"label", "zerofill"}
    BY <1>1, <1>6 DEF EmitSet, EmitQuad, EmitFixup, EmitOther,
       EmitNothing, EmitBytes, EmitFill, EmitSpaces, EmitAlignment, EmitSection,
       Proceed, At, Is, Stmt, emission, ByteOps, SymbolOps
  <2>2. \A n \in Names : ~ Defines(prog[pc], n)
    BY <2>1 DEF Defines
  <2>3. QED
    BY <1>1, <1>2, <2>1, <2>2, EmitOne
<1>7. QED
  BY <1>3, <1>4, <1>5, <1>6

\* What comes after defines nothing.
LEMMA AfterPlaces ==
    ASSUME PlacesInv,
           \/ ResolveData64 \/ ResolveBranch \/ ResolvePage \/ EndFixups
           \/ Finish \/ FinishElf \/ Fail \/ Terminated \/ UNCHANGED vars
    PROVE  PlacesInv'
<1>1. /\ UNCHANGED <<prog, trail, labels, assigns, aliases, landed>>
      /\ \/ phase \in {"fixups", "finish"} /\ phase' \in {"fixups", "finish", "done", "drift"}
         \/ phase' = "error"
         \/ phase' = phase /\ pc' = pc
  BY DEF ResolveData64, ResolveBranch, ResolvePage, ResolveHere, Resolve, EndFixups,
     Finish, FinishElf, Fail, Terminated, vars, layoutVars, source, symbols, expressions,
     emission, ResolveFixups, LayoutFinish, LayoutFinishElf, LayoutFail, LayoutTerminated
<1>2. LabelsKept => LabelsKept'
  BY <1>1, LabelsStay
<1>3. QED
  BY <1>1, <1>2 DEF PlacesInv, Nowhere

LEMMA PlacesHold == Spec => []PlacesInv
<1>1. Init => PlacesInv
  BY DEF Init, LayoutInit, PlacesInv, Placed, Nowhere
<1>2. Inv /\ PlacesInv /\ [Next]_vars => PlacesInv'
  BY CollectPlaces, PreparePlaces, ResetPlaces, EmitPlaces, AfterPlaces DEF Next
<1>3. QED
  BY <1>1, <1>2, LayoutHolds, PTL DEF Spec

\* Symbols are where the second pass met them, when both passes have met all.
LEMMA PlacesLand ==
    ASSUME PlacesInv
    PROVE  SymbolsLand
<1> SUFFICES ASSUME phase = "done", NEW n \in Names
             PROVE  IF AliasSlots(n) # {}
                    THEN labels[n] = landed[aliases[Max(AliasSlots(n))]]
                    ELSE labels[n] = landed[n]
  BY DEF SymbolsLand
<1>1. PICK first : Placed(first, prog, trail, Len(prog) + 1) /\ labels = Renamed(first)
  BY DEF PlacesInv, LabelsKept
<1>2. Placed(landed, prog, trail, Len(prog) + 1)
  BY DEF PlacesInv
<1>3. first = landed
  BY <1>1, <1>2, SettledOnce
<1>4. QED
  BY <1>1, <1>3 DEF Renamed

\* collect_layout and emit_stmt: the place that a label or the symbol of a
\* .zerofill is given before anything is emitted is where it is emitted; and
\* so is the one that an alias takes over (apply_set_aliases).
THEOREM SymbolsAreWhereTheyLand == Spec => []SymbolsLand
  BY PlacesLand, PlacesHold, PTL

-----------------------------------------------------------------------------
(* Where fixups are. *)

SourceKnown == prog \in Programs

\* No step changes the source.
LEMMA SourceStays == Spec => []SourceKnown
<1>1. Init => SourceKnown
  BY DEF Init, LayoutInit, SourceKnown
<1>2. SourceKnown /\ [LayoutNext]_layoutVars => SourceKnown'
  BY DEF SourceKnown, LayoutNext, layoutVars, source, unwind, agreed, Advance, Proceed,
     CollectSymbol, CollectBytes, CollectFill, CollectSpace, CollectAlign, CollectSection,
     CollectZerofills, CollectStartProc, CollectCfi, CollectEndProc, EndCollect,
     PrepareUnwind, LayoutPrepare, LayoutReset, EmitNothing, EmitBytes, EmitFill,
     EmitSpaces, EmitAlignment, EmitSection, EmitZerofills, EndEmit, ResolveFixups,
     LayoutFinish, LayoutFinishElf, LayoutFail, LayoutTerminated
<1>3. QED
  BY <1>1, <1>2, StepIsLayouts, PTL DEF Spec

\* What is known of an expression of the source, and of its names.
LEMMA SourceExpressions ==
    ASSUME SourceKnown, NEW j \in 1 .. Len(prog), prog[j].op \in {"set", "quad", "fixup"}
    PROVE  /\ prog[j].expr \in Seq(Leaf)
           /\ \A i \in DOMAIN prog[j].expr :
                 prog[j].expr[i].kind \in {"sym", "got"} => prog[j].expr[i].name \in Names
  BY SymbolsAssumption DEF SourceKnown, NamesSymbols

\* Along the first pass sections only grow.
LEMMA TrailGrows ==
    ASSUME Inv, NEW j \in 1 .. Len(trail), NEW k \in 1 .. Len(trail), j <= k
    PROVE  Extends(trail[j].sections, trail[k].sections)
<1>1. /\ Len(trail) \in Nat /\ trail \in Seq(Layouts)
      /\ \A i \in 1 .. Len(prog) : IsStatement(prog[i])
      /\ Len(trail) \in 1 .. Len(prog) + 1
      /\ Len(prog) \in Nat
  BY DEF Inv, TypeOK, TrailInv
<1>2. \A i \in 1 .. Len(trail) : trail[i] \in Layouts /\ trail[i].sections \in Seq(Section)
  BY <1>1 DEF Layouts
<1>3. ASSUME NEW i \in 1 .. Len(trail) - 1
      PROVE  Extends(trail[i].sections, trail[i + 1].sections)
  <2>1. /\ IsStatement(prog[i]) /\ FirstPass(prog[i], trail[i], trail[i + 1])
        /\ Unique(trail[i].sections) /\ trail[i] \in Layouts
    BY <1>1, <1>2 DEF Inv, TrailInv
  <2>2. QED
    BY <2>1, FirstPassLemma
<1>4. PICK t : t = [i \in 1 .. Len(trail) |-> trail[i].sections]
  OBVIOUS
<1>5. /\ \A i \in 1 .. Len(trail) : t[i] \in Seq(Section) /\ t[i] = trail[i].sections
      /\ \A i \in 1 .. Len(trail) - 1 : Extends(t[i], t[i + 1])
  BY <1>2, <1>3, <1>4
<1>6. PICK F : F = { m \in Nat : m >= j /\ m <= Len(trail) /\ ~ Extends(t[j], t[m]) }
  OBVIOUS
<1>7. SUFFICES ASSUME F # {} PROVE FALSE
  BY <1>1, <1>5, <1>6
<1>8. F \in SUBSET Nat
  BY <1>6
<1>9. PICK m \in F : \A i \in F : m <= i
  BY <1>7, <1>8, LeastElement
<1>10. m # j
  <2>1. \A i \in 1 .. Len(t[j]) : t[j][i] \in Section /\ Later(t[j][i], t[j][i])
    BY <1>5, LaterReflexive
  <2>2. Extends(t[j], t[j])
    BY <1>5, <2>1 DEF Extends
  <2>3. QED
    BY <1>6, <1>9, <2>2
<1>11. m \in Nat /\ m > j /\ m <= Len(trail)
  BY <1>6, <1>9, <1>10
<1>12. PICK l \in Nat : l = m - 1 /\ l \in 1 .. Len(trail) - 1 /\ l >= j
  BY <1>1, <1>11
<1>13. Extends(t[j], t[l])
  BY <1>6, <1>9, <1>11, <1>12
<1>14. Extends(t[l], t[m])
  <2>1. m = l + 1
    BY <1>11, <1>12
  <2>2. QED
    BY <1>5, <1>12, <2>1
<1>15. t[j] \in Seq(Section) /\ t[l] \in Seq(Section) /\ t[m] \in Seq(Section)
  BY <1>1, <1>5, <1>11, <1>12
<1>16. Extends(t[j], t[m])
  BY <1>13, <1>14, <1>15, ExtendsTransitive
<1>17. QED
  BY <1>6, <1>9, <1>16

\* What an expression sees after k assignments (classify_expr).
EnvironmentAfter(k) ==
    [n \in Names |-> IF ValuesAfter(k)[n] # Undefined THEN ValuesAfter(k)[n] ELSE labels[n]]

\* A fixup is where the first pass has met its statement; a .quad was
\* classified with the values of its place.
FixesStatement(fix) ==
    LET s == fix.stmt
    IN  /\ s \in 1 .. Len(prog)
        /\ prog[s].op \in {"quad", "fixup"}
        /\ fix.section = trail[s].section /\ fix.offset = Current(trail[s]).size
        /\ fix.expr = prog[s].expr
        /\ prog[s].op = "quad" =>
              /\ fix.kind = "Data64"
              /\ fix.classified = Classify(fix.expr, EnvironmentAfter(SetsBefore(s)))
              /\ ~ IsError(fix.classified)
        /\ prog[s].op = "fixup" => fix.kind = prog[s].reloc

\* Fixups are in source order.
StatementsInv ==
    /\ phase \in {"emit", "fixups", "finish", "done"} =>
          /\ \A k \in 1 .. Len(fixups) : FixesStatement(fixups[k])
          /\ \A j, k \in 1 .. Len(fixups) : j < k => fixups[j].stmt < fixups[k].stmt
    /\ phase = "emit" => \A k \in 1 .. Len(fixups) : fixups[k].stmt < pc

\* Steps that leave all this alone.
LEMMA StatementsSame ==
    ASSUME StatementsInv,
           UNCHANGED <<fixups, prog, trail, labels, assigns, aliases, values>>,
           phase' \in {"emit", "fixups", "finish", "done"} =>
              phase \in {"emit", "fixups", "finish", "done"},
           phase' = "emit" => phase = "emit" /\ pc' \in {pc, pc + 1},
           pc \in Nat
    PROVE  StatementsInv'
<1>1. \A fix : FixesStatement(fix)' <=> FixesStatement(fix)
  BY DEF FixesStatement, EnvironmentAfter, ValuesAfter, ValueSlots, SetsBefore
<1>2. \A k \in 1 .. Len(fixups) : phase = "emit" => fixups[k].stmt \in Int
  BY DEF StatementsInv, FixesStatement
<1>3. QED
  BY <1>1, <1>2 DEF StatementsInv

\* One more fixup.
LEMMA StatementsMore ==
    ASSUME Inv, StatementsInv, IsSequence(fixups), phase = "emit", phase' = "emit",
           pc <= Len(prog), pc' = pc + 1,
           UNCHANGED <<prog, trail, labels, assigns, aliases, values>>,
           NEW fix, fixups' = Append(fixups, fix), fix.stmt = pc, FixesStatement(fix)
    PROVE  StatementsInv'
<1>1. \A f : FixesStatement(f)' <=> FixesStatement(f)
  BY DEF FixesStatement, EnvironmentAfter, ValuesAfter, ValueSlots, SetsBefore
<1>2. PICK n \in Nat : n = Len(fixups)
  BY DEF IsSequence
<1>3. PICK t : t = Append(fixups, fix)
  OBVIOUS
<1>4. /\ Len(t) = n + 1 /\ t[n + 1] = fix
      /\ \A k \in 1 .. n : t[k] = fixups[k]
  BY <1>2, <1>3, SequenceGrows
<1>5. pc \in Nat /\ Len(prog) \in Nat
  BY DEF Inv, TypeOK
<1>6. \A k \in 1 .. n : fixups[k].stmt \in Int /\ fixups[k].stmt < pc
  BY <1>2 DEF StatementsInv, FixesStatement
<1>7. \A k \in 1 .. n + 1 : FixesStatement(t[k]) /\ t[k].stmt < pc + 1
  BY <1>2, <1>4, <1>5, <1>6 DEF StatementsInv
<1>8. ASSUME NEW j \in 1 .. n + 1, NEW k \in 1 .. n + 1, j < k
      PROVE  t[j].stmt < t[k].stmt
  <2>1. j \in 1 .. n /\ t[j] = fixups[j]
    BY <1>4, <1>8
  <2>2. CASE k = n + 1
    BY <1>4, <1>6, <2>1, <2>2
  <2>3. CASE k \in 1 .. n
    BY <1>2, <1>4, <1>8, <2>1, <2>3 DEF StatementsInv
  <2>4. QED
    BY <2>2, <2>3
<1>9. QED
  BY <1>1, <1>3, <1>4, <1>7, <1>8 DEF StatementsInv
\* A statement of the second pass is where the first pass met it.
LEMMA PlaceAgrees ==
    ASSUME Inv, phase = "emit", pc <= Len(prog)
    PROVE  /\ layout.section = trail[pc].section
           /\ Current(layout).size = Current(trail[pc]).size
<1>1. PICK p \in Nat \ {0} : p = pc /\ p <= Len(prog)
  BY DEF Inv, TypeOK
<1>2. /\ Len(trail) = Len(prog) + 1 /\ Len(prog) \in Nat
      /\ trail \in Seq(Layouts) /\ layout \in Layouts
      /\ Agree(layout, trail[p], Final)
  BY <1>1 DEF Inv, PhaseInv, TypeOK
<1>3. PICK a \in Layouts : a = trail[p]
  BY <1>1, <1>2
<1>4. PICK f : f = Final
  OBVIOUS
<1>5. PICK l \in Layouts : l = layout
  BY <1>2
<1>6. /\ l.section = a.section /\ a.section \in 1 .. Len(a.sections)
      /\ l.section \in 1 .. Len(l.sections) /\ Len(l.sections) = Len(f.sections)
      /\ a.section <= Len(a.sections)
  BY <1>2, <1>3, <1>4, <1>5 DEF Agree, Layouts
<1>7. Current(l).size = Current(a).size
  BY <1>2, <1>3, <1>4, <1>5, <1>6 DEF Agree, Current
<1>8. QED
  BY <1>1, <1>3, <1>5, <1>6, <1>7

\* emit_stmt: the fixups it records are the statement's.
LEMMA EmitStatements ==
    ASSUME Inv, SetsInv, FixupsInv, StatementsInv, EmitQuad \/ EmitFixup
    PROVE  StatementsInv'
<1>1. /\ phase = "emit" /\ phase' = "emit" /\ pc <= Len(prog) /\ pc' = pc + 1
      /\ UNCHANGED <<prog, trail, labels, assigns, aliases, values>>
  BY DEF EmitQuad, EmitFixup, EmitBytes, Proceed, At, source, symbols, expressions
<1>2. pc \in 1 .. Len(prog) /\ IsSequence(fixups)
  BY <1>1 DEF Inv, TypeOK, FixupsInv
<1>3. /\ layout.section = trail[pc].section
      /\ Offset = Current(trail[pc]).size
  BY <1>1, PlaceAgrees DEF Offset
<1>4. Environment = EnvironmentAfter(SetsBefore(pc))
  <2>1. SetsBefore(pc) \in Nat
    BY <1>2, CountSets DEF Inv, TypeOK
  <2>2. cursor - 1 = SetsBefore(pc) /\ absolutes = ValuesAfter(cursor - 1)
    BY <1>1, <2>1 DEF SetsInv
  <2>3. QED
    BY <2>2 DEF Environment, EnvironmentAfter
<1>5. PICK fix : /\ fixups' = Append(fixups, fix) /\ fix.stmt = pc
                 /\ fix.section = layout.section /\ fix.offset = Offset
                 /\ fix.expr = prog[pc].expr
                 /\ \/ /\ prog[pc].op = "quad" /\ fix.kind = "Data64"
                       /\ fix.classified = Classify(fix.expr, Environment)
                       /\ ~ IsError(fix.classified)
                    \/ prog[pc].op = "fixup" /\ fix.kind = prog[pc].reloc
  <2>1. CASE EmitQuad
    BY <2>1 DEF EmitQuad, Fixup, Is, Stmt
  <2>2. CASE EmitFixup
    BY <2>2 DEF EmitFixup, Fixup, Is, Stmt
  <2>3. QED
    BY <2>1, <2>2
<1>6. FixesStatement(fix)
  BY <1>2, <1>3, <1>4, <1>5 DEF FixesStatement
<1>7. QED
  BY <1>1, <1>2, <1>5, <1>6, StatementsMore

\* process and resolve_fixups: what is kept of a fixup is what its statement
\* says, and where the first pass put it.
LEMMA StatementsHold == Spec => []StatementsInv
<1>1. Init => StatementsInv
  BY DEF Init, LayoutInit, StatementsInv
<1>2. ASSUME Inv, SetsInv, FixupsInv, StatementsInv, [Next]_vars
      PROVE  StatementsInv'
  <2>1. CASE Reset
    <3>1. fixups' = <<>>
      BY <2>1 DEF Reset
    <3>2. QED
      BY <3>1 DEF StatementsInv
  <2>2. CASE EmitQuad \/ EmitFixup
    BY <1>2, <2>2, EmitStatements
  <2>3. CASE \/ CollectLabel \/ CollectSet \/ CollectComm \/ CollectAttribute
             \/ CollectZerofill \/ CollectOther \/ PrepareExpressions
    <3>1. phase' \in {"collect", "unwind", "expressions", "reset"}
      BY <2>3 DEF CollectLabel, CollectSet, CollectComm, CollectAttribute,
         CollectZerofill, CollectOther, PrepareExpressions, LayoutPrepare,
         CollectSymbol, CollectZerofills, CollectBytes, CollectFill, CollectSpace,
         CollectAlign, CollectSection, CollectStartProc, CollectCfi, CollectEndProc,
         EndCollect, PrepareUnwind, Advance, At
    <3>2. QED
      BY <3>1 DEF StatementsInv
  <2>4. CASE \/ EmitSet \/ EmitLabel \/ EmitZerofillSymbol \/ EmitOther
             \/ ResolveData64 \/ ResolveBranch \/ ResolvePage \/ EndFixups
             \/ Finish \/ FinishElf \/ Fail \/ Terminated \/ UNCHANGED vars
    <3>1. UNCHANGED <<fixups, prog, trail, labels, assigns, aliases, values>>
      BY <2>4 DEF EmitSet, EmitLabel, EmitZerofillSymbol, EmitOther, ResolveData64,
         ResolveBranch, ResolvePage, ResolveHere, Resolve, EndFixups, Finish, FinishElf,
         Fail, Terminated, vars, layoutVars, source, symbols, expressions, emission,
         EmitNothing, EmitBytes, EmitFill, EmitSpaces, EmitAlignment, EmitSection,
         EmitZerofills, EndEmit, Proceed, ResolveFixups, LayoutFinish, LayoutFinishElf,
         LayoutFail, LayoutTerminated
    <3>2. \/ phase = "emit" /\ phase' = "emit" /\ pc' = pc + 1
          \/ phase \in {"emit", "fixups", "finish"} /\ phase' \in {"fixups", "finish", "done", "drift"}
          \/ phase' = "error"
          \/ phase' = phase /\ pc' = pc
      BY <2>4 DEF EmitSet, EmitLabel, EmitZerofillSymbol, EmitOther, ResolveData64,
         ResolveBranch, ResolvePage, ResolveHere, Resolve, EndFixups, Finish, FinishElf,
         Fail, Terminated, vars, layoutVars, At,
         EmitNothing, EmitBytes, EmitFill, EmitSpaces, EmitAlignment, EmitSection,
         EmitZerofills, EndEmit, Proceed, ResolveFixups, LayoutFinish, LayoutFinishElf,
         LayoutFail, LayoutTerminated
    <3>3. pc \in Nat
      BY <1>2 DEF Inv, TypeOK
    <3>4. QED
      BY <1>2, <3>1, <3>2, <3>3, StatementsSame
  <2>5. QED
    BY <1>2, <2>1, <2>2, <2>3, <2>4 DEF Next
<1>3. QED
  BY <1>1, <1>2, LayoutHolds, SetsHold, FixupsHold, PTL DEF Spec

\* Two fixups are in different places: the statement of the first one has
\* made its section longer.
LEMMA FixupsApart ==
    ASSUME Inv, SourceKnown, StatementsInv, phase \in {"fixups", "finish", "done"},
           NEW j \in 1 .. Len(fixups), NEW k \in 1 .. Len(fixups), j # k
    PROVE  fixups[j].section # fixups[k].section \/ fixups[j].offset # fixups[k].offset
<1>1. SUFFICES ASSUME NEW a \in 1 .. Len(fixups), NEW b \in 1 .. Len(fixups), a < b,
                      fixups[a].section = fixups[b].section
               PROVE  fixups[a].offset # fixups[b].offset
  <2>1. CASE j < k
    BY <1>1, <2>1
  <2>2. CASE k < j
    BY <1>1, <2>2
  <2>3. QED
    BY <2>1, <2>2
<1>2. /\ Len(trail) = Len(prog) + 1 /\ Len(prog) \in Nat /\ trail \in Seq(Layouts)
      /\ \A i \in 1 .. Len(prog) : IsStatement(prog[i])
  BY DEF Inv, PhaseInv, TypeOK
<1>3. PICK s \in 1 .. Len(prog) : s = fixups[a].stmt
  BY DEF StatementsInv, FixesStatement
<1>4. PICK u \in 1 .. Len(prog) : u = fixups[b].stmt
  BY DEF StatementsInv, FixesStatement
<1>5. FixesStatement(fixups[a]) /\ FixesStatement(fixups[b]) /\ s < u
  BY <1>1, <1>3, <1>4 DEF StatementsInv
<1>6. PICK x \in Layouts : x = trail[s]
  BY <1>2
<1>7. PICK y \in Layouts : y = trail[s + 1]
  BY <1>2
<1>8. PICK z \in Layouts : z = trail[u]
  BY <1>2
<1>9. PICK i \in 1 .. Len(x.sections) : /\ i = x.section /\ i = z.section
                                        /\ fixups[a].offset = x.sections[i].size
                                        /\ fixups[b].offset = z.sections[i].size
  BY <1>1, <1>3, <1>4, <1>5, <1>6, <1>8 DEF FixesStatement, Current, Layouts
<1>10. /\ x.sections \in Seq(Section) /\ y.sections \in Seq(Section)
       /\ z.sections \in Seq(Section)
  BY DEF Layouts
<1>11. PICK n \in Nat \ {0} : n = prog[s].bytes
  <2>1. NamesSymbols(prog[s]) /\ prog[s].op \in {"quad", "fixup"}
    BY <1>3, <1>5, SymbolsAssumption DEF SourceKnown, FixesStatement
  <2>2. prog[s].bytes \in {4, 8}
    BY <2>1 DEF NamesSymbols
  <2>3. QED
    BY <2>2
<1>12. /\ Len(y.sections) = Len(x.sections)
       /\ y.sections[i].size = x.sections[i].size + n
       /\ x.sections[i].size \in Nat
  <2>1. PICK o : o = prog[s]
    OBVIOUS
  <2>2. o.op \in ByteOps /\ o.bytes = n
    BY <1>3, <1>5, <1>11, <2>1 DEF FixesStatement, ByteOps
  <2>3. FirstPass(o, x, y)
    BY <1>2, <1>6, <1>7, <2>1 DEF Inv, TrailInv
  <2>4. o.op \in Local /\ o.op \notin Quiet /\ o.op # "section" /\ o.op # "zerofill"
    BY <2>2 DEF Local, Quiet, SymbolOps, ByteOps
  <2>5. y = Replace(x, i, Grow(x.sections[i], n))
    <3>1. Opened(o, x) = x /\ Target(o, x) = i
      BY <1>9, <2>4 DEF Opened, Target
    <3>2. y = Replace(x, i, Measured(o, x.sections[i]))
      BY <2>3, <2>4, <3>1 DEF FirstPass
    <3>3. Measured(o, x.sections[i]) = Grow(x.sections[i], n)
      BY <2>2 DEF Measured, ByteOps
    <3>4. QED
      BY <3>2, <3>3
  <2>6. x.sections[i] \in Section
    BY <1>10
  <2>7. x.sections[i].size \in Nat
    BY <2>6 DEF Section
  <2>8. Grow(x.sections[i], n) \in Section /\ Grow(x.sections[i], n).size = x.sections[i].size + n
    BY <2>6, GrowLemma
  <2>9. QED
    BY <2>5, <2>6, <2>8, <2>7, ReplaceLemma
<1>13. Extends(y.sections, z.sections)
  <2>1. s + 1 \in 1 .. Len(trail) /\ u \in 1 .. Len(trail) /\ s + 1 <= u
    BY <1>2, <1>5
  <2>2. QED
    BY <1>7, <1>8, <2>1, TrailGrows
<1>14. z.sections[i].size >= y.sections[i].size /\ z.sections[i].size \in Nat
  <2>1. i \in 1 .. Len(y.sections) /\ i \in 1 .. Len(z.sections)
    BY <1>12, <1>13 DEF Extends, Layouts
  <2>2. y.sections[i] \in Section /\ z.sections[i] \in Section
    BY <1>10, <2>1
  <2>3. z.sections[i].size >= y.sections[i].size
    BY <1>13, <2>1 DEF Extends, Later
  <2>4. z.sections[i].size \in Nat
    BY <2>2 DEF Section
  <2>5. QED
    BY <2>3, <2>4
<1>15. QED
  BY <1>9, <1>12, <1>14

-----------------------------------------------------------------------------
(* Values of symbols are integers. *)

\* An expression of the source, and a value that it can be given.
Known(expr) ==
    /\ expr \in Seq(Leaf)
    /\ \A i \in DOMAIN expr : expr[i].kind \in {"sym", "got"} => expr[i].name \in Names

Typed(v) == \/ v = Undefined
            \/ v.kind \in {"absolute", "defined"} /\ v.value \in Int

\* What there is to know of the leaves of an expression of the source.
LEMMA LeavesOf ==
    ASSUME NEW expr, Known(expr)
    PROVE  /\ Len(expr) \in Nat /\ DOMAIN expr = 1 .. Len(expr)
           /\ \A i \in 1 .. Len(expr) :
                 /\ expr[i].sign \in {-1, 1}
                 /\ expr[i].kind \in {"int", "sym", "got", "here"}
                 /\ expr[i].kind = "int" => expr[i].value \in Int
                 /\ expr[i].kind \in {"sym", "got"} => expr[i].name \in Names
<1>1. expr \in Seq(Leaf)
  BY DEF Known
<1>2. Len(expr) \in Nat /\ DOMAIN expr = 1 .. Len(expr)
      /\ \A i \in 1 .. Len(expr) : expr[i] \in Leaf
  BY <1>1
<1>3. ASSUME NEW i \in 1 .. Len(expr)
      PROVE  /\ expr[i].sign \in {-1, 1}
             /\ expr[i].kind \in {"int", "sym", "got", "here"}
             /\ expr[i].kind = "int" => expr[i].value \in Int
  BY <1>2 DEF Leaf
<1>4. QED
  BY <1>2, <1>3 DEF Known

\* Such an expression can be classified where symbols have integers.
LEMMA KnownIsSound ==
    ASSUME NEW expr, Known(expr), NEW env, \A n \in Names : Typed(env[n])
    PROVE  Sound(expr, env)
  BY LeavesOf DEF Sound, Typed

\* What the leaves come to when section s is at at[s], other symbols are
\* where outside says, entries of the table where gots says, and the current
\* location is here.
NameWorth(v, at, x) == CASE v.kind = "absolute" -> v.value
                         [] v.kind = "defined"  -> at[v.section] + v.value
                         [] OTHER               -> x

LeafWorth(leaf, env, at, outside, gots, here) ==
    CASE leaf.kind = "int"  -> leaf.value
      [] leaf.kind = "sym"  -> NameWorth(env[leaf.name], at, outside[leaf.name])
      [] leaf.kind = "got"  -> gots[leaf.name]
      [] leaf.kind = "here" -> here

Worths(expr, env, at, outside, gots, here) ==
    [i \in 1 .. Len(expr) |-> LeafWorth(expr[i], env, at, outside, gots, here)]

\* What the leaves come to is one of the things that classification allows.
LEMMA WorthsAreWorth ==
    ASSUME NEW expr, Known(expr), NEW env, \A n \in Names : Typed(env[n]),
           NEW at, \A n \in Names : env[n].kind = "defined" => at[env[n].section] \in Int,
           NEW outside, outside \in [Names -> Int], NEW gots, gots \in [Names -> Int],
           NEW here \in Int,
           NEW w, w = Worths(expr, env, at, outside, gots, here)
    PROVE  \E b : Worth(expr, env, w, b, here)
<1>1. PICK n \in Nat : n = Len(expr)
  BY LeavesOf
<1>2. ASSUME NEW i \in 1 .. n
      PROVE  /\ expr[i].kind \in {"int", "sym", "got", "here"}
             /\ expr[i].kind = "int" => expr[i].value \in Int /\ w[i] = expr[i].value
             /\ expr[i].kind = "here" => w[i] = here
             /\ expr[i].kind = "got" => expr[i].name \in Names /\ w[i] = gots[expr[i].name]
             /\ expr[i].kind = "sym" =>
                   /\ expr[i].name \in Names
                   /\ w[i] = NameWorth(env[expr[i].name], at, outside[expr[i].name])
  <2>1. w[i] = LeafWorth(expr[i], env, at, outside, gots, here)
    BY <1>1 DEF Worths
  <2>2. /\ expr[i].kind \in {"int", "sym", "got", "here"}
        /\ expr[i].kind = "int" => expr[i].value \in Int
        /\ expr[i].kind \in {"sym", "got"} => expr[i].name \in Names
    BY <1>1, LeavesOf
  <2>3. QED
    BY <2>1, <2>2 DEF LeafWorth
<1>3. ASSUME NEW x \in Names
      PROVE  /\ NameWorth(env[x], at, outside[x]) \in Int
             /\ env[x].kind = "absolute" => NameWorth(env[x], at, outside[x]) = env[x].value
             /\ env[x].kind = "defined" =>
                   /\ NameWorth(env[x], at, outside[x]) = env[x].value + at[env[x].section]
                   /\ at[env[x].section] \in Int
  <2>1. \/ env[x] = Undefined
        \/ env[x].kind \in {"absolute", "defined"} /\ env[x].value \in Int
    BY DEF Typed
  <2>2. Undefined.kind = "undefined"
    BY DEF Undefined
  <2>3. outside[x] \in Int
    OBVIOUS
  <2>4. QED
    BY <2>1, <2>2, <2>3 DEF NameWorth
<1>4. PICK b : b = [i \in 1 .. n |-> IF IsLabel(expr, env, i)
                                     THEN at[SectionAt(expr, env, i)] ELSE 0]
  OBVIOUS
<1>5. \A i \in 1 .. n : IsLabel(expr, env, i) =>
         expr[i].name \in Names /\ b[i] = at[SectionAt(expr, env, i)] /\ b[i] \in Int
  BY <1>2, <1>3, <1>4 DEF IsLabel, SectionAt
<1>6. b \in [1 .. n -> Int]
  BY <1>4, <1>5
<1>7. w \in [1 .. n -> Int]
  <2>1. ASSUME NEW i \in 1 .. n
        PROVE  w[i] \in Int
    <3>1. expr[i].kind = "sym" => w[i] \in Int
      BY <1>2, <1>3
    <3>2. QED
      BY <1>2, <3>1
  <2>2. w = [i \in 1 .. n |-> w[i]]
    BY <1>1 DEF Worths
  <2>3. QED
    BY <2>1, <2>2
<1>8. ASSUME NEW i \in 1 .. n
      PROVE  /\ IsAbsolute(expr, env, i) => w[i] = env[expr[i].name].value
             /\ IsLabel(expr, env, i) => w[i] = env[expr[i].name].value + b[i]
  BY <1>2, <1>3, <1>5 DEF IsAbsolute, IsLabel, SectionAt
<1>9. \A i, j \in 1 .. n : SameTerm(expr[i], expr[j]) => w[i] = w[j]
  BY <1>2 DEF SameTerm
<1>10. \A i, j \in { k \in 1 .. n : IsLabel(expr, env, k) } :
          SectionAt(expr, env, i) = SectionAt(expr, env, j) => b[i] = b[j]
  BY <1>5
<1>11. QED
  BY <1>1, <1>2, <1>6, <1>7, <1>8, <1>9, <1>10 DEF Worth

\* A value that an expression is classified as is an integer.
LEMMA ResultIsInt ==
    ASSUME NEW expr, Known(expr), NEW env, \A n \in Names : Typed(env[n]),
           Classify(expr, env).kind \in {"absolute", "unsigned"}
    PROVE  Classify(expr, env).value \in Int
<1>1. Sound(expr, env)
  BY KnownIsSound
<1>2. PICK at : at = [s \in { env[n].section : n \in Names } |-> 0]
  OBVIOUS
<1>3. \A n \in Names : at[env[n].section] \in Int
  BY <1>2
<1>4. PICK none : none = [n \in Names |-> 0]
  OBVIOUS
<1>5. PICK w : w = Worths(expr, env, at, none, none, 0)
  OBVIOUS
<1>6. PICK b : Worth(expr, env, w, b, 0)
  <2>1. none \in [Names -> Int]
    BY <1>4
  <2>2. QED
    BY <1>3, <1>5, <2>1, WorthsAreWorth
<1>7. LeafSum(expr, w) = Classify(expr, env).value
  BY <1>1, <1>6, ClassifyMeans DEF ComesTo
<1>8. LeafSum(expr, w) \in Int
  <2>1. PICK n \in Nat : n = Len(expr)
    BY <1>1 DEF Sound
  <2>2. \A i \in 1 .. n : expr[i].sign \in Int /\ w[i] \in Int
    BY <1>1, <1>6, <2>1 DEF Sound, Worth
  <2>3. \A i \in 1 .. n : expr[i].sign * w[i] \in Int
    BY <2>2, Multiply
  <2>4. [i \in 1 .. n |-> expr[i].sign * w[i]] \in [1 .. n -> Int]
    BY <2>3
  <2>5. QED
    BY <2>1, <2>4, TotalIsInt DEF LeafSum
<1>9. QED
  BY <1>7, <1>8

\* The outcome of an assignment.
TypedOutcome(o) == o.kind = "error" \/ (o.kind = "value" /\ o.value \in Int)

\* What an assignment comes to is an integer, when what it needs is one.
LEMMA EvaluateTyped ==
    ASSUME NEW list, NEW d, NEW b, NEW i, NEW outcome,
           Known(list[i].expr), DOMAIN b = Names, \A n \in Names : Typed(b[n]),
           DOMAIN d[i] \in SUBSET Nat,
           \A k \in DOMAIN d[i] : d[i][k].target # 0 => TypedOutcome(outcome[d[i][k].target])
    PROVE  TypedOutcome(Evaluate(list, d, b, i, outcome))
<1> DEFINE Given(n) == { ref \in ToSet(d[i]) : ref.name = n /\ ref.target # 0 }
           env == [n \in DOMAIN b |->
                     IF Given(n) = {} THEN b[n]
                     ELSE LET ref == CHOOSE ref \in Given(n) : TRUE
                          IN  [kind |-> "absolute", value |-> outcome[ref.target].value]]
<1>1. CASE Failed(d, i, outcome) # {}
  <2>1. Failed(d, i, outcome) \in SUBSET Nat
    BY DEF Failed
  <2>2. PICK k \in Failed(d, i, outcome) : \A q \in Failed(d, i, outcome) : k <= q
    BY <1>1, <2>1, LeastElement
  <2>3. Evaluate(list, d, b, i, outcome) = outcome[d[i][k].target]
    BY <2>2, EvaluateFails
  <2>4. QED
    BY <2>2, <2>3 DEF Failed, TypedOutcome
<1>2. CASE Failed(d, i, outcome) = {}
  <2>1. \A ref \in ToSet(d[i]) : ref.target # 0 => outcome[ref.target].value \in Int
    BY <1>2 DEF Failed, ToSet, TypedOutcome
  <2>2. ASSUME NEW n \in Names
        PROVE  Typed(env[n])
    <3>1. CASE Given(n) = {}
      BY <3>1
    <3>2. CASE Given(n) # {}
      <4>1. PICK ref : ref = CHOOSE r \in Given(n) : TRUE
        OBVIOUS
      <4>2. ref \in ToSet(d[i]) /\ ref.target # 0
        BY <3>2, <4>1
      <4>3. env[n] = [kind |-> "absolute", value |-> outcome[ref.target].value]
        BY <3>2, <4>1
      <4>4. outcome[ref.target].value \in Int
        BY <2>1, <4>2
      <4> HIDE DEF env
      <4>5. QED
        BY <4>3, <4>4 DEF Typed
    <3>3. QED
      BY <3>1, <3>2
  <2>3. PICK r, could : /\ r = Classify(list[i].expr, env)
                        /\ Evaluate(list, d, b, i, outcome) = Judge(r, i, could)
    BY <1>2 DEF Evaluate, Failed
  <2> HIDE DEF env
  <2>4. r.kind \in {"absolute", "unsigned"} => r.value \in Int
    BY <2>2, <2>3, ResultIsInt
  <2>5. \/ r.kind = "absolute" /\ Judge(r, i, could) = Value(r.value)
        \/ r.kind = "unsigned" /\ Judge(r, i, could) = Value(Reinterpret(r.value))
        \/ \E e : Judge(r, i, could) = Error(e, i)
    BY DEF Judge
  <2>6. \A v \in Int : Reinterpret(v) \in Int
    BY IntegersAssumption DEF Reinterpret
  <2>7. \A v : Value(v).kind = "value" /\ Value(v).value = v
    BY DEF Value
  <2>8. \A e : Error(e, i).kind = "error"
    BY DEF Error
  <2>9. QED
    BY <2>3, <2>4, <2>5, <2>6, <2>7, <2>8 DEF TypedOutcome
<1>3. QED
  BY <1>1, <1>2

\* What prepare_expression_state finds for the assignments are integers.
LEMMA OutcomesTyped ==
    ASSUME NEW list, WellFormed(list), \A i \in 1 .. Len(list) : Known(list[i].expr),
           NEW b, DOMAIN b = Names, \A n \in Names : Typed(b[n])
    PROVE  /\ DOMAIN Outcomes(list, b) = 1 .. Len(list)
           /\ \A i \in 1 .. Len(list) : TypedOutcome(Outcomes(list, b)[i])
<1>1. PICK depth : Depths(list, b, depth) /\ Outcomes(list, b) = depth[Len(list)]
  BY OutcomesAreDepths
<1>2. PICK n \in Nat : n = Len(list)
  BY DEF WellFormed, IsSequence
<1> DEFINE Fine(o) == DOMAIN o = 1 .. n /\ \A i \in 1 .. n : TypedOutcome(o[i])
<1>3. Fine(depth[0])
  <2>1. TypedOutcome(Cyclic)
    BY DEF TypedOutcome, Cyclic
  <2>2. depth[0] = [i \in 1 .. n |-> Cyclic]
    BY <1>1, <1>2 DEF Depths
  <2>3. QED
    BY <2>1, <2>2
<1>4. ASSUME NEW k \in 1 .. n, Fine(depth[k - 1])
      PROVE  Fine(depth[k])
  <2>1. PICK o : o = depth[k - 1]
    OBVIOUS
  <2>2. PICK d : d = Dependencies(list)
    OBVIOUS
  <2>3. depth[k] = [i \in 1 .. n |-> Evaluate(list, d, b, i, o)]
    BY <1>1, <1>2, <2>1, <2>2 DEF Depths, Deeper
  <2>4. \A i \in 1 .. n : TypedOutcome(o[i])
    BY <1>4, <2>1
  <2>5. ASSUME NEW i \in 1 .. n
        PROVE  TypedOutcome(Evaluate(list, d, b, i, o))
    <3>1. /\ DOMAIN d[i] \in SUBSET Nat
          /\ \A q \in DOMAIN d[i] : d[i][q].target # 0 => d[i][q].target \in 1 .. n
      BY <1>2, <2>2, DependenciesOf
    <3>2. Known(list[i].expr)
      BY <1>2
    <3>3. \A q \in DOMAIN d[i] : d[i][q].target # 0 => TypedOutcome(o[d[i][q].target])
      BY <2>4, <3>1
    <3>4. QED
      BY <3>1, <3>2, <3>3, EvaluateTyped
  <2>6. QED
    BY <2>3, <2>5
<1> HIDE DEF Fine
<1>5. PICK F : F = { k \in Nat : k <= n /\ ~ Fine(depth[k]) }
  OBVIOUS
<1>6. F = {}
  <2>1. SUFFICES ASSUME F # {} PROVE FALSE
    OBVIOUS
  <2>2. F \in SUBSET Nat
    BY <1>5
  <2>3. PICK m \in F : \A k \in F : m <= k
    BY <2>1, <2>2, LeastElement
  <2>4. m \in 1 .. n /\ m - 1 \in Nat /\ m - 1 <= n /\ ~ (m <= m - 1)
    BY <1>3, <1>5, <2>3
  <2>5. Fine(depth[m - 1])
    BY <1>5, <2>3, <2>4
  <2>6. Fine(depth[m])
    BY <1>4, <2>4, <2>5
  <2>7. QED
    BY <1>5, <2>3, <2>6
<1>7. Fine(depth[n])
  BY <1>5, <1>6
<1>8. QED
  BY <1>1, <1>2, <1>7 DEF Fine

-----------------------------------------------------------------------------
(* Places of symbols. *)

\* A symbol has no place, or one in a section of the source.
Lies(v) ==
    \/ v = Undefined
    \/ /\ v = Place(v.section, v.value)
       /\ v.section \in 1 .. Len(Final.sections) /\ v.value \in Int

LEMMA LandingLies ==
    ASSUME Inv, Len(trail) = Len(prog) + 1, NEW j \in 1 .. Len(prog), NEW n, Defines(prog[j], n)
    PROVE  Lies(Landing(prog[j], trail[j]))
<1>1. /\ Len(prog) \in Nat /\ trail \in Seq(Layouts)
      /\ IsStatement(prog[j])
      /\ Unique(trail[j].sections) /\ FirstPass(prog[j], trail[j], trail[j + 1])
      /\ Extends(trail[j].sections, trail[Len(trail)].sections)
      /\ Extends(trail[j + 1].sections, trail[Len(trail)].sections)
  BY DEF Inv, TypeOK, TrailInv
<1>2. PICK s : s = prog[j]
  OBVIOUS
<1>3. PICK a \in Layouts : a = trail[j]
  BY <1>1
<1>4. PICK b \in Layouts : b = trail[j + 1]
  BY <1>1
<1>5. PICK f \in Layouts : f = Final
  BY <1>1 DEF Final
<1>6. Extends(a.sections, f.sections) /\ Extends(b.sections, f.sections)
  BY <1>1, <1>3, <1>4, <1>5 DEF Final
<1>7. /\ Len(a.sections) \in Nat /\ Len(b.sections) \in Nat /\ Len(f.sections) \in Nat
      /\ a.section \in 1 .. Len(a.sections)
      /\ a.sections \in Seq(Section)
  BY DEF Layouts
<1>8. PICK i, v : /\ Landing(s, a) = Place(i, v)
                  /\ i \in 1 .. Len(f.sections) /\ v \in Int
  <2>1. CASE s.op = "label"
    <3>1. a.sections[a.section] \in Section
      BY <1>7
    <3>2. a.sections[a.section].size \in Int
      BY <3>1 DEF Section
    <3>3. a.section \in 1 .. Len(f.sections)
      BY <1>6, <1>7 DEF Extends
    <3>4. QED
      BY <2>1, <3>2, <3>3 DEF Landing, Current
  <2>2. CASE s.op # "label"
    <3>1. s.op = "zerofill" /\ s.op \in Local /\ s.op \notin Quiet /\ s.op # "section"
      BY <1>2, <2>2 DEF Defines, Local, Quiet, ByteOps, SymbolOps
    <3>2. PICK o \in Layouts : o = Opened(s, a)
      BY <1>1, <1>2, <1>3, <3>1, OpenedLemma
    <3>3. PICK t \in 1 .. Len(o.sections) : t = Target(s, a)
      BY <1>1, <1>2, <1>3, <3>1, <3>2, OpenedLemma
    <3>4. Extends(o.sections, b.sections)
      BY <1>1, <1>2, <1>3, <1>4, <3>1, <3>2, MeasuredTable
    <3>5. Len(o.sections) \in Nat /\ o.sections \in Seq(Section)
      BY DEF Layouts
    <3>6. t \in 1 .. Len(f.sections)
      BY <1>6, <1>7, <3>4, <3>5 DEF Extends
    <3>7. PICK x \in Section : x = o.sections[t]
      BY <3>5
    <3>8. Measurable(s, x)
      BY <1>1, <1>2, <1>3, <1>4, <3>1, <3>2, <3>3, <3>7 DEF FirstPass
    <3>9. CanZerofill(x, s.power, s.bytes)
      BY <3>1, <3>8 DEF Measurable, ByteOps
    <3>10. s.power \in Nat
      BY <1>1, <1>2, <3>1 DEF IsStatement
    <3>11. s.power \in 0 .. MaxPower
      <4>1. PICK p \in Nat : p = s.power
        BY <3>10
      <4>2. p <= MaxPower /\ MaxPower \in Nat
        BY <3>9, <4>1 DEF CanZerofill, MaxPower
      <4>3. QED
        BY <4>1, <4>2
    <3>12. x.size \in Nat
      BY DEF Section
    <3>13. AlignUp(x.size, s.power) \in Nat
      BY <3>11, <3>12, AlignUpLemma
    <3>14. Landing(s, a) = Place(t, AlignUp(x.size, s.power))
      BY <2>2, <3>2, <3>3, <3>7 DEF Landing
    <3>15. QED
      BY <3>6, <3>13, <3>14
  <2>3. QED
    BY <2>1, <2>2
<1>9. Place(i, v).section = i /\ Place(i, v).value = v
  BY DEF Place
<1>10. QED
  BY <1>2, <1>3, <1>5, <1>8, <1>9 DEF Lies

\* Every place a symbol is given is in a section of the source.
LEMMA PlacedLie ==
    ASSUME Inv, Len(trail) = Len(prog) + 1,
           NEW places, Placed(places, prog, trail, Len(prog) + 1), NEW n \in Names
    PROVE  Lies(places[n])
<1>1. (Len(prog) + 1) - 1 = Len(prog)
  BY DEF Inv, TypeOK
<1>2. CASE \E j \in 1 .. Len(prog) : Defines(prog[j], n)
  <2>1. PICK j \in 1 .. Len(prog) : Defines(prog[j], n)
    BY <1>2
  <2>2. places[n] = Landing(prog[j], trail[j])
    BY <1>1, <2>1 DEF Placed
  <2>3. QED
    BY <2>1, <2>2, LandingLies
<1>3. CASE \A j \in 1 .. Len(prog) : ~ Defines(prog[j], n)
  BY <1>1, <1>3 DEF Placed, Lies
<1>4. QED
  BY <1>2, <1>3

\* Such a place is a value that an expression can have.
LEMMA LiesTyped ==
    ASSUME NEW v, Lies(v)
    PROVE  Typed(v) /\ v.kind # "absolute" /\ (v = Undefined <=> v.kind # "defined")
  BY DEF Lies, Typed, Place, Undefined

\* prepare_expression_state finds integers for the assignments, and labels
\* for the aliases.
IsAssignment(a) == a = [name |-> a.name, expr |-> a.expr] /\ Known(a.expr)

Listing == \A i \in 1 .. Len(assigns) : IsAssignment(assigns[i])

Given ==
    /\ \A i \in 1 .. Len(assigns) : values[i] \in Int /\ aliases[i] \in Names \union {NoName}
    /\ \A n \in Names : AliasSlots(n) # {} => labels[n] # Undefined

GivenInv ==
    /\ Listing
    /\ phase \in {"reset", "emit", "fixups", "finish", "done"} => Given

LEMMA VisibleInRange ==
    ASSUME NEW n \in Nat, NEW S \in SUBSET (1 .. n), S # {}, NEW k \in 0 .. n
    PROVE  VisibleOf(S, k) \in S
<1>1. PICK P : P = { i \in S : i <= k }
  OBVIOUS
<1>2. VisibleOf(S, k) = IF P # {} THEN Max(P) ELSE Min(S)
  BY <1>1 DEF VisibleOf
<1>3. P \in SUBSET (1 .. n) /\ P \in SUBSET S
  BY <1>1
<1>4. CASE P # {}
  BY <1>2, <1>3, <1>4, MaxInRange
<1>5. CASE P = {}
  <2>1. S \in SUBSET Nat
    OBVIOUS
  <2>2. Min(S) \in S
    BY <2>1, MinOfNaturals
  <2>3. QED
    BY <1>2, <1>5, <2>2
<1>6. QED
  BY <1>4, <1>5

LEMMA ZeroIsKnown == Known(Zero)
<1>1. [sign |-> 1, kind |-> "int", value |-> 0] \in Leaf
  BY DEF Leaf
<1>2. Zero \in Seq(Leaf)
  BY <1>1 DEF Zero
<1>3. \A i \in DOMAIN Zero : Zero[i].kind = "int"
  BY DEF Zero
<1>4. QED
  BY <1>2, <1>3 DEF Known

\* The first pass lists assignments, and gives no values.
LEMMA CollectGiven ==
    ASSUME SourceKnown, Inv, SetsInv, GivenInv,
           \/ CollectLabel \/ CollectSet \/ CollectComm \/ CollectAttribute
           \/ CollectZerofill \/ CollectOther
    PROVE  GivenInv'
<1>1. phase' \in {"collect", "unwind", "expressions"}
  BY DEF CollectLabel, CollectSet, CollectComm, CollectAttribute, CollectZerofill,
     CollectOther, CollectSymbol, CollectZerofills, CollectBytes, CollectFill, CollectSpace,
     CollectAlign, CollectSection, CollectStartProc, CollectCfi, CollectEndProc,
     EndCollect, PrepareUnwind, Advance, At
<1>2. CASE CollectSet
  <2>1. pc \in 1 .. Len(prog) /\ prog[pc].op = "set"
        /\ assigns' = Append(assigns, [name |-> prog[pc].name, expr |-> prog[pc].expr])
    BY <1>2 DEF CollectSet, CollectSymbol, At, Is, Stmt, Inv, TypeOK
  <2>2. PICK a : a = [name |-> prog[pc].name, expr |-> prog[pc].expr]
    OBVIOUS
  <2>3. IsAssignment(a)
    BY <2>1, <2>2, SourceExpressions DEF IsAssignment, Known
  <2>4. PICK t : t = Append(assigns, a)
    OBVIOUS
  <2>5. PICK n \in Nat : n = Len(assigns)
    BY SequenceGrows DEF SetsInv
  <2>6. Len(t) = n + 1 /\ t[n + 1] = a /\ \A k \in 1 .. n : t[k] = assigns[k]
    BY <2>4, <2>5, SequenceGrows DEF SetsInv
  <2>7. \A i \in 1 .. n + 1 : IsAssignment(t[i])
    BY <2>3, <2>5, <2>6 DEF GivenInv, Listing
  <2>8. Listing'
    BY <2>1, <2>2, <2>4, <2>6, <2>7 DEF Listing
  <2>9. QED
    BY <1>1, <2>8 DEF GivenInv
<1>3. CASE ~ CollectSet
  <2>1. assigns' = assigns
    BY <1>3 DEF CollectLabel, CollectComm, CollectAttribute, CollectZerofill, CollectOther,
       symbols
  <2>2. QED
    BY <1>1, <2>1 DEF GivenInv, Listing
<1>4. QED
  BY <1>2, <1>3

\* prepare_expression_state gives the values, and the labels of aliases.
LEMMA PrepareGiven ==
    ASSUME Inv, SetsInv, PlacesInv, GivenInv, PrepareExpressions
    PROVE  GivenInv'
<1>1. PICK n \in Nat : n = Len(assigns)
  BY SequenceGrows DEF SetsInv
<1>2. DOMAIN assigns = 1 .. n
  BY <1>1, SequenceGrows DEF SetsInv
<1>3. /\ phase = "expressions" /\ assigns' = assigns
      /\ aliases' = [i \in 1 .. n |-> AliasTarget(assigns[i].expr)]
  BY <1>2 DEF PrepareExpressions, LayoutPrepare
<1>4. PICK list : list = [i \in 1 .. n |-> IF aliases'[i] = NoName THEN assigns[i]
                                           ELSE [assigns[i] EXCEPT !.expr = Zero]]
  OBVIOUS
<1>5. \A i \in 1 .. n : IsAssignment(assigns[i])
  BY <1>1 DEF GivenInv, Listing
<1>6. ASSUME NEW i \in 1 .. n
      PROVE  Known(list[i].expr) /\ aliases'[i] \in Names \union {NoName}
  <2>1. IsAssignment(assigns[i]) /\ Known(assigns[i].expr)
    BY <1>5 DEF IsAssignment
  <2>2. CASE aliases'[i] = NoName
    BY <1>4, <2>1, <2>2
  <2>3. CASE aliases'[i] # NoName
    <3>1. list[i] = [assigns[i] EXCEPT !.expr = Zero]
      BY <1>4, <2>3
    <3>2. PICK x, y : assigns[i] = [name |-> x, expr |-> y]
      BY <2>1 DEF IsAssignment
    <3>3. list[i].expr = Zero
      BY <3>1, <3>2
    <3>4. aliases'[i] = AliasTarget(assigns[i].expr)
      BY <1>3
    <3>5. Lone(assigns[i].expr) /\ aliases'[i] = assigns[i].expr[1].name
      BY <2>3, <3>4 DEF AliasTarget
    <3>6. assigns[i].expr[1].name \in Names
      <4>1. 1 \in 1 .. Len(assigns[i].expr)
        BY <3>5 DEF Lone
      <4>2. QED
        BY <2>1, <3>5, <4>1, LeavesOf DEF Lone
    <3>7. QED
      BY <3>3, <3>5, <3>6, ZeroIsKnown
  <2>4. QED
    BY <2>2, <2>3
<1>7. Len(list) = n /\ DOMAIN list = 1 .. n /\ IsSequence(list)
  <2>1. list = [i \in 1 .. n |-> list[i]]
    BY <1>4
  <2>2. \A i \in 1 .. n : list[i] \in ToSet(list)
    BY <2>1 DEF ToSet
  <2>3. list \in Seq(ToSet(list))
    BY <2>1, <2>2
  <2>4. QED
    BY <2>1, <2>3 DEF IsSequence
<1>8. WellFormed(list)
  <2>1. ASSUME NEW i \in 1 .. n
        PROVE  IsSequence(list[i].expr)
    <3>1. PICK e : e = list[i].expr
      OBVIOUS
    <3>2. e \in Seq(Leaf)
      BY <1>6, <3>1 DEF Known
    <3>3. \A k \in 1 .. Len(e) : e[k] \in ToSet(e)
      BY <3>2 DEF ToSet
    <3>4. e \in Seq(ToSet(e))
      BY <3>2, <3>3
    <3>5. QED
      BY <3>1, <3>4 DEF IsSequence
  <2>2. QED
    BY <1>7, <2>1 DEF WellFormed
<1>9. Placed(labels, prog, trail, Len(prog) + 1) /\ Len(trail) = Len(prog) + 1
  BY <1>3 DEF PlacesInv, Inv, PhaseInv
<1>10. DOMAIN labels = Names /\ \A m \in Names : Typed(labels[m])
  <2>1. labels = [m \in Names |-> labels[m]]
    BY <1>9 DEF Placed
  <2>2. \A m \in Names : Typed(labels[m])
    BY <1>9, PlacedLie, LiesTyped
  <2>3. QED
    BY <2>1, <2>2
<1>11. PICK o : o = Outcomes(list, labels)
  OBVIOUS
<1>12. DOMAIN o = 1 .. n /\ \A i \in 1 .. n : TypedOutcome(o[i])
  BY <1>6, <1>7, <1>8, <1>10, <1>11, OutcomesTyped
<1>13. /\ \A i \in DOMAIN o : o[i].kind = "value"
       /\ values' = [i \in DOMAIN o |-> o[i].value]
  BY <1>2, <1>4, <1>11 DEF PrepareExpressions, SlotValues
<1>14. \A i \in 1 .. n : values'[i] \in Int
  BY <1>12, <1>13 DEF TypedOutcome
<1>15. /\ \A i \in DOMAIN aliases' : aliases'[i] # NoName => labels[aliases'[i]] # Undefined
       /\ labels' = [m \in Names |-> IF AliasSlots(m)' = {} THEN labels[m]
                                     ELSE labels[aliases'[Max(AliasSlots(m)')]]]
  BY DEF PrepareExpressions, ApplyAliases
<1>16. ASSUME NEW m \in Names, AliasSlots(m)' # {}
       PROVE  labels'[m] # Undefined
  <2>1. AliasSlots(m)' \in SUBSET (1 .. n)
    BY <1>3 DEF AliasSlots
  <2>2. PICK S : S = AliasSlots(m)'
    OBVIOUS
  <2>3. Max(S) \in S
    BY <1>16, <2>1, <2>2, MaxInRange
  <2>4. Max(S) \in DOMAIN aliases' /\ aliases'[Max(S)] # NoName
    BY <2>2, <2>3 DEF AliasSlots
  <2>5. labels[aliases'[Max(S)]] # Undefined
    BY <1>15, <2>4
  <2>6. labels'[m] = labels[aliases'[Max(S)]]
    BY <1>15, <1>16, <2>2
  <2>7. QED
    BY <2>5, <2>6
<1>17. Given'
  BY <1>1, <1>3, <1>6, <1>14, <1>16 DEF Given
<1>18. Listing'
  BY <1>3 DEF GivenInv, Listing
<1>19. QED
  BY <1>17, <1>18 DEF GivenInv

LEMMA GivenHolds == Spec => []GivenInv
<1>1. Init => GivenInv
  BY DEF Init, LayoutInit, GivenInv, Listing
<1>2. ASSUME SourceKnown, Inv, SetsInv, PlacesInv, GivenInv, [Next]_vars
      PROVE  GivenInv'
  <2>1. CASE \/ CollectLabel \/ CollectSet \/ CollectComm \/ CollectAttribute
             \/ CollectZerofill \/ CollectOther
    BY <1>2, <2>1, CollectGiven
  <2>2. CASE PrepareExpressions
    BY <1>2, <2>2, PrepareGiven
  <2>3. CASE \/ Reset \/ EmitSet \/ EmitQuad \/ EmitFixup \/ EmitLabel
             \/ EmitZerofillSymbol \/ EmitOther
             \/ ResolveData64 \/ ResolveBranch \/ ResolvePage \/ EndFixups
             \/ Finish \/ FinishElf \/ Fail \/ Terminated \/ UNCHANGED vars
    <3>1. UNCHANGED <<assigns, aliases, values, labels>>
      BY <2>3 DEF Reset, EmitSet, EmitQuad, EmitFixup, EmitLabel, EmitZerofillSymbol,
         EmitOther, ResolveData64, ResolveBranch, ResolvePage, ResolveHere, Resolve,
         EndFixups, Finish, FinishElf, Fail, Terminated, vars, symbols, expressions
    <3>2. \/ phase \in {"reset", "emit", "fixups", "finish", "done"}
          \/ phase' = "error"
          \/ phase' = phase
      BY <2>3 DEF Reset, LayoutReset, EmitSet, EmitQuad, EmitFixup, EmitLabel,
         EmitZerofillSymbol, EmitOther, ResolveData64, ResolveBranch, ResolvePage,
         ResolveHere, Resolve, EndFixups, Finish, FinishElf, Fail, Terminated, vars,
         layoutVars, At,
         EmitNothing, EmitBytes, EmitFill, EmitSpaces, EmitAlignment, EmitSection,
         EmitZerofills, EndEmit, Proceed, ResolveFixups, LayoutFinish, LayoutFinishElf,
         LayoutFail, LayoutTerminated
    <3>3. (Given <=> Given') /\ (Listing <=> Listing')
      BY <3>1 DEF Given, Listing, AliasSlots
    <3>4. QED
      BY <1>2, <3>2, <3>3 DEF GivenInv
  <2>4. QED
    BY <1>2, <2>1, <2>2, <2>3 DEF Next
<1>3. QED
  BY <1>1, <1>2, SourceStays, LayoutHolds, SetsHold, PlacesHold, PTL DEF Spec

\* So every symbol has a value that an expression can use.
LEMMA LabelsLie ==
    ASSUME Inv, SetsInv, PlacesInv, GivenInv,
           phase \in {"reset", "emit", "fixups", "finish", "done"}, NEW n \in Names
    PROVE  Lies(labels[n]) /\ Typed(labels[n])
<1>1. Len(trail) = Len(prog) + 1 /\ Given
  BY DEF Inv, PhaseInv, GivenInv
<1>2. PICK first : Placed(first, prog, trail, Len(prog) + 1) /\ labels = Renamed(first)
  BY DEF PlacesInv, LabelsKept
<1>3. \A m \in Names : Lies(first[m])
  BY <1>1, <1>2, PlacedLie
<1>4. CASE AliasSlots(n) = {}
  <2>1. labels[n] = first[n]
    BY <1>2, <1>4 DEF Renamed
  <2>2. QED
    BY <1>3, <2>1, LiesTyped
<1>5. CASE AliasSlots(n) # {}
  <2>1. PICK k \in Nat : k = Len(assigns)
    BY SequenceGrows DEF SetsInv
  <2>2. DOMAIN aliases = 1 .. k
    BY <2>1, SequenceGrows DEF SetsInv
  <2>3. AliasSlots(n) \in SUBSET (1 .. k)
    BY <2>2 DEF AliasSlots
  <2>4. PICK m \in 1 .. k : m = Max(AliasSlots(n)) /\ m \in AliasSlots(n)
    BY <1>5, <2>1, <2>3, MaxInRange
  <2>5. aliases[m] \in Names
    BY <1>1, <2>1, <2>4 DEF Given, AliasSlots
  <2>6. labels[n] = first[aliases[m]]
    BY <1>2, <1>5, <2>4 DEF Renamed
  <2>7. QED
    BY <1>3, <2>5, <2>6, LiesTyped
<1>6. QED
  BY <1>4, <1>5

\* Every environment that a fixup is classified in has integers.
LEMMA EnvironmentTyped ==
    ASSUME Inv, SetsInv, PlacesInv, GivenInv,
           phase \in {"reset", "emit", "fixups", "finish", "done"},
           NEW k \in 0 .. Len(assigns), NEW n \in Names
    PROVE  /\ Typed(EnvironmentAfter(k)[n])
           /\ EnvironmentAfter(k)[n].kind = "absolute" <=> ValueSlots(n) # {}
           /\ EnvironmentAfter(k)[n].kind # "absolute" =>
                 EnvironmentAfter(k)[n] = labels[n] /\ Lies(labels[n])
<1>1. Lies(labels[n]) /\ Typed(labels[n]) /\ labels[n].kind # "absolute"
  BY LabelsLie, LiesTyped
<1>2. PICK v : v = EnvironmentAfter(k)[n]
  OBVIOUS
<1>3. CASE ValueSlots(n) = {}
  <2>1. ValuesAfter(k)[n] = Undefined
    BY <1>3 DEF ValuesAfter
  <2>2. v = labels[n]
    BY <1>2, <2>1 DEF EnvironmentAfter
  <2>3. QED
    BY <1>1, <1>2, <1>3, <2>2
<1>4. CASE ValueSlots(n) # {}
  <2>1. PICK m \in Nat : m = Len(assigns)
    BY SequenceGrows DEF SetsInv
  <2>2. ValueSlots(n) \in SUBSET (1 .. m)
    BY <2>1, SequenceGrows DEF SetsInv, ValueSlots
  <2>3. VisibleOf(ValueSlots(n), k) \in 1 .. m
    BY <1>4, <2>1, <2>2, VisibleInRange
  <2>4. values[VisibleOf(ValueSlots(n), k)] \in Int
    BY <2>1, <2>3 DEF GivenInv, Given
  <2>5. PICK x \in Int : x = values[VisibleOf(ValueSlots(n), k)]
    BY <2>4
  <2>6. ValuesAfter(k)[n] = Absolute(x) /\ Absolute(x) # Undefined
    BY <1>4, <2>5 DEF ValuesAfter, Absolute, Undefined
  <2>7. v = Absolute(x)
    BY <1>2, <2>6 DEF EnvironmentAfter
  <2>8. QED
    BY <1>2, <1>4, <2>7 DEF Typed, Absolute
<1>5. QED
  BY <1>3, <1>4

-----------------------------------------------------------------------------
(* What a fixup comes to. *)

\* Fixups are resolved, or are there to be.
Resolving ==
    /\ Inv /\ SourceKnown /\ SetsInv /\ PlacesInv /\ GivenInv /\ StatementsInv /\ FixupsInv
    /\ phase \in {"fixups", "finish", "done"}
    /\ Len(Final.sections) <= Len(layout.sections)

\* Where the linker puts the sections of the source.
Addresses(link) == [i \in 1 .. Len(Final.sections) |-> SectionAddress(i, link)]

\* The assignments that a fixup sees, and the values they leave.
SlotOf(fix) == IF fix.kind = "Data64" THEN SetsBefore(fix.stmt) ELSE Len(assigns)
EnvironmentOf(fix) == EnvironmentAfter(SlotOf(fix))

HereOf(fix, link) == SectionAddress(fix.section, link) + fix.offset

\* What its expression comes to.
WorthsOf(fix, link) == Worths(fix.expr, EnvironmentOf(fix), Addresses(link),
                              link.externals, link.gots, HereOf(fix, link))
ComesOf(fix, link) == LeafSum(fix.expr, WorthsOf(fix, link))

\* Where a linker puts the sections of this object.
LEMMA LinkingKnown ==
    ASSUME Resolving, NEW link \in Linkings
    PROVE  /\ \A i \in 1 .. Len(layout.sections) : SectionAddress(i, link) \in Int
           /\ \A i \in 1 .. Len(Final.sections) :
                 SectionAddress(i, link) \in Int /\ Addresses(link)[i] = SectionAddress(i, link)
           /\ link.externals \in [Names -> Int] /\ link.gots \in [Names -> Int]
<1>1. /\ link.sections \in [SectionNames -> Int]
      /\ link.externals \in [Names -> Int] /\ link.gots \in [Names -> Int]
  BY LinkingsAssumption
<1>2. layout.sections \in Seq(Section)
  BY DEF Resolving, Inv, TypeOK, Layouts
<1>3. Len(layout.sections) \in Nat /\ Len(Final.sections) \in Nat
  <2>1. Final \in Layouts
    BY DEF Resolving, Inv, PhaseInv, TypeOK, Final
  <2>2. QED
    BY <1>2, <2>1 DEF Layouts
<1>4. ASSUME NEW i \in 1 .. Len(layout.sections)
      PROVE  SectionAddress(i, link) \in Int
  <2>1. layout.sections[i] \in Section
    BY <1>2
  <2>2. layout.sections[i].name \in SectionNames
    BY <2>1 DEF Section
  <2>3. QED
    BY <1>1, <2>2 DEF SectionAddress
<1>5. ASSUME NEW i \in 1 .. Len(Final.sections)
      PROVE  i \in 1 .. Len(layout.sections)
  BY <1>3 DEF Resolving
<1>6. QED
  BY <1>1, <1>4, <1>5 DEF Addresses

\* A fixup has an expression of the source, in a section of the object.
LEMMA FixupKnown ==
    ASSUME Resolving, NEW k \in 1 .. Len(fixups), NEW fix, fix = fixups[k]
    PROVE  /\ fix.section \in 1 .. Len(Final.sections) /\ fix.offset \in Int
           /\ Known(fix.expr)
           /\ SlotOf(fix) \in 0 .. Len(assigns)
           /\ fix.kind \in DOMAIN Bits \union PageKinds \union {"Data64"}
           /\ fix.kind = "Data64" => ~ IsError(fix.classified)
           /\ Operand(fix) = Classify(fix.expr, EnvironmentOf(fix))
<1>1. /\ FixesStatement(fix) /\ SourceKnown /\ Inv /\ SetsInv
      /\ Len(trail) = Len(prog) + 1 /\ Len(prog) \in Nat /\ trail \in Seq(Layouts)
      /\ Listed(Len(prog) + 1)
      /\ absolutes = ValuesAfter(Len(assigns))
  BY DEF Resolving, StatementsInv, Inv, PhaseInv, TypeOK, SetsInv
<1>2. PICK s \in 1 .. Len(prog) : s = fix.stmt
  BY <1>1 DEF FixesStatement
<1>3. /\ prog[s].op \in {"quad", "fixup"} /\ fix.expr = prog[s].expr
      /\ prog[s].op = "quad" =>
            /\ fix.kind = "Data64" /\ ~ IsError(fix.classified)
            /\ fix.classified = Classify(fix.expr, EnvironmentAfter(SetsBefore(s)))
      /\ prog[s].op = "fixup" => fix.kind = prog[s].reloc
      /\ fix.section = trail[s].section /\ fix.offset = Current(trail[s]).size
  BY <1>1, <1>2 DEF FixesStatement
<1>4. Known(fix.expr)
  BY <1>1, <1>3, SourceExpressions DEF Known
<1>5. fix.section \in 1 .. Len(Final.sections) /\ fix.offset \in Int
  <2>1. PICK a \in Layouts : a = trail[s]
    BY <1>1
  <2>2. PICK f \in Layouts : f = Final
    BY <1>1 DEF Final
  <2>3. Extends(a.sections, f.sections)
    BY <1>1, <2>1, <2>2 DEF Inv, TrailInv, Final
  <2>4. /\ a.section \in 1 .. Len(a.sections) /\ a.sections \in Seq(Section)
        /\ Len(a.sections) \in Nat /\ Len(f.sections) \in Nat
    BY DEF Layouts
  <2>5. a.section \in 1 .. Len(f.sections)
    BY <2>3, <2>4 DEF Extends
  <2>6. a.sections[a.section] \in Section
    BY <2>4
  <2>7. a.sections[a.section].size \in Nat
    BY <2>6 DEF Section
  <2>8. QED
    BY <1>3, <2>1, <2>2, <2>5, <2>7 DEF Current
<1>6. /\ prog[s].op = "quad" <=> fix.kind = "Data64"
      /\ fix.kind \in DOMAIN Bits \union PageKinds \union {"Data64"}
  <2>1. NamesSymbols(prog[s])
    BY <1>1, SymbolsAssumption DEF SourceKnown
  <2>2. prog[s].op = "fixup" => fix.kind \in DOMAIN Bits \union PageKinds
    BY <1>3, <2>1 DEF NamesSymbols
  <2>3. "Data64" \notin DOMAIN Bits \union PageKinds
    BY SymbolsAssumption DEF PageKinds
  <2>4. QED
    BY <1>3, <2>2, <2>3
<1>7. SlotOf(fix) \in 0 .. Len(assigns)
  <2>1. PICK p \in Nat \ {0} : p = Len(prog) + 1
    BY <1>1
  <2>2. /\ SetsBefore(p) \in Nat /\ Len(assigns) = SetsBefore(p)
        /\ SetsBefore(s) \in Nat /\ SetsBefore(s) <= SetsBefore(p)
    <3>1. s \in 1 .. p
      BY <1>1, <2>1
    <3>2. QED
      BY <1>1, <2>1, <3>1, CountSets DEF Listed
  <2>3. QED
    BY <1>2, <2>2 DEF SlotOf
<1>8. Operand(fix) = Classify(fix.expr, EnvironmentOf(fix))
  <2>1. Environment = EnvironmentAfter(Len(assigns))
    BY <1>1 DEF Environment, EnvironmentAfter
  <2>2. QED
    BY <1>2, <1>3, <1>6, <2>1 DEF Operand, EnvironmentOf, SlotOf
<1>9. QED
  BY <1>3, <1>4, <1>5, <1>6, <1>7, <1>8

\* What its leaves come to.
LEMMA WorthsKnown ==
    ASSUME Resolving, NEW k \in 1 .. Len(fixups), NEW fix, fix = fixups[k], NEW link \in Linkings
    PROVE  /\ \A n \in Names : Typed(EnvironmentOf(fix)[n])
           /\ Sound(fix.expr, EnvironmentOf(fix))
           /\ HereOf(fix, link) \in Int
           /\ \E b : Worth(fix.expr, EnvironmentOf(fix), WorthsOf(fix, link), b,
                           HereOf(fix, link))
<1>1. PICK env : env = EnvironmentOf(fix)
  OBVIOUS
<1>2. PICK at : at = Addresses(link)
  OBVIOUS
<1>3. \A n \in Names : /\ Typed(env[n])
                       /\ env[n].kind # "absolute" => env[n] = labels[n] /\ Lies(labels[n])
  <2>1. SlotOf(fix) \in 0 .. Len(assigns)
    BY FixupKnown
  <2>2. QED
    BY <1>1, <2>1, EnvironmentTyped DEF Resolving, EnvironmentOf
<1>4. ASSUME NEW n \in Names, env[n].kind = "defined"
      PROVE  at[env[n].section] \in Int
  <2>1. env[n].section \in 1 .. Len(Final.sections)
    BY <1>3, <1>4, LiesTyped DEF Lies
  <2>2. QED
    BY <1>2, <2>1, LinkingKnown
<1>5. HereOf(fix, link) \in Int
  <2>1. fix.section \in 1 .. Len(Final.sections) /\ fix.offset \in Int
    BY FixupKnown
  <2>2. SectionAddress(fix.section, link) \in Int
    BY <2>1, LinkingKnown
  <2>3. QED
    BY <2>1, <2>2 DEF HereOf
<1>6. Known(fix.expr)
  BY FixupKnown
<1>7. PICK outside : outside = link.externals /\ outside \in [Names -> Int]
  BY LinkingKnown
<1>8. PICK gots : gots = link.gots /\ gots \in [Names -> Int]
  BY LinkingKnown
<1>9. PICK here \in Int : here = HereOf(fix, link)
  BY <1>5
<1>10. PICK w : w = WorthsOf(fix, link) /\ w = Worths(fix.expr, env, at, outside, gots, here)
  BY <1>1, <1>2, <1>7, <1>8, <1>9 DEF WorthsOf
<1>11. \E b : Worth(fix.expr, env, w, b, here)
  BY <1>3, <1>4, <1>6, <1>7, <1>8, <1>10, WorthsAreWorth
<1>12. Sound(fix.expr, env)
  BY <1>3, <1>6, KnownIsSound
<1>13. QED
  BY <1>1, <1>3, <1>9, <1>10, <1>11, <1>12

\* Leaf i comes to the place where the linker finds n.
ComesToPlace(fix, link, i, n) == WorthsOf(fix, link)[i] = Address(Symbol(n), link)

\* The leaf that a result names comes to the address of its symbol.
LEMMA LeafAddress ==
    ASSUME Resolving, NEW k \in 1 .. Len(fixups), NEW fix, fix = fixups[k],
           NEW link \in Linkings, NEW i, NEW n, Named(fix.expr, i, "sym", n),
           EnvironmentOf(fix)[n].kind # "absolute"
    PROVE  /\ n \in Names /\ Address(Symbol(n), link) \in Int
           /\ ComesToPlace(fix, link, i, n)
<1>1. PICK w : w = WorthsOf(fix, link)
  OBVIOUS
<1>2. i \in 1 .. Len(fix.expr) /\ fix.expr[i].kind = "sym" /\ fix.expr[i].name = n
  BY DEF Named
<1>3. n \in Names
  <2>1. Known(fix.expr)
    BY FixupKnown
  <2>2. QED
    BY <1>2, <2>1, LeavesOf
<1>4. EnvironmentOf(fix)[n] = labels[n] /\ Lies(labels[n])
  <2>1. SlotOf(fix) \in 0 .. Len(assigns)
    BY FixupKnown
  <2>2. QED
    BY <1>3, <2>1, EnvironmentTyped DEF Resolving, EnvironmentOf
<1>5. w[i] = NameWorth(labels[n], Addresses(link), link.externals[n])
  <2>1. w[i] = LeafWorth(fix.expr[i], EnvironmentOf(fix), Addresses(link), link.externals,
                         link.gots, HereOf(fix, link))
    BY <1>1, <1>2 DEF WorthsOf, Worths
  <2>2. QED
    BY <1>2, <1>4, <2>1 DEF LeafWorth
<1>6. /\ Address(Symbol(n), link)
           = IF labels[n] # Undefined THEN Located(labels[n], link) ELSE link.externals[n]
  BY DEF Address, Symbol
<1>7. link.externals[n] \in Int
  BY <1>3, LinkingKnown
<1>8. CASE labels[n] = Undefined
  <2>1. w[i] = link.externals[n]
    BY <1>5, <1>8 DEF NameWorth, Undefined
  <2>2. QED
    BY <1>1, <1>3, <1>6, <1>7, <1>8, <2>1 DEF ComesToPlace
<1>9. CASE labels[n] # Undefined
  <2>1. /\ labels[n].kind = "defined" /\ labels[n].value \in Int
        /\ labels[n].section \in 1 .. Len(Final.sections)
    BY <1>4, <1>9, LiesTyped DEF Lies
  <2>2. PICK v, x, s : v = labels[n].value /\ s = labels[n].section
                       /\ x = SectionAddress(s, link)
    OBVIOUS
  <2>3. x \in Int /\ Addresses(link)[s] = x
    BY <2>1, <2>2, LinkingKnown
  <2>4. w[i] = x + v
    BY <1>5, <2>1, <2>2, <2>3 DEF NameWorth
  <2>5. Address(Symbol(n), link) = x + v
    BY <1>6, <1>9, <2>2 DEF Located
  <2>6. QED
    BY <1>1, <1>3, <2>1, <2>2, <2>3, <2>4, <2>5 DEF ComesToPlace
<1>10. QED
  BY <1>8, <1>9

\* What the operand is classified as is what it comes to.
LEMMA ResultMeans ==
    ASSUME Resolving, NEW k \in 1 .. Len(fixups), NEW fix, fix = fixups[k],
           NEW link \in Linkings, NEW c, c = Operand(fix)
    PROVE  /\ c.kind \in {"absolute", "unsigned"} =>
                 c.value \in Int /\ ComesOf(fix, link) = c.value
           /\ c.kind = "relocatable" =>
                 /\ c.symbol \in Names /\ c.addend \in Int
                 /\ Address(Symbol(c.symbol), link) \in Int
                 /\ ComesOf(fix, link) = c.addend + Address(Symbol(c.symbol), link)
           /\ c.kind = "difference" =>
                 /\ c.minuend \in Names /\ c.subtrahend \in Names /\ c.addend \in Int
                 /\ Address(Symbol(c.minuend), link) \in Int
                 /\ Address(Symbol(c.subtrahend), link) \in Int
                 /\ ComesOf(fix, link) = c.addend + Address(Symbol(c.minuend), link)
                                           - Address(Symbol(c.subtrahend), link)
           /\ c.kind = "got" =>
                 /\ c.symbol \in Names /\ c.addend \in Int /\ link.gots[c.symbol] \in Int
                 /\ ~ c.pcrel => ComesOf(fix, link) = c.addend + link.gots[c.symbol]
<1>1. PICK env, w, here, e : /\ env = EnvironmentOf(fix) /\ w = WorthsOf(fix, link)
                             /\ here = HereOf(fix, link) /\ e = fix.expr
  OBVIOUS
<1>2. PICK b : Sound(e, env) /\ Worth(e, env, w, b, here)
  BY <1>1, WorthsKnown
<1>3. c = Classify(e, env)
  BY <1>1, FixupKnown
<1>4. ComesTo(e, w, here, c)
  BY <1>2, <1>3, ClassifyMeans
<1>5. ComesOf(fix, link) = LeafSum(e, w)
  BY <1>1 DEF ComesOf
<1>6. c.kind \in {"relocatable", "difference", "got"} => c.addend \in Int
  BY <1>2, <1>3, ClassifiedIsInt
<1>7. c.kind \in {"absolute", "unsigned"} => c.value \in Int
  <2>1. Known(e) /\ \A n \in Names : Typed(env[n])
    BY <1>1, FixupKnown, WorthsKnown
  <2>2. QED
    BY <1>3, <2>1, ResultIsInt
<1>8. /\ c.kind = "relocatable" => env[c.symbol].kind # "absolute"
      /\ c.kind = "difference" => /\ env[c.minuend].kind # "absolute"
                                  /\ env[c.subtrahend].kind # "absolute"
  BY <1>2, <1>3, NamesArePlaces
<1>9. ASSUME NEW i, NEW n, Named(e, i, "sym", n), env[n].kind # "absolute"
       PROVE  n \in Names /\ Address(Symbol(n), link) \in Int /\ w[i] = Address(Symbol(n), link)
  <2>1. Named(fix.expr, i, "sym", n) /\ EnvironmentOf(fix)[n].kind # "absolute"
    BY <1>1, <1>9
  <2>2. /\ n \in Names /\ Address(Symbol(n), link) \in Int
        /\ ComesToPlace(fix, link, i, n)
    BY <2>1, LeafAddress
  <2>3. QED
    BY <1>1, <2>2 DEF ComesToPlace
<1>10. CASE c.kind = "relocatable"
  <2>1. PICK i \in 1 .. Len(e) : /\ Named(e, i, "sym", c.symbol)
                                 /\ LeafSum(e, w) = c.addend + w[i]
    BY <1>4, <1>10 DEF ComesTo, Plus
  <2>2. /\ c.symbol \in Names /\ Address(Symbol(c.symbol), link) \in Int
        /\ w[i] = Address(Symbol(c.symbol), link)
    BY <1>8, <1>10, <1>9, <2>1
  <2>3. QED
    BY <1>5, <1>6, <1>10, <2>1, <2>2
<1>11. CASE c.kind = "difference"
  <2>1. PICK i \in 1 .. Len(e), j \in 1 .. Len(e) :
           /\ Named(e, i, "sym", c.minuend) /\ Named(e, j, "sym", c.subtrahend)
           /\ LeafSum(e, w) = c.addend + w[i] - w[j]
    BY <1>4, <1>11 DEF ComesTo, Minus
  <2>2. /\ c.minuend \in Names /\ Address(Symbol(c.minuend), link) \in Int
        /\ w[i] = Address(Symbol(c.minuend), link)
    BY <1>8, <1>11, <1>9, <2>1
  <2>3. /\ c.subtrahend \in Names /\ Address(Symbol(c.subtrahend), link) \in Int
        /\ w[j] = Address(Symbol(c.subtrahend), link)
    BY <1>8, <1>11, <1>9, <2>1
  <2>4. QED
    BY <1>5, <1>6, <1>11, <2>1, <2>2, <2>3
<1>12. CASE c.kind = "got"
  <2>1. PICK i \in 1 .. Len(e) :
           /\ Named(e, i, "got", c.symbol)
           /\ LeafSum(e, w) = c.addend + w[i] + (IF c.pcrel THEN -here ELSE 0)
    BY <1>4, <1>12 DEF ComesTo, PlusGot
  <2>2. c.symbol \in Names /\ w[i] = link.gots[c.symbol]
    <3>1. Known(e)
      BY <1>1, FixupKnown
    <3>2. e[i].kind = "got" /\ e[i].name = c.symbol
      BY <2>1 DEF Named
    <3>3. w[i] = LeafWorth(e[i], env, Addresses(link), link.externals, link.gots, here)
      BY <1>1 DEF WorthsOf, Worths
    <3>4. QED
      BY <3>1, <3>2, <3>3, LeavesOf DEF LeafWorth
  <2>3. PICK g \in Int : g = link.gots[c.symbol]
    <3>1. link.gots \in [Names -> Int]
      BY LinkingKnown
    <3>2. QED
      BY <2>2, <3>1
  <2>4. ~ c.pcrel => LeafSum(e, w) = c.addend + g
    BY <1>6, <1>12, <2>1, <2>2, <2>3
  <2>5. QED
    BY <1>5, <1>6, <1>12, <2>2, <2>3, <2>4
<1>13. CASE c.kind \in {"absolute", "unsigned"}
  BY <1>4, <1>5, <1>7, <1>13 DEF ComesTo
<1>14. QED
  BY <1>10, <1>11, <1>12, <1>13

-----------------------------------------------------------------------------
(* What the linker finds. *)

\* finish_elf refuses these, and an object that has one of them.
RefusedLater ==
    /\ phase # "done"
    /\ format = "elf"
    /\ \E i \in 1 .. Len(relocs) : relocs[i].type \in {"SUBTRACTOR", "POINTER_TO_GOT"}

\* The linker makes of the fixup what its expression comes to.
Answered(fix) ==
    \/ AddendLost(fix)
    \/ RefusedLater
    \/ \A link \in Linkings : Linked(fix, link) = ComesOf(fix, link)

SamePlace(x, y) == x.section = y.section /\ x.offset = y.offset

\* At the place of a fixup that is done with.
AtDone(x) == \E k \in 1 .. resolved : SamePlace(x, fixups[k])

IsReloc(r) ==
    /\ r.addend \in Int
    /\ \/ \E n \in Names : r.target = Symbol(n)
       \/ /\ format # "elf" /\ r.type \notin {"SUBTRACTOR", "POINTER_TO_GOT"}
          /\ \E v \in Int : r.target = Raw(v)

\* Before the fixups are resolved nothing is written or recorded; then it is
\* at the places of those that are done with, which have their answers.
AnswersInv ==
    /\ phase \notin {"fixups", "finish", "done", "error", "drift"} =>
          relocs = <<>> /\ patches = {}
    /\ phase \in {"fixups", "finish", "done"} =>
          /\ Len(Final.sections) <= Len(layout.sections)
          /\ \A k \in 1 .. resolved : Answered(fixups[k])
    /\ phase \in {"fixups", "finish"} =>
          /\ \A i \in 1 .. Len(relocs) : IsReloc(relocs[i]) /\ AtDone(relocs[i])
          /\ \A p \in patches : AtDone(p)

\* The addresses of what relocations name are integers.
LEMMA AddressKnown ==
    ASSUME Resolving, NEW n \in Names, NEW link \in Linkings
    PROVE  Address(Symbol(n), link) \in Int
<1>1. Lies(labels[n])
  BY LabelsLie DEF Resolving
<1>2. Address(Symbol(n), link)
         = IF labels[n] # Undefined THEN Located(labels[n], link) ELSE link.externals[n]
  BY DEF Address, Symbol
<1>3. link.externals[n] \in Int
  BY LinkingKnown
<1>4. CASE labels[n] # Undefined
  <2>1. labels[n].value \in Int /\ labels[n].section \in 1 .. Len(Final.sections)
    BY <1>1, <1>4 DEF Lies
  <2>2. SectionAddress(labels[n].section, link) \in Int
    BY <2>1, LinkingKnown
  <2>3. QED
    BY <1>2, <1>4, <2>1, <2>2 DEF Located
<1>5. QED
  BY <1>2, <1>3, <1>4

\* What a relocation contributes is an integer.
LEMMA ContributionKnown ==
    ASSUME Resolving, NEW r, IsReloc(r), NEW link \in Linkings
    PROVE  Contribution(r, link) \in Int
<1>1. r.addend \in Int
  BY DEF IsReloc
<1>2. CASE \E n \in Names : r.target = Symbol(n)
  <2>1. PICK n \in Names : r.target = Symbol(n)
    BY <1>2
  <2>2. Address(r.target, link) \in Int
    BY <2>1, AddressKnown
  <2>3. r.target.name = n
    BY <2>1 DEF Symbol
  <2>4. link.gots[n] \in Int
    BY LinkingKnown
  <2>5. QED
    BY <1>1, <2>2, <2>3, <2>4 DEF Contribution
<1>3. CASE /\ r.type \notin {"SUBTRACTOR", "POINTER_TO_GOT"}
           /\ \E v \in Int : r.target = Raw(v)
  <2>1. Address(r.target, link) \in Int
    BY <1>3 DEF Address, Raw
  <2>2. QED
    BY <1>1, <1>3, <2>1 DEF Contribution
<1>4. QED
  BY <1>2, <1>3 DEF IsReloc

-----------------------------------------------------------------------------
(* One fixup is resolved. *)

\* fix is the next one; what is written and recorded is so at its place.
Resolves(fix, written, recorded) ==
    /\ Resolving /\ AnswersInv /\ phase = "fixups"
    /\ resolved < Len(fixups) /\ fix = fixups[resolved + 1]
    /\ IsSequence(recorded)
    /\ Resolve(written, recorded)
    /\ \A i \in 1 .. Len(recorded) : IsReloc(recorded[i]) /\ SamePlace(recorded[i], fix)
    /\ \A p \in written : SamePlace(p, fix)

\* What the relocations of the list add to the place of the fixup.
Shares(list, fix, link) ==
    [i \in 1 .. Len(list) |-> IF SamePlace(list[i], fix) THEN Contribution(list[i], link) ELSE 0]

\* Nothing moves.
LEMMA Unmoved ==
    ASSUME UNCHANGED <<format, prog, layout, trail, fixups, labels, assigns, aliases,
                       values, absolutes>>,
           NEW link
    PROVE  /\ \A i : SectionAddress(i, link)' = SectionAddress(i, link)
           /\ \A r : Contribution(r, link)' = Contribution(r, link)
           /\ \A fix : ComesOf(fix, link)' = ComesOf(fix, link)
           /\ \A fix : AddendLost(fix)' <=> AddendLost(fix)
           /\ \A r : IsReloc(r)' <=> IsReloc(r)
           /\ Final' = Final
<1>1. UNCHANGED <<format, prog, layout, trail, fixups, labels, assigns, aliases,
                  values, absolutes>>
  OBVIOUS
<1>2. Final' = Final /\ \A i : SectionAddress(i, link)' = SectionAddress(i, link)
  BY <1>1 DEF Final, SectionAddress
<1>3. ASSUME NEW r
      PROVE  Contribution(r, link)' = Contribution(r, link)
  BY <1>1, <1>2 DEF Contribution, Address, Located
<1>4. ASSUME NEW fix
      PROVE  ComesOf(fix, link)' = ComesOf(fix, link)
  <2>1. EnvironmentOf(fix)' = EnvironmentOf(fix)
    BY <1>1 DEF EnvironmentOf, EnvironmentAfter, ValuesAfter, ValueSlots, SlotOf, SetsBefore
  <2>2. Addresses(link)' = Addresses(link) /\ HereOf(fix, link)' = HereOf(fix, link)
    BY <1>2 DEF Addresses, HereOf
  <2>3. QED
    BY <2>1, <2>2 DEF ComesOf, WorthsOf
<1>5. ASSUME NEW fix
      PROVE  AddendLost(fix)' <=> AddendLost(fix)
  BY <1>1 DEF AddendLost, Operand, Environment
<1>6. ASSUME NEW r
      PROVE  IsReloc(r)' <=> IsReloc(r)
  BY <1>1 DEF IsReloc, Symbol, Raw
<1>7. QED
  BY <1>1, <1>2, <1>3, <1>4, <1>5, <1>6

\* A step that resolves a fixup moves nothing, and changes what no relocation contributes.
LEMMA NothingMoves ==
    ASSUME NEW written, NEW recorded, Resolve(written, recorded), NEW link
    PROVE  /\ UNCHANGED <<phase, format, layout, fixups, labels, trail, prog>>
           /\ \A i : SectionAddress(i, link)' = SectionAddress(i, link)
           /\ \A r : Contribution(r, link)' = Contribution(r, link)
           /\ \A fix : ComesOf(fix, link)' = ComesOf(fix, link)
           /\ \A fix : AddendLost(fix)' <=> AddendLost(fix)
           /\ \A r : IsReloc(r)' <=> IsReloc(r)
           /\ Final' = Final
<1>1. UNCHANGED <<phase, format, prog, layout, trail, fixups, labels, assigns, aliases,
                  values, absolutes>>
  BY DEF Resolve, layoutVars, source, symbols, expressions, emission
<1>2. QED
  BY <1>1, Unmoved

\* All that the linker adds, of one list after the other.
LEMMA SharesJoin ==
    ASSUME NEW s, IsSequence(s), NEW u, IsSequence(u), NEW fix, NEW link,
           \A i \in 1 .. Len(s) : Contribution(s[i], link) \in Int,
           \A i \in 1 .. Len(u) : Contribution(u[i], link) \in Int
    PROVE  /\ Total(Shares(s, fix, link)) \in Int /\ Total(Shares(u, fix, link)) \in Int
           /\ Total(Shares(s \o u, fix, link))
                = Total(Shares(s, fix, link)) + Total(Shares(u, fix, link))
<1>1. PICK n \in Nat, m \in Nat : n = Len(s) /\ m = Len(u)
  BY DEF IsSequence
<1>2. PICK t : t = s \o u
  OBVIOUS
<1>3. /\ Len(t) = n + m
      /\ \A k \in 1 .. n : t[k] = s[k]
      /\ \A k \in 1 .. m : t[n + k] = u[k]
  <2>1. IsSequence(t) /\ DOMAIN t = 1 .. n + m
    BY <1>1, <1>2, SequencesJoin
  <2>2. Len(t) \in Nat /\ DOMAIN t = 1 .. Len(t)
    BY <2>1 DEF IsSequence
  <2>3. Len(t) = n + m
    BY <2>1, <2>2
  <2>4. QED
    BY <1>1, <1>2, <2>3, SequencesJoin
<1>4. PICK f : f = Shares(s, fix, link)
  OBVIOUS
<1>5. PICK g : g = Shares(u, fix, link)
  OBVIOUS
<1>6. PICK h : h = Shares(t, fix, link)
  OBVIOUS
<1>7. f \in [1 .. n -> Int]
  BY <1>1, <1>4 DEF Shares
<1>8. g \in [1 .. m -> Int]
  BY <1>1, <1>5 DEF Shares
<1>9. /\ \A i \in 1 .. n : h[i] = f[i]
      /\ \A i \in 1 .. m : h[n + i] = g[i]
  <2>1. \A i \in 1 .. n : i \in 1 .. n + m
    OBVIOUS
  <2>2. \A i \in 1 .. m : n + i \in 1 .. n + m
    OBVIOUS
  <2>3. QED
    BY <1>1, <1>3, <1>4, <1>5, <1>6, <2>1, <2>2 DEF Shares
<1>10. h \in [1 .. n + m -> Int]
  <2>1. h = [i \in 1 .. n + m |-> h[i]]
    BY <1>3, <1>6 DEF Shares
  <2>2. ASSUME NEW i \in 1 .. n + m
        PROVE  h[i] \in Int
    <3>1. CASE i <= n
      BY <1>7, <1>9, <3>1
    <3>2. CASE i > n
      <4>1. PICK j \in 1 .. m : i = n + j
        <5>1. i - n \in 1 .. m /\ i = n + (i - n)
          BY <3>2
        <5>2. QED
          BY <5>1
      <4>2. QED
        BY <1>8, <1>9, <4>1
    <3>3. QED
      BY <3>1, <3>2
  <2>3. QED
    BY <2>1, <2>2
<1>11. Total(h) = Total(f) + Total(g)
  BY <1>7, <1>8, <1>9, <1>10, TotalJoin
<1>12. Total(f) \in Int /\ Total(g) \in Int
  BY <1>7, <1>8, TotalIsInt
<1>13. QED
  BY <1>2, <1>4, <1>5, <1>6, <1>11, <1>12

\* Relocations of other places add nothing.
LEMMA SharesElsewhere ==
    ASSUME NEW s, IsSequence(s), NEW fix, NEW link,
           \A i \in 1 .. Len(s) : ~ SamePlace(s[i], fix)
    PROVE  Total(Shares(s, fix, link)) = 0
<1>1. PICK n \in Nat : n = Len(s)
  BY DEF IsSequence
<1>2. PICK f : f = Shares(s, fix, link)
  OBVIOUS
<1>3. f = [i \in 1 .. n |-> 0]
  BY <1>1, <1>2 DEF Shares
<1>4. f \in [1 .. n -> Int] /\ \A i \in 1 .. n : f[i] = 0
  BY <1>3
<1>5. QED
  BY <1>2, <1>4, TotalZero

\* What it is that the linker finds, in these terms.
LEMMA LinkedIs ==
    ASSUME IsSequence(relocs), NEW fix, NEW link
    PROVE  Linked(fix, link) = InPlace(fix, link) + Total(Shares(relocs, fix, link))
<1>1. DOMAIN relocs = 1 .. Len(relocs)
  BY DEF IsSequence
<1>2. [i \in DOMAIN relocs |->
         IF i \in RelocsAt(fix) THEN Contribution(relocs[i], link) ELSE 0]
       = Shares(relocs, fix, link)
  BY <1>1 DEF Shares, RelocsAt, SamePlace
<1>3. QED
  BY <1>2 DEF Linked

\* What a fixup is linked to after a step, from the relocations it will have.
LEMMA LinkedWillBe ==
    ASSUME NEW written, NEW recorded, Resolve(written, recorded), IsSequence(relocs'),
           NEW fix, NEW link
    PROVE  Linked(fix, link)' = InPlace(fix, link)' + Total(Shares(relocs', fix, link))
<1>1. DOMAIN relocs' = 1 .. Len(relocs')
  BY DEF IsSequence
<1>2. [i \in DOMAIN relocs |->
         IF i \in RelocsAt(fix) THEN Contribution(relocs[i], link) ELSE 0]'
       = Shares(relocs', fix, link)
  <2>1. \A r : Contribution(r, link)' = Contribution(r, link)
    BY NothingMoves
  <2>2. \A i \in 1 .. Len(relocs') : i \in RelocsAt(fix)' <=> SamePlace(relocs'[i], fix)
    BY <1>1 DEF RelocsAt, SamePlace
  <2>3. QED
    BY <1>1, <2>1, <2>2 DEF Shares
<1>3. QED
  BY <1>2 DEF Linked

\* The places of fixups that are done with are not that of the next one.
LEMMA DoneApart ==
    ASSUME NEW fix, NEW written, NEW recorded, Resolves(fix, written, recorded),
           NEW k \in 1 .. resolved
    PROVE  ~ SamePlace(fix, fixups[k])
<1>1. /\ Resolving /\ resolved < Len(fixups) /\ resolved \in Nat /\ Len(fixups) \in Nat
      /\ fix = fixups[resolved + 1]
  BY DEF Resolves, Resolving, FixupsInv, IsSequence
<1>2. /\ k \in 1 .. Len(fixups) /\ resolved + 1 \in 1 .. Len(fixups) /\ k # resolved + 1
  BY <1>1
<1>3. \/ fixups[k].section # fixups[resolved + 1].section
      \/ fixups[k].offset # fixups[resolved + 1].offset
  BY <1>1, <1>2, FixupsApart DEF Resolving
<1>4. QED
  BY <1>1, <1>3 DEF SamePlace

\* The lists before, of this fixup, and after.
LEMMA Lists ==
    ASSUME NEW fix, NEW written, NEW recorded, Resolves(fix, written, recorded),
           NEW link \in Linkings
    PROVE  /\ IsSequence(relocs) /\ IsSequence(recorded) /\ IsSequence(relocs')
           /\ relocs' = relocs \o recorded
           /\ \A i \in 1 .. Len(relocs) : Contribution(relocs[i], link) \in Int
           /\ \A i \in 1 .. Len(recorded) : Contribution(recorded[i], link) \in Int
<1>1. /\ Resolving /\ IsSequence(relocs) /\ IsSequence(recorded) /\ relocs' = relocs \o recorded
      /\ \A i \in 1 .. Len(relocs) : IsReloc(relocs[i])
      /\ \A i \in 1 .. Len(recorded) : IsReloc(recorded[i])
  BY DEF Resolves, Resolving, FixupsInv, Resolve, AnswersInv
<1>2. IsSequence(relocs')
  <2>1. PICK t : t = relocs \o recorded /\ IsSequence(t)
    BY <1>1, SequencesJoin
  <2>2. QED
    BY <1>1, <2>1
<1>3. QED
  BY <1>1, <1>2, ContributionKnown

\* A fixup that is done with keeps its answer.
LEMMA OldAnswer ==
    ASSUME NEW fix, NEW written, NEW recorded, Resolves(fix, written, recorded),
           NEW k \in 1 .. resolved, NEW old, old = fixups[k], NEW link \in Linkings
    PROVE  Linked(old, link)' = Linked(old, link)
<1>1. ~ SamePlace(fix, old)
  BY DoneApart
<1>2. /\ \A i \in 1 .. Len(recorded) : ~ SamePlace(recorded[i], old)
      /\ \A p \in written : ~ SamePlace(p, old)
  BY <1>1 DEF Resolves, SamePlace
<1>3. /\ IsSequence(relocs) /\ IsSequence(recorded) /\ IsSequence(relocs')
      /\ relocs' = relocs \o recorded
      /\ \A i \in 1 .. Len(relocs) : Contribution(relocs[i], link) \in Int
      /\ \A i \in 1 .. Len(recorded) : Contribution(recorded[i], link) \in Int
  BY Lists
<1>4. Resolve(written, recorded) /\ patches' = patches \union written
  BY DEF Resolves, Resolve
<1>5. Total(Shares(relocs', old, link)) = Total(Shares(relocs, old, link))
  <2>1. PICK a \in Int : a = Total(Shares(relocs, old, link))
    BY <1>3, SharesJoin
  <2>2. Total(Shares(recorded, old, link)) = 0
    BY <1>2, <1>3, SharesElsewhere
  <2>3. Total(Shares(relocs \o recorded, old, link)) = a + 0
    BY <1>3, <2>1, <2>2, SharesJoin
  <2>4. QED
    BY <1>3, <2>1, <2>3
<1>6. InPlace(old, link)' = InPlace(old, link)
  <2>1. { p \in patches' : p.section = old.section /\ p.offset = old.offset }
          = { p \in patches : p.section = old.section /\ p.offset = old.offset }
    BY <1>2, <1>4 DEF SamePlace
  <2>2. RelocsAt(old)' # {} <=> RelocsAt(old) # {}
    <3>1. PICK n \in Nat, m \in Nat : /\ n = Len(relocs) /\ m = Len(recorded)
                                      /\ DOMAIN relocs = 1 .. n
                                      /\ DOMAIN (relocs \o recorded) = 1 .. n + m
      BY <1>3, SequencesJoin
    <3>2. PICK t : t = relocs'
      OBVIOUS
    <3>3. /\ DOMAIN t = 1 .. n + m
          /\ \A i \in 1 .. n : t[i] = relocs[i]
          /\ \A i \in 1 .. m : t[n + i] = recorded[i]
      BY <1>3, <3>1, <3>2, SequencesJoin
    <3>4. ASSUME NEW i \in RelocsAt(old)
          PROVE  i \in RelocsAt(old)'
      <4>1. i \in 1 .. n /\ i \in 1 .. n + m /\ SamePlace(relocs[i], old)
        BY <3>1, <3>4 DEF RelocsAt, SamePlace
      <4>2. i \in DOMAIN t /\ SamePlace(t[i], old)
        BY <3>3, <4>1
      <4>3. QED
        BY <3>2, <4>2 DEF RelocsAt, SamePlace
    <3>5. ASSUME NEW i \in RelocsAt(old)'
          PROVE  i \in RelocsAt(old)
      <4>1. i \in 1 .. n + m /\ SamePlace(t[i], old)
        BY <3>2, <3>3, <3>5 DEF RelocsAt, SamePlace
      <4>2. i \in 1 .. n
        <5>1. SUFFICES ASSUME ~ (i <= n) PROVE FALSE
          BY <4>1
        <5>2. PICK j \in 1 .. m : i = n + j
          <6>1. i - n \in 1 .. m /\ i = n + (i - n)
            BY <4>1, <5>1
          <6>2. QED
            BY <6>1
        <5>3. QED
          BY <1>2, <3>1, <3>3, <4>1, <5>2
      <4>3. SamePlace(relocs[i], old)
        BY <3>3, <4>1, <4>2
      <4>4. QED
        BY <3>1, <4>2, <4>3 DEF RelocsAt, SamePlace
    <3>6. QED
      BY <3>4, <3>5
  <2>3. /\ format' = format
        /\ SectionAddress(old.section, link)' = SectionAddress(old.section, link)
    BY <1>4, NothingMoves
  <2>4. PICK here : here = { p \in patches : p.section = old.section /\ p.offset = old.offset }
    OBVIOUS
  <2>5. PICK x : x = IF old.kind \in DOMAIN Bits
                     THEN SectionAddress(old.section, link) + old.offset ELSE 0
    OBVIOUS
  <2>6. InPlace(old, link)
          = IF here = {} \/ (format = "elf" /\ RelocsAt(old) # {}) THEN 0
            ELSE x + (CHOOSE p \in here : TRUE).value
    BY <2>4, <2>5 DEF InPlace
  <2>7. /\ here = { p \in patches : p.section = old.section /\ p.offset = old.offset }'
        /\ x = (IF old.kind \in DOMAIN Bits
                THEN SectionAddress(old.section, link) + old.offset ELSE 0)'
    BY <2>1, <2>3, <2>4, <2>5
  <2>8. InPlace(old, link)'
          = IF here = {} \/ (format' = "elf" /\ RelocsAt(old)' # {}) THEN 0
            ELSE x + (CHOOSE p \in here : TRUE).value
    BY <2>7 DEF InPlace
  <2>9. QED
    BY <2>2, <2>3, <2>6, <2>8
<1>7. Linked(old, link) = InPlace(old, link) + Total(Shares(relocs, old, link))
  BY <1>3, LinkedIs
<1>8. Linked(old, link)' = InPlace(old, link)' + Total(Shares(relocs', old, link))
  BY <1>3, <1>4, LinkedWillBe
<1>9. QED
  BY <1>5, <1>6, <1>7, <1>8

\* What the linker finds of the fixup that is resolved: nothing of others.
Found(fix, link, written, recorded) ==
    (IF written = {} \/ (format = "elf" /\ Len(recorded) # 0) THEN 0
     ELSE (IF fix.kind \in DOMAIN Bits THEN HereOf(fix, link) ELSE 0)
            + (CHOOSE p \in written : TRUE).value)
      + Total(Shares(recorded, fix, link))

\* The fixup a step resolves is answered, if what the step adds comes to it.
LEMMA NewAnswer ==
    ASSUME NEW fix, NEW written, NEW recorded, Resolves(fix, written, recorded),
           NEW link \in Linkings
    PROVE  Linked(fix, link)' = Found(fix, link, written, recorded)
<1>1. ASSUME NEW x, AtDone(x)
      PROVE  ~ SamePlace(x, fix)
  <2>1. PICK k \in 1 .. resolved : SamePlace(x, fixups[k])
    BY <1>1 DEF AtDone
  <2>2. ~ SamePlace(fix, fixups[k])
    BY DoneApart
  <2>3. QED
    BY <2>1, <2>2 DEF SamePlace
<1>2. /\ \A i \in 1 .. Len(relocs) : ~ SamePlace(relocs[i], fix)
      /\ \A p \in patches : ~ SamePlace(p, fix)
      /\ \A i \in 1 .. Len(recorded) : SamePlace(recorded[i], fix)
      /\ \A p \in written : SamePlace(p, fix)
  BY <1>1 DEF Resolves, AnswersInv
<1>3. /\ IsSequence(relocs) /\ IsSequence(recorded) /\ IsSequence(relocs')
      /\ relocs' = relocs \o recorded
      /\ \A i \in 1 .. Len(relocs) : Contribution(relocs[i], link) \in Int
      /\ \A i \in 1 .. Len(recorded) : Contribution(recorded[i], link) \in Int
  BY Lists
<1>4. Resolve(written, recorded) /\ patches' = patches \union written
  BY DEF Resolves, Resolve
<1>5. Total(Shares(relocs', fix, link)) = Total(Shares(recorded, fix, link))
  <2>1. PICK a \in Int : a = Total(Shares(recorded, fix, link))
    BY <1>3, SharesJoin
  <2>2. Total(Shares(relocs, fix, link)) = 0
    BY <1>2, <1>3, SharesElsewhere
  <2>3. Total(Shares(relocs \o recorded, fix, link)) = 0 + a
    BY <1>3, <2>1, <2>2, SharesJoin
  <2>4. QED
    BY <1>3, <2>1, <2>3
<1>6. written = { p \in patches : p.section = fix.section /\ p.offset = fix.offset }'
  BY <1>2, <1>4 DEF SamePlace
<1>7. RelocsAt(fix)' # {} <=> Len(recorded) # 0
  <2>1. PICK n \in Nat, m \in Nat : /\ n = Len(relocs) /\ m = Len(recorded)
                                    /\ DOMAIN (relocs \o recorded) = 1 .. n + m
    BY <1>3, SequencesJoin
  <2>2. PICK t : t = relocs'
    OBVIOUS
  <2>3. /\ DOMAIN t = 1 .. n + m
        /\ \A i \in 1 .. n : t[i] = relocs[i]
        /\ \A i \in 1 .. m : t[n + i] = recorded[i]
    BY <1>3, <2>1, <2>2, SequencesJoin
  <2>4. CASE m = 0
    <3>1. ASSUME NEW i \in RelocsAt(fix)'
          PROVE  FALSE
      <4>1. i \in 1 .. n /\ SamePlace(t[i], fix)
        BY <2>2, <2>3, <2>4, <3>1 DEF RelocsAt, SamePlace
      <4>2. QED
        BY <1>2, <2>1, <2>3, <4>1
    <3>2. QED
      BY <2>1, <2>4, <3>1
  <2>5. CASE m # 0
    <3>1. 1 \in 1 .. m /\ n + 1 \in 1 .. n + m
      BY <2>5
    <3>2. n + 1 \in DOMAIN t /\ SamePlace(t[n + 1], fix)
      BY <1>2, <2>1, <2>3, <3>1
    <3>3. n + 1 \in RelocsAt(fix)'
      BY <2>2, <3>2 DEF RelocsAt, SamePlace
    <3>4. QED
      BY <2>1, <2>5, <3>3
  <2>6. QED
    BY <2>4, <2>5
<1>8. format' = format /\ SectionAddress(fix.section, link)' = SectionAddress(fix.section, link)
  BY <1>4, NothingMoves
<1>9. PICK x : x = IF fix.kind \in DOMAIN Bits THEN HereOf(fix, link) ELSE 0
  OBVIOUS
<1>10. x = (IF fix.kind \in DOMAIN Bits
            THEN SectionAddress(fix.section, link) + fix.offset ELSE 0)'
  BY <1>8, <1>9 DEF HereOf
<1>11. InPlace(fix, link)'
         = IF written = {} \/ (format' = "elf" /\ RelocsAt(fix)' # {}) THEN 0
           ELSE x + (CHOOSE p \in written : TRUE).value
  BY <1>6, <1>10 DEF InPlace
<1>12. Linked(fix, link)' = InPlace(fix, link)' + Total(Shares(relocs', fix, link))
  BY <1>3, <1>4, LinkedWillBe
<1>13. QED
  BY <1>5, <1>7, <1>8, <1>9, <1>11, <1>12 DEF Found

\* One relocation, and two.
LEMMA ShareOfOne ==
    ASSUME NEW fix, NEW link, NEW r, SamePlace(r, fix), NEW c \in Int, Contribution(r, link) = c
    PROVE  Total(Shares(<< r >>, fix, link)) = c
<1>1. PICK f : f = Shares(<< r >>, fix, link)
  OBVIOUS
<1>2. f = [i \in 1 .. 1 |-> IF SamePlace(<< r >>[i], fix)
                            THEN Contribution(<< r >>[i], link) ELSE 0]
  BY <1>1 DEF Shares
<1>3. \A i \in 1 .. 1 : i = 1 /\ << r >>[i] = r
  OBVIOUS
<1>4. f = [i \in 1 .. 1 |-> c]
  BY <1>2, <1>3
<1>5. f \in [1 .. 1 -> Int] /\ \A i \in 1 .. 1 : f[i] = IF i = 1 THEN c ELSE 0
  BY <1>4
<1>6. 1 \in Nat /\ 1 \in 1 .. 1
  OBVIOUS
<1>7. Total(f) = c
  BY <1>5, <1>6, TotalSingle
<1>8. QED
  BY <1>1, <1>7

\* What two relocations of a fixup contribute.
LEMMA ShareOfTwo ==
    ASSUME NEW fix, NEW link, NEW q, NEW r, SamePlace(q, fix), SamePlace(r, fix),
           NEW d \in Int, Contribution(q, link) = d, NEW c \in Int, Contribution(r, link) = c
    PROVE  Total(Shares(<< q, r >>, fix, link)) = d + c
<1>1. PICK f : f = Shares(<< q, r >>, fix, link)
  OBVIOUS
<1>2. f = [i \in 1 .. 2 |-> IF SamePlace(<< q, r >>[i], fix)
                            THEN Contribution(<< q, r >>[i], link) ELSE 0]
  BY <1>1 DEF Shares
<1>3. f[1] = d /\ f[2] = c /\ \A i \in 1 .. 2 : i = 1 \/ i = 2
  BY <1>2
<1>4. f \in [1 .. 2 -> Int]
  BY <1>2, <1>3
<1>5. \A i \in (1 .. 2) \ {1, 2} : f[i] = 0
  BY <1>3
<1>6. 2 \in Nat /\ 1 \in 1 .. 2 /\ 2 \in 1 .. 2 /\ 1 # 2
  OBVIOUS
<1>7. Total(f) = f[1] + f[2]
  BY <1>4, <1>5, <1>6, TotalPair
<1>8. QED
  BY <1>1, <1>3, <1>7

\* The elements of a list with another one after it.
LEMMA PartsOfJoin ==
    ASSUME NEW s, IsSequence(s), NEW u, IsSequence(u), NEW t, t = s \o u,
           NEW n, n = Len(s), NEW m, m = Len(u)
    PROVE  /\ Len(t) = n + m
           /\ \A i \in 1 .. n : t[i] = s[i]
           /\ \A i \in 1 .. m : t[n + i] = u[i]
<1>1. IsSequence(t) /\ DOMAIN t = 1 .. n + m /\ n \in Nat /\ m \in Nat
  BY SequencesJoin
<1>2. Len(t) \in Nat /\ DOMAIN t = 1 .. Len(t)
  BY <1>1 DEF IsSequence
<1>3. Len(t) = n + m
  BY <1>1, <1>2
<1>4. /\ \A i \in 1 .. Len(s) : (s \o u)[i] = s[i]
      /\ \A i \in 1 .. Len(u) : (s \o u)[Len(s) + i] = u[i]
  BY SequencesJoin
<1>5. QED
  BY <1>3, <1>4

\* The fixup that is resolved has its answer.
Answering(fix, written, recorded) ==
    \/ AddendLost(fix)
    \/ /\ format = "elf"
       /\ \E i \in 1 .. Len(recorded) : recorded[i].type \in {"SUBTRACTOR", "POINTER_TO_GOT"}
    \/ \A link \in Linkings : Found(fix, link, written, recorded) = ComesOf(fix, link)

\* A step that resolves a fixup as it has to keeps all answers.
LEMMA ResolveAnswers ==
    ASSUME NEW fix, NEW written, NEW recorded, Resolves(fix, written, recorded),
           Answering(fix, written, recorded)
    PROVE  AnswersInv'
<1>1. /\ Resolve(written, recorded) /\ Resolving /\ AnswersInv
      /\ phase = "fixups" /\ resolved < Len(fixups) /\ fix = fixups[resolved + 1]
      /\ IsSequence(relocs) /\ IsSequence(recorded)
      /\ resolved \in Nat
  BY DEF Resolves, Resolving, FixupsInv
<1>2. /\ relocs' = relocs \o recorded /\ patches' = patches \union written
      /\ resolved' = resolved + 1
      /\ UNCHANGED <<phase, format, layout, fixups>> /\ Final' = Final
  BY <1>1, NothingMoves DEF Resolve
<1>3. PICK n \in Nat, m \in Nat : n = Len(relocs) /\ m = Len(recorded)
  BY <1>1 DEF IsSequence
<1>4. PICK t : t = relocs'
  OBVIOUS
<1>5. /\ Len(t) = n + m
      /\ \A i \in 1 .. n : t[i] = relocs[i]
      /\ \A i \in 1 .. m : t[n + i] = recorded[i]
  BY <1>1, <1>2, <1>3, <1>4, PartsOfJoin
<1>6. ASSUME NEW i \in 1 .. n + m
      PROVE  i \in 1 .. n \/ \E j \in 1 .. m : i = n + j
  <2>1. i \in 1 .. n \/ (i - n \in 1 .. m /\ i = n + (i - n))
    OBVIOUS
  <2>2. QED
    BY <2>1
<1>7. ASSUME NEW x, AtDone(x) \/ SamePlace(x, fix)
      PROVE  AtDone(x)'
  <2>1. ASSUME NEW k \in 1 .. resolved, SamePlace(x, fixups[k])
        PROVE  AtDone(x)'
    <3>1. k \in 1 .. resolved'
      BY <1>1, <1>2, <2>1
    <3>2. SamePlace(x, fixups'[k])
      BY <1>2, <2>1
    <3>3. QED
      BY <3>1, <3>2 DEF AtDone, SamePlace
  <2>2. ASSUME SamePlace(x, fix)
        PROVE  AtDone(x)'
    <3>1. resolved + 1 \in 1 .. resolved'
      BY <1>1, <1>2
    <3>2. SamePlace(x, fixups'[resolved + 1])
      BY <1>1, <1>2, <2>2
    <3>3. QED
      BY <3>1, <3>2 DEF AtDone, SamePlace
  <2>3. QED
    BY <1>7, <2>1, <2>2 DEF AtDone
<1>8. ASSUME NEW i \in 1 .. n + m
      PROVE  IsReloc(t[i])' /\ AtDone(t[i])'
  <2>1. PICK r : r = t[i]
    OBVIOUS
  <2>2. IsReloc(r) /\ (AtDone(r) \/ SamePlace(r, fix))
    <3>1. CASE i \in 1 .. n
      BY <1>1, <1>5, <1>3, <2>1, <3>1 DEF AnswersInv
    <3>2. CASE \E j \in 1 .. m : i = n + j
      <4>1. PICK j \in 1 .. m : i = n + j
        BY <3>2
      <4>2. r = recorded[j]
        BY <1>5, <2>1, <4>1
      <4>3. QED
        BY <1>3, <4>1, <4>2 DEF Resolves
    <3>3. QED
      BY <1>6, <3>1, <3>2
  <2>3. IsReloc(r)'
    BY <1>1, <2>2, NothingMoves
  <2>4. AtDone(r)'
    BY <1>7, <2>2
  <2>5. QED
    BY <2>1, <2>3, <2>4
<1>9. ASSUME NEW p \in patches'
      PROVE  AtDone(p)'
  <2>1. AtDone(p) \/ SamePlace(p, fix)
    BY <1>1, <1>2, <1>9 DEF AnswersInv, Resolves
  <2>2. QED
    BY <1>7, <2>1
<1>10. ASSUME \/ RefusedLater
             \/ /\ format = "elf"
                /\ \E i \in 1 .. m : recorded[i].type \in {"SUBTRACTOR", "POINTER_TO_GOT"}
      PROVE  RefusedLater'
  <2>1. \E i \in 1 .. n + m : t[i].type \in {"SUBTRACTOR", "POINTER_TO_GOT"}
    <3>1. CASE \E i \in 1 .. n : relocs[i].type \in {"SUBTRACTOR", "POINTER_TO_GOT"}
      <4>1. PICK i \in 1 .. n : relocs[i].type \in {"SUBTRACTOR", "POINTER_TO_GOT"}
        BY <3>1
      <4>2. i \in 1 .. n + m /\ t[i] = relocs[i]
        BY <1>5, <4>1
      <4>3. QED
        BY <4>1, <4>2
    <3>2. CASE \E i \in 1 .. m : recorded[i].type \in {"SUBTRACTOR", "POINTER_TO_GOT"}
      <4>1. PICK i \in 1 .. m : recorded[i].type \in {"SUBTRACTOR", "POINTER_TO_GOT"}
        BY <3>2
      <4>2. n + i \in 1 .. n + m /\ t[n + i] = recorded[i]
        BY <1>5, <4>1
      <4>3. QED
        BY <4>1, <4>2
    <3>3. QED
      BY <1>10, <1>3, <3>1, <3>2 DEF RefusedLater
  <2>2. format' = "elf" /\ phase' # "done"
    BY <1>1, <1>2, <1>10 DEF RefusedLater
  <2>3. QED
    BY <1>5, <1>4, <2>1, <2>2 DEF RefusedLater
<1>11. ASSUME NEW k \in 1 .. resolved'
      PROVE  Answered(fixups[k])'
  <2>1. PICK f : f = fixups[k]
    OBVIOUS
  <2>2. fixups'[k] = f
    BY <1>2, <2>1
  <2>3. Answered(f)'
    <3>1. CASE k = resolved + 1
      <4>1. f = fix
        BY <1>1, <2>1, <3>1
      <4>2. CASE AddendLost(fix)
        <5>1. AddendLost(f)'
          BY <1>1, <4>1, <4>2, NothingMoves
        <5>2. QED
          BY <5>1 DEF Answered
      <4>3. CASE /\ format = "elf"
                 /\ \E i \in 1 .. m : recorded[i].type \in {"SUBTRACTOR", "POINTER_TO_GOT"}
        BY <1>10, <4>3 DEF Answered
      <4>4. CASE \A link \in Linkings : Found(fix, link, written, recorded) = ComesOf(fix, link)
        <5>1. ASSUME NEW link \in Linkings
              PROVE  Linked(f, link)' = ComesOf(f, link)'
          <6>1. Linked(f, link)' = Found(f, link, written, recorded)
            BY <4>1, NewAnswer
          <6>2. ComesOf(f, link)' = ComesOf(f, link)
            BY <1>1, NothingMoves
          <6>3. QED
            BY <4>1, <4>4, <6>1, <6>2
        <5>2. QED
          BY <5>1 DEF Answered
      <4>5. QED
        BY <1>3, <4>2, <4>3, <4>4 DEF Answering
    <3>2. CASE k # resolved + 1
      <4>1. k \in 1 .. resolved
        BY <1>1, <1>2, <3>2
      <4>2. Answered(f)
        BY <1>1, <2>1, <4>1 DEF AnswersInv
      <4>3. CASE AddendLost(f)
        <5>1. AddendLost(f)'
          BY <1>1, <4>3, NothingMoves
        <5>2. QED
          BY <5>1 DEF Answered
      <4>4. CASE RefusedLater
        BY <1>10, <4>4 DEF Answered
      <4>5. CASE \A link \in Linkings : Linked(f, link) = ComesOf(f, link)
        <5>1. ASSUME NEW link \in Linkings
              PROVE  Linked(f, link)' = ComesOf(f, link)'
          <6>1. Linked(f, link)' = Linked(f, link)
            BY <2>1, <4>1, OldAnswer
          <6>2. ComesOf(f, link)' = ComesOf(f, link)
            BY <1>1, NothingMoves
          <6>3. QED
            BY <4>5, <6>1, <6>2
        <5>2. QED
          BY <5>1 DEF Answered
      <4>6. QED
        BY <4>2, <4>3, <4>4, <4>5 DEF Answered
    <3>3. QED
      BY <3>1, <3>2
  <2>4. QED
    BY <2>2, <2>3
<1>12. Len(Final.sections)' <= Len(layout.sections)'
  BY <1>1, <1>2 DEF AnswersInv
<1>13. \A i \in 1 .. Len(relocs') : IsReloc(relocs[i])' /\ AtDone(relocs[i])'
  BY <1>5, <1>8, <1>4
<1>14. QED
  BY <1>1, <1>2, <1>9, <1>11, <1>12, <1>13 DEF AnswersInv

-----------------------------------------------------------------------------
(* The kinds of fixups. *)

\* The names in what an operand is classified as.
LEMMA ResultNames ==
    ASSUME Resolving, NEW k \in 1 .. Len(fixups), NEW fix, fix = fixups[k],
           NEW c, c = Operand(fix)
    PROVE  /\ c.kind \in {"unsigned", "overflow", "illegal", "got", "absolute",
                          "relocatable", "difference"}
           /\ c.kind \in {"relocatable", "got"} => c.symbol \in Names
           /\ c.kind = "difference" => c.minuend \in Names /\ c.subtrahend \in Names
           /\ c.kind \in {"relocatable", "difference", "got"} => c.addend \in Int
<1>1. PICK env, e : env = EnvironmentOf(fix) /\ e = fix.expr
  OBVIOUS
<1>2. Known(e) /\ c = Classify(e, env)
  BY <1>1, FixupKnown
<1>3. \A n \in Names : Typed(env[n]) /\ (env[n].kind # "absolute" => Lies(env[n]))
  <2>1. SlotOf(fix) \in 0 .. Len(assigns)
    BY FixupKnown
  <2>2. QED
    BY <1>1, <2>1, EnvironmentTyped DEF Resolving, EnvironmentOf
<1>4. Sound(e, env)
  BY <1>2, <1>3, KnownIsSound
<1>5. PICK at : at = [i \in 1 .. Len(Final.sections) |-> 0]
  OBVIOUS
<1>6. PICK none : none = [n \in Names |-> 0]
  OBVIOUS
<1>7. none \in [Names -> Int]
  BY <1>6
<1>8. ASSUME NEW n \in Names, env[n].kind = "defined"
      PROVE  at[env[n].section] \in Int
  <2>1. env[n].section \in 1 .. Len(Final.sections)
    BY <1>3, <1>8, LiesTyped DEF Lies
  <2>2. QED
    BY <1>5, <2>1
<1>9. PICK here \in Int : here = 0
  OBVIOUS
<1>10. PICK w : w = Worths(e, env, at, none, none, here)
  OBVIOUS
<1>11. PICK b : Worth(e, env, w, b, here)
  BY <1>2, <1>3, <1>8, <1>10, <1>7, WorthsAreWorth
<1>12. ComesTo(e, w, here, c)
  BY <1>2, <1>4, <1>11, ClassifyMeans
<1>13. ASSUME NEW i \in 1 .. Len(e), NEW kind \in {"sym", "got"}, NEW n, Named(e, i, kind, n)
       PROVE  n \in Names
  BY <1>2, <1>13, LeavesOf DEF Named
<1>14. c.kind = "relocatable" => c.symbol \in Names
  BY <1>12, <1>13 DEF ComesTo, Plus
<1>15. c.kind = "got" => c.symbol \in Names
  BY <1>12, <1>13 DEF ComesTo, PlusGot
<1>16. c.kind = "difference" => c.minuend \in Names /\ c.subtrahend \in Names
  BY <1>12, <1>13 DEF ComesTo, Minus
<1>17. c.kind \in {"relocatable", "difference", "got"} => c.addend \in Int
  BY <1>2, <1>4, <1>11, ClassifiedIsInt
<1>18. QED
  BY <1>2, <1>14, <1>15, <1>16, <1>17, ResultKinds

\* record_pending_reloc_addend, patch_section_data: at the place of the fixup.
LEMMA MadeHere ==
    ASSUME NEW fix, fix = Fix, NEW v, NEW type, NEW target, NEW addend
    PROVE  /\ Reloc(type, target, addend).type = type
           /\ Reloc(type, target, addend).target = target
           /\ Reloc(type, target, addend).addend = addend
           /\ SamePlace(Reloc(type, target, addend), fix)
           /\ \A p \in Patch(v) : SamePlace(p, fix)
           /\ Patch(v) # {} /\ (CHOOSE p \in Patch(v) : TRUE).value = v
<1>1. PICK p : p = [section |-> Fix.section, offset |-> Fix.offset, value |-> v]
  OBVIOUS
<1>2. Patch(v) = { p }
  BY <1>1 DEF Patch
<1>3. (CHOOSE q \in Patch(v) : TRUE) = p
  <2>1. \A q : q \in Patch(v) <=> q = p
    BY <1>2
  <2>2. (CHOOSE q \in Patch(v) : TRUE) \in Patch(v)
    BY <1>2
  <2>3. QED
    BY <2>1, <2>2
<1>4. QED
  BY <1>1, <1>2, <1>3 DEF Reloc, SamePlace

\* What it adds.
LEMMA Contributed ==
    ASSUME NEW n, NEW type, NEW addend, NEW link, NEW r, r = Reloc(type, Symbol(n), addend)
    PROVE  /\ type \notin {"SUBTRACTOR", "POINTER_TO_GOT"} =>
                 Contribution(r, link) = Address(Symbol(n), link) + addend
           /\ type = "SUBTRACTOR" => Contribution(r, link) = -Address(Symbol(n), link)
           /\ type = "POINTER_TO_GOT" => Contribution(r, link) = link.gots[n]
           /\ n \in Names /\ addend \in Int => IsReloc(r)
<1>1. r.type = type /\ r.target = Symbol(n) /\ r.addend = addend
  BY DEF Reloc
<1>2. r.target.name = n
  BY <1>1 DEF Symbol
<1>3. QED
  BY <1>1, <1>2 DEF Contribution, IsReloc

\* resolve_data64_fixup
LEMMA Data64Answers ==
    ASSUME Resolving, AnswersInv, ResolveData64
    PROVE  AnswersInv'
<1>1. PICK fix : fix = Fix
  OBVIOUS
<1>2. PICK k \in 1 .. Len(fixups) : k = resolved + 1 /\ fix = fixups[k]
  BY <1>1 DEF Fix, ResolveData64, Resolving, FixupsInv, IsSequence
<1>3. PICK c : c = fix.classified
  OBVIOUS
<1>4. PICK v : v = IF c.kind \in {"absolute", "unsigned"} THEN c.value ELSE c.addend
  OBVIOUS
<1>5. PICK recorded : recorded = Data64Relocs(c)
  OBVIOUS
<1>6. /\ fix.kind = "Data64" /\ resolved < Len(fixups)
      /\ c.kind = "got" => ~ c.pcrel
      /\ Resolve(Patch(v), recorded)
  BY <1>1, <1>3, <1>4, <1>5 DEF ResolveData64
<1>7. c = Operand(fix) /\ fix.kind \notin DOMAIN Bits
  BY <1>3, <1>6, SymbolsAssumption DEF Operand
<1>8. c.kind \in {"unsigned", "got", "absolute", "relocatable", "difference"}
  <2>1. ~ IsError(c)
    BY <1>2, <1>3, <1>6, FixupKnown
  <2>2. QED
    BY <1>2, <1>7, <2>1, ResultNames DEF IsError
<1>9. /\ c.kind \in {"relocatable", "got"} => c.symbol \in Names
      /\ c.kind = "difference" => c.minuend \in Names /\ c.subtrahend \in Names
  BY <1>2, <1>7, ResultNames
<1>10. IsSequence(recorded)
  BY <1>5, RecordedLists
<1>11. /\ Patch(v) # {} /\ (CHOOSE p \in Patch(v) : TRUE).value = v
       /\ \A p \in Patch(v) : SamePlace(p, fix)
       /\ \A type, n : SamePlace(Reloc(type, Symbol(n), 0), fix)
  BY <1>1, MadeHere
<1>12. ASSUME Answering(fix, Patch(v), recorded),
              \A i \in 1 .. Len(recorded) : IsReloc(recorded[i]) /\ SamePlace(recorded[i], fix)
       PROVE  AnswersInv'
  <2>1. phase = "fixups"
    BY <1>6 DEF Resolve
  <2>2. Resolves(fix, Patch(v), recorded)
    BY <1>2, <1>6, <1>10, <1>11, <1>12, <2>1 DEF Resolves
  <2>3. QED
    BY <1>12, <2>2, ResolveAnswers
<1>13. \A link : Found(fix, link, Patch(v), recorded)
                   = (IF format = "elf" /\ Len(recorded) # 0 THEN 0 ELSE 0 + v)
                       + Total(Shares(recorded, fix, link))
  BY <1>7, <1>11 DEF Found
<1>14. CASE c.kind \in {"absolute", "unsigned"}
  <2>1. recorded = <<>> /\ v = c.value
    BY <1>4, <1>5, <1>14 DEF Data64Relocs
  <2>2. Len(recorded) = 0
    BY <2>1
  <2>3. ASSUME NEW link \in Linkings
        PROVE  Found(fix, link, Patch(v), recorded) = ComesOf(fix, link)
    <3>1. v \in Int /\ ComesOf(fix, link) = v
      BY <1>2, <1>7, <1>14, <2>1, ResultMeans
    <3>2. Total(Shares(recorded, fix, link)) = 0
      BY <1>10, <2>2, SharesElsewhere
    <3>3. QED
      BY <1>13, <2>2, <3>1, <3>2
  <2>4. QED
    BY <1>12, <2>2, <2>3 DEF Answering
<1>15. CASE c.kind = "relocatable"
  <2>1. PICK r : r = Reloc("UNSIGNED", Symbol(c.symbol), 0)
    OBVIOUS
  <2>2. recorded = << r >> /\ v = c.addend
    BY <1>4, <1>5, <1>15, <2>1 DEF Data64Relocs
  <2>3. IsReloc(r) /\ SamePlace(r, fix)
    <3>1. c.symbol \in Names /\ 0 \in Int
      BY <1>9, <1>15
    <3>2. IsReloc(r)
      BY <2>1, <3>1, Contributed
    <3>3. QED
      BY <1>11, <2>1, <3>2
  <2>4. ASSUME ~ AddendLost(fix), NEW link \in Linkings
        PROVE  Found(fix, link, Patch(v), recorded) = ComesOf(fix, link)
    <3>1. PICK a \in Int : a = Address(Symbol(c.symbol), link)
      BY <1>2, <1>7, <1>15, ResultMeans
    <3>2. v \in Int /\ ComesOf(fix, link) = v + a
      BY <1>2, <1>7, <1>15, <2>2, <3>1, ResultMeans
    <3>3. Contribution(r, link) = a
      <4>1. Contribution(r, link) = a + 0
        BY <2>1, <3>1, Contributed
      <4>2. QED
        BY <4>1
    <3>4. Total(Shares(recorded, fix, link)) = a /\ Len(recorded) = 1
      BY <2>2, <2>3, <3>3, ShareOfOne
    <3>5. format = "elf" => v = 0
      BY <1>6, <1>7, <1>15, <2>2, <2>4 DEF AddendLost
    <3>6. QED
      BY <1>13, <3>2, <3>4, <3>5
  <2>5. \A i \in 1 .. Len(recorded) : IsReloc(recorded[i]) /\ SamePlace(recorded[i], fix)
    BY <2>2, <2>3
  <2>6. QED
    BY <1>12, <2>4, <2>5 DEF Answering
<1>16. CASE c.kind = "difference"
  <2>1. PICK q : q = Reloc("SUBTRACTOR", Symbol(c.subtrahend), 0)
    OBVIOUS
  <2>2. PICK r : r = Reloc("UNSIGNED", Symbol(c.minuend), 0)
    OBVIOUS
  <2>3. recorded = << q, r >> /\ v = c.addend
    BY <1>4, <1>5, <1>16, <2>1, <2>2 DEF Data64Relocs
  <2>4. IsReloc(q) /\ SamePlace(q, fix) /\ IsReloc(r) /\ SamePlace(r, fix)
    <3>1. c.minuend \in Names /\ c.subtrahend \in Names /\ 0 \in Int
      BY <1>9, <1>16
    <3>2. IsReloc(q)
      BY <2>1, <3>1, Contributed
    <3>3. IsReloc(r)
      BY <2>2, <3>1, Contributed
    <3>4. QED
      BY <1>11, <2>1, <2>2, <3>2, <3>3
  <2>5. \A i \in 1 .. Len(recorded) : IsReloc(recorded[i]) /\ SamePlace(recorded[i], fix)
    BY <2>3, <2>4
  <2>6. CASE format = "elf"
    <3>1. 1 \in 1 .. Len(recorded) /\ recorded[1].type = "SUBTRACTOR"
      BY <1>1, <2>1, <2>3, MadeHere
    <3>2. QED
      BY <1>12, <2>5, <2>6, <3>1 DEF Answering
  <2>7. CASE format # "elf"
    <3>1. ASSUME NEW link \in Linkings
          PROVE  Found(fix, link, Patch(v), recorded) = ComesOf(fix, link)
      <4>1. PICK a \in Int, b \in Int : /\ a = Address(Symbol(c.minuend), link)
                                        /\ b = Address(Symbol(c.subtrahend), link)
        BY <1>2, <1>7, <1>16, ResultMeans
      <4>2. v \in Int /\ ComesOf(fix, link) = v + a - b
        BY <1>2, <1>7, <1>16, <2>3, <4>1, ResultMeans
      <4>3. Contribution(r, link) = a + 0 /\ Contribution(q, link) = -b
        BY <2>1, <2>2, <4>1, Contributed
      <4>4. PICK x \in Int, y \in Int : x = -b /\ y = a + 0
        OBVIOUS
      <4>5. Total(Shares(recorded, fix, link)) = x + y
        BY <2>3, <2>4, <4>3, <4>4, ShareOfTwo
      <4>6. QED
        BY <1>13, <2>7, <4>2, <4>5, <4>4
    <3>2. QED
      BY <1>12, <2>5, <3>1 DEF Answering
  <2>8. QED
    BY <2>6, <2>7
<1>17. CASE c.kind = "got"
  <2>1. PICK r : r = Reloc("POINTER_TO_GOT", Symbol(c.symbol), 0)
    OBVIOUS
  <2>2. recorded = << r >> /\ v = c.addend
    BY <1>4, <1>5, <1>17, <2>1 DEF Data64Relocs
  <2>3. IsReloc(r) /\ SamePlace(r, fix)
    <3>1. c.symbol \in Names /\ 0 \in Int
      BY <1>9, <1>17
    <3>2. IsReloc(r)
      BY <2>1, <3>1, Contributed
    <3>3. QED
      BY <1>11, <2>1, <3>2
  <2>4. \A i \in 1 .. Len(recorded) : IsReloc(recorded[i]) /\ SamePlace(recorded[i], fix)
    BY <2>2, <2>3
  <2>5. CASE format = "elf"
    <3>1. 1 \in 1 .. Len(recorded) /\ recorded[1].type = "POINTER_TO_GOT"
      BY <1>1, <2>1, <2>2, MadeHere
    <3>2. QED
      BY <1>12, <2>4, <2>5, <3>1 DEF Answering
  <2>6. CASE format # "elf"
    <3>1. ASSUME NEW link \in Linkings
          PROVE  Found(fix, link, Patch(v), recorded) = ComesOf(fix, link)
      <4>1. PICK g \in Int : g = link.gots[c.symbol]
        BY <1>2, <1>7, <1>17, ResultMeans
      <4>2. v \in Int /\ ComesOf(fix, link) = v + g
        BY <1>2, <1>6, <1>7, <1>17, <2>2, <4>1, ResultMeans
      <4>3. Contribution(r, link) = g
        BY <2>1, <4>1, Contributed
      <4>4. Total(Shares(recorded, fix, link)) = g
        BY <2>2, <2>3, <4>3, ShareOfOne
      <4>5. QED
        BY <1>13, <2>6, <4>2, <4>4
    <3>2. QED
      BY <1>12, <2>4, <3>1 DEF Answering
  <2>7. QED
    BY <2>5, <2>6
<1>18. QED
  BY <1>8, <1>14, <1>15, <1>16, <1>17

\* A list of two relocations.
LEMMA TwoJoined ==
    ASSUME NEW q, NEW s
    PROVE  << q >> \o << s >> = << q, s >>
<1>1. PICK t : t = << q >> \o << s >>
  OBVIOUS
<1>2. PICK u : u = << q, s >>
  OBVIOUS
<1>3. PICK a, b : a = << q >> /\ b = << s >>
  OBVIOUS
<1>4. a \in Seq({q, s}) /\ b \in Seq({q, s}) /\ Len(a) = 1 /\ Len(b) = 1
  BY <1>3
<1>5. t \in Seq({q, s}) /\ Len(t) = 2
  BY <1>1, <1>3, <1>4
<1>6. t[1] = q /\ t[2] = s
  BY <1>1, <1>3, <1>4
<1>7. t = [i \in 1 .. 2 |-> t[i]]
  BY <1>5
<1>8. u = [i \in 1 .. 2 |-> u[i]] /\ u[1] = q /\ u[2] = s
  BY <1>2
<1>9. \A i \in 1 .. 2 : i = 1 \/ i = 2
  OBVIOUS
<1>10. \A i \in 1 .. 2 : t[i] = u[i]
  BY <1>6, <1>8, <1>9
<1>11. t = u
  BY <1>7, <1>8, <1>10
<1>12. QED
  BY <1>1, <1>2, <1>11

\* record_symbol_reloc: the symbol, and the addend with it or before it.
LEMMA SymbolAnswers ==
    ASSUME Resolving, AnswersInv, NEW fix, fix = Fix, resolved < Len(fixups),
           NEW c, c = Operand(fix), c.kind = "relocatable",
           NEW type, type \notin {"SUBTRACTOR", "POINTER_TO_GOT"},
           Resolve({}, SymbolRelocs(type, c.symbol, c.addend))
    PROVE  AnswersInv'
<1>1. PICK k \in 1 .. Len(fixups) : k = resolved + 1 /\ fix = fixups[k]
  BY DEF Fix, Resolving, FixupsInv, IsSequence
<1>2. PICK n \in Names : n = c.symbol
  BY <1>1, ResultNames
<1>3. PICK addend \in Int : addend = c.addend
  BY <1>1, ResultNames
<1>4. PICK recorded : recorded = SymbolRelocs(type, n, addend)
  OBVIOUS
<1>5. IsSequence(recorded) /\ Resolve({}, recorded) /\ phase = "fixups"
  BY <1>2, <1>3, <1>4, RecordedLists DEF Resolve
<1>6. ASSUME \A i \in 1 .. Len(recorded) : IsReloc(recorded[i]) /\ SamePlace(recorded[i], fix),
             \A link \in Linkings :
                Total(Shares(recorded, fix, link)) = addend + Address(Symbol(n), link)
      PROVE  AnswersInv'
  <2>1. Resolves(fix, {}, recorded)
    BY <1>1, <1>5, <1>6 DEF Resolves
  <2>2. ASSUME NEW link \in Linkings
        PROVE  Found(fix, link, {}, recorded) = ComesOf(fix, link)
    <3>1. PICK a \in Int : a = Address(Symbol(n), link)
      BY <1>2, AddressKnown
    <3>2. ComesOf(fix, link) = addend + a
      <4>1. ComesOf(fix, link) = c.addend + Address(Symbol(c.symbol), link)
        BY <1>1, ResultMeans
      <4>2. QED
        BY <1>2, <1>3, <3>1, <4>1
    <3>3. Found(fix, link, {}, recorded) = 0 + (addend + a)
      BY <1>6, <3>1 DEF Found
    <3>4. QED
      BY <3>2, <3>3
  <2>3. QED
    BY <2>1, <2>2, ResolveAnswers DEF Answering
<1>7. PICK r : r = Reloc(type, Symbol(n), addend)
  OBVIOUS
<1>8. PICK s : s = Reloc(type, Symbol(n), 0)
  OBVIOUS
<1>9. PICK q : q = Reloc("ADDEND", Raw(addend), 0)
  OBVIOUS
<1>10. SamePlace(r, fix) /\ SamePlace(s, fix) /\ SamePlace(q, fix)
  BY <1>7, <1>8, <1>9, MadeHere
<1>11. IsReloc(r) /\ IsReloc(s)
  <2>1. IsReloc(r)
    BY <1>7, Contributed
  <2>2. 0 \in Int
    OBVIOUS
  <2>3. IsReloc(s)
    BY <1>8, <2>2, Contributed
  <2>4. QED
    BY <2>1, <2>3
<1>12. ASSUME NEW link \in Linkings
       PROVE  /\ Contribution(r, link) = Address(Symbol(n), link) + addend
              /\ Contribution(s, link) = Address(Symbol(n), link)
              /\ Contribution(q, link) = addend
              /\ Address(Symbol(n), link) \in Int
  <2>1. PICK a \in Int : a = Address(Symbol(n), link)
    BY AddressKnown
  <2>2. Contribution(r, link) = a + addend
    BY <1>7, <2>1, Contributed
  <2>3. Contribution(s, link) = a + 0
    BY <1>8, <2>1, Contributed
  <2>4. Contribution(q, link) = addend + 0
    BY <1>9 DEF Contribution, Reloc, Address, Raw
  <2>5. QED
    BY <2>1, <2>2, <2>3, <2>4
<1>13. CASE format = "elf"
  <2>1. recorded = << r >>
    BY <1>4, <1>7, <1>13 DEF SymbolRelocs
  <2>2. ASSUME NEW link \in Linkings
        PROVE  Total(Shares(recorded, fix, link)) = addend + Address(Symbol(n), link)
    <3>1. PICK x \in Int : x = addend + Address(Symbol(n), link) /\ Contribution(r, link) = x
      BY <1>12
    <3>2. QED
      BY <1>10, <2>1, <3>1, ShareOfOne
  <2>3. \A i \in 1 .. Len(recorded) : IsReloc(recorded[i]) /\ SamePlace(recorded[i], fix)
    BY <1>10, <1>11, <2>1
  <2>4. QED
    BY <1>6, <2>2, <2>3
<1>14. CASE format # "elf" /\ addend = 0
  <2>1. recorded = << s >>
    BY <1>4, <1>8, <1>14 DEF SymbolRelocs
  <2>2. ASSUME NEW link \in Linkings
        PROVE  Total(Shares(recorded, fix, link)) = addend + Address(Symbol(n), link)
    <3>1. PICK x \in Int : x = addend + Address(Symbol(n), link) /\ Contribution(s, link) = x
      BY <1>12, <1>14
    <3>2. QED
      BY <1>10, <2>1, <3>1, ShareOfOne
  <2>3. \A i \in 1 .. Len(recorded) : IsReloc(recorded[i]) /\ SamePlace(recorded[i], fix)
    BY <1>10, <1>11, <2>1
  <2>4. QED
    BY <1>6, <2>2, <2>3
<1>15. CASE format # "elf" /\ addend # 0
  <2>1. recorded = << q, s >>
    <3>1. recorded = << q >> \o << s >>
      BY <1>4, <1>8, <1>9, <1>15 DEF SymbolRelocs
    <3>2. << q >> \o << s >> = << q, s >>
      BY TwoJoined
    <3>3. QED
      BY <3>1, <3>2
  <2>2. ASSUME NEW link \in Linkings
        PROVE  Total(Shares(recorded, fix, link)) = addend + Address(Symbol(n), link)
    <3>1. PICK x \in Int : x = Address(Symbol(n), link) /\ Contribution(s, link) = x
      BY <1>12
    <3>2. Contribution(q, link) = addend
      BY <1>12
    <3>3. Total(Shares(recorded, fix, link)) = addend + x
      BY <1>10, <2>1, <3>1, <3>2, ShareOfTwo
    <3>4. QED
      BY <3>1, <3>3
  <2>3. IsReloc(q)
    <3>1. q.addend = 0 /\ q.type = "ADDEND" /\ q.target = Raw(addend)
      BY <1>9 DEF Reloc
    <3>2. QED
      BY <1>15, <3>1 DEF IsReloc
  <2>4. \A i \in 1 .. Len(recorded) : IsReloc(recorded[i]) /\ SamePlace(recorded[i], fix)
    BY <1>10, <1>11, <2>1, <2>3
  <2>5. QED
    BY <1>6, <2>2, <2>4
<1>16. QED
  BY <1>13, <1>14, <1>15

\* resolve_page_fixup
LEMMA PageAnswers ==
    ASSUME Resolving, AnswersInv, ResolvePage
    PROVE  AnswersInv'
<1>1. PICK fix : fix = Fix
  OBVIOUS
<1>2. PICK c : c = Operand(fix)
  OBVIOUS
<1>3. fix.kind \in PageKinds /\ fix.kind # "Data64" /\ resolved < Len(fixups)
  BY <1>1 DEF ResolvePage, PageKinds
<1>4. c = Classify(fix.expr, Environment)
  BY <1>2, <1>3 DEF Operand
<1>5. c.kind = "relocatable" /\ Resolve({}, SymbolRelocs(fix.kind, c.symbol, c.addend))
  BY <1>1, <1>4 DEF ResolvePage
<1>6. fix.kind \notin {"SUBTRACTOR", "POINTER_TO_GOT"}
  BY <1>3 DEF PageKinds
<1>7. QED
  BY <1>1, <1>2, <1>3, <1>5, <1>6, SymbolAnswers

\* resolve_branch_or_reloc and the others: by the linker, or here, at a
\* distance that the linker does not change.
LEMMA BranchAnswers ==
    ASSUME Resolving, AnswersInv, ResolveBranch
    PROVE  AnswersInv'
<1>1. PICK fix : fix = Fix
  OBVIOUS
<1>2. PICK c : c = Operand(fix)
  OBVIOUS
<1>3. fix.kind \in DOMAIN Bits /\ fix.kind # "Data64" /\ resolved < Len(fixups)
  BY <1>1, SymbolsAssumption DEF ResolveBranch
<1>4. c = Classify(fix.expr, Environment)
  BY <1>2, <1>3 DEF Operand
<1>5. /\ c.kind = "relocatable"
      /\ IF labels[c.symbol] = Undefined
         THEN Resolve({}, SymbolRelocs("BRANCH26", c.symbol, c.addend))
         ELSE IF RelocatesLocally(c.symbol, c.addend)
              THEN Resolve({}, << Reloc("BRANCH26", Symbol(c.symbol), 0) >>)
              ELSE ResolveHere(c)
  BY <1>1, <1>4 DEF ResolveBranch
<1>6. PICK k \in 1 .. Len(fixups) : k = resolved + 1 /\ fix = fixups[k]
  BY <1>1, <1>3 DEF Fix, Resolving, FixupsInv, IsSequence
<1>7. PICK n \in Names : n = c.symbol
  BY <1>2, <1>5, <1>6, ResultNames
<1>8. PICK addend \in Int : addend = c.addend
  BY <1>2, <1>5, <1>6, ResultNames
<1>9. ASSUME NEW link \in Linkings
      PROVE  ComesOf(fix, link) = addend + Address(Symbol(n), link)
  <2>1. ComesOf(fix, link) = c.addend + Address(Symbol(c.symbol), link)
    BY <1>2, <1>5, <1>6, ResultMeans
  <2>2. QED
    BY <1>7, <1>8, <2>1
<1>10. CASE labels[n] = Undefined
  <2>1. Resolve({}, SymbolRelocs("BRANCH26", c.symbol, c.addend))
    BY <1>5, <1>7, <1>10
  <2>2. QED
    BY <1>1, <1>2, <1>3, <1>5, <2>1, SymbolAnswers
<1>11. CASE labels[n] # Undefined /\ RelocatesLocally(n, addend)
  <2>1. PICK r : r = Reloc("BRANCH26", Symbol(n), 0)
    OBVIOUS
  <2>2. PICK recorded : recorded = << r >>
    OBVIOUS
  <2>3. Resolve({}, recorded) /\ IsSequence(recorded)
    BY <1>5, <1>7, <1>8, <1>11, <2>1, <2>2, RecordedLists
  <2>4. IsReloc(r) /\ SamePlace(r, fix)
    <3>1. 0 \in Int
      OBVIOUS
    <3>2. IsReloc(r)
      BY <2>1, <3>1, Contributed
    <3>3. QED
      BY <1>1, <2>1, <3>2, MadeHere
  <2>5. Resolves(fix, {}, recorded)
    <3>1. \A i \in 1 .. Len(recorded) : IsReloc(recorded[i]) /\ SamePlace(recorded[i], fix)
      BY <2>2, <2>4
    <3>2. phase = "fixups"
      BY <2>3 DEF Resolve
    <3>3. QED
      BY <1>3, <1>6, <2>3, <3>1, <3>2 DEF Resolves
  <2>6. CASE addend # 0
    <3>1. format = "elf" /\ fix.kind = "Branch26"
      BY <1>1, <1>11, <2>6 DEF RelocatesLocally
    <3>2. AddendLost(fix)
      BY <1>2, <1>5, <1>7, <1>8, <1>11, <2>6, <3>1 DEF AddendLost
    <3>3. QED
      BY <2>5, <3>2, ResolveAnswers DEF Answering
  <2>7. CASE addend = 0
    <3>1. ASSUME NEW link \in Linkings
          PROVE  Found(fix, link, {}, recorded) = ComesOf(fix, link)
      <4>1. PICK a \in Int : a = Address(Symbol(n), link)
        BY AddressKnown
      <4>2. Contribution(r, link) = a + 0
        BY <2>1, <4>1, Contributed
      <4>3. Contribution(r, link) = a
        BY <4>2
      <4>4. Total(Shares(recorded, fix, link)) = a
        BY <2>2, <2>4, <4>3, ShareOfOne
      <4>5. Found(fix, link, {}, recorded) = 0 + a
        BY <4>4 DEF Found
      <4>6. QED
        BY <1>9, <2>7, <4>1, <4>5
    <3>2. QED
      BY <2>5, <3>1, ResolveAnswers DEF Answering
  <2>8. QED
    BY <2>6, <2>7
<1>12. CASE labels[n] # Undefined /\ ~ RelocatesLocally(n, addend)
  <2>1. ResolveHere(c)
    BY <1>5, <1>7, <1>8, <1>12
  <2>2. PICK delta : delta = labels[n].value - fix.offset + addend
    OBVIOUS
  <2>3. PICK recorded : recorded = <<>>
    OBVIOUS
  <2>4. Resolve(Patch(delta), recorded) /\ fix.section = labels[n].section
    BY <1>1, <1>7, <1>8, <2>1, <2>2, <2>3 DEF ResolveHere
  <2>5. /\ \A p \in Patch(delta) : SamePlace(p, fix)
        /\ Patch(delta) # {} /\ (CHOOSE p \in Patch(delta) : TRUE).value = delta
    BY <1>1, MadeHere
  <2>6. IsSequence(recorded) /\ Len(recorded) = 0
    BY <2>3, RecordedLists
  <2>7. Resolves(fix, Patch(delta), recorded)
    <3>1. phase = "fixups"
      BY <2>4 DEF Resolve
    <3>2. QED
      BY <1>3, <1>6, <2>4, <2>5, <2>6, <3>1 DEF Resolves
  <2>8. ASSUME NEW link \in Linkings
        PROVE  Found(fix, link, Patch(delta), recorded) = ComesOf(fix, link)
    <3>1. Lies(labels[n])
      BY LabelsLie DEF Resolving
    <3>2. PICK v \in Int : v = labels[n].value
      BY <1>12, <3>1 DEF Lies
    <3>3. PICK o \in Int : o = fix.offset
      BY <1>6, FixupKnown
    <3>4. PICK x \in Int : x = SectionAddress(fix.section, link)
      <4>1. fix.section \in 1 .. Len(Final.sections)
        BY <1>6, FixupKnown
      <4>2. QED
        BY <4>1, LinkingKnown
    <3>5. Total(Shares(recorded, fix, link)) = 0
      BY <2>6, SharesElsewhere
    <3>6. Found(fix, link, Patch(delta), recorded) = ((x + o) + delta) + 0
      BY <1>3, <2>5, <2>6, <3>3, <3>4, <3>5 DEF Found, HereOf
    <3>7. Address(Symbol(n), link) = x + v
      BY <1>12, <2>4, <3>2, <3>4 DEF Address, Symbol, Located
    <3>8. ComesOf(fix, link) = addend + (x + v)
      BY <1>9, <3>7
    <3>9. delta = v - o + addend
      BY <2>2, <3>2, <3>3
    <3>10. QED
      BY <3>6, <3>8, <3>9
  <2>9. QED
    BY <2>7, <2>8, ResolveAnswers DEF Answering
<1>13. QED
  BY <1>10, <1>11, <1>12

-----------------------------------------------------------------------------
(* Before, and after. *)

\* The first pass resolves nothing.
LEMMA CollectAnswers ==
    ASSUME AnswersInv,
           \/ CollectLabel \/ CollectSet \/ CollectComm \/ CollectAttribute
           \/ CollectZerofill \/ CollectOther \/ PrepareExpressions \/ Reset
    PROVE  AnswersInv'
<1>1. CASE Reset
  <2>1. phase = "reset" /\ phase' = "emit" /\ relocs' = <<>> /\ patches' = patches
    BY <1>1 DEF Reset, LayoutReset
  <2>2. QED
    BY <2>1 DEF AnswersInv
<1>2. CASE PrepareExpressions
  <2>1. phase = "expressions" /\ phase' = "reset" /\ UNCHANGED <<relocs, patches>>
    BY <1>2 DEF PrepareExpressions, LayoutPrepare, resolution
  <2>2. QED
    BY <2>1 DEF AnswersInv
<1>3. CASE ~ Reset /\ ~ PrepareExpressions
  <2>1. /\ phase \in {"collect", "unwind"}
        /\ phase' \in {"collect", "unwind", "expressions"}
        /\ UNCHANGED <<relocs, patches>>
    BY <1>3 DEF CollectLabel, CollectSet, CollectComm, CollectAttribute,
       CollectZerofill, CollectOther, LaterUnchanged, emission, resolution,
       CollectSymbol, CollectZerofills, CollectBytes, CollectFill, CollectSpace,
       CollectAlign, CollectSection, CollectStartProc, CollectCfi, CollectEndProc,
       EndCollect, PrepareUnwind, Advance, At
  <2>2. QED
    BY <2>1 DEF AnswersInv
<1>4. QED
  BY <1>1, <1>2, <1>3

\* Neither does the second.
LEMMA EmitAnswers ==
    ASSUME Inv, FixupsInv, AnswersInv,
           EmitSet \/ EmitQuad \/ EmitFixup \/ EmitLabel \/ EmitZerofillSymbol \/ EmitOther
    PROVE  AnswersInv'
<1>1. /\ phase = "emit" /\ UNCHANGED <<relocs, patches, resolved, prog, trail>>
      /\ \/ phase' = "emit"
         \/ phase' = "fixups" /\ layout' = layout
  BY DEF EmitSet, EmitQuad, EmitFixup, EmitLabel, EmitZerofillSymbol, EmitOther,
     EmitNothing, EmitBytes, EmitFill, EmitSpaces, EmitAlignment, EmitSection,
     EmitZerofills, EndEmit, Proceed, At, resolution, source
<1>2. relocs = <<>> /\ patches = {} /\ resolved = 0
  BY <1>1 DEF AnswersInv, FixupsInv
<1>3. Len(layout.sections) = Len(Final.sections) /\ Len(layout.sections) \in Nat
  BY <1>1 DEF Inv, PhaseInv, Agree, TypeOK, Layouts
<1>4. CASE phase' = "emit"
  BY <1>1, <1>2, <1>4 DEF AnswersInv
<1>5. CASE phase' = "fixups" /\ layout' = layout
  <2>1. Len(Final.sections)' <= Len(layout.sections)'
    BY <1>1, <1>3, <1>5 DEF Final
  <2>2. 1 .. Len(relocs') = {} /\ 1 .. resolved' = {} /\ patches' = {}
    BY <1>1, <1>2
  <2>3. QED
    BY <1>5, <2>1, <2>2 DEF AnswersInv
<1>6. QED
  BY <1>1, <1>4, <1>5

\* Steps that leave all of it as it is.
LEMMA SameAnswers ==
    ASSUME AnswersInv, EndFixups \/ Fail \/ Terminated \/ UNCHANGED vars
    PROVE  AnswersInv'
<1>1. CASE Fail
  <2>1. phase' = "error"
    BY <1>1 DEF Fail, LayoutFail
  <2>2. QED
    BY <2>1 DEF AnswersInv
<1>2. CASE EndFixups \/ Terminated \/ UNCHANGED vars
  <2>1. /\ UNCHANGED <<format, prog, layout, trail, fixups, labels, assigns, aliases,
                       values, absolutes, resolved, relocs, patches>>
        /\ phase' = phase \/ (phase = "fixups" /\ phase' = "finish")
    BY <1>2 DEF EndFixups, ResolveFixups, Terminated, LayoutTerminated, vars, layoutVars,
       source, agreed, symbols, expressions, emission, resolution
  <2>2. ASSUME NEW fix, NEW link
        PROVE  Linked(fix, link)' = Linked(fix, link)
    <3>1. \A r : Contribution(r, link)' = Contribution(r, link)
      BY <2>1, Unmoved
    <3>2. InPlace(fix, link)' = InPlace(fix, link)
      BY <2>1 DEF InPlace, RelocsAt, SectionAddress
    <3>3. [i \in DOMAIN relocs |->
             IF i \in RelocsAt(fix) THEN Contribution(relocs[i], link) ELSE 0]'
            = [i \in DOMAIN relocs |->
                 IF i \in RelocsAt(fix) THEN Contribution(relocs[i], link) ELSE 0]
      BY <2>1, <3>1 DEF RelocsAt
    <3>4. QED
      BY <3>2, <3>3 DEF Linked
  <2>3. ASSUME NEW fix, Answered(fix), phase \in {"fixups", "finish", "done"}
        PROVE  Answered(fix)'
    <3>1. CASE AddendLost(fix)
      <4>1. AddendLost(fix)'
        BY <2>1, <3>1, Unmoved
      <4>2. QED
        BY <4>1 DEF Answered
    <3>2. CASE RefusedLater
      BY <2>1, <3>2 DEF Answered, RefusedLater
    <3>3. CASE \A link \in Linkings : Linked(fix, link) = ComesOf(fix, link)
      <4>1. ASSUME NEW link \in Linkings
            PROVE  Linked(fix, link)' = ComesOf(fix, link)'
        BY <2>1, <2>2, <3>3, Unmoved
      <4>2. QED
        BY <4>1 DEF Answered
    <3>4. QED
      BY <2>3, <3>1, <3>2, <3>3 DEF Answered
  <2>4. \A x : AtDone(x)' <=> AtDone(x)
    BY <2>1 DEF AtDone, SamePlace
  <2>5. Final' = Final /\ \A r : IsReloc(r)' <=> IsReloc(r)
    BY <2>1, Unmoved
  <2>6. QED
    BY <2>1, <2>3, <2>4, <2>5 DEF AnswersInv
<1>3. QED
  BY <1>1, <1>2

\* Relocations are a list.
LEMMA ListIsSequence ==
    ASSUME NEW S, NEW s, s \in Seq(S)
    PROVE  IsSequence(s)
<1>1. s \in Seq(ToSet(s))
  BY DEF ToSet
<1>2. QED
  BY <1>1 DEF IsSequence

\* finish: sections are added, that no fixup is in and no label.
LEMMA FinishAnswers ==
    ASSUME Resolving, AnswersInv, Finish
    PROVE  AnswersInv'
<1>1. /\ phase = "finish" /\ format # "elf" /\ phase' \in {"done", "drift"}
      /\ UNCHANGED <<format, prog, trail, fixups, labels, assigns, aliases, values,
                     absolutes, resolved, relocs, patches>>
      /\ layout'.sections = layout.sections \o WrittenUnwind(Len(rows), frames)
  BY DEF Finish, LayoutFinish, source, symbols, expressions, emission, resolution,
     Resolving, Inv, TypeOK, Layouts
<1>2. Final' = Final /\ Len(Final.sections) <= Len(layout.sections)
  BY <1>1 DEF Final, Resolving
<1>3. layout.sections \in Seq(Section) /\ Len(layout.sections) \in Nat
  BY DEF Resolving, Inv, TypeOK, Layouts
<1>4. /\ Len(layout.sections) <= Len(layout'.sections)
      /\ \A i \in 1 .. Len(layout.sections) : layout'.sections[i] = layout.sections[i]
  <2>1. PICK a : a = layout.sections /\ IsSequence(a)
    BY <1>3, ListIsSequence
  <2>2. PICK b : b = WrittenUnwind(Len(rows), frames) /\ IsSequence(b)
    <3>1. WrittenUnwind(Len(rows), frames) \in Seq(Section)
      <4>1. Len(rows) \in Nat /\ frames \in [count : Nat, bytes : Nat]
        BY DEF Resolving, Inv, TypeOK
      <4>2. QED
        BY <4>1, UnwindLemma
    <3>2. QED
      BY <3>1, ListIsSequence
  <2>3. PICK t : t = layout'.sections
    OBVIOUS
  <2>4. PICK n \in Nat, m \in Nat : n = Len(a) /\ m = Len(b)
    BY <2>1, <2>2 DEF IsSequence
  <2>5. Len(t) = n + m /\ \A i \in 1 .. n : t[i] = a[i]
    BY <1>1, <2>1, <2>2, <2>3, <2>4, PartsOfJoin
  <2>6. QED
    BY <2>1, <2>3, <2>4, <2>5
<1>5. \A i \in 1 .. Len(Final.sections) : i \in 1 .. Len(layout.sections)
  <2>1. Len(Final.sections) \in Nat
    BY DEF Resolving, Inv, TypeOK, PhaseInv, Final, Layouts
  <2>2. QED
    BY <1>2, <1>3, <2>1
<1>6. ASSUME NEW i \in 1 .. Len(Final.sections), NEW link
      PROVE  SectionAddress(i, link)' = SectionAddress(i, link)
  BY <1>4, <1>5, <1>6 DEF SectionAddress
<1>7. ASSUME NEW n \in Names, NEW link
      PROVE  Address(Symbol(n), link)' = Address(Symbol(n), link)
  <2>1. Lies(labels[n])
    BY LabelsLie DEF Resolving
  <2>2. CASE labels[n] = Undefined
    BY <1>1, <2>2 DEF Address, Symbol
  <2>3. CASE labels[n] # Undefined
    <3>1. PICK s \in 1 .. Len(Final.sections) : s = labels[n].section
      BY <2>1, <2>3 DEF Lies
    <3>2. SectionAddress(s, link)' = SectionAddress(s, link)
      BY <1>6
    <3>3. Located(labels[n], link)' = Located(labels[n], link)
      BY <1>1, <3>1, <3>2 DEF Located
    <3>4. QED
      BY <1>1, <2>3, <3>3 DEF Address, Symbol
  <2>4. QED
    BY <2>2, <2>3
<1>8. ASSUME NEW r, IsReloc(r), NEW link
      PROVE  Contribution(r, link)' = Contribution(r, link)
  <2>1. Address(r.target, link)' = Address(r.target, link)
    <3>1. CASE \E n \in Names : r.target = Symbol(n)
      <4>1. PICK n \in Names : r.target = Symbol(n)
        BY <3>1
      <4>2. Address(Symbol(n), link)' = Address(Symbol(n), link) /\ Symbol(n)' = Symbol(n)
        BY <1>7 DEF Symbol
      <4>3. QED
        BY <4>1, <4>2
    <3>2. CASE \E v \in Int : r.target = Raw(v)
      BY <3>2 DEF Address, Raw
    <3>3. QED
      BY <1>8, <3>1, <3>2 DEF IsReloc
  <2>2. QED
    BY <2>1 DEF Contribution
<1>9. ASSUME NEW k \in 1 .. resolved, NEW fix, fix = fixups[k], NEW link
      PROVE  /\ SectionAddress(fix.section, link)' = SectionAddress(fix.section, link)
             /\ ComesOf(fix, link)' = ComesOf(fix, link)
  <2>1. k \in 1 .. Len(fixups)
    BY <1>9 DEF Resolving, FixupsInv, IsSequence
  <2>2. fix.section \in 1 .. Len(Final.sections)
    BY <1>9, <2>1, FixupKnown
  <2>3. SectionAddress(fix.section, link)' = SectionAddress(fix.section, link)
    BY <1>6, <2>2
  <2>4. EnvironmentOf(fix)' = EnvironmentOf(fix)
    BY <1>1 DEF EnvironmentOf, EnvironmentAfter, ValuesAfter, ValueSlots, SlotOf, SetsBefore
  <2>5. Addresses(link)' = Addresses(link) /\ HereOf(fix, link)' = HereOf(fix, link)
    BY <1>2, <1>6, <2>3 DEF Addresses, HereOf
  <2>6. QED
    BY <2>3, <2>4, <2>5 DEF ComesOf, WorthsOf
<1>10. ASSUME NEW k \in 1 .. resolved, NEW fix, fix = fixups[k], NEW link
       PROVE  Linked(fix, link)' = Linked(fix, link)
  <2>1. SectionAddress(fix.section, link)' = SectionAddress(fix.section, link)
    BY <1>9, <1>10
  <2>2. InPlace(fix, link)' = InPlace(fix, link)
    BY <1>1, <2>1 DEF InPlace, RelocsAt
  <2>3. DOMAIN relocs = 1 .. Len(relocs)
    BY DEF Resolving, FixupsInv, IsSequence
  <2>4. \A i \in DOMAIN relocs : Contribution(relocs[i], link)' = Contribution(relocs[i], link)
    <3>1. ASSUME NEW i \in DOMAIN relocs, NEW r, r = relocs[i]
          PROVE  Contribution(r, link)' = Contribution(r, link)
      BY <1>1, <1>8, <2>3, <3>1 DEF AnswersInv
    <3>2. QED
      BY <1>1, <3>1
  <2>5. [i \in DOMAIN relocs |->
           IF i \in RelocsAt(fix) THEN Contribution(relocs[i], link) ELSE 0]'
          = [i \in DOMAIN relocs |->
               IF i \in RelocsAt(fix) THEN Contribution(relocs[i], link) ELSE 0]
    BY <1>1, <2>4 DEF RelocsAt
  <2>6. QED
    BY <2>2, <2>5 DEF Linked
<1>11. ASSUME NEW k \in 1 .. resolved, NEW fix, fix = fixups[k]
       PROVE  Answered(fix)'
  <2>1. Answered(fix) /\ ~ RefusedLater
    BY <1>1, <1>11 DEF AnswersInv, RefusedLater
  <2>2. CASE AddendLost(fix)
    BY <1>1, <2>2 DEF AddendLost
  <2>3. CASE \A link \in Linkings : Linked(fix, link) = ComesOf(fix, link)
    <3>1. ASSUME NEW link \in Linkings
          PROVE  Linked(fix, link)' = ComesOf(fix, link)'
      BY <1>9, <1>10, <1>11, <2>3
    <3>2. QED
      BY <3>1 DEF Answered
  <2>4. QED
    BY <2>1, <2>2, <2>3 DEF Answered
<1>12. \A k \in 1 .. resolved' : Answered(fixups[k])'
  BY <1>1, <1>11
<1>13. Len(Final.sections)' <= Len(layout.sections)'
  <2>1. PICK a \in Nat, b \in Nat : a = Len(Final.sections) /\ b = Len(layout.sections)
    BY <1>3 DEF Resolving, Inv, TypeOK, PhaseInv, Final, Layouts
  <2>2. Len(layout'.sections) \in Nat
    <3>1. layout'.sections \in Seq(Section)
      <4>1. Len(rows) \in Nat /\ frames \in [count : Nat, bytes : Nat]
        BY DEF Resolving, Inv, TypeOK
      <4>2. PICK w : w = WrittenUnwind(Len(rows), frames) /\ w \in Seq(Section)
        BY <4>1, UnwindLemma
      <4>3. QED
        BY <1>1, <1>3, <4>2
    <3>2. QED
      BY <3>1
  <2>3. QED
    BY <1>2, <1>4, <2>1, <2>2
<1>14. QED
  BY <1>1, <1>12, <1>13 DEF AnswersInv

\* finish_elf: a definition that nothing can preempt is its section, and its
\* offset there.
LEMMA FinishElfAnswers ==
    ASSUME Resolving, AnswersInv, FinishElf
    PROVE  AnswersInv'
<1>1. /\ phase = "finish" /\ format = "elf" /\ phase' = "done"
      /\ UNCHANGED <<format, prog, layout, trail, fixups, labels, assigns, aliases, values,
                     absolutes, resolved, patches, attrs>>
      /\ relocs' = [i \in DOMAIN relocs |-> Rela(relocs[i])]
      /\ \A r \in ToSet(relocs) : r.type \notin {"SUBTRACTOR", "POINTER_TO_GOT"}
  BY DEF FinishElf, LayoutFinishElf, source, symbols, expressions, emission
<1>2. /\ DOMAIN relocs = 1 .. Len(relocs)
      /\ \A i \in 1 .. Len(relocs) :
            IsReloc(relocs[i]) /\ relocs[i].type \notin {"SUBTRACTOR", "POINTER_TO_GOT"}
  BY <1>1 DEF Resolving, FixupsInv, IsSequence, ToSet, AnswersInv
<1>3. ~ RefusedLater
  BY <1>2 DEF RefusedLater
<1>4. ASSUME NEW r, NEW x, x = Rela(r)
      PROVE  /\ x.section = r.section /\ x.offset = r.offset
  BY <1>4 DEF Rela
<1>5. ASSUME NEW r, NEW x, x = Rela(r), IsReloc(r),
             r.type \notin {"SUBTRACTOR", "POINTER_TO_GOT"}, NEW link \in Linkings
      PROVE  Contribution(x, link) = Contribution(r, link)
  <2>1. PICK n \in Names : r.target = Symbol(n)
    BY <1>1, <1>5 DEF IsReloc
  <2>2. r.target.name = n
    BY <2>1 DEF Symbol
  <2>3. CASE ~ IsFixed(n)
    BY <1>5, <2>2, <2>3 DEF Rela
  <2>4. CASE IsFixed(n)
    <3>1. x = [r EXCEPT !.target = SectionSymbol(labels[n].section),
                        !.addend = @ + labels[n].value]
      BY <1>5, <2>2, <2>4 DEF Rela
    <3>2. labels[n] # Undefined /\ Lies(labels[n])
      BY <2>4, LabelsLie DEF IsFixed, Resolving
    <3>3. PICK v \in Int, s \in 1 .. Len(Final.sections) :
             v = labels[n].value /\ s = labels[n].section
      BY <3>2 DEF Lies
    <3>4. PICK a \in Int : a = SectionAddress(s, link)
      BY LinkingKnown
    <3>5. PICK d \in Int : d = r.addend
      BY <1>5 DEF IsReloc
    <3>6. Address(r.target, link) = a + v
      BY <2>1, <3>2, <3>3, <3>4 DEF Address, Symbol, Located
    <3>7. Contribution(r, link) = (a + v) + d
      BY <1>5, <3>5, <3>6 DEF Contribution
    <3>8. x.target = SectionSymbol(s) /\ x.addend = d + v /\ x.type = r.type
      BY <3>1, <3>3, <3>5
    <3>9. Address(x.target, link) = a
      BY <3>4, <3>8 DEF Address, SectionSymbol
    <3>10. Contribution(x, link) = a + (d + v)
      BY <1>5, <3>8, <3>9 DEF Contribution
    <3>11. QED
      BY <3>7, <3>10
  <2>5. QED
    BY <2>3, <2>4
<1>6. ASSUME NEW fix, NEW link \in Linkings
      PROVE  Linked(fix, link)' = Linked(fix, link)
  <2>1. RelocsAt(fix)' = RelocsAt(fix)
    <3>1. DOMAIN relocs' = DOMAIN relocs
      BY <1>1
    <3>2. \A i \in DOMAIN relocs : /\ relocs'[i].section = relocs[i].section
                                   /\ relocs'[i].offset = relocs[i].offset
      BY <1>1, <1>4
    <3>3. QED
      BY <3>1, <3>2 DEF RelocsAt
  <2>2. InPlace(fix, link)' = InPlace(fix, link)
    BY <1>1, <2>1 DEF InPlace, SectionAddress
  <2>3. \A r : Contribution(r, link)' = Contribution(r, link)
    BY <1>1, Unmoved
  <2>4. \A i \in DOMAIN relocs : Contribution(relocs[i], link)' = Contribution(relocs[i], link)
    <3>1. ASSUME NEW i \in DOMAIN relocs, NEW r, r = relocs[i], NEW x, x = relocs'[i]
          PROVE  Contribution(x, link)' = Contribution(r, link)
      <4>1. x = Rela(r)
        BY <1>1, <3>1
      <4>2. Contribution(x, link) = Contribution(r, link)
        BY <1>2, <1>5, <3>1, <4>1
      <4>3. QED
        BY <2>3, <4>2
    <3>2. QED
      BY <3>1
  <2>5. [i \in DOMAIN relocs |->
           IF i \in RelocsAt(fix) THEN Contribution(relocs[i], link) ELSE 0]'
          = [i \in DOMAIN relocs |->
               IF i \in RelocsAt(fix) THEN Contribution(relocs[i], link) ELSE 0]
    <3>1. DOMAIN relocs' = DOMAIN relocs
      BY <1>1
    <3>2. QED
      BY <2>1, <2>4, <3>1
  <2>6. QED
    BY <2>2, <2>5 DEF Linked
<1>7. ASSUME NEW k \in 1 .. resolved, NEW fix, fix = fixups[k]
      PROVE  Answered(fix)'
  <2>1. Answered(fix)
    BY <1>1, <1>7 DEF AnswersInv
  <2>2. CASE AddendLost(fix)
    <3>1. AddendLost(fix)'
      BY <1>1, <2>2, Unmoved
    <3>2. QED
      BY <3>1 DEF Answered
  <2>3. CASE \A link \in Linkings : Linked(fix, link) = ComesOf(fix, link)
    <3>1. ASSUME NEW link \in Linkings
          PROVE  Linked(fix, link)' = ComesOf(fix, link)'
      BY <1>1, <1>6, <2>3, Unmoved
    <3>2. QED
      BY <3>1 DEF Answered
  <2>4. QED
    BY <1>3, <2>1, <2>2, <2>3 DEF Answered
<1>8. Final' = Final /\ Len(Final.sections) <= Len(layout.sections)
  BY <1>1 DEF Final, Resolving
<1>9. QED
  BY <1>1, <1>7, <1>8 DEF AnswersInv

\* In every state the fixups so far resolved are answered.
LEMMA AnswersHold == Spec => []AnswersInv
<1>1. Init => AnswersInv
  BY DEF Init, LayoutInit, AnswersInv
<1>2. ASSUME Inv, SourceKnown, SetsInv, PlacesInv, GivenInv, StatementsInv, FixupsInv,
             AnswersInv, [Next]_vars
      PROVE  AnswersInv'
  <2>1. phase \in {"fixups", "finish"} => Resolving
    BY <1>2 DEF Resolving, AnswersInv
  <2>2. ResolveData64 \/ ResolveBranch \/ ResolvePage => phase = "fixups"
    BY DEF ResolveData64, ResolveBranch, ResolvePage, ResolveHere, Resolve
  <2>3. Finish \/ FinishElf => phase = "finish"
    BY DEF Finish, FinishElf, LayoutFinish, LayoutFinishElf
  <2>4. ResolveData64 \/ ResolveBranch \/ ResolvePage => AnswersInv'
    <3>1. CASE ResolveData64
      BY <1>2, <2>1, <2>2, <3>1, Data64Answers
    <3>2. CASE ResolveBranch
      BY <1>2, <2>1, <2>2, <3>2, BranchAnswers
    <3>3. CASE ResolvePage
      BY <1>2, <2>1, <2>2, <3>3, PageAnswers
    <3>4. QED
      BY <3>1, <3>2, <3>3
  <2>5. Finish \/ FinishElf => AnswersInv'
    <3>1. CASE Finish
      BY <1>2, <2>1, <2>3, <3>1, FinishAnswers
    <3>2. CASE FinishElf
      BY <1>2, <2>1, <2>3, <3>2, FinishElfAnswers
    <3>3. QED
      BY <3>1, <3>2
  <2>6. ASSUME \/ CollectLabel \/ CollectSet \/ CollectComm \/ CollectAttribute
               \/ CollectZerofill \/ CollectOther \/ PrepareExpressions \/ Reset
        PROVE  AnswersInv'
    BY <1>2, <2>6, CollectAnswers
  <2>7. ASSUME \/ EmitSet \/ EmitQuad \/ EmitFixup
               \/ EmitLabel \/ EmitZerofillSymbol \/ EmitOther
        PROVE  AnswersInv'
    BY <1>2, <2>7, EmitAnswers
  <2>8. EndFixups \/ Fail \/ Terminated \/ UNCHANGED vars => AnswersInv'
    BY <1>2, SameAnswers
  <2>9. QED
    BY <1>2, <2>4, <2>5, <2>6, <2>7, <2>8 DEF Next
<1>3. QED
  BY <1>1, <1>2, LayoutHolds, SourceStays, SetsHold, PlacesHold, GivenHolds, StatementsHold,
     FixupsHold, PTL DEF Spec

-----------------------------------------------------------------------------
(* What the source says. *)

\* A name means what the environment of the classification makes of it.
LEMMA NamesMean ==
    ASSUME Resolving, phase = "done", NEW n \in Names, NEW k, NEW link \in Linkings
    PROVE  MeaningOf(n, k, link)
             = NameWorth(EnvironmentAfter(k)[n], Addresses(link), link.externals[n])
<1>1. PICK v : v = EnvironmentAfter(k)[n]
  OBVIOUS
<1>2. v = IF ValuesAfter(k)[n] # Undefined THEN ValuesAfter(k)[n] ELSE labels[n]
  BY <1>1 DEF EnvironmentAfter
<1>3. CASE ValueSlots(n) # {}
  <2>1. ValuesAfter(k)[n] = Absolute(values[VisibleOf(ValueSlots(n), k)])
    BY <1>3 DEF ValuesAfter
  <2>2. VisibleSlot(n, k) = VisibleOf(ValueSlots(n), k)
    BY DEF VisibleSlot, VisibleOf
  <2>3. v = Absolute(values[VisibleSlot(n, k)])
    BY <1>2, <2>1, <2>2 DEF Absolute, Undefined
  <2>4. NameWorth(v, Addresses(link), link.externals[n]) = values[VisibleSlot(n, k)]
    BY <2>3 DEF NameWorth, Absolute
  <2>5. QED
    BY <1>1, <1>3, <2>4 DEF MeaningOf
<1>4. CASE ValueSlots(n) = {}
  <2>1. v = labels[n]
    BY <1>2, <1>4 DEF ValuesAfter
  <2>2. Lies(labels[n])
    BY LabelsLie DEF Resolving
  <2>3. SymbolsLand
    BY PlacesLand DEF Resolving
  <2>4. CASE labels[n] = Undefined
    <3>1. AliasSlots(n) = {}
      BY <2>4 DEF Resolving, GivenInv, Given
    <3>2. landed[n] = Undefined
      BY <2>3, <2>4, <3>1 DEF SymbolsLand
    <3>3. NameWorth(v, Addresses(link), link.externals[n]) = link.externals[n]
      BY <2>1, <2>4 DEF NameWorth, Undefined
    <3>4. QED
      BY <1>1, <1>4, <3>1, <3>2, <3>3 DEF MeaningOf
  <2>5. CASE labels[n] # Undefined
    <3>1. PICK s \in 1 .. Len(Final.sections) : s = labels[n].section
      BY <2>2, <2>5 DEF Lies
    <3>2. labels[n].kind = "defined"
      BY <2>2, <2>5, LiesTyped
    <3>3. Addresses(link)[s] = SectionAddress(s, link)
      BY LinkingKnown
    <3>4. NameWorth(v, Addresses(link), link.externals[n]) = Located(labels[n], link)
      BY <2>1, <3>1, <3>2, <3>3 DEF NameWorth, Located
    <3>5. labels[n] = IF AliasSlots(n) # {} THEN landed[aliases[Max(AliasSlots(n))]]
                      ELSE landed[n]
      BY <2>3 DEF SymbolsLand
    <3>6. QED
      BY <1>1, <1>4, <2>5, <3>4, <3>5 DEF MeaningOf
  <2>6. QED
    BY <2>4, <2>5
<1>5. QED
  BY <1>3, <1>4

\* What the source means by the expression of a fixup is what its leaves come to.
LEMMA ComesToMeaning ==
    ASSUME Resolving, phase = "done", NEW k \in 1 .. Len(fixups), NEW fix, fix = fixups[k],
           NEW link \in Linkings
    PROVE  Meant(fix, link) = ComesOf(fix, link)
<1>1. PICK e, s : e = fix.expr /\ s = SlotOf(fix)
  OBVIOUS
<1>2. /\ DOMAIN e = 1 .. Len(e)
      /\ \A i \in 1 .. Len(e) :
            /\ e[i].kind \in {"int", "sym", "got", "here"}
            /\ e[i].kind \in {"sym", "got"} => e[i].name \in Names
  BY <1>1, FixupKnown, LeavesOf DEF Known
<1>3. PICK w : w = WorthsOf(fix, link)
  OBVIOUS
<1>4. ASSUME NEW i \in 1 .. Len(e)
      PROVE  w[i] = CASE e[i].kind = "int"  -> e[i].value
                      [] e[i].kind = "sym"  -> MeaningOf(e[i].name, s, link)
                      [] e[i].kind = "got"  -> link.gots[e[i].name]
                      [] e[i].kind = "here" -> SectionAddress(fix.section, link) + fix.offset
  <2>1. w[i] = LeafWorth(e[i], EnvironmentAfter(s), Addresses(link), link.externals,
                         link.gots, HereOf(fix, link))
    BY <1>1, <1>3 DEF WorthsOf, Worths, EnvironmentOf
  <2>2. e[i].kind = "sym" =>
           NameWorth(EnvironmentAfter(s)[e[i].name], Addresses(link), link.externals[e[i].name])
             = MeaningOf(e[i].name, s, link)
    BY <1>2, NamesMean
  <2>3. QED
    BY <1>2, <2>1, <2>2 DEF LeafWorth, HereOf
<1>5. Meant(fix, link) = Total([i \in 1 .. Len(e) |-> e[i].sign * w[i]])
  BY <1>1, <1>2, <1>4 DEF Meant, SlotOf
<1>6. QED
  BY <1>1, <1>3, <1>5 DEF ComesOf, LeafSum

\* resolve_fixups, record_symbol_reloc, should_emit_local_branch_reloc, finish
\* and finish_elf: wherever the linker puts sections and undefined symbols,
\* every operand and every .quad comes out as the expression of the source,
\* in the objects of both formats, but for the addends that ELF loses.
THEOREM LinkedAsMeant == Spec => []LinkedValue
<1>1. ASSUME Inv, SourceKnown, SetsInv, PlacesInv, GivenInv, StatementsInv, FixupsInv, AnswersInv
      PROVE  LinkedValue
  <2> SUFFICES ASSUME phase = "done", NEW fix \in ToSet(fixups)
               PROVE  AddendLost(fix) \/ LinkedRight(fix)
    BY DEF LinkedValue
  <2>1. Resolving /\ resolved = Len(fixups) /\ ~ RefusedLater
    BY <1>1 DEF Resolving, AnswersInv, FixupsInv, RefusedLater
  <2>2. PICK k \in 1 .. Len(fixups) : fix = fixups[k]
    BY <2>1 DEF Resolving, FixupsInv, IsSequence, ToSet
  <2>3. Answered(fix)
    BY <1>1, <2>1, <2>2 DEF AnswersInv
  <2>4. ASSUME \A link \in Linkings : Linked(fix, link) = ComesOf(fix, link)
        PROVE  LinkedRight(fix)
    BY <2>1, <2>2, <2>4, ComesToMeaning DEF LinkedRight
  <2>5. QED
    BY <2>1, <2>3, <2>4 DEF Answered
<1>2. QED
  BY <1>1, AnswersHold, LayoutHolds, SourceStays, SetsHold, PlacesHold, GivenHolds,
     StatementsHold, FixupsHold, PTL
=============================================================================
