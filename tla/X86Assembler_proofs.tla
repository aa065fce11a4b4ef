------------------------- MODULE X86Assembler_proofs -------------------------
(***************************************************************************)
(* For every source and every limit: what pass 1 of the x86_64 assembler   *)
(* puts into its streams, merge_subsections brings in the order of the     *)
(* source, and nothing disturbs that later.                                *)
(***************************************************************************)
EXTENDS X86Assembler, BasicLemmas

-----------------------------------------------------------------------------
(* Where statements belong, and what the streams hold of them.             *)

\* Where the section of a statement is named.
Sects(p) == { i \in 1 .. p : prog[i].op = "section" }

\* The section of a statement is its own, or that of the statement before.
LEMMA HomeIs ==
  ASSUME prog \in Programs
  PROVE  /\ Home(0) = [section |-> ".text", sub |-> 0]
         /\ \A p \in 1 .. Len(prog) :
               Home(p) = IF prog[p].op = "section"
                         THEN [section |-> prog[p].name, sub |-> prog[p].sub]
                         ELSE Home(p - 1)
<1>1. PICK T : prog \in Seq(T)
  BY ProgramsAssumption
<1>2. Len(prog) \in Nat
  BY <1>1
<1> DEFINE At(q) == IF q = 0 THEN [section |-> ".text", sub |-> 0]
                    ELSE [section |-> prog[q].name, sub |-> prog[q].sub]
<1>3. ASSUME NEW p \in 0 .. Len(prog)
      PROVE  Home(p) = At(IF Sects(p) # {} THEN Max(Sects(p)) ELSE 0)
  <2>1. PICK s : s = SubSeq(prog, 1, p)
    OBVIOUS
  <2>2. Len(s) = p /\ \A i \in 1 .. p : s[i] = prog[i]
    <3>1. CASE p = 0
      BY <1>1, <2>1, <3>1, SubSeqProperties
    <3>2. CASE p # 0
      BY <1>1, <1>2, <2>1, <3>2, SubSeqProperties
    <3>3. QED
      BY <3>1, <3>2
  <2>3. { i \in 1 .. Len(s) : s[i].op = "section" } = Sects(p)
    BY <2>2 DEF Sects
  <2>4. SelectLastInSeq(s, LAMBDA x : x.op = "section") = IF Sects(p) # {} THEN Max(Sects(p)) ELSE 0
    BY <2>3, Zenon DEF SelectLastInSeq
  <2>5. QED
    BY <2>1, <2>4, Zenon DEF Home, At
<1>4. Home(0) = At(0)
  <2>1. 0 \in 0 .. Len(prog) /\ Sects(0) = {}
    BY <1>2 DEF Sects
  <2>2. QED
    BY <1>3, <2>1
<1>5. ASSUME NEW p \in 1 .. Len(prog)
      PROVE  Home(p) = IF prog[p].op = "section"
                       THEN [section |-> prog[p].name, sub |-> prog[p].sub]
                       ELSE Home(p - 1)
  <2>1. p \in 0 .. Len(prog) /\ p - 1 \in 0 .. Len(prog) /\ p \in Nat
    BY <1>2
  <2>2. CASE prog[p].op = "section"
    <3>1. p \in Sects(p) /\ Sects(p) \in SUBSET Nat /\ \A i \in Sects(p) : i <= p
      BY <2>1, <2>2 DEF Sects
    <3>2. Max(Sects(p)) \in Sects(p) /\ \A i \in Sects(p) : i <= Max(Sects(p))
      BY <2>1, <3>1, MaxOfNaturals
    <3>3. Max(Sects(p)) = p
      BY <2>1, <3>1, <3>2
    <3>4. p # 0 /\ Sects(p) # {}
      BY <3>1
    <3>5. QED
      BY <1>3, <2>1, <2>2, <3>3, <3>4
  <2>3. CASE prog[p].op # "section"
    <3>1. Sects(p) = Sects(p - 1)
      BY <2>1, <2>3 DEF Sects
    <3>2. QED
      BY <1>3, <2>1, <2>3, <3>1
  <2>4. QED
    BY <2>2, <2>3
<1>6. QED
  BY <1>4, <1>5

\* The sections of statements, for all of them; before the first it is .text.
Homes == [p \in 0 .. Len(prog) |-> Home(p)]

\* Of a program g with homes h: items are those of the first m statements
\* whose home is key, in their order.
Held(g, h, items, m, key) ==
    /\ items \in Seq(ToSet(items))
    /\ \A i \in 1 .. Len(items) :
          /\ items[i].line \in 1 .. m
          /\ HasItem(g[items[i].line]) /\ h[items[i].line] = key
    /\ \A i, j \in 1 .. Len(items) : i < j => items[i].line < items[j].line
    /\ \A p \in 1 .. m :
          HasItem(g[p]) /\ h[p] = key => \E i \in 1 .. Len(items) : items[i].line = p

\* The statement of a label that has the home.
Labels(g, h, p, key) == g[p].op = "label" /\ h[p] = key

\* Labels stand between the items before and behind their statements.
Labeled(g, h, labels, items, m, key) ==
    /\ \A l \in DOMAIN labels :
          \E p \in 1 .. m : Labels(g, h, p, key) /\ g[p].name = l
    /\ \A p \in 1 .. m : Labels(g, h, p, key) =>
          /\ g[p].name \in DOMAIN labels
          /\ labels[g[p].name] \in 1 .. Len(items) + 1
          /\ \A i \in 1 .. Len(items) : i < labels[g[p].name] <=> items[i].line < p

Key(stream) == [section |-> stream.section, sub |-> stream.sub]

\* It is a record with these fields.
Whole(s) ==
    s = [section |-> s.section, sub |-> s.sub, items |-> s.items, labels |-> s.labels, order |-> s.order,
         align |-> s.align, type |-> s.type, flags |-> s.flags]

\* After m statements the streams are those of their homes, each once, with
\* their items and labels; the current one is that of the last.
Streaming(g, h, m, ss, here, known) ==
    /\ ss \in Seq(ToSet(ss)) /\ here \in 1 .. Len(ss)
    /\ \A k \in 1 .. Len(ss) : Whole(ss[k]) /\ ss[k].sub \in Int
    /\ \A j, k \in 1 .. Len(ss) : Key(ss[j]) = Key(ss[k]) => j = k
    /\ h[m] = Key(ss[here])
    /\ \A p \in 1 .. m : \E k \in 1 .. Len(ss) : Key(ss[k]) = h[p]
    /\ \A k \in 1 .. Len(ss) :
          /\ Held(g, h, ss[k].items, m, Key(ss[k]))
          /\ Labeled(g, h, ss[k].labels, ss[k].items, m, Key(ss[k]))
    /\ \A p \in 1 .. m : g[p].op = "label" => g[p].name \in known
    /\ \A p, q \in 1 .. m :
          g[p].op = "label" /\ g[q].op = "label" /\ g[p].name = g[q].name => p = q

StreamsInv ==
    phase = "pass1" =>
        /\ prog \in Programs /\ cursor \in 1 .. Len(prog) + 1
        /\ Streaming(prog, Homes, cursor - 1, streams, Here, DOMAIN labelSection)

-----------------------------------------------------------------------------
(* One statement more, for one stream.                                     *)

\* A statement of another home, or without an item, adds nothing.
LEMMA HeldIdles ==
  ASSUME NEW g, NEW h, NEW items, NEW m \in Nat, NEW key, Held(g, h, items, m, key),
         ~ (HasItem(g[m + 1]) /\ h[m + 1] = key)
  PROVE  Held(g, h, items, m + 1, key)
<1>1. \A p \in 1 .. m + 1 : p \in 1 .. m \/ p = m + 1
  OBVIOUS
<1>2. \A p \in 1 .. m : p \in 1 .. m + 1
  OBVIOUS
<1>3. \A p \in 1 .. m + 1 :
        HasItem(g[p]) /\ h[p] = key => \E i \in 1 .. Len(items) : items[i].line = p
  BY <1>1 DEF Held
<1> HIDE DEF HasItem
<1>4. QED
  BY <1>2, <1>3 DEF Held

LEMMA LabeledIdles ==
  ASSUME NEW g, NEW h, NEW labels, NEW items, NEW m \in Nat, NEW key,
         Labeled(g, h, labels, items, m, key), ~ Labels(g, h, m + 1, key)
  PROVE  Labeled(g, h, labels, items, m + 1, key)
<1>1. \A p \in 1 .. m + 1 : p \in 1 .. m \/ p = m + 1
  OBVIOUS
<1>2. \A p \in 1 .. m : p \in 1 .. m + 1
  OBVIOUS
<1>3. \A l \in DOMAIN labels :
        \E p \in 1 .. m + 1 : Labels(g, h, p, key) /\ g[p].name = l
  BY <1>2 DEF Labeled
<1>4. QED
  BY <1>1, <1>3 DEF Labeled

\* The item of a statement goes behind the others.
LEMMA HeldGrows ==
  ASSUME NEW g, NEW h, NEW items, NEW m \in Nat, NEW key, Held(g, h, items, m, key),
         HasItem(g[m + 1]), h[m + 1] = key, NEW item, item.line = m + 1
  PROVE  /\ Held(g, h, Append(items, item), m + 1, key)
         /\ Len(Append(items, item)) = Len(items) + 1 /\ Len(items) \in Nat
         /\ \A i \in 1 .. Len(items) : Append(items, item)[i] = items[i]
         /\ Append(items, item)[Len(items) + 1] = item
<1>1. PICK T : T = ToSet(items) \union {item}
  OBVIOUS
<1>2. items \in Seq(T) /\ item \in T /\ Len(items) \in Nat
  BY <1>1 DEF Held
<1>3. PICK more : more = Append(items, item)
  OBVIOUS
<1>4. /\ more \in Seq(T) /\ Len(more) = Len(items) + 1
      /\ \A i \in 1 .. Len(items) : more[i] = items[i]
      /\ more[Len(items) + 1] = item
  BY <1>2, <1>3
<1>5. more \in Seq(ToSet(more))
  <2>1. \A i \in 1 .. Len(more) : more[i] \in ToSet(more)
    BY <1>4 DEF ToSet
  <2>2. QED
    BY <1>4, <2>1
<1>6. PICK n \in Nat : n = Len(items)
  BY <1>2
<1>7. Held(g, h, more, m + 1, key)
  <2>1. ASSUME NEW i \in 1 .. Len(more)
        PROVE  more[i].line \in 1 .. m + 1 /\ HasItem(g[more[i].line]) /\ h[more[i].line] = key
    <3>1. CASE i = n + 1
      BY <1>4, <1>6, <3>1
    <3>2. CASE i # n + 1
      <4>1. i \in 1 .. n
        BY <1>4, <1>6, <3>2
      <4>2. QED
        BY <1>4, <1>6, <4>1 DEF Held
    <3>3. QED
      BY <3>1, <3>2
  <2>2. ASSUME NEW i \in 1 .. Len(more), NEW j \in 1 .. Len(more), i < j
        PROVE  more[i].line < more[j].line
    <3>1. i \in 1 .. n /\ more[i] = items[i]
      BY <1>4, <1>6, <2>2
    <3>2. CASE j = n + 1
      <4>1. items[i].line \in 1 .. m
        BY <1>6, <3>1 DEF Held
      <4>2. QED
        BY <1>4, <1>6, <3>1, <3>2, <4>1
    <3>3. CASE j # n + 1
      <4>1. j \in 1 .. n
        BY <1>4, <1>6, <3>3
      <4>2. QED
        BY <1>4, <1>6, <2>2, <3>1, <4>1 DEF Held
    <3>4. QED
      BY <3>2, <3>3
  <2>3. ASSUME NEW p \in 1 .. m + 1, HasItem(g[p]), h[p] = key
        PROVE  \E i \in 1 .. Len(more) : more[i].line = p
    <3>1. CASE p = m + 1
      <4>1. n + 1 \in 1 .. Len(more) /\ more[n + 1].line = p
        BY <1>4, <1>6, <3>1
      <4>2. QED
        BY <4>1
    <3>2. CASE p # m + 1
      <4>1. p \in 1 .. m
        BY <3>2
      <4>2. PICK i \in 1 .. n : items[i].line = p
        BY <1>6, <2>3, <4>1 DEF Held
      <4>3. i \in 1 .. Len(more) /\ more[i].line = p
        BY <1>4, <1>6, <4>2
      <4>4. QED
        BY <4>3
    <3>3. QED
      BY <3>1, <3>2
  <2>4. QED
    BY <1>5, <2>1, <2>2, <2>3 DEF Held
<1>8. QED
  BY <1>2, <1>3, <1>4, <1>7

LEMMA LabeledGrows ==
  ASSUME NEW g, NEW h, NEW labels, NEW items, NEW m \in Nat, NEW key,
         Held(g, h, items, m, key), Labeled(g, h, labels, items, m, key),
         HasItem(g[m + 1]), h[m + 1] = key, g[m + 1].op # "label", NEW item, item.line = m + 1
  PROVE  Labeled(g, h, labels, Append(items, item), m + 1, key)
<1>1. PICK more : more = Append(items, item)
  OBVIOUS
<1>2. PICK n \in Nat : n = Len(items)
  BY HeldGrows
<1>3. /\ Len(more) = n + 1
      /\ \A i \in 1 .. n : more[i] = items[i]
      /\ more[n + 1].line = m + 1
  BY <1>1, <1>2, HeldGrows
<1>4. Labeled(g, h, labels, items, m + 1, key)
  BY LabeledIdles DEF Labels
<1>5. ASSUME NEW p \in 1 .. m + 1, Labels(g, h, p, key)
      PROVE  /\ g[p].name \in DOMAIN labels /\ labels[g[p].name] \in 1 .. Len(more) + 1
             /\ \A i \in 1 .. Len(more) : i < labels[g[p].name] <=> more[i].line < p
  <2>1. PICK a : a = labels[g[p].name]
    OBVIOUS
  <2>2. /\ g[p].name \in DOMAIN labels /\ a \in 1 .. n + 1
        /\ \A i \in 1 .. n : i < a <=> items[i].line < p
    BY <1>2, <1>4, <1>5, <2>1 DEF Labeled
  <2>3. ASSUME NEW i \in 1 .. Len(more)
        PROVE  i < a <=> more[i].line < p
    <3>1. CASE i = n + 1
      <4>1. ~ (i < a) /\ ~ (m + 1 < p)
        BY <2>2, <3>1
      <4>2. QED
        BY <1>3, <3>1, <4>1
    <3>2. CASE i # n + 1
      <4>1. i \in 1 .. n
        BY <1>3, <3>2
      <4>2. QED
        BY <1>3, <2>2, <4>1
    <3>3. QED
      BY <3>1, <3>2
  <2>4. a \in 1 .. Len(more) + 1
    BY <1>3, <2>2
  <2>5. QED
    BY <2>1, <2>2, <2>3, <2>4
<1>6. QED
  BY <1>1, <1>4, <1>5 DEF Labeled

\* A label stands behind all items that there are.
LEMMA LabeledMore ==
  ASSUME NEW g, NEW h, NEW labels, NEW items, NEW m \in Nat, NEW key,
         Held(g, h, items, m, key), Labeled(g, h, labels, items, m, key),
         Labels(g, h, m + 1, key), g[m + 1].name \notin DOMAIN labels, NEW more,
         DOMAIN more = {g[m + 1].name} \union DOMAIN labels,
         more[g[m + 1].name] = Len(items) + 1,
         \A l \in DOMAIN labels : more[l] = labels[l]
  PROVE  Labeled(g, h, more, items, m + 1, key)
<1>1. PICK n \in Nat : n = Len(items)
  BY DEF Held
<1>2. ASSUME NEW l \in DOMAIN more
      PROVE  \E p \in 1 .. m + 1 : Labels(g, h, p, key) /\ g[p].name = l
  <2>1. CASE l = g[m + 1].name
    <3>1. m + 1 \in 1 .. m + 1
      OBVIOUS
    <3>2. QED
      BY <2>1, <3>1
  <2>2. CASE l # g[m + 1].name
    <3>1. PICK p \in 1 .. m : Labels(g, h, p, key) /\ g[p].name = l
      BY <2>2 DEF Labeled
    <3>2. p \in 1 .. m + 1
      OBVIOUS
    <3>3. QED
      BY <3>1, <3>2
  <2>3. QED
    BY <2>1, <2>2
<1>3. ASSUME NEW p \in 1 .. m + 1, Labels(g, h, p, key)
      PROVE  /\ g[p].name \in DOMAIN more /\ more[g[p].name] \in 1 .. Len(items) + 1
             /\ \A i \in 1 .. Len(items) : i < more[g[p].name] <=> items[i].line < p
  <2>1. CASE p = m + 1
    <3>1. \A i \in 1 .. n : items[i].line \in 1 .. m
      BY <1>1 DEF Held
    <3>2. \A i \in 1 .. n : i < n + 1 /\ items[i].line < m + 1
      BY <3>1
    <3>3. n + 1 \in 1 .. n + 1
      OBVIOUS
    <3>4. QED
      BY <1>1, <2>1, <3>2, <3>3
  <2>2. CASE p # m + 1
    <3>1. p \in 1 .. m
      BY <2>2
    <3>2. /\ g[p].name \in DOMAIN labels /\ labels[g[p].name] \in 1 .. Len(items) + 1
          /\ \A i \in 1 .. Len(items) : i < labels[g[p].name] <=> items[i].line < p
      BY <1>3, <3>1 DEF Labeled
    <3>3. more[g[p].name] = labels[g[p].name]
      BY <3>2
    <3>4. QED
      BY <3>2, <3>3
  <2>3. QED
    BY <2>1, <2>2
<1>4. QED
  BY <1>2, <1>3 DEF Labeled

-----------------------------------------------------------------------------
(* One statement more, for all streams.                                    *)

\* The next statement changes one stream, its home.
LEMMA StreamChanges ==
  ASSUME NEW g, NEW h, NEW m \in Nat, NEW ss, NEW here, NEW known, NEW now, NEW known2, NEW t,
         Streaming(g, h, m, ss, here, known),
         now \in 1 .. Len(ss), h[m + 1] = Key(ss[now]),
         Key(t) = Key(ss[now]), Whole(t), t.sub \in Int,
         Held(g, h, t.items, m + 1, Key(t)), Labeled(g, h, t.labels, t.items, m + 1, Key(t)),
         known \subseteq known2,
         g[m + 1].op = "label" => g[m + 1].name \notin known /\ g[m + 1].name \in known2
  PROVE  Streaming(g, h, m + 1, [ss EXCEPT ![now] = t], now, known2)
<1>1. PICK T : T = ToSet(ss) \union {t}
  OBVIOUS
<1>2. ss \in Seq(T) /\ t \in T
  BY <1>1 DEF Streaming
<1>3. PICK n \in Nat : n = Len(ss) /\ DOMAIN ss = 1 .. n
  BY <1>2
<1>4. PICK new : new = [ss EXCEPT ![now] = t]
  OBVIOUS
<1>5. /\ new \in Seq(T) /\ Len(new) = n
      /\ \A k \in 1 .. n : new[k] = IF k = now THEN t ELSE ss[k]
  BY <1>2, <1>3, <1>4
<1>6. new \in Seq(ToSet(new))
  <2>1. \A i \in 1 .. n : new[i] \in ToSet(new)
    BY <1>5 DEF ToSet
  <2>2. QED
    BY <1>5, <2>1
<1>7. \A k \in 1 .. n : Key(new[k]) = Key(ss[k]) /\ Whole(new[k]) /\ new[k].sub \in Int
  BY <1>3, <1>5 DEF Streaming
<1>8. \A j, k \in 1 .. n : Key(new[j]) = Key(new[k]) => j = k
  <2>1. \A j, k \in 1 .. n : Key(ss[j]) = Key(ss[k]) => j = k
    BY <1>3 DEF Streaming
  <2>2. QED
    BY <1>7, <2>1
<1>9. ASSUME NEW p \in 1 .. m + 1
      PROVE  \E k \in 1 .. n : Key(new[k]) = h[p]
  <2>1. CASE p = m + 1
    BY <1>3, <1>7, <2>1
  <2>2. CASE p # m + 1
    <3>1. p \in 1 .. m
      BY <2>2
    <3>2. PICK k \in 1 .. n : Key(ss[k]) = h[p]
      BY <1>3, <3>1 DEF Streaming
    <3>3. QED
      BY <1>7, <3>2
  <2>3. QED
    BY <2>1, <2>2
<1>10. ASSUME NEW k \in 1 .. n
       PROVE  /\ Held(g, h, new[k].items, m + 1, Key(new[k]))
              /\ Labeled(g, h, new[k].labels, new[k].items, m + 1, Key(new[k]))
  <2>1. CASE k = now
    BY <1>5, <2>1
  <2>2. CASE k # now
    <3>1. h[m + 1] # Key(ss[k])
      BY <1>3, <2>2 DEF Streaming
    <3>2. /\ Held(g, h, ss[k].items, m, Key(ss[k]))
          /\ Labeled(g, h, ss[k].labels, ss[k].items, m, Key(ss[k]))
      BY <1>3 DEF Streaming
    <3>3. Held(g, h, ss[k].items, m + 1, Key(ss[k]))
      BY <3>1, <3>2, HeldIdles
    <3>4. Labeled(g, h, ss[k].labels, ss[k].items, m + 1, Key(ss[k]))
      <4>1. ~ Labels(g, h, m + 1, Key(ss[k]))
        BY <3>1 DEF Labels
      <4>2. QED
        BY <3>2, <4>1, LabeledIdles
    <3>5. QED
      BY <1>5, <2>2, <3>3, <3>4
  <2>3. QED
    BY <2>1, <2>2
<1>11. \A p \in 1 .. m : g[p].op = "label" => g[p].name \in known
  BY DEF Streaming
<1>12. \A p \in 1 .. m + 1 : p \in 1 .. m \/ p = m + 1
  OBVIOUS
<1>13. \A p \in 1 .. m + 1 : g[p].op = "label" => g[p].name \in known2
  BY <1>11, <1>12
<1>14. \A p, q \in 1 .. m + 1 :
         g[p].op = "label" /\ g[q].op = "label" /\ g[p].name = g[q].name => p = q
  <2>1. \A p, q \in 1 .. m :
          g[p].op = "label" /\ g[q].op = "label" /\ g[p].name = g[q].name => p = q
    BY DEF Streaming
  <2>2. QED
    BY <1>11, <1>12, <2>1
<1>15. h[m + 1] = Key(new[now])
  BY <1>3, <1>7
<1>16. Streaming(g, h, m + 1, new, now, known2)
  BY <1>3, <1>5, <1>6, <1>7, <1>8, <1>9, <1>10, <1>13, <1>14, <1>15 DEF Streaming
<1>17. QED
  BY <1>4, <1>16

\* The next statement begins a new stream, which is its home.
LEMMA StreamBegins ==
  ASSUME NEW g, NEW h, NEW m \in Nat, NEW ss, NEW here, NEW known, NEW t,
         Streaming(g, h, m, ss, here, known),
         h[m + 1] = Key(t), \A k \in 1 .. Len(ss) : Key(ss[k]) # Key(t),
         Whole(t), t.sub \in Int, t.items = <<>>, t.labels = <<>>,
         g[m + 1].op = "section"
  PROVE  Streaming(g, h, m + 1, Append(ss, t), Len(ss) + 1, known)
<1>1. PICK T : T = ToSet(ss) \union {t}
  OBVIOUS
<1>2. ss \in Seq(T) /\ t \in T
  BY <1>1 DEF Streaming
<1>3. PICK n \in Nat : n = Len(ss)
  BY <1>2
<1>4. PICK new : new = Append(ss, t)
  OBVIOUS
<1>5. /\ new \in Seq(T) /\ Len(new) = n + 1
      /\ \A k \in 1 .. n : new[k] = ss[k]
      /\ new[n + 1] = t
  BY <1>2, <1>3, <1>4
<1>6. new \in Seq(ToSet(new))
  <2>1. \A i \in 1 .. n + 1 : new[i] \in ToSet(new)
    BY <1>5 DEF ToSet
  <2>2. QED
    BY <1>5, <2>1
<1>7. \A k \in 1 .. n + 1 : k \in 1 .. n \/ k = n + 1
  OBVIOUS
<1>8. \A k \in 1 .. n + 1 : Whole(new[k]) /\ new[k].sub \in Int
  BY <1>3, <1>5, <1>7 DEF Streaming
<1>9. \A j, k \in 1 .. n + 1 : Key(new[j]) = Key(new[k]) => j = k
  <2>1. \A j, k \in 1 .. n : Key(ss[j]) = Key(ss[k]) => j = k
    BY <1>3 DEF Streaming
  <2>2. QED
    BY <1>3, <1>5, <1>7, <2>1
<1>10. \A p \in 1 .. m + 1 : p \in 1 .. m \/ p = m + 1
  OBVIOUS
<1>11. \A p \in 1 .. m : \E k \in 1 .. n : Key(ss[k]) = h[p]
  BY <1>3 DEF Streaming
<1>12. ASSUME NEW p \in 1 .. m + 1
       PROVE  \E k \in 1 .. n + 1 : Key(new[k]) = h[p]
  <2>1. n + 1 \in 1 .. n + 1 /\ \A k \in 1 .. n : k \in 1 .. n + 1
    OBVIOUS
  <2>2. QED
    BY <1>5, <1>10, <1>11, <2>1
<1>13. ~ HasItem(g[m + 1]) /\ g[m + 1].op # "label"
  BY DEF HasItem
<1>14. ASSUME NEW k \in 1 .. n + 1
       PROVE  /\ Held(g, h, new[k].items, m + 1, Key(new[k]))
              /\ Labeled(g, h, new[k].labels, new[k].items, m + 1, Key(new[k]))
  <2>1. CASE k = n + 1
    <3>1. \A p \in 1 .. m : h[p] # Key(t)
      BY <1>3, <1>11
    <3>2. \A p \in 1 .. m + 1 : ~ (HasItem(g[p]) /\ h[p] = Key(t)) /\ ~ Labels(g, h, p, Key(t))
      BY <1>10, <1>13, <3>1 DEF Labels
    <3>3. Held(g, h, <<>>, m + 1, Key(t))
      <4>1. <<>> \in Seq(ToSet(<<>>)) /\ Len(<<>>) = 0
        OBVIOUS
      <4>2. QED
        BY <3>2, <4>1 DEF Held
    <3>4. Labeled(g, h, <<>>, <<>>, m + 1, Key(t))
      <4>1. DOMAIN <<>> = {}
        OBVIOUS
      <4>2. QED
        BY <3>2, <4>1 DEF Labeled
    <3>5. QED
      BY <1>5, <2>1, <3>3, <3>4
  <2>2. CASE k # n + 1
    <3>1. k \in 1 .. n /\ new[k] = ss[k]
      BY <1>5, <2>2
    <3>2. /\ Held(g, h, ss[k].items, m, Key(ss[k]))
          /\ Labeled(g, h, ss[k].labels, ss[k].items, m, Key(ss[k]))
      BY <1>3, <3>1 DEF Streaming
    <3>3. Held(g, h, ss[k].items, m + 1, Key(ss[k]))
      BY <1>13, <3>2, HeldIdles
    <3>4. Labeled(g, h, ss[k].labels, ss[k].items, m + 1, Key(ss[k]))
      BY <1>13, <3>2, LabeledIdles DEF Labels
    <3>5. QED
      BY <3>1, <3>3, <3>4
  <2>3. QED
    BY <2>1, <2>2
<1>15. \A p \in 1 .. m + 1 : g[p].op = "label" => p \in 1 .. m
  BY <1>10, <1>13
<1>16. /\ \A p \in 1 .. m + 1 : g[p].op = "label" => g[p].name \in known
       /\ \A p, q \in 1 .. m + 1 :
             g[p].op = "label" /\ g[q].op = "label" /\ g[p].name = g[q].name => p = q
  <2>1. /\ \A p \in 1 .. m : g[p].op = "label" => g[p].name \in known
        /\ \A p, q \in 1 .. m :
              g[p].op = "label" /\ g[q].op = "label" /\ g[p].name = g[q].name => p = q
    BY DEF Streaming
  <2>2. QED
    BY <1>15, <2>1
<1>17. n + 1 \in 1 .. Len(new) /\ h[m + 1] = Key(new[n + 1])
  BY <1>5
<1>18. Streaming(g, h, m + 1, new, n + 1, known)
  BY <1>5, <1>6, <1>8, <1>9, <1>12, <1>14, <1>16, <1>17 DEF Streaming
<1>19. QED
  BY <1>3, <1>4, <1>18

-----------------------------------------------------------------------------
(* The statements.                                                         *)

\* The homes do not change while the program does not.
LEMMA HomesStay == ASSUME prog' = prog PROVE Homes' = Homes
<1>1. ASSUME NEW p PROVE Home(p)' = Home(p)
  BY DEF Home, SelectLastInSeq
<1>2. QED
  BY <1>1, Zenon DEF Homes

\* What is known when a statement is read that begins no section.
LEMMA ReadingIs ==
  ASSUME StreamsInv, NEW ops, Accept(ops)
  PROVE  /\ prog \in Programs /\ prog' = prog /\ Homes' = Homes
         /\ phase = "pass1" /\ phase' = "pass1" /\ S.op \in ops /\ ~ Refused
         /\ cursor - 1 \in Nat /\ (cursor - 1) + 1 = cursor /\ cursor' = cursor + 1
         /\ (cursor + 1) - 1 = cursor
         /\ S = prog[cursor] /\ cursor \in 1 .. Len(prog) /\ cursor + 1 \in 1 .. Len(prog) + 1
         /\ Streaming(prog, Homes, cursor - 1, streams, Here, DOMAIN labelSection)
         /\ S.op # "section" => Homes[cursor] = Key(streams[Here])
         /\ S.op = "section" => Homes[cursor] = [section |-> S.name, sub |-> S.sub] /\ S.sub \in Int
<1>1. /\ prog \in Programs /\ prog' = prog /\ cursor \in 1 .. Len(prog) + 1 /\ cursor <= Len(prog)
      /\ phase = "pass1" /\ phase' = "pass1" /\ S.op \in ops /\ ~ Refused /\ cursor' = cursor + 1
      /\ Streaming(prog, Homes, cursor - 1, streams, Here, DOMAIN labelSection)
  BY DEF Accept, Reading, StreamsInv
<1>2. Homes' = Homes
  BY <1>1, HomesStay
<1>3. prog \in Seq(ToSet(prog)) /\ Len(prog) \in Nat
  BY <1>1, ProgramsAssumption
<1>4. /\ cursor \in 1 .. Len(prog) /\ cursor - 1 \in Nat /\ (cursor - 1) + 1 = cursor
      /\ (cursor + 1) - 1 = cursor /\ cursor + 1 \in 1 .. Len(prog) + 1
      /\ cursor - 1 \in 0 .. Len(prog) /\ cursor \in 0 .. Len(prog)
  BY <1>1, <1>3
<1>5. S = prog[cursor]
  BY DEF S
<1>6. Homes[cursor] = Home(cursor) /\ Homes[cursor - 1] = Home(cursor - 1)
  BY <1>4 DEF Homes
<1>7. Home(cursor) = IF prog[cursor].op = "section"
                     THEN [section |-> prog[cursor].name, sub |-> prog[cursor].sub]
                     ELSE Home(cursor - 1)
  BY <1>1, <1>4, HomeIs
<1>8. Homes[cursor - 1] = Key(streams[Here])
  BY <1>1 DEF Streaming
<1>9. S.op = "section" => S.sub \in Int
  BY <1>1, <1>3, <1>4, <1>5, ProgramsAssumption
<1>10. QED
  BY <1>1, <1>2, <1>4, <1>5, <1>6, <1>7, <1>8, <1>9

\* A statement that changes one stream: its items, its labels, or neither.
LEMMA StreamMoves ==
  ASSUME StreamsInv, NEW ops, Accept(ops), S.op # "section", Here' = Here,
         NEW t, streams' = [streams EXCEPT ![Here] = t],
         Whole(t), Key(t) = Key(streams[Here]), t.sub = streams[Here].sub,
         Held(prog, Homes, t.items, cursor, Key(streams[Here])),
         Labeled(prog, Homes, t.labels, t.items, cursor, Key(streams[Here])),
         DOMAIN labelSection \subseteq DOMAIN labelSection',
         S.op = "label" => S.name \notin DOMAIN labelSection /\ S.name \in DOMAIN labelSection'
  PROVE  StreamsInv'
<1>1. PICK m \in Nat : m = cursor - 1 /\ m + 1 = cursor
  BY ReadingIs
<1>2. PICK ss : ss = streams
  OBVIOUS
<1>3. /\ Streaming(prog, Homes, m, ss, Here, DOMAIN labelSection)
      /\ Homes[m + 1] = Key(ss[Here]) /\ prog[m + 1] = S
  BY <1>1, <1>2, ReadingIs
<1>4. Here \in 1 .. Len(ss) /\ t.sub \in Int
  BY <1>2, <1>3 DEF Streaming
<1>5. /\ Held(prog, Homes, t.items, m + 1, Key(t))
      /\ Labeled(prog, Homes, t.labels, t.items, m + 1, Key(t))
  BY <1>1
<1>6. Streaming(prog, Homes, m + 1, [ss EXCEPT ![Here] = t], Here, DOMAIN labelSection')
  BY <1>2, <1>3, <1>4, <1>5, StreamChanges
<1>7. /\ prog' \in Programs /\ cursor' \in 1 .. Len(prog') + 1 /\ cursor' - 1 = m + 1
  BY <1>1, ReadingIs
<1>8. Streaming(prog', Homes', cursor' - 1, streams', Here', DOMAIN labelSection')
  BY <1>1, <1>2, <1>6, <1>7, ReadingIs
<1>9. QED
  BY <1>7, <1>8 DEF StreamsInv

\* What is known of the current stream.
LEMMA CurrentIs ==
  ASSUME StreamsInv, NEW ops, Accept(ops), S.op # "section"
  PROVE  /\ Here \in 1 .. Len(streams) /\ Here # 0 /\ Here \in DOMAIN streams
         /\ streams = [streams EXCEPT ![Here] = streams[Here]]
         /\ Whole(streams[Here])
         /\ Held(prog, Homes, streams[Here].items, cursor - 1, Key(streams[Here]))
         /\ Labeled(prog, Homes, streams[Here].labels, streams[Here].items, cursor - 1, Key(streams[Here]))
<1>1. Streaming(prog, Homes, cursor - 1, streams, Here, DOMAIN labelSection)
  BY ReadingIs
<1>2. PICK T : streams \in Seq(T)
  BY <1>1 DEF Streaming
<1>3. Here \in 1 .. Len(streams)
  BY <1>1 DEF Streaming
<1>4. Here \in DOMAIN streams /\ Here # 0
  BY <1>2, <1>3
<1>5. streams = [streams EXCEPT ![Here] = streams[Here]]
  BY <1>2
<1>6. QED
  BY <1>1, <1>3, <1>4, <1>5 DEF Streaming

\* A statement without item or label changes no stream.
LEMMA StreamsIdle ==
  ASSUME StreamsInv, NEW ops, Accept(ops), S.op # "section", S.op # "label", ~ HasItem(S),
         streams' = streams, current' = current, labelSection' = labelSection
  PROVE  StreamsInv'
<1>1. Here' = Here
  BY DEF Here
<1>2. PICK t : t = streams[Here]
  OBVIOUS
<1>3. PICK m \in Nat : m = cursor - 1 /\ m + 1 = cursor
  BY ReadingIs
<1>4. prog[m + 1] = S
  BY <1>3, ReadingIs
<1>5. Held(prog, Homes, t.items, m + 1, Key(t))
  BY <1>2, <1>3, <1>4, CurrentIs, HeldIdles
<1>6. Labeled(prog, Homes, t.labels, t.items, m + 1, Key(t))
  <2>1. ~ Labels(prog, Homes, m + 1, Key(t))
    BY <1>4 DEF Labels
  <2>2. QED
    BY <1>2, <1>3, <2>1, CurrentIs, LabeledIdles
<1>7. streams' = [streams EXCEPT ![Here] = t] /\ Whole(t)
  BY <1>2, CurrentIs
<1>8. QED
  BY <1>1, <1>2, <1>3, <1>5, <1>6, <1>7, StreamMoves

\* A statement with an item adds it to the current stream.
LEMMA StreamsGrow ==
  ASSUME StreamsInv, NEW ops, Accept(ops), S.op # "section", S.op # "label", HasItem(S),
         Here' = Here, labelSection' = labelSection,
         NEW item, item.line = cursor, NEW align,
         streams' = [streams EXCEPT ![Here] =
                        [streams[Here] EXCEPT !.items = Append(@, item), !.align = align]]
  PROVE  StreamsInv'
<1>1. PICK old : old = streams[Here]
  OBVIOUS
<1>2. PICK t : t = [old EXCEPT !.items = Append(@, item), !.align = align]
  OBVIOUS
<1>3. Whole(old)
  BY <1>1, CurrentIs
<1>4. /\ t = [section |-> old.section, sub |-> old.sub, items |-> Append(old.items, item),
              labels |-> old.labels, order |-> old.order, align |-> align,
              type |-> old.type, flags |-> old.flags]
  BY <1>2, <1>3 DEF Whole
<1>5. /\ Whole(t) /\ Key(t) = Key(old) /\ t.sub = old.sub
      /\ t.items = Append(old.items, item) /\ t.labels = old.labels
  BY <1>4 DEF Whole, Key
<1>6. PICK m \in Nat : m = cursor - 1 /\ m + 1 = cursor
  BY ReadingIs
<1>7. prog[m + 1] = S /\ Homes[m + 1] = Key(old)
  BY <1>1, <1>6, ReadingIs
<1>8. /\ Held(prog, Homes, old.items, m, Key(old))
      /\ Labeled(prog, Homes, old.labels, old.items, m, Key(old))
  BY <1>1, <1>6, CurrentIs
<1>9. Held(prog, Homes, t.items, m + 1, Key(old))
  BY <1>5, <1>6, <1>7, <1>8, HeldGrows
<1>10. Labeled(prog, Homes, t.labels, t.items, m + 1, Key(old))
  BY <1>5, <1>6, <1>7, <1>8, LabeledGrows
<1>11. streams' = [streams EXCEPT ![Here] = t]
  BY <1>1, <1>2
<1>12. QED
  BY <1>1, <1>5, <1>6, <1>9, <1>10, <1>11, StreamMoves

\* A stream with other items and another alignment.
LEMMA GrownIs ==
  ASSUME NEW old, Whole(old), NEW items, NEW align
  PROVE  [old EXCEPT !.items = items, !.align = align] =
            [section |-> old.section, sub |-> old.sub, items |-> items,
             labels |-> old.labels, order |-> old.order, align |-> align,
             type |-> old.type, flags |-> old.flags]
<1>1. PICK t : t = [old EXCEPT !.items = items, !.align = align]
  OBVIOUS
<1>2. t = [section |-> old.section, sub |-> old.sub, items |-> items,
           labels |-> old.labels, order |-> old.order, align |-> align,
           type |-> old.type, flags |-> old.flags]
  BY <1>1 DEF Whole
<1>3. QED
  BY <1>1, <1>2

\* Pushed(item), as a change of the current stream; align is its own.
LEMMA PushedIs ==
  ASSUME StreamsInv, NEW ops, Accept(ops), S.op # "section", NEW item, NEW align
  PROVE  /\ Pushed(item) = [streams EXCEPT ![Here] =
                               [streams[Here] EXCEPT !.items = Append(@, item),
                                                     !.align = streams[Here].align]]
         /\ [Pushed(item) EXCEPT ![Here].align = align] =
               [streams EXCEPT ![Here] =
                   [streams[Here] EXCEPT !.items = Append(@, item), !.align = align]]
         /\ Pushed(item)[Here].align = streams[Here].align
<1>1. PICK old : old = streams[Here]
  OBVIOUS
<1>2. Here \in DOMAIN streams /\ streams = [k \in DOMAIN streams |-> streams[k]] /\ Whole(old)
  BY <1>1, CurrentIs
<1> DEFINE As(a) == [section |-> old.section, sub |-> old.sub, items |-> Append(old.items, item),
                     labels |-> old.labels, order |-> old.order, align |-> a,
                     type |-> old.type, flags |-> old.flags]
<1>3. PICK grown : grown = [old EXCEPT !.items = Append(@, item)]
  OBVIOUS
<1>4. grown = As(old.align)
  BY <1>2, <1>3 DEF Whole
<1>5. Pushed(item) = [streams EXCEPT ![Here] = grown]
  BY <1>1, <1>3 DEF Pushed
<1>6. grown = [old EXCEPT !.items = Append(old.items, item), !.align = old.align]
  BY <1>2, <1>4, GrownIs
<1>7. [grown EXCEPT !.align = align] = [old EXCEPT !.items = Append(old.items, item), !.align = align]
  <2>1. PICK t : t = [grown EXCEPT !.align = align]
    OBVIOUS
  <2>2. t = As(align)
    BY <1>4, <2>1
  <2>3. [old EXCEPT !.items = Append(old.items, item), !.align = align] = As(align)
    BY <1>2, GrownIs
  <2>4. QED
    BY <2>1, <2>2, <2>3, Zenon
<1>8. [Pushed(item) EXCEPT ![Here].align = align] = [streams EXCEPT ![Here] = [grown EXCEPT !.align = align]]
  BY <1>2, <1>5
<1>9. Pushed(item)[Here].align = old.align
  BY <1>2, <1>4, <1>5
<1>10. QED
  BY <1>1, <1>5, <1>6, <1>7, <1>8, <1>9

\* Stmt::Label.
LEMMA LabelKeeps ==
  ASSUME StreamsInv, Label
  PROVE  StreamsInv'
<1>1. Accept({"label"}) /\ S.op = "label" /\ ~ Refused
  BY ReadingIs DEF Label
<1>2. S.name \notin DOMAIN labelSection
  BY <1>1 DEF Refused
<1>3. /\ current' = Here
      /\ labelSection' = Inserted(labelSection, S.name, Here)
  BY DEF Label
<1>4. Here # 0 /\ Here \in DOMAIN streams
  BY <1>1, CurrentIs
<1>5. Here' = Here
  BY <1>3, <1>4 DEF Here
<1>6. PICK old : old = streams[Here]
  OBVIOUS
<1>7. PICK labels : labels = Inserted(old.labels, S.name, Len(old.items) + 1)
  OBVIOUS
<1>8. /\ DOMAIN labels = {S.name} \union DOMAIN old.labels
      /\ labels[S.name] = Len(old.items) + 1
      /\ \A l \in DOMAIN old.labels : l # S.name => labels[l] = old.labels[l]
  BY <1>7 DEF Inserted
<1>9. PICK t : t = [old EXCEPT !.labels = labels, !.order = Append(@, S.name)]
  OBVIOUS
<1>10. streams' = [streams EXCEPT ![Here] = t]
  BY <1>4, <1>6, <1>7, <1>9 DEF Label
<1>11. Whole(old)
  BY <1>1, <1>6, CurrentIs
<1>12. t = [section |-> old.section, sub |-> old.sub, items |-> old.items, labels |-> labels,
            order |-> Append(old.order, S.name), align |-> old.align,
            type |-> old.type, flags |-> old.flags]
  BY <1>9, <1>11 DEF Whole
<1>13. /\ Whole(t) /\ Key(t) = Key(old) /\ t.sub = old.sub
       /\ t.items = old.items /\ t.labels = labels
  BY <1>12 DEF Whole, Key
<1>14. PICK m \in Nat : m = cursor - 1 /\ m + 1 = cursor
  BY <1>1, ReadingIs
<1>15. prog[m + 1] = S /\ Homes[m + 1] = Key(old)
  BY <1>1, <1>6, <1>14, ReadingIs
<1>16. /\ Held(prog, Homes, old.items, m, Key(old))
       /\ Labeled(prog, Homes, old.labels, old.items, m, Key(old))
  BY <1>1, <1>6, <1>14, CurrentIs
<1>17. S.name \notin DOMAIN old.labels
  <2>1. ASSUME S.name \in DOMAIN old.labels
        PROVE  FALSE
    <3>1. PICK p \in 1 .. m : prog[p].op = "label" /\ prog[p].name = S.name
      BY <1>16, <2>1 DEF Labeled, Labels
    <3>2. Streaming(prog, Homes, m, streams, Here, DOMAIN labelSection)
      BY <1>1, <1>14, ReadingIs
    <3>3. QED
      BY <1>2, <3>1, <3>2 DEF Streaming
  <2>2. QED
    BY <2>1
<1>18. Held(prog, Homes, t.items, m + 1, Key(old))
  <2>1. ~ HasItem(prog[m + 1])
    BY <1>1, <1>15 DEF HasItem
  <2>2. QED
    BY <1>13, <1>16, <2>1, HeldIdles
<1>19. Labeled(prog, Homes, t.labels, t.items, m + 1, Key(old))
  <2>1. Labels(prog, Homes, m + 1, Key(old))
    BY <1>1, <1>15 DEF Labels
  <2>2. \A l \in DOMAIN old.labels : labels[l] = old.labels[l]
    BY <1>8, <1>17
  <2>3. QED
    BY <1>8, <1>13, <1>15, <1>16, <1>17, <2>1, <2>2, LabeledMore
<1>20. DOMAIN labelSection \subseteq DOMAIN labelSection' /\ S.name \in DOMAIN labelSection'
  BY <1>3 DEF Inserted
<1>21. QED
  BY <1>1, <1>2, <1>5, <1>6, <1>10, <1>13, <1>14, <1>18, <1>19, <1>20, StreamMoves

\* What needs a section has one then.
LEMMA HereStays ==
  ASSUME StreamsInv, NEW ops, Accept(ops), S.op # "section", current' = Here
  PROVE  Here' = Here
<1>1. Here # 0
  BY CurrentIs
<1>2. QED
  BY <1>1 DEF Here

\* An item at the end of the current stream.
LEMMA ItemKeeps ==
  ASSUME StreamsInv, NEW ops, Accept(ops), S.op # "section", S.op # "label", HasItem(S),
         Here' = Here, labelSection' = labelSection,
         NEW item, item.line = cursor, streams' = Pushed(item)
  PROVE  StreamsInv'
<1>1. PICK align : align = streams[Here].align
  OBVIOUS
<1>2. streams' = [streams EXCEPT ![Here] =
                     [streams[Here] EXCEPT !.items = Append(@, item), !.align = align]]
  BY <1>1, PushedIs
<1>3. QED
  BY <1>2, StreamsGrow

\* Stmt::Data and its like, and instructions.
LEMMA BytesKeeps ==
  ASSUME StreamsInv, Bytes
  PROVE  StreamsInv'
<1>1. Accept({"data", "insn"}) /\ S.op \in {"data", "insn"}
  BY ReadingIs DEF Bytes
<1>2. S.op # "section" /\ S.op # "label" /\ HasItem(S)
  BY <1>1 DEF HasItem
<1>3. Here' = Here
  BY <1>1, <1>2, HereStays DEF Bytes
<1>4. QED
  BY <1>1, <1>2, <1>3, ItemKeeps DEF Bytes

LEMMA BranchKeeps ==
  ASSUME StreamsInv, Branch
  PROVE  StreamsInv'
<1>1. Accept({"branch"}) /\ S.op = "branch"
  BY ReadingIs DEF Branch
<1>2. S.op # "section" /\ S.op # "label" /\ HasItem(S)
  BY <1>1 DEF HasItem
<1>3. Here' = Here
  BY <1>1, <1>2, HereStays DEF Branch
<1>4. QED
  BY <1>1, <1>2, <1>3, ItemKeeps DEF Branch

LEMMA AlignToKeeps ==
  ASSUME StreamsInv, AlignTo
  PROVE  StreamsInv'
<1>1. Accept({"align"}) /\ S.op = "align"
  BY ReadingIs DEF AlignTo
<1>2. S.op # "section" /\ S.op # "label" /\ HasItem(S)
  BY <1>1 DEF HasItem
<1>3. Here' = Here /\ labelSection' = labelSection
  BY <1>1, <1>2, HereStays DEF AlignTo
<1>4. PICK item : item = [kind |-> "align", align |-> S.align, max |-> S.max, line |-> cursor]
  OBVIOUS
<1>5. PICK align :
        streams' = [Pushed(item) EXCEPT ![Here].align = align]
  BY <1>4 DEF AlignTo
<1>6. item.line = cursor
  BY <1>4
<1>7. streams' = [streams EXCEPT ![Here] =
                     [streams[Here] EXCEPT !.items = Append(@, item), !.align = align]]
  BY <1>1, <1>2, <1>5, PushedIs
<1>8. QED
  BY <1>1, <1>2, <1>3, <1>6, <1>7, StreamsGrow

\* .size: with a dot it is an item, and has a section already.
LEMMA SizeKeeps ==
  ASSUME StreamsInv, Size
  PROVE  StreamsInv'
<1>1. Accept({"size"}) /\ S.op = "size" /\ ~ Refused
  BY ReadingIs DEF Size
<1>2. S.op # "section" /\ S.op # "label"
  BY <1>1
<1>3. Here' = Here /\ current' = current /\ labelSection' = labelSection
  BY DEF Size, Here
<1>4. CASE S.size.kind = "dot"
  <2>1. HasItem(S)
    BY <1>1, <1>4 DEF HasItem
  <2>2. PICK item : item = [kind |-> "sizedot", sym |-> S.name, line |-> cursor]
    OBVIOUS
  <2>3. item.line = cursor /\ streams' = Pushed(item)
    BY <1>4, <2>2 DEF Size
  <2>4. QED
    BY <1>1, <1>2, <1>3, <2>1, <2>3, ItemKeeps
<1>5. CASE S.size.kind # "dot"
  <2>1. ~ HasItem(S)
    BY <1>1, <1>5 DEF HasItem
  <2>2. streams' = streams
    BY <1>5 DEF Size
  <2>3. QED
    BY <1>1, <1>2, <1>3, <2>1, <2>2, StreamsIdle
<1>6. QED
  BY <1>4, <1>5

\* The statements that change no stream.
LEMMA OthersKeep ==
  ASSUME StreamsInv, Attribute \/ Type \/ Comm \/ Note
  PROVE  StreamsInv'
<1>1. PICK ops : ops \in {{"attr"}, {"type"}, {"comm"}, {"set", "file"}} /\ Accept(ops)
  BY DEF Attribute, Type, Comm, Note
<1>2. S.op \in {"attr", "type", "comm", "set", "file"}
  BY <1>1, ReadingIs
<1>3. S.op # "section" /\ S.op # "label" /\ ~ HasItem(S)
  BY <1>2 DEF HasItem
<1>4. streams' = streams /\ current' = current /\ labelSection' = labelSection
  BY DEF Attribute, Type, Comm, Note
<1>5. QED
  BY <1>1, <1>3, <1>4, StreamsIdle

\* The stream with a key, or 0: which is the current one then.
LEMMA StreamIndexIs ==
  ASSUME NEW g, NEW h, NEW m, NEW here, NEW known, Streaming(g, h, m, streams, here, known),
         NEW name, NEW sub
  PROVE  \/ /\ StreamIndex(name, sub) \in 1 .. Len(streams)
            /\ Key(streams[StreamIndex(name, sub)]) = [section |-> name, sub |-> sub]
         \/ /\ StreamIndex(name, sub) = 0
            /\ \A k \in 1 .. Len(streams) : Key(streams[k]) # [section |-> name, sub |-> sub]
<1>1. PICK I : I = { k \in 1 .. Len(streams) : streams[k].section = name /\ streams[k].sub = sub }
  OBVIOUS
<1>2. StreamIndex(name, sub) = IF I # {} THEN Min(I) ELSE 0
  BY <1>1, Zenon DEF StreamIndex, SelectInSeq
<1>3. I \in SUBSET Nat
  <2>1. Len(streams) \in Nat
    BY DEF Streaming
  <2>2. QED
    BY <1>1, <2>1
<1>4. CASE I # {}
  <2>1. Min(I) \in I
    BY <1>3, <1>4, MinOfNaturals
  <2>2. QED
    BY <1>1, <1>2, <1>4, <2>1 DEF Key
<1>5. CASE I = {}
  BY <1>1, <1>2, <1>5 DEF Key
<1>6. QED
  BY <1>4, <1>5

\* A new stream is empty.
Begun(t, name, sub) ==
    /\ Whole(t) /\ Key(t) = [section |-> name, sub |-> sub] /\ t.sub = sub
    /\ t.items = <<>> /\ t.labels = <<>>

LEMMA NewStreamIs ==
  ASSUME NEW name, NEW sub
  PROVE  Begun(NewStream(name, sub), name, sub)
<1>1. PICK none, one : none = <<>> /\ one = 1
  OBVIOUS
<1>2. PICK type, flags : type = DefaultType(name) /\ flags = DefaultFlags(name)
  OBVIOUS
<1>3. PICK u : u = NewStream(name, sub)
  OBVIOUS
<1>4. u = [section |-> name, sub |-> sub, items |-> none, labels |-> none, order |-> none,
           align |-> one, type |-> type, flags |-> flags]
  BY <1>1, <1>2, <1>3 DEF NewStream
<1>5. Begun(u, name, sub)
  BY <1>1, <1>4 DEF Begun, Whole, Key
<1>6. QED
  BY <1>3, <1>5

\* ... whatever its type and flags become.
LEMMA TypedStreamIs ==
  ASSUME NEW u, NEW name, NEW sub, Begun(u, name, sub), NEW type, NEW flags
  PROVE  Begun([u EXCEPT !.type = type, !.flags = flags], name, sub)
<1>1. PICK t : t = [u EXCEPT !.type = type, !.flags = flags]
  OBVIOUS
<1>2. t = [section |-> u.section, sub |-> u.sub, items |-> u.items, labels |-> u.labels, order |-> u.order,
           align |-> u.align, type |-> type, flags |-> flags]
  BY <1>1 DEF Begun, Whole
<1>3. Begun(t, name, sub)
  BY <1>2 DEF Begun, Whole, Key
<1>4. QED
  BY <1>1, <1>3

\* Stmt::Section: the stream is there, or is begun.
LEMMA SwitchSectionKeeps ==
  ASSUME StreamsInv, SwitchSection
  PROVE  StreamsInv'
<1>1. Accept({"section"}) /\ S.op = "section"
  BY ReadingIs DEF SwitchSection
<1>2. PICK m \in Nat : m = cursor - 1 /\ m + 1 = cursor
  BY <1>1, ReadingIs
<1>3. PICK ss : ss = streams
  OBVIOUS
<1>4. PICK found : found = StreamIndex(S.name, S.sub)
  OBVIOUS
<1>5. PICK key : key = [section |-> S.name, sub |-> S.sub]
  OBVIOUS
<1>6. /\ Streaming(prog, Homes, m, ss, Here, DOMAIN labelSection)
      /\ Homes[m + 1] = key /\ S.sub \in Int /\ prog[m + 1] = S
      /\ prog' \in Programs /\ cursor' \in 1 .. Len(prog') + 1 /\ cursor' - 1 = m + 1
      /\ prog' = prog /\ Homes' = Homes
  BY <1>1, <1>2, <1>3, <1>5, ReadingIs
<1>7. labelSection' = labelSection
  BY DEF SwitchSection
<1>8. \/ found \in 1 .. Len(ss) /\ Key(ss[found]) = key
      \/ found = 0 /\ \A k \in 1 .. Len(ss) : Key(ss[k]) # key
  BY <1>3, <1>4, <1>5, <1>6, StreamIndexIs
<1>9. PICK T : Len(ss) \in Nat /\ ss \in Seq(T)
  BY <1>6 DEF Streaming
<1>10. CASE found \in 1 .. Len(ss) /\ Key(ss[found]) = key
  <2>1. found # 0
    BY <1>9, <1>10
  <2>2. current' = found /\ streams' = ss
    BY <1>3, <1>4, <2>1 DEF SwitchSection
  <2>3. Here' = found
    BY <2>1, <2>2 DEF Here
  <2>4. PICK t : t = ss[found]
    OBVIOUS
  <2>5. /\ Whole(t) /\ t.sub \in Int
        /\ Held(prog, Homes, t.items, m, Key(t))
        /\ Labeled(prog, Homes, t.labels, t.items, m, Key(t))
    BY <1>6, <1>10, <2>4 DEF Streaming
  <2>6. ~ HasItem(prog[m + 1]) /\ prog[m + 1].op # "label"
    BY <1>1, <1>6 DEF HasItem
  <2>7. Held(prog, Homes, t.items, m + 1, Key(t))
    BY <2>5, <2>6, HeldIdles
  <2>8. Labeled(prog, Homes, t.labels, t.items, m + 1, Key(t))
    BY <2>5, <2>6, LabeledIdles DEF Labels
  <2>9. Streaming(prog, Homes, m + 1, [ss EXCEPT ![found] = t], found, DOMAIN labelSection)
    BY <1>6, <1>10, <2>4, <2>5, <2>6, <2>7, <2>8, StreamChanges
  <2>10. [ss EXCEPT ![found] = t] = ss
    BY <1>9, <1>10, <2>4
  <2>11. Streaming(prog', Homes', cursor' - 1, streams', Here', DOMAIN labelSection')
    BY <1>6, <1>7, <2>2, <2>3, <2>9, <2>10
  <2>12. QED
    BY <1>6, <2>11 DEF StreamsInv
<1>11. CASE found = 0 /\ \A k \in 1 .. Len(ss) : Key(ss[k]) # key
  <2>1. PICK t :
          /\ current' = Len(ss) + 1 /\ streams' = Append(ss, t)
          /\ Begun(t, S.name, S.sub)
    <3>1. PICK u : u = NewStream(S.name, S.sub)
      OBVIOUS
    <3>2. /\ current' = Len(streams) + 1
          /\ streams' = Append(streams, [u EXCEPT !.type = Given(S.type, u.type), !.flags = Given(S.flags, u.flags)])
      BY <1>4, <1>11, <3>1 DEF SwitchSection
    <3>3. Begun(u, S.name, S.sub)
      BY <3>1, NewStreamIs
    <3>4. QED
      BY <1>3, <3>2, <3>3, TypedStreamIs
  <2>3. Whole(t) /\ Key(t) = key /\ t.sub \in Int /\ t.items = <<>> /\ t.labels = <<>>
    BY <1>5, <1>6, <2>1 DEF Begun
  <2>4. Streaming(prog, Homes, m + 1, Append(ss, t), Len(ss) + 1, DOMAIN labelSection)
    BY <1>1, <1>6, <1>11, <2>3, StreamBegins
  <2>5. Here' = Len(ss) + 1
    BY <1>9, <2>1 DEF Here
  <2>6. Streaming(prog', Homes', cursor' - 1, streams', Here', DOMAIN labelSection')
    BY <1>6, <1>7, <2>1, <2>4, <2>5
  <2>7. QED
    BY <1>6, <2>6 DEF StreamsInv
<1>12. QED
  BY <1>8, <1>10, <1>11

\* Before the first statement there are three streams, all empty.
LEMMA StreamsBegin == Init => StreamsInv
<1> SUFFICES ASSUME Init PROVE StreamsInv
  OBVIOUS
<1>1. prog \in Programs /\ phase = "pass1" /\ cursor = 1 /\ current = 0
  BY DEF Init
<1>2. Len(prog) \in Nat
  BY <1>1, ProgramsAssumption
<1>3. cursor \in 1 .. Len(prog) + 1 /\ cursor - 1 = 0 /\ Here = 1
  BY <1>1, <1>2 DEF Here
<1>4. PICK a, b, c : a = NewStream(".text", 0) /\ b = NewStream(".data", 0) /\ c = NewStream(".bss", 0)
  OBVIOUS
<1>5. streams = <<a, b, c>>
  BY <1>4 DEF Init
<1>6. ASSUME NEW name, NEW t, t = NewStream(name, 0)
      PROVE  /\ Whole(t) /\ t.sub \in Int /\ Key(t) = [section |-> name, sub |-> 0]
             /\ t.items = <<>> /\ t.labels = <<>>
  <2>1. Begun(t, name, 0)
    BY <1>6, NewStreamIs
  <2>2. QED
    BY <2>1 DEF Begun
<1>7. /\ Len(streams) = 3 /\ streams[1] = a /\ streams[2] = b /\ streams[3] = c
      /\ streams \in Seq(ToSet(streams))
  <2>1. /\ Len(streams) = 3 /\ streams[1] = a /\ streams[2] = b /\ streams[3] = c
        /\ DOMAIN streams = 1 .. 3 /\ streams \in Seq({a, b, c})
    BY <1>5
  <2>2. \A i \in 1 .. 3 : streams[i] \in ToSet(streams)
    BY <2>1 DEF ToSet
  <2>3. QED
    BY <2>1, <2>2
<1>8. \A k \in 1 .. 3 :
        /\ Whole(streams[k]) /\ streams[k].sub \in Int
        /\ streams[k].items = <<>> /\ streams[k].labels = <<>>
  BY <1>4, <1>6, <1>7
<1>9. /\ Key(streams[1]) = [section |-> ".text", sub |-> 0]
      /\ Key(streams[2]) = [section |-> ".data", sub |-> 0]
      /\ Key(streams[3]) = [section |-> ".bss", sub |-> 0]
  BY <1>4, <1>6, <1>7
<1>10. \A j, k \in 1 .. 3 : Key(streams[j]) = Key(streams[k]) => j = k
  BY <1>9
<1>11. ASSUME NEW k \in 1 .. 3
       PROVE  /\ Held(prog, Homes, streams[k].items, 0, Key(streams[k]))
              /\ Labeled(prog, Homes, streams[k].labels, streams[k].items, 0, Key(streams[k]))
  <2>1. <<>> \in Seq(ToSet(<<>>)) /\ Len(<<>>) = 0 /\ DOMAIN <<>> = {} /\ 1 .. 0 = {}
    OBVIOUS
  <2>2. QED
    BY <1>8, <2>1 DEF Held, Labeled
<1>12. Homes[0] = Key(streams[1])
  <2>1. Homes[0] = Home(0)
    BY <1>2 DEF Homes
  <2>2. QED
    BY <1>1, <1>9, <2>1, HomeIs
<1>13. Streaming(prog, Homes, 0, streams, 1, DOMAIN labelSection)
  <2>1. 1 .. 0 = {} /\ 1 \in 1 .. 3
    OBVIOUS
  <2>2. QED
    BY <1>7, <1>8, <1>10, <1>11, <1>12, <2>1 DEF Streaming
<1>14. QED
  BY <1>1, <1>3, <1>13 DEF StreamsInv

-----------------------------------------------------------------------------
(* The pieces of a section, one after the other.                           *)

\* Statement p is laid before q.
Before(h, p, q) == h[p].sub < h[q].sub \/ (h[p].sub = h[q].sub /\ p < q)

\* The streams of a section, by their numbers.
Pieces(g, h, m, parts, name) ==
    /\ parts \in Seq(ToSet(parts))
    /\ \A q \in 1 .. Len(parts) :
          /\ parts[q].sub \in Int /\ parts[q].section = name
          /\ Held(g, h, parts[q].items, m, Key(parts[q]))
          /\ Labeled(g, h, parts[q].labels, parts[q].items, m, Key(parts[q]))
    /\ \A q, r \in 1 .. Len(parts) : q < r => parts[q].sub < parts[r].sub
    /\ \A p \in 1 .. m : h[p].section = name => \E q \in 1 .. Len(parts) : Key(parts[q]) = h[p]

\* The items of a section are those of its statements, in the order of the
\* streams and the lines, and its labels stand between them.
Ordered(g, h, m, items, labels, name) ==
    /\ items \in Seq(ToSet(items))
    /\ { items[i].line : i \in DOMAIN items } = { p \in 1 .. m : HasItem(g[p]) /\ h[p].section = name }
    /\ \A i, j \in 1 .. Len(items) : i < j => Before(h, items[i].line, items[j].line)
    /\ \A p \in 1 .. m : g[p].op = "label" /\ h[p].section = name =>
          \A i \in 1 .. Len(items) : i < labels[g[p].name] <=> Before(h, items[i].line, p)

\* start: where the items of each piece are.
Joined(parts, items, start) ==
    /\ items \in Seq(ToSet(items)) /\ start \in [1 .. Len(parts) + 1 -> Nat]
    /\ \A q \in 1 .. Len(parts) : \A d \in 1 .. Len(parts[q].items) :
          start[q] + d \in 1 .. Len(items) /\ items[start[q] + d] = parts[q].items[d]
    /\ \A i \in 1 .. Len(items) :
          \E q \in 1 .. Len(parts) : \E d \in 1 .. Len(parts[q].items) : i = start[q] + d
    /\ \A q, r \in 1 .. Len(parts) : q < r => start[q] + Len(parts[q].items) <= start[r]

LEMMA PiecesJoin ==
  ASSUME NEW g, NEW h, NEW m \in Nat, NEW parts, NEW name, Pieces(g, h, m, parts, name), NEW ss,
         ss = [q \in 1 .. Len(parts) |-> parts[q].items]
  PROVE  Joined(parts, FlattenSeq(ss), Starts(ss))
<1>1. PICK n \in Nat : n = Len(parts)
  BY DEF Pieces
<1>2. ss = [q \in 1 .. n |-> parts[q].items]
  BY <1>1
<1>3. PICK T : T = UNION { ToSet(parts[q].items) : q \in 1 .. n }
  OBVIOUS
<1>4. \A q \in 1 .. n : parts[q].items \in Seq(T)
  <2>1. ASSUME NEW q \in 1 .. n PROVE parts[q].items \in Seq(T)
    <3>1. ToSet(parts[q].items) \subseteq T
      BY <1>3
    <3>2. parts[q].items \in Seq(ToSet(parts[q].items))
      BY <1>1 DEF Pieces, Held
    <3>3. QED
      BY <3>1, <3>2
  <2>2. QED
    BY <2>1
<1>5. ss \in Seq(Seq(T)) /\ Len(ss) = n /\ \A q \in 1 .. n : ss[q] = parts[q].items
  BY <1>2, <1>4
<1>6. PICK items, start : items = FlattenSeq(ss) /\ start = Starts(ss)
  OBVIOUS
<1>7. FlattenedAt(start, items, ss, T)
  BY <1>5, <1>6, FlattenPlaces
<1>8. items \in Seq(ToSet(items))
  BY <1>7, OfItsOwn DEF FlattenedAt
<1>9. Joined(parts, items, start)
  BY <1>1, <1>5, <1>7, <1>8 DEF Joined, FlattenedAt
<1>10. QED
  BY <1>6, <1>9

\* Item i is that of piece q at place d.
LiesIn(g, h, m, parts, name, items, start, i, q, d) ==
    /\ i = start[q] + d /\ items[i] = parts[q].items[d] /\ start[q] \in Nat /\ d \in Nat
    /\ items[i].line \in 1 .. m /\ HasItem(g[items[i].line])
    /\ h[items[i].line].section = name /\ h[items[i].line].sub = parts[q].sub
    /\ parts[q].sub \in Int /\ Len(parts[q].items) \in Nat

LEMMA PieceOf ==
  ASSUME NEW g, NEW h, NEW m \in Nat, NEW parts, NEW name, Pieces(g, h, m, parts, name),
         NEW items, NEW start, Joined(parts, items, start), NEW i \in 1 .. Len(items)
  PROVE  \E q \in 1 .. Len(parts) : \E d \in 1 .. Len(parts[q].items) :
            LiesIn(g, h, m, parts, name, items, start, i, q, d)
<1>1. PICK q \in 1 .. Len(parts) : \E d \in 1 .. Len(parts[q].items) : i = start[q] + d
  BY DEF Joined
<1>10. PICK d \in 1 .. Len(parts[q].items) : i = start[q] + d
  BY <1>1
<1>2. items[i] = parts[q].items[d]
  BY <1>10 DEF Joined
<1>3. start[q] \in Nat
  <2>1. Len(parts) \in Nat
    BY DEF Pieces
  <2>2. q \in 1 .. Len(parts) + 1
    BY <2>1
  <2>3. QED
    BY <2>2 DEF Joined
<1>4. Held(g, h, parts[q].items, m, Key(parts[q])) /\ parts[q].sub \in Int /\ parts[q].section = name
  BY DEF Pieces
<1>5. Len(parts[q].items) \in Nat
  BY <1>4 DEF Held
<1>6. items[i].line \in 1 .. m /\ HasItem(g[items[i].line]) /\ h[items[i].line] = Key(parts[q])
  BY <1>10, <1>2, <1>4 DEF Held
<1>7. h[items[i].line].sub = parts[q].sub /\ h[items[i].line].section = name
  BY <1>4, <1>6 DEF Key
<1>8. d \in Nat
  BY <1>10, <1>5
<1>9. LiesIn(g, h, m, parts, name, items, start, i, q, d)
  BY <1>10, <1>2, <1>3, <1>4, <1>5, <1>6, <1>7, <1>8 DEF LiesIn
<1>11. QED
  BY <1>9

\* Two items in one order are so in the other.
LEMMA PiecesRise ==
  ASSUME NEW g, NEW h, NEW m \in Nat, NEW parts, NEW name, Pieces(g, h, m, parts, name),
         NEW items, NEW start, Joined(parts, items, start),
         NEW i \in 1 .. Len(items), NEW j \in 1 .. Len(items), i < j
  PROVE  Before(h, items[i].line, items[j].line)
<1>1. PICK q \in 1 .. Len(parts) : \E d \in 1 .. Len(parts[q].items) :
         LiesIn(g, h, m, parts, name, items, start, i, q, d)
  BY PieceOf
<1>2. PICK d \in 1 .. Len(parts[q].items) :
         LiesIn(g, h, m, parts, name, items, start, i, q, d)
  BY <1>1
<1>3. PICK r \in 1 .. Len(parts) : \E e \in 1 .. Len(parts[r].items) :
         LiesIn(g, h, m, parts, name, items, start, j, r, e)
  BY PieceOf
<1>4. PICK e \in 1 .. Len(parts[r].items) :
         LiesIn(g, h, m, parts, name, items, start, j, r, e)
  BY <1>3
<1>5. Len(parts) \in Nat
  BY DEF Pieces
<1>6. CASE q < r
  <2>1. parts[q].sub < parts[r].sub
    BY <1>6 DEF Pieces
  <2>2. h[items[i].line].sub = parts[q].sub /\ h[items[j].line].sub = parts[r].sub
    BY <1>2, <1>4 DEF LiesIn
  <2>3. h[items[i].line].sub < h[items[j].line].sub
    BY <2>1, <2>2, Zenon
  <2>4. QED
    BY <2>3, Zenon DEF Before
<1>7. CASE r < q
  <2>1. start[r] + Len(parts[r].items) <= start[q]
    BY <1>7 DEF Joined
  <2>2. i = start[q] + d /\ start[q] \in Nat
    BY <1>2 DEF LiesIn
  <2>3. j = start[r] + e /\ start[r] \in Nat /\ Len(parts[r].items) \in Nat
    BY <1>4 DEF LiesIn
  <2>4. QED
    BY <2>1, <2>2, <2>3
<1>8. CASE q = r
  <2>1. d < e
    BY <1>2, <1>4, <1>8 DEF LiesIn
  <2>2. Held(g, h, parts[q].items, m, Key(parts[q]))
    BY DEF Pieces
  <2>3. parts[q].items[d].line < parts[q].items[e].line
    BY <1>8, <2>1, <2>2 DEF Held
  <2>4. QED
    BY <1>2, <1>4, <1>8, <2>3 DEF Before, LiesIn
<1>9. QED
  BY <1>5, <1>6, <1>7, <1>8

\* A label stands behind the items that are before it.
LEMMA PieceLabels ==
  ASSUME NEW g, NEW h, NEW m \in Nat, NEW parts, NEW name, Pieces(g, h, m, parts, name),
         NEW items, NEW start, Joined(parts, items, start), NEW place,
         \A q \in 1 .. Len(parts) : \A l \in DOMAIN parts[q].labels :
             place[l] = start[q] + parts[q].labels[l],
         NEW p \in 1 .. m, g[p].op = "label", h[p].section = name, NEW i \in 1 .. Len(items)
  PROVE  i < place[g[p].name] <=> Before(h, items[i].line, p)
<1>1. PICK r \in 1 .. Len(parts) : Key(parts[r]) = h[p]
  BY DEF Pieces
<1>2. PICK a : a = parts[r].labels[g[p].name]
  OBVIOUS
<1>3. Labeled(g, h, parts[r].labels, parts[r].items, m, Key(parts[r])) /\ parts[r].sub \in Int
  BY DEF Pieces
<1>4. Labels(g, h, p, Key(parts[r]))
  BY <1>1 DEF Labels
<1>5. /\ g[p].name \in DOMAIN parts[r].labels /\ a \in 1 .. Len(parts[r].items) + 1
      /\ \A d \in 1 .. Len(parts[r].items) : d < a <=> parts[r].items[d].line < p
  BY <1>2, <1>3, <1>4 DEF Labeled
<1>6. place[g[p].name] = start[r] + a
  BY <1>2, <1>5 DEF LiesIn
<1>7. h[p].sub = parts[r].sub
  BY <1>1 DEF Key
<1>8. Len(parts) \in Nat
  BY DEF Pieces
<1>9. start[r] \in Nat
  <2>1. r \in 1 .. Len(parts) + 1
    BY <1>8
  <2>2. QED
    BY <2>1 DEF Joined
<1>10. Held(g, h, parts[r].items, m, Key(parts[r]))
  BY DEF Pieces
<1>11. Len(parts[r].items) \in Nat
  BY <1>10 DEF Held
<1>12. a \in Nat /\ 1 <= a /\ a <= Len(parts[r].items) + 1
  BY <1>5, <1>11
<1>13. PICK q \in 1 .. Len(parts) : \E d \in 1 .. Len(parts[q].items) :
         LiesIn(g, h, m, parts, name, items, start, i, q, d)
  BY PieceOf
<1>14. PICK d \in 1 .. Len(parts[q].items) :
         LiesIn(g, h, m, parts, name, items, start, i, q, d)
  BY <1>13
<1>15. CASE q < r
  <2>1. parts[q].sub < parts[r].sub
    BY <1>15 DEF Pieces
  <2>2. start[q] + Len(parts[q].items) <= start[r]
    BY <1>15 DEF Joined
  <2>3. i < start[r] + a
    BY <1>9, <1>12, <1>14, <2>2 DEF LiesIn
  <2>4. QED
    BY <1>6, <1>7, <1>14, <2>1, <2>3 DEF Before, LiesIn
<1>16. CASE r < q
  <2>1. parts[r].sub < parts[q].sub
    BY <1>16 DEF Pieces
  <2>2. start[r] + Len(parts[r].items) <= start[q]
    BY <1>16 DEF Joined
  <2>3. ~ (i < start[r] + a)
    BY <1>9, <1>11, <1>12, <1>14, <2>2 DEF LiesIn
  <2>4. ~ Before(h, items[i].line, p)
    BY <1>3, <1>7, <1>14, <2>1 DEF Before, LiesIn
  <2>5. QED
    BY <1>6, <2>3, <2>4
<1>17. CASE q = r
  <2>1. d < a <=> parts[q].items[d].line < p
    BY <1>5, <1>17
  <2>2. i < start[r] + a <=> d < a
    BY <1>9, <1>12, <1>14, <1>17 DEF LiesIn
  <2>3. Before(h, items[i].line, p) <=> parts[q].items[d].line < p
    BY <1>3, <1>7, <1>14, <1>17 DEF Before, LiesIn
  <2>4. QED
    BY <1>6, <2>1, <2>2, <2>3
<1>18. QED
  BY <1>8, <1>15, <1>16, <1>17

\* The pieces of a section, one after the other.
LEMMA PiecesOrdered ==
  ASSUME NEW g, NEW h, NEW m \in Nat, NEW parts, NEW name, Pieces(g, h, m, parts, name),
         NEW items, NEW start, Joined(parts, items, start), NEW place,
         \A q \in 1 .. Len(parts) : \A l \in DOMAIN parts[q].labels :
             place[l] = start[q] + parts[q].labels[l]
  PROVE  Ordered(g, h, m, items, place, name)
<1>1. items \in Seq(ToSet(items)) /\ DOMAIN items = 1 .. Len(items)
  BY DEF Joined
<1>2. ASSUME NEW i \in 1 .. Len(items)
      PROVE  items[i].line \in 1 .. m /\ HasItem(g[items[i].line]) /\ h[items[i].line].section = name
  BY PieceOf DEF LiesIn
<1>3. ASSUME NEW p \in 1 .. m, HasItem(g[p]), h[p].section = name
      PROVE  \E i \in 1 .. Len(items) : items[i].line = p
  <2>1. PICK q \in 1 .. Len(parts) : Key(parts[q]) = h[p]
    BY <1>3 DEF Pieces
  <2>2. Held(g, h, parts[q].items, m, Key(parts[q]))
    BY DEF Pieces
  <2>3. PICK d \in 1 .. Len(parts[q].items) : parts[q].items[d].line = p
    BY <1>3, <2>1, <2>2 DEF Held
  <2>4. start[q] + d \in 1 .. Len(items) /\ items[start[q] + d] = parts[q].items[d]
    BY DEF Joined
  <2>5. QED
    BY <2>3, <2>4
<1>4. { items[i].line : i \in DOMAIN items } = { p \in 1 .. m : HasItem(g[p]) /\ h[p].section = name }
  <2> HIDE DEF HasItem
  <2>1. QED
    BY <1>1, <1>2, <1>3 DEF LiesIn
<1>5. \A i, j \in 1 .. Len(items) : i < j => Before(h, items[i].line, items[j].line)
  BY PiecesRise
<1>6. \A p \in 1 .. m : g[p].op = "label" /\ h[p].section = name =>
        \A i \in 1 .. Len(items) : i < place[g[p].name] <=> Before(h, items[i].line, p)
  BY PieceLabels
<1>7. QED
  BY <1>1, <1>4, <1>5, <1>6 DEF Ordered

-----------------------------------------------------------------------------
(* What merge_subsections makes of the streams.                            *)

\* The streams of a section, each once, by their numbers.
LEMMA PartsAre ==
  ASSUME NEW g, NEW h, NEW m, NEW here, NEW known, Streaming(g, h, m, streams, here, known), NEW name
  PROVE  /\ StreamsOf(name) \in Seq(1 .. Len(streams))
         /\ \A q \in 1 .. Len(StreamsOf(name)) : streams[StreamsOf(name)[q]].section = name
         /\ \A k \in 1 .. Len(streams) : streams[k].section = name =>
               \E q \in 1 .. Len(StreamsOf(name)) : StreamsOf(name)[q] = k
         /\ \A q, r \in 1 .. Len(StreamsOf(name)) :
               q < r => streams[StreamsOf(name)[q]].sub < streams[StreamsOf(name)[r]].sub
<1>1. PICK n \in Nat : n = Len(streams) /\ DOMAIN streams = 1 .. n
  BY DEF Streaming
<1>2. \A k \in 1 .. n : streams[k].sub \in Int
  BY <1>1 DEF Streaming
<1>3. \A j, k \in 1 .. n : streams[j].section = streams[k].section /\ streams[j].sub = streams[k].sub => j = k
  BY <1>1 DEF Streaming, Key
<1>4. PICK all : all = [k \in DOMAIN streams |-> k]
  OBVIOUS
<1>5. all \in Seq(1 .. n) /\ Len(all) = n /\ \A k \in 1 .. n : all[k] = k
  BY <1>1, <1>4
<1>6. PICK sel : sel = { k \in DOMAIN streams : streams[k].section = name }
  OBVIOUS
<1>7. PICK s : s = StreamsIn(name)
  OBVIOUS
<1>8. s = Those(all, sel)
  BY <1>4, <1>6, <1>7 DEF StreamsIn
<1>9. /\ s \in Seq(1 .. n) /\ ToSet(s) = ToSet(all) \intersect sel
      /\ \A i, j \in 1 .. Len(s) : s[i] = s[j] => i = j
  <2>1. \A i, j \in 1 .. Len(all) : all[i] = all[j] => i = j
    BY <1>5
  <2>2. QED
    BY <1>5, <1>8, <2>1, ThoseContains
<1>10. ToSet(s) = sel
  <2>1. ToSet(all) = 1 .. n
    BY <1>5 DEF ToSet
  <2>2. QED
    BY <1>1, <1>6, <1>9, <2>1
<1>11. \A i \in 1 .. Len(s) : s[i] \in sel
  BY <1>9, <1>10 DEF ToSet
<1>12. \A k \in sel : \E i \in 1 .. Len(s) : s[i] = k
  BY <1>9, <1>10 DEF ToSet
<1>13. PICK behind : behind = { jk \in (DOMAIN streams) \X (DOMAIN streams) : streams[jk[1]].sub > streams[jk[2]].sub }
  OBVIOUS
<1>14. PICK key : key = [k \in 1 .. n |-> streams[k].sub]
  OBVIOUS
<1>15. key \in [1 .. n -> Int] /\ \A k \in 1 .. n : key[k] = streams[k].sub
  BY <1>2, <1>14
<1>16. AgreesWith(behind, key, 1 .. n)
  <2>1. \A a, b \in 1 .. n : <<a, b>> \in behind <=> streams[a].sub > streams[b].sub
    BY <1>1, <1>13
  <2>2. ASSUME NEW a \in 1 .. n, NEW b \in 1 .. n
        PROVE  /\ key[a] > key[b] => <<a, b>> \in behind
               /\ <<a, b>> \in behind => key[a] >= key[b]
    <3>1. PICK x \in Int, y \in Int : x = streams[a].sub /\ y = streams[b].sub
      BY <1>2
    <3>2. key[a] = x /\ key[b] = y /\ (<<a, b>> \in behind <=> x > y)
      BY <1>15, <2>1, <3>1
    <3>3. x > y => x >= y
      OBVIOUS
    <3>4. QED
      BY <3>2, <3>3
  <2>3. QED
    BY <2>2 DEF AgreesWith
<1>17. PICK t : t = StreamsOf(name)
  OBVIOUS
<1>18. t = Sorted(s, behind)
  BY <1>7, <1>13, <1>17 DEF StreamsOf
<1>19. t \in Seq(1 .. n) /\ \E p : Arranged(p, Len(s), s, t, behind, key)
  BY <1>9, <1>15, <1>16, <1>18, SortedIs
<1>20. PICK p : Arranged(p, Len(s), s, t, behind, key)
  BY <1>19
<1>21. /\ Len(t) = Len(s) /\ p \in [1 .. Len(s) -> 1 .. Len(s)] /\ Arranges(p, Len(s))
       /\ \A i \in 1 .. Len(s) : t[i] = s[p[i]]
       /\ \A i, j \in 1 .. Len(s) : i < j => key[t[i]] <= key[t[j]]
       /\ \A i, j \in 1 .. Len(s) : p[i] = p[j] => i = j
  BY <1>20 DEF Arranged, Arranges
<1>22. \A i \in 1 .. Len(t) : t[i] \in sel /\ t[i] \in 1 .. n
  <2>1. ASSUME NEW i \in 1 .. Len(t)
        PROVE  t[i] \in sel
    <3>1. i \in 1 .. Len(s) /\ p[i] \in 1 .. Len(s) /\ t[i] = s[p[i]]
      BY <1>21
    <3>2. QED
      BY <1>11, <3>1
  <2>2. QED
    BY <1>1, <1>6, <2>1
<1>23. ASSUME NEW k \in 1 .. n, streams[k].section = name
       PROVE  \E q \in 1 .. Len(t) : t[q] = k
  <2>1. k \in sel
    BY <1>1, <1>6, <1>23
  <2>2. PICK i \in 1 .. Len(s) : s[i] = k
    BY <1>12, <2>1
  <2>3. Len(s) \in Nat
    BY <1>9
  <2>4. PICK q \in 1 .. Len(s) : p[q] = i
    <3>1. Arranges(p, Len(s))
      BY <1>21
    <3>2. QED
      BY <2>2, <2>3, <3>1, ArrangesAll
  <2>5. QED
    BY <1>21, <2>2, <2>4
<1>24. ASSUME NEW q \in 1 .. Len(t), NEW r \in 1 .. Len(t), q < r
       PROVE  streams[t[q]].sub < streams[t[r]].sub
  <2>1. Len(s) \in Nat /\ q # r
    BY <1>9, <1>19, <1>24
  <2>2. t[q] # t[r]
    <3>1. /\ q \in 1 .. Len(s) /\ r \in 1 .. Len(s)
          /\ p[q] \in 1 .. Len(s) /\ p[r] \in 1 .. Len(s) /\ p[q] # p[r]
          /\ t[q] = s[p[q]] /\ t[r] = s[p[r]]
      BY <1>21, <2>1
    <3>2. QED
      BY <1>9, <3>1
  <2>3. streams[t[q]].sub <= streams[t[r]].sub
    BY <1>15, <1>21, <1>22, <1>24
  <2>4. streams[t[q]].sub # streams[t[r]].sub
    BY <1>3, <1>6, <1>22, <2>2
  <2>5. QED
    BY <1>2, <1>22, <2>3, <2>4
<1>25. \A q \in 1 .. Len(t) : streams[t[q]].section = name
  BY <1>6, <1>22
<1>26. QED
  BY <1>1, <1>17, <1>19, <1>23, <1>24, <1>25

\* So they are the pieces of the section.
LEMMA PartsPieces ==
  ASSUME NEW g, NEW h, NEW m, NEW here, NEW known, Streaming(g, h, m, streams, here, known), NEW name,
         NEW parts, parts = [q \in 1 .. Len(StreamsOf(name)) |-> streams[StreamsOf(name)[q]]]
  PROVE  Pieces(g, h, m, parts, name) /\ Len(parts) = Len(StreamsOf(name))
<1>1. PICK t : t = StreamsOf(name)
  OBVIOUS
<1>2. PICK n \in Nat : n = Len(t)
  BY <1>1, PartsAre
<1>3. /\ t \in Seq(1 .. Len(streams))
      /\ \A q \in 1 .. n : streams[t[q]].section = name
      /\ \A k \in 1 .. Len(streams) : streams[k].section = name => \E q \in 1 .. n : t[q] = k
      /\ \A q, r \in 1 .. n : q < r => streams[t[q]].sub < streams[t[r]].sub
  BY <1>1, <1>2, PartsAre
<1>4. parts = [q \in 1 .. n |-> streams[t[q]]]
  BY <1>1, <1>2
<1>5. \A q \in 1 .. n : t[q] \in 1 .. Len(streams) /\ parts[q] = streams[t[q]]
  BY <1>2, <1>3, <1>4
<1>6. PICK T : streams \in Seq(T)
  BY DEF Streaming
<1>7. parts \in Seq(T) /\ Len(parts) = n
  <2>1. \A k \in 1 .. Len(streams) : streams[k] \in T
    BY <1>6
  <2>2. \A q \in 1 .. n : parts[q] \in T
    BY <1>5, <2>1
  <2>3. QED
    BY <1>4, <2>2
<1>8. parts \in Seq(ToSet(parts))
  BY <1>7, OfItsOwn
<1>9. ASSUME NEW q \in 1 .. n
      PROVE  /\ parts[q].sub \in Int /\ parts[q].section = name
             /\ Held(g, h, parts[q].items, m, Key(parts[q]))
             /\ Labeled(g, h, parts[q].labels, parts[q].items, m, Key(parts[q]))
  BY <1>3, <1>5 DEF Streaming
<1>10. ASSUME NEW p \in 1 .. m, h[p].section = name
       PROVE  \E q \in 1 .. n : Key(parts[q]) = h[p]
  <2>1. PICK k \in 1 .. Len(streams) : Key(streams[k]) = h[p]
    BY DEF Streaming
  <2>2. streams[k].section = name
    BY <1>10, <2>1 DEF Key
  <2>3. PICK q \in 1 .. n : t[q] = k
    BY <1>3, <2>2
  <2>4. QED
    BY <1>5, <2>1, <2>3
<1>11. \A q, r \in 1 .. n : q < r => parts[q].sub < parts[r].sub
  BY <1>3, <1>5
<1>12. QED
  BY <1>1, <1>2, <1>7, <1>8, <1>9, <1>10, <1>11 DEF Pieces

\* It is a record with these fields.
WholeSection(s) ==
    s = [name |-> s.name, items |-> s.items, labels |-> s.labels, order |-> s.order,
         align |-> s.align, nobits |-> s.nobits]

\* A label is of one piece only.
LEMMA PieceIsOne ==
  ASSUME NEW g, NEW h, NEW m \in Nat, NEW parts, NEW name, Pieces(g, h, m, parts, name),
         \A p, q \in 1 .. m :
             g[p].op = "label" /\ g[q].op = "label" /\ g[p].name = g[q].name => p = q,
         NEW q \in 1 .. Len(parts), NEW r \in 1 .. Len(parts), NEW l,
         l \in DOMAIN parts[q].labels, l \in DOMAIN parts[r].labels
  PROVE  q = r
<1>1. PICK a \in 1 .. m : Labels(g, h, a, Key(parts[q])) /\ g[a].name = l
  BY DEF Pieces, Labeled
<1>2. PICK b \in 1 .. m : Labels(g, h, b, Key(parts[r])) /\ g[b].name = l
  BY DEF Pieces, Labeled
<1>3. a = b
  BY <1>1, <1>2 DEF Labels
<1>4. Key(parts[q]) = Key(parts[r])
  BY <1>1, <1>2, <1>3 DEF Labels
<1>5. parts[q].sub = parts[r].sub
  BY <1>4 DEF Key
<1>6. Len(parts) \in Nat /\ parts[q].sub \in Int /\ parts[r].sub \in Int
  BY DEF Pieces
<1>7. ~ (q < r) /\ ~ (r < q)
  BY <1>5, <1>6 DEF Pieces
<1>8. QED
  BY <1>6, <1>7

\* What merge_subsections makes of the streams of a section.
LEMMA MergedIs ==
  ASSUME NEW g, NEW h, NEW m \in Nat, NEW here, NEW known, Streaming(g, h, m, streams, here, known),
         NEW name
  PROVE  /\ WholeSection(Merged(name)) /\ Merged(name).name = name
         /\ Ordered(g, h, m, Merged(name).items, Merged(name).labels, name)
<1> DEFINE t == StreamsOf(name)
<1>1. t = StreamsOf(name)
  OBVIOUS
<1>2. PICK n \in Nat : n = Len(t) /\ DOMAIN t = 1 .. n
  BY PartsAre
<1> HIDE DEF t
<1>3. PICK parts : parts = [q \in 1 .. n |-> streams[t[q]]]
  OBVIOUS
<1>4. Pieces(g, h, m, parts, name) /\ Len(parts) = n
  BY <1>1, <1>2, <1>3, PartsPieces
<1>5. PICK ss : ss = [q \in 1 .. n |-> parts[q].items]
  OBVIOUS
<1>6. PICK start : start = Starts(ss)
  OBVIOUS
<1>7. Joined(parts, FlattenSeq(ss), start)
  BY <1>4, <1>5, <1>6, PiecesJoin
<1>8. \A q \in 1 .. n : parts[q] = streams[t[q]] /\ ss[q] = streams[t[q]].items
  BY <1>3, <1>5
<1>9. PICK sec : sec = Merged(name)
  OBVIOUS
<1>10. PICK ItemsOf : ItemsOf = [c \in 0 .. n |-> FlattenSeq([i \in 1 .. c |-> streams[t[i]].items])]
  OBVIOUS
<1>11. \A c \in 0 .. n : ItemsOf[c] = FlattenSeq(Beginning(ss, c))
  <2>1. ASSUME NEW c \in 0 .. n
        PROVE  [i \in 1 .. c |-> streams[t[i]].items] = Beginning(ss, c)
    <3>1. \A i \in 1 .. c : i \in 1 .. n
      OBVIOUS
    <3>2. QED
      BY <1>8, <3>1 DEF Beginning
  <2>2. QED
    BY <1>10, <2>1
<1>12. ItemsOf[n] = FlattenSeq(ss)
  <2>1. Beginning(ss, n) = ss
    BY <1>5 DEF Beginning
  <2>2. QED
    BY <1>11, <2>1
<1>13. \A q \in 1 .. n : start[q] = Len(ItemsOf[q - 1])
  <2>1. Len(ss) = n
    BY <1>5
  <2>2. ASSUME NEW q \in 1 .. n
        PROVE  start[q] = Len(ItemsOf[q - 1])
    <3>1. q \in 1 .. Len(ss) + 1 /\ q - 1 \in 0 .. n
      BY <2>1
    <3>2. QED
      BY <1>6, <1>11, <3>1 DEF Starts
  <2>3. QED
    BY <2>2
<1>14. WholeSection(sec) /\ sec.name = name
  BY <1>9 DEF Merged, WholeSection
<1>15. sec.items = FlattenSeq([i \in 1 .. Len(t) |-> streams[t[i]].items])
  BY <1>1, <1>9 DEF Merged
<1>16. sec.items = FlattenSeq(ss)
  <2>1. n \in 0 .. n
    OBVIOUS
  <2>2. QED
    BY <1>2, <1>10, <1>12, <1>15, <2>1
<1> DEFINE Part(l) == CHOOSE i \in DOMAIN t : l \in DOMAIN streams[t[i]].labels
<1>17. sec.labels = [l \in UNION { DOMAIN streams[t[i]].labels : i \in DOMAIN t } |->
                        Len(FlattenSeq([i \in 1 .. Part(l) - 1 |-> streams[t[i]].items]))
                            + streams[t[Part(l)]].labels[l]]
  <2>1. Merged(name).labels =
           [l \in UNION { DOMAIN streams[StreamsOf(name)[i]].labels : i \in DOMAIN StreamsOf(name) } |->
               Len(FlattenSeq([i \in 1 .. (CHOOSE i \in DOMAIN StreamsOf(name) :
                                              l \in DOMAIN streams[StreamsOf(name)[i]].labels) - 1 |->
                                  streams[StreamsOf(name)[i]].items]))
                   + streams[StreamsOf(name)[CHOOSE i \in DOMAIN StreamsOf(name) :
                                 l \in DOMAIN streams[StreamsOf(name)[i]].labels]].labels[l]]
    BY DEF Merged
  <2>2. QED
    BY <1>9, <2>1 DEF t
<1>18. ASSUME NEW q \in 1 .. n, NEW l \in DOMAIN parts[q].labels
       PROVE  sec.labels[l] = start[q] + parts[q].labels[l]
  <2>1. l \in DOMAIN streams[t[q]].labels
    BY <1>8
  <2>2. Part(l) \in 1 .. n /\ l \in DOMAIN streams[t[Part(l)]].labels
    BY <1>2, <2>1
  <2> HIDE DEF Part
  <2>3. PICK r \in 1 .. n : r = Part(l)
    BY <2>2
  <2>4. \A a, b \in 1 .. m :
          g[a].op = "label" /\ g[b].op = "label" /\ g[a].name = g[b].name => a = b
    BY DEF Streaming
  <2>5. r = q
    BY <1>4, <1>8, <2>2, <2>3, <2>4, PieceIsOne
  <2>6. l \in UNION { DOMAIN streams[t[i]].labels : i \in DOMAIN t }
    BY <1>2, <2>1
  <2>7. sec.labels[l] = Len(FlattenSeq([i \in 1 .. q - 1 |-> streams[t[i]].items])) + streams[t[q]].labels[l]
    BY <1>17, <2>3, <2>5, <2>6
  <2>8. q - 1 \in 0 .. n
    OBVIOUS
  <2>9. QED
    BY <1>8, <1>10, <1>13, <2>7, <2>8
<1>19. Ordered(g, h, m, sec.items, sec.labels, name)
  BY <1>4, <1>7, <1>16, <1>18, PiecesOrdered
<1>20. QED
  BY <1>9, <1>14, <1>19

\* Every statement's section is there, and in order.
Sectioned(g, h, ss) ==
    /\ ss \in Seq(ToSet(ss)) /\ Len(g) \in Nat
    /\ \A k \in 1 .. Len(ss) :
          WholeSection(ss[k]) /\ Ordered(g, h, Len(g), ss[k].items, ss[k].labels, ss[k].name)
    /\ \A j, k \in 1 .. Len(ss) : ss[j].name = ss[k].name => j = k
    /\ \A p \in 1 .. Len(g) : \E k \in 1 .. Len(ss) : ss[k].name = h[p].section

\* What holds after the merge, whatever becomes of it.
MergedInv ==
    phase \notin {"pass1", "failed"} => prog \in Programs /\ Sectioned(prog, Homes, secs)

\* merge_subsections makes it so.
LEMMA MergeSections ==
  ASSUME StreamsInv, Merge
  PROVE  MergedInv'
<1>1. /\ prog \in Programs /\ prog' = prog /\ cursor = Len(prog) + 1
      /\ Streaming(prog, Homes, cursor - 1, streams, Here, DOMAIN labelSection)
  BY DEF StreamsInv, Merge
<1>2. PICK m \in Nat : m = Len(prog) /\ cursor - 1 = m
  BY <1>1, ProgramsAssumption
<1>3. Streaming(prog, Homes, m, streams, Here, DOMAIN labelSection)
  BY <1>1, <1>2
<1>4. Homes' = Homes
  BY <1>1, HomesStay
<1>5. PICK n \in Nat : n = Len(streams) /\ DOMAIN streams = 1 .. n
  BY <1>3 DEF Streaming
<1>6. PICK T : streams \in Seq(T)
  BY <1>3 DEF Streaming
<1>7. PICK all : all = [k \in DOMAIN streams |-> streams[k].section]
  OBVIOUS
<1>8. PICK C : C = { streams[k].section : k \in 1 .. n }
  OBVIOUS
<1>9. all \in Seq(C) /\ Len(all) = n /\ \A k \in 1 .. n : all[k] = streams[k].section
  BY <1>5, <1>7, <1>8
<1>10. PICK names : names = SectionOrder
  OBVIOUS
<1>11. /\ names \in Seq(C) /\ ToSet(names) = ToSet(all)
       /\ \A i, j \in 1 .. Len(names) : names[i] = names[j] => i = j
  <2>1. names = Distinct(all)
    BY <1>7, <1>10 DEF SectionOrder
  <2>2. QED
    BY <1>9, <2>1, DistinctIs
<1>12. PICK c \in Nat : c = Len(names) /\ DOMAIN names = 1 .. c
  BY <1>11
<1>13. secs' = [i \in 1 .. c |-> Merged(names[i])]
  BY <1>10, <1>12 DEF Merge
<1>14. PICK ss : ss = secs'
  OBVIOUS
<1>15. ss = [i \in 1 .. c |-> Merged(names[i])]
  BY <1>13, <1>14
<1>16. ASSUME NEW k \in 1 .. c
       PROVE  /\ WholeSection(ss[k]) /\ ss[k].name = names[k]
              /\ Ordered(prog, Homes, m, ss[k].items, ss[k].labels, ss[k].name)
  <2>1. ss[k] = Merged(names[k])
    BY <1>15
  <2>2. /\ WholeSection(Merged(names[k])) /\ Merged(names[k]).name = names[k]
        /\ Ordered(prog, Homes, m, Merged(names[k]).items, Merged(names[k]).labels, names[k])
    BY <1>3, MergedIs
  <2>3. QED
    BY <2>1, <2>2
<1>17. ss \in Seq(ToSet(ss)) /\ Len(ss) = c
  <2>1. PICK D : D = { Merged(names[i]) : i \in 1 .. c }
    OBVIOUS
  <2>2. ss \in Seq(D) /\ Len(ss) = c
    BY <1>15, <2>1
  <2>3. QED
    BY <2>2, OfItsOwn
<1>18. \A j, k \in 1 .. c : ss[j].name = ss[k].name => j = k
  BY <1>11, <1>12, <1>16
<1>19. ASSUME NEW p \in 1 .. m
       PROVE  \E k \in 1 .. c : ss[k].name = Homes[p].section
  <2>1. PICK s \in 1 .. n : Key(streams[s]) = Homes[p]
    BY <1>3, <1>5 DEF Streaming
  <2>2. streams[s].section = Homes[p].section
    BY <2>1 DEF Key
  <2>3. Homes[p].section \in ToSet(all)
    BY <1>9, <2>2 DEF ToSet
  <2>4. PICK k \in 1 .. c : names[k] = Homes[p].section
    <3>1. Homes[p].section \in ToSet(names)
      BY <1>11, <2>3
    <3>2. \A x \in ToSet(names) : \E k \in 1 .. c : names[k] = x
      BY <1>12 DEF ToSet
    <3>3. QED
      BY <3>1, <3>2
  <2>5. QED
    BY <1>16, <2>4
<1>20. Sectioned(prog, Homes, ss)
  BY <1>2, <1>16, <1>17, <1>18, <1>19 DEF Sectioned
<1>21. prog' \in Programs /\ Sectioned(prog', Homes', secs')
  BY <1>1, <1>4, <1>14, <1>20
<1>22. QED
  BY <1>21 DEF MergedInv

\* What does not change names, items and labels does not change it.
LEMMA SectionedStays ==
  ASSUME NEW g, NEW h, NEW ss, Sectioned(g, h, ss), NEW new, NEW T, new \in Seq(T), Len(new) = Len(ss),
         \A k \in 1 .. Len(ss) : /\ WholeSection(new[k]) /\ new[k].name = ss[k].name
                                 /\ new[k].items = ss[k].items /\ new[k].labels = ss[k].labels
  PROVE  Sectioned(g, h, new)
<1>1. new \in Seq(ToSet(new))
  BY OfItsOwn
<1>2. ASSUME NEW k \in 1 .. Len(ss)
      PROVE  WholeSection(new[k]) /\ Ordered(g, h, Len(g), new[k].items, new[k].labels, new[k].name)
  <2>1. Ordered(g, h, Len(g), ss[k].items, ss[k].labels, ss[k].name)
    BY DEF Sectioned
  <2>2. QED
    BY <2>1
<1>3. \A j, k \in 1 .. Len(ss) : new[j].name = new[k].name => j = k
  BY DEF Sectioned
<1>4. \A p \in 1 .. Len(g) : \E k \in 1 .. Len(ss) : new[k].name = h[p].section
  BY DEF Sectioned
<1>5. QED
  BY <1>1, <1>2, <1>3, <1>4 DEF Sectioned

\* A section with another order of labels, or another alignment.
LEMMA SectionedMore ==
  ASSUME NEW g, NEW h, NEW ss, Sectioned(g, h, ss), NEW sec, NEW v, NEW new,
         \/ new = [ss EXCEPT ![sec].order = v]
         \/ new = [ss EXCEPT ![sec].align = v]
  PROVE  Sectioned(g, h, new)
<1>1. PICK T : ss \in Seq(T) /\ Len(ss) \in Nat
  BY DEF Sectioned
<1>2. PICK n \in Nat : n = Len(ss) /\ DOMAIN ss = 1 .. n
  BY <1>1
<1>3. DOMAIN new = 1 .. n /\ new = [k \in 1 .. n |-> new[k]]
  BY <1>2
<1>4. ASSUME NEW k \in 1 .. n
      PROVE  /\ WholeSection(new[k]) /\ new[k].name = ss[k].name
             /\ new[k].items = ss[k].items /\ new[k].labels = ss[k].labels
  <2>1. PICK old : old = ss[k] /\ WholeSection(old)
    BY <1>2 DEF Sectioned
  <2>2. CASE k # sec
    BY <1>2, <2>1, <2>2
  <2>3. CASE k = sec
    <3>1. PICK t : t = new[k] /\ (t = [old EXCEPT !.order = v] \/ t = [old EXCEPT !.align = v])
      BY <1>2, <2>1, <2>3
    <3>2. CASE t = [old EXCEPT !.order = v]
      <4>1. t = [name |-> old.name, items |-> old.items, labels |-> old.labels, order |-> v,
                 align |-> old.align, nobits |-> old.nobits]
        BY <2>1, <3>2 DEF WholeSection
      <4>2. QED
        BY <2>1, <3>1, <4>1 DEF WholeSection
    <3>3. CASE t = [old EXCEPT !.align = v]
      <4>1. t = [name |-> old.name, items |-> old.items, labels |-> old.labels, order |-> old.order,
                 align |-> v, nobits |-> old.nobits]
        BY <2>1, <3>3 DEF WholeSection
      <4>2. QED
        BY <2>1, <3>1, <4>1 DEF WholeSection
    <3>4. QED
      BY <3>1, <3>2, <3>3
  <2>4. QED
    BY <2>2, <2>3
<1>5. PICK D : D = { new[k] : k \in 1 .. n }
  OBVIOUS
<1>6. new \in Seq(D) /\ Len(new) = n
  BY <1>3, <1>5
<1>7. QED
  BY <1>2, <1>4, <1>6, SectionedStays

-----------------------------------------------------------------------------
(* The steps after it, and the theorem.                                    *)

\* What the steps after pass 1 leave: the program, and of the sections all but
\* an order or an alignment.
LaterStep ==
    /\ phase \notin {"pass1", "failed"} /\ phase' # "pass1" /\ prog' = prog
    /\ \/ secs' = secs
       \/ \E sec, v : \/ secs' = [secs EXCEPT ![sec].order = v]
                      \/ secs' = [secs EXCEPT ![sec].align = v]

LEMMA LayOutLater == ASSUME LayOut PROVE LaterStep
<1>1. CASE MeasureAndGrow
  BY <1>1 DEF MeasureAndGrow, Relaxing, source, LaterStep
<1>2. CASE FixLabels
  BY <1>2 DEF FixLabels, Relaxing, source, LaterStep
<1>3. CASE EmitBytes
  BY <1>3 DEF EmitBytes, Relaxing, source, LaterStep
<1>4. CASE EmitFails
  BY <1>4 DEF EmitFails, source, layout, LaterStep
<1>5. CASE EmitExternal
  BY <1>5 DEF EmitExternal, Relaxing, source, LaterStep
<1>6. CASE EmitSizeDot
  BY <1>6 DEF EmitSizeDot, Relaxing, source, LaterStep
<1>7. CASE NextSection
  BY <1>7 DEF NextSection, source, LaterStep
<1>8. CASE RelaxFails
  BY <1>8 DEF RelaxFails, source, layout, LaterStep
<1>9. QED
  BY <1>1, <1>2, <1>3, <1>4, <1>5, <1>6, <1>7, <1>8 DEF LayOut

LEMMA DefineLater == ASSUME Define PROVE LaterStep
<1>1. CASE ResolveAlias
  <2>1. PICK sec, v : secs' = [secs EXCEPT ![sec].order = v]
    <3>1. secs' = [secs EXCEPT ![Holding(Alias.target)].order =
                      Append(secs[Holding(Alias.target)].order, Alias.name)]
      BY <1>1 DEF ResolveAlias
    <3>2. QED
      BY <3>1
  <2>2. QED
    BY <1>1, <2>1 DEF ResolveAlias, LaterStep
<1>2. CASE AliasFails
  BY <1>2 DEF AliasFails, source, layout, LaterStep
<1>3. CASE AliasesDone
  BY <1>3 DEF AliasesDone, source, layout, LaterStep
<1>4. CASE AllocateCommon
  <2>1. PICK sec, v : secs' = [secs EXCEPT ![sec].align = v]
    <3>1. PICK b : b = BssSection
      OBVIOUS
    <3>2. PICK a : a = LocalAlign(commons[cursor])
      OBVIOUS
    <3>3. secs' = [secs EXCEPT ![b].align = IF a > secs[b].align THEN a ELSE secs[b].align]
      BY <1>4, <3>1, <3>2 DEF AllocateCommon
    <3>4. QED
      BY <3>3
  <2>2. QED
    BY <1>4, <2>1 DEF AllocateCommon, AtCommon, source, LaterStep
<1>5. CASE AllocateFails \/ SkipCommon
  BY <1>5 DEF AllocateFails, SkipCommon, AtCommon, source, layout, LaterStep
<1>6. CASE CommonsDone \/ LabelsDone \/ LocalsDone \/ GlobalsDone \/ UndefinedDone
  BY <1>6 DEF CommonsDone, LabelsDone, LocalsDone, GlobalsDone, UndefinedDone, Turn, source, layout, LaterStep
<1>7. CASE AddLabel \/ AddLocalCommon \/ AddGlobalCommon \/ AddUndefined
  BY <1>7 DEF AddLabel, AddLocalCommon, AddGlobalCommon, AddUndefined, Step, source, layout, LaterStep
<1>8. CASE LabelFails \/ UndefinedFails
  BY <1>8 DEF LabelFails, UndefinedFails, source, layout, LaterStep
<1>9. CASE Files
  BY <1>9 DEF Files, source, layout, LaterStep
<1>10. QED
  BY <1>1, <1>2, <1>3, <1>4, <1>5, <1>6, <1>7, <1>8, <1>9 DEF Define

LEMMA ResolveLater == ASSUME Resolve PROVE LaterStep
<1>1. CASE PatchInPlace
  BY <1>1 DEF PatchInPlace, AtReloc, source, layout, LaterStep
<1>2. CASE RelocateToSection
  BY <1>2 DEF RelocateToSection, Relocate, AtReloc, source, layout, LaterStep
<1>3. CASE RelocateToSymbol
  BY <1>3 DEF RelocateToSymbol, Relocate, AtReloc, source, layout, LaterStep
<1>4. CASE RelocateToUndefined
  BY <1>4 DEF RelocateToUndefined, Relocate, AtReloc, source, layout, LaterStep
<1>5. CASE RelocationFails \/ Finish
  BY <1>5 DEF RelocationFails, Finish, AtReloc, source, layout, LaterStep
<1>6. QED
  BY <1>1, <1>2, <1>3, <1>4, <1>5 DEF Resolve

\* Both invariants are kept by every step.
LEMMA LaterKeeps ==
  ASSUME MergedInv, LaterStep
  PROVE  StreamsInv' /\ MergedInv'
<1>1. StreamsInv'
  BY DEF LaterStep, StreamsInv
<1>2. prog \in Programs /\ prog' = prog /\ Sectioned(prog, Homes, secs)
  BY DEF LaterStep, MergedInv
<1>3. Homes' = Homes
  BY <1>2, HomesStay
<1>4. PICK new : new = secs'
  OBVIOUS
<1>5. Sectioned(prog, Homes, new)
  <2>1. CASE new = secs
    BY <1>2, <2>1
  <2>2. CASE \E sec, v : new = [secs EXCEPT ![sec].order = v] \/ new = [secs EXCEPT ![sec].align = v]
    BY <1>2, <2>2, SectionedMore
  <2>3. QED
    BY <1>4, <2>1, <2>2 DEF LaterStep
<1>6. Sectioned(prog', Homes', secs')
  BY <1>2, <1>3, <1>4, <1>5
<1>7. QED
  BY <1>1, <1>2, <1>6 DEF MergedInv

LEMMA PassesKeep ==
  ASSUME StreamsInv, MergedInv, Pass1
  PROVE  StreamsInv' /\ MergedInv'
<1>1. CASE Merge
  <2>1. phase' = "relax"
    BY <1>1 DEF Merge
  <2>2. QED
    BY <1>1, <2>1, MergeSections DEF StreamsInv
<1>2. CASE Refuse
  <2>1. phase' = "failed"
    BY <1>2 DEF Refuse
  <2>2. QED
    BY <2>1 DEF StreamsInv, MergedInv
<1>3. CASE Label \/ SwitchSection \/ Attribute \/ Type \/ Size \/ Comm \/ Note \/ AlignTo \/ Bytes \/ Branch
  <2>1. phase = "pass1" /\ phase' = phase
    BY <1>3 DEF Label, SwitchSection, Attribute, Type, Size, Comm, Note, AlignTo, Bytes, Branch,
                Accept, Reading
  <2>2. MergedInv'
    BY <2>1 DEF MergedInv
  <2>3. StreamsInv'
    BY <1>3, LabelKeeps, SwitchSectionKeeps, OthersKeep, SizeKeeps, AlignToKeeps, BytesKeeps, BranchKeeps
  <2>4. QED
    BY <2>2, <2>3
<1>4. QED
  BY <1>1, <1>2, <1>3 DEF Pass1

LEMMA StreamsKept ==
  ASSUME StreamsInv, MergedInv, [Next]_vars
  PROVE  StreamsInv' /\ MergedInv'
<1>1. CASE UNCHANGED vars
  <2>1. phase' = phase /\ cursor' = cursor /\ prog' = prog /\ streams' = streams
        /\ current' = current /\ labelSection' = labelSection /\ secs' = secs
    BY <1>1 DEF vars, source, layout
  <2>2. Homes' = Homes
    BY <2>1, HomesStay
  <2>3. Here' = Here
    BY <2>1 DEF Here
  <2>4. QED
    BY <2>1, <2>2, <2>3 DEF StreamsInv, MergedInv
<1>2. CASE Terminated
  BY <1>1, <1>2 DEF Terminated
<1>3. CASE Pass1
  BY <1>3, PassesKeep
<1>4. CASE LayOut \/ Define \/ Resolve
  BY <1>4, LayOutLater, DefineLater, ResolveLater, LaterKeeps
<1>5. QED
  BY <1>1, <1>2, <1>3, <1>4 DEF Next

\* The section of a statement has its name.
LEMMA SecOfIs ==
  ASSUME prog \in Programs, Sectioned(prog, Homes, secs), NEW p \in 1 .. Len(prog)
  PROVE  SecOf(p) \in 1 .. Len(secs) /\ secs[SecOf(p)].name = Homes[p].section
<1>1. Homes[p] = Home(p)
  <2>1. p \in 0 .. Len(prog)
    BY DEF Sectioned
  <2>2. QED
    BY <2>1 DEF Homes
<1>2. PICK I : I = { i \in 1 .. Len(secs) : secs[i].name = Home(p).section }
  OBVIOUS
<1>3. I # {} /\ I \in SUBSET Nat
  <2>1. Len(secs) \in Nat
    BY DEF Sectioned
  <2>2. QED
    BY <1>1, <1>2, <2>1 DEF Sectioned
<1>4. SecOf(p) = IF I # {} THEN Min(I) ELSE 0
  BY <1>2, Zenon DEF SecOf, SelectInSeq
<1>5. SecOf(p) \in I
  BY <1>3, <1>4, MinOfNaturals
<1>6. QED
  BY <1>1, <1>2, <1>5

\* The order of the property is that of Ordered.
LEMMA PrecedesIs ==
  ASSUME Len(prog) \in Nat, NEW p \in 1 .. Len(prog), NEW q \in 1 .. Len(prog)
  PROVE  Precedes(p, q) <=> Before(Homes, p, q)
<1>1. p \in 0 .. Len(prog) /\ q \in 0 .. Len(prog)
  OBVIOUS
<1>2. Homes[p] = Home(p) /\ Homes[q] = Home(q)
  BY <1>1 DEF Homes
<1>3. QED
  BY <1>2 DEF Precedes, Before

LEMMA MergedOrder == MergedInv => MergeKeepsOrder
<1> SUFFICES ASSUME MergedInv, phase \notin {"pass1", "failed"}
             PROVE  MergeKeepsOrder
  BY DEF MergeKeepsOrder
<1>1. prog \in Programs /\ Sectioned(prog, Homes, secs)
  BY DEF MergedInv
<1>2. PICK m \in Nat : m = Len(prog) /\ DOMAIN prog = 1 .. m
  <2>1. prog \in Seq(ToSet(prog))
    BY <1>1, ProgramsAssumption
  <2>2. QED
    BY <2>1
<1>3. PICK n \in Nat : n = Len(secs) /\ DOMAIN secs = 1 .. n
  BY <1>1 DEF Sectioned
<1>4. \A p \in 1 .. m : SecOf(p) \in 1 .. n /\ secs[SecOf(p)].name = Homes[p].section
  BY <1>1, <1>2, <1>3, SecOfIs
<1>5. \A p, q \in 1 .. m : Precedes(p, q) <=> Before(Homes, p, q)
  BY <1>2, PrecedesIs
<1>6. ASSUME NEW k \in 1 .. n, NEW items, items = secs[k].items
      PROVE  /\ { items[i].line : i \in DOMAIN items } =
                    { p \in DOMAIN prog : HasItem(prog[p]) /\ SecOf(p) = k }
             /\ \A i \in 1 .. Len(items) - 1 : Precedes(items[i].line, items[i + 1].line)
             /\ \A p \in DOMAIN prog : prog[p].op = "label" /\ SecOf(p) = k =>
                   \A i \in DOMAIN items :
                       i < secs[k].labels[prog[p].name] <=> Precedes(items[i].line, p)
  <2>1. PICK labels, name : labels = secs[k].labels /\ name = secs[k].name
    OBVIOUS
  <2>2. Ordered(prog, Homes, m, items, labels, name)
    BY <1>1, <1>2, <1>3, <1>6, <2>1 DEF Sectioned
  <2>3. \A p \in 1 .. m : SecOf(p) = k <=> Homes[p].section = name
    <3>1. \A j \in 1 .. n : secs[j].name = secs[k].name => j = k
      BY <1>1, <1>3 DEF Sectioned
    <3>2. QED
      BY <1>4, <2>1, <3>1
  <2>4. { items[i].line : i \in DOMAIN items } = { p \in 1 .. m : HasItem(prog[p]) /\ Homes[p].section = name }
    BY <2>2 DEF Ordered
  <2>5. { items[i].line : i \in DOMAIN items } = { p \in DOMAIN prog : HasItem(prog[p]) /\ SecOf(p) = k }
    <3> HIDE DEF HasItem
    <3>1. { p \in 1 .. m : HasItem(prog[p]) /\ Homes[p].section = name } =
             { p \in DOMAIN prog : HasItem(prog[p]) /\ SecOf(p) = k }
      BY <1>2, <2>3
    <3>2. QED
      BY <2>4, <3>1
  <2>6. Len(items) \in Nat /\ DOMAIN items = 1 .. Len(items)
    BY <2>2 DEF Ordered
  <2>7. \A i \in 1 .. Len(items) : items[i].line \in 1 .. m
    BY <2>4, <2>6
  <2>8. ASSUME NEW i \in 1 .. Len(items) - 1
        PROVE  Precedes(items[i].line, items[i + 1].line)
    <3>1. i \in 1 .. Len(items) /\ i + 1 \in 1 .. Len(items) /\ i < i + 1
      BY <2>6
    <3>2. Before(Homes, items[i].line, items[i + 1].line)
      BY <2>2, <3>1 DEF Ordered
    <3>3. QED
      BY <1>5, <2>7, <3>1, <3>2
  <2>9. ASSUME NEW p \in DOMAIN prog, prog[p].op = "label", SecOf(p) = k, NEW i \in DOMAIN items
        PROVE  i < labels[prog[p].name] <=> Precedes(items[i].line, p)
    <3>1. p \in 1 .. m /\ Homes[p].section = name /\ i \in 1 .. Len(items)
      BY <1>2, <2>3, <2>6, <2>9
    <3>2. i < labels[prog[p].name] <=> Before(Homes, items[i].line, p)
      BY <2>2, <2>9, <3>1 DEF Ordered
    <3>3. QED
      BY <1>5, <2>7, <3>1, <3>2
  <2>10. QED
    BY <2>1, <2>5, <2>8, <2>9
<1>7. \A p \in DOMAIN prog : prog[p].op = "label" =>
        \A i \in DOMAIN secs[SecOf(p)].items :
            i < secs[SecOf(p)].labels[prog[p].name] <=> Precedes(secs[SecOf(p)].items[i].line, p)
  <2>1. ASSUME NEW p \in DOMAIN prog, prog[p].op = "label"
        PROVE  \A i \in DOMAIN secs[SecOf(p)].items :
                  i < secs[SecOf(p)].labels[prog[p].name] <=> Precedes(secs[SecOf(p)].items[i].line, p)
    <3>1. PICK k \in 1 .. n : k = SecOf(p)
      BY <1>2, <1>4
    <3>2. PICK items : items = secs[k].items
      OBVIOUS
    <3>3. \A i \in DOMAIN items : i < secs[k].labels[prog[p].name] <=> Precedes(items[i].line, p)
      BY <1>6, <2>1, <3>1, <3>2
    <3>4. QED
      BY <3>1, <3>2, <3>3
  <2>2. QED
    BY <2>1
<1>8. \A k \in DOMAIN secs :
        LET items == secs[k].items
        IN  /\ { items[i].line : i \in DOMAIN items } =
                   { p \in DOMAIN prog : HasItem(prog[p]) /\ SecOf(p) = k }
            /\ \A i \in 1 .. Len(items) - 1 : Precedes(items[i].line, items[i + 1].line)
  <2> HIDE DEF HasItem
  <2>1. QED
    BY <1>3, <1>6
<1>9. QED
  BY <1>7, <1>8 DEF MergeKeepsOrder

\* In every source that is assembled, whatever sections and subsections it
\* goes through on the way, each section holds the items of its statements,
\* each once, by subsection and then by line, and every label stands between
\* the items that it stands between in that order (merge_subsections).
THEOREM ItemsKeepOrder == Spec => []MergeKeepsOrder
<1>1. Init => StreamsInv /\ MergedInv
  BY StreamsBegin DEF Init, MergedInv
<1>2. StreamsInv /\ MergedInv /\ [Next]_vars => StreamsInv' /\ MergedInv'
  BY StreamsKept
<1>3. StreamsInv /\ MergedInv => MergeKeepsOrder
  BY MergedOrder
<1>4. QED
  BY <1>1, <1>2, <1>3, PTL DEF Spec

=============================================================================
