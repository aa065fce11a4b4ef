-------------------------- MODULE LogicalImmediates --------------------------
(***************************************************************************)
(* The bitmask immediates of AND, ORR, EOR and ANDS: a run of ones, rotated*)
(* within an element and repeated over the register.                       *)
(*                                                                         *)
(* The parser asks whether a value is one (parse.rs,                       *)
(* logical_immediate_encodable), the encoder finds the fields that produce *)
(* it (encode.rs, encode_logical_immediate): two copies of one search, and *)
(* the encoder stops the program when its own fails.                       *)
(*                                                                         *)
(* A value is the set of its one bits.                                     *)
(***************************************************************************)
EXTENDS Integers

None == [none |-> TRUE]

(* the element sizes a register of that width is searched with *)
ElementSizes(width) == {esize \in {2, 4, 8, 16, 32, 64} : esize <= width}

(* a run of that many ones, rotated right by rot in an element *)
Rotated(ones, rot, esize) == {(b - rot) % esize : b \in 0 .. ones - 1}

(* the element repeated over the width *)
Replicated(pattern, esize, width) ==
  {b + k * esize : b \in pattern, k \in 0 .. (width \div esize) - 1}

(* the search of the parser *)
logical_immediate_encodable(imm, width) ==
  LET value == imm \cap 0 .. width - 1
  IN  /\ value # {} /\ value # 0 .. width - 1
      /\ \E esize \in ElementSizes(width) :
           \E ones \in 1 .. esize - 1, rot \in 0 .. esize - 1 :
             Replicated(Rotated(ones, rot, esize), esize, width) = value

(* The search of the encoder: the smallest element size first, and what it *)
(* found packed into N, immr and imms.                                     *)
FieldsOfOnes(esize, ones, rot) ==   \* as a bug would: the run one too long
  [n |-> IF esize = 64 THEN 1 ELSE 0, immr |-> rot,
   imms |-> ((-2 * esize) % 64) + ones]

Fields(esize, ones, rot) ==
  [n |-> IF esize = 64 THEN 1 ELSE 0, immr |-> rot,
   imms |-> ((-2 * esize) % 64) + (ones - 1)]

encode_logical_immediate(imm, width) ==
  LET value == imm \cap 0 .. width - 1
      found == {esize \in ElementSizes(width) :
                  \E ones \in 1 .. esize - 1, rot \in 0 .. esize - 1 :
                    Replicated(Rotated(ones, rot, esize), esize, width)
                      = value}
      least == CHOOSE esize \in found : \A other \in found : esize <= other
      at == CHOOSE p \in (1 .. least - 1) \X (0 .. least - 1) :
              Replicated(Rotated(p[1], p[2], least), least, width) = value
  IN  IF value = {} \/ value = 0 .. width - 1 \/ found = {} THEN None
      ELSE Fields(least, at[1], at[2])
=============================================================================
