---------------------------- MODULE Architecture ----------------------------
(***************************************************************************)
(* What an arm64 processor makes of an instruction word, as far as the     *)
(* properties of ArmStatements ask.  It is no part of the assembler: the   *)
(* positions and the meanings are those of the architecture, and none of   *)
(* them is taken from the encoder, so that the two can disagree.           *)
(***************************************************************************)
EXTENDS Words, FiniteSetsExt

(* the numbers in a field of a word *)
Number(word, field) ==
  MapThenSumSet(LAMBDA j : IF field[j] \in word THEN 2^(j - 1) ELSE 0,
                DOMAIN field)

Signed(word, field) ==
  LET n == Number(word, field)
  IN  IF n >= 2^(Len(field) - 1) THEN n - 2^Len(field) ELSE n

(* where the registers of every instruction stand *)
RegisterAt ==
  [rd |-> 0, rt |-> 0, rt1 |-> 0, rn |-> 5, table |-> 5, ra |-> 10, rt2 |-> 10,
   rm |-> 16, rs |-> 16]

-----------------------------------------------------------------------------
(* Constants.                                                              *)

Last(word) == IF 31 \in word THEN 63 ELSE 31

(* DecodeBitMasks: a run of ones, rotated and replicated *)
BitMask(word) ==
  LET immr == Number(word, At(16, 6))
      imms == Number(word, At(10, 6))
      ones == {6 : n \in word \cap {22}}
                \cup {b \in 0 .. 5 : (imms \div 2^b) % 2 = 0}
      esize == 2^Max(ones)
  IN  {b \in 0 .. Last(word) : (b + immr) % esize <= imms % esize}

(* MOVN, MOVZ, and MOVK on a register of zeros *)
MoveWide(word) ==
  LET shift == 16 * Number(word, At(21, 2))
      set == {shift + j - 5 : j \in word \cap 5 .. 20}
  IN  IF word \cap {29, 30} = {} THEN (0 .. Last(word)) \ set ELSE set

(* ADD and SUB of an immediate: what is added to the source *)
Increment(word) ==
  LET imm == Number(word, At(10, 12)) * IF 22 \in word THEN 4096 ELSE 1
  IN  IF 30 \in word THEN -imm ELSE imm

(* VFPExpandImm: the number is m * 2^e *)
FloatImmediate(word) ==
  LET exponent == Number(word, At(17, 2))
  IN  [neg |-> 20 \in word, m |-> 16 + Number(word, At(13, 4)),
       e |-> exponent - 4 + IF 19 \in word THEN -3 ELSE 1]

-----------------------------------------------------------------------------
(* Bit fields: for every bit of the result, the bit of the source it is a  *)
(* copy of, or "zero", or "old" where the destination keeps its own.       *)

Bit0(b) == [copy |-> b]
Zero == [copy |-> "zero"]
Old == [copy |-> "old"]

(* SBFM, BFM and UBFM, by bits 29 and 30 *)
BitfieldMove(word) ==
  LET R == Number(word, At(16, 6))
      S == Number(word, At(10, 6))
      low == IF S >= R THEN 0 ELSE Last(word) + 1 - R
      from == IF S >= R THEN R ELSE 0
      outside(b) == CASE word \cap {29, 30} = {29} -> Old
                      [] word \cap {29, 30} = {30} -> Zero
                      [] OTHER -> IF b < low THEN Zero ELSE Bit0(S)
  IN  [b \in 0 .. Last(word) |->
         IF b - low + from \in from .. S THEN Bit0(b - low + from)
         ELSE outside(b)]

-----------------------------------------------------------------------------
(* Conditions.                                                             *)

Flags == SUBSET {"n", "z", "c", "v"}

ConditionHolds(code, flags) ==
  LET sameSign == "n" \in flags <=> "v" \in flags
      holds == CASE code \div 2 = 0 -> "z" \in flags
                 [] code \div 2 = 1 -> "c" \in flags
                 [] code \div 2 = 2 -> "n" \in flags
                 [] code \div 2 = 3 -> "v" \in flags
                 [] code \div 2 = 4 -> "c" \in flags /\ "z" \notin flags
                 [] code \div 2 = 5 -> sameSign
                 [] code \div 2 = 6 -> sameSign /\ "z" \notin flags
                 [] code \div 2 = 7 -> TRUE
  IN  IF code % 2 = 1 /\ code # 15 THEN ~holds ELSE holds

(* CSEL, CSINC, CSINV and CSNEG: the register read, and what is done to it *)
Selected(word, flags) ==
  LET other == CASE 30 \notin word /\ 10 \notin word -> "same"
                 [] 30 \notin word /\ 10 \in word -> "plus1"
                 [] 30 \in word /\ 10 \notin word -> "not"
                 [] 30 \in word /\ 10 \in word -> "minus"
  IN  IF ConditionHolds(Number(word, At(12, 4)), flags)
      THEN [as |-> "same", reg |-> Number(word, At(5, 5))]
      ELSE [as |-> other, reg |-> Number(word, At(16, 5))]

-----------------------------------------------------------------------------
(* Register 31 is SP in these fields and reads as zero in every other one. *)

ReadsSp(op, field) ==
  \/ /\ field \in {"rd", "rn"}
     /\ op \in {"AddImm", "SubImm", "AddExtReg", "SubExtReg"}
  \/ field = "rn" /\ op \in {"AddsImm", "SubsImm", "AddsExtReg", "SubsExtReg"}
  \/ field = "rd" /\ op \in {"AndImm", "OrrImm", "EorImm"}

-----------------------------------------------------------------------------
(* Where a word reaches, in bytes from its own place.                      *)

Reach(word, kind) ==
  CASE kind = "Branch26" -> 4 * Signed(word, At(0, 26))
    [] kind \in {"Branch19", "Literal19"} -> 4 * Signed(word, At(5, 19))
    [] kind = "Branch14" -> 4 * Signed(word, At(5, 14))
    [] kind \in {"Adr21", "page"} -> Signed(word, At(29, 2) \o At(5, 19))

-----------------------------------------------------------------------------
(* A linker: the field that a relocation type governs, and what it writes  *)
(* there of an offset of that many bytes.                                  *)

LinkedField ==
  [CALL26 |-> At(0, 26), JUMP26 |-> At(0, 26),
   ADR_PREL_PG_HI21 |-> At(29, 2) \o At(5, 19),
   ADR_GOT_PAGE |-> At(29, 2) \o At(5, 19),
   TLSIE_ADR_GOTTPREL_PAGE21 |-> At(29, 2) \o At(5, 19),
   ADD_ABS_LO12_NC |-> At(10, 12), LDST8_ABS_LO12_NC |-> At(10, 12),
   LDST16_ABS_LO12_NC |-> At(10, 12), LDST32_ABS_LO12_NC |-> At(10, 12),
   LDST64_ABS_LO12_NC |-> At(10, 12), LDST128_ABS_LO12_NC |-> At(10, 12),
   LD64_GOT_LO12_NC |-> At(10, 12), TLSIE_LD64_GOTTPREL_LO12_NC |-> At(10, 12)]

LinkedScale ==
  [rel \in DOMAIN LinkedField |->
     CASE rel \in {"CALL26", "JUMP26", "LDST32_ABS_LO12_NC"} -> 2
       [] rel = "LDST16_ABS_LO12_NC" -> 1
       [] rel \in {"LDST64_ABS_LO12_NC", "LD64_GOT_LO12_NC",
                   "TLSIE_LD64_GOTTPREL_LO12_NC"} -> 3
       [] rel = "LDST128_ABS_LO12_NC" -> 4
       [] OTHER -> 0]

Linked(word, rel, offset) ==
  (word \ Positions(LinkedField[rel]))
    \cup Place(offset \div 2^LinkedScale[rel], LinkedField[rel])
=============================================================================
