------------------------------ MODULE Operands ------------------------------
(***************************************************************************)
(* The operands of a statement and what the parser asks of one operand     *)
(* (src/parse.rs, the register and immediate helpers of the parser).       *)
(*                                                                         *)
(* An operand is a record whose k is its kind:                             *)
(*   gp    a general register: n, x (64 bits), kind "reg", "sp" or "zr"    *)
(*   fp    a scalar FP register: n, w its width b, h, s, d or q            *)
(*   v     a vector register: n, arr the arrangement spelled on it or ""   *)
(*   lane  a vector register with an index                                 *)
(*   list  vector registers in braces, for a table lookup                  *)
(*   imm   a constant v; wide: a constant no integer of TLC can hold, by   *)
(*         the set of the one bits of its i64; flt: the number n * 2^r,    *)
(*         written with a decimal point, negated if neg                    *)
(*   id    a name: a condition or a barrier option                         *)
(*   sym   a symbol, with the relocation modifier spelled on it or ""      *)
(*   mod   a shift or an extension; amount is {} where it is left out      *)
(*   mem   brackets: base, mode, and off and mods, at most one of each     *)
(*                                                                         *)
(* A parser of the source returns an instruction or an error.  Here it is  *)
(* the SET of what it returns: one result, or none where it refuses.       *)
(***************************************************************************)
EXTENDS Integers, Sequences, FiniteSetsExt, TLC, Instructions, LogicalImmediates

Gp(n, x) == [k |-> "gp", n |-> n, x |-> x, kind |-> "reg"]
Sp(x) == [k |-> "gp", n |-> 31, x |-> x, kind |-> "sp"]
Zr(x) == [k |-> "gp", n |-> 31, x |-> x, kind |-> "zr"]
FpR(n, w) == [k |-> "fp", n |-> n, w |-> w]
Vec(n, arr) == [k |-> "v", n |-> n, arr |-> arr]
Lane(n, arr, index) == [k |-> "lane", n |-> n, arr |-> arr, index |-> index]
VecList(regs, arr) == [k |-> "list", regs |-> regs, arr |-> arr]
Imm(v) == [k |-> "imm", v |-> v]
Wide(bits) == [k |-> "wide", bits |-> bits]
Flt(neg, n, r) == [k |-> "flt", neg |-> neg, n |-> n, r |-> r]
Id(name) == [k |-> "id", name |-> name]
Sym(reloc) == [k |-> "sym", reloc |-> reloc]
Mod(name, amount) == [k |-> "mod", name |-> name, amount |-> amount]
Mem(base, mode, off, mods) ==
  [k |-> "mem", base |-> base, mode |-> mode, off |-> off, mods |-> mods]

-----------------------------------------------------------------------------
(* Results.                                                                *)

Refused == {}

(* Stmt::InstructionWithReloc: the fields that the symbol fills are zero *)
WithReloc(guard, inst, kind) ==
  IF guard THEN {[inst |-> inst, reloc |-> kind]} ELSE Refused

(* Stmt::Instruction *)
Accept(guard, inst) == WithReloc(guard, inst, "none")

Built(op, operands) == [op |-> op] @@ operands

-----------------------------------------------------------------------------
(* General registers.                                                      *)

(* parse_gp_data_reg_with_size *)
DataReg(o) == o.k = "gp" /\ o.kind # "sp"

(* parse_x_reg, parse_w_reg *)
XReg(o) == DataReg(o) /\ o.x
WReg(o) == DataReg(o) /\ ~o.x

(* as a bug would: xzr for a base, which is SP there *)
BaseRegOrZero(o) == o.k = "gp" /\ o.x

(* parse_memory_base_reg *)
BaseReg(o) == o.k = "gp" /\ o.x /\ o.kind # "zr"

(* parse_gp_data_reg_with_size, then parse_gp_reg_matching_width *)
DataRegs(ops) ==
  \A i \in DOMAIN ops : DataReg(ops[i]) /\ ops[i].x = ops[1].x

(* the first operands, by the names the instruction gives them *)
Dst(ops) == [rd |-> ops[1].n]
DstSrc(ops) == Dst(ops) @@ [rn |-> ops[2].n]
DstSrcs(ops) == DstSrc(ops) @@ [rm |-> ops[3].n]

(* the width of an instruction is the width of its first register *)
SfOf(ops) == [sf |-> ops[1].x]

-----------------------------------------------------------------------------
(* Constants.                                                              *)

(* starts_immediate_expr *)
IsConstant(o) == o.k \in {"imm", "wide"}

(* a constant of that range; a wide one is in no range the parser tests *)
ImmIn(o, range) == o.k = "imm" /\ o.v \in range

(* `value as u64` *)
AsU64(o) ==
  IF o.k = "wide" THEN o.bits
  ELSE {b \in 0 .. 63 : IF b < 31 THEN (o.v \div 2^b) % 2 = 1 ELSE o.v < 0}

(* the number that a set of at most thirty low bits is *)
AsNumber(bits) == MapThenSumSet(LAMBDA b : 2^b, bits)

(* parse_i32_signed_scaled_immediate, parse_i16_signed_scaled_immediate *)
SignedScaledImm(o, bits, scale) ==
  o.k = "imm" /\ o.v % 2^scale = 0
    /\ o.v \div 2^scale \in -(2^(bits - 1)) .. 2^(bits - 1) - 1

(* parse_u16_immediate *)
U16(o) == ImmIn(o, 0 .. 65535)

(* the last bit of a register of that width *)
LastOf(sf) == IF sf THEN 63 ELSE 31

(* as a bug would: the bound of a 64-bit register for
   either width *)
BitIndexOfX(o, sf) == ImmIn(o, 0 .. 63)

(* parse_bit_index, and the amount of a shift *)
BitIndex(o, sf) == ImmIn(o, 0 .. LastOf(sf))

(* parse_logical_immediate_value: a 32-bit one may be negative, is taken   *)
(* modulo 2^32 and is refused from 2^32 on.                                *)
InU32Range(o) ==
  LET bits == AsU64(o)
  IN  \/ bits \subseteq 0 .. 31
      \/ 32 .. 63 \subseteq bits /\ bits \cap 0 .. 31 # {}

logical_immediate_value(o, sf) ==
  IF ~IsConstant(o) \/ (~sf /\ ~InU32Range(o)) THEN {}
  ELSE {raw \in {AsU64(o) \cap 0 .. LastOf(sf)} :
          logical_immediate_encodable(raw, LastOf(sf) + 1)}

-----------------------------------------------------------------------------
(* Names.                                                                  *)

(* parse_condition: nv is no condition of the parser *)
parse_condition ==
  [eq |-> "EQ", ne |-> "NE", cs |-> "CS", hs |-> "CS", cc |-> "CC",
   lo |-> "CC", mi |-> "MI", pl |-> "PL", vs |-> "VS", vc |-> "VC",
   hi |-> "HI", ls |-> "LS", ge |-> "GE", lt |-> "LT", gt |-> "GT",
   le |-> "LE", al |-> "AL"]

(* invert_condition *)
invert_condition ==
  [EQ |-> "NE", NE |-> "EQ", CS |-> "CC", CC |-> "CS", MI |-> "PL",
   PL |-> "MI", VS |-> "VC", VC |-> "VS", HI |-> "LS", LS |-> "HI",
   GE |-> "LT", LT |-> "GE", GT |-> "LE", LE |-> "GT", AL |-> "NV",
   NV |-> "AL"]

parse_barrier_option ==
  [oshld |-> "Oshld", oshst |-> "Oshst", osh |-> "Osh", nshld |-> "Nshld",
   nshst |-> "Nshst", nsh |-> "Nsh", ishld |-> "Ishld", ishst |-> "Ishst",
   ish |-> "Ish", ld |-> "Ld", st |-> "St", sy |-> "Sy"]

Named(o, table) == o.k = "id" /\ o.name \in DOMAIN table

(* Names that can be a label: where a label is the only thing left, the    *)
(* name of a register is one too, except to a branch (is_canonical_        *)
(* register_name).                                                         *)
BranchLabel(o) == o.k \in {"sym", "id"}
AnyLabel(o) == BranchLabel(o) \/ o.k \in {"gp", "fp", "v"}

(* The relocation a symbol asks for: eat_elf_reloc_prefix and              *)
(* parse_symbol_reloc_modifier, each with the modifiers its context allows.*)
RelocOf(o) == IF o.k = "sym" THEN o.reloc ELSE ""

(* the amount of a shift or an extension that may be left out *)
Amount(m) == IF m.amount = {} THEN 0 ELSE CHOOSE a \in m.amount : TRUE
=============================================================================
