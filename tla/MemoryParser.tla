---------------------------- MODULE MemoryParser ----------------------------
(***************************************************************************)
(* Parsing of loads, stores and atomics (src/parse.rs, parse_ldapr to      *)
(* parse_casal and parse_ldr_str to parse_ldp_stp_fp).                     *)
(*                                                                         *)
(* The forms of a mnemonic are a record of the variants it may become: imm *)
(* with an unsigned scaled offset, unscaled with a signed one of a byte,   *)
(* index, pre, post and lit; "" where it has none.  symbols maps the       *)
(* relocation modifiers it takes in brackets to the fixups they ask for.   *)
(***************************************************************************)
EXTENDS Operands

Suffix(sf) == IF sf THEN "64" ELSE "32"

NoSymbols == <<>>

StoreSymbols == [PAGEOFF |-> "PageOff12", lo12 |-> "PageOff12"]

LoadSymbols ==
  StoreSymbols
    @@ [got_lo12 |-> "GotLoadPageOff12",
        gottprel_lo12 |-> "TlvpLoadPageOff12",
        GOTPAGEOFF |-> "GotLoadPageOff12",
        TLVPPAGEOFF |-> "TlvpLoadPageOff12"]

(* gp_mem_offset_inst, gp_unscaled_mem_inst, gp_mem_pre_inst, _post_inst *)
GpForms(is_load, sf) ==
  LET s == IF is_load THEN "Ldr" ELSE "Str"
  IN  [imm |-> s \o "Imm" \o Suffix(sf),
       unscaled |-> (IF is_load THEN "Ldur" ELSE "Stur") \o Suffix(sf),
       index |-> s \o "Reg" \o Suffix(sf), pre |-> s \o "Pre" \o Suffix(sf),
       post |-> s \o "Post" \o Suffix(sf),
       lit |-> IF is_load THEN "LdrLit" \o Suffix(sf) ELSE "",
       scale |-> IF sf THEN 3 ELSE 2,
       symbols |-> IF is_load THEN LoadSymbols ELSE StoreSymbols]

FpWidths == [b |-> "8", h |-> "16", s |-> "32", d |-> "64", q |-> "128"]
FpScales == [b |-> 0, h |-> 1, s |-> 2, d |-> 3, q |-> 4]

(* fp_mem_offset_inst and parse_ldr_str_fp: B and H have offsets only *)
FpForms(is_load, w) ==
  LET s == IF is_load THEN "LdrFp" ELSE "StrFp"
      wide(form) == IF w \in {"b", "h"} THEN "" ELSE s \o form \o FpWidths[w]
  IN  [imm |-> s \o "Imm" \o FpWidths[w],
       unscaled |-> (IF is_load THEN "LdurFp" ELSE "SturFp") \o FpWidths[w],
       index |-> wide("Reg"), pre |-> wide("Pre"), post |-> wide("Post"),
       lit |-> IF is_load THEN wide("Lit") ELSE "",
       scale |-> FpScales[w],
       symbols |-> IF w \in {"b", "h"} THEN NoSymbols ELSE StoreSymbols]

(* parse_ldstb_h_*_inst and parse_ldst_signed_b_h_*_inst: size is rb, rh,  *)
(* rsb or rsh, bits the width of a signed destination                      *)
NarrowForms(op, size, bits) ==
  [imm |-> op \o size \o bits, unscaled |-> op \o "u" \o size \o bits,
   index |-> op \o size \o "Reg" \o bits, pre |-> op \o size \o "Pre" \o bits,
   post |-> op \o size \o "Post" \o bits, lit |-> "",
   scale |-> IF size \in {"rb", "rsb"} THEN 0 ELSE 1, symbols |-> NoSymbols]

(* parse_ldrsw *)
LdrswForms ==
  [imm |-> "Ldrsw", unscaled |-> "Ldursw", index |-> "LdrswReg", pre |-> "",
   post |-> "", lit |-> "LdrswLit", scale |-> 2, symbols |-> NoSymbols]

-----------------------------------------------------------------------------
(* Addresses.                                                              *)

(* parse_reg_offset_operand and parse_index_shift *)
IndexFits(rm, mods, scale) ==
  LET names == IF rm.x THEN {"Lsl", "Sxtx"} ELSE {"Uxtw", "Sxtw"}
  IN  /\ rm.kind # "sp"
      /\ mods = {} => rm.x
      /\ \A m \in mods : m.name \in names /\ Amount(m) \in {0, scale}

Indexed(op, regs, rm, mods, scale) ==
  LET m == IF mods = {} THEN Mod("Lsl", {}) ELSE CHOOSE m \in mods : TRUE
  IN  Accept(op # "" /\ IndexFits(rm, mods, scale),
             Built(op, regs @@ [rm |-> rm.n, extend |-> m.name,
                                shift |-> Amount(m) # 0]))

(* fits_unsigned *)
FitsUnsigned(offset, scale) ==
  offset \in 0 .. 4095 * 2^scale /\ offset % 2^scale = 0

(* the scaled form before the unscaled one *)
OffsetForm(forms, regs, offset) ==
  LET at(op) == Built(op, regs @@ [offset |-> offset])
  IN  IF FitsUnsigned(offset, forms.scale) THEN Accept(TRUE, at(forms.imm))
      ELSE Accept(offset \in -256 .. 255, at(forms.unscaled))

(* what stands in the brackets, and after them *)
Address(forms, regs, m) ==
  LET off == CHOOSE off \in m.off : TRUE
      at(op, offset) == Built(op, regs @@ [offset |-> offset])
      indexedForm == forms[m.mode]
  IN  CASE ~BaseReg(m.base) -> Refused
        [] m.off = {} -> Accept(m.mode = "offset", at(forms.imm, 0))
        [] m.mode # "offset" ->
             Accept(/\ m.mods = {} /\ indexedForm # ""
                    /\ SignedScaledImm(off, 9, 0),
                    at(indexedForm, IF off.k = "imm" THEN off.v ELSE 0))
        [] off.k = "gp" -> Indexed(forms.index, regs, off, m.mods, forms.scale)
        [] BranchLabel(off) ->
             IF m.mods = {} /\ RelocOf(off) \in DOMAIN forms.symbols
             THEN WithReloc(TRUE, at(forms.imm, 0),
                            forms.symbols[RelocOf(off)])
             ELSE Refused
        [] OTHER -> IF off.k = "imm" /\ m.mods = {}
                    THEN OffsetForm(forms, regs, off.v) ELSE Refused

(* a transfer of one register: brackets, a literal or the label of one *)
Transfer(forms, rt, ops) ==
  LET target == ops[2]
      lit(offset) == [op |-> forms.lit, rt |-> rt, offset |-> offset]
  IN  CASE Len(ops) # 2 -> Refused
        [] target.k = "mem" ->
             Address(forms, [rt |-> rt, rn |-> target.base.n], target)
        [] IsConstant(target) ->
             Accept(forms.lit # "" /\ SignedScaledImm(target, 19, 2),
                    lit(IF target.k = "imm" THEN target.v ELSE 0))
        [] OTHER ->
             WithReloc(forms.lit # "" /\ BranchLabel(target)
                         /\ RelocOf(target) = "",
                       lit(0), "Literal19")

-----------------------------------------------------------------------------
(* Loads and stores.                                                       *)

(* parse_ldr_str, parse_ldr_str_gp and parse_ldr_str_fp *)
parse_ldr_str(is_load, ops) ==
  CASE ops = <<>> -> Refused
    [] ops[1].k = "fp" -> Transfer(FpForms(is_load, ops[1].w), ops[1].n, ops)
    [] DataReg(ops[1]) -> Transfer(GpForms(is_load, ops[1].x), ops[1].n, ops)
    [] OTHER -> Refused

(* parse_ldstb_h *)
parse_ldstb_h(op, size, ops) ==
  IF ops # <<>> /\ WReg(ops[1]) /\ ops[Len(ops)].k = "mem"
  THEN Transfer(NarrowForms(op, size, ""), ops[1].n, ops) ELSE Refused

(* parse_ldst_signed_b_h *)
parse_ldst_signed_b_h(size, ops) ==
  IF ops # <<>> /\ DataReg(ops[1])
  THEN Transfer(NarrowForms("Ld", size, Suffix(ops[1].x)), ops[1].n, ops)
  ELSE Refused

(* parse_ldrsw *)
parse_ldrsw(ops) ==
  IF ops # <<>> /\ XReg(ops[1]) THEN Transfer(LdrswForms, ops[1].n, ops)
  ELSE Refused

(* parse_ldur_stur: the unscaled form whatever the offset *)
parse_ldur_stur(is_load, ops) ==
  LET m == ops[2]
      off == IF m.off = {} THEN Imm(0) ELSE CHOOSE off \in m.off : TRUE
  IN  Accept(/\ Len(ops) = 2 /\ DataReg(ops[1]) /\ m.k = "mem"
             /\ BaseReg(m.base) /\ m.mode = "offset" /\ m.mods = {}
             /\ SignedScaledImm(off, 9, 0),
             [op |-> GpForms(is_load, ops[1].x).unscaled, rt |-> ops[1].n,
              rn |-> m.base.n, offset |-> off.v])

-----------------------------------------------------------------------------
(* Pairs.                                                                  *)

(* the two registers: of one file and one width, which has pairs *)
PairRegs(ops) ==
  \/ DataReg(ops[1]) /\ DataReg(ops[2]) /\ ops[1].x = ops[2].x
  \/ /\ ops[1].k = "fp" /\ ops[2].k = "fp"
     /\ ops[1].w = ops[2].w /\ ops[1].w \notin {"b", "h"}

(* parse_ldp_stp, parse_ldp_stp_gp and parse_ldp_stp_fp *)
parse_ldp_stp(is_load, ops) ==
  LET m == ops[3]
      fp == ops[1].k = "fp"
      mode == [offset |-> "Off", pre |-> "Pre", post |-> "Post"][m.mode]
      scale == IF fp THEN FpScales[ops[1].w]
               ELSE IF ops[1].x THEN 3 ELSE 2
      off == IF m.off = {} THEN Imm(0) ELSE CHOOSE off \in m.off : TRUE
      name == (IF is_load THEN "Ldp" ELSE "Stp") \o (IF fp THEN "Fp" ELSE "")
                \o mode \o IF fp THEN FpWidths[ops[1].w] ELSE Suffix(ops[1].x)
  IN  Accept(/\ Len(ops) = 3 /\ PairRegs(ops) /\ m.k = "mem"
             /\ is_load => ops[1].n # ops[2].n
             /\ BaseReg(m.base) /\ m.mods = {}
             /\ m.off = {} => m.mode = "offset"
             /\ SignedScaledImm(off, 7, scale),
             [op |-> name, rt1 |-> ops[1].n, rt2 |-> ops[2].n,
              rn |-> m.base.n, offset |-> off.v])

-----------------------------------------------------------------------------
(* Acquire, release and read-modify-write.                                 *)

(* parse_atomic_base_reg: [Xn] or [sp] and nothing else *)
SimpleBase(o) ==
  /\ o.k = "mem" /\ BaseReg(o.base)
  /\ o.mode = "offset" /\ o.off = {} /\ o.mods = {}

(* parse_ldapr, parse_stlr, parse_load_acquire *)
parse_acquire_release(op, ops) ==
  Accept(Len(ops) = 2 /\ DataReg(ops[1]) /\ SimpleBase(ops[2]),
         [op |-> op \o Suffix(ops[1].x), rt |-> ops[1].n,
          rn |-> ops[2].base.n])

(* parse_ldapr_narrow, parse_stlr_narrow *)
parse_acquire_release_narrow(op, ops) ==
  Accept(Len(ops) = 2 /\ WReg(ops[1]) /\ SimpleBase(ops[2]),
         [op |-> op, rt |-> ops[1].n, rn |-> ops[2].base.n])

(* parse_stlxr: the status goes to a W register whatever is stored *)
parse_stlxr(ops) ==
  Accept(/\ Len(ops) = 3 /\ WReg(ops[1]) /\ DataReg(ops[2])
         /\ SimpleBase(ops[3]),
         [op |-> "Stlxr" \o Suffix(ops[2].x), rs |-> ops[1].n,
          rt |-> ops[2].n, rn |-> ops[3].base.n])

(* parse_atomic_rmw, and the narrow one with W registers only *)
parse_atomic_rmw(op, ops) ==
  Accept(/\ Len(ops) = 3 /\ DataRegs(SubSeq(ops, 1, 2)) /\ SimpleBase(ops[3]),
         [op |-> op \o Suffix(ops[1].x), rs |-> ops[1].n, rt |-> ops[2].n,
          rn |-> ops[3].base.n])

parse_atomic_rmw_narrow(op, ops) ==
  Accept(/\ Len(ops) = 3 /\ WReg(ops[1]) /\ WReg(ops[2]) /\ SimpleBase(ops[3]),
         [op |-> op, rs |-> ops[1].n, rt |-> ops[2].n, rn |-> ops[3].base.n])
=============================================================================
