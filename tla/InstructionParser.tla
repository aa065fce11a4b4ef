------------------------- MODULE InstructionParser -------------------------
(***************************************************************************)
(* From a statement to an instruction (src/parse.rs, parse_instruction).   *)
(*                                                                         *)
(* A statement is a record: mn the mnemonic, arr what follows a point in   *)
(* it ("" where nothing does) and ops its operands.                        *)
(***************************************************************************)
EXTENDS IntegerParser, MemoryParser, VectorParser

Stmt(mn, arr, ops) == [mn |-> mn, arr |-> arr, ops |-> ops]

-----------------------------------------------------------------------------
(* Mnemonics without an arrangement, by the function that parses them.     *)

AddSubNames ==
  [sub |-> [is_sub |-> TRUE, flags |-> FALSE],
   adds |-> [is_sub |-> FALSE, flags |-> TRUE],
   subs |-> [is_sub |-> TRUE, flags |-> TRUE]]

LogicNames == [and |-> "And", orr |-> "Orr", eor |-> "Eor", ands |-> "Ands"]

MovWideNames == [movz |-> "Movz", movk |-> "Movk", movn |-> "Movn"]

ThreeRegNames == [mul |-> "Mul", sdiv |-> "Sdiv", udiv |-> "Udiv"]

MaddNames == [madd |-> "Madd", msub |-> "Msub"]

WideningNames == [umull |-> "Umull", smull |-> "Smull"]

MulhNames == [umulh |-> "Umulh", smulh |-> "Smulh"]

SelectNames ==
  [csel |-> "Csel", csinc |-> "Csinc", csinv |-> "Csinv", csneg |-> "Csneg"]

SelectSetNames == [cset |-> "Csinc", csetm |-> "Csinv"]

SelectUnaryNames == [cinc |-> "Csinc", cinv |-> "Csinv", cneg |-> "Csneg"]

CompareImmNames == [ccmp |-> "CcmpImm", ccmn |-> "CcmnImm"]

ShiftNames == [lsl |-> "Lsl", lsr |-> "Lsr", asr |-> "Asr"]

ExtendNames ==
  [sxtw |-> "Sxtw", sxtb |-> "Sxtb", sxth |-> "Sxth", uxtw |-> "Uxtw"]

BitfieldNames == [ubfiz |-> "Ubfiz", bfi |-> "Bfi", bfxil |-> "Bfxil"]

BranchRegNames == [br |-> "Br", blr |-> "Blr"]

parse_integer(mn, ops) ==
  CASE mn = "add" -> parse_add_sub_stmt(ops)
    [] mn \in DOMAIN AddSubNames ->
         parse_add_sub(ops, AddSubNames[mn].is_sub, AddSubNames[mn].flags)
    [] mn = "cmp" -> parse_cmp(ops)
    [] mn = "cmn" -> parse_cmn(ops)
    [] mn = "neg" -> parse_neg(ops)
    [] mn = "tst" -> parse_tst(ops)
    [] mn = "mvn" -> parse_mvn(ops)
    [] mn \in DOMAIN LogicNames -> parse_logic(LogicNames[mn], ops)
    [] mn = "mov" -> IF ops # <<>> /\ ops[1].k = "fp"
                     THEN parse_simd_lane_extract(ops) ELSE parse_mov(ops)
    [] mn \in DOMAIN MovWideNames -> parse_mov_wide(MovWideNames[mn], ops)
    [] mn \in DOMAIN ThreeRegNames -> parse_3reg(ThreeRegNames[mn], ops)
    [] mn = "clz" -> parse_clz(ops)
    [] mn = "mneg" -> parse_mneg(ops)
    [] mn \in DOMAIN MaddNames -> parse_madd_sub(MaddNames[mn], ops)
    [] mn \in DOMAIN WideningNames -> parse_widening(WideningNames[mn], ops)
    [] mn \in DOMAIN MulhNames -> parse_mulh(MulhNames[mn], ops)
    [] mn \in DOMAIN SelectNames -> parse_cond_select(SelectNames[mn], ops)
    [] mn \in DOMAIN SelectSetNames ->
         parse_cond_select_set_alias(SelectSetNames[mn], ops)
    [] mn \in DOMAIN SelectUnaryNames ->
         parse_cond_select_unary_alias(SelectUnaryNames[mn], ops)
    [] mn \in DOMAIN CompareImmNames ->
         parse_cond_compare_imm(CompareImmNames[mn], ops)
    [] mn \in DOMAIN ShiftNames -> parse_shift(ShiftNames[mn], ops)
    [] mn \in DOMAIN ExtendNames -> parse_extend_alias(ExtendNames[mn], ops)
    [] mn \in DOMAIN BitfieldNames ->
         parse_bitfield_alias(BitfieldNames[mn], ops)
    [] mn = "b" -> parse_b("B", ops)
    [] mn = "bl" -> parse_b("Bl", ops)
    [] mn = "cbz" -> parse_cbz("Cbz", ops)
    [] mn = "cbnz" -> parse_cbz("Cbnz", ops)
    [] mn = "tbz" -> parse_tbz("Tbz", ops)
    [] mn = "tbnz" -> parse_tbz("Tbnz", ops)
    [] mn = "ret" -> parse_ret(ops)
    [] mn \in DOMAIN BranchRegNames -> parse_br(BranchRegNames[mn], ops)
    [] mn = "adr" -> parse_adr(ops)
    [] mn = "adrp" -> parse_adrp(ops)
    [] OTHER -> Refused

NarrowNames ==
  [ldrb |-> [op |-> "Ld", size |-> "rb"], ldrh |-> [op |-> "Ld", size |-> "rh"],
   strb |-> [op |-> "St", size |-> "rb"], strh |-> [op |-> "St", size |-> "rh"]]

SignedNames == [ldrsb |-> "rsb", ldrsh |-> "rsh"]

AcquireReleaseNames ==
  [ldapr |-> "Ldapr", stlr |-> "Stlr", ldar |-> "Ldar", ldaxr |-> "Ldaxr"]

AcquireReleaseNarrowNames ==
  [ldaprb |-> "Ldaprb", ldaprh |-> "Ldaprh", stlrb |-> "Stlrb",
   stlrh |-> "Stlrh"]

RmwNames ==
  [ldaddal |-> "Ldaddal", ldumaxal |-> "Ldumaxal", ldsmaxal |-> "Ldsmaxal",
   lduminal |-> "Lduminal", ldsminal |-> "Ldsminal", ldclral |-> "Ldclral",
   ldeoral |-> "Ldeoral", ldsetal |-> "Ldsetal", swpal |-> "Swpal",
   casal |-> "Casal"]

RmwNarrowNames ==
  [ldaddalb |-> "Ldaddalb", ldaddalh |-> "Ldaddalh", ldumaxalb |-> "Ldumaxalb",
   ldumaxalh |-> "Ldumaxalh", ldsmaxalb |-> "Ldsmaxalb",
   ldsmaxalh |-> "Ldsmaxalh", lduminalb |-> "Lduminalb",
   lduminalh |-> "Lduminalh", ldsminalb |-> "Ldsminalb",
   ldsminalh |-> "Ldsminalh", ldclralb |-> "Ldclralb", ldclralh |-> "Ldclralh",
   ldeoralb |-> "Ldeoralb", ldeoralh |-> "Ldeoralh", ldsetalb |-> "Ldsetalb",
   ldsetalh |-> "Ldsetalh", swpalb |-> "Swpalb", swpalh |-> "Swpalh",
   casalb |-> "Casalb", casalh |-> "Casalh"]

parse_memory(mn, ops) ==
  CASE mn \in {"ldr", "str"} -> parse_ldr_str(mn = "ldr", ops)
    [] mn \in {"ldur", "stur"} -> parse_ldur_stur(mn = "ldur", ops)
    [] mn \in {"ldp", "stp"} -> parse_ldp_stp(mn = "ldp", ops)
    [] mn = "ldrsw" -> parse_ldrsw(ops)
    [] mn \in DOMAIN NarrowNames ->
         parse_ldstb_h(NarrowNames[mn].op, NarrowNames[mn].size, ops)
    [] mn \in DOMAIN SignedNames -> parse_ldst_signed_b_h(SignedNames[mn], ops)
    [] mn \in DOMAIN AcquireReleaseNames ->
         parse_acquire_release(AcquireReleaseNames[mn], ops)
    [] mn \in DOMAIN AcquireReleaseNarrowNames ->
         parse_acquire_release_narrow(AcquireReleaseNarrowNames[mn], ops)
    [] mn = "stlxr" -> parse_stlxr(ops)
    [] mn \in DOMAIN RmwNames -> parse_atomic_rmw(RmwNames[mn], ops)
    [] mn \in DOMAIN RmwNarrowNames ->
         parse_atomic_rmw_narrow(RmwNarrowNames[mn], ops)
    [] OTHER -> Refused

parse_float(mn, ops) ==
  CASE mn \in {"fadd", "fsub", "fmul", "fdiv"} -> parse_fp_arith(mn, ops)
    [] mn \in {"fneg", "fabs", "fsqrt"} -> parse_fp_unary(mn, ops)
    [] mn = "fcmp" -> parse_fcmp(ops)
    [] mn = "fcsel" -> parse_fcsel(ops)
    [] mn \in {"fmadd", "fmsub", "fnmsub"} -> parse_fp_madd(mn, ops)
    [] mn = "fcvt" -> parse_fcvt(ops)
    [] mn \in {"fcvtzs", "fcvtzu"} -> parse_fcvtz(mn, ops)
    [] mn \in {"scvtf", "ucvtf"} -> parse_cvtf(mn, ops)
    [] mn = "fmov" -> parse_fmov(ops)
    [] OTHER -> Refused

HintNames ==
  [nop |-> "Nop", yield |-> "Yield", wfe |-> "Wfe", wfi |-> "Wfi",
   sev |-> "Sev", sevl |-> "Sevl", clrex |-> "Clrex"]

TrapNames == [svc |-> "Svc", brk |-> "Brk"]

BarrierNames == [dmb |-> "Dmb", dsb |-> "Dsb", isb |-> "Isb"]

(* the option of ISB may be left out *)
parse_system(mn, ops) ==
  LET option == IF ops = <<>> THEN "Sy" ELSE parse_barrier_option[ops[1].name]
  IN  CASE mn \in DOMAIN HintNames ->
             Accept(ops = <<>>, [op |-> HintNames[mn]])
        [] mn \in DOMAIN TrapNames ->
             Accept(Len(ops) = 1 /\ U16(ops[1]),
                    [op |-> TrapNames[mn], imm16 |-> ops[1].v])
        [] mn \in DOMAIN BarrierNames ->
             Accept(\/ ops = <<>> /\ mn = "isb"
                    \/ Len(ops) = 1 /\ Named(ops[1], parse_barrier_option),
                    [op |-> BarrierNames[mn], option |-> option])
        [] OTHER -> Refused

-----------------------------------------------------------------------------
(* Mnemonics with an arrangement or a lane width, and conditions of b.     *)

Lanes == {"b", "h", "s", "d"}

parse_arranged(mn, arr, ops, gnu) ==
  CASE mn = "b" -> parse_bcond(arr, ops)
    [] mn = "mov" /\ arr \in Lanes -> parse_simd_lane_insert(arr, ops)
    [] mn = "umov" /\ arr \in Lanes -> parse_simd_lane_extract_gp(arr, ops, gnu)
    [] mn = "smov" /\ arr \in {"b", "h"} ->
         parse_simd_lane_extract_gp_signed(arr, ops)
    [] mn = "ld1" /\ arr \in Lanes -> parse_simd_lane_load(arr, ops)
    [] mn = "dup" /\ arr \in DOMAIN LaneOf -> parse_simd_dup(arr, ops, gnu)
    [] mn \in {"tbl", "tbx"} /\ arr = "16b" -> parse_simd_table_lookup(mn, ops)
    [] mn = "ext" /\ arr = "16b" -> parse_simd_ext_16b(ops, gnu)
    [] mn \in CompareZero2d \cup CompareReg2d /\ arr = "2d" ->
         parse_simd_compare_2d(mn, ops)
    [] \/ In(ThreeVectors, arr, mn)
       \/ In(TwoVectors, arr, mn)
       \/ In(Reductions, arr, mn) -> parse_simd_vector(mn, arr, ops, gnu)
    [] OTHER -> Refused

(* the rows that the GNU dialect is rewritten to *)
mnemonic_has_apple_simd_row ==
  ("16b" :> simd_logic_16b \cup {"add", "sub", "mul", "dup", "ext", "mov"})
    @@ ("8h" :> {"add", "sub", "mul", "dup"})
    @@ ("4s" :> {"add", "sub", "mul", "fadd", "fsub", "fmul", "fdiv", "dup",
                 "mov"})
    @@ ("2d" :> {"add", "sub", "fadd", "fsub", "fmul", "fdiv", "dup", "mov"})
    @@ ("8b" :> {"mov"})
    @@ [lane \in Lanes |-> {"umov"}]

(* the arrangement on the first vector operand of the line that has one *)
peek_gnu_simd_arrangement(ops) ==
  LET spelled == {i \in DOMAIN ops :
                    ops[i].k \in {"v", "lane", "list"} /\ ops[i].arr # ""}
  IN  IF spelled = {} THEN ""
      ELSE ops[CHOOSE i \in spelled : \A j \in spelled : i <= j].arr

parse_instruction(stmt) ==
  LET gnu == peek_gnu_simd_arrangement(stmt.ops)
      bare(mn) == UNION {parse_integer(mn, stmt.ops), parse_memory(mn, stmt.ops),
                         parse_float(mn, stmt.ops), parse_system(mn, stmt.ops)}
  IN  CASE stmt.arr # "" -> parse_arranged(stmt.mn, stmt.arr, stmt.ops, "")
        [] gnu # "" /\ In(mnemonic_has_apple_simd_row, gnu, stmt.mn) ->
             parse_arranged(stmt.mn, gnu, stmt.ops, gnu)
        [] OTHER -> bare(stmt.mn)
=============================================================================
