------------------------------ MODULE Encoding ------------------------------
(***************************************************************************)
(* Encoding of arm64 instructions (src/encode.rs, Inst::encode and its     *)
(* helpers).                                                               *)
(*                                                                         *)
(* Every variant has a row: the bits that are always set, the field that   *)
(* each operand is placed in, and the scale of its offset.  Where what is  *)
(* placed is computed from the operands the field has a name of its own    *)
(* (immr, imms, hw, uoff ...) and Code computes it.  An instruction that   *)
(* fails an assertion of the encoder has no word: the program stops.       *)
(***************************************************************************)
EXTENDS Words, Instructions, LogicalImmediates

Row(base, fields) == [base |-> base, fields |-> fields, scale |-> 0]

Scaled(base, fields, scale) ==
  [base |-> base, fields |-> fields, scale |-> scale]

(* rows of one layout *)
Rows(bases, fields) == [op \in DOMAIN bases |-> Row(bases[op], fields)]

Flag(b) == IF b THEN 1 ELSE 0

(* where the registers and the width go in every layout *)
Sf == [sf |-> At(31, 1)]
RdRn == [rd |-> At(0, 5), rn |-> At(5, 5)]
RdRnRm == RdRn @@ [rm |-> At(16, 5)]
RtRn == [rt |-> At(0, 5), rn |-> At(5, 5)]
RsRtRn == RtRn @@ [rs |-> At(16, 5)]

-----------------------------------------------------------------------------
(* Data processing.                                                        *)

dp_reg(opc) == Shl(opc, 29) \cup Shl(\b01011, 24)

dp_ext(op) == Shl(op, 29) \cup Shl(\b01011, 24) \cup {21}

AddSubRegisterRows ==
  LET plain(opc) == Row(dp_reg(opc), Sf @@ RdRnRm)
      shifted(opc) == Row(dp_reg(opc), Sf @@ RdRnRm @@
                            [shift |-> At(22, 2), amount |-> At(10, 6)])
      extended(op) == Row(dp_ext(op), Sf @@ RdRnRm @@
                            [extend |-> At(13, 3), amount |-> At(10, 3)])
  IN  [AddReg |-> plain(\b00), SubReg |-> plain(\b10),
       AddsReg |-> plain(\b01), SubsReg |-> plain(\b11),
       AddShiftReg |-> shifted(\b00), SubShiftReg |-> shifted(\b10),
       AddsShiftReg |-> shifted(\b01), SubsShiftReg |-> shifted(\b11),
       AddExtReg |-> extended(\b00), SubExtReg |-> extended(\b10),
       AddsExtReg |-> extended(\b01), SubsExtReg |-> extended(\b11)]

MultiplyRows ==
  LET madd == Shl(\b0011011000, 21)
      div == Shl(\b0011010110, 21)
      high(base) == Row(W(base, 0) \cup Shl(31, 10), RdRnRm)
      ra == [ra |-> At(10, 5)]
  IN  [Mul |-> Row(madd \cup Shl(31, 10), Sf @@ RdRnRm),
       Madd |-> Row(madd, Sf @@ RdRnRm @@ ra),
       Msub |-> Row(madd \cup {15}, Sf @@ RdRnRm @@ ra),
       Umull |-> high(\h9BA0), Smull |-> high(\h9B20),
       Smulh |-> high(\h9B40), Umulh |-> high(\h9BC0),
       Sdiv |-> Row(div \cup Shl(\b000011, 10), Sf @@ RdRnRm),
       Udiv |-> Row(div \cup Shl(\b000010, 10), Sf @@ RdRnRm),
       Clz |-> Row(W(\h5AC0, \h1000), Sf @@ RdRn)]

logic_reg(opc, n) == Shl(opc, 29) \cup Shl(\b01010, 24) \cup Shl(n, 21)

logical_imm(opc) ==
  Row(Shl(opc, 29) \cup Shl(\b100100, 23),
      Sf @@ RdRn @@ [n |-> At(22, 1), immr |-> At(16, 6), imms |-> At(10, 6)])

LogicalRows ==
     Rows([AndReg |-> logic_reg(\b00, 0), OrrReg |-> logic_reg(\b01, 0),
           OrnReg |-> logic_reg(\b01, 1), EorReg |-> logic_reg(\b10, 0),
           AndsReg |-> logic_reg(\b11, 0)], Sf @@ RdRnRm)
  @@ [AndImm |-> logical_imm(\b00), OrrImm |-> logical_imm(\b01),
      EorImm |-> logical_imm(\b10), AndsImm |-> logical_imm(\b11)]

dp_imm(op) ==
  Row(Shl(op, 29) \cup Shl(\b100010, 23),
      Sf @@ RdRn @@ [sh |-> At(22, 1), imm12 |-> At(10, 12)])

mov_wide(opc) ==
  Row(Shl(opc, 29) \cup Shl(\b100101, 23),
      Sf @@ [hw |-> At(21, 2), imm16 |-> At(5, 16), rd |-> At(0, 5)])

ImmediateRows ==
  [AddImm |-> dp_imm(\b00), SubImm |-> dp_imm(\b10), AddsImm |-> dp_imm(\b01),
   SubsImm |-> dp_imm(\b11), Movz |-> mov_wide(\b10), Movk |-> mov_wide(\b11),
   Movn |-> mov_wide(\b00)]

(* variable_shift: the 64-bit base is the 32-bit one with sf set *)
variable_shift(low) == Row(W(\h1AC0, low), Sf @@ RdRnRm)

(* bitfield places sf twice, as sf and as N *)
bitfield(opc) ==
  Row(Shl(opc, 29) \cup Shl(\b100110, 23),
      Sf @@ RdRn @@ [n |-> At(22, 1), immr |-> At(16, 6), imms |-> At(10, 6)])

ShiftRows ==
  [LslReg |-> variable_shift(\h2000), LsrReg |-> variable_shift(\h2400),
   AsrReg |-> variable_shift(\h2800),
   Sxtw |-> bitfield(\b00), Sxtb |-> bitfield(\b00), Sxth |-> bitfield(\b00),
   Uxtw |-> bitfield(\b10), LslImm |-> bitfield(\b10),
   LsrImm |-> bitfield(\b10), AsrImm |-> bitfield(\b00),
   Ubfiz |-> bitfield(\b10), Bfi |-> bitfield(\b01), Bfxil |-> bitfield(\b01)]

-----------------------------------------------------------------------------
(* Branches, conditional selects and addresses.                            *)

csel(variant) ==
  Row(Shl(variant \div 2, 30) \cup Shl(\b0011010100, 21)
        \cup Shl(variant % 2, 10),
      Sf @@ RdRnRm @@ [cond |-> At(12, 4)])

(* the four bases of ccmp_imm differ in sf and in bit 30 *)
ccmp_imm(is_cmp) ==
  Row(W(\h3A40, \h0800) \cup Shl(Flag(is_cmp), 30),
      Sf @@ [imm5 |-> At(16, 5), cond |-> At(12, 4), rn |-> At(5, 5),
             nzcv |-> At(0, 4)])

BranchRows ==
  LET to26(base) == Row(Shl(base, 26), [imm26 |-> At(0, 26)])
      cb(base) == Row(Shl(base, 24),
                      Sf @@ [imm19 |-> At(5, 19), rt |-> At(0, 5)])
      tb(base) == Row(Shl(base, 24),
                      [bit |-> At(19, 5) \o <<31>>, imm14 |-> At(5, 14),
                       rt |-> At(0, 5)])
      to(base) == Row(W(base, 0), [rn |-> At(5, 5)])
  IN  [B |-> to26(\b000101), Bl |-> to26(\b100101),
       BCond |-> Row(Shl(\b01010100, 24),
                     [imm19 |-> At(5, 19), cond |-> At(0, 4)]),
       Cbz |-> cb(\b0110100), Cbnz |-> cb(\b0110101),
       Tbz |-> tb(\b0110110), Tbnz |-> tb(\b0110111),
       Ret |-> to(\hD65F), Br |-> to(\hD61F), Blr |-> to(\hD63F),
       Csel |-> csel(\b00), Csinc |-> csel(\b01), Csinv |-> csel(\b10),
       Csneg |-> csel(\b11), CcmpImm |-> ccmp_imm(TRUE),
       CcmnImm |-> ccmp_imm(FALSE)]

AddressRows ==
  LET split == At(29, 2) \o At(5, 19)
  IN  [Adr |-> Row(Shl(\b10000, 24), [imm21 |-> split, rd |-> At(0, 5)]),
       Adrp |-> Row({31} \cup Shl(\b10000, 24),
                    [page |-> split, rd |-> At(0, 5)])]

-----------------------------------------------------------------------------
(* Loads and stores.  size, opc and the rest as in the helpers.            *)

(* general registers at an unsigned offset: `size_111_0_01_opc << 22` *)
ldst_uimm(size, opc) ==
  Scaled(Shl(size, 30) \cup Shl(\b111001, 24) \cup Shl(opc, 22),
         RtRn @@ [uoff |-> At(10, 12)], size)

ldst_uimm_fp(size, opc, scale) ==
  Scaled(Shl(size, 30) \cup Shl(\b111101, 24) \cup Shl(opc, 22),
         RtRn @@ [uoff |-> At(10, 12)], scale)

(* as a bug would: the offset not masked to its nine bits *)
ldst_idx_unmasked(size, opc, idx) ==
  Row(Shl(size, 30) \cup Shl(\b111000, 24) \cup Shl(opc, 22) \cup Shl(idx, 10),
      RtRn @@ [imm9 |-> At(12, 10)])

ldst_idx(size, opc, idx) ==
  Row(Shl(size, 30) \cup Shl(\b111000, 24) \cup Shl(opc, 22) \cup Shl(idx, 10),
      RtRn @@ [imm9 |-> At(12, 9)])

(* as a bug would: the shift at bit 13, which is one of the extension *)
ldst_reg_shift_at_13(size, opc) ==
  Row(Shl(size, 30) \cup Shl(\b111, 27) \cup Shl(opc, 22) \cup {21}
        \cup Shl(\b10, 10),
      RtRn @@ [rm |-> At(16, 5), extend |-> At(13, 3), sh |-> At(13, 1)])

ldst_reg(size, opc) ==
  Row(Shl(size, 30) \cup Shl(\b111, 27) \cup Shl(opc, 22) \cup {21}
        \cup Shl(\b10, 10),
      RtRn @@ [rm |-> At(16, 5), extend |-> At(13, 3), sh |-> At(12, 1)])

ldr_lit(opc) ==
  Row(Shl(opc, 30) \cup Shl(\b011, 27), [imm19 |-> At(5, 19), rt |-> At(0, 5)])

(* the _fp helpers set bit 26 in the word of the general one *)
Fp(row) == [row EXCEPT !.base = @ \cup {26}]

ldst_idx_fp(size, opc, idx) == Fp(ldst_idx(size, opc, idx))

ldst_reg_fp(size, opc) == Fp(ldst_reg(size, opc))

ldr_lit_fp(opc) == Fp(ldr_lit(opc))

GpLoadStoreRows ==
  [LdrImm64 |-> ldst_uimm(3, 1), LdrImm32 |-> ldst_uimm(2, 1),
   StrImm64 |-> ldst_uimm(3, 0), StrImm32 |-> ldst_uimm(2, 0),
   Ldur64 |-> ldst_idx(3, 1, 0), Ldur32 |-> ldst_idx(2, 1, 0),
   Stur64 |-> ldst_idx(3, 0, 0), Stur32 |-> ldst_idx(2, 0, 0),
   Ldurb |-> ldst_idx(0, 1, 0), Ldursb32 |-> ldst_idx(0, 3, 0),
   Ldursb64 |-> ldst_idx(0, 2, 0), Ldurh |-> ldst_idx(1, 1, 0),
   Ldursh32 |-> ldst_idx(1, 3, 0), Ldursh64 |-> ldst_idx(1, 2, 0),
   Sturb |-> ldst_idx(0, 0, 0), Sturh |-> ldst_idx(1, 0, 0),
   Ldursw |-> ldst_idx(2, 2, 0),
   LdrReg64 |-> ldst_reg(3, 1), LdrReg32 |-> ldst_reg(2, 1),
   StrReg64 |-> ldst_reg(3, 0), StrReg32 |-> ldst_reg(2, 0)]

NarrowLoadStoreRows ==
  [Ldrb |-> ldst_uimm(0, 1), Ldrsb32 |-> ldst_uimm(0, 3),
   Ldrsb64 |-> ldst_uimm(0, 2), Ldrh |-> ldst_uimm(1, 1),
   Ldrsh32 |-> ldst_uimm(1, 3), Ldrsh64 |-> ldst_uimm(1, 2),
   Strb |-> ldst_uimm(0, 0), Strh |-> ldst_uimm(1, 0),
   Ldrsw |-> ldst_uimm(2, 2),
   LdrbReg |-> ldst_reg(0, 1), LdrsbReg32 |-> ldst_reg(0, 3),
   LdrsbReg64 |-> ldst_reg(0, 2), LdrhReg |-> ldst_reg(1, 1),
   LdrshReg32 |-> ldst_reg(1, 3), LdrshReg64 |-> ldst_reg(1, 2),
   StrbReg |-> ldst_reg(0, 0), StrhReg |-> ldst_reg(1, 0),
   LdrswReg |-> ldst_reg(2, 2)]

FpLoadStoreRows ==
  [LdrFpImm64 |-> ldst_uimm_fp(3, 1, 3), LdrFpImm32 |-> ldst_uimm_fp(2, 1, 2),
   LdrFpImm16 |-> ldst_uimm_fp(1, 1, 1), LdrFpImm8 |-> ldst_uimm_fp(0, 1, 0),
   LdrFpImm128 |-> ldst_uimm_fp(0, 3, 4), StrFpImm64 |-> ldst_uimm_fp(3, 0, 3),
   StrFpImm32 |-> ldst_uimm_fp(2, 0, 2), StrFpImm16 |-> ldst_uimm_fp(1, 0, 1),
   StrFpImm8 |-> ldst_uimm_fp(0, 0, 0), StrFpImm128 |-> ldst_uimm_fp(0, 2, 4),
   LdurFp64 |-> ldst_idx_fp(3, 1, 0), LdurFp32 |-> ldst_idx_fp(2, 1, 0),
   LdurFp16 |-> ldst_idx_fp(1, 1, 0), LdurFp8 |-> ldst_idx_fp(0, 1, 0),
   LdurFp128 |-> ldst_idx_fp(0, 3, 0), SturFp64 |-> ldst_idx_fp(3, 0, 0),
   SturFp32 |-> ldst_idx_fp(2, 0, 0), SturFp16 |-> ldst_idx_fp(1, 0, 0),
   SturFp8 |-> ldst_idx_fp(0, 0, 0), SturFp128 |-> ldst_idx_fp(0, 2, 0)]

FpIndexLiteralRows ==
  [LdrFpReg64 |-> ldst_reg_fp(3, 1), LdrFpReg32 |-> ldst_reg_fp(2, 1),
   LdrFpReg128 |-> ldst_reg_fp(0, 3), StrFpReg64 |-> ldst_reg_fp(3, 0),
   StrFpReg32 |-> ldst_reg_fp(2, 0), StrFpReg128 |-> ldst_reg_fp(0, 2),
   LdrLit64 |-> ldr_lit(1), LdrLit32 |-> ldr_lit(0), LdrswLit |-> ldr_lit(2),
   LdrFpLit64 |-> ldr_lit_fp(1), LdrFpLit32 |-> ldr_lit_fp(0),
   LdrFpLit128 |-> ldr_lit_fp(2)]

PrePostRows ==
  LET pre == \b11
      post == \b01
  IN  [LdrPre32 |-> ldst_idx(2, 1, pre), StrPre32 |-> ldst_idx(2, 0, pre),
       LdrbPre |-> ldst_idx(0, 1, pre), LdrsbPre32 |-> ldst_idx(0, 3, pre),
       LdrsbPre64 |-> ldst_idx(0, 2, pre), StrbPre |-> ldst_idx(0, 0, pre),
       LdrhPre |-> ldst_idx(1, 1, pre), LdrshPre32 |-> ldst_idx(1, 3, pre),
       LdrshPre64 |-> ldst_idx(1, 2, pre), StrhPre |-> ldst_idx(1, 0, pre),
       LdrPre64 |-> ldst_idx(3, 1, pre), StrPre64 |-> ldst_idx(3, 0, pre),
       LdrPost32 |-> ldst_idx(2, 1, post), StrPost32 |-> ldst_idx(2, 0, post),
       LdrbPost |-> ldst_idx(0, 1, post), LdrsbPost32 |-> ldst_idx(0, 3, post),
       LdrsbPost64 |-> ldst_idx(0, 2, post), StrbPost |-> ldst_idx(0, 0, post),
       LdrhPost |-> ldst_idx(1, 1, post), LdrshPost32 |-> ldst_idx(1, 3, post),
       LdrshPost64 |-> ldst_idx(1, 2, post), StrhPost |-> ldst_idx(1, 0, post),
       LdrPost64 |-> ldst_idx(3, 1, post), StrPost64 |-> ldst_idx(3, 0, post),
       LdrFpPre64 |-> ldst_idx_fp(3, 1, pre),
       StrFpPre64 |-> ldst_idx_fp(3, 0, pre),
       LdrFpPre32 |-> ldst_idx_fp(2, 1, pre),
       StrFpPre32 |-> ldst_idx_fp(2, 0, pre),
       LdrFpPre128 |-> ldst_idx_fp(0, 3, pre),
       StrFpPre128 |-> ldst_idx_fp(0, 2, pre),
       LdrFpPost64 |-> ldst_idx_fp(3, 1, post),
       StrFpPost64 |-> ldst_idx_fp(3, 0, post),
       LdrFpPost32 |-> ldst_idx_fp(2, 1, post),
       StrFpPost32 |-> ldst_idx_fp(2, 0, post),
       LdrFpPost128 |-> ldst_idx_fp(0, 3, post),
       StrFpPost128 |-> ldst_idx_fp(0, 2, post)]

AcquireReleaseRows ==
     Rows(
     [Ldaprb |-> W(\h38BF, \hC000), Ldaprh |-> W(\h78BF, \hC000),
      Ldapr32 |-> W(\hB8BF, \hC000), Ldapr64 |-> W(\hF8BF, \hC000),
      Ldar32 |-> W(\h88DF, \hFC00), Ldar64 |-> W(\hC8DF, \hFC00),
      Ldaxr32 |-> W(\h885F, \hFC00), Ldaxr64 |-> W(\hC85F, \hFC00),
      Stlrb |-> W(\h089F, \hFC00), Stlrh |-> W(\h489F, \hFC00),
      Stlr32 |-> W(\h889F, \hFC00), Stlr64 |-> W(\hC89F, \hFC00)],
       RtRn)
  @@ Rows([Stlxr32 |-> W(\h8800, \hFC00), Stlxr64 |-> W(\hC800, \hFC00)],
          RsRtRn)
  @@ Rows([Clrex |-> W(\hD503, \h3F5F)], <<>>)

AtomicRows ==
  Rows(
    [Ldaddalb |-> W(\h38E0, \h0000), Ldaddalh |-> W(\h78E0, \h0000),
     Ldaddal32 |-> W(\hB8E0, \h0000), Ldaddal64 |-> W(\hF8E0, \h0000),
     Ldumaxalb |-> W(\h38E0, \h6000), Ldumaxalh |-> W(\h78E0, \h6000),
     Ldumaxal32 |-> W(\hB8E0, \h6000), Ldumaxal64 |-> W(\hF8E0, \h6000),
     Ldsmaxalb |-> W(\h38E0, \h4000), Ldsmaxalh |-> W(\h78E0, \h4000),
     Ldsmaxal32 |-> W(\hB8E0, \h4000), Ldsmaxal64 |-> W(\hF8E0, \h4000),
     Lduminalb |-> W(\h38E0, \h7000), Lduminalh |-> W(\h78E0, \h7000),
     Lduminal32 |-> W(\hB8E0, \h7000), Lduminal64 |-> W(\hF8E0, \h7000),
     Ldsminalb |-> W(\h38E0, \h5000), Ldsminalh |-> W(\h78E0, \h5000),
     Ldsminal32 |-> W(\hB8E0, \h5000), Ldsminal64 |-> W(\hF8E0, \h5000),
     Ldclralb |-> W(\h38E0, \h1000), Ldclralh |-> W(\h78E0, \h1000),
     Ldclral32 |-> W(\hB8E0, \h1000), Ldclral64 |-> W(\hF8E0, \h1000),
     Ldeoralb |-> W(\h38E0, \h2000), Ldeoralh |-> W(\h78E0, \h2000),
     Ldeoral32 |-> W(\hB8E0, \h2000), Ldeoral64 |-> W(\hF8E0, \h2000),
     Ldsetalb |-> W(\h38E0, \h3000), Ldsetalh |-> W(\h78E0, \h3000),
     Ldsetal32 |-> W(\hB8E0, \h3000), Ldsetal64 |-> W(\hF8E0, \h3000),
     Swpal32 |-> W(\hB8E0, \h8000), Swpal64 |-> W(\hF8E0, \h8000),
     Swpalb |-> W(\h38E0, \h8000), Swpalh |-> W(\h78E0, \h8000),
     Casalb |-> W(\h08E0, \hFC00), Casalh |-> W(\h48E0, \hFC00),
     Casal32 |-> W(\h88E0, \hFC00), Casal64 |-> W(\hC8E0, \hFC00)],
    RsRtRn)

(* mode: 001 post-index, 010 signed offset, 011 pre-index; l: load *)
ldp_stp(opc, mode, l) ==
  Scaled(Shl(opc, 30) \cup Shl(\b101, 27) \cup Shl(mode, 23) \cup Shl(l, 22),
         [rt1 |-> At(0, 5), rt2 |-> At(10, 5), rn |-> At(5, 5),
          imm7 |-> At(15, 7)],
         IF opc = 0 THEN 2 ELSE 3)

ldp_stp_fp(opc, mode, l) ==
  [Fp(ldp_stp(opc, mode, l)) EXCEPT !.scale = opc + 2]

PairRows ==
  LET off == \b010
      pre == \b011
      post == \b001
  IN  [StpOff32 |-> ldp_stp(0, off, 0), StpOff64 |-> ldp_stp(2, off, 0),
       LdpOff32 |-> ldp_stp(0, off, 1), LdpOff64 |-> ldp_stp(2, off, 1),
       StpPre32 |-> ldp_stp(0, pre, 0), StpPre64 |-> ldp_stp(2, pre, 0),
       StpPost32 |-> ldp_stp(0, post, 0), StpPost64 |-> ldp_stp(2, post, 0),
       LdpPre32 |-> ldp_stp(0, pre, 1), LdpPre64 |-> ldp_stp(2, pre, 1),
       LdpPost32 |-> ldp_stp(0, post, 1), LdpPost64 |-> ldp_stp(2, post, 1)]

FpPairRows ==
  LET off == \b010
      pre == \b011
      post == \b001
  IN  [StpFpOff64 |-> ldp_stp_fp(1, off, 0),
       LdpFpOff64 |-> ldp_stp_fp(1, off, 1),
       StpFpPre64 |-> ldp_stp_fp(1, pre, 0),
       StpFpPost64 |-> ldp_stp_fp(1, post, 0),
       LdpFpPre64 |-> ldp_stp_fp(1, pre, 1),
       LdpFpPost64 |-> ldp_stp_fp(1, post, 1),
       StpFpOff32 |-> ldp_stp_fp(0, off, 0),
       LdpFpOff32 |-> ldp_stp_fp(0, off, 1),
       StpFpPre32 |-> ldp_stp_fp(0, pre, 0),
       StpFpPost32 |-> ldp_stp_fp(0, post, 0),
       LdpFpPre32 |-> ldp_stp_fp(0, pre, 1),
       LdpFpPost32 |-> ldp_stp_fp(0, post, 1),
       StpFpOff128 |-> ldp_stp_fp(2, off, 0),
       LdpFpOff128 |-> ldp_stp_fp(2, off, 1),
       StpFpPre128 |-> ldp_stp_fp(2, pre, 0),
       StpFpPost128 |-> ldp_stp_fp(2, post, 0),
       LdpFpPre128 |-> ldp_stp_fp(2, pre, 1),
       LdpFpPost128 |-> ldp_stp_fp(2, post, 1)]

-----------------------------------------------------------------------------
(* Floating point and vectors.  simd_binary, simd_fp_arith_*, simd_unary,  *)
(* simd_reduce* and fp_mov_reg only differ in the registers they place.    *)

fp_arith(ftype, opcode) ==
  W(\h1E20, 0) \cup Shl(ftype, 22) \cup Shl(opcode, 12) \cup Shl(\b10, 10)

fp_unary(ftype, opcode) ==
  W(\h1E20, 0) \cup Shl(ftype, 22) \cup Shl(opcode, 15) \cup Shl(\b10000, 10)

fp_cmp(ftype) ==
  Row(W(\h1E20, 0) \cup Shl(ftype, 22) \cup Shl(\b001000, 10),
      [rn |-> At(5, 5), rm |-> At(16, 5)])

fp_imm(ftype) ==
  Row(W(\h1E20, 0) \cup Shl(ftype, 22) \cup {12},
      [imm8 |-> At(13, 8), rd |-> At(0, 5)])

fp_csel(ftype) ==
  Row(W(\h1E20, 0) \cup Shl(ftype, 22) \cup Shl(\b11, 10),
      RdRnRm @@ [cond |-> At(12, 4)])

fp_madd(ftype, negated, subtract) ==
  Row(W(\h1F00, 0) \cup Shl(ftype, 22) \cup Shl(negated, 21)
        \cup Shl(subtract, 15),
      RdRnRm @@ [ra |-> At(10, 5)])

(* simd_lane_imm5: the lowest set bit is the size, the index is above it *)
lane(size_log2) == At(17 + size_log2, 4 - size_log2)

simd_dup_lane(size_log2) ==
  Row(W(\h4E00, \h0400) \cup {16 + size_log2},
      RdRn @@ [index |-> lane(size_log2)])

simd_dup_gp(size_log2) ==
  Row(W(\h4E00, \h0C00) \cup {16 + size_log2}, RdRn)

simd_ext_16b == Row(W(\h6E00, 0), RdRnRm @@ [index |-> At(11, 4)])

simd_table_lookup(low) ==
  Row(W(\h4E00, low), [rd |-> At(0, 5), table |-> At(5, 5),
                       index |-> At(16, 5), len |-> At(13, 2)])

simd_extract_lane(base, at, width) ==
  Row(W(base, \h0400), RdRn @@ [index |-> At(at, width)])

simd_extract_lane_gp(size_log2) ==
  Row(W(IF size_log2 = 3 THEN \h4E00 ELSE \h0E00, \h3C00)
        \cup {16 + size_log2},
      RdRn @@ [index |-> lane(size_log2)])

simd_extract_lane_gp_signed(size_log2) ==
  Row(W(\h0E00, \h2C00) \cup {16 + size_log2},
      RdRn @@ [index |-> lane(size_log2)])

(* simd_insert_lane_b, _h, _s and _d *)
simd_insert_lane(base, rd_at, rn_at, width) ==
  Row(W(base, \h0400),
      RdRn @@ [rd_index |-> At(rd_at, width), rn_index |-> At(rn_at, width)])

simd_insert_lane_gp(size_log2) ==
  Row(W(\h4E00, \h1C00) \cup {16 + size_log2},
      RdRn @@ [rd_index |-> lane(size_log2)])

(* the index of a lane to load is split: its high bit is bit 30 *)
simd_load_lane(low, size_log2) ==
  Row(W(\h0D40, low),
      RtRn @@ [index |-> At(10 + size_log2, 3 - size_log2) \o <<30>>])

VectorRows ==
     Rows([FaddD |-> fp_arith(1, 2), FsubD |-> fp_arith(1, 3),
           FmulD |-> fp_arith(1, 0), FdivD |-> fp_arith(1, 1),
           FaddS |-> fp_arith(0, 2)], RdRnRm)
  @@ Rows(
     [FaddV2D |-> W(\h4E60, \hD400), FaddpV2D |-> W(\h6E60, \hD400),
      FmaxpV2D |-> W(\h6E60, \hF400), FminpV2D |-> W(\h6EE0, \hF400),
      FmaxnmpV2D |-> W(\h6E60, \hC400), FminnmpV2D |-> W(\h6EE0, \hC400),
      FmlaV2D |-> W(\h4E60, \hCC00), FmlsV2D |-> W(\h4EE0, \hCC00),
      FmaxV2D |-> W(\h4E60, \hF400), FminV2D |-> W(\h4EE0, \hF400),
      FmaxnmV2D |-> W(\h4E60, \hC400), FminnmV2D |-> W(\h4EE0, \hC400),
      FaddV4S |-> W(\h4E20, \hD400), FaddpV4S |-> W(\h6E20, \hD400),
      FmaxpV4S |-> W(\h6E20, \hF400), FminpV4S |-> W(\h6EA0, \hF400),
      FmaxnmpV4S |-> W(\h6E20, \hC400), FminnmpV4S |-> W(\h6EA0, \hC400),
      FmlaV4S |-> W(\h4E20, \hCC00), FmlsV4S |-> W(\h4EA0, \hCC00),
      FmaxV4S |-> W(\h4E20, \hF400), FminV4S |-> W(\h4EA0, \hF400),
      FmaxnmV4S |-> W(\h4E20, \hC400), FminnmV4S |-> W(\h4EA0, \hC400),
      AddV4S |-> W(\h4EA0, \h8400), AddV2D |-> W(\h4EE0, \h8400),
      SubV2D |-> W(\h6EE0, \h8400), AddpV2D |-> W(\h4EE0, \hBC00),
      AddpV16B |-> W(\h4E20, \hBC00), AddpV8H |-> W(\h4E60, \hBC00),
      AddpV4S |-> W(\h4EA0, \hBC00), SmaxpV16B |-> W(\h4E20, \hA400),
      SmaxpV8H |-> W(\h4E60, \hA400), SmaxpV4S |-> W(\h4EA0, \hA400),
      SminpV16B |-> W(\h4E20, \hAC00), SminpV8H |-> W(\h4E60, \hAC00),
      SminpV4S |-> W(\h4EA0, \hAC00), SmaxV4S |-> W(\h4EA0, \h6400),
      SminV4S |-> W(\h4EA0, \h6C00), UmaxV4S |-> W(\h6EA0, \h6400),
      UmaxpV16B |-> W(\h6E20, \hA400), UmaxpV8H |-> W(\h6E60, \hA400),
      UminV4S |-> W(\h6EA0, \h6C00), UminpV16B |-> W(\h6E20, \hAC00),
      UminpV8H |-> W(\h6E60, \hAC00), UmaxpV4S |-> W(\h6EA0, \hA400),
      UminpV4S |-> W(\h6EA0, \hAC00)],
       RdRnRm)
  @@ Rows(
     [FaddpV2S |-> W(\h7E30, \hD800), FaddpV2DScalar |-> W(\h7E70, \hD800),
      FmaxpV2DScalar |-> W(\h7E70, \hF800),
      FminpV2DScalar |-> W(\h7EF0, \hF800),
      FmaxnmpV2DScalar |-> W(\h7E70, \hC800),
      FminnmpV2DScalar |-> W(\h7EF0, \hC800), AddvV16B |-> W(\h4E31, \hB800),
      AddvV8H |-> W(\h4E71, \hB800)], RdRn)
  @@ [DupGpV16B |-> simd_dup_gp(0), DupGpV8H |-> simd_dup_gp(1),
      DupGpV4S |-> simd_dup_gp(2), DupGpV2D |-> simd_dup_gp(3),
      UmovFromLaneS |-> simd_extract_lane_gp(2),
      UmovFromLaneD |-> simd_extract_lane_gp(3)]

VectorRowsContinued ==
     Rows(
     [AddvV4S |-> W(\h4EB1, \hB800), UmaxvV4S |-> W(\h6EB0, \hA800),
      SmaxvV4S |-> W(\h4EB0, \hA800), UminvV4S |-> W(\h6EB1, \hA800),
      SminvV4S |-> W(\h4EB1, \hA800), FmaxvV4S |-> W(\h6E30, \hF800),
      FminvV4S |-> W(\h6EB0, \hF800), FmaxnmvV4S |-> W(\h6E30, \hC800),
      FminnmvV4S |-> W(\h6EB0, \hC800), UmaxvV16B |-> W(\h6E30, \hA800),
      UmaxvV8H |-> W(\h6E70, \hA800), SmaxvV16B |-> W(\h4E30, \hA800),
      SmaxvV8H |-> W(\h4E70, \hA800), UminvV16B |-> W(\h6E31, \hA800),
      UminvV8H |-> W(\h6E71, \hA800), SminvV16B |-> W(\h4E31, \hA800),
      SminvV8H |-> W(\h4E71, \hA800), FabsV4S |-> W(\h4EA0, \hF800),
      FabsV2D |-> W(\h4EE0, \hF800), FnegV4S |-> W(\h6EA0, \hF800),
      FnegV2D |-> W(\h6EE0, \hF800), FsqrtV4S |-> W(\h6EA1, \hF800),
      FsqrtV2D |-> W(\h6EE1, \hF800), ScvtfV4S |-> W(\h4E21, \hD800),
      ScvtfV2D |-> W(\h4E61, \hD800), UcvtfV4S |-> W(\h6E21, \hD800),
      UcvtfV2D |-> W(\h6E61, \hD800), FcvtzsV4S |-> W(\h4EA1, \hB800),
      FcvtzsV2D |-> W(\h4EE1, \hB800), FcvtzuV4S |-> W(\h6EA1, \hB800),
      FcvtzuV2D |-> W(\h6EE1, \hB800), FrecpeV4S |-> W(\h4EA1, \hD800),
      FrecpeV2D |-> W(\h4EE1, \hD800), FrsqrteV4S |-> W(\h6EA1, \hD800),
      FrsqrteV2D |-> W(\h6EE1, \hD800), FrintnV4S |-> W(\h4E21, \h8800),
      FrintnV2D |-> W(\h4E61, \h8800), FrintmV4S |-> W(\h4E21, \h9800),
      FrintmV2D |-> W(\h4E61, \h9800), FrintpV4S |-> W(\h4EA1, \h8800),
      FrintpV2D |-> W(\h4EE1, \h8800), FrintzV4S |-> W(\h4EA1, \h9800),
      FrintzV2D |-> W(\h4EE1, \h9800), FrintaV4S |-> W(\h6E21, \h8800),
      FrintaV2D |-> W(\h6E61, \h8800), FrintiV4S |-> W(\h6EA1, \h9800),
      FrintiV2D |-> W(\h6EE1, \h9800), FmovRegD |-> W(\h1E60, \h4000),
      FmovRegS |-> W(\h1E20, \h4000)],
       RdRn)
  @@ Rows(
     [FsubV2D |-> W(\h4EE0, \hD400), FmulV2D |-> W(\h6E60, \hDC00),
      FdivV2D |-> W(\h6E60, \hFC00), FabdV2D |-> W(\h6EE0, \hD400),
      FrecpsV2D |-> W(\h4E60, \hFC00), FrsqrtsV2D |-> W(\h4EE0, \hFC00),
      FsubV4S |-> W(\h4EA0, \hD400), FmulV4S |-> W(\h6E20, \hDC00),
      FdivV4S |-> W(\h6E20, \hFC00), FrecpsV4S |-> W(\h4E20, \hFC00),
      FrsqrtsV4S |-> W(\h4EA0, \hFC00), SubV4S |-> W(\h6EA0, \h8400)],
       RdRnRm)
  @@ Rows([FsubS |-> fp_arith(0, 3), FmulS |-> fp_arith(0, 0),
           FdivS |-> fp_arith(0, 1)], RdRnRm)
  (* simd_mov_reg: ORR of a register with itself *)
  @@ Rows(
     [MovV8B |-> W(\h0EA0, \h1C00), MovV16B |-> W(\h4EA0, \h1C00),
      MovV4S |-> W(\h4EA0, \h1C00), MovV2D |-> W(\h4EA0, \h1C00)],
       RdRn @@ [again |-> At(16, 5)])
  @@ [DupV16B |-> simd_dup_lane(0), DupV8H |-> simd_dup_lane(1),
      DupV4S |-> simd_dup_lane(2), DupV2D |-> simd_dup_lane(3)]

LogicShuffleRows ==
     Rows(
     [AndV16B |-> W(\h4E20, \h1C00), BicV16B |-> W(\h4E60, \h1C00),
      OrrV16B |-> W(\h4EA0, \h1C00), EorV16B |-> W(\h6E20, \h1C00),
      BifV16B |-> W(\h6EE0, \h1C00), BitV16B |-> W(\h6EA0, \h1C00),
      BslV16B |-> W(\h6E60, \h1C00), CmeqV4S |-> W(\h6EA0, \h8C00),
      FcmeqV4S |-> W(\h4E20, \hE400), FcmeqV2D |-> W(\h4E60, \hE400),
      CmhsV4S |-> W(\h6EA0, \h3C00), CmhiV4S |-> W(\h6EA0, \h3400),
      CmgeV4S |-> W(\h4EA0, \h3C00), FcmgeV4S |-> W(\h6E20, \hE400),
      FcmgeV2D |-> W(\h6E60, \hE400), CmgtV4S |-> W(\h4EA0, \h3400),
      FcmgtV4S |-> W(\h6EA0, \hE400), FcmgtV2D |-> W(\h6EE0, \hE400),
      Zip1V4S |-> W(\h4E80, \h3800), Zip1V2D |-> W(\h4EC0, \h3800),
      Zip2V4S |-> W(\h4E80, \h7800), Zip2V2D |-> W(\h4EC0, \h7800),
      Uzp1V4S |-> W(\h4E80, \h1800), Uzp1V2D |-> W(\h4EC0, \h1800),
      Uzp2V4S |-> W(\h4E80, \h5800), Uzp2V2D |-> W(\h4EC0, \h5800),
      Trn1V4S |-> W(\h4E80, \h2800), Trn1V2D |-> W(\h4EC0, \h2800),
      Trn2V4S |-> W(\h4E80, \h6800), Trn2V2D |-> W(\h4EC0, \h6800)],
       RdRnRm)
  @@ Rows(
     [FcmgeZeroV2D |-> W(\h6EE0, \hC800), FcmgtZeroV2D |-> W(\h4EE0, \hC800),
      FcmleZeroV2D |-> W(\h6EE0, \hD800), FcmltZeroV2D |-> W(\h4EE0, \hE800),
      Rev64V4S |-> W(\h4EA0, \h0800)], RdRn)

LaneScalarRows ==
     [ExtV16B |-> simd_ext_16b, TblV16B |-> simd_table_lookup(0),
      TbxV16B |-> simd_table_lookup(\h1000),
      MovFromLaneS |-> simd_extract_lane(\h5E04, 19, 2),
      MovFromLaneD |-> simd_extract_lane(\h5E08, 20, 1),
      MovFromLaneGpS |-> simd_extract_lane_gp(2),
      MovFromLaneGpD |-> simd_extract_lane_gp(3),
      UmovFromLaneH |-> simd_extract_lane_gp(1),
      UmovFromLaneB |-> simd_extract_lane_gp(0),
      SmovFromLaneH |-> simd_extract_lane_gp_signed(1),
      SmovFromLaneB |-> simd_extract_lane_gp_signed(0),
      MovLaneS |-> simd_insert_lane(\h6E04, 19, 13, 2),
      MovLaneD |-> simd_insert_lane(\h6E08, 20, 14, 1),
      MovLaneH |-> simd_insert_lane(\h6E02, 18, 12, 3),
      MovLaneB |-> simd_insert_lane(\h6E01, 17, 11, 4),
      MovLaneFromGpS |-> simd_insert_lane_gp(2),
      MovLaneFromGpD |-> simd_insert_lane_gp(3),
      MovLaneFromGpH |-> simd_insert_lane_gp(1),
      MovLaneFromGpB |-> simd_insert_lane_gp(0),
      Ld1LaneB |-> simd_load_lane(0, 0),
      Ld1LaneH |-> simd_load_lane(\h4000, 1),
      Ld1LaneS |-> simd_load_lane(\h8000, 2),
      Ld1LaneD |-> simd_load_lane(\h8400, 3)]
  @@ Rows([FnegD |-> fp_unary(1, 2), FnegS |-> fp_unary(0, 2),
           FabsD |-> fp_unary(1, 1), FabsS |-> fp_unary(0, 1),
           FsqrtD |-> fp_unary(1, 3), FsqrtS |-> fp_unary(0, 3)], RdRn)
  @@ [FcmpD |-> fp_cmp(1), FcmpS |-> fp_cmp(0), FmovImmD |-> fp_imm(1),
      FmovImmS |-> fp_imm(0), FcselD |-> fp_csel(1), FcselS |-> fp_csel(0),
      FmaddD |-> fp_madd(1, 0, 0), FmaddS |-> fp_madd(0, 0, 0),
      FmsubD |-> fp_madd(1, 0, 1), FmsubS |-> fp_madd(0, 0, 1),
      FnmsubD |-> fp_madd(1, 1, 1), FnmsubS |-> fp_madd(0, 1, 1)]

-----------------------------------------------------------------------------
(* Conversions and system instructions.                                    *)

hint(imm) == W(\hD503, \h201F) \cup Shl(imm, 5)

barrier(low) == Row(W(\hD503, low), [option |-> At(8, 4)])

ConversionSystemRows ==
  LET toInt(base) == Row(W(base, 0), RdRn @@ [dst_64bit |-> At(31, 1),
                                              src_double |-> At(22, 1)])
      toFp(base) == Row(W(base, 0), RdRn @@ [src_64bit |-> At(31, 1),
                                             dst_double |-> At(22, 1)])
      imm16 == [imm16 |-> At(5, 16)]
  IN  [Fcvtzs |-> toInt(\h1E38), Fcvtzu |-> toInt(\h1E39),
       Scvtf |-> toFp(\h1E22), Ucvtf |-> toFp(\h1E23),
       Svc |-> Row(Shl(\b11010100000, 21) \cup {0}, imm16),
       Brk |-> Row(Shl(\b11010100001, 21), imm16),
       Dmb |-> barrier(\h30BF), Dsb |-> barrier(\h309F),
       Isb |-> barrier(\h30DF)]
  @@ Rows([FcvtDFromS |-> W(\h1E22, \hC000), FcvtSFromD |-> W(\h1E62, \h4000),
           FmovToD |-> Shl(\b10011110011, 21) \cup Shl(\b00111, 16),
           FmovToS |-> W(\h1E27, 0),
           FmovFromD |-> Shl(\b10011110011, 21) \cup Shl(\b00110, 16),
           FmovFromS |-> W(\h1E26, 0)], RdRn)
  @@ Rows([Nop |-> hint(0), Yield |-> hint(1), Wfe |-> hint(2),
           Wfi |-> hint(3), Sev |-> hint(4), Sevl |-> hint(5)], <<>>)

-----------------------------------------------------------------------------
(* encode *)

Table ==
     AddSubRegisterRows @@ MultiplyRows @@ LogicalRows @@ ImmediateRows
  @@ ShiftRows @@ BranchRows @@ AddressRows @@ GpLoadStoreRows
  @@ NarrowLoadStoreRows @@ FpLoadStoreRows @@ FpIndexLiteralRows
  @@ PrePostRows @@ AcquireReleaseRows @@ AtomicRows @@ PairRows
  @@ FpPairRows @@ VectorRows @@ VectorRowsContinued @@ LogicShuffleRows
  @@ LaneScalarRows @@ ConversionSystemRows

Bits(inst) == IF inst.sf THEN 64 ELSE 32

SignExtensions == {"Sxtw", "Sxtb", "Sxth", "Uxtw"}

(* immr and imms of the aliases of SBFM, BFM and UBFM *)
Rotation(inst) ==
  CASE inst.op \in SignExtensions -> 0
    [] inst.op = "LslImm" -> (Bits(inst) - inst.amount) % Bits(inst)
    [] inst.op \in {"LsrImm", "AsrImm"} -> inst.amount
    [] inst.op \in {"Ubfiz", "Bfi"} -> (Bits(inst) - inst.lsb) % Bits(inst)
    [] inst.op = "Bfxil" -> inst.lsb

LastBit(inst) ==
  CASE inst.op \in {"Sxtw", "Uxtw"} -> 31
    [] inst.op = "Sxtb" -> 7
    [] inst.op = "Sxth" -> 15
    [] inst.op = "LslImm" -> Bits(inst) - 1 - inst.amount
    [] inst.op \in {"LsrImm", "AsrImm"} -> Bits(inst) - 1
    [] inst.op \in {"Ubfiz", "Bfi"} -> inst.width - 1
    [] inst.op = "Bfxil" -> inst.lsb + inst.width - 1

LogicalImmediate == {"AndImm", "OrrImm", "EorImm", "AndsImm"}

(* what is placed in a field *)
Code(inst, field) ==
  LET logical == encode_logical_immediate(inst.imm, Bits(inst))
      is64 == inst.op \in {"Sxtw", "Uxtw"} \/ inst.sf
  IN  CASE field \in {"dst_64bit", "src_64bit", "dst_double", "src_double"} ->
             Flag(inst[field])
        [] field = "sf" -> Flag(is64)
        [] field = "n" -> IF inst.op \in LogicalImmediate THEN logical.n
                          ELSE Flag(is64)
        [] field = "immr" -> IF inst.op \in LogicalImmediate THEN logical.immr
                             ELSE Rotation(inst)
        [] field = "imms" -> IF inst.op \in LogicalImmediate THEN logical.imms
                             ELSE LastBit(inst)
        [] field = "sh" -> Flag(inst.shift)
        [] field = "shift" -> RegShift[inst.shift]
        [] field = "extend" -> IF inst.op \in DOMAIN AddSubRegisterRows
                               THEN RegExtend[inst.extend]
                               ELSE AddrExtend[inst.extend]
        [] field = "cond" -> Cond[inst.cond]
        [] field = "option" -> BarrierOpt[inst.option]
        [] field = "hw" -> inst.shift \div 16
        [] field \in {"imm26", "imm19", "imm14"} -> inst.offset \div 4
        [] field \in {"uoff", "imm7"} ->
             inst.offset \div 2^Table[inst.op].scale
        [] field = "imm9" -> inst.offset
        [] field = "imm21" -> inst.imm
        [] field = "page" -> inst.imm.pages
        [] field = "again" -> inst.rn
        [] field = "len" -> inst.table_len - 1
        [] OTHER -> inst[field]

(* the assertions, by the field whose value they guard *)
Asserted(inst, field) ==
  CASE field \in {"imm26", "imm19", "imm14"} ->
         SignedScaled(inst.offset, Len(Table[inst.op].fields[field]), 2)
    [] field = "imm9" -> SignedScaled(inst.offset, 9, 0)
    [] field = "imm7" -> SignedScaled(inst.offset, 7, Table[inst.op].scale)
    [] field = "uoff" -> UnsignedScaled(inst.offset, 12, Table[inst.op].scale)
    [] field = "imm21" -> SignedScaled(inst.imm, 21, 0)
    [] field = "page" -> /\ inst.imm.rest = 0
                         /\ SignedScaled(inst.imm.pages, 21, 0)
    [] field = "bit" -> inst.bit < Bits(inst)
    [] field = "amount" -> IF "extend" \in DOMAIN inst THEN inst.amount <= 4
                           ELSE inst.amount < Bits(inst)
    [] field = "imm12" -> inst.imm12 <= \hFFF
    [] field = "imm5" -> inst.imm5 <= 31
    [] field = "nzcv" -> inst.nzcv <= 15
    [] field = "hw" -> inst.shift \in {0, 16} \cup IF inst.sf THEN {32, 48}
                                                   ELSE {}
    [] field = "len" -> inst.table_len \in 1 .. 4
    [] field \in {"index", "rd_index", "rn_index"} ->
         inst[field] < 2^Len(Table[inst.op].fields[field])
    [] OTHER -> TRUE

Asserts(inst) ==
  /\ \A field \in DOMAIN Table[inst.op].fields : Asserted(inst, field)
  /\ inst.op \in {"LslImm", "LsrImm", "AsrImm"} => inst.amount < Bits(inst)
  /\ inst.op \in {"Ubfiz", "Bfi", "Bfxil"} =>
       inst.lsb < Bits(inst) /\ inst.width \in 1 .. Bits(inst) - inst.lsb
  /\ inst.op \in LogicalImmediate =>
       /\ inst.imm \subseteq 0 .. Bits(inst) - 1
       /\ encode_logical_immediate(inst.imm, Bits(inst)) # None

encode(inst) ==
  LET row == Table[inst.op]
  IN  row.base \cup UNION {Place(Code(inst, field), row.fields[field]) :
                             field \in DOMAIN row.fields}

=============================================================================
