---------------------------- MODULE Instructions ----------------------------
(***************************************************************************)
(* The arm64 instructions (src/encode.rs, enum Inst) and the types of      *)
(* their operands (src/reg.rs, encode.rs AddrExtend, RegShift, RegExtend,  *)
(* BarrierOpt).                                                            *)
(*                                                                         *)
(* An instruction is a record: op names the variant and the other fields   *)
(* are the variant's own, by the names the source gives them.  Registers   *)
(* are numbers (31 is SP or the zero register); a u64 immediate is the set *)
(* of its one bits; the immediate of ADRP, wider than the integers of TLC, *)
(* is the record [pages, rest] of its quotient and remainder by 4096.      *)
(***************************************************************************)
EXTENDS Integers, TLC

(* reg.rs Cond: the code of each condition *)
Cond == [EQ |-> 0, NE |-> 1, CS |-> 2, CC |-> 3, MI |-> 4, PL |-> 5,
         VS |-> 6, VC |-> 7, HI |-> 8, LS |-> 9, GE |-> 10, LT |-> 11,
         GT |-> 12, LE |-> 13, AL |-> 14, NV |-> 15]

(* How a memory index is extended, and how the second source of a data     *)
(* processing instruction is shifted or extended.                          *)
AddrExtend == [Uxtw |-> \b010, Lsl |-> \b011, Sxtw |-> \b110, Sxtx |-> \b111]

RegShift == [Lsl |-> \b00, Lsr |-> \b01, Asr |-> \b10]

RegExtend == [Uxtb |-> \b000, Uxth |-> \b001, Uxtw |-> \b010, Uxtx |-> \b011,
              Sxtb |-> \b100, Sxth |-> \b101, Sxtw |-> \b110, Sxtx |-> \b111]

BarrierOpt == [Oshld |-> 1, Oshst |-> 2, Osh |-> 3, Nshld |-> 5, Nshst |-> 6,
               Nsh |-> 7, Ishld |-> 9, Ishst |-> 10, Ish |-> 11, Ld |-> 13,
               St |-> 14, Sy |-> 15]

(* GpReg::new and FpReg::new *)
Registers == 0 .. 31

(* the values of a type, by its name in the source *)
Values == [GpReg |-> Registers, FpReg |-> Registers, bool |-> BOOLEAN,
           u8 |-> 0 .. 255, u16 |-> 0 .. 65535, i16 |-> -32768 .. 32767,
           i32 |-> Int, i64 |-> [pages : Int, rest : 0 .. 4095],
           u64 |-> SUBSET (0 .. 63), Cond |-> DOMAIN Cond,
           RegShift |-> DOMAIN RegShift, RegExtend |-> DOMAIN RegExtend,
           AddrExtend |-> DOMAIN AddrExtend, BarrierOpt |-> DOMAIN BarrierOpt]

Of(type, operands) == [operand \in operands |-> type]

Variants(ops, operands) == [op \in ops |-> operands]

-----------------------------------------------------------------------------
(* The variants in the order of the source, each with its operands.        *)

AddSubRegister ==
     Variants({"AddReg", "SubReg", "AddsReg", "SubsReg"},
         Of("GpReg", {"rd", "rn", "rm"}) @@ Of("bool", {"sf"}))
  @@ Variants({"AddShiftReg", "SubShiftReg", "AddsShiftReg", "SubsShiftReg"},
         Of("GpReg", {"rd", "rn", "rm"}) @@ Of("RegShift", {"shift"})
           @@ Of("u8", {"amount"}) @@ Of("bool", {"sf"}))
  @@ Variants({"AddExtReg", "SubExtReg", "AddsExtReg", "SubsExtReg"},
         Of("GpReg", {"rd", "rn", "rm"}) @@ Of("RegExtend", {"extend"})
           @@ Of("u8", {"amount"}) @@ Of("bool", {"sf"}))

MultiplyDivideSelect ==
     Variants({"Mul", "Sdiv", "Udiv"},
         Of("GpReg", {"rd", "rn", "rm"}) @@ Of("bool", {"sf"}))
  @@ Variants({"Madd", "Msub"},
         Of("GpReg", {"rd", "rn", "rm", "ra"}) @@ Of("bool", {"sf"}))
  @@ Variants({"Umull", "Smull", "Smulh", "Umulh"},
         Of("GpReg", {"rd", "rn", "rm"}))
  @@ Variants({"Clz"}, Of("GpReg", {"rd", "rn"}) @@ Of("bool", {"sf"}))
  @@ Variants({"Csel", "Csinv", "Csneg"},
         Of("GpReg", {"rd", "rn", "rm"}) @@ Of("Cond", {"cond"})
           @@ Of("bool", {"sf"}))
  @@ Variants({"CcmpImm", "CcmnImm"},
         Of("GpReg", {"rn"}) @@ Of("u8", {"imm5", "nzcv"})
           @@ Of("Cond", {"cond"}) @@ Of("bool", {"sf"}))

Logical ==
     Variants({"AndReg", "OrrReg", "OrnReg", "EorReg", "AndsReg"},
         Of("GpReg", {"rd", "rn", "rm"}) @@ Of("bool", {"sf"}))
  @@ Variants({"AndImm", "OrrImm", "EorImm", "AndsImm"},
         Of("GpReg", {"rd", "rn"}) @@ Of("u64", {"imm"})
           @@ Of("bool", {"sf"}))

AddSubMoveImmediate ==
     Variants({"AddImm", "SubImm", "AddsImm", "SubsImm"},
         Of("GpReg", {"rd", "rn"}) @@ Of("u16", {"imm12"})
           @@ Of("bool", {"shift", "sf"}))
  @@ Variants({"Movz", "Movk", "Movn"},
         Of("GpReg", {"rd"}) @@ Of("u16", {"imm16"})
           @@ Of("u8", {"shift"}) @@ Of("bool", {"sf"}))

ShiftsAndBitfields ==
     Variants({"LslReg", "LsrReg", "AsrReg"},
         Of("GpReg", {"rd", "rn", "rm"}) @@ Of("bool", {"sf"}))
  @@ Variants({"Sxtw", "Uxtw"}, Of("GpReg", {"rd", "rn"}))
  @@ Variants({"Sxtb", "Sxth"},
         Of("GpReg", {"rd", "rn"}) @@ Of("bool", {"sf"}))
  @@ Variants({"LslImm", "LsrImm", "AsrImm"},
         Of("GpReg", {"rd", "rn"}) @@ Of("u8", {"amount"})
           @@ Of("bool", {"sf"}))
  @@ Variants({"Ubfiz", "Bfi", "Bfxil"},
         Of("GpReg", {"rd", "rn"}) @@ Of("u8", {"lsb", "width"})
           @@ Of("bool", {"sf"}))

BranchesAndAddresses ==
     Variants({"B", "Bl"}, Of("i32", {"offset"}))
  @@ Variants({"BCond"}, Of("Cond", {"cond"}) @@ Of("i32", {"offset"}))
  @@ Variants({"Cbz", "Cbnz"},
         Of("GpReg", {"rt"}) @@ Of("i32", {"offset"}) @@ Of("bool", {"sf"}))
  @@ Variants({"Tbz", "Tbnz"},
         Of("GpReg", {"rt"}) @@ Of("u8", {"bit"})
           @@ Of("i32", {"offset"}) @@ Of("bool", {"sf"}))
  @@ Variants({"Ret", "Br", "Blr"}, Of("GpReg", {"rn"}))
  @@ Variants({"Csinc"},
         Of("GpReg", {"rd", "rn", "rm"}) @@ Of("Cond", {"cond"})
           @@ Of("bool", {"sf"}))
  @@ Variants({"Adr"}, Of("GpReg", {"rd"}) @@ Of("i32", {"imm"}))
  @@ Variants({"Adrp"}, Of("GpReg", {"rd"}) @@ Of("i64", {"imm"}))

LoadStoreWords ==
     Variants({"LdrImm64", "LdrImm32", "StrImm64", "StrImm32"},
         Of("GpReg", {"rt", "rn"}) @@ Of("u16", {"offset"}))
  @@ Variants({"Ldur64", "Ldur32", "Stur64", "Stur32", "Ldurb", "Ldursb32",
          "Ldursb64", "Ldurh", "Ldursh32", "Ldursh64", "Sturb", "Sturh",
          "Ldursw"},
         Of("GpReg", {"rt", "rn"}) @@ Of("i16", {"offset"}))
  @@ Variants({"LdrReg64", "LdrReg32", "StrReg64", "StrReg32"},
         Of("GpReg", {"rt", "rn", "rm"}) @@ Of("AddrExtend", {"extend"})
           @@ Of("bool", {"shift"}))

LoadStoreNarrow ==
     Variants({"Ldrb", "Ldrsb32", "Ldrsb64", "Ldrh", "Ldrsh32", "Ldrsh64",
          "Strb", "Strh", "Ldrsw"},
         Of("GpReg", {"rt", "rn"}) @@ Of("u16", {"offset"}))
  @@ Variants({"LdrbReg", "LdrsbReg32", "LdrsbReg64", "LdrhReg", "LdrshReg32",
          "LdrshReg64", "StrbReg", "StrhReg", "LdrswReg"},
         Of("GpReg", {"rt", "rn", "rm"}) @@ Of("AddrExtend", {"extend"})
           @@ Of("bool", {"shift"}))

LoadStoreVector ==
     Variants({"LdrFpImm64", "LdrFpImm32", "LdrFpImm16", "LdrFpImm8",
          "LdrFpImm128", "StrFpImm64", "StrFpImm32", "StrFpImm16",
          "StrFpImm8", "StrFpImm128"},
         Of("FpReg", {"rt"}) @@ Of("GpReg", {"rn"})
           @@ Of("u16", {"offset"}))
  @@ Variants({"LdurFp64", "LdurFp32", "LdurFp16", "LdurFp8", "LdurFp128",
          "SturFp64"},
         Of("FpReg", {"rt"}) @@ Of("GpReg", {"rn"})
           @@ Of("i16", {"offset"}))

LoadStoreVectorRest ==
     Variants({"SturFp32", "SturFp16", "SturFp8", "SturFp128"},
         Of("FpReg", {"rt"}) @@ Of("GpReg", {"rn"})
           @@ Of("i16", {"offset"}))
  @@ Variants({"LdrFpReg64", "LdrFpReg32", "LdrFpReg128", "StrFpReg64",
          "StrFpReg32", "StrFpReg128"},
         Of("FpReg", {"rt"}) @@ Of("GpReg", {"rn", "rm"})
           @@ Of("AddrExtend", {"extend"}) @@ Of("bool", {"shift"}))
  @@ Variants({"LdrLit64", "LdrLit32", "LdrswLit"},
         Of("GpReg", {"rt"}) @@ Of("i32", {"offset"}))
  @@ Variants({"LdrFpLit64", "LdrFpLit32", "LdrFpLit128"},
         Of("FpReg", {"rt"}) @@ Of("i32", {"offset"}))

LoadStorePre ==
     Variants({"LdrPre32", "StrPre32", "LdrbPre", "LdrsbPre32", "LdrsbPre64",
          "StrbPre", "LdrhPre", "LdrshPre32", "LdrshPre64", "StrhPre",
          "LdrPre64", "StrPre64"},
         Of("GpReg", {"rt", "rn"}) @@ Of("i16", {"offset"}))
  @@ Variants({"LdrFpPre64", "StrFpPre64", "LdrFpPre32", "StrFpPre32",
          "LdrFpPre128", "StrFpPre128"},
         Of("FpReg", {"rt"}) @@ Of("GpReg", {"rn"})
           @@ Of("i16", {"offset"}))

LoadStorePost ==
     Variants({"LdrPost32", "StrPost32", "LdrbPost", "LdrsbPost32",
          "LdrsbPost64", "StrbPost", "LdrhPost", "LdrshPost32",
          "LdrshPost64", "StrhPost", "LdrPost64", "StrPost64"},
         Of("GpReg", {"rt", "rn"}) @@ Of("i16", {"offset"}))
  @@ Variants({"LdrFpPost64", "StrFpPost64", "LdrFpPost32", "StrFpPost32",
          "LdrFpPost128", "StrFpPost128"},
         Of("FpReg", {"rt"}) @@ Of("GpReg", {"rn"})
           @@ Of("i16", {"offset"}))

AcquireRelease ==
     Variants({"Ldaprb", "Ldaprh", "Ldapr32", "Ldapr64", "Ldar32", "Ldar64",
          "Ldaxr32", "Ldaxr64", "Stlrb", "Stlrh", "Stlr32", "Stlr64"},
         Of("GpReg", {"rt", "rn"}))
  @@ Variants({"Stlxr32", "Stlxr64", "Ldaddalb", "Ldaddalh", "Ldaddal32",
          "Ldaddal64", "Ldumaxalb", "Ldumaxalh", "Ldumaxal32",
          "Ldumaxal64"}, Of("GpReg", {"rs", "rt", "rn"}))
  @@ Variants({"Clrex"}, <<>>)

AtomicMinMaxBits ==
     Variants({"Ldsmaxalb", "Ldsmaxalh", "Ldsmaxal32", "Ldsmaxal64",
          "Lduminalb", "Lduminalh", "Lduminal32", "Lduminal64",
          "Ldsminalb", "Ldsminalh", "Ldsminal32", "Ldsminal64", "Ldclralb",
          "Ldclralh"}, Of("GpReg", {"rs", "rt", "rn"}))

AtomicRest ==
     Variants({"Ldclral32", "Ldclral64", "Ldeoralb", "Ldeoralh", "Ldeoral32",
          "Ldeoral64", "Ldsetalb", "Ldsetalh", "Ldsetal32", "Ldsetal64",
          "Swpal32", "Swpal64", "Swpalb", "Swpalh", "Casalb", "Casalh",
          "Casal32", "Casal64"}, Of("GpReg", {"rs", "rt", "rn"}))

PairsOfGp ==
     Variants({"StpOff32", "StpOff64", "LdpOff32", "LdpOff64", "StpPre32",
          "StpPre64", "StpPost32", "StpPost64", "LdpPre32", "LdpPre64",
          "LdpPost32", "LdpPost64"},
         Of("GpReg", {"rt1", "rt2", "rn"}) @@ Of("i16", {"offset"}))

PairsOfFp ==
     Variants({"StpFpOff64", "LdpFpOff64", "StpFpPre64", "StpFpPost64",
          "LdpFpPre64", "LdpFpPost64", "StpFpOff32", "LdpFpOff32",
          "StpFpPre32", "StpFpPost32", "LdpFpPre32", "LdpFpPost32",
          "StpFpOff128", "LdpFpOff128", "StpFpPre128", "StpFpPost128",
          "LdpFpPre128", "LdpFpPost128"},
         Of("FpReg", {"rt1", "rt2"}) @@ Of("GpReg", {"rn"})
           @@ Of("i16", {"offset"}))

VectorArithmetic ==
     Variants({"FaddD", "FsubD", "FmulD", "FdivD", "FaddS", "FaddV2D",
          "FaddV4S", "FaddpV2D", "FaddpV4S", "FmaxpV2D", "FmaxpV4S",
          "FminpV2D", "FminpV4S", "FmaxnmpV4S", "FminnmpV4S", "FmlaV4S",
          "FmlaV2D", "FmlsV4S", "FmlsV2D"},
         Of("FpReg", {"rd", "rn", "rm"}))
  @@ Variants({"FaddpV2S", "FaddpV2DScalar", "FmaxpV2DScalar", "FminpV2DScalar",
          "FmaxnmpV2DScalar", "FminnmpV2DScalar"},
         Of("FpReg", {"rd", "rn"}))

VectorPairwise ==
     Variants({"AddV4S", "AddV2D", "SubV2D", "AddpV2D", "AddpV16B", "AddpV8H",
          "AddpV4S", "SmaxpV16B", "SmaxpV8H", "SmaxpV4S", "SminpV16B",
          "SminpV8H", "SminpV4S", "FmaxV2D", "FmaxV4S", "FminV2D",
          "FminV4S", "FmaxnmV2D"}, Of("FpReg", {"rd", "rn", "rm"}))
  @@ Variants({"DupGpV16B", "DupGpV8H", "DupGpV4S", "DupGpV2D"},
         Of("FpReg", {"rd"}) @@ Of("GpReg", {"rn"}))
  @@ Variants({"UmovFromLaneS", "UmovFromLaneD"},
         Of("GpReg", {"rd"}) @@ Of("FpReg", {"rn"}) @@ Of("u8", {"index"}))

VectorMinMax ==
     Variants({"FmaxnmV4S", "FmaxnmpV2D", "FminnmV2D", "FminnmV4S",
          "FminnmpV2D", "SmaxV4S", "SminV4S", "UmaxV4S", "UmaxpV16B",
          "UmaxpV8H", "UminV4S", "UminpV16B", "UminpV8H", "UmaxpV4S",
          "UminpV4S"}, Of("FpReg", {"rd", "rn", "rm"}))
  @@ Variants({"AddvV16B", "AddvV8H", "AddvV4S", "UmaxvV16B", "UmaxvV8H",
          "UmaxvV4S", "SmaxvV16B", "SmaxvV8H", "SmaxvV4S", "UminvV16B",
          "UminvV8H"}, Of("FpReg", {"rd", "rn"}))

VectorReduceUnary ==
     Variants({"UminvV4S", "SminvV16B", "SminvV8H", "SminvV4S", "FmaxvV4S",
          "FminvV4S", "FmaxnmvV4S", "FminnmvV4S", "FabsV4S", "FabsV2D",
          "FnegV4S", "FnegV2D", "FsqrtV4S"}, Of("FpReg", {"rd", "rn"}))
  @@ Variants({"FsubV2D", "FsubV4S", "SubV4S", "FsubS", "FmulV2D", "FmulV4S",
          "FmulS", "FdivV2D", "FabdV2D", "FdivV4S"},
         Of("FpReg", {"rd", "rn", "rm"}))

VectorUnary ==
     Variants({"FsqrtV2D", "ScvtfV4S", "ScvtfV2D", "UcvtfV4S", "UcvtfV2D",
          "FcvtzsV4S", "FcvtzsV2D", "FcvtzuV4S", "FcvtzuV2D", "FrecpeV4S",
          "FrecpeV2D", "FrsqrteV4S", "FrsqrteV2D", "FrintnV4S",
          "FrintnV2D", "FrintmV4S", "FrintmV2D", "FrintpV4S", "FrintpV2D",
          "FrintzV4S", "FrintzV2D", "FrintaV4S"},
         Of("FpReg", {"rd", "rn"}))
  @@ Variants({"FrecpsV4S", "FrecpsV2D", "FrsqrtsV4S", "FrsqrtsV2D"},
         Of("FpReg", {"rd", "rn", "rm"}))

VectorMoveLogic ==
     Variants({"FrintaV2D", "FrintiV4S", "FrintiV2D", "FmovRegD", "FmovRegS",
          "MovV8B", "MovV16B", "MovV4S", "MovV2D"},
         Of("FpReg", {"rd", "rn"}))
  @@ Variants({"FdivS", "AndV16B", "BicV16B", "OrrV16B", "EorV16B", "BifV16B",
          "BitV16B", "BslV16B", "CmeqV4S", "FcmeqV4S"},
         Of("FpReg", {"rd", "rn", "rm"}))
  @@ Variants({"DupV16B", "DupV8H", "DupV4S", "DupV2D"},
         Of("FpReg", {"rd", "rn"}) @@ Of("u8", {"index"}))

VectorCompareShuffle ==
     Variants({"FcmeqV2D", "CmhsV4S", "CmhiV4S", "CmgeV4S", "FcmgeV4S",
          "FcmgeV2D", "CmgtV4S", "FcmgtV4S", "FcmgtV2D", "Zip1V4S",
          "Zip1V2D", "Zip2V4S"}, Of("FpReg", {"rd", "rn", "rm"}))
  @@ Variants({"FcmgeZeroV2D", "FcmgtZeroV2D", "FcmleZeroV2D", "FcmltZeroV2D",
          "Rev64V4S"}, Of("FpReg", {"rd", "rn"}))
  @@ Variants({"ExtV16B"},
         Of("FpReg", {"rd", "rn", "rm"}) @@ Of("u8", {"index"}))

VectorLanes ==
     Variants({"Zip2V2D", "Uzp1V4S", "Uzp1V2D", "Uzp2V4S", "Uzp2V2D", "Trn1V4S",
          "Trn1V2D", "Trn2V4S", "Trn2V2D"},
         Of("FpReg", {"rd", "rn", "rm"}))
  @@ Variants({"TblV16B", "TbxV16B"},
         Of("FpReg", {"rd", "table", "index"}) @@ Of("u8", {"table_len"}))
  @@ Variants({"MovFromLaneS", "MovFromLaneD"},
         Of("FpReg", {"rd", "rn"}) @@ Of("u8", {"index"}))
  @@ Variants({"MovFromLaneGpS", "MovFromLaneGpD", "UmovFromLaneH",
          "UmovFromLaneB", "SmovFromLaneH", "SmovFromLaneB"},
         Of("GpReg", {"rd"}) @@ Of("FpReg", {"rn"}) @@ Of("u8", {"index"}))
  @@ Variants({"MovLaneS", "MovLaneD", "MovLaneH", "MovLaneB"},
         Of("FpReg", {"rd", "rn"}) @@ Of("u8", {"rd_index", "rn_index"}))

LanesAndScalars ==
     Variants({"MovLaneFromGpS", "MovLaneFromGpD", "MovLaneFromGpH",
          "MovLaneFromGpB"},
         Of("FpReg", {"rd"}) @@ Of("u8", {"rd_index"})
           @@ Of("GpReg", {"rn"}))
  @@ Variants({"Ld1LaneB", "Ld1LaneH", "Ld1LaneS", "Ld1LaneD"},
         Of("FpReg", {"rt"}) @@ Of("u8", {"index"}) @@ Of("GpReg", {"rn"}))
  @@ Variants({"FnegD", "FnegS", "FabsD", "FabsS", "FsqrtD", "FsqrtS"},
         Of("FpReg", {"rd", "rn"}))
  @@ Variants({"FcmpD", "FcmpS"}, Of("FpReg", {"rn", "rm"}))
  @@ Variants({"FmovImmD", "FmovImmS"},
         Of("FpReg", {"rd"}) @@ Of("u8", {"imm8"}))
  @@ Variants({"FcselD", "FcselS"},
         Of("FpReg", {"rd", "rn", "rm"}) @@ Of("Cond", {"cond"}))

FusedConversionsSystem ==
     Variants({"FmaddD", "FmaddS", "FmsubD", "FmsubS", "FnmsubD", "FnmsubS"},
         Of("FpReg", {"rd", "rn", "rm", "ra"}))
  @@ Variants({"Fcvtzs", "Fcvtzu"},
         Of("GpReg", {"rd"}) @@ Of("FpReg", {"rn"})
           @@ Of("bool", {"dst_64bit", "src_double"}))
  @@ Variants({"FcvtDFromS", "FcvtSFromD"}, Of("FpReg", {"rd", "rn"}))
  @@ Variants({"Scvtf", "Ucvtf"},
         Of("FpReg", {"rd"}) @@ Of("GpReg", {"rn"})
           @@ Of("bool", {"dst_double", "src_64bit"}))
  @@ Variants({"FmovToD", "FmovToS"},
         Of("FpReg", {"rd"}) @@ Of("GpReg", {"rn"}))
  @@ Variants({"FmovFromD", "FmovFromS"},
         Of("GpReg", {"rd"}) @@ Of("FpReg", {"rn"}))
  @@ Variants({"Svc", "Brk"}, Of("u16", {"imm16"}))
  @@ Variants({"Nop", "Yield", "Wfe", "Wfi", "Sev", "Sevl"}, <<>>)
  @@ Variants({"Dmb", "Dsb", "Isb"}, Of("BarrierOpt", {"option"}))

-----------------------------------------------------------------------------
(* the operands of every variant, with their types *)
Inst ==
     AddSubRegister @@ MultiplyDivideSelect @@ Logical @@ AddSubMoveImmediate
  @@ ShiftsAndBitfields @@ BranchesAndAddresses @@ LoadStoreWords
  @@ LoadStoreNarrow @@ LoadStoreVector @@ LoadStoreVectorRest
  @@ LoadStorePre @@ LoadStorePost @@ AcquireRelease @@ AtomicMinMaxBits
  @@ AtomicRest @@ PairsOfGp @@ PairsOfFp @@ VectorArithmetic
  @@ VectorPairwise @@ VectorMinMax @@ VectorReduceUnary @@ VectorUnary
  @@ VectorMoveLogic @@ VectorCompareShuffle @@ VectorLanes
  @@ LanesAndScalars @@ FusedConversionsSystem

(* a value of the enum: exactly the operands of its variant, each of its type *)
WellTyped(inst) ==
  /\ inst.op \in DOMAIN Inst
  /\ DOMAIN inst = {"op"} \cup DOMAIN Inst[inst.op]
  /\ \A operand \in DOMAIN Inst[inst.op] :
        inst[operand] \in Values[Inst[inst.op][operand]]
=============================================================================
