---------------------------- MODULE VectorParser ----------------------------
(***************************************************************************)
(* Parsing of the statements that name vector and floating-point registers *)
(* (src/parse.rs, parse_simd_lane_extract to parse_fmov).                  *)
(*                                                                         *)
(* The dialect of Apple spells the arrangement on the mnemonic, that of    *)
(* GNU on the operands: gnu is what the parser keeps in its field          *)
(* gnu_simd_arrangement, "" for the first dialect.                         *)
(***************************************************************************)
EXTENDS Operands

-----------------------------------------------------------------------------
(* Vector registers and their lanes.                                       *)

(* parse_simd_reg: the suffix of an operand is the one of the statement *)
VReg(o, gnu) == o.k = "v" /\ o.arr \in {"", gnu}

VRegs(ops, count, gnu) ==
  Len(ops) = count /\ \A i \in 1 .. count : VReg(ops[i], gnu)

(* SimdLaneWidth::max_index *)
LastLane == [b |-> 15, h |-> 7, s |-> 3, d |-> 1]

(* parse_simd_lane_ref *)
LaneRef(o, w, gnu) ==
  o.k = "lane" /\ o.arr \in {"", gnu} /\ o.index \in 0 .. LastLane[w]

(* parse_lane_gp_reg: a lane of 64 bits meets an X register *)
LaneGp(o, w) == DataReg(o) /\ o.x = (w = "d")

(* how the variants of the instruction are called *)
Capital == [b |-> "B", h |-> "H", s |-> "S", d |-> "D"]

ArrangementOf ==
  ("16b" :> "V16B") @@ ("8h" :> "V8H") @@ ("4s" :> "V4S") @@ ("2d" :> "V2D")
    @@ ("8b" :> "V8B") @@ ("2s" :> "V2S")

(* the width of a lane of an arrangement *)
LaneOf == ("16b" :> "b") @@ ("8h" :> "h") @@ ("4s" :> "s") @@ ("2d" :> "d")

-----------------------------------------------------------------------------
(* Moves between lanes and registers.                                      *)

(* parse_simd_lane_extract: the arrangement is read from the register *)
parse_simd_lane_extract(ops) ==
  Accept(/\ Len(ops) = 2 /\ ops[1].k = "fp" /\ ops[1].w \in {"s", "d"}
         /\ LaneRef(ops[2], ops[1].w, ""),
         Built("MovFromLane" \o Capital[ops[1].w],
               DstSrc(ops) @@ [index |-> ops[2].index]))

(* parse_simd_lane_extract_gp, parse_simd_lane_extract_gp_signed, and the  *)
(* first half of parse_simd_lane_insert                                    *)
LaneToGp(op, w, ops, gnu) ==
  Accept(Len(ops) = 2 /\ LaneGp(ops[1], w) /\ LaneRef(ops[2], w, gnu),
         Built(op \o Capital[w], DstSrc(ops) @@ [index |-> ops[2].index]))

parse_simd_lane_extract_gp(w, ops, gnu) == LaneToGp("UmovFromLane", w, ops, gnu)

parse_simd_lane_extract_gp_signed(w, ops) == LaneToGp("SmovFromLane", w, ops, "")

(* MOV into a lane, from a lane or from a general register *)
parse_simd_lane_insert(w, ops) ==
  LET into == Len(ops) = 2 /\ LaneRef(ops[1], w, "")
      dst == Dst(ops) @@ [rd_index |-> ops[1].index, rn |-> ops[2].n]
  IN  CASE w \in {"s", "d"} /\ ops # <<>> /\ ops[1].k = "gp" ->
             LaneToGp("MovFromLaneGp", w, ops, "")
        [] into /\ LaneRef(ops[2], w, "") ->
             Accept(TRUE, Built("MovLane" \o Capital[w],
                                dst @@ [rn_index |-> ops[2].index]))
        [] into /\ LaneGp(ops[2], w) ->
             Accept(TRUE, Built("MovLaneFromGp" \o Capital[w], dst))
        [] OTHER -> Refused

(* LD1 of one lane: {v0}[1], [x0] *)
parse_simd_lane_load(w, ops) ==
  Accept(/\ Len(ops) = 2 /\ LaneRef(ops[1], w, "")
         /\ ops[2].k = "mem" /\ ops[2].mode = "offset" /\ ops[2].off = {}
         /\ ops[2].mods = {} /\ BaseReg(ops[2].base),
         Built("Ld1Lane" \o Capital[w],
               [rt |-> ops[1].n, index |-> ops[1].index, rn |-> ops[2].base.n]))

(* DUP of a general register, of either width, or of a lane *)
parse_simd_dup(arr, ops, gnu) ==
  CASE ~(Len(ops) = 2 /\ VReg(ops[1], gnu)) -> Refused
    [] ops[2].k = "gp" ->
         Accept(DataReg(ops[2]), Built("DupGp" \o ArrangementOf[arr], DstSrc(ops)))
    [] OTHER ->
         Accept(LaneRef(ops[2], LaneOf[arr], gnu),
                Built("Dup" \o ArrangementOf[arr],
                      DstSrc(ops) @@ [index |-> ops[2].index]))

-----------------------------------------------------------------------------
(* Operations on whole vectors: the mnemonics of each arrangement, and the *)
(* name that the variants of a mnemonic start with.                        *)

simd_fp_arith_4s ==
  {"fadd", "faddp", "fmaxp", "fminp", "fmaxnmp", "fminnmp", "fmla", "fmls",
   "fmax", "fmin", "fmaxnm", "fminnm", "fsub", "fmul", "fdiv", "frecps",
   "frsqrts"}

(* what the same mnemonics do with a scalar destination *)
simd_reduce_2d == {"faddp", "fmaxp", "fminp", "fmaxnmp", "fminnmp"}

simd_fp_arith_2d ==
  {"fadd", "fsub", "fmul", "fdiv", "fabd", "fmla", "fmls", "fmax", "fmin",
   "fmaxnm", "fminnm", "frecps", "frsqrts"} \cup simd_reduce_2d

simd_fp_unary_4s ==
  {"fabs", "fneg", "fsqrt", "scvtf", "ucvtf", "fcvtzs", "fcvtzu", "frecpe",
   "frsqrte", "frintn", "frintm", "frintp", "frintz", "frinta", "frinti"}

simd_fp_unary_2d == simd_fp_unary_4s

simd_int_arith_4s ==
  {"add", "addp", "smax", "smaxp", "smin", "sminp", "sub", "umax", "umaxp",
   "umin", "uminp"}

simd_int_arith_8h == {"addp", "smaxp", "sminp", "umaxp", "uminp"}

simd_int_arith_16b == simd_int_arith_8h

simd_int_arith_2d == {"addp", "add", "sub"}

simd_logic_16b == {"and", "bic", "bif", "bit", "bsl", "orr", "eor"}

simd_compare_4s ==
  {"cmeq", "fcmeq", "cmhs", "cmhi", "cmge", "fcmge", "cmgt", "fcmgt"}

simd_shuffle_4s == {"zip1", "zip2", "uzp1", "uzp2", "trn1", "trn2"}

simd_shuffle_2d == simd_shuffle_4s

simd_reduce_4s ==
  {"addv", "fmaxv", "fminv", "fmaxnmv", "fminnmv", "umaxv", "smaxv", "uminv",
   "sminv"}

simd_reduce_8h == {"addv", "umaxv", "smaxv", "uminv", "sminv"}

simd_reduce_16b == simd_reduce_8h

Stem ==
  [add |-> "Add", addp |-> "Addp", addv |-> "Addv", and |-> "And",
   bic |-> "Bic", bif |-> "Bif", bit |-> "Bit", bsl |-> "Bsl",
   cmeq |-> "Cmeq", cmge |-> "Cmge", cmgt |-> "Cmgt", cmhi |-> "Cmhi",
   cmhs |-> "Cmhs", eor |-> "Eor", fabd |-> "Fabd", fabs |-> "Fabs",
   fadd |-> "Fadd", faddp |-> "Faddp", fcmeq |-> "Fcmeq", fcmge |-> "Fcmge",
   fcmgt |-> "Fcmgt", fcmle |-> "Fcmle", fcmlt |-> "Fcmlt",
   fcvtzs |-> "Fcvtzs", fcvtzu |-> "Fcvtzu", fdiv |-> "Fdiv",
   fmadd |-> "Fmadd", fmax |-> "Fmax", fmaxnm |-> "Fmaxnm",
   fmaxnmp |-> "Fmaxnmp", fmaxnmv |-> "Fmaxnmv", fmaxp |-> "Fmaxp",
   fmaxv |-> "Fmaxv", fmin |-> "Fmin", fminnm |-> "Fminnm",
   fminnmp |-> "Fminnmp", fminnmv |-> "Fminnmv", fminp |-> "Fminp",
   fminv |-> "Fminv", fmla |-> "Fmla", fmls |-> "Fmls", fmsub |-> "Fmsub",
   fmul |-> "Fmul", fneg |-> "Fneg", fnmsub |-> "Fnmsub",
   frecpe |-> "Frecpe", frecps |-> "Frecps", frinta |-> "Frinta",
   frinti |-> "Frinti", frintm |-> "Frintm", frintn |-> "Frintn",
   frintp |-> "Frintp", frintz |-> "Frintz", frsqrte |-> "Frsqrte",
   frsqrts |-> "Frsqrts", fsqrt |-> "Fsqrt", fsub |-> "Fsub", mov |-> "Mov",
   orr |-> "Orr", rev64 |-> "Rev64", scvtf |-> "Scvtf", smax |-> "Smax",
   smaxp |-> "Smaxp", smaxv |-> "Smaxv", smin |-> "Smin", sminp |-> "Sminp",
   sminv |-> "Sminv", sub |-> "Sub", tbl |-> "Tbl", tbx |-> "Tbx",
   trn1 |-> "Trn1", trn2 |-> "Trn2", ucvtf |-> "Ucvtf", umax |-> "Umax",
   umaxp |-> "Umaxp", umaxv |-> "Umaxv", umin |-> "Umin", uminp |-> "Uminp",
   uminv |-> "Uminv", uzp1 |-> "Uzp1", uzp2 |-> "Uzp2", zip1 |-> "Zip1",
   zip2 |-> "Zip2"]

(* vd, vn, vm: what parse_instruction sends to a function of three vectors *)
ThreeVectors ==
  ("16b" :> simd_int_arith_16b \cup simd_logic_16b)
    @@ ("8h" :> simd_int_arith_8h)
    @@ ("4s" :> UNION {simd_fp_arith_4s, simd_int_arith_4s, simd_compare_4s,
                       simd_shuffle_4s})
    @@ ("2d" :> UNION {simd_fp_arith_2d, simd_int_arith_2d, simd_shuffle_2d})

(* vd, vn: unary operations, rev64 (parse_simd_rev64_4s), moves *)
TwoVectors ==
  ("4s" :> simd_fp_unary_4s \cup {"rev64", "mov"})
    @@ ("2d" :> simd_fp_unary_2d \cup {"mov"})
    @@ ("8b" :> {"mov"}) @@ ("16b" :> {"mov"})

(* a scalar and a vector, and the width the scalar must have *)
Reductions ==
  ("16b" :> simd_reduce_16b) @@ ("8h" :> simd_reduce_8h)
    @@ ("4s" :> simd_reduce_4s) @@ ("2s" :> {"faddp"})

ReducedTo == ("16b" :> "b") @@ ("8h" :> "h") @@ ("4s" :> "s") @@ ("2s" :> "s")

In(table, arr, mn) == arr \in DOMAIN table /\ mn \in table[arr]

ScalarAndVector(ops, w) ==
  /\ Len(ops) = 2
  /\ ops[1].k = "fp" /\ ops[1].w = w
  /\ VReg(ops[2], "")

parse_simd_vector(mn, arr, ops, gnu) ==
  LET op == Stem[mn] \o ArrangementOf[arr]
  IN  CASE arr = "2d" /\ mn \in simd_reduce_2d /\ ops # <<>> /\ ops[1].k = "fp" ->
             Accept(ScalarAndVector(ops, "d"), Built(op \o "Scalar", DstSrc(ops)))
        [] In(ThreeVectors, arr, mn) ->
             Accept(VRegs(ops, 3, gnu), Built(op, DstSrcs(ops)))
        [] In(TwoVectors, arr, mn) ->
             Accept(VRegs(ops, 2, gnu), Built(op, DstSrc(ops)))
        [] In(Reductions, arr, mn) ->
             Accept(ScalarAndVector(ops, ReducedTo[arr]), Built(op, DstSrc(ops)))

(* parse_fp_zero_immediate *)
FpZero(o) == \/ o.k = "imm" /\ o.v = 0
             \/ o.k = "flt" /\ o.n = 0

CompareZero2d == {"fcmge", "fcmgt", "fcmle", "fcmlt"}

CompareReg2d == {"fcmeq", "fcmge", "fcmgt"}

parse_simd_compare_2d(mn, ops) ==
  CASE ~(Len(ops) = 3 /\ VRegs(SubSeq(ops, 1, 2), 2, "")) -> Refused
    [] FpZero(ops[3]) ->
         Accept(mn \in CompareZero2d, Built(Stem[mn] \o "ZeroV2D", DstSrc(ops)))
    [] OTHER ->
         Accept(mn \in CompareReg2d /\ VReg(ops[3], ""),
                Built(Stem[mn] \o "V2D", DstSrcs(ops)))

parse_simd_ext_16b(ops, gnu) ==
  Accept(/\ Len(ops) = 4 /\ VRegs(SubSeq(ops, 1, 3), 3, gnu)
         /\ ImmIn(ops[4], 0 .. 15),
         Built("ExtV16B", DstSrcs(ops) @@ [index |-> ops[4].v]))

(* parse_simd_table_list: v31 is not followed by v0 *)
parse_simd_table_list(o) ==
  /\ o.k = "list" /\ o.arr = "" /\ Len(o.regs) \in 1 .. 4
  /\ \A i \in 2 .. Len(o.regs) : o.regs[i] = o.regs[i - 1] + 1

parse_simd_table_lookup(mn, ops) ==
  Accept(/\ Len(ops) = 3 /\ VReg(ops[1], "") /\ VReg(ops[3], "")
         /\ parse_simd_table_list(ops[2]),
         Built(Stem[mn] \o "V16B",
               [rd |-> ops[1].n, table |-> ops[2].regs[1],
                table_len |-> Len(ops[2].regs), index |-> ops[3].n]))

-----------------------------------------------------------------------------
(* Scalar floating point.                                                  *)

(* parse_fp_reg_with_size, then parse_fp_reg_matching_width *)
FpReg(o) == o.k = "fp" /\ o.w \in {"s", "d"}

FpRegs(ops, count) ==
  Len(ops) >= count
    /\ \A i \in 1 .. count : FpReg(ops[i]) /\ ops[i].w = ops[1].w

(* a mnemonic has a variant for each of the two widths *)
FpOp(stem, ops) == stem \o Capital[ops[1].w]

parse_fp_arith(mn, ops) ==
  Accept(Len(ops) = 3 /\ FpRegs(ops, 3), Built(FpOp(Stem[mn], ops), DstSrcs(ops)))

parse_fp_unary(mn, ops) ==
  Accept(Len(ops) = 2 /\ FpRegs(ops, 2), Built(FpOp(Stem[mn], ops), DstSrc(ops)))

parse_fcmp(ops) ==
  Accept(Len(ops) = 2 /\ FpRegs(ops, 2),
         Built(FpOp("Fcmp", ops), [rn |-> ops[1].n, rm |-> ops[2].n]))

parse_fcsel(ops) ==
  Accept(/\ Len(ops) = 4 /\ FpRegs(ops, 3)
         /\ Named(ops[4], parse_condition),
         Built(FpOp("Fcsel", ops),
               DstSrcs(ops) @@ [cond |-> parse_condition[ops[4].name]]))

parse_fp_madd(mn, ops) ==
  Accept(Len(ops) = 4 /\ FpRegs(ops, 4),
         Built(FpOp(Stem[mn], ops), DstSrcs(ops) @@ [ra |-> ops[4].n]))

(* FCVTZS and FCVTZU *)
parse_fcvtz(mn, ops) ==
  Accept(Len(ops) = 2 /\ DataReg(ops[1]) /\ FpReg(ops[2]),
         Built(Stem[mn], DstSrc(ops) @@ [dst_64bit |-> ops[1].x,
                                         src_double |-> ops[2].w = "d"]))

parse_fcvt(ops) ==
  Accept(Len(ops) = 2 /\ FpReg(ops[1]) /\ FpReg(ops[2]) /\ ops[1].w # ops[2].w,
         Built(IF ops[1].w = "d" THEN "FcvtDFromS" ELSE "FcvtSFromD", DstSrc(ops)))

(* SCVTF and UCVTF *)
parse_cvtf(mn, ops) ==
  Accept(Len(ops) = 2 /\ FpReg(ops[1]) /\ DataReg(ops[2]),
         Built(Stem[mn], DstSrc(ops) @@ [dst_double |-> ops[1].w = "d",
                                         src_64bit |-> ops[2].x]))

-----------------------------------------------------------------------------
(* Constants of FMOV.                                                      *)

ExponentBits(is_double) == IF is_double THEN 11 ELSE 8

FractionBits(is_double) == IF is_double THEN 52 ELSE 23

BitsOf(n) == {b \in 0 .. 29 : (n \div 2^b) % 2 = 1}

(* f32 and f64 of a literal that they hold exactly: n * 2^r *)
ieee_bits(neg, n, r, is_double) ==
  LET fraction == FractionBits(is_double)
      exponent == ExponentBits(is_double)
      top == CHOOSE b \in BitsOf(n) : \A c \in BitsOf(n) : c <= b
      biased == top + r + 2^(exponent - 1) - 1
  IN  {b \in {fraction + exponent} : neg}
        \cup IF n = 0 THEN {}
             ELSE {fraction + b : b \in BitsOf(biased)}
                    \cup {fraction - top + b : b \in BitsOf(n) \ {top}}

expand_fp_modified_immediate(imm8, is_double) ==
  LET fraction == FractionBits(is_double)
      exponent == ExponentBits(is_double)
      bits == BitsOf(imm8)
  IN  UNION {{fraction + exponent : b \in bits \cap {7}},
             IF 6 \in bits THEN fraction + 2 .. fraction + exponent - 2
             ELSE {fraction + exponent - 1},
             {fraction + b - 4 : b \in bits \cap {4, 5}},
             {fraction + b - 4 : b \in bits \cap 0 .. 3}}

(* encode_fp_modified_immediate32 and encode_fp_modified_immediate64 *)
encode_fp_modified_immediate(o, is_double) ==
  LET literal == CASE o.k = "imm" /\ o.v < 0 -> ieee_bits(TRUE, -o.v, 0, is_double)
                   [] o.k = "imm" -> ieee_bits(FALSE, o.v, 0, is_double)
                   [] o.k = "flt" -> ieee_bits(o.neg, o.n, o.r, is_double)
  IN  {imm8 \in 0 .. 255 :
         expand_fp_modified_immediate(imm8, is_double) = literal}

(* the widths that FMOV moves between: D and X, S and W *)
FmovPair(fp, gp) == FpReg(fp) /\ DataReg(gp) /\ gp.x = (fp.w = "d")

parse_fmov(ops) ==
  CASE Len(ops) # 2 -> Refused
    [] FpReg(ops[1]) /\ ops[2].k \in {"imm", "flt"} ->
         UNION {Accept(TRUE, Built(FpOp("FmovImm", ops), Dst(ops) @@ [imm8 |-> i])) :
                  i \in encode_fp_modified_immediate(ops[2], ops[1].w = "d")}
    [] FpReg(ops[1]) /\ ops[2].k = "fp" ->
         Accept(FpRegs(ops, 2), Built(FpOp("FmovReg", ops), DstSrc(ops)))
    [] FpReg(ops[1]) /\ ops[2].k = "gp" ->
         Accept(FmovPair(ops[1], ops[2]), Built(FpOp("FmovTo", ops), DstSrc(ops)))
    [] ops[1].k = "gp" ->
         Accept(FmovPair(ops[2], ops[1]),
                Built("FmovFrom" \o Capital[ops[2].w], DstSrc(ops)))
    [] OTHER -> Refused
=============================================================================
