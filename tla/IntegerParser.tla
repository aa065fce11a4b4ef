--------------------------- MODULE IntegerParser ---------------------------
(***************************************************************************)
(* Parsing of the statements that compute in general registers, of         *)
(* branches and of addresses (src/parse.rs, parse_add_sub to parse_adrp).  *)
(***************************************************************************)
EXTENDS Operands

(* the variant of an addition or a subtraction *)
AddSubOp(is_sub, flags, form) ==
  (IF is_sub THEN "Sub" ELSE "Add") \o (IF flags THEN "s" ELSE "") \o form

-----------------------------------------------------------------------------
(* Add and subtract, immediate.                                            *)

(* parse_add_sub_immediate: a negative constant turns the operation round *)
parse_add_sub_immediate(rest) ==
  LET value == rest[1].v
      magnitude == IF value < 0 THEN -value ELSE value
      shifted == Len(rest) = 2 /\ rest[2].k = "mod" /\ rest[2].name = "Lsl"
      read(imm12, shift) ==
        {[imm12 |-> imm12, shift |-> shift, negate |-> value < 0]}
  IN  CASE rest[1].k # "imm" \/ (Len(rest) > 1 /\ ~shifted) -> {}
        [] shifted ->
             IF rest[2].amount \in {{0}, {12}} /\ magnitude <= 4095
             THEN read(magnitude, rest[2].amount = {12}) ELSE {}
        [] magnitude <= 4095 -> read(magnitude, FALSE)
        [] magnitude <= 4095 * 4096 /\ magnitude % 4096 = 0 ->
             read(magnitude \div 4096, TRUE)
        [] OTHER -> {}

(* the register that the wrong choice would take for the other 31 *)
ForbiddenDst(flags) == IF flags THEN "sp" ELSE "zr"

validate_add_sub_immediate_registers(rd, rn, flags) ==
  /\ rd.x = rn.x
  /\ rn.kind # "zr"
  /\ rd.kind # ForbiddenDst(flags)

-----------------------------------------------------------------------------
(* Add and subtract, register.  A modifier that is left out is LSL #0.     *)

Modifier(as, kind, amount) == [as |-> as, kind |-> kind, amount |-> amount]

(* UXTX and SXTX read an X register, or either with flags; the others a W  *)
ExtendWidth(sf, flags, rm, kind) ==
  IF sf /\ kind \in {"Uxtx", "Sxtx"} THEN flags \/ rm.x ELSE ~rm.x

parse_optional_add_sub_modifier(sf, flags, rm, rest) ==
  IF rest = <<>> THEN {Modifier("none", "Lsl", 0)}
  ELSE LET m == rest[1]
       IN  CASE Len(rest) > 1 \/ m.k # "mod" -> {}
             [] m.name \in DOMAIN RegShift ->
                  {Modifier("shift", m.name, a) :
                     a \in m.amount \cap 0 .. LastOf(sf)}
             [] m.name \in DOMAIN RegExtend ->
                  IF ExtendWidth(sf, flags, rm, m.name) /\ Amount(m) \in 0 .. 4
                  THEN {Modifier("extend", m.name, Amount(m))} ELSE {}

(* with SP only the extended form exists: LSL becomes an extension *)
normalize_add_sub_register_modifier(rd, rn, rm, flags, modifier) ==
  LET uses_sp == "sp" \in {rd.kind, rn.kind}
      default == Modifier("extend", IF rd.x THEN "Uxtx" ELSE "Uxtw",
                          modifier.amount)
      normal == CASE ~uses_sp -> {modifier}
                  [] modifier.as = "extend" ->
                       IF rm.x => rd.x THEN {modifier} ELSE {}
                  [] OTHER ->
                       IF /\ modifier.kind = "Lsl" /\ modifier.amount <= 4
                          /\ rm.x = rd.x
                       THEN {default} ELSE {}
  IN  {m \in normal :
         /\ rm.kind # "sp"
         /\ rn.x = rd.x
         /\ m.as # "extend" => rm.x = rd.x
         /\ m.as = "extend" => rn.kind # "zr" /\ rd.kind # ForbiddenDst(flags)}

(* the instruction that a modifier selects *)
AddSubRegister3(is_sub, flags, regs, m) ==
  CASE m.as = "none" -> Built(AddSubOp(is_sub, flags, "Reg"), regs)
    [] m.as = "shift" ->
         Built(AddSubOp(is_sub, flags, "ShiftReg"),
               regs @@ [shift |-> m.kind, amount |-> m.amount])
    [] m.as = "extend" ->
         Built(AddSubOp(is_sub, flags, "ExtReg"),
               regs @@ [extend |-> m.kind, amount |-> m.amount])

(* parse_add_sub_operand: rest is what follows rd and rn *)
parse_add_sub_operand(rd, rn, rest, is_sub, flags) ==
  LET regs == [rd |-> rd.n, rn |-> rn.n, sf |-> rd.x]
      rm == rest[1]
      immediates == {imm \in parse_add_sub_immediate(rest) :
                       validate_add_sub_immediate_registers(rd, rn, flags)}
      modifiers ==
        UNION {normalize_add_sub_register_modifier(rd, rn, rm, flags, m) :
                 m \in parse_optional_add_sub_modifier(rd.x, flags, rm,
                                                       Tail(rest))}
  IN  CASE rest = <<>> -> Refused
        [] IsConstant(rest[1]) ->
             UNION {Accept(TRUE, Built(AddSubOp(is_sub # imm.negate, flags,
                                                "Imm"),
                                       regs @@ [imm12 |-> imm.imm12,
                                                shift |-> imm.shift])) :
                      imm \in immediates}
        [] rest[1].k = "gp" ->
             UNION {Accept(TRUE, AddSubRegister3(is_sub, flags,
                                                 regs @@ [rm |-> rm.n], m)) :
                      m \in modifiers}
        [] OTHER -> Refused

TwoGp(ops) == Len(ops) >= 2 /\ ops[1].k = "gp" /\ ops[2].k = "gp"

parse_add_sub(ops, is_sub, flags) ==
  IF TwoGp(ops)
  THEN parse_add_sub_operand(ops[1], ops[2], SubSeq(ops, 3, Len(ops)), is_sub,
                             flags)
  ELSE Refused

(* parse_add_sub_stmt: ADD also takes the symbol of an ADRP pair *)
AddSymbolKinds ==
  ("" :> "PageOff12")
    @@ [PAGEOFF |-> "PageOff12", lo12 |-> "PageOff12",
        got_lo12 |-> "GotLoadPageOff12", gottprel_lo12 |-> "TlvpLoadPageOff12"]

parse_add_sub_stmt(ops) ==
  IF TwoGp(ops) /\ Len(ops) = 3 /\ BranchLabel(ops[3])
  THEN LET reloc == RelocOf(ops[3])
       IN  IF reloc \in DOMAIN AddSymbolKinds
           THEN WithReloc(validate_add_sub_immediate_registers(ops[1], ops[2],
                                                               FALSE),
                          Built("AddImm", DstSrc(ops) @@ SfOf(ops)
                                  @@ [imm12 |-> 0, shift |-> FALSE]),
                          AddSymbolKinds[reloc])
           ELSE Refused
  ELSE parse_add_sub(ops, FALSE, FALSE)

(* CMP and CMN write to the zero register of the width of their source *)
parse_cmp(ops) ==
  IF Len(ops) >= 2 /\ ops[1].k = "gp"
  THEN parse_add_sub_operand(Zr(ops[1].x), ops[1], Tail(ops), TRUE, TRUE)
  ELSE Refused

parse_cmn(ops) ==
  IF TwoGp(ops)
  THEN parse_add_sub_operand(Zr(ops[1].x), ops[1], Tail(ops), FALSE, TRUE)
  ELSE Refused

(* NEG subtracts from the zero register, which no extended form allows *)
parse_neg(ops) ==
  LET rd == ops[1]
      rm == ops[2]
      regs == [rd |-> rd.n, rn |-> 31, rm |-> rm.n, sf |-> rd.x]
      modifiers == parse_optional_add_sub_modifier(rd.x, FALSE, rm,
                                                   SubSeq(ops, 3, Len(ops)))
  IN  IF TwoGp(ops)
      THEN UNION {Accept(/\ "sp" \notin {rd.kind, rm.kind}
                         /\ m.as # "extend" /\ rm.x = rd.x,
                         AddSubRegister3(TRUE, FALSE, regs, m)) :
                    m \in modifiers}
      ELSE Refused

-----------------------------------------------------------------------------
(* Logic and moves.                                                        *)

(* parse_logic *)
parse_logic(stem, ops) ==
  CASE Len(ops) # 3 -> Refused
    [] IsConstant(ops[3]) ->
         UNION {Accept(DataRegs(SubSeq(ops, 1, 2)),
                       Built(stem \o "Imm",
                             DstSrc(ops) @@ SfOf(ops) @@ [imm |-> raw])) :
                  raw \in IF ops[1].k = "gp"
                          THEN logical_immediate_value(ops[3], ops[1].x)
                          ELSE {}}
    [] OTHER -> Accept(DataRegs(ops),
                       Built(stem \o "Reg", DstSrcs(ops) @@ SfOf(ops)))

(* TST is ANDS to the zero register, MVN is ORN from it *)
parse_tst(ops) ==
  IF Len(ops) = 2 /\ ops[1].k = "gp"
  THEN parse_logic("Ands", <<Zr(ops[1].x)>> \o ops)
  ELSE Refused

parse_mvn(ops) ==
  Accept(Len(ops) = 2 /\ DataRegs(ops),
         Built("OrnReg", Dst(ops) @@ SfOf(ops)
                           @@ [rn |-> 31, rm |-> ops[2].n]))

(* mov_alias_imm: MOVZ before MOVN, the lowest shift first *)
mov_alias_imm(rd, imm, sf) ==
  LET mask == 0 .. LastOf(sf)
      value == AsU64(imm) \cap mask
      inverted == mask \ value
      within(bits, shift) == bits \subseteq shift .. shift + 15
      fits == {shift \in {0, 16} \cup (IF sf THEN {32, 48} ELSE {}) :
                 within(value, shift) \/ within(inverted, shift)}
      shift == CHOOSE s \in fits : \A other \in fits : s <= other
      number(bits) == AsNumber({b - shift : b \in bits})
      wide(op, bits) == Built(op, [rd |-> rd, imm16 |-> number(bits),
                                   shift |-> shift, sf |-> sf])
  IN  CASE fits = {} -> {}
        [] within(value, shift) -> {wide("Movz", value)}
        [] OTHER -> {wide("Movn", inverted)}

(* parse_mov: a move from or to SP is an addition of nothing *)
parse_mov(ops) ==
  LET rd == ops[1]
      rm == ops[2]
      sp == "sp" \in {rd.kind, rm.kind}
  IN  CASE Len(ops) # 2 \/ rd.k # "gp" -> Refused
        [] IsConstant(rm) -> UNION {Accept(rd.kind # "sp", inst) :
                                      inst \in mov_alias_imm(rd.n, rm, rd.x)}
        [] rm.k = "gp" /\ sp ->
             Accept(rm.x = rd.x /\ "zr" \notin {rd.kind, rm.kind},
                    Built("AddImm", DstSrc(ops) @@ SfOf(ops)
                                      @@ [imm12 |-> 0, shift |-> FALSE]))
        [] rm.k = "gp" ->
             Accept(rm.x = rd.x, Built("OrrReg", Dst(ops) @@ SfOf(ops)
                                         @@ [rn |-> 31, rm |-> rm.n]))
        [] OTHER -> Refused

(* parse_mov_wide and parse_optional_mov_wide_shift *)
parse_mov_wide(op, ops) ==
  LET shift == IF Len(ops) = 3 THEN Amount(ops[3]) ELSE 0
      shifts == {0, 16} \cup IF ops[1].x THEN {32, 48} ELSE {}
      shifted == /\ ops[3].k = "mod" /\ ops[3].name = "Lsl"
                 /\ ops[3].amount # {}
  IN  Accept(/\ Len(ops) \in 2 .. 3 /\ DataReg(ops[1]) /\ U16(ops[2])
             /\ Len(ops) = 3 => shifted
             /\ shift \in shifts,
             Built(op, Dst(ops) @@ SfOf(ops)
                         @@ [imm16 |-> ops[2].v, shift |-> shift]))

-----------------------------------------------------------------------------
(* Multiplication, division and conditional selection.                     *)

(* parse_3reg, parse_clz, parse_madd_sub *)
parse_3reg(op, ops) ==
  Accept(Len(ops) = 3 /\ DataRegs(ops), Built(op, DstSrcs(ops) @@ SfOf(ops)))

parse_clz(ops) ==
  Accept(Len(ops) = 2 /\ DataRegs(ops), Built("Clz", DstSrc(ops) @@ SfOf(ops)))

parse_madd_sub(op, ops) ==
  Accept(Len(ops) = 4 /\ DataRegs(ops),
         Built(op, DstSrcs(ops) @@ SfOf(ops) @@ [ra |-> ops[4].n]))

parse_mneg(ops) ==
  Accept(Len(ops) = 3 /\ DataRegs(ops),
         Built("Msub", DstSrcs(ops) @@ SfOf(ops) @@ [ra |-> 31]))

(* parse_umull, parse_smull: two W sources; parse_mulh: two X sources *)
parse_widening(op, ops) ==
  Accept(/\ Len(ops) = 3 /\ XReg(ops[1]) /\ WReg(ops[2]) /\ WReg(ops[3]),
         Built(op, DstSrcs(ops)))

parse_mulh(op, ops) ==
  Accept(Len(ops) = 3 /\ \A i \in 1 .. 3 : XReg(ops[i]),
         Built(op, DstSrcs(ops)))

CondOf(o) == [cond |-> parse_condition[o.name]]

(* as a bug would: the condition itself *)
InvertedNot(o) == CondOf(o)

Inverted(o) == [cond |-> invert_condition[parse_condition[o.name]]]

(* the registers of a conditional instruction, then its condition *)
RegsThenCond(ops, count) ==
  /\ Len(ops) = count + 1
  /\ DataRegs(SubSeq(ops, 1, count))
  /\ Named(ops[count + 1], parse_condition)

parse_cond_select(op, ops) ==
  Accept(RegsThenCond(ops, 3),
         Built(op, DstSrcs(ops) @@ SfOf(ops) @@ CondOf(ops[4])))

(* CSET and CSETM select between two zero registers *)
parse_cond_select_set_alias(op, ops) ==
  Accept(RegsThenCond(ops, 1),
         Built(op, Dst(ops) @@ [rn |-> 31, rm |-> 31] @@ SfOf(ops)
                     @@ Inverted(ops[2])))

(* CINC, CINV and CNEG select between a register and itself *)
parse_cond_select_unary_alias(op, ops) ==
  Accept(RegsThenCond(ops, 2),
         Built(op, DstSrc(ops) @@ [rm |-> ops[2].n] @@ SfOf(ops)
                     @@ Inverted(ops[3])))

parse_cond_compare_imm(op, ops) ==
  Accept(/\ Len(ops) = 4 /\ DataReg(ops[1]) /\ ImmIn(ops[2], 0 .. 31)
         /\ ImmIn(ops[3], 0 .. 15) /\ Named(ops[4], parse_condition),
         Built(op, [rn |-> ops[1].n, imm5 |-> ops[2].v, nzcv |-> ops[3].v]
                     @@ SfOf(ops) @@ CondOf(ops[4])))

-----------------------------------------------------------------------------
(* Shifts and bit fields.                                                  *)

(* parse_shift *)
parse_shift(stem, ops) ==
  IF Len(ops) = 3 /\ ops[3].k = "gp"
  THEN Accept(DataRegs(ops),
              Built(stem \o "Reg", DstSrcs(ops) @@ SfOf(ops)))
  ELSE Accept(/\ Len(ops) = 3 /\ DataRegs(SubSeq(ops, 1, 2))
              /\ BitIndex(ops[3], ops[1].x),
              Built(stem \o "Imm", DstSrc(ops) @@ SfOf(ops)
                                     @@ [amount |-> ops[3].v]))

(* parse_extend_alias: SXTW and UXTW write an X register only *)
parse_extend_alias(op, ops) ==
  LET toX == op \in {"Sxtw", "Uxtw"}
  IN  Accept(/\ Len(ops) = 2 /\ DataReg(ops[1]) /\ WReg(ops[2])
             /\ toX => ops[1].x,
             Built(op, DstSrc(ops) @@ IF toX THEN <<>> ELSE SfOf(ops)))

(* validate_bitfield_alias_args *)
FieldFits(lsb, width, sf) ==
  /\ ImmIn(lsb, 0 .. LastOf(sf))
  /\ ImmIn(width, 1 .. LastOf(sf) + 1 - lsb.v)

parse_bitfield_alias(op, ops) ==
  Accept(/\ Len(ops) = 4 /\ DataRegs(SubSeq(ops, 1, 2))
         /\ FieldFits(ops[3], ops[4], ops[1].x),
         Built(op, DstSrc(ops) @@ SfOf(ops)
                     @@ [lsb |-> ops[3].v, width |-> ops[4].v]))

-----------------------------------------------------------------------------
(* Branches and addresses.  The target is the last operand: a constant, or *)
(* a label with the kind of fixup of that branch.                          *)

To(inst, target, bits, kind) ==
  IF IsConstant(target)
  THEN Accept(SignedScaledImm(target, bits, 2),
              inst @@ [offset |-> IF target.k = "imm" THEN target.v ELSE 0])
  ELSE WithReloc(BranchLabel(target) /\ RelocOf(target) = "",
                 inst @@ [offset |-> 0], kind)

parse_b(op, ops) ==
  IF Len(ops) = 1 THEN To([op |-> op], ops[1], 26, "Branch26") ELSE Refused

parse_bcond(name, ops) ==
  IF Len(ops) = 1 /\ name \in DOMAIN parse_condition
  THEN To([op |-> "BCond", cond |-> parse_condition[name]], ops[1], 19,
          "Branch19")
  ELSE Refused

parse_cbz(op, ops) ==
  IF Len(ops) = 2 /\ DataReg(ops[1])
  THEN To([op |-> op, rt |-> ops[1].n] @@ SfOf(ops), ops[2], 19, "Branch19")
  ELSE Refused

parse_tbz(op, ops) ==
  IF Len(ops) = 3 /\ DataReg(ops[1]) /\ BitIndex(ops[2], ops[1].x)
  THEN To([op |-> op, rt |-> ops[1].n, bit |-> ops[2].v] @@ SfOf(ops), ops[3],
          14, "Branch14")
  ELSE Refused

parse_ret(ops) ==
  IF ops = <<>> THEN Accept(TRUE, [op |-> "Ret", rn |-> 30])
  ELSE Accept(Len(ops) = 1 /\ XReg(ops[1]), [op |-> "Ret", rn |-> ops[1].n])

(* br and blr in parse_instruction *)
parse_br(op, ops) ==
  Accept(Len(ops) = 1 /\ XReg(ops[1]), [op |-> op, rn |-> ops[1].n])

parse_adr(ops) ==
  LET at(imm) == Built("Adr", Dst(ops) @@ [imm |-> imm])
  IN  CASE Len(ops) # 2 \/ ~XReg(ops[1]) -> Refused
        [] IsConstant(ops[2]) ->
             Accept(SignedScaledImm(ops[2], 21, 0),
                    at(IF ops[2].k = "imm" THEN ops[2].v ELSE 0))
        [] OTHER -> WithReloc(AnyLabel(ops[2]) /\ RelocOf(ops[2]) = "", at(0),
                              "Adr21")

AdrpKinds ==
  ("" :> "Page21")
    @@ [PAGE |-> "Page21", GOTPAGE |-> "GotLoadPage21",
        TLVPPAGE |-> "TlvpLoadPage21", pg_hi21 |-> "Page21",
        got |-> "GotLoadPage21", gottprel |-> "TlvpLoadPage21"]

(* parse_adrp: the constant is a multiple of 4096 of thirty-three bits, so *)
(* bits 32 to 63 of it are all its sign                                    *)
parse_adrp(ops) ==
  LET bits == AsU64(ops[2])
      negative == 63 \in bits
      pages == AsNumber({b - 12 : b \in bits \cap 12 .. 31})
                 - IF negative THEN 2^20 ELSE 0
      at(quotient) ==
        Built("Adrp", Dst(ops) @@ [imm |-> [pages |-> quotient, rest |-> 0]])
  IN  CASE Len(ops) # 2 \/ ~XReg(ops[1]) -> Refused
        [] IsConstant(ops[2]) ->
             Accept(/\ bits \cap 0 .. 11 = {}
                    /\ bits \cap 32 .. 63 = IF negative THEN 32 .. 63 ELSE {},
                    at(pages))
        [] OTHER ->
             IF AnyLabel(ops[2]) /\ RelocOf(ops[2]) \in DOMAIN AdrpKinds
             THEN WithReloc(TRUE, at(0), AdrpKinds[RelocOf(ops[2])])
             ELSE Refused
=============================================================================
