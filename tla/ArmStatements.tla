--------------------------- MODULE ArmStatements ---------------------------
(***************************************************************************)
(* One arm64 statement on its way through the assembler: parsed, encoded,  *)
(* its fixup resolved against a label of the section, or recorded as an    *)
(* ELF relocation and linked (src/parse.rs parse_instruction; src/encode.rs*)
(* encode; src/assemble.rs process, resolve_fixups, elf_reloc_type).       *)
(*                                                                         *)
(* phase is where the statement is.  refused and out_of_range are error    *)
(* messages; panic is an assertion of the encoder, internal an "internal   *)
(* error": the assembler must never come to those two.                     *)
(***************************************************************************)
EXTENDS Encoding, InstructionParser, Architecture

CONSTANTS
  Statements,   \* what the program may say
  Distances,    \* how far a label is from the statement, in bytes
  Offsets       \* what a linker adds: pages, or bytes in one

VARIABLES phase, stmt, inst, reloc, word, rel, chosen

vars == <<phase, stmt, inst, reloc, word, rel, chosen>>

NoInst == [op |-> "none"]

Init ==
  /\ phase = "read"
  /\ stmt \in Statements
  /\ inst = NoInst /\ reloc = "none"
  /\ word = {} /\ rel = "none" /\ chosen = 0

Refuse ==
  /\ phase = "read"
  /\ parse_instruction(stmt) = Refused
  /\ phase' = "refused"
  /\ UNCHANGED <<stmt, inst, reloc, word, rel, chosen>>

Parse ==
  /\ phase = "read"
  /\ \E result \in parse_instruction(stmt) :
       inst' = result.inst /\ reloc' = result.reloc
  /\ phase' = "parsed"
  /\ UNCHANGED <<stmt, word, rel, chosen>>

(* the word of an instruction is written, unless the encoder stops *)
Write(instruction, then) ==
  IF Asserts(instruction)
  THEN word' = encode(instruction) /\ phase' = then
  ELSE phase' = "panic" /\ UNCHANGED word

(* process: the word, and a fixup behind it *)
Emit ==
  /\ phase = "parsed"
  /\ Write(inst, IF reloc = "none" THEN "emitted" ELSE "fixup")
  /\ UNCHANGED <<stmt, inst, reloc, rel, chosen>>

-----------------------------------------------------------------------------
(* resolve_fixups, against a label of the section.                         *)

(* check_branch_offset, and check_pcrel_offset with scale 0 *)
check_offset(offset, bits, scale) == SignedScaled(offset, bits, scale)

BranchBits == [Branch26 |-> 26, Branch19 |-> 19, Branch14 |-> 14]

(* the instructions that the resolve functions know *)
resolve_branch_fixup == {"B", "Bl", "BCond", "Cbz", "Cbnz", "Tbz", "Tbnz"}

resolve_literal_inst ==
  {"LdrLit64", "LdrLit32", "LdrswLit", "LdrFpLit64", "LdrFpLit32",
   "LdrFpLit128"}

(* the template with its offset, patched over the word *)
Patch(known, bits, scale, field, distance) ==
  IF ~check_offset(distance, bits, scale)
  THEN phase' = "out_of_range" /\ UNCHANGED <<inst, word>>
  ELSE IF inst.op \notin known
  THEN phase' = "internal" /\ UNCHANGED <<inst, word>>
  ELSE /\ inst' = [inst EXCEPT ![field] = distance]
       /\ Write(inst', "resolved")

ResolveBranch ==
  /\ phase = "fixup"
  /\ reloc \in DOMAIN BranchBits
  /\ \E distance \in Distances :
       /\ Patch(resolve_branch_fixup, BranchBits[reloc], 2, "offset", distance)
       /\ chosen' = distance
  /\ UNCHANGED <<stmt, reloc, rel>>

ResolveLiteral ==
  /\ phase = "fixup"
  /\ reloc = "Literal19"
  /\ \E distance \in Distances :
       /\ Patch(resolve_literal_inst, 19, 2, "offset", distance)
       /\ chosen' = distance
  /\ UNCHANGED <<stmt, reloc, rel>>

ResolveAdr ==
  /\ phase = "fixup"
  /\ reloc = "Adr21"
  /\ \E distance \in Distances :
       /\ Patch({"Adr"}, 21, 0, "imm", distance)
       /\ chosen' = distance
  /\ UNCHANGED <<stmt, reloc, rel>>

(* the label is in no section of the source, or in another one *)
Unreachable ==
  /\ phase = "fixup"
  /\ reloc \in {"Branch19", "Branch14", "Literal19", "Adr21"}
  /\ phase' = "refused"
  /\ UNCHANGED <<stmt, inst, reloc, word, rel, chosen>>

-----------------------------------------------------------------------------
(* Relocations of an ELF object.                                           *)

Masked(mask, value) == word \cap mask = value

(* as a bug would: a vector of sixteen bytes taken for one byte *)
elf_lo12_reloc_no_q ==
  LET size == Number(word, At(30, 2))
  IN  CASE Masked(W(\h7F80, 0), W(\h1100, 0)) -> "ADD_ABS_LO12_NC"
        [] Masked(W(\h3B00, 0), W(\h3900, 0)) ->
             <<"LDST8_ABS_LO12_NC", "LDST16_ABS_LO12_NC",
               "LDST32_ABS_LO12_NC", "LDST64_ABS_LO12_NC">>[size + 1]
        [] OTHER -> "none"

(* elf_lo12_reloc: "none" where the word can carry no such relocation *)
elf_lo12_reloc ==
  LET size == Number(word, At(30, 2))
      q == size = 0 /\ 26 \in word /\ 23 \in word
  IN  CASE Masked(W(\h7F80, 0), W(\h1100, 0)) -> "ADD_ABS_LO12_NC"
        [] Masked(W(\h3B00, 0), W(\h3900, 0)) ->
             IF q THEN "LDST128_ABS_LO12_NC"
             ELSE <<"LDST8_ABS_LO12_NC", "LDST16_ABS_LO12_NC",
                    "LDST32_ABS_LO12_NC", "LDST64_ABS_LO12_NC">>[size + 1]
        [] OTHER -> "none"

(* elf_reloc_type: the word tells apart what Mach-O does not *)
elf_reloc_type ==
  CASE reloc = "Branch26" -> IF 31 \in word THEN "CALL26" ELSE "JUMP26"
    [] reloc = "Page21" -> "ADR_PREL_PG_HI21"
    [] reloc = "PageOff12" -> elf_lo12_reloc
    [] reloc = "GotLoadPage21" -> "ADR_GOT_PAGE"
    [] reloc = "GotLoadPageOff12" -> "LD64_GOT_LO12_NC"
    [] reloc = "TlvpLoadPage21" -> "TLSIE_ADR_GOTTPREL_PAGE21"
    [] reloc = "TlvpLoadPageOff12" -> "TLSIE_LD64_GOTTPREL_LO12_NC"

Relocated ==
  {"Branch26", "Page21", "PageOff12", "GotLoadPage21", "GotLoadPageOff12",
   "TlvpLoadPage21", "TlvpLoadPageOff12"}

(* of the branches only B and BL may go to a symbol of another object *)
Relocate ==
  /\ phase = "fixup"
  /\ reloc \in Relocated
  /\ rel' = elf_reloc_type
  /\ phase' = IF rel' = "none" THEN "refused" ELSE "relocated"
  /\ UNCHANGED <<stmt, inst, reloc, word, chosen>>

(* the linker, no part of the assembler *)
Link ==
  /\ phase = "relocated"
  /\ \E offset \in Offsets :
       word' = Linked(word, rel, offset) /\ chosen' = offset
  /\ phase' = "linked"
  /\ UNCHANGED <<stmt, inst, reloc, rel>>

(* every statement comes to an end *)
Stopped ==
  /\ phase \in {"refused", "panic", "emitted", "internal", "out_of_range",
                "resolved", "linked"}
  /\ UNCHANGED vars

Next ==
  \/ Refuse \/ Parse \/ Emit
  \/ ResolveBranch \/ ResolveLiteral \/ ResolveAdr \/ Unreachable
  \/ Relocate \/ Link \/ Stopped

Spec == Init /\ [][Next]_vars

-----------------------------------------------------------------------------
(* Properties.                                                             *)

(* the word is that of inst *)
Encoded == phase \in {"emitted", "fixup", "resolved", "relocated"}

\* What the parser makes of any statement is an instruction that the encoder
\* knows, each operand in the range of its type; and its checks, and those of
\* resolve_fixups after it, are at least as strict as the assertions of the
\* encoder, and no fixup meets an instruction that its resolve function does not
\* know: what is wrong with a statement is an error message, never a panic.
NeverStops ==
  /\ phase \notin {"read", "refused"} => WellTyped(inst)
  /\ phase \notin {"panic", "internal"}

\* Every operand can be read back from the word, so no field runs over into
\* another one or into the opcode, and registers are where the processor looks
\* for them.
FieldsKept ==
  Encoded =>
    /\ \A field \in DOMAIN Table[inst.op].fields :
         ReadsBack(word, Code(inst, field), Table[inst.op].fields[field])
    /\ \A r \in DOMAIN inst \cap DOMAIN RegisterAt :
         Number(word, At(RegisterAt[r], 5)) = inst[r]

(* one instruction of the architecture that the encoder knows by several   *)
(* names                                                                   *)
Synonyms ==
  {{"AddReg", "AddShiftReg"}, {"SubReg", "SubShiftReg"},
   {"AddsReg", "AddsShiftReg"}, {"SubsReg", "SubsShiftReg"},
   {"Mul", "Madd"}, {"Sxtw", "Sxtb", "Sxth", "AsrImm"},
   {"Uxtw", "LslImm", "LsrImm", "Ubfiz"}, {"Bfi", "Bfxil"},
   {"MovV16B", "MovV4S", "MovV2D", "OrrV16B"},
   {"UmovFromLaneS", "MovFromLaneGpS"}, {"UmovFromLaneD", "MovFromLaneGpD"}}

(* what is the same in every word of an instruction *)
Opcodes ==
  {[op |-> op, base |-> Table[op].base,
    kept |-> (0 .. 31) \ UNION {Positions(Table[op].fields[f]) :
                                 f \in DOMAIN Table[op].fields}] :
     op \in DOMAIN Table}

(* the instructions that a word may be *)
Candidates(w) ==
  {o.op : o \in {code \in Opcodes : code.base \subseteq w
                                     /\ w \cap code.kept \subseteq code.base}}

\* No operand turns one instruction into another: the word of an instruction
\* is recognised by the opcode of that one only, or of a synonym.
FormsApart ==
  Encoded =>
    \A op \in Candidates(word) \ {inst.op} :
      \E class \in Synonyms : {op, inst.op} \subseteq class

-----------------------------------------------------------------------------
(* Constants.                                                              *)

Operand(i) == stmt.ops[i]

(* the constant of an addition or a comparison, and what it is added to as *)
AddedSign ==
  [add |-> 1, adds |-> 1, cmn |-> 1, sub |-> -1, subs |-> -1, cmp |-> -1]

AddSubImmediates == {"AddImm", "SubImm", "AddsImm", "SubsImm"}

AddedConstant ==
  LET i == IF stmt.mn \in {"cmp", "cmn"} THEN 2 ELSE 3
      shift == IF Len(stmt.ops) > i THEN Amount(Operand(i + 1)) ELSE 0
  IN  AddedSign[stmt.mn] * Operand(i).v * 2^shift

(* the constant of a logical instruction, and of a move *)
LogicalConstant == AsU64(Operand(Len(stmt.ops))) \cap 0 .. Last(word)

MovedConstant ==
  LET shift == IF Len(stmt.ops) = 3 THEN Amount(Operand(3)) ELSE 0
      set == {b + shift : b \in AsU64(Operand(2))} \cap 0 .. Last(word)
  IN  IF stmt.mn = "movn" THEN (0 .. Last(word)) \ set ELSE set

(* n * 2^r = m * 2^e *)
SameNumber(n, r, m, e) ==
  IF r >= e THEN n * 2^(r - e) = m ELSE n = m * 2^(e - r)

FloatMeant(o) ==
  LET float == FloatImmediate(word)
  IN  IF o.k = "imm"
      THEN /\ SameNumber(IF o.v < 0 THEN -o.v ELSE o.v, 0, float.m, float.e)
           /\ float.neg <=> o.v < 0
      ELSE /\ SameNumber(o.n, o.r, float.m, float.e)
           /\ float.neg <=> o.neg

(* what an alias says of bit b of its destination *)
FieldBit(b) ==
  LET a == IF Len(stmt.ops) >= 3 THEN Operand(3).v ELSE 0
      width == IF Len(stmt.ops) = 4 THEN Operand(4).v ELSE 0
      extended(last) == Bit0(IF b <= last THEN b ELSE last)
  IN  CASE stmt.mn = "lsl" -> IF b >= a THEN Bit0(b - a) ELSE Zero
        [] stmt.mn = "lsr" -> IF b + a <= Last(word) THEN Bit0(b + a) ELSE Zero
        [] stmt.mn = "asr" ->
             Bit0(IF b + a <= Last(word) THEN b + a ELSE Last(word))
        [] stmt.mn = "sxtb" -> extended(7)
        [] stmt.mn = "sxth" -> extended(15)
        [] stmt.mn = "sxtw" -> extended(31)
        [] stmt.mn = "uxtw" -> IF b <= 31 THEN Bit0(b) ELSE Zero
        [] stmt.mn = "ubfiz" ->
             IF b - a \in 0 .. width - 1 THEN Bit0(b - a) ELSE Zero
        [] stmt.mn = "bfi" ->
             IF b - a \in 0 .. width - 1 THEN Bit0(b - a) ELSE Old
        [] stmt.mn = "bfxil" -> IF b < width THEN Bit0(b + a) ELSE Old

BitfieldMoves ==
  SignExtensions \cup {"LslImm", "LsrImm", "AsrImm", "Ubfiz", "Bfi", "Bfxil"}

\* The processor computes with the constant that the statement spells, though
\* it is negated, shifted, inverted, rotated, or packed into eight bits on the
\* way, and a shift, an extension or a bit field alias moves the bits it says.
ConstantsMeant ==
  phase = "emitted" =>
    /\ inst.op \in AddSubImmediates /\ stmt.mn \in DOMAIN AddedSign =>
         Increment(word) = AddedConstant
    /\ inst.op \in LogicalImmediate => BitMask(word) = LogicalConstant
    /\ inst.op \in {"Movz", "Movn", "Movk"} => MoveWide(word) = MovedConstant
    /\ inst.op \in {"FmovImmS", "FmovImmD"} => FloatMeant(Operand(2))
    /\ inst.op \in BitfieldMoves =>
         BitfieldMove(word) = [b \in 0 .. Last(word) |-> FieldBit(b)]

-----------------------------------------------------------------------------
(* Conditions.                                                             *)

(* what the names say of the flags *)
NameHolds(name, flags) ==
  LET sameSign == "n" \in flags <=> "v" \in flags
  IN  CASE name = "eq" -> "z" \in flags
        [] name = "ne" -> "z" \notin flags
        [] name \in {"cs", "hs"} -> "c" \in flags
        [] name \in {"cc", "lo"} -> "c" \notin flags
        [] name = "mi" -> "n" \in flags
        [] name = "pl" -> "n" \notin flags
        [] name = "vs" -> "v" \in flags
        [] name = "vc" -> "v" \notin flags
        [] name = "hi" -> "c" \in flags /\ "z" \notin flags
        [] name = "ls" -> "c" \notin flags \/ "z" \in flags
        [] name = "ge" -> sameSign
        [] name = "lt" -> ~sameSign
        [] name = "gt" -> sameSign /\ "z" \notin flags
        [] name = "le" -> ~sameSign \/ "z" \in flags
        [] name = "al" -> TRUE

Choice(as, reg) == [as |-> as, reg |-> reg]

(* what a selection makes of its sources if its condition holds, if not *)
Selection ==
  LET rn == Operand(IF Len(stmt.ops) > 2 THEN 2 ELSE 1).n
      either(as) == <<Choice("same", rn), Choice(as, Operand(3).n)>>
      zero(as) == <<Choice(as, 31), Choice("same", 31)>>
      itself(as) == <<Choice(as, rn), Choice("same", rn)>>
  IN  CASE stmt.mn = "csel" -> either("same")
        [] stmt.mn = "csinc" -> either("plus1")
        [] stmt.mn = "csinv" -> either("not")
        [] stmt.mn = "csneg" -> either("minus")
        [] stmt.mn = "cset" -> zero("plus1")
        [] stmt.mn = "csetm" -> zero("not")
        [] stmt.mn = "cinc" -> itself("plus1")
        [] stmt.mn = "cinv" -> itself("not")
        [] stmt.mn = "cneg" -> itself("minus")

(* AL has no inverse: with it these set their destination as if it failed *)
InvertedAlways ==
  /\ stmt.mn \in {"cset", "csetm", "cinc", "cinv", "cneg"}
  /\ Operand(Len(stmt.ops)).name = "al"

ConditionName ==
  IF inst.op = "BCond" THEN stmt.arr ELSE Operand(Len(stmt.ops)).name

ConditionField == IF inst.op = "BCond" THEN At(0, 4) ELSE At(12, 4)

\* Whatever the flags, a conditional instruction does what it does under the
\* condition it names: the aliases name the inverse of the one they encode.
ConditionsMeant ==
  Encoded =>
    /\ inst.op \in {"Csel", "Csinc", "Csinv", "Csneg"} /\ ~InvertedAlways =>
         \A flags \in Flags :
           Selected(word, flags) =
             Selection[IF NameHolds(ConditionName, flags) THEN 1 ELSE 2]
    /\ inst.op \in {"BCond", "CcmpImm", "CcmnImm", "FcselS", "FcselD"} =>
         \A flags \in Flags :
           ConditionHolds(Number(word, ConditionField), flags)
             <=> NameHolds(ConditionName, flags)

-----------------------------------------------------------------------------
(* Register 31.                                                            *)

IsMemory == {"rt", "rt1"} \cap DOMAIN inst # {} /\ "rn" \in DOMAIN inst

(* the fields of the word that the processor reads as SP *)
SpFields ==
  {r \in DOMAIN inst \cap DOMAIN RegisterAt :
     /\ Number(word, At(RegisterAt[r], 5)) = 31
     /\ ReadsSp(inst.op, r) \/ (r = "rn" /\ IsMemory)}

(* the operands that the statement spells sp or wsp *)
SpOperands ==
  {i \in DOMAIN stmt.ops :
     \/ Operand(i).k = "gp" /\ Operand(i).kind = "sp"
     \/ Operand(i).k = "mem" /\ Operand(i).base.kind = "sp"}

(* a bitmask instruction whose destination is xzr or wzr *)
ZeroDestination ==
  inst.op \in {"AndImm", "OrrImm", "EorImm"} /\ Operand(1).kind = "zr"

\* Register 31 is SP to the processor where the statement says SP, and only
\* there, though the encoder has one number for SP and the zero register.  It
\* leaves out AND, ORR and EOR of a bitmask into the zero register, which there
\* are not: the program writes SP instead of refusing them.
RegistersMeant ==
  Encoded /\ ~ZeroDestination =>
    Cardinality(SpFields) = Cardinality(SpOperands)

-----------------------------------------------------------------------------
(* Targets.                                                                *)

(* the bytes that a load or a store moves, as a power of two *)
AccessScale ==
  IF Operand(1).k = "fp" THEN FpScales[Operand(1).w]
  ELSE IF Operand(1).x THEN 3 ELSE 2

Reached ==
  CASE reloc \in {"Page21", "GotLoadPage21", "TlvpLoadPage21"} ->
         Reach(word, "page")
    [] reloc \in {"PageOff12", "GotLoadPageOff12", "TlvpLoadPageOff12"} ->
         IF inst.op = "AddImm" THEN Increment(word)
         ELSE Number(word, At(10, 12)) * 2^AccessScale
    [] OTHER -> Reach(word, reloc)

(* An entry of the GOT is eight bytes: only an LDR of an X register reads it. *)
(* In Mach-O objects the program records the relocation for others as well.  *)
GotMisread ==
  /\ reloc \in {"GotLoadPageOff12", "TlvpLoadPageOff12"}
  /\ inst.op # "LdrImm64"

\* A branch, a literal or an address reaches its label, at either end of its
\* range too, and a relocation of the ELF object is the one whose field, scale
\* and all, is the one of the instruction it is recorded for.  It leaves out
\* what GotMisread says.
LinkedRight ==
  /\ phase \in {"resolved", "linked"} /\ ~GotMisread => Reached = chosen
  /\ phase = "linked" =>
       word \ Positions(LinkedField[rel]) = encode(inst)
=============================================================================
