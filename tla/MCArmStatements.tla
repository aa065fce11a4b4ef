-------------------------- MODULE MCArmStatements --------------------------
(***************************************************************************)
(* The statements that ArmStatements is checked with: every mnemonic, both *)
(* widths, the three kinds of register 31, and constants at both sides of  *)
(* every bound that the parser or the encoder tests.                       *)
(***************************************************************************)
EXTENDS ArmStatements

(* every mnemonic of a set with every list of operands of another *)
Every(mnemonics, lists) == {Stmt(mn, "", ops) : mn \in mnemonics, ops \in lists}

X == {Gp(3, TRUE), Sp(TRUE), Zr(TRUE)}
Wd == {Gp(18, FALSE), Sp(FALSE), Zr(FALSE)}
Gps == X \cup Wd

OneX == Gp(21, TRUE)
OneW == Gp(10, FALSE)

(* two, three and four registers of one width, and of two *)
Pairs == {<<a, b>> : a, b \in Gps}
PlainPair(x) == <<Gp(3, x), Gp(21, x)>>
PlainPairs == {PlainPair(x) : x \in BOOLEAN}
Triples == {<<Gp(5, x), Gp(18, y), Gp(30, z)>> : x, y, z \in BOOLEAN}
Quads == {<<Gp(5, x), Zr(x), Gp(30, x), Gp(17, x)>> : x \in BOOLEAN}

(* lists, each followed by each of the operands of a set *)
Then(lists, operands) == {Append(ops, o) : ops \in lists, o \in operands}

Imms(values) == {Imm(v) : v \in values}

-----------------------------------------------------------------------------
(* Addition and subtraction.                                               *)

AddImms ==
  Imms({-16773120, -4097, -4096, -4095, -1, 0, 4095, 4096, 4097, 16773120,
        16777216})

Extensions ==
  {Mod(name, amount) : name \in {"Uxtb", "Uxtw", "Uxtx", "Sxth", "Sxtx"},
                       amount \in {{}, {4}, {5}}}

AddMods ==
  Extensions
    \cup {Mod("Lsl", {a}) : a \in {0, 4, 5, 12, 31, 32, 63, 64}}
    \cup {Mod("Lsr", {31}), Mod("Asr", {63}), Mod("Asr", {})}

Additions ==
  Every({"add", "sub", "adds", "subs"},
        Then(Pairs, Gps \cup AddImms)
          \cup {<<p[1], p[2], r, m>> :
                  p \in {<<Sp(TRUE), Gp(3, TRUE)>>, <<Gp(3, TRUE), Sp(TRUE)>>,
                         PlainPair(TRUE), PlainPair(FALSE),
                         <<Zr(TRUE), Gp(3, TRUE)>>, <<Sp(FALSE), Sp(FALSE)>>},
                  r \in {OneX, OneW, Zr(TRUE)}, m \in AddMods}
          \cup Then(Then(PlainPairs, Imms({1, 4095, -7, 4096})),
                    {Mod("Lsl", {a}) : a \in {0, 12, 13}}))
    \cup Every({"add"}, Then(Pairs, {Sym(m) : m \in {"", "PAGEOFF", "lo12",
                                      "got_lo12", "gottprel_lo12", "PAGE"}}))

Comparisons ==
  Every({"cmp", "cmn", "neg"},
        Pairs \cup Then({<<r>> : r \in Gps}, AddImms)
          \cup Then(Pairs, {Mod("Lsl", {3}), Mod("Asr", {63}),
                            Mod("Sxtx", {2}), Mod("Uxtb", {})}))

-----------------------------------------------------------------------------
(* Logic and moves.                                                        *)

(* of 64 and of 32 bits; the last three are none *)
Masks ==
  {Imm(1), Imm(255), Imm(1431655765), Imm(-2), Wide({31}), Wide({63, 0}),
   Wide(32 .. 63), Wide({b \in 0 .. 63 : b % 16 \in 4 .. 11}),
   Imm(0), Imm(-1), Imm(5)}

Logic ==
  Every({"and", "orr", "eor", "ands"},
        Triples \cup Then(PlainPairs, Masks)
          \cup Then({<<OneX, Sp(TRUE)>>, <<Sp(TRUE), OneX>>}, {OneX, Imm(1)}))
    \cup Every({"tst", "mvn", "mov"}, Pairs)
    \cup Every({"tst"}, Then({<<OneX>>, <<OneW>>}, Masks))

IntoZero ==
  Every({"and", "orr", "eor"}, {<<Zr(x), Gp(3, x), Imm(255)>> : x \in BOOLEAN})

Moves ==
  Every({"mov"},
        Then({<<r>> : r \in Gps},
             Imms({0, 1, 65535, 65536, 65537, -1, -2, -65536, -65537,
                   2147418112})
               \cup {Wide({48, 63}), Wide(32 .. 47), Wide(0 .. 62),
                     Wide({0, 32})}))
    \cup Every({"movz", "movn", "movk"},
               Then({<<r>> : r \in Gps}, Imms({-1, 0, 65535, 65536}))
                 \cup {<<r, Imm(4660), Mod("Lsl", {a})>> :
                         r \in {OneX, OneW}, a \in {0, 8, 16, 32, 48, 64}})

-----------------------------------------------------------------------------
(* Multiplication, selection, shifts, branches and addresses.              *)

Products ==
  Every({"mul", "sdiv", "udiv", "mneg", "umull", "smull", "umulh", "smulh"},
        Triples \cup {<<OneX, Sp(TRUE), OneX>>})
    \cup Every({"madd", "msub"}, Quads \cup Triples)
    \cup Every({"clz"}, Pairs)

Conditions ==
  {Id(name) : name \in DOMAIN parse_condition \cup {"nv", "sy"}}

Selections ==
  Every({"csel", "csinc", "csinv", "csneg"}, Then(Triples, Conditions))
    \cup Every({"cset", "csetm"}, Then({<<r>> : r \in Gps}, Conditions))
    \cup Every({"cinc", "cinv", "cneg"},
               Then(PlainPairs \cup {<<OneX, Sp(TRUE)>>}, Conditions))
    \cup Every({"ccmp", "ccmn"},
               {<<r, a, f, Id("lt")>> :
                  r \in Gps, a \in Imms({-1, 0, 31, 32}),
                  f \in Imms({0, 15, 16})}
                 \cup Then({<<OneX, Imm(7), Imm(9)>>}, Conditions))
    \cup {Stmt("b", o.name, <<Sym("")>>) : o \in Conditions}

Amounts == Imms({-1, 0, 1, 31, 32, 63, 64})

Shifts ==
  Every({"lsl", "lsr", "asr"}, Triples \cup Then(PlainPairs, Amounts))
    \cup Every({"sxtb", "sxth", "sxtw", "uxtw"}, Pairs)
    \cup Every({"ubfiz", "bfi", "bfxil"},
               Then(Then(PlainPairs, Amounts), Amounts))

Far(bits, scale) ==
  Imms({v * 2^scale : v \in {-(2^(bits - 1)) - 1, -(2^(bits - 1)), 0,
                             2^(bits - 1) - 1, 2^(bits - 1)}} \cup {2, 3})

Labels == {Sym(""), Sym("PAGE"), Id("eq")}

Branches ==
  Every({"b", "bl"}, {<<o>> : o \in Far(26, 2) \cup Labels \cup {OneX}})
    \cup {Stmt("b", "ge", <<o>>) : o \in Far(19, 2) \cup Labels}
    \cup Every({"cbz", "cbnz"}, Then({<<r>> : r \in Gps}, Far(19, 2) \cup Labels))
    \cup Every({"tbz", "tbnz"},
               Then({<<r, b>> : r \in {OneX, OneW}, b \in Amounts},
                    Far(14, 2) \cup Labels))
    \cup Every({"ret", "br", "blr"}, {<<>>} \cup {<<r>> : r \in Gps})

Addresses ==
  Every({"adr"}, Then({<<OneX>>, <<OneW>>}, Far(21, 0) \cup Labels \cup {OneW}))
    \cup Every({"adrp"},
               {<<OneX, o>> : o \in {Sym(m) : m \in DOMAIN AdrpKinds \cup {"lo12"}}
                  \cup Imms({0, 1, 4096, -4096})
                  \cup {Wide(12 .. 31), Wide(32 .. 63), Wide(31 .. 63), Wide({32})}})

-----------------------------------------------------------------------------
(* Memory.                                                                 *)

Bases == {OneX, Sp(TRUE), Zr(TRUE), OneW}

Bare(base) == Mem(base, "offset", {}, {})

OffsetAddresses ==
  {Bare(base) : base \in Bases}
    \cup {Mem(OneX, mode, {Imm(v)}, {}) :
            mode \in {"offset", "pre", "post"},
            v \in {-257, -256, -1, 0, 1, 8, 255, 256, 4095, 4096, 8190, 8192,
                   16380, 16384, 32760, 32768, 65520, 65536}}

IndexAddresses ==
  {Mem(Sp(TRUE), "offset", {r}, mods) :
     r \in {Gp(9, TRUE), Gp(9, FALSE), Zr(TRUE), Sp(TRUE)},
     mods \in {{}} \cup {{Mod(name, amount)} :
                           name \in {"Lsl", "Sxtx", "Uxtw"},
                           amount \in {{}, {0}, {1}, {2}, {3}, {4}}}}

SymbolAddresses ==
  {Mem(OneX, mode, {Sym(m)}, {}) :
     mode \in {"offset", "post"},
     m \in DOMAIN LoadSymbols \cup {"", "PAGE"}}

Literals == Far(19, 2) \cup Labels

SingleTransfers ==
  Every({"ldr", "str"},
        Then({<<r>> : r \in {OneX, OneW, Zr(TRUE), Sp(TRUE)}
                       \cup {FpR(31, w) : w \in DOMAIN FpWidths}},
             UNION {OffsetAddresses, IndexAddresses, SymbolAddresses, Literals}))
    \cup Every({"ldrb", "ldrh", "strb", "strh", "ldrsb", "ldrsh", "ldrsw"},
               Then({<<r>> : r \in {OneX, OneW}},
                    UNION {OffsetAddresses, IndexAddresses, {Sym("")}}))
    \cup Every({"ldur", "stur"}, Then({<<OneX>>, <<OneW>>}, OffsetAddresses))

PairTransfers ==
  Every({"ldp", "stp"},
        {<<a, b, Mem(OneX, mode, {Imm(v)}, {})>> :
           a \in {OneX, OneW, FpR(1, "s"), FpR(1, "d"), FpR(1, "q")},
           b \in {Gp(29, TRUE), OneX, Gp(29, FALSE), FpR(2, "s"), FpR(2, "d"),
                  FpR(2, "q")},
           mode \in {"offset", "pre", "post"},
           v \in {-1028, -1024, -516, -512, -260, -256, 0, 4, 252, 256, 504,
                  512, 1008, 1024}})

Atomics ==
  Every(DOMAIN AcquireReleaseNames \cup DOMAIN AcquireReleaseNarrowNames,
        Then({<<r>> : r \in Gps}, {Bare(base) : base \in Bases}))
    \cup Every(UNION {DOMAIN RmwNames, DOMAIN RmwNarrowNames, {"stlxr"}},
               Then(PlainPairs \cup {<<OneW, Zr(TRUE)>>},
                    {Bare(OneX), Bare(Zr(TRUE))}))

-----------------------------------------------------------------------------
(* Vectors and floating point.                                             *)

V(n) == Vec(n, "")

(* a statement in the dialect of Apple, and the one of GNU *)
Dialects(mn, arr, vectors) ==
  {Stmt(mn, arr, [i \in DOMAIN vectors |-> V(vectors[i])]),
   Stmt(mn, "", [i \in DOMAIN vectors |-> Vec(vectors[i], arr)])}

Vectors ==
  UNION {UNION {Dialects(mn, arr, <<1, 18, 31>>) : mn \in ThreeVectors[arr]} :
           arr \in DOMAIN ThreeVectors}
    \cup UNION {UNION {Dialects(mn, arr, <<30, 7>>) : mn \in TwoVectors[arr]} :
                  arr \in DOMAIN TwoVectors}
    \cup UNION {{Stmt(mn, arr, <<FpR(9, w), V(20)>>) :
                   mn \in Reductions[arr], w \in {"b", "h", "s", "d"}} :
                  arr \in DOMAIN Reductions}
    \cup {Stmt(mn, "2d", <<FpR(9, "d"), V(20)>>) : mn \in simd_reduce_2d}
    \cup {Stmt(mn, "2d", <<V(9), V(20), o>>) :
            mn \in CompareZero2d \cup CompareReg2d,
            o \in {V(3), Imm(0), Imm(1), Flt(FALSE, 0, 0)}}
    \cup {Stmt("ext", "16b", <<V(1), V(2), V(3), o>>) : o \in Imms({-1, 0, 15, 16})}
    \cup {Stmt(mn, "16b", <<V(1), VecList(regs, ""), V(3)>>) :
            mn \in {"tbl", "tbx"},
            regs \in {<<4>>, <<4, 5>>, <<4, 5, 6>>, <<4, 5, 6, 7>>, <<4, 6>>,
                      <<31, 0>>}}

LaneNumbers == {0, 1, 2, 3, 4, 7, 8, 15, 16}

LaneMoves ==
  {Stmt(mn, w, <<r, Lane(30, "", i)>>) :
     mn \in {"umov", "smov", "mov"}, w \in Lanes, i \in LaneNumbers,
     r \in {OneX, OneW}}
    \cup {Stmt("mov", w, <<Lane(30, "", i), o>>) :
            w \in Lanes, i \in LaneNumbers,
            o \in {OneX, OneW, Lane(3, "", 0), Lane(3, "", 1), Lane(3, "", 15)}}
    \cup {Stmt("mov", "", <<FpR(5, w), Lane(30, "", i)>>) :
            w \in {"s", "d", "h"}, i \in LaneNumbers}
    \cup {Stmt("ld1", w, <<Lane(30, "", i), Bare(base)>>) :
            w \in Lanes, i \in LaneNumbers, base \in Bases}
    \cup {Stmt("dup", arr, <<V(7), o>>) :
            arr \in DOMAIN LaneOf,
            o \in {OneX, OneW, Sp(TRUE)} \cup {Lane(30, "", i) : i \in LaneNumbers}}

Floats ==
  {Flt(FALSE, 1, -1), Flt(TRUE, 1, -3), Flt(FALSE, 31, 0), Flt(FALSE, 17, -4),
   Flt(FALSE, 1, -4), Flt(TRUE, 17, -7), Flt(FALSE, 33, -5), Flt(FALSE, 0, 0)}
    \cup Imms({-31, -2, 0, 1, 2, 31, 32})

FpLists(count) ==
  {[i \in 1 .. count |-> FpR(7 * i, w)] : w \in {"h", "s", "d"}}

FloatingPoint ==
  Every({"fadd", "fsub", "fmul", "fdiv"}, FpLists(3))
    \cup Every({"fneg", "fabs", "fsqrt", "fcmp", "fmov"}, FpLists(2))
    \cup Every({"fmadd", "fmsub", "fnmsub"}, FpLists(4))
    \cup Every({"fcsel"}, Then(FpLists(3), Conditions))
    \cup Every({"fcvt"}, {<<FpR(1, a), FpR(2, b)>> : a, b \in {"s", "d"}})
    \cup Every({"fcvtzs", "fcvtzu", "fmov"},
               {<<r, FpR(30, w)>> : r \in Gps, w \in {"s", "d"}})
    \cup Every({"scvtf", "ucvtf", "fmov"},
               {<<FpR(30, w), r>> : r \in Gps, w \in {"s", "d"}})
    \cup Every({"fmov"}, Then({<<FpR(6, "s")>>, <<FpR(6, "d")>>}, Floats))

System ==
  Every(DOMAIN HintNames, {<<>>, <<Imm(0)>>})
    \cup Every({"svc", "brk"}, {<<o>> : o \in Imms({-1, 0, 65535, 65536})})
    \cup Every({"dmb", "dsb", "isb"},
               {<<>>} \cup {<<Id(name)>> : name \in DOMAIN parse_barrier_option
                                                      \cup {"eq"}})

-----------------------------------------------------------------------------
MCStatements ==
  UNION {Additions, Comparisons, Logic, IntoZero, Moves, Products, Selections,
         Shifts, Branches, Addresses, SingleTransfers, PairTransfers, Atomics,
         Vectors, LaneMoves, FloatingPoint, System}

(* the bounds of 26, 19, 14 and 21 bits, and what is no multiple of four *)
MCDistances ==
  {-134217732, -134217728, -1048580, -1048576, -32772, -32768, -4, 0, 2, 4,
   32764, 32768, 1048572, 1048575, 1048576, 134217724, 134217728}

MCOffsets == {0, 16, 2064, 4080}
=============================================================================
