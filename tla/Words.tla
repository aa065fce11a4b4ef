------------------------------- MODULE Words -------------------------------
(***************************************************************************)
(* Machine words and the bit fields that make them up (src/encode.rs).     *)
(*                                                                         *)
(* A word is the SET of the positions of its one bits, so that `|` is      *)
(* union and a mask is intersection: the 32-bit words of the encoder and   *)
(* the 64-bit immediates it reads are wider than the integers TLC has.  A  *)
(* field is the SEQUENCE of the positions that the bits of its value go    *)
(* to, the lowest first.  A split field is then one sequence too, and a    *)
(* negative value is placed as its two's complement by floor division.     *)
(***************************************************************************)
EXTENDS Integers, Sequences

(* `v << lo`, for a constant of at most sixteen bits *)
Shl(v, lo) == {lo + i : i \in {j \in 0 .. 15 : (v \div 2^j) % 2 = 1}}

(* a 32-bit constant, given by its two halves *)
W(high, low) == Shl(high, 16) \cup Shl(low, 0)

(* `width` bits from position lo *)
At(lo, width) == [j \in 1 .. width |-> lo + j - 1]

(* bit j of a value, the lowest being bit 1 *)
Bit(v, j) == (v \div 2^(j - 1)) % 2

(* `(v & mask) << lo`: the bits of v, each at its place in the field *)
Place(v, field) == {field[j] : j \in {n \in DOMAIN field : Bit(v, n) = 1}}

(* the positions a field governs *)
Positions(field) == {field[j] : j \in DOMAIN field}

(* no position is governed twice *)
OneToOne(field) ==
  \A j, n \in DOMAIN field : field[j] = field[n] => j = n

(* what the bits of a word say of a field's value, bit by bit *)
ReadsBack(word, v, field) ==
  \A j \in DOMAIN field : field[j] \in word <=> Bit(v, j) = 1

(* `2^scale` divides v: `value % alignment == 0` *)
Aligned(v, scale) == v % 2^scale = 0

(* encode.rs assert_signed_scaled_immediate: what a scaled, signed field
   of that many bits can hold *)
SignedScaled(v, bits, scale) ==
  /\ Aligned(v, scale)
  /\ v \div 2^scale \in -(2^(bits - 1)) .. 2^(bits - 1) - 1

(* encode.rs unsigned_scaled_field *)
UnsignedScaled(v, bits, scale) ==
  /\ v \in 0 .. (2^bits - 1) * 2^scale
  /\ Aligned(v, scale)
=============================================================================
