----------------------------- MODULE MCCfiUnwind -----------------------------
(***************************************************************************)
(* The sources that CfiUnwind is checked with: prologues and epilogues in  *)
(* pieces, in every order, code whose lengths are at the bounds of the     *)
(* forms of an advance, and offsets at those of a row and of a number.     *)
(***************************************************************************)
EXTENDS CfiUnwind

Bytes(n) == [k |-> "code", n |-> n]
Switch(s) == [k |-> "section", s |-> s]
Start == [k |-> "start", labelled |-> TRUE]
End == [k |-> "end"]
DefCfa(r, n) == [k |-> "def_cfa", register |-> r, offset |-> n]
DefCfaOffset(n) == [k |-> "def_cfa_offset", offset |-> n]
DefCfaRegister(r) == [k |-> "def_cfa_register", register |-> r]
Adjust(n) == [k |-> "adjust_cfa_offset", offset |-> n]
Offset(r, n) == [k |-> "offset", register |-> r, offset |-> n]
Restore(r) == [k |-> "restore", register |-> r]

(* two registers, one below the other *)
Pair(r, s, n) == <<Offset(r, n), Offset(s, n - 8)>>

FrameRecord == <<DefCfa(29, 16)>> \o Pair(30, 29, -8)

Pieces ==
  {<<Bytes(n)>> : n \in {4, 63, 64, 256}}
    \cup {FrameRecord, <<DefCfaRegister(29)>>, <<DefCfaRegister(SP)>>,
          <<DefCfa(SP, 0)>>, <<DefCfaOffset(16)>>,
          <<Bytes(4), DefCfaOffset(144)>>,
          <<Adjust(16)>>, <<Adjust(-16)>>,
          Pair(19, 20, -8), Pair(21, 22, -24), Pair(19, 20, -24),
          Pair(21, 22, -40), Pair(27, 28, -40), Pair(20, 19, -24), <<Offset(21, -24)>>,
          Pair(0, 1, -24), <<Restore(19)>>, <<Bytes(4), Restore(29)>>,
          <<End, Start>>,
          <<Switch(2), Bytes(4), DefCfaOffset(32), Switch(1)>>}

(* pieces that are met once, not in every combination *)
Lone ==
  {<<Bytes(65535), DefCfaOffset(24)>>, <<Bytes(65536), Adjust(24)>>,
   <<Bytes(255), Restore(30)>>, <<DefCfaOffset(-16)>>, <<DefCfa(29, -8)>>,
   <<DefCfaOffset(16 * MaxStack)>>, <<DefCfaOffset(16 * MaxStack + 16)>>,
   <<Offset(19, 8)>>, <<Offset(19, -12)>>, <<Offset(19, 0)>>,
   <<Offset(19, -1024), Restore(20)>>, <<Offset(19, -131072)>>,
   <<Start>>, <<End>>, <<[k |-> "start", labelled |-> FALSE]>>,
   <<Switch(2)>>, <<Switch(2), End>>}

(* one procedure, or more where pieces end it and start another one *)
Procedure(pieces) ==
  <<Start>> \o FlattenSeq(pieces) \o <<Bytes(4), End>>

Upto(n, pieces) == UNION {[1 .. m -> pieces] : m \in 0 .. n}

MCPrograms ==
  {Procedure(pieces) : pieces \in Upto(3, Pieces) \cup Upto(2, Pieces \cup Lone)}
    \cup {Procedure(<<FrameRecord>> \o pieces) : pieces \in Upto(2, Pieces)}
    \cup {SubSeq(Procedure(<<>>), 1, 2), <<DefCfaOffset(16)>>,
          <<Bytes(4), End>>}

MCCodeSections == {1, 2}
=============================================================================
