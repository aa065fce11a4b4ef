------------------------------ MODULE CfiUnwind ------------------------------
(***************************************************************************)
(* What the .cfi directives of a Mach-O source become: one row of          *)
(* __compact_unwind for every procedure, and a frame of __eh_frame where   *)
(* the row cannot say what was told (src/assemble.rs start_cfi_proc,       *)
(* apply_cfi_directive, finish_cfi_proc, compact_unwind_encoding,          *)
(* eh_frame_record, materialize_eh_frame_section).                         *)
(*                                                                         *)
(* Both are read by an unwinder, which is no part of the program: it is    *)
(* modelled by what the two formats say, a number with fields and a string *)
(* of bytes.  Where the tables lie is the question of Layout.              *)
(***************************************************************************)
EXTENDS Integers, FiniteSets, SequencesExt

CONSTANTS
  Programs,       \* the sources: sequences of statements
  CodeSections    \* numbers of the sections of code, 1 among them

VARIABLES
  phase, program, pc,
  section, size,  \* the current section, the bytes in each
  proc,           \* active_cfi_proc: none, or the only element of the set
  compact,        \* compact_unwind_rows
  frames,         \* eh_frame_rows
  told,           \* history: the frames that the directives of proc tell of
  history,        \* history: those of every procedure that is finished
  eh_frame        \* the entries of the section, where they are

vars == <<phase, program, pc, section, size, proc, compact, frames, told,
          history, eh_frame>>

SP == 31

(* where the caller's frame is, and where its registers are kept from it *)
Frame(register, offset, saved) ==
  [register |-> register, offset |-> offset, saved |-> saved]

EntryFrame == Frame(SP, 0, <<>>)

Init ==
  /\ program \in Programs
  /\ phase = "collect" /\ pc = 1
  /\ section = 1 /\ size = [s \in CodeSections |-> 0]
  /\ proc = {} /\ compact = <<>> /\ frames = <<>>
  /\ told = <<>> /\ history = <<>> /\ eh_frame = <<>>

At(kinds) == phase = "collect" /\ pc <= Len(program) /\ program[pc].k \in kinds
Stmt == program[pc]
Here == size[section]

Refuse ==
  /\ phase' = "refused"
  /\ UNCHANGED <<program, pc, section, size, proc, compact, frames, told,
                 history, eh_frame>>

Code ==
  /\ At({"code"})
  /\ size' = [size EXCEPT ![section] = @ + Stmt.n]
  /\ pc' = pc + 1
  /\ UNCHANGED <<phase, program, section, proc, compact, frames, told, history,
                 eh_frame>>

Section ==
  /\ At({"section"})
  /\ section' = Stmt.s
  /\ pc' = pc + 1
  /\ UNCHANGED <<phase, program, size, proc, compact, frames, told, history,
                 eh_frame>>

(* a procedure starts behind a label, and not in another one *)
StartProc ==
  /\ At({"start"})
  /\ IF proc # {} \/ ~Stmt.labelled
     THEN Refuse
     ELSE /\ proc' = {[section |-> section, start |-> Here,
                       frame |-> EntryFrame, forbidden |-> FALSE,
                       events |-> <<>>]}
          /\ told' = <<>>
          /\ pc' = pc + 1
          /\ UNCHANGED <<phase, program, section, size, compact, frames,
                         history, eh_frame>>

-----------------------------------------------------------------------------
(* apply_cfi_directive                                                     *)

Directives ==
  {"def_cfa", "def_cfa_offset", "def_cfa_register", "offset", "restore",
   "adjust_cfa_offset"}

(* what is refused for its operand *)
BadOperand(frame) ==
  CASE Stmt.k \in {"def_cfa", "def_cfa_offset"} -> Stmt.offset < 0
    [] Stmt.k = "offset" -> Stmt.offset > 0 \/ Stmt.offset % 8 # 0
    [] Stmt.k = "adjust_cfa_offset" -> frame.offset + Stmt.offset < 0
    [] OTHER -> FALSE

(* the frame behind the directive: cfa_register, cfa_offset and            *)
(* saved_gp_offsets                                                        *)
FrameAfter(frame) ==
  CASE Stmt.k = "def_cfa" ->
         [frame EXCEPT !.register = Stmt.register, !.offset = Stmt.offset]
    [] Stmt.k = "def_cfa_offset" -> [frame EXCEPT !.offset = Stmt.offset]
    [] Stmt.k = "def_cfa_register" -> [frame EXCEPT !.register = Stmt.register]
    [] Stmt.k = "offset" ->
         [frame EXCEPT !.saved = (Stmt.register :> Stmt.offset) @@ @]
    [] Stmt.k = "restore" ->
         [frame EXCEPT !.saved =
            [r \in DOMAIN @ \ {Stmt.register} |-> @[r]]]
    [] Stmt.k = "adjust_cfa_offset" ->
         [frame EXCEPT !.offset = @ + Stmt.offset]

(* the event: an adjustment becomes the offset that it makes *)
Event(frame) ==
  CASE Stmt.k = "def_cfa" -> <<"def_cfa", Stmt.register, Stmt.offset>>
    [] Stmt.k = "def_cfa_register" -> <<"def_cfa_register", Stmt.register>>
    [] Stmt.k = "offset" -> <<"offset", Stmt.register, -Stmt.offset>>
    [] Stmt.k = "restore" -> <<"restore", Stmt.register>>
    [] OTHER -> <<"def_cfa_offset", FrameAfter(frame).offset>>

(* how far the place is from the start, in whatever section it is *)
CodeOffset(p) == IF Here < p.start THEN 0 ELSE Here - p.start

Directive ==
  /\ At(Directives)
  /\ IF proc = {} \/ \E p \in proc : BadOperand(p.frame)
     THEN Refuse
     ELSE /\ proc' =
               {[p EXCEPT
                   !.frame = FrameAfter(p.frame),
                   !.forbidden = @ \/ Stmt.k \in {"restore", "adjust_cfa_offset"},
                   !.events = Append(@, [at |-> CodeOffset(p),
                                         op |-> Event(p.frame)])] : p \in proc}
          /\ told' = Append(told, [section |-> section, at |-> Here,
                                   frame |-> (CHOOSE p \in proc' : TRUE).frame])
          /\ pc' = pc + 1
          /\ UNCHANGED <<phase, program, section, size, compact, frames,
                         history, eh_frame>>

-----------------------------------------------------------------------------
(* compact_unwind_encoding                                                 *)

ModeFrameless == 33554432
ModeDwarf == 50331648
ModeFrame == 67108864
MaxStack == 4095

(* x19 and x20 are the first pair, x27 and x28 the fifth *)
Low(pair) == 17 + 2 * pair
Pairs(saved) == {pair \in 1 .. 5 : {Low(pair), Low(pair) + 1}
                                     \cap DOMAIN saved # {}}

(* the pairs are saved one below the other, with no gap *)
InPlace(saved, first) ==
  \A pair \in Pairs(saved) :
    LET above == Cardinality({other \in Pairs(saved) : other < pair})
    IN  /\ {Low(pair), Low(pair) + 1} \subseteq DOMAIN saved
        /\ saved[Low(pair)] = first - 16 * above
        /\ saved[Low(pair) + 1] = saved[Low(pair)] - 8

PairBits(saved) == MapThenSumSet(LAMBDA pair : 2^(pair - 1), Pairs(saved))

Frameless(frame) ==
  IF InPlace(frame.saved, -8) /\ DOMAIN frame.saved \subseteq 19 .. 28
  THEN ModeFrameless + (frame.offset \div 16) * 2^12 + PairBits(frame.saved)
  ELSE ModeDwarf

Framed(frame) ==
  IF /\ frame.register = 29 /\ frame.offset = 16
     /\ {29, 30} \subseteq DOMAIN frame.saved
     /\ frame.saved[29] = -16 /\ frame.saved[30] = -8
     /\ InPlace(frame.saved, -24)
     /\ DOMAIN frame.saved \subseteq 19 .. 30
  THEN ModeFrame + PairBits(frame.saved)
  ELSE ModeDwarf

(* a stack that no frameless row can hold is an error, whatever is saved *)
StackRefused(p) ==
  /\ ~p.forbidden /\ p.frame.register = SP
  /\ p.frame.offset % 16 # 0 \/ p.frame.offset \div 16 > MaxStack

(* as a bug would: other registers saved are forgotten *)
compact_unwind_encoding_of_any_saved(p) ==
  IF p.forbidden THEN ModeDwarf
  ELSE IF p.frame.register # SP THEN Framed(p.frame)
  ELSE IF InPlace(p.frame.saved, -8)
  THEN ModeFrameless + (p.frame.offset \div 16) * 2^12 + PairBits(p.frame.saved)
  ELSE ModeDwarf

compact_unwind_encoding(p) ==
  IF p.forbidden THEN ModeDwarf
  ELSE IF p.frame.register = SP THEN Frameless(p.frame)
  ELSE Framed(p.frame)

-----------------------------------------------------------------------------
(* eh_frame_record                                                         *)

encode_uleb128[value \in Nat] ==
  IF value < 128 THEN <<value>>
  ELSE <<128 + (value % 128)>> \o encode_uleb128[value \div 128]

LittleEndian(value, bytes) ==
  [i \in 1 .. bytes |-> (value \div 256^(i - 1)) % 256]

(* as a bug would: one more in the six bits of the opcode *)
emit_advance_loc_to_64(delta) ==
  CASE delta = 0 -> <<>>
    [] delta \in 1 .. 64 -> <<64 + (delta % 64)>>
    [] delta \in 65 .. 255 -> <<2, delta>>
    [] delta \in 256 .. 65535 -> <<3>> \o LittleEndian(delta, 2)
    [] OTHER -> <<4>> \o LittleEndian(delta, 4)

emit_advance_loc(delta) ==
  CASE delta = 0 -> <<>>
    [] delta \in 1 .. 63 -> <<64 + delta>>
    [] delta \in 64 .. 255 -> <<2, delta>>
    [] delta \in 256 .. 65535 -> <<3>> \o LittleEndian(delta, 2)
    [] OTHER -> <<4>> \o LittleEndian(delta, 4)

emit_cfi_op(op) ==
  CASE op[1] = "def_cfa" ->
         <<12>> \o encode_uleb128[op[2]] \o encode_uleb128[op[3]]
    [] op[1] = "def_cfa_register" -> <<13>> \o encode_uleb128[op[2]]
    [] op[1] = "def_cfa_offset" -> <<14>> \o encode_uleb128[op[2]]
    [] op[1] = "offset" -> <<128 + op[2]>> \o encode_uleb128[op[3] \div 8]
    [] op[1] = "restore" -> <<192 + op[2]>>

Before(events, i) == IF i = 1 THEN 0 ELSE events[i - 1].at

(* events that go back, or an offset that DWARF has no operand for *)
RecordRefused(p) ==
  \E i \in DOMAIN p.events :
    \/ p.events[i].at < Before(p.events, i)
    \/ p.events[i].op[1] = "offset" /\ p.events[i].op[3] = 0

Instructions(events) ==
  FlattenSeq([i \in DOMAIN events |->
    emit_advance_loc(events[i].at - Before(events, i))
      \o emit_cfi_op(events[i].op)])

Record(p) ==
  [section |-> p.section, start |-> p.start, length |-> Here - p.start,
   instructions |-> Instructions(p.events)]

(* finish_cfi_proc: the row, and behind DWARF mode a frame *)
EndProc ==
  /\ At({"end"})
  /\ IF \/ proc = {}
        \/ \E p \in proc :
             \/ p.section # section
             \/ StackRefused(p)
             \/ compact_unwind_encoding(p) = ModeDwarf /\ RecordRefused(p)
     THEN Refuse
     ELSE \E p \in proc :
            LET encoding == compact_unwind_encoding(p)
            IN  /\ compact' = Append(compact,
                     [section |-> p.section, start |-> p.start,
                      length |-> Here - p.start, encoding |-> encoding])
                /\ frames' = IF encoding = ModeDwarf
                             THEN Append(frames, Record(p)) ELSE frames
                /\ history' = Append(history, told)
                /\ proc' = {} /\ told' = <<>>
                /\ pc' = pc + 1
                /\ UNCHANGED <<phase, program, section, size, eh_frame>>

-----------------------------------------------------------------------------
(* materialize_eh_frame_section: behind the CIE of 20 bytes one entry for  *)
(* each frame.  pc is what is left in place for the linker to add.         *)

CieSize == 20

EntrySize(record) == 25 + Len(record.instructions)

EntryStart(i) ==
  CieSize + FoldLeft(LAMBDA sum, record : sum + EntrySize(record), 0,
                     SubSeq(frames, 1, i - 1))

Entry(i) ==
  LET start == EntryStart(i)
  IN  [at |-> start, length |-> EntrySize(frames[i]) - 4,
       cie |-> start + 4, pc |-> -(start + 8), record |-> frames[i]]

Finish ==
  /\ phase = "collect" /\ pc = Len(program) + 1
  /\ IF proc # {}
     THEN Refuse
     ELSE /\ phase' = "done"
          /\ eh_frame' = [i \in DOMAIN frames |-> Entry(i)]
          /\ UNCHANGED <<program, pc, section, size, proc, compact, frames,
                         told, history>>

Stopped == phase # "collect" /\ UNCHANGED vars

Next ==
  \/ Code \/ Section \/ StartProc \/ Directive \/ EndProc \/ Finish
  \/ Stopped

Spec == Init /\ [][Next]_vars

-----------------------------------------------------------------------------
(* The unwinder.                                                           *)

(* the registers of the pairs of a row, in the order they are saved *)
RowRegisters(bits) ==
  FlattenSeq([pair \in 1 .. 5 |->
    IF (bits \div 2^(pair - 1)) % 2 = 1 THEN <<Low(pair), Low(pair) + 1>>
    ELSE <<>>])

(* registers one below the other, eight bytes each *)
Below(registers, first) ==
  [r \in ToSet(registers) |->
     first - 8 * ((CHOOSE i \in DOMAIN registers : registers[i] = r) - 1)]

(* a frame record, x29 and x30, lies above the pairs of a frame *)
RowFrame(encoding) ==
  LET registers == RowRegisters(encoding % 2^12)
      mode == encoding \div 2^24
  IN  CASE mode = 2 -> Frame(SP, 16 * ((encoding \div 2^12) % 2^12),
                             Below(registers, -8))
        [] mode = 4 -> Frame(29, 16, Below(<<30, 29>> \o registers, -8))
        [] OTHER -> EntryFrame

(* a number of seven bits a byte, its value and where the next byte is *)
Uleb(bytes, i) ==
  LET last == CHOOSE j \in i .. Len(bytes) :
                bytes[j] < 128 /\ \A k \in i .. j - 1 : bytes[k] >= 128
  IN  [value |-> FoldLeft(LAMBDA sum, j : sum * 128 + (bytes[last - j] % 128), 0,
                          [j \in 1 .. last - i + 1 |-> j - 1]),
       next |-> last + 1]

Number(bytes, i, width) ==
  FoldLeft(LAMBDA sum, k : sum * 256 + bytes[i + width - k], 0,
           [k \in 1 .. width |-> k])

(* one instruction: where the code is, and the frame there *)
Execute(bytes, s) ==
  LET b == bytes[s.i]
      one == Uleb(bytes, s.i + 1)
      two == Uleb(bytes, one.next)
      advance(width) ==
        [s EXCEPT !.i = @ + 1 + width, !.at = @ + Number(bytes, s.i + 1, width)]
      frame(next, new) == [s EXCEPT !.i = next, !.frame = new]
  IN  CASE b \in 64 .. 127 -> [s EXCEPT !.i = @ + 1, !.at = @ + (b - 64)]
        [] b = 2 -> advance(1)
        [] b = 3 -> advance(2)
        [] b = 4 -> advance(4)
        [] b = 12 -> frame(two.next, [s.frame EXCEPT !.register = one.value,
                                                     !.offset = two.value])
        [] b = 13 -> frame(one.next, [s.frame EXCEPT !.register = one.value])
        [] b = 14 -> frame(one.next, [s.frame EXCEPT !.offset = one.value])
        [] b \in 128 .. 191 ->
             frame(one.next,
                   [s.frame EXCEPT !.saved = (b - 128 :> -8 * one.value) @@ @])
        [] b >= 192 ->
             frame(s.i + 1,
                   [s.frame EXCEPT !.saved =
                      [r \in DOMAIN @ \ {b - 192} |-> @[r]]])

(* the table of an entry: the frames, each where it begins *)
Table(bytes) ==
  LET start == [i |-> 1, at |-> 0, frame |-> EntryFrame]
      After[n \in 0 .. Len(bytes)] ==
        IF n = 0 THEN <<start>>
        ELSE LET states == After[n - 1]
             IN  IF Last(states).i > Len(bytes) THEN states
                 ELSE Append(states, Execute(bytes, Last(states)))
  IN  After[Len(bytes)]

(* the frame at an offset of the code: the last one that begins before it *)
FrameAt(table, offset) ==
  LET past == {i \in DOMAIN table : table[i].at <= offset}
  IN  IF past = {} THEN EntryFrame ELSE table[Max(past)].frame

(* the entries that are met going from length to length *)
Walked ==
  LET Place[i \in 1 .. Len(eh_frame) + 1] ==
        IF i = 1 THEN CieSize ELSE Place[i - 1] + 4 + eh_frame[i - 1].length
  IN  \A i \in DOMAIN eh_frame : eh_frame[i].at = Place[i]

-----------------------------------------------------------------------------
(* Properties.                                                             *)

DwarfRows == SelectSeq([i \in DOMAIN compact |-> i],
                       LAMBDA i : compact[i].encoding = ModeDwarf)

Told(i) == IF history[i] = <<>> THEN EntryFrame ELSE Last(history[i]).frame

\* A procedure that has a compact row alone is unwound from that row as from
\* its last frame: the stack size, which registers are saved and where, though
\* the row has but a bit for a pair and their places follow from the bits.
CompactMeant ==
  \A i \in DOMAIN compact :
    compact[i].encoding # ModeDwarf => RowFrame(compact[i].encoding) = Told(i)

\* Every other procedure has an entry that is found by walking the section and
\* covers the same code, and whose instructions give at every place of the
\* code the frame told there, if all was told in the section of the procedure.
EntriesMeant ==
  phase = "done" =>
    /\ Walked
    /\ Len(eh_frame) = Len(DwarfRows)
    /\ \A k \in DOMAIN eh_frame :
         LET row == compact[DwarfRows[k]]
             entry == eh_frame[k]
             table == Table(entry.record.instructions)
             said == [j \in DOMAIN history[DwarfRows[k]] |->
                        [at |-> history[DwarfRows[k]][j].at - row.start,
                         frame |-> history[DwarfRows[k]][j].frame]]
             places == {table[j].at : j \in DOMAIN table}
                         \cup {said[j].at : j \in DOMAIN said}
         IN  /\ entry.at + 4 - entry.cie = 0
             /\ entry.at + 8 + entry.pc = 0
             /\ entry.record.section = row.section
             /\ entry.record.start = row.start
             /\ entry.record.length = row.length
             /\ (\A j \in DOMAIN said :
                   history[DwarfRows[k]][j].section = row.section) =>
                  \A x \in places : FrameAt(table, x) = FrameAt(said, x)
=============================================================================
