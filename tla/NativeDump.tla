------------------------------ MODULE NativeDump ------------------------------
(***************************************************************************)
(* The text of native-crash.dump: what the signal handler writes of one    *)
(* crash, write by write, and what the next launch parses out of it.       *)
(*                                                                         *)
(* A text is a sequence of symbols.  A keyword, the header and a word of a *)
(* module path are one symbol each; a space, a line end and the digits of  *)
(* a number are symbols of their own.  A write that the disk takes in part *)
(* ends between two symbols.                                               *)
(***************************************************************************)
EXTENDS Integers, Sequences, SequencesExt

CONSTANTS
    Images,       \* what the loader reports at install(): name, load segments, notes
    MaxModules,   \* kMaxModules
    MaxBuildId,   \* kMaxBuildIdBytes, in digits
    MaxNibbles    \* the nibbles of a 64-bit word

ASSUME NativeDumpAssumption == MaxNibbles \in Nat \ {0} /\ MaxModules \in Nat /\ MaxBuildId \in Nat

Space   == " "
LineEnd == "\n"
Header  == "tombstone-native-crash 1"

HexDigits == <<"0", "1", "2", "3", "4", "5", "6", "7", "8", "9", "a", "b", "c", "d", "e", "f">>

\* The value of a digit, and how many digits of a base a symbol can be.
IsDigit(symbol, base) == \E d \in 1 .. base : HexDigits[d] = symbol

DigitValue(symbol) == (CHOOSE d \in 1 .. 16 : HexDigits[d] = symbol) - 1

-----------------------------------------------------------------------------
(* The module table, captured while nothing is wrong *)

\* read_build_id walks one note segment: the first GNU note gives the id, one that
\* overruns its segment (cut) ends the walk, and without either the slot keeps what it had.
ReadBuildId(kept, notes) ==
    LET ends == {i \in DOMAIN notes : notes[i].kind \in {"gnu", "cut"}}
    IN  IF ends = {} THEN kept
        ELSE LET note == notes[CHOOSE i \in ends : \A j \in ends : i <= j]
             IN  IF note.kind = "cut" THEN kept
                 ELSE SubSeq(note.id, 1, IF Len(note.id) < MaxBuildId THEN Len(note.id) ELSE MaxBuildId)

\* phdr_callback: one image into the next slot of the table, from its lowest
\* address to its highest.  An image without a load segment leaves the slot to
\* the next image, with the build id it has read into it.
AddImage(acc, image) ==
    LET ends == {[lo |-> segment.lo, hi |-> segment.lo + segment.size] : segment \in image.load}
        id   == FoldLeft(ReadBuildId, acc.id, image.notes)
    IN  IF Len(acc.table) >= MaxModules THEN acc
        ELSE IF ends = {} THEN [acc EXCEPT !.id = id]
        ELSE [ table |-> Append(acc.table,
                   [ name     |-> image.name,
                     base     |-> (CHOOSE e \in ends : \A f \in ends : e.lo <= f.lo).lo,
                     end      |-> (CHOOSE e \in ends : \A f \in ends : e.hi >= f.hi).hi,
                     build_id |-> id ]),
               id |-> <<>> ]

Modules == FoldLeft(AddImage, [table |-> <<>>, id |-> <<>>], Images).table

-----------------------------------------------------------------------------
(* Numbers out: hex_to and dec_to *)

Nibble(value, i) == (value \div (16 ^ i)) % 16

\* hex_to: no leading zeros, but one digit at least.
Hex(value) ==
    LET set == {i \in 1 .. MaxNibbles - 1 : Nibble(value, i) # 0}
        top == IF set = {} THEN 0 ELSE CHOOSE i \in set : \A j \in set : j <= i
    IN  <<"0", "x">> \o [k \in 1 .. top + 1 |-> HexDigits[Nibble(value, top + 1 - k) + 1]]

\* dec_to: the digits come out backwards and are turned round.
Decimal(value) ==
    LET size == IF value < 0 THEN -value ELSE value
        back[n \in 0 .. size] ==
            IF n < 10 THEN <<HexDigits[n + 1]>>
            ELSE Append(back[n \div 10], HexDigits[(n % 10) + 1])
    IN  (IF value < 0 THEN <<"-">> ELSE <<>>) \o back[size]

-----------------------------------------------------------------------------
(* The handler's writes: a crash is its signal, code, fault address, PC and LR *)

\* resolve_module: the first module of the table that holds the address, or 0.
Resolve(address) ==
    LET holders == {i \in DOMAIN Modules :
                      Modules[i].base <= address /\ address < Modules[i].end}
    IN  IF holders = {} THEN 0 ELSE CHOOSE i \in holders : \A j \in holders : i <= j

\* write_frame.
FrameWrites(address) ==
    LET m == Modules[Resolve(address)]
    IN  IF Resolve(address) = 0
        THEN << <<"frame", Space>>, <<"??", Space>>, Hex(address), <<Space, LineEnd>> >>
        ELSE << <<"frame", Space>>, m.name, <<Space>>, Hex(address - m.base), <<Space>>,
                m.build_id, <<LineEnd>> >>

\* tombstone_signal_handler, between its guard and its hand-off.
DumpWrites(crash) ==
    << <<Header, LineEnd>>,
       <<"signal", Space>>, Decimal(crash.sig), <<LineEnd>>,
       <<"code", Space>>, Decimal(crash.code), <<LineEnd>>,
       <<"fault", Space>>, Hex(crash.addr), <<LineEnd>> >>
    \o (IF crash.pc # 0 THEN FrameWrites(crash.pc) ELSE <<>>)
    \o (IF crash.lr # 0 THEN FrameWrites(crash.lr) ELSE <<>>)
    \o << <<"end", LineEnd>> >>

-----------------------------------------------------------------------------
(* Numbers in: parse_hex and parse_dec take the digits a text starts with *)

Number(text, base) ==
    LET value[i \in 0 .. Len(text)] ==
            IF i = 0 THEN [v |-> 0, on |-> TRUE]
            ELSE IF value[i - 1].on /\ IsDigit(text[i], base)
                 THEN [v  |-> (value[i - 1].v * base + DigitValue(text[i])) % (16 ^ MaxNibbles),
                       on |-> TRUE]
                 ELSE [v |-> value[i - 1].v, on |-> FALSE]
    IN  value[Len(text)].v

ParseHex(text) ==
    IF Len(text) >= 2 /\ text[1] = "0" /\ text[2] = "x"
    THEN Number(SubSeq(text, 3, Len(text)), 16) ELSE Number(text, 16)

ParseDec(text) ==
    IF text # <<>> /\ text[1] = "-" THEN -Number(Tail(text), 10) ELSE Number(text, 10)

-----------------------------------------------------------------------------
(* parse_dump *)

\* The first place of a symbol in a text, or one past its end.
Find(text, symbol) ==
    LET at == {i \in DOMAIN text : text[i] = symbol}
    IN  IF at = {} THEN Len(text) + 1 ELSE CHOOSE i \in at : \A j \in at : i <= j

\* A line that starts with the keyword and a space.
Says(line, keyword) == Len(line) >= 2 /\ line[1] = keyword /\ line[2] = Space

ParseFrameMutant(rest) ==
    LET after  == SubSeq(rest, Find(rest, Space) + 1, Len(rest))
        second == Find(after, Space)
    IN  [ module |-> SubSeq(rest, 1, Find(rest, Space) - 1),
          offset |-> ParseHex(SubSeq(after, 1, second - 1)),
          build_id |-> SubSeq(after, second, Len(after)) ]

\* "frame <module> <offset-hex> [build-id-hex]": the module ends at the first space.
ParseFrame(rest) ==
    LET after  == SubSeq(rest, Find(rest, Space) + 1, Len(rest))
        second == Find(after, Space)
        id     == SubSeq(after, second + 1, Len(after))
    IN  [ module |-> SubSeq(rest, 1, Find(rest, Space) - 1),
          offset |-> ParseHex(SubSeq(after, 1, second - 1)),
          build_id |-> SubSeq(id, 1, Max({0} \cup {i \in DOMAIN id : id[i] # Space})) ]

NoDump == [ seen |-> FALSE, sig |-> 0, code |-> 0, addr |-> 0, frames |-> <<>> ]

\* One line of the dump, into what has been parsed of it.
ParseLine(dump, line) ==
    LET rest == SubSeq(line, 3, Len(line))
    IN  CASE line # <<>> /\ line[1] = Header -> [dump EXCEPT !.seen = TRUE]
          [] Says(line, "signal") -> [dump EXCEPT !.sig = ParseDec(rest)]
          [] Says(line, "code")   -> [dump EXCEPT !.code = ParseDec(rest)]
          [] Says(line, "fault")  -> [dump EXCEPT !.addr = ParseHex(rest)]
          [] Says(line, "frame") /\ Find(rest, Space) <= Len(rest) ->
                [dump EXCEPT !.frames = Append(@, ParseFrame(rest))]
          [] OTHER -> dump

\* The lines of a text, the last one ended or not.
Lines(text) ==
    FoldLeft(LAMBDA lines, symbol :
                 IF symbol = LineEnd THEN Append(lines, <<>>)
                 ELSE Append(Front(lines), Append(Last(lines), symbol)),
             << <<>> >>, text)

\* parse_dump; without a header (seen) the dump is not accepted.
ParseDump(text) == FoldLeft(ParseLine, NoDump, Lines(text))
=============================================================================
