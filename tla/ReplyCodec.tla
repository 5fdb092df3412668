----------------------------- MODULE ReplyCodec -----------------------------
(***************************************************************************)
(* The text of a reply to a request: formatPayload and formatNrc on the    *)
(* board (elm327/formatter.cpp), classify() on the host                    *)
(* (tools/didscan_core.py).  A text is the sequence of its lines, a line   *)
(* that of its characters: a hexadecimal digit is its value, the other     *)
(* characters have codes above.  A fault text is a line of one code, and   *)
(* so is the "NRC " that a negative response code follows.                 *)
(***************************************************************************)
EXTENDS Naturals, Sequences
LOCAL INSTANCE SequencesExt

Space == 16
Colon == 17
NrcWord == 18

kBytesPerLine == 7

HexOf(byte) == <<byte \div 16, byte % 16>>

\* Each byte behind a space, or with none in between (ATS1, ATS0).
appendHex(bytes, spaces) ==
    FlattenSeq([i \in DOMAIN bytes |->
                   (IF spaces THEN <<Space>> ELSE <<>>) \o HexOf(bytes[i])])

formatFault(word) == << <<word>> >>
NoData   == formatFault(19)
CanError == formatFault(20)

formatNrc(nrc) == << <<NrcWord>> \o HexOf(nrc) >>

LengthLine(n) == <<(n \div 256) % 16, (n \div 16) % 16, n % 16>>

\* Mutated: the last, partly filled line is forgotten.
FullLines(n) == n \div kBytesPerLine
IndexedLines(n) == (n + kBytesPerLine - 1) \div kBytesPerLine

formatPayload(data, spaces) ==
    LET n == Len(data)
        Part(k) == SubSeq(data, (k - 1) * kBytesPerLine + 1,
                          IF k * kBytesPerLine < n THEN k * kBytesPerLine ELSE n)
        text == appendHex(data, spaces)
    IN  IF n <= kBytesPerLine
        THEN << IF spaces /\ n > 0 THEN Tail(text) ELSE text >>
        ELSE <<LengthLine(n)>> \o
             [k \in 1..IndexedLines(n) |->
                 <<(k - 1) % 16, Colon>> \o appendHex(Part(k), spaces)]

-----------------------------------------------------------------------------
(* classify().  A negative reply carries its code as a one-byte payload.   *)

Reply(status, payload) == [status |-> status, payload |-> payload]
Erroneous == Reply("ADAPTER_ERROR", <<>>)

Digits(line) == \A i \in DOMAIN line : line[i] < 16

\* strip(): no line has more than one space at either end.
Stripped(line) ==
    LET rest == IF line # <<>> /\ Head(line) = Space THEN Tail(line) ELSE line
    IN  IF rest # <<>> /\ Last(rest) = Space THEN Front(rest) ELSE rest

\* _hex_to_bytes, and when it does not return None.
Compact(line) == SelectSeq(line, LAMBDA c : c # Space)
IsHex(line) == LET c == Compact(line) IN c # <<>> /\ Len(c) % 2 = 0 /\ Digits(c)
hexToBytes(line) ==
    LET c == Compact(line)
    IN  [k \in 1..(Len(c) \div 2) |-> 16 * c[2 * k - 1] + c[2 * k]]

\* int(text, 16)
Number(digits) ==
    LET value[i \in 0..Len(digits)] ==
            IF i = 0 THEN 0 ELSE 16 * value[i - 1] + digits[i]
    IN  value[Len(digits)]

IsLengthLine(line)  == Len(line) \in {3, 4} /\ Digits(line)
IsIndexedLine(line) == Len(line) >= 2 /\ line[1] < 16 /\ line[2] = Colon
Indexed(line) == SubSeq(line, 3, Len(line))

\* Mutated: a reply is cut off only if it lacks a whole line.
CutOffByLines(body, declared) == Len(body) + kBytesPerLine <= declared
CutOff(body, declared) == Len(body) < declared

\* The lines behind a length line, whose order is the bytes' order.
FromLines(declared, data) ==
    LET Chunk(i) == hexToBytes(Indexed(data[i]))
        Usable(i) == /\ IsIndexedLine(data[i]) /\ IsHex(Indexed(data[i]))
                     /\ i # Len(data) => Len(Chunk(i)) = kBytesPerLine
        body == FlattenSeq([i \in DOMAIN data |-> Chunk(i)])
    IN  IF (\A i \in DOMAIN data : Usable(i)) /\ ~CutOff(body, declared)
        THEN Reply("POSITIVE", SubSeq(body, 1, IF declared < Len(body) THEN declared
                                                                  ELSE Len(body)))
        ELSE Erroneous

classify(text) ==
    LET lines == SelectSeq([i \in DOMAIN text |-> Stripped(text[i])],
                           LAMBDA line : line # <<>>)
        first == Head(lines)
    IN  IF lines = <<>> THEN Erroneous
        ELSE CASE first = NoData[1] -> Reply("NO_RESPONSE", <<>>)
               [] Head(first) = NrcWord /\ Len(first) = 3 /\ Digits(Tail(first)) ->
                      Reply("NEGATIVE", hexToBytes(Tail(first)))
               [] IsLengthLine(first) -> FromLines(Number(first), Tail(lines))
               [] IsHex(first) /\ ~IsLengthLine(first) /\ Len(lines) = 1 ->
                      Reply("POSITIVE", hexToBytes(first))
               [] OTHER -> Erroneous
=============================================================================
