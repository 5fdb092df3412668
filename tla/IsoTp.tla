------------------------------- MODULE IsoTp -------------------------------
(***************************************************************************)
(* ISO 15765-2 as this firmware speaks it: isotp/reassembler.cpp,          *)
(* isotp/request.cpp, and the reference an ECU follows when it segments a  *)
(* response.                                                               *)
(*                                                                         *)
(* A frame is its PCI, decoded, and the payload bytes that physically      *)
(* follow it in the eight data bytes (padding included).  The DLC travels  *)
(* separately, because the bus may report any DLC for any frame.           *)
(***************************************************************************)
EXTENDS Naturals, Sequences

CONSTANTS Pad,         \* a padding byte
          OutOfBounds  \* whatever lies in memory after the frame's data

MinOf(a, b) == IF a < b THEN a ELSE b
MaxFrame == 8

SingleFrame(n, bytes)      == [pci |-> "SF", n |-> n,   bytes |-> bytes]
FirstFrame(n, bytes)       == [pci |-> "FF", n |-> n,   bytes |-> bytes]
ConsecutiveFrame(k, bytes) == [pci |-> "CF", n |-> k % 16, bytes |-> bytes]

\* buildFlowControlFrame: the eight data bytes, which are the same in either
\* addressing.
ContinueToSend == 48   \* 0x30
buildFlowControlFrame ==
    [i \in 1..MaxFrame |-> IF i = 1 THEN ContinueToSend ELSE 0]

\* Copying `count' payload bytes out of a frame.
Copy(frame, count) ==
    [i \in 1..count |-> IF i <= Len(frame.bytes) THEN frame.bytes[i]
                                                 ELSE OutOfBounds]

-----------------------------------------------------------------------------
(* IsoTpReassembler                                                        *)

Fresh == [payload |-> <<>>, expected |-> 0, next |-> 0, collecting |-> FALSE]

\* The object after offer(), and what offer() returned.
Returns(r, state) == [r |-> r, state |-> state]

\* Mutated: a DLC above eight is believed.
Unclamped(len) == len
Clamped(len) == MinOf(len, MaxFrame)

OfferSingle(r, frame, len) ==
    IF frame.n = 0 \/ frame.n + 1 > len THEN Returns(r, "Error")
    ELSE Returns([Fresh EXCEPT !.payload = Copy(frame, frame.n)], "Complete")

OfferFirst(r, frame, len) ==
    IF len < 2 THEN Returns(r, "Error")
    ELSE IF frame.n = 0 THEN Returns(Fresh, "Error")
    ELSE Returns([payload    |-> Copy(frame, MinOf(len - 2, frame.n)),
                  expected   |-> frame.n,
                  next       |-> 1,
                  collecting |-> TRUE], "NeedFlowControl")

\* Mutated: the sequence number counts on past fifteen.
NextSequenceUnwrapped(k) == k + 1
NextSequence(k) == (k + 1) % 16

\* Mutated: the PCI byte counts as payload.
TakeWithPCI(remaining, available) == MinOf(available + 1, remaining)
\* What of a last frame is padding is left.
Take(remaining, available) == MinOf(available, remaining)

InSequence(r, frame) == frame.n = r.next

OfferConsecutive(r, frame, len) ==
    IF ~r.collecting \/ ~InSequence(r, frame) THEN Returns(r, "Error")
    ELSE LET take    == Take(r.expected - Len(r.payload), len - 1)
             payload == r.payload \o Copy(frame, take)
             done    == Len(payload) >= r.expected
         IN  Returns([r EXCEPT !.payload = payload,
                               !.next = NextSequence(@),
                               !.collecting = ~done],
                     IF done THEN "Complete" ELSE "Collecting")

\* IsoTpReassembler::offer
Offer(r, frame, dlc) ==
    LET len == Clamped(dlc) IN
    CASE len < 1          -> Returns(r, "Error")
      [] frame.pci = "SF" /\ len >= 1 -> OfferSingle(r, frame, len)
      [] frame.pci = "FF" /\ len >= 1 -> OfferFirst(r, frame, len)
      [] frame.pci = "CF" /\ len >= 1 -> OfferConsecutive(r, frame, len)
      [] OTHER            -> Returns(r, "Error")

-----------------------------------------------------------------------------
(* What an ECU sends for a response `message'.  With extended addressing   *)
(* every frame gives its first byte to the address.                        *)

Room(extended) == IF extended THEN MaxFrame - 1 ELSE MaxFrame

Padded(bytes, size) ==
    [i \in 1..size |-> IF i <= Len(bytes) THEN bytes[i] ELSE Pad]

Segment(message, extended) ==
    LET first == Room(extended) - 2
        each  == Room(extended) - 1
        n     == Len(message)
        Part(k) == SubSeq(message, first + (k - 1) * each + 1,
                          MinOf(n, first + k * each))
    IN  IF n <= each
        THEN <<SingleFrame(n, Padded(message, each))>>
        ELSE [k \in 1..(1 + (n - first + each - 1) \div each) |->
                IF k = 1 THEN FirstFrame(n, SubSeq(message, 1, first))
                ELSE ConsecutiveFrame(k - 1, Padded(Part(k - 1), each))]

\* buildSingleFrameRequest: how many payload bytes a request may carry.
FitsSingleFrame(len, extended) == len > 0 /\ len <= (IF extended THEN 6 ELSE 7)
=============================================================================
