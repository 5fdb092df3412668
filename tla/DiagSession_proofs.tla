------------------------ MODULE DiagSession_proofs ------------------------
(***************************************************************************)
(* That DiagSession's answers are sound, for every set of ECUs and         *)
(* commands, every depth of the queues and every length of response.       *)
(*                                                                         *)
(* Every frame on its way is a frame of a response (AllGenuine), and an    *)
(* ECU's frames leave it in order (Chained); unless a frame was dropped    *)
(* the receive loop sees them in order (InOrder), so what it has collected *)
(* is the beginning of one response and the next consecutive frame is the  *)
(* one that continues it (Undisturbed).  On a bus that was quiet when the  *)
(* request was given (NothingYet) every frame is an answer to it           *)
(* (OwnFramesOnly), and none is left over from a transfer given up         *)
(* (NoStray).                                                              *)
(***************************************************************************)
EXTENDS DiagSession, SequenceTheorems, TLAPS

LEMMA Sizes == /\ LongReply \in Nat /\ LongReply > 7 /\ MaxRequests \in Nat
               /\ MaxQueue \in Nat \ {0} /\ TxQueueLen \in Nat \ {0}
               /\ All \notin Ecus
  BY DiagSessionAssumption DEF DiagSessionAssumption

USE Sizes

Frame == [pci : {"SF", "FF", "CF"}, n : Nat, bytes : Seq(Byte \cup {Pad})]
Work  == [serial : 1..MaxRequests, command : Commands, pended : BOOLEAN]

\* The variables TypeOK leaves loose.
Typed ==
    /\ reassembler \in [payload : Seq(Byte \cup {Pad}), expected : Nat,
                        next : 0..15, collecting : BOOLEAN]
    /\ rxQueue \in Seq([from : Ecus, frame : Frame])
    /\ txQueue \in Seq([kind : {"request", "flow"}, serial : 1..MaxRequests,
                        command : Commands])
    /\ work \in [Ecus -> {None} \cup Work]
    /\ output \in [Ecus -> Seq(Frame)]
    /\ held \in [Ecus -> BOOLEAN]

Busy == task # "idle" => request \in Commands /\ serial # 0 /\ answer = "none"

-----------------------------------------------------------------------------
(* The frames on their way are frames of responses.                        *)

\* b is the byte at place i of a response to request n.
Marked(b, n, i) == b \in Byte /\ b[2] = n /\ b[3] = i

Responses(c) == {Positive(c), Rejection(c, 49), Rejection(c, Pending)}

IsSingle(f, n) ==
    /\ f.pci = "SF" /\ f.n \in 1..7 /\ Len(f.bytes) = 7
    /\ \A i \in 1..f.n : Marked(f.bytes[i], n, i)
    /\ \E c \in Commands : \E values \in Responses(c) :
          /\ f.n = Len(values)
          /\ \A i \in 1..f.n : f.bytes[i][1] = values[i]

IsFirst(f, n) ==
    /\ f.pci = "FF" /\ f.n = LongReply /\ Len(f.bytes) = 6
    /\ \A i \in 1..6 : Marked(f.bytes[i], n, i)

\* The k-th consecutive frame carries the places from 7k on.
IsConsecutive(f, n, k) ==
    /\ f.pci = "CF" /\ f.n = k % 16 /\ Len(f.bytes) = 7
    /\ 7 * k <= LongReply
    /\ \A i \in 1..7 : 7 * k + i - 1 <= LongReply
                          => Marked(f.bytes[i], n, 7 * k + i - 1)

Genuine(f) == \E n \in 1..MaxRequests :
                 \/ IsSingle(f, n) \/ IsFirst(f, n)
                 \/ \E k \in 1..LongReply : IsConsecutive(f, n, k)

AllGenuine ==
    /\ \A i \in DOMAIN rxQueue : Genuine(rxQueue[i].frame)
    /\ \A e \in Ecus : \A i \in DOMAIN output[e] : Genuine(output[e][i])

SerialOf(f) == f.bytes[1][2]
Start(f) == f.bytes[1][3]
Carries(f) == IF f.pci = "FF" THEN 6 ELSE 7

\* If f is a consecutive frame, it is the one after g.
Follows(g, f) ==
    f.pci = "CF" => /\ g.pci # "SF"
                    /\ SerialOf(f) = SerialOf(g)
                    /\ Start(f) = Start(g) + Carries(g)

\* What an ECU has still to send is in order.
Chained == \A e \in Ecus : \A i \in 2..Len(output[e]) :
              Follows(output[e][i - 1], output[e][i])

\* The next frame from e after place i of the receive queue, if there is one.
FirstFrom(e, i, j) == /\ j \in (i + 1)..Len(rxQueue) /\ rxQueue[j].from = e
                      /\ \A l \in (i + 1)..(j - 1) : rxQueue[l].from # e
NoneFrom(e, i) == \A l \in (i + 1)..Len(rxQueue) : rxQueue[l].from # e
Upcoming(e, i) ==
    {rxQueue[j].frame : j \in {j \in DOMAIN rxQueue : FirstFrom(e, i, j)}}
    \cup {output[e][k] : k \in {k \in DOMAIN output[e] : k = 1 /\ NoneFrom(e, i)}}

\* Unless a frame was dropped, so is all that the receive loop will see.
InOrder ==
    task \in {"send", "wait", "flow"} /\ ~fault =>
        \A e \in Ecus : \A i \in DOMAIN rxQueue : rxQueue[i].from = e =>
            \A f \in Upcoming(e, i) : Follows(rxQueue[i].frame, f)

-----------------------------------------------------------------------------
(* The reassembler.                                                        *)

Receiving == task \in {"wait", "flow"}

Begun(payload) == \A i \in 1..6 : Marked(payload[i], payload[1][2], i)

Collecting ==
    /\ ~Receiving \/ ~reassembler.collecting => reassembler = Fresh
    /\ reassembler.collecting =>
          /\ reassembler.expected = LongReply
          /\ Len(reassembler.payload) < LongReply
          /\ \E k \in 1..LongReply : /\ Len(reassembler.payload) + 1 = 7 * k
                                     /\ reassembler.next = k % 16
          /\ Begun(reassembler.payload)

Continues(f) == /\ SerialOf(f) = reassembler.payload[1][2]
                /\ Start(f) = Len(reassembler.payload) + 1

Whole(payload, n) == \A i \in DOMAIN payload : Marked(payload[i], n, i)

Undisturbed ==
    Receiving /\ ~fault /\ Physical /\ reassembler.collecting =>
        /\ Whole(reassembler.payload, reassembler.payload[1][2])
        /\ \A e \in {request.to} : \A f \in Upcoming(e, 0) :
               f.pci = "CF" => Continues(f)

WholeAnswer == answer \in {"PAYLOAD", "NRC"} /\ Physical /\ ~fault =>
                   From(body[1][2])

-----------------------------------------------------------------------------
(* A request given while nothing earlier was under way.                    *)

NothingYet == /\ clean /\ task \in {"drain", "send"} => QuietBus
              /\ clean /\ task = "send" => rxQueue = <<>>

OwnFramesOnly ==
    clean /\ ~fault /\ Receiving =>
        /\ \A i \in DOMAIN txQueue : txQueue[i].serial = serial
        /\ \A e \in Ecus : /\ work[e] = None \/ work[e].serial = serial
                           /\ \A i \in DOMAIN output[e] :
                                 SerialOf(output[e][i]) = serial
        /\ \A i \in DOMAIN rxQueue : SerialOf(rxQueue[i].frame) = serial
        /\ reassembler.collecting => reassembler.payload[1][2] = serial

NoStray ==
    clean /\ ~fault /\ Receiving /\ Physical =>
        \A e \in {request.to} : \A f \in Upcoming(e, 0) :
            f.pci = "CF" => reassembler.collecting

OwnAnswer == clean /\ ~fault /\ Physical =>
                /\ answer \in {"PAYLOAD", "NRC"} => From(serial)
                /\ answer # "CanError"

\* Inductive: no part is kept without the others.
IInv == /\ TypeOK /\ Typed /\ Busy
        /\ AllGenuine /\ Chained /\ InOrder
        /\ Collecting /\ Undisturbed /\ WholeAnswer /\ CorrelatedAnswer
        /\ NothingYet /\ OwnFramesOnly /\ NoStray /\ OwnAnswer
-----------------------------------------------------------------------------
(* What an ECU sends: a response, cut into frames.                         *)

LEMMA Commanded ==
  ASSUME NEW c \in Commands
  PROVE  /\ c.to \in Ecus \cup {All} /\ c.sid \in 0..255
         /\ c.did \in Seq(0..255) /\ c.responses \in BOOLEAN
         /\ Len(c.did) \in Nat /\ Len(c.did) <= 6
<1>1. c \in [to : Ecus \cup {All}, sid : 0..255, did : Seq(0..255),
             responses : BOOLEAN]
  BY DiagSessionAssumption DEF DiagSessionAssumption
<1>2. /\ c.to \in Ecus \cup {All} /\ c.sid \in 0..255
      /\ c.did \in Seq(0..255) /\ c.responses \in BOOLEAN
  BY <1>1
<1>3. Len(c.did) \in Nat
  BY <1>2, LenProperties
<1>4. 1 + Len(c.did) <= 7
  BY DiagSessionAssumption DEF DiagSessionAssumption, FitsSingleFrame
<1> QED
  BY <1>2, <1>3, <1>4

LEMMA EchoIsByte == \A sid \in 0..255 : Echo(sid) \in 0..255
  BY DEF Echo

LEMMA PositiveBytes ==
  ASSUME NEW c \in Commands
  PROVE  /\ Positive(c) \in Seq(0..255)
         /\ Len(Positive(c)) = 1 + Len(c.did)
         /\ Positive(c)[1] = Echo(c.sid)
         /\ \A i \in 1..Len(c.did) : Positive(c)[i + 1] = c.did[i]
<1> USE Commanded
<1>1. Echo(c.sid) \in 0..255
  BY EchoIsByte
<1>2. <<Echo(c.sid)>> \in Seq(0..255) /\ Len(<<Echo(c.sid)>>) = 1
  BY <1>1
<1>3. /\ Positive(c) \in Seq(0..255)
      /\ Len(Positive(c)) = 1 + Len(c.did)
      /\ \A i \in 1..(1 + Len(c.did)) :
            Positive(c)[i] = IF i <= 1 THEN <<Echo(c.sid)>>[i] ELSE c.did[i - 1]
  BY <1>2, ConcatProperties DEF Positive
<1>4. Positive(c)[1] = Echo(c.sid)
  BY <1>3
<1>5. ASSUME NEW i \in 1..Len(c.did) PROVE Positive(c)[i + 1] = c.did[i]
  BY <1>3
<1> QED
  BY <1>3, <1>4, <1>5

LEMMA LongBytes ==
  ASSUME NEW c \in Commands
  PROVE  Long(c) \in Seq(0..255) /\ Len(Long(c)) = LongReply
<1> DEFINE p == Positive(c)
           f == Filler(LongReply - Len(p))
<1>1. p \in Seq(0..255) /\ Len(p) \in Nat /\ Len(p) <= 7
  BY PositiveBytes, Commanded
<1> HIDE DEF p
<1>2. LongReply - Len(p) \in Nat
  BY <1>1
<1>3. f \in Seq(0..255) /\ Len(f) = LongReply - Len(p)
  <2> DEFINE n == LongReply - Len(p)
  <2>1. \A i \in 1..n : 0 \in 0..255
    OBVIOUS
  <2>2. f = [i \in 1..n |-> 0]
    BY DEF Filler
  <2>3. n \in Nat
    BY <1>2
  <2> HIDE DEF n, f
  <2> QED
    BY <2>2, <2>3 DEF n
<1>4. Long(c) = p \o f
  BY DEF Long, p
<1> HIDE DEF f
<1>5. p \o f \in Seq(0..255) /\ Len(p \o f) = Len(p) + Len(f)
  BY <1>1, <1>3, ConcatProperties
<1> QED
  BY <1>1, <1>3, <1>4, <1>5

LEMMA RejectionBytes ==
  ASSUME NEW c \in Commands, NEW nrc \in 0..255
  PROVE  Rejection(c, nrc) \in Seq(0..255) /\ Len(Rejection(c, nrc)) = 3
  BY Commanded DEF Rejection, Negative

LEMMA ResponseBytes ==
  ASSUME NEW c \in Commands, NEW values \in Responses(c)
  PROVE  /\ values \in Seq(0..255)
         /\ Len(values) \in Nat /\ 1 <= Len(values) /\ Len(values) <= 7
<1>1. CASE values = Positive(c)
  BY <1>1, PositiveBytes, Commanded
<1>2. ASSUME NEW nrc \in 0..255, values = Rejection(c, nrc)
      PROVE  values \in Seq(0..255) /\ Len(values) = 3
  BY <1>2, RejectionBytes
<1>3. CASE values \in {Rejection(c, 49), Rejection(c, 120)}
  <2>1. values \in Seq(0..255) /\ Len(values) = 3
    BY <1>2, <1>3
  <2> QED
    BY <2>1
<1> QED
  BY <1>1, <1>3 DEF Responses, Pending

\* The bytes of a response know where they belong.
LEMMA BytesMarked ==
  ASSUME NEW values \in Seq(0..255), NEW n \in 1..MaxRequests,
         Len(values) <= LongReply
  PROVE  LET m == Bytes(values, n) IN
         /\ m \in Seq(Byte) /\ Len(m) = Len(values)
         /\ \A i \in 1..Len(m) : Marked(m[i], n, i) /\ m[i][1] = values[i]
<1> DEFINE m == Bytes(values, n)
<1>1. Len(values) \in Nat /\ DOMAIN values = 1..Len(values)
  BY LenProperties
<1>2. ASSUME NEW i \in 1..Len(values)
      PROVE  <<values[i], n, i>> \in Byte
  <2>1. values[i] \in 0..255
    BY ElementOfSeq
  <2>2. i \in 1..LongReply
    BY <1>1
  <2> QED
    BY <2>1, <2>2 DEF Byte
<1>3. m = [i \in 1..Len(values) |-> <<values[i], n, i>>]
  BY <1>1 DEF Bytes
<1>4. m \in Seq(Byte)
  BY <1>1, <1>2, <1>3
<1>5. Len(m) = Len(values) /\ \A i \in 1..Len(m) : m[i] = <<values[i], n, i>>
  BY <1>1, <1>3
<1> QED
  BY <1>2, <1>4, <1>5 DEF Marked
-----------------------------------------------------------------------------

LEMMA PaddedBytes ==
  ASSUME NEW bytes \in Seq(Byte), NEW size \in Nat
  PROVE  /\ Padded(bytes, size) \in Seq(Byte \cup {Pad})
         /\ Len(Padded(bytes, size)) = size
         /\ \A i \in 1..size : i <= Len(bytes) => Padded(bytes, size)[i] = bytes[i]
<1> DEFINE e(i) == IF i <= Len(bytes) THEN bytes[i] ELSE Pad
<1>1. Len(bytes) \in Nat
  BY LenProperties
<1>2. ASSUME NEW i \in 1..size PROVE e(i) \in Byte \cup {Pad}
  <2>1. CASE i <= Len(bytes)
    <3>1. i \in 1..Len(bytes)
      BY <1>1, <2>1
    <3> QED
      BY <2>1, <3>1, ElementOfSeq
  <2> QED
    BY <2>1
<1>3. Padded(bytes, size) = [i \in 1..size |-> e(i)]
  BY DEF Padded
<1>4. [i \in 1..size |-> e(i)] \in Seq(Byte \cup {Pad})
  <2> HIDE DEF e
  <2> QED
    BY <1>2, IsASeq
<1>5. Len([i \in 1..size |-> e(i)]) = size
  OBVIOUS
<1> QED
  BY <1>3, <1>4, <1>5

LEMMA SegmentShort ==
  ASSUME NEW m \in Seq(Byte), Len(m) <= 7
  PROVE  Segment(m, FALSE) = <<SingleFrame(Len(m), Padded(m, 7))>>
  BY DEF Segment, Room, MaxFrame

SegmentPart(m, j) == SubSeq(m, 7 * j, MinOf(Len(m), 7 * j + 6))

LEMMA SegmentLong ==
  ASSUME NEW m \in Seq(Byte), Len(m) > 7
  PROVE  Segment(m, FALSE) =
            [k \in 1..(1 + Len(m) \div 7) |->
               IF k = 1 THEN FirstFrame(Len(m), SubSeq(m, 1, 6))
               ELSE ConsecutiveFrame(k - 1, Padded(SegmentPart(m, k - 1), 7))]
<1>1. Len(m) \in Nat
  BY LenProperties
<1> DEFINE n == Len(m)
           Part(k) == SubSeq(m, 6 + (k - 1) * 7 + 1, MinOf(n, 6 + k * 7))
<1>2. Segment(m, FALSE) =
        [k \in 1..(1 + (n - 6 + 7 - 1) \div 7) |->
           IF k = 1 THEN FirstFrame(n, SubSeq(m, 1, 6))
           ELSE ConsecutiveFrame(k - 1, Padded(Part(k - 1), 7))]
  <2>1. ~ (n <= 7)
    BY <1>1
  <2>2. Room(FALSE) - 2 = 6 /\ Room(FALSE) - 1 = 7
    BY DEF Room, MaxFrame
  <2> HIDE DEF n
  <2> QED
    BY <2>1, <2>2 DEF Segment, n
<1>3. (n - 6 + 7 - 1) = n
  BY <1>1
<1>4. ASSUME NEW k \in 1..(1 + n \div 7), k # 1
      PROVE  Part(k - 1) = SegmentPart(m, k - 1)
  <2>1. 6 + (k - 1 - 1) * 7 + 1 = 7 * (k - 1) /\ 6 + (k - 1) * 7 = 7 * (k - 1) + 6
    BY <1>1
  <2> QED
    BY <2>1 DEF SegmentPart
<1> QED
  BY <1>2, <1>3, <1>4

LEMMA Between == \A a, b, x \in Nat : a <= x /\ x <= b => x \in a..b
  OBVIOUS

LEMMA ShortFrames ==
  ASSUME NEW c \in Commands, NEW values \in Responses(c),
         NEW n \in 1..MaxRequests
  PROVE  \E f \in Frame : /\ Segment(Bytes(values, n), FALSE) = <<f>>
                          /\ IsSingle(f, n)
<1> DEFINE m == Bytes(values, n)
           f == SingleFrame(Len(m), Padded(m, 7))
<1>1. /\ values \in Seq(0..255)
      /\ Len(values) \in Nat /\ 1 <= Len(values) /\ Len(values) <= 7
  BY ResponseBytes
<1>2. /\ m \in Seq(Byte) /\ Len(m) = Len(values)
      /\ \A i \in 1..Len(m) : Marked(m[i], n, i) /\ m[i][1] = values[i]
  BY <1>1, BytesMarked
<1> HIDE DEF m
<1>3. /\ Padded(m, 7) \in Seq(Byte \cup {Pad})
      /\ Len(Padded(m, 7)) = 7
      /\ \A i \in 1..7 : i <= Len(m) => Padded(m, 7)[i] = m[i]
  BY <1>2, PaddedBytes
<1>4. f \in Frame
  BY <1>1, <1>2, <1>3 DEF SingleFrame, Frame
<1>5. Segment(m, FALSE) = <<f>>
  BY <1>1, <1>2, SegmentShort
<1>6. /\ f.pci = "SF" /\ f.n = Len(values)
      /\ f.bytes = Padded(m, 7)
  BY <1>1, <1>2 DEF SingleFrame
<1> HIDE DEF f
<1>7. f.n \in 1..7
  BY <1>1, <1>6, Between
<1>8. ASSUME NEW i \in 1..f.n
      PROVE  Marked(f.bytes[i], n, i) /\ f.bytes[i][1] = values[i]
  <2>1. i \in 1..Len(values)
    BY <1>6, <1>8
  <2>2. i \in 1..7 /\ i <= Len(values)
    BY <1>1, <2>1
  <2>3. i \in 1..Len(m) /\ i <= Len(m)
    BY <1>2, <2>1, <2>2
  <2>4. f.bytes[i] = m[i]
    BY <1>3, <1>6, <2>2, <2>3
  <2> QED
    BY <1>2, <2>3, <2>4
<1>9. IsSingle(f, n)
  BY <1>3, <1>6, <1>8, <1>7 DEF IsSingle
<1> QED
  BY <1>4, <1>5, <1>9 DEF m, f

LEMMA LongFrames ==
  ASSUME NEW c \in Commands, NEW n \in 1..MaxRequests
  PROVE  LET s == Segment(Bytes(Long(c), n), FALSE) IN
         /\ s \in Seq(Frame) /\ Len(s) = 1 + LongReply \div 7
         /\ IsFirst(s[1], n)
         /\ \A k \in 2..Len(s) : IsConsecutive(s[k], n, k - 1)
<1> DEFINE m == Bytes(Long(c), n)
           s == Segment(m, FALSE)
           last == LongReply \div 7
           cf(k) == ConsecutiveFrame(k, Padded(SegmentPart(m, k), 7))
           ff == FirstFrame(LongReply, SubSeq(m, 1, 6))
<1>1. /\ m \in Seq(Byte) /\ Len(m) = LongReply
      /\ \A i \in 1..LongReply : Marked(m[i], n, i)
  BY LongBytes, BytesMarked
<1>2. \A i \in 1..LongReply : m[i] \in Byte
  BY <1>1 DEF Marked
<1> HIDE DEF m
<1>3. s = [k \in 1..(1 + last) |-> IF k = 1 THEN ff ELSE cf(k - 1)]
  BY <1>1, SegmentLong
<1>4. last \in Nat /\ 7 * last <= LongReply
  OBVIOUS
<1>5. ff \in Frame /\ IsFirst(ff, n)
  <2>1. /\ SubSeq(m, 1, 6) \in Seq(Byte) /\ Len(SubSeq(m, 1, 6)) = 6
        /\ \A i \in 1..6 : SubSeq(m, 1, 6)[i] = m[i]
    BY <1>2, SubSeqProperties
  <2>2. SubSeq(m, 1, 6) \in Seq(Byte \cup {Pad})
    BY <2>1, SeqMonotonic
  <2> QED
    BY <1>1, <2>1, <2>2 DEF FirstFrame, Frame, IsFirst
<1>6. ASSUME NEW k \in 1..last PROVE cf(k) \in Frame /\ IsConsecutive(cf(k), n, k)
  <2> DEFINE part == SegmentPart(m, k)
  <2>1. 7 * k <= LongReply
    BY <1>4
  <2> DEFINE to == MinOf(LongReply, 7 * k + 6)
  <2>2. to \in Nat /\ 7 * k <= to /\ to <= LongReply /\ to <= 7 * k + 6
        /\ (to = LongReply \/ to = 7 * k + 6)
    BY <2>1 DEF MinOf
  <2> HIDE DEF to
  <2>3. \A i \in (7 * k)..to : m[i] \in Byte
    BY <1>2, <2>1, <2>2
  <2>4. part = SubSeq(m, 7 * k, to)
    BY <1>1 DEF SegmentPart, to
  <2> HIDE DEF part
  <2>5. /\ part \in Seq(Byte) /\ Len(part) = to - 7 * k + 1
        /\ \A i \in 1..(to - 7 * k + 1) : part[i] = m[7 * k + i - 1]
    BY <2>2, <2>3, <2>4, SubSeqProperties
  <2>6. /\ Padded(part, 7) \in Seq(Byte \cup {Pad})
        /\ Len(Padded(part, 7)) = 7
        /\ \A i \in 1..7 : i <= Len(part) => Padded(part, 7)[i] = part[i]
    BY <2>5, PaddedBytes
  <2>7. ASSUME NEW i \in 1..7, 7 * k + i - 1 <= LongReply
        PROVE  Marked(Padded(part, 7)[i], n, 7 * k + i - 1)
    <3>1. i <= to - 7 * k + 1 /\ 7 * k + i - 1 \in 1..LongReply
      BY <2>1, <2>2, <2>7
    <3>2. i <= Len(part) /\ i \in 1..(to - 7 * k + 1)
      BY <2>2, <2>5, <3>1
    <3>3. Padded(part, 7)[i] = part[i]
      BY <2>6, <3>2
    <3>4. part[i] = m[7 * k + i - 1]
      BY <2>5, <3>2
    <3> QED
      BY <1>1, <3>1, <3>3, <3>4
  <2>8. k % 16 \in Nat
    BY <1>4
  <2>9. cf(k) = [pci |-> "CF", n |-> k % 16, bytes |-> Padded(part, 7)]
    BY DEF ConsecutiveFrame, part
  <2> HIDE DEF cf
  <2> QED
    BY <2>1, <2>6, <2>7, <2>8, <2>9 DEF Frame, IsConsecutive
<1> HIDE DEF ff, cf, last, s
<1>7. \A k \in 1..(1 + last) : (IF k = 1 THEN ff ELSE cf(k - 1)) \in Frame
  BY <1>4, <1>5, <1>6
<1>8. s \in Seq(Frame) /\ Len(s) = 1 + last
  <2> DEFINE e(k) == IF k = 1 THEN ff ELSE cf(k - 1)
             t == [k \in 1..(1 + last) |-> e(k)]
  <2>1. \A k \in 1..(1 + last) : e(k) \in Frame
    BY <1>7
  <2>2. s = t
    BY <1>3
  <2>3. 1 + last \in Nat
    BY <1>4
  <2> HIDE DEF e
  <2>4. t \in Seq(Frame)
    BY <2>1, <2>3, IsASeq
  <2>5. Len(t) = 1 + last
    BY <2>3
  <2> QED
    BY <2>2, <2>4, <2>5
<1>9. s[1] = ff
  BY <1>3, <1>4
<1>10. ASSUME NEW k \in 2..(1 + last) PROVE IsConsecutive(s[k], n, k - 1)
  <2>1. k \in 1..(1 + last) /\ k # 1 /\ k - 1 \in 1..last
    BY <1>4
  <2>2. s[k] = cf(k - 1)
    BY <1>3, <2>1
  <2> QED
    BY <1>6, <2>1, <2>2
<1> QED
  BY <1>5, <1>8, <1>9, <1>10 DEF last, m, s

LEMMA FrameFacts ==
  ASSUME NEW n \in 1..MaxRequests, NEW f
  PROVE  /\ IsSingle(f, n) => f.pci = "SF" /\ SerialOf(f) = n
         /\ IsFirst(f, n) => /\ f.pci = "FF" /\ SerialOf(f) = n
                             /\ Start(f) = 1 /\ Carries(f) = 6
         /\ \A k \in 1..LongReply : IsConsecutive(f, n, k) =>
               /\ f.pci = "CF" /\ SerialOf(f) = n
               /\ Start(f) = 7 * k /\ Carries(f) = 7
<1>1. ASSUME IsSingle(f, n) PROVE f.pci = "SF" /\ SerialOf(f) = n
  <2>1. f.n \in 1..7
    BY <1>1 DEF IsSingle
  <2>2. \A x \in 1..7 : 1 \in 1..x
    OBVIOUS
  <2>3. 1 \in 1..f.n
    BY <2>1, <2>2
  <2> QED
    BY <1>1, <2>3 DEF IsSingle, Marked, SerialOf
<1>2. ASSUME IsFirst(f, n)
      PROVE  /\ f.pci = "FF" /\ SerialOf(f) = n
             /\ Start(f) = 1 /\ Carries(f) = 6
  BY <1>2 DEF IsFirst, Marked, SerialOf, Start, Carries
<1>3. ASSUME NEW k \in 1..LongReply, IsConsecutive(f, n, k)
      PROVE  /\ f.pci = "CF" /\ SerialOf(f) = n
             /\ Start(f) = 7 * k /\ Carries(f) = 7
  <2>1. 7 * k + 1 - 1 <= LongReply /\ 7 * k + 1 - 1 = 7 * k
    BY <1>3 DEF IsConsecutive
  <2>2. Marked(f.bytes[1], n, 7 * k + 1 - 1)
    BY <1>3, <2>1 DEF IsConsecutive
  <2> QED
    BY <1>3, <2>1, <2>2 DEF IsConsecutive, Marked, SerialOf, Start, Carries
<1> QED
  BY <1>1, <1>2, <1>3

\* A response's frames: each says what it is, and they are in order.
LEMMA ResponseFrames ==
  ASSUME NEW c \in Commands, NEW n \in 1..MaxRequests,
         NEW values \in Responses(c) \cup {Long(c)}
  PROVE  LET s == Segment(Bytes(values, n), FALSE) IN
         /\ s \in Seq(Frame) /\ Len(s) \in Nat /\ Len(s) >= 1
         /\ s[1].pci # "CF"
         /\ \A i \in 1..Len(s) : Genuine(s[i]) /\ SerialOf(s[i]) = n
         /\ \A i \in 2..Len(s) : Follows(s[i - 1], s[i])
<1> DEFINE s == Segment(Bytes(values, n), FALSE)
<1>1. CASE values \in Responses(c)
  <2>1. PICK f \in Frame : s = <<f>> /\ IsSingle(f, n)
    BY <1>1, ShortFrames
  <2> HIDE DEF s
  <2>2. s \in Seq(Frame) /\ Len(s) = 1 /\ s[1] = f
    BY <2>1
  <2>3. f.pci # "CF" /\ SerialOf(f) = n /\ Genuine(f)
    BY <2>1, FrameFacts DEF Genuine
  <2> QED
    <3>1. \A i \in 1..Len(s) : Genuine(s[i]) /\ SerialOf(s[i]) = n
      BY <2>2, <2>3
    <3>2. \A i \in 2..1 : Follows(s[i - 1], s[i])
      OBVIOUS
    <3>3. \A i \in 2..Len(s) : Follows(s[i - 1], s[i])
      BY <2>2, <3>2
    <3>4. Len(s) \in Nat /\ Len(s) >= 1 /\ s[1].pci # "CF"
      BY <2>2, <2>3
    <3> QED
      BY <2>2, <3>1, <3>3, <3>4 DEF s
<1>2. CASE values = Long(c)
  <2>1. /\ s \in Seq(Frame) /\ Len(s) = 1 + LongReply \div 7
        /\ IsFirst(s[1], n)
        /\ \A k \in 2..Len(s) : IsConsecutive(s[k], n, k - 1)
    BY <1>2, LongFrames
  <2> HIDE DEF s
  <2>2. Len(s) \in Nat /\ Len(s) >= 1 /\ Len(s) <= LongReply
    BY <2>1
  <2>3. /\ Genuine(s[1]) /\ s[1].pci = "FF" /\ SerialOf(s[1]) = n
        /\ Start(s[1]) = 1 /\ Carries(s[1]) = 6
    BY <2>1, FrameFacts DEF Genuine
  <2>4. ASSUME NEW i \in 2..Len(s)
        PROVE  /\ Genuine(s[i]) /\ s[i].pci = "CF" /\ SerialOf(s[i]) = n
               /\ Start(s[i]) = 7 * (i - 1) /\ Carries(s[i]) = 7
    <3>1. i - 1 \in 1..LongReply
      BY <2>2
    <3>2. IsConsecutive(s[i], n, i - 1)
      BY <2>1
    <3> QED
      BY <3>1, <3>2, FrameFacts DEF Genuine
  <2>5. ASSUME NEW i \in 2..Len(s) PROVE Follows(s[i - 1], s[i])
    <3>1. CASE i = 2
      BY <2>3, <2>4, <3>1 DEF Follows
    <3>2. CASE i # 2
      <4>1. i - 1 \in 2..Len(s)
        BY <2>2, <3>2
      <4> HIDE DEF Start, Carries, SerialOf
      <4>2. /\ s[i - 1].pci = "CF" /\ SerialOf(s[i - 1]) = n
            /\ Start(s[i - 1]) = 7 * (i - 1 - 1) /\ Carries(s[i - 1]) = 7
        BY <2>4, <4>1
      <4>3. /\ s[i].pci = "CF" /\ SerialOf(s[i]) = n
            /\ Start(s[i]) = 7 * (i - 1)
        BY <2>4
      <4>4. 7 * (i - 1) = 7 * (i - 1 - 1) + 7
        BY <2>2
      <4> QED
        BY <4>2, <4>3, <4>4 DEF Follows
    <3> QED
      BY <3>1, <3>2
  <2>6. ASSUME NEW i \in 1..Len(s) PROVE Genuine(s[i]) /\ SerialOf(s[i]) = n
    <3>1. i = 1 \/ i \in 2..Len(s)
      BY <2>2
    <3> QED
      BY <2>3, <2>4, <3>1
  <2> QED
    BY <2>1, <2>2, <2>3, <2>5, <2>6 DEF s
<1> QED
  BY <1>1, <1>2

-----------------------------------------------------------------------------
(* What the reassembler makes of a genuine frame.                          *)

Reassembler == [payload : Seq(Byte \cup {Pad}), expected : Nat,
                next : 0..15, collecting : BOOLEAN]

LEMMA CopiedBytes ==
  ASSUME NEW f \in Frame, NEW count \in Nat, count <= Len(f.bytes)
  PROVE  /\ Copy(f, count) \in Seq(Byte \cup {Pad})
         /\ Len(Copy(f, count)) = count
         /\ \A i \in 1..count : Copy(f, count)[i] = f.bytes[i]
<1> DEFINE e(i) == f.bytes[i]
<1>1. f.bytes \in Seq(Byte \cup {Pad})
  BY DEF Frame
<1>2. Len(f.bytes) \in Nat
  BY <1>1, LenProperties
<1>3. \A i \in 1..count : i <= Len(f.bytes) /\ i \in 1..Len(f.bytes)
  BY <1>2
<1>4. \A i \in 1..count : e(i) \in Byte \cup {Pad}
  BY <1>1, <1>3, ElementOfSeq
<1>5. Copy(f, count) = [i \in 1..count |-> e(i)]
  BY <1>3 DEF Copy
<1> HIDE DEF e
<1>6. [i \in 1..count |-> e(i)] \in Seq(Byte \cup {Pad})
  BY <1>4, IsASeq
<1>7. Len([i \in 1..count |-> e(i)]) = count
  OBVIOUS
<1> QED
  BY <1>5, <1>6, <1>7 DEF e

LEMMA SingleOffered ==
  ASSUME NEW n \in 1..MaxRequests, NEW f \in Frame, IsSingle(f, n), NEW r
  PROVE  LET o == Offer(r, f, 8)
             p == o.r.payload IN
         /\ o.state = "Complete"
         /\ p \in Seq(Byte \cup {Pad}) /\ Len(p) = f.n
         /\ \A i \in 1..f.n : p[i] = f.bytes[i]
<1> DEFINE p == Copy(f, f.n)
<1>1. f.pci = "SF" /\ f.n \in 1..7 /\ Len(f.bytes) = 7
  BY DEF IsSingle
<1>2. f.n \in Nat /\ f.n <= Len(f.bytes)
  BY <1>1
<1>3. /\ p \in Seq(Byte \cup {Pad}) /\ Len(p) = f.n
      /\ \A i \in 1..f.n : p[i] = f.bytes[i]
  BY <1>2, CopiedBytes
<1>4. Clamped(8) = 8
  BY DEF Clamped, MinOf, MaxFrame
<1>5. Offer(r, f, 8) = OfferSingle(r, f, 8)
  BY <1>1, <1>4 DEF Offer
<1>6. OfferSingle(r, f, 8) = Returns([Fresh EXCEPT !.payload = p], "Complete")
  BY <1>1 DEF OfferSingle
<1> HIDE DEF p
<1>7. /\ Offer(r, f, 8).state = "Complete"
      /\ Offer(r, f, 8).r.payload = p
  BY <1>5, <1>6 DEF Returns, Fresh
<1> QED
  BY <1>3, <1>7

LEMMA FirstOffered ==
  ASSUME NEW n \in 1..MaxRequests, NEW f \in Frame, IsFirst(f, n), NEW r
  PROVE  LET o == Offer(r, f, 8)
             p == o.r.payload IN
         /\ o.state = "NeedFlowControl"
         /\ o.r \in Reassembler
         /\ o.r.collecting /\ o.r.expected = LongReply /\ o.r.next = 1
         /\ Len(p) = 6 /\ \A i \in 1..6 : p[i] = f.bytes[i]
<1> DEFINE p == Copy(f, 6)
<1>1. f.pci = "FF" /\ f.n = LongReply /\ Len(f.bytes) = 6
  BY DEF IsFirst
<1>2. 6 \in Nat /\ 6 <= Len(f.bytes)
  BY <1>1
<1>3. /\ p \in Seq(Byte \cup {Pad}) /\ Len(p) = 6
      /\ \A i \in 1..6 : p[i] = f.bytes[i]
  BY <1>2, CopiedBytes
<1>4. Clamped(8) = 8 /\ MinOf(8 - 2, LongReply) = 6
  BY DEF Clamped, MinOf, MaxFrame
<1>5. Offer(r, f, 8) = OfferFirst(r, f, 8)
  BY <1>1, <1>4 DEF Offer
<1>6. Copy(f, MinOf(8 - 2, f.n)) = p
  BY <1>1, <1>4
<1> HIDE DEF p
<1> DEFINE r2 == [payload |-> p, expected |-> LongReply, next |-> 1,
                  collecting |-> TRUE]
<1>7. ~(8 < 2) /\ f.n # 0
  BY <1>1
<1>8. OfferFirst(r, f, 8) = Returns(r2, "NeedFlowControl")
  BY <1>1, <1>6, <1>7 DEF OfferFirst
<1>9. r2 \in Reassembler
  BY <1>3 DEF Reassembler
<1>10. /\ r2.collecting /\ r2.expected = LongReply /\ r2.next = 1
       /\ r2.payload = p
  OBVIOUS
<1> HIDE DEF r2
<1>11. /\ Offer(r, f, 8).state = "NeedFlowControl"
      /\ Offer(r, f, 8).r = r2
  BY <1>5, <1>8 DEF Returns
<1> QED
  BY <1>3, <1>11, <1>9, <1>10

LEMMA OutOfSequenceOffered ==
  ASSUME NEW n \in 1..MaxRequests, NEW k \in 1..LongReply, NEW f \in Frame,
         IsConsecutive(f, n, k), NEW r \in Reassembler,
         ~r.collecting \/ r.next # k % 16
  PROVE  Offer(r, f, 8).state = "Error"
<1>1. f.pci = "CF" /\ f.n = k % 16
  BY DEF IsConsecutive
<1>2. Clamped(8) = 8
  BY DEF Clamped, MinOf, MaxFrame
<1>3. Offer(r, f, 8) = OfferConsecutive(r, f, 8)
  BY <1>1, <1>2 DEF Offer
<1>4. OfferConsecutive(r, f, 8) = Returns(r, "Error")
  BY <1>1 DEF OfferConsecutive, InSequence
<1> QED
  BY <1>3, <1>4 DEF Returns

LEMMA Joined ==
  ASSUME NEW S, NEW s \in Seq(S), NEW t \in Seq(S)
  PROVE  /\ s \o t \in Seq(S)
         /\ Len(s \o t) = Len(s) + Len(t)
         /\ \A i \in 1..Len(s) : (s \o t)[i] = s[i]
         /\ \A i \in 1..Len(t) : (s \o t)[Len(s) + i] = t[i]
<1> DEFINE u == s \o t
<1>1. Len(s) \in Nat /\ Len(t) \in Nat
  BY LenProperties
<1>2. /\ u \in Seq(S) /\ Len(u) = Len(s) + Len(t)
      /\ \A i \in 1..(Len(s) + Len(t)) :
            u[i] = IF i <= Len(s) THEN s[i] ELSE t[i - Len(s)]
  BY ConcatProperties
<1> HIDE DEF u
<1>3. ASSUME NEW i \in 1..Len(s) PROVE u[i] = s[i]
  BY <1>1, <1>2
<1>4. ASSUME NEW i \in 1..Len(t) PROVE u[Len(s) + i] = t[i]
  <2>1. Len(s) + i \in 1..(Len(s) + Len(t)) /\ ~(Len(s) + i <= Len(s))
    BY <1>1
  <2>2. Len(s) + i - Len(s) = i
    BY <1>1
  <2> QED
    BY <1>2, <2>1, <2>2
<1> QED
  BY <1>2, <1>3, <1>4 DEF u

LEMMA InSequenceOffered ==
  ASSUME NEW n \in 1..MaxRequests, NEW k \in 1..LongReply, NEW f \in Frame,
         IsConsecutive(f, n, k),
         NEW r \in Reassembler, r.collecting, r.next = k % 16,
         r.expected = LongReply, Len(r.payload) < LongReply
  PROVE  LET o    == Offer(r, f, 8)
             p    == o.r.payload
             have == Len(r.payload)
             take == MinOf(7, LongReply - have)
         IN  /\ o.state = (IF have + take = LongReply THEN "Complete"
                                                      ELSE "Collecting")
             /\ o.r \in Reassembler
             /\ o.r.collecting = (have + take # LongReply)
             /\ o.r.expected = LongReply /\ o.r.next = (k + 1) % 16
             /\ Len(p) = have + take
             /\ \A i \in 1..have : p[i] = r.payload[i]
             /\ \A i \in 1..take : p[have + i] = f.bytes[i]
<1> DEFINE have == Len(r.payload)
           take == MinOf(7, LongReply - have)
           copy == Copy(f, take)
           p    == r.payload \o copy
           done == Len(p) >= LongReply
           next == (r.next + 1) % 16
<1>1. f.pci = "CF" /\ f.n = k % 16 /\ Len(f.bytes) = 7
  BY DEF IsConsecutive
<1>2. r.payload \in Seq(Byte \cup {Pad}) /\ have \in Nat /\ r.next \in 0..15
  BY LenProperties DEF Reassembler
<1>3. have = Len(r.payload) /\ have < LongReply
  OBVIOUS
<1> HIDE DEF have
<1>4. /\ take \in Nat /\ take <= 7 /\ take <= LongReply - have
      /\ (take = 7 \/ take = LongReply - have)
      /\ Take(r.expected - have, 8 - 1) = take
  <2>1. ASSUME NEW x \in Nat, x <= LongReply
        PROVE  /\ MinOf(7, LongReply - x) \in Nat
               /\ MinOf(7, LongReply - x) \in {7, LongReply - x}
               /\ MinOf(7, LongReply - x) <= 7
               /\ MinOf(7, LongReply - x) <= LongReply - x
               /\ Take(LongReply - x, 8 - 1) = MinOf(7, LongReply - x)
    BY <2>1 DEF MinOf, Take
  <2>2. have \in Nat /\ have <= LongReply /\ r.expected = LongReply
    BY <1>2, <1>3
  <2> QED
    BY <2>1, <2>2
<1> HIDE DEF take
<1>5. /\ copy \in Seq(Byte \cup {Pad}) /\ Len(copy) = take
      /\ \A i \in 1..take : copy[i] = f.bytes[i]
  BY <1>1, <1>4, CopiedBytes
<1> HIDE DEF copy
<1>6. /\ p \in Seq(Byte \cup {Pad}) /\ Len(p) = have + take
      /\ \A i \in 1..have : p[i] = r.payload[i]
      /\ \A i \in 1..take : p[have + i] = copy[i]
  <2> DEFINE s == r.payload
             S == Byte \cup {Pad}
  <2>1. s \in Seq(S) /\ copy \in Seq(S)
    BY <1>2, <1>5
  <2> HIDE DEF s, S
  <2>2. /\ s \o copy \in Seq(S)
        /\ Len(s \o copy) = Len(s) + Len(copy)
        /\ \A i \in 1..Len(s) : (s \o copy)[i] = s[i]
        /\ \A i \in 1..Len(copy) : (s \o copy)[Len(s) + i] = copy[i]
    BY <2>1, Joined
  <2>3. Len(s) = have /\ p = s \o copy
    BY <1>3 DEF s
  <2> HIDE DEF p
  <2>4. \A i \in 1..have : p[i] = s[i]
    BY <2>2, <2>3
  <2> QED
    BY <1>5, <2>2, <2>3, <2>4 DEF s, S
<1> HIDE DEF p
<1>7. next = (k + 1) % 16 /\ next \in 0..15
  BY <1>2
<1> HIDE DEF next
<1>8. Clamped(8) = 8
  BY DEF Clamped, MinOf, MaxFrame
<1>9. Offer(r, f, 8) = OfferConsecutive(r, f, 8)
  BY <1>1, <1>8 DEF Offer
<1>10. OfferConsecutive(r, f, 8) =
        Returns([r EXCEPT !.payload = p, !.next = next, !.collecting = ~done],
                IF done THEN "Complete" ELSE "Collecting")
  BY <1>1, <1>4, <1>3 DEF OfferConsecutive, InSequence, NextSequence, p, copy, next
<1>11. done <=> have + take = LongReply
  BY <1>2, <1>4, <1>6
<1> HIDE DEF done
<1> DEFINE r2 == [r EXCEPT !.payload = p, !.next = next, !.collecting = ~done]
<1>12. /\ Offer(r, f, 8).state = IF done THEN "Complete" ELSE "Collecting"
       /\ Offer(r, f, 8).r = r2
  BY <1>9, <1>10 DEF Returns
<1>13. /\ r2.payload = p /\ r2.expected = LongReply /\ r2.next = next
       /\ r2.collecting = ~done
  BY DEF Reassembler
<1>14. r2 \in Reassembler
  BY <1>6, <1>7 DEF Reassembler, done
<1> HIDE DEF r2
<1>15. \A i \in 1..take : p[have + i] = f.bytes[i]
  BY <1>5, <1>6
<1> QED
  BY <1>6, <1>7, <1>11, <1>12, <1>13, <1>15, <1>3,
     <1>14 DEF take, have

\* Copying what is there.
LEMMA CopiedWithin ==
  ASSUME NEW S, NEW frame, frame.bytes \in Seq(S), NEW count \in Nat,
         count <= Len(frame.bytes)
  PROVE  Copy(frame, count) \in Seq(S) /\ Len(Copy(frame, count)) = count
<1> DEFINE e(i) == frame.bytes[i]
<1>1. Len(frame.bytes) \in Nat
  BY LenProperties
<1>2. \A i \in 1..count : i <= Len(frame.bytes) /\ i \in 1..Len(frame.bytes)
  BY <1>1
<1>3. \A i \in 1..count : e(i) \in S
  BY <1>2, ElementOfSeq
<1>4. Copy(frame, count) = [i \in 1..count |-> e(i)]
  BY <1>2 DEF Copy
<1> HIDE DEF e
<1>5. [i \in 1..count |-> e(i)] \in Seq(S)
  BY <1>3, IsASeq
<1>6. Len([i \in 1..count |-> e(i)]) = count
  OBVIOUS
<1> QED
  BY <1>4, <1>5, <1>6

Holding(S) == [payload : Seq(S), expected : Nat, next : 0..15, collecting : BOOLEAN]

LEMMA HoldingWith ==
  ASSUME NEW S, NEW f \in Holding(S), NEW p \in Seq(S), NEW q, q = [f EXCEPT !.payload = p]
  PROVE  q \in Holding(S) /\ q.collecting = f.collecting
BY DEF Holding

LEMMA FreshHolds == \A S : Fresh \in Holding(S) /\ Fresh.collecting = FALSE
BY DEF Holding, Fresh

\* Of any frame, of any response and with either addressing, as long as its
\* bytes are there up to the clamped DLC, offer() stores the frame's own
\* bytes only, and never more than was announced, so that the unsigned
\* expected_ - payload_.size() does not wrap (reassembler.cpp:10-60).
THEOREM OfferStaysInTheFrame ==
  ASSUME NEW S, NEW dlc \in Nat,
         NEW frame, frame.n \in Nat, frame.bytes \in Seq(S),
         Clamped(dlc) <= Len(frame.bytes) + (IF frame.pci = "FF" THEN 2 ELSE 1),
         NEW r \in Holding(S), r.collecting => Len(r.payload) <= r.expected
  PROVE  LET after == Offer(r, frame, dlc).r
         IN  /\ after \in Holding(S)
             /\ after.collecting => Len(after.payload) <= after.expected
<1> DEFINE len == Clamped(dlc)
           Good(q) == q \in Holding(S) /\ (q.collecting => Len(q.payload) <= q.expected)
<1>0. \A q, s : Returns(q, s).r = q
  BY DEF Returns
<1>1. len \in Nat
  BY DEF Clamped, MinOf, MaxFrame
<1>2. Len(frame.bytes) \in Nat
  BY LenProperties
<1>3. Good(r) /\ Good(Fresh)
  BY DEF Holding, Fresh
<1>4. len <= Len(frame.bytes) + (IF frame.pci = "FF" THEN 2 ELSE 1)
  OBVIOUS
<1> HIDE DEF len
<1>5. ASSUME frame.pci = "SF" PROVE Good(OfferSingle(r, frame, len).r)
  <2>1. CASE frame.n = 0 \/ frame.n + 1 > len
    BY <1>0, <1>3, <2>1 DEF OfferSingle
  <2>2. CASE ~(frame.n = 0 \/ frame.n + 1 > len)
    <3> DEFINE p == Copy(frame, frame.n)
    <3>1. frame.n <= Len(frame.bytes)
      BY <1>1, <1>2, <1>4, <1>5, <2>2
    <3>2. p \in Seq(S)
      BY <3>1, CopiedWithin
    <3> DEFINE q == [Fresh EXCEPT !.payload = p]
    <3>3. OfferSingle(r, frame, len) = Returns(q, "Complete")
      BY <2>2, Zenon DEF OfferSingle
    <3> HIDE DEF p
    <3>4. q = [Fresh EXCEPT !.payload = p]
      OBVIOUS
    <3> HIDE DEF q
    <3>5. q \in Holding(S) /\ q.collecting = FALSE
      BY <3>2, <3>4, HoldingWith, FreshHolds
    <3> QED
      BY <1>0, <3>3, <3>5
  <2> QED
    BY <2>1, <2>2
<1>6. ASSUME frame.pci = "FF" PROVE Good(OfferFirst(r, frame, len).r)
  <2>1. CASE len < 2 \/ frame.n = 0
    BY <1>0, <1>3, <2>1 DEF OfferFirst
  <2>2. CASE ~(len < 2 \/ frame.n = 0)
    <3> DEFINE count == MinOf(len - 2, frame.n)
               p == Copy(frame, count)
    <3>1. count \in Nat /\ count <= frame.n /\ count <= Len(frame.bytes)
      BY <1>1, <1>2, <1>4, <1>6, <2>2 DEF MinOf
    <3> HIDE DEF count
    <3>2. p \in Seq(S) /\ Len(p) = count
      BY <3>1, CopiedWithin
    <3> HIDE DEF p
    <3> DEFINE q == [payload |-> p, expected |-> frame.n, next |-> 1, collecting |-> TRUE]
    <3>3. q \in Holding(S)
      BY <3>2 DEF Holding
    <3>4. Len(q.payload) <= q.expected
      BY <3>1, <3>2
    <3>5. OfferFirst(r, frame, len) = Returns(q, "NeedFlowControl")
      BY <2>2 DEF OfferFirst, p, count
    <3> HIDE DEF q
    <3> QED
      BY <1>0, <3>3, <3>4, <3>5
  <2> QED
    BY <2>1, <2>2
<1>7. ASSUME frame.pci = "CF", len >= 1 PROVE Good(OfferConsecutive(r, frame, len).r)
  <2>1. CASE ~r.collecting \/ ~InSequence(r, frame)
    BY <1>0, <1>3, <2>1 DEF OfferConsecutive
  <2>2. CASE ~(~r.collecting \/ ~InSequence(r, frame))
    <3> DEFINE have == Len(r.payload)
               take == Take(r.expected - have, len - 1)
               copy == Copy(frame, take)
               p    == r.payload \o copy
               done == Len(p) >= r.expected
    <3>1. r.payload \in Seq(S) /\ have \in Nat /\ r.expected \in Nat /\ have <= r.expected
      BY <2>2, LenProperties DEF Holding
    <3>2. take \in Nat /\ take <= Len(frame.bytes) /\ have + take <= r.expected
      <4>1. \A x, y \in Nat : Take(x, y) \in Nat /\ Take(x, y) <= x /\ Take(x, y) <= y
        BY DEF Take, MinOf
      <4> HIDE DEF have
      <4>2. r.expected - have \in Nat /\ len - 1 \in Nat /\ len - 1 <= Len(frame.bytes)
        BY <1>1, <1>2, <1>4, <1>7, <3>1
      <4>3. take \in Nat /\ take <= r.expected - have /\ take <= len - 1
        BY <4>1, <4>2
      <4> HIDE DEF take
      <4> QED
        BY <1>1, <1>2, <3>1, <4>2, <4>3
    <3> HIDE DEF take
    <3>3. copy \in Seq(S) /\ Len(copy) = take
      BY <3>2, CopiedWithin
    <3> HIDE DEF copy
    <3>4. p \in Seq(S) /\ Len(p) = have + take
      BY <3>1, <3>3, Joined
    <3> HIDE DEF have, p
    <3> DEFINE q == [r EXCEPT !.payload = p, !.next = NextSequence(@), !.collecting = ~done]
    <3>5. NextSequence(r.next) \in 0..15
      <4>1. r.next \in 0..15
        BY DEF Holding
      <4>2. \A k \in 0..15 : (k + 1) % 16 \in 0..15
        OBVIOUS
      <4> QED
        BY <4>1, <4>2 DEF NextSequence
    <3>6. q \in Holding(S) /\ q.payload = p /\ q.expected = r.expected
      BY <3>4, <3>5 DEF Holding
    <3>7. Len(q.payload) <= q.expected
      BY <3>1, <3>2, <3>4, <3>6
    <3>8. OfferConsecutive(r, frame, len).r = q
      BY <1>0, <2>2 DEF OfferConsecutive, have, take, copy, p
    <3> HIDE DEF q
    <3> QED
      BY <3>6, <3>7, <3>8
  <2> QED
    BY <2>1, <2>2
<1>8. \/ len < 1 /\ Offer(r, frame, dlc) = Returns(r, "Error")
      \/ frame.pci = "SF" /\ Offer(r, frame, dlc) = OfferSingle(r, frame, len)
      \/ frame.pci = "FF" /\ Offer(r, frame, dlc) = OfferFirst(r, frame, len)
      \/ frame.pci = "CF" /\ len >= 1 /\ Offer(r, frame, dlc) = OfferConsecutive(r, frame, len)
      \/ Offer(r, frame, dlc) = Returns(r, "Error")
  <2>1. len < 1 \/ len >= 1
    BY <1>1
  <2> QED
    BY <1>1, <2>1 DEF Offer, len
<1>9. Good(Offer(r, frame, dlc).r)
  BY <1>0, <1>3, <1>5, <1>6, <1>7, <1>8
<1> QED
  BY <1>9

-----------------------------------------------------------------------------
(* Types.                                                                  *)

Types == TypeOK /\ Typed /\ Busy

FrameFrom == [from : Ecus, frame : Frame]
Queueable == [kind : {"request", "flow"}, serial : 1..MaxRequests,
              command : Commands]

LEMMA QueueTail ==
  ASSUME NEW S, NEW q \in Seq(S), q # <<>>
  PROVE  /\ Head(q) \in S /\ Head(q) = q[1] /\ Tail(q) \in Seq(S)
         /\ Len(q) \in Nat /\ Len(q) >= 1 /\ Len(Tail(q)) = Len(q) - 1
         /\ \A i \in 1..(Len(q) - 1) : Tail(q)[i] = q[i + 1]
  BY HeadTailProperties, LenProperties, EmptySeq

LEMMA FreshTyped == Fresh \in Reassembler /\ Fresh.payload = <<>>
                    /\ Fresh.next = 0 /\ ~Fresh.collecting
<1>1. <<>> \in Seq(Byte \cup {Pad})
  BY EmptySeq
<1> QED
  BY <1>1 DEF Fresh, Reassembler

LEMMA TypesInitially == Init => Types
<1> SUFFICES ASSUME Init PROVE Types
  OBVIOUS
<1>1. Typed
  BY FreshTyped, EmptySeq DEF Init, Typed, Reassembler
<1>2. TypeOK
  <2>1. IsBytes(<<>>)
    BY EmptySeq DEF IsBytes
  <2>2. Len(<<>>) = 0
    BY EmptySeq
  <2>3. \A e \in Ecus : work[e] = None
    BY DEF Init
  <2>4. {clean, fault} \subseteq BOOLEAN
    BY DEF Init
  <2>5. /\ task \in {"idle", "drain", "send", "wait", "flow"}
        /\ serial \in 0..MaxRequests
        /\ request \in Commands \cup {NoCommand}
        /\ lastFrame \in Ecus \cup {Nobody}
        /\ answer \in {"none", "?", "OK", "NoData", "CanError", "PAYLOAD", "NRC"}
    BY DEF Init
  <2>6. /\ IsBytes(reassembler.payload) /\ reassembler.next \in 0..15
        /\ IsBytes(body)
    BY <2>1, FreshTyped DEF Init
  <2> QED
    BY <2>3, <2>4, <2>5, <2>6 DEF TypeOK
<1>3. Busy
  BY DEF Init, Busy
<1> QED
  BY <1>1, <1>2, <1>3 DEF Types

SessionTyped ==
    /\ task \in {"idle", "drain", "send", "wait", "flow"}
    /\ serial \in 0..MaxRequests
    /\ request \in Commands \cup {NoCommand}
    /\ reassembler \in Reassembler
    /\ lastFrame \in Ecus \cup {Nobody}
    /\ answer \in {"none", "?", "OK", "NoData", "CanError", "PAYLOAD", "NRC"}
    /\ IsBytes(body)
    /\ Busy

QueuesTyped ==
    /\ rxQueue \in Seq(FrameFrom)
    /\ txQueue \in Seq(Queueable)

EcusTyped ==
    /\ work \in [Ecus -> {None} \cup Work]
    /\ output \in [Ecus -> Seq(Frame)]
    /\ held \in [Ecus -> BOOLEAN]

LEMMA TypesParts ==
  Types <=> SessionTyped /\ QueuesTyped /\ EcusTyped
              /\ {clean, fault} \subseteq BOOLEAN
<1>1. ASSUME EcusTyped
      PROVE  \A e \in Ecus : work[e] = None \/ work[e].command \in Commands
  BY <1>1 DEF EcusTyped, Work
<1>2. ASSUME reassembler \in Reassembler
      PROVE  IsBytes(reassembler.payload) /\ reassembler.next \in 0..15
  BY <1>2 DEF Reassembler, IsBytes
<1>3. Types => SessionTyped /\ QueuesTyped /\ EcusTyped
                 /\ {clean, fault} \subseteq BOOLEAN
  BY Zenon DEF Types, TypeOK, Typed, SessionTyped, QueuesTyped, EcusTyped,
         Reassembler, FrameFrom, Queueable
<1>4. SessionTyped /\ QueuesTyped /\ EcusTyped
        /\ {clean, fault} \subseteq BOOLEAN => TypeOK
  BY <1>1, <1>2, Zenon DEF TypeOK, SessionTyped, QueuesTyped
<1>5. SessionTyped /\ QueuesTyped /\ EcusTyped => Typed /\ Busy
  BY Zenon DEF Typed, SessionTyped, QueuesTyped, EcusTyped,
         Reassembler, FrameFrom, Queueable
<1> QED
  BY <1>3, <1>4, <1>5 DEF Types

-----------------------------------------------------------------------------
(* What one turn of the receive loop does with the frame f at the head of  *)
(* the queue.                                                              *)

\* f carries a whole response.
TakesSingle(f, n) ==
    /\ IsSingle(f, n)
    /\ \E p \in Seq(Byte \cup {Pad}) :
          /\ Len(p) = f.n /\ \A i \in 1..f.n : p[i] = f.bytes[i]
          /\ Judge(p)

TakesFirst(f, n) ==
    /\ IsFirst(f, n)
    /\ task' = "flow" /\ UNCHANGED <<answer, body>>
    /\ reassembler' \in Reassembler
    /\ reassembler'.collecting /\ reassembler'.expected = LongReply
    /\ reassembler'.next = 1
    /\ Len(reassembler'.payload) = 6
    /\ \A i \in 1..6 : reassembler'.payload[i] = f.bytes[i]

TakesStray(f, n, k) ==
    /\ IsConsecutive(f, n, k)
    /\ ~reassembler.collecting \/ reassembler.next # k % 16
    /\ Reply("CanError", <<>>)

InTurn(f, n, k) ==
    /\ IsConsecutive(f, n, k)
    /\ reassembler.collecting /\ reassembler.next = k % 16

\* p is the payload collected so far, with what is in f.
Extends(p, f) ==
    LET have == Len(reassembler.payload)
        take == MinOf(7, LongReply - have)
    IN  /\ p \in Seq(Byte \cup {Pad}) /\ Len(p) = have + take
        /\ \A i \in 1..have : p[i] = reassembler.payload[i]
        /\ \A i \in 1..take : p[have + i] = f.bytes[i]

TakesLast(f, n, k) ==
    /\ InTurn(f, n, k)
    /\ \E p : Extends(p, f) /\ Len(p) = LongReply /\ Judge(p)

TakesMore(f, n, k) ==
    /\ InTurn(f, n, k)
    /\ UNCHANGED <<task, answer, body>>
    /\ reassembler' \in Reassembler
    /\ reassembler'.collecting /\ reassembler'.expected = LongReply
    /\ reassembler'.next = (k + 1) % 16
    /\ Extends(reassembler'.payload, f)
    /\ Len(reassembler'.payload) # LongReply

Takes(f) ==
    \E n \in 1..MaxRequests :
       \/ TakesSingle(f, n) \/ TakesFirst(f, n)
       \/ \E k \in 1..LongReply : TakesStray(f, n, k) \/ TakesLast(f, n, k)
                                    \/ TakesMore(f, n, k)

LEMMA Received ==
  ASSUME Types, Collecting, AllGenuine, Receive
  PROVE  LET rx == Head(rxQueue) IN
         /\ task = "wait" /\ rxQueue # <<>>
         /\ rx \in FrameFrom /\ rx = rxQueue[1]
         /\ rxQueue' = Tail(rxQueue)
         /\ UNCHANGED <<serial, request, txQueue, work, output, held, clean, fault>>
         /\ \/ ~Accepted(rx.from) /\ UNCHANGED session
            \/ Accepted(rx.from) /\ lastFrame' = rx.from /\ Takes(rx.frame)
<1> DEFINE rx == Head(rxQueue)
           f == rx.frame
           r == reassembler
           o == Offer(r, f, 8)
<1> USE TypesParts
<1>1. /\ task = "wait" /\ rxQueue # <<>>
      /\ rxQueue' = Tail(rxQueue)
      /\ UNCHANGED <<txQueue, work, output, held, clean, fault>>
  BY DEF Receive, ecus
<1>2. rx \in FrameFrom /\ rx = rxQueue[1] /\ f \in Frame /\ 1 \in DOMAIN rxQueue
  <2>1. /\ rx \in FrameFrom /\ rx = rxQueue[1] /\ Len(rxQueue) \in Nat
        /\ Len(rxQueue) >= 1
    BY <1>1, QueueTail DEF QueuesTyped
  <2>2. DOMAIN rxQueue = 1..Len(rxQueue)
    BY LenProperties DEF QueuesTyped
  <2> HIDE DEF rx
  <2> QED
    BY <2>1, <2>2 DEF FrameFrom
<1>3. r \in Reassembler
  BY DEF SessionTyped
<1>4. CASE ~Accepted(rx.from)
  <2>1. UNCHANGED session
    BY <1>4 DEF Receive
  <2> QED
    BY <1>1, <1>2, <1>4, <2>1 DEF session
<1>5. CASE Accepted(rx.from)
  <2>1. /\ lastFrame' = rx.from
        /\ CASE o.state = "Complete" -> Judge(o.r.payload)
             [] o.state = "NeedFlowControl" ->
                    /\ reassembler' = o.r
                    /\ task' = "flow"
                    /\ UNCHANGED <<serial, request, answer, body>>
             [] o.state = "Collecting" ->
                    /\ reassembler' = o.r
                    /\ UNCHANGED <<task, serial, request, answer, body>>
             [] o.state = "Error" -> Reply("CanError", <<>>)
    BY <1>5 DEF Receive
  <2>2. PICK n \in 1..MaxRequests :
           \/ IsSingle(f, n) \/ IsFirst(f, n)
           \/ \E k \in 1..LongReply : IsConsecutive(f, n, k)
    BY <1>2 DEF AllGenuine, Genuine
  <2>3. ASSUME NEW p, Judge(p) PROVE UNCHANGED <<serial, request>>
    BY <2>3 DEF Judge, Reply
  <2> HIDE DEF r, f, o
  <2>4. SUFFICES UNCHANGED <<serial, request>> /\ Takes(f)
    BY <1>1, <1>2, <1>5, <2>1 DEF f
  <2>5. CASE IsSingle(f, n)
    <3>1. /\ o.state = "Complete"
          /\ o.r.payload \in Seq(Byte \cup {Pad}) /\ Len(o.r.payload) = f.n
          /\ \A i \in 1..f.n : o.r.payload[i] = f.bytes[i]
      BY <1>2, <2>5, SingleOffered DEF o
    <3>2. Judge(o.r.payload)
      BY <2>1, <3>1
    <3> QED
      BY <2>5, <2>3, <3>1, <3>2 DEF Takes, TakesSingle
  <2>6. CASE IsFirst(f, n)
    <3>1. /\ o.state = "NeedFlowControl" /\ o.r \in Reassembler
          /\ o.r.collecting /\ o.r.expected = LongReply /\ o.r.next = 1
          /\ Len(o.r.payload) = 6
          /\ \A i \in 1..6 : o.r.payload[i] = f.bytes[i]
      BY <1>2, <2>6, FirstOffered DEF o
    <3>2. /\ reassembler' = o.r /\ task' = "flow"
          /\ UNCHANGED <<serial, request, answer, body>>
      BY <2>1, <3>1
    <3> QED
      BY <2>6, <3>1, <3>2 DEF Takes, TakesFirst
  <2>7. ASSUME NEW k \in 1..LongReply, IsConsecutive(f, n, k),
               ~r.collecting \/ r.next # k % 16
        PROVE  UNCHANGED <<serial, request>> /\ Takes(f)
    <3>1. o.state = "Error"
      BY <1>2, <1>3, <2>7, OutOfSequenceOffered DEF o
    <3>2. Reply("CanError", <<>>)
      BY <2>1, <3>1
    <3> QED
      BY <2>7, <3>2 DEF Takes, TakesStray, Reply, r
  <2>8. ASSUME NEW k \in 1..LongReply, IsConsecutive(f, n, k),
               r.collecting, r.next = k % 16
        PROVE  UNCHANGED <<serial, request>> /\ Takes(f)
    <3> DEFINE have == Len(r.payload)
               take == MinOf(7, LongReply - have)
    <3>1. r.expected = LongReply /\ have < LongReply
      BY <2>8 DEF Collecting, r
    <3>2. /\ o.state = (IF have + take = LongReply THEN "Complete"
                                                   ELSE "Collecting")
          /\ o.r \in Reassembler
          /\ o.r.collecting = (have + take # LongReply)
          /\ o.r.expected = LongReply /\ o.r.next = (k + 1) % 16
          /\ Len(o.r.payload) = have + take
          /\ \A i \in 1..have : o.r.payload[i] = r.payload[i]
          /\ \A i \in 1..take : o.r.payload[have + i] = f.bytes[i]
      BY <1>2, <1>3, <2>8, <3>1, InSequenceOffered DEF o
    <3>3. Extends(o.r.payload, f)
      BY <3>2 DEF Extends, Reassembler, r
    <3>4. InTurn(f, n, k)
      BY <2>8 DEF InTurn, r
    <3> HIDE DEF have, take
    <3>5. CASE have + take = LongReply
      <4>1. o.state = "Complete" /\ Len(o.r.payload) = LongReply
        BY <3>2, <3>5
      <4>2. Judge(o.r.payload)
        BY <2>1, <4>1
      <4> QED
        BY <2>3, <3>3, <3>4, <4>1, <4>2 DEF Takes, TakesLast
    <3>6. CASE have + take # LongReply
      <4>1. o.state = "Collecting" /\ o.r.collecting /\ Len(o.r.payload) # LongReply
        BY <3>2, <3>6
      <4>2. reassembler' = o.r /\ UNCHANGED <<task, serial, request, answer, body>>
        BY <2>1, <4>1
      <4> QED
        BY <3>2, <3>3, <3>4, <4>1, <4>2 DEF Takes, TakesMore
    <3> QED
      BY <3>5, <3>6
  <2> QED
    BY <2>2, <2>5, <2>6, <2>7, <2>8
<1> QED
  BY <1>4, <1>5

-----------------------------------------------------------------------------
(* What becomes of a response that is complete.                            *)

LEMMA EchoedFew ==
  \A sid \in 0..255 : EchoedBytes(sid) > 0 => EchoedBytes(sid) \in {1, 2}
  BY DEF EchoedBytes, ReadDID

LEMMA EchoInjective ==
  \A a, b \in 0..255 : Echo(a) = Echo(b) => a = b
<1>1. \A a \in 0..255 : Echo(a) = IF a < 192 THEN a + 64 ELSE a - 192
  BY DEF Echo
<1>2. ASSUME NEW a \in 0..255, NEW b \in 0..255, Echo(a) = Echo(b)
      PROVE  a = b
  <2>1. (IF a < 192 THEN a + 64 ELSE a - 192)
           = (IF b < 192 THEN b + 64 ELSE b - 192)
    BY <1>1, <1>2
  <2> QED
    BY <2>1
<1> QED
  BY <1>2

\* A reply "PAYLOAD" says what its bytes are.
Affirms(p) == /\ Value(p, 1) = Echo(request.sid) /\ Value(p, 1) # Negative
              /\ EchoesIdentifier(request, p)

LEMMA Judged ==
  ASSUME NEW p, Judge(p)
  PROVE  /\ UNCHANGED <<serial, request>> /\ reassembler' = Fresh
         /\ \/ UNCHANGED <<task, answer, body>>
            \/ /\ task' = "idle" /\ body' = p
               /\ \/ answer' = "NRC"
                  \/ answer' = "PAYLOAD" /\ Affirms(p)
<1> DEFINE match == classifyResponse(request, p)
<1>1. CASE match = "Positive"
  <2>1. Reply("PAYLOAD", p)
    BY <1>1 DEF Judge, Concludes
  <2>2. Affirms(p)
    <3>1. CASE Value(p, 1) = Negative
      <4>1. match = IF ~Rejects(request, p) THEN "Mismatch"
                    ELSE IF Value(p, 3) = Pending THEN "NegativePending"
                    ELSE "NegativeFinal"
        BY <3>1 DEF classifyResponse
      <4> QED
        BY <1>1, <4>1
    <3>2. CASE Value(p, 1) # Negative
      <4>1. match = IF /\ Value(p, 1) = Echo(request.sid)
                       /\ EchoesIdentifier(request, p)
                    THEN "Positive" ELSE "Mismatch"
        BY <3>2 DEF classifyResponse
      <4> QED
        BY <1>1, <3>2, <4>1 DEF Affirms
    <3> QED
      BY <3>1, <3>2
  <2> QED
    BY <2>1, <2>2 DEF Reply
<1>2. CASE match = "NegativeFinal"
  <2>1. Reply("NRC", p)
    BY <1>2 DEF Judge, Concludes
  <2> QED
    BY <2>1 DEF Reply
<1>3. CASE match \notin {"Positive", "NegativeFinal"}
  BY <1>3 DEF Judge, Concludes
<1> QED
  BY <1>1, <1>2, <1>3

LEMMA ByteParts == \A b \in Byte : b = <<b[1], b[2], b[3]>>
  BY DEF Byte

LEMMA BodyIsBytes == \A p \in Seq(Byte \cup {Pad}) : IsBytes(p)
  BY DEF IsBytes

\* The first bytes of a payload that affirms the request's identifier.
LEMMA AffirmedHead ==
  ASSUME request \in Commands, EchoedBytes(request.sid) > 0,
         NEW p \in Seq(Byte \cup {Pad}), Affirms(p), NEW n,
         \A i \in 1..Len(p) : i <= 6 => Marked(p[i], n, i)
  PROVE  /\ Len(request.did) >= EchoedBytes(request.sid)
         /\ Len(p) >= EchoedBytes(request.sid) + 1
         /\ \A i \in 1..EchoedBytes(request.sid) :
               Value(p, i + 1) = request.did[i]
         /\ \A i \in 1..(EchoedBytes(request.sid) + 1) :
               p[i] = <<Positive(request)[i], p[1][2], i>>
<1> DEFINE few == EchoedBytes(request.sid)
<1>1. request.sid \in 0..255 /\ Len(request.did) \in Nat
  BY Commanded
<1>2. few \in {1, 2}
  BY <1>1, EchoedFew
<1>3. /\ Len(request.did) >= few /\ Len(p) >= few + 1
      /\ \A i \in 1..few : Value(p, i + 1) = request.did[i]
  BY DEF Affirms, EchoesIdentifier
<1>4. Len(p) \in Nat
  BY LenProperties
<1> HIDE DEF few
<1>5. ASSUME NEW i \in 1..(few + 1)
      PROVE  Marked(p[i], n, i)
  <2>1. i \in 1..Len(p) /\ i <= 6
    BY <1>2, <1>3, <1>4
  <2> QED
    BY <2>1
<1>6. ASSUME NEW i \in 1..(few + 1)
      PROVE  p[i][1] = Positive(request)[i]
  <2>1. CASE i = 1
    BY <2>1, PositiveBytes DEF Affirms, Value
  <2>2. CASE i # 1
    <3>1. i - 1 \in Nat /\ 1 <= i - 1 /\ i - 1 <= few /\ i - 1 + 1 = i
      BY <1>2, <2>2
    <3>2. few <= Len(request.did)
      BY <1>1, <1>2, <1>3
    <3>3. i - 1 <= Len(request.did)
      BY <1>1, <1>2, <3>1, <3>2
    <3>4. i - 1 \in 1..few /\ i - 1 \in 1..Len(request.did) /\ i - 1 + 1 = i
      BY <1>1, <1>2, <3>1, <3>3, Between
    <3>5. Value(p, i - 1 + 1) = request.did[i - 1]
      BY <1>3, <3>4
    <3>6. Positive(request)[i - 1 + 1] = request.did[i - 1]
      BY <3>4, PositiveBytes
    <3> QED
      BY <3>4, <3>5, <3>6 DEF Value
  <2> QED
    BY <2>1, <2>2
<1>7. ASSUME NEW i \in 1..(few + 1)
      PROVE  p[i] = <<Positive(request)[i], p[1][2], i>>
  <2>1. 1 \in 1..(few + 1)
    BY <1>2
  <2>2. p[i] \in Byte /\ p[i][2] = p[1][2] /\ p[i][3] = i
    BY <1>5, <2>1 DEF Marked
  <2> QED
    BY <1>6, <2>2, ByteParts
<1> QED
  BY <1>3, <1>7 DEF few

\* A single frame that affirms the identifier is the response to a request
\* for that identifier.
LEMMA AffirmedSingle ==
  ASSUME request \in Commands, EchoedBytes(request.sid) > 0,
         NEW n \in 1..MaxRequests, NEW f, IsSingle(f, n),
         NEW p \in Seq(Byte \cup {Pad}), Len(p) = f.n,
         \A i \in 1..f.n : p[i] = f.bytes[i], Affirms(p)
  PROVE  \E c \in Commands : /\ SameIdentifier(c)
                             /\ Len(p) = Len(Positive(c))
<1>1. PICK c \in Commands : \E values \in Responses(c) :
          /\ f.n = Len(values)
          /\ \A i \in 1..f.n : f.bytes[i][1] = values[i]
  BY DEF IsSingle
<1>2. PICK values \in Responses(c) :
         /\ f.n = Len(values)
         /\ \A i \in 1..f.n : f.bytes[i][1] = values[i]
  BY <1>1
<1>3. \A i \in 1..f.n : Marked(p[i], n, i) /\ Value(p, i) = values[i]
  BY <1>2 DEF IsSingle, Value
<1>4. /\ Len(request.did) >= EchoedBytes(request.sid)
      /\ Len(p) >= EchoedBytes(request.sid) + 1
      /\ \A i \in 1..EchoedBytes(request.sid) :
            Value(p, i + 1) = request.did[i]
  BY <1>3, AffirmedHead
<1>5. f.n \in Nat /\ f.n >= 1 /\ 1 \in 1..f.n
  BY DEF IsSingle
<1>6. values[1] = Echo(request.sid) /\ values[1] # Negative
  BY <1>3, <1>5 DEF Affirms
<1>7. values = Positive(c)
  BY <1>6 DEF Responses, Rejection
<1>8. c.sid = request.sid
  <2>1. Echo(c.sid) = Echo(request.sid)
    BY <1>6, <1>7, PositiveBytes
  <2>2. c.sid \in 0..255 /\ request.sid \in 0..255
    BY Commanded
  <2> QED
    BY <2>1, <2>2, EchoInjective
<1>9. Len(values) = 1 + Len(c.did) /\ Len(c.did) \in Nat
  BY <1>7, PositiveBytes, Commanded
<1> DEFINE few == EchoedBytes(request.sid)
<1>10. few \in {1, 2}
  BY EchoedFew, Commanded
<1> HIDE DEF few
<1>11. Len(c.did) >= few
  BY <1>2, <1>4, <1>9, <1>10 DEF few
<1>12. ASSUME NEW i \in 1..few PROVE c.did[i] = request.did[i]
  <2>1. i \in 1..Len(c.did) /\ i + 1 \in 1..f.n
    BY <1>2, <1>9, <1>10, <1>11
  <2>2. Value(p, i + 1) = values[i + 1]
    BY <1>3, <2>1
  <2>3. values[i + 1] = c.did[i]
    BY <1>7, <2>1, PositiveBytes
  <2> QED
    BY <1>4, <2>2, <2>3 DEF few
<1>13. SameIdentifier(c)
  BY <1>8, <1>11, <1>12 DEF SameIdentifier, few
<1> QED
  BY <1>2, <1>7, <1>13

-----------------------------------------------------------------------------
(* How the frames still to come change.                                    *)

LEMMA UpcomingIs ==
  ASSUME NEW e, NEW i, NEW f
  PROVE  f \in Upcoming(e, i) <=>
            \/ \E j \in DOMAIN rxQueue : FirstFrom(e, i, j) /\ f = rxQueue[j].frame
            \/ 1 \in DOMAIN output[e] /\ NoneFrom(e, i) /\ f = output[e][1]
  BY DEF Upcoming

LEMMA UpcomingIsNext ==
  ASSUME NEW e, NEW i, NEW f
  PROVE  f \in Upcoming(e, i)' <=>
            \/ \E j \in DOMAIN rxQueue' :
                  FirstFrom(e, i, j)' /\ f = rxQueue'[j].frame
            \/ 1 \in DOMAIN output'[e] /\ NoneFrom(e, i)' /\ f = output'[e][1]
  BY DEF Upcoming

\* A frame is read.
LEMMA UpcomingRead ==
  ASSUME NEW S, rxQueue \in Seq(S), rxQueue # <<>>, rxQueue' = Tail(rxQueue),
         output' = output, NEW e, NEW i \in Nat
  PROVE  /\ Upcoming(e, i)' \subseteq Upcoming(e, i + 1)
         /\ rxQueue[1].from # e /\ i = 0 => Upcoming(e, i)' \subseteq Upcoming(e, 0)
<1> DEFINE n == Len(rxQueue)
<1>1. /\ n \in Nat /\ n >= 1 /\ Len(rxQueue') = n - 1
      /\ \A j \in 1..(n - 1) : rxQueue'[j] = rxQueue[j + 1]
      /\ DOMAIN rxQueue = 1..n /\ DOMAIN rxQueue' = 1..(n - 1)
  BY QueueTail, LenProperties
<1> HIDE DEF n
<1>2. ASSUME NEW j \in 1..(n - 1), FirstFrom(e, i, j)'
      PROVE  /\ FirstFrom(e, i + 1, j + 1) /\ rxQueue'[j] = rxQueue[j + 1]
             /\ rxQueue[1].from # e /\ i = 0 => FirstFrom(e, 0, j + 1)
  <2>1. /\ j \in (i + 1)..(n - 1) /\ rxQueue'[j].from = e
        /\ \A l \in (i + 1)..(j - 1) : rxQueue'[l].from # e
    BY <1>1, <1>2 DEF FirstFrom
  <2>2. j + 1 \in (i + 1 + 1)..n /\ rxQueue[j + 1].from = e
    BY <1>1, <2>1
  <2>3. ASSUME NEW l \in (i + 1 + 1)..(j + 1 - 1) PROVE rxQueue[l].from # e
    <3>1. l - 1 \in (i + 1)..(j - 1) /\ l - 1 \in 1..(n - 1) /\ l - 1 + 1 = l
      BY <1>1, <2>1
    <3> QED
      BY <1>1, <2>1, <3>1
  <2>4. FirstFrom(e, i + 1, j + 1)
    BY <1>1, <2>2, <2>3 DEF FirstFrom, n
  <2>5. ASSUME rxQueue[1].from # e, i = 0 PROVE FirstFrom(e, 0, j + 1)
    <3>1. ASSUME NEW l \in (0 + 1)..(j + 1 - 1) PROVE rxQueue[l].from # e
      <4>1. l = 1 \/ l \in (i + 1 + 1)..(j + 1 - 1)
        BY <1>1, <2>5
      <4> QED
        BY <2>3, <2>5, <4>1
    <3>2. j + 1 \in (0 + 1)..n
      BY <1>1
    <3> QED
      BY <1>1, <2>2, <3>1, <3>2 DEF FirstFrom, n
  <2> QED
    BY <1>1, <2>4, <2>5
<1>3. ASSUME NoneFrom(e, i)'
      PROVE  /\ NoneFrom(e, i + 1)
             /\ rxQueue[1].from # e /\ i = 0 => NoneFrom(e, 0)
  <2>1. \A l \in (i + 1)..(n - 1) : rxQueue'[l].from # e
    BY <1>1, <1>3 DEF NoneFrom
  <2>2. ASSUME NEW l \in (i + 1 + 1)..n PROVE rxQueue[l].from # e
    <3>1. l - 1 \in (i + 1)..(n - 1) /\ l - 1 \in 1..(n - 1) /\ l - 1 + 1 = l
      BY <1>1
    <3> QED
      BY <1>1, <2>1, <3>1
  <2>3. ASSUME rxQueue[1].from # e, i = 0, NEW l \in (0 + 1)..n
        PROVE  rxQueue[l].from # e
    <3>1. l = 1 \/ l \in (i + 1 + 1)..n
      BY <1>1, <2>3
    <3> QED
      BY <2>2, <2>3, <3>1
  <2> QED
    BY <2>2, <2>3 DEF NoneFrom, n
<1>4. ASSUME NEW f \in Upcoming(e, i)'
      PROVE  /\ f \in Upcoming(e, i + 1)
             /\ rxQueue[1].from # e /\ i = 0 => f \in Upcoming(e, 0)
  <2>1. CASE \E j \in DOMAIN rxQueue' : FirstFrom(e, i, j)' /\ f = rxQueue'[j].frame
    <3>1. PICK j \in 1..(n - 1) : FirstFrom(e, i, j)' /\ f = rxQueue'[j].frame
      BY <1>1, <2>1
    <3>2. /\ FirstFrom(e, i + 1, j + 1) /\ f = rxQueue[j + 1].frame
          /\ rxQueue[1].from # e /\ i = 0 => FirstFrom(e, 0, j + 1)
      BY <1>2, <3>1
    <3>3. j + 1 \in DOMAIN rxQueue
      BY <1>1
    <3> QED
      BY <3>2, <3>3, UpcomingIs
  <2>2. CASE 1 \in DOMAIN output'[e] /\ NoneFrom(e, i)' /\ f = output'[e][1]
    BY <1>3, <2>2, UpcomingIs
  <2> QED
    BY <2>1, <2>2, UpcomingIsNext
<1> QED
  BY <1>4

\* An ECU gives up or begins a response; other ECUs are as they were.
LEMMA UpcomingChanged ==
  ASSUME rxQueue' = rxQueue, NEW e, NEW i,
         \/ output'[e] = output[e]
         \/ 1 \notin DOMAIN output'[e]
         \/ output'[e][1].pci # "CF",
         NEW f \in Upcoming(e, i)', f.pci = "CF"
  PROVE  f \in Upcoming(e, i)
<1>1. \A j : FirstFrom(e, i, j)' <=> FirstFrom(e, i, j)
  BY DEF FirstFrom
<1>2. NoneFrom(e, i)' <=> NoneFrom(e, i)
  BY DEF NoneFrom
<1> QED
  BY <1>1, <1>2, UpcomingIs, UpcomingIsNext

\* An ECU sends a frame and the receive queue takes it.
LEMMA UpcomingSent ==
  ASSUME NEW S, rxQueue \in Seq(S), NEW g \in S, rxQueue' = Append(rxQueue, g),
         NEW n \in Nat, n = Len(rxQueue), NEW e, NEW i \in 0..n,
         IF g.from = e
         THEN output[e] \in Seq(Frame) /\ output[e] # <<>> /\ g.frame = output[e][1]
         ELSE output'[e] = output[e]
  PROVE  Upcoming(e, i)' \subseteq Upcoming(e, i)
<1>1. /\ Len(rxQueue') = n + 1
      /\ \A j \in 1..n : rxQueue'[j] = rxQueue[j]
      /\ rxQueue'[n + 1] = g
      /\ DOMAIN rxQueue = 1..n /\ DOMAIN rxQueue' = 1..(n + 1)
  BY AppendProperties, LenProperties
<1>2. ASSUME NEW j \in 1..n, FirstFrom(e, i, j)'
      PROVE  FirstFrom(e, i, j) /\ rxQueue'[j] = rxQueue[j]
  <2>1. /\ j \in (i + 1)..(n + 1) /\ rxQueue'[j].from = e
        /\ \A l \in (i + 1)..(j - 1) : rxQueue'[l].from # e
    BY <1>1, <1>2 DEF FirstFrom
  <2>2. \A l \in (i + 1)..(j - 1) : l \in 1..n
    BY <1>1
  <2>3. j \in (i + 1)..n
    BY <1>1, <2>1
  <2> QED
    BY <1>1, <2>1, <2>2, <2>3 DEF FirstFrom
<1>3. ASSUME FirstFrom(e, i, n + 1)' \/ NoneFrom(e, i)'
      PROVE  NoneFrom(e, i)
  <2>1. \A l \in (i + 1)..n : rxQueue'[l].from # e
    <3>1. CASE FirstFrom(e, i, n + 1)'
      BY <3>1 DEF FirstFrom
    <3>2. CASE NoneFrom(e, i)'
      BY <1>1, <3>2 DEF NoneFrom
    <3> QED
      BY <1>3, <3>1, <3>2
  <2>2. \A l \in (i + 1)..n : l \in 1..n
    BY <1>1
  <2> QED
    BY <1>1, <2>1, <2>2 DEF NoneFrom
<1>4. ASSUME NoneFrom(e, i)' PROVE g.from # e
  <2>1. n + 1 \in (i + 1)..(n + 1)
    BY <1>1
  <2> QED
    BY <1>1, <1>4, <2>1 DEF NoneFrom
<1>5. ASSUME FirstFrom(e, i, n + 1)' PROVE g.from = e
  BY <1>1, <1>5 DEF FirstFrom
<1>6. ASSUME g.from = e PROVE 1 \in DOMAIN output[e] /\ g.frame = output[e][1]
  BY <1>6, LenProperties, EmptySeq
<1>7. ASSUME NEW f \in Upcoming(e, i)' PROVE f \in Upcoming(e, i)
  <2>1. CASE \E j \in DOMAIN rxQueue' : FirstFrom(e, i, j)' /\ f = rxQueue'[j].frame
    <3>1. PICK j \in 1..(n + 1) : FirstFrom(e, i, j)' /\ f = rxQueue'[j].frame
      BY <1>1, <2>1
    <3>2. CASE j \in 1..n
      BY <1>1, <1>2, <3>1, <3>2, UpcomingIs
    <3>3. CASE j = n + 1
      BY <1>1, <1>3, <1>5, <1>6, <3>1, <3>3, UpcomingIs
    <3> QED
      BY <1>1, <3>2, <3>3
  <2>2. CASE 1 \in DOMAIN output'[e] /\ NoneFrom(e, i)' /\ f = output'[e][1]
    BY <1>3, <1>4, <2>2, UpcomingIs
  <2> QED
    BY <2>1, <2>2, UpcomingIsNext
<1> QED
  BY <1>7

\* What comes after the frame just sent is the sender's next one.
LEMMA UpcomingBehind ==
  ASSUME NEW S, rxQueue \in Seq(S), NEW g \in S, rxQueue' = Append(rxQueue, g),
         NEW e, output[e] \in Seq(Frame), output[e] # <<>>,
         output'[e] = Tail(output[e]),
         NEW n \in Nat, n = Len(rxQueue),
         NEW f \in Upcoming(e, n + 1)'
  PROVE  Len(output[e]) >= 2 /\ f = output[e][2]
<1>1. Len(rxQueue') = n + 1 /\ DOMAIN rxQueue' = 1..(n + 1)
  BY AppendProperties, LenProperties
<1>2. \A j : ~FirstFrom(e, n + 1, j)'
  BY <1>1 DEF FirstFrom
<1>3. /\ Len(output[e]) \in Nat /\ Len(Tail(output[e])) = Len(output[e]) - 1
      /\ \A i \in 1..(Len(output[e]) - 1) : Tail(output[e])[i] = output[e][i + 1]
      /\ DOMAIN Tail(output[e]) = 1..(Len(output[e]) - 1)
  <2>1. Tail(output[e]) \in Seq(Frame)
    BY QueueTail
  <2> QED
    BY <2>1, QueueTail, LenProperties
<1>4. 1 \in DOMAIN output'[e] /\ f = output'[e][1]
  BY <1>2, UpcomingIsNext
<1> QED
  BY <1>3, <1>4

-----------------------------------------------------------------------------
(* Types are kept.                                                         *)

LEMMA ReplyTyped ==
  ASSUME SessionTyped, NEW text, NEW p, Reply(text, p),
         text \in {"?", "OK", "NoData", "CanError", "PAYLOAD", "NRC"},
         IsBytes(p), lastFrame' \in Ecus \cup {Nobody}
  PROVE  SessionTyped'
<1>1. /\ task' = "idle" /\ answer' = text /\ body' = p
      /\ reassembler' = Fresh /\ serial' = serial /\ request' = request
  BY DEF Reply
<1>2. Fresh \in Reassembler
  BY FreshTyped
<1>3. IsBytes(body')
  BY <1>1
<1>4. Busy'
  BY <1>1 DEF Busy
<1> QED
  BY <1>1, <1>2, <1>3, <1>4 DEF SessionTyped, IsBytes

LEMMA EmptyBytes == IsBytes(<<>>)
  BY EmptySeq DEF IsBytes

LEMMA JudgedTyped ==
  ASSUME SessionTyped, NEW p \in Seq(Byte \cup {Pad}), Judge(p),
         lastFrame' \in Ecus \cup {Nobody}
  PROVE  SessionTyped'
<1>1. CASE UNCHANGED <<task, answer, body>>
  BY <1>1, Judged, FreshTyped DEF SessionTyped, Busy, IsBytes
<1>2. CASE ~UNCHANGED <<task, answer, body>>
  <2>1. /\ task' = "idle" /\ body' = p /\ answer' \in {"NRC", "PAYLOAD"}
        /\ reassembler' = Fresh /\ UNCHANGED <<serial, request>>
    BY <1>2, Judged
  <2>2. Busy'
    BY <2>1 DEF Busy
  <2> QED
    BY <2>1, <2>2, FreshTyped DEF SessionTyped, IsBytes
<1> QED
  BY <1>1, <1>2

LEMMA SessionKept ==
  ASSUME Types, Collecting, AllGenuine, [Next]_vars
  PROVE  SessionTyped'
<1> USE TypesParts
<1>1. ASSUME NEW c \in Commands, Command(c) PROVE SessionTyped'
  <2>1. /\ task' = "drain" /\ serial' = serial + 1 /\ request' = c
        /\ answer' = "none" /\ body' = <<>> /\ serial < MaxRequests
        /\ UNCHANGED <<reassembler, lastFrame>>
    BY <1>1 DEF Command
  <2>2. IsBytes(body)'
    BY <2>1, EmptyBytes DEF IsBytes
  <2>3. Busy'
    BY <2>1 DEF Busy, SessionTyped
  <2> QED
    BY <2>1, <2>2, <2>3 DEF SessionTyped
<1>2. CASE Unparseable
  BY <1>2, ReplyTyped, EmptyBytes DEF Unparseable, SessionTyped
<1>3. CASE Drain \/ UNCHANGED session
  BY <1>3 DEF Drain, session, SessionTyped, Busy, IsBytes
<1>4. CASE Drained
  BY <1>4 DEF Drained, SessionTyped, Busy, IsBytes
<1>5. CASE Transmit
  <2>1. CASE request.responses
    BY <1>5, <2>1 DEF Transmit, SessionTyped, Busy, IsBytes
  <2>2. CASE ~request.responses
    BY <1>5, <2>2, ReplyTyped, EmptyBytes DEF Transmit, SessionTyped
  <2> QED
    BY <2>1, <2>2
<1>6. CASE TransmitFails
  BY <1>6, ReplyTyped, EmptyBytes DEF TransmitFails, SessionTyped
<1>7. CASE Receive
  <2> DEFINE rx == Head(rxQueue)
             f == rx.frame
  <2>1. /\ task = "wait" /\ rx \in FrameFrom
        /\ UNCHANGED <<serial, request, txQueue, work, output, held, clean, fault>>
        /\ \/ ~Accepted(rx.from) /\ UNCHANGED session
           \/ Accepted(rx.from) /\ lastFrame' = rx.from /\ Takes(f)
    BY <1>7, Received
  <2>2. /\ task = "wait" /\ rx \in FrameFrom
        /\ UNCHANGED <<serial, request>>
        /\ UNCHANGED session \/ (lastFrame' = rx.from /\ Takes(f))
    BY <2>1
  <2> HIDE DEF f, rx
  <2>3. CASE Takes(f) /\ lastFrame' = rx.from
    <3>1. lastFrame' \in Ecus \cup {Nobody}
      BY <2>2, <2>3 DEF FrameFrom
    <3>2. PICK n \in 1..MaxRequests :
             \/ TakesSingle(f, n) \/ TakesFirst(f, n)
             \/ \E k \in 1..LongReply : TakesStray(f, n, k) \/ TakesLast(f, n, k)
                                          \/ TakesMore(f, n, k)
      BY <2>3 DEF Takes
    <3>3. CASE TakesSingle(f, n)
      BY <3>1, <3>3, JudgedTyped DEF TakesSingle
    <3>4. CASE TakesFirst(f, n)
      BY <2>2, <3>1, <3>4 DEF TakesFirst, SessionTyped, Busy, IsBytes
    <3>5. ASSUME NEW k \in 1..LongReply, TakesStray(f, n, k) PROVE SessionTyped'
      BY <3>1, <3>5, ReplyTyped, EmptyBytes DEF TakesStray
    <3>6. ASSUME NEW k \in 1..LongReply, TakesLast(f, n, k) PROVE SessionTyped'
      BY <3>1, <3>6, JudgedTyped DEF TakesLast, Extends
    <3>7. ASSUME NEW k \in 1..LongReply, TakesMore(f, n, k) PROVE SessionTyped'
      BY <2>2, <3>1, <3>7 DEF TakesMore, SessionTyped, Busy, IsBytes
    <3> QED
      BY <3>2, <3>3, <3>4, <3>5, <3>6, <3>7
  <2> QED
    BY <1>3, <2>2, <2>3
<1>8. CASE SendFlowControl
  BY <1>8 DEF SendFlowControl, SessionTyped, Busy, IsBytes
<1>9. CASE FlowControlFails
  BY <1>9, ReplyTyped, EmptyBytes DEF FlowControlFails, SessionTyped
<1>10. CASE Timeout
  BY <1>10, ReplyTyped, EmptyBytes DEF Timeout, SessionTyped
<1>11. ASSUME NEW hearers, RequestSent(hearers) PROVE UNCHANGED session
  BY <1>11 DEF RequestSent
<1>12. ASSUME NEW e \in Ecus, EcuResponds(e) \/ EcuSends(e) \/ EcuGivesUp(e)
       PROVE  UNCHANGED session
  BY <1>12 DEF EcuResponds, EcuSends, EcuGivesUp
<1>13. ASSUME FlowControlSent \/ UNCHANGED vars PROVE UNCHANGED session
  BY <1>13 DEF FlowControlSent, vars
<1> QED
  BY <1>1, <1>2, <1>3, <1>4, <1>5, <1>6, <1>7, <1>8, <1>9, <1>10, <1>11,
     <1>12, <1>13 DEF Next, RunRequest, Client, Bus, Ecu

LEMMA TailTyped ==
  ASSUME NEW S, NEW q \in Seq(S), q # <<>>
  PROVE  Tail(q) \in Seq(S)
  BY QueueTail

LEMMA AppendTyped ==
  ASSUME NEW S, NEW q \in Seq(S), NEW x \in S
  PROVE  Append(q, x) \in Seq(S)
  BY AppendProperties

LEMMA QueuedTyped ==
  ASSUME Types, task # "idle", NEW kind \in {"request", "flow"}
  PROVE  Queued(kind) \in Seq(Queueable)
<1> DEFINE x == [kind |-> kind, serial |-> serial, command |-> request]
<1> USE TypesParts
<1>1. serial \in 1..MaxRequests /\ request \in Commands
  BY DEF SessionTyped, Busy
<1>2. x \in Queueable
  BY <1>1 DEF Queueable
<1>3. Queued(kind) = Append(txQueue, x)
  BY DEF Queued
<1> HIDE DEF x
<1> QED
  BY <1>2, <1>3, AppendTyped DEF QueuesTyped

LEMMA QueuesKept ==
  ASSUME Types, [Next]_vars
  PROVE  QueuesTyped'
<1> USE TypesParts DEF QueuesTyped
<1> DEFINE rxSame == UNCHANGED rxQueue
           txSame == UNCHANGED txQueue
<1>1. CASE Drain \/ Receive
  <2>1. rxQueue # <<>> /\ rxQueue' = Tail(rxQueue) /\ txQueue' = txQueue
    BY <1>1 DEF Drain, Receive
  <2> QED
    BY <2>1, TailTyped
<1>2. CASE Transmit \/ SendFlowControl
  <2>1. /\ task # "idle" /\ rxQueue' = rxQueue
        /\ \E kind \in {"request", "flow"} : txQueue' = Queued(kind)
    BY <1>2 DEF Transmit, SendFlowControl
  <2> QED
    BY <2>1, QueuedTyped
<1>3. CASE TransmitFails \/ FlowControlFails
  <2>1. rxQueue' = rxQueue /\ txQueue' \in {txQueue, <<>>}
    BY <1>3 DEF TransmitFails, FlowControlFails, TransmitLost
  <2>2. <<>> \in Seq(Queueable)
    BY EmptySeq
  <2>3. CASE txQueue' = txQueue
    BY <2>1, <2>3
  <2>4. CASE txQueue' = <<>>
    <3>1. txQueue' \in Seq(Queueable)
      BY <2>2, <2>4
    <3> QED
      BY <2>1, <3>1
  <2> QED
    BY <2>1, <2>3, <2>4
<1>4. CASE FlowControlSent \/ \E hearers \in SUBSET Ecus : RequestSent(hearers)
  <2>1. rxQueue' = rxQueue /\ txQueue # <<>> /\ txQueue' = Tail(txQueue)
    BY <1>4 DEF FlowControlSent, RequestSent
  <2> QED
    BY <2>1, TailTyped
<1>5. ASSUME NEW e \in Ecus, EcuSends(e) PROVE QueuesTyped'
  <2> DEFINE x == [from |-> e, frame |-> Head(output[e])]
  <2>1. x \in FrameFrom
    <3>1. Head(output[e]) \in Frame
      BY <1>5, QueueTail DEF EcuSends, EcusTyped
    <3> QED
      BY <3>1 DEF FrameFrom
  <2>2. /\ txQueue' = txQueue
        /\ rxQueue' = rxQueue \/ rxQueue' = Append(rxQueue, x)
    BY <1>5 DEF EcuSends, Arrive
  <2> HIDE DEF x
  <2> QED
    BY <2>1, <2>2, AppendTyped
<1>6. CASE UNCHANGED <<rxQueue, txQueue>>
  BY <1>6
<1>7. CASE Client \/ Drained \/ Timeout \/ UNCHANGED vars
  BY <1>6, <1>7 DEF Client, Unparseable, Command, Drained, Timeout, vars
<1>8. ASSUME NEW e \in Ecus, EcuResponds(e) \/ EcuGivesUp(e) PROVE QueuesTyped'
  BY <1>6, <1>8 DEF EcuResponds, EcuGivesUp
<1> QED
  BY <1>1, <1>2, <1>3, <1>4, <1>5, <1>7, <1>8 DEF Next, RunRequest, Bus, Ecu

\* What an ECU at work may answer.
LEMMA Responded ==
  ASSUME Types, NEW e \in Ecus, EcuResponds(e)
  PROVE  /\ work[e] \in Work /\ output[e] = <<>>
         /\ work' = [work EXCEPT ![e] = work'[e]]
         /\ work'[e] = None \/ (work'[e] \in Work /\ work'[e].serial = work[e].serial)
         /\ \/ output' = output
            \/ \E c \in Commands : \E values \in Responses(c) \cup {Long(c)} :
                  output' = [output EXCEPT ![e] =
                                Segment(Bytes(values, work[e].serial), FALSE)]
<1> USE TypesParts
<1> DEFINE n == work[e].serial
           c == work[e].command
<1>1. /\ work[e] # None /\ output[e] = <<>>
      /\ \/ \E values \in {Positive(c), Long(c), Rejection(c, 49)} :
               /\ output' = [output EXCEPT ![e] = Segment(Bytes(values, n), FALSE)]
               /\ work' = [work EXCEPT ![e] = None]
         \/ /\ output' = [output EXCEPT ![e] =
                             Segment(Bytes(Rejection(c, Pending), n), FALSE)]
            /\ work' = [work EXCEPT ![e].pended = TRUE]
         \/ /\ work' = [work EXCEPT ![e] = None]
            /\ UNCHANGED output
  BY DEF EcuResponds
<1>2. work[e] \in Work /\ c \in Commands
  BY <1>1 DEF EcusTyped, Work
<1> DEFINE w == [work[e] EXCEPT !.pended = TRUE]
<1>3. w \in Work /\ w.serial = n
  BY <1>2 DEF Work
<1>4. work' = [work EXCEPT ![e] = None] \/ work' = [work EXCEPT ![e] = w]
  BY <1>1
<1>5. /\ work' = [work EXCEPT ![e] = work'[e]]
      /\ work'[e] = None \/ work'[e] = w
  <2> HIDE DEF w
  <2> QED
    BY <1>4 DEF EcusTyped
<1> HIDE DEF n, c, w
<1>6. \/ output' = output
      \/ \E values \in Responses(c) \cup {Long(c)} :
            output' = [output EXCEPT ![e] = Segment(Bytes(values, n), FALSE)]
  BY <1>1 DEF Responses
<1> QED
  BY <1>1, <1>2, <1>3, <1>5, <1>6 DEF n

LEMMA EcusKept ==
  ASSUME Types, [Next]_vars
  PROVE  EcusTyped'
<1> USE TypesParts DEF EcusTyped
<1>1. ASSUME NEW hearers \in SUBSET Ecus, RequestSent(hearers) PROVE EcusTyped'
  <2> DEFINE w == [serial |-> Head(txQueue).serial,
                   command |-> Head(txQueue).command, pended |-> FALSE]
  <2>1. w \in Work
    <3>1. Head(txQueue) \in Queueable
      BY <1>1, QueueTail DEF RequestSent, QueuesTyped
    <3> QED
      BY <3>1 DEF Queueable, Work
  <2>2. /\ work' = [e \in Ecus |-> IF e \in hearers THEN w ELSE work[e]]
        /\ output' = [e \in Ecus |-> IF e \in hearers THEN <<>> ELSE output[e]]
        /\ held' = [e \in Ecus |-> e \notin hearers /\ held[e]]
    BY <1>1 DEF RequestSent
  <2> HIDE DEF w
  <2>3. work' \in [Ecus -> {None} \cup Work]
    BY <2>1, <2>2
  <2>4. output' \in [Ecus -> Seq(Frame)]
    BY <2>2, EmptySeq
  <2>5. held' \in [Ecus -> BOOLEAN]
    BY <2>2
  <2> QED
    BY <2>3, <2>4, <2>5
<1>2. CASE FlowControlSent
  BY <1>2 DEF FlowControlSent
<1>3. ASSUME NEW e \in Ecus, EcuResponds(e) PROVE EcusTyped'
  <2>1. held' = held
    BY <1>3 DEF EcuResponds
  <2>2. /\ work' = [work EXCEPT ![e] = work'[e]]
        /\ work'[e] = None \/ work'[e] \in Work
    BY <1>3, Responded
  <2>3. work' \in [Ecus -> {None} \cup Work]
    BY <2>2
  <2>4. work[e] \in Work
    BY <1>3, Responded
  <2>5. ASSUME NEW c \in Commands, NEW values \in Responses(c) \cup {Long(c)}
        PROVE  Segment(Bytes(values, work[e].serial), FALSE) \in Seq(Frame)
    BY <2>4, ResponseFrames DEF Work
  <2>6. output' \in [Ecus -> Seq(Frame)]
    <3>1. CASE output' = output
      BY <3>1
    <3>2. CASE output' # output
      <4>1. PICK c \in Commands : \E values \in Responses(c) \cup {Long(c)} :
               output' = [output EXCEPT ![e] =
                             Segment(Bytes(values, work[e].serial), FALSE)]
        BY <1>3, <3>2, Responded
      <4>2. PICK values \in Responses(c) \cup {Long(c)} :
               output' = [output EXCEPT ![e] =
                             Segment(Bytes(values, work[e].serial), FALSE)]
        BY <4>1
      <4>3. Segment(Bytes(values, work[e].serial), FALSE) \in Seq(Frame)
        BY <2>5
      <4> QED
        BY <4>2, <4>3
    <3> QED
      BY <3>1, <3>2
  <2> QED
    BY <2>1, <2>3, <2>6
<1>4. ASSUME NEW e \in Ecus, EcuSends(e) PROVE EcusTyped'
  <2>1. Tail(output[e]) \in Seq(Frame)
    BY <1>4, QueueTail DEF EcuSends
  <2>2. /\ work' = work /\ output' = [output EXCEPT ![e] = Tail(output[e])]
        /\ held' = [held EXCEPT ![e] = Head(output[e]).pci = "FF"]
    BY <1>4 DEF EcuSends
  <2>3. output' \in [Ecus -> Seq(Frame)]
    BY <2>1, <2>2
  <2>4. held' \in [Ecus -> BOOLEAN]
    BY <2>2
  <2> QED
    BY <2>2, <2>3, <2>4
<1>5. ASSUME NEW e \in Ecus, EcuGivesUp(e) PROVE EcusTyped'
  BY <1>5, EmptySeq DEF EcuGivesUp
<1>6. CASE UNCHANGED ecus
  BY <1>6 DEF ecus
<1>7. CASE RunRequest \/ Client \/ UNCHANGED vars
  BY <1>6, <1>7
     DEF RunRequest, Client, vars, Drain, Drained, Transmit, TransmitFails,
         Receive, SendFlowControl, FlowControlFails, Timeout, Unparseable,
         Command
<1> QED
  BY <1>1, <1>2, <1>3, <1>4, <1>5, <1>7 DEF Next, Bus, Ecu

LEMMA FlagsKept ==
  ASSUME Types, [Next]_vars
  PROVE  {clean, fault}' \subseteq BOOLEAN
<1>1. clean \in BOOLEAN /\ fault \in BOOLEAN
  BY TypesParts
<1>2. clean' \in BOOLEAN
  BY <1>1
     DEF Next, RunRequest, Client, Bus, Ecu, vars, Drain, Drained, Transmit,
         TransmitFails, Receive, SendFlowControl, FlowControlFails, Timeout,
         Unparseable, Command, QuietBus, RequestSent, FlowControlSent,
         EcuResponds, EcuSends, EcuGivesUp
<1>3. fault' \in BOOLEAN
  BY <1>1
     DEF Next, RunRequest, Client, Bus, Ecu, vars, Drain, Drained, Transmit,
         TransmitFails, TransmitLost, Receive, SendFlowControl,
         FlowControlFails, Timeout, Unparseable, Command, RequestSent,
         FlowControlSent, EcuResponds, EcuSends, Arrive, EcuGivesUp
<1> QED
  BY <1>2, <1>3

LEMMA TypesKept ==
  ASSUME Types, Collecting, AllGenuine, [Next]_vars
  PROVE  Types'
<1>1. SessionTyped' /\ QueuesTyped' /\ EcusTyped' /\ {clean, fault}' \subseteq BOOLEAN
  BY SessionKept, QueuesKept, EcusKept, FlagsKept
<1>2. (SessionTyped /\ QueuesTyped /\ EcusTyped /\ {clean, fault} \subseteq BOOLEAN
         => Types)'
  BY TypesParts, PTL
<1> QED
  BY <1>1, <1>2

-----------------------------------------------------------------------------
(* The frames on their way stay genuine and in order.                      *)

\* How a step may move frames.
Reads    == /\ Drain \/ Receive
            /\ rxQueue # <<>> /\ rxQueue' = Tail(rxQueue) /\ output' = output
Sends    == \E e \in Ecus : EcuSends(e)
Responds == \E e \in Ecus : EcuResponds(e)
Empties  == rxQueue' = rxQueue /\ \A e \in Ecus : output'[e] \in {output[e], <<>>}

LEMMA Moves ==
  ASSUME Types, [Next]_vars
  PROVE  Reads \/ Sends \/ Responds \/ Empties
<1> USE TypesParts
<1>1. CASE Drain \/ Receive
  BY <1>1 DEF Drain, Receive, Reads, ecus
<1>2. CASE UNCHANGED <<rxQueue, output>>
  BY <1>2 DEF Empties
<1>3. ASSUME NEW hearers \in SUBSET Ecus, RequestSent(hearers) PROVE Empties
  BY <1>3 DEF RequestSent, Empties
<1>4. ASSUME NEW e \in Ecus, EcuGivesUp(e) PROVE Empties
  BY <1>4 DEF EcuGivesUp, Empties, EcusTyped
<1>5. CASE FlowControlSent \/ Client \/ UNCHANGED vars
  BY <1>2, <1>5 DEF FlowControlSent, Client, Unparseable, Command, vars, ecus
<1>6. CASE \/ Drained \/ Transmit \/ TransmitFails \/ SendFlowControl
           \/ FlowControlFails \/ Timeout
  BY <1>2, <1>6
     DEF Drained, Transmit, TransmitFails, SendFlowControl, FlowControlFails,
         Timeout, ecus
<1> QED
  BY <1>1, <1>3, <1>4, <1>5, <1>6
     DEF Next, RunRequest, Bus, Ecu, Sends, Responds

\* What e sends is the head of its output.
LEMMA Sent ==
  ASSUME Types, NEW e \in Ecus, EcuSends(e)
  PROVE  /\ output[e] \in Seq(Frame) /\ output[e] # <<>>
         /\ output[e][1] \in Frame
         /\ output' = [output EXCEPT ![e] = Tail(output[e])]
         /\ \/ rxQueue' = rxQueue /\ fault'
            \/ /\ rxQueue' = Append(rxQueue, [from |-> e, frame |-> output[e][1]])
               /\ fault' = fault
         /\ UNCHANGED <<session, txQueue, work, clean>>
<1>1. output[e] \in Seq(Frame)
  BY TypesParts DEF EcusTyped
<1>2. output[e] # <<>>
  BY DEF EcuSends
<1>3. Head(output[e]) = output[e][1] /\ output[e][1] \in Frame
  BY <1>1, <1>2, QueueTail
<1> QED
  BY <1>1, <1>2, <1>3 DEF EcuSends, Arrive

LEMMA FramesKept ==
  ASSUME Types, AllGenuine, Chained, [Next]_vars
  PROVE  AllGenuine' /\ Chained'
<1> DEFINE RxGenuine == \A i \in DOMAIN rxQueue : Genuine(rxQueue[i].frame)
           OutGenuine(e) == \A i \in DOMAIN output[e] : Genuine(output[e][i])
           OutChained(e) == \A i \in 2..Len(output[e]) :
                               Follows(output[e][i - 1], output[e][i])
<1>1. /\ rxQueue \in Seq(FrameFrom) /\ output \in [Ecus -> Seq(Frame)]
      /\ work \in [Ecus -> {None} \cup Work]
  BY TypesParts DEF QueuesTyped, EcusTyped
<1>2. RxGenuine /\ \A e \in Ecus : OutGenuine(e) /\ OutChained(e)
  BY DEF AllGenuine, Chained
<1>3. ASSUME NEW e \in Ecus, output'[e] = output[e]
      PROVE  OutGenuine(e)' /\ OutChained(e)'
  BY <1>2, <1>3
<1>4. SUFFICES RxGenuine' /\ \A e \in Ecus : OutGenuine(e)' /\ OutChained(e)'
  BY DEF AllGenuine, Chained
<1>5. ASSUME NEW e \in Ecus, output'[e] = <<>>
      PROVE  OutGenuine(e)' /\ OutChained(e)'
  <2>1. Len(output'[e]) = 0 /\ DOMAIN output'[e] = {}
    BY <1>5, EmptySeq
  <2> QED
    BY <2>1
<1>6. CASE Reads
  <2>1. /\ Len(rxQueue) \in Nat /\ DOMAIN rxQueue = 1..Len(rxQueue)
        /\ DOMAIN rxQueue' = 1..(Len(rxQueue) - 1)
        /\ \A i \in 1..(Len(rxQueue) - 1) : rxQueue'[i] = rxQueue[i + 1]
    BY <1>1, <1>6, QueueTail, LenProperties DEF Reads
  <2>2. RxGenuine'
    BY <1>2, <2>1
  <2> QED
    BY <1>3, <1>6, <2>2 DEF Reads
<1>7. ASSUME NEW s \in Ecus, EcuSends(s)
      PROVE  RxGenuine' /\ \A e \in Ecus : OutGenuine(e)' /\ OutChained(e)'
  <2> DEFINE g == [from |-> s, frame |-> output[s][1]]
  <2>1. /\ output[s] \in Seq(Frame) /\ output[s] # <<>> /\ output[s][1] \in Frame
        /\ output' = [output EXCEPT ![s] = Tail(output[s])]
        /\ rxQueue' = rxQueue \/ rxQueue' = Append(rxQueue, g)
    BY <1>7, Sent
  <2>2. /\ Len(output[s]) \in Nat /\ Len(output[s]) >= 1
        /\ DOMAIN output[s] = 1..Len(output[s])
        /\ Len(output'[s]) = Len(output[s]) - 1
        /\ DOMAIN output'[s] = 1..(Len(output[s]) - 1)
        /\ \A i \in 1..(Len(output[s]) - 1) : output'[s][i] = output[s][i + 1]
    <3>1. output'[s] = Tail(output[s])
      BY <1>1, <2>1
    <3> QED
      BY <2>1, <3>1, QueueTail, LenProperties
  <2>3. Genuine(g.frame) /\ g \in FrameFrom
    BY <1>2, <2>1, <2>2 DEF FrameFrom
  <2> HIDE DEF g
  <2>4. RxGenuine'
    <3>1. CASE rxQueue' = rxQueue
      BY <1>2, <3>1
    <3>2. CASE rxQueue' = Append(rxQueue, g)
      <4>1. /\ DOMAIN rxQueue = 1..Len(rxQueue) /\ Len(rxQueue) \in Nat
            /\ DOMAIN rxQueue' = 1..(Len(rxQueue) + 1)
            /\ \A i \in 1..Len(rxQueue) : rxQueue'[i] = rxQueue[i]
            /\ rxQueue'[Len(rxQueue) + 1] = g
        BY <1>1, <2>3, <3>2, AppendProperties, LenProperties
      <4> QED
        BY <1>2, <2>3, <4>1
    <3> QED
      BY <2>1, <3>1, <3>2
  <2>5. OutGenuine(s)'
    BY <1>2, <2>2
  <2>6. OutChained(s)'
    <3>1. ASSUME NEW i \in 2..(Len(output[s]) - 1)
          PROVE  Follows(output'[s][i - 1], output'[s][i])
      <4>1. i + 1 \in 2..Len(output[s]) /\ i + 1 - 1 = i /\ i - 1 + 1 = i
            /\ i - 1 \in 1..(Len(output[s]) - 1) /\ i \in 1..(Len(output[s]) - 1)
        BY <2>2
      <4>2. output'[s][i - 1] = output[s][i] /\ output'[s][i] = output[s][i + 1]
        BY <2>2, <4>1
      <4>3. Follows(output[s][i + 1 - 1], output[s][i + 1])
        BY <1>2, <4>1
      <4> QED
        BY <4>1, <4>2, <4>3
    <3> QED
      BY <2>2, <3>1
  <2>7. \A e \in Ecus : e # s => output'[e] = output[e]
    BY <1>1, <2>1
  <2> QED
    BY <1>3, <2>4, <2>5, <2>6, <2>7
<1>8. ASSUME NEW s \in Ecus, EcuResponds(s)
      PROVE  RxGenuine' /\ \A e \in Ecus : OutGenuine(e)' /\ OutChained(e)'
  <2>1. rxQueue' = rxQueue
    BY <1>8 DEF EcuResponds
  <2>2. RxGenuine'
    BY <1>2, <2>1
  <2>3. CASE output' = output
    BY <1>3, <2>2, <2>3
  <2>4. CASE output' # output
    <3>1. PICK c \in Commands : \E values \in Responses(c) \cup {Long(c)} :
             output' = [output EXCEPT ![s] =
                           Segment(Bytes(values, work[s].serial), FALSE)]
      BY <1>8, <2>4, Responded
    <3>2. PICK values \in Responses(c) \cup {Long(c)} :
             output' = [output EXCEPT ![s] =
                           Segment(Bytes(values, work[s].serial), FALSE)]
      BY <3>1
    <3> DEFINE q == Segment(Bytes(values, work[s].serial), FALSE)
    <3>3. work[s].serial \in 1..MaxRequests
      BY <1>8, Responded DEF Work
    <3>4. /\ q \in Seq(Frame)
          /\ \A i \in 1..Len(q) : Genuine(q[i])
          /\ \A i \in 2..Len(q) : Follows(q[i - 1], q[i])
      BY <3>3, ResponseFrames
    <3> HIDE DEF q
    <3>5. output'[s] = q /\ \A e \in Ecus : e # s => output'[e] = output[e]
      BY <1>1, <3>2 DEF q
    <3>6. DOMAIN q = 1..Len(q)
      BY <3>4, LenProperties
    <3>7. OutGenuine(s)' /\ OutChained(s)'
      BY <3>4, <3>5, <3>6
    <3> QED
      BY <1>3, <2>2, <3>5, <3>7
  <2> QED
    BY <2>3, <2>4
<1>9. CASE Empties
  <2>1. RxGenuine'
    BY <1>2, <1>9 DEF Empties
  <2> QED
    BY <1>3, <1>5, <1>9, <2>1 DEF Empties
<1> QED
  BY <1>6, <1>7, <1>8, <1>9, Moves DEF Sends, Responds

\* A response begins with a single or a first frame.
LEMMA Begins ==
  ASSUME Types, NEW s \in Ecus, EcuResponds(s), NEW e \in Ecus
  PROVE  /\ rxQueue' = rxQueue
         /\ \/ output'[e] = output[e]
            \/ /\ e = s /\ work[e] \in Work
               /\ output'[e][1].pci # "CF"
               /\ \A i \in DOMAIN output'[e] :
                     SerialOf(output'[e][i]) = work[e].serial
<1>1. rxQueue' = rxQueue
  BY DEF EcuResponds
<1>2. CASE output' = output
  BY <1>1, <1>2
<1>3. CASE output' # output
  <2>1. PICK c \in Commands : \E values \in Responses(c) \cup {Long(c)} :
           output' = [output EXCEPT ![s] =
                         Segment(Bytes(values, work[s].serial), FALSE)]
    BY <1>3, Responded
  <2>2. PICK values \in Responses(c) \cup {Long(c)} :
           output' = [output EXCEPT ![s] =
                         Segment(Bytes(values, work[s].serial), FALSE)]
    BY <2>1
  <2> DEFINE q == Segment(Bytes(values, work[s].serial), FALSE)
  <2>3. work[s] \in Work /\ work[s].serial \in 1..MaxRequests
    BY Responded DEF Work
  <2>4. /\ q \in Seq(Frame) /\ q[1].pci # "CF"
        /\ \A i \in 1..Len(q) : SerialOf(q[i]) = work[s].serial
    BY <2>3, ResponseFrames
  <2> HIDE DEF q
  <2>5. output \in [Ecus -> Seq(Frame)]
    BY TypesParts DEF EcusTyped
  <2>6. output'[e] = IF e = s THEN q ELSE output[e]
    BY <2>2, <2>5 DEF q
  <2>7. DOMAIN q = 1..Len(q)
    BY <2>4, LenProperties
  <2> QED
    BY <1>1, <2>3, <2>4, <2>6, <2>7
<1> QED
  BY <1>2, <1>3

-----------------------------------------------------------------------------
(* What the receive loop will see stays in order.                          *)

Loop == {"send", "wait", "flow"}

\* The loop is entered by Drained only, and a fault is forgotten by the next
\* command only.
LEMMA LoopEntered ==
  ASSUME Types, Collecting, AllGenuine, [Next]_vars, task' \in Loop, ~fault'
  PROVE  /\ fault = FALSE /\ ~TransmitLost
         /\ UNCHANGED <<clean, serial, request>>
         /\ Drained \/ (task \in Loop /\ ~Drain)
<1> USE DEF Loop
<1>1. fault \in BOOLEAN
  BY TypesParts
<1>2. ~Client
  BY DEF Client, Unparseable, Command, Reply
<1>3. ~TransmitFails /\ ~FlowControlFails /\ ~Timeout /\ ~TransmitLost
  BY DEF TransmitFails, FlowControlFails, Timeout, Reply, TransmitLost
<1>4. CASE Drain \/ Drained \/ Transmit \/ SendFlowControl
  BY <1>1, <1>3, <1>4
     DEF Drain, Drained, Transmit, SendFlowControl, session, Reply
<1>5. CASE Receive
  <2>1. task = "wait" /\ UNCHANGED <<fault, clean>>
    BY <1>5 DEF Receive
  <2>2. UNCHANGED <<serial, request>>
    BY <1>5, Received
  <2>3. ~Drain
    BY <2>1 DEF Drain
  <2> QED
    BY <1>1, <1>3, <2>1, <2>2, <2>3
<1>6. ASSUME UNCHANGED session, UNCHANGED clean, (fault' \/ fault' = fault), ~Drain
      PROVE  /\ fault = FALSE
             /\ UNCHANGED <<clean, serial, request>> /\ task \in Loop
  BY <1>1, <1>6 DEF session
<1>7. CASE Bus \/ Ecu \/ UNCHANGED vars
  <2>1. UNCHANGED session /\ UNCHANGED clean /\ (fault' \/ fault' = fault)
    BY <1>7
       DEF Bus, Ecu, FlowControlSent, RequestSent, EcuResponds, EcuSends,
           Arrive, EcuGivesUp, vars
  <2>2. task \in Loop
    BY <2>1 DEF session
  <2>3. ~Drain
    BY <2>2 DEF Drain
  <2> QED
    BY <1>3, <1>6, <2>1, <2>3
<1> QED
  BY <1>2, <1>3, <1>4, <1>5, <1>7 DEF Next, RunRequest

LEMMA InOrderKept ==
  ASSUME Types, Collecting, AllGenuine, Chained, InOrder, [Next]_vars
  PROVE  InOrder'
<1>1. SUFFICES ASSUME task' \in Loop, ~fault', NEW e \in Ecus,
                      NEW i \in DOMAIN rxQueue', rxQueue'[i].from = e,
                      NEW f \in Upcoming(e, i)'
               PROVE  Follows(rxQueue'[i].frame, f)
  BY DEF InOrder, Loop
<1>2. SUFFICES ASSUME f.pci = "CF" PROVE Follows(rxQueue'[i].frame, f)
  BY DEF Follows
<1>3. /\ rxQueue \in Seq(FrameFrom) /\ output \in [Ecus -> Seq(Frame)]
      /\ work \in [Ecus -> {None} \cup Work]
      /\ Len(rxQueue) \in Nat /\ DOMAIN rxQueue = 1..Len(rxQueue)
  BY TypesParts, LenProperties DEF QueuesTyped, EcusTyped
<1>4. ~Drained
  <2>1. Drained => rxQueue' = <<>>
    BY DEF Drained, DrainedDry
  <2>2. rxQueue' # <<>>
    BY <1>1, EmptySeq
  <2> QED
    BY <2>1, <2>2
<1>5. task \in Loop /\ ~fault
  BY <1>1, <1>4, LoopEntered
<1>6. ASSUME NEW j \in DOMAIN rxQueue, rxQueue[j].from = e,
             f \in Upcoming(e, j)
      PROVE  Follows(rxQueue[j].frame, f)
  BY <1>5, <1>6 DEF InOrder, Loop
<1>7. CASE Reads
  <2>1. /\ DOMAIN rxQueue' = 1..(Len(rxQueue) - 1)
        /\ \A j \in 1..(Len(rxQueue) - 1) : rxQueue'[j] = rxQueue[j + 1]
    BY <1>3, <1>7, QueueTail, LenProperties DEF Reads
  <2>2. i \in Nat /\ i + 1 \in DOMAIN rxQueue /\ rxQueue'[i] = rxQueue[i + 1]
    BY <1>1, <1>3, <2>1
  <2>3. f \in Upcoming(e, i + 1)
    BY <1>1, <1>3, <1>7, <2>2, UpcomingRead DEF Reads
  <2> QED
    BY <1>1, <1>6, <2>2, <2>3
<1>8. ASSUME NEW s \in Ecus, EcuSends(s) PROVE Follows(rxQueue'[i].frame, f)
  <2> DEFINE g == [from |-> s, frame |-> output[s][1]]
  <2>1. /\ output[s] \in Seq(Frame) /\ output[s] # <<>> /\ output[s][1] \in Frame
        /\ output' = [output EXCEPT ![s] = Tail(output[s])]
        /\ rxQueue' = Append(rxQueue, g)
    BY <1>1, <1>8, Sent
  <2>2. g \in FrameFrom /\ g.from = s /\ g.frame = output[s][1]
    BY <2>1 DEF FrameFrom
  <2> HIDE DEF g
  <2>3. /\ DOMAIN rxQueue' = 1..(Len(rxQueue) + 1)
        /\ \A j \in 1..Len(rxQueue) : rxQueue'[j] = rxQueue[j]
        /\ rxQueue'[Len(rxQueue) + 1] = g
    BY <1>3, <2>1, <2>2, AppendProperties, LenProperties
  <2>4. CASE i \in 1..Len(rxQueue)
    <3>1. IF g.from = e
          THEN output[e] \in Seq(Frame) /\ output[e] # <<>> /\ g.frame = output[e][1]
          ELSE output'[e] = output[e]
      BY <1>3, <2>1, <2>2
    <3>2. f \in Upcoming(e, i)
      <4>1. i \in 0..Len(rxQueue)
        BY <2>4
      <4> QED
        BY <1>1, <1>3, <2>1, <2>2, <3>1, <4>1, UpcomingSent
    <3>3. i \in DOMAIN rxQueue /\ rxQueue'[i] = rxQueue[i]
      BY <1>3, <2>3, <2>4
    <3>4. rxQueue[i].from = e
      BY <1>1, <3>3
    <3>5. Follows(rxQueue[i].frame, f)
      BY <1>6, <3>2, <3>3, <3>4
    <3> QED
      BY <3>3, <3>5
  <2>5. ASSUME NEW n \in Nat, n = Len(rxQueue), i = n + 1
        PROVE  Follows(rxQueue'[i].frame, f)
    <3>1. rxQueue'[i] = g /\ e = s
      BY <1>1, <2>2, <2>3, <2>5
    <3>2. output'[e] = Tail(output[e])
      BY <1>3, <2>1, <3>1
    <3>3. f \in Upcoming(e, n + 1)'
      BY <1>1, <2>5
    <3>4. Len(output[e]) >= 2 /\ f = output[e][2]
      BY <1>3, <2>1, <2>2, <2>5, <3>1, <3>2, <3>3, UpcomingBehind
    <3>5. Follows(output[e][2 - 1], output[e][2])
      BY <1>3, <3>4, LenProperties DEF Chained
    <3> QED
      BY <2>2, <3>1, <3>4, <3>5
  <2>6. i \in 1..Len(rxQueue) \/ i = Len(rxQueue) + 1
    BY <1>1, <1>3, <2>3
  <2> QED
    BY <1>3, <2>4, <2>5, <2>6
<1>9. ASSUME \/ output'[e] = output[e]
             \/ 1 \notin DOMAIN output'[e]
             \/ output'[e][1].pci # "CF",
             rxQueue' = rxQueue
      PROVE  Follows(rxQueue'[i].frame, f)
  BY <1>1, <1>2, <1>6, <1>9, UpcomingChanged
<1>10. CASE Empties
  BY <1>9, <1>10, EmptySeq DEF Empties
<1>11. ASSUME NEW s \in Ecus, EcuResponds(s) PROVE Follows(rxQueue'[i].frame, f)
  BY <1>9, <1>11, Begins
<1> QED
  BY <1>7, <1>8, <1>10, <1>11, Moves DEF Sends, Responds

-----------------------------------------------------------------------------
(* What has been collected.                                                *)

LEMMA FirstMarks ==
  ASSUME NEW f, NEW n, NEW p,
         \A i \in 1..6 : Marked(f.bytes[i], n, i) /\ p[i] = f.bytes[i]
  PROVE  Begun(p) /\ p[1][2] = n
<1>1. \A i \in 1..6 : Marked(p[i], n, i)
  BY DEF Marked
<1>2. p[1][2] = n
  BY <1>1 DEF Marked
<1> QED
  BY <1>1, <1>2 DEF Begun

\* After a consecutive frame in turn that does not complete the response
\* there are seven more bytes, and room for others.
LEMMA Grown ==
  ASSUME reassembler \in Reassembler, Collecting, reassembler.collecting,
         NEW f, NEW p, Extends(p, f)
  PROVE  /\ Len(reassembler.payload) \in Nat /\ Len(reassembler.payload) >= 6
         /\ Len(p) <= LongReply
         /\ Begun(p) /\ p[1] = reassembler.payload[1]
         /\ Len(p) # LongReply => /\ Len(p) = Len(reassembler.payload) + 7
                                  /\ Len(p) < LongReply
         /\ Len(p) = LongReply => Len(reassembler.payload) + 7 >= LongReply
<1> DEFINE q == reassembler.payload
           have == Len(q)
           take == MinOf(7, LongReply - have)
<1>1. have \in Nat
  BY LenProperties DEF Reassembler
<1>2. /\ have < LongReply /\ Begun(q)
      /\ \E k \in 1..LongReply : have + 1 = 7 * k
  BY DEF Collecting
<1>3. have >= 6
  BY <1>1, <1>2
<1>4. /\ Len(p) = have + take
      /\ \A i \in 1..have : p[i] = q[i]
  BY DEF Extends
<1> HIDE DEF q, have
<1>5. take = IF 7 <= LongReply - have THEN 7 ELSE LongReply - have
  BY <1>1 DEF MinOf
<1>6. \A i \in 1..6 : p[i] = q[i]
  BY <1>1, <1>3, <1>4
<1>7. p[1] = q[1]
  BY <1>6
<1>8. Begun(p)
  <2>1. \A i \in 1..6 : Marked(q[i], p[1][2], i)
    BY <1>2, <1>7 DEF Begun
  <2> QED
    BY <1>6, <2>1 DEF Begun
<1> HIDE DEF take
<1>9. /\ Len(p) <= LongReply
      /\ Len(p) # LongReply => Len(p) = have + 7 /\ Len(p) < LongReply
      /\ Len(p) = LongReply => have + 7 >= LongReply
  BY <1>1, <1>2, <1>4, <1>5
<1> QED
  BY <1>1, <1>3, <1>7, <1>8, <1>9 DEF q, have

LEMMA NextIndex ==
  \A a, b \in Nat : a % 16 = b % 16 => (a + 1) % 16 = (b + 1) % 16
  OBVIOUS

LEMMA CollectingKept ==
  ASSUME Types, Collecting, AllGenuine, [Next]_vars
  PROVE  Collecting'
<1>1. reassembler \in Reassembler
  BY TypesParts DEF SessionTyped
<1>2. ASSUME reassembler' = Fresh PROVE Collecting'
  BY <1>2, FreshTyped DEF Collecting
<1>3. ASSUME reassembler' = reassembler, Receiving => Receiving'
      PROVE  Collecting'
  BY <1>3 DEF Collecting
<1>4. CASE Receive
  <2> DEFINE f == Head(rxQueue).frame
  <2>1. task = "wait" /\ (UNCHANGED session \/ Takes(f))
    BY <1>4, Received
  <2> HIDE DEF f
  <2>2. CASE UNCHANGED session
    BY <1>3, <2>2 DEF session, Receiving
  <2>3. CASE Takes(f)
    <3>1. PICK n \in 1..MaxRequests :
             \/ TakesSingle(f, n) \/ TakesFirst(f, n)
             \/ \E k \in 1..LongReply : TakesStray(f, n, k) \/ TakesLast(f, n, k)
                                          \/ TakesMore(f, n, k)
      BY <2>3 DEF Takes
    <3>2. CASE TakesSingle(f, n)
      BY <1>2, <3>2, Judged DEF TakesSingle
    <3>3. CASE TakesFirst(f, n)
      <4>1. /\ reassembler'.collecting /\ reassembler'.expected = LongReply
            /\ reassembler'.next = 1 /\ Len(reassembler'.payload) = 6
            /\ \A i \in 1..6 : reassembler'.payload[i] = f.bytes[i]
            /\ task' = "flow" /\ IsFirst(f, n)
        BY <3>3 DEF TakesFirst
      <4>2. Begun(reassembler'.payload)
        BY <4>1, FirstMarks DEF IsFirst
      <4>3. 1 \in 1..LongReply /\ 6 + 1 = 7 * 1 /\ 1 = 1 % 16
        OBVIOUS
      <4>4. \E k \in 1..LongReply : /\ Len(reassembler'.payload) + 1 = 7 * k
                                    /\ reassembler'.next = k % 16
        BY <4>1, <4>3
      <4>5. Receiving'
        BY <4>1 DEF Receiving
      <4> QED
        BY <4>1, <4>2, <4>4, <4>5 DEF Collecting
    <3>4. ASSUME NEW k \in 1..LongReply, TakesStray(f, n, k) PROVE Collecting'
      BY <1>2, <3>4 DEF TakesStray, Reply
    <3>5. ASSUME NEW k \in 1..LongReply, TakesLast(f, n, k) PROVE Collecting'
      BY <1>2, <3>5, Judged DEF TakesLast
    <3>6. ASSUME NEW k \in 1..LongReply, TakesMore(f, n, k) PROVE Collecting'
      <4> DEFINE have == Len(reassembler.payload)
                 p == reassembler'.payload
      <4>1. /\ reassembler.collecting /\ reassembler.next = k % 16
            /\ reassembler'.collecting /\ reassembler'.expected = LongReply
            /\ reassembler'.next = (k + 1) % 16
            /\ Extends(p, f) /\ Len(p) # LongReply /\ task' = task
        BY <3>6 DEF TakesMore, InTurn
      <4>2. /\ have \in Nat /\ Len(p) = have + 7 /\ Len(p) < LongReply
            /\ Begun(p)
        BY <1>1, <4>1, Grown
      <4>3. PICK j \in 1..LongReply : have + 1 = 7 * j /\ reassembler.next = j % 16
        BY <4>1 DEF Collecting
      <4> HIDE DEF have, p
      <4>4. j + 1 \in 1..LongReply /\ Len(p) + 1 = 7 * (j + 1)
        BY <4>2, <4>3
      <4>5. reassembler'.next = (j + 1) % 16
        BY <4>1, <4>3, NextIndex
      <4>6. Receiving'
        BY <2>1, <4>1 DEF Receiving
      <4> QED
        BY <4>1, <4>2, <4>4, <4>5, <4>6 DEF Collecting, p
    <3> QED
      BY <3>1, <3>2, <3>3, <3>4, <3>5, <3>6
  <2> QED
    BY <2>1, <2>2, <2>3
<1>5. CASE Unparseable \/ TransmitFails \/ FlowControlFails \/ Timeout
  BY <1>2, <1>5 DEF Unparseable, TransmitFails, FlowControlFails, Timeout, Reply
<1>6. ASSUME NEW c \in Commands, Command(c) PROVE Collecting'
  BY <1>3, <1>6 DEF Command, Receiving
<1>7. CASE Drain \/ Drained \/ Transmit \/ SendFlowControl
  BY <1>2, <1>3, <1>7
     DEF Drain, Drained, Transmit, SendFlowControl, Receiving, Reply, session
<1>8. CASE Bus \/ Ecu \/ UNCHANGED vars
  <2>1. UNCHANGED session
    BY <1>8
       DEF Bus, Ecu, FlowControlSent, RequestSent, EcuResponds, EcuSends,
           EcuGivesUp, vars
  <2> QED
    BY <1>3, <2>1 DEF session, Receiving
<1> QED
  BY <1>4, <1>5, <1>6, <1>7, <1>8 DEF Next, RunRequest, Client

-----------------------------------------------------------------------------
(* A transfer that loses nothing.                                          *)

LEMMA HeadIsNext ==
  ASSUME Types, Physical, rxQueue # <<>>, Accepted(Head(rxQueue).from)
  PROVE  /\ request.to \in Ecus /\ Head(rxQueue).from = request.to
         /\ 1 \in DOMAIN rxQueue /\ rxQueue[1] = Head(rxQueue)
         /\ \A e \in {request.to} : Head(rxQueue).frame \in Upcoming(e, 0)
<1>1. rxQueue \in Seq(FrameFrom)
  BY TypesParts DEF QueuesTyped
<1>2. /\ Head(rxQueue) = rxQueue[1] /\ rxQueue[1] \in FrameFrom
      /\ 1 \in DOMAIN rxQueue /\ 1 \in 1..Len(rxQueue)
  BY <1>1, QueueTail, LenProperties
<1>3. request.to \in Ecus /\ rxQueue[1].from = request.to
  BY <1>2 DEF Physical, Accepted, Reaches
<1>4. ASSUME NEW e \in {request.to} PROVE rxQueue[1].frame \in Upcoming(e, 0)
  <2>1. FirstFrom(e, 0, 1)
    BY <1>2, <1>3 DEF FirstFrom
  <2> QED
    BY <1>2, <2>1, UpcomingIs
<1> QED
  BY <1>2, <1>3, <1>4

\* The frame that continues the transfer is the one in turn, and what it adds
\* is in its place.
LEMMA InPlace ==
  ASSUME reassembler \in Reassembler, Collecting, reassembler.collecting,
         NEW n \in 1..MaxRequests, NEW k \in 1..LongReply, NEW f,
         IsConsecutive(f, n, k), Continues(f),
         Whole(reassembler.payload, reassembler.payload[1][2])
  PROVE  /\ reassembler.payload[1][2] = n
         /\ Len(reassembler.payload) + 1 = 7 * k /\ reassembler.next = k % 16
         /\ \A p : Extends(p, f) => Whole(p, n)
<1> DEFINE q == reassembler.payload
           have == Len(q)
           take == MinOf(7, LongReply - have)
<1>1. q[1][2] = n /\ 7 * k = have + 1
  BY FrameFacts DEF Continues
<1>2. /\ q \in Seq(Byte \cup {Pad}) /\ have \in Nat /\ have < LongReply
      /\ \E j \in 1..LongReply : have + 1 = 7 * j /\ reassembler.next = j % 16
  BY LenProperties DEF Collecting, Reassembler
<1>3. reassembler.next = k % 16
  <2> HIDE DEF have
  <2>1. PICK j \in 1..LongReply : have + 1 = 7 * j /\ reassembler.next = j % 16
    BY <1>2
  <2>2. j = k
    BY <1>1, <2>1
  <2> QED
    BY <2>1, <2>2
<1>4. ASSUME NEW p, Extends(p, f) PROVE Whole(p, n)
  <2>1. /\ p \in Seq(Byte \cup {Pad}) /\ Len(p) = have + take
        /\ \A i \in 1..have : p[i] = q[i]
        /\ \A i \in 1..take : p[have + i] = f.bytes[i]
    BY <1>4 DEF Extends
  <2>2. DOMAIN p = 1..(have + take) /\ DOMAIN q = 1..have
    BY <1>2, <2>1, LenProperties
  <2>3. \A i \in 1..have : Marked(q[i], n, i)
    BY <1>1, <2>2 DEF Whole
  <2>4. \A i \in 1..7 : 7 * k + i - 1 <= LongReply
                           => Marked(f.bytes[i], n, 7 * k + i - 1)
    BY DEF IsConsecutive
  <2> HIDE DEF q, have
  <2>5. take = IF 7 <= LongReply - have THEN 7 ELSE LongReply - have
    BY <1>2 DEF MinOf
  <2> HIDE DEF take
  <2>6. ASSUME NEW i \in 1..(have + take) PROVE Marked(p[i], n, i)
    <3>1. CASE i \in 1..have
      BY <2>1, <2>3, <3>1
    <3>2. CASE i \notin 1..have
      <4> DEFINE j == i - have
      <4>1. /\ j \in 1..take /\ j \in 1..7 /\ have + j = i
            /\ 7 * k + j - 1 = i /\ i <= LongReply
        BY <1>1, <1>2, <2>5, <3>2
      <4> HIDE DEF j
      <4>2. p[have + j] = f.bytes[j] /\ Marked(f.bytes[j], n, 7 * k + j - 1)
        BY <2>1, <2>4, <4>1
      <4> QED
        BY <4>1, <4>2
    <3> QED
      BY <3>1, <3>2
  <2> QED
    BY <2>2, <2>6 DEF Whole
<1> QED
  BY <1>1, <1>3, <1>4 DEF q, have

\* The frames behind the one just read.
LEMMA BehindHead ==
  ASSUME Types, InOrder, Receive, ~fault, Physical,
         Accepted(Head(rxQueue).from), NEW e, e = request.to,
         NEW g \in Upcoming(e, 0)', g.pci = "CF"
  PROVE  Follows(Head(rxQueue).frame, g)
<1>1. /\ task = "wait" /\ rxQueue # <<>>
      /\ rxQueue' = Tail(rxQueue) /\ output' = output
  BY DEF Receive, ecus
<1>2. /\ e \in Ecus /\ rxQueue[1] = Head(rxQueue) /\ rxQueue[1].from = e
      /\ 1 \in DOMAIN rxQueue
  BY <1>1, HeadIsNext
<1>3. g \in Upcoming(e, 1)
  <2>1. rxQueue \in Seq(FrameFrom)
    BY TypesParts DEF QueuesTyped
  <2>2. Upcoming(e, 0)' \subseteq Upcoming(e, 0 + 1)
    BY <1>1, <2>1, UpcomingRead
  <2> QED
    BY <2>2
<1> QED
  BY <1>1, <1>2, <1>3 DEF InOrder

\* Whatever else moves, nothing new is upcoming but the beginning of a
\* response.
LEMMA NothingNew ==
  ASSUME Types, [Next]_vars, task \in Loop, ~fault', NEW e \in Ecus,
         Receive => Head(rxQueue).from # e,
         NEW f \in Upcoming(e, 0)', f.pci = "CF"
  PROVE  f \in Upcoming(e, 0)
<1>1. /\ rxQueue \in Seq(FrameFrom) /\ output \in [Ecus -> Seq(Frame)]
      /\ Len(rxQueue) \in Nat
  BY TypesParts, LenProperties DEF QueuesTyped, EcusTyped
<1>2. CASE Receive
  <2>1. /\ rxQueue # <<>> /\ rxQueue' = Tail(rxQueue) /\ output' = output
    BY <1>2 DEF Receive, ecus
  <2>2. rxQueue[1].from # e
    BY <1>1, <1>2, <2>1, QueueTail
  <2> QED
    BY <1>1, <2>1, <2>2, UpcomingRead
<1>3. ASSUME NEW s \in Ecus, EcuSends(s) PROVE f \in Upcoming(e, 0)
  <2> DEFINE g == [from |-> s, frame |-> output[s][1]]
  <2>1. /\ output[s] \in Seq(Frame) /\ output[s] # <<>> /\ output[s][1] \in Frame
        /\ output' = [output EXCEPT ![s] = Tail(output[s])]
        /\ rxQueue' = Append(rxQueue, g)
    BY <1>3, Sent
  <2>2. g \in FrameFrom /\ g.from = s /\ g.frame = output[s][1]
    BY <2>1 DEF FrameFrom
  <2> HIDE DEF g
  <2>3. IF g.from = e
        THEN output[e] \in Seq(Frame) /\ output[e] # <<>> /\ g.frame = output[e][1]
        ELSE output'[e] = output[e]
    BY <1>1, <2>1, <2>2
  <2>4. PICK n \in Nat : n = Len(rxQueue)
    BY <1>1
  <2>5. 0 \in 0..n
    BY <2>4
  <2> QED
    BY <1>1, <2>1, <2>2, <2>3, <2>4, <2>5, UpcomingSent
<1>4. ASSUME \/ output'[e] = output[e]
             \/ 1 \notin DOMAIN output'[e]
             \/ output'[e][1].pci # "CF",
             rxQueue' = rxQueue
      PROVE  f \in Upcoming(e, 0)
  BY <1>4, UpcomingChanged
<1>5. CASE Empties
  BY <1>4, <1>5, EmptySeq DEF Empties
<1>6. ASSUME NEW s \in Ecus, EcuResponds(s) PROVE f \in Upcoming(e, 0)
  BY <1>4, <1>6, Begins
<1>7. Reads => Receive
  BY DEF Reads, Drain, Loop
<1> QED
  BY <1>2, <1>3, <1>5, <1>6, <1>7, Moves DEF Sends, Responds

\* The reassembler changes only where a frame is taken or a reply given.
LEMMA SameReassembler ==
  ASSUME Types, Collecting, AllGenuine, [Next]_vars, Receiving'
  PROVE  \/ reassembler' = reassembler /\ (Receive => ~Accepted(Head(rxQueue).from))
         \/ /\ Receive /\ Accepted(Head(rxQueue).from)
            /\ \E n \in 1..MaxRequests :
                  \/ TakesSingle(Head(rxQueue).frame, n) /\ reassembler' = Fresh
                  \/ TakesFirst(Head(rxQueue).frame, n)
                  \/ \E k \in 1..LongReply :
                        \/ /\ TakesLast(Head(rxQueue).frame, n, k)
                           /\ reassembler' = Fresh
                        \/ TakesMore(Head(rxQueue).frame, n, k)
<1>1. CASE Receive
  <2> DEFINE f == Head(rxQueue).frame
  <2>1. \/ ~Accepted(Head(rxQueue).from) /\ UNCHANGED session
        \/ Accepted(Head(rxQueue).from) /\ Takes(f)
    BY <1>1, Received
  <2> HIDE DEF f
  <2>2. \A n, k : ~TakesStray(f, n, k)
    BY DEF TakesStray, Reply, Receiving
  <2>3. \A n : TakesSingle(f, n) => reassembler' = Fresh
    BY Judged DEF TakesSingle
  <2>4. \A n, k : TakesLast(f, n, k) => reassembler' = Fresh
    BY Judged DEF TakesLast
  <2>5. CASE Takes(f) /\ Accepted(Head(rxQueue).from)
    BY <1>1, <2>2, <2>3, <2>4, <2>5 DEF Takes, f
  <2>6. CASE ~Accepted(Head(rxQueue).from) /\ UNCHANGED session
    BY <2>6 DEF session
  <2> QED
    BY <2>1, <2>5, <2>6
<1>2. CASE ~Receive
  <2>1. ASSUME RunRequest PROVE reassembler' = reassembler
    BY <1>2, <2>1
       DEF RunRequest, Drain, Drained, Transmit, TransmitFails,
           SendFlowControl, FlowControlFails, Timeout, Reply, Receiving,
           session
  <2>2. ~Client
    BY DEF Client, Unparseable, Command, Reply, Receiving
  <2>3. ASSUME Bus \/ Ecu \/ UNCHANGED vars PROVE reassembler' = reassembler
    BY <2>3
       DEF Bus, Ecu, FlowControlSent, RequestSent, EcuResponds, EcuSends,
           EcuGivesUp, vars, session
  <2> QED
    BY <1>2, <2>1, <2>2, <2>3 DEF Next
<1> QED
  BY <1>1, <1>2

LEMMA UndisturbedKept ==
  ASSUME Types, Collecting, AllGenuine, InOrder, Undisturbed, [Next]_vars
  PROVE  Undisturbed'
<1> DEFINE q == reassembler.payload
           f == Head(rxQueue).frame
<1>1. SUFFICES ASSUME Receiving', ~fault', Physical', reassembler'.collecting
      PROVE  /\ Whole(q', q'[1][2])
             /\ \A e \in {request'.to} : \A g \in Upcoming(e, 0)' :
                   g.pci = "CF" => Continues(g)'
  BY DEF Undisturbed
<1>2. task' \in Loop
  BY <1>1 DEF Receiving, Loop
<1>3. fault = FALSE /\ request' = request /\ (Drained \/ task \in Loop)
  BY <1>1, <1>2, LoopEntered
<1>4. Physical /\ request.to \in Ecus
  BY <1>1, <1>3 DEF Physical
<1>5. /\ reassembler \in Reassembler
      /\ ~Receiving \/ ~reassembler.collecting => reassembler = Fresh
  BY TypesParts DEF SessionTyped, Collecting
<1>6. CASE reassembler' = reassembler /\ (Receive => ~Accepted(Head(rxQueue).from))
  <2>1. Receiving /\ reassembler.collecting /\ task \in Loop
    BY <1>1, <1>5, <1>6, FreshTyped DEF Receiving, Loop
  <2>2. /\ Whole(q, q[1][2])
        /\ \A e \in {request.to} : \A g \in Upcoming(e, 0) :
              g.pci = "CF" => Continues(g)
    BY <1>3, <1>4, <2>1 DEF Undisturbed
  <2>3. ASSUME NEW e, e = request.to, NEW g \in Upcoming(e, 0)', g.pci = "CF"
        PROVE  Continues(g)'
    <3>1. Receive => Head(rxQueue).from # e
      BY <1>6, <2>3 DEF Accepted, Reaches
    <3>2. g \in Upcoming(e, 0)
      BY <1>1, <1>4, <2>1, <2>3, <3>1, NothingNew
    <3>3. Continues(g)
      BY <2>2, <2>3, <3>2
    <3> QED
      BY <1>6, <3>3 DEF Continues
  <2> QED
    BY <1>3, <1>6, <2>2, <2>3
<1>7. ASSUME Receive, Accepted(Head(rxQueue).from), NEW n \in 1..MaxRequests,
             TakesFirst(f, n)
      PROVE  /\ Whole(q', q'[1][2])
             /\ \A e \in {request'.to} : \A g \in Upcoming(e, 0)' :
                   g.pci = "CF" => Continues(g)'
  <2>1. /\ IsFirst(f, n) /\ reassembler' \in Reassembler /\ Len(q') = 6
        /\ \A i \in 1..6 : q'[i] = f.bytes[i]
    BY <1>7 DEF TakesFirst
  <2>2. DOMAIN q' = 1..6
    BY <2>1, LenProperties DEF Reassembler
  <2>3. \A i \in 1..6 : Marked(q'[i], n, i)
    BY <2>1 DEF IsFirst
  <2>4. q'[1][2] = n
    BY <2>3 DEF Marked
  <2>5. SerialOf(f) = n /\ Start(f) = 1 /\ Carries(f) = 6
    BY <2>1, FrameFacts
  <2>6. ASSUME NEW e, e = request.to, NEW g \in Upcoming(e, 0)', g.pci = "CF"
        PROVE  Continues(g)'
    <3>1. Follows(f, g)
      BY <1>3, <1>4, <1>7, <2>6, BehindHead
    <3>2. SerialOf(g) = n /\ Start(g) = 6 + 1
      BY <2>5, <2>6, <3>1 DEF Follows
    <3> QED
      BY <2>1, <2>4, <3>2 DEF Continues, SerialOf, Start
  <2> QED
    BY <1>3, <2>2, <2>3, <2>4, <2>6 DEF Whole
<1>8. ASSUME Receive, Accepted(Head(rxQueue).from), NEW n \in 1..MaxRequests,
             NEW k \in 1..LongReply, TakesMore(f, n, k)
      PROVE  /\ Whole(q', q'[1][2])
             /\ \A e \in {request'.to} : \A g \in Upcoming(e, 0)' :
                   g.pci = "CF" => Continues(g)'
  <2>1. /\ IsConsecutive(f, n, k) /\ reassembler.collecting
        /\ Extends(q', f) /\ Len(q') # LongReply
    BY <1>8 DEF TakesMore, InTurn
  <2>2. /\ SerialOf(f) = n /\ Start(f) = 7 * k /\ Carries(f) = 7 /\ f.pci = "CF"
    BY <2>1, FrameFacts
  <2>3. Receiving /\ rxQueue # <<>>
    BY <1>8 DEF Receive, Receiving
  <2>4. Whole(q, q[1][2]) /\ Continues(f)
    <3>1. \A e \in {request.to} : f \in Upcoming(e, 0)
      BY <1>4, <1>8, <2>3, HeadIsNext
    <3> QED
      BY <1>3, <1>4, <2>1, <2>2, <2>3, <3>1 DEF Undisturbed
  <2>5. q[1][2] = n /\ Len(q) + 1 = 7 * k /\ Whole(q', n)
    BY <1>5, <2>1, <2>4, InPlace
  <2>6. Len(q') = Len(q) + 7 /\ q'[1] = q[1] /\ Len(q) \in Nat
    BY <1>5, <2>1, Grown
  <2> HIDE DEF f
  <2>7. ASSUME NEW e, e = request.to, NEW g \in Upcoming(e, 0)', g.pci = "CF"
        PROVE  Continues(g)'
    <3>1. Follows(f, g)
      BY <1>3, <1>4, <1>8, <2>7, BehindHead DEF f
    <3>2. SerialOf(g) = n /\ Start(g) = 7 * k + 7
      BY <2>2, <2>7, <3>1 DEF Follows
    <3>3. SerialOf(g) = q'[1][2] /\ Start(g) = Len(q') + 1
      BY <2>5, <2>6, <3>2
    <3> QED
      BY <3>3 DEF Continues, SerialOf, Start
  <2> QED
    BY <1>3, <2>5, <2>6, <2>7
<1>9. Fresh.collecting = FALSE
  BY FreshTyped DEF Fresh
<1> QED
  BY <1>1, <1>6, <1>7, <1>8, <1>9, SameReassembler

LEMMA NoStrayKept ==
  ASSUME Types, Collecting, AllGenuine, InOrder, Undisturbed, NothingYet,
         NoStray, AllGenuine', [Next]_vars
  PROVE  NoStray'
<1> DEFINE f == Head(rxQueue).frame
<1>1. SUFFICES ASSUME clean', ~fault', Receiving', Physical',
                      ~reassembler'.collecting,
                      NEW e, e = request'.to,
                      NEW g \in Upcoming(e, 0)', g.pci = "CF"
               PROVE  FALSE
  BY DEF NoStray
<1>2. task' \in Loop
  BY <1>1 DEF Receiving, Loop
<1>3. /\ fault = FALSE /\ request' = request /\ clean' = clean
      /\ Drained \/ task \in Loop
  BY <1>1, <1>2, LoopEntered
<1>4. Physical /\ e = request.to /\ e \in Ecus /\ clean /\ task \in Loop
  BY <1>1, <1>3 DEF Physical, Drained, Receiving
<1>5. CASE reassembler' = reassembler /\ (Receive => ~Accepted(Head(rxQueue).from))
  <2>1. Receive => Head(rxQueue).from # e
    BY <1>4, <1>5 DEF Accepted, Reaches
  <2>2. g \in Upcoming(e, 0)
    BY <1>1, <1>4, <2>1, NothingNew
  <2>3. CASE Receiving
    BY <1>1, <1>3, <1>4, <1>5, <2>2, <2>3 DEF NoStray
  <2>4. CASE ~Receiving
    <3>1. task = "send"
      BY <1>4, <2>4 DEF Loop, Receiving
    <3>2. rxQueue = <<>> /\ output[e] = <<>>
      BY <1>4, <3>1 DEF NothingYet, QuietBus
    <3> QED
      BY <2>2, <3>2, EmptySeq, UpcomingIs
  <2> QED
    BY <2>3, <2>4
<1>6. CASE Receive /\ Accepted(Head(rxQueue).from)
  <2>1. /\ Receiving /\ rxQueue # <<>>
        /\ rxQueue' = Tail(rxQueue) /\ output' = output
    BY <1>6 DEF Receive, Receiving, ecus
  <2>2. Follows(f, g) /\ f \in Upcoming(e, 0)
    BY <1>1, <1>3, <1>4, <1>6, <2>1, BehindHead, HeadIsNext
  <2>3. ASSUME NEW n \in 1..MaxRequests, TakesSingle(f, n) PROVE FALSE
    BY <1>1, <2>2, <2>3 DEF TakesSingle, IsSingle, Follows
  <2>4. ASSUME NEW n \in 1..MaxRequests, TakesFirst(f, n) PROVE FALSE
    BY <1>1, <2>4 DEF TakesFirst
  <2>5. ASSUME NEW n \in 1..MaxRequests, NEW k \in 1..LongReply,
               TakesMore(f, n, k)
        PROVE  FALSE
    BY <1>1, <2>5 DEF TakesMore
  <2>6. ASSUME NEW n \in 1..MaxRequests, NEW k \in 1..LongReply,
               TakesLast(f, n, k)
        PROVE  FALSE
    <3>1. /\ IsConsecutive(f, n, k) /\ reassembler.collecting
          /\ reassembler \in Reassembler
          /\ \E p : Extends(p, f) /\ Len(p) = LongReply
      BY <2>6, TypesParts DEF TakesLast, InTurn, SessionTyped
    <3>2. Len(reassembler.payload) \in Nat /\ Len(reassembler.payload) + 7 >= LongReply
      BY <3>1, Grown
    <3>3. f.pci = "CF" /\ Start(f) = 7 * k /\ Carries(f) = 7
      BY <3>1, FrameFacts
    <3>4. Continues(f)
      BY <1>3, <1>4, <2>1, <2>2, <3>1, <3>3 DEF Undisturbed
    <3>5. Start(g) = 7 * k + 7
      BY <1>1, <2>2, <3>3 DEF Follows
    <3>6. Genuine(g)
      <4>1. \/ \E j \in DOMAIN rxQueue' : g = rxQueue'[j].frame
            \/ 1 \in DOMAIN output'[e] /\ g = output'[e][1]
        BY <1>1, UpcomingIsNext
      <4> QED
        BY <1>4, <4>1 DEF AllGenuine
    <3>7. PICK m \in 1..MaxRequests : \E j \in 1..LongReply : IsConsecutive(g, m, j)
      BY <1>1, <3>6 DEF Genuine, IsSingle, IsFirst
    <3>8. PICK j \in 1..LongReply : IsConsecutive(g, m, j)
      BY <3>7
    <3>9. Start(g) = 7 * j /\ 7 * j <= LongReply
      BY <3>8, FrameFacts DEF IsConsecutive
    <3>10. 7 * k = Len(reassembler.payload) + 1
      BY <3>3, <3>4 DEF Continues
    <3> QED
      BY <3>2, <3>5, <3>9, <3>10
  <2> QED
    BY <1>1, <1>6, <2>3, <2>4, <2>5, <2>6, SameReassembler
<1> QED
  BY <1>1, <1>5, <1>6, SameReassembler

-----------------------------------------------------------------------------
(* A request given while nothing earlier was under way.                    *)

LEMMA NothingYetKept ==
  ASSUME Types, Collecting, AllGenuine, NothingYet, [Next]_vars
  PROVE  NothingYet'
<1>1. SUFFICES ASSUME clean', task' \in {"drain", "send"}
               PROVE  QuietBus' /\ (task' = "send" => rxQueue' = <<>>)
  BY DEF NothingYet
<1>2. ASSUME clean, task \in {"drain", "send"}
      PROVE  QuietBus /\ (task = "send" => rxQueue = <<>>)
  BY <1>2 DEF NothingYet
<1>3. ASSUME NEW c \in Commands, Command(c)
      PROVE  QuietBus' /\ task' = "drain"
  BY <1>1, <1>3 DEF Command, QuietBus, ecus
<1>4. CASE Drain
  BY <1>1, <1>2, <1>4 DEF Drain, session, ecus, QuietBus
<1>5. CASE Drained
  BY <1>1, <1>2, <1>5 DEF Drained, DrainedDry, ecus, QuietBus
<1>6. CASE \/ Transmit \/ TransmitFails \/ SendFlowControl \/ FlowControlFails
           \/ Timeout \/ Unparseable
  BY <1>1, <1>6
     DEF Transmit, TransmitFails, SendFlowControl, FlowControlFails, Timeout,
         Unparseable, Reply
<1>7. ~Receive
  <2>1. ASSUME Receive PROVE task' \in {"wait", "flow", "idle"}
    <3>1. /\ task = "wait"
          /\ UNCHANGED session \/ Takes(Head(rxQueue).frame)
      BY <2>1, Received
    <3> DEFINE f == Head(rxQueue).frame
    <3>2. ASSUME Takes(f) PROVE task' \in {"wait", "flow", "idle"}
      <4>1. \A p : Judge(p) => task' \in {task, "idle"}
        BY Judged
      <4> QED
        BY <3>1, <3>2, <4>1
           DEF Takes, TakesSingle, TakesFirst, TakesStray, TakesLast,
               TakesMore, Reply
    <3> QED
      BY <3>1, <3>2 DEF session
  <2> QED
    BY <1>1, <2>1
<1>8. CASE Bus \/ Ecu \/ UNCHANGED vars
  <2>1. UNCHANGED session /\ UNCHANGED clean
    BY <1>8
       DEF Bus, Ecu, FlowControlSent, RequestSent, EcuResponds, EcuSends,
           EcuGivesUp, vars
  <2>2. QuietBus /\ (task = "send" => rxQueue = <<>>) /\ task' = task
    BY <1>1, <1>2, <2>1 DEF session
  <2>3. /\ txQueue = <<>> /\ \A e \in Ecus : work[e] = None /\ output[e] = <<>>
    BY <2>2 DEF QuietBus
  <2>4. ASSUME NEW e \in Ecus, EcuGivesUp(e)
        PROVE  UNCHANGED <<rxQueue, txQueue, work, output>>
    <3>1. output \in [Ecus -> Seq(Frame)]
      BY TypesParts DEF EcusTyped
    <3>2. output' = [output EXCEPT ![e] = <<>>]
      BY <2>4 DEF EcuGivesUp
    <3>3. output' = output
      BY <2>3, <3>1, <3>2
    <3> QED
      BY <2>4, <3>3 DEF EcuGivesUp
  <2>5. UNCHANGED <<rxQueue, txQueue, work, output>>
    BY <1>8, <2>3, <2>4
       DEF Bus, Ecu, FlowControlSent, RequestSent, EcuResponds, EcuSends,
           vars, ecus
  <2> QED
    BY <2>2, <2>5 DEF QuietBus
<1> QED
  BY <1>1, <1>3, <1>4, <1>5, <1>6, <1>7, <1>8 DEF Next, RunRequest, Client

\* Every frame on its way, and every ECU at work, is on the present request.
TxOwn == \A i \in DOMAIN txQueue : txQueue[i].serial = serial
EcusOwn == \A e \in Ecus : /\ work[e] = None \/ work[e].serial = serial
                           /\ \A i \in DOMAIN output[e] :
                                 SerialOf(output[e][i]) = serial
RxOwn == \A i \in DOMAIN rxQueue : SerialOf(rxQueue[i].frame) = serial
CollectsOwn == reassembler.collecting => reassembler.payload[1][2] = serial

LEMMA OwnFramesKept ==
  ASSUME Types, Collecting, AllGenuine, NothingYet, OwnFramesOnly, [Next]_vars
  PROVE  OwnFramesOnly'
<1>1. SUFFICES ASSUME clean', ~fault', Receiving'
               PROVE  TxOwn' /\ EcusOwn' /\ RxOwn' /\ CollectsOwn'
  BY DEF OwnFramesOnly, TxOwn, EcusOwn, RxOwn, CollectsOwn
<1>2. /\ ~fault /\ clean /\ serial' = serial /\ task \in Loop
  <2>1. task' \in Loop
    BY <1>1 DEF Receiving, Loop
  <2> QED
    BY <1>1, <2>1, LoopEntered DEF Drained, Receiving
<1>3. TxOwn /\ EcusOwn /\ RxOwn /\ CollectsOwn
  <2>1. CASE Receiving
    BY <1>2, <2>1 DEF OwnFramesOnly, TxOwn, EcusOwn, RxOwn, CollectsOwn
  <2>2. CASE ~Receiving
    <3>1. task = "send"
      BY <1>2, <2>2 DEF Receiving, Loop
    <3>2. /\ txQueue = <<>> /\ rxQueue = <<>>
          /\ \A e \in Ecus : work[e] = None /\ output[e] = <<>>
      BY <1>2, <3>1 DEF NothingYet, QuietBus
    <3>3. reassembler.collecting = FALSE
      BY <2>2, FreshTyped DEF Collecting, Fresh
    <3>4. DOMAIN <<>> = {}
      OBVIOUS
    <3> QED
      BY <3>2, <3>3, <3>4 DEF TxOwn, EcusOwn, RxOwn, CollectsOwn
  <2> QED
    BY <2>1, <2>2
<1>4. /\ rxQueue \in Seq(FrameFrom) /\ txQueue \in Seq(Queueable)
      /\ output \in [Ecus -> Seq(Frame)] /\ work \in [Ecus -> {None} \cup Work]
      /\ Len(rxQueue) \in Nat /\ DOMAIN rxQueue = 1..Len(rxQueue)
      /\ Len(txQueue) \in Nat /\ DOMAIN txQueue = 1..Len(txQueue)
  BY TypesParts, LenProperties DEF QueuesTyped, EcusTyped
<1>5. TxOwn'
  <2>1. CASE txQueue' = txQueue
    BY <1>2, <1>3, <2>1 DEF TxOwn
  <2>2. ASSUME NEW kind \in {"request", "flow"}, txQueue' = Queued(kind)
        PROVE  TxOwn'
    <3> DEFINE x == [kind |-> kind, serial |-> serial, command |-> request]
    <3>1. txQueue' = Append(txQueue, x) /\ x.serial = serial
      BY <2>2 DEF Queued
    <3>2. x \in Queueable
      BY <1>2, TypesParts DEF SessionTyped, Busy, Loop, Queueable
    <3> HIDE DEF x
    <3>3. /\ DOMAIN txQueue' = 1..(Len(txQueue) + 1)
          /\ \A i \in 1..Len(txQueue) : txQueue'[i] = txQueue[i]
          /\ txQueue'[Len(txQueue) + 1] = x
      BY <1>4, <3>1, <3>2, AppendProperties, LenProperties
    <3> QED
      BY <1>2, <1>3, <1>4, <3>1, <3>3 DEF TxOwn
  <2>3. CASE txQueue # <<>> /\ txQueue' = Tail(txQueue)
    <3>1. /\ DOMAIN txQueue' = 1..(Len(txQueue) - 1)
          /\ \A i \in 1..(Len(txQueue) - 1) : txQueue'[i] = txQueue[i + 1]
      BY <1>4, <2>3, QueueTail, LenProperties
    <3>2. ASSUME NEW i \in DOMAIN txQueue' PROVE txQueue'[i].serial = serial
      <4>1. i + 1 \in DOMAIN txQueue /\ txQueue'[i] = txQueue[i + 1]
        BY <1>4, <3>1
      <4> QED
        BY <1>3, <4>1 DEF TxOwn
    <3> QED
      BY <1>2, <3>2 DEF TxOwn
  <2>4. ASSUME Receive PROVE txQueue' = txQueue
    BY <2>4 DEF Receive
  <2>5. \/ txQueue' = txQueue
        \/ \E kind \in {"request", "flow"} : txQueue' = Queued(kind)
        \/ txQueue # <<>> /\ txQueue' = Tail(txQueue)
    BY <1>1, <2>4
       DEF Next, RunRequest, Client, Bus, Ecu, vars, Drain, Drained, Transmit,
           TransmitFails, TransmitLost, SendFlowControl, FlowControlFails,
           Timeout, Unparseable, Command, RequestSent, FlowControlSent,
           EcuResponds, EcuSends, EcuGivesUp
  <2> QED
    BY <2>1, <2>2, <2>3, <2>5
<1>6. EcusOwn'
  <2> DEFINE Own(e) == /\ work[e] = None \/ work[e].serial = serial
                       /\ \A i \in DOMAIN output[e] :
                             SerialOf(output[e][i]) = serial
  <2>1. \A e \in Ecus : Own(e)
    BY <1>3 DEF EcusOwn
  <2>2. SUFFICES \A e \in Ecus : Own(e)'
    BY DEF EcusOwn
  <2>3. ASSUME NEW e \in Ecus,
               work'[e] \in {work[e], None} \/ work'[e].serial = serial,
               \/ output'[e] \in {output[e], <<>>}
               \/ \A i \in DOMAIN output'[e] :
                     SerialOf(output'[e][i]) = serial
        PROVE  Own(e)'
    <3>1. work'[e] = None \/ work'[e].serial = serial
      BY <2>1, <2>3
    <3>2. \A i \in DOMAIN output'[e] : SerialOf(output'[e][i]) = serial
      <4>1. CASE output'[e] = output[e]
        BY <2>1, <4>1
      <4>2. CASE output'[e] = <<>>
        BY <4>2
      <4> QED
        BY <2>3, <4>1, <4>2
    <3> QED
      BY <1>2, <3>1, <3>2
  <2> HIDE DEF Own
  <2>4. ASSUME NEW hearers \in SUBSET Ecus, RequestSent(hearers)
        PROVE  \A e \in Ecus : Own(e)'
    <3>1. Head(txQueue).serial = serial
      <4>1. txQueue # <<>>
        BY <2>4 DEF RequestSent
      <4>2. Head(txQueue) = txQueue[1] /\ 1 \in DOMAIN txQueue
        BY <1>4, <4>1, QueueTail
      <4> QED
        BY <1>3, <4>2 DEF TxOwn
    <3>2. \A e \in Ecus :
             /\ work'[e] = work[e] \/ work'[e].serial = serial
             /\ output'[e] \in {output[e], <<>>}
      BY <2>4, <3>1 DEF RequestSent
    <3> QED
      BY <2>3, <3>2
  <2>5. ASSUME NEW s \in Ecus, EcuResponds(s) PROVE \A e \in Ecus : Own(e)'
    <3>1. work[s] \in Work /\ work[s].serial = serial
      <4>1. work[s] \in Work /\ work[s] # None
        BY <2>5, Responded DEF EcuResponds
      <4> QED
        BY <1>3, <4>1 DEF EcusOwn
    <3>2. ASSUME NEW e \in Ecus PROVE Own(e)'
      <4>1. /\ work' = [work EXCEPT ![s] = work'[s]]
            /\ work'[s] = None \/ work'[s].serial = work[s].serial
        BY <2>5, Responded
      <4>2. work'[e] \in {work[e], None} \/ work'[e].serial = serial
        BY <1>4, <3>1, <4>1
      <4>3. \/ output'[e] = output[e]
            \/ /\ e = s
               /\ \A i \in DOMAIN output'[e] :
                     SerialOf(output'[e][i]) = work[e].serial
        BY <2>5, Begins
      <4> QED
        BY <2>3, <3>1, <4>2, <4>3
    <3> QED
      BY <3>2
  <2>6. ASSUME NEW s \in Ecus, EcuSends(s) PROVE \A e \in Ecus : Own(e)'
    <3>1. /\ output[s] \in Seq(Frame) /\ output[s] # <<>>
          /\ output' = [output EXCEPT ![s] = Tail(output[s])] /\ work' = work
      BY <2>6, Sent
    <3>2. ASSUME NEW i \in DOMAIN output'[s]
          PROVE  SerialOf(output'[s][i]) = serial
      <4>1. output'[s] = Tail(output[s])
        BY <1>4, <3>1
      <4>2. /\ DOMAIN Tail(output[s]) = 1..(Len(output[s]) - 1)
            /\ Len(output[s]) \in Nat /\ DOMAIN output[s] = 1..Len(output[s])
            /\ \A j \in 1..(Len(output[s]) - 1) :
                  Tail(output[s])[j] = output[s][j + 1]
        BY <3>1, QueueTail, LenProperties
      <4>3. /\ i \in 1..(Len(output[s]) - 1) /\ Len(output[s]) \in Nat
            /\ output'[s][i] = output[s][i + 1]
            /\ DOMAIN output[s] = 1..Len(output[s])
        BY <3>2, <4>1, <4>2
      <4>4. i + 1 \in DOMAIN output[s]
        BY <4>3
      <4> QED
        BY <1>3, <4>3, <4>4 DEF EcusOwn
    <3>3. \A e \in Ecus : e # s => output'[e] = output[e]
      BY <1>4, <3>1
    <3> QED
      BY <2>3, <3>1, <3>2, <3>3
  <2>7. ASSUME NEW s \in Ecus, EcuGivesUp(s) PROVE \A e \in Ecus : Own(e)'
    <3>1. \A e \in Ecus : work'[e] = work[e] /\ output'[e] \in {output[e], <<>>}
      BY <1>4, <2>7 DEF EcuGivesUp
    <3> QED
      BY <2>3, <3>1
  <2>8. ASSUME UNCHANGED <<work, output>> PROVE \A e \in Ecus : Own(e)'
    BY <2>3, <2>8
  <2>9. ASSUME RunRequest \/ Client \/ FlowControlSent \/ UNCHANGED vars
        PROVE  UNCHANGED <<work, output>>
    <3>1. ASSUME Receive PROVE UNCHANGED <<work, output>>
      BY <3>1 DEF Receive, ecus
    <3> QED
      BY <2>9, <3>1
         DEF RunRequest, Client, vars, Drain, Drained, Transmit, TransmitFails,
             SendFlowControl, FlowControlFails, Timeout, Unparseable, Command,
             FlowControlSent, ecus
  <2> QED
    BY <2>4, <2>5, <2>6, <2>7, <2>8, <2>9 DEF Next, Bus, Ecu
<1>7. RxOwn'
  <2>1. CASE rxQueue' = rxQueue
    BY <1>2, <1>3, <2>1 DEF RxOwn
  <2>2. CASE Reads
    <3>1. /\ DOMAIN rxQueue' = 1..(Len(rxQueue) - 1)
          /\ \A i \in 1..(Len(rxQueue) - 1) : rxQueue'[i] = rxQueue[i + 1]
      BY <1>4, <2>2, QueueTail, LenProperties DEF Reads
    <3> QED
      BY <1>2, <1>3, <1>4, <3>1 DEF RxOwn
  <2>3. ASSUME NEW s \in Ecus, EcuSends(s) PROVE RxOwn'
    <3> DEFINE g == [from |-> s, frame |-> output[s][1]]
    <3>1. /\ output[s] \in Seq(Frame) /\ output[s] # <<>> /\ output[s][1] \in Frame
          /\ rxQueue' = Append(rxQueue, g)
      BY <1>1, <2>3, Sent
    <3>2. SerialOf(g.frame) = serial
      <4>1. 1 \in DOMAIN output[s]
        BY <3>1, LenProperties, EmptySeq
      <4> QED
        BY <1>3, <4>1 DEF EcusOwn
    <3>3. g \in FrameFrom
      BY <3>1 DEF FrameFrom
    <3> HIDE DEF g
    <3>4. /\ DOMAIN rxQueue' = 1..(Len(rxQueue) + 1)
          /\ \A i \in 1..Len(rxQueue) : rxQueue'[i] = rxQueue[i]
          /\ rxQueue'[Len(rxQueue) + 1] = g
      BY <1>4, <3>1, <3>3, AppendProperties, LenProperties
    <3> QED
      BY <1>2, <1>3, <1>4, <3>2, <3>4 DEF RxOwn
  <2> QED
    BY <2>1, <2>2, <2>3, Moves DEF Sends, Responds, Empties, EcuResponds
<1>8. CollectsOwn'
  <2> DEFINE f == Head(rxQueue).frame
  <2>1. CASE reassembler' = reassembler
    BY <1>2, <1>3, <2>1 DEF CollectsOwn
  <2>2. CASE reassembler' = Fresh
    BY <2>2, FreshTyped DEF CollectsOwn
  <2>3. ASSUME Receive PROVE SerialOf(f) = serial
    <3>1. rxQueue # <<>> /\ rxQueue[1] = Head(rxQueue) /\ 1 \in DOMAIN rxQueue
      BY <1>4, <2>3, QueueTail DEF Receive
    <3> QED
      BY <1>3, <3>1 DEF RxOwn
  <2>4. ASSUME Receive, NEW n \in 1..MaxRequests, TakesFirst(f, n)
        PROVE  CollectsOwn'
    <3>1. SerialOf(f) = n
      BY <2>4, FrameFacts DEF TakesFirst
    <3>2. \A i \in 1..6 : /\ Marked(f.bytes[i], n, i)
                           /\ reassembler'.payload[i] = f.bytes[i]
      BY <2>4 DEF TakesFirst, IsFirst
    <3>3. reassembler'.payload[1][2] = n
      BY <3>2, FirstMarks
    <3> QED
      BY <1>2, <2>3, <2>4, <3>1, <3>3 DEF CollectsOwn
  <2>5. ASSUME NEW n \in 1..MaxRequests, NEW k \in 1..LongReply,
               TakesMore(f, n, k)
        PROVE  CollectsOwn'
    <3>1. reassembler.collecting /\ Extends(reassembler'.payload, f)
          /\ reassembler \in Reassembler
      BY <2>5, TypesParts DEF TakesMore, InTurn, SessionTyped
    <3>2. reassembler'.payload[1] = reassembler.payload[1]
      BY <3>1, Grown
    <3> QED
      BY <1>2, <1>3, <3>1, <3>2 DEF CollectsOwn
  <2> QED
    BY <1>1, <2>1, <2>2, <2>4, <2>5, SameReassembler
<1> QED
  BY <1>5, <1>6, <1>7, <1>8

-----------------------------------------------------------------------------
(* The answer.                                                             *)

\* p is the response that frame f completes.
Completes(f, n, p) ==
    /\ p \in Seq(Byte \cup {Pad}) /\ Len(p) \in Nat /\ Len(p) >= 1
    /\ \/ /\ IsSingle(f, n) /\ Len(p) = f.n
          /\ \A i \in 1..f.n : p[i] = f.bytes[i]
       \/ /\ Len(p) = LongReply
          /\ \E k \in 1..LongReply : InTurn(f, n, k) /\ Extends(p, f)

\* An answer that stands.
Stands == /\ UNCHANGED <<task, answer, body, request, serial, clean>>
          /\ fault' \/ fault' = fault

\* An answer given by the receive loop.
Answers(n, p) ==
    /\ Receive /\ Accepted(Head(rxQueue).from)
    /\ Completes(Head(rxQueue).frame, n, p)
    /\ body' = p /\ answer' \in {"PAYLOAD", "NRC"}
    /\ answer' = "PAYLOAD" => Affirms(p)
    /\ UNCHANGED <<request, serial, clean, fault>>

LEMMA Answered ==
  ASSUME Types, Collecting, AllGenuine, [Next]_vars,
         answer' \in {"PAYLOAD", "NRC"}
  PROVE  Stands \/ \E n \in 1..MaxRequests :
                      \E p \in Seq(Byte \cup {Pad}) : Answers(n, p)
<1>1. CASE Receive
  <2> DEFINE f == Head(rxQueue).frame
  <2>1. /\ task = "wait" /\ UNCHANGED <<serial, request, clean, fault>>
        /\ \/ UNCHANGED session
           \/ Accepted(Head(rxQueue).from) /\ Takes(f)
    BY <1>1, Received
  <2>2. answer = "none"
    BY <2>1, TypesParts DEF SessionTyped, Busy
  <2>3. answer' # answer
    BY <2>2
  <2>4. Accepted(Head(rxQueue).from) /\ Takes(f)
    BY <2>1, <2>3 DEF session
  <2>5. ASSUME NEW n \in 1..MaxRequests, NEW p, Completes(f, n, p), Judge(p)
        PROVE  p \in Seq(Byte \cup {Pad}) /\ Answers(n, p)
    <3>1. /\ body' = p /\ answer' \in {"PAYLOAD", "NRC"}
          /\ answer' = "PAYLOAD" => Affirms(p)
      BY <2>3, <2>5, Judged
    <3> QED
      BY <1>1, <2>1, <2>4, <2>5, <3>1 DEF Answers, Completes
  <2> HIDE DEF f
  <2>6. PICK n \in 1..MaxRequests :
           \/ TakesSingle(f, n) \/ TakesFirst(f, n)
           \/ \E k \in 1..LongReply : TakesStray(f, n, k) \/ TakesLast(f, n, k)
                                        \/ TakesMore(f, n, k)
    BY <2>4 DEF Takes
  <2>7. ~TakesFirst(f, n) /\ \A k : ~TakesStray(f, n, k) /\ ~TakesMore(f, n, k)
    BY <2>3 DEF TakesFirst, TakesStray, TakesMore, Reply
  <2>8. CASE TakesSingle(f, n)
    <3>1. PICK p \in Seq(Byte \cup {Pad}) :
             Len(p) = f.n /\ (\A i \in 1..f.n : p[i] = f.bytes[i]) /\ Judge(p)
      BY <2>8 DEF TakesSingle
    <3>2. f.n \in Nat /\ f.n >= 1
      BY <2>8 DEF TakesSingle, IsSingle
    <3>3. Completes(f, n, p)
      BY <2>8, <3>1, <3>2 DEF Completes, TakesSingle
    <3> QED
      BY <2>5, <3>1, <3>3
  <2>9. ASSUME NEW k \in 1..LongReply, TakesLast(f, n, k)
        PROVE  \E p \in Seq(Byte \cup {Pad}) : Answers(n, p)
    <3>1. PICK p : Extends(p, f) /\ Len(p) = LongReply /\ Judge(p)
      BY <2>9 DEF TakesLast
    <3>2. Completes(f, n, p)
      BY <2>9, <3>1 DEF Completes, TakesLast, Extends
    <3> QED
      BY <2>5, <3>1, <3>2
  <2> QED
    BY <2>6, <2>7, <2>8, <2>9
<1>2. CASE ~Receive
  <2>1. ASSUME Drain \/ Drained \/ Transmit \/ SendFlowControl PROVE Stands
    <3>1. answer = "none"
      BY <2>1, TypesParts
         DEF Drain, Drained, Transmit, SendFlowControl, SessionTyped, Busy
    <3> QED
      BY <2>1, <3>1
         DEF Drain, Drained, Transmit, SendFlowControl, session, Reply
  <2>2. ~TransmitFails /\ ~FlowControlFails /\ ~Timeout /\ ~Client
    BY DEF TransmitFails, FlowControlFails, Timeout, Client, Unparseable,
           Command, Reply
  <2>3. ASSUME Bus \/ Ecu \/ UNCHANGED vars PROVE Stands
    BY <2>3
       DEF Bus, Ecu, FlowControlSent, RequestSent, EcuResponds, EcuSends,
           Arrive, EcuGivesUp, vars, session, Stands
  <2> QED
    BY <1>2, <2>1, <2>2, <2>3 DEF Next, RunRequest
<1> QED
  BY <1>1, <1>2

\* Where nothing was dropped the answer is one response, whole.
LEMMA CompletesWhole ==
  ASSUME Types, Collecting, AllGenuine, Undisturbed, ~fault, Physical,
         NEW n \in 1..MaxRequests, NEW p, Answers(n, p)
  PROVE  Whole(p, n) /\ SerialOf(Head(rxQueue).frame) = n /\ p[1][2] = n
<1> DEFINE f == Head(rxQueue).frame
<1>1. /\ Completes(f, n, p) /\ Receiving /\ rxQueue # <<>>
      /\ Accepted(Head(rxQueue).from)
  BY DEF Answers, Receive, Receiving
<1>2. p \in Seq(Byte \cup {Pad}) /\ Len(p) \in Nat /\ Len(p) >= 1
  BY <1>1 DEF Completes
<1>3. DOMAIN p = 1..Len(p)
  BY <1>2, LenProperties
<1>4. \A e \in {request.to} : f \in Upcoming(e, 0)
  BY <1>1, HeadIsNext
<1>5. reassembler \in Reassembler /\ request.to \in {request.to}
  BY TypesParts DEF SessionTyped
<1> HIDE DEF f
<1>6. ASSUME IsSingle(f, n), Len(p) = f.n, \A i \in 1..f.n : p[i] = f.bytes[i]
      PROVE  Whole(p, n) /\ SerialOf(f) = n
  <2>1. \A i \in 1..f.n : Marked(p[i], n, i)
    BY <1>6 DEF IsSingle
  <2> QED
    BY <1>3, <1>6, <2>1, FrameFacts DEF Whole
<1>7. ASSUME NEW k \in 1..LongReply, InTurn(f, n, k), Extends(p, f)
      PROVE  Whole(p, n) /\ SerialOf(f) = n
  <2>1. IsConsecutive(f, n, k) /\ reassembler.collecting
    BY <1>7 DEF InTurn
  <2>2. f.pci = "CF" /\ SerialOf(f) = n
    BY <2>1, FrameFacts
  <2>3. Whole(reassembler.payload, reassembler.payload[1][2]) /\ Continues(f)
    BY <1>1, <1>4, <1>5, <2>1, <2>2 DEF Undisturbed
  <2> QED
    BY <1>5, <1>7, <2>1, <2>2, <2>3, InPlace
<1>8. Whole(p, n) /\ SerialOf(f) = n
  BY <1>1, <1>6, <1>7 DEF Completes
<1>9. p[1][2] = n
  BY <1>2, <1>3, <1>8 DEF Whole, Marked
<1> QED
  BY <1>8, <1>9 DEF f

LEMMA WholeAnswerKept ==
  ASSUME Types, Collecting, AllGenuine, Undisturbed, WholeAnswer, [Next]_vars
  PROVE  WholeAnswer'
<1>1. SUFFICES ASSUME answer' \in {"PAYLOAD", "NRC"}, Physical', ~fault'
               PROVE  From(body[1][2])'
  BY DEF WholeAnswer
<1>2. CASE Stands
  BY <1>1, <1>2 DEF Stands, WholeAnswer, Physical, From
<1>3. ASSUME NEW n \in 1..MaxRequests, NEW p, Answers(n, p)
      PROVE  From(body[1][2])'
  <2>1. Physical /\ ~fault /\ body' = p
    BY <1>1, <1>3 DEF Answers, Physical
  <2>2. Whole(p, n) /\ p[1][2] = n
    BY <1>3, <2>1, CompletesWhole
  <2> QED
    BY <2>1, <2>2 DEF Whole, Marked, From
<1> QED
  BY <1>1, <1>2, <1>3, Answered

LEMMA CorrelatedAnswerKept ==
  ASSUME Types, Collecting, AllGenuine, Undisturbed, WholeAnswer,
         CorrelatedAnswer, [Next]_vars
  PROVE  CorrelatedAnswer'
<1>1. SUFFICES ASSUME answer' = "PAYLOAD", Physical',
                      EchoedBytes(request'.sid) > 0
      PROVE  /\ \A i \in 1..(EchoedBytes(request'.sid) + 1) :
                   body'[i] = <<Positive(request')[i], body'[1][2], i>>
             /\ \/ Len(body') = LongReply
                \/ \E c \in Commands : /\ SameIdentifier(c)'
                                       /\ Len(body') = Len(Positive(c))
             /\ ~fault' => From(body[1][2])'
  BY DEF CorrelatedAnswer
<1>2. ~fault' => From(body[1][2])'
  BY <1>1, WholeAnswerKept DEF WholeAnswer
<1>3. CASE Stands
  <2>1. answer = "PAYLOAD" /\ Physical /\ EchoedBytes(request.sid) > 0
        /\ request' = request /\ body' = body
    BY <1>1, <1>3 DEF Stands, Physical
  <2>2. \A c \in Commands : SameIdentifier(c)' <=> SameIdentifier(c)
    BY <2>1 DEF SameIdentifier
  <2> QED
    BY <1>2, <2>1, <2>2 DEF CorrelatedAnswer
<1>4. ASSUME NEW n \in 1..MaxRequests, NEW p, Answers(n, p)
      PROVE  /\ \A i \in 1..(EchoedBytes(request.sid) + 1) :
                   p[i] = <<Positive(request)[i], p[1][2], i>>
             /\ \/ Len(p) = LongReply
                \/ \E c \in Commands : SameIdentifier(c) /\ Len(p) = Len(Positive(c))
             /\ body' = p /\ request' = request
  <2> DEFINE f == Head(rxQueue).frame
  <2>1. /\ Completes(f, n, p) /\ Affirms(p) /\ body' = p /\ request' = request
        /\ task = "wait"
    BY <1>1, <1>4 DEF Answers, Receive
  <2>2. /\ request \in Commands /\ EchoedBytes(request.sid) > 0
        /\ p \in Seq(Byte \cup {Pad}) /\ reassembler \in Reassembler
    BY <1>1, <2>1, TypesParts DEF SessionTyped, Busy, Completes
  <2> HIDE DEF f
  <2>3. ASSUME IsSingle(f, n), Len(p) = f.n, \A i \in 1..f.n : p[i] = f.bytes[i]
        PROVE  /\ \E m : \A i \in 1..Len(p) : i <= 6 => Marked(p[i], m, i)
               /\ \E c \in Commands : SameIdentifier(c) /\ Len(p) = Len(Positive(c))
    <3>1. \A i \in 1..Len(p) : Marked(p[i], n, i)
      BY <2>3 DEF IsSingle
    <3>2. \E c \in Commands : SameIdentifier(c) /\ Len(p) = Len(Positive(c))
      BY <2>1, <2>2, <2>3, AffirmedSingle
    <3> QED
      BY <3>1, <3>2
  <2>4. ASSUME NEW k \in 1..LongReply, InTurn(f, n, k), Extends(p, f)
        PROVE  \E m : \A i \in 1..Len(p) : i <= 6 => Marked(p[i], m, i)
    <3>1. reassembler.collecting
      BY <2>4 DEF InTurn
    <3>2. Begun(p) /\ Len(p) \in Nat
      BY <2>1, <2>2, <2>4, <3>1, Grown DEF Completes
    <3>3. \A i \in 1..Len(p) : i <= 6 => i \in 1..6
      BY <3>2
    <3> QED
      BY <3>2, <3>3 DEF Begun
  <2>5. PICK m : \A i \in 1..Len(p) : i <= 6 => Marked(p[i], m, i)
    BY <2>1, <2>3, <2>4 DEF Completes
  <2>6. \A i \in 1..(EchoedBytes(request.sid) + 1) :
           p[i] = <<Positive(request)[i], p[1][2], i>>
    BY <2>1, <2>2, <2>5, AffirmedHead
  <2>7. \/ Len(p) = LongReply
        \/ \E c \in Commands : SameIdentifier(c) /\ Len(p) = Len(Positive(c))
    BY <2>1, <2>3 DEF Completes
  <2> QED
    BY <2>1, <2>6, <2>7
<1>5. ASSUME NEW n \in 1..MaxRequests, NEW p, Answers(n, p)
      PROVE  /\ \A i \in 1..(EchoedBytes(request'.sid) + 1) :
                   body'[i] = <<Positive(request')[i], body'[1][2], i>>
             /\ \/ Len(body') = LongReply
                \/ \E c \in Commands : /\ SameIdentifier(c)'
                                       /\ Len(body') = Len(Positive(c))
  <2>1. body' = p /\ request' = request
    BY <1>5 DEF Answers
  <2>2. \A c \in Commands : SameIdentifier(c)' <=> SameIdentifier(c)
    BY <2>1 DEF SameIdentifier
  <2> QED
    BY <1>4, <1>5, <2>1, <2>2
<1> QED
  BY <1>1, <1>2, <1>3, <1>5, Answered

\* An answer to a request that began on a quiet bus is its own, and no frame
\* is out of turn.
LEMMA OwnAnswerKept ==
  ASSUME Types, Collecting, AllGenuine, Undisturbed, OwnFramesOnly, NoStray,
         OwnAnswer, [Next]_vars
  PROVE  OwnAnswer'
<1>1. SUFFICES ASSUME clean', ~fault', Physical'
      PROVE  /\ answer' \in {"PAYLOAD", "NRC"} => From(serial)'
             /\ answer' # "CanError"
  BY DEF OwnAnswer
<1>2. ASSUME Stands
      PROVE  /\ answer' \in {"PAYLOAD", "NRC"} => From(serial)'
             /\ answer' # "CanError"
  <2>1. clean /\ ~fault /\ Physical /\ UNCHANGED <<answer, serial, body>>
    BY <1>1, <1>2 DEF Stands, Physical
  <2> QED
    BY <2>1 DEF OwnAnswer, From
<1>3. ASSUME NEW n \in 1..MaxRequests, NEW p, Answers(n, p)
      PROVE  From(serial)'
  <2>1. /\ Physical /\ ~fault /\ clean /\ body' = p /\ serial' = serial
        /\ Receiving /\ rxQueue # <<>>
    BY <1>1, <1>3 DEF Answers, Physical, Receive, Receiving
  <2>2. Whole(p, n) /\ SerialOf(Head(rxQueue).frame) = n
    BY <1>3, <2>1, CompletesWhole
  <2>3. SerialOf(Head(rxQueue).frame) = serial
    <3>1. Head(rxQueue) = rxQueue[1] /\ 1 \in DOMAIN rxQueue
      BY <2>1, TypesParts, QueueTail, LenProperties DEF QueuesTyped
    <3> QED
      BY <2>1, <3>1 DEF OwnFramesOnly
  <2> QED
    BY <2>1, <2>2, <2>3 DEF Whole, Marked, From
<1>4. answer' # "CanError"
  <2>1. SUFFICES ASSUME answer' = "CanError", ~Stands PROVE FALSE
    BY <1>2
  <2>2. CASE Receive
    <3> DEFINE f == Head(rxQueue).frame
    <3>1. /\ task = "wait" /\ rxQueue # <<>> /\ Receiving
          /\ UNCHANGED <<serial, request, clean, fault>>
          /\ \/ UNCHANGED session
             \/ Accepted(Head(rxQueue).from) /\ Takes(f)
      BY <2>2, Received DEF Receiving
    <3>2. answer = "none"
      BY <3>1, TypesParts DEF SessionTyped, Busy
    <3>3. Accepted(Head(rxQueue).from) /\ Takes(f)
      BY <2>1, <3>1, <3>2 DEF session
    <3>4. \A p : Judge(p) => answer' # "CanError"
      BY <3>2, Judged
    <3>5. Physical /\ clean /\ ~fault
      BY <1>1, <3>1 DEF Physical
    <3>6. \A e \in {request.to} : f \in Upcoming(e, 0)
      BY <3>1, <3>3, <3>5, HeadIsNext
    <3> HIDE DEF f
    <3>7. PICK n \in 1..MaxRequests : \E k \in 1..LongReply : TakesStray(f, n, k)
      BY <2>1, <3>2, <3>3, <3>4
         DEF Takes, TakesSingle, TakesFirst, TakesLast, TakesMore
    <3>8. PICK k \in 1..LongReply : TakesStray(f, n, k)
      BY <3>7
    <3>9. /\ IsConsecutive(f, n, k)
          /\ ~reassembler.collecting \/ reassembler.next # k % 16
      BY <3>8 DEF TakesStray
    <3>10. f.pci = "CF"
      BY <3>9, FrameFacts
    <3>11. request.to \in {request.to} /\ reassembler \in Reassembler
      BY TypesParts DEF SessionTyped
    <3>12. reassembler.collecting
      BY <3>1, <3>5, <3>6, <3>10, <3>11 DEF NoStray
    <3>13. Whole(reassembler.payload, reassembler.payload[1][2]) /\ Continues(f)
      BY <3>1, <3>5, <3>6, <3>10, <3>11, <3>12 DEF Undisturbed
    <3>14. reassembler.next = k % 16
      BY <3>9, <3>11, <3>12, <3>13, InPlace
    <3> QED
      BY <3>9, <3>12, <3>14
  <2>3. CASE ~Receive
    <3>1. ~TransmitFails /\ ~FlowControlFails
      BY <1>1 DEF TransmitFails, FlowControlFails, TransmitLost
    <3>2. ~Drain /\ ~Drained /\ ~Transmit /\ ~SendFlowControl
      <4>1. ASSUME Drain \/ Drained \/ Transmit \/ SendFlowControl PROVE FALSE
        <5>1. answer = "none"
          BY <4>1, TypesParts
             DEF Drain, Drained, Transmit, SendFlowControl, SessionTyped, Busy
        <5> QED
          BY <2>1, <4>1, <5>1
             DEF Drain, Drained, Transmit, SendFlowControl, session, Reply
      <4> QED
        BY <4>1
    <3>3. ~Timeout /\ ~Client
      BY <2>1 DEF Timeout, Client, Unparseable, Command, Reply
    <3>4. ~(Bus \/ Ecu \/ UNCHANGED vars)
      BY <2>1
         DEF Bus, Ecu, FlowControlSent, RequestSent, EcuResponds, EcuSends,
             Arrive, EcuGivesUp, vars, session, Stands
    <3> QED
      BY <2>3, <3>1, <3>2, <3>3, <3>4 DEF Next, RunRequest
  <2> QED
    BY <2>2, <2>3
<1> QED
  BY <1>2, <1>3, <1>4, Answered

-----------------------------------------------------------------------------
(* The theorems.                                                           *)

LEMMA Initially == Init => IInv
<1> SUFFICES ASSUME Init PROVE IInv
  OBVIOUS
<1>1. TypeOK /\ Typed /\ Busy
  BY TypesInitially DEF Types
<1>2. /\ task = "idle" /\ answer = "none" /\ clean = FALSE
      /\ reassembler = Fresh /\ rxQueue = <<>>
      /\ \A e \in Ecus : output[e] = <<>>
  BY DEF Init
<1>3. Len(<<>>) = 0 /\ DOMAIN <<>> = {}
  BY EmptySeq
<1>4. AllGenuine /\ Chained
  BY <1>2, <1>3 DEF AllGenuine, Chained
<1>5. InOrder /\ Undisturbed /\ NothingYet /\ OwnFramesOnly /\ NoStray
  BY <1>2 DEF InOrder, Undisturbed, NothingYet, OwnFramesOnly, NoStray, Receiving
<1>6. Collecting
  BY <1>2, FreshTyped DEF Collecting, Receiving
<1>7. WholeAnswer /\ CorrelatedAnswer /\ OwnAnswer
  BY <1>2 DEF WholeAnswer, CorrelatedAnswer, OwnAnswer
<1> QED
  BY <1>1, <1>4, <1>5, <1>6, <1>7 DEF IInv

LEMMA Stepwise == IInv /\ [Next]_vars => IInv'
<1> SUFFICES ASSUME IInv, [Next]_vars PROVE IInv'
  OBVIOUS
<1>1. /\ Types
      /\ AllGenuine /\ Chained /\ InOrder
      /\ Collecting /\ Undisturbed /\ WholeAnswer /\ CorrelatedAnswer
      /\ NothingYet /\ OwnFramesOnly /\ NoStray /\ OwnAnswer
  BY DEF IInv, Types
<1>2. Types'
  BY <1>1, TypesKept
<1>3. AllGenuine' /\ Chained'
  BY <1>1, FramesKept
<1>4. InOrder'
  BY <1>1, InOrderKept
<1>5. Collecting'
  BY <1>1, CollectingKept
<1>6. Undisturbed'
  BY <1>1, UndisturbedKept
<1>7. WholeAnswer'
  BY <1>1, WholeAnswerKept
<1>8. CorrelatedAnswer'
  BY <1>1, CorrelatedAnswerKept
<1>9. NothingYet'
  BY <1>1, NothingYetKept
<1>10. OwnFramesOnly'
  BY <1>1, OwnFramesKept
<1>11. NoStray'
  BY <1>1, <1>3, NoStrayKept
<1>12. OwnAnswer'
  BY <1>1, OwnAnswerKept
<1> QED
  BY <1>2, <1>3, <1>4, <1>5, <1>6, <1>7, <1>8, <1>9, <1>10, <1>11, <1>12
     DEF IInv, Types

\* What Command, Receive and the queues keep true together holds always, for
\* every set of ECUs and commands, depth of the queues and length of response.
THEOREM Invariance == Spec => []IInv
  BY Initially, Stepwise, PTL DEF Spec

\* The session's variables keep their types: the sequence number its four
\* bits, and a payload the bytes of the frames it came in, padding included
\* where frames were lost, and none of the memory beyond them (offer()).
THEOREM TypeCorrect == Spec => []TypeOK
  BY Invariance, PTL DEF IInv

\* A payload runRequest returns (classifyResponse) answers the identifier
\* that was asked for, and is one response, byte for byte, unless a frame was
\* dropped meanwhile.
THEOREM Correlated == Spec => []CorrelatedAnswer
  BY Invariance, PTL DEF IInv

\* A request given with the bus quiet gets its own answer or none, and no
\* error but a real one, whatever the receive queue held (the drain).
THEOREM QuietStart == Spec => []QuietStartIsSound
<1>1. IInv => QuietStartIsSound
  BY DEF IInv, OwnAnswer, QuietStartIsSound
<1> QED
  BY <1>1, Invariance, PTL
=============================================================================
