----------------------------- MODULE BleFraming -----------------------------
(***************************************************************************)
(* How BLE writes become commands and replies become notifications: feed() *)
(* and deliver() of link/ble_link.cpp, for the client that holds the       *)
(* session.  One write is served to its end before the next (host task).   *)
(*                                                                         *)
(* A byte is abstracted to its place in the line the client typed: <<k,    *)
(* last>> is the k-th byte of that line and `last' says it is the '\r'.    *)
(* A command the firmware runs can then be told from a fragment of one, or *)
(* from pieces of two stitched together.                                   *)
(***************************************************************************)
EXTENDS Naturals, Sequences

CONSTANTS kMaxRxBuffer,
          MaxWrite,    \* bound: bytes in one GATT write
          MaxTyped,    \* bound: bytes in a typed line, its '\r' included
          MaxChunks    \* bound: notifications one reply takes

ASSUME BleFramingAssumption ==
    /\ {kMaxRxBuffer, MaxWrite, MaxTyped, MaxChunks} \subseteq Nat \ {0}

VARIABLES task,      \* "idle" | "split" | "notify"
          rxBuffer,  \* g_rxBuffer
          chunks,    \* notifications of this reply still to send
          attempt,   \* notifyChunk: 1, or 2 after a refused notify()
          (* history *)
          place,     \* the place in its line of the next byte typed
          line,      \* the command last handed to g_handler, with its '\r'
          answer,    \* "none" | "reply" | "refusal": what is being delivered
          hurt,      \* input was dropped since the last '\r' that got through
          fragment   \* the command was run although none had been

vars == <<task, rxBuffer, chunks, attempt, place, line, answer,
          hurt, fragment>>

IsCR(byte) == byte[2]

\* The bytes of a write whose first is the k-th of its line; crs[i] says
\* whether its i-th byte is a '\r'.
Typed(k, crs) ==
    [i \in DOMAIN crs |->
        LET before == {j \in 1..(i - 1) : crs[j]}
        IN  <<IF before = {} THEN k + i - 1
              ELSE i - CHOOSE j \in before : \A m \in before : m <= j,
              crs[i]>>]

NextPlace(byte) == IF IsCR(byte) THEN 1 ELSE byte[1] + 1

Deliver(kind, n) == /\ answer' = kind
                    /\ chunks' = n
                    /\ attempt' = 1
                    /\ task' = "notify"

\* Mutated: the cap compares the buffer alone, not the buffer and the write.
OverflowsLate(written) == Len(rxBuffer) > kMaxRxBuffer
Overflows(written) == Len(rxBuffer) + Len(written) > kMaxRxBuffer

\* Mutated: only the new write is dropped, the buffered start is kept.
KeepStart(written) == rxBuffer
AfterOverflow(written) == <<>>

\* feed(): the cap, then append.
Write(crs) ==
    /\ task = "idle"
    /\ LET written == Typed(place, crs)
       IN  /\ \A i \in DOMAIN written : IsCR(written[i]) \/ written[i][1] < MaxTyped
           /\ place' = NextPlace(written[Len(written)])
           /\ IF Overflows(written)
              THEN /\ rxBuffer' = AfterOverflow(written)
                   /\ Deliver("refusal", 1)
                   /\ hurt' = TRUE
              ELSE /\ rxBuffer' = rxBuffer \o written
                   /\ task' = "split"
                   /\ UNCHANGED <<chunks, attempt, answer, hurt>>
    /\ UNCHANGED <<line, fragment>>

CRs == {i \in DOMAIN rxBuffer : IsCR(rxBuffer[i])}
FirstCR == CHOOSE i \in CRs : \A j \in CRs : i <= j

\* Mutated: one command per write, the rest waits for the next write.
AfterReplyIdle == "idle"
AfterReply == IF answer = "refusal" THEN "idle" ELSE "split"

\* feed(): the loop over complete lines ends.
NoMoreLines ==
    /\ task = "split" /\ CRs = {}
    /\ task' = "idle"
    /\ UNCHANGED <<rxBuffer, chunks, attempt, place, line, answer,
                   hurt, fragment>>

AfterLine == SubSeq(rxBuffer, FirstCR + 1, Len(rxBuffer))

TakeLine == /\ task = "split" /\ CRs # {}
            /\ rxBuffer' = AfterLine
            /\ hurt' = FALSE

SkipEmptyLine ==
    /\ TakeLine
    /\ FirstCR = 1
    /\ UNCHANGED <<task, chunks, attempt, place, line, answer, fragment>>

\* g_handler runs and its reply of n notifications is delivered.
RunLine(n) ==
    /\ TakeLine
    /\ FirstCR > 1
    /\ line' = SubSeq(rxBuffer, 1, FirstCR)
    /\ fragment' = ~hurt
    /\ Deliver("reply", n)
    /\ UNCHANGED place

\* Mutated: the chunk that was tried is not stepped over.
ChunkTriedAgain == /\ attempt' = 1
                   /\ UNCHANGED <<chunks, task>>
ChunkDone == /\ chunks' = chunks - 1
             /\ attempt' = 1
             /\ task' = IF chunks = 1 THEN AfterReply ELSE task

\* notify() accepted the chunk, at the first or the second attempt.
Notified ==
    /\ task = "notify"
    /\ ChunkDone
    /\ UNCHANGED <<rxBuffer, place, line, answer, hurt, fragment>>

\* notify() refused it: wait 2 ms and retry once, then drop the chunk and go on.
NotifyRefused ==
    /\ task = "notify"
    /\ IF attempt = 1 THEN /\ attempt' = 2
                           /\ UNCHANGED <<chunks, task>>
                      ELSE ChunkDone
    /\ UNCHANGED <<rxBuffer, place, line, answer, hurt, fragment>>

Init == /\ task = "idle" /\ rxBuffer = <<>> /\ chunks = 0 /\ attempt = 1
        /\ place = 1 /\ line = <<>> /\ answer = "none"
        /\ hurt = FALSE /\ fragment = FALSE

Writes == UNION {[1..n -> BOOLEAN] : n \in 1..MaxWrite}

HostTask == \/ NoMoreLines \/ SkipEmptyLine
            \/ \E n \in 1..MaxChunks : RunLine(n)
            \/ Notified \/ NotifyRefused

Next == (\E crs \in Writes : Write(crs)) \/ HostTask

Spec == Init /\ [][Next]_vars

\* The host task finishes the callback it is in; notify() never blocks, and
\* nothing is promised of its success.
FairSpec == Spec /\ WF_vars(HostTask)

-----------------------------------------------------------------------------
PlacesOK(bytes) ==
    \A i \in DOMAIN bytes : bytes[i][1] \in 1..MaxTyped /\ bytes[i][2] \in BOOLEAN

\* The cap on g_rxBuffer is part of the type.
TypeOK ==
    /\ task \in {"idle", "split", "notify"}
    /\ PlacesOK(rxBuffer) /\ Len(rxBuffer) <= kMaxRxBuffer
    /\ chunks \in 0..MaxChunks
    /\ attempt \in {1, 2}
    /\ place \in 1..MaxTyped
    /\ PlacesOK(line)
    /\ answer \in {"none", "reply", "refusal"}
    /\ {hurt, fragment} \subseteq BOOLEAN

Contiguous(bytes) ==
    \A i \in 1..(Len(bytes) - 1) :
        bytes[i + 1][1] = NextPlace(bytes[i])

\* What is run is one unbroken piece of a line the client typed, up to its
\* '\r': nothing of two lines, and nothing from either side of a dropped
\* write, is ever put together ("a stitched-together fragment",
\* ble_link.cpp:110-113).  And dropped input costs at most the line it belongs
\* to: a line whose start is missing is run only as the first after an
\* overflow, so the '\r' puts the two sides in step again.
NeverStitched ==
    /\ Contiguous(line)
    /\ \A i \in 1..(Len(line) - 1) : ~IsCR(line[i])
    /\ line # <<>> /\ fragment => line[1][1] = 1

\* Between writes no complete command waits in the buffer, and what waits is
\* the unbroken start of what comes next.
NothingLeftWaiting ==
    task = "idle" =>
        /\ CRs = {}
        /\ Contiguous(rxBuffer)
        /\ rxBuffer # <<>> => place = NextPlace(rxBuffer[Len(rxBuffer)])

\* A reply never holds the NimBLE host task for good, however the
\* notifications fail (ble_link.cpp:58-67).
HostTaskReturns == task # "idle" ~> task = "idle"
=============================================================================
