----------------------------- MODULE ReplyPath -----------------------------
(***************************************************************************)
(* The whole way of an answer: the ECU's frames (IsoTpTransfer), the       *)
(* session's reply to them as text, USB, which may lose characters of it,  *)
(* and what the scanner makes of what is left (ReplyCodec).                *)
(***************************************************************************)
EXTENDS IsoTpTransfer, ReplyCodec

CONSTANTS Spacings,  \* whether bytes are separated (ATS)
          MaxBurst   \* bound: consecutive characters that USB loses of a reply

ASSUME PathAssumption ==
    Spacings \subseteq BOOLEAN /\ MaxBurst \in 0..(2 * kBytesPerLine + 1)

VARIABLES reply,    \* what classify() made of it
          damaged   \* history: characters were lost

pathVars == <<vars, reply, damaged>>

NotYet == Reply("none", <<>>)
NegativeResponse == 127

\* What a whole response is told as, by the session of the scan build and
\* then by the host.
Text(payload, spaces) ==
    IF Head(payload) = NegativeResponse THEN formatNrc(payload[3])
    ELSE formatPayload(payload, spaces)
Meaning(response) ==
    IF Head(response) = NegativeResponse THEN Reply("NEGATIVE", <<response[3]>>)
    ELSE Reply("POSITIVE", response)

\* runRequest's outcomes: an answer, an error, or the deadline, which may come
\* before any turn of the loop.
Outcomes ==
    CASE state = "Complete" ->
            {Text(reassembler.payload, spaces) : spaces \in Spacings}
      [] state = "Error" -> {CanError}
      [] Listening -> {NoData}

\* Without the characters from the a-th of line i to the b-th of line j,
\* this line or the next, and with them the line break between the two.
Without(text, i, a, j, b) ==
    SubSeq(text, 1, i - 1)
    \o <<SubSeq(text[i], 1, a - 1) \o SubSeq(text[j], b + 1, Len(text[j]))>>
    \o SubSeq(text, j + 1, Len(text))

Burst(text, i, a, j, b) ==
    IF i = j THEN b - a + 1 ELSE (Len(text[i]) - a + 1) + 1 + b

Damage(text) ==
    LET Cuts(i, j) == {cut \in (1..(Len(text[i]) + 1)) \X (0..Len(text[j])) :
                          Burst(text, i, cut[1], j, cut[2]) \in 1..MaxBurst}
        From(i, j) == {Without(text, i, cut[1], j, cut[2]) : cut \in Cuts(i, j)}
    IN  UNION {From(i, i) : i \in 1..Len(text)}
        \cup UNION {From(i, i + 1) : i \in 1..(Len(text) - 1)}

\* handleLine answers, and the host reads.  (A fault text that lost characters
\* is no word of classify()'s, and read as an error.)
Report ==
    /\ reply = NotYet /\ state # "NeedFlowControl"
    /\ \E text \in Outcomes :
          \/ reply' = classify(text) /\ damaged' = FALSE
          \/ /\ state = "Complete"
             /\ \E rest \in Damage(text) : reply' = classify(rest)
             /\ damaged' = TRUE
    /\ UNCHANGED vars

PathInit == Init /\ reply = NotYet /\ damaged = FALSE
PathNext == \/ reply = NotYet /\ Next /\ UNCHANGED <<reply, damaged>>
            \/ Report
PathSpec == PathInit /\ [][PathNext]_pathVars

-----------------------------------------------------------------------------
\* A payload the scanner believes is the ECU's response, whole: whatever
\* frames were lost on the bus (sixteen in a row are invisible to the
\* sequence number), and whichever run of up to MaxBurst characters USB lost of
\* the reply, it is never shifted, shortened or padded ("a wrong payload
\* recorded as good data, rather than a loud parse failure",
\* didscan_core.py:150-156).  The bound is a real one: sixteen consecutive
\* characters can deceive classify().  A reply of one line has no length to be
\* held against, and is excepted when it was damaged.
OnlyTheResponse ==
    reply.status = "POSITIVE" =>
        \/ reply.payload = message
        \/ damaged /\ Len(message) <= kBytesPerLine

\* The exchange is at rest: the ECU has sent everything, or waits for a flow
\* control it will not get, and the session has taken all of it.
AtRest == /\ queue = <<>> /\ state # "NeedFlowControl"
          /\ sent = Len(Frames) \/ (sent = 1 /\ ~Cleared)

\* What becomes of a response when no frame is lost or refused.  With normal
\* addressing, and with ATCEA when one frame is enough, it completes, and what
\* the host reads is what the ECU said.  A longer one under ATCEA stops behind
\* its first frame and is told as silence: the flow control (session.cpp:168-173)
\* lacks the address byte that at_parser.h:81-82 has in every frame, and the ECU
\* does not understand it.
LosslessIsRead ==
    AtRest /\ lost = 0 =>
        IF Extended /\ Len(Frames) > 1
        THEN state = "Collecting" /\ reply \in {NotYet, classify(NoData)}
        ELSE /\ state = "Complete"
             /\ reply = NotYet \/ damaged \/ reply = Meaning(message)
=============================================================================
