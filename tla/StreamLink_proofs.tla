--------------------------- MODULE StreamLink_proofs ---------------------------
EXTENDS StreamLink, SequenceTheorems, WellFoundedInduction, TLAPS

USE StreamLinkAssumption, LineBufferAssumption
    DEF StreamLinkAssumption, LineBufferAssumption

\* There is a first NUL, where there is one.
LEMMA LeastElement ==
  ASSUME NEW T, T \subseteq Nat, T # {}
  PROVE  \E n \in T : \A m \in T : n <= m
<1> DEFINE Less == {pair \in Nat \X Nat : pair[1] < pair[2]}
<1>1. \E n \in T : \A m \in T : ~ (<<m, n>> \in OpToRel(<, Nat))
  BY NatLessThanWellFounded, WFMin, Zenon
<1>2. OpToRel(<, Nat) = Less
  BY Zenon DEF OpToRel
<1>3. PICK n \in T : \A m \in T : ~ (<<m, n>> \in Less)
  BY <1>1, <1>2, Zenon
<1>4. ASSUME NEW m \in T PROVE n <= m
  <2>1. m \in Nat /\ n \in Nat
    OBVIOUS
  <2>2. ~ (<<m, n>> \in Less)
    BY <1>3, Zenon
  <2> QED
    BY <2>1, <2>2
<1> QED
  BY <1>4, Zenon

(***************************************************************************)
(* What a C string function sees of characters and of the same characters  *)
(* at the start of a longer buffer, with a NUL behind them, is the same.   *)
(***************************************************************************)
Ends(chars) == {n \in 0..Len(chars) : n = Len(chars) \/ chars[n + 1] = NUL}

LEMMA LeastEnd ==
  ASSUME NEW s \in Seq(Chars)
  PROVE  \E n \in Ends(s) : /\ \A m \in Ends(s) : n <= m
                            /\ Before(s) = SubSeq(s, 1, n)
<1>1. Ends(s) \subseteq Nat /\ Len(s) \in Ends(s)
  BY DEF Ends
<1>2. \E n \in Ends(s) : \A m \in Ends(s) : n <= m
  BY <1>1, LeastElement
<1> DEFINE n == CHOOSE k \in Ends(s) : \A m \in Ends(s) : k <= m
<1>3. n \in Ends(s) /\ \A m \in Ends(s) : n <= m
  BY <1>2
<1>4. Before(s) = SubSeq(s, 1, n)
  BY DEF Before, Ends
<1> QED
  BY <1>3, <1>4

LEMMA BeforeIsText ==
  ASSUME NEW s \in Seq(Chars)
  PROVE  Before(s) \in Seq(Chars)
<1>1. PICK n \in Ends(s) : Before(s) = SubSeq(s, 1, n)
  BY LeastEnd
<1>2. n \in 0..Len(s)
  BY DEF Ends
<1>3. \A i \in 1..n : s[i] \in Chars
  BY <1>2, ElementOfSeq
<1> QED
  BY <1>1, <1>2, <1>3, SubSeqProperties

LEMMA BeforeNUL ==
  ASSUME NEW s \in Seq(Chars), NEW t \in Seq(Chars), Len(t) < Len(s),
         \A i \in 1..Len(t) : s[i] = t[i],
         s[Len(t) + 1] = NUL
  PROVE  Before(s) = Before(t)
<1>1. PICK m \in Ends(s) : /\ \A k \in Ends(s) : m <= k
                           /\ Before(s) = SubSeq(s, 1, m)
  BY LeastEnd
<1>2. PICK n \in Ends(t) : /\ \A k \in Ends(t) : n <= k
                           /\ Before(t) = SubSeq(t, 1, n)
  BY LeastEnd
<1>3. /\ Len(s) \in Nat /\ Len(t) \in Nat
      /\ m \in 0..Len(s) /\ n \in 0..Len(t)
  BY DEF Ends
<1>4. Len(t) \in Ends(s)
  BY <1>3 DEF Ends
<1>5. m \in Ends(t)
  BY <1>1, <1>3, <1>4 DEF Ends
<1>6. n \in Ends(s)
  BY <1>2, <1>3, <1>4 DEF Ends
<1>7. m = n
  BY <1>1, <1>2, <1>3, <1>5, <1>6
<1>8. \A i \in 1..n : s[i] = t[i] /\ s[i] \in Chars /\ t[i] \in Chars
  BY <1>3, ElementOfSeq
<1>9. /\ SubSeq(s, 1, n) \in Seq(Chars) /\ Len(SubSeq(s, 1, n)) = n
      /\ \A i \in 1..n : SubSeq(s, 1, n)[i] = s[i]
  BY <1>3, <1>8, SubSeqProperties, 1 <= n \/ n = 0
<1>10. /\ SubSeq(t, 1, n) \in Seq(Chars) /\ Len(SubSeq(t, 1, n)) = n
       /\ \A i \in 1..n : SubSeq(t, 1, n)[i] = t[i]
  BY <1>3, <1>8, SubSeqProperties, 1 <= n \/ n = 0
<1>11. SubSeq(s, 1, n) = SubSeq(t, 1, n)
  BY <1>8, <1>9, <1>10, SeqEqual
<1> QED
  BY <1>1, <1>2, <1>7, <1>11

-----------------------------------------------------------------------------
(***************************************************************************)
(* RunsWhatWasTyped follows from what the buffer holds of the line being   *)
(* typed: all of it while it fits, and else a mark that it did not.        *)
(***************************************************************************)
Holds(b, text) == /\ Len(text) <= kMaxLine
                  /\ \A i \in 1..Len(text) : b.line[i - 1] = text[i]

BufferFollows ==
    /\ task = "poll" /\ buffer.discarding => Len(typed) > kMaxLine
    /\ task = "poll" /\ ~buffer.discarding =>
          Holds(buffer, typed) /\ buffer.len = Len(typed)
    /\ task = "run" /\ buffer.overflowed => Len(typed) > kMaxLine
    /\ task = "run" /\ ~buffer.overflowed =>
          Holds(buffer, typed) /\ buffer.line[Len(typed)] = NUL
    /\ task # "poll" => buffer.len = 0 /\ ~buffer.discarding

\* writeAll's stall count is the number of attempts since progress.
StallsCounted ==
    task = "write" => quiet = stalled /\ stalled < kWriteAllMaxStalledAttempts

IInv == TypeOK /\ RunsWhatWasTyped /\ BufferFollows /\ StallsCounted

LEMMA LineIsText ==
  ASSUME NEW b \in LineBuffers
  PROVE  Line(b) \in Seq(Chars)
<1> DEFINE s == [i \in 1..kMaxLine + 1 |-> b.line[i - 1]]
<1>1. \A i \in 1..kMaxLine + 1 : b.line[i - 1] \in Chars
  BY DEF LineBuffers
<1>2. s \in Seq(Chars)
  BY <1>1, IsASeq
<1> QED
  BY <1>2, BeforeIsText DEF Line

LEMMA LineIsWhatItHolds ==
  ASSUME NEW b \in LineBuffers, NEW text \in Seq(Chars),
         Holds(b, text), b.line[Len(text)] = NUL
  PROVE  Line(b) = Before(text)
<1> DEFINE s == [i \in 1..kMaxLine + 1 |-> b.line[i - 1]]
<1>1. \A i \in 1..kMaxLine + 1 : b.line[i - 1] \in Chars
  BY DEF LineBuffers
<1>2. s \in Seq(Chars) /\ Len(s) = kMaxLine + 1
  BY <1>1, IsASeq
<1>3. Len(text) \in Nat /\ Len(text) < Len(s)
  BY <1>2 DEF Holds
<1>4. s[Len(text) + 1] = NUL
  BY <1>3, <1>2
<1>5. \A i \in 1..Len(text) : s[i] = text[i]
  BY <1>2, <1>3 DEF Holds
<1> HIDE DEF s
<1>6. Before(s) = Before(text)
  BY <1>2, <1>3, <1>4, <1>5, BeforeNUL
<1> QED
  BY <1>6 DEF Line, s

LEMMA OfferTypes ==
  ASSUME NEW b \in LineBuffers, NEW c \in Bytes
  PROVE  Offer(b, c) \in LineBuffers
<1>1. CASE Ignored(c)
  <2>1. Offer(b, c) = b
    <3>1. ~Completes(c)
      BY <1>1 DEF Ignored, Completes
    <3> QED
      BY <1>1, <3>1 DEF Offer
  <2> QED
    BY <2>1
<1>2. CASE ~Ignored(c) /\ Completes(c)
  <2>1. Offer(b, c) = Completed(b)
    BY <1>2 DEF Offer
  <2> QED
    BY <2>1 DEF Completed, LineBuffers
<1>3. CASE ~Ignored(c) /\ ~Completes(c)
  <2>1. Offer(b, c) = Stored(b, c) /\ c \in Chars
    BY <1>3 DEF Offer, Ignored, Completes, Bytes
  <2>2. CASE b.discarding
    BY <2>1, <2>2 DEF Stored
  <2>3. CASE ~b.discarding /\ b.len >= kMaxLine
    <3>1. Offer(b, c) = [b EXCEPT !.discarding = TRUE]
      BY <2>1, <2>3 DEF Stored
    <3> QED
      BY <3>1 DEF LineBuffers
  <2>4. CASE ~b.discarding /\ ~(b.len >= kMaxLine)
    <3>1. Offer(b, c) = [b EXCEPT !.line = [b.line EXCEPT ![b.len] = c],
                                  !.len = b.len + 1]
      BY <2>1, <2>4 DEF Stored, LineBuffers
    <3>2. /\ [b.line EXCEPT ![b.len] = c] \in [0..kMaxLine -> Chars]
          /\ b.len + 1 \in 0..kMaxLine
      BY <2>1, <2>4 DEF LineBuffers
    <3> QED
      BY <3>1, <3>2 DEF LineBuffers
  <2> QED
    BY <2>2, <2>3, <2>4
<1> QED
  BY <1>1, <1>2, <1>3

LEMMA InvInit == Init => IInv
<1> SUFFICES ASSUME Init PROVE IInv
  OBVIOUS
<1> USE DEF Init, EmptyBuffer
<1>1. TypeOK
  BY DEF TypeOK, LineBuffers
<1>2. BufferFollows
  BY DEF BufferFollows, Holds
<1> QED
  BY <1>1, <1>2 DEF IInv, RunsWhatWasTyped, StallsCounted

LEMMA ReadStep ==
  ASSUME IInv, NEW c \in Bytes, Read(c)
  PROVE  IInv'
<1> USE DEF IInv, TypeOK
<1>1. buffer' \in LineBuffers
  BY OfferTypes DEF Read
<1>2. typed' \in Seq(Chars)
  BY DEF Read, Completes, Ignored, Bytes
<1>3. TypeOK'
  BY <1>1, <1>2 DEF Read
<1>4. BufferFollows'
  <2>1. CASE Completes(c)
    <3>1. /\ task' = "run" /\ typed' = typed
          /\ buffer' = Completed(buffer)
      BY <2>1 DEF Read, Offer, Completes, Ignored
    <3>2. CASE buffer.discarding
      BY <3>1, <3>2 DEF Completed, BufferFollows, LineBuffers, Read
    <3>3. CASE ~buffer.discarding
      <4>1. Holds(buffer, typed) /\ buffer.len = Len(typed)
        BY <3>3 DEF BufferFollows, Read
      <4>2. /\ buffer'.line = [buffer.line EXCEPT ![Len(typed)] = NUL]
            /\ buffer'.len = 0 /\ ~buffer'.overflowed /\ ~buffer'.discarding
        BY <3>1, <3>3, <4>1 DEF Completed
      <4>3. Holds(buffer', typed) /\ buffer'.line[Len(typed)] = NUL
        BY <4>1, <4>2 DEF Holds, LineBuffers
      <4> QED
        BY <3>1, <4>2, <4>3 DEF BufferFollows
    <3> QED
      BY <3>2, <3>3
  <2>2. CASE Ignored(c)
    BY <2>2 DEF Read, Offer, Ignored, Completes, BufferFollows
  <2>3. CASE ~Completes(c) /\ ~Ignored(c)
    <3>1. /\ task = "poll" /\ task' = "poll" /\ typed' = Append(typed, c)
          /\ buffer' = Stored(buffer, c) /\ c \in Chars
      BY <2>3 DEF Read, Offer, Completes, Ignored, Bytes
    <3>2. /\ Len(typed') = Len(typed) + 1 /\ Len(typed) \in Nat
          /\ \A i \in 1..Len(typed) : typed'[i] = typed[i]
          /\ typed'[Len(typed) + 1] = c
      BY <3>1, AppendProperties
    <3>3. CASE buffer.discarding
      BY <3>1, <3>2, <3>3 DEF Stored, BufferFollows
    <3>4. CASE ~buffer.discarding /\ buffer.len >= kMaxLine
      BY <3>1, <3>2, <3>4 DEF Stored, BufferFollows, LineBuffers
    <3>5. CASE ~buffer.discarding /\ ~(buffer.len >= kMaxLine)
      <4>1. Holds(buffer, typed) /\ buffer.len = Len(typed)
        BY <3>1, <3>5 DEF BufferFollows
      <4>2. buffer' = [buffer EXCEPT !.line = [buffer.line EXCEPT ![Len(typed)] = c],
                                     !.len = Len(typed) + 1]
        BY <3>1, <3>5, <4>1 DEF Stored, LineBuffers
      <4>3. /\ buffer'.line = [buffer.line EXCEPT ![Len(typed)] = c]
            /\ buffer'.len = Len(typed') /\ ~buffer'.discarding
        BY <3>2, <3>5, <4>2 DEF LineBuffers
      <4>5. /\ Len(typed) < kMaxLine /\ Len(typed) \in 0..kMaxLine
            /\ buffer.line \in [0..kMaxLine -> Chars]
        BY <3>2, <3>5, <4>1 DEF LineBuffers
      <4>6. ASSUME NEW i \in 1..Len(typed') PROVE buffer'.line[i - 1] = typed'[i]
        <5>1. CASE i <= Len(typed)
          <6>1. /\ i \in 1..Len(typed) /\ i - 1 \in 0..kMaxLine
                /\ i - 1 # Len(typed)
            BY <3>2, <4>5, <5>1
          <6>2. buffer'.line[i - 1] = buffer.line[i - 1]
            BY <4>3, <4>5, <6>1
          <6> QED
            BY <3>2, <4>1, <6>1, <6>2 DEF Holds
        <5>2. CASE i = Len(typed) + 1
          <6>1. i - 1 = Len(typed)
            BY <3>2, <5>2
          <6> QED
            BY <3>2, <4>3, <4>5, <5>2, <6>1
        <5> QED
          BY <3>2, <5>1, <5>2
      <4>4. Holds(buffer', typed')
        BY <3>2, <4>5, <4>6 DEF Holds
      <4> QED
        BY <3>1, <4>3, <4>4 DEF BufferFollows
    <3> QED
      BY <3>3, <3>4, <3>5
  <2> QED
    BY <2>1, <2>2, <2>3
<1>5. task' # "write"
  BY DEF Read
<1> QED
  BY <1>3, <1>4, <1>5 DEF RunsWhatWasTyped, StallsCounted

LEMMA ServeStep ==
  ASSUME IInv, Serve
  PROVE  IInv'
<1> USE DEF IInv, TypeOK
<1>1. CASE Refuse
  BY <1>1 DEF Refuse, Answer, RunsWhatWasTyped, BufferFollows, StallsCounted
<1>2. ASSUME NEW n \in 2..MaxReply, Run(n) PROVE IInv'
  <2>1. ran' = Before(typed) /\ Len(typed) <= kMaxLine
    BY <1>2, LineIsWhatItHolds DEF Run, BufferFollows, Holds
  <2>2. ran' \in Seq(Chars)
    BY <2>1, BeforeIsText
  <2>3. BufferFollows'
    BY <1>2 DEF Run, Answer, BufferFollows
  <2>4. /\ task' = "write" /\ buffer' = buffer /\ size' = n /\ refused' = FALSE
        /\ sent' = 0 /\ stalled' = 0 /\ quiet' = 0 /\ typed' = typed
    BY <1>2 DEF Run, Answer
  <2>5. TypeOK'
    <3>1. n \in 0..MaxReply /\ 0 \in 0..n /\ 0 \in 0..kWriteAllMaxStalledAttempts
      OBVIOUS
    <3> QED
      BY <2>2, <2>4, <3>1
  <2>7. StallsCounted'
    BY <2>4 DEF StallsCounted
  <2>6. RunsWhatWasTyped'
    BY <2>1, <2>4 DEF RunsWhatWasTyped
  <2> QED
    BY <2>3, <2>5, <2>6, <2>7
<1>3. ASSUME NEW n \in 1..(size - sent), WriteSome(n) PROVE IInv'
  <2>1. BufferFollows' /\ RunsWhatWasTyped'
    BY <1>3 DEF WriteSome, BufferFollows, RunsWhatWasTyped
  <2> QED
    BY <1>3, <2>1 DEF WriteSome, StalledAfterProgress, StallsCounted
<1>4. CASE WriteNothing
  <2>1. CASE GiveUp(stalled + 1)
    <3>1. typed' = <<>> /\ task' = "poll" /\ buffer' = buffer
      BY <1>4, <2>1 DEF WriteNothing, BackToReading
    <3>2. BufferFollows'
      BY <1>4, <3>1 DEF WriteNothing, BufferFollows, Holds
    <3> QED
      BY <1>4, <2>1, <3>1, <3>2
      DEF WriteNothing, RunsWhatWasTyped, StallsCounted
  <2>2. CASE ~GiveUp(stalled + 1)
    <3>1. stalled' = stalled + 1 /\ stalled + 1 < kWriteAllMaxStalledAttempts
      BY <1>4, <2>2 DEF WriteNothing, GiveUp
    <3>2. quiet' = quiet + 1 /\ quiet = stalled
      BY <1>4, <3>1 DEF WriteNothing, StallsCounted
    <3>3. BufferFollows' /\ RunsWhatWasTyped'
      BY <1>4, <2>2 DEF WriteNothing, BufferFollows, RunsWhatWasTyped
    <3> QED
      BY <1>4, <2>2, <3>1, <3>2, <3>3 DEF WriteNothing, StallsCounted
  <2> QED
    BY <2>1, <2>2
<1>5. CASE Written
  <2>1. BufferFollows'
    BY <1>5 DEF Written, BackToReading, BufferFollows, Holds
  <2> QED
    BY <1>5, <2>1 DEF Written, BackToReading, RunsWhatWasTyped, StallsCounted
<1> QED
  BY <1>1, <1>2, <1>3, <1>4, <1>5 DEF Serve

LEMMA InvStep == IInv /\ [Next]_vars => IInv'
<1> SUFFICES ASSUME IInv, [Next]_vars PROVE IInv'
  OBVIOUS
<1>1. CASE UNCHANGED vars
  BY <1>1 DEF vars, IInv, TypeOK, RunsWhatWasTyped, BufferFollows, Holds, StallsCounted
<1> QED
  BY <1>1, ReadStep, ServeStep DEF Next

LEMMA Invariance == Spec => []IInv
  BY InvInit, InvStep, PTL DEF Spec

\* The line, its length and the counts of writeAll stay in range.
THEOREM TypeCorrect == Spec => []TypeOK
<1>1. IInv => TypeOK
  BY DEF IInv
<1> QED
  BY <1>1, Invariance, PTL

\* For every line limit and character set: a line that fits is run as typed, a
\* longer one is refused.
THEOREM LinesAreWhole == Spec => []RunsWhatWasTyped
<1>1. IInv => RunsWhatWasTyped
  BY DEF IInv
<1> QED
  BY <1>1, Invariance, PTL

\* For every number of attempts: a reply is cut short only by a sink that took
\* nothing for all of them.
THEOREM ProgressIsNeverCut == Spec => OnlyDeadSinksCut
<1> DEFINE Cut == task = "write" /\ task' = "poll" =>
                    sent = size \/ quiet' = kWriteAllMaxStalledAttempts
<1>1. ASSUME IInv, [Next]_vars PROVE [Cut]_vars
  <2> USE DEF IInv, TypeOK
  <2>1. ASSUME NEW c \in Bytes, Read(c) PROVE Cut
    BY <2>1 DEF Read
  <2>2. CASE Refuse
    BY <2>2 DEF Refuse, Answer
  <2>3. ASSUME NEW n \in 2..MaxReply, Run(n) PROVE Cut
    BY <2>3 DEF Run, Answer
  <2>4. ASSUME NEW n \in 1..(size - sent), WriteSome(n) PROVE Cut
    BY <2>4 DEF WriteSome
  <2>5. CASE WriteNothing
    <3>1. GiveUp(stalled + 1) => quiet' = kWriteAllMaxStalledAttempts
      <4>1. quiet = stalled /\ stalled < kWriteAllMaxStalledAttempts
        BY <1>1, <2>5 DEF WriteNothing, StallsCounted
      <4>2. quiet' = IF quiet < kWriteAllMaxStalledAttempts THEN quiet + 1 ELSE quiet
        BY <1>1, <2>5 DEF WriteNothing
      <4> QED
        BY <1>1, <4>1, <4>2 DEF GiveUp
    <3>2. ~GiveUp(stalled + 1) => task' = task
      BY <1>1, <2>5 DEF WriteNothing
    <3> QED
      BY <3>1, <3>2
  <2>6. CASE Written
    BY <2>6 DEF Written
  <2> QED
    BY <1>1, <2>1, <2>2, <2>3, <2>4, <2>5, <2>6 DEF Next, Serve
<1> QED
  BY <1>1, Invariance, PTL DEF Spec, OnlyDeadSinksCut
=============================================================================
