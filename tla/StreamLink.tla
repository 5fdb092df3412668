----------------------------- MODULE StreamLink -----------------------------
(***************************************************************************)
(* One client of a byte-stream link: serialLinkPoll() of                   *)
(* link/serial_link.cpp, and the read loop of wifiLinkPoll(), which is the *)
(* same loop over a TCP socket.  Bytes go through a LineBuffer, a complete *)
(* line is run or refused, and writeAll() of link/write_all.h pushes the   *)
(* reply into a sink that may accept less than it is given.                *)
(***************************************************************************)
EXTENDS LineBuffer

CONSTANTS kWriteAllMaxStalledAttempts,
          MaxReply,   \* bound: length of a handler's reply
          MaxTyped    \* bound: characters the client types before a CR

ASSUME StreamLinkAssumption ==
    /\ kWriteAllMaxStalledAttempts \in Nat \ {0}
    /\ MaxReply \in Nat /\ MaxReply >= 3
    /\ MaxTyped \in Nat

VARIABLES task,     \* "poll" | "run" | "write"
          buffer,   \* g_buffer
          size,     \* length of the reply
          sent,     \* bytes of it the sink has accepted
          stalled,  \* consecutive attempts it accepted nothing
          (* history *)
          typed,    \* characters typed since the last CR, blanks left out
          ran,      \* what the handler was last called with
          refused,  \* the last line was answered "?" without being run
          quiet     \* attempts since the sink last accepted a byte

vars == <<task, buffer, size, sent, stalled, typed, ran, refused, quiet>>

\* available() > 0: read one byte and offer it.
Read(c) ==
    /\ task = "poll"
    /\ buffer' = Offer(buffer, c)
    /\ IF Completes(c)
       THEN /\ task' = "run"
            /\ UNCHANGED typed
       ELSE /\ Ignored(c) \/ Len(typed) < MaxTyped
            /\ typed' = IF Ignored(c) THEN typed ELSE Append(typed, c)
            /\ UNCHANGED task
    /\ UNCHANGED <<size, sent, stalled, ran, refused, quiet>>

Answer(n) == /\ size' = n
             /\ sent' = 0 /\ stalled' = 0 /\ quiet' = 0
             /\ task' = "write"

\* overflowed(): the command was discarded, so it must not run.
Refuse ==
    /\ task = "run" /\ buffer.overflowed
    /\ refused' = TRUE
    /\ Answer(3)                                    \* "?\r>"
    /\ UNCHANGED <<buffer, typed, ran>>

\* g_handler(line(), reply); every reply ends in '\r' and the prompt.
Run(n) ==
    /\ task = "run" /\ ~buffer.overflowed
    /\ refused' = FALSE
    /\ ran' = Line(buffer)
    /\ Answer(n)
    /\ UNCHANGED <<buffer, typed>>

BackToReading == task' = "poll" /\ typed' = <<>>

\* writeAll: the sink took n bytes.  Mutated: the stall count is kept.
StalledAfterProgressKept == stalled
StalledAfterProgress == 0
WriteSome(n) ==
    /\ task = "write" /\ sent < size
    /\ sent' = sent + n
    /\ stalled' = StalledAfterProgress
    /\ quiet' = 0
    /\ UNCHANGED <<task, buffer, size, typed, ran, refused>>

\* Mutated: retry until the sink takes something.
NeverGiveUp(attempts) == FALSE
GiveUp(attempts) == attempts >= kWriteAllMaxStalledAttempts

\* writeAll: the sink took nothing.  (The modulus bounds the count; it never
\* wraps while GiveUp stops it.)
WriteNothing ==
    /\ task = "write" /\ sent < size
    /\ quiet' = IF quiet < kWriteAllMaxStalledAttempts THEN quiet + 1 ELSE quiet
    /\ IF GiveUp(stalled + 1)
       THEN BackToReading /\ UNCHANGED stalled
       ELSE /\ stalled' = (stalled + 1) % (kWriteAllMaxStalledAttempts + 1)
            /\ UNCHANGED <<task, typed>>
    /\ UNCHANGED <<buffer, size, sent, ran, refused>>

Written ==
    /\ task = "write" /\ sent = size
    /\ BackToReading
    /\ UNCHANGED <<buffer, size, sent, stalled, ran, refused, quiet>>

Init == /\ task = "poll" /\ buffer = EmptyBuffer
        /\ size = 0 /\ sent = 0 /\ stalled = 0
        /\ typed = <<>> /\ ran = <<>> /\ refused = FALSE /\ quiet = 0

Serve == \/ Refuse \/ \E n \in 2..MaxReply : Run(n)
         \/ \E n \in 1..(size - sent) : WriteSome(n)
         \/ WriteNothing \/ Written

Next == (\E c \in Bytes : Read(c)) \/ Serve

Spec == Init /\ [][Next]_vars

\* loop() runs on and each write() returns: USBCDC and WiFiClient time out.
\* Nothing is promised of how much they accept.
FairSpec == Spec /\ WF_vars(Serve)

-----------------------------------------------------------------------------
TypeOK ==
    /\ task \in {"poll", "run", "write"}
    /\ buffer \in LineBuffers
    /\ size \in 0..MaxReply /\ sent \in 0..size
    /\ stalled \in 0..kWriteAllMaxStalledAttempts
    /\ quiet \in 0..kWriteAllMaxStalledAttempts
    /\ typed \in Seq(Chars)
    /\ ran \in Seq(Chars)
    /\ refused \in BOOLEAN

\* A line that fits is run exactly as typed, a longer one is refused and
\* never run as a shorter, different command (line_buffer.h:9-13).
RunsWhatWasTyped ==
    task = "write" => /\ refused <=> Len(typed) > kMaxLine
                      /\ ~refused => ran = Before(typed)

\* A reply is cut short only by a sink that accepted nothing for the full
\* number of attempts: progress, however slow, is never abandoned
\* (write_all.h:51-53).
OnlyDeadSinksCut ==
    [][task = "write" /\ task' = "poll" =>
         sent = size \/ quiet' = kWriteAllMaxStalledAttempts]_vars

\* A sink that stops draining does not wedge loop() (write_all.h:23-28).
LoopComesBack == task # "poll" ~> task = "poll"
=============================================================================
