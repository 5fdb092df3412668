--------------------------- MODULE IsoTpTransfer ---------------------------
(***************************************************************************)
(* One response on its way from an ECU to IsoTpReassembler: the ECU sends  *)
(* its frames in order, waiting for flow control after a first frame; the  *)
(* controller queues them and may lose any of them (its receive queue is   *)
(* finite); the session offers what it receives, and answers a first frame *)
(* with flow control, which the ECU understands or not.  Sizes are the     *)
(* real ones.                                                              *)
(***************************************************************************)
EXTENDS IsoTp, FiniteSets

CONSTANTS Messages,    \* the responses an ECU may give
          Setups,      \* [extended, dlcs]: extended addressing (ATCEA) is on or
                       \* off, and the DLCs the controller may report for a frame
          EcuAddress,  \* the address given to ATCEA
          MaxQueue,    \* bound: frames queued and not yet received
          MaxLost      \* bound: frames lost, refused or ignored

ASSUME TransferAssumption ==
    /\ \A m \in Messages : m \in Seq(0..255) /\ m # <<>>
    /\ Setups \subseteq [extended : BOOLEAN, dlcs : SUBSET (0..15)]
    /\ EcuAddress \in 0..255
    /\ MaxQueue \in Nat \ {0} /\ MaxLost \in Nat

VARIABLES setup,
          message,   \* the response the ECU gives
          sent,      \* frames of it the ECU has sent
          flow,      \* the data of the flow-control frame the ECU was sent, if any
          queue,     \* the controller's receive queue
          lost,      \* frames lost, refused, or ignored for want of a PCI
          reassembler,
          state      \* what offer() last returned, or what came of it

vars == <<setup, message, sent, flow, queue, lost, reassembler, state>>

Extended == setup.extended
Frames == Segment(message, Extended)
Listening == state \in {"Idle", "Collecting"}
Running == Listening \/ state = "NeedFlowControl"

\* An ECU with extended addressing takes the first data byte for an address,
\* and looks for the PCI behind it.
Understands(data) ==
    IF Extended THEN data[1] = EcuAddress /\ data[2] = ContinueToSend
    ELSE data[1] = ContinueToSend
Cleared == flow # <<>> /\ Understands(flow)

\* The next frame goes out and is queued, or lost.
Send ==
    /\ Running
    /\ sent < Len(Frames)
    /\ sent = 1 => Cleared
    /\ sent' = sent + 1
    /\ \/ /\ Len(queue) < MaxQueue
          /\ queue' = Append(queue, Frames[sent + 1])
          /\ UNCHANGED lost
       \/ /\ lost < MaxLost
          /\ lost' = lost + 1
          /\ UNCHANGED queue
    /\ UNCHANGED <<setup, message, flow, reassembler, state>>

\* With extended addressing the session steps over the address byte before
\* it offers the frame, and ignores a frame with no room for address and PCI.
Usable(dlc) == ~Extended \/ dlc >= 2
Offered(dlc) == IF Extended THEN dlc - 1 ELSE dlc

\* A turn of runRequest's loop: receive and offer.
Receive(dlc) ==
    /\ Listening /\ queue # <<>>
    /\ queue' = Tail(queue)
    /\ LET result == Offer(reassembler, Head(queue), Offered(dlc))
       IN  IF Usable(dlc)
           THEN /\ reassembler' = result.r
                /\ state' = result.state
                /\ UNCHANGED lost
           ELSE /\ lost < MaxLost
                /\ lost' = lost + 1
                /\ UNCHANGED <<reassembler, state>>
    /\ UNCHANGED <<setup, message, sent, flow>>

\* The same turn goes on: a first frame is answered with flow control, and the
\* loop with it.
SendFlowControl ==
    /\ state = "NeedFlowControl"
    /\ flow' = buildFlowControlFrame
    /\ state' = "Collecting"
    /\ UNCHANGED <<setup, message, sent, queue, lost, reassembler>>

\* canBusTransmit refuses it: CAN ERROR.
FlowControlFails ==
    /\ state = "NeedFlowControl" /\ lost < MaxLost
    /\ lost' = lost + 1
    /\ state' = "Error"
    /\ UNCHANGED <<setup, message, sent, flow, queue, reassembler>>

Init == /\ setup \in Setups
        /\ message \in Messages
        /\ sent = 0 /\ flow = <<>>
        /\ queue = <<>> /\ lost = 0
        /\ reassembler = Fresh /\ state = "Idle"

Next == \/ Send \/ SendFlowControl \/ FlowControlFails
        \/ \E dlc \in setup.dlcs : Receive(dlc)
Spec == Init /\ [][Next]_vars

-----------------------------------------------------------------------------
\* The subtraction expected_ - payload_.size() is unsigned: that the payload
\* never outgrows what was announced is part of the type.
TypeOK ==
    /\ setup \in Setups
    /\ sent \in 0..Len(Frames) /\ lost \in 0..MaxLost
    /\ flow \in {<<>>, buildFlowControlFrame}
    /\ Len(queue) <= MaxQueue
    /\ reassembler.expected \in {0, Len(message)}
    /\ reassembler.collecting => Len(reassembler.payload) <= reassembler.expected
    /\ reassembler.next \in 0..15
    /\ state \in {"Idle", "NeedFlowControl", "Collecting", "Complete", "Error"}

\* "a bogus DLC can never make us read past the caller's buffer"
\* (reassembler.cpp:13-15).
ReadsOnlyTheFrame ==
    \A i \in DOMAIN reassembler.payload : reassembler.payload[i] # OutOfBounds
=============================================================================
