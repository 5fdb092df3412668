---------------------------- MODULE DiagSession ----------------------------
(***************************************************************************)
(* One diagnostic request after another through Elm327Session::runRequest  *)
(* (elm327/session.cpp), over the CAN controller's finite queues, to ECUs  *)
(* that answer early, late, in several frames, with a rejection, with      *)
(* "response pending", or not at all.  A frame the controller took waits   *)
(* in its transmit queue for as long as nobody acknowledges it, so one     *)
(* queued while the car slept may be sent long after its request was       *)
(* answered NO DATA.  Addressing is normal; IsoTpTransfer has ATCEA.       *)
(*                                                                         *)
(* A payload byte is <<value, request, place>>: its value, which is all    *)
(* the firmware can see, and, for the properties alone, the number of the  *)
(* request the ECU was answering and the byte's place in the response.     *)
(***************************************************************************)
EXTENDS IsoTp, FiniteSets

CONSTANTS Ecus,         \* ECUs; each answers on its own identifier
          All,          \* the functional address 0x7DF
          Commands,     \* the requests a client may send
          MaxRequests,  \* bound: requests sent
          MaxQueue,     \* depth of the controller's receive queue
          TxQueueLen,   \* depth of its transmit queue
          LongReply     \* length of a multi-frame response

\* A command: [to, sid, did, responses].  `to' is the ATSH header, an ECU or
\* All; sid and did are the request's bytes, which fit a single frame
\* (buildSingleFrameRequest); responses is the ATR setting.
ASSUME DiagSessionAssumption ==
    /\ All \notin Ecus
    /\ Commands \subseteq [to : Ecus \cup {All}, sid : 0..255,
                          did : Seq(0..255), responses : BOOLEAN]
    /\ \A c \in Commands : FitsSingleFrame(1 + Len(c.did), FALSE)
    /\ MaxRequests \in Nat /\ {MaxQueue, TxQueueLen} \subseteq Nat \ {0}
    /\ LongReply \in Nat /\ LongReply > 7

VARIABLES
    task,         \* "idle" | "drain" | "send" | "wait" | "flow"
    serial,       \* the number of the present request
    request,      \* the command being run
    reassembler,  \* IsoTpReassembler
    lastFrame,    \* state_.lastFrame: whose frame it is, or nobody's
    answer,       \* the reply: a fault word, or "PAYLOAD" or "NRC"
    body,         \* what the reply was made from
    rxQueue,      \* the controller's receive queue
    txQueue,      \* the controller's transmit queue
    work,         \* work[e]: the request e is working on
    output,       \* output[e]: frames of its response still to send
    held,         \* held[e]: e waits for flow control
    (* history *)
    clean,        \* nothing earlier was under way when this request was given
    fault         \* since then a frame was dropped or a transmit failed

session == <<task, serial, request, reassembler, lastFrame, answer, body>>
ecus    == <<work, output, held>>
vars    == <<session, rxQueue, txQueue, ecus, clean, fault>>

None == [serial |-> 0]
Nobody == "nobody"

-----------------------------------------------------------------------------
(* hexline.cpp: classifyResponse                                           *)

Negative == 127      \* 0x7F
Pending  == 120      \* 0x78
ReadDID  == 34       \* 0x22
Echo(sid) == (sid + 64) % 256

Value(payload, i) == payload[i][1]

\* Services whose positive response is known to echo how many bytes of the
\* identifier.
EchoedBytes(sid) == CASE sid = ReadDID -> 2
                      [] sid \in {1, 9} -> 1
                      [] OTHER -> 0

\* Mutated: the service byte alone identifies the request.
ServiceOnly(command, payload) == TRUE
EchoesIdentifier(command, payload) ==
    LET n == EchoedBytes(command.sid) IN
    n > 0 => /\ Len(command.did) >= n /\ Len(payload) >= n + 1
             /\ \A i \in 1..n : Value(payload, i + 1) = command.did[i]

Rejects(command, payload) == Len(payload) >= 3 /\ Value(payload, 2) = command.sid

classifyResponse(command, payload) ==
    CASE Value(payload, 1) = Negative ->
            IF ~Rejects(command, payload) THEN "Mismatch"
            ELSE IF Value(payload, 3) = Pending THEN "NegativePending"
            ELSE "NegativeFinal"
      [] Value(payload, 1) # Negative ->
            IF Value(payload, 1) = Echo(command.sid)
               /\ EchoesIdentifier(command, payload)
            THEN "Positive" ELSE "Mismatch"

-----------------------------------------------------------------------------
(* The bus.                                                                *)

Reaches(to, e) == to \in {e, All}

\* The receive loop's address check.
Accepted(e) == Reaches(request.to, e)

HasRoom == Len(rxQueue) < MaxQueue

Arrive(e, frame) ==
    IF HasRoom
    THEN /\ rxQueue' = Append(rxQueue, [from |-> e, frame |-> frame])
         /\ UNCHANGED fault
    ELSE /\ fault' = TRUE
         /\ UNCHANGED rxQueue

\* Nothing of an earlier request is under way.
QuietBus == txQueue = <<>> /\ \A e \in Ecus : work[e] = None /\ output[e] = <<>>

TxRoom == Len(txQueue) < TxQueueLen
Queued(kind) == Append(txQueue, [kind |-> kind, serial |-> serial,
                                 command |-> request])

\* canBusTransmit fails: the driver is not running or its queue stayed full;
\* where recoverIfBusOff initiates the recovery, what was queued is dropped.
TransmitLost == /\ txQueue' \in {txQueue, <<>>}
                /\ fault' = TRUE

-----------------------------------------------------------------------------
(* runRequest                                                              *)

\* handleLine calls runRequest with a line that parses and fits.
Command(c) ==
    /\ task = "idle" /\ serial < MaxRequests
    /\ task' = "drain"
    /\ serial' = serial + 1
    /\ request' = c
    /\ answer' = "none" /\ body' = <<>>
    /\ clean' = QuietBus
    /\ fault' = FALSE
    /\ UNCHANGED <<reassembler, lastFrame, rxQueue, txQueue, ecus>>

Reply(text, payload) ==
    /\ task' = "idle"
    /\ answer' = text /\ body' = payload
    /\ reassembler' = Fresh
    /\ UNCHANGED <<serial, request>>

\* hexLineToBytes or buildSingleFrameRequest fails: nothing reaches the bus.
Unparseable ==
    /\ task = "idle"
    /\ Reply("?", <<>>)
    /\ UNCHANGED <<lastFrame, rxQueue, txQueue, ecus, clean, fault>>

Drain ==
    /\ task = "drain" /\ rxQueue # <<>>
    /\ rxQueue' = Tail(rxQueue)
    /\ UNCHANGED <<session, txQueue, ecus, clean, fault>>

\* Mutated: the queue is not drained before a request.
DrainSkipped == TRUE
DrainedDry == rxQueue = <<>>
Drained ==
    /\ task = "drain" /\ DrainedDry
    /\ task' = "send"
    /\ UNCHANGED <<serial, request, reassembler, lastFrame, answer, body,
                   rxQueue, txQueue, ecus, clean, fault>>

\* canBusTransmit succeeded, which says the frame is queued and not that
\* anyone heard it.
Transmit ==
    /\ task = "send" /\ TxRoom
    /\ txQueue' = Queued("request")
    /\ IF request.responses
       THEN /\ task' = "wait"
            /\ UNCHANGED <<serial, request, reassembler, answer, body>>
       ELSE Reply("OK", <<>>)
    /\ UNCHANGED <<lastFrame, rxQueue, ecus, clean, fault>>

TransmitFails ==
    /\ task = "send"
    /\ Reply("CanError", <<>>)
    /\ TransmitLost
    /\ UNCHANGED <<lastFrame, rxQueue, ecus, clean>>

\* What happens to a response that is complete.
Concludes(match) == match \in {"Positive", "NegativeFinal"}

Judge(payload) ==
    LET match == classifyResponse(request, payload) IN
    IF Concludes(match)
    THEN Reply(IF match = "Positive" THEN "PAYLOAD" ELSE "NRC", payload)
    ELSE /\ reassembler' = Fresh
         /\ UNCHANGED <<task, serial, request, answer, body>>

\* One turn of the receive loop.
Receive ==
    /\ task = "wait" /\ rxQueue # <<>>
    /\ rxQueue' = Tail(rxQueue)
    /\ LET rx == Head(rxQueue)
           offer == Offer(reassembler, rx.frame, 8)
       IN  IF ~Accepted(rx.from)
           THEN UNCHANGED session
           ELSE /\ lastFrame' = rx.from
                /\ CASE offer.state = "Complete" -> Judge(offer.r.payload)
                     [] offer.state = "NeedFlowControl" ->
                            /\ reassembler' = offer.r
                            /\ task' = "flow"
                            /\ UNCHANGED <<serial, request, answer, body>>
                     [] offer.state = "Collecting" ->
                            /\ reassembler' = offer.r
                            /\ UNCHANGED <<task, serial, request, answer, body>>
                     [] offer.state = "Error" -> Reply("CanError", <<>>)
    /\ UNCHANGED <<txQueue, ecus, clean, fault>>

\* The flow-control frame goes to the request's own header.
SendFlowControl ==
    /\ task = "flow" /\ TxRoom
    /\ task' = "wait"
    /\ txQueue' = Queued("flow")
    /\ UNCHANGED <<serial, request, reassembler, lastFrame, answer, body,
                   rxQueue, ecus, clean, fault>>

FlowControlFails ==
    /\ task = "flow"
    /\ Reply("CanError", <<>>)
    /\ TransmitLost
    /\ UNCHANGED <<lastFrame, rxQueue, ecus, clean>>

\* millis() has reached the deadline.  Mutated: a transfer under way is
\* given more time, without end.
ExpiresUnlessCollecting == ~reassembler.collecting
Expires == TRUE
Timeout ==
    /\ task = "wait" /\ Expires
    /\ Reply("NoData", <<>>)
    /\ UNCHANGED <<lastFrame, rxQueue, txQueue, ecus, clean, fault>>

-----------------------------------------------------------------------------
(* The bus and the ECUs (not part of src/): everything CAN, UDS and ISO-TP *)
(* let them do.                                                            *)

\* Somebody acknowledges the oldest queued frame, at last.  Of the ECUs it is
\* addressed to some take it up: an ECU that hears a request while busy turns
\* to it, or ignores it.
RequestSent(hearers) ==
    /\ txQueue # <<>> /\ Head(txQueue).kind = "request"
    /\ hearers \subseteq {e \in Ecus : Reaches(Head(txQueue).command.to, e)}
    /\ txQueue' = Tail(txQueue)
    /\ work' = [e \in Ecus |-> IF e \in hearers
                               THEN [serial |-> Head(txQueue).serial,
                                     command |-> Head(txQueue).command,
                                     pended |-> FALSE]
                               ELSE work[e]]
    /\ output' = [e \in Ecus |-> IF e \in hearers THEN <<>> ELSE output[e]]
    /\ held'   = [e \in Ecus |-> e \notin hearers /\ held[e]]
    /\ UNCHANGED <<session, rxQueue, clean, fault>>

FlowControlSent ==
    /\ txQueue # <<>> /\ Head(txQueue).kind = "flow"
    /\ txQueue' = Tail(txQueue)
    /\ held' = [e \in Ecus |-> held[e]
                   /\ ~Reaches(Head(txQueue).command.to, e)]
    /\ UNCHANGED <<session, rxQueue, work, output, clean, fault>>

Bytes(values, n) == [i \in DOMAIN values |-> <<values[i], n, i>>]
Filler(n) == [i \in 1..n |-> 0]

Positive(c)   == <<Echo(c.sid)>> \o c.did
Long(c)       == LET head == Positive(c) IN head \o Filler(LongReply - Len(head))
Rejection(c, nrc) == <<Negative, c.sid, nrc>>

\* An ECU at work settles on its response and starts to send it.
EcuResponds(e) ==
    /\ work[e] # None /\ output[e] = <<>>
    /\ LET n == work[e].serial
           c == work[e].command IN
       \/ \E values \in {Positive(c), Long(c), Rejection(c, 49)} :
             /\ output' = [output EXCEPT ![e] = Segment(Bytes(values, n), FALSE)]
             /\ work' = [work EXCEPT ![e] = None]
       \/ /\ ~work[e].pended
          /\ output' = [output EXCEPT ![e] =
                           Segment(Bytes(Rejection(c, Pending), n), FALSE)]
          /\ work' = [work EXCEPT ![e].pended = TRUE]
       \/ /\ work' = [work EXCEPT ![e] = None]
          /\ UNCHANGED output
    /\ UNCHANGED <<session, rxQueue, txQueue, held, clean, fault>>

\* The next frame; after a first frame the ECU waits for flow control.
EcuSends(e) ==
    /\ output[e] # <<>> /\ ~held[e]
    /\ Arrive(e, Head(output[e]))
    /\ output' = [output EXCEPT ![e] = Tail(@)]
    /\ held' = [held EXCEPT ![e] = Head(output[e]).pci = "FF"]
    /\ UNCHANGED <<session, txQueue, work, clean>>

\* No flow control came in time: the rest is abandoned.
EcuGivesUp(e) ==
    /\ held[e]
    /\ output' = [output EXCEPT ![e] = <<>>]
    /\ held' = [held EXCEPT ![e] = FALSE]
    /\ UNCHANGED <<session, rxQueue, txQueue, work, clean, fault>>

-----------------------------------------------------------------------------
NoCommand == [to |-> All, sid |-> 0, did |-> <<>>, responses |-> TRUE]

Init ==
    /\ task = "idle" /\ serial = 0 /\ request = NoCommand
    /\ reassembler = Fresh /\ lastFrame = Nobody
    /\ answer = "none" /\ body = <<>>
    /\ rxQueue = <<>> /\ txQueue = <<>>
    /\ work = [e \in Ecus |-> None]
    /\ output = [e \in Ecus |-> <<>>]
    /\ held = [e \in Ecus |-> FALSE]
    /\ clean = FALSE /\ fault = FALSE

RunRequest == \/ Drain \/ Drained
              \/ Transmit \/ TransmitFails \/ Receive
              \/ SendFlowControl \/ FlowControlFails \/ Timeout
Client == Unparseable \/ \E c \in Commands : Command(c)
Bus == FlowControlSent \/ \E hearers \in SUBSET Ecus : RequestSent(hearers)
Ecu == \E e \in Ecus : EcuResponds(e) \/ EcuSends(e) \/ EcuGivesUp(e)

Next == RunRequest \/ Client \/ Bus \/ Ecu

Spec == Init /\ [][Next]_vars

\* runRequest runs on: its calls into the driver return, and time passes, so
\* the deadline comes.  Clients, the bus and the ECUs promise nothing.
FairSpec == Spec /\ WF_vars(RunRequest) /\ WF_vars(Timeout)

-----------------------------------------------------------------------------
\* What is kept and answered came in a frame, never from the memory beyond it.
\* Where frames were lost a payload may have padding in it.
Byte == (0..255) \X (1..MaxRequests) \X (1..LongReply)
IsBytes(payload) == payload \in Seq(Byte \cup {Pad})

TypeOK ==
    /\ task \in {"idle", "drain", "send", "wait", "flow"}
    /\ serial \in 0..MaxRequests
    /\ request \in Commands \cup {NoCommand}
    /\ IsBytes(reassembler.payload) /\ reassembler.next \in 0..15
    /\ lastFrame \in Ecus \cup {Nobody}
    /\ answer \in {"none", "?", "OK", "NoData", "CanError", "PAYLOAD", "NRC"}
    /\ IsBytes(body)
    /\ \A e \in Ecus : work[e] = None \/ work[e].command \in Commands
    /\ {clean, fault} \subseteq BOOLEAN

Physical == request.to \in Ecus

\* Each byte is in its place in one and the same response to request n.
From(n) == \A i \in DOMAIN body : body[i][2] = n /\ body[i][3] = i

\* c asks the same service for the same identifier.
SameIdentifier(c) ==
    /\ c.sid = request.sid
    /\ Len(c.did) >= EchoedBytes(c.sid)
    /\ \A i \in 1..EchoedBytes(c.sid) : c.did[i] = request.did[i]

\* A payload answers the question that was asked: its identifier is the one
\* requested, even when it is a late answer to an earlier request, and it is
\* one response, whole, unless the receive queue overflowed meanwhile, which
\* nothing in the session looks at (README.md:159-163).  Only for physical
\* addressing and for the services whose echo is verified: several ECUs answer
\* 0x7DF at once.
CorrelatedAnswer ==
    answer = "PAYLOAD" /\ Physical /\ EchoedBytes(request.sid) > 0 =>
        /\ \A i \in 1..(EchoedBytes(request.sid) + 1) :
               body[i] = <<Positive(request)[i], body[1][2], i>>
        /\ \/ Len(body) = LongReply
           \/ \E c \in Commands : /\ SameIdentifier(c)
                                  /\ Len(body) = Len(Positive(c))
        /\ ~fault => From(body[1][2])

\* What the drain is for: a request given when no ECU is still at work on an
\* earlier one is answered by its own response or not at all, and it meets no
\* error but a real one, although the receive queue may still hold frames of
\* earlier responses (session.cpp:76-85).
QuietStartIsSound ==
    task = "idle" /\ clean /\ ~fault /\ Physical =>
        /\ answer \in {"PAYLOAD", "NRC"} => From(serial)
        /\ answer # "CanError"

\* Every command gets its prompt, whatever the ECUs do or leave undone, and
\* one that keeps answering "pending" included (session.cpp:157-160).
EveryCommandIsAnswered == task # "idle" ~> task = "idle"
=============================================================================
