-------------------------- MODULE LinkArbitration --------------------------
(***************************************************************************)
(* Who may touch the single Elm327Session when BLE and WiFi are both up    *)
(* (the -DWIFI build): link/session_owner.h, link/ble_link.cpp and         *)
(* link/wifi_link.cpp.                                                     *)
(*                                                                         *)
(* Two tasks run concurrently.  The NimBLE host task serves one GAP/GATT   *)
(* event at a time and runs a whole command inside the event; loop() runs  *)
(* wifiLinkPoll() over and over.  They share one atomic, `owner'.  Every   *)
(* action below touches that atomic at most once and otherwise only state  *)
(* private to its task, so it stands for every finer interleaving.         *)
(*                                                                         *)
(* A piece of input is abstracted to the client that wrote it: a buffer    *)
(* and a command are the SET of clients whose bytes they contain.          *)
(***************************************************************************)
EXTENDS Naturals, FiniteSets

CONSTANTS Handles,    \* BLE connection handles; the controller reuses them
          Sockets,    \* TCP clients
          NoSocket,   \* g_client holding no socket
          MaxLines,   \* bound: complete lines in one BLE write
          MaxInbox    \* bound: unread pieces a TCP client may have queued

ASSUME ConstantsAssumption ==
    /\ Handles # {}
    /\ NoSocket \notin Sockets
    /\ MaxLines \in Nat \ {0}
    /\ MaxInbox \in Nat \ {0}

VARIABLES
    owner,        \* sessionOwner()
    (* NimBLE host task *)
    conn,         \* connections announced by onConnect
    lost,         \* those the peer left, or that disconnect() was called on
    advertising,
    ownerHandle,  \* g_ownerHandle, meaningful only while owner = "Ble"
    rxBuffer,     \* g_rxBuffer: the writers of its bytes
    bleTask,      \* "idle" (between events) | "feeding" | "handling"
    writer,       \* the connection whose write feed() is processing
    bleLine,      \* the writers of the command being run
    bleMore,      \* complete lines of this write still to run
    (* loop() task *)
    wifiTask,     \* "check" | "accept" | "read" | "handling"
    client,       \* g_client
    lineBuffer,   \* g_buffer: the writers of its bytes
    wifiLine,     \* the writers of the command being run
    (* the network *)
    backlog,      \* sockets the listener holds for accept()
    alive,        \* sockets whose peer is still there
    inbox         \* pieces queued on each socket

bleVars  == <<conn, lost, advertising, ownerHandle, rxBuffer,
              bleTask, writer, bleLine, bleMore>>
wifiVars == <<wifiTask, client, lineBuffer, wifiLine, backlog, alive, inbox>>
vars     == <<owner, bleVars, wifiVars>>

LinkId == {"None", "Ble", "Wifi"}

(* The token: compare-and-swap from None, and back only by the holder.     *)
\* Mutated: a transport that already holds the session may claim it again.
ReentrantClaim(link) == owner \in {"None", link}
ClaimSucceeds(link) == owner = "None"

\* Mutated: the release compares with the wrong transport.
ReleaseOnlyBle(link) == IF owner = "Ble" THEN "None" ELSE owner
OwnerAfterRelease(link) == IF owner = link THEN "None" ELSE owner

-----------------------------------------------------------------------------
(* NimBLE host task.  An event is served only when the previous one is     *)
(* done (bleTask = "idle").                                                *)

\* ServerCallbacks::onConnect, claim won.  The stack stops advertising on a
\* connection unless it is configured to go on, so either may be the case.
BleAccept(h) ==
    /\ bleTask = "idle" /\ advertising /\ h \notin conn
    /\ ClaimSucceeds("Ble")
    /\ owner' = "Ble"
    /\ conn' = conn \cup {h}
    /\ ownerHandle' = h
    /\ rxBuffer' = {}
    /\ advertising' \in BOOLEAN
    /\ UNCHANGED <<lost, bleTask, writer, bleLine, bleMore, wifiVars>>

\* ServerCallbacks::onConnect, claim lost: disconnect(), which completes later.
BleReject(h) ==
    /\ bleTask = "idle" /\ advertising /\ h \notin conn
    /\ ~ClaimSucceeds("Ble")
    /\ conn' = conn \cup {h}
    /\ lost' = lost \cup {h}
    /\ advertising' \in BOOLEAN
    /\ UNCHANGED <<owner, ownerHandle, rxBuffer, bleTask, writer, bleLine,
                   bleMore, wifiVars>>

\* Mutated: any BLE departure counts as the holder's.
IsHolderAnyHandle(h) == owner = "Ble"
IsHolder(h) == owner = "Ble" /\ h = ownerHandle

\* Mutated: only the holder's departure restarts advertising.
AdvertisingOnlyForHolder(h) == IsHolder(h) \/ advertising
AdvertisingAfter(h) == TRUE

\* ServerCallbacks::onDisconnect, for any connection the link layer has lost.
BleDisconnect(h) ==
    /\ bleTask = "idle" /\ h \in lost
    /\ conn' = conn \ {h}
    /\ lost' = lost \ {h}
    /\ advertising' = AdvertisingAfter(h)
    /\ IF IsHolder(h)
       THEN /\ owner' = OwnerAfterRelease("Ble")
            /\ rxBuffer' = {}
       ELSE UNCHANGED <<owner, rxBuffer>>
    /\ UNCHANGED <<ownerHandle, bleTask, writer, bleLine, bleMore, wifiVars>>

\* Mutated: feed() trusts that only the holder writes.
MayFeedUnchecked == TRUE
MayFeed == owner = "Ble"

\* onWrite -> feed(): the ownership check.  Any connection may write, also one
\* whose disconnection is under way.  Input is ignored while owner # "Ble".
BleWrite(h) ==
    /\ bleTask = "idle" /\ h \in conn
    /\ MayFeed
    /\ bleTask' = "feeding"
    /\ writer' = h
    /\ UNCHANGED <<owner, conn, lost, advertising, ownerHandle, rxBuffer,
                   bleLine, bleMore, wifiVars>>

\* feed(), overflow: the buffer is dropped and a bare "?" is the answer.
BleOverflow ==
    /\ bleTask = "feeding"
    /\ rxBuffer' = {}
    /\ bleTask' = "idle"
    /\ UNCHANGED <<owner, conn, lost, advertising, ownerHandle, writer,
                   bleLine, bleMore, wifiVars>>

\* feed(), no '\r' in the buffer yet.
BlePart ==
    /\ bleTask = "feeding"
    /\ rxBuffer' = rxBuffer \cup {writer}
    /\ bleTask' = "idle"
    /\ UNCHANGED <<owner, conn, lost, advertising, ownerHandle, writer,
                   bleLine, bleMore, wifiVars>>

\* feed(), the write completes `lines' lines: the first includes what the
\* buffer held.  g_handler is called.
BleRun(lines) ==
    /\ bleTask = "feeding"
    /\ bleLine' = rxBuffer \cup {writer}
    /\ bleMore' = lines - 1
    /\ bleTask' = "handling"
    /\ UNCHANGED <<owner, conn, lost, advertising, ownerHandle, rxBuffer,
                   writer, wifiVars>>

\* g_handler returned and the reply is delivered: the next line of the write,
\* or the end of feed(), with or without a partial line left over.
BleReturn ==
    /\ bleTask = "handling"
    /\ IF bleMore > 0
       THEN /\ bleLine' = {writer}
            /\ bleMore' = bleMore - 1
            /\ UNCHANGED <<rxBuffer, bleTask>>
       ELSE /\ bleLine' = {}
            /\ rxBuffer' \in {{}, {writer}}
            /\ bleTask' = "idle"
            /\ UNCHANGED bleMore
    /\ UNCHANGED <<owner, conn, lost, advertising, ownerHandle, writer, wifiVars>>

-----------------------------------------------------------------------------
(* loop(): wifiLinkPoll().                                                 *)

ClosedSocket(s) == /\ alive' = alive \ {s}
                   /\ inbox' = [inbox EXCEPT ![s] = 0]

\* LineBuffer::reset.  Mutated: it forgets to clear.
ResetForgotten == lineBuffer
ResetBuffer == {}

\* The client that held the session has gone.
WifiHangUp ==
    /\ wifiTask = "check"
    /\ client # NoSocket /\ client \notin alive
    /\ ClosedSocket(client)
    /\ client' = NoSocket
    /\ lineBuffer' = ResetBuffer
    /\ owner' = OwnerAfterRelease("Wifi")
    /\ wifiTask' = "accept"
    /\ UNCHANGED <<bleVars, wifiLine, backlog>>

WifiStillThere ==
    /\ wifiTask = "check"
    /\ client = NoSocket \/ client \in alive
    /\ wifiTask' = "accept"
    /\ UNCHANGED <<owner, bleVars, client, lineBuffer, wifiLine, backlog,
                   alive, inbox>>

\* accept() returns a socket and the claim is won.
WifiAccept(s) ==
    /\ wifiTask = "accept" /\ s \in backlog
    /\ ClaimSucceeds("Wifi")
    /\ owner' = "Wifi"
    /\ client' = s
    /\ lineBuffer' = ResetBuffer
    /\ backlog' = backlog \ {s}
    /\ wifiTask' = "read"
    /\ UNCHANGED <<bleVars, wifiLine, alive, inbox>>

\* accept() returns a socket and the claim is lost: incoming.stop().
WifiReject(s) ==
    /\ wifiTask = "accept" /\ s \in backlog
    /\ ~ClaimSucceeds("Wifi")
    /\ backlog' = backlog \ {s}
    /\ ClosedSocket(s)
    /\ wifiTask' = "read"
    /\ UNCHANGED <<owner, bleVars, client, lineBuffer, wifiLine>>

WifiNobodyWaits ==
    /\ wifiTask = "accept" /\ backlog = {}
    /\ wifiTask' = "read"
    /\ UNCHANGED <<owner, bleVars, client, lineBuffer, wifiLine, backlog,
                   alive, inbox>>

\* Mutated: read() without asking available().
AvailableUnchecked == client # NoSocket
Available == client # NoSocket /\ inbox[client] > 0
ConsumeOne == inbox' = [inbox EXCEPT ![client] = @ - 1]

\* A piece without a '\r', or the end of a line too long to keep, which is
\* answered "?" without running anything.
WifiPart ==
    /\ wifiTask = "read" /\ Available
    /\ ConsumeOne
    /\ \/ lineBuffer' = lineBuffer \cup {client}
       \/ lineBuffer' = ResetBuffer
    /\ UNCHANGED <<owner, bleVars, wifiTask, client, wifiLine, backlog, alive>>

\* A piece that completes a line: g_handler is called.
WifiRun ==
    /\ wifiTask = "read" /\ Available
    /\ ConsumeOne
    /\ wifiLine' = lineBuffer \cup {client}
    /\ lineBuffer' = ResetBuffer
    /\ wifiTask' = "handling"
    /\ UNCHANGED <<owner, bleVars, client, backlog, alive>>

\* g_handler returned and writeAll sent what the socket took.
WifiReturn ==
    /\ wifiTask = "handling"
    /\ wifiLine' = {}
    /\ wifiTask' = "read"
    /\ UNCHANGED <<owner, bleVars, client, lineBuffer, backlog, alive, inbox>>

WifiDrained ==
    /\ wifiTask = "read" /\ ~Available
    /\ wifiTask' = "check"
    /\ UNCHANGED <<owner, bleVars, client, lineBuffer, wifiLine, backlog,
                   alive, inbox>>

-----------------------------------------------------------------------------
(* The peers and the radio.                                                *)

BlePeerLeaves(h) ==
    /\ h \in conn \ lost
    /\ lost' = lost \cup {h}
    /\ UNCHANGED <<owner, conn, advertising, ownerHandle, rxBuffer, bleTask,
                   writer, bleLine, bleMore, wifiVars>>

WifiPeerConnects(s) ==
    /\ s \notin alive \cup backlog /\ s # client
    /\ alive' = alive \cup {s}
    /\ backlog' = backlog \cup {s}
    /\ UNCHANGED <<owner, bleVars, wifiTask, client, lineBuffer, wifiLine, inbox>>

WifiPeerSends(s) ==
    /\ s \in alive
    /\ inbox[s] < MaxInbox
    /\ inbox' = [inbox EXCEPT ![s] = @ + 1]
    /\ UNCHANGED <<owner, bleVars, wifiTask, client, lineBuffer, wifiLine,
                   backlog, alive>>

\* What it already sent can still be read.
WifiPeerLeaves(s) ==
    /\ s \in alive
    /\ alive' = alive \ {s}
    /\ UNCHANGED <<owner, bleVars, wifiTask, client, lineBuffer, wifiLine,
                   backlog, inbox>>

-----------------------------------------------------------------------------
\* g_ownerHandle starts at 0 and, like any stale value, may be the handle of
\* a later connection.
Init ==
    /\ owner = "None"
    /\ conn = {} /\ lost = {} /\ advertising = TRUE
    /\ ownerHandle \in Handles
    /\ rxBuffer = {} /\ bleTask = "idle" /\ writer = ownerHandle
    /\ bleLine = {} /\ bleMore = 0
    /\ wifiTask = "check" /\ client = NoSocket
    /\ lineBuffer = {} /\ wifiLine = {}
    /\ backlog = {} /\ alive = {} /\ inbox = [s \in Sockets |-> 0]

BleEvent == \E h \in Handles : BleAccept(h) \/ BleReject(h)
                               \/ BleDisconnect(h) \/ BleWrite(h)
BleFeed == BleOverflow \/ BlePart \/ (\E n \in 1..MaxLines : BleRun(n)) \/ BleReturn
WifiPoll == \/ WifiHangUp \/ WifiStillThere
            \/ \E s \in Sockets : WifiAccept(s) \/ WifiReject(s)
            \/ WifiNobodyWaits
            \/ WifiPart \/ WifiRun \/ WifiReturn \/ WifiDrained
Peers == \/ \E h \in Handles : BlePeerLeaves(h)
         \/ \E s \in Sockets : WifiPeerConnects(s) \/ WifiPeerSends(s)
                               \/ WifiPeerLeaves(s)

Next == BleEvent \/ BleFeed \/ WifiPoll \/ Peers

Spec == Init /\ [][Next]_vars

\* loop() never stops, the host task finishes the event it is in, and events
\* are queued, so a disconnection is not overtaken by writes for ever.  The
\* peers promise nothing.
Fairness == /\ WF_vars(WifiPoll)
            /\ WF_vars(BleFeed)
            /\ \A h \in Handles : SF_vars(BleDisconnect(h))

FairSpec == Spec /\ Fairness

-----------------------------------------------------------------------------
(* What must hold.                                                         *)

TypeOK ==
    /\ owner \in LinkId
    /\ conn \in SUBSET Handles /\ lost \in SUBSET conn
    /\ advertising \in BOOLEAN
    /\ ownerHandle \in Handles
    /\ rxBuffer \in SUBSET Handles
    /\ bleTask \in {"idle", "feeding", "handling"}
    /\ writer \in Handles
    /\ bleLine \in SUBSET Handles
    /\ bleMore \in 0..MaxLines
    /\ wifiTask \in {"check", "accept", "read", "handling"}
    /\ client \in Sockets \cup {NoSocket}
    /\ lineBuffer \in SUBSET Sockets
    /\ wifiLine \in SUBSET Sockets
    /\ backlog \in SUBSET Sockets
    /\ alive \in SUBSET Sockets
    /\ inbox \in [Sockets -> 0..MaxInbox]

\* The two tasks use the session one at a time, under the token: a command
\* runs only on the transport that holds the session, never on both, and the
\* token is not given up under it, although feed() checks the token in one
\* step and runs the command in a later one (session_owner.h:12-22).
Running == {l \in {"Ble", "Wifi"} :
              IF l = "Ble" THEN bleTask = "handling" ELSE wifiTask = "handling"}
Exclusive == INSTANCE ExclusiveSession
                WITH Links <- {"Ble", "Wifi"}, None <- "None",
                     holder <- owner, running <- Running
ImplementsExclusiveSession == Exclusive!Spec

\* The client that holds the session, and whether it has left.
Holder == CASE owner = "Ble"  -> <<"Ble", ownerHandle>>
            [] owner = "Wifi" -> <<"Wifi", client>>
            [] OTHER          -> <<"None">>
HolderDeparted == \/ owner = "Ble" /\ ownerHandle \in lost
                  \/ owner = "Wifi" /\ client \notin alive

\* Whoever connects first keeps the session until it disconnects, whatever
\* newcomers do on either radio (README.md:99, ble_link.cpp:176-185).
HolderKeepsSession ==
    [][Holder' # Holder => owner = "None" \/ HolderDeparted]_vars

\* No BLE client stays connected without the session: every connection is
\* the holder's or on its way out (ble_link.cpp:163-185).  A holder whose
\* session was released by somebody else's departure would be one.
NoUnownedConnection ==
    \A h \in conn : h \in lost \/ IsHolder(h)

\* A new holder starts clean: what an earlier client left half typed is never
\* completed by the next one (ble_link.cpp:172,194, wifi_link.cpp:39,53).
NoResidueBetweenHolders ==
    /\ rxBuffer # {} => owner = "Ble"
    /\ lineBuffer \cup wifiLine \subseteq {client}

\* With no BLE client connected the board can be found, also after a client
\* was turned away (ble_link.cpp:186-190).
Discoverable == conn = {} => advertising

\* A holder that leaves, in whatever state it left its command and however
\* the other radio's clients press, gives the session up in the end.
DepartedHolderFrees == HolderDeparted ~> ~HolderDeparted
=============================================================================
