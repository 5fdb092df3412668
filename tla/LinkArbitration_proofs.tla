----------------------- MODULE LinkArbitration_proofs -----------------------
EXTENDS LinkArbitration, TLAPS

USE ConstantsAssumption DEF ConstantsAssumption

\* feed() and the handler only ever run while the token says "Ble".
HostTaskHoldsToken == bleTask # "idle" => owner = "Ble"

\* loop() keeps a socket exactly while the token says "Wifi".
SocketIffToken == client # NoSocket <=> owner = "Wifi"

HandlerHasSocket == wifiTask = "handling" => client # NoSocket

HolderConnected == owner = "Ble" => ownerHandle \in conn

IdleLineIsEmpty == wifiTask # "handling" => wifiLine = {}

IInv == /\ TypeOK
        /\ HostTaskHoldsToken
        /\ SocketIffToken
        /\ HandlerHasSocket
        /\ HolderConnected
        /\ IdleLineIsEmpty
        /\ NoUnownedConnection
        /\ NoResidueBetweenHolders
        /\ Discoverable

LEMMA Initially == Init => IInv
  BY DEF Init, IInv, TypeOK, LinkId, HostTaskHoldsToken, SocketIffToken,
         HandlerHasSocket, HolderConnected, IdleLineIsEmpty,
         NoUnownedConnection, NoResidueBetweenHolders, Discoverable

LEMMA Stepwise == IInv /\ [Next]_vars => IInv'
<1> SUFFICES ASSUME IInv, [Next]_vars PROVE IInv'
  OBVIOUS
<1> USE DEF IInv, TypeOK, LinkId, HostTaskHoldsToken, SocketIffToken,
            HandlerHasSocket, HolderConnected, IdleLineIsEmpty,
            NoUnownedConnection, NoResidueBetweenHolders, Discoverable,
            IsHolder, bleVars, wifiVars
<1>1. ASSUME NEW h \in Handles, BleAccept(h) PROVE IInv'
  BY <1>1 DEF BleAccept, ClaimSucceeds
<1>2. ASSUME NEW h \in Handles, BleReject(h) PROVE IInv'
  BY <1>2 DEF BleReject, ClaimSucceeds
<1>3. ASSUME NEW h \in Handles, BleDisconnect(h) PROVE IInv'
  BY <1>3 DEF BleDisconnect, AdvertisingAfter, OwnerAfterRelease
<1>4. ASSUME NEW h \in Handles, BleWrite(h) PROVE IInv'
  BY <1>4 DEF BleWrite, MayFeed
<1>5. CASE BleOverflow
  BY <1>5 DEF BleOverflow
<1>6. CASE BlePart
  BY <1>6 DEF BlePart
<1>7. ASSUME NEW n \in 1..MaxLines, BleRun(n) PROVE IInv'
  BY <1>7 DEF BleRun
<1>8. CASE BleReturn
  BY <1>8 DEF BleReturn
<1>9. CASE WifiHangUp
  BY <1>9 DEF WifiHangUp, ClosedSocket, ResetBuffer, OwnerAfterRelease
<1>10. CASE WifiStillThere
  BY <1>10 DEF WifiStillThere
<1>11. ASSUME NEW s \in Sockets, WifiAccept(s) PROVE IInv'
  BY <1>11 DEF WifiAccept, ClaimSucceeds, ResetBuffer
<1>12. ASSUME NEW s \in Sockets, WifiReject(s) PROVE IInv'
  BY <1>12 DEF WifiReject, ClaimSucceeds, ClosedSocket
<1>13. CASE WifiNobodyWaits
  BY <1>13 DEF WifiNobodyWaits
<1>14. CASE WifiPart
  BY <1>14 DEF WifiPart, Available, ConsumeOne, ResetBuffer
<1>15. CASE WifiRun
  BY <1>15 DEF WifiRun, Available, ConsumeOne, ResetBuffer
<1>16. CASE WifiReturn
  BY <1>16 DEF WifiReturn
<1>17. CASE WifiDrained
  BY <1>17 DEF WifiDrained, Available
<1>18. ASSUME NEW h \in Handles, BlePeerLeaves(h) PROVE IInv'
  BY <1>18 DEF BlePeerLeaves
<1>19. ASSUME NEW s \in Sockets, WifiPeerConnects(s) PROVE IInv'
  BY <1>19 DEF WifiPeerConnects
<1>20. ASSUME NEW s \in Sockets, WifiPeerSends(s) PROVE IInv'
  BY <1>20 DEF WifiPeerSends
<1>21. ASSUME NEW s \in Sockets, WifiPeerLeaves(s) PROVE IInv'
  BY <1>21 DEF WifiPeerLeaves
<1>22. CASE UNCHANGED vars
  BY <1>22 DEF vars
<1> QED
  BY <1>1, <1>2, <1>3, <1>4, <1>5, <1>6, <1>7, <1>8, <1>9, <1>10, <1>11,
     <1>12, <1>13, <1>14, <1>15, <1>16, <1>17, <1>18, <1>19, <1>20, <1>21,
     <1>22 DEF Next, BleEvent, BleFeed, WifiPoll, Peers

LEMMA Invariance == Spec => []IInv
  BY Initially, Stepwise, PTL DEF Spec

\* Every variable stays within its type, whatever the number of clients and
\* however much they send: the lines still to run and the unread pieces never
\* go below zero.
THEOREM TypeCorrect == Spec => []TypeOK
  BY Invariance, PTL DEF IInv

\* Every BLE connection is the session holder's or is being closed
\* (ServerCallbacks::onConnect and onDisconnect), for any number of handles.
THEOREM NobodyUnowned == Spec => []NoUnownedConnection
  BY Invariance, PTL DEF IInv

\* Input an earlier holder left unfinished never reaches a later one.
THEOREM CleanHandover == Spec => []NoResidueBetweenHolders
  BY Invariance, PTL DEF IInv

\* The board advertises whenever nobody is connected to it, also after a
\* client was turned away (ServerCallbacks::onDisconnect).
THEOREM AlwaysDiscoverable == Spec => []Discoverable
  BY Invariance, PTL DEF IInv

-----------------------------------------------------------------------------
(* HolderKeepsSession.  Only four actions change the holder: two take a    *)
(* free session, two release it, each for a client that has departed.      *)

LEMMA HolderStep ==
  IInv /\ [Next]_vars => (Holder' # Holder => owner = "None" \/ HolderDeparted)
<1> SUFFICES ASSUME IInv, [Next]_vars, owner # "None", ~HolderDeparted
             PROVE  Holder' = Holder
  OBVIOUS
<1> USE DEF IInv, TypeOK, LinkId, HolderDeparted
<1>1. SUFFICES UNCHANGED <<owner, ownerHandle, client>>
  BY DEF Holder
<1>2. ASSUME NEW h \in Handles, BleAccept(h) PROVE FALSE
  BY <1>2 DEF BleAccept, ClaimSucceeds
<1>3. ASSUME NEW h \in Handles, BleDisconnect(h)
      PROVE  UNCHANGED <<owner, ownerHandle, client>>
  BY <1>3 DEF BleDisconnect, IsHolder, wifiVars
<1>4. CASE WifiHangUp
  BY <1>4 DEF WifiHangUp, SocketIffToken
<1>5. ASSUME NEW s \in Sockets, WifiAccept(s) PROVE FALSE
  BY <1>5 DEF WifiAccept, ClaimSucceeds
<1> QED
  BY <1>2, <1>3, <1>4, <1>5
     DEF Next, BleEvent, BleFeed, WifiPoll, Peers, BleReject, BleWrite,
         BleOverflow, BlePart, BleRun, BleReturn, WifiStillThere, WifiReject,
         WifiNobodyWaits, WifiPart, WifiRun, WifiReturn, WifiDrained,
         BlePeerLeaves, WifiPeerConnects, WifiPeerSends, WifiPeerLeaves,
         vars, bleVars, wifiVars

\* Whoever connects first keeps the session until it disconnects.
THEOREM FirstComeKeeps == Spec => HolderKeepsSession
<1>1. IInv /\ [Next]_vars => [Holder' # Holder => owner = "None" \/ HolderDeparted]_vars
  BY HolderStep
<1> QED
  BY <1>1, Invariance, PTL DEF Spec, HolderKeepsSession

-----------------------------------------------------------------------------
(* Refinement.                                                             *)

\* The token decides which task can be inside the handler.
LEMMA RunningUnderToken == IInv => Running \subseteq {owner}
  BY DEF IInv, HostTaskHoldsToken, SocketIffToken, HandlerHasSocket, Running

LEMMA RefinesInit == Init => Exclusive!Init
  BY DEF Init, Exclusive!Init, Running

LEMMA RefinesStep == IInv /\ [Next]_vars => [Exclusive!Next]_(Exclusive!vars)
<1> SUFFICES ASSUME IInv, [Next]_vars
             PROVE  [Exclusive!Next]_(Exclusive!vars)
  OBVIOUS
<1> Running \subseteq {owner}
  BY RunningUnderToken
<1> USE DEF Exclusive!vars
<1>1. ASSUME NEW h \in Handles, BleAccept(h) PROVE Exclusive!Claim("Ble")
  BY <1>1 DEF BleAccept, ClaimSucceeds, Exclusive!Claim, Running, wifiVars
<1>2. ASSUME NEW h \in Handles, BleDisconnect(h)
      PROVE  Exclusive!Release("Ble") \/ UNCHANGED Exclusive!vars
  BY <1>2 DEF BleDisconnect, IsHolder, OwnerAfterRelease, Exclusive!Release,
              Running, wifiVars
<1>3. ASSUME NEW n \in 1..MaxLines, BleRun(n) PROVE Exclusive!Begin("Ble")
  <2>1. owner = "Ble" /\ Running = {}
    BY <1>3 DEF BleRun, IInv, HostTaskHoldsToken, Running, SocketIffToken,
                HandlerHasSocket
  <2>2. Running' = {"Ble"}
    BY <1>3, <2>1 DEF BleRun, Running, wifiVars
  <2> QED
    BY <1>3, <2>1, <2>2 DEF BleRun, Exclusive!Begin
<1>4. CASE BleReturn
  BY <1>4 DEF BleReturn, Exclusive!Next, Exclusive!End, Running, wifiVars
<1>5. CASE WifiHangUp
  BY <1>5 DEF WifiHangUp, OwnerAfterRelease, IInv, SocketIffToken,
              Exclusive!Next, Exclusive!Release, Running, bleVars
<1>6. ASSUME NEW s \in Sockets, WifiAccept(s) PROVE Exclusive!Claim("Wifi")
  BY <1>6 DEF WifiAccept, ClaimSucceeds, Exclusive!Claim, Running, bleVars
<1>7. CASE WifiRun
  <2>1. owner = "Wifi" /\ Running = {}
    BY <1>7 DEF WifiRun, Available, IInv, HostTaskHoldsToken, SocketIffToken,
                Running
  <2>2. Running' = {"Wifi"}
    BY <1>7, <2>1 DEF WifiRun, Running, bleVars
  <2> QED
    BY <1>7, <2>1, <2>2 DEF WifiRun, Exclusive!Begin, Exclusive!Next
<1>8. CASE WifiReturn
  BY <1>8 DEF WifiReturn, Exclusive!Next, Exclusive!End, Running, bleVars
<1>9. CASE UNCHANGED vars
  BY <1>9 DEF vars, bleVars, wifiVars, Running
<1>10. ASSUME NEW h \in Handles, BleReject(h) \/ BleWrite(h) \/ BlePeerLeaves(h)
       PROVE  UNCHANGED Exclusive!vars
  BY <1>10 DEF BleReject, BleWrite, BlePeerLeaves, Running, wifiVars
<1>11. ASSUME BleOverflow \/ BlePart PROVE UNCHANGED Exclusive!vars
  BY <1>11 DEF BleOverflow, BlePart, Running, wifiVars
<1>12. ASSUME WifiStillThere \/ WifiNobodyWaits \/ WifiPart \/ WifiDrained
       PROVE  UNCHANGED Exclusive!vars
  BY <1>12 DEF WifiStillThere, WifiNobodyWaits, WifiPart, WifiDrained,
               Running, bleVars
<1>13. ASSUME NEW s \in Sockets,
              WifiReject(s) \/ WifiPeerConnects(s) \/ WifiPeerSends(s)
                \/ WifiPeerLeaves(s)
       PROVE  UNCHANGED Exclusive!vars
  BY <1>13 DEF WifiReject, WifiPeerConnects, WifiPeerSends, WifiPeerLeaves,
               Running, bleVars
<1> QED
  BY <1>1, <1>2, <1>3, <1>4, <1>5, <1>6, <1>7, <1>8, <1>9, <1>10, <1>11,
     <1>12, <1>13
     DEF Next, BleEvent, BleFeed, WifiPoll, Peers, Exclusive!Next

\* The links implement session_owner.h's promise: at most one command runs,
\* and only on the transport that holds the token throughout it.
THEOREM Refinement == Spec => ImplementsExclusiveSession
  BY RefinesInit, RefinesStep, Invariance, PTL
     DEF Spec, ImplementsExclusiveSession, Exclusive!Spec
=============================================================================
