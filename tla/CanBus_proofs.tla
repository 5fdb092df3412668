---------------------------- MODULE CanBus_proofs ----------------------------
EXTENDS CanBus, TLAPS

USE CanBusAssumption DEF CanBusAssumption

(***************************************************************************)
(* HealsInTwoPolls is not inductive: that the second failure is the last   *)
(* follows from how far the recovery has come, which each failure counted  *)
(* so far has moved on by one step.                                        *)
(***************************************************************************)
Behind(n) == IF task = "recover" THEN n + 1 ELSE n

RecoveryKeepsPace ==
    car = "awake" => /\ driver = "BusOff"     => failures <= Behind(0)
                     /\ driver = "Recovering" => failures <= 1
                     /\ driver = "Stopped"    => failures <= Behind(1)

IInv == TypeOK /\ HealsInTwoPolls /\ RecoveryKeepsPace

LEMMA InvInit == Init => IInv
  BY DEF Init, IInv, TypeOK, HealsInTwoPolls, RecoveryKeepsPace, Behind

LEMMA InvStep == IInv /\ [Next]_vars => IInv'
<1> SUFFICES ASSUME IInv, [Next]_vars PROVE IInv'
  OBVIOUS
<1> USE DEF IInv, TypeOK, HealsInTwoPolls, RecoveryKeepsPace, Behind
<1>1. CASE Request
  BY <1>1 DEF Request
<1>2. CASE TransmitOk
  BY <1>2 DEF TransmitOk, Taken
<1>3. CASE TransmitFails
  BY <1>3 DEF TransmitFails
<1>4. CASE RecoverIfBusOff
  BY <1>4 DEF RecoverIfBusOff, Kicked
<1>5. CASE FrameSent
  BY <1>5 DEF FrameSent
<1>6. CASE GoesBusOff
  BY <1>6 DEF GoesBusOff
<1>7. CASE Recovered
  BY <1>7 DEF Recovered
<1>8. CASE Sleep \/ Wake
  BY <1>8 DEF Sleep, Wake
<1>9. CASE UNCHANGED vars
  BY <1>9 DEF vars
<1> QED
  BY <1>1, <1>2, <1>3, <1>4, <1>5, <1>6, <1>7, <1>8, <1>9
  DEF Next, CanBusTransmit

LEMMA Invariance == Spec => []IInv
  BY InvInit, InvStep, PTL DEF Spec

\* However often the car sleeps and however long the queue is, two polls of an
\* awake car at most find the driver in bus-off or stopped.
THEOREM TwoPollsSuffice == Spec => []HealsInTwoPolls
<1>1. IInv => HealsInTwoPolls
  BY DEF IInv
<1> QED
  BY <1>1, Invariance, PTL
=============================================================================
