------------------------ MODULE AdapterSettings_proofs ------------------------
(***************************************************************************)
(* Proofs about AdapterSettings, for every word size, range and switch.    *)
(***************************************************************************)
EXTENDS AdapterSettings, Integers, TLAPS

USE SettingsAssumption DEF SettingsAssumption

\* The clamp lands in the range, whatever the multiplication left.
LEMMA TimeoutInRange ==
  ASSUME NEW ms \in Int
  PROVE  ToTimeout(ms) \in kMinTimeoutMs..kMaxTimeoutMs
  BY DEF ToTimeout, kMaxTimeoutMs

LEMMA DefaultsAreSettings == Defaults \in Settings
  BY DEF Defaults, Settings, kMaxTimeoutMs

\* Every step keeps settings, reply and frame in their types.
LEMMA Stepwise == TypeOK /\ [Next]_vars => TypeOK'
  <1> SUFFICES ASSUME TypeOK, [Next]_vars PROVE TypeOK'
    OBVIOUS
  <1> USE DEF TypeOK, Settings, Store, Answer, Refuse, Report, NoFrame
  <1>1. CASE Reset
    BY <1>1, DefaultsAreSettings DEF Reset
  <1>2. CASE Describe \/ Unknown \/ ReportIdentifier \/ BufferDump
    BY <1>2 DEF Describe, Unknown, ReportIdentifier, BufferDump
  <1>3. CASE SetIdentifier
    BY <1>3 DEF SetIdentifier, IdentifierAfter
  <1>4. ASSUME NEW f \in Flags, NEW value \in BOOLEAN, SetFlag(f, value)
        PROVE  TypeOK'
    BY <1>4 DEF SetFlag
  <1>5. ASSUME NEW v \in Tails \cup {Malformed}, SetHeader(v)
        PROVE  TypeOK'
    BY <1>5 DEF SetHeader
  <1>6. ASSUME NEW v \in Tails \cup {Malformed}, SetTimeout(v)
        PROVE  TypeOK'
    <2>1. CASE v = Malformed
      BY <1>6, <2>1 DEF SetTimeout
    <2>2. CASE v # Malformed
      <3>1. v \in Nat /\ (4 * v) % Word32 \in Int
        BY <2>2
      <3>2. ToTimeout((4 * v) % Word32) \in kMinTimeoutMs..kMaxTimeoutMs
        BY <3>1, TimeoutInRange
      <3> QED
        BY <1>6, <2>2, <3>1, <3>2 DEF SetTimeout
    <2> QED
      BY <2>1, <2>2
  <1>7. ASSUME NEW v \in Tails \cup {Malformed}, SetExtendedAddress(v)
        PROVE  TypeOK'
    <2>1. CASE v = Malformed \/ v > MaxByte
      BY <1>7, <2>1 DEF SetExtendedAddress
    <2>2. CASE ~(v = Malformed \/ v > MaxByte)
      <3> DEFINE on == [settings EXCEPT !.flag["extendedAddressing"] = TRUE]
      <3>1. on \in Settings
        OBVIOUS
      <3>2. [on EXCEPT !.address = v] \in Settings
        <4>1. v \in 0..MaxByte
          BY <2>2
        <4> HIDE DEF on
        <4> QED
          BY <3>1, <4>1
      <3>3. settings' = [on EXCEPT !.address = v]
        BY <1>7, <2>2 DEF SetExtendedAddress
      <3>4. settings' \in Settings
        BY <3>2, <3>3
      <3>5. reply' = "OK" /\ frame' = NoFrame
        BY <1>7, <2>2 DEF SetExtendedAddress
      <3> QED
        BY <3>4, <3>5
    <2> QED
      BY <2>1, <2>2
  <1>8. ASSUME NEW v \in Tails \cup {Malformed}, NEW b \in ByteSettings, SetByte(b, v)
        PROVE  TypeOK'
    BY <1>8 DEF SetByte
  <1>9. ASSUME NEW len \in 0..8, Request(len)
        PROVE  TypeOK'
    <2>1. CASE ~Fits(len)
      BY <1>9, <2>1 DEF Request
    <2>2. CASE Fits(len)
      <3>1. len \in 1..7 /\ len + 1 + AddressByte \in 2..8
        BY <2>2 DEF Fits, AddressByte
      <3>2. frame' \in [dlc : 2..8, used : 0..8]
        BY <1>9, <2>2, <3>1 DEF Request
      <3>3. settings' \in Settings /\ reply' \in {"payload", "fault", "OK"}
        BY <1>9, <2>2 DEF Request
      <3> QED
        BY <3>2, <3>3
    <2> QED
      BY <2>1, <2>2
  <1>10. CASE UNCHANGED vars
    BY <1>10 DEF vars
  <1> QED
    BY <1>1, <1>2, <1>3, <1>4, <1>5, <1>6, <1>7, <1>8, <1>9, <1>10 DEF Next

\* The response timeout never leaves its range, nor any setting its own
\* (at_parser.cpp:105-113).
THEOREM TypeCorrect == Spec => []TypeOK
  <1>1. Init => TypeOK
    BY DefaultsAreSettings DEF Init, TypeOK, NoFrame
  <1> QED
    BY <1>1, Stepwise, PTL DEF Spec

\* The DLC of every request covers what the request uses, in eight bytes
\* (session.cpp:65-74).
THEOREM FrameCovered == Spec => []FrameCoversRequest
  <1>1. Init => FrameCoversRequest
    BY DEF Init, FrameCoversRequest, NoFrame
  <1>2. FrameCoversRequest /\ [Next]_vars => FrameCoversRequest'
    <2> SUFFICES ASSUME FrameCoversRequest, [Next]_vars
                 PROVE  FrameCoversRequest'
      OBVIOUS
    <2>1. CASE frame' = NoFrame
      BY <2>1 DEF FrameCoversRequest, NoFrame
    <2>2. CASE UNCHANGED vars
      BY <2>2 DEF FrameCoversRequest, vars
    <2>3. ASSUME NEW len \in 0..8, Request(len), Fits(len)
          PROVE  FrameCoversRequest'
      <3>1. len + 1 + AddressByte \in 2..8
        BY <2>3 DEF Fits, AddressByte
      <3> QED
        BY <2>3, <3>1 DEF Request, FrameCoversRequest
    <2>4. frame' = NoFrame \/ UNCHANGED vars \/ \E len \in 0..8 : Request(len) /\ Fits(len)
      BY DEF Next, Reset, Describe, Unknown, ReportIdentifier, SetIdentifier,
             BufferDump, SetFlag, SetHeader, SetTimeout, SetExtendedAddress,
             SetByte, Request, Store, Answer, Refuse, Report
    <2> QED
      BY <2>1, <2>2, <2>3, <2>4
  <1> QED
    BY <1>1, <1>2, PTL DEF Spec

\* A command that is answered "?" changed nothing (at_parser.cpp:75-77).
THEOREM RejectionIsClean == Spec => RejectedChangesNothing
  <1>1. Next => (reply' = "?" => settings' = settings /\ frame' = NoFrame)
    BY DEF Next, Reset, Describe, Unknown, ReportIdentifier, SetIdentifier,
           IdentifierAfter, BufferDump, SetFlag, SetHeader, SetTimeout,
           SetExtendedAddress, SetByte, Request, Store, Answer, Refuse, Report
  <1>2. [Next]_vars => [reply' = "?" => settings' = settings /\ frame' = NoFrame]_vars
    BY <1>1
  <1> QED
    BY <1>2, PTL DEF Spec, RejectedChangesNothing
=============================================================================
