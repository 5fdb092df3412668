--------------------------- MODULE AdapterSettings ---------------------------
(***************************************************************************)
(* The settings one client after another makes with AT commands            *)
(* (applyAtCommand of elm327/at_parser.cpp, called by handleLine of        *)
(* elm327/session.cpp), and the request frames built from them.            *)
(*                                                                         *)
(* A command is abstracted to what its text is parsed into; in place of    *)
(* the hexadecimal tail of a command stands its value, or Malformed.       *)
(***************************************************************************)
EXTENDS Naturals

CONSTANTS Flags,          \* switches; those named below and others
          ByteSettings,   \* one-byte settings that only ATTA and ATCP store
          kMinTimeoutMs,
          Word16, Word32, \* values of a 16-bit and of a 32-bit unsigned (2^16, 2^32)
          MaxHeader,      \* the highest 11-bit identifier (0x7FF)
          MaxByte,        \* 0xFF
          Broadcast,      \* the default header (0x7DF)
          DefaultTimeout, \* 200
          Tails,          \* values a client may give
          Malformed       \* a tail strtoul does not take to its end

kMaxTimeoutMs == Word16 - 1

ASSUME SettingsAssumption ==
    /\ {"responses", "variableDlc", "extendedAddressing"} \subseteq Flags
    /\ {kMinTimeoutMs, Word16, Word32, MaxHeader, MaxByte} \subseteq Nat
    /\ kMinTimeoutMs < Word16 /\ Word16 <= Word32
    /\ Broadcast \in 0..MaxHeader
    /\ DefaultTimeout \in kMinTimeoutMs..(Word16 - 1)
    /\ Tails \subseteq 0..(Word32 - 1)
    /\ Malformed \notin Nat

VARIABLES settings,  \* AdapterState
          reply,     \* what the last command was answered
          frame      \* the request the last command put on the bus, or NoFrame

vars == <<settings, reply, frame>>

Settings == [flag       : [Flags -> BOOLEAN],
             header     : 0..MaxHeader,
             timeoutMs  : kMinTimeoutMs..kMaxTimeoutMs,
             identifier : {"unset", "set"},
             byte       : [ByteSettings -> 0..MaxByte],
             address    : 0..MaxByte,             \* extendedAddress
             lastFrame  : BOOLEAN]                \* lastFrame.valid

InitiallyOn == {"echo", "spaces", "autoFormat", "responses"}

\* AdapterState{}; the values the byte settings start with are not told apart.
Defaults == [flag       |-> [f \in Flags |-> f \in InitiallyOn],
             header     |-> Broadcast,
             timeoutMs  |-> DefaultTimeout,
             identifier |-> "unset",
             byte       |-> [b \in ByteSettings |-> 0],
             address    |-> 0,
             lastFrame  |-> FALSE]

NoFrame == [dlc |-> 8, used |-> 0]

Init == /\ settings = Defaults
        /\ reply = "none" /\ frame = NoFrame

-----------------------------------------------------------------------------
(* applyAtCommand.                                                         *)

Answer(text) == /\ reply' = text
                /\ frame' = NoFrame
Store(new) == /\ settings' = new
              /\ Answer("OK")
Refuse == /\ Answer("?")
          /\ UNCHANGED settings
Report(text) == /\ Answer(text)
                /\ UNCHANGED settings

\* ATZ, ATWS and ATD.
Reset == /\ settings' = Defaults
         /\ \/ Answer("banner")
            \/ Answer("OK")

\* ATI, ATRV, @1, ATDP, ATDPN; the monitor modes; what is taken and ignored.
Describe == Report("text") \/ Report("NoData") \/ Report("OK")

\* What no branch takes, ATSP with a protocol other than 6 included.
Unknown == Refuse

ReportIdentifier ==
    IF settings.identifier = "set" THEN Report("identifier") ELSE Refuse

\* Mutated: the identifier is copied before its length is checked.
IdentifierAfterShort == [settings EXCEPT !.identifier = "set"]
IdentifierAfter == settings

\* @3: twelve characters, and no other number of them.
SetIdentifier ==
    \/ Store([settings EXCEPT !.identifier = "set"])
    \/ /\ settings' = IdentifierAfter
       /\ Answer("?")

\* ATE, ATS, ATH, ATL, ATCAF, ATR, ATV, ATAL/ATNL, ATSP (autoSelected), and
\* ATCEA without an address.
SetFlag(f, value) ==
    /\ f = "extendedAddressing" => ~value
    /\ Store([settings EXCEPT !.flag[f] = value])

SetHeader(v) ==
    IF v = Malformed \/ v > MaxHeader THEN Refuse
    ELSE Store([settings EXCEPT !.header = v])

\* Mutated: only the floor is held, and the cast to 16 bits wraps.
ToTimeoutFloorOnly(ms) == IF ms < kMinTimeoutMs THEN kMinTimeoutMs ELSE ms % Word16
ToTimeout(ms) == IF ms < kMinTimeoutMs THEN kMinTimeoutMs
                 ELSE IF ms > kMaxTimeoutMs THEN kMaxTimeoutMs
                 ELSE ms

\* ATST: in units of 4 ms, multiplied in 32 bits.
SetTimeout(v) ==
    IF v = Malformed THEN Refuse
    ELSE Store([settings EXCEPT !.timeoutMs = ToTimeout((4 * v) % Word32)])

\* ATTA and ATCP.
SetByte(b, v) ==
    IF v = Malformed \/ v > MaxByte THEN Refuse
    ELSE Store([settings EXCEPT !.byte[b] = v])

\* ATCEA with an address.
SetExtendedAddress(v) ==
    IF v = Malformed \/ v > MaxByte THEN Refuse
    ELSE Store([settings EXCEPT !.flag["extendedAddressing"] = TRUE,
                                !.address = v])

BufferDump == IF settings.lastFrame THEN Report("dump") ELSE Refuse

-----------------------------------------------------------------------------
(* runRequest: the frame it builds.                                        *)

Extended == settings.flag["extendedAddressing"]
AddressByte == IF Extended THEN 1 ELSE 0

\* Mutated: the address byte is forgotten.
FitsUnaddressed(len) == len \in 1..7
Fits(len) == len \in 1..(7 - AddressByte)

\* A hex line of len bytes (hexLineToBytes takes up to eight).  The answer, if
\* one came, left its frame behind.
Request(len) ==
    IF ~Fits(len) THEN Refuse
    ELSE /\ frame' = [dlc  |-> IF settings.flag["variableDlc"]
                               THEN len + 1 + AddressByte ELSE 8,
                      used |-> len + 1 + AddressByte]
         /\ IF settings.flag["responses"]
            THEN /\ reply' \in {"payload", "fault"}
                 /\ \E heard \in BOOLEAN :
                       /\ reply' = "payload" => heard
                       /\ settings' = [settings EXCEPT !.lastFrame = @ \/ heard]
            ELSE /\ reply' \in {"OK", "fault"}
                 /\ UNCHANGED settings

Next == \/ Reset \/ Describe \/ Unknown \/ ReportIdentifier
        \/ SetIdentifier \/ BufferDump
        \/ \E f \in Flags, value \in BOOLEAN : SetFlag(f, value)
        \/ \E v \in Tails \cup {Malformed} :
              \/ SetHeader(v) \/ SetTimeout(v) \/ SetExtendedAddress(v)
              \/ \E b \in ByteSettings : SetByte(b, v)
        \/ \E len \in 0..8 : Request(len)

Spec == Init /\ [][Next]_vars

-----------------------------------------------------------------------------
\* The timeout is in its range whatever was asked: neither "never wait" nor a
\* value that wrapped through the 16-bit cast (at_parser.cpp:105-113).
TypeOK ==
    /\ settings \in Settings
    /\ reply \in {"none", "?", "OK", "banner", "text", "NoData", "identifier",
                  "dump", "payload", "fault"}
    /\ frame \in [dlc : 2..8, used : 0..8]

\* A command answered "?" has changed nothing: a client that sees it may go on
\* with the settings it had, and none is left half set (at_parser.cpp:75-77).
RejectedChangesNothing ==
    [][reply' = "?" => settings' = settings /\ frame' = NoFrame]_vars

\* Whatever addressing and DLC settings have been made in whatever order, the
\* DLC of a request covers the bytes it uses (session.cpp:65-74).
FrameCoversRequest == frame.used <= frame.dlc /\ frame.dlc <= 8
=============================================================================
