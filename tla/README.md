# A verification of the RejsaElm firmware in TLA+

RejsaElm is firmware for a small board with a CAN controller that answers the
ELM327 command set over Bluetooth LE, WiFi or USB serial. A client types `AT`
commands and hexadecimal diagnostic requests; the firmware sends the requests
to the car's ECUs over ISO-TP and types back what they answer.

The repository also has a host tool, `tools/did_scan.py`, that drives a scan
build of the firmware over USB and looks for every data identifier a car
answers to.

This directory models the logic of both, checks it with TLC and proves the
parts that matter most with TLAPS. Everything is translated from the sources
under `src/src/` and `src/tools/`; line numbers in comments refer to them.

## 1. Inventory

| Component | State it keeps | Operations | What is hard |
|---|---|---|---|
| session ownership (`link/session_owner.h`) | one atomic `LinkId` | claim, release, is | shared by two tasks |
| BLE link (`link/ble_link.cpp`) | `g_ownerHandle`, `g_rxBuffer`, `g_notifyOk` | onConnect, onDisconnect, onWrite/feed, deliver, notifyChunk | rejected clients whose disconnection is still under way; writes that cut lines anywhere; refused notifications |
| WiFi link (`link/wifi_link.cpp`) | `g_client`, `g_buffer` | wifiLinkPoll | hang-up, accept and read interleave with the BLE task |
| serial link (`link/serial_link.cpp`) | `g_buffer` | serialLinkPoll | short writes |
| line buffer (`elm327/line_buffer.*`) | line, length, two flags | offer, reset, line, overflowed | the boundary at 64 characters |
| `writeAll` (`link/write_all.h`) | sent, stalled | one retry loop | a sink that is slow, and one that is dead |
| AT settings (`elm327/at_parser.*`) | `AdapterState` | applyAtCommand | ranges, half-made settings |
| session (`elm327/session.cpp`) | `AdapterState`, a reassembler and a deadline per request | handleLine, runRequest | late answers, lost frames, the deadline, the wrapping clock |
| ISO-TP (`isotp/*`) | payload, expected length, next sequence number | offer, reset; building requests and flow control | lost frames, a four-bit sequence number, odd DLCs |
| correlation (`elm327/hexline.cpp`) | none | classifyResponse, hexLineToBytes | answers to earlier requests |
| CAN wrapper (`can/can_bus.cpp`) | the TWAI driver's state | begin, transmit, receive, recoverIfBusOff | a sleeping car, bus-off |
| formatting (`elm327/formatter.cpp`) | none | formatPayload, formatNrc | must agree with the host's decoder |
| entry points (`main.cpp`) | the one session | setup, loop, onLine | which links exist together |
| scanner's link (`tools/did_scan.py`) | the cached header, the port's input | exchange, send_did, initialise, generous_timeout, recovery | a board that stalls part way through a reply and goes on later |
| scanner's reader (`didscan_core.py`) | none | classify | replies that lost characters on USB |
| scanner's start (`tools/did_scan.py`) | the run's ECUs and their miss modes, the pairs to skip | main, discover_ecus, calibrate, `--ecu`, `--resume` | identification replies too large for the sweep deadline; what is inherited from an earlier run's log |
| scanner's sweep and log (`tools/did_scan.py`, `didscan_core.py`) | error and silence counts, the deadline, the JSONL file | sweep, main, Recorder, already_scanned, recorded_ecus | killed at any moment and resumed; payloads too large for the deadline; a car that falls asleep |

How they interact. The links call `onLine`, which calls
`Elm327Session::handleLine` on the one session. BLE calls it from the NimBLE
host task, inside the event that delivered the write; WiFi and serial call it
from `loop()`. In the `-DWIFI` build the first two exist together and share
only the atomic owner, which is what keeps them from running the session at
the same time. `handleLine` runs an AT command against `AdapterState`, or a
request: drain the receive queue, transmit, then receive, reassemble,
correlate, until an answer or the deadline. In the default build (BLE alone)
the same arbitration holds with the WiFi half absent. The scanner sends one
command at a time over the serial link and waits for the prompt; on a stall it
resets the board with the commands it started with, and every finding goes to
the log at once, from which a later run resumes.

`PROJECT.json` lists the hazards, each at its line, with the properties that
look for it and, where there is none yet, why.

## 2. Modules

| Module | Models | Reading guide |
|---|---|---|
| `ExclusiveSession` | what `session_owner.h` promises | claim, begin, end, release |
| `LinkArbitration` | token, BLE host task, WiFi loop, peers | one action per callback outcome and per branch of `wifiLinkPoll` |
| `LinkArbitration_proofs` | | types, five properties, and the refinement |
| `LineBuffer` | `LineBuffer` as a record | `Offer` is the method; `Line` is what a C string function reads |
| `StreamLink`, `StreamLink_proofs` | the read loop of the serial and WiFi links with `writeAll` | extends `LineBuffer` |
| `BleFraming`, `BleFraming_proofs` | `feed`, `deliver`, `notifyChunk` for the holder | bytes are places in a typed line |
| `IsoTp` | `IsoTpReassembler`, request limits; an ECU's segmentation as reference | operators only |
| `IsoTpTransfer`, `MCIsoTpTransfer` | one response over a lossy queue, any DLC, both addressings, and the flow control the session sends for it | extends `IsoTp`; `Understands` is the ECU's view of the flow control |
| `ReplyCodec` | `formatPayload`, `formatNrc`, the fault words; `classify()` | operators only: a text is a sequence of lines of characters |
| `ReplyPath`, `MCReplyPath` | the reply to one response, from the ECU's frames to what the scanner believes, over a USB that loses characters | extends `IsoTpTransfer` and `ReplyCodec` |
| `DiagSession`, `MCDiagSession` | `runRequest` and `classifyResponse`, over the controller's receive and transmit queues, against ECUs | `MC` gives the commands |
| `DiagSession_proofs` | | segmentation, reassembly, the order of frames, and the soundness of answers |
| `RequestDeadline`, `RequestDeadline_proofs` | the deadline against a wrapping `millis()` | |
| `CanBus`, `CanBus_proofs` | `canBusTransmit` and `recoverIfBusOff` over the TWAI driver | |
| `AdapterSettings`, `AdapterSettings_proofs` | `applyAtCommand`, and the frame a request is put in | |
| `ScanLink` | `Adapter._exchange`, `send_did`, `initialise`, `generous_timeout` and the recovery in `probe()`, against a board that answers late, in part or not at all | an operation is a script of commands, each a `Send` and a `Receive` or `TimeOut` |
| `ScanLog` | `Recorder`'s rows, a kill in the middle of one, and the log's two readers | `log` is what the readers make of the file |
| `ScanStart` | `main()` up to the sweep: `--resume`, `--ecu`, `discover_ecus`, `calibrate`, the first rows | extends `ScanLink` and `ScanLog` |
| `DidSweep`, `MCDidSweep` | `sweep()`, `main()` around it, interruption | extends `ScanStart`; `stage` is the place in the loop body; `MC` gives the car |
| `DidSweep_proofs` | | the link, the deadlines, the questions, what the readings are worth, discovery, the log |

### How the models abstract

*Tasks.* The sources have two: the NimBLE host task, which serves one event to
its end before the next, and `loop()`. An action of `LinkArbitration` touches
the shared atomic at most once and otherwise state private to its task, so
every finer interleaving is equivalent to one of those modelled. `feed()` is
split where it matters: the ownership check is a step, and each command it
runs is a later one.

*Input.* In `LinkArbitration` a piece of input is the client that wrote it and
a buffer is the set of clients whose bytes it holds. In `BleFraming` a byte is
its place in the line it was typed in. In `DiagSession` a payload byte is its
value with the number of the request that the ECU was answering and the byte's
place in the response; only the properties look at number and place.

*Peers, ECUs, the driver.* These are not in the sources. They may do anything
their protocols allow: leave at any time, answer late, in one frame or
several, with a rejection, with "response pending", or not at all; give up
waiting for flow control; hear a request or not. The TWAI driver behaves as
`can_bus.cpp` says it does. `WiFiClient`'s conversion to `bool` is taken to say
that a socket is held, as `wifi_link.cpp:37` uses it. In a library where it
means "connected", the hang-up branch would be unreachable and the liveness
result (`DepartedHolderFrees`) would not apply: that is an assumption on the library, to be checked
against the version in use, and `PROJECT.json` notes it beside the hazard.

*Numbers.* `IsoTp` uses the real sizes. The line limit, buffer cap, retry
counts, timeouts and counter widths are constants of their modules; TLC gives
them small values, the proofs hold for all.

*The transmit queue.* In `DiagSession` a transmit that succeeds puts the frame in
the controller's queue, from which it leaves at any later time, or never: a car
asleep is a queue that does not move. A failed transmit may drop what is queued,
as `recoverIfBusOff()` does when it initiates recovery. `CanBus` has the states
of the driver behind this, and no contents.

*The reply text.* Characters are hexadecimal digits, the space, the colon and a
code for each word, at the real line length of seven bytes. USB may lose one run
of consecutive characters of a reply, line breaks included.

*The scan.* In the sweep, replies are told apart by their outcome (`classify()`'s
four; `ReplyCodec` has how it comes by them), by the deadline they were made
under, and by whether another command had been written since (`fresh`, history).
`ATE0`, `ATS0` and `ATSP6` count as one exchange. Only the Read's answer depends
on the car. The read timeout may strike whenever no prompt has arrived, whatever
the deadlines are. A process that ends closes the port: what is in it is gone,
and what the board writes until the next run opens it is dropped. A new run is
taken to start once the board has dealt with what the last one wrote
(`BoardQuiet`; see "other differences"), and a car that falls asleep during a
run wakes between runs. Once an error has left the sweep, nobody looks at the
sweep's variables, and they are reset. An "end" or "run" row cut of nothing but
its newline counts as torn, since nobody reads either. When too many errors end the
sweep (`TooManyErrors`), the end row that `main()` then writes
(`did_scan.py:1065`) is left out, and with it a kill in the middle of that row.

The loops of the scan take their items in order: an address is the number that
`ATSH` gets in hexadecimal, and discovery asks the least of those it has not
finished with (`left`); the sweep's loop over ECUs with the one over DIDs inside
it is the set `todo` of places in both lists that are still to be recorded, of
which it takes the least ECU and for it the least DID (`Place`, `Index`).

*Advertising.* Whether the stack stops advertising on a connection depends on
its configuration, so `BleAccept` and `BleReject` allow both.

## 3. Runs

| Run | Question | Bounds |
|---|---|---|
| `arbitration` | is the session exclusive, kept by the first comer, handed over clean, and freed by a holder that leaves? | 2 BLE handles, 2 sockets, 2 lines per write |
| `stream` | is a line run as typed or refused; is a reply cut only by a dead sink? | limit 3, lines up to 5, 2 stalled attempts, replies up to 4 |
| `ble_framing` | are commands unbroken pieces of input; does the host task return? | cap 4, writes up to 3, lines up to 6, replies up to 2 chunks |
| `isotp` | is a payload the scanner believes the ECU's response, whole; does every response get through undisturbed (the long ones under ATCEA excepted, which end in silence); is nothing read beyond the frame? | lengths up to 132 bytes at every boundary (single frame, exact and ragged last frames, 15 to 18 consecutive frames), negative responses, up to 17 frames and one run of up to 15 characters lost, spaces on and off; DLC 8, 9, 15 with normal addressing, 1 and 8 with extended |
| `isotp_oversized` | is a bogus DLC harmless with extended addressing? (no) | DLC 9 |
| `session` | is an answer the request's own, and does every request end? | 2 ECUs, 2 requests, receive queue 2, transmit queue 2, responses of 3 frames |
| `deadline` | is NO DATA on time? | counter of 24 values, turn 3, timeouts 3, 5, 9 |
| `deadline_wrap` | is the wrap harmless? (no) | as `deadline` |
| `can_recovery` | does the link heal? | queue 3, the car sleeps up to 3 times |
| `settings` | are settings in range, and refusals clean? | 16-bit scaled to 32 values, 32-bit to 128 |
| `scan` | do replies stay paired with their requests, is every live ECU found, is nothing lost beyond the row in flight, and does every run end? | addresses 770, 7DF, 7E0, 7E4 with ECUs of either miss mode at two of them, 1 swept DID each, 2 attempts, abort at 2 errors, a liveness check at every silence, 2 runs on one log, the car asleep at most once, `--ecu` absent, an ECU, or 7DF |
| `scan_resume` | does a resumed run cover every ECU that answers? (no) | as `scan`, without sleep and `--ecu` |

Why the bounds are enough. The arbitration is symmetric in clients, and its
hazards involve the holder, one client being rejected and one waiting: two on
each radio, with reused handles, give every combination. The line and buffer
limits need lines shorter than, equal to, one and two longer than the limit,
and the cap crossed in the middle of a line. A four-bit sequence number is
blind to sixteen losses, so seventeen are allowed, at the real sizes. Fifteen
characters are one more than a whole line's bytes, and sixteen are the first number
that can deceive (see `OnlyTheResponse`). A late
answer concerns the request before, hence two requests; a queue of two
overflows within a three-frame response. The deadline arithmetic is the same at
every counter width, as its proof shows for the part that is a theorem. The
scan needs two ECUs for a request to go to the wrong one and for a partial list,
one identifier that is too large for the sweep deadline and one that is not
there, and a second run to see what the first one left; the loop treats each
identifier alike but for the two counters, whose limits are reached here at two
errors and one silence.

### Properties that deserve a word

* `HolderKeepsSession` and `NoUnownedConnection`: the two comments "load-bearing,
  not defensive" (`session_owner.h:40`, `ble_link.cpp:178`) claim that without
  their guards a rejected client's teardown hands the session away. The mutants
  of these guards confirm it.
* `QuietStartIsSound`: with no ECU still at work when a request is given, its
  answer is its own although the receive queue may be full of old frames. This
  is what the drain buys. It is *not* true of a request given while an ECU is
  still at work, and `CorrelatedAnswer` says what holds then: the identifier is
  the right one, and the payload is one response unless the receive queue
  overflowed. TLC found the exception: a transfer whose tail was lost, followed
  by a repeated request for the same identifier, whose consecutive frames carry
  the expected sequence number. Each is a well-formed response of that DID, so
  the result is a splice of two readings of the same quantity.
* `HealsInTwoPolls`: `can_bus.cpp:46-47` promises "the next poll or two". The
  history variable counts only failures that found the driver in bus-off or
  stopped. Two kinds of failing polls of an awake car are outside the claim: those
  made while the controller is at work on its recovery, because how long 128 idle
  sequences take is the bus's affair, and those of a running driver whose queue is
  still full. `LinkHeals` says that both come to an end.
* `LosslessIsRead` has the limit of `ATCEA` in it. The session sends the same
  flow control in either addressing, `30` in the first byte, where an ECU with extended
  addressing expects its address. A response that fits one frame gets through;
  a longer one stops behind its first frame, and is told as silence.
* `WrapOnlyEndsEarly`: a deadline that itself wraps ends at once, as the
  known-gaps list says. A deadline just below the wrap is different: the loop
  tests it once per turn of at least 10 ms, and may never see a value at or
  above it.
* `Paired`: the host throws away what the port holds before it writes, but the
  board may still be holding commands. What brings the two back in step is
  that the first reply accepted after a stall must contain the banner, and that
  any second stall on the way ends the run.
* `OnlyTheResponse` spans both decoders. The reassembler
  cannot see sixteen lost frames, but the payload is then short of its announced
  length; lost characters fall to the host's length check. TLC shows the
  host's length check to be sufficient by itself against lost characters: with
  the short-middle-line guard taken away nothing more gets through. It also
  shows the limit: fifteen consecutive lost characters never make a wrong
  payload, sixteen can, where they turn the length line "00E" and half of the
  reply into the well-formed length line of a shorter one. A reply of one
  line carries no length, so it is excepted when damaged ("NRC 31" that loses its
  word reads as the payload 31).
* `DeadlineHeld`: a recovery resets the board's deadline, in the middle of a
  generous block too. What a block's reads rely on is that the recovery re-sends
  the value `deadline_ms` has there, which is why the variable exists.
* `LiveEcusAreHeard`: discovery and the liveness check are where too small a
  deadline costs a whole ECU, or the run. Both sides: nothing that is not there
  is found, either. An ECU counts as there (`LiveEcus`) if, given the time, it
  always answers one of the two questions discovery asks, and as absent
  (`Nobody`) if it never answers either; what answers now and then is neither. The
  liveness check owes its verdict to its last question, since an earlier one may
  have met an adapter error.
* `NothingBuried`, `PayloadsAreGenerous`: what the re-reads at the generous
  deadline are for. A silence is final, since a resumed run skips it. An ECU that
  may answer the calibration's question with anything but a rejection, at the
  sweep's deadline, is excepted: the code may take it for one that is silent
  on misses. So is one whose calibration heard something else than the ECU says
  (`info.misled`): calibrated while the car fell asleep, say, it is taken for
  one that is silent on misses, and its silences get no second look.
* `LogIsWhole`: appending to a file whose last row was cut makes one line of the
  two. It is the "run" row, which nothing reads back, that pays for it. A row
  complete but for its newline is the subtle case: the resumed run reads it,
  skips its identifier, and then makes it unreadable by appending to it, so the
  run finishes without a row for it. That is the one row the property (and
  `did_scan.py:426-427`) allows to be lost.

### Disagreements found

The three runs marked (no) each refute a sentence of the repository's own
documentation or comments; `PROJECT.json` quotes the sentence next to what the
code does.

Other differences noticed while modelling, without a run of their own:

* `at_parser.h:81-82` says that under `ATCEA` the address byte occupies the first
  data byte of every frame, and `bringup_checklist.md:24` expects the ECU to
  respond normally. The flow-control frame has none (`session.cpp:168-173`,
  `request.cpp:19-22`), so no response of more than one frame completes: it ends in
  NO DATA. A design note (`2026-07-28-elm327-command-set-design.md:226-234`)
  records this as known, "`ATCEA` works for single-frame replies only". `isotp`
  confirms both halves of that note: the exception is part of `LosslessIsRead`.
* `ble_link.cpp:36-38` says that an overflow discards rather than keeps a
  fragment, but only the buffer and the write at hand are dropped: the rest of
  that line, still to come, is run as a command. `NeverStitched` says how far
  that goes.
* `README.md:227-228` says that a reply with a refused notification is gapped
  but keeps its prompt; the chunk dropped after the second refusal
  (`ble_link.cpp:53-72`) may be the last one, with the prompt.
* `README.md:94-98` says that only the client holding the session is ever fed to
  it; while one BLE client holds it, `feed()` also takes what a second one
  writes before its rejection is through, which `ble_link.cpp:105-108` accepts.
* A late rejection of an earlier request matches the next one on the same
  service (`README.md:159-163`): a 7F carries no identifier.
* A deadline in the middle of a transfer is answered NO DATA
  (`session.cpp:184`), where `did_scan.py:616-618` reports CAN ERROR from a car;
  the consecutive frames that come after it make the next request a CAN ERROR.
* `at_parser.cpp:105` multiplies the `ATST` value in 32 bits before it clamps,
  so a very large one comes out small.
* `did_scan.py:741` sets `deadline_ms` for the liveness check and, unlike the
  other three blocks, never puts it back: a later recovery leaves the board at
  the generous deadline until the next generous block ends. `DeadlineHeld` allows
  it; it costs time and no finding.
* `did_scan.py:742-756`: an adapter error on the last liveness candidate counts
  as silence and ends the run, although the comment says it does not count.
* `did_scan.py:378-412`: a calibration made while the car sleeps, or of a garbled
  reply, is written to the log as a measurement and reused by every resumed run.
* A discovery reply that arrives garbled drops its ECU from the run, as silence
  does; nothing asks again.
* `classify()` takes a payload of two bytes written without spaces for a length
  line ("6211"). No answer to what the scanner asks is that short.
* A run started while the board still holds commands of a killed one can find
  itself a reply behind: two banners and two OKs fit the sequence of
  `initialise()` shifted by one. This takes a board that stalls across the end
  of a process; with it excluded (`BoardQuiet`) `Paired` holds.
* Up to `SLEEP_SUSPICION_PROBES - 1` silences of a car already asleep are
  recorded before the liveness check, and skipped by every resumed run.

## 4. Fairness

* `LinkArbitration`: weak fairness of `wifiLinkPoll` (`loop()` never stops) and
  of `feed()` (the host task finishes its event); strong fairness of a pending
  disconnection, because the host's event queue is first in first out and
  writes cannot overtake it for ever. No peer promises anything.
* `StreamLink`: weak fairness of the loop. `write()` returns, as both libraries
  time out; how much it takes is not assumed.
* `BleFraming`: weak fairness of the host task; `notify()` may always fail.
* `DiagSession`: weak fairness of `runRequest`, and of the deadline, as time
  passes while it waits. The drain (`session.cpp:84`) has no deadline; it ends
  here because finitely many frames are sent.
* `DidSweep`: weak fairness of the host process alone, as `read()` returns
  within its timeout; the board and the car promise nothing.
* `CanBus`: the client polls on, a transmit returns, a controller in recovery
  sees its idle sequences, and queued frames go out while the car is awake.

Deadlock is checked except where the system may come to rest: a finished
transfer (`IsoTpTransfer`), a spent budget of requests (`DiagSession`) and of
runs (`DidSweep`).

## 5. Proofs

`LinkArbitration_proofs`, for any set of handles and sockets and any bounds:

* `TypeCorrect`, `NobodyUnowned`, `CleanHandover`, `AlwaysDiscoverable`: from one
  inductive invariant `IInv`. Neither `NoUnownedConnection` nor
  `NoResidueBetweenHolders` is inductive alone. What is missing is the tie
  between the token and each task's place in its code: the host task past the
  check in `feed()` holds the token (`HostTaskHoldsToken`: nothing but its own
  later event can release it), WiFi holds the token exactly while `g_client`
  holds a socket (`SocketIffToken`), its handler runs only then
  (`HandlerHasSocket`), the BLE holder's connection exists (`HolderConnected`),
  and no input is kept while nobody holds the session (`IdleLineIsEmpty`).
* `FirstComeKeeps`: the action property, from the invariant, one case per action.
* `Refinement`: `LinkArbitration` implements `ExclusiveSession` under
  `holder <- owner`, `running <-` the tasks inside `g_handler`. Every step maps
  to Claim, Begin, End, Release or a stutter; `RunningUnderToken` makes Begin's
  guard true although `feed()` tested the token in an earlier step.

`RequestDeadline_proofs`: `TypeCorrect` and `AlwaysPunctual`, for every counter
width, set of timeouts and turn length. The strengthening `ClockFollows` says
that while the request runs, clear of the wrap, the counter is its start plus
the time elapsed.

`AdapterSettings_proofs`: `TypeCorrect` (the timeout is in its range, whatever
the word sizes), `FrameCovered` and `RejectionIsClean`.

`StreamLink_proofs`, for every line limit, character set, reply length and number
of attempts: `TypeCorrect`, `LinesAreWhole`, `ProgressIsNeverCut`. What a line was
and what runs are compared long after the characters have gone into an array that
still holds the line before, so the invariant says what the array holds at each
moment (`BufferFollows`): all that was typed while it fits, then a NUL, or a mark
that it did not fit. `BeforeNUL` is the lemma that a C string function then sees
the same of either. `StallsCounted` ties `writeAll`'s count to the attempts since
the sink last took a byte.

`BleFraming_proofs`, for every cap, size of a write and length of a line:
`TypeCorrect`, `CommandsAreUnbroken`, `BufferIsServed`. The strengthening
`BufferUnbroken` says that the buffer is a stretch of what is being typed without
a gap, that the next byte continues it, and that it begins with a line unless
input was dropped; `TypedFollows`, `ConcatContiguous` and `PieceContiguous` carry
that through a write, an append and a split.

`CanBus_proofs`, for every length of the transmit queue and any number of naps:
`TwoPollsSuffice`. That the second failed poll is the last is
not inductive; `RecoveryKeepsPace` adds that each failure so far has moved the
recovery on by a step.

`DiagSession_proofs`, for every set of ECUs and commands, every depth of both
queues and every length of a long response: `TypeCorrect`, `Correlated`,
`QuietStart`. The properties speak of the reply, many steps after the frames it
was made from, so the invariant follows the bytes all the way:

* `AllGenuine`: every frame in an ECU's output or in the receive queue is a single,
  first or k-th consecutive frame of a response to some request. The lemmas
  `SegmentShort`, `SegmentLong`, `ShortFrames` and `LongFrames` say this of the
  segmentation; `SingleOffered`, `FirstOffered`, `OutOfSequenceOffered` and
  `InSequenceOffered` say what `IsoTpReassembler::offer` makes of each kind.
* `Chained`, `InOrder`: an ECU's frames leave it in order, and, unless one was
  dropped, the receive loop will see them in order, however the frames of several
  ECUs interleave in the queue. `Upcoming(e, i)` is the frame of `e` that follows
  place `i`, wherever it is. A frame behind a dropped one would be out of order,
  hence `fault`, which a new command clears: the drain then empties the queue, and
  an ECU may well be in the middle of its output, so what comes first may be a
  consecutive frame of an old transfer.
* `Collecting`, `Undisturbed`: the sequence number the reassembler waits for is
  that of the length it has, modulo sixteen, its first six bytes are the beginning
  of one response, and, with physical addressing and nothing dropped, all of it is,
  and the next consecutive frame is the one that continues it. Modulo sixteen
  would otherwise take the frame sixteen further on for it.
* `WholeAnswer`, `CorrelatedAnswer`, with the lemmas `AffirmedHead` (a payload
  that is judged positive echoes the identifier asked for) and `AffirmedSingle` (a
  single frame that does is the response to a request for that identifier).
* `NothingYet`, `OwnFramesOnly`, `NoStray`, `OwnAnswer`: on a bus that was quiet when
  the request was given, and past the drain, every frame is of the present request,
  and no consecutive frame comes but while the reassembler collects, so none is
  refused as out of sequence.

`OfferStaysInTheFrame` is about `offer()` alone, for every frame, every response and
every DLC: as long as the bytes up to the clamped DLC are there, it stores bytes of
the frame and none beyond, and never more than was announced, so that the
unsigned `expected_ - payload_.size()` cannot wrap. This is the step that
`ReadsOnlyTheFrame` and the type invariant of `IsoTpTransfer` rest on, and its
hypothesis is what fails in `isotp_oversized`: with extended addressing and a
DLC of nine, eight bytes are read where seven are left.

`Correlated` is stated as strongly as the code allows, and the proof moved its
statement twice. A late answer to an earlier request for the same identifier has
that request's length, so a single frame's length is that of some such command and
not of the present one. And only the identifier bytes that `classifyResponse`
compares are promised: for a service whose identifier is longer than its echo the
rest is not looked at.

`DidSweep_proofs`, for every block of addresses, every `--range` and `--ecu`,
whatever an ECU may answer, and any number of runs, naps, attempts, errors and
silences: `TypesHold`, `RepliesArePaired`, `RequestsAreAimed`, `DeadlinesAreHeld`,
`LiveEcusAreFound`, `PayloadsAreTrusted`, `SilencesAreTrusted`, `LogsAreWhole`.
They follow from one inductive invariant, `IInv`, which TLC has checked on the
instance of `scan`. Its parts:

* `LinkInv` is about the two sides of the link alone. `BannerLast`: while the banner
  of a reset is awaited, the board may be writing anything an earlier command
  left it to write, but the only ATZ it still has to take is the last of its
  commands, and in the port nothing follows a piece of the banner but the
  banner's own tail. So once the banner has been accepted nothing is left of it, nor
  of what came before, and from there on (`InStep`) the board holds the one
  command that is waited for, or it and the port hold the pieces of that command's
  reply; the header is the cached one, and the deadline what the last ATST said. `ReadsAimed`: a
  request that has not been taken is the first command in line and the board's
  header is its ECU's. `Scripted` says what may be left of each operation's
  commands, and that nothing is taken for a result before the operation is over.
* `RunTypes`, `Placed`, `Finding`, `EcusKnown`, `LoopTypes`, `LogTypes` (together
  `Scanner`): at which places of the run and of the loop's body an operation can be
  under way, and the shapes of everything `main()` and `sweep()` keep, and of the
  log's rows. An ECU recorded as calibrated satisfies what a calibration
  establishes (`Calibrated`), in the log and through `--resume` too.
* `Deadline`: the board's deadline is, or will be when the operation at hand is
  over (`Aim`), the one its place in the run calls for, and `deadline_ms` is the
  generous one inside a block, which is what a recovery re-sends.
* `Asked`: the request under way is the one its place asks (`Question`), and when it
  is done the result is one the ECU may give to it at the deadline it was read
  under, unless the car sleeps. This is what ties a reading in
  the loop to the ECU, over the many steps of its exchange.
* `Payloads`, `Silences`, `Checking`, `Discovering`: what the loop's variables are
  worth at each stage of its body. The three exceptions of `NothingBuried` are the
  ways in which a silence can be settled (`Settled`).
* `Logged`: the pairs skipped by a resumed run are in the log, or in the row that
  lacked its newline, and every pair of the sweep is still to be recorded, or has a
  row.

The proof keeps the link and the scanner apart. `LinkInv` is kept by each of the
moves in `LinkMove` (an operation begins, a command is sent, a reply is received or
does not come, the board takes a command or writes on, the car changes, the process
is gone), and `NextMoves` shows that every step of `Next` is one of them. For the
scanner, `Steps` splits `Next` by what it may change, and `ExchangeTrips`,
`BoardTrips` and `CarTrips` say all that the rest needs to know of the link: an
operation continues, finishes, with a result or without, turns into a recovery, or
is lost.

In two places the model changed for it. Addresses became numbers and the pairs a
sweep has before it a set of places, since what is least in a set can be reasoned
about here and what nested loops list cannot; and `astray` now records a request to
the functional address too, which `OnlyItsEcu` promised and the history variable
did not see.

`StartAssumption` takes from the car only that a read has some outcome, one of
`classify()`'s four; from the arguments what `expand_ranges` has checked of every
range (`low <= high <= FFFF`, didscan_core.py:33-59); and that the empty header
cache is no address.

Assumptions are the named `ASSUME`s of the modules, which TLC evaluates in
every run. Only model-checked, and why:

* all liveness, which is out of the prover's reach, `RunEnds` of the scan included;
* the properties of `IsoTpTransfer` and `ReplyPath`: the reply is text put together
  by `FlattenSeq`, a fold, and what a fold computes for every input takes an
  induction over data. Of the reassembler alone `OfferStaysInTheFrame` covers both
  addressings and every DLC, and the rest of what `DiagSession_proofs` shows
  holds for eight-byte frames and normal addressing; the bounds of the run are the
  real sizes;
* the findings, which are counterexamples.

## 6. Not modelled

The scanner's summary, the decoding of a VIN, its counts and time estimates, and
the range checks on its arguments (pure functions of text or numbers, with tests
of their own); the GATT table, the access point and the LEDs; the CAN counters (a
report nobody reads back); prefix matching of command names (`at_parser` is
modelled on what a command parses into); the spelling of a request line
(`hexLineToBytes`, by whether it accepts the line); DLC and byte layout of
`ATBD`'s dump.

## 7. Plan

Order of work, most important behaviour first; all of it is done.

1. `ExclusiveSession`, `LinkArbitration`, with proofs.
2. `LineBuffer`, `StreamLink`.
3. `BleFraming`.
4. `IsoTp`, `IsoTpTransfer`.
5. `DiagSession`.
6. `RequestDeadline`, with proofs.
7. `CanBus`; `AdapterSettings`, with proofs.
8. `ScanLink` and `DidSweep`.
9. `ReplyCodec` and `ReplyPath`: what the host decodes is what the session
   answered, or an error.
10. The transmit queue in `DiagSession`: frames queued for a sleeping car and sent
    when it wakes.
11. `ScanLog`, `ScanStart`: discovery, calibration, `--ecu` and `--resume` in front
    of the sweep.
12. `StreamLink_proofs`, `BleFraming_proofs`, `CanBus_proofs`.
13. `DiagSession_proofs`; `Discoverable` in `LinkArbitration_proofs`.
14. `DidSweep_proofs`.

No module declares a RECURSIVE operator, so any of them can carry proofs.

## 8. Running

    tlc -workers 2 -config LinkArbitration.cfg LinkArbitration
    tlapm LinkArbitration_proofs.tla

`PROJECT.json` names the module and configuration of every run, the mutated
definitions that each property is known to catch, and the source lines behind
each definition.
