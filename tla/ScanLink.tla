------------------------------ MODULE ScanLink ------------------------------
(***************************************************************************)
(* The DID scanner's conversation with the scan build over USB: class      *)
(* Adapter, initialise() and sweep()'s probe() of tools/did_scan.py, one   *)
(* exchange at a time, against a board that now and then "stops writing to *)
(* USB CDC part way through a reply", answers late, or never writes the    *)
(* rest.  The board takes commands in order and loses none.                *)
(*                                                                         *)
(* Three deadlines are told apart: "Sweep" (--timeout), "Generous" (the    *)
(* wider of --read-timeout and --timeout) and "Default" (after ATZ).       *)
(***************************************************************************)
EXTENDS Naturals, Sequences, SequencesExt

CONSTANTS Functional,   \* the board's header after ATZ, 7DF
          NoEcu,        \* an empty header cache
          MaxNaps,      \* bound: times the car falls asleep
          Answers(_, _, _)  \* what may come of reading <<ecu, DID>> under a
                            \* deadline while the car sleeps or not

VARIABLES
    (* board *)
    header, atst,  \* AdapterState's header and timeoutMs
    pending,       \* commands written to it and not yet taken
    writing,       \* <<>>, or the reply it has written the first part of
    astray,        \* history: a request has gone to another header than its ECU's,
                   \* or to the functional one
    asleep, naps,  \* the car's ECUs are silent; times they have become so
    (* host *)
    wire,          \* what the port holds for read()
    cached,        \* Adapter._header
    script,        \* commands of the current operation still to be answered
    waiting,       \* the first of them has been written
    doing,         \* "none" | "init" | "deadline" | "ask" | "probe"
                   \* | "recover" | "unwind" | "failed"
    result,        \* what the last read returned, until the next operation
    deadline       \* sweep()'s deadline_ms

boardVars == <<header, atst, pending, writing, astray>>
hostVars  == <<wire, cached, script, waiting, doing, result, deadline>>
carVars   == <<asleep, naps>>
linkVars  == <<boardVars, carVars, hostVars>>

Status == {"POSITIVE", "NEGATIVE", "NO_RESPONSE", "ADAPTER_ERROR"}

Command(op, arg) == [op |-> op, arg |-> arg]
ATZ == Command("ATZ", NoEcu)
\* ATE0, ATS0 and ATSP6, as one: answered OK, and of no consequence here.
Quieten == Command("ATE0", NoEcu)
ATSH(ecu) == Command("ATSH", ecu)
ATST(which) == Command("ATST", which)
Read(ecu, did) == Command("Read", <<ecu, did>>)

-----------------------------------------------------------------------------
(* The board: serialLinkPoll() around handleLine().                        *)

Replies(c) == CASE c.op = "ATZ"  -> {"banner"}
                [] c.op = "Read" -> Answers(c.arg, atst, asleep)
                [] OTHER         -> {"OK"}

\* A piece of a reply, as it travels: only whole ones and tails end in the
\* prompt.  `fresh' is history: no later command had been written by then.
Piece(part, reply) == [part |-> part, reply |-> reply]

\* It takes a command, applies it, and writes the reply whole, or its first
\* part, or stalls until writeAll drops all of it, as it does while nobody has
\* the port open.
BoardTakes(open) ==
    /\ pending # <<>> /\ writing = <<>>
    /\ LET c == Head(pending)
       IN  /\ header' = CASE c.op = "ATZ"  -> Functional
                          [] c.op = "ATSH" -> c.arg
                          [] OTHER         -> header
           /\ atst' = CASE c.op = "ATZ"  -> "Default"
                        [] c.op = "ATST" -> c.arg
                        [] OTHER         -> atst
           /\ astray' = (astray \/ (c.op = "Read" /\ (c.arg[1] # header \/ header = Functional)))
           /\ \E text \in Replies(c) :
                LET reply == [text |-> text, atst |-> atst, fresh |-> c.fresh]
                IN  \/ open /\ wire' = Append(wire, Piece("whole", reply)) /\ UNCHANGED writing
                    \/ open /\ wire' = Append(wire, Piece("head", reply)) /\ writing' = <<reply>>
                    \/ UNCHANGED <<wire, writing>>
    /\ pending' = Tail(pending)
    /\ UNCHANGED <<carVars, cached, script, waiting, doing, result, deadline>>

\* Writing goes on where it stalled, or writeAll gives up.
BoardResumes(open) ==
    /\ writing # <<>>
    /\ writing' = <<>>
    /\ \/ open /\ wire' = Append(wire, Piece("tail", writing[1]))
       \/ UNCHANGED wire
    /\ UNCHANGED <<header, atst, pending, astray, carVars, cached, script,
                   waiting, doing, result, deadline>>

\* Asleep from some moment of a run on, awake again between runs.
CarSleepsOrWakes(running) ==
    /\ asleep # running
    /\ running => naps < MaxNaps
    /\ asleep' = running
    /\ naps' = IF running THEN naps + 1 ELSE naps
    /\ UNCHANGED <<boardVars, hostVars>>

-----------------------------------------------------------------------------
(* The host: _exchange(), in two steps.                                    *)

Aged(s) == [i \in DOMAIN s |-> [s[i] EXCEPT !.fresh = FALSE]]

\* reset_input_buffer(), then write.
Send ==
    /\ script # <<>> /\ ~waiting
    /\ wire' = <<>>
    /\ writing' = Aged(writing)
    /\ pending' = Append(Aged(pending),
                         [op |-> Head(script).op, arg |-> Head(script).arg,
                          fresh |-> TRUE])
    /\ waiting' = TRUE
    /\ UNCHANGED <<header, atst, astray, carVars, cached, script, doing, result,
                   deadline>>

Prompts == {i \in DOMAIN wire : wire[i].part # "head"}
UpToPrompt == Min(Prompts)

\* What the pieces up to the prompt read as.  A whole reply reads as itself.
\* A tail alone may read as anything its reply could, or as junk; and so may
\* a reply behind the first part of an abandoned one, except that the banner
\* is looked for with `in'.
Readings(pieces) ==
    LET last  == pieces[Len(pieces)]
        whole == \/ Len(pieces) = 1 /\ last.part = "whole"
                 \/ Len(pieces) = 2 /\ last.part = "tail"
    IN  IF whole THEN {last.reply.text}
        ELSE IF Len(pieces) = 1 THEN {last.reply.text, "junk"}
        ELSE {"junk"} \cup ({pieces[i].reply.text : i \in DOMAIN pieces} \cap {"banner"})

\* generous_timeout does not look at the reply to its ATST.
Accepted(c, text) ==
    CASE c.op = "ATZ"        -> text = "banner"
      [] c.op = "Read"       -> TRUE
      [] doing \in {"deadline", "unwind"} -> TRUE
      [] OTHER               -> text = "OK"

\* initialise().  forget_header() comes first.
InitScript(which) == <<ATZ, Quieten, ATST(which)>>
\* Mutated: the cache survives.
KeptHeader == cached
ForgottenHeader == NoEcu
Initialise(why, which) ==
    /\ doing' = why
    /\ script' = InitScript(which)
    /\ cached' = ForgottenHeader

Stalled == [status |-> "ADAPTER_ERROR", atst |-> "none", fresh |-> TRUE]

\* Mutated: a stall is reported without touching the board.
ReportStall == /\ doing' = "none" /\ script' = <<>>
               /\ UNCHANGED cached
\* Mutated: ... and the sweep deadline restored, whatever the block needs.
RecoverAtSweep == Initialise("recover", "Sweep")
\* probe()'s except clause.
Recover == Initialise("recover", deadline)

\* An AdapterError: probe() catches the one of its own request; nothing
\* catches that of its recovery, of a question outside the sweep or of
\* generous_timeout, whose finally clause still sends the sweep deadline when
\* the error passes through its block.
AdapterError(inBlock) ==
    IF doing = "probe" THEN Recover
    ELSE /\ UNCHANGED cached
         /\ IF doing \in {"recover", "ask"} /\ inBlock
            THEN doing' = "unwind" /\ script' = <<ATST("Sweep")>>
            ELSE doing' = "failed" /\ script' = <<>>

\* A reply has arrived up to its prompt.
Receive(inBlock) ==
    /\ waiting /\ Prompts # {}
    /\ waiting' = FALSE
    /\ wire' = SubSeq(wire, UpToPrompt + 1, Len(wire))
    /\ LET c      == Head(script)
           pieces == SubSeq(wire, 1, UpToPrompt)
           reply  == pieces[UpToPrompt].reply
       IN  \E text \in Readings(pieces) :
             IF ~Accepted(c, text)
             THEN AdapterError(inBlock) /\ UNCHANGED result
             ELSE /\ script' = Tail(script)
                  /\ cached' = IF c.op = "ATSH" THEN c.arg ELSE cached
                  /\ doing' = IF Tail(script) # <<>> THEN doing
                              ELSE IF doing = "unwind" THEN "failed" ELSE "none"
                  /\ result' =
                       CASE c.op = "Read" ->
                              [status |-> IF text \in Status THEN text ELSE "ADAPTER_ERROR",
                               atst   |-> reply.atst,
                               fresh  |-> reply.fresh]
                         [] doing = "recover" /\ c.op # "Read" -> Stalled
                         [] OTHER -> result
    /\ UNCHANGED <<boardVars, carVars, deadline>>

\* read() returned nothing.
TimeOut(inBlock) ==
    /\ waiting /\ Prompts = {}
    /\ waiting' = FALSE
    /\ wire' = <<>>
    /\ AdapterError(inBlock)
    /\ UNCHANGED <<boardVars, carVars, result, deadline>>

\* A process and its variables are gone, the port is closed; the board and
\* what was written to it are not.
HostGone == /\ cached' = NoEcu /\ script' = <<>> /\ waiting' = FALSE
            /\ doing' = "none" /\ result' = Stalled /\ deadline' = "Sweep"
            /\ wire' = <<>>
            /\ pending' = Aged(pending) /\ writing' = Aged(writing)
            /\ UNCHANGED <<header, atst, astray, carVars>>

\* send_did(): the header first, unless it is cached.
SendDid(why, ecu, did) ==
    /\ doing' = why
    /\ script' = (IF cached = ecu THEN <<>> ELSE <<ATSH(ecu)>>) \o <<Read(ecu, did)>>
    /\ result' = Stalled
    /\ UNCHANGED <<boardVars, carVars, wire, cached, waiting>>

\* ... of the sweep, by probe(); and before it, where the functional address
\* may have been given with --ecu.
Probe(ecu, did) == SendDid("probe", ecu, did)
Ask(ecu, did) ==
    /\ IF ecu # Functional THEN SendDid("ask", ecu, did)
       ELSE /\ doing' = "failed"
            /\ UNCHANGED <<boardVars, carVars, wire, cached, script, waiting, result>>
    /\ UNCHANGED deadline

\* generous_timeout(), at either end of its block.
SetDeadline(which) ==
    /\ doing' = "deadline"
    /\ script' = <<ATST(which)>>
    /\ result' = Stalled
    /\ UNCHANGED <<boardVars, carVars, wire, cached, waiting>>

LinkInit ==
    /\ header = Functional /\ atst = "Default" /\ pending = <<>>
    /\ writing = <<>> /\ astray = FALSE /\ asleep = FALSE /\ naps = 0
    /\ wire = <<>> /\ cached = NoEcu /\ script = <<>> /\ waiting = FALSE
    /\ doing = "none" /\ result = Stalled /\ deadline = "Sweep"

LinkTypeOK ==
    /\ atst \in {"Sweep", "Generous", "Default"}
    /\ Len(writing) <= 1 /\ naps \in 0..MaxNaps /\ {asleep, waiting, astray} \subseteq BOOLEAN
    /\ doing \in {"none", "init", "deadline", "ask", "probe", "recover", "unwind", "failed"}
    /\ waiting => script # <<>>
    /\ script # <<>> <=> doing \notin {"none", "failed"}
    /\ result.status \in Status /\ result.fresh \in BOOLEAN
    /\ deadline \in {"Sweep", "Generous"}
    /\ header # NoEcu
=============================================================================
