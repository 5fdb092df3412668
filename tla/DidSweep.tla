------------------------------ MODULE DidSweep ------------------------------
(***************************************************************************)
(* The scanner's runs: sweep() of tools/did_scan.py behind the start of    *)
(* ScanStart.  A run may be killed at any moment, in the middle of a row   *)
(* too, and the next one resume its log.                                   *)
(***************************************************************************)
EXTENDS ScanStart

CONSTANTS ADAPTER_ERROR_ATTEMPTS, MAX_CONSECUTIVE_ERRORS, SLEEP_SUSPICION_PROBES

ASSUME SweepAssumption ==
    {ADAPTER_ERROR_ATTEMPTS, MAX_CONSECUTIVE_ERRORS, SLEEP_SUSPICION_PROBES}
        \subseteq Nat \ {0}

VARIABLES
    todo,      \* <<place in ecus, place in Dids>> still to be recorded, in order
    stage,     \* how far the loop is with the first of them
    purpose,   \* what the generous block at hand is for
    cur,       \* the loop's variables for this DID
    errors,    \* consecutive_errors
    silence    \* consecutive_silence

sweepVars == <<todo, stage, purpose, cur, errors, silence>>
vars      == <<linkVars, runVars, sweepVars, log>>

-----------------------------------------------------------------------------
(* main(), around the sweep                                                *)

\* For each ECU the DIDs in order, without those to be skipped.
\* Mutated: a DID recorded for one ECU is skipped on every ECU.
SkippedAnyEcu(ecu, did) == \E pair \in skip : pair[2] = did
Skipped(ecu, did) == <<ecu, did>> \in skip

Pending == {item \in (DOMAIN ecus) \X (DOMAIN Dids) :
                ~Skipped(ecus[item[1]].ecu, Dids[item[2]])}

BeginSweep ==
    /\ run = "log" /\ unwritten = <<>>
    /\ run' = "sweep"
    /\ todo' = Pending /\ skip' = {}
    /\ UNCHANGED <<linkVars, runs, ecus, findVars, unwritten>>
    /\ UNCHANGED <<stage, purpose, cur, errors, silence, log>>

NoReading == [attempt |-> 0, reply |-> Stalled, second |-> Stalled, left |-> <<>>,
              rescued |-> FALSE, unconfirmed |-> FALSE]

LoopReset == /\ todo' = {} /\ stage' = "next" /\ purpose' = "none"
             /\ cur' = NoReading /\ errors' = 0 /\ silence' = 0

Over == RunOver /\ LoopReset

\* An error that nothing caught, before the recorder is open or after.
Fail == /\ run # "off" /\ doing = "failed"
        /\ Over
        /\ IF run = "sweep" THEN Write(EndRow) ELSE UNCHANGED log

\* The first of what is left: the loop over ECUs, in it the one over DIDs.
Place == Min({item[1] : item \in todo})
Index == Min({item[2] : item \in {other \in todo : other[1] = Place}})
info == ecus[Place]
Ecu == info.ecu
Did == Dids[Index]
Here == <<Ecu, Did>>

\* The rows that may be half written at this moment; an interrupt during the
\* sweep writes the end row.
InFlight ==
    IF run = "log" /\ unwritten # <<>> THEN {Head(unwritten)}
    ELSE IF run # "sweep" THEN {}
    ELSE {EndRow} \cup (IF doing = "none" /\ stage = "record"
                        THEN {DidRow(Here, cur.reply.status)} ELSE {})

Kill == /\ run # "off"
        /\ Over
        /\ (UNCHANGED log) \/ \E row \in InFlight : Cut(row)

-----------------------------------------------------------------------------
(* sweep(): one action per step of the loop over DIDs.                     *)

FirstProbe ==
    /\ stage = "next" /\ todo # {}
    /\ Probe(Ecu, Did)
    /\ cur' = [NoReading EXCEPT !.attempt = 1]
    /\ stage' = "probe"
    /\ UNCHANGED <<deadline, todo, purpose, errors, silence, log>>

\* Mutated: one attempt too many / the attempts are not counted.
MoreAttemptsByOne == cur.attempt <= ADAPTER_ERROR_ATTEMPTS
MoreAttempts == cur.attempt < ADAPTER_ERROR_ATTEMPTS
Uncounted(n) == n
Counted(n) == n + 1

Retry ==
    /\ stage = "probe"
    /\ result.status = "ADAPTER_ERROR" /\ MoreAttempts
    /\ Probe(Ecu, Did)
    /\ cur' = [cur EXCEPT !.attempt = Counted(@)]
    /\ UNCHANGED <<deadline, todo, stage, purpose, errors, silence, log>>

\* generous_timeout: its first ATST.
OpenBlock(why) == /\ purpose' = why
                  /\ stage' = "open"
                  /\ SetDeadline("Generous")
                  /\ UNCHANGED <<deadline, todo>>
GoOn(where) == /\ stage' = where
               /\ UNCHANGED <<linkVars, todo, purpose>>

LastAttempt ==
    /\ stage = "probe"
    /\ ~(result.status = "ADAPTER_ERROR" /\ MoreAttempts)
    /\ cur' = [cur EXCEPT !.reply = result]
    /\ IF result.status = "ADAPTER_ERROR" THEN OpenBlock("error") ELSE GoOn("count")
    /\ UNCHANGED <<errors, silence, log>>

Candidates == IF purpose # "liveness" THEN <<Did>>
              ELSE IF info.live # NoDid THEN <<info.live>> ELSE DISCOVERY_DIDS

EnterBlock ==
    /\ stage = "open"
    /\ deadline' = "Generous"
    /\ Probe(Ecu, Head(Candidates))
    /\ cur' = [cur EXCEPT !.left = Tail(Candidates)]
    /\ stage' = "inside"
    /\ UNCHANGED <<todo, purpose, errors, silence, log>>

Answered(r) == r.status \in {"POSITIVE", "NEGATIVE"}

NextCandidate ==
    /\ stage = "inside"
    /\ ~Answered(result) /\ cur.left # <<>>
    /\ Probe(Ecu, Head(cur.left))
    /\ cur' = [cur EXCEPT !.left = Tail(@)]
    /\ UNCHANGED <<deadline, todo, stage, purpose, errors, silence, log>>

\* Three of the four blocks put deadline_ms back; the liveness check does not.
LeaveBlock ==
    /\ stage = "inside"
    /\ Answered(result) \/ cur.left = <<>>
    /\ cur' = [cur EXCEPT !.second = result, !.left = <<>>]
    /\ deadline' = IF purpose = "liveness" THEN deadline ELSE "Sweep"
    /\ SetDeadline("Sweep")
    /\ stage' = "close"
    /\ UNCHANGED <<todo, purpose, errors, silence, log>>

Rescue(when) ==
    cur' = IF when THEN [cur EXCEPT !.reply = cur.second, !.second = Stalled,
                                    !.rescued = TRUE]
                   ELSE [cur EXCEPT !.second = Stalled]

\* An error is replaced by a real answer only.
ErrorReread ==
    /\ stage = "close" /\ purpose = "error"
    /\ Rescue(Answered(cur.second))
    /\ GoOn("count")
    /\ UNCHANGED <<errors, silence, log>>

Count ==
    /\ stage = "count"
    /\ errors' = IF cur.reply.status = "ADAPTER_ERROR" THEN errors + 1 ELSE 0
    /\ errors' < MAX_CONSECUTIVE_ERRORS
    /\ GoOn("quiet")
    /\ UNCHANGED <<cur, silence, log>>

\* The end row that main() writes next is not in the model: no reader keeps it.
TooManyErrors ==
    /\ run = "sweep" /\ doing = "none" /\ stage = "count"
    /\ cur.reply.status = "ADAPTER_ERROR"
    /\ errors + 1 >= MAX_CONSECUTIVE_ERRORS
    /\ Write(DidRow(Here, cur.reply.status))
    /\ Over

Silent == cur.reply.status = "NO_RESPONSE"

\* Mutated: keyed on the other miss mode.
SecondLookAtTimeouts == Silent /\ info.mode = "TIMEOUT"
NeedsSecondLook == Silent /\ info.mode = "NRC"

SecondLook ==
    /\ stage = "quiet"
    /\ IF NeedsSecondLook THEN OpenBlock("silence") ELSE GoOn("sleep")
    /\ UNCHANGED <<cur, errors, silence, log>>

\* A silence is replaced by anything else.
SilenceReread ==
    /\ stage = "close" /\ purpose = "silence"
    /\ Rescue(cur.second.status # "NO_RESPONSE")
    /\ GoOn("sleep")
    /\ UNCHANGED <<errors, silence, log>>

SleepCheck ==
    /\ stage = "sleep"
    /\ silence' = IF Silent THEN silence + 1 ELSE 0
    /\ IF silence' >= SLEEP_SUSPICION_PROBES THEN OpenBlock("liveness")
                                             ELSE GoOn("confirm")
    /\ UNCHANGED <<cur, errors, log>>

Alive ==
    /\ stage = "close" /\ purpose = "liveness"
    /\ Answered(cur.second)
    /\ silence' = 0
    /\ cur' = [cur EXCEPT !.second = Stalled]
    /\ GoOn("confirm")
    /\ UNCHANGED <<errors, log>>

Asleep ==
    /\ run = "sweep" /\ doing = "none" /\ stage = "close" /\ purpose = "liveness"
    /\ ~Answered(cur.second)
    /\ Write(EndRow)
    /\ Over

\* Mutated: a hit that took several attempts needs no second read.
ConfirmsFirstHits == cur.reply.status = "POSITIVE" /\ ~cur.rescued /\ cur.attempt = 1
NeedsConfirming == cur.reply.status = "POSITIVE" /\ ~cur.rescued

Confirm ==
    /\ stage = "confirm"
    /\ IF NeedsConfirming THEN OpenBlock("confirm") ELSE GoOn("record")
    /\ UNCHANGED <<cur, errors, silence, log>>

Confirmed ==
    /\ stage = "close" /\ purpose = "confirm"
    /\ cur' = IF cur.second.status = "POSITIVE"
              THEN [cur EXCEPT !.reply = cur.second]
              ELSE [cur EXCEPT !.unconfirmed = TRUE]
    /\ GoOn("record")
    /\ UNCHANGED <<errors, silence, log>>

\* The row, and on to the next DID; silence is counted per ECU.
Record ==
    /\ stage = "record"
    /\ Write(DidRow(Here, cur.reply.status))
    /\ todo' = todo \ {<<Place, Index>>}
    /\ silence' = IF \E item \in todo' : item[1] = Place THEN silence ELSE 0
    /\ stage' = "next" /\ purpose' = "none" /\ cur' = NoReading
    /\ UNCHANGED <<linkVars, errors>>

Finish ==
    /\ run = "sweep" /\ doing = "none" /\ stage = "next" /\ todo = {}
    /\ Over
    /\ Write(EndRow)

Loop ==
    /\ run = "sweep" /\ doing = "none"
    /\ \/ FirstProbe \/ Retry \/ LastAttempt
       \/ EnterBlock \/ NextCandidate \/ LeaveBlock
       \/ ErrorReread \/ Count \/ SecondLook \/ SilenceReread
       \/ SleepCheck \/ Alive \/ Confirm \/ Confirmed \/ Record
    /\ UNCHANGED runVars

-----------------------------------------------------------------------------
Init ==
    /\ LinkInit /\ StartInit
    /\ todo = {} /\ stage = "next" /\ purpose = "none" /\ cur = NoReading
    /\ errors = 0 /\ silence = 0
    /\ log = EmptyLog

InBlock == run = "discover" \/ stage = "inside"
\* Once an error has left the sweep its variables are gone.
Exchange == /\ Send \/ Receive(InBlock) \/ TimeOut(InBlock)
            /\ IF doing' \in {"unwind", "failed"} THEN LoopReset
               ELSE UNCHANGED sweepVars
            /\ UNCHANGED <<runVars, log>>
\* What the board does between an error and the end of the process is read by
\* nobody, and left for after it.
Board == /\ doing # "failed"
         /\ BoardTakes(run # "off") \/ BoardResumes(run # "off")
         /\ UNCHANGED <<runVars, sweepVars, log>>
Car == /\ CarSleepsOrWakes(run # "off")
       /\ UNCHANGED <<runVars, sweepVars, log>>

Process == \/ (Start /\ UNCHANGED sweepVars)
           \/ BeginSweep \/ Exchange \/ Loop
           \/ TooManyErrors \/ Asleep \/ Finish \/ Fail

Next == (StartRun /\ UNCHANGED sweepVars) \/ Process \/ Kill \/ Board \/ Car

Spec == Init /\ [][Next]_vars

\* The process runs on; read() returns within its timeout.
FairSpec == Spec /\ WF_vars(Process)

-----------------------------------------------------------------------------
TypeOK ==
    /\ LinkTypeOK /\ StartTypeOK
    /\ todo \subseteq (DOMAIN ecus) \X (DOMAIN Dids)
    /\ stage \in {"next", "probe", "open", "inside", "close",
                  "count", "quiet", "sleep", "confirm", "record"}
    /\ purpose \in {"none", "error", "silence", "liveness", "confirm"}
    /\ cur.attempt \in 0..ADAPTER_ERROR_ATTEMPTS
    /\ {cur.reply.status, cur.second.status} \subseteq Status
    /\ errors \in 0..(MAX_CONSECUTIVE_ERRORS - 1)
    /\ silence \in 0..SLEEP_SUSPICION_PROBES
    /\ Len(log.tail) <= 1
    /\ log.spoilt \subseteq {"run", "ecu", "did", "end"}

\* A result is the answer to its own request, although the board may write
\* the reply to an earlier one at any later time: the reset, whose banner no
\* other reply contains, and the OKs after it bring the two sides in step
\* (did_scan.py:139-173,212-228,545-577).
Paired == result.fresh

\* No request goes to the functional address, nor to another ECU than the one
\* it is recorded for, across every reset of the board that the header cache
\* does not see (did_scan.py:124-137,199-209).
OnlyItsEcu == ~astray

\* Discovery reads at the generous deadline, calibration at the sweep's, and
\* so does every read of the sweep at the one its place in the code relies on,
\* whatever recoveries came between: never below it, nor at the one ATZ leaves
\* behind (did_scan.py:537-543,562-567).  A widened deadline that the liveness
\* check leaves behind may show.
DeadlineHeld ==
    doing = "none" /\ result # Stalled =>
        CASE run = "discover"  -> result.atst = "Generous"
          [] run = "calibrate" -> result.atst = "Sweep"
          [] stage = "inside"  -> result.atst = "Generous"
          [] OTHER             -> result.atst \in {"Sweep", deadline}

AlwaysAnswers(ecu, did) == Truth(ecu, did, "Generous") \subseteq {"POSITIVE", "NEGATIVE"}
NeverAnswers(ecu, did) == Truth(ecu, did, "Generous") \cap {"POSITIVE", "NEGATIVE"} = {}
LiveEcus == {ecu \in discovery_candidates :
                \E did \in Elements(DISCOVERY_DIDS) : AlwaysAnswers(ecu, did)}
Nobody == {ecu \in discovery_candidates :
              \A did \in Elements(DISCOVERY_DIDS) : NeverAnswers(ecu, did)}

\* Discovery finds every ECU that is there, and nobody else, and the liveness
\* check ends no run on an ECU that answers the last question it asks, unless
\* the car slept or the board stalled at that question: "an entire ECU is
\* dropped from the run with no diagnostic at all", "a LIVE ECU aborts the run"
\* (did_scan.py:334-340,733-738).
LiveEcusAreHeard ==
    /\ run = "discover" /\ left = {} =>
          LET found == {ecus[i].ecu : i \in DOMAIN ecus}
          IN  asleep \/ (LiveEcus \subseteq found /\ found \cap Nobody = {})
    /\ stage = "close" /\ purpose = "liveness" /\ ~Answered(cur.second) =>
          \/ asleep \/ cur.second.status = "ADAPTER_ERROR"
          \/ ~AlwaysAnswers(Ecu, Candidates[Len(Candidates)])

\* "No recorded payload was ever subject to the fast sweep timeout", unless it
\* is flagged unconfirmed (did_scan.py:780-808).
PayloadsAreGenerous ==
    stage = "record" /\ cur.reply.status = "POSITIVE" =>
        cur.reply.atst = "Generous" \/ cur.unconfirmed

\* A DID that answers, given the time, is never written off as a silence, at
\* which no resumed run would look again, unless the car sleeps, the ECU is one
\* that need not reject what it does not serve, or its calibration, in this run
\* or in the one it was reused from, heard something else than it says
\* (did_scan.py:670-701).
NothingBuried ==
    stage = "record" /\ Silent =>
        \/ "NO_RESPONSE" \in Truth(Ecu, Did, "Generous")
        \/ Truth(Ecu, CALIBRATION_DID, "Sweep") # {"NEGATIVE"}
        \/ asleep \/ info.misled

\* A run killed in the middle of a row costs that row and the "run" row of
\* the next one, which absorbs it: no other finding and no other ECU becomes
\* unreadable.  A sweep that ends by itself has left a row for each DID of each
\* of its ECUs, now or earlier, except one whose row lacked only its newline:
\* it was skipped as recorded and then absorbed.
\* "losing at most the row in flight" (did_scan.py:426-427).
LogIsWhole ==
    /\ log.spoilt \subseteq {"run"}
    /\ run = "sweep" /\ doing = "none" /\ stage = "next" /\ todo = {} =>
          {ecus[i].ecu : i \in DOMAIN ecus} \X Elements(Dids)
              \subseteq ReadBack.found \cup ReadBack.erred \cup log.lost

\* Whatever the board and the car do, a run ends: "a board that stalls on
\* everything still ... stops the run, rather than being retried forever"
\* (did_scan.py:562-565).
RunEnds == run # "off" ~> run = "off"

\* "--resume can therefore rebuild its ECU list from the log"
\* (didscan_core.py:217-218): a sweep that was not narrowed covers every ECU
\* that answers.
SweepsEveryEcu == run = "sweep" => LiveEcus \subseteq {ecus[i].ecu : i \in DOMAIN ecus}
=============================================================================
