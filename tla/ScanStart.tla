----------------------------- MODULE ScanStart -----------------------------
(***************************************************************************)
(* A run of the DID scanner up to its sweep: main() of tools/did_scan.py   *)
(* with discover_ecus() and calibrate(), --resume and --ecu, and the rows  *)
(* it writes before the first DID.  No error is survived here.             *)
(***************************************************************************)
EXTENDS ScanLink, ScanLog

CONSTANTS Addresses,  \* the block of addresses discovery looks at
          Ranges,     \* --range: <<low, high>> each
          Narrowings, \* the --ecu arguments a run may be given, <<>> for none
          MaxRuns     \* bound: runs on one log

VARIABLES
    run,       \* "off" | "init" | "discover" | "calibrate" | "log" | "sweep"
    runs,      \* runs started
    ecus,      \* the run's ECUs, found or given
    skip,      \* --resume: the pairs not to be read again
    left,      \* addresses discovery has not finished with, taken in order
    tries,     \* DIDs it has not asked the next of them
    heard,     \* what that one has said so far
    asked,     \* a question of discovery or calibration is out
    unwritten  \* rows to be written before the sweep

findVars == <<left, tries, heard, asked>>
runVars  == <<run, runs, ecus, skip, findVars, unwritten>>

DISCOVERY_DIDS  == <<61840, 61696>>  \* F190, F100
CALIBRATION_DID == 65535
NoDid == 65536

\* expand_ranges(): in the order given, a DID at its first place only.
expand_ranges(specs) ==
    LET Span(spec) == [k \in 1..(spec[2] - spec[1] + 1) |-> spec[1] + k - 1]
        all == FlattenSeq([i \in DOMAIN specs |-> Span(specs[i])])
        first == {i \in DOMAIN all : \A j \in 1..(i - 1) : all[j] # all[i]}
    IN  [k \in 1..Cardinality(first) |->
            all[CHOOSE i \in first : Cardinality(first \cap 1..i) = k]]

Dids == expand_ranges(Ranges)

\* Whom a run may ask, and for what.
Ecus == Addresses \cup UNION {Elements(narrowing) : narrowing \in Narrowings}
Questions == Elements(Dids) \cup Elements(DISCOVERY_DIDS) \cup {CALIBRATION_DID}

ASSUME StartAssumption ==
    /\ Addresses \subseteq Nat
    /\ \A narrowing \in Narrowings : narrowing \in Seq(Elements(narrowing))
    /\ NoEcu \notin Ecus \cup {Functional}
    /\ \A ecu \in Ecus, did \in Questions, which \in {"Sweep", "Generous", "Default"},
          sleeping \in BOOLEAN :
          /\ Answers(<<ecu, did>>, which, sleeping) \subseteq Status
          /\ Answers(<<ecu, did>>, which, sleeping) # {}
    /\ \A i \in DOMAIN Ranges : /\ Ranges[i] \in Nat \X Nat
                                /\ Ranges[i][1] <= Ranges[i][2] /\ Ranges[i][2] <= 65535
    /\ MaxRuns \in Nat \ {0} /\ MaxNaps \in Nat

\* What a read of a DID says while the car is awake.
Truth(ecu, did, which) == Answers(<<ecu, did>>, which, FALSE)

\* EcuInfo, and whether its calibration heard something else (history).
Info(ecu, mode, live) ==
    [ecu |-> ecu, mode |-> mode, live |-> live, calibrated |-> FALSE, misled |-> FALSE]

discovery_candidates == Addresses \ {Functional}

-----------------------------------------------------------------------------
\* Assumed of the operator: a run is started once the board has dealt with
\* what the last one wrote to it.
BoardQuiet == pending = <<>> /\ writing = <<>>

FindReset == left' = {} /\ tries' = <<>> /\ heard' = <<>> /\ asked' = FALSE

StartRun ==
    /\ run = "off" /\ runs < MaxRuns /\ BoardQuiet
    /\ run' = "init" /\ runs' = runs + 1
    /\ Initialise("init", "Sweep")
    /\ UNCHANGED <<boardVars, carVars, wire, waiting, result, deadline>>
    /\ UNCHANGED <<ecus, skip, findVars, unwritten, log>>

\* Mutated: discovery runs at the sweep deadline.
AtSweepDeadline == "Sweep"
AtReadTimeout == "Generous"

\* --resume: the log is read once, the pairs already probed and the ECUs.
\* --ecu takes what the log knows of those.
ReadLog(resume, narrowing) ==
    LET reused == IF resume THEN ReadBack.ecus ELSE <<>>
        Known(e) == {i \in Elements(reused) : i.ecu = e}
        Given(e) == IF Known(e) # {} THEN CHOOSE i \in Known(e) : TRUE
                    ELSE Info(e, "TIMEOUT", NoDid)
    IN  /\ run = "init" /\ doing = "none"
        /\ skip' = IF resume THEN ReadBack.found ELSE {}
        /\ ecus' = IF narrowing # <<>> THEN [k \in DOMAIN narrowing |-> Given(narrowing[k])]
                   ELSE reused
        /\ IF ecus' # <<>> THEN run' = "calibrate" /\ UNCHANGED <<linkVars, findVars>>
           ELSE /\ run' = "discover"
                /\ left' = discovery_candidates /\ tries' = DISCOVERY_DIDS
                /\ SetDeadline(AtReadTimeout)
                /\ UNCHANGED <<deadline, heard, asked>>
        /\ UNCHANGED <<runs, unwritten, log>>

-----------------------------------------------------------------------------
(* discover_ecus()                                                         *)

Address == Min(left)

AskAddress ==
    /\ run = "discover" /\ doing = "none" /\ left # {} /\ ~asked
    /\ Ask(Address, Head(tries))
    /\ asked' = TRUE
    /\ UNCHANGED <<run, runs, ecus, skip, left, tries, heard, unwritten, log>>

\* A positive answer replaces an earlier rejection and ends the questions.
Hear ==
    LET now == CASE result.status = "POSITIVE" ->
                      <<Info(Address, "TIMEOUT", Head(tries))>>
                 [] result.status = "NEGATIVE" /\ heard = <<>> ->
                      <<Info(Address, "NRC", NoDid)>>
                 [] OTHER -> heard
    IN  /\ run = "discover" /\ doing = "none" /\ asked
        /\ asked' = FALSE
        /\ IF result.status = "POSITIVE" \/ Len(tries) = 1
           THEN /\ ecus' = ecus \o now
                /\ left' = left \ {Address} /\ tries' = DISCOVERY_DIDS /\ heard' = <<>>
           ELSE /\ heard' = now /\ tries' = Tail(tries)
                /\ UNCHANGED <<ecus, left>>
        /\ UNCHANGED <<linkVars, run, runs, skip, unwritten, log>>

Discovered ==
    /\ run = "discover" /\ doing = "none" /\ left = {}
    /\ run' = "calibrate"
    /\ SetDeadline("Sweep")
    /\ tries' = <<>>
    /\ UNCHANGED <<deadline, runs, ecus, skip, left, heard, asked, unwritten, log>>

-----------------------------------------------------------------------------
(* calibrate(), for each ECU that is not yet                               *)

Uncalibrated == {i \in DOMAIN ecus : ~ecus[i].calibrated}
Uncertain == Min(Uncalibrated)

AskMiss ==
    /\ run = "calibrate" /\ doing = "none" /\ ~asked
    /\ Uncalibrated # {}
    /\ Ask(ecus[Uncertain].ecu, CALIBRATION_DID)
    /\ asked' = TRUE
    /\ UNCHANGED <<run, runs, ecus, skip, left, tries, heard, unwritten, log>>

\* Anything but a rejection is taken for the costlier mode.
MissMode(status) == IF status = "NEGATIVE" THEN "NRC" ELSE "TIMEOUT"

Calibrate ==
    /\ run = "calibrate" /\ doing = "none" /\ asked
    /\ asked' = FALSE
    /\ ecus' = [ecus EXCEPT ![Uncertain] =
                   [@ EXCEPT !.mode = MissMode(result.status), !.calibrated = TRUE,
                             !.misled = result.status \notin
                                           Truth(ecus[Uncertain].ecu, CALIBRATION_DID, "Sweep")]]
    /\ UNCHANGED <<linkVars, run, runs, skip, left, tries, heard, unwritten, log>>

FirstRows == <<RunRow>> \o [i \in DOMAIN ecus |-> EcuRow(ecus[i])]

\* The recorder is opened, for appending.
OpenLog ==
    /\ run = "calibrate" /\ doing = "none" /\ ecus # <<>> /\ Uncalibrated = {}
    /\ run' = "log"
    /\ unwritten' = FirstRows
    /\ UNCHANGED <<linkVars, runs, ecus, skip, findVars, log>>

WriteRow ==
    /\ run = "log" /\ unwritten # <<>>
    /\ Write(Head(unwritten))
    /\ unwritten' = Tail(unwritten)
    /\ UNCHANGED <<linkVars, run, runs, ecus, skip, findVars>>

-----------------------------------------------------------------------------
\* The process is gone.  What its end row says is read by nobody.
RunOver == /\ run' = "off"
           /\ HostGone
           /\ ecus' = <<>> /\ skip' = {} /\ unwritten' = <<>>
           /\ FindReset
           /\ UNCHANGED runs

NobodyThere ==
    /\ run = "calibrate" /\ doing = "none" /\ ecus = <<>>
    /\ RunOver
    /\ UNCHANGED log

Start == \/ \E resume \in BOOLEAN, narrowing \in Narrowings : ReadLog(resume, narrowing)
         \/ AskAddress \/ Hear \/ Discovered
         \/ AskMiss \/ Calibrate \/ NobodyThere
         \/ OpenLog \/ WriteRow

StartInit ==
    /\ run = "off" /\ runs = 0
    /\ ecus = <<>> /\ skip = {} /\ unwritten = <<>>
    /\ left = {} /\ tries = <<>> /\ heard = <<>> /\ asked = FALSE

StartTypeOK ==
    /\ run \in {"off", "init", "discover", "calibrate", "log", "sweep"}
    /\ runs \in 0..MaxRuns
    /\ \A i \in DOMAIN ecus :
          /\ ecus[i].mode \in {"NRC", "TIMEOUT"}
          /\ ecus[i].live \in Elements(DISCOVERY_DIDS) \cup {NoDid}
    /\ left \subseteq discovery_candidates
    /\ Len(heard) <= 1 /\ asked \in BOOLEAN
    /\ run \notin {"discover", "calibrate"} => ~asked
=============================================================================
