--------------------------- MODULE DidSweep_proofs ---------------------------
(***************************************************************************)
(* What the scanner's runs keep to, for every block of addresses, every    *)
(* set of ranges, every board and car and every bound.                     *)
(*                                                                         *)
(* The invariants come first.  LinkInv says what the two sides of the link *)
(* hold of each other: before the banner anything may still come of an     *)
(* earlier request, after it they are in step.  The others say where the   *)
(* run is while an operation is under way, at which deadline, what it has  *)
(* asked, what the readings it goes by are worth, and what its log holds.  *)
(*                                                                         *)
(* Then each is shown to be kept:                                          *)
(*   - LinkInv by each move the scanner, the board and the car can make    *)
(*     (RestKeepsLink ... MoveKeepsLink), and every step is such a move    *)
(*     (NextMoves);                                                        *)
(*   - the rest by each step of the scanner (Steps), most of which leave   *)
(*     the link alone, and by the moves of the link, which leave the       *)
(*     scanner alone (ExchangeTrips, BoardTrips, CarTrips).                *)
(* IInv is all of them together, and the theorems follow from it.          *)
(***************************************************************************)
EXTENDS DidSweep, SequenceTheorems, WellFoundedInduction, TLAPS

-----------------------------------------------------------------------------
(* The link.                                                               *)

Deadlines == {"Sweep", "Generous"}

\* What may be asked of whom: everybody but the functional address.
Pairs == (Ecus \ {Functional}) \X Questions

Texts == Status \cup {"banner", "OK"}
Written == [op : {"ATZ", "ATE0"}, arg : {NoEcu}, fresh : BOOLEAN]
           \cup [op : {"ATSH"}, arg : Ecus \ {Functional}, fresh : BOOLEAN]
           \cup [op : {"ATST"}, arg : Deadlines, fresh : BOOLEAN]
           \cup [op : {"Read"}, arg : Pairs, fresh : BOOLEAN]
Reply == [text : Texts, atst : Deadlines \cup {"Default"}, fresh : BOOLEAN]
Pieces == [part : {"whole", "head", "tail"}, reply : Reply]
Results == [status : Status, atst : Deadlines \cup {"Default"}, fresh : {TRUE}]
           \cup {Stalled}

LinkTypes ==
    /\ header \in Ecus \cup {Functional}
    /\ atst \in Deadlines \cup {"Default"}
    /\ pending \in Seq(Written)
    /\ writing = <<>> \/ \E reply \in Reply : writing = <<reply>>
    /\ asleep \in BOOLEAN /\ naps \in 0..MaxNaps
    /\ wire \in Seq(Pieces)
    /\ cached \in Ecus \cup {NoEcu}
    /\ waiting \in BOOLEAN
    /\ doing \in {"none", "init", "deadline", "ask", "probe", "recover", "unwind", "failed"}
    /\ result \in Results
    /\ deadline \in Deadlines

\* What is left of the operation at hand.
Resets(which) == {<<ATZ, Quieten, ATST(which)>>, <<Quieten, ATST(which)>>, <<ATST(which)>>}
Scripted ==
    /\ run = "off" => doing = "none" /\ result = Stalled
    /\ waiting => script # <<>>
    /\ doing \in {"none", "failed"} => script = <<>>
    /\ doing \in {"init", "recover"} =>
          cached = NoEcu /\ \E which \in Deadlines : script \in Resets(which)
    /\ doing \in {"deadline", "unwind"} => \E which \in Deadlines : script = <<ATST(which)>>
    /\ doing \in {"ask", "probe"} =>
          \E pair \in Pairs :
             \/ script = <<ATSH(pair[1]), Read(pair[1], pair[2])>>
             \/ script = <<Read(pair[1], pair[2])>> /\ cached = pair[1]
    /\ doing \notin {"none", "unwind", "failed"} => result = Stalled

\* A request not yet taken is the first, and the header is its ECU's.
ReadsAimed ==
    /\ ~astray
    /\ \A i \in DOMAIN pending :
          pending[i].op = "Read" => i = 1 /\ header = pending[i].arg[1]

Lost == run = "off" \/ doing \in {"unwind", "failed"}
Resetting == doing \in {"init", "recover"} /\ script[1].op = "ATZ"

NoBanner(s) == \A i \in DOMAIN s : s[i].reply.text # "banner"

\* Whatever the board still writes of earlier replies, the banner of the reset
\* that is waited for comes last.
BannerLast ==
    Resetting /\ ~Lost =>
        LET Other == \A i \in DOMAIN writing : writing[i].text # "banner"
        IN  /\ ~waiting => Other /\ \A i \in DOMAIN pending : pending[i].op # "ATZ"
            /\ waiting =>
                 \/ /\ pending # <<>>
                    /\ \A i \in DOMAIN pending : pending[i].op = "ATZ" <=> i = Len(pending)
                    /\ Other /\ NoBanner(wire)
                 \/ /\ pending = <<>>
                    /\ \A i \in DOMAIN wire :
                          wire[i].reply.text = "banner" =>
                             \/ i = Len(wire) /\ (wire[i].part = "head" \/ writing = <<>>)
                             \/ /\ i + 1 = Len(wire) /\ writing = <<>>
                                /\ wire[i].part = "head" /\ wire[i + 1].part # "head"

\* What may come of a command, now that it has been taken.
ReplyTo(c) ==
    IF c.op = "Read"
    THEN [text : Answers(c.arg, atst, FALSE)
                 \cup IF asleep THEN Answers(c.arg, atst, TRUE) ELSE {},
          atst : {atst}, fresh : {TRUE}]
    ELSE [text : {"OK"}, atst : Deadlines \cup {"Default"}, fresh : {TRUE}]

\* Past the banner, the two sides hold nothing but the one command waited for,
\* or what there is of its reply.
Underway(c) ==
    \/ /\ pending = <<[op |-> c.op, arg |-> c.arg, fresh |-> TRUE]>>
       /\ writing = <<>> /\ wire = <<>>
    \/ /\ pending = <<>>
       /\ c.op = "ATSH" => header = c.arg
       /\ c.op = "ATST" => atst = c.arg
       /\ \E reply \in ReplyTo(c) :
             \/ writing = <<reply>> /\ wire = <<Piece("head", reply)>>
             \/ /\ writing = <<>>
                /\ wire \in {<<>>, <<Piece("whole", reply)>>, <<Piece("head", reply)>>,
                             <<Piece("head", reply), Piece("tail", reply)>>}
InStep ==
    ~Resetting /\ ~Lost =>
        /\ ~waiting => pending = <<>> /\ writing = <<>>
        /\ waiting => Underway(script[1])
        /\ cached # NoEcu /\ ~(waiting /\ script[1].op = "ATSH") => header = cached

LinkInv == LinkTypes /\ Scripted /\ ReadsAimed /\ BannerLast /\ InStep

-----------------------------------------------------------------------------
(* Where the run is while an operation of the link is under way.           *)

Blocks == {"error", "silence", "liveness", "confirm"}
InBlockStages == {"open", "inside", "close"}
Stages == {"next", "probe", "open", "inside", "close",
           "count", "quiet", "sleep", "confirm", "record"}
Idle == todo = {} /\ stage = "next" /\ purpose = "none" /\ cur = NoReading
        /\ errors = 0 /\ silence = 0

RunTypes ==
    /\ run \in {"off", "init", "discover", "calibrate", "log", "sweep"}
    /\ runs \in 0..MaxRuns
    /\ asked \in BOOLEAN
    /\ stage \in Stages
    /\ purpose \in Blocks \cup {"none"}

Placed ==
    /\ doing = "init" => run = "init"
    /\ doing = "ask" => run \in {"discover", "calibrate"} /\ asked
    /\ doing \in {"probe", "recover"} => run = "sweep" /\ stage \in {"probe", "inside"}
    /\ doing = "deadline" => \/ run \in {"discover", "calibrate"} /\ ~asked
                             \/ run = "sweep" /\ stage \in {"open", "close"}
    /\ run # "sweep" \/ Lost => Idle
    /\ run \notin {"discover", "calibrate"} => ~asked
    /\ run = "init" => result = Stalled
    /\ run = "log" => doing = "none"

\* The deadline the board is at, or will be once the operation is done.
Aim == IF script # <<>> /\ script[Len(script)].op = "ATST" THEN script[Len(script)].arg
       ELSE atst

Deadline ==
    /\ run # "sweep" => deadline = "Sweep"
    /\ ~Lost =>
          /\ run \in {"init", "calibrate", "log"} => Aim = "Sweep"
          /\ run = "discover" => Aim = "Generous"
          /\ run = "sweep" =>
                /\ stage \in {"open", "inside"} => Aim = "Generous"
                /\ stage = "inside" => deadline = "Generous"
                /\ stage = "close" => Aim = "Sweep"
                /\ stage \notin {"open", "inside"} => Aim \in {"Sweep", deadline}

-----------------------------------------------------------------------------
(* What is known of the ECUs.                                              *)

LiveDids == Elements(DISCOVERY_DIDS) \cup {NoDid}
Infos == [ecu : Ecus, mode : {"NRC", "TIMEOUT"}, live : LiveDids,
          calibrated : BOOLEAN, misled : BOOLEAN]
Calibrated == {i \in Infos : /\ i.calibrated /\ i.ecu # Functional
                             /\ \/ i.mode = "NRC" \/ i.misled
                                \/ Truth(i.ecu, CALIBRATION_DID, "Sweep") # {"NEGATIVE"}}
Known == {i \in Infos : i.calibrated => i \in Calibrated}

EcusKnown ==
    /\ ecus \in Seq(Known)
    /\ run \in {"log", "sweep"} => \A i \in DOMAIN ecus : ecus[i] \in Calibrated
    /\ run \in {"off", "init"} => ecus = <<>>

Finding ==
    /\ left \subseteq discovery_candidates
    /\ run # "discover" => left = {} /\ heard = <<>>
    /\ run = "discover" =>
          /\ tries \in {DISCOVERY_DIDS, Tail(DISCOVERY_DIDS)}
          /\ heard # <<>> => heard = <<Info(Address, "NRC", NoDid)>>
          /\ asked => left # {}
          /\ tries # DISCOVERY_DIDS \/ heard # <<>> => left # {}
          /\ heard # <<>> => tries # DISCOVERY_DIDS
    /\ run = "calibrate" /\ asked => Uncalibrated # {}

-----------------------------------------------------------------------------
(* The loop's own variables.                                               *)

Fields(c) ==
    /\ c.reply \in Results /\ c.second \in Results
    /\ c.attempt \in 0..ADAPTER_ERROR_ATTEMPTS
    /\ c.rescued \in BOOLEAN /\ c.unconfirmed \in BOOLEAN
    /\ c = [attempt |-> c.attempt, reply |-> c.reply, second |-> c.second,
            left |-> c.left, rescued |-> c.rescued, unconfirmed |-> c.unconfirmed]
LoopTypes ==
    /\ todo \subseteq (DOMAIN ecus) \X (DOMAIN Dids)
    /\ stage # "next" => todo # {}
    /\ stage \in InBlockStages => purpose \in Blocks
    /\ Fields(cur)
    /\ stage = "inside" =>
          \/ cur.left = <<>>
          \/ purpose = "liveness" /\ info.live = NoDid /\ cur.left = Tail(DISCOVERY_DIDS)
    /\ errors \in 0..(MAX_CONSECUTIVE_ERRORS - 1)
    /\ silence \in 0..SLEEP_SUSPICION_PROBES
    /\ silence = SLEEP_SUSPICION_PROBES => stage \in InBlockStages /\ purpose = "liveness"

-----------------------------------------------------------------------------
(* What was asked, and what a result says of it.                           *)

Candidate == Candidates[Len(Candidates) - Len(cur.left)]
Question ==
    CASE run = "discover" -> <<Address, Head(tries)>>
      [] run = "calibrate" -> <<ecus[Uncertain].ecu, CALIBRATION_DID>>
      [] run = "sweep" /\ stage = "probe" -> Here
      [] OTHER -> <<Ecu, Candidate>>

Says(reading, pair) ==
    reading.status \in Truth(pair[1], pair[2], reading.atst) \/ asleep

Asked ==
    /\ asked /\ doing \notin {"unwind", "failed"} => Question \in Pairs
    /\ doing \in {"ask", "probe"} =>
          script[Len(script)] = Read(Question[1], Question[2])
    /\ doing = "none" /\ asked => Says(result, Question) /\ result # Stalled
    /\ doing = "none" /\ run = "sweep" /\ stage \in {"probe", "inside"} =>
          result = Stalled \/ Says(result, Question)

-----------------------------------------------------------------------------
(* Payloads.                                                               *)

Generous(reading) == reading.status = "POSITIVE" => reading.atst = "Generous"
Payloads ==
    /\ stage = "probe" => ~cur.rescued
    /\ Generous(cur.second)
    /\ cur.rescued => Generous(cur.reply)
    /\ stage = "record" => Generous(cur.reply) \/ cur.unconfirmed

\* Silences.
Settled == \/ "NO_RESPONSE" \in Truth(Ecu, Did, "Generous")
           \/ Truth(Ecu, CALIBRATION_DID, "Sweep") # {"NEGATIVE"}
           \/ asleep \/ info.misled
Silences ==
    /\ Silent =>
         /\ stage \in {"sleep", "confirm", "record"} => Settled
         /\ stage \in InBlockStages /\ purpose \in {"liveness", "confirm"} => Settled
         /\ stage = "close" /\ purpose = "silence" /\ cur.second.status = "NO_RESPONSE" =>
               "NO_RESPONSE" \in Truth(Ecu, Did, "Generous") \/ asleep

-----------------------------------------------------------------------------
(* Discovery.                                                              *)

Found == {ecus[i].ecu : i \in DOMAIN ecus}
Discovering ==
    run = "discover" =>
        \/ asleep
        \/ /\ LiveEcus \subseteq Found \cup left
           /\ Found \cap Nobody = {}
           /\ heard # <<>> => Address \notin Nobody
           /\ heard = <<>> /\ tries = Tail(DISCOVERY_DIDS) =>
                 ~AlwaysAnswers(Address, DISCOVERY_DIDS[1])

Checking ==
    stage = "close" /\ purpose = "liveness" /\ ~Answered(cur.second) =>
          \/ asleep \/ cur.second.status = "ADAPTER_ERROR"
          \/ ~AlwaysAnswers(Ecu, Candidates[Len(Candidates)])

-----------------------------------------------------------------------------
(* The log.                                                                *)

Rows == {RunRow, EndRow, TornRow} \cup {EcuRow(i) : i \in Calibrated}
        \cup {DidRow(p, s) : p \in Ecus \X Elements(Dids), s \in Status}
Shape(l) ==
    /\ l = [found |-> l.found, erred |-> l.erred, ecus |-> l.ecus, tail |-> l.tail,
            spoilt |-> l.spoilt, lost |-> l.lost]
    /\ l.ecus \in Seq(Calibrated)
    /\ l.tail = <<>> \/ \E row \in Rows : l.tail = <<row>>
LogTypes == Shape(log) /\ unwritten \in Seq(Rows)
Kept == log.found \cup log.erred \cup log.lost
Logged ==
    /\ \A i \in DOMAIN unwritten : unwritten[i].type \in {"run", "ecu"}
    /\ log.spoilt \subseteq {"run"}
    /\ run = "sweep" => log.tail = <<>>
    /\ run = "log" /\ log.tail # <<>> => unwritten # <<>> /\ unwritten[1] = RunRow
    /\ run # "log" => unwritten = <<>>
    /\ run \in {"off", "sweep"} => skip = {}
    /\ skip \subseteq log.found \cup log.lost \cup Tails
    /\ run = "sweep" /\ ~Lost =>
          \A i \in DOMAIN ecus, k \in DOMAIN Dids :
             <<i, k>> \in todo \/ <<ecus[i].ecu, Dids[k]>> \in Kept

-----------------------------------------------------------------------------
LEMMA LeastElement ==
  ASSUME NEW T, T \subseteq Nat, T # {}
  PROVE  Min(T) \in T /\ \A m \in T : Min(T) <= m
<1> DEFINE Less == {pair \in Nat \X Nat : pair[1] < pair[2]}
<1>1. \E n \in T : \A m \in T : ~ (<<m, n>> \in OpToRel(<, Nat))
  BY NatLessThanWellFounded, WFMin, Zenon
<1>2. OpToRel(<, Nat) = Less
  BY Zenon DEF OpToRel
<1>3. PICK n \in T : \A m \in T : ~ (<<m, n>> \in Less)
  BY <1>1, <1>2, Zenon
<1>4. ASSUME NEW m \in T PROVE n <= m
  <2>1. m \in Nat /\ n \in Nat
    OBVIOUS
  <2>2. ~ (<<m, n>> \in Less)
    BY <1>3, Zenon
  <2> QED
    BY <2>1, <2>2
<1> QED
  BY <1>4, Zenon DEF Min

LEMMA DidPlaces == DOMAIN Dids \subseteq Nat
<1>1. \E n : DOMAIN Dids = 1..n
  BY Zenon DEF Dids, expand_ranges
<1> QED
  BY <1>1

LEMMA Constants ==
  /\ Addresses \subseteq Nat /\ Functional # NoEcu /\ NoEcu \notin Ecus
  /\ MaxRuns \in Nat /\ MaxRuns # 0 /\ MaxNaps \in Nat
  /\ ADAPTER_ERROR_ATTEMPTS \in Nat /\ ADAPTER_ERROR_ATTEMPTS # 0
  /\ MAX_CONSECUTIVE_ERRORS \in Nat /\ MAX_CONSECUTIVE_ERRORS # 0
  /\ SLEEP_SUSPICION_PROBES \in Nat /\ SLEEP_SUSPICION_PROBES # 0
BY StartAssumption, SweepAssumption DEF StartAssumption, SweepAssumption

LEMMA AnswersSaySomething ==
  ASSUME NEW ecu \in Ecus, NEW did \in Questions,
         NEW which \in {"Sweep", "Generous", "Default"}, NEW sleeping \in BOOLEAN
  PROVE  /\ Answers(<<ecu, did>>, which, sleeping) \subseteq Status
         /\ Answers(<<ecu, did>>, which, sleeping) # {}
BY StartAssumption DEF StartAssumption

LEMMA Tuples ==
  ASSUME NEW a, NEW b, NEW c
  PROVE  /\ <<a>> # <<>> /\ <<a, b>> # <<>> /\ <<a, b, c>> # <<>>
         /\ Len(<<a>>) = 1 /\ Len(<<a, b>>) = 2 /\ Len(<<a, b, c>>) = 3
         /\ Head(<<a>>) = a /\ Head(<<a, b>>) = a /\ Head(<<a, b, c>>) = a
         /\ Tail(<<a>>) = <<>> /\ Tail(<<a, b>>) = <<b>> /\ Tail(<<a, b, c>>) = <<b, c>>
         /\ <<a>>[1] = a /\ <<a, b>>[1] = a /\ <<a, b>>[2] = b
         /\ <<a, b, c>>[1] = a /\ <<a, b, c>>[2] = b /\ <<a, b, c>>[3] = c
         /\ DOMAIN <<a>> = {1} /\ DOMAIN <<a, b>> = {1, 2} /\ DOMAIN <<>> = {}
OBVIOUS

LEMMA Aging ==
  ASSUME NEW s \in Seq(Written)
  PROVE  /\ Aged(s) \in Seq(Written) /\ Len(Aged(s)) = Len(s)
         /\ DOMAIN Aged(s) = DOMAIN s
         /\ \A i \in DOMAIN s : Aged(s)[i].op = s[i].op /\ Aged(s)[i].arg = s[i].arg
<1>1. DOMAIN Aged(s) = DOMAIN s /\ DOMAIN s = 1..Len(s) /\ Len(s) \in Nat
  BY DEF Aged
<1>2. ASSUME NEW i \in DOMAIN s
      PROVE  /\ Aged(s)[i] \in Written
             /\ Aged(s)[i].op = s[i].op /\ Aged(s)[i].arg = s[i].arg
  <2>1. Aged(s)[i] = [s[i] EXCEPT !.fresh = FALSE]
    BY DEF Aged
  <2>2. s[i] \in Written
    OBVIOUS
  <2> QED
    BY <2>1, <2>2 DEF Written
<1>3. Aged(s) = [i \in 1..Len(s) |-> Aged(s)[i]]
  BY <1>1 DEF Aged
<1>4. Aged(s) \in Seq(Written) /\ Len(Aged(s)) = Len(s)
  <2> HIDE DEF Aged
  <2> QED
  BY <1>1, <1>2, <1>3, IsASeq
<1> QED
  BY <1>1, <1>2, <1>4

LEMMA AgedReply ==
  /\ Aged(<<>>) = <<>>
  /\ \A reply \in Reply :
        \E aged \in Reply : Aged(<<reply>>) = <<aged>> /\ aged.text = reply.text
<1>1. Aged(<<>>) = <<>>
  BY DEF Aged
<1>2. ASSUME NEW reply \in Reply
      PROVE  \E aged \in Reply : Aged(<<reply>>) = <<aged>> /\ aged.text = reply.text
  <2> DEFINE aged == [reply EXCEPT !.fresh = FALSE]
  <2>1. aged \in Reply /\ aged.text = reply.text
    BY DEF Reply
  <2>2. Aged(<<reply>>) = <<aged>>
    <3>1. DOMAIN <<reply>> = {1} /\ <<reply>>[1] = reply /\ DOMAIN <<aged>> = {1}
          /\ <<aged>>[1] = aged
      OBVIOUS
    <3>2. \A i \in DOMAIN <<reply>> : [<<reply>>[i] EXCEPT !.fresh = FALSE] = <<aged>>[i]
      BY <3>1
    <3>3. <<aged>> = [i \in DOMAIN <<reply>> |-> <<aged>>[i]]
      BY <3>1
    <3> QED
      BY <3>2, <3>3, Zenon DEF Aged
  <2> QED
    BY <2>1, <2>2
<1> QED
  BY <1>1, <1>2

-----------------------------------------------------------------------------
(* What a step of the scanner may do to its link.                          *)

OnHand == <<boardVars, carVars, wire, cached, waiting>>

Rest == /\ UNCHANGED <<OnHand, script, doing, result>>
        /\ run' = "off" <=> run = "off"
Restart == /\ run = "off" /\ run' # "off" /\ BoardQuiet
           /\ Initialise("init", "Sweep")
           /\ UNCHANGED <<boardVars, carVars, wire, waiting, result>>
Begin(why, new) == /\ run # "off" /\ run' # "off" /\ doing = "none"
                   /\ doing' = why /\ script' = new /\ result' = Stalled
                   /\ UNCHANGED OnHand
AskFor(why, pair) ==
    Begin(why, IF cached = pair[1] THEN <<Read(pair[1], pair[2])>>
               ELSE <<ATSH(pair[1]), Read(pair[1], pair[2])>>)
Widen(which) == Begin("deadline", <<ATST(which)>>)
Refuse == /\ run # "off" /\ run' # "off" /\ doing = "none"
          /\ doing' = "failed" /\ UNCHANGED <<OnHand, script, result>>
Gone == run # "off" /\ run' = "off" /\ HostGone
LinkMove ==
    /\ deadline' \in Deadlines
    /\ \/ Rest
       \/ Restart
       \/ \E why \in {"ask", "probe"}, pair \in Pairs : AskFor(why, pair)
       \/ \E which \in Deadlines : Widen(which)
       \/ Refuse
       \/ run' = run /\ Send
       \/ run' = run /\ \E inBlock \in BOOLEAN : Receive(inBlock)
       \/ run' = run /\ \E inBlock \in BOOLEAN : TimeOut(inBlock)
       \/ Gone
       \/ run' = run /\ doing # "failed" /\ BoardTakes(run # "off")
       \/ run' = run /\ doing # "failed" /\ BoardResumes(run # "off")
       \/ run' = run /\ CarSleepsOrWakes(run # "off")

LEMMA RestKeepsLink ==
  ASSUME LinkInv, deadline' \in Deadlines, Rest
  PROVE  LinkInv'
<1> USE DEF Rest, OnHand, boardVars, carVars
<1>1. LinkTypes'
  BY DEF LinkInv, LinkTypes
<1>2. Scripted'
  BY DEF LinkInv, Scripted
<1>3. ReadsAimed'
  BY DEF LinkInv, ReadsAimed
<1>4. BannerLast'
  BY DEF LinkInv, BannerLast, Resetting, Lost, NoBanner
<1>5. InStep'
  BY DEF LinkInv, InStep, Resetting, Lost, Underway, ReplyTo
<1> QED
  BY <1>1, <1>2, <1>3, <1>4, <1>5 DEF LinkInv

LEMMA RestartKeepsLink ==
  ASSUME LinkInv, deadline' \in Deadlines, Restart
  PROVE  LinkInv'
<1> USE DEF Restart, Initialise, ForgottenHeader, InitScript, boardVars, carVars
<1>0. script' = <<ATZ, Quieten, ATST("Sweep")>> /\ script'[1] = ATZ /\ script' # <<>>
      /\ ATZ.op = "ATZ" /\ doing' = "init" /\ cached' = NoEcu
  BY Tuples DEF ATZ, Command
<1>1. LinkTypes'
  BY <1>0 DEF LinkInv, LinkTypes
<1>2. Scripted'
  BY <1>0 DEF LinkInv, Scripted, Resets, Deadlines
<1>3. ReadsAimed'
  BY DEF LinkInv, ReadsAimed
<1>4. BannerLast'
  <2>1. pending' = <<>> /\ writing' = <<>> /\ ~waiting'
    BY <1>0, Tuples DEF BoardQuiet, LinkInv, Scripted
  <2> QED
    BY <2>1, Tuples DEF BannerLast
<1>5. InStep'
  BY <1>0 DEF InStep, Resetting
<1> QED
  BY <1>1, <1>2, <1>3, <1>4, <1>5 DEF LinkInv

LEMMA BeginKeepsLink ==
  ASSUME LinkInv, deadline' \in Deadlines,
         NEW why \in {"ask", "probe", "deadline"}, NEW new, Begin(why, new), new # <<>>,
         \/ why = "deadline" /\ \E which \in Deadlines : new = <<ATST(which)>>
         \/ why # "deadline" /\ \E pair \in Pairs :
               \/ new = <<ATSH(pair[1]), Read(pair[1], pair[2])>>
               \/ new = <<Read(pair[1], pair[2])>> /\ cached = pair[1]
  PROVE  LinkInv'
<1> USE DEF Begin, OnHand, boardVars, carVars
<1>0. ~waiting /\ doing = "none" /\ run # "off" /\ script' = new /\ doing' = why
      /\ ~Resetting /\ ~Lost /\ ~Resetting'
  BY DEF LinkInv, Scripted, Resetting, Lost
<1>1. LinkTypes'
  BY DEF LinkInv, LinkTypes, Results
<1>2. Scripted'
  <2>1. why = "deadline" => \E which \in Deadlines : script' = <<ATST(which)>>
    BY <1>0
  <2>2. why # "deadline" => \E pair \in Pairs :
               \/ script' = <<ATSH(pair[1]), Read(pair[1], pair[2])>>
               \/ script' = <<Read(pair[1], pair[2])>> /\ cached' = pair[1]
    BY <1>0
  <2> QED
    BY <1>0, <2>1, <2>2 DEF Scripted
<1>3. ReadsAimed'
  BY DEF LinkInv, ReadsAimed
<1>4. BannerLast'
  BY <1>0 DEF BannerLast
<1>5. InStep'
  <2>1. /\ ~waiting' /\ pending' = <<>> /\ writing' = <<>>
        /\ cached' # NoEcu => header' = cached'
    BY <1>0 DEF LinkInv, InStep
  <2> QED
    BY <2>1 DEF InStep
<1> QED
  BY <1>1, <1>2, <1>3, <1>4, <1>5 DEF LinkInv

LEMMA AskKeepsLink ==
  ASSUME LinkInv, deadline' \in Deadlines,
         NEW why \in {"ask", "probe"}, NEW pair \in Pairs, AskFor(why, pair)
  PROVE  LinkInv'
<1>1. PICK new : /\ Begin(why, new)
                 /\ \/ new = <<ATSH(pair[1]), Read(pair[1], pair[2])>>
                    \/ new = <<Read(pair[1], pair[2])>> /\ cached = pair[1]
  BY DEF AskFor
<1>2. new # <<>> /\ why # "deadline" /\ why \in {"ask", "probe", "deadline"}
  BY <1>1, Tuples
<1> QED
  BY <1>1, <1>2, BeginKeepsLink

LEMMA WidenKeepsLink ==
  ASSUME LinkInv, deadline' \in Deadlines, NEW which \in Deadlines, Widen(which)
  PROVE  LinkInv'
<1>1. <<ATST(which)>> # <<>>
  BY Tuples
<1> QED
  BY <1>1, BeginKeepsLink DEF Widen

LEMMA RefuseKeepsLink ==
  ASSUME LinkInv, deadline' \in Deadlines, Refuse
  PROVE  LinkInv'
<1> USE DEF Refuse, OnHand, boardVars, carVars
<1>0. Lost' /\ script' = <<>>
  BY DEF Lost, LinkInv, Scripted
<1>1. LinkTypes'
  BY DEF LinkInv, LinkTypes
<1>2. Scripted'
  BY <1>0 DEF LinkInv, Scripted
<1>3. ReadsAimed'
  BY DEF LinkInv, ReadsAimed
<1> QED
  BY <1>0, <1>1, <1>2, <1>3 DEF LinkInv, BannerLast, InStep

LEMMA GoneKeepsLink ==
  ASSUME LinkInv, deadline' \in Deadlines, Gone
  PROVE  LinkInv'
<1> USE DEF Gone, HostGone, boardVars, carVars
<1>0. Lost' /\ script' = <<>> /\ pending' = Aged(pending) /\ writing' = Aged(writing)
  BY DEF Lost
<1>1. LinkTypes'
  <2>1. pending' \in Seq(Written)
    BY <1>0, Aging DEF LinkInv, LinkTypes
  <2>2. writing' = <<>> \/ \E reply \in Reply : writing' = <<reply>>
    BY <1>0, AgedReply DEF LinkInv, LinkTypes
  <2>3. cached' \in Ecus \cup {NoEcu} /\ result' \in Results /\ doing' = "none"
        /\ waiting' = FALSE /\ wire' \in Seq(Pieces)
    BY DEF Results
  <2>4. /\ header' \in Ecus \cup {Functional} /\ atst' \in Deadlines \cup {"Default"}
        /\ asleep' \in BOOLEAN /\ naps' \in 0..MaxNaps
    BY DEF LinkInv, LinkTypes
  <2> HIDE DEF Gone, HostGone
  <2> QED
    BY <2>1, <2>2, <2>3, <2>4 DEF LinkTypes
<1>2. Scripted'
  BY <1>0 DEF Scripted
<1>3. ReadsAimed'
  <2>1. pending \in Seq(Written)
    BY DEF LinkInv, LinkTypes
  <2> QED
    BY <1>0, <2>1, Aging DEF LinkInv, ReadsAimed
<1> QED
  BY <1>0, <1>1, <1>2, <1>3 DEF LinkInv, BannerLast, InStep

LEMMA CarKeepsLink ==
  ASSUME LinkInv, deadline' \in Deadlines, run' = run, CarSleepsOrWakes(run # "off")
  PROVE  LinkInv'
<1> USE DEF CarSleepsOrWakes, boardVars, hostVars
<1>1. LinkTypes'
  <2>1. asleep' \in BOOLEAN /\ naps \in 0..MaxNaps
    BY DEF LinkInv, LinkTypes
  <2>2. naps' \in 0..MaxNaps
    <3>1. MaxNaps \in Nat
      BY Constants
    <3>2. CASE run = "off"
      BY <2>1, <3>2
    <3>3. CASE run # "off"
      BY <2>1, <3>1, <3>3
    <3> QED
      BY <3>2, <3>3
  <2> QED
    BY <2>1, <2>2 DEF LinkInv, LinkTypes
<1>2. Scripted'
  BY DEF LinkInv, Scripted
<1>3. ReadsAimed'
  BY DEF LinkInv, ReadsAimed
<1>4. BannerLast'
  BY DEF LinkInv, BannerLast, Resetting, Lost, NoBanner
<1>5. InStep'
  <2>1. SUFFICES ASSUME ~Resetting, ~Lost, waiting
        PROVE  Underway(script[1])'
    BY DEF LinkInv, InStep, Resetting, Lost
  <2>2. run # "off" /\ asleep' = TRUE /\ Underway(script[1])
    BY <2>1 DEF LinkInv, InStep, Lost
  <2>3. \A reply \in ReplyTo(script[1]) : reply \in ReplyTo(script[1])'
    BY <2>2 DEF ReplyTo
  <2> QED
    BY <2>2, <2>3 DEF Underway
<1> QED
  BY <1>1, <1>2, <1>3, <1>4, <1>5 DEF LinkInv

LEMMA ScriptForms ==
  ASSUME LinkTypes, Scripted, script # <<>>
  PROVE  /\ script[1] = Head(script)
         /\ \/ /\ doing \in {"init", "recover"} /\ cached = NoEcu
               /\ \E which \in Deadlines :
                     script[1] = ATZ /\ Tail(script) = <<Quieten, ATST(which)>>
            \/ /\ doing \in {"init", "recover"} /\ cached = NoEcu
               /\ \E which \in Deadlines :
                     script[1] = Quieten /\ Tail(script) = <<ATST(which)>>
            \/ /\ doing \in {"init", "recover", "deadline", "unwind"}
               /\ doing \in {"init", "recover"} => cached = NoEcu
               /\ \E which \in Deadlines : script[1] = ATST(which) /\ Tail(script) = <<>>
            \/ /\ doing \in {"ask", "probe"}
               /\ \E pair \in Pairs : /\ script[1] = ATSH(pair[1])
                                      /\ Tail(script) = <<Read(pair[1], pair[2])>>
            \/ /\ doing \in {"ask", "probe"}
               /\ \E pair \in Pairs : /\ script[1] = Read(pair[1], pair[2])
                                      /\ Tail(script) = <<>> /\ cached = pair[1]
<1>1. CASE doing \in {"init", "recover"}
  <2>1. PICK which \in Deadlines : script \in Resets(which)
    BY <1>1 DEF Scripted
  <2>2. CASE script = <<ATZ, Quieten, ATST(which)>>
    BY <1>1, <2>2, Tuples DEF Scripted
  <2>3. CASE script = <<Quieten, ATST(which)>>
    BY <1>1, <2>3, Tuples DEF Scripted
  <2>4. CASE script = <<ATST(which)>>
    BY <1>1, <2>4, Tuples DEF Scripted
  <2> QED
    BY <2>1, <2>2, <2>3, <2>4 DEF Resets
<1>2. CASE doing \in {"deadline", "unwind"}
  <2>1. PICK which \in Deadlines : script = <<ATST(which)>>
    BY <1>2 DEF Scripted
  <2> QED
    BY <1>2, <2>1, Tuples
<1>3. CASE doing \in {"ask", "probe"}
  <2>1. PICK pair \in Pairs :
             \/ script = <<ATSH(pair[1]), Read(pair[1], pair[2])>>
             \/ script = <<Read(pair[1], pair[2])>> /\ cached = pair[1]
    BY <1>3 DEF Scripted
  <2>2. CASE script = <<ATSH(pair[1]), Read(pair[1], pair[2])>>
    BY <1>3, <2>2, Tuples
  <2>3. CASE script = <<Read(pair[1], pair[2])>> /\ cached = pair[1]
    BY <1>3, <2>3, Tuples
  <2> QED
    BY <2>1, <2>2, <2>3
<1>4. doing \notin {"none", "failed"}
  BY DEF Scripted
<1> QED
  BY <1>1, <1>2, <1>3, <1>4 DEF LinkTypes

LEMMA PairParts ==
  ASSUME NEW pair \in Pairs
  PROVE  /\ pair = <<pair[1], pair[2]>> /\ pair[1] \in Ecus /\ pair[1] # Functional
         /\ pair[1] # NoEcu /\ pair[2] \in Questions
BY Constants DEF Pairs

LEMMA CommandParts ==
  /\ ATZ.op = "ATZ" /\ ATZ.arg = NoEcu /\ Quieten.op = "ATE0" /\ Quieten.arg = NoEcu
  /\ \A which : ATST(which).op = "ATST" /\ ATST(which).arg = which
  /\ \A ecu : ATSH(ecu).op = "ATSH" /\ ATSH(ecu).arg = ecu
  /\ \A ecu, did : Read(ecu, did).op = "Read" /\ Read(ecu, did).arg = <<ecu, did>>
BY DEF ATZ, Quieten, ATST, ATSH, Read, Command

\* The command at the head of a script, by what it is.
LEMMA ScriptHead ==
  ASSUME LinkTypes, Scripted, script # <<>>, NEW c, c = script[1]
  PROVE  /\ c = Head(script)
         /\ c.op \in {"ATZ", "ATE0", "ATST", "ATSH", "Read"}
         /\ \A fresh \in BOOLEAN : [op |-> c.op, arg |-> c.arg, fresh |-> fresh] \in Written
         /\ c.op = "ATZ" <=> Resetting
         /\ c.op \in {"ATZ", "ATE0"} => doing \in {"init", "recover"} /\ cached = NoEcu
         /\ c.op \in {"ATSH", "Read"} <=> doing \in {"ask", "probe"}
         /\ c.op = "ATSH" => c.arg \in Ecus \ {Functional}
         /\ c.op = "ATST" => c.arg \in Deadlines
         /\ c.op = "Read" => c.arg \in Pairs /\ cached = c.arg[1] /\ c.arg[1] # NoEcu
         /\ Tail(script) = <<>> => c.op \in {"ATST", "Read"}
<1>1. c = Head(script)
  BY ScriptForms
<1>2. CASE /\ doing \in {"init", "recover"} /\ cached = NoEcu
           /\ \E which \in Deadlines :
                     c = ATZ /\ Tail(script) = <<Quieten, ATST(which)>>
  <2>1. c.op = "ATZ" /\ c.arg = NoEcu /\ Tail(script) # <<>>
    BY <1>2, CommandParts, Tuples
  <2>2. Resetting
    BY <1>2, <2>1 DEF Resetting
  <2> QED
    BY <1>1, <1>2, <2>1, <2>2 DEF Written
<1>3. CASE /\ doing \in {"init", "recover"} /\ cached = NoEcu
           /\ \E which \in Deadlines :
                     c = Quieten /\ Tail(script) = <<ATST(which)>>
  <2>1. c.op = "ATE0" /\ c.arg = NoEcu /\ Tail(script) # <<>>
    BY <1>3, CommandParts, Tuples
  <2>2. ~Resetting
    BY <2>1 DEF Resetting
  <2> QED
    BY <1>1, <1>3, <2>1, <2>2 DEF Written
<1>4. CASE /\ doing \in {"init", "recover", "deadline", "unwind"}
           /\ doing \in {"init", "recover"} => cached = NoEcu
           /\ \E which \in Deadlines : c = ATST(which) /\ Tail(script) = <<>>
  <2>1. c.op = "ATST" /\ c.arg \in Deadlines
    BY <1>4, CommandParts
  <2>2. ~Resetting
    BY <2>1 DEF Resetting
  <2> QED
    BY <1>1, <1>4, <2>1, <2>2 DEF Written
<1>5. CASE /\ doing \in {"ask", "probe"}
           /\ \E pair \in Pairs : /\ c = ATSH(pair[1])
                                  /\ Tail(script) = <<Read(pair[1], pair[2])>>
  <2>1. PICK pair \in Pairs : /\ c = ATSH(pair[1])
                              /\ Tail(script) = <<Read(pair[1], pair[2])>>
    BY <1>5
  <2>2. c.op = "ATSH" /\ c.arg \in Ecus \ {Functional}
    BY <2>1, CommandParts, PairParts
  <2>3. Tail(script) # <<>>
    BY <2>1, Tuples
  <2>4. ~Resetting
    BY <2>2 DEF Resetting
  <2> QED
    BY <1>1, <1>5, <2>2, <2>3, <2>4 DEF Written
<1>6. CASE /\ doing \in {"ask", "probe"}
           /\ \E pair \in Pairs : /\ c = Read(pair[1], pair[2])
                                  /\ Tail(script) = <<>> /\ cached = pair[1]
  <2>1. PICK pair \in Pairs : /\ c = Read(pair[1], pair[2])
                              /\ Tail(script) = <<>> /\ cached = pair[1]
    BY <1>6
  <2>2. c.op = "Read" /\ c.arg = pair
    BY <2>1, PairParts DEF Read, Command
  <2> QED
    BY <1>1, <1>6, <2>1, <2>2, PairParts DEF Written, Resetting
<1> QED
  BY <1>2, <1>3, <1>4, <1>5, <1>6, ScriptForms

LEMMA SendKeepsLink ==
  ASSUME LinkInv, deadline' \in Deadlines, run' = run, Send
  PROVE  LinkInv'
<1> DEFINE c == script[1]
           new == [op |-> c.op, arg |-> c.arg, fresh |-> TRUE]
           kept == Aged(pending)
<1>0. LinkTypes /\ Scripted /\ script # <<>>
  BY DEF LinkInv, Send
<1>1. pending' = Append(kept, new) /\ new \in Written /\ wire' = <<>>
      /\ writing' = Aged(writing) /\ waiting' = TRUE
  BY <1>0, ScriptHead DEF Send
<1>2. UNCHANGED <<header, atst, astray, asleep, naps, cached, script, doing, result, run>>
  BY DEF Send, carVars
<1>3. kept \in Seq(Written) /\ DOMAIN kept = DOMAIN pending /\ Len(kept) = Len(pending)
      /\ \A i \in DOMAIN pending : kept[i].op = pending[i].op /\ kept[i].arg = pending[i].arg
  BY <1>0, Aging DEF LinkTypes
<1>4. pending' \in Seq(Written) /\ pending' # <<>> /\ Len(pending') = Len(pending) + 1
      /\ DOMAIN pending' = 1..(Len(pending) + 1) /\ Len(pending) \in Nat
      /\ pending'[Len(pending) + 1] = new
      /\ \A i \in 1..Len(pending) : pending'[i] = kept[i] /\ i \in DOMAIN pending
  BY <1>0, <1>1, <1>3 DEF LinkTypes
<1>5. \/ writing = <<>> /\ writing' = <<>>
      \/ \E reply, aged \in Reply :
            writing = <<reply>> /\ writing' = <<aged>> /\ aged.text = reply.text
  BY <1>0, <1>1, AgedReply DEF LinkTypes
<1>6. Resetting' = Resetting /\ Lost' = Lost
  BY <1>2 DEF Resetting, Lost
<1>7. ~Resetting /\ ~Lost => pending = <<>> /\ writing = <<>>
  BY DEF LinkInv, InStep, Send
<1> HIDE DEF new, kept
<1>8. LinkTypes'
  BY <1>0, <1>1, <1>2, <1>4, <1>5 DEF LinkTypes
<1>9. Scripted'
  BY <1>0, <1>1, <1>2 DEF Scripted
<1>10. ReadsAimed'
  <2>1. SUFFICES ASSUME NEW i \in 1..(Len(pending) + 1), pending'[i].op = "Read"
        PROVE  i = 1 /\ header = pending'[i].arg[1]
    BY <1>2, <1>4 DEF LinkInv, ReadsAimed
  <2>2. CASE i = Len(pending) + 1
    <3>1. c.op = "Read" /\ pending'[i].arg = c.arg
      BY <1>4, <2>1, <2>2 DEF new
    <3>2. doing \in {"ask", "probe"} /\ cached = c.arg[1] /\ c.arg[1] # NoEcu /\ ~Resetting
      BY <1>0, <3>1, ScriptHead
    <3>3. ~Lost
      BY <1>0, <3>2 DEF Lost, Scripted
    <3>4. pending = <<>> /\ header = cached
      BY <1>7, <3>2, <3>3 DEF LinkInv, InStep, Send
    <3> QED
      BY <2>2, <3>1, <3>2, <3>4
  <2>3. CASE i # Len(pending) + 1
    <3>1. i \in 1..Len(pending) /\ i \in DOMAIN pending
      BY <1>4, <2>1, <2>3
    <3> QED
      BY <1>3, <1>4, <2>1, <3>1 DEF LinkInv, ReadsAimed
  <2> QED
    BY <2>2, <2>3
<1>11. BannerLast'
  <2>1. SUFFICES ASSUME Resetting, ~Lost
        PROVE  /\ \A i \in DOMAIN pending' : pending'[i].op = "ATZ" <=> i = Len(pending')
               /\ \A i \in DOMAIN writing' : writing'[i].text # "banner"
    BY <1>1, <1>4, <1>6, Tuples DEF BannerLast, NoBanner
  <2>2. /\ \A i \in DOMAIN writing : writing[i].text # "banner"
        /\ \A i \in DOMAIN pending : pending[i].op # "ATZ"
    BY <2>1 DEF LinkInv, BannerLast, Send
  <2>3. new.op = "ATZ"
    BY <1>0, <2>1, ScriptHead DEF new
  <2>4. \A i \in DOMAIN pending' : pending'[i].op = "ATZ" <=> i = Len(pending')
    BY <1>3, <1>4, <2>2, <2>3
  <2>5. \A i \in DOMAIN writing' : writing'[i].text # "banner"
    BY <1>5, <2>2, Tuples
  <2> QED
    BY <2>4, <2>5
<1>12. InStep'
  <2>1. SUFFICES ASSUME ~Resetting, ~Lost
        PROVE  /\ Underway(script[1])'
               /\ cached # NoEcu /\ c.op # "ATSH" => header = cached
    BY <1>1, <1>2, <1>6 DEF InStep
  <2>2. pending' = <<new>> /\ writing' = <<>>
    <3>1. kept = <<>> /\ writing' = <<>>
      BY <1>1, <1>5, <1>7, <2>1, AgedReply, Tuples DEF kept
    <3> QED
      BY <1>1, <3>1
  <2>3. Underway(script[1])'
    BY <1>1, <1>2, <2>2 DEF Underway, new
  <2> QED
    BY <2>1, <2>3 DEF LinkInv, InStep, Send
<1> QED
  BY <1>8, <1>9, <1>10, <1>11, <1>12 DEF LinkInv

-----------------------------------------------------------------------------
(* What becomes of an exchange.                                            *)

\* The operation is given up, and the sweep with it.
LoseHold == /\ doing \notin {"none", "failed"} /\ ~waiting'
            /\ wire' \in Seq(Pieces)
            /\ UNCHANGED <<boardVars, carVars, cached, result>>
            /\ \/ doing' = "unwind" /\ script' = <<ATST("Sweep")>>
               \/ doing' = "failed" /\ script' = <<>>

\* The board is reset.
Recovering == /\ doing = "probe" /\ ~Lost /\ ~waiting' /\ wire' = <<>>
              /\ Recover
              /\ UNCHANGED <<boardVars, carVars, result>>

\* The banner has come: nothing older can.
PastBanner == /\ Resetting /\ ~Lost /\ ~waiting' /\ wire' \in Seq(Pieces)
              /\ script' = Tail(script)
              /\ pending = <<>> /\ writing = <<>>
              /\ result' = Stalled
              /\ UNCHANGED <<boardVars, carVars, cached, doing>>

\* What a command says of the board, once it has been answered.
Outcome(c) ==
    /\ c.op = "ATSH" => header = c.arg
    /\ c.op = "ATST" => atst = c.arg
    /\ c.op # "Read" => result' = Stalled
    /\ c.op = "Read" =>
          \E s \in Answers(c.arg, atst, FALSE)
                   \cup IF asleep THEN Answers(c.arg, atst, TRUE) ELSE {} :
             result' = [status |-> s, atst |-> atst, fresh |-> TRUE]

\* The one reply there can be has come.
Progress == /\ ~Resetting /\ ~Lost /\ ~waiting' /\ wire' \in Seq(Pieces)
            /\ pending = <<>> /\ writing = <<>>
            /\ script' = Tail(script)
            /\ cached' = IF script[1].op = "ATSH" THEN script[1].arg ELSE cached
            /\ doing' = IF Tail(script) # <<>> THEN doing ELSE "none"
            /\ Outcome(script[1])
            /\ UNCHANGED <<boardVars, carVars>>

LEMMA AnswersAre ==
  ASSUME LinkTypes, NEW pair \in Pairs,
         NEW s \in Answers(pair, atst, FALSE)
                   \cup IF asleep THEN Answers(pair, atst, TRUE) ELSE {}
  PROVE  s \in Status
<1>1. atst \in {"Sweep", "Generous", "Default"} /\ pair = <<pair[1], pair[2]>>
      /\ pair[1] \in Ecus /\ pair[2] \in Questions
  BY PairParts DEF LinkTypes, Deadlines
<1>2. \A sleeping \in BOOLEAN : Answers(pair, atst, sleeping) \subseteq Status
  <2>1. \A sleeping \in BOOLEAN : Answers(<<pair[1], pair[2]>>, atst, sleeping) \subseteq Status
    BY <1>1, AnswersSaySomething
  <2> QED
    BY <1>1, <2>1, Zenon
<1> QED
  BY <1>2

LEMMA FirstPrompt ==
  ASSUME wire \in Seq(Pieces), Prompts # {}
  PROVE  /\ UpToPrompt \in 1..Len(wire) /\ wire[UpToPrompt].part # "head"
         /\ UpToPrompt \in Nat /\ Len(wire) \in Nat
         /\ \A i \in 1..Len(wire) : i < UpToPrompt => wire[i].part = "head"
<1>1. Prompts \subseteq 1..Len(wire) /\ Len(wire) \in Nat
  BY DEF Prompts
<1>2. Prompts \subseteq Nat
  BY <1>1
<1>3. UpToPrompt \in Prompts /\ \A i \in Prompts : UpToPrompt <= i
  BY <1>2, LeastElement DEF UpToPrompt
<1>4. \A i \in 1..Len(wire) : i < UpToPrompt => i \notin Prompts
  BY <1>1, <1>2, <1>3
<1> QED
  BY <1>1, <1>2, <1>3, <1>4 DEF Prompts

LEMMA Pickings ==
  ASSUME wire \in Seq(Pieces), Prompts # {},
         NEW pieces, pieces = SubSeq(wire, 1, UpToPrompt)
  PROVE  /\ Len(pieces) = UpToPrompt /\ DOMAIN pieces = 1..UpToPrompt
         /\ \A i \in 1..UpToPrompt : pieces[i] = wire[i] /\ i \in 1..Len(wire)
         /\ SubSeq(wire, UpToPrompt + 1, Len(wire)) \in Seq(Pieces)
<1>1. UpToPrompt \in 1..Len(wire) /\ UpToPrompt \in Nat /\ Len(wire) \in Nat
  BY FirstPrompt
<1> QED
  BY <1>1

\* Once the two sides are in step, the reply at hand is the one waited for.
LEMMA InStepReply ==
  ASSUME LinkInv, ~Resetting, ~Lost, waiting, Prompts # {},
         NEW pieces, pieces = SubSeq(wire, 1, UpToPrompt)
  PROVE  /\ pending = <<>> /\ writing = <<>>
         /\ script[1].op = "ATSH" => header = script[1].arg
         /\ script[1].op = "ATST" => atst = script[1].arg
         /\ \E reply \in ReplyTo(script[1]) :
               pieces[UpToPrompt].reply = reply /\ Readings(pieces) = {reply.text}
<1> DEFINE c == script[1]
<1>1. Underway(c) /\ wire \in Seq(Pieces)
  BY DEF LinkInv, InStep, LinkTypes
<1>2. wire # <<>>
  BY DEF Prompts
<1>3. PICK reply \in ReplyTo(c) :
        /\ pending = <<>>
        /\ c.op = "ATSH" => header = c.arg
        /\ c.op = "ATST" => atst = c.arg
        /\ \/ writing = <<reply>> /\ wire = <<Piece("head", reply)>>
           \/ writing = <<>> /\ wire = <<Piece("whole", reply)>>
           \/ writing = <<>> /\ wire = <<Piece("head", reply)>>
           \/ writing = <<>> /\ wire = <<Piece("head", reply), Piece("tail", reply)>>
  BY <1>1, <1>2 DEF Underway
<1>4. \A part : Piece(part, reply).part = part /\ Piece(part, reply).reply = reply
  BY DEF Piece
<1> HIDE DEF c
<1>5. wire # <<Piece("head", reply)>>
  BY <1>4, Tuples DEF Prompts
<1>6. CASE wire = <<Piece("whole", reply)>>
  <2>1. UpToPrompt = 1 /\ Len(wire) = 1 /\ wire[1] = Piece("whole", reply)
    BY <1>1, <1>6, FirstPrompt, Tuples
  <2>2. Len(pieces) = 1 /\ pieces[1] = Piece("whole", reply)
    BY <1>1, <2>1, Pickings
  <2>3. pieces[UpToPrompt].reply = reply /\ Readings(pieces) = {reply.text}
    BY <1>4, <2>1, <2>2 DEF Readings
  <2> QED
    BY <1>3, <1>5, <2>3 DEF c
<1>7. CASE wire = <<Piece("head", reply), Piece("tail", reply)>>
  <2>1. Len(wire) = 2 /\ wire[1].part = "head" /\ wire[2] = Piece("tail", reply)
    BY <1>4, <1>7, Tuples
  <2>2. UpToPrompt = 2
    <3>1. UpToPrompt \in 1..2 /\ wire[UpToPrompt].part # "head"
      BY <1>1, <2>1, FirstPrompt
    <3>2. UpToPrompt = 1 \/ UpToPrompt = 2
      BY <3>1
    <3> QED
      BY <2>1, <3>1, <3>2, Zenon
  <2>3. Len(pieces) = 2 /\ pieces[2] = Piece("tail", reply)
    BY <1>1, <2>1, <2>2, Pickings
  <2>4. pieces[UpToPrompt].reply = reply /\ Readings(pieces) = {reply.text}
    BY <1>4, <2>2, <2>3 DEF Readings
  <2> QED
    BY <1>3, <1>5, <2>1, <2>4 DEF c
<1> QED
  BY <1>3, <1>5, <1>6, <1>7

LEMMA ReadingsAre ==
  ASSUME wire \in Seq(Pieces), Prompts # {},
         NEW pieces, pieces = SubSeq(wire, 1, UpToPrompt),
         NEW text \in Readings(pieces)
  PROVE  text = "banner" => \E i \in 1..UpToPrompt : wire[i].reply.text = "banner"
<1>1. /\ Len(pieces) = UpToPrompt /\ DOMAIN pieces = 1..UpToPrompt
      /\ \A i \in 1..UpToPrompt : pieces[i] = wire[i]
  BY Pickings
<1>2. UpToPrompt \in 1..UpToPrompt
  BY FirstPrompt
<1>3. \/ text = pieces[Len(pieces)].reply.text
      \/ text = "junk"
      \/ \E i \in DOMAIN pieces : text = pieces[i].reply.text
  BY DEF Readings
<1> QED
  BY <1>1, <1>2, <1>3

LEMMA ReceiveDoes ==
  ASSUME LinkInv, NEW inBlock \in BOOLEAN, Receive(inBlock)
  PROVE  LoseHold \/ PastBanner \/ Progress
<1> DEFINE c == script[1]
           pieces == SubSeq(wire, 1, UpToPrompt)
<1>0. /\ LinkTypes /\ Scripted /\ waiting /\ Prompts # {} /\ script # <<>>
      /\ wire \in Seq(Pieces) /\ c = Head(script) /\ doing \notin {"none", "failed"}
      /\ run # "off"
  BY ScriptForms DEF LinkInv, LinkTypes, Scripted, Receive
<1>1. /\ ~waiting' /\ wire' \in Seq(Pieces)
      /\ UNCHANGED <<boardVars, carVars>>
  BY <1>0, Pickings DEF Receive
<1>2. PICK text \in Readings(pieces) :
        IF ~Accepted(c, text)
        THEN AdapterError(inBlock) /\ UNCHANGED result
        ELSE /\ script' = Tail(script)
             /\ cached' = IF c.op = "ATSH" THEN c.arg ELSE cached
             /\ doing' = IF Tail(script) # <<>> THEN doing
                         ELSE IF doing = "unwind" THEN "failed" ELSE "none"
             /\ result' =
                  CASE c.op = "Read" ->
                         [status |-> IF text \in Status THEN text ELSE "ADAPTER_ERROR",
                          atst   |-> pieces[UpToPrompt].reply.atst,
                          fresh  |-> pieces[UpToPrompt].reply.fresh]
                    [] doing = "recover" /\ c.op # "Read" -> Stalled
                    [] OTHER -> result
  BY <1>0 DEF Receive
<1>3. doing # "unwind" => result = Stalled
  BY <1>0 DEF Scripted
<1> HIDE DEF c, pieces
<1>4. CASE ~Accepted(c, text)
  <2>1. doing # "probe"
    <3>1. SUFFICES ASSUME doing = "probe" PROVE FALSE
      OBVIOUS
    <3>2. c.op = "ATSH" \/ c.op = "Read"
      BY <1>0, <3>1, ScriptHead DEF c
    <3>3. c.op = "ATSH"
      BY <1>4, <3>2 DEF Accepted
    <3>4. ~Lost /\ ~Resetting
      BY <1>0, <3>1 DEF Lost, Resetting
    <3>5. PICK reply \in ReplyTo(c) : Readings(pieces) = {reply.text}
      BY <1>0, <3>4, InStepReply DEF c, pieces
    <3>6. reply.text = "OK"
      BY <3>3, <3>5 DEF ReplyTo
    <3> QED
      BY <1>2, <1>4, <3>3, <3>5, <3>6 DEF Accepted
  <2> QED
    BY <1>0, <1>1, <1>2, <1>4, <2>1 DEF AdapterError, LoseHold
<1>5. CASE Accepted(c, text) /\ doing = "unwind"
  <2>1. c.op = "ATST" /\ Tail(script) = <<>>
    <3>1. \E which \in Deadlines : script = <<ATST(which)>>
      BY <1>0, <1>5 DEF Scripted
    <3> QED
      BY <3>1, Tuples, CommandParts DEF c
  <2> QED
    BY <1>0, <1>1, <1>2, <1>5, <2>1 DEF LoseHold
<1>6. CASE Accepted(c, text) /\ doing # "unwind" /\ Resetting
  <2>1. c.op = "ATZ" /\ Tail(script) # <<>> /\ ~Lost
    BY <1>0, <1>6, ScriptHead DEF c, Lost
  <2>2. text = "banner"
    <3>1. doing \notin {"deadline", "unwind"}
      BY <1>6 DEF Resetting
    <3> QED
      BY <1>6, <2>1, <3>1 DEF Accepted
  <2>3. PICK i \in 1..UpToPrompt : wire[i].reply.text = "banner"
    BY <1>0, <2>2, ReadingsAre DEF pieces
  <2>4. UpToPrompt \in 1..Len(wire) /\ UpToPrompt \in Nat /\ Len(wire) \in Nat
        /\ wire[UpToPrompt].part # "head"
    BY <1>0, FirstPrompt
  <2>5. i \in DOMAIN wire /\ i <= UpToPrompt /\ UpToPrompt <= Len(wire)
    BY <1>0, <2>4
  <2>6. pending = <<>>
        /\ (\/ i = Len(wire) /\ (wire[i].part = "head" \/ writing = <<>>)
            \/ i + 1 = Len(wire) /\ writing = <<>>)
    BY <1>0, <1>6, <2>1, <2>3, <2>5 DEF LinkInv, BannerLast, NoBanner
  <2>7. writing = <<>>
    BY <2>4, <2>5, <2>6
  <2>8. result' = Stalled /\ doing' = doing /\ cached' = cached /\ script' = Tail(script)
    BY <1>2, <1>3, <1>6, <2>1
  <2> QED
    BY <1>1, <1>6, <2>1, <2>6, <2>7, <2>8 DEF PastBanner
<1>7. CASE Accepted(c, text) /\ doing # "unwind" /\ ~Resetting
  <2>1. ~Lost
    BY <1>0, <1>7 DEF Lost
  <2>2. PICK reply \in ReplyTo(c) :
           pieces[UpToPrompt].reply = reply /\ Readings(pieces) = {reply.text}
    BY <1>0, <1>7, <2>1, InStepReply DEF c, pieces
  <2>3. /\ pending = <<>> /\ writing = <<>>
        /\ c.op = "ATSH" => header = c.arg
        /\ c.op = "ATST" => atst = c.arg
    BY <1>0, <1>7, <2>1, InStepReply DEF c, pieces
  <2>4. Outcome(c)
    <3>1. CASE c.op = "Read"
      <4>1. /\ reply.text \in Answers(c.arg, atst, FALSE)
                              \cup IF asleep THEN Answers(c.arg, atst, TRUE) ELSE {}
            /\ reply.atst = atst /\ reply.fresh = TRUE
        BY <3>1 DEF ReplyTo
      <4>2. c.arg \in Pairs
        BY <1>0, <3>1, ScriptHead DEF c
      <4>3. reply.text \in Status
        BY <1>0, <4>1, <4>2, AnswersAre
      <4>4. text = reply.text
        BY <2>2
      <4>5. result' = [status |-> reply.text, atst |-> atst, fresh |-> TRUE]
        BY <1>2, <1>7, <2>2, <3>1, <4>1, <4>3, <4>4
      <4> QED
        BY <3>1, <4>1, <4>5 DEF Outcome
    <3>2. CASE c.op # "Read"
      <4>1. result' = Stalled
        BY <1>2, <1>3, <1>7, <3>2
      <4> QED
        BY <2>3, <3>2, <4>1 DEF Outcome
    <3> QED
      BY <3>1, <3>2
  <2>5. doing' = IF Tail(script) # <<>> THEN doing ELSE "none"
    BY <1>2, <1>7
  <2>6. script' = Tail(script) /\ cached' = IF c.op = "ATSH" THEN c.arg ELSE cached
    BY <1>2, <1>7
  <2> QED
    BY <1>1, <1>7, <2>1, <2>3, <2>4, <2>5, <2>6 DEF Progress, c
<1> QED
  BY <1>4, <1>5, <1>6, <1>7

LEMMA TimeOutDoes ==
  ASSUME LinkInv, NEW inBlock \in BOOLEAN, TimeOut(inBlock)
  PROVE  LoseHold \/ Recovering
<1>1. /\ doing \notin {"none", "failed"} /\ ~waiting' /\ wire' = <<>>
      /\ run # "off" /\ UNCHANGED <<boardVars, carVars, result>> /\ AdapterError(inBlock)
  BY DEF LinkInv, Scripted, TimeOut
<1>2. wire' \in Seq(Pieces)
  BY <1>1
<1> QED
  BY <1>1, <1>2 DEF AdapterError, LoseHold, Recovering, Lost

LEMMA LoseHoldKeepsLink ==
  ASSUME LinkInv, deadline' \in Deadlines, run' = run, LoseHold
  PROVE  LinkInv'
<1> USE DEF LoseHold, boardVars, carVars
<1>0. Lost' /\ waiting' = FALSE /\ run # "off"
  <2>1. waiting' = FALSE \/ waiting' # FALSE
    OBVIOUS
  <2> QED
    BY DEF Lost, LinkInv, Scripted
<1>1. LinkTypes'
  BY <1>0 DEF LinkInv, LinkTypes
<1>2. Scripted'
  <2>1. doing' = "unwind" => \E which \in Deadlines : script' = <<ATST(which)>>
    BY DEF Deadlines
  <2>2. doing' \in {"unwind", "failed"} /\ ~waiting' /\ run' # "off"
        /\ (doing' = "failed" => script' = <<>>)
    BY <1>0
  <2> HIDE DEF LoseHold
  <2> QED
    BY <2>1, <2>2 DEF Scripted
<1>3. ReadsAimed'
  BY DEF LinkInv, ReadsAimed
<1> QED
  BY <1>0, <1>1, <1>2, <1>3 DEF LinkInv, BannerLast, InStep

LEMMA RecoveringKeepsLink ==
  ASSUME LinkInv, deadline' \in Deadlines, run' = run, Recovering
  PROVE  LinkInv'
<1>0. /\ doing = "probe" /\ doing' = "recover" /\ script' = InitScript(deadline)
      /\ cached' = NoEcu /\ waiting' = FALSE /\ wire' = <<>>
      /\ UNCHANGED <<header, atst, pending, writing, astray, asleep, naps, result, run>>
      /\ ~Lost /\ ~Resetting /\ script # <<>> /\ result = Stalled
  BY DEF Recovering, Recover, Initialise, ForgottenHeader, boardVars, carVars, Resetting,
         LinkInv, Scripted
<1>1. LinkTypes' /\ deadline \in Deadlines
  <2>1. LinkTypes /\ deadline \in Deadlines
    BY DEF LinkInv, LinkTypes
  <2>2. cached' \in Ecus \cup {NoEcu} /\ doing' = "recover"
    BY <1>0
  <2>3. wire' \in Seq(Pieces)
    BY <1>0
  <2>4. waiting' \in BOOLEAN
    BY <1>0
  <2> QED
    BY <1>0, <2>1, <2>2, <2>3, <2>4 DEF LinkTypes
<1>2. script' \in Resets(deadline) /\ script' # <<>> /\ script'[1].op = "ATZ"
  BY <1>0, Tuples, CommandParts DEF InitScript, Resets
<1>3. Scripted'
  <2>1. doing' \in {"init", "recover"} =>
          cached' = NoEcu /\ \E which \in Deadlines : script' \in Resets(which)
    BY <1>0, <1>1, <1>2
  <2>2. run' # "off"
    BY <1>0 DEF Lost
  <2> QED
    BY <1>0, <2>1, <2>2 DEF Scripted
<1>4. ReadsAimed'
  BY <1>0 DEF LinkInv, ReadsAimed
<1>5. /\ \A i \in DOMAIN writing : writing[i].text # "banner"
      /\ \A i \in DOMAIN pending : pending[i].op # "ATZ"
  <2>1. CASE ~waiting
    BY <1>0, <2>1, Tuples DEF LinkInv, InStep
  <2>2. CASE waiting
    <3> DEFINE c == script[1]
    <3>1. Underway(c) /\ c.op \in {"ATSH", "Read"} /\ (c.op = "Read" => c.arg \in Pairs)
          /\ LinkTypes
      BY <1>0, <2>2, ScriptHead DEF LinkInv, InStep
    <3> HIDE DEF c
    <3>2. CASE pending = <<[op |-> c.op, arg |-> c.arg, fresh |-> TRUE]>> /\ writing = <<>>
      BY <3>1, <3>2, Tuples
    <3>3. CASE pending = <<>> /\ \E reply \in ReplyTo(c) : writing = <<reply>> \/ writing = <<>>
      <4>1. PICK reply \in ReplyTo(c) : writing = <<reply>> \/ writing = <<>>
        BY <3>3
      <4>2. reply.text # "banner"
        <5>1. CASE c.op = "Read"
          <6>1. reply.text \in Answers(c.arg, atst, FALSE)
                              \cup IF asleep THEN Answers(c.arg, atst, TRUE) ELSE {}
            BY <4>1, <5>1 DEF ReplyTo
          <6>2. reply.text \in Status
            BY <3>1, <5>1, <6>1, AnswersAre
          <6> QED
            BY <6>2 DEF Status
        <5>2. CASE c.op # "Read"
          BY <4>1, <5>2 DEF ReplyTo
        <5> QED
          BY <5>1, <5>2
      <4> QED
        BY <3>3, <4>1, <4>2, Tuples
    <3> QED
      BY <3>1, <3>2, <3>3 DEF Underway
  <2> QED
    BY <2>1, <2>2 DEF LinkInv, LinkTypes
<1>6. BannerLast'
  BY <1>0, <1>5 DEF BannerLast
<1>7. InStep'
  BY <1>0, <1>2 DEF InStep, Resetting
<1> QED
  BY <1>1, <1>3, <1>4, <1>6, <1>7 DEF LinkInv

LEMMA PastBannerKeepsLink ==
  ASSUME LinkInv, deadline' \in Deadlines, run' = run, PastBanner
  PROVE  LinkInv'
<1>0. /\ waiting' = FALSE /\ wire' \in Seq(Pieces) /\ script' = Tail(script)
      /\ pending = <<>> /\ writing = <<>> /\ result' = Stalled /\ Resetting /\ ~Lost
      /\ UNCHANGED <<header, atst, pending, writing, astray, asleep, naps, cached, doing, run>>
  BY DEF PastBanner, boardVars, carVars
<1>1. LinkTypes /\ Scripted /\ doing \in {"init", "recover"} /\ script # <<>>
  BY <1>0, Tuples DEF LinkInv, Resetting, Scripted, Resets
<1>2. PICK which \in Deadlines : script' = <<Quieten, ATST(which)>>
  <2>1. script[1].op = "ATZ"
    BY <1>0 DEF Resetting
  <2>2. script[1] # Quieten /\ \A which \in Deadlines : script[1] # ATST(which)
    BY <2>1, CommandParts
  <2> QED
    BY <1>0, <1>1, <2>2, ScriptForms
<1>3. cached = NoEcu /\ script'[1].op = "ATE0"
  BY <1>1, <1>2, Tuples, CommandParts DEF Scripted
<1>4. LinkTypes'
  BY <1>0, <1>1 DEF LinkTypes, Results
<1>5. Scripted'
  <2>1. \E w \in Deadlines : script' \in Resets(w)
    BY <1>2 DEF Resets
  <2>2. run # "off"
    BY <1>0 DEF Lost
  <2> QED
    BY <1>0, <1>1, <1>3, <2>1, <2>2 DEF Scripted
<1>6. ReadsAimed'
  BY <1>0 DEF LinkInv, ReadsAimed
<1>7. ~Resetting'
  BY <1>3 DEF Resetting
<1>8. InStep'
  BY <1>0, <1>3 DEF InStep
<1> QED
  BY <1>4, <1>5, <1>6, <1>7, <1>8 DEF LinkInv, BannerLast

LEMMA ProgressKeepsLink ==
  ASSUME LinkInv, deadline' \in Deadlines, run' = run, Progress, waiting
  PROVE  LinkInv'
<1> DEFINE c == script[1]
<1>0. /\ waiting' = FALSE /\ wire' \in Seq(Pieces) /\ script' = Tail(script)
      /\ pending = <<>> /\ writing = <<>> /\ ~Resetting /\ ~Lost
      /\ cached' = IF c.op = "ATSH" THEN c.arg ELSE cached
      /\ doing' = IF Tail(script) # <<>> THEN doing ELSE "none"
      /\ Outcome(c)
      /\ UNCHANGED <<header, atst, pending, writing, astray, asleep, naps, run>>
  BY DEF Progress, boardVars, carVars
<1>1. LinkTypes /\ Scripted /\ script # <<>> /\ run # "off"
      /\ doing \notin {"none", "unwind", "failed"}
  BY <1>0 DEF LinkInv, Scripted, Lost
<1>2. /\ c.op = "ATSH" => c.arg \in Ecus \ {Functional}
      /\ c.op = "Read" => c.arg \in Pairs
  BY <1>1, ScriptHead
<1>3. result' \in Results
  <2>1. CASE c.op = "Read"
    <3>1. PICK s \in Answers(c.arg, atst, FALSE)
                   \cup IF asleep THEN Answers(c.arg, atst, TRUE) ELSE {} :
             result' = [status |-> s, atst |-> atst, fresh |-> TRUE]
      BY <1>0, <2>1 DEF Outcome
    <3>2. s \in Status
      BY <1>1, <1>2, <2>1, <3>1, AnswersAre
    <3> QED
      BY <1>1, <3>1, <3>2 DEF Results, LinkTypes
  <2>2. CASE c.op # "Read"
    BY <1>0, <2>2 DEF Outcome, Results
  <2> QED
    BY <2>1, <2>2
<1>4. LinkTypes'
  <2>1. cached' \in Ecus \cup {NoEcu}
    BY <1>0, <1>1, <1>2 DEF LinkTypes
  <2>2. doing' \in {"none", "init", "deadline", "ask", "probe", "recover", "unwind", "failed"}
    BY <1>0, <1>1 DEF LinkTypes
  <2> QED
    BY <1>0, <1>1, <1>3, <2>1, <2>2 DEF LinkTypes
<1>5. ~Resetting'
  <2>1. CASE Tail(script) = <<>>
    BY <1>0, <2>1 DEF Resetting
  <2>2. CASE \E which \in Deadlines : Tail(script) = <<Quieten, ATST(which)>>
    <3>1. script'[1].op # "ATZ"
      <4>1. PICK which \in Deadlines : script' = <<Quieten, ATST(which)>>
        BY <1>0, <2>2
      <4>2. script'[1] = Quieten
        BY <4>1, Tuples
      <4> QED
        BY <4>2, CommandParts
    <3> QED
      BY <3>1 DEF Resetting
  <2>3. CASE \E which \in Deadlines : Tail(script) = <<ATST(which)>>
    <3>1. script'[1].op # "ATZ"
      <4>1. PICK which \in Deadlines : script' = <<ATST(which)>>
        BY <1>0, <2>3
      <4>2. script'[1] = ATST(which)
        BY <4>1, Tuples
      <4> QED
        BY <4>2, CommandParts
    <3> QED
      BY <3>1 DEF Resetting
  <2>4. CASE \E pair \in Pairs : Tail(script) = <<Read(pair[1], pair[2])>>
    <3>1. script'[1].op # "ATZ"
      <4>1. PICK pair \in Pairs : script' = <<Read(pair[1], pair[2])>>
        BY <1>0, <2>4
      <4>2. script'[1] = Read(pair[1], pair[2])
        BY <4>1, Tuples
      <4> QED
        BY <4>2, CommandParts
    <3> QED
      BY <3>1 DEF Resetting
  <2> QED
    BY <1>1, <2>1, <2>2, <2>3, <2>4, ScriptForms
<1>6. Scripted'
  <2> DEFINE forms == Scripted'
  <2> HIDE DEF forms
  <2>1. CASE /\ doing \in {"init", "recover"} /\ cached = NoEcu
             /\ \E which \in Deadlines :
                   c = Quieten /\ Tail(script) = <<ATST(which)>>
    <3>1. c.op = "ATE0" /\ Tail(script) # <<>>
      BY <2>1, CommandParts, Tuples
    <3>2. cached' = NoEcu /\ doing' = doing /\ result' = Stalled
      BY <1>0, <2>1, <3>1 DEF Outcome
    <3>3. \E which \in Deadlines : script' \in Resets(which)
      BY <1>0, <2>1 DEF Resets
    <3> QED
      BY <1>0, <1>1, <2>1, <3>2, <3>3 DEF Scripted
  <2>2. CASE Tail(script) = <<>>
    BY <1>0, <1>1, <2>2 DEF Scripted
  <2>3. CASE /\ doing \in {"ask", "probe"}
             /\ \E pair \in Pairs : /\ c = ATSH(pair[1])
                                    /\ Tail(script) = <<Read(pair[1], pair[2])>>
    <3>1. PICK pair \in Pairs : c = ATSH(pair[1]) /\ Tail(script) = <<Read(pair[1], pair[2])>>
      BY <2>3
    <3>2. c.op = "ATSH" /\ c.arg = pair[1] /\ Tail(script) # <<>>
      BY <3>1, CommandParts, Tuples
    <3>3. cached' = pair[1] /\ doing' = doing /\ result' = Stalled
      BY <1>0, <3>2 DEF Outcome
    <3> QED
      BY <1>0, <1>1, <2>3, <3>1, <3>3 DEF Scripted
  <2>4. CASE /\ doing \in {"init", "recover"} /\ cached = NoEcu
             /\ \E which \in Deadlines :
                   c = ATZ /\ Tail(script) = <<Quieten, ATST(which)>>
    <3>1. c.op = "ATZ"
      BY <2>4, CommandParts
    <3> QED
      BY <1>0, <2>4, <3>1 DEF Resetting
  <2> QED
    BY <1>1, <2>1, <2>2, <2>3, <2>4, ScriptForms
<1>7. ReadsAimed'
  BY <1>0 DEF LinkInv, ReadsAimed
<1>8. InStep'
  <2>1. cached' # NoEcu => header' = cached'
    BY <1>0 DEF Outcome, LinkInv, InStep
  <2> QED
    BY <1>0, <2>1 DEF InStep
<1> QED
  BY <1>4, <1>5, <1>6, <1>7, <1>8 DEF LinkInv, BannerLast

LEMMA ExchangeKeepsLink ==
  ASSUME LinkInv, deadline' \in Deadlines, run' = run, NEW inBlock \in BOOLEAN,
         Receive(inBlock) \/ TimeOut(inBlock)
  PROVE  LinkInv'
<1>1. waiting /\ (LoseHold \/ PastBanner \/ Progress \/ Recovering)
  BY ReceiveDoes, TimeOutDoes DEF Receive, TimeOut
<1> QED
  BY <1>1, LoseHoldKeepsLink, RecoveringKeepsLink, PastBannerKeepsLink, ProgressKeepsLink

LEMMA Places ==
  ASSUME NEW S, NEW s \in Seq(S)
  PROVE  Len(s) \in Nat /\ DOMAIN s = 1..Len(s)
OBVIOUS

LEMMA Appending ==
  ASSUME NEW S, NEW s \in Seq(S), NEW e \in S
  PROVE  /\ Append(s, e) \in Seq(S) /\ Len(Append(s, e)) = Len(s) + 1
         /\ DOMAIN Append(s, e) = 1..(Len(s) + 1)
         /\ Append(s, e)[Len(s) + 1] = e
         /\ \A i \in 1..Len(s) : Append(s, e)[i] = s[i]
OBVIOUS

LEMMA AppendToFew ==
  ASSUME NEW a, NEW b
  PROVE  Append(<<>>, a) = <<a>> /\ Append(<<a>>, b) = <<a, b>>
<1>1. <<a>> \in Seq({a, b}) /\ <<a, b>> \in Seq({a, b}) /\ <<>> \in Seq({a, b})
      /\ a \in {a, b} /\ b \in {a, b}
  OBVIOUS
<1>2. Append(<<>>, a) = <<a>>
  OBVIOUS
<1>3. Append(<<a>>, b) \in Seq({a, b}) /\ Len(Append(<<a>>, b)) = 2
      /\ Append(<<a>>, b)[2] = b /\ Append(<<a>>, b)[1] = a
  <2>1. Len(<<a>>) = 1 /\ <<a>>[1] = a
    BY Tuples
  <2> QED
    BY <1>1, <2>1, Appending
<1>4. \A i \in 1..2 : i = 1 \/ i = 2
  OBVIOUS
<1>5. Len(<<a, b>>) = 2 /\ <<a, b>>[1] = a /\ <<a, b>>[2] = b
  BY Tuples
<1>6. \A i \in 1..2 : Append(<<a>>, b)[i] = <<a, b>>[i]
  BY <1>3, <1>4, <1>5, Zenon
<1> QED
  BY <1>1, <1>2, <1>3, <1>5, <1>6, SeqEqual

\* What the board writes when it takes a command.
LEMMA Taken ==
  ASSUME LinkTypes, NEW open \in BOOLEAN, BoardTakes(open), NEW c, c = pending[1]
  PROVE  /\ pending # <<>> /\ c = Head(pending) /\ c \in Written /\ writing = <<>>
         /\ pending' = Tail(pending) /\ Len(pending) \in Nat /\ Len(pending) >= 1
         /\ Len(pending') = Len(pending) - 1
         /\ \A i \in DOMAIN pending' : pending'[i] = pending[i + 1] /\ i + 1 \in DOMAIN pending
                                       /\ i \in Nat /\ i >= 1 /\ i < Len(pending)
         /\ \E reply \in Reply :
               /\ c.op = "ATZ" => reply.text = "banner"
               /\ c.op = "Read" => reply.text \in Answers(c.arg, atst, asleep)
               /\ c.op # "ATZ" => reply.text # "banner"
               /\ c.op \notin {"ATZ", "Read"} => reply.text = "OK"
               /\ reply.atst = atst /\ reply.fresh = c.fresh
               /\ \/ wire' = Append(wire, Piece("whole", reply)) /\ writing' = <<>>
                  \/ wire' = Append(wire, Piece("head", reply)) /\ writing' = <<reply>>
                  \/ wire' = wire /\ writing' = <<>>
<1>1. /\ pending # <<>> /\ c = Head(pending) /\ c \in Written /\ writing = <<>>
      /\ pending' = Tail(pending) /\ Len(pending) \in Nat /\ Len(pending) >= 1
  BY DEF LinkTypes, BoardTakes
<1>2. /\ Len(pending') = Len(pending) - 1
      /\ \A i \in DOMAIN pending' : pending'[i] = pending[i + 1] /\ i + 1 \in DOMAIN pending
                                       /\ i \in Nat /\ i >= 1 /\ i < Len(pending)
  BY <1>1 DEF LinkTypes
<1>3. PICK text, reply :
        /\ text \in Replies(c)
        /\ reply = [text |-> text, atst |-> atst, fresh |-> c.fresh]
        /\ \/ wire' = Append(wire, Piece("whole", reply)) /\ UNCHANGED writing
           \/ wire' = Append(wire, Piece("head", reply)) /\ writing' = <<reply>>
           \/ UNCHANGED <<wire, writing>>
  BY <1>1 DEF BoardTakes
<1>4. reply.text = text /\ reply.atst = atst /\ reply.fresh = c.fresh
  BY <1>3
<1>5. /\ c.op = "ATZ" => text = "banner"
      /\ c.op = "Read" => text \in Answers(c.arg, atst, asleep)
      /\ c.op \notin {"ATZ", "Read"} => text = "OK"
  BY <1>3 DEF Replies
<1>6. c.op = "Read" => text \in Status
  <2>1. SUFFICES ASSUME c.op = "Read" PROVE text \in Status
    OBVIOUS
  <2>2. c.arg \in Pairs
    BY <1>1, <2>1 DEF Written
  <2>3. asleep = TRUE \/ asleep = FALSE
    BY DEF LinkTypes
  <2> QED
    BY <1>5, <2>1, <2>2, <2>3, AnswersAre
<1>7. c.op # "ATZ" => text # "banner"
  BY <1>5, <1>6 DEF Status
<1>8. reply \in Reply
  <2>1. text \in Texts
    BY <1>5, <1>6 DEF Texts
  <2>2. c.fresh \in BOOLEAN
    BY <1>1 DEF Written
  <2>3. atst \in Deadlines \cup {"Default"}
    BY DEF LinkTypes
  <2> QED
    BY <1>3, <2>1, <2>2, <2>3 DEF Reply
<1>9. \/ wire' = Append(wire, Piece("whole", reply)) /\ writing' = <<>>
      \/ wire' = Append(wire, Piece("head", reply)) /\ writing' = <<reply>>
      \/ wire' = wire /\ writing' = <<>>
  BY <1>1, <1>3
<1> QED
  BY <1>1, <1>2, <1>4, <1>5, <1>7, <1>8, <1>9

LEMMA TakesKeepsLink ==
  ASSUME LinkInv, deadline' \in Deadlines, run' = run,
         doing # "failed", BoardTakes(run # "off")
  PROVE  LinkInv'
<1> DEFINE c == pending[1]
<1>0. /\ UNCHANGED <<asleep, naps, cached, script, waiting, doing, result, deadline, run>>
      /\ header' = CASE c.op = "ATZ"  -> Functional
                     [] c.op = "ATSH" -> c.arg
                     [] OTHER         -> header
      /\ atst' = CASE c.op = "ATZ"  -> "Default"
                   [] c.op = "ATST" -> c.arg
                   [] OTHER         -> atst
      /\ astray' = (astray \/ (c.op = "Read" /\ (c.arg[1] # header \/ header = Functional)))
      /\ LinkTypes /\ Scripted
  BY Taken DEF BoardTakes, carVars, LinkInv
<1>1. PICK reply \in Reply :
         /\ c.op = "ATZ" => reply.text = "banner"
         /\ c.op = "Read" => reply.text \in Answers(c.arg, atst, asleep)
         /\ c.op # "ATZ" => reply.text # "banner"
         /\ c.op \notin {"ATZ", "Read"} => reply.text = "OK"
         /\ reply.atst = atst /\ reply.fresh = c.fresh
         /\ \/ wire' = Append(wire, Piece("whole", reply)) /\ writing' = <<>>
            \/ wire' = Append(wire, Piece("head", reply)) /\ writing' = <<reply>>
            \/ wire' = wire /\ writing' = <<>>
  BY <1>0, Taken
<1>2. /\ pending # <<>> /\ c = Head(pending) /\ c \in Written /\ writing = <<>>
      /\ pending' = Tail(pending) /\ Len(pending) \in Nat /\ Len(pending) >= 1
      /\ Len(pending') = Len(pending) - 1
      /\ \A i \in DOMAIN pending' : pending'[i] = pending[i + 1] /\ i + 1 \in DOMAIN pending
                                    /\ i \in Nat /\ i >= 1 /\ i < Len(pending)
  BY <1>0, Taken
<1>3. \A part : Piece(part, reply).part = part /\ Piece(part, reply).reply = reply
  BY DEF Piece
<1>4. /\ c.op = "ATSH" => c.arg \in Ecus
      /\ c.op = "ATST" => c.arg \in Deadlines
      /\ c.op = "Read" => c.arg \in Pairs
  BY <1>2 DEF Written
<1> HIDE DEF c
<1>5. /\ wire \in Seq(Pieces) /\ Len(wire) \in Nat /\ wire' \in Seq(Pieces)
      /\ \/ wire' = wire
         \/ /\ Len(wire') = Len(wire) + 1 /\ wire'[Len(wire) + 1].reply = reply
            /\ \A i \in 1..Len(wire) : wire'[i] = wire[i]
      /\ DOMAIN wire' = 1..Len(wire')
  <2>1. \A part \in {"whole", "head"} : Piece(part, reply) \in Pieces
    BY DEF Piece, Pieces
  <2>2. wire \in Seq(Pieces)
    BY <1>0 DEF LinkTypes
  <2> QED
    BY <1>1, <1>3, <2>1, <2>2
<1>6. LinkTypes'
  <2>1. pending' \in Seq(Written)
    BY <1>0, <1>2 DEF LinkTypes
  <2>2. header' \in Ecus \cup {Functional}
    BY <1>0, <1>4 DEF LinkTypes
  <2>3. atst' \in Deadlines \cup {"Default"}
    BY <1>0, <1>4 DEF LinkTypes
  <2>4. writing' = <<>> \/ writing' = <<reply>>
    BY <1>1
  <2> QED
    BY <1>0, <1>5, <2>1, <2>2, <2>3, <2>4 DEF LinkTypes
<1>7. Scripted'
  BY <1>0 DEF Scripted
<1>8. ReadsAimed'
  <2>1. ~astray /\ \A i \in DOMAIN pending :
            pending[i].op = "Read" => i = 1 /\ header = pending[i].arg[1]
    BY DEF LinkInv, ReadsAimed
  <2>2. ~astray'
    <3>1. SUFFICES ASSUME c.op = "Read" PROVE c.arg[1] = header /\ header # Functional
      BY <1>0, <2>1
    <3>2. c.arg \in Pairs
      BY <1>4, <3>1
    <3>3. c.arg[1] = header
      <4>1. 1 \in DOMAIN pending
        BY <1>0, <1>2 DEF LinkTypes
      <4> QED
        BY <2>1, <3>1, <4>1 DEF c
    <3> QED
      BY <3>2, <3>3, PairParts
  <2>3. \A i \in DOMAIN pending' : pending'[i].op # "Read"
    BY <1>2, <2>1
  <2> QED
    BY <2>2, <2>3 DEF ReadsAimed
<1>9. BannerLast'
  <2>1. SUFFICES ASSUME Resetting, ~Lost
        PROVE  /\ ~waiting => /\ \A i \in DOMAIN writing' : writing'[i].text # "banner"
                              /\ \A i \in DOMAIN pending' : pending'[i].op # "ATZ"
               /\ waiting =>
                    \/ /\ pending' # <<>>
                       /\ \A i \in DOMAIN pending' :
                             pending'[i].op = "ATZ" <=> i = Len(pending')
                       /\ \A i \in DOMAIN writing' : writing'[i].text # "banner"
                       /\ \A i \in DOMAIN wire' : wire'[i].reply.text # "banner"
                    \/ /\ pending' = <<>>
                       /\ \A i \in DOMAIN wire' : wire'[i].reply.text = "banner" =>
                             i = Len(wire') /\ (wire'[i].part = "head" \/ writing' = <<>>)
    BY <1>0 DEF BannerLast, Resetting, Lost, NoBanner
  <2>2. c.op # "ATZ" => \A i \in DOMAIN writing' : writing'[i].text # "banner"
    BY <1>1, Tuples
  <2>3. CASE ~waiting
    <3>1. \A i \in DOMAIN pending : pending[i].op # "ATZ"
      BY <2>1, <2>3 DEF LinkInv, BannerLast
    <3>2. \A i \in DOMAIN pending' : pending'[i].op # "ATZ"
      BY <1>2, <3>1
    <3>3. c.op # "ATZ"
      <4>1. 1 \in DOMAIN pending
        BY <1>0, <1>2 DEF LinkTypes
      <4> QED
        BY <3>1, <4>1 DEF c
    <3> QED
      BY <2>2, <2>3, <3>2, <3>3
  <2>4. CASE waiting
    <3>1. /\ \A i \in DOMAIN pending : pending[i].op = "ATZ" <=> i = Len(pending)
          /\ \A i \in DOMAIN wire : wire[i].reply.text # "banner"
      BY <1>2, <2>1, <2>4 DEF LinkInv, BannerLast, NoBanner
    <3>2. DOMAIN wire = 1..Len(wire) /\ DOMAIN pending = 1..Len(pending)
          /\ DOMAIN pending' = 1..Len(pending')
      BY <1>0, <1>5, <1>6, Places DEF LinkTypes
    <3>3. CASE Len(pending) = 1
      <4>1. pending' = <<>>
        BY <1>0, <1>2, <3>3 DEF LinkTypes
      <4>2. ASSUME NEW i \in DOMAIN wire', wire'[i].reply.text = "banner"
            PROVE  i = Len(wire') /\ (wire'[i].part = "head" \/ writing' = <<>>)
        <5>1. i \in 1..Len(wire) => wire'[i] = wire[i]
          BY <1>5
        <5>2. i \notin 1..Len(wire)
          BY <3>1, <3>2, <4>2, <5>1
        <5>3. Len(wire') = Len(wire) + 1 /\ i = Len(wire')
          <6>1. wire' # wire /\ i \in 1..Len(wire')
            BY <1>5, <3>2, <4>2, <5>2
          <6>2. Len(wire') = Len(wire) + 1
            BY <1>5, <6>1
          <6> QED
            BY <1>5, <5>2, <6>1, <6>2
        <5>4. wire' # wire
          BY <1>5, <5>3
        <5>5. wire' = Append(wire, Piece("head", reply)) => wire'[i].part = "head"
          BY <1>3, <1>5, <5>3
        <5> QED
          BY <1>1, <5>3, <5>4, <5>5
      <4> QED
        BY <2>4, <4>1, <4>2
    <3>4. CASE Len(pending) # 1
      <4>1. c.op # "ATZ"
        BY <1>2, <3>1, <3>2, <3>4 DEF c
      <4>2. pending' # <<>>
        <5>1. Len(pending') # 0
          BY <1>2, <3>4
        <5> QED
          BY <5>1
      <4>3. \A i \in DOMAIN pending' : pending'[i].op = "ATZ" <=> i = Len(pending')
        BY <1>2, <3>1, <3>2
      <4>4. \A i \in DOMAIN wire' : wire'[i].reply.text # "banner"
        <5>1. CASE wire' = wire
          BY <3>1, <5>1
        <5>2. CASE wire' # wire
          <6>1. /\ Len(wire') = Len(wire) + 1 /\ wire'[Len(wire) + 1].reply = reply
                /\ \A i \in 1..Len(wire) : wire'[i] = wire[i]
            BY <1>5, <5>2
          <6>2. \A i \in DOMAIN wire' : i \in 1..Len(wire) \/ i = Len(wire) + 1
            BY <1>5, <6>1
          <6> QED
            BY <1>1, <3>1, <3>2, <4>1, <6>1, <6>2
        <5> QED
          BY <5>1, <5>2
      <4> QED
        BY <2>2, <2>4, <4>1, <4>2, <4>3, <4>4
    <3> QED
      BY <3>3, <3>4
  <2> QED
    BY <2>3, <2>4
<1>10. InStep'
  <2>1. SUFFICES ASSUME ~Resetting, ~Lost
        PROVE  /\ waiting /\ Underway(script[1])'
               /\ cached # NoEcu /\ script[1].op # "ATSH" => header' = cached
    BY <1>0 DEF InStep, Resetting, Lost
  <2> DEFINE d == script[1]
  <2>2. waiting /\ Underway(d) /\ script # <<>>
    BY <1>2, <2>1 DEF LinkInv, InStep, Scripted
  <2>3. pending = <<[op |-> d.op, arg |-> d.arg, fresh |-> TRUE]>> /\ wire = <<>>
    BY <1>2, <2>2 DEF Underway
  <2>4. c.op = d.op /\ c.arg = d.arg /\ c.fresh = TRUE
    BY <2>3, Tuples DEF c
  <2>5. d.op # "ATZ"
    BY <1>0, <2>1, <2>2, ScriptHead
  <2> HIDE DEF d
  <2>6. pending' = <<>>
    BY <1>2, <2>3, Tuples
  <2>7. d.op # "ATST" => atst' = atst
    BY <1>0, <2>4, <2>5
  <2>8. reply \in ReplyTo(d)'
    <3>1. CASE d.op = "Read"
      <4>1. reply.text \in Answers(d.arg, atst, asleep) /\ reply.atst = atst
            /\ reply.fresh = TRUE /\ atst' = atst /\ asleep' = asleep
        BY <1>0, <1>1, <2>4, <2>7, <3>1
      <4>2. asleep = TRUE \/ asleep = FALSE
        BY <1>0 DEF LinkTypes
      <4>3. reply.text \in Answers(d.arg, atst, FALSE)
                           \cup IF asleep THEN Answers(d.arg, atst, TRUE) ELSE {}
        BY <4>1, <4>2
      <4>4. reply = [text |-> reply.text, atst |-> reply.atst, fresh |-> reply.fresh]
        BY DEF Reply
      <4>5. d' = d
        BY <1>0 DEF d
      <4> QED
        BY <3>1, <4>1, <4>3, <4>4, <4>5 DEF ReplyTo
    <3>2. CASE d.op # "Read"
      <4>1. reply.text = "OK" /\ reply.atst \in Deadlines \cup {"Default"}
            /\ reply.fresh = TRUE
        BY <1>0, <1>1, <2>4, <2>5, <3>2 DEF LinkTypes
      <4>2. reply = [text |-> reply.text, atst |-> reply.atst, fresh |-> reply.fresh]
        BY DEF Reply
      <4>3. d' = d
        BY <1>0 DEF d
      <4> QED
        BY <3>2, <4>1, <4>2, <4>3 DEF ReplyTo
    <3> QED
      BY <3>1, <3>2
  <2>9. /\ d.op = "ATSH" => header' = d.arg
        /\ d.op = "ATST" => atst' = d.arg
        /\ d.op # "ATSH" => header' = header
    BY <1>0, <2>4, <2>5
  <2>10. \/ writing' = <<reply>> /\ wire' = <<Piece("head", reply)>>
         \/ writing' = <<>> /\ wire' \in {<<>>, <<Piece("whole", reply)>>}
    BY <1>1, <2>3, AppendToFew
  <2>11. Underway(script[1])'
    <3>1. d' = d
      BY <1>0 DEF d
    <3> QED
      BY <2>6, <2>8, <2>9, <2>10, <3>1 DEF Underway, d
  <2>12. cached # NoEcu /\ d.op # "ATSH" => header' = cached
    BY <2>1, <2>9 DEF LinkInv, InStep, d
  <2> QED
    BY <2>2, <2>11, <2>12 DEF d
<1> QED
  BY <1>6, <1>7, <1>8, <1>9, <1>10 DEF LinkInv

LEMMA ResumesKeepsLink ==
  ASSUME LinkInv, deadline' \in Deadlines, run' = run,
         doing # "failed", BoardResumes(run # "off")
  PROVE  LinkInv'
<1>0. /\ UNCHANGED <<header, atst, pending, astray, asleep, naps, cached, script, waiting,
                     doing, result, run>>
      /\ writing # <<>> /\ writing' = <<>> /\ LinkTypes /\ Scripted
      /\ wire' = Append(wire, Piece("tail", writing[1])) \/ wire' = wire
  BY DEF BoardResumes, carVars, LinkInv
<1>1. PICK reply \in Reply : writing = <<reply>> /\ writing[1] = reply
  BY <1>0, Tuples DEF LinkTypes
<1>2. Piece("tail", reply).part = "tail" /\ Piece("tail", reply).reply = reply
      /\ Piece("tail", reply) \in Pieces
  BY DEF Piece, Pieces
<1>3. /\ wire \in Seq(Pieces) /\ wire' \in Seq(Pieces)
      /\ Len(wire) \in Nat /\ DOMAIN wire = 1..Len(wire) /\ DOMAIN wire' = 1..Len(wire')
      /\ \/ wire' = wire
         \/ /\ Len(wire') = Len(wire) + 1 /\ wire'[Len(wire) + 1] = Piece("tail", reply)
            /\ \A i \in 1..Len(wire) : wire'[i] = wire[i]
  <2>1. wire \in Seq(Pieces)
    BY <1>0 DEF LinkTypes
  <2>2. wire' = Append(wire, Piece("tail", reply)) \/ wire' = wire
    BY <1>0, <1>1
  <2> QED
    BY <1>2, <2>1, <2>2, Places, Appending
<1>4. LinkTypes'
  BY <1>0, <1>3 DEF LinkTypes
<1>5. Scripted'
  BY <1>0 DEF Scripted
<1>6. ReadsAimed'
  BY <1>0 DEF LinkInv, ReadsAimed
<1>7. BannerLast'
  <2>1. SUFFICES ASSUME Resetting, ~Lost
        PROVE  /\ ~waiting => \A i \in DOMAIN pending : pending[i].op # "ATZ"
               /\ waiting =>
                    \/ /\ pending # <<>>
                       /\ \A i \in DOMAIN pending :
                             pending[i].op = "ATZ" <=> i = Len(pending)
                       /\ \A i \in DOMAIN wire' : wire'[i].reply.text # "banner"
                    \/ /\ pending = <<>>
                       /\ \A i \in DOMAIN wire' : wire'[i].reply.text = "banner" =>
                             \/ i = Len(wire')
                             \/ /\ i + 1 = Len(wire')
                                /\ wire'[i].part = "head" /\ wire'[i + 1].part # "head"
    BY <1>0, Tuples DEF BannerLast, Resetting, Lost, NoBanner
  <2>2. CASE ~waiting
    BY <2>1, <2>2 DEF LinkInv, BannerLast
  <2>3. CASE waiting /\ pending # <<>>
    <3>1. /\ \A i \in DOMAIN pending : pending[i].op = "ATZ" <=> i = Len(pending)
          /\ reply.text # "banner"
          /\ \A i \in DOMAIN wire : wire[i].reply.text # "banner"
      BY <1>1, <2>1, <2>3, Tuples DEF LinkInv, BannerLast, NoBanner
    <3>2. \A i \in DOMAIN wire' : wire'[i].reply.text # "banner"
      <4>1. CASE wire' = wire
        BY <3>1, <4>1
      <4>2. CASE wire' # wire
        <5>1. \A i \in DOMAIN wire' : i \in DOMAIN wire \/ i = Len(wire) + 1
          <6>1. Len(wire') = Len(wire) + 1
            BY <1>3, <4>2
          <6> QED
            BY <1>3, <6>1
        <5> QED
          BY <1>2, <1>3, <3>1, <4>2, <5>1
      <4> QED
        BY <4>1, <4>2
    <3> QED
      BY <2>3, <3>1, <3>2
  <2>4. CASE waiting /\ pending = <<>>
    <3>1. \A i \in DOMAIN wire : wire[i].reply.text = "banner" =>
                                    i = Len(wire) /\ wire[i].part = "head"
      BY <1>0, <2>1, <2>4 DEF LinkInv, BannerLast, NoBanner
    <3>2. CASE wire' = wire
      BY <2>4, <3>1, <3>2
    <3>3. CASE wire' # wire
      <4>1. /\ Len(wire') = Len(wire) + 1 /\ wire'[Len(wire) + 1] = Piece("tail", reply)
            /\ \A i \in DOMAIN wire : wire'[i] = wire[i]
        BY <1>3, <3>3
      <4>2. \A i \in DOMAIN wire' : i \in DOMAIN wire \/ i = Len(wire')
        BY <1>3, <4>1
      <4>3. \A i \in DOMAIN wire' : wire'[i].reply.text = "banner" =>
                             \/ i = Len(wire')
                             \/ /\ i + 1 = Len(wire')
                                /\ wire'[i].part = "head" /\ wire'[i + 1].part # "head"
        BY <1>2, <3>1, <4>1, <4>2
      <4> QED
        BY <2>4, <4>3
    <3> QED
      BY <3>2, <3>3
  <2> QED
    BY <2>2, <2>3, <2>4
<1>8. InStep'
  <2>1. SUFFICES ASSUME ~Resetting, ~Lost
        PROVE  /\ waiting /\ Underway(script[1])'
               /\ cached # NoEcu /\ script[1].op # "ATSH" => header = cached
    BY <1>0 DEF InStep, Resetting, Lost
  <2> DEFINE d == script[1]
  <2>2. waiting /\ Underway(d)
    BY <1>0, <2>1 DEF LinkInv, InStep
  <2> HIDE DEF d
  <2>3. PICK answer \in ReplyTo(d) :
           /\ pending = <<>> /\ writing = <<answer>> /\ wire = <<Piece("head", answer)>>
           /\ d.op = "ATSH" => header = d.arg
           /\ d.op = "ATST" => atst = d.arg
    BY <1>0, <2>2 DEF Underway
  <2>4. answer = reply
    BY <1>1, <2>3, Tuples
  <2>6. wire' \in {<<Piece("head", answer)>>, <<Piece("head", answer), Piece("tail", answer)>>}
    BY <1>0, <1>1, <2>3, <2>4, AppendToFew
  <2>7. answer \in ReplyTo(d)'
    BY <1>0 DEF ReplyTo, d
  <2>8. d' = d
    BY <1>0 DEF d
  <2>9. Underway(script[1])'
    BY <1>0, <2>3, <2>6, <2>7, <2>8 DEF Underway, d
  <2> QED
    BY <2>1, <2>2, <2>9 DEF LinkInv, InStep
<1> QED
  BY <1>4, <1>5, <1>6, <1>7, <1>8 DEF LinkInv

LEMMA MoveKeepsLink ==
  ASSUME LinkInv, LinkMove
  PROVE  LinkInv'
BY RestKeepsLink, RestartKeepsLink, AskKeepsLink, WidenKeepsLink, RefuseKeepsLink,
   SendKeepsLink, ExchangeKeepsLink, GoneKeepsLink, TakesKeepsLink, ResumesKeepsLink,
   CarKeepsLink DEF LinkMove

-----------------------------------------------------------------------------
(* The ECUs and DIDs a run is about.                                       *)

LEMMA SequenceOfTwo == ASSUME NEW a, NEW b PROVE <<a>> \o <<b>> = <<a, b>>
<1>1. <<a>> \in Seq({a, b}) /\ <<b>> \in Seq({a, b}) /\ <<a, b>> \in Seq({a, b})
      /\ Len(<<a>>) = 1 /\ Len(<<b>>) = 1 /\ Len(<<a, b>>) = 2
      /\ <<a>>[1] = a /\ <<b>>[1] = b /\ <<a, b>>[1] = a /\ <<a, b>>[2] = b
  BY Tuples
<1> DEFINE s == <<a>>
           t == <<b>>
<1>2. s \in Seq({a, b}) /\ t \in Seq({a, b}) /\ Len(s) = 1 /\ Len(t) = 1
      /\ s[1] = a /\ t[1] = b
  BY <1>1
<1> HIDE DEF s, t
<1>3. s \o t \in Seq({a, b}) /\ Len(s \o t) = 2 /\ (s \o t)[1] = a /\ (s \o t)[2] = b
  <2>1. /\ s \o t \in Seq({a, b}) /\ Len(s \o t) = Len(s) + Len(t)
        /\ \A i \in 1..(Len(s) + Len(t)) :
              (s \o t)[i] = IF i <= Len(s) THEN s[i] ELSE t[i - Len(s)]
    BY <1>2, ConcatProperties
  <2> QED
    BY <1>2, <2>1
<1>4. \A i \in 1..2 : i = 1 \/ i = 2
  OBVIOUS
<1>5. \A i \in 1..2 : (s \o t)[i] = <<a, b>>[i]
  BY <1>1, <1>3, <1>4, Zenon
<1>6. s \o t = <<a, b>>
  BY <1>1, <1>3, <1>5, SeqEqual
<1> QED
  BY <1>6 DEF s, t

Vin == DISCOVERY_DIDS[1]
Second == DISCOVERY_DIDS[2]

LEMMA DiscoveryDids ==
  /\ DISCOVERY_DIDS = <<Vin, Second>> /\ Tail(DISCOVERY_DIDS) = <<Second>>
  /\ Elements(DISCOVERY_DIDS) = {Vin, Second}
  /\ {Vin, Second, CALIBRATION_DID} \subseteq Questions
  /\ NoDid \notin Elements(DISCOVERY_DIDS)
<1>1. DISCOVERY_DIDS = <<Vin, Second>> /\ Tail(DISCOVERY_DIDS) = <<Second>>
  BY Tuples DEF DISCOVERY_DIDS, Vin, Second
<1>2. DOMAIN DISCOVERY_DIDS = {1, 2} /\ DISCOVERY_DIDS[1] = Vin /\ DISCOVERY_DIDS[2] = Second
      /\ Vin # NoDid /\ Second # NoDid
  BY Tuples DEF DISCOVERY_DIDS, Vin, Second, NoDid
<1>3. Elements(DISCOVERY_DIDS) = {Vin, Second}
  BY <1>2 DEF Elements
<1> QED
  BY <1>1, <1>2, <1>3 DEF Questions

LEMMA DidsAsked == Elements(Dids) \subseteq Questions
BY DEF Questions

LEMMA FirstOfTodo ==
  ASSUME EcusKnown, LoopTypes, todo # {}
  PROVE  /\ Place \in DOMAIN ecus /\ Index \in DOMAIN Dids /\ <<Place, Index>> \in todo
         /\ \A item \in todo : Place <= item[1]
<1>1. todo \subseteq Nat \X Nat /\ todo \subseteq (DOMAIN ecus) \X (DOMAIN Dids)
  <2>1. DOMAIN ecus \subseteq Nat
    BY DEF EcusKnown
  <2> QED
    BY <2>1, DidPlaces DEF LoopTypes
<1> DEFINE places == {item[1] : item \in todo}
           here == {item \in todo : item[1] = Place}
           indexes == {item[2] : item \in here}
<1>2. places \subseteq Nat /\ places # {}
  BY <1>1
<1>3. Place \in places /\ \A place \in places : Place <= place
  <2> HIDE DEF places
  <2>1. Min(places) \in places /\ \A place \in places : Min(places) <= place
    BY <1>2, LeastElement
  <2> QED
    BY <2>1 DEF Place, places
<1>4. here # {} /\ indexes \subseteq Nat /\ indexes # {}
  BY <1>1, <1>3
<1>5. Index \in indexes
  <2>1. Index = Min(indexes)
    BY DEF Index
  <2> HIDE DEF indexes
  <2> QED
    BY <1>4, <2>1, LeastElement
<1>6. PICK item \in here : Index = item[2]
  BY <1>5
<1>7. item \in todo /\ item = <<Place, Index>>
  BY <1>1, <1>6
<1> QED
  BY <1>1, <1>3, <1>7

LEMMA FirstEcu ==
  ASSUME EcusKnown, LoopTypes, todo # {}, run = "sweep"
  PROVE  /\ info \in Calibrated /\ info = ecus[Place] /\ Ecu = info.ecu
         /\ Ecu \in Ecus /\ Ecu # Functional
         /\ info.live \in LiveDids /\ info.mode \in {"NRC", "TIMEOUT"}
         /\ Did \in Elements(Dids) /\ Did \in Questions /\ Did = Dids[Index]
         /\ Here = <<Ecu, Did>> /\ Here \in Pairs /\ <<Ecu, Did>> \in Pairs
         /\ Here \in Ecus \X Elements(Dids)
<1>1. Place \in DOMAIN ecus /\ Index \in DOMAIN Dids
  BY FirstOfTodo
<1>2. ecus[Place] \in Calibrated
  BY <1>1 DEF EcusKnown
<1>3. Did \in Elements(Dids)
  BY <1>1 DEF Did, Elements
<1> QED
  BY <1>2, <1>3, DidsAsked DEF info, Ecu, Calibrated, Infos, Pairs, Here, Did

LEMMA CandidatesAre ==
  ASSUME EcusKnown, LoopTypes, todo # {}, run = "sweep"
  PROVE  /\ Candidates \in {<<Did>>, <<info.live>>, <<Vin, Second>>}
         /\ Candidates = <<info.live>> => info.live \in {Vin, Second} \/ info.live = Did
         /\ purpose # "liveness" => Candidates = <<Did>>
         /\ purpose = "liveness" /\ info.live = NoDid => Candidates = <<Vin, Second>>
         /\ purpose = "liveness" /\ info.live # NoDid =>
               Candidates = <<info.live>> /\ info.live \in {Vin, Second}
         /\ \A i \in DOMAIN Candidates : <<Ecu, Candidates[i]>> \in Pairs
         /\ Candidates # <<>> /\ Head(Candidates) = Candidates[1] /\ 1 \in DOMAIN Candidates
<1>1. info.live # NoDid => info.live \in {Vin, Second}
  BY FirstEcu, DiscoveryDids DEF LiveDids
<1>2. Candidates = IF purpose # "liveness" THEN <<Did>>
                   ELSE IF info.live # NoDid THEN <<info.live>> ELSE <<Vin, Second>>
  BY DiscoveryDids DEF Candidates
<1>3. Ecu \in Ecus \ {Functional} /\ Did \in Questions /\ {Vin, Second} \subseteq Questions
  BY FirstEcu, DiscoveryDids
<1>4. CASE purpose # "liveness"
  <2>1. Candidates = <<Did>>
    BY <1>2, <1>4
  <2>2. DOMAIN Candidates = {1} /\ Candidates[1] = Did /\ Candidates # <<>>
        /\ Head(Candidates) = Did
    BY <2>1, Tuples
  <2>3. <<Did>> = <<info.live>> => info.live = Did
    BY Tuples
  <2> QED
    BY <1>3, <1>4, <2>1, <2>2, <2>3 DEF Pairs
<1>5. CASE purpose = "liveness" /\ info.live # NoDid
  <2>1. Candidates = <<info.live>>
    BY <1>2, <1>5
  <2>2. DOMAIN Candidates = {1} /\ Candidates[1] = info.live /\ Candidates # <<>>
        /\ Head(Candidates) = info.live
    BY <2>1, Tuples
  <2> QED
    BY <1>1, <1>3, <1>5, <2>1, <2>2 DEF Pairs
<1>6. CASE purpose = "liveness" /\ info.live = NoDid
  <2>1. Candidates = <<Vin, Second>>
    BY <1>2, <1>6
  <2>2. DOMAIN Candidates = {1, 2} /\ Candidates[1] = Vin /\ Candidates[2] = Second
        /\ Candidates # <<>> /\ Head(Candidates) = Vin
    BY <2>1, Tuples
  <2>3. Candidates # <<info.live>>
    BY <2>1, Tuples
  <2> QED
    BY <1>3, <1>6, <2>1, <2>2, <2>3 DEF Pairs
<1> QED
  BY <1>4, <1>5, <1>6

LEMMA NextAddress ==
  ASSUME Finding, left # {}
  PROVE  Address \in left /\ Address \in Ecus \ {Functional}
<1>1. left \subseteq Nat /\ left \subseteq Ecus \ {Functional}
  BY Constants DEF Finding, discovery_candidates, Ecus
<1> QED
  BY <1>1, LeastElement DEF Address

LEMMA FirstTry ==
  ASSUME Finding, run = "discover"
  PROVE  /\ tries = <<Vin, Second>> \/ tries = <<Second>>
         /\ Head(tries) \in {Vin, Second} /\ Head(tries) \in Questions
         /\ Head(tries) \in Elements(DISCOVERY_DIDS)
         /\ tries # <<>>
<1>1. tries = <<Vin, Second>> \/ tries = <<Second>>
  BY DiscoveryDids DEF Finding
<1>2. Head(tries) \in {Vin, Second} /\ tries # <<>>
  BY <1>1, Tuples
<1> QED
  BY <1>1, <1>2, DiscoveryDids

LEMMA NextUncertain ==
  ASSUME ecus \in Seq(Known), Uncalibrated # {}
  PROVE  Uncertain \in DOMAIN ecus /\ ~ecus[Uncertain].calibrated
         /\ ecus[Uncertain] \in Known /\ ecus[Uncertain].ecu \in Ecus
<1>1. Uncalibrated \subseteq Nat
  BY DEF Uncalibrated
<1>2. Uncertain \in Uncalibrated
  BY <1>1, LeastElement DEF Uncertain
<1> QED
  BY <1>2 DEF Uncalibrated, Known, Infos

LEMMA SendDidAsks ==
  ASSUME NEW why, NEW ecu, NEW did, <<ecu, did>> \in Pairs, SendDid(why, ecu, did),
         run # "off", run' # "off", doing = "none"
  PROVE  /\ AskFor(why, <<ecu, did>>)
         /\ script'[Len(script')] = Read(ecu, did) /\ result' = Stalled /\ doing' = why
         /\ \/ script' = <<Read(ecu, did)>> 
            \/ script' = <<ATSH(ecu), Read(ecu, did)>>
<1>1. <<ecu, did>>[1] = ecu /\ <<ecu, did>>[2] = did
  OBVIOUS
<1>2. script' = IF cached = ecu THEN <<Read(ecu, did)>> ELSE <<ATSH(ecu), Read(ecu, did)>>
  <2>1. CASE cached = ecu
    <3>1. <<>> \o <<Read(ecu, did)>> = <<Read(ecu, did)>>
      OBVIOUS
    <3> QED
      BY <2>1, <3>1 DEF SendDid
  <2>2. CASE cached # ecu
    <3>1. <<ATSH(ecu)>> \o <<Read(ecu, did)>> = <<ATSH(ecu), Read(ecu, did)>>
      BY SequenceOfTwo
    <3> QED
      BY <2>2, <3>1 DEF SendDid
  <2> QED
    BY <2>1, <2>2
<1>3. /\ doing' = why /\ result' = Stalled /\ UNCHANGED OnHand
  BY DEF SendDid, OnHand, boardVars, carVars
<1>4. script'[Len(script')] = Read(ecu, did)
  <2>1. CASE cached = ecu
    BY <1>2, <2>1, Tuples
  <2>2. CASE cached # ecu
    BY <1>2, <2>2, Tuples
  <2> QED
    BY <2>1, <2>2
<1> QED
  BY <1>1, <1>2, <1>3, <1>4 DEF AskFor, Begin

LEMMA SetDeadlineWidens ==
  ASSUME NEW which, SetDeadline(which), run # "off", run' # "off", doing = "none"
  PROVE  Widen(which)
BY DEF SetDeadline, Widen, Begin, OnHand, boardVars, carVars

LEMMA UnchangedRests ==
  ASSUME UNCHANGED linkVars, run # "off", run' # "off"
  PROVE  Rest /\ UNCHANGED deadline
BY DEF linkVars, hostVars, boardVars, carVars, Rest, OnHand

-----------------------------------------------------------------------------
(* Every step of the scanner is one of these moves.                        *)

Scanner == RunTypes /\ Placed /\ EcusKnown /\ Finding /\ LoopTypes /\ LogTypes

LEMMA OverGoes ==
  ASSUME LinkInv, run # "off", RunOver
  PROVE  LinkMove
<1>1. Gone /\ deadline' \in Deadlines
  BY DEF RunOver, HostGone, Gone, Deadlines
<1> QED
  BY <1>1 DEF LinkMove

LEMMA RestMoves ==
  ASSUME LinkInv, UNCHANGED linkVars, run # "off", run' # "off"
  PROVE  LinkMove
<1>1. Rest /\ deadline' \in Deadlines
  BY UnchangedRests DEF LinkInv, LinkTypes
<1> QED
  BY <1>1 DEF LinkMove

LEMMA WidenMoves ==
  ASSUME LinkInv, NEW which \in Deadlines, SetDeadline(which), run # "off", run' # "off",
         doing = "none", deadline' \in Deadlines
  PROVE  LinkMove
BY SetDeadlineWidens DEF LinkMove

LEMMA AskMoves ==
  ASSUME LinkInv, NEW why \in {"ask", "probe"}, NEW ecu, NEW did, <<ecu, did>> \in Pairs,
         SendDid(why, ecu, did), run # "off", run' # "off", doing = "none",
         deadline' \in Deadlines
  PROVE  LinkMove
BY SendDidAsks DEF LinkMove

LEMMA StartMoves ==
  ASSUME LinkInv, Scanner, Start
  PROVE  LinkMove
<1>1. deadline \in Deadlines /\ {"Sweep", "Generous"} \subseteq Deadlines
  BY DEF LinkInv, LinkTypes, Deadlines
<1>2. ASSUME NEW resume \in BOOLEAN, NEW narrowing \in Narrowings, ReadLog(resume, narrowing)
      PROVE  LinkMove
  <2>1. run # "off" /\ run' # "off" /\ doing = "none"
        /\ (UNCHANGED linkVars \/ (SetDeadline("Generous") /\ UNCHANGED deadline))
    BY <1>2 DEF ReadLog, AtReadTimeout
  <2> QED
    BY <1>1, <2>1, RestMoves, WidenMoves
<1>3. CASE AskAddress
  <2>1. Address # Functional /\ <<Address, Head(tries)>> \in Pairs
    BY <1>3, NextAddress, FirstTry DEF AskAddress, Scanner, Pairs
  <2>2. SendDid("ask", Address, Head(tries)) /\ run # "off" /\ run' # "off" /\ doing = "none"
        /\ deadline' = deadline
    BY <1>3, <2>1 DEF AskAddress, Ask
  <2> QED
    BY <1>1, <2>1, <2>2, AskMoves
<1>4. CASE Hear
  BY <1>4, RestMoves DEF Hear
<1>5. CASE Discovered
  BY <1>1, <1>5, WidenMoves DEF Discovered
<1>6. CASE AskMiss
  <2> DEFINE ecu == ecus[Uncertain].ecu
  <2>1. ecu \in Ecus /\ run # "off" /\ run' # "off" /\ doing = "none"
    BY <1>6, NextUncertain DEF AskMiss, Scanner, EcusKnown
  <2>2. deadline' = deadline
    BY <1>6 DEF AskMiss, Ask
  <2>3. CASE ecu # Functional
    <3>1. SendDid("ask", ecu, CALIBRATION_DID)
      BY <1>6, <2>3 DEF AskMiss, Ask
    <3>2. <<ecu, CALIBRATION_DID>> \in Pairs
      BY <2>1, <2>3, DiscoveryDids DEF Pairs
    <3> QED
      BY <1>1, <2>1, <2>2, <3>1, <3>2, AskMoves
  <2>4. CASE ecu = Functional
    <3>1. Refuse
      BY <1>6, <2>1, <2>4 DEF AskMiss, Ask, Refuse, OnHand, boardVars, carVars
    <3> QED
      BY <1>1, <2>2, <3>1 DEF LinkMove
  <2> QED
    BY <2>3, <2>4
<1>7. CASE Calibrate
  BY <1>7, RestMoves DEF Calibrate
<1>8. CASE NobodyThere
  BY <1>8, OverGoes DEF NobodyThere
<1>9. CASE OpenLog
  BY <1>9, RestMoves DEF OpenLog
<1>10. CASE WriteRow
  BY <1>10, RestMoves DEF WriteRow
<1> QED
  BY <1>2, <1>3, <1>4, <1>5, <1>6, <1>7, <1>8, <1>9, <1>10 DEF Start

\* One of the loop's own reads.
LEMMA ProbeMoves ==
  ASSUME LinkInv, NEW ecu, NEW did, <<ecu, did>> \in Pairs, Probe(ecu, did),
         run = "sweep", run' = run, doing = "none", deadline' \in Deadlines
  PROVE  LinkMove
BY AskMoves DEF Probe

LEMMA BlockMoves ==
  ASSUME LinkInv, NEW why, OpenBlock(why), run = "sweep", run' = run, doing = "none"
  PROVE  LinkMove
<1>1. SetDeadline("Generous") /\ deadline' = deadline
  BY DEF OpenBlock
<1>2. deadline \in Deadlines /\ "Generous" \in Deadlines
  BY DEF LinkInv, LinkTypes, Deadlines
<1> QED
  BY <1>1, <1>2, WidenMoves

LEMMA GoOnMoves ==
  ASSUME LinkInv, NEW where, GoOn(where), run = "sweep", run' = run
  PROVE  LinkMove
BY RestMoves DEF GoOn

LEMMA LeftOfCandidates ==
  ASSUME EcusKnown, LoopTypes, stage = "inside", run = "sweep", cur.left # <<>>
  PROVE  /\ Candidates = <<Vin, Second>> /\ cur.left = <<Second>>
         /\ purpose = "liveness" /\ info.live = NoDid /\ todo # {}
         /\ <<Ecu, Head(cur.left)>> \in Pairs
<1>1. todo # {} /\ purpose = "liveness" /\ info.live = NoDid
      /\ cur.left = Tail(DISCOVERY_DIDS)
  BY DEF LoopTypes
<1>2. Candidates = <<Vin, Second>> /\ cur.left = <<Second>>
  BY <1>1, CandidatesAre, DiscoveryDids
<1>3. <<Ecu, Candidates[2]>> \in Pairs
  <2>1. \A i \in DOMAIN Candidates : <<Ecu, Candidates[i]>> \in Pairs
    BY <1>1, CandidatesAre
  <2> QED
    BY <1>2, <2>1, Tuples
<1>4. Candidates[2] = Second /\ Head(cur.left) = Second
  BY <1>2, Tuples
<1>5. <<Ecu, Head(cur.left)>> \in Pairs
  BY <1>3, <1>4, Zenon
<1> QED
  BY <1>1, <1>2, <1>5

LEMMA LoopMoves ==
  ASSUME LinkInv, Scanner, Loop
  PROVE  LinkMove
<1>0. run = "sweep" /\ run' = run /\ doing = "none" /\ run # "off"
      /\ deadline \in Deadlines /\ {"Sweep", "Generous"} \subseteq Deadlines
  BY DEF Loop, runVars, LinkInv, LinkTypes, Deadlines
<1>1. CASE FirstProbe
  <2>1. <<Ecu, Did>> \in Pairs
    BY <1>0, <1>1, FirstEcu DEF FirstProbe, Scanner
  <2> QED
    BY <1>0, <1>1, <2>1, ProbeMoves DEF FirstProbe
<1>2. CASE Retry
  <2>1. <<Ecu, Did>> \in Pairs
    BY <1>0, <1>2, FirstEcu DEF Retry, Scanner, LoopTypes
  <2> QED
    BY <1>0, <1>2, <2>1, ProbeMoves DEF Retry
<1>3. CASE LastAttempt
  BY <1>0, <1>3, BlockMoves, GoOnMoves DEF LastAttempt
<1>4. CASE EnterBlock
  <2>1. todo # {} /\ EcusKnown /\ LoopTypes
    BY <1>4 DEF EnterBlock, Scanner, LoopTypes
  <2>2. <<Ecu, Head(Candidates)>> \in Pairs
    BY <1>0, <2>1, CandidatesAre
  <2> QED
    BY <1>0, <1>4, <2>2, ProbeMoves DEF EnterBlock
<1>5. CASE NextCandidate
  <2>1. <<Ecu, Head(cur.left)>> \in Pairs
    BY <1>0, <1>5, LeftOfCandidates DEF NextCandidate, Scanner
  <2> QED
    BY <1>0, <1>5, <2>1, ProbeMoves DEF NextCandidate
<1>6. CASE LeaveBlock
  <2>1. SetDeadline("Sweep") /\ deadline' \in Deadlines
    BY <1>0, <1>6 DEF LeaveBlock
  <2> QED
    BY <1>0, <2>1, WidenMoves
<1>7. CASE ErrorReread
  BY <1>0, <1>7, GoOnMoves DEF ErrorReread
<1>8. CASE Count
  BY <1>0, <1>8, GoOnMoves DEF Count
<1>9. CASE SecondLook
  BY <1>0, <1>9, BlockMoves, GoOnMoves DEF SecondLook
<1>10. CASE SilenceReread
  BY <1>0, <1>10, GoOnMoves DEF SilenceReread
<1>11. CASE SleepCheck
  BY <1>0, <1>11, BlockMoves, GoOnMoves DEF SleepCheck
<1>12. CASE Alive
  BY <1>0, <1>12, GoOnMoves DEF Alive
<1>13. CASE Confirm
  BY <1>0, <1>13, BlockMoves, GoOnMoves DEF Confirm
<1>14. CASE Confirmed
  BY <1>0, <1>14, GoOnMoves DEF Confirmed
<1>15. CASE Record
  BY <1>0, <1>15, RestMoves DEF Record
<1> QED
  BY <1>1, <1>2, <1>3, <1>4, <1>5, <1>6, <1>7, <1>8, <1>9, <1>10, <1>11, <1>12, <1>13,
     <1>14, <1>15 DEF Loop

LEMMA NextMoves ==
  ASSUME LinkInv, Scanner, Next
  PROVE  LinkMove
<1>0. deadline \in Deadlines /\ "Sweep" \in Deadlines
  BY DEF LinkInv, LinkTypes, Deadlines
<1>1. CASE StartRun
  <2>1. Restart /\ deadline' = deadline
    BY <1>1 DEF StartRun, Restart
  <2> QED
    BY <1>0, <2>1 DEF LinkMove
<1>2. CASE Start
  BY <1>2, StartMoves
<1>3. CASE BeginSweep
  BY <1>3, RestMoves DEF BeginSweep
<1>4. CASE Exchange
  <2>1. run' = run
    BY <1>4 DEF Exchange, runVars
  <2>2. InBlock \in BOOLEAN
    BY DEF InBlock
  <2>3. deadline' = deadline
    BY <1>4 DEF Exchange, Send, Receive, TimeOut
  <2> QED
    BY <1>0, <1>4, <2>1, <2>2, <2>3 DEF Exchange, LinkMove
<1>5. CASE Loop
  BY <1>5, LoopMoves
<1>6. CASE TooManyErrors \/ Asleep \/ Finish \/ Fail \/ Kill
  <2>1. run # "off" /\ RunOver
    BY <1>6 DEF TooManyErrors, Asleep, Finish, Fail, Kill, Over
  <2> QED
    BY <2>1, OverGoes
<1>7. CASE Board
  <2>1. run' = run /\ deadline' = deadline
    BY <1>7 DEF Board, runVars, BoardTakes, BoardResumes
  <2> QED
    BY <1>0, <1>7, <2>1 DEF Board, LinkMove
<1>8. CASE Car
  <2>1. run' = run /\ deadline' = deadline
    BY <1>8 DEF Car, runVars, CarSleepsOrWakes, hostVars
  <2> QED
    BY <1>0, <1>8, <2>1 DEF Car, LinkMove
<1> QED
  BY <1>1, <1>2, <1>3, <1>4, <1>5, <1>6, <1>7, <1>8 DEF Next, Process

-----------------------------------------------------------------------------
(* What an exchange, the board or the car may do to the rest.              *)

Continues == /\ doing' = doing /\ result' = result
             /\ doing \in {"ask", "probe"} => Last(script)' = Last(script)
Recovers == doing = "probe" /\ doing' = "recover" /\ result' = Stalled /\ Aim' = deadline
Finishes == /\ doing \notin {"none", "ask", "probe"} /\ doing' = "none"
            /\ result' = Stalled
Reports == /\ doing \in {"ask", "probe"} /\ doing' = "none"
           /\ \E pair \in Pairs, s \in Status :
                 /\ Last(script) = Read(pair[1], pair[2])
                 /\ s \in Truth(pair[1], pair[2], atst) \/ asleep
                 /\ result' = [status |-> s, atst |-> atst, fresh |-> TRUE]
           /\ Aim = atst
Trip == /\ UNCHANGED <<runVars, sweepVars, log, deadline>>
        /\ run # "off" /\ asleep => asleep'
        /\ Lost' = Lost
        /\ Continues \/ Recovers \/ Finishes \/ Reports
        /\ ~Lost => Aim' = Aim \/ Recovers

\* An error that nothing catches.
Falls == /\ run # "off" /\ doing # "none" /\ doing' \in {"unwind", "failed"}
         /\ LoopReset /\ result' = result
         /\ UNCHANGED <<runVars, log, deadline, asleep>>

LEMMA FewLast ==
  ASSUME NEW s, (\E a : s = <<a>>) \/ (\E a, b : s = <<a, b>>) \/ (\E a, b, c : s = <<a, b, c>>)
  PROVE  /\ Tail(s) # <<>> => Last(Tail(s)) = Last(s)
         /\ Tail(s) = <<>> => s = <<s[1]>> /\ Last(s) = s[1]
<1>1. \A a, b, c : /\ Last(<<a>>) = a /\ Last(<<a, b>>) = b /\ Last(<<a, b, c>>) = c
                   /\ Last(Tail(<<a, b>>)) = b /\ Last(Tail(<<a, b, c>>)) = c
  BY Tuples DEF Last
<1>2. CASE \E a : s = <<a>>
  <2>1. PICK a : s = <<a>>
    BY <1>2
  <2>2. Tail(s) = <<>> /\ s[1] = a /\ Last(s) = a
    BY <1>1, <2>1, Tuples
  <2> QED
    BY <2>1, <2>2
<1>3. CASE \E a, b : s = <<a, b>>
  <2>1. PICK a, b : s = <<a, b>>
    BY <1>3
  <2>2. Tail(s) # <<>> /\ Last(Tail(s)) = b /\ Last(s) = b
    BY <1>1, <2>1, Tuples
  <2> QED
    BY <2>2
<1>4. CASE \E a, b, c : s = <<a, b, c>>
  <2>1. PICK a, b, c : s = <<a, b, c>>
    BY <1>4
  <2>2. Tail(s) # <<>> /\ Last(Tail(s)) = c /\ Last(s) = c
    BY <1>1, <2>1, Tuples
  <2> QED
    BY <2>2
<1> QED
  BY <1>2, <1>3, <1>4

LEMMA ScriptEnd ==
  ASSUME LinkTypes, Scripted, script # <<>>
  PROVE  /\ Tail(script) # <<>> => Last(Tail(script)) = Last(script)
         /\ Tail(script) = <<>> => script = <<script[1]>> /\ Last(script) = script[1]
         /\ doing \in {"init", "recover"} => Last(script).op = "ATST"
<1>1. doing \in {"init", "recover", "deadline", "unwind", "ask", "probe"}
  BY DEF Scripted, LinkTypes
<1>2. \/ \E a : script = <<a>>
      \/ \E a, b : script = <<a, b>>
      \/ \E a, b, c : script = <<a, b, c>>
  BY <1>1 DEF Scripted, Resets
<1>3. ASSUME doing \in {"init", "recover"}
      PROVE  Last(script).op = "ATST"
  <2>1. PICK which \in Deadlines : script \in Resets(which)
    BY <1>3 DEF Scripted
  <2>2. Last(script) = ATST(which)
    BY <2>1, Tuples DEF Resets, Last
  <2> QED
    BY <2>2, CommandParts
<1> QED
  BY <1>2, <1>3, FewLast

LEMMA FallOfLosing ==
  ASSUME LinkInv, LoseHold, LoopReset, UNCHANGED <<runVars, log, deadline>>
  PROVE  Falls
<1>1. run # "off"
  BY DEF LoseHold, LinkInv, Scripted
<1> QED
  BY <1>1 DEF Falls, LoseHold, carVars

LEMMA TripOfProgress ==
  ASSUME LinkInv, waiting, Progress, UNCHANGED <<runVars, sweepVars, log, deadline>>
  PROVE  Trip
<1> DEFINE c == script[1]
<1>0. /\ LinkTypes /\ Scripted /\ script # <<>> /\ run # "off"
      /\ doing \notin {"none", "unwind", "failed"} /\ result = Stalled
  BY DEF Progress, LinkInv, Scripted, Lost
<1>1. /\ script' = Tail(script) /\ ~Lost /\ run' = run /\ asleep' = asleep /\ atst' = atst
      /\ doing' = IF Tail(script) # <<>> THEN doing ELSE "none"
      /\ Outcome(c)
  BY DEF Progress, carVars, boardVars, runVars
<1>2. Lost' = Lost
  BY <1>0, <1>1 DEF Lost
<1>3. /\ Tail(script) # <<>> => Last(Tail(script)) = Last(script)
      /\ Tail(script) = <<>> => Last(script) = c
      /\ c.op = "ATST" => atst = c.arg
      /\ Tail(script) = <<>> => c.op \in {"ATST", "Read"}
  BY <1>0, <1>1, ScriptEnd, ScriptHead DEF Outcome
<1>4. Aim' = Aim
  <2>1. CASE Tail(script) # <<>>
    <3>1. script' # <<>> /\ script'[Len(script')] = script[Len(script)]
      BY <1>1, <1>3, <2>1 DEF Last
    <3> QED
      BY <1>0, <1>1, <3>1 DEF Aim
  <2>2. CASE Tail(script) = <<>>
    <3>1. script' = <<>> /\ script[Len(script)] = c
      BY <1>1, <1>3, <2>2 DEF Last
    <3> QED
      BY <1>0, <1>1, <1>3, <3>1 DEF Aim
  <2> QED
    BY <2>1, <2>2
<1>5. Continues \/ Finishes \/ Reports
  <2>1. CASE Tail(script) # <<>>
    <3>1. c.op # "Read"
      BY <1>0, <2>1, ScriptForms, CommandParts
    <3>2. result' = result
      BY <1>0, <1>1, <3>1 DEF Outcome
    <3>3. Last(script)' = Last(script)
      BY <1>1, <1>3, <2>1 DEF Last
    <3> QED
      BY <1>1, <2>1, <3>2, <3>3 DEF Continues
  <2>2. CASE Tail(script) = <<>> /\ c.op = "ATST"
    <3>1. doing \notin {"ask", "probe"}
      BY <1>0, <2>2, ScriptHead
    <3>2. result' = Stalled
      BY <1>1, <2>2 DEF Outcome
    <3> QED
      BY <1>0, <1>1, <2>2, <3>1, <3>2 DEF Finishes
  <2>3. CASE Tail(script) = <<>> /\ c.op = "Read"
    <3>1. doing \in {"ask", "probe"} /\ c.arg \in Pairs
      BY <1>0, <2>3, ScriptHead
    <3>2. PICK s \in Answers(c.arg, atst, FALSE)
                   \cup IF asleep THEN Answers(c.arg, atst, TRUE) ELSE {} :
             result' = [status |-> s, atst |-> atst, fresh |-> TRUE]
      BY <1>1, <2>3 DEF Outcome
    <3>3. s \in Status
      BY <1>0, <3>1, <3>2, AnswersAre
    <3>4. s \in Answers(c.arg, atst, FALSE) \/ asleep
      BY <3>2
    <3>5. PICK pair \in Pairs : c = Read(pair[1], pair[2])
      BY <1>0, <3>1, <2>3, ScriptForms, CommandParts
    <3>6. c.arg = <<pair[1], pair[2]>>
      BY <3>5, CommandParts
    <3>7. s \in Truth(pair[1], pair[2], atst) \/ asleep
      BY <3>4, <3>6, Zenon DEF Truth
    <3>8. Last(script) = Read(pair[1], pair[2])
      BY <1>3, <2>3, <3>5
    <3>9. Aim = atst
      BY <1>3, <2>3, Zenon DEF Aim, Last
    <3> QED
      BY <1>1, <2>3, <3>1, <3>2, <3>3, <3>7, <3>8, <3>9 DEF Reports
  <2> QED
    BY <1>3, <2>1, <2>2, <2>3
<1> QED
  BY <1>1, <1>2, <1>4, <1>5 DEF Trip

LEMMA TripOfBanner ==
  ASSUME LinkInv, waiting, PastBanner, UNCHANGED <<runVars, sweepVars, log, deadline>>
  PROVE  Trip
<1>0. /\ LinkTypes /\ Scripted /\ script # <<>> /\ doing \in {"init", "recover"}
      /\ result = Stalled /\ script' = Tail(script) /\ doing' = doing /\ result' = Stalled
      /\ atst' = atst /\ asleep' = asleep /\ run' = run /\ Resetting
  BY DEF PastBanner, LinkInv, Scripted, Resetting, boardVars, carVars, runVars
<1>1. script[1].op = "ATZ"
  BY <1>0 DEF Resetting
<1>2. Tail(script) # <<>>
  BY <1>0, <1>1, ScriptHead
<1>3. script'[Len(script')] = script[Len(script)]
  BY <1>0, <1>2, ScriptEnd DEF Last
<1>4. Aim' = Aim
  BY <1>0, <1>2, <1>3 DEF Aim
<1>5. Lost' = Lost
  BY <1>0 DEF Lost
<1>6. Continues
  BY <1>0 DEF Continues
<1> QED
  BY <1>0, <1>4, <1>5, <1>6 DEF Trip

LEMMA TripOfRecovery ==
  ASSUME LinkInv, Recovering, UNCHANGED <<runVars, sweepVars, log, deadline>>
  PROVE  Trip
<1>0. /\ doing = "probe" /\ doing' = "recover" /\ result' = result /\ result = Stalled
      /\ script' = <<ATZ, Quieten, ATST(deadline)>> /\ asleep' = asleep /\ run' = run
  BY DEF Recovering, Recover, Initialise, InitScript, LinkInv, Scripted, carVars, runVars
<1>1. script' # <<>> /\ script'[Len(script')] = ATST(deadline)
  BY <1>0, Tuples
<1>2. Aim' = deadline
  BY <1>1, CommandParts DEF Aim
<1>3. Lost' = Lost
  BY <1>0 DEF Lost
<1>4. Recovers
  BY <1>0, <1>2 DEF Recovers
<1> QED
  BY <1>0, <1>3, <1>4 DEF Trip

LEMMA ExchangeTrips ==
  ASSUME LinkInv, Exchange
  PROVE  Trip \/ Falls
<1>1. UNCHANGED <<runVars, log>>
      /\ (doing' \in {"unwind", "failed"} => LoopReset)
      /\ (doing' \notin {"unwind", "failed"} => UNCHANGED sweepVars)
  BY DEF Exchange
<1>2. CASE Send
  <2>1. UNCHANGED <<script, doing, result, atst, asleep, deadline>> /\ script # <<>>
    BY <1>2 DEF Send, carVars
  <2>2. run # "off" /\ run' = run /\ doing # "none"
    BY <1>1, <2>1 DEF LinkInv, Scripted, runVars
  <2>3. CASE doing \in {"unwind", "failed"}
    BY <1>1, <2>1, <2>2, <2>3 DEF Falls
  <2>4. CASE doing \notin {"unwind", "failed"}
    <3>1. Aim' = Aim /\ Lost' = Lost /\ Continues
      BY <2>1, <2>2 DEF Aim, Lost, Continues, Last
    <3> QED
      BY <1>1, <2>1, <2>4, <3>1 DEF Trip
  <2> QED
    BY <2>3, <2>4
<1>3. CASE Receive(InBlock) \/ TimeOut(InBlock)
  <2>1. waiting /\ deadline' = deadline /\ InBlock \in BOOLEAN
    BY <1>3 DEF Receive, TimeOut, InBlock
  <2>2. LoseHold \/ PastBanner \/ Progress \/ Recovering
    BY <1>3, <2>1, ReceiveDoes, TimeOutDoes
  <2>3. CASE LoseHold
    BY <1>1, <2>1, <2>3, FallOfLosing DEF LoseHold
  <2>4. CASE PastBanner
    <3>1. doing' \notin {"unwind", "failed"}
      BY <2>4 DEF PastBanner, Lost
    <3> QED
      BY <1>1, <2>1, <2>4, <3>1, TripOfBanner
  <2>5. CASE Progress
    <3>1. doing' \notin {"unwind", "failed"}
      BY <2>5 DEF Progress, Lost
    <3> QED
      BY <1>1, <2>1, <2>5, <3>1, TripOfProgress
  <2>6. CASE Recovering
    <3>1. doing' \notin {"unwind", "failed"}
      BY <2>6 DEF Recovering, Recover, Initialise
    <3> QED
      BY <1>1, <2>1, <2>6, <3>1, TripOfRecovery
  <2> QED
    BY <2>2, <2>3, <2>4, <2>5, <2>6
<1> QED
  BY <1>2, <1>3 DEF Exchange

LEMMA BoardTrips ==
  ASSUME LinkInv, Board
  PROVE  Trip
<1>1. UNCHANGED <<runVars, sweepVars, log, script, doing, result, asleep, deadline>>
  BY DEF Board, BoardTakes, BoardResumes, carVars
<1>2. Lost' = Lost /\ Continues
  BY <1>1 DEF Lost, Continues, Last, runVars
<1>3. ~Lost => Aim' = Aim
  <2>1. CASE BoardResumes(run # "off")
    BY <1>1, <2>1 DEF BoardResumes, Aim
  <2>2. CASE BoardTakes(run # "off") /\ ~Lost /\ ~Resetting
    <3> DEFINE c == script[1]
    <3>1. pending # <<>> /\ writing = <<>>
      BY <2>2 DEF BoardTakes
    <3>2. waiting /\ Underway(c) /\ script # <<>> /\ LinkTypes /\ Scripted
      BY <2>2, <3>1 DEF LinkInv, InStep, Scripted
    <3>3. c.op # "ATZ" /\ (Tail(script) = <<>> => c.op \in {"ATST", "Read"})
      BY <2>2, <3>2, ScriptHead
    <3> HIDE DEF c
    <3>4. pending = <<[op |-> c.op, arg |-> c.arg, fresh |-> TRUE]>>
      BY <3>1, <3>2 DEF Underway
    <3>5. Head(pending).op = c.op /\ Head(pending).arg = c.arg
      BY <3>4, Tuples
    <3>6. atst' = IF c.op = "ATST" THEN c.arg ELSE atst
      BY <2>2, <3>3, <3>5 DEF BoardTakes
    <3>7. c.op = "ATST" => Tail(script) = <<>> /\ Last(script) = c
      <4>1. c.op = "ATST" => Tail(script) = <<>>
        BY <3>2, ScriptForms, CommandParts DEF c
      <4> QED
        BY <3>2, <4>1, ScriptEnd DEF c
    <3> QED
      BY <1>1, <3>2, <3>6, <3>7 DEF Aim, Last
  <2>3. CASE Resetting /\ ~Lost
    <3>1. script # <<>> /\ script[Len(script)].op = "ATST"
      <4>1. Scripted /\ doing \in {"init", "recover"} /\ LinkTypes
        BY <2>3 DEF LinkInv, Resetting
      <4>2. script # <<>>
        BY <4>1, Tuples DEF Scripted, Resets
      <4> QED
        BY <4>1, <4>2, ScriptEnd DEF Last
    <3> QED
      BY <1>1, <3>1 DEF Aim
  <2> QED
    BY <2>1, <2>2, <2>3 DEF Board
<1> QED
  BY <1>1, <1>2, <1>3 DEF Trip

LEMMA CarTrips ==
  ASSUME LinkInv, Car
  PROVE  Trip
<1>1. /\ UNCHANGED <<runVars, sweepVars, log, script, doing, result, atst, deadline>>
      /\ asleep' = (run # "off")
  BY DEF Car, CarSleepsOrWakes, boardVars, hostVars
<1>2. Lost' = Lost /\ Continues /\ Aim' = Aim
  BY <1>1 DEF Lost, Continues, Last, runVars, Aim
<1> QED
  BY <1>1, <1>2 DEF Trip

-----------------------------------------------------------------------------
(* The steps, by what they may change.                                     *)

Ends == /\ run # "off" /\ RunOver /\ LoopReset
        /\ \/ log' = log
           \/ run = "sweep" /\ Write(EndRow)
           \/ run = "sweep" /\ stage # "next" /\ Write(DidRow(Here, cur.reply.status))
           \/ \E row \in InFlight : Cut(row)
Before == \/ StartRun
          \/ \E resume \in BOOLEAN, narrowing \in Narrowings : ReadLog(resume, narrowing)
          \/ AskAddress \/ Hear \/ Discovered
          \/ AskMiss \/ Calibrate \/ OpenLog \/ WriteRow

LEMMA Steps ==
  ASSUME LinkInv, Scanner, Next
  PROVE  \/ Before /\ UNCHANGED sweepVars
         \/ BeginSweep \/ Loop \/ Trip \/ Falls \/ Ends
<1>1. CASE NobodyThere /\ UNCHANGED sweepVars
  <2>1. Idle
    BY <1>1 DEF NobodyThere, Scanner, Placed
  <2>2. LoopReset
    BY <1>1, <2>1 DEF Idle, LoopReset, sweepVars
  <2> QED
    BY <1>1, <2>2 DEF NobodyThere, Ends
<1>2. CASE TooManyErrors \/ Asleep \/ Finish \/ Fail \/ Kill
  BY <1>2 DEF TooManyErrors, Asleep, Finish, Fail, Kill, Over, Ends
<1>3. CASE Exchange \/ Board \/ Car
  BY <1>3, ExchangeTrips, BoardTrips, CarTrips
<1> QED
  BY <1>1, <1>2, <1>3 DEF Next, Process, Start, Before

\* An operation that a step begins, or none.
Still == UNCHANGED <<doing, script, result, atst, asleep, deadline>>
Asks(why, ecu, did) ==
    /\ doing' = why /\ result' = Stalled /\ Last(script)' = Read(ecu, did)
    /\ Aim' = atst /\ asleep' = asleep
Sets(which) == doing' = "deadline" /\ result' = Stalled /\ Aim' = which /\ asleep' = asleep

LEMMA StillAims == ASSUME Still PROVE Aim' = Aim
BY DEF Still, Aim

LEMMA StillOfLink == ASSUME UNCHANGED linkVars PROVE Still
BY DEF Still, linkVars, boardVars, carVars, hostVars

LEMMA IdleAims == ASSUME LinkInv, doing = "none" PROVE Aim = atst
BY DEF LinkInv, Scripted, Aim

LEMMA SendDidDoes ==
  ASSUME NEW why, NEW ecu, NEW did, <<ecu, did>> \in Pairs, SendDid(why, ecu, did),
         run # "off", run' # "off", doing = "none"
  PROVE  Asks(why, ecu, did)
<1>1. /\ script'[Len(script')] = Read(ecu, did) /\ result' = Stalled /\ doing' = why
      /\ atst' = atst /\ asleep' = asleep
  BY SendDidAsks DEF SendDid, boardVars, carVars
<1>2. Aim' = atst
  BY <1>1, CommandParts DEF Aim
<1> QED
  BY <1>1, <1>2 DEF Asks, Last

LEMMA SetDeadlineDoes ==
  ASSUME NEW which, SetDeadline(which)
  PROVE  Sets(which)
<1>1. script' # <<>> /\ script'[Len(script')] = ATST(which)
  BY Tuples DEF SetDeadline
<1>2. Aim' = which
  BY <1>1, CommandParts DEF Aim
<1> QED
  BY <1>2 DEF SetDeadline, Sets, carVars

\* The loop's steps, by the part of its state that they change.
Probes(did) == /\ Asks("probe", Ecu, did) /\ <<Ecu, did>> \in Pairs
               /\ UNCHANGED <<todo, purpose, errors, silence, log>>
Opens(why) == /\ Sets("Generous") /\ UNCHANGED <<deadline, todo, log>>
              /\ stage' = "open" /\ purpose' = why
Goes(where) == /\ Still /\ stage' = where /\ UNCHANGED <<todo, purpose, log>>

LoopStep ==
    \/ FirstProbe /\ Probes(Did) /\ UNCHANGED deadline
    \/ Retry /\ Probes(Did) /\ UNCHANGED deadline
    \/ LastAttempt /\ (Opens("error") \/ Goes("count"))
    \/ EnterBlock /\ Probes(Head(Candidates))
    \/ NextCandidate /\ Probes(Head(cur.left)) /\ UNCHANGED deadline
    \/ LeaveBlock /\ Sets("Sweep")
    \/ ErrorReread /\ Goes("count")
    \/ Count /\ Goes("quiet")
    \/ SecondLook /\ (Opens("silence") \/ Goes("sleep"))
    \/ SilenceReread /\ Goes("sleep")
    \/ SleepCheck /\ (Opens("liveness") \/ Goes("confirm"))
    \/ Alive /\ Goes("confirm")
    \/ Confirm /\ (Opens("confirm") \/ Goes("record"))
    \/ Confirmed /\ Goes("record")
    \/ Record /\ Still

LEMMA GoOnDoes ==
  ASSUME NEW where, GoOn(where), UNCHANGED log
  PROVE  Goes(where)
BY StillOfLink DEF GoOn, Goes

LEMMA OpenBlockDoes ==
  ASSUME NEW why, OpenBlock(why), UNCHANGED log
  PROVE  Opens(why)
BY SetDeadlineDoes DEF OpenBlock, Opens

LEMMA LoopSteps ==
  ASSUME LinkInv, Scanner, Loop
  PROVE  LoopStep /\ UNCHANGED runVars /\ run = "sweep" /\ run' = "sweep" /\ doing = "none"
<1>0. run = "sweep" /\ run' = run /\ doing = "none" /\ run # "off" /\ UNCHANGED runVars
  BY DEF Loop, runVars
<1>1. CASE FirstProbe
  <2>1. <<Ecu, Did>> \in Pairs
    BY <1>0, <1>1, FirstEcu DEF FirstProbe, Scanner
  <2>2. Asks("probe", Ecu, Did)
    BY <1>0, <1>1, <2>1, SendDidDoes DEF FirstProbe, Probe
  <2> QED
    BY <1>0, <1>1, <2>1, <2>2 DEF FirstProbe, Probes, LoopStep
<1>2. CASE Retry
  <2>1. <<Ecu, Did>> \in Pairs
    BY <1>0, <1>2, FirstEcu DEF Retry, Scanner, LoopTypes
  <2>2. Asks("probe", Ecu, Did)
    BY <1>0, <1>2, <2>1, SendDidDoes DEF Retry, Probe
  <2> QED
    BY <1>0, <1>2, <2>1, <2>2 DEF Retry, Probes, LoopStep
<1>3. CASE LastAttempt
  BY <1>0, <1>3, OpenBlockDoes, GoOnDoes DEF LastAttempt, LoopStep
<1>4. CASE EnterBlock
  <2>1. todo # {} /\ EcusKnown /\ LoopTypes
    BY <1>4 DEF EnterBlock, Scanner, LoopTypes
  <2>2. <<Ecu, Head(Candidates)>> \in Pairs
    BY <1>0, <2>1, CandidatesAre
  <2>3. Asks("probe", Ecu, Head(Candidates))
    BY <1>0, <1>4, <2>2, SendDidDoes DEF EnterBlock, Probe
  <2> QED
    BY <1>0, <1>4, <2>2, <2>3 DEF EnterBlock, Probes, LoopStep
<1>5. CASE NextCandidate
  <2>1. <<Ecu, Head(cur.left)>> \in Pairs
    BY <1>0, <1>5, LeftOfCandidates DEF NextCandidate, Scanner
  <2>2. Asks("probe", Ecu, Head(cur.left))
    BY <1>0, <1>5, <2>1, SendDidDoes DEF NextCandidate, Probe
  <2> QED
    BY <1>0, <1>5, <2>1, <2>2 DEF NextCandidate, Probes, LoopStep
<1>6. CASE LeaveBlock
  BY <1>0, <1>6, SetDeadlineDoes DEF LeaveBlock, LoopStep
<1>7. CASE ErrorReread
  BY <1>0, <1>7, GoOnDoes DEF ErrorReread, LoopStep
<1>8. CASE Count
  BY <1>0, <1>8, GoOnDoes DEF Count, LoopStep
<1>9. CASE SecondLook
  BY <1>0, <1>9, OpenBlockDoes, GoOnDoes DEF SecondLook, LoopStep
<1>10. CASE SilenceReread
  BY <1>0, <1>10, GoOnDoes DEF SilenceReread, LoopStep
<1>11. CASE SleepCheck
  BY <1>0, <1>11, OpenBlockDoes, GoOnDoes DEF SleepCheck, LoopStep
<1>12. CASE Alive
  BY <1>0, <1>12, GoOnDoes DEF Alive, LoopStep
<1>13. CASE Confirm
  BY <1>0, <1>13, OpenBlockDoes, GoOnDoes DEF Confirm, LoopStep
<1>14. CASE Confirmed
  BY <1>0, <1>14, GoOnDoes DEF Confirmed, LoopStep
<1>15. CASE Record
  BY <1>0, <1>15, StillOfLink DEF Record, LoopStep
<1> QED
  BY <1>0, <1>1, <1>2, <1>3, <1>4, <1>5, <1>6, <1>7, <1>8, <1>9, <1>10, <1>11, <1>12, <1>13,
     <1>14, <1>15 DEF Loop

-----------------------------------------------------------------------------
(* Where the run is.                                                       *)

LEMMA BeforeKeepsPlace ==
  ASSUME LinkInv, Scanner, Before, UNCHANGED sweepVars
  PROVE  RunTypes' /\ Placed'
<1>0. /\ RunTypes /\ Placed /\ run # "sweep" /\ Idle
      /\ run = "off" => doing = "none" /\ result = Stalled
      /\ MaxRuns \in Nat
  BY Constants DEF Scanner, Placed, Before, StartRun, ReadLog, AskAddress, Hear, Discovered,
         AskMiss, Calibrate, OpenLog, WriteRow, LinkInv, Scripted
<1>1. Idle' /\ stage' = stage /\ purpose' = purpose
  BY <1>0 DEF Idle, sweepVars
<1>2. CASE StartRun
  <2>1. /\ run' = "init" /\ runs' = runs + 1 /\ runs < MaxRuns /\ doing' = "init"
        /\ result' = Stalled /\ asked' = asked /\ ~asked
    BY <1>0, <1>2 DEF StartRun, Initialise, findVars, Placed
  <2>2. runs' \in 0..MaxRuns
    BY <1>0, <2>1 DEF RunTypes
  <2> QED
    BY <1>0, <1>1, <2>1, <2>2 DEF RunTypes, Placed
<1>3. ASSUME NEW resume \in BOOLEAN, NEW narrowing \in Narrowings, ReadLog(resume, narrowing)
      PROVE  RunTypes' /\ Placed'
  <2>1. /\ run = "init" /\ asked' = asked /\ runs' = runs /\ ~asked
        /\ \/ run' = "calibrate" /\ doing' = "none"
           \/ run' = "discover" /\ doing' = "deadline"
    BY <1>0, <1>3 DEF ReadLog, SetDeadline, findVars, linkVars, hostVars, Placed
  <2> QED
    BY <1>0, <1>1, <2>1 DEF RunTypes, Placed
<1>4. CASE AskAddress
  <2>1. run = "discover" /\ run' = run /\ runs' = runs /\ asked' = TRUE
        /\ doing' \in {"ask", "failed"}
    BY <1>4 DEF AskAddress, Ask, SendDid
  <2> QED
    BY <1>0, <1>1, <2>1 DEF RunTypes, Placed
<1>5. CASE Hear
  <2>1. run = "discover" /\ run' = run /\ runs' = runs /\ asked' = FALSE /\ doing' = "none"
    BY <1>5 DEF Hear, linkVars, hostVars
  <2> QED
    BY <1>0, <1>1, <2>1 DEF RunTypes, Placed
<1>6. CASE Discovered
  <2>1. /\ run = "discover" /\ run' = "calibrate" /\ runs' = runs /\ asked' = asked
        /\ doing' = "deadline"
    BY <1>6 DEF Discovered, SetDeadline
  <2>2. ~asked
    BY <1>6 DEF Scanner, Finding, Discovered
  <2> QED
    BY <1>0, <1>1, <2>1, <2>2 DEF RunTypes, Placed
<1>7. CASE AskMiss
  <2>1. run = "calibrate" /\ run' = run /\ runs' = runs /\ asked' = TRUE
        /\ doing' \in {"ask", "failed"}
    BY <1>7 DEF AskMiss, Ask, SendDid
  <2> QED
    BY <1>0, <1>1, <2>1 DEF RunTypes, Placed
<1>8. CASE Calibrate
  <2>1. run = "calibrate" /\ run' = run /\ runs' = runs /\ asked' = FALSE /\ doing' = "none"
    BY <1>8 DEF Calibrate, linkVars, hostVars
  <2> QED
    BY <1>0, <1>1, <2>1 DEF RunTypes, Placed
<1>9. CASE OpenLog
  <2>1. run' = "log" /\ runs' = runs /\ asked' = asked /\ doing' = "none"
    BY <1>9 DEF OpenLog, linkVars, hostVars, findVars
  <2>2. ~asked
    BY <1>9 DEF Scanner, Finding, OpenLog
  <2> QED
    BY <1>0, <1>1, <2>1, <2>2 DEF RunTypes, Placed
<1>10. CASE WriteRow
  <2>1. run = "log" /\ run' = run /\ runs' = runs /\ asked' = asked /\ doing' = doing
    BY <1>10 DEF WriteRow, linkVars, hostVars, findVars
  <2> QED
    BY <1>0, <1>1, <2>1 DEF RunTypes, Placed
<1> QED
  BY <1>2, <1>3, <1>4, <1>5, <1>6, <1>7, <1>8, <1>9, <1>10 DEF Before

LEMMA LoopKeepsPlace ==
  ASSUME LinkInv, Scanner, Loop
  PROVE  RunTypes' /\ Placed'
<1>0. /\ LoopStep /\ UNCHANGED <<run, runs, asked>> /\ run = "sweep" /\ doing = "none"
      /\ RunTypes /\ Placed
  BY LoopSteps DEF Scanner, runVars, findVars
<1>1. CASE \E did : Probes(did)
  <2>1. doing' = "probe" /\ purpose' = purpose /\ stage' \in {"probe", "inside"}
    BY <1>0, <1>1 DEF LoopStep, Probes, Asks, Opens, Goes, Still, Sets, FirstProbe, Retry,
       EnterBlock, NextCandidate
  <2> QED
    BY <1>0, <2>1 DEF RunTypes, Placed, Lost, Stages
<1>2. CASE (\E why \in Blocks : Opens(why)) \/ (LeaveBlock /\ Sets("Sweep"))
  <2>1. doing' = "deadline" /\ purpose' \in Blocks \cup {"none"} /\ stage' \in {"open", "close"}
    BY <1>0, <1>2 DEF Opens, Sets, LeaveBlock, RunTypes
  <2> QED
    BY <1>0, <2>1 DEF RunTypes, Placed, Lost, Stages
<1>3. CASE (\E where \in Stages : Goes(where)) \/ (Record /\ Still)
  <2>1. doing' = "none" /\ purpose' \in Blocks \cup {"none"} /\ stage' \in Stages
    BY <1>0, <1>3 DEF Goes, Still, Record, RunTypes, Stages
  <2> QED
    BY <1>0, <2>1 DEF RunTypes, Placed, Lost
<1> QED
  BY <1>0, <1>1, <1>2, <1>3 DEF LoopStep, Blocks, Stages

LEMMA PlaceKept ==
  ASSUME LinkInv, Scanner, Next
  PROVE  RunTypes' /\ Placed'
<1>1. CASE BeginSweep
  <2>1. /\ run' = "sweep" /\ UNCHANGED <<doing, runs, asked, stage, purpose>> /\ doing = "none"
        /\ run = "log" /\ ~asked
    BY <1>1 DEF BeginSweep, linkVars, hostVars, findVars, Scanner, Placed
  <2> QED
    BY <2>1 DEF Scanner, RunTypes, Placed, Lost
<1>2. CASE Trip
  <2>1. /\ UNCHANGED <<run, runs, asked, stage, purpose, todo, cur, errors, silence>>
        /\ Lost' = Lost
    BY <1>2 DEF Trip, runVars, findVars, sweepVars
  <2>2. Idle' = Idle
    BY <2>1 DEF Idle
  <2>3. Continues \/ Recovers \/ Finishes \/ Reports
    BY <1>2 DEF Trip
  <2>4. doing \notin {"init", "deadline", "ask", "probe", "recover"} => doing' \in {"none", doing}
    BY <2>3 DEF Continues, Recovers, Finishes, Reports
  <2>5. /\ doing' \in {"none", doing} \/ (doing = "probe" /\ doing' = "recover")
        /\ run = "init" => result' = Stalled
        /\ run = "log" => doing' = "none"
    BY <2>3 DEF Scanner, Placed, Continues, Recovers, Finishes, Reports
  <2> QED
    BY <2>1, <2>2, <2>5 DEF Scanner, RunTypes, Placed
<1>3. CASE Falls
  <2>1. /\ UNCHANGED <<run, runs, asked>> /\ Idle' /\ result' = result
        /\ doing' \in {"unwind", "failed"} /\ run # "log"
    BY <1>3 DEF Falls, LoopReset, Idle, runVars, findVars, Scanner, Placed
  <2>2. stage' \in Stages /\ purpose' \in Blocks \cup {"none"}
    BY <2>1 DEF Idle, Stages
  <2> QED
    BY <2>1, <2>2 DEF Scanner, RunTypes, Placed
<1>4. CASE Ends
  <2>1. /\ run' = "off" /\ runs' = runs /\ asked' = FALSE /\ Idle' /\ doing' = "none"
        /\ result' = Stalled
    BY <1>4 DEF Ends, RunOver, HostGone, FindReset, LoopReset, Idle
  <2>2. stage' \in Stages /\ purpose' \in Blocks \cup {"none"}
    BY <2>1 DEF Idle, Stages
  <2> QED
    BY <2>1, <2>2 DEF Scanner, RunTypes, Placed
<1> QED
  BY <1>1, <1>2, <1>3, <1>4, Steps, BeforeKeepsPlace, LoopKeepsPlace

-----------------------------------------------------------------------------
(* Discovery's own variables.                                              *)

LEMMA HearsOneOf ==
  ASSUME Finding, Hear
  PROVE  /\ run = "discover" /\ run' = run /\ asked' = FALSE /\ left # {}
         /\ \/ /\ result.status = "POSITIVE" \/ tries = <<Second>>
               /\ left' = left \ {Address} /\ tries' = DISCOVERY_DIDS /\ heard' = <<>>
               /\ \/ /\ result.status = "POSITIVE"
                     /\ ecus' = ecus \o <<Info(Address, "TIMEOUT", Head(tries))>>
                  \/ /\ result.status # "POSITIVE"
                     /\ result.status = "NEGATIVE" \/ heard # <<>>
                     /\ ecus' = ecus \o <<Info(Address, "NRC", NoDid)>>
                  \/ /\ result.status \notin {"POSITIVE", "NEGATIVE"} /\ heard = <<>>
                     /\ ecus' = ecus \o <<>>
            \/ /\ result.status # "POSITIVE" /\ tries = DISCOVERY_DIDS
               /\ left' = left /\ tries' = <<Second>> /\ heard = <<>>
               /\ heard' = IF result.status = "NEGATIVE"
                           THEN <<Info(Address, "NRC", NoDid)>> ELSE <<>>
               /\ ecus' = ecus
<1>0. /\ run = "discover" /\ run' = run /\ asked' = FALSE /\ left # {} /\ asked
      /\ heard # <<>> => heard = <<Info(Address, "NRC", NoDid)>> /\ tries # DISCOVERY_DIDS
  BY DEF Finding, Hear
<1>1. tries = <<Vin, Second>> \/ tries = <<Second>>
  BY <1>0, DiscoveryDids DEF Finding
<1>2. DISCOVERY_DIDS = <<Vin, Second>> /\ (tries = <<Second>> <=> Len(tries) = 1)
      /\ (tries = <<Vin, Second>> => Tail(tries) = <<Second>> /\ tries # <<Second>>)
  <2>1. DISCOVERY_DIDS = <<Vin, Second>>
    BY DiscoveryDids
  <2>2. Len(<<Vin, Second>>) = 2 /\ Len(<<Second>>) = 1 /\ Tail(<<Vin, Second>>) = <<Second>>
    BY Tuples
  <2>3. <<Vin, Second>> # <<Second>>
    <3>1. Len(<<Vin, Second>>) # Len(<<Second>>)
      BY <2>2
    <3> QED
      BY <3>1, Zenon
  <2>4. CASE tries = <<Vin, Second>>
    <3>1. Len(tries) # 1
      BY <2>2, <2>4
    <3> QED
      BY <2>1, <2>2, <2>3, <2>4, <3>1, Zenon
  <2>5. CASE tries = <<Second>>
    <3>1. Len(tries) = 1
      BY <2>2, <2>5
    <3> QED
      BY <2>1, <2>3, <2>5, <3>1, Zenon
  <2> QED
    BY <1>1, <2>4, <2>5
<1> DEFINE now == CASE result.status = "POSITIVE" ->
                         <<Info(Address, "TIMEOUT", Head(tries))>>
                    [] result.status = "NEGATIVE" /\ heard = <<>> ->
                         <<Info(Address, "NRC", NoDid)>>
                    [] OTHER -> heard
<1>3. IF result.status = "POSITIVE" \/ Len(tries) = 1
      THEN /\ ecus' = ecus \o now
           /\ left' = left \ {Address} /\ tries' = DISCOVERY_DIDS /\ heard' = <<>>
      ELSE /\ heard' = now /\ tries' = Tail(tries)
           /\ UNCHANGED <<ecus, left>>
  BY DEF Hear
<1>4. /\ result.status = "POSITIVE" => now = <<Info(Address, "TIMEOUT", Head(tries))>>
      /\ result.status = "NEGATIVE" => now = <<Info(Address, "NRC", NoDid)>>
      /\ result.status \notin {"POSITIVE", "NEGATIVE"} => now = heard
  BY <1>0
<1> HIDE DEF now
<1>5. CASE result.status = "POSITIVE"
  <2>1. ecus' = ecus \o <<Info(Address, "TIMEOUT", Head(tries))>>
    BY <1>3, <1>4, <1>5
  <2> QED
    BY <1>0, <1>3, <1>5, <2>1
<1>6. CASE result.status # "POSITIVE" /\ tries = <<Second>>
  BY <1>0, <1>2, <1>3, <1>4, <1>6
<1>7. CASE result.status # "POSITIVE" /\ tries = <<Vin, Second>>
  BY <1>0, <1>2, <1>3, <1>4, <1>7
<1> QED
  BY <1>1, <1>5, <1>6, <1>7

LEMMA BeforeKeepsFinding ==
  ASSUME LinkInv, Scanner, Before, UNCHANGED sweepVars
  PROVE  Finding'
<1>0. /\ Finding
      /\ run \in {"off", "init"} => ~asked
  BY DEF Scanner, Placed
<1>1. CASE StartRun
  BY <1>0, <1>1 DEF StartRun, Finding, findVars
<1>2. ASSUME NEW resume \in BOOLEAN, NEW narrowing \in Narrowings, ReadLog(resume, narrowing)
      PROVE  Finding'
  <2>1. /\ run = "init" /\ asked' = asked /\ heard' = heard
        /\ \/ run' = "calibrate" /\ left' = left
           \/ run' = "discover" /\ left' = discovery_candidates /\ tries' = DISCOVERY_DIDS
    BY <1>2 DEF ReadLog, findVars
  <2> QED
    BY <1>0, <2>1 DEF Finding
<1>3. CASE AskAddress
  <2>1. run = "discover" /\ run' = run /\ left # {} /\ UNCHANGED <<left, tries, heard>>
    BY <1>3 DEF AskAddress
  <2>2. Address' = Address
    BY <2>1 DEF Address
  <2> QED
    BY <1>0, <2>1, <2>2 DEF Finding
<1>4. CASE Hear
  <2>1. left' = left => Address' = Address
    BY DEF Address
  <2>2. <<Second>> # DISCOVERY_DIDS /\ Tail(DISCOVERY_DIDS) = <<Second>>
        /\ <<Info(Address, "NRC", NoDid)>> # <<>>
    BY DiscoveryDids, Tuples
  <2>3. left' \subseteq discovery_candidates
    BY <1>0, <1>4, HearsOneOf DEF Finding
  <2>4. /\ run' = "discover" /\ asked' = FALSE /\ left # {}
        /\ tries' \in {DISCOVERY_DIDS, <<Second>>}
        /\ tries' # DISCOVERY_DIDS => left' = left
        /\ tries' = DISCOVERY_DIDS => heard' = <<>>
        /\ heard' # <<>> => heard' = <<Info(Address, "NRC", NoDid)>>
        /\ heard' # <<>> => left' = left
    BY <1>0, <1>4, <2>2, HearsOneOf
  <2> QED
    BY <1>0, <2>1, <2>2, <2>3, <2>4 DEF Finding
<1>5. CASE Discovered
  BY <1>0, <1>5 DEF Discovered, Finding
<1>6. CASE AskMiss
  <2>1. Uncalibrated # {} /\ Uncalibrated' = Uncalibrated
    BY <1>6 DEF AskMiss, Uncalibrated
  <2> QED
    BY <1>0, <1>6, <2>1 DEF AskMiss, Finding
<1>7. CASE Calibrate
  BY <1>0, <1>7 DEF Calibrate, Finding
<1>8. CASE OpenLog
  BY <1>0, <1>8 DEF OpenLog, Finding, findVars
<1>9. CASE WriteRow
  BY <1>0, <1>9 DEF WriteRow, Finding, findVars
<1> QED
  BY <1>1, <1>2, <1>3, <1>4, <1>5, <1>6, <1>7, <1>8, <1>9 DEF Before

LEMMA FindingKept ==
  ASSUME LinkInv, Scanner, Next
  PROVE  Finding'
<1>1. CASE BeginSweep
  BY <1>1 DEF BeginSweep, findVars, Scanner, Finding
<1>2. CASE Loop \/ Trip \/ Falls
  <2>1. UNCHANGED runVars
    BY <1>2 DEF Loop, Trip, Falls
  <2>2. UNCHANGED <<run, ecus, left, tries, heard, asked>>
    BY <2>1 DEF runVars, findVars
  <2>3. Address' = Address /\ Uncalibrated' = Uncalibrated
    BY <2>2 DEF Address, Uncalibrated
  <2> QED
    BY <2>2, <2>3 DEF Scanner, Finding
<1>3. CASE Ends
  BY <1>3 DEF Ends, RunOver, FindReset, Finding
<1> QED
  BY <1>1, <1>2, <1>3, Steps, BeforeKeepsFinding

-----------------------------------------------------------------------------
(* The log's rows.                                                         *)

LEMMA RowParts ==
  /\ \A row \in Rows : row.type = "ecu" => row.of \in Calibrated
  /\ \A row \in Rows : row.type = "did" =>
        row.of \in Ecus \X Elements(Dids) /\ row.status \in Status
  /\ RunRow \in Rows /\ EndRow \in Rows /\ TornRow \in Rows
  /\ \A i \in Calibrated : EcuRow(i) \in Rows /\ EcuRow(i).type = "ecu" /\ EcuRow(i).of = i
  /\ \A p \in Ecus \X Elements(Dids), s \in Status :
        /\ DidRow(p, s) \in Rows /\ DidRow(p, s).type = "did" /\ DidRow(p, s).of = p
        /\ DidRow(p, s).status = s
  /\ RunRow.type = "run" /\ EndRow.type = "end" /\ TornRow.type = "torn"
<1>1. \A i : EcuRow(i).type = "ecu" /\ EcuRow(i).of = i
  BY DEF EcuRow, Row
<1>2. \A p, s : DidRow(p, s).type = "did" /\ DidRow(p, s).of = p /\ DidRow(p, s).status = s
  BY DEF DidRow, Row
<1>3. RunRow.type = "run" /\ EndRow.type = "end" /\ TornRow.type = "torn"
  BY DEF RunRow, EndRow, TornRow, Row
<1> QED
  BY <1>1, <1>2, <1>3 DEF Rows

LEMMA WithIs ==
  ASSUME Shape(log), NEW row \in Rows, NEW new, new = With(row)
  PROVE  /\ Shape(new)
         /\ new.tail = log.tail /\ new.spoilt = log.spoilt /\ new.lost = log.lost
         /\ log.found \subseteq new.found /\ log.erred \subseteq new.erred
         /\ row.type = "did" => row.of \in new.found \cup new.erred
         /\ new.found \subseteq log.found \cup {row.of}
         /\ row.type # "did" => new.found = log.found
<1>1. CASE row.type = "ecu"
  <2> DEFINE e == IF SameEcu(row.of) = {} THEN Append(log.ecus, row.of)
                  ELSE [i \in DOMAIN log.ecus |->
                           IF i \in SameEcu(row.of) THEN row.of ELSE log.ecus[i]]
  <2>1. new = [log EXCEPT !.ecus = e]
    BY <1>1 DEF With
  <2>2. e \in Seq(Calibrated)
    <3>1. row.of \in Calibrated /\ log.ecus \in Seq(Calibrated)
      BY <1>1, RowParts DEF Shape
    <3>2. CASE SameEcu(row.of) = {}
      BY <3>1, <3>2
    <3>3. CASE SameEcu(row.of) # {}
      <4> DEFINE f == [i \in DOMAIN log.ecus |->
                           IF i \in SameEcu(row.of) THEN row.of ELSE log.ecus[i]]
      <4>1. DOMAIN log.ecus = 1..Len(log.ecus) /\ Len(log.ecus) \in Nat
        BY <3>1, Places
      <4>2. \A i \in 1..Len(log.ecus) : f[i] \in Calibrated
        BY <3>1, <4>1
      <4>3. f = [i \in 1..Len(log.ecus) |-> f[i]]
        BY <4>1
      <4>4. f \in Seq(Calibrated)
        <5> HIDE DEF f
        <5> QED
          BY <4>1, <4>2, <4>3, IsASeq
      <4> QED
        BY <3>3, <4>4
    <3> QED
      BY <3>2, <3>3
  <2> HIDE DEF e
  <2>3. /\ new.ecus = e /\ new.tail = log.tail /\ new.spoilt = log.spoilt
        /\ new.lost = log.lost /\ new.found = log.found /\ new.erred = log.erred
        /\ new = [found |-> new.found, erred |-> new.erred, ecus |-> new.ecus,
                  tail |-> new.tail, spoilt |-> new.spoilt, lost |-> new.lost]
    BY <2>1 DEF Shape
  <2> QED
    BY <1>1, <2>2, <2>3 DEF Shape
<1>2. CASE row.type = "did" /\ row.status = "ADAPTER_ERROR"
  <2>1. new = [log EXCEPT !.erred = log.erred \cup {row.of}]
    BY <1>2 DEF With
  <2>2. /\ new.ecus = log.ecus /\ new.tail = log.tail /\ new.spoilt = log.spoilt
        /\ new.lost = log.lost /\ new.found = log.found
        /\ new.erred = log.erred \cup {row.of}
        /\ new = [found |-> new.found, erred |-> new.erred, ecus |-> new.ecus,
                  tail |-> new.tail, spoilt |-> new.spoilt, lost |-> new.lost]
    BY <2>1 DEF Shape
  <2> QED
    BY <1>2, <2>2 DEF Shape
<1>3. CASE row.type = "did" /\ row.status # "ADAPTER_ERROR"
  <2>1. new = [log EXCEPT !.found = log.found \cup {row.of}]
    BY <1>3 DEF With
  <2>2. /\ new.ecus = log.ecus /\ new.tail = log.tail /\ new.spoilt = log.spoilt
        /\ new.lost = log.lost /\ new.erred = log.erred
        /\ new.found = log.found \cup {row.of}
        /\ new = [found |-> new.found, erred |-> new.erred, ecus |-> new.ecus,
                  tail |-> new.tail, spoilt |-> new.spoilt, lost |-> new.lost]
    BY <2>1 DEF Shape
  <2> QED
    BY <1>3, <2>2 DEF Shape
<1>4. CASE row.type \notin {"ecu", "did"}
  <2>1. new = log
    BY <1>4 DEF With
  <2> QED
    BY <1>4, <2>1
<1> QED
  BY <1>1, <1>2, <1>3, <1>4

LEMMA WriteDoes ==
  ASSUME Shape(log), NEW row \in Rows, Write(row)
  PROVE  /\ Shape(log') /\ log'.tail = <<>>
         /\ log.found \subseteq log'.found /\ log.erred \subseteq log'.erred
         /\ log'.lost = log.lost \cup Tails
         /\ log.tail = <<>> => log'.spoilt = log.spoilt
         /\ log'.spoilt \subseteq log.spoilt \cup {row.type}
         /\ log.tail = <<>> /\ row.type = "did" => row.of \in log'.found \cup log'.erred
<1>1. CASE log.tail = <<>>
  <2>1. log' = With(row)
    BY <1>1 DEF Write
  <2>2. Tails = {}
    <3>1. Elements(log.tail) = {}
      BY <1>1, Tuples DEF Elements
    <3> QED
      BY <3>1 DEF Tails
  <2> QED
    BY <1>1, <2>1, <2>2, WithIs
<1>2. CASE log.tail # <<>>
  <2>1. log' = [log EXCEPT !.tail = <<>>, !.spoilt = log.spoilt \cup {row.type},
                           !.lost = log.lost \cup Tails]
    BY <1>2 DEF Write
  <2>2. /\ log'.ecus = log.ecus /\ log'.tail = <<>>
        /\ log'.spoilt = log.spoilt \cup {row.type}
        /\ log'.lost = log.lost \cup Tails /\ log'.erred = log.erred
        /\ log'.found = log.found
        /\ log' = [found |-> log'.found, erred |-> log'.erred, ecus |-> log'.ecus,
                  tail |-> log'.tail, spoilt |-> log'.spoilt, lost |-> log'.lost]
    BY <2>1 DEF Shape
  <2> QED
    BY <1>2, <2>2 DEF Shape
<1> QED
  BY <1>1, <1>2

LEMMA CutDoes ==
  ASSUME Shape(log), NEW row \in Rows, Cut(row)
  PROVE  Shape(log') /\ log'.spoilt = log.spoilt
<1>1. PICK t, l : t \in Rows /\ log' = [log EXCEPT !.tail = <<t>>, !.lost = l]
  <2>1. CASE log' = [log EXCEPT !.tail = <<row>>]
    <3>1. log' = [log EXCEPT !.tail = <<row>>, !.lost = log.lost]
      BY <2>1 DEF Shape
    <3> QED
      BY <3>1
  <2>2. CASE log' = [log EXCEPT !.tail = <<TornRow>>, !.lost = log.lost \cup Tails]
    <3>1. TornRow \in Rows
      BY RowParts
    <3> QED
      BY <2>2, <3>1
  <2> QED
    BY <2>1, <2>2 DEF Cut
<1>2. /\ log'.ecus = log.ecus /\ log'.tail = <<t>> /\ log'.spoilt = log.spoilt
      /\ log' = [found |-> log'.found, erred |-> log'.erred, ecus |-> log'.ecus,
                 tail |-> log'.tail, spoilt |-> log'.spoilt, lost |-> log'.lost]
  BY <1>1 DEF Shape
<1>3. t \in Rows /\ log'.ecus \in Seq(Calibrated)
  BY <1>1, <1>2 DEF Shape
<1> QED
  BY <1>2, <1>3 DEF Shape

LEMMA ReadBackIs ==
  ASSUME Shape(log)
  PROVE  /\ ReadBack.ecus \in Seq(Calibrated)
         /\ ReadBack.found \subseteq log.found \cup Tails
         /\ log.tail = <<>> => ReadBack = log
<1>1. CASE log.tail = <<>>
  BY <1>1 DEF ReadBack, Shape
<1>2. CASE log.tail # <<>>
  <2>1. PICK row \in Rows : log.tail = <<row>>
    BY <1>2 DEF Shape
  <2>2. ReadBack = With(row)
    BY <1>2, <2>1, Tuples DEF ReadBack
  <2>3. row.type = "did" => row.of \in Tails
    <3>1. DOMAIN log.tail = {1} /\ log.tail[1] = row
      BY <2>1, Tuples
    <3>2. row \in Elements(log.tail)
      BY <3>1 DEF Elements
    <3> QED
      BY <3>2 DEF Tails
  <2>4. /\ Shape(ReadBack) /\ ReadBack.found \subseteq log.found \cup {row.of}
        /\ row.type # "did" => ReadBack.found = log.found
    BY <2>2, WithIs
  <2>5. ReadBack.found \subseteq log.found \cup Tails
    BY <2>3, <2>4
  <2> QED
    BY <1>2, <2>4, <2>5 DEF Shape
<1> QED
  BY <1>1, <1>2

LEMMA ResultsAre ==
  /\ \A r \in Results : r.status \in Status /\ r.fresh = TRUE
  /\ Stalled \in Results /\ Stalled.status = "ADAPTER_ERROR"
<1>1. Stalled.status \in Status /\ Stalled.fresh = TRUE /\ Stalled.status = "ADAPTER_ERROR"
  BY DEF Stalled, Status
<1> QED
  BY <1>1 DEF Results

LEMMA RowsInFlight ==
  ASSUME LinkInv, Scanner
  PROVE  /\ InFlight \subseteq Rows
         /\ run = "sweep" /\ stage # "next" => DidRow(Here, cur.reply.status) \in Rows
<1>1. unwritten # <<>> => Head(unwritten) \in Rows
  BY DEF Scanner, LogTypes
<1>2. ASSUME run = "sweep", stage # "next"
      PROVE  DidRow(Here, cur.reply.status) \in Rows
  <2>1. Here \in Ecus \X Elements(Dids)
    BY <1>2, FirstEcu DEF Scanner, LoopTypes
  <2>2. cur.reply.status \in Status
    BY ResultsAre DEF Scanner, LoopTypes, Fields
  <2> QED
    BY <2>1, <2>2, RowParts
<1> QED
  BY <1>1, <1>2, RowParts DEF InFlight

LEMMA FirstRowsAre ==
  ASSUME ecus \in Seq(Known), Uncalibrated = {}
  PROVE  /\ \A i \in DOMAIN ecus : ecus[i] \in Calibrated
         /\ FirstRows \in Seq(Rows) /\ FirstRows # <<>> /\ FirstRows[1] = RunRow
         /\ \A i \in DOMAIN FirstRows : FirstRows[i].type \in {"run", "ecu"}
<1>1. \A i \in DOMAIN ecus : ecus[i] \in Calibrated
  BY DEF Uncalibrated, Known
<1> DEFINE rows == [i \in DOMAIN ecus |-> EcuRow(ecus[i])]
           S == {row \in Rows : row.type \in {"run", "ecu"}}
           head == <<RunRow>>
<1>2. DOMAIN ecus = 1..Len(ecus) /\ Len(ecus) \in Nat
  BY Places
<1>3. rows \in Seq(S) /\ Len(rows) \in Nat
  <2>1. \A i \in 1..Len(ecus) : rows[i] \in S
    BY <1>1, <1>2, RowParts
  <2>2. rows = [i \in 1..Len(ecus) |-> rows[i]]
    BY <1>2
  <2> HIDE DEF rows, S
  <2>3. rows \in Seq(S)
    BY <1>2, <2>1, <2>2, IsASeq
  <2> QED
    BY <2>3, Places
<1>4. head \in Seq(S) /\ Len(head) = 1 /\ head[1] = RunRow
  BY RowParts, Tuples
<1>5. FirstRows = head \o rows
  BY DEF FirstRows
<1> HIDE DEF rows, head, S
<1>6. /\ FirstRows \in Seq(S) /\ Len(FirstRows) = 1 + Len(rows)
      /\ \A i \in 1..(1 + Len(rows)) :
            FirstRows[i] = IF i <= 1 THEN head[i] ELSE rows[i - 1]
  BY <1>3, <1>4, <1>5, ConcatProperties
<1>7. FirstRows[1] = RunRow /\ FirstRows # <<>>
  <2>1. 1 \in 1..(1 + Len(rows)) /\ Len(FirstRows) # 0
    BY <1>3, <1>6
  <2> QED
    BY <1>4, <1>6, <2>1
<1>8. \A i \in DOMAIN FirstRows : FirstRows[i] \in S
  BY <1>6
<1>9. FirstRows \in Seq(Rows)
  BY <1>6 DEF S
<1> QED
  BY <1>1, <1>7, <1>8, <1>9 DEF S

LEMMA LogTypesKept ==
  ASSUME LinkInv, Scanner, Next
  PROVE  LogTypes'
<1>0. Shape(log) /\ unwritten \in Seq(Rows) /\ EcusKnown
  BY DEF Scanner, LogTypes
<1>1. CASE log' = log /\ unwritten' = unwritten
  BY <1>0, <1>1 DEF LogTypes, Shape
<1>2. CASE OpenLog
  <2>1. log' = log /\ unwritten' = FirstRows /\ Uncalibrated = {}
    BY <1>2 DEF OpenLog
  <2>2. unwritten' \in Seq(Rows)
    BY <1>0, <2>1, FirstRowsAre DEF EcusKnown
  <2> QED
    BY <1>0, <2>1, <2>2 DEF LogTypes, Shape
<1>3. CASE WriteRow
  <2>1. Head(unwritten) \in Rows /\ unwritten' = Tail(unwritten) /\ Write(Head(unwritten))
        /\ unwritten' \in Seq(Rows)
    BY <1>0, <1>3 DEF WriteRow
  <2> QED
    BY <1>0, <2>1, WriteDoes DEF LogTypes
<1>4. CASE Record /\ UNCHANGED runVars /\ run = "sweep"
  <2>1. Write(DidRow(Here, cur.reply.status)) /\ unwritten' = unwritten /\ stage # "next"
    BY <1>4 DEF Record, runVars
  <2> QED
    BY <1>0, <1>4, <2>1, WriteDoes, RowsInFlight DEF LogTypes
<1>5. CASE Ends
  <2>1. unwritten' = <<>>
    BY <1>5 DEF Ends, RunOver
  <2>2. Shape(log')
    BY <1>0, <1>5, WriteDoes, CutDoes, RowsInFlight, RowParts DEF Ends
  <2> QED
    BY <2>1, <2>2 DEF LogTypes
<1>6. CASE Before /\ ~OpenLog /\ ~WriteRow
  BY <1>1, <1>6 DEF Before, StartRun, ReadLog, AskAddress, Hear, Discovered, AskMiss, Calibrate
<1>7. CASE BeginSweep
  BY <1>1, <1>7 DEF BeginSweep
<1>8. CASE Trip \/ Falls
  BY <1>1, <1>8 DEF Trip, Falls, runVars
<1>9. CASE Loop /\ ~Record
  <2>1. unwritten' = unwritten
    BY <1>9 DEF Loop, runVars
  <2>2. log' = log
    BY <1>9, LoopSteps DEF LoopStep, Probes, Opens, Goes, LeaveBlock
  <2> QED
    BY <1>1, <2>1, <2>2
<1>10. CASE Loop /\ Record
  BY <1>4, <1>10 DEF Loop
<1> QED
  BY <1>2, <1>3, <1>5, <1>6, <1>7, <1>8, <1>9, <1>10, Steps


-----------------------------------------------------------------------------
(* The ECUs.                                                               *)

LEMMA InfoKnown ==
  /\ \A ecu \in Ecus, live \in LiveDids :
        Info(ecu, "TIMEOUT", live) \in Known /\ Info(ecu, "NRC", live) \in Known
  /\ NoDid \in LiveDids /\ Vin \in LiveDids /\ Second \in LiveDids
  /\ \A ecu, mode, live : Info(ecu, mode, live).ecu = ecu
<1>1. \A ecu \in Ecus, live \in LiveDids, mode \in {"NRC", "TIMEOUT"} :
         Info(ecu, mode, live) \in Infos /\ Info(ecu, mode, live).calibrated = FALSE
  BY DEF Info, Infos
<1>2. \A ecu, mode, live : Info(ecu, mode, live).ecu = ecu
  BY DEF Info
<1> QED
  BY <1>1, <1>2, DiscoveryDids DEF Known, LiveDids

LEMMA CalibratedKnown == Calibrated \subseteq Known /\ Known \subseteq Infos
BY DEF Known, Calibrated

LEMMA ReadLogGives ==
  ASSUME Shape(log), NEW resume \in BOOLEAN, NEW narrowing \in Narrowings,
         ReadLog(resume, narrowing)
  PROVE  /\ ecus' \in Seq(Known) /\ run' \in {"calibrate", "discover"}
         /\ run' = "discover" => ecus' = <<>>
<1> DEFINE reused == IF resume THEN ReadBack.ecus ELSE <<>>
           KnownOf(e) == {i \in Elements(reused) : i.ecu = e}
           Given(e) == IF KnownOf(e) # {} THEN CHOOSE i \in KnownOf(e) : TRUE
                       ELSE Info(e, "TIMEOUT", NoDid)
           given == [k \in DOMAIN narrowing |-> Given(narrowing[k])]
<1>1. /\ ecus' = IF narrowing # <<>> THEN given ELSE reused
      /\ run' = IF ecus' # <<>> THEN "calibrate" ELSE "discover"
  BY DEF ReadLog
<1>2. reused \in Seq(Calibrated)
  BY ReadBackIs
<1>3. Elements(reused) \subseteq Calibrated
  <2> HIDE DEF reused
  <2> QED
    BY <1>2 DEF Elements
<1>4. ASSUME NEW e \in Ecus PROVE Given(e) \in Known
  <2>1. Info(e, "TIMEOUT", NoDid) \in Known
    BY InfoKnown
  <2>2. KnownOf(e) \subseteq Known
    BY <1>3, CalibratedKnown
  <2> HIDE DEF KnownOf
  <2> QED
    BY <2>1, <2>2
<1>5. /\ narrowing \in Seq(Elements(narrowing)) /\ Elements(narrowing) \subseteq Ecus
  <2>1. narrowing \in Seq(Elements(narrowing))
    BY StartAssumption DEF StartAssumption
  <2>2. Elements(narrowing) \subseteq Ecus
    BY DEF Ecus
  <2> QED
    BY <2>1, <2>2
<1>6. DOMAIN narrowing = 1..Len(narrowing) /\ Len(narrowing) \in Nat
      /\ \A k \in 1..Len(narrowing) : narrowing[k] \in Ecus
  BY <1>5, Places
<1>7. given \in Seq(Known)
  <2>1. given = [k \in 1..Len(narrowing) |-> Given(narrowing[k])]
    BY <1>6
  <2>2. \A k \in 1..Len(narrowing) : Given(narrowing[k]) \in Known
    BY <1>4, <1>6
  <2> HIDE DEF Given, given
  <2> QED
    BY <1>6, <2>1, <2>2, IsASeq
<1>8. reused \in Seq(Known)
  <2> HIDE DEF reused
  <2> QED
    BY <1>2, CalibratedKnown
<1> HIDE DEF given, reused
<1> QED
  BY <1>1, <1>7, <1>8

LEMMA Joined ==
  ASSUME NEW S, NEW s \in Seq(S), NEW x \in S
  PROVE  /\ s \o <<x>> \in Seq(S) /\ s \o <<>> = s
         /\ Elements(s \o <<x>>) = Elements(s) \cup {x}
<1> DEFINE t == <<x>>
<1>1. t \in Seq(S) /\ Len(t) = 1 /\ t[1] = x
  BY Tuples
<1>2. s \o <<>> = s
  OBVIOUS
<1> HIDE DEF t
<1>3. /\ s \o t \in Seq(S) /\ Len(s \o t) = Len(s) + 1 /\ Len(s) \in Nat
      /\ \A i \in 1..(Len(s) + 1) : (s \o t)[i] = IF i <= Len(s) THEN s[i] ELSE t[i - Len(s)]
  <2>1. /\ s \o t \in Seq(S) /\ Len(s \o t) = Len(s) + Len(t)
        /\ \A i \in 1..(Len(s) + Len(t)) :
              (s \o t)[i] = IF i <= Len(s) THEN s[i] ELSE t[i - Len(s)]
    BY <1>1, ConcatProperties
  <2>2. Len(s) \in Nat
    BY Places
  <2> QED
    BY <1>1, <2>1, <2>2
<1>4. (s \o t)[Len(s) + 1] = x
  BY <1>1, <1>3
<1>5. \A i \in 1..Len(s) : (s \o t)[i] = s[i]
  BY <1>3
<1>6. DOMAIN (s \o t) = 1..(Len(s) + 1) /\ DOMAIN s = 1..Len(s)
  BY <1>3
<1> DEFINE u == s \o t
<1>7. /\ DOMAIN u = 1..(Len(s) + 1) /\ DOMAIN s = 1..Len(s) /\ Len(s) \in Nat
      /\ u[Len(s) + 1] = x /\ \A i \in 1..Len(s) : u[i] = s[i]
  BY <1>3, <1>4, <1>5, <1>6
<1> HIDE DEF u
<1>8. Elements(u) = Elements(s) \cup {x}
  <2>1. \A i \in DOMAIN u : i \in 1..Len(s) \/ i = Len(s) + 1
    BY <1>7
  <2>2. Elements(u) \subseteq Elements(s) \cup {x}
    BY <1>7, <2>1 DEF Elements
  <2>3. 1..Len(s) \subseteq DOMAIN u /\ Len(s) + 1 \in DOMAIN u
    BY <1>7
  <2>4. Elements(s) \cup {x} \subseteq Elements(u)
    BY <1>7, <2>3 DEF Elements
  <2> QED
    BY <2>2, <2>4
<1> QED
  BY <1>2, <1>3, <1>8 DEF t, u

\* What Hear may append is an ECU, if not the one it asks about last.
LEMMA HeardKnown ==
  ASSUME EcusKnown, Finding, Hear
  PROVE  ecus' \in Seq(Known)
<1>1. run = "discover" /\ left # {} /\ ecus \in Seq(Known)
  BY HearsOneOf DEF EcusKnown
<1>2. Address \in Ecus /\ Head(tries) \in LiveDids
  BY <1>1, NextAddress, FirstTry DEF LiveDids
<1>3. /\ Info(Address, "TIMEOUT", Head(tries)) \in Known
      /\ Info(Address, "NRC", NoDid) \in Known
  BY <1>2, InfoKnown
<1>4. /\ ecus \o <<Info(Address, "TIMEOUT", Head(tries))>> \in Seq(Known)
      /\ ecus \o <<Info(Address, "NRC", NoDid)>> \in Seq(Known)
      /\ ecus \o <<>> \in Seq(Known)
  BY <1>1, <1>3, Joined
<1>5. \/ ecus' = ecus \o <<Info(Address, "TIMEOUT", Head(tries))>>
      \/ ecus' = ecus \o <<Info(Address, "NRC", NoDid)>>
      \/ ecus' = ecus \o <<>>
      \/ ecus' = ecus
  BY HearsOneOf
<1> QED
  BY <1>1, <1>4, <1>5

LEMMA CalibrateKnows ==
  ASSUME EcusKnown, Finding, Asked, Calibrate
  PROVE  ecus' \in Seq(Known)
<1>1. /\ run = "calibrate" /\ asked /\ doing = "none" /\ ecus \in Seq(Known)
      /\ Uncalibrated # {}
  BY DEF EcusKnown, Finding, Calibrate
<1>2. /\ Uncertain \in DOMAIN ecus /\ ecus[Uncertain] \in Known
      /\ ecus[Uncertain].ecu \in Ecus
  BY <1>1, NextUncertain
<1> DEFINE i == ecus[Uncertain]
           truth == Truth(i.ecu, CALIBRATION_DID, "Sweep")
           misled == result.status \notin truth
           new == [i EXCEPT !.mode = MissMode(result.status), !.calibrated = TRUE,
                            !.misled = misled]
<1>3. i \in Infos /\ i.ecu # Functional
  <2>1. Question \in Pairs /\ Question = <<i.ecu, CALIBRATION_DID>>
    BY <1>1 DEF Asked, Question
  <2> QED
    BY <1>2, <2>1 DEF Pairs, Known
<1>4. ecus' = [ecus EXCEPT ![Uncertain] = new]
  BY DEF Calibrate
<1>5. MissMode(result.status) \in {"NRC", "TIMEOUT"} /\ misled \in BOOLEAN
  BY DEF MissMode
<1>6. MissMode(result.status) = "NRC" \/ misled \/ truth # {"NEGATIVE"}
  BY DEF MissMode
<1> HIDE DEF misled, truth, i
<1>7. /\ new \in Infos /\ new.mode = MissMode(result.status) /\ new.calibrated = TRUE
      /\ new.misled = misled /\ new.ecu = i.ecu
  BY <1>3, <1>5 DEF Infos
<1> HIDE DEF new
<1>8. new \in Calibrated
  BY <1>3, <1>6, <1>7 DEF Calibrated, truth
<1>9. new \in Known
  BY <1>8, CalibratedKnown
<1> QED
  BY <1>1, <1>2, <1>4, <1>9

LEMMA EcusKnownKept ==
  ASSUME LinkInv, Scanner, Asked, Next
  PROVE  EcusKnown'
<1>0. EcusKnown /\ Finding /\ Shape(log)
  BY DEF Scanner, LogTypes
<1>1. CASE UNCHANGED <<run, ecus>>
  BY <1>0, <1>1 DEF EcusKnown
<1>2. CASE StartRun
  BY <1>0, <1>2 DEF StartRun, EcusKnown
<1>3. ASSUME NEW resume \in BOOLEAN, NEW narrowing \in Narrowings, ReadLog(resume, narrowing)
      PROVE  EcusKnown'
  BY <1>0, <1>3, ReadLogGives DEF EcusKnown
<1>4. CASE Hear
  BY <1>0, <1>4, HeardKnown DEF EcusKnown, Hear
<1>5. CASE Discovered
  BY <1>0, <1>5 DEF Discovered, EcusKnown
<1>6. CASE Calibrate
  BY <1>0, <1>6, CalibrateKnows DEF EcusKnown, Calibrate
<1>7. CASE OpenLog
  BY <1>0, <1>7, FirstRowsAre DEF EcusKnown, OpenLog
<1>8. CASE AskAddress \/ AskMiss \/ WriteRow
  BY <1>1, <1>8 DEF AskAddress, AskMiss, WriteRow
<1>9. CASE BeginSweep
  BY <1>0, <1>9 DEF BeginSweep, EcusKnown
<1>10. CASE Loop \/ Trip \/ Falls
  BY <1>1, <1>10 DEF Loop, Trip, Falls, runVars
<1>11. CASE Ends
  BY <1>11 DEF Ends, RunOver, EcusKnown
<1> QED
  BY <1>2, <1>3, <1>4, <1>5, <1>6, <1>7, <1>8, <1>9, <1>10, <1>11, Steps DEF Before

-----------------------------------------------------------------------------
(* The loop's own variables.                                               *)

\* A loop variable at a time.
LEMMA NewAttempt ==
  ASSUME NEW c, Fields(c), NEW x \in 0..ADAPTER_ERROR_ATTEMPTS, NEW d, d = [c EXCEPT !.attempt = x]
  PROVE  /\ Fields(d) /\ d.attempt = x
         /\ d.reply = c.reply /\ d.second = c.second /\ d.left = c.left
         /\ d.rescued = c.rescued /\ d.unconfirmed = c.unconfirmed
BY DEF Fields

LEMMA NewReply ==
  ASSUME NEW c, Fields(c), NEW x \in Results, NEW d, d = [c EXCEPT !.reply = x]
  PROVE  /\ Fields(d) /\ d.reply = x
         /\ d.attempt = c.attempt /\ d.second = c.second /\ d.left = c.left
         /\ d.rescued = c.rescued /\ d.unconfirmed = c.unconfirmed
BY DEF Fields

LEMMA NewSecond ==
  ASSUME NEW c, Fields(c), NEW x \in Results, NEW d, d = [c EXCEPT !.second = x]
  PROVE  /\ Fields(d) /\ d.second = x
         /\ d.attempt = c.attempt /\ d.reply = c.reply /\ d.left = c.left
         /\ d.rescued = c.rescued /\ d.unconfirmed = c.unconfirmed
BY DEF Fields

LEMMA NewLeft ==
  ASSUME NEW c, Fields(c), NEW x, NEW d, d = [c EXCEPT !.left = x]
  PROVE  /\ Fields(d) /\ d.left = x
         /\ d.attempt = c.attempt /\ d.reply = c.reply /\ d.second = c.second
         /\ d.rescued = c.rescued /\ d.unconfirmed = c.unconfirmed
BY DEF Fields

LEMMA NewRescued ==
  ASSUME NEW c, Fields(c), NEW x \in BOOLEAN, NEW d, d = [c EXCEPT !.rescued = x]
  PROVE  /\ Fields(d) /\ d.rescued = x
         /\ d.attempt = c.attempt /\ d.reply = c.reply /\ d.second = c.second
         /\ d.left = c.left /\ d.unconfirmed = c.unconfirmed
BY DEF Fields

LEMMA NewUnconfirmed ==
  ASSUME NEW c, Fields(c), NEW x \in BOOLEAN, NEW d, d = [c EXCEPT !.unconfirmed = x]
  PROVE  /\ Fields(d) /\ d.unconfirmed = x
         /\ d.attempt = c.attempt /\ d.reply = c.reply /\ d.second = c.second
         /\ d.left = c.left /\ d.rescued = c.rescued
BY DEF Fields

LEMMA IdleTypes ==
  ASSUME Idle'
  PROVE  LoopTypes'
<1>1. Fields(cur')
  <2>1. /\ cur'.reply = Stalled /\ cur'.second = Stalled /\ cur'.attempt = 0
        /\ cur'.rescued = FALSE /\ cur'.unconfirmed = FALSE
        /\ cur' = [attempt |-> cur'.attempt, reply |-> cur'.reply, second |-> cur'.second,
                   left |-> cur'.left, rescued |-> cur'.rescued,
                   unconfirmed |-> cur'.unconfirmed]
    BY DEF Idle, NoReading
  <2>2. 0 \in 0..ADAPTER_ERROR_ATTEMPTS
    BY Constants
  <2> QED
    BY <2>1, <2>2, ResultsAre DEF Fields
<1>2. /\ todo' = {} /\ stage' = "next" /\ errors' = 0 /\ silence' = 0
  BY DEF Idle
<1>3. errors' \in 0..(MAX_CONSECUTIVE_ERRORS - 1) /\ silence' \in 0..SLEEP_SUSPICION_PROBES
      /\ silence' # SLEEP_SUSPICION_PROBES
  BY <1>2, Constants
<1> QED
  BY <1>1, <1>2, <1>3 DEF LoopTypes, InBlockStages

\* The loop over DIDs keeps its types: what becomes of the reading at hand,
\* and of the two counters.
LEMMA LoopKeepsFields ==
  ASSUME LinkInv, Scanner, Loop
  PROVE  Fields(cur')
<1>0. LoopStep /\ Fields(cur) /\ result \in Results /\ Stalled \in Results
      /\ cur.second \in Results
  BY LoopSteps, ResultsAre DEF Scanner, LoopTypes, LinkInv, LinkTypes, Fields
<1>n. Fields(NoReading) /\ 1 \in 0..ADAPTER_ERROR_ATTEMPTS
  <2>1. /\ NoReading.reply = Stalled /\ NoReading.second = Stalled /\ NoReading.attempt = 0
        /\ NoReading.rescued = FALSE /\ NoReading.unconfirmed = FALSE
        /\ NoReading = [attempt |-> NoReading.attempt, reply |-> NoReading.reply,
                        second |-> NoReading.second, left |-> NoReading.left,
                        rescued |-> NoReading.rescued, unconfirmed |-> NoReading.unconfirmed]
    BY DEF NoReading
  <2>2. 0 \in 0..ADAPTER_ERROR_ATTEMPTS /\ 1 \in 0..ADAPTER_ERROR_ATTEMPTS
    BY Constants
  <2> QED
    BY <2>1, <2>2, ResultsAre DEF Fields
<1>1. CASE FirstProbe
  BY <1>n, <1>1, NewAttempt DEF FirstProbe
<1>2. CASE Retry
  <2>1. cur.attempt + 1 \in 0..ADAPTER_ERROR_ATTEMPTS
    BY <1>0, <1>2, Constants DEF Retry, MoreAttempts, Fields
  <2>2. cur' = [cur EXCEPT !.attempt = cur.attempt + 1]
    BY <1>2 DEF Retry, Counted
  <2> QED
    BY <1>0, <2>1, <2>2, NewAttempt
<1>3. CASE LastAttempt
  BY <1>0, <1>3, NewReply DEF LastAttempt
<1>4. CASE EnterBlock
  <2>1. cur' = [cur EXCEPT !.left = Tail(Candidates)]
    BY <1>4 DEF EnterBlock
  <2> QED
    BY <1>0, <2>1, NewLeft
<1>5. CASE NextCandidate
  <2>1. cur' = [cur EXCEPT !.left = Tail(cur.left)]
    BY <1>5 DEF NextCandidate
  <2> QED
    BY <1>0, <2>1, NewLeft
<1>6. CASE LeaveBlock
  <2> DEFINE c == [cur EXCEPT !.second = result]
  <2>1. Fields(c)
    BY <1>0, NewSecond
  <2>2. cur' = [c EXCEPT !.left = <<>>]
    BY <1>6 DEF LeaveBlock
  <2> HIDE DEF c
  <2> QED
    BY <2>1, <2>2, NewLeft
<1>7. ASSUME NEW when, Rescue(when)
      PROVE  Fields(cur')
  <2> DEFINE a == [cur EXCEPT !.reply = cur.second]
             b == [a EXCEPT !.second = Stalled]
             c == [b EXCEPT !.rescued = TRUE]
  <2>1. cur' = c \/ cur' = [cur EXCEPT !.second = Stalled]
    BY <1>7, Zenon DEF Rescue
  <2>2. Fields(a)
    BY <1>0, NewReply
  <2> HIDE DEF a
  <2>3. Fields(b)
    BY <1>0, <2>2, NewSecond
  <2> HIDE DEF b
  <2>4. Fields(c)
    BY <2>3, NewRescued
  <2> HIDE DEF c
  <2> QED
    BY <1>0, <2>1, <2>4, NewSecond
<1>8. CASE ErrorReread \/ SilenceReread
  <2>1. Rescue(Answered(cur.second)) \/ Rescue(cur.second.status # "NO_RESPONSE")
    BY <1>8, Zenon DEF ErrorReread, SilenceReread
  <2> QED
    BY <1>7, <2>1
<1>9. CASE Count \/ SecondLook \/ SleepCheck \/ Confirm
  BY <1>0, <1>9 DEF Count, SecondLook, SleepCheck, Confirm
<1>10. CASE Alive
  BY <1>0, <1>10, NewSecond DEF Alive
<1>11. CASE Confirmed
  <2>1. cur' = [cur EXCEPT !.reply = cur.second] \/ cur' = [cur EXCEPT !.unconfirmed = TRUE]
    BY <1>11 DEF Confirmed
  <2> QED
    <3>1. CASE cur' = [cur EXCEPT !.reply = cur.second]
      BY <1>0, <3>1, NewReply
    <3>2. CASE cur' = [cur EXCEPT !.unconfirmed = TRUE]
      BY <1>0, <3>2, NewUnconfirmed
    <3> QED
      BY <2>1, <3>1, <3>2
<1>12. CASE Record
  BY <1>n, <1>12 DEF Record
<1> QED
  BY <1>0, <1>1, <1>2, <1>3, <1>4, <1>5, <1>6, <1>8, <1>9, <1>10, <1>11, <1>12 DEF LoopStep

LEMMA LoopKeepsCounts ==
  ASSUME LinkInv, Scanner, Loop
  PROVE  /\ errors' \in 0..(MAX_CONSECUTIVE_ERRORS - 1)
         /\ silence' \in 0..SLEEP_SUSPICION_PROBES
         /\ silence' = SLEEP_SUSPICION_PROBES =>
               stage' \in InBlockStages /\ purpose' = "liveness"
<1>0. /\ LoopStep /\ errors \in 0..(MAX_CONSECUTIVE_ERRORS - 1)
      /\ silence \in 0..SLEEP_SUSPICION_PROBES
      /\ silence = SLEEP_SUSPICION_PROBES => stage \in InBlockStages /\ purpose = "liveness"
  BY LoopSteps DEF Scanner, LoopTypes
<1>1. CASE Count
  <2>1. /\ silence' = silence /\ stage = "count"
        /\ errors' < MAX_CONSECUTIVE_ERRORS /\ (errors' = errors + 1 \/ errors' = 0)
    BY <1>1 DEF Count
  <2>2. errors' \in 0..(MAX_CONSECUTIVE_ERRORS - 1)
    BY <1>0, <2>1, Constants
  <2> QED
    BY <1>0, <2>1, <2>2 DEF InBlockStages
<1>2. CASE SleepCheck
  <2>1. /\ errors' = errors /\ stage = "sleep" /\ (silence' = silence + 1 \/ silence' = 0)
        /\ silence' >= SLEEP_SUSPICION_PROBES => stage' = "open" /\ purpose' = "liveness"
    BY <1>2 DEF SleepCheck, OpenBlock
  <2>2. silence # SLEEP_SUSPICION_PROBES
    BY <1>0, <2>1 DEF InBlockStages
  <2>3. silence' \in 0..SLEEP_SUSPICION_PROBES
    BY <1>0, <2>1, <2>2, Constants
  <2>4. silence' = SLEEP_SUSPICION_PROBES => silence' >= SLEEP_SUSPICION_PROBES
    BY Constants
  <2> QED
    BY <1>0, <2>1, <2>3, <2>4 DEF InBlockStages
<1>3. CASE Alive \/ Record
  <2>1. errors' = errors /\ (silence' = silence \/ silence' = 0) /\ (Record => stage = "record")
        /\ (Alive => silence' = 0)
    BY <1>3 DEF Alive, Record
  <2>2. 0 \in 0..SLEEP_SUSPICION_PROBES /\ 0 # SLEEP_SUSPICION_PROBES
    BY Constants
  <2> QED
    BY <1>0, <1>3, <2>1, <2>2 DEF InBlockStages
<1>4. CASE FirstProbe \/ Retry
  BY <1>0, <1>4 DEF FirstProbe, Retry, InBlockStages
<1>5. CASE LastAttempt
  BY <1>0, <1>5 DEF LastAttempt, InBlockStages
<1>6. CASE EnterBlock \/ NextCandidate \/ LeaveBlock
  BY <1>0, <1>6 DEF EnterBlock, NextCandidate, LeaveBlock, InBlockStages
<1>7. CASE ErrorReread \/ SilenceReread \/ Confirmed
  BY <1>0, <1>7 DEF ErrorReread, SilenceReread, Confirmed
<1>8. CASE SecondLook \/ Confirm
  BY <1>0, <1>8 DEF SecondLook, Confirm, InBlockStages
<1> QED
  BY <1>0, <1>1, <1>2, <1>3, <1>4, <1>5, <1>6, <1>7, <1>8 DEF LoopStep

\* The DID at hand stays the same until it is recorded.
LEMMA LoopStays ==
  ASSUME LinkInv, Scanner, Loop
  PROVE  /\ ecus' = ecus
         /\ \/ Record /\ todo' \subseteq todo /\ stage' = "next"
            \/ /\ ~Record /\ todo' = todo /\ Place' = Place /\ Index' = Index /\ info' = info
               /\ Ecu' = Ecu /\ Did' = Did /\ Here' = Here
               /\ stage' # "next" /\ todo # {}
<1>1. LoopStep /\ ecus' = ecus
  BY LoopSteps DEF runVars
<1>2. CASE Record
  BY <1>1, <1>2 DEF Record
<1>3. CASE ~Record
  <2>1. todo' = todo /\ stage' # "next" /\ todo # {}
    BY <1>1, <1>3 DEF LoopStep, Probes, Opens, Goes, LeaveBlock, FirstProbe, Retry, EnterBlock,
       NextCandidate, Scanner, LoopTypes, LastAttempt, ErrorReread, Count, SecondLook,
       SilenceReread, SleepCheck, Alive, Confirm, Confirmed
  <2>2. Place' = Place /\ Index' = Index
    BY <2>1 DEF Place, Index
  <2> QED
    BY <1>1, <1>3, <2>1, <2>2 DEF info, Ecu, Did, Here
<1> QED
  BY <1>2, <1>3

LEMMA LoopKeepsLeft ==
  ASSUME LinkInv, Scanner, Loop, stage' = "inside"
  PROVE  \/ cur'.left = <<>>
         \/ purpose' = "liveness" /\ info'.live = NoDid /\ cur'.left = Tail(DISCOVERY_DIDS)
<1>0. /\ LoopStep /\ EcusKnown /\ LoopTypes /\ run = "sweep" /\ todo # {} /\ Fields(cur)
      /\ info' = info
  BY LoopSteps, LoopStays DEF Scanner, LoopTypes
<1>1. EnterBlock \/ NextCandidate
  BY <1>0 DEF LoopStep, Opens, Goes, FirstProbe, Retry, LeaveBlock, Record
<1>2. CASE EnterBlock
  <2>1. cur'.left = Tail(Candidates) /\ purpose' = purpose
    BY <1>0, <1>2, NewLeft DEF EnterBlock
  <2>2. CASE Candidates = <<Vin, Second>> /\ purpose = "liveness" /\ info.live = NoDid
    <3>1. Tail(Candidates) = <<Second>>
      BY <2>2, Tuples
    <3> QED
      BY <1>0, <2>1, <2>2, <3>1, DiscoveryDids
  <2>3. CASE Candidates = <<Did>> \/ Candidates = <<info.live>>
    <3>1. Tail(<<Did>>) = <<>> /\ Tail(<<info.live>>) = <<>>
      BY Tuples
    <3> QED
      BY <2>1, <2>3, <3>1, Zenon
  <2> QED
    BY <1>0, <2>2, <2>3, CandidatesAre
<1>3. CASE NextCandidate
  <2>1. cur'.left = Tail(cur.left) /\ cur.left = <<Second>>
    BY <1>0, <1>3, NewLeft, LeftOfCandidates DEF NextCandidate
  <2> QED
    BY <2>1, Tuples
<1> QED
  BY <1>1, <1>2, <1>3

LEMMA LoopKeepsTypes ==
  ASSUME LinkInv, Scanner, Loop
  PROVE  LoopTypes'
<1>0. LoopTypes /\ LoopStep
  BY LoopSteps DEF Scanner
<1>1. todo' \subseteq (DOMAIN ecus') \X (DOMAIN Dids) /\ (stage' # "next" => todo' # {})
  BY <1>0, LoopStays DEF LoopTypes
<1>2. stage' \in InBlockStages => purpose' \in Blocks
  BY <1>0 DEF LoopStep, Opens, Goes, FirstProbe, Retry, EnterBlock, NextCandidate, LeaveBlock,
     Record, LoopTypes, InBlockStages, Blocks
<1> QED
  BY <1>1, <1>2, LoopKeepsFields, LoopKeepsCounts, LoopKeepsLeft DEF LoopTypes

LEMMA LoopTypesKept ==
  ASSUME LinkInv, Scanner, Next
  PROVE  LoopTypes'
<1>1. CASE Before /\ UNCHANGED sweepVars
  <2>1. Idle
    BY <1>1 DEF Scanner, Placed, Before, StartRun, ReadLog, AskAddress, Hear, Discovered,
         AskMiss, Calibrate, OpenLog, WriteRow
  <2>2. Idle'
    BY <1>1, <2>1 DEF Idle, sweepVars
  <2> QED
    BY <2>2, IdleTypes
<1>2. CASE BeginSweep
  <2>1. /\ todo' = Pending /\ ecus' = ecus /\ UNCHANGED <<stage, purpose, cur, errors, silence>>
        /\ Idle
    BY <1>2 DEF BeginSweep, Scanner, Placed
  <2>2. todo' \subseteq (DOMAIN ecus') \X (DOMAIN Dids)
    BY <2>1 DEF Pending
  <2>3. LoopTypes /\ stage = "next"
    BY <2>1 DEF Scanner, Idle
  <2> QED
    BY <2>1, <2>2, <2>3 DEF LoopTypes, InBlockStages
<1>3. CASE Trip
  <2>1. LoopTypes /\ UNCHANGED <<ecus, todo, stage, purpose, cur, errors, silence>>
    BY <1>3 DEF Trip, runVars, sweepVars, Scanner
  <2>2. info' = info
    BY <2>1 DEF info, Place
  <2> QED
    BY <2>1, <2>2 DEF LoopTypes
<1>4. CASE Falls \/ Ends
  <2>1. Idle'
    BY <1>4 DEF Falls, Ends, LoopReset, Idle
  <2> QED
    BY <2>1, IdleTypes
<1> QED
  BY <1>1, <1>2, <1>3, <1>4, Steps, LoopKeepsTypes

LEMMA ScannerKept ==
  ASSUME LinkInv, Scanner, Asked, Next
  PROVE  Scanner'
BY PlaceKept, FindingKept, LogTypesKept, EcusKnownKept, LoopTypesKept DEF Scanner

-----------------------------------------------------------------------------
(* The questions and their answers.                                        *)

LEMMA SameQuestion ==
  ASSUME UNCHANGED <<run, stage, ecus, left, tries, todo, purpose, cur>>
  PROVE  Question' = Question
<1>1. Place' = Place /\ Index' = Index
  BY DEF Place, Index
<1>2. info' = info /\ Did' = Did
  BY <1>1 DEF info, Did
<1>3. Candidates' = Candidates /\ Ecu' = Ecu
  BY <1>2 DEF Candidates, Ecu
<1>4. Address' = Address /\ Uncertain' = Uncertain
  BY DEF Address, Uncertain, Uncalibrated
<1> QED
  BY <1>2, <1>3, <1>4 DEF Question, Candidate, Here

LEMMA QuestionBefore ==
  ASSUME run \in {"discover", "calibrate"}, UNCHANGED <<run, ecus, left, tries>>
  PROVE  Question' = Question
<1>1. Address' = Address /\ Uncertain' = Uncertain
  BY DEF Address, Uncertain, Uncalibrated
<1> QED
  BY <1>1 DEF Question

LEMMA ReadsDiffer ==
  ASSUME NEW a, NEW b, NEW c, NEW d, Read(a, b) = Read(c, d)
  PROVE  a = c /\ b = d
<1>1. Read(a, b).arg = <<a, b>> /\ Read(c, d).arg = <<c, d>>
  BY CommandParts
<1> QED
  BY <1>1

LEMMA BeforeKeepsAsked ==
  ASSUME LinkInv, Scanner, Asked, Before, UNCHANGED sweepVars
  PROVE  Asked'
<1>0. /\ run' # "sweep" /\ Finding /\ EcusKnown
      /\ run \notin {"discover", "calibrate"} => ~asked
  BY DEF Scanner, Placed, Before, StartRun, ReadLog, AskAddress, Hear, Discovered,
         AskMiss, Calibrate, OpenLog, WriteRow
<1>1. CASE ~asked' /\ doing' \notin {"ask", "probe"}
  BY <1>0, <1>1 DEF Asked
<1>2. CASE StartRun
  BY <1>0, <1>1, <1>2 DEF StartRun, Initialise, findVars
<1>3. ASSUME NEW resume \in BOOLEAN, NEW narrowing \in Narrowings, ReadLog(resume, narrowing)
      PROVE  Asked'
  <2>1. asked' = asked /\ run = "init" /\ doing' \in {"none", "deadline"}
    BY <1>3 DEF ReadLog, SetDeadline, findVars, linkVars, hostVars
  <2> QED
    BY <1>0, <1>1, <2>1
<1>4. CASE AskAddress
  <2>1. /\ run = "discover" /\ left # {} /\ doing = "none" /\ run' = run
        /\ UNCHANGED <<ecus, left, tries>>
    BY <1>4 DEF AskAddress
  <2>2. <<Address, Head(tries)>> \in Pairs /\ Address # Functional
    BY <1>0, <2>1, NextAddress, FirstTry DEF Pairs
  <2>3. Asks("ask", Address, Head(tries))
    BY <1>4, <2>1, <2>2, SendDidDoes DEF AskAddress, Ask
  <2>4. Question' = <<Address, Head(tries)>>
    BY <2>1, QuestionBefore DEF Question
  <2> QED
    BY <1>0, <2>2, <2>3, <2>4 DEF Asked, Asks, Last
<1>5. CASE Hear
  BY <1>0, <1>1, <1>5 DEF Hear, linkVars, hostVars
<1>6. CASE Discovered
  BY <1>0, <1>1, <1>6 DEF Discovered, Finding, SetDeadline
<1>7. CASE AskMiss
  <2> DEFINE ecu == ecus[Uncertain].ecu
  <2>1. /\ run = "calibrate" /\ Uncalibrated # {} /\ doing = "none" /\ run' = run
        /\ UNCHANGED <<ecus, left, tries>> /\ Ask(ecu, CALIBRATION_DID)
    BY <1>7 DEF AskMiss
  <2>2. Question' = <<ecu, CALIBRATION_DID>>
    BY <2>1, QuestionBefore DEF Question
  <2>3. CASE ecu = Functional
    <3>1. doing' = "failed"
      BY <2>1, <2>3 DEF Ask
    <3> QED
      BY <3>1 DEF Asked
  <2>4. CASE ecu # Functional
    <3>1. ecu \in Ecus
      BY <1>0, <2>1, NextUncertain DEF EcusKnown
    <3>2. <<ecu, CALIBRATION_DID>> \in Pairs
      BY <2>4, <3>1, DiscoveryDids DEF Pairs
    <3> HIDE DEF ecu
    <3>3. Asks("ask", ecu, CALIBRATION_DID)
      BY <2>1, <2>4, <3>2, SendDidDoes DEF Ask
    <3> QED
      BY <1>0, <2>2, <3>2, <3>3 DEF Asked, Asks, Last
  <2> QED
    BY <2>3, <2>4
<1>8. CASE Calibrate
  BY <1>0, <1>1, <1>8 DEF Calibrate, linkVars, hostVars
<1>9. CASE OpenLog
  BY <1>0, <1>1, <1>9 DEF OpenLog, linkVars, hostVars, findVars, Finding
<1>10. CASE WriteRow
  BY <1>0, <1>1, <1>10 DEF WriteRow, linkVars, hostVars, findVars, Scanner, Placed
<1> QED
  BY <1>2, <1>3, <1>4, <1>5, <1>6, <1>7, <1>8, <1>9, <1>10 DEF Before

LEMMA LoopKeepsAsked ==
  ASSUME LinkInv, Scanner, Loop
  PROVE  Asked'
<1>0. /\ LoopStep /\ run = "sweep" /\ run' = run /\ asked' = asked /\ ~asked /\ ~asked'
      /\ EcusKnown /\ LoopTypes /\ Fields(cur)
  BY LoopSteps DEF Scanner, Placed, runVars, findVars, LoopTypes
<1>1. CASE stage' \notin {"probe", "inside"} /\ doing' \notin {"ask", "probe"}
  BY <1>0, <1>1 DEF Asked
<1>2. CASE doing' = "deadline"
  BY <1>0, <1>2 DEF Asked
<1>3. ASSUME NEW did, Probes(did), <<Ecu, did>> = Question'
      PROVE  Asked'
  BY <1>0, <1>3 DEF Asked, Probes, Asks, Last
<1>4. CASE FirstProbe \/ Retry
  <2>1. stage' = "probe" /\ Probes(Did) /\ Here' = Here
    BY <1>0, <1>4, LoopStays DEF LoopStep, FirstProbe, Retry, LastAttempt, EnterBlock,
       NextCandidate, LeaveBlock, ErrorReread, Count, SecondLook, SilenceReread, SleepCheck,
       Alive, Confirm, Confirmed, Record
  <2>2. Question' = <<Ecu, Did>>
    BY <1>0, <2>1 DEF Question, Here
  <2> QED
    BY <1>3, <2>1, <2>2
<1>5. CASE EnterBlock \/ NextCandidate
  <2>1. /\ stage' = "inside" /\ todo # {} /\ purpose' = purpose
        /\ info' = info /\ Ecu' = Ecu /\ Did' = Did
    BY <1>0, <1>5, LoopStays DEF EnterBlock, NextCandidate, Record
  <2>2. Candidates' = Candidates
    BY <2>1 DEF Candidates
  <2>3. Question' = <<Ecu, Candidates[Len(Candidates) - Len(cur'.left)]>>
    BY <1>0, <2>1, <2>2 DEF Question, Candidate
  <2>4. CASE EnterBlock
    <3>1. cur'.left = Tail(Candidates) /\ Probes(Head(Candidates))
      BY <1>0, <2>4, NewLeft DEF LoopStep, EnterBlock, FirstProbe, Retry, LastAttempt,
       NextCandidate, LeaveBlock, ErrorReread, Count, SecondLook, SilenceReread, SleepCheck,
       Alive, Confirm, Confirmed, Record
    <3>2. Len(Candidates) - Len(Tail(Candidates)) = 1 /\ Head(Candidates) = Candidates[1]
      <4>1. \/ \E a : Candidates = <<a>>
            \/ \E a, b : Candidates = <<a, b>>
        BY <1>0, <2>1, CandidatesAre
      <4>2. ASSUME NEW a, Candidates = <<a>>
            PROVE  Len(Candidates) = 1 /\ Len(Tail(Candidates)) = 0
                   /\ Head(Candidates) = Candidates[1]
        BY <4>2, Tuples
      <4>3. ASSUME NEW a, NEW b, Candidates = <<a, b>>
            PROVE  Len(Candidates) = 2 /\ Len(Tail(Candidates)) = 1
                   /\ Head(Candidates) = Candidates[1]
        BY <4>3, Tuples
      <4> QED
        BY <4>1, <4>2, <4>3
    <3>3. Question' = <<Ecu, Head(Candidates)>>
      BY <2>3, <3>1, <3>2
    <3> QED
      BY <1>3, <3>1, <3>3
  <2>5. CASE NextCandidate
    <3>1. /\ cur'.left = Tail(cur.left) /\ Probes(Head(cur.left))
          /\ Candidates = <<Vin, Second>> /\ cur.left = <<Second>>
      <4>1. stage = "inside" /\ cur.left # <<>>
        BY <2>5 DEF NextCandidate
      <4>2. cur'.left = Tail(cur.left)
        BY <1>0, <2>5, NewLeft DEF NextCandidate
      <4>3. Probes(Head(cur.left))
        BY <1>0, <2>1, <4>1 DEF LoopStep, EnterBlock, FirstProbe, Retry, LastAttempt,
          LeaveBlock, ErrorReread, Count, SecondLook, SilenceReread, SleepCheck,
          Alive, Confirm, Confirmed, Record
      <4> QED
        BY <1>0, <4>1, <4>2, <4>3, LeftOfCandidates
    <3>2. Len(Candidates) = 2 /\ cur'.left = <<>> /\ Candidates[2] = Second
          /\ Head(cur.left) = Second
      BY <3>1, Tuples
    <3>3. Question' = <<Ecu, Head(cur.left)>>
      BY <2>3, <3>2
    <3> QED
      BY <1>3, <3>1, <3>3
  <2> QED
    BY <1>5, <2>4, <2>5
<1>6. CASE Record \/ LeaveBlock
  BY <1>0, <1>1, <1>2, <1>6 DEF LoopStep, Record, LeaveBlock, Sets, Still, SetDeadline, linkVars,
     hostVars, Loop
<1>7. CASE ~(FirstProbe \/ Retry \/ EnterBlock \/ NextCandidate \/ Record \/ LeaveBlock)
  <2>1. (\E why : Opens(why)) \/ (\E where \in Stages \ {"probe", "inside"} : Goes(where))
    BY <1>0, <1>7 DEF LoopStep, Stages
  <2>2. doing = "none"
    BY DEF Loop
  <2> QED
    BY <1>1, <1>2, <2>1, <2>2 DEF Opens, Sets, Goes, Still
<1> QED
  BY <1>4, <1>5, <1>6, <1>7

LEMMA TripKeepsAsked ==
  ASSUME LinkInv, Scanner, Asked, Trip
  PROVE  Asked'
<1>1. /\ UNCHANGED <<run, stage, ecus, left, tries, todo, purpose, cur, asked>>
      /\ run # "off" /\ asleep => asleep' 
      /\ Continues \/ Recovers \/ Finishes \/ Reports
      /\ Lost' = Lost
  BY DEF Trip, runVars, sweepVars, findVars
<1>2. Question' = Question
  BY <1>1, SameQuestion
<1>3. asked \/ doing \in {"ask", "probe"} => run # "off"
  BY DEF Scanner, Placed
<1>4. CASE Continues
  BY <1>1, <1>2, <1>3, <1>4 DEF Continues, Asked, Says, Last
<1>5. CASE Recovers
  BY <1>1, <1>2, <1>5 DEF Recovers, Asked
<1>6. CASE Finishes
  <2>1. doing' = "none" /\ result' = Stalled /\ doing \notin {"none", "ask", "probe"}
    BY <1>6 DEF Finishes
  <2>2. ~asked
    BY <1>1, <2>1 DEF Scanner, Placed, Lost, LinkInv, LinkTypes
  <2> QED
    BY <1>1, <2>1, <2>2 DEF Asked
<1>7. CASE Reports
  <2>1. PICK pair \in Pairs, s \in Status :
           /\ Last(script) = Read(pair[1], pair[2])
           /\ s \in Truth(pair[1], pair[2], atst) \/ asleep
           /\ result' = [status |-> s, atst |-> atst, fresh |-> TRUE]
    BY <1>7 DEF Reports
  <2>2. doing \in {"ask", "probe"} /\ doing' = "none" /\ run # "off"
    BY <1>3, <1>7 DEF Reports
  <2>3. Last(script) = Read(Question[1], Question[2])
    BY <2>2 DEF Asked, Last
  <2>4. pair[1] = Question[1] /\ pair[2] = Question[2]
    <3> DEFINE a == pair[1]
               b == pair[2]
               c == Question[1]
               d == Question[2]
    <3>1. Read(a, b) = Read(c, d)
      BY <2>1, <2>3
    <3> HIDE DEF a, b, c, d
    <3>2. a = c /\ b = d
      BY <3>1, ReadsDiffer
    <3> QED
      BY <3>2 DEF a, b, c, d
  <2>5. result'.status = s /\ result'.atst = atst
    BY <2>1
  <2>6. Says(result', Question) \/ asleep
    BY <2>1, <2>4, <2>5 DEF Says
  <2>7. (asleep => asleep') /\ (Says(result, Question)' \/ asleep => Says(result, Question)')
    BY <1>1, <1>2, <2>2, <2>6 DEF Says
  <2>8. result' # Stalled
    <3>1. atst # "none" /\ Stalled.atst = "none"
      BY DEF LinkInv, LinkTypes, Deadlines, Stalled
    <3> QED
      BY <2>5, <3>1
  <2>9. Says(result, Question)'
    BY <1>1, <1>2, <2>2, <2>6 DEF Says
  <2> QED
    BY <1>1, <1>2, <2>2, <2>8, <2>9 DEF Asked
<1> QED
  BY <1>1, <1>4, <1>5, <1>6, <1>7

LEMMA AskedKept ==
  ASSUME LinkInv, Scanner, Asked, Next
  PROVE  Asked'
<1>1. CASE BeginSweep
  <2>1. /\ asked' = asked /\ ~asked /\ doing' = doing /\ doing = "none" /\ stage' = "next"
    BY <1>1 DEF BeginSweep, linkVars, hostVars, findVars, Scanner, Placed, Idle
  <2> QED
    BY <2>1 DEF Asked
<1>2. CASE Falls
  <2>1. doing' \in {"unwind", "failed"}
    BY <1>2 DEF Falls
  <2> QED
    BY <2>1 DEF Asked
<1>3. CASE Ends
  <2>1. asked' = FALSE /\ doing' = "none" /\ run' = "off"
    BY <1>3 DEF Ends, RunOver, HostGone, FindReset
  <2> QED
    BY <2>1 DEF Asked
<1> QED
  BY <1>1, <1>2, <1>3, Steps, BeforeKeepsAsked, LoopKeepsAsked, TripKeepsAsked


-----------------------------------------------------------------------------
(* Deadlines.                                                              *)

LEMMA BeforeKeepsDeadline ==
  ASSUME LinkInv, Scanner, Asked, Deadline, DeadlineHeld, Before, UNCHANGED sweepVars
  PROVE  Deadline' /\ DeadlineHeld'
<1>0. run # "sweep" /\ run' # "sweep" /\ deadline' = deadline /\ deadline = "Sweep" /\ Finding
  BY DEF Scanner, Before, StartRun, ReadLog, AskAddress, Hear, Discovered, AskMiss, Ask,
         Calibrate, OpenLog, WriteRow, Deadline, linkVars, hostVars, SetDeadline
<1>1. CASE StartRun
  <2>1. script' = <<ATZ, Quieten, ATST("Sweep")>> /\ doing' = "init" /\ run' = "init"
    BY <1>1 DEF StartRun, Initialise, InitScript
  <2>2. script' # <<>> /\ script'[Len(script')] = ATST("Sweep")
    BY <2>1, Tuples
  <2>3. Aim' = "Sweep"
    BY <2>2, CommandParts DEF Aim
  <2> QED
    BY <1>0, <2>1, <2>3 DEF Deadline, DeadlineHeld
<1>2. ASSUME NEW resume \in BOOLEAN, NEW narrowing \in Narrowings, ReadLog(resume, narrowing)
      PROVE  Deadline' /\ DeadlineHeld'
  <2>1. run = "init" /\ doing = "none" /\ result = Stalled /\ Aim = "Sweep"
    BY <1>2 DEF ReadLog, Scanner, Placed, Deadline, Lost
  <2>2. \/ run' = "calibrate" /\ UNCHANGED linkVars
        \/ run' = "discover" /\ SetDeadline("Generous")
    BY <1>2 DEF ReadLog, AtReadTimeout
  <2>3. \/ run' = "calibrate" /\ Aim' = "Sweep" /\ result' = Stalled
        \/ run' = "discover" /\ Aim' = "Generous" /\ doing' = "deadline"
    BY <2>1, <2>2, StillOfLink, StillAims, SetDeadlineDoes DEF Still, Sets
  <2> QED
    BY <1>0, <2>3 DEF Deadline, DeadlineHeld
<1>3. ASSUME NEW ecu, NEW did, Ask(ecu, did), run' = run, run \in {"discover", "calibrate"},
             doing = "none", <<ecu, did>> \in Pairs \/ ecu = Functional
      PROVE  Deadline' /\ DeadlineHeld'
  <2>1. CASE ecu = Functional
    <3>1. doing' = "failed"
      BY <1>3, <2>1 DEF Ask
    <3> QED
      BY <1>0, <1>3, <3>1 DEF Deadline, DeadlineHeld, Lost
  <2>2. CASE ecu # Functional
    <3>1. doing' = "ask" /\ Aim' = atst
      BY <1>3, <2>2, SendDidDoes DEF Ask, Asks
    <3>2. Aim = atst /\ ~Lost
      BY <1>3, IdleAims DEF Lost
    <3> QED
      BY <1>0, <1>3, <3>1, <3>2 DEF Deadline, DeadlineHeld
  <2> QED
    BY <2>1, <2>2
<1>4. CASE AskAddress
  <2>1. /\ run = "discover" /\ left # {} /\ doing = "none" /\ run' = run
        /\ Ask(Address, Head(tries))
    BY <1>4 DEF AskAddress
  <2>2. <<Address, Head(tries)>> \in Pairs
    BY <1>0, <2>1, NextAddress, FirstTry DEF Pairs
  <2> QED
    BY <1>3, <2>1, <2>2
<1>5. CASE AskMiss
  <2> DEFINE ecu == ecus[Uncertain].ecu
  <2>1. /\ run = "calibrate" /\ Uncalibrated # {} /\ doing = "none" /\ run' = run
        /\ Ask(ecu, CALIBRATION_DID)
    BY <1>5 DEF AskMiss
  <2>2. ecu \in Ecus
    BY <1>0, <2>1, NextUncertain DEF EcusKnown, Scanner
  <2>3. <<ecu, CALIBRATION_DID>> \in Pairs \/ ecu = Functional
    BY <2>2, DiscoveryDids DEF Pairs
  <2> HIDE DEF ecu
  <2> QED
    BY <1>3, <2>1, <2>3
<1>6. CASE Discovered
  <2>1. run' = "calibrate" /\ doing' = "deadline" /\ Aim' = "Sweep"
    BY <1>6, SetDeadlineDoes DEF Discovered, Sets
  <2> QED
    BY <1>0, <2>1 DEF Deadline, DeadlineHeld
<1>7. CASE Hear \/ Calibrate \/ OpenLog \/ WriteRow
  <2>1. /\ Still /\ UNCHANGED stage
        /\ \/ run' = run /\ run \in {"discover", "calibrate", "log"}
           \/ run' = "log" /\ run = "calibrate"
    BY <1>7, StillOfLink DEF Hear, Calibrate, OpenLog, WriteRow, sweepVars
  <2>2. Aim' = Aim /\ Lost' = Lost
    BY <2>1, StillAims DEF Lost, Still
  <2>3. Deadline'
    BY <1>0, <2>1, <2>2 DEF Deadline
  <2>4. DeadlineHeld'
    BY <1>0, <2>1 DEF DeadlineHeld, Still, Scanner, Placed, Idle
  <2> QED
    BY <2>3, <2>4
<1> QED
  BY <1>1, <1>2, <1>4, <1>5, <1>6, <1>7 DEF Before

LEMMA LoopKeepsDeadline ==
  ASSUME LinkInv, Scanner, Deadline, DeadlineHeld, Loop
  PROVE  Deadline' /\ DeadlineHeld'
<1>0. /\ LoopStep /\ run = "sweep" /\ run' = "sweep" /\ doing = "none" /\ Aim = atst /\ ~Lost
      /\ deadline \in Deadlines
  BY LoopSteps, IdleAims DEF Lost, LinkInv, LinkTypes
<1>1. /\ stage \in {"open", "inside"} => Aim = "Generous"
      /\ stage = "inside" => deadline = "Generous"
      /\ stage = "close" => Aim = "Sweep"
      /\ stage \notin {"open", "inside"} => Aim \in {"Sweep", deadline}
  BY <1>0 DEF Deadline
<1>2. CASE FirstProbe \/ Retry
  <2>1. /\ stage \in {"next", "probe"} /\ stage' = "probe" /\ doing' = "probe" /\ Aim' = Aim
        /\ deadline' = deadline
    BY <1>0, <1>2 DEF LoopStep, FirstProbe, Retry, Probes, Asks, LastAttempt, EnterBlock,
       NextCandidate, LeaveBlock, ErrorReread, Count, SecondLook, SilenceReread, SleepCheck,
       Alive, Confirm, Confirmed, Record
  <2> QED
    BY <1>0, <1>1, <2>1 DEF Deadline, DeadlineHeld
<1>3. CASE EnterBlock
  <2>1. /\ stage = "open" /\ stage' = "inside" /\ doing' = "probe" /\ Aim' = Aim
        /\ deadline' = "Generous"
    BY <1>0, <1>3 DEF LoopStep, FirstProbe, Retry, Probes, Asks, LastAttempt, EnterBlock,
       NextCandidate, LeaveBlock, ErrorReread, Count, SecondLook, SilenceReread, SleepCheck,
       Alive, Confirm, Confirmed, Record
  <2> QED
    BY <1>0, <1>1, <2>1 DEF Deadline, DeadlineHeld
<1>4. CASE NextCandidate
  <2>1. /\ stage = "inside" /\ stage' = "inside" /\ doing' = "probe" /\ Aim' = Aim
        /\ deadline' = deadline
    BY <1>0, <1>4 DEF LoopStep, FirstProbe, Retry, Probes, Asks, LastAttempt, EnterBlock,
       NextCandidate, LeaveBlock, ErrorReread, Count, SecondLook, SilenceReread, SleepCheck,
       Alive, Confirm, Confirmed, Record
  <2> QED
    BY <1>0, <1>1, <2>1 DEF Deadline, DeadlineHeld
<1>5. CASE LeaveBlock
  <2>1. stage' = "close" /\ Sets("Sweep")
    BY <1>5, SetDeadlineDoes DEF LeaveBlock
  <2> QED
    BY <1>0, <2>1 DEF Deadline, DeadlineHeld, Sets
<1>6. CASE \E why : Opens(why)
  <2>1. stage' = "open" /\ Aim' = "Generous" /\ doing' = "deadline"
    BY <1>6 DEF Opens, Sets
  <2> QED
    BY <1>0, <2>1 DEF Deadline, DeadlineHeld
<1>7. CASE Record \/ (\E where \in Stages \ {"probe", "open", "inside", "close"} : Goes(where))
  <2>1. /\ Still /\ stage' \notin {"probe", "open", "inside", "close"} /\ stage \notin {"open", "inside"}
    <3>1. CASE Record
      BY <3>1, StillOfLink DEF Record
    <3>2. CASE ~Record
      BY <1>0, <1>7, <3>2 DEF LoopStep, Goes, FirstProbe, Retry, LastAttempt, EnterBlock,
       NextCandidate, LeaveBlock, ErrorReread, Count, SecondLook, SilenceReread, SleepCheck,
       Alive, Confirm, Confirmed, Stages
    <3> QED
      BY <3>1, <3>2
  <2>2. Aim' = Aim
    BY <2>1, StillAims
  <2>3. Deadline'
    BY <1>0, <1>1, <2>1, <2>2 DEF Deadline, Still
  <2>4. DeadlineHeld'
    BY <1>0, <2>1 DEF DeadlineHeld, Still
  <2> QED
    BY <2>3, <2>4
<1> QED
  BY <1>0, <1>2, <1>3, <1>4, <1>5, <1>6, <1>7 DEF LoopStep, Stages

LEMMA TripKeepsDeadline ==
  ASSUME LinkInv, Scanner, Deadline, DeadlineHeld, Trip
  PROVE  Deadline' /\ DeadlineHeld'
<1>1. /\ UNCHANGED <<run, stage, deadline>> /\ Lost' = Lost
      /\ Continues \/ Recovers \/ Finishes \/ Reports
      /\ ~Lost => Aim' = Aim \/ Recovers
  BY DEF Trip, runVars, sweepVars
<1>2. CASE Recovers
  <2>1. /\ doing' = "recover" /\ Aim' = deadline /\ run = "sweep" /\ stage \in {"probe", "inside"}
        /\ ~Lost
    BY <1>2 DEF Recovers, Scanner, Placed, Lost
  <2> QED
    BY <1>1, <2>1 DEF Deadline, DeadlineHeld
<1>3. CASE ~Recovers
  <2>1. Deadline'
    BY <1>1, <1>3 DEF Deadline
  <2>2. DeadlineHeld'
    <3>1. CASE Continues
      BY <1>1, <3>1 DEF Continues, DeadlineHeld
    <3>2. CASE Finishes
      BY <3>2 DEF Finishes, DeadlineHeld
    <3>3. CASE Reports
      <4>1. /\ result'.atst = atst /\ Aim = atst /\ doing \in {"ask", "probe"}
        BY <3>3 DEF Reports
      <4>2. ~Lost /\ run \in {"discover", "calibrate", "sweep"}
        BY <4>1 DEF Scanner, Placed, Lost
      <4> QED
        BY <1>1, <4>1, <4>2 DEF Deadline, DeadlineHeld, Scanner, Placed, Idle
    <3> QED
      BY <1>1, <1>3, <3>1, <3>2, <3>3
  <2> QED
    BY <2>1, <2>2
<1> QED
  BY <1>2, <1>3

LEMMA DeadlineKept ==
  ASSUME LinkInv, Scanner, Asked, Deadline, DeadlineHeld, Next
  PROVE  Deadline' /\ DeadlineHeld'
<1>1. CASE BeginSweep
  <2>1. Still /\ run = "log" /\ run' = "sweep" /\ stage' = "next" /\ stage = "next"
    BY <1>1, StillOfLink DEF BeginSweep, Scanner, Placed, Idle
  <2>2. Aim' = Aim /\ Lost' = Lost
    BY <2>1, StillAims DEF Lost, Still
  <2> QED
    BY <2>1, <2>2 DEF Deadline, DeadlineHeld, Still
<1>2. CASE Falls
  <2>1. /\ doing' \in {"unwind", "failed"} /\ UNCHANGED <<run, deadline>>
    BY <1>2 DEF Falls, runVars
  <2> QED
    BY <2>1 DEF Deadline, DeadlineHeld, Lost
<1>3. CASE Ends
  <2>1. run' = "off" /\ deadline' = "Sweep" /\ result' = Stalled
    BY <1>3 DEF Ends, RunOver, HostGone
  <2> QED
    BY <2>1 DEF Deadline, DeadlineHeld, Lost
<1> QED
  BY <1>1, <1>2, <1>3, Steps, BeforeKeepsDeadline, LoopKeepsDeadline, TripKeepsDeadline


-----------------------------------------------------------------------------
(* Payloads, silences and the liveness check.                              *)

\* The readings of a block's last question, and the deadline they came under.
LEMMA InsideSays ==
  ASSUME LinkInv, Scanner, Asked, DeadlineHeld,
         run = "sweep", doing = "none", stage = "inside"
  PROVE  /\ Generous(result)
         /\ cur.left = <<>> =>
               \/ result.status = "ADAPTER_ERROR"
               \/ asleep
               \/ result.status \in Truth(Ecu, Candidates[Len(Candidates)], "Generous")
         /\ purpose # "liveness" => cur.left = <<>> /\ Candidates[Len(Candidates)] = Did
<1>0. LoopTypes /\ EcusKnown /\ todo # {} /\ Stalled.status = "ADAPTER_ERROR"
  BY ResultsAre DEF Scanner, LoopTypes
<1>1. result = Stalled \/ result.atst = "Generous"
  BY DEF DeadlineHeld
<1>2. Len(Candidates) \in Nat /\ (purpose # "liveness" => Candidates[Len(Candidates)] = Did)
  <2>1. \/ \E a : Candidates = <<a>>
        \/ \E a, b : Candidates = <<a, b>>
    BY <1>0, CandidatesAre
  <2>2. Len(Candidates) \in Nat
    BY <2>1, Tuples
  <2>3. purpose # "liveness" => Candidates[Len(Candidates)] = Did
    <3>1. <<Did>>[1] = Did /\ Len(<<Did>>) = 1
      BY Tuples
    <3> QED
      BY <1>0, <3>1, CandidatesAre
  <2> QED
    BY <2>2, <2>3
<1>3. purpose # "liveness" => cur.left = <<>>
  BY <1>0 DEF LoopTypes
<1>4. ASSUME cur.left = <<>>, result # Stalled
      PROVE  asleep \/ result.status \in Truth(Ecu, Candidates[Len(Candidates)], "Generous")
  <2> DEFINE last == Candidates[Len(Candidates)]
  <2>1. Candidate = last
    <3>1. Len(cur.left) = 0
      BY <1>4
    <3> QED
      BY <1>2, <3>1 DEF Candidate
  <2> HIDE DEF last
  <2>2. Question = <<Ecu, last>>
    BY <2>1 DEF Question
  <2>3. Says(result, Question)
    BY <1>4 DEF Asked
  <2>4. Question[1] = Ecu /\ Question[2] = last
    BY <2>2
  <2>5. asleep \/ result.status \in Truth(Ecu, last, "Generous")
    BY <1>1, <1>4, <2>3, <2>4 DEF Says
  <2> QED
    BY <2>5 DEF last
<1> QED
  BY <1>0, <1>1, <1>2, <1>3, <1>4 DEF Generous

LEMMA IdleBefore ==
  ASSUME Scanner, Before
  PROVE  Idle /\ run # "sweep" /\ run' # "sweep"
BY DEF Scanner, Placed, Before, StartRun, ReadLog, AskAddress, Hear, Discovered,
       AskMiss, Calibrate, OpenLog, WriteRow

LEMMA IdleReadings ==
  ASSUME Idle'
  PROVE  Payloads' /\ Silences' /\ Checking'
<1>1. /\ cur'.reply = Stalled /\ cur'.second = Stalled /\ cur'.rescued = FALSE
      /\ stage' = "next"
  BY DEF Idle, NoReading
<1>2. Stalled.status = "ADAPTER_ERROR"
  BY ResultsAre
<1>3. Payloads'
  BY <1>1, <1>2 DEF Payloads, Generous
<1>4. Silences'
  BY <1>1, <1>2 DEF Silences, Silent
<1>5. Checking'
  BY <1>1 DEF Checking
<1> QED
  BY <1>3, <1>4, <1>5

LEMMA LoopKeepsPayloads ==
  ASSUME LinkInv, Scanner, Asked, DeadlineHeld, Payloads, Loop
  PROVE  Payloads'
<1>0. /\ LoopStep /\ Fields(cur) /\ run = "sweep" /\ doing = "none"
      /\ Stalled.status = "ADAPTER_ERROR" /\ result \in Results /\ Stalled \in Results
      /\ cur.second \in Results
  BY LoopSteps, ResultsAre DEF Scanner, LoopTypes, LinkInv, LinkTypes, Fields
<1>1. /\ stage = "probe" => ~cur.rescued
      /\ Generous(cur.second)
      /\ cur.rescued => Generous(cur.reply)
      /\ stage = "record" => Generous(cur.reply) \/ cur.unconfirmed
  BY DEF Payloads
<1>2. Generous(Stalled)
  BY <1>0 DEF Generous
<1>3. CASE FirstProbe
  <2>1. stage' = "probe" /\ cur'.rescued = FALSE /\ cur'.second = Stalled
    BY <1>3 DEF FirstProbe, NoReading
  <2> QED
    BY <1>2, <2>1 DEF Payloads
<1>4. CASE Retry
  <2>1. cur' = [cur EXCEPT !.attempt = cur.attempt + 1]
    BY <1>4 DEF Retry, Counted
  <2>2. /\ cur'.second = cur.second /\ cur'.rescued = cur.rescued /\ cur'.reply = cur.reply
        /\ stage = "probe" /\ stage' = "probe"
    BY <1>0, <1>4, <2>1 DEF Fields, Retry
  <2> QED
    BY <1>1, <2>2 DEF Payloads
<1>5. CASE LastAttempt
  <2>1. /\ cur'.second = cur.second /\ cur'.rescued = cur.rescued
        /\ stage = "probe" /\ stage' \notin {"probe", "record"}
    BY <1>0, <1>5, NewReply DEF LastAttempt, OpenBlock, GoOn
  <2> QED
    BY <1>1, <2>1 DEF Payloads
<1>6. CASE EnterBlock \/ NextCandidate
  <2>1. PICK l : cur' = [cur EXCEPT !.left = l]
    BY <1>6 DEF EnterBlock, NextCandidate
  <2>2. /\ cur'.second = cur.second /\ cur'.rescued = cur.rescued /\ cur'.reply = cur.reply
        /\ stage' = "inside"
    BY <1>0, <1>6, <2>1, NewLeft DEF EnterBlock, NextCandidate
  <2> QED
    BY <1>1, <2>2 DEF Payloads
<1>7. CASE LeaveBlock
  <2> DEFINE c == [cur EXCEPT !.second = result]
  <2>1. /\ Fields(c) /\ c.second = result /\ c.reply = cur.reply /\ c.rescued = cur.rescued
        /\ cur' = [c EXCEPT !.left = <<>>]
    BY <1>0, <1>7, NewSecond DEF LeaveBlock
  <2> HIDE DEF c
  <2>2. /\ cur'.second = result /\ cur'.reply = cur.reply /\ cur'.rescued = cur.rescued
        /\ stage' = "close" /\ stage = "inside"
    BY <1>7, <2>1, NewLeft DEF LeaveBlock
  <2>3. Generous(result)
    BY <1>0, <2>2, InsideSays
  <2> QED
    BY <1>1, <2>2, <2>3 DEF Payloads
<1>8. CASE ErrorReread \/ SilenceReread
  <2>1. stage' \in {"count", "sleep"} /\ \E when \in BOOLEAN : Rescue(when)
    <3>1. Answered(cur.second) \in BOOLEAN /\ (cur.second.status # "NO_RESPONSE") \in BOOLEAN
      BY DEF Answered
    <3>2. Rescue(Answered(cur.second)) \/ Rescue(cur.second.status # "NO_RESPONSE")
      BY <1>8, Zenon DEF ErrorReread, SilenceReread
    <3>3. stage' \in {"count", "sleep"}
      BY <1>8 DEF ErrorReread, SilenceReread, GoOn
    <3> QED
      BY <3>1, <3>2, <3>3
  <2>2. CASE cur' = [cur EXCEPT !.second = Stalled]
    BY <1>0, <1>1, <1>2, <2>1, <2>2, NewSecond DEF Payloads
  <2>3. CASE cur' = [cur EXCEPT !.reply = cur.second, !.second = Stalled, !.rescued = TRUE]
    <3>1. cur'.second = Stalled /\ cur'.reply = cur.second /\ cur'.rescued = TRUE
      BY <1>0, <2>3 DEF Fields
    <3> QED
      BY <1>1, <1>2, <2>1, <3>1 DEF Payloads
  <2> QED
    BY <2>1, <2>2, <2>3 DEF Rescue
<1>9. CASE Count \/ SecondLook \/ SleepCheck
  <2>1. cur' = cur /\ stage' \notin {"probe", "record"}
    BY <1>9 DEF Count, SecondLook, SleepCheck, GoOn, OpenBlock
  <2> QED
    BY <1>1, <2>1 DEF Payloads
<1>10. CASE Alive
  <2>1. cur'.second = Stalled /\ cur'.reply = cur.reply /\ cur'.rescued = cur.rescued
        /\ stage' = "confirm"
    BY <1>0, <1>10, NewSecond DEF Alive, GoOn
  <2> QED
    BY <1>1, <1>2, <2>1 DEF Payloads
<1>11. CASE Confirm
  <2>1. /\ cur' = cur /\ stage' \in {"open", "record"}
        /\ stage' = "record" => ~(cur.reply.status = "POSITIVE" /\ ~cur.rescued)
    BY <1>11 DEF Confirm, NeedsConfirming, OpenBlock, GoOn
  <2>2. stage' = "record" => Generous(cur.reply)
    BY <1>1, <2>1 DEF Generous
  <2> QED
    BY <1>1, <2>1, <2>2 DEF Payloads
<1>12. CASE Confirmed
  <2>1. stage' = "record"
    BY <1>12 DEF Confirmed, GoOn
  <2>2. CASE cur.second.status = "POSITIVE"
    <3>1. cur' = [cur EXCEPT !.reply = cur.second]
      BY <1>12, <2>2 DEF Confirmed
    <3>2. cur'.reply = cur.second /\ cur'.second = cur.second /\ cur'.rescued = cur.rescued
      BY <1>0, <3>1, NewReply
    <3> QED
      BY <1>1, <2>1, <3>2 DEF Payloads
  <2>3. CASE cur.second.status # "POSITIVE"
    <3>1. cur' = [cur EXCEPT !.unconfirmed = TRUE]
      BY <1>12, <2>3 DEF Confirmed
    <3>2. /\ cur'.reply = cur.reply /\ cur'.second = cur.second /\ cur'.rescued = cur.rescued
          /\ cur'.unconfirmed = TRUE
      BY <1>0, <3>1 DEF Fields
    <3> QED
      BY <1>1, <2>1, <3>2 DEF Payloads
  <2> QED
    BY <2>2, <2>3
<1>13. CASE Record
  <2>1. stage' = "next" /\ cur'.rescued = FALSE /\ cur'.second = Stalled
    BY <1>13 DEF Record, NoReading
  <2> QED
    BY <1>2, <2>1 DEF Payloads
<1> QED
  BY <1>0, <1>3, <1>4, <1>5, <1>6, <1>7, <1>8, <1>9, <1>10, <1>11, <1>12, <1>13 DEF LoopStep

LEMMA SameSettled ==
  ASSUME info' = info, Ecu' = Ecu, Did' = Did, asleep => asleep'
  PROVE  Settled => Settled'
BY DEF Settled

LEMMA LoopKeepsSilences ==
  ASSUME LinkInv, Scanner, Asked, DeadlineHeld, Silences, Loop
  PROVE  Silences'
<1>0. /\ LoopStep /\ Fields(cur) /\ run = "sweep" /\ doing = "none"
      /\ Stalled.status = "ADAPTER_ERROR" /\ result \in Results /\ Stalled \in Results
      /\ cur.second \in Results /\ EcusKnown /\ LoopTypes /\ asleep' = asleep
  BY LoopSteps, ResultsAre DEF Scanner, LoopTypes, LinkInv, LinkTypes, Fields, LoopStep,
     Probes, Asks, Opens, Goes, Sets, Still
<1>1. CASE Record
  <2>1. cur'.reply = Stalled
    BY <1>1 DEF Record, NoReading
  <2> QED
    BY <1>0, <2>1 DEF Silences, Silent
<1>2. ASSUME ~Record
      PROVE  /\ info' = info /\ Ecu' = Ecu /\ Did' = Did /\ todo # {}
             /\ (Settled => Settled')
  BY <1>0, <1>2, LoopStays, SameSettled
<1>3. CASE FirstProbe \/ Retry \/ LastAttempt \/ ErrorReread \/ Count
  <2>1. /\ stage' \notin {"sleep", "confirm", "record", "inside", "close"}
        /\ stage' = "open" => purpose' = "error"
    BY <1>3 DEF FirstProbe, Retry, LastAttempt, ErrorReread, Count, OpenBlock, GoOn
  <2> QED
    BY <2>1 DEF Silences, InBlockStages
<1>4. CASE EnterBlock \/ NextCandidate
  <2>1. PICK l : cur' = [cur EXCEPT !.left = l]
    BY <1>4 DEF EnterBlock, NextCandidate
  <2>2. /\ cur'.reply = cur.reply /\ stage' = "inside" /\ stage \in InBlockStages
        /\ purpose' = purpose /\ ~Record
    BY <1>0, <1>4, <2>1, NewLeft DEF EnterBlock, NextCandidate, InBlockStages, Record
  <2> QED
    BY <1>2, <2>2 DEF Silences, Silent
<1>5. CASE LeaveBlock
  <2> DEFINE c == [cur EXCEPT !.second = result]
  <2>1. /\ Fields(c) /\ c.second = result /\ c.reply = cur.reply
        /\ cur' = [c EXCEPT !.left = <<>>]
    BY <1>0, <1>5, NewSecond DEF LeaveBlock
  <2> HIDE DEF c
  <2>2. /\ cur'.second = result /\ cur'.reply = cur.reply
        /\ stage' = "close" /\ stage = "inside" /\ purpose' = purpose /\ ~Record
    BY <1>5, <2>1, NewLeft DEF LeaveBlock, Record
  <2>3. purpose = "silence" /\ result.status = "NO_RESPONSE" =>
           "NO_RESPONSE" \in Truth(Ecu, Did, "Generous") \/ asleep
    BY <1>0, <2>2, InsideSays
  <2> QED
    BY <1>0, <1>2, <2>2, <2>3 DEF Silences, Silent, InBlockStages
<1>6. CASE SecondLook
  <2>1. /\ cur' = cur /\ ~Record /\ stage = "quiet"
        /\ \/ stage' = "open" /\ purpose' = "silence"
           \/ stage' = "sleep" /\ ~(Silent /\ info.mode = "NRC")
    BY <1>6 DEF SecondLook, NeedsSecondLook, OpenBlock, GoOn, Record
  <2>2. CASE stage' = "open" /\ purpose' = "silence"
    BY <2>2 DEF Silences, InBlockStages
  <2>3. CASE stage' = "sleep" /\ ~(Silent /\ info.mode = "NRC")
    <3>1. Silent' = Silent
      BY <2>1 DEF Silent
    <3>2. Silent => Settled
      <4>1. info \in Calibrated /\ info.mode \in {"NRC", "TIMEOUT"} /\ Ecu = info.ecu
        BY <1>0, <1>2, <2>1, FirstEcu
      <4> QED
        BY <2>3, <4>1 DEF Calibrated, Settled
    <3> QED
      BY <1>2, <2>1, <2>3, <3>1, <3>2 DEF Silences, InBlockStages
  <2> QED
    BY <2>1, <2>2, <2>3
<1>7. CASE SilenceReread
  <2>1. stage = "close" /\ purpose = "silence" /\ stage' = "sleep" /\ ~Record
        /\ Rescue(cur.second.status # "NO_RESPONSE")
    BY <1>7 DEF SilenceReread, GoOn, Record
  <2>2. CASE cur.second.status = "NO_RESPONSE"
    <3>1. cur' = [cur EXCEPT !.second = Stalled]
      BY <2>1, <2>2 DEF Rescue
    <3>2. cur'.reply = cur.reply
      BY <1>0, <3>1, NewSecond
    <3>3. Silent => Settled
      BY <2>1, <2>2 DEF Silences, Settled
    <3> QED
      BY <1>2, <2>1, <3>2, <3>3 DEF Silences, Silent, InBlockStages
  <2>3. CASE cur.second.status # "NO_RESPONSE"
    <3>1. cur' = [cur EXCEPT !.reply = cur.second, !.second = Stalled, !.rescued = TRUE]
      BY <2>1, <2>3 DEF Rescue
    <3>2. cur'.reply = cur.second
      BY <1>0, <3>1 DEF Fields
    <3> QED
      BY <2>3, <3>2 DEF Silences, Silent
  <2> QED
    BY <2>2, <2>3
<1>8. CASE SleepCheck \/ Confirm
  <2>1. /\ cur' = cur /\ ~Record /\ stage \in {"sleep", "confirm"}
        /\ \/ stage' = "open" /\ purpose' \in {"liveness", "confirm"}
           \/ stage' \in {"confirm", "record"}
    BY <1>8 DEF SleepCheck, Confirm, OpenBlock, GoOn, Record
  <2> QED
    BY <1>2, <2>1 DEF Silences, Silent, InBlockStages
<1>9. CASE Alive
  <2>1. cur'.reply = cur.reply /\ stage = "close" /\ purpose = "liveness"
        /\ stage' = "confirm" /\ ~Record
    BY <1>0, <1>9, NewSecond DEF Alive, GoOn, Record
  <2> QED
    BY <1>2, <2>1 DEF Silences, Silent, InBlockStages
<1>10. CASE Confirmed
  <2>1. stage = "close" /\ purpose = "confirm" /\ stage' = "record" /\ ~Record
    BY <1>10 DEF Confirmed, GoOn, Record
  <2>2. CASE cur.second.status = "POSITIVE"
    <3>1. cur' = [cur EXCEPT !.reply = cur.second]
      BY <1>10, <2>2 DEF Confirmed
    <3>2. cur'.reply = cur.second
      BY <1>0, <3>1, NewReply
    <3> QED
      BY <2>2, <3>2 DEF Silences, Silent
  <2>3. CASE cur.second.status # "POSITIVE"
    <3>1. cur' = [cur EXCEPT !.unconfirmed = TRUE]
      BY <1>10, <2>3 DEF Confirmed
    <3>2. cur'.reply = cur.reply
      BY <1>0, <3>1 DEF Fields
    <3> QED
      BY <1>2, <2>1, <3>2 DEF Silences, Silent, InBlockStages
  <2> QED
    BY <2>2, <2>3
<1> QED
  BY <1>0, <1>1, <1>3, <1>4, <1>5, <1>6, <1>7, <1>8, <1>9, <1>10 DEF LoopStep

LEMMA LoopKeepsChecking ==
  ASSUME LinkInv, Scanner, Asked, DeadlineHeld, Loop
  PROVE  Checking'
<1>0. LoopStep /\ Fields(cur) /\ run = "sweep" /\ doing = "none" /\ result \in Results
  BY LoopSteps DEF Scanner, LoopTypes, LinkInv, LinkTypes
<1>1. CASE LeaveBlock
  <2> DEFINE c == [cur EXCEPT !.second = result]
  <2>1. /\ Fields(c) /\ c.second = result /\ cur' = [c EXCEPT !.left = <<>>]
    BY <1>0, <1>1, NewSecond DEF LeaveBlock
  <2> HIDE DEF c
  <2>2. /\ cur'.second = result /\ stage = "inside" /\ purpose' = purpose /\ ~Record
        /\ Answered(result) \/ cur.left = <<>>
    BY <1>1, <2>1, NewLeft DEF LeaveBlock, Record
  <2>3. asleep' = asleep
    BY <1>1 DEF LeaveBlock, SetDeadline, carVars
  <2>4. Candidates' = Candidates /\ Ecu' = Ecu
    BY <2>2, LoopStays DEF Candidates
  <2>5. ASSUME ~Answered(result)
        PROVE  asleep \/ result.status = "ADAPTER_ERROR"
               \/ ~AlwaysAnswers(Ecu, Candidates[Len(Candidates)])
    <3>1. \/ result.status = "ADAPTER_ERROR" \/ asleep
          \/ result.status \in Truth(Ecu, Candidates[Len(Candidates)], "Generous")
      BY <1>0, <2>2, <2>5, InsideSays
    <3> QED
      BY <2>5, <3>1 DEF Answered, AlwaysAnswers
  <2>6. Answered(cur.second)' = Answered(result)
    BY <2>2 DEF Answered
  <2> QED
    BY <2>2, <2>3, <2>4, <2>5, <2>6 DEF Checking
<1>2. CASE ~LeaveBlock
  <2>1. stage' # "close"
    BY <1>0, <1>2 DEF LoopStep, FirstProbe, Retry, EnterBlock, NextCandidate, Opens, Goes, Record
  <2> QED
    BY <2>1 DEF Checking
<1> QED
  BY <1>1, <1>2

LEMMA ReadingsKept ==
  ASSUME LinkInv, Scanner, Asked, DeadlineHeld, Payloads, Silences, Checking, Next
  PROVE  Payloads' /\ Silences' /\ Checking'
<1>1. CASE Before /\ UNCHANGED sweepVars
  <2>1. Idle'
    BY <1>1, IdleBefore DEF Idle, sweepVars
  <2> QED
    BY <2>1, IdleReadings
<1>2. CASE BeginSweep
  <2>1. cur'.reply = Stalled /\ cur'.second = Stalled /\ cur'.rescued = FALSE /\ stage' = "next"
    BY <1>2 DEF BeginSweep, Scanner, Placed, Idle, NoReading
  <2>2. Stalled.status = "ADAPTER_ERROR"
    BY ResultsAre
  <2> QED
    BY <2>1, <2>2 DEF Payloads, Silences, Silent, Checking, Generous
<1>3. CASE Trip
  <2>1. /\ UNCHANGED <<run, ecus, todo, stage, purpose, cur>> /\ (run # "off" /\ asleep => asleep')
    BY <1>3 DEF Trip, runVars, sweepVars
  <2>2. Place' = Place /\ Index' = Index
    BY <2>1 DEF Place, Index
  <2>3. info' = info /\ Did' = Did /\ Ecu' = Ecu
    BY <2>1, <2>2 DEF info, Did, Ecu
  <2>4. Payloads'
    BY <2>1 DEF Payloads
  <2>5. CASE run = "off"
    <3>1. Idle
      BY <2>5 DEF Scanner, Placed
    <3>2. Stalled.status = "ADAPTER_ERROR" /\ cur'.reply = Stalled /\ stage' = "next"
      BY <2>1, <3>1, ResultsAre DEF Idle, NoReading
    <3> QED
      BY <2>4, <3>2 DEF Silences, Silent, Checking
  <2>6. CASE run # "off"
    <3>1. Settled => Settled'
      BY <2>1, <2>3, <2>6, SameSettled
    <3>2. Silences'
      BY <2>1, <2>3, <2>6, <3>1 DEF Silences, Silent
    <3>3. Candidates' = Candidates
      BY <2>1, <2>3 DEF Candidates
    <3>4. Checking'
      BY <2>1, <2>3, <2>6, <3>3 DEF Checking
    <3> QED
      BY <2>4, <3>2, <3>4
  <2> QED
    BY <2>5, <2>6
<1>4. CASE Falls \/ Ends
  <2>1. Idle'
    BY <1>4 DEF Falls, Ends, LoopReset, Idle
  <2> QED
    BY <2>1, IdleReadings
<1> QED
  BY <1>1, <1>2, <1>3, <1>4, Steps, LoopKeepsPayloads, LoopKeepsSilences, LoopKeepsChecking


-----------------------------------------------------------------------------
(* Discovery: who is heard.                                                *)

LEMMA FoundIs == Found = {i.ecu : i \in Elements(ecus)}
BY DEF Found, Elements

LEMMA FoundAfterHear ==
  ASSUME EcusKnown, Finding, Hear
  PROVE  /\ \A mode, live :
               ecus' = ecus \o <<Info(Address, mode, live)>>
               /\ mode \in {"NRC", "TIMEOUT"} /\ live \in LiveDids
                  => Found' = Found \cup {Address}
         /\ ecus' = ecus \o <<>> \/ ecus' = ecus => Found' = Found
<1>1. ecus \in Seq(Known) /\ Address \in Ecus
  BY HearsOneOf, NextAddress DEF EcusKnown
<1>2. ecus \o <<>> = ecus
  BY <1>1
<1>3. ecus' = ecus => Found' = Found
  BY DEF Found
<1>4. ASSUME NEW mode \in {"NRC", "TIMEOUT"}, NEW live \in LiveDids,
             ecus' = ecus \o <<Info(Address, mode, live)>>
      PROVE  Found' = Found \cup {Address}
  <2> DEFINE i == Info(Address, mode, live)
  <2>1. i \in Known /\ i.ecu = Address
    BY <1>1, InfoKnown
  <2> HIDE DEF i
  <2>2. Elements(ecus \o <<i>>) = Elements(ecus) \cup {i}
    BY <1>1, <2>1, Joined
  <2>3. Elements(ecus') = Elements(ecus) \cup {i}
    BY <1>4, <2>2 DEF i
  <2>4. Found' = {j.ecu : j \in Elements(ecus')}
    BY DEF Found, Elements
  <2>5. Found = {j.ecu : j \in Elements(ecus)}
    BY FoundIs
  <2> QED
    BY <2>1, <2>3, <2>4, <2>5
<1> QED
  BY <1>2, <1>3, <1>4

LEMMA HearKeepsDiscovering ==
  ASSUME LinkInv, Scanner, Asked, DeadlineHeld, Discovering, Hear
  PROVE  Discovering'
<1>0. /\ Finding /\ EcusKnown /\ run = "discover" /\ run' = run /\ left # {} /\ doing = "none"
      /\ asked /\ asleep' = asleep
  BY HearsOneOf DEF Scanner, Hear, linkVars, carVars
<1> DEFINE did == Head(tries)
           s == result.status
<1>1. /\ did \in Elements(DISCOVERY_DIDS) /\ did \in LiveDids /\ Address \in left
      /\ tries = DISCOVERY_DIDS => did = Vin
      /\ tries = <<Second>> => did = Second
      /\ Vin \in Elements(DISCOVERY_DIDS) /\ Second \in Elements(DISCOVERY_DIDS)
      /\ Elements(DISCOVERY_DIDS) = {Vin, Second} /\ NoDid \in LiveDids
  BY <1>0, FirstTry, NextAddress, DiscoveryDids, Tuples DEF LiveDids
<1>2. s \in Truth(Address, did, "Generous") \/ asleep
  <2>1. Says(result, Question) /\ result # Stalled
    BY <1>0 DEF Asked
  <2>2. result.atst = "Generous"
    BY <1>0, <2>1 DEF DeadlineHeld
  <2>3. Question = <<Address, did>>
    BY <1>0 DEF Question
  <2>4. Question[1] = Address /\ Question[2] = did
    BY <2>3
  <2> QED
    BY <2>1, <2>2, <2>4 DEF Says
<1>3. CASE asleep
  BY <1>0, <1>3 DEF Discovering
<1>4. CASE ~asleep
  <2>1. /\ LiveEcus \subseteq Found \cup left
        /\ Found \cap Nobody = {}
        /\ heard # <<>> => Address \notin Nobody
        /\ heard = <<>> /\ tries = Tail(DISCOVERY_DIDS) => ~AlwaysAnswers(Address, Vin)
    BY <1>0, <1>4 DEF Discovering, Vin
  <2>2. s \in Truth(Address, did, "Generous")
    BY <1>2, <1>4
  <2> HIDE DEF did, s
  <2>3. s \in {"POSITIVE", "NEGATIVE"} => Address \notin Nobody
    BY <1>1, <2>2 DEF Nobody, NeverAnswers
  <2>4. s \notin {"POSITIVE", "NEGATIVE"} => ~AlwaysAnswers(Address, did)
    BY <2>2 DEF AlwaysAnswers
  <2>5. Tail(DISCOVERY_DIDS) = <<Second>> /\ DISCOVERY_DIDS # <<Second>>
    <3>1. Len(DISCOVERY_DIDS) = 2 /\ Len(<<Second>>) = 1
      BY DiscoveryDids, Tuples
    <3> QED
      BY <3>1, DiscoveryDids
  <2>6. ASSUME left' = left \ {Address}, heard' = <<>>, tries' = DISCOVERY_DIDS,
               \/ Found' = Found \cup {Address} /\ Address \notin Nobody
               \/ Found' = Found /\ Address \notin LiveEcus
        PROVE  Discovering'
    BY <2>1, <2>5, <2>6 DEF Discovering
  <2>7. CASE s = "POSITIVE"
    <3>1. ecus' = ecus \o <<Info(Address, "TIMEOUT", did)>>
          /\ left' = left \ {Address} /\ tries' = DISCOVERY_DIDS /\ heard' = <<>>
      BY <1>0, <2>7, HearsOneOf DEF did, s
    <3>2. Found' = Found \cup {Address}
      BY <1>0, <1>1, <3>1, FoundAfterHear
    <3> QED
      BY <2>3, <2>6, <2>7, <3>1, <3>2
  <2>8. CASE s # "POSITIVE" /\ left' # left
    <3>1. /\ tries = <<Second>> /\ left' = left \ {Address} /\ tries' = DISCOVERY_DIDS
          /\ heard' = <<>>
          /\ \/ /\ s = "NEGATIVE" \/ heard # <<>>
                /\ ecus' = ecus \o <<Info(Address, "NRC", NoDid)>>
             \/ /\ s \notin {"POSITIVE", "NEGATIVE"} /\ heard = <<>>
                /\ ecus' = ecus \o <<>>
      BY <1>0, <2>8, HearsOneOf DEF s
    <3>2. CASE s = "NEGATIVE" \/ heard # <<>>
      <4>1. ecus' = ecus \o <<Info(Address, "NRC", NoDid)>>
        BY <3>1, <3>2
      <4>2. Found' = Found \cup {Address}
        BY <1>0, <1>1, <4>1, FoundAfterHear
      <4>3. Address \notin Nobody
        BY <2>1, <2>3, <3>2
      <4> QED
        BY <2>6, <3>1, <4>2, <4>3
    <3>3. CASE s # "NEGATIVE" /\ heard = <<>>
      <4>1. ecus' = ecus \o <<>> /\ s \notin {"POSITIVE", "NEGATIVE"}
        BY <3>1, <3>3
      <4>2. Found' = Found
        BY <1>0, <4>1, FoundAfterHear
      <4>3. ~AlwaysAnswers(Address, Vin) /\ ~AlwaysAnswers(Address, Second)
        BY <1>1, <2>1, <2>4, <2>5, <3>1, <3>3, <4>1
      <4>4. Address \notin LiveEcus
        BY <1>1, <4>3 DEF LiveEcus
      <4> QED
        BY <2>6, <3>1, <4>2, <4>4
    <3> QED
      BY <3>1, <3>2, <3>3
  <2>9. CASE s # "POSITIVE" /\ left' = left
    <3>1. /\ tries = DISCOVERY_DIDS /\ tries' = <<Second>> /\ ecus' = ecus
          /\ heard' = IF s = "NEGATIVE" THEN <<Info(Address, "NRC", NoDid)>> ELSE <<>>
      BY <1>0, <1>1, <2>9, HearsOneOf DEF s
    <3>2. Found' = Found /\ Address' = Address /\ <<Info(Address, "NRC", NoDid)>> # <<>>
      BY <1>0, <2>9, <3>1, FoundAfterHear, Tuples DEF Address
    <3>3. heard' # <<>> => Address \notin Nobody
      BY <2>3, <3>1
    <3>4. heard' = <<>> => ~AlwaysAnswers(Address, Vin)
      BY <1>1, <2>4, <2>9, <3>1, <3>2
    <3> QED
      BY <2>1, <2>9, <3>1, <3>2, <3>3, <3>4 DEF Discovering, Vin
  <2> QED
    BY <2>7, <2>8, <2>9
<1> QED
  BY <1>3, <1>4

LEMMA DiscoveringKept ==
  ASSUME LinkInv, Scanner, Asked, DeadlineHeld, Discovering, Next
  PROVE  Discovering'
<1>0. Finding
  BY DEF Scanner
<1>1. CASE run' # "discover"
  BY <1>1 DEF Discovering
<1>2. ASSUME run' = run, run # "off", UNCHANGED <<ecus, left, tries, heard>>, asleep => asleep'
      PROVE  Discovering'
  <2>1. Found' = Found /\ Address' = Address
    BY <1>2 DEF Found, Address
  <2> QED
    BY <1>2, <2>1 DEF Discovering
<1>3. ASSUME NEW resume \in BOOLEAN, NEW narrowing \in Narrowings, ReadLog(resume, narrowing),
             run' = "discover"
      PROVE  Discovering'
  <2>1. ecus' = <<>> /\ left' = discovery_candidates /\ tries' = DISCOVERY_DIDS
        /\ heard' = heard /\ heard = <<>>
    BY <1>0, <1>3, ReadLogGives DEF ReadLog, Scanner, LogTypes, Finding
  <2>2. Found' = {}
    <3>1. DOMAIN ecus' = {}
      BY <2>1
    <3> QED
      BY <3>1 DEF Found
  <2>3. DISCOVERY_DIDS # Tail(DISCOVERY_DIDS)
    <3>1. Len(DISCOVERY_DIDS) = 2 /\ Len(<<Second>>) = 1
      BY DiscoveryDids, Tuples
    <3> QED
      BY <3>1, DiscoveryDids
  <2>4. LiveEcus \subseteq discovery_candidates
    BY DEF LiveEcus
  <2> QED
    BY <2>1, <2>2, <2>3, <2>4 DEF Discovering
<1>4. CASE AskAddress
  <2>1. run' = run /\ run = "discover" /\ UNCHANGED <<ecus, left, tries, heard>>
        /\ asleep' = asleep
    BY <1>4 DEF AskAddress, Ask, SendDid, carVars
  <2> QED
    BY <1>2, <2>1
<1>5. CASE Trip \/ Falls
  <2>1. run' = run /\ UNCHANGED <<ecus, left, tries, heard>>
    BY <1>5 DEF Trip, Falls, runVars, findVars
  <2>2. run = "off" => run' # "discover"
    BY <2>1
  <2>3. run # "off" => (asleep => asleep')
    BY <1>5 DEF Trip, Falls
  <2> QED
    BY <1>1, <1>2, <2>1, <2>2, <2>3
<1>6. CASE StartRun \/ Discovered \/ AskMiss \/ Calibrate \/ OpenLog \/ WriteRow \/ BeginSweep
  BY <1>1, <1>6 DEF StartRun, Discovered, AskMiss, Calibrate, OpenLog, WriteRow, BeginSweep
<1>7. CASE Loop \/ Ends
  BY <1>1, <1>7 DEF Loop, runVars, Ends, RunOver
<1> QED
  BY <1>1, <1>3, <1>4, <1>5, <1>6, <1>7, Steps, HearKeepsDiscovering DEF Before


-----------------------------------------------------------------------------
(* The log.                                                                *)

LEMMA NoTails == log.tail = <<>> => Tails = {}
<1>1. log.tail = <<>> => Elements(log.tail) = {}
  BY Tuples DEF Elements
<1> QED
  BY <1>1 DEF Tails

\* While nothing is written and nothing is skipped afresh.
LEMMA QuietLog ==
  ASSUME Logged, log' = log, unwritten' = unwritten, unwritten = <<>>,
         run' \notin {"sweep", "off"} /\ skip' \subseteq log.found \cup log.lost \cup Tails,
         run' = "log" => log.tail = <<>>
  PROVE  Logged'
<1>1. Tails' = Tails
  BY DEF Tails
<1> QED
  BY <1>1 DEF Logged

LEMMA BeforeKeepsLogged ==
  ASSUME LinkInv, Scanner, Logged, Before
  PROVE  Logged'
<1>0. Shape(log) /\ unwritten \in Seq(Rows) /\ ecus \in Seq(Known)
  BY DEF Scanner, LogTypes, EcusKnown
<1>1. CASE StartRun \/ AskAddress \/ Hear \/ Discovered \/ AskMiss \/ Calibrate
  <2>1. /\ run \in {"off", "discover", "calibrate"} /\ run' \in {"init", "discover", "calibrate"}
        /\ UNCHANGED <<skip, unwritten, log>>
    BY <1>1 DEF StartRun, AskAddress, Hear, Discovered, AskMiss, Calibrate
  <2>2. unwritten = <<>> /\ skip \subseteq log.found \cup log.lost \cup Tails
    BY <2>1 DEF Logged
  <2> QED
    BY <2>1, <2>2, QuietLog
<1>2. ASSUME NEW resume \in BOOLEAN, NEW narrowing \in Narrowings, ReadLog(resume, narrowing)
      PROVE  Logged'
  <2>1. /\ run = "init" /\ run' \in {"discover", "calibrate"} /\ UNCHANGED <<unwritten, log>>
        /\ skip' = IF resume THEN ReadBack.found ELSE {}
    BY <1>2 DEF ReadLog
  <2>2. unwritten = <<>>
    BY <2>1 DEF Logged
  <2>3. skip' \subseteq log.found \cup log.lost \cup Tails
    BY <1>0, <2>1, ReadBackIs
  <2> QED
    BY <2>1, <2>2, <2>3, QuietLog
<1>3. CASE OpenLog
  <2>1. /\ run = "calibrate" /\ run' = "log" /\ UNCHANGED <<skip, log>> /\ unwritten' = FirstRows
        /\ Uncalibrated = {}
    BY <1>3 DEF OpenLog
  <2>2. /\ FirstRows # <<>> /\ FirstRows[1] = RunRow
        /\ \A i \in DOMAIN FirstRows : FirstRows[i].type \in {"run", "ecu"}
    BY <1>0, <2>1, FirstRowsAre
  <2>3. Tails' = Tails
    BY <2>1 DEF Tails
  <2> QED
    BY <2>1, <2>2, <2>3 DEF Logged
<1>4. CASE WriteRow
  <2> DEFINE row == Head(unwritten)
  <2>1. /\ run = "log" /\ run' = run /\ skip' = skip /\ unwritten # <<>>
        /\ Write(row) /\ unwritten' = Tail(unwritten)
    BY <1>4 DEF WriteRow
  <2>2. row \in Rows /\ row = unwritten[1]
    BY <1>0, <2>1
  <2>3. \A i \in DOMAIN Tail(unwritten) : Tail(unwritten)[i].type \in {"run", "ecu"}
    <3>1. \A i \in DOMAIN Tail(unwritten) : i + 1 \in DOMAIN unwritten
                                            /\ Tail(unwritten)[i] = unwritten[i + 1]
      BY <1>0, <2>1
    <3> QED
      BY <3>1 DEF Logged
  <2> HIDE DEF row
  <2>4. /\ Shape(log') /\ log'.tail = <<>>
        /\ log.found \subseteq log'.found
        /\ log'.lost = log.lost \cup Tails
        /\ log.tail = <<>> => log'.spoilt = log.spoilt
        /\ log'.spoilt \subseteq log.spoilt \cup {row.type}
    BY <1>0, <2>1, <2>2, WriteDoes
  <2>5. log'.spoilt \subseteq {"run"}
    BY <2>1, <2>2, <2>4, RowParts DEF Logged
  <2>6. skip' \subseteq log'.found \cup log'.lost \cup Tails'
    BY <2>1, <2>4 DEF Logged
  <2> QED
    BY <2>1, <2>3, <2>4, <2>5, <2>6 DEF Logged
<1> QED
  BY <1>1, <1>2, <1>3, <1>4 DEF Before

LEMMA BeginSweepKeepsLogged ==
  ASSUME Scanner, Logged, BeginSweep
  PROVE  Logged'
<1>1. /\ run = "log" /\ run' = "sweep" /\ unwritten = <<>> /\ skip' = {} /\ todo' = Pending
      /\ UNCHANGED <<ecus, unwritten, log>>
  BY DEF BeginSweep
<1>2. log.tail = <<>> /\ skip \subseteq log.found \cup log.lost
  BY <1>1, NoTails DEF Logged
<1>3. ASSUME NEW i \in DOMAIN ecus, NEW k \in DOMAIN Dids
      PROVE  <<i, k>> \in Pending \/ <<ecus[i].ecu, Dids[k]>> \in Kept
  <2>1. <<i, k>> \in (DOMAIN ecus) \X (DOMAIN Dids) /\ <<i, k>>[1] = i /\ <<i, k>>[2] = k
    OBVIOUS
  <2>2. <<i, k>> \in Pending \/ <<ecus[i].ecu, Dids[k]>> \in skip
    BY <2>1 DEF Pending, Skipped
  <2> QED
    BY <1>2, <2>2 DEF Kept
<1>4. Kept' = Kept
  BY <1>1 DEF Kept
<1> QED
  BY <1>1, <1>2, <1>3, <1>4 DEF Logged

LEMMA LoopKeepsLogged ==
  ASSUME LinkInv, Scanner, Logged, Loop
  PROVE  Logged'
<1>0. /\ LoopStep /\ UNCHANGED <<run, ecus, skip, unwritten>> /\ run = "sweep" /\ doing = "none"
      /\ Shape(log) /\ log.tail = <<>> /\ ~Lost
  BY LoopSteps DEF runVars, Scanner, LogTypes, Logged, Lost
<1>1. CASE Record
  <2>1. /\ Write(DidRow(Here, cur.reply.status)) /\ stage = "record"
        /\ todo' = todo \ {<<Place, Index>>}
    BY <1>1 DEF Record
  <2>2. DidRow(Here, cur.reply.status) \in Rows
    BY <1>0, <2>1, RowsInFlight
  <2>3. /\ log'.tail = <<>> /\ log'.spoilt = log.spoilt /\ log'.lost = log.lost \cup Tails
        /\ log.found \subseteq log'.found /\ log.erred \subseteq log'.erred
        /\ Here \in log'.found \cup log'.erred
    <3>1. DidRow(Here, cur.reply.status).type = "did" /\ DidRow(Here, cur.reply.status).of = Here
      BY DEF DidRow, Row
    <3> QED
      BY <1>0, <2>1, <2>2, <3>1, WriteDoes
  <2>4. Kept \subseteq Kept' /\ Here \in Kept'
    BY <2>3 DEF Kept
  <2>5. Here = <<ecus[Place].ecu, Dids[Index]>>
    BY DEF Here, Ecu, info, Did
  <2>6. ASSUME NEW i \in DOMAIN ecus, NEW k \in DOMAIN Dids
        PROVE  <<i, k>> \in todo' \/ <<ecus[i].ecu, Dids[k]>> \in Kept'
    <3>1. <<i, k>> \in todo \/ <<ecus[i].ecu, Dids[k]>> \in Kept
      BY <1>0 DEF Logged
    <3>2. CASE <<i, k>> = <<Place, Index>>
      <4>1. i = Place /\ k = Index
        BY <3>2
      <4> QED
        BY <2>4, <2>5, <4>1
    <3>3. CASE <<i, k>> # <<Place, Index>>
      BY <2>1, <2>4, <3>1, <3>3
    <3> QED
      BY <3>2, <3>3
  <2> QED
    BY <1>0, <2>3, <2>6 DEF Logged
<1>2. CASE ~Record
  <2>1. log' = log /\ todo' = todo
    BY <1>0, <1>2, LoopStays DEF LoopStep, Probes, Opens, Goes, LeaveBlock
  <2>2. Kept' = Kept
    BY <2>1 DEF Kept
  <2> QED
    BY <1>0, <2>1, <2>2 DEF Logged
<1> QED
  BY <1>1, <1>2

LEMMA LoggedKept ==
  ASSUME LinkInv, Scanner, Logged, Next
  PROVE  Logged'
<1>1. CASE Trip \/ Falls
  <2>1. /\ UNCHANGED <<run, ecus, skip, unwritten, log>>
        /\ \/ Lost' = Lost /\ todo' = todo
           \/ Lost'
    BY <1>1 DEF Trip, Falls, runVars, sweepVars, Lost
  <2>2. Kept' = Kept /\ Tails' = Tails
    BY <2>1 DEF Kept, Tails
  <2> QED
    BY <2>1, <2>2 DEF Logged
<1>2. CASE Ends
  <2>1. run' = "off" /\ skip' = {} /\ unwritten' = <<>>
    BY <1>2 DEF Ends, RunOver
  <2>2. Shape(log) /\ (run = "sweep" => log.tail = <<>>) /\ log.spoilt \subseteq {"run"}
    BY DEF Scanner, LogTypes, Logged
  <2>3. log'.spoilt = log.spoilt
    <3>1. CASE log' = log
      BY <3>1
    <3>2. CASE run = "sweep" /\ Write(EndRow)
      BY <2>2, <3>2, WriteDoes, RowParts
    <3>3. CASE run = "sweep" /\ stage # "next" /\ Write(DidRow(Here, cur.reply.status))
      BY <2>2, <3>3, WriteDoes, RowsInFlight
    <3>4. CASE \E row \in InFlight : Cut(row)
      BY <2>2, <3>4, CutDoes, RowsInFlight
    <3> QED
      BY <1>2, <3>1, <3>2, <3>3, <3>4 DEF Ends
  <2> QED
    BY <2>1, <2>2, <2>3 DEF Logged
<1> QED
  BY <1>1, <1>2, Steps, BeforeKeepsLogged, BeginSweepKeepsLogged, LoopKeepsLogged


-----------------------------------------------------------------------------
(* The inductive invariant.                                                *)

IInv ==
    /\ LinkInv /\ Scanner
    /\ Asked /\ Deadline /\ DeadlineHeld
    /\ Payloads /\ Silences
    /\ Discovering /\ Checking
    /\ Logged

LEMMA InitLink == Init => LinkInv
<1> SUFFICES ASSUME Init PROVE LinkInv
  OBVIOUS
<1>1. /\ header = Functional /\ atst = "Default" /\ pending = <<>>
      /\ writing = <<>> /\ astray = FALSE /\ asleep = FALSE /\ naps = 0
      /\ wire = <<>> /\ cached = NoEcu /\ script = <<>> /\ waiting = FALSE
      /\ doing = "none" /\ result = Stalled /\ deadline = "Sweep" /\ run = "off"
  BY DEF Init, LinkInit, StartInit
<1>2. LinkTypes
  <2>1. naps \in 0..MaxNaps
    BY <1>1, Constants
  <2>2. asleep \in BOOLEAN /\ waiting \in BOOLEAN
    BY <1>1
  <2>3. result \in Results /\ deadline \in Deadlines
    BY <1>1, ResultsAre DEF Deadlines
  <2>4. pending \in Seq(Written) /\ wire \in Seq(Pieces)
    BY <1>1
  <2> QED
    BY <1>1, <2>1, <2>2, <2>3, <2>4 DEF LinkTypes
<1>3. Scripted
  BY <1>1 DEF Scripted
<1>4. ReadsAimed
  <2>1. DOMAIN pending = {}
    BY <1>1
  <2> QED
    BY <1>1, <2>1 DEF ReadsAimed
<1>5. BannerLast /\ InStep
  BY <1>1 DEF BannerLast, InStep, Lost
<1> QED
  BY <1>2, <1>3, <1>4, <1>5 DEF LinkInv

LEMMA InitScanner == Init => Scanner /\ Logged
<1> SUFFICES ASSUME Init PROVE Scanner /\ Logged
  OBVIOUS
<1>1. /\ run = "off" /\ runs = 0 /\ doing = "none" /\ result = Stalled
      /\ ecus = <<>> /\ skip = {} /\ unwritten = <<>>
      /\ left = {} /\ tries = <<>> /\ heard = <<>> /\ asked = FALSE
      /\ todo = {} /\ stage = "next" /\ purpose = "none" /\ cur = NoReading
      /\ errors = 0 /\ silence = 0 /\ log = EmptyLog
  BY DEF Init, LinkInit, StartInit
<1>2. RunTypes
  <2>1. runs \in 0..MaxRuns
    BY <1>1, Constants
  <2>2. asked \in BOOLEAN
    BY <1>1
  <2> QED
    BY <1>1, <2>1, <2>2 DEF RunTypes, Stages
<1>3. Idle /\ Placed
  BY <1>1 DEF Placed, Idle
<1>4. EcusKnown /\ Finding
  BY <1>1 DEF EcusKnown, Finding
<1>5. LoopTypes
  <2>1. /\ cur.reply = Stalled /\ cur.second = Stalled /\ cur.attempt = 0
        /\ cur.rescued = FALSE /\ cur.unconfirmed = FALSE
        /\ cur = [attempt |-> cur.attempt, reply |-> cur.reply, second |-> cur.second,
                  left |-> cur.left, rescued |-> cur.rescued, unconfirmed |-> cur.unconfirmed]
    BY <1>1 DEF NoReading
  <2>2. /\ 0 \in 0..ADAPTER_ERROR_ATTEMPTS /\ errors \in 0..(MAX_CONSECUTIVE_ERRORS - 1)
        /\ silence \in 0..SLEEP_SUSPICION_PROBES /\ silence # SLEEP_SUSPICION_PROBES
    BY <1>1, Constants
  <2>3. Fields(cur)
    BY <2>1, <2>2, ResultsAre DEF Fields
  <2> QED
    BY <1>1, <2>2, <2>3 DEF LoopTypes, InBlockStages
<1>6. /\ log.found = {} /\ log.erred = {} /\ log.ecus = <<>> /\ log.tail = <<>>
      /\ log.spoilt = {} /\ log.lost = {}
      /\ log = [found |-> log.found, erred |-> log.erred, ecus |-> log.ecus,
                tail |-> log.tail, spoilt |-> log.spoilt, lost |-> log.lost]
  BY <1>1 DEF EmptyLog
<1>7. LogTypes
  BY <1>1, <1>6 DEF LogTypes, Shape
<1>8. Logged
  <2>1. DOMAIN unwritten = {}
    BY <1>1
  <2> QED
    BY <1>1, <1>6, <2>1 DEF Logged
<1> QED
  BY <1>2, <1>3, <1>4, <1>5, <1>7, <1>8 DEF Scanner

LEMMA InitInv == Init => IInv
<1> SUFFICES ASSUME Init PROVE IInv
  OBVIOUS
<1>1. /\ run = "off" /\ doing = "none" /\ result = Stalled /\ asked = FALSE
      /\ deadline = "Sweep" /\ stage = "next" /\ cur = NoReading
  BY DEF Init, LinkInit, StartInit
<1>2. /\ cur.reply = Stalled /\ cur.second = Stalled /\ cur.rescued = FALSE
      /\ Stalled.status = "ADAPTER_ERROR"
  BY <1>1, ResultsAre DEF NoReading
<1>3. Asked /\ Deadline /\ DeadlineHeld /\ Discovering /\ Checking
  BY <1>1 DEF Asked, Deadline, DeadlineHeld, Discovering, Checking, Lost
<1>4. Payloads /\ Silences
  BY <1>1, <1>2 DEF Payloads, Silences, Silent, Generous
<1> QED
  BY <1>3, <1>4, InitLink, InitScanner DEF IInv

LEMMA NextInv == IInv /\ Next => IInv'
<1> SUFFICES ASSUME IInv, Next PROVE IInv'
  OBVIOUS
<1>1. LinkInv' /\ Scanner'
  BY NextMoves, MoveKeepsLink, ScannerKept DEF IInv
<1>2. Asked' /\ Deadline' /\ DeadlineHeld'
  BY AskedKept, DeadlineKept DEF IInv
<1>3. Payloads' /\ Silences' /\ Checking' /\ Discovering' /\ Logged'
  BY ReadingsKept, DiscoveringKept, LoggedKept DEF IInv
<1> QED
  BY <1>1, <1>2, <1>3 DEF IInv

LEMMA StutterInv == IInv /\ UNCHANGED vars => IInv'
<1> SUFFICES ASSUME IInv, UNCHANGED vars PROVE IInv'
  OBVIOUS
<1> USE DEF vars, linkVars, boardVars, carVars, hostVars, runVars, findVars, sweepVars
<1>1. Lost' = Lost /\ Resetting' = Resetting
  BY DEF Lost, Resetting
<1>2. LinkTypes' /\ Scripted' /\ ReadsAimed'
  BY DEF IInv, LinkInv, LinkTypes, Scripted, ReadsAimed
<1>3. BannerLast'
  BY <1>1 DEF IInv, LinkInv, BannerLast
<1>4. InStep'
  BY <1>1 DEF IInv, LinkInv, InStep, Underway, ReplyTo
<1>5. /\ Place' = Place /\ Index' = Index /\ Address' = Address
      /\ Uncalibrated' = Uncalibrated /\ Aim' = Aim /\ Found' = Found /\ Kept' = Kept
      /\ Tails' = Tails
  BY DEF Place, Index, Address, Uncalibrated, Aim, Found, Kept, Tails
<1>6. info' = info /\ Did' = Did /\ Ecu' = Ecu
  BY <1>5 DEF info, Did, Ecu
<1>7. Candidates' = Candidates /\ Settled' = Settled /\ Silent' = Silent
  BY <1>6 DEF Candidates, Settled, Silent
<1>8. Question' = Question
  BY SameQuestion
<1>9. RunTypes' /\ Placed' /\ EcusKnown' /\ Finding'
  BY <1>1, <1>5 DEF IInv, Scanner, RunTypes, Placed, Idle, EcusKnown, Finding
<1>10. LoopTypes' /\ LogTypes'
  BY <1>6 DEF IInv, Scanner, LoopTypes, LogTypes
<1>11. Asked' /\ Deadline' /\ DeadlineHeld'
  BY <1>1, <1>5, <1>8 DEF IInv, Asked, Says, Deadline, DeadlineHeld
<1>12. Payloads' /\ Silences'
  BY <1>6, <1>7 DEF IInv, Payloads, Silences
<1>13. Discovering' /\ Checking'
  BY <1>5, <1>6, <1>7 DEF IInv, Discovering, Checking
<1>14. Logged'
  BY <1>1, <1>5 DEF IInv, Logged
<1> QED
  BY <1>2, <1>3, <1>4, <1>9, <1>10, <1>11, <1>12, <1>13, <1>14 DEF IInv, LinkInv, Scanner

LEMMA Invariance == Spec => []IInv
<1>1. IInv /\ [Next]_vars => IInv'
  BY NextInv, StutterInv
<1> QED
  BY InitInv, <1>1, PTL DEF Spec

-----------------------------------------------------------------------------
(* What it says of the scanner.                                            *)

LEMMA AtMostOne ==
  ASSUME NEW s, s = <<>> \/ \E x : s = <<x>>
  PROVE  Len(s) <= 1
<1>1. CASE s = <<>>
  BY <1>1
<1>2. ASSUME NEW x, s = <<x>> PROVE Len(s) <= 1
  <2>1. Len(s) = 1
    BY <1>2, Tuples
  <2> QED
    BY <2>1
<1> QED
  BY <1>1, <1>2

LEMMA ScriptsHoldCommands ==
  ASSUME LinkTypes, Scripted
  PROVE  script # <<>> <=> doing \notin {"none", "failed"}
<1>1. CASE doing \in {"none", "failed"}
  BY <1>1 DEF Scripted
<1>2. CASE doing \in {"init", "recover"}
  <2>1. PICK which \in Deadlines : script \in Resets(which)
    BY <1>2 DEF Scripted
  <2>2. script # <<>>
    BY <2>1, Tuples DEF Resets
  <2> QED
    BY <1>2, <2>2
<1>3. CASE doing \in {"deadline", "unwind"}
  <2>1. PICK which \in Deadlines : script = <<ATST(which)>>
    BY <1>3 DEF Scripted
  <2>2. script # <<>>
    BY <2>1, Tuples
  <2> QED
    BY <1>3, <2>2
<1>4. CASE doing \in {"ask", "probe"}
  <2>1. PICK pair \in Pairs :
           \/ script = <<ATSH(pair[1]), Read(pair[1], pair[2])>>
           \/ script = <<Read(pair[1], pair[2])>>
    BY <1>4 DEF Scripted
  <2>2. script # <<>>
    BY <2>1, Tuples
  <2> QED
    BY <1>4, <2>2
<1> QED
  BY <1>1, <1>2, <1>3, <1>4 DEF LinkTypes

\* Types, and the bounds of the loop's counters (did_scan.py:627-653,712-766).
THEOREM TypesHold == Spec => []TypeOK
<1>1. ASSUME IInv PROVE TypeOK
  <2>1. LinkTypes /\ Scripted /\ RunTypes /\ Placed /\ EcusKnown /\ Finding /\ LoopTypes
        /\ Shape(log) /\ Fields(cur)
    BY <1>1 DEF IInv, LinkInv, Scanner, LogTypes, LoopTypes
  <2>2. Len(writing) <= 1
    <3>1. writing = <<>> \/ \E reply : writing = <<reply>>
      BY <2>1 DEF LinkTypes
    <3> QED
      BY <3>1, AtMostOne
  <2>3. script # <<>> <=> doing \notin {"none", "failed"}
    BY <2>1, ScriptsHoldCommands
  <2>4. {asleep, waiting, astray} \subseteq BOOLEAN
    <3>1. astray = FALSE
      BY <1>1 DEF IInv, LinkInv, ReadsAimed
    <3> QED
      BY <2>1, <3>1 DEF LinkTypes
  <2>5. result.status \in Status /\ result.fresh \in BOOLEAN
    BY <2>1, ResultsAre DEF LinkTypes
  <2>6. header # NoEcu
    BY <2>1, Constants DEF LinkTypes
  <2>7. LinkTypeOK
    <3>1. /\ atst \in {"Sweep", "Generous", "Default"} /\ naps \in 0..MaxNaps
          /\ deadline \in {"Sweep", "Generous"}
          /\ doing \in {"none", "init", "deadline", "ask", "probe", "recover", "unwind", "failed"}
          /\ waiting => script # <<>>
      BY <2>1 DEF LinkTypes, Deadlines, Scripted
    <3> QED
      BY <2>2, <2>3, <2>4, <2>5, <2>6, <3>1 DEF LinkTypeOK
  <2>8. StartTypeOK
    <3>1. ASSUME NEW i \in DOMAIN ecus
          PROVE  /\ ecus[i].mode \in {"NRC", "TIMEOUT"}
                 /\ ecus[i].live \in Elements(DISCOVERY_DIDS) \cup {NoDid}
      BY <2>1 DEF EcusKnown, Known, Infos, LiveDids
    <3>2. Len(heard) <= 1
      <4>1. heard = <<>> \/ \E i : heard = <<i>>
        BY <2>1 DEF Finding, RunTypes
      <4> QED
        BY <4>1, AtMostOne
    <3> QED
      BY <2>1, <3>1, <3>2 DEF StartTypeOK, RunTypes, Placed, Finding
  <2>9. Len(log.tail) <= 1
    <3>1. log.tail = <<>> \/ \E row : log.tail = <<row>>
      BY <2>1 DEF Shape
    <3> QED
      BY <3>1, AtMostOne
  <2>10. {cur.reply.status, cur.second.status} \subseteq Status
    BY <2>1, ResultsAre DEF Fields
  <2>11. /\ todo \subseteq (DOMAIN ecus) \X (DOMAIN Dids)
         /\ errors \in 0..(MAX_CONSECUTIVE_ERRORS - 1)
         /\ silence \in 0..SLEEP_SUSPICION_PROBES
         /\ cur.attempt \in 0..ADAPTER_ERROR_ATTEMPTS
    BY <2>1, Zenon DEF LoopTypes, Fields
  <2>12. /\ stage \in {"next", "probe", "open", "inside", "close",
                       "count", "quiet", "sleep", "confirm", "record"}
         /\ purpose \in {"none", "error", "silence", "liveness", "confirm"}
    BY <2>1 DEF RunTypes, Stages, Blocks
  <2>13. log.spoilt \subseteq {"run", "ecu", "did", "end"}
    BY <1>1 DEF IInv, Logged
  <2> QED
    BY <2>7, <2>8, <2>9, <2>10, <2>11, <2>12, <2>13, Zenon DEF TypeOK
<1> QED
  BY <1>1, Invariance, PTL

\* Whenever the host takes something for an answer, it is the answer to the
\* request it is waiting for, however late the board wrote the replies to
\* earlier ones (did_scan.py:139-173,212-228).
THEOREM RepliesArePaired == Spec => []Paired
<1>1. IInv => Paired
  BY ResultsAre DEF IInv, LinkInv, LinkTypes, Paired
<1> QED
  BY <1>1, Invariance, PTL

\* Every request goes to the ECU it is recorded for, and none to the functional
\* address, however often the board is reset under the header cache
\* (did_scan.py:124-137,199-209).
THEOREM RequestsAreAimed == Spec => []OnlyItsEcu
<1>1. IInv => OnlyItsEcu
  BY DEF IInv, LinkInv, ReadsAimed, OnlyItsEcu
<1> QED
  BY <1>1, Invariance, PTL

\* Every read is made at the deadline its place in the run relies on, whatever
\* recoveries came between (did_scan.py:537-577).
THEOREM DeadlinesAreHeld == Spec => []DeadlineHeld
<1>1. IInv => DeadlineHeld
  BY DEF IInv
<1> QED
  BY <1>1, Invariance, PTL

\* Discovery finds the ECUs that answer and no others, and the liveness check
\* gives up on none that would answer its last question
\* (did_scan.py:322-371,712-766).
THEOREM LiveEcusAreFound == Spec => []LiveEcusAreHeard
<1>1. ASSUME IInv PROVE LiveEcusAreHeard
  <2>1. Discovering /\ Checking
    BY <1>1 DEF IInv
  <2>2. run = "discover" /\ left = {} =>
           asleep \/ (LiveEcus \subseteq Found /\ Found \cap Nobody = {})
    BY <2>1 DEF Discovering
  <2> QED
    BY <2>1, <2>2 DEF LiveEcusAreHeard, Checking, Found
<1> QED
  BY <1>1, Invariance, PTL

\* No payload is recorded that came under the sweep's deadline without being
\* flagged (did_scan.py:780-808).
THEOREM PayloadsAreTrusted == Spec => []PayloadsAreGenerous
<1>1. IInv => PayloadsAreGenerous
  BY DEF IInv, Payloads, Generous, PayloadsAreGenerous
<1> QED
  BY <1>1, Invariance, PTL

\* No DID that answers, given the time, is recorded as a silence on an ECU
\* that rejects what it does not serve (did_scan.py:670-701).
THEOREM SilencesAreTrusted == Spec => []NothingBuried
<1>1. IInv => NothingBuried
  BY DEF IInv, Silences, Settled, NothingBuried
<1> QED
  BY <1>1, Invariance, PTL

\* Whatever is killed and when, the log loses run rows only, and a sweep that
\* ends by itself has left a row for each of its DIDs
\* (did_scan.py:425-476; didscan_core.py:190-276).
THEOREM LogsAreWhole == Spec => []LogIsWhole
<1>1. ASSUME IInv PROVE LogIsWhole
  <2>1. Logged /\ Shape(log)
    BY <1>1 DEF IInv, Scanner, LogTypes
  <2>2. ASSUME run = "sweep", doing = "none", todo = {}
        PROVE  {ecus[i].ecu : i \in DOMAIN ecus} \X Elements(Dids)
                  \subseteq ReadBack.found \cup ReadBack.erred \cup log.lost
    <3>1. ReadBack = log
      BY <2>1, <2>2, ReadBackIs DEF Logged
    <3>2. \A i \in DOMAIN ecus, k \in DOMAIN Dids : <<ecus[i].ecu, Dids[k]>> \in Kept
      BY <2>1, <2>2 DEF Logged, Lost
    <3>3. \A e \in {ecus[i].ecu : i \in DOMAIN ecus}, d \in Elements(Dids) : <<e, d>> \in Kept
      BY <3>2 DEF Elements
    <3> QED
      BY <3>1, <3>3 DEF Kept
  <2> QED
    BY <2>1, <2>2 DEF LogIsWhole, Logged
<1> QED
  BY <1>1, Invariance, PTL
=============================================================================
