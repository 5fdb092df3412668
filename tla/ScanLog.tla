------------------------------ MODULE ScanLog ------------------------------
(***************************************************************************)
(* The scanner's log: what class Recorder (tools/did_scan.py) appends, a   *)
(* row at a time, and what already_scanned() and recorded_ecus()           *)
(* (tools/didscan_core.py) read back of it.                                *)
(*                                                                         *)
(* found and erred: the <<ecu, DID>> with a readable row, other than       *)
(* ADAPTER_ERROR and of it.  ecus: the readable ecu rows, the last of an   *)
(* ECU at the place of its first.  tail: the last row, if a kill left it   *)
(* without its newline, "torn" if it misses more or nobody reads its type; *)
(* what is appended next becomes part of that line.  History: the types of *)
(* complete rows that went that way (spoilt), and the pairs whose row had  *)
(* been readable before something was appended to it (lost).               *)
(***************************************************************************)
EXTENDS Naturals, Sequences

VARIABLE log

Elements(s) == {s[i] : i \in DOMAIN s}

Row(type, of, status) == [type |-> type, of |-> of, status |-> status]
RunRow == Row("run", "none", "none")
EndRow == Row("end", "none", "none")
TornRow == Row("torn", "none", "none")
EcuRow(info) == Row("ecu", info, "none")
DidRow(pair, status) == Row("did", pair, status)

EmptyLog == [found |-> {}, erred |-> {}, ecus |-> <<>>, tail |-> <<>>,
             spoilt |-> {}, lost |-> {}]

SameEcu(info) == {i \in DOMAIN log.ecus : log.ecus[i].ecu = info.ecu}

With(row) ==
    CASE row.type = "ecu" ->
                [log EXCEPT !.ecus = IF SameEcu(row.of) = {} THEN Append(@, row.of)
                                     ELSE [i \in DOMAIN @ |->
                                              IF i \in SameEcu(row.of) THEN row.of ELSE @[i]]]
      [] row.type = "did" /\ row.status = "ADAPTER_ERROR" ->
                [log EXCEPT !.erred = @ \cup {row.of}]
      [] row.type = "did" /\ row.status # "ADAPTER_ERROR" ->
                [log EXCEPT !.found = @ \cup {row.of}]
      [] OTHER -> log

\* _records(): a line that does not parse is skipped.
ReadBack == IF log.tail = <<>> THEN log ELSE With(log.tail[1])

Tails == {r.of : r \in {t \in Elements(log.tail) : t.type = "did"}}
Write(row) == log' = IF log.tail = <<>> THEN With(row)
                     ELSE [log EXCEPT !.tail = <<>>, !.spoilt = @ \cup {row.type},
                                      !.lost = @ \cup Tails]
\* Killed while the row was written, which it may lack no more than its newline.
Cut(row) ==
    \/ /\ log.tail = <<>> /\ row.type \in {"ecu", "did"}
       /\ log' = [log EXCEPT !.tail = <<row>>]
    \/ log' = [log EXCEPT !.tail = <<TornRow>>, !.lost = @ \cup Tails]
=============================================================================
