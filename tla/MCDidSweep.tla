----------------------------- MODULE MCDidSweep -----------------------------
(* A small car for TLC: the BMS at 7E4 rejects what it does not serve, which *)
(* is all but DID 1; the gateway at 770 is silent on it, and serves its VIN. *)
(* Nobody is at 7E0.  Addresses are numbers, as in discovery_candidates().   *)
EXTENDS DidSweep

Gateway == 1904  \* 770
Broadcast == 2015  \* 7DF
Vacant == 2016  \* 7E0
Bms == 2020  \* 7E4
Block == {Gateway, Broadcast, Vacant, Bms}
OneDid == << <<1, 1>>, <<1, 1>> >>
AnyEcu == {<<>>, <<Bms>>, <<Broadcast>>}
EveryEcu == {<<>>}

\* Replies so large that they may miss the sweep deadline, as a silence or as
\* a CAN ERROR.
Large == {<<Bms, 1>>, <<Gateway, 61840>>}

CarAnswers(pair, which, sleeping) ==
    IF sleeping THEN {"NO_RESPONSE"}
    ELSE IF pair \in Large /\ which # "Generous"
         THEN {"POSITIVE", "NO_RESPONSE", "ADAPTER_ERROR"}
    ELSE IF pair \in Large THEN {"POSITIVE"}
    ELSE IF pair[1] = Bms THEN {"NEGATIVE"} ELSE {"NO_RESPONSE"}
=============================================================================
