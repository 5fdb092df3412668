-------------------------- MODULE MCIsoTpTransfer --------------------------
(* Responses and setups for TLC's instances of IsoTpTransfer.              *)
EXTENDS IsoTpTransfer

\* Every boundary of segmentation and of the reply's lines: single frames,
\* exact and ragged ends, fifteen to eighteen consecutive frames.
Short == {1, 6, 7, 8, 12, 13, 14, 20}
Long  == {107, 111, 118, 119, 132}
\* A positive response whose bytes differ, or a rejection.
PositiveResponse(n) == [i \in 1..n |-> IF i = 1 THEN 98 ELSE i]
ShortResponses == {PositiveResponse(n) : n \in Short} \cup {<<127, 34, 49>>}
Responses == ShortResponses \cup {PositiveResponse(n) : n \in Long}

\* A DLC above eight is reported only with normal addressing, or ...
WithinLimits == {[extended |-> FALSE, dlcs |-> {8, 9, 15}],
                 [extended |-> TRUE,  dlcs |-> {1, 8}]}
\* ... with extended addressing too.
Oversized == {[extended |-> TRUE, dlcs |-> {8, 9}]}
=============================================================================
