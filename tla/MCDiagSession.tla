--------------------------- MODULE MCDiagSession ---------------------------
(* Commands for TLC's instances of DiagSession.                            *)
EXTENDS DiagSession

CONSTANTS e1, e2

Cmd(to, sid, did, responses) ==
    [to |-> to, sid |-> sid, did |-> did, responses |-> responses]

\* Two identifiers that differ in their last byte, on one ECU.
OneEcu == {Cmd(e1, 34, <<1, 1>>, TRUE), Cmd(e1, 34, <<1, 5>>, TRUE)}

\* The client changes header, fires and forgets, writes, and asks the functional
\* address in between.
Mixed == OneEcu \cup {Cmd(e2, 34, <<1, 1>>, TRUE), Cmd(e1, 34, <<1, 1>>, FALSE),
                      Cmd(e1, 46, <<1, 1>>, TRUE), Cmd(All, 1, <<1>>, TRUE)}
=============================================================================
