-------------------------- MODULE ExclusiveSession --------------------------
(***************************************************************************)
(* What link/session_owner.h promises of the one Elm327Session: a single   *)
(* token decides which transport may use it, a transport runs a command    *)
(* only while it holds the token, at most one command runs at a time, and  *)
(* the token is never given up under a running command.                    *)
(*                                                                         *)
(* LinkArbitration implements this specification.                          *)
(***************************************************************************)
CONSTANTS Links,   \* the transports that may serve the session
          None     \* LinkId::None: nobody holds it, and none of Links

VARIABLES holder,   \* sessionOwner()
          running   \* the transports now inside Elm327Session::handleLine

vars == <<holder, running>>

Init == holder = None /\ running = {}

\* A transport takes a free session; it cannot take a held one.
Claim(link) ==
    /\ holder = None
    /\ holder' = link
    /\ UNCHANGED running

\* The holder, and only the holder, runs one command.
Begin(link) ==
    /\ holder = link
    /\ running = {}
    /\ running' = {link}
    /\ UNCHANGED holder

End(link) ==
    /\ link \in running
    /\ running' = running \ {link}
    /\ UNCHANGED holder

\* The holder leaves, between commands.
Release(link) ==
    /\ holder = link
    /\ link \notin running
    /\ holder' = None
    /\ UNCHANGED running

Next == \E link \in Links :
            Claim(link) \/ Begin(link) \/ End(link) \/ Release(link)

Spec == Init /\ [][Next]_vars
=============================================================================
