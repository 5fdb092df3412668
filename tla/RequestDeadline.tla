-------------------------- MODULE RequestDeadline --------------------------
(***************************************************************************)
(* The deadline of runRequest (elm327/session.cpp:96-100): a 32-bit        *)
(* millisecond counter that wraps, a deadline computed from it with the    *)
(* same wrap, and a loop that compares the two with `<' once per turn.     *)
(* Time passes in a turn's calls to the driver: canBusReceive waits up to  *)
(* 10 ms, and sending flow control up to 50.                               *)
(***************************************************************************)
EXTENDS Naturals

CONSTANTS Wrap,      \* values millis() can take (2^32)
          Timeouts,  \* values of state_.timeoutMs
          Turn,      \* the longest one turn of the loop may take (60)
          MaxIdle    \* bound: milliseconds passed at once between requests

ASSUME DeadlineAssumption ==
    /\ Wrap \in Nat \ {0}
    /\ Timeouts \subseteq 1..(Wrap - 1)
    /\ Turn \in 1..(Wrap - 1)
    /\ MaxIdle \in 1..(Wrap - 1)

VARIABLES now,       \* millis()
          task,      \* "idle" | "check" | "receive"
          timeout,   \* state_.timeoutMs
          deadline,
          outcome,   \* "none" | "answered" | "NoData"
          (* history *)
          begun,     \* millis() when the deadline was computed
          elapsed    \* milliseconds since, counted up to Ceiling

vars == <<now, task, timeout, deadline, outcome, begun, elapsed>>

\* Mutated: milliseconds that do not wrap.
PlusUnbounded(t, d) == t + d
Plus(t, d) == IF t + d < Wrap THEN t + d ELSE t + d - Wrap

\* Far enough to tell a late end from a timely one.
Ceiling == Wrap + Wrap + Turn

Pass(d) == /\ now' = Plus(now, d)
           /\ elapsed' = IF elapsed + d < Ceiling THEN elapsed + d ELSE Ceiling

Idle(d) ==
    /\ task = "idle"
    /\ now' = Plus(now, d)
    /\ UNCHANGED <<task, timeout, deadline, outcome, begun, elapsed>>

\* The request is sent; deadline = millis() + timeoutMs.
Begin(ms) ==
    /\ task = "idle"
    /\ task' = "check"
    /\ timeout' = ms
    /\ deadline' = Plus(now, ms)
    /\ begun' = now /\ elapsed' = 0 /\ outcome' = "none"
    /\ UNCHANGED now

\* Mutated: the deadline itself still counts as in time, off by one.
BeforeOrAtDeadline == now <= deadline
BeforeDeadline == now < deadline

\* while (millis() < deadline)
GoOn ==
    /\ task = "check" /\ BeforeDeadline
    /\ task' = "receive"
    /\ UNCHANGED <<now, timeout, deadline, outcome, begun, elapsed>>

Expire ==
    /\ task = "check" /\ ~BeforeDeadline
    /\ task' = "idle" /\ outcome' = "NoData"
    /\ UNCHANGED <<now, timeout, deadline, begun, elapsed>>

\* One turn of the loop, in which nothing that ends the request arrived.
Wait(d) ==
    /\ task = "receive"
    /\ Pass(d)
    /\ task' = "check"
    /\ UNCHANGED <<timeout, deadline, outcome, begun>>

\* One turn of the loop, in which a frame came that ends the request.
Answer(d) ==
    /\ task = "receive"
    /\ Pass(d)
    /\ task' = "idle" /\ outcome' = "answered"
    /\ UNCHANGED <<timeout, deadline, begun>>

Init == /\ now \in 0..(Wrap - 1)
        /\ task = "idle" /\ outcome = "none"
        /\ timeout \in Timeouts /\ deadline = 0 /\ begun = 0 /\ elapsed = 0

Next == \/ \E d \in 1..MaxIdle : Idle(d)
        \/ \E ms \in Timeouts : Begin(ms)
        \/ GoOn \/ Expire
        \/ \E d \in 0..Turn : Wait(d) \/ Answer(d)

Spec == Init /\ [][Next]_vars

-----------------------------------------------------------------------------
TypeOK ==
    /\ now \in 0..(Wrap - 1)
    /\ task \in {"idle", "check", "receive"}
    /\ timeout \in Timeouts
    /\ deadline \in 0..(Wrap - 1)
    /\ outcome \in {"none", "answered", "NoData"}
    /\ begun \in 0..(Wrap - 1)
    /\ elapsed \in 0..Ceiling

\* The request's whole window, its last turn included, is clear of the wrap.
ClearOfWrap == begun + timeout + Turn < Wrap

\* Away from the wrap, NO DATA is never answered before the time the client
\* set, and always less than one turn after it; nor does a request that is still
\* running outlive that.
Punctual ==
    ClearOfWrap =>
        /\ elapsed < timeout + Turn
        /\ outcome = "NoData" => elapsed >= timeout

\* "`millis()` overflow in the request deadline yields one spurious `NO DATA`
\* [...] Self-correcting" (README.md:225-226): it never does worse than
\* ending a request early.
WrapOnlyEndsEarly == elapsed < timeout + Turn
=============================================================================
