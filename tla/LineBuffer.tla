----------------------------- MODULE LineBuffer -----------------------------
(***************************************************************************)
(* elm327/line_buffer.cpp: bytes of a serial or TCP stream gathered into   *)
(* CR-terminated commands.  The object is a record; offer() is an operator *)
(* from the old object to the new one.                                     *)
(***************************************************************************)
EXTENDS Naturals, Sequences

CONSTANTS kMaxLine,  \* characters a command may have
          Chars,     \* the bytes offer() stores: all but CR, LF and space
          NUL        \* one of them, though it ends a C string

ASSUME LineBufferAssumption ==
    /\ kMaxLine \in Nat \ {0}
    /\ NUL \in Chars
    /\ Chars \cap {"CR", "LF", "SP"} = {}

Bytes == Chars \cup {"CR", "LF", "SP"}

LineBuffers == [line       : [0..kMaxLine -> Chars],   \* line_[kMaxLine + 1]
                len        : 0..kMaxLine,
                overflowed : BOOLEAN,
                discarding : BOOLEAN]

EmptyBuffer == [line |-> [i \in 0..kMaxLine |-> NUL], len |-> 0,
                overflowed |-> FALSE, discarding |-> FALSE]

Ignored(c) == c \in {"LF", "SP"}

\* `c' ends a line: offer() returns true.
Completes(c) == c = "CR"

Completed(b) ==
    [line       |-> [b.line EXCEPT ![IF b.discarding THEN 0 ELSE b.len] = NUL],
     len        |-> 0,
     overflowed |-> b.discarding,
     discarding |-> FALSE]

\* Mutated: an overlong line is truncated, the rest of it starts over.
StoredTruncating(b, c) ==
    IF b.len >= kMaxLine THEN b
    ELSE [b EXCEPT !.line[b.len] = c, !.len = @ + 1]

\* Mutated: nothing stops an overlong line.
StoredUnbounded(b, c) == [b EXCEPT !.line[b.len] = c, !.len = @ + 1]

Stored(b, c) ==
    IF b.discarding THEN b
    ELSE IF b.len >= kMaxLine THEN [b EXCEPT !.discarding = TRUE]
    ELSE [b EXCEPT !.line[b.len] = c, !.len = @ + 1]

Offer(b, c) == CASE Ignored(c)   -> b
                 [] Completes(c) -> Completed(b)
                 [] OTHER        -> Stored(b, c)

\* What a C string function sees: the characters before the first NUL.
Before(chars) ==
    LET ends == {n \in 0..Len(chars) : n = Len(chars) \/ chars[n + 1] = NUL}
    IN  SubSeq(chars, 1, CHOOSE n \in ends : \A m \in ends : n <= m)

\* line()
Line(b) == Before([i \in 1..kMaxLine + 1 |-> b.line[i - 1]])
=============================================================================
