----------------------- MODULE RequestDeadline_proofs -----------------------
EXTENDS RequestDeadline, TLAPS

USE DeadlineAssumption DEF DeadlineAssumption

LEMMA TypeStep == TypeOK /\ [Next]_vars => TypeOK'
<1> SUFFICES ASSUME TypeOK, [Next]_vars PROVE TypeOK'
  OBVIOUS
<1> USE DEF TypeOK
<1>1. ASSUME NEW d \in 1..MaxIdle, Idle(d) PROVE TypeOK'
  BY <1>1 DEF Idle, Plus
<1>2. ASSUME NEW ms \in Timeouts, Begin(ms) PROVE TypeOK'
  <2>1. deadline' \in 0..(Wrap - 1)
    BY <1>2 DEF Begin, Plus
  <2> QED
    BY <1>2, <2>1 DEF Begin, Ceiling
<1>3. CASE GoOn
  BY <1>3 DEF GoOn
<1>4. CASE Expire
  BY <1>4 DEF Expire
<1>5. ASSUME NEW d \in 0..Turn, Wait(d) \/ Answer(d) PROVE TypeOK'
  <2>1. now' \in 0..(Wrap - 1)
    BY <1>5 DEF Wait, Answer, Pass, Plus
  <2>2. elapsed' \in 0..Ceiling
    BY <1>5 DEF Wait, Answer, Pass, Ceiling
  <2> QED
    BY <1>5, <2>1, <2>2 DEF Wait, Answer
<1>6. CASE UNCHANGED vars
  BY <1>6 DEF vars
<1> QED
  BY <1>1, <1>2, <1>3, <1>4, <1>5, <1>6 DEF Next

\* The counter and the deadline stay 32-bit values.
THEOREM TypeCorrect == Spec => []TypeOK
<1>1. Init => TypeOK
  BY DEF Init, TypeOK, Ceiling
<1> QED
  BY <1>1, TypeStep, PTL DEF Spec

-----------------------------------------------------------------------------
(* Punctual is not inductive: that a running request is in time follows    *)
(* from the clock and the deadline counting the same milliseconds, which   *)
(* holds only while neither wraps.                                         *)

ClockFollows ==
    ClearOfWrap /\ task # "idle" =>
        /\ deadline = begun + timeout
        /\ now = begun + elapsed
        /\ task = "receive" => elapsed < timeout

IInv == TypeOK /\ ClockFollows /\ Punctual

LEMMA InvStep == IInv /\ [Next]_vars => IInv'
<1> SUFFICES ASSUME IInv, [Next]_vars PROVE ClockFollows' /\ Punctual'
  BY TypeStep DEF IInv
<1> USE DEF IInv, TypeOK, ClockFollows, Punctual, ClearOfWrap
<1>1. ASSUME NEW d \in 1..MaxIdle, Idle(d) PROVE ClockFollows' /\ Punctual'
  BY <1>1 DEF Idle
<1>2. ASSUME NEW ms \in Timeouts, Begin(ms) PROVE ClockFollows' /\ Punctual'
  BY <1>2 DEF Begin, Plus
<1>3. CASE GoOn
  BY <1>3 DEF GoOn, BeforeDeadline
<1>4. CASE Expire
  BY <1>4 DEF Expire, BeforeDeadline
<1>5. ASSUME NEW d \in 0..Turn, Wait(d) \/ Answer(d)
      PROVE  ClockFollows' /\ Punctual'
  <2> SUFFICES ASSUME ClearOfWrap' PROVE ClockFollows' /\ Punctual'
    OBVIOUS
  <2>1. elapsed + d < timeout + Turn /\ begun + elapsed + d < Wrap
    BY <1>5 DEF Wait, Answer
  <2>2. now' = now + d /\ elapsed' = elapsed + d
    BY <1>5, <2>1 DEF Wait, Answer, Pass, Plus, Ceiling
  <2> QED
    BY <1>5, <2>1, <2>2 DEF Wait, Answer
<1>6. CASE UNCHANGED vars
  BY <1>6 DEF vars
<1> QED
  BY <1>1, <1>2, <1>3, <1>4, <1>5, <1>6 DEF Next

\* Away from the wrap the deadline is kept to within one turn of the loop, for
\* every counter width, timeout and turn length.
THEOREM AlwaysPunctual == Spec => []Punctual
<1>1. Init => IInv
  BY DEF Init, IInv, TypeOK, ClockFollows, Punctual, Ceiling
<1>2. IInv => Punctual
  BY DEF IInv
<1> QED
  BY <1>1, <1>2, InvStep, PTL DEF Spec
=============================================================================
