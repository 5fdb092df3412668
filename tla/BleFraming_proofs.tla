--------------------------- MODULE BleFraming_proofs ---------------------------
EXTENDS BleFraming, SequenceTheorems, WellFoundedInduction, TLAPS

USE BleFramingAssumption DEF BleFramingAssumption

ByteType == Nat \X BOOLEAN

-----------------------------------------------------------------------------
(***************************************************************************)
(* The first '\r' of a write and the last exist, where there is one.       *)
(***************************************************************************)
LEMMA LeastElement ==
  ASSUME NEW T, T \subseteq Nat, T # {}
  PROVE  \E n \in T : \A m \in T : n <= m
<1> DEFINE Less == {pair \in Nat \X Nat : pair[1] < pair[2]}
<1>1. \E n \in T : \A m \in T : ~ (<<m, n>> \in OpToRel(<, Nat))
  BY NatLessThanWellFounded, WFMin, Zenon
<1>2. OpToRel(<, Nat) = Less
  BY Zenon DEF OpToRel
<1>3. PICK n \in T : \A m \in T : ~ (<<m, n>> \in Less)
  BY <1>1, <1>2, Zenon
<1>4. ASSUME NEW m \in T PROVE n <= m
  <2>1. m \in Nat /\ n \in Nat
    OBVIOUS
  <2>2. ~ (<<m, n>> \in Less)
    BY <1>3, Zenon
  <2> QED
    BY <2>1, <2>2
<1> QED
  BY <1>4, Zenon

LEMMA GreatestElement ==
  ASSUME NEW k \in Nat, NEW T, T \subseteq 1..k, T # {}
  PROVE  \E n \in T : \A m \in T : m <= n
<1> DEFINE U == {j \in 0..k : k - j \in T}
<1>1. U \subseteq Nat
  OBVIOUS
<1>2. U # {}
  <2>1. PICK t \in T : TRUE
    OBVIOUS
  <2>2. k - t \in 0..k /\ k - (k - t) = t
    OBVIOUS
  <2>3. k - t \in U
    BY <2>2
  <2> QED
    BY <2>3
<1>3. PICK u \in U : \A m \in U : u <= m
  BY <1>1, <1>2, LeastElement
<1>4. k - u \in T /\ u \in 0..k
  BY <1>3
<1>5. ASSUME NEW m \in T PROVE m <= k - u
  <2>1. m \in 1..k /\ k - m \in 0..k /\ k - (k - m) = m
    OBVIOUS
  <2>2. k - m \in U
    BY <2>1
  <2>3. u <= k - m
    BY <1>3, <2>2
  <2> QED
    BY <1>4, <2>1, <2>3
<1> QED
  BY <1>4, <1>5

-----------------------------------------------------------------------------
(***************************************************************************)
(* What one write adds to the stream: bytes whose places follow each other *)
(* from the place it starts at.                                            *)
(***************************************************************************)
LEMMA TypedFollows ==
  ASSUME NEW k \in 1..MaxTyped, NEW n \in Nat \ {0}, NEW crs \in [1..n -> BOOLEAN],
         \A i \in DOMAIN Typed(k, crs) :
            IsCR(Typed(k, crs)[i]) \/ Typed(k, crs)[i][1] < MaxTyped
  PROVE  /\ Typed(k, crs) \in Seq(ByteType) /\ Len(Typed(k, crs)) = n
         /\ PlacesOK(Typed(k, crs))
         /\ Contiguous(Typed(k, crs))
         /\ Typed(k, crs)[1][1] = k
<1> DEFINE Crs(i) == {j \in 1..(i - 1) : crs[j]}
           Last(i) == CHOOSE j \in Crs(i) : \A m \in Crs(i) : m <= j
           Place(i) == IF Crs(i) = {} THEN k + i - 1 ELSE i - Last(i)
           w == Typed(k, crs)
<1>1. w = [i \in 1..n |-> <<Place(i), crs[i]>>]
  BY DEF Typed
<1>2. ASSUME NEW i \in 1..n, Crs(i) # {}
      PROVE  /\ Last(i) \in 1..(i - 1) /\ crs[Last(i)]
             /\ \A m \in Crs(i) : m <= Last(i)
  <2>1. i - 1 \in Nat /\ Crs(i) \subseteq 1..(i - 1)
    OBVIOUS
  <2>2. \E j \in Crs(i) : \A m \in Crs(i) : m <= j
    BY <1>2, <2>1, GreatestElement
  <2> QED
    BY <2>2
<1>3. \A i \in 1..n : Place(i) \in Nat \ {0}
  <2>1. TAKE i \in 1..n
  <2>2. CASE Crs(i) = {}
    BY <2>2
  <2>3. CASE Crs(i) # {}
    <3>1. Last(i) \in 1..(i - 1)
      BY <1>2, <2>3
    <3> HIDE DEF Last
    <3>2. i - Last(i) \in Nat \ {0}
      BY <3>1
    <3> QED
      BY <2>3, <3>2
  <2> QED
    BY <2>2, <2>3
<1>4. \A i \in 1..n : w[i] = <<Place(i), crs[i]>> /\ w[i][1] = Place(i) /\ w[i][2] = crs[i]
  BY <1>1
<1>5. w \in Seq(ByteType) /\ Len(w) = n /\ DOMAIN w = 1..n
  <2> HIDE DEF Place
  <2>1. \A i \in 1..n : <<Place(i), crs[i]>> \in ByteType
    BY <1>3 DEF ByteType
  <2> QED
    BY <1>1, <2>1, IsASeq
<1>6. ASSUME NEW i \in 1..(n - 1) PROVE Place(i + 1) = IF crs[i] THEN 1 ELSE Place(i) + 1
  <2>1. i \in 1..n /\ i + 1 \in 1..n /\ (i + 1) - 1 = i
    OBVIOUS
  <2>2. CASE crs[i]
    <3>1. i \in Crs(i + 1)
      BY <2>1, <2>2
    <3>2. /\ Last(i + 1) \in 1..i
          /\ \A m \in Crs(i + 1) : m <= Last(i + 1)
      BY <1>2, <2>1, <3>1
    <3>3. Last(i + 1) = i
      <4> HIDE DEF Last
      <4> QED
        BY <3>1, <3>2
    <3> HIDE DEF Last
    <3> QED
      BY <2>1, <2>2, <3>1, <3>3
  <2>3. CASE ~crs[i]
    <3>1. Crs(i + 1) = Crs(i)
      BY <2>1, <2>3
    <3>2. Last(i + 1) = Last(i)
      BY <3>1
    <3>3. CASE Crs(i) = {}
      BY <2>3, <3>1, <3>3
    <3>4. CASE Crs(i) # {}
      <4>1. Last(i) \in 1..(i - 1)
        BY <1>2, <2>1, <3>4
      <4>2. Place(i) = i - Last(i) /\ Place(i + 1) = (i + 1) - Last(i)
        <5> HIDE DEF Last, Crs
        <5> QED
          BY <3>1, <3>2, <3>4
      <4> HIDE DEF Last, Place
      <4>3. (i + 1) - Last(i) = (i - Last(i)) + 1
        BY <4>1
      <4> QED
        BY <2>3, <4>2, <4>3
    <3> QED
      BY <3>3, <3>4
  <2> QED
    BY <2>2, <2>3
<1>7. Place(1) = k
  <2>1. Crs(1) = {}
    OBVIOUS
  <2> QED
    BY <2>1
<1> HIDE DEF Place, w
<1>8. Contiguous(w)
  <2>1. \A i \in 1..(n - 1) : i \in 1..n /\ i + 1 \in 1..n
    OBVIOUS
  <2> QED
    BY <1>4, <1>5, <1>6, <2>1 DEF Contiguous, NextPlace, IsCR
<1>9. ASSUME NEW i \in 1..n PROVE Place(i) \in 1..MaxTyped
  <2>1. CASE i = 1
    BY <1>7, <2>1
  <2>2. CASE i # 1
    <3>1. i - 1 \in 1..(n - 1) /\ i - 1 \in 1..n /\ (i - 1) + 1 = i
      BY <2>2
    <3>2. Place(i) = IF crs[i - 1] THEN 1 ELSE Place(i - 1) + 1
      BY <1>6, <3>1
    <3>3. crs[i - 1] \/ Place(i - 1) < MaxTyped
      BY <1>4, <1>5, <3>1 DEF w, IsCR
    <3> QED
      BY <1>3, <3>1, <3>2, <3>3
  <2> QED
    BY <2>1, <2>2
<1>10. PlacesOK(w)
  BY <1>4, <1>5, <1>9 DEF PlacesOK
<1>11. w[1][1] = k
  BY <1>4, <1>7
<1> QED
  BY <1>5, <1>8, <1>10, <1>11 DEF w

LEMMA ConcatContiguous ==
  ASSUME NEW s \in Seq(ByteType), NEW t \in Seq(ByteType), t # <<>>,
         PlacesOK(s), PlacesOK(t), Contiguous(s), Contiguous(t),
         s # <<>> => t[1][1] = NextPlace(s[Len(s)])
  PROVE  /\ s \o t \in Seq(ByteType) /\ Len(s \o t) = Len(s) + Len(t)
         /\ PlacesOK(s \o t)
         /\ Contiguous(s \o t)
         /\ (s \o t)[Len(s \o t)] = t[Len(t)]
         /\ (s \o t)[1] = IF s = <<>> THEN t[1] ELSE s[1]
<1> DEFINE c == s \o t
<1>1. /\ Len(s) \in Nat /\ Len(t) \in Nat \ {0}
      /\ DOMAIN s = 1..Len(s) /\ DOMAIN t = 1..Len(t)
      /\ s = <<>> <=> Len(s) = 0
  BY LenProperties, EmptySeq
<1>2. /\ c \in Seq(ByteType) /\ Len(c) = Len(s) + Len(t)
      /\ \A i \in 1..(Len(s) + Len(t)) :
            c[i] = IF i <= Len(s) THEN s[i] ELSE t[i - Len(s)]
  BY ConcatProperties
<1>3. DOMAIN c = 1..(Len(s) + Len(t))
  BY <1>2, LenProperties
<1> HIDE DEF c
<1>8. \A i \in 1..Len(s) : c[i] = s[i]
  BY <1>1, <1>2
<1>9. ASSUME NEW j \in 1..Len(t) PROVE c[Len(s) + j] = t[j]
  <2>1. /\ Len(s) + j \in 1..(Len(s) + Len(t))
        /\ ~(Len(s) + j <= Len(s)) /\ (Len(s) + j) - Len(s) = j
    BY <1>1
  <2> QED
    BY <1>2, <2>1
<1>4. ASSUME NEW i \in 1..(Len(s) + Len(t))
      PROVE  \/ i \in DOMAIN s /\ c[i] = s[i]
             \/ i - Len(s) \in DOMAIN t /\ c[i] = t[i - Len(s)]
  BY <1>1, <1>2
<1>5. PlacesOK(c)
  BY <1>3, <1>4 DEF PlacesOK
<1>6. ASSUME NEW i \in 1..(Len(s) + Len(t) - 1) PROVE c[i + 1][1] = NextPlace(c[i])
  <2>1. i \in 1..(Len(s) + Len(t)) /\ i + 1 \in 1..(Len(s) + Len(t))
    BY <1>1, <1>2
  <2>2. CASE i < Len(s)
    <3>1. i \in 1..(Len(s) - 1) /\ i \in 1..Len(s) /\ i + 1 \in 1..Len(s)
      BY <1>1, <2>1, <2>2
    <3>2. c[i] = s[i] /\ c[i + 1] = s[i + 1]
      BY <1>8, <3>1
    <3> QED
      BY <3>1, <3>2 DEF Contiguous
  <2>3. CASE i = Len(s)
    <3>1. Len(s) \in 1..Len(s) /\ 1 \in 1..Len(t) /\ s # <<>>
      BY <1>1, <2>1, <2>3
    <3>2. c[i] = s[Len(s)] /\ c[i + 1] = t[1]
      BY <1>8, <1>9, <2>3, <3>1
    <3>3. t[1][1] = NextPlace(s[Len(s)])
      BY <3>1
    <3> QED
      BY <3>2, <3>3
  <2>4. CASE i > Len(s)
    <3> DEFINE j == i - Len(s)
    <3>1. /\ j \in 1..(Len(t) - 1) /\ j \in 1..Len(t) /\ j + 1 \in 1..Len(t)
          /\ i = Len(s) + j /\ i + 1 = Len(s) + (j + 1)
      BY <1>1, <2>1, <2>4
    <3> HIDE DEF j
    <3>2. c[Len(s) + j] = t[j] /\ c[Len(s) + (j + 1)] = t[j + 1]
      BY <1>9, <3>1
    <3>3. t[j + 1][1] = NextPlace(t[j])
      BY <3>1 DEF Contiguous
    <3> QED
      BY <3>1, <3>2, <3>3
  <2>5. i < Len(s) \/ i = Len(s) \/ i > Len(s)
    <3> DEFINE m == Len(s)
    <3>1. m \in Nat /\ i \in Nat
      BY <1>1, <2>1
    <3> HIDE DEF m
    <3>2. i < m \/ i = m \/ i > m
      BY <3>1
    <3> QED
      BY <3>2 DEF m
  <2> QED
    BY <2>2, <2>3, <2>4, <2>5, Zenon
<1>7. c[Len(c)] = t[Len(t)] /\ c[1] = IF s = <<>> THEN t[1] ELSE s[1]
  <2>1. Len(t) \in 1..Len(t) /\ 1 \in 1..Len(t)
    BY <1>1
  <2>2. c[Len(s) + Len(t)] = t[Len(t)] /\ c[Len(s) + 1] = t[1]
    BY <1>9, <2>1
  <2>3. s = <<>> => Len(s) + 1 = 1
    BY <1>1
  <2>4. s # <<>> => c[1] = s[1]
    BY <1>1, <1>8
  <2> QED
    BY <1>2, <2>2, <2>3, <2>4
<1> QED
  BY <1>2, <1>5, <1>6, <1>7 DEF Contiguous, c

\* A piece of an unbroken sequence is unbroken.
LEMMA PieceContiguous ==
  ASSUME NEW s \in Seq(ByteType), PlacesOK(s), Contiguous(s),
         NEW a \in 1..(Len(s) + 1), NEW b \in 0..Len(s)
  PROVE  /\ SubSeq(s, a, b) \in Seq(ByteType)
         /\ Len(SubSeq(s, a, b)) = IF a <= b THEN b - a + 1 ELSE 0
         /\ \A i \in 1..(b - a + 1) : SubSeq(s, a, b)[i] = s[a + i - 1]
         /\ PlacesOK(SubSeq(s, a, b))
         /\ Contiguous(SubSeq(s, a, b))
<1> DEFINE p == SubSeq(s, a, b)
<1>1. Len(s) \in Nat /\ DOMAIN s = 1..Len(s)
  BY LenProperties
<1>2. \A i \in a..b : s[i] \in ByteType
  BY <1>1, ElementOfSeq
<1>3. /\ p \in Seq(ByteType)
      /\ Len(p) = IF a <= b THEN b - a + 1 ELSE 0
      /\ \A i \in 1..(b - a + 1) : p[i] = s[a + i - 1]
  BY <1>1, <1>2, SubSeqProperties
<1>4. DOMAIN p = 1..Len(p)
  BY <1>3, LenProperties
<1> HIDE DEF p
<1>5. PlacesOK(p)
  <2>1. ASSUME NEW i \in DOMAIN p PROVE p[i] = s[a + i - 1] /\ a + i - 1 \in DOMAIN s
    <3>1. i \in 1..Len(p)
      BY <1>4
    <3>2. i \in 1..(b - a + 1) /\ a + i - 1 \in 1..Len(s)
      BY <1>1, <1>3, <3>1
    <3> QED
      BY <1>1, <1>3, <3>2
  <2> QED
    BY <2>1 DEF PlacesOK
<1>6. Contiguous(p)
  <2>1. ASSUME NEW i \in 1..(Len(p) - 1)
        PROVE  /\ p[i] = s[a + i - 1] /\ p[i + 1] = s[(a + i - 1) + 1]
               /\ a + i - 1 \in 1..(Len(s) - 1)
    <3>1. /\ i \in 1..(b - a + 1) /\ i + 1 \in 1..(b - a + 1)
          /\ a + (i + 1) - 1 = (a + i - 1) + 1
          /\ a + i - 1 \in 1..(Len(s) - 1)
      BY <1>1, <1>3
    <3>2. p[i] = s[a + i - 1] /\ p[i + 1] = s[a + (i + 1) - 1]
      BY <1>3, <3>1
    <3> QED
      BY <3>1, <3>2
  <2> QED
    BY <2>1 DEF Contiguous
<1> QED
  BY <1>3, <1>5, <1>6 DEF p

LEMMA FirstCRIsFirst ==
  ASSUME rxBuffer \in Seq(ByteType), CRs # {}
  PROVE  /\ FirstCR \in 1..Len(rxBuffer) /\ IsCR(rxBuffer[FirstCR])
         /\ \A i \in 1..(FirstCR - 1) : ~IsCR(rxBuffer[i])
<1>1. DOMAIN rxBuffer = 1..Len(rxBuffer) /\ Len(rxBuffer) \in Nat
  BY LenProperties
<1>2. CRs \subseteq Nat
  BY <1>1 DEF CRs
<1>3. \E i \in CRs : \A j \in CRs : i <= j
  BY <1>2, LeastElement
<1>4. FirstCR \in CRs /\ \A j \in CRs : FirstCR <= j
  BY <1>3 DEF FirstCR
<1>5. FirstCR \in 1..Len(rxBuffer) /\ IsCR(rxBuffer[FirstCR])
  BY <1>1, <1>4 DEF CRs
<1>6. ASSUME NEW i \in 1..(FirstCR - 1), IsCR(rxBuffer[i]) PROVE FALSE
  <2>1. i \in CRs /\ i < FirstCR
    BY <1>1, <1>5, <1>6 DEF CRs
  <2> QED
    BY <1>4, <1>5, <2>1
<1> QED
  BY <1>5, <1>6

-----------------------------------------------------------------------------
(***************************************************************************)
(* NeverStitched speaks of the command run last; what makes it so is that  *)
(* the buffer is an unbroken stretch of what is being typed, which begins  *)
(* with the start of a line unless input before it was dropped.            *)
(***************************************************************************)
BufferUnbroken ==
    /\ rxBuffer \in Seq(ByteType) /\ line \in Seq(ByteType)
    /\ Contiguous(rxBuffer)
    /\ rxBuffer # <<>> => place = NextPlace(rxBuffer[Len(rxBuffer)])
    /\ ~hurt => IF rxBuffer = <<>> THEN place = 1 ELSE rxBuffer[1][1] = 1

Delivering ==
    /\ task = "idle" => CRs = {}
    /\ task = "notify" => chunks > 0
    /\ task = "notify" /\ answer = "refusal" => rxBuffer = <<>>

IInv == TypeOK /\ NeverStitched /\ NothingLeftWaiting /\ BufferUnbroken /\ Delivering

LEMMA EmptyIsUnbroken ==
  /\ <<>> \in Seq(ByteType) /\ Len(<<>>) = 0 /\ DOMAIN <<>> = {}
  /\ PlacesOK(<<>>) /\ Contiguous(<<>>)
<1>1. <<>> \in Seq(ByteType) /\ Len(<<>>) = 0
  BY EmptySeq
<1>2. DOMAIN <<>> = {}
  BY <1>1, LenProperties
<1> QED
  BY <1>1, <1>2 DEF PlacesOK, Contiguous

LEMMA InvInit == Init => IInv
<1> SUFFICES ASSUME Init PROVE IInv
  OBVIOUS
<1> USE DEF Init
<1>1. TypeOK
  <2>1. PlacesOK(rxBuffer) /\ Len(rxBuffer) <= kMaxRxBuffer /\ PlacesOK(line)
    BY EmptyIsUnbroken
  <2>2. chunks \in 0..MaxChunks /\ place \in 1..MaxTyped
    OBVIOUS
  <2> QED
    BY <2>1, <2>2 DEF TypeOK
<1>2. NeverStitched
  BY EmptyIsUnbroken DEF NeverStitched
<1>3. CRs = {}
  BY EmptyIsUnbroken DEF CRs
<1>4. NothingLeftWaiting /\ BufferUnbroken /\ Delivering
  BY <1>3, EmptyIsUnbroken DEF NothingLeftWaiting, BufferUnbroken, Delivering
<1> QED
  BY <1>1, <1>2, <1>4 DEF IInv

LEMMA NextPlaceTypes ==
  ASSUME NEW byte \in ByteType, byte[1] \in 1..MaxTyped,
         IsCR(byte) \/ byte[1] < MaxTyped
  PROVE  NextPlace(byte) \in 1..MaxTyped
  BY DEF NextPlace, IsCR, ByteType

LEMMA WriteStep ==
  ASSUME IInv, NEW crs \in Writes, Write(crs)
  PROVE  IInv'
<1> DEFINE written == Typed(place, crs)
<1>1. PICK n \in 1..MaxWrite : crs \in [1..n -> BOOLEAN]
  BY DEF Writes
<1>2. \A i \in DOMAIN written : IsCR(written[i]) \/ written[i][1] < MaxTyped
  BY DEF Write
<1>3. /\ place \in 1..MaxTyped /\ n \in Nat \ {0}
      /\ PlacesOK(rxBuffer) /\ Len(rxBuffer) <= kMaxRxBuffer
  BY <1>1 DEF IInv, TypeOK
<1>4. /\ written \in Seq(ByteType) /\ Len(written) = n
      /\ PlacesOK(written) /\ Contiguous(written) /\ written[1][1] = place
  BY <1>1, <1>2, <1>3, TypedFollows
<1> HIDE DEF written
<1>5. /\ DOMAIN written = 1..n /\ n \in DOMAIN written /\ written # <<>>
  BY <1>3, <1>4, LenProperties, EmptySeq
<1>6. place' = NextPlace(written[n]) /\ place' \in 1..MaxTyped
  <2>1. place' = NextPlace(written[n])
    BY <1>4 DEF Write, written
  <2>2. /\ written[n] \in ByteType /\ written[n][1] \in 1..MaxTyped
        /\ IsCR(written[n]) \/ written[n][1] < MaxTyped
    BY <1>2, <1>4, <1>5, ElementOfSeq DEF PlacesOK
  <2> QED
    BY <2>1, <2>2, NextPlaceTypes
<1>7. line' = line /\ fragment' = fragment
  BY DEF Write
<1>8. NeverStitched'
  BY <1>7 DEF IInv, NeverStitched
<1>9. CASE Overflows(written)
  <2>1. /\ rxBuffer' = <<>> /\ answer' = "refusal" /\ chunks' = 1
        /\ attempt' = 1 /\ task' = "notify" /\ hurt' = TRUE
    BY <1>9 DEF Write, written, AfterOverflow, Deliver
  <2>2. TypeOK'
    <3>1. PlacesOK(rxBuffer') /\ Len(rxBuffer') <= kMaxRxBuffer /\ PlacesOK(line')
      BY <1>7, <2>1, EmptyIsUnbroken DEF IInv, TypeOK
    <3>2. chunks' \in 0..MaxChunks
      BY <2>1
    <3> QED
      BY <1>6, <1>7, <2>1, <3>1, <3>2 DEF IInv, TypeOK
  <2> QED
    BY <1>7, <1>8, <2>1, <2>2, EmptyIsUnbroken
    DEF IInv, NothingLeftWaiting, BufferUnbroken, Delivering
<1>10. CASE ~Overflows(written)
  <2>1. /\ rxBuffer' = rxBuffer \o written /\ task' = "split"
        /\ UNCHANGED <<chunks, attempt, answer, hurt>>
    BY <1>10 DEF Write, written
  <2>2. rxBuffer # <<>> => written[1][1] = NextPlace(rxBuffer[Len(rxBuffer)])
    BY <1>4 DEF IInv, BufferUnbroken
  <2>3. /\ rxBuffer' \in Seq(ByteType) /\ Len(rxBuffer') = Len(rxBuffer) + n
        /\ PlacesOK(rxBuffer') /\ Contiguous(rxBuffer')
        /\ rxBuffer'[Len(rxBuffer')] = written[n]
        /\ rxBuffer'[1] = IF rxBuffer = <<>> THEN written[1] ELSE rxBuffer[1]
    BY <1>3, <1>4, <1>5, <2>1, <2>2, ConcatContiguous DEF IInv, BufferUnbroken
  <2>4. Len(rxBuffer') <= kMaxRxBuffer
    <3>1. Len(rxBuffer) \in Nat
      BY LenProperties DEF IInv, BufferUnbroken
    <3> QED
      BY <1>3, <1>4, <1>10, <2>3, <3>1 DEF Overflows
  <2>5. TypeOK'
    BY <1>6, <1>7, <2>1, <2>3, <2>4 DEF IInv, TypeOK
  <2>6. rxBuffer' # <<>>
    BY <1>3, <2>3, LenProperties, EmptySeq DEF IInv, BufferUnbroken
  <2>7. ~hurt' => rxBuffer'[1][1] = 1
    BY <1>4, <2>1, <2>3 DEF IInv, BufferUnbroken
  <2>8. BufferUnbroken'
    BY <1>6, <1>7, <2>3, <2>6, <2>7 DEF IInv, BufferUnbroken
  <2> QED
    BY <1>8, <2>1, <2>5, <2>8 DEF IInv, NothingLeftWaiting, Delivering
<1> QED
  BY <1>9, <1>10

LEMMA TakeLineLeaves ==
  ASSUME IInv, TakeLine, place' = place, line' \in Seq(ByteType)
  PROVE  /\ BufferUnbroken'
         /\ PlacesOK(rxBuffer') /\ Len(rxBuffer') <= kMaxRxBuffer
<1> DEFINE f == FirstCR
           n == Len(rxBuffer)
<1>1. /\ rxBuffer \in Seq(ByteType) /\ n \in Nat /\ n <= kMaxRxBuffer
      /\ PlacesOK(rxBuffer) /\ Contiguous(rxBuffer)
      /\ rxBuffer # <<>> => place = NextPlace(rxBuffer[n])
  BY LenProperties DEF IInv, TypeOK, BufferUnbroken
<1>2. f \in 1..n /\ IsCR(rxBuffer[f])
  BY <1>1, FirstCRIsFirst DEF TakeLine
<1>3. rxBuffer' = SubSeq(rxBuffer, f + 1, n)
  BY DEF TakeLine, AfterLine
<1> HIDE DEF f
<1>4. f + 1 \in 1..(n + 1) /\ n \in 0..n /\ rxBuffer # <<>>
  BY <1>1, <1>2, EmptySeq
<1>5. /\ rxBuffer' \in Seq(ByteType) /\ Len(rxBuffer') = n - f
      /\ \A i \in 1..(n - f) : rxBuffer'[i] = rxBuffer[f + i]
      /\ PlacesOK(rxBuffer') /\ Contiguous(rxBuffer')
  <2>1. /\ rxBuffer' \in Seq(ByteType)
        /\ Len(rxBuffer') = IF f + 1 <= n THEN n - (f + 1) + 1 ELSE 0
        /\ \A i \in 1..(n - (f + 1) + 1) : rxBuffer'[i] = rxBuffer[(f + 1) + i - 1]
        /\ PlacesOK(rxBuffer') /\ Contiguous(rxBuffer')
    BY <1>1, <1>3, <1>4, PieceContiguous
  <2>2. Len(rxBuffer') = n - f
    BY <1>1, <1>2, <2>1
  <2>3. ASSUME NEW i \in 1..(n - f) PROVE rxBuffer'[i] = rxBuffer[f + i]
    <3>1. i \in 1..(n - (f + 1) + 1) /\ (f + 1) + i - 1 = f + i
      BY <1>1, <1>2
    <3>2. rxBuffer'[i] = rxBuffer[(f + 1) + i - 1]
      BY <2>1, <3>1
    <3> QED
      BY <3>1, <3>2
  <2> QED
    BY <2>1, <2>2, <2>3
<1>6. rxBuffer' = <<>> <=> f = n
  <2>1. rxBuffer' = <<>> <=> Len(rxBuffer') = 0
    BY <1>5, EmptySeq
  <2>2. n - f = 0 <=> f = n
    BY <1>1, <1>2
  <2> QED
    BY <1>5, <2>1, <2>2
<1>7. rxBuffer' # <<>> => rxBuffer'[Len(rxBuffer')] = rxBuffer[n]
  <2>1. f # n => n - f \in 1..(n - f) /\ f + (n - f) = n
    BY <1>1, <1>2
  <2> QED
    BY <1>5, <1>6, <2>1
<1>8. IF rxBuffer' = <<>> THEN place' = 1 ELSE rxBuffer'[1][1] = 1
  <2>1. CASE f = n
    BY <1>1, <1>2, <1>4, <1>6, <2>1 DEF NextPlace
  <2>2. CASE f # n
    <3>1. rxBuffer'[1] = rxBuffer[f + 1] /\ f \in 1..(n - 1)
      BY <1>1, <1>2, <1>5, <2>2
    <3>2. rxBuffer[f + 1][1] = NextPlace(rxBuffer[f])
      BY <1>1, <3>1 DEF Contiguous
    <3> QED
      BY <1>2, <1>6, <2>2, <3>1, <3>2 DEF NextPlace
  <2> QED
    BY <2>1, <2>2
<1>9. BufferUnbroken'
  BY <1>1, <1>4, <1>5, <1>7, <1>8 DEF BufferUnbroken
<1>10. Len(rxBuffer') <= kMaxRxBuffer
  BY <1>1, <1>2, <1>5
<1> QED
  BY <1>5, <1>9, <1>10

LEMMA SkipStep ==
  ASSUME IInv, SkipEmptyLine
  PROVE  IInv'
<1>1. /\ task = "split" /\ hurt' = FALSE
      /\ UNCHANGED <<task, chunks, attempt, place, line, answer, fragment>>
      /\ TakeLine /\ line' \in Seq(ByteType)
  BY DEF SkipEmptyLine, TakeLine, IInv, BufferUnbroken
<1>2. /\ BufferUnbroken'
      /\ PlacesOK(rxBuffer') /\ Len(rxBuffer') <= kMaxRxBuffer
  BY <1>1, TakeLineLeaves
<1>3. TypeOK'
  BY <1>1, <1>2 DEF IInv, TypeOK
<1> QED
  BY <1>1, <1>2, <1>3
  DEF IInv, NeverStitched, NothingLeftWaiting, Delivering

LEMMA RunStep ==
  ASSUME IInv, NEW n \in 1..MaxChunks, RunLine(n)
  PROVE  IInv'
<1>1. /\ line' = SubSeq(rxBuffer, 1, FirstCR) /\ fragment' = ~hurt
      /\ answer' = "reply" /\ chunks' = n /\ attempt' = 1 /\ task' = "notify"
      /\ place' = place /\ TakeLine /\ hurt' = FALSE /\ FirstCR > 1
  BY DEF RunLine, Deliver, TakeLine
<1>2. /\ rxBuffer \in Seq(ByteType) /\ Len(rxBuffer) \in Nat
      /\ PlacesOK(rxBuffer) /\ Contiguous(rxBuffer)
  BY LenProperties DEF IInv, TypeOK, BufferUnbroken
<1>3. /\ FirstCR \in 1..Len(rxBuffer)
      /\ \A i \in 1..(FirstCR - 1) : ~IsCR(rxBuffer[i])
  BY <1>1, <1>2, FirstCRIsFirst DEF TakeLine
<1> DEFINE f == FirstCR
<1> HIDE DEF f
<1>4. /\ line' \in Seq(ByteType) /\ Len(line') = FirstCR
      /\ \A i \in 1..FirstCR : line'[i] = rxBuffer[i]
      /\ PlacesOK(line') /\ Contiguous(line')
  <2>1. 1 \in 1..(Len(rxBuffer) + 1) /\ f \in 0..Len(rxBuffer) /\ f >= 1
    BY <1>2, <1>3 DEF f
  <2>2. /\ line' \in Seq(ByteType)
        /\ Len(line') = IF 1 <= f THEN f - 1 + 1 ELSE 0
        /\ \A i \in 1..(f - 1 + 1) : line'[i] = rxBuffer[1 + i - 1]
        /\ PlacesOK(line') /\ Contiguous(line')
    BY <1>1, <1>2, <2>1, PieceContiguous DEF f
  <2>3. f - 1 + 1 = f /\ \A i \in 1..f : 1 + i - 1 = i
    BY <2>1
  <2> QED
    BY <2>1, <2>2, <2>3 DEF f
<1>5. /\ BufferUnbroken'
      /\ PlacesOK(rxBuffer') /\ Len(rxBuffer') <= kMaxRxBuffer
  BY <1>1, <1>4, TakeLineLeaves
<1>6. TypeOK'
  <2>1. {hurt', fragment'} \subseteq BOOLEAN
    BY <1>1
  <2>2. n \in 0..MaxChunks
    OBVIOUS
  <2> QED
    BY <1>1, <1>4, <1>5, <2>1, <2>2 DEF IInv, TypeOK
<1>7. NeverStitched'
  <2>1. \A i \in 1..(Len(line') - 1) : ~IsCR(line'[i])
    BY <1>3, <1>4
  <2>2. fragment' => line'[1][1] = 1
    <3>1. rxBuffer # <<>> /\ line'[1] = rxBuffer[1]
      BY <1>2, <1>3, <1>4, EmptySeq
    <3> QED
      BY <1>1, <3>1 DEF IInv, BufferUnbroken
  <2> QED
    BY <1>4, <2>1, <2>2 DEF NeverStitched
<1> QED
  BY <1>1, <1>5, <1>6, <1>7 DEF IInv, NothingLeftWaiting, Delivering

LEMMA NotifyStep ==
  ASSUME IInv, Notified \/ NotifyRefused
  PROVE  IInv'
<1>1. /\ task = "notify"
      /\ UNCHANGED <<rxBuffer, place, line, answer, hurt, fragment>>
  BY DEF Notified, NotifyRefused
<1>2. \/ chunks' = chunks /\ task' = task /\ attempt' = 2
      \/ /\ chunks' = chunks - 1 /\ attempt' = 1
         /\ task' = IF chunks = 1 THEN AfterReply ELSE task
  BY DEF Notified, NotifyRefused, ChunkDone
<1>3. chunks \in 1..MaxChunks
  BY <1>1 DEF IInv, TypeOK, Delivering
<1>4. /\ task' \in {"idle", "split", "notify"}
      /\ task' = "notify" => chunks' > 0
      /\ task' = "idle" => answer = "refusal"
  BY <1>1, <1>2, <1>3 DEF AfterReply
<1>5. TypeOK'
  <2>1. chunks' \in 0..MaxChunks /\ attempt' \in {1, 2}
    BY <1>2, <1>3
  <2> QED
    BY <1>1, <1>4, <2>1 DEF IInv, TypeOK
<1>6. NeverStitched' /\ BufferUnbroken'
  BY <1>1 DEF IInv, NeverStitched, BufferUnbroken
<1>7. answer = "refusal" => rxBuffer' = <<>> /\ CRs' = {}
  BY <1>1, EmptyIsUnbroken DEF IInv, Delivering, CRs
<1> QED
  BY <1>1, <1>4, <1>5, <1>6, <1>7, EmptyIsUnbroken
  DEF IInv, NothingLeftWaiting, Delivering, BufferUnbroken

LEMMA InvStep == IInv /\ [Next]_vars => IInv'
<1> SUFFICES ASSUME IInv, [Next]_vars PROVE IInv'
  OBVIOUS
<1>1. CASE NoMoreLines
  BY <1>1 DEF NoMoreLines, IInv, TypeOK, NeverStitched, NothingLeftWaiting,
              BufferUnbroken, Delivering, CRs
<1>2. CASE UNCHANGED vars
  BY <1>2 DEF vars, IInv, TypeOK, NeverStitched, NothingLeftWaiting,
              BufferUnbroken, Delivering, CRs
<1> QED
  BY <1>1, <1>2, WriteStep, SkipStep, RunStep, NotifyStep DEF Next, HostTask

LEMMA Invariance == Spec => []IInv
  BY InvInit, InvStep, PTL DEF Spec

\* g_rxBuffer never exceeds its cap, whatever the size of a write.
THEOREM TypeCorrect == Spec => []TypeOK
<1>1. IInv => TypeOK
  BY DEF IInv
<1> QED
  BY <1>1, Invariance, PTL

\* For every cap, write size and line length: the pieces of input that are run
\* are unbroken, and begin with their line unless input was dropped before.
THEOREM CommandsAreUnbroken == Spec => []NeverStitched
<1>1. IInv => NeverStitched
  BY DEF IInv
<1> QED
  BY <1>1, Invariance, PTL

\* Between writes the buffer holds no complete command.
THEOREM BufferIsServed == Spec => []NothingLeftWaiting
<1>1. IInv => NothingLeftWaiting
  BY DEF IInv
<1> QED
  BY <1>1, Invariance, PTL
=============================================================================
