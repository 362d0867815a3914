----------------------------- MODULE SsiRxProofs -----------------------------
(***************************************************************************)
(* The receive half of the sample interface, for samples of any width,     *)
(* any counts and any number of predictions: every sample is delivered     *)
(* whole, once and in order, and the monitor's flag tells the ramp.        *)
(*                                                                         *)
(* A place in the device's stream of bits is the bit that stands there.    *)
(* Here is the bit that comes next; what a stage of the pipeline holds is  *)
(* given by how many halves of a sample before Here it begins, once the    *)
(* device has been steady, and the deserialiser released, for so many      *)
(* clocks (Age).                                                           *)
(***************************************************************************)
EXTENDS SsiRx, SequenceTheorems, FiniteSetTheorems, WellFoundedInduction, TLAPS

-----------------------------------------------------------------------------
(* Quotients and remainders.                                               *)

LEMMA ModRange ==
  ASSUME NEW m \in Int, NEW n \in Nat \ {0}
  PROVE  m % n \in 0 .. n - 1 /\ m \div n \in Int /\ m = (m \div n) * n + (m % n)
  OBVIOUS

LEMMA DivMod ==
  ASSUME NEW q \in Int, NEW n \in Nat \ {0}, NEW r \in 0 .. n - 1
  PROVE  (q * n + r) \div n = q /\ (q * n + r) % n = r
  OBVIOUS

LEMMA DivModOf ==
  ASSUME NEW m, NEW q \in Int, NEW n \in Nat \ {0}, NEW r \in 0 .. n - 1, m = q * n + r
  PROVE  m \div n = q /\ m % n = r
  BY DivMod

LEMMA NextMod ==
  ASSUME NEW n \in Nat \ {0}, NEW q \in Int
  PROVE  (q + 1) % n = IF q % n = n - 1 THEN 0 ELSE (q % n) + 1
<1> DEFINE d == q \div n
           r == q % n
<1>1. d \in Int /\ r \in 0 .. n - 1 /\ q = d * n + r
  BY ModRange
<1> HIDE DEF d, r
<1>2. CASE r = n - 1
  <2>1. q + 1 = (d + 1) * n + 0 /\ d + 1 \in Int /\ 0 \in 0 .. n - 1
    BY <1>1, <1>2
  <2>2. (q + 1) % n = 0
    BY <2>1, DivMod
  <2> QED
    BY <2>2, <1>2 DEF r
<1>3. CASE r # n - 1
  <2>1. q + 1 = d * n + (r + 1) /\ r + 1 \in 0 .. n - 1
    BY <1>1, <1>3
  <2>2. (q + 1) % n = r + 1
    BY <1>1, <2>1, DivMod
  <2> QED
    BY <2>2, <1>3 DEF r
<1> QED
  BY <1>2, <1>3

-----------------------------------------------------------------------------
(* Places in the device's stream.                                          *)

Spot == [of : Number, at : Place]

NextNo(s) == IF s = Numbers - 1 THEN 0 ELSE s + 1
PrevNo(s) == IF s = 0 THEN Numbers - 1 ELSE s - 1

(* The i-th bit after p, less than a sample away. *)
After(p, i) ==
  IF p.at + i < Width THEN [of |-> p.of, at |-> p.at + i]
                      ELSE [of |-> NextNo(p.of), at |-> p.at + i - Width]

(* The bit half a sample before p, and a whole one. *)
Back(p) ==
  IF p.at >= HalfBits THEN [of |-> p.of, at |-> p.at - HalfBits]
                      ELSE [of |-> PrevNo(p.of), at |-> p.at + HalfBits]
Before(p) == [of |-> PrevNo(p.of), at |-> p.at]

Piece(p)  == [i \in 1 .. HalfBits |-> After(p, i - 1)]
Window(p) == [i \in 1 .. Width |-> After(p, i - 1)]

(* The first sample that begins at p or after it. *)
Delivered(p) == IF p.at = 0 THEN p.of ELSE NextNo(p.of)

(* The bit that the device sends next. *)
Here ==
  [of |-> ((half * HalfBits + phase) \div Width) % Numbers,
   at |-> (half * HalfBits + phase) % Width]

LEMMA Sizes ==
  /\ HalfBits \in Nat \ {0} /\ Width \in Nat \ {0} /\ Width = 2 * HalfBits
  /\ Numbers \in Nat \ {0, 1, 2} /\ SyncStages \in Nat \ {0}
  /\ CountMax \in Nat \ {0} /\ Counts \subseteq 0 .. CountMax /\ Top \in Nat \ {0}
  /\ None \notin Number /\ Zero \notin Spot
  BY RxAssumption, MarksAssumption DEF Width, Spot

LEMMA Numbering ==
  ASSUME NEW s \in Number
  PROVE  /\ (s + 1) % Numbers = NextNo(s)
         /\ NextNo(s) \in Number /\ PrevNo(s) \in Number
         /\ NextNo(PrevNo(s)) = s /\ PrevNo(NextNo(s)) = s
<1>1. s \in Int /\ s % Numbers = s /\ Numbers \in Nat \ {0, 1, 2}
  <2>1. s = 0 * Numbers + s /\ s \in 0 .. Numbers - 1 /\ Numbers \in Nat \ {0, 1, 2}
    BY Sizes DEF Number
  <2> QED
    BY <2>1, DivMod
<1>2. (s + 1) % Numbers = NextNo(s)
  BY <1>1, NextMod DEF NextNo
<1> QED
  BY <1>1, <1>2 DEF Number, NextNo, PrevNo

LEMMA Spots ==
  ASSUME NEW p \in Spot
  PROVE  /\ p.of \in Number /\ p.at \in 0 .. Width - 1
         /\ p = [of |-> p.of, at |-> p.at]
         /\ Back(p) \in Spot /\ Before(p) \in Spot
         /\ Back(p).at = IF p.at >= HalfBits THEN p.at - HalfBits ELSE p.at + HalfBits
         /\ Back(p).of = IF p.at >= HalfBits THEN p.of ELSE PrevNo(p.of)
         /\ Back(Back(p)) = Before(p)
         /\ Delivered(p) \in Number
         /\ Delivered(Before(p)) = PrevNo(Delivered(p))
<1>1. p.of \in Number /\ p.at \in 0 .. Width - 1 /\ p = [of |-> p.of, at |-> p.at]
  BY DEF Spot, Place
<1>2. /\ NextNo(p.of) \in Number /\ PrevNo(p.of) \in Number
      /\ NextNo(PrevNo(p.of)) = p.of /\ PrevNo(NextNo(p.of)) = p.of
  BY <1>1, Numbering
<1>3. /\ Back(p).at = IF p.at >= HalfBits THEN p.at - HalfBits ELSE p.at + HalfBits
      /\ Back(p).of = IF p.at >= HalfBits THEN p.of ELSE PrevNo(p.of)
  BY DEF Back
<1>4. Back(p).at \in Place /\ Back(p).of \in Number
  BY <1>1, <1>2, <1>3, Sizes DEF Place
<1>5. Back(p) \in Spot /\ Before(p) \in Spot
  BY <1>1, <1>2, <1>3, <1>4 DEF Back, Before, Spot, Place
<1>6. Back(Back(p)) = Before(p)
  BY <1>1, <1>3, Sizes DEF Back, Before
<1>7. Delivered(p) \in Number /\ Delivered(Before(p)) = PrevNo(Delivered(p))
  BY <1>1, <1>2 DEF Delivered, Before
<1> QED
  BY <1>1, <1>3, <1>5, <1>6, <1>7

LEMMA Afters ==
  ASSUME NEW p \in Spot, NEW i \in 0 .. Width - 1
  PROVE  After(p, i) \in Spot
<1>1. p.of \in Number /\ p.at \in 0 .. Width - 1 /\ NextNo(p.of) \in Number
  BY Spots, Numbering
<1> QED
  BY <1>1, Sizes DEF After, Spot, Place

(* Half a sample on and half a sample back. *)
LEMMA BackAfter ==
  ASSUME NEW p \in Spot
  PROVE  Back(After(p, HalfBits)) = p
<1>1. /\ p.of \in Number /\ p.at \in 0 .. Width - 1 /\ p = [of |-> p.of, at |-> p.at]
      /\ PrevNo(NextNo(p.of)) = p.of
  BY Spots, Numbering
<1> QED
  BY <1>1, Sizes DEF After, Back

-----------------------------------------------------------------------------
(* What the device sends.                                                  *)

LEMMA HereIs ==
  ASSUME TypeOK, NEW d, NEW r, half * HalfBits + phase = d * Width + r,
         d \in Int, r \in 0 .. Width - 1
  PROVE  Here = [of |-> d % Numbers, at |-> r] /\ d % Numbers \in Number
<1>1. (half * HalfBits + phase) \div Width = d /\ (half * HalfBits + phase) % Width = r
  BY DivMod, Sizes
<1>2. d % Numbers \in Number
  BY ModRange, Sizes DEF Number
<1> QED
  BY <1>1, <1>2 DEF Here

LEMMA Where ==
  ASSUME TypeOK
  PROVE  \E d \in Int, r \in 0 .. Width - 1 :
           /\ half * HalfBits + phase = d * Width + r
           /\ Here = [of |-> d % Numbers, at |-> r]
           /\ d % Numbers \in Number
<1> DEFINE m == half * HalfBits + phase
<1>1. m \in Int
  BY Sizes DEF TypeOK, Place
<1>2. m % Width \in 0 .. Width - 1 /\ m \div Width \in Int /\ m = (m \div Width) * Width + (m % Width)
  BY <1>1, ModRange, Sizes
<1>3. (m \div Width) % Numbers \in Number
  BY <1>2, ModRange, Sizes DEF Number
<1> QED
  BY <1>2, <1>3 DEF Here

LEMMA HereIsSpot ==
  ASSUME TypeOK PROVE Here \in Spot
  BY Where DEF Spot, Place

(* The bit that is i after the one the device sends next. *)
LEMMA BitIs ==
  ASSUME TypeOK, sending, NEW i \in 0 .. Width - 1
  PROVE  Bit(half * HalfBits + i) = After(Here, i)
<1>1. PICK d \in Int, r \in 0 .. Width - 1 :
         /\ half * HalfBits + phase = d * Width + r
         /\ Here = [of |-> d % Numbers, at |-> r]
         /\ d % Numbers \in Number
  BY Where
<1> DEFINE m == half * HalfBits + i + phase
<1>2. m \in Int /\ half * HalfBits + i \in Int
  BY Sizes DEF TypeOK, Place
<1>3. Bit(half * HalfBits + i) = [of |-> (m \div Width) % Numbers, at |-> m % Width]
  BY DEF Bit
<1>4. CASE r + i < Width
  <2>1. m = d * Width + (r + i) /\ r + i \in 0 .. Width - 1
    BY <1>1, <1>4, Sizes DEF TypeOK, Place
  <2> HIDE DEF m
  <2>2. m \div Width = d /\ m % Width = r + i
    BY <2>1, DivModOf, Sizes
  <2> QED
    BY <1>1, <1>3, <1>4, <2>2 DEF After, m
<1>5. CASE ~ (r + i < Width)
  <2>1. m = (d + 1) * Width + (r + i - Width) /\ r + i - Width \in 0 .. Width - 1
    BY <1>1, <1>5, Sizes DEF TypeOK, Place
  <2> HIDE DEF m
  <2>2. m \div Width = d + 1 /\ m % Width = r + i - Width
    BY <2>1, DivModOf, Sizes
  <2>3. (d + 1) % Numbers = NextNo(d % Numbers)
    BY NextMod, Sizes DEF NextNo
  <2> QED
    BY <1>1, <1>3, <1>5, <2>2, <2>3 DEF After, m
<1> QED
  BY <1>4, <1>5

LEMMA ChunkIs ==
  ASSUME TypeOK, sending PROVE Chunk = Piece(Here)
<1>1. \A i \in 1 .. HalfBits : Bit(half * HalfBits + i - 1) = After(Here, i - 1)
  <2> TAKE i \in 1 .. HalfBits
  <2>1. i - 1 \in 0 .. Width - 1 /\ half * HalfBits + i - 1 = half * HalfBits + (i - 1)
    BY Sizes DEF TypeOK
  <2> QED
    BY <2>1, BitIs
<1> QED
  BY <1>1 DEF Chunk, Piece

(* The device's next chunk begins half a sample on. *)
LEMMA HereMoves ==
  ASSUME TypeOK, TypeOK', half' = (half + 1) % (2 * Numbers), phase' = phase
  PROVE  Here' = After(Here, HalfBits)
<1>1. PICK d \in Int, r \in 0 .. Width - 1 :
         /\ half * HalfBits + phase = d * Width + r
         /\ Here = [of |-> d % Numbers, at |-> r]
         /\ d % Numbers \in Number
  BY Where
<1> DEFINE m == half * HalfBits + phase
           n == m + HalfBits
           e == IF r + HalfBits < Width THEN d ELSE d + 1
           t == IF r + HalfBits < Width THEN r + HalfBits ELSE r + HalfBits - Width
<1>2. e \in Int /\ t \in 0 .. Width - 1
  BY Sizes
<1>3. n = e * Width + t
  <2> HIDE DEF m
  <2>1. m = d * Width + r /\ m \in Int
    BY <1>1, Sizes DEF TypeOK, Place, m
  <2>2. CASE r + HalfBits < Width
    BY <2>1, <2>2, Sizes
  <2>3. CASE ~ (r + HalfBits < Width)
    <3>1. (d + 1) * Width = d * Width + Width
      BY Sizes
    <3> QED
      BY <2>1, <2>3, <3>1, Sizes
  <2> QED
    BY <2>2, <2>3
<1>4. After(Here, HalfBits) = [of |-> e % Numbers, at |-> t]
  <2>1. (d + 1) % Numbers = NextNo(d % Numbers)
    BY NextMod, Sizes DEF NextNo
  <2> QED
    BY <1>1, <2>1 DEF After
<1>5. n \div Width = e /\ n % Width = t
  <2> HIDE DEF n, e, t
  <2> QED
    BY <1>2, <1>3, DivModOf, Sizes
<1>6. CASE half # 2 * Numbers - 1
  <2>1. half + 1 = 0 * (2 * Numbers) + (half + 1) /\ half + 1 \in 0 .. 2 * Numbers - 1
        /\ 2 * Numbers \in Nat \ {0}
    BY <1>6, Sizes DEF TypeOK
  <2>2. half' = half + 1
    BY <2>1, DivMod
  <2>3. (half + 1) * HalfBits = half * HalfBits + HalfBits
    BY Sizes DEF TypeOK
  <2>4. half' * HalfBits + phase' = n
    <3>1. half * HalfBits \in Int /\ phase \in Int /\ HalfBits \in Int
      BY Sizes DEF TypeOK, Place
    <3> QED
      BY <2>2, <2>3, <3>1
  <2> HIDE DEF e, t, n
  <2>5. Here' = [of |-> e % Numbers, at |-> t]
    BY <1>5, <2>4 DEF Here
  <2> QED
    BY <2>5, <1>4 DEF e, t
<1>7. CASE half = 2 * Numbers - 1
  <2>1. half + 1 = 1 * (2 * Numbers) + 0 /\ 0 \in 0 .. 2 * Numbers - 1
        /\ 2 * Numbers \in Nat \ {0}
    BY <1>7, Sizes DEF TypeOK
  <2>2. half' = 0
    BY <2>1, DivMod
  <2>3. n = Numbers * Width + phase
    <3>1. half * HalfBits + HalfBits = Numbers * Width
      BY <1>7, Sizes
    <3>2. half * HalfBits \in Int /\ phase \in Int /\ HalfBits \in Int
      BY Sizes DEF TypeOK, Place
    <3> QED
      BY <3>1, <3>2
  <2>4. phase \in 0 .. Width - 1
    BY DEF TypeOK, Place
  <2>5. n \div Width = Numbers /\ n % Width = phase
    <3> HIDE DEF n
    <3> QED
      BY <2>3, <2>4, DivModOf, Sizes
  <2> HIDE DEF e, t, n
  <2>6. e % Numbers = 0 /\ 0 % Numbers = 0
    <3>1. /\ e = 1 * Numbers + 0 /\ 0 \in 0 .. Numbers - 1
          /\ 0 = 0 * Numbers + 0
      BY <1>5, <2>5, Sizes
    <3> QED
      BY <3>1, DivModOf, Sizes
  <2>7. half' * HalfBits + phase' = phase
    BY <2>2, <2>4, Sizes
  <2>8. phase \div Width = 0 /\ phase % Width = phase
    <3>1. phase = 0 * Width + phase
      BY <2>4, Sizes
    <3> QED
      BY <3>1, <2>4, DivModOf, Sizes
  <2>9. Here' = [of |-> 0, at |-> phase]
    BY <2>6, <2>7, <2>8 DEF Here
  <2> QED
    BY <1>5, <2>5, <2>6, <2>9, <1>4 DEF e, t
<1> QED
  BY <1>6, <1>7

-----------------------------------------------------------------------------
(* Sequences of a fixed length, which are functions.                       *)

LEMMA Sequence ==
  ASSUME NEW S, NEW n \in Nat, NEW f \in [1 .. n -> S]
  PROVE  f \in Seq(S) /\ Len(f) = n
  OBVIOUS

LEMMA Function ==
  ASSUME NEW S, NEW f \in Seq(S), NEW n, Len(f) = n
  PROVE  f \in [1 .. n -> S]
  BY LenProperties

(* The end of one sequence and the beginning of another. *)
LEMMA Spliced ==
  ASSUME NEW S, NEW u \in Seq(S), NEW v \in Seq(S),
         NEW a \in 1 .. Len(u) + 1, NEW b \in 0 .. Len(v), NEW c \in Nat, c = Len(u) - a + 1
  PROVE  /\ SubSeq(u, a, Len(u)) \o SubSeq(v, 1, b) \in Seq(S)
         /\ Len(SubSeq(u, a, Len(u)) \o SubSeq(v, 1, b)) = c + b
         /\ \A i \in 1 .. c + b :
              (SubSeq(u, a, Len(u)) \o SubSeq(v, 1, b))[i] = IF i <= c THEN u[a + i - 1] ELSE v[i - c]
<1> DEFINE s == SubSeq(u, a, Len(u))
           t == SubSeq(v, 1, b)
<1>0. Len(u) \in Nat /\ Len(v) \in Nat
  OBVIOUS
<1>1. s \in Seq(S) /\ Len(s) = c /\ \A i \in 1 .. c : s[i] = u[a + i - 1]
  <2>1. \A i \in a .. Len(u) : u[i] \in S
    OBVIOUS
  <2> QED
    BY <1>0, <2>1, SubSeqProperties
<1>2. t \in Seq(S) /\ Len(t) = b /\ \A i \in 1 .. b : t[i] = v[i]
  <2>1. \A i \in 1 .. b : v[i] \in S
    BY <1>0
  <2> QED
    BY <1>0, <2>1, SubSeqProperties
<1> HIDE DEF s, t
<1>3. /\ s \o t \in Seq(S) /\ Len(s \o t) = c + b
      /\ \A i \in 1 .. c + b : (s \o t)[i] = IF i <= c THEN s[i] ELSE t[i - c]
  <2>1. s \in Seq(S) /\ Len(s) = c /\ t \in Seq(S) /\ Len(t) = b
    BY <1>1, <1>2
  <2>2. /\ s \o t \in Seq(S) /\ Len(s \o t) = Len(s) + Len(t)
        /\ \A i \in 1 .. Len(s) + Len(t) :
             (s \o t)[i] = IF i <= Len(s) THEN s[i] ELSE t[i - Len(s)]
    BY <2>1, ConcatProperties
  <2> QED
    BY <2>1, <2>2
<1>4. \A i \in 1 .. c + b : (s \o t)[i] = IF i <= c THEN u[a + i - 1] ELSE v[i - c]
  <2> TAKE i \in 1 .. c + b
  <2>1. CASE i <= c
    BY <2>1, <1>0, <1>1, <1>3
  <2>2. CASE ~ (i <= c)
    BY <2>2, <1>0, <1>1, <1>2, <1>3, SMTT(90)
  <2> QED
    BY <2>1, <2>2
<1> QED
  BY <1>3, <1>4 DEF s, t

LEMMA Shapes ==
  ASSUME NEW p \in Spot
  PROVE  /\ Piece(p) \in Seq(Spot) /\ Len(Piece(p)) = HalfBits
         /\ Window(p) \in Seq(Spot) /\ Len(Window(p)) = Width
<1>1. Piece(p) \in [1 .. HalfBits -> Spot] /\ Window(p) \in [1 .. Width -> Spot]
  BY Afters, Sizes DEF Piece, Window
<1> QED
  BY <1>1, Sequence, Sizes

LEMMA Joined ==
  ASSUME NEW S, NEW u \in Seq(S), NEW v \in Seq(S), NEW n \in Nat, Len(u) = n, Len(v) = n
  PROVE  /\ u \o v \in Seq(S) /\ Len(u \o v) = n + n
         /\ \A i \in 1 .. n + n : (u \o v)[i] = IF i <= n THEN u[i] ELSE v[i - n]
  BY ConcatProperties

(* Two pieces in a row make a window, and the window's halves are they. *)
LEMMA PiecesJoin ==
  ASSUME NEW p \in Spot
  PROVE  Piece(Back(p)) \o Piece(p) = Window(Back(p))
<1> DEFINE b == Back(p)
<1>1. b \in Spot /\ p.of \in Number /\ p.at \in 0 .. Width - 1
  BY Spots
<1>2. /\ Piece(b) \in Seq(Spot) /\ Len(Piece(b)) = HalfBits
      /\ Piece(p) \in Seq(Spot) /\ Len(Piece(p)) = HalfBits
      /\ Window(b) \in Seq(Spot) /\ Len(Window(b)) = Width
  BY <1>1, Shapes
<1>3. /\ Piece(b) \o Piece(p) \in Seq(Spot)
      /\ Len(Piece(b) \o Piece(p)) = Width
      /\ \A i \in 1 .. Width :
           (Piece(b) \o Piece(p))[i] = IF i <= HalfBits THEN Piece(b)[i] ELSE Piece(p)[i - HalfBits]
  <2>1. Width = HalfBits + HalfBits /\ HalfBits \in Nat
    BY Sizes
  <2>2. PICK u, v : u = Piece(b) /\ v = Piece(p)
    OBVIOUS
  <2>3. u \in Seq(Spot) /\ Len(u) = HalfBits /\ v \in Seq(Spot) /\ Len(v) = HalfBits
    BY <1>2, <2>2
  <2>4. /\ u \o v \in Seq(Spot) /\ Len(u \o v) = HalfBits + HalfBits
        /\ \A i \in 1 .. HalfBits + HalfBits : (u \o v)[i] = IF i <= HalfBits THEN u[i] ELSE v[i - HalfBits]
    BY <2>1, <2>3, Joined
  <2> QED
    BY <2>1, <2>2, <2>4
<1>4. \A i \in 1 .. Width : (Piece(b) \o Piece(p))[i] = After(b, i - 1)
  <2> TAKE i \in 1 .. Width
  <2>1. CASE i <= HalfBits
    <3>1. i \in 1 .. HalfBits /\ (Piece(b) \o Piece(p))[i] = Piece(b)[i]
      BY <2>1, <1>3, Sizes
    <3> HIDE DEF b
    <3> QED
      BY <3>1 DEF Piece
  <2>2. CASE ~ (i <= HalfBits)
    <3>1. (Piece(b) \o Piece(p))[i] = After(p, i - HalfBits - 1)
      <4>1. i - HalfBits \in 1 .. HalfBits
        BY <2>2, Sizes
      <4> QED
        BY <2>2, <1>3, <4>1 DEF Piece
    <3>2. After(p, i - HalfBits - 1) = After(b, i - 1)
      <4>1. NextNo(PrevNo(p.of)) = p.of
        BY <1>1, Numbering
      <4>2. CASE p.at >= HalfBits
        <5>1. b.of = p.of /\ b.at = p.at - HalfBits
          BY <4>2, Spots
        <5> HIDE DEF b
        <5> QED
          BY <1>1, <2>2, <4>2, <5>1, Sizes DEF After
      <4>3. CASE ~ (p.at >= HalfBits)
        <5>1. b.of = PrevNo(p.of) /\ b.at = p.at + HalfBits
          BY <4>3, Spots
        <5> HIDE DEF b
        <5> QED
          BY <1>1, <2>2, <4>1, <4>3, <5>1, Sizes DEF After
      <4> QED
        BY <4>2, <4>3
    <3> QED
      BY <3>1, <3>2
  <2> QED
    BY <2>1, <2>2
<1>5. \A i \in 1 .. Width : Window(b)[i] = After(b, i - 1)
  BY DEF Window
<1>6. Width \in Nat
  BY Sizes
<1> DEFINE s == Piece(b) \o Piece(p)
           t == Window(b)
<1>7. /\ s \in Seq(Spot) /\ t \in Seq(Spot) /\ Len(s) = Len(t)
      /\ \A i \in 1 .. Len(s) : s[i] = t[i]
  BY <1>2, <1>3, <1>4, <1>5, <1>6
<1> HIDE DEF s, t
<1>8. s = t
  BY <1>7, SeqEqual
<1> QED
  BY <1>8 DEF s, t

(* A sample cut out of two windows at the strobe's place is whole. *)
StrobeAt(p) == IF p.at = 0 THEN 1 ELSE Width - p.at + 1

LEMMA StrobeIs ==
  ASSUME NEW p \in Spot, packed = Window(p)
  PROVE  Strobe = StrobeAt(p) /\ StrobeAt(p) \in 1 .. Width
<1> DEFINE at == {i \in 1 .. Width : packed[i] # Zero /\ packed[i].at = 0}
<1>1. p.of \in Number /\ p.at \in 0 .. Width - 1
  BY Spots
<1>2. StrobeAt(p) \in 1 .. Width
  BY <1>1, Sizes DEF StrobeAt
<1>3. \A i \in 1 .. Width : i \in at <=> i = StrobeAt(p)
  <2> TAKE i \in 1 .. Width
  <2>1. packed[i] = After(p, i - 1) /\ packed[i] \in Spot
    BY Afters, Sizes DEF Window
  <2>2. i \in at <=> After(p, i - 1).at = 0
    BY <2>1, Sizes
  <2>3. After(p, i - 1).at = IF p.at + (i - 1) < Width THEN p.at + (i - 1) ELSE p.at + (i - 1) - Width
    BY DEF After
  <2> QED
    BY <1>1, <2>2, <2>3, Sizes DEF StrobeAt
<1>4. at = {StrobeAt(p)}
  BY <1>2, <1>3
<1> HIDE DEF at
<1>5. (CHOOSE i \in at : \A j \in at : i <= j) = StrobeAt(p)
  BY <1>2, <1>4
<1> QED
  BY <1>2, <1>4, <1>5 DEF Strobe, at

LEMMA SampleCut ==
  ASSUME NEW p \in Spot, packed = Window(p), prev = Window(Before(p))
  PROVE  SubSeq(prev, Strobe, Width) \o SubSeq(packed, 1, Strobe - 1) = Whole(Delivered(Before(p)))
<1> DEFINE k == StrobeAt(p)
           q == Before(p)
<1>1. Strobe = k /\ k \in 1 .. Width
  BY StrobeIs
<1>2. /\ p.of \in Number /\ p.at \in 0 .. Width - 1 /\ q \in Spot
      /\ q.of = PrevNo(p.of) /\ q.at = p.at /\ NextNo(PrevNo(p.of)) = p.of
  BY Spots, Numbering DEF Before
<1>3. prev \in Seq(Spot) /\ Len(prev) = Width /\ packed \in Seq(Spot) /\ Len(packed) = Width
  BY <1>2, Shapes
<1>4. \A i \in 1 .. Width : packed[i] = After(p, i - 1) /\ prev[i] = After(q, i - 1)
  BY DEF Window
<1> DEFINE s == SubSeq(prev, k, Width) \o SubSeq(packed, 1, k - 1)
<1>5. /\ s \in Seq(Spot) /\ Len(s) = Width
      /\ \A i \in 1 .. Width :
           s[i] = IF i <= Width - k + 1 THEN prev[k + i - 1] ELSE packed[i - (Width - k + 1)]
  <2>1. /\ k \in 1 .. Width + 1 /\ k - 1 \in 0 .. Width
        /\ Width = (Width - k + 1) + (k - 1) /\ Width - k + 1 \in Nat /\ Width \in Nat
    BY <1>1, Sizes
  <2> HIDE DEF k
  <2> QED
    BY <1>3, <2>1, Spliced
<1>6. \A i \in 1 .. Width : s[i] = [of |-> Delivered(q), at |-> i - 1]
  <2> TAKE i \in 1 .. Width
  <2> HIDE DEF s, q
  <2>1. CASE p.at = 0
    <3>1. k = 1
      BY <2>1 DEF StrobeAt
    <3>2. s[i] = After(q, i - 1)
      BY <1>4, <1>5, <3>1, Sizes, SMTT(90)
    <3> QED
      BY <1>2, <2>1, <3>2, Sizes DEF After, Delivered
  <2>2. CASE p.at # 0
    <3>1. k = Width - p.at + 1
      BY <2>2 DEF StrobeAt
    <3>2. Delivered(q) = p.of
      BY <1>2, <2>2 DEF Delivered
    <3>3. CASE i <= p.at
      <4>1. s[i] = After(q, Width - p.at + i - 1)
        <5>1. i <= Width - k + 1 /\ k + i - 1 \in 1 .. Width /\ k + i - 1 - 1 = Width - p.at + i - 1
          BY <1>2, <3>1, <3>3, Sizes
        <5> HIDE DEF k
        <5>2. s[i] = prev[k + i - 1]
          BY <1>5, <5>1
        <5>3. prev[k + i - 1] = After(q, k + i - 1 - 1)
          <6> DEFINE j == k + i - 1
          <6> HIDE DEF j
          <6>1. j \in 1 .. Width
            BY <5>1 DEF j
          <6>2. prev[j] = After(q, j - 1)
            BY <1>4, <6>1
          <6> QED
            BY <1>1, <6>2, Sizes DEF j
        <5> QED
          BY <5>1, <5>2, <5>3
      <4> QED
        BY <1>2, <3>2, <3>3, <4>1, Sizes DEF After
    <3>4. CASE ~ (i <= p.at)
      <4>1. s[i] = After(p, i - p.at - 1)
        <5>1. /\ ~ (i <= Width - k + 1) /\ i - (Width - k + 1) \in 1 .. Width
              /\ i - (Width - k + 1) - 1 = i - p.at - 1
          BY <1>2, <3>1, <3>4, Sizes
        <5> HIDE DEF k
        <5>2. s[i] = packed[i - (Width - k + 1)]
          BY <1>5, <5>1
        <5>3. packed[i - (Width - k + 1)] = After(p, i - (Width - k + 1) - 1)
          BY <1>4, <5>1
        <5> QED
          BY <5>1, <5>2, <5>3
      <4> QED
        BY <1>2, <3>2, <3>4, <4>1, Sizes DEF After
    <3> QED
      BY <3>3, <3>4
  <2> QED
    BY <2>1, <2>2
<1>7. /\ Whole(Delivered(q)) \in Seq(Spot) /\ Len(Whole(Delivered(q))) = Width
      /\ \A i \in 1 .. Width : Whole(Delivered(q))[i] = [of |-> Delivered(q), at |-> i - 1]
  <2>1. Delivered(q) \in Number
    BY <1>2, Spots
  <2>2. Whole(Delivered(q)) \in [1 .. Width -> Spot]
    BY <2>1, Sizes DEF Whole, Spot, Place
  <2> QED
    BY <2>2, Sequence, Sizes DEF Whole
<1> HIDE DEF s, q
<1>8. s = Whole(Delivered(q))
  BY <1>5, <1>6, <1>7, SeqEqual
<1> QED
  BY <1>1, <1>8 DEF s, q

LEMMA WholeIs ==
  ASSUME NEW s \in Number
  PROVE  IsWhole(Whole(s)) /\ Value(Whole(s)) = s
  BY Sizes DEF IsWhole, Value, Whole

-----------------------------------------------------------------------------
(* Types.                                                                  *)

LEMMA LeastNumber ==
  ASSUME NEW T, T \subseteq Nat, T # {}
  PROVE  \E n \in T : \A m \in T : n <= m
<1> DEFINE R == {ss \in Nat \X Nat : ss[1] < ss[2]}
<1>1. IsWellFoundedOn(R, Nat)
  BY NatLessThanWellFounded DEF OpToRel
<1>2. PICK n \in T : \A m \in T : ~ (<<m, n>> \in R)
  <2> HIDE DEF R
  <2> QED
    BY <1>1, WFMin
<1>3. \A m \in T : ~ (m < n)
  BY <1>2
<1> QED
  BY <1>3

LEMMA StrobeRange ==
  ASSUME TypeOK PROVE Strobe \in 1 .. Width
<1> DEFINE at == {i \in 1 .. Width : packed[i] # Zero /\ packed[i].at = 0}
<1>1. CASE at = {}
  BY <1>1, Sizes DEF Strobe
<1>2. CASE at # {}
  <2>1. at \subseteq Nat /\ at \subseteq 1 .. Width
    OBVIOUS
  <2> HIDE DEF at
  <2>2. \E i \in at : \A j \in at : i <= j
    BY <1>2, <2>1, LeastNumber
  <2>3. (CHOOSE i \in at : \A j \in at : i <= j) \in at
    BY <2>2
  <2> QED
    BY <1>2, <2>1, <2>3 DEF Strobe, at
<1> QED
  BY <1>1, <1>2

LEMMA Windows ==
  ASSUME TypeOK
  PROVE  /\ dout \in Seq(Bits) /\ Len(dout) = HalfBits
         /\ packed \in Seq(Bits) /\ Len(packed) = Width
         /\ prev \in Seq(Bits) /\ Len(prev) = Width
  BY Sequence, Sizes DEF TypeOK

LEMMA Packs ==
  ASSUME TypeOK
  PROVE  /\ SubSeq(packed, HalfBits + 1, Width) \o dout \in [1 .. Width -> Bits]
         /\ SubSeq(SubSeq(packed, HalfBits + 1, Width) \o dout, HalfBits + 1, Width) = dout
<1> DEFINE u == SubSeq(packed, HalfBits + 1, Width)
<1>1. /\ dout \in Seq(Bits) /\ Len(dout) = HalfBits
      /\ packed \in Seq(Bits) /\ Len(packed) = Width
      /\ HalfBits \in Nat \ {0} /\ Width \in Nat /\ Width = HalfBits + HalfBits
  BY Windows, Sizes
<1>2. u \in Seq(Bits) /\ Len(u) = HalfBits
  <2>1. \A i \in HalfBits + 1 .. Width : packed[i] \in Bits
    BY Sizes DEF TypeOK
  <2>2. HalfBits + 1 \in Int /\ Width \in Int /\ HalfBits + 1 <= Width
        /\ Width - (HalfBits + 1) + 1 = HalfBits
    BY <1>1
  <2> QED
    BY <2>1, <2>2, SubSeqProperties
<1> HIDE DEF u
<1>3. u \o dout \in Seq(Bits) /\ Len(u \o dout) = Width
  <2>1. u \o dout \in Seq(Bits) /\ Len(u \o dout) = Len(u) + Len(dout)
    BY <1>1, <1>2, ConcatProperties
  <2> QED
    BY <1>1, <1>2, <2>1
<1>4. SubSeq(u \o dout, HalfBits + 1, Width) = dout
  <2>1. /\ HalfBits + 1 \in Len(u) + 1 .. Len(u) + Len(dout)
        /\ Width \in Len(u) + 1 .. Len(u) + Len(dout)
    BY <1>1, <1>2
  <2>2. SubSeq(u \o dout, HalfBits + 1, Width) = SubSeq(dout, (HalfBits + 1) - Len(u), Width - Len(u))
    BY <1>1, <1>2, <2>1, SubSeqOfConcat2
  <2>3. (HalfBits + 1) - Len(u) = 1 /\ Width - Len(u) = Len(dout)
    BY <1>1, <1>2
  <2> QED
    BY <1>1, <2>2, <2>3, SubSeqFull
<1> QED
  BY <1>3, <1>4, Function DEF u

LEMMA Aligns ==
  ASSUME TypeOK
  PROVE  SubSeq(prev, Strobe, Width) \o SubSeq(packed, 1, Strobe - 1) \in [1 .. Width -> Bits]
<1> DEFINE k == Strobe
<1>1. k \in 1 .. Width + 1 /\ k - 1 \in 0 .. Width /\ Width - k + 1 \in Nat
      /\ (Width - k + 1) + (k - 1) = Width /\ Width \in Nat
  BY StrobeRange, Sizes
<1> HIDE DEF k
<1> DEFINE s == SubSeq(prev, k, Width) \o SubSeq(packed, 1, k - 1)
<1>2. /\ s \in Seq(Bits) /\ Len(s) = Width
  BY <1>1, Windows, Spliced, SMTT(90)
<1> HIDE DEF s
<1> QED
  BY <1>2, Function DEF k, s

LEMMA Values ==
  ASSUME NEW w PROVE Value(w) \in Number \cup {None}
  BY WholeIs DEF Value, IsWhole

LEMMA Ramps ==
  ASSUME NEW v \in Number \cup {None}
  PROVE  /\ Ramp(v) \in Number \cup {None}
         /\ v \in Number => Ramp(v) = NextNo(v)
  BY Numbering, Sizes DEF Ramp

LEMMA ChunkType ==
  ASSUME TypeOK
  PROVE  Chunk \in [1 .. HalfBits -> Bits] /\ Silence(HalfBits) \in [1 .. HalfBits -> Bits]
<1>1. \A i \in 1 .. HalfBits : Bit(half * HalfBits + i - 1) \in Bits
  <2> TAKE i \in 1 .. HalfBits
  <2> DEFINE m == half * HalfBits + i - 1 + phase
  <2>1. m \in Int
    BY Sizes DEF TypeOK, Place
  <2> HIDE DEF m
  <2>2. m % Width \in Place /\ (m \div Width) % Numbers \in Number
    BY <2>1, ModRange, Sizes DEF Place, Number
  <2> QED
    BY <2>2 DEF Bit, Bits, m
<1> QED
  BY <1>1 DEF Chunk, Silence, Bits

LEMMA TypeInit == Init => TypeOK
<1> SUFFICES ASSUME Init PROVE TypeOK
  OBVIOUS
<1>1. Silence(HalfBits) \in [1 .. HalfBits -> Bits] /\ Silence(Width) \in [1 .. Width -> Bits]
  BY DEF Silence, Bits
<1>2. /\ dout \in [1 .. HalfBits -> Bits] /\ packed \in [1 .. Width -> Bits]
      /\ prev \in [1 .. Width -> Bits] /\ aligned \in [1 .. Width -> Bits]
  <2> HIDE DEF Silence
  <2> QED
    BY <1>1 DEF Init
<1>3. /\ hold \in 0 .. SyncStages /\ cnt \in 0 .. CountMax /\ phase \in Place
      /\ half \in 0 .. 2 * Numbers - 1 /\ rampCount \in 0 .. Top /\ calm \in 0 .. Steady
      /\ run \in 0 .. Span /\ late \in 0 .. Lag + 1
  BY Sizes DEF Init, Place, Steady, Settling, Span, Lag
<1>4. /\ enable \in BOOLEAN /\ rst \in BOOLEAN /\ sending \in BOOLEAN
      /\ packedValid \in BOOLEAN /\ alignedValid \in BOOLEAN /\ rampValid \in BOOLEAN
      /\ rampDetected \in BOOLEAN /\ rampOut \in BOOLEAN
      /\ ssiEnableCnt \in Counts /\ disableCnt \in Counts
      /\ rampIn \in Number \cup {None} /\ predicted \in Number \cup {None}
      /\ before \in Number \cup {None}
  BY DEF Init
<1> QED
  BY <1>2, <1>3, <1>4 DEF TypeOK

LEMMA TypeStep == TypeOK /\ [Next]_vars => TypeOK'
<1> SUFFICES ASSUME TypeOK, [Next]_vars PROVE TypeOK'
  OBVIOUS
<1>1. CASE Clock
  <2>1. hold' \in 0 .. SyncStages /\ UNCHANGED <<settings, sending>>
    BY <1>1, Sizes DEF Clock, TypeOK
  <2>2. dout' \in [1 .. HalfBits -> Bits]
    BY <1>1, ChunkType DEF Clock, Deserialise
  <2>3. half' \in 0 .. 2 * Numbers - 1
    <3>1. half + 1 \in Int /\ 2 * Numbers \in Nat \ {0}
      BY Sizes DEF TypeOK
    <3> QED
      BY <1>1, <3>1, ModRange DEF Clock, Deserialise
  <2>4. /\ packed' \in [1 .. Width -> Bits] /\ prev' \in [1 .. Width -> Bits]
        /\ packedValid' \in BOOLEAN
    <3>1. packed' \in [1 .. Width -> Bits]
      BY <1>1, Packs DEF Clock, Pack
    <3>2. prev' \in [1 .. Width -> Bits]
      BY <1>1 DEF Clock, Pack, TypeOK
    <3>3. packedValid' \in BOOLEAN
      BY <1>1 DEF Clock, Pack
    <3> QED
      BY <3>1, <3>2, <3>3
  <2>5. aligned' \in [1 .. Width -> Bits] /\ alignedValid' \in BOOLEAN
    BY <1>1, Aligns DEF Clock, Align, TypeOK
  <2>6. cnt' \in 0 .. CountMax /\ rst' \in BOOLEAN /\ phase' \in Place
    <3>1. cnt' \in 0 .. CountMax
      BY <1>1, Sizes DEF Clock, Count, TypeOK
    <3>2. rst' \in BOOLEAN
      BY <1>1 DEF Clock, Count
    <3>3. phase' \in Place
      BY <1>1 DEF Clock, Count, TypeOK
    <3> QED
      BY <3>1, <3>2, <3>3
  <2>7. /\ rampIn' \in Number \cup {None} /\ predicted' \in Number \cup {None}
        /\ rampValid' \in BOOLEAN /\ rampDetected' \in BOOLEAN
        /\ rampCount' \in 0 .. Top /\ rampOut' \in BOOLEAN
    <3>1. rampIn' \in Number \cup {None} /\ predicted' \in Number \cup {None}
      BY <1>1, Values, Ramps DEF Clock, Monitor, TypeOK
    <3>2. rampValid' \in BOOLEAN /\ rampDetected' \in BOOLEAN /\ rampOut' \in BOOLEAN
      BY <1>1, Zenon DEF Clock, Monitor, TypeOK
    <3>3. rampCount' \in 0 .. Top
      BY <1>1, Sizes DEF Clock, Monitor, TypeOK
    <3> QED
      BY <3>1, <3>2, <3>3
  <2>8. /\ calm' \in 0 .. Steady /\ before' \in Number \cup {None}
        /\ run' \in 0 .. Span /\ late' \in 0 .. Lag + 1
    <3>1. before' \in Number \cup {None}
      BY <1>1, Values DEF Clock, Observe, TypeOK
    <3>2. calm' \in 0 .. Steady /\ run' \in 0 .. Span /\ late' \in 0 .. Lag + 1
      BY <1>1, Sizes DEF Clock, Observe, TypeOK, AtMost, Steady, Settling, Span, Lag
    <3> QED
      BY <3>1, <3>2
  <2> QED
    BY <2>1, <2>2, <2>3, <2>4, <2>5, <2>6, <2>7, <2>8 DEF TypeOK, settings
<1>2. CASE Enable
  BY <1>2 DEF Enable, TypeOK, logic, monitor, device, history
<1>3. CASE Disable
  BY <1>3, ZenonT(30) DEF Disable, TypeOK, logic, monitor, device, history
<1>4. CASE Send
  <2>1. calm' \in 0 .. Steady
    BY <1>4 DEF Send, Steady, Settling
  <2>2. sending' \in BOOLEAN /\ phase' \in Place
    BY <1>4 DEF Send, TypeOK
  <2> QED
    BY <1>4, <2>1, <2>2 DEF Send, TypeOK, settings, logic, monitor, device
<1>5. CASE Stop
  <2>1. calm' \in 0 .. Steady
    BY <1>5 DEF Stop, Steady, Settling
  <2>2. sending' \in BOOLEAN /\ phase' \in Place
    BY <1>5 DEF Stop, TypeOK
  <2> QED
    BY <1>5, <2>1, <2>2 DEF Stop, TypeOK, settings, logic, monitor, device
<1>6. CASE UNCHANGED vars
  BY <1>6 DEF TypeOK, vars, settings, logic, monitor, device, history
<1> QED
  BY <1>1, <1>2, <1>3, <1>4, <1>5, <1>6 DEF Next

(* Every register of the data path keeps its width, every chunk and window *)
(* holds bits of the stream or nothing, and the counters stay within their *)
(* limits, whatever software writes and whenever the device starts and     *)
(* stops (adrv9001_rx.v:259-420).                                          *)
THEOREM TypeCorrect == Spec => []TypeOK
  BY TypeInit, TypeStep, PTL DEF Spec

-----------------------------------------------------------------------------
(* The packer and the deserialiser's reset keep time.                      *)

(* Clocks since the counter reached the value that ends the reset. *)
Beat == 2 * (cnt - ssiEnableCnt) + (IF packedValid THEN 1 ELSE 0)

(* For n clocks the device has been steady and the deserialiser released. *)
Age(n) == sending /\ calm >= n /\ cnt <= disableCnt /\ Beat >= n + 3

Control ==
  /\ ~ (packedValid /\ alignedValid)
  /\ ~ (rampValid /\ alignedValid)
  /\ cnt > 0 /\ ~ packedValid => alignedValid
  /\ cnt <= disableCnt /\ Beat >= 3 => ~ rst

LEMMA Registers ==
  ASSUME TypeOK
  PROVE  /\ cnt \in Nat /\ ssiEnableCnt \in Nat /\ disableCnt \in Nat /\ calm \in Nat
         /\ packedValid \in BOOLEAN /\ alignedValid \in BOOLEAN /\ rampValid \in BOOLEAN
         /\ rst \in BOOLEAN /\ Beat \in Int
  BY Sizes DEF TypeOK, Beat

LEMMA BeatOn ==
  ASSUME TypeOK, Beat >= 3
  PROVE  cnt > 0
<1>1. cnt \in Nat /\ ssiEnableCnt \in Nat
  BY Registers
<1>2. \/ Beat = 2 * (cnt - ssiEnableCnt) + 1
      \/ Beat = 2 * (cnt - ssiEnableCnt) + 0
  BY DEF Beat
<1> QED
  BY <1>1, <1>2

LEMMA RegistersNext ==
  ASSUME TypeOK'
  PROVE  /\ cnt' \in Nat /\ ssiEnableCnt' \in Nat /\ disableCnt' \in Nat /\ calm' \in Nat
         /\ Beat' \in Int
         /\ Beat' >= 3 => cnt' > 0
<1>1. cnt' \in Nat /\ ssiEnableCnt' \in Nat /\ disableCnt' \in Nat /\ calm' \in Nat
  BY Sizes, SMTT(90) DEF TypeOK
<1>2. \/ Beat' = 2 * (cnt' - ssiEnableCnt') + 1
      \/ Beat' = 2 * (cnt' - ssiEnableCnt') + 0
  BY DEF Beat
<1> QED
  BY <1>1, <1>2

(* A clock of the counter and of the packer. *)
LEMMA Beats ==
  ASSUME TypeOK, TypeOK', Clock
  PROVE  /\ ssiEnableCnt' = ssiEnableCnt /\ disableCnt' = disableCnt /\ sending' = sending
         /\ cnt' > 0 => Enabled /\ cnt' >= cnt
         /\ Enabled => packedValid' = ~ packedValid
         /\ cnt' > 0 => Beat' <= Beat + 1
         /\ cnt' > 0 /\ ~ packedValid => cnt' = cnt
         /\ packedValid' => ~ packedValid
<1>1. /\ ssiEnableCnt' = ssiEnableCnt /\ disableCnt' = disableCnt /\ sending' = sending
  BY DEF Clock, settings
<1>2. /\ cnt' > 0 => Enabled /\ cnt' >= cnt /\ cnt' <= cnt + 1
      /\ cnt' > 0 /\ ~ packedValid => cnt' = cnt
  BY Registers, Sizes DEF Clock, Count
<1>3. packedValid' = (Enabled /\ ~ packedValid)
  BY DEF Clock, Pack
<1>4. cnt' > 0 => Beat' <= Beat + 1
  <2> SUFFICES ASSUME cnt' > 0 PROVE Beat' <= Beat + 1
    OBVIOUS
  <2>1. CASE packedValid
    <3>1. packedValid' = FALSE
      BY <2>1, <1>3
    <3> QED
      BY <2>1, <3>1, <1>1, <1>2, Registers, RegistersNext DEF Beat
  <2>2. CASE ~ packedValid
    <3>1. cnt' = cnt
      BY <2>2, <1>2
    <3> QED
      BY <2>2, <3>1, <1>1, Registers DEF Beat
  <2> QED
    BY <2>1, <2>2
<1> QED
  BY <1>1, <1>2, <1>3, <1>4

LEMMA ControlStep == TypeOK /\ TypeOK' /\ Control /\ [Next]_vars => Control'
<1> SUFFICES ASSUME TypeOK, TypeOK', Control, [Next]_vars PROVE Control'
  OBVIOUS
<1>1. CASE Clock
  <2>1. alignedValid' = packedValid /\ rampValid' = alignedValid
    BY <1>1 DEF Clock, Align, Monitor
  <2>2. packedValid' => ~ packedValid
    BY <1>1, Beats
  <2>3. cnt' > 0 /\ ~ packedValid' => alignedValid'
    BY <1>1, <2>1, Beats
  <2>4. ASSUME cnt' <= disableCnt', Beat' >= 3 PROVE ~ rst'
    <3>1. cnt \in Nat /\ cnt' \in Nat /\ ssiEnableCnt \in Nat /\ disableCnt \in Nat
          /\ Beat \in Int /\ Beat' \in Int /\ ssiEnableCnt' = ssiEnableCnt
      BY <1>1, Registers, RegistersNext, Beats
    <3>2. cnt' > 0
      BY <2>4, RegistersNext
    <3>3. Beat >= 2 /\ cnt <= disableCnt
      BY <1>1, <2>4, <3>1, <3>2, Beats
    <3>4. cnt > ssiEnableCnt
      BY <3>1, <3>3 DEF Beat
    <3> QED
      BY <1>1, <3>3, <3>4 DEF Clock, Count
  <2>5. ~ (packedValid' /\ alignedValid') /\ ~ (rampValid' /\ alignedValid')
    BY <2>1, <2>2 DEF Control
  <2> QED
    BY <2>3, <2>4, <2>5 DEF Control
<1>2. CASE UNCHANGED <<ssiEnableCnt, disableCnt, cnt, rst, packedValid, alignedValid, rampValid>>
  BY <1>2 DEF Control, Beat
<1>3. CASE Enable \/ Disable
  BY <1>3, <1>2 DEF Enable, Disable, logic, monitor
<1>4. CASE Send \/ Stop
  BY <1>4, <1>2 DEF Send, Stop, settings, logic, monitor
<1>5. CASE UNCHANGED vars
  BY <1>5, <1>2 DEF vars, settings, logic, monitor
<1> QED
  BY <1>1, <1>3, <1>4, <1>5 DEF Next

LEMMA Ages ==
  ASSUME TypeOK, TypeOK', Control, Clock, NEW n \in Nat, Age(n + 1)'
  PROVE  Age(n) /\ ~ rst /\ phase' = phase /\ Enabled
<1>1. /\ cnt \in Nat /\ cnt' \in Nat /\ ssiEnableCnt \in Nat /\ disableCnt \in Nat
      /\ Beat \in Int /\ Beat' \in Int /\ calm \in Nat /\ ssiEnableCnt' = ssiEnableCnt
  BY Registers, RegistersNext, Beats
<1>2. sending' /\ calm' >= n + 1 /\ cnt' <= disableCnt' /\ Beat' >= n + 4
  BY DEF Age
<1>3. cnt' > 0
  BY <1>1, <1>2, RegistersNext
<1>4. Beat >= n + 3 /\ cnt <= disableCnt /\ sending
  <2>1. /\ disableCnt' = disableCnt /\ sending' = sending
        /\ cnt' >= cnt /\ Beat' <= Beat + 1
    BY <1>3, Beats
  <2> QED
    BY <1>1, <1>2, <2>1
<1>5. calm >= n
  BY <1>1, <1>2, Sizes DEF Clock, Observe, AtMost, Steady, Settling
<1>6. ~ rst
  BY <1>1, <1>4 DEF Control
<1>7. phase' = phase
  BY <1>6 DEF Clock, Count
<1> QED
  BY <1>3, <1>4, <1>5, <1>6, <1>7, Beats DEF Age

-----------------------------------------------------------------------------
(* The pipeline: where in the stream each stage's content begins.          *)

H1 == Back(Here)
H2 == Back(H1)
H3 == Back(H2)
H4 == Back(H3)
H5 == Back(H4)
H6 == Back(H5)
H7 == Back(H6)
H8 == Back(H7)

Pipeline ==
  /\ Age(1) => dout = Piece(H1)
  /\ Age(2) => SubSeq(packed, HalfBits + 1, Width) = Piece(H2)
  /\ Age(3) => packed = Window(H3)
  /\ Age(4) /\ ~ packedValid => prev = Window(H4)
  /\ Age(5) /\ packedValid => prev = Window(H5)
  /\ Age(6) /\ alignedValid => aligned = Whole(Delivered(H6))
  /\ Age(7) /\ packedValid => before = Delivered(H7)
  /\ Age(8) /\ alignedValid => before = Delivered(H8)

LEMMA Halves ==
  ASSUME TypeOK
  PROVE  /\ H1 \in Spot /\ H2 \in Spot /\ H3 \in Spot /\ H4 \in Spot
         /\ H5 \in Spot /\ H6 \in Spot /\ H7 \in Spot /\ H8 \in Spot
         /\ H5 = Before(H3) /\ H8 = Before(H6)
  BY HereIsSpot, Spots DEF H1, H2, H3, H4, H5, H6, H7, H8

(* What was k halves behind is k + 1 halves behind a clock later. *)
LEMMA HalvesMove ==
  ASSUME TypeOK, TypeOK', Clock, phase' = phase
  PROVE  /\ H1' = Here /\ H2' = H1 /\ H3' = H2 /\ H4' = H3
         /\ H5' = H4 /\ H6' = H5 /\ H7' = H6 /\ H8' = H7
<1>1. Here' = After(Here, HalfBits)
  BY HereMoves DEF Clock, Deserialise
<1>2. Back(Here') = Here
  BY <1>1, HereIsSpot, BackAfter
<1>3. H1' = Here
  BY <1>2 DEF H1
<1>4. H2' = H1
  BY <1>3 DEF H2, H1
<1>5. H3' = H2
  BY <1>4 DEF H3, H2
<1>6. H4' = H3
  BY <1>5 DEF H4, H3
<1>7. H5' = H4
  BY <1>6 DEF H5, H4
<1>8. H6' = H5
  BY <1>7 DEF H6, H5
<1>9. H7' = H6
  BY <1>8 DEF H7, H6
<1>10. H8' = H7
  BY <1>9 DEF H8, H7
<1> QED
  BY <1>3, <1>4, <1>5, <1>6, <1>7, <1>8, <1>9, <1>10

LEMMA PipelineClock ==
  ASSUME TypeOK, TypeOK', Control, Pipeline, Clock
  PROVE  Pipeline'
<1>1. \A n \in Nat : Age(n + 1)' => Age(n) /\ ~ rst /\ phase' = phase /\ Enabled
  BY Ages
<1>2. /\ Age(1)' => Age(0) /\ ~ rst /\ phase' = phase
      /\ Age(2)' => Age(1) /\ phase' = phase
      /\ Age(3)' => Age(2) /\ phase' = phase
      /\ Age(4)' => Age(3) /\ phase' = phase /\ Enabled
      /\ Age(5)' => Age(4) /\ phase' = phase
      /\ Age(6)' => Age(5) /\ phase' = phase
      /\ Age(7)' => Age(6) /\ phase' = phase
      /\ Age(8)' => Age(7) /\ phase' = phase
  <2>1. /\ 1 = 0 + 1 /\ 2 = 1 + 1 /\ 3 = 2 + 1 /\ 4 = 3 + 1
        /\ 5 = 4 + 1 /\ 6 = 5 + 1 /\ 7 = 6 + 1 /\ 8 = 7 + 1
    OBVIOUS
  <2> QED
    BY <1>1, <2>1
<1>3. phase' = phase => /\ H1' = Here /\ H2' = H1 /\ H3' = H2 /\ H4' = H3
                        /\ H5' = H4 /\ H6' = H5 /\ H7' = H6 /\ H8' = H7
  BY HalvesMove
<1>4. packedValid' = (Enabled /\ ~ packedValid) /\ alignedValid' = packedValid
  BY DEF Clock, Pack, Align
<1>5. Age(1)' => dout' = Piece(H1')
  <2> SUFFICES ASSUME Age(1)' PROVE dout' = Piece(H1')
    OBVIOUS
  <2>1. ~ rst /\ sending /\ H1' = Here
    BY <1>2, <1>3 DEF Age
  <2>2. dout' = Chunk
    BY <2>1 DEF Clock, Deserialise
  <2> QED
    BY <2>1, <2>2, ChunkIs
<1>6. Age(2)' => SubSeq(packed', HalfBits + 1, Width) = Piece(H2')
  <2> SUFFICES ASSUME Age(2)' PROVE SubSeq(packed', HalfBits + 1, Width) = Piece(H2')
    OBVIOUS
  <2>1. dout = Piece(H1) /\ H2' = H1
    BY <1>2, <1>3 DEF Pipeline
  <2>2. SubSeq(packed', HalfBits + 1, Width) = dout
    BY Packs DEF Clock, Pack
  <2> QED
    BY <2>1, <2>2
<1>7. Age(3)' => packed' = Window(H3')
  <2> SUFFICES ASSUME Age(3)' PROVE packed' = Window(H3')
    OBVIOUS
  <2>1. Age(1)
    BY <1>2, Registers DEF Age
  <2>2. dout = Piece(H1) /\ SubSeq(packed, HalfBits + 1, Width) = Piece(H2) /\ H3' = H2
    BY <1>2, <1>3, <2>1 DEF Pipeline
  <2>3. packed' = Piece(H2) \o Piece(H1)
    BY <2>2 DEF Clock, Pack
  <2>4. Piece(Back(H1)) \o Piece(H1) = Window(Back(H1))
    BY Halves, PiecesJoin
  <2> QED
    BY <2>2, <2>3, <2>4 DEF H2
<1>8. Age(4)' /\ ~ packedValid' => prev' = Window(H4')
  <2> SUFFICES ASSUME Age(4)', ~ packedValid' PROVE prev' = Window(H4')
    OBVIOUS
  <2>1. Age(3) /\ packedValid /\ H4' = H3
    BY <1>2, <1>3, <1>4
  <2>2. prev' = packed /\ packed = Window(H3)
    BY <2>1 DEF Clock, Pack, Pipeline
  <2> QED
    BY <2>1, <2>2
<1>9. Age(5)' /\ packedValid' => prev' = Window(H5')
  <2> SUFFICES ASSUME Age(5)', packedValid' PROVE prev' = Window(H5')
    OBVIOUS
  <2>1. Age(4) /\ ~ packedValid /\ H5' = H4
    BY <1>2, <1>3, <1>4
  <2>2. prev' = prev /\ prev = Window(H4)
    BY <2>1 DEF Clock, Pack, Pipeline
  <2> QED
    BY <2>1, <2>2
<1>10. Age(6)' /\ alignedValid' => aligned' = Whole(Delivered(H6'))
  <2> SUFFICES ASSUME Age(6)', alignedValid' PROVE aligned' = Whole(Delivered(H6'))
    OBVIOUS
  <2>1. Age(5) /\ packedValid /\ H6' = H5
    BY <1>2, <1>3, <1>4
  <2>2. Age(3)
    BY <2>1, Registers DEF Age
  <2>3. prev = Window(H5) /\ packed = Window(H3) /\ H5 = Before(H3) /\ H3 \in Spot
    BY <2>1, <2>2, Halves DEF Pipeline
  <2>4. aligned' = SubSeq(prev, Strobe, Width) \o SubSeq(packed, 1, Strobe - 1)
    BY <2>1 DEF Clock, Align
  <2>5. aligned' = Whole(Delivered(H5))
    BY <2>3, <2>4, SampleCut
  <2> QED
    BY <2>1, <2>5
<1>11. Age(7)' /\ packedValid' => before' = Delivered(H7')
  <2> SUFFICES ASSUME Age(7)', packedValid' PROVE before' = Delivered(H7')
    OBVIOUS
  <2>1. Age(6) /\ ~ packedValid /\ H7' = H6
    BY <1>2, <1>3, <1>4
  <2>2. cnt > 0
    BY <2>1, Registers, BeatOn DEF Age
  <2>3. alignedValid
    BY <2>1, <2>2 DEF Control
  <2>4. aligned = Whole(Delivered(H6)) /\ Delivered(H6) \in Number
    BY <2>1, <2>3, Halves, Spots DEF Pipeline
  <2>5. before' = Value(aligned)
    BY <2>3 DEF Clock, Observe
  <2> QED
    BY <2>1, <2>4, <2>5, WholeIs
<1>12. Age(8)' /\ alignedValid' => before' = Delivered(H8')
  <2> SUFFICES ASSUME Age(8)', alignedValid' PROVE before' = Delivered(H8')
    OBVIOUS
  <2>1. Age(7) /\ packedValid /\ H8' = H7
    BY <1>2, <1>3, <1>4
  <2>2. ~ alignedValid
    BY <2>1 DEF Control
  <2>3. before' = before
    BY <2>2 DEF Clock, Observe
  <2> QED
    BY <2>1, <2>3 DEF Pipeline
<1> QED
  BY <1>5, <1>6, <1>7, <1>8, <1>9, <1>10, <1>11, <1>12 DEF Pipeline

(* Whoever else moves leaves the pipeline alone, or starts the ages anew. *)
LEMMA PipelineStep == TypeOK /\ TypeOK' /\ Control /\ Pipeline /\ [Next]_vars => Pipeline'
<1> SUFFICES ASSUME TypeOK, TypeOK', Control, Pipeline, [Next]_vars PROVE Pipeline'
  OBVIOUS
<1>1. CASE Clock
  BY <1>1, PipelineClock
<1>2. CASE UNCHANGED <<logic, device, history, ssiEnableCnt, disableCnt>>
  BY <1>2 DEF Pipeline, Age, Beat, logic, device, history,
              H1, H2, H3, H4, H5, H6, H7, H8, Here
<1>3. CASE Enable \/ Disable \/ UNCHANGED vars
  BY <1>3, <1>2 DEF Enable, Disable, vars, settings
<1>4. CASE Send \/ Stop
  <2>1. calm' = 0
    BY <1>4 DEF Send, Stop
  <2>2. \A n \in 1 .. 8 : ~ Age(n)'
    BY <2>1 DEF Age
  <2> QED
    BY <2>2 DEF Pipeline
<1> QED
  BY <1>1, <1>3, <1>4 DEF Next

LEMMA DeliversEachHolds ==
  ASSUME TypeOK, Pipeline, Control PROVE DeliversEach
<1> SUFFICES ASSUME alignedValid
             PROVE  /\ InTime(0) => IsWhole(aligned)
                    /\ InTime(1) => Continues(before, Value(aligned))
  BY DEF DeliversEach
<1>1. /\ cnt \in Nat /\ ssiEnableCnt \in Nat /\ calm \in Nat
      /\ H6 \in Spot /\ H8 = Before(H6) /\ ~ packedValid
  BY Registers, Halves DEF Control
<1>2. Beat = 2 * (cnt - ssiEnableCnt) + 0
  BY <1>1 DEF Beat
<1>3. Delivered(H6) \in Number /\ Delivered(H8) = PrevNo(Delivered(H6))
  BY <1>1, Spots
<1>4. InTime(0) => Age(6)
  BY <1>1, <1>2 DEF InTime, Age, Settling, Lead
<1>5. InTime(1) => Age(6) /\ Age(8)
  BY <1>1, <1>2 DEF InTime, Age, Settling, Lead
<1>6. Age(6) => aligned = Whole(Delivered(H6)) /\ IsWhole(aligned) /\ Value(aligned) = Delivered(H6)
  BY <1>3, WholeIs DEF Pipeline
<1>7. ASSUME InTime(1) PROVE Continues(before, Value(aligned))
  <2>1. before = PrevNo(Delivered(H6)) /\ Value(aligned) = Delivered(H6)
    BY <1>3, <1>5, <1>6, <1>7 DEF Pipeline
  <2>2. before \in Number /\ NextNo(before) = Delivered(H6) /\ Delivered(H6) # None
    BY <1>3, <2>1, Numbering, Sizes
  <2> QED
    BY <2>1, <2>2, Ramps DEF Continues
<1> QED
  BY <1>4, <1>6, <1>7

(* After the deserialiser is released and the device is steady, every      *)
(* sample is delivered whole, each exactly once and in the order in which  *)
(* it was sent, whatever the width, wherever the strobe stands in the      *)
(* window and whatever the counts (adrv9001_rx.v:259-380).                 *)
THEOREM EachDelivered == Spec => []DeliversEach
<1>1. Init => TypeOK /\ Control /\ Pipeline
  <2> SUFFICES ASSUME Init PROVE TypeOK /\ Control /\ Pipeline
    OBVIOUS
  <2>1. TypeOK
    BY TypeInit
  <2>2. Control
    BY DEF Init, Control
  <2>3. Pipeline
    BY DEF Init, Pipeline, Age
  <2> QED
    BY <2>1, <2>2, <2>3
<1>2. TypeOK /\ Control /\ Pipeline /\ [Next]_vars => (TypeOK /\ Control /\ Pipeline)'
  BY TypeStep, ControlStep, PipelineStep
<1>3. TypeOK /\ Control /\ Pipeline => DeliversEach
  BY DeliversEachHolds
<1> QED
  BY <1>1, <1>2, <1>3, PTL DEF Spec

-----------------------------------------------------------------------------
(* The monitor: what its registers say of the samples it has seen.  A      *)
(* sample reaches it a clock after the aligner has it; the comparison      *)
(* comes a clock later still, and the count and the flag after that.       *)

Flag ==
  /\ rampIn = before
  /\ rampValid => ((rampIn # None /\ predicted = rampIn) <=> run > 0)
  /\ ~ rampValid => (rampDetected <=> run > 0)
  /\ rampValid /\ ~ rampDetected => rampCount = 0 /\ run <= 1
  /\ rampValid /\ rampDetected /\ run > 0 => run >= 2 /\ rampCount = AtMost(Top, run - 2)
  /\ ~ rampValid /\ run > 0 => rampCount = AtMost(Top, run - 1)
  /\ rampValid /\ run = 0 /\ rampDetected /\ rampCount >= Top - 1 => late <= 1
  /\ rampCount = Top => late <= 1
  /\ run >= Top => late = 0
  /\ rampOut => late <= Lag
  /\ run = Span => rampOut

LEMMA FlagInit == Init => Flag
  BY Sizes DEF Init, Flag, Span, Lag

(* A sample arrives: the counters of the samples move. *)
LEMMA FlagArrives ==
  ASSUME TypeOK, TypeOK', Control, Flag, Clock, alignedValid
  PROVE  Flag'
<1>1. /\ run \in 0 .. Span /\ run' \in 0 .. Span /\ late \in 0 .. Lag + 1 /\ late' \in 0 .. Lag + 1
      /\ rampCount \in 0 .. Top /\ Top \in Nat \ {0} /\ Span = Top + 2 /\ Lag = 2
      /\ ~ rampValid
  BY Sizes DEF TypeOK, Control, Span, Lag
<1>2. /\ rampIn' = Value(aligned) /\ before' = Value(aligned) /\ rampValid' = TRUE
      /\ predicted' = Ramp(rampIn) /\ rampDetected' = rampDetected
      /\ rampOut' <=> rampCount = Top
  BY <1>1 DEF Clock, Monitor, Observe
<1>3. rampCount' = IF ~ rampDetected THEN 0 ELSE rampCount
  BY <1>1 DEF Clock, Monitor
<1>4. run' = IF Continues(before, before') THEN AtMost(Span, run + 1) ELSE 0
  BY DEF Clock, Observe
<1>5. late' = IF run' >= Top THEN 0 ELSE AtMost(Lag + 1, late + 1)
  BY DEF Clock, Observe
<1>6. (rampIn' # None /\ predicted' = rampIn') <=> run' > 0
  <2>1. run' > 0 <=> Continues(before, before')
    BY <1>1, <1>4 DEF AtMost
  <2> QED
    BY <1>2, <2>1 DEF Continues, Flag
<1>7. rampDetected <=> run > 0
  BY <1>1 DEF Flag
<1>8. run > 0 => rampCount = AtMost(Top, run - 1)
  BY <1>1 DEF Flag
<1>9. run' = 0 \/ run' = AtMost(Span, run + 1)
  BY <1>4
<1>10. (run >= Top => late = 0) /\ (rampCount = Top => late <= 1)
  BY DEF Flag
<1> DEFINE OnTime == run' >= Top => late' = 0
<1>11. OnTime /\ late' <= late + 1
  BY <1>1, <1>5 DEF AtMost
<1>12. ~ rampDetected => rampCount' = 0 /\ run' <= 1
  BY <1>1, <1>3, <1>7, <1>9 DEF AtMost
<1>13. rampDetected /\ run' > 0 => run' >= 2 /\ rampCount' = AtMost(Top, run' - 2)
  <2> SUFFICES ASSUME rampDetected, run' > 0
               PROVE  run' >= 2 /\ rampCount' = AtMost(Top, run' - 2)
    OBVIOUS
  <2>1. /\ run > 0 /\ rampCount' = rampCount /\ rampCount = AtMost(Top, run - 1)
        /\ run' = AtMost(Span, run + 1)
    BY <1>1, <1>3, <1>7, <1>8, <1>9
  <2>2. CASE run = Span
    BY <1>1, <2>1, <2>2 DEF AtMost
  <2>3. CASE run < Span
    <3>1. run' = run + 1
      BY <1>1, <2>1, <2>3 DEF AtMost
    <3>2. run' - 2 = run - 1 /\ run' >= 2
      BY <1>1, <2>1, <3>1
    <3> QED
      BY <2>1, <3>2
  <2> QED
    BY <1>1, <2>2, <2>3
<1>14. rampDetected /\ rampCount' >= Top - 1 => late' <= 1
  BY <1>1, <1>3, <1>7, <1>8, <1>10, <1>11 DEF AtMost
<1>15. rampCount' = Top => late' <= 1
  BY <1>1, <1>3, <1>14
<1>16. rampOut' => late' <= Lag
  BY <1>1, <1>2, <1>10, <1>11
<1>17. run' = Span => rampOut'
  <2>1. run' = Span => run - 1 >= Top
    BY <1>1, <1>9 DEF AtMost
  <2> QED
    BY <1>1, <1>2, <1>8, <2>1 DEF AtMost
<1> QED
  BY <1>2, <1>6, <1>11, <1>12, <1>13, <1>14, <1>15, <1>16, <1>17 DEF Flag

(* None does: the comparison, the count and the flag follow. *)
LEMMA FlagFollows ==
  ASSUME TypeOK, TypeOK', Control, Flag, Clock, ~ alignedValid
  PROVE  Flag'
<1>1. /\ run \in 0 .. Span /\ late \in 0 .. Lag + 1
      /\ rampCount \in 0 .. Top /\ Top \in Nat \ {0} /\ Span = Top + 2 /\ Lag = 2
  BY Sizes DEF TypeOK, Span, Lag
<1>2. /\ rampIn' = rampIn /\ before' = before /\ run' = run /\ late' = late
      /\ ~ rampValid' /\ predicted' = predicted
  BY DEF Clock, Monitor, Observe
<1>3. rampDetected' = IF rampValid THEN rampIn # None /\ predicted = rampIn ELSE rampDetected
  BY DEF Clock, Monitor
<1>4. rampCount' = IF ~ rampDetected THEN 0
                   ELSE IF rampValid /\ rampCount < Top THEN rampCount + 1 ELSE rampCount
  BY DEF Clock, Monitor
<1>5. rampOut' <=> rampCount = Top
  BY DEF Clock, Monitor
<1>6. rampDetected' <=> run > 0
  BY <1>3 DEF Flag
<1>7. /\ rampValid /\ ~ rampDetected => rampCount = 0 /\ run <= 1
      /\ rampValid /\ rampDetected /\ run > 0 => run >= 2 /\ rampCount = AtMost(Top, run - 2)
      /\ ~ rampValid /\ run > 0 => rampCount = AtMost(Top, run - 1) /\ rampDetected
      /\ rampValid /\ run = 0 /\ rampDetected /\ rampCount >= Top - 1 => late <= 1
      /\ rampCount = Top => late <= 1
      /\ run >= Top => late = 0
  BY DEF Flag
<1>8. run > 0 => rampCount' = AtMost(Top, run - 1)
  BY <1>1, <1>4, <1>7 DEF AtMost
<1>9. rampCount' = Top => late <= 1
  BY <1>1, <1>4, <1>7 DEF AtMost
<1>10. rampOut' => late <= Lag
  BY <1>1, <1>5, <1>7
<1>11. run = Span => rampOut'
  BY <1>1, <1>5, <1>7 DEF AtMost
<1> QED
  BY <1>2, <1>6, <1>7, <1>8, <1>9, <1>10, <1>11 DEF Flag

LEMMA FlagStep == TypeOK /\ TypeOK' /\ Control /\ Flag /\ [Next]_vars => Flag'
<1> SUFFICES ASSUME TypeOK, TypeOK', Control, Flag, [Next]_vars PROVE Flag'
  OBVIOUS
<1>1. CASE Clock
  BY <1>1, FlagArrives, FlagFollows
<1>2. CASE UNCHANGED <<monitor, before, run, late>>
  BY <1>2 DEF Flag, monitor
<1>3. CASE Enable \/ Disable \/ Send \/ Stop \/ UNCHANGED vars
  BY <1>3, <1>2 DEF Enable, Disable, Send, Stop, vars, logic, history
<1> QED
  BY <1>1, <1>3 DEF Next

(* The flag that software reads when it tries a delay tells a ramp: when   *)
(* it is up, as many samples in a row as it takes came as predicted, and   *)
(* no longer ago than two samples, so that it says nothing of the delay    *)
(* tried before; and once that many have come it is up                     *)
(* (adrv9001_rx.v:382-420).                                                *)
THEOREM FlagTold == Spec => []FlagTellsRamp
<1>1. Init => TypeOK /\ Control /\ Flag
  BY TypeInit, FlagInit DEF Init, Control
<1>2. TypeOK /\ Control /\ Flag /\ [Next]_vars => (TypeOK /\ Control /\ Flag)'
  BY TypeStep, ControlStep, FlagStep
<1>3. Flag => FlagTellsRamp
  BY DEF Flag, FlagTellsRamp
<1> QED
  BY <1>1, <1>2, <1>3, PTL DEF Spec

=============================================================================
