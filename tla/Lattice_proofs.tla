--------------------------- MODULE Lattice_proofs ---------------------------
(***************************************************************************)
(* Proofs about the three lattice reductions, for every order and every    *)
(* choice of register widths that satisfies SizeAssumption, StepAssumption *)
(* and NarrowAssumption.  First come facts about registers of a given      *)
(* width (what truncation keeps, what the bit lengths tell of the shift    *)
(* that aligns two integers) and about vectors of the lattice (how norms,  *)
(* the dot product and the determinant change when a multiple of v is      *)
(* added to u).  All the rest rests on one relation between the registers  *)
(* and the exact vectors, Tracks, which each step of a loop is shown to    *)
(* keep, whatever the width it works on.                                   *)
(***************************************************************************)
EXTENDS LatticeVariants, Congruence

\* The powers up to the bound are positive integers that double.
LEMMA PowerPositive == \A i \in 0..MaxBits : 2^i \in Nat /\ 2^i >= 1
  BY PowerLaws

\* The bound is a positive integer.
LEMMA BoundType == MaxBits \in Nat /\ MaxBits >= 1
  BY PowerLaws

USE BoundType

\* One more bit doubles the power.
LEMMA PowerDoubles == \A i \in 1..MaxBits : 2^i = 2 * 2^(i - 1)
<1> SUFFICES ASSUME NEW i \in 1..MaxBits PROVE 2^i = 2 * 2^(i - 1)
  OBVIOUS
<1>1. /\ i - 1 \in 0..MaxBits /\ 1 \in 0..MaxBits /\ (i - 1) + 1 <= MaxBits
      /\ (i - 1) + 1 = i /\ 2^(i - 1) \in Nat
  BY PowerLaws
<1>2. 2^((i - 1) + 1) = 2^(i - 1) * 2^1
  BY <1>1, PowerLaws
<1> QED BY <1>1, <1>2, PowerLaws

\* Powers grow with the exponent.
LEMMA PowerMonotone ==
  ASSUME NEW i \in 0..MaxBits, NEW j \in 0..MaxBits, i <= j
  PROVE  2^i <= 2^j
<1>1. j - i \in 0..MaxBits /\ i + (j - i) = j
  BY PowerLaws
<1>2. 2^j = 2^i * 2^(j - i)
  BY <1>1, PowerLaws
<1>3. 2^i \in Nat /\ 2^i >= 1 /\ 2^(j - i) \in Nat /\ 2^(j - i) >= 1
  BY <1>1, PowerPositive
<1> DEFINE p == 2^i  q == 2^(j - i)
<1>4. p * q >= p
  <2> HIDE DEF p, q
  <2>1. p \in Nat /\ q \in Nat /\ p >= 1 /\ q >= 1
    BY <1>3 DEF p, q
  <2> QED BY <2>1
<1> QED BY <1>2, <1>3, <1>4

\* The bit length of an integer that fits w bits is what its comment says: the
\* least size that holds the magnitude.
LEMMA BitLengthBounds ==
  ASSUME NEW x \in Int, NEW w \in 1..MaxBits, Fits(x, w)
  PROVE  /\ BitLength(x) \in 0..(w - 1)
         /\ Magnitude(x) < 2^BitLength(x)
         /\ BitLength(x) = 0 \/ 2^(BitLength(x) - 1) <= Magnitude(x)
<1> DEFINE OK(k) == Magnitude(x) < 2^k /\ (k = 0 \/ 2^(k - 1) <= Magnitude(x))
           Big == {k \in 0..MaxBits : Magnitude(x) < 2^k}
<1>1. Magnitude(x) \in Nat /\ Magnitude(x) < 2^(w - 1)
  <2>1. w - 1 \in 0..MaxBits /\ 2^(w - 1) \in Nat
    BY PowerPositive
  <2> QED BY <2>1 DEF Magnitude, Fits
<1>2. Big \in SUBSET Nat /\ Big # {}
  <2>1. w - 1 \in 0..MaxBits
    OBVIOUS
  <2>2. w - 1 \in Big
    BY <1>1, <2>1
  <2> QED BY <2>2
<1>3. PICK m \in Big : \A k \in Big : m <= k
  BY <1>2, LeastNatural
<1>4. OK(m) /\ m \in 0..MaxBits
  <2>1. CASE m = 0
    BY <1>3, <2>1
  <2>2. CASE m # 0
    <3>1. m - 1 \in 0..MaxBits /\ m - 1 \notin Big
      <4>1. m \in 0..MaxBits
        BY <1>3
      <4>2. m - 1 \in 0..MaxBits /\ ~(m <= m - 1)
        BY <2>2, <4>1
      <4> QED BY <1>3, <4>2
    <3>2. ~(Magnitude(x) < 2^(m - 1)) /\ 2^(m - 1) \in Nat
      BY <3>1, PowerPositive
    <3> QED BY <1>1, <1>3, <3>2
  <2> QED BY <2>1, <2>2
<1>5. BitLength(x) \in 0..MaxBits /\ OK(BitLength(x))
  BY <1>4, Zenon DEF BitLength
<1>6. BitLength(x) <= w - 1
  <2> DEFINE b0 == BitLength(x)
  <2> SUFFICES ASSUME b0 > w - 1 PROVE FALSE
    BY <1>5
  <2>1. w - 1 \in 0..MaxBits /\ b0 - 1 \in 0..MaxBits /\ w - 1 <= b0 - 1
    BY <1>5
  <2>2. 2^(w - 1) <= 2^(b0 - 1) /\ 2^(w - 1) \in Nat /\ 2^(b0 - 1) \in Nat
    BY <2>1, PowerMonotone, PowerPositive
  <2>3. 2^(b0 - 1) <= Magnitude(x)
    BY <1>5, <2>1
  <2> QED BY <1>1, <2>2, <2>3
<1> QED BY <1>5, <1>6

\* Aligning y under x with a shift never overshoots twice: 2^s * y stays below
\* twice the absolute value of x, unless no shift is needed.
LEMMA AlignShiftBounds ==
  ASSUME NEW x \in Int, NEW y \in Int, NEW w \in 1..MaxBits,
         Fits(x, w), Fits(y, w), y >= 0
  PROVE  /\ AlignShift(x, y) \in 0..(w - 1)
         /\ AlignShift(x, y) <= w - 1 - BitLength(y) \/ AlignShift(x, y) = 0
         /\ AlignShift(x, y) > 0 /\ x >= 0 => 2^AlignShift(x, y) * y < 2 * x
         /\ AlignShift(x, y) > 0 /\ x < 0 => 2^AlignShift(x, y) * y < -2 * x
<1> DEFINE bx == BitLength(x)  by == BitLength(y)  s == AlignShift(x, y)
<1>1. bx \in 0..(w - 1) /\ Magnitude(x) < 2^bx /\ (bx = 0 \/ 2^(bx - 1) <= Magnitude(x))
  BY BitLengthBounds
<1>2. by \in 0..(w - 1) /\ y < 2^by
  BY BitLengthBounds DEF Magnitude
<1>3. s = IF bx - by < 0 THEN 0 ELSE bx - by
  BY DEF AlignShift
<1>4. s \in 0..(w - 1) /\ (s <= w - 1 - by \/ s = 0)
  BY <1>1, <1>2, <1>3
<1>5. ASSUME s > 0 PROVE 2^s * y < 2 * (IF x >= 0 THEN x ELSE -x)
  <2>1. s = bx - by /\ bx > 0 /\ bx \in 1..MaxBits /\ by \in 0..MaxBits /\ s \in 0..MaxBits
    BY <1>1, <1>2, <1>3, <1>5
  <2>2. 2^bx = 2^s * 2^by /\ 2^bx = 2 * 2^(bx - 1)
    <3>1. s + by = bx /\ s + by <= MaxBits
      BY <2>1
    <3>2. 2^(s + by) = 2^s * 2^by
      BY <2>1, <3>1, PowerLaws
    <3>3. 2^bx = 2 * 2^(bx - 1)
      BY <2>1, PowerDoubles
    <3> QED BY <3>1, <3>2, <3>3
  <2>3. 2^s \in Nat /\ 2^s >= 1 /\ 2^by \in Nat /\ 2^(bx - 1) \in Nat
    <3>1. bx - 1 \in 0..MaxBits
      BY <2>1
    <3> QED BY <2>1, <3>1, PowerPositive
  <2>4. 2^s * y < 2^s * 2^by
    <3> DEFINE p == 2^s  q == 2^by
    <3> SUFFICES p * y < p * q
      OBVIOUS
    <3>1. p \in Nat /\ p >= 1 /\ q \in Nat /\ y \in Int /\ y < q
      BY <1>2, <2>3
    <3> HIDE DEF p, q
    <3> QED BY <3>1
  <2>5. 2^(bx - 1) <= Magnitude(x)
    BY <1>1, <2>1
  <2>6. Magnitude(x) \in Int /\ Magnitude(x) <= (IF x >= 0 THEN x ELSE -x)
    BY DEF Magnitude
  <2>7. 2^s * y < 2 * 2^(bx - 1)
    BY <2>2, <2>4
  <2> DEFINE z == 2^s * y  p == 2^(bx - 1)  a == IF x >= 0 THEN x ELSE -x
  <2>8. z \in Int /\ p \in Nat /\ a \in Int /\ z < 2 * p /\ p <= Magnitude(x) /\ Magnitude(x) <= a
    BY <2>3, <2>5, <2>6, <2>7
  <2> HIDE DEF z, p, a
  <2>9. z < 2 * a
    BY <2>6, <2>8
  <2> QED BY <2>9 DEF z, a
<1>6. x < 0 => 2 * (-x) = -2 * x
  OBVIOUS
<1> QED BY <1>4, <1>5, <1>6

-----------------------------------------------------------------------------
(* Congruence. *)

\* Integers equal modulo 2^w are equal modulo a smaller power.
LEMMA CongruentNarrow ==
  ASSUME NEW x \in Int, NEW y \in Int, NEW w \in 0..MaxBits, NEW n \in 0..w,
         Congruent(x, y, 2^w)
  PROVE  Congruent(x, y, 2^n)
<1>1. PICK k \in Int : x = y + k * 2^w
  BY DEF Congruent
<1>2. n \in 0..MaxBits /\ w - n \in 0..MaxBits /\ n + (w - n) = w
  OBVIOUS
<1>3. 2^w = 2^n * 2^(w - n)
  BY <1>2, PowerLaws
<1>4. 2^n \in Int /\ 2^(w - n) \in Int
  BY <1>2, PowerPositive
<1>5. k * 2^w = (k * 2^(w - n)) * 2^n /\ k * 2^(w - n) \in Int
  BY <1>3, <1>4
<1> QED BY <1>1, <1>5 DEF Congruent

-----------------------------------------------------------------------------
(* Truncation. *)

\* A truncated integer fits, and is the integer modulo 2^w.
LEMMA TruncProperties ==
  ASSUME NEW x \in Int, NEW w \in 1..MaxBits
  PROVE  /\ Trunc(x, w) \in Int
         /\ Fits(Trunc(x, w), w)
         /\ Congruent(Trunc(x, w), x, 2^w)
<1> DEFINE m == 2^w  h == 2^(w - 1)  q == x \div m  low == x % m
<1>1. m \in Nat /\ h \in Nat /\ m = 2 * h /\ h >= 1
  <2>1. w \in 0..MaxBits /\ w - 1 \in 0..MaxBits
    OBVIOUS
  <2> QED BY <2>1, PowerPositive, PowerDoubles
<1>2. x = m * q + low /\ q \in Int /\ low \in 0..(m - 1)
  <2> HIDE DEF m
  <2> QED BY <1>1
<1>3. Trunc(x, w) = IF low < h THEN low ELSE low - m
  BY DEF Trunc
<1> HIDE DEF m, h, q, low
<1>4. Trunc(x, w) \in Int /\ -h <= Trunc(x, w) /\ Trunc(x, w) < h
  BY <1>1, <1>2, <1>3
<1>5. \E k \in Int : Trunc(x, w) = x + k * m
  <2>1. CASE low < h
    <3>1. Trunc(x, w) = x + (-q) * m /\ -q \in Int
      BY <1>1, <1>2, <1>3, <2>1
    <3> QED BY <3>1
  <2>2. CASE ~(low < h)
    <3>1. Trunc(x, w) = x + (-q - 1) * m /\ -q - 1 \in Int
      BY <1>1, <1>2, <1>3, <2>2
    <3> QED BY <3>1
  <2> QED BY <2>1, <2>2
<1> QED BY <1>4, <1>5 DEF Fits, Congruent, h, m

\* Two integers that fit w bits and agree modulo 2^w are equal.
LEMMA FitsUnique ==
  ASSUME NEW x \in Int, NEW y \in Int, NEW w \in 1..MaxBits,
         Fits(x, w), Fits(y, w), Congruent(x, y, 2^w)
  PROVE  x = y
<1> DEFINE m == 2^w  h == 2^(w - 1)
<1>1. m \in Nat /\ h \in Nat /\ m = 2 * h /\ h >= 1
  <2>1. w \in 0..MaxBits /\ w - 1 \in 0..MaxBits
    OBVIOUS
  <2> QED BY <2>1, PowerPositive, PowerDoubles
<1>2. PICK k \in Int : x = y + k * m
  BY DEF Congruent
<1>3. -h <= x /\ x < h /\ -h <= y /\ y < h
  BY DEF Fits
<1> HIDE DEF m, h
<1>4. k * m < m /\ -m < k * m
  BY <1>1, <1>2, <1>3
<1>5. k = 0
  <2>1. CASE k >= 1
    <3>1. k * m >= m
      BY <1>1, <2>1
    <3> QED BY <1>1, <1>4, <3>1
  <2>2. CASE k <= -1
    <3>1. k * m <= -m
      BY <1>1, <2>2
    <3> QED BY <1>1, <1>4, <3>1
  <2> QED BY <2>1, <2>2
<1> QED BY <1>1, <1>2, <1>5

\* An integer that fits is not changed by truncation.
LEMMA TruncFits ==
  ASSUME NEW x \in Int, NEW w \in 1..MaxBits, Fits(x, w)
  PROVE  Trunc(x, w) = x
  BY TruncProperties, FitsUnique

\* Truncation depends on the integer modulo 2^w only.
LEMMA TruncOfCongruent ==
  ASSUME NEW x \in Int, NEW y \in Int, NEW w \in 1..MaxBits, Congruent(x, y, 2^w)
  PROVE  Trunc(x, w) = Trunc(y, w)
<1>1. 2^w \in Int
  BY PowerPositive
<1>2. Congruent(Trunc(x, w), y, 2^w)
  BY <1>1, TruncProperties, CongruentTrans
<1>3. Congruent(y, Trunc(y, w), 2^w)
  BY <1>1, TruncProperties, CongruentSym
<1>4. Congruent(Trunc(x, w), Trunc(y, w), 2^w)
  BY <1>1, <1>2, <1>3, TruncProperties, CongruentTrans
<1> QED BY <1>4, TruncProperties, FitsUnique

-----------------------------------------------------------------------------
(* Shifted operands. *)

\* The shifted operand is 2^s times the operand, modulo 2^w, whatever the shift.
LEMMA ShlCongruent ==
  ASSUME NEW x \in Int, NEW s \in 0..MaxBits, NEW w \in 1..MaxBits
  PROVE  Shl(x, s, w) \in Int /\ Congruent(Shl(x, s, w), 2^s * x, 2^w)
<1>1. CASE s >= w
  <2>1. s - w \in 0..MaxBits /\ w + (s - w) = s
    BY <1>1
  <2>2. 2^s = 2^w * 2^(s - w) /\ 2^w \in Nat /\ 2^(s - w) \in Nat
    BY <2>1, PowerLaws
  <2> DEFINE m == 2^w  p == 2^(s - w)
  <2>3. 0 = 2^s * x + (-(p * x)) * 2^w /\ -(p * x) \in Int
    <3>1. m \in Nat /\ p \in Nat
      BY <2>2
    <3>2. 0 = (m * p) * x + (-(p * x)) * m /\ -(p * x) \in Int
      <4> HIDE DEF m, p
      <4> QED BY <3>1
    <3> QED BY <2>2, <3>2
  <2>4. Shl(x, s, w) = 0
    BY <1>1 DEF Shl
  <2>5. \E k \in Int : 0 = 2^s * x + k * 2^w
    BY <2>2, <2>3
  <2>6. Congruent(0, 2^s * x, 2^w)
    BY <2>5 DEF Congruent
  <2> QED BY <2>4, <2>6
<1>2. CASE s < w
  <2>1. w - s \in 1..MaxBits /\ s + (w - s) = w
    BY <1>2
  <2>2. 2^w = 2^s * 2^(w - s) /\ 2^s \in Nat /\ 2^(w - s) \in Nat /\ 2^(w - s) >= 1
    BY <2>1, PowerLaws, PowerPositive
  <2> DEFINE p == 2^s  r == 2^(w - s)  q == x \div r  low == x % r
  <2>3. x = r * q + low /\ q \in Int /\ low \in Int
    <3>1. r \in Nat /\ r >= 1
      BY <2>2
    <3> HIDE DEF r
    <3> QED BY <3>1
  <2>4. low * p = p * x + (-q) * (p * r) /\ -q \in Int /\ low * p \in Int
    <3>1. p \in Nat /\ r \in Nat
      BY <2>2
    <3> HIDE DEF p, r, q, low
    <3> QED BY <2>3, <3>1
  <2>5. Shl(x, s, w) = low * p
    BY <1>2, <2>2 DEF Shl
  <2> QED BY <2>2, <2>4, <2>5 DEF Congruent
<1> QED BY <1>1, <1>2

\* Accumulating a shifted register into another gives the exact sum modulo 2^w.
LEMMA ShiftAccProperties ==
  ASSUME NEW sign \in {-1, 1}, NEW a \in Int, NEW x \in Int,
         NEW s \in 0..MaxBits, NEW w \in 1..MaxBits
  PROVE  /\ ShiftAcc(sign, a, x, s, w) \in Int
         /\ Fits(ShiftAcc(sign, a, x, s, w), w)
         /\ Congruent(ShiftAcc(sign, a, x, s, w), a + sign * 2^s * x, 2^w)
<1> DEFINE y == Shl(x, s, w)  p == 2^s  m == 2^w
<1>1. p \in Int /\ m \in Int
  BY PowerPositive
<1>2. y \in Int /\ Congruent(y, p * x, m)
  BY ShlCongruent
<1>3. p * x \in Int /\ sign \in Int /\ sign * p * x = sign * (p * x)
  <2> HIDE DEF p
  <2> QED BY <1>1
<1>4. Congruent(a + sign * y, a + sign * (p * x), m)
  <2> HIDE DEF y, p, m
  <2> QED BY <1>1, <1>2, <1>3, CongruentRefl, CongruentLinear
<1>5. a + sign * y \in Int /\ a + sign * (p * x) \in Int
  <2> HIDE DEF y, p
  <2> QED BY <1>2, <1>3
<1>6. ShiftAcc(sign, a, x, s, w) = Trunc(a + sign * y, w)
  BY DEF ShiftAcc
<1>7. /\ Trunc(a + sign * y, w) \in Int
      /\ Fits(Trunc(a + sign * y, w), w)
      /\ Congruent(Trunc(a + sign * y, w), a + sign * y, m)
  BY <1>5, TruncProperties
<1>8. Congruent(Trunc(a + sign * y, w), a + sign * (p * x), m)
  <2> HIDE DEF y, p, m
  <2> QED BY <1>1, <1>4, <1>5, <1>7, CongruentTrans
<1> QED BY <1>3, <1>6, <1>7, <1>8

\* The exact sum is an integer.
LEMMA ExactAccType ==
  ASSUME NEW sign \in {-1, 1}, NEW a \in Int, NEW x \in Int, NEW s \in 0..MaxBits
  PROVE  ExactAcc(sign, a, x, s) \in Int
<1> DEFINE p == 2^s
<1>1. p \in Int
  BY PowerPositive
<1> HIDE DEF p
<1>2. a + sign * p * x \in Int
  BY <1>1
<1> QED BY <1>2 DEF ExactAcc, p

\* If the registers stand for a1 and x1 modulo 2^w, the result stands for the
\* exact sum, and is that sum when it fits.
LEMMA ShiftAccExact ==
  ASSUME NEW sign \in {-1, 1}, NEW a \in Int, NEW x \in Int, NEW a1 \in Int, NEW x1 \in Int,
         NEW s \in 0..MaxBits, NEW w \in 1..MaxBits,
         Congruent(a, a1, 2^w), Congruent(x, x1, 2^w)
  PROVE  /\ Congruent(ShiftAcc(sign, a, x, s, w), ExactAcc(sign, a1, x1, s), 2^w)
         /\ Fits(ExactAcc(sign, a1, x1, s), w)
               => ShiftAcc(sign, a, x, s, w) = ExactAcc(sign, a1, x1, s)
<1> DEFINE t == sign * 2^s  m == 2^w  z == ShiftAcc(sign, a, x, s, w)
           r == ExactAcc(sign, a1, x1, s)
<1>1. t \in Int /\ m \in Int /\ 2^s \in Int /\ sign \in Int
  BY PowerPositive
<1>2. Congruent(a + t * x, a1 + t * x1, m)
  <2>1. Congruent(a, a1, m) /\ Congruent(x, x1, m)
    OBVIOUS
  <2> HIDE DEF t, m
  <2> QED BY <1>1, <2>1, CongruentLinear
<1>3. a + t * x \in Int /\ a1 + t * x1 \in Int /\ r = a1 + t * x1
  <2>1. r = a1 + t * x1
    BY DEF ExactAcc
  <2> HIDE DEF t, r
  <2> QED BY <1>1, <2>1
<1>4. z \in Int /\ Fits(z, w) /\ Congruent(z, a + t * x, m)
  BY ShiftAccProperties
<1>5. Congruent(z, r, m)
  <2> HIDE DEF t, m, z, r
  <2> QED BY <1>1, <1>2, <1>3, <1>4, CongruentTrans
<1>6. Fits(r, w) => z = r
  <2>1. Congruent(z, r, 2^w)
    BY <1>5
  <2>2. r \in Int
    BY ExactAccType
  <2> HIDE DEF t, z, m, r
  <2> QED BY <1>4, <2>1, <2>2, FitsUnique
<1> QED BY <1>5, <1>6

-----------------------------------------------------------------------------
(* Vectors of two coordinates. *)

\* The order is a positive integer and its square is at most half a register.
LEMMA OrderType == N \in Int /\ N > 2 /\ N * N \in Int /\ N * N > 4
<1>1. N \in Int /\ N > 2
  BY SizeAssumption
<1> QED BY <1>1

\* The widths are positive and no power above MaxBits is formed.
LEMMA WidthTypes ==
  /\ Target \in 0..MaxBits /\ Half \in 2..MaxBits /\ Small \in 1..MaxBits /\ Large \in 1..MaxBits
  /\ Half <= Small
  BY SizeAssumption, BoundType

\* Lagrange's identity: the norms, the dot product and the determinant.
LEMMA LagrangeIdentity ==
  ASSUME NEW a \in Int, NEW b0 \in Int, NEW c0 \in Int, NEW d \in Int
  PROVE  (a*a + b0*b0) * (c0*c0 + d*d) = (a*c0 + b0*d) * (a*c0 + b0*d) + (a*d - b0*c0) * (a*d - b0*c0)
  OBVIOUS

\* A square is not negative.
LEMMA SquareNonNegative == ASSUME NEW a \in Int PROVE a * a \in Int /\ a * a >= 0
  OBVIOUS

\* The dot product of two vectors is at most the longer norm.
LEMMA DotBounded ==
  ASSUME NEW a \in Int, NEW b0 \in Int, NEW c0 \in Int, NEW d \in Int, NEW m \in Int,
         a*a + b0*b0 <= m, c0*c0 + d*d <= m
  PROVE  /\ a*c0 + b0*d <= m /\ -m <= a*c0 + b0*d
         /\ a*a + b0*b0 >= 0 /\ c0*c0 + d*d >= 0
<1>1. (a - c0) * (a - c0) >= 0 /\ (b0 - d) * (b0 - d) >= 0 /\ (a + c0) * (a + c0) >= 0
      /\ (b0 + d) * (b0 + d) >= 0
  BY SquareNonNegative
<1>2. (a - c0) * (a - c0) = a*a - 2 * (a*c0) + c0*c0 /\ (b0 - d) * (b0 - d) = b0*b0 - 2 * (b0*d) + d*d
  OBVIOUS
<1>3. (a + c0) * (a + c0) = a*a + 2 * (a*c0) + c0*c0 /\ (b0 + d) * (b0 + d) = b0*b0 + 2 * (b0*d) + d*d
  OBVIOUS
<1>4. a*a >= 0 /\ b0*b0 >= 0 /\ c0*c0 >= 0 /\ d*d >= 0
  BY SquareNonNegative
<1>5. a*a \in Int /\ b0*b0 \in Int /\ c0*c0 \in Int /\ d*d \in Int /\ a*c0 \in Int /\ b0*d \in Int
  OBVIOUS
<1> DEFINE aa == a*a  bb == b0*b0  cc == c0*c0  dd == d*d  ac == a*c0  bd == b0*d
<1>6. /\ aa - 2 * ac + cc >= 0 /\ bb - 2 * bd + dd >= 0
      /\ aa + 2 * ac + cc >= 0 /\ bb + 2 * bd + dd >= 0
  BY <1>1, <1>2, <1>3
<1> SUFFICES ac + bd <= m /\ -m <= ac + bd /\ aa + bb >= 0 /\ cc + dd >= 0
  OBVIOUS
<1>7. aa + bb <= m /\ cc + dd <= m /\ aa >= 0 /\ bb >= 0 /\ cc >= 0 /\ dd >= 0
  BY <1>4
<1>8. aa \in Int /\ bb \in Int /\ cc \in Int /\ dd \in Int /\ ac \in Int /\ bd \in Int
  BY <1>5
<1> HIDE DEF aa, bb, cc, dd, ac, bd
<1> QED BY <1>6, <1>7, <1>8

\* A longer non-negative integer has a longer square.
LEMMA SquareMonotone ==
  ASSUME NEW a \in Int, NEW b0 \in Int, 0 <= a, a <= b0
  PROVE  a * a <= b0 * b0
  OBVIOUS

\* While the shorter vector is at least 2N long (in squared norm), the basis is
\* not reduced: the dot product is more than half the shorter norm.
LEMMA NotReduced ==
  ASSUME NEW A \in Int, NEW B \in Int, NEW S \in Int, NEW n \in Int,
         n > 0, A * B = S * S + n * n, B <= A, B >= 2 * n
  PROVE  B < 2 * S \/ B < -2 * S
<1> SUFFICES ASSUME 2 * S <= B, -2 * S <= B PROVE FALSE
  OBVIOUS
<1>1. (2 * S) * (2 * S) <= B * B
  <2>1. CASE S >= 0
    BY <2>1, SquareMonotone
  <2>2. CASE S < 0
    <3>1. (-2 * S) * (-2 * S) <= B * B
      BY <2>2, SquareMonotone
    <3> QED BY <3>1
  <2> QED BY <2>1, <2>2
<1>2. B * B <= A * B
  OBVIOUS
<1>3. (2 * n) * (2 * n) <= B * B
  BY SquareMonotone
<1> DEFINE AB == A * B  BB == B * B  SS == S * S  nn == n * n
<1>4. 4 * SS <= BB /\ BB <= AB /\ 4 * nn <= BB /\ AB = SS + nn
  <2>1. (2 * S) * (2 * S) = 4 * SS /\ (2 * n) * (2 * n) = 4 * nn
    OBVIOUS
  <2> QED BY <1>1, <1>2, <1>3, <2>1
<1>5. nn > 0
  OBVIOUS
<1>6. AB \in Int /\ BB \in Int /\ SS \in Int /\ nn \in Int
  OBVIOUS
<1> HIDE DEF AB, BB, SS, nn
<1> QED BY <1>4, <1>5, <1>6

\* Adding sign * t * v to u: the new norm, dot product and determinant.
LEMMA CombineAlgebra ==
  ASSUME NEW a \in Int, NEW b0 \in Int, NEW c0 \in Int, NEW d \in Int, NEW q \in Int
  PROVE  /\ (a + q*c0) * (a + q*c0) + (b0 + q*d) * (b0 + q*d)
              = (a*a + b0*b0) + (q * q) * (c0*c0 + d*d) + (2 * q) * (a*c0 + b0*d)
         /\ (a + q*c0) * c0 + (b0 + q*d) * d = (a*c0 + b0*d) + q * (c0*c0 + d*d)
         /\ (a + q*c0) * d - (b0 + q*d) * c0 = a*d - b0*c0
  OBVIOUS

\* When t * |v|^2 stays below twice |<u,v>|, the combination shortens u.
LEMMA CombineShortens ==
  ASSUME NEW A \in Int, NEW B \in Int, NEW S \in Int, NEW t \in Int, NEW sign \in {-1, 1},
         t >= 1, t * B < -2 * (sign * S)
  PROVE  A + (t * t) * B + sign * ((2 * t) * S) < A
<1> DEFINE z == t * B  y == -2 * (sign * S)
<1>1. (t * t) * B + sign * ((2 * t) * S) = t * (z - y)
  <2>1. CASE sign = 1
    BY <2>1
  <2>2. CASE sign = -1
    BY <2>2
  <2> QED BY <2>1, <2>2
<1>2. z - y < 0 /\ z \in Int /\ y \in Int
  <2>1. CASE sign = 1
    BY <2>1
  <2>2. CASE sign = -1
    BY <2>2
  <2> QED BY <2>1, <2>2
<1>3. t * (z - y) < 0
  <2> HIDE DEF z, y
  <2> QED BY <1>2
<1>4. t * (z - y) \in Int
  <2> HIDE DEF z, y
  <2> QED BY <1>2
<1>5. (t * t) * B \in Int /\ sign * ((2 * t) * S) \in Int
  OBVIOUS
<1> DEFINE f == (t * t) * B  g == sign * ((2 * t) * S)
<1>6. f + g < 0
  BY <1>1, <1>3
<1> SUFFICES A + f + g < A
  OBVIOUS
<1>7. f \in Int /\ g \in Int
  BY <1>5
<1> HIDE DEF f, g
<1> QED BY <1>6, <1>7

\* A large register is updated exactly when the sum fits.
LEMMA LargeAccExact ==
  ASSUME NEW sign \in {-1, 1}, NEW a \in Int, NEW a1 \in Int, NEW x \in Int,
         NEW s \in 0..MaxBits, NEW w \in 1..MaxBits,
         Congruent(a, a1, 2^w), Fits(ExactAcc(sign, a1, x, s), w)
  PROVE  ShiftAcc(sign, a, x, s, w) = ExactAcc(sign, a1, x, s)
<1>1. 2^w \in Int
  BY PowerPositive
<1>2. Congruent(x, x, 2^w)
  BY <1>1, CongruentRefl
<1> QED BY <1>2, ShiftAccExact

\* The two updates of nu leave the exact norm, whatever the first one wrapped.
LEMMA CombineNormExact ==
  ASSUME NEW sign \in {-1, 1}, NEW A \in Int, NEW B \in Int, NEW S \in Int,
         NEW s \in Nat, NEW d \in 0..MaxBits, NEW e \in 0..MaxBits, d = 2 * s, e = s + 1,
         NEW w \in 1..MaxBits, Fits(ExactAcc(sign, ExactAcc(1, A, B, d), S, e), w)
  PROVE  CombineNorm(sign, A, B, S, s, w) = ExactAcc(sign, ExactAcc(1, A, B, d), S, e)
<1> DEFINE k == ExactAcc(1, A, B, d)  m == ShiftAcc(1, A, B, d, w)
<1>1. m \in Int /\ k \in Int /\ Congruent(m, k, 2^w)
  <2>1. 2^w \in Int
    BY PowerPositive
  <2>2. Congruent(A, A, 2^w) /\ Congruent(B, B, 2^w)
    BY <2>1, CongruentRefl
  <2> QED BY <2>2, ShiftAccExact, ShiftAccProperties, ExactAccType
<1>2. ShiftAcc(sign, m, S, e, w) = ExactAcc(sign, k, S, e)
  <2> HIDE DEF k, m
  <2> QED BY <1>1, LargeAccExact DEF k
<1> QED BY <1>2 DEF CombineNorm

\* So does the update of sp.
LEMMA CombineDotExact ==
  ASSUME NEW sign \in {-1, 1}, NEW B \in Int, NEW S \in Int,
         NEW s \in 0..MaxBits, NEW w \in 1..MaxBits, Fits(ExactAcc(sign, S, B, s), w)
  PROVE  CombineDot(sign, B, S, s, w) = ExactAcc(sign, S, B, s)
<1>1. 2^w \in Int
  BY PowerPositive
<1>2. Congruent(S, S, 2^w)
  BY <1>1, CongruentRefl
<1>3. ShiftAcc(sign, S, B, s, w) = ExactAcc(sign, S, B, s)
  BY <1>2, LargeAccExact
<1> QED BY <1>3 DEF CombineDot

\* The small registers follow the exact coordinates modulo 2^Small.
LEMMA SmallAcc ==
  ASSUME NEW sign \in {-1, 1}, NEW z \in Int, NEW x \in Int, NEW s \in 0..MaxBits
  PROVE  ShiftAcc(sign, ToSmall(z), ToSmall(x), s, Small) = ToSmall(ExactAcc(sign, z, x, s))
<1>1. Small \in 1..MaxBits
  BY WidthTypes
<1>2. /\ ToSmall(z) \in Int /\ Congruent(ToSmall(z), z, 2^Small)
      /\ ToSmall(x) \in Int /\ Congruent(ToSmall(x), x, 2^Small)
  BY <1>1, TruncProperties DEF ToSmall
<1> DEFINE y == ShiftAcc(sign, ToSmall(z), ToSmall(x), s, Small)  r == ExactAcc(sign, z, x, s)
<1>3. r \in Int /\ Congruent(y, r, 2^Small)
  BY <1>1, <1>2, ShiftAccExact, ExactAccType
<1>4. y \in Int /\ Fits(y, Small)
  BY <1>1, <1>2, ShiftAccProperties
<1> HIDE DEF y, r
<1>5. Trunc(y, Small) = y
  BY <1>1, <1>4, TruncFits
<1>6. Trunc(y, Small) = Trunc(r, Small)
  BY <1>1, <1>3, <1>4, TruncOfCongruent
<1>7. y = ToSmall(r)
  BY <1>5, <1>6 DEF ToSmall
<1> QED BY <1>7 DEF y, r

\* An integer is 0 modulo N exactly when it is a multiple of N.
LEMMA Multiples ==
  \A z \in Int : z % N = 0 <=> \E k \in Int : z = k * N
<1> SUFFICES ASSUME NEW z \in Int PROVE z % N = 0 <=> \E k \in Int : z = k * N
  OBVIOUS
<1>1. N \in Nat /\ N > 0
  BY OrderType, SizeAssumption
<1>2. z = N * (z \div N) + (z % N) /\ z \div N \in Int /\ z % N \in 0..(N - 1)
  BY <1>1
<1>3. ASSUME z % N = 0 PROVE \E k \in Int : z = k * N
  <2>1. z = (z \div N) * N
    BY <1>1, <1>2, <1>3
  <2> QED BY <1>2, <2>1
<1>4. ASSUME NEW k \in Int, z = k * N PROVE z % N = 0
  <2> DEFINE d == k - (z \div N)  r == z % N
  <2>1. r = d * N /\ d \in Int /\ r \in 0..(N - 1)
    <3> DEFINE e == z \div N
    <3>1. N * e + r = k * N /\ e \in Int /\ r \in Int
      BY <1>2, <1>4
    <3> HIDE DEF e, r
    <3>2. r = (k - e) * N
      BY <1>1, <3>1
    <3> QED BY <1>2, <3>2 DEF e, r
  <2>2. d = 0
    <3> HIDE DEF d, r
    <3>1. ~(d >= 1)
      <4>1. ASSUME d >= 1 PROVE d * N >= N
        BY <1>1, <2>1, <4>1
      <4> QED BY <1>1, <2>1, <4>1
    <3>2. ~(d <= -1)
      <4>1. ASSUME d <= -1 PROVE d * N <= -N
        BY <1>1, <2>1, <4>1
      <4> QED BY <1>1, <2>1, <4>1
    <3> QED BY <2>1, <3>1, <3>2
  <2> HIDE DEF d
  <2> QED BY <1>1, <2>1, <2>2
<1> QED BY <1>3, <1>4

\* A combination of multiples of N is one.
LEMMA MultiplesLinear ==
  ASSUME NEW x \in Int, NEW y \in Int, NEW q \in Int, x % N = 0, y % N = 0
  PROVE  (x + q * y) % N = 0
<1>1. PICK k \in Int : x = k * N
  BY Multiples
<1>2. PICK l \in Int : y = l * N
  BY Multiples
<1>3. x + q * y = (k + q * l) * N /\ k + q * l \in Int
  BY <1>1, <1>2, OrderType
<1>4. x + q * y \in Int
  OBVIOUS
<1> QED BY <1>3, <1>4, Multiples

\* A coordinate of a vector shorter than 2^Target survives both truncations.
LEMMA CoordinateFits ==
  ASSUME NEW x \in Int, NEW y \in Int, x * x + y * y < 2^Target
  PROVE  /\ Trunc(ToSmall(x), Half) = x
         /\ x \in (1 - 2^(Half - 1))..(2^(Half - 1) - 1)
<1> DEFINE h == 2^(Half - 1)  g == 2^(Small - 1)
<1>1. h \in Int /\ h >= 1 /\ g \in Int /\ h <= g
  <2>1. Half - 1 \in 0..MaxBits /\ Small - 1 \in 0..MaxBits /\ Half - 1 <= Small - 1
    BY WidthTypes
  <2> QED BY <2>1, PowerPositive, PowerMonotone
<1>2. 2^Target <= h * h /\ 2^Target \in Int
  <2> DEFINE e == Half - 1
  <2>1. /\ e \in 0..MaxBits /\ e + e \in 0..MaxBits /\ Target \in 0..MaxBits /\ Target <= e + e
    BY WidthTypes, SizeAssumption
  <2>2. 2^(e + e) = 2^e * 2^e
    <3> HIDE DEF e
    <3> QED BY <2>1, PowerLaws
  <2>3. 2^Target <= 2^(e + e) /\ 2^Target \in Int
    <3> HIDE DEF e
    <3> QED BY <2>1, PowerMonotone, PowerPositive
  <2> QED BY <2>2, <2>3
<1> HIDE DEF h, g
<1>3. x < h /\ -h < x
  <2>1. y * y >= 0 /\ x * x \in Int /\ y * y \in Int /\ h * h \in Int
    BY <1>1, SquareNonNegative
  <2>2. x * x < h * h
    <3> DEFINE xx == x * x  yy == y * y  hh == h * h  t == 2^Target
    <3>1. xx + yy < t /\ t <= hh /\ yy >= 0 /\ xx \in Int /\ yy \in Int /\ hh \in Int /\ t \in Int
      BY <1>2, <2>1
    <3> HIDE DEF xx, yy, hh, t
    <3>2. xx < hh
      BY <3>1
    <3> QED BY <3>2 DEF xx, hh
  <2>3. ~(x >= h)
    BY <1>1, <2>1, <2>2, SquareMonotone
  <2>4. ~(-x >= h)
    <3>1. (-x) * (-x) = x * x
      OBVIOUS
    <3> QED BY <1>1, <2>1, <2>2, <3>1, SquareMonotone
  <2> QED BY <1>1, <2>3, <2>4
<1>4. Fits(x, Small) /\ Fits(x, Half)
  <2>1. -h <= x /\ x < h /\ -g <= x /\ x < g
    BY <1>1, <1>3
  <2> QED BY <2>1 DEF Fits, h, g
<1>5. ToSmall(x) = x /\ Trunc(x, Half) = x
  BY <1>4, WidthTypes, TruncFits DEF ToSmall
<1>6. x \in (1 - h)..(h - 1)
  BY <1>1, <1>3
<1> QED BY <1>5, <1>6 DEF h

\* A short vector of the lattice, part of a basis, has a non-zero second
\* coordinate: otherwise it would be a multiple of [N, 0].
LEMMA SecondNonZero ==
  ASSUME NEW a \in Int, NEW d \in Int, NEW x \in Int, NEW y \in Int, NEW z \in Int,
         (x - y * z) % N = 0, a * y - d * x \in {N, -N}, x * x + y * y < 2^Target
  PROVE  y # 0
<1> SUFFICES ASSUME y = 0 PROVE FALSE
  OBVIOUS
<1>1. x % N = 0 /\ x * x < 2^Target /\ d * x \in {N, -N}
  <2>1. x - y * z = x /\ x * x + y * y = x * x /\ a * y - d * x = -(d * x) /\ d * x \in Int
    OBVIOUS
  <2> QED BY <2>1, OrderType
<1>2. PICK k \in Int : x = k * N
  BY <1>1, Multiples
<1>3. k # 0
  BY <1>1, <1>2, OrderType
<1>4. x * x >= N * N
  <2>1. CASE k >= 1
    <3>1. N <= x /\ 0 <= N
      BY <1>2, <2>1, OrderType
    <3> QED BY <3>1, OrderType, SquareMonotone
  <2>2. CASE k <= -1
    <3>1. N <= -x /\ 0 <= N
      BY <1>2, <2>2, OrderType
    <3>2. N * N <= (-x) * (-x)
      BY <3>1, OrderType, SquareMonotone
    <3> QED BY <3>2
  <2> QED BY <1>3, <2>1, <2>2
<1>5. 2^Target <= N * N /\ 2^Target \in Int /\ x * x \in Int
  BY SizeAssumption, PowerPositive, WidthTypes
<1> QED BY <1>1, <1>4, <1>5, OrderType

-----------------------------------------------------------------------------
(* One step of a reduction, on registers of any width.  e and f are the    *)
(* exact vectors, p and r the small registers that stand for them, m, n    *)
(* and k the registers of the Gram matrix, w their width.                  *)

\* The exact vectors are a basis of the lattice of z, no longer than the first ones.
IsBasis(z, e, f) ==
    /\ z \in Scalars /\ e \in Int \X Int /\ f \in Int \X Int
    /\ (e[1] - e[2] * z) % N = 0 /\ (f[1] - f[2] * z) % N = 0
    /\ Det(e, f) \in {N, -N}
    /\ Dot(e, e) <= N * N /\ Dot(f, f) <= N * N

\* The Gram matrix, the small registers, and the room for both norms and a sign.
Gram(e, f, m, n, k) == m = Dot(e, e) /\ n = Dot(f, f) /\ k = Dot(e, f)
InSmall(p, e) == p = <<ToSmall(e[1]), ToSmall(e[2])>>
Room(w, e, f) == w \in 1..MaxBits /\ Dot(e, e) < 2^(w - 1) /\ Dot(f, f) < 2^(w - 1)

\* All registers stand for the exact vectors.
Tracks(z, w, e, f, p, r, m, n, k) ==
    IsBasis(z, e, f) /\ Room(w, e, f) /\ Gram(e, f, m, n, k) /\ InSmall(p, e) /\ InSmall(r, f)

\* Norms are natural numbers, and the dot product has a size.
LEMMA DotTypes ==
  ASSUME NEW e \in Int \X Int, NEW f \in Int \X Int
  PROVE  /\ Dot(e, e) \in Int /\ Dot(f, f) \in Int /\ Dot(e, f) \in Int /\ Det(e, f) \in Int
         /\ Dot(e, e) >= 0 /\ Dot(f, f) >= 0
         /\ \A l \in Int : Dot(e, e) <= l /\ Dot(f, f) <= l => -l <= Dot(e, f) /\ Dot(e, f) <= l
<1> DEFINE a == e[1]  d == e[2]  x == f[1]  y == f[2]
<1>1. a \in Int /\ d \in Int /\ x \in Int /\ y \in Int
  OBVIOUS
<1>2. /\ Dot(e, e) = a * a + d * d /\ Dot(f, f) = x * x + y * y
      /\ Dot(e, f) = a * x + d * y /\ Det(e, f) = a * y - d * x
  BY DEF Dot, Det
<1> HIDE DEF a, d, x, y
<1>3. a * a + d * d \in Int /\ x * x + y * y \in Int /\ a * x + d * y \in Int /\ a * y - d * x \in Int
  BY <1>1
<1>4. a * a >= 0 /\ d * d >= 0 /\ x * x >= 0 /\ y * y >= 0
  BY <1>1, SquareNonNegative
<1>5. a * a + d * d >= 0 /\ x * x + y * y >= 0
  <2> DEFINE aa == a * a  dd == d * d  xx == x * x  yy == y * y
  <2>1. aa \in Int /\ dd \in Int /\ xx \in Int /\ yy \in Int
    BY <1>1
  <2>2. aa >= 0 /\ dd >= 0 /\ xx >= 0 /\ yy >= 0
    BY <1>4
  <2> HIDE DEF aa, dd, xx, yy
  <2>3. aa + dd >= 0 /\ xx + yy >= 0
    BY <2>1, <2>2
  <2> QED BY <2>3 DEF aa, dd, xx, yy
<1>6. \A l \in Int : a * a + d * d <= l /\ x * x + y * y <= l
                       => -l <= a * x + d * y /\ a * x + d * y <= l
  BY <1>1, DotBounded
<1> QED BY <1>2, <1>3, <1>5, <1>6

\* Everything below a bound that leaves room for the sign fits.
LEMMA RoomFits ==
  ASSUME NEW e \in Int \X Int, NEW f \in Int \X Int, NEW w, Room(w, e, f)
  PROVE  /\ w \in 1..MaxBits
         /\ Fits(Dot(e, e), w) /\ Fits(Dot(f, f), w) /\ Fits(Dot(e, f), w)
<1> DEFINE A == Dot(e, e)  B == Dot(f, f)  S == Dot(e, f)  h == 2^(w - 1)
<1>1. w \in 1..MaxBits /\ A < h /\ B < h
  BY DEF Room
<1>2. h \in Int
  <2>1. w - 1 \in 0..MaxBits
    BY <1>1
  <2> QED BY <2>1, PowerPositive
<1>3. /\ A \in Int /\ B \in Int /\ S \in Int /\ A >= 0 /\ B >= 0
      /\ \A l \in Int : A <= l /\ B <= l => -l <= S /\ S <= l
  BY DotTypes
<1> HIDE DEF A, B, S, h
<1>4. -(h - 1) <= S /\ S <= h - 1
  <2>1. h - 1 \in Int /\ A <= h - 1 /\ B <= h - 1
    BY <1>1, <1>2, <1>3
  <2> QED BY <1>3, <2>1
<1>5. /\ -h <= A /\ A < h /\ -h <= B /\ B < h /\ -h <= S /\ S < h
  BY <1>1, <1>2, <1>3, <1>4
<1> QED BY <1>1, <1>5 DEF Fits, A, B, S, h

\* A large register has room for every basis a reduction meets.
LEMMA LargeRoom ==
  ASSUME NEW z, NEW e, NEW f, IsBasis(z, e, f)
  PROVE  Room(Large, e, f)
<1> DEFINE n2 == N * N  h == 2^(Large - 1)
<1>1. Large \in 1..MaxBits /\ Large - 1 \in 0..MaxBits
  BY WidthTypes
<1>2. 2 * n2 <= h /\ h \in Int /\ n2 \in Int /\ n2 > 4
  BY <1>1, OrderType, SizeAssumption, PowerPositive
<1>3. Dot(e, e) <= n2 /\ Dot(f, f) <= n2 /\ Dot(e, e) \in Int /\ Dot(f, f) \in Int
  BY DotTypes DEF IsBasis
<1> HIDE DEF n2, h
<1>4. Dot(e, e) < h /\ Dot(f, f) < h
  BY <1>2, <1>3
<1> QED BY <1>1, <1>4 DEF Room, h

\* The unsigned comparison of two norms is right.
LEMMA UltOfNorms ==
  ASSUME NEW e \in Int \X Int, NEW f \in Int \X Int, NEW w, Room(w, e, f)
  PROVE  Ult(Dot(e, e), Dot(f, f), w) <=> Dot(e, e) < Dot(f, f)
<1> DEFINE A == Dot(e, e)  B == Dot(f, f)  h == 2^(w - 1)  g == 2^w
<1>1. w \in 1..MaxBits /\ A < h /\ B < h
  BY DEF Room
<1>2. h \in Int /\ h >= 1 /\ g = 2 * h
  <2>1. w - 1 \in 0..MaxBits
    BY <1>1
  <2> QED BY <1>1, <2>1, PowerPositive, PowerDoubles
<1>3. A \in Int /\ B \in Int /\ A >= 0 /\ B >= 0
  BY DotTypes
<1>4. Ult(A, B, w) <=> (A % g) < (B % g)
  BY DEF Ult
<1> HIDE DEF A, B, h, g
<1>5. g \in Nat /\ g > 0 /\ A < g /\ B < g
  BY <1>1, <1>2, <1>3
<1>6. A % g = A /\ B % g = B
  BY <1>3, <1>5
<1>7. Ult(A, B, w) <=> A < B
  BY <1>4, <1>6
<1> QED BY <1>7 DEF A, B

\* The shifted v is less than twice its projection on u, on the side the sign says.
Shortens(sign, s, n, k) == 2^s * n < -2 * (sign * k)

\* No power above 2^MaxBits is formed, and u moves by a multiple of v.
ShiftInBounds(s) == s \in Nat /\ 2 * s \in 0..MaxBits /\ s + 1 \in 0..MaxBits
Moves(e, f, g) == \E q \in Int : g = <<e[1] + q * f[1], e[2] + q * f[2]>>

\* Every update of an iteration, given the shift and its bounds: the registers
\* still stand for the exact vectors, and u is strictly shorter.
LEMMA UpdateExact ==
  ASSUME NEW z, NEW w \in 1..MaxBits, NEW e \in Int \X Int, NEW f \in Int \X Int, NEW p, NEW r,
         NEW m, NEW n, NEW k, Tracks(z, w, e, f, p, r, m, n, k),
         NEW sign \in {-1, 1}, NEW s, ShiftInBounds(s),
         Shortens(sign, s, n, k)
  PROVE  /\ CombineExact(sign, e, f, s) \in Int \X Int
         /\ Gram(CombineExact(sign, e, f, s), f,
                 CombineNorm(sign, m, n, k, s, w), n, CombineDot(sign, n, k, s, w))
         /\ InSmall(CombineSmall(sign, p, r, s), CombineExact(sign, e, f, s))
         /\ Dot(CombineExact(sign, e, f, s), CombineExact(sign, e, f, s)) < Dot(e, e)
         /\ Det(CombineExact(sign, e, f, s), f) = Det(e, f)
         /\ Moves(e, f, CombineExact(sign, e, f, s))
<1> DEFINE a == e[1]  d == e[2]  x == f[1]  y == f[2]  t == 2^s  q == sign * t
           A == a * a + d * d  B == x * x + y * y  S == a * x + d * y
           a1 == a + q * x  d1 == d + q * y  g == CombineExact(sign, e, f, s)
<1>0. s \in Nat /\ 2 * s \in 0..MaxBits /\ s + 1 \in 0..MaxBits
  BY DEF ShiftInBounds
<1>1. a \in Int /\ d \in Int /\ x \in Int /\ y \in Int
  OBVIOUS
<1>2. s \in 0..MaxBits /\ t \in Int /\ t >= 1 /\ sign \in Int /\ q \in Int /\ w \in 1..MaxBits
  <2>1. s \in 0..MaxBits /\ w \in 1..MaxBits
    BY <1>0
  <2> QED BY <2>1, PowerPositive
<1>3. g = <<a1, d1>> /\ a1 \in Int /\ d1 \in Int
  <2>1. g = <<a1, d1>>
    BY DEF CombineExact, ExactAcc
  <2>2. a1 \in Int /\ d1 \in Int
    <3> HIDE DEF a, d, x, y, q
    <3> QED BY <1>1, <1>2
  <2> QED BY <2>1, <2>2
<1>4. m = A /\ n = B /\ k = S /\ A \in Int /\ B \in Int /\ S \in Int
  <2>1. m = A /\ n = B /\ k = S
    BY DEF Tracks, Gram, Dot
  <2>2. A \in Int /\ B \in Int /\ S \in Int
    <3> HIDE DEF a, d, x, y
    <3> QED BY <1>1
  <2> QED BY <2>1, <2>2
<1>5. /\ a1 * a1 + d1 * d1 = A + (q * q) * B + (2 * q) * S
      /\ a1 * x + d1 * y = S + q * B
      /\ a1 * y - d1 * x = a * y - d * x
  <2> HIDE DEF a, d, x, y, q
  <2> QED BY <1>1, <1>2, CombineAlgebra
<1>6. (q * q) * B = (t * t) * B /\ (2 * q) * S = sign * ((2 * t) * S)
  <2>1. CASE sign = 1
    <3> HIDE DEF t, B, S
    <3> QED BY <1>2, <1>4, <2>1
  <2>2. CASE sign = -1
    <3> HIDE DEF t, B, S
    <3> QED BY <1>2, <1>4, <2>2
  <2> QED BY <2>1, <2>2
<1>7. a1 * a1 + d1 * d1 < A
  <2>1. t * B < -2 * (sign * S)
    BY <1>4 DEF Shortens
  <2>2. A + (t * t) * B + sign * ((2 * t) * S) < A
    <3> HIDE DEF t, A, B, S
    <3> QED BY <1>2, <1>4, <2>1, CombineShortens
  <2> HIDE DEF a1, d1, A, B, S, t, q
  <2> QED BY <1>5, <1>6, <2>2
<1>8. Dot(g, g) = a1 * a1 + d1 * d1 /\ Dot(g, f) = a1 * x + d1 * y
      /\ Det(g, f) = a1 * y - d1 * x /\ Dot(e, e) = A /\ Det(e, f) = a * y - d * x
      /\ Dot(f, f) = B
  BY <1>3 DEF Dot, Det
<1>9. g \in Int \X Int /\ g[1] = a1 /\ g[2] = d1
  BY <1>3
<1>10. Fits(a1 * a1 + d1 * d1, w) /\ Fits(a1 * x + d1 * y, w)
  <2>1. Dot(e, e) < 2^(w - 1) /\ Dot(f, f) < 2^(w - 1) /\ w \in 1..MaxBits
    BY DEF Tracks, Room
  <2>2. Dot(g, g) < 2^(w - 1)
    <3> DEFINE h == 2^(w - 1)  zz == a1 * a1 + d1 * d1
    <3>1. w - 1 \in 0..MaxBits
      BY <1>2
    <3>2. h \in Int /\ A < h /\ zz < A /\ zz \in Int
      <4>1. zz \in Int
        <5> HIDE DEF a1, d1
        <5> QED BY <1>3
      <4> QED BY <1>7, <1>8, <2>1, <3>1, <4>1, PowerPositive
    <3> HIDE DEF h, zz, A
    <3>3. zz < h
      BY <1>4, <3>2
    <3> QED BY <1>8, <3>3 DEF zz, h
  <2>3. Room(w, g, f)
    BY <2>1, <2>2 DEF Room
  <2> HIDE DEF g, a1, d1, x, y, A, B
  <2>4. Fits(Dot(g, g), w) /\ Fits(Dot(g, f), w)
    BY <1>9, <2>3, RoomFits
  <2> QED BY <1>8, <2>4
<1>11. 2^(2 * s) = t * t /\ 2^(s + 1) = 2 * t
  <2>1. s + s = 2 * s /\ s + s <= MaxBits /\ 1 \in 0..MaxBits /\ s + 1 <= MaxBits
    BY <1>0, BoundType
  <2>2. 2^(s + s) = 2^s * 2^s /\ 2^(s + 1) = 2^s * 2^1 /\ 2^1 = 2
    BY <1>2, <2>1, PowerLaws
  <2> QED BY <1>2, <2>1, <2>2
<1>12. CombineNorm(sign, A, B, S, s, w) = a1 * a1 + d1 * d1
  <2> DEFINE zz == a1 * a1 + d1 * d1
  <2>1. zz = A + (t * t) * B + (sign * (2 * t)) * S
    <3>1. sign * ((2 * t) * S) = (sign * (2 * t)) * S
      <4> HIDE DEF t, S
      <4> QED BY <1>2, <1>4
    <3> HIDE DEF A, B, S, t, q, a1, d1
    <3> QED BY <1>5, <1>6, <3>1
  <2>2. Fits(zz, w)
    BY <1>10
  <2> HIDE DEF zz
  <2>3. zz = ExactAcc(sign, ExactAcc(1, A, B, 2 * s), S, s + 1)
    <3>1. ExactAcc(1, A, B, 2 * s) = A + (t * t) * B
      BY <1>0, <1>11 DEF ExactAcc
    <3>2. 2^(s + 1) = 2 * t
      BY <1>11
    <3> HIDE DEF A, B, S, t
    <3> QED BY <2>1, <3>1, <3>2 DEF ExactAcc
  <2> HIDE DEF A, B, S, t, q, g, a1, d1, a, d, x, y
  <2> DEFINE i == 2 * s  j == s + 1
  <2>4. i \in 0..MaxBits /\ j \in 0..MaxBits /\ Fits(ExactAcc(sign, ExactAcc(1, A, B, i), S, j), w)
    BY <1>0, <2>2, <2>3
  <2>5. zz = ExactAcc(sign, ExactAcc(1, A, B, i), S, j) /\ i = 2 * s /\ j = s + 1
    BY <2>3
  <2> HIDE DEF i, j
  <2>6. CombineNorm(sign, A, B, S, s, w) = ExactAcc(sign, ExactAcc(1, A, B, i), S, j)
    BY <1>0, <1>4, <2>4, <2>5, CombineNormExact, SMTT(40)
  <2> QED BY <2>5, <2>6 DEF zz
<1>13. CombineDot(sign, B, S, s, w) = a1 * x + d1 * y
  <2> DEFINE zz == a1 * x + d1 * y
  <2>1. zz = ExactAcc(sign, S, B, s)
    <3> HIDE DEF a1, d1, x, y, S, B
    <3> QED BY <1>5 DEF ExactAcc
  <2>2. Fits(zz, w)
    BY <1>10
  <2> HIDE DEF zz
  <2> HIDE DEF S, B
  <2>3. CombineDot(sign, B, S, s, w) = zz
    BY <1>2, <1>4, <2>1, <2>2, CombineDotExact
  <2> QED BY <2>3 DEF zz
<1>14. CombineSmall(sign, p, r, s) = <<ToSmall(a1), ToSmall(d1)>>
  <2>1. a1 = ExactAcc(sign, a, x, s) /\ d1 = ExactAcc(sign, d, y, s)
    BY DEF ExactAcc
  <2>2. CombineSmall(sign, p, r, s)
          = <<ShiftAcc(sign, ToSmall(a), ToSmall(x), s, Small),
              ShiftAcc(sign, ToSmall(d), ToSmall(y), s, Small)>>
    BY DEF CombineSmall, Tracks, InSmall
  <2> HIDE DEF a1, d1, a, d, x, y
  <2> QED BY <1>1, <1>2, <2>1, <2>2, SmallAcc
<1>15. Moves(e, f, g)
  BY <1>2, <1>3 DEF Moves
<1>16. Gram(g, f, CombineNorm(sign, m, n, k, s, w), n, CombineDot(sign, n, k, s, w))
  <2>1. CombineNorm(sign, m, n, k, s, w) = Dot(g, g)
    <3> HIDE DEF a1, d1, A, B, S, g, x, y
    <3> QED BY <1>4, <1>8, <1>12
  <2>2. CombineDot(sign, n, k, s, w) = Dot(g, f)
    <3> HIDE DEF a1, d1, A, B, S, g, x, y
    <3> QED BY <1>4, <1>8, <1>13
  <2>3. n = Dot(f, f)
    BY DEF Tracks, Gram
  <2> QED BY <2>1, <2>2, <2>3 DEF Gram
<1>17. InSmall(CombineSmall(sign, p, r, s), g)
  <2> HIDE DEF a1, d1, g
  <2> QED BY <1>9, <1>14 DEF InSmall
<1>18. Dot(g, g) < Dot(e, e) /\ Det(g, f) = Det(e, f)
  <2> HIDE DEF a1, d1, A, g, a, d, x, y
  <2> QED BY <1>5, <1>7, <1>8
<1> HIDE DEF a1, d1, a, d, x, y, A, B, S
<1> QED BY <1>9, <1>15, <1>16, <1>17, <1>18

\* What the test of the loop finds out: v is not short, so the basis is not
\* reduced, the dot product is more than half of nv, and the shift that lines
\* nv up under sp does not go too far.
LEMMA ShiftBounds ==
  ASSUME NEW z, NEW e \in Int \X Int, NEW f \in Int \X Int, IsBasis(z, e, f),
         NEW m, NEW n, NEW k, Gram(e, f, m, n, k), n <= m, ~(BitLength(n) <= Target)
  PROVE  /\ ShiftInBounds(AlignShift(k, n))
         /\ k >= 0 => Shortens(-1, AlignShift(k, n), n, k)
         /\ k < 0 => Shortens(1, AlignShift(k, n), n, k)
<1> DEFINE l == BitLength(n)  s == AlignShift(k, n)
<1>1. m \in Int /\ n \in Int /\ k \in Int /\ n >= 0 /\ Fits(n, Large) /\ Fits(k, Large)
  <2>1. Room(Large, e, f)
    BY LargeRoom
  <2> QED BY <2>1, DotTypes, RoomFits DEF Gram
<1>2. Large \in 1..MaxBits /\ Target \in 0..MaxBits
  BY WidthTypes
<1>3. l \in 0..(Large - 1) /\ l > Target /\ 2^(l - 1) <= n
  <2>1. l \in 0..(Large - 1) /\ (l = 0 \/ 2^(l - 1) <= Magnitude(n)) /\ Magnitude(n) = n
    BY <1>1, <1>2, BitLengthBounds DEF Magnitude
  <2>2. l > Target
    BY <1>2, <2>1
  <2> HIDE DEF l
  <2> QED BY <1>2, <2>1, <2>2
<1>4. n >= 2 * N
  <2>1. l - 1 \in 0..MaxBits /\ Target <= l - 1
    <3> HIDE DEF l
    <3> QED BY <1>2, <1>3
  <2>2. 2^Target <= 2^(l - 1) /\ 2 * N <= 2^Target /\ 2^Target \in Int /\ 2^(l - 1) \in Int
    <3> HIDE DEF l
    <3> QED BY <1>2, <2>1, PowerMonotone, PowerPositive, SizeAssumption
  <2> DEFINE p == 2^(l - 1)  q == 2^Target  n2 == 2 * N
  <2>3. n2 <= q /\ q <= p /\ p <= n /\ p \in Int /\ q \in Int /\ n2 \in Int
    BY <1>3, <2>2, OrderType
  <2> HIDE DEF p, q, n2
  <2>4. n2 <= n
    BY <1>1, <2>3
  <2> QED BY <2>4 DEF n2
<1>5. n < 2 * k \/ n < -2 * k
  <2> DEFINE a == e[1]  d == e[2]  x == f[1]  y == f[2]  g == a * y - d * x
  <2>1. a \in Int /\ d \in Int /\ x \in Int /\ y \in Int
    OBVIOUS
  <2>2. m = a * a + d * d /\ n = x * x + y * y /\ k = a * x + d * y
    BY DEF Gram, Dot
  <2>3. g \in {N, -N}
    BY DEF IsBasis, Det
  <2>4. m * n = k * k + g * g
    <3> HIDE DEF a, d, x, y
    <3> QED BY <2>1, <2>2, LagrangeIdentity
  <2>5. g * g = N * N
    <3> HIDE DEF g
    <3>1. CASE g = N
      BY <3>1
    <3>2. CASE g = -N
      BY <3>2, OrderType
    <3> QED BY <2>3, <3>1, <3>2
  <2> HIDE DEF g, a, d, x, y
  <2>6. m * n = k * k + N * N /\ N > 0
    BY <2>4, <2>5, OrderType
  <2> QED BY <1>1, <1>4, <2>6, OrderType, NotReduced
<1>6. /\ s \in 0..(Large - 1)
      /\ s <= Large - 1 - l \/ s = 0
      /\ s > 0 /\ k >= 0 => 2^s * n < 2 * k
      /\ s > 0 /\ k < 0 => 2^s * n < -2 * k
  BY <1>1, <1>2, AlignShiftBounds
<1>7. s \in Nat /\ 2 * s \in 0..MaxBits /\ s + 1 \in 0..MaxBits
  <2>1. 2 * (Large - Target) <= MaxBits /\ Large <= MaxBits
    BY SizeAssumption
  <2> HIDE DEF l, s
  <2> QED BY <1>2, <1>3, <1>6, <2>1
<1>8. (k >= 0 => 2^s * n < 2 * k) /\ (k < 0 => 2^s * n < -2 * k)
  <2>1. CASE s = 0
    <3>1. 2^s * n = n
      BY <1>1, <2>1, PowerLaws
    <3> QED BY <1>1, <1>4, <1>5, <1>7, <3>1, OrderType
  <2>2. CASE s > 0
    BY <1>6, <1>7, <2>2
  <2> QED BY <1>7, <2>1, <2>2
<1> HIDE DEF s
<1>9. (k >= 0 => Shortens(-1, s, n, k)) /\ (k < 0 => Shortens(1, s, n, k))
  <2> DEFINE h == 2^s * n
  <2>1. /\ Shortens(-1, s, n, k) <=> h < -2 * ((-1) * k)
        /\ Shortens(1, s, n, k) <=> h < -2 * (1 * k)
    BY DEF Shortens
  <2>2. (k >= 0 => h < 2 * k) /\ (k < 0 => h < -2 * k)
    BY <1>8
  <2> HIDE DEF h
  <2>3. -2 * ((-1) * k) = 2 * k /\ -2 * (1 * k) = -2 * k
    BY <1>1
  <2> QED BY <2>1, <2>2, <2>3
<1> QED BY <1>7, <1>9 DEF s, ShiftInBounds

\* So the registers still stand for a basis of the lattice, and nothing wraps.
LEMMA UpdateTracks ==
  ASSUME NEW z, NEW w \in 1..MaxBits, NEW e \in Int \X Int, NEW f \in Int \X Int, NEW p, NEW r,
         NEW m, NEW n, NEW k, Tracks(z, w, e, f, p, r, m, n, k),
         NEW sign \in {-1, 1}, NEW s, ShiftInBounds(s), Shortens(sign, s, n, k)
  PROVE  /\ Tracks(z, w, CombineExact(sign, e, f, s), f, CombineSmall(sign, p, r, s), r,
                   CombineNorm(sign, m, n, k, s, w), n, CombineDot(sign, n, k, s, w))
         /\ Dot(CombineExact(sign, e, f, s), CombineExact(sign, e, f, s)) < Dot(e, e)
<1> DEFINE g == CombineExact(sign, e, f, s)
<1>1. IsBasis(z, e, f) /\ Gram(e, f, m, n, k) /\ Room(w, e, f) /\ InSmall(r, f)
  BY DEF Tracks
<1>5. /\ g \in Int \X Int
      /\ Gram(g, f, CombineNorm(sign, m, n, k, s, w), n, CombineDot(sign, n, k, s, w))
      /\ InSmall(CombineSmall(sign, p, r, s), g)
      /\ Dot(g, g) < Dot(e, e) /\ Det(g, f) = Det(e, f)
      /\ Moves(e, f, g)
  BY UpdateExact
<1> HIDE DEF g
<1>6. (g[1] - g[2] * z) % N = 0
  <2>1. PICK q \in Int : g = <<e[1] + q * f[1], e[2] + q * f[2]>>
    BY <1>5 DEF Moves
  <2> DEFINE a == e[1]  d == e[2]  x == f[1]  y == f[2]
  <2>2. a \in Int /\ d \in Int /\ x \in Int /\ y \in Int /\ z \in Int
    BY <1>1, OrderType DEF IsBasis, Scalars
  <2>3. (a - d * z) % N = 0 /\ (x - y * z) % N = 0
    BY <1>1 DEF IsBasis
  <2>4. g[1] = a + q * x /\ g[2] = d + q * y
    BY <2>1
  <2> HIDE DEF a, d, x, y
  <2>5. (a + q * x) - (d + q * y) * z = (a - d * z) + q * (x - y * z)
    BY <2>2
  <2>6. a - d * z \in Int /\ x - y * z \in Int
    BY <2>2
  <2> DEFINE c0 == a - d * z  h == x - y * z
  <2>7. c0 \in Int /\ h \in Int /\ c0 % N = 0 /\ h % N = 0
    BY <2>3, <2>6
  <2> HIDE DEF c0, h
  <2>8. (c0 + q * h) % N = 0
    BY <2>7, MultiplesLinear
  <2> QED BY <2>4, <2>5, <2>8 DEF c0, h
<1>7. Dot(g, g) <= N * N /\ Dot(g, g) < 2^(w - 1)
  <2>1. Dot(g, g) \in Int /\ Dot(e, e) \in Int
    BY <1>5, DotTypes
  <2>2. Dot(e, e) <= N * N /\ Dot(e, e) < 2^(w - 1) /\ N * N \in Int
    BY <1>1, OrderType DEF IsBasis, Room
  <2>3. 2^(w - 1) \in Int
    <3>1. w - 1 \in 0..MaxBits
      OBVIOUS
    <3> QED BY <3>1, PowerPositive
  <2> DEFINE h == 2^(w - 1)  n2 == N * N  c0 == Dot(g, g)  d == Dot(e, e)
  <2>4. h \in Int /\ n2 \in Int /\ c0 \in Int /\ d \in Int /\ c0 < d /\ d <= n2 /\ d < h
    BY <1>5, <2>1, <2>2, <2>3
  <2> HIDE DEF h, n2, c0, d
  <2>5. c0 <= n2 /\ c0 < h
    BY <2>4
  <2> QED BY <2>5 DEF c0, n2, h
<1>8. IsBasis(z, g, f) /\ Room(w, g, f)
  BY <1>1, <1>5, <1>6, <1>7 DEF IsBasis, Room
<1>9. Tracks(z, w, g, f, CombineSmall(sign, p, r, s), r,
             CombineNorm(sign, m, n, k, s, w), n, CombineDot(sign, n, k, s, w))
  BY <1>1, <1>5, <1>8 DEF Tracks
<1> QED BY <1>5, <1>9 DEF g

\* An iteration of the loop, with the sign of sp and the shift it computes.
LEMMA IterationTracks ==
  ASSUME NEW z, NEW w \in 1..MaxBits, NEW e \in Int \X Int, NEW f \in Int \X Int, NEW p, NEW r,
         NEW m, NEW n, NEW k, Tracks(z, w, e, f, p, r, m, n, k), n <= m,
         ~(BitLength(n) <= Target), NEW sign \in {-1, 1}, NEW s, s = AlignShift(k, n),
         sign = IF k < 0 THEN 1 ELSE -1
  PROVE  /\ Tracks(z, w, CombineExact(sign, e, f, s), f, CombineSmall(sign, p, r, s), r,
                   CombineNorm(sign, m, n, k, s, w), n, CombineDot(sign, n, k, s, w))
         /\ Dot(CombineExact(sign, e, f, s), CombineExact(sign, e, f, s)) < Dot(e, e)
<1>1. IsBasis(z, e, f) /\ Gram(e, f, m, n, k)
  BY DEF Tracks
<1>2. k \in Int
  BY <1>1, DotTypes DEF Gram
<1>3. /\ ShiftInBounds(s)
      /\ k >= 0 => Shortens(-1, s, n, k)
      /\ k < 0 => Shortens(1, s, n, k)
  BY <1>1, ShiftBounds
<1>4. Shortens(sign, s, n, k)
  <2>1. CASE k < 0
    BY <1>3, <2>1
  <2>2. CASE ~(k < 0)
    BY <1>2, <1>3, <2>2
  <2> QED BY <2>1, <2>2
<1>5. ShiftInBounds(s)
  BY <1>3
<1> QED BY <1>4, <1>5, UpdateTracks

\* The scalar and its normal form are integers that differ by 0 or N.
LEMMA NormalizeType ==
  ASSUME NEW z \in Scalars
  PROVE  /\ z \in Int /\ Normalize(z) \in Int /\ 0 <= Normalize(z) /\ Normalize(z) < N
         /\ (Normalize(z) - z) % N = 0
<1>1. z \in Int /\ z >= 0 /\ z <= 2 * N - 1 /\ N \in Int /\ N > 2
  BY OrderType DEF Scalars
<1>2. CASE z < N
  <2>1. Normalize(z) = z /\ Normalize(z) - z = 0 * N
    BY <1>1, <1>2 DEF Normalize
  <2> QED BY <1>1, <1>2, <2>1, Multiples
<1>3. CASE ~(z < N)
  <2>1. Normalize(z) = z - N
    BY <1>3 DEF Normalize
  <2>2. (z - N) - z = (-1) * N /\ (z - N) - z \in Int /\ z - N \in Int /\ 0 <= z - N /\ z - N < N
    BY <1>1, <1>3
  <2> QED BY <1>1, <2>1, <2>2, Multiples
<1> QED BY <1>2, <1>3

\* The first registers stand for [N, 0] and [z, 1], and the dot product is not negative.
LEMMA StartTracks ==
  ASSUME NEW z \in Scalars
  PROVE  /\ Tracks(z, Large, <<N, 0>>, <<Normalize(z), 1>>,
                   <<ToSmall(N), 0>>, <<ToSmall(Normalize(z)), 1>>,
                   Trunc(N * N, Large), Trunc(Normalize(z) * Normalize(z) + 1, Large),
                   Trunc(N * Normalize(z), Large))
         /\ Trunc(N * Normalize(z), Large) >= 0
<1> DEFINE r == Normalize(z)  n2 == N * N  e == <<N, 0>>  f == <<r, 1>>
<1>1. r \in Int /\ 0 <= r /\ r < N /\ (r - z) % N = 0 /\ z \in Int
  BY NormalizeType
<1>2. N \in Int /\ N > 2 /\ n2 \in Int /\ n2 > 4
  BY OrderType
<1>3. e = <<N, 0>> /\ f = <<r, 1>> /\ e \in Int \X Int /\ f \in Int \X Int
  BY <1>1, <1>2
<1> HIDE DEF r, e, f
<1>4. Dot(e, e) = n2 /\ Dot(f, f) = r * r + 1 /\ Dot(e, f) = N * r
  <2>1. N * N + 0 * 0 = n2 /\ 1 * 1 = 1 /\ 0 * 1 = 0 /\ N * r \in Int
    BY <1>1, <1>2
  <2> QED BY <1>1, <1>2, <1>3, <2>1 DEF Dot
<1>5. r * r + 1 <= n2 /\ 0 <= r * r /\ 0 <= N * r /\ N * r <= n2 /\ r * r \in Int /\ N * r \in Int
  <2>1. r * r >= 0 /\ r * r \in Int
    BY <1>1, SquareNonNegative
  <2>2. (N - 1) * (N - 1) >= r * r /\ (N - 1) * (N - 1) = n2 - 2 * N + 1
    BY <1>1, <1>2, SquareMonotone
  <2>3. N * r >= 0 /\ N * r \in Int /\ N * r <= n2
    <3>1. N * (N - r) >= 0 /\ N * (N - r) = N * N - N * r /\ N * r >= 0 /\ N * r \in Int
      BY <1>1, <1>2
    <3> DEFINE p == N * r
    <3>2. n2 - p >= 0 /\ p \in Int
      BY <3>1
    <3> HIDE DEF n2, p
    <3>3. p <= n2
      BY <1>2, <3>2
    <3> QED BY <3>1, <3>3 DEF p
  <2> DEFINE rr == r * r
  <2>4. rr \in Int /\ n2 - 2 * N + 1 >= rr
    BY <2>1, <2>2
  <2>5. rr + 1 <= n2
    <3> HIDE DEF rr, n2
    <3> QED BY <1>2, <2>4
  <2> QED BY <2>1, <2>3, <2>5
<1>6. \A x \in Int : 0 <= x /\ x <= n2 => Trunc(x, Large) = x
  <2> DEFINE h == 2^(Large - 1)
  <2>1. 2 * n2 <= h /\ h \in Int /\ Large \in 1..MaxBits
    <3>1. Large - 1 \in 0..MaxBits /\ Large \in 1..MaxBits
      BY WidthTypes
    <3> QED BY <3>1, SizeAssumption, PowerPositive
  <2> HIDE DEF h, n2
  <2>2. \A x \in Int : 0 <= x /\ x <= n2 => -h <= x /\ x < h
    BY <1>2, <2>1
  <2>3. \A x \in Int : 0 <= x /\ x <= n2 => Fits(x, Large)
    BY <2>2 DEF Fits, h
  <2> QED BY <2>1, <2>3, TruncFits
<1>7. Trunc(n2, Large) = n2 /\ Trunc(r * r + 1, Large) = r * r + 1 /\ Trunc(N * r, Large) = N * r
  <2> DEFINE p == r * r  q == N * r
  <2>1. p \in Int /\ q \in Int /\ 0 <= p /\ p + 1 <= n2 /\ 0 <= q /\ q <= n2
    BY <1>5
  <2> HIDE DEF n2, p, q
  <2>2. p + 1 \in Int /\ 0 <= p + 1
    BY <2>1
  <2>3. Trunc(n2, Large) = n2 /\ Trunc(p + 1, Large) = p + 1 /\ Trunc(q, Large) = q
    BY <1>2, <1>6, <2>1, <2>2
  <2> QED BY <2>3 DEF p, q
<1>8. Gram(e, f, Trunc(N * N, Large), Trunc(r * r + 1, Large), Trunc(N * r, Large))
  BY <1>4, <1>7 DEF Gram
<1>9. InSmall(<<ToSmall(N), 0>>, e) /\ InSmall(<<ToSmall(r), 1>>, f)
  <2>1. Small \in 1..MaxBits /\ Small # 1
    BY WidthTypes
  <2>2. 2 <= 2^(Small - 1) /\ 2^(Small - 1) \in Int
    <3> DEFINE k == Small - 1
    <3>1. k \in 1..MaxBits /\ k - 1 \in 0..MaxBits
      BY <2>1
    <3> HIDE DEF k
    <3>2. 2^k = 2 * 2^(k - 1) /\ 2^(k - 1) \in Nat /\ 2^(k - 1) >= 1
      BY <3>1, PowerDoubles, PowerPositive
    <3> QED BY <3>2 DEF k
  <2>3. Fits(0, Small) /\ Fits(1, Small)
    BY <2>2 DEF Fits
  <2>4. ToSmall(0) = 0 /\ ToSmall(1) = 1
    BY <2>1, <2>3, TruncFits DEF ToSmall
  <2> QED BY <1>3, <2>4 DEF InSmall
<1>10. IsBasis(z, e, f)
  <2>1. e[1] - e[2] * z = 1 * N /\ f[1] - f[2] * z = r - z
    BY <1>1, <1>2, <1>3
  <2>2. (1 * N) % N = 0
    <3>1. 1 * N \in Int
      BY <1>2
    <3> QED BY <3>1, Multiples
  <2>3. Det(e, f) = N
    BY <1>1, <1>2, <1>3 DEF Det
  <2>4. Dot(e, e) <= N * N /\ Dot(f, f) <= N * N
    BY <1>2, <1>4, <1>5
  <2> QED BY <1>1, <1>3, <2>1, <2>2, <2>3, <2>4 DEF IsBasis
<1>11. Room(Large, e, f)
  BY <1>10, LargeRoom
<1>12. Trunc(N * r, Large) >= 0
  BY <1>5, <1>7
<1> QED BY <1>8, <1>9, <1>10, <1>11, <1>12 DEF Tracks, r, e, f

\* Exchanging the two vectors exchanges their registers and leaves sp alone.
LEMMA SwapTracks ==
  ASSUME NEW z, NEW w, NEW e, NEW f, NEW p, NEW r, NEW m, NEW n, NEW k,
         Tracks(z, w, e, f, p, r, m, n, k)
  PROVE  Tracks(z, w, f, e, r, p, n, m, k)
<1>1. IsBasis(z, e, f) /\ Room(w, e, f) /\ Gram(e, f, m, n, k) /\ InSmall(p, e) /\ InSmall(r, f)
  BY DEF Tracks
<1>2. Dot(e, f) = Dot(f, e) /\ Det(f, e) = -Det(e, f) /\ Det(e, f) \in Int
  <2> DEFINE a == e[1]  d == e[2]  x == f[1]  y == f[2]
  <2>1. a \in Int /\ d \in Int /\ x \in Int /\ y \in Int
    BY <1>1 DEF IsBasis
  <2> HIDE DEF a, d, x, y
  <2>2. /\ a * x + d * y = x * a + y * d /\ x * d - y * a = -(a * y - d * x)
        /\ a * y - d * x \in Int
    BY <2>1
  <2> QED BY <2>2 DEF Dot, Det, a, d, x, y
<1>3. Det(f, e) \in {N, -N}
  BY <1>1, <1>2, OrderType DEF IsBasis
<1> QED BY <1>1, <1>2, <1>3 DEF Tracks, IsBasis, Room, Gram

\* Registers that lose their top bits keep their values when the longer norm leaves
\* these bits unused: the shorter norm and the dot product are no larger.
LEMMA NarrowTracks ==
  ASSUME NEW z, NEW w, NEW e, NEW f, NEW p, NEW r, NEW m, NEW n, NEW k,
         Tracks(z, w, e, f, p, r, m, n, k), n <= m,
         NEW l \in 1..MaxBits, m \in 0..(2^(l - 1) - 1)
  PROVE  Tracks(z, l, e, f, p, r, Trunc(m, l), Trunc(n, l), Trunc(k, l))
<1>1. IsBasis(z, e, f) /\ Room(w, e, f) /\ Gram(e, f, m, n, k) /\ InSmall(p, e) /\ InSmall(r, f)
  BY DEF Tracks
<1>2. e \in Int \X Int /\ f \in Int \X Int
  BY <1>1 DEF IsBasis
<1>3. m \in Int /\ n \in Int /\ k \in Int /\ m = Dot(e, e) /\ n = Dot(f, f) /\ k = Dot(e, f)
  BY <1>1, <1>2, DotTypes DEF Gram
<1>4. 2^(l - 1) \in Int
  <2>1. l - 1 \in 0..MaxBits
    OBVIOUS
  <2> QED BY <2>1, PowerPositive
<1>5. Room(l, e, f)
  <2> DEFINE h == 2^(l - 1)
  <2>1. m < h /\ n < h
    <3> HIDE DEF h
    <3>1. h \in Int /\ m \in 0..(h - 1)
      BY <1>4 DEF h
    <3> QED BY <1>3, <3>1
  <2> QED BY <1>3, <2>1 DEF Room
<1>6. Trunc(m, l) = m /\ Trunc(n, l) = n /\ Trunc(k, l) = k
  BY <1>2, <1>3, <1>5, RoomFits, TruncFits
<1> QED BY <1>1, <1>5, <1>6 DEF Tracks

\* A vector of at most Target bits survives the copy to the output buffers.
LEMMA ReturnExact ==
  ASSUME NEW z, NEW w, NEW e, NEW f, NEW p, NEW r, NEW m, NEW n, NEW k,
         Tracks(z, w, e, f, p, r, m, n, k), BitLength(n) <= Target
  PROVE  Dot(f, f) < 2^Target /\ ToHalf(r) = f
<1>1. IsBasis(z, e, f) /\ Gram(e, f, m, n, k) /\ InSmall(r, f)
  BY DEF Tracks
<1>2. e \in Int \X Int /\ f \in Int \X Int /\ n = Dot(f, f)
  BY <1>1 DEF IsBasis, Gram
<1>3. n < 2^Target
  <2>1. n \in Int /\ Fits(n, Large) /\ Large \in 1..MaxBits /\ 0 <= n
    BY <1>1, <1>2, DotTypes, LargeRoom, RoomFits
  <2> DEFINE l == BitLength(n)
  <2>2. l \in 0..(Large - 1) /\ n < 2^l
    BY <2>1, BitLengthBounds DEF Magnitude
  <2>3. l <= Target /\ Target \in 0..MaxBits
    BY WidthTypes
  <2> HIDE DEF l
  <2>4. l \in 0..MaxBits
    BY <2>1, <2>2
  <2>5. 2^l <= 2^Target /\ 2^l \in Int /\ 2^Target \in Int
    BY <2>3, <2>4, PowerMonotone, PowerPositive
  <2> DEFINE h == 2^l  q == 2^Target
  <2>6. n < h /\ h <= q /\ h \in Int /\ q \in Int
    BY <2>2, <2>5
  <2> HIDE DEF h, q
  <2>7. n < q
    BY <2>1, <2>6
  <2> QED BY <2>7 DEF q
<1>4. ToHalf(r) = f
  <2> DEFINE x == f[1]  y == f[2]
  <2>1. x \in Int /\ y \in Int /\ f = <<x, y>>
    BY <1>2
  <2>2. x * x + y * y < 2^Target
    BY <1>2, <1>3 DEF Dot
  <2>3. r = <<ToSmall(x), ToSmall(y)>>
    BY <1>1 DEF InSmall
  <2> HIDE DEF x, y
  <2>4. x * x + y * y = y * y + x * x
    BY <2>1
  <2>5. Trunc(ToSmall(x), Half) = x /\ Trunc(ToSmall(y), Half) = y
    BY <2>1, <2>2, <2>4, CoordinateFits
  <2> QED BY <2>1, <2>3, <2>5 DEF ToHalf
<1> QED BY <1>2, <1>3, <1>4

-----------------------------------------------------------------------------
(* The reference code. *)

\* The inductive invariant of the reference code: the registers stand for a basis of
\* the lattice no longer than the first one, the test comes after the ordering,
\* and nothing is delivered before the end, and then it is the exact vector v.
IInv ==
    /\ Tracks(b, Large, eu, ev, u, v, nu, nv, sp)
    /\ pc \in {"order", "test", "done"}
    /\ pc # "order" => nv <= nu
    /\ pc # "done" => c = <<0, 0>>
    /\ pc = "done" => c = ev /\ ShortEnough /\ Dot(ev, ev) < 2^Target

\* What the registers hold, unfolded.
LEMMA TracksTypes ==
  ASSUME NEW z, NEW w, NEW e, NEW f, NEW p, NEW r, NEW m, NEW n, NEW k,
         Tracks(z, w, e, f, p, r, m, n, k)
  PROVE  /\ e \in Int \X Int /\ f \in Int \X Int /\ z \in Scalars /\ w \in 1..MaxBits
         /\ m = Dot(e, e) /\ n = Dot(f, f) /\ k = Dot(e, f)
         /\ m \in Int /\ n \in Int /\ k \in Int
         /\ Fits(m, w) /\ Fits(n, w) /\ Fits(k, w)
<1>1. IsBasis(z, e, f) /\ Gram(e, f, m, n, k) /\ Room(w, e, f)
  BY DEF Tracks
<1>2. e \in Int \X Int /\ f \in Int \X Int /\ z \in Scalars
  BY <1>1 DEF IsBasis
<1>3. m = Dot(e, e) /\ n = Dot(f, f) /\ k = Dot(e, f)
  BY <1>1 DEF Gram
<1>4. m \in Int /\ n \in Int /\ k \in Int
  BY <1>2, <1>3, DotTypes
<1>5. w \in 1..MaxBits /\ Fits(m, w) /\ Fits(n, w) /\ Fits(k, w)
  BY <1>1, <1>2, <1>3, RoomFits
<1> QED BY <1>2, <1>3, <1>4, <1>5

\* The comparison that orders the vectors sees their norms.
LEMMA TracksUlt ==
  ASSUME NEW z, NEW w, NEW e, NEW f, NEW p, NEW r, NEW m, NEW n, NEW k,
         Tracks(z, w, e, f, p, r, m, n, k)
  PROVE  Ult(m, n, w) <=> m < n
<1>1. /\ e \in Int \X Int /\ f \in Int \X Int /\ Room(w, e, f)
      /\ m = Dot(e, e) /\ n = Dot(f, f)
  BY TracksTypes DEF Tracks
<1> QED BY <1>1, UltOfNorms

\* The initial registers stand for [N, 0] and [b, 1].
LEMMA Initially == Init => IInv
<1> SUFFICES ASSUME Init PROVE IInv
  OBVIOUS
<1>1. b \in Scalars
  BY DEF Init
<1>2. Tracks(b, Large, eu, ev, u, v, nu, nv, sp)
  BY <1>1, StartTracks DEF Init
<1> QED BY <1>2 DEF Init, IInv

\* Subtract and Add are the two cases of one iteration.
LEMMA ReferenceIteration ==
  ASSUME IInv, Subtract \/ Add
  PROVE  /\ IInv' /\ Dot(eu', eu') < Dot(eu, eu)
         /\ eu' = CombineExact(IF sp < 0 THEN 1 ELSE -1, eu, ev, AlignShift(sp, nv))
<1> DEFINE sign == IF sp < 0 THEN 1 ELSE -1  s == AlignShift(sp, nv)
<1>1. /\ Tracks(b, Large, eu, ev, u, v, nu, nv, sp) /\ pc = "test" /\ nv <= nu
      /\ ~(BitLength(nv) <= Target) /\ c = <<0, 0>>
  BY DEF IInv, Subtract, Add, ShortEnough
<1>2. eu \in Int \X Int /\ ev \in Int \X Int /\ sp \in Int /\ Large \in 1..MaxBits
  BY <1>1, TracksTypes
<1>3. Combine(sign, s) /\ pc' = "order" /\ UNCHANGED <<b, v, nv, c, ev>>
  <2>1. CASE Subtract
    BY <1>2, <2>1 DEF Subtract
  <2>2. CASE Add
    BY <2>2 DEF Add
  <2> QED BY <2>1, <2>2
<1>4. sign \in {-1, 1} /\ sign = IF sp < 0 THEN 1 ELSE -1
  OBVIOUS
<1> HIDE DEF sign
<1>5. /\ Tracks(b, Large, CombineExact(sign, eu, ev, s), ev, CombineSmall(sign, u, v, s), v,
                CombineNorm(sign, nu, nv, sp, s, Large), nv, CombineDot(sign, nv, sp, s, Large))
      /\ Dot(CombineExact(sign, eu, ev, s), CombineExact(sign, eu, ev, s)) < Dot(eu, eu)
  BY <1>1, <1>2, <1>4, IterationTracks
<1> HIDE DEF s
<1>6. Tracks(b, Large, eu, ev, u, v, nu, nv, sp)' /\ Dot(eu', eu') < Dot(eu, eu)
  BY <1>3, <1>5 DEF Combine
<1>7. eu' = CombineExact(sign, eu, ev, s)
  BY <1>3 DEF Combine
<1> QED BY <1>1, <1>3, <1>6, <1>7 DEF IInv, sign, s

\* One step of the loop: every action keeps the invariant.
LEMMA Consecution == IInv /\ [Next]_vars => IInv'
<1> SUFFICES ASSUME IInv, [Next]_vars PROVE IInv'
  OBVIOUS
<1>1. Tracks(b, Large, eu, ev, u, v, nu, nv, sp)
  BY DEF IInv
<1>2. nu \in Int /\ nv \in Int /\ (Ult(nu, nv, Large) <=> nu < nv)
  BY <1>1, TracksTypes, TracksUlt
<1>3. CASE Swap
  <2>1. Tracks(b, Large, ev, eu, v, u, nv, nu, sp)
    BY <1>1, SwapTracks
  <2> QED BY <1>2, <1>3, <2>1 DEF Swap, IInv
<1>4. CASE Keep
  BY <1>2, <1>4 DEF Keep, IInv, regs
<1>5. CASE Return
  <2>1. BitLength(nv) <= Target
    BY <1>5 DEF Return, ShortEnough
  <2>2. Dot(ev, ev) < 2^Target /\ ToHalf(v) = ev
    BY <1>1, <2>1, ReturnExact
  <2> QED BY <1>5, <2>2 DEF Return, IInv, regs, ShortEnough
<1>6. CASE Subtract \/ Add
  BY <1>6, ReferenceIteration
<1>7. CASE UNCHANGED vars
  BY <1>7 DEF vars, IInv, ShortEnough
<1> QED BY <1>3, <1>4, <1>5, <1>6, <1>7 DEF Next

\* The registers stay within their widths.
LEMMA TypesFollow == IInv => TypeOK
<1> SUFFICES ASSUME IInv PROVE TypeOK
  OBVIOUS
<1>1. \A z \in Int : \A w \in 1..MaxBits : Fits(z, w) => z \in Signed(w)
  <2> SUFFICES ASSUME NEW z \in Int, NEW w \in 1..MaxBits, Fits(z, w) PROVE z \in Signed(w)
    OBVIOUS
  <2>1. w - 1 \in 0..MaxBits
    OBVIOUS
  <2>2. 2^(w - 1) \in Int
    BY <2>1, PowerPositive
  <2> QED BY <2>2 DEF Fits, Signed
<1>2. Small \in 1..MaxBits /\ Large \in 1..MaxBits /\ Half \in 1..MaxBits
  BY WidthTypes
<1>3. \A z \in Int : ToSmall(z) \in Signed(Small)
  BY <1>1, <1>2, TruncProperties DEF ToSmall
<1>4. \A z \in Int : Trunc(z, Half) \in Signed(Half)
  BY <1>1, <1>2, TruncProperties
<1>5. u \in Pairs(Signed(Small)) /\ v \in Pairs(Signed(Small))
  <2>1. Tracks(b, Large, eu, ev, u, v, nu, nv, sp)
    BY DEF IInv
  <2>2. eu[1] \in Int /\ eu[2] \in Int /\ ev[1] \in Int /\ ev[2] \in Int
    BY <2>1, TracksTypes
  <2> QED BY <1>3, <2>1, <2>2 DEF Tracks, InSmall, Pairs
<1>6. b \in Scalars /\ nu \in Signed(Large) /\ nv \in Signed(Large) /\ sp \in Signed(Large)
  BY <1>1, <1>2, TracksTypes DEF IInv
<1>7. c \in Pairs(Signed(Half))
  <2>1. CASE pc # "done"
    <3>1. Fits(0, Half)
      <4>1. Half - 1 \in 0..MaxBits
        BY <1>2
      <4>2. 2^(Half - 1) \in Int /\ 2^(Half - 1) >= 1
        BY <4>1, PowerPositive
      <4> QED BY <4>2 DEF Fits
    <3> QED BY <1>1, <1>2, <2>1, <3>1 DEF IInv, Pairs
  <2>2. CASE pc = "done"
    <3> DEFINE x == ev[1]  y == ev[2]
    <3>1. x \in Int /\ y \in Int /\ c = <<x, y>>
      <4>1. c = ev /\ ev \in Int \X Int
        BY <2>2, TracksTypes DEF IInv
      <4> QED BY <4>1
    <3>2. x * x + y * y < 2^Target
      BY <2>2 DEF IInv, Dot
    <3> HIDE DEF x, y
    <3>3. y * y + x * x < 2^Target
      <4>1. x * x + y * y = y * y + x * x
        BY <3>1
      <4> QED BY <3>2, <4>1
    <3>4. Trunc(ToSmall(x), Half) = x /\ Trunc(ToSmall(y), Half) = y
      BY <3>1, <3>2, <3>3, CoordinateFits
    <3>5. ToSmall(x) \in Int /\ ToSmall(y) \in Int
      BY <1>2, <3>1, TruncProperties DEF ToSmall
    <3> QED BY <1>4, <3>1, <3>4, <3>5 DEF Pairs
  <2> QED BY <2>1, <2>2
<1> QED BY <1>5, <1>6, <1>7 DEF IInv, TypeOK

\* Everything that is proved about single states rests on this invariant.
THEOREM Invariance == Spec => []IInv
<1>1. Init => IInv
  BY Initially
<1>2. IInv /\ [Next]_vars => IInv'
  BY Consecution
<1> QED BY <1>1, <1>2, PTL DEF Spec

\* Every register holds a value of its width (the declared array sizes).
THEOREM TypeCorrect == Spec => []TypeOK
<1>1. IInv => TypeOK
  BY TypesFollow
<1> QED BY <1>1, Invariance, PTL

\* The incrementally updated large registers are the Gram matrix, for any order
\* and any widths that satisfy SizeAssumption: no large register overflows.
THEOREM GramCorrect == Spec => []GramExact
<1>1. IInv => GramExact
  BY DEF IInv, Tracks, Gram, GramExact
<1> QED BY <1>1, Invariance, PTL

\* The short registers are the exact vectors, truncated.
THEOREM TruncationCorrect == Spec => []SmallIsTruncation
<1>1. IInv => SmallIsTruncation
  BY DEF IInv, Tracks, InSmall, SmallIsTruncation
<1> QED BY <1>1, Invariance, PTL

\* u and v are always a basis of the lattice of the scalar.
THEOREM BasisCorrect == Spec => []BasisOfLattice
<1>1. IInv => BasisOfLattice
  BY DEF IInv, Tracks, IsBasis, BasisOfLattice
<1> QED BY <1>1, Invariance, PTL

\* The norms never exceed the first one and end below 2^Target.
THEOREM NormsCorrect == Spec => []NormsBounded
<1>1. IInv => NormsBounded
  BY DEF IInv, Tracks, IsBasis, Gram, NormsBounded
<1> QED BY <1>1, Invariance, PTL

\* Every iteration that does not return shortens u: since norms are natural
\* numbers, the loop cannot run forever.
THEOREM ShrinksCorrect == Spec => Shrinks
<1>1. IInv /\ [Next]_vars => [ShrinksStep]_vars
  <2> SUFFICES ASSUME IInv, Next PROVE ShrinksStep
    OBVIOUS
  <2>1. CASE Swap \/ Keep \/ Return
    BY <2>1 DEF Swap, Keep, Return, ShrinksStep
  <2>2. CASE Subtract \/ Add
    BY <2>2, ReferenceIteration DEF ShrinksStep
  <2> QED BY <2>1, <2>2 DEF Next
<1> QED BY <1>1, Invariance, PTL DEF Spec, Shrinks

\* What is delivered: half-size integers with c1 # 0 and c0 = c1 * b modulo N.
LEMMA AnswerIsHalfSize ==
  ASSUME IInv, pc = "done"
  PROVE  /\ c \in Promise!Halves \X Promise!Halves
         /\ Promise!IsHalfSize(b, c)
<1> DEFINE x == ev[1]  y == ev[2]  a == eu[1]  d == eu[2]
<1>1. x \in Int /\ y \in Int /\ a \in Int /\ d \in Int /\ b \in Int /\ c = <<x, y>>
  <2>1. eu \in Int \X Int /\ ev \in Int \X Int /\ b \in Scalars /\ c = ev
    BY TracksTypes DEF IInv
  <2> QED BY <2>1, NormalizeType
<1>2. x * x + y * y < 2^Target
  BY DEF IInv, Dot
<1>3. (x - y * b) % N = 0 /\ a * y - d * x \in {N, -N}
  BY DEF IInv, Tracks, IsBasis, Det
<1> HIDE DEF x, y, a, d
<1>4. y * y + x * x < 2^Target
  <2>1. x * x + y * y = y * y + x * x
    BY <1>1
  <2> QED BY <1>2, <2>1
<1>5. x \in Promise!Halves /\ y \in Promise!Halves
  BY <1>1, <1>2, <1>4, CoordinateFits DEF Promise!Halves
<1>6. y # 0
  BY <1>1, <1>2, <1>3, SecondNonZero
<1> QED BY <1>1, <1>3, <1>5, <1>6 DEF Promise!IsHalfSize

\* The reduction implements the contract of inner.h, for every order and every
\* choice of widths that satisfies SizeAssumption.
THEOREM Implements == Spec => KeepsPromise
<1>1. Init => Promise!Init
  BY DEF Init, Promise!Init, Promise!Scalars, Scalars
<1>2. IInv /\ IInv' /\ [Next]_vars => [Promise!Next]_(Promise!vars)
  <2> SUFFICES ASSUME IInv, IInv', [Next]_vars PROVE [Promise!Next]_(Promise!vars)
    OBVIOUS
  <2>1. CASE Return
    <3>1. pc = "test" /\ pc' = "done" /\ b' = b
      BY <2>1 DEF Return
    <3>2. /\ c' \in Promise!Halves \X Promise!Halves
          /\ Promise!IsHalfSize(b', c')
      <4>1. (IInv /\ pc = "done" => /\ c \in Promise!Halves \X Promise!Halves
                                    /\ Promise!IsHalfSize(b, c))'
        BY AnswerIsHalfSize, PTL
      <4> QED BY <3>1, <4>1 DEF Promise!Halves, Promise!IsHalfSize
    <3> QED BY <3>1, <3>2 DEF Promise!Next, Promise!Deliver
  <2>2. CASE Swap \/ Keep \/ Subtract \/ Add
    <3>1. pc # "done" /\ pc' # "done" /\ c' = c /\ b' = b
      BY <2>2 DEF Swap, Keep, Subtract, Add
    <3> QED BY <3>1 DEF Promise!vars
  <2>3. CASE UNCHANGED vars
    BY <2>3 DEF vars, Promise!vars
  <2> QED BY <2>1, <2>2, <2>3 DEF Next
<1> QED BY <1>1, <1>2, Invariance, PTL DEF Spec, KeepsPromise, Promise!Spec

-----------------------------------------------------------------------------
(* The ARM core.  Its module has the operators of LatticeBasis under the   *)
(* names Arm!Trunc and so on: they are the same functions.                 *)

LEMMA ArmWords ==
  /\ \A x, w : Arm!Trunc(x, w) = Trunc(x, w)
  /\ \A x, s, w : Arm!Shl(x, s, w) = Shl(x, s, w)
  /\ \A x, y, w : Arm!Ult(x, y, w) = Ult(x, y, w)
  /\ \A x : Arm!Magnitude(x) = Magnitude(x)
  /\ \A x : Arm!ToSmall(x) = ToSmall(x)
  /\ \A x : Arm!ToHalf(x) = ToHalf(x)
  /\ \A x : Arm!Normalize(x) = Normalize(x)
  /\ Arm!Scalars = Scalars
  /\ \A x, y : Arm!Dot(x, y) = Dot(x, y)
<1>1. \A x, w : Arm!Trunc(x, w) = Trunc(x, w)
  BY DEF Arm!Trunc, Trunc
<1>2. \A x, s, w : Arm!Shl(x, s, w) = Shl(x, s, w)
  BY DEF Arm!Shl, Shl
<1>3. \A x, y, w : Arm!Ult(x, y, w) = Ult(x, y, w)
  BY DEF Arm!Ult, Ult
<1>4. \A x : Arm!Magnitude(x) = Magnitude(x)
  BY DEF Arm!Magnitude, Magnitude
<1>5. \A x : Arm!ToSmall(x) = ToSmall(x)
  BY <1>1 DEF Arm!ToSmall, ToSmall
<1>6. \A x : Arm!ToHalf(x) = ToHalf(x)
  BY <1>1 DEF Arm!ToHalf, ToHalf
<1>7. \A x : Arm!Normalize(x) = Normalize(x)
  BY DEF Arm!Normalize, Normalize
<1>8. Arm!Scalars = Scalars
  BY DEF Arm!Scalars, Scalars
<1>9. \A x, y : Arm!Dot(x, y) = Dot(x, y)
  BY DEF Arm!Dot, Dot
<1> QED BY <1>1, <1>2, <1>3, <1>4, <1>5, <1>6, <1>7, <1>8, <1>9

LEMMA ArmShifts ==
  /\ \A x : Arm!BitLength(x) = BitLength(x)
  /\ \A x, y : Arm!AlignShift(x, y) = AlignShift(x, y)
<1>1. \A x : Arm!BitLength(x) = BitLength(x)
  BY ArmWords DEF Arm!BitLength, BitLength, Arm!Magnitude, Magnitude
<1>2. \A x, y : Arm!AlignShift(x, y) = AlignShift(x, y)
  BY <1>1 DEF Arm!AlignShift, AlignShift
<1> QED BY <1>1, <1>2

LEMMA ArmUpdates ==
  /\ \A g, a, x, s, w : Arm!ShiftAcc(g, a, x, s, w) = ShiftAcc(g, a, x, s, w)
  /\ \A g, a, x, s : Arm!ExactAcc(g, a, x, s) = ExactAcc(g, a, x, s)
  /\ \A g, x, y, s : Arm!CombineSmall(g, x, y, s) = CombineSmall(g, x, y, s)
  /\ \A g, x, y, s : Arm!CombineExact(g, x, y, s) = CombineExact(g, x, y, s)
  /\ \A g, x, y, z, s, w : Arm!CombineNorm(g, x, y, z, s, w) = CombineNorm(g, x, y, z, s, w)
  /\ \A g, y, z, s, w : Arm!CombineDot(g, y, z, s, w) = CombineDot(g, y, z, s, w)
<1>1. \A g, a, x, s, w : Arm!ShiftAcc(g, a, x, s, w) = ShiftAcc(g, a, x, s, w)
  BY ArmWords DEF Arm!ShiftAcc, ShiftAcc
<1>2. \A g, a, x, s : Arm!ExactAcc(g, a, x, s) = ExactAcc(g, a, x, s)
  BY DEF Arm!ExactAcc, ExactAcc
<1>3. \A g, x, y, s : Arm!CombineSmall(g, x, y, s) = CombineSmall(g, x, y, s)
  BY <1>1 DEF Arm!CombineSmall, CombineSmall
<1>4. \A g, x, y, s : Arm!CombineExact(g, x, y, s) = CombineExact(g, x, y, s)
  BY <1>2 DEF Arm!CombineExact, CombineExact
<1>5. \A g, x, y, z, s, w : Arm!CombineNorm(g, x, y, z, s, w) = CombineNorm(g, x, y, z, s, w)
  BY <1>1 DEF Arm!CombineNorm, CombineNorm
<1>6. \A g, y, z, s, w : Arm!CombineDot(g, y, z, s, w) = CombineDot(g, y, z, s, w)
  BY <1>1 DEF Arm!CombineDot, CombineDot
<1> QED BY <1>1, <1>2, <1>3, <1>4, <1>5, <1>6

\* The inductive invariant of the ARM core: as that of the reference code, at the
\* width the registers have; nothing is delivered but the exact vector v.
ArmInv ==
    /\ width \in Sizes
    /\ Tracks(b, width, eu1, ev1, u1, v1, nu1, nv1, sp1)
    /\ pc1 \in {"order", "size", "test", "done"}
    /\ pc1 # "order" => nv1 <= nu1
    /\ pc1 = "done" => c1 = ev1 /\ Arm!ShortEnough

\* All sizes are widths.
LEMMA SizeTypes == Sizes \subseteq 1..MaxBits /\ Large \in Sizes
  BY StepAssumption, WidthTypes

\* The ARM core starts like the reference code.
LEMMA ArmInitially == Arm!Init => ArmInv
<1> SUFFICES ASSUME Arm!Init PROVE ArmInv
  OBVIOUS
<1>1. b \in Scalars
  BY ArmWords DEF Arm!Init
<1>2. Tracks(b, Large, eu1, ev1, u1, v1, nu1, nv1, sp1)
  BY <1>1, ArmWords, StartTracks DEF Arm!Init
<1> QED BY <1>2, SizeTypes DEF Arm!Init, ArmInv

\* Subtract and Add are the two cases of one iteration.
LEMMA ArmIteration ==
  ASSUME ArmInv, Arm!Subtract \/ Arm!Add
  PROVE  /\ ArmInv' /\ Dot(eu1', eu1') < Dot(eu1, eu1)
         /\ eu1' = CombineExact(IF sp1 < 0 THEN 1 ELSE -1, eu1, ev1, AlignShift(sp1, nv1))
<1> DEFINE sign == IF sp1 < 0 THEN 1 ELSE -1  s == AlignShift(sp1, nv1)
<1>1. /\ Tracks(b, width, eu1, ev1, u1, v1, nu1, nv1, sp1) /\ pc1 = "test" /\ nv1 <= nu1
      /\ ~(BitLength(nv1) <= Target)
  BY ArmShifts DEF ArmInv, Arm!Subtract, Arm!Add, Arm!ShortEnough
<1>2. eu1 \in Int \X Int /\ ev1 \in Int \X Int /\ sp1 \in Int /\ width \in 1..MaxBits
  BY <1>1, TracksTypes
<1>3. Arm!Combine(sign, s)
  <2>1. CASE Arm!Subtract
    BY <1>2, <2>1, ArmShifts DEF Arm!Subtract
  <2>2. CASE Arm!Add
    BY <2>2, ArmShifts DEF Arm!Add
  <2> QED BY <2>1, <2>2
<1>4. sign \in {-1, 1} /\ sign = IF sp1 < 0 THEN 1 ELSE -1
  OBVIOUS
<1> HIDE DEF sign
<1>5. /\ Tracks(b, width, CombineExact(sign, eu1, ev1, s), ev1, CombineSmall(sign, u1, v1, s), v1,
                CombineNorm(sign, nu1, nv1, sp1, s, width), nv1, CombineDot(sign, nv1, sp1, s, width))
      /\ Dot(CombineExact(sign, eu1, ev1, s), CombineExact(sign, eu1, ev1, s)) < Dot(eu1, eu1)
  BY <1>1, <1>2, <1>4, IterationTracks
<1> HIDE DEF s
<1>6. Tracks(b, width, eu1, ev1, u1, v1, nu1, nv1, sp1)' /\ Dot(eu1', eu1') < Dot(eu1, eu1)
  BY <1>3, <1>5, ArmUpdates DEF Arm!Combine
<1>7. eu1' = CombineExact(sign, eu1, ev1, s)
  BY <1>3, ArmUpdates DEF Arm!Combine
<1> QED BY <1>1, <1>3, <1>6, <1>7 DEF ArmInv, Arm!Combine, sign, s

\* The registers only lose words that nu leaves unused: the width stays one of the sizes.
LEMMA ArmNarrow ==
  ASSUME ArmInv, Arm!Narrow
  PROVE  ArmInv' /\ nu1' = nu1 /\ nv1' = nv1 /\ sp1' = sp1
<1> DEFINE l == width - Step
<1>1. /\ Tracks(b, width, eu1, ev1, u1, v1, nu1, nv1, sp1) /\ nv1 <= nu1
      /\ width > Step /\ nu1 \in 0..(2^(width - Step - 1) - 1) /\ width \in Sizes
  BY DEF ArmInv, Arm!Narrow, Arm!TopWordsUnused
<1>2. l \in Sizes /\ l \in 1..MaxBits
  <2>1. width \in Int /\ Step \in Int /\ width - Step > 0
    BY <1>1, SizeTypes, StepAssumption
  <2> QED BY <1>1, <2>1, SizeTypes, StepAssumption
<1>3. nu1 \in 0..(2^(l - 1) - 1)
  BY <1>1
<1> HIDE DEF l
<1>4. Tracks(b, l, eu1, ev1, u1, v1, Trunc(nu1, l), Trunc(nv1, l), Trunc(sp1, l))
  BY <1>1, <1>2, <1>3, NarrowTracks
<1>5. /\ nu1' = Trunc(nu1, l) /\ nv1' = Trunc(nv1, l) /\ sp1' = Trunc(sp1, l) /\ width' = l
      /\ pc1' = "test" /\ UNCHANGED <<b, u1, v1, c1, eu1, ev1>>
  BY ArmWords DEF Arm!Narrow, l
<1>6. Tracks(b, width, eu1, ev1, u1, v1, nu1, nv1, sp1)'
  BY <1>4, <1>5
<1>7. nu1' = nu1 /\ nv1' = nv1 /\ sp1' = sp1
  BY <1>1, <1>4, <1>5 DEF Tracks, Gram
<1> QED BY <1>1, <1>2, <1>5, <1>6, <1>7 DEF ArmInv

\* One step of the core: every action keeps the invariant.
LEMMA ArmConsecution == ArmInv /\ (Arm!Next \/ UNCHANGED <<b, arm>>) => ArmInv'
<1> SUFFICES ASSUME ArmInv, Arm!Next \/ UNCHANGED <<b, arm>> PROVE ArmInv'
  OBVIOUS
<1>1. Tracks(b, width, eu1, ev1, u1, v1, nu1, nv1, sp1)
  BY DEF ArmInv
<1>2. nu1 \in Int /\ nv1 \in Int /\ (Arm!Ult(nu1, nv1, width) <=> nu1 < nv1)
  BY <1>1, TracksTypes, TracksUlt, ArmWords
<1>3. CASE Arm!Swap
  <2>1. Tracks(b, width, ev1, eu1, v1, u1, nv1, nu1, sp1)
    BY <1>1, SwapTracks
  <2> QED BY <1>2, <1>3, <2>1 DEF Arm!Swap, ArmInv
<1>4. CASE Arm!Keep
  BY <1>2, <1>4 DEF Arm!Keep, ArmInv, Arm!gram
<1>5. CASE Arm!Narrow
  BY <1>5, ArmNarrow
<1>6. CASE Arm!KeepWidth
  BY <1>6 DEF Arm!KeepWidth, ArmInv, Arm!gram
<1>7. CASE Arm!Return
  <2>1. BitLength(nv1) <= Target
    BY <1>7, ArmShifts DEF Arm!Return, Arm!ShortEnough
  <2>2. Arm!ToHalf(v1) = ev1
    BY <1>1, <2>1, ReturnExact, ArmWords
  <2> QED BY <1>7, <2>2 DEF Arm!Return, ArmInv, Arm!gram, Arm!ShortEnough
<1>8. CASE Arm!Subtract \/ Arm!Add
  BY <1>8, ArmIteration
<1>9. CASE UNCHANGED <<b, arm>>
  BY <1>9 DEF arm, ArmInv, Arm!ShortEnough
<1> QED BY <1>3, <1>4, <1>5, <1>6, <1>7, <1>8, <1>9 DEF Arm!Next

-----------------------------------------------------------------------------
(* The amd64 function: the same operators under the names Amd64!Trunc and  *)
(* so on.                                                                  *)

LEMMA Amd64Words ==
  /\ \A x, w : Amd64!Trunc(x, w) = Trunc(x, w)
  /\ \A x, s, w : Amd64!Shl(x, s, w) = Shl(x, s, w)
  /\ \A x, y, w : Amd64!Ult(x, y, w) = Ult(x, y, w)
  /\ \A x : Amd64!Magnitude(x) = Magnitude(x)
  /\ \A x : Amd64!ToSmall(x) = ToSmall(x)
  /\ \A x : Amd64!ToHalf(x) = ToHalf(x)
  /\ \A x : Amd64!Normalize(x) = Normalize(x)
  /\ Amd64!Scalars = Scalars
  /\ \A x, y : Amd64!Dot(x, y) = Dot(x, y)
<1>1. \A x, w : Amd64!Trunc(x, w) = Trunc(x, w)
  BY DEF Amd64!Trunc, Trunc
<1>2. \A x, s, w : Amd64!Shl(x, s, w) = Shl(x, s, w)
  BY DEF Amd64!Shl, Shl
<1>3. \A x, y, w : Amd64!Ult(x, y, w) = Ult(x, y, w)
  BY DEF Amd64!Ult, Ult
<1>4. \A x : Amd64!Magnitude(x) = Magnitude(x)
  BY DEF Amd64!Magnitude, Magnitude
<1>5. \A x : Amd64!ToSmall(x) = ToSmall(x)
  BY <1>1 DEF Amd64!ToSmall, ToSmall
<1>6. \A x : Amd64!ToHalf(x) = ToHalf(x)
  BY <1>1 DEF Amd64!ToHalf, ToHalf
<1>7. \A x : Amd64!Normalize(x) = Normalize(x)
  BY DEF Amd64!Normalize, Normalize
<1>8. Amd64!Scalars = Scalars
  BY DEF Amd64!Scalars, Scalars
<1>9. \A x, y : Amd64!Dot(x, y) = Dot(x, y)
  BY DEF Amd64!Dot, Dot
<1> QED BY <1>1, <1>2, <1>3, <1>4, <1>5, <1>6, <1>7, <1>8, <1>9

LEMMA Amd64Shifts ==
  /\ \A x : Amd64!BitLength(x) = BitLength(x)
  /\ \A x, y : Amd64!AlignShift(x, y) = AlignShift(x, y)
<1>1. \A x : Amd64!BitLength(x) = BitLength(x)
  BY Amd64Words DEF Amd64!BitLength, BitLength, Amd64!Magnitude, Magnitude
<1>2. \A x, y : Amd64!AlignShift(x, y) = AlignShift(x, y)
  BY <1>1 DEF Amd64!AlignShift, AlignShift
<1> QED BY <1>1, <1>2

LEMMA Amd64Updates ==
  /\ \A g, a, x, s, w : Amd64!ShiftAcc(g, a, x, s, w) = ShiftAcc(g, a, x, s, w)
  /\ \A g, a, x, s : Amd64!ExactAcc(g, a, x, s) = ExactAcc(g, a, x, s)
  /\ \A g, x, y, s : Amd64!CombineSmall(g, x, y, s) = CombineSmall(g, x, y, s)
  /\ \A g, x, y, s : Amd64!CombineExact(g, x, y, s) = CombineExact(g, x, y, s)
  /\ \A g, x, y, z, s, w : Amd64!CombineNorm(g, x, y, z, s, w) = CombineNorm(g, x, y, z, s, w)
  /\ \A g, y, z, s, w : Amd64!CombineDot(g, y, z, s, w) = CombineDot(g, y, z, s, w)
<1>1. \A g, a, x, s, w : Amd64!ShiftAcc(g, a, x, s, w) = ShiftAcc(g, a, x, s, w)
  BY Amd64Words DEF Amd64!ShiftAcc, ShiftAcc
<1>2. \A g, a, x, s : Amd64!ExactAcc(g, a, x, s) = ExactAcc(g, a, x, s)
  BY DEF Amd64!ExactAcc, ExactAcc
<1>3. \A g, x, y, s : Amd64!CombineSmall(g, x, y, s) = CombineSmall(g, x, y, s)
  BY <1>1 DEF Amd64!CombineSmall, CombineSmall
<1>4. \A g, x, y, s : Amd64!CombineExact(g, x, y, s) = CombineExact(g, x, y, s)
  BY <1>2 DEF Amd64!CombineExact, CombineExact
<1>5. \A g, x, y, z, s, w : Amd64!CombineNorm(g, x, y, z, s, w) = CombineNorm(g, x, y, z, s, w)
  BY <1>1 DEF Amd64!CombineNorm, CombineNorm
<1>6. \A g, y, z, s, w : Amd64!CombineDot(g, y, z, s, w) = CombineDot(g, y, z, s, w)
  BY <1>1 DEF Amd64!CombineDot, CombineDot
<1> QED BY <1>1, <1>2, <1>3, <1>4, <1>5, <1>6

\* The inductive invariant of the amd64 function: as that of the reference code, at
\* the width of the loop that runs, for as long as every step took the sign of sp;
\* in the first loop every step does, because the word that holds it is maintained.
Amd64Inv ==
    /\ loop \in {1, 2} /\ astray \in BOOLEAN /\ topNegative \in BOOLEAN
    /\ loop = 1 => astray = FALSE /\ (topNegative <=> sp2 < 0)
    /\ pc2 \in {"order", "test", "done"}
    /\ ~astray =>
         /\ Tracks(b, Amd64!Width, eu2, ev2, u2, v2, nu2, nv2, sp2)
         /\ pc2 # "order" => nv2 <= nu2
         /\ pc2 = "done" => c2 = ev2 /\ Amd64!ShortEnough

\* Both loops work on widths that powers of two are formed for.
LEMMA Amd64Widths ==
  /\ loop = 1 => Amd64!Width = Large
  /\ loop = 2 => Amd64!Width = NarrowWidth
  /\ NarrowWidth \in 1..MaxBits /\ Large \in 1..MaxBits
  BY NarrowAssumption, WidthTypes DEF Amd64!Width

\* The amd64 function starts like the reference code, with a dot product that is
\* not negative.
LEMMA Amd64Initially == Amd64!Init => Amd64Inv
<1> SUFFICES ASSUME Amd64!Init PROVE Amd64Inv
  OBVIOUS
<1>1. b \in Scalars
  BY Amd64Words DEF Amd64!Init
<1>2. Tracks(b, Large, eu2, ev2, u2, v2, nu2, nv2, sp2) /\ sp2 >= 0
  BY <1>1, Amd64Words, StartTracks DEF Amd64!Init
<1>3. ~(sp2 < 0)
  <2>1. sp2 \in Int
    BY <1>2, TracksTypes
  <2> QED BY <1>2, <2>1
<1> QED BY <1>2, <1>3, Amd64Widths DEF Amd64!Init, Amd64Inv

\* One iteration of a loop with the sign it took: on course, it is an iteration of
\* the reference code at the width of that loop.
LEMMA Amd64Combine ==
  ASSUME Amd64Inv, NEW negative \in BOOLEAN, NEW s, s = AlignShift(sp2, nv2),
         pc2 = "test", ~(BitLength(nv2) <= Target), Amd64!Combine(negative, s),
         loop = 1 => (negative <=> sp2 < 0)
  PROVE  /\ Amd64Inv'
         /\ ~astray' => /\ ~astray
                        /\ eu2' = CombineExact(IF sp2 < 0 THEN 1 ELSE -1, eu2, ev2, s)
<1> DEFINE sign == IF negative THEN 1 ELSE -1  w == Amd64!Width
<1>1. /\ u2' = CombineSmall(sign, u2, v2, s)
      /\ nu2' = CombineNorm(sign, nu2, nv2, sp2, s, w)
      /\ sp2' = CombineDot(sign, nv2, sp2, s, w)
      /\ eu2' = IF astray' THEN eu2 ELSE CombineExact(sign, eu2, ev2, s)
      /\ pc2' = "order" /\ UNCHANGED <<b, v2, nv2, c2, ev2, loop>> /\ w' = w
  BY Amd64Updates DEF Amd64!Combine, Amd64!Width
<1>2. /\ astray' = (astray \/ negative # (sp2 < 0))
      /\ topNegative' = IF loop = 1 THEN sp2' < 0 ELSE topNegative
  BY DEF Amd64!Combine
<1>3. astray' \in BOOLEAN /\ (~astray' => ~astray /\ (negative <=> sp2 < 0))
  BY <1>2, Zenon DEF Amd64Inv
<1>4. (sp2' < 0) \in BOOLEAN
  OBVIOUS
<1>5. topNegative' \in BOOLEAN /\ (loop = 1 => (topNegative' <=> sp2' < 0))
  BY <1>2, <1>4, Zenon DEF Amd64Inv
<1>6. loop = 1 => astray' = FALSE
  <2> SUFFICES ASSUME loop = 1 PROVE astray' = FALSE
    OBVIOUS
  <2>1. astray = FALSE /\ (negative <=> sp2 < 0) /\ (sp2 < 0) \in BOOLEAN
    BY DEF Amd64Inv
  <2>2. (negative # (sp2 < 0)) = FALSE
    BY <2>1, Zenon
  <2> QED BY <1>2, <2>1, <2>2, Zenon
<1>7. ASSUME ~astray'
      PROVE  /\ Tracks(b, w, eu2, ev2, u2, v2, nu2, nv2, sp2)'
             /\ eu2' = CombineExact(IF sp2 < 0 THEN 1 ELSE -1, eu2, ev2, s)
  <2>1. ~astray /\ (negative <=> sp2 < 0)
    BY <1>3, <1>7
  <2>2. Tracks(b, w, eu2, ev2, u2, v2, nu2, nv2, sp2) /\ nv2 <= nu2
    BY <2>1 DEF Amd64Inv
  <2>3. eu2 \in Int \X Int /\ ev2 \in Int \X Int /\ w \in 1..MaxBits
    BY <2>2, TracksTypes
  <2>4. sign \in {-1, 1} /\ sign = IF sp2 < 0 THEN 1 ELSE -1
    BY <2>1
  <2> HIDE DEF sign, w
  <2>5. Tracks(b, w, CombineExact(sign, eu2, ev2, s), ev2, CombineSmall(sign, u2, v2, s), v2,
               CombineNorm(sign, nu2, nv2, sp2, s, w), nv2, CombineDot(sign, nv2, sp2, s, w))
    BY <2>2, <2>3, <2>4, IterationTracks
  <2>6. eu2' = CombineExact(sign, eu2, ev2, s)
    BY <1>1, <1>7
  <2> QED BY <1>1, <2>4, <2>5, <2>6
<1> HIDE DEF sign
<1>8. Amd64Inv'
  BY <1>1, <1>3, <1>5, <1>6, <1>7 DEF Amd64Inv
<1> QED BY <1>3, <1>7, <1>8

\* Inline and Generic are the two ways to take the sign.
LEMMA Amd64Iteration ==
  ASSUME Amd64Inv, Amd64!Inline \/ Amd64!Generic
  PROVE  /\ Amd64Inv'
         /\ ~astray' => /\ ~astray
                        /\ eu2' = CombineExact(IF sp2 < 0 THEN 1 ELSE -1, eu2, ev2,
                                               AlignShift(sp2, nv2))
<1> DEFINE s == AlignShift(sp2, nv2)
<1>1. pc2 = "test" /\ ~(BitLength(nv2) <= Target) /\ s = AlignShift(sp2, nv2)
  BY Amd64Shifts DEF Amd64!Inline, Amd64!Generic, Amd64!ShortEnough
<1>2. CASE Amd64!Inline
  <2> DEFINE negative == sp2 < 0
  <2>1. negative \in BOOLEAN /\ (negative <=> sp2 < 0) /\ Amd64!Combine(negative, s)
    BY <1>2, Amd64Shifts DEF Amd64!Inline
  <2> HIDE DEF s, negative
  <2> QED BY <1>1, <2>1, Amd64Combine
<1>3. CASE Amd64!Generic
  <2>1. Amd64!Combine(topNegative, s)
    BY <1>3, Amd64Shifts DEF Amd64!Generic
  <2>2. topNegative \in BOOLEAN /\ (loop = 1 => (topNegative <=> sp2 < 0))
    BY DEF Amd64Inv
  <2> HIDE DEF s
  <2> QED BY <1>1, <2>1, <2>2, Amd64Combine
<1> QED BY <1>2, <1>3

\* Entering the second loop loses nothing: nu leaves the top words unused.
LEMMA Amd64Enters ==
  ASSUME Amd64Inv, Amd64!EnterNarrow
  PROVE  Amd64Inv' /\ ~astray /\ UNCHANGED <<astray, eu2, ev2>>
<1> DEFINE l == NarrowWidth
<1>1. /\ pc2 = "test" /\ loop = 1 /\ nu2 \in 0..(2^(l - 1) - 1)
      /\ loop' = 2 /\ nu2' = Trunc(nu2, l) /\ nv2' = Trunc(nv2, l) /\ sp2' = Trunc(sp2, l)
      /\ pc2' = "order" /\ UNCHANGED <<b, u2, v2, c2, eu2, ev2, topNegative, astray>>
  BY Amd64Words DEF Amd64!EnterNarrow, Amd64!FitsNarrow
<1>2. ~astray /\ Tracks(b, Large, eu2, ev2, u2, v2, nu2, nv2, sp2) /\ nv2 <= nu2
  BY <1>1, Amd64Widths DEF Amd64Inv
<1>3. l \in 1..MaxBits /\ Amd64!Width' = l
  BY <1>1, Amd64Widths DEF Amd64!Width
<1> HIDE DEF l
<1>4. Tracks(b, l, eu2, ev2, u2, v2, Trunc(nu2, l), Trunc(nv2, l), Trunc(sp2, l))
  BY <1>1, <1>2, <1>3, NarrowTracks
<1>5. Tracks(b, Amd64!Width, eu2, ev2, u2, v2, nu2, nv2, sp2)'
  BY <1>1, <1>3, <1>4
<1> QED BY <1>1, <1>2, <1>5 DEF Amd64Inv

\* One step of the function: every action keeps the invariant.
LEMMA Amd64Consecution == Amd64Inv /\ (Amd64!Next \/ UNCHANGED <<b, amd64>>) => Amd64Inv'
<1> SUFFICES ASSUME Amd64Inv, Amd64!Next \/ UNCHANGED <<b, amd64>> PROVE Amd64Inv'
  OBVIOUS
<1> DEFINE w == Amd64!Width
<1>1. ~astray => /\ Tracks(b, w, eu2, ev2, u2, v2, nu2, nv2, sp2)
                 /\ nu2 \in Int /\ nv2 \in Int /\ (Amd64!Ult(nu2, nv2, w) <=> nu2 < nv2)
  BY TracksTypes, TracksUlt, Amd64Words DEF Amd64Inv
<1>2. CASE Amd64!Swap
  <2>1. ~astray => Tracks(b, w, ev2, eu2, v2, u2, nv2, nu2, sp2)
    BY <1>1, SwapTracks
  <2>2. /\ Amd64!Ult(nu2, nv2, w) /\ w' = w
        /\ u2' = v2 /\ v2' = u2 /\ nu2' = nv2 /\ nv2' = nu2 /\ eu2' = ev2 /\ ev2' = eu2
        /\ pc2' = "test" /\ UNCHANGED <<b, sp2, c2, loop, topNegative, astray>>
    BY <1>2 DEF Amd64!Swap, Amd64!Width
  <2> HIDE DEF w
  <2>3. ~astray' => Tracks(b, w, eu2, ev2, u2, v2, nu2, nv2, sp2)' /\ nv2' <= nu2'
    BY <1>1, <2>1, <2>2
  <2> QED BY <2>2, <2>3 DEF Amd64Inv, w
<1>3. CASE Amd64!Keep
  <2>1. /\ ~Amd64!Ult(nu2, nv2, w) /\ w' = w /\ pc2' = "test"
        /\ UNCHANGED <<b, u2, v2, nu2, nv2, sp2, c2, eu2, ev2, loop, topNegative, astray>>
    BY <1>3 DEF Amd64!Keep, Amd64!gram, Amd64!Width
  <2> HIDE DEF w
  <2>2. ~astray' => Tracks(b, w, eu2, ev2, u2, v2, nu2, nv2, sp2)' /\ nv2' <= nu2'
    BY <1>1, <2>1
  <2> QED BY <2>1, <2>2 DEF Amd64Inv, w
<1>4. CASE Amd64!EnterNarrow
  BY <1>4, Amd64Enters
<1>5. CASE Amd64!Return
  <2>1. /\ pc2 = "test" /\ pc2' = "done" /\ Amd64!ShortEnough /\ BitLength(nv2) <= Target
        /\ c2' = Amd64!ToHalf(v2) /\ w' = w
        /\ UNCHANGED <<b, u2, v2, nu2, nv2, sp2, eu2, ev2, loop, topNegative, astray>>
    BY <1>5, Amd64Shifts DEF Amd64!Return, Amd64!gram, Amd64!Width, Amd64!ShortEnough
  <2>2. ~astray => Amd64!ToHalf(v2) = ev2
    BY <1>1, <2>1, ReturnExact, Amd64Words
  <2> HIDE DEF w
  <2>3. ~astray' => Tracks(b, w, eu2, ev2, u2, v2, nu2, nv2, sp2)' /\ c2' = ev2'
    BY <1>1, <2>1, <2>2
  <2> QED BY <2>1, <2>3 DEF Amd64Inv, w, Amd64!ShortEnough
<1>6. CASE Amd64!Inline \/ Amd64!Generic
  BY <1>6, Amd64Iteration
<1>7. CASE UNCHANGED <<b, amd64>>
  BY <1>7 DEF amd64, Amd64Inv, Amd64!ShortEnough, Amd64!Width
<1> QED BY <1>2, <1>3, <1>4, <1>5, <1>6, <1>7 DEF Amd64!Next

-----------------------------------------------------------------------------
(* The three together.  Swaps apart, each goes through a sequence of       *)
(* bases that the first one determines; it ends with the first short one.  *)

\* A basis with its longer vector first, and the next basis of the sequence.
Ordered(e, f) == IF Dot(e, e) < Dot(f, f) THEN <<f, e>> ELSE <<e, f>>
Short(p) == BitLength(Dot(p[2], p[2])) <= Target
Successor(p) ==
    LET k == Dot(p[1], p[2])
        sign == IF k < 0 THEN 1 ELSE -1
    IN Ordered(CombineExact(sign, p[1], p[2], AlignShift(k, Dot(p[2], p[2]))), p[2])

\* The sequence that starts with x goes through y, unless it ends before: y is in every
\* set that has x and, with each of its bases that is not short, the next one.
Closed(S) == \A p \in S : Short(p) \/ Successor(p) \in S
Reaches(x, y) == \A S : x \in S /\ Closed(S) => y \in S

\* A basis reaches itself; what it reaches, it reaches the successors of; and while it is
\* not short, its successor reaches all that it reaches, itself apart.
LEMMA ReachesSelf == ASSUME NEW x PROVE Reaches(x, x)
  BY DEF Reaches

LEMMA ReachesFurther ==
  ASSUME NEW x, NEW y, Reaches(x, y), ~Short(y)
  PROVE  Reaches(x, Successor(y))
<1> SUFFICES ASSUME NEW S, x \in S, Closed(S) PROVE Successor(y) \in S
  BY DEF Reaches
<1>1. y \in S
  BY DEF Reaches
<1> QED BY <1>1, Zenon DEF Closed

LEMMA ReachesLater ==
  ASSUME NEW x, NEW y, Reaches(x, y), ~Short(x), Short(y)
  PROVE  Reaches(Successor(x), y)
<1> SUFFICES ASSUME NEW S, Successor(x) \in S, Closed(S) PROVE y \in S
  BY DEF Reaches
<1> DEFINE T == S \cup {x}
<1>1. x \in T /\ Closed(T)
  BY Zenon DEF Closed
<1>2. y \in T
  BY <1>1, Zenon DEF Reaches
<1> QED BY <1>2

\* A short basis reaches nothing but itself: the sequence ends with it.
LEMMA ReachesEnd ==
  ASSUME NEW x, NEW y, Reaches(x, y), Short(x)
  PROVE  y = x
<1> DEFINE S == {x}
<1>1. x \in S /\ Closed(S)
  BY Zenon DEF Closed
<1>2. y \in S
  BY <1>1, Zenon DEF Reaches
<1> QED BY <1>2

\* What the registers tell of the place in the sequence, once they are in order.
LEMMA CourseInOrder ==
  ASSUME NEW z, NEW w, NEW e, NEW f, NEW p, NEW r, NEW m, NEW n, NEW k,
         Tracks(z, w, e, f, p, r, m, n, k), n <= m
  PROVE  /\ Ordered(e, f) = <<e, f>>
         /\ Short(Ordered(e, f)) <=> BitLength(n) <= Target
         /\ Ordered(CombineExact(IF k < 0 THEN 1 ELSE -1, e, f, AlignShift(k, n)), f)
              = Successor(Ordered(e, f))
<1>1. /\ m = Dot(e, e) /\ n = Dot(f, f) /\ k = Dot(e, f) /\ m \in Int /\ n \in Int
  BY TracksTypes
<1>2. Ordered(e, f) = <<e, f>>
  BY <1>1 DEF Ordered
<1>3. Short(<<e, f>>) <=> BitLength(n) <= Target
  BY <1>1 DEF Short
<1>4. Ordered(CombineExact(IF k < 0 THEN 1 ELSE -1, e, f, AlignShift(k, n)), f)
        = Successor(<<e, f>>)
  BY <1>1, Zenon DEF Successor
<1> QED BY <1>2, <1>3, <1>4

\* Exchanging the vectors changes nothing.
LEMMA CourseSwapped ==
  ASSUME NEW z, NEW w, NEW e, NEW f, NEW p, NEW r, NEW m, NEW n, NEW k,
         Tracks(z, w, e, f, p, r, m, n, k), Ult(m, n, w)
  PROVE  Ordered(f, e) = Ordered(e, f)
<1>1. /\ m = Dot(e, e) /\ n = Dot(f, f) /\ m \in Int /\ n \in Int /\ m < n
  BY TracksTypes, TracksUlt
<1> QED BY <1>1 DEF Ordered

\* A step of any of the three stays where it is or goes to the successor of a basis
\* that is not short.
Advances(x, y) == y = x \/ (~Short(x) /\ y = Successor(x))

LEMMA ReferenceAdvances ==
  ASSUME IInv, [Next]_vars
  PROVE  Advances(Ordered(eu, ev), Ordered(eu', ev'))
<1>1. Tracks(b, Large, eu, ev, u, v, nu, nv, sp)
  BY DEF IInv
<1>2. CASE Swap
  BY <1>1, <1>2, CourseSwapped DEF Swap, Advances
<1>3. CASE Keep \/ Return \/ UNCHANGED vars
  BY <1>3 DEF Keep, Return, vars, Advances
<1>4. CASE Subtract \/ Add
  <2>1. nv <= nu /\ ~(BitLength(nv) <= Target) /\ ev' = ev
    BY <1>4 DEF Subtract, Add, IInv, ShortEnough
  <2>2. eu' = CombineExact(IF sp < 0 THEN 1 ELSE -1, eu, ev, AlignShift(sp, nv))
    BY <1>4, ReferenceIteration
  <2>3. /\ ~Short(Ordered(eu, ev))
        /\ Ordered(CombineExact(IF sp < 0 THEN 1 ELSE -1, eu, ev, AlignShift(sp, nv)), ev)
             = Successor(Ordered(eu, ev))
    BY <1>1, <2>1, CourseInOrder
  <2> QED BY <2>1, <2>2, <2>3 DEF Advances
<1> QED BY <1>2, <1>3, <1>4 DEF Next

LEMMA ArmAdvances ==
  ASSUME ArmInv, Arm!Next
  PROVE  Advances(Ordered(eu1, ev1), Ordered(eu1', ev1'))
<1>1. Tracks(b, width, eu1, ev1, u1, v1, nu1, nv1, sp1)
  BY DEF ArmInv
<1>2. CASE Arm!Swap
  BY <1>1, <1>2, CourseSwapped, ArmWords DEF Arm!Swap, Advances
<1>3. CASE Arm!Keep \/ Arm!Narrow \/ Arm!KeepWidth \/ Arm!Return
  BY <1>3 DEF Arm!Keep, Arm!Narrow, Arm!KeepWidth, Arm!Return, Advances
<1>4. CASE Arm!Subtract \/ Arm!Add
  <2>1. nv1 <= nu1 /\ ~(BitLength(nv1) <= Target) /\ ev1' = ev1
    BY <1>4, ArmShifts DEF Arm!Subtract, Arm!Add, Arm!Combine, ArmInv, Arm!ShortEnough
  <2>2. eu1' = CombineExact(IF sp1 < 0 THEN 1 ELSE -1, eu1, ev1, AlignShift(sp1, nv1))
    BY <1>4, ArmIteration
  <2>3. /\ ~Short(Ordered(eu1, ev1))
        /\ Ordered(CombineExact(IF sp1 < 0 THEN 1 ELSE -1, eu1, ev1, AlignShift(sp1, nv1)), ev1)
             = Successor(Ordered(eu1, ev1))
    BY <1>1, <2>1, CourseInOrder
  <2> QED BY <2>1, <2>2, <2>3 DEF Advances
<1> QED BY <1>2, <1>3, <1>4 DEF Arm!Next

LEMMA Amd64Advances ==
  ASSUME Amd64Inv, Amd64!Next, ~astray'
  PROVE  ~astray /\ Advances(Ordered(eu2, ev2), Ordered(eu2', ev2'))
<1>1. ~astray => Tracks(b, Amd64!Width, eu2, ev2, u2, v2, nu2, nv2, sp2)
  BY DEF Amd64Inv
<1>2. CASE Amd64!Swap
  <2>1. ~astray /\ Ult(nu2, nv2, Amd64!Width) /\ eu2' = ev2 /\ ev2' = eu2
    BY <1>2, Amd64Words DEF Amd64!Swap
  <2> QED BY <1>1, <2>1, CourseSwapped DEF Advances
<1>3. CASE Amd64!Keep \/ Amd64!EnterNarrow \/ Amd64!Return
  BY <1>3 DEF Amd64!Keep, Amd64!EnterNarrow, Amd64!Return, Advances
<1>4. CASE Amd64!Inline \/ Amd64!Generic
  <2>1. pc2 = "test" /\ ~(BitLength(nv2) <= Target) /\ ev2' = ev2
    BY <1>4, Amd64Shifts
    DEF Amd64!Inline, Amd64!Generic, Amd64!Combine, Amd64!ShortEnough
  <2>2. /\ ~astray
        /\ eu2' = CombineExact(IF sp2 < 0 THEN 1 ELSE -1, eu2, ev2, AlignShift(sp2, nv2))
    BY <1>4, Amd64Iteration
  <2>3. nv2 <= nu2
    BY <2>1, <2>2 DEF Amd64Inv
  <2>4. /\ ~Short(Ordered(eu2, ev2))
        /\ Ordered(CombineExact(IF sp2 < 0 THEN 1 ELSE -1, eu2, ev2, AlignShift(sp2, nv2)), ev2)
             = Successor(Ordered(eu2, ev2))
    BY <1>1, <2>1, <2>2, <2>3, CourseInOrder
  <2> QED BY <2>1, <2>2, <2>4 DEF Advances
<1> QED BY <1>2, <1>3, <1>4 DEF Amd64!Next

\* The inductive invariant of the three: each its own, the later ones end last, and
\* what they have left of the sequence leads to where the reference code is.
SameCourse ==
    /\ pc1 = "done" => pc = "done"
    /\ pc2 = "done" => pc = "done"
    /\ Reaches(Ordered(eu1, ev1), Ordered(eu, ev))
    /\ ~astray => Reaches(Ordered(eu2, ev2), Ordered(eu, ev))

VariantsInv == IInv /\ ArmInv /\ Amd64Inv /\ SameCourse

\* They start from the same basis.
LEMMA VariantsInitially == VariantsInit => VariantsInv
<1> SUFFICES ASSUME VariantsInit PROVE VariantsInv
  OBVIOUS
<1>1. IInv /\ ArmInv /\ Amd64Inv
  BY Initially, ArmInitially, Amd64Initially DEF VariantsInit
<1>2. eu1 = eu /\ ev1 = ev /\ eu2 = eu /\ ev2 = ev /\ pc1 = "order" /\ pc2 = "order"
  BY ArmWords, Amd64Words DEF VariantsInit, Init, Arm!Init, Amd64!Init
<1> QED BY <1>1, <1>2, ReachesSelf DEF VariantsInv, SameCourse

\* The reference code has ended on a short basis.
LEMMA EndsShort == ASSUME IInv, pc = "done" PROVE Short(Ordered(eu, ev)) /\ Ordered(eu, ev) = <<eu, ev>>
<1>1. Tracks(b, Large, eu, ev, u, v, nu, nv, sp) /\ nv <= nu /\ BitLength(nv) <= Target
  BY DEF IInv, ShortEnough
<1> QED BY <1>1, CourseInOrder

\* While the reference code runs, it goes further along the sequence, whose start is
\* where the others wait.
LEMMA ReferenceKeeps ==
  ASSUME VariantsInv, ReferenceStep
  PROVE  VariantsInv'
<1>1. /\ Next /\ UNCHANGED <<arm, amd64>> /\ b' = b /\ pc # "done"
  BY DEF ReferenceStep, Next, Swap, Keep, Return, Subtract, Add
<1>2. IInv' /\ Advances(Ordered(eu, ev), Ordered(eu', ev'))
  BY <1>1, Consecution, ReferenceAdvances DEF VariantsInv
<1>3. ArmInv' /\ Amd64Inv'
  BY <1>1, ArmConsecution, Amd64Consecution DEF VariantsInv
<1>4. /\ pc1' = pc1 /\ pc2' = pc2 /\ eu1' = eu1 /\ ev1' = ev1
      /\ eu2' = eu2 /\ ev2' = ev2 /\ astray' = astray
  BY <1>1 DEF arm, amd64
<1> DEFINE x == Ordered(eu, ev)  y == Ordered(eu', ev')
           x1 == Ordered(eu1, ev1)  x2 == Ordered(eu2, ev2)
<1>5. /\ pc1 # "done" /\ pc2 # "done"
      /\ Reaches(x1, x) /\ (~astray => Reaches(x2, x)) /\ Advances(x, y)
  BY <1>1, <1>2 DEF VariantsInv, SameCourse
<1>6. x' = y /\ x1' = x1 /\ x2' = x2
  BY <1>4
<1> HIDE DEF x, y, x1, x2
<1>7. Reaches(x1, y) /\ (~astray => Reaches(x2, y))
  BY <1>5, ReachesFurther DEF Advances
<1>8. Reaches(x1, x)' /\ (~astray => Reaches(x2, x))'
  BY <1>4, <1>6, <1>7
<1>9. (pc1 # "done")' /\ (pc2 # "done")'
  BY <1>4, <1>5
<1> QED BY <1>2, <1>3, <1>8, <1>9 DEF VariantsInv, SameCourse, x, x1, x2

\* When it has ended, the ARM core follows, as long as its basis is not short.
LEMMA ArmKeeps ==
  ASSUME VariantsInv, ArmStep
  PROVE  VariantsInv'
<1>1. /\ Arm!Next /\ UNCHANGED <<reference, amd64>> /\ b' = b /\ pc = "done"
  BY DEF ArmStep, Arm!Next, Arm!Swap, Arm!Keep, Arm!Narrow, Arm!KeepWidth, Arm!Return,
         Arm!Subtract, Arm!Add, Arm!Combine
<1>2. ArmInv' /\ Advances(Ordered(eu1, ev1), Ordered(eu1', ev1'))
  BY <1>1, ArmConsecution, ArmAdvances DEF VariantsInv
<1>3. IInv' /\ Amd64Inv'
  BY <1>1, Consecution, Amd64Consecution DEF VariantsInv, vars, reference
<1>4. /\ pc' = pc /\ pc2' = pc2 /\ eu' = eu /\ ev' = ev
      /\ eu2' = eu2 /\ ev2' = ev2 /\ astray' = astray
  BY <1>1 DEF reference, amd64
<1> DEFINE x == Ordered(eu, ev)
           x1 == Ordered(eu1, ev1)  y1 == Ordered(eu1', ev1')  x2 == Ordered(eu2, ev2)
<1>5. /\ Reaches(x1, x) /\ (~astray => Reaches(x2, x)) /\ Advances(x1, y1) /\ Short(x)
  BY <1>1, <1>2, EndsShort DEF VariantsInv, SameCourse
<1>6. x' = x /\ x1' = y1 /\ x2' = x2
  BY <1>4
<1> HIDE DEF x, y1, x1, x2
<1>7. Reaches(y1, x)
  BY <1>5, ReachesLater DEF Advances
<1>8. Reaches(x1, x)' /\ (~astray => Reaches(x2, x))'
  BY <1>4, <1>5, <1>6, <1>7
<1>9. (pc = "done")'
  BY <1>1, <1>4
<1> QED BY <1>2, <1>3, <1>8, <1>9 DEF VariantsInv, SameCourse, x, x1, x2

\* The amd64 function follows in the same way, unless a step goes astray.
LEMMA Amd64Keeps ==
  ASSUME VariantsInv, Amd64Step
  PROVE  VariantsInv'
<1>1. /\ Amd64!Next /\ UNCHANGED <<reference, arm>> /\ b' = b /\ pc = "done"
  BY DEF Amd64Step, Amd64!Next, Amd64!Swap, Amd64!Keep, Amd64!EnterNarrow, Amd64!Return,
         Amd64!Inline, Amd64!Generic, Amd64!Combine, VariantsInv, SameCourse
<1>2. Amd64Inv' /\ (~astray' => ~astray /\ Advances(Ordered(eu2, ev2), Ordered(eu2', ev2')))
  BY <1>1, Amd64Consecution, Amd64Advances DEF VariantsInv
<1>3. IInv' /\ ArmInv'
  BY <1>1, Consecution, ArmConsecution DEF VariantsInv, vars, reference
<1>4. pc' = pc /\ eu' = eu /\ ev' = ev /\ eu1' = eu1 /\ ev1' = ev1
  BY <1>1 DEF reference, arm
<1> DEFINE x == Ordered(eu, ev)
           x1 == Ordered(eu1, ev1)  x2 == Ordered(eu2, ev2)  y2 == Ordered(eu2', ev2')
<1>5. /\ Reaches(x1, x) /\ (~astray => Reaches(x2, x)) /\ Short(x)
      /\ ~astray' => ~astray /\ Advances(x2, y2)
  BY <1>1, <1>2, EndsShort DEF VariantsInv, SameCourse
<1>6. x' = x /\ x1' = x1 /\ x2' = y2
  BY <1>4
<1> HIDE DEF x, x1, x2, y2
<1>7. ~astray' => Reaches(y2, x)
  BY <1>5, ReachesLater DEF Advances
<1>8. Reaches(x1, x)' /\ (~astray => Reaches(x2, x))'
  BY <1>5, <1>6, <1>7
<1>9. (pc = "done")'
  BY <1>1, <1>4
<1> QED BY <1>2, <1>3, <1>8, <1>9 DEF VariantsInv, SameCourse, x, x1, x2

\* What is proved about single states of the three rests on this invariant.
THEOREM VariantsInvariance == VariantsSpec => []VariantsInv
<1>1. VariantsInit => VariantsInv
  BY VariantsInitially
<1>2. VariantsInv /\ [VariantsNext]_allVars => VariantsInv'
  <2> SUFFICES ASSUME VariantsInv, [VariantsNext]_allVars PROVE VariantsInv'
    OBVIOUS
  <2>1. CASE UNCHANGED allVars
    <3>1. UNCHANGED <<b, arm>> /\ UNCHANGED <<b, amd64>> /\ UNCHANGED vars
      BY <2>1 DEF allVars, reference, vars
    <3>2. IInv' /\ ArmInv' /\ Amd64Inv'
      BY <3>1, Consecution, ArmConsecution, Amd64Consecution DEF VariantsInv
    <3> QED BY <2>1, <3>2 DEF VariantsInv, SameCourse, allVars, reference, arm, amd64
  <2> QED BY <2>1, ReferenceKeeps, ArmKeeps, Amd64Keeps DEF VariantsNext
<1> QED BY <1>1, <1>2, PTL DEF VariantsSpec

\* The ARM core loses nothing with the top words of its registers: what its comment
\* argues of |sp| and nu is right for every order and every set of sizes.
THEOREM NarrowingAlways == VariantsSpec => []NarrowingLossless
<1>1. VariantsInv => NarrowingLossless
  BY ArmWords DEF VariantsInv, ArmInv, Tracks, Gram, NarrowingLossless, Arm!NarrowingLossless
<1> QED BY <1>1, VariantsInvariance, PTL

\* The amd64 function loses nothing when it leaves out the top words, and while the
\* steps keep to the sign of sp, which those of the first loop do, its registers hold
\* the scalar products of the exact vectors.
THEOREM SwitchAlways == VariantsSpec => []SwitchLossless
<1>1. VariantsInv => SwitchLossless
  <2> SUFFICES ASSUME Amd64Inv, loop = 1 \/ ~astray
               PROVE  /\ nu2 = Amd64!Dot(eu2, eu2)
                      /\ nv2 = Amd64!Dot(ev2, ev2)
                      /\ sp2 = Amd64!Dot(eu2, ev2)
    BY DEF VariantsInv, SwitchLossless, Amd64!SwitchLossless
  <2>1. ~astray
    BY DEF Amd64Inv
  <2>2. Tracks(b, Amd64!Width, eu2, ev2, u2, v2, nu2, nv2, sp2)
    BY <2>1 DEF Amd64Inv
  <2> QED BY <2>2, Amd64Words DEF Tracks, Gram
<1> QED BY <1>1, VariantsInvariance, PTL

\* The three return the same pair, the amd64 function unless a step went astray.
THEOREM SameAnswerAlways == VariantsSpec => []SameAnswer
<1>1. VariantsInv => SameAnswer
  <2> SUFFICES ASSUME VariantsInv PROVE SameAnswer
    OBVIOUS
  <2>1. ASSUME pc1 = "done" PROVE c1 = c
    <3>1. /\ pc = "done" /\ Reaches(Ordered(eu1, ev1), Ordered(eu, ev))
          /\ c = ev /\ Ordered(eu, ev) = <<eu, ev>>
      BY <2>1, EndsShort DEF VariantsInv, SameCourse, IInv
    <3>2. /\ Tracks(b, width, eu1, ev1, u1, v1, nu1, nv1, sp1) /\ nv1 <= nu1
          /\ BitLength(nv1) <= Target /\ c1 = ev1
      BY <2>1, ArmShifts DEF VariantsInv, ArmInv, Arm!ShortEnough
    <3>3. Short(Ordered(eu1, ev1)) /\ Ordered(eu1, ev1) = <<eu1, ev1>>
      BY <3>2, CourseInOrder
    <3>4. <<eu, ev>> = <<eu1, ev1>>
      BY <3>1, <3>3, ReachesEnd
    <3> QED BY <3>1, <3>2, <3>4
  <2>2. ASSUME pc2 = "done", ~astray PROVE c2 = c
    <3>1. /\ pc = "done" /\ Reaches(Ordered(eu2, ev2), Ordered(eu, ev))
          /\ c = ev /\ Ordered(eu, ev) = <<eu, ev>>
      BY <2>2, EndsShort DEF VariantsInv, SameCourse, IInv
    <3>2. /\ Tracks(b, Amd64!Width, eu2, ev2, u2, v2, nu2, nv2, sp2) /\ nv2 <= nu2
          /\ BitLength(nv2) <= Target /\ c2 = ev2
      BY <2>2, Amd64Shifts DEF VariantsInv, Amd64Inv, Amd64!ShortEnough
    <3>3. Short(Ordered(eu2, ev2)) /\ Ordered(eu2, ev2) = <<eu2, ev2>>
      BY <3>2, CourseInOrder
    <3>4. <<eu, ev>> = <<eu2, ev2>>
      BY <3>1, <3>3, ReachesEnd
    <3> QED BY <3>1, <3>2, <3>4
  <2> QED BY <2>1, <2>2 DEF SameAnswer
<1> QED BY <1>1, VariantsInvariance, PTL


-----------------------------------------------------------------------------
(* With its widths forgotten, the ARM core takes the steps of the          *)
(* reference code.                                                         *)

LEMMA LoopWords ==
  /\ \A x, w : Arm!Reference!Trunc(x, w) = Trunc(x, w)
  /\ \A x, s, w : Arm!Reference!Shl(x, s, w) = Shl(x, s, w)
  /\ \A x, y, w : Arm!Reference!Ult(x, y, w) = Ult(x, y, w)
  /\ \A x : Arm!Reference!Magnitude(x) = Magnitude(x)
  /\ \A x : Arm!Reference!ToSmall(x) = ToSmall(x)
  /\ \A x : Arm!Reference!ToHalf(x) = ToHalf(x)
  /\ \A x : Arm!Reference!Normalize(x) = Normalize(x)
  /\ Arm!Reference!Scalars = Scalars
  /\ \A x, y : Arm!Reference!Dot(x, y) = Dot(x, y)
<1>1. \A x, w : Arm!Reference!Trunc(x, w) = Trunc(x, w)
  BY DEF Arm!Reference!Trunc, Trunc
<1>2. \A x, s, w : Arm!Reference!Shl(x, s, w) = Shl(x, s, w)
  BY DEF Arm!Reference!Shl, Shl
<1>3. \A x, y, w : Arm!Reference!Ult(x, y, w) = Ult(x, y, w)
  BY DEF Arm!Reference!Ult, Ult
<1>4. \A x : Arm!Reference!Magnitude(x) = Magnitude(x)
  BY DEF Arm!Reference!Magnitude, Magnitude
<1>5. \A x : Arm!Reference!ToSmall(x) = ToSmall(x)
  BY <1>1 DEF Arm!Reference!ToSmall, ToSmall
<1>6. \A x : Arm!Reference!ToHalf(x) = ToHalf(x)
  BY <1>1 DEF Arm!Reference!ToHalf, ToHalf
<1>7. \A x : Arm!Reference!Normalize(x) = Normalize(x)
  BY DEF Arm!Reference!Normalize, Normalize
<1>8. Arm!Reference!Scalars = Scalars
  BY DEF Arm!Reference!Scalars, Scalars
<1>9. \A x, y : Arm!Reference!Dot(x, y) = Dot(x, y)
  BY DEF Arm!Reference!Dot, Dot
<1> QED BY <1>1, <1>2, <1>3, <1>4, <1>5, <1>6, <1>7, <1>8, <1>9

LEMMA LoopShifts ==
  /\ \A x : Arm!Reference!BitLength(x) = BitLength(x)
  /\ \A x, y : Arm!Reference!AlignShift(x, y) = AlignShift(x, y)
<1>1. \A x : Arm!Reference!BitLength(x) = BitLength(x)
  BY LoopWords DEF Arm!Reference!BitLength, BitLength, Arm!Reference!Magnitude, Magnitude
<1>2. \A x, y : Arm!Reference!AlignShift(x, y) = AlignShift(x, y)
  BY <1>1 DEF Arm!Reference!AlignShift, AlignShift
<1> QED BY <1>1, <1>2

LEMMA LoopUpdates ==
  /\ \A g, a, x, s, w : Arm!Reference!ShiftAcc(g, a, x, s, w) = ShiftAcc(g, a, x, s, w)
  /\ \A g, a, x, s : Arm!Reference!ExactAcc(g, a, x, s) = ExactAcc(g, a, x, s)
  /\ \A g, x, y, s : Arm!Reference!CombineSmall(g, x, y, s) = CombineSmall(g, x, y, s)
  /\ \A g, x, y, s : Arm!Reference!CombineExact(g, x, y, s) = CombineExact(g, x, y, s)
  /\ \A g, x, y, z, s, w : Arm!Reference!CombineNorm(g, x, y, z, s, w) = CombineNorm(g, x, y, z, s, w)
  /\ \A g, y, z, s, w : Arm!Reference!CombineDot(g, y, z, s, w) = CombineDot(g, y, z, s, w)
<1>1. \A g, a, x, s, w : Arm!Reference!ShiftAcc(g, a, x, s, w) = ShiftAcc(g, a, x, s, w)
  BY LoopWords DEF Arm!Reference!ShiftAcc, ShiftAcc
<1>2. \A g, a, x, s : Arm!Reference!ExactAcc(g, a, x, s) = ExactAcc(g, a, x, s)
  BY DEF Arm!Reference!ExactAcc, ExactAcc
<1>3. \A g, x, y, s : Arm!Reference!CombineSmall(g, x, y, s) = CombineSmall(g, x, y, s)
  BY <1>1 DEF Arm!Reference!CombineSmall, CombineSmall
<1>4. \A g, x, y, s : Arm!Reference!CombineExact(g, x, y, s) = CombineExact(g, x, y, s)
  BY <1>2 DEF Arm!Reference!CombineExact, CombineExact
<1>5. \A g, x, y, z, s, w : Arm!Reference!CombineNorm(g, x, y, z, s, w) = CombineNorm(g, x, y, z, s, w)
  BY <1>1 DEF Arm!Reference!CombineNorm, CombineNorm
<1>6. \A g, y, z, s, w : Arm!Reference!CombineDot(g, y, z, s, w) = CombineDot(g, y, z, s, w)
  BY <1>1 DEF Arm!Reference!CombineDot, CombineDot
<1> QED BY <1>1, <1>2, <1>3, <1>4, <1>5, <1>6

\* Registers that hold the exact values would hold them at full width too.
LEMMA TracksLarge ==
  ASSUME NEW z, NEW w, NEW e, NEW f, NEW p, NEW r, NEW m, NEW n, NEW k,
         Tracks(z, w, e, f, p, r, m, n, k)
  PROVE  Tracks(z, Large, e, f, p, r, m, n, k)
  BY LargeRoom DEF Tracks

\* An iteration computes at any width what it would compute at full width.
LEMMA WidthIrrelevant ==
  ASSUME NEW z, NEW w \in 1..MaxBits, NEW e \in Int \X Int, NEW f \in Int \X Int, NEW p, NEW r,
         NEW m, NEW n, NEW k, Tracks(z, w, e, f, p, r, m, n, k), n <= m,
         ~(BitLength(n) <= Target), NEW sign \in {-1, 1}, NEW s, s = AlignShift(k, n),
         sign = IF k < 0 THEN 1 ELSE -1
  PROVE  /\ CombineNorm(sign, m, n, k, s, w) = CombineNorm(sign, m, n, k, s, Large)
         /\ CombineDot(sign, n, k, s, w) = CombineDot(sign, n, k, s, Large)
<1> DEFINE g == CombineExact(sign, e, f, s)
<1>1. Tracks(z, w, g, f, CombineSmall(sign, p, r, s), r,
             CombineNorm(sign, m, n, k, s, w), n, CombineDot(sign, n, k, s, w))
  BY IterationTracks
<1>2. Tracks(z, Large, e, f, p, r, m, n, k) /\ Large \in 1..MaxBits
  BY TracksLarge, WidthTypes
<1>3. Tracks(z, Large, g, f, CombineSmall(sign, p, r, s), r,
             CombineNorm(sign, m, n, k, s, Large), n, CombineDot(sign, n, k, s, Large))
  BY <1>2, IterationTracks
<1> QED BY <1>1, <1>3 DEF Tracks, Gram

\* Subtract and Add at the current width are those of the reference code.
LEMMA ArmIterationMaps ==
  ASSUME ArmInv, Arm!Subtract \/ Arm!Add
  PROVE  Arm!Reference!Subtract \/ Arm!Reference!Add
<1> DEFINE sign == IF sp1 < 0 THEN 1 ELSE -1  s == AlignShift(sp1, nv1)
<1>1. /\ Tracks(b, width, eu1, ev1, u1, v1, nu1, nv1, sp1) /\ pc1 = "test" /\ nv1 <= nu1
      /\ ~(BitLength(nv1) <= Target)
  BY ArmShifts DEF ArmInv, Arm!Subtract, Arm!Add, Arm!ShortEnough
<1>2. eu1 \in Int \X Int /\ ev1 \in Int \X Int /\ sp1 \in Int /\ width \in 1..MaxBits
  BY <1>1, TracksTypes
<1>3. Arm!Combine(sign, s)
  <2>1. CASE Arm!Subtract
    BY <1>2, <2>1, ArmShifts DEF Arm!Subtract
  <2>2. CASE Arm!Add
    BY <2>2, ArmShifts DEF Arm!Add
  <2> QED BY <2>1, <2>2
<1>4. /\ sign \in {-1, 1} /\ s = AlignShift(sp1, nv1)
      /\ sign = IF sp1 < 0 THEN 1 ELSE -1
  OBVIOUS
<1> HIDE DEF sign, s
<1>5. /\ CombineNorm(sign, nu1, nv1, sp1, s, width) = CombineNorm(sign, nu1, nv1, sp1, s, Large)
      /\ CombineDot(sign, nv1, sp1, s, width) = CombineDot(sign, nv1, sp1, s, Large)
  BY <1>1, <1>2, <1>4, WidthIrrelevant
<1>6. Arm!Reference!Combine(sign, s)
  BY <1>3, <1>5, ArmUpdates, LoopUpdates DEF Arm!Combine, Arm!Reference!Combine
<1>7. pc1' = "order" /\ UNCHANGED <<b, v1, nv1, c1, ev1>>
  BY <1>3 DEF Arm!Combine
<1>8. ~Arm!Reference!ShortEnough
  BY <1>1, LoopShifts DEF Arm!Reference!ShortEnough
<1>9. CASE sp1 < 0
  <2>1. sign = 1 /\ Arm!Reference!Combine(1, s)
    BY <1>4, <1>6, <1>9
  <2> QED BY <1>1, <1>4, <1>7, <1>8, <1>9, <2>1, LoopShifts DEF Arm!Reference!Add
<1>10. CASE sp1 >= 0
  <2>1. ~(sp1 < 0)
    BY <1>2, <1>10
  <2>2. sign = -1
    BY <1>4, <2>1
  <2>3. Arm!Reference!Combine(-1, s)
    BY <1>6, <2>2
  <2> QED BY <1>1, <1>4, <1>7, <1>8, <1>10, <2>3, LoopShifts DEF Arm!Reference!Subtract
<1> QED BY <1>2, <1>9, <1>10

\* Every step of the core is one of the reference code, or only looks at the size.
LEMMA ArmMaps ==
  ASSUME ArmInv, Arm!Next
  PROVE  Arm!Reference!Next \/ UNCHANGED Arm!Reference!vars
<1>1. Tracks(b, width, eu1, ev1, u1, v1, nu1, nv1, sp1)
  BY DEF ArmInv
<1>2. Arm!Ult(nu1, nv1, width) <=> Arm!Reference!Ult(nu1, nv1, Large)
  BY <1>1, TracksLarge, TracksUlt, ArmWords, LoopWords
<1>3. CASE Arm!Swap
  BY <1>2, <1>3 DEF Arm!Swap, Arm!Reference!Swap, Arm!Reference!Next
<1>4. CASE Arm!Keep
  BY <1>2, <1>4
  DEF Arm!Keep, Arm!gram, Arm!Reference!Keep, Arm!Reference!regs, Arm!Reference!Next
<1>5. CASE Arm!Narrow
  <2>1. nu1' = nu1 /\ nv1' = nv1 /\ sp1' = sp1
    BY <1>5, ArmNarrow
  <2> QED BY <1>5, <2>1 DEF Arm!Narrow, Arm!Reference!vars
<1>6. CASE Arm!KeepWidth
  BY <1>6 DEF Arm!KeepWidth, Arm!gram, Arm!Reference!vars
<1>7. CASE Arm!Return
  BY <1>7, ArmShifts, LoopShifts, ArmWords, LoopWords
  DEF Arm!Return, Arm!gram, Arm!ShortEnough, Arm!Reference!Return, Arm!Reference!regs,
      Arm!Reference!ShortEnough, Arm!Reference!Next
<1>8. CASE Arm!Subtract \/ Arm!Add
  BY <1>8, ArmIterationMaps DEF Arm!Reference!Next
<1> QED BY <1>3, <1>4, <1>5, <1>6, <1>7, <1>8 DEF Arm!Next

\* The ARM core implements the reference reduction: initial states map to initial
\* states, and every step of the three programs to a step of the reference loop or to a stutter.
THEOREM ArmImplementsReference == VariantsSpec => RunsReferenceSteps
<1>1. VariantsInit => Arm!Reference!Init
  BY ArmWords, LoopWords DEF VariantsInit, Arm!Init, Arm!Reference!Init
<1>2. VariantsInv /\ [VariantsNext]_allVars => [Arm!Reference!Next]_(Arm!Reference!vars)
  <2> SUFFICES ASSUME VariantsInv, [VariantsNext]_allVars
               PROVE  Arm!Reference!Next \/ UNCHANGED Arm!Reference!vars
    OBVIOUS
  <2>1. CASE ArmStep
    BY <2>1, ArmMaps DEF VariantsInv, ArmStep
  <2>2. CASE ReferenceStep \/ Amd64Step \/ UNCHANGED allVars
    <3>1. UNCHANGED arm /\ b' = b
      BY <2>2 DEF ReferenceStep, Next, Swap, Keep, Return, Subtract, Add, Amd64Step, allVars,
                  Amd64!Next, Amd64!Swap, Amd64!Keep, Amd64!EnterNarrow, Amd64!Return,
                  Amd64!Inline, Amd64!Generic, Amd64!Combine
    <3> QED BY <3>1 DEF arm, Arm!Reference!vars
  <2> QED BY <2>1, <2>2 DEF VariantsNext
<1> QED BY <1>1, <1>2, VariantsInvariance, PTL
    DEF VariantsSpec, RunsReferenceSteps, Arm!RunsReferenceSteps, Arm!Reference!Spec
=============================================================================
