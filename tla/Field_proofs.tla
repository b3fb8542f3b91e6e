---------------------------- MODULE Field_proofs ----------------------------
(***************************************************************************)
(* The field functions.                                                    *)
(*                                                                         *)
(* Elements of the base field: reduction without correction is exact up to *)
(* MaxOperand, and the lanes of the AVX2 code compute the same elements as *)
(* the portable words, for every modulus and word size that                *)
(* MontyAssumption allows.  Then products of polynomials, by three products *)
(* of halves or by shifted vectors, and every other call: whatever was     *)
(* called before, either program computes in the ring modulo P and z^19-2. *)
(***************************************************************************)
EXTENDS FieldCalls, Congruence

-----------------------------------------------------------------------------
(* Elements of the base field, as words and as lanes. *)

\* The powers of two in use are positive.
LEMMA WordNat == Half \in Nat /\ Half > 0 /\ Word \in Nat /\ Word = Half * Half /\ Word > Half
<1>1. Half \in Nat /\ Half > 1  BY MontyAssumption
<1> HIDE DEF Half
<1> QED BY <1>1, SMT DEF Word

\* A high half times P, shifted down by a half word, is less than P.
LEMMA HighPart ==
  ASSUME NEW h \in Nat, h > 0, NEW q \in Nat, q > 0, NEW z \in 0..(h - 1)
  PROVE  (z * q) \div h \in 0..(q - 1)
<1>1. z * q \in Nat /\ z * q < h * q  BY SMT
<1> DEFINE n == z * q
<1>2. n \in Int /\ 0 <= n /\ n < h * q BY <1>1
<1> HIDE DEF n
<1>3. n = h * (n \div h) + (n % h) /\ n % h \in 0..(h - 1) /\ n \div h \in Int BY <1>2
<1> DEFINE d == n \div h  r == n % h
<1>4. d \in Int /\ r \in 0..(h - 1) /\ n = h * d + r BY <1>3
<1> HIDE DEF d, r
<1>5. d >= 0  
  <2> SUFFICES ASSUME d <= -1 PROVE FALSE BY <1>4
  <2>1. h * d <= h * (-1)  BY <1>4
  <2> QED BY <2>1, <1>2, <1>4
<1>6. d < q
  <2> SUFFICES ASSUME d >= q PROVE FALSE BY <1>4
  <2>1. h * d >= h * q  BY <1>4
  <2> QED BY <2>1, <1>2, <1>4
<1>7. d \in 0..(q - 1) BY <1>4, <1>5, <1>6
<1> QED BY <1>7 DEF d, n

\* A half word h, a modulus p, its inverse q, an operand x and y = -x/p modulo h^2;
\* and what the upper half of y gives.
IsReduction(h, p, q, v, z) ==
    /\ h \in Nat /\ h > 1 /\ p \in Nat /\ p > 0 /\ q \in Int
    /\ \E k \in Int : p * q + 1 = k * (h * h)
    /\ v \in Int /\ 1 <= v /\ v <= 2 * (h * h) - 1 - (h - 1) * (p + h)
    /\ z \in Int /\ z = (v * q) % (h * h)
IsExact(h, p, v, z) ==
    /\ z * p + v = (1 + ((z \div h) * p) \div h) * (h * h)
    /\ ((z \div h) * p) \div h \in 0..(p - 1)

\* Montgomery reduction without its addition and without its correction: for an
\* operand up to the bound, the sum that is not computed is exactly one word.
LEMMA ReductionExact ==
  ASSUME NEW h, NEW p, NEW q, NEW v, NEW z, IsReduction(h, p, q, v, z)
  PROVE  IsExact(h, p, v, z)
<1>0. /\ h \in Nat /\ h > 1 /\ p \in Nat /\ p > 0 /\ q \in Int
      /\ v \in Int /\ 1 <= v /\ v <= 2 * (h * h) - 1 - (h - 1) * (p + h)
      /\ z \in Int /\ z = (v * q) % (h * h)
  BY DEF IsReduction
<1>k. PICK k \in Int : p * q + 1 = k * (h * h)  BY DEF IsReduction
<1> USE <1>0, <1>k
<1> DEFINE w == h * h
<1>1. w \in Nat /\ w > 0 /\ h \in Int  BY SMT
<1>2. v * q \in Int  OBVIOUS
<1>3. PICK m \in Int : z = v * q + m * w
  <2>1. z = (v * q) % w  OBVIOUS
  <2> DEFINE u == v * q
  <2>2. u \in Int /\ z = u % w  BY <2>1
  <2> HIDE DEF u, w
  <2>3. Congruent(z, u, w)  BY <2>2, <1>1, ModCongruent
  <2> QED BY <2>3 DEF Congruent, u
<1>4. z \in 0..(w - 1)
  <2> DEFINE u == v * q
  <2>2. u \in Int /\ z = u % w  BY <1>2
  <2> HIDE DEF u, w
  <2> QED BY <2>2, <1>1
<1> DEFINE y1 == z \div h  y0 == z % h
<1>5. y1 \in 0..(h - 1) /\ y0 \in 0..(h - 1) /\ z = h * y1 + y0
  <2>1. y1 \in Int /\ y0 \in 0..(h - 1) /\ z = h * y1 + y0  BY <1>4
  <2>2. z < h * h /\ 0 <= z  BY <1>4
  <2> HIDE DEF y1, y0, w
  <2>3. y1 < h
    <3> SUFFICES ASSUME y1 >= h PROVE FALSE BY <2>1
    <3> DEFINE a == h * y1  b == h * h
    <3>1. a >= b /\ a \in Int /\ b \in Int  BY <2>1
    <3>2. z = a + y0 /\ z < b /\ y0 >= 0 /\ y0 \in Int  BY <2>1, <2>2
    <3> HIDE DEF a, b
    <3> QED BY <3>1, <3>2
  <2>4. y1 >= 0
    <3> SUFFICES ASSUME y1 <= -1 PROVE FALSE BY <2>1
    <3>1. h * y1 <= h * (-1)  BY <2>1
    <3> QED BY <3>1, <2>1, <2>2
  <2> QED BY <2>1, <2>3, <2>4
<1> HIDE DEF y1, y0
<1> DEFINE n == y1 * p  y3 == n \div h  y2 == n % h
<1>6. y3 \in 0..(p - 1)  BY <1>5, HighPart
<1>7. y2 \in 0..(h - 1) /\ n = h * y3 + y2
  <2>1. n \in Int  BY <1>5
  <2> HIDE DEF n
  <2> QED BY <2>1
<1> HIDE DEF n, y3, y2
<1> DEFINE S == v + y0 * p + y2 * h
<1>8. z * p + v = S + y3 * w
  <2>1. y1 * p = h * y3 + y2  BY <1>7 DEF n
  <2>2. z * p = h * (y1 * p) + y0 * p  BY <1>5
  <2>3. h * (h * y3 + y2) = y3 * w + y2 * h  BY <1>5, <1>6, <1>7
  <2> QED BY <2>1, <2>2, <2>3, <1>4, <1>5, <1>6, <1>7
<1>9. S > 0 /\ S < 2 * w
  <2>1. y0 * p \in Int /\ 0 <= y0 * p /\ y0 * p <= (h - 1) * p  BY <1>5
  <2>2. y2 * h \in Int /\ 0 <= y2 * h /\ y2 * h <= (h - 1) * h  BY <1>7
  <2>3. (h - 1) * (p + h) = (h - 1) * p + (h - 1) * h  OBVIOUS
  <2>4. (h - 1) * p \in Int /\ (h - 1) * h \in Int  OBVIOUS
  <2> QED BY <2>1, <2>2, <2>3, <2>4
<1>10. PICK j \in Int : S = j * w
  <2>1. z * p + v = v * (p * q + 1) + (m * p) * w  BY <1>3, <1>1
  <2>2. v * (p * q + 1) = (v * k) * w  OBVIOUS
  <2>3. S = (v * k + m * p - y3) * w
    <3> DEFINE a == v * k  b == m * p
    <3>1. a \in Int /\ b \in Int /\ S + y3 * w = a * w + b * w  BY <2>1, <2>2, <1>8, <1>3
    <3>2. S \in Int /\ y3 \in Int  BY <1>5, <1>6, <1>7
    <3> HIDE DEF a, b, S, w
    <3>3. S = (a + b - y3) * w  BY <3>1, <3>2, <1>1
    <3> QED BY <3>3 DEF a, b
  <2>4. v * k + m * p - y3 \in Int  BY <1>3, <1>6
  <2> QED BY <2>3, <2>4
<1>11. S = w
  <2>1. S \in Int  BY <1>5, <1>7
  <2> HIDE DEF S, w
  <2>2. j >= 1
    <3> SUFFICES ASSUME j <= 0 PROVE FALSE  BY <1>10
    <3>1. j * w <= 0 * w  BY <1>1, <1>10
    <3> QED BY <3>1, <1>9, <1>10, <1>1
  <2>3. j < 2
    <3> SUFFICES ASSUME j >= 2 PROVE FALSE  BY <1>10
    <3>1. j * w >= 2 * w  BY <1>1, <1>10
    <3> QED BY <3>1, <1>9, <1>10, <1>1
  <2>4. j = 1  BY <2>2, <2>3
  <2> QED BY <2>4, <1>10, <1>1
<1>12. z * p + v = (1 + y3) * w  BY <1>8, <1>11, <1>6, <1>1
<1> QED BY <1>12, <1>6 DEF y1, n, y3, IsExact

\* The inverse of the modulus, as a multiple of a word.
LEMMA InverseOfModulus == P \in Nat /\ P > 0 /\ P1I \in Int
                       /\ \E k \in Int : P * P1I + 1 = k * (Half * Half)
<1>1. P \in Nat /\ P > 1 /\ P1I \in Int /\ (P * P1I + 1) % Word = 0
  BY MontyAssumption, WordNat
<1> DEFINE n == P * P1I + 1
<1>2. n \in Int /\ n % Word = 0  BY <1>1
<1> HIDE DEF n
<1>3. Congruent(n, 0, Word)  BY <1>2, WordNat, ModCongruent
<1>4. \E k \in Int : n = k * Word  BY <1>3, WordNat DEF Congruent
<1> QED BY <1>1, <1>4, WordNat DEF n

\* The half word, and the bound of the reduction, as numbers.
LEMMA HalfAndBound == Half \in Nat /\ Half > 1 /\ 4 * P < Half /\ MaxOperand \in Int
                   /\ MaxOperand = 2 * (Half * Half) - 1 - (Half - 1) * (P + Half)
                   /\ MaxOperand < Word
<1>1. Half \in Nat /\ Half > 4 /\ 4 * P < Half /\ MaxOperand \in 1..(Word - 1)  BY MontyAssumption
<1>2. MaxOperand = 2 * (Half * Half) - 1 - (Half - 1) * (P + Half)  BY DEF MaxOperand, Word
<1> HIDE DEF Half
<1> QED BY <1>1, <1>2, WordNat

\* mp_frommonty() divides by a word modulo P, for every operand that its comment
\* allows; the addition that the AVX2 code performs changes nothing.
THEOREM FromMontyExact ==
  ASSUME NEW v \in 1..MaxOperand
  PROVE  /\ FromMonty(v) \in Elements
         /\ Congruent(FromMonty(v) * Word, v, P)
         /\ WideFromMonty(v) = FromMonty(v)
<1> DEFINE z == (v * P1I) % Word   y3 == ((z \div Half) * P) \div Half
<1>1. v \in Int /\ 1 <= v /\ v <= 2 * (Half * Half) - 1 - (Half - 1) * (P + Half)
  BY HalfAndBound
<1>2. z \in Int /\ z = (v * P1I) % (Half * Half)
  <2> DEFINE u == v * P1I
  <2>1. u \in Int  BY <1>1, InverseOfModulus
  <2> HIDE DEF u
  <2>2. u % Word \in Int  BY <2>1, WordNat
  <2> QED BY <2>2, WordNat DEF u
<1> HIDE DEF z
<1>4. /\ z * P + v = (1 + y3) * (Half * Half)
      /\ y3 \in 0..(P - 1)
  <2>1. IsReduction(Half, P, P1I, v, z)
    BY <1>1, <1>2, HalfAndBound, InverseOfModulus DEF IsReduction
  <2>2. IsExact(Half, P, v, z)  BY <2>1, ReductionExact
  <2> QED BY <2>2 DEF IsExact
<1> HIDE DEF y3
<1>5. FromMonty(v) = 1 + y3  BY DEF FromMonty, z, y3
<1>6. Congruent((1 + y3) * Word, v, P)
  <2>1. (1 + y3) * Word = v + z * P  BY <1>1, <1>2, <1>4, WordNat, InverseOfModulus
  <2> QED BY <2>1, <1>2 DEF Congruent
<1>7. WideFromMonty(v) = 1 + y3
  <2>1. WideFromMonty(v) = (z * P + v) \div Word  BY DEF WideFromMonty, z
  <2> DEFINE c == 1 + y3
  <2>2. c \in Nat /\ z * P + v = c * Word  BY <1>4, WordNat
  <2> HIDE DEF c
  <2>3. (c * Word) \div Word = c
    <3>1. Word \in Nat /\ Word > 0  BY WordNat
    <3> HIDE DEF Word
    <3> QED BY <3>1, <2>2
  <2> QED BY <2>1, <2>2, <2>3 DEF c
<1> QED BY <1>4, <1>5, <1>6, <1>7, InverseOfModulus DEF Elements

\* The product of two elements can be reduced.
LEMMA ProductFits ==
  ASSUME NEW a \in Elements, NEW b \in Elements
  PROVE  a * b \in 1..MaxOperand /\ a * b \in 0..(Word - 1) /\ a \in Int /\ b \in Int
<1>1. a \in Int /\ b \in Int /\ 1 <= a /\ a <= P /\ 1 <= b /\ b <= P /\ P \in Nat
  BY InverseOfModulus DEF Elements
<1>2. a * b \in Int /\ 1 <= a * b /\ a * b <= P * P
  <2>1. a * b <= P * b /\ P * b <= P * P /\ 1 * b <= a * b  BY <1>1
  <2> QED BY <2>1, <1>1
<1> DEFINE h == Half
<1>3. h \in Nat /\ h > 4 /\ 4 * P < h /\ MaxOperand < Word /\ Word = h * h
      /\ MaxOperand = 2 * (h * h) - 1 - (h - 1) * (P + h) /\ MaxOperand \in Int
  BY MontyAssumption, HalfAndBound, WordNat
<1> HIDE DEF h
<1>4. P * P <= MaxOperand
  <2>1. MaxOperand = h * h - 1 - h * P + P + h  BY <1>1, <1>3
  <2>2. h * (4 * P) <= h * h /\ (4 * P) * P <= h * P  BY <1>1, <1>3
  <2>3. h * (4 * P) = 4 * (h * P) /\ (4 * P) * P = 4 * (P * P)  BY <1>1, <1>3
  <2> DEFINE u == h * P   v == P * P   w == h * h
  <2>4. u \in Nat /\ v \in Nat /\ w \in Nat  BY <1>1, <1>3
  <2>5. MaxOperand = w - 1 - u + P + h /\ 4 * u <= w /\ 4 * v <= u  BY <2>1, <2>2, <2>3
  <2> HIDE DEF u, v, w
  <2>6. v <= MaxOperand  BY <2>4, <2>5, <1>1, <1>3
  <2> QED BY <2>6 DEF v
<1> QED BY <1>1, <1>2, <1>3, <1>4

\* mp_montymul() divides the product by a word.
THEOREM MontyMulExact ==
  ASSUME NEW a \in Elements, NEW b \in Elements
  PROVE  MontyMul(a, b) \in Elements /\ Congruent(MontyMul(a, b) * Word, a * b, P)
<1> DEFINE n == a * b
<1>1. n \in 1..MaxOperand /\ n \in 0..(Word - 1)  BY ProductFits
<1> HIDE DEF n
<1>2. n % Word = n  BY <1>1, WordNat
<1>3. MontyMul(a, b) = FromMonty(n)  BY <1>2 DEF MontyMul, n
<1> QED BY <1>1, <1>3, FromMontyExact DEF n

\* mp_add() and mp_sub() stay in 1..P, although they wrap below zero on the way.
THEOREM AddSubExact ==
  ASSUME NEW a \in Elements, NEW b \in Elements
  PROVE  /\ MpAdd(a, b) \in Elements /\ Congruent(MpAdd(a, b), a + b, P)
         /\ MpSub(a, b) \in Elements /\ Congruent(MpSub(a, b), a - b, P)
<1> DEFINE w == Word
<1>1. a \in 1..P /\ b \in 1..P /\ P \in Nat /\ w \in Nat /\ 4 * P < w
  BY InverseOfModulus, HalfAndBound, WordNat DEF Elements
<1>3. MpAdd(a, b) = IF a + b > P THEN a + b - P ELSE a + b
  <2> DEFINE c == (P - (a + b)) % w
  <2>1. c = IF a + b > P THEN P - (a + b) + w ELSE P - (a + b)  BY <1>1
  <2>2. MpAdd(a, b) = (P - (c + (IF 2 * c >= w THEN P ELSE 0))) % w  BY DEF MpAdd, Correction
  <2> HIDE DEF c, w
  <2>3. CASE a + b > P
    <3>1. c = P - (a + b) + w /\ 2 * c >= w  BY <2>1, <2>3, <1>1
    <3>2. P - (c + P) = (a + b - P) - w  BY <3>1, <1>1
    <3>3. ((a + b - P) - w) % w = a + b - P  BY <2>3, <1>1
    <3> QED BY <2>2, <2>3, <3>1, <3>2, <3>3
  <2>4. CASE ~(a + b > P)
    <3>1. c = P - (a + b) /\ ~(2 * c >= w)  BY <2>1, <2>4, <1>1
    <3>2. P - (c + 0) = a + b  BY <3>1, <1>1
    <3>3. (a + b) % w = a + b  BY <2>4, <1>1
    <3> QED BY <2>2, <2>4, <3>1, <3>2, <3>3
  <2> QED BY <2>3, <2>4
<1>4. MpSub(a, b) = IF a > b THEN a - b ELSE a - b + P
  <2> DEFINE c == (b - a) % w
  <2>1. c = IF a > b THEN b - a + w ELSE b - a  BY <1>1
  <2>2. MpSub(a, b) = (P - (c + (IF 2 * c >= w THEN P ELSE 0))) % w  BY DEF MpSub, Correction
  <2> HIDE DEF c, w
  <2>3. CASE a > b
    <3>1. c = b - a + w /\ 2 * c >= w  BY <2>1, <2>3, <1>1
    <3>2. P - (c + P) = (a - b) - w  BY <3>1, <1>1
    <3>3. ((a - b) - w) % w = a - b  BY <2>3, <1>1
    <3> QED BY <2>2, <2>3, <3>1, <3>2, <3>3
  <2>4. CASE ~(a > b)
    <3>1. c = b - a /\ ~(2 * c >= w)  BY <2>1, <2>4, <1>1
    <3>2. P - (c + 0) = a - b + P  BY <3>1, <1>1
    <3>3. (a - b + P) % w = a - b + P  BY <2>4, <1>1
    <3> QED BY <2>2, <2>4, <3>1, <3>2, <3>3
  <2> QED BY <2>3, <2>4
<1> HIDE DEF w
<1>5. Congruent(MpAdd(a, b), a + b, P)
  <2>1. MpAdd(a, b) = (a + b) + (-1) * P \/ MpAdd(a, b) = (a + b) + 0 * P  BY <1>3, <1>1
  <2> QED BY <2>1 DEF Congruent
<1>6. Congruent(MpSub(a, b), a - b, P)
  <2>1. MpSub(a, b) = (a - b) + 0 * P \/ MpSub(a, b) = (a - b) + 1 * P  BY <1>4, <1>1
  <2> QED BY <2>1 DEF Congruent
<1> QED BY <1>1, <1>3, <1>4, <1>5, <1>6 DEF Elements

\* The high half of a product of two words, from the halves of both.
LEMMA HighOfProduct ==
  ASSUME NEW h \in Nat, h > 1, NEW x0 \in 0..(h - 1), NEW x1 \in Int,
         NEW p0 \in 0..(h - 1), NEW p1 \in Int
  PROVE  (((x1 * h + x0) * (p1 * h + p0)) % (h * h)) \div h
             = ((x0 * p0) \div h + x0 * p1 + x1 * p0) % h
<1> DEFINE m == x0 * p0  t == m \div h  r == m % h
<1>1. m \in Int /\ t \in Int /\ r \in 0..(h - 1) /\ m = h * t + r
  <2>1. m \in Int  OBVIOUS
  <2> HIDE DEF m
  <2> QED BY <2>1
<1> HIDE DEF m, t, r
<1> DEFINE n == t + x0 * p1 + x1 * p0   c == n \div h   y1 == n % h
<1>2. n \in Int  BY <1>1
<1>3. c \in Int /\ y1 \in 0..(h - 1) /\ n = h * c + y1
  <2> HIDE DEF n
  <2> QED BY <1>2
<1> HIDE DEF c, y1
<1> DEFINE k == x1 * p1 + c
<1>4. (x1 * h + x0) * (p1 * h + p0) = (h * y1 + r) + k * (h * h)
  <2>1. (x1 * h + x0) * (p1 * h + p0) = (x1 * p1) * (h * h) + h * (x0 * p1 + x1 * p0) + m
    BY DEF m
  <2>2. h * (x0 * p1 + x1 * p0) + m = h * n + r  BY <1>1
  <2>3. h * n = c * (h * h) + h * y1  BY <1>3
  <2>4. k * (h * h) = (x1 * p1) * (h * h) + c * (h * h)  BY <1>3
  <2> DEFINE A1 == (x1 * p1) * (h * h)   A2 == h * (x0 * p1 + x1 * p0)   A3 == h * n
             A4 == c * (h * h)   A5 == h * y1   A6 == k * (h * h)
             all == (x1 * h + x0) * (p1 * h + p0)
  <2>5. /\ m \in Int /\ r \in Int /\ A1 \in Int /\ A2 \in Int /\ A3 \in Int /\ A4 \in Int
        /\ A5 \in Int
    BY <1>1, <1>2, <1>3
  <2>6. all = A1 + A2 + m /\ A2 + m = A3 + r /\ A3 = A4 + A5 /\ A6 = A1 + A4
    BY <2>1, <2>2, <2>3, <2>4
  <2> HIDE DEF A1, A2, A3, A4, A5, A6, all
  <2>7. all = (A5 + r) + A6  BY <2>5, <2>6
  <2> QED BY <2>7 DEF all, A5, A6
<1>5. h * y1 + r \in 0..(h * h - 1)
  <2>1. h * y1 <= h * (h - 1) /\ h * y1 >= 0  BY <1>3
  <2>2. h * (h - 1) = h * h - h  OBVIOUS
  <2> QED BY <2>1, <2>2, <1>1, <1>3
<1>6. k \in Int /\ h * h \in Nat /\ h * h > 0  BY <1>3
<1> DEFINE s == h * y1 + r   w == h * h   z == s + k * w
<1>7. z % w = s
  <2>1. z \in Int /\ s \in 0..(w - 1) /\ w \in Nat /\ w > 0  BY <1>4, <1>5, <1>6
  <2>2. Congruent(s, z, w)
    <3> DEFINE e == -k
    <3>1. s = z + e * w /\ e \in Int  BY <1>6, <2>1
    <3> HIDE DEF e, s, z, w
    <3> QED BY <3>1 DEF Congruent
  <2> HIDE DEF s, w, z
  <2>3. z % w \in 0..(w - 1) /\ Congruent(z % w, z, w) /\ Congruent(z, z % w, w)  BY <2>1, ModCongruent
  <2>4. s \in Int /\ z % w \in Int /\ w \in Int  BY <2>1, <2>3
  <2>5. Congruent(s, z % w, w)  BY <2>1, <2>2, <2>3, <2>4, CongruentTrans
  <2> QED BY <2>1, <2>3, <2>5, RemainderUnique
<1>8. s \div h = y1
  <2>1. y1 \in Nat /\ r \in 0..(h - 1)  BY <1>1, <1>3
  <2> QED BY <2>1
<1>9. (((x1 * h + x0) * (p1 * h + p0)) % (h * h)) = s  BY <1>4, <1>7
<1> HIDE DEF s
<1>10. y1 = ((x0 * p0) \div h + x0 * p1 + x1 * p0) % h  BY DEF y1, n, t, m
<1> QED BY <1>8, <1>9, <1>10

\* The two halves of a word.
LEMMA Halves ==
  ASSUME NEW v \in Nat
  PROVE  /\ v = (v \div Half) * Half + (v % Half)
         /\ v % Half \in 0..(Half - 1) /\ v \div Half \in Int
<1>1. Half \in Nat /\ Half > 0  BY WordNat
<1> HIDE DEF Half
<1> QED BY <1>1

\* The AVX2 code reduces a word with 16-bit products only: the result is that of
\* mp_frommonty(), for every word.
THEOREM LaneFromMontyExact ==
  ASSUME NEW v \in 0..(Word - 1)
  PROVE  LaneFromMonty(v) = FromMonty(v)
<1> DEFINE x0 == v % Half  x1 == v \div Half  p0 == P1I % Half  p1 == P1I \div Half
<1>1. v \in Nat /\ P1I \in Nat  BY MontyAssumption, WordNat
<1>2. /\ v = x1 * Half + x0 /\ x0 \in 0..(Half - 1) /\ x1 \in Int
      /\ P1I = p1 * Half + p0 /\ p0 \in 0..(Half - 1) /\ p1 \in Int
  BY <1>1, Halves
<1>3. Half \in Nat /\ Half > 1 /\ Word = Half * Half  BY HalfAndBound, WordNat
<1> HIDE DEF x0, x1, p0, p1
<1>4. ((v * P1I) % Word) \div Half = ((x0 * p0) \div Half + x0 * p1 + x1 * p0) % Half
  <2> HIDE DEF Half
  <2>1. (((x1 * Half + x0) * (p1 * Half + p0)) % (Half * Half)) \div Half
           = ((x0 * p0) \div Half + x0 * p1 + x1 * p0) % Half
    BY <1>2, <1>3, HighOfProduct
  <2> QED BY <2>1, <1>2, <1>3
<1>5. LaneFromMonty(v) = 1 + ((((x0 * p0) \div Half + x0 * p1 + x1 * p0) % Half) * P) \div Half
  BY DEF LaneFromMonty, x0, x1, p0, p1
<1> QED BY <1>4, <1>5 DEF FromMonty

\* Additions, subtractions and negations of lanes, where comparisons are signed,
\* are those of words as long as the lanes hold elements.
THEOREM LaneAddSubExact ==
  ASSUME NEW a \in Elements, NEW b \in Elements
  PROVE  /\ LaneAdd(a, b) \in Elements /\ Congruent(LaneAdd(a, b), a + b, P)
         /\ LaneSub(a, b) \in Elements /\ Congruent(LaneSub(a, b), a - b, P)
         /\ LaneNeg(a) \in Elements /\ Congruent(LaneNeg(a), -a, P)
<1> DEFINE h == Half
<1>1. a \in 1..P /\ b \in 1..P /\ P \in Nat /\ h \in Nat /\ 4 * P < h
  BY InverseOfModulus, HalfAndBound DEF Elements
<1> HIDE DEF h
<1>2. Signed(a) = a /\ Signed(b) = b /\ Signed(a + b) = a + b
  BY <1>1 DEF Signed, h
<1>3. LaneAdd(a, b) = IF a + b > P THEN a + b - P ELSE a + b
  <2>1. (a + b) % h = a + b  BY <1>1
  <2>2. LaneAdd(a, b) = ((a + b) - (IF a + b > P THEN P ELSE 0)) % h
    BY <2>1, <1>2 DEF LaneAdd, h
  <2>3. CASE a + b > P
    <3>1. (a + b - P) % h = a + b - P  BY <2>3, <1>1
    <3> QED BY <2>2, <2>3, <3>1, <1>1
  <2>4. CASE ~(a + b > P)
    <3>1. (a + b - 0) % h = a + b  BY <2>4, <1>1
    <3> QED BY <2>2, <2>4, <3>1, <1>1
  <2> QED BY <2>3, <2>4
<1>4. LaneSub(a, b) = IF a > b THEN a - b ELSE a - b + P
  <2> DEFINE t == (a - b) % h
  <2>1. t = IF a >= b THEN a - b ELSE a - b + h  BY <1>1
  <2>2. LaneSub(a, b) = (t + (IF a > b THEN 0 ELSE P)) % h  BY <1>2 DEF LaneSub, h
  <2> HIDE DEF t
  <2>3. CASE a > b
    <3>1. (t + 0) % h = a - b  BY <2>1, <2>3, <1>1
    <3> QED BY <2>2, <2>3, <3>1
  <2>4. CASE a = b
    <3>1. (t + P) % h = a - b + P  BY <2>1, <2>4, <1>1
    <3> QED BY <2>2, <2>4, <3>1, <1>1
  <2>5. CASE a < b
    <3>1. t + P = (a - b + P) + h  BY <2>1, <2>5, <1>1
    <3>2. ((a - b + P) + h) % h = a - b + P  BY <2>5, <1>1
    <3> QED BY <2>2, <2>5, <3>1, <3>2, <1>1
  <2> QED BY <2>3, <2>4, <2>5, <1>1
<1>5. LaneNeg(a) = IF P > a THEN P - a ELSE P
  <2>1. (P - a) % h = P - a  BY <1>1
  <2>2. LaneNeg(a) = ((P - a) + (IF P > a THEN 0 ELSE P)) % h  BY <2>1, <1>2 DEF LaneNeg, h
  <2>3. CASE P > a
    <3>1. ((P - a) + 0) % h = P - a  BY <2>3, <1>1
    <3> QED BY <2>2, <2>3, <3>1
  <2>4. CASE ~(P > a)
    <3>1. ((P - a) + P) % h = P  BY <2>4, <1>1
    <3> QED BY <2>2, <2>4, <3>1
  <2> QED BY <2>3, <2>4
<1>6. Congruent(LaneAdd(a, b), a + b, P)
  <2>1. LaneAdd(a, b) = (a + b) + (-1) * P \/ LaneAdd(a, b) = (a + b) + 0 * P  BY <1>3, <1>1
  <2> QED BY <2>1 DEF Congruent
<1>7. Congruent(LaneSub(a, b), a - b, P)
  <2>1. LaneSub(a, b) = (a - b) + 0 * P \/ LaneSub(a, b) = (a - b) + 1 * P  BY <1>4, <1>1
  <2> QED BY <2>1 DEF Congruent
<1>8. Congruent(LaneNeg(a), -a, P)
  <2>1. LaneNeg(a) = (-a) + 1 * P \/ LaneNeg(a) = (-a) + 2 * P  BY <1>5, <1>1
  <2> QED BY <2>1 DEF Congruent
<1> QED BY <1>1, <1>3, <1>4, <1>5, <1>6, <1>7, <1>8 DEF Elements

\* A lane times a constant that was multiplied by -1/P beforehand, low and high
\* halves apart, is the Montgomery product.
THEOREM LaneMulConstExact ==
  ASSUME NEW a \in Elements, NEW k \in Elements
  PROVE  LaneMulConst(a, k) = MontyMul(a, k)
<1> DEFINE kp == (k * P1I) % Word   p0 == kp % Half   p1 == kp \div Half
<1>1. a \in 1..P /\ k \in Int /\ P \in Nat /\ P1I \in Int /\ 4 * P < Half /\ Half \in Nat /\ Half > 1
      /\ a * k \in 1..MaxOperand /\ a * k \in 0..(Word - 1) /\ a \in 0..(Half - 1)
      /\ Word = Half * Half /\ Word \in Nat /\ Word > 0
  BY ProductFits, InverseOfModulus, HalfAndBound, WordNat DEF Elements
<1> HIDE DEF kp
<1>2. kp \in Nat /\ Congruent(kp, k * P1I, Word)
  <2> DEFINE u == k * P1I
  <2>1. u \in Int  BY <1>1
  <2> HIDE DEF u
  <2>2. u % Word \in 0..(Word - 1) /\ Congruent(u % Word, u, Word)  BY <2>1, <1>1, ModCongruent
  <2> QED BY <2>2, <1>1 DEF kp, u
<1>3. kp = p1 * Half + p0 /\ p0 \in 0..(Half - 1) /\ p1 \in Int  BY <1>2, Halves
<1> HIDE DEF p0, p1
<1>4. (((0 * Half + a) * (p1 * Half + p0)) % (Half * Half)) \div Half
          = ((a * p0) \div Half + a * p1 + 0 * p0) % Half
  <2>1. Half \in Nat /\ Half > 1 /\ a \in 0..(Half - 1) /\ p0 \in 0..(Half - 1) /\ p1 \in Int
    BY <1>1, <1>3
  <2> HIDE DEF Half
  <2>2. ASSUME NEW x1 \in Int
        PROVE  (((x1 * Half + a) * (p1 * Half + p0)) % (Half * Half)) \div Half
                   = ((a * p0) \div Half + a * p1 + x1 * p0) % Half
    BY <2>1, HighOfProduct, Zenon
  <2>3. 0 \in Int  OBVIOUS
  <2> QED BY <2>2, <2>3, Zenon
<1>5. ((a * kp) % Word) \div Half = ((a * p0) \div Half + a * p1) % Half
  <2>1. 0 * Half + a = a /\ p1 * Half + p0 = kp  BY <1>1, <1>3
  <2>2. (a * p0) \div Half + a * p1 + 0 * p0 = (a * p0) \div Half + a * p1
    <3>1. (a * p0) \div Half \in Int /\ a * p1 \in Int /\ 0 * p0 = 0
      <4>1. a * p0 \in Int /\ a * p1 \in Int /\ 0 * p0 = 0  BY <1>1, <1>3
      <4> HIDE DEF Half
      <4> QED BY <4>1, <1>1
    <3> QED BY <3>1
  <2> QED BY <1>1, <1>4, <2>1, <2>2
<1>6. (a * kp) % Word = ((a * k) * P1I) % Word
  <2>1. Congruent(a * kp, a * (k * P1I), Word)
    <3>1. kp \in Int /\ k * P1I \in Int /\ a \in Int /\ Word \in Int  BY <1>1, <1>2
    <3> QED BY <3>1, <1>2, CongruentRefl, CongruentProduct
  <2>2. a * (k * P1I) = (a * k) * P1I  BY <1>1
  <2>3. a * kp \in Int /\ (a * k) * P1I \in Int  BY <1>1, <1>2
  <2> QED BY <2>1, <2>2, <2>3, <1>1, ModEqual
<1>7. (a * k) % Word = a * k  BY <1>1
<1> DEFINE y1 == ((a * p0) \div Half + a * p1) % Half
<1>8. LaneMulConst(a, k) = (1 + (y1 * P) \div Half) % Half  BY DEF LaneMulConst, kp, p0, p1
<1>9. MontyMul(a, k) = 1 + (y1 * P) \div Half  BY <1>5, <1>6, <1>7 DEF MontyMul, FromMonty
<1>10. MontyMul(a, k) \in 1..P  BY MontyMulExact DEF Elements
<1> HIDE DEF y1, Half
<1>11. (1 + (y1 * P) \div Half) % Half = 1 + (y1 * P) \div Half
  <2> DEFINE z == 1 + (y1 * P) \div Half
  <2>1. z \in 1..P  BY <1>9, <1>10
  <2> HIDE DEF z
  <2> QED BY <2>1, <1>1 DEF z
<1> QED BY <1>8, <1>9, <1>11

\* mp_tomonty() multiplies by a word, for every operand whose product is in range.
THEOREM ToMontyExact ==
  ASSUME NEW v \in Nat, (v + P) * R2 <= MaxOperand
  PROVE  ToMonty(v) \in Elements /\ Congruent(ToMonty(v) * Word, v * (Word * Word), P)
<1> DEFINE n == (v + P) * R2
<1>1. P \in Nat /\ P > 0 /\ R2 \in 1..P /\ Word \in Nat /\ Word > 0 /\ MaxOperand < Word
      /\ MaxOperand \in Int
  BY MontyAssumption, InverseOfModulus, HalfAndBound, WordNat
<1>2. n \in 1..MaxOperand
  <2>1. n \in Int  BY <1>1
  <2>2. (v + P) * 1 <= n  BY <1>1
  <2> QED BY <2>1, <2>2, <1>1
<1>3. n % Word = n  BY <1>1, <1>2
<1>4. Congruent(n, v * (Word * Word), P)
  <2> DEFINE e == R2 - Word * Word
  <2>1. e \in Int /\ e % P = 0  BY MontyAssumption, <1>1
  <2> HIDE DEF e
  <2>2. PICK k \in Int : e = k * P
    <3>1. Congruent(e, 0, P)  BY <2>1, <1>1, ModCongruent
    <3> QED BY <3>1, <1>1 DEF Congruent
  <2> DEFINE w == Word * Word
  <2>3. w \in Int /\ R2 = w + k * P  BY <2>2, <1>1 DEF e
  <2> HIDE DEF w
  <2> DEFINE j == v * k + R2
  <2>4. n = v * w + j * P /\ j \in Int  BY <2>3, <1>1
  <2> HIDE DEF j, n
  <2> QED BY <2>4 DEF Congruent, w
<1>5. ToMonty(v) = FromMonty(n)  BY <1>3 DEF ToMonty
<1>6. FromMonty(n) \in Elements /\ Congruent(FromMonty(n) * Word, n, P)
  <2> HIDE DEF n
  <2> QED BY <1>2, FromMontyExact
<1>7. n \in Int /\ v * (Word * Word) \in Int /\ FromMonty(n) * Word \in Int
  BY <1>1, <1>2, <1>6 DEF Elements
<1> HIDE DEF n
<1> QED BY <1>1, <1>4, <1>5, <1>6, <1>7, CongruentTrans
-----------------------------------------------------------------------------
(* Sums of 19 terms. *)

\* What has an integer in every degree.
Whole(f) == \A j \in Degrees : f[j] \in Int

\* Sums are integers.
LEMMA TotalInt == ASSUME NEW f, Whole(f) PROVE Total(f) \in Int
<1>1. \A j \in 0..18 : f[j] \in Int  BY DEF Whole, Degrees
<1> DEFINE f0 == f[0]   f1 == f[1]   f2 == f[2]   f3 == f[3]   f4 == f[4]   f5 == f[5]   f6 == f[6]
           f7 == f[7]   f8 == f[8]   f9 == f[9]   f10 == f[10]   f11 == f[11]   f12 == f[12]
           f13 == f[13]   f14 == f[14]   f15 == f[15]   f16 == f[16]   f17 == f[17]   f18 == f[18]
<1>2. /\ f0 \in Int /\ f1 \in Int /\ f2 \in Int /\ f3 \in Int /\ f4 \in Int /\ f5 \in Int /\ f6 \in Int
      /\ f7 \in Int /\ f8 \in Int /\ f9 \in Int /\ f10 \in Int /\ f11 \in Int /\ f12 \in Int
      /\ f13 \in Int /\ f14 \in Int /\ f15 \in Int /\ f16 \in Int /\ f17 \in Int /\ f18 \in Int
  BY <1>1
<1>3. Total(f) = f0 + f1 + f2 + f3 + f4 + f5 + f6
         + f7 + f8 + f9 + f10 + f11 + f12
         + f13 + f14 + f15 + f16 + f17 + f18
  BY DEF Total
<1> HIDE DEF f0, f1, f2, f3, f4, f5, f6, f7, f8, f9, f10, f11, f12, f13, f14, f15, f16, f17, f18
<1> QED BY <1>2, <1>3

\* Equal terms have equal sums.
LEMMA TotalSame ==
  ASSUME NEW f, NEW g, \A j \in Degrees : f[j] = g[j]
  PROVE  Total(f) = Total(g)
<1>1. \A j \in 0..18 : f[j] = g[j]  BY DEF Degrees
<1> QED BY <1>1 DEF Total

\* Sums are linear.
LEMMA TotalLinear ==
  ASSUME NEW f, NEW g, NEW h, NEW c \in Int, Whole(f), Whole(g),
         \A j \in Degrees : h[j] = f[j] + c * g[j]
  PROVE  Total(h) = Total(f) + c * Total(g)
<1>1. \A j \in 0..18 : f[j] \in Int /\ g[j] \in Int /\ h[j] = f[j] + c * g[j]
  BY DEF Whole, Degrees
<1> DEFINE f0 == f[0]   f1 == f[1]   f2 == f[2]   f3 == f[3]   f4 == f[4]   f5 == f[5]   f6 == f[6]
           f7 == f[7]   f8 == f[8]   f9 == f[9]   f10 == f[10]   f11 == f[11]   f12 == f[12]
           f13 == f[13]   f14 == f[14]   f15 == f[15]   f16 == f[16]   f17 == f[17]   f18 == f[18]
<1> DEFINE g0 == g[0]   g1 == g[1]   g2 == g[2]   g3 == g[3]   g4 == g[4]   g5 == g[5]   g6 == g[6]
           g7 == g[7]   g8 == g[8]   g9 == g[9]   g10 == g[10]   g11 == g[11]   g12 == g[12]
           g13 == g[13]   g14 == g[14]   g15 == g[15]   g16 == g[16]   g17 == g[17]   g18 == g[18]
<1>2. /\ f0 \in Int /\ f1 \in Int /\ f2 \in Int /\ f3 \in Int /\ f4 \in Int /\ f5 \in Int /\ f6 \in Int
      /\ f7 \in Int /\ f8 \in Int /\ f9 \in Int /\ f10 \in Int /\ f11 \in Int /\ f12 \in Int
      /\ f13 \in Int /\ f14 \in Int /\ f15 \in Int /\ f16 \in Int /\ f17 \in Int /\ f18 \in Int
      /\ g0 \in Int /\ g1 \in Int /\ g2 \in Int /\ g3 \in Int /\ g4 \in Int /\ g5 \in Int /\ g6 \in Int
      /\ g7 \in Int /\ g8 \in Int /\ g9 \in Int /\ g10 \in Int /\ g11 \in Int /\ g12 \in Int
      /\ g13 \in Int /\ g14 \in Int /\ g15 \in Int /\ g16 \in Int /\ g17 \in Int /\ g18 \in Int
  BY <1>1
<1>3. /\ Total(f) = f0 + f1 + f2 + f3 + f4 + f5 + f6
         + f7 + f8 + f9 + f10 + f11 + f12
         + f13 + f14 + f15 + f16 + f17 + f18
      /\ Total(g) = g0 + g1 + g2 + g3 + g4 + g5 + g6
         + g7 + g8 + g9 + g10 + g11 + g12
         + g13 + g14 + g15 + g16 + g17 + g18
      /\ Total(h) = (f0 + c * g0) + (f1 + c * g1) + (f2 + c * g2) + (f3 + c * g3) + (f4 + c * g4) + (f5 + c * g5) + (f6 + c * g6)
         + (f7 + c * g7) + (f8 + c * g8) + (f9 + c * g9) + (f10 + c * g10) + (f11 + c * g11) + (f12 + c * g12)
         + (f13 + c * g13) + (f14 + c * g14) + (f15 + c * g15) + (f16 + c * g16) + (f17 + c * g17) + (f18 + c * g18)
  BY <1>1 DEF Total
<1> HIDE DEF f0, f1, f2, f3, f4, f5, f6, f7, f8, f9, f10, f11, f12, f13, f14, f15, f16, f17, f18,
             g0, g1, g2, g3, g4, g5, g6, g7, g8, g9, g10, g11, g12, g13, g14, g15, g16, g17, g18
<1> QED BY <1>2, <1>3

\* Terms move down one degree.
LEMMA TotalNext ==
  ASSUME NEW f, NEW g, Whole(f), f[0] = 0,
         \A j \in Degrees : g[j] = IF j < 18 THEN f[j + 1] ELSE 0
  PROVE  Total(f) = Total(g)
<1>1. \A j \in 0..18 : f[j] \in Int /\ g[j] = IF j < 18 THEN f[j + 1] ELSE 0
  BY DEF Whole, Degrees
<1> DEFINE f0 == f[0]   f1 == f[1]   f2 == f[2]   f3 == f[3]   f4 == f[4]   f5 == f[5]   f6 == f[6]
           f7 == f[7]   f8 == f[8]   f9 == f[9]   f10 == f[10]   f11 == f[11]   f12 == f[12]
           f13 == f[13]   f14 == f[14]   f15 == f[15]   f16 == f[16]   f17 == f[17]   f18 == f[18]
<1>2. /\ f0 \in Int /\ f1 \in Int /\ f2 \in Int /\ f3 \in Int /\ f4 \in Int /\ f5 \in Int /\ f6 \in Int
      /\ f7 \in Int /\ f8 \in Int /\ f9 \in Int /\ f10 \in Int /\ f11 \in Int /\ f12 \in Int
      /\ f13 \in Int /\ f14 \in Int /\ f15 \in Int /\ f16 \in Int /\ f17 \in Int /\ f18 \in Int
  BY <1>1
<1>3. /\ Total(f) = f0 + f1 + f2 + f3 + f4 + f5 + f6
         + f7 + f8 + f9 + f10 + f11 + f12
         + f13 + f14 + f15 + f16 + f17 + f18
      /\ Total(g) = f1 + f2 + f3 + f4 + f5 + f6 + f7
         + f8 + f9 + f10 + f11 + f12 + f13
         + f14 + f15 + f16 + f17 + f18 + 0
      /\ f0 = 0
  <2>1. g[0] = f1 /\ g[1] = f2 /\ g[2] = f3 /\ g[3] = f4 /\ g[4] = f5 /\ g[5] = f6 /\ g[6] = f7 /\ g[7] = f8 /\ g[8] = f9
    BY <1>1
  <2>2. g[9] = f10 /\ g[10] = f11 /\ g[11] = f12 /\ g[12] = f13 /\ g[13] = f14 /\ g[14] = f15 /\ g[15] = f16 /\ g[16] = f17 /\ g[17] = f18 /\ g[18] = 0
    BY <1>1
  <2> QED BY <2>1, <2>2 DEF Total
<1> HIDE DEF f0, f1, f2, f3, f4, f5, f6, f7, f8, f9, f10, f11, f12, f13, f14, f15, f16, f17, f18
<1> QED BY <1>2, <1>3

\* Terms in the opposite order.
LEMMA TotalReversed ==
  ASSUME NEW f, NEW g, Whole(f), \A j \in Degrees : g[j] = f[18 - j]
  PROVE  Total(f) = Total(g)
<1>1. \A j \in 0..18 : f[j] \in Int /\ g[j] = f[18 - j]  BY DEF Whole, Degrees
<1> DEFINE f0 == f[0]   f1 == f[1]   f2 == f[2]   f3 == f[3]   f4 == f[4]   f5 == f[5]   f6 == f[6]
           f7 == f[7]   f8 == f[8]   f9 == f[9]   f10 == f[10]   f11 == f[11]   f12 == f[12]
           f13 == f[13]   f14 == f[14]   f15 == f[15]   f16 == f[16]   f17 == f[17]   f18 == f[18]
<1>2. /\ f0 \in Int /\ f1 \in Int /\ f2 \in Int /\ f3 \in Int /\ f4 \in Int /\ f5 \in Int /\ f6 \in Int
      /\ f7 \in Int /\ f8 \in Int /\ f9 \in Int /\ f10 \in Int /\ f11 \in Int /\ f12 \in Int
      /\ f13 \in Int /\ f14 \in Int /\ f15 \in Int /\ f16 \in Int /\ f17 \in Int /\ f18 \in Int
  BY <1>1
<1>3. /\ Total(f) = f0 + f1 + f2 + f3 + f4 + f5 + f6
         + f7 + f8 + f9 + f10 + f11 + f12
         + f13 + f14 + f15 + f16 + f17 + f18
      /\ Total(g) = f18 + f17 + f16 + f15 + f14 + f13 + f12
         + f11 + f10 + f9 + f8 + f7 + f6
         + f5 + f4 + f3 + f2 + f1 + f0
  <2>1. g[0] = f18 /\ g[1] = f17 /\ g[2] = f16 /\ g[3] = f15 /\ g[4] = f14 /\ g[5] = f13 /\ g[6] = f12 /\ g[7] = f11 /\ g[8] = f10
    BY <1>1
  <2>2. g[9] = f9 /\ g[10] = f8 /\ g[11] = f7 /\ g[12] = f6 /\ g[13] = f5 /\ g[14] = f4 /\ g[15] = f3 /\ g[16] = f2 /\ g[17] = f1 /\ g[18] = f0
    BY <1>1
  <2> QED BY <2>1, <2>2 DEF Total
<1> HIDE DEF f0, f1, f2, f3, f4, f5, f6, f7, f8, f9, f10, f11, f12, f13, f14, f15, f16, f17, f18
<1> QED BY <1>2, <1>3

\* A sum of 19 terms, all doubled but the first.
LEMMA TotalBounds ==
  ASSUME NEW f, NEW q \in Int, f[0] \in 1..q, \A j \in Degrees : f[j] \in 1..(2 * q)
  PROVE  Total(f) \in 1..(37 * q)
<1>1. f[0] \in Int /\ 1 <= f[0] /\ f[0] <= q
      /\ \A j \in 0..18 : f[j] \in Int /\ 1 <= f[j] /\ f[j] <= 2 * q
  BY DEF Degrees
<1> DEFINE f0 == f[0]   f1 == f[1]   f2 == f[2]   f3 == f[3]   f4 == f[4]   f5 == f[5]   f6 == f[6]
           f7 == f[7]   f8 == f[8]   f9 == f[9]   f10 == f[10]   f11 == f[11]   f12 == f[12]
           f13 == f[13]   f14 == f[14]   f15 == f[15]   f16 == f[16]   f17 == f[17]   f18 == f[18]
<1>2. /\ f0 \in Int /\ f1 \in Int /\ f2 \in Int /\ f3 \in Int /\ f4 \in Int /\ f5 \in Int /\ f6 \in Int
      /\ f7 \in Int /\ f8 \in Int /\ f9 \in Int /\ f10 \in Int /\ f11 \in Int /\ f12 \in Int
      /\ f13 \in Int /\ f14 \in Int /\ f15 \in Int /\ f16 \in Int /\ f17 \in Int /\ f18 \in Int
  BY <1>1
<1>3. /\ 1 <= f0 /\ f0 <= q /\ 1 <= f1 /\ f1 <= 2 * q /\ 1 <= f2 /\ f2 <= 2 * q /\ 1 <= f3 /\ f3 <= 2 * q /\ 1 <= f4 /\ f4 <= 2 * q
      /\ 1 <= f5 /\ f5 <= 2 * q /\ 1 <= f6 /\ f6 <= 2 * q /\ 1 <= f7 /\ f7 <= 2 * q /\ 1 <= f8 /\ f8 <= 2 * q /\ 1 <= f9 /\ f9 <= 2 * q
      /\ 1 <= f10 /\ f10 <= 2 * q /\ 1 <= f11 /\ f11 <= 2 * q /\ 1 <= f12 /\ f12 <= 2 * q /\ 1 <= f13 /\ f13 <= 2 * q /\ 1 <= f14 /\ f14 <= 2 * q
      /\ 1 <= f15 /\ f15 <= 2 * q /\ 1 <= f16 /\ f16 <= 2 * q /\ 1 <= f17 /\ f17 <= 2 * q /\ 1 <= f18 /\ f18 <= 2 * q
  BY <1>1
<1>4. Total(f) = f0 + f1 + f2 + f3 + f4 + f5 + f6
         + f7 + f8 + f9 + f10 + f11 + f12
         + f13 + f14 + f15 + f16 + f17 + f18
  BY DEF Total
<1> HIDE DEF f0, f1, f2, f3, f4, f5, f6, f7, f8, f9, f10, f11, f12, f13, f14, f15, f16, f17, f18
<1> QED BY <1>2, <1>3, <1>4

\* Terms move down by n degrees, when nothing falls.
LEMMA TotalShift ==
  ASSUME NEW f, NEW g, Whole(f), NEW n \in Degrees, \A j \in Degrees : j < n => f[j] = 0,
         \A j \in Degrees : g[j] = IF j + n \in Degrees THEN f[j + n] ELSE 0
  PROVE  Total(f) = Total(g)
<1> DEFINE G(k) == [j \in Degrees |-> IF j + k \in Degrees THEN f[j + k] ELSE 0]
           S == {k \in 0..n : Total(G(k)) = Total(f)}
<1>1. n \in 0..18 /\ n \in Nat /\ Degrees = 0..18  BY DEF Degrees
<1>2. 0 \in S
  <2>1. \A j \in Degrees : G(0)[j] = f[j]  BY <1>1
  <2> HIDE DEF G
  <2>2. Total(G(0)) = Total(f)  BY <2>1, TotalSame
  <2> QED BY <1>1, <2>2
<1>3. ASSUME NEW k \in 0..(n - 1), k \in S PROVE k + 1 \in S
  <2>1. Whole(G(k))  BY <1>1 DEF Whole
  <2>2. G(k)[0] = 0
    <3>1. k < n /\ k \in Degrees /\ 0 \in Degrees /\ 0 + k = k  BY <1>1
    <3> QED BY <3>1
  <2>3. \A j \in Degrees : G(k + 1)[j] = IF j < 18 THEN G(k)[j + 1] ELSE 0
    <3> SUFFICES ASSUME NEW j \in Degrees PROVE G(k + 1)[j] = IF j < 18 THEN G(k)[j + 1] ELSE 0
      OBVIOUS
    <3>1. j + (k + 1) = (j + 1) + k /\ j \in 0..18 /\ k \in 0..17  BY <1>1
    <3>2. CASE j < 18
      <4>1. j + 1 \in Degrees  BY <1>1, <3>1, <3>2
      <4> QED BY <3>1, <3>2, <4>1
    <3>3. CASE ~(j < 18)
      <4>1. j + (k + 1) \notin Degrees  BY <1>1, <3>1, <3>3
      <4> QED BY <3>3, <4>1
    <3> QED BY <3>2, <3>3
  <2> HIDE DEF G
  <2>4. Total(G(k)) = Total(G(k + 1))  BY <2>1, <2>2, <2>3, TotalNext
  <2>5. k + 1 \in 0..n  BY <1>1
  <2> QED BY <1>3, <2>4, <2>5
<1>4. n \in S
  <2> HIDE DEF S
  <2>1. \A k \in 0..n : k \in S  BY <1>1, <1>2, <1>3, UpTo
  <2> QED BY <1>1, <2>1
<1>5. \A j \in Degrees : G(n)[j] = g[j]  OBVIOUS
<1> HIDE DEF G
<1>6. Total(G(n)) = Total(g)  BY <1>5, TotalSame
<1> QED BY <1>4, <1>6

\* The degrees j and d - j are exchanged.
LEMMA TotalMirror ==
  ASSUME NEW f, NEW g, Whole(f), NEW d \in 0..36,
         \A j \in Degrees : d - j \notin Degrees => f[j] = 0,
         \A j \in Degrees : g[j] = IF d - j \in Degrees THEN f[d - j] ELSE 0
  PROVE  Total(f) = Total(g)
<1> DEFINE r == [j \in Degrees |-> f[18 - j]]
<1>1. Degrees = 0..18  BY DEF Degrees
<1>2. \A j \in Degrees : r[j] = f[18 - j] /\ 18 - j \in Degrees  BY <1>1
<1> HIDE DEF r
<1>3. Total(f) = Total(r)  BY <1>2, TotalReversed
<1>4. Whole(r)  BY <1>2 DEF Whole
<1>5. Whole(g)  BY DEF Whole
<1>6. CASE d <= 18
  <2> DEFINE n == 18 - d
  <2>1. n \in Degrees  BY <1>1, <1>6
  <2>2. \A j \in Degrees : j < n => r[j] = 0
    <3> SUFFICES ASSUME NEW j \in Degrees, j < n PROVE r[j] = 0  OBVIOUS
    <3>1. d - (18 - j) \notin Degrees /\ 18 - j \in Degrees  BY <1>1, <1>6
    <3> QED BY <3>1, <1>2
  <2>3. \A j \in Degrees : g[j] = IF j + n \in Degrees THEN r[j + n] ELSE 0
    <3> SUFFICES ASSUME NEW j \in Degrees PROVE g[j] = IF j + n \in Degrees THEN r[j + n] ELSE 0
      OBVIOUS
    <3>1. (j + n \in Degrees <=> d - j \in Degrees) /\ 18 - (j + n) = d - j  BY <1>1, <1>6
    <3> QED BY <3>1, <1>2
  <2> HIDE DEF n
  <2> QED BY <1>3, <1>4, <2>1, <2>2, <2>3, TotalShift
<1>7. CASE d > 18
  <2> DEFINE n == d - 18
  <2>1. n \in Degrees  BY <1>1, <1>7
  <2>2. \A j \in Degrees : j < n => g[j] = 0
    <3> SUFFICES ASSUME NEW j \in Degrees, j < n PROVE g[j] = 0  OBVIOUS
    <3>1. d - j \notin Degrees  BY <1>1, <1>7
    <3> QED BY <3>1
  <2>3. \A j \in Degrees : r[j] = IF j + n \in Degrees THEN g[j + n] ELSE 0
    <3> SUFFICES ASSUME NEW j \in Degrees PROVE r[j] = IF j + n \in Degrees THEN g[j + n] ELSE 0
      OBVIOUS
    <3>1. d - (j + n) = 18 - j /\ 18 - j \in Degrees  BY <1>1, <1>7
    <3>2. CASE j + n \in Degrees
      BY <3>1, <3>2, <1>2
    <3>3. CASE j + n \notin Degrees
      <4>1. d - (18 - j) \notin Degrees  BY <1>1, <1>7, <3>3
      <4> QED BY <3>1, <3>3, <4>1, <1>2
    <3> QED BY <3>2, <3>3
  <2> HIDE DEF n
  <2> QED BY <1>3, <1>5, <2>1, <2>2, <2>3, TotalShift
<1> QED BY <1>6, <1>7

\* One term.
LEMMA TotalSingle ==
  ASSUME NEW f, Whole(f), NEW n \in Degrees, \A j \in Degrees : j # n => f[j] = 0
  PROVE  Total(f) = f[n]
<1> DEFINE g == [j \in Degrees |-> IF j + n \in Degrees THEN f[j + n] ELSE 0]
<1>1. \A j \in Degrees : g[j] = IF j + n \in Degrees THEN f[j + n] ELSE 0  OBVIOUS
<1>2. Degrees = 0..18 /\ n \in 0..18 /\ f[n] \in Int  BY DEF Degrees, Whole
<1>3. \A j \in 1..18 : g[j] = 0
  <2> SUFFICES ASSUME NEW j \in 1..18 PROVE g[j] = 0  OBVIOUS
  <2>1. j \in Degrees /\ j + n # n  BY <1>2
  <2> QED BY <1>1, <2>1
<1>4. g[0] = f[n]
  <2>1. 0 \in Degrees /\ 0 + n = n  BY <1>2
  <2> QED BY <1>1, <2>1
<1>5. \A j \in Degrees : j < n => f[j] = 0  BY <1>2
<1> HIDE DEF g
<1>6. Total(f) = Total(g)  BY <1>1, <1>5, TotalShift
<1> DEFINE e == f[n]
<1>7. e \in Int /\ g[0] = e  BY <1>2, <1>4
<1> HIDE DEF e
<1>8. Total(g) = e + 0 + 0 + 0 + 0 + 0 + 0 + 0 + 0 + 0 + 0 + 0 + 0 + 0 + 0 + 0 + 0 + 0 + 0
  BY <1>3, <1>7 DEF Total
<1>9. Total(g) = e  BY <1>7, <1>8
<1> QED BY <1>6, <1>9 DEF e

\* Congruent terms have congruent sums.
LEMMA TotalCongruent ==
  ASSUME NEW f, NEW g, NEW m \in Int, Whole(f), Whole(g),
         \A j \in Degrees : Congruent(f[j], g[j], m)
  PROVE  Congruent(Total(f), Total(g), m)
<1> DEFINE q == [j \in Degrees |-> CHOOSE k \in Int : f[j] = g[j] + k * m]
<1>1. \A j \in Degrees : q[j] \in Int /\ f[j] = g[j] + m * q[j]
  <2> SUFFICES ASSUME NEW j \in Degrees PROVE q[j] \in Int /\ f[j] = g[j] + m * q[j]
    OBVIOUS
  <2>1. \E k \in Int : f[j] = g[j] + k * m  BY DEF Congruent
  <2>2. q[j] \in Int /\ f[j] = g[j] + q[j] * m  BY <2>1
  <2> HIDE DEF q
  <2>3. q[j] * m = m * q[j]  BY <2>2
  <2> QED BY <2>2, <2>3
<1> HIDE DEF q
<1>2. Whole(q)  BY <1>1 DEF Whole
<1>3. Total(f) = Total(g) + m * Total(q)  BY <1>1, <1>2, TotalLinear
<1>4. Total(g) \in Int /\ Total(q) \in Int  BY <1>2, TotalInt
<1> DEFINE t == Total(q)   u == Total(g)
<1> HIDE DEF t, u
<1>5. m * t = t * m /\ t \in Int  BY <1>4 DEF t
<1> QED BY <1>3, <1>5 DEF Congruent, t, u
-----------------------------------------------------------------------------
(* Products of polynomials. *)

\* a polynomial, that has no term of another degree
At(a, i) == IF i \in Degrees THEN a[i] ELSE 0

\* the term of degree d of a product, before the reduction modulo z^19 - 2
Diag(a, b, d) == Total([j \in Degrees |-> a[j] * At(b, d - j)])

\* Coefficients outside the degrees are zero, so all are integers.
LEMMA AtInt == ASSUME NEW a, Whole(a) PROVE \A i : At(a, i) \in Int
BY DEF At, Whole

\* The coefficient of degree d of a product, not reduced, is an integer.
LEMMA DiagInt == ASSUME NEW a, NEW b, Whole(a), Whole(b), NEW d \in Int
                 PROVE  Diag(a, b, d) \in Int
<1> DEFINE f == [j \in Degrees |-> a[j] * At(b, d - j)]
<1>1. Whole(f)
  <2> SUFFICES ASSUME NEW j \in Degrees PROVE f[j] \in Int  BY DEF Whole
  <2>1. a[j] \in Int /\ At(b, d - j) \in Int  BY AtInt DEF Whole
  <2> QED BY <2>1
<1> HIDE DEF f
<1>2. Total(f) \in Int  BY <1>1, TotalInt
<1> QED BY <1>2 DEF f, Diag

\* A sum of nothing.
LEMMA TotalZero == ASSUME NEW f, \A j \in Degrees : f[j] = 0 PROVE Total(f) = 0
<1>1. \A j \in 0..18 : f[j] = 0  BY DEF Degrees
<1> QED BY <1>1 DEF Total

\* A product has degrees 0 to 36.
LEMMA DiagOutside ==
  ASSUME NEW a, NEW b, Whole(a), NEW d \in Int, d \notin 0..36
  PROVE  Diag(a, b, d) = 0
<1> DEFINE f == [j \in Degrees |-> a[j] * At(b, d - j)]
<1>1. \A j \in Degrees : f[j] = 0
  <2> SUFFICES ASSUME NEW j \in Degrees PROVE f[j] = 0  OBVIOUS
  <2>1. d - j \notin Degrees /\ a[j] \in Int  BY DEF Degrees, Whole
  <2>2. f[j] = a[j] * 0  BY <2>1 DEF At
  <2> QED BY <2>1, <2>2
<1> HIDE DEF f
<1>2. Total(f) = 0  BY <1>1, TotalZero
<1> QED BY <1>2 DEF f, Diag

\* The product is commutative.
LEMMA DiagSwap ==
  ASSUME NEW a, NEW b, Whole(a), Whole(b), NEW d \in Int
  PROVE  Diag(a, b, d) = Diag(b, a, d)
<1>1. CASE d \notin 0..36
  BY <1>1, DiagOutside
<1>2. CASE d \in 0..36
  <2> DEFINE f == [j \in Degrees |-> a[j] * At(b, d - j)]
             g == [j \in Degrees |-> b[j] * At(a, d - j)]
  <2>1. Whole(f)
    <3> SUFFICES ASSUME NEW j \in Degrees PROVE f[j] \in Int  BY DEF Whole
    <3>1. a[j] \in Int /\ At(b, d - j) \in Int  BY AtInt DEF Whole
    <3> QED BY <3>1
  <2>2. \A j \in Degrees : d - j \notin Degrees => f[j] = 0
    <3> SUFFICES ASSUME NEW j \in Degrees, d - j \notin Degrees PROVE f[j] = 0  OBVIOUS
    <3>1. f[j] = a[j] * 0 /\ a[j] \in Int  BY DEF At, Whole
    <3> QED BY <3>1
  <2>3. \A j \in Degrees : g[j] = IF d - j \in Degrees THEN f[d - j] ELSE 0
    <3> SUFFICES ASSUME NEW j \in Degrees
                 PROVE  g[j] = IF d - j \in Degrees THEN f[d - j] ELSE 0
      OBVIOUS
    <3>1. b[j] \in Int  BY DEF Whole
    <3>2. CASE d - j \in Degrees
      <4>1. f[d - j] = a[d - j] * At(b, d - (d - j)) /\ d - (d - j) = j  BY <3>2, <1>2 DEF Degrees
      <4>2. f[d - j] = a[d - j] * b[j]  BY <4>1 DEF At
      <4>3. g[j] = b[j] * a[d - j]  BY <3>2 DEF At
      <4>4. a[d - j] \in Int  BY <3>2 DEF Whole
      <4> HIDE DEF f, g
      <4> QED BY <3>1, <3>2, <4>2, <4>3, <4>4
    <3>3. CASE d - j \notin Degrees
      <4>1. g[j] = b[j] * 0  BY <3>3 DEF At
      <4> QED BY <3>1, <3>3, <4>1
    <3> QED BY <3>2, <3>3
  <2> HIDE DEF f, g
  <2>4. Total(f) = Total(g)  BY <1>2, <2>1, <2>2, <2>3, TotalMirror
  <2> QED BY <2>4 DEF f, g, Diag
<1> QED BY <1>1, <1>2

\* Modulo z^19 - 2, a term of degree i + 19 counts twice in degree i.
LEMMA ConvolutionIs ==
  ASSUME NEW a, NEW b, Whole(a), Whole(b), NEW i \in Degrees
  PROVE  Ring!Convolution(a, b, i) = Diag(a, b, i) + 2 * Diag(a, b, i + 19)
<1> DEFINE f == [j \in Degrees |-> a[j] * At(b, i - j)]
           g == [j \in Degrees |-> a[j] * At(b, (i + 19) - j)]
           h == [j \in Degrees |-> a[j] * (IF j <= i THEN b[i - j] ELSE 2 * b[i + 19 - j])]
<1>1. \A j \in Degrees : f[j] \in Int /\ g[j] \in Int /\ h[j] = f[j] + 2 * g[j]
  <2> SUFFICES ASSUME NEW j \in Degrees
               PROVE  f[j] \in Int /\ g[j] \in Int /\ h[j] = f[j] + 2 * g[j]
    OBVIOUS
  <2>1. a[j] \in Int /\ i \in 0..18 /\ j \in 0..18  BY DEF Whole, Degrees
  <2>2. CASE j <= i
    <3>1. i - j \in Degrees /\ (i + 19) - j \notin Degrees  BY <2>1, <2>2 DEF Degrees
    <3>2. b[i - j] \in Int  BY <3>1 DEF Whole
    <3>3. f[j] = a[j] * b[i - j] /\ g[j] = a[j] * 0 /\ h[j] = a[j] * b[i - j]
      BY <2>2, <3>1 DEF At
    <3> HIDE DEF f, g, h
    <3> QED BY <2>1, <3>2, <3>3
  <2>3. CASE ~(j <= i)
    <3>1. i - j \notin Degrees /\ (i + 19) - j \in Degrees /\ (i + 19) - j = i + 19 - j
      BY <2>1, <2>3 DEF Degrees
    <3>2. b[i + 19 - j] \in Int  BY <3>1 DEF Whole
    <3>3. f[j] = a[j] * 0 /\ g[j] = a[j] * b[i + 19 - j] /\ h[j] = a[j] * (2 * b[i + 19 - j])
      BY <2>3, <3>1 DEF At
    <3> HIDE DEF f, g, h
    <3>4. a[j] * (2 * b[i + 19 - j]) = 2 * (a[j] * b[i + 19 - j])  BY <2>1, <3>2
    <3> QED BY <2>1, <3>2, <3>3, <3>4
  <2> QED BY <2>2, <2>3
<1> HIDE DEF f, g, h
<1>2. Whole(f) /\ Whole(g)  BY <1>1 DEF Whole
<1>3. Total(h) = Total(f) + 2 * Total(g)  BY <1>1, <1>2, TotalLinear
<1>4. Ring!Convolution(a, b, i) = Total(h)
  BY DEF Ring!Convolution, Ring!Total, Ring!Degrees, Total, Degrees, h
<1>5. Diag(a, b, i) = Total(f) /\ Diag(a, b, i + 19) = Total(g)  BY DEF Diag, f, g
<1> QED BY <1>3, <1>4, <1>5

\* The product of the ring does not depend on the order of the factors.
LEMMA ConvolutionSwap ==
  ASSUME NEW a, NEW b, Whole(a), Whole(b), NEW i \in Degrees
  PROVE  /\ Ring!Convolution(a, b, i) = Ring!Convolution(b, a, i)
         /\ Ring!Convolution(a, b, i) \in Int
<1>1. i \in Int /\ i + 19 \in Int  BY DEF Degrees
<1>2. Diag(a, b, i) = Diag(b, a, i) /\ Diag(a, b, i + 19) = Diag(b, a, i + 19)
  BY <1>1, DiagSwap
<1>3. Diag(a, b, i) \in Int /\ Diag(a, b, i + 19) \in Int  BY <1>1, DiagInt
<1> QED BY <1>2, <1>3, ConvolutionIs
-----------------------------------------------------------------------------
(* Products by halves of polynomials, of ten and of nine terms. *)

\* degree e in the product of two halves, that start at degrees o and p
QuadTerms(a, b, o, p, e) ==
    [j \in Degrees |-> IF j \in 0..9 /\ e - j \in 0..9 THEN At(a, o + j) * At(b, p + (e - j)) ELSE 0]
Quad(a, b, o, p, e) == Total(QuadTerms(a, b, o, p, e))

\* Part of a diagonal, where both factors are in one of their halves.
LEMMA QuadWhole ==
  ASSUME NEW a, NEW b, Whole(a), Whole(b), NEW o, NEW p, NEW e
  PROVE  Whole(QuadTerms(a, b, o, p, e)) /\ Quad(a, b, o, p, e) \in Int
<1>1. Whole(QuadTerms(a, b, o, p, e))
  <2> SUFFICES ASSUME NEW j \in Degrees PROVE QuadTerms(a, b, o, p, e)[j] \in Int
    BY DEF Whole
  <2>1. At(a, o + j) \in Int /\ At(b, p + (e - j)) \in Int  BY AtInt
  <2> QED BY <2>1 DEF QuadTerms
<1> QED BY <1>1, TotalInt DEF Quad

\* There are ten terms in each half, of which the last of the higher half is zero.
LEMMA QuadZero ==
  ASSUME NEW a, NEW b, Whole(a), Whole(b), NEW o \in {0, 10}, NEW p \in {0, 10}, NEW e \in Int,
         \/ e < 0 \/ e > 18
         \/ e = 18 /\ (o = 10 \/ p = 10)
         \/ e = 17 /\ o = 10 /\ p = 10
  PROVE  Quad(a, b, o, p, e) = 0
<1> DEFINE f == QuadTerms(a, b, o, p, e)
<1>1. \A j \in Degrees : f[j] = 0
  <2> SUFFICES ASSUME NEW j \in Degrees, j \in 0..9, e - j \in 0..9
               PROVE  At(a, o + j) * At(b, p + (e - j)) = 0
    BY DEF QuadTerms
  <2>1. At(a, o + j) \in Int /\ At(b, p + (e - j)) \in Int  BY AtInt
  <2>2. o + j = 19 \/ p + (e - j) = 19
    OBVIOUS
  <2>3. At(a, o + j) = 0 \/ At(b, p + (e - j)) = 0  BY <2>2 DEF At, Degrees
  <2> DEFINE u == At(a, o + j)   v == At(b, p + (e - j))
  <2>4. u \in Int /\ v \in Int /\ (u = 0 \/ v = 0)  BY <2>1, <2>3
  <2> HIDE DEF u, v
  <2>5. u * v = 0  BY <2>4
  <2> QED BY <2>5 DEF u, v
<1> HIDE DEF f
<1>2. Total(f) = 0  BY <1>1, TotalZero
<1> QED BY <1>2 DEF f, Quad

\* The sum of four families is the sum of their sums.
LEMMA TotalFour ==
  ASSUME NEW f1, NEW f2, NEW f3, NEW f4, NEW h, Whole(f1), Whole(f2), Whole(f3), Whole(f4),
         \A j \in Degrees : h[j] = f1[j] + f2[j] + f3[j] + f4[j]
  PROVE  Total(h) = Total(f1) + Total(f2) + Total(f3) + Total(f4)
<1> DEFINE g2 == [j \in Degrees |-> f1[j] + f2[j]]
           g3 == [j \in Degrees |-> f1[j] + f2[j] + f3[j]]
<1>1. \A j \in Degrees : /\ f1[j] \in Int /\ f2[j] \in Int /\ f3[j] \in Int /\ f4[j] \in Int
                         /\ g2[j] = f1[j] + f2[j] /\ g3[j] = f1[j] + f2[j] + f3[j]
  BY DEF Whole
<1> HIDE DEF g2, g3
<1>2. \A j \in Degrees : /\ g2[j] = f1[j] + 1 * f2[j] /\ g2[j] \in Int
                         /\ g3[j] = g2[j] + 1 * f3[j] /\ g3[j] \in Int
                         /\ h[j] = g3[j] + 1 * f4[j]
  BY <1>1
<1>3. Whole(g2) /\ Whole(g3)  BY <1>2 DEF Whole
<1>4. Total(g2) = Total(f1) + 1 * Total(f2)  BY <1>2, TotalLinear
<1>5. Total(g3) = Total(g2) + 1 * Total(f3)  BY <1>2, <1>3, TotalLinear
<1>6. Total(h) = Total(g3) + 1 * Total(f4)  BY <1>2, <1>3, TotalLinear
<1>7. Total(f1) \in Int /\ Total(f2) \in Int /\ Total(f3) \in Int /\ Total(f4) \in Int
      /\ Total(g2) \in Int /\ Total(g3) \in Int
  BY <1>3, TotalInt
<1> QED BY <1>4, <1>5, <1>6, <1>7

\* A term of the product is a sum over the four pairs of halves.
LEMMA DiagQuads ==
  ASSUME NEW a, NEW b, Whole(a), Whole(b), NEW d \in Int
  PROVE  Diag(a, b, d) = Quad(a, b, 0, 0, d) + Quad(a, b, 10, 0, d - 10)
                         + Quad(a, b, 0, 10, d - 10) + Quad(a, b, 10, 10, d - 20)
<1> DEFINE term(j) == a[j] * At(b, d - j)
           f1 == [j \in Degrees |-> IF j < 10 /\ d - j \in 0..9 THEN term(j) ELSE 0]
           f2 == [j \in Degrees |-> IF j >= 10 /\ d - j \in 0..9 THEN term(j) ELSE 0]
           f3 == [j \in Degrees |-> IF j < 10 /\ d - j \in 10..19 THEN term(j) ELSE 0]
           f4 == [j \in Degrees |-> IF j >= 10 /\ d - j \in 10..19 THEN term(j) ELSE 0]
           h == [j \in Degrees |-> term(j)]
<1>1. \A j \in Degrees : /\ term(j) \in Int /\ j \in 0..18
                         /\ d - j \notin 0..18 => term(j) = 0
  <2> SUFFICES ASSUME NEW j \in Degrees
               PROVE  term(j) \in Int /\ j \in 0..18 /\ (d - j \notin 0..18 => term(j) = 0)
    OBVIOUS
  <2>1. a[j] \in Int /\ At(b, d - j) \in Int /\ j \in 0..18  BY AtInt DEF Whole, Degrees
  <2>2. d - j \notin 0..18 => At(b, d - j) = 0  BY DEF At, Degrees
  <2> QED BY <2>1, <2>2
<1>2. \A j \in Degrees : h[j] = f1[j] + f2[j] + f3[j] + f4[j]
  <2> SUFFICES ASSUME NEW j \in Degrees PROVE h[j] = f1[j] + f2[j] + f3[j] + f4[j]
    OBVIOUS
  <2> DEFINE e == term(j)
  <2>1. e \in Int /\ j \in 0..18 /\ (d - j \notin 0..18 => e = 0)  BY <1>1
  <2>2. /\ h[j] = e
        /\ f1[j] = IF j < 10 /\ d - j \in 0..9 THEN e ELSE 0
        /\ f2[j] = IF j >= 10 /\ d - j \in 0..9 THEN e ELSE 0
        /\ f3[j] = IF j < 10 /\ d - j \in 10..19 THEN e ELSE 0
        /\ f4[j] = IF j >= 10 /\ d - j \in 10..19 THEN e ELSE 0
    OBVIOUS
  <2> HIDE DEF e, f1, f2, f3, f4, h
  <2> QED BY <2>1, <2>2
<1>3. Whole(f1) /\ Whole(f2) /\ Whole(f3) /\ Whole(f4)  BY <1>1 DEF Whole
<1>4. Total(h) = Total(f1) + Total(f2) + Total(f3) + Total(f4)
  <2> HIDE DEF f1, f2, f3, f4, h
  <2> QED BY <1>2, <1>3, TotalFour
<1>5. Total(f1) = Quad(a, b, 0, 0, d)
  <2>1. \A j \in Degrees : f1[j] = QuadTerms(a, b, 0, 0, d)[j]
    <3> SUFFICES ASSUME NEW j \in Degrees PROVE f1[j] = QuadTerms(a, b, 0, 0, d)[j]
      OBVIOUS
    <3>1. j \in 0..18 /\ 0 + j = j /\ 0 + (d - j) = d - j /\ At(a, j) = a[j]
      BY DEF Degrees, At
    <3>2. QuadTerms(a, b, 0, 0, d)[j]
             = IF j \in 0..9 /\ d - j \in 0..9 THEN At(a, 0 + j) * At(b, 0 + (d - j)) ELSE 0
      BY DEF QuadTerms
    <3> QED BY <3>1, <3>2
  <2> HIDE DEF f1
  <2> QED BY <2>1, TotalSame DEF Quad
<1>6. Total(f3) = Quad(a, b, 0, 10, d - 10)
  <2>1. \A j \in Degrees : f3[j] = QuadTerms(a, b, 0, 10, d - 10)[j]
    <3> SUFFICES ASSUME NEW j \in Degrees PROVE f3[j] = QuadTerms(a, b, 0, 10, d - 10)[j]
      OBVIOUS
    <3>1. /\ j \in 0..18 /\ 0 + j = j /\ 10 + ((d - 10) - j) = d - j /\ At(a, j) = a[j]
          /\ ((d - 10) - j \in 0..9 <=> d - j \in 10..19)
      BY DEF Degrees, At
    <3>2. QuadTerms(a, b, 0, 10, d - 10)[j]
             = IF j \in 0..9 /\ (d - 10) - j \in 0..9
               THEN At(a, 0 + j) * At(b, 10 + ((d - 10) - j)) ELSE 0
      BY DEF QuadTerms
    <3> QED BY <3>1, <3>2
  <2> HIDE DEF f3
  <2> QED BY <2>1, TotalSame DEF Quad
<1>7. Total(f2) = Quad(a, b, 10, 0, d - 10)
  <2>1. \A j \in Degrees : QuadTerms(a, b, 10, 0, d - 10)[j]
                             = IF j + 10 \in Degrees THEN f2[j + 10] ELSE 0
    <3> SUFFICES ASSUME NEW j \in Degrees
                 PROVE  QuadTerms(a, b, 10, 0, d - 10)[j]
                          = IF j + 10 \in Degrees THEN f2[j + 10] ELSE 0
      OBVIOUS
    <3>1. /\ j \in 0..18 /\ 10 + j = j + 10 /\ 0 + ((d - 10) - j) = d - (j + 10)
          /\ (d - 10) - j = d - (j + 10)
      BY DEF Degrees
    <3>2. QuadTerms(a, b, 10, 0, d - 10)[j]
             = IF j \in 0..9 /\ (d - 10) - j \in 0..9
               THEN At(a, 10 + j) * At(b, 0 + ((d - 10) - j)) ELSE 0
      BY DEF QuadTerms
    <3>3. CASE j + 10 \in Degrees
      <4>1. At(a, 10 + j) = a[j + 10] /\ j \in 0..8  BY <3>1, <3>3 DEF At, Degrees
      <4>2. f2[j + 10] = IF d - (j + 10) \in 0..9 THEN a[j + 10] * At(b, d - (j + 10)) ELSE 0
        BY <3>1, <3>3
      <4> HIDE DEF f2
      <4> QED BY <3>1, <3>2, <3>3, <4>1, <4>2
    <3>4. CASE j + 10 \notin Degrees
      <4>1. At(a, 10 + j) = 0 /\ At(b, 0 + ((d - 10) - j)) \in Int  BY <3>1, <3>4, AtInt DEF At
      <4>2. At(a, 10 + j) * At(b, 0 + ((d - 10) - j)) = 0  BY <4>1
      <4> QED BY <3>2, <3>4, <4>2
    <3> QED BY <3>3, <3>4
  <2>2. \A j \in Degrees : j < 10 => f2[j] = 0  BY <1>1
  <2>3. 10 \in Degrees  BY DEF Degrees
  <2> HIDE DEF f2
  <2> QED BY <1>3, <2>1, <2>2, <2>3, TotalShift DEF Quad
<1>8. Total(f4) = Quad(a, b, 10, 10, d - 20)
  <2>1. \A j \in Degrees : QuadTerms(a, b, 10, 10, d - 20)[j]
                             = IF j + 10 \in Degrees THEN f4[j + 10] ELSE 0
    <3> SUFFICES ASSUME NEW j \in Degrees
                 PROVE  QuadTerms(a, b, 10, 10, d - 20)[j]
                          = IF j + 10 \in Degrees THEN f4[j + 10] ELSE 0
      OBVIOUS
    <3>1. /\ j \in 0..18 /\ 10 + j = j + 10 /\ 10 + ((d - 20) - j) = d - (j + 10)
          /\ ((d - 20) - j \in 0..9 <=> d - (j + 10) \in 10..19)
      BY DEF Degrees
    <3>2. QuadTerms(a, b, 10, 10, d - 20)[j]
             = IF j \in 0..9 /\ (d - 20) - j \in 0..9
               THEN At(a, 10 + j) * At(b, 10 + ((d - 20) - j)) ELSE 0
      BY DEF QuadTerms
    <3>3. CASE j + 10 \in Degrees
      <4>1. At(a, 10 + j) = a[j + 10] /\ j \in 0..8  BY <3>1, <3>3 DEF At, Degrees
      <4>2. f4[j + 10] = IF d - (j + 10) \in 10..19 THEN a[j + 10] * At(b, d - (j + 10)) ELSE 0
        BY <3>1, <3>3
      <4> HIDE DEF f4
      <4> QED BY <3>1, <3>2, <3>3, <4>1, <4>2
    <3>4. CASE j + 10 \notin Degrees
      <4>1. At(a, 10 + j) = 0 /\ At(b, 10 + ((d - 20) - j)) \in Int  BY <3>1, <3>4, AtInt DEF At
      <4>2. At(a, 10 + j) * At(b, 10 + ((d - 20) - j)) = 0  BY <4>1
      <4> QED BY <3>2, <3>4, <4>2
    <3> QED BY <3>3, <3>4
  <2>2. \A j \in Degrees : j < 10 => f4[j] = 0  BY <1>1
  <2>3. 10 \in Degrees  BY DEF Degrees
  <2> HIDE DEF f4
  <2> QED BY <1>3, <2>1, <2>2, <2>3, TotalShift DEF Quad
<1>9. Diag(a, b, d) = Total(h)  BY DEF Diag
<1> HIDE DEF f1, f2, f3, f4, h
<1> QED BY <1>4, <1>5, <1>6, <1>7, <1>8, <1>9

\* What the products of ten and of nine terms are, in a word.
LEMMA SumIs ==
  ASSUME NEW f, Whole(f)
  PROVE  /\ Total(f) % Word \in 0..(Word - 1)
         /\ Congruent(Total(f) % Word, Total(f), Word)
<1>1. Total(f) \in Int  BY TotalInt
<1> DEFINE n == Total(f)   w == Word
<1>2. n \in Int /\ w \in Nat /\ w > 0  BY <1>1, WordNat
<1> HIDE DEF n, w
<1>3. n % w \in 0..(w - 1) /\ Congruent(n % w, n, w)  BY <1>2, ModCongruent
<1> QED BY <1>3 DEF n, w

ProductTerms(a, b, o, n, i) ==
    [j \in Degrees |-> IF j \in {k \in 0..(n - 1) : i - k \in 0..(n - 1)}
                       THEN a[o + j] * b[o + i - j] ELSE 0]

\* A product of halves is the sum of its terms, as a word.
LEMMA ProductIsTotal ==
  ASSUME NEW a, NEW b, NEW o, NEW n, NEW i
  PROVE  Product(a, b, o, n, i) = Total(ProductTerms(a, b, o, n, i)) % Word
BY DEF Product, Sum, ProductTerms

\* The products of the low halves and of the high halves.
LEMMA ProductHalves ==
  ASSUME NEW a, NEW b, Whole(a), Whole(b), NEW i \in Int
  PROVE  /\ Congruent(Product(a, b, 0, 10, i), Quad(a, b, 0, 0, i), Word)
         /\ Congruent(Product(a, b, 10, 9, i), Quad(a, b, 10, 10, i), Word)
         /\ Product(a, b, 0, 10, i) \in Int /\ Product(a, b, 10, 9, i) \in Int
<1>1. \A j \in Degrees : ProductTerms(a, b, 0, 10, i)[j] = QuadTerms(a, b, 0, 0, i)[j]
  <2> SUFFICES ASSUME NEW j \in Degrees
               PROVE  ProductTerms(a, b, 0, 10, i)[j] = QuadTerms(a, b, 0, 0, i)[j]
    OBVIOUS
  <2>1. ProductTerms(a, b, 0, 10, i)[j]
           = IF j \in 0..9 /\ i - j \in 0..9 THEN a[0 + j] * b[0 + i - j] ELSE 0
    BY DEF ProductTerms
  <2>2. QuadTerms(a, b, 0, 0, i)[j]
           = IF j \in 0..9 /\ i - j \in 0..9 THEN At(a, 0 + j) * At(b, 0 + (i - j)) ELSE 0
    BY DEF QuadTerms
  <2>3. ASSUME j \in 0..9, i - j \in 0..9
        PROVE  At(a, 0 + j) = a[0 + j] /\ At(b, 0 + (i - j)) = b[0 + i - j]
    <3>1. 0 + j \in Degrees /\ 0 + (i - j) \in Degrees /\ 0 + (i - j) = 0 + i - j
      BY <2>3 DEF Degrees
    <3> QED BY <3>1 DEF At
  <2> QED BY <2>1, <2>2, <2>3
<1>2. \A j \in Degrees : ProductTerms(a, b, 10, 9, i)[j] = QuadTerms(a, b, 10, 10, i)[j]
  <2> SUFFICES ASSUME NEW j \in Degrees
               PROVE  ProductTerms(a, b, 10, 9, i)[j] = QuadTerms(a, b, 10, 10, i)[j]
    OBVIOUS
  <2>0. j \in 0..18  BY DEF Degrees
  <2>1. ProductTerms(a, b, 10, 9, i)[j]
           = IF j \in 0..8 /\ i - j \in 0..8 THEN a[10 + j] * b[10 + i - j] ELSE 0
    BY DEF ProductTerms
  <2>2. QuadTerms(a, b, 10, 10, i)[j]
           = IF j \in 0..9 /\ i - j \in 0..9 THEN At(a, 10 + j) * At(b, 10 + (i - j)) ELSE 0
    BY DEF QuadTerms
  <2>3. CASE j \in 0..8 /\ i - j \in 0..8
    <3>1. 10 + j \in Degrees /\ 10 + (i - j) \in Degrees /\ 10 + (i - j) = 10 + i - j
      BY <2>3 DEF Degrees
    <3>2. At(a, 10 + j) = a[10 + j] /\ At(b, 10 + (i - j)) = b[10 + i - j]
      BY <3>1 DEF At
    <3> QED BY <2>1, <2>2, <2>3, <3>2
  <2>4. CASE ~(j \in 0..8 /\ i - j \in 0..8) /\ j \in 0..9 /\ i - j \in 0..9
    <3> DEFINE u == At(a, 10 + j)   v == At(b, 10 + (i - j))
    <3>1. 10 + j = 19 \/ 10 + (i - j) = 19  BY <2>4, <2>0
    <3>2. u \in Int /\ v \in Int /\ (u = 0 \/ v = 0)  BY <3>1, AtInt DEF At, Degrees
    <3> HIDE DEF u, v
    <3>3. u * v = 0  BY <3>2
    <3> QED BY <2>1, <2>2, <2>4, <3>3 DEF u, v
  <2>5. CASE ~(j \in 0..9 /\ i - j \in 0..9)
    <3>1. ~(j \in 0..8 /\ i - j \in 0..8)  BY <2>5, <2>0
    <3> QED BY <2>1, <2>2, <2>5, <3>1
  <2> QED BY <2>3, <2>4, <2>5
<1>3. Whole(QuadTerms(a, b, 0, 0, i)) /\ Whole(QuadTerms(a, b, 10, 10, i))  BY QuadWhole
<1>4. /\ Total(ProductTerms(a, b, 0, 10, i)) = Total(QuadTerms(a, b, 0, 0, i))
      /\ Total(ProductTerms(a, b, 10, 9, i)) = Total(QuadTerms(a, b, 10, 10, i))
  BY <1>1, <1>2, TotalSame
<1>5. /\ Product(a, b, 0, 10, i) = Total(QuadTerms(a, b, 0, 0, i)) % Word
      /\ Product(a, b, 10, 9, i) = Total(QuadTerms(a, b, 10, 10, i)) % Word
  BY <1>4, ProductIsTotal
<1>6. Word \in Nat  BY WordNat
<1> HIDE DEF Word
<1> QED BY <1>3, <1>5, <1>6, SumIs DEF Quad

\* The product of sums of halves is the sum of the products of all pairs of halves.
LEMMA ProductFolded ==
  ASSUME NEW a, NEW b, Whole(a), Whole(b), NEW i \in Int
  PROVE  /\ Product(Folded(a), Folded(b), 0, 10, i) \in Int
         /\ Congruent(Product(Folded(a), Folded(b), 0, 10, i),
                      Quad(a, b, 0, 0, i) + Quad(a, b, 10, 0, i) + Quad(a, b, 0, 10, i)
                          + Quad(a, b, 10, 10, i), Word)
<1> DEFINE h == ProductTerms(Folded(a), Folded(b), 0, 10, i)
           f1 == QuadTerms(a, b, 0, 0, i)    f2 == QuadTerms(a, b, 10, 0, i)
           f3 == QuadTerms(a, b, 0, 10, i)   f4 == QuadTerms(a, b, 10, 10, i)
<1>1. ASSUME NEW c, Whole(c), NEW k \in 0..9
      PROVE  Folded(c)[k] = At(c, k) + At(c, 10 + k)
  <2>1. Folded(c)[k] = IF k < 9 THEN c[k] + c[k + 10] ELSE c[9]  BY DEF Folded
  <2>2. CASE k < 9
    <3>1. k \in Degrees /\ 10 + k \in Degrees /\ 10 + k = k + 10  BY <2>2 DEF Degrees
    <3> QED BY <2>1, <2>2, <3>1 DEF At
  <2>3. CASE ~(k < 9)
    <3>1. k = 9 /\ 9 \in Degrees /\ 10 + 9 \notin Degrees  BY <2>3 DEF Degrees
    <3>2. At(c, k) = c[9] /\ At(c, 10 + k) = 0 /\ c[9] \in Int  BY <1>1, <3>1 DEF At, Whole
    <3> QED BY <2>1, <2>3, <3>2
  <2> QED BY <2>2, <2>3
<1>2. \A j \in Degrees : h[j] = f1[j] + f2[j] + f3[j] + f4[j]
  <2> SUFFICES ASSUME NEW j \in Degrees PROVE h[j] = f1[j] + f2[j] + f3[j] + f4[j]
    OBVIOUS
  <2> DEFINE k == i - j
             both == j \in 0..9 /\ k \in 0..9
             u0 == At(a, 0 + j)   u1 == At(a, 10 + j)   v0 == At(b, 0 + k)   v1 == At(b, 10 + k)
  <2>1. /\ f1[j] = IF both THEN u0 * v0 ELSE 0
        /\ f2[j] = IF both THEN u1 * v0 ELSE 0
        /\ f3[j] = IF both THEN u0 * v1 ELSE 0
        /\ f4[j] = IF both THEN u1 * v1 ELSE 0
    BY DEF QuadTerms
  <2>2. h[j] = IF both THEN Folded(a)[0 + j] * Folded(b)[0 + i - j] ELSE 0
    BY DEF ProductTerms
  <2>3. u0 \in Int /\ u1 \in Int /\ v0 \in Int /\ v1 \in Int  BY AtInt
  <2>4. CASE both
    <3>1. 0 + j = j /\ 0 + i - j = k /\ 0 + k = k /\ j \in 0..9 /\ k \in 0..9  BY <2>4
    <3>2. Folded(a)[0 + j] = u0 + u1 /\ Folded(b)[0 + i - j] = v0 + v1
      <4> HIDE DEF k
      <4> QED BY <1>1, <3>1
    <3> HIDE DEF u0, u1, v0, v1, both, h, f1, f2, f3, f4
    <3>3. (u0 + u1) * (v0 + v1) = u0 * v0 + u1 * v0 + u0 * v1 + u1 * v1  BY <2>3
    <3> QED BY <2>1, <2>2, <2>4, <3>2, <3>3
  <2>5. CASE ~both
    <3> HIDE DEF both, h, f1, f2, f3, f4
    <3>1. h[j] = 0 /\ f1[j] = 0 /\ f2[j] = 0 /\ f3[j] = 0 /\ f4[j] = 0  BY <2>1, <2>2, <2>5
    <3> QED BY <3>1
  <2> QED BY <2>4, <2>5
<1>3. Whole(f1) /\ Whole(f2) /\ Whole(f3) /\ Whole(f4)  BY QuadWhole
<1>4. Whole(h)
  <2> SUFFICES ASSUME NEW j \in Degrees PROVE h[j] \in Int  BY DEF Whole
  <2> HIDE DEF h, f1, f2, f3, f4
  <2>1. f1[j] \in Int /\ f2[j] \in Int /\ f3[j] \in Int /\ f4[j] \in Int  BY <1>3 DEF Whole
  <2> QED BY <1>2, <2>1
<1>5. Product(Folded(a), Folded(b), 0, 10, i) = Total(h) % Word  BY ProductIsTotal
<1>6. Total(h) = Total(f1) + Total(f2) + Total(f3) + Total(f4)
  <2> HIDE DEF h, f1, f2, f3, f4
  <2> QED BY <1>2, <1>3, TotalFour
<1>7. Word \in Nat  BY WordNat
<1> HIDE DEF h, Word
<1>8. Total(h) % Word \in Int /\ Congruent(Total(h) % Word, Total(h), Word)  BY <1>4, <1>7, SumIs
<1> QED BY <1>5, <1>6, <1>8 DEF Quad

\* The combination of three products that KFIX computes, for congruent numbers.
LEMMA CongruentKfix ==
  ASSUME NEW m \in Int,
         NEW c1 \in Int, NEW c2 \in Int, NEW c3 \in Int, NEW c4 \in Int,
         NEW c5 \in Int, NEW c6 \in Int, NEW c7 \in Int,
         NEW d1 \in Int, NEW d2 \in Int, NEW d3 \in Int, NEW d4 \in Int,
         NEW d5 \in Int, NEW d6 \in Int, NEW d7 \in Int,
         Congruent(c1, d1, m), Congruent(c2, d2, m), Congruent(c3, d3, m), Congruent(c4, d4, m),
         Congruent(c5, d5, m), Congruent(c6, d6, m), Congruent(c7, d7, m)
  PROVE  Congruent(c1 + c2 - c3 - c4 + 2 * (c5 + c6 - c7),
                   d1 + d2 - d3 - d4 + 2 * (d5 + d6 - d7), m)
<1>1. Congruent(c1 + c2, d1 + d2, m) /\ Congruent(c5 + c6, d5 + d6, m)  BY CongruentSum
<1>2. Congruent((c1 + c2) - c3, (d1 + d2) - d3, m) /\ Congruent((c5 + c6) - c7, (d5 + d6) - d7, m)
  BY <1>1, CongruentSum
<1>3. Congruent(((c1 + c2) - c3) - c4, ((d1 + d2) - d3) - d4, m)  BY <1>2, CongruentSum
<1> DEFINE u == ((c1 + c2) - c3) - c4   u1 == ((d1 + d2) - d3) - d4
           v == (c5 + c6) - c7          v1 == (d5 + d6) - d7
<1>4. u \in Int /\ u1 \in Int /\ v \in Int /\ v1 \in Int /\ Congruent(u, u1, m) /\ Congruent(v, v1, m)
  BY <1>2, <1>3
<1> HIDE DEF u, u1, v, v1
<1>5. Congruent(u + 2 * v, u1 + 2 * v1, m)  BY <1>4, CongruentLinear
<1> QED BY <1>5 DEF u, u1, v, v1

\* the three products, as tables
IsTables(a, b, t1, t2, t3) ==
    /\ \A e \in 0..18 : t1[e] \in Int /\ Congruent(t1[e], Quad(a, b, 0, 0, e), Word)
    /\ \A e \in 0..16 : t2[e] \in Int /\ Congruent(t2[e], Quad(a, b, 10, 10, e), Word)
    /\ \A e \in 0..17 : t3[e] \in Int /\ Congruent(t3[e],
           Quad(a, b, 0, 0, e) + Quad(a, b, 10, 0, e) + Quad(a, b, 0, 10, e) + Quad(a, b, 10, 10, e),
           Word)

\* KFIX gets the coefficients of the product modulo z^19 - 2 from them.
LEMMA KfixIs ==
  ASSUME NEW a, NEW b, Whole(a), Whole(b), NEW t1, NEW t2, NEW t3, IsTables(a, b, t1, t2, t3),
         NEW i \in Degrees
  PROVE  Kfix(t1, t2, t3, i) \in Int /\ Congruent(Kfix(t1, t2, t3, i), Ring!Convolution(a, b, i), Word)
<1> DEFINE Q00(e) == Quad(a, b, 0, 0, e)     Q10(e) == Quad(a, b, 10, 0, e)
           Q01(e) == Quad(a, b, 0, 10, e)    Q11(e) == Quad(a, b, 10, 10, e)
           all(e) == Q00(e) + Q10(e) + Q01(e) + Q11(e)
<1>1. \A e : Q00(e) \in Int /\ Q10(e) \in Int /\ Q01(e) \in Int /\ Q11(e) \in Int  BY QuadWhole
<1>2. \A e \in Int : /\ e < 0 \/ e > 18 => Q00(e) = 0 /\ Q10(e) = 0 /\ Q01(e) = 0 /\ Q11(e) = 0
                     /\ e = 18 => Q10(e) = 0 /\ Q01(e) = 0 /\ Q11(e) = 0
                     /\ e = 17 => Q11(e) = 0
  BY QuadZero
<1>3. /\ \A e \in 0..18 : t1[e] \in Int /\ Congruent(t1[e], Q00(e), Word)
      /\ \A e \in 0..16 : t2[e] \in Int /\ Congruent(t2[e], Q11(e), Word)
      /\ \A e \in 0..17 : t3[e] \in Int /\ Congruent(t3[e], all(e), Word)
  BY DEF IsTables
<1>4. Word \in Int /\ Congruent(0, 0, Word) /\ i \in 0..18
  BY WordNat, CongruentRefl DEF Degrees
<1>5. Ring!Convolution(a, b, i) = (Q00(i) + Q10(i - 10) + Q01(i - 10) + Q11(i - 20))
          + 2 * (Q00(i + 19) + Q10(i + 9) + Q01(i + 9) + Q11(i - 1))
  <2>1. Diag(a, b, i) = Q00(i) + Q10(i - 10) + Q01(i - 10) + Q11(i - 20)
    BY <1>4, DiagQuads
  <2>2. Diag(a, b, i + 19) = Q00(i + 19) + Q10((i + 19) - 10) + Q01((i + 19) - 10) + Q11((i + 19) - 20)
    BY <1>4, DiagQuads
  <2>3. (i + 19) - 10 = i + 9 /\ (i + 19) - 20 = i - 1  BY <1>4
  <2> QED BY <2>1, <2>2, <2>3, ConvolutionIs
<1> DEFINE c1 == t1[i]
           c2 == IF i - 10 \in 0..17 THEN t3[i - 10] ELSE 0
           c3 == IF i - 10 \in 0..18 THEN t1[i - 10] ELSE 0
           c4 == IF i - 10 \in 0..16 THEN t2[i - 10] ELSE 0
           c5 == IF i - 1 \in 0..16 THEN t2[i - 1] ELSE 0
           c6 == IF i <= 8 THEN t3[i + 9] - t1[i + 9] ELSE 0
           c7 == IF i + 9 \in 0..16 THEN t2[i + 9] ELSE 0
           d2 == all(i - 10)
           d6 == Q10(i + 9) + Q01(i + 9) + Q11(i + 9)
<1>6. Kfix(t1, t2, t3, i) = c1 + c2 - c3 - c4 + 2 * (c5 + c6 - c7)  BY DEF Kfix
<1>7. c1 \in Int /\ Congruent(c1, Q00(i), Word)  BY <1>3, <1>4
<1>8. c2 \in Int /\ Congruent(c2, d2, Word)
  <2>1. CASE i - 10 \in 0..17
    BY <1>3, <2>1
  <2>2. CASE i - 10 \notin 0..17
    <3>1. c2 = 0 /\ d2 = 0 + 0 + 0 + 0
      <4>1. i - 10 \in Int /\ i - 10 < 0  BY <1>4, <2>2
      <4> HIDE DEF Q00, Q10, Q01, Q11
      <4> QED BY <1>2, <2>2, <4>1
    <3> QED BY <1>4, <3>1
  <2> QED BY <2>1, <2>2
<1>9. c3 \in Int /\ Congruent(c3, Q00(i - 10), Word)
  <2>1. i - 10 \in Int /\ (i - 10 \notin 0..18 => i - 10 < 0)  BY <1>4
  <2> HIDE DEF Q00, Q10, Q01, Q11
  <2> QED BY <1>2, <1>3, <1>4, <2>1
<1>10. c4 \in Int /\ Congruent(c4, Q11(i - 10), Word)
  <2>1. i - 10 \in Int /\ (i - 10 \notin 0..16 => i - 10 < 0)  BY <1>4
  <2> HIDE DEF Q00, Q10, Q01, Q11
  <2> QED BY <1>2, <1>3, <1>4, <2>1
<1>11. c5 \in Int /\ Congruent(c5, Q11(i - 1), Word)
  <2>1. i - 1 \in Int /\ (i - 1 \notin 0..16 => i - 1 < 0 \/ i - 1 = 17)  BY <1>4
  <2> HIDE DEF Q00, Q10, Q01, Q11
  <2> QED BY <1>2, <1>3, <1>4, <2>1
<1>12. c7 \in Int /\ Congruent(c7, Q11(i + 9), Word)
  <2>1. i + 9 \in Int /\ (i + 9 \notin 0..16 => i + 9 > 18 \/ i + 9 = 18 \/ i + 9 = 17)  BY <1>4
  <2> HIDE DEF Q00, Q10, Q01, Q11
  <2> QED BY <1>2, <1>3, <1>4, <2>1
<1>13. c6 \in Int /\ Congruent(c6, d6, Word)
  <2>1. CASE i <= 8
    <3>1. i + 9 \in 0..17 /\ i + 9 \in 0..18  BY <1>4, <2>1
    <3> DEFINE u == t3[i + 9]   v == t1[i + 9]   u1 == all(i + 9)   v1 == Q00(i + 9)
    <3>2. u \in Int /\ v \in Int /\ u1 \in Int /\ v1 \in Int
      <4> HIDE DEF Q00, Q10, Q01, Q11
      <4> QED BY <1>1, <1>3, <3>1
    <3>3. Congruent(u, u1, Word) /\ Congruent(v, v1, Word)  BY <1>3, <3>1
    <3>4. u1 - v1 = d6
      <4> DEFINE q0 == Q00(i + 9)   q1 == Q10(i + 9)   q2 == Q01(i + 9)   q3 == Q11(i + 9)
      <4>1. q0 \in Int /\ q1 \in Int /\ q2 \in Int /\ q3 \in Int  BY <1>1
      <4> HIDE DEF q0, q1, q2, q3
      <4>2. (q0 + q1 + q2 + q3) - q0 = q1 + q2 + q3  BY <4>1
      <4> QED BY <4>2 DEF q0, q1, q2, q3
    <3>5. c6 = u - v  BY <2>1
    <3> HIDE DEF u, v, u1, v1, d6, c6
    <3>6. Congruent(u - v, u1 - v1, Word)
      <4> HIDE DEF Word
      <4> QED BY <1>4, <3>2, <3>3, CongruentSum
    <3> QED BY <3>2, <3>4, <3>5, <3>6
  <2>2. CASE ~(i <= 8)
    <3>1. c6 = 0 /\ d6 = 0 + 0 + 0
      <4>1. i + 9 \in Int /\ (i + 9 = 18 \/ i + 9 > 18)  BY <1>4, <2>2
      <4> HIDE DEF Q00, Q10, Q01, Q11
      <4> QED BY <1>2, <2>2, <4>1
    <3> QED BY <1>4, <3>1
  <2> QED BY <2>1, <2>2
<1> DEFINE e1 == Q00(i)  e3 == Q00(i - 10)  e4 == Q11(i - 10)  e5 == Q11(i - 1)  e7 == Q11(i + 9)
<1>14. e1 \in Int /\ e3 \in Int /\ e4 \in Int /\ e5 \in Int /\ e7 \in Int /\ d2 \in Int /\ d6 \in Int
  <2> HIDE DEF Q00, Q10, Q01, Q11
  <2> QED BY <1>1
<1>15. Ring!Convolution(a, b, i) = e1 + d2 - e3 - e4 + 2 * (e5 + d6 - e7)
  <2> DEFINE g1 == Q10(i - 10)  g2 == Q01(i - 10)  g3 == Q11(i - 20)  g4 == Q00(i + 19)
             g5 == Q10(i + 9)   g6 == Q01(i + 9)
  <2>1. g1 \in Int /\ g2 \in Int /\ g3 = 0 /\ g4 = 0 /\ g5 \in Int /\ g6 \in Int
    <3>1. i - 20 \in Int /\ i - 20 < 0 /\ i + 19 \in Int /\ i + 19 > 18  BY <1>4
    <3> HIDE DEF Q00, Q10, Q01, Q11
    <3> QED BY <1>1, <1>2, <3>1
  <2>2. d2 = e3 + g1 + g2 + e4 /\ d6 = g5 + g6 + e7  OBVIOUS
  <2>3. Ring!Convolution(a, b, i) = (e1 + g1 + g2 + g3) + 2 * (g4 + g5 + g6 + e5)  BY <1>5
  <2> HIDE DEF g1, g2, g3, g4, g5, g6, e1, e3, e4, e5, e7, d2, d6
  <2>4. (e1 + g1 + g2 + g3) + 2 * (g4 + g5 + g6 + e5) = e1 + d2 - e3 - e4 + 2 * (e5 + d6 - e7)
    BY <1>14, <2>1, <2>2
  <2> QED BY <2>3, <2>4
<1>16. /\ Congruent(c1, e1, Word) /\ Congruent(c3, e3, Word) /\ Congruent(c4, e4, Word)
       /\ Congruent(c5, e5, Word) /\ Congruent(c7, e7, Word)
  BY <1>7, <1>9, <1>10, <1>11, <1>12
<1> HIDE DEF c1, c2, c3, c4, c5, c6, c7, e1, e3, e4, e5, e7, d2, d6, Word
<1>17. c1 \in Int /\ c2 \in Int /\ c3 \in Int /\ c4 \in Int /\ c5 \in Int /\ c6 \in Int /\ c7 \in Int
  BY <1>7, <1>8, <1>9, <1>10, <1>11, <1>12, <1>13
<1>18. Congruent(c1 + c2 - c3 - c4 + 2 * (c5 + c6 - c7), e1 + d2 - e3 - e4 + 2 * (e5 + d6 - e7), Word)
  BY <1>4, <1>8, <1>13, <1>14, <1>16, <1>17, CongruentKfix
<1> QED BY <1>6, <1>15, <1>17, <1>18
-----------------------------------------------------------------------------
(* The portable products. *)

\* a polynomial whose coefficients are elements
IsPoly(a) == \A d \in Degrees : a[d] \in Elements

\* The coefficients of an operand are integers.
LEMMA PolyWhole == ASSUME NEW a, IsPoly(a)
                   PROVE  Whole(a) /\ \A d \in Degrees : a[d] \in Int /\ 1 <= a[d] /\ a[d] <= P
<1>1. P \in Nat  BY InverseOfModulus
<1> QED BY <1>1 DEF IsPoly, Whole, Elements

\* The largest sums of products are within the bound of the reduction.
LEMMA ConvolutionFits ==
  ASSUME NEW a, NEW b, IsPoly(a), IsPoly(b), NEW i \in Degrees
  PROVE  Ring!Convolution(a, b, i) \in 1..MaxOperand
<1> DEFINE h == [j \in Degrees |-> a[j] * (IF j <= i THEN b[i - j] ELSE 2 * b[i + 19 - j])]
           q == P * P
<1>1. P \in Nat /\ q \in Int /\ 37 * q <= MaxOperand /\ MaxOperand \in Int
  BY InverseOfModulus, HalfAndBound, FieldAssumption
<1>2. \A u, v \in 1..P : u * v \in 1..q
  <2> SUFFICES ASSUME NEW u \in 1..P, NEW v \in 1..P PROVE u * v \in 1..q  OBVIOUS
  <2>1. 1 * v <= u * v /\ u * v <= P * v /\ P * v <= P * P /\ u * v \in Int  BY <1>1
  <2> QED BY <2>1, <1>1
<1>3. \A d \in Degrees : a[d] \in 1..P /\ b[d] \in 1..P  BY DEF IsPoly, Elements
<1>4. \A j \in Degrees : h[j] \in 1..(2 * q) /\ (j = 0 => h[j] \in 1..q)
  <2> SUFFICES ASSUME NEW j \in Degrees PROVE h[j] \in 1..(2 * q) /\ (j = 0 => h[j] \in 1..q)
    OBVIOUS
  <2>1. i \in 0..18 /\ j \in 0..18  BY DEF Degrees
  <2>2. CASE j <= i
    <3>1. i - j \in Degrees /\ h[j] = a[j] * b[i - j]  BY <2>1, <2>2 DEF Degrees
    <3> HIDE DEF h, q
    <3>2. h[j] \in 1..q  BY <1>2, <1>3, <3>1
    <3> QED BY <3>2, <1>1
  <2>3. CASE ~(j <= i)
    <3>1. i + 19 - j \in Degrees /\ h[j] = a[j] * (2 * b[i + 19 - j]) /\ j # 0
      BY <2>1, <2>3 DEF Degrees
    <3> DEFINE u == a[j]   v == b[i + 19 - j]
    <3>2. u \in 1..P /\ v \in 1..P  BY <1>3, <3>1
    <3>3. h[j] = u * (2 * v)  BY <3>1
    <3> HIDE DEF h, q, u, v
    <3>4. u * (2 * v) = 2 * (u * v)  BY <3>2
    <3>5. u * v \in 1..q  BY <1>2, <3>2
    <3> QED BY <3>1, <3>3, <3>4, <3>5, <1>1
  <2> QED BY <2>2, <2>3
<1>5. Ring!Convolution(a, b, i) = Total(h)
  BY DEF Ring!Convolution, Ring!Total, Ring!Degrees, Total, Degrees
<1>6. h[0] \in 1..q
  <2>1. 0 \in Degrees  BY DEF Degrees
  <2> HIDE DEF h
  <2> QED BY <1>4, <2>1
<1> HIDE DEF h, q
<1>7. Total(h) \in 1..(37 * q)  BY <1>1, <1>4, <1>6, TotalBounds
<1> QED BY <1>1, <1>5, <1>7

\* A word congruent to an operand that fits is reduced as this operand.
LEMMA ReducedWord ==
  ASSUME NEW v \in Int, NEW n \in 1..MaxOperand, Congruent(v, n, Word)
  PROVE  /\ v % Word = n
         /\ FromMonty(v % Word) \in Elements
         /\ Congruent(FromMonty(v % Word) * Word, n, P)
<1>1. Word \in Nat /\ Word > 0 /\ MaxOperand \in Int /\ MaxOperand < Word
  BY WordNat, HalfAndBound
<1> HIDE DEF Word, MaxOperand
<1>2. n \in Int /\ n % Word = n  BY <1>1
<1>3. v % Word = n % Word  BY <1>1, <1>2, ModEqual
<1> QED BY <1>2, <1>3, FromMontyExact

\* gf_mul() multiplies modulo z^19 - 2, through three products of halves, one
\* reduction per coefficient and subtractions that wrap below zero.
THEOREM GfMulExact ==
  ASSUME NEW a, NEW b, IsPoly(a), IsPoly(b), NEW i \in Degrees
  PROVE  /\ GfMul(a, b)[i] \in Elements
         /\ Congruent(GfMul(a, b)[i] * Word, Ring!Convolution(a, b, i), P)
<1> DEFINE t1 == [e \in 0..18 |-> Product(a, b, 0, 10, e)]
           t2 == [e \in 0..16 |-> Product(a, b, 10, 9, e)]
           t3 == [e \in 0..17 |-> Product(Folded(a), Folded(b), 0, 10, e)]
<1>1. Whole(a) /\ Whole(b)  BY PolyWhole
<1>2. IsTables(a, b, t1, t2, t3)
  <2>1. \A e \in 0..18 : e \in Int /\ t1[e] = Product(a, b, 0, 10, e)  OBVIOUS
  <2>2. \A e \in 0..16 : e \in Int /\ t2[e] = Product(a, b, 10, 9, e)  OBVIOUS
  <2>3. \A e \in 0..17 : e \in Int /\ t3[e] = Product(Folded(a), Folded(b), 0, 10, e)  OBVIOUS
  <2> HIDE DEF t1, t2, t3, Word
  <2>4. ASSUME NEW e \in 0..18 PROVE t1[e] \in Int /\ Congruent(t1[e], Quad(a, b, 0, 0, e), Word)
    <3>1. e \in Int /\ t1[e] = Product(a, b, 0, 10, e)  BY <2>1
    <3> QED BY <1>1, <3>1, ProductHalves
  <2>5. ASSUME NEW e \in 0..16 PROVE t2[e] \in Int /\ Congruent(t2[e], Quad(a, b, 10, 10, e), Word)
    <3>1. e \in Int /\ t2[e] = Product(a, b, 10, 9, e)  BY <2>2
    <3> QED BY <1>1, <3>1, ProductHalves
  <2>6. ASSUME NEW e \in 0..17
        PROVE  t3[e] \in Int /\ Congruent(t3[e],
                   Quad(a, b, 0, 0, e) + Quad(a, b, 10, 0, e) + Quad(a, b, 0, 10, e)
                       + Quad(a, b, 10, 10, e), Word)
    <3>1. e \in Int /\ t3[e] = Product(Folded(a), Folded(b), 0, 10, e)  BY <2>3
    <3> QED BY <1>1, <3>1, ProductFolded
  <2> QED BY <2>4, <2>5, <2>6 DEF IsTables
<1>3. GfMul(a, b)[i] = FromMonty(Kfix(t1, t2, t3, i) % Word)  BY DEF GfMul
<1> HIDE DEF t1, t2, t3
<1>4. Kfix(t1, t2, t3, i) \in Int /\ Congruent(Kfix(t1, t2, t3, i), Ring!Convolution(a, b, i), Word)
  BY <1>1, <1>2, KfixIs
<1> DEFINE v == Kfix(t1, t2, t3, i)   n == Ring!Convolution(a, b, i)
<1>5. v \in Int /\ n \in 1..MaxOperand /\ Congruent(v, n, Word)  BY <1>4, ConvolutionFits
<1> HIDE DEF v, n
<1>6. FromMonty(v % Word) \in Elements /\ Congruent(FromMonty(v % Word) * Word, n, P)
  BY <1>5, ReducedWord
<1> QED BY <1>3, <1>6 DEF v, n

\* gf_sqr() computes each product of two different coefficients once.
LEMMA SquareIsProduct ==
  ASSUME NEW a, NEW o \in Int, NEW n \in 1..19, \A j \in 0..(n - 1) : a[o + j] \in Int,
         NEW i \in 0..(2 * n - 2)
  PROVE  Square(a, o, n, i) = Product(a, a, o, n, i)
<1> DEFINE f == ProductTerms(a, a, o, n, i)
           low == [j \in Degrees |-> IF 2 * j < i THEN f[j] ELSE 0]
           mid == [j \in Degrees |-> IF 2 * j = i THEN f[j] ELSE 0]
           high == [j \in Degrees |-> IF 2 * j > i THEN f[j] ELSE 0]
           none == [j \in Degrees |-> 0]
           middle == IF i % 2 = 0 THEN a[o + i \div 2] * a[o + i \div 2] ELSE 0
<1>1. ASSUME NEW j \in Degrees
      PROVE  /\ j \in 0..18
             /\ f[j] = IF j \in 0..(n - 1) /\ i - j \in 0..(n - 1) THEN a[o + j] * a[o + (i - j)] ELSE 0
  <2>1. f[j] = IF j \in {k \in 0..(n - 1) : i - k \in 0..(n - 1)} THEN a[o + j] * a[o + i - j] ELSE 0
    BY DEF ProductTerms
  <2>2. j \in 0..18 /\ o + i - j = o + (i - j)  BY DEF Degrees
  <2> QED BY <2>1, <2>2
<1>2. \A j \in Degrees : f[j] \in Int
  <2> SUFFICES ASSUME NEW j \in Degrees, j \in 0..(n - 1), i - j \in 0..(n - 1)
               PROVE  a[o + j] * a[o + (i - j)] \in Int
    BY <1>1
  <2>1. a[o + j] \in Int /\ a[o + (i - j)] \in Int  OBVIOUS
  <2> QED BY <2>1
<1> HIDE DEF f
<1>3. \A j \in Degrees : f[j] = low[j] + mid[j] + high[j] + none[j]
  <2> SUFFICES ASSUME NEW j \in Degrees PROVE f[j] = low[j] + mid[j] + high[j] + none[j]
    OBVIOUS
  <2> DEFINE e == f[j]
  <2>1. e \in Int /\ j \in Int /\ i \in Int  BY <1>1, <1>2
  <2>2. low[j] = (IF 2 * j < i THEN e ELSE 0) /\ mid[j] = (IF 2 * j = i THEN e ELSE 0)
        /\ high[j] = (IF 2 * j > i THEN e ELSE 0) /\ none[j] = 0
    OBVIOUS
  <2> HIDE DEF e, low, mid, high, none
  <2>3. e = low[j] + mid[j] + high[j] + none[j]  BY <2>1, <2>2
  <2> QED BY <2>3 DEF e
<1>4. Whole(low) /\ Whole(mid) /\ Whole(high) /\ Whole(none)  BY <1>2 DEF Whole
<1>5. Total(f) = Total(low) + Total(mid) + Total(high) + Total(none)
  <2> HIDE DEF low, mid, high, none
  <2> QED BY <1>3, <1>4, TotalFour
<1>6. Total(none) = 0
  <2>1. \A j \in Degrees : none[j] = 0  OBVIOUS
  <2> HIDE DEF none
  <2> QED BY <2>1, TotalZero
<1>7. Total(high) = Total(low)
  <2>1. i \in 0..36  OBVIOUS
  <2>2. \A j \in Degrees : i - j \notin Degrees => high[j] = 0
    <3> SUFFICES ASSUME NEW j \in Degrees, i - j \notin Degrees PROVE high[j] = 0  OBVIOUS
    <3>1. i - j \notin 0..(n - 1)  BY DEF Degrees
    <3>2. f[j] = 0  BY <1>1, <3>1
    <3> QED BY <3>2
  <2>3. \A j \in Degrees : low[j] = IF i - j \in Degrees THEN high[i - j] ELSE 0
    <3> SUFFICES ASSUME NEW j \in Degrees
                 PROVE  low[j] = IF i - j \in Degrees THEN high[i - j] ELSE 0
      OBVIOUS
    <3>1. j \in 0..18 /\ i - (i - j) = j  BY <1>1
    <3>2. CASE i - j \in Degrees
      <4>1. f[i - j] = f[j]
        <5>1. f[i - j] = IF i - j \in 0..(n - 1) /\ j \in 0..(n - 1)
                         THEN a[o + (i - j)] * a[o + j] ELSE 0
          BY <1>1, <3>1, <3>2
        <5>2. f[j] = IF j \in 0..(n - 1) /\ i - j \in 0..(n - 1)
                     THEN a[o + j] * a[o + (i - j)] ELSE 0
          BY <1>1
        <5>3. ASSUME j \in 0..(n - 1), i - j \in 0..(n - 1)
              PROVE  a[o + (i - j)] * a[o + j] = a[o + j] * a[o + (i - j)]
          <6> DEFINE u == a[o + j]   v == a[o + (i - j)]
          <6>1. u \in Int /\ v \in Int  BY <5>3
          <6> HIDE DEF u, v
          <6>2. v * u = u * v  BY <6>1
          <6> QED BY <6>2 DEF u, v
        <5> QED BY <5>1, <5>2, <5>3
      <4>2. high[i - j] = IF 2 * (i - j) > i THEN f[i - j] ELSE 0  BY <3>2
      <4>3. 2 * (i - j) > i <=> 2 * j < i  BY <3>1
      <4>4. low[j] = IF 2 * j < i THEN f[j] ELSE 0  OBVIOUS
      <4> HIDE DEF low, high
      <4> QED BY <3>2, <4>1, <4>2, <4>3, <4>4
    <3>3. CASE i - j \notin Degrees
      <4>1. f[j] = 0
        <5>1. i - j \notin 0..(n - 1)  BY <3>3 DEF Degrees
        <5> QED BY <1>1, <5>1
      <4> QED BY <3>3, <4>1
    <3> QED BY <3>2, <3>3
  <2> HIDE DEF low, high
  <2> QED BY <1>4, <2>1, <2>2, <2>3, TotalMirror
<1>8. Total(mid) = middle
  <2>1. CASE i % 2 = 0
    <3> DEFINE k == i \div 2
    <3>1. k \in 0..(n - 1) /\ i = 2 * k /\ i - k = k /\ k \in Degrees  BY <2>1 DEF Degrees
    <3>2. middle = a[o + k] * a[o + k]  BY <2>1
    <3>3. f[k] = a[o + k] * a[o + k]
      <4> HIDE DEF k
      <4> QED BY <1>1, <3>1
    <3> HIDE DEF k
    <3>4. \A j \in Degrees : j # k => mid[j] = 0  BY <3>1 DEF Degrees
    <3>5. mid[k] = f[k]  BY <3>1
    <3> HIDE DEF mid, middle
    <3>6. Total(mid) = mid[k]  BY <1>4, <3>1, <3>4, TotalSingle
    <3> QED BY <3>2, <3>3, <3>5, <3>6
  <2>2. CASE i % 2 # 0
    <3>1. \A j \in Degrees : 2 * j # i
      <4> SUFFICES ASSUME NEW j \in Degrees, 2 * j = i PROVE FALSE  OBVIOUS
      <4> QED BY <2>2 DEF Degrees
    <3>2. \A j \in Degrees : mid[j] = 0  BY <3>1
    <3> HIDE DEF mid
    <3> QED BY <2>2, <3>2, TotalZero
  <2> QED BY <2>1, <2>2
<1>9. Square(a, o, n, i) = (middle + 2 * (Total(low) % Word)) % Word
  <2> DEFINE pairs == {j \in 0..(n - 1) : i - j \in 0..(n - 1) /\ 2 * j < i}
             g == [j \in Degrees |-> IF j \in pairs THEN a[o + j] * a[o + i - j] ELSE 0]
  <2>1. Square(a, o, n, i) = (middle + 2 * (Total(g) % Word)) % Word  BY DEF Square, Sum
  <2>2. \A j \in Degrees : g[j] = low[j]
    <3> SUFFICES ASSUME NEW j \in Degrees PROVE g[j] = low[j]  OBVIOUS
    <3>1. o + i - j = o + (i - j)  BY <1>1
    <3>2. g[j] = IF j \in 0..(n - 1) /\ i - j \in 0..(n - 1) /\ 2 * j < i
                 THEN a[o + j] * a[o + (i - j)] ELSE 0
      BY <3>1
    <3>3. low[j] = IF 2 * j < i THEN f[j] ELSE 0  OBVIOUS
    <3> HIDE DEF low, g
    <3> QED BY <1>1, <3>2, <3>3
  <2> HIDE DEF g, low
  <2>3. Total(g) = Total(low)  BY <2>2, TotalSame
  <2> QED BY <2>1, <2>3
<1>10. Product(a, a, o, n, i) = Total(f) % Word  BY ProductIsTotal DEF f
<1> HIDE DEF low, mid, high, none, middle
<1> DEFINE l == Total(low)   w == Word
<1>11. l \in Int /\ Total(mid) \in Int /\ w \in Nat /\ w > 0  BY <1>4, TotalInt, WordNat
<1> HIDE DEF l, w
<1>12. middle \in Int /\ Total(f) = middle + 2 * l
  <2>1. Total(low) = l /\ Total(high) = l  BY <1>7 DEF l
  <2> QED BY <1>5, <1>6, <1>8, <1>11, <2>1
<1> DEFINE r == l % w
<1>13. r \in 0..(w - 1) /\ Congruent(r, l, w)  BY <1>11, ModCongruent
<1>14. r \in Int /\ Congruent(r, l, w) /\ Congruent(middle, middle, w)
  BY <1>11, <1>12, <1>13, CongruentRefl
<1> HIDE DEF r
<1>15. Congruent(middle + 2 * r, middle + 2 * l, w)
  <2>1. Congruent(middle + r, middle + l, w)  BY <1>11, <1>12, <1>14, CongruentSum
  <2>2. Congruent((middle + r) + r, (middle + l) + l, w)
    BY <1>11, <1>12, <1>14, <2>1, CongruentSum
  <2>3. (middle + r) + r = middle + 2 * r /\ (middle + l) + l = middle + 2 * l
    BY <1>11, <1>12, <1>14
  <2> QED BY <2>2, <2>3
<1>16. (middle + 2 * r) % w = (middle + 2 * l) % w  BY <1>11, <1>12, <1>14, <1>15, ModEqual
<1> QED BY <1>9, <1>10, <1>12, <1>16 DEF r, l, w

\* gf_sqr() is gf_mul() of a polynomial by itself.
LEMMA GfSqrIsMul ==
  ASSUME NEW a, IsPoly(a)
  PROVE  GfSqr(a) = GfMul(a, a)
<1>1. \A d \in Degrees : a[d] \in Int  BY PolyWhole
<1>2. \A e \in 0..18 : Square(a, 0, 10, e) = Product(a, a, 0, 10, e)
  <2> SUFFICES ASSUME NEW e \in 0..18 PROVE Square(a, 0, 10, e) = Product(a, a, 0, 10, e)
    OBVIOUS
  <2>1. \A j \in 0..(10 - 1) : a[0 + j] \in Int  BY <1>1 DEF Degrees
  <2>2. 0 \in Int /\ 10 \in 1..19 /\ e \in 0..(2 * 10 - 2)  OBVIOUS
  <2> QED BY <2>1, <2>2, SquareIsProduct
<1>3. \A e \in 0..16 : Square(a, 10, 9, e) = Product(a, a, 10, 9, e)
  <2> SUFFICES ASSUME NEW e \in 0..16 PROVE Square(a, 10, 9, e) = Product(a, a, 10, 9, e)
    OBVIOUS
  <2>1. \A j \in 0..(9 - 1) : a[10 + j] \in Int  BY <1>1 DEF Degrees
  <2>2. 10 \in Int /\ 9 \in 1..19 /\ e \in 0..(2 * 9 - 2)  OBVIOUS
  <2> QED BY <2>1, <2>2, SquareIsProduct
<1>4. \A e \in 0..17 : Square(Folded(a), 0, 10, e) = Product(Folded(a), Folded(a), 0, 10, e)
  <2> SUFFICES ASSUME NEW e \in 0..17
               PROVE  Square(Folded(a), 0, 10, e) = Product(Folded(a), Folded(a), 0, 10, e)
    OBVIOUS
  <2>1. \A j \in 0..(10 - 1) : Folded(a)[0 + j] \in Int
    <3> SUFFICES ASSUME NEW j \in 0..9 PROVE Folded(a)[j] \in Int  OBVIOUS
    <3>1. Folded(a)[j] = IF j < 9 THEN a[j] + a[j + 10] ELSE a[9]  BY DEF Folded
    <3>2. a[j] \in Int /\ a[9] \in Int /\ (j < 9 => a[j + 10] \in Int)  BY <1>1 DEF Degrees
    <3> QED BY <3>1, <3>2
  <2>2. 0 \in Int /\ 10 \in 1..19 /\ e \in 0..(2 * 10 - 2)  OBVIOUS
  <2> DEFINE c == Folded(a)
  <2>3. \A j \in 0..(10 - 1) : c[0 + j] \in Int  BY <2>1
  <2> HIDE DEF c
  <2>4. Square(c, 0, 10, e) = Product(c, c, 0, 10, e)  BY <2>2, <2>3, SquareIsProduct
  <2> QED BY <2>4 DEF c
<1> QED BY <1>2, <1>3, <1>4 DEF GfSqr, GfMul
-----------------------------------------------------------------------------
(* The AVX2 product: lanes hold coefficients of products by powers of z.   *)

\* The degree of a lane of the first vector, and of the three vectors.
Lane(l) == IF l < 4 THEN l ELSE l + 4
Offset(p) == CASE p = 1 -> 0 [] p = 2 -> 4 [] p = 3 -> 16

\* the three vectors of z^s a
IsShifted(c, a, s) ==
    \A p \in 1..3, l \in Vectors : c[p][l] = At(a, Offset(p) + Lane(l) - s)

\* A word that is congruent to an integer.
Holds(v, n) == v \in 0..(Word - 1) /\ Congruent(v, n, Word)

\* A number below the size of a word is held as it is.
LEMMA HoldsItself == ASSUME NEW n \in 0..(Word - 1) PROVE Holds(n, n) /\ n % Word = n
<1>1. Word \in Nat /\ Word > 0  BY WordNat
<1> HIDE DEF Word
<1>2. n \in Int /\ Word \in Int  BY <1>1
<1> QED BY <1>1, <1>2, CongruentRefl DEF Holds

\* Words are added.
LEMMA HoldsSum ==
  ASSUME NEW v, NEW n \in Int, NEW u, NEW m \in Int, Holds(v, n), Holds(u, m)
  PROVE  Holds((v + u) % Word, n + m)
<1> DEFINE w == Word
<1>1. w \in Nat /\ w > 0 /\ w \in Int  BY WordNat
<1>2. v \in Int /\ u \in Int /\ Congruent(v, n, w) /\ Congruent(u, m, w)
  <2> HIDE DEF Word
  <2> QED BY <1>1 DEF Holds
<1> HIDE DEF w
<1>3. Congruent(v + u, n + m, w)  BY <1>1, <1>2, CongruentSum
<1>4. (v + u) % w \in 0..(w - 1) /\ Congruent((v + u) % w, v + u, w)
  <2> DEFINE e == v + u
  <2>1. e \in Int  BY <1>2
  <2> HIDE DEF e
  <2>2. e % w \in 0..(w - 1) /\ Congruent(e % w, e, w)  BY <1>1, <2>1, ModCongruent
  <2> QED BY <2>2 DEF e
<1>5. (v + u) % w \in Int /\ v + u \in Int /\ n + m \in Int  BY <1>1, <1>2, <1>4
<1>6. Congruent((v + u) % w, n + m, w)  BY <1>1, <1>3, <1>4, <1>5, CongruentTrans
<1> QED BY <1>4, <1>6 DEF Holds, w

\* The coefficients of polynomials are words.
LEMMA AtWord ==
  ASSUME NEW a, IsPoly(a)
  PROVE  \A i : At(a, i) \in 0..(Word - 1)
<1>1. P \in Nat /\ 4 * P < Half /\ Half \in Nat /\ Word \in Nat /\ Word > Half
  BY HalfAndBound, WordNat, InverseOfModulus
<1> HIDE DEF Word, Half
<1> SUFFICES ASSUME NEW i PROVE At(a, i) \in 0..(Word - 1)  OBVIOUS
<1>2. CASE i \in Degrees
  <2>1. a[i] \in 1..P /\ At(a, i) = a[i]  BY <1>2 DEF IsPoly, Elements, At
  <2> QED BY <1>1, <2>1
<1>3. CASE i \notin Degrees
  BY <1>1, <1>3 DEF At
<1> QED BY <1>2, <1>3

\* The vectors that hold a polynomial hold it shifted by nothing.
LEMMA SpreadIs ==
  ASSUME NEW a
  PROVE  IsShifted(Spread(a), a, 0)
<1> SUFFICES ASSUME NEW p \in 1..3, NEW l \in Vectors
             PROVE  Spread(a)[p][l] = At(a, Offset(p) + Lane(l) - 0)
  BY DEF IsShifted
<1>1. l \in 0..7  BY DEF Vectors
<1>2. CASE p = 1
  <2>1. Spread(a)[1][l] = IF l < 4 THEN a[l] ELSE a[l + 4]  BY DEF Spread
  <2> QED BY <1>1, <1>2, <2>1 DEF At, Degrees, Offset, Lane
<1>3. CASE p = 2
  <2>1. Spread(a)[2][l] = IF l < 4 THEN a[l + 4] ELSE a[l + 8]  BY DEF Spread
  <2>2. CASE l < 4
    <3>1. Offset(p) + Lane(l) - 0 = l + 4  BY <1>1, <1>3, <2>2 DEF Offset, Lane
    <3> QED BY <1>1, <1>3, <2>1, <2>2, <3>1 DEF At, Degrees
  <2>3. CASE ~(l < 4)
    <3>1. Offset(p) + Lane(l) - 0 = l + 8  BY <1>1, <1>3, <2>3 DEF Offset, Lane
    <3> QED BY <1>1, <1>3, <2>1, <2>3, <3>1 DEF At, Degrees
  <2> QED BY <2>2, <2>3
<1>4. CASE p = 3
  <2>1. Spread(a)[3][l] = IF l < 3 THEN a[l + 16] ELSE 0  BY DEF Spread
  <2>2. CASE l < 3
    <3>1. Offset(p) + Lane(l) - 0 = l + 16  BY <1>1, <1>4, <2>2 DEF Offset, Lane
    <3> QED BY <1>1, <1>4, <2>1, <2>2, <3>1 DEF At, Degrees
  <2>3. CASE ~(l < 3)
    <3>1. Offset(p) + Lane(l) - 0 >= 19  BY <1>1, <1>4, <2>3 DEF Offset, Lane
    <3> QED BY <1>4, <2>1, <2>3, <3>1 DEF At, Degrees
  <2> QED BY <2>2, <2>3
<1> QED BY <1>2, <1>3, <1>4

\* A product by z moves lanes up, and from one vector and group to the next: the
\* sums in Morph have one term.
LEMMA MorphIs ==
  ASSUME NEW a, IsPoly(a), NEW c, NEW s \in 0..2, IsShifted(c, a, s)
  PROVE  IsShifted(Morph(c), a, s + 1)
<1> SUFFICES ASSUME NEW p \in 1..3, NEW l \in 0..7
             PROVE  Morph(c)[p][l] = At(a, Offset(p) + Lane(l) - (s + 1))
  BY DEF IsShifted, Vectors
<1> DEFINE n == At(a, Offset(p) + Lane(l) - (s + 1))
<1>1. n \in Nat /\ (n + 0) % Word = n /\ (0 + n) % Word = n
  <2>1. n \in 0..(Word - 1)  BY AtWord
  <2> HIDE DEF n
  <2>2. n + 0 = n /\ 0 + n = n /\ n \in Nat  BY <2>1, WordNat
  <2> QED BY <2>1, <2>2, HoldsItself
<1>2. \A q \in 1..3, k \in 0..7 : c[q][k] = At(a, Offset(q) + Lane(k) - s)
  BY DEF IsShifted, Vectors
<1>3. /\ Offset(1) = 0 /\ Offset(2) = 4 /\ Offset(3) = 16
      /\ \A k \in 0..3 : Lane(k) = k
      /\ \A k \in 4..7 : Lane(k) = k + 4
  BY DEF Offset, Lane
<1>4. CASE p = 1
  <2>1. Morph(c)[1][l] = ((IF l % 4 = 0 THEN 0 ELSE c[1][l - 1])
                          + (IF l < 4 THEN 0 ELSE IF (l - 4) % 4 = 0 THEN c[2][(l - 4) + 3] ELSE 0)) % Word
    BY DEF Morph, AddVec, Up, Top, Permute, Vectors
  <2>2. CASE l = 0
    <3>1. Offset(p) + Lane(l) - (s + 1) = -(s + 1)  BY <1>3, <1>4, <2>2
    <3>2. n = 0  BY <3>1 DEF At, Degrees
    <3> QED BY <1>1, <1>4, <2>1, <2>2, <3>2
  <2>3. CASE l = 4
    <3>1. Offset(2) + Lane(3) - s = Offset(p) + Lane(l) - (s + 1)  BY <1>3, <1>4, <2>3
    <3>2. c[2][3] = n  BY <1>2, <3>1
    <3> QED BY <1>1, <1>4, <2>1, <2>3, <3>2
  <2>4. CASE l # 0 /\ l # 4
    <3>1. Offset(1) + Lane(l - 1) - s = Offset(p) + Lane(l) - (s + 1) /\ l - 1 \in 0..7
      BY <1>4, <2>4 DEF Offset, Lane
    <3>2. c[1][l - 1] = n  BY <1>2, <3>1
    <3>3. l % 4 # 0 /\ (l < 4 \/ (l - 4) % 4 # 0)  BY <2>4
    <3> HIDE DEF n
    <3>4. Morph(c)[1][l] = (n + 0) % Word  BY <2>1, <3>2, <3>3
    <3> QED BY <1>1, <1>4, <3>4 DEF n
  <2> QED BY <2>2, <2>3, <2>4
<1>5. CASE p = 2
  <2>1. Morph(c)[2][l] = ((IF l % 4 = 0 THEN 0 ELSE c[2][l - 1])
                          + (IF l % 4 = 0 THEN c[1][l + 3] ELSE 0)) % Word
    BY DEF Morph, AddVec, Up, Top, Vectors
  <2>2. CASE l \in {0, 4}
    <3>1. Offset(1) + Lane(l + 3) - s = Offset(p) + Lane(l) - (s + 1)
      BY <1>5, <2>2 DEF Offset, Lane
    <3>2. c[1][l + 3] = n /\ l % 4 = 0  BY <1>2, <2>2, <3>1
    <3> HIDE DEF n
    <3>3. Morph(c)[2][l] = (0 + n) % Word  BY <2>1, <3>2
    <3> QED BY <1>1, <1>5, <3>3 DEF n
  <2>3. CASE l \notin {0, 4}
    <3>1. Offset(2) + Lane(l - 1) - s = Offset(p) + Lane(l) - (s + 1) /\ l - 1 \in 0..7
      BY <1>5, <2>3 DEF Offset, Lane
    <3>2. c[2][l - 1] = n /\ l % 4 # 0  BY <1>2, <2>3, <3>1
    <3> HIDE DEF n
    <3>3. Morph(c)[2][l] = (n + 0) % Word  BY <2>1, <3>2
    <3> QED BY <1>1, <1>5, <3>3 DEF n
  <2> QED BY <2>2, <2>3
<1>6. CASE p = 3
  <2>1. Morph(c)[3][l] = ((IF l % 4 = 0 THEN 0 ELSE c[3][l - 1])
                          + (IF l < 4 THEN IF (l + 4) % 4 = 0 THEN c[2][(l + 4) + 3] ELSE 0 ELSE 0)) % Word
    BY DEF Morph, AddVec, Up, Top, Permute, Vectors
  <2>2. CASE l = 0
    <3>1. Offset(2) + Lane(7) - s = Offset(p) + Lane(l) - (s + 1)  BY <1>3, <1>6, <2>2
    <3>2. c[2][7] = n  BY <1>2, <3>1
    <3> QED BY <1>1, <1>6, <2>1, <2>2, <3>2
  <2>3. CASE l = 4
    <3>1. Offset(p) + Lane(l) - (s + 1) >= 19  BY <1>3, <1>6, <2>3
    <3>2. n = 0  BY <3>1 DEF At, Degrees
    <3> QED BY <1>1, <1>6, <2>1, <2>3, <3>2
  <2>4. CASE l # 0 /\ l # 4
    <3>1. Offset(3) + Lane(l - 1) - s = Offset(p) + Lane(l) - (s + 1) /\ l - 1 \in 0..7
      BY <1>6, <2>4 DEF Offset, Lane
    <3>2. c[3][l - 1] = n  BY <1>2, <3>1
    <3>3. l % 4 # 0 /\ (l < 4 => (l + 4) % 4 # 0)  BY <2>4
    <3> HIDE DEF n
    <3>4. Morph(c)[3][l] = (n + 0) % Word  BY <2>1, <3>2, <3>3
    <3> QED BY <1>1, <1>6, <3>4 DEF n
  <2> QED BY <2>2, <2>3, <2>4
<1> QED BY <1>4, <1>5, <1>6

\* the terms of degree d with b[k], for k in S
Part(a, b, S, d) == Total([k \in Degrees |-> IF k \in S THEN b[k] * At(a, d - k) ELSE 0])

\* Part of a diagonal is an integer.
LEMMA PartInt ==
  ASSUME NEW a, NEW b, Whole(a), Whole(b), NEW S, NEW d
  PROVE  Part(a, b, S, d) \in Int
<1> DEFINE f == [k \in Degrees |-> IF k \in S THEN b[k] * At(a, d - k) ELSE 0]
<1>1. Whole(f)
  <2> SUFFICES ASSUME NEW k \in Degrees PROVE f[k] \in Int  BY DEF Whole
  <2>1. b[k] \in Int /\ At(a, d - k) \in Int  BY AtInt DEF Whole
  <2> QED BY <2>1
<1> HIDE DEF f
<1>2. Total(f) \in Int  BY <1>1, TotalInt
<1> QED BY <1>2 DEF f, Part

\* A word holds what its value is congruent to.
LEMMA HoldsMod ==
  ASSUME NEW v \in Int, NEW n \in Int, Congruent(v, n, Word)
  PROVE  Holds(v % Word, n)
<1> DEFINE w == Word   r == v % w
<1>1. w \in Nat /\ w > 0 /\ w \in Int  BY WordNat
<1> HIDE DEF w
<1>2. r \in 0..(w - 1) /\ Congruent(r, v, w)  BY <1>1, ModCongruent
<1>3. r \in Int /\ Congruent(v, n, w)  BY <1>1, <1>2 DEF w
<1> HIDE DEF r
<1>4. Congruent(r, n, w)  BY <1>1, <1>2, <1>3, CongruentTrans
<1> QED BY <1>2, <1>4 DEF Holds, r, w

\* The vectors that are summed hold the coefficients that their place and lane say.
LEMMA SumsAre ==
  ASSUME NEW a, NEW b, IsPoly(a), IsPoly(b), NEW u \in 0..9, NEW l \in Vectors,
         Lost(a, b, 4 * u)[l] \in Int
  PROVE  Holds(Sums(a, b)[4 * u][l],
               Lost(a, b, 4 * u)[l] + Part(a, b, Terms(4 * u), 4 * u + Lane(l)))
<1> DEFINE t == 4 * u
           c0 == Spread(a)   c1 == Morph(c0)   c2 == Morph(c1)   c3 == Morph(c2)
           c == <<c0, c1, c2, c3>>
           part(k) == CASE t - 4 * (k \div 4) = 0 -> 1 [] t - 4 * (k \div 4) = 4 -> 2 [] OTHER -> 3
           g == [k \in Degrees |-> IF k \in Terms(t) THEN b[k] * c[(k % 4) + 1][part(k)][l] ELSE 0]
           h == [k \in Degrees |-> IF k \in Terms(t) THEN b[k] * At(a, (t + Lane(l)) - k) ELSE 0]
<1>1. Sums(a, b)[t][l] = (Lost(a, b, t)[l] + (Total(g) % Word)) % Word
  <2>1. t \in {4 * i : i \in 0..9}  OBVIOUS
  <2> QED BY <2>1 DEF Sums, Sum
<1>2. \A s \in 0..3 : IsShifted(c[s + 1], a, s)
  <2>1. IsShifted(c0, a, 0)  BY SpreadIs
  <2> HIDE DEF c0
  <2>2. IsShifted(c1, a, 0 + 1)  BY <2>1, MorphIs
  <2> HIDE DEF c1
  <2>3. IsShifted(c2, a, 1 + 1)  BY <2>2, MorphIs
  <2> HIDE DEF c2
  <2>4. IsShifted(c3, a, 2 + 1)  BY <2>3, MorphIs
  <2> HIDE DEF c3
  <2> QED BY <2>1, <2>2, <2>3, <2>4
<1>3. \A k \in Degrees : g[k] = h[k]
  <2> SUFFICES ASSUME NEW k \in Degrees, k \in Terms(t)
               PROVE  c[(k % 4) + 1][part(k)][l] = At(a, (t + Lane(l)) - k)
    OBVIOUS
  <2> DEFINE q == k \div 4   s == k % 4   p == part(k)
  <2>1. k \in Int /\ q \in Int /\ s \in 0..3 /\ k = 4 * q + s /\ t - 4 * q \in {0, 4, 16}
    BY DEF Degrees, Terms
  <2>2. p \in 1..3 /\ Offset(p) = t - 4 * q  BY <2>1 DEF Offset
  <2>3. c[s + 1][p][l] = At(a, Offset(p) + Lane(l) - s)
    <3>1. s \in 0..3  BY <2>1
    <3> HIDE DEF p, c, s
    <3> QED BY <1>2, <2>2, <3>1 DEF IsShifted
  <2>4. Offset(p) + Lane(l) - s = (t + Lane(l)) - k
    <3>1. Lane(l) \in Int /\ t \in Int  BY DEF Lane, Vectors
    <3> HIDE DEF p, q, s, t
    <3> QED BY <2>1, <2>2, <3>1
  <2> QED BY <2>3, <2>4
<1> HIDE DEF c
<1>4. Total(g) = Total(h) /\ Whole(h)
  <2>1. Whole(h)
    <3>1. Whole(a) /\ Whole(b)  BY PolyWhole
    <3> SUFFICES ASSUME NEW k \in Degrees PROVE h[k] \in Int  BY DEF Whole
    <3>2. b[k] \in Int /\ At(a, (t + Lane(l)) - k) \in Int  BY <3>1, AtInt DEF Whole
    <3> QED BY <3>2
  <2> HIDE DEF g, h
  <2> QED BY <1>3, <2>1, TotalSame
<1>5. Part(a, b, Terms(t), t + Lane(l)) = Total(h)  BY DEF Part
<1> DEFINE n == Total(h)   w == Word   r == n % w   e == Lost(a, b, t)[l]
<1> HIDE DEF g, h
<1>6. n \in Int /\ w \in Nat /\ w > 0 /\ w \in Int /\ e \in Int  BY <1>4, TotalInt, WordNat
<1>7. r \in 0..(w - 1) /\ Congruent(r, n, w)  BY <1>4, SumIs DEF Congruent
<1>8. r \in Int  BY <1>6, <1>7
<1>9. Sums(a, b)[t][l] = (e + r) % w  BY <1>1, <1>4
<1> HIDE DEF n, w, r, e, t
<1>10. Congruent(e + r, e + n, w) /\ e + r \in Int /\ e + n \in Int
  BY <1>6, <1>7, <1>8, CongruentRefl, CongruentSum
<1> DEFINE er == e + r   en == e + n
<1>11. Congruent(er, en, Word) /\ er \in Int /\ en \in Int  BY <1>10 DEF w
<1> HIDE DEF er, en
<1>12. Holds(er % Word, en)  BY <1>11, HoldsMod
<1> QED BY <1>5, <1>9, <1>12 DEF er, en, n, w, e, t

\* One term of a sum.
LEMMA TotalOne ==
  ASSUME NEW b, Whole(b), NEW n \in Int, NEW e \in Int, NEW f,
         \A k \in Degrees : f[k] = IF k = n THEN b[k] * e ELSE 0
  PROVE  Whole(f) /\ Total(f) = e * At(b, n)
<1>1. Whole(f)
  <2> SUFFICES ASSUME NEW k \in Degrees PROVE f[k] \in Int  BY DEF Whole
  <2>1. b[k] \in Int  BY DEF Whole
  <2>2. b[k] * e \in Int  BY <2>1
  <2> QED BY <2>2
<1>2. CASE n \in Degrees
  <2>1. \A k \in Degrees : k # n => f[k] = 0  OBVIOUS
  <2>2. Total(f) = f[n]  BY <1>1, <1>2, <2>1, TotalSingle
  <2>3. f[n] = b[n] * e /\ b[n] \in Int /\ At(b, n) = b[n]  BY <1>2 DEF Whole, At
  <2> DEFINE u == b[n]
  <2>4. u \in Int /\ f[n] = u * e /\ At(b, n) = u  BY <2>3
  <2> HIDE DEF u
  <2>5. u * e = e * u  BY <2>4
  <2> QED BY <1>1, <2>2, <2>4, <2>5
<1>3. CASE n \notin Degrees
  <2>1. \A k \in Degrees : f[k] = 0  BY <1>3
  <2>2. Total(f) = 0  BY <2>1, TotalZero
  <2>3. At(b, n) = 0 /\ e * 0 = 0  BY <1>3 DEF At
  <2> QED BY <1>1, <2>2, <2>3
<1> QED BY <1>2, <1>3

\* What the fourth lane drops, for a block of four coefficients of b from e.
Dropped(a, b, e, r) ==
    CASE r = 0 -> a[17] * At(b, e + 3) + a[18] * At(b, e + 2)
      [] r = 1 -> a[18] * At(b, e + 3)
      [] OTHER -> 0

\* What the fifth multiple of four drops is the products of the two highest coefficients.
LEMMA DroppedIs ==
  ASSUME NEW a, NEW b, Whole(a), Whole(b), NEW v \in 0..9, NEW r \in 0..3
  PROVE  Part(a, b, {k \in Degrees : k \div 4 = v - 5}, 4 * v + r) = Dropped(a, b, 4 * (v - 5), r)
<1> DEFINE S == {k \in Degrees : k \div 4 = v - 5}
           f == [k \in Degrees |-> IF k \in S THEN b[k] * At(a, (4 * v + r) - k) ELSE 0]
           e == 4 * (v - 5)
           a17 == a[17]   a18 == a[18]
           first == IF r = 0 THEN a17 ELSE 0
           second == IF r = 0 THEN a18 ELSE 0
           third == IF r = 1 THEN a18 ELSE 0
           g == [k \in Degrees |-> IF k = e + 3 THEN b[k] * (first + third) ELSE 0]
           h == [k \in Degrees |-> IF k = e + 2 THEN b[k] * second ELSE 0]
<1>1. a17 \in Int /\ a18 \in Int /\ e \in Int /\ e + 3 \in Int /\ e + 2 \in Int
  BY DEF Whole, Degrees
<1>2. first + third \in Int /\ second \in Int  BY <1>1
<1>3. \A k \in Degrees : f[k] = g[k] + 1 * h[k]
  <2> SUFFICES ASSUME NEW k \in Degrees PROVE f[k] = g[k] + 1 * h[k]  OBVIOUS
  <2> DEFINE q == k \div 4   s == k % 4   u == b[k]
  <2>1. k \in Int /\ q \in Int /\ s \in 0..3 /\ k = 4 * q + s /\ u \in Int
    BY DEF Degrees, Whole
  <2>2. f[k] = IF q = v - 5 THEN u * At(a, (4 * v + r) - k) ELSE 0  OBVIOUS
  <2>3. g[k] = IF k = e + 3 THEN u * (first + third) ELSE 0  OBVIOUS
  <2>4. h[k] = IF k = e + 2 THEN u * second ELSE 0  OBVIOUS
  <2>5. k = e + 3 <=> q = v - 5 /\ s = 3
    <3> HIDE DEF q, s
    <3>1. k = 4 * q + s /\ e = 4 * v - 20 /\ v \in Int /\ q \in Int  BY <2>1
    <3> HIDE DEF e
    <3> QED BY <2>1, <3>1
  <2>6. k = e + 2 <=> q = v - 5 /\ s = 2
    <3> HIDE DEF q, s
    <3>1. k = 4 * q + s /\ e = 4 * v - 20 /\ v \in Int /\ q \in Int  BY <2>1
    <3> HIDE DEF e
    <3> QED BY <2>1, <3>1
  <2>7. q = v - 5 => (4 * v + r) - k = 20 + r - s
    <3> HIDE DEF q, s
    <3> QED BY <2>1
  <2> DEFINE fk == f[k]   gk == g[k]   hk == h[k]   at == At(a, 20 + r - s)
  <2>8. /\ fk = IF q = v - 5 THEN u * at ELSE 0
        /\ gk = IF q = v - 5 /\ s = 3 THEN u * (first + third) ELSE 0
        /\ hk = IF q = v - 5 /\ s = 2 THEN u * second ELSE 0
    BY <2>2, <2>3, <2>4, <2>5, <2>6, <2>7
  <2>9. at = CASE r = 0 /\ s = 3 -> a17 [] r = 0 /\ s = 2 -> a18 [] r = 1 /\ s = 3 -> a18
               [] OTHER -> 0
    <3> DEFINE j == 20 + r - s
    <3>1. /\ j \in Int
          /\ (r = 0 /\ s = 3) => j = 17
          /\ (r = 0 /\ s = 2) => j = 18
          /\ (r = 1 /\ s = 3) => j = 18
          /\ ~(r = 0 /\ s = 3) /\ ~(r = 0 /\ s = 2) /\ ~(r = 1 /\ s = 3) => j > 18
      <4> HIDE DEF s
      <4> QED BY <2>1
    <3> HIDE DEF j, s
    <3>2. at = IF j \in 0..18 THEN a[j] ELSE 0  BY DEF At, Degrees, j
    <3>3. CASE r = 0 /\ s = 3
      BY <3>1, <3>2, <3>3
    <3>4. CASE r = 0 /\ s = 2
      BY <3>1, <3>2, <3>4
    <3>5. CASE r = 1 /\ s = 3
      BY <3>1, <3>2, <3>5
    <3>6. CASE ~(r = 0 /\ s = 3) /\ ~(r = 0 /\ s = 2) /\ ~(r = 1 /\ s = 3)
      <4>1. at = 0  BY <3>1, <3>2, <3>6
      <4> HIDE DEF at
      <4> QED BY <3>6, <4>1
    <3> QED BY <3>3, <3>4, <3>5, <3>6
  <2> HIDE DEF f, g, h, fk, gk, hk, at, u, q, s, a17, a18
  <2> SUFFICES fk = gk + 1 * hk  BY DEF fk, gk, hk
  <2>10. u * 0 = 0 /\ u * a17 \in Int /\ u * a18 \in Int /\ a17 + 0 = a17 /\ 0 + a18 = a18
         /\ a17 \in Int /\ a18 \in Int
    BY <1>1, <2>1
  <2>11. CASE q # v - 5
    BY <2>8, <2>11
  <2>12. CASE q = v - 5 /\ s \in {0, 1}
    <3>1. at = 0 /\ fk = u * 0 /\ gk = 0 /\ hk = 0  BY <2>8, <2>9, <2>12
    <3> QED BY <2>10, <3>1
  <2>13. CASE q = v - 5 /\ s = 2
    <3>1. fk = u * at /\ gk = 0 /\ hk = u * second /\ at = second  BY <2>8, <2>9, <2>13
    <3>2. hk \in Int  BY <2>10, <3>1
    <3> QED BY <3>1, <3>2
  <2>14. CASE q = v - 5 /\ s = 3
    <3>1. fk = u * at /\ gk = u * (first + third) /\ hk = 0  BY <2>8, <2>14
    <3>2. at = first + third  BY <2>9, <2>10, <2>14
    <3>3. first + third \in Int  BY <2>10
    <3> HIDE DEF first, third
    <3>4. gk \in Int  BY <2>1, <3>1, <3>3
    <3> QED BY <3>1, <3>2, <3>4
  <2> QED BY <2>1, <2>8, <2>11, <2>12, <2>13, <2>14 DEF fk, gk, hk
<1>4. \A k \in Degrees : g[k] = IF k = e + 3 THEN b[k] * (first + third) ELSE 0  OBVIOUS
<1>5. \A k \in Degrees : h[k] = IF k = e + 2 THEN b[k] * second ELSE 0  OBVIOUS
<1>6. Part(a, b, S, 4 * v + r) = Total(f)  BY DEF Part
<1> DEFINE m == first + third
<1> HIDE DEF f, g, h, first, second, third, e, m
<1>7. Whole(g) /\ Total(g) = m * At(b, e + 3)  BY <1>1, <1>2, <1>4, TotalOne DEF m
<1>8. Whole(h) /\ Total(h) = second * At(b, e + 2)  BY <1>1, <1>2, <1>5, TotalOne
<1>9. Total(f) = Total(g) + 1 * Total(h)  BY <1>3, <1>7, <1>8, TotalLinear
<1> DEFINE b3 == At(b, e + 3)   b2 == At(b, e + 2)
<1>10. b3 \in Int /\ b2 \in Int /\ m \in Int /\ second \in Int  BY <1>2, AtInt DEF m
<1>11. Total(f) = m * b3 + 1 * (second * b2)  BY <1>7, <1>8, <1>9
<1>12. Dropped(a, b, e, r) = CASE r = 0 -> a17 * b3 + a18 * b2 [] r = 1 -> a18 * b3 [] OTHER -> 0
  BY DEF Dropped
<1> HIDE DEF a17, a18, b3, b2
<1>13. CASE r = 0
  <2>1. m = a17 /\ second = a18  BY <1>1, <1>13 DEF m, first, second, third
  <2>2. 1 * (a18 * b2) = a18 * b2  BY <1>1, <1>10
  <2> QED BY <1>6, <1>11, <1>12, <1>13, <2>1, <2>2 DEF e
<1>14. CASE r = 1
  <2>1. m = a18 /\ second = 0  BY <1>1, <1>14 DEF m, first, second, third
  <2>2. a18 * b3 + 1 * (0 * b2) = a18 * b3  BY <1>1, <1>10
  <2> QED BY <1>6, <1>11, <1>12, <1>14, <2>1, <2>2 DEF e
<1>15. CASE r \notin {0, 1}
  <2>1. m = 0 /\ second = 0  BY <1>15 DEF m, first, second, third
  <2>2. 0 * b3 + 1 * (0 * b2) = 0  BY <1>10
  <2> QED BY <1>6, <1>11, <1>12, <1>15, <2>1, <2>2 DEF e
<1> QED BY <1>13, <1>14, <1>15

\* What is added back: in the lower group at offset 4 v, or in the upper group at 4 v - 8.
LEMMA LostIs ==
  ASSUME NEW a, NEW b, Whole(a), Whole(b)
  PROVE  /\ \A u \in 0..9, l \in 0..7 : Lost(a, b, 4 * u)[l] \in Int
         /\ \A v \in {0, 1, 9}, r \in 0..3 : Lost(a, b, 4 * v)[r] = Dropped(a, b, 4 * (v - 5), r)
         /\ \A v \in 2..8, r \in 0..3 :
               Lost(a, b, 4 * v)[r] + Lost(a, b, 4 * (v - 2))[4 + r] = Dropped(a, b, 4 * (v - 5), r)
<1> DEFINE coef(k) == At(b, k)   a17 == a[17]   a18 == a[18]
<1>1. a17 \in Int /\ a18 \in Int /\ \A k : coef(k) \in Int  BY AtInt DEF Whole, Degrees
<1>2. \A k \in 0..18 : b[k] = coef(k)  BY DEF At, Degrees
<1>3. \A k \in Int : k < 0 \/ k > 18 => coef(k) = 0  BY DEF At, Degrees
<1>4. ASSUME NEW u \in 0..9, NEW l \in 0..7
      PROVE  Lost(a, b, 4 * u)[l] =
                CASE u = 5 /\ l = 0 -> a17 * coef(3) + a18 * coef(2)
                  [] u = 5 /\ l = 1 -> a18 * coef(3)
                  [] u = 5 /\ l = 4 -> a17 * coef(11) + a18 * coef(10)
                  [] u = 5 /\ l = 5 -> a18 * coef(11)
                  [] u = 6 /\ l = 0 -> a17 * coef(7) + a18 * coef(6)
                  [] u = 6 /\ l = 1 -> a18 * coef(7)
                  [] u = 6 /\ l = 4 -> a17 * coef(15) + a18 * coef(14)
                  [] u = 6 /\ l = 5 -> a18 * coef(15)
                  [] u = 9 /\ l = 0 -> a18 * coef(18)
                  [] OTHER -> 0
  <2>1. l \in Vectors  BY DEF Vectors
  <2>2. CASE u = 5
    <3>1. Lost(a, b, 20)[l] = CASE l \in {0, 4} -> a[17] * b[3 + 2 * l] + a[18] * b[2 + 2 * l]
               [] l \in {1, 5} -> a[18] * b[1 + 2 * l] [] OTHER -> 0
      BY <2>1 DEF Lost
    <3>2. 4 * u = 20  BY <2>2
    <3>3. CASE l \in {0, 4}
      BY <1>2, <2>2, <3>1, <3>2, <3>3
    <3>4. CASE l \in {1, 5}
      BY <1>2, <2>2, <3>1, <3>2, <3>4
    <3>5. CASE l \notin {0, 1, 4, 5}
      BY <2>2, <3>1, <3>2, <3>5
    <3> QED BY <3>3, <3>4, <3>5
  <2>3. CASE u = 6
    <3>1. Lost(a, b, 24)[l] = CASE l \in {0, 4} -> a[17] * b[7 + 2 * l] + a[18] * b[6 + 2 * l]
               [] l \in {1, 5} -> a[18] * b[5 + 2 * l] [] OTHER -> 0
      BY <2>1 DEF Lost
    <3>2. 4 * u = 24  BY <2>3
    <3>3. CASE l \in {0, 4}
      BY <1>2, <2>3, <3>1, <3>2, <3>3
    <3>4. CASE l \in {1, 5}
      BY <1>2, <2>3, <3>1, <3>2, <3>4
    <3>5. CASE l \notin {0, 1, 4, 5}
      BY <2>3, <3>1, <3>2, <3>5
    <3> QED BY <3>3, <3>4, <3>5
  <2>4. CASE u = 9
    <3>1. Lost(a, b, 36)[l] = IF l = 0 THEN a[18] * b[18] ELSE 0
      BY <2>1 DEF Lost, SquareOfTop
    <3>2. 4 * u = 36  BY <2>4
    <3> QED BY <1>2, <2>4, <3>1, <3>2
  <2>5. CASE u \notin {5, 6, 9}
    <3>1. 4 * u \notin {20, 24, 36}  BY <2>5
    <3>2. Lost(a, b, 4 * u)[l] = 0  BY <2>1, <3>1 DEF Lost
    <3> QED BY <2>5, <3>2
  <2> QED BY <2>2, <2>3, <2>4, <2>5
<1>5. ASSUME NEW v \in 0..9, NEW r \in 0..3
      PROVE  Dropped(a, b, 4 * (v - 5), r) =
                CASE r = 0 -> a17 * coef(4 * v - 17) + a18 * coef(4 * v - 18)
                  [] r = 1 -> a18 * coef(4 * v - 17)
                  [] OTHER -> 0
  <2>1. 4 * (v - 5) + 3 = 4 * v - 17 /\ 4 * (v - 5) + 2 = 4 * v - 18  OBVIOUS
  <2> QED BY <2>1 DEF Dropped
<1> HIDE DEF coef, a17, a18
<1>6. \A k : a17 * coef(k) \in Int /\ a18 * coef(k) \in Int
  <2> SUFFICES ASSUME NEW k PROVE a17 * coef(k) \in Int /\ a18 * coef(k) \in Int  OBVIOUS
  <2> DEFINE e == coef(k)
  <2>1. e \in Int  BY <1>1
  <2> HIDE DEF e
  <2>2. a17 * e \in Int /\ a18 * e \in Int  BY <1>1, <2>1
  <2> QED BY <2>2 DEF e
<1>7. ASSUME NEW u \in 0..9, NEW l \in 0..7 PROVE Lost(a, b, 4 * u)[l] \in Int
  <2>1. \A i, j : a17 * coef(i) + a18 * coef(j) \in Int
    <3> SUFFICES ASSUME NEW i, NEW j PROVE a17 * coef(i) + a18 * coef(j) \in Int  OBVIOUS
    <3> DEFINE e == a17 * coef(i)   f == a18 * coef(j)
    <3>1. e \in Int /\ f \in Int  BY <1>6
    <3> HIDE DEF e, f
    <3>2. e + f \in Int  BY <3>1
    <3> QED BY <3>2 DEF e, f
  <2>2. 0 \in Int  OBVIOUS
  <2> QED BY <1>4, <1>6, <2>1, <2>2
<1>8. ASSUME NEW v \in 0..4, NEW r \in 0..3 PROVE Dropped(a, b, 4 * (v - 5), r) = 0
  <2>1. coef(4 * v - 17) = 0 /\ coef(4 * v - 18) = 0  BY <1>3
  <2>2. a17 * 0 + a18 * 0 = 0 /\ a18 * 0 = 0  BY <1>1
  <2>3. v \in 0..9  OBVIOUS
  <2> QED BY <1>5, <2>1, <2>2, <2>3
<1>9. ASSUME NEW v \in {0, 1, 9}, NEW r \in 0..3
      PROVE  Lost(a, b, 4 * v)[r] = Dropped(a, b, 4 * (v - 5), r)
  <2>1. CASE v \in {0, 1}
    <3>1. Lost(a, b, 4 * v)[r] = 0  BY <1>4, <2>1
    <3>2. v \in 0..4  BY <2>1
    <3> QED BY <1>8, <3>1, <3>2
  <2>2. CASE v = 9
    <3>1. coef(19) = 0 /\ 4 * v - 17 = 19 /\ 4 * v - 18 = 18  BY <1>3, <2>2
    <3>2. Dropped(a, b, 4 * (v - 5), r) = IF r = 0 THEN a18 * coef(18) ELSE 0
      <4> DEFINE e == a18 * coef(18)
      <4>1. e \in Int  BY <1>6
      <4>2. Dropped(a, b, 4 * (v - 5), r) = CASE r = 0 -> a17 * 0 + e [] r = 1 -> a18 * 0 [] OTHER -> 0
        BY <1>5, <2>2, <3>1
      <4> HIDE DEF e
      <4>3. a17 * 0 + e = e /\ a18 * 0 = 0  BY <1>1, <4>1
      <4>4. Dropped(a, b, 4 * (v - 5), r) = IF r = 0 THEN e ELSE 0  BY <4>2, <4>3
      <4> QED BY <4>4 DEF e
    <3> QED BY <1>4, <2>2, <3>2
  <2> QED BY <2>1, <2>2
<1>10. ASSUME NEW v \in 2..8, NEW r \in 0..3
       PROVE  Lost(a, b, 4 * v)[r] + Lost(a, b, 4 * (v - 2))[4 + r] = Dropped(a, b, 4 * (v - 5), r)
  <2> DEFINE low == Lost(a, b, 4 * v)[r]   up == Lost(a, b, 4 * (v - 2))[4 + r]
             all == Dropped(a, b, 4 * (v - 5), r)
  <2>1. v - 2 \in 0..9 /\ v \in 0..9 /\ 4 + r \in 0..7 /\ r \in 0..7  OBVIOUS
  <2>2. low \in Int /\ up \in Int  BY <1>7, <2>1
  <2>3. CASE v \in 2..4
    <3>1. low = 0 /\ up = 0  BY <1>4, <2>1, <2>3
    <3>2. all = 0  BY <1>8, <2>3
    <3> HIDE DEF low, up, all
    <3> QED BY <3>1, <3>2 DEF low, up, all
  <2>4. CASE v \in {5, 6}
    <3>1. up = 0  BY <1>4, <2>1, <2>4
    <3>2. low = all
      <4>1. CASE v = 5
        <5>1. 4 * v - 17 = 3 /\ 4 * v - 18 = 2  BY <4>1
        <5> QED BY <1>4, <1>5, <2>1, <4>1, <5>1
      <4>2. CASE v = 6
        <5>1. 4 * v - 17 = 7 /\ 4 * v - 18 = 6  BY <4>2
        <5> QED BY <1>4, <1>5, <2>1, <4>2, <5>1
      <4> QED BY <2>4, <4>1, <4>2
    <3> HIDE DEF low, up, all
    <3> QED BY <2>2, <3>1, <3>2 DEF low, up, all
  <2>5. CASE v \in {7, 8}
    <3>1. low = 0  BY <1>4, <2>1, <2>5
    <3>2. up = all
      <4>1. CASE v = 7
        <5>1. 4 * v - 17 = 11 /\ 4 * v - 18 = 10 /\ v - 2 = 5  BY <4>1
        <5> QED BY <1>4, <1>5, <2>1, <4>1, <5>1
      <4>2. CASE v = 8
        <5>1. 4 * v - 17 = 15 /\ 4 * v - 18 = 14 /\ v - 2 = 6  BY <4>2
        <5> QED BY <1>4, <1>5, <2>1, <4>2, <5>1
      <4> QED BY <2>5, <4>1, <4>2
    <3> HIDE DEF low, up, all
    <3> QED BY <2>2, <3>1, <3>2 DEF low, up, all
  <2> QED BY <2>3, <2>4, <2>5
<1> QED BY <1>7, <1>9, <1>10

\* A product, by the terms of two sets and those of the block that is dropped.
LEMMA DiagParts ==
  ASSUME NEW a, NEW b, Whole(a), Whole(b), NEW v \in 0..9, NEW r \in 0..3, NEW S, NEW T,
         \A k \in Degrees : /\ ~(k \in S /\ k \in T)
                            /\ (k \in S \/ k \in T) => k \div 4 # v - 5,
         \A k \in Degrees : k \notin S /\ k \notin T /\ k \div 4 # v - 5
                               => (4 * v + r) - k \notin Degrees
  PROVE  Diag(b, a, 4 * v + r) = Part(a, b, S, 4 * v + r) + Part(a, b, T, 4 * v + r)
                                 + Dropped(a, b, 4 * (v - 5), r)
<1> DEFINE d == 4 * v + r
           U == {k \in Degrees : k \div 4 = v - 5}
           term(k) == b[k] * At(a, d - k)
           f == [k \in Degrees |-> b[k] * At(a, d - k)]
           g1 == [k \in Degrees |-> IF k \in S THEN b[k] * At(a, d - k) ELSE 0]
           g2 == [k \in Degrees |-> IF k \in T THEN b[k] * At(a, d - k) ELSE 0]
           g3 == [k \in Degrees |-> IF k \in U THEN b[k] * At(a, d - k) ELSE 0]
           none == [k \in Degrees |-> 0]
<1>1. \A k \in Degrees : term(k) \in Int
  <2> SUFFICES ASSUME NEW k \in Degrees PROVE term(k) \in Int  OBVIOUS
  <2>1. b[k] \in Int /\ At(a, d - k) \in Int  BY AtInt DEF Whole
  <2> QED BY <2>1
<1>2. \A k \in Degrees : k \notin S /\ k \notin T /\ k \notin U => term(k) = 0
  <2> SUFFICES ASSUME NEW k \in Degrees, k \notin S, k \notin T, k \notin U PROVE term(k) = 0
    OBVIOUS
  <2>1. d - k \notin Degrees  OBVIOUS
  <2>2. At(a, d - k) = 0 /\ b[k] \in Int  BY <2>1 DEF At, Whole
  <2> QED BY <2>2
<1>3. \A k \in Degrees : f[k] = g1[k] + g2[k] + g3[k] + none[k]
  <2> SUFFICES ASSUME NEW k \in Degrees PROVE f[k] = g1[k] + g2[k] + g3[k] + none[k]  OBVIOUS
  <2> DEFINE e == term(k)
  <2>1. /\ f[k] = e /\ none[k] = 0
        /\ g1[k] = IF k \in S THEN e ELSE 0
        /\ g2[k] = IF k \in T THEN e ELSE 0
        /\ g3[k] = IF k \in U THEN e ELSE 0
    OBVIOUS
  <2>2. /\ e \in Int /\ ~(k \in S /\ k \in T) /\ (k \in U => k \notin S /\ k \notin T)
        /\ (k \notin S /\ k \notin T /\ k \notin U => e = 0)
    BY <1>1, <1>2
  <2> HIDE DEF e, f, g1, g2, g3, none, U
  <2> QED BY <2>1, <2>2
<1>4. Whole(g1) /\ Whole(g2) /\ Whole(g3) /\ Whole(none)  BY <1>1 DEF Whole
<1>5. /\ Diag(b, a, d) = Total(f) /\ Part(a, b, S, d) = Total(g1) /\ Part(a, b, T, d) = Total(g2)
      /\ Part(a, b, U, d) = Total(g3)
  BY DEF Diag, Part
<1>6. Total(none) = 0
  <2>1. \A j \in Degrees : none[j] = 0  OBVIOUS
  <2> HIDE DEF none
  <2> QED BY <2>1, TotalZero
<1> HIDE DEF f, g1, g2, g3, none
<1>7. Total(f) = Total(g1) + Total(g2) + Total(g3) + Total(none)  BY <1>3, <1>4, TotalFour
<1>8. Total(g1) \in Int /\ Total(g2) \in Int /\ Total(g3) \in Int  BY <1>4, TotalInt
<1>9. Part(a, b, U, d) = Dropped(a, b, 4 * (v - 5), r)  BY DroppedIs
<1> HIDE DEF U, d
<1>10. Total(f) = Total(g1) + Total(g2) + Total(g3)  BY <1>6, <1>7, <1>8
<1> QED BY <1>5, <1>9, <1>10 DEF d

\* The degree of a term, with its place in a block of four.
LEMMA BlockOf ==
  ASSUME NEW k \in Degrees
  PROVE  /\ k \div 4 \in 0..4 /\ k % 4 \in 0..3 /\ k = 4 * (k \div 4) + (k % 4) /\ k \in Int
         /\ \A u \in Int : k \in Terms(4 * u) <=> u - (k \div 4) \in {0, 1, 4}
<1>1. k \div 4 \in 0..4 /\ k % 4 \in 0..3 /\ k = 4 * (k \div 4) + (k % 4) /\ k \in Int
  BY DEF Degrees
<1>2. ASSUME NEW u \in Int PROVE k \in Terms(4 * u) <=> u - (k \div 4) \in {0, 1, 4}
  <2> DEFINE q == k \div 4
  <2>1. q \in Int  BY <1>1
  <2>2. k \in Terms(4 * u) <=> 4 * u - 4 * q \in {0, 4, 16}  BY DEF Terms, Degrees
  <2> HIDE DEF q
  <2>3. 4 * u - 4 * q \in {0, 4, 16} <=> u - q \in {0, 1, 4}  BY <2>1
  <2> QED BY <2>2, <2>3 DEF q
<1> QED BY <1>1, <1>2

\* the sums that lanes and groups hold of a product
IsSummed(t, a, b) ==
    /\ \A v \in {0, 1, 9}, r \in 0..3 : Holds(t[4 * v][r], Diag(b, a, 4 * v + r))
    /\ \A v \in 2..8, r \in 0..3 :
          /\ Holds((t[4 * v][r] + t[4 * (v - 2)][4 + r]) % Word, Diag(b, a, 4 * v + r))
          /\ Holds((t[4 * (v - 2)][4 + r] + t[4 * v][r]) % Word, Diag(b, a, 4 * v + r))

\* Degrees whose terms are in one group of one vector.
LEMMA LowBlock ==
  ASSUME NEW a, NEW b, IsPoly(a), IsPoly(b), NEW v \in {0, 1, 9}, NEW r \in 0..3
  PROVE  Holds(Sums(a, b)[4 * v][r], Diag(b, a, 4 * v + r))
<1> DEFINE S == Terms(4 * v)   d == 4 * v + r   low == Part(a, b, S, d)   drop == Lost(a, b, 4 * v)[r]
<1>1. Whole(a) /\ Whole(b) /\ v \in 0..9 /\ v \in Int  BY PolyWhole
<1>2. \A k \in Degrees : /\ ~(k \in S /\ k \in {})
                         /\ (k \in S \/ k \in {}) => k \div 4 # v - 5
  <2> SUFFICES ASSUME NEW k \in Degrees, k \in S PROVE k \div 4 # v - 5  OBVIOUS
  <2> DEFINE q == k \div 4
  <2>1. q \in Int /\ v - q \in {0, 1, 4}  BY <1>1, BlockOf
  <2> HIDE DEF q
  <2>2. q # v - 5  BY <1>1, <2>1
  <2> QED BY <2>2 DEF q
<1>3. \A k \in Degrees : k \notin S /\ k \notin {} /\ k \div 4 # v - 5
                            => (4 * v + r) - k \notin Degrees
  <2> SUFFICES ASSUME NEW k \in Degrees, k \notin S, k \div 4 # v - 5
               PROVE  (4 * v + r) - k \notin Degrees
    OBVIOUS
  <2> DEFINE q == k \div 4   s == k % 4
  <2>1. q \in 0..4 /\ s \in 0..3 /\ k = 4 * q + s /\ v - q \notin {0, 1, 4} /\ q # v - 5
    BY <1>1, BlockOf
  <2> HIDE DEF q, s
  <2> QED BY <1>1, <2>1 DEF Degrees
<1>4. Diag(b, a, d) = low + Part(a, b, {}, d) + Dropped(a, b, 4 * (v - 5), r)
  <2> HIDE DEF S
  <2> QED BY <1>1, <1>2, <1>3, DiagParts
<1>5. Part(a, b, {}, d) = 0
  <2> DEFINE f == [k \in Degrees |-> IF k \in {} THEN b[k] * At(a, d - k) ELSE 0]
  <2>1. \A k \in Degrees : f[k] = 0  OBVIOUS
  <2>2. Part(a, b, {}, d) = Total(f)  BY DEF Part
  <2> HIDE DEF f
  <2> QED BY <2>1, <2>2, TotalZero
<1>6. drop \in Int /\ drop = Dropped(a, b, 4 * (v - 5), r) /\ low \in Int
  BY <1>1, LostIs, PartInt
<1>7. Holds(Sums(a, b)[4 * v][r], drop + Part(a, b, S, 4 * v + Lane(r)))
  BY <1>1, <1>6, SumsAre DEF Vectors
<1>8. Lane(r) = r  BY DEF Lane
<1>9. Diag(b, a, d) = drop + low
  <2> HIDE DEF low, drop
  <2> QED BY <1>4, <1>5, <1>6
<1> QED BY <1>7, <1>8, <1>9

\* Degrees whose terms are in two groups, which the cross-lane moves add.
LEMMA TwoBlocks ==
  ASSUME NEW a, NEW b, IsPoly(a), IsPoly(b), NEW v \in 2..8, NEW r \in 0..3
  PROVE  /\ Holds((Sums(a, b)[4 * v][r] + Sums(a, b)[4 * (v - 2)][4 + r]) % Word,
                  Diag(b, a, 4 * v + r))
         /\ Holds((Sums(a, b)[4 * (v - 2)][4 + r] + Sums(a, b)[4 * v][r]) % Word,
                  Diag(b, a, 4 * v + r))
<1> DEFINE S == Terms(4 * v)   T == Terms(4 * (v - 2))   d == 4 * v + r
           low == Part(a, b, S, d)   up == Part(a, b, T, d)
           drop == Lost(a, b, 4 * v)[r]   rest == Lost(a, b, 4 * (v - 2))[4 + r]
<1>1. Whole(a) /\ Whole(b) /\ v \in 0..9 /\ v \in Int /\ v - 2 \in 0..9 /\ v - 2 \in Int
  <2>1. v \in 0..9 /\ v \in Int /\ v - 2 \in 0..9 /\ v - 2 \in Int  OBVIOUS
  <2> QED BY <2>1, PolyWhole
<1>2. \A k \in Degrees : /\ ~(k \in S /\ k \in T)
                         /\ (k \in S \/ k \in T) => k \div 4 # v - 5
  <2> SUFFICES ASSUME NEW k \in Degrees
               PROVE  ~(k \in S /\ k \in T) /\ ((k \in S \/ k \in T) => k \div 4 # v - 5)
    OBVIOUS
  <2> DEFINE q == k \div 4
  <2>1. q \in Int /\ (k \in S <=> v - q \in {0, 1, 4}) /\ (k \in T <=> (v - 2) - q \in {0, 1, 4})
    <3> DEFINE u == v - 2
    <3>1. v \in Int /\ u \in Int  BY <1>1
    <3>2. k \div 4 \in 0..4 /\ \A w \in Int : k \in Terms(4 * w) <=> w - (k \div 4) \in {0, 1, 4}
      BY BlockOf
    <3> HIDE DEF u
    <3>3. /\ k \in Terms(4 * v) <=> v - (k \div 4) \in {0, 1, 4}
          /\ k \in Terms(4 * u) <=> u - (k \div 4) \in {0, 1, 4}
      BY <3>1, <3>2
    <3> QED BY <3>2, <3>3 DEF u
  <2> HIDE DEF q, S, T
  <2>2. ~(k \in S /\ k \in T) /\ ((k \in S \/ k \in T) => q # v - 5)  BY <1>1, <2>1
  <2> QED BY <2>2 DEF q
<1>3. \A k \in Degrees : k \notin S /\ k \notin T /\ k \div 4 # v - 5
                            => (4 * v + r) - k \notin Degrees
  <2> SUFFICES ASSUME NEW k \in Degrees, k \notin S, k \notin T, k \div 4 # v - 5
               PROVE  (4 * v + r) - k \notin Degrees
    OBVIOUS
  <2> DEFINE q == k \div 4   s == k % 4
  <2>1. /\ q \in 0..4 /\ s \in 0..3 /\ k = 4 * q + s /\ v - q \notin {0, 1, 4}
        /\ (v - 2) - q \notin {0, 1, 4} /\ q # v - 5
    BY <1>1, BlockOf
  <2> HIDE DEF q, s
  <2> QED BY <1>1, <2>1 DEF Degrees
<1>4. Diag(b, a, d) = low + up + Dropped(a, b, 4 * (v - 5), r)
  <2> HIDE DEF S, T
  <2> QED BY <1>1, <1>2, <1>3, DiagParts
<1>5. /\ drop \in Int /\ rest \in Int /\ drop + rest = Dropped(a, b, 4 * (v - 5), r)
      /\ low \in Int /\ up \in Int
  <2>1. r \in 0..7 /\ 4 + r \in 0..7  OBVIOUS
  <2> QED BY <1>1, <2>1, LostIs, PartInt
<1>6. Holds(Sums(a, b)[4 * v][r], drop + Part(a, b, S, 4 * v + Lane(r)))
  BY <1>1, <1>5, SumsAre DEF Vectors
<1>7. Holds(Sums(a, b)[4 * (v - 2)][4 + r], rest + Part(a, b, T, 4 * (v - 2) + Lane(4 + r)))
  <2>1. 4 + r \in Vectors  BY DEF Vectors
  <2> QED BY <1>1, <1>5, <2>1, SumsAre
<1>8. 4 * v + Lane(r) = d /\ 4 * (v - 2) + Lane(4 + r) = d  BY <1>1 DEF Lane
<1> DEFINE e == drop + low   f == rest + up
<1>9. Diag(b, a, d) = e + f /\ e \in Int /\ f \in Int
  <2> HIDE DEF low, up, drop, rest
  <2> QED BY <1>4, <1>5
<1>10. Holds(Sums(a, b)[4 * v][r], e) /\ Holds(Sums(a, b)[4 * (v - 2)][4 + r], f)
  BY <1>6, <1>7, <1>8
<1> HIDE DEF e, f
<1>11. /\ Holds((Sums(a, b)[4 * v][r] + Sums(a, b)[4 * (v - 2)][4 + r]) % Word, e + f)
       /\ Holds((Sums(a, b)[4 * (v - 2)][4 + r] + Sums(a, b)[4 * v][r]) % Word, f + e)
  BY <1>9, <1>10, HoldsSum
<1>12. f + e = e + f  BY <1>9
<1> QED BY <1>9, <1>11, <1>12

\* The vectors of sums hold, together, all the degrees of the product.
LEMMA SumsSummed ==
  ASSUME NEW a, NEW b, IsPoly(a), IsPoly(b)
  PROVE  IsSummed(Sums(a, b), a, b)
<1> HIDE DEF Word
<1>1. ASSUME NEW v \in {0, 1, 9}, NEW r \in 0..3
      PROVE  Holds(Sums(a, b)[4 * v][r], Diag(b, a, 4 * v + r))
  BY LowBlock
<1>2. ASSUME NEW v \in 2..8, NEW r \in 0..3
      PROVE  /\ Holds((Sums(a, b)[4 * v][r] + Sums(a, b)[4 * (v - 2)][4 + r]) % Word,
                      Diag(b, a, 4 * v + r))
             /\ Holds((Sums(a, b)[4 * (v - 2)][4 + r] + Sums(a, b)[4 * v][r]) % Word,
                      Diag(b, a, 4 * v + r))
  BY TwoBlocks
<1> QED BY <1>1, <1>2 DEF IsSummed

\* Nothing is added to a word.
LEMMA HoldsNothing ==
  ASSUME NEW v, NEW n, Holds(v, n)
  PROVE  (v + 0) % Word = v /\ (0 + v) % Word = v /\ v \in Int
<1>1. v \in 0..(Word - 1)  BY DEF Holds
<1>2. v + 0 = v /\ 0 + v = v /\ v \in Int  BY <1>1, WordNat
<1> QED BY <1>1, <1>2, HoldsItself

\* the vectors after the moves across groups
IsCrossed(c, a, b) ==
    /\ \A j \in {0, 4, 16, 20}, l \in 0..7 : Holds(c[j][l], Diag(b, a, j + Lane(l)))
    /\ \A j \in {32, 36}, l \in 0..3 : Holds(c[j][l], Diag(b, a, j + l))

\* After the cross-lane moves each degree is in one lane.
LEMMA CrossedIs ==
  ASSUME NEW t, NEW a, NEW b, IsSummed(t, a, b)
  PROVE  IsCrossed(Crossed(t), a, b)
<1>1. ASSUME NEW v \in {0, 1, 9}, NEW r \in 0..3
      PROVE  /\ Holds(t[4 * v][r], Diag(b, a, 4 * v + r))
             /\ (t[4 * v][r] + 0) % Word = t[4 * v][r]
  <2>1. Holds(t[4 * v][r], Diag(b, a, 4 * v + r))  BY DEF IsSummed
  <2> QED BY <2>1, HoldsNothing
<1>2. ASSUME NEW v \in 2..8, NEW r \in 0..3
      PROVE  /\ Holds((t[4 * v][r] + t[4 * (v - 2)][4 + r]) % Word, Diag(b, a, 4 * v + r))
             /\ Holds((t[4 * (v - 2)][4 + r] + t[4 * v][r]) % Word, Diag(b, a, 4 * v + r))
  BY DEF IsSummed
<1>10. \A r \in 0..3, e \in {8, 12, 16, 20, 24, 28, 32} : \A f, g, d : f = e - 8 /\ g = 4 + r /\ d = e + r
         => /\ Holds((t[e][r] + t[f][g]) % Word, Diag(b, a, d))
            /\ Holds((t[f][g] + t[e][r]) % Word, Diag(b, a, d))
  <2> SUFFICES ASSUME NEW r \in 0..3, NEW e \in {8, 12, 16, 20, 24, 28, 32},
                            NEW f, NEW g, NEW d, f = e - 8, g = 4 + r, d = e + r
               PROVE  /\ Holds((t[e][r] + t[f][g]) % Word, Diag(b, a, d))
                      /\ Holds((t[f][g] + t[e][r]) % Word, Diag(b, a, d))
    OBVIOUS
  <2> DEFINE v == e \div 4
  <2>1. v \in 2..8 /\ e = 4 * v /\ e - 8 = 4 * (v - 2)  OBVIOUS
  <2> HIDE DEF v, Word
  <2> QED BY <1>2, <2>1
<1>3. /\ \A l \in 0..3 : Lane(l) = l
      /\ \A l \in 4..7 : Lane(l) = l + 4 /\ l - 4 \in 0..3 /\ 4 + (l - 4) = l
  BY DEF Lane
<1>4. ASSUME NEW l \in 0..3
      PROVE  /\ Crossed(t)[0][l] = (t[0][l] + 0) % Word
             /\ Crossed(t)[4][l] = (t[4][l] + 0) % Word
             /\ Crossed(t)[16][l] = (t[16][l] + t[8][4 + l]) % Word
             /\ Crossed(t)[20][l] = (t[20][l] + t[12][4 + l]) % Word
             /\ Crossed(t)[32][l] = (t[32][l] + t[24][4 + l]) % Word
             /\ Crossed(t)[36][l] = t[36][l]
  <2>1. l \in Vectors /\ l < 4 /\ 4 * 1 + l = 4 + l  BY DEF Vectors
  <2>2. Crossed(t)[0][l] = (t[0][l] + 0) % Word  BY <2>1 DEF Crossed, AddVec, Permute
  <2>3. Crossed(t)[4][l] = (t[4][l] + 0) % Word  BY <2>1 DEF Crossed, AddVec, Permute
  <2>4. Crossed(t)[16][l] = (t[16][l] + t[8][4 + l]) % Word  BY <2>1 DEF Crossed, AddVec, Permute
  <2>5. Crossed(t)[20][l] = (t[20][l] + t[12][4 + l]) % Word  BY <2>1 DEF Crossed, AddVec, Permute
  <2>6. Crossed(t)[32][l] = (t[32][l] + t[24][4 + l]) % Word  BY <2>1 DEF Crossed, AddVec, Permute
  <2>7. Crossed(t)[36][l] = t[36][l]  BY DEF Crossed
  <2> QED BY <2>2, <2>3, <2>4, <2>5, <2>6, <2>7
<1>5. ASSUME NEW l \in 4..7
      PROVE  /\ Crossed(t)[0][l] = (t[0][l] + t[8][l - 4]) % Word
             /\ Crossed(t)[4][l] = (t[4][l] + t[12][l - 4]) % Word
             /\ Crossed(t)[16][l] = (t[16][l] + t[24][l - 4]) % Word
             /\ Crossed(t)[20][l] = (t[20][l] + t[28][l - 4]) % Word
  <2>1. l \in Vectors /\ ~(l < 4) /\ 4 * 0 + (l - 4) = l - 4  BY DEF Vectors
  <2>2. Crossed(t)[0][l] = (t[0][l] + t[8][l - 4]) % Word  BY <2>1 DEF Crossed, AddVec, Permute
  <2>3. Crossed(t)[4][l] = (t[4][l] + t[12][l - 4]) % Word  BY <2>1 DEF Crossed, AddVec, Permute
  <2>4. Crossed(t)[16][l] = (t[16][l] + t[24][l - 4]) % Word  BY <2>1 DEF Crossed, AddVec, Permute
  <2>5. Crossed(t)[20][l] = (t[20][l] + t[28][l - 4]) % Word  BY <2>1 DEF Crossed, AddVec, Permute
  <2> QED BY <2>2, <2>3, <2>4, <2>5
<1> HIDE DEF Word
<1>6. ASSUME NEW l \in 0..3
      PROVE  /\ Holds(Crossed(t)[0][l], Diag(b, a, 0 + l)) /\ Holds(Crossed(t)[4][l], Diag(b, a, 4 + l))
             /\ Holds(Crossed(t)[16][l], Diag(b, a, 16 + l))
             /\ Holds(Crossed(t)[20][l], Diag(b, a, 20 + l))
             /\ Holds(Crossed(t)[32][l], Diag(b, a, 32 + l))
             /\ Holds(Crossed(t)[36][l], Diag(b, a, 36 + l))
  <2>1. Holds(t[0][l], Diag(b, a, 0 + l)) /\ (t[0][l] + 0) % Word = t[0][l]
    <3>1. 4 * 0 = 0  OBVIOUS
    <3> QED BY <1>1, <3>1
  <2>2. Holds(t[4][l], Diag(b, a, 4 + l)) /\ (t[4][l] + 0) % Word = t[4][l]
    <3>1. 4 * 1 = 4  OBVIOUS
    <3> QED BY <1>1, <3>1
  <2>3. Holds(t[36][l], Diag(b, a, 36 + l))
    <3>1. 4 * 9 = 36  OBVIOUS
    <3> QED BY <1>1, <3>1
  <2>4. Holds((t[16][l] + t[8][4 + l]) % Word, Diag(b, a, 16 + l))
    BY <1>10
  <2>5. Holds((t[20][l] + t[12][4 + l]) % Word, Diag(b, a, 20 + l))
    BY <1>10
  <2>6. Holds((t[32][l] + t[24][4 + l]) % Word, Diag(b, a, 32 + l))
    BY <1>10
  <2> QED BY <1>4, <2>1, <2>2, <2>3, <2>4, <2>5, <2>6
<1>7. ASSUME NEW l \in 4..7
      PROVE  /\ Holds(Crossed(t)[0][l], Diag(b, a, 0 + (l + 4)))
             /\ Holds(Crossed(t)[4][l], Diag(b, a, 4 + (l + 4)))
             /\ Holds(Crossed(t)[16][l], Diag(b, a, 16 + (l + 4)))
             /\ Holds(Crossed(t)[20][l], Diag(b, a, 20 + (l + 4)))
  <2> DEFINE r == l - 4
  <2>1. r \in 0..3 /\ 4 + r = l  OBVIOUS
  <2>2. Holds((t[0][l] + t[8][r]) % Word, Diag(b, a, 0 + (l + 4)))
    <3>1. 0 = 8 - 8 /\ 0 + (l + 4) = 8 + r  OBVIOUS
    <3> HIDE DEF r
    <3> QED BY <1>10, <2>1, <3>1
  <2>3. Holds((t[4][l] + t[12][r]) % Word, Diag(b, a, 4 + (l + 4)))
    <3>1. 4 = 12 - 8 /\ 4 + (l + 4) = 12 + r  OBVIOUS
    <3> HIDE DEF r
    <3> QED BY <1>10, <2>1, <3>1
  <2>4. Holds((t[16][l] + t[24][r]) % Word, Diag(b, a, 16 + (l + 4)))
    <3>1. 16 = 24 - 8 /\ 16 + (l + 4) = 24 + r  OBVIOUS
    <3> HIDE DEF r
    <3> QED BY <1>10, <2>1, <3>1
  <2>5. Holds((t[20][l] + t[28][r]) % Word, Diag(b, a, 20 + (l + 4)))
    <3>1. 20 = 28 - 8 /\ 20 + (l + 4) = 28 + r  OBVIOUS
    <3> HIDE DEF r
    <3> QED BY <1>10, <2>1, <3>1
  <2> QED BY <1>5, <2>2, <2>3, <2>4, <2>5
<1>8. ASSUME NEW j \in {0, 4, 16, 20}, NEW l \in 0..7
      PROVE  Holds(Crossed(t)[j][l], Diag(b, a, j + Lane(l)))
  <2>1. CASE l \in 0..3
    BY <1>3, <1>6, <2>1
  <2>2. CASE l \in 4..7
    BY <1>3, <1>7, <2>2
  <2>3. l \in 0..3 \/ l \in 4..7  OBVIOUS
  <2> QED BY <2>1, <2>2, <2>3
<1>9. ASSUME NEW j \in {32, 36}, NEW l \in 0..3
      PROVE  Holds(Crossed(t)[j][l], Diag(b, a, j + l))
  BY <1>6
<1> QED BY <1>8, <1>9 DEF IsCrossed

\* A lane plus twice another one.
LEMMA PlusTwiceIs ==
  ASSUME NEW v, NEW n \in Int, NEW u, NEW m \in Int, Holds(v, n), Holds(u, m)
  PROVE  Holds((v + ((u + u) % Word)) % Word, n + 2 * m)
<1> DEFINE w == (u + u) % Word   k == m + m
<1>1. k \in Int /\ n + k = n + 2 * m  OBVIOUS
<1>2. Holds(w, k)  BY HoldsSum
<1> HIDE DEF w, k
<1>3. Holds((v + w) % Word, n + k)  BY <1>1, <1>2, HoldsSum
<1> QED BY <1>1, <1>3 DEF w

\* Terms of degree 19 and more are doubled and added to those of degree less than 19.
LEMMA WrappedIs ==
  ASSUME NEW c, NEW a, NEW b, Whole(a), Whole(b), IsCrossed(c, a, b)
  PROVE  /\ \A p \in {1, 2}, l \in 0..7 :
               Holds(Wrapped(c)[p][l], Ring!Convolution(b, a, Offset(p) + Lane(l)))
         /\ \A l \in 0..2 : Holds(Wrapped(c)[3][l], Ring!Convolution(b, a, 16 + l))
<1> DEFINE t19 == AddVec(Top(c[16]), Up(c[20]))
           t23 == AddVec(Permute(Up(c[16]), Up(c[32]), 1, 2), Top(c[20]))
           t35 == AddVec(Top(c[32]), Up(c[36]))
<1>1. /\ \A l \in 0..3 : Lane(l) = l
      /\ \A l \in 4..7 : Lane(l) = l + 4
      /\ Offset(1) = 0 /\ Offset(2) = 4
  BY DEF Lane, Offset
<1>2. /\ \A j \in {0, 4, 16, 20}, l \in 0..3 : Holds(c[j][l], Diag(b, a, j + l))
      /\ \A j \in {0, 4, 16, 20}, l \in 4..7 : Holds(c[j][l], Diag(b, a, j + (l + 4)))
      /\ \A j \in {32, 36}, l \in 0..3 : Holds(c[j][l], Diag(b, a, j + l))
  <2> HIDE DEF Word
  <2> QED BY <1>1 DEF IsCrossed
<1>3. \A l \in 0..7 : /\ Wrapped(c)[1][l] = (c[0][l] + ((t19[l] + t19[l]) % Word)) % Word
                      /\ Wrapped(c)[2][l] = (c[4][l] + ((t23[l] + t23[l]) % Word)) % Word
                      /\ Wrapped(c)[3][l] = (c[16][l] + ((t35[l] + t35[l]) % Word)) % Word
  BY DEF Wrapped, AddVec, Vectors
<1>4. \A l \in 0..7 :
        /\ t19[l] = ((IF l % 4 = 0 THEN c[16][l + 3] ELSE 0)
                     + (IF l % 4 = 0 THEN 0 ELSE c[20][l - 1])) % Word
        /\ t23[l] = ((IF l < 4 THEN IF (l + 4) % 4 = 0 THEN 0 ELSE c[16][(l + 4) - 1]
                      ELSE IF (l - 4) % 4 = 0 THEN 0 ELSE c[32][(l - 4) - 1])
                     + (IF l % 4 = 0 THEN c[20][l + 3] ELSE 0)) % Word
        /\ t35[l] = ((IF l % 4 = 0 THEN c[32][l + 3] ELSE 0)
                     + (IF l % 4 = 0 THEN 0 ELSE c[36][l - 1])) % Word
  <2> SUFFICES ASSUME NEW l \in 0..7
               PROVE  /\ t19[l] = ((IF l % 4 = 0 THEN c[16][l + 3] ELSE 0)
                                   + (IF l % 4 = 0 THEN 0 ELSE c[20][l - 1])) % Word
                      /\ t23[l] = ((IF l < 4 THEN IF (l + 4) % 4 = 0 THEN 0 ELSE c[16][(l + 4) - 1]
                                    ELSE IF (l - 4) % 4 = 0 THEN 0 ELSE c[32][(l - 4) - 1])
                                   + (IF l % 4 = 0 THEN c[20][l + 3] ELSE 0)) % Word
                      /\ t35[l] = ((IF l % 4 = 0 THEN c[32][l + 3] ELSE 0)
                                   + (IF l % 4 = 0 THEN 0 ELSE c[36][l - 1])) % Word
    OBVIOUS
  <2>1. l \in Vectors /\ Vectors = 0..7  BY DEF Vectors
  <2>2. t19[l] = ((IF l % 4 = 0 THEN c[16][l + 3] ELSE 0)
                  + (IF l % 4 = 0 THEN 0 ELSE c[20][l - 1])) % Word
    BY <2>1 DEF AddVec, Up, Top
  <2>3. t35[l] = ((IF l % 4 = 0 THEN c[32][l + 3] ELSE 0)
                  + (IF l % 4 = 0 THEN 0 ELSE c[36][l - 1])) % Word
    BY <2>1 DEF AddVec, Up, Top
  <2>4. t23[l] = (Permute(Up(c[16]), Up(c[32]), 1, 2)[l] + Top(c[20])[l]) % Word
    BY <2>1 DEF AddVec
  <2>5. Permute(Up(c[16]), Up(c[32]), 1, 2)[l]
            = IF l < 4 THEN Up(c[16])[4 * 1 + l] ELSE Up(c[32])[4 * (2 - 2) + (l - 4)]
    BY <2>1 DEF Permute
  <2>6. l < 4 => Up(c[16])[4 * 1 + l] = IF (l + 4) % 4 = 0 THEN 0 ELSE c[16][(l + 4) - 1]
    <3> SUFFICES ASSUME l < 4
                 PROVE  Up(c[16])[4 * 1 + l] = IF (l + 4) % 4 = 0 THEN 0 ELSE c[16][(l + 4) - 1]
      OBVIOUS
    <3>1. 4 * 1 + l = l + 4 /\ l + 4 \in Vectors  BY <2>1
    <3> QED BY <3>1 DEF Up
  <2>7. ~(l < 4) => Up(c[32])[4 * (2 - 2) + (l - 4)] = IF (l - 4) % 4 = 0 THEN 0 ELSE c[32][(l - 4) - 1]
    <3> SUFFICES ASSUME ~(l < 4)
                 PROVE  Up(c[32])[4 * (2 - 2) + (l - 4)] = IF (l - 4) % 4 = 0 THEN 0 ELSE c[32][(l - 4) - 1]
      OBVIOUS
    <3>1. 4 * (2 - 2) + (l - 4) = l - 4 /\ l - 4 \in Vectors  BY <2>1
    <3> QED BY <3>1 DEF Up
  <2>8. Top(c[20])[l] = IF l % 4 = 0 THEN c[20][l + 3] ELSE 0  BY <2>1 DEF Top
  <2> QED BY <2>2, <2>3, <2>4, <2>5, <2>6, <2>7, <2>8
<1> HIDE DEF t19, t23, t35
<1>5. ASSUME NEW v, NEW n, Holds(v, n) PROVE (v + 0) % Word = v /\ (0 + v) % Word = v
  BY <1>5, HoldsNothing
<1>6. ASSUME NEW l \in 0..7 PROVE Holds(t19[l], Diag(b, a, (Offset(1) + Lane(l)) + 19))
  <2>1. CASE l \in {0, 4}
    <3>1. l % 4 = 0  BY <2>1
    <3>2. t19[l] = (c[16][l + 3] + 0) % Word  BY <1>4, <3>1
    <3>3. Holds(c[16][l + 3], Diag(b, a, (Offset(1) + Lane(l)) + 19))
      <4>1. CASE l = 0
        <5>1. (Offset(1) + Lane(l)) + 19 = 16 + (l + 3) /\ l + 3 \in 0..3  BY <1>1, <4>1
        <5> QED BY <1>2, <5>1
      <4>2. CASE l = 4
        <5>1. (Offset(1) + Lane(l)) + 19 = 16 + ((l + 3) + 4) /\ l + 3 \in 4..7  BY <1>1, <4>2
        <5> QED BY <1>2, <5>1
      <4> QED BY <2>1, <4>1, <4>2
    <3> QED BY <1>5, <3>2, <3>3
  <2>2. CASE l \notin {0, 4}
    <3>1. l % 4 # 0  BY <2>2
    <3>2. t19[l] = (0 + c[20][l - 1]) % Word  BY <1>4, <3>1
    <3>3. Holds(c[20][l - 1], Diag(b, a, (Offset(1) + Lane(l)) + 19))
      <4>1. CASE l < 4
        <5>1. (Offset(1) + Lane(l)) + 19 = 20 + (l - 1) /\ l - 1 \in 0..3  BY <1>1, <2>2, <4>1
        <5> QED BY <1>2, <5>1
      <4>2. CASE ~(l < 4)
        <5>1. (Offset(1) + Lane(l)) + 19 = 20 + ((l - 1) + 4) /\ l - 1 \in 4..7
          BY <1>1, <2>2, <4>2
        <5> QED BY <1>2, <5>1
      <4> QED BY <4>1, <4>2
    <3> QED BY <1>5, <3>2, <3>3
  <2> QED BY <2>1, <2>2
<1>7. ASSUME NEW l \in 0..7 PROVE Holds(t23[l], Diag(b, a, (Offset(2) + Lane(l)) + 19))
  <2>1. CASE l \in {0, 4}
    <3>1. l % 4 = 0 /\ (l < 4 => (l + 4) % 4 = 0) /\ (~(l < 4) => (l - 4) % 4 = 0)  BY <2>1
    <3>2. t23[l] = (0 + c[20][l + 3]) % Word  BY <1>4, <3>1
    <3>3. Holds(c[20][l + 3], Diag(b, a, (Offset(2) + Lane(l)) + 19))
      <4>1. CASE l = 0
        <5>1. (Offset(2) + Lane(l)) + 19 = 20 + (l + 3) /\ l + 3 \in 0..3  BY <1>1, <4>1
        <5> QED BY <1>2, <5>1
      <4>2. CASE l = 4
        <5>1. (Offset(2) + Lane(l)) + 19 = 20 + ((l + 3) + 4) /\ l + 3 \in 4..7  BY <1>1, <4>2
        <5> QED BY <1>2, <5>1
      <4> QED BY <2>1, <4>1, <4>2
    <3> QED BY <1>5, <3>2, <3>3
  <2>2. CASE l \in 1..3
    <3>1. l % 4 # 0 /\ l < 4 /\ (l + 4) % 4 # 0  BY <2>2
    <3>2. t23[l] = (c[16][(l + 4) - 1] + 0) % Word  BY <1>4, <3>1
    <3>3. (Offset(2) + Lane(l)) + 19 = 16 + (((l + 4) - 1) + 4) /\ (l + 4) - 1 \in 4..7
      BY <1>1, <2>2
    <3>4. Holds(c[16][(l + 4) - 1], Diag(b, a, (Offset(2) + Lane(l)) + 19))  BY <1>2, <3>3
    <3> QED BY <1>5, <3>2, <3>4
  <2>3. CASE l \in 5..7
    <3>1. l % 4 # 0 /\ ~(l < 4) /\ (l - 4) % 4 # 0  BY <2>3
    <3>2. t23[l] = (c[32][(l - 4) - 1] + 0) % Word  BY <1>4, <3>1
    <3>3. (Offset(2) + Lane(l)) + 19 = 32 + ((l - 4) - 1) /\ (l - 4) - 1 \in 0..3
      BY <1>1, <2>3
    <3>4. Holds(c[32][(l - 4) - 1], Diag(b, a, (Offset(2) + Lane(l)) + 19))  BY <1>2, <3>3
    <3> QED BY <1>5, <3>2, <3>4
  <2>4. l \in {0, 4} \/ l \in 1..3 \/ l \in 5..7  OBVIOUS
  <2> QED BY <2>1, <2>2, <2>3, <2>4
<1>8. ASSUME NEW l \in 0..2 PROVE Holds(t35[l], Diag(b, a, (16 + l) + 19))
  <2>1. CASE l = 0
    <3>1. l % 4 = 0 /\ l \in 0..7  BY <2>1
    <3>2. t35[l] = (c[32][l + 3] + 0) % Word  BY <1>4, <3>1
    <3>3. (16 + l) + 19 = 32 + (l + 3) /\ l + 3 \in 0..3  BY <2>1
    <3>4. Holds(c[32][l + 3], Diag(b, a, (16 + l) + 19))  BY <1>2, <3>3
    <3> QED BY <1>5, <3>2, <3>4
  <2>2. CASE l # 0
    <3>1. l % 4 # 0 /\ l \in 0..7  BY <2>2
    <3>2. t35[l] = (0 + c[36][l - 1]) % Word  BY <1>4, <3>1
    <3>3. (16 + l) + 19 = 36 + (l - 1) /\ l - 1 \in 0..3  BY <2>2
    <3>4. Holds(c[36][l - 1], Diag(b, a, (16 + l) + 19))  BY <1>2, <3>3
    <3> QED BY <1>5, <3>2, <3>4
  <2> QED BY <2>1, <2>2
<1>9. ASSUME NEW v, NEW u, NEW i \in Degrees, Holds(v, Diag(b, a, i)), Holds(u, Diag(b, a, i + 19))
      PROVE  Holds((v + ((u + u) % Word)) % Word, Ring!Convolution(b, a, i))
  <2> DEFINE n == Diag(b, a, i)   m == Diag(b, a, i + 19)
  <2>1. i \in Int /\ i + 19 \in Int  BY DEF Degrees
  <2>2. n \in Int /\ m \in Int  BY <2>1, DiagInt
  <2>3. Ring!Convolution(b, a, i) = n + 2 * m  BY ConvolutionIs
  <2>4. Holds(v, n) /\ Holds(u, m)  BY <1>9
  <2> HIDE DEF n, m
  <2>5. Holds((v + ((u + u) % Word)) % Word, n + 2 * m)  BY <2>2, <2>4, PlusTwiceIs
  <2> QED BY <2>3, <2>5
<1>10. ASSUME NEW p \in {1, 2}, NEW l \in 0..7
       PROVE  Holds(Wrapped(c)[p][l], Ring!Convolution(b, a, Offset(p) + Lane(l)))
  <2> DEFINE i == Offset(p) + Lane(l)
  <2>1. i \in Degrees  BY DEF Offset, Lane, Degrees
  <2>2. CASE p = 1
    <3>1. Holds(c[0][l], Diag(b, a, i))
      <4>1. CASE l \in 0..3
        <5>1. i = 0 + l  BY <1>1, <2>2, <4>1
        <5> QED BY <1>2, <4>1, <5>1
      <4>2. CASE l \in 4..7
        <5>1. i = 0 + (l + 4)  BY <1>1, <2>2, <4>2
        <5> QED BY <1>2, <4>2, <5>1
      <4>3. l \in 0..3 \/ l \in 4..7  OBVIOUS
      <4> QED BY <4>1, <4>2, <4>3
    <3>2. Holds(t19[l], Diag(b, a, i + 19))  BY <1>6, <2>2
    <3> HIDE DEF i
    <3>3. Holds((c[0][l] + ((t19[l] + t19[l]) % Word)) % Word, Ring!Convolution(b, a, i))
      BY <1>9, <2>1, <3>1, <3>2
    <3>4. Wrapped(c)[1][l] = (c[0][l] + ((t19[l] + t19[l]) % Word)) % Word  BY <1>3
    <3> QED BY <2>2, <3>3, <3>4 DEF i
  <2>3. CASE p = 2
    <3>1. Holds(c[4][l], Diag(b, a, i))
      <4>1. CASE l \in 0..3
        <5>1. i = 4 + l  BY <1>1, <2>3, <4>1
        <5> QED BY <1>2, <4>1, <5>1
      <4>2. CASE l \in 4..7
        <5>1. i = 4 + (l + 4)  BY <1>1, <2>3, <4>2
        <5> QED BY <1>2, <4>2, <5>1
      <4>3. l \in 0..3 \/ l \in 4..7  OBVIOUS
      <4> QED BY <4>1, <4>2, <4>3
    <3>2. Holds(t23[l], Diag(b, a, i + 19))  BY <1>7, <2>3
    <3> HIDE DEF i
    <3>3. Holds((c[4][l] + ((t23[l] + t23[l]) % Word)) % Word, Ring!Convolution(b, a, i))
      BY <1>9, <2>1, <3>1, <3>2
    <3>4. Wrapped(c)[2][l] = (c[4][l] + ((t23[l] + t23[l]) % Word)) % Word  BY <1>3
    <3> QED BY <2>3, <3>3, <3>4 DEF i
  <2> QED BY <2>2, <2>3
<1>11. ASSUME NEW l \in 0..2
       PROVE  Holds(Wrapped(c)[3][l], Ring!Convolution(b, a, 16 + l))
  <2> DEFINE i == 16 + l
  <2>1. i \in Degrees /\ l \in 0..7 /\ l \in 0..3  BY DEF Degrees
  <2>2. Holds(c[16][l], Diag(b, a, i))  BY <1>2, <2>1
  <2>3. Holds(t35[l], Diag(b, a, i + 19))  BY <1>8
  <2> HIDE DEF i
  <2>4. Holds((c[16][l] + ((t35[l] + t35[l]) % Word)) % Word, Ring!Convolution(b, a, i))
    BY <1>9, <2>1, <2>2, <2>3
  <2>5. Wrapped(c)[3][l] = (c[16][l] + ((t35[l] + t35[l]) % Word)) % Word  BY <1>3, <2>1
  <2> QED BY <2>4, <2>5 DEF i
<1> QED BY <1>10, <1>11

\* vgf_mul() multiplies modulo z^19 - 2, by shifted vectors whose highest
\* coefficients are dropped and added back.
THEOREM VgfMulExact ==
  ASSUME NEW a, NEW b, IsPoly(a), IsPoly(b), NEW i \in Degrees
  PROVE  /\ VgfMul(a, b)[i] \in Elements
         /\ Congruent(VgfMul(a, b)[i] * Word, Ring!Convolution(a, b, i), P)
<1> DEFINE v == Wrapped(Crossed(Sums(a, b)))   words == Packed(v)
<1>1. Whole(a) /\ Whole(b)  BY PolyWhole
<1>2. /\ \A p \in {1, 2}, l \in 0..7 : Holds(v[p][l], Ring!Convolution(b, a, Offset(p) + Lane(l)))
      /\ \A l \in 0..2 : Holds(v[3][l], Ring!Convolution(b, a, 16 + l))
  <2>1. IsSummed(Sums(a, b), a, b)  BY SumsSummed
  <2> DEFINE t == Sums(a, b)   c == Crossed(t)
  <2> HIDE DEF t
  <2>2. IsCrossed(c, a, b)  BY <2>1, CrossedIs DEF t
  <2> HIDE DEF c
  <2>3. /\ \A p \in {1, 2}, l \in 0..7 :
              Holds(Wrapped(c)[p][l], Ring!Convolution(b, a, Offset(p) + Lane(l)))
        /\ \A l \in 0..2 : Holds(Wrapped(c)[3][l], Ring!Convolution(b, a, 16 + l))
    BY <1>1, <2>2, WrappedIs
  <2> QED BY <2>3 DEF t, c
<1>3. i \in 0..18 /\ i \in Lanes  BY DEF Degrees, Lanes
<1>4. VgfMul(a, b)[i] = LaneFromMonty(words[i])  BY <1>3 DEF VgfMul
<1> HIDE DEF v
<1>5. Holds(words[i], Ring!Convolution(b, a, i))
  <2>1. CASE i \in 0..3
    <3>1. words[i] = v[1][i]  BY <1>3, <2>1 DEF Packed
    <3>2. i \in 0..7 /\ i = Offset(1) + Lane(i)  BY <2>1 DEF Offset, Lane
    <3> QED BY <1>2, <3>1, <3>2
  <2>2. CASE i \in 4..7
    <3>1. words[i] = v[2][i - 4]  BY <1>3, <2>2 DEF Packed
    <3>2. i - 4 \in 0..7 /\ i = Offset(2) + Lane(i - 4)  BY <2>2 DEF Offset, Lane
    <3> QED BY <1>2, <3>1, <3>2
  <2>3. CASE i \in 8..11
    <3>1. words[i] = v[1][i - 4]  BY <1>3, <2>3 DEF Packed
    <3>2. i - 4 \in 0..7 /\ i = Offset(1) + Lane(i - 4)  BY <2>3 DEF Offset, Lane
    <3> QED BY <1>2, <3>1, <3>2
  <2>4. CASE i \in 12..15
    <3>1. words[i] = v[2][i - 8]  BY <1>3, <2>4 DEF Packed
    <3>2. i - 8 \in 0..7 /\ i = Offset(2) + Lane(i - 8)  BY <2>4 DEF Offset, Lane
    <3> QED BY <1>2, <3>1, <3>2
  <2>5. CASE i \in 16..18
    <3>1. words[i] = v[3][i - 16]  BY <1>3, <2>5 DEF Packed
    <3>2. i - 16 \in 0..2 /\ i = 16 + (i - 16)  BY <2>5
    <3> QED BY <1>2, <3>1, <3>2
  <2>6. i \in 0..3 \/ i \in 4..7 \/ i \in 8..11 \/ i \in 12..15 \/ i \in 16..18  BY <1>3
  <2> QED BY <2>1, <2>2, <2>3, <2>4, <2>5, <2>6
<1> DEFINE w == words[i]   n == Ring!Convolution(a, b, i)
<1>6. n \in 1..MaxOperand /\ n = Ring!Convolution(b, a, i)  BY <1>1, ConvolutionFits, ConvolutionSwap
<1> HIDE DEF w, n
<1>7. w \in 0..(Word - 1) /\ Congruent(w, n, Word)  BY <1>5, <1>6 DEF Holds, w
<1>8. w \in Int /\ w % Word = w  BY <1>7, WordNat
<1>9. FromMonty(w) \in Elements /\ Congruent(FromMonty(w) * Word, n, P)
  <2>1. FromMonty(w % Word) \in Elements /\ Congruent(FromMonty(w % Word) * Word, n, P)
    BY <1>6, <1>7, <1>8, ReducedWord
  <2> QED BY <1>8, <2>1
<1>10. LaneFromMonty(w) = FromMonty(w)  BY <1>7, LaneFromMontyExact
<1> QED BY <1>4, <1>9, <1>10 DEF w, n
-----------------------------------------------------------------------------
(* Elements stand for integers modulo P, in Montgomery representation. *)

\* The size of a word has an inverse modulo P.
LEMMA WordUnit ==
  /\ P \in Nat /\ P > 1 /\ Word \in Nat /\ Word \in Int /\ P \in Int
  /\ WordInverse \in Int /\ Congruent(WordInverse * Word, 1, P)
<1>1. P \in Nat /\ P > 1 /\ P > 0 /\ P \in Int  BY MontyAssumption
<1> DEFINE w == Word
<1>2. w \in Nat /\ w \in Int  BY WordNat
<1>3. PICK k \in Int : P * P1I + 1 = k * w  BY InverseOfModulus, WordNat
<1>4. P1I \in Int  BY InverseOfModulus
<1> HIDE DEF w
<1> DEFINE r == k % P
<1>5. r \in 0..(P - 1) /\ Congruent(r, k, P)  BY <1>1, <1>3, ModCongruent
<1>6. r \in Int  BY <1>1, <1>5
<1> HIDE DEF r
<1>7. Congruent(k * w, 1, P)
  <2>1. k * w = 1 + P1I * P  BY <1>1, <1>3, <1>4
  <2> QED BY <1>4, <2>1 DEF Congruent
<1>8. Congruent(r * w, k * w, P)  BY <1>1, <1>2, <1>5, <1>6, CongruentRefl, CongruentProduct
<1> DEFINE e == r * w   f == k * w
<1>9. e \in Int /\ f \in Int  BY <1>2, <1>6
<1>10. Congruent(e, f, P) /\ Congruent(f, 1, P)  BY <1>7, <1>8
<1> HIDE DEF e, f
<1>11. Congruent(e, 1, P)  BY <1>1, <1>9, <1>10, CongruentTrans
<1>12. e % P = 1 % P /\ 1 % P = 1  BY <1>1, <1>9, <1>11, ModEqual
<1>13. r # 0
  <2> SUFFICES ASSUME r = 0 PROVE FALSE  OBVIOUS
  <2>1. e = 0  BY <1>2 DEF e
  <2> QED BY <1>1, <1>12, <2>1
<1>14. r \in 1..P /\ (r * Word) % P = 1  BY <1>1, <1>5, <1>12, <1>13 DEF e, w
<1>15. WordInverse \in 1..P /\ (WordInverse * Word) % P = 1  BY <1>14 DEF WordInverse
<1> DEFINE i == WordInverse
<1>16. i \in Int /\ (i * w) % P = 1  BY <1>1, <1>15 DEF w
<1> HIDE DEF i
<1> DEFINE g == i * w
<1>17. g \in Int /\ g % P = 1 % P  BY <1>2, <1>12, <1>16
<1> HIDE DEF g
<1>18. Congruent(g, 1, P)  BY <1>1, <1>17, ModEqual
<1> QED BY <1>1, <1>2, <1>16, <1>18 DEF g, i, w

\* One power of Word for elements, two for their products.
Stands(r, n) == r \in Int /\ n \in Int /\ Congruent(r, n * Word, P)
StandsTwice(s, n) == s \in Int /\ n \in Int /\ Congruent(s, n * (Word * Word), P)

\* A factor of the size of a word can be cancelled, because it has an inverse.
LEMMA CancelWord ==
  ASSUME NEW r \in Int, NEW n \in Int, Congruent(r * Word, n * Word, P)
  PROVE  Congruent(r, n, P)
<1> DEFINE w == Word   i == WordInverse
<1>1. w \in Int /\ i \in Int /\ P \in Int /\ Congruent(i * w, 1, P)  BY WordUnit
<1>2. Congruent(r * w, n * w, P)  OBVIOUS
<1> HIDE DEF w, i
<1>3. w * i = i * w /\ w * r = r * w /\ w * n = n * w  BY <1>1
<1>4. Congruent(w * i, 1, P) /\ Congruent(w * r, w * n, P)  BY <1>1, <1>2, <1>3
<1> QED BY <1>1, <1>4, CongruentCancel

\* A reduction divides by the size of a word.
LEMMA StandsReduced ==
  ASSUME NEW r \in Int, NEW s \in Int, NEW n \in Int, Congruent(r * Word, s, P), StandsTwice(s, n)
  PROVE  Stands(r, n)
<1> DEFINE w == Word   e == r * w   f == n * (w * w)
<1>1. w \in Int /\ P \in Int  BY WordUnit
<1>2. Congruent(e, s, P) /\ Congruent(s, f, P)  BY DEF StandsTwice
<1> HIDE DEF w
<1> DEFINE g == n * w
<1>3. e \in Int /\ f \in Int /\ g \in Int /\ f = g * w  BY <1>1
<1> HIDE DEF e, f, g
<1>4. Congruent(e, f, P)  BY <1>1, <1>2, <1>3, CongruentTrans
<1>5. Congruent(r * Word, g * Word, P)  BY <1>3, <1>4 DEF e, w
<1>6. Congruent(r, g, P)  BY <1>3, <1>5, CancelWord
<1> QED BY <1>6 DEF Stands, g, w

\* A product of representations carries the factor twice.
LEMMA StandsProduct ==
  ASSUME NEW r, NEW n, NEW s, NEW m, Stands(r, n), Stands(s, m)
  PROVE  StandsTwice(r * s, n * m)
<1> DEFINE w == Word   e == n * w   f == m * w
<1>1. w \in Int /\ P \in Int  BY WordUnit
<1>2. /\ r \in Int /\ s \in Int /\ n \in Int /\ m \in Int
      /\ Congruent(r, e, P) /\ Congruent(s, f, P)
  BY DEF Stands
<1> HIDE DEF w
<1>3. e \in Int /\ f \in Int /\ e * f = (n * m) * (w * w)
  <2>1. (n * w) * (m * w) = (n * m) * (w * w)  BY <1>1, <1>2
  <2> QED BY <1>1, <1>2, <2>1
<1> HIDE DEF e, f
<1>4. Congruent(r * s, e * f, P)  BY <1>1, <1>2, <1>3, CongruentProduct
<1>5. r * s \in Int /\ n * m \in Int  BY <1>2
<1> QED BY <1>3, <1>4, <1>5 DEF StandsTwice, w

\* Sums and differences of representations.
LEMMA StandsSum ==
  ASSUME NEW r, NEW n, NEW s, NEW m, Stands(r, n), Stands(s, m)
  PROVE  Stands(r + s, n + m) /\ Stands(r - s, n - m)
<1> DEFINE w == Word   e == n * w   f == m * w
<1>1. w \in Int /\ P \in Int  BY WordUnit
<1>2. /\ r \in Int /\ s \in Int /\ n \in Int /\ m \in Int
      /\ Congruent(r, e, P) /\ Congruent(s, f, P)
  BY DEF Stands
<1> HIDE DEF w
<1>3. e \in Int /\ f \in Int /\ e + f = (n + m) * w /\ e - f = (n - m) * w  BY <1>1, <1>2
<1> HIDE DEF e, f
<1>4. Congruent(r + s, e + f, P) /\ Congruent(r - s, e - f, P)  BY <1>1, <1>2, <1>3, CongruentSum
<1> QED BY <1>2, <1>3, <1>4 DEF Stands, w

\* Sums of what carries the factor twice.
LEMMA StandsTwiceSum ==
  ASSUME NEW r, NEW n, NEW s, NEW m, StandsTwice(r, n), StandsTwice(s, m)
  PROVE  StandsTwice(r + s, n + m)
<1> DEFINE w == Word * Word   e == n * w   f == m * w
<1>1. w \in Int /\ P \in Int
  <2>1. Word \in Int /\ P \in Int  BY WordUnit
  <2> HIDE DEF Word
  <2> QED BY <2>1
<1>2. /\ r \in Int /\ s \in Int /\ n \in Int /\ m \in Int
      /\ Congruent(r, e, P) /\ Congruent(s, f, P)
  BY DEF StandsTwice
<1> HIDE DEF w
<1>3. e \in Int /\ f \in Int /\ e + f = (n + m) * w  BY <1>1, <1>2
<1> HIDE DEF e, f
<1>4. Congruent(r + s, e + f, P)  BY <1>1, <1>2, <1>3, CongruentSum
<1> QED BY <1>2, <1>3, <1>4 DEF StandsTwice, w

\* What is congruent stands for the same.
LEMMA StandsSame ==
  ASSUME NEW r \in Int, NEW s, NEW n, Congruent(r, s, P), Stands(s, n)
  PROVE  Stands(r, n)
<1> DEFINE e == n * Word
<1>1. e \in Int /\ P \in Int /\ s \in Int /\ n \in Int /\ Congruent(s, e, P)
  <2>1. Word \in Int /\ P \in Int  BY WordUnit
  <2> HIDE DEF Word
  <2> QED BY <2>1 DEF Stands
<1> HIDE DEF e
<1>2. Congruent(r, e, P)  BY <1>1, CongruentTrans
<1> QED BY <1>1, <1>2 DEF Stands, e

\* A remainder stands for the same.
LEMMA StandsMod ==
  ASSUME NEW s, NEW n, Stands(s, n)
  PROVE  s % P \in 0..(P - 1) /\ s % P \in Int /\ Stands(s % P, n)
<1>1. P \in Nat /\ P > 0 /\ P \in Int /\ s \in Int
  BY WordUnit DEF Stands
<1> DEFINE r == s % P
<1>2. r \in 0..(P - 1) /\ Congruent(r, s, P)  BY <1>1, ModCongruent
<1>3. r \in Int  BY <1>1, <1>2
<1> HIDE DEF r
<1>4. Stands(r, n)  BY <1>2, <1>3, StandsSame
<1> QED BY <1>2, <1>3, <1>4 DEF r

\* A multiple.
LEMMA StandsMultiple ==
  ASSUME NEW k \in Int, NEW s, NEW n, Stands(s, n)
  PROVE  Stands(k * s, k * n)
<1> DEFINE w == Word   e == n * w
<1>1. w \in Int /\ P \in Int  BY WordUnit
<1>2. s \in Int /\ n \in Int /\ Congruent(s, e, P)  BY DEF Stands
<1> HIDE DEF w
<1>3. e \in Int /\ k * e = (k * n) * w /\ k * n \in Int /\ k * s \in Int  BY <1>1, <1>2
<1> HIDE DEF e
<1>4. Congruent(k * s, k * e, P)  BY <1>1, <1>2, <1>3, CongruentRefl, CongruentProduct
<1> QED BY <1>3, <1>4 DEF Stands, w

\* An element that stands for n has the value n.
LEMMA ValueIs ==
  ASSUME NEW a, NEW i \in Degrees, NEW n \in Int, Stands(a[i], n)
  PROVE  Value(a)[i] = n % P
<1> DEFINE w == Word   v == WordInverse   r == a[i]   e == n * w
<1>1. w \in Int /\ v \in Int /\ P \in Nat /\ P > 0 /\ P \in Int /\ Congruent(v * w, 1, P)
  BY WordUnit
<1>2. r \in Int /\ Congruent(r, e, P)  BY DEF Stands
<1>3. Value(a)[i] = (r * v) % P  BY DEF Value
<1> HIDE DEF w, v, r
<1>4. e \in Int /\ e * v = n * (v * w)  BY <1>1
<1> HIDE DEF e
<1>5. Congruent(r * v, e * v, P)  BY <1>1, <1>2, <1>4, CongruentRefl, CongruentProduct
<1>6. Congruent(n * (v * w), n * 1, P)
  <2> DEFINE u == v * w
  <2>1. u \in Int /\ Congruent(u, 1, P)  BY <1>1
  <2> HIDE DEF u
  <2>2. Congruent(n * u, n * 1, P)  BY <1>1, <2>1, CongruentRefl, CongruentProduct
  <2> QED BY <2>2 DEF u
<1> DEFINE f == r * v   g == e * v
<1>7. f \in Int /\ g \in Int /\ n * 1 = n /\ n \in Int  BY <1>1, <1>2, <1>4
<1>8. Congruent(f, g, P) /\ Congruent(g, n, P)  BY <1>4, <1>5, <1>6, <1>7
<1> HIDE DEF f, g
<1>9. Congruent(f, n, P)  BY <1>1, <1>7, <1>8, CongruentTrans
<1>10. f % P = n % P  BY <1>1, <1>7, <1>9, ModEqual
<1> QED BY <1>3, <1>10 DEF f

\* An element stands for its value.
LEMMA ValueStands ==
  ASSUME NEW a, IsPoly(a), NEW i \in Degrees
  PROVE  Stands(a[i], Value(a)[i]) /\ Value(a)[i] \in 0..(P - 1) /\ Value(a)[i] \in Int
<1> DEFINE w == Word   v == WordInverse   r == a[i]   n == r * v   u == n % P
<1>1. w \in Int /\ v \in Int /\ P \in Nat /\ P > 0 /\ P \in Int /\ Congruent(v * w, 1, P)
  BY WordUnit
<1>2. r \in Int  BY PolyWhole
<1>3. Value(a)[i] = u  BY DEF Value
<1> HIDE DEF w, v, r
<1>4. n \in Int /\ n * w = r * (v * w)  BY <1>1, <1>2
<1> HIDE DEF n
<1>5. u \in 0..(P - 1) /\ Congruent(u, n, P)  BY <1>1, <1>4, ModCongruent
<1>6. u \in Int  BY <1>1, <1>5
<1> HIDE DEF u
<1>7. Congruent(u * w, n * w, P)  BY <1>1, <1>4, <1>5, <1>6, CongruentRefl, CongruentProduct
<1>8. Congruent(r * (v * w), r * 1, P)
  <2> DEFINE t == v * w
  <2>1. t \in Int /\ Congruent(t, 1, P)  BY <1>1
  <2> HIDE DEF t
  <2>2. Congruent(r * t, r * 1, P)  BY <1>1, <1>2, <2>1, CongruentRefl, CongruentProduct
  <2> QED BY <2>2 DEF t
<1> DEFINE f == u * w   g == n * w
<1>9. f \in Int /\ g \in Int /\ r * 1 = r  BY <1>1, <1>2, <1>4, <1>6
<1>10. Congruent(f, g, P) /\ Congruent(g, r, P)  BY <1>4, <1>7, <1>8, <1>9
<1> HIDE DEF f, g
<1>11. Congruent(r, f, P)  BY <1>1, <1>2, <1>9, <1>10, CongruentTrans, CongruentSym
<1> QED BY <1>2, <1>3, <1>5, <1>6, <1>11 DEF Stands, f, r, w

\* The terms of a product stand for those of the product of the values.
LEMMA ConvolutionStands ==
  ASSUME NEW a, NEW b, IsPoly(a), IsPoly(b), NEW i \in Degrees
  PROVE  StandsTwice(Ring!Convolution(a, b, i), Ring!Convolution(Value(a), Value(b), i))
<1> DEFINE va == Value(a)   vb == Value(b)   q == Word * Word
           h == [j \in Degrees |-> a[j] * (IF j <= i THEN b[i - j] ELSE 2 * b[i + 19 - j])]
           g == [j \in Degrees |-> va[j] * (IF j <= i THEN vb[i - j] ELSE 2 * vb[i + 19 - j])]
           zero == [j \in Degrees |-> 0]
           t == [j \in Degrees |-> g[j] * q]
<1>1. q \in Int /\ P \in Int
  <2>1. Word \in Int /\ P \in Int  BY WordUnit
  <2> HIDE DEF Word
  <2> QED BY <2>1
<1>2. ASSUME NEW j \in Degrees PROVE StandsTwice(h[j], g[j])
  <2>1. i \in 0..18 /\ j \in 0..18  BY DEF Degrees
  <2>2. Stands(a[j], va[j])  BY ValueStands
  <2>3. CASE j <= i
    <3>1. i - j \in Degrees  BY <2>1, <2>3 DEF Degrees
    <3>2. Stands(b[i - j], vb[i - j])  BY <3>1, ValueStands
    <3> HIDE DEF va, vb
    <3>3. StandsTwice(a[j] * b[i - j], va[j] * vb[i - j])  BY <2>2, <3>2, StandsProduct
    <3> QED BY <2>3, <3>3
  <2>4. CASE ~(j <= i)
    <3>1. i + 19 - j \in Degrees  BY <2>1, <2>4 DEF Degrees
    <3>2. Stands(b[i + 19 - j], vb[i + 19 - j])  BY <3>1, ValueStands
    <3> HIDE DEF va, vb
    <3>3. Stands(2 * b[i + 19 - j], 2 * vb[i + 19 - j])  BY <3>2, StandsMultiple
    <3>4. StandsTwice(a[j] * (2 * b[i + 19 - j]), va[j] * (2 * vb[i + 19 - j]))
      BY <2>2, <3>3, StandsProduct
    <3> QED BY <2>4, <3>4
  <2> QED BY <2>3, <2>4
<1>3. Ring!Convolution(a, b, i) = Total(h) /\ Ring!Convolution(va, vb, i) = Total(g)
  BY DEF Ring!Convolution, Ring!Total, Ring!Degrees, Total, Degrees
<1> HIDE DEF h, g
<1>4. \A j \in Degrees : h[j] \in Int /\ g[j] \in Int /\ t[j] = g[j] * q /\ Congruent(h[j], t[j], P)
  <2> SUFFICES ASSUME NEW j \in Degrees
               PROVE  h[j] \in Int /\ g[j] \in Int /\ t[j] = g[j] * q /\ Congruent(h[j], t[j], P)
    OBVIOUS
  <2>1. StandsTwice(h[j], g[j])  BY <1>2
  <2>2. t[j] = g[j] * q  OBVIOUS
  <2> QED BY <2>1, <2>2 DEF StandsTwice
<1> HIDE DEF t, q
<1>5. Whole(h) /\ Whole(g)  BY <1>4 DEF Whole
<1>6. \A j \in Degrees : zero[j] = 0  OBVIOUS
<1> HIDE DEF zero
<1>7. Whole(zero) /\ Total(zero) = 0  BY <1>6, TotalZero DEF Whole
<1>8. \A j \in Degrees : t[j] = zero[j] + q * g[j] /\ t[j] \in Int
  <2> SUFFICES ASSUME NEW j \in Degrees PROVE t[j] = zero[j] + q * g[j] /\ t[j] \in Int  OBVIOUS
  <2> DEFINE e == g[j]
  <2>1. e \in Int /\ t[j] = e * q /\ zero[j] = 0  BY <1>4, <1>6
  <2> HIDE DEF e
  <2>2. e * q = 0 + q * e /\ e * q \in Int  BY <1>1, <2>1
  <2> QED BY <2>1, <2>2 DEF e
<1>9. Total(t) = Total(zero) + q * Total(g)  BY <1>1, <1>5, <1>7, <1>8, TotalLinear
<1>10. Whole(t)  BY <1>8 DEF Whole
<1>11. Congruent(Total(h), Total(t), P)  BY <1>1, <1>4, <1>5, <1>10, TotalCongruent
<1> DEFINE th == Total(h)   tg == Total(g)
<1>12. th \in Int /\ tg \in Int  BY <1>5, TotalInt
<1>13. Total(t) = 0 + q * tg /\ Congruent(th, Total(t), P)  BY <1>7, <1>9, <1>11
<1> HIDE DEF th, tg
<1>14. 0 + q * tg = tg * q  BY <1>1, <1>12
<1>15. Congruent(th, tg * q, P)  BY <1>13, <1>14
<1>16. StandsTwice(th, tg)  BY <1>12, <1>15 DEF StandsTwice, q
<1> QED BY <1>3, <1>16 DEF th, tg

\* a coefficient of a result
IsResult(r, n) == r \in Elements /\ Stands(r, n)

\* Elements are the integers 1 to P.
LEMMA ElementInt == ASSUME NEW r \in Elements PROVE r \in Int /\ 1 <= r /\ r <= P /\ r \in 1..P
<1>1. P \in Nat  BY WordUnit
<1> QED BY <1>1 DEF Elements

\* A reduction of a sum of products.
LEMMA ResultReduced ==
  ASSUME NEW r \in Elements, NEW s, NEW n, Congruent(r * Word, s, P), StandsTwice(s, n)
  PROVE  IsResult(r, n)
<1>1. r \in Int /\ s \in Int /\ n \in Int  BY ElementInt DEF StandsTwice
<1>2. Stands(r, n)  BY <1>1, StandsReduced
<1> QED BY <1>2 DEF IsResult

\* Products, by either program.
LEMMA ResultProduct ==
  ASSUME NEW a, NEW b, IsPoly(a), IsPoly(b), NEW i \in Degrees
  PROVE  /\ IsResult(GfMul(a, b)[i], Ring!Convolution(Value(a), Value(b), i))
         /\ IsResult(VgfMul(a, b)[i], Ring!Convolution(Value(a), Value(b), i))
<1>1. StandsTwice(Ring!Convolution(a, b, i), Ring!Convolution(Value(a), Value(b), i))
  BY ConvolutionStands
<1>2. /\ GfMul(a, b)[i] \in Elements
      /\ Congruent(GfMul(a, b)[i] * Word, Ring!Convolution(a, b, i), P)
  BY GfMulExact
<1>3. /\ VgfMul(a, b)[i] \in Elements
      /\ Congruent(VgfMul(a, b)[i] * Word, Ring!Convolution(a, b, i), P)
  BY VgfMulExact
<1> QED BY <1>1, <1>2, <1>3, ResultReduced

\* A product of elements.
LEMMA ResultMontyMul ==
  ASSUME NEW r \in Elements, NEW s \in Elements, NEW n, NEW m, Stands(r, n), Stands(s, m)
  PROVE  IsResult(MontyMul(r, s), n * m) /\ LaneMulConst(r, s) = MontyMul(r, s)
<1>1. MontyMul(r, s) \in Elements /\ Congruent(MontyMul(r, s) * Word, r * s, P)  BY MontyMulExact
<1>2. StandsTwice(r * s, n * m)  BY StandsProduct
<1>3. IsResult(MontyMul(r, s), n * m)  BY <1>1, <1>2, ResultReduced
<1> QED BY <1>3, LaneMulConstExact

\* Additions, subtractions and opposites.
LEMMA ResultSum ==
  ASSUME NEW r \in Elements, NEW s \in Elements, NEW n, NEW m, Stands(r, n), Stands(s, m)
  PROVE  /\ IsResult(MpAdd(r, s), n + m) /\ IsResult(LaneAdd(r, s), n + m)
         /\ IsResult(MpSub(r, s), n - m) /\ IsResult(LaneSub(r, s), n - m)
<1>1. /\ MpAdd(r, s) \in Elements /\ Congruent(MpAdd(r, s), r + s, P)
      /\ MpSub(r, s) \in Elements /\ Congruent(MpSub(r, s), r - s, P)
  BY AddSubExact
<1>2. /\ LaneAdd(r, s) \in Elements /\ Congruent(LaneAdd(r, s), r + s, P)
      /\ LaneSub(r, s) \in Elements /\ Congruent(LaneSub(r, s), r - s, P)
  BY LaneAddSubExact
<1>3. Stands(r + s, n + m) /\ Stands(r - s, n - m)  BY StandsSum
<1>4. ASSUME NEW e, NEW f, NEW k, e \in Elements, Congruent(e, f, P), Stands(f, k)
      PROVE  IsResult(e, k)
  <2>1. e \in Int  BY <1>4, ElementInt
  <2>2. Stands(e, k)  BY <1>4, <2>1, StandsSame
  <2> QED BY <1>4, <2>2 DEF IsResult
<1> QED BY <1>1, <1>2, <1>3, <1>4

\* P stands for zero.
LEMMA ModulusStands == P \in Elements /\ Stands(P, 0) /\ Stands(0, 0)
<1> DEFINE w == Word
<1>1. P \in Nat /\ P > 1 /\ P \in Int /\ w \in Int  BY WordUnit
<1> HIDE DEF w
<1> DEFINE z == 0 * w
<1>2. P = z + 1 * P /\ z = 0 /\ z \in Int  BY <1>1
<1> HIDE DEF z
<1>3. Congruent(P, z, P) /\ Congruent(z, z, P)
  <2>1. 1 \in Int  OBVIOUS
  <2>2. Congruent(P, z, P)  BY <1>2, <2>1 DEF Congruent
  <2> QED BY <1>1, <1>2, <2>2, CongruentRefl
<1> QED BY <1>1, <1>2, <1>3 DEF Stands, Elements, w, z

\* The opposite, by either program, is a subtraction from P.
LEMMA ResultOpposite ==
  ASSUME NEW r \in Elements, NEW n, Stands(r, n)
  PROVE  IsResult(MpSub(P, r), 0 - n) /\ IsResult(LaneNeg(r), 0 - n)
<1>1. IsResult(MpSub(P, r), 0 - n)  BY ModulusStands, ResultSum
<1>2. LaneNeg(r) \in Elements /\ Congruent(LaneNeg(r), -r, P)  BY LaneAddSubExact
<1>3. Stands(0 - r, 0 - n)  BY ModulusStands, StandsSum
<1>4. r \in Int /\ LaneNeg(r) \in Int /\ 0 - r = -r  BY <1>2, ElementInt
<1>5. Stands(LaneNeg(r), 0 - n)  BY <1>2, <1>3, <1>4, StandsSame
<1> QED BY <1>1, <1>2, <1>5 DEF IsResult
-----------------------------------------------------------------------------
(* Constants, in Montgomery representation. *)

\* A product of two integers reduced, of which the second stands for an integer.
LEMMA StandsTimesMod ==
  ASSUME NEW k \in Int, NEW s, NEW n, Stands(s, n)
  PROVE  (k * s) % P \in 0..(P - 1) /\ (k * s) % P \in Int /\ Stands((k * s) % P, k * n)
<1> DEFINE t == k * s   m == k * n
<1>1. Stands(t, m)  BY StandsMultiple
<1> HIDE DEF t, m
<1>2. t % P \in 0..(P - 1) /\ t % P \in Int /\ Stands(t % P, m)  BY <1>1, StandsMod
<1> QED BY <1>2 DEF t, m

\* R represents one.
LEMMA RStands == R \in 0..(P - 1) /\ R \in Int /\ Stands(R, 1)
<1> DEFINE w == Word
<1>1. w \in Int /\ P \in Int  BY WordUnit
<1>2. Stands(w, 1)
  <2>1. 1 * w = w  BY <1>1
  <2>2. Congruent(w, 1 * w, P)  BY <1>1, <2>1, CongruentRefl
  <2> QED BY <1>1, <2>2 DEF Stands
<1> HIDE DEF w
<1>3. w % P \in 0..(P - 1) /\ w % P \in Int /\ Stands(w % P, 1)  BY <1>2, StandsMod
<1> QED BY <1>3 DEF R, w

\* Rep(k) represents k.
LEMMA RepStands ==
  ASSUME NEW k \in Int
  PROVE  Rep(k) \in 0..(P - 1) /\ Rep(k) \in Int /\ Stands(Rep(k), k)
<1> DEFINE e == k % P
<1>1. P \in Nat /\ P > 0 /\ P \in Int /\ Word \in Int  BY WordUnit
<1>2. e \in 0..(P - 1) /\ Congruent(e, k, P)  BY <1>1, ModCongruent
<1>3. e \in Int  BY <1>1, <1>2
<1> HIDE DEF e
<1>4. (e * R) % P \in 0..(P - 1) /\ (e * R) % P \in Int /\ Stands((e * R) % P, e * 1)
  BY <1>3, RStands, StandsTimesMod
<1>5. Stands((e * R) % P, e)
  <2>1. e * 1 = e  BY <1>3
  <2> QED BY <1>4, <2>1
<1>6. Stands((e * R) % P, k)
  <2> DEFINE r == (e * R) % P   w == Word   m == e * w   n == k * w
  <2>1. w \in Int /\ r \in Int /\ Congruent(r, m, P)  BY <1>1, <1>4, <1>5 DEF Stands
  <2> HIDE DEF r, w
  <2>2. m \in Int /\ n \in Int  BY <1>3, <2>1
  <2>3. Congruent(m, n, P)  BY <1>1, <1>2, <1>3, <2>1, CongruentRefl, CongruentProduct
  <2> HIDE DEF m, n
  <2>4. Congruent(r, n, P)  BY <1>1, <2>1, <2>2, <2>3, CongruentTrans
  <2> QED BY <2>1, <2>4 DEF Stands, r, n, w
<1>7. Rep(k) = (e * R) % P  BY DEF Rep, e
<1> QED BY <1>4, <1>6, <1>7

\* An integer that is not a multiple of P is represented by an element.
LEMMA NotZero ==
  ASSUME NEW r, NEW n, NEW m \in Int, Stands(r, n), r \in 0..(P - 1), Congruent(n * m, 1, P)
  PROVE  r \in Elements
<1>1. P \in Nat /\ P > 1 /\ P \in Int /\ Word \in Int  BY WordUnit
<1> SUFFICES ASSUME r = 0 PROVE FALSE  BY <1>1 DEF Elements
<1> DEFINE w == Word
<1>2. n \in Int /\ w \in Int /\ Congruent(0, n * w, P)  BY <1>1 DEF Stands
<1> HIDE DEF w
<1>3. Congruent(n * w, 0 * w, P)
  <2> DEFINE e == n * w
  <2>1. e \in Int /\ Congruent(0, e, P) /\ 0 * w = 0  BY <1>2
  <2> HIDE DEF e
  <2>2. Congruent(e, 0, P)  BY <1>1, <2>1, CongruentSym
  <2> QED BY <2>1, <2>2 DEF e
<1>4. Congruent(n, 0, P)  BY <1>2, <1>3, CancelWord DEF w
<1>5. Congruent(n * m, 0 * m, P)
  <2> DEFINE z == 0
  <2>1. z \in Int /\ Congruent(n, z, P)  BY <1>4
  <2> HIDE DEF z
  <2>2. Congruent(n * m, z * m, P)  BY <1>1, <1>2, <2>1, CongruentRefl, CongruentProduct
  <2> QED BY <2>2 DEF z
<1> DEFINE f == n * m
<1>6. f \in Int /\ 0 * m = 0  BY <1>2
<1>7. Congruent(f, 0, P) /\ Congruent(f, 1, P)  BY <1>5, <1>6
<1> HIDE DEF f
<1>8. f % P = 0 % P /\ f % P = 1 % P  BY <1>1, <1>6, <1>7, ModEqual
<1>9. 0 % P = 0 /\ 1 % P = 1  BY <1>1
<1> QED BY <1>8, <1>9

\* A remainder of what carries the factor twice.
LEMMA StandsTwiceMod ==
  ASSUME NEW s, NEW n, StandsTwice(s, n)
  PROVE  s % P \in 0..(P - 1) /\ s % P \in Int /\ StandsTwice(s % P, n)
<1> DEFINE w == Word * Word
<1>1. P \in Nat /\ P > 0 /\ P \in Int /\ s \in Int /\ n \in Int /\ w \in Int /\ Congruent(s, n * w, P)
  <2>1. Word \in Int /\ P \in Nat /\ P > 1  BY WordUnit
  <2> HIDE DEF Word
  <2> QED BY <2>1 DEF StandsTwice
<1> HIDE DEF w
<1> DEFINE r == s % P   e == n * w
<1>2. r \in 0..(P - 1) /\ Congruent(r, s, P) /\ Congruent(s, e, P)  BY <1>1, ModCongruent
<1>3. r \in Int /\ e \in Int  BY <1>1, <1>2
<1> HIDE DEF r, e
<1>4. Congruent(r, e, P)  BY <1>1, <1>2, <1>3, CongruentTrans
<1> QED BY <1>1, <1>2, <1>3, <1>4 DEF StandsTwice, r, e, w

\* Because the modulus is odd, two is invertible.
LEMMA HalfOf ==
  /\ Inverse2 \in Int /\ Congruent(2 * Inverse2, 1, P)
<1>1. P \in Nat /\ P1I \in Int /\ P \in Int  BY InverseOfModulus
<1>2. PICK k \in Int : P * P1I + 1 = k * (Half * Half)  BY InverseOfModulus
<1> DEFINE h == Half \div 2   q == P \div 2   d == Half
<1>3. h \in Int /\ d = 2 * h /\ d \in Int
  <2>1. d \in Nat /\ d % 2 = 0  BY FieldAssumption, WordNat
  <2>2. h = d \div 2  OBVIOUS
  <2> HIDE DEF d, h
  <2> QED BY <2>1, <2>2
<1>4. q \in Int /\ (P = 2 * q \/ P = 2 * q + 1)  BY <1>1
<1>5. P = 2 * q + 1
  <2> SUFFICES ASSUME P = 2 * q PROVE FALSE  BY <1>4
  <2>1. P * P1I + 1 = k * (d * d)  BY <1>2
  <2> HIDE DEF d, h, q
  <2> DEFINE e == q * P1I   f == k * (h * h)
  <2>2. e \in Int /\ f \in Int  BY <1>1, <1>3, <1>4
  <2>3. P * P1I = 2 * e  BY <1>1, <1>4
  <2>4. k * (d * d) = 4 * f
    <3> DEFINE g == h * h
    <3>1. g \in Int /\ d * d = 4 * g /\ f = k * g  BY <1>3
    <3> HIDE DEF g, f
    <3> QED BY <3>1
  <2> HIDE DEF e, f
  <2>5. 2 * e + 1 = 4 * f  BY <2>1, <2>3, <2>4
  <2> QED BY <2>2, <2>5
<1> HIDE DEF q
<1>6. Inverse2 = q + 1  BY <1>1, <1>4, <1>5 DEF Inverse2
<1>7. 2 * Inverse2 = 1 + 1 * P /\ Inverse2 \in Int  BY <1>4, <1>5, <1>6
<1> QED BY <1>7 DEF Congruent

\* A quarter, and a sixteenth.
Quarter == (Inverse2 * Inverse2) % P
Sixteenth == (Quarter * Quarter) % P

\* The remainder of a product is an inverse if the product is.
LEMMA SquareOfInverse ==
  ASSUME NEW k \in Int, NEW i \in Int, Congruent(k * i, 1, P)
  PROVE  /\ (i * i) % P \in Int /\ (i * i) % P \in 0..(P - 1)
         /\ Congruent((k * k) * ((i * i) % P), 1, P)
<1>1. P \in Nat /\ P > 0 /\ P \in Int  BY WordUnit
<1> DEFINE s == i * i   r == s % P   e == k * i   kk == k * k
<1>2. s \in Int /\ e \in Int /\ kk \in Int /\ kk * s = e * e
  <2>1. (k * k) * (i * i) = (k * i) * (k * i)  OBVIOUS
  <2> QED BY <2>1
<1> HIDE DEF s
<1>3. r \in 0..(P - 1) /\ Congruent(r, s, P)  BY <1>1, <1>2, ModCongruent
<1>4. r \in Int  BY <1>1, <1>3
<1>5. Congruent(e, 1, P)  OBVIOUS
<1> HIDE DEF r, e, kk
<1>6. Congruent(kk * r, kk * s, P)  BY <1>1, <1>2, <1>3, <1>4, CongruentRefl, CongruentProduct
<1>7. Congruent(e * e, 1 * 1, P)
  <2> DEFINE o == 1
  <2>1. o \in Int /\ Congruent(e, o, P)  BY <1>5
  <2> HIDE DEF o
  <2>2. Congruent(e * e, o * o, P)  BY <1>1, <1>2, <2>1, CongruentProduct
  <2> QED BY <2>2 DEF o
<1> DEFINE f == kk * r   g == kk * s
<1>8. f \in Int /\ g \in Int /\ g = e * e /\ 1 * 1 = 1  BY <1>2, <1>4
<1>9. Congruent(f, g, P) /\ Congruent(g, 1, P)  BY <1>6, <1>7, <1>8
<1> HIDE DEF f, g
<1>10. Congruent(f, 1, P)  BY <1>1, <1>8, <1>9, CongruentTrans
<1> QED BY <1>3, <1>4, <1>10 DEF f, r, kk, s

\* Four and sixteen are invertible.
LEMMA Quarters ==
  /\ Quarter \in Int /\ Quarter \in 0..(P - 1) /\ Congruent(4 * Quarter, 1, P)
  /\ Sixteenth \in Int /\ Sixteenth \in 0..(P - 1) /\ Congruent(16 * Sixteenth, 1, P)
<1>1. Quarter \in Int /\ Quarter \in 0..(P - 1) /\ Congruent((2 * 2) * Quarter, 1, P)
  <2> DEFINE i == Inverse2   k == 2
  <2>1. i \in Int /\ k \in Int /\ Congruent(k * i, 1, P)  BY HalfOf
  <2> HIDE DEF i, k
  <2>2. (i * i) % P \in Int /\ (i * i) % P \in 0..(P - 1) /\ Congruent((k * k) * ((i * i) % P), 1, P)
    BY <2>1, SquareOfInverse
  <2> QED BY <2>2 DEF i, k, Quarter
<1>2. 2 * 2 = 4 /\ 4 * 4 = 16  OBVIOUS
<1>3. Sixteenth \in Int /\ Sixteenth \in 0..(P - 1) /\ Congruent((4 * 4) * Sixteenth, 1, P)
  <2> DEFINE i == Quarter   k == 4
  <2>1. i \in Int /\ k \in Int /\ Congruent(k * i, 1, P)  BY <1>1, <1>2
  <2> HIDE DEF i, k
  <2>2. (i * i) % P \in Int /\ (i * i) % P \in 0..(P - 1) /\ Congruent((k * k) * ((i * i) % P), 1, P)
    BY <2>1, SquareOfInverse
  <2> QED BY <2>2 DEF i, k, Sixteenth
<1> QED BY <1>1, <1>2, <1>3

\* The constants by which elements are multiplied are elements.
LEMMA ElementConstants ==
  /\ R \in Elements /\ Rep(3) \in Elements /\ Rep(4) \in Elements /\ Rep(16) \in Elements
  /\ (Sixteenth * R) % P \in Elements /\ Stands((Sixteenth * R) % P, Sixteenth)
  /\ \A i \in Degrees : RootsRep[i] \in Elements /\ Stands(RootsRep[i], Root^i)
<1>1. P \in Nat /\ P > 1 /\ P \in Int /\ P % 3 # 0  BY WordUnit, FieldAssumption
<1>2. R \in Elements
  <2>1. Congruent(1 * 1, 1, P)  BY <1>1, CongruentRefl
  <2> QED BY <2>1, RStands, NotZero
<1>3. Rep(3) \in Elements
  <2>1. Rep(3) \in 0..(P - 1) /\ Stands(Rep(3), 3)  BY RepStands
  <2>2. PICK m \in Int : \E k \in Int : 3 * m = 1 + k * P
    <3> DEFINE q == P \div 3
    <3>1. q \in Int /\ (P = 3 * q + 1 \/ P = 3 * q + 2)  BY <1>1
    <3> HIDE DEF q
    <3>2. CASE P = 3 * q + 1
      <4>1. 3 * (-q) = 1 + (-1) * P /\ -q \in Int /\ -1 \in Int  BY <3>1, <3>2
      <4> QED BY <4>1
    <3>3. CASE P = 3 * q + 2
      <4>1. 3 * (q + 1) = 1 + 1 * P /\ q + 1 \in Int /\ 1 \in Int  BY <3>1, <3>3
      <4> QED BY <4>1
    <3> QED BY <3>1, <3>2, <3>3
  <2>3. Congruent(3 * m, 1, P)  BY <2>2 DEF Congruent
  <2> QED BY <2>1, <2>3, NotZero
<1>4. Rep(4) \in Elements
  <2>1. Rep(4) \in 0..(P - 1) /\ Stands(Rep(4), 4)  BY RepStands
  <2> QED BY <2>1, Quarters, NotZero
<1>5. Rep(16) \in Elements
  <2>1. Rep(16) \in 0..(P - 1) /\ Stands(Rep(16), 16)  BY RepStands
  <2> QED BY <2>1, Quarters, NotZero
<1>6. (Sixteenth * R) % P \in Elements /\ Stands((Sixteenth * R) % P, Sixteenth)
  <2> DEFINE s == Sixteenth
  <2>1. s \in Int /\ Congruent(16 * s, 1, P)  BY Quarters
  <2> HIDE DEF s
  <2> DEFINE r == (s * R) % P
  <2>2. r \in 0..(P - 1) /\ Stands(r, s * 1)  BY <2>1, RStands, StandsTimesMod
  <2>3. s * 1 = s /\ s * 16 = 16 * s  BY <2>1
  <2> HIDE DEF r
  <2>4. Stands(r, s) /\ Congruent(s * 16, 1, P)  BY <2>1, <2>2, <2>3
  <2>5. r \in Elements  BY <2>2, <2>4, NotZero
  <2> QED BY <2>4, <2>5 DEF r, s
<1>7. ASSUME NEW i \in Degrees PROVE RootsRep[i] \in Elements /\ Stands(RootsRep[i], Root^i)
  <2> DEFINE e == Root^i
  <2>1. e \in Int /\ RootsRep[i] # 0  BY FieldAssumption
  <2>2. RootsRep[i] = Rep(e)  BY DEF RootsRep, Rep
  <2> HIDE DEF e
  <2>3. Rep(e) \in 0..(P - 1) /\ Stands(Rep(e), e)  BY <2>1, RepStands
  <2>4. Rep(e) \in Elements  BY <1>1, <2>1, <2>2, <2>3 DEF Elements
  <2> QED BY <2>2, <2>3, <2>4 DEF e
<1> QED BY <1>2, <1>3, <1>4, <1>5, <1>6, <1>7

\* The constants of sums of products.
LEMMA SumConstants ==
  /\ Am \in 0..(P - 1) /\ Stands(Am, A)
  /\ Bm \in 0..(P - 1) /\ Stands(Bm, B)
  /\ Rep2(27) \in 0..(P - 1) /\ StandsTwice(Rep2(27), 27)
  /\ MinusTwentySevenBBmm \in 0..(P - 1) /\ StandsTwice(MinusTwentySevenBBmm, -27 * B * B)
<1>1. P \in Nat /\ P > 1 /\ P \in Int /\ A \in Int /\ B \in Int  BY WordUnit, FieldAssumption
<1>2. Am \in 0..(P - 1) /\ Stands(Am, A) /\ Bm \in 0..(P - 1) /\ Stands(Bm, B) /\ Bm \in Int
  BY <1>1, RepStands DEF Am, Bm
<1>3. Rep2(27) \in 0..(P - 1) /\ StandsTwice(Rep2(27), 27)
  <2>1. Stands(Rep(27), 27)  BY RepStands
  <2> DEFINE s == Rep(27) * R   n == 27 * 1
  <2>2. StandsTwice(s, n)  BY <2>1, RStands, StandsProduct
  <2> HIDE DEF s, n
  <2>3. s % P \in 0..(P - 1) /\ StandsTwice(s % P, n)  BY <2>2, StandsTwiceMod
  <2>4. n = 27  BY DEF n
  <2> QED BY <2>3, <2>4 DEF Rep2, s
<1>4. MinusTwentySevenBBmm \in 0..(P - 1) /\ StandsTwice(MinusTwentySevenBBmm, -27 * B * B)
  <2> DEFINE k == P - 27   u == (k * Bm) % P
  <2>1. k \in Int  BY <1>1
  <2> HIDE DEF k
  <2>2. u \in Int /\ Stands(u, k * B)  BY <1>2, <2>1, StandsTimesMod
  <2> HIDE DEF u
  <2> DEFINE s == u * Bm   n == (k * B) * B
  <2>3. StandsTwice(s, n)  BY <1>2, <2>2, StandsProduct
  <2> HIDE DEF s
  <2>4. s % P \in 0..(P - 1) /\ s % P \in Int /\ StandsTwice(s % P, n)  BY <2>3, StandsTwiceMod
  <2> DEFINE r == s % P   w == Word * Word   m == -27 * B * B   e == n * w   f == m * w
  <2>5. w \in Int
    <3>1. Word \in Int  BY WordUnit
    <3> HIDE DEF Word
    <3> QED BY <3>1
  <2>6. r \in Int /\ Congruent(r, e, P)  BY <2>4 DEF StandsTwice
  <2> HIDE DEF r, w
  <2>7. m \in Int /\ n \in Int  BY <1>1, <2>1
  <2>8. e \in Int /\ f \in Int  BY <2>5, <2>7
  <2>9. Congruent(n, m, P)
    <3> DEFINE bb == B * B
    <3>1. bb \in Int /\ n = k * bb /\ m = -27 * bb /\ k = P - 27  BY <1>1, <2>1 DEF k
    <3> HIDE DEF bb, n, m
    <3>2. n = m + bb * P  BY <1>1, <3>1
    <3> QED BY <3>1, <3>2 DEF Congruent
  <2> HIDE DEF n, m
  <2>10. Congruent(e, f, P)  BY <1>1, <2>5, <2>7, <2>9, CongruentRefl, CongruentProduct
  <2> HIDE DEF e, f
  <2>11. Congruent(r, f, P)  BY <1>1, <2>6, <2>8, <2>10, CongruentTrans
  <2>12. StandsTwice(r, m)  BY <2>6, <2>7, <2>11 DEF StandsTwice, f, w
  <2>13. MinusTwentySevenBBmm = r  BY DEF MinusTwentySevenBBmm, r, s, u, k
  <2>14. r \in 0..(P - 1)  BY <2>4 DEF r
  <2> QED BY <2>12, <2>13, <2>14 DEF m
<1> QED BY <1>2, <1>3, <1>4
-----------------------------------------------------------------------------
(* The other calls. *)

\* A word reduced, by either program.
LEMMA ResultWord ==
  ASSUME NEW v \in 1..MaxOperand, NEW n, StandsTwice(v, n)
  PROVE  /\ IsResult(FromMonty(v), n) /\ IsResult(FromMonty(v % Word), n)
         /\ IsResult(WideFromMonty(v), n) /\ IsResult(WideFromMonty(v % Word), n)
         /\ IsResult(LaneFromMonty(v % Word), n)
<1>1. /\ FromMonty(v) \in Elements /\ Congruent(FromMonty(v) * Word, v, P)
      /\ WideFromMonty(v) = FromMonty(v)
  BY FromMontyExact
<1>2. IsResult(FromMonty(v), n)  BY <1>1, ResultReduced
<1>3. v \in 0..(Word - 1)
  <2>1. MaxOperand \in Int /\ MaxOperand < Word /\ Word \in Nat  BY HalfAndBound, WordNat
  <2> HIDE DEF MaxOperand, Word
  <2> QED BY <2>1
<1>4. v % Word = v  BY <1>3, HoldsItself
<1>5. LaneFromMonty(v) = FromMonty(v)  BY <1>3, LaneFromMontyExact
<1> QED BY <1>1, <1>2, <1>4, <1>5

\* gf_mul_to_low() and vgf_mul_to_low() compute the coefficient of degree 0.
LEMMA ResultLow ==
  ASSUME NEW a, NEW b, IsPoly(a), IsPoly(b)
  PROVE  /\ IsResult(GfMulToLow(a, b), Ring!Convolution(Value(a), Value(b), 0))
         /\ IsResult(VgfMulToLow(a, b), Ring!Convolution(Value(a), Value(b), 0))
<1> DEFINE h == [j \in Degrees |-> a[j] * (IF j <= 0 THEN b[0 - j] ELSE 2 * b[0 + 19 - j])]
           g == [j \in Degrees |-> IF j \in 1..18 THEN a[j] * b[19 - j] ELSE 0]
           f == [j \in Degrees |-> IF j = 0 THEN a[0] * b[0] ELSE 0]
           u == [j \in Degrees |-> IF j \in Degrees
                    THEN a[j] * (IF j = 0 THEN b[0] ELSE (2 * b[19 - j]) % Half) ELSE 0]
           n == Ring!Convolution(a, b, 0)   w == Word
           k == Ring!Convolution(Value(a), Value(b), 0)
<1>1. n = Total(h)
  BY DEF Ring!Convolution, Ring!Total, Ring!Degrees, Total, Degrees
<1>2. 0 \in Degrees  BY DEF Degrees
<1>3. n \in 1..MaxOperand /\ StandsTwice(n, k)  BY <1>2, ConvolutionFits, ConvolutionStands
<1>4. \A d \in Degrees : a[d] \in Int /\ b[d] \in Int /\ b[d] \in 1..P  BY PolyWhole DEF IsPoly, Elements
<1>5. P \in Nat /\ 4 * P < Half /\ Half \in Nat  BY WordUnit, HalfAndBound
<1>6. ASSUME NEW j \in Degrees
      PROVE  /\ f[j] \in Int /\ g[j] \in Int /\ h[j] = f[j] + 2 * g[j] /\ u[j] = h[j]
             /\ (j # 0 => f[j] = 0)
  <2>1. j \in 0..18  BY DEF Degrees
  <2>2. CASE j = 0
    <3> DEFINE e == a[0] * b[0]
    <3>1. f[j] = e /\ g[j] = 0 /\ h[j] = e /\ u[j] = e  BY <1>2, <2>2
    <3>2. e \in Int
      <4>1. a[0] \in Int /\ b[0] \in Int  BY <1>2, <1>4
      <4> QED BY <4>1
    <3> HIDE DEF e, f, g, h, u
    <3> QED BY <2>2, <3>1, <3>2
  <2>3. CASE j # 0
    <3>1. 19 - j \in Degrees /\ j \in 1..18 /\ ~(j <= 0) /\ 0 + 19 - j = 19 - j
      BY <2>1, <2>3 DEF Degrees
    <3> DEFINE c == b[19 - j]   d == a[j]
    <3>2. c \in 1..P /\ d \in Int  BY <1>4, <3>1
    <3>3. f[j] = 0 /\ g[j] = d * c /\ h[j] = d * (2 * c) /\ u[j] = d * ((2 * c) % Half)
      BY <2>3, <3>1
    <3> HIDE DEF c, d, f, g, h, u, Half
    <3>4. 2 * c \in 0..(Half - 1)  BY <1>5, <3>2
    <3>5. (2 * c) % Half = 2 * c  BY <1>5, <3>2, <3>4
    <3>6. d * c \in Int /\ d * (2 * c) = 0 + 2 * (d * c)  BY <3>2
    <3> QED BY <2>3, <3>3, <3>5, <3>6
  <2> QED BY <2>2, <2>3
<1>7. VgfMulToLow(a, b) = WideFromMonty(Total(u) % w)  BY DEF VgfMulToLow, Sum
<1>8. GfMulToLow(a, b) = FromMonty((a[0] * b[0] + 2 * (Total(g) % w)) % w)
  BY DEF GfMulToLow, Sum
<1>9. f[0] = a[0] * b[0]  BY <1>2
<1> HIDE DEF f, g, h, u, n, k, w
<1>10. Total(u) = n  BY <1>1, <1>6, TotalSame
<1>11. Whole(f) /\ Whole(g)  BY <1>6 DEF Whole
<1>12. Total(f) = f[0]  BY <1>2, <1>6, <1>11, TotalSingle
<1>13. Total(h) = Total(f) + 2 * Total(g)  BY <1>6, <1>11, TotalLinear
<1>14. IsResult(VgfMulToLow(a, b), k)  BY <1>3, <1>7, <1>10, ResultWord DEF w
<1> DEFINE t == Total(g)   r == t % w   e == f[0]
<1>15. t \in Int /\ e \in Int /\ w \in Int /\ w \in Nat /\ w > 0
  BY <1>2, <1>6, <1>11, TotalInt, WordNat DEF w
<1>16. n = e + 2 * t  BY <1>1, <1>12, <1>13
<1>17. r \in 0..(w - 1) /\ Congruent(r, t, w)  BY <1>11, SumIs DEF w
<1>18. GfMulToLow(a, b) = FromMonty((e + 2 * r) % w)  BY <1>8, <1>9
<1> HIDE DEF t, e, r
<1>19. r \in Int  BY <1>15, <1>17
<1> DEFINE v == e + 2 * r
<1>20. Congruent(v, n, w) /\ v \in Int
  <2>1. Congruent(e, e, w)  BY <1>15, CongruentRefl
  <2>2. Congruent(e + r, e + t, w)  BY <1>15, <1>17, <1>19, <2>1, CongruentSum
  <2>3. Congruent((e + r) + r, (e + t) + t, w)  BY <1>15, <1>17, <1>19, <2>2, CongruentSum
  <2>4. (e + r) + r = v /\ (e + t) + t = n /\ v \in Int  BY <1>15, <1>16, <1>19
  <2> QED BY <2>3, <2>4
<1> HIDE DEF v
<1>21. FromMonty(v % Word) \in Elements /\ Congruent(FromMonty(v % Word) * Word, n, P)
  BY <1>3, <1>20, ReducedWord DEF w
<1>22. IsResult(FromMonty(v % Word), k)  BY <1>3, <1>21, ResultReduced
<1>23. IsResult(GfMulToLow(a, b), k)  BY <1>18, <1>22 DEF v, w
<1> QED BY <1>14, <1>23 DEF k

\* An addition of a constant that may be zero.
LEMMA AddZero == ASSUME NEW r \in Elements PROVE MpAdd(r, 0) = r
<1> DEFINE w == Word
<1>1. r \in 1..P /\ P \in Nat /\ w \in Nat /\ 4 * P < w
  <2>1. P \in Nat /\ Half \in Nat /\ 4 * P < Half /\ Word \in Nat /\ Word > Half
    BY WordUnit, HalfAndBound, WordNat
  <2> HIDE DEF Word, Half
  <2> QED BY <2>1, ElementInt
<1>2. MpAdd(r, 0) = (P - (((P - (r + 0)) % w) + (IF 2 * ((P - (r + 0)) % w) >= w THEN P ELSE 0))) % w
  BY DEF MpAdd, Correction
<1> HIDE DEF w
<1> DEFINE c == P - r
<1>3. c \in 0..P /\ P - (r + 0) = c /\ P - c = r  BY <1>1
<1> HIDE DEF c
<1>4. c % w = c /\ ~(2 * c >= w)  BY <1>1, <1>3
<1>5. MpAdd(r, 0) = (P - (c + 0)) % w  BY <1>2, <1>3, <1>4
<1>6. P - (c + 0) = r /\ r % w = r  BY <1>1, <1>3
<1> QED BY <1>5, <1>6

\* 3 x^2 + A
LEMMA ResultSlope ==
  ASSUME NEW a, IsPoly(a), NEW i \in Degrees
  PROVE  IsResult(Slope(a)[i], 3 * Value(a)[i] + (IF i = 0 THEN A ELSE 0))
<1> DEFINE n == Value(a)[i]   t == MontyMul(a[i], Rep(3))
<1>1. a[i] \in Elements /\ Stands(a[i], n) /\ n \in Int  BY ValueStands DEF IsPoly
<1>2. IsResult(t, n * 3)  BY <1>1, RepStands, ElementConstants, ResultMontyMul
<1>3. Slope(a)[i] = IF i = 0 THEN MpAdd(t, Am) ELSE t
  BY DEF Slope, GfMulConst
<1> HIDE DEF n, t
<1>4. n * 3 = 3 * n /\ 3 * n \in Int /\ 3 * n + 0 = 3 * n  BY <1>1
<1>5. t \in Elements /\ Stands(t, 3 * n)  BY <1>2, <1>4 DEF IsResult
<1>6. CASE i # 0
  BY <1>3, <1>4, <1>5, <1>6 DEF IsResult, n
<1>7. CASE i = 0
  <2>1. Am \in 0..(P - 1) /\ Stands(Am, A) /\ P \in Nat  BY SumConstants, WordUnit
  <2>2. IsResult(MpAdd(t, Am), 3 * n + A)
    <3>1. CASE Am = 0
      <4>1. Stands(t + 0, 3 * n + A)  BY <1>5, <2>1, <3>1, StandsSum
      <4>2. t + 0 = t  BY <1>5, ElementInt
      <4> QED BY <1>5, <3>1, <4>1, <4>2, AddZero DEF IsResult
    <3>2. CASE Am # 0
      <4>1. Am \in Elements
        <5> HIDE DEF Am
        <5> QED BY <2>1, <3>2 DEF Elements
      <4> QED BY <1>5, <2>1, <4>1, ResultSum
    <3> QED BY <3>1, <3>2
  <2> QED BY <1>3, <1>7, <2>2 DEF n
<1> QED BY <1>6, <1>7

\* A conditional subtraction, by a signed comparison; and the first one of all, of
\* twice p where a lane of the lower half is negative.
Lessened(h, v, q) == (v - (IF (IF 2 * v >= h THEN v - h ELSE v) > q THEN q ELSE 0)) % h
Raised(h, p, i, s) == IF i < 16 /\ (IF 2 * s >= h THEN s - h ELSE s) < 0 THEN (s - 2 * p) % h ELSE s

\* The lanes of three times an element plus a constant are reduced by two
\* conditional subtractions, and one more where they are negative.
LEMMA SlopeLane ==
  ASSUME NEW h \in Nat, NEW p \in Nat, p > 0, 6 * p < h, 4 * p < h,
         NEW s \in 1..(4 * p), NEW i \in Int, ~(i < 16) => s <= 3 * p
  PROVE  /\ Lessened(h, Lessened(h, Raised(h, p, i, s), 2 * p), p) \in 1..p
         /\ \E k \in 0..5 : Lessened(h, Lessened(h, Raised(h, p, i, s), 2 * p), p) = s - k * p
<1> DEFINE first == Raised(h, p, i, s)   second == Lessened(h, first, 2 * p)
           third == Lessened(h, second, p)
<1>8. first = (IF i < 16 /\ (IF 2 * s >= h THEN s - h ELSE s) < 0 THEN (s - 2 * p) % h ELSE s)
  BY DEF Raised
<1> HIDE DEF first
<1>9. second = (first - (IF (IF 2 * first >= h THEN first - h ELSE first) > 2 * p THEN 2 * p ELSE 0)) % h
  BY DEF Lessened
<1> HIDE DEF second
<1>10. third = (second - (IF (IF 2 * second >= h THEN second - h ELSE second) > p THEN p ELSE 0)) % h
  BY DEF Lessened
<1> HIDE DEF third
<1>1. /\ first \in 1..(4 * p) /\ 2 * first < h
      /\ \E k \in 0..2 : first = s - k * p
  <2>1. CASE i < 16 /\ 2 * s >= h
    <3>1. s - 2 * p \in 1..(2 * p) /\ 2 * (s - 2 * p) < h  BY <2>1
    <3>2. (s - 2 * p) % h = s - 2 * p  BY <3>1
    <3>3. s - h < 0  OBVIOUS
    <3>4. first = s - 2 * p  BY <1>8, <2>1, <3>2, <3>3
    <3> QED BY <3>1, <3>4
  <2>2. CASE ~(i < 16 /\ 2 * s >= h)
    <3>0. s \in Int /\ 1 <= s /\ s <= 4 * p /\ p \in Int /\ h \in Int  OBVIOUS
    <3>1. first = s
      <4>1. CASE i < 16
        <5>1. ~(2 * s >= h) /\ ~(s < 0)  BY <2>2, <4>1
        <5> QED BY <1>8, <5>1
      <4>2. CASE ~(i < 16)
        BY <1>8, <4>2
      <4> QED BY <4>1, <4>2
    <3>2. 2 * s < h
      <4>1. CASE i < 16
        BY <2>2, <3>0, <4>1
      <4>2. CASE ~(i < 16)
        <5>1. s <= 3 * p  BY <4>2
        <5>2. 2 * s <= 6 * p  BY <3>0, <5>1
        <5> QED BY <3>0, <5>2
      <4> QED BY <4>1, <4>2
    <3>3. s = s - 0 * p  OBVIOUS
    <3> QED BY <3>1, <3>2, <3>3
  <2> QED BY <2>1, <2>2
<1>2. PICK k \in 0..2 : first = s - k * p  BY <1>1
<1>3. /\ second \in 1..(2 * p) /\ 2 * second < h
      /\ (second = first \/ second = first - 2 * p)
  <2>1. CASE first > 2 * p
    <3>1. first - 2 * p \in 1..(2 * p) /\ 2 * (first - 2 * p) < h  BY <1>1, <2>1
    <3>2. (first - 2 * p) % h = first - 2 * p  BY <3>1
    <3> QED BY <1>1, <1>9, <2>1, <3>1, <3>2
  <2>2. CASE ~(first > 2 * p)
    <3>1. first \in 1..(2 * p) /\ first - 0 = first /\ first % h = first  BY <1>1, <2>2
    <3> QED BY <1>1, <1>9, <2>2, <3>1
  <2> QED BY <2>1, <2>2
<1>4. third \in 1..p /\ (third = second \/ third = second - p)
  <2>1. CASE second > p
    <3>1. second - p \in 1..p  BY <1>3, <2>1
    <3>2. (second - p) % h = second - p  BY <3>1
    <3> QED BY <1>3, <1>10, <2>1, <3>1, <3>2
  <2>2. CASE ~(second > p)
    <3>1. second \in 1..p /\ second - 0 = second /\ second % h = second  BY <1>3, <2>2
    <3> QED BY <1>3, <1>10, <2>2, <3>1
  <2> QED BY <2>1, <2>2
<1>5. \E l \in 0..3 : third = first - l * p
  <2>1. third = first - 0 * p \/ third = first - 1 * p \/ third = first - 2 * p \/ third = first - 3 * p
    BY <1>1, <1>3, <1>4
  <2>2. CASE third = first - 0 * p
    <3> WITNESS 0 \in 0..3
    <3> QED BY <2>2
  <2>3. CASE third = first - 1 * p
    <3> WITNESS 1 \in 0..3
    <3> QED BY <2>3
  <2>4. CASE third = first - 2 * p
    <3> WITNESS 2 \in 0..3
    <3> QED BY <2>4
  <2>5. CASE third = first - 3 * p
    <3> WITNESS 3 \in 0..3
    <3> QED BY <2>5
  <2> QED BY <2>1, <2>2, <2>3, <2>4, <2>5
<1>6. PICK l \in 0..3 : third = first - l * p  BY <1>5
<1>7. third = s - (k + l) * p /\ k + l \in 0..5  BY <1>2, <1>6
<1> QED BY <1>4, <1>7 DEF third, second, first

\* 3 x^2 + A, on lanes.
LEMMA ResultVgfSlope ==
  ASSUME NEW a, IsPoly(a), NEW i \in Degrees
  PROVE  IsResult(VgfSlope(a)[i], 3 * Value(a)[i] + (IF i = 0 THEN A ELSE 0))
<1> DEFINE n == Value(a)[i]   c == IF i = 0 THEN Am ELSE 0   k == IF i = 0 THEN A ELSE 0
           e == a[i]   t == 3 * e   s == t + c   m == 3 * n + k   h == Half
<1>1. P \in Nat /\ P > 0 /\ h \in Nat /\ 4 * P < h /\ 6 * P < h /\ P \in Int
  BY WordUnit, HalfAndBound, FieldAssumption
<1>2. e \in 1..P /\ e \in Int /\ Stands(e, n)  BY ValueStands, ElementInt DEF IsPoly
<1>3. c \in 0..(P - 1) /\ Stands(c, k)
  <2>1. CASE i = 0
    BY <2>1, SumConstants
  <2>2. CASE i # 0
    BY <1>1, <2>2, ModulusStands
  <2> QED BY <2>1, <2>2
<1>4. i \in 0..18 /\ i \in Lanes /\ i \in Int  BY DEF Degrees, Lanes
<1>5. ~(i < 16) => c = 0
  <2>1. ~(i < 16) => i # 0  BY <1>4
  <2> QED BY <2>1
<1>6. VgfSlope(a)[i] = Lessened(h, Lessened(h, Raised(h, P, i, (t + c) % h), 2 * P), P)
  BY <1>4 DEF VgfSlope, Signed, Lessened, Raised
<1> HIDE DEF c, k, e, n
<1>7. Stands(t, 3 * n)
  <2> DEFINE o == 3
  <2>1. o \in Int  OBVIOUS
  <2> HIDE DEF o
  <2>2. Stands(o * e, o * n)  BY <1>2, <2>1, StandsMultiple
  <2> QED BY <2>2 DEF o
<1>8. t \in Int /\ t \in 3..(3 * P)  BY <1>1, <1>2
<1> HIDE DEF t
<1>9. Stands(s, m)  BY <1>3, <1>7, StandsSum
<1>10. s \in 1..(4 * P) /\ (~(i < 16) => s <= 3 * P) /\ s \in Int
  <2>1. c \in Int  BY <1>1, <1>3
  <2>2. ~(i < 16) => s = t  BY <1>5, <1>8
  <2> HIDE DEF c, t
  <2> QED BY <1>1, <1>3, <1>8, <2>1, <2>2
<1>11. s % h = s
  <2> HIDE DEF s, h
  <2> QED BY <1>1, <1>10
<1> DEFINE r == Lessened(h, Lessened(h, Raised(h, P, i, s), 2 * P), P)
<1>12. VgfSlope(a)[i] = r  BY <1>6, <1>11
<1> HIDE DEF s, h, m
<1>18. r \in 1..P /\ \E j \in 0..5 : r = s - j * P
  BY <1>1, <1>4, <1>10, SlopeLane
<1> HIDE DEF r
<1>19. PICK j \in 0..5 : r = s - j * P  BY <1>18
<1>20. r = s + (-j) * P /\ -j \in Int /\ r \in Int  BY <1>1, <1>10, <1>19
<1>21. Congruent(r, s, P)  BY <1>20 DEF Congruent
<1>22. Stands(r, m)  BY <1>9, <1>20, <1>21, StandsSame
<1>23. IsResult(r, m)  BY <1>18, <1>22 DEF IsResult, Elements
<1> QED BY <1>12, <1>23 DEF m, k, n
-----------------------------------------------------------------------------
(* The sums of six products. *)

\* What carries the factor twice, for an integer that is the same modulo P.
LEMMA StandsTwiceSame ==
  ASSUME NEW s, NEW n, NEW m \in Int, StandsTwice(s, n), Congruent(n, m, P)
  PROVE  StandsTwice(s, m)
<1> DEFINE w == Word * Word   e == n * w   f == m * w
<1>1. s \in Int /\ n \in Int /\ w \in Int /\ P \in Int /\ Congruent(s, e, P)
  <2>1. Word \in Int /\ P \in Int  BY WordUnit
  <2> HIDE DEF Word
  <2> QED BY <2>1 DEF StandsTwice
<1> HIDE DEF w
<1>2. Congruent(w, w, P)  BY <1>1, CongruentRefl
<1>4. Congruent(n * w, m * w, P)  BY <1>1, <1>2, CongruentProduct
<1>5. Congruent(e, f, P) /\ e \in Int /\ f \in Int  BY <1>1, <1>4
<1> HIDE DEF e, f
<1>3. Congruent(s, f, P)  BY <1>1, <1>5, CongruentTrans
<1> QED BY <1>1, <1>3 DEF StandsTwice, f, w

\* A term of such a sum: a constant below P, and what is at most 2P.
LEMMA Term ==
  ASSUME NEW c \in 0..(P - 1), NEW k, Stands(c, k), NEW z \in 1..(2 * P), NEW n, Stands(z, n)
  PROVE  /\ c * z \in 0..(2 * (P * P)) /\ StandsTwice(c * z, k * n)
         /\ z * c \in 0..(2 * (P * P)) /\ StandsTwice(z * c, n * k)
<1>1. P \in Nat /\ P > 1  BY WordUnit
<1>2. c * z \in Int /\ 0 <= c * z /\ c * z <= 2 * (P * P) /\ c * z = z * c
  <2>1. c \in Int /\ z \in Int /\ 0 <= c /\ c <= P /\ 0 <= z /\ z <= 2 * P  BY <1>1
  <2>2. 0 * z <= c * z /\ c * z <= P * z  BY <1>1, <2>1
  <2>3. P * z <= P * (2 * P)  BY <1>1, <2>1
  <2>4. P * (2 * P) = 2 * (P * P) /\ 0 * z = 0 /\ c * z \in Int /\ P * z \in Int /\ P * P \in Int
        /\ c * z = z * c
    BY <1>1, <2>1
  <2> DEFINE e == c * z   f == P * z   g == P * P
  <2>5. e \in Int /\ f \in Int /\ g \in Int /\ 0 <= e /\ e <= f /\ f <= 2 * g
    BY <2>2, <2>3, <2>4
  <2> HIDE DEF e, f, g
  <2>6. 0 <= e /\ e <= 2 * g  BY <2>5
  <2> QED BY <2>4, <2>6 DEF e, g
<1>3. P * P \in Int  BY <1>1
<1>4. c * z \in 0..(2 * (P * P))
  <2> DEFINE e == c * z   g == P * P
  <2>1. e \in Int /\ g \in Int /\ 0 <= e /\ e <= 2 * g  BY <1>2, <1>3
  <2> HIDE DEF e, g
  <2>2. e \in 0..(2 * g)  BY <2>1
  <2> QED BY <2>2 DEF e, g
<1> QED BY <1>2, <1>4, StandsProduct

\* Six products, none above 2 P^2, are in the range of the reduction.
LEMMA SixTerms ==
  ASSUME NEW e1, NEW e2, NEW e3, NEW e4, NEW e5, NEW e6,
         NEW n1, NEW n2, NEW n3, NEW n4, NEW n5, NEW n6,
         StandsTwice(e1, n1), StandsTwice(e2, n2), StandsTwice(e3, n3),
         StandsTwice(e4, n4), StandsTwice(e5, n5), StandsTwice(e6, n6),
         e1 > 0, \A e \in {e1, e2, e3, e4, e5, e6} : e \in 0..(2 * (P * P))
  PROVE  /\ e1 + e2 + e3 + e4 + e5 + e6 \in 1..MaxOperand
         /\ StandsTwice(e1 + e2 + e3 + e4 + e5 + e6, n1 + n2 + n3 + n4 + n5 + n6)
<1> DEFINE q == P * P   top == MaxOperand
<1>1. q \in Int /\ top \in Int /\ 37 * q <= top
  <2>1. P \in Nat /\ MaxOperand \in Int  BY WordUnit, HalfAndBound
  <2>2. 37 * (P * P) <= MaxOperand  BY FieldAssumption
  <2> HIDE DEF MaxOperand
  <2> QED BY <2>1, <2>2
<1>2. /\ e1 \in 0..(2 * q) /\ e2 \in 0..(2 * q) /\ e3 \in 0..(2 * q)
      /\ e4 \in 0..(2 * q) /\ e5 \in 0..(2 * q) /\ e6 \in 0..(2 * q)
  OBVIOUS
<1> HIDE DEF q, top
<1>3. e1 + e2 + e3 + e4 + e5 + e6 \in 1..top  BY <1>1, <1>2
<1>4. StandsTwice(e1 + e2, n1 + n2)  BY StandsTwiceSum
<1>5. StandsTwice(e1 + e2 + e3, n1 + n2 + n3)  BY <1>4, StandsTwiceSum
<1>6. StandsTwice(e1 + e2 + e3 + e4, n1 + n2 + n3 + n4)  BY <1>5, StandsTwiceSum
<1>7. StandsTwice(e1 + e2 + e3 + e4 + e5, n1 + n2 + n3 + n4 + n5)  BY <1>6, StandsTwiceSum
<1>8. StandsTwice(e1 + e2 + e3 + e4 + e5 + e6, n1 + n2 + n3 + n4 + n5 + n6)
  BY <1>7, StandsTwiceSum
<1> QED BY <1>3, <1>8 DEF top

\* the value of a product by z^9, before the reduction
Shift9(v, i) == IF i < 9 THEN 2 * v[i + 10] ELSE v[i - 9]
\* the value of what starts the doubling of a point
DoubleValue(vx, vy, i) ==
    vx[i] + (-9) * vy[i] + (-54) * vx[i] + (18 * B) * Shift9(vy, i) + (72 * B) * Shift9(vx, i)
    + (IF i = 0 THEN 27 ELSE IF i = 18 THEN -27 * B * B ELSE 0)

\* The constants that multiply terms of the sum.
LEMMA TermConstants ==
  /\ \A k \in Int : (k * Bm) % P \in 0..(P - 1) /\ Stands((k * Bm) % P, k * B)
  /\ \A k \in Int : Rep(k) \in 0..(P - 1) /\ Stands(Rep(k), k)
<1>1. Stands(Bm, B)  BY SumConstants
<1>2. ASSUME NEW k \in Int PROVE (k * Bm) % P \in 0..(P - 1) /\ Stands((k * Bm) % P, k * B)
  BY <1>1, StandsTimesMod
<1>3. ASSUME NEW k \in Int PROVE Rep(k) \in 0..(P - 1) /\ Stands(Rep(k), k)
  BY RepStands
<1> QED BY <1>2, <1>3

\* The values of coefficients, as integers.
LEMMA Values ==
  ASSUME NEW a, IsPoly(a)
  PROVE  \A i \in Degrees : /\ a[i] \in Elements /\ a[i] \in 1..P /\ a[i] \in 1..(2 * P)
                            /\ Stands(a[i], Value(a)[i]) /\ Value(a)[i] \in Int
<1> SUFFICES ASSUME NEW i \in Degrees
             PROVE  /\ a[i] \in Elements /\ a[i] \in 1..P /\ a[i] \in 1..(2 * P)
                    /\ Stands(a[i], Value(a)[i]) /\ Value(a)[i] \in Int
  OBVIOUS
<1>1. a[i] \in Elements /\ a[i] \in 1..P  BY ElementInt DEF IsPoly
<1>2. P \in Nat  BY WordUnit
<1>3. Stands(a[i], Value(a)[i]) /\ Value(a)[i] \in Int  BY ValueStands
<1> QED BY <1>1, <1>2, <1>3

\* The constant term, which is a sum of two of the kind in no case.
LEMMA ConstantTerm ==
  ASSUME NEW i \in Degrees
  PROVE  LET term == IF i = 0 THEN Rep2(27) ELSE IF i = 18 THEN MinusTwentySevenBBmm ELSE 0
         IN  /\ term \in 0..(2 * (P * P))
             /\ StandsTwice(term, IF i = 0 THEN 27 ELSE IF i = 18 THEN -27 * B * B ELSE 0)
<1> DEFINE term == IF i = 0 THEN Rep2(27) ELSE IF i = 18 THEN MinusTwentySevenBBmm ELSE 0
           q == P * P
<1>1. P \in Nat /\ P > 1  BY WordUnit
<1>2. q \in Int /\ P <= q /\ 0 <= q
  <2>1. 1 * P <= P * P  BY <1>1
  <2> QED BY <1>1, <2>1
<1> HIDE DEF q
<1>3. term \in 0..(P - 1)  BY <1>1, SumConstants
<1>4. StandsTwice(0, 0)
  <2> DEFINE w == Word * Word   z == 0 * w   o == 0
  <2>1. w \in Int /\ P \in Int
    <3>1. Word \in Int /\ P \in Int  BY WordUnit
    <3> HIDE DEF Word
    <3> QED BY <3>1
  <2> HIDE DEF w
  <2>2. z = o /\ o \in Int  BY <2>1
  <2> HIDE DEF z, o
  <2>3. Congruent(o, z, P)  BY <2>1, <2>2, CongruentRefl
  <2> QED BY <2>1, <2>2, <2>3 DEF StandsTwice, z, o, w
<1>5. StandsTwice(term, IF i = 0 THEN 27 ELSE IF i = 18 THEN -27 * B * B ELSE 0)
  BY <1>4, SumConstants
<1>6. term \in 0..(2 * q)
  <2> HIDE DEF term
  <2> QED BY <1>1, <1>2, <1>3
<1> QED BY <1>5, <1>6 DEF q

\* The first sum of the doubling of a point, as six products and one reduction.
LEMMA ResultDouble ==
  ASSUME NEW a, NEW b, IsPoly(a), IsPoly(b), NEW i \in Degrees
  PROVE  IsResult(FirstDoubleY(a, b, a, b, a)[i], DoubleValue(Value(a), Value(b), i))
<1> DEFINE va == Value(a)   vb == Value(b)
           e1 == R * a[i]   e2 == Rep(-9) * b[i]   e3 == Rep(-54) * a[i]
           e4 == IF i < 9 THEN ((36 * Bm) % P) * b[i + 10] ELSE ((18 * Bm) % P) * b[i - 9]
           e5 == IF i < 9 THEN ((144 * Bm) % P) * a[i + 10] ELSE ((72 * Bm) % P) * a[i - 9]
           e6 == IF i = 0 THEN Rep2(27) ELSE IF i = 18 THEN MinusTwentySevenBBmm ELSE 0
           n1 == va[i]   n2 == (-9) * vb[i]   n3 == (-54) * va[i]
           n4 == (18 * B) * Shift9(vb, i)   n5 == (72 * B) * Shift9(va, i)
           n6 == IF i = 0 THEN 27 ELSE IF i = 18 THEN -27 * B * B ELSE 0
           q == 2 * (P * P)
<1>1. i \in 0..18 /\ (i < 9 => i + 10 \in Degrees) /\ (~(i < 9) => i - 9 \in Degrees)
  BY DEF Degrees
<1>2. \A j \in Degrees : /\ a[j] \in 1..P /\ a[j] \in 1..(2 * P) /\ Stands(a[j], va[j]) /\ va[j] \in Int
                         /\ b[j] \in 1..P /\ b[j] \in 1..(2 * P) /\ Stands(b[j], vb[j]) /\ vb[j] \in Int
  BY Values
<1>3. P \in Nat /\ P > 1 /\ B \in Int  BY WordUnit, FieldAssumption
<1>4. FirstDoubleY(a, b, a, b, a)[i] = FromMonty((e1 + e2 + e3 + (e4 + e5) + e6) % Word)
  BY DEF FirstDoubleY
<1> HIDE DEF va, vb
<1>5. e1 \in 0..q /\ e1 > 0 /\ StandsTwice(e1, n1)
  <2>1. R \in 0..(P - 1) /\ Stands(R, 1)  BY RStands
  <2>2. e1 \in 0..q /\ StandsTwice(e1, 1 * va[i])  BY <1>2, <2>1, Term
  <2>3. 1 * va[i] = n1  BY <1>2
  <2>4. e1 > 0
    <3>1. R \in 1..P /\ a[i] \in 1..P  BY <1>2, ElementConstants, ElementInt
    <3> HIDE DEF R
    <3> DEFINE u == a[i]
    <3>2. R \in 1..P /\ u \in 1..P  BY <3>1
    <3> HIDE DEF u
    <3>3. 1 * u <= R * u  BY <1>3, <3>2
    <3>4. R * u > 0  BY <1>3, <3>2, <3>3
    <3> QED BY <3>4 DEF u
  <2> QED BY <2>2, <2>3, <2>4
<1>6. e2 \in 0..q /\ StandsTwice(e2, n2)
  <2>1. Rep(-9) \in 0..(P - 1) /\ Stands(Rep(-9), -9)  BY TermConstants
  <2> QED BY <1>2, <2>1, Term
<1>7. e3 \in 0..q /\ StandsTwice(e3, n3)
  <2>1. Rep(-54) \in 0..(P - 1) /\ Stands(Rep(-54), -54)  BY TermConstants
  <2> QED BY <1>2, <2>1, Term
<1>8. e4 \in 0..q /\ StandsTwice(e4, n4)
  <2>1. CASE i < 9
    <3> DEFINE c == (36 * Bm) % P   z == b[i + 10]   v == vb[i + 10]
    <3>1. c \in 0..(P - 1) /\ Stands(c, 36 * B)  BY TermConstants
    <3>2. z \in 1..(2 * P) /\ Stands(z, v) /\ v \in Int  BY <1>1, <1>2, <2>1
    <3>3. e4 = c * z /\ n4 = (18 * B) * (2 * v)  BY <2>1 DEF Shift9
    <3> HIDE DEF c, z, v, e4, n4
    <3>4. c * z \in 0..q /\ StandsTwice(c * z, (36 * B) * v)  BY <3>1, <3>2, Term
    <3>5. (36 * B) * v = (18 * B) * (2 * v)  BY <1>3, <3>2
    <3> QED BY <3>3, <3>4, <3>5
  <2>2. CASE ~(i < 9)
    <3> DEFINE c == (18 * Bm) % P   z == b[i - 9]   v == vb[i - 9]
    <3>1. c \in 0..(P - 1) /\ Stands(c, 18 * B)  BY TermConstants
    <3>2. z \in 1..(2 * P) /\ Stands(z, v)  BY <1>1, <1>2, <2>2
    <3>3. e4 = c * z /\ n4 = (18 * B) * v  BY <2>2 DEF Shift9
    <3> HIDE DEF c, z, v, e4, n4
    <3> QED BY <3>1, <3>2, <3>3, Term
  <2> QED BY <2>1, <2>2
<1>9. e5 \in 0..q /\ StandsTwice(e5, n5)
  <2>1. CASE i < 9
    <3> DEFINE c == (144 * Bm) % P   z == a[i + 10]   v == va[i + 10]
    <3>1. c \in 0..(P - 1) /\ Stands(c, 144 * B)  BY TermConstants
    <3>2. z \in 1..(2 * P) /\ Stands(z, v) /\ v \in Int  BY <1>1, <1>2, <2>1
    <3>3. e5 = c * z /\ n5 = (72 * B) * (2 * v)  BY <2>1 DEF Shift9
    <3> HIDE DEF c, z, v, e5, n5
    <3>4. c * z \in 0..q /\ StandsTwice(c * z, (144 * B) * v)  BY <3>1, <3>2, Term
    <3>5. (144 * B) * v = (72 * B) * (2 * v)  BY <1>3, <3>2
    <3> QED BY <3>3, <3>4, <3>5
  <2>2. CASE ~(i < 9)
    <3> DEFINE c == (72 * Bm) % P   z == a[i - 9]   v == va[i - 9]
    <3>1. c \in 0..(P - 1) /\ Stands(c, 72 * B)  BY TermConstants
    <3>2. z \in 1..(2 * P) /\ Stands(z, v)  BY <1>1, <1>2, <2>2
    <3>3. e5 = c * z /\ n5 = (72 * B) * v  BY <2>2 DEF Shift9
    <3> HIDE DEF c, z, v, e5, n5
    <3> QED BY <3>1, <3>2, <3>3, Term
  <2> QED BY <2>1, <2>2
<1>10. e6 \in 0..q /\ StandsTwice(e6, n6)  BY ConstantTerm
<1>11. DoubleValue(va, vb, i) = n1 + n2 + n3 + n4 + n5 + n6  BY DEF DoubleValue
<1> DEFINE s == e1 + e2 + e3 + e4 + e5 + e6
<1>12. e1 + e2 + e3 + (e4 + e5) + e6 = s
  <2>1. q \in Int  BY <1>3
  <2> HIDE DEF q
  <2>2. e1 \in Int /\ e2 \in Int /\ e3 \in Int /\ e4 \in Int /\ e5 \in Int /\ e6 \in Int
    BY <1>5, <1>6, <1>7, <1>8, <1>9, <1>10, <2>1
  <2> HIDE DEF e1, e2, e3, e4, e5, e6
  <2> QED BY <2>2
<1> HIDE DEF e1, e2, e3, e4, e5, e6, n1, n2, n3, n4, n5, n6
<1> DEFINE n == n1 + n2 + n3 + n4 + n5 + n6
<1>13. \A e \in {e1, e2, e3, e4, e5, e6} : e \in 0..(2 * (P * P))
  BY <1>5, <1>6, <1>7, <1>8, <1>9, <1>10
<1>14. s \in 1..MaxOperand /\ StandsTwice(s, n)
  BY <1>5, <1>6, <1>7, <1>8, <1>9, <1>10, <1>13, SixTerms
<1> HIDE DEF s, n
<1>15. IsResult(FromMonty(s % Word), n)  BY <1>14, ResultWord
<1> QED BY <1>4, <1>11, <1>12, <1>15 DEF n, va, vb

\* vgf_mulz9(): coefficients up to 2p stand for those of the product by z^9.
LEMMA Mulz9 ==
  ASSUME NEW c, NEW v, \A j \in Degrees : c[j] \in Elements /\ Stands(c[j], v[j]),
         NEW i \in Degrees
  PROVE  VgfMulz9(c)[i] \in 1..(2 * P) /\ Stands(VgfMulz9(c)[i], Shift9(v, i))
<1>1. i \in 0..18 /\ i \in Lanes /\ (i < 9 => i + 10 \in Degrees) /\ (~(i < 9) => i - 9 \in Degrees)
  BY DEF Degrees, Lanes
<1>2. P \in Nat /\ P > 1 /\ 4 * P < Half /\ Half \in Nat  BY WordUnit, HalfAndBound
<1>3. CASE i < 9
  <2> DEFINE e == c[i + 10]   n == v[i + 10]   h == Half
  <2>1. e \in 1..P /\ Stands(e, n)  BY <1>1, <1>3, ElementInt
  <2>2. VgfMulz9(c)[i] = (2 * e) % h  BY <1>1, <1>3 DEF VgfMulz9
  <2>3. Shift9(v, i) = 2 * n  BY <1>3 DEF Shift9
  <2>4. h \in Nat /\ 4 * P < h  BY <1>2
  <2> HIDE DEF e, n, h
  <2>5. (2 * e) % h = 2 * e /\ 2 * e \in 1..(2 * P)  BY <1>2, <2>1, <2>4
  <2>6. Stands(2 * e, 2 * n)
    <3> DEFINE k == 2
    <3>1. k \in Int  OBVIOUS
    <3> HIDE DEF k
    <3>2. Stands(k * e, k * n)  BY <2>1, <3>1, StandsMultiple
    <3> QED BY <3>2 DEF k
  <2> QED BY <2>2, <2>3, <2>5, <2>6
<1>4. CASE ~(i < 9)
  <2>1. VgfMulz9(c)[i] = c[i - 9]
    <3>1. ~(i <= 8) /\ i \in 9..18  BY <1>1, <1>4
    <3> QED BY <1>1, <3>1 DEF VgfMulz9
  <2>2. Shift9(v, i) = v[i - 9]  BY <1>4 DEF Shift9
  <2>3. c[i - 9] \in 1..P /\ Stands(c[i - 9], v[i - 9])  BY <1>1, <1>4, ElementInt
  <2>4. c[i - 9] \in 1..(2 * P)  BY <1>2, <2>3
  <2> QED BY <2>1, <2>2, <2>3, <2>4
<1> QED BY <1>3, <1>4

\* A factor and its inverse, among the factors of a product.
LEMMA Inverses ==
  ASSUME NEW k \in Int, NEW q \in Int, Congruent(k * q, 1, P), NEW n \in Int, NEW m \in Int
  PROVE  Congruent((n * k) * (q * m), m * n, P)
<1> DEFINE e == k * q   f == m * n   g == (n * k) * (q * m)
<1>1. e \in Int /\ f \in Int /\ g \in Int /\ P \in Int /\ Congruent(e, 1, P)  BY WordUnit
<1>2. g = f * e
  <2>1. (n * k) * (q * m) = (m * n) * (k * q)  OBVIOUS
  <2> QED BY <2>1
<1> HIDE DEF e, f, g
<1>3. Congruent(f * e, f * 1, P)  BY <1>1, CongruentRefl, CongruentProduct
<1>4. f * 1 = f  BY <1>1
<1>5. Congruent(g, f, P)  BY <1>2, <1>3, <1>4
<1> QED BY <1>5 DEF f, g

\* The first sum of the doubling of a point on lanes, where two of the operands
\* were multiplied by 16 and by 4, and the constants divide by them.
LEMMA ResultVgfDouble ==
  ASSUME NEW a, NEW b, IsPoly(a), IsPoly(b), NEW i \in Degrees
  PROVE  IsResult(VgfFirstDoubleY(VgfMulConst(a, Rep(16)), VgfMulConst(b, Rep(4)), b, a, a)[i],
                  DoubleValue(Value(a), Value(b), i))
<1> DEFINE va == Value(a)   vb == Value(b)
           sa == VgfMulConst(a, Rep(16))   zz == VgfMulConst(b, Rep(4))
           v4 == [j \in Degrees |-> vb[j] * 4]
           q == 2 * (P * P)
           c1 == (Sixteenth * R) % P   c2 == (Quarter * ((18 * Bm) % P)) % P
           c5 == (72 * Bm) % P
           e1 == sa[i] * c1   e2 == VgfMulz9(zz)[i] * c2
           e3 == b[i] * Rep(-9)   e4 == a[i] * Rep(-54)   e5 == VgfMulz9(a)[i] * c5
           e6 == IF i = 0 THEN Rep2(27) ELSE IF i = 18 THEN MinusTwentySevenBBmm ELSE 0
           n1 == va[i]   n2 == (18 * B) * Shift9(vb, i)
           n3 == (-9) * vb[i]   n4 == (-54) * va[i]
           n5 == (72 * B) * Shift9(va, i)
           n6 == IF i = 0 THEN 27 ELSE IF i = 18 THEN -27 * B * B ELSE 0
<1>1. i \in 0..18 /\ i \in Lanes /\ (i < 9 => i + 10 \in Degrees) /\ (~(i < 9) => i - 9 \in Degrees)
      /\ Degrees \subseteq Lanes
  BY DEF Degrees, Lanes
<1>2. \A j \in Degrees : /\ a[j] \in 1..P /\ a[j] \in 1..(2 * P) /\ a[j] \in Elements
                         /\ Stands(a[j], va[j]) /\ va[j] \in Int
                         /\ b[j] \in 1..P /\ b[j] \in 1..(2 * P) /\ b[j] \in Elements
                         /\ Stands(b[j], vb[j]) /\ vb[j] \in Int
  BY Values
<1>3. P \in Nat /\ P > 1 /\ B \in Int  BY WordUnit, FieldAssumption
<1>4. VgfFirstDoubleY(sa, zz, b, a, a)[i]
        = LaneFromMonty((e1 + e2 + e3 + e4 + e5 + e6) % Word)
  <2> DEFINE s == sa[i]   m == VgfMulz9(zz)[i]   z == VgfMulz9(a)[i]
             words == [l \in Lanes |->
                        sa[l] * c1 + VgfMulz9(zz)[l] * c2 + b[l] * Rep(-9) + a[l] * Rep(-54)
                        + VgfMulz9(a)[l] * c5
                        + (CASE l = 0 -> Rep2(27) [] l = 18 -> MinusTwentySevenBBmm [] OTHER -> 0)]
  <2>1. VgfFirstDoubleY(sa, zz, b, a, a) = Montyred(words)
    <3> HIDE DEF sa, zz, va, vb
    <3> QED BY DEF VgfFirstDoubleY, Quarter, Sixteenth
  <2>2. Montyred(words)[i] = LaneFromMonty(words[i] % Word)
    <3> HIDE DEF words
    <3> QED BY <1>1 DEF Montyred
  <2>3. words[i] = e1 + e2 + e3 + e4 + e5
           + (CASE i = 0 -> Rep2(27) [] i = 18 -> MinusTwentySevenBBmm [] OTHER -> 0)
    BY <1>1
  <2>4. (CASE i = 0 -> Rep2(27) [] i = 18 -> MinusTwentySevenBBmm [] OTHER -> 0) = e6
    <3>1. ~(0 = 18)  OBVIOUS
    <3> QED BY <3>1
  <2> HIDE DEF words, e1, e2, e3, e4, e5, e6, sa, zz
  <2> QED BY <2>1, <2>2, <2>3, <2>4
<1>5. \A j \in Degrees : zz[j] \in Elements /\ Stands(zz[j], v4[j])
  <2> SUFFICES ASSUME NEW j \in Degrees PROVE zz[j] \in Elements /\ Stands(zz[j], v4[j])
    OBVIOUS
  <2>1. IsResult(LaneMulConst(b[j], Rep(4)), vb[j] * 4)
    <3>1. Stands(b[j], vb[j]) /\ b[j] \in Elements  BY <1>2
    <3>2. Stands(Rep(4), 4)  BY RepStands
    <3>3. Rep(4) \in Elements  BY ElementConstants
    <3> DEFINE k == 4
    <3>4. Stands(Rep(4), k)  BY <3>2
    <3> HIDE DEF k, va, vb
    <3>5. IsResult(LaneMulConst(b[j], Rep(4)), vb[j] * k)  BY <3>1, <3>3, <3>4, ResultMontyMul
    <3> QED BY <3>5 DEF k
  <2>2. zz[j] = LaneMulConst(b[j], Rep(4))  BY <1>1 DEF VgfMulConst
  <2>3. v4[j] = vb[j] * 4  OBVIOUS
  <2> HIDE DEF zz, v4, va, vb
  <2> QED BY <2>1, <2>2, <2>3 DEF IsResult
<1>6. IsResult(sa[i], va[i] * 16)
  <2>1. Stands(a[i], va[i]) /\ a[i] \in Elements  BY <1>2
  <2>2. Stands(Rep(16), 16)  BY RepStands
  <2>3. Rep(16) \in Elements  BY ElementConstants
  <2> DEFINE k == 16
  <2>4. Stands(Rep(16), k)  BY <2>2
  <2>5. sa[i] = LaneMulConst(a[i], Rep(16))  BY <1>1 DEF VgfMulConst
  <2> HIDE DEF k, va, vb, sa
  <2>6. IsResult(LaneMulConst(a[i], Rep(16)), va[i] * k)  BY <2>1, <2>3, <2>4, ResultMontyMul
  <2> QED BY <2>5, <2>6 DEF k
<1>14. \A j \in Degrees : v4[j] = vb[j] * 4  OBVIOUS
<1> HIDE DEF va, vb, sa, zz, v4
<1>7. e1 \in 0..q /\ e1 > 0 /\ StandsTwice(e1, n1)
  <2> DEFINE c == c1   s == sa[i]   v == va[i]   t == Sixteenth   k == 16
  <2>1. c \in Elements /\ Stands(c, t) /\ t \in Int /\ Congruent(k * t, 1, P)
    BY ElementConstants, Quarters
  <2>2. c \in 0..(P - 1)  BY Quarters, StandsTimesMod, RStands
  <2>3. s \in Elements /\ Stands(s, v * k) /\ v \in Int /\ k \in Int  BY <1>2, <1>6 DEF IsResult
  <2>4. e1 = s * c /\ n1 = v  OBVIOUS
  <2>5. s \in 1..P /\ c \in 1..P  BY <2>1, <2>3, ElementInt
  <2> HIDE DEF c, s, v, t, k, e1, n1, c1
  <2>6. s \in 1..(2 * P)  BY <1>3, <2>5
  <2> DEFINE n == v * k
  <2>7. Stands(s, n)  BY <2>3
  <2> HIDE DEF n
  <2>8. s * c \in 0..q /\ StandsTwice(s * c, n * t)  BY <2>1, <2>2, <2>6, <2>7, Term
  <2>9. Congruent((v * k) * (t * 1), 1 * v, P)
    <3> DEFINE o == 1
    <3>1. o \in Int /\ Congruent(k * t, 1, P)  BY <2>1
    <3> HIDE DEF o
    <3>2. Congruent((v * k) * (t * o), o * v, P)  BY <2>1, <2>3, <3>1, Inverses
    <3> QED BY <3>2 DEF o
  <2>10. t * 1 = t /\ 1 * v = v  BY <2>1, <2>3
  <2>11. Congruent(n * t, v, P)  BY <2>9, <2>10 DEF n
  <2>12. StandsTwice(s * c, v)
    <3> DEFINE u == n * t   w == s * c
    <3>1. StandsTwice(w, u) /\ Congruent(u, v, P)  BY <2>8, <2>11
    <3> HIDE DEF u, w
    <3>2. StandsTwice(w, v)  BY <2>3, <3>1, StandsTwiceSame
    <3> QED BY <3>2 DEF w
  <2>13. s * c > 0
    <3>1. 1 * c <= s * c  BY <1>3, <2>5
    <3>2. s * c > 0  BY <1>3, <2>5, <3>1
    <3> QED BY <3>2
  <2> QED BY <2>4, <2>8, <2>12, <2>13
<1>8. e2 \in 0..q /\ StandsTwice(e2, n2)
  <2> DEFINE c == c2   z == VgfMulz9(zz)[i]   w == Shift9(vb, i)   t == Quarter   k == 4
             m == 18 * B   u == Shift9(v4, i)
  <2>1. t \in Int /\ Congruent(k * t, 1, P) /\ k \in Int /\ m \in Int  BY <1>3, Quarters
  <2>2. c \in 0..(P - 1) /\ Stands(c, t * m)
    <3> DEFINE d == (18 * Bm) % P
    <3>1. Stands(d, m)  BY TermConstants
    <3> HIDE DEF d, m, t
    <3>2. (t * d) % P \in 0..(P - 1) /\ Stands((t * d) % P, t * m)  BY <2>1, <3>1, StandsTimesMod
    <3> QED BY <3>2 DEF d, t
  <2>3. z \in 1..(2 * P) /\ Stands(z, u)  BY <1>5, Mulz9
  <2>4. u = w * k /\ w \in Int
    <3>1. CASE i < 9
      <4> DEFINE e == vb[i + 10]
      <4>1. e \in Int /\ v4[i + 10] = e * 4  BY <1>1, <1>2, <1>14, <3>1
      <4>2. u = 2 * v4[i + 10] /\ w = 2 * e  BY <3>1 DEF Shift9
      <4> HIDE DEF e, u, w
      <4> QED BY <4>1, <4>2
    <3>2. CASE ~(i < 9)
      <4> DEFINE e == vb[i - 9]
      <4>1. e \in Int /\ v4[i - 9] = e * 4  BY <1>1, <1>2, <1>14, <3>2
      <4>2. u = v4[i - 9] /\ w = e  BY <3>2 DEF Shift9
      <4> HIDE DEF e, u, w
      <4> QED BY <4>1, <4>2
    <3> QED BY <3>1, <3>2
  <2>5. e2 = z * c /\ n2 = m * w  OBVIOUS
  <2> HIDE DEF c, z, w, t, k, m, u, e2, n2, c2
  <2> DEFINE g == t * m   f == z * c   o == u * g   r == m * w
  <2>6. f \in 0..q /\ StandsTwice(f, o)
    <3>1. Stands(c, g)  BY <2>2
    <3> HIDE DEF g
    <3>2. z * c \in 0..q /\ StandsTwice(z * c, u * g)  BY <2>2, <2>3, <3>1, Term
    <3> QED BY <3>2
  <2>7. Congruent(o, r, P)
    <3>1. Congruent((w * k) * (t * m), m * w, P)  BY <2>1, <2>4, Inverses
    <3> QED BY <2>4, <3>1
  <2>8. r \in Int  BY <2>1, <2>4
  <2> HIDE DEF f, o, r
  <2>9. StandsTwice(f, r)  BY <2>6, <2>7, <2>8, StandsTwiceSame
  <2> QED BY <2>5, <2>6, <2>9 DEF f, r
<1>9. e3 \in 0..q /\ StandsTwice(e3, n3)
  <2>1. Rep(-9) \in 0..(P - 1) /\ Stands(Rep(-9), -9)  BY TermConstants
  <2> DEFINE v == vb[i]
  <2>2. StandsTwice(e3, v * (-9)) /\ e3 \in 0..q  BY <1>2, <2>1, Term
  <2>3. v \in Int  BY <1>2
  <2>4. v * (-9) = (-9) * v  BY <2>3
  <2> QED BY <2>2, <2>4
<1>10. e4 \in 0..q /\ StandsTwice(e4, n4)
  <2>1. Rep(-54) \in 0..(P - 1) /\ Stands(Rep(-54), -54)  BY TermConstants
  <2> DEFINE v == va[i]
  <2>2. StandsTwice(e4, v * (-54)) /\ e4 \in 0..q  BY <1>2, <2>1, Term
  <2>3. v \in Int  BY <1>2
  <2>4. v * (-54) = (-54) * v  BY <2>3
  <2> QED BY <2>2, <2>4
<1>11. e5 \in 0..q /\ StandsTwice(e5, n5)
  <2> DEFINE c == c5   z == VgfMulz9(a)[i]   w == Shift9(va, i)   m == 72 * B
  <2>1. c \in 0..(P - 1) /\ Stands(c, m) /\ m \in Int  BY <1>3, TermConstants
  <2>2. z \in 1..(2 * P) /\ Stands(z, w)
    <3>1. \A j \in Degrees : a[j] \in Elements /\ Stands(a[j], va[j])  BY <1>2
    <3> QED BY <3>1, Mulz9
  <2>3. e5 = z * c /\ n5 = m * w  OBVIOUS
  <2> HIDE DEF c, z, w, m, e5, n5, c5
  <2>4. z * c \in 0..q /\ StandsTwice(z * c, w * m)  BY <2>1, <2>2, Term
  <2>5. w \in Int  BY <2>2 DEF Stands
  <2>6. w * m = m * w  BY <2>1, <2>5
  <2> QED BY <2>3, <2>4, <2>6
<1>12. e6 \in 0..q /\ StandsTwice(e6, n6)  BY ConstantTerm
<1>13. DoubleValue(va, vb, i) = n1 + n3 + n4 + n2 + n5 + n6  BY DEF DoubleValue
<1>15. n1 + n3 + n4 + n2 + n5 + n6 = n1 + n2 + n3 + n4 + n5 + n6
  <2>1. n1 \in Int /\ n2 \in Int /\ n3 \in Int /\ n4 \in Int /\ n5 \in Int /\ n6 \in Int
    BY <1>7, <1>8, <1>9, <1>10, <1>11, <1>12 DEF StandsTwice
  <2> HIDE DEF n1, n2, n3, n4, n5, n6
  <2> QED BY <2>1
<1> DEFINE s == e1 + e2 + e3 + e4 + e5 + e6
           n == n1 + n2 + n3 + n4 + n5 + n6
<1> HIDE DEF e1, e2, e3, e4, e5, e6, n1, n2, n3, n4, n5, n6
<1>16. \A e \in {e1, e2, e3, e4, e5, e6} : e \in 0..(2 * (P * P))
  BY <1>7, <1>8, <1>9, <1>10, <1>11, <1>12
<1>17. s \in 1..MaxOperand /\ StandsTwice(s, n)
  BY <1>7, <1>8, <1>9, <1>10, <1>11, <1>12, <1>16, SixTerms
<1> HIDE DEF s, n
<1>18. IsResult(LaneFromMonty(s % Word), n)  BY <1>17, ResultWord
<1> QED BY <1>4, <1>13, <1>15, <1>18 DEF n, s, va, vb, sa, zz
-----------------------------------------------------------------------------
(* Each call, against the ring. *)

\* The coefficient that a call is to return, as an integer.
Meant(c, i) ==
    LET v == Value(x)   w == Value(y)
    IN  CASE c = "add" -> v[i] + w[i]
          [] c = "sub" -> v[i] - w[i]
          [] c \in {"neg", "condneg1"} -> 0 - v[i]
          [] c = "condneg0" -> v[i]
          [] c = "mul" -> Ring!Convolution(v, w, i)
          [] c = "sqr" -> Ring!Convolution(v, v, i)
          [] c = "frob" -> v[i] * Root^i
          [] c = "mul_low" -> w[i] * Ring!Convolution(v, w, 0)
          [] c = "slope" -> 3 * v[i] + (IF i = 0 THEN A ELSE 0)
          [] c = "double" -> DoubleValue(v, w, i)

\* The portable code returns it.
LEMMA MeantRef ==
  ASSUME IsPoly(x), IsPoly(y), NEW c \in Calls, NEW i \in Degrees
  PROVE  IsResult(ResultRef(c)[i], Meant(c, i))
<1> DEFINE v == Value(x)   w == Value(y)
<1>1. /\ x[i] \in Elements /\ Stands(x[i], v[i]) /\ v[i] \in Int
      /\ y[i] \in Elements /\ Stands(y[i], w[i]) /\ w[i] \in Int
  BY Values
<1>2. CASE c = "add"
  <2>1. ResultRef(c)[i] = MpAdd(x[i], y[i])  BY <1>2 DEF ResultRef, GfAdd
  <2>2. Meant(c, i) = v[i] + w[i]  BY <1>2 DEF Meant
  <2> HIDE DEF v, w
  <2> QED BY <1>1, <2>1, <2>2, ResultSum
<1>3. CASE c = "sub"
  <2>1. ResultRef(c)[i] = MpSub(x[i], y[i])  BY <1>3 DEF ResultRef, GfSub
  <2>2. Meant(c, i) = v[i] - w[i]  BY <1>3 DEF Meant
  <2> HIDE DEF v, w
  <2> QED BY <1>1, <2>1, <2>2, ResultSum
<1>4. CASE c \in {"neg", "condneg1"}
  <2>1. ResultRef(c)[i] = MpSub(P, x[i])  BY <1>4 DEF ResultRef, GfNeg, GfCondneg
  <2>2. Meant(c, i) = 0 - v[i]  BY <1>4 DEF Meant
  <2> HIDE DEF v, w
  <2> QED BY <1>1, <2>1, <2>2, ResultOpposite
<1>5. CASE c = "condneg0"
  <2>1. ResultRef(c)[i] = x[i]  BY <1>5 DEF ResultRef, GfCondneg
  <2>2. Meant(c, i) = v[i]  BY <1>5 DEF Meant
  <2> HIDE DEF v, w
  <2> QED BY <1>1, <2>1, <2>2 DEF IsResult
<1>6. CASE c = "mul"
  <2>1. ResultRef(c)[i] = GfMul(x, y)[i]  BY <1>6 DEF ResultRef
  <2>2. Meant(c, i) = Ring!Convolution(v, w, i)  BY <1>6 DEF Meant
  <2> QED BY <2>1, <2>2, ResultProduct
<1>7. CASE c = "sqr"
  <2>1. ResultRef(c)[i] = GfMul(x, x)[i]  BY <1>7, GfSqrIsMul DEF ResultRef
  <2>2. Meant(c, i) = Ring!Convolution(v, v, i)  BY <1>7 DEF Meant
  <2> QED BY <2>1, <2>2, ResultProduct
<1>8. CASE c = "frob"
  <2> DEFINE f == RootsRep[i]   e == Root^i
  <2>1. f \in Elements /\ Stands(f, e) /\ e \in Int  BY ElementConstants, FieldAssumption
  <2>2. ResultRef(c)[i] = IF i = 0 THEN x[i] ELSE MontyMul(x[i], f)
    BY <1>8 DEF ResultRef, GfFrob
  <2>3. Meant(c, i) = v[i] * e  BY <1>8 DEF Meant
  <2>4. CASE i = 0
    <3>1. e = 1
      <4>1. Root^0 = 1  BY FieldAssumption
      <4> QED BY <2>4, <4>1
    <3> HIDE DEF v, w, e
    <3>2. v[i] * e = v[i]  BY <1>1, <3>1
    <3> QED BY <1>1, <2>2, <2>3, <2>4, <3>2 DEF IsResult
  <2> HIDE DEF v, w, e, f
  <2>5. CASE i # 0
    BY <1>1, <2>1, <2>2, <2>3, <2>5, ResultMontyMul
  <2> QED BY <2>4, <2>5
<1>9. CASE c = "mul_low"
  <2> DEFINE r == GfMulToLow(x, y)   k == Ring!Convolution(v, w, 0)
  <2>1. ResultRef(c)[i] = MontyMul(y[i], r)  BY <1>9 DEF ResultRef, GfMulConst
  <2>2. Meant(c, i) = w[i] * k  BY <1>9 DEF Meant
  <2>3. r \in Elements /\ Stands(r, k)  BY ResultLow DEF IsResult
  <2> HIDE DEF v, w, r, k
  <2> QED BY <1>1, <2>1, <2>2, <2>3, ResultMontyMul
<1>10. CASE c = "slope"
  <2>1. ResultRef(c)[i] = Slope(x)[i]  BY <1>10 DEF ResultRef
  <2>2. Meant(c, i) = 3 * v[i] + (IF i = 0 THEN A ELSE 0)  BY <1>10 DEF Meant
  <2> QED BY <2>1, <2>2, ResultSlope
<1>11. CASE c = "double"
  <2>1. ResultRef(c)[i] = FirstDoubleY(x, y, x, y, x)[i]  BY <1>11 DEF ResultRef
  <2>2. Meant(c, i) = DoubleValue(v, w, i)  BY <1>11 DEF Meant
  <2> QED BY <2>1, <2>2, ResultDouble
<1> QED BY <1>2, <1>3, <1>4, <1>5, <1>6, <1>7, <1>8, <1>9, <1>10, <1>11 DEF Calls

\* The AVX2 code returns it, in the 19 lanes that count.
LEMMA MeantAvx2 ==
  ASSUME IsPoly(x), IsPoly(y), NEW c \in Calls, NEW i \in Degrees
  PROVE  IsResult(ResultAvx2(c)[i], Meant(c, i))
<1> DEFINE v == Value(x)   w == Value(y)
<1>1. /\ x[i] \in Elements /\ Stands(x[i], v[i]) /\ v[i] \in Int
      /\ y[i] \in Elements /\ Stands(y[i], w[i]) /\ w[i] \in Int
  BY Values
<1>12. i \in Lanes /\ i \in 0..18  BY DEF Degrees, Lanes
<1>2. CASE c = "add"
  <2>1. ResultAvx2(c)[i] = LaneAdd(x[i], y[i])  BY <1>2, <1>12 DEF ResultAvx2, VgfAdd
  <2>2. Meant(c, i) = v[i] + w[i]  BY <1>2 DEF Meant
  <2> HIDE DEF v, w
  <2> QED BY <1>1, <2>1, <2>2, ResultSum
<1>3. CASE c = "sub"
  <2>1. ResultAvx2(c)[i] = LaneSub(x[i], y[i])  BY <1>3, <1>12 DEF ResultAvx2, VgfSub
  <2>2. Meant(c, i) = v[i] - w[i]  BY <1>3 DEF Meant
  <2> HIDE DEF v, w
  <2> QED BY <1>1, <2>1, <2>2, ResultSum
<1>4. CASE c \in {"neg", "condneg1"}
  <2>1. ResultAvx2(c)[i] = LaneNeg(x[i])
    BY <1>4, <1>12 DEF ResultAvx2, VgfNeg, VgfCondneg
  <2>2. Meant(c, i) = 0 - v[i]  BY <1>4 DEF Meant
  <2> HIDE DEF v, w
  <2> QED BY <1>1, <2>1, <2>2, ResultOpposite
<1>5. CASE c = "condneg0"
  <2>1. ResultAvx2(c)[i] = x[i]  BY <1>5 DEF ResultAvx2, VgfCondneg
  <2>2. Meant(c, i) = v[i]  BY <1>5 DEF Meant
  <2> HIDE DEF v, w
  <2> QED BY <1>1, <2>1, <2>2 DEF IsResult
<1>6. CASE c = "mul"
  <2>1. ResultAvx2(c)[i] = VgfMul(x, y)[i]  BY <1>6 DEF ResultAvx2
  <2>2. Meant(c, i) = Ring!Convolution(v, w, i)  BY <1>6 DEF Meant
  <2> QED BY <2>1, <2>2, ResultProduct
<1>7. CASE c = "sqr"
  <2>1. ResultAvx2(c)[i] = VgfMul(x, x)[i]  BY <1>7 DEF ResultAvx2
  <2>2. Meant(c, i) = Ring!Convolution(v, v, i)  BY <1>7 DEF Meant
  <2> QED BY <2>1, <2>2, ResultProduct
<1>8. CASE c = "frob"
  <2> DEFINE f == IF i = 0 THEN R ELSE RootsRep[i]   e == Root^i
  <2>1. f \in Elements /\ Stands(f, e) /\ e \in Int
    <3>1. e \in Int /\ (i = 0 => e = 1)
      <4>1. Root^0 = 1 /\ e \in Int  BY FieldAssumption
      <4> QED BY <4>1
    <3>2. CASE i = 0
      BY <3>1, <3>2, ElementConstants, RStands
    <3>3. CASE i # 0
      BY <3>1, <3>3, ElementConstants
    <3> QED BY <3>2, <3>3
  <2>2. ResultAvx2(c)[i] = LaneMulConst(x[i], f)
    <3>1. i \in 1..18 \/ i = 0  BY <1>12
    <3>2. ~(0 \in 1..18)  OBVIOUS
    <3> QED BY <1>8, <1>12, <3>1, <3>2 DEF ResultAvx2, VgfFrob
  <2>3. Meant(c, i) = v[i] * e  BY <1>8 DEF Meant
  <2> HIDE DEF v, w, e, f
  <2> QED BY <1>1, <2>1, <2>2, <2>3, ResultMontyMul
<1>9. CASE c = "mul_low"
  <2> DEFINE r == VgfMulToLow(x, y)   k == Ring!Convolution(v, w, 0)
  <2>1. ResultAvx2(c)[i] = LaneMulConst(y[i], r)  BY <1>9, <1>12 DEF ResultAvx2, VgfMulConst
  <2>2. Meant(c, i) = w[i] * k  BY <1>9 DEF Meant
  <2>3. r \in Elements /\ Stands(r, k)  BY ResultLow DEF IsResult
  <2> HIDE DEF v, w, r, k
  <2> QED BY <1>1, <2>1, <2>2, <2>3, ResultMontyMul
<1>10. CASE c = "slope"
  <2>1. ResultAvx2(c)[i] = VgfSlope(x)[i]  BY <1>10 DEF ResultAvx2
  <2>2. Meant(c, i) = 3 * v[i] + (IF i = 0 THEN A ELSE 0)  BY <1>10 DEF Meant
  <2> QED BY <2>1, <2>2, ResultVgfSlope
<1>11. CASE c = "double"
  <2>1. ResultAvx2(c)[i]
          = VgfFirstDoubleY(VgfMulConst(x, Rep(16)), VgfMulConst(y, Rep(4)), y, x, x)[i]
    BY <1>11 DEF ResultAvx2
  <2>2. Meant(c, i) = DoubleValue(v, w, i)  BY <1>11 DEF Meant
  <2> QED BY <2>1, <2>2, ResultVgfDouble
<1> QED BY <1>2, <1>3, <1>4, <1>5, <1>6, <1>7, <1>8, <1>9, <1>10, <1>11 DEF Calls

\* Integers that are equal in the base field.
Same(e, n) == e \in Int /\ n \in Int /\ Congruent(e, n, P)

\* An integer is equal to itself.
LEMMA SameRefl == ASSUME NEW n \in Int PROVE Same(n, n)
BY WordUnit, CongruentRefl DEF Same

\* A remainder is equal to what it is the remainder of.
LEMMA SameMod == ASSUME NEW e, NEW n, Same(e, n) PROVE Same(e % P, n) /\ e % P = n % P
<1> DEFINE r == e % P
<1>1. P \in Nat /\ P > 0 /\ P \in Int /\ e \in Int /\ n \in Int /\ Congruent(e, n, P)
  BY WordUnit DEF Same
<1>2. r \in 0..(P - 1) /\ Congruent(r, e, P)  BY <1>1, ModCongruent
<1>3. r \in Int  BY <1>1, <1>2
<1>4. r = n % P  BY <1>1, ModEqual
<1> HIDE DEF r
<1>5. Congruent(r, n, P)  BY <1>1, <1>2, <1>3, CongruentTrans
<1> QED BY <1>1, <1>3, <1>4, <1>5 DEF Same, r

\* Sums and differences.
LEMMA SameSum ==
  ASSUME NEW e, NEW n, NEW f, NEW m, Same(e, n), Same(f, m)
  PROVE  Same(e + f, n + m) /\ Same(e - f, n - m)
<1>1. e \in Int /\ n \in Int /\ f \in Int /\ m \in Int /\ P \in Int
      /\ Congruent(e, n, P) /\ Congruent(f, m, P)
  BY WordUnit DEF Same
<1>2. Congruent(e + f, n + m, P) /\ Congruent(e - f, n - m, P)  BY <1>1, CongruentSum
<1> QED BY <1>1, <1>2 DEF Same

\* Multiples.
LEMMA SameTimes ==
  ASSUME NEW k \in Int, NEW e, NEW n, Same(e, n)
  PROVE  Same(k * e, k * n) /\ Same(e * k, n * k)
<1>1. e \in Int /\ n \in Int /\ P \in Int /\ Congruent(e, n, P) /\ Congruent(k, k, P)
  BY WordUnit, CongruentRefl DEF Same
<1>2. Congruent(k * e, k * n, P) /\ Congruent(e * k, n * k, P)  BY <1>1, CongruentProduct
<1> QED BY <1>1, <1>2 DEF Same

\* What the operators of the ring say of one coefficient.
LEMMA RingPlus ==
  ASSUME NEW a, NEW b, NEW i \in Degrees PROVE Ring!Plus(a, b)[i] = (a[i] + b[i]) % P
BY DEF Ring!Plus, Ring!Reduced, Ring!Degrees, Degrees

\* A coefficient of a difference.
LEMMA RingMinus ==
  ASSUME NEW a, NEW b, NEW i \in Degrees PROVE Ring!Minus(a, b)[i] = (a[i] - b[i]) % P
BY DEF Ring!Minus, Ring!Reduced, Ring!Degrees, Degrees

\* A coefficient of a multiple.
LEMMA RingScaled ==
  ASSUME NEW k, NEW a, NEW i \in Degrees PROVE Ring!Scaled(k, a)[i] = (k * a[i]) % P
BY DEF Ring!Scaled, Ring!Reduced, Ring!Degrees, Degrees

\* A coefficient of a constant.
LEMMA RingConstant ==
  ASSUME NEW k, NEW i \in Degrees PROVE Ring!Constant(k)[i] = (IF i = 0 THEN k % P ELSE 0)
BY DEF Ring!Constant, Ring!Degrees, Degrees

\* A coefficient of a product.
LEMMA RingTimes ==
  ASSUME NEW a, NEW b, NEW i \in Degrees
  PROVE  Ring!Times(a, b)[i] = Ring!Convolution(a, b, i) % P
<1>1. i \in Ring!Degrees  BY DEF Ring!Degrees, Degrees
<1> QED BY <1>1 DEF Ring!Times, Ring!Reduced

\* A coefficient of the product by z^9.
LEMMA RingShifted9 ==
  ASSUME NEW a, NEW i \in Degrees
  PROVE  Ring!Shifted9(a)[i] = (IF i < 9 THEN (2 * a[i + 10]) % P ELSE a[i - 9])
BY DEF Ring!Shifted9, Ring!Degrees, Degrees

\* A product of values is an integer.
LEMMA ValuesInt ==
  ASSUME NEW a, NEW b, IsPoly(a), IsPoly(b)
  PROVE  \A i \in Degrees : /\ Value(a)[i] \in Int /\ Value(a)[i] \in 0..(P - 1)
                            /\ Ring!Convolution(Value(a), Value(b), i) \in Int
                            /\ Shift9(Value(a), i) \in Int
<1> SUFFICES ASSUME NEW i \in Degrees
             PROVE  /\ Value(a)[i] \in Int /\ Value(a)[i] \in 0..(P - 1)
                    /\ Ring!Convolution(Value(a), Value(b), i) \in Int
                    /\ Shift9(Value(a), i) \in Int
  OBVIOUS
<1>1. Ring!Convolution(Value(a), Value(b), i) \in Int  BY ConvolutionStands DEF StandsTwice
<1>2. \A j \in Degrees : Value(a)[j] \in Int /\ Value(a)[j] \in 0..(P - 1)  BY ValueStands
<1>3. Shift9(Value(a), i) \in Int
  <2> DEFINE v == Value(a)
  <2>1. (i < 9 => i + 10 \in Degrees) /\ (~(i < 9) => i - 9 \in Degrees)  BY DEF Degrees
  <2>2. \A j \in Degrees : v[j] \in Int  BY <1>2
  <2> HIDE DEF v
  <2>3. Shift9(v, i) \in Int  BY <2>1, <2>2 DEF Shift9
  <2> QED BY <2>3 DEF v
<1> QED BY <1>1, <1>2, <1>3

\* The product by z^9, of which some coefficients are reduced.
LEMMA Shifted9Same ==
  ASSUME NEW v, \A j \in Degrees : v[j] \in Int, NEW i \in Degrees
  PROVE  Same(Ring!Shifted9(v)[i], Shift9(v, i))
<1>1. (i < 9 => i + 10 \in Degrees) /\ (~(i < 9) => i - 9 \in Degrees)  BY DEF Degrees
<1>2. CASE i < 9
  <2> DEFINE e == 2 * v[i + 10]
  <2>1. e \in Int  BY <1>1, <1>2
  <2>2. Ring!Shifted9(v)[i] = e % P /\ Shift9(v, i) = e  BY <1>2, RingShifted9 DEF Shift9
  <2> HIDE DEF e
  <2>3. Same(e % P, e)  BY <2>1, SameRefl, SameMod
  <2> QED BY <2>2, <2>3
<1>3. CASE ~(i < 9)
  <2> DEFINE e == v[i - 9]
  <2>1. e \in Int  BY <1>1, <1>3
  <2>2. Ring!Shifted9(v)[i] = e /\ Shift9(v, i) = e  BY <1>3, RingShifted9 DEF Shift9
  <2> HIDE DEF e
  <2> QED BY <2>1, <2>2, SameRefl
<1> QED BY <1>2, <1>3

\* The first sum of the doubling of a point, every step of which is reduced.
LEMMA MeantDouble ==
  ASSUME NEW v, NEW w, \A j \in Degrees : v[j] \in Int /\ w[j] \in Int, NEW i \in Degrees
  PROVE  Ring!Plus(Ring!Plus(Ring!Plus(v, Ring!Scaled(-9, w)), Ring!Scaled(-54, v)),
                   Ring!Plus(Ring!Plus(Ring!Scaled(18 * B, Ring!Shifted9(w)),
                                       Ring!Scaled(72 * B, Ring!Shifted9(v))),
                             [j \in Ring!Degrees |-> IF j = 0 THEN 27 % P
                                         ELSE IF j = 18 THEN (-27 * B * B) % P ELSE 0]))[i]
           = DoubleValue(v, w, i) % P
<1> DEFINE t == [j \in Ring!Degrees |-> IF j = 0 THEN 27 % P
                                        ELSE IF j = 18 THEN (-27 * B * B) % P ELSE 0]
           n1 == v[i]   n2 == (-9) * w[i]   n3 == (-54) * v[i]
           n4 == (18 * B) * Shift9(w, i)   n5 == (72 * B) * Shift9(v, i)
           n6 == IF i = 0 THEN 27 ELSE IF i = 18 THEN -27 * B * B ELSE 0
           s2 == Ring!Scaled(-9, w)   s3 == Ring!Scaled(-54, v)
           s4 == Ring!Scaled(18 * B, Ring!Shifted9(w))   s5 == Ring!Scaled(72 * B, Ring!Shifted9(v))
<1>1. B \in Int /\ 18 * B \in Int /\ 72 * B \in Int /\ -27 * B * B \in Int  BY FieldAssumption
<1>2. Same(n1, n1)  BY SameRefl
<1>3. Same(s2[i], n2)
  <2> DEFINE k == -9   e == w[i]
  <2>1. k \in Int /\ e \in Int  OBVIOUS
  <2>2. s2[i] = (k * e) % P /\ n2 = k * e  BY RingScaled
  <2> HIDE DEF k, e, s2, n2
  <2>3. Same(k * e, k * e)  BY <2>1, SameRefl
  <2> QED BY <2>2, <2>3, SameMod
<1>4. Same(s3[i], n3)
  <2> DEFINE k == -54   e == v[i]
  <2>1. k \in Int /\ e \in Int  OBVIOUS
  <2>2. s3[i] = (k * e) % P /\ n3 = k * e  BY RingScaled
  <2> HIDE DEF k, e, s3, n3
  <2>3. Same(k * e, k * e)  BY <2>1, SameRefl
  <2> QED BY <2>2, <2>3, SameMod
<1>5. Same(s4[i], n4)
  <2> DEFINE k == 18 * B   z == Ring!Shifted9(w)   n == Shift9(w, i)
  <2>1. k \in Int /\ Same(z[i], n)  BY <1>1, Shifted9Same
  <2>2. s4[i] = (k * z[i]) % P /\ n4 = k * n  BY RingScaled
  <2> HIDE DEF k, z, n, s4, n4
  <2>3. Same(k * z[i], k * n)  BY <2>1, SameTimes
  <2> QED BY <2>2, <2>3, SameMod
<1>6. Same(s5[i], n5)
  <2> DEFINE k == 72 * B   z == Ring!Shifted9(v)   n == Shift9(v, i)
  <2>1. k \in Int /\ Same(z[i], n)  BY <1>1, Shifted9Same
  <2>2. s5[i] = (k * z[i]) % P /\ n5 = k * n  BY RingScaled
  <2> HIDE DEF k, z, n, s5, n5
  <2>3. Same(k * z[i], k * n)  BY <2>1, SameTimes
  <2> QED BY <2>2, <2>3, SameMod
<1>7. Same(t[i], n6)
  <2> DEFINE k == -27 * B * B
  <2>1. i \in Ring!Degrees  BY DEF Ring!Degrees, Degrees
  <2>2. k \in Int  BY <1>1
  <2>3. t[i] = (IF i = 0 THEN 27 % P ELSE IF i = 18 THEN k % P ELSE 0)
        /\ n6 = (IF i = 0 THEN 27 ELSE IF i = 18 THEN k ELSE 0)
    BY <2>1
  <2> HIDE DEF k, t, n6
  <2>4. Same(27 % P, 27) /\ Same(k % P, k) /\ Same(0, 0)  BY <2>2, SameRefl, SameMod
  <2> QED BY <2>3, <2>4
<1>8. DoubleValue(v, w, i) = n1 + n2 + n3 + n4 + n5 + n6  BY DEF DoubleValue
<1> HIDE DEF t, s2, s3, s4, s5, n2, n3, n4, n5, n6
<1>9. Same(Ring!Plus(v, s2)[i], n1 + n2)
  <2>1. Same(v[i] + s2[i], n1 + n2)  BY <1>2, <1>3, SameSum
  <2> QED BY <2>1, SameMod, RingPlus
<1>10. Same(Ring!Plus(Ring!Plus(v, s2), s3)[i], n1 + n2 + n3)
  <2> DEFINE z == Ring!Plus(v, s2)   n == n1 + n2
  <2>1. Same(z[i], n)  BY <1>9
  <2> HIDE DEF z, n
  <2>2. Same(z[i] + s3[i], n + n3)  BY <1>4, <2>1, SameSum
  <2>3. Same(Ring!Plus(z, s3)[i], n + n3)  BY <2>2, SameMod, RingPlus
  <2> QED BY <2>3 DEF z, n
<1>11. Same(Ring!Plus(s4, s5)[i], n4 + n5)
  <2>1. Same(s4[i] + s5[i], n4 + n5)  BY <1>5, <1>6, SameSum
  <2> QED BY <2>1, SameMod, RingPlus
<1>12. Same(Ring!Plus(Ring!Plus(s4, s5), t)[i], n4 + n5 + n6)
  <2> DEFINE z == Ring!Plus(s4, s5)   n == n4 + n5
  <2>1. Same(z[i], n)  BY <1>11
  <2> HIDE DEF z, n
  <2>2. Same(z[i] + t[i], n + n6)  BY <1>7, <2>1, SameSum
  <2>3. Same(Ring!Plus(z, t)[i], n + n6)  BY <2>2, SameMod, RingPlus
  <2> QED BY <2>3 DEF z, n
<1> DEFINE f == Ring!Plus(Ring!Plus(v, s2), s3)   g == Ring!Plus(Ring!Plus(s4, s5), t)
           n == n1 + n2 + n3   m == n4 + n5 + n6
<1>13. n + m = n1 + n2 + n3 + n4 + n5 + n6
  <2>1. n1 \in Int /\ n2 \in Int /\ n3 \in Int /\ n4 \in Int /\ n5 \in Int /\ n6 \in Int
    BY <1>2, <1>3, <1>4, <1>5, <1>6, <1>7 DEF Same
  <2> HIDE DEF n1
  <2> QED BY <2>1
<1>14. Same(f[i], n) /\ Same(g[i], m)  BY <1>10, <1>12
<1> HIDE DEF f, g, n, m
<1>15. Same(f[i] + g[i], n + m)  BY <1>14, SameSum
<1>16. Ring!Plus(f, g)[i] = (n + m) % P  BY <1>15, SameMod, RingPlus
<1> QED BY <1>8, <1>13, <1>16 DEF f, g, s2, s3, s4, s5, t

\* The ring returns it.
LEMMA MeantRing ==
  ASSUME IsPoly(x), IsPoly(y), NEW c \in Calls, NEW i \in Degrees
  PROVE  Meant(c, i) \in Int /\ Ring!Result(c)[i] = Meant(c, i) % P
<1> DEFINE v == Value(x)   w == Value(y)
<1>1. /\ \A j \in Degrees : v[j] \in Int /\ w[j] \in Int
      /\ v[i] \in 0..(P - 1) /\ w[i] \in Int /\ v[i] \in Int
      /\ Ring!Convolution(v, w, i) \in Int /\ Ring!Convolution(v, v, i) \in Int
  BY ValuesInt
<1>2. P \in Nat /\ P > 0  BY WordUnit
<1>3. 0 \in Degrees /\ i \in 0..18  BY DEF Degrees
<1>13. Same(v[i], v[i]) /\ Same(w[i], w[i]) /\ Same(0, 0)  BY <1>1, SameRefl
<1>4. CASE c = "add"
  <2>1. Ring!Result(c) = Ring!Plus(v, w)  BY <1>4 DEF Ring!Result
  <2>2. Meant(c, i) = v[i] + w[i]  BY <1>4 DEF Meant
  <2> HIDE DEF v, w
  <2> QED BY <1>1, <2>1, <2>2, RingPlus
<1>5. CASE c = "sub"
  <2>1. Ring!Result(c) = Ring!Minus(v, w)  BY <1>5 DEF Ring!Result
  <2>2. Meant(c, i) = v[i] - w[i]  BY <1>5 DEF Meant
  <2> HIDE DEF v, w
  <2> QED BY <1>1, <2>1, <2>2, RingMinus
<1>6. CASE c \in {"neg", "condneg1"}
  <2>1. Ring!Result(c) = Ring!Minus(Ring!Constant(0), v)  BY <1>6 DEF Ring!Result
  <2>2. Meant(c, i) = 0 - v[i]  BY <1>6 DEF Meant
  <2> HIDE DEF v, w
  <2> DEFINE z == Ring!Constant(0)
  <2>3. z[i] = 0
    <3>1. 0 % P = 0  BY <1>2
    <3> QED BY <3>1, RingConstant
  <2>4. Ring!Minus(z, v)[i] = (z[i] - v[i]) % P  BY RingMinus
  <2> HIDE DEF z
  <2>5. Ring!Result(c)[i] = (0 - v[i]) % P  BY <2>1, <2>3, <2>4 DEF z
  <2>6. 0 - v[i] \in Int  BY <1>1
  <2> QED BY <2>2, <2>5, <2>6
<1>7. CASE c = "condneg0"
  <2>1. Ring!Result(c) = v  BY <1>7 DEF Ring!Result
  <2>2. Meant(c, i) = v[i]  BY <1>7 DEF Meant
  <2> HIDE DEF v, w
  <2>3. v[i] % P = v[i]  BY <1>1, <1>2
  <2> QED BY <1>1, <2>1, <2>2, <2>3
<1>8. CASE c = "mul"
  <2>1. Ring!Result(c) = Ring!Times(v, w)  BY <1>8 DEF Ring!Result
  <2>2. Meant(c, i) = Ring!Convolution(v, w, i)  BY <1>8 DEF Meant
  <2> HIDE DEF v, w
  <2> QED BY <1>1, <2>1, <2>2, RingTimes
<1>9. CASE c = "sqr"
  <2>1. Ring!Result(c) = Ring!Times(v, v)  BY <1>9 DEF Ring!Result
  <2>2. Meant(c, i) = Ring!Convolution(v, v, i)  BY <1>9 DEF Meant
  <2> HIDE DEF v, w
  <2> QED BY <1>1, <2>1, <2>2, RingTimes
<1>10. CASE c = "frob"
  <2> DEFINE e == Root^i
  <2>1. Ring!Result(c)[i] = (v[i] * e) % P
    <3>1. i \in Ring!Degrees  BY DEF Ring!Degrees, Degrees
    <3>2. Ring!Result(c) = Ring!Reduced(LAMBDA j : v[j] * Root^j)  BY <1>10 DEF Ring!Result
    <3> HIDE DEF v, w
    <3> QED BY <3>1, <3>2 DEF Ring!Reduced
  <2>2. Meant(c, i) = v[i] * e  BY <1>10 DEF Meant
  <2>3. e \in Int  BY FieldAssumption
  <2> HIDE DEF v, w, e
  <2>4. v[i] * e \in Int  BY <1>1, <2>3
  <2> QED BY <2>1, <2>2, <2>4
<1>11. CASE c = "mul_low"
  <2> DEFINE k == Ring!Convolution(v, w, 0)   low == Ring!Times(v, w)[0]   n == w[i]
  <2>1. Ring!Result(c) = Ring!Scaled(low, w)  BY <1>11 DEF Ring!Result
  <2>2. Meant(c, i) = n * k  BY <1>11 DEF Meant
  <2>3. k \in Int  BY <1>3, ValuesInt
  <2>4. n \in Int  BY <1>1
  <2> HIDE DEF v
  <2>5. low = k % P  BY <1>3, RingTimes
  <2> HIDE DEF w, k, low
  <2>6. Ring!Scaled(low, w)[i] = (low * n) % P  BY RingScaled
  <2> HIDE DEF n
  <2>7. Same(low, k)  BY <2>3, <2>5, SameRefl, SameMod
  <2>8. Same(low * n, k * n)  BY <2>4, <2>7, SameTimes
  <2>9. (low * n) % P = (k * n) % P  BY <2>8, SameMod
  <2>10. k * n = n * k /\ n * k \in Int  BY <2>3, <2>4
  <2> QED BY <2>1, <2>2, <2>6, <2>9, <2>10
<1>12. CASE c = "slope"
  <2> DEFINE s == Ring!Scaled(3, v)   t == Ring!Constant(A)   n == v[i]   e == 3 * n
             m == IF i = 0 THEN A ELSE 0
  <2>1. Ring!Result(c) = Ring!Plus(s, t)  BY <1>12 DEF Ring!Result
  <2>2. Meant(c, i) = e + m  BY <1>12 DEF Meant
  <2>3. s[i] = e % P  BY RingScaled
  <2>4. e \in Int
    <3>1. n \in Int  BY <1>1
    <3> HIDE DEF n
    <3> QED BY <3>1
  <2>5. Same(t[i], m)
    <3>1. t[i] = (IF i = 0 THEN A % P ELSE 0)  BY RingConstant
    <3>2. Same(A % P, A)  BY FieldAssumption, SameRefl, SameMod
    <3> HIDE DEF t, v, w
    <3> QED BY <1>13, <3>1, <3>2
  <2> HIDE DEF v, w, s, t, n, e, m
  <2>6. Same(s[i], e)  BY <2>3, <2>4, SameRefl, SameMod
  <2>7. Same(s[i] + t[i], e + m)  BY <2>5, <2>6, SameSum
  <2>8. e + m \in Int /\ (s[i] + t[i]) % P = (e + m) % P  BY <2>7, SameMod DEF Same
  <2>9. Ring!Plus(s, t)[i] = (s[i] + t[i]) % P  BY RingPlus
  <2> QED BY <2>1, <2>2, <2>8, <2>9
<1>14. CASE c = "double"
  <2> DEFINE t == [j \in Ring!Degrees |-> IF j = 0 THEN 27 % P
                                          ELSE IF j = 18 THEN (-27 * B * B) % P ELSE 0]
  <2>1. Ring!Result(c)
          = Ring!Plus(Ring!Plus(Ring!Plus(v, Ring!Scaled(-9, w)), Ring!Scaled(-54, v)),
                      Ring!Plus(Ring!Plus(Ring!Scaled(18 * B, Ring!Shifted9(w)),
                                          Ring!Scaled(72 * B, Ring!Shifted9(v))), t))
    BY <1>14 DEF Ring!Result
  <2>2. Meant(c, i) = DoubleValue(v, w, i)  BY <1>14 DEF Meant
  <2>3. DoubleValue(v, w, i) \in Int
    <3>1. IsResult(FirstDoubleY(x, y, x, y, x)[i], DoubleValue(v, w, i))  BY ResultDouble
    <3> QED BY <3>1 DEF IsResult, Stands
  <2>4. \A j \in Degrees : v[j] \in Int /\ w[j] \in Int  BY <1>1
  <2> HIDE DEF v, w
  <2> QED BY <2>1, <2>2, <2>3, <2>4, MeantDouble
<1> QED
  BY <1>4, <1>5, <1>6, <1>7, <1>8, <1>9, <1>10, <1>11, <1>12, <1>14 DEF Calls

\* So each call of either program returns an operand, whose value is the one of the ring.
LEMMA CallExact ==
  ASSUME IsPoly(x), IsPoly(y), NEW c \in Calls,
         NEW r, r = ResultRef(c) \/ r = ResultAvx2(c)
  PROVE  IsPoly(r) /\ Value(r) = Ring!Result(c)
<1>1. ASSUME NEW i \in Degrees PROVE r[i] \in Elements /\ Value(r)[i] = Ring!Result(c)[i]
  <2> DEFINE n == Meant(c, i)
  <2>1. IsResult(r[i], n)  BY MeantRef, MeantAvx2
  <2>2. n \in Int /\ Ring!Result(c)[i] = n % P  BY MeantRing
  <2> HIDE DEF n
  <2>3. Value(r)[i] = n % P  BY <2>1, <2>2, ValueIs DEF IsResult
  <2> QED BY <2>1, <2>2, <2>3 DEF IsResult
<1>2. IsPoly(r)  BY <1>1 DEF IsPoly
<1>3. Value(r) = [i \in Degrees |-> Value(r)[i]]  BY DEF Value
<1>4. Ring!Result(c) = [i \in Degrees |-> Ring!Result(c)[i]]
  <2> DEFINE v == Value(x)   w == Value(y)
  <2>1. v = [i \in Degrees |-> v[i]]  BY DEF Value
  <2>2. Ring!Degrees = Degrees  BY DEF Ring!Degrees, Degrees
  <2>3. \E f, g : Ring!Result(c) = Ring!Plus(f, g) \/ Ring!Result(c) = Ring!Minus(f, g)
                  \/ Ring!Result(c) = Ring!Times(f, g) \/ Ring!Result(c) = Ring!Scaled(f, g)
                  \/ Ring!Result(c) = v
                  \/ Ring!Result(c) = Ring!Reduced(LAMBDA j : v[j] * Root^j)
    <3>1. CASE c = "add"
      BY <3>1 DEF Ring!Result
    <3>2. CASE c = "sub"
      BY <3>2 DEF Ring!Result
    <3>3. CASE c \in {"neg", "condneg1"}
      BY <3>3 DEF Ring!Result
    <3>4. CASE c = "condneg0"
      BY <3>4 DEF Ring!Result
    <3>5. CASE c \in {"mul", "sqr"}
      BY <3>5 DEF Ring!Result
    <3>6. CASE c = "frob"
      BY <3>6 DEF Ring!Result
    <3>7. CASE c = "mul_low"
      BY <3>7 DEF Ring!Result
    <3>8. CASE c = "slope"
      BY <3>8 DEF Ring!Result
    <3>9. CASE c = "double"
      BY <3>9 DEF Ring!Result
    <3> QED BY <3>1, <3>2, <3>3, <3>4, <3>5, <3>6, <3>7, <3>8, <3>9 DEF Calls
  <2>4. PICK f, g : \/ Ring!Result(c) = Ring!Plus(f, g) \/ Ring!Result(c) = Ring!Minus(f, g)
                    \/ Ring!Result(c) = Ring!Times(f, g) \/ Ring!Result(c) = Ring!Scaled(f, g)
                    \/ Ring!Result(c) = v
                    \/ Ring!Result(c) = Ring!Reduced(LAMBDA j : v[j] * Root^j)
    BY <2>3
  <2> DEFINE z == Ring!Result(c)
  <2>5. z = v \/ z = [i \in Degrees |-> z[i]]
    BY <2>2, <2>4 DEF Ring!Plus, Ring!Minus, Ring!Times, Ring!Scaled, Ring!Reduced
  <2> QED BY <2>1, <2>5
<1> QED BY <1>1, <1>2, <1>3, <1>4
-----------------------------------------------------------------------------
(* Sequences of calls. *)

\* The invariant says that both operands are polynomials over the base field.
LEMMA ReducedIsPoly == Reduced <=> IsPoly(x) /\ IsPoly(y)
BY DEF Reduced, IsPoly

\* A behaviour starts with operands.
LEMMA InitReduced == Init => Reduced
<1> SUFFICES ASSUME Init PROVE IsPoly(x) /\ IsPoly(y)
  BY ReducedIsPoly
<1>1. P \in Elements  BY ModulusStands
<1>2. ASSUME NEW s \in Uniform \cup Sparse, NEW junk PROVE IsPoly(Stored(s, junk))
  <2> SUFFICES ASSUME NEW i \in Degrees PROVE Stored(s, junk)[i] \in Elements
    BY DEF IsPoly
  <2>1. i \in Lanes /\ i <= 18  BY DEF Degrees, Lanes
  <2>2. Stored(s, junk)[i] = s[i]  BY <2>1 DEF Stored
  <2>3. CASE s \in Uniform
    <3>1. PICK c \in Samples : s = [d \in Degrees |-> c]  BY <2>3 DEF Uniform
    <3>2. s[i] \in Elements  BY <3>1, FieldAssumption
    <3> QED BY <2>2, <3>2
  <2>4. CASE s \in Sparse
    <3>1. PICK k \in Degrees, c \in Samples : s = [d \in Degrees |-> IF d = k THEN c ELSE P]
      BY <2>4 DEF Sparse
    <3>2. c \in Elements  BY FieldAssumption
    <3>3. s[i] = IF i = k THEN c ELSE P  BY <3>1
    <3> QED BY <1>1, <2>2, <3>2, <3>3
  <2> QED BY <2>3, <2>4
<1>3. CASE KernelInit
  <2>1. PICK s \in Uniform \cup Sparse, t \in Uniform \cup Sparse, junk \in Leftovers :
           x = Stored(s, junk) /\ y = Stored(t, junk)
    BY <1>3 DEF KernelInit
  <2> QED BY <1>2, <2>1
<1>4. CASE x = Zero /\ y = Zero
  <2>1. \A i \in Degrees : Zero[i] = P  BY DEF Zero, Degrees
  <2> QED BY <1>1, <1>4, <2>1 DEF IsPoly
<1> QED BY <1>3, <1>4 DEF Init

\* A call returns an operand and leaves the other one; an exchange and a step of the
\* other program keep both.
LEMMA NextReduced == Reduced /\ [Next]_vars => Reduced'
<1> SUFFICES ASSUME Reduced, [Next]_vars PROVE Reduced'
  OBVIOUS
<1>1. IsPoly(x) /\ IsPoly(y)  BY ReducedIsPoly
<1>2. ASSUME IsPoly(x') /\ IsPoly(y') PROVE Reduced'
  BY <1>2 DEF Reduced, IsPoly
<1>3. ASSUME NEW c \in Calls, Call(c) PROVE IsPoly(x') /\ IsPoly(y')
  <2>1. (x' = ResultRef(c) \/ x' = ResultAvx2(c)) /\ y' = y  BY <1>3 DEF Call
  <2>2. IsPoly(x')  BY <1>1, <2>1, CallExact
  <2> QED BY <1>1, <2>1, <2>2
<1>4. CASE Exchange
  <2>1. x' = y /\ y' = x  BY <1>4 DEF Exchange
  <2> QED BY <1>1, <1>2, <2>1
<1>5. CASE UNCHANGED <<x, y>>
  <2>1. x' = x /\ y' = y  BY <1>5
  <2> QED BY <1>1, <1>2, <2>1
<1> QED BY <1>2, <1>3, <1>4, <1>5 DEF Next, KernelCall, KernelNext, PowerStep, vars

\* Whatever the sequence of calls, on whatever operands, by either program: every
\* coefficient is in 1..p, so that the sums of products that the next call forms are
\* in the range of the reduction (mp_frommonty, gf_add, vgf_montyred and the others).
THEOREM ReducedAlways == Spec => []Reduced
<1>1. Init => Reduced  BY InitReduced
<1>2. Reduced /\ [Next]_vars => Reduced'  BY NextReduced
<1> QED BY <1>1, <1>2, PTL DEF Spec

\* The values of operands are polynomials of the ring.
LEMMA ValueInRing == ASSUME NEW a, IsPoly(a) PROVE Value(a) \in Ring!Polynomials
<1>1. Value(a) = [i \in Degrees |-> Value(a)[i]]  BY DEF Value
<1>2. \A i \in Degrees : Value(a)[i] \in 0..(P - 1)  BY ValueStands
<1>3. Ring!Degrees = Degrees  BY DEF Ring!Degrees, Degrees
<1> QED BY <1>1, <1>2, <1>3 DEF Ring!Polynomials

\* The code implements the ring: every call of either program, whatever was called
\* before, returns what polynomial arithmetic modulo p and z^19 - 2 says.
THEOREM RingAlways == Spec => IsFieldRing
<1>1. Init => Ring!Init
  <2> SUFFICES ASSUME Init PROVE Ring!Init
    OBVIOUS
  <2>1. IsPoly(x) /\ IsPoly(y)  BY InitReduced, ReducedIsPoly
  <2>2. call = ""  BY DEF Init, KernelInit
  <2> QED BY <2>1, <2>2, ValueInRing DEF Ring!Init
<1>2. Reduced /\ [Next]_vars => [Ring!Next]_(Ring!vars)
  <2> SUFFICES ASSUME Reduced, [Next]_vars PROVE [Ring!Next]_(Ring!vars)
    OBVIOUS
  <2>1. IsPoly(x) /\ IsPoly(y)  BY ReducedIsPoly
  <2>2. ASSUME NEW c \in Calls, Call(c) PROVE Ring!Call(c) /\ c \in Ring!Calls
    <3>1. (x' = ResultRef(c) \/ x' = ResultAvx2(c)) /\ y' = y /\ call' = c  BY <2>2 DEF Call
    <3>2. Value(x') = Ring!Result(c)  BY <2>1, <3>1, CallExact
    <3>3. c \in Ring!Calls  BY DEF Calls, Ring!Calls
    <3>4. Value(x)' = Ring!Result(c)
      <4>1. Value(x)' = Value(x')  BY DEF Value
      <4> QED BY <3>2, <4>1
    <3>5. Value(y)' = Value(y)  BY <3>1 DEF Value
    <3> QED BY <3>1, <3>3, <3>4, <3>5 DEF Ring!Call
  <2>3. CASE Exchange
    <3>1. x' = y /\ y' = x /\ call' = ""  BY <2>3 DEF Exchange
    <3>2. Value(x)' = Value(y) /\ Value(y)' = Value(x)  BY <3>1 DEF Value
    <3>3. Ring!Exchange  BY <3>1, <3>2 DEF Ring!Exchange
    <3> QED BY <3>3 DEF Ring!Next
  <2>4. CASE UNCHANGED <<x, y, call>>
    <3>1. x' = x /\ y' = y /\ call' = call  BY <2>4
    <3>2. Value(x)' = Value(x) /\ Value(y)' = Value(y)  BY <3>1 DEF Value
    <3> QED BY <3>1, <3>2 DEF Ring!vars
  <2>5. ASSUME NEW c \in Calls, Call(c) PROVE Ring!Next
    BY <2>2, <2>5 DEF Ring!Next
  <2> QED BY <2>3, <2>4, <2>5 DEF Next, KernelCall, KernelNext, PowerStep, vars
<1> QED BY <1>1, <1>2, ReducedAlways, PTL DEF Spec, IsFieldRing, Ring!Spec
=============================================================================
