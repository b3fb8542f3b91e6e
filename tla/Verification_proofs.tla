------------------------ MODULE Verification_proofs ------------------------
(***************************************************************************)
(* Proofs about the verification of an equation between points.            *)
(***************************************************************************)
EXTENDS Verification, Congruence

-----------------------------------------------------------------------------
(***************************************************************************)
(* The recoding.                                                           *)
(***************************************************************************)

LEMMA Power ==
  ASSUME NEW m \in Nat, PowersUpTo(m), NEW k \in 0..m
  PROVE  2^k \in Nat /\ 2^k > 0
BY DEF PowersUpTo

LEMMA PowerSum ==
  ASSUME NEW m \in Nat, PowersUpTo(m), NEW k \in Nat, NEW l \in Nat, k + l <= m
  PROVE  2^(k + l) = 2^k * 2^l
BY DEF PowersUpTo

LEMMA PowerNext ==
  ASSUME NEW m \in Nat, PowersUpTo(m), NEW k \in Nat, k + 1 <= m
  PROVE  2^(k + 1) = 2 * 2^k /\ 2^k \in Nat /\ 2^k > 0
<1>1. k \in 0..m /\ 1 \in Nat
  OBVIOUS
<1>2. 2^k \in Nat /\ 2^k > 0
  BY <1>1, Power
<1>3. 2^(k + 1) = 2^k * 2^1
  BY <1>1, PowerSum
<1>4. 2^1 = 2
  BY DEF PowersUpTo
<1> DEFINE f == 2^k  g == 2^(k + 1)
<1>5. f \in Nat /\ f > 0 /\ g = f * 2
  BY <1>2, <1>3, <1>4
<1> HIDE DEF f, g
<1>6. g = 2 * f
  BY <1>5
<1> QED BY <1>5, <1>6 DEF f, g

LEMMA PowerGrows ==
  ASSUME NEW m \in Nat, PowersUpTo(m), NEW k \in Nat, NEW l \in Nat, k <= l, l <= m
  PROVE  /\ 2^k <= 2^l
         /\ 2^(l - k) \in Nat /\ 2^(l - k) > 0 /\ 2^l = 2^k * 2^(l - k)
<1>1. k \in 0..m /\ l \in 0..m /\ l - k \in 0..m /\ l - k \in Nat /\ k + (l - k) = l
  OBVIOUS
<1> DEFINE f == 2^k  g == 2^(l - k)  h == 2^l
<1>2. f \in Nat /\ f > 0 /\ g \in Nat /\ g > 0 /\ h \in Nat
  BY <1>1, Power
<1>3. 2^(k + (l - k)) = 2^k * 2^(l - k)
  BY <1>1, PowerSum
<1>4. h = f * g
  BY <1>1, <1>3
<1> HIDE DEF f, g, h
<1>5. f <= h
  BY <1>2, <1>4
<1> QED BY <1>2, <1>4, <1>5 DEF f, g, h

\* The signed value of the low bits of y, and y without it; h is half the range.
LEMMA Rounding ==
  ASSUME NEW y \in Nat, NEW h \in Nat, h > 0, NEW f \in Nat, f = 2 * h
  PROVE  LET m == y % f
             raised == y + ((y \div h) % 2) * h
             digit == IF m < h THEN m ELSE m - f
         IN  /\ raised - (raised % f) = y - digit
             /\ \E k \in Nat : y - digit = k * f
<1> DEFINE m == y % f  z == y \div f  b == (y \div h) % 2
           raised == y + b * h  digit == IF m < h THEN m ELSE m - f
<1>1. f \in Nat /\ f > 0 /\ y \in Int
  OBVIOUS
<1>2. m \in 0..(f - 1) /\ z \in Int /\ y = f * z + m
  BY <1>1, Division
<1>3. z >= 0
  <2> HIDE DEF m, z
  <2> SUFFICES ASSUME z <= -1 PROVE FALSE
    BY <1>2
  <2>1. f * z <= f * (-1)
    BY <1>2
  <2> QED BY <1>1, <1>2, <2>1
<1>4. CASE m < h
  <2> DEFINE q == 2 * z
  <2> HIDE DEF m, z
  <2>1. q \in Int /\ m \in 0..(h - 1) /\ y = h * q + m
    BY <1>2, <1>4
  <2> HIDE DEF q
  <2>2. y \div h = q
    BY <2>1, <1>1, DivisionUnique
  <2>3. q % 2 = 0
    BY <1>2 DEF q
  <2>4. b = 0
    BY <2>2, <2>3
  <2> HIDE DEF b
  <2>5. raised = y
    BY <2>4
  <2>6. raised % f = m
    BY <2>5 DEF m
  <2>7. digit = m
    BY <1>4
  <2>8. raised - (raised % f) = y - digit
    BY <2>5, <2>6, <2>7
  <2>9. y - digit = z * f /\ z \in Nat
    <3>1. f * z = z * f
      BY <1>1, <1>2
    <3> QED BY <1>1, <1>2, <1>3, <2>7, <3>1
  <2> QED BY <2>8, <2>9 DEF b, m
<1>5. CASE ~(m < h)
  <2> DEFINE q == 2 * z + 1  e == m - h  t == z + 1
  <2> HIDE DEF m, z
  <2>1. q \in Int /\ e \in 0..(h - 1) /\ y = h * q + e
    BY <1>2, <1>5
  <2>2. q % 2 = 1
    BY <1>2
  <2>3. e \in 0..(f - 1) /\ y + h = f * (z + 1) + e /\ z + 1 \in Int
    BY <1>2, <1>5
  <2> HIDE DEF q, e
  <2>4. y \div h = q
    BY <2>1, <1>1, DivisionUnique
  <2>5. b = 1
    BY <2>2, <2>4
  <2> HIDE DEF b
  <2>6. raised = y + h
    BY <2>5
  <2>7. (y + h) % f = e
    <3> DEFINE s == y + h
    <3>1. s \in Int /\ s = f * t + e /\ t \in Int
      BY <2>3
    <3> HIDE DEF s, t
    <3>2. s % f = e
      BY <2>3, <3>1, <1>1, DivisionUnique
    <3> QED BY <3>2 DEF s
  <2>8. digit = m - f
    BY <1>5
  <2>9. raised - (raised % f) = y - digit
    BY <2>6, <2>7, <2>8, <1>2 DEF e
  <2>10. y - digit = (z + 1) * f /\ z + 1 \in Nat
    <3>1. f * z = z * f /\ (z + 1) * f = z * f + f
      BY <1>1, <1>2
    <3> QED BY <1>1, <1>2, <1>3, <2>8, <3>1
  <2> QED BY <2>9, <2>10 DEF b, m
<1> QED BY <1>4, <1>5

IsOdd(y) == y % 2 = 1

\* The signed value of the bits of y below f = 2 * h is odd, and not the least one.
OddBelow(y, h, f) ==
    LET m == y % f
        digit == IF m < h THEN m ELSE m - f
    IN  m % 2 = 1 /\ digit \in (1 - h)..(h - 1) /\ digit # 0 /\ digit % 2 = 1

LEMMA OddValue ==
  ASSUME NEW y \in Nat, NEW g \in Nat, g > 0, IsOdd(y),
         NEW h \in Nat, h = 2 * g, NEW f \in Nat, f = 2 * h
  PROVE  OddBelow(y, h, f)
<1> DEFINE m == y % f  z == y \div f
           digit == IF m < h THEN m ELSE m - f  t == g * z
<1>1. f \in Nat /\ f > 0 /\ y \in Int /\ f = 4 * g /\ h \in Nat /\ h > 0
  OBVIOUS
<1>2. m \in 0..(f - 1) /\ z \in Int /\ y = f * z + m
  BY <1>1, Division
<1> HIDE DEF m, z
<1>3. f * z = 4 * t /\ t \in Int
  BY <1>2
<1> HIDE DEF t
<1>4. m % 2 = 1
  BY <1>2, <1>3 DEF IsOdd
<1>5. digit \in (1 - h)..(h - 1) /\ digit # 0 /\ digit % 2 = 1
  BY <1>2, <1>4
<1> QED BY <1>4, <1>5 DEF m, OddBelow

SameBits(y, z, f) == y % f = WithLowBitSet(z % f)

\* The low bits of z, with the lowest one set, are those of z plus a carry that
\* makes it odd.
LEMMA OddBits ==
  ASSUME NEW y \in Nat, NEW z \in Nat, NEW d \in {0, 1}, NEW h \in Nat, h > 0,
         NEW f \in Nat, f = 2 * h, IsOdd(y), Congruent(y, z + d, f)
  PROVE  SameBits(y, z, f)
<1> DEFINE m == y % f  t == z % f  a == y \div f  b == z \div f
<1>1. f \in Nat /\ f > 0 /\ y \in Int /\ z \in Int
  OBVIOUS
<1>2. m \in 0..(f - 1) /\ a \in Int /\ y = f * a + m
  BY <1>1, Division
<1>3. t \in 0..(f - 1) /\ b \in Int /\ z = f * b + t
  BY <1>1, Division
<1> DEFINE k == h * a  l == h * b
<1>4. PICK n \in Int : y = (z + d) + n * f
  BY DEF Congruent
<1> HIDE DEF m, t, a, b
<1>5. f * a = 2 * k /\ k \in Int /\ f * b = 2 * l /\ l \in Int
  BY <1>2, <1>3
<1>6. m % 2 = 1
  <2> HIDE DEF k, l
  <2> QED BY <1>2, <1>5 DEF IsOdd
<1> DEFINE s == h * n
<1>7. n * f = 2 * s /\ s \in Int
  BY <1>4
<1>8. (t + d) % 2 = 1
  <2> HIDE DEF k, l, s
  <2>1. f * a + m = (f * b + t + d) + n * f
    BY <1>2, <1>3, <1>4
  <2>2. 2 * k + m = 2 * l + t + d + 2 * s
    BY <2>1, <1>5, <1>7
  <2>3. m \in Int /\ t \in Int
    BY <1>2, <1>3
  <2> QED BY <2>2, <2>3, <1>5, <1>6, <1>7
<1>9. t + d \in 0..(f - 1)
  BY <1>3, <1>8
<1>10. Congruent(m, t + d, f)
  <2> DEFINE j == b + n - a
  <2>1. m = (t + d) + (b * f + n * f - a * f)
    BY <1>2, <1>3, <1>4
  <2>2. b * f + n * f - a * f = j * f /\ j \in Int
    BY <1>2, <1>3, <1>4
  <2> HIDE DEF j
  <2> QED BY <2>1, <2>2 DEF Congruent
<1>11. m = t + d
  BY <1>1, <1>2, <1>9, <1>10, RemainderUnique
<1>12. t + d = t + 1 - (t % 2)
  BY <1>3, <1>8
<1> QED BY <1>11, <1>12 DEF m, t, WithLowBitSet, SameBits

-----------------------------------------------------------------------------
\* x is a multiplier of len bytes whose top bit is zero.
Multiplier(x, len, w) ==
    /\ len \in Nat \ {0} /\ w \in 2..ByteBits
    /\ PowersUpTo(ByteBits * len + ByteBits)
    /\ x \in Nat /\ 2 * x < 2^(ByteBits * len)

NafState == [acc : Nat, acc_len : Int, u : Nat, ones : SUBSET Nat]

\* what is still in the unread bytes
Unread(st, x) == (x \div 2^(ByteBits * st.u)) * 2^(ByteBits * st.u)

\* what the digits found below p stand for
SoFar(st, p, x) == x - st.acc * 2^p - Unread(st, x)

\* The state before turn p.
Turning(st, p, x, len) ==
    /\ st \in NafState /\ p \in 0..(ByteBits * len)
    /\ st.u \in 0..len /\ st.acc_len = ByteBits * st.u - p /\ st.acc_len >= 0
    /\ st.ones \subseteq 0..(p - 1)

\* t is the signed value of k bits, the least value excepted.
Within(t, k) == -(2^k) < 2 * t /\ 2 * t < 2^k

\* The digits found so far are the signed value of the low q bits of x: what is
\* between p and q belongs to the window of the last digit.
Settled(st, p, x, w, q) ==
    /\ q \in p..(p + w - 1)
    /\ Congruent(SoFar(st, p, x), x, 2^q)
    /\ Within(SoFar(st, p, x), q)

LEMMA Exponent ==
  ASSUME NEW x, NEW len, NEW w, Multiplier(x, len, w)
  PROVE  /\ ByteBits \in Nat /\ ByteBits >= 2 /\ len \in Nat /\ len > 0 /\ x \in Nat
         /\ w \in Nat /\ w >= 2 /\ w <= ByteBits
         /\ ByteBits * len \in Nat /\ ByteBits * len + ByteBits \in Nat
         /\ PowersUpTo(ByteBits * len + ByteBits)
         /\ \A n \in 0..len : ByteBits * n \in 0..(ByteBits * len)
         /\ \A k \in 0..(ByteBits * len + ByteBits) : 2^k \in Nat /\ 2^k > 0
<1>1. /\ ByteBits \in Nat /\ ByteBits >= 2 /\ len \in Nat /\ len > 0 /\ x \in Nat
      /\ w \in Nat /\ w >= 2 /\ w <= ByteBits /\ PowersUpTo(ByteBits * len + ByteBits)
  BY ByteAssumption DEF Multiplier
<1>2. ByteBits * len \in Nat
  BY <1>1
<1>3. \A n \in 0..len : ByteBits * n \in 0..(ByteBits * len)
  BY <1>1
<1>4. ByteBits * len + ByteBits \in Nat
  BY <1>1, <1>2
<1>5. \A k \in 0..(ByteBits * len + ByteBits) : 2^k \in Nat /\ 2^k > 0
  BY <1>1, <1>4, Power
<1> QED BY <1>1, <1>2, <1>3, <1>4, <1>5

\* What is unread is a multiple of its weight, and nothing after the last byte.
LEMMA UnreadIs ==
  ASSUME NEW x, NEW len, NEW w, Multiplier(x, len, w), NEW st \in NafState, st.u \in 0..len
  PROVE  /\ Unread(st, x) \in Nat
         /\ \E k \in Nat : Unread(st, x) = k * 2^(ByteBits * st.u)
         /\ st.u = len => Unread(st, x) = 0
<1> DEFINE f == 2^(ByteBits * st.u)  k == x \div f
<1>1. f \in Nat /\ f > 0 /\ x \in Int /\ x \in Nat
  BY Exponent
<1>2. k \in Int /\ x % f \in 0..(f - 1) /\ x = f * k + (x % f)
  BY <1>1, Division
<1> DEFINE e == x % f
<1>3. Unread(st, x) = k * f
  BY DEF Unread
<1>4. st.u = len => 2 * x < f
  BY DEF Multiplier
<1> HIDE DEF f, k, e
<1>5. k >= 0
  <2> SUFFICES ASSUME k <= -1 PROVE FALSE
    BY <1>2
  <2>1. f * k <= f * (-1)
    BY <1>1, <1>2
  <2> QED BY <1>1, <1>2, <2>1 DEF e
<1>6. k * f \in Nat
  BY <1>1, <1>2, <1>5
<1>7. ASSUME st.u = len PROVE k * f = 0
  <2>1. k = 0
    <3> SUFFICES ASSUME k >= 1 PROVE FALSE
      BY <1>2, <1>5
    <3>1. f * k >= f * 1
      BY <1>1, <1>2
    <3> QED BY <1>1, <1>2, <1>4, <1>7, <3>1 DEF e
  <2> QED BY <1>1, <2>1
<1>8. k \in Nat
  BY <1>2, <1>5
<1>9. st.u = len => Unread(st, x) = 0
  BY <1>3, <1>7
<1> QED BY <1>3, <1>6, <1>8, <1>9 DEF f

\* Loading a byte moves it from the unread ones to the accumulator.
LEMMA LoadedOK ==
  ASSUME NEW x, NEW len, NEW w, Multiplier(x, len, w),
         NEW st, NEW p, Turning(st, p, x, len), p < ByteBits * len
  PROVE  LET loaded == Loaded(st, x, len, w)
         IN  /\ Turning(loaded, p, x, len) /\ loaded.ones = st.ones
             /\ SoFar(loaded, p, x) = SoFar(st, p, x)
             /\ loaded.acc_len >= 1
             /\ loaded.acc_len >= w \/ loaded.u = len
<1> DEFINE loaded == Loaded(st, x, len, w)
<1>0. /\ ByteBits \in Nat /\ ByteBits >= 2 /\ len \in Nat /\ len > 0 /\ x \in Nat /\ x \in Int
      /\ w \in Nat /\ w >= 2 /\ w <= ByteBits
      /\ ByteBits * len \in Nat /\ ByteBits * len + ByteBits \in Nat
      /\ PowersUpTo(ByteBits * len + ByteBits)
  BY Exponent
<1>1. /\ st \in NafState /\ p \in 0..(ByteBits * len) /\ p \in Nat
      /\ st.acc \in Nat /\ st.acc_len \in Int /\ st.u \in Nat
      /\ st.u \in 0..len /\ st.acc_len = ByteBits * st.u - p /\ st.acc_len >= 0
      /\ st.ones \subseteq 0..(p - 1)
  BY <1>0 DEF Turning, NafState
<1>2. CASE st.acc_len < w /\ st.u < len
  <2> DEFINE a == ByteBits * st.u  b == ByteBits  n == st.acc_len
  <2>1. loaded = [st EXCEPT !.acc = @ + Byte(x, st.u) * 2^n, !.acc_len = @ + b, !.u = @ + 1]
    BY <1>2 DEF Loaded
  <2>2. /\ st.u + 1 \in 0..len /\ st.u + 1 \in Nat /\ a \in Nat /\ b \in Nat /\ n \in Nat
        /\ ByteBits * (st.u + 1) = a + b
    BY <1>0, <1>1, <1>2
  <2>3. a + b <= ByteBits * len /\ a + b \in 0..(ByteBits * len) /\ a \in 0..(ByteBits * len)
    <3>1. ByteBits * (st.u + 1) \in 0..(ByteBits * len)
      BY <2>2, Exponent
    <3>2. ByteBits * st.u \in 0..(ByteBits * len)
      BY <1>1, Exponent
    <3> HIDE DEF b
    <3>3. a + b \in 0..(ByteBits * len) /\ a \in 0..(ByteBits * len)
      BY <2>2, <3>1, <3>2
    <3> QED BY <1>0, <3>3
  <2> DEFINE M == ByteBits * len + ByteBits
  <2>4. M \in Nat /\ PowersUpTo(M) /\ a + b <= M /\ p + n = a /\ p + n <= M
    BY <1>0, <1>1, <2>2, <2>3
  <2> DEFINE fa == 2^a  fb == 2^b  fp == 2^p  fn == 2^n  y == x \div fa  e == y % fb
  <2> HIDE DEF M
  <2>5. 2^(a + b) = 2^a * 2^b /\ 2^(p + n) = 2^p * 2^n
    BY <1>1, <2>2, <2>4, PowerSum
  <2>6. /\ a \in 0..M /\ b \in 0..M /\ p \in 0..M /\ n \in 0..M
    BY <1>0, <1>1, <2>2, <2>4
  <2>7. /\ fa \in Nat /\ fa > 0 /\ fb \in Nat /\ fb > 0
        /\ fp \in Nat /\ fp > 0 /\ fn \in Nat /\ fn > 0
        /\ fa = fp * fn
    BY <2>4, <2>5, <2>6, Power
  <2>8. Byte(x, st.u) = e
    BY DEF Byte
  <2>9. y \in Int /\ e \in 0..(fb - 1) /\ e \in Nat /\ y = fb * (y \div fb) + e
    <3>1. y \in Int
      BY <1>0, <2>7, Division
    <3> HIDE DEF y
    <3> QED BY <2>7, <3>1, Division
  <2>10. x \div 2^(a + b) = y \div fb
    <3> DEFINE rem == x % fa  g == y \div fb  t == fa * fb  s == e * fa + rem
    <3>1. x = fa * y + rem /\ rem \in 0..(fa - 1)
      BY <1>0, <2>7, Division
    <3>2. g \in Int
      BY <2>7, <2>9, Division
    <3>3. t \in Nat /\ t > 0
      BY <2>7
    <3> HIDE DEF y, e, g, rem, t
    <3> HIDE DEF fa, fb, fp, fn
    <3>4. e * fa <= (fb - 1) * fa /\ e * fa >= 0 /\ (fb - 1) * fa = t - fa /\ e * fa \in Int
      BY <2>7, <2>9 DEF t
    <3>5. s \in 0..(t - 1)
      <4> DEFINE d == e * fa
      <4>1. d <= t - fa /\ d >= 0 /\ d \in Int
        BY <3>4
      <4>2. s = d + rem
        OBVIOUS
      <4> HIDE DEF d, s
      <4> QED BY <2>7, <3>1, <3>3, <4>1, <4>2
    <3>6. x = t * g + s
      <4>1. fa * y = fa * (fb * g) + fa * e
        BY <2>7, <2>9, <3>2 DEF g
      <4>2. fa * (fb * g) = t * g /\ fa * e = e * fa
        BY <2>7, <2>9, <3>2 DEF t
      <4> QED BY <3>1, <4>1, <4>2, <3>4, <3>2, <3>3
    <3> HIDE DEF s
    <3>7. x \div t = g
      BY <1>0, <3>2, <3>3, <3>5, <3>6, DivisionUnique
    <3>8. 2^(a + b) = t
      BY <2>5 DEF t, fa, fb
    <3> QED BY <3>7, <3>8 DEF g
  <2>11. /\ loaded \in NafState /\ loaded.acc = st.acc + e * fn /\ loaded.acc_len = n + b
         /\ loaded.u = st.u + 1 /\ loaded.ones = st.ones
    <3>1. e * fn \in Nat
      <4> HIDE DEF e, fn
      <4> QED BY <2>7, <2>9
    <3> DEFINE d == e * fn
    <3>2. st.acc + d \in Nat /\ n + b \in Int
      BY <1>1, <2>2, <3>1
    <3>3. loaded = [st EXCEPT !.acc = @ + d, !.acc_len = @ + b, !.u = @ + 1]
      BY <2>1, <2>8
    <3> HIDE DEF d, loaded, b
    <3>4. /\ loaded \in NafState /\ loaded.acc = st.acc + d /\ loaded.acc_len = n + b
          /\ loaded.u = st.u + 1 /\ loaded.ones = st.ones
      BY <1>1, <2>2, <3>2, <3>3 DEF NafState
    <3> QED BY <3>4 DEF d
  <2>12. Turning(loaded, p, x, len)
    <3> HIDE DEF loaded, e, fn
    <3>1. loaded.acc_len = ByteBits * loaded.u - p /\ loaded.acc_len >= 0
      BY <1>0, <1>1, <2>2, <2>11
    <3> QED BY <1>1, <2>2, <2>11, <3>1 DEF Turning
  <2>13. SoFar(loaded, p, x) = SoFar(st, p, x)
    <3> DEFINE g == y \div fb  A == st.acc
    <3>1. Unread(st, x) = y * fa
      BY DEF Unread
    <3>2. Unread(loaded, x) = g * (fa * fb)
      <4>1. Unread(loaded, x) = (x \div 2^(a + b)) * 2^(a + b)
        <5>1. ByteBits * loaded.u = a + b
          BY <2>2, <2>11
        <5> QED BY <5>1 DEF Unread
      <4> QED BY <2>5, <2>10, <4>1
    <3>3. /\ SoFar(loaded, p, x) = x - (A + e * fn) * fp - g * (fa * fb)
          /\ SoFar(st, p, x) = x - A * fp - y * fa
      BY <2>11, <3>1, <3>2 DEF SoFar
    <3>4. g \in Int
      BY <2>7, <2>9, Division
    <3>5. A \in Nat /\ y = fb * g + e
      BY <1>1, <2>9
    <3> HIDE DEF y, e, g, A, fa, fb, fn, fp
    <3>6. (A + e * fn) * fp = A * fp + (e * fn) * fp
      BY <3>5, <2>7, <2>9
    <3>7. (e * fn) * fp = e * fa
      BY <2>7, <2>9
    <3>8. y * fa = (fb * g) * fa + e * fa
      BY <2>7, <2>9, <3>4, <3>5
    <3>9. (fb * g) * fa = g * (fa * fb)
      BY <2>7, <3>4
    <3> QED BY <1>0, <2>7, <2>9, <3>3, <3>4, <3>5, <3>6, <3>7, <3>8, <3>9
  <2>14. loaded.acc_len >= 1 /\ loaded.acc_len >= w
    BY <1>0, <2>2, <2>11
  <2> QED BY <2>11, <2>12, <2>13, <2>14
<1>3. CASE ~(st.acc_len < w /\ st.u < len)
  <2>1. loaded = st
    BY <1>3 DEF Loaded
  <2>2. st.acc_len >= w \/ st.u = len
    BY <1>0, <1>1, <1>3
  <2>3. st.acc_len >= 1
    <3>1. CASE st.u = len
      BY <1>0, <1>1, <3>1
    <3>2. CASE st.acc_len >= w
      BY <1>0, <1>1, <3>2
    <3> QED BY <2>2, <3>1, <3>2
  <2> QED BY <2>1, <2>2, <2>3
<1> QED BY <1>2, <1>3

\* Unread bytes do not reach below the loaded ones.
LEMMA UnreadAbove ==
  ASSUME NEW x, NEW len, NEW w, Multiplier(x, len, w), NEW st \in NafState, st.u \in 0..len,
         NEW s \in Nat, s <= ByteBits * st.u \/ st.u = len
  PROVE  \E k \in Int : Unread(st, x) = k * 2^s
<1>1. CASE s <= ByteBits * st.u
  <2> DEFINE M == ByteBits * len + ByteBits  a == ByteBits * st.u
  <2>1. M \in Nat /\ PowersUpTo(M) /\ a \in Nat /\ a <= M
    <3>1. a \in 0..(ByteBits * len) /\ ByteBits \in Nat /\ ByteBits * len \in Nat
      BY Exponent
    <3> HIDE DEF a
    <3> QED BY <3>1, Exponent
  <2> DEFINE fa == 2^a  fs == 2^s  fd == 2^(a - s)
  <2> HIDE DEF M
  <2>2. fd \in Nat /\ fa = fs * fd
    BY <1>1, <2>1, PowerGrows
  <2>3. PICK k \in Nat : Unread(st, x) = k * fa
    BY UnreadIs
  <2>4. fs \in Nat
    <3>1. s \in 0..M
      BY <1>1, <2>1
    <3> QED BY <2>1, <3>1, Power
  <2> HIDE DEF fa, fs, fd
  <2>5. k * fa = (k * fd) * fs /\ k * fd \in Int
    BY <2>2, <2>3, <2>4
  <2> QED BY <2>3, <2>5 DEF fs
<1>2. CASE st.u = len
  <2>1. Unread(st, x) = 0
    BY <1>2, UnreadIs
  <2> DEFINE fs == 2^s
  <2>2. \E k \in Int : Unread(st, x) = k * 2^s
    <3>1. 0 * fs = 0
      <4>1. fs \in Int
        OBVIOUS
      <4> HIDE DEF fs
      <4> QED BY <4>1
    <3> QED BY <2>1, <3>1
  <2> QED BY <2>2
<1> QED BY <1>1, <1>2

\* While a window is still open the accumulator is even.
LEMMA OpenWindowEven ==
  ASSUME NEW x, NEW len, NEW w, Multiplier(x, len, w),
         NEW st, NEW p, Turning(st, p, x, len), st.acc_len >= 1,
         NEW q \in Nat, q > p, q <= ByteBits * len + ByteBits,
         Congruent(SoFar(st, p, x), x, 2^q)
  PROVE  st.acc % 2 = 0
<1> DEFINE M == ByteBits * len + ByteBits  fp == 2^p  y == st.acc  U == Unread(st, x)
<1>1. /\ st \in NafState /\ st.u \in 0..len /\ p \in Nat /\ y \in Nat /\ x \in Nat
      /\ M \in Nat /\ PowersUpTo(M) /\ p \in 0..M /\ p + 1 <= q /\ q <= M /\ p + 1 \in Nat
      /\ st.acc_len = ByteBits * st.u - p /\ ByteBits \in Nat /\ ByteBits * st.u \in Nat
  BY Exponent DEF Turning, NafState
<1>2. p + 1 <= ByteBits * st.u
  BY <1>1
<1> HIDE DEF M
<1> DEFINE fn == 2^(p + 1)  fq == 2^q  fd == 2^(q - (p + 1))
<1>3. fn = 2 * fp /\ fp \in Nat /\ fp > 0
  BY <1>1, PowerNext
<1>4. fd \in Nat /\ fq = fn * fd
  BY <1>1, PowerGrows
<1>5. PICK k \in Int : U = k * fn
  BY <1>1, <1>2, UnreadAbove
<1>6. PICK l \in Int : SoFar(st, p, x) = x + l * fq
  BY DEF Congruent
<1>7. SoFar(st, p, x) = x - y * fp - U
  BY DEF SoFar
<1> HIDE DEF fn, fq, fd, fp, U, y
<1>8. y * fp = (-1) * (l * fq) - k * fn
  BY <1>1, <1>3, <1>4, <1>5, <1>6, <1>7
<1> DEFINE n == (-1) * (l * fd) - k
<1>9. (-1) * (l * fq) - k * fn = n * fn /\ n \in Int
  BY <1>3, <1>4, <1>5, <1>6
<1> HIDE DEF n
<1>10. y * fp = (2 * n) * fp
  BY <1>3, <1>8, <1>9
<1>11. y = 2 * n
  BY <1>1, <1>3, <1>9, <1>10
<1> QED BY <1>9, <1>11 DEF y

\* What turn p does: what its digit adds, and where the next window begins.
TurnResult(x, len, w, st, p, q) ==
    LET after == NafTurn(st, x, len, w, p)
        e == EmittedDigit(st, x, len, w)
    IN  /\ Turning(after, p + 1, x, len)
        /\ e \in Int /\ SoFar(after, p + 1, x) = SoFar(st, p, x) + e * 2^p
        /\ after.ones = IF e = 0 THEN st.ones ELSE st.ones \cup {p}
        /\ e = 0 => \E n \in q..(p + w) : /\ n >= p + 1
                                          /\ Congruent(SoFar(after, p + 1, x), x, 2^n)
        /\ e # 0 => /\ q = p /\ e = Signed(OddDigit(x, p, w), w)
                    /\ e % 2 = 1 /\ e \in (1 - 2^(w - 1))..(2^(w - 1) - 1)
                    /\ Congruent(SoFar(after, p + 1, x), x, 2^(p + w))

LEMMA TurnOK ==
  ASSUME NEW x, NEW len, NEW w, Multiplier(x, len, w),
         NEW st, NEW p, Turning(st, p, x, len), p < ByteBits * len,
         NEW q, Settled(st, p, x, w, q)
  PROVE  TurnResult(x, len, w, st, p, q)
<1> DEFINE loaded == Loaded(st, x, len, w)  y == loaded.acc  e == EmittedDigit(st, x, len, w)
           emitted == Emitted(loaded, p, w)  after == NafTurn(st, x, len, w, p)
           M == ByteBits * len + ByteBits  S == SoFar(st, p, x)  S1 == SoFar(after, p + 1, x)
           U == Unread(loaded, x)
<1>1. /\ Turning(loaded, p, x, len) /\ loaded.ones = st.ones
      /\ SoFar(loaded, p, x) = S /\ loaded.acc_len >= 1
      /\ loaded.acc_len >= w \/ loaded.u = len
  BY LoadedOK
<1>2. /\ loaded \in NafState /\ loaded.u \in 0..len /\ p \in Nat /\ y \in Nat /\ x \in Nat
      /\ M \in Nat /\ PowersUpTo(M) /\ p \in 0..M /\ p + 1 \in Nat /\ p + 1 <= ByteBits * len
      /\ loaded.acc_len = ByteBits * loaded.u - p /\ loaded.acc_len \in Int
      /\ ByteBits * loaded.u \in Nat /\ p + w \in Nat /\ p + w <= M
      /\ w \in Nat /\ w >= 2 /\ w <= ByteBits /\ ByteBits \in Nat /\ st.ones \subseteq 0..(p - 1)
      /\ ByteBits * len \in Nat /\ p + 1 <= ByteBits * loaded.u
      /\ p + w <= ByteBits * loaded.u \/ loaded.u = len
  <2> HIDE DEF loaded
  <2>1. /\ loaded \in NafState /\ loaded.u \in 0..len /\ p \in 0..(ByteBits * len)
        /\ loaded.acc_len = ByteBits * loaded.u - p /\ loaded.ones \subseteq 0..(p - 1)
    BY <1>1 DEF Turning
  <2>2. y \in Nat /\ loaded.acc_len \in Int /\ loaded.u \in Nat
    BY <2>1 DEF NafState
  <2>3. /\ x \in Nat /\ M \in Nat /\ PowersUpTo(M) /\ ByteBits * len \in Nat /\ ByteBits \in Nat
        /\ w \in Nat /\ w >= 2 /\ w <= ByteBits
    BY Exponent
  <2>4. ByteBits * loaded.u \in Nat
    BY <2>2, <2>3
  <2> QED BY <1>1, <2>1, <2>2, <2>3, <2>4
<1>3. /\ q \in Nat /\ p <= q /\ q <= p + w - 1 /\ Congruent(S, x, 2^q)
  <2>1. q \in p..(p + w - 1) /\ Congruent(S, x, 2^q)
    BY DEF Settled
  <2> QED BY <1>2, <2>1
<1> DEFINE g == 2^(w - 2)  h == 2^(w - 1)  f == 2^w
<1>4. g \in Nat /\ g > 0 /\ h = 2 * g /\ f = 2 * h /\ h \in Nat /\ h > 0
  <2>1. w - 2 \in Nat /\ w - 2 + 1 = w - 1 /\ w - 1 \in Nat /\ w - 1 + 1 = w /\ w <= M
    BY <1>2
  <2>2. 2^(w - 2 + 1) = 2 * 2^(w - 2) /\ 2^(w - 2) \in Nat /\ 2^(w - 2) > 0
    BY <1>2, <2>1, PowerNext
  <2>3. 2^(w - 1 + 1) = 2 * 2^(w - 1) /\ 2^(w - 1) \in Nat /\ 2^(w - 1) > 0
    BY <1>2, <2>1, PowerNext
  <2> QED BY <2>1, <2>2, <2>3
<1>5. S = x - y * 2^p - U
  BY <1>1 DEF SoFar
<1> DEFINE fp == 2^p  fn == 2^(p + 1)
<1>6. fn = 2 * fp /\ fp \in Nat /\ fp > 0
  BY <1>2, PowerNext
<1>7. S \in Int /\ U \in Nat /\ y * fp \in Nat
  <2>1. U \in Nat
    BY <1>2, UnreadIs
  <2> HIDE DEF S, U, y, fp
  <2>2. y * fp \in Nat
    BY <1>2, <1>6
  <2> QED BY <1>2, <1>5, <2>1, <2>2 DEF fp
\* Whatever the digit, the accumulator loses it and is halved.
<1>8. ASSUME e \in Int, after.acc \in Nat, 2 * after.acc = y - e,
             after.acc_len = loaded.acc_len - 1, after.u = loaded.u, after \in NafState,
             after.ones = IF e = 0 THEN st.ones ELSE st.ones \cup {p}
      PROVE  /\ Turning(after, p + 1, x, len)
             /\ S1 = S + e * fp
             /\ S1 = x - (y - e) * fp - U
  <2> HIDE DEF after, e
  <2>1. after.ones \subseteq 0..((p + 1) - 1)
    BY <1>2, <1>8
  <2>2. Turning(after, p + 1, x, len)
    <3>1. after.u \in 0..len /\ after.acc_len = ByteBits * after.u - (p + 1) /\ after.acc_len >= 0
      BY <1>1, <1>2, <1>8
    <3>2. p + 1 \in 0..(ByteBits * len)
      BY <1>2
    <3> QED BY <1>8, <2>1, <3>1, <3>2 DEF Turning
  <2>3. Unread(after, x) = U
    BY <1>8 DEF Unread
  <2>4. S1 = x - after.acc * fn - U
    BY <2>3 DEF SoFar
  <2> DEFINE z == after.acc
  <2> HIDE DEF y, U, S, S1, fn, fp
  <2>5. z * fn = (2 * z) * fp /\ 2 * z = y - e /\ z \in Nat
    BY <1>6, <1>8
  <2> HIDE DEF z
  <2>6. (2 * z) * fp = (y - e) * fp /\ (y - e) * fp = y * fp - e * fp
    BY <1>2, <1>6, <1>8, <2>5
  <2>7. S1 = x - (y - e) * fp - U /\ S = x - y * fp - U
    BY <1>5, <2>4, <2>5, <2>6 DEF z, fp
  <2>8. e * fp \in Int
    BY <1>6, <1>8
  <2>9. S1 = S + e * fp
    BY <1>2, <1>7, <2>6, <2>7, <2>8
  <2> QED BY <2>2, <2>7, <2>9
<1>9. CASE y % 2 = 1
  <2> DEFINE m == y % f  digit == IF m < h THEN m ELSE m - f
             raised == y + ((y \div h) % 2) * h
  <2>1. e = digit
    BY <1>9 DEF EmittedDigit, Signed
  <2>2. emitted = [loaded EXCEPT !.acc = raised - (raised % f), !.ones = @ \cup {p}]
    BY <1>9 DEF Emitted
  <2>3. m % 2 = 1 /\ digit \in (1 - h)..(h - 1) /\ digit # 0 /\ digit % 2 = 1
    <3> HIDE DEF y, h, g, f
    <3>1. /\ y \in Nat /\ g \in Nat /\ g > 0 /\ IsOdd(y)
          /\ h \in Nat /\ h = 2 * g /\ f \in Nat /\ f = 2 * h
      BY <1>2, <1>4, <1>9 DEF IsOdd
    <3>2. OddBelow(y, h, f)
      BY <3>1, OddValue
    <3> QED BY <3>2 DEF OddBelow
  <2>4. raised - (raised % f) = y - digit /\ \E k \in Nat : y - digit = k * f
    <3> HIDE DEF y, h, f
    <3>1. y \in Nat /\ h \in Nat /\ h > 0 /\ f \in Nat /\ f = 2 * h
      BY <1>2, <1>4
    <3> QED BY <3>1, Rounding, Zenon
  <2>5. PICK k \in Nat : y - e = k * f
    BY <2>1, <2>4
  <2>6. emitted.acc = y - e /\ e \in Int /\ e # 0 /\ e \in (1 - h)..(h - 1) /\ e % 2 = 1
    <3>1. emitted.acc = raised - (raised % f)
      <4> HIDE DEF loaded
      <4> QED BY <1>2, <2>2 DEF NafState
    <3>2. e \in (1 - h)..(h - 1) /\ e # 0 /\ e % 2 = 1
      BY <2>1, <2>3
    <3> HIDE DEF e, h
    <3>3. e \in Int
      BY <1>4, <3>2
    <3> QED BY <2>1, <2>4, <3>1, <3>2, <3>3
  <2>7. (y - e) \div 2 = k * h /\ k * h \in Nat /\ 2 * (k * h) = y - e
    <3> DEFINE t == k * h
    <3>1. k * f = 2 * t /\ t \in Nat
      <4> HIDE DEF h, f
      <4> QED BY <1>4, <2>5
    <3> HIDE DEF t, h, f, y, e
    <3>2. y - e = 2 * t /\ (y - e) \div 2 = t
      BY <2>5, <3>1
    <3> QED BY <3>1, <3>2 DEF t
  <2>8. /\ after = [emitted EXCEPT !.acc = @ \div 2, !.acc_len = @ - 1]
        /\ emitted.acc_len = loaded.acc_len /\ emitted.u = loaded.u
        /\ emitted.ones = st.ones \cup {p} /\ DOMAIN emitted = {"acc", "acc_len", "u", "ones"}
    <3>1. after = [emitted EXCEPT !.acc = @ \div 2, !.acc_len = @ - 1]
      BY DEF NafTurn
    <3> HIDE DEF loaded, emitted, after, y, f
    <3>2. /\ emitted.acc_len = loaded.acc_len /\ emitted.u = loaded.u
          /\ emitted.ones = st.ones \cup {p} /\ DOMAIN emitted = {"acc", "acc_len", "u", "ones"}
      BY <1>1, <1>2, <2>2 DEF NafState
    <3> QED BY <3>1, <3>2
  <2>9. /\ after.acc = k * h /\ after.acc_len = loaded.acc_len - 1 /\ after.u = loaded.u
        /\ after.ones = st.ones \cup {p} /\ after \in NafState
    <3> DEFINE t == k * h
    <3>1. after = [emitted EXCEPT !.acc = t, !.acc_len = loaded.acc_len - 1]
      BY <2>6, <2>7, <2>8
    <3>2. t \in Nat /\ loaded.acc_len - 1 \in Int /\ loaded.u \in Nat /\ st.ones \cup {p} \in SUBSET Nat
      <4> HIDE DEF loaded
      <4>1. loaded.u \in Nat
        BY <1>2 DEF NafState
      <4> QED BY <1>2, <2>7, <4>1
    <3>3. emitted \in NafState
      <4>1. y - e \in Nat
        BY <2>7
      <4>2. emitted = [loaded EXCEPT !.acc = y - e, !.ones = st.ones \cup {p}]
        BY <1>1, <2>1, <2>2, <2>4
      <4> DEFINE s == y - e  s3 == st.ones \cup {p}
      <4> HIDE DEF loaded, emitted, s, s3
      <4>3. emitted = [loaded EXCEPT !.acc = s, !.ones = s3] /\ s \in Nat /\ s3 \in SUBSET Nat
        BY <3>2, <4>1, <4>2 DEF s, s3
      <4> QED BY <1>2, <4>3 DEF NafState
    <3> HIDE DEF t, loaded, emitted, after
    <3>4. /\ after.acc = t /\ after.acc_len = loaded.acc_len - 1 /\ after.u = emitted.u
          /\ after.ones = emitted.ones /\ after \in NafState
      BY <3>1, <3>2, <3>3 DEF NafState
    <3>5. after.u = loaded.u /\ after.ones = st.ones \cup {p}
      BY <2>8, <3>4
    <3> QED BY <3>4, <3>5 DEF t
  <2> HIDE DEF loaded, emitted, after, y, e, f, h, g, raised, digit, m
  <2>10. /\ Turning(after, p + 1, x, len) /\ S1 = S + e * fp /\ S1 = x - (y - e) * fp - U
    <3>1. /\ after.acc \in Nat /\ 2 * after.acc = y - e
          /\ after.ones = IF e = 0 THEN st.ones ELSE st.ones \cup {p}
      BY <2>6, <2>7, <2>9
    <3> QED BY <1>8, <2>6, <2>9, <3>1
  <2>11. q = p
    <3> SUFFICES ASSUME q # p PROVE FALSE
      OBVIOUS
    <3>1. q > p /\ q <= M
      BY <1>2, <1>3
    <3>2. Congruent(SoFar(loaded, p, x), x, 2^q)
      BY <1>1, <1>3
    <3>3. loaded.acc % 2 = 0
      BY <1>1, <1>3, <3>1, <3>2, OpenWindowEven
    <3> QED BY <1>9, <3>3 DEF y
  <2> DEFINE fw == 2^(p + w)  fq == 2^q
  <2>12. fw = fp * f /\ fw \in Nat /\ f \in Nat /\ f > 0
    <3>1. 2^(p + w) = 2^p * 2^w
      BY <1>2, PowerSum
    <3>2. f \in Nat /\ f > 0
      BY <1>4
    <3>3. fw = fp * f
      BY <3>1 DEF f
    <3> HIDE DEF fw, fp
    <3>4. fp * f \in Nat
      BY <1>6, <3>2
    <3> QED BY <3>2, <3>3, <3>4
  <2>13. PICK n \in Int : U = n * fw
    BY <1>2, UnreadAbove DEF U
  <2>14. Congruent(S1, x, fw)
    <3> HIDE DEF fw, fp
    <3>1. (y - e) * fp = k * fw
      <4>1. (k * f) * fp = k * (fp * f)
        BY <1>6, <2>5, <2>12
      <4> QED BY <2>5, <2>12, <4>1
    <3>2. S1 = x - k * fw - n * fw
      BY <2>10, <2>13, <3>1
    <3> DEFINE l == (-1) * k - n
    <3>3. S1 = x + l * fw /\ l \in Int
      BY <1>2, <2>5, <2>12, <2>13, <3>2
    <3> HIDE DEF l
    <3> QED BY <3>3 DEF Congruent
  \* S is the low part of x, or that minus its weight: the carry.
  <2> DEFINE z == x \div fp  t == x % fp
  <2>15. z \in Nat /\ t \in 0..(fp - 1) /\ x = fp * z + t
    <3> HIDE DEF fp
    <3>0. x \in Int /\ fp \in Nat /\ fp > 0
      BY <1>2, <1>6
    <3>1. z \in Int /\ t \in 0..(fp - 1) /\ x = fp * z + t
      BY <3>0, Division
    <3> HIDE DEF z, t
    <3>2. z >= 0
      <4> SUFFICES ASSUME z <= -1 PROVE FALSE
        BY <3>1
      <4>1. fp * z <= fp * (-1)
        BY <1>6, <3>1
      <4> QED BY <1>2, <1>6, <3>1, <4>1
    <3> QED BY <3>1, <3>2
  <2>16. PICK d \in {0, 1} : S = t - d * fp
    <3>1. -fp < 2 * S /\ 2 * S < fp /\ Congruent(S, x, fp)
      BY <1>3, <2>11 DEF Settled, Within, S
    <3>2. PICK l \in Int : S = x + l * fp
      BY <3>1 DEF Congruent
    <3> DEFINE d == (-1) * (z + l)
    <3> HIDE DEF z, t, fp
    <3>3. S = t - d * fp /\ d \in Int
      <4>1. fp * z + l * fp = (-1) * (d * fp)
        BY <1>6, <2>15, <3>2
      <4> QED BY <1>6, <2>15, <3>2, <4>1
    <3> HIDE DEF d
    <3>4. d <= 1
      <4> SUFFICES ASSUME d >= 2 PROVE FALSE
        BY <3>3
      <4>1. d * fp >= 2 * fp
        BY <1>6, <3>3
      <4> QED BY <1>6, <1>7, <2>15, <3>1, <3>3, <4>1
    <3>5. d >= 0
      <4> SUFFICES ASSUME d <= -1 PROVE FALSE
        BY <3>3
      <4>1. d * fp <= (-1) * fp
        BY <1>6, <3>3
      <4> QED BY <1>6, <1>7, <2>15, <3>1, <3>3, <4>1
    <3>6. d \in {0, 1}
      BY <3>3, <3>4, <3>5
    <3> QED BY <3>3, <3>6
  <2>17. Congruent(y, z + d, f)
    <3> HIDE DEF z, t, fp, fw
    <3> DEFINE l == (-1) * (n * f)
    <3>1. y * fp = x - S - n * fw
      BY <1>2, <1>5, <1>7, <2>13 DEF fp
    <3>2. n * fw = (n * f) * fp
      BY <1>6, <2>12, <2>13
    <3>3. y * fp = (z + d + l) * fp
      <4> DEFINE j == n * f
      <4>1. j \in Int /\ d \in Int /\ l = (-1) * j
        BY <2>12, <2>13, <2>16
      <4>2. n * fw = j * fp
        BY <3>2
      <4> HIDE DEF j, l
      <4>3. (z + d + l) * fp = fp * z + d * fp - j * fp
        BY <1>6, <2>15, <4>1
      <4>4. fp * z \in Int /\ d * fp \in Int /\ j * fp \in Int
        BY <1>6, <2>15, <4>1
      <4> QED BY <1>2, <1>6, <1>7, <2>15, <2>16, <3>1, <4>2, <4>3, <4>4
    <3>4. l = ((-1) * n) * f /\ l \in Int /\ (-1) * n \in Int
      BY <2>12, <2>13
    <3> DEFINE s == z + d + l
    <3>5. s \in Int /\ y * fp = s * fp
      BY <2>15, <2>16, <3>3, <3>4
    <3> HIDE DEF s, l
    <3>6. y = s
      BY <1>2, <1>6, <3>5
    <3>7. y = (z + d) + ((-1) * n) * f
      BY <2>15, <2>16, <3>4, <3>6 DEF s
    <3> QED BY <3>4, <3>7 DEF Congruent
  <2>18. y % f = OddDigit(x, p, w)
    <3>1. y % f = WithLowBitSet(z % f)
      <4> HIDE DEF z
      <4>1. /\ y \in Nat /\ z \in Nat /\ d \in {0, 1} /\ h \in Nat /\ h > 0
            /\ f \in Nat /\ f = 2 * h /\ IsOdd(y) /\ Congruent(y, z + d, f)
        BY <1>2, <1>4, <1>9, <2>12, <2>15, <2>16, <2>17 DEF IsOdd
      <4>2. SameBits(y, z, f)
        BY <4>1, OddBits
      <4> QED BY <4>2 DEF SameBits
    <3> QED BY <3>1 DEF OddDigit, z, fp, f
  <2>19. e = Signed(OddDigit(x, p, w), w)
    BY <2>1, <2>18 DEF Signed, digit, m, f, h
  <2>20. Congruent(SoFar(after, p + 1, x), x, 2^(p + w))
    BY <2>14 DEF S1, fw
  <2>21. after.ones = IF e = 0 THEN st.ones ELSE st.ones \cup {p}
    BY <2>6, <2>9
  <2>22. e \in (1 - 2^(w - 1))..(2^(w - 1) - 1)
    BY <2>6 DEF h
  <2> QED BY <2>6, <2>10, <2>11, <2>19, <2>20, <2>21, <2>22 DEF TurnResult, S, S1, after, e, fp
<1>10. CASE ~(y % 2 = 1)
  <2> DEFINE t == y \div 2
  <2>1. t \in Nat /\ y = 2 * t
    <3> HIDE DEF y
    <3> QED BY <1>2, <1>10
  <2>2. e = 0
    BY <1>10 DEF EmittedDigit
  <2>3. after = [loaded EXCEPT !.acc = t, !.acc_len = loaded.acc_len - 1]
    BY <1>10 DEF NafTurn, Emitted
  <2>4. /\ after.acc = t /\ after.acc_len = loaded.acc_len - 1 /\ after.u = loaded.u
        /\ after.ones = st.ones /\ after \in NafState
    <3> DEFINE s == loaded.acc_len - 1
    <3>1. s \in Int
      BY <1>2
    <3> HIDE DEF loaded, after, t, s
    <3>2. after = [loaded EXCEPT !.acc = t, !.acc_len = s]
      BY <2>3 DEF s
    <3>3. /\ after.acc = t /\ after.acc_len = s /\ after.u = loaded.u
          /\ after.ones = loaded.ones /\ after \in NafState
      BY <1>2, <2>1, <3>1, <3>2 DEF NafState
    <3> QED BY <1>1, <3>3 DEF s
  <2> HIDE DEF loaded, emitted, after, y, e, f, h, g, t
  <2>5. Turning(after, p + 1, x, len) /\ S1 = S + e * fp /\ S1 = x - (y - e) * fp - U
    <3>1. e \in Int /\ after.acc \in Nat /\ 2 * after.acc = y - e
      BY <2>1, <2>2, <2>4
    <3>2. after.ones = IF e = 0 THEN st.ones ELSE st.ones \cup {p}
      BY <2>2, <2>4
    <3> QED BY <1>8, <2>4, <3>1, <3>2
  <2>6. S1 = S
    <3> HIDE DEF S, S1, fp
    <3>1. 0 * fp = 0
      BY <1>6
    <3> QED BY <1>7, <2>2, <2>5, <3>1
  <2>7. \E n \in q..(p + w) : n >= p + 1 /\ Congruent(S1, x, 2^n)
    <3>1. CASE q >= p + 1
      <4>1. q \in q..(p + w) /\ Congruent(S1, x, 2^q)
        BY <1>2, <1>3, <2>6
      <4> QED BY <3>1, <4>1
    <3>2. CASE ~(q >= p + 1)
      <4>1. q = p
        BY <1>2, <1>3, <3>2
      <4>2. PICK n \in Int : U = n * fn
        BY <1>2, UnreadAbove DEF U
      <4>3. Congruent(S1, x, fn)
        <5> HIDE DEF fn, fp, U, S1
        <5>1. y * fp = t * fn
          BY <1>6, <2>1
        <5>2. S1 = x - t * fn - n * fn
          <6>1. y - e = y
            BY <1>2, <2>2
          <6> QED BY <2>5, <4>2, <5>1, <6>1
        <5> DEFINE l == (-1) * t - n
        <5>3. S1 = x + l * fn /\ l \in Int
          BY <1>2, <1>6, <2>1, <4>2, <5>2
        <5> HIDE DEF l
        <5> QED BY <5>3 DEF Congruent
      <4>4. p + 1 \in q..(p + w) /\ Congruent(S1, x, 2^(p + 1))
        BY <1>2, <4>1, <4>3 DEF fn
      <4> QED BY <1>2, <4>4
    <3> QED BY <3>1, <3>2
  <2>8. after.ones = IF e = 0 THEN st.ones ELSE st.ones \cup {p}
    BY <2>2, <2>4
  <2>9. e \in Int
    BY <2>2
  <2> QED BY <2>2, <2>5, <2>7, <2>8, <2>9 DEF TurnResult, S, S1, after, e, fp
<1> QED BY <1>9, <1>10

\* What is added stays within the window that the turn opens.
TurnSettledResult(x, len, w, st, p, q) ==
    \E n \in Nat :
        /\ n >= q /\ Settled(NafTurn(st, x, len, w, p), p + 1, x, w, n)
        /\ \A t \in Int : Within(t, q) =>
                            Within(t + EmittedDigit(st, x, len, w) * 2^p, n)

LEMMA TurnSettled ==
  ASSUME NEW x, NEW len, NEW w, Multiplier(x, len, w),
         NEW st, NEW p, Turning(st, p, x, len), p < ByteBits * len,
         NEW q, Settled(st, p, x, w, q)
  PROVE  TurnSettledResult(x, len, w, st, p, q)
<1> DEFINE after == NafTurn(st, x, len, w, p)  e == EmittedDigit(st, x, len, w)
           M == ByteBits * len + ByteBits  S == SoFar(st, p, x)  S1 == SoFar(after, p + 1, x)
           fp == 2^p  h == 2^(w - 1)  fw == 2^(p + w)  fq == 2^q
<1>1. /\ e \in Int /\ S1 = S + e * fp
      /\ e = 0 => \E n \in q..(p + w) : n >= p + 1 /\ Congruent(S1, x, 2^n)
      /\ e # 0 => q = p /\ e \in (1 - h)..(h - 1) /\ Congruent(S1, x, 2^(p + w))
  <2>1. TurnResult(x, len, w, st, p, q)
    BY TurnOK
  <2> QED BY <2>1 DEF TurnResult
<1>2. /\ p \in Nat /\ w \in Nat /\ w >= 2 /\ q \in Nat /\ q >= p /\ q <= p + w - 1
      /\ M \in Nat /\ PowersUpTo(M) /\ p + w <= M /\ x \in Nat
  <2>1. p \in 0..(ByteBits * len) /\ q \in p..(p + w - 1)
    BY DEF Turning, Settled
  <2>2. /\ M \in Nat /\ PowersUpTo(M) /\ ByteBits * len \in Nat /\ ByteBits \in Nat
        /\ w \in Nat /\ w >= 2 /\ w <= ByteBits /\ x \in Nat
    BY Exponent
  <2> QED BY <2>1, <2>2
<1>3. Within(S, q)
  BY DEF Settled
<1>4. S \in Int
  <2>1. st.acc \in Nat /\ Unread(st, x) \in Nat /\ fp \in Nat
    <3>1. st \in NafState /\ st.u \in 0..len /\ p \in 0..M
      BY <1>2 DEF Turning
    <3>2. fp \in Nat
      BY <1>2, <3>1, Power
    <3> QED BY <3>1, <3>2, UnreadIs DEF NafState
  <2> DEFINE a == st.acc  U == Unread(st, x)
  <2>2. S = x - a * fp - U
    BY DEF SoFar
  <2>3. a \in Nat /\ U \in Nat
    BY <2>1
  <2> HIDE DEF a, U, fp
  <2>4. a * fp \in Nat
    BY <2>1, <2>3
  <2> QED BY <1>2, <2>2, <2>3, <2>4
<1>5. CASE e = 0
  <2>1. PICK n \in q..(p + w) : n >= p + 1 /\ Congruent(S1, x, 2^n)
    BY <1>1, <1>5
  <2> DEFINE fn == 2^n
  <2>2. n \in Nat /\ q <= n /\ n <= M /\ n \in (p + 1)..(p + w)
    BY <1>2, <2>1
  <2>3. fq <= fn /\ fq \in Nat /\ fn \in Nat
    <3>1. fq <= fn
      BY <1>2, <2>2, PowerGrows
    <3>2. q \in 0..M /\ n \in 0..M
      BY <1>2, <2>2
    <3> QED BY <1>2, <3>1, <3>2, Power
  <2>4. ASSUME NEW t \in Int, Within(t, q)
        PROVE  Within(t + e * fp, n)
    <3>1. t + e * fp = t
      <4>1. fp \in Int
        <5>1. p \in 0..M
          BY <1>2
        <5> QED BY <1>2, <5>1, Power
      <4> HIDE DEF fp, e
      <4>2. e * fp = 0
        BY <1>5, <4>1
      <4> QED BY <4>2
    <3>2. -fq < 2 * t /\ 2 * t < fq
      BY <2>4 DEF Within
    <3> HIDE DEF fq, fn
    <3>3. -fn < 2 * t /\ 2 * t < fn
      BY <2>3, <3>2
    <3> QED BY <3>1, <3>3 DEF Within, fn
  <2>5. Within(S1, n)
    BY <1>1, <1>3, <1>4, <2>4
  <2>6. Settled(after, p + 1, x, w, n)
    <3>1. n \in (p + 1)..((p + 1) + w - 1)
      BY <1>2, <2>2
    <3> QED BY <2>1, <2>5, <3>1 DEF Settled
  <2>7. n >= q
    BY <1>2, <2>2
  <2> QED BY <2>2, <2>4, <2>6, <2>7 DEF TurnSettledResult
<1>6. CASE e # 0
  <2>1. q = p /\ e \in (1 - h)..(h - 1) /\ Congruent(S1, x, fw)
    BY <1>1, <1>6
  <2>2. fw = fp * (2 * h) /\ fp \in Nat /\ fp > 0 /\ h \in Nat
    <3>1. w - 1 \in Nat /\ w - 1 + 1 = w /\ p \in 0..M /\ w <= M
      BY <1>2
    <3>2. 2^(w - 1 + 1) = 2 * 2^(w - 1) /\ 2^(w - 1) \in Nat
      BY <1>2, <3>1, PowerNext
    <3>3. 2^(p + w) = 2^p * 2^w
      BY <1>2, PowerSum
    <3>4. 2^p \in Nat /\ 2^p > 0
      BY <1>2, <3>1, Power
    <3> QED BY <3>1, <3>2, <3>3, <3>4
  <2>3. ASSUME NEW t \in Int, Within(t, q)
        PROVE  Within(t + e * fp, p + w)
    <3>1. -fp < 2 * t /\ 2 * t < fp
      BY <2>1, <2>3 DEF Within
    <3> HIDE DEF fp, fw, h, e
    <3>2. e \in Int /\ e <= h - 1 /\ e >= 1 - h
      BY <2>1, <2>2
    <3> DEFINE d == e * fp  g == h * fp
    <3>3. d <= g - fp /\ d >= fp - g /\ d \in Int /\ g \in Int
      <4>1. e * fp <= (h - 1) * fp /\ e * fp >= (1 - h) * fp
        BY <2>2, <3>2
      <4>2. (h - 1) * fp = g - fp /\ (1 - h) * fp = fp - g
        BY <2>2
      <4>3. d \in Int /\ g \in Int
        BY <2>2, <3>2
      <4> QED BY <4>1, <4>2, <4>3
    <3>4. fw = 2 * g
      BY <2>2
    <3> HIDE DEF d, g
    <3>5. -fw < 2 * (t + d) /\ 2 * (t + d) < fw
      BY <2>2, <3>1, <3>3, <3>4
    <3> QED BY <3>5 DEF Within, d, fw
  <2>4. Within(S1, p + w)
    BY <1>1, <1>3, <1>4, <2>3
  <2>5. Settled(after, p + 1, x, w, p + w)
    <3>1. p + w \in (p + 1)..((p + 1) + w - 1)
      BY <1>2
    <3> QED BY <2>1, <2>4, <3>1 DEF Settled
  <2>6. p + w \in Nat /\ p + w >= q
    BY <1>2, <2>1
  <2> QED BY <2>3, <2>5, <2>6 DEF TurnSettledResult
<1> QED BY <1>5, <1>6

\* The start: nothing is found, nothing is loaded.
LEMMA NafStartOK ==
  ASSUME NEW x, NEW len, NEW w, Multiplier(x, len, w)
  PROVE  Turning(NafStart, 0, x, len) /\ Settled(NafStart, 0, x, w, 0)
         /\ SoFar(NafStart, 0, x) = 0
<1>1. /\ ByteBits \in Nat /\ len \in Nat /\ w \in Nat /\ w >= 2 /\ x \in Nat
      /\ ByteBits * len \in Nat /\ PowersUpTo(ByteBits * len + ByteBits)
  BY Exponent
<1>2. /\ NafStart.acc = 0 /\ NafStart.acc_len = 0 /\ NafStart.u = 0 /\ NafStart.ones = {}
      /\ NafStart \in NafState
  BY DEF NafStart, NafState
<1>3. ByteBits * NafStart.u = 0
  BY <1>1, <1>2
<1>4. 2^0 = 1
  BY <1>1 DEF PowersUpTo
<1>5. Turning(NafStart, 0, x, len)
  BY <1>1, <1>2, <1>3 DEF Turning
<1>6. x \div 1 = x
  BY <1>1
<1>7. Unread(NafStart, x) = x
  <2>1. Unread(NafStart, x) = (x \div 2^0) * 2^0
    BY <1>3 DEF Unread
  <2> QED BY <1>1, <1>4, <1>6, <2>1
<1>8. SoFar(NafStart, 0, x) = 0
  BY <1>1, <1>2, <1>4, <1>7 DEF SoFar
<1>9. Congruent(0, x, 1)
  <2>1. 0 = x + (-x) * 1 /\ -x \in Int
    BY <1>1
  <2> QED BY <2>1 DEF Congruent
<1>10. Settled(NafStart, 0, x, w, 0)
  <2>1. 0 \in 0..(0 + w - 1)
    BY <1>1
  <2>2. Within(0, 0)
    BY <1>4 DEF Within
  <2> QED BY <1>4, <1>8, <1>9, <2>1, <2>2 DEF Settled
<1> QED BY <1>5, <1>8, <1>10

\* The end: what was found is the multiplier, and nothing is left.
LEMMA NafEnd ==
  ASSUME NEW x, NEW len, NEW w, Multiplier(x, len, w),
         NEW st, Turning(st, ByteBits * len, x, len),
         NEW q, Settled(st, ByteBits * len, x, w, q)
  PROVE  st.acc = 0 /\ st.u = len /\ SoFar(st, ByteBits * len, x) = x
<1> DEFINE L == ByteBits * len  S == SoFar(st, L, x)  fL == 2^L  fq == 2^q  M == L + ByteBits
<1>1. /\ ByteBits \in Nat /\ ByteBits >= 2 /\ len \in Nat /\ len > 0 /\ w \in Nat /\ w >= 2
      /\ w <= ByteBits /\ x \in Nat
      /\ L \in Nat /\ M \in Nat /\ PowersUpTo(M) /\ 2 * x < fL
  BY Exponent DEF Multiplier
<1>2. /\ st \in NafState /\ st.acc \in Nat /\ st.u \in 0..len
      /\ ByteBits * st.u - L >= 0
  BY DEF Turning, NafState
<1>3. st.u = len
  <2> SUFFICES ASSUME st.u <= len - 1 PROVE FALSE
    BY <1>1, <1>2
  <2>1. ByteBits * st.u <= ByteBits * (len - 1) /\ ByteBits * (len - 1) = L - ByteBits
    BY <1>1, <1>2
  <2>2. ByteBits * st.u \in Int
    BY <1>1, <1>2
  <2> HIDE DEF L
  <2> QED BY <1>1, <1>2, <2>1, <2>2
<1>4. Unread(st, x) = 0
  BY <1>2, <1>3, UnreadIs
<1>5. q \in L..(L + w - 1) /\ Congruent(S, x, fq) /\ -fq < 2 * S /\ 2 * S < fq
  BY DEF Settled, Within
<1>6. q \in Nat /\ L <= q /\ q <= M
  BY <1>1, <1>5
<1>7. fL \in Nat /\ fL > 0 /\ fq \in Nat /\ fL <= fq
  <2>1. L \in 0..M /\ q \in 0..M
    BY <1>1, <1>6
  <2>2. 2^L <= 2^q
    BY <1>1, <1>6, PowerGrows
  <2>3. 2^L \in Nat /\ 2^L > 0 /\ 2^q \in Nat
    BY <1>1, <2>1, Power
  <2> QED BY <2>2, <2>3
<1> DEFINE a == st.acc
<1>8. S = x - a * fL
  BY <1>1, <1>2, <1>4, <1>7 DEF SoFar
<1> HIDE DEF S, L, fL, fq, M, a
<1>9. PICK k \in Int : S = x + k * fq
  BY <1>5 DEF Congruent
<1>10. k = 0
  <2>1. k <= 0
    <3> SUFFICES ASSUME k >= 1 PROVE FALSE
      OBVIOUS
    <3>1. k * fq >= fq
      BY <1>7
    <3>2. k * fq \in Int
      BY <1>7
    <3> QED BY <1>1, <1>5, <1>7, <1>9, <3>1, <3>2
  <2>2. k >= 0
    <3> SUFFICES ASSUME k <= -1 PROVE FALSE
      OBVIOUS
    <3>1. k * fq <= (-1) * fq
      BY <1>7
    <3>2. k * fq \in Int
      BY <1>7
    <3> QED BY <1>1, <1>5, <1>7, <1>9, <3>1, <3>2
  <2> QED BY <2>1, <2>2
<1>11. S = x
  BY <1>1, <1>7, <1>9, <1>10
<1>12. a * fL = 0 /\ a \in Nat
  <2>1. a \in Nat
    BY <1>2 DEF a
  <2>2. a * fL \in Int
    BY <1>7, <2>1
  <2> QED BY <1>1, <1>8, <1>11, <2>1, <2>2
<1>13. a = 0
  BY <1>7, <1>12
<1> QED BY <1>3, <1>11, <1>13 DEF a, S, L

-----------------------------------------------------------------------------
(***************************************************************************)
(* The recoding by itself.                                                 *)
(***************************************************************************)

RecodeOK ==
    /\ build \in {"ref", "avx2"}
    /\ Multiplier(c, RecodeLen, W)
    /\ Turning(r, v, c, RecodeLen)
    /\ \E q \in Nat : Settled(r, v, c, W, q)
    /\ read = SoFar(r, v, c)

RecodeInv == Recodes => RecodeOK

LEMMA RecodeInit == VerificationInit => RecodeInv
<1> SUFFICES ASSUME VerificationInit, Recodes PROVE RecodeOK
  BY DEF RecodeInv
<1>1. Recode!Init
  BY DEF VerificationInit, Init, Recodes
<1> DEFINE L == ByteBits * RecodeLen
<1>2. /\ ByteBits \in Nat /\ L \in Nat /\ L >= 1 /\ RecodeLen \in Nat \ {0} /\ W \in 2..ByteBits
      /\ PowersUpTo(L + ByteBits) /\ L + ByteBits \in Nat
  <2>1. ByteBits \in Nat \ {0} /\ RecodeLen \in Nat \ {0} /\ W \in 2..ByteBits
        /\ PowersUpTo(ByteBits * RecodeLen + ByteBits)
    BY ByteAssumption, RecodeAssumption, RecodePowerLaws
  <2>2. ByteBits * RecodeLen \in Nat /\ ByteBits * RecodeLen >= 1
    BY <2>1
  <2> QED BY <2>1, <2>2
<1>3. c \in 0..(2^(L - 1) - 1)
  BY <1>1 DEF Recode!Init, Recode!Length, L
<1>4. 2^L = 2 * 2^(L - 1) /\ 2^(L - 1) \in Nat
  <2>1. L - 1 \in Nat /\ (L - 1) + 1 = L /\ L <= L + ByteBits
    BY <1>2
  <2>2. 2^(L - 1 + 1) = 2 * 2^(L - 1) /\ 2^(L - 1) \in Nat
    BY <1>2, <2>1, PowerNext
  <2> QED BY <2>1, <2>2
<1>5. c \in Nat /\ 2 * c < 2^L
  <2> DEFINE h == 2^(L - 1)
  <2>1. h \in Nat /\ c \in 0..(h - 1)
    BY <1>3, <1>4
  <2> HIDE DEF h
  <2>2. c \in Nat /\ 2 * c < 2 * h
    BY <2>1
  <2> QED BY <1>4, <2>2 DEF h
<1>6. Multiplier(c, RecodeLen, W)
  BY <1>2, <1>5 DEF Multiplier, L
<1>7. r = NafStart /\ v = 0 /\ read = 0 /\ build \in {"ref", "avx2"}
  BY <1>1 DEF Recode!Init, Recode!NafStart, NafStart
<1>8. Turning(r, v, c, RecodeLen) /\ Settled(r, v, c, W, 0) /\ read = SoFar(r, v, c)
  BY <1>6, <1>7, NafStartOK
<1> QED BY <1>6, <1>7, <1>8 DEF RecodeOK

LEMMA SoFarInt ==
  ASSUME NEW x, NEW len, NEW w, Multiplier(x, len, w), NEW st, NEW p, Turning(st, p, x, len)
  PROVE  /\ SoFar(st, p, x) \in Int /\ 2^p \in Nat /\ st.acc * 2^p \in Nat /\ Unread(st, x) \in Nat
<1> DEFINE M == ByteBits * len + ByteBits  fp == 2^p  a == st.acc  U == Unread(st, x)
<1>1. /\ M \in Nat /\ PowersUpTo(M) /\ ByteBits * len \in Nat /\ ByteBits \in Nat /\ x \in Nat
  BY Exponent
<1>2. st \in NafState /\ st.u \in 0..len /\ p \in 0..M
  BY <1>1 DEF Turning
<1>3. fp \in Nat
  BY <1>1, <1>2, Power
<1>4. a \in Nat /\ U \in Nat
  BY <1>2, UnreadIs DEF NafState
<1>5. SoFar(st, p, x) = x - a * fp - U
  BY DEF SoFar
<1> HIDE DEF fp, a, U
<1>6. a * fp \in Nat
  BY <1>3, <1>4
<1> QED BY <1>1, <1>3, <1>4, <1>5, <1>6 DEF a, fp, U

LEMMA RecodeTurn == RecodeOK /\ Recode!Turn => RecodeOK'
<1> SUFFICES ASSUME RecodeOK, Recode!Turn PROVE RecodeOK'
  OBVIOUS
<1>1. /\ v < ByteBits * RecodeLen /\ r' = NafTurn(r, c, RecodeLen, W, v) /\ v' = v + 1
      /\ read' = read + Recode!DigitFound * 2^v /\ build' = build /\ c' = c
  BY DEF Recode!Turn, Recode!Length, Recode!NafTurn, NafTurn, Recode!Emitted, Emitted,
         Recode!Loaded, Loaded, Recode!Byte, Byte
<1>2. PICK q \in Nat : Settled(r, v, c, W, q)
  BY DEF RecodeOK
<1>3. Multiplier(c, RecodeLen, W) /\ Turning(r, v, c, RecodeLen)
  BY DEF RecodeOK
<1> DEFINE e == EmittedDigit(r, c, RecodeLen, W)
<1>4. TurnResult(c, RecodeLen, W, r, v, q)
  BY <1>1, <1>2, <1>3, TurnOK
<1>5. /\ Turning(r', v', c', RecodeLen) /\ SoFar(r', v', c') = SoFar(r, v, c) + e * 2^v
      /\ r'.ones = IF e = 0 THEN r.ones ELSE r.ones \cup {v}
      /\ e # 0 => e = Signed(OddDigit(c, v, W), W)
  BY <1>1, <1>4 DEF TurnResult
<1>6. Recode!DigitFound = e
  <2>1. Recode!EmittedDigit(r, c, RecodeLen, W) = e
    BY DEF Recode!EmittedDigit, EmittedDigit, Recode!Loaded, Loaded, Recode!Byte, Byte,
           Recode!Signed, Signed
  <2>2. Recode!DigitAt(v) = Signed(OddDigit(c, v, W), W)
    BY DEF Recode!DigitAt, Recode!Signed, Signed, Recode!OddDigit, OddDigit,
           Recode!WithLowBitSet, WithLowBitSet
  <2>3. v \notin r.ones
    BY <1>3 DEF Turning
  <2>4. CASE build = "avx2"
    BY <2>1, <2>4 DEF Recode!DigitFound
  <2>5. CASE build = "ref" /\ e = 0
    <3>1. v \notin r'.ones
      BY <1>5, <2>3, <2>5
    <3> QED BY <2>5, <3>1 DEF Recode!DigitFound
  <2>6. CASE build = "ref" /\ e # 0
    <3>1. v \in r'.ones
      BY <1>5, <2>6
    <3>2. Recode!DigitFound = Recode!DigitAt(v)
      BY <2>6, <3>1 DEF Recode!DigitFound
    <3> QED BY <1>5, <2>2, <2>6, <3>2
  <2>7. build \in {"ref", "avx2"}
    BY DEF RecodeOK
  <2> QED BY <2>4, <2>5, <2>6, <2>7
<1>7. read' = SoFar(r', v', c')
  BY <1>1, <1>5, <1>6 DEF RecodeOK
<1>8. \E n \in Nat : Settled(r', v', c', W, n)
  <2>1. TurnSettledResult(c, RecodeLen, W, r, v, q)
    BY <1>1, <1>2, <1>3, TurnSettled
  <2> QED BY <1>1, <2>1 DEF TurnSettledResult
<1>9. Multiplier(c', RecodeLen, W) /\ build' \in {"ref", "avx2"}
  BY <1>1, <1>3 DEF RecodeOK
<1> QED BY <1>5, <1>7, <1>8, <1>9 DEF RecodeOK

LEMMA RecodeNext == RecodeInv /\ [VerifyStep \/ RecodeStep]_<<vars, recoding>> => RecodeInv'
<1> SUFFICES ASSUME RecodeInv, [VerifyStep \/ RecodeStep]_<<vars, recoding>> PROVE RecodeInv'
  OBVIOUS
<1>1. CASE VerifyStep
  <2>1. pc' # "recode"
    BY <1>1 DEF VerifyStep, Next, Reduce, Prepare, Skip, Accumulate, Advance, Finish
  <2> QED BY <2>1 DEF RecodeInv, Recodes
<1>2. CASE RecodeStep
  <2>1. RecodeOK /\ Recode!Turn
    BY <1>2 DEF RecodeStep, RecodeInv, Recode!Next
  <2> QED BY <2>1, RecodeTurn DEF RecodeInv
<1>3. CASE UNCHANGED <<vars, recoding>>
  <2>1. c' = c /\ r' = r /\ v' = v /\ read' = read /\ build' = build /\ pc' = pc
    BY <1>3 DEF vars, args, recoding
  <2> QED BY <2>1 DEF RecodeInv, RecodeOK, Recodes
<1> QED BY <1>1, <1>2, <1>3

LEMMA RecodeLost == RecodeInv => NothingLost
<1> SUFFICES ASSUME RecodeInv, Recodes PROVE Recode!NothingLost
  BY DEF NothingLost
<1>1. /\ Multiplier(c, RecodeLen, W) /\ Turning(r, v, c, RecodeLen) /\ read = SoFar(r, v, c)
      /\ \E q \in Nat : Settled(r, v, c, W, q)
  BY DEF RecodeInv, RecodeOK
<1>2. read + r.acc * 2^v + (c \div 2^(ByteBits * r.u)) * 2^(ByteBits * r.u) = c
  <2> DEFINE a == r.acc * 2^v  U == Unread(r, c)  S == SoFar(r, v, c)
  <2>1. a \in Nat /\ U \in Nat /\ S = c - a - U
    BY <1>1, SoFarInt DEF SoFar
  <2>2. c \in Nat
    BY <1>1 DEF Multiplier
  <2> HIDE DEF a, U, S
  <2>3. S + a + U = c
    BY <2>1, <2>2
  <2> QED BY <1>1, <2>3 DEF a, U, S, Unread
<1>3. ASSUME v = ByteBits * RecodeLen PROVE r.acc = 0 /\ r.u = RecodeLen
  BY <1>1, <1>3, NafEnd
<1> QED BY <1>2, <1>3 DEF Recode!NothingLost, Recode!Length

\* At every turn of both loops, the digits found so far, the accumulator and the
\* unread bytes add up to the multiplier, and nothing is left at the end: for
\* every width of a byte and of a window, and every multiplier whose top bit is
\* zero.
THEOREM NothingLostAlways == VerificationSpec => []NothingLost
<1>1. VerificationInit => RecodeInv
  BY RecodeInit
<1>2. RecodeInv /\ [VerifyStep \/ RecodeStep]_<<vars, recoding>> => RecodeInv'
  BY RecodeNext
<1> QED BY <1>1, <1>2, RecodeLost, PTL DEF VerificationSpec

-----------------------------------------------------------------------------
(***************************************************************************)
(* The loop as a whole: a recursive function exists, by the least number   *)
(* of turns without one.                                                   *)
(***************************************************************************)
AreStates(f, x, len, w, n) ==
    f = [k \in 0..n |-> IF k = 0 THEN NafStart ELSE NafTurn(f[k - 1], x, len, w, k - 1)]

LEMMA StatesExist ==
  ASSUME NEW x, NEW len, NEW w
  PROVE  \A n \in Nat : \E f : AreStates(f, x, len, w, n)
<1> DEFINE Missing == {n \in Nat : ~\E f : AreStates(f, x, len, w, n)}
<1> SUFFICES ASSUME Missing # {} PROVE FALSE
  OBVIOUS
<1>1. PICK n \in Missing : \A k \in Missing : n <= k
  BY LeastNatural
<1>2. n # 0
  <2> DEFINE f == [k \in 0..0 |-> NafStart]
  <2>1. AreStates(f, x, len, w, 0)
    BY DEF AreStates
  <2> QED BY <1>1, <2>1
<1>3. n - 1 \in Nat /\ n - 1 \notin Missing
  BY <1>1, <1>2
<1>4. PICK f : AreStates(f, x, len, w, n - 1)
  BY <1>3
<1> DEFINE g == [k \in 0..n |-> IF k = 0 THEN NafStart
                                ELSE IF k = n THEN NafTurn(f[n - 1], x, len, w, n - 1) ELSE f[k]]
<1>5. AreStates(g, x, len, w, n)
  <2>1. f = [k \in 0..(n - 1) |-> IF k = 0 THEN NafStart ELSE NafTurn(f[k - 1], x, len, w, k - 1)]
    BY <1>4 DEF AreStates
  <2>2. ASSUME NEW k \in 0..(n - 1) PROVE g[k] = f[k]
    <3>1. k \in 0..n /\ k # n
      BY <1>1, <2>2
    <3>2. k = 0 => f[k] = NafStart
      BY <2>1, <2>2
    <3> QED BY <3>1, <3>2
  <2>3. ASSUME NEW k \in 0..n, k # 0 PROVE g[k] = NafTurn(g[k - 1], x, len, w, k - 1)
    <3>1. k - 1 \in 0..(n - 1) /\ n \in Nat
      BY <1>1, <2>3
    <3>2. g[k - 1] = f[k - 1]
      BY <2>2, <3>1
    <3>3. CASE k = n
      BY <2>3, <3>2, <3>3
    <3>4. CASE k # n
      <4>1. k \in 0..(n - 1)
        BY <2>3, <3>1, <3>4
      <4>2. g[k] = f[k]
        BY <2>2, <4>1
      <4>3. f[k] = NafTurn(f[k - 1], x, len, w, k - 1)
        BY <2>1, <2>3, <4>1
      <4> QED BY <3>2, <4>2, <4>3
    <3> QED BY <3>3, <3>4
  <2>4. g[0] = NafStart
    BY <1>1
  <2>5. g = [k \in 0..n |-> g[k]]
    OBVIOUS
  <2> HIDE DEF g
  <2> QED BY <2>3, <2>4, <2>5 DEF AreStates
<1> QED BY <1>1, <1>5

\* The state before turn k, what is found below k, and the digit at k.
StateAt(x, len, w, k) == NafLoop(x, len, w)[k]
Found(x, len, w, k) == SoFar(StateAt(x, len, w, k), k, x)
DigitFoundAt(x, len, w, k) == EmittedDigit(StateAt(x, len, w, k), x, len, w)

Loops(x, len, w) ==
    /\ StateAt(x, len, w, 0) = NafStart
    /\ \A k \in 0..(ByteBits * len - 1) :
          StateAt(x, len, w, k + 1) = NafTurn(StateAt(x, len, w, k), x, len, w, k)

LEMMA LoopRuns ==
  ASSUME NEW x, NEW len, NEW w, Multiplier(x, len, w)
  PROVE  Loops(x, len, w)
<1> DEFINE L == ByteBits * len  f == CHOOSE g : AreStates(g, x, len, w, L)
<1>1. L \in Nat
  BY Exponent
<1>2. AreStates(f, x, len, w, L)
  BY <1>1, StatesExist
<1>3. NafLoop(x, len, w) = f
  BY DEF NafLoop, AreStates
<1> HIDE DEF f, L
<1>4. \A k \in 0..L : f[k] = IF k = 0 THEN NafStart ELSE NafTurn(f[k - 1], x, len, w, k - 1)
  BY <1>2 DEF AreStates
<1>5. f[0] = NafStart
  BY <1>1, <1>4
<1>6. ASSUME NEW k \in 0..(L - 1) PROVE f[k + 1] = NafTurn(f[k], x, len, w, k)
  <2>1. k + 1 \in 0..L /\ k + 1 # 0 /\ (k + 1) - 1 = k
    BY <1>1
  <2> QED BY <1>4, <2>1
<1> QED BY <1>3, <1>5, <1>6 DEF Loops, StateAt, L

\* From any position on, what the digits above add stays within the windows.
LoopAt(x, len, w, from, k) ==
    /\ Turning(StateAt(x, len, w, k), k, x, len)
    /\ k >= from => Found(x, len, w, from) \in Int
    /\ \E q \in Nat :
          /\ Settled(StateAt(x, len, w, k), k, x, w, q)
          /\ k >= from => Within(Found(x, len, w, k) - Found(x, len, w, from), q)

LEMMA WithinZero ==
  ASSUME NEW x, NEW len, NEW w, Multiplier(x, len, w),
         NEW k \in 0..(ByteBits * len), NEW st, NEW q \in Nat, Settled(st, k, x, w, q)
  PROVE  Within(0, q)
<1> DEFINE M == ByteBits * len + ByteBits  fq == 2^q
<1>1. /\ ByteBits \in Nat /\ ByteBits * len \in Nat /\ M \in Nat /\ PowersUpTo(M)
      /\ w \in Nat /\ w <= ByteBits
  BY Exponent
<1>2. q \in k..(k + w - 1)
  BY DEF Settled
<1>3. q \in 0..M
  BY <1>1, <1>2
<1>4. fq \in Nat /\ fq > 0
  BY <1>1, <1>3, Power
<1> HIDE DEF fq
<1>5. -fq < 2 * 0 /\ 2 * 0 < fq
  BY <1>4
<1> QED BY <1>5 DEF Within, fq

LEMMA LoopStep ==
  ASSUME NEW x, NEW len, NEW w, Multiplier(x, len, w),
         NEW from \in 0..(ByteBits * len), NEW k \in 0..(ByteBits * len - 1),
         LoopAt(x, len, w, from, k)
  PROVE  LoopAt(x, len, w, from, k + 1)
<1> DEFINE st == StateAt(x, len, w, k)  after == StateAt(x, len, w, k + 1)  fp == 2^k
           e == EmittedDigit(st, x, len, w)  t == Found(x, len, w, k) - Found(x, len, w, from)
<1>1. PICK q \in Nat : Settled(st, k, x, w, q) /\ (k >= from => Within(t, q))
  BY DEF LoopAt
<1>2. Turning(st, k, x, len) /\ k < ByteBits * len /\ ByteBits * len \in Nat
      /\ k + 1 \in 0..(ByteBits * len)
  BY Exponent DEF LoopAt
<1>3. after = NafTurn(st, x, len, w, k)
  BY LoopRuns DEF Loops
<1>4. /\ TurnResult(x, len, w, st, k, q) /\ TurnSettledResult(x, len, w, st, k, q)
  BY <1>1, <1>2, TurnOK, TurnSettled
<1>5. Turning(after, k + 1, x, len) /\ e \in Int
      /\ Found(x, len, w, k + 1) = Found(x, len, w, k) + e * fp
  BY <1>3, <1>4 DEF TurnResult, Found
<1>6. PICK n \in Nat : /\ n >= q /\ Settled(after, k + 1, x, w, n)
                       /\ \A z \in Int : Within(z, q) => Within(z + e * fp, n)
  BY <1>3, <1>4 DEF TurnSettledResult
<1> DEFINE S == Found(x, len, w, k)  F == Found(x, len, w, from)  S1 == Found(x, len, w, k + 1)
<1>7. S \in Int /\ S1 \in Int /\ e * fp \in Int /\ (k >= from => F \in Int) /\ t = S - F
  <2>1. S \in Int /\ fp \in Nat
    BY <1>2, SoFarInt DEF Found
  <2>2. S1 \in Int
    BY <1>2, <1>5, SoFarInt DEF Found
  <2>3. k >= from => F \in Int
    BY DEF LoopAt
  <2> HIDE DEF S, S1, F, fp, e
  <2>4. e * fp \in Int
    BY <1>5, <2>1
  <2> QED BY <2>1, <2>2, <2>3, <2>4 DEF S, F
<1>8. CASE k + 1 < from
  <2>1. ~(k + 1 >= from)
    BY <1>2, <1>8
  <2> QED BY <1>5, <1>6, <2>1 DEF LoopAt
<1>9. CASE k + 1 = from
  <2>1. F = S1 /\ S1 - S1 = 0
    BY <1>7, <1>9
  <2>2. Within(0, n)
    BY <1>2, <1>6, WithinZero
  <2>3. Within(S1 - F, n)
    BY <2>1, <2>2
  <2> QED BY <1>5, <1>6, <1>7, <2>1, <2>3 DEF LoopAt
<1>10. CASE k >= from
  <2>1. t \in Int /\ S1 - F = t + e * fp
    <3> DEFINE d == e * fp
    <3>1. d \in Int /\ S1 = S + d /\ t = S - F /\ S \in Int /\ F \in Int
      BY <1>5, <1>7, <1>10
    <3> HIDE DEF d, S, S1, F, t
    <3>2. t \in Int /\ S1 - F = t + d
      BY <3>1
    <3> QED BY <3>2 DEF d
  <2>2. Within(S1 - F, n)
    BY <1>1, <1>6, <1>10, <2>1
  <2> QED BY <1>5, <1>6, <1>7, <1>10, <2>2 DEF LoopAt
<1>11. k + 1 < from \/ k + 1 = from \/ k >= from
  BY <1>2
<1> QED BY <1>8, <1>9, <1>10, <1>11

LEMMA LoopAlways ==
  ASSUME NEW x, NEW len, NEW w, Multiplier(x, len, w), NEW from \in 0..(ByteBits * len)
  PROVE  \A k \in 0..(ByteBits * len) : LoopAt(x, len, w, from, k)
<1> DEFINE L == ByteBits * len  Good == {k \in 0..L : LoopAt(x, len, w, from, k)}
<1>1. L \in Nat /\ 0 \in 0..L
  BY Exponent
<1>2. 0 \in Good
  <2>1. StateAt(x, len, w, 0) = NafStart
    BY LoopRuns DEF Loops
  <2>2. /\ Turning(NafStart, 0, x, len) /\ Settled(NafStart, 0, x, w, 0)
        /\ SoFar(NafStart, 0, x) = 0
    BY NafStartOK
  <2>3. Found(x, len, w, 0) = 0
    BY <2>1, <2>2 DEF Found
  <2>4. Within(0, 0)
    BY <1>1, <2>2, WithinZero
  <2>5. 0 >= from => from = 0
    BY <1>1
  <2>6. 0 >= from => /\ Found(x, len, w, from) \in Int
                     /\ Within(Found(x, len, w, 0) - Found(x, len, w, from), 0)
    <3>1. 0 - 0 = 0
      OBVIOUS
    <3> QED BY <2>3, <2>4, <2>5, <3>1
  <2>7. LoopAt(x, len, w, from, 0)
    BY <2>1, <2>2, <2>6 DEF LoopAt
  <2> QED BY <1>1, <2>7
<1>3. ASSUME NEW k \in 0..(L - 1), k \in Good PROVE k + 1 \in Good
  <2>1. k + 1 \in 0..L
    BY <1>1
  <2>2. LoopAt(x, len, w, from, k + 1)
    BY <1>3, LoopStep
  <2> QED BY <2>1, <2>2
<1> HIDE DEF Good
<1>4. \A k \in 0..L : k \in Good
  BY <1>1, <1>2, <1>3, UpTo
<1> QED BY <1>4 DEF Good

\* The digit at k: what it adds, and what it is when it is not zero.
DigitOK(x, len, w, k) ==
    LET e == DigitFoundAt(x, len, w, k)
    IN  /\ e \in Int /\ Found(x, len, w, k) \in Int /\ Found(x, len, w, k + 1) \in Int
        /\ Found(x, len, w, k + 1) = Found(x, len, w, k) + e * 2^k
        /\ StateAt(x, len, w, k + 1).ones =
              IF e = 0 THEN StateAt(x, len, w, k).ones ELSE StateAt(x, len, w, k).ones \cup {k}
        /\ e # 0 => /\ e = Signed(OddDigit(x, k, w), w) /\ e % 2 = 1
                    /\ e \in (1 - 2^(w - 1))..(2^(w - 1) - 1)

LEMMA DigitIs ==
  ASSUME NEW x, NEW len, NEW w, Multiplier(x, len, w), NEW k \in 0..(ByteBits * len - 1)
  PROVE  DigitOK(x, len, w, k)
<1> DEFINE st == StateAt(x, len, w, k)
<1>1. ByteBits * len \in Nat /\ k < ByteBits * len /\ k \in 0..(ByteBits * len)
      /\ 0 \in 0..(ByteBits * len)
  BY Exponent
<1>2. LoopAt(x, len, w, 0, k)
  BY <1>1, LoopAlways
<1>3. PICK q \in Nat : Settled(st, k, x, w, q)
  BY <1>2 DEF LoopAt
<1>4. Turning(st, k, x, len)
  BY <1>2 DEF LoopAt
<1>5. TurnResult(x, len, w, st, k, q)
  BY <1>1, <1>3, <1>4, TurnOK
<1>6. StateAt(x, len, w, k + 1) = NafTurn(st, x, len, w, k)
  BY LoopRuns DEF Loops
<1>7. Found(x, len, w, k) \in Int
  BY <1>4, SoFarInt DEF Found
<1>8. Found(x, len, w, k + 1) \in Int
  <2>1. Turning(StateAt(x, len, w, k + 1), k + 1, x, len)
    BY <1>5, <1>6 DEF TurnResult
  <2> QED BY <2>1, SoFarInt DEF Found
<1> QED BY <1>5, <1>6, <1>7, <1>8 DEF TurnResult, DigitOK, DigitFoundAt, Found

LEMMA FoundEnds ==
  ASSUME NEW x, NEW len, NEW w, Multiplier(x, len, w)
  PROVE  Found(x, len, w, 0) = 0 /\ Found(x, len, w, ByteBits * len) = x
<1> DEFINE L == ByteBits * len  st == StateAt(x, len, w, L)
<1>1. L \in Nat /\ L \in 0..L /\ 0 \in 0..L
  BY Exponent
<1>2. Found(x, len, w, 0) = 0
  <2>1. StateAt(x, len, w, 0) = NafStart
    BY LoopRuns DEF Loops
  <2> QED BY <2>1, NafStartOK DEF Found
<1>3. LoopAt(x, len, w, 0, L)
  BY <1>1, LoopAlways
<1>4. PICK q \in Nat : Settled(st, L, x, w, q)
  BY <1>3 DEF LoopAt
<1>5. Turning(st, L, x, len)
  BY <1>3 DEF LoopAt
<1>6. SoFar(st, L, x) = x
  BY <1>4, <1>5, NafEnd
<1> QED BY <1>2, <1>6 DEF Found

\* Where the digits are that are not zero.
LEMMA PositionsAre ==
  ASSUME NEW x, NEW len, NEW w, Multiplier(x, len, w)
  PROVE  NafPositions(x, len, w) =
            {j \in 0..(ByteBits * len - 1) : DigitFoundAt(x, len, w, j) # 0}
<1> DEFINE L == ByteBits * len  d(j) == DigitFoundAt(x, len, w, j)
           ones(k) == StateAt(x, len, w, k).ones
           Good == {k \in 0..L : ones(k) = {j \in 0..(k - 1) : d(j) # 0}}
<1>1. L \in Nat /\ 0 \in 0..L
  BY Exponent
<1>2. 0 \in Good
  <2>1. ones(0) = {}
    BY LoopRuns DEF Loops, NafStart
  <2>2. 0..(0 - 1) = {}
    OBVIOUS
  <2> HIDE DEF d, ones
  <2> QED BY <1>1, <2>1, <2>2
<1>3. ASSUME NEW k \in 0..(L - 1), k \in Good PROVE k + 1 \in Good
  <2>1. ones(k + 1) = IF d(k) = 0 THEN ones(k) ELSE ones(k) \cup {k}
    <3>1. DigitOK(x, len, w, k)
      BY DigitIs
    <3> QED BY <3>1 DEF DigitOK
  <2>2. ones(k) = {j \in 0..(k - 1) : d(j) # 0}
    BY <1>3
  <2> HIDE DEF d, ones
  <2>3. k + 1 \in 0..L /\ 0..((k + 1) - 1) = (0..(k - 1)) \cup {k}
    BY <1>1
  <2>4. ones(k + 1) = {j \in 0..((k + 1) - 1) : d(j) # 0}
    BY <2>1, <2>2, <2>3
  <2> QED BY <2>3, <2>4
<1> HIDE DEF Good
<1>4. \A k \in 0..L : k \in Good
  BY <1>1, <1>2, <1>3, UpTo
<1>5. L \in Good
  BY <1>1, <1>4
<1> QED BY <1>5 DEF Good, NafPositions, StateAt

\* What the digits below k stand for, and those from one position on, is less than
\* half a window above k.
Small(t, k, w) == -(2^(k + w - 2)) < t /\ t < 2^(k + w - 2)

LEMMA WithinSmall ==
  ASSUME NEW x, NEW len, NEW w, Multiplier(x, len, w), NEW k \in 0..(ByteBits * len),
         NEW q \in k..(k + w - 1), NEW t \in Int, Within(t, q)
  PROVE  Small(t, k, w)
<1> DEFINE M == ByteBits * len + ByteBits  n == k + w - 2  fq == 2^q  fn == 2^n
<1>1. /\ ByteBits \in Nat /\ ByteBits * len \in Nat /\ M \in Nat /\ PowersUpTo(M)
      /\ w \in Nat /\ w >= 2 /\ w <= ByteBits
  BY Exponent
<1>2. /\ n \in Nat /\ n + 1 = k + w - 1 /\ n + 1 <= M /\ q \in Nat /\ q <= n + 1
      /\ q \in 0..M /\ n + 1 \in 0..M
  BY <1>1
<1>3. 2^(n + 1) = 2 * fn /\ fn \in Nat
  BY <1>1, <1>2, PowerNext
<1>4. fq <= 2^(n + 1) /\ fq \in Nat
  <2>1. n + 1 \in Nat
    BY <1>2
  <2>2. 2^q <= 2^(n + 1)
    BY <1>1, <1>2, <2>1, PowerGrows
  <2>3. 2^q \in Nat
    BY <1>1, <1>2, Power
  <2> QED BY <2>2, <2>3
<1>5. -fq < 2 * t /\ 2 * t < fq
  BY DEF Within
<1> HIDE DEF fq, fn
<1>6. -fn < t /\ t < fn
  BY <1>3, <1>4, <1>5
<1> QED BY <1>6 DEF Small, fn, n

LEMMA FoundSmall ==
  ASSUME NEW x, NEW len, NEW w, Multiplier(x, len, w),
         NEW from \in 0..(ByteBits * len), NEW k \in from..(ByteBits * len)
  PROVE  /\ Found(x, len, w, from) \in Int /\ Found(x, len, w, k) \in Int
         /\ Small(Found(x, len, w, k), k, w)
         /\ Small(Found(x, len, w, k) - Found(x, len, w, from), k, w)
<1> DEFINE st == StateAt(x, len, w, k)  S == Found(x, len, w, k)  F == Found(x, len, w, from)
<1>1. ByteBits * len \in Nat /\ k \in 0..(ByteBits * len) /\ k >= from
  BY Exponent
<1>2. LoopAt(x, len, w, from, k)
  BY <1>1, LoopAlways
<1>3. PICK q \in Nat : Settled(st, k, x, w, q) /\ Within(S - F, q)
  BY <1>1, <1>2 DEF LoopAt
<1>4. F \in Int /\ S \in Int /\ S - F \in Int
  <2>1. F \in Int /\ Turning(st, k, x, len)
    BY <1>1, <1>2 DEF LoopAt
  <2>2. S \in Int
    BY <2>1, SoFarInt DEF Found
  <2> QED BY <2>1, <2>2
<1>5. q \in k..(k + w - 1) /\ Within(S, q)
  BY <1>3 DEF Settled, Found
<1>6. Small(S, k, w)
  BY <1>1, <1>4, <1>5, WithinSmall
<1>7. Small(S - F, k, w)
  BY <1>1, <1>3, <1>4, <1>5, WithinSmall
<1> QED BY <1>4, <1>6, <1>7

-----------------------------------------------------------------------------
(***************************************************************************)
(* Sizes, and bits of numbers that agree in their low bits.                *)
(***************************************************************************)
Top == 2 * Half + 2 * ByteBits

LEMMA LawsBelow ==
  ASSUME NEW m \in Nat, PowersUpTo(m), NEW n \in Nat, n <= m
  PROVE  PowersUpTo(n)
<1>1. \A k \in 0..n : k \in 0..m /\ \A l \in 0..(n - k) : l \in 0..(m - k)
  OBVIOUS
<1>2. 2^0 = 1 /\ 2^1 = 2
  BY DEF PowersUpTo
<1>3. ASSUME NEW k \in 0..n PROVE 2^k \in Nat \ {0}
  BY <1>1 DEF PowersUpTo
<1>4. ASSUME NEW k \in 0..n, NEW l \in 0..(n - k) PROVE 2^(k + l) = 2^k * 2^l
  BY <1>1 DEF PowersUpTo
<1> QED BY <1>2, <1>3, <1>4 DEF PowersUpTo

LEMMA Sizes ==
  /\ ByteBits \in Nat /\ ByteBits >= 3 /\ Len \in Nat /\ Len > 0 /\ Half \in Nat
  /\ Half = ByteBits * Len /\ 2 * Half = ByteBits * (2 * Len) /\ Half >= ByteBits
  /\ W \in 3..ByteBits /\ WG \in 3..ByteBits /\ W \in 2..ByteBits /\ WG \in 2..ByteBits
  /\ Top \in Nat /\ Top = 2 * Half + 2 * ByteBits /\ PowersUpTo(Top)
  /\ PowersUpTo(Half + ByteBits) /\ PowersUpTo(2 * Half + ByteBits)
  /\ 2 * Len \in Nat \ {0} /\ Len \in Nat \ {0}
<1>1. ByteBits \in Nat /\ ByteBits >= 3 /\ Len \in Nat /\ Len > 0 /\ W \in 3..ByteBits /\ WG \in 3..ByteBits
  BY ByteAssumption, VerifyAssumption
<1>2. Half = ByteBits * Len /\ Half \in Nat /\ Half >= ByteBits /\ 2 * Half = ByteBits * (2 * Len)
  <2> DEFINE n == ByteBits * Len
  <2>1. n \in Nat /\ n >= ByteBits
    BY <1>1
  <2>2. ByteBits * (2 * Len) = 2 * n
    BY <1>1
  <2> QED BY <2>1, <2>2 DEF Half
<1>3. Top \in Nat /\ PowersUpTo(Top) /\ Top = 2 * Half + 2 * ByteBits
  BY <1>1, <1>2, VerifyPowerLaws DEF Top
<1>4. /\ Half + ByteBits \in Nat /\ Half + ByteBits <= Top
      /\ 2 * Half + ByteBits \in Nat /\ 2 * Half + ByteBits <= Top
  BY <1>1, <1>2, <1>3
<1>5. PowersUpTo(Half + ByteBits) /\ PowersUpTo(2 * Half + ByteBits)
  BY <1>3, <1>4, LawsBelow
<1>6. W \in 2..ByteBits /\ WG \in 2..ByteBits
  BY <1>1
<1> QED BY <1>1, <1>2, <1>3, <1>5, <1>6

\* Numbers that agree below f * g * h agree in their bits from f to f * g.
SameLow(x, y, f, g, h) ==
    /\ x \in Nat /\ y \in Nat /\ f \in Nat /\ f > 0 /\ g \in Nat /\ g > 0 /\ h \in Nat /\ h > 0
    /\ x % (f * (g * h)) = y % (f * (g * h))

Field(x, f, g) == (x \div f) % g

LEMMA SameField ==
  ASSUME NEW x, NEW y, NEW f, NEW g, NEW h, SameLow(x, y, f, g, h)
  PROVE  Field(x, f, g) = Field(y, f, g)
<1>1. /\ x \in Nat /\ y \in Nat /\ f \in Nat /\ f > 0 /\ g \in Nat /\ g > 0 /\ h \in Nat /\ h > 0
      /\ x % (f * (g * h)) = y % (f * (g * h))
  BY DEF SameLow
<1> DEFINE gh == g * h  m == f * gh
<1>2. gh \in Nat /\ gh > 0
  BY <1>1
<1>3. m \in Nat /\ m > 0 /\ x % m = y % m
  <2> HIDE DEF gh
  <2>1. f * gh \in Nat /\ f * gh > 0
    BY <1>1, <1>2
  <2> QED BY <1>1, <2>1 DEF gh
<1>4. Congruent(x, y, m)
  <2> HIDE DEF m
  <2> QED BY <1>1, <1>3, ModEqual
<1>5. PICK k \in Int : x = y + k * m
  BY <1>4 DEF Congruent
<1> DEFINE q == y \div f  s == y % f  e == q + (k * h) * g
<1>6. y = f * q + s /\ q \in Int /\ s \in 0..(f - 1)
  BY <1>1, Division
<1> HIDE DEF q, s
<1>7. x = f * e + s /\ e \in Int
  <2> DEFINE kh == k * h
  <2>1. kh \in Int /\ e = q + kh * g /\ k * m = f * (kh * g)
    BY <1>1
  <2> DEFINE n == kh * g
  <2>2. n \in Int /\ e = q + n /\ k * m = f * n
    BY <1>1, <2>1
  <2> HIDE DEF kh, n, e, m, gh
  <2>3. f * (q + n) = f * q + f * n /\ f * q \in Int /\ f * n \in Int
    BY <1>1, <1>6, <2>2
  <2> QED BY <1>1, <1>5, <1>6, <2>2, <2>3
<1>8. x \div f = e
  <2> HIDE DEF e
  <2> QED BY <1>1, <1>6, <1>7, DivisionUnique
<1>9. e % g = q % g
  <2>1. Congruent(e, q, g)
    BY <1>1 DEF Congruent
  <2>2. e \in Int /\ q \in Int
    BY <1>6, <1>7
  <2> HIDE DEF e
  <2> QED BY <1>1, <2>1, <2>2, ModEqual
<1>10. Field(x, f, g) = e % g
  BY <1>8 DEF Field
<1>11. Field(y, f, g) = q % g
  BY DEF Field, q
<1> QED BY <1>9, <1>10, <1>11

\* The first byte and the one above it are the two low bytes.
LEMMA TwoBytes ==
  ASSUME NEW u \in Nat, NEW a \in Nat, a > 0
  PROVE  /\ (u % a) + ((u \div a) % a) * a \in Nat
         /\ ((u % a) + ((u \div a) % a) * a) % (a * a) = u % (a * a)
<1> DEFINE q == u \div a  s == u % a  p2 == q \div a  e2 == q % a  t == s + e2 * a  m == a * a
<1>1. q \in Int /\ s \in 0..(a - 1) /\ u = a * q + s
  BY Division
<1> HIDE DEF q, s
<1>2. p2 \in Int /\ e2 \in 0..(a - 1) /\ q = a * p2 + e2
  BY <1>1, Division
<1> HIDE DEF p2, e2
<1>3. m \in Nat /\ m > 0 /\ t \in 0..(m - 1)
  <2>1. e2 * a <= (a - 1) * a /\ e2 * a >= 0 /\ (a - 1) * a = m - a /\ m \in Nat /\ m > 0
    BY <1>2
  <2> DEFINE n == e2 * a
  <2>2. n \in Int
    BY <1>2
  <2>3. n <= m - a /\ n >= 0 /\ t = s + n
    BY <2>1
  <2> HIDE DEF n, m, t
  <2> QED BY <1>1, <2>1, <2>2, <2>3
<1>4. u = m * p2 + t
  <2>1. a * (a * p2 + e2) = m * p2 + e2 * a
    BY <1>2
  <2> DEFINE n == e2 * a  p == m * p2  z == a * q
  <2>2. n \in Int /\ p \in Int /\ z = p + n /\ t = s + n /\ u = z + s
    BY <1>1, <1>2, <1>3, <2>1
  <2> HIDE DEF n, p, z, t
  <2>3. u = p + t
    BY <1>1, <2>2
  <2> QED BY <2>3 DEF p
<1> HIDE DEF m, t
<1>5. u % m = t
  <2>1. u \in Int /\ m \in Nat /\ m > 0 /\ p2 \in Int /\ t \in 0..(m - 1) /\ u = m * p2 + t
    BY <1>2, <1>3, <1>4
  <2> QED BY <2>1, DivisionUnique
<1>6. t % m = t
  BY <1>3
<1>7. t \in Nat
  BY <1>3
<1> QED BY <1>5, <1>6, <1>7 DEF t, m, q, s, e2

\* A byte shifted in below: z agrees with the bytes above in its two low bytes.
LEMMA ShiftByte ==
  ASSUME NEW u \in Nat, NEW a \in Nat, a > 0, NEW z \in Nat,
         z % (a * a) = (u \div a) % (a * a)
  PROVE  /\ (z * a + (u % a)) % (a * a * (a * a)) \in Nat
         /\ ((z * a + (u % a)) % (a * a * (a * a))) % (a * a) = u % (a * a)
<1> DEFINE q == u \div a  s == u % a  m == a * a  y == z * a + s  n == m * m
<1>1. q \in Int /\ s \in 0..(a - 1) /\ u = a * q + s /\ q \in Nat
  BY Division
<1>2. m \in Nat /\ m > 0
  OBVIOUS
<1>3. n \in Nat /\ n > 0
  <2> HIDE DEF m
  <2> QED BY <1>2
<1>4. Congruent(z, q, m)
  <2> HIDE DEF q, m
  <2>1. z % m = q % m
    BY DEF q, m
  <2> QED BY <1>1, <1>2, <2>1, ModEqual
<1> HIDE DEF q, s
<1>5. PICK k \in Int : z = q + k * m
  BY <1>4 DEF Congruent
<1>6. y = u + (k * a) * m /\ y \in Nat
  <2> HIDE DEF m
  <2>1. (q + k * m) * a = a * q + (k * a) * m
    BY <1>1, <1>2
  <2> DEFINE x == a * q  t == (k * a) * m  za == z * a
  <2>2. x \in Int /\ t \in Int /\ za = x + t /\ za \in Nat /\ y = za + s /\ u = x + s
    BY <1>1, <1>2, <1>5, <2>1
  <2> HIDE DEF x, t, za, y
  <2>3. y = u + t /\ y \in Nat
    BY <1>1, <2>2
  <2> QED BY <2>3 DEF t
<1>7. Congruent(y, u, m)
  <2>1. k * a \in Int
    OBVIOUS
  <2> HIDE DEF m, y
  <2> QED BY <1>6, <2>1 DEF Congruent
<1> DEFINE w == y % n
<1> HIDE DEF y
<1>8. w \in Nat /\ Congruent(w, y, n)
  <2> HIDE DEF n
  <2>1. w \in 0..(n - 1) /\ Congruent(w, y, n)
    BY <1>3, <1>6, ModCongruent
  <2> QED BY <1>3, <2>1
<1> HIDE DEF w
<1>9. Congruent(w, y, m)
  <2>1. PICK l \in Int : w = y + l * n
    BY <1>8 DEF Congruent
  <2> HIDE DEF m
  <2>2. l * n = (l * m) * m /\ l * m \in Int
    BY <1>2
  <2> QED BY <2>1, <2>2 DEF Congruent
<1>10. w % m = u % m
  <2> HIDE DEF m
  <2>1. w \in Int /\ y \in Int /\ u \in Int /\ m \in Int
    BY <1>2, <1>6, <1>8
  <2>2. Congruent(w, u, m)
    BY <1>7, <1>9, <2>1, CongruentTrans
  <2> QED BY <1>2, <2>1, <2>2, ModEqual
<1> QED BY <1>8, <1>10 DEF w, y, s, m, n

\* The bytes of a number, and its halves.
LEMMA BytePlaces ==
  ASSUME NEW j \in 0..(Len + 1)
  PROVE  /\ ByteBits * j \in 0..Top /\ ByteBits * j \in Nat
         /\ 2^(ByteBits * j) \in Nat /\ 2^(ByteBits * j) > 0
         /\ 2^ByteBits \in Nat /\ 2^ByteBits > 0 /\ 2^Half \in Nat /\ 2^Half > 0
         /\ j <= Len => 2^(ByteBits * (j + 1)) = 2^(ByteBits * j) * 2^ByteBits
<1>1. /\ ByteBits \in Nat /\ Len \in Nat /\ Half = ByteBits * Len /\ Half \in Nat /\ Top \in Nat
      /\ Top = 2 * Half + 2 * ByteBits /\ PowersUpTo(Top)
  BY Sizes
<1> DEFINE n == ByteBits * j
<1>2. n \in Nat /\ n <= ByteBits * (Len + 1) /\ ByteBits * (Len + 1) = Half + ByteBits
  BY <1>1
<1>3. n \in 0..Top /\ ByteBits \in 0..Top /\ Half \in 0..Top
  <2> HIDE DEF n
  <2> QED BY <1>1, <1>2
<1>4. 2^n \in Nat /\ 2^n > 0 /\ 2^ByteBits \in Nat /\ 2^ByteBits > 0 /\ 2^Half \in Nat /\ 2^Half > 0
  BY <1>1, <1>3, Power
<1>5. ASSUME j <= Len PROVE 2^(ByteBits * (j + 1)) = 2^n * 2^ByteBits
  <2>1. ByteBits * (j + 1) = n + ByteBits
    BY <1>1
  <2>2. n + ByteBits <= Top
    <3>1. n <= Half
      BY <1>1, <1>5
    <3> HIDE DEF n
    <3> QED BY <1>1, <1>2, <3>1
  <2>3. 2^(n + ByteBits) = 2^n * 2^ByteBits
    BY <1>1, <1>2, <2>2, PowerSum
  <2> QED BY <2>1, <2>3
<1> QED BY <1>2, <1>3, <1>4, <1>5

LEMMA ByteOfHalf ==
  ASSUME NEW x \in Nat, NEW j \in 0..(Len - 1)
  PROVE  x % 2^Half \in Nat /\ Byte(x % 2^Half, j) = Byte(x, j)
<1> DEFINE n == ByteBits * j  m == 2^Half  y == x % m  f == 2^n  g == 2^ByteBits
           h == 2^(Half - n - ByteBits)
<1>1. /\ ByteBits \in Nat /\ Len \in Nat /\ Half = ByteBits * Len /\ Half \in Nat /\ Top \in Nat
      /\ Top = 2 * Half + 2 * ByteBits /\ PowersUpTo(Top)
  BY Sizes
<1>2. f \in Nat /\ f > 0 /\ g \in Nat /\ g > 0 /\ m \in Nat /\ m > 0 /\ n \in Nat
  <2>1. j \in 0..(Len + 1)
    BY <1>1
  <2> QED BY <2>1, BytePlaces
<1>3. n + ByteBits <= Half
  <2>1. ByteBits * j <= ByteBits * (Len - 1) /\ ByteBits * (Len - 1) = ByteBits * Len - ByteBits
    BY <1>1
  <2> QED BY <1>1, <1>2, <2>1
<1>4. m = f * (g * h) /\ h \in Nat /\ h > 0
  <2> DEFINE k == Half - n - ByteBits
  <2>1. /\ k \in Nat /\ n + (ByteBits + k) = Half /\ ByteBits + k \in Nat /\ k \in 0..Top
        /\ ByteBits + k <= Top /\ n + (ByteBits + k) <= Top /\ n \in Nat
    <3> HIDE DEF n
    <3> QED BY <1>1, <1>2, <1>3
  <2> HIDE DEF k, n
  <2>2. 2^(n + (ByteBits + k)) = 2^n * 2^(ByteBits + k)
    BY <1>1, <2>1, PowerSum
  <2>3. 2^(ByteBits + k) = 2^ByteBits * 2^k
    BY <1>1, <2>1, PowerSum
  <2>4. 2^k \in Nat /\ 2^k > 0
    BY <1>1, <2>1, Power
  <2> QED BY <2>1, <2>2, <2>3, <2>4 DEF k
<1>5. y \in Nat /\ y % m = x % m
  <2> HIDE DEF m
  <2>1. y \in 0..(m - 1)
    BY <1>2
  <2>2. y % m = y
    BY <1>2, <2>1
  <2> QED BY <2>1, <2>2
<1>6. SameLow(y, x, f, g, h)
  BY <1>2, <1>4, <1>5 DEF SameLow
<1>7. Field(y, f, g) = Field(x, f, g)
  BY <1>6, SameField
<1> QED BY <1>5, <1>7 DEF Field, Byte

\* z agrees with the bytes of y from byte j up, in its two low bytes.
AccRight(z, y, j) ==
    /\ z \in Nat
    /\ z % (2^ByteBits * 2^ByteBits) =
          (y \div 2^(ByteBits * j)) % (2^ByteBits * 2^ByteBits)

LEMMA AccNext ==
  ASSUME NEW y \in Nat, NEW j \in 1..Len, NEW z, AccRight(z, y, j)
  PROVE  AccRight((z * 2^ByteBits + Byte(y, j - 1)) % 2^(4 * ByteBits), y, j - 1)
<1> DEFINE a == 2^ByteBits  f == 2^(ByteBits * (j - 1))  u == y \div f  b == Byte(y, j - 1)
           m == 2^(4 * ByteBits)
<1>1. j - 1 \in 0..(Len + 1) /\ j - 1 <= Len /\ (j - 1) + 1 = j
  BY Sizes
<1>2. a \in Nat /\ a > 0 /\ f \in Nat /\ f > 0 /\ 2^(ByteBits * j) = f * a
  BY <1>1, BytePlaces
<1>3. m = a * a * (a * a)
  <2>1. /\ ByteBits \in Nat /\ Top \in Nat /\ PowersUpTo(Top) /\ Top = 2 * Half + 2 * ByteBits
        /\ Half >= ByteBits /\ Half \in Nat
    BY Sizes
  <2>2. /\ ByteBits + ByteBits \in Nat /\ ByteBits + ByteBits <= Top
        /\ (ByteBits + ByteBits) + (ByteBits + ByteBits) <= Top
        /\ (ByteBits + ByteBits) + (ByteBits + ByteBits) = 4 * ByteBits
    BY <2>1
  <2>3. 2^(ByteBits + ByteBits) = a * a
    BY <2>1, <2>2, PowerSum
  <2>4. 2^((ByteBits + ByteBits) + (ByteBits + ByteBits)) =
           2^(ByteBits + ByteBits) * 2^(ByteBits + ByteBits)
    BY <2>1, <2>2, PowerSum
  <2> QED BY <2>2, <2>3, <2>4
<1>4. u \in Nat /\ b = u % a /\ y \div 2^(ByteBits * j) = u \div a
  <2>1. b = u % a
    BY DEF Byte
  <2> HIDE DEF f, a, b
  <2>2. u \in Nat
    BY <1>2
  <2>3. (y \div f) \div a = y \div (f * a)
    BY <1>2, DivisionTwice
  <2> QED BY <1>2, <2>1, <2>2, <2>3
<1>5. z \in Nat /\ z % (a * a) = (u \div a) % (a * a)
  BY <1>4 DEF AccRight
<1> HIDE DEF a, u, b, m
<1>6. /\ (z * a + (u % a)) % (a * a * (a * a)) \in Nat
      /\ ((z * a + (u % a)) % (a * a * (a * a))) % (a * a) = u % (a * a)
  BY <1>2, <1>4, <1>5, ShiftByte
<1>7. (z * a + b) % m \in Nat /\ ((z * a + b) % m) % (a * a) = u % (a * a)
  BY <1>3, <1>4, <1>6
<1> QED BY <1>7 DEF AccRight, a, u, b, m, f

LEMMA DigitBits ==
  ASSUME NEW y \in Nat, NEW p \in 0..(Half - 1), NEW w \in 2..ByteBits,
         NEW z, AccRight(z, y, p \div ByteBits)
  PROVE  OddDigit(z, p % ByteBits, w) = OddDigit(y, p, w)
<1> DEFINE j == p \div ByteBits  s == p % ByteBits  n == ByteBits * j
           a == 2^ByteBits  f == 2^s  g == 2^w  t == y \div 2^n
<1>1. /\ ByteBits \in Nat /\ ByteBits > 0 /\ Len \in Nat /\ Half = ByteBits * Len /\ Half \in Nat
      /\ Top \in Nat /\ Top = 2 * Half + 2 * ByteBits /\ PowersUpTo(Top)
  BY Sizes
<1>2. j \in Int /\ s \in 0..(ByteBits - 1) /\ s \in Nat /\ p = n + s
  BY <1>1, Division
<1> HIDE DEF j, s
<1>3. j \in 0..(Len + 1)
  <2>1. j >= 0
    <3> SUFFICES ASSUME j <= -1 PROVE FALSE
      BY <1>2
    <3>1. ByteBits * j <= ByteBits * (-1)
      BY <1>1, <1>2
    <3> QED BY <1>1, <1>2, <3>1
  <2>2. j <= Len
    <3> SUFFICES ASSUME j >= Len + 1 PROVE FALSE
      BY <1>1, <1>2
    <3>1. ByteBits * j >= ByteBits * (Len + 1) /\ ByteBits * (Len + 1) = Half + ByteBits
      BY <1>1, <1>2
    <3>2. n \in Int /\ n >= Half + ByteBits
      BY <1>1, <1>2, <3>1
    <3> HIDE DEF n
    <3> QED BY <1>1, <1>2, <3>2
  <2> QED BY <1>1, <1>2, <2>1, <2>2
<1>4. 2^n \in Nat /\ 2^n > 0 /\ a \in Nat /\ a > 0 /\ n \in Nat
  BY <1>3, BytePlaces
<1>5. t \in Nat
  <2> DEFINE q == 2^n
  <2>1. q \in Nat /\ q > 0
    BY <1>4
  <2> HIDE DEF q
  <2>2. y \div q \in Nat
    BY <2>1
  <2> QED BY <2>2 DEF q
<1> HIDE DEF n
<1>6. f \in Nat /\ f > 0 /\ g \in Nat /\ g > 0 /\ 2^(n + s) = 2^n * f
  <2>1. s \in 0..Top /\ w \in 0..Top /\ n + s <= Top
    BY <1>1, <1>2
  <2>2. 2^s \in Nat /\ 2^s > 0 /\ 2^w \in Nat /\ 2^w > 0
    BY <1>1, <2>1, Power
  <2>3. 2^(n + s) = 2^n * 2^s
    BY <1>1, <1>2, <1>4, <2>1, PowerSum
  <2> QED BY <2>2, <2>3
<1> DEFINE k == 2 * ByteBits - s - w  h == 2^k
<1>7. a * a = f * (g * h) /\ h \in Nat /\ h > 0
  <2>1. /\ k \in Nat /\ s + (w + k) = ByteBits + ByteBits /\ w + k \in Nat /\ k \in 0..Top
        /\ w + k <= Top /\ s + (w + k) <= Top /\ w \in Nat
    BY <1>1, <1>2
  <2> HIDE DEF k
  <2>2. 2^(s + (w + k)) = 2^s * 2^(w + k)
    BY <1>1, <1>2, <2>1, PowerSum
  <2>3. 2^(w + k) = 2^w * 2^k
    BY <1>1, <2>1, PowerSum
  <2>4. 2^k \in Nat /\ 2^k > 0
    BY <1>1, <2>1, Power
  <2>5. 2^(ByteBits + ByteBits) = a * a
    BY <1>1, <2>1, PowerSum
  <2> QED BY <2>1, <2>2, <2>3, <2>4, <2>5
<1>8. SameLow(z, t, f, g, h)
  <2>1. z \in Nat /\ z % (a * a) = t % (a * a)
    BY DEF AccRight, j, n
  <2> HIDE DEF t, f, g, h, a
  <2> QED BY <1>5, <1>6, <1>7, <2>1 DEF SameLow
<1>9. Field(z, f, g) = Field(t, f, g)
  BY <1>8, SameField
<1>10. t \div f = y \div 2^p
  <2> DEFINE q == 2^n
  <2> HIDE DEF q, f
  <2>1. q \in Nat /\ q > 0 /\ f \in Nat /\ f > 0
    BY <1>4, <1>6 DEF q
  <2>2. (y \div q) \div f = y \div (q * f)
    BY <2>1, DivisionTwice
  <2>3. 2^p = q * f
    BY <1>2, <1>6 DEF q, f
  <2> QED BY <2>2, <2>3 DEF q
<1> QED BY <1>9, <1>10 DEF Field, OddDigit, s, f, g

\* The digits of the upper half.
LEMMA OddDigitAbove ==
  ASSUME NEW x \in Nat, NEW p \in 0..(Half - 1), NEW w
  PROVE  OddDigit(x \div 2^Half, p, w) = OddDigit(x, p + Half, w)
<1> DEFINE a == 2^Half  f == 2^p
<1>1. /\ Half \in Nat /\ Top \in Nat /\ Top = 2 * Half + 2 * ByteBits /\ PowersUpTo(Top)
      /\ ByteBits \in Nat
  BY Sizes
<1>2. p \in 0..Top /\ Half \in 0..Top /\ p \in Nat /\ Half + p <= Top /\ Half + p = p + Half
  BY <1>1
<1>3. a \in Nat /\ a > 0 /\ f \in Nat /\ f > 0
  BY <1>1, <1>2, Power
<1>4. 2^(Half + p) = a * f
  BY <1>1, <1>2, PowerSum
<1>5. (x \div a) \div f = x \div (a * f)
  <2> HIDE DEF a, f
  <2> QED BY <1>3, DivisionTwice
<1>6. (x \div 2^Half) \div 2^p = x \div 2^(p + Half)
  BY <1>2, <1>4, <1>5
<1> QED BY <1>6 DEF OddDigit

-----------------------------------------------------------------------------
(***************************************************************************)
(* The four lanes: each shows Half positions of the recoding of a          *)
(* multiplier, from position Above on.                                     *)
(***************************************************************************)
Whole(k) == IF k \in {0, 1} THEN Lane(k) ELSE mult[3]
BytesOf(k) == IF k \in {0, 1} THEN Len ELSE 2 * Len
Above(k) == IF k = 3 THEN Half ELSE 0

\* the digit of lane k at p, and what is found below p
TrueDigit(k, p) == DigitFoundAt(Whole(k), BytesOf(k), Width(k), p + Above(k))
FoundIn(k, p) == Found(Whole(k), BytesOf(k), Width(k), p + Above(k))

\* what the accumulator of lane k slides along
LaneBits(k) == IF k = 3 THEN Lane(3) ELSE Whole(k)

ArgsOK ==
    /\ build \in {"ref", "avx2"} /\ q1 \in Points /\ q2 \in Points
    /\ s1 \in Nat /\ s2 \in Nat

MultOK ==
    /\ mult[1] \in 0..(2^(Half - 1) - 1) /\ mult[2] \in 0..(2^(Half - 1) - 1)
    /\ mult[3] \in 0..(N - 1)
    /\ neg0 \in BOOLEAN /\ neg1 \in BOOLEAN

LEMMA HalfPowers ==
  /\ 2^Half = 2 * 2^(Half - 1) /\ 2^(Half - 1) \in Nat /\ 2^Half \in Nat /\ 2^Half > 0
  /\ N \in Nat /\ N > 2 /\ 2 * N < 2^(2 * Half) /\ 2^(Half - 1) <= N
<1>1. /\ Half \in Nat /\ Half >= 3 /\ Top \in Nat /\ Top = 2 * Half + 2 * ByteBits
      /\ ByteBits \in Nat /\ PowersUpTo(Top)
  BY Sizes
<1>2. Half - 1 \in Nat /\ (Half - 1) + 1 = Half /\ Half <= Top /\ Half \in 0..Top
  BY <1>1
<1>3. 2^Half = 2 * 2^(Half - 1) /\ 2^(Half - 1) \in Nat /\ 2^Half \in Nat /\ 2^Half > 0
  <2>1. 2^(Half - 1 + 1) = 2 * 2^(Half - 1) /\ 2^(Half - 1) \in Nat
    BY <1>1, <1>2, PowerNext
  <2>2. 2^Half \in Nat /\ 2^Half > 0
    BY <1>1, <1>2, Power
  <2> QED BY <1>2, <2>1, <2>2
<1>4. N \in Nat /\ N > 2 /\ 2^(Half - 1) <= N /\ N <= 2^(2 * Half - 4)
  BY GroupAssumption, VerifyAssumption
<1> DEFINE k == 2 * Half - 4  f == 2^k  g == 2^(k + 1)  m == 2^(k + 2)  n == 2^(2 * Half)
<1>5. /\ k \in Nat /\ k + 1 \in Nat /\ k + 2 \in Nat /\ k + 1 <= Top /\ (k + 1) + 1 <= Top
      /\ (k + 1) + 1 = k + 2 /\ 2 * Half \in Nat /\ k + 2 <= 2 * Half /\ 2 * Half <= Top
  BY <1>1
<1>6. g = 2 * f /\ f \in Nat /\ f > 0 /\ m = 2 * g /\ m <= n /\ n \in Int
  <2>1. 2^(k + 1) = 2 * 2^k /\ 2^k \in Nat /\ 2^k > 0
    BY <1>1, <1>5, PowerNext
  <2>2. 2^((k + 1) + 1) = 2 * 2^(k + 1)
    BY <1>1, <1>5, PowerNext
  <2>3. 2^(k + 2) <= 2^(2 * Half)
    BY <1>1, <1>5, PowerGrows
  <2>4. 2 * Half \in 0..Top
    BY <1>5
  <2>5. 2^(2 * Half) \in Nat
    BY <1>1, <2>4, Power
  <2> QED BY <1>5, <2>1, <2>2, <2>3, <2>5
<1>7. N <= f
  BY <1>4
<1> HIDE DEF f, g, m, n
<1>8. 2 * N < n
  BY <1>4, <1>6, <1>7
<1> QED BY <1>3, <1>4, <1>8 DEF n

LEMMA LaneOK ==
  ASSUME MultOK, NEW k \in Lanes
  PROVE  /\ Multiplier(Whole(k), BytesOf(k), Width(k)) /\ Width(k) \in 2..ByteBits
         /\ Above(k) \in Nat /\ Half + Above(k) <= ByteBits * BytesOf(k)
         /\ ByteBits * BytesOf(k) \in Nat /\ ByteBits * BytesOf(k) <= 2 * Half
<1>1. /\ ByteBits \in Nat /\ Len \in Nat \ {0} /\ 2 * Len \in Nat \ {0} /\ Half \in Nat
      /\ Half = ByteBits * Len /\ 2 * Half = ByteBits * (2 * Len)
      /\ W \in 2..ByteBits /\ WG \in 2..ByteBits
      /\ PowersUpTo(Half + ByteBits) /\ PowersUpTo(2 * Half + ByteBits)
  BY Sizes
<1>2. /\ 2^Half = 2 * 2^(Half - 1) /\ 2^(Half - 1) \in Nat /\ N \in Nat /\ 2 * N < 2^(2 * Half)
      /\ 2^Half \in Nat
  BY HalfPowers
<1>3. CASE k \in {0, 1}
  <2>1. Whole(k) \in {mult[1], mult[2]} /\ BytesOf(k) = Len /\ Width(k) = W /\ Above(k) = 0
    BY <1>3 DEF Whole, Lane, BytesOf, Width, Above
  <2> DEFINE x == Whole(k)  h == 2^(Half - 1)
  <2>2. x \in 0..(h - 1)
    BY <2>1 DEF MultOK
  <2> HIDE DEF x, h
  <2>3. x \in Nat /\ 2 * x < 2 * h
    BY <1>2, <2>2 DEF h
  <2>4. x \in Nat /\ 2 * x < 2^Half
    BY <1>2, <2>3 DEF h
  <2> QED BY <1>1, <2>1, <2>4 DEF Multiplier, x
<1>4. CASE k \notin {0, 1}
  <2>1. Whole(k) = mult[3] /\ BytesOf(k) = 2 * Len /\ Width(k) = WG /\ Above(k) \in {0, Half}
    BY <1>4 DEF Whole, BytesOf, Width, Above
  <2> DEFINE x == Whole(k)  n == 2^(2 * Half)
  <2>2. x \in 0..(N - 1)
    BY <2>1 DEF MultOK
  <2>3. 2 * N < n
    BY <1>2
  <2> HIDE DEF x, n
  <2>4. x \in Nat /\ 2 * x < 2 * N
    BY <1>2, <2>2
  <2>5. x \in Nat /\ 2 * x < 2^(2 * Half)
    <3>1. n \in Int
      <4>1. 2 * Half \in 0..(2 * Half + ByteBits) /\ 2 * Half + ByteBits \in Nat
        BY <1>1
      <4> QED BY <1>1, <4>1, Power DEF n
    <3>2. 2 * x < n
      BY <1>2, <2>3, <2>4, <3>1
    <3> QED BY <2>4, <3>2 DEF n
  <2> QED BY <1>1, <2>1, <2>5 DEF Multiplier, x
<1> QED BY <1>3, <1>4

DigitsOK ==
    \A k \in Lanes : \A p \in 0..(Half - 1) :
        /\ build = "avx2" => rc[k][p] = TrueDigit(k, p)
        /\ build = "ref" => (p \in rcbf[k] <=> TrueDigit(k, p) # 0)

AccOK ==
    build = "ref" /\ i >= 0 =>
        \A k \in Lanes : AccRight(acc[k], LaneBits(k), i \div ByteBits)

LEMMA LaneBitsTypes ==
  ASSUME MultOK, NEW k \in Lanes
  PROVE  LaneBits(k) \in Nat /\ Whole(k) \in Nat
<1>1. Whole(k) \in Nat
  BY LaneOK, Exponent
<1>2. k = 3 => LaneBits(k) = mult[3] \div 2^Half
  BY DEF LaneBits, Lane
<1>3. k # 3 => LaneBits(k) = Whole(k)
  BY DEF LaneBits
<1>4. mult[3] \in Nat
  BY HalfPowers DEF MultOK
<1> DEFINE m == 2^Half  x == mult[3]
<1>5. m \in Nat /\ m > 0
  BY HalfPowers
<1> HIDE DEF m, x
<1>6. x \in Nat
  BY <1>4 DEF x
<1>7. x \div m \in Nat
  BY <1>5, <1>6
<1> QED BY <1>1, <1>2, <1>3, <1>7 DEF m, x

\* The digits that the loop forms are those of the recoding.
LEMMA DigitIsTrue ==
  ASSUME ArgsOK, MultOK, DigitsOK, AccOK, i \in 0..(Half - 1), NEW k \in Lanes
  PROVE  Digit(k) = TrueDigit(k, i)
<1>1. build = "avx2" \/ build = "ref"
  BY DEF ArgsOK
<1>2. CASE build = "avx2"
  BY <1>2 DEF DigitsOK, Digit
<1>3. CASE build = "ref"
  <2>1. i \in rcbf[k] <=> TrueDigit(k, i) # 0
    BY <1>3 DEF DigitsOK
  <2>2. CASE TrueDigit(k, i) = 0
    BY <1>3, <2>1, <2>2 DEF Digit
  <2>3. CASE TrueDigit(k, i) # 0
    <3> DEFINE x == Whole(k)  len == BytesOf(k)  w == Width(k)  p == i + Above(k)
    <3>1. /\ Multiplier(x, len, w) /\ w \in 2..ByteBits /\ Above(k) \in Nat
          /\ Half + Above(k) <= ByteBits * len /\ ByteBits * len \in Nat
      BY LaneOK
    <3>2. p \in 0..(ByteBits * len - 1)
      <4> HIDE DEF len
      <4> QED BY <3>1, Sizes
    <3>3. DigitOK(x, len, w, p)
      BY <3>1, <3>2, DigitIs
    <3>4. TrueDigit(k, i) = Signed(OddDigit(x, p, w), w)
      BY <2>3, <3>3 DEF DigitOK, TrueDigit
    <3>5. OddDigit(acc[k], i % ByteBits, w) = OddDigit(LaneBits(k), i, w)
      <4>1. AccRight(acc[k], LaneBits(k), i \div ByteBits)
        BY <1>3, Sizes DEF AccOK
      <4> QED BY <3>1, <4>1, LaneBitsTypes, DigitBits
    <3>6. OddDigit(LaneBits(k), i, w) = OddDigit(x, p, w)
      <4>1. CASE k = 3
        <5>1. LaneBits(k) = mult[3] \div 2^Half /\ x = mult[3] /\ p = i + Half
          BY <4>1 DEF LaneBits, Lane, Whole, Above
        <5>2. mult[3] \in Nat
          BY HalfPowers DEF MultOK
        <5>3. OddDigit(mult[3] \div 2^Half, i, w) = OddDigit(mult[3], i + Half, w)
          BY <5>2, OddDigitAbove
        <5> QED BY <5>1, <5>3
      <4>2. CASE k # 3
        <5>1. LaneBits(k) = x /\ p = i + 0 /\ i + 0 = i
          BY <4>2 DEF LaneBits, Above
        <5> QED BY <5>1
      <4> QED BY <4>1, <4>2
    <3>7. i \in rcbf[k]
      BY <2>1, <2>3
    <3>8. Digit(k) = Signed(OddDigit(acc[k], i % ByteBits, w), w)
      BY <1>3, <3>7 DEF Digit
    <3> QED BY <3>4, <3>5, <3>6, <3>8
  <2> QED BY <2>2, <2>3
<1> QED BY <1>1, <1>2, <1>3

\* What preparation stores.
LEMMA DigitsPrepared ==
  ASSUME MultOK, NEW k \in Lanes, NEW p \in 0..(Half - 1)
  PROVE  /\ DigitsOfLane(k)[p] = TrueDigit(k, p)
         /\ p \in Positions(k) <=> TrueDigit(k, p) # 0
<1> DEFINE x == Whole(k)  len == BytesOf(k)  w == Width(k)  n == p + Above(k)
<1>1. /\ Multiplier(x, len, w) /\ Above(k) \in Nat
      /\ Half + Above(k) <= ByteBits * len /\ ByteBits * len \in Nat
  BY LaneOK
<1>2. n \in 0..(ByteBits * len - 1) /\ Half \in Nat /\ p \in Nat /\ n \in Nat
  <2> HIDE DEF len
  <2> QED BY <1>1, Sizes
<1>3. NafDigits(x, len, w)[n] = TrueDigit(k, p)
  <2> HIDE DEF x, len, w
  <2>1. NafDigits(x, len, w)[n] = EmittedDigit(NafLoop(x, len, w)[n], x, len, w)
    BY <1>2 DEF NafDigits
  <2> QED BY <2>1 DEF TrueDigit, DigitFoundAt, StateAt, x, len, w
<1>4. n \in NafPositions(x, len, w) <=> TrueDigit(k, p) # 0
  <2>1. NafPositions(x, len, w) = {j \in 0..(ByteBits * len - 1) : DigitFoundAt(x, len, w, j) # 0}
    BY <1>1, PositionsAre
  <2>2. TrueDigit(k, p) = DigitFoundAt(x, len, w, n)
    BY DEF TrueDigit
  <2> HIDE DEF x, len, w, n
  <2> QED BY <1>2, <2>1, <2>2
<1>5. CASE k \in {0, 1}
  <2>1. x = Lane(k) /\ len = Len /\ w = W /\ n = p
    <3>1. Above(k) = 0 /\ p + 0 = p
      BY <1>2, <1>5 DEF Above
    <3> QED BY <1>5, <3>1 DEF Whole, BytesOf, Width
  <2>2. DigitsOfLane(k) = NafDigits(x, len, w) /\ Positions(k) = NafPositions(x, len, w)
    BY <1>5, <2>1 DEF DigitsOfLane, Positions
  <2> QED BY <1>3, <1>4, <2>1, <2>2
<1>6. CASE k = 2
  <2>1. x = mult[3] /\ len = 2 * Len /\ w = WG /\ n = p
    <3>1. Above(k) = 0 /\ p + 0 = p
      BY <1>2, <1>6 DEF Above
    <3> QED BY <1>6, <3>1 DEF Whole, BytesOf, Width
  <2>2. DigitsOfLane(k) = [j \in 0..(Half - 1) |-> NafDigits(x, len, w)[j]]
    BY <1>6, <2>1 DEF DigitsOfLane
  <2>3. Positions(k) = NafPositions(x, len, w) \cap 0..(Half - 1)
    BY <1>6, <2>1 DEF Positions
  <2> HIDE DEF x, len, w, n
  <2> QED BY <1>3, <1>4, <2>1, <2>2, <2>3
<1>7. CASE k = 3
  <2>1. x = mult[3] /\ len = 2 * Len /\ w = WG /\ n = p + Half
    BY <1>7 DEF Whole, BytesOf, Width, Above
  <2>2. DigitsOfLane(k) = [j \in 0..(Half - 1) |-> NafDigits(x, len, w)[j + Half]]
    BY <1>7, <2>1 DEF DigitsOfLane
  <2>3. Positions(k) = { j - Half : j \in NafPositions(x, len, w) \ 0..(Half - 1) }
    BY <1>7, <2>1 DEF Positions
  <2>4. \A j \in NafPositions(x, len, w) : j \in Int
    <3>1. NafPositions(x, len, w) = {j \in 0..(ByteBits * len - 1) : DigitFoundAt(x, len, w, j) # 0}
      BY <1>1, PositionsAre
    <3> HIDE DEF x, len, w
    <3> QED BY <3>1
  <2> DEFINE ones == NafPositions(x, len, w)
  <2> HIDE DEF x, len, w, n, ones
  <2>5. p \in Positions(k) <=> n \in ones
    <3>1. p \in Positions(k) <=> \E j \in ones : j \notin 0..(Half - 1) /\ p = j - Half
      BY <2>3 DEF ones
    <3>2. \A j \in ones : p = j - Half => j = n
      BY <1>2, <2>1, <2>4 DEF ones
    <3>3. n \notin 0..(Half - 1) /\ p = n - Half
      BY <1>2, <2>1
    <3> QED BY <3>1, <3>2, <3>3
  <2> QED BY <1>3, <1>4, <2>1, <2>2, <2>5 DEF ones
<1>8. k \in {0, 1} \/ k = 2 \/ k = 3
  BY DEF Lanes
<1> QED BY <1>5, <1>6, <1>7, <1>8

LEMMA TopByte == (Half - 1) \div ByteBits = Len - 1
<1>1. ByteBits \in Nat /\ ByteBits > 0 /\ Len \in Nat /\ Half = ByteBits * Len /\ Half \in Nat
  BY Sizes
<1>2. Half - 1 = ByteBits * (Len - 1) + (ByteBits - 1)
  BY <1>1
<1>3. Half - 1 \in Int /\ Len - 1 \in Int /\ ByteBits - 1 \in 0..(ByteBits - 1)
  BY <1>1
<1> QED BY <1>1, <1>2, <1>3, DivisionUnique

LEMMA AccPrepared ==
  ASSUME MultOK, NEW k \in Lanes
  PROVE  AccRight(FirstBytes(k), LaneBits(k), (Half - 1) \div ByteBits)
<1> DEFINE y == LaneBits(k)  a == 2^ByteBits  f == 2^(ByteBits * (Len - 1))  u == y \div f
<1>1. /\ a \in Nat /\ a > 0 /\ f \in Nat /\ f > 0 /\ 2^Half = f * a /\ 2^Half \in Nat /\ 2^Half > 0
      /\ Len - 1 \in 0..(Len + 1)
  <2>1. Len - 1 \in 0..(Len + 1) /\ Len - 1 <= Len /\ (Len - 1) + 1 = Len /\ Half = ByteBits * Len
    BY Sizes
  <2> QED BY <2>1, BytePlaces
<1>2. y \in Nat
  BY LaneBitsTypes
<1>3. u \in Nat /\ Byte(y, Len - 1) = u % a
  <2>1. Byte(y, Len - 1) = u % a
    BY DEF Byte
  <2> HIDE DEF y, f
  <2> QED BY <1>1, <1>2, <2>1
<1> SUFFICES FirstBytes(k) \in Nat /\ FirstBytes(k) % (a * a) = u % (a * a)
  BY TopByte DEF AccRight
<1>4. CASE k = 2
  <2>1. y = mult[3]
    BY <1>4 DEF LaneBits, Whole
  <2>2. Byte(y, Len) = (u \div a) % a
    <3>1. Byte(y, Len) = (y \div (f * a)) % a
      BY <1>1, Sizes DEF Byte
    <3> HIDE DEF y, f, a
    <3>2. (y \div f) \div a = y \div (f * a)
      BY <1>1, <1>2, DivisionTwice
    <3> QED BY <3>1, <3>2
  <2>3. FirstBytes(k) = (u % a) + ((u \div a) % a) * a
    BY <1>3, <1>4, <2>1, <2>2 DEF FirstBytes
  <2> HIDE DEF u, a
  <2> QED BY <1>1, <1>3, <2>3, TwoBytes
<1>5. CASE k # 2
  <2>1. y = Lane(k)
    BY <1>5 DEF LaneBits, Whole, Lanes
  <2>2. FirstBytes(k) = u % a
    BY <1>3, <1>5, <2>1 DEF FirstBytes
  <2>3. y < 2^Half
    <3>1. CASE k \in {0, 1}
      <4> DEFINE h == 2^(Half - 1)  x == y
      <4>1. y \in {mult[1], mult[2]}
        BY <2>1, <3>1 DEF Lane
      <4>2. x \in 0..(h - 1) /\ h \in Nat /\ 2^Half = 2 * h
        BY <4>1, HalfPowers DEF MultOK
      <4> HIDE DEF h, x
      <4>3. x < 2 * h
        BY <4>2
      <4> QED BY <4>2, <4>3 DEF x
    <3>2. CASE k = 3
      <4> DEFINE m == 2^Half  x == mult[3]  q == x \div m  t == x % m
      <4>1. m \in Nat /\ m > 0 /\ x \in Nat /\ y = q /\ 2 * N < 2^(2 * Half) /\ x < N /\ N \in Nat
        BY <2>1, <3>2, HalfPowers DEF MultOK, Lane
      <4>2. 2^(2 * Half) = m * m
        <5>1. /\ Half \in Nat /\ 2 * Half = Half + Half /\ Half + Half <= Top /\ Top \in Nat
              /\ PowersUpTo(Top)
          BY Sizes
        <5>2. 2^(Half + Half) = 2^Half * 2^Half
          BY <5>1, PowerSum
        <5> QED BY <5>1, <5>2
      <4> HIDE DEF m, x
      <4>3. x = m * q + t /\ q \in Int /\ t \in 0..(m - 1)
        BY <4>1, Division
      <4> HIDE DEF q, t
      <4>4. x < m * m
        <5> DEFINE mm == m * m
        <5>1. mm \in Nat /\ 2 * N < mm
          BY <4>1, <4>2
        <5> HIDE DEF mm
        <5>2. x < mm
          BY <4>1, <5>1
        <5> QED BY <5>2 DEF mm
      <4>5. q < m
        <5> SUFFICES ASSUME q >= m PROVE FALSE
          BY <4>1, <4>3
        <5>1. m * q >= m * m
          BY <4>1, <4>3
        <5> DEFINE mq == m * q  mm == m * m
        <5>2. mq \in Int /\ mm \in Int /\ mq >= mm /\ x = mq + t /\ x < mm
          BY <4>1, <4>3, <4>4, <5>1
        <5> HIDE DEF mq, mm
        <5> QED BY <4>3, <5>2
      <4> QED BY <4>1, <4>5 DEF m
    <3> QED BY <1>5, <3>1, <3>2 DEF Lanes
  <2>4. u < a
    <3> DEFINE t == y % f
    <3> HIDE DEF y, f
    <3>1. y = f * u + t /\ t \in 0..(f - 1)
      BY <1>1, <1>2, Division
    <3> HIDE DEF u, t, a
    <3> SUFFICES ASSUME u >= a PROVE FALSE
      BY <1>1, <1>3
    <3>2. f * u >= f * a
      BY <1>1, <1>3
    <3> DEFINE fu == f * u  fa == f * a
    <3>3. fu \in Int /\ fa \in Int /\ fu >= fa /\ y = fu + t /\ y < fa
      BY <1>1, <1>3, <2>3, <3>1, <3>2
    <3> HIDE DEF fu, fa
    <3> QED BY <3>1, <3>3
  <2> HIDE DEF u, a
  <2>5. u % a = u
    BY <1>1, <1>3, <2>4
  <2> QED BY <1>3, <2>2, <2>5
<1> QED BY <1>4, <1>5

\* A byte is shifted in below when the current one is used up.
LEMMA AccStep ==
  ASSUME MultOK, AccOK, build = "ref", i \in 1..(Half - 1), NEW k \in Lanes
  PROVE  AccRight(NextBytes(k), LaneBits(k), (i - 1) \div ByteBits)
<1> DEFINE j == i \div ByteBits  s == i % ByteBits  y == LaneBits(k)
<1>1. ByteBits \in Nat /\ ByteBits > 0 /\ Len \in Nat /\ Half = ByteBits * Len /\ Half \in Nat
  BY Sizes
<1>2. j \in Int /\ s \in 0..(ByteBits - 1) /\ i = ByteBits * j + s
  BY <1>1, Division
<1>3. AccRight(acc[k], y, j) /\ y \in Nat
  BY LaneBitsTypes DEF AccOK
<1> HIDE DEF j, s, y
<1>4. CASE s = 0
  <2>1. j \in 1..(Len - 1)
    <3>1. j >= 1
      <4> SUFFICES ASSUME j <= 0 PROVE FALSE
        BY <1>2
      <4>1. ByteBits * j <= ByteBits * 0
        BY <1>1, <1>2
      <4> QED BY <1>1, <1>2, <1>4, <4>1
    <3>2. j <= Len - 1
      <4> SUFFICES ASSUME j >= Len PROVE FALSE
        BY <1>1, <1>2
      <4>1. ByteBits * j >= ByteBits * Len
        BY <1>1, <1>2
      <4> QED BY <1>1, <1>2, <1>4, <4>1
    <3> QED BY <1>1, <1>2, <3>1, <3>2
  <2>2. (i - 1) \div ByteBits = j - 1
    <3>1. i - 1 = ByteBits * (j - 1) + (ByteBits - 1)
      BY <1>1, <1>2, <1>4
    <3>2. i - 1 \in Int /\ j - 1 \in Int /\ ByteBits - 1 \in 0..(ByteBits - 1)
      BY <1>1, <1>2
    <3> QED BY <1>1, <3>1, <3>2, DivisionUnique
  <2>3. NextBytes(k) = (acc[k] * 2^ByteBits + Byte(Lane(k), j - 1)) % 2^(4 * ByteBits)
    BY <1>4, <2>2 DEF NextBytes, s
  <2>4. Byte(Lane(k), j - 1) = Byte(y, j - 1)
    <3>1. CASE k = 2
      <4>1. y = mult[3] /\ Lane(k) = mult[3] % 2^Half /\ mult[3] \in Nat /\ j - 1 \in 0..(Len - 1)
        BY <1>1, <2>1, <3>1, HalfPowers DEF y, LaneBits, Whole, Lane, MultOK
      <4> QED BY <4>1, ByteOfHalf
    <3>2. CASE k # 2
      BY <3>2 DEF y, LaneBits, Whole, Lanes
    <3> QED BY <3>1, <3>2
  <2>5. j \in 1..Len
    BY <1>1, <2>1
  <2>6. AccRight((acc[k] * 2^ByteBits + Byte(y, j - 1)) % 2^(4 * ByteBits), y, j - 1)
    BY <1>3, <2>5, AccNext
  <2> QED BY <2>2, <2>3, <2>4, <2>6 DEF y
<1>5. CASE s # 0
  <2>1. (i - 1) \div ByteBits = j
    <3>1. i - 1 = ByteBits * j + (s - 1)
      BY <1>1, <1>2
    <3>2. i - 1 \in Int /\ s - 1 \in 0..(ByteBits - 1)
      BY <1>1, <1>2, <1>5
    <3> QED BY <1>1, <1>2, <3>1, <3>2, DivisionUnique
  <2>2. NextBytes(k) = acc[k]
    BY <1>5 DEF NextBytes, s
  <2> QED BY <1>3, <2>1, <2>2 DEF y
<1> QED BY <1>4, <1>5

-----------------------------------------------------------------------------
(***************************************************************************)
(* The group: the order is prime, and a point is known by its logarithm.   *)
(***************************************************************************)
LEMMA Order ==
  /\ N \in Nat /\ N > 2 /\ Coordinates = 1..(N - 1) /\ Junk \in Coordinates
  /\ IsPrime(N)
BY GroupAssumption DEF Coordinates, IsPrime

\* An integer that is no multiple of the order has a remainder that is a logarithm.
LEMMA Logarithm ==
  ASSUME NEW x \in Int, ~Congruent(x, 0, N)
  PROVE  (x % N) \in Coordinates /\ Congruent((x % N), x, N)
<1>1. N \in Nat /\ N > 0
  BY Order
<1> DEFINE rem == x % N
<1>2. rem \in 0..(N - 1) /\ Congruent(rem, x, N) /\ Congruent(x, rem, N)
  BY <1>1, ModCongruent
<1> HIDE DEF rem
<1>3. rem # 0
  BY <1>2
<1>4. rem \in Coordinates
  BY <1>1, <1>2, <1>3, Order
<1> QED BY <1>2, <1>4 DEF rem

LEMMA CoordinateTypes ==
  ASSUME NEW x \in Coordinates
  PROVE  x \in Int /\ x \in 0..(N - 1) /\ x > 0 /\ x < N /\ ~Congruent(x, 0, N)
<1>1. N \in Nat /\ N > 2 /\ x \in 1..(N - 1)
  BY Order
<1>2. x \in 0..(N - 1) /\ 0 \in 0..(N - 1) /\ x # 0 /\ N > 0 /\ x \in Int /\ x > 0 /\ x < N
  BY <1>1
<1>3. ~Congruent(x, 0, N)
  BY <1>1, <1>2, RemainderUnique
<1> QED BY <1>2, <1>3

\* P is the point k * G.
Is(P, k) == P \in Points /\ Congruent(Log(P), k, N)

LEMMA PointTypes ==
  ASSUME NEW P \in Points
  PROVE  /\ P.neutral \in BOOLEAN /\ P.at \in Coordinates /\ P.at \in Int
         /\ Log(P) \in 0..(N - 1) /\ Log(P) \in Int
         /\ P.neutral <=> Log(P) = 0
         /\ P.neutral => Log(P) = 0
         /\ ~P.neutral => Log(P) = P.at
<1>1. P.neutral \in BOOLEAN /\ P.at \in Coordinates
  BY DEF Points
<1>2. P.at \in Int /\ P.at \in 0..(N - 1) /\ P.at > 0
  BY <1>1, CoordinateTypes
<1> QED BY <1>1, <1>2, Order DEF Log

\* A point is infinity exactly when its multiple is a multiple of the order.
LEMMA IsNeutral ==
  ASSUME NEW P, NEW k \in Int, Is(P, k)
  PROVE  P.neutral <=> Congruent(k, 0, N)
<1>1. P \in Points /\ Congruent(Log(P), k, N)
  BY DEF Is
<1> DEFINE l == Log(P)
<1>2. l \in 0..(N - 1) /\ l \in Int /\ (P.neutral <=> l = 0) /\ P.neutral \in BOOLEAN
  BY <1>1, PointTypes
<1>3. N \in Nat /\ N > 0 /\ N \in Int /\ 0 \in Int /\ 0 \in 0..(N - 1)
  BY Order
<1>4. Congruent(l, k, N) /\ Congruent(k, l, N)
  BY <1>1, <1>2, <1>3, CongruentSym
<1> HIDE DEF l
<1>5. ASSUME P.neutral PROVE Congruent(k, 0, N)
  BY <1>2, <1>4, <1>5
<1>6. ASSUME Congruent(k, 0, N) PROVE P.neutral
  <2>1. Congruent(l, 0, N)
    BY <1>2, <1>3, <1>4, <1>6, CongruentTrans
  <2>2. l = 0
    BY <1>2, <1>3, <2>1, RemainderUnique
  <2> QED BY <1>2, <2>2
<1> QED BY <1>2, <1>5, <1>6

\* PointAdd is complete.
LEMMA AddIs ==
  ASSUME NEW P, NEW Q, NEW k \in Int, NEW l \in Int, Is(P, k), Is(Q, l)
  PROVE  Is(PointAdd(P, Q), k + l)
<1> DEFINE a == P.at  b == Q.at  sum == (a + b) % N
           none == \/ P.neutral /\ Q.neutral
                   \/ ~P.neutral /\ ~Q.neutral /\ sum = 0
           x == CASE none -> Junk
                  [] P.neutral /\ ~none -> b
                  [] Q.neutral /\ ~none -> a
                  [] ~(P.neutral \/ Q.neutral \/ none) -> sum
<1>1. PointAdd(P, Q) = [neutral |-> none, at |-> x]
  BY DEF PointAdd
<1>2. /\ P \in Points /\ Congruent(Log(P), k, N) /\ Q \in Points /\ Congruent(Log(Q), l, N)
      /\ N \in Nat /\ N > 2 /\ N \in Int /\ Junk \in Coordinates
  BY Order DEF Is
<1>3. /\ P.neutral \in BOOLEAN /\ a \in Coordinates /\ a \in Int
      /\ (P.neutral => Log(P) = 0) /\ (~P.neutral => Log(P) = a)
      /\ Q.neutral \in BOOLEAN /\ b \in Coordinates /\ b \in Int
      /\ (Q.neutral => Log(Q) = 0) /\ (~Q.neutral => Log(Q) = b)
      /\ Log(P) \in Int /\ Log(Q) \in Int
  BY <1>2, PointTypes
<1>4. Congruent(Log(P) + Log(Q), k + l, N)
  BY <1>2, <1>3, CongruentSum
<1>5. Congruent(sum, a + b, N) /\ sum \in 0..(N - 1) /\ sum \in Int /\ Congruent(0, 0, N)
  <2>1. a + b \in Int /\ N > 0
    BY <1>2, <1>3
  <2>2. Congruent(sum, a + b, N) /\ sum \in 0..(N - 1)
    BY <1>2, <2>1, ModCongruent
  <2> QED BY <1>2, <2>2, CongruentRefl
<1>6. sum # 0 => sum \in Coordinates
  BY <1>2, <1>5, Order
<1> HIDE DEF sum, a, b
<1> DEFINE lp == Log(P)  lq == Log(Q)
<1>7. lp \in Int /\ lq \in Int /\ Congruent(lp + lq, k + l, N)
      /\ (P.neutral => lp = 0) /\ (~P.neutral => lp = a)
      /\ (Q.neutral => lq = 0) /\ (~Q.neutral => lq = b)
  BY <1>3, <1>4
<1> HIDE DEF lp, lq
<1>8. /\ none \in BOOLEAN /\ x \in Coordinates
      /\ Congruent(IF none THEN 0 ELSE x, lp + lq, N)
  <2>1. CASE P.neutral /\ Q.neutral
    <3>1. none /\ x = Junk /\ lp + lq = 0
      BY <1>7, <2>1
    <3> QED BY <1>2, <1>5, <3>1
  <2>2. CASE P.neutral /\ ~Q.neutral
    <3>1. ~none /\ x = b /\ lp + lq = b
      BY <1>3, <1>7, <2>2
    <3> QED BY <1>2, <1>3, <3>1, CongruentRefl
  <2>3. CASE ~P.neutral /\ Q.neutral
    <3>1. ~none /\ x = a /\ lp + lq = a
      BY <1>3, <1>7, <2>3
    <3> QED BY <1>2, <1>3, <3>1, CongruentRefl
  <2>4. CASE ~P.neutral /\ ~Q.neutral /\ sum = 0
    <3>1. none /\ x = Junk /\ lp + lq = a + b
      BY <1>7, <2>4
    <3> QED BY <1>2, <1>5, <2>4, <3>1
  <2>5. CASE ~P.neutral /\ ~Q.neutral /\ sum # 0
    <3>1. ~none /\ x = sum /\ lp + lq = a + b
      BY <1>7, <2>5
    <3> QED BY <1>5, <1>6, <2>5, <3>1
  <2> QED BY <1>3, <2>1, <2>2, <2>3, <2>4, <2>5
<1> DEFINE S == [neutral |-> none, at |-> x]
<1>9. S \in Points /\ Log(S) = (IF none THEN 0 ELSE x)
  <2>1. none \in BOOLEAN /\ x \in Coordinates
    BY <1>8
  <2> HIDE DEF none, x
  <2> QED BY <2>1 DEF Points, Log
<1>10. Congruent(Log(S), k + l, N)
  <2> DEFINE y == Log(S)
  <2>1. y \in Int /\ Congruent(y, lp + lq, N)
    BY <1>8, <1>9, PointTypes
  <2>2. lp + lq \in Int /\ k + l \in Int
    BY <1>7
  <2> HIDE DEF y
  <2>3. Congruent(y, k + l, N)
    BY <1>2, <1>7, <2>1, <2>2, CongruentTrans
  <2> QED BY <2>3 DEF y
<1> QED BY <1>1, <1>9, <1>10 DEF Is

LEMMA NegIs ==
  ASSUME NEW P, NEW k \in Int, Is(P, k)
  PROVE  Is(PointNeg(P), -k)
<1> DEFINE a == P.at  T == PointNeg(P)  l == Log(P)
<1>1. P \in Points /\ Congruent(l, k, N) /\ N \in Nat /\ N > 2 /\ N \in Int
  BY Order DEF Is
<1>2. /\ P.neutral \in BOOLEAN /\ a \in Coordinates /\ a \in Int /\ l \in Int
      /\ (P.neutral => l = 0) /\ (~P.neutral => l = a)
  BY <1>1, PointTypes
<1>3. T = [P EXCEPT !.at = N - a]
  BY DEF PointNeg
<1>4. N - a \in Coordinates
  BY <1>1, <1>2, CoordinateTypes, Order
<1>5. T \in Points /\ T.neutral = P.neutral /\ T.at = N - a
  BY <1>1, <1>3, <1>4 DEF Points
<1>6. Log(T) = IF P.neutral THEN 0 ELSE N - a
  BY <1>5 DEF Log
<1>7. PICK j \in Int : l = k + j * N
  BY <1>1 DEF Congruent
<1> HIDE DEF a, l
<1>8. -k = 0 - k /\ -k \in Int
  OBVIOUS
<1>9. Congruent(Log(T), -k, N)
  <2>1. CASE P.neutral
    <3>1. Log(T) = -k + (-j) * N /\ -j \in Int
      BY <1>1, <1>2, <1>6, <1>7, <2>1
    <3> QED BY <3>1 DEF Congruent
  <2>2. CASE ~P.neutral
    <3>1. a = k + j * N
      BY <1>2, <1>7, <2>2
    <3>2. Log(T) = -k + (1 - j) * N /\ 1 - j \in Int
      <4>1. (1 - j) * N = N - j * N /\ j * N \in Int
        BY <1>1, <1>7
      <4> DEFINE jn == j * N
      <4> HIDE DEF jn
      <4> QED BY <1>1, <1>2, <1>6, <1>7, <2>2, <3>1, <4>1 DEF jn
    <3> QED BY <3>2 DEF Congruent
  <2> QED BY <2>1, <2>2
<1> QED BY <1>5, <1>9 DEF Is

LEMMA DoublingsIs ==
  ASSUME NEW P, NEW k \in Int, Is(P, k), NEW m \in Nat, 2^m \in Int, ~Congruent(2^m, 0, N)
  PROVE  Is(PointMul2k(P, m), 2^m * k)
<1> DEFINE a == P.at  T == PointMul2k(P, m)  l == Log(P)  f == 2^m
<1>1. P \in Points /\ Congruent(l, k, N) /\ N \in Nat /\ N > 2 /\ N \in Int /\ f \in Int
  BY Order DEF Is
<1>2. /\ P.neutral \in BOOLEAN /\ a \in Coordinates /\ a \in Int /\ l \in Int
      /\ (P.neutral => l = 0) /\ (~P.neutral => l = a)
  BY <1>1, PointTypes
<1>3. T = [P EXCEPT !.at = (f * a) % N]
  BY DEF PointMul2k
<1>4. ~Congruent(f, 0, N)
  OBVIOUS
<1> HIDE DEF f
<1>5. ~Congruent(f * a, 0, N) /\ f * a \in Int /\ f * l \in Int /\ f * k \in Int
  <2>1. ~Congruent(a, 0, N)
    BY <1>2, CoordinateTypes
  <2>2. ~Congruent(f * a, 0, N)
    BY <1>1, <1>2, <1>4, <2>1, Order, Euclid
  <2> QED BY <1>1, <1>2, <2>2
<1> DEFINE rem == (f * a) % N
<1>6. rem \in Coordinates /\ Congruent(rem, f * a, N) /\ rem \in Int
  BY <1>5, Logarithm, CoordinateTypes
<1>7. T \in Points /\ T.neutral = P.neutral /\ T.at = rem
  BY <1>1, <1>3, <1>6 DEF Points
<1>8. Log(T) = IF P.neutral THEN 0 ELSE rem
  BY <1>7 DEF Log
<1> HIDE DEF a, l, rem, T
<1>9. Congruent(f * l, f * k, N)
  <2>1. Congruent(f, f, N)
    BY <1>1, CongruentRefl
  <2> QED BY <1>1, <1>2, <2>1, CongruentProduct
<1>10. Congruent(Log(T), f * l, N)
  <2>1. CASE P.neutral
    <3>1. Log(T) = 0 /\ f * l = 0
      BY <1>1, <1>2, <1>8, <2>1
    <3> QED BY <1>1, <3>1, CongruentRefl
  <2>2. CASE ~P.neutral
    <3>1. Log(T) = rem /\ l = a
      BY <1>2, <1>8, <2>2
    <3> QED BY <1>6, <3>1
  <2> QED BY <2>1, <2>2
<1>11. Log(T) \in Int
  BY <1>2, <1>6, <1>8
<1>12. Congruent(Log(T), f * k, N)
  BY <1>1, <1>5, <1>9, <1>10, <1>11, CongruentTrans
<1>13. T \in Points
  BY <1>7
<1> QED BY <1>12, <1>13 DEF Is, T, f

\* No power of two is a multiple of the order.
LEMMA PowerNotZero ==
  ASSUME NEW m \in 0..Top
  PROVE  2^m \in Nat /\ 2^m > 0 /\ 2^m \in Int /\ ~Congruent(2^m, 0, N)
<1> DEFINE Good == {k \in 0..Top : ~Congruent(2^k, 0, N)}
<1>1. Top \in Nat /\ PowersUpTo(Top) /\ N \in Nat /\ N > 2 /\ 2^0 = 1 /\ 0 \in 0..Top
  BY Sizes, Order DEF PowersUpTo
<1>2. 0 \in Good
  <2>1. 1 \in 0..(N - 1) /\ 0 \in 0..(N - 1) /\ N > 0
    BY <1>1
  <2>2. ~Congruent(1, 0, N)
    BY <1>1, <2>1, RemainderUnique
  <2> QED BY <1>1, <2>2
<1>3. ASSUME NEW k \in 0..(Top - 1), k \in Good PROVE k + 1 \in Good
  <2>1. k \in Nat /\ k + 1 <= Top /\ k + 1 \in 0..Top
    BY <1>1
  <2>2. 2^(k + 1) = 2 * 2^k /\ 2^k \in Nat
    BY <1>1, <2>1, PowerNext
  <2>3. 2 \in 0..(N - 1) /\ 0 \in 0..(N - 1) /\ N > 0
    BY <1>1
  <2>4. ~Congruent(2, 0, N)
    BY <1>1, <2>3, RemainderUnique
  <2>5. ~Congruent(2 * 2^k, 0, N)
    <3> DEFINE f == 2^k
    <3>1. f \in Int /\ ~Congruent(f, 0, N) /\ 2 \in Int
      BY <1>3, <2>2
    <3> HIDE DEF f
    <3>2. ~Congruent(2 * f, 0, N)
      BY <2>4, <3>1, Order, Euclid
    <3> QED BY <3>2 DEF f
  <2> QED BY <2>1, <2>2, <2>5
<1> HIDE DEF Good
<1>4. \A k \in 0..Top : k \in Good
  BY <1>1, <1>2, <1>3, UpTo
<1>5. 2^m \in Nat /\ 2^m > 0
  BY <1>1, Power
<1> QED BY <1>4, <1>5 DEF Good

LEMMA DoubledIs ==
  ASSUME NEW P, NEW k \in Int, Is(P, k), NEW m \in 0..Top
  PROVE  Is(Doubled(P, m), 2^m * k)
<1>1. 2^m \in Int /\ ~Congruent(2^m, 0, N) /\ m \in Nat
  BY PowerNotZero
<1>2. Is(PointMul2k(P, m), 2^m * k)
  BY <1>1, DoublingsIs
<1>3. CASE ~P.neutral
  BY <1>2, <1>3 DEF Doubled
<1>4. CASE P.neutral
  <2> DEFINE T == PointMul2k(P, m)
  <2>1. P \in Points
    BY DEF Is
  <2>2. T.neutral = P.neutral /\ Log(T) = 0 /\ Log(P) = 0
    BY <1>4, <2>1 DEF PointMul2k, Points, Log
  <2>3. Congruent(Log(P), 2^m * k, N)
    BY <1>2, <2>2 DEF Is
  <2> QED BY <1>4, <2>1, <2>3 DEF Doubled, Is
<1> QED BY <1>3, <1>4

-----------------------------------------------------------------------------
(***************************************************************************)
(* The windows, and the digits added from them.                            *)
(***************************************************************************)
WindowRight(win, w, b) == \A j \in 0..(2^(w - 2) - 1) : Is(win[j], (2 * j + 1) * b)

LEMMA WindowSize ==
  ASSUME NEW w \in 3..ByteBits
  PROVE  /\ 2^(w - 2) \in Nat /\ 2^(w - 2) > 0 /\ 2^(w - 1) = 2 * 2^(w - 2) /\ 2^(w - 1) <= N
         /\ 2^(w - 1) \in Nat
<1>1. ByteBits \in Nat /\ Top \in Nat /\ PowersUpTo(Top) /\ ByteBits <= Half /\ Half <= Top /\ Half \in Nat
  BY Sizes
<1>2. /\ w - 2 \in Nat /\ (w - 2) + 1 = w - 1 /\ (w - 2) + 1 <= Top /\ w - 1 \in Nat
      /\ w - 1 <= Half - 1 /\ Half - 1 <= Top /\ Half - 1 \in Nat /\ w - 1 \in 0..Top
  BY <1>1
<1>3. 2^(w - 2 + 1) = 2 * 2^(w - 2) /\ 2^(w - 2) \in Nat /\ 2^(w - 2) > 0
  BY <1>1, <1>2, PowerNext
<1>4. 2^(w - 1) <= 2^(Half - 1)
  BY <1>1, <1>2, PowerGrows
<1>5. 2^(Half - 1) <= N /\ 2^(Half - 1) \in Nat /\ N \in Nat
  BY HalfPowers
<1>6. 2^(w - 1) \in Nat
  BY <1>1, <1>2, Power
<1> QED BY <1>2, <1>3, <1>4, <1>5, <1>6

AreOdd(f, P, n) ==
    f = [k \in 0..n |-> IF k = 0 THEN P ELSE PointAdd(f[k - 1], PointAdd(P, P))]

LEMMA OddExist == \A P : \A n \in Nat : \E f : AreOdd(f, P, n)
<1> SUFFICES ASSUME NEW P PROVE \A n \in Nat : \E f : AreOdd(f, P, n)
  OBVIOUS
<1> DEFINE Missing == {n \in Nat : ~\E f : AreOdd(f, P, n)}
<1> SUFFICES ASSUME Missing # {} PROVE FALSE
  OBVIOUS
<1>1. PICK n \in Missing : \A k \in Missing : n <= k
  BY LeastNatural
<1>2. n # 0
  <2> DEFINE f == [k \in 0..0 |-> P]
  <2>1. AreOdd(f, P, 0)
    BY DEF AreOdd
  <2> QED BY <1>1, <2>1
<1>3. n - 1 \in Nat /\ n - 1 \notin Missing
  BY <1>1, <1>2
<1>4. PICK f : AreOdd(f, P, n - 1)
  BY <1>3
<1> DEFINE g == [k \in 0..n |-> IF k = 0 THEN P
                                ELSE IF k = n THEN PointAdd(f[n - 1], PointAdd(P, P)) ELSE f[k]]
<1>5. AreOdd(g, P, n)
  <2>1. f = [k \in 0..(n - 1) |-> IF k = 0 THEN P ELSE PointAdd(f[k - 1], PointAdd(P, P))]
    BY <1>4 DEF AreOdd
  <2>2. ASSUME NEW k \in 0..(n - 1) PROVE g[k] = f[k]
    <3>1. k \in 0..n /\ k # n
      BY <1>1, <2>2
    <3>2. k = 0 => f[k] = P
      BY <2>1, <2>2
    <3> QED BY <3>1, <3>2
  <2>3. ASSUME NEW k \in 0..n, k # 0 PROVE g[k] = PointAdd(g[k - 1], PointAdd(P, P))
    <3>1. k - 1 \in 0..(n - 1) /\ n \in Nat
      BY <1>1, <2>3
    <3>2. g[k - 1] = f[k - 1]
      BY <2>2, <3>1
    <3>3. CASE k = n
      BY <2>3, <3>2, <3>3
    <3>4. CASE k # n
      <4>1. k \in 0..(n - 1)
        BY <2>3, <3>1, <3>4
      <4>2. g[k] = f[k]
        BY <2>2, <4>1
      <4>3. f[k] = PointAdd(f[k - 1], PointAdd(P, P))
        BY <2>1, <2>3, <4>1
      <4> QED BY <3>2, <4>2, <4>3
    <3> QED BY <3>3, <3>4
  <2>4. g[0] = P
    BY <1>1
  <2>5. g = [k \in 0..n |-> g[k]]
    OBVIOUS
  <2> HIDE DEF g
  <2> QED BY <2>3, <2>4, <2>5 DEF AreOdd
<1> QED BY <1>1, <1>5

LEMMA OddMultiplesRight ==
  ASSUME NEW P, NEW b \in Int, Is(P, b), NEW w \in 3..ByteBits
  PROVE  WindowRight(OddMultiples(P, w), w, b)
<1> DEFINE n == 2^(w - 2) - 1
<1>1. n \in Nat
  BY WindowSize
<1> DEFINE f == CHOOSE g : AreOdd(g, P, n)
<1>2. AreOdd(f, P, n)
  BY <1>1, OddExist
<1>3. OddMultiples(P, w) = f
  BY DEF OddMultiples, AreOdd
<1> HIDE DEF f, n
<1>4. \A k \in 0..n : f[k] = IF k = 0 THEN P ELSE PointAdd(f[k - 1], PointAdd(P, P))
  BY <1>2 DEF AreOdd
<1>5. Is(PointAdd(P, P), b + b)
  BY AddIs
<1> DEFINE Good == {k \in 0..n : Is(f[k], (2 * k + 1) * b)}
<1>6. 0 \in Good
  <2>1. f[0] = P /\ 0 \in 0..n /\ (2 * 0 + 1) * b = b
    BY <1>1, <1>4
  <2> QED BY <2>1
<1>7. ASSUME NEW k \in 0..(n - 1), k \in Good PROVE k + 1 \in Good
  <2>1. k + 1 \in 0..n /\ k + 1 # 0 /\ (k + 1) - 1 = k
    BY <1>1
  <2>2. f[k + 1] = PointAdd(f[k], PointAdd(P, P))
    BY <1>4, <2>1
  <2> DEFINE t == (2 * k + 1) * b
  <2>3. Is(f[k], t) /\ t \in Int /\ b + b \in Int
    BY <1>1, <1>7
  <2>4. Is(PointAdd(f[k], PointAdd(P, P)), t + (b + b))
    BY <1>5, <2>3, AddIs
  <2>5. t + (b + b) = (2 * (k + 1) + 1) * b
    BY <1>1
  <2> QED BY <2>1, <2>2, <2>4, <2>5
<1> HIDE DEF Good
<1>8. \A k \in 0..n : k \in Good
  BY <1>1, <1>6, <1>7, UpTo
<1> QED BY <1>3, <1>8 DEF Good, WindowRight, n

LEMMA MultipleIs ==
  ASSUME NEW x \in Int, ~Congruent(x, 0, N)
  PROVE  Is(Multiple(x), x)
<1> DEFINE y == x % N  P == Multiple(x)
<1>1. y \in Coordinates /\ Congruent(y, x, N)
  BY Logarithm
<1>2. P = [neutral |-> FALSE, at |-> y]
  BY DEF Multiple
<1> HIDE DEF y, P
<1>3. P \in Points /\ Log(P) = y
  BY <1>1, <1>2 DEF Points, Log
<1> QED BY <1>1, <1>3 DEF Is, P

LEMMA TableRight ==
  ASSUME NEW shift \in 0..Top
  PROVE  WindowRight(OddMultiplesOfG(shift), WG, 2^shift)
<1> DEFINE n == 2^(WG - 2)  b == 2^shift
<1>1. n \in Nat /\ n > 0 /\ 2 * n <= N /\ N \in Nat /\ N > 0
  <2>1. WG \in 3..ByteBits
    BY Sizes
  <2> QED BY <2>1, WindowSize, Order
<1>2. b \in Int /\ ~Congruent(b, 0, N)
  BY PowerNotZero
<1>3. OddMultiplesOfG(shift) = [k \in 0..(n - 1) |-> Multiple((2 * k + 1) * b)]
  BY DEF OddMultiplesOfG
<1> HIDE DEF n, b
<1>4. ASSUME NEW k \in 0..(n - 1) PROVE Is(Multiple((2 * k + 1) * b), (2 * k + 1) * b)
  <2>1. 2 * k + 1 \in 0..(N - 1) /\ 0 \in 0..(N - 1) /\ 2 * k + 1 # 0 /\ 2 * k + 1 \in Int
    BY <1>1
  <2> DEFINE t == 2 * k + 1
  <2> HIDE DEF t
  <2>2. t \in 0..(N - 1) /\ 0 \in 0..(N - 1) /\ t # 0 /\ t \in Int
    BY <2>1 DEF t
  <2>3. ~Congruent(t, 0, N)
    BY <1>1, <2>2, RemainderUnique
  <2>4. ~Congruent(t * b, 0, N) /\ t * b \in Int
    BY <1>2, <2>2, <2>3, Order, Euclid
  <2>5. Is(Multiple(t * b), t * b)
    BY <2>4, MultipleIs
  <2> QED BY <2>5 DEF t
<1> QED BY <1>3, <1>4 DEF WindowRight, n, b

WindowsOK == \A k \in Lanes : WindowRight(window[k], Width(k), Base(k))

LEMMA OrientedIs ==
  ASSUME NEW P \in Points, NEW negative \in BOOLEAN
  PROVE  /\ Oriented(P, negative) \in Points /\ Log(Oriented(P, negative)) \in Int
         /\ Is(Oriented(P, negative), IF negative THEN -Log(P) ELSE Log(P))
<1> DEFINE l == Log(P)  T == Oriented(P, negative)
<1>1. l \in Int /\ N \in Int
  BY PointTypes, Order
<1>2. Is(P, l)
  BY <1>1, CongruentRefl DEF Is
<1> HIDE DEF l
<1>3. Is(PointNeg(P), -l)
  BY <1>1, <1>2, NegIs
<1>4. Is(T, IF negative THEN -l ELSE l)
  BY <1>2, <1>3 DEF Oriented
<1>5. T \in Points
  BY <1>4 DEF Is
<1> QED BY <1>4, <1>5, PointTypes DEF l

LEMMA BaseInt ==
  ASSUME ArgsOK, MultOK, NEW k \in Lanes
  PROVE  Base(k) \in Int
<1>1. q1 \in Points /\ q2 \in Points /\ neg0 \in BOOLEAN /\ (~neg1) \in BOOLEAN
  BY DEF ArgsOK, MultOK
<1>2. Log(Oriented(q1, neg0)) \in Int /\ Log(Oriented(q2, ~neg1)) \in Int
  BY <1>1, OrientedIs
<1>3. 2^Half \in Int
  BY HalfPowers
<1> QED BY <1>2, <1>3 DEF Base, Lanes

LEMMA WindowsPrepared ==
  ASSUME ArgsOK, MultOK
  PROVE  /\ WindowRight(OddMultiples(Oriented(q1, neg0), W), W, Base(0))
         /\ WindowRight(OddMultiples(Oriented(q2, ~neg1), W), W, Base(1))
         /\ WindowRight(window_odd7_G, WG, Base(2))
         /\ WindowRight(window_odd7_G128, WG, Base(3))
<1>1. q1 \in Points /\ q2 \in Points /\ neg0 \in BOOLEAN /\ (~neg1) \in BOOLEAN /\ W \in 3..ByteBits
  BY Sizes DEF ArgsOK, MultOK
<1>2. ASSUME NEW P \in Points, Log(P) \in Int
      PROVE  WindowRight(OddMultiples(P, W), W, Log(P))
  <2>1. Is(P, Log(P))
    <3> DEFINE l == Log(P)
    <3>1. l \in Int /\ N \in Int
      BY <1>2, Order
    <3> HIDE DEF l
    <3>2. Congruent(l, l, N)
      BY <3>1, CongruentRefl
    <3> QED BY <3>2 DEF Is, l
  <2> QED BY <1>1, <1>2, <2>1, OddMultiplesRight
<1>3. /\ WindowRight(OddMultiples(Oriented(q1, neg0), W), W, Log(Oriented(q1, neg0)))
      /\ WindowRight(OddMultiples(Oriented(q2, ~neg1), W), W, Log(Oriented(q2, ~neg1)))
  BY <1>1, <1>2, OrientedIs
<1>4. 0 \in 0..Top /\ Half \in 0..Top /\ 2^0 = 1
  BY Sizes DEF PowersUpTo
<1>5. WindowRight(window_odd7_G, WG, 1) /\ WindowRight(window_odd7_G128, WG, 2^Half)
  BY <1>4, TableRight DEF window_odd7_G, window_odd7_G128
<1> QED BY <1>3, <1>5 DEF Base

\* The digit of a lane.
LaneDigitOK(k, p) ==
    /\ TrueDigit(k, p) \in Int
    /\ FoundIn(k, p) \in Int /\ FoundIn(k, p + 1) \in Int
    /\ FoundIn(k, p + 1) = FoundIn(k, p) + TrueDigit(k, p) * 2^(p + Above(k))
    /\ TrueDigit(k, p) # 0 =>
          /\ TrueDigit(k, p) % 2 = 1
          /\ TrueDigit(k, p) \in (1 - 2^(Width(k) - 1))..(2^(Width(k) - 1) - 1)

LEMMA LaneDigit ==
  ASSUME MultOK, NEW k \in Lanes, NEW p \in 0..(Half - 1)
  PROVE  LaneDigitOK(k, p)
<1> DEFINE x == Whole(k)  len == BytesOf(k)  w == Width(k)  n == p + Above(k)
<1>1. /\ Multiplier(x, len, w) /\ Above(k) \in Nat
      /\ Half + Above(k) <= ByteBits * len /\ ByteBits * len \in Nat
  BY LaneOK
<1>2. n \in 0..(ByteBits * len - 1) /\ (p + 1) + Above(k) = n + 1
  <2> HIDE DEF len
  <2> QED BY <1>1, Sizes
<1>3. DigitOK(x, len, w, n)
  BY <1>1, <1>2, DigitIs
<1>4. FoundIn(k, p + 1) = Found(x, len, w, n + 1)
  BY <1>2 DEF FoundIn
<1>5. FoundIn(k, p) = Found(x, len, w, n) /\ TrueDigit(k, p) = DigitFoundAt(x, len, w, n)
  BY DEF FoundIn, TrueDigit
<1> HIDE DEF x, len, w
<1> QED BY <1>3, <1>4, <1>5 DEF DigitOK, LaneDigitOK, w

\* An entry of a right window, for an odd digit of either sign.
LEMMA TermIs ==
  ASSUME NEW k \in Lanes, NEW b \in Int, WindowRight(window[k], Width(k), b),
         Width(k) \in 3..ByteBits,
         NEW m \in (1 - 2^(Width(k) - 1))..(2^(Width(k) - 1) - 1), m % 2 = 1
  PROVE  Is(Term(k, m), m * b)
<1> DEFINE w == Width(k)  f == 2^(w - 2)  h == 2^(w - 1)  win == window[k]
<1>1. f \in Nat /\ f > 0 /\ h = 2 * f
  BY WindowSize
<1>2. m \in (1 - h)..(h - 1) /\ m \in Int
  BY <1>1
<1>3. \A j \in 0..(f - 1) : Is(win[j], (2 * j + 1) * b)
  BY DEF WindowRight
<1>4. Term(k, m) = IF m > 0 THEN win[m \div 2] ELSE PointNeg(win[(-m) \div 2])
  BY DEF Term
<1> HIDE DEF w, f, h, win
<1>5. CASE m > 0
  <2> DEFINE j == m \div 2
  <2>1. m = 2 * j + 1 /\ j \in 0..(f - 1)
    BY <1>1, <1>2, <1>5
  <2>2. Term(k, m) = win[j]
    BY <1>4, <1>5
  <2> HIDE DEF j
  <2>3. Is(win[j], (2 * j + 1) * b)
    BY <1>3, <2>1
  <2> QED BY <2>1, <2>2, <2>3
<1>6. CASE ~(m > 0)
  <2> DEFINE n == -m
  <2> DEFINE j == n \div 2
  <2>1. n \in Nat /\ n % 2 = 1 /\ n <= h - 1
    BY <1>1, <1>2, <1>6
  <2>2. Term(k, m) = PointNeg(win[j])
    BY <1>4, <1>6
  <2>3. m = -n
    BY <1>2
  <2> HIDE DEF n
  <2>4. n = 2 * j + 1 /\ j \in 0..(f - 1)
    BY <1>1, <2>1
  <2> HIDE DEF j
  <2>5. Is(win[j], n * b)
    BY <1>3, <2>4
  <2>6. n * b \in Int
    BY <2>1
  <2>7. Is(PointNeg(win[j]), -(n * b))
    BY <2>5, <2>6, NegIs
  <2>8. -(n * b) = m * b
    BY <2>1, <2>3
  <2> QED BY <2>2, <2>7, <2>8
<1> QED BY <1>5, <1>6

LEMMA AddDigitIs ==
  ASSUME MultOK, NEW k \in Lanes, NEW b \in Int, WindowRight(window[k], Width(k), b),
         i \in 0..(Half - 1), Digit(k) = TrueDigit(k, i),
         NEW P, NEW x \in Int, Is(P, x)
  PROVE  Is(AddDigit(P, k), x + Digit(k) * b) /\ x + Digit(k) * b \in Int
<1> DEFINE m == Digit(k)
<1>1. m \in Int /\ (m # 0 => /\ m % 2 = 1
                             /\ m \in (1 - 2^(Width(k) - 1))..(2^(Width(k) - 1) - 1))
  BY LaneDigit DEF LaneDigitOK
<1>2. Width(k) \in 3..ByteBits
  BY Sizes DEF Width
<1>3. AddDigit(P, k) = IF m = 0 THEN P ELSE PointAdd(P, Term(k, m))
  BY DEF AddDigit
<1> HIDE DEF m
<1>4. m * b \in Int
  BY <1>1
<1>5. CASE m = 0
  <2>1. x + m * b = x
    BY <1>5
  <2> QED BY <1>3, <1>5, <2>1 DEF m
<1>6. CASE m # 0
  <2>1. m \in (1 - 2^(Width(k) - 1))..(2^(Width(k) - 1) - 1) /\ m % 2 = 1
    BY <1>1, <1>6
  <2>2. Is(Term(k, m), m * b)
    BY <1>2, <2>1, TermIs
  <2>3. Is(PointAdd(P, Term(k, m)), x + m * b)
    BY <1>4, <2>2, AddIs
  <2>4. x + m * b \in Int
    BY <1>4
  <2> QED BY <1>3, <1>6, <2>3, <2>4 DEF m
<1> QED BY <1>5, <1>6

\* What the digits used so far stand for.
Total == sums[0] * Base(0) + sums[1] * Base(1) + sums[2] * Base(2) + sums[3] * Base(3)

\* What the digits of this turn add.
Added == Digit(0) * Base(0) + Digit(1) * Base(1) + Digit(2) * Base(2) + Digit(3) * Base(3)

LEMMA AddDigitsIs ==
  ASSUME ArgsOK, MultOK, WindowsOK, i \in 0..(Half - 1),
         \A k \in Lanes : Digit(k) = TrueDigit(k, i),
         NEW P, NEW x \in Int, Is(P, x)
  PROVE  Is(AddDigits(P), x + Added) /\ Added \in Int
<1> DEFINE d(k) == Digit(k) * Base(k)
<1>1. ASSUME NEW k \in Lanes
      PROVE  d(k) \in Int /\ Base(k) \in Int /\ WindowRight(window[k], Width(k), Base(k))
             /\ Digit(k) = TrueDigit(k, i)
  <2>1. Base(k) \in Int /\ Digit(k) \in Int
    BY <1>1, BaseInt, LaneDigit DEF LaneDigitOK
  <2>2. WindowRight(window[k], Width(k), Base(k))
    BY <1>1 DEF WindowsOK
  <2> QED BY <1>1, <2>1, <2>2
<1>2. ASSUME NEW k \in Lanes, NEW Q, NEW y \in Int, Is(Q, y)
      PROVE  Is(AddDigit(Q, k), y + d(k)) /\ y + d(k) \in Int
  <2>1. /\ Base(k) \in Int /\ WindowRight(window[k], Width(k), Base(k))
        /\ Digit(k) = TrueDigit(k, i)
    BY <1>1, <1>2
  <2> QED BY <1>2, <2>1, AddDigitIs
<1>3. 0 \in Lanes /\ 1 \in Lanes /\ 2 \in Lanes /\ 3 \in Lanes
  BY DEF Lanes
<1> DEFINE P0 == AddDigit(P, 0)  P1 == AddDigit(P0, 1)  P2 == AddDigit(P1, 2)
           P3 == AddDigit(P2, 3)
<1>4. AddDigits(P) = P3
  BY DEF AddDigits
<1>5. Added = d(0) + d(1) + d(2) + d(3)
  BY DEF Added
<1>6. d(0) \in Int /\ d(1) \in Int /\ d(2) \in Int /\ d(3) \in Int
  BY <1>1, <1>3
<1> HIDE DEF d
<1>7. Is(P0, x + d(0)) /\ x + d(0) \in Int
  BY <1>2, <1>3
<1> HIDE DEF P0
<1>8. Is(P1, x + d(0) + d(1)) /\ x + d(0) + d(1) \in Int
  BY <1>2, <1>3, <1>7
<1> HIDE DEF P1
<1>9. Is(P2, x + d(0) + d(1) + d(2)) /\ x + d(0) + d(1) + d(2) \in Int
  BY <1>2, <1>3, <1>8
<1> HIDE DEF P2
<1>10. Is(P3, x + d(0) + d(1) + d(2) + d(3))
  BY <1>2, <1>3, <1>9
<1> HIDE DEF P3
<1>11. x + d(0) + d(1) + d(2) + d(3) = x + Added /\ Added \in Int
  BY <1>5, <1>6
<1> QED BY <1>4, <1>10, <1>11

-----------------------------------------------------------------------------
(***************************************************************************)
(* The answer of the reduction, and the signs taken out of it.             *)
(***************************************************************************)
C0 == IF neg0 THEN -mult[1] ELSE mult[1]
C1 == IF neg1 THEN -mult[2] ELSE mult[2]

AnswerOK ==
    /\ ~Congruent(C1, 0, N)
    /\ Congruent(C0, C1 * s1, N)
    /\ Congruent(mult[3], C1 * s2, N)

\* A word and its sign give back the half.
WordOK(h) ==
    LET word == h % 2^Half
    IN  /\ AbsI128(word) \in 0..(2^(Half - 1) - 1) /\ IsNegative(word) \in BOOLEAN
        /\ (IF IsNegative(word) THEN -AbsI128(word) ELSE AbsI128(word)) = h

LEMMA HalfWord ==
  ASSUME NEW h \in Lattice!Halves
  PROVE  WordOK(h)
<1> DEFINE m == 2^Half  g == 2^(Half - 1)  word == h % m
<1>1. m = 2 * g /\ g \in Nat /\ m \in Nat /\ m > 0
  BY HalfPowers
<1>2. h \in (1 - g)..(g - 1) /\ h \in Int
  BY <1>1 DEF Lattice!Halves
<1>3. /\ IsNegative(word) <=> word >= g
      /\ IsNegative(word) \in BOOLEAN
      /\ AbsI128(word) = IF word >= g THEN m - word ELSE word
  BY DEF IsNegative, AbsI128
<1> SUFFICES /\ AbsI128(word) \in 0..(g - 1)
             /\ (IF IsNegative(word) THEN -AbsI128(word) ELSE AbsI128(word)) = h
  BY <1>3 DEF WordOK
<1> DEFINE abs == AbsI128(word)  neg == IsNegative(word)
<1> SUFFICES abs \in 0..(g - 1) /\ (IF neg THEN -abs ELSE abs) = h
  OBVIOUS
<1>4. CASE h >= 0
  <2>1. word = h
    <3> HIDE DEF m, g
    <3>1. h = m * 0 + h /\ h \in 0..(m - 1)
      BY <1>1, <1>2, <1>4
    <3> QED BY <1>1, <1>2, <3>1, DivisionUnique
  <2>2. (neg <=> word >= g) /\ abs = IF word >= g THEN m - word ELSE word
    BY <1>3
  <2> HIDE DEF m, g, word, abs, neg
  <2> QED BY <1>1, <1>2, <1>4, <2>1, <2>2
<1>5. CASE h < 0
  <2>1. word = h + m
    <3> HIDE DEF m, g
    <3>1. h = m * (-1) + (h + m) /\ h + m \in 0..(m - 1)
      BY <1>1, <1>2, <1>5
    <3> QED BY <1>1, <1>2, <3>1, DivisionUnique
  <2>2. (neg <=> word >= g) /\ abs = IF word >= g THEN m - word ELSE word
    BY <1>3
  <2> HIDE DEF m, g, word, abs, neg
  <2> QED BY <1>1, <1>2, <1>5, <2>1, <2>2
<1> QED BY <1>2, <1>4, <1>5

LEMMA HalfNotZero ==
  ASSUME NEW h \in Lattice!Halves \ {0}
  PROVE  ~Congruent(h, 0, N)
<1> DEFINE g == 2^(Half - 1)
<1>1. g \in Nat /\ g <= N /\ N \in Nat /\ N > 0
  BY HalfPowers
<1>2. h \in (1 - g)..(g - 1) /\ h # 0
  BY DEF Lattice!Halves
<1> HIDE DEF g
<1> SUFFICES ASSUME NEW k \in Int, h = 0 + k * N PROVE FALSE
  BY DEF Congruent
<1>3. ~(k >= 1)
  <2>1. ASSUME k >= 1 PROVE k * N >= N
    BY <1>1, <2>1
  <2> QED BY <1>1, <1>2, <2>1
<1>4. ~(k <= -1)
  <2>1. ASSUME k <= -1 PROVE k * N <= -N
    BY <1>1, <2>1
  <2> QED BY <1>1, <1>2, <2>1
<1>5. k = 0 => h = 0
  BY <1>1
<1> QED BY <1>2, <1>3, <1>4, <1>5

LEMMA ReduceIsRight == ArgsOK /\ Reduce => MultOK' /\ AnswerOK'
<1> SUFFICES ASSUME ArgsOK, Reduce PROVE MultOK' /\ AnswerOK'
  OBVIOUS
<1>1. PICK c1 \in Lattice!Halves \ {0} : \E h \in HalvesCloseTo(c1 * s1) :
         LET word0 == h % 2^Half
             word1 == c1 % 2^Half
             ss == IF IsNegative(word1) THEN -AbsI128(word1) ELSE AbsI128(word1)
         IN  /\ neg0' = IsNegative(word0) /\ neg1' = IsNegative(word1)
             /\ mult' = <<AbsI128(word0), AbsI128(word1), (ss * s2) % N>>
  BY DEF Reduce
<1>2. PICK c0 \in HalvesCloseTo(c1 * s1) :
         LET word0 == c0 % 2^Half
             word1 == c1 % 2^Half
             ss == IF IsNegative(word1) THEN -AbsI128(word1) ELSE AbsI128(word1)
         IN  /\ neg0' = IsNegative(word0) /\ neg1' = IsNegative(word1)
             /\ mult' = <<AbsI128(word0), AbsI128(word1), (ss * s2) % N>>
  BY <1>1
<1>3. c0 \in Lattice!Halves /\ c0 \in {(c1 * s1) % N, ((c1 * s1) % N) - N}
  BY DEF HalvesCloseTo
<1>4. c1 \in Int /\ s1 \in Nat /\ s2 \in Nat /\ N \in Nat /\ N > 0 /\ N \in Int
  <2>1. 2^(Half - 1) \in Nat
    BY HalfPowers
  <2> QED BY <2>1, Order DEF Lattice!Halves, ArgsOK
<1>5. WordOK(c0) /\ WordOK(c1)
  BY <1>3, HalfWord
<1> DEFINE g == 2^(Half - 1)  a0 == AbsI128(c0 % 2^Half)  a1 == AbsI128(c1 % 2^Half)
           ss == IF neg1' THEN -a1 ELSE a1
<1>6. /\ mult' = <<a0, a1, (ss * s2) % N>> /\ neg0' \in BOOLEAN /\ neg1' \in BOOLEAN
      /\ a0 \in 0..(g - 1) /\ a1 \in 0..(g - 1)
      /\ (IF neg0' THEN -a0 ELSE a0) = c0 /\ ss = c1
  BY <1>2, <1>5 DEF WordOK
<1>7. UNCHANGED <<s1, s2>>
  BY DEF Reduce, args
<1> HIDE DEF a0, a1, ss, g
<1>8. mult'[1] = a0 /\ mult'[2] = a1 /\ mult'[3] = (c1 * s2) % N
  BY <1>6
<1>9. C1' = c1 /\ C0' = c0
  BY <1>6, <1>8 DEF C0, C1, ss
<1> DEFINE t == c1 * s2  u == c1 * s1
<1>10. t \in Int /\ u \in Int
  BY <1>4
<1>11. (t % N) \in 0..(N - 1) /\ Congruent((t % N), t, N)
  BY <1>4, <1>10, ModCongruent
<1>12. Congruent(c0, u, N)
  <2> DEFINE z == u % N
  <2>1. z \in 0..(N - 1) /\ Congruent(z, u, N)
    BY <1>4, <1>10, ModCongruent
  <2>2. c0 = z \/ c0 = z - N
    BY <1>3
  <2> HIDE DEF z, u
  <2>3. Congruent(z - N, u, N)
    <3>1. PICK k \in Int : z = u + k * N
      BY <2>1 DEF Congruent
    <3>2. z - N = u + (k - 1) * N /\ k - 1 \in Int
      BY <1>4, <1>10, <2>1, <3>1
    <3> QED BY <3>2 DEF Congruent
  <2> QED BY <2>1, <2>2, <2>3
<1>13. MultOK'
  <2>1. mult'[1] \in 0..(g - 1) /\ mult'[2] \in 0..(g - 1) /\ mult'[3] \in 0..(N - 1)
    BY <1>6, <1>8, <1>11
  <2> QED BY <1>6, <2>1 DEF MultOK, g
<1>14. AnswerOK'
  <2>1. ~Congruent(c1, 0, N)
    BY HalfNotZero
  <2>2. mult'[3] = t % N
    BY <1>8
  <2> HIDE DEF t, u
  <2>3. Congruent(mult'[3], t, N)
    BY <1>11, <2>2
  <2> QED BY <1>7, <1>9, <1>12, <2>1, <2>3 DEF AnswerOK, t, u
<1> QED BY <1>13, <1>14

-----------------------------------------------------------------------------
(***************************************************************************)
(* The loop: s[k] is the value of the digits of lane k from position n on, *)
(* and P, doubled d times more, is what all of them stand for.             *)
(***************************************************************************)
SumsAt(s, n) ==
    \A k \in Lanes :
        /\ s[k] \in Int
        /\ FoundIn(k, Half) - FoundIn(k, n) = 2^(n + Above(k)) * s[k]

SumsOK == SumsAt(sums, i + 1)

HornerOK ==
    /\ dbl \in 0..(Half - 1 - i) /\ q3 \in Points
    /\ Congruent(2^dbl * Log(q3), Total, N)

LoopOK ==
    /\ i \in -1..(Half - 1) /\ (pc = "done" => i = -1)
    /\ DigitsOK /\ AccOK /\ WindowsOK /\ SumsOK /\ HornerOK

VerifyOK ==
    /\ ArgsOK
    /\ pc \in {"reduce", "prepare", "loop", "done"}
    /\ pc # "done" => verdict = "none"
    /\ pc # "reduce" => MultOK /\ AnswerOK
    /\ pc \in {"reduce", "prepare"} => sums = [k \in Lanes |-> 0]
    /\ pc \in {"loop", "done"} => LoopOK

VerifyInv == pc # "recode" => VerifyOK

LEMMA SumsStart ==
  ASSUME MultOK
  PROVE  SumsAt([k \in Lanes |-> 0], Half)
<1> SUFFICES ASSUME NEW k \in Lanes
             PROVE  FoundIn(k, Half) - FoundIn(k, Half) = 2^(Half + Above(k)) * 0
  BY DEF SumsAt
<1>1. FoundIn(k, Half) \in Int
  <2>1. Half - 1 \in 0..(Half - 1) /\ (Half - 1) + 1 = Half
    BY Sizes
  <2>2. LaneDigitOK(k, Half - 1)
    BY <2>1, LaneDigit
  <2> QED BY <2>1, <2>2 DEF LaneDigitOK
<1>2. 2^(Half + Above(k)) \in Int
  <2>1. Half + Above(k) \in 0..Top
    BY Sizes, LaneOK
  <2> QED BY <2>1, Sizes, Power
<1> DEFINE f == 2^(Half + Above(k))  t == FoundIn(k, Half)
<1> HIDE DEF f, t
<1>3. f \in Int /\ t \in Int
  BY <1>1, <1>2 DEF f, t
<1>4. t - t = f * 0
  BY <1>3
<1> QED BY <1>4 DEF f, t

LEMMA SumsStep ==
  ASSUME MultOK, NEW n \in 0..(Half - 1), NEW s, SumsAt(s, n + 1),
         NEW d, \A k \in Lanes : d[k] = TrueDigit(k, n)
  PROVE  SumsAt([k \in Lanes |-> 2 * s[k] + d[k]], n)
<1> SUFFICES ASSUME NEW k \in Lanes
             PROVE  /\ 2 * s[k] + d[k] \in Int
                    /\ FoundIn(k, Half) - FoundIn(k, n) = 2^(n + Above(k)) * (2 * s[k] + d[k])
  BY DEF SumsAt
<1> DEFINE t == FoundIn(k, Half)  u == FoundIn(k, n + 1)  v0 == FoundIn(k, n)
           f == 2^(n + Above(k))  x == s[k]  e == d[k]
<1>1. x \in Int /\ t - u = 2^(n + 1 + Above(k)) * x
  BY DEF SumsAt
<1>2. e \in Int /\ u \in Int /\ v0 \in Int /\ u = v0 + e * f
  BY LaneDigit DEF LaneDigitOK
<1>3. t \in Int
  <2>1. Half - 1 \in 0..(Half - 1) /\ (Half - 1) + 1 = Half
    BY Sizes
  <2>2. LaneDigitOK(k, Half - 1)
    BY <2>1, LaneDigit
  <2> QED BY <2>1, <2>2 DEF LaneDigitOK
<1>4. 2^(n + 1 + Above(k)) = 2 * f /\ f \in Int
  <2>1. n + Above(k) \in Nat /\ (n + Above(k)) + 1 <= Top /\ (n + Above(k)) + 1 = n + 1 + Above(k)
    BY Sizes, LaneOK
  <2>2. 2^((n + Above(k)) + 1) = 2 * 2^(n + Above(k)) /\ 2^(n + Above(k)) \in Nat
    BY <2>1, Sizes, PowerNext
  <2> QED BY <2>1, <2>2
<1> HIDE DEF t, u, v0, f, x, e
<1>5. t - v0 = (2 * f) * x + e * f
  BY <1>1, <1>2, <1>3, <1>4
<1>6. (2 * f) * x + e * f = f * (2 * x + e) /\ 2 * x + e \in Int
  BY <1>1, <1>2, <1>4
<1> QED BY <1>5, <1>6 DEF t, v0, f, x, e

\* What the four sums come to.
SumsEnd(s) ==
    /\ s[0] = mult[1] /\ s[1] = mult[2]
    /\ s[2] \in Int /\ s[3] \in Int /\ s[2] + 2^Half * s[3] = mult[3]

LEMMA SumsAreWhole ==
  ASSUME MultOK, NEW s, SumsAt(s, 0)
  PROVE  SumsEnd(s)
<1>1. /\ Half \in Nat /\ Half = ByteBits * Len /\ 2 * Half = ByteBits * (2 * Len)
      /\ 0 + 0 = 0 /\ 0 + Half = Half /\ Half + 0 = Half /\ Half + Half = 2 * Half /\ 2^0 = 1
  BY Sizes DEF PowersUpTo
<1>2. 0 \in Lanes /\ 1 \in Lanes /\ 2 \in Lanes /\ 3 \in Lanes
  BY DEF Lanes
<1>3. ASSUME NEW k \in {0, 1} PROVE s[k] = Lane(k)
  <2>1. Multiplier(Lane(k), Len, Width(k))
    BY <1>2, LaneOK DEF Whole, BytesOf
  <2>2. Found(Lane(k), Len, Width(k), 0) = 0 /\ Found(Lane(k), Len, Width(k), Half) = Lane(k)
    BY <1>1, <2>1, FoundEnds
  <2>3. Above(k) = 0
    BY DEF Above
  <2>4. FoundIn(k, 0) = 0 /\ FoundIn(k, Half) = Lane(k)
    BY <1>1, <2>2, <2>3 DEF FoundIn, Whole, BytesOf
  <2>5. s[k] \in Int /\ FoundIn(k, Half) - FoundIn(k, 0) = 2^0 * s[k]
    <3>1. k \in Lanes
      BY <1>2
    <3> QED BY <1>1, <2>3, <3>1 DEF SumsAt
  <2>6. Lane(k) \in Int
    BY <2>1 DEF Multiplier
  <2> QED BY <1>1, <2>4, <2>5, <2>6
<1> DEFINE x == mult[3]  t(p) == Found(x, 2 * Len, WG, p)  a == t(Half)
<1>4. Multiplier(x, 2 * Len, WG)
  BY <1>2, LaneOK DEF Whole, BytesOf, Width
<1>5. t(0) = 0 /\ t(2 * Half) = x
  BY <1>1, <1>4, FoundEnds
<1>6. /\ FoundIn(2, 0) = t(0) /\ FoundIn(2, Half) = t(Half)
      /\ FoundIn(3, 0) = t(Half) /\ FoundIn(3, Half) = t(2 * Half)
  BY <1>1 DEF FoundIn, Whole, BytesOf, Width, Above
<1>7. s[2] \in Int /\ FoundIn(2, Half) - FoundIn(2, 0) = 2^0 * s[2]
  BY <1>1, <1>2 DEF SumsAt, Above
<1>8. s[3] \in Int /\ FoundIn(3, Half) - FoundIn(3, 0) = 2^Half * s[3]
  BY <1>1, <1>2 DEF SumsAt, Above
<1>9. t(Half) \in Int /\ x \in Int /\ 2^Half \in Int
  <2>1. FoundIn(3, 0) \in Int
    <3>1. 0 \in 0..(Half - 1)
      BY Sizes
    <3> QED BY <1>2, <3>1, LaneDigit DEF LaneDigitOK
  <2> QED BY <1>4, <1>6, <2>1, HalfPowers DEF Multiplier
<1>10. s[0] = mult[1] /\ s[1] = mult[2]
  BY <1>3 DEF Lane
<1>11. a - 0 = 1 * s[2] /\ x - a = 2^Half * s[3] /\ a \in Int
  BY <1>1, <1>5, <1>6, <1>7, <1>8, <1>9
<1> DEFINE y == 2^Half * s[3]
<1> HIDE DEF x, t, a
<1>12. y \in Int /\ x - a = y
  BY <1>8, <1>9, <1>11
<1> HIDE DEF y
<1>13. s[2] + y = x
  BY <1>7, <1>9, <1>11, <1>12
<1> QED BY <1>7, <1>8, <1>10, <1>13 DEF SumsEnd, x, y

-----------------------------------------------------------------------------
(***************************************************************************)
(* The steps.                                                              *)
(***************************************************************************)
LEMMA SameMult ==
  ASSUME UNCHANGED mult
  PROVE  \A k \in Lanes :
            /\ Whole(k)' = Whole(k) /\ LaneBits(k)' = LaneBits(k)
            /\ \A p : TrueDigit(k, p)' = TrueDigit(k, p) /\ FoundIn(k, p)' = FoundIn(k, p)
<1> SUFFICES ASSUME NEW k \in Lanes
             PROVE  /\ Whole(k)' = Whole(k) /\ LaneBits(k)' = LaneBits(k)
                    /\ \A p : TrueDigit(k, p)' = TrueDigit(k, p) /\ FoundIn(k, p)' = FoundIn(k, p)
  OBVIOUS
<1>1. Lane(k)' = Lane(k) /\ Lane(3)' = Lane(3)
  BY DEF Lane
<1>2. Whole(k)' = Whole(k)
  BY <1>1 DEF Whole
<1>3. LaneBits(k)' = LaneBits(k)
  BY <1>1, <1>2 DEF LaneBits
<1>4. ASSUME NEW p PROVE TrueDigit(k, p)' = TrueDigit(k, p) /\ FoundIn(k, p)' = FoundIn(k, p)
  BY <1>2 DEF TrueDigit, FoundIn
<1> QED BY <1>2, <1>3, <1>4

\* Everything but the loop's own variables stays.
LEMMA SameCall ==
  ASSUME UNCHANGED <<build, q1, s1, s2, q2, mult, neg0, neg1>>
  PROVE  /\ ArgsOK => ArgsOK'
         /\ MultOK => MultOK'
         /\ AnswerOK => AnswerOK'
         /\ \A k \in Lanes : Base(k)' = Base(k)
<1>1. (ArgsOK => ArgsOK') /\ (MultOK => MultOK')
  BY DEF ArgsOK, MultOK
<1>2. AnswerOK => AnswerOK'
  <2>1. C0' = C0 /\ C1' = C1
    BY DEF C0, C1
  <2> QED BY <2>1 DEF AnswerOK
<1>3. \A k \in Lanes : Base(k)' = Base(k)
  BY DEF Base, Oriented
<1> QED BY <1>1, <1>2, <1>3

LEMMA PrepareIsRight ==
  ASSUME ArgsOK, MultOK, sums = [k \in Lanes |-> 0], Prepare
  PROVE  LoopOK'
<1>1. /\ UNCHANGED <<build, q1, s1, s2, q2, mult, neg0, neg1, sums>> /\ UNCHANGED mult
      /\ i' = Half - 1 /\ q3' = Infinity /\ dbl' = 0 /\ pc' = "loop"
  BY DEF Prepare, args
<1>2. /\ \A k \in Lanes : Base(k)' = Base(k)
      /\ \A k \in Lanes :
            /\ Whole(k)' = Whole(k) /\ LaneBits(k)' = LaneBits(k)
            /\ \A p : TrueDigit(k, p)' = TrueDigit(k, p) /\ FoundIn(k, p)' = FoundIn(k, p)
  BY <1>1, SameCall, SameMult
<1>3. i' \in -1..(Half - 1) /\ pc' # "done" /\ Half \in Nat
  BY <1>1, Sizes
<1>4. DigitsOK'
  <2> SUFFICES ASSUME NEW k \in Lanes, NEW p \in 0..(Half - 1)
               PROVE  /\ build = "avx2" => rc'[k][p] = TrueDigit(k, p)
                      /\ build = "ref" => (p \in rcbf'[k] <=> TrueDigit(k, p) # 0)
    BY <1>1, <1>2 DEF DigitsOK
  <2>1. /\ DigitsOfLane(k)[p] = TrueDigit(k, p)
        /\ p \in Positions(k) <=> TrueDigit(k, p) # 0
    BY DigitsPrepared
  <2>2. build = "avx2" => rc'[k] = DigitsOfLane(k)
    BY DEF Prepare
  <2>3. build = "ref" => rcbf'[k] = Positions(k)
    BY DEF Prepare
  <2> QED BY <2>1, <2>2, <2>3
<1>5. AccOK'
  <2> SUFFICES ASSUME NEW k \in Lanes, build = "ref"
               PROVE  AccRight(acc'[k], LaneBits(k), (Half - 1) \div ByteBits)
    BY <1>1, <1>2 DEF AccOK
  <2>1. acc'[k] = FirstBytes(k)
    BY DEF Prepare
  <2> QED BY <2>1, AccPrepared
<1>6. WindowsOK'
  <2> SUFFICES ASSUME NEW k \in Lanes PROVE WindowRight(window'[k], Width(k), Base(k))
    BY <1>2 DEF WindowsOK
  <2>1. window'[k] = CASE k = 0 -> OddMultiples(Oriented(q1, neg0), W)
                      [] k = 1 -> OddMultiples(Oriented(q2, ~neg1), W)
                      [] k = 2 -> window_odd7_G
                      [] k = 3 -> window_odd7_G128
    BY DEF Prepare
  <2>2. /\ WindowRight(OddMultiples(Oriented(q1, neg0), W), W, Base(0))
        /\ WindowRight(OddMultiples(Oriented(q2, ~neg1), W), W, Base(1))
        /\ WindowRight(window_odd7_G, WG, Base(2))
        /\ WindowRight(window_odd7_G128, WG, Base(3))
    BY WindowsPrepared
  <2>3. CASE k = 0
    BY <2>1, <2>2, <2>3 DEF Width
  <2>4. CASE k = 1
    BY <2>1, <2>2, <2>4 DEF Width
  <2>5. CASE k = 2
    BY <2>1, <2>2, <2>5 DEF Width
  <2>6. CASE k = 3
    BY <2>1, <2>2, <2>6 DEF Width
  <2> QED BY <2>3, <2>4, <2>5, <2>6 DEF Lanes
<1>7. SumsOK'
  <2>1. SumsAt(sums, Half)
    BY SumsStart
  <2>2. i' + 1 = Half
    BY <1>1, <1>3
  <2> QED BY <1>1, <1>2, <2>1, <2>2 DEF SumsOK, SumsAt
<1>8. HornerOK'
  <2>1. dbl' \in 0..(Half - 1 - i')
    BY <1>1, <1>3
  <2>2. Infinity \in Points /\ Log(Infinity) = 0
    BY Order DEF Infinity, Points, Log
  <2>3. Total' = 0
    <3>1. sums'[0] = 0 /\ sums'[1] = 0 /\ sums'[2] = 0 /\ sums'[3] = 0
      BY <1>1 DEF Lanes
    <3>2. Base(0) \in Int /\ Base(1) \in Int /\ Base(2) \in Int /\ Base(3) \in Int
      BY BaseInt DEF Lanes
    <3>3. Base(0)' = Base(0) /\ Base(1)' = Base(1) /\ Base(2)' = Base(2) /\ Base(3)' = Base(3)
      BY <1>2 DEF Lanes
    <3>4. Total' = 0 * Base(0) + 0 * Base(1) + 0 * Base(2) + 0 * Base(3)
      BY <3>1, <3>3 DEF Total
    <3> QED BY <3>2, <3>4
  <2>4. 2^0 * 0 = 0 /\ Congruent(0, 0, N)
    <3>1. 2^0 = 1
      BY Sizes DEF PowersUpTo
    <3> QED BY <3>1, Order, CongruentRefl
  <2>5. 2^dbl' * Log(q3') = 0 /\ q3' \in Points
    BY <1>1, <2>2, <2>4
  <2> QED BY <2>1, <2>3, <2>4, <2>5 DEF HornerOK, Log
<1> QED BY <1>3, <1>4, <1>5, <1>6, <1>7, <1>8 DEF LoopOK

LEMMA AdvanceIsRight ==
  ASSUME ArgsOK, MultOK, LoopOK, pc = "loop", Advance
  PROVE  /\ i \in 0..(Half - 1) /\ i' = i - 1 /\ pc' = "loop"
         /\ \A k \in Lanes : Digit(k) = TrueDigit(k, i)
         /\ DigitsOK' /\ AccOK' /\ WindowsOK' /\ SumsOK'
         /\ Total' = 2 * Total + Added /\ Total \in Int /\ Added \in Int
<1>1. /\ UNCHANGED <<build, q1, s1, s2, q2, mult, neg0, neg1, rcbf, rc, window>>
      /\ UNCHANGED <<build, q1, s1, s2, q2, mult, neg0, neg1>> /\ UNCHANGED mult
      /\ i' = i - 1 /\ pc' = "loop" /\ i >= 0
      /\ sums' = [k \in Lanes |-> 2 * sums[k] + Digit(k)]
      /\ acc' = IF build = "ref" THEN [k \in Lanes |-> NextBytes(k)] ELSE acc
  BY DEF Advance, args, prepared
<1>2. /\ \A k \in Lanes : Base(k)' = Base(k)
      /\ \A k \in Lanes :
            /\ Whole(k)' = Whole(k) /\ LaneBits(k)' = LaneBits(k)
            /\ \A p : TrueDigit(k, p)' = TrueDigit(k, p) /\ FoundIn(k, p)' = FoundIn(k, p)
  BY <1>1, SameCall, SameMult
<1>3. i \in 0..(Half - 1) /\ Half \in Nat /\ DigitsOK /\ AccOK /\ WindowsOK /\ SumsOK
  BY <1>1, Sizes DEF LoopOK
<1>4. \A k \in Lanes : Digit(k) = TrueDigit(k, i)
  BY <1>3, DigitIsTrue
<1>5. DigitsOK'
  BY <1>1, <1>2, <1>3 DEF DigitsOK
<1>6. AccOK'
  <2> SUFFICES ASSUME NEW k \in Lanes, build = "ref", i - 1 >= 0
               PROVE  AccRight(acc'[k], LaneBits(k), (i - 1) \div ByteBits)
    BY <1>1, <1>2 DEF AccOK
  <2>1. acc'[k] = NextBytes(k)
    BY <1>1
  <2>2. i \in 1..(Half - 1)
    BY <1>3
  <2> QED BY <1>3, <2>1, <2>2, AccStep
<1>7. WindowsOK'
  BY <1>1, <1>2, <1>3 DEF WindowsOK
<1>8. SumsOK'
  <2> DEFINE d == [k \in Lanes |-> Digit(k)]  s == [k \in Lanes |-> 2 * sums[k] + d[k]]
  <2>1. \A k \in Lanes : d[k] = TrueDigit(k, i)
    BY <1>4
  <2>2. sums' = s
    BY <1>1
  <2>3. SumsAt(sums, i + 1)
    BY <1>3 DEF SumsOK
  <2> HIDE DEF d
  <2>4. SumsAt(s, i)
    BY <1>3, <2>1, <2>3, SumsStep
  <2>5. i' + 1 = i
    BY <1>1, <1>3
  <2> HIDE DEF s
  <2>6. \A k \in Lanes : s[k] \in Int /\ FoundIn(k, Half) - FoundIn(k, i) = 2^(i + Above(k)) * s[k]
    BY <2>4 DEF SumsAt
  <2>7. \A k \in Lanes : /\ sums'[k] \in Int
                         /\ FoundIn(k, Half) - FoundIn(k, i) = 2^(i + Above(k)) * sums'[k]
    BY <2>2, <2>6
  <2> QED BY <1>2, <2>5, <2>7 DEF SumsOK, SumsAt
<1>9. Total' = 2 * Total + Added /\ Total \in Int /\ Added \in Int
  <2>1. 0 \in Lanes /\ 1 \in Lanes /\ 2 \in Lanes /\ 3 \in Lanes
    BY DEF Lanes
  <2>2. ASSUME NEW k \in Lanes
        PROVE  /\ Base(k) \in Int /\ Base(k)' = Base(k) /\ sums[k] \in Int /\ Digit(k) \in Int
               /\ sums'[k] = 2 * sums[k] + Digit(k)
    <3>1. sums[k] \in Int
      BY <1>3 DEF SumsOK, SumsAt
    <3>2. Digit(k) \in Int
      BY <1>3, <1>4, LaneDigit DEF LaneDigitOK
    <3> QED BY <1>1, <1>2, <3>1, <3>2, BaseInt
  <2> DEFINE s(k) == sums[k] * Base(k)  d(k) == Digit(k) * Base(k)
  <2>3. ASSUME NEW k \in Lanes
        PROVE  sums'[k] * Base(k)' = 2 * s(k) + d(k) /\ s(k) \in Int /\ d(k) \in Int
    <3> DEFINE x == sums[k]  y == Digit(k)  b == Base(k)
    <3>1. x \in Int /\ y \in Int /\ b \in Int /\ sums'[k] * Base(k)' = (2 * x + y) * b
      BY <2>2
    <3> HIDE DEF x, y, b
    <3>2. (2 * x + y) * b = 2 * (x * b) + y * b /\ x * b \in Int /\ y * b \in Int
      BY <3>1
    <3> QED BY <3>1, <3>2 DEF x, y, b
  <2>4. Total' = (2 * s(0) + d(0)) + (2 * s(1) + d(1)) + (2 * s(2) + d(2)) + (2 * s(3) + d(3))
    <3>1. Total' = sums'[0] * Base(0)' + sums'[1] * Base(1)' + sums'[2] * Base(2)' + sums'[3] * Base(3)'
      BY DEF Total
    <3> QED BY <2>1, <2>3, <3>1
  <2>5. Total = s(0) + s(1) + s(2) + s(3) /\ Added = d(0) + d(1) + d(2) + d(3)
    BY DEF Total, Added
  <2>6. /\ s(0) \in Int /\ s(1) \in Int /\ s(2) \in Int /\ s(3) \in Int
        /\ d(0) \in Int /\ d(1) \in Int /\ d(2) \in Int /\ d(3) \in Int
    BY <2>1, <2>3
  <2> HIDE DEF s, d
  <2> QED BY <2>4, <2>5, <2>6
<1> QED BY <1>1, <1>3, <1>4, <1>5, <1>6, <1>7, <1>8, <1>9

\* What q3 is, doubled d times.
LEMMA DoubledTotal ==
  ASSUME ArgsOK, MultOK, LoopOK, NEW d \in {dbl, dbl + 1}, d \in 0..Top
  PROVE  /\ q3 \in Points /\ 2^d * Log(q3) \in Int
         /\ Is(Doubled(q3, d), 2^d * Log(q3))
         /\ d = dbl => Congruent(2^d * Log(q3), Total, N)
         /\ d = dbl + 1 => Congruent(2^d * Log(q3), 2 * Total, N)
<1>1. dbl \in Nat /\ q3 \in Points /\ Congruent(2^dbl * Log(q3), Total, N)
  BY Sizes DEF LoopOK, HornerOK
<1> DEFINE l == Log(q3)
<1>2. l \in Int /\ N \in Int
  BY <1>1, PointTypes, Order
<1>3. Is(q3, l)
  <2> HIDE DEF l
  <2>1. Congruent(l, l, N)
    BY <1>2, CongruentRefl
  <2> QED BY <1>1, <2>1 DEF Is, l
<1>4. Is(Doubled(q3, d), 2^d * l)
  BY <1>2, <1>3, DoubledIs
<1>5. Total \in Int
  <2>1. ASSUME NEW k \in Lanes PROVE sums[k] * Base(k) \in Int
    <3>1. sums[k] \in Int /\ Base(k) \in Int
      BY BaseInt DEF LoopOK, SumsOK, SumsAt
    <3> QED BY <3>1
  <2>2. /\ sums[0] * Base(0) \in Int /\ sums[1] * Base(1) \in Int /\ sums[2] * Base(2) \in Int
        /\ sums[3] * Base(3) \in Int
    BY <2>1 DEF Lanes
  <2> QED BY <2>2 DEF Total
<1>6. 2^d \in Int /\ 2^d * l \in Int
  <2>1. 2^d \in Int
    BY Sizes, Power
  <2> QED BY <1>2, <2>1
<1>7. ASSUME d = dbl + 1 PROVE Congruent(2^d * l, 2 * Total, N)
  <2> DEFINE f == 2^dbl  x == f * l
  <2>1. 2^(dbl + 1) = 2 * f /\ f \in Nat
    <3>1. dbl + 1 <= Top
      BY <1>7, Sizes
    <3> QED BY <1>1, <3>1, Sizes, PowerNext
  <2>2. x \in Int /\ 2 \in Int /\ Congruent(x, Total, N)
    BY <1>1, <1>2, <2>1
  <2> HIDE DEF l, f
  <2>3. 2^d * l = 2 * x
    BY <1>2, <1>7, <2>1
  <2>4. Congruent(2, 2, N)
    BY <1>2, CongruentRefl
  <2> HIDE DEF x
  <2>5. Congruent(2 * x, 2 * Total, N)
    BY <1>2, <1>5, <2>2, <2>4, CongruentProduct
  <2> QED BY <2>3, <2>5
<1> QED BY <1>1, <1>4, <1>6, <1>7

\* A point with the logarithm of the total, nothing left to double.
LEMMA NothingDue ==
  ASSUME NEW P, NEW x \in Int, NEW t \in Int, Is(P, x), Congruent(x, t, N)
  PROVE  P \in Points /\ Congruent(2^0 * Log(P), t, N) /\ Is(P, t)
<1> DEFINE l == Log(P)
<1>1. P \in Points /\ Congruent(l, x, N)
  BY DEF Is
<1>2. l \in Int /\ N \in Int
  BY <1>1, PointTypes, Order
<1>3. 2^0 * l = l
  <2>1. 2^0 = 1
    BY Sizes DEF PowersUpTo
  <2> QED BY <1>2, <2>1
<1>4. Congruent(l, t, N)
  <2> HIDE DEF l
  <2> QED BY <1>1, <1>2, CongruentTrans
<1> QED BY <1>1, <1>3, <1>4 DEF Is

LEMMA TurnIsRight ==
  ASSUME ArgsOK, MultOK, LoopOK, pc = "loop", Skip \/ Accumulate
  PROVE  LoopOK'
<1>1. Advance
  BY DEF Skip, Accumulate
<1>2. /\ i \in 0..(Half - 1) /\ i' = i - 1 /\ pc' = "loop"
      /\ \A k \in Lanes : Digit(k) = TrueDigit(k, i)
      /\ DigitsOK' /\ AccOK' /\ WindowsOK' /\ SumsOK'
      /\ Total' = 2 * Total + Added /\ Total \in Int /\ Added \in Int
  BY <1>1, AdvanceIsRight
<1>3. dbl \in 0..(Half - 1 - i) /\ WindowsOK /\ Half \in Nat /\ N \in Int /\ q3 \in Points
  BY Sizes, Order DEF LoopOK, HornerOK
<1>4. dbl + 1 \in 0..Top /\ dbl + 1 \in 0..(Half - 1 - i') /\ 0 \in 0..(Half - 1 - i')
  BY <1>2, <1>3, Sizes
<1> DEFINE d == dbl + 1  x == 2^d * Log(q3)
<1>5. /\ q3 \in Points /\ x \in Int /\ Is(Doubled(q3, d), x) /\ Congruent(x, 2 * Total, N)
  <2>1. d \in {dbl, dbl + 1} /\ d = dbl + 1 /\ d \in 0..Top
    BY <1>4
  <2> HIDE DEF d
  <2> QED BY <2>1, DoubledTotal
<1>6. Congruent(x + Added, Total', N) /\ x + Added \in Int /\ Total' \in Int
  <2> DEFINE t == 2 * Total
  <2>1. t \in Int /\ Congruent(x, t, N) /\ x \in Int /\ Congruent(Added, Added, N)
        /\ Total' = t + Added
    BY <1>2, <1>3, <1>5, CongruentRefl
  <2> HIDE DEF t, x
  <2>2. Congruent(x + Added, t + Added, N)
    BY <1>2, <1>3, <2>1, CongruentSum
  <2> QED BY <1>2, <2>1, <2>2
<1>7. HornerOK'
  <2>1. CASE Skip
    <3>1. dbl' = d /\ q3' = q3 /\ \A k \in Lanes : Digit(k) = 0
      BY <2>1 DEF Skip
    <3>2. Added = 0
      <4>1. ASSUME NEW k \in Lanes PROVE Digit(k) * Base(k) = 0
        <5>1. Base(k) \in Int /\ Digit(k) = 0
          BY <3>1, BaseInt
        <5> QED BY <5>1
      <4>2. Digit(0) * Base(0) = 0 /\ Digit(1) * Base(1) = 0 /\ Digit(2) * Base(2) = 0
            /\ Digit(3) * Base(3) = 0
        BY <4>1 DEF Lanes
      <4> QED BY <4>2 DEF Added
    <3>3. 2^dbl' * Log(q3)' = x
      BY <3>1 DEF Log
    <3>4. x + Added = x
      <4> HIDE DEF x
      <4> QED BY <1>5, <3>2
    <3> HIDE DEF x, d
    <3>5. Congruent(2^dbl' * Log(q3)', Total', N)
      BY <1>6, <3>3, <3>4
    <3>6. dbl' \in 0..(Half - 1 - i')
      BY <1>4, <3>1 DEF d
    <3> QED BY <1>5, <3>1, <3>5, <3>6 DEF HornerOK
  <2>2. CASE Accumulate
    <3>1. dbl' = 0 /\ q3' = AddDigits(Doubled(q3, d))
      BY <2>2 DEF Accumulate
    <3> DEFINE P == AddDigits(Doubled(q3, d))
    <3>2. Is(P, x + Added)
      <4> HIDE DEF d, x
      <4> QED BY <1>2, <1>3, <1>5, AddDigitsIs
    <3> HIDE DEF x, P
    <3>3. P \in Points /\ Congruent(2^0 * Log(P), Total', N)
      BY <1>6, <3>2, NothingDue
    <3>4. q3' = P
      BY <3>1 DEF P
    <3>5. 2^dbl' * Log(q3)' = 2^0 * Log(P)
      BY <3>1, <3>4 DEF Log
    <3>6. Congruent(2^dbl' * Log(q3)', Total', N)
      BY <3>3, <3>5
    <3>7. dbl' \in 0..(Half - 1 - i')
      BY <1>4, <3>1
    <3> QED BY <3>3, <3>4, <3>6, <3>7 DEF HornerOK
  <2> QED BY <2>1, <2>2
<1>8. i' \in -1..(Half - 1) /\ pc' # "done"
  BY <1>2, <1>3
<1> QED BY <1>2, <1>7, <1>8 DEF LoopOK

\* The end: the doublings still due are done, and the total is known.
LEMMA FinishIsRight ==
  ASSUME ArgsOK, MultOK, LoopOK, Finish
  PROVE  /\ LoopOK' /\ Is(q3', Total) /\ i = -1 /\ SumsEnd(sums)
<1>1. /\ UNCHANGED <<build, q1, s1, s2, q2, mult, neg0, neg1, rcbf, rc, window, acc, i, sums>>
      /\ UNCHANGED <<build, q1, s1, s2, q2, mult, neg0, neg1>> /\ UNCHANGED mult
      /\ pc' = "done" /\ i < 0 /\ dbl' = 0
      /\ q3' = IF dbl > 0 THEN Doubled(q3, dbl) ELSE q3
  BY DEF Finish, args, prepared
<1>2. /\ \A k \in Lanes : Base(k)' = Base(k)
      /\ \A k \in Lanes :
            /\ Whole(k)' = Whole(k) /\ LaneBits(k)' = LaneBits(k)
            /\ \A p : TrueDigit(k, p)' = TrueDigit(k, p) /\ FoundIn(k, p)' = FoundIn(k, p)
  BY <1>1, SameCall, SameMult
<1>3. /\ i \in Int /\ i = -1 /\ i' = -1 /\ Half \in Nat /\ N \in Int /\ i' \in -1..(Half - 1)
      /\ dbl \in 0..(Half - 1 - i) /\ i + 1 = 0 /\ i' + 1 = 0
      /\ DigitsOK /\ AccOK /\ WindowsOK /\ SumsOK
  BY <1>1, Sizes, Order DEF LoopOK, HornerOK
<1>4. dbl \in 0..Top /\ dbl \in Nat
  BY <1>3, Sizes
<1> DEFINE x == 2^dbl * Log(q3)
<1>5. /\ q3 \in Points /\ x \in Int /\ Is(Doubled(q3, dbl), x) /\ Congruent(x, Total, N)
  BY <1>4, DoubledTotal
<1>6. Is(q3', x)
  <2>1. CASE dbl > 0
    BY <1>1, <1>5, <2>1
  <2>2. CASE ~(dbl > 0)
    <3>1. dbl = 0 /\ q3' = q3
      BY <1>1, <1>4, <2>2
    <3>2. 2^dbl = 1
      BY <3>1, Sizes DEF PowersUpTo
    <3> DEFINE l == Log(q3)
    <3>3. l \in Int
      BY <1>5, PointTypes
    <3> HIDE DEF l
    <3>4. Congruent(l, l, N) /\ 2^dbl * l = l
      BY <1>3, <3>2, <3>3, CongruentRefl
    <3> QED BY <1>5, <3>1, <3>4 DEF Is, l
  <2> QED BY <2>1, <2>2
<1>7. Total \in Int
  <2>1. ASSUME NEW k \in Lanes PROVE sums[k] * Base(k) \in Int
    <3>1. sums[k] \in Int /\ Base(k) \in Int
      BY BaseInt DEF LoopOK, SumsOK, SumsAt
    <3> QED BY <3>1
  <2>2. /\ sums[0] * Base(0) \in Int /\ sums[1] * Base(1) \in Int /\ sums[2] * Base(2) \in Int
        /\ sums[3] * Base(3) \in Int
    BY <2>1 DEF Lanes
  <2> QED BY <2>2 DEF Total
<1>8. q3' \in Points /\ Congruent(2^0 * Log(q3'), Total, N) /\ Is(q3', Total)
  <2> DEFINE P == q3'
  <2>1. Is(P, x)
    BY <1>6
  <2> HIDE DEF x, P
  <2>2. P \in Points /\ Congruent(2^0 * Log(P), Total, N) /\ Is(P, Total)
    BY <1>5, <1>7, <2>1, NothingDue
  <2> QED BY <2>2 DEF P
<1>9. Total' = Total
  BY <1>1, <1>2 DEF Total, Lanes
<1>10. HornerOK'
  <2>1. 2^dbl' * Log(q3)' = 2^0 * Log(q3')
    BY <1>1 DEF Log
  <2>2. dbl' \in 0..(Half - 1 - i')
    BY <1>1, <1>3
  <2>3. Congruent(2^dbl' * Log(q3)', Total', N)
    BY <1>8, <1>9, <2>1
  <2> QED BY <1>8, <2>2, <2>3 DEF HornerOK
<1>11. DigitsOK' /\ AccOK' /\ WindowsOK'
  BY <1>1, <1>2, <1>3 DEF DigitsOK, AccOK, WindowsOK
<1>12. SumsOK'
  BY <1>1, <1>2, <1>3 DEF SumsOK, SumsAt
<1>13. SumsEnd(sums)
  <2>1. SumsAt(sums, 0)
    BY <1>3 DEF SumsOK
  <2> QED BY <2>1, SumsAreWhole
<1> QED BY <1>1, <1>3, <1>8, <1>10, <1>11, <1>12, <1>13 DEF LoopOK

-----------------------------------------------------------------------------
(***************************************************************************)
(* The invariant.                                                          *)
(***************************************************************************)
LEMMA LoopSame ==
  ASSUME LoopOK, UNCHANGED vars
  PROVE  LoopOK'
<1>1. /\ UNCHANGED <<build, q1, s1, s2, q2, mult, neg0, neg1>> /\ UNCHANGED mult
      /\ UNCHANGED <<rcbf, rc, window, acc, i, dbl, q3, pc, sums>>
  BY DEF vars, args, prepared
<1>2. /\ \A k \in Lanes : Base(k)' = Base(k)
      /\ \A k \in Lanes :
            /\ Whole(k)' = Whole(k) /\ LaneBits(k)' = LaneBits(k)
            /\ \A p : TrueDigit(k, p)' = TrueDigit(k, p) /\ FoundIn(k, p)' = FoundIn(k, p)
  BY <1>1, SameCall, SameMult
<1>3. DigitsOK /\ AccOK /\ WindowsOK /\ SumsOK /\ HornerOK
  BY DEF LoopOK
<1>4. DigitsOK' /\ AccOK' /\ WindowsOK'
  BY <1>1, <1>2, <1>3 DEF DigitsOK, AccOK, WindowsOK
<1>5. SumsOK'
  BY <1>1, <1>2, <1>3 DEF SumsOK, SumsAt
<1>6. HornerOK'
  <2>1. Total' = Total
    BY <1>1, <1>2 DEF Total, Lanes
  <2> QED BY <1>1, <1>3, <2>1 DEF HornerOK, Log
<1> QED BY <1>1, <1>4, <1>5, <1>6 DEF LoopOK

LEMMA AnyPointOK ==
  ASSUME NEW log \in 0..(N - 1), NEW P \in AnyPoint(log)
  PROVE  P \in Points
<1>1. CASE log = 0
  <2>1. P \in [neutral : {TRUE}, at : {1, Junk}]
    BY <1>1 DEF AnyPoint
  <2>2. 1 \in Coordinates /\ Junk \in Coordinates
    BY Order
  <2> QED BY <2>1, <2>2 DEF Points
<1>2. CASE log # 0
  <2>1. log \in Int /\ 0 \in 0..(N - 1) /\ N \in Nat /\ N > 0
    BY Order
  <2>2. ~Congruent(log, 0, N)
    BY <1>2, <2>1, RemainderUnique
  <2>3. Is(Multiple(log), log)
    BY <2>1, <2>2, MultipleIs
  <2> QED BY <1>2, <2>3 DEF AnyPoint, Is
<1> QED BY <1>1, <1>2

LEMMA VerifyInit == Init => VerifyOK
<1> SUFFICES ASSUME Init PROVE VerifyOK
  OBVIOUS
<1>1. /\ build \in {"ref", "avx2"} /\ s1 \in Nat /\ s2 \in Nat
      /\ pc = "reduce" /\ verdict = "none" /\ sums = [k \in Lanes |-> 0]
  BY VerifyAssumption DEF Init
<1>2. PICK log \in Logs, error \in Errors :
         /\ q1 \in AnyPoint(log)
         /\ q2 \in AnyPoint((s1 * log + s2 + error) % N)
  BY DEF Init
<1>3. log \in 0..(N - 1) /\ error \in 0..(N - 1) /\ N \in Nat /\ N > 0
  BY VerifyAssumption, Order
<1>4. ((s1 * log + s2 + error) % N) \in 0..(N - 1)
  <2> DEFINE x == s1 * log + s2 + error
  <2>1. x \in Int
    BY <1>1, <1>3
  <2> HIDE DEF x
  <2>2. (x % N) \in 0..(N - 1)
    BY <1>3, <2>1, ModCongruent
  <2> QED BY <2>2 DEF x
<1>5. q1 \in Points /\ q2 \in Points
  BY <1>2, <1>3, <1>4, AnyPointOK
<1> QED BY <1>1, <1>5 DEF VerifyOK, ArgsOK

LEMMA VerifyNext == VerifyOK /\ Next => VerifyOK'
<1> SUFFICES ASSUME VerifyOK, Next PROVE VerifyOK'
  OBVIOUS
<1>1. ArgsOK /\ (pc # "done" => verdict = "none")
  BY DEF VerifyOK
<1>2. CASE Reduce
  <2>1. MultOK' /\ AnswerOK'
    BY <1>1, <1>2, ReduceIsRight
  <2>2. pc = "reduce" /\ pc' = "prepare" /\ UNCHANGED <<build, q1, s1, s2, q2, verdict, sums>>
    BY <1>2 DEF Reduce, args
  <2>3. ArgsOK' /\ sums' = [k \in Lanes |-> 0] /\ verdict' = "none"
    BY <1>1, <2>2 DEF ArgsOK, VerifyOK
  <2> QED BY <2>1, <2>2, <2>3 DEF VerifyOK
<1>3. CASE Prepare
  <2>1. /\ pc = "prepare" /\ pc' = "loop" /\ UNCHANGED verdict
        /\ UNCHANGED <<build, q1, s1, s2, q2, mult, neg0, neg1>>
    BY <1>3 DEF Prepare, args
  <2>2. MultOK /\ AnswerOK /\ sums = [k \in Lanes |-> 0]
    BY <2>1 DEF VerifyOK
  <2>3. LoopOK'
    BY <1>1, <1>3, <2>2, PrepareIsRight
  <2>4. ArgsOK' /\ MultOK' /\ AnswerOK'
    BY <1>1, <2>1, <2>2, SameCall
  <2> QED BY <1>1, <2>1, <2>3, <2>4 DEF VerifyOK
<1>4. CASE Skip \/ Accumulate
  <2>1. Advance
    BY <1>4 DEF Skip, Accumulate
  <2>2. /\ pc = "loop" /\ pc' = "loop" /\ UNCHANGED verdict
        /\ UNCHANGED <<build, q1, s1, s2, q2, mult, neg0, neg1>>
    BY <2>1 DEF Advance, args, prepared
  <2>3. MultOK /\ AnswerOK /\ LoopOK
    BY <2>2 DEF VerifyOK
  <2>4. LoopOK'
    BY <1>1, <1>4, <2>2, <2>3, TurnIsRight
  <2>5. ArgsOK' /\ MultOK' /\ AnswerOK'
    BY <1>1, <2>2, <2>3, SameCall
  <2> QED BY <1>1, <2>2, <2>4, <2>5 DEF VerifyOK
<1>5. CASE Finish
  <2>1. /\ pc = "loop" /\ pc' = "done"
        /\ UNCHANGED <<build, q1, s1, s2, q2, mult, neg0, neg1>>
    BY <1>5 DEF Finish, args, prepared
  <2>2. MultOK /\ AnswerOK /\ LoopOK
    BY <2>1 DEF VerifyOK
  <2>3. LoopOK'
    BY <1>1, <1>5, <2>2, FinishIsRight
  <2>4. ArgsOK' /\ MultOK' /\ AnswerOK'
    BY <1>1, <2>1, <2>2, SameCall
  <2> QED BY <2>1, <2>3, <2>4 DEF VerifyOK
<1> QED BY <1>2, <1>3, <1>4, <1>5 DEF Next

LEMMA VerifyPreserved ==
  VerifyInv /\ [VerifyStep \/ RecodeStep]_<<vars, recoding>> => VerifyInv'
<1> SUFFICES ASSUME VerifyInv, [VerifyStep \/ RecodeStep]_<<vars, recoding>>, pc' # "recode"
             PROVE  VerifyOK'
  BY DEF VerifyInv
<1>1. CASE VerifyStep
  <2>1. Next
    BY <1>1 DEF VerifyStep
  <2>2. pc # "recode"
    BY <2>1 DEF Next, Reduce, Prepare, Skip, Accumulate, Advance, Finish
  <2> QED BY <2>1, <2>2, VerifyNext DEF VerifyInv
<1>2. CASE RecodeStep
  <2>1. pc = "recode" /\ pc' = pc
    BY <1>2 DEF RecodeStep, Recodes, verifying
  <2> QED BY <2>1
<1>3. CASE UNCHANGED <<vars, recoding>>
  <2>1. /\ UNCHANGED vars /\ UNCHANGED <<build, q1, s1, s2, q2, mult, neg0, neg1>>
        /\ UNCHANGED <<pc, verdict, sums>>
    BY <1>3 DEF vars, args, prepared
  <2>2. VerifyOK
    BY <2>1 DEF VerifyInv
  <2>3. LoopOK => LoopOK'
    BY <2>1, LoopSame
  <2>4. (ArgsOK => ArgsOK') /\ (MultOK => MultOK') /\ (AnswerOK => AnswerOK')
    BY <2>1, SameCall
  <2> QED BY <2>1, <2>2, <2>3, <2>4 DEF VerifyOK
<1> QED BY <1>1, <1>2, <1>3

LEMMA VerifyStarts == VerificationInit => VerifyInv
BY VerifyInit DEF VerificationInit, VerifyInv

LEMMA VerifyAlways == VerificationSpec => []VerifyInv
<1>1. VerificationInit => VerifyInv
  BY VerifyStarts
<1>2. VerifyInv /\ [VerifyStep \/ RecodeStep]_<<vars, recoding>> => VerifyInv'
  BY VerifyPreserved
<1> QED BY <1>1, <1>2, PTL DEF VerificationSpec

LEMMA HornerHolds == VerifyInv => Horner
<1> SUFFICES ASSUME VerifyInv, pc \in {"loop", "done"}
             PROVE  (Log(q3) * 2^dbl - Total) % N = 0
  BY DEF Horner, Total
<1>1. ArgsOK /\ MultOK /\ LoopOK
  BY DEF VerifyInv, VerifyOK
<1>2. dbl \in {dbl, dbl + 1} /\ dbl \in 0..Top /\ N \in Nat /\ N > 0
  BY <1>1, Sizes, Order DEF LoopOK, HornerOK
<1> DEFINE l == Log(q3)  f == 2^dbl
<1>3. Congruent(f * l, Total, N) /\ f \in Int
  BY <1>1, <1>2, Sizes, Power DEF LoopOK, HornerOK
<1>4. l \in Int
  BY <1>1, PointTypes DEF LoopOK, HornerOK
<1>5. Total \in Int
  <2>1. ASSUME NEW k \in Lanes PROVE sums[k] * Base(k) \in Int
    <3>1. sums[k] \in Int /\ Base(k) \in Int
      BY <1>1, BaseInt DEF LoopOK, SumsOK, SumsAt
    <3> QED BY <3>1
  <2>2. /\ sums[0] * Base(0) \in Int /\ sums[1] * Base(1) \in Int /\ sums[2] * Base(2) \in Int
        /\ sums[3] * Base(3) \in Int
    BY <2>1 DEF Lanes
  <2> QED BY <2>2 DEF Total
<1> HIDE DEF l, f
<1> DEFINE x == f * l
<1>6. x \in Int /\ l * f = x
  BY <1>3, <1>4
<1> HIDE DEF x
<1>7. (x - Total) % N = 0
  <2>1. Congruent(x, Total, N)
    BY <1>3 DEF x
  <2> QED BY <1>2, <1>5, <1>6, <2>1, DifferenceZero
<1> QED BY <1>6, <1>7 DEF l, f

\* The accumulator of the four-lane product is at every turn what the digits used so
\* far say, for every group, every length and window, and any answer of the
\* reduction.
THEOREM HornerAlways == VerificationSpec => []Horner
<1>1. VerificationSpec => []VerifyInv
  BY VerifyAlways
<1>2. VerifyInv => Horner
  BY HornerHolds
<1> QED BY <1>1, <1>2, PTL

LEMMA RestOfHalf ==
  ASSUME MultOK, i \in -1..(Half - 1), SumsOK, NEW k \in {0, 1}
  PROVE  Remains(Lane(k), sums[k], W, 1)
<1> DEFINE n == i + 1  x == Lane(k)  t(p) == Found(x, Len, W, p)
<1>1. /\ Half \in Nat /\ Half = ByteBits * Len /\ n \in 0..Half /\ n \in Nat /\ n \in 0..Top
      /\ W \in 3..ByteBits /\ n + W - 2 = i + W - 1
  BY Sizes
<1>2. k \in Lanes /\ Whole(k) = x /\ BytesOf(k) = Len /\ Width(k) = W /\ Above(k) = 0
  BY DEF Lanes, Whole, BytesOf, Width, Above
<1>3. Multiplier(x, Len, W)
  BY <1>2, LaneOK
<1>4. t(0) = 0 /\ t(Half) = x
  BY <1>1, <1>3, FoundEnds
<1>5. t(n) \in Int /\ Small(t(n), n, W)
  <2>1. n \in 0..(ByteBits * Len)
    BY <1>1
  <2>2. 0 \in 0..(ByteBits * Len)
    BY <1>1
  <2> HIDE DEF n, x
  <2>3. n \in n..(ByteBits * Len)
    BY <1>1, <2>1
  <2> QED BY <1>3, <2>1, <2>3, FoundSmall
<1>6. sums[k] \in Int /\ t(Half) - t(n) = 2^n * sums[k]
  <2>1. FoundIn(k, Half) = t(Half) /\ FoundIn(k, n) = t(n) /\ n + Above(k) = n
    <3>1. n + 0 = n /\ Half + 0 = Half
      BY <1>1
    <3> QED BY <1>2, <3>1 DEF FoundIn
  <2>2. sums[k] \in Int /\ FoundIn(k, Half) - FoundIn(k, n) = 2^(n + Above(k)) * sums[k]
    BY <1>2 DEF SumsOK, SumsAt
  <2> QED BY <2>1, <2>2
<1>7. 2^n \in Int /\ x \in Int
  BY <1>1, <1>3, Sizes, Power DEF Multiplier
<1> DEFINE f == 2^n  s == sums[k]  a == t(n)  b == 2^(n + W - 2)
<1>8. -b < a /\ a < b /\ a \in Int
  BY <1>5 DEF Small
<1>9. b \in Int
  <2>1. n + W - 2 \in 0..Top
    BY <1>1, Sizes
  <2> QED BY <2>1, Sizes, Power
<1>10. n = 0 => a = 0
  BY <1>4
<1> DEFINE y == f * s
<1>11. y \in Int /\ x - a = y
  <2>1. f \in Int /\ s \in Int /\ x - a = f * s
    BY <1>4, <1>6, <1>7
  <2> HIDE DEF f, s, a, x
  <2> QED BY <2>1
<1>12. i < 0 => n = 0
  BY <1>1
<1>13. b = 2^(i + W - 1) /\ y = 2^(i + 1) * sums[k]
  BY <1>1
<1> HIDE DEF a, b, y, x, n, t
<1>14. -1 * b < x - y /\ x - y < 1 * b /\ (i < 0 => x - y = 0)
  BY <1>7, <1>8, <1>9, <1>10, <1>11, <1>12
<1> QED BY <1>13, <1>14 DEF Remains, x

LEMMA RestOfProduct ==
  ASSUME MultOK, i \in -1..(Half - 1), SumsOK
  PROVE  Remains(mult[3], sums[2] + 2^Half * sums[3], WG, 2^Half + 1)
<1> DEFINE n == i + 1  x == mult[3]  t(p) == Found(x, 2 * Len, WG, p)
<1>1. /\ Half \in Nat /\ 2 * Half = ByteBits * (2 * Len) /\ n \in 0..Half /\ n \in Nat /\ n \in 0..Top
      /\ WG \in 3..ByteBits /\ n + WG - 2 = i + WG - 1 /\ ByteBits \in Nat
      /\ PowersUpTo(Top) /\ Top = 2 * Half + 2 * ByteBits
  BY Sizes
<1>2. 2 \in Lanes /\ 3 \in Lanes
  BY DEF Lanes
<1>3. Multiplier(x, 2 * Len, WG)
  BY <1>2, LaneOK DEF Whole, BytesOf, Width
<1>4. t(0) = 0 /\ t(2 * Half) = x
  BY <1>1, <1>3, FoundEnds
<1>5. t(n) \in Int /\ Small(t(n), n, WG)
  <2>1. n \in 0..(ByteBits * (2 * Len))
    BY <1>1
  <2> HIDE DEF n, x
  <2>2. n \in n..(ByteBits * (2 * Len))
    BY <1>1, <2>1
  <2> QED BY <1>3, <2>1, <2>2, FoundSmall
<1>6. /\ t(Half) \in Int /\ t(n + Half) \in Int
      /\ Small(t(n + Half) - t(Half), n + Half, WG)
  <2>1. Half \in 0..(ByteBits * (2 * Len)) /\ n + Half \in Half..(ByteBits * (2 * Len))
    BY <1>1
  <2> HIDE DEF n, x
  <2> QED BY <1>3, <2>1, FoundSmall
<1>7. /\ FoundIn(2, Half) = t(Half) /\ FoundIn(2, n) = t(n) /\ n + Above(2) = n
      /\ FoundIn(3, Half) = t(2 * Half) /\ FoundIn(3, n) = t(n + Half) /\ n + Above(3) = n + Half
  <2>1. n + 0 = n /\ Half + 0 = Half /\ Half + Half = 2 * Half
    BY <1>1
  <2> QED BY <2>1 DEF FoundIn, Whole, BytesOf, Width, Above
<1>8. /\ sums[2] \in Int /\ t(Half) - t(n) = 2^n * sums[2]
      /\ sums[3] \in Int /\ t(2 * Half) - t(n + Half) = 2^(n + Half) * sums[3]
  <2>1. ASSUME NEW k \in Lanes
        PROVE  sums[k] \in Int /\ FoundIn(k, Half) - FoundIn(k, n) = 2^(n + Above(k)) * sums[k]
    BY DEF SumsOK, SumsAt
  <2>2. sums[2] \in Int /\ FoundIn(2, Half) - FoundIn(2, n) = 2^(n + Above(2)) * sums[2]
    BY <1>2, <2>1
  <2>3. sums[3] \in Int /\ FoundIn(3, Half) - FoundIn(3, n) = 2^(n + Above(3)) * sums[3]
    BY <1>2, <2>1
  <2> QED BY <1>7, <2>2, <2>3
<1> DEFINE f == 2^n  h == 2^Half  s == sums[2]  u == sums[3]
           a == t(n)  e == t(n + Half)  z == t(Half)  b == 2^(n + WG - 2)
<1>9. f \in Int /\ h \in Int /\ 2^(n + Half) = f * h
  <2>1. n \in 0..Top /\ Half \in 0..Top /\ Half \in 0..(Top - n)
    BY <1>1
  <2>2. 2^(n + Half) = 2^n * 2^Half
    BY <1>1, <2>1 DEF PowersUpTo
  <2> QED BY <1>1, <2>1, <2>2, Power
<1>10. b \in Int /\ 2^(n + Half + WG - 2) = b * h
  <2>1. n + WG - 2 \in 0..Top /\ Half \in 0..(Top - (n + WG - 2))
        /\ (n + WG - 2) + Half = n + Half + WG - 2
    BY <1>1
  <2> DEFINE m == n + WG - 2
  <2>2. 2^(m + Half) = 2^m * 2^Half /\ 2^m \in Nat
    <3> HIDE DEF m
    <3>1. m \in 0..Top /\ Half \in 0..(Top - m)
      BY <2>1 DEF m
    <3> QED BY <1>1, <3>1, Power DEF PowersUpTo
  <2> QED BY <2>1, <2>2
<1>11. -b < a /\ a < b /\ a \in Int
  BY <1>5 DEF Small
<1>12. -(b * h) < e - z /\ e - z < b * h /\ e \in Int /\ z \in Int
  BY <1>6, <1>10 DEF Small
<1>13. n = 0 => a = 0 /\ e = z
  <2>1. 0 + Half = Half
    BY <1>1
  <2> QED BY <1>4, <2>1
<1>14. z - a = f * s /\ x - e = (f * h) * u /\ s \in Int /\ u \in Int /\ x \in Int
  BY <1>3, <1>4, <1>8, <1>9 DEF Multiplier
<1>15. i < 0 => n = 0
  BY <1>1
<1>16. b = 2^(i + WG - 1) /\ f = 2^(i + 1)
  BY <1>1
<1> HIDE DEF n, x, t, f, h, s, u, a, e, z, b
<1> DEFINE y == f * (s + h * u)  bh == b * h  p1 == f * s  p2 == (f * h) * u
<1>17. y = p1 + p2 /\ p1 \in Int /\ p2 \in Int /\ y \in Int /\ (h + 1) * b = bh + b /\ bh \in Int
       /\ -(h + 1) * b = -(bh + b)
  BY <1>9, <1>10, <1>14
<1> HIDE DEF y, bh, p1, p2
<1>18. -bh < e - z /\ e - z < bh /\ z - a = p1 /\ x - e = p2
  BY <1>12, <1>14 DEF bh, p1, p2
<1>19. x - y = (e - z) + a
  BY <1>11, <1>12, <1>14, <1>17, <1>18
<1>20. -(h + 1) * b < x - y /\ x - y < (h + 1) * b /\ (i < 0 => x - y = 0)
  BY <1>10, <1>11, <1>12, <1>13, <1>14, <1>15, <1>17, <1>18, <1>19
<1> QED BY <1>16, <1>20 DEF Remains, x, y, f, h, s, u, b, n

\* The digits formed on the fly leave a remainder of less than half a window, and
\* nothing in the end.
THEOREM DigitsConvergeAlways == VerificationSpec => []DigitsConverge
<1>1. VerificationSpec => []VerifyInv
  BY VerifyAlways
<1>2. VerifyInv => DigitsConverge
  <2> SUFFICES ASSUME VerifyInv, pc \in {"loop", "done"}
               PROVE  /\ Remains(mult[1], sums[0], W, 1)
                      /\ Remains(mult[2], sums[1], W, 1)
                      /\ Remains(mult[3], sums[2] + 2^Half * sums[3], WG, 2^Half + 1)
    BY DEF DigitsConverge
  <2>1. MultOK /\ i \in -1..(Half - 1) /\ SumsOK
    BY DEF VerifyInv, VerifyOK, LoopOK
  <2>2. Remains(Lane(0), sums[0], W, 1) /\ Remains(Lane(1), sums[1], W, 1)
    BY <2>1, RestOfHalf
  <2>3. Lane(0) = mult[1] /\ Lane(1) = mult[2]
    BY DEF Lane
  <2> QED BY <2>1, <2>2, <2>3, RestOfProduct
<1> QED BY <1>1, <1>2, PTL

-----------------------------------------------------------------------------
(***************************************************************************)
(* The decision: the total is C1 times the error in the equation.          *)
(***************************************************************************)
Off == s1 * Log(q1) + s2 - Log(q2)

LEMMA TermsOfAnswer ==
  ASSUME ArgsOK, MultOK
  PROVE  /\ Congruent(mult[1] * Base(0), C0 * Log(q1), N)
         /\ Congruent(mult[2] * Base(1), -(C1 * Log(q2)), N)
<1> DEFINE l1 == Log(q1)  l2 == Log(q2)  b0 == Base(0)  b1 == Base(1)
           m1 == mult[1]  m2 == mult[2]
           e1 == IF neg0 THEN -l1 ELSE l1  e2 == IF ~neg1 THEN -l2 ELSE l2
<1>1. /\ l1 \in Int /\ l2 \in Int /\ q1 \in Points /\ q2 \in Points
      /\ neg0 \in BOOLEAN /\ (~neg1) \in BOOLEAN /\ neg1 \in BOOLEAN /\ N \in Int
  BY PointTypes, Order DEF ArgsOK, MultOK
<1>2. m1 \in Int /\ m2 \in Int
  BY HalfPowers DEF MultOK
<1>3. Is(Oriented(q1, neg0), e1) /\ Is(Oriented(q2, ~neg1), e2)
  BY <1>1, OrientedIs
<1>4. Congruent(b0, e1, N) /\ Congruent(b1, e2, N)
  BY <1>3 DEF Is, Base
<1>5. b0 \in Int /\ b1 \in Int
  BY BaseInt DEF Lanes
<1>6. C0 = IF neg0 THEN -m1 ELSE m1
  BY DEF C0
<1>7. C1 = IF neg1 THEN -m2 ELSE m2
  BY DEF C1
<1>8. e1 \in Int /\ e2 \in Int
  <2> HIDE DEF l1, l2
  <2> QED BY <1>1
<1>9. m1 * e1 = C0 * l1
  <2> HIDE DEF l1, m1
  <2>1. CASE neg0
    <3>1. m1 * (-l1) = (-m1) * l1
      BY <1>1, <1>2
    <3> QED BY <1>6, <2>1, <3>1
  <2>2. CASE ~neg0
    BY <1>6, <2>2
  <2> QED BY <2>1, <2>2
<1>10. m2 * e2 = -(C1 * l2)
  <2> HIDE DEF l2, m2
  <2>1. CASE neg1
    <3>1. m2 * l2 = -((-m2) * l2)
      BY <1>1, <1>2
    <3> QED BY <1>7, <2>1, <3>1
  <2>2. CASE ~neg1
    <3>1. m2 * (-l2) = -(m2 * l2)
      BY <1>1, <1>2
    <3> QED BY <1>7, <2>2, <3>1
  <2> QED BY <2>1, <2>2
<1> HIDE DEF l1, l2, b0, b1, m1, m2, e1, e2
<1>11. Congruent(m1, m1, N) /\ Congruent(m2, m2, N)
  BY <1>1, <1>2, CongruentRefl
<1>12. Congruent(m1 * b0, m1 * e1, N) /\ Congruent(m2 * b1, m2 * e2, N)
  BY <1>1, <1>2, <1>4, <1>5, <1>8, <1>11, CongruentProduct
<1> QED BY <1>9, <1>10, <1>12 DEF l1, l2, b0, b1, m1, m2

LEMMA TotalIs ==
  ASSUME ArgsOK, MultOK, AnswerOK, SumsEnd(sums)
  PROVE  Congruent(Total, C1 * Off, N) /\ Total \in Int /\ C1 \in Int /\ Off \in Int
<1> DEFINE l1 == Log(q1)  l2 == Log(q2)  c1 == C1  c0 == C0  m3 == mult[3]
           x0 == mult[1] * Base(0)  x1 == mult[2] * Base(1)
<1>1. /\ l1 \in Int /\ l2 \in Int /\ N \in Int /\ s1 \in Int /\ s2 \in Int
  BY PointTypes, Order DEF ArgsOK
<1>2. mult[1] \in Int /\ mult[2] \in Int /\ m3 \in Int /\ neg0 \in BOOLEAN /\ neg1 \in BOOLEAN
  BY HalfPowers DEF MultOK
<1>3. c0 \in Int /\ c1 \in Int
  BY <1>2 DEF C0, C1
<1>4. x0 \in Int /\ x1 \in Int
  <2>1. Base(0) \in Int /\ Base(1) \in Int
    BY BaseInt DEF Lanes
  <2> QED BY <1>2, <2>1
<1>5. Total = x0 + x1 + m3
  <2>1. /\ sums[0] = mult[1] /\ sums[1] = mult[2]
        /\ sums[2] \in Int /\ sums[3] \in Int /\ sums[2] + 2^Half * sums[3] = m3
    BY DEF SumsEnd
  <2>2. Base(2) = 1 /\ Base(3) = 2^Half /\ 2^Half \in Int
    BY HalfPowers DEF Base
  <2> DEFINE h == 2^Half  s == sums[2]  u == sums[3]
  <2>3. Total = x0 + x1 + s * 1 + u * h
    BY <2>1, <2>2 DEF Total
  <2>4. s \in Int /\ u \in Int /\ h \in Int /\ s + h * u = m3
    BY <2>1, <2>2
  <2> HIDE DEF h, s, u, x0, x1, m3
  <2>5. s * 1 + u * h = m3
    BY <2>4
  <2>6. s * 1 \in Int /\ u * h \in Int
    BY <2>4
  <2> DEFINE p == s * 1  q == u * h
  <2> HIDE DEF p, q
  <2>7. Total = x0 + x1 + p + q /\ p + q = m3 /\ p \in Int /\ q \in Int
    BY <2>3, <2>5, <2>6 DEF p, q
  <2> QED BY <1>4, <2>7
<1>6. Congruent(x0, c0 * l1, N) /\ Congruent(x1, -(c1 * l2), N)
  BY TermsOfAnswer
<1>7. Congruent(c0, c1 * s1, N) /\ Congruent(m3, c1 * s2, N)
  BY DEF AnswerOK
<1>8. Off = s1 * l1 + s2 - l2
  BY DEF Off
<1> HIDE DEF l1, l2, c1, c0, m3, x0, x1
<1> DEFINE p0 == c0 * l1  p1 == c1 * l2  p2 == c1 * s2  e == c1 * s1  p3 == e * l1
<1>9. /\ p0 \in Int /\ p1 \in Int /\ p2 \in Int /\ e \in Int /\ p3 \in Int /\ -p1 \in Int
      /\ Off \in Int
  BY <1>1, <1>3, <1>8
<1>10. Congruent(p0, p3, N)
  <2>1. Congruent(c0, e, N) /\ Congruent(l1, l1, N)
    BY <1>1, <1>7, CongruentRefl
  <2> HIDE DEF e
  <2> QED BY <1>1, <1>3, <1>9, <2>1, CongruentProduct
<1>11. c1 * Off = p3 - p1 + p2
  <2>1. c1 * (s1 * l1 + s2 - l2) = (c1 * s1) * l1 + c1 * s2 - c1 * l2
    BY <1>1, <1>3
  <2> QED BY <1>8, <1>9, <2>1
<1>12. Congruent(x0, p0, N) /\ Congruent(x1, -p1, N) /\ Congruent(m3, p2, N)
  BY <1>6, <1>7
<1> HIDE DEF p0, p1, p2, p3, e
<1>13. Congruent(x0, p3, N)
  BY <1>1, <1>4, <1>9, <1>10, <1>12, CongruentTrans
<1> DEFINE np1 == -p1
<1>14. np1 \in Int /\ Congruent(x1, np1, N)
  BY <1>9, <1>12
<1> HIDE DEF np1
<1>15. Congruent(x0 + x1, p3 + np1, N)
  BY <1>1, <1>4, <1>9, <1>13, <1>14, CongruentSum
<1>16. x0 + x1 \in Int /\ p3 + np1 \in Int
  BY <1>4, <1>9, <1>14
<1>17. Congruent((x0 + x1) + m3, (p3 + np1) + p2, N)
  BY <1>1, <1>2, <1>9, <1>12, <1>15, <1>16, CongruentSum DEF m3
<1>18. (p3 + np1) + p2 = c1 * Off /\ Total \in Int
  <2>1. (p3 + np1) + p2 = p3 - p1 + p2
    BY <1>9 DEF np1
  <2>2. m3 \in Int
    BY <1>2 DEF m3
  <2> QED BY <1>4, <1>5, <1>11, <2>1, <2>2
<1> QED BY <1>3, <1>5, <1>9, <1>17, <1>18 DEF c1

LEMMA Decision ==
  ASSUME ArgsOK, MultOK, AnswerOK, SumsEnd(sums)
  PROVE  Total \in Int /\ (Congruent(Total, 0, N) <=> Promise!Holds)
<1>1. Congruent(Total, C1 * Off, N) /\ Total \in Int /\ C1 \in Int /\ Off \in Int
  BY TotalIs
<1>2. ~Congruent(C1, 0, N)
  BY DEF AnswerOK
<1>3. N \in Nat /\ N > 0 /\ N \in Int /\ 0 \in Int /\ IsPrime(N)
  BY Order
<1>4. Promise!Holds <=> Congruent(Off, 0, N)
  <2>1. Promise!Holds <=> Off % N = 0
    BY DEF Promise!Holds, Off
  <2>2. Off - 0 = Off
    BY <1>1
  <2>3. (Off - 0) % N = 0 <=> Congruent(Off, 0, N)
    BY <1>1, <1>3, DifferenceZero
  <2> QED BY <2>1, <2>2, <2>3
<1> DEFINE t == Total  c1 == C1  o == Off  x == c1 * o
<1>5. t \in Int /\ c1 \in Int /\ o \in Int /\ x \in Int /\ Congruent(t, x, N)
  BY <1>1
<1> HIDE DEF t, c1, o
<1>6. ASSUME Congruent(o, 0, N) PROVE Congruent(t, 0, N)
  <2>1. Congruent(c1, c1, N)
    BY <1>3, <1>5, CongruentRefl
  <2>2. Congruent(c1 * o, c1 * 0, N)
    BY <1>3, <1>5, <1>6, <2>1, CongruentProduct
  <2>3. c1 * 0 = 0
    BY <1>5
  <2>4. Congruent(x, 0, N)
    BY <2>2, <2>3
  <2> HIDE DEF x
  <2> QED BY <1>3, <1>5, <2>4, CongruentTrans
<1>7. ASSUME Congruent(t, 0, N) PROVE Congruent(o, 0, N)
  <2>1. Congruent(x, t, N)
    BY <1>3, <1>5, CongruentSym
  <2>2. Congruent(x, 0, N)
    <3> HIDE DEF x
    <3> QED BY <1>3, <1>5, <1>7, <2>1, CongruentTrans
  <2>3. Congruent(c1, 0, N) \/ Congruent(o, 0, N)
    BY <1>3, <1>5, <2>2, Euclid
  <2> QED BY <1>2, <2>3 DEF c1
<1> QED BY <1>1, <1>4, <1>6, <1>7 DEF t, o

LEMMA PromiseInit == VerificationInit => Promise!Init
<1> SUFFICES ASSUME VerificationInit PROVE Promise!Init
  OBVIOUS
<1>1. CASE Init
  <2>1. VerifyOK /\ verdict = "none"
    BY <1>1, VerifyInit DEF Init
  <2>2. Log(q1) \in 0..(N - 1) /\ Log(q2) \in 0..(N - 1) /\ s1 \in Nat /\ s2 \in Nat
    BY <2>1, PointTypes DEF VerifyOK, ArgsOK
  <2> QED BY <2>1, <2>2 DEF Promise!Init
<1>2. CASE ~Init
  <2>1. s1 = 0 /\ s2 = 0 /\ q1 = Infinity /\ q2 = Infinity /\ verdict = "none"
    BY <1>2 DEF VerificationInit
  <2>2. Log(Infinity) = 0 /\ 0 \in 0..(N - 1)
    BY Order DEF Infinity, Log
  <2> QED BY <2>1, <2>2 DEF Promise!Init
<1> QED BY <1>1, <1>2

LEMMA PromiseNext ==
  VerifyInv /\ [VerifyStep \/ RecodeStep]_<<vars, recoding>> => [Promise!Next]_(Promise!vars)
<1> SUFFICES ASSUME VerifyInv, [VerifyStep \/ RecodeStep]_<<vars, recoding>>
             PROVE  [Promise!Next]_(Promise!vars)
  OBVIOUS
<1>1. CASE Finish
  <2>1. /\ pc = "loop" /\ verdict' = IF q3'.neutral THEN "equal" ELSE "different"
        /\ UNCHANGED <<q1, s1, s2, q2>>
    BY <1>1 DEF Finish, args
  <2>2. ArgsOK /\ MultOK /\ AnswerOK /\ LoopOK /\ verdict = "none"
    BY <2>1 DEF VerifyInv, VerifyOK
  <2>3. Is(q3', Total) /\ SumsEnd(sums)
    BY <1>1, <2>2, FinishIsRight
  <2>4. Total \in Int /\ (Congruent(Total, 0, N) <=> Promise!Holds)
    BY <2>2, <2>3, Decision
  <2>5. q3'.neutral <=> Congruent(Total, 0, N)
    <3> DEFINE P == q3'
    <3>1. Is(P, Total)
      BY <2>3
    <3> HIDE DEF P
    <3>2. P.neutral <=> Congruent(Total, 0, N)
      BY <2>4, <3>1, IsNeutral
    <3> QED BY <3>2 DEF P
  <2>6. verdict' = IF Promise!Holds THEN "equal" ELSE "different"
    BY <2>1, <2>4, <2>5
  <2>7. Log(q1)' = Log(q1) /\ Log(q2)' = Log(q2)
    BY <2>1 DEF Log
  <2> QED BY <2>1, <2>2, <2>6, <2>7 DEF Promise!Next, Promise!Answer
<1>2. CASE ~Finish
  <2>1. UNCHANGED <<q1, s1, s2, q2, verdict>>
    <3>1. CASE VerifyStep
      BY <1>2, <3>1 DEF VerifyStep, Next, Reduce, Prepare, Skip, Accumulate, Advance, args
    <3>2. CASE RecodeStep
      BY <3>2 DEF RecodeStep, verifying
    <3>3. CASE UNCHANGED <<vars, recoding>>
      BY <3>3 DEF vars, args
    <3> QED BY <3>1, <3>2, <3>3
  <2>2. Log(q1)' = Log(q1) /\ Log(q2)' = Log(q2)
    BY <2>1 DEF Log
  <2> QED BY <2>1, <2>2 DEF Promise!vars
<1> QED BY <1>1, <1>2

\* Verification accepts when the equation holds, and only then, whatever half-size
\* multiple the reduction chose: for every prime order and every length and window.
THEOREM DecidesAlways == VerificationSpec => Decides
<1>1. VerificationInit => Promise!Init
  BY PromiseInit
<1>2. VerifyInv /\ [VerifyStep \/ RecodeStep]_<<vars, recoding>> => [Promise!Next]_(Promise!vars)
  BY PromiseNext
<1>3. VerificationSpec => []VerifyInv
  BY VerifyAlways
<1> QED BY <1>1, <1>2, <1>3, PTL DEF VerificationSpec, Decides, Promise!Spec
=============================================================================
