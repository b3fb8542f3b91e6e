----------------------------- MODULE Congruence -----------------------------
(***************************************************************************)
(* Congruence modulo an integer, division, primes, and the least element   *)
(* of a set of natural numbers: the facts that the proofs about registers, *)
(* limbs, scalars, points and lattices share.                              *)
(***************************************************************************)
EXTENDS Integers, WellFoundedInduction, TLAPS

\* Two integers are equal modulo m.
Congruent(x, y, m) == \E k \in Int : x = y + k * m

\* Congruence is an equivalence.
LEMMA CongruentRefl == ASSUME NEW x \in Int, NEW m \in Int PROVE Congruent(x, x, m)
<1>1. x = x + 0 * m
  OBVIOUS
<1> QED BY <1>1 DEF Congruent

LEMMA CongruentSym ==
  ASSUME NEW x \in Int, NEW y \in Int, NEW m \in Int, Congruent(x, y, m)
  PROVE  Congruent(y, x, m)
<1>1. PICK k \in Int : x = y + k * m
  BY DEF Congruent
<1>2. y = x + (-k) * m /\ -k \in Int
  BY <1>1
<1> QED BY <1>2 DEF Congruent

LEMMA CongruentTrans ==
  ASSUME NEW x \in Int, NEW y \in Int, NEW z \in Int, NEW m \in Int,
         Congruent(x, y, m), Congruent(y, z, m)
  PROVE  Congruent(x, z, m)
<1>1. PICK k \in Int : x = y + k * m
  BY DEF Congruent
<1>2. PICK l \in Int : y = z + l * m
  BY DEF Congruent
<1>3. x = z + (k + l) * m /\ k + l \in Int
  BY <1>1, <1>2
<1> QED BY <1>3 DEF Congruent

\* It is kept by adding multiples of congruent integers.
LEMMA CongruentLinear ==
  ASSUME NEW x \in Int, NEW x1 \in Int, NEW y \in Int, NEW y1 \in Int,
         NEW t \in Int, NEW m \in Int, Congruent(x, x1, m), Congruent(y, y1, m)
  PROVE  Congruent(x + t * y, x1 + t * y1, m)
<1>1. PICK k \in Int : x = x1 + k * m
  BY DEF Congruent
<1>2. PICK l \in Int : y = y1 + l * m
  BY DEF Congruent
<1>3. t * y = t * y1 + (t * l) * m /\ t * l \in Int /\ t * y1 \in Int
  BY <1>2
<1>4. x + t * y = (x1 + t * y1) + (k + t * l) * m /\ k + t * l \in Int
  <2> DEFINE p == t * y1  q == t * l
  <2>1. p \in Int /\ q \in Int /\ t * y = p + q * m
    BY <1>3
  <2> SUFFICES x + t * y = (x1 + p) + (k + q) * m /\ k + q \in Int
    OBVIOUS
  <2> HIDE DEF p, q
  <2> QED BY <1>1, <2>1
<1> QED BY <1>4 DEF Congruent

\* Sums and differences of congruent integers are congruent.
LEMMA CongruentSum ==
  ASSUME NEW x \in Int, NEW x1 \in Int, NEW y \in Int, NEW y1 \in Int, NEW m \in Int,
         Congruent(x, x1, m), Congruent(y, y1, m)
  PROVE  Congruent(x + y, x1 + y1, m) /\ Congruent(x - y, x1 - y1, m)
<1>1. PICK k \in Int : x = x1 + k * m
  BY DEF Congruent
<1>2. PICK l \in Int : y = y1 + l * m
  BY DEF Congruent
<1>3. /\ (x1 + k * m) + (y1 + l * m) = (x1 + y1) + (k + l) * m
      /\ (x1 + k * m) - (y1 + l * m) = (x1 - y1) + (k - l) * m
      /\ k + l \in Int /\ k - l \in Int
  OBVIOUS
<1>4. x + y = (x1 + y1) + (k + l) * m /\ x - y = (x1 - y1) + (k - l) * m
  BY <1>1, <1>2, <1>3
<1> QED BY <1>3, <1>4 DEF Congruent

\* Products of congruent integers are congruent.
LEMMA CongruentProduct ==
  ASSUME NEW x \in Int, NEW x1 \in Int, NEW y \in Int, NEW y1 \in Int, NEW m \in Int,
         Congruent(x, x1, m), Congruent(y, y1, m)
  PROVE  Congruent(x * y, x1 * y1, m)
<1>1. PICK k \in Int : x = x1 + k * m
  BY DEF Congruent
<1>2. PICK l \in Int : y = y1 + l * m
  BY DEF Congruent
<1>3. x * y = x1 * y1 + (x1 * l + k * y1 + k * l * m) * m
  <2>1. (x1 + k * m) * (y1 + l * m) = x1 * y1 + (x1 * l + k * y1 + k * l * m) * m
    OBVIOUS
  <2> QED BY <1>1, <1>2, <2>1
<1>4. x1 * l + k * y1 + k * l * m \in Int
  OBVIOUS
<1> QED BY <1>3, <1>4 DEF Congruent

\* The remainder of a division is congruent to the dividend.
LEMMA ModCongruent ==
  ASSUME NEW x \in Int, NEW m \in Nat, m > 0
  PROVE  x % m \in 0..(m - 1) /\ Congruent(x % m, x, m) /\ Congruent(x, x % m, m)
<1> DEFINE q == x \div m  r == x % m
<1>1. x = m * q + r /\ q \in Int /\ r \in 0..(m - 1)
  OBVIOUS
<1> HIDE DEF q, r
<1>2. r = x + (-q) * m /\ x = r + q * m /\ -q \in Int
  BY <1>1
<1>3. Congruent(r, x, m) /\ Congruent(x, r, m)
  BY <1>1, <1>2 DEF Congruent
<1> QED BY <1>1, <1>3 DEF r

\* Two congruent remainders are equal.
LEMMA RemainderUnique ==
  ASSUME NEW m \in Nat, m > 0, NEW x \in 0..(m - 1), NEW y \in 0..(m - 1), Congruent(x, y, m)
  PROVE  x = y
<1>1. PICK k \in Int : x = y + k * m
  BY DEF Congruent
<1>2. ~(k >= 1)
  <2>1. ASSUME k >= 1 PROVE k * m >= m
    BY <2>1
  <2> QED BY <1>1, <2>1
<1>3. ~(k <= -1)
  <2>1. ASSUME k <= -1 PROVE k * m <= -m
    BY <2>1
  <2> QED BY <1>1, <2>1
<1>4. k = 0
  BY <1>2, <1>3
<1> QED BY <1>1, <1>4

\* Congruent integers have the same remainder, and conversely.
LEMMA ModEqual ==
  ASSUME NEW x \in Int, NEW y \in Int, NEW m \in Nat, m > 0
  PROVE  x % m = y % m <=> Congruent(x, y, m)
<1>1. /\ x % m \in 0..(m - 1) /\ Congruent(x % m, x, m) /\ Congruent(x, x % m, m)
      /\ y % m \in 0..(m - 1) /\ Congruent(y % m, y, m) /\ Congruent(y, y % m, m)
  BY ModCongruent
<1> DEFINE r == x % m  s == y % m
<1>2. /\ r \in 0..(m - 1) /\ Congruent(r, x, m) /\ Congruent(x, r, m)
      /\ s \in 0..(m - 1) /\ Congruent(s, y, m) /\ Congruent(y, s, m)
      /\ r \in Int /\ s \in Int
  BY <1>1
<1> HIDE DEF r, s
<1>3. ASSUME r = s PROVE Congruent(x, y, m)
  BY <1>2, <1>3, CongruentTrans
<1>4. ASSUME Congruent(x, y, m) PROVE r = s
  <2>1. Congruent(r, y, m)
    BY <1>2, <1>4, CongruentTrans
  <2>2. Congruent(r, s, m)
    BY <1>2, <2>1, CongruentTrans
  <2> QED BY <1>2, <2>2, RemainderUnique
<1>5. r = s <=> Congruent(x, y, m)
  BY <1>3, <1>4
<1> QED BY <1>5 DEF r, s

\* Congruence, as a remainder that is zero.
LEMMA DifferenceZero ==
  ASSUME NEW x \in Int, NEW y \in Int, NEW m \in Nat, m > 0
  PROVE  (x - y) % m = 0 <=> Congruent(x, y, m)
<1> DEFINE d == x - y
<1>1. d \in Int /\ x = d + y
  OBVIOUS
<1> HIDE DEF d
<1>2. d % m = 0 % m <=> Congruent(d, 0, m)
  BY <1>1, ModEqual
<1>3. 0 % m = 0
  OBVIOUS
<1>4. Congruent(d, 0, m) <=> Congruent(x, y, m)
  <2>1. ASSUME NEW k \in Int PROVE d = 0 + k * m <=> x = y + k * m
    <3> DEFINE km == k * m
    <3>1. km \in Int
      OBVIOUS
    <3> HIDE DEF km
    <3>2. d = 0 + km <=> x = y + km
      BY <1>1, <3>1
    <3> QED BY <3>2 DEF km
  <2> QED BY <2>1 DEF Congruent
<1>5. d % m = 0 <=> Congruent(x, y, m)
  BY <1>2, <1>3, <1>4
<1> QED BY <1>5 DEF d

\* A factor that has an inverse can be cancelled.
LEMMA CongruentCancel ==
  ASSUME NEW r \in Int, NEW e \in Int, NEW x \in Int, NEW y \in Int, NEW m \in Int,
         Congruent(r * e, 1, m), Congruent(r * x, r * y, m)
  PROVE  Congruent(x, y, m)
<1>1. PICK k \in Int : r * e = 1 + k * m
  BY DEF Congruent
<1>2. PICK l \in Int : r * x = r * y + l * m
  BY DEF Congruent
<1>3. e * (r * x) = e * (r * y) + (e * l) * m
  BY <1>2
<1>4. e * (r * x) = x + (k * x) * m /\ e * (r * y) = y + (k * y) * m
  <2>1. e * (r * x) = (r * e) * x /\ e * (r * y) = (r * e) * y
    OBVIOUS
  <2>2. (1 + k * m) * x = x + (k * x) * m /\ (1 + k * m) * y = y + (k * y) * m
    OBVIOUS
  <2> QED BY <1>1, <2>1, <2>2
<1>5. x = y + (k * y + e * l - k * x) * m
  <2> DEFINE kx == k * x  ky == k * y  el == e * l
  <2>1. x + kx * m = y + ky * m + el * m /\ kx \in Int /\ ky \in Int /\ el \in Int
    BY <1>3, <1>4
  <2> HIDE DEF kx, ky, el
  <2>2. x = y + (ky + el - kx) * m
    BY <2>1
  <2> QED BY <2>2 DEF kx, ky, el
<1>6. k * y + e * l - k * x \in Int
  OBVIOUS
<1> QED BY <1>5, <1>6 DEF Congruent

\* A nonempty set of naturals has a least element.
LEMMA LeastNatural ==
  ASSUME NEW S \in SUBSET Nat, S # {}
  PROVE  \E m \in S : \A k \in S : m <= k
<1>1. \E m \in S : \A k \in S : ~(<<k, m>> \in OpToRel(<, Nat))
  BY NatLessThanWellFounded, WFMin
<1>2. PICK m \in S : \A k \in S : ~(<<k, m>> \in OpToRel(<, Nat))
  BY <1>1
<1>3. ASSUME NEW k \in S PROVE m <= k
  <2>1. ~(k < m)
    BY <1>2, <1>3, Zenon DEF OpToRel
  <2> QED BY <2>1
<1> QED BY <1>3

\* Quotient and remainder of a division, and that they are the only ones.
LEMMA Division ==
  ASSUME NEW x \in Int, NEW m \in Nat, m > 0
  PROVE  /\ x \div m \in Int /\ x % m \in 0..(m - 1) /\ x % m \in Nat
         /\ x = m * (x \div m) + (x % m)
  OBVIOUS

LEMMA DivisionUnique ==
  ASSUME NEW x \in Int, NEW m \in Nat, m > 0, NEW q \in Int, NEW r \in 0..(m - 1),
         x = m * q + r
  PROVE  x \div m = q /\ x % m = r
<1> DEFINE p == x \div m  s == x % m
<1>1. x = m * p + s /\ p \in Int /\ s \in 0..(m - 1)
  BY Division
<1> HIDE DEF p, s
<1>2. s = r + (q - p) * m
  BY <1>1
<1>3. Congruent(s, r, m)
  BY <1>1, <1>2 DEF Congruent
<1>4. s = r
  BY <1>1, <1>3, RemainderUnique
<1>5. m * p = m * q
  BY <1>1, <1>4
<1>6. p = q
  <2>1. ~(p < q)
    <3>1. ASSUME p + 1 <= q PROVE m * (p + 1) <= m * q
      BY <1>1, <3>1
    <3>2. m * (p + 1) = m * p + m
      BY <1>1
    <3> QED BY <1>1, <1>5, <3>1, <3>2
  <2>2. ~(q < p)
    <3>1. ASSUME q + 1 <= p PROVE m * (q + 1) <= m * p
      BY <1>1, <3>1
    <3>2. m * (q + 1) = m * q + m
      BY <1>1
    <3> QED BY <1>1, <1>5, <3>1, <3>2
  <2> QED BY <1>1, <2>1, <2>2
<1> QED BY <1>4, <1>6 DEF p, s

LEMMA DivisionTwice ==
  ASSUME NEW x \in Int, NEW a \in Nat, a > 0, NEW b \in Nat, b > 0
  PROVE  (x \div a) \div b = x \div (a * b)
<1> DEFINE p == x \div a  r == x % a  q == p \div b  s == p % b
<1>1. p \in Int /\ r \in 0..(a - 1) /\ x = a * p + r
  BY Division
<1> HIDE DEF p, r
<1>2. q \in Int /\ s \in 0..(b - 1) /\ p = b * q + s
  BY <1>1, Division
<1> HIDE DEF q, s
<1>3. x = (a * b) * q + (a * s + r)
  <2>1. a * (b * q + s) = (a * b) * q + a * s
    BY <1>2
  <2>2. x = a * (b * q + s) + r
    BY <1>1, <1>2
  <2> DEFINE abq == (a * b) * q  sa == a * s  ap == a * (b * q + s)
  <2>3. abq \in Int /\ sa \in Int /\ ap = abq + sa /\ x = ap + r /\ r \in Int
    BY <1>1, <1>2, <2>1, <2>2
  <2> HIDE DEF abq, sa, ap
  <2>4. x = abq + (sa + r)
    BY <2>3
  <2> QED BY <2>4 DEF abq, sa
<1>4. a * s + r \in 0..(a * b - 1)
  <2>1. s \in Nat /\ s <= b - 1 /\ b - 1 \in Nat
    BY <1>2
  <2>2. a * s <= a * (b - 1) /\ a * s \in Nat
    BY <2>1
  <2>3. a * (b - 1) = a * b - a /\ a * b \in Nat
    OBVIOUS
  <2> DEFINE ab == a * b  sa == a * s
  <2>4. sa \in Nat /\ sa <= ab - a /\ ab \in Nat /\ r \in Int /\ 0 <= r /\ r <= a - 1
    BY <1>1, <2>2, <2>3
  <2> HIDE DEF ab, sa
  <2>5. sa + r \in 0..(ab - 1)
    BY <2>4
  <2> QED BY <2>5 DEF ab, sa
<1>5. a * b \in Nat /\ a * b > 0
  OBVIOUS
<1>6. x \div (a * b) = q
  BY <1>2, <1>3, <1>4, <1>5, DivisionUnique
<1> QED BY <1>6 DEF q, p

\* A set that has 0 and, with each number below n, the next one, has all numbers up to n.
LEMMA UpTo ==
  ASSUME NEW n \in Nat, NEW S, 0 \in S, \A k \in 0..(n - 1) : k \in S => k + 1 \in S
  PROVE  \A k \in 0..n : k \in S
<1> DEFINE Missing == {k \in 0..n : k \notin S}
<1> SUFFICES ASSUME Missing # {} PROVE FALSE
  OBVIOUS
<1>1. Missing \in SUBSET Nat
  OBVIOUS
<1>2. PICK k \in Missing : \A l \in Missing : k <= l
  BY <1>1, LeastNatural
<1>3. k \in 0..n /\ k # 0 /\ k \notin S
  BY <1>2
<1>4. k - 1 \in 0..n /\ k - 1 \in 0..(n - 1) /\ ~(k <= k - 1) /\ (k - 1) + 1 = k
  BY <1>3
<1>5. k - 1 \in S
  BY <1>2, <1>4
<1> QED BY <1>3, <1>4, <1>5

\* A function defined by recursion on the numbers up to n: each value is a step from
\* the one before it.
Iterated(f, n, D, base, step) ==
    f \in [0..n -> D] /\ f[0] = base /\ \A t \in 1..n : f[t] = step[f[t - 1]]

LEMMA Iterates ==
  ASSUME NEW n \in Nat, NEW D, NEW base \in D, NEW step \in [D -> D]
  PROVE  \E f : Iterated(f, n, D, base, step)
<1> DEFINE Good == {m \in 0..n : \E f \in [0..m -> D] :
                       f[0] = base /\ \A t \in 1..m : f[t] = step[f[t - 1]]}
<1>1. 0 \in Good
  <2> DEFINE f == [t \in 0..0 |-> base]
  <2>1. f \in [0..0 -> D] /\ f[0] = base /\ \A t \in 1..0 : f[t] = step[f[t - 1]]
    OBVIOUS
  <2> HIDE DEF f
  <2>2. 0 \in 0..n
    OBVIOUS
  <2> QED BY <2>1, <2>2
<1>2. ASSUME NEW k \in 0..(n - 1), k \in Good PROVE k + 1 \in Good
  <2>1. PICK f \in [0..k -> D] : f[0] = base /\ \A t \in 1..k : f[t] = step[f[t - 1]]
    BY <1>2
  <2> DEFINE g == [t \in 0..(k + 1) |-> IF t = k + 1 THEN step[f[k]] ELSE f[t]]
  <2>2. g \in [0..(k + 1) -> D] /\ g[0] = base
    BY <2>1
  <2>3. ASSUME NEW t \in 1..(k + 1) PROVE g[t] = step[g[t - 1]]
    <3>1. t - 1 \in 0..k /\ t - 1 # k + 1 /\ g[t - 1] = f[t - 1]
      OBVIOUS
    <3>2. CASE t = k + 1
      <4>1. t - 1 = k
        BY <3>2
      <4> QED BY <3>1, <3>2, <4>1
    <3>3. CASE t # k + 1
      BY <2>1, <3>1, <3>3
    <3> QED BY <3>2, <3>3
  <2>4. k + 1 \in 0..n
    OBVIOUS
  <2> HIDE DEF g
  <2> QED BY <2>2, <2>3, <2>4
<1> HIDE DEF Good
<1>3. n \in Good
  <2>1. n \in 0..n
    OBVIOUS
  <2> QED BY <1>1, <1>2, <2>1, UpTo
<1> QED BY <1>3 DEF Good, Iterated

-----------------------------------------------------------------------------
IsPrime(p) == p \in Nat /\ p > 1 /\ \A k \in 2..(p - 1) : p % k # 0

\* No product of two numbers below a prime is a multiple of it: the least
\* multiplier that makes y a multiple of p divides p.
LEMMA NoZeroProduct ==
  ASSUME NEW p, IsPrime(p), NEW x \in 1..(p - 1), NEW y \in 1..(p - 1)
  PROVE  ~Congruent(x * y, 0, p)
<1> SUFFICES ASSUME Congruent(x * y, 0, p) PROVE FALSE
  OBVIOUS
<1> DEFINE Kills == {n \in Nat : n > 0 /\ Congruent(n * y, 0, p)}
<1>1. x \in Nat /\ x > 0 /\ x < p /\ y \in Nat /\ y > 0 /\ y < p /\ p \in Nat /\ p > 1
  BY DEF IsPrime
<1>2. x \in Kills
  BY <1>1
<1>3. PICK n \in Kills : \A k \in Kills : n <= k
  <2>1. Kills \in SUBSET Nat /\ Kills # {}
    BY <1>2
  <2> HIDE DEF Kills
  <2> QED BY <2>1, LeastNatural
<1>4. n \in Nat /\ n > 0 /\ n <= x /\ Congruent(n * y, 0, p)
  BY <1>2, <1>3
<1>5. n # 1
  <2> SUFFICES ASSUME n = 1 PROVE FALSE
    OBVIOUS
  <2>1. Congruent(y, 0, p) /\ y \in 0..(p - 1) /\ 0 \in 0..(p - 1)
    BY <1>1, <1>4
  <2>2. y = 0
    BY <1>1, <2>1, RemainderUnique
  <2> QED BY <1>1, <2>2
<1> DEFINE q == p \div n  r == p % n
<1>6. p = n * q + r /\ q \in Int /\ r \in 0..(n - 1)
  BY <1>1, <1>4, Division
<1>7. r # 0
  <2>1. n \in 2..(p - 1)
    BY <1>1, <1>4, <1>5
  <2>2. p % n # 0
    BY <2>1, Zenon DEF IsPrime
  <2> QED BY <2>2
<1> HIDE DEF q, r
<1>8. Congruent(r * y, 0, p)
  <2>1. PICK k \in Int : n * y = 0 + k * p
    BY <1>4 DEF Congruent
  <2>2. r * y = p * y - q * (n * y)
    BY <1>1, <1>4, <1>6
  <2>3. r * y = 0 + (y - q * k) * p
    <3>1. q * (k * p) = (q * k) * p /\ (y - q * k) * p = p * y - (q * k) * p
      BY <1>1, <1>6
    <3>2. n * y = k * p
      BY <2>1, <1>1, <1>4
    <3> QED BY <2>2, <3>1, <3>2, <1>1, <1>6
  <2>4. y - q * k \in Int
    BY <1>1, <1>6
  <2> QED BY <2>3, <2>4 DEF Congruent
<1>9. r \in Kills
  BY <1>4, <1>6, <1>7, <1>8
<1> QED BY <1>3, <1>4, <1>6, <1>9

\* A multiple of a prime among the products of integers has one among the factors.
LEMMA Euclid ==
  ASSUME NEW p, IsPrime(p), NEW x \in Int, NEW y \in Int, Congruent(x * y, 0, p)
  PROVE  Congruent(x, 0, p) \/ Congruent(y, 0, p)
<1>1. p \in Nat /\ p > 0 /\ p \in Int /\ 0 \in Int
  BY DEF IsPrime
<1> DEFINE r == x % p  s == y % p
<1>2. /\ r \in 0..(p - 1) /\ Congruent(r, x, p) /\ Congruent(x, r, p)
      /\ s \in 0..(p - 1) /\ Congruent(s, y, p) /\ Congruent(y, s, p)
  BY <1>1, ModCongruent
<1> HIDE DEF r, s
<1>3. r \in Int /\ s \in Int /\ x * y \in Int /\ r * s \in Int
  BY <1>2
<1>4. Congruent(r * s, x * y, p)
  BY <1>1, <1>2, <1>3, CongruentProduct
<1>5. Congruent(r * s, 0, p)
  BY <1>1, <1>3, <1>4, CongruentTrans
<1>6. ~(r \in 1..(p - 1) /\ s \in 1..(p - 1))
  BY <1>5, NoZeroProduct
<1>7. r = 0 \/ s = 0
  BY <1>1, <1>2, <1>6
<1> QED BY <1>2, <1>7
=============================================================================
