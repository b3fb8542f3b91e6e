-------------------------- MODULE PointMul_proofs --------------------------
(***************************************************************************)
(* Proofs about PointMul, for every prime order, digit width and number of *)
(* digits.  First the group: which multiple of the generator each point    *)
(* function returns.  Then the digits of the shifted scalars, the lookups, *)
(* and the invariant of the three loops.                                   *)
(***************************************************************************)
EXTENDS PointMul, Congruence

-----------------------------------------------------------------------------
(***************************************************************************)
(* The group: the order is prime, and a sum is known by its logarithm.     *)
(***************************************************************************)
LEMMA Order ==
  /\ N \in Nat /\ N > 2 /\ Coordinates = 1..(N - 1) /\ Junk \in Coordinates
  /\ IsPrime(N)
BY GroupAssumption DEF Coordinates, IsPrime

\* An integer that is no multiple of the order has a remainder that is a logarithm.
LEMMA Logarithm ==
  ASSUME NEW x \in Int, ~Congruent(x, 0, N)
  PROVE  (x % N) \in Coordinates /\ Congruent((x % N), x, N)
<1>1. N \in Nat /\ N > 0
  BY Order
<1> DEFINE r == x % N
<1>2. r \in 0..(N - 1) /\ Congruent(r, x, N) /\ Congruent(x, r, N)
  BY <1>1, ModCongruent
<1> HIDE DEF r
<1>3. r # 0
  BY <1>2
<1>4. r \in Coordinates
  BY <1>1, <1>2, <1>3, Order
<1> QED BY <1>2, <1>4 DEF r

LEMMA CoordinateTypes ==
  ASSUME NEW x \in Coordinates
  PROVE  x \in Int /\ x \in 0..(N - 1) /\ x > 0 /\ x < N /\ ~Congruent(x, 0, N)
<1>1. N \in Nat /\ N > 2 /\ x \in 1..(N - 1)
  BY Order
<1>2. x \in 0..(N - 1) /\ 0 \in 0..(N - 1) /\ x # 0 /\ N > 0 /\ x \in Int /\ x > 0 /\ x < N
  BY <1>1
<1>3. ~Congruent(x, 0, N)
  BY <1>1, <1>2, RemainderUnique
<1> QED BY <1>2, <1>3

\* P is the point k * G.
Is(P, k) == P \in Points /\ Congruent(Log(P), k, N)

LEMMA PointTypes ==
  ASSUME NEW P \in Points
  PROVE  /\ P.neutral \in BOOLEAN /\ P.at \in Coordinates /\ P.at \in Int
         /\ Log(P) \in 0..(N - 1) /\ Log(P) \in Int
         /\ P.neutral <=> Log(P) = 0
         /\ P.neutral => Log(P) = 0
         /\ ~P.neutral => Log(P) = P.at
<1>1. P.neutral \in BOOLEAN /\ P.at \in Coordinates
  BY DEF Points
<1>2. P.at \in Int /\ P.at \in 0..(N - 1) /\ P.at > 0
  BY <1>1, CoordinateTypes
<1> QED BY <1>1, <1>2, Order DEF Log

\* A point is infinity exactly when its multiple is a multiple of the order.
LEMMA IsNeutral ==
  ASSUME NEW P, NEW k \in Int, Is(P, k)
  PROVE  P.neutral <=> Congruent(k, 0, N)
<1>1. P \in Points /\ Congruent(Log(P), k, N)
  BY DEF Is
<1> DEFINE l == Log(P)
<1>2. l \in 0..(N - 1) /\ l \in Int /\ (P.neutral <=> l = 0) /\ P.neutral \in BOOLEAN
  BY <1>1, PointTypes
<1>3. N \in Nat /\ N > 0 /\ N \in Int /\ 0 \in Int /\ 0 \in 0..(N - 1)
  BY Order
<1>4. Congruent(l, k, N) /\ Congruent(k, l, N)
  BY <1>1, <1>2, <1>3, CongruentSym
<1> HIDE DEF l
<1>5. ASSUME P.neutral PROVE Congruent(k, 0, N)
  BY <1>2, <1>4, <1>5
<1>6. ASSUME Congruent(k, 0, N) PROVE P.neutral
  <2>1. Congruent(l, 0, N)
    BY <1>2, <1>3, <1>4, <1>6, CongruentTrans
  <2>2. l = 0
    BY <1>2, <1>3, <2>1, RemainderUnique
  <2> QED BY <1>2, <2>2
<1> QED BY <1>2, <1>5, <1>6

\* PointAdd is complete.
LEMMA AddIs ==
  ASSUME NEW P, NEW Q, NEW k \in Int, NEW l \in Int, Is(P, k), Is(Q, l)
  PROVE  Is(PointAdd(P, Q), k + l)
<1> DEFINE a == P.at  b == Q.at  sum == (a + b) % N
           none == \/ P.neutral /\ Q.neutral
                   \/ ~P.neutral /\ ~Q.neutral /\ sum = 0
           x == CASE none -> Junk
                  [] P.neutral /\ ~none -> b
                  [] Q.neutral /\ ~none -> a
                  [] ~(P.neutral \/ Q.neutral \/ none) -> sum
<1>1. PointAdd(P, Q) = [neutral |-> none, at |-> x]
  BY DEF PointAdd
<1>2. /\ P \in Points /\ Congruent(Log(P), k, N) /\ Q \in Points /\ Congruent(Log(Q), l, N)
      /\ N \in Nat /\ N > 2 /\ N \in Int /\ Junk \in Coordinates
  BY Order DEF Is
<1>3. /\ P.neutral \in BOOLEAN /\ a \in Coordinates /\ a \in Int
      /\ (P.neutral => Log(P) = 0) /\ (~P.neutral => Log(P) = a)
      /\ Q.neutral \in BOOLEAN /\ b \in Coordinates /\ b \in Int
      /\ (Q.neutral => Log(Q) = 0) /\ (~Q.neutral => Log(Q) = b)
      /\ Log(P) \in Int /\ Log(Q) \in Int
  BY <1>2, PointTypes
<1>4. Congruent(Log(P) + Log(Q), k + l, N)
  BY <1>2, <1>3, CongruentSum
<1>5. Congruent(sum, a + b, N) /\ sum \in 0..(N - 1) /\ sum \in Int /\ Congruent(0, 0, N)
  <2>1. a + b \in Int /\ N > 0
    BY <1>2, <1>3
  <2>2. Congruent(sum, a + b, N) /\ sum \in 0..(N - 1)
    BY <1>2, <2>1, ModCongruent
  <2> QED BY <1>2, <2>2, CongruentRefl
<1>6. sum # 0 => sum \in Coordinates
  BY <1>2, <1>5, Order
<1> HIDE DEF sum, a, b
<1> DEFINE lp == Log(P)  lq == Log(Q)
<1>7. lp \in Int /\ lq \in Int /\ Congruent(lp + lq, k + l, N)
      /\ (P.neutral => lp = 0) /\ (~P.neutral => lp = a)
      /\ (Q.neutral => lq = 0) /\ (~Q.neutral => lq = b)
  BY <1>3, <1>4
<1> HIDE DEF lp, lq
<1>8. /\ none \in BOOLEAN /\ x \in Coordinates
      /\ Congruent(IF none THEN 0 ELSE x, lp + lq, N)
  <2>1. CASE P.neutral /\ Q.neutral
    <3>1. none /\ x = Junk /\ lp + lq = 0
      BY <1>7, <2>1
    <3> QED BY <1>2, <1>5, <3>1
  <2>2. CASE P.neutral /\ ~Q.neutral
    <3>1. ~none /\ x = b /\ lp + lq = b
      BY <1>3, <1>7, <2>2
    <3> QED BY <1>2, <1>3, <3>1, CongruentRefl
  <2>3. CASE ~P.neutral /\ Q.neutral
    <3>1. ~none /\ x = a /\ lp + lq = a
      BY <1>3, <1>7, <2>3
    <3> QED BY <1>2, <1>3, <3>1, CongruentRefl
  <2>4. CASE ~P.neutral /\ ~Q.neutral /\ sum = 0
    <3>1. none /\ x = Junk /\ lp + lq = a + b
      BY <1>7, <2>4
    <3> QED BY <1>2, <1>5, <2>4, <3>1
  <2>5. CASE ~P.neutral /\ ~Q.neutral /\ sum # 0
    <3>1. ~none /\ x = sum /\ lp + lq = a + b
      BY <1>7, <2>5
    <3> QED BY <1>5, <1>6, <2>5, <3>1
  <2> QED BY <1>3, <2>1, <2>2, <2>3, <2>4, <2>5
<1> DEFINE S == [neutral |-> none, at |-> x]
<1>9. S \in Points /\ Log(S) = (IF none THEN 0 ELSE x)
  <2>1. none \in BOOLEAN /\ x \in Coordinates
    BY <1>8
  <2> HIDE DEF none, x
  <2> QED BY <2>1 DEF Points, Log
<1>10. Congruent(Log(S), k + l, N)
  <2> DEFINE y == Log(S)
  <2>1. y \in Int /\ Congruent(y, lp + lq, N)
    BY <1>8, <1>9, PointTypes
  <2>2. lp + lq \in Int /\ k + l \in Int
    BY <1>7
  <2> HIDE DEF y
  <2>3. Congruent(y, k + l, N)
    BY <1>2, <1>7, <2>1, <2>2, CongruentTrans
  <2> QED BY <2>3 DEF y
<1> QED BY <1>1, <1>9, <1>10 DEF Is

LEMMA NegIs ==
  ASSUME NEW P, NEW k \in Int, Is(P, k)
  PROVE  Is(PointNeg(P), -k)
<1> DEFINE a == P.at  T == PointNeg(P)  l == Log(P)
<1>1. P \in Points /\ Congruent(l, k, N) /\ N \in Nat /\ N > 2 /\ N \in Int
  BY Order DEF Is
<1>2. /\ P.neutral \in BOOLEAN /\ a \in Coordinates /\ a \in Int /\ l \in Int
      /\ (P.neutral => l = 0) /\ (~P.neutral => l = a)
  BY <1>1, PointTypes
<1>3. T = [P EXCEPT !.at = N - a]
  BY DEF PointNeg
<1>4. N - a \in Coordinates
  BY <1>1, <1>2, CoordinateTypes, Order
<1>5. T \in Points /\ T.neutral = P.neutral /\ T.at = N - a
  BY <1>1, <1>3, <1>4 DEF Points
<1>6. Log(T) = IF P.neutral THEN 0 ELSE N - a
  BY <1>5 DEF Log
<1>7. PICK j \in Int : l = k + j * N
  BY <1>1 DEF Congruent
<1> HIDE DEF a, l
<1>8. -k = 0 - k /\ -k \in Int
  OBVIOUS
<1>9. Congruent(Log(T), -k, N)
  <2>1. CASE P.neutral
    <3>1. Log(T) = -k + (-j) * N /\ -j \in Int
      BY <1>1, <1>2, <1>6, <1>7, <2>1
    <3> QED BY <3>1 DEF Congruent
  <2>2. CASE ~P.neutral
    <3>1. a = k + j * N
      BY <1>2, <1>7, <2>2
    <3>2. Log(T) = -k + (1 - j) * N /\ 1 - j \in Int
      <4>1. (1 - j) * N = N - j * N /\ j * N \in Int
        BY <1>1, <1>7
      <4> DEFINE jn == j * N
      <4> HIDE DEF jn
      <4> QED BY <1>1, <1>2, <1>6, <1>7, <2>2, <3>1, <4>1 DEF jn
    <3> QED BY <3>2 DEF Congruent
  <2> QED BY <2>1, <2>2
<1> QED BY <1>5, <1>9 DEF Is

LEMMA DoublingsIs ==
  ASSUME NEW P, NEW k \in Int, Is(P, k), NEW m \in Nat, 2^m \in Int, ~Congruent(2^m, 0, N)
  PROVE  Is(PointMul2k(P, m), 2^m * k)
<1> DEFINE a == P.at  T == PointMul2k(P, m)  l == Log(P)  f == 2^m
<1>1. P \in Points /\ Congruent(l, k, N) /\ N \in Nat /\ N > 2 /\ N \in Int /\ f \in Int
  BY Order DEF Is
<1>2. /\ P.neutral \in BOOLEAN /\ a \in Coordinates /\ a \in Int /\ l \in Int
      /\ (P.neutral => l = 0) /\ (~P.neutral => l = a)
  BY <1>1, PointTypes
<1>3. T = [P EXCEPT !.at = (f * a) % N]
  BY DEF PointMul2k
<1>4. ~Congruent(f, 0, N)
  OBVIOUS
<1> HIDE DEF f
<1>5. ~Congruent(f * a, 0, N) /\ f * a \in Int /\ f * l \in Int /\ f * k \in Int
  <2>1. ~Congruent(a, 0, N)
    BY <1>2, CoordinateTypes
  <2>2. ~Congruent(f * a, 0, N)
    BY <1>1, <1>2, <1>4, <2>1, Order, Euclid
  <2> QED BY <1>1, <1>2, <2>2
<1> DEFINE r == (f * a) % N
<1>6. r \in Coordinates /\ Congruent(r, f * a, N) /\ r \in Int
  BY <1>5, Logarithm, CoordinateTypes
<1>7. T \in Points /\ T.neutral = P.neutral /\ T.at = r
  BY <1>1, <1>3, <1>6 DEF Points
<1>8. Log(T) = IF P.neutral THEN 0 ELSE r
  BY <1>7 DEF Log
<1> HIDE DEF a, l, r, T
<1>9. Congruent(f * l, f * k, N)
  <2>1. Congruent(f, f, N)
    BY <1>1, CongruentRefl
  <2> QED BY <1>1, <1>2, <2>1, CongruentProduct
<1>10. Congruent(Log(T), f * l, N)
  <2>1. CASE P.neutral
    <3>1. Log(T) = 0 /\ f * l = 0
      BY <1>1, <1>2, <1>8, <2>1
    <3> QED BY <1>1, <3>1, CongruentRefl
  <2>2. CASE ~P.neutral
    <3>1. Log(T) = r /\ l = a
      BY <1>2, <1>8, <2>2
    <3> QED BY <1>6, <3>1
  <2> QED BY <2>1, <2>2
<1>11. Log(T) \in Int
  BY <1>2, <1>6, <1>8
<1>12. Congruent(Log(T), f * k, N)
  BY <1>1, <1>5, <1>9, <1>10, <1>11, CongruentTrans
<1>13. T \in Points
  BY <1>7
<1> QED BY <1>12, <1>13 DEF Is, T, f

\* An addition in Jacobian coordinates is right unless two finite operands are equal or opposite.
LEMMA JacobianIs ==
  ASSUME NEW P, NEW T, NEW k \in Int, NEW l \in Int, Is(P, k), Is(T, l),
         ~Congruent(k, 0, N) /\ ~Congruent(l, 0, N) =>
            ~Congruent(k - l, 0, N) /\ ~Congruent(k + l, 0, N)
  PROVE  Is(JacobianAdd(P, T), k + l)
<1> DEFINE a == P.at  b == T.at  J == JacobianAdd(P, T)
<1>1. /\ P \in Points /\ Congruent(Log(P), k, N) /\ T \in Points /\ Congruent(Log(T), l, N)
      /\ N \in Nat /\ N > 2 /\ N \in Int /\ Junk \in Coordinates /\ 0 \in Int
  BY Order DEF Is
<1>2. /\ P.neutral \in BOOLEAN /\ a \in Coordinates /\ a \in Int
      /\ (P.neutral => Log(P) = 0) /\ (~P.neutral => Log(P) = a)
      /\ T.neutral \in BOOLEAN /\ b \in Coordinates /\ b \in Int
      /\ (T.neutral => Log(T) = 0) /\ (~T.neutral => Log(T) = b)
      /\ Log(P) \in Int /\ Log(T) \in Int
  BY <1>1, PointTypes
<1>3. (P.neutral <=> Congruent(k, 0, N)) /\ (T.neutral <=> Congruent(l, 0, N))
  BY IsNeutral
<1> DEFINE x == CASE ~P.neutral /\ ~T.neutral -> JacobianCoordinates(a, b)
                  [] P.neutral /\ ~T.neutral -> b
                  [] ~P.neutral /\ T.neutral -> a
                  [] P.neutral /\ T.neutral -> Junk
           none == P.neutral /\ T.neutral
<1>4. J = [neutral |-> none, at |-> x]
  BY DEF JacobianAdd
<1>5. Congruent(Log(P) + Log(T), k + l, N) /\ Congruent(Log(P) - Log(T), k - l, N)
  BY <1>1, <1>2, CongruentSum
<1>6. ASSUME ~P.neutral, ~T.neutral
      PROVE  x \in Coordinates /\ Congruent(x, Log(P) + Log(T), N)
  <2>1. ~Congruent(k - l, 0, N) /\ ~Congruent(k + l, 0, N)
    BY <1>3, <1>6
  <2>2. Log(P) = a /\ Log(T) = b
    BY <1>2, <1>6
  <2>3. Congruent(a + b, k + l, N) /\ Congruent(a - b, k - l, N)
    BY <1>5, <2>2
  <2> HIDE DEF a, b
  <2>4. Congruent(k + l, a + b, N) /\ Congruent(k - l, a - b, N)
    <3>1. a + b \in Int /\ a - b \in Int /\ k + l \in Int /\ k - l \in Int
      BY <1>2
    <3> QED BY <1>1, <2>3, <3>1, CongruentSym
  <2>5. ~Congruent(a + b, 0, N) /\ ~Congruent(a - b, 0, N)
    <3>1. a + b \in Int /\ a - b \in Int /\ k + l \in Int /\ k - l \in Int
      BY <1>2
    <3>2. ASSUME Congruent(a + b, 0, N) PROVE FALSE
      BY <1>1, <2>1, <2>4, <3>1, <3>2, CongruentTrans
    <3>3. ASSUME Congruent(a - b, 0, N) PROVE FALSE
      BY <1>1, <2>1, <2>4, <3>1, <3>3, CongruentTrans
    <3> QED BY <3>2, <3>3
  <2>6. a # b
    <3> SUFFICES ASSUME a = b PROVE FALSE
      OBVIOUS
    <3>1. a - b = 0 + 0 * N
      BY <1>1, <1>2
    <3> QED BY <2>5, <3>1 DEF Congruent
  <2>7. a # N - b
    <3> SUFFICES ASSUME a = N - b PROVE FALSE
      OBVIOUS
    <3>1. a + b = 0 + 1 * N
      BY <1>1, <1>2
    <3> QED BY <2>5, <3>1 DEF Congruent
  <2>8. x = (a + b) % N
    BY <1>6, <2>6, <2>7 DEF JacobianCoordinates
  <2>9. a + b \in Int
    BY <1>2
  <2>10. ((a + b) % N) \in Coordinates /\ Congruent(((a + b) % N), a + b, N)
    BY <2>5, <2>9, Logarithm
  <2> QED BY <2>2, <2>8, <2>10
<1> DEFINE lp == Log(P)  lt == Log(T)
<1>7. lp \in Int /\ lt \in Int /\ Congruent(lp + lt, k + l, N)
      /\ (P.neutral => lp = 0) /\ (~P.neutral => lp = a)
      /\ (T.neutral => lt = 0) /\ (~T.neutral => lt = b)
      /\ (~P.neutral /\ ~T.neutral => x \in Coordinates /\ Congruent(x, lp + lt, N))
  BY <1>2, <1>5, <1>6
<1> HIDE DEF lp, lt, a, b
<1>8. /\ none \in BOOLEAN /\ x \in Coordinates
      /\ Congruent(IF none THEN 0 ELSE x, lp + lt, N)
  <2>1. CASE P.neutral /\ T.neutral
    <3>1. none /\ x = Junk /\ lp + lt = 0
      BY <1>7, <2>1
    <3> QED BY <1>1, <3>1, CongruentRefl
  <2>2. CASE P.neutral /\ ~T.neutral
    <3>1. ~none /\ x = b /\ lp + lt = b
      BY <1>2, <1>7, <2>2
    <3> QED BY <1>1, <1>2, <3>1, CongruentRefl
  <2>3. CASE ~P.neutral /\ T.neutral
    <3>1. ~none /\ x = a /\ lp + lt = a
      BY <1>2, <1>7, <2>3
    <3> QED BY <1>1, <1>2, <3>1, CongruentRefl
  <2>4. CASE ~P.neutral /\ ~T.neutral
    <3>1. ~none
      BY <2>4
    <3> QED BY <1>7, <2>4, <3>1
  <2> QED BY <1>2, <2>1, <2>2, <2>3, <2>4
<1> DEFINE S == [neutral |-> none, at |-> x]
<1>9. S \in Points /\ Log(S) = (IF none THEN 0 ELSE x)
  <2>1. none \in BOOLEAN /\ x \in Coordinates
    BY <1>8
  <2> HIDE DEF none, x
  <2> QED BY <2>1 DEF Points, Log
<1>10. Congruent(Log(S), k + l, N)
  <2> DEFINE y == Log(S)
  <2>1. y \in Int /\ Congruent(y, lp + lt, N)
    BY <1>8, <1>9, PointTypes
  <2>2. lp + lt \in Int /\ k + l \in Int
    BY <1>7
  <2> HIDE DEF y
  <2>3. Congruent(y, k + l, N)
    BY <1>1, <1>7, <2>1, <2>2, CongruentTrans
  <2> QED BY <2>3 DEF y
<1> QED BY <1>4, <1>9, <1>10 DEF Is

-----------------------------------------------------------------------------
(***************************************************************************)
(* Powers: the weight of a digit, and the halves of the digit range.       *)
(***************************************************************************)
Place(n) == 2^(W * n)
Middle == 2^(W - 1)
Positions == 0..(4 * Lane)

LEMMA Sizes ==
  /\ W \in Nat /\ W > 0 /\ Lane \in Nat /\ Lane > 0
  /\ Digits \in Nat /\ Digits = 4 * Lane - 1 /\ Digits >= 3 /\ Digits \in Positions
  /\ Positions \subseteq Nat
BY WindowAssumption DEF Digits, Positions

LEMMA ExponentOfPlace ==
  ASSUME NEW n \in Positions
  PROVE  W * n \in Exponents
<1> DEFINE rest == 4 * Lane - n
<1>1. n \in Nat /\ rest \in Nat /\ n + rest = 4 * Lane /\ W \in Nat
  BY Sizes DEF Positions
<1> HIDE DEF rest
<1>2. W * n \in Nat /\ W * rest \in Nat /\ W * (n + rest) = W * n + W * rest
  BY <1>1
<1> DEFINE wn == W * n  wr == W * rest  all == W * (n + rest)
<1>3. wn \in Nat /\ wr \in Nat /\ all = wn + wr
  BY <1>2
<1>4. Exponents = 0..all
  BY <1>1 DEF Exponents
<1> HIDE DEF wn, wr, all
<1>5. wn \in Exponents
  BY <1>3, <1>4
<1> QED BY <1>5 DEF wn

LEMMA Places ==
  /\ Place(0) = 1 /\ Place(1) = 2^W
  /\ \A n \in Positions : Place(n) \in Nat /\ Place(n) > 0
  /\ \A n, k \in Positions : n + k \in Positions => Place(n + k) = Place(n) * Place(k)
<1>1. W * 0 = 0 /\ W * 1 = W
  BY Sizes
<1>2. Place(0) = 1 /\ Place(1) = 2^W
  BY <1>1, WindowPowerLaws DEF Place
<1>3. ASSUME NEW n \in Positions PROVE Place(n) \in Nat /\ Place(n) > 0
  <2>1. W * n \in Exponents
    BY ExponentOfPlace
  <2>2. 2^(W * n) \in Nat \ {0}
    BY <2>1, WindowPowerLaws, Zenon
  <2> QED BY <2>2 DEF Place
<1>4. ASSUME NEW n \in Positions, NEW k \in Positions, n + k \in Positions
      PROVE  Place(n + k) = Place(n) * Place(k)
  <2>1. W * n \in Exponents /\ W * k \in Exponents /\ W * (n + k) \in Exponents
    BY <1>4, ExponentOfPlace
  <2>2. W * (n + k) = W * n + W * k
    BY Sizes
  <2>3. 2^(W * n + W * k) = 2^(W * n) * 2^(W * k)
    BY <2>1, <2>2, WindowPowerLaws, Zenon
  <2> QED BY <2>2, <2>3 DEF Place
<1> QED BY <1>2, <1>3, <1>4

\* The digits are 0..(2^W - 1), and 2^(W-1) is in the middle.
LEMMA Halves ==
  /\ Middle \in Nat /\ Middle > 0 /\ 2^W = 2 * Middle /\ 2^W \in Nat /\ 2^W < N
  /\ Entries = 0..(Middle - 1)
<1>1. W - 1 \in Nat /\ W * 1 = W /\ 1 \in Positions /\ W \in Nat /\ W > 0
  BY Sizes DEF Positions
<1>2. W \in Exponents
  BY <1>1, ExponentOfPlace
<1>3. 1 \in Exponents /\ W - 1 \in Exponents /\ (W - 1) + 1 = W
  <2> DEFINE all == W * (4 * Lane)
  <2>1. all \in Int /\ Exponents = 0..all
    BY Sizes DEF Exponents
  <2> HIDE DEF all
  <2> QED BY <1>1, <1>2, <2>1
<1>4. 2^W = 2^(W - 1) * 2^1
  BY <1>2, <1>3, WindowPowerLaws
<1>5. 2^(W - 1) \in Nat \ {0} /\ 2^1 = 2 /\ 2^W < N
  BY <1>3, WindowPowerLaws, WindowAssumption
<1>6. 2^W = 2 * Middle /\ Middle \in Nat /\ Middle > 0
  <2> DEFINE h == 2^(W - 1)
  <2>1. h \in Nat /\ h > 0 /\ 2^W = h * 2
    BY <1>4, <1>5
  <2> HIDE DEF h
  <2>2. 2^W = 2 * h
    BY <2>1
  <2> QED BY <2>1, <2>2 DEF h, Middle
<1> DEFINE w == 2^W
<1>7. w = 2 * Middle /\ w < N
  BY <1>5, <1>6
<1> HIDE DEF w
<1>8. w \in Nat
  BY <1>6, <1>7
<1> QED BY <1>6, <1>7, <1>8 DEF w, Entries, Middle

\* No power of two in use is a multiple of the order.
LEMMA PlaceNotZero ==
  /\ ~Congruent(2^W, 0, N)
  /\ \A n \in Positions : ~Congruent(Place(n), 0, N)
<1> DEFINE w == 2^W
<1>1. w \in Nat /\ w > 0 /\ w < N /\ N \in Nat
  BY Halves, Order
<1>2. ~Congruent(w, 0, N)
  <2> HIDE DEF w
  <2>1. w \in Coordinates
    BY <1>1, Order
  <2> QED BY <2>1, CoordinateTypes
<1> DEFINE S == {n \in Positions : ~Congruent(Place(n), 0, N)}
<1>3. 0 \in S
  <2>1. 1 \in Coordinates /\ 0 \in Positions
    BY Order, Sizes DEF Positions
  <2>2. ~Congruent(1, 0, N)
    BY <2>1, CoordinateTypes
  <2> QED BY <2>1, <2>2, Places
<1>4. ASSUME NEW n \in 0..(4 * Lane - 1), n \in S PROVE n + 1 \in S
  <2>1. n \in Positions /\ n + 1 \in Positions /\ 1 \in Positions
    BY <1>4, Sizes DEF Positions
  <2> DEFINE p == Place(n)
  <2>2. Place(n + 1) = p * w /\ p \in Int /\ w \in Int
    BY <1>1, <2>1, Places
  <2>3. ~Congruent(p, 0, N)
    BY <1>4
  <2> HIDE DEF p, w
  <2>4. ~Congruent(p * w, 0, N)
    BY <1>2, <2>2, <2>3, Order, Euclid
  <2> QED BY <2>1, <2>2, <2>4
<1>5. \A n \in 0..(4 * Lane) : n \in S
  <2>1. 4 * Lane \in Nat
    BY Sizes
  <2> HIDE DEF S
  <2> QED BY <1>3, <1>4, <2>1, UpTo
<1>6. \A n \in Positions : ~Congruent(Place(n), 0, N)
  BY <1>5 DEF Positions
<1> QED BY <1>2, <1>6

-----------------------------------------------------------------------------
(***************************************************************************)
(* The digits of a number, and those of the offset.                        *)
(***************************************************************************)
Upper(x, n) == x \div Place(n)

\* The digits from n on are the digit n, and the digits above it.
LEMMA DigitStep ==
  ASSUME NEW x \in Nat, NEW n \in Positions, n + 1 \in Positions
  PROVE  /\ Upper(x, n) \in Nat /\ Upper(x, n + 1) \in Nat
         /\ DigitOf(x, n) \in 0..(2^W - 1)
         /\ Upper(x, n) = 2^W * Upper(x, n + 1) + DigitOf(x, n)
<1> DEFINE p == Place(n)  w == 2^W  u == x \div p
<1>1. p \in Nat /\ p > 0 /\ w \in Nat /\ w > 0 /\ Place(n + 1) = p * w
  <2>1. 1 \in Positions
    BY Sizes DEF Positions
  <2> QED BY <2>1, Places, Halves
<1>2. DigitOf(x, n) = u % w /\ Upper(x, n) = u
  BY DEF DigitOf, Upper, Place
<1> HIDE DEF p, w
<1>3. u \in Nat
  BY <1>1
<1>4. u \div w = x \div (p * w)
  BY <1>1, DivisionTwice
<1>5. Upper(x, n + 1) = u \div w
  BY <1>1, <1>4 DEF Upper
<1> HIDE DEF u
<1>6. u = w * (u \div w) + (u % w) /\ u % w \in 0..(w - 1)
  BY <1>1, <1>3, Division
<1>7. u \div w \in Nat
  BY <1>1, <1>3
<1> QED BY <1>2, <1>3, <1>5, <1>6, <1>7 DEF w

LEMMA UpperEnds ==
  ASSUME NEW x \in Nat
  PROVE  /\ Upper(x, 0) = x
         /\ \A n \in 0..Digits : x < Place(Digits) => Upper(x, n) \in 0..(Place(Digits - n) - 1)
<1>1. Upper(x, 0) = x
  BY Places DEF Upper
<1>2. ASSUME NEW n \in 0..Digits, x < Place(Digits)
      PROVE  Upper(x, n) \in 0..(Place(Digits - n) - 1)
  <2>1. /\ n \in Positions /\ Digits - n \in Positions /\ (Digits - n) + n = Digits
        /\ (Digits - n) + n \in Positions
    BY Sizes DEF Positions
  <2> DEFINE p == Place(n)  q == Place(Digits - n)  u == x \div p
  <2>2. p \in Nat /\ p > 0 /\ q \in Nat /\ q > 0 /\ Place(Digits) = q * p
    BY <2>1, Places
  <2>3. x < q * p
    BY <1>2, <2>2
  <2> HIDE DEF p, q
  <2>4. u \in Nat /\ x = p * u + (x % p) /\ x % p \in 0..(p - 1)
    BY <2>2, Division
  <2> HIDE DEF u
  <2>5. u < q
    <3> SUFFICES ASSUME u >= q PROVE FALSE
      BY <2>2, <2>4
    <3>1. p * u >= p * q /\ p * q = q * p
      BY <2>2, <2>4
    <3> QED BY <2>2, <2>3, <2>4, <3>1
  <2>6. u \in 0..(q - 1)
    BY <2>2, <2>4, <2>5
  <2> QED BY <2>6 DEF u, p, q, Upper
<1> QED BY <1>1, <1>2

\* the number of which all digits are one
Repunit(n) == (Place(n) - 1) \div (2^W - 1)

LEMMA Repunits ==
  /\ \A n \in Positions : Repunit(n) \in Nat /\ (2^W - 1) * Repunit(n) = Place(n) - 1
  /\ \A n, k \in Positions : n + k \in Positions =>
        Repunit(n + k) = Repunit(n) * Place(k) + Repunit(k)
  /\ Repunit(0) = 0 /\ Repunit(1) = 1
<1> DEFINE w == 2^W  v == w - 1
<1>1. w \in Nat /\ w > 1 /\ v \in Nat /\ v > 0 /\ v = w - 1
  BY Halves
<1>2. Place(0) = 1 /\ Place(1) = w
  BY Places
<1>3. \A n : Repunit(n) = (Place(n) - 1) \div v
  BY DEF Repunit
<1> HIDE DEF w, v
<1> DEFINE S == {n \in Positions : Repunit(n) \in Nat /\ v * Repunit(n) = Place(n) - 1}
<1>4. Repunit(0) = 0
  BY <1>1, <1>2, <1>3
<1>5. Repunit(1) = 1
  <2>1. w - 1 = v /\ v = v * 1 + 0 /\ 0 \in 0..(v - 1) /\ v \in Int
    BY <1>1
  <2>2. v \div v = 1
    BY <1>1, <2>1, DivisionUnique
  <2> QED BY <1>2, <1>3, <2>1, <2>2
<1>6. 0 \in S
  BY <1>1, <1>2, <1>4, Sizes DEF Positions
<1>7. ASSUME NEW n \in 0..(4 * Lane - 1), n \in S PROVE n + 1 \in S
  <2>1. n \in Positions /\ n + 1 \in Positions /\ 1 \in Positions
    BY <1>7, Sizes DEF Positions
  <2> DEFINE p == Place(n)  u == Repunit(n)
  <2>2. Place(n + 1) = p * w /\ p \in Int
    BY <1>2, <2>1, Places
  <2>3. u \in Nat /\ v * u = p - 1
    BY <1>7
  <2> HIDE DEF p, u
  <2> DEFINE y == w * u + 1
  <2>4. y \in Nat /\ p * w - 1 = v * y
    <3>1. v * (w * u + 1) = w * (v * u) + v
      BY <1>1, <2>3
    <3>2. w * (p - 1) = p * w - w
      BY <1>1, <2>2
    <3> DEFINE pw == p * w
    <3>3. pw \in Int /\ v * y = (pw - w) + v
      BY <1>1, <2>2, <2>3, <3>1, <3>2
    <3> HIDE DEF pw, y
    <3>4. pw - 1 = v * y
      BY <1>1, <3>3
    <3> QED BY <1>1, <2>3, <3>4 DEF pw, y
  <2> HIDE DEF y
  <2>5. p * w - 1 = v * y + 0 /\ 0 \in 0..(v - 1) /\ p * w - 1 \in Int /\ y \in Int /\ v \in Nat
    BY <1>1, <2>2, <2>4
  <2>6. (p * w - 1) \div v = y
    BY <1>1, <2>5, DivisionUnique
  <2>7. Repunit(n + 1) = y
    BY <1>3, <2>2, <2>6
  <2> QED BY <2>1, <2>2, <2>4, <2>7
<1>8. \A n \in Positions : n \in S
  <2>1. 4 * Lane \in Nat
    BY Sizes
  <2> HIDE DEF S
  <2>2. \A n \in 0..(4 * Lane) : n \in S
    BY <1>6, <1>7, <2>1, UpTo
  <2> QED BY <2>2 DEF Positions
<1>9. ASSUME NEW n \in Positions, NEW k \in Positions, n + k \in Positions
      PROVE  Repunit(n + k) = Repunit(n) * Place(k) + Repunit(k)
  <2> DEFINE a == Repunit(n)  b == Repunit(k)  c == Repunit(n + k)  p == Place(n)  q == Place(k)
  <2>1. a \in Nat /\ v * a = p - 1 /\ b \in Nat /\ v * b = q - 1 /\ c \in Nat /\ v * c = p * q - 1
    BY <1>8, <1>9, Places
  <2>2. p \in Nat /\ q \in Nat
    BY Places
  <2> HIDE DEF a, b, c, p, q
  <2>3. v * (a * q + b) = (v * a) * q + v * b
    BY <1>1, <2>1, <2>2
  <2>4. (p - 1) * q = p * q - q
    BY <2>2
  <2> DEFINE pq == p * q  d == a * q + b
  <2>5. pq \in Int /\ d \in Nat /\ v * d = (pq - q) + (q - 1) /\ v * c = pq - 1
    BY <2>1, <2>2, <2>3, <2>4
  <2> HIDE DEF pq, d
  <2>6. v * d = v * c
    BY <2>2, <2>5
  <2>7. v * (d - c) = 0
    BY <1>1, <2>1, <2>5, <2>6
  <2>8. d - c = 0
    BY <1>1, <2>1, <2>5, <2>7
  <2>9. c = d
    BY <2>1, <2>5, <2>8
  <2> QED BY <2>9 DEF a, b, c, q, d
<1> QED BY <1>4, <1>5, <1>8, <1>9 DEF w, v

\* The offset has the middle value in every digit, and no further digit.
LEMMA OffsetUpper ==
  /\ Offset \in Nat /\ Offset = Repunit(Digits) * Middle /\ Offset < Place(Digits)
  /\ \A n \in 0..Digits : Upper(Offset, n) = Repunit(Digits - n) * Middle
<1> DEFINE h == Middle  w == 2^W
<1>1. h \in Nat /\ h > 0 /\ w = 2 * h /\ w \in Nat
  BY Halves
<1>2. Offset = Repunit(Digits) * h
  BY DEF Offset, Repunit, Place, Middle
<1>3. \A n \in Positions : Repunit(n) \in Nat /\ (w - 1) * Repunit(n) = Place(n) - 1
  BY Repunits
<1> HIDE DEF h, w
<1>4. ASSUME NEW n \in Positions PROVE Repunit(n) * h \in Nat /\ Repunit(n) * h <= Place(n) - 1
  <2> DEFINE u == Repunit(n)  p == Place(n)
  <2>1. u \in Nat /\ (w - 1) * u = p - 1
    BY <1>3
  <2> HIDE DEF u, p
  <2>2. h <= w - 1 /\ w - 1 \in Nat
    BY <1>1
  <2>3. h * u <= (w - 1) * u /\ h * u \in Nat /\ u * h = h * u
    BY <1>1, <2>1, <2>2
  <2> QED BY <2>1, <2>3 DEF u, p
<1>5. Offset \in Nat /\ Offset < Place(Digits)
  <2> DEFINE o == Repunit(Digits) * h  p == Place(Digits)
  <2>1. o \in Nat /\ o <= p - 1 /\ p \in Nat
    BY <1>4, Sizes, Places
  <2> HIDE DEF o, p
  <2>2. o < p
    BY <2>1
  <2> QED BY <1>2, <2>1, <2>2 DEF o, p
<1>6. ASSUME NEW n \in 0..Digits PROVE Upper(Offset, n) = Repunit(Digits - n) * h
  <2>1. /\ n \in Positions /\ Digits - n \in Positions /\ (Digits - n) + n = Digits
        /\ Digits \in Positions
    BY Sizes DEF Positions
  <2> DEFINE a == Repunit(Digits - n)  b == Repunit(n)  p == Place(n)
  <2>2. a \in Nat /\ b \in Nat /\ Repunit(Digits) = a * p + b /\ p \in Nat /\ p > 0
    BY <2>1, Repunits, Places
  <2>3. b * h \in Nat /\ b * h <= p - 1
    BY <1>4, <2>1
  <2> HIDE DEF a, b, p
  <2>4. Offset = p * (a * h) + b * h
    <3>1. (a * p + b) * h = p * (a * h) + b * h
      BY <1>1, <2>2
    <3> QED BY <1>2, <2>2, <3>1
  <2>5. b * h \in 0..(p - 1) /\ a * h \in Int
    BY <1>1, <2>2, <2>3
  <2>6. Offset \div p = a * h
    BY <1>5, <2>2, <2>4, <2>5, DivisionUnique
  <2> QED BY <2>6 DEF a, p, Upper
<1> QED BY <1>2, <1>5, <1>6 DEF h

LEMMA OffsetDigit ==
  /\ \A n \in 0..(Digits - 1) : DigitOf(Offset, n) = Middle
  /\ \A x \in Nat : x < Place(Digits) => DigitOf(x, Digits) = 0
<1> DEFINE w == 2^W
<1>1. ASSUME NEW n \in 0..(Digits - 1) PROVE DigitOf(Offset, n) = Middle
  <2>1. /\ n \in Positions /\ n + 1 \in Positions /\ n \in 0..Digits /\ n + 1 \in 0..Digits
        /\ Digits - n \in Positions /\ Digits - (n + 1) \in Positions /\ 1 \in Positions
        /\ 1 + (Digits - (n + 1)) = Digits - n /\ (Digits - (n + 1)) + 1 = Digits - n
    BY Sizes DEF Positions
  <2> DEFINE a == Repunit(Digits - (n + 1))  d == DigitOf(Offset, n)  h == Middle
  <2>2. Repunit(Digits - n) = a * w + 1 /\ a \in Nat
    <3>1. Repunit((Digits - (n + 1)) + 1) = a * Place(1) + Repunit(1)
      BY <2>1, Repunits
    <3> QED BY <2>1, <3>1, Repunits, Places
  <2>3. Upper(Offset, n) = (a * w + 1) * h /\ Upper(Offset, n + 1) = a * h
    BY <2>1, <2>2, OffsetUpper
  <2>4. Upper(Offset, n) = w * Upper(Offset, n + 1) + d /\ d \in Int
    BY <2>1, DigitStep, OffsetUpper
  <2>5. w \in Nat /\ h \in Nat
    BY Halves
  <2> HIDE DEF a, d, h, w
  <2>6. (a * w + 1) * h = w * (a * h) + h
    BY <2>2, <2>5
  <2> DEFINE t == w * (a * h)
  <2>7. t \in Int /\ t + h = t + d
    BY <2>2, <2>3, <2>4, <2>5, <2>6
  <2> HIDE DEF t
  <2>8. d = h
    BY <2>4, <2>5, <2>7
  <2> QED BY <2>8 DEF d, h
<1>2. ASSUME NEW x \in Nat, x < Place(Digits) PROVE DigitOf(x, Digits) = 0
  <2>1. Digits \in 0..Digits /\ Digits - Digits = 0 /\ Place(0) = 1
    BY Sizes, Places
  <2>2. Upper(x, Digits) \in 0..(1 - 1)
    BY <1>2, <2>1, UpperEnds
  <2>3. DigitOf(x, Digits) = Upper(x, Digits) % w
    BY DEF DigitOf, Upper, Place
  <2>4. w \in Nat /\ w > 0
    BY Halves
  <2> HIDE DEF w
  <2> QED BY <2>2, <2>3, <2>4
<1> QED BY <1>1, <1>2

\* What the digits above n stand for, when each counts from the middle value.
LEMMA UsedStep ==
  ASSUME NEW sb \in Nat, sb < Place(Digits)
  PROVE  /\ Used(sb, Digits) = 0 /\ Used(sb, 0) = sb - Offset
         /\ \A n \in 0..Digits :
              /\ Used(sb, n) \in Int
              /\ Used(sb, n) < Place(Digits - n) /\ -Used(sb, n) < Place(Digits - n)
         /\ \A n \in 0..(Digits - 1) :
              /\ DigitOf(sb, n) \in 0..(2^W - 1)
              /\ Used(sb, n) = 2^W * Used(sb, n + 1) + (DigitOf(sb, n) - Middle)
<1>1. \A n : Used(sb, n) = Upper(sb, n) - Upper(Offset, n)
  BY DEF Used, Upper, Place
<1>2. Offset \in Nat /\ Offset < Place(Digits)
  BY OffsetUpper
<1>3. ASSUME NEW n \in 0..Digits
      PROVE  /\ Used(sb, n) \in Int
             /\ Used(sb, n) < Place(Digits - n) /\ -Used(sb, n) < Place(Digits - n)
  <2> DEFINE p == Place(Digits - n)  u == Upper(sb, n)  o == Upper(Offset, n)
  <2>1. u \in 0..(p - 1) /\ o \in 0..(p - 1)
    BY <1>2, UpperEnds
  <2>2. p \in Nat
    <3>1. Digits - n \in Positions
      BY Sizes DEF Positions
    <3> QED BY <3>1, Places
  <2>3. Used(sb, n) = u - o
    BY <1>1
  <2> HIDE DEF p, u, o
  <2>4. u - o \in Int /\ u - o < p /\ -(u - o) < p
    BY <2>1, <2>2
  <2> QED BY <2>3, <2>4 DEF p
<1>4. Used(sb, Digits) = 0
  <2>1. Digits \in 0..Digits /\ Digits - Digits = 0 /\ Place(0) = 1
    BY Sizes, Places
  <2>2. Used(sb, Digits) \in Int /\ Used(sb, Digits) < 1 /\ -Used(sb, Digits) < 1
    BY <1>3, <2>1
  <2> QED BY <2>2
<1>5. Used(sb, 0) = sb - Offset
  BY <1>1, <1>2, UpperEnds
<1>6. ASSUME NEW n \in 0..(Digits - 1)
      PROVE  /\ DigitOf(sb, n) \in 0..(2^W - 1)
             /\ Used(sb, n) = 2^W * Used(sb, n + 1) + (DigitOf(sb, n) - Middle)
  <2>1. n \in Positions /\ n + 1 \in Positions
    BY Sizes DEF Positions
  <2> DEFINE u == Upper(sb, n + 1)  o == Upper(Offset, n + 1)  w == 2^W
             d == DigitOf(sb, n)  h == Middle  u0 == Upper(sb, n)  o0 == Upper(Offset, n)
  <2>2. u0 = w * u + d /\ u \in Nat /\ d \in 0..(w - 1) /\ o0 = w * o + h /\ o \in Nat
    BY <1>2, <2>1, DigitStep, OffsetDigit
  <2>3. w \in Nat /\ h \in Nat
    BY Halves
  <2>4. Used(sb, n) = u0 - o0 /\ Used(sb, n + 1) = u - o
    BY <1>1
  <2> HIDE DEF u, o, w, d, h, u0, o0
  <2>5. w * (u - o) = w * u - w * o
    BY <2>2, <2>3
  <2>6. u0 - o0 = w * (u - o) + (d - h)
    <3> DEFINE wu == w * u  wo == w * o  wd == w * (u - o)
    <3>1. wu \in Int /\ wo \in Int /\ wd = wu - wo /\ u0 = wu + d /\ o0 = wo + h /\ d \in Int /\ h \in Int
      BY <2>2, <2>3, <2>5
    <3> HIDE DEF wu, wo, wd
    <3>2. u0 - o0 = wd + (d - h)
      BY <3>1
    <3> QED BY <3>2 DEF wd
  <2> QED BY <2>2, <2>4, <2>6 DEF w, d, h
<1> QED BY <1>3, <1>4, <1>5, <1>6

-----------------------------------------------------------------------------
(***************************************************************************)
(* The quarters of a scalar, for the multiples of the generator.           *)
(***************************************************************************)
Part(x, k) == (x \div Place(Lane * k)) % Place(Lane)

\* the digit of weight a in base w
DigitAt(x, a, w) == (x \div a) % w

\* y is the remainder of z by a number that a * w divides
IsRemainder(y, z, a, w, c) ==
    /\ z \in Nat /\ a \in Nat /\ a > 0 /\ w \in Nat /\ w > 0 /\ c \in Nat /\ c > 0
    /\ y = z % (a * w * c)

\* A digit of a remainder is the digit of the dividend.
LEMMA DigitOfRemainder ==
  ASSUME NEW z, NEW a, NEW w, NEW c, NEW y, IsRemainder(y, z, a, w, c)
  PROVE  DigitAt(y, a, w) = DigitAt(z, a, w)
<1> DEFINE m == a * w * c  q == z \div m
<1>0. z \in Nat /\ a \in Nat /\ a > 0 /\ w \in Nat /\ w > 0 /\ c \in Nat /\ c > 0 /\ y = z % m
  BY DEF IsRemainder
<1>1. m \in Nat /\ m > 0 /\ m = a * (w * c)
  <2> DEFINE aw == a * w
  <2>1. aw \in Nat /\ aw > 0
    BY <1>0
  <2> HIDE DEF aw
  <2>2. aw * c \in Nat /\ aw * c > 0
    BY <1>0, <2>1
  <2>3. a * w * c = a * (w * c)
    BY <1>0
  <2> QED BY <2>2, <2>3 DEF aw
<1> HIDE DEF m
<1>2. z = m * q + y /\ q \in Int /\ y \in Int
  BY <1>0, <1>1, Division
<1> HIDE DEF q
<1> DEFINE u == y \div a  r == y % a
<1>3. y = a * u + r /\ u \in Int /\ r \in 0..(a - 1)
  BY <1>0, <1>2, Division
<1> HIDE DEF u, r
<1> DEFINE s == u \div w  d == u % w
<1>4. u = w * s + d /\ s \in Int /\ d \in 0..(w - 1)
  BY <1>0, <1>3, Division
<1> HIDE DEF s, d
<1> DEFINE e == w * (c * q + s) + d
<1>5. z = a * e + r /\ e \in Int
  <2>1. m * q = a * (w * (c * q))
    BY <1>0, <1>1, <1>2
  <2>2. e = w * (c * q) + u /\ w * (c * q) \in Int
    <3>1. w * (c * q + s) = w * (c * q) + w * s
      BY <1>0, <1>2, <1>4
    <3> DEFINE wcq == w * (c * q)  ws == w * s  wcs == w * (c * q + s)
    <3>2. wcq \in Int /\ ws \in Int /\ wcs = wcq + ws /\ u = ws + d /\ d \in Int /\ e = wcs + d
      BY <1>0, <1>2, <1>4, <3>1
    <3> HIDE DEF wcq, ws, wcs, e
    <3>3. e = wcq + u /\ wcq \in Int
      BY <3>2
    <3> QED BY <3>3 DEF wcq
  <2> DEFINE f == w * (c * q)
  <2> HIDE DEF e
  <2>3. f \in Int /\ e = f + u /\ m * q = a * f
    BY <2>1, <2>2
  <2> HIDE DEF f
  <2>4. a * (f + u) = a * f + a * u
    BY <1>0, <1>3, <2>3
  <2> DEFINE af == a * f  au == a * u  ae == a * e  mq == m * q
  <2>5. af \in Int /\ au \in Int /\ ae = af + au /\ mq = af /\ z = mq + y /\ y = au + r /\ r \in Int
    BY <1>0, <1>2, <1>3, <2>3, <2>4
  <2> HIDE DEF af, au, ae, mq
  <2>6. z = ae + r
    BY <2>5
  <2> QED BY <1>0, <1>3, <2>3, <2>6 DEF ae
<1>6. z \div a = e
  <2> HIDE DEF e
  <2> QED BY <1>0, <1>3, <1>5, DivisionUnique
<1>7. e % w = d
  <2> DEFINE g == c * q + s
  <2>1. g \in Int /\ e = w * g + d
    BY <1>0, <1>2, <1>4
  <2> HIDE DEF g, e
  <2> QED BY <1>0, <1>4, <1>5, <2>1, DivisionUnique
<1>8. (z \div a) % w = d
  BY <1>6, <1>7
<1>9. (y \div a) % w = d
  BY DEF u, d
<1> QED BY <1>8, <1>9 DEF DigitAt

LEMMA QuarterPositions ==
  ASSUME NEW k \in 0..3
  PROVE  /\ Lane * k \in Positions /\ Lane \in Positions /\ Lane * k + Lane \in Positions
         /\ \A n \in 0..Lane : /\ n \in Positions /\ Lane - n \in Positions
                               /\ Lane * k + n \in Positions
         /\ \A n \in 0..(Lane - 1) :
              /\ n + 1 \in Positions /\ Lane - (n + 1) \in Positions
              /\ Lane * k + n <= Digits
              /\ Lane * k + n = Digits <=> k = 3 /\ n = Lane - 1
<1>1. k = 0 \/ k = 1 \/ k = 2 \/ k = 3
  OBVIOUS
<1>2. Lane * 0 = 0 /\ Lane * 1 = Lane /\ Lane * 2 = 2 * Lane /\ Lane * 3 = 3 * Lane
  BY Sizes
<1> QED BY <1>1, <1>2, Sizes DEF Positions

\* The digits of a quarter are digits of the scalar.
LEMMA PartDigits ==
  ASSUME NEW x \in Nat, NEW k \in 0..3
  PROVE  /\ Part(x, k) \in Nat /\ Upper(Part(x, k), Lane) = 0 /\ Upper(Part(x, k), 0) = Part(x, k)
         /\ \A n \in 0..Lane : Upper(Part(x, k), n) \in Nat
         /\ \A n \in 0..(Lane - 1) :
              /\ Upper(Part(x, k), n) =
                      2^W * Upper(Part(x, k), n + 1) + DigitOf(x, Lane * k + n)
              /\ DigitOf(x, Lane * k + n) \in 0..(2^W - 1)
<1> DEFINE b == Place(Lane * k)  l == Place(Lane)  z == x \div b  y == z % l
<1>1. b \in Nat /\ b > 0 /\ l \in Nat /\ l > 0
  BY QuarterPositions, Places
<1> HIDE DEF b, l
<1>2. z \in Nat /\ y \in Nat /\ y \in 0..(l - 1)
  BY <1>1
<1>3. Part(x, k) = y
  BY DEF Part, b, l
<1>4. Upper(y, Lane) = 0
  <2>1. y = l * 0 + y
    BY <1>1, <1>2
  <2> HIDE DEF y
  <2>2. y \div l = 0
    BY <1>1, <1>2, <2>1, DivisionUnique
  <2> QED BY <2>2 DEF Upper, l
<1>5. ASSUME NEW n \in 0..(Lane - 1)
      PROVE  /\ DigitOf(y, n) = DigitOf(x, Lane * k + n)
             /\ DigitOf(x, Lane * k + n) \in 0..(2^W - 1)
  <2>1. /\ n \in Positions /\ n + 1 \in Positions /\ Lane - (n + 1) \in Positions
        /\ Lane * k \in Positions /\ Lane * k + n \in Positions /\ Lane \in Positions
        /\ 1 \in Positions /\ (n + 1) + (Lane - (n + 1)) = Lane
    <3>1. n \in 0..Lane /\ 1 \in Positions /\ (n + 1) + (Lane - (n + 1)) = Lane
      BY Sizes DEF Positions
    <3> QED BY <3>1, QuarterPositions
  <2> DEFINE a == Place(n)  w == 2^W  c == Place(Lane - (n + 1))
  <2>2. a \in Nat /\ a > 0 /\ w \in Nat /\ w > 0 /\ c \in Nat /\ c > 0
    BY <2>1, Places, Halves
  <2>3. l = a * w * c
    <3>1. Place(Lane) = Place(n + 1) * c /\ Place(n + 1) = a * w
      BY <2>1, Places
    <3> QED BY <3>1 DEF l
  <2>4. Place(Lane * k + n) = b * a
    BY <2>1, Places DEF b
  <2>5. DigitOf(x, Lane * k + n) = (x \div (b * a)) % w /\ DigitOf(y, n) = (y \div a) % w
    BY <2>4 DEF DigitOf, Place
  <2> HIDE DEF a, w, c
  <2>6. x \div (b * a) = z \div a
    BY <1>1, <2>2, DivisionTwice
  <2> HIDE DEF z
  <2>7. (y \div a) % w = (z \div a) % w
    <3>1. z \in Nat /\ y = z % l
      BY <1>2
    <3> HIDE DEF y
    <3>2. IsRemainder(y, z, a, w, c)
      BY <2>2, <2>3, <3>1 DEF IsRemainder
    <3>3. DigitAt(y, a, w) = DigitAt(z, a, w)
      BY <3>2, DigitOfRemainder
    <3> QED BY <3>3 DEF DigitAt
  <2>8. z \div a \in Nat
    BY <1>2, <2>2
  <2> DEFINE za == z \div a
  <2> HIDE DEF za
  <2>9. za % w \in 0..(w - 1)
    BY <2>2, <2>8 DEF za
  <2> QED BY <2>5, <2>6, <2>7, <2>9 DEF za, w
<1> HIDE DEF y
<1>6. \A n \in 0..Lane : Upper(y, n) \in Nat
  <2> SUFFICES ASSUME NEW n \in 0..Lane PROVE Upper(y, n) \in Nat
    OBVIOUS
  <2> DEFINE a == Place(n)
  <2>1. a \in Nat /\ a > 0
    BY QuarterPositions, Places
  <2> HIDE DEF a
  <2>2. y \div a \in Nat
    BY <1>2, <2>1
  <2> QED BY <2>2 DEF Upper, a
<1>7. ASSUME NEW n \in 0..(Lane - 1) PROVE Upper(y, n) = 2^W * Upper(y, n + 1) + DigitOf(y, n)
  <2>1. n \in Positions /\ n + 1 \in Positions
    BY QuarterPositions, Sizes DEF Positions
  <2> QED BY <1>2, <2>1, DigitStep
<1>8. Upper(y, 0) = y
  BY <1>2, UpperEnds
<1> QED BY <1>2, <1>3, <1>4, <1>5, <1>6, <1>7, <1>8

\* The quarters, each with its weight, make the scalar.
LEMMA PartsSum ==
  ASSUME NEW x \in Nat, x < Place(Digits)
  PROVE  x = Part(x, 0) + Part(x, 1) * Place(Lane) + Part(x, 2) * Place(Lane * 2)
               + Part(x, 3) * Place(Lane * 3)
<1> DEFINE l == Place(Lane)
<1>1. /\ l \in Nat /\ l > 0 /\ Place(Lane * 2) = l * l /\ Place(Lane * 3) = (l * l) * l
      /\ Place(4 * Lane) = ((l * l) * l) * l /\ Place(Lane * 0) = 1 /\ Place(Lane * 1) = l
      /\ x < Place(4 * Lane)
  <2>1. /\ Lane * 0 = 0 /\ Lane * 1 = Lane /\ Lane * 2 = Lane + Lane /\ Lane * 3 = Lane * 2 + Lane
        /\ 4 * Lane = Lane * 3 + Lane /\ 4 * Lane = Digits + 1
        /\ {Lane, Lane * 2, Lane * 3, 4 * Lane, Digits, 1} \subseteq Positions
    BY Sizes DEF Positions
  <2>2. l \in Nat /\ l > 0 /\ Place(0) = 1
    BY <2>1, Places
  <2>3. Place(Lane * 2) = l * l /\ Place(Lane * 3) = Place(Lane * 2) * l
        /\ Place(4 * Lane) = Place(Lane * 3) * l /\ Place(4 * Lane) = Place(Digits) * Place(1)
    BY <2>1, Places
  <2>4. x < Place(4 * Lane)
    <3> DEFINE p == Place(Digits)  w == Place(1)
    <3>1. p \in Nat /\ w \in Nat /\ w > 0 /\ x < p
      BY <2>1, Places
    <3> HIDE DEF p, w
    <3>2. p <= p * w
      <4>1. w >= 1
        BY <3>1
      <4>2. p * w >= p * 1
        BY <3>1, <4>1
      <4> QED BY <3>1, <4>2
    <3>3. x < p * w
      BY <3>1, <3>2
    <3> QED BY <2>3, <3>3 DEF p, w
  <2> QED BY <2>1, <2>2, <2>3, <2>4
<1> HIDE DEF l
<1> DEFINE z1 == x \div l  z2 == z1 \div l  z3 == z2 \div l
           p0 == x % l  p1 == z1 % l  p2 == z2 % l  p3 == z3 % l
<1>2. x = l * z1 + p0 /\ z1 \in Nat /\ p0 \in Nat
  BY <1>1
<1>3. Part(x, 0) = p0 /\ Part(x, 1) = p1
  <2>1. x \div 1 = x
    OBVIOUS
  <2> QED BY <1>1, <2>1 DEF Part, l
<1>4. x \div (l * l) = z2 /\ x \div ((l * l) * l) = z3 /\ x \div (((l * l) * l) * l) = z3 \div l
  <2>1. x \div (l * l) = z2
    BY <1>1, DivisionTwice
  <2> DEFINE ll == l * l
  <2>2. ll \in Nat /\ ll > 0
    BY <1>1
  <2>3. x \div ll = z2
    BY <2>1
  <2> HIDE DEF ll, z2
  <2>4. x \div (ll * l) = z3
    BY <1>1, <2>2, <2>3, DivisionTwice
  <2> DEFINE lll == ll * l
  <2>5. lll \in Nat /\ lll > 0
    BY <1>1, <2>2
  <2>6. x \div lll = z3
    BY <2>4
  <2> HIDE DEF lll, z3
  <2>7. x \div (lll * l) = z3 \div l
    BY <1>1, <2>5, <2>6, DivisionTwice
  <2> QED BY <2>3, <2>4, <2>7 DEF ll, lll
<1>5. Part(x, 2) = p2 /\ Part(x, 3) = p3
  BY <1>1, <1>4 DEF Part, l
<1> HIDE DEF z1, p0
<1>6. z1 = l * z2 + p1 /\ z2 \in Nat /\ p1 \in Nat
  BY <1>1, <1>2
<1> HIDE DEF z2, p1
<1>7. z2 = l * z3 + p2 /\ z3 \in Nat /\ p2 \in Nat
  BY <1>1, <1>6
<1> HIDE DEF p2
<1>8. z3 = p3 /\ p3 \in Nat
  <2> DEFINE m == ((l * l) * l) * l
  <2>1. m \in Nat /\ m > 0 /\ x < m
    <3>1. ((l * l) * l) * l \in Nat
      BY <1>1
    <3> QED BY <1>1, <3>1
  <2> HIDE DEF m, z3
  <2>2. x \div m = 0
    <3>1. x = m * 0 + x /\ x \in 0..(m - 1)
      BY <2>1
    <3> QED BY <2>1, <3>1, DivisionUnique
  <2>3. z3 \div l = 0
    BY <1>4, <2>2 DEF m
  <2>4. z3 = l * (z3 \div l) + (z3 % l)
    BY <1>1, <1>7, Division
  <2>5. z3 = z3 % l
    BY <1>1, <1>7, <2>3, <2>4
  <2> QED BY <1>1, <1>7, <2>5
<1> HIDE DEF z3, p3
<1>9. x = p0 + p1 * l + p2 * (l * l) + p3 * ((l * l) * l)
  <2>1. l * (l * (l * p3 + p2) + p1) = p1 * l + (p2 * (l * l) + p3 * ((l * l) * l))
    BY <1>1, <1>6, <1>7, <1>8
  <2>2. x = l * (l * (l * p3 + p2) + p1) + p0
    BY <1>2, <1>6, <1>7, <1>8
  <2> DEFINE a == p1 * l  b == p2 * (l * l)  c == p3 * ((l * l) * l)
             t == l * (l * (l * p3 + p2) + p1)
  <2>3. a \in Int /\ b \in Int /\ c \in Int /\ t = a + (b + c) /\ x = t + p0
    <3>1. a \in Int
      BY <1>1, <1>6
    <3>2. b \in Int
      BY <1>1, <1>7
    <3>3. c \in Int
      BY <1>1, <1>8
    <3> QED BY <2>1, <2>2, <3>1, <3>2, <3>3
  <2> HIDE DEF a, b, c, t
  <2>4. x = p0 + a + b + c
    BY <1>2, <2>3
  <2> QED BY <2>4 DEF a, b, c
<1> QED BY <1>1, <1>3, <1>5, <1>9 DEF l

\* the digits of the four quarters from n on, each with its weight
Quarters(n) ==
    UsedInQuarter(0, n) + UsedInQuarter(1, n) * Place(Lane)
        + UsedInQuarter(2, n) * Place(Lane * 2) + UsedInQuarter(3, n) * Place(Lane * 3)

\* what a digit of quarter k adds: the topmost quarter is one digit short
SignedDigit(k, n) == DigitOf(sb2, Lane * k + n) - DigitOf(Offset, Lane * k + n)

LEMMA QuarterStep ==
  ASSUME sb2 \in Nat, sb2 < Place(Digits)
  PROVE  /\ \A k \in 0..3 :
              /\ UsedInQuarter(k, Lane) = 0
              /\ \A n \in 0..Lane : UsedInQuarter(k, n) \in Int
              /\ \A n \in 0..(Lane - 1) :
                   /\ SignedDigit(k, n) \in Int
                   /\ UsedInQuarter(k, n) = 2^W * UsedInQuarter(k, n + 1) + SignedDigit(k, n)
         /\ Quarters(0) = sb2 - Offset
<1>1. \A k \in 0..3 : \A n :
        UsedInQuarter(k, n) = Upper(Part(sb2, k), n) - Upper(Part(Offset, k), n)
  <2> SUFFICES ASSUME NEW k \in 0..3, NEW n
               PROVE  UsedInQuarter(k, n) = Upper(Part(sb2, k), n) - Upper(Part(Offset, k), n)
    OBVIOUS
  <2>1. W * Lane * k = W * (Lane * k)
    BY Sizes
  <2> QED BY <2>1 DEF UsedInQuarter, Upper, Part, Place
<1>2. Offset \in Nat /\ Offset < Place(Digits)
  BY OffsetUpper
<1>3. ASSUME NEW k \in 0..3
      PROVE  /\ UsedInQuarter(k, Lane) = 0
             /\ UsedInQuarter(k, 0) = Part(sb2, k) - Part(Offset, k)
             /\ Part(sb2, k) \in Nat /\ Part(Offset, k) \in Nat
             /\ \A n \in 0..Lane : UsedInQuarter(k, n) \in Int
  <2> DEFINE a == Part(sb2, k)  o == Part(Offset, k)
  <2>1. /\ a \in Nat /\ Upper(a, Lane) = 0 /\ Upper(a, 0) = a
        /\ \A n \in 0..Lane : Upper(a, n) \in Nat
    BY PartDigits
  <2>2. /\ o \in Nat /\ Upper(o, Lane) = 0 /\ Upper(o, 0) = o
        /\ \A n \in 0..Lane : Upper(o, n) \in Nat
    BY <1>2, PartDigits
  <2>3. \A n : UsedInQuarter(k, n) = Upper(a, n) - Upper(o, n)
    BY <1>1
  <2> HIDE DEF a, o
  <2>4. UsedInQuarter(k, Lane) = 0 /\ UsedInQuarter(k, 0) = a - o
    BY <2>1, <2>2, <2>3
  <2>5. \A n \in 0..Lane : UsedInQuarter(k, n) \in Int
    BY <2>1, <2>2, <2>3
  <2> QED BY <2>1, <2>2, <2>4, <2>5 DEF a, o
<1>4. ASSUME NEW k \in 0..3, NEW n \in 0..(Lane - 1)
      PROVE  /\ SignedDigit(k, n) \in Int
             /\ UsedInQuarter(k, n) = 2^W * UsedInQuarter(k, n + 1) + SignedDigit(k, n)
  <2> DEFINE u0 == Upper(Part(sb2, k), n)  u == Upper(Part(sb2, k), n + 1)
             o0 == Upper(Part(Offset, k), n)  o == Upper(Part(Offset, k), n + 1)
             d == DigitOf(sb2, Lane * k + n)  h == DigitOf(Offset, Lane * k + n)  w == 2^W
  <2>1. n + 1 \in 0..Lane /\ w \in Nat
    BY Sizes, Halves
  <2>2. /\ u0 = w * u + d /\ u \in Nat /\ d \in 0..(w - 1)
        /\ o0 = w * o + h /\ o \in Nat /\ h \in 0..(w - 1)
    BY <1>2, <2>1, PartDigits
  <2>3. UsedInQuarter(k, n) = u0 - o0 /\ UsedInQuarter(k, n + 1) = u - o /\ SignedDigit(k, n) = d - h
    BY <1>1 DEF SignedDigit
  <2> HIDE DEF u0, u, o0, o, d, h, w
  <2>4. w * (u - o) = w * u - w * o
    BY <2>1, <2>2
  <2> DEFINE wu == w * u  wo == w * o  wd == w * (u - o)
  <2>5. wu \in Int /\ wo \in Int /\ wd = wu - wo /\ u0 = wu + d /\ o0 = wo + h /\ d \in Int /\ h \in Int
    BY <2>1, <2>2, <2>4
  <2> HIDE DEF wu, wo, wd
  <2>6. u0 - o0 = wd + (d - h) /\ d - h \in Int
    BY <2>5
  <2> QED BY <2>3, <2>6 DEF wd, w
<1>5. Quarters(0) = sb2 - Offset
  <2> DEFINE p == Place(Lane)  q == Place(Lane * 2)  r == Place(Lane * 3)
             a0 == Part(sb2, 0)  a1 == Part(sb2, 1)  a2 == Part(sb2, 2)  a3 == Part(sb2, 3)
             o0 == Part(Offset, 0)  o1 == Part(Offset, 1)
             o2 == Part(Offset, 2)  o3 == Part(Offset, 3)
  <2>1. p \in Nat /\ q \in Nat /\ r \in Nat
    <3>1. Lane \in Positions /\ Lane * 2 \in Positions /\ Lane * 3 \in Positions
      BY QuarterPositions
    <3> QED BY <3>1, Places
  <2>2. /\ a0 \in Nat /\ a1 \in Nat /\ a2 \in Nat /\ a3 \in Nat
        /\ o0 \in Nat /\ o1 \in Nat /\ o2 \in Nat /\ o3 \in Nat
        /\ Quarters(0) = (a0 - o0) + (a1 - o1) * p + (a2 - o2) * q + (a3 - o3) * r
    <3>1. 0 \in 0..3 /\ 1 \in 0..3 /\ 2 \in 0..3 /\ 3 \in 0..3
      OBVIOUS
    <3> QED BY <1>3, <3>1 DEF Quarters
  <2>3. sb2 = a0 + a1 * p + a2 * q + a3 * r /\ Offset = o0 + o1 * p + o2 * q + o3 * r
    BY <1>2, PartsSum
  <2> HIDE DEF p, q, r, a0, a1, a2, a3, o0, o1, o2, o3
  <2>4. /\ (a1 - o1) * p = a1 * p - o1 * p /\ (a2 - o2) * q = a2 * q - o2 * q
        /\ (a3 - o3) * r = a3 * r - o3 * r
    BY <2>1, <2>2
  <2> DEFINE x1 == a1 * p  x2 == a2 * q  x3 == a3 * r  y1 == o1 * p  y2 == o2 * q  y3 == o3 * r
             z1 == (a1 - o1) * p  z2 == (a2 - o2) * q  z3 == (a3 - o3) * r
  <2>5. /\ x1 \in Int /\ x2 \in Int /\ x3 \in Int /\ y1 \in Int /\ y2 \in Int /\ y3 \in Int
        /\ z1 = x1 - y1 /\ z2 = x2 - y2 /\ z3 = x3 - y3
        /\ sb2 = a0 + x1 + x2 + x3 /\ Offset = o0 + y1 + y2 + y3
        /\ Quarters(0) = (a0 - o0) + z1 + z2 + z3
    BY <2>1, <2>2, <2>3, <2>4
  <2>6. a0 \in Int /\ o0 \in Int
    BY <2>2
  <2> HIDE DEF x1, x2, x3, y1, y2, y3, z1, z2, z3
  <2> QED BY <2>5, <2>6
<1> QED BY <1>3, <1>4, <1>5

\* Only the topmost quarter lacks a digit.
LEMMA SignedDigits ==
  ASSUME sb2 \in Nat, sb2 < Place(Digits)
  PROVE  /\ \A k \in 0..3, n \in 0..(Lane - 1) : k # 3 \/ n # Lane - 1 =>
                SignedDigit(k, n) = DigitOf(sb2, Lane * k + n) - Middle
         /\ SignedDigit(3, Lane - 1) = 0
<1>1. ASSUME NEW k \in 0..3, NEW n \in 0..(Lane - 1), k # 3 \/ n # Lane - 1
      PROVE  SignedDigit(k, n) = DigitOf(sb2, Lane * k + n) - Middle
  <2> DEFINE j == Lane * k + n
  <2>1. j \in 0..(Digits - 1)
    <3>1. j \in Positions /\ j <= Digits /\ j # Digits
      <4>1. n \in 0..Lane
        BY Sizes
      <4> QED BY <1>1, <4>1, QuarterPositions
    <3> HIDE DEF j
    <3> QED BY <3>1, Sizes DEF Positions
  <2>2. DigitOf(Offset, j) = Middle
    BY <2>1, OffsetDigit
  <2> QED BY <2>2 DEF SignedDigit
<1>2. SignedDigit(3, Lane - 1) = 0
  <2>1. Lane - 1 \in 0..(Lane - 1) /\ 3 \in 0..3
    BY Sizes
  <2>2. Lane * 3 + (Lane - 1) = Digits
    BY <2>1, QuarterPositions
  <2>3. DigitOf(Offset, Digits) = 0 /\ DigitOf(sb2, Digits) = 0
    BY OffsetUpper, OffsetDigit
  <2> QED BY <2>2, <2>3 DEF SignedDigit
<1> QED BY <1>1, <1>2

-----------------------------------------------------------------------------
(***************************************************************************)
(* The windows, and what a lookup returns.                                 *)
(***************************************************************************)
Window == [Entries -> Coordinates]
RightFor(win, b) == \A k \in Entries : Congruent(win[k], (k + 1) * b, N)

LEMMA EntryBounds ==
  ASSUME NEW k \in Entries
  PROVE  k \in Nat /\ k + 1 \in Int /\ k + 1 <= Middle /\ ~Congruent(k + 1, 0, N)
<1>1. k \in Nat /\ k + 1 <= Middle /\ Middle < N /\ k + 1 \in 1..(N - 1)
  <2> DEFINE w == 2^W
  <2>1. Middle \in Nat /\ Middle > 0 /\ w = 2 * Middle /\ w < N /\ w \in Nat /\ k \in 0..(Middle - 1)
    BY Halves
  <2> HIDE DEF w
  <2> QED BY <2>1, Order
<1>2. k + 1 \in Coordinates
  BY <1>1, Order
<1> QED BY <1>1, <1>2, CoordinateTypes

\* A lookup in a window always has coordinates, and the right ones when the window is right.
LEMMA LookupIs ==
  ASSUME NEW win \in Window, NEW e \in 0..(2^W - 1)
  PROVE  /\ DoLookup(win, e) \in Points
         /\ \A b \in Int : RightFor(win, b) => Is(DoLookup(win, e), (e - Middle) * b)
<1> DEFINE m == Middle  w == 2^W
<1>1. m \in Nat /\ m > 0 /\ w = 2 * m /\ w \in Nat /\ e \in 0..(w - 1) /\ Entries = 0..(m - 1)
  BY Halves
<1> DEFINE index == CASE e = m -> 0
                      [] e > m -> e - (m + 1)
                      [] e < m -> m - 1 - e
           T == [neutral |-> e = m, at |-> win[index]]
<1>2. DoLookup(win, e) = IF e <= m THEN PointNeg(T) ELSE T
  BY DEF DoLookup, Middle
<1> HIDE DEF m, w
<1>3. index \in Entries
  BY <1>1
<1>4. /\ e > m => index + 1 = e - m
      /\ e < m => index + 1 = m - e
  BY <1>1
<1> HIDE DEF index
<1>5. T \in Points /\ T.neutral = (e = m) /\ T.at = win[index] /\ win[index] \in Coordinates
  BY <1>3 DEF Points, Window
<1>6. Log(T) = IF e = m THEN 0 ELSE win[index]
  BY <1>5 DEF Log
<1> HIDE DEF T
<1>7. PointNeg(T) \in Points
  <2>1. N - T.at \in Coordinates
    BY <1>5, CoordinateTypes, Order
  <2> QED BY <1>5, <2>1 DEF PointNeg, Points
<1>8. DoLookup(win, e) \in Points
  BY <1>2, <1>5, <1>7
<1>9. ASSUME NEW b \in Int, RightFor(win, b)
      PROVE  Is(DoLookup(win, e), (e - m) * b)
  <2>1. Congruent(win[index], (index + 1) * b, N)
    BY <1>3, <1>9 DEF RightFor
  <2>2. CASE e = m
    <3>1. Congruent(0, 0, N) /\ 0 \in Int
      BY Order, CongruentRefl
    <3>2. Is(T, 0)
      BY <1>5, <1>6, <2>2, <3>1 DEF Is
    <3>3. Is(PointNeg(T), -0)
      BY <3>1, <3>2, NegIs
    <3>4. (e - m) * b = -0 /\ DoLookup(win, e) = PointNeg(T)
      BY <1>1, <1>2, <2>2
    <3> QED BY <3>3, <3>4
  <2>3. CASE e > m
    <3>1. Is(T, (e - m) * b)
      BY <1>1, <1>4, <1>5, <1>6, <2>1, <2>3 DEF Is
    <3>2. DoLookup(win, e) = T
      BY <1>1, <1>2, <2>3
    <3> QED BY <3>1, <3>2
  <2>4. CASE e < m
    <3> DEFINE c == (m - e) * b
    <3>1. c \in Int /\ (e - m) * b = -c
      BY <1>1
    <3>2. Is(T, c)
      BY <1>1, <1>4, <1>5, <1>6, <2>1, <2>4 DEF Is
    <3> HIDE DEF c
    <3>3. Is(PointNeg(T), -c)
      BY <3>1, <3>2, NegIs
    <3>4. DoLookup(win, e) = PointNeg(T)
      BY <1>1, <1>2, <2>4
    <3> QED BY <3>1, <3>3, <3>4
  <2> QED BY <1>1, <2>2, <2>3, <2>4
<1> QED BY <1>8, <1>9 DEF m

\* The precomputed tables are right for the powers that start the quarters.
LEMMA TablesRight ==
  ASSUME NEW quarter \in 0..3
  PROVE  WindowOfG(quarter) \in Window /\ RightFor(WindowOfG(quarter), Place(Lane * quarter))
<1> DEFINE b == Place(Lane * quarter)
<1>1. b \in Int /\ ~Congruent(b, 0, N) /\ b = 2^(W * Lane * quarter)
  <2>1. Lane * quarter \in Positions
    BY QuarterPositions
  <2>2. W * Lane * quarter = W * (Lane * quarter)
    BY Sizes
  <2> QED BY <2>1, <2>2, Places, PlaceNotZero DEF Place
<1>2. WindowOfG(quarter) = [k \in Entries |-> ((k + 1) * b) % N]
  BY <1>1 DEF WindowOfG, Multiple
<1> HIDE DEF b
<1>3. ASSUME NEW k \in Entries
      PROVE  ((k + 1) * b) % N \in Coordinates /\ Congruent(((k + 1) * b) % N, (k + 1) * b, N)
  <2>1. k + 1 \in Int /\ ~Congruent(k + 1, 0, N) /\ (k + 1) * b \in Int
    BY <1>1, EntryBounds
  <2>2. ~Congruent((k + 1) * b, 0, N)
    BY <1>1, <2>1, Order, Euclid
  <2> QED BY <2>1, <2>2, Logarithm
<1> QED BY <1>2, <1>3 DEF Window, RightFor, b

\* f is the sequence of the successive sums P, P + P...
AreSums(f, P, n) == f = [k \in 0..n |-> IF k = 0 THEN P ELSE PointAdd(f[k - 1], P)]

LEMMA SumsExist == \A P : \A n \in Nat : \E f : AreSums(f, P, n)
<1> SUFFICES ASSUME NEW P PROVE \A n \in Nat : \E f : AreSums(f, P, n)
  OBVIOUS
<1> DEFINE Missing == {n \in Nat : ~\E f : AreSums(f, P, n)}
<1> SUFFICES ASSUME Missing # {} PROVE FALSE
  OBVIOUS
<1>1. PICK n \in Missing : \A k \in Missing : n <= k
  BY LeastNatural
<1>2. n # 0
  <2> DEFINE f == [k \in 0..0 |-> P]
  <2>1. AreSums(f, P, 0)
    BY DEF AreSums
  <2> QED BY <1>1, <2>1
<1>3. n - 1 \in Nat /\ n - 1 \notin Missing
  BY <1>1, <1>2
<1>4. PICK f : AreSums(f, P, n - 1)
  BY <1>3
<1> DEFINE g == [k \in 0..n |-> IF k = 0 THEN P
                                ELSE IF k = n THEN PointAdd(f[n - 1], P) ELSE f[k]]
<1>5. AreSums(g, P, n)
  <2>1. f = [k \in 0..(n - 1) |-> IF k = 0 THEN P ELSE PointAdd(f[k - 1], P)]
    BY <1>4 DEF AreSums
  <2>2. ASSUME NEW k \in 0..(n - 1) PROVE g[k] = f[k]
    <3>1. k \in 0..n /\ k # n
      BY <1>1, <2>2
    <3>2. k = 0 => f[k] = P
      BY <2>1, <2>2
    <3> QED BY <3>1, <3>2
  <2>3. ASSUME NEW k \in 0..n, k # 0 PROVE g[k] = PointAdd(g[k - 1], P)
    <3>1. k - 1 \in 0..(n - 1) /\ n \in Nat
      BY <1>1, <2>3
    <3>2. g[k - 1] = f[k - 1]
      BY <2>2, <3>1
    <3>3. CASE k = n
      BY <2>3, <3>2, <3>3
    <3>4. CASE k # n
      <4>1. k \in 0..(n - 1)
        BY <2>3, <3>1, <3>4
      <4>2. g[k] = f[k]
        BY <2>2, <4>1
      <4>3. f[k] = PointAdd(f[k - 1], P)
        BY <2>1, <2>3, <4>1
      <4> QED BY <3>2, <4>2, <4>3
    <3> QED BY <3>3, <3>4
  <2>4. g[0] = P
    BY <1>1
  <2>5. g = [k \in 0..n |-> g[k]]
    OBVIOUS
  <2> HIDE DEF g
  <2> QED BY <2>3, <2>4, <2>5 DEF AreSums
<1> QED BY <1>1, <1>5

\* The window of a point has coordinates in every entry, those of its multiples
\* unless the point is infinity.
LEMMA WindowOfRight ==
  ASSUME NEW P \in Points
  PROVE  WindowOf(P) \in Window /\ (~P.neutral => RightFor(WindowOf(P), Log(P)))
<1> DEFINE top == Middle - 1  l == Log(P)
<1>1. top \in Nat /\ Entries = 0..top /\ l \in Int /\ (~P.neutral => l = P.at) /\ P.at \in Coordinates
  BY Halves, PointTypes
<1> HIDE DEF top
<1> DEFINE f == CHOOSE g : AreSums(g, P, top)
<1>2. AreSums(f, P, top)
  BY <1>1, SumsExist
<1>3. WindowOf(P) = [k \in Entries |-> f[k].at]
  BY <1>1 DEF WindowOf, AreSums
<1> HIDE DEF f
<1>4. /\ \A k \in 0..top : f[k] = IF k = 0 THEN P ELSE PointAdd(f[k - 1], P)
  BY <1>2 DEF AreSums
<1> HIDE DEF l
<1> DEFINE S == {k \in 0..top : Is(f[k], (k + 1) * l)}
<1>5. 0 \in S
  <2>1. Is(P, l)
    <3>1. Congruent(l, l, N)
      BY <1>1, Order, CongruentRefl
    <3> QED BY <3>1 DEF Is, l
  <2>2. f[0] = P /\ 0 \in 0..top /\ (0 + 1) * l = l
    BY <1>1, <1>4
  <2> QED BY <2>1, <2>2
<1>6. ASSUME NEW k \in 0..(top - 1), k \in S PROVE k + 1 \in S
  <2>1. k + 1 \in 0..top /\ k + 1 # 0 /\ (k + 1) - 1 = k /\ k \in Int
    BY <1>1
  <2>2. f[k + 1] = PointAdd(f[k], P)
    BY <1>4, <2>1
  <2>3. Is(f[k], (k + 1) * l) /\ (k + 1) * l \in Int
    BY <1>1, <1>6, <2>1
  <2>4. Is(P, l)
    <3>1. Congruent(l, l, N)
      BY <1>1, Order, CongruentRefl
    <3> QED BY <3>1 DEF Is, l
  <2>5. Is(f[k + 1], (k + 1) * l + l)
    BY <1>1, <2>2, <2>3, <2>4, AddIs
  <2>6. (k + 1) * l + l = ((k + 1) + 1) * l
    BY <1>1, <2>1
  <2> QED BY <2>1, <2>5, <2>6
<1>7. \A k \in 0..top : k \in S
  <2> HIDE DEF S
  <2> QED BY <1>1, <1>5, <1>6, UpTo
<1>8. ASSUME NEW k \in Entries
      PROVE  /\ f[k].at \in Coordinates
             /\ ~P.neutral => Congruent(f[k].at, (k + 1) * l, N)
  <2> DEFINE Q == f[k]
  <2>1. Is(Q, (k + 1) * l) /\ k + 1 \in Int /\ (k + 1) * l \in Int /\ ~Congruent(k + 1, 0, N)
    BY <1>1, <1>7, EntryBounds
  <2>2. Q \in Points /\ Congruent(Log(Q), (k + 1) * l, N)
    BY <2>1 DEF Is
  <2>3. Q.at \in Coordinates /\ (~Q.neutral => Log(Q) = Q.at)
    BY <2>2, PointTypes
  <2> HIDE DEF Q
  <2>4. ASSUME ~P.neutral PROVE Congruent(Q.at, (k + 1) * l, N)
    <3>1. ~Congruent(l, 0, N)
      BY <1>1, <2>4, CoordinateTypes
    <3>2. ~Congruent((k + 1) * l, 0, N)
      BY <1>1, <2>1, <3>1, Order, Euclid
    <3>3. ~Q.neutral
      BY <2>1, <3>2, IsNeutral
    <3> QED BY <2>2, <2>3, <3>3
  <2> QED BY <2>3, <2>4 DEF Q
<1> QED BY <1>3, <1>8 DEF Window, RightFor, l

-----------------------------------------------------------------------------
(***************************************************************************)
(* One turn of a loop.                                                     *)
(***************************************************************************)
ShiftedOK(sb) == sb \in Nat /\ sb < Place(Digits)

\* The shifted scalar has all its digits, and less the offset it is the scalar.
LEMMA ShiftedIs ==
  ASSUME NEW s \in Nat
  PROVE  ShiftedOK(Shifted(s)) /\ Congruent(Shifted(s) - Offset, s, N)
<1> DEFINE o == Offset  r == (o + s) % N  p == Place(Digits)
<1>1. o \in Nat /\ o + s \in Int /\ N \in Nat /\ N > 0 /\ N \in Int
  BY OffsetUpper, Order
<1>2. r \in 0..(N - 1) /\ Congruent(r, o + s, N)
  BY <1>1, ModCongruent
<1>3. N <= p /\ p \in Nat
  BY WindowAssumption, Sizes, Places DEF Place
<1> HIDE DEF r, o, p
<1>4. r \in Nat /\ r < p
  BY <1>1, <1>2, <1>3
<1>5. Congruent(r - o, s, N)
  <2>1. Congruent(o, o, N)
    BY <1>1, CongruentRefl
  <2>2. Congruent(r - o, (o + s) - o, N) /\ (o + s) - o = s
    BY <1>1, <1>2, <2>1, CongruentSum
  <2> QED BY <2>2
<1> QED BY <1>4, <1>5 DEF ShiftedOK, Shifted, r, o, p

LEMMA PlacesGrow ==
  \A n, k \in Positions : n + k \in Positions => Place(n) <= Place(n + k)
<1> SUFFICES ASSUME NEW n \in Positions, NEW k \in Positions, n + k \in Positions
             PROVE  Place(n) <= Place(n + k)
  OBVIOUS
<1> DEFINE p == Place(n)  q == Place(k)
<1>1. p \in Nat /\ q \in Nat /\ q >= 1 /\ Place(n + k) = p * q
  BY Places
<1> HIDE DEF p, q
<1>2. p * q >= p * 1
  BY <1>1
<1> QED BY <1>1, <1>2 DEF p

\* An integer of small magnitude is no multiple of the order, unless it is zero.
LEMMA SmallNotZero ==
  ASSUME NEW x \in Int, x < N, -x < N, x # 0
  PROVE  ~Congruent(x, 0, N)
<1> SUFFICES ASSUME Congruent(x, 0, N) PROVE FALSE
  OBVIOUS
<1>1. N \in Nat /\ N > 0 /\ 0 \in 0..(N - 1)
  BY Order
<1>2. CASE x > 0
  BY <1>1, <1>2, RemainderUnique
<1>3. CASE x < 0
  <2>1. PICK k \in Int : x = 0 + k * N
    BY DEF Congruent
  <2>2. -x = 0 + (-k) * N /\ -k \in Int
    BY <1>1, <2>1
  <2>3. Congruent(-x, 0, N) /\ -x \in 0..(N - 1)
    BY <1>1, <1>3, <2>2 DEF Congruent
  <2> QED BY <1>1, <1>3, <2>3, RemainderUnique
<1> QED BY <1>2, <1>3

\* Before the last digit, the doubled sum and the digit are neither equal nor
\* opposite: their sum and their difference are too small to be multiples of the
\* order, and the digit is too small to be the doubled sum.
LEMMA NeverEqual ==
  ASSUME NEW sb, ShiftedOK(sb), NEW n \in 1..(Digits - 2), DigitOf(sb, n) # Middle
  PROVE  /\ ~Congruent(2^W * Used(sb, n + 1) + (DigitOf(sb, n) - Middle), 0, N)
         /\ ~Congruent(2^W * Used(sb, n + 1) - (DigitOf(sb, n) - Middle), 0, N)
<1> DEFINE w == 2^W  u == Used(sb, n + 1)  d == DigitOf(sb, n) - Middle
           m == Place(Digits - (n + 1))  h == Middle
<1>1. /\ n + 1 \in 0..Digits /\ n \in 0..(Digits - 1) /\ Digits - (n + 1) \in Positions
      /\ 1 \in Positions /\ (Digits - (n + 1)) + 1 = Digits - n /\ Digits - n \in Positions
      /\ n - 1 \in Positions /\ (Digits - n) + (n - 1) = Digits - 1 /\ Digits - 1 \in Positions
  BY Sizes DEF Positions
<1>2. w \in Nat /\ h \in Nat /\ h > 0 /\ w = 2 * h
  BY Halves
<1>3. u \in Int /\ u < m /\ -u < m /\ m \in Nat
  BY <1>1, UsedStep, Places DEF ShiftedOK
<1>4. d \in Int /\ d # 0 /\ d <= h /\ -d <= h
  <2> DEFINE e == DigitOf(sb, n)
  <2>1. e \in 0..(w - 1) /\ e # h
    BY <1>1, UsedStep DEF ShiftedOK
  <2> HIDE DEF e, w, h
  <2>2. e - h \in Int /\ e - h # 0 /\ e - h <= h /\ -(e - h) <= h
    BY <1>2, <2>1
  <2> QED BY <2>2 DEF e, h
<1>5. m * w < N
  <2>1. Place(Digits - n) = m * w
    BY <1>1, Places
  <2>2. Place(Digits - n) <= Place(Digits - 1)
    BY <1>1, PlacesGrow
  <2>3. Place(Digits - 1) < N
    BY WindowAssumption DEF Place
  <2>4. Place(Digits - n) \in Int /\ Place(Digits - 1) \in Int
    BY <1>1, Places
  <2> HIDE DEF m, w
  <2> QED BY <2>1, <2>2, <2>3, <2>4, Order
<1> HIDE DEF w, u, d, m, h
<1> DEFINE wu == w * u  wm == m * w
<1>6. wu \in Int /\ wm \in Int /\ wu <= wm - w /\ -wu <= wm - w
  <2>1. u <= m - 1 /\ -u <= m - 1 /\ -u \in Int
    BY <1>3
  <2>2. w * u <= w * (m - 1) /\ w * (-u) <= w * (m - 1)
    BY <1>2, <1>3, <2>1
  <2>3. w * (m - 1) = m * w - w /\ w * (-u) = -(w * u)
    BY <1>2, <1>3
  <2> DEFINE wn == w * (-u)  wp == w * (m - 1)
  <2>4. wu <= wp /\ wn <= wp /\ wp = wm - w /\ wn = -wu /\ wu \in Int /\ wm \in Int
    BY <1>2, <1>3, <2>2, <2>3
  <2> HIDE DEF wu, wm, wn, wp
  <2> QED BY <1>2, <2>4
<1>7. wu = 0 \/ wu >= w \/ -wu >= w
  <2>1. u = 0 \/ u >= 1 \/ -u >= 1
    BY <1>3
  <2>2. CASE u = 0
    BY <1>2, <2>2
  <2>3. CASE u >= 1
    <3>1. w * u >= w * 1
      BY <1>2, <1>3, <2>3
    <3> QED BY <1>2, <3>1
  <2>4. CASE -u >= 1
    <3>1. w * (-u) >= w * 1 /\ w * (-u) = -(w * u)
      BY <1>2, <1>3, <2>4
    <3> QED BY <1>2, <3>1
  <2> QED BY <2>1, <2>2, <2>3, <2>4
<1>8. wm < N
  BY <1>5
<1> HIDE DEF wu, wm
<1>9. /\ wu + d \in Int /\ wu + d < N /\ -(wu + d) < N /\ wu + d # 0
      /\ wu - d \in Int /\ wu - d < N /\ -(wu - d) < N /\ wu - d # 0
  BY <1>2, <1>4, <1>6, <1>7, <1>8, Order
<1>10. ~Congruent(wu + d, 0, N) /\ ~Congruent(wu - d, 0, N)
  BY <1>9, SmallNotZero
<1> QED BY <1>10 DEF wu, w, u, d, h

-----------------------------------------------------------------------------
(***************************************************************************)
(* The invariant: after each turn, the sum is the multiple of the          *)
(* generator that the digits used so far say.                              *)
(***************************************************************************)
CallOK ==
    /\ build \in {"ref", "avx2"} /\ op \in {"mul", "mulgen", "mul_mulgen_add"}
    /\ alias \in BOOLEAN /\ s1 \in Nat /\ s2 \in Nat
    /\ point \in Points /\ q1 \in Points /\ q3 \in Points /\ local \in Points
    /\ pc \in {"start", "done", op}
    /\ pc = "start" => q1 = point /\ i = 0
    /\ pc = op => i \in 0..Turns

\* The window of Q1 is right when Q1 is not infinity; else it has some coordinates.
PreparedOK ==
    pc = op =>
        /\ sb1 = Shifted(s1) /\ sb2 = Shifted(s2) /\ qz = point.neutral
        /\ op # "mulgen" => /\ window \in Window
                            /\ ~point.neutral => RightFor(window, Log(point))

\* the multiple of the generator that the digits from n on stand for
Expected(n) ==
    CASE op = "mul" -> Log(point) * Used(sb1, n)
      [] op = "mul_mulgen_add" -> Log(point) * Used(sb1, n) + Used(sb2, n)
      [] op = "mulgen" -> Quarters(n)

SumOK == pc = op /\ i > 0 => Is(Sum, Expected(Turns - i))

\* as ProductPromise has it
Product ==
    CASE op = "mul" -> s1 * Log(point)
      [] op = "mulgen" -> s2
      [] op = "mul_mulgen_add" -> s1 * Log(point) + s2

ResultOK == pc = "done" => Is(q3, Product)

IInv == CallOK /\ PreparedOK /\ SumOK /\ ResultOK

LEMMA LookupQ1Is ==
  ASSUME CallOK, PreparedOK, pc = op, op # "mulgen", NEW e \in 0..(2^W - 1)
  PROVE  Is(LookupQ1(e), (e - Middle) * Log(point))
<1> DEFINE D == DoLookup(window, e)  T == LookupQ1(e)
<1>1. /\ point \in Points /\ qz = point.neutral /\ window \in Window
      /\ ~point.neutral => RightFor(window, Log(point))
  BY DEF CallOK, PreparedOK
<1>2. Log(point) \in Int /\ point.neutral \in BOOLEAN /\ (point.neutral => Log(point) = 0)
  BY <1>1, PointTypes
<1>3. D \in Points /\ (~point.neutral => Is(D, (e - Middle) * Log(point)))
  BY <1>1, <1>2, LookupIs
<1>4. T = [D EXCEPT !.neutral = @ \/ point.neutral]
  BY <1>1 DEF LookupQ1
<1> HIDE DEF D
<1>5. CASE ~point.neutral
  <2>1. T = D
    BY <1>3, <1>4, <1>5 DEF Points
  <2> QED BY <1>3, <1>5, <2>1
<1>6. CASE point.neutral
  <2>1. T \in Points /\ T.neutral = TRUE
    BY <1>3, <1>4, <1>6 DEF Points
  <2>2. Log(T) = 0
    BY <2>1 DEF Log
  <2>3. (e - Middle) * Log(point) = 0
    BY <1>2, <1>6, Halves
  <2>4. Congruent(0, 0, N)
    BY Order, CongruentRefl
  <2> QED BY <2>1, <2>2, <2>3, <2>4 DEF Is
<1> QED BY <1>5, <1>6

\* The scalars and the digits of a call in progress.
LEMMA Prepared ==
  ASSUME CallOK, PreparedOK, pc = op
  PROVE  /\ ShiftedOK(sb1) /\ ShiftedOK(sb2)
         /\ Congruent(sb1 - Offset, s1, N) /\ Congruent(sb2 - Offset, s2, N)
         /\ Log(point) \in Int /\ sb1 \in Int /\ sb2 \in Int /\ Offset \in Int
<1>1. sb1 = Shifted(s1) /\ sb2 = Shifted(s2) /\ s1 \in Nat /\ s2 \in Nat /\ point \in Points
  BY DEF CallOK, PreparedOK
<1>2. /\ ShiftedOK(Shifted(s1)) /\ Congruent(Shifted(s1) - Offset, s1, N)
      /\ ShiftedOK(Shifted(s2)) /\ Congruent(Shifted(s2) - Offset, s2, N)
  BY <1>1, ShiftedIs
<1> QED BY <1>1, <1>2, PointTypes, OffsetUpper DEF ShiftedOK

LEMMA DoubledIs ==
  ASSUME NEW P, NEW k \in Int, Is(P, k)
  PROVE  Is(PointMul2k(P, W), 2^W * k)
BY Sizes, Halves, PlaceNotZero, DoublingsIs

\* doubling W times and adding the digit d for the base p
LEMMA NextDigit ==
  ASSUME NEW w \in Int, NEW u \in Int, NEW d \in Int, NEW p \in Int, NEW c \in Int
  PROVE  w * (p * u + c) + d * p = p * (w * u + d) + w * c
<1> DEFINE pu == p * u  x == w * u + d
<1>1. w * (pu + c) = w * pu + w * c
  OBVIOUS
<1>2. w * pu = p * (w * u)
  OBVIOUS
<1>3. p * (w * u + d) = p * (w * u) + d * p
  OBVIOUS
<1> DEFINE a == w * (pu + c)  b == w * pu  e == w * c  f == p * (w * u)  g == d * p
           h == p * (w * u + d)
<1>4. a = b + e /\ b = f /\ h = f + g /\ e \in Int /\ f \in Int /\ g \in Int
  BY <1>1, <1>2, <1>3
<1> HIDE DEF a, b, e, f, g, h
<1>5. a + g = h + e
  BY <1>4
<1> QED BY <1>5 DEF a, g, h, e

\* One digit of Q1, onto a sum in which c comes from the other scalar.
LEMMA AccumulatedIs ==
  ASSUME CallOK, PreparedOK, pc = op, op # "mulgen", i \in 0..(Digits - 1), NEW c \in Int,
         i > 0 => Is(Sum, Log(point) * Used(sb1, Digits - i) + c),
         i = 0 => c = 0
  PROVE  Is(Accumulated, Log(point) * Used(sb1, Digits - 1 - i) + 2^W * c)
<1> DEFINE n == Digits - 1 - i  e == DigitOf(sb1, n)  p == Log(point)  w == 2^W
           u == Used(sb1, n + 1)  d == e - Middle
<1>1. n \in 0..(Digits - 1) /\ n + 1 \in 0..Digits /\ n + 1 = Digits - i
      /\ (i = 0 => n + 1 = Digits)
  BY Sizes
<1>2. ShiftedOK(sb1) /\ p \in Int
  BY Prepared
<1>3. /\ e \in 0..(2^W - 1) /\ u \in Int /\ Used(sb1, n) = w * u + d
      /\ (i = 0 => u = 0)
  BY <1>1, <1>2, UsedStep DEF ShiftedOK
<1>4. w \in Nat /\ d \in Int
  BY <1>3, Halves
<1>5. Is(LookupQ1(e), d * p)
  BY <1>3, LookupQ1Is
<1>6. Accumulated = IF i = 0 THEN LookupQ1(e) ELSE PointAdd(PointMul2k(Sum, W), LookupQ1(e))
  BY DEF Accumulated
<1>7. i > 0 => Is(Sum, p * u + c)
  BY <1>1
<1> HIDE DEF n, e, p, u, d
<1>8. w * (p * u + c) + d * p = p * (w * u + d) + w * c
  BY <1>2, <1>3, <1>4, NextDigit
<1>9. CASE i = 0
  <2>1. u = 0 /\ c = 0
    BY <1>3, <1>9
  <2>2. p * (w * u + d) + w * c = d * p
    BY <1>2, <1>4, <2>1
  <2> QED BY <1>3, <1>5, <1>6, <1>9, <2>2 DEF n, p
<1>10. CASE i # 0
  <2>1. Is(Sum, p * u + c) /\ p * u + c \in Int /\ d * p \in Int
    BY <1>2, <1>3, <1>4, <1>7, <1>10
  <2>2. Is(PointMul2k(Sum, W), w * (p * u + c)) /\ w * (p * u + c) \in Int
    BY <1>4, <2>1, DoubledIs
  <2>3. Is(Accumulated, w * (p * u + c) + d * p)
    BY <1>5, <1>6, <1>10, <2>1, <2>2, AddIs
  <2> QED BY <1>3, <1>8, <2>3 DEF n, p
<1> QED BY <1>9, <1>10

LEMMA Running ==
  ASSUME CallOK, pc = op
  PROVE  /\ pc # "start" /\ pc # "done" /\ i \in 0..Turns /\ Turns \in Nat /\ Turns > 0
         /\ op # "mulgen" => Turns = Digits
         /\ op = "mulgen" => Turns = Lane
BY Sizes DEF CallOK, Turns

LEMMA ExpectedKept ==
  ASSUME UNCHANGED <<op, point, sb1, sb2>>
  PROVE  \A n : Expected(n)' = Expected(n)
<1> SUFFICES ASSUME NEW n PROVE Expected(n)' = Expected(n)
  OBVIOUS
<1>1. /\ Used(sb1, n)' = Used(sb1, n) /\ Used(sb2, n)' = Used(sb2, n)
      /\ Quarters(n)' = Quarters(n) /\ Log(point)' = Log(point)
  BY DEF Used, Quarters, UsedInQuarter, Log
<1> QED BY <1>1 DEF Expected

\* A turn that computes what its digits say keeps the invariant.
LEMMA StoreInv ==
  ASSUME IInv, pc = op, i < Turns, NEW P, Is(P, Expected(Turns - (i + 1))), Store(P)
  PROVE  IInv' /\ UNCHANGED <<op, point, s1, s2, pc>>
<1>1. /\ build \in {"ref", "avx2"} /\ op \in {"mul", "mulgen", "mul_mulgen_add"}
      /\ pc # "start" /\ pc # "done" /\ i \in 0..Turns /\ Turns \in Nat
      /\ q1 \in Points /\ q3 \in Points /\ local \in Points /\ P \in Points
  BY Running DEF IInv, CallOK, Is
<1>2. /\ i' = i + 1
      /\ UNCHANGED <<build, op, s1, s2, alias, sb1, sb2, window, qz, pc, point>>
      /\ build = "avx2" => local' = P /\ q1' = q1 /\ q3' = q3
      /\ build # "avx2" => q3' = P /\ q1' = (IF alias THEN P ELSE q1) /\ local' = local
  BY DEF Store, WriteQ3
<1>3. Sum' = P /\ q1' \in Points /\ q3' \in Points /\ local' \in Points /\ Turns' = Turns
  BY <1>1, <1>2 DEF Sum, Turns
<1>4. i + 1 \in 0..Turns
  BY <1>1
<1>5. CallOK'
  BY <1>1, <1>2, <1>3, <1>4 DEF IInv, CallOK
<1>6. PreparedOK'
  <2>1. PreparedOK
    BY DEF IInv
  <2>2. Log(point)' = Log(point)
    BY <1>2 DEF Log
  <2> QED BY <1>2, <2>1, <2>2 DEF PreparedOK
<1>7. SumOK'
  <2> DEFINE m == Turns - (i + 1)
  <2>0. PICK n : n = m
    OBVIOUS
  <2>1. (Turns - i)' = n /\ m = n
    BY <1>1, <1>2, <1>3, <2>0
  <2>3. Expected(n)' = Expected(n)
    BY <1>2, ExpectedKept
  <2>4. Expected(Turns - i)' = Expected(n)'
    <3>1. Quarters(Turns - i)' = Quarters(n)'
      BY <2>1 DEF Quarters, UsedInQuarter
    <3> QED BY <2>1, <3>1 DEF Expected
  <2>5. Expected(Turns - i)' = Expected(m)
    BY <2>1, <2>3, <2>4
  <2>2. Is(Sum, Expected(Turns - i))'
    BY <1>3, <2>5 DEF Is
  <2> QED BY <2>2 DEF SumOK
<1>8. ResultOK'
  BY <1>1, <1>2 DEF ResultOK
<1> QED BY <1>2, <1>5, <1>6, <1>7, <1>8 DEF IInv

LEMMA MulTurnInv ==
  ASSUME IInv, MulTurn
  PROVE  IInv' /\ UNCHANGED <<op, point, s1, s2, pc>> /\ pc = op
<1>1. pc = "mul" /\ i < Digits /\ Store(Accumulated) /\ CallOK /\ PreparedOK /\ SumOK
  BY DEF MulTurn, IInv
<1>2. pc = op
  BY <1>1 DEF CallOK
<1>3. op # "mulgen" /\ Turns = Digits /\ i \in 0..(Digits - 1) /\ Digits - (i + 1) = Digits - 1 - i
  BY <1>1, <1>2, Running, Sizes
<1>4. \A n : Expected(n) = Log(point) * Used(sb1, n)
  BY <1>1, <1>2 DEF Expected
<1>5. /\ ShiftedOK(sb1) /\ Log(point) \in Int /\ Used(sb1, Digits - i) \in Int
      /\ Used(sb1, Digits - 1 - i) \in Int
  <2>1. ShiftedOK(sb1) /\ Log(point) \in Int
    BY <1>1, <1>2, Prepared
  <2>2. Digits - i \in 0..Digits /\ Digits - 1 - i \in 0..Digits
    BY <1>3, Sizes
  <2> QED BY <2>1, <2>2, UsedStep DEF ShiftedOK
<1>6. i > 0 => Is(Sum, Log(point) * Used(sb1, Digits - i) + 0)
  <2>1. i > 0 => Is(Sum, Log(point) * Used(sb1, Digits - i))
    BY <1>1, <1>2, <1>3, <1>4 DEF SumOK
  <2>2. Log(point) * Used(sb1, Digits - i) + 0 = Log(point) * Used(sb1, Digits - i)
    BY <1>5
  <2> QED BY <2>1, <2>2
<1>7. Is(Accumulated, Log(point) * Used(sb1, Digits - 1 - i) + 2^W * 0)
  <2>1. 0 \in Int /\ (i = 0 => 0 = 0)
    OBVIOUS
  <2> QED BY <1>1, <1>2, <1>3, <1>6, <2>1, AccumulatedIs
<1>8. Is(Accumulated, Expected(Turns - (i + 1)))
  <2>1. Log(point) * Used(sb1, Digits - 1 - i) + 2^W * 0 = Log(point) * Used(sb1, Digits - 1 - i)
    BY <1>5, Halves
  <2> QED BY <1>3, <1>4, <1>7, <2>1
<1> QED BY <1>1, <1>2, <1>3, <1>8, StoreInv

LEMMA MulMulgenAddTurnInv ==
  ASSUME IInv, MulMulgenAddTurn
  PROVE  IInv' /\ UNCHANGED <<op, point, s1, s2, pc>> /\ pc = op
<1> DEFINE e == DigitOf(sb2, Digits - 1 - i)  T == DoLookup(window5_G, e)
           c == Used(sb2, Digits - i)
<1>1. /\ pc = "mul_mulgen_add" /\ i < Digits /\ Store(PointAdd(Accumulated, T))
      /\ CallOK /\ PreparedOK /\ SumOK
  BY DEF MulMulgenAddTurn, IInv
<1>2. pc = op
  BY <1>1 DEF CallOK
<1>3. /\ op # "mulgen" /\ Turns = Digits /\ i \in 0..(Digits - 1)
      /\ Digits - (i + 1) = Digits - 1 - i /\ (Digits - 1 - i) + 1 = Digits - i
      /\ Digits - 1 - i \in 0..(Digits - 1) /\ Digits - i \in 0..Digits
      /\ Digits - 1 - i \in 0..Digits
      /\ (i = 0 => Digits - i = Digits)
  BY <1>1, <1>2, Running, Sizes
<1>4. \A n : Expected(n) = Log(point) * Used(sb1, n) + Used(sb2, n)
  BY <1>1, <1>2 DEF Expected
<1>5. ShiftedOK(sb1) /\ ShiftedOK(sb2) /\ Log(point) \in Int
  BY <1>1, <1>2, Prepared
<1>6. /\ c \in Int /\ (i = 0 => c = 0)
      /\ e \in 0..(2^W - 1) /\ Used(sb2, Digits - 1 - i) = 2^W * c + (e - Middle)
      /\ Used(sb1, Digits - 1 - i) \in Int
  BY <1>3, <1>5, UsedStep DEF ShiftedOK
<1>7. i > 0 => Is(Sum, Log(point) * Used(sb1, Digits - i) + c)
  BY <1>1, <1>2, <1>3, <1>4 DEF SumOK
<1>8. Is(Accumulated, Log(point) * Used(sb1, Digits - 1 - i) + 2^W * c)
  <2> HIDE DEF c
  <2> QED BY <1>1, <1>2, <1>3, <1>6, <1>7, AccumulatedIs
<1>9. Is(T, e - Middle) /\ e - Middle \in Int
  <2>1. window5_G \in Window /\ RightFor(window5_G, 1)
    <3>1. 0 \in 0..3 /\ Lane * 0 = 0 /\ Place(0) = 1
      BY Sizes, Places
    <3> QED BY <3>1, TablesRight DEF window5_G
  <2>2. Is(T, (e - Middle) * 1)
    BY <1>6, <2>1, LookupIs
  <2>3. e - Middle \in Int
    BY <1>6, Halves
  <2>4. (e - Middle) * 1 = e - Middle
    BY <2>3
  <2> QED BY <2>2, <2>3, <2>4
<1> HIDE DEF e, T, c
<1> DEFINE a == Log(point) * Used(sb1, Digits - 1 - i)  b == 2^W * c  d == e - Middle
<1>10. a \in Int /\ b \in Int
  BY <1>5, <1>6, Halves
<1>11. Is(Accumulated, a + b) /\ Is(T, d) /\ d \in Int /\ Used(sb2, Digits - 1 - i) = b + d
  BY <1>6, <1>8, <1>9
<1> HIDE DEF a, b, d
<1>12. Is(PointAdd(Accumulated, T), (a + b) + d)
  <2>1. a + b \in Int
    BY <1>10
  <2> QED BY <1>11, <2>1, AddIs
<1>13. (a + b) + d = a + Used(sb2, Digits - 1 - i)
  BY <1>10, <1>11
<1>14. Is(PointAdd(Accumulated, T), Expected(Turns - (i + 1)))
  BY <1>3, <1>4, <1>12, <1>13 DEF a
<1> QED BY <1>1, <1>2, <1>3, <1>14, StoreInv

LEMMA JacobianTurnInv ==
  ASSUME IInv, JacobianTurn
  PROVE  IInv' /\ UNCHANGED <<op, point, s1, s2, pc>> /\ pc = op
<1> DEFINE n == Digits - 1 - i  e == DigitOf(sb1, n)  T == LookupQ1(e)
           D == PointMul2k(local, W)  p == Log(point)  w == 2^W
           u == Used(sb1, n + 1)  d == e - Middle
<1>1. /\ pc = "mul" /\ build = "avx2" /\ i \in 1..(Digits - 2) /\ Store(JacobianAdd(D, T))
      /\ CallOK /\ PreparedOK /\ SumOK
  BY DEF JacobianTurn, JacobianTurns, IInv
<1>2. pc = op
  BY <1>1 DEF CallOK
<1>3. /\ op # "mulgen" /\ Turns = Digits /\ i > 0 /\ i < Turns
      /\ Digits - (i + 1) = n /\ n + 1 = Digits - i
      /\ n \in 1..(Digits - 2) /\ n \in 0..(Digits - 1) /\ n + 1 \in 0..Digits
  BY <1>1, <1>2, Running, Sizes
<1>4. \A k : Expected(k) = p * Used(sb1, k)
  BY <1>1, <1>2 DEF Expected
<1>5. ShiftedOK(sb1) /\ p \in Int
  BY <1>1, <1>2, Prepared
<1>6. e \in 0..(2^W - 1) /\ u \in Int /\ Used(sb1, n) = w * u + d
  BY <1>3, <1>5, UsedStep DEF ShiftedOK
<1>7. w \in Nat /\ d \in Int
  BY <1>6, Halves
<1>8. Is(local, p * u)
  BY <1>1, <1>2, <1>3, <1>4 DEF SumOK, Sum
<1>9. Is(T, d * p)
  BY <1>1, <1>2, <1>3, <1>6, LookupQ1Is
<1>10. d # 0 => ~Congruent(w * u + d, 0, N) /\ ~Congruent(w * u - d, 0, N)
  <2>1. d # 0 => e # Middle
    BY <1>6, Halves
  <2> QED BY <1>3, <1>5, <2>1, NeverEqual
<1>11. Expected(Turns - (i + 1)) = p * (w * u + d)
  BY <1>3, <1>4, <1>6
<1> HIDE DEF n, e, T, p, w, u, d
<1>12. Is(D, w * (p * u)) /\ w * (p * u) \in Int /\ d * p \in Int /\ p * u \in Int
  <2>1. p * u \in Int /\ w * (p * u) \in Int /\ d * p \in Int
    BY <1>5, <1>6, <1>7
  <2> QED BY <1>8, <2>1, DoubledIs DEF w
<1> HIDE DEF D
<1>13. /\ w * (p * u) + d * p = p * (w * u + d)
       /\ w * (p * u) - d * p = p * (w * u - d)
  <2>1. w * (p * u) = p * (w * u)
    BY <1>5, <1>6, <1>7
  <2>2. p * (w * u + d) = p * (w * u) + d * p /\ p * (w * u - d) = p * (w * u) - d * p
    BY <1>5, <1>6, <1>7
  <2> QED BY <2>1, <2>2
<1>14. ASSUME ~Congruent(w * (p * u), 0, N), ~Congruent(d * p, 0, N)
       PROVE  ~Congruent(w * (p * u) - d * p, 0, N) /\ ~Congruent(w * (p * u) + d * p, 0, N)
  <2>1. Congruent(0, 0, N)
    BY Order, CongruentRefl
  <2>2. d # 0
    <3> SUFFICES ASSUME d = 0 PROVE FALSE
      OBVIOUS
    <3>1. d * p = 0
      BY <1>5
    <3> QED BY <1>14, <2>1, <3>1
  <2>3. ~Congruent(p, 0, N)
    <3> SUFFICES ASSUME Congruent(p, 0, N) PROVE FALSE
      OBVIOUS
    <3>1. Congruent(d, d, N) /\ N \in Int
      BY <1>7, Order, CongruentRefl
    <3>2. Congruent(d * p, d * 0, N) /\ d * 0 = 0
      BY <1>5, <1>7, <3>1, CongruentProduct
    <3> QED BY <1>14, <3>2
  <2>4. w * u + d \in Int /\ w * u - d \in Int
    BY <1>6, <1>7
  <2>5. ~Congruent(p * (w * u + d), 0, N) /\ ~Congruent(p * (w * u - d), 0, N)
    BY <1>5, <1>10, <2>2, <2>3, <2>4, Order, Euclid
  <2> QED BY <1>13, <2>5
<1>15. Is(JacobianAdd(D, T), w * (p * u) + d * p)
  <2> DEFINE a == w * (p * u)  b == d * p
  <2>1. /\ a \in Int /\ b \in Int /\ Is(D, a) /\ Is(T, b)
        /\ ~Congruent(a, 0, N) /\ ~Congruent(b, 0, N) =>
              ~Congruent(a - b, 0, N) /\ ~Congruent(a + b, 0, N)
    BY <1>9, <1>12, <1>14
  <2> HIDE DEF a, b
  <2>2. Is(JacobianAdd(D, T), a + b)
    BY <2>1, JacobianIs
  <2> QED BY <2>2 DEF a, b
<1>16. Is(JacobianAdd(D, T), Expected(Turns - (i + 1)))
  BY <1>11, <1>13, <1>15
<1> QED BY <1>1, <1>2, <1>3, <1>16, StoreInv

\* A lookup in a quarter adds its digit with the weight of the quarter.
LEMMA QuarterIs ==
  ASSUME ShiftedOK(sb2), i \in 0..(Lane - 1), NEW k \in 0..3, k # 3 \/ i # 0
  PROVE  /\ Is(Quarter(k), SignedDigit(k, Lane - 1 - i) * Place(Lane * k))
         /\ SignedDigit(k, Lane - 1 - i) * Place(Lane * k) \in Int
<1> DEFINE n == Lane - 1 - i  j == Lane * (k + 1) - 1 - i  b == Place(Lane * k)
<1>1. sb2 \in Nat /\ sb2 < Place(Digits) /\ n \in 0..(Lane - 1) /\ (k # 3 \/ n # Lane - 1)
  BY Sizes DEF ShiftedOK
<1>2. j = Lane * k + n
  <2>1. Lane * (k + 1) = Lane * k + Lane /\ Lane * k \in Int
    BY Sizes
  <2> DEFINE l == Lane * k
  <2>2. Lane * (k + 1) = l + Lane /\ l \in Int /\ Lane \in Int /\ i \in Int
    BY <2>1, Sizes
  <2> HIDE DEF l
  <2>3. Lane * (k + 1) - 1 - i = l + (Lane - 1 - i)
    BY <2>2
  <2> QED BY <2>3 DEF l
<1>3. Quarter(k) = DoLookup(WindowOfG(k), DigitOf(sb2, j))
  <2>1. k = 0 \/ k = 1 \/ k = 2 \/ k = 3
    OBVIOUS
  <2> QED BY <2>1 DEF Quarter, window5_G, window5_G65, window5_G130, window5_G195
<1>4. /\ SignedDigit(k, n) = DigitOf(sb2, Lane * k + n) - Middle
      /\ SignedDigit(k, n) \in Int
  BY <1>1, SignedDigits, QuarterStep
<1>5. DigitOf(sb2, Lane * k + n) \in 0..(2^W - 1)
  BY <1>1, PartDigits
<1>6. WindowOfG(k) \in Window /\ RightFor(WindowOfG(k), b) /\ b \in Int
  <2>1. Lane * k \in Positions
    BY QuarterPositions
  <2> QED BY <2>1, TablesRight, Places
<1> HIDE DEF n, j, b
<1> DEFINE e == DigitOf(sb2, Lane * k + n)
<1>7. Is(DoLookup(WindowOfG(k), e), (e - Middle) * b)
  <2> HIDE DEF e
  <2>1. e \in 0..(2^W - 1)
    BY <1>5 DEF e
  <2> QED BY <1>6, <2>1, LookupIs
<1>8. Is(Quarter(k), SignedDigit(k, n) * b)
  BY <1>2, <1>3, <1>4, <1>7
<1>9. SignedDigit(k, n) * b \in Int
  BY <1>4, <1>6
<1> QED BY <1>8, <1>9 DEF n, b

\* what the four lookups of a turn add
TurnDigits(n) ==
    SignedDigit(0, n) + SignedDigit(1, n) * Place(Lane)
        + SignedDigit(2, n) * Place(Lane * 2) + SignedDigit(3, n) * Place(Lane * 3)

LEMMA QuartersStep ==
  ASSUME ShiftedOK(sb2), NEW n \in 0..(Lane - 1)
  PROVE  /\ Quarters(n) = 2^W * Quarters(n + 1) + TurnDigits(n)
         /\ Quarters(n) \in Int /\ Quarters(n + 1) \in Int /\ TurnDigits(n) \in Int
         /\ Quarters(Lane) = 0
<1> DEFINE p == Place(Lane)  q == Place(Lane * 2)  r == Place(Lane * 3)  w == 2^W
           a0 == UsedInQuarter(0, n)  a1 == UsedInQuarter(1, n)
           a2 == UsedInQuarter(2, n)  a3 == UsedInQuarter(3, n)
           b0 == UsedInQuarter(0, n + 1)  b1 == UsedInQuarter(1, n + 1)
           b2 == UsedInQuarter(2, n + 1)  b3 == UsedInQuarter(3, n + 1)
           d0 == SignedDigit(0, n)  d1 == SignedDigit(1, n)
           d2 == SignedDigit(2, n)  d3 == SignedDigit(3, n)
<1>1. p \in Nat /\ q \in Nat /\ r \in Nat /\ w \in Nat
  <2>1. Lane \in Positions /\ Lane * 2 \in Positions /\ Lane * 3 \in Positions
    BY QuarterPositions
  <2> QED BY <2>1, Places, Halves
<1>2. /\ 0 \in 0..3 /\ 1 \in 0..3 /\ 2 \in 0..3 /\ 3 \in 0..3
      /\ n \in 0..Lane /\ n + 1 \in 0..Lane /\ sb2 \in Nat /\ sb2 < Place(Digits)
  BY Sizes DEF ShiftedOK
<1>3. \A k \in 0..3 :
        /\ UsedInQuarter(k, Lane) = 0
        /\ UsedInQuarter(k, n) \in Int /\ UsedInQuarter(k, n + 1) \in Int
        /\ SignedDigit(k, n) \in Int
        /\ UsedInQuarter(k, n) = w * UsedInQuarter(k, n + 1) + SignedDigit(k, n)
  BY <1>2, QuarterStep
<1>4. /\ a0 \in Int /\ b0 \in Int /\ d0 \in Int /\ a0 = w * b0 + d0
      /\ a1 \in Int /\ b1 \in Int /\ d1 \in Int /\ a1 = w * b1 + d1
      /\ a2 \in Int /\ b2 \in Int /\ d2 \in Int /\ a2 = w * b2 + d2
      /\ a3 \in Int /\ b3 \in Int /\ d3 \in Int /\ a3 = w * b3 + d3
  BY <1>2, <1>3
<1>5. /\ Quarters(n) = a0 + a1 * p + a2 * q + a3 * r
      /\ Quarters(n + 1) = b0 + b1 * p + b2 * q + b3 * r
      /\ TurnDigits(n) = d0 + d1 * p + d2 * q + d3 * r
  BY DEF Quarters, TurnDigits
<1>6. Quarters(Lane) = 0
  BY <1>1, <1>2, <1>3 DEF Quarters
<1> HIDE DEF p, q, r, w, a0, a1, a2, a3, b0, b1, b2, b3, d0, d1, d2, d3
<1>7. \A x, y, d \in Int, m \in Nat : x = w * y + d => x * m = w * (y * m) + d * m
  <2> SUFFICES ASSUME NEW x \in Int, NEW y \in Int, NEW d \in Int, NEW m \in Nat, x = w * y + d
               PROVE  x * m = w * (y * m) + d * m
    OBVIOUS
  <2>1. (w * y + d) * m = w * (y * m) + d * m
    BY <1>1
  <2> QED BY <2>1
<1> DEFINE x1 == a1 * p  x2 == a2 * q  x3 == a3 * r  y1 == b1 * p  y2 == b2 * q  y3 == b3 * r
           z1 == d1 * p  z2 == d2 * q  z3 == d3 * r
<1>8. x1 = w * y1 + z1 /\ x2 = w * y2 + z2 /\ x3 = w * y3 + z3
  BY <1>1, <1>4, <1>7
<1>9. /\ x1 \in Int /\ x2 \in Int /\ x3 \in Int /\ y1 \in Int /\ y2 \in Int /\ y3 \in Int
      /\ z1 \in Int /\ z2 \in Int /\ z3 \in Int
      /\ Quarters(n) = a0 + x1 + x2 + x3 /\ Quarters(n + 1) = b0 + y1 + y2 + y3
      /\ TurnDigits(n) = d0 + z1 + z2 + z3
  BY <1>1, <1>4, <1>5
<1> HIDE DEF x1, x2, x3, y1, y2, y3, z1, z2, z3
<1>10. w * (b0 + y1 + y2 + y3) = w * b0 + w * y1 + w * y2 + w * y3
  BY <1>1, <1>4, <1>9
<1> DEFINE v0 == w * b0  v1 == w * y1  v2 == w * y2  v3 == w * y3  v == w * (b0 + y1 + y2 + y3)
<1>11. /\ v0 \in Int /\ v1 \in Int /\ v2 \in Int /\ v3 \in Int /\ v = v0 + v1 + v2 + v3
       /\ x1 = v1 + z1 /\ x2 = v2 + z2 /\ x3 = v3 + z3 /\ a0 = v0 + d0
       /\ w * Quarters(n + 1) = v
  BY <1>1, <1>4, <1>8, <1>9, <1>10
<1> HIDE DEF v0, v1, v2, v3, v
<1>12. Quarters(n) = w * Quarters(n + 1) + TurnDigits(n)
  BY <1>4, <1>9, <1>11
<1>13. Quarters(n) \in Int /\ Quarters(n + 1) \in Int /\ TurnDigits(n) \in Int
  BY <1>4, <1>9
<1> QED BY <1>6, <1>12, <1>13 DEF w

LEMMA MulgenFacts ==
  ASSUME CallOK, PreparedOK, pc = "mulgen", i < Lane
  PROVE  /\ pc = op /\ Turns = Lane /\ i \in 0..(Lane - 1) /\ i < Turns
         /\ Turns - (i + 1) = Lane - 1 - i /\ (Lane - 1 - i) + 1 = Turns - i
         /\ Lane - 1 - i \in 0..(Lane - 1) /\ (i = 0 => Turns - i = Lane)
         /\ ShiftedOK(sb2) /\ \A n : Expected(n) = Quarters(n)
<1>1. pc = op
  BY DEF CallOK
<1>2. op = "mulgen" /\ Turns = Lane /\ i \in 0..Lane
  BY <1>1, Running
<1>3. ShiftedOK(sb2)
  BY <1>1, Prepared
<1>4. \A n : Expected(n) = Quarters(n)
  BY <1>2 DEF Expected
<1> QED BY <1>1, <1>2, <1>3, <1>4, Sizes

LEMMA MulgenTurnInv ==
  ASSUME IInv, MulgenTurn
  PROVE  IInv' /\ UNCHANGED <<op, point, s1, s2, pc>> /\ pc = op
<1> DEFINE n == Lane - 1 - i  D == PointMul2k(Sum, W)  w == 2^W
           P == PointAdd(PointAdd(PointAdd(PointAdd(D, Quarter(0)), Quarter(1)),
                                  Quarter(2)), Quarter(3))
           t0 == SignedDigit(0, n)  t1 == SignedDigit(1, n) * Place(Lane)
           t2 == SignedDigit(2, n) * Place(Lane * 2)  t3 == SignedDigit(3, n) * Place(Lane * 3)
           s == Quarters(n + 1)
<1>1. pc = "mulgen" /\ i \in 1..(Lane - 1) /\ i < Lane /\ Store(P) /\ CallOK /\ PreparedOK /\ SumOK
  <2>1. i \in 1..(Lane - 1)
    BY DEF MulgenTurn
  <2> QED BY <2>1, Sizes DEF MulgenTurn, IInv
<1>2. /\ pc = op /\ Turns = Lane /\ i \in 0..(Lane - 1) /\ i < Turns /\ i # 0 /\ i > 0
      /\ Turns - (i + 1) = n /\ n + 1 = Turns - i /\ n \in 0..(Lane - 1)
      /\ ShiftedOK(sb2) /\ \A k : Expected(k) = Quarters(k)
  BY <1>1, MulgenFacts, Sizes
<1>3. /\ Is(Quarter(0), t0) /\ t0 \in Int /\ Is(Quarter(1), t1) /\ t1 \in Int
      /\ Is(Quarter(2), t2) /\ t2 \in Int /\ Is(Quarter(3), t3) /\ t3 \in Int
  <2>1. /\ 0 \in 0..3 /\ 1 \in 0..3 /\ 2 \in 0..3 /\ 3 \in 0..3
        /\ Lane * 0 = 0 /\ Lane * 1 = Lane /\ Place(0) = 1
    BY Sizes, Places
  <2>2. \A k \in 0..3 : /\ Is(Quarter(k), SignedDigit(k, n) * Place(Lane * k))
                        /\ SignedDigit(k, n) * Place(Lane * k) \in Int
    BY <1>2, QuarterIs
  <2>3. SignedDigit(0, n) \in Int
    BY <1>2, <2>1, QuarterStep DEF ShiftedOK
  <2>4. Is(Quarter(0), SignedDigit(0, n) * 1)
    BY <2>1, <2>2
  <2>5. SignedDigit(0, n) * 1 = SignedDigit(0, n)
    BY <2>3
  <2> QED BY <2>1, <2>2, <2>3, <2>4, <2>5
<1>4. Quarters(n) = w * s + TurnDigits(n) /\ s \in Int /\ w \in Nat
  BY <1>2, QuartersStep, Halves
<1>5. TurnDigits(n) = t0 + t1 + t2 + t3
  BY DEF TurnDigits
<1>6. Is(Sum, s)
  BY <1>1, <1>2 DEF SumOK
<1> HIDE DEF t0, t1, t2, t3, s, n
<1>7. Is(D, w * s) /\ w * s \in Int
  BY <1>4, <1>6, DoubledIs
<1> DEFINE ws == w * s
<1> HIDE DEF D, ws
<1>8. Is(D, ws) /\ ws \in Int
  BY <1>7 DEF ws
<1>9. Is(P, (((ws + t0) + t1) + t2) + t3)
  <2>1. Is(PointAdd(D, Quarter(0)), ws + t0) /\ ws + t0 \in Int
    BY <1>3, <1>8, AddIs
  <2>2. Is(PointAdd(PointAdd(D, Quarter(0)), Quarter(1)), (ws + t0) + t1) /\ (ws + t0) + t1 \in Int
    BY <1>3, <2>1, AddIs
  <2>3. /\ Is(PointAdd(PointAdd(PointAdd(D, Quarter(0)), Quarter(1)), Quarter(2)),
                ((ws + t0) + t1) + t2)
        /\ ((ws + t0) + t1) + t2 \in Int
    BY <1>3, <2>2, AddIs
  <2> QED BY <1>3, <2>3, AddIs
<1> HIDE DEF P
<1>10. (((ws + t0) + t1) + t2) + t3 = Quarters(n)
  <2>1. Quarters(n) = ws + (t0 + t1 + t2 + t3)
    BY <1>4, <1>5 DEF ws
  <2> QED BY <1>3, <1>8, <2>1
<1>11. Is(P, Expected(Turns - (i + 1)))
  BY <1>2, <1>9, <1>10
<1> QED BY <1>1, <1>2, <1>11, StoreInv

\* The first turn makes no lookup in the highest window: that digit is not there.
LEMMA MulgenFirstInv ==
  ASSUME IInv, MulgenFirst
  PROVE  IInv' /\ UNCHANGED <<op, point, s1, s2, pc>> /\ pc = op
<1> DEFINE n == Lane - 1 - i
           P == PointAdd(PointAdd(Quarter(0), Quarter(1)), Quarter(2))
           t0 == SignedDigit(0, n)  t1 == SignedDigit(1, n) * Place(Lane)
           t2 == SignedDigit(2, n) * Place(Lane * 2)  t3 == SignedDigit(3, n) * Place(Lane * 3)
<1>1. pc = "mulgen" /\ i = 0 /\ i < Lane /\ Store(P) /\ CallOK /\ PreparedOK
  BY Sizes DEF MulgenFirst, IInv
<1>2. /\ pc = op /\ Turns = Lane /\ i \in 0..(Lane - 1) /\ i < Turns
      /\ Turns - (i + 1) = n /\ n + 1 = Lane /\ n \in 0..(Lane - 1) /\ n = Lane - 1
      /\ ShiftedOK(sb2) /\ \A k : Expected(k) = Quarters(k)
  BY <1>1, MulgenFacts, Sizes
<1>3. /\ Is(Quarter(0), t0) /\ t0 \in Int /\ Is(Quarter(1), t1) /\ t1 \in Int
      /\ Is(Quarter(2), t2) /\ t2 \in Int
  <2>1. /\ 0 \in 0..3 /\ 1 \in 0..3 /\ 2 \in 0..3
        /\ Lane * 0 = 0 /\ Lane * 1 = Lane /\ Place(0) = 1
    BY Sizes, Places
  <2>2. \A k \in 0..2 : /\ Is(Quarter(k), SignedDigit(k, n) * Place(Lane * k))
                        /\ SignedDigit(k, n) * Place(Lane * k) \in Int
    BY <1>2, QuarterIs
  <2>3. SignedDigit(0, n) \in Int
    BY <1>2, <2>1, QuarterStep DEF ShiftedOK
  <2>4. Is(Quarter(0), SignedDigit(0, n) * 1)
    BY <2>1, <2>2
  <2>5. SignedDigit(0, n) * 1 = SignedDigit(0, n)
    BY <2>3
  <2> QED BY <2>1, <2>2, <2>3, <2>4, <2>5
<1>4. t3 = 0
  <2>1. SignedDigit(3, n) = 0
    BY <1>2, SignedDigits DEF ShiftedOK
  <2>2. Place(Lane * 3) \in Int
    <3>1. Lane * 3 \in Positions
      BY QuarterPositions
    <3> QED BY <3>1, Places
  <2> QED BY <2>1, <2>2
<1>5. Quarters(n) = TurnDigits(n)
  <2>1. Quarters(n) = 2^W * Quarters(Lane) + TurnDigits(n) /\ Quarters(Lane) = 0
        /\ TurnDigits(n) \in Int
    BY <1>2, QuartersStep
  <2> QED BY <2>1, Halves
<1>6. TurnDigits(n) = t0 + t1 + t2 + t3
  BY DEF TurnDigits
<1> HIDE DEF t0, t1, t2, t3, n
<1>7. Is(P, (t0 + t1) + t2)
  <2>1. Is(PointAdd(Quarter(0), Quarter(1)), t0 + t1) /\ t0 + t1 \in Int
    BY <1>3, AddIs
  <2> QED BY <1>3, <2>1, AddIs
<1> HIDE DEF P
<1>8. (t0 + t1) + t2 = Quarters(n)
  BY <1>3, <1>4, <1>5, <1>6
<1>9. Is(P, Expected(Turns - (i + 1)))
  BY <1>2, <1>7, <1>8
<1> QED BY <1>1, <1>2, <1>9, StoreInv

LEMMA StartInv ==
  ASSUME IInv, Start
  PROVE  IInv' /\ UNCHANGED <<op, point, s1, s2>> /\ pc # "done" /\ pc' # "done"
<1>1. /\ pc = "start" /\ sb1' = Shifted(s1) /\ sb2' = Shifted(s2)
      /\ window' = (IF op = "mulgen" THEN <<>> ELSE WindowOf(q1))
      /\ qz' = q1.neutral /\ pc' = op
      /\ UNCHANGED <<build, op, s1, s2, alias, q1, q3, local, i, point>>
  BY DEF Start
<1>2. CallOK
  BY DEF IInv
<1>3. /\ op \in {"mul", "mulgen", "mul_mulgen_add"} /\ op # "start" /\ op # "done"
      /\ q1 = point /\ i = 0 /\ q1 \in Points
  BY <1>1, <1>2 DEF CallOK
<1>4. CallOK'
  <2>1. Turns' \in Nat
    BY Sizes DEF Turns
  <2>2. i' \in 0..Turns'
    BY <1>1, <1>3, <2>1
  <2> QED BY <1>1, <1>2, <1>3, <2>2 DEF CallOK
<1>5. PreparedOK'
  <2>1. WindowOf(q1) \in Window /\ (~q1.neutral => RightFor(WindowOf(q1), Log(q1)))
    BY <1>3, WindowOfRight
  <2>2. op # "mulgen" => window' \in Window /\ (~point.neutral => RightFor(window', Log(point)))
    BY <1>1, <1>3, <2>1
  <2> QED BY <1>1, <1>3, <2>2 DEF PreparedOK, Log
<1>6. SumOK' /\ ResultOK'
  BY <1>1, <1>3 DEF SumOK, ResultOK
<1> QED BY <1>1, <1>3, <1>4, <1>5, <1>6 DEF IInv

\* All digits together are the scalar, less the multiple of the order that was taken off.
LEMMA AllDigits ==
  ASSUME IInv, pc = op
  PROVE  Congruent(Expected(0), Product, N) /\ Expected(0) \in Int /\ Product \in Int
<1> DEFINE p == Log(point)  x == sb1 - Offset  y == sb2 - Offset
<1>1. CallOK /\ PreparedOK
  BY DEF IInv
<1>2. /\ ShiftedOK(sb1) /\ ShiftedOK(sb2) /\ Congruent(x, s1, N) /\ Congruent(y, s2, N)
      /\ p \in Int /\ x \in Int /\ y \in Int
  BY <1>1, Prepared
<1>3. Used(sb1, 0) = x /\ Used(sb2, 0) = y
  BY <1>2, UsedStep DEF ShiftedOK
<1>4. Quarters(0) = y
  BY <1>2, QuarterStep DEF ShiftedOK
<1>5. /\ s1 \in Int /\ s2 \in Int /\ N \in Int
      /\ op \in {"mul", "mulgen", "mul_mulgen_add"}
  BY <1>1, Order DEF CallOK
<1> HIDE DEF p, x, y
<1>6. p * x \in Int /\ p * s1 \in Int /\ s1 * p = p * s1 /\ Congruent(p * x, p * s1, N)
  <2>1. Congruent(p, p, N)
    BY <1>2, <1>5, CongruentRefl
  <2>2. Congruent(p * x, p * s1, N)
    BY <1>2, <1>5, <2>1, CongruentProduct
  <2> QED BY <1>2, <1>5, <2>2
<1> DEFINE px == p * x  ps == p * s1
<1>7. px \in Int /\ ps \in Int /\ Congruent(px, ps, N)
  BY <1>6
<1> HIDE DEF px, ps
<1>8. Congruent(px + y, ps + s2, N) /\ px + y \in Int /\ ps + s2 \in Int
  BY <1>2, <1>5, <1>7, CongruentSum
<1>9. CASE op = "mul"
  <2>1. Expected(0) = px /\ Product = ps
    BY <1>3, <1>6, <1>9 DEF Expected, Product, p, px, ps
  <2> QED BY <1>7, <2>1
<1>10. CASE op = "mulgen"
  <2>1. Expected(0) = y /\ Product = s2
    BY <1>4, <1>10 DEF Expected, Product
  <2> QED BY <1>2, <1>5, <2>1
<1>11. CASE op = "mul_mulgen_add"
  <2>1. Expected(0) = px + y /\ Product = ps + s2
    BY <1>3, <1>6, <1>11 DEF Expected, Product, p, px, ps
  <2> QED BY <1>8, <2>1
<1> QED BY <1>5, <1>9, <1>10, <1>11

LEMMA ReturnInv ==
  ASSUME IInv, Return
  PROVE  /\ IInv' /\ UNCHANGED <<op, point, s1, s2>> /\ pc # "done" /\ pc' = "done"
         /\ {Log(q3)}' = {Product % N}
<1>1. /\ pc \notin {"start", "done"} /\ i = Turns /\ pc' = "done"
      /\ build = "avx2" => q3' = local /\ q1' = (IF alias THEN local ELSE q1)
      /\ build # "avx2" => q3' = q3 /\ q1' = q1
      /\ UNCHANGED <<build, op, s1, s2, alias, local, sb1, sb2, window, qz, i, point>>
  BY DEF Return, WriteQ3
<1>2. CallOK /\ SumOK
  BY DEF IInv
<1>3. pc = op /\ op \in {"mul", "mulgen", "mul_mulgen_add"} /\ op # "done" /\ op # "start"
  BY <1>1, <1>2 DEF CallOK
<1>4. i > 0 /\ Turns - i = 0
  BY <1>1, <1>2, <1>3, Running
<1>5. q3' = Sum
  BY <1>1, <1>2 DEF CallOK, Sum
<1>6. Is(Sum, Expected(0))
  BY <1>2, <1>3, <1>4 DEF SumOK
<1>7. Congruent(Expected(0), Product, N) /\ Expected(0) \in Int /\ Product \in Int
  BY <1>3, AllDigits
<1> DEFINE x == Expected(0)  y == Product  S == Sum
<1>8. S \in Points /\ Congruent(Log(S), x, N) /\ x \in Int /\ y \in Int /\ Congruent(x, y, N)
  BY <1>6, <1>7 DEF Is
<1>9. Log(S) \in 0..(N - 1) /\ Log(S) \in Int
  BY <1>8, PointTypes
<1>10. q3' = S
  BY <1>5
<1>11. Product' = y
  BY <1>1 DEF Product, Log
<1> HIDE DEF x, y, S
<1>12. Congruent(Log(S), y, N) /\ Is(S, y)
  <2>1. N \in Int
    BY Order
  <2>2. Congruent(Log(S), y, N)
    BY <1>8, <1>9, <2>1, CongruentTrans
  <2> QED BY <1>8, <2>2 DEF Is
<1>13. Log(S) = y % N
  <2> DEFINE l == Log(S)
  <2>1. N \in Nat /\ N > 0 /\ l \in 0..(N - 1) /\ l \in Int /\ Congruent(l, y, N)
    BY <1>9, <1>12, Order
  <2> HIDE DEF l
  <2>2. l % N = y % N
    BY <1>8, <2>1, ModEqual
  <2>3. l % N = l
    BY <2>1
  <2> QED BY <2>2, <2>3 DEF l
<1>14. {Log(q3)}' = {Product % N}
  <2>1. Log(q3)' = Log(S)
    BY <1>10 DEF Log
  <2> QED BY <1>13, <2>1 DEF y
<1>15. CallOK'
  <2>1. q1' \in Points /\ q3' \in Points
    BY <1>1, <1>2, <1>8, <1>10 DEF CallOK
  <2> QED BY <1>1, <1>2, <1>3, <2>1 DEF CallOK
<1>16. PreparedOK' /\ SumOK'
  BY <1>1, <1>3 DEF PreparedOK, SumOK
<1>17. ResultOK'
  <2>1. Is(q3', y)
    BY <1>10, <1>12
  <2>2. Is(q3, Product)'
    BY <1>11, <2>1 DEF Is, Log
  <2> QED BY <2>2 DEF ResultOK
<1> QED BY <1>1, <1>14, <1>15, <1>16, <1>17 DEF IInv

LEMMA InitIInv == Init => IInv /\ Promise!Init
<1> SUFFICES ASSUME Init PROVE IInv /\ Promise!Init
  OBVIOUS
<1>1. /\ build \in {"ref", "avx2"} /\ op \in {"mul", "mulgen", "mul_mulgen_add"}
      /\ s1 \in Nat /\ s2 \in Nat /\ alias \in BOOLEAN /\ point = q1 /\ i = 0 /\ pc = "start"
      /\ q3 = (IF alias THEN q1 ELSE Infinity) /\ local = Infinity
  BY WindowAssumption DEF Init
<1>2. q1 \in Points
  <2>1. PICK log \in Logs :
          q1 \in IF log = 0 THEN [neutral : {TRUE}, at : {1, Junk}] ELSE {Multiple(log)}
    BY DEF Init
  <2>2. 1 \in Coordinates /\ Junk \in Coordinates /\ log \in 0..(N - 1)
    BY Order, WindowAssumption
  <2>3. CASE log = 0
    <3>1. q1 \in [neutral : {TRUE}, at : {1, Junk}]
      BY <2>1, <2>3
    <3> QED BY <2>2, <3>1 DEF Points
  <2>4. CASE log # 0
    <3>1. log \in Coordinates /\ log \in Int
      BY <2>2, <2>4, Order
    <3>2. ~Congruent(log, 0, N)
      BY <3>1, CoordinateTypes
    <3>3. (log % N) \in Coordinates
      BY <3>1, <3>2, Logarithm
    <3>4. q1 = [neutral |-> FALSE, at |-> log % N]
      BY <2>1, <2>4 DEF Multiple
    <3> QED BY <3>3, <3>4 DEF Points
  <2> QED BY <2>3, <2>4
<1>3. Infinity \in Points
  BY Order DEF Infinity, Points
<1>4. IInv
  BY <1>1, <1>2, <1>3 DEF IInv, CallOK, PreparedOK, SumOK, ResultOK
<1>5. Log(point) \in 0..(N - 1)
  BY <1>1, <1>2, PointTypes
<1>6. (IF pc = "done" THEN {Log(q3)} ELSE {}) = {}
  BY <1>1
<1>7. Promise!Init
  BY <1>1, <1>5, <1>6 DEF Promise!Init
<1> QED BY <1>4, <1>7

LEMMA NextIInv == IInv /\ [Next]_vars => IInv' /\ [Promise!Next]_(Promise!vars)
<1> SUFFICES ASSUME IInv, [Next]_vars PROVE IInv' /\ [Promise!Next]_(Promise!vars)
  OBVIOUS
<1> DEFINE result == IF pc = "done" THEN {Log(q3)} ELSE {}
<1>1. ASSUME IInv', UNCHANGED <<op, point, s1, s2>>, pc # "done", pc' # "done"
      PROVE  UNCHANGED Promise!vars
  <2>1. Log(point)' = Log(point) /\ result = {} /\ result' = {}
    BY <1>1 DEF Log
  <2> QED BY <1>1, <2>1 DEF Promise!vars
<1>2. ASSUME IInv', UNCHANGED <<op, point, s1, s2, pc>>, pc = op
      PROVE  IInv' /\ [Promise!Next]_(Promise!vars)
  <2>1. pc # "done"
    BY <1>2, Running DEF IInv
  <2>2. pc' # "done" /\ UNCHANGED <<op, point, s1, s2>>
    BY <1>2, <2>1
  <2> QED BY <1>1, <1>2, <2>1, <2>2
<1>3. CASE Start
  BY <1>1, <1>3, StartInv
<1>4. CASE MulTurn
  BY <1>2, <1>4, MulTurnInv
<1>5. CASE JacobianTurn
  BY <1>2, <1>5, JacobianTurnInv
<1>6. CASE MulMulgenAddTurn
  BY <1>2, <1>6, MulMulgenAddTurnInv
<1>7. CASE MulgenFirst
  BY <1>2, <1>7, MulgenFirstInv
<1>8. CASE MulgenTurn
  BY <1>2, <1>8, MulgenTurnInv
<1>9. CASE Return
  <2>1. /\ IInv' /\ UNCHANGED <<op, point, s1, s2>> /\ pc # "done" /\ pc' = "done"
        /\ {Log(q3)}' = {Product % N}
    BY <1>9, ReturnInv
  <2>2. Promise!Product = Product
    BY DEF Promise!Product, Product
  <2>3. Log(point)' = Log(point) /\ result = {} /\ result' = {Promise!Product % N}
    BY <2>1, <2>2 DEF Log
  <2>4. Promise!Next
    BY <2>1, <2>3 DEF Promise!Next, Promise!Return
  <2> QED BY <2>1, <2>4
<1>10. CASE UNCHANGED vars
  <2>1. IInv'
    <3>1. /\ UNCHANGED <<build, op, s1, s2, alias, q1, q3, local, sb1, sb2, window, qz, i, pc, point>>
      BY <1>10 DEF vars
    <3>2. CallOK' /\ PreparedOK' /\ ResultOK'
      BY <3>1 DEF IInv, CallOK, PreparedOK, ResultOK, Turns, Is, Log, Product
    <3>3. SumOK'
      <4>1. Expected(Turns - i)' = Expected(Turns - i)
        BY <3>1 DEF Expected, Used, Quarters, UsedInQuarter, Log, Turns
      <4>2. SumOK /\ Sum' = Sum
        BY <3>1 DEF IInv, Sum
      <4> QED BY <3>1, <4>1, <4>2 DEF SumOK, Is, Log
    <3> QED BY <3>2, <3>3 DEF IInv
  <2>2. UNCHANGED Promise!vars
    BY <1>10 DEF vars, Promise!vars, Log
  <2> QED BY <2>1, <2>2
<1> QED BY <1>3, <1>4, <1>5, <1>6, <1>7, <1>8, <1>9, <1>10 DEF Next

-----------------------------------------------------------------------------
LEMMA DifferenceIsZero ==
  ASSUME NEW x \in Int, NEW y \in Int, Congruent(x, y, N)
  PROVE  (x - y) % N = 0
<1>1. N \in Nat /\ N > 0
  BY Order
<1> QED BY <1>1, DifferenceZero

LEMMA InvSumOfDigits == IInv => SumOfDigits
<1> SUFFICES ASSUME IInv PROVE SumOfDigits
  OBVIOUS
<1> DEFINE S == Log(Sum)  p == Log(point)  u == Used(sb1, Digits - i)  v == Used(sb2, Digits - i)
<1>1. CallOK /\ PreparedOK /\ SumOK
  BY DEF IInv
<1>2. ASSUME pc \in {"mul", "mulgen", "mul_mulgen_add"}, i > 0
      PROVE  /\ pc = op /\ Is(Sum, Expected(Turns - i)) /\ i \in 0..Turns /\ S \in Int
             /\ Congruent(S, Expected(Turns - i), N)
             /\ ShiftedOK(sb1) /\ ShiftedOK(sb2) /\ p \in Int
             /\ (pc # "mulgen" => Turns = Digits) /\ (pc = "mulgen" => Turns = Lane)
  <2>1. pc = op
    BY <1>1, <1>2 DEF CallOK
  <2>2. Is(Sum, Expected(Turns - i)) /\ i \in 0..Turns
    BY <1>1, <1>2, <2>1, Running DEF SumOK
  <2>3. S \in Int /\ Congruent(S, Expected(Turns - i), N)
    BY <2>2, PointTypes DEF Is
  <2>4. ShiftedOK(sb1) /\ ShiftedOK(sb2) /\ p \in Int
    BY <1>1, <2>1, Prepared
  <2> QED BY <2>1, <2>2, <2>3, <2>4 DEF Turns
<1>3. ASSUME pc \in {"mul", "mul_mulgen_add"}, i > 0
      PROVE  (S - p * u - (IF pc = "mul" THEN 0 ELSE v)) % N = 0
  <2>1. /\ pc = op /\ S \in Int /\ Congruent(S, Expected(Digits - i), N)
        /\ ShiftedOK(sb1) /\ ShiftedOK(sb2) /\ p \in Int /\ i \in 0..Digits
    BY <1>2, <1>3
  <2>2. u \in Int /\ v \in Int
    <3>1. Digits - i \in 0..Digits
      BY <2>1, Sizes
    <3> QED BY <2>1, <3>1, UsedStep DEF ShiftedOK
  <2>3. pc = "mul" => Expected(Digits - i) = p * u
    BY <2>1 DEF Expected
  <2>4. pc = "mul_mulgen_add" => Expected(Digits - i) = p * u + v
    BY <2>1 DEF Expected
  <2> DEFINE pu == p * u
  <2>5. pu \in Int
    BY <2>1, <2>2
  <2> HIDE DEF S, p, u, v, pu
  <2>6. CASE pc = "mul"
    <3>1. Congruent(S, pu, N)
      BY <2>1, <2>3, <2>6 DEF pu
    <3>2. (S - pu) % N = 0 /\ (S - pu) - 0 = S - pu
      BY <2>1, <2>5, <3>1, DifferenceIsZero
    <3> QED BY <2>6, <3>2 DEF pu
  <2>7. CASE pc = "mul_mulgen_add"
    <3>1. Congruent(S, pu + v, N) /\ pu + v \in Int
      BY <2>1, <2>2, <2>4, <2>5, <2>7 DEF pu
    <3>2. (S - (pu + v)) % N = 0 /\ S - (pu + v) = S - pu - v
      BY <2>1, <2>2, <2>5, <3>1, DifferenceIsZero
    <3> QED BY <2>7, <3>2 DEF pu
  <2> QED BY <1>3, <2>6, <2>7
<1>4. ASSUME pc = "mulgen", i > 0
      PROVE  (S - UsedInQuarter(0, Lane - i)
                - UsedInQuarter(1, Lane - i) * 2^(W * Lane)
                - UsedInQuarter(2, Lane - i) * 2^(W * Lane * 2)
                - UsedInQuarter(3, Lane - i) * ((2^(W * Lane * 3)) % N)) % N = 0
  <2> DEFINE u0 == UsedInQuarter(0, Lane - i)  u1 == UsedInQuarter(1, Lane - i)
             u2 == UsedInQuarter(2, Lane - i)  u3 == UsedInQuarter(3, Lane - i)
             b1 == 2^(W * Lane)  b2 == 2^(W * Lane * 2)  b3 == 2^(W * Lane * 3)  r3 == b3 % N
  <2>1. /\ pc = op /\ S \in Int /\ Congruent(S, Expected(Lane - i), N)
        /\ ShiftedOK(sb2) /\ i \in 0..Lane
    BY <1>2, <1>4
  <2>2. b1 = Place(Lane) /\ b2 = Place(Lane * 2) /\ b3 = Place(Lane * 3)
    <3>1. W * Lane * 2 = W * (Lane * 2) /\ W * Lane * 3 = W * (Lane * 3)
      BY Sizes
    <3> QED BY <3>1 DEF Place
  <2>3. b1 \in Nat /\ b2 \in Nat /\ b3 \in Nat
    <3>1. Lane \in Positions /\ Lane * 2 \in Positions /\ Lane * 3 \in Positions
      BY QuarterPositions
    <3> QED BY <2>2, <3>1, Places
  <2>4. u0 \in Int /\ u1 \in Int /\ u2 \in Int /\ u3 \in Int
    <3>1. Lane - i \in 0..Lane /\ 0 \in 0..3 /\ 1 \in 0..3 /\ 2 \in 0..3 /\ 3 \in 0..3
      BY <2>1, Sizes
    <3> QED BY <2>1, <3>1, QuarterStep DEF ShiftedOK
  <2>5. Expected(Lane - i) = u0 + u1 * b1 + u2 * b2 + u3 * b3
    BY <1>4, <2>1, <2>2 DEF Expected, Quarters
  <2> HIDE DEF S, u0, u1, u2, u3, b1, b2, b3
  <2>6. r3 \in Int /\ Congruent(b3, r3, N)
    <3>1. N \in Nat /\ N > 0 /\ b3 \in Int
      BY <2>3, Order
    <3>2. r3 \in 0..(N - 1) /\ Congruent(b3, r3, N)
      BY <3>1, ModCongruent
    <3> QED BY <3>2
  <2> HIDE DEF r3
  <2> DEFINE m == u0 + u1 * b1 + u2 * b2
  <2>7. m \in Int
    <3>1. u1 * b1 \in Int /\ u2 * b2 \in Int
      BY <2>3, <2>4
    <3> QED BY <2>4, <3>1
  <2>8. Congruent(S, m + u3 * b3, N)
    BY <2>1, <2>5
  <2> DEFINE x == u1 * b1  y == u2 * b2
  <2>9. x \in Int /\ y \in Int /\ m = u0 + x + y
    BY <2>3, <2>4
  <2> HIDE DEF m, x, y
  <2>10. Congruent(m + u3 * b3, m + u3 * r3, N)
    <3>1. N \in Int /\ b3 \in Int
      BY <2>3, Order
    <3>2. Congruent(m, m, N)
      BY <2>7, <3>1, CongruentRefl
    <3> QED BY <2>4, <2>6, <2>7, <3>1, <3>2, CongruentLinear
  <2> DEFINE z == u3 * r3  z3 == u3 * b3
  <2>11. z \in Int /\ z3 \in Int /\ Congruent(m + z3, m + z, N) /\ Congruent(S, m + z3, N)
    BY <2>3, <2>4, <2>6, <2>8, <2>10
  <2> HIDE DEF z, z3
  <2>12. Congruent(S, m + z, N) /\ m + z \in Int
    <3>1. N \in Int /\ m + z3 \in Int /\ m + z \in Int
      BY <2>7, <2>11, Order
    <3> QED BY <2>1, <2>11, <3>1, CongruentTrans
  <2>13. (S - (m + z)) % N = 0
    BY <2>1, <2>12, DifferenceIsZero
  <2>14. S - u0 - x - y - z = S - (m + z)
    BY <2>1, <2>4, <2>9, <2>11
  <2>15. (S - u0 - x - y - z) % N = 0
    BY <2>13, <2>14
  <2> QED BY <2>15 DEF u0, x, y, z, u1, u2, u3, b1, b2, b3, r3
<1> QED BY <1>3, <1>4 DEF SumOfDigits

\* After each turn the sum is the multiple that the digits used so far stand for,
\* in all three loops of both builds, whatever the order, the width and the
\* number of digits.
THEOREM SumOfDigitsAlways == Spec => []SumOfDigits
<1>1. Init => IInv
  BY InitIInv
<1>2. IInv /\ [Next]_vars => IInv'
  BY NextIInv
<1> QED BY <1>1, <1>2, InvSumOfDigits, PTL DEF Spec

\* The multiplications return the product, infinity included, for every scalar,
\* normalised or not, and for a result stored in the operand.
THEOREM MultipliesAlways == Spec => IsProduct
<1>1. Init => IInv /\ Promise!Init
  BY InitIInv
<1>2. IInv /\ [Next]_vars => IInv' /\ [Promise!Next]_(Promise!vars)
  BY NextIInv
<1> QED BY <1>1, <1>2, PTL DEF Spec, IsProduct, Promise!Spec
=============================================================================
