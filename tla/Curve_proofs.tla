---------------------------- MODULE Curve_proofs ----------------------------
(***************************************************************************)
(* Proofs about Curve, for any seeds, shifts, scalars and altered bytes.   *)
(*                                                                         *)
(* Seeds: each division of gf_map_to_base is undone by a multiplication    *)
(* (MultipliedBack) when no word above those it looks at is set; OnTable   *)
(* says that none is, from the bounds Tops on the highest word, which each *)
(* division divides by p.  Hence RebuildsSeed.                             *)
(*                                                                         *)
(* The codec: three coefficients and five bytes determine each other       *)
(* (GroupRead, GroupWritten), so elements and bytes do (ReadBack,          *)
(* WrittenBack), and with the sign bit points and buffers (DecodesOnce).   *)
(*                                                                         *)
(* Points: every function returns points whose coordinates are elements,   *)
(* also at infinity (the lemmas named ...Closed), so CurveInv holds and    *)
(* what is proved of any bytes and points holds of those of a behaviour.   *)
(***************************************************************************)
EXTENDS Curve, Congruence, SequenceTheorems

\* A function defined by recursion exists: each value is a step from the one before.
IsStep(step, n, D) == \A k \in 1..n, d \in D : step[<<k, d>>] \in D
IsRecursive(f, n, D, base, step) ==
    f \in [0..n -> D] /\ f[0] = base /\ \A k \in 1..n : f[k] = step[<<k, f[k - 1]>>]

LEMMA Recursion ==
  ASSUME NEW n \in Nat, NEW D, NEW base \in D, NEW step, IsStep(step, n, D)
  PROVE  \E f : IsRecursive(f, n, D, base, step)
<1> USE DEF IsStep
<1> DEFINE Good == {m \in 0..n : \E f \in [0..m -> D] :
                       f[0] = base /\ \A t \in 1..m : f[t] = step[<<t, f[t - 1]>>]}
<1>1. 0 \in Good
  <2> DEFINE f == [t \in 0..0 |-> base]
  <2>1. f \in [0..0 -> D] /\ f[0] = base /\ \A t \in 1..0 : f[t] = step[<<t, f[t - 1]>>]
    OBVIOUS
  <2> HIDE DEF f
  <2>2. 0 \in 0..n
    OBVIOUS
  <2> QED BY <2>1, <2>2
<1>2. ASSUME NEW k \in 0..(n - 1), k \in Good PROVE k + 1 \in Good
  <2>1. PICK f \in [0..k -> D] : f[0] = base /\ \A t \in 1..k : f[t] = step[<<t, f[t - 1]>>]
    BY <1>2
  <2> DEFINE g == [t \in 0..(k + 1) |-> IF t = k + 1 THEN step[<<k + 1, f[k]>>] ELSE f[t]]
  <2>2. g \in [0..(k + 1) -> D] /\ g[0] = base
    <3>1. k + 1 \in 1..n /\ f[k] \in D
      BY <2>1
    <3>2. step[<<k + 1, f[k]>>] \in D
      BY <3>1
    <3>3. ASSUME NEW t \in 0..(k + 1) PROVE g[t] \in D
      BY <2>1, <3>2
    <3>4. g[0] = base
      BY <2>1
    <3> QED BY <3>3, <3>4
  <2>3. ASSUME NEW t \in 1..(k + 1) PROVE g[t] = step[<<t, g[t - 1]>>]
    <3>1. t - 1 \in 0..k /\ t - 1 # k + 1 /\ g[t - 1] = f[t - 1] /\ t \in 0..(k + 1)
      OBVIOUS
    <3>2. CASE t = k + 1
      <4>1. t - 1 = k
        BY <3>2
      <4>2. g[t] = step[<<k + 1, f[k]>>]
        BY <3>1, <3>2
      <4> HIDE DEF g
      <4> QED BY <3>1, <3>2, <4>1, <4>2
    <3>3. CASE t # k + 1
      <4>1. g[t] = f[t] /\ t \in 1..k
        BY <3>1, <3>3
      <4> HIDE DEF g
      <4> QED BY <2>1, <3>1, <4>1
    <3> QED BY <3>2, <3>3
  <2>4. k + 1 \in 0..n
    OBVIOUS
  <2> HIDE DEF g
  <2> QED BY <2>2, <2>3, <2>4
<1> HIDE DEF Good
<1>3. n \in Good
  <2>1. n \in 0..n
    OBVIOUS
  <2> QED BY <1>1, <1>2, <2>1, UpTo
<1> QED BY <1>3 DEF Good, IsRecursive

-----------------------------------------------------------------------------
(* Seeds *)

\* The modulus and the word are taken as any positive numbers wherever possible.
LEMMA Positive == P \in Nat /\ P > 0 /\ Word \in Nat /\ Word > 0
BY DEF P, Word

\* One step of a division: the remainder e of the higher words, and the word w.
LEMMA StepOfDivision ==
  ASSUME NEW b \in Nat, b > 0, NEW p \in Nat, p > 0,
         NEW e \in 0..(p - 1), NEW w \in 0..(b - 1)
  PROVE  /\ (w + e * b) \div p \in 0..(b - 1) /\ (w + e * b) % p \in 0..(p - 1)
         /\ w + e * b = ((w + e * b) \div p) * p + ((w + e * b) % p)
<1> DEFINE t == w + e * b
<1>1. t \in Nat /\ t < p * b
  <2>1. e * b \in Nat /\ e * b <= (p - 1) * b /\ (p - 1) * b = p * b - b /\ p * b \in Nat
    OBVIOUS
  <2> QED BY <2>1
<1> HIDE DEF t
<1> DEFINE q == t \div p  r == t % p
<1>2. q \in Int /\ r \in 0..(p - 1) /\ t = p * q + r /\ q * p = p * q
  BY <1>1, Division
<1> HIDE DEF q, r
<1>3. q >= 0
  <2> SUFFICES ASSUME q <= -1 PROVE FALSE
    BY <1>2
  <2>1. p * q <= p * (-1)
    BY <1>2
  <2> QED BY <1>1, <1>2, <2>1
<1>4. q < b
  <2> SUFFICES ASSUME q >= b PROVE FALSE
    BY <1>2
  <2>1. p * q >= p * b
    BY <1>2
  <2> QED BY <1>1, <1>2, <2>1
<1>5. q \in 0..(b - 1) /\ r \in 0..(p - 1) /\ t = q * p + r
  BY <1>2, <1>3, <1>4
<1> QED BY <1>5 DEF q, r, t

\* f is the sequence of the remainders of Divide(x, n).
AreRemainders(f, x, n) ==
    f = [k \in 0..n |-> IF k = 0 THEN 0 ELSE (x[n + 1 - k] + f[k - 1] * Word) % P]

LEMMA RemaindersExist ==
  ASSUME NEW n \in Nat, NEW x, \A i \in 1..n : x[i] \in 0..(Word - 1)
  PROVE  \E f \in [0..n -> 0..(P - 1)] : AreRemainders(f, x, n)
<1> DEFINE D == 0..(P - 1)
           step == [u \in (1..n) \X D |-> (x[n + 1 - u[1]] + u[2] * Word) % P]
<1>1. ASSUME NEW k \in 1..n, NEW d \in D
      PROVE  step[<<k, d>>] = (x[n + 1 - k] + d * Word) % P /\ step[<<k, d>>] \in D
  <2>1. step[<<k, d>>] = (x[n + 1 - k] + d * Word) % P
    OBVIOUS
  <2>2. n + 1 - k \in 1..n
    OBVIOUS
  <2>3. x[n + 1 - k] \in 0..(Word - 1)
    BY <2>2
  <2> HIDE DEF step
  <2> DEFINE w == x[n + 1 - k]
  <2>4. w \in 0..(Word - 1) /\ d \in 0..(P - 1)
    BY <2>3
  <2> HIDE DEF w
  <2>5. (w + d * Word) % P \in 0..(P - 1)
    BY <2>4, Positive, StepOfDivision
  <2> QED BY <2>1, <2>5 DEF w
<1>2. 0 \in D /\ n \in Nat
  BY Positive
<1> HIDE DEF step
<1>3. PICK f \in [0..n -> D] : f[0] = 0 /\ \A k \in 1..n : f[k] = step[<<k, f[k - 1]>>]
  <2>1. IsStep(step, n, D)
    BY <1>1 DEF IsStep
  <2> HIDE DEF D
  <2>2. \E f : IsRecursive(f, n, D, 0, step)
    BY <1>2, <2>1, Recursion
  <2> QED BY <2>2 DEF IsRecursive
<1>4. ASSUME NEW k \in 0..n
      PROVE  f[k] = IF k = 0 THEN 0 ELSE (x[n + 1 - k] + f[k - 1] * Word) % P
  <2>1. CASE k = 0
    BY <1>3, <2>1
  <2>2. CASE k # 0
    <3>1. k \in 1..n /\ k - 1 \in 0..n
      BY <2>2
    <3>2. f[k - 1] \in D
      BY <1>3, <3>1
    <3> QED BY <1>1, <1>3, <2>2, <3>1, <3>2
  <2> QED BY <2>1, <2>2
<1>5. f = [k \in 0..n |-> f[k]]
  BY <1>3
<1>6. AreRemainders(f, x, n)
  BY <1>4, <1>5 DEF AreRemainders
<1> QED BY <1>3, <1>6

\* What Divide(x, n) returns, in terms of the remainders g: one for each word.
IsDivision(x, n, g) ==
    /\ g \in [0..n -> 0..(P - 1)] /\ g[0] = 0 /\ Divide(x, n).r = g[n]
    /\ Divide(x, n).x \in Words
    /\ \A i \in 1..n : x[i] + g[n - i] * Word = Divide(x, n).x[i] * P + g[n + 1 - i]
    /\ \A i \in (n + 1)..24 : Divide(x, n).x[i] = x[i]

LEMMA DivideIs ==
  ASSUME NEW x \in Words, NEW n \in 1..24
  PROVE  \E g : IsDivision(x, n, g)
<1> DEFINE g == CHOOSE f : AreRemainders(f, x, n)
           quotient == [i \in 1..n |-> (x[i] + g[n - i] * Word) \div P]
           rest == SubSeq(x, n + 1, 24)
<1>1. n \in Nat /\ n > 0 /\ n <= 24 /\ \A i \in 1..24 : x[i] \in 0..(Word - 1)
  BY DEF Words
<1>2. AreRemainders(g, x, n)
  <2>1. \A i \in 1..n : x[i] \in 0..(Word - 1)
    BY <1>1
  <2> QED BY <1>1, <2>1, RemaindersExist
<1>3. Divide(x, n) = [r |-> g[n], x |-> quotient \o rest]
  BY DEF Divide, AreRemainders
<1> HIDE DEF g
<1>4. /\ g[0] = 0
      /\ \A k \in 1..n : g[k] = (x[n + 1 - k] + g[k - 1] * Word) % P
      /\ g = [k \in 0..n |-> g[k]]
  <2>1. g = [k \in 0..n |-> IF k = 0 THEN 0 ELSE (x[n + 1 - k] + g[k - 1] * Word) % P]
    BY <1>2 DEF AreRemainders
  <2>2. g[0] = 0
    BY <1>1, <2>1
  <2>3. ASSUME NEW k \in 1..n PROVE g[k] = (x[n + 1 - k] + g[k - 1] * Word) % P
    <3>1. k \in 0..n /\ k # 0
      OBVIOUS
    <3> QED BY <2>1, <3>1
  <2>4. g = [k \in 0..n |-> g[k]]
    BY <2>1
  <2> QED BY <2>2, <2>3, <2>4
<1> DEFINE S == {k \in 0..n : g[k] \in 0..(P - 1)}
<1>5. \A k \in 0..n : k \in S
  <2>1. 0 \in S
    <3>1. 0 \in 0..n /\ 0 \in 0..(P - 1)
      BY <1>1, Positive
    <3> QED BY <1>4, <3>1
  <2>2. ASSUME NEW k \in 0..(n - 1), k \in S PROVE k + 1 \in S
    <3>1. k + 1 \in 1..n /\ k + 1 \in 0..n /\ (k + 1) - 1 = k /\ n + 1 - (k + 1) \in 1..24
      BY <1>1
    <3> DEFINE w == x[n + 1 - (k + 1)]  e == g[k]
    <3>2. g[k + 1] = (w + e * Word) % P
      BY <1>4, <3>1
    <3>3. w \in 0..(Word - 1) /\ e \in 0..(P - 1)
      BY <1>1, <2>2, <3>1
    <3> HIDE DEF w, e
    <3>4. (w + e * Word) % P \in 0..(P - 1)
      BY <3>3, Positive, StepOfDivision
    <3> QED BY <3>1, <3>2, <3>4
  <2> HIDE DEF S
  <2> QED BY <1>1, <2>1, <2>2, UpTo
<1>6. g \in [0..n -> 0..(P - 1)]
  BY <1>4, <1>5
<1>7. ASSUME NEW i \in 1..n
      PROVE  /\ quotient[i] \in 0..(Word - 1)
             /\ x[i] + g[n - i] * Word = quotient[i] * P + g[n + 1 - i]
  <2>1. n - i \in 0..n /\ n + 1 - i \in 1..n /\ (n + 1 - i) - 1 = n - i /\ n + 1 - (n + 1 - i) = i
        /\ i \in 1..24
    BY <1>1
  <2> DEFINE w == x[i]  e == g[n - i]
  <2>2. g[n + 1 - i] = (w + e * Word) % P
    BY <1>4, <2>1
  <2>3. quotient[i] = (w + e * Word) \div P
    OBVIOUS
  <2>4. e \in 0..(P - 1) /\ w \in 0..(Word - 1)
    BY <1>1, <1>6, <2>1
  <2> HIDE DEF w, e, quotient
  <2>5. /\ (w + e * Word) \div P \in 0..(Word - 1)
        /\ w + e * Word = ((w + e * Word) \div P) * P + ((w + e * Word) % P)
    BY <2>4, Positive, StepOfDivision
  <2>6. quotient[i] \in 0..(Word - 1) /\ w + e * Word = quotient[i] * P + g[n + 1 - i]
    BY <2>2, <2>3, <2>5
  <2> QED BY <2>6 DEF w, e
<1>8. /\ quotient \o rest \in Words
      /\ \A i \in 1..n : (quotient \o rest)[i] = quotient[i]
      /\ \A i \in (n + 1)..24 : (quotient \o rest)[i] = x[i]
  <2> DEFINE T == 0..(Word - 1)
  <2>1. quotient \in [1..n -> T]
    BY <1>7
  <2>2. x \in [1..24 -> T]
    BY DEF Words
  <2> HIDE DEF T, quotient
  <2>3. quotient \in Seq(T) /\ Len(quotient) = n
    <3>1. n \in Nat /\ \A i \in 1..n : quotient[i] \in T
      BY <1>1, <2>1
    <3>2. quotient = [i \in 1..n |-> quotient[i]]
      BY <2>1
    <3> QED BY <3>1, <3>2, <2>1
  <2>4. rest \in Seq(T) /\ Len(rest) = 24 - n /\ \A j \in 1..(24 - n) : rest[j] = x[n + j]
    <3>1. n + 1 \in Int /\ 24 \in Int /\ \A i \in (n + 1)..24 : x[i] \in T
      BY <1>1, <2>2
    <3>2. /\ rest \in Seq(T) /\ Len(rest) = IF n + 1 <= 24 THEN 24 - (n + 1) + 1 ELSE 0
          /\ \A j \in 1..(24 - (n + 1) + 1) : rest[j] = x[(n + 1) + j - 1]
      BY <3>1, SubSeqProperties
    <3>3. 24 - (n + 1) + 1 = 24 - n /\ \A j \in Int : (n + 1) + j - 1 = n + j
      BY <1>1
    <3> HIDE DEF rest
    <3>4. Len(rest) = 24 - n
      BY <1>1, <3>2
    <3>5. ASSUME NEW j \in 1..(24 - n) PROVE rest[j] = x[n + j]
      BY <3>2, <3>3
    <3> QED BY <3>2, <3>4, <3>5
  <2> HIDE DEF rest
  <2>5. /\ quotient \o rest \in Seq(T) /\ Len(quotient \o rest) = 24
        /\ \A i \in 1..n : (quotient \o rest)[i] = quotient[i]
        /\ \A i \in (n + 1)..24 : (quotient \o rest)[i] = rest[i - n]
    <3>1. /\ quotient \o rest \in Seq(T)
          /\ Len(quotient \o rest) = n + (24 - n)
          /\ \A i \in 1..(n + (24 - n)) : (quotient \o rest)[i] =
                IF i <= n THEN quotient[i] ELSE rest[i - n]
      <4>1. \A i \in 1..(Len(quotient) + Len(rest)) : (quotient \o rest)[i] =
                IF i <= Len(quotient) THEN quotient[i] ELSE rest[i - Len(quotient)]
        BY <2>3, <2>4, ConcatProperties
      <4>2. quotient \o rest \in Seq(T) /\ Len(quotient \o rest) = Len(quotient) + Len(rest)
        BY <2>3, <2>4, ConcatProperties
      <4> QED BY <2>3, <2>4, <4>1, <4>2
    <3>2. n + (24 - n) = 24
      BY <1>1
    <3>3. ASSUME NEW i \in 1..n PROVE (quotient \o rest)[i] = quotient[i]
      <4>1. i \in 1..24 /\ i <= n
        BY <1>1
      <4> QED BY <3>1, <3>2, <4>1
    <3>4. ASSUME NEW i \in (n + 1)..24 PROVE (quotient \o rest)[i] = rest[i - n]
      <4>1. i \in 1..24 /\ ~(i <= n)
        BY <1>1
      <4> QED BY <3>1, <3>2, <4>1
    <3> QED BY <3>1, <3>2, <3>3, <3>4
  <2>6. quotient \o rest \in Words
    <3>1. quotient \o rest \in [1..24 -> T]
      BY <2>5, LenProperties
    <3> QED BY <3>1 DEF Words, T
  <2>7. ASSUME NEW i \in (n + 1)..24 PROVE (quotient \o rest)[i] = x[i]
    <3>1. i - n \in 1..(24 - n) /\ n + (i - n) = i
      BY <1>1
    <3> QED BY <2>4, <2>5, <3>1
  <2> QED BY <2>5, <2>6, <2>7
<1> HIDE DEF quotient, rest
<1>9. Divide(x, n).r = g[n] /\ Divide(x, n).x = quotient \o rest
  BY <1>3
<1>10. IsDivision(x, n, g)
  BY <1>1, <1>4, <1>6, <1>7, <1>8, <1>9 DEF IsDivision
<1> QED BY <1>10

LEMMA FunctionIsSequence ==
  ASSUME NEW T, NEW n \in Nat, NEW y \in [1..n -> T]
  PROVE  y \in Seq(T) /\ Len(y) = n
<1>1. \A i \in 1..n : y[i] \in T
  OBVIOUS
<1>2. y = [i \in 1..n |-> y[i]]
  OBVIOUS
<1> QED BY <1>1, <1>2

\* The words above the n-th are not set, and the n-th is at most t.
IsBelow(x, n, t) == (\A i \in (n + 1)..24 : x[i] = 0) /\ x[n] <= t

\* Multiplying back by P, with the remainder as first carry.
AreCarries(f, x, d) ==
    f = [i \in 0..24 |-> IF i = 0 THEN d ELSE (x[i] * P + f[i - 1]) \div Word]

LEMMA CarriesValues ==
  ASSUME NEW x, NEW d, NEW f, AreCarries(f, x, d)
  PROVE  f[0] = d /\ \A i \in 1..24 : f[i] = (x[i] * P + f[i - 1]) \div Word
<1>1. ASSUME NEW g, f = [i \in 0..24 |-> IF i = 0 THEN d ELSE (x[i] * P + g[i - 1]) \div Word]
      PROVE  f[0] = d /\ \A i \in 1..24 : f[i] = (x[i] * P + g[i - 1]) \div Word
  <2>1. 0 \in 0..24 /\ \A i \in 1..24 : i \in 0..24 /\ i # 0
    OBVIOUS
  <2> QED BY <1>1, <2>1, Zenon
<1>2. f = [i \in 0..24 |-> IF i = 0 THEN d ELSE (x[i] * P + f[i - 1]) \div Word]
  BY Zenon DEF AreCarries
<1> QED BY <1>1, <1>2, Zenon

\* Whoever satisfies the recursion has the same values.
LEMMA CarriesUnique ==
  ASSUME NEW x, NEW d, NEW f, NEW c, AreCarries(f, x, d), AreCarries(c, x, d)
  PROVE  \A i \in 0..24 : f[i] = c[i]
<1> DEFINE S == {i \in 0..24 : f[i] = c[i]}  n == 24
<1>1. n \in Nat /\ S = {i \in 0..n : f[i] = c[i]}
  OBVIOUS
<1>2. /\ f[0] = d /\ \A i \in 1..n : f[i] = (x[i] * P + f[i - 1]) \div Word
      /\ c[0] = d /\ \A i \in 1..n : c[i] = (x[i] * P + c[i - 1]) \div Word
  BY CarriesValues
<1>3. QED
  <2> SUFFICES \A i \in 0..n : i \in S
    BY <1>1
  <2> HIDE DEF n
  <2>1. 0 \in S
    BY <1>1, <1>2
  <2>2. ASSUME NEW i \in 0..(n - 1), i \in S PROVE i + 1 \in S
    <3>1. i + 1 \in 0..n /\ i + 1 \in 1..n /\ (i + 1) - 1 = i
      BY <1>1
    <3>2. f[i + 1] = (x[i + 1] * P + f[i]) \div Word /\ c[i + 1] = (x[i + 1] * P + c[i]) \div Word
      BY <1>2, <3>1
    <3> QED BY <1>1, <2>2, <3>1, <3>2
  <2> HIDE DEF S
  <2> QED BY <1>1, <2>1, <2>2, UpTo

\* A division is undone when no word above the n-th was set.
LEMMA MultipliedBack ==
  ASSUME NEW x \in Words, NEW n \in 1..24, \A i \in (n + 1)..24 : x[i] = 0
  PROVE  TimesModulus(Divide(x, n).x, Divide(x, n).r) = x
<1> DEFINE w == Divide(x, n).x  d == Divide(x, n).r
<1>1. PICK g : IsDivision(x, n, g)
  BY DivideIs
<1>2. /\ g \in [0..n -> 0..(P - 1)] /\ g[0] = 0 /\ d = g[n]
      /\ w \in Words
      /\ \A i \in 1..n : x[i] + g[n - i] * Word = w[i] * P + g[n + 1 - i]
      /\ \A i \in (n + 1)..24 : w[i] = x[i]
  BY <1>1 DEF IsDivision
<1> HIDE DEF w, d
<1>3. n \in Nat /\ n > 0 /\ n <= 24 /\ \A i \in 1..24 : x[i] \in 0..(Word - 1)
  BY DEF Words
<1> DEFINE c == [i \in 0..24 |-> IF i <= n THEN g[n - i] ELSE 0]
<1>4. ASSUME NEW i \in 1..24
      PROVE  c[i] = (w[i] * P + c[i - 1]) \div Word /\ x[i] = (w[i] * P + c[i - 1]) % Word
  <2>1. CASE i <= n
    <3>1. i \in 1..n /\ n - i \in 0..n /\ n - (i - 1) = n + 1 - i /\ i - 1 \in 0..24 /\ i \in 0..24
          /\ i - 1 <= n
      BY <1>3, <2>1
    <3>2. c[i] = g[n - i] /\ c[i - 1] = g[n + 1 - i]
      BY <2>1, <3>1
    <3> DEFINE e == g[n - i]  t == w[i] * P + c[i - 1]  z == x[i]
    <3>3. e \in 0..(P - 1) /\ z \in 0..(Word - 1) /\ z + e * Word = t
      BY <1>2, <1>3, <3>1, <3>2
    <3> HIDE DEF e, t, z, c
    <3>4. t \in Int /\ t = Word * e + z /\ e \in Int
      BY <3>3, Positive
    <3>5. t \div Word = e /\ t % Word = z
      BY <3>3, <3>4, Positive, DivisionUnique
    <3> QED BY <3>2, <3>5 DEF e, t, z
  <2>2. CASE ~(i <= n)
    <3>1. i \in (n + 1)..24 /\ i - 1 \in 0..24 /\ i \in 0..24 /\ (i - 1 <= n => n - (i - 1) = 0)
      BY <1>3, <2>2
    <3>2. c[i] = 0 /\ c[i - 1] = 0
      BY <1>2, <2>2, <3>1
    <3>3. x[i] = 0 /\ w[i] = 0
      BY <1>2, <3>1
    <3> HIDE DEF c
    <3>4. w[i] * P + c[i - 1] = 0
      BY <3>2, <3>3, Positive
    <3>5. 0 \div Word = 0 /\ 0 % Word = 0
      BY Positive
    <3> QED BY <3>2, <3>3, <3>4, <3>5
  <2> QED BY <2>1, <2>2
<1>5. c[0] = d
  BY <1>2, <1>3
<1>6. AreCarries(c, w, d)
  <2>1. c = [i \in 0..24 |-> c[i]]
    OBVIOUS
  <2> HIDE DEF c
  <2>2. ASSUME NEW i \in 0..24
        PROVE  c[i] = IF i = 0 THEN d ELSE (w[i] * P + c[i - 1]) \div Word
    <3>1. i # 0 => i \in 1..24
      OBVIOUS
    <3> QED BY <1>4, <1>5, <3>1
  <2> QED BY <2>1, <2>2, Zenon DEF AreCarries
<1> HIDE DEF c
<1> DEFINE f == CHOOSE h : AreCarries(h, w, d)
           back == [i \in 1..24 |-> (w[i] * P + f[i - 1]) % Word]
<1>7. AreCarries(f, w, d)
  BY <1>6
<1>8. TimesModulus(w, d) = back \o <<>>
  BY DEF TimesModulus, AreCarries
<1> HIDE DEF f
<1>9. ASSUME NEW i \in 1..24 PROVE back[i] = x[i]
  <2>1. i - 1 \in 0..24
    OBVIOUS
  <2>2. f[i - 1] = c[i - 1]
    BY <1>6, <1>7, <2>1, CarriesUnique
  <2> QED BY <1>4, <2>2
<1>10. back = x
  BY <1>9 DEF Words
<1> HIDE DEF back
<1>11. x \in Seq(0..(Word - 1))
  <2>1. 24 \in Nat
    OBVIOUS
  <2> QED BY <2>1, FunctionIsSequence DEF Words
<1>12. x \o <<>> = x
  BY <1>11, ConcatEmptySeq
<1> QED BY <1>8, <1>10, <1>12 DEF w, d

\* Quotients are not greater, and a smaller dividend has no greater one.
LEMMA QuotientBounds ==
  ASSUME NEW p \in Nat, p > 0, NEW q \in Nat, NEW r \in Nat, NEW t \in Nat, q * p + r <= t
  PROVE  q <= t \div p
<1> DEFINE u == t \div p  v == t % p
<1>1. u \in Int /\ v \in 0..(p - 1) /\ t = p * u + v
  BY Division
<1> HIDE DEF u, v
<1>2. q <= u
  <2> SUFFICES ASSUME q >= u + 1 PROVE FALSE
    BY <1>1
  <2>1. q * p >= (u + 1) * p /\ (u + 1) * p = u * p + p /\ u * p = p * u /\ q * p \in Nat
    BY <1>1
  <2> QED BY <1>1, <2>1
<1> QED BY <1>2 DEF u

\* What a division leaves is below the quotient of the bound; when that is zero, one
\* word less is set.
LEMMA DivisionLeaves ==
  ASSUME NEW x \in Words, NEW n \in 2..24, NEW t \in Nat, IsBelow(x, n, t)
  PROVE  /\ IsBelow(Divide(x, n).x, n, t \div P)
         /\ t < P => IsBelow(Divide(x, n).x, n - 1, (t * Word + (Word - 1)) \div P)
<1> DEFINE w == Divide(x, n).x  d == Divide(x, n).r
<1>1. n \in 1..24 /\ n \in Nat /\ n - 1 \in 1..n /\ n \in 1..n /\ n - 1 \in 1..24
  OBVIOUS
<1>2. PICK g : IsDivision(x, n, g)
  BY <1>1, DivideIs
<1>3. /\ g \in [0..n -> 0..(P - 1)] /\ g[0] = 0
      /\ w \in Words
      /\ \A i \in 1..n : x[i] + g[n - i] * Word = w[i] * P + g[n + 1 - i]
      /\ \A i \in (n + 1)..24 : w[i] = x[i]
  BY <1>2 DEF IsDivision
<1> HIDE DEF w, d
<1>4. (\A i \in (n + 1)..24 : w[i] = 0) /\ x[n] <= t
  BY <1>3 DEF IsBelow
<1>5. /\ x[n] \in Nat /\ x[n - 1] \in 0..(Word - 1) /\ w[n] \in Nat /\ w[n - 1] \in Nat
      /\ g[1] \in Nat /\ g[2] \in Nat
  <2>1. 1 \in 0..n /\ 2 \in 0..n /\ n \in 1..24
    BY <1>1
  <2>2. g[1] \in 0..(P - 1) /\ g[2] \in 0..(P - 1)
    BY <1>3, <2>1
  <2>3. /\ x[n] \in 0..(Word - 1) /\ x[n - 1] \in 0..(Word - 1)
        /\ w[n] \in 0..(Word - 1) /\ w[n - 1] \in 0..(Word - 1)
    BY <1>1, <1>3 DEF Words
  <2> QED BY <2>2, <2>3, Positive
<1>6. x[n] = w[n] * P + g[1]
  <2>1. n - n = 0 /\ n + 1 - n = 1 /\ g[0] * Word = 0
    BY <1>3, Positive
  <2>2. x[n] + g[n - n] * Word = w[n] * P + g[n + 1 - n]
    BY <1>1, <1>3
  <2>3. x[n] + g[0] * Word = w[n] * P + g[1]
    BY <2>1, <2>2
  <2> QED BY <1>5, <2>1, <2>3
<1>7. x[n - 1] + g[1] * Word = w[n - 1] * P + g[2]
  <2>1. n - (n - 1) = 1 /\ n + 1 - (n - 1) = 2
    OBVIOUS
  <2>2. x[n - 1] + g[n - (n - 1)] * Word = w[n - 1] * P + g[n + 1 - (n - 1)]
    BY <1>1, <1>3
  <2> QED BY <2>1, <2>2
<1>8. w[n] <= t \div P
  <2>1. w[n] * P + g[1] <= t
    BY <1>4, <1>6
  <2> QED BY <1>5, <2>1, Positive, QuotientBounds
<1>9. ASSUME t < P PROVE w[n] = 0 /\ w[n - 1] <= (t * Word + (Word - 1)) \div P
  <2>1. w[n] = 0
    <3> SUFFICES ASSUME w[n] >= 1 PROVE FALSE
      BY <1>5
    <3>1. w[n] * P >= 1 * P
      BY <1>5, Positive
    <3> QED BY <1>4, <1>5, <1>6, <1>9, <3>1, Positive
  <2>2. g[1] <= t
    BY <1>4, <1>5, <1>6, <2>1, Positive
  <2>3. g[1] * Word <= t * Word /\ t * Word \in Nat /\ g[1] * Word \in Nat
    BY <1>5, <2>2, Positive
  <2> DEFINE m == t * Word + (Word - 1)
  <2>4. w[n - 1] * P + g[2] <= m /\ m \in Nat
    BY <1>5, <1>7, <2>3, Positive
  <2> HIDE DEF m
  <2>5. w[n - 1] <= m \div P
    BY <1>5, <2>4, Positive, QuotientBounds
  <2> QED BY <2>1, <2>5 DEF m
<1>10. IsBelow(w, n, t \div P)
  BY <1>4, <1>8 DEF IsBelow
<1>11. ASSUME t < P PROVE IsBelow(w, n - 1, (t * Word + (Word - 1)) \div P)
  <2>1. \A i \in ((n - 1) + 1)..24 : w[i] = 0
    <3> SUFFICES ASSUME NEW i \in ((n - 1) + 1)..24 PROVE w[i] = 0
      OBVIOUS
    <3>1. i = n \/ i \in (n + 1)..24
      OBVIOUS
    <3> QED BY <1>4, <1>9, <1>11, <3>1
  <2> QED BY <1>9, <1>11, <2>1 DEF IsBelow
<1> QED BY <1>10, <1>11 DEF w

\* The greatest value of the highest word that a division looks at.
Tops == <<65535, 6, 46, 315, 2120, 14231, 1, 13, 93, 630, 4233, 28409, 2, 20, 140, 946, 6354,
          42641, 4>>

\* q cannot pass t.
Holds(q, p, t) == q < (t + 1) * p

LEMMA QuotientHolds ==
  ASSUME NEW p \in Nat, p > 0, NEW q \in Nat, NEW t \in Nat, Holds(q, p, t)
  PROVE  q \div p <= t
<1> DEFINE u == q \div p  v == q % p
<1>1. u \in Int /\ v \in 0..(p - 1) /\ q = p * u + v
  BY Division
<1> HIDE DEF u, v
<1>2. u <= t
  <2> SUFFICES ASSUME u >= t + 1 PROVE FALSE
    BY <1>1
  <2>1. p * u >= p * (t + 1) /\ p * (t + 1) = (t + 1) * p
    BY <1>1
  <2> QED BY <1>1, <2>1 DEF Holds
<1> QED BY <1>2 DEF u

\* The table max_xw leaves out no word that may be set.
LEMMA TableSuffices ==
  /\ max_xw[1] = 24 /\ Tops[1] = 65535
  /\ \A k \in 1..19 : max_xw[k] \in Int /\ max_xw[k] >= 2 /\ max_xw[k] <= 24 /\ Tops[k] \in Nat
  /\ \A k \in 1..18 :
        \/ max_xw[k + 1] = max_xw[k] /\ Tops[k] < (Tops[k + 1] + 1) * 9767
        \/ /\ max_xw[k + 1] = max_xw[k] - 1 /\ Tops[k] < 9767
           /\ Tops[k] * 65536 + 65535 < (Tops[k + 1] + 1) * 9767
BY DEF max_xw, Tops

LEMMA TableInWords ==
  ASSUME NEW k \in 1..19
  PROVE  max_xw[k] \in 2..24 /\ Tops[k] \in Nat
<1>1. max_xw[k] \in Int /\ max_xw[k] >= 2 /\ max_xw[k] <= 24 /\ Tops[k] \in Nat
  BY TableSuffices
<1> QED BY <1>1

-----------------------------------------------------------------------------
\* What is left and the remainders, after any number of divisions.
Divisions == [x : Words, c : Seq(0..(P - 1))]

LEMMA DividedIs ==
  ASSUME NEW acc \in Divisions, NEW n \in 1..24
  PROVE  /\ Divided(acc, n) \in Divisions
         /\ Divided(acc, n).x = Divide(acc.x, n).x
         /\ Divided(acc, n).c = Append(acc.c, Divide(acc.x, n).r)
<1> DEFINE w == Divide(acc.x, n).x  d == Divide(acc.x, n).r
<1>1. acc.x \in Words /\ acc.c \in Seq(0..(P - 1))
  BY DEF Divisions
<1>2. w \in Words /\ d \in 0..(P - 1)
  <2>1. PICK g : IsDivision(acc.x, n, g)
    BY <1>1, DivideIs
  <2>2. n \in 0..n
    OBVIOUS
  <2> QED BY <2>1, <2>2 DEF IsDivision
<1>3. Divided(acc, n) = [x |-> w, c |-> Append(acc.c, d)]
  BY DEF Divided
<1> HIDE DEF w, d
<1> DEFINE D == 0..(P - 1)
<1>4. acc.c \in Seq(D) /\ d \in D
  BY <1>1, <1>2
<1> HIDE DEF D
<1>5. Append(acc.c, d) \in Seq(D)
  BY <1>4
<1>6. [x |-> w, c |-> Append(acc.c, d)] \in Divisions
  BY <1>2, <1>5 DEF Divisions, D
<1> QED BY <1>3, <1>6 DEF w, d

\* f is the sequence of the divisions of a seed.
AreDivisions(f, seed) ==
    f = [i \in 0..19 |-> IF i = 0 THEN [x |-> seed, c |-> <<>>] ELSE Divided(f[i - 1], max_xw[i])]

LEMMA DivisionsExist ==
  ASSUME NEW seed \in Words
  PROVE  \E f \in [0..19 -> Divisions] : AreDivisions(f, seed)
<1> DEFINE base == [x |-> seed, c |-> <<>>]
           step == [u \in (1..19) \X Divisions |-> Divided(u[2], max_xw[u[1]])]
           n == 19
<1>1. base \in Divisions
  BY DEF Divisions
<1>2. ASSUME NEW k \in 1..19, NEW d \in Divisions
      PROVE  step[<<k, d>>] = Divided(d, max_xw[k]) /\ step[<<k, d>>] \in Divisions
  <2>1. step[<<k, d>>] = Divided(d, max_xw[k])
    OBVIOUS
  <2>2. max_xw[k] \in 1..24
    <3>1. max_xw[k] \in 2..24
      BY TableInWords
    <3> DEFINE m == max_xw[k]
    <3> HIDE DEF m
    <3>2. m \in 1..24
      BY <3>1 DEF m
    <3> QED BY <3>2 DEF m
  <2> QED BY <2>1, <2>2, DividedIs
<1> HIDE DEF step, base
<1>3. n \in Nat /\ n = 19
  OBVIOUS
<1>4. IsStep(step, n, Divisions)
  BY <1>2 DEF IsStep
<1> HIDE DEF n
<1>5. PICK f : IsRecursive(f, n, Divisions, base, step)
  BY <1>1, <1>3, <1>4, Recursion
<1>6. f \in [0..19 -> Divisions] /\ f[0] = base /\ \A k \in 1..19 : f[k] = step[<<k, f[k - 1]>>]
  BY <1>3, <1>5 DEF IsRecursive
<1>7. ASSUME NEW i \in 0..19
      PROVE  f[i] = IF i = 0 THEN base ELSE Divided(f[i - 1], max_xw[i])
  <2>1. CASE i = 0
    BY <1>6, <2>1
  <2>2. CASE i # 0
    <3>1. i \in 1..19 /\ i - 1 \in 0..19
      BY <2>2
    <3>2. f[i - 1] \in Divisions
      BY <1>6, <3>1
    <3> QED BY <1>2, <1>6, <2>2, <3>1, <3>2
  <2> QED BY <2>1, <2>2
<1>8. f = [i \in 0..19 |-> f[i]]
  BY <1>6
<1>9. AreDivisions(f, seed)
  BY <1>7, <1>8, Zenon DEF AreDivisions, base
<1> QED BY <1>6, <1>9

\* Along the divisions: as many remainders, each where it belongs, and no word set
\* above those that the next one looks at.
IsOnTable(f, k) ==
    /\ f[k] \in Divisions /\ Len(f[k].c) = k
    /\ \A j \in 1..k : f[k].c[j] = Divide(f[j - 1].x, max_xw[j]).r
    /\ k < 19 => IsBelow(f[k].x, max_xw[k + 1], Tops[k + 1])

\* What one division does to the bound on the highest word.
LEMMA NextBelow ==
  ASSUME NEW x \in Words, NEW k \in 1..18, IsBelow(x, max_xw[k], Tops[k])
  PROVE  IsBelow(Divide(x, max_xw[k]).x, max_xw[k + 1], Tops[k + 1])
<1> DEFINE n == max_xw[k]  m == max_xw[k + 1]  t == Tops[k]  u == Tops[k + 1]
           w == Divide(x, n).x
<1>1. n \in 2..24 /\ t \in Nat /\ m \in 2..24 /\ u \in Nat
  <2>1. k \in 1..19 /\ k + 1 \in 1..19
    OBVIOUS
  <2> HIDE DEF n, m, t, u
  <2> QED BY <2>1, TableInWords DEF n, m, t, u
<1>2. \/ m = n /\ t < (u + 1) * P
      \/ m = n - 1 /\ t < P /\ t * Word + (Word - 1) < (u + 1) * P
  <2>1. \/ m = n /\ t < (u + 1) * 9767
        \/ m = n - 1 /\ t < 9767 /\ t * 65536 + 65535 < (u + 1) * 9767
    BY TableSuffices
  <2>2. P = 9767 /\ Word = 65536
    BY DEF P, Word
  <2> HIDE DEF n, m, t, u
  <2>3. t * Word + (Word - 1) = t * 65536 + 65535
    BY <1>1, <2>2
  <2> QED BY <2>1, <2>2, <2>3
<1> HIDE DEF w, n, m, t, u
<1>3. IsBelow(x, n, t)
  BY DEF n, t
<1>4. IsBelow(w, n, t \div P) /\ (t < P => IsBelow(w, n - 1, (t * Word + (Word - 1)) \div P))
  BY <1>1, <1>3, DivisionLeaves DEF w
<1>5. w \in Words /\ n \in 1..24 /\ n - 1 \in 1..24
  <2>1. n \in 1..24 /\ n - 1 \in 1..24
    BY <1>1
  <2>2. \E g : IsDivision(x, n, g)
    BY <2>1, DivideIs
  <2> QED BY <2>1, <2>2 DEF IsDivision, w
<1>6. CASE m = n /\ t < (u + 1) * P
  <2>1. t \div P <= u /\ t \div P \in Int
    BY <1>1, <1>6, Positive, QuotientHolds DEF Holds
  <2>2. w[n] \in Nat
    BY <1>5, Positive DEF Words
  <2>3. IsBelow(w, m, u)
    <3>1. w[n] <= t \div P
      BY <1>4 DEF IsBelow
    <3>2. w[n] <= u
      BY <1>1, <2>1, <2>2, <3>1
    <3> QED BY <1>4, <1>6, <3>2 DEF IsBelow
  <2> QED BY <2>3 DEF w, m, u, n
<1>7. CASE m = n - 1 /\ t < P /\ t * Word + (Word - 1) < (u + 1) * P
  <2> DEFINE q == t * Word + (Word - 1)
  <2>1. q \in Nat
    BY <1>1, Positive
  <2>2. Holds(q, P, u)
    BY <1>7 DEF Holds
  <2>3. IsBelow(w, n - 1, q \div P)
    BY <1>4, <1>7
  <2> HIDE DEF q
  <2>4. q \div P <= u /\ q \div P \in Int
    BY <1>1, <2>1, <2>2, Positive, QuotientHolds
  <2>5. w[m] \in Nat
    BY <1>5, <1>7, Positive DEF Words
  <2>6. IsBelow(w, m, u)
    <3>1. w[m] <= q \div P
      BY <1>7, <2>3 DEF IsBelow
    <3>2. w[m] <= u
      BY <1>1, <2>4, <2>5, <3>1
    <3> QED BY <1>7, <2>3, <3>2 DEF IsBelow
  <2> QED BY <2>6 DEF w, m, u, n
<1> QED BY <1>2, <1>6, <1>7

\* All the divisions of a seed are as the table says.
LEMMA OnTable ==
  ASSUME NEW seed \in Words, NEW f, AreDivisions(f, seed)
  PROVE  f[0].x = seed /\ \A k \in 0..19 : IsOnTable(f, k)
<1> DEFINE S == {k \in 0..19 : IsOnTable(f, k)}
           n == 19
<1>1. n \in Nat /\ n = 19
  OBVIOUS
<1>2. /\ f[0] = [x |-> seed, c |-> <<>>]
      /\ \A k \in 1..n : f[k] = Divided(f[k - 1], max_xw[k])
  <2>1. f = [i \in 0..n |-> IF i = 0 THEN [x |-> seed, c |-> <<>>] ELSE Divided(f[i - 1], max_xw[i])]
    BY DEF AreDivisions
  <2> HIDE DEF n
  <2>2. f[0] = [x |-> seed, c |-> <<>>]
    BY <1>1, <2>1
  <2>3. ASSUME NEW k \in 1..n PROVE f[k] = Divided(f[k - 1], max_xw[k])
    <3>1. k \in 0..n /\ k # 0
      OBVIOUS
    <3> QED BY <2>1, <3>1
  <2> QED BY <2>2, <2>3
<1> HIDE DEF n
<1>3. IsOnTable(f, 0)
  <2>1. f[0] \in Divisions /\ f[0].x = seed /\ f[0].c = <<>>
    BY <1>2 DEF Divisions
  <2>2. IsBelow(seed, max_xw[0 + 1], Tops[0 + 1])
    <3>1. max_xw[0 + 1] = 24 /\ Tops[0 + 1] = Word - 1
      <4>1. Word - 1 = 65535 /\ 0 + 1 = 1
        BY DEF Word
      <4> QED BY <4>1, TableSuffices
    <3>2. seed[24] \in 0..(Word - 1)
      BY DEF Words
    <3>3. seed[24] <= Word - 1
      BY <3>2, Positive
    <3>4. \A i \in (24 + 1)..24 : seed[i] = 0
      OBVIOUS
    <3> QED BY <3>1, <3>3, <3>4 DEF IsBelow
  <2>3. Len(f[0].c) = 0 /\ \A j \in 1..0 : f[0].c[j] = Divide(f[j - 1].x, max_xw[j]).r
    BY <2>1
  <2> QED BY <2>1, <2>2, <2>3 DEF IsOnTable
<1>4. ASSUME NEW k \in 0..(n - 1), IsOnTable(f, k) PROVE IsOnTable(f, k + 1)
  <2> DEFINE m == max_xw[k + 1]  d == Divide(f[k].x, max_xw[k + 1]).r
  <2>1. k + 1 \in 1..19 /\ k + 1 \in 1..n /\ (k + 1) - 1 = k /\ k < 19 /\ k \in Nat
    BY <1>1
  <2>2. f[k] \in Divisions /\ f[k].x \in Words /\ f[k].c \in Seq(0..(P - 1)) /\ Len(f[k].c) = k
    BY <1>4 DEF IsOnTable, Divisions
  <2>3. m \in 2..24
    BY <2>1, TableInWords
  <2>4. m \in 1..24
    <3> HIDE DEF m
    <3> QED BY <2>3
  <2>5. f[k + 1] = Divided(f[k], m)
    BY <1>2, <2>1
  <2>6. f[k + 1] \in Divisions /\ f[k + 1].x = Divide(f[k].x, m).x /\ f[k + 1].c = Append(f[k].c, d)
    <3> HIDE DEF m
    <3>1. d = Divide(f[k].x, m).r
      BY DEF m
    <3> HIDE DEF d
    <3> QED BY <2>2, <2>4, <2>5, <3>1, DividedIs
  <2>7. Len(f[k + 1].c) = k + 1
    BY <2>2, <2>6
  <2>8. ASSUME NEW j \in 1..(k + 1) PROVE f[k + 1].c[j] = Divide(f[j - 1].x, max_xw[j]).r
    <3>1. CASE j = k + 1
      <4>1. f[k + 1].c[k + 1] = d
        <5> DEFINE s == f[k].c
        <5> HIDE DEF d, s
        <5>1. s \in Seq(0..(P - 1)) /\ Len(s) = k
          BY <2>2 DEF s
        <5>2. Append(s, d)[k + 1] = d
          BY <5>1
        <5> QED BY <2>6, <5>2 DEF s
      <4> QED BY <2>1, <3>1, <4>1
    <3>2. CASE j # k + 1
      <4>1. j \in 1..k
        BY <2>1, <3>2
      <4>2. f[k + 1].c[j] = f[k].c[j]
        <5> DEFINE s == f[k].c
        <5> HIDE DEF d, s
        <5>1. s \in Seq(0..(P - 1)) /\ Len(s) = k
          BY <2>2 DEF s
        <5>2. Append(s, d)[j] = s[j]
          BY <4>1, <5>1
        <5> QED BY <2>6, <5>2 DEF s
      <4>3. f[k].c[j] = Divide(f[j - 1].x, max_xw[j]).r
        BY <1>4, <4>1 DEF IsOnTable
      <4> QED BY <4>2, <4>3
    <3> QED BY <3>1, <3>2
  <2>9. ASSUME k + 1 < 19 PROVE IsBelow(f[k + 1].x, max_xw[(k + 1) + 1], Tops[(k + 1) + 1])
    <3>1. IsBelow(f[k].x, max_xw[k + 1], Tops[k + 1])
      BY <1>4, <2>1 DEF IsOnTable
    <3>2. k + 1 \in 1..18
      BY <2>1, <2>9
    <3> DEFINE h == k + 1  x == f[k].x
    <3>3. x \in Words /\ h \in 1..18 /\ IsBelow(x, max_xw[h], Tops[h])
      BY <2>2, <3>1, <3>2
    <3> HIDE DEF h, x, m, d
    <3>4. IsBelow(Divide(x, max_xw[h]).x, max_xw[h + 1], Tops[h + 1])
      BY <3>3, NextBelow
    <3> QED BY <2>6, <3>4 DEF h, x, m
  <2> QED BY <2>6, <2>7, <2>8, <2>9 DEF IsOnTable
<1> HIDE DEF S
<1>5. \A k \in 0..n : k \in S
  <2>1. 0 \in S
    BY <1>3 DEF S
  <2>2. ASSUME NEW k \in 0..(n - 1), k \in S PROVE k + 1 \in S
    <3>1. k \in 0..(n - 1) /\ IsOnTable(f, k)
      BY <2>2 DEF S
    <3>2. k + 1 \in 0..19
      BY <1>1
    <3> QED BY <1>4, <3>1, <3>2 DEF S
  <2> QED BY <1>1, <2>1, <2>2, UpTo
<1>6. f[0].x = seed
  BY <1>2
<1> QED BY <1>1, <1>5, <1>6 DEF S

\* Each division of a seed is undone by a multiplication.
LEMMA EachUndone ==
  ASSUME NEW seed \in Words, NEW f, AreDivisions(f, seed), NEW k \in 1..19
  PROVE  TimesModulus(f[k].x, f[19].c[k]) = f[k - 1].x
<1> DEFINE m == max_xw[k]  x == f[k - 1].x
<1>1. k - 1 \in 0..19 /\ k - 1 < 19 /\ (k - 1) + 1 = k /\ k \in 0..19 /\ k \in 1..k /\ 19 \in 0..19
      /\ k # 0
  OBVIOUS
<1>2. f[k] = Divided(f[k - 1], max_xw[k])
  BY <1>1 DEF AreDivisions
<1>3. IsOnTable(f, k - 1) /\ IsOnTable(f, 19)
  BY <1>1, OnTable
<1>4. f[k - 1] \in Divisions /\ x \in Words /\ IsBelow(x, m, Tops[k])
  BY <1>1, <1>3 DEF IsOnTable, Divisions
<1>5. m \in 2..24
  BY TableInWords
<1> HIDE DEF m
<1>6. m \in 1..24 /\ \A i \in (m + 1)..24 : x[i] = 0
  BY <1>4, <1>5 DEF IsBelow
<1>7. f[k].x = Divide(x, m).x
  BY <1>2, <1>4, <1>6, DividedIs DEF m
<1>8. f[19].c[k] = Divide(x, m).r
  BY <1>3 DEF IsOnTable, m
<1> HIDE DEF x
<1>9. TimesModulus(Divide(x, m).x, Divide(x, m).r) = x
  BY <1>4, <1>6, MultipliedBack
<1> QED BY <1>7, <1>8, <1>9 DEF x

\* h is the sequence of the numbers that Rebuilt goes through.
AreNumbers(h, digits, rest) ==
    h = [i \in 0..19 |-> IF i = 0 THEN rest ELSE TimesModulus(h[i - 1], digits[19 - i])]

LEMMA NumbersValues ==
  ASSUME NEW digits, NEW rest, NEW h, AreNumbers(h, digits, rest)
  PROVE  h[0] = rest /\ \A i \in 1..19 : h[i] = TimesModulus(h[i - 1], digits[19 - i])
<1>1. ASSUME NEW g, h = [i \in 0..19 |-> IF i = 0 THEN rest
                                         ELSE TimesModulus(g[i - 1], digits[19 - i])]
      PROVE  h[0] = rest /\ \A i \in 1..19 : h[i] = TimesModulus(g[i - 1], digits[19 - i])
  <2>1. 0 \in 0..19 /\ \A i \in 1..19 : i \in 0..19 /\ i # 0
    OBVIOUS
  <2> QED BY <1>1, <2>1, Zenon
<1>2. h = [i \in 0..19 |-> IF i = 0 THEN rest ELSE TimesModulus(h[i - 1], digits[19 - i])]
  BY Zenon DEF AreNumbers
<1> QED BY <1>1, <1>2, Zenon

LEMMA NumbersUnique ==
  ASSUME NEW digits, NEW rest, NEW h, NEW g,
         AreNumbers(h, digits, rest), AreNumbers(g, digits, rest)
  PROVE  h[19] = g[19]
<1> DEFINE S == {i \in 0..19 : h[i] = g[i]}  n == 19
<1>1. n \in Nat /\ n = 19 /\ S = {i \in 0..n : h[i] = g[i]}
  OBVIOUS
<1>2. /\ h[0] = rest /\ \A i \in 1..n : h[i] = TimesModulus(h[i - 1], digits[19 - i])
      /\ g[0] = rest /\ \A i \in 1..n : g[i] = TimesModulus(g[i - 1], digits[19 - i])
  BY NumbersValues
<1>3. \A i \in 0..n : i \in S
  <2> HIDE DEF n
  <2>1. 0 \in S
    BY <1>1, <1>2
  <2>2. ASSUME NEW i \in 0..(n - 1), i \in S PROVE i + 1 \in S
    <3>1. i + 1 \in 0..n /\ i + 1 \in 1..n /\ (i + 1) - 1 = i
      BY <1>1
    <3>2. /\ h[i + 1] = TimesModulus(h[i], digits[19 - (i + 1)])
          /\ g[i + 1] = TimesModulus(g[i], digits[19 - (i + 1)])
      BY <1>2, <3>1
    <3> QED BY <1>1, <2>2, <3>1, <3>2
  <2> HIDE DEF S
  <2> QED BY <1>1, <2>1, <2>2, UpTo
<1> QED BY <1>1, <1>3

\* The element has the remainders as coefficients.
LEMMA MappedTo ==
  ASSUME NEW seed \in Words, NEW f, AreDivisions(f, seed), Digits(seed) = f[19]
  PROVE  \A k \in 1..19 : gf_map_to_base(seed)[k - 1] = f[19].c[k]
<1> DEFINE c == f[19].c  D == 0..(P - 1)
           digits == [i \in Degrees |-> c[i + 1]]
           a == [i \in Degrees |-> digits[i] % P]
<1>1. c \in Seq(D) /\ Len(c) = 19
  <2>1. 19 \in 0..19
    OBVIOUS
  <2>2. IsOnTable(f, 19)
    BY <2>1, OnTable
  <2> QED BY <2>2 DEF IsOnTable, Divisions
<1>2. gf_map_to_base(seed) = Poly(digits)
  BY DEF gf_map_to_base
<1> HIDE DEF c
<1>3. ASSUME NEW i \in Degrees PROVE a[i] = c[i + 1] /\ c[i + 1] \in D
  <2>1. i + 1 \in 1..19
    BY DEF Degrees
  <2> HIDE DEF D
  <2>2. c[i + 1] \in D
    <3>1. i + 1 \in 1..Len(c)
      BY <1>1, <2>1
    <3> QED BY <1>1, <3>1, ElementOfSeq
  <2> DEFINE e == c[i + 1]
  <2>3. e \in 0..(P - 1)
    BY <2>2 DEF D
  <2>4. a[i] = e % P
    OBVIOUS
  <2> HIDE DEF e, a
  <2>5. e % P = e
    BY <2>3, Positive
  <2> QED BY <2>2, <2>4, <2>5 DEF e
<1>4. a \in Polynomials
  <2>1. \A i \in Degrees : a[i] \in D
    BY <1>3
  <2>2. a = [i \in Degrees |-> a[i]]
    OBVIOUS
  <2> HIDE DEF a
  <2> QED BY <2>1, <2>2 DEF Polynomials
<1>5. Poly(digits) = a
  BY <1>4 DEF Poly
<1> HIDE DEF a, digits
<1>6. ASSUME NEW k \in 1..19 PROVE gf_map_to_base(seed)[k - 1] = c[k]
  <2>1. k - 1 \in Degrees /\ (k - 1) + 1 = k
    BY DEF Degrees
  <2>2. a[k - 1] = c[(k - 1) + 1]
    BY <1>3, <2>1
  <2> QED BY <1>2, <1>5, <2>1, <2>2
<1> QED BY <1>6 DEF c

\* No seed loses anything when it is mapped to a field element: the divisions of
\* gf_map_to_base, each on as few words as max_xw says, are those of the whole number.
THEOREM SeedRebuilt ==
  ASSUME NEW seed \in Words
  PROVE  Rebuilt(gf_map_to_base(seed), Digits(seed).x) = seed
<1> DEFINE f == CHOOSE h : AreDivisions(h, seed)
           digits == gf_map_to_base(seed)
           rest == Digits(seed).x
           g == [i \in 0..19 |-> f[19 - i].x]
           n == CHOOSE h : AreNumbers(h, digits, rest)
<1>1. AreDivisions(f, seed)
  BY DivisionsExist
<1>2. Digits(seed) = f[19]
  BY DEF Digits, AreDivisions
<1> HIDE DEF f
<1>3. \A k \in 1..19 : digits[k - 1] = f[19].c[k]
  BY <1>1, <1>2, MappedTo
<1> HIDE DEF digits
<1>4. AreNumbers(g, digits, rest)
  <2>1. ASSUME NEW i \in 0..19
        PROVE  g[i] = IF i = 0 THEN rest ELSE TimesModulus(g[i - 1], digits[19 - i])
    <3>1. CASE i = 0
      <4>1. g[0] = f[19 - 0].x /\ 19 - 0 = 19
        OBVIOUS
      <4> QED BY <1>2, <3>1, <4>1
    <3>2. CASE i # 0
      <4> DEFINE k == 20 - i
      <4>1. k \in 1..19 /\ k - 1 = 19 - i /\ 19 - (i - 1) = k /\ i - 1 \in 0..19
        BY <3>2
      <4>2. g[i] = f[k - 1].x /\ g[i - 1] = f[k].x /\ digits[19 - i] = f[19].c[k]
        BY <1>3, <4>1
      <4> HIDE DEF k, g
      <4>3. TimesModulus(f[k].x, f[19].c[k]) = f[k - 1].x
        BY <1>1, <4>1, EachUndone
      <4> QED BY <3>2, <4>2, <4>3
    <3> QED BY <3>1, <3>2
  <2>2. g = [i \in 0..19 |-> g[i]]
    OBVIOUS
  <2> HIDE DEF g
  <2> QED BY <2>1, <2>2, Zenon DEF AreNumbers
<1>5. g[19] = seed
  <2>1. 19 - 19 = 0 /\ 19 \in 0..19
    OBVIOUS
  <2>2. f[0].x = seed
    BY <1>1, OnTable
  <2> QED BY <2>1, <2>2
<1> HIDE DEF g, rest
<1>6. AreNumbers(n, digits, rest)
  BY <1>4
<1>7. Rebuilt(digits, rest) = n[19]
  BY DEF Rebuilt, AreNumbers
<1> HIDE DEF n
<1>8. n[19] = g[19]
  BY <1>4, <1>6, NumbersUnique
<1> QED BY <1>5, <1>7, <1>8 DEF digits, rest

-----------------------------------------------------------------------------
(* The codec *)

\* The powers of two of the codec.
LEMMA Powers ==
  /\ 2^2 = 4 /\ 2^3 = 8 /\ 2^5 = 32 /\ 2^6 = 64 /\ 2^7 = 128 /\ 2^8 = 256 /\ 2^9 = 512
  /\ 2^10 = 1024 /\ 2^11 = 2048
BY SMT

\* "For all values x in 0..127, floor(x/5) = floor(x*103/512)."
LEMMA FifthIs == ASSUME NEW w \in Nat, w < 128 PROVE FifthOf(w) = w \div 5
<1>1. (w * 103) \div 512 = w \div 5
  BY SMT
<1> QED BY <1>1, Powers DEF FifthOf

\* Three numbers of 0..4 in base 5.
LEMMA BaseFive ==
  ASSUME NEW h0 \in Nat, h0 <= 4, NEW h1 \in Nat, h1 <= 4, NEW h2 \in Nat, h2 <= 4,
         NEW w, w = h0 + 5 * h1 + 25 * h2
  PROVE  /\ w \in Nat /\ w < 128 /\ w \div 5 \in Nat /\ w \div 5 < 128
         /\ w - 5 * (w \div 5) = h0 /\ (w \div 5) - 5 * ((w \div 5) \div 5) = h1
         /\ (w \div 5) \div 5 = h2
BY SMT

LEMMA GroupRead ==
  ASSUME NEW x0 \in Nat, x0 < P, NEW x1 \in Nat, x1 < P, NEW x2 \in Nat, x2 < P
  PROVE  GroupCoefficients(GroupBytes(x0, x1, x2)) = <<x0, x1, x2>>
<1> DEFINE h0 == x0 \div 2048  h1 == x1 \div 2048  h2 == x2 \div 2048
           w == h0 + 5 * h1 + 25 * h2
           b1 == x0 % 256
           b2 == ((x0 \div 256) % 8) + (x1 % 32) * 8
           b3 == ((x1 \div 32) % 64) + (x2 % 4) * 64
           b4 == (x2 \div 4) % 256
           b5 == ((x2 \div 1024) % 2) + w * 2
           b == <<b1, b2, b3, b4, b5>>
           d == FifthOf(w)
           e == FifthOf(d)
<1>1. GroupBytes(x0, x1, x2) = b
  BY Powers DEF GroupBytes
<1>2. h0 \in Nat /\ h0 <= 4 /\ h1 \in Nat /\ h1 <= 4 /\ h2 \in Nat /\ h2 <= 4
  <2>1. x0 < 9767 /\ x1 < 9767 /\ x2 < 9767
    BY DEF P
  <2> QED BY <2>1
<1>3. /\ b1 + (b2 % 8) * 256 + h0 * 2048 = x0
      /\ (b2 \div 8) + (b3 % 64) * 32 + h1 * 2048 = x1
  BY SMT
<1>4. (b3 \div 64) + b4 * 4 + ((x2 \div 1024) % 2) * 1024 + h2 * 2048 = x2
  BY SMT
<1>5. b5 \div 2 = w /\ b5 % 2 = (x2 \div 1024) % 2
  <2>1. (x2 \div 1024) % 2 \in {0, 1} /\ w \in Nat
    BY <1>2
  <2> DEFINE u == (x2 \div 1024) % 2
  <2> HIDE DEF u, w
  <2>2. (u + w * 2) \div 2 = w /\ (u + w * 2) % 2 = u
    BY <2>1 DEF u
  <2> QED BY <2>2 DEF u
<1> HIDE DEF h0, h1, h2, b1, b2, b3, b4, b5
<1>6. w \div 5 = d /\ d \div 5 = e /\ w - 5 * d = h0 /\ d - 5 * e = h1 /\ e = h2
  <2>1. /\ w \in Nat /\ w < 128 /\ w \div 5 \in Nat /\ w \div 5 < 128
        /\ w - 5 * (w \div 5) = h0 /\ (w \div 5) - 5 * ((w \div 5) \div 5) = h1
        /\ (w \div 5) \div 5 = h2
    <3>1. w = h0 + 5 * h1 + 25 * h2
      OBVIOUS
    <3> HIDE DEF w
    <3> QED BY <1>2, <3>1, BaseFive
  <2> HIDE DEF w
  <2>2. d = w \div 5
    BY <2>1, FifthIs
  <2> HIDE DEF d
  <2>3. e = d \div 5
    BY <2>1, <2>2, FifthIs
  <2> HIDE DEF e
  <2>4. w - 5 * d = h0
    BY <2>1, <2>2, Zenon
  <2>5. d - 5 * e = h1
    BY <2>1, <2>2, <2>3, Zenon
  <2>6. e = h2
    BY <2>1, <2>2, <2>3, Zenon
  <2> QED BY <2>2, <2>3, <2>4, <2>5, <2>6, Zenon
<1> HIDE DEF d, e, w
<1>7. GroupCoefficients(b) =
         <<b1 + (b2 % 8) * 256 + (w - 5 * d) * 2048,
           b2 \div 8 + (b3 % 64) * 32 + (d - 5 * e) * 2048,
           b3 \div 64 + b4 * 4 + (b5 % 2) * 1024 + e * 2048>>
  BY <1>5, Powers DEF GroupCoefficients, d, e
<1> QED BY <1>1, <1>3, <1>4, <1>5, <1>6, <1>7

\* The bytes are those of the coefficients that are read from them.
IsWritten(b, b1, b2, b3, b4, b5) ==
    \E x0, x1, x2 \in Nat : /\ GroupCoefficients(b) = <<x0, x1, x2>>
                            /\ GroupBytes(x0, x1, x2) = <<b1, b2, b3, b4, b5>>

LEMMA GroupWritten ==
  ASSUME NEW b1 \in Nat, b1 < 256, NEW b2 \in Nat, b2 < 256, NEW b3 \in Nat, b3 < 256,
         NEW b4 \in Nat, b4 < 256, NEW b5 \in Nat, b5 < 256,
         NEW b, b[1] = b1, b[2] = b2, b[3] = b3, b[4] = b4, b[5] = b5
  PROVE  IsWritten(b, b1, b2, b3, b4, b5)
<1> DEFINE w == b5 \div 2  d == FifthOf(w)  e == FifthOf(d)
           x0 == b1 + (b2 % 8) * 256 + (w - 5 * d) * 2048
           x1 == (b2 \div 8) + (b3 % 64) * 32 + (d - 5 * e) * 2048
           x2 == (b3 \div 64) + b4 * 4 + (b5 % 2) * 1024 + e * 2048
<1>1. GroupCoefficients(b) = <<x0, x1, x2>>
  BY Powers DEF GroupCoefficients
<1>2. w \in Nat /\ w < 128
  BY SMT
<1>3. d = w \div 5 /\ d \in Nat /\ d < 128 /\ e = d \div 5 /\ e \in Nat
  <2> HIDE DEF w
  <2>1. d = w \div 5 /\ w \div 5 \in Nat /\ w \div 5 < 128
    BY <1>2, FifthIs
  <2> HIDE DEF d
  <2>2. e = d \div 5 /\ d \div 5 \in Nat
    BY <2>1, FifthIs
  <2> QED BY <2>1, <2>2
<1> HIDE DEF d, e
<1>4. /\ w - 5 * d \in Nat /\ w - 5 * d <= 4 /\ d - 5 * e \in Nat /\ d - 5 * e <= 4
      /\ w = (w - 5 * d) + 5 * (d - 5 * e) + 25 * e
  <2> HIDE DEF w
  <2> QED BY <1>2, <1>3
<1> DEFINE h0 == w - 5 * d  h1 == d - 5 * e
<1>6. h0 \in Nat /\ h0 <= 4 /\ h1 \in Nat /\ h1 <= 4 /\ w = h0 + 5 * h1 + 25 * e
  BY <1>4
<1>7. x0 = b1 + (b2 % 8) * 256 + h0 * 2048 /\ x1 = (b2 \div 8) + (b3 % 64) * 32 + h1 * 2048
  OBVIOUS
<1>8. b5 = (b5 % 2) + w * 2 /\ b5 % 2 \in {0, 1}
  BY SMT
<1> HIDE DEF h0, h1, w, x0, x1, x2
<1>9. /\ x0 \in Nat /\ x0 \div 2048 = h0 /\ x0 % 256 = b1 /\ (x0 \div 256) % 8 = b2 % 8
  BY <1>6, <1>7
<1>10. /\ x1 \in Nat /\ x1 \div 2048 = h1 /\ x1 % 32 = b2 \div 8 /\ (x1 \div 32) % 64 = b3 % 64
  BY <1>6, <1>7
<1>11. /\ x2 \in Nat /\ x2 \div 2048 = e /\ x2 % 4 = b3 \div 64 /\ (x2 \div 4) % 256 = b4
       /\ (x2 \div 1024) % 2 = b5 % 2
  <2> DEFINE u == b5 % 2  v == b3 \div 64
  <2>1. u \in {0, 1} /\ v \in Nat /\ v < 4 /\ x2 = v + b4 * 4 + u * 1024 + e * 2048
    BY <1>8 DEF x2
  <2> HIDE DEF u, v
  <2> DEFINE m == u + 2 * e  t == b4 + 256 * m
  <2>2. m \in Nat /\ t \in Nat /\ x2 = 4 * t + v /\ v \in 0..(4 - 1) /\ x2 \in Nat
        /\ x2 = 1024 * m + (v + 4 * b4) /\ v + 4 * b4 \in 0..(1024 - 1)
    BY <1>3, <2>1
  <2>3. x2 \div 4 = t /\ x2 % 4 = v
    <3> HIDE DEF t
    <3> QED BY <2>2, DivisionUnique
  <2>4. x2 \div 1024 = m
    <3> DEFINE r == v + 4 * b4
    <3>1. r \in 0..(1024 - 1) /\ x2 = 1024 * m + r
      BY <2>2
    <3> HIDE DEF r, m
    <3>2. m \in Int /\ x2 \in Int /\ 1024 \in Nat /\ 1024 > 0
      BY <2>2
    <3> QED BY <3>1, <3>2, DivisionUnique
  <2>5. t % 256 = b4
    <3>1. b4 \in 0..(256 - 1) /\ t \in Int /\ m \in Int /\ t = 256 * m + b4
      BY <2>2
    <3> HIDE DEF t, m
    <3> QED BY <3>1, DivisionUnique
  <2>6. m % 2 = u /\ m \div 2 = e
    BY <1>3, <2>1
  <2>7. x2 \div 2048 = e
    <3> DEFINE r == v + 4 * b4 + 1024 * u
    <3>1. r \in 0..(2048 - 1) /\ x2 = 2048 * e + r
      BY <1>3, <2>1
    <3> HIDE DEF r, m, t
    <3>2. e \in Int /\ x2 \in Int /\ 2048 \in Nat /\ 2048 > 0
      BY <1>3, <2>2
    <3> QED BY <3>1, <3>2, DivisionUnique
  <2> QED BY <2>2, <2>3, <2>4, <2>5, <2>6, <2>7 DEF u, v
<1>12. (b2 % 8) + (b2 \div 8) * 8 = b2 /\ (b3 % 64) + (b3 \div 64) * 64 = b3
  BY SMT
<1>13. GroupBytes(x0, x1, x2) =
         <<x0 % 256, ((x0 \div 256) % 8) + (x1 % 32) * 8, ((x1 \div 32) % 64) + (x2 % 4) * 64,
           (x2 \div 4) % 256,
           ((x2 \div 1024) % 2) + (x0 \div 2048 + 5 * (x1 \div 2048) + 25 * (x2 \div 2048)) * 2>>
  BY Powers DEF GroupBytes
<1>14. GroupBytes(x0, x1, x2) = <<b1, b2, b3, b4, b5>>
  <2> DEFINE p1 == x0 % 256  p2 == (x0 \div 256) % 8  p3 == x1 % 32  p4 == (x1 \div 32) % 64
             p5 == x2 % 4  p6 == (x2 \div 4) % 256  p7 == (x2 \div 1024) % 2
             g0 == x0 \div 2048  g1 == x1 \div 2048  g2 == x2 \div 2048
             u == b5 % 2
  <2>1. GroupBytes(x0, x1, x2) = <<p1, p2 + p3 * 8, p4 + p5 * 64, p6, p7 + (g0 + 5 * g1 + 25 * g2) * 2>>
    BY <1>13
  <2>2. /\ p1 = b1 /\ p2 = b2 % 8 /\ p3 = b2 \div 8 /\ p4 = b3 % 64 /\ p5 = b3 \div 64
        /\ p6 = b4 /\ p7 = u /\ g0 = h0 /\ g1 = h1 /\ g2 = e
    BY <1>9, <1>10, <1>11
  <2>3. b5 = u + w * 2
    BY <1>8
  <2> HIDE DEF p1, p2, p3, p4, p5, p6, p7, g0, g1, g2, u
  <2>4. p2 + p3 * 8 = b2 /\ p4 + p5 * 64 = b3
    BY <1>12, <2>2
  <2>5. g0 + 5 * g1 + 25 * g2 = w
    BY <1>6, <2>2
  <2>6. p7 + (g0 + 5 * g1 + 25 * g2) * 2 = b5
    BY <2>2, <2>3, <2>5
  <2> QED BY <2>1, <2>2, <2>4, <2>6
<1>15. x0 \in Nat /\ x1 \in Nat /\ x2 \in Nat
  BY <1>9, <1>10, <1>11
<1> QED BY <1>1, <1>14, <1>15 DEF IsWritten

-----------------------------------------------------------------------------
\* Coefficients are taken modulo P.
LEMMA PolyIs ==
  ASSUME NEW f, \A i \in Degrees : f[i] \in Int
  PROVE  /\ Poly(f) \in Polynomials /\ \A i \in Degrees : Poly(f)[i] = f[i] % P
         /\ (\A i \in Degrees : f[i] \in 0..(P - 1)) => \A i \in Degrees : Poly(f)[i] = f[i]
<1> DEFINE a == [i \in Degrees |-> f[i] % P]  D == 0..(P - 1)
<1>1. ASSUME NEW i \in Degrees PROVE a[i] = f[i] % P /\ a[i] \in D
  <2> DEFINE x == f[i]
  <2>1. x \in Int /\ a[i] = x % P
    OBVIOUS
  <2> HIDE DEF x, a
  <2>2. x % P \in 0..(P - 1)
    BY <2>1, Positive
  <2> QED BY <2>1, <2>2 DEF x
<1>2. a = [i \in Degrees |-> a[i]]
  OBVIOUS
<1>3. Poly(f) = CASE a \in Polynomials -> a
  BY DEF Poly
<1> HIDE DEF a
<1>4. a \in Polynomials
  <2> HIDE DEF D
  <2> QED BY <1>1, <1>2 DEF Polynomials, D
<1>5. Poly(f) = a
  BY <1>3, <1>4
<1>6. ASSUME NEW i \in Degrees, f[i] \in 0..(P - 1) PROVE f[i] % P = f[i]
  <2> DEFINE x == f[i]
  <2>1. x \in 0..(P - 1)
    BY <1>6
  <2> HIDE DEF x
  <2>2. x % P = x
    BY <2>1, Positive
  <2> QED BY <2>2 DEF x
<1> QED BY <1>1, <1>4, <1>5, <1>6

LEMMA GroupSame ==
  ASSUME NEW b, NEW c, \A k \in 1..5 : b[k] = c[k]
  PROVE  GroupCoefficients(b) = GroupCoefficients(c)
<1>1. b[1] = c[1] /\ b[2] = c[2] /\ b[3] = c[3] /\ b[4] = c[4] /\ b[5] = c[5]
  OBVIOUS
<1> QED BY <1>1 DEF GroupCoefficients

\* the bytes of the g-th group, and its coefficients
GroupOf(a, g) == GroupBytes(a[3 * g], a[3 * g + 1], a[3 * g + 2])
GroupAt(buf0, g) == GroupCoefficients([k \in 1..5 |-> buf0[5 * g + k]])

LEMMA EncodedIs ==
  ASSUME NEW a
  PROVE  /\ \A g \in 0..5, k \in 1..5 : gf_encode(a)[5 * g + k] = GroupOf(a, g)[k]
         /\ gf_encode(a)[31] = a[18] % 256 /\ gf_encode(a)[32] = a[18] \div 256
         /\ gf_encode(a) = [i \in 1..32 |-> gf_encode(a)[i]]
<1> DEFINE e == [i \in 1..32 |-> CASE i <= 30 -> GroupOf(a, (i - 1) \div 5)[((i - 1) % 5) + 1]
                                   [] i = 31 -> a[18] % 2^8
                                   [] i = 32 -> a[18] \div 2^8]
<1>1. gf_encode(a) = e
  BY DEF gf_encode, GroupOf
<1>2. e[31] = a[18] % 256 /\ e[32] = a[18] \div 256
  BY Powers
<1>3. ASSUME NEW g \in 0..5, NEW k \in 1..5 PROVE e[5 * g + k] = GroupOf(a, g)[k]
  <2>1. 5 * g + k \in 1..32 /\ 5 * g + k <= 30 /\ (5 * g + k - 1) \div 5 = g
        /\ (5 * g + k - 1) % 5 = k - 1 /\ (k - 1) + 1 = k
    OBVIOUS
  <2> DEFINE i == 5 * g + k
  <2>2. e[i] = GroupOf(a, (i - 1) \div 5)[((i - 1) % 5) + 1]
    BY <2>1
  <2> QED BY <2>1, <2>2
<1>4. e = [i \in 1..32 |-> e[i]]
  OBVIOUS
<1> HIDE DEF e
<1> QED BY <1>1, <1>2, <1>3, <1>4

\* A field element is read back as it was written, whatever the two bits above it.
THEOREM ReadBack ==
  ASSUME NEW a \in Polynomials, NEW buf0,
         \A i \in 1..31 : buf0[i] = gf_encode(a)[i], buf0[32] % 64 = gf_encode(a)[32]
  PROVE  gf_decode(buf0).ok /\ gf_decode(buf0).value = a
<1> DEFINE read == [i \in Degrees |-> IF i = 18 THEN buf0[31] + (buf0[32] % 2^6) * 2^8
                                      ELSE GroupAt(buf0, i \div 3)[(i % 3) + 1]]
<1>1. gf_decode(buf0) = [ok |-> \A i \in Degrees : read[i] < P, value |-> Poly(read)]
  BY DEF gf_decode, GroupAt
<1>2. \A i \in Degrees : a[i] \in Nat /\ a[i] < P /\ a[i] \in Int /\ a[i] \in 0..(P - 1)
  <2> SUFFICES ASSUME NEW i \in Degrees PROVE a[i] \in Nat /\ a[i] < P /\ a[i] \in 0..(P - 1)
    OBVIOUS
  <2>1. a[i] \in 0..(P - 1)
    BY DEF Polynomials
  <2> DEFINE x == a[i]
  <2>2. x \in 0..(P - 1)
    BY <2>1
  <2> HIDE DEF x
  <2>3. x \in Nat /\ x < P
    BY <2>2, Positive
  <2> QED BY <2>1, <2>3 DEF x
<1>3. /\ \A g \in 0..5, k \in 1..5 : buf0[5 * g + k] = GroupOf(a, g)[k]
      /\ buf0[31] = a[18] % 256 /\ buf0[32] % 64 = a[18] \div 256
  <2> DEFINE e == gf_encode(a)
  <2>1. /\ \A g \in 0..5, k \in 1..5 : e[5 * g + k] = GroupOf(a, g)[k]
        /\ e[31] = a[18] % 256 /\ e[32] = a[18] \div 256
    BY EncodedIs
  <2>2. (\A i \in 1..31 : buf0[i] = e[i]) /\ buf0[32] % 64 = e[32]
    OBVIOUS
  <2> HIDE DEF e
  <2>3. \A g \in 0..5, k \in 1..5 : 5 * g + k \in 1..31
    OBVIOUS
  <2> QED BY <2>1, <2>2, <2>3
<1>4. ASSUME NEW g \in 0..5
      PROVE  GroupAt(buf0, g) = <<a[3 * g], a[3 * g + 1], a[3 * g + 2]>>
  <2>1. 3 * g \in Degrees /\ 3 * g + 1 \in Degrees /\ 3 * g + 2 \in Degrees
    BY DEF Degrees
  <2> DEFINE x0 == a[3 * g]  x1 == a[3 * g + 1]  x2 == a[3 * g + 2]
             c == [k \in 1..5 |-> buf0[5 * g + k]]
  <2>2. x0 \in Nat /\ x0 < P /\ x1 \in Nat /\ x1 < P /\ x2 \in Nat /\ x2 < P
    BY <1>2, <2>1
  <2>3. \A k \in 1..5 : c[k] = GroupBytes(x0, x1, x2)[k]
    BY <1>3 DEF GroupOf
  <2> HIDE DEF x0, x1, x2, c
  <2>4. GroupCoefficients(c) = <<x0, x1, x2>>
    BY <2>2, <2>3, GroupRead, GroupSame
  <2> QED BY <2>4 DEF x0, x1, x2, c, GroupAt
<1>5. ASSUME NEW i \in Degrees PROVE read[i] = a[i]
  <2>1. CASE i = 18
    <3> DEFINE x == a[18]
    <3>1. x \in Nat /\ x < 9767
      <4>1. 18 \in Degrees
        BY DEF Degrees
      <4> QED BY <1>2, <4>1 DEF P
    <3>2. buf0[31] = x % 256 /\ buf0[32] % 64 = x \div 256
      BY <1>3
    <3> HIDE DEF x
    <3>3. (x % 256) + (x \div 256) * 256 = x
      BY <3>1
    <3>4. read[18] = buf0[31] + (buf0[32] % 64) * 256
      BY <2>1, Powers
    <3> QED BY <2>1, <3>2, <3>3, <3>4 DEF x
  <2>2. CASE i # 18
    <3> DEFINE g == i \div 3  r == i % 3
    <3>1. i \in 0..18
      BY DEF Degrees
    <3>2. g \in 0..5 /\ r \in 0..2 /\ i = 3 * g + r
      BY <2>2, <3>1
    <3>3. read[i] = GroupAt(buf0, g)[r + 1]
      BY <2>2
    <3> HIDE DEF g, r, read
    <3>4. GroupAt(buf0, g) = <<a[3 * g], a[3 * g + 1], a[3 * g + 2]>>
      BY <1>4, <3>2
    <3>5. CASE r = 0
      <4>1. read[i] = a[3 * g] /\ 3 * g = i
        BY <3>2, <3>3, <3>4, <3>5
      <4> QED BY <4>1
    <3>6. CASE r = 1
      <4>1. read[i] = a[3 * g + 1] /\ 3 * g + 1 = i
        BY <3>2, <3>3, <3>4, <3>6
      <4> QED BY <4>1
    <3>7. CASE r = 2
      <4>1. read[i] = a[3 * g + 2] /\ 3 * g + 2 = i
        BY <3>2, <3>3, <3>4, <3>7
      <4> QED BY <4>1
    <3> QED BY <3>2, <3>5, <3>6, <3>7
  <2> QED BY <2>1, <2>2
<1> HIDE DEF read
<1>6. Poly(read) = a
  <2> DEFINE b == Poly(read)
  <2>1. \A i \in Degrees : read[i] \in Int /\ read[i] \in 0..(P - 1)
    BY <1>2, <1>5, Zenon
  <2>2. b \in Polynomials /\ \A i \in Degrees : b[i] = read[i]
    BY <2>1, PolyIs, Zenon
  <2> HIDE DEF b
  <2>3. \A i \in Degrees : b[i] = a[i]
    BY <1>5, <2>2
  <2> DEFINE D == 0..(P - 1)
  <2>4. a \in [Degrees -> D] /\ b \in [Degrees -> D]
    BY <2>2 DEF Polynomials
  <2> HIDE DEF D
  <2>5. a = b
    BY <2>3, <2>4
  <2> QED BY <2>5 DEF b
<1>7. gf_decode(buf0).ok /\ gf_decode(buf0).value = a
  BY <1>1, <1>2, <1>5, <1>6
<1> QED BY <1>7

\* What is read from any bytes, before it is reduced.
ReadFrom(buf0) ==
    [i \in Degrees |-> IF i = 18 THEN buf0[31] + (buf0[32] % 2^6) * 2^8
                       ELSE GroupAt(buf0, i \div 3)[(i % 3) + 1]]

LEMMA GroupIs ==
  ASSUME NEW buf0 \in [1..32 -> Bytes], NEW g \in 0..5
  PROVE  /\ \A r \in 0..2 : ReadFrom(buf0)[3 * g + r] = GroupAt(buf0, g)[r + 1]
                            /\ ReadFrom(buf0)[3 * g + r] \in Nat
         /\ \A k \in 1..5 : GroupOf(ReadFrom(buf0), g)[k] = buf0[5 * g + k]
<1> DEFINE c == [k \in 1..5 |-> buf0[5 * g + k]]  a == ReadFrom(buf0)
<1>1. \A k \in 1..5 : c[k] = buf0[5 * g + k] /\ c[k] \in Nat /\ c[k] < 256
  <2> SUFFICES ASSUME NEW k \in 1..5 PROVE c[k] = buf0[5 * g + k] /\ c[k] \in Nat /\ c[k] < 256
    OBVIOUS
  <2>1. 5 * g + k \in 1..32
    OBVIOUS
  <2>2. buf0[5 * g + k] \in Bytes
    BY <2>1
  <2> QED BY <2>2 DEF Bytes
<1> HIDE DEF c
<1> DEFINE b1 == c[1]  b2 == c[2]  b3 == c[3]  b4 == c[4]  b5 == c[5]
<1>2. /\ b1 \in Nat /\ b1 < 256 /\ b2 \in Nat /\ b2 < 256 /\ b3 \in Nat /\ b3 < 256
      /\ b4 \in Nat /\ b4 < 256 /\ b5 \in Nat /\ b5 < 256
      /\ c[1] = b1 /\ c[2] = b2 /\ c[3] = b3 /\ c[4] = b4 /\ c[5] = b5
  BY <1>1
<1> HIDE DEF b1, b2, b3, b4, b5
<1>3. PICK x0 \in Nat, x1 \in Nat, x2 \in Nat :
         /\ GroupCoefficients(c) = <<x0, x1, x2>>
         /\ GroupBytes(x0, x1, x2) = <<b1, b2, b3, b4, b5>>
  <2>1. IsWritten(c, b1, b2, b3, b4, b5)
    BY <1>2, GroupWritten
  <2> QED BY <2>1 DEF IsWritten
<1>4. GroupAt(buf0, g) = <<x0, x1, x2>>
  BY <1>3 DEF GroupAt, c
<1>5. \A r \in 0..2 : a[3 * g + r] = GroupAt(buf0, g)[r + 1]
  <2> SUFFICES ASSUME NEW r \in 0..2 PROVE a[3 * g + r] = GroupAt(buf0, g)[r + 1]
    OBVIOUS
  <2> DEFINE i == 3 * g + r
  <2>1. i \in Degrees /\ i # 18 /\ i \div 3 = g /\ i % 3 = r
    BY DEF Degrees
  <2> HIDE DEF i
  <2>2. a[i] = GroupAt(buf0, g)[r + 1]
    BY <2>1 DEF ReadFrom
  <2> QED BY <2>2 DEF i
<1> HIDE DEF a
<1>6. a[3 * g] = x0 /\ a[3 * g + 1] = x1 /\ a[3 * g + 2] = x2
  <2>1. 3 * g + 0 = 3 * g /\ 0 \in 0..2 /\ 1 \in 0..2 /\ 2 \in 0..2
    OBVIOUS
  <2> QED BY <1>4, <1>5, <2>1
<1>7. GroupOf(a, g) = <<b1, b2, b3, b4, b5>>
  BY <1>3, <1>6 DEF GroupOf
<1>8. \A k \in 1..5 : GroupOf(a, g)[k] = c[k]
  BY <1>2, <1>7
<1>9. \A r \in 0..2 : a[3 * g + r] \in Nat
  <2> SUFFICES ASSUME NEW r \in 0..2 PROVE a[3 * g + r] \in Nat
    OBVIOUS
  <2>1. r = 0 \/ r = 1 \/ r = 2
    OBVIOUS
  <2>2. a[3 * g + r] = <<x0, x1, x2>>[r + 1]
    BY <1>4, <1>5
  <2> QED BY <2>1, <2>2
<1> QED BY <1>1, <1>5, <1>8, <1>9 DEF a

LEMMA DecodedIs ==
  ASSUME NEW buf0 \in [1..32 -> Bytes]
  PROVE  /\ gf_decode(buf0).value \in Polynomials
         /\ gf_decode(buf0).ok <=> (\A i \in Degrees : ReadFrom(buf0)[i] < P)
         /\ gf_decode(buf0).ok =>
               \A i \in Degrees : gf_decode(buf0).value[i] = ReadFrom(buf0)[i]
<1> DEFINE a == ReadFrom(buf0)
<1>1. gf_decode(buf0) = [ok |-> \A i \in Degrees : a[i] < P, value |-> Poly(a)]
  BY DEF gf_decode, GroupAt, ReadFrom
<1>2. ASSUME NEW i \in Degrees PROVE a[i] \in Nat
  <2>1. CASE i = 18
    <3>1. a[18] = buf0[31] + (buf0[32] % 64) * 256
      BY <2>1, Powers DEF ReadFrom
    <3>2. buf0[31] \in Bytes /\ buf0[32] \in Bytes
      OBVIOUS
    <3>3. buf0[31] \in Nat /\ buf0[32] \in Nat
      BY <3>2 DEF Bytes
    <3> HIDE DEF a
    <3> QED BY <2>1, <3>1, <3>3
  <2>2. CASE i # 18
    <3> DEFINE g == i \div 3  r == i % 3
    <3>1. i \in 0..18
      BY DEF Degrees
    <3>2. g \in 0..5 /\ r \in 0..2 /\ i = 3 * g + r
      BY <2>2, <3>1
    <3> HIDE DEF g, r
    <3> QED BY <3>2, GroupIs
  <2> QED BY <2>1, <2>2
<1> HIDE DEF a
<1>3. Poly(a) \in Polynomials
  BY <1>2, PolyIs
<1>4. ASSUME \A i \in Degrees : a[i] < P PROVE \A i \in Degrees : Poly(a)[i] = a[i]
  <2>1. ASSUME NEW i \in Degrees PROVE a[i] \in 0..(P - 1) /\ a[i] \in Int
    BY <1>2, <1>4, Positive
  <2> QED BY <2>1, PolyIs, Zenon
<1>5. /\ (gf_decode(buf0).ok <=> \A i \in Degrees : a[i] < P)
      /\ gf_decode(buf0).value = Poly(a)
  BY <1>1
<1> QED BY <1>3, <1>4, <1>5 DEF a

\* Bytes that decode are the encoding of the element, but for the two bits above it.
THEOREM WrittenBack ==
  ASSUME NEW buf0 \in [1..32 -> Bytes], gf_decode(buf0).ok
  PROVE  LET e == gf_encode(gf_decode(buf0).value)
         IN  e[32] = buf0[32] % 64 /\ \A i \in 1..31 : e[i] = buf0[i]
<1> DEFINE a == ReadFrom(buf0)  v == gf_decode(buf0).value
<1>1. \A i \in Degrees : v[i] = a[i]
  BY DecodedIs
<1> HIDE DEF v
<1>2. /\ \A g \in 0..5, k \in 1..5 : gf_encode(v)[5 * g + k] = GroupOf(v, g)[k]
      /\ gf_encode(v)[31] = v[18] % 256 /\ gf_encode(v)[32] = v[18] \div 256
  BY EncodedIs
<1>3. gf_encode(v)[31] = buf0[31] /\ gf_encode(v)[32] = buf0[32] % 64
  <2> DEFINE x == buf0[31]  y == buf0[32]
  <2>1. x \in Bytes /\ y \in Bytes
    OBVIOUS
  <2>2. x \in Nat /\ x < 256 /\ y \in Nat
    BY <2>1 DEF Bytes
  <2>3. v[18] = x + (y % 64) * 256
    <3>1. 18 \in Degrees
      BY DEF Degrees
    <3>2. a[18] = x + (y % 64) * 256
      BY <3>1, Powers DEF ReadFrom
    <3> QED BY <1>1, <3>1, <3>2
  <2> HIDE DEF x, y
  <2>4. (x + (y % 64) * 256) % 256 = x /\ (x + (y % 64) * 256) \div 256 = y % 64
    BY <2>2
  <2> QED BY <1>2, <2>3, <2>4 DEF x, y
<1>4. ASSUME NEW i \in 1..30 PROVE gf_encode(v)[i] = buf0[i]
  <2> DEFINE g == (i - 1) \div 5  k == ((i - 1) % 5) + 1
  <2>1. g \in 0..5 /\ k \in 1..5 /\ i = 5 * g + k
    OBVIOUS
  <2> HIDE DEF g, k, a
  <2>2. 3 * g \in Degrees /\ 3 * g + 1 \in Degrees /\ 3 * g + 2 \in Degrees
    BY <2>1 DEF Degrees
  <2>3. GroupOf(v, g) = GroupOf(a, g)
    BY <1>1, <2>2 DEF GroupOf
  <2>4. GroupOf(a, g)[k] = buf0[5 * g + k]
    BY <2>1, GroupIs DEF a
  <2> QED BY <1>2, <2>1, <2>3, <2>4
<1>5. ASSUME NEW i \in 1..31 PROVE gf_encode(v)[i] = buf0[i]
  <2>1. i = 31 \/ i \in 1..30
    OBVIOUS
  <2> QED BY <1>3, <1>4, <2>1
<1> QED BY <1>3, <1>5 DEF v

-----------------------------------------------------------------------------
\* The field functions return elements.
LEMMA CoefficientIs ==
  ASSUME NEW a \in Polynomials, NEW i \in Degrees
  PROVE  a[i] \in Int /\ a[i] \in 0..(P - 1)
<1>1. a[i] \in 0..(P - 1)
  BY DEF Polynomials
<1> DEFINE x == a[i]
<1>2. x \in 0..(P - 1)
  BY <1>1
<1> HIDE DEF x
<1>3. x \in Int
  BY <1>2, Positive
<1> QED BY <1>1, <1>3 DEF x

LEMMA SumsClosed ==
  ASSUME NEW a \in Polynomials, NEW b \in Polynomials
  PROVE  Plus(a, b) \in Polynomials /\ Minus(a, b) \in Polynomials
<1>1. \A i \in Degrees : a[i] \in Int /\ b[i] \in Int
  BY CoefficientIs
<1> DEFINE f == [i \in Degrees |-> a[i] + b[i]]  g == [i \in Degrees |-> a[i] - b[i]]
<1>2. \A i \in Degrees : f[i] \in Int /\ g[i] \in Int
  BY <1>1
<1> HIDE DEF f, g
<1>3. Poly(f) \in Polynomials /\ Poly(g) \in Polynomials
  BY <1>2, PolyIs
<1> QED BY <1>3 DEF Plus, Minus, f, g

LEMMA MonomialClosed ==
  ASSUME NEW c \in Int, NEW d
  PROVE  Monomial(c, d) \in Polynomials /\ Constant(c) \in Polynomials /\ Zero \in Polynomials
<1>1. ASSUME NEW x \in Int, NEW e PROVE Monomial(x, e) \in Polynomials
  <2> DEFINE f == [i \in Degrees |-> IF i = e THEN x ELSE 0]
  <2>1. \A i \in Degrees : f[i] \in Int
    OBVIOUS
  <2> HIDE DEF f
  <2>2. Poly(f) \in Polynomials
    BY <2>1, PolyIs
  <2> QED BY <2>2 DEF Monomial, f
<1>2. Monomial(c, 0) \in Polynomials /\ Monomial(0, 0) \in Polynomials /\ Monomial(c, d) \in Polynomials
  BY <1>1
<1> QED BY <1>2 DEF Constant, Zero

LEMMA ScaledClosed ==
  ASSUME NEW a \in Polynomials, NEW k \in Int
  PROVE  Scaled(k, a) \in Polynomials /\ Negated(a) \in Polynomials
<1>1. \A i \in Degrees : a[i] \in Int
  BY CoefficientIs
<1> DEFINE f == [i \in Degrees |-> k * a[i]]
<1>2. \A i \in Degrees : f[i] \in Int
  BY <1>1
<1> HIDE DEF f
<1>3. Poly(f) \in Polynomials
  BY <1>2, PolyIs
<1>4. Zero \in Polynomials
  <2>1. 0 \in Int
    OBVIOUS
  <2> QED BY <2>1, MonomialClosed
<1> QED BY <1>3, <1>4, SumsClosed DEF Scaled, Negated, f

LEMMA ProductIs ==
  ASSUME NEW a \in Polynomials, NEW b \in Polynomials, NEW i \in Degrees, NEW j \in Degrees
  PROVE  Product(a, b, i, j) \in Int
<1>1. i \in Int /\ j \in Int /\ a[j] \in Int
  BY CoefficientIs DEF Degrees
<1>2. CASE j <= i
  <2>1. i - j \in Degrees
    BY <1>2 DEF Degrees
  <2>2. b[i - j] \in Int
    BY <2>1, CoefficientIs
  <2> QED BY <1>1, <1>2, <2>2 DEF Product
<1>3. CASE ~(j <= i)
  <2> DEFINE x == b[19 + i - j]
  <2>1. 19 + i - j \in Degrees
    BY <1>3 DEF Degrees
  <2>2. x \in Int
    BY <2>1, CoefficientIs
  <2>3. Product(a, b, i, j) = a[j] * ((2 * x) % P)
    BY <1>3 DEF Product
  <2> HIDE DEF x
  <2>4. (2 * x) % P \in Int
    BY <2>2, Positive
  <2> QED BY <1>1, <2>3, <2>4
<1> QED BY <1>2, <1>3

LEMMA ProductsAre ==
  ASSUME NEW a \in Polynomials, NEW b \in Polynomials, NEW i \in Degrees
  PROVE  Products(a, b, i) \in Int
<1> DEFINE t(j) == Product(a, b, i, j)
           low == t(0) + t(1) + t(2) + t(3) + t(4) + t(5) + t(6) + t(7) + t(8) + t(9)
<1>1. /\ 0 \in Degrees /\ 1 \in Degrees /\ 2 \in Degrees /\ 3 \in Degrees /\ 4 \in Degrees
      /\ 5 \in Degrees /\ 6 \in Degrees /\ 7 \in Degrees /\ 8 \in Degrees /\ 9 \in Degrees
      /\ 10 \in Degrees /\ 11 \in Degrees /\ 12 \in Degrees /\ 13 \in Degrees /\ 14 \in Degrees
      /\ 15 \in Degrees /\ 16 \in Degrees /\ 17 \in Degrees /\ 18 \in Degrees
  BY DEF Degrees
<1>2. \A j \in Degrees : t(j) \in Int
  BY ProductIs
<1>3. Products(a, b, i) = low + t(10) + t(11) + t(12) + t(13) + t(14) + t(15) + t(16) + t(17) + t(18)
  BY DEF Products
<1> HIDE DEF t
<1>4. /\ t(0) \in Int /\ t(1) \in Int /\ t(2) \in Int /\ t(3) \in Int /\ t(4) \in Int
      /\ t(5) \in Int /\ t(6) \in Int /\ t(7) \in Int /\ t(8) \in Int /\ t(9) \in Int
  BY <1>1, <1>2
<1>5. /\ t(10) \in Int /\ t(11) \in Int /\ t(12) \in Int /\ t(13) \in Int /\ t(14) \in Int
      /\ t(15) \in Int /\ t(16) \in Int /\ t(17) \in Int /\ t(18) \in Int
  BY <1>1, <1>2
<1>6. low \in Int
  BY <1>4
<1> HIDE DEF low
<1> QED BY <1>3, <1>5, <1>6

LEMMA TimesClosed ==
  ASSUME NEW a \in Polynomials, NEW b \in Polynomials
  PROVE  Times(a, b) \in Polynomials /\ Square(a) \in Polynomials
<1>1. ASSUME NEW c \in Polynomials, NEW d \in Polynomials PROVE Times(c, d) \in Polynomials
  <2> DEFINE f == [i \in Degrees |-> Products(c, d, i)]
  <2>1. \A i \in Degrees : f[i] \in Int
    BY ProductsAre
  <2> HIDE DEF f
  <2>2. Poly(f) \in Polynomials
    BY <2>1, PolyIs
  <2> QED BY <2>2 DEF Times, f
<1> QED BY <1>1 DEF Square

\* A recursion stays where each step leaves it.
LEMMA StaysIn ==
  ASSUME NEW n \in Nat, NEW D, NEW g, g[0] \in D, \A k \in 1..n : g[k - 1] \in D => g[k] \in D
  PROVE  \A k \in 0..n : g[k] \in D
<1> DEFINE S == {k \in 0..n : g[k] \in D}
<1>1. 0 \in S
  OBVIOUS
<1>2. ASSUME NEW k \in 0..(n - 1), k \in S PROVE k + 1 \in S
  <2>1. k + 1 \in 1..n /\ (k + 1) - 1 = k /\ k + 1 \in 0..n
    OBVIOUS
  <2>2. g[k] \in D
    BY <1>2
  <2>3. g[k + 1] \in D
    BY <2>1, <2>2
  <2> QED BY <2>1, <2>3
<1> HIDE DEF S
<1>3. \A k \in 0..n : k \in S
  BY <1>1, <1>2, UpTo
<1> QED BY <1>3 DEF S

\* The two ways a definition by recursion is used here: values f, and what a step makes
\* of a value in D.
ArePowers(f, a, n) ==
    f = [k \in 0..14 |->
            IF k = 0 THEN Constant(1)
            ELSE LET h == f[k - 1]
                     hh == Square(h)
                 IN  IF Bit(n, k) = 0 THEN hh ELSE Times(hh, a)]

LEMMA PowerClosed ==
  ASSUME NEW a \in Polynomials, NEW n
  PROVE  Power(a, n) \in Polynomials
<1> DEFINE next(k, h) == IF Bit(n, k) = 0 THEN Square(h) ELSE Times(Square(h), a)
           step == [u \in (1..14) \X Polynomials |-> next(u[1], u[2])]
           one == Constant(1)
           f == CHOOSE g : ArePowers(g, a, n)
           top == 14
<1>1. one \in Polynomials /\ top \in Nat
  <2>1. 1 \in Int
    OBVIOUS
  <2> QED BY <2>1, MonomialClosed
<1>2. ASSUME NEW k \in 1..14, NEW h \in Polynomials PROVE next(k, h) \in Polynomials
  BY TimesClosed
<1>3. \A k \in 1..14, h \in Polynomials : step[<<k, h>>] = next(k, h)
  OBVIOUS
<1>4. \A g : ArePowers(g, a, n) <=> g = [k \in 0..14 |-> IF k = 0 THEN one ELSE next(k, g[k - 1])]
  BY DEF ArePowers
<1>5. Power(a, n) = f[14]
  BY DEF Power, ArePowers
<1> HIDE DEF next, step, one, f
<1>6. \E g : ArePowers(g, a, n)
  <2>1. IsStep(step, top, Polynomials)
    BY <1>2, <1>3 DEF IsStep
  <2> HIDE DEF top
  <2>2. PICK g : IsRecursive(g, top, Polynomials, one, step)
    BY <1>1, <2>1, Recursion
  <2> USE DEF top
  <2>3. /\ g \in [0..14 -> Polynomials] /\ g[0] = one
        /\ \A k \in 1..14 : g[k] = step[<<k, g[k - 1]>>]
    BY <2>2 DEF IsRecursive
  <2>4. ASSUME NEW k \in 0..14 PROVE g[k] = IF k = 0 THEN one ELSE next(k, g[k - 1])
    <3>1. CASE k = 0
      BY <2>3, <3>1
    <3>2. CASE k # 0
      <4>1. k \in 1..14 /\ k - 1 \in 0..14
        BY <3>2
      <4>2. g[k - 1] \in Polynomials
        BY <2>3, <4>1
      <4> QED BY <1>3, <2>3, <3>2, <4>1, <4>2
    <3> QED BY <3>1, <3>2
  <2>5. g = [k \in 0..14 |-> g[k]]
    BY <2>3
  <2>6. g = [k \in 0..14 |-> IF k = 0 THEN one ELSE next(k, g[k - 1])]
    BY <2>4, <2>5, Zenon
  <2> QED BY <1>4, <2>6
<1>7. ArePowers(f, a, n)
  BY <1>6 DEF f
<1>8. f = [k \in 0..14 |-> IF k = 0 THEN one ELSE next(k, f[k - 1])]
  BY <1>4, <1>7
<1>9. f[0] \in Polynomials
  BY <1>1, <1>8
<1>10. ASSUME NEW k \in 1..14, f[k - 1] \in Polynomials PROVE f[k] \in Polynomials
  <2>1. k \in 0..14 /\ k # 0
    OBVIOUS
  <2>2. f[k] = next(k, f[k - 1])
    BY <1>8, <2>1
  <2> QED BY <1>2, <1>10, <2>2
<1>11. f[14] \in Polynomials
  <2>1. \A k \in 0..top : f[k] \in Polynomials
    <3>1. \A k \in 1..top : f[k - 1] \in Polynomials => f[k] \in Polynomials
      BY <1>10
    <3> HIDE DEF top
    <3> QED BY <1>1, <1>9, <3>1, StaysIn
  <2> QED BY <2>1
<1> QED BY <1>5, <1>11

AreBasePowers(f, x, n) ==
    f = [k \in 0..14 |->
            IF k = 0 THEN 1
            ELSE LET h == f[k - 1]
                     hh == (h * h) % P
                 IN  IF Bit(n, k) = 0 THEN hh ELSE (hh * x) % P]

LEMMA BasePowerIs ==
  ASSUME NEW x \in Int, NEW n
  PROVE  BasePower(x, n) \in Int
<1> DEFINE next(k, h) == IF Bit(n, k) = 0 THEN (h * h) % P ELSE (((h * h) % P) * x) % P
           step == [u \in (1..14) \X Int |-> next(u[1], u[2])]
           one == 1
           f == CHOOSE g : AreBasePowers(g, x, n)
           top == 14
<1>1. one \in Int /\ top \in Nat
  OBVIOUS
<1>2. ASSUME NEW k \in 1..14, NEW h \in Int PROVE next(k, h) \in Int
  <2> DEFINE m == (h * h) % P
  <2>1. m \in Int
    BY Positive
  <2> HIDE DEF m
  <2>2. (m * x) % P \in Int
    BY <2>1, Positive
  <2> QED BY <2>1, <2>2 DEF m
<1>3. \A k \in 1..14, h \in Int : step[<<k, h>>] = next(k, h)
  OBVIOUS
<1>4. \A g : AreBasePowers(g, x, n) <=> g = [k \in 0..14 |-> IF k = 0 THEN one ELSE next(k, g[k - 1])]
  BY DEF AreBasePowers
<1>5. BasePower(x, n) = f[14]
  BY DEF BasePower, AreBasePowers
<1> HIDE DEF next, step, one, f
<1>6. \E g : AreBasePowers(g, x, n)
  <2>1. IsStep(step, top, Int)
    BY <1>2, <1>3 DEF IsStep
  <2> HIDE DEF top
  <2>2. PICK g : IsRecursive(g, top, Int, one, step)
    BY <1>1, <2>1, Recursion
  <2> USE DEF top
  <2>3. /\ g \in [0..14 -> Int] /\ g[0] = one
        /\ \A k \in 1..14 : g[k] = step[<<k, g[k - 1]>>]
    BY <2>2 DEF IsRecursive
  <2>4. ASSUME NEW k \in 0..14 PROVE g[k] = IF k = 0 THEN one ELSE next(k, g[k - 1])
    <3>1. CASE k = 0
      BY <2>3, <3>1
    <3>2. CASE k # 0
      <4>1. k \in 1..14 /\ k - 1 \in 0..14
        BY <3>2
      <4>2. g[k - 1] \in Int
        BY <2>3, <4>1
      <4> QED BY <1>3, <2>3, <3>2, <4>1, <4>2
    <3> QED BY <3>1, <3>2
  <2>5. g = [k \in 0..14 |-> g[k]]
    BY <2>3
  <2>6. g = [k \in 0..14 |-> IF k = 0 THEN one ELSE next(k, g[k - 1])]
    BY <2>4, <2>5, Zenon
  <2> QED BY <1>4, <2>6
<1>7. AreBasePowers(f, x, n)
  BY <1>6 DEF f
<1>8. f = [k \in 0..14 |-> IF k = 0 THEN one ELSE next(k, f[k - 1])]
  BY <1>4, <1>7
<1>9. f[0] \in Int
  BY <1>1, <1>8
<1>10. ASSUME NEW k \in 1..14, f[k - 1] \in Int PROVE f[k] \in Int
  <2>1. k \in 0..14 /\ k # 0
    OBVIOUS
  <2>2. f[k] = next(k, f[k - 1])
    BY <1>8, <2>1
  <2> QED BY <1>2, <1>10, <2>2
<1>11. f[14] \in Int
  <2>1. \A k \in 0..top : f[k] \in Int
    <3>1. \A k \in 1..top : f[k - 1] \in Int => f[k] \in Int
      BY <1>10
    <3> HIDE DEF top
    <3> QED BY <1>1, <1>9, <3>1, StaysIn
  <2> QED BY <2>1
<1> QED BY <1>5, <1>11

LEMMA ConjugateClosed ==
  ASSUME NEW a \in Polynomials, NEW j
  PROVE  Conjugate(a, j) \in Polynomials
<1> DEFINE f == [i \in Degrees |-> a[i] * BasePower(2, 514 * ((i * j) % 19))]
<1>1. \A i \in Degrees : f[i] \in Int
  <2> SUFFICES ASSUME NEW i \in Degrees PROVE f[i] \in Int
    OBVIOUS
  <2> DEFINE x == BasePower(2, 514 * ((i * j) % 19))
  <2>1. x \in Int /\ a[i] \in Int
    <3>1. 2 \in Int
      OBVIOUS
    <3> QED BY <3>1, BasePowerIs, CoefficientIs
  <2>2. f[i] = a[i] * x
    OBVIOUS
  <2> HIDE DEF x, f
  <2> QED BY <2>1, <2>2
<1> HIDE DEF f
<1>2. Poly(f) \in Polynomials
  BY <1>1, PolyIs
<1> QED BY <1>2 DEF Conjugate, f

LEMMA EvenOddClosed ==
  ASSUME NEW a \in Polynomials
  PROVE  EvenConjugates(a) \in Polynomials /\ OddConjugates(a) \in Polynomials
<1> DEFINE with(b, j) == Times(b, Conjugate(b, j))
<1>1. ASSUME NEW b \in Polynomials, NEW j PROVE with(b, j) \in Polynomials
  BY ConjugateClosed, TimesClosed
<1>2. EvenConjugates(a) = Times(a, Conjugate(with(with(with(a, 2), 4), 8), 2))
  BY DEF EvenConjugates
<1> HIDE DEF with
<1>3. with(with(with(a, 2), 4), 8) \in Polynomials
  BY <1>1
<1>4. EvenConjugates(a) \in Polynomials
  BY <1>2, <1>3, ConjugateClosed, TimesClosed
<1> QED BY <1>4, ConjugateClosed DEF OddConjugates

LEMMA BaseInverseIs ==
  ASSUME NEW k \in Int
  PROVE  BaseInverse(k) \in Int
BY BasePowerIs DEF BaseInverse

LEMMA ReciprocalClosed ==
  ASSUME NEW a \in Polynomials
  PROVE  Reciprocal(a) \in Polynomials
<1> DEFINE odd == OddConjugates(a)  others == Times(odd, Conjugate(odd, 1))
<1>1. others \in Polynomials
  BY EvenOddClosed, ConjugateClosed, TimesClosed
<1>2. Reciprocal(a) = ReciprocalFrom(a, others)
  BY DEF Reciprocal
<1> HIDE DEF others
<1> DEFINE k == Times(a, others)[0]
<1>3. k \in Int
  <2>1. 0 \in Degrees
    BY DEF Degrees
  <2> QED BY <1>1, <2>1, TimesClosed, CoefficientIs
<1>4. ReciprocalFrom(a, others) = Scaled(BaseInverse(k), others)
  BY DEF ReciprocalFrom
<1> HIDE DEF k
<1> QED BY <1>1, <1>2, <1>3, <1>4, BaseInverseIs, ScaledClosed

LEMMA RootsClosed ==
  ASSUME NEW a \in Polynomials
  PROVE  SquareRoot(a).root \in Polynomials /\ CubeRoot(a) \in Polynomials
<1> DEFINE odd == OddConjugates(a)
           even == Times(a, Conjugate(odd, 1))
           norm == Times(even, odd)[0]
<1>1. odd \in Polynomials /\ even \in Polynomials
  BY EvenOddClosed, ConjugateClosed, TimesClosed
<1>2. SquareRoot(a) = SquareRootFrom(even, norm)
  BY DEF SquareRoot
<1>3. CubeRoot(a) = Times(even, Power(Times(Square(even), odd), (P - 2) \div 3))
  BY DEF CubeRoot
<1> HIDE DEF odd, even
<1>4. norm \in Int
  <2>1. 0 \in Degrees
    BY DEF Degrees
  <2> QED BY <1>1, <2>1, TimesClosed, CoefficientIs
<1> HIDE DEF norm
<1>5. SquareRootFrom(even, norm).root \in Polynomials
  <2> DEFINE base == Scaled(BaseInverse(norm), Square(even))
  <2>1. base \in Polynomials
    BY <1>1, <1>4, TimesClosed, BaseInverseIs, ScaledClosed
  <2>2. SquareRootFrom(even, norm).root = Power(base, (P + 1) \div 4)
    BY DEF SquareRootFrom
  <2> HIDE DEF base
  <2> QED BY <2>1, <2>2, PowerClosed
<1>6. CubeRoot(a) \in Polynomials
  <2> DEFINE c == Times(Square(even), odd)  e == (P - 2) \div 3
  <2>1. c \in Polynomials
    BY <1>1, TimesClosed
  <2>2. CubeRoot(a) = Times(even, Power(c, e))
    BY <1>3
  <2> HIDE DEF c, e
  <2> QED BY <1>1, <2>1, <2>2, PowerClosed, TimesClosed
<1> QED BY <1>2, <1>5, <1>6

LEMMA TimesMonomialClosed ==
  ASSUME NEW a \in Polynomials, NEW c \in Int, NEW d \in Degrees
  PROVE  TimesMonomial(c, d, a) \in Polynomials
<1> DEFINE f == [i \in Degrees |-> IF i >= d THEN c * a[i - d] ELSE ((2 * c) % P) * a[i + 19 - d]]
<1>1. \A i \in Degrees : f[i] \in Int
  <2> SUFFICES ASSUME NEW i \in Degrees PROVE f[i] \in Int
    OBVIOUS
  <2>1. CASE i >= d
    <3>1. i - d \in Degrees
      BY <2>1 DEF Degrees
    <3>2. a[i - d] \in Int
      BY <3>1, CoefficientIs
    <3>3. f[i] = c * a[i - d]
      BY <2>1
    <3> HIDE DEF f
    <3> QED BY <3>2, <3>3
  <2>2. CASE ~(i >= d)
    <3>1. i + 19 - d \in Degrees
      BY <2>2 DEF Degrees
    <3> DEFINE x == a[i + 19 - d]  y == (2 * c) % P
    <3>2. x \in Int /\ y \in Int
      BY <3>1, CoefficientIs, Positive
    <3>3. f[i] = y * x
      BY <2>2
    <3> HIDE DEF f, x, y
    <3> QED BY <3>2, <3>3
  <2> QED BY <2>1, <2>2
<1> HIDE DEF f
<1>2. Poly(f) \in Polynomials
  BY <1>1, PolyIs
<1> QED BY <1>2 DEF TimesMonomial, f

-----------------------------------------------------------------------------
\* Points, finite or not, have elements as coordinates.
Points == [neutral : BOOLEAN, x : Polynomials, y : Polynomials]
Jacobians == [X : Polynomials, Y : Polynomials, Z : Polynomials]

LEMMA ConstantsClosed ==
  /\ A \in Int /\ B \in Int /\ Bi \in Degrees /\ P \in Int /\ Zero \in Polynomials
  /\ \A k \in Int : Constant(k) \in Polynomials /\ \A d : Monomial(k, d) \in Polynomials
<1>1. A \in Int /\ B \in Int /\ Bi \in Degrees /\ P \in Int
  BY DEF A, B, Bi, Degrees, P
<1>2. 0 \in Int
  OBVIOUS
<1> QED BY <1>1, <1>2, MonomialClosed

LEMMA TimesBClosed ==
  ASSUME NEW a \in Polynomials, NEW k \in Int
  PROVE  TimesB(k, a) \in Polynomials
<1> DEFINE c == (k * B) % P
<1>1. c \in Int
  BY ConstantsClosed, Positive
<1>2. TimesB(k, a) = TimesMonomial(c, Bi, a)
  BY DEF TimesB
<1> HIDE DEF c
<1> QED BY <1>1, <1>2, ConstantsClosed, TimesMonomialClosed

LEMMA RightHandSideClosed ==
  ASSUME NEW x \in Polynomials
  PROVE  RightHandSide(x) \in Polynomials
<1>1. Times(Square(x), x) \in Polynomials
  BY TimesClosed
<1>2. Scaled(A, x) \in Polynomials /\ Monomial(B, Bi) \in Polynomials
  BY ConstantsClosed, ScaledClosed
<1> QED BY <1>1, <1>2, SumsClosed DEF RightHandSide

LEMMA SlopeClosed ==
  ASSUME NEW Q1 \in Points, NEW Q2 \in Points
  PROVE  Slope(Q1, Q2) \in Polynomials
<1> DEFINE ex == Q1.x = Q2.x
           n == IF ex THEN Plus(Scaled(3, Square(Q1.x)), Constant(A)) ELSE Minus(Q2.y, Q1.y)
           d == IF ex THEN Plus(Q1.y, Q1.y) ELSE Minus(Q2.x, Q1.x)
<1>1. Q1.x \in Polynomials /\ Q1.y \in Polynomials /\ Q2.x \in Polynomials /\ Q2.y \in Polynomials
  BY DEF Points
<1>2. Plus(Scaled(3, Square(Q1.x)), Constant(A)) \in Polynomials
  <2>1. 3 \in Int /\ Constant(A) \in Polynomials
    BY ConstantsClosed
  <2>2. Scaled(3, Square(Q1.x)) \in Polynomials
    BY <1>1, <2>1, TimesClosed, ScaledClosed
  <2> QED BY <2>1, <2>2, SumsClosed
<1>3. n \in Polynomials /\ d \in Polynomials
  BY <1>1, <1>2, SumsClosed
<1>4. Slope(Q1, Q2) = Times(n, Reciprocal(d))
  BY DEF Slope
<1> HIDE DEF n, d
<1> QED BY <1>3, <1>4, ReciprocalClosed, TimesClosed

LEMMA ThirdPointClosed ==
  ASSUME NEW Q1 \in Points, NEW Q2 \in Points
  PROVE  ThirdPoint(Q1, Q2).x \in Polynomials /\ ThirdPoint(Q1, Q2).y \in Polynomials
<1> DEFINE lambda == Slope(Q1, Q2)
           x3 == Minus(Minus(Square(lambda), Q1.x), Q2.x)
           y3 == Minus(Times(lambda, Minus(Q1.x, x3)), Q1.y)
<1>1. Q1.x \in Polynomials /\ Q1.y \in Polynomials /\ Q2.x \in Polynomials /\ Q2.y \in Polynomials
  BY DEF Points
<1>2. ThirdPoint(Q1, Q2).x = x3 /\ ThirdPoint(Q1, Q2).y = y3
  BY DEF ThirdPoint
<1>3. lambda \in Polynomials
  BY SlopeClosed
<1> HIDE DEF lambda
<1>4. x3 \in Polynomials
  BY <1>1, <1>3, TimesClosed, SumsClosed
<1> HIDE DEF x3
<1>5. y3 \in Polynomials
  BY <1>1, <1>3, <1>4, TimesClosed, SumsClosed
<1> QED BY <1>2, <1>4, <1>5

LEMMA PointAddClosed ==
  ASSUME NEW Q1 \in Points, NEW Q2 \in Points
  PROVE  PointAdd(Q1, Q2) \subseteq Points /\ PointAdd(Q1, Q2) # {}
<1> DEFINE none == \/ Q1.neutral /\ Q2.neutral
                   \/ ~Q1.neutral /\ ~Q2.neutral /\ Q1.x = Q2.x /\ Q1.y # Q2.y
           S == CASE Q1.neutral /\ Q2.neutral -> {Q1, Q2}
                  [] Q1.neutral /\ ~Q2.neutral -> {Q2}
                  [] ~Q1.neutral /\ Q2.neutral -> {Q1}
                  [] ~Q1.neutral /\ ~Q2.neutral -> {ThirdPoint(Q1, Q2)}
           T == {[neutral |-> none, x |-> R.x, y |-> R.y] : R \in S}
<1>1. PointAdd(Q1, Q2) = T
  BY DEF PointAdd
<1>2. none \in BOOLEAN /\ Q1.neutral \in BOOLEAN /\ Q2.neutral \in BOOLEAN
  BY DEF Points
<1>3. /\ Q1.x \in Polynomials /\ Q1.y \in Polynomials /\ Q2.x \in Polynomials /\ Q2.y \in Polynomials
  BY DEF Points
<1>4. ThirdPoint(Q1, Q2).x \in Polynomials /\ ThirdPoint(Q1, Q2).y \in Polynomials
  BY ThirdPointClosed
<1>5. S # {} /\ \A R \in S : R.x \in Polynomials /\ R.y \in Polynomials
  <2> DEFINE t == ThirdPoint(Q1, Q2)
  <2>1. t.x \in Polynomials /\ t.y \in Polynomials
    BY <1>4
  <2> HIDE DEF t
  <2> USE DEF t
  <2>2. CASE Q1.neutral /\ Q2.neutral
    BY <1>3, <2>2
  <2>3. CASE Q1.neutral /\ ~Q2.neutral
    BY <1>3, <2>3
  <2>4. CASE ~Q1.neutral /\ Q2.neutral
    BY <1>3, <2>4
  <2>5. CASE ~Q1.neutral /\ ~Q2.neutral
    BY <1>4, <2>5
  <2> QED BY <1>2, <2>2, <2>3, <2>4, <2>5
<1> HIDE DEF none, S
<1>6. T \subseteq Points
  BY <1>2, <1>5 DEF Points
<1>7. T # {}
  <2>1. PICK R \in S : TRUE
    BY <1>5
  <2>2. [neutral |-> none, x |-> R.x, y |-> R.y] \in T
    OBVIOUS
  <2> QED BY <2>2
<1> QED BY <1>1, <1>6, <1>7

LEMMA PointNegClosed ==
  ASSUME NEW Q1 \in Points, NEW Q2 \in Points
  PROVE  PointNeg(Q1) \in Points /\ PointSub(Q1, Q2) \subseteq Points
<1>1. ASSUME NEW Q \in Points PROVE PointNeg(Q) \in Points
  <2>1. Q.y \in Polynomials
    BY DEF Points
  <2>2. Negated(Q.y) \in Polynomials
    <3>1. 0 \in Int
      OBVIOUS
    <3> QED BY <2>1, <3>1, ScaledClosed
  <2> QED BY <2>2 DEF PointNeg, Points
<1> QED BY <1>1, PointAddClosed DEF PointSub

LEMMA FirstDoubleClosed ==
  ASSUME NEW Q \in Points
  PROVE  FirstDouble(Q) \in Jacobians
<1> DEFINE x == Q.x  y == Q.y  xx == Square(x)  xxxx == Square(xx)  yy == Square(y)
           m == Monomial(-27 * ((B * B) % P), 2 * Bi)
           X == Plus(Plus(xxxx, Scaled(6, xx)), Plus(TimesB(-8, x), Constant(9)))
           Y == Plus(Plus(Plus(Square(yy), TimesB(18, yy)),
                          Plus(Scaled(-9, xxxx), Scaled(-54, xx))),
                     Plus(TimesB(72, x), Plus(Constant(27), m)))
           Z == Plus(y, y)
<1>1. FirstDouble(Q) = [X |-> X, Y |-> Y, Z |-> Z]
  BY DEF FirstDouble
<1>2. x \in Polynomials /\ y \in Polynomials
  BY DEF Points
<1> HIDE DEF x, y
<1>3. /\ 6 \in Int /\ -8 \in Int /\ 9 \in Int /\ 18 \in Int /\ -9 \in Int /\ -54 \in Int /\ 72 \in Int
      /\ 27 \in Int
  OBVIOUS
<1>4. m \in Polynomials
  <2> DEFINE b == (B * B) % P
  <2>1. b \in Int
    <3>1. B * B \in Int
      BY ConstantsClosed
    <3> QED BY <3>1, Positive
  <2> HIDE DEF b
  <2>2. -27 * b \in Int
    BY <2>1
  <2> QED BY <2>2, ConstantsClosed DEF b
<1> HIDE DEF m
<1>5. xx \in Polynomials /\ yy \in Polynomials
  BY <1>2, TimesClosed
<1> HIDE DEF xx, yy
<1>6. xxxx \in Polynomials /\ Square(yy) \in Polynomials
  BY <1>5, TimesClosed
<1> HIDE DEF xxxx
<1>7. /\ Scaled(6, xx) \in Polynomials /\ Scaled(-9, xxxx) \in Polynomials
      /\ Scaled(-54, xx) \in Polynomials
  BY <1>3, <1>5, <1>6, ScaledClosed
<1>8. /\ TimesB(-8, x) \in Polynomials /\ TimesB(18, yy) \in Polynomials /\ TimesB(72, x) \in Polynomials
  BY <1>2, <1>3, <1>5, TimesBClosed
<1>9. Constant(9) \in Polynomials /\ Constant(27) \in Polynomials
  BY <1>3, ConstantsClosed
<1>10. X \in Polynomials /\ Z \in Polynomials
  BY <1>2, <1>6, <1>7, <1>8, <1>9, SumsClosed
<1>11. Y \in Polynomials
  BY <1>4, <1>6, <1>7, <1>8, <1>9, SumsClosed
<1> HIDE DEF X, Y, Z
<1> QED BY <1>1, <1>10, <1>11 DEF Jacobians

LEMMA DoubleFromClosed ==
  ASSUME NEW M \in Polynomials, NEW S \in Polynomials, NEW e \in Polynomials, NEW Z \in Polynomials
  PROVE  DoubleFrom(M, S, e, Z) \in Jacobians
<1> DEFINE X2 == Minus(Minus(Square(M), S), S)
           Y2 == Minus(Times(Minus(S, X2), M), e)
<1>1. DoubleFrom(M, S, e, Z) = [X |-> X2, Y |-> Y2, Z |-> Z]
  BY DEF DoubleFrom
<1>2. X2 \in Polynomials
  BY TimesClosed, SumsClosed
<1> HIDE DEF X2
<1>3. Y2 \in Polynomials
  BY <1>2, TimesClosed, SumsClosed
<1> HIDE DEF Y2
<1> QED BY <1>1, <1>2, <1>3 DEF Jacobians

LEMMA DoubleRefClosed ==
  ASSUME NEW J \in Jacobians
  PROVE  DoubleRef(J) \in Jacobians
<1> DEFINE x == J.X  y == J.Y  z == J.Z  xx == Square(x)  yy == Square(y)  yyyy == Square(yy)
           zz == Square(z)
           M == Scaled(3, Minus(xx, Square(zz)))
           S == Scaled(2, Minus(Minus(Square(Plus(x, yy)), xx), yyyy))
           Z == Minus(Minus(Square(Plus(y, z)), yy), zz)
<1>1. DoubleRef(J) = DoubleFrom(M, S, Scaled(8, yyyy), Z)
  BY DEF DoubleRef
<1>2. x \in Polynomials /\ y \in Polynomials /\ z \in Polynomials
  BY DEF Jacobians
<1> HIDE DEF x, y, z
<1>3. xx \in Polynomials /\ yy \in Polynomials /\ zz \in Polynomials
  BY <1>2, TimesClosed
<1> HIDE DEF xx, yy, zz
<1>4. yyyy \in Polynomials /\ Square(zz) \in Polynomials
  BY <1>3, TimesClosed
<1> HIDE DEF yyyy
<1>5. 3 \in Int /\ 2 \in Int /\ 8 \in Int
  OBVIOUS
<1>6. M \in Polynomials /\ Scaled(8, yyyy) \in Polynomials
  BY <1>3, <1>4, <1>5, SumsClosed, ScaledClosed
<1>7. S \in Polynomials
  <2>1. Minus(Minus(Square(Plus(x, yy)), xx), yyyy) \in Polynomials
    BY <1>2, <1>3, <1>4, SumsClosed, TimesClosed
  <2> QED BY <1>5, <2>1, ScaledClosed
<1>8. Z \in Polynomials
  BY <1>2, <1>3, SumsClosed, TimesClosed
<1> HIDE DEF M, S, Z
<1> QED BY <1>1, <1>6, <1>7, <1>8, DoubleFromClosed

LEMMA DoubleAvx2Closed ==
  ASSUME NEW J \in Jacobians
  PROVE  DoubleAvx2(J) \in Jacobians
<1> DEFINE x == J.X  y == J.Y  z == J.Z  Y2 == Plus(y, y)  YY == Square(Y2)  zz == Square(z)
           half == (P + 1) \div 2
           M == Scaled(3, Times(Minus(x, zz), Plus(x, zz)))
<1>1. DoubleAvx2(J) = DoubleFrom(M, Times(YY, x), Scaled(half, Square(YY)), Times(Y2, z))
  BY DEF DoubleAvx2
<1>2. x \in Polynomials /\ y \in Polynomials /\ z \in Polynomials
  BY DEF Jacobians
<1> HIDE DEF x, y, z
<1>3. Y2 \in Polynomials /\ zz \in Polynomials
  BY <1>2, TimesClosed, SumsClosed
<1> HIDE DEF Y2, zz
<1>4. YY \in Polynomials
  BY <1>3, TimesClosed
<1> HIDE DEF YY
<1>5. 3 \in Int /\ half \in Int
  BY ConstantsClosed
<1> HIDE DEF half
<1>6. M \in Polynomials
  BY <1>2, <1>3, <1>5, SumsClosed, TimesClosed, ScaledClosed
<1>7. Times(YY, x) \in Polynomials /\ Scaled(half, Square(YY)) \in Polynomials /\ Times(Y2, z) \in Polynomials
  BY <1>2, <1>3, <1>4, <1>5, TimesClosed, ScaledClosed
<1> HIDE DEF M
<1> QED BY <1>1, <1>6, <1>7, DoubleFromClosed

AreDoubles(f, build0, J, n) ==
    f = [k \in 0..n |->
            IF k = 0 THEN J
            ELSE IF build0 = "ref" THEN DoubleRef(f[k - 1]) ELSE DoubleAvx2(f[k - 1])]

LEMMA DoubledClosed ==
  ASSUME NEW build0, NEW J \in Jacobians, NEW n \in Nat
  PROVE  Doubled(build0, J, n) \in Jacobians
<1> DEFINE next(h) == IF build0 = "ref" THEN DoubleRef(h) ELSE DoubleAvx2(h)
           step == [u \in (1..n) \X Jacobians |-> next(u[2])]
           f == CHOOSE g : AreDoubles(g, build0, J, n)
<1>1. ASSUME NEW h \in Jacobians PROVE next(h) \in Jacobians
  BY DoubleRefClosed, DoubleAvx2Closed
<1>2. \A k \in 1..n, h \in Jacobians : step[<<k, h>>] = next(h)
  OBVIOUS
<1>3. \A g : AreDoubles(g, build0, J, n) <=> g = [k \in 0..n |-> IF k = 0 THEN J ELSE next(g[k - 1])]
  BY DEF AreDoubles
<1>4. Doubled(build0, J, n) = f[n]
  BY DEF Doubled, AreDoubles
<1> HIDE DEF next, step, f
<1>5. \E g : AreDoubles(g, build0, J, n)
  <2>1. IsStep(step, n, Jacobians)
    BY <1>1, <1>2 DEF IsStep
  <2>2. PICK g : IsRecursive(g, n, Jacobians, J, step)
    BY <2>1, Recursion
  <2>3. /\ g \in [0..n -> Jacobians] /\ g[0] = J
        /\ \A k \in 1..n : g[k] = step[<<k, g[k - 1]>>]
    BY <2>2 DEF IsRecursive
  <2>4. ASSUME NEW k \in 0..n PROVE g[k] = IF k = 0 THEN J ELSE next(g[k - 1])
    <3>1. CASE k = 0
      BY <2>3, <3>1
    <3>2. CASE k # 0
      <4>1. k \in 1..n /\ k - 1 \in 0..n
        BY <3>2
      <4>2. g[k - 1] \in Jacobians
        BY <2>3, <4>1
      <4> QED BY <1>2, <2>3, <3>2, <4>1, <4>2
    <3> QED BY <3>1, <3>2
  <2>5. g = [k \in 0..n |-> g[k]]
    BY <2>3
  <2>6. g = [k \in 0..n |-> IF k = 0 THEN J ELSE next(g[k - 1])]
    BY <2>4, <2>5, Zenon
  <2> QED BY <1>3, <2>6
<1>6. AreDoubles(f, build0, J, n)
  BY <1>5 DEF f
<1>7. f = [k \in 0..n |-> IF k = 0 THEN J ELSE next(f[k - 1])]
  BY <1>3, <1>6
<1>8. f[0] \in Jacobians
  BY <1>7
<1>9. ASSUME NEW k \in 1..n, f[k - 1] \in Jacobians PROVE f[k] \in Jacobians
  <2>1. k \in 0..n /\ k # 0
    OBVIOUS
  <2>2. f[k] = next(f[k - 1])
    BY <1>7, <2>1
  <2> QED BY <1>1, <1>9, <2>2
<1>10. f[n] \in Jacobians
  <2>1. \A k \in 0..n : f[k] \in Jacobians
    BY <1>8, <1>9, StaysIn
  <2> QED BY <2>1
<1> QED BY <1>4, <1>10

LEMMA AffineClosed ==
  ASSUME NEW neutral \in BOOLEAN, NEW J \in Jacobians
  PROVE  Affine(neutral, J) \in Points
<1> DEFINE zi == Reciprocal(J.Z)  zzi == Square(zi)
           x == Times(J.X, zzi)  y == Times(J.Y, Times(zzi, zi))
<1>1. Affine(neutral, J) = [neutral |-> neutral, x |-> x, y |-> y]
  BY DEF Affine
<1>2. J.X \in Polynomials /\ J.Y \in Polynomials /\ J.Z \in Polynomials
  BY DEF Jacobians
<1>3. zi \in Polynomials
  BY <1>2, ReciprocalClosed
<1> HIDE DEF zi
<1>4. x \in Polynomials /\ y \in Polynomials
  BY <1>2, <1>3, TimesClosed
<1> HIDE DEF x, y
<1> QED BY <1>1, <1>4 DEF Points

LEMMA PointMul2kClosed ==
  ASSUME NEW build0, NEW Q \in Points, NEW k \in Nat
  PROVE  PointMul2k(build0, Q, k) \subseteq Points
<1>1. CASE k = 0 \/ k = 1
  BY <1>1, PointAddClosed DEF PointMul2k
<1>2. CASE k # 0 /\ k # 1
  <2> DEFINE J == FirstDouble(Q)  n == k - 1
  <2>1. n \in Nat /\ J \in Jacobians /\ Q.neutral \in BOOLEAN
    BY <1>2, FirstDoubleClosed DEF Points
  <2>2. PointMul2k(build0, Q, k) = {Affine(Q.neutral, Doubled(build0, J, n))}
    BY <1>2 DEF PointMul2k
  <2> HIDE DEF J, n
  <2> QED BY <2>1, <2>2, DoubledClosed, AffineClosed
<1> QED BY <1>1, <1>2

LEMMA IcartClosed ==
  ASSUME NEW u \in Polynomials
  PROVE  Icart_map(u) \in Points
<1> DEFINE uu == Square(u)  uuuu == Square(uu)
           v == Times(Minus(Constant(-9), uuuu), Reciprocal(Scaled(6, u)))
           k27 == BaseReciprocal(-27)  k3 == BaseReciprocal(3)
           c == Minus(Plus(Square(v), Scaled(k27, Times(uu, uuuu))), Monomial(B, Bi))
           x == Plus(CubeRoot(c), Scaled(k3, uu))
           y == Plus(Times(u, x), v)
<1>1. Icart_map(u) = [neutral |-> u = Zero, x |-> x, y |-> y]
  BY DEF Icart_map
<1>2. k27 \in Int /\ k3 \in Int /\ 6 \in Int /\ -9 \in Int
  <2>1. (-27) % P \in Int /\ 3 % P \in Int
    BY Positive
  <2> QED BY <2>1, BaseInverseIs DEF BaseReciprocal
<1> HIDE DEF k27, k3
<1>3. uu \in Polynomials
  BY TimesClosed
<1> HIDE DEF uu
<1>4. uuuu \in Polynomials
  BY <1>3, TimesClosed
<1> HIDE DEF uuuu
<1>5. v \in Polynomials
  <2>1. Constant(-9) \in Polynomials /\ Scaled(6, u) \in Polynomials
    BY <1>2, ConstantsClosed, ScaledClosed
  <2> QED BY <1>4, <2>1, SumsClosed, ReciprocalClosed, TimesClosed
<1> HIDE DEF v
<1>6. c \in Polynomials
  <2>1. Scaled(k27, Times(uu, uuuu)) \in Polynomials /\ Monomial(B, Bi) \in Polynomials
    BY <1>2, <1>3, <1>4, ConstantsClosed, ScaledClosed, TimesClosed
  <2> QED BY <1>5, <2>1, SumsClosed, TimesClosed
<1> HIDE DEF c
<1>7. x \in Polynomials
  BY <1>2, <1>3, <1>6, RootsClosed, ScaledClosed, SumsClosed
<1> HIDE DEF x
<1>8. y \in Polynomials
  BY <1>5, <1>7, SumsClosed, TimesClosed
<1> HIDE DEF y
<1> QED BY <1>1, <1>7, <1>8 DEF Points

-----------------------------------------------------------------------------
\* The digits of a scalar index the window of multiples.
AreRests(f, s, w, offset) ==
    f = [k \in 0..LastDigits |-> IF k = 0 THEN s + offset ELSE f[k - 1] \div 2^w]

LEMMA RestsAre ==
  ASSUME NEW s \in Int, NEW w, NEW offset \in Int, 2^w \in Nat, 2^w > 0
  PROVE  \A k \in 0..LastDigits : (CHOOSE g : AreRests(g, s, w, offset))[k] \in Int
<1> DEFINE next(k, h) == h \div 2^w
           base == s + offset
           step == [u \in (1..LastDigits) \X Int |-> next(u[1], u[2])]
           f == CHOOSE g : AreRests(g, s, w, offset)
<1>0. LastDigits \in Nat /\ base \in Int
  BY ProductsAssumption
<1>1. ASSUME NEW k \in 1..LastDigits, NEW h \in Int PROVE next(k, h) \in Int
  <2> DEFINE m == 2^w
  <2>1. m \in Nat /\ m > 0
    OBVIOUS
  <2> HIDE DEF m
  <2>2. h \div m \in Int
    BY <2>1, Division
  <2> QED BY <2>2 DEF m
<1>2. \A k \in 1..LastDigits, h \in Int : step[<<k, h>>] = next(k, h)
  OBVIOUS
<1>3. \A g : AreRests(g, s, w, offset) <=> g = [k \in 0..LastDigits |-> IF k = 0 THEN base ELSE next(k, g[k - 1])]
  BY DEF AreRests
<1> HIDE DEF base
<1> HIDE DEF next, step, f
<1>5. \E g : AreRests(g, s, w, offset)
  <2>1. IsStep(step, LastDigits, Int)
    BY <1>1, <1>2 DEF IsStep
  <2>2. PICK g : IsRecursive(g, LastDigits, Int, base, step)
    BY <1>0, <2>1, Recursion
  <2>3. /\ g \in [0..LastDigits -> Int] /\ g[0] = base
        /\ \A k \in 1..LastDigits : g[k] = step[<<k, g[k - 1]>>]
    BY <2>2 DEF IsRecursive
  <2>4. ASSUME NEW k \in 0..LastDigits PROVE g[k] = IF k = 0 THEN base ELSE next(k, g[k - 1])
    <3>1. CASE k = 0
      BY <2>3, <3>1
    <3>2. CASE k # 0
      <4>1. k \in 1..LastDigits /\ k - 1 \in 0..LastDigits
        BY <1>0, <3>2
      <4>2. g[k - 1] \in Int
        BY <2>3, <4>1
      <4> QED BY <1>2, <2>3, <3>2, <4>1, <4>2
    <3> QED BY <3>1, <3>2
  <2>5. g = [k \in 0..LastDigits |-> g[k]]
    BY <2>3
  <2>6. g = [k \in 0..LastDigits |-> IF k = 0 THEN base ELSE next(k, g[k - 1])]
    BY <2>4, <2>5, Zenon
  <2> QED BY <1>3, <2>6
<1>6. AreRests(f, s, w, offset)
  BY <1>5 DEF f
<1>7. f = [k \in 0..LastDigits |-> IF k = 0 THEN base ELSE next(k, f[k - 1])]
  BY <1>3, <1>6
<1>8. f[0] \in Int
  BY <1>0, <1>7
<1>9. ASSUME NEW k \in 1..LastDigits, f[k - 1] \in Int PROVE f[k] \in Int
  <2>1. k \in 0..LastDigits /\ k # 0
    BY <1>0
  <2>2. f[k] = next(k, f[k - 1])
    BY <1>7, <2>1
  <2> QED BY <1>1, <1>9, <2>2
<1>10. \A k \in 0..LastDigits : f[k] \in Int
  BY <1>0, <1>8, <1>9, StaysIn
<1> QED BY <1>10 DEF f

LEMMA DigitsAre ==
  ASSUME NEW s \in Int, NEW w \in {4, 5}, NEW t \in 1..LastDigits
  PROVE  DigitsOf(s, w)[t] \in -16..15
<1> DEFINE offset == ((2^(w * LastDigits) - 1) \div (2^w - 1)) * 2^(w - 1)
           f == CHOOSE g : AreRests(g, s, w, offset)
           d == f[LastDigits - t] % 2^w
<1>1. LastDigits \in Nat /\ LastDigits - t \in 0..LastDigits
  BY ProductsAssumption
<1>2. (w = 4 /\ 2^w = 16 /\ 2^(w - 1) = 8) \/ (w = 5 /\ 2^w = 32 /\ 2^(w - 1) = 16)
  <2>1. 2^4 = 16 /\ 2^3 = 8 /\ 2^5 = 32
    OBVIOUS
  <2>2. CASE w = 4
    <3>1. w - 1 = 3
      BY <2>2
    <3> QED BY <2>1, <2>2, <3>1
  <2>3. CASE w = 5
    <3>1. w - 1 = 4
      BY <2>3
    <3> QED BY <2>1, <2>3, <3>1
  <2> QED BY <2>2, <2>3
<1>3. 2^w \in Nat /\ 2^w > 0 /\ 2^w - 1 \in Nat /\ 2^w - 1 > 0 /\ 2^(w - 1) \in Int
  BY <1>2
<1>4. DigitsOf(s, w)[t] = d - 2^(w - 1)
  BY DEF DigitsOf, AreRests
<1>5. offset \in Int
  <2> DEFINE n == w * LastDigits  v == 2^n  u == 2^w - 1  q == (v - 1) \div u  h == 2^(w - 1)
  <2>1. n \in Nat
    BY <1>1
  <2>2. u \in Nat /\ u > 0 /\ h \in Int
    BY <1>3
  <2>3. offset = q * h
    OBVIOUS
  <2> HIDE DEF n, u, h
  <2>4. v \in Int
    BY <2>1
  <2> HIDE DEF v
  <2>5. v - 1 \in Int
    BY <2>4
  <2>6. q \in Int
    BY <2>2, <2>5, Division
  <2> HIDE DEF q, offset
  <2> QED BY <2>2, <2>3, <2>6
<1> HIDE DEF offset
<1>6. f[LastDigits - t] \in Int
  BY <1>1, <1>3, <1>5, RestsAre
<1> HIDE DEF f
<1>7. d \in 0..(2^w - 1)
  <2> DEFINE m == 2^w  x == f[LastDigits - t]
  <2>1. m \in Nat /\ m > 0 /\ x \in Int
    BY <1>3, <1>6
  <2> HIDE DEF m, x
  <2>2. x % m \in 0..(m - 1)
    BY <2>1, Division
  <2> QED BY <2>2 DEF m, x
<1> HIDE DEF d
<1> DEFINE m == 2^w  h == 2^(w - 1)
<1>8. (m = 16 /\ h = 8) \/ (m = 32 /\ h = 16)
  BY <1>2
<1>9. d \in 0..(m - 1) /\ DigitsOf(s, w)[t] = d - h
  BY <1>4, <1>7
<1> HIDE DEF m, h
<1>10. d - h \in -16..15
  BY <1>8, <1>9
<1> QED BY <1>9, <1>10

AreEntries(f, Q) ==
    f = [k \in 0..15 |->
            IF k = 0 THEN Q
            ELSE LET last == f[k - 1] IN CHOOSE R \in PointAdd(last, Q) : TRUE]

LEMMA EntriesAre ==
  ASSUME NEW Q \in Points
  PROVE  \A k \in 0..15 : (CHOOSE g : AreEntries(g, Q))[k] \in Points
<1> DEFINE next(k, h) == CHOOSE R \in PointAdd(h, Q) : TRUE
           top == 15
           step == [u \in (1..top) \X Points |-> next(u[1], u[2])]
           f == CHOOSE g : AreEntries(g, Q)
<1>0. top \in Nat /\ top = 15
  OBVIOUS
<1>1. ASSUME NEW k \in 1..top, NEW h \in Points PROVE next(k, h) \in Points
  <2>1. PointAdd(h, Q) \subseteq Points /\ PointAdd(h, Q) # {}
    BY PointAddClosed
  <2> QED BY <2>1
<1>2. \A k \in 1..top, h \in Points : step[<<k, h>>] = next(k, h)
  OBVIOUS
<1>3. \A g : AreEntries(g, Q) <=> g = [k \in 0..top |-> IF k = 0 THEN Q ELSE next(k, g[k - 1])]
  BY DEF AreEntries
<1> HIDE DEF top
<1> HIDE DEF next, step, f
<1>5. \E g : AreEntries(g, Q)
  <2>1. IsStep(step, top, Points)
    BY <1>1, <1>2 DEF IsStep
  <2>2. PICK g : IsRecursive(g, top, Points, Q, step)
    BY <1>0, <2>1, Recursion
  <2>3. /\ g \in [0..top -> Points] /\ g[0] = Q
        /\ \A k \in 1..top : g[k] = step[<<k, g[k - 1]>>]
    BY <2>2 DEF IsRecursive
  <2>4. ASSUME NEW k \in 0..top PROVE g[k] = IF k = 0 THEN Q ELSE next(k, g[k - 1])
    <3>1. CASE k = 0
      BY <2>3, <3>1
    <3>2. CASE k # 0
      <4>1. k \in 1..top /\ k - 1 \in 0..top
        BY <1>0, <3>2
      <4>2. g[k - 1] \in Points
        BY <2>3, <4>1
      <4> QED BY <1>2, <2>3, <3>2, <4>1, <4>2
    <3> QED BY <3>1, <3>2
  <2>5. g = [k \in 0..top |-> g[k]]
    BY <2>3
  <2>6. g = [k \in 0..top |-> IF k = 0 THEN Q ELSE next(k, g[k - 1])]
    BY <2>4, <2>5, Zenon
  <2> QED BY <1>3, <2>6
<1>6. AreEntries(f, Q)
  BY <1>5 DEF f
<1>7. f = [k \in 0..top |-> IF k = 0 THEN Q ELSE next(k, f[k - 1])]
  BY <1>3, <1>6
<1>8. f[0] \in Points
  BY <1>0, <1>7
<1>9. ASSUME NEW k \in 1..top, f[k - 1] \in Points PROVE f[k] \in Points
  <2>1. k \in 0..top /\ k # 0
    BY <1>0
  <2>2. f[k] = next(k, f[k - 1])
    BY <1>7, <2>1
  <2> QED BY <1>1, <1>9, <2>2
<1>10. \A k \in 0..top : f[k] \in Points
  BY <1>0, <1>8, <1>9, StaysIn
<1> QED BY <1>0, <1>10 DEF f

LEMMA LookupClosed ==
  ASSUME NEW Q \in Points, NEW d \in -16..15
  PROVE  Lookup(Q, d) \in Points
<1> DEFINE f == CHOOSE g : AreEntries(g, Q)
           i == CASE d = 0 -> 0 [] d > 0 -> d - 1 [] d < 0 -> -d - 1
           T == [f[i] EXCEPT !.neutral = Q.neutral \/ d = 0]
<1>1. Lookup(Q, d) = IF d <= 0 THEN PointNeg(T) ELSE T
  BY DEF Lookup, AreEntries
<1>2. i \in 0..15
  <2>1. CASE d = 0
    BY <2>1
  <2>2. CASE d > 0
    BY <2>2
  <2>3. CASE d < 0
    BY <2>3
  <2> QED BY <2>1, <2>2, <2>3
<1> HIDE DEF i
<1>3. f[i] \in Points
  BY <1>2, EntriesAre
<1> HIDE DEF f
<1>4. T \in Points
  <2>1. (Q.neutral \/ d = 0) \in BOOLEAN
    OBVIOUS
  <2> QED BY <1>3, <2>1 DEF Points
<1> HIDE DEF T
<1> QED BY <1>1, <1>4, PointNegClosed

AreSums(f, Q, digits) ==
    f = [t \in 0..LastDigits |->
            IF t = 0 THEN {Lookup(Q, 0)}
            ELSE UNION { PointAdd(R, Lookup(Q, digits[t])) : R \in Raised(f[t - 1]) }]

LEMMA ProductRefClosed ==
  ASSUME NEW Q \in Points, NEW s \in Int
  PROVE  ProductRef(Q, s) \subseteq Points
<1> DEFINE D == SUBSET Points
           digits == DigitsOf(s, 4)
           base == {Lookup(Q, 0)}
           next(k, h) == UNION { PointAdd(R, Lookup(Q, digits[k])) : R \in Raised(h) }
           step == [u \in (1..LastDigits) \X D |-> next(u[1], u[2])]
           f == CHOOSE g : AreSums(g, Q, digits)
<1>0. LastDigits \in Nat /\ base \in D
  <2>1. 0 \in -16..15
    OBVIOUS
  <2> QED BY <2>1, ProductsAssumption, LookupClosed
<1>1. ASSUME NEW k \in 1..LastDigits, NEW h \in D PROVE next(k, h) \in D
  <2>1. digits[k] \in -16..15
    BY DigitsAre
  <2> HIDE DEF digits
  <2>2. Lookup(Q, digits[k]) \in Points
    BY <2>1, LookupClosed
  <2> DEFINE L == Lookup(Q, digits[k])
  <2>3. Raised(h) \subseteq Points
    <3>1. 4 \in Nat
      OBVIOUS
    <3>2. \A S \in h : PointMul2k("ref", S, 4) \subseteq Points
      BY <3>1, PointMul2kClosed
    <3> QED BY <3>2 DEF Raised
  <2> HIDE DEF L
  <2>4. \A R \in Raised(h) : PointAdd(R, L) \subseteq Points
    BY <2>2, <2>3, PointAddClosed DEF L
  <2>5. UNION { PointAdd(R, L) : R \in Raised(h) } \subseteq Points
    BY <2>4
  <2> QED BY <2>5 DEF L
<1>2. \A k \in 1..LastDigits, h \in D : step[<<k, h>>] = next(k, h)
  OBVIOUS
<1>3. \A g : AreSums(g, Q, digits) <=> g = [k \in 0..LastDigits |-> IF k = 0 THEN base ELSE next(k, g[k - 1])]
  BY DEF AreSums
<1>4. ProductRef(Q, s) = f[LastDigits]
  BY DEF ProductRef, AreSums
<1> HIDE DEF D, base, digits
<1> HIDE DEF next, step, f
<1>5. \E g : AreSums(g, Q, digits)
  <2>1. IsStep(step, LastDigits, D)
    BY <1>1, <1>2 DEF IsStep
  <2>2. PICK g : IsRecursive(g, LastDigits, D, base, step)
    BY <1>0, <2>1, Recursion
  <2>3. /\ g \in [0..LastDigits -> D] /\ g[0] = base
        /\ \A k \in 1..LastDigits : g[k] = step[<<k, g[k - 1]>>]
    BY <2>2 DEF IsRecursive
  <2>4. ASSUME NEW k \in 0..LastDigits PROVE g[k] = IF k = 0 THEN base ELSE next(k, g[k - 1])
    <3>1. CASE k = 0
      BY <2>3, <3>1
    <3>2. CASE k # 0
      <4>1. k \in 1..LastDigits /\ k - 1 \in 0..LastDigits
        BY <1>0, <3>2
      <4>2. g[k - 1] \in D
        BY <2>3, <4>1
      <4> QED BY <1>2, <2>3, <3>2, <4>1, <4>2
    <3> QED BY <3>1, <3>2
  <2>5. g = [k \in 0..LastDigits |-> g[k]]
    BY <2>3
  <2>6. g = [k \in 0..LastDigits |-> IF k = 0 THEN base ELSE next(k, g[k - 1])]
    BY <2>4, <2>5, Zenon
  <2> QED BY <1>3, <2>6
<1>6. AreSums(f, Q, digits)
  BY <1>5 DEF f
<1>7. f = [k \in 0..LastDigits |-> IF k = 0 THEN base ELSE next(k, f[k - 1])]
  BY <1>3, <1>6
<1>8. f[0] \in D
  BY <1>0, <1>7
<1>9. ASSUME NEW k \in 1..LastDigits, f[k - 1] \in D PROVE f[k] \in D
  <2>1. k \in 0..LastDigits /\ k # 0
    BY <1>0
  <2>2. f[k] = next(k, f[k - 1])
    BY <1>7, <2>1
  <2> QED BY <1>1, <1>9, <2>2
<1>10. \A k \in 0..LastDigits : f[k] \in D
  BY <1>0, <1>8, <1>9, StaysIn
<1>11. LastDigits \in 0..LastDigits
  BY <1>0
<1> QED BY <1>4, <1>10, <1>11 DEF D

Turns == [rz : BOOLEAN, J : Jacobians]

LEMMA MixedAddClosed ==
  ASSUME NEW J \in Jacobians, NEW T \in Points
  PROVE  MixedAdd(J, T) \in Jacobians
<1> DEFINE zz == Square(J.Z)
           dx == DifferenceX(J, T, zz)  dy == DifferenceY(J, T, zz)
           square == Square(dx)  cube == Times(square, dx)  V == Times(square, J.X)
           Xsum == Minus(Minus(Square(dy), Plus(V, V)), cube)
           Ysum == Minus(Times(Minus(V, Xsum), dy), Times(cube, J.Y))
           Zsum == Times(J.Z, dx)
<1>1. MixedAdd(J, T) = SumFrom(J, dx, dy, cube, V)
  BY DEF MixedAdd
<1>2. SumFrom(J, dx, dy, cube, V) = [X |-> Xsum, Y |-> Ysum, Z |-> Zsum]
  BY DEF SumFrom
<1>3. /\ J.X \in Polynomials /\ J.Y \in Polynomials /\ J.Z \in Polynomials
      /\ T.x \in Polynomials /\ T.y \in Polynomials
  BY DEF Jacobians, Points
<1>4. zz \in Polynomials
  BY <1>3, TimesClosed
<1> HIDE DEF zz
<1>5. dx \in Polynomials /\ dy \in Polynomials
  BY <1>3, <1>4, TimesClosed, SumsClosed DEF DifferenceX, DifferenceY
<1> HIDE DEF dx, dy
<1>6. square \in Polynomials
  BY <1>5, TimesClosed
<1> HIDE DEF square
<1>7. cube \in Polynomials /\ V \in Polynomials
  BY <1>3, <1>5, <1>6, TimesClosed
<1> HIDE DEF cube, V
<1>8. Xsum \in Polynomials
  BY <1>5, <1>7, TimesClosed, SumsClosed
<1> HIDE DEF Xsum
<1>9. Ysum \in Polynomials /\ Zsum \in Polynomials
  BY <1>3, <1>5, <1>7, <1>8, TimesClosed, SumsClosed
<1> HIDE DEF Ysum, Zsum
<1> QED BY <1>1, <1>2, <1>8, <1>9 DEF Jacobians

LEMMA JacobianTurnClosed ==
  ASSUME NEW S \in Turns, NEW T \in Points
  PROVE  JacobianTurn(S, T) \in Turns
<1> DEFINE J == Doubled("avx2", S.J, 5)
           K == CASE ~S.rz /\ ~T.neutral -> MixedAdd(J, T)
                  [] S.rz /\ ~T.neutral -> FromAffine(T)
                  [] ~S.rz /\ T.neutral -> J
                  [] S.rz /\ T.neutral -> Cleared
           rz == S.rz /\ T.neutral
<1>1. JacobianTurn(S, T) = [rz |-> rz, J |-> K]
  BY DEF JacobianTurn
<1>2. S.rz \in BOOLEAN /\ S.J \in Jacobians /\ T.neutral \in BOOLEAN
  BY DEF Turns, Points
<1>3. J \in Jacobians
  <2>1. 5 \in Nat
    OBVIOUS
  <2> QED BY <1>2, <2>1, DoubledClosed
<1> HIDE DEF J
<1>4. FromAffine(T) \in Jacobians /\ Cleared \in Jacobians
  <2>1. 1 \in Int
    OBVIOUS
  <2>2. Constant(1) \in Polynomials /\ Zero \in Polynomials
    BY <2>1, ConstantsClosed
  <2>3. T.x \in Polynomials /\ T.y \in Polynomials
    BY DEF Points
  <2> QED BY <2>2, <2>3 DEF FromAffine, Cleared, Jacobians
<1>5. K \in Jacobians
  <2>1. CASE ~S.rz /\ ~T.neutral
    BY <1>3, <2>1, MixedAddClosed
  <2>2. CASE S.rz /\ ~T.neutral
    BY <1>4, <2>2
  <2>3. CASE ~S.rz /\ T.neutral
    BY <1>3, <2>3
  <2>4. CASE S.rz /\ T.neutral
    BY <1>4, <2>4
  <2> QED BY <1>2, <2>1, <2>2, <2>3, <2>4
<1> HIDE DEF K
<1>6. rz \in BOOLEAN
  OBVIOUS
<1> HIDE DEF rz
<1> QED BY <1>1, <1>5, <1>6 DEF Turns

AreTurns(f, Q, digits) ==
    f = [t \in 0..(LastDigits - 1) |->
            IF t = 0 THEN [rz |-> TRUE, J |-> Cleared]
            ELSE LET S == f[t - 1] IN JacobianTurn(S, Lookup(Q, digits[t]))]

LEMMA ProductAvx2Closed ==
  ASSUME NEW Q \in Points, NEW s \in Int
  PROVE  ProductAvx2(Q, s) \subseteq Points
<1> DEFINE digits == DigitsOf(s, 5)
           n == LastDigits - 1
           base == [rz |-> TRUE, J |-> Cleared]
           next(k, h) == JacobianTurn(h, Lookup(Q, digits[k]))
           step == [u \in (1..n) \X Turns |-> next(u[1], u[2])]
           f == CHOOSE g : AreTurns(g, Q, digits)
<1>0. n \in Nat /\ base \in Turns
  <2>1. 0 \in Int
    OBVIOUS
  <2> QED BY <2>1, ProductsAssumption, ConstantsClosed DEF Cleared, Turns, Jacobians
<1>1. ASSUME NEW k \in 1..n, NEW h \in Turns PROVE next(k, h) \in Turns
  <2>1. k \in 1..LastDigits
    BY ProductsAssumption
  <2>2. digits[k] \in -16..15
    BY <2>1, DigitsAre
  <2> HIDE DEF digits
  <2> DEFINE L == Lookup(Q, digits[k])
  <2>3. L \in Points
    BY <2>2, LookupClosed
  <2> HIDE DEF L
  <2> QED BY <2>3, JacobianTurnClosed DEF L
<1>2. \A k \in 1..n, h \in Turns : step[<<k, h>>] = next(k, h)
  OBVIOUS
<1>3. \A g : AreTurns(g, Q, digits) <=> g = [k \in 0..n |-> IF k = 0 THEN base ELSE next(k, g[k - 1])]
  BY DEF AreTurns
<1>4. ProductAvx2(Q, s) = LastTurn(f[n], Lookup(Q, digits[LastDigits]))
  BY DEF ProductAvx2, AreTurns
<1> HIDE DEF n, base
<1> HIDE DEF next, step, f
<1>5. \E g : AreTurns(g, Q, digits)
  <2>1. IsStep(step, n, Turns)
    BY <1>1, <1>2 DEF IsStep
  <2>2. PICK g : IsRecursive(g, n, Turns, base, step)
    BY <1>0, <2>1, Recursion
  <2>3. /\ g \in [0..n -> Turns] /\ g[0] = base
        /\ \A k \in 1..n : g[k] = step[<<k, g[k - 1]>>]
    BY <2>2 DEF IsRecursive
  <2>4. ASSUME NEW k \in 0..n PROVE g[k] = IF k = 0 THEN base ELSE next(k, g[k - 1])
    <3>1. CASE k = 0
      BY <2>3, <3>1
    <3>2. CASE k # 0
      <4>1. k \in 1..n /\ k - 1 \in 0..n
        BY <1>0, <3>2
      <4>2. g[k - 1] \in Turns
        BY <2>3, <4>1
      <4> QED BY <1>2, <2>3, <3>2, <4>1, <4>2
    <3> QED BY <3>1, <3>2
  <2>5. g = [k \in 0..n |-> g[k]]
    BY <2>3
  <2>6. g = [k \in 0..n |-> IF k = 0 THEN base ELSE next(k, g[k - 1])]
    BY <2>4, <2>5, Zenon
  <2> QED BY <1>3, <2>6
<1>6. AreTurns(f, Q, digits)
  BY <1>5 DEF f
<1>7. f = [k \in 0..n |-> IF k = 0 THEN base ELSE next(k, f[k - 1])]
  BY <1>3, <1>6
<1>8. f[0] \in Turns
  BY <1>0, <1>7
<1>9. ASSUME NEW k \in 1..n, f[k - 1] \in Turns PROVE f[k] \in Turns
  <2>1. k \in 0..n /\ k # 0
    BY <1>0
  <2>2. f[k] = next(k, f[k - 1])
    BY <1>7, <2>1
  <2> QED BY <1>1, <1>9, <2>2
<1>10. \A k \in 0..n : f[k] \in Turns
  BY <1>0, <1>8, <1>9, StaysIn
<1> DEFINE L == Lookup(Q, digits[LastDigits])  S == f[n]
<1>11. L \in Points
  <2>1. LastDigits \in 1..LastDigits
    BY ProductsAssumption
  <2>2. digits[LastDigits] \in -16..15
    BY <2>1, DigitsAre
  <2> HIDE DEF digits
  <2> QED BY <2>2, LookupClosed
<1>12. S \in Turns
  <2>1. n \in 0..n
    BY <1>0
  <2> QED BY <1>10, <2>1
<1> HIDE DEF L, S
<1>13. LastTurn(S, L) \subseteq Points
  <2>1. 5 \in Nat /\ S.rz \in BOOLEAN /\ S.J \in Jacobians
    BY <1>12 DEF Turns
  <2>2. Affine(S.rz, Doubled("avx2", S.J, 5)) \in Points
    BY <2>1, DoubledClosed, AffineClosed
  <2> QED BY <1>11, <2>2, PointAddClosed DEF LastTurn
<1> QED BY <1>4, <1>13 DEF L, S

-----------------------------------------------------------------------------
\* The sign is the one of the highest coefficient that is not zero.
LEMMA SignIs ==
  ASSUME NEW a \in Polynomials, NEW h \in Degrees, a[h] # 0, \A j \in (h + 1)..18 : a[j] = 0
  PROVE  IsNegative(a) <=> a[h] > (P - 1) \div 2
<1>1. h \in 0..18 /\ h \in Int
  BY DEF Degrees
<1>2. (P - 1) \div 2 \in Nat
  BY DEF P
<1> DEFINE half == (P - 1) \div 2
<1> HIDE DEF half
<1>3. IsNegative(a) <=> \E i \in Degrees : a[i] > half /\ \A j \in (i + 1)..18 : a[j] = 0
  BY DEF IsNegative, half
<1>4. ASSUME NEW i \in Degrees, a[i] > half, \A j \in (i + 1)..18 : a[j] = 0
      PROVE  i = h
  <2>1. i \in 0..18 /\ i \in Int
    BY DEF Degrees
  <2>2. a[i] # 0
    BY <1>2, <1>4 DEF half
  <2>3. ~(h > i)
    <3> SUFFICES ASSUME h > i PROVE FALSE
      OBVIOUS
    <3>1. h \in (i + 1)..18
      BY <1>1, <2>1
    <3> QED BY <1>4, <3>1
  <2>4. ~(i > h)
    <3> SUFFICES ASSUME i > h PROVE FALSE
      OBVIOUS
    <3>1. i \in (h + 1)..18
      BY <1>1, <2>1
    <3> QED BY <2>2, <3>1
  <2> QED BY <1>1, <2>1, <2>3, <2>4
<1>5. a[h] > half => IsNegative(a)
  BY <1>3
<1>6. IsNegative(a) => a[h] > half
  BY <1>3, <1>4
<1> QED BY <1>5, <1>6 DEF half

LEMMA HighestIs ==
  ASSUME NEW a \in Polynomials, NEW i \in Degrees, a[i] # 0
  PROVE  \E h \in Degrees : a[h] # 0 /\ \A j \in (h + 1)..18 : a[j] = 0
<1> DEFINE S == {n \in 0..18 : a[18 - n] # 0}
<1>1. i \in 0..18 /\ 18 - (18 - i) = i
  BY DEF Degrees
<1>2. S \in SUBSET Nat /\ 18 - i \in S
  BY <1>1
<1>3. PICK m \in S : \A k \in S : m <= k
  BY <1>2, LeastNatural
<1>4. m \in 0..18 /\ a[18 - m] # 0
  OBVIOUS
<1>5. ASSUME NEW j \in ((18 - m) + 1)..18 PROVE a[j] = 0
  <2> SUFFICES ASSUME a[j] # 0 PROVE FALSE
    OBVIOUS
  <2>1. 18 - j \in 0..18 /\ 18 - (18 - j) = j /\ 18 - j < m
    BY <1>4
  <2>2. 18 - j \in S
    BY <2>1
  <2> HIDE DEF S
  <2>3. m <= 18 - j
    BY <1>3, <2>2
  <2> QED BY <1>4, <2>1, <2>3
<1>6. 18 - m \in Degrees
  BY <1>4 DEF Degrees
<1> QED BY <1>4, <1>5, <1>6

LEMMA NegatedIs ==
  ASSUME NEW a \in Polynomials
  PROVE  /\ Negated(a) \in Polynomials
         /\ \A i \in Degrees : Negated(a)[i] = (IF a[i] = 0 THEN 0 ELSE P - a[i]) /\ Zero[i] = 0
<1>1. 0 \in Int
  OBVIOUS
<1>2. Negated(a) \in Polynomials /\ Zero \in Polynomials
  BY <1>1, ScaledClosed, MonomialClosed
<1>3. ASSUME NEW i \in Degrees PROVE Zero[i] = 0
  <2> DEFINE f == [j \in Degrees |-> IF j = 0 THEN 0 ELSE 0]
  <2>1. \A j \in Degrees : f[j] \in Int /\ f[j] = 0
    OBVIOUS
  <2>2. Zero = Poly(f)
    BY DEF Zero, Constant, Monomial
  <2> HIDE DEF f
  <2>3. Poly(f)[i] = 0 % P
    BY <2>1, PolyIs
  <2>4. 0 % P = 0
    BY Positive
  <2> QED BY <2>2, <2>3, <2>4
<1>4. ASSUME NEW i \in Degrees PROVE Negated(a)[i] = IF a[i] = 0 THEN 0 ELSE P - a[i]
  <2> DEFINE f == [j \in Degrees |-> Zero[j] - a[j]]  x == a[i]
  <2>1. \A j \in Degrees : f[j] \in Int
    <3> SUFFICES ASSUME NEW j \in Degrees PROVE f[j] \in Int
      OBVIOUS
    <3>1. a[j] \in Int /\ Zero[j] \in Int
      BY <1>3, CoefficientIs
    <3> QED BY <3>1
  <2>2. Negated(a) = Poly(f)
    BY DEF Negated, Minus
  <2>3. f[i] = 0 - x
    BY <1>3
  <2>4. x \in 0..(P - 1)
    BY CoefficientIs
  <2> HIDE DEF f, x
  <2>5. Negated(a)[i] = (0 - x) % P
    BY <2>1, <2>2, <2>3, PolyIs
  <2>6. (0 - x) % P = IF x = 0 THEN 0 ELSE P - x
    <3>1. CASE x = 0
      <4>1. 0 % P = 0 /\ 0 - x = 0
        BY <3>1, Positive
      <4> QED BY <3>1, <4>1
    <3>2. CASE x # 0
      <4>1. 0 - x = P * (-1) + (P - x) /\ P - x \in 0..(P - 1) /\ 0 - x \in Int
        BY <2>4, <3>2, Positive
      <4>2. (0 - x) % P = P - x
        BY <4>1, Positive, DivisionUnique
      <4> QED BY <3>2, <4>2
    <3> QED BY <3>1, <3>2
  <2> QED BY <2>5, <2>6 DEF x
<1> QED BY <1>2, <1>3, <1>4

\* An element and its opposite have different signs, unless they are zero.
LEMMA SignsDiffer ==
  ASSUME NEW a \in Polynomials, Negated(a) # Zero
  PROVE  IsNegative(Negated(a)) <=> ~IsNegative(a)
<1> DEFINE n == Negated(a)
<1>1. n \in Polynomials /\ Zero \in Polynomials
  <2>1. 0 \in Int
    OBVIOUS
  <2> QED BY <2>1, NegatedIs, MonomialClosed
<1>2. \A i \in Degrees : n[i] = (IF a[i] = 0 THEN 0 ELSE P - a[i]) /\ Zero[i] = 0
  BY NegatedIs
<1> HIDE DEF n
<1>3. PICK i \in Degrees : n[i] # Zero[i]
  <2> SUFFICES ASSUME \A i \in Degrees : n[i] = Zero[i] PROVE FALSE
    OBVIOUS
  <2> DEFINE D == 0..(P - 1)  z == Zero
  <2>1. n \in [Degrees -> D] /\ z \in [Degrees -> D]
    BY <1>1 DEF Polynomials
  <2>2. \A i \in Degrees : n[i] = z[i]
    OBVIOUS
  <2> HIDE DEF D, z
  <2>3. n = z
    BY <2>1, <2>2
  <2> QED BY <2>3 DEF n, z
<1>4. a[i] # 0
  BY <1>2, <1>3
<1>5. PICK h \in Degrees : a[h] # 0 /\ \A j \in (h + 1)..18 : a[j] = 0
  BY <1>4, HighestIs
<1>6. n[h] = P - a[h] /\ a[h] \in 1..(P - 1) /\ n[h] # 0
  <2> DEFINE x == a[h]
  <2>1. x \in 0..(P - 1) /\ x # 0
    BY <1>5, CoefficientIs
  <2>2. n[h] = P - x
    BY <1>2, <1>5
  <2> HIDE DEF x
  <2>3. x \in 1..(P - 1) /\ P - x # 0
    BY <2>1, Positive
  <2> QED BY <2>2, <2>3 DEF x
<1>7. \A j \in (h + 1)..18 : n[j] = 0
  <2> SUFFICES ASSUME NEW j \in (h + 1)..18 PROVE n[j] = 0
    OBVIOUS
  <2>1. j \in Degrees
    BY DEF Degrees
  <2> QED BY <1>2, <1>5, <2>1
<1>8. /\ IsNegative(a) <=> a[h] > (P - 1) \div 2
      /\ IsNegative(n) <=> n[h] > (P - 1) \div 2
  BY <1>1, <1>5, <1>6, <1>7, SignIs
<1>9. n[h] > (P - 1) \div 2 <=> ~(a[h] > (P - 1) \div 2)
  <2> DEFINE x == a[h]  half == (P - 1) \div 2
  <2>1. P = 2 * half + 1 /\ half \in Nat
    BY DEF P
  <2>2. x \in 1..(P - 1) /\ n[h] = P - x
    BY <1>6
  <2> HIDE DEF x, half
  <2>3. x \in Int
    BY <2>2, Positive
  <2>4. P - x > half <=> ~(x > half)
    BY <2>1, <2>3, Positive
  <2> QED BY <2>2, <2>4 DEF x, half
<1> QED BY <1>8, <1>9 DEF n

-----------------------------------------------------------------------------
\* A finite point with an ordinate that is not zero has one encoding.
Buffers == [1..32 -> Bytes]

LEMMA SignedIs ==
  ASSUME NEW x \in Polynomials, NEW neg \in BOOLEAN
  PROVE  /\ make_y(x, neg).y \in Polynomials
         /\ make_y(x, neg).y # Zero => (IsNegative(make_y(x, neg).y) <=> neg)
<1> DEFINE s == SquareRoot(RightHandSide(x))  r == s.root
           y == IF IsNegative(r) = neg THEN r ELSE Negated(r)
<1>1. make_y(x, neg).y = y
  BY DEF make_y
<1>2. r \in Polynomials
  BY RightHandSideClosed, RootsClosed
<1> HIDE DEF r
<1>3. IsNegative(r) \in BOOLEAN
  BY DEF IsNegative
<1>4. CASE IsNegative(r) = neg
  BY <1>1, <1>2, <1>3, <1>4
<1>5. CASE IsNegative(r) # neg
  <2>1. y = Negated(r) /\ y \in Polynomials
    <3>1. 0 \in Int
      OBVIOUS
    <3> QED BY <1>2, <1>5, <3>1, ScaledClosed
  <2> HIDE DEF y
  <2>2. y # Zero => (IsNegative(y) <=> ~IsNegative(r))
    BY <1>2, <2>1, SignsDiffer
  <2> QED BY <1>1, <1>3, <1>5, <2>1, <2>2
<1> QED BY <1>4, <1>5

LEMMA PointDecodedIs ==
  ASSUME NEW b \in Buffers
  PROVE  point_decode(b) \in Points
<1> DEFINE x == gf_decode(b)  neg == (b[32] \div 2^6) % 2 = 1  y == make_y(x.value, neg)
           none == ~(b[32] < 2^7 /\ x.ok /\ y.ok)
<1>1. point_decode(b) = [neutral |-> none, x |-> x.value, y |-> y.y]
  BY DEF point_decode
<1>2. x.value \in Polynomials
  BY DecodedIs DEF Buffers
<1>3. neg \in BOOLEAN /\ none \in BOOLEAN
  OBVIOUS
<1> HIDE DEF x, neg, none
<1>4. y.y \in Polynomials
  BY <1>2, <1>3, SignedIs
<1> HIDE DEF y
<1> QED BY <1>1, <1>2, <1>3, <1>4 DEF Points

\* No two buffers decode to one finite point.
THEOREM DecodesOnce ==
  ASSUME NEW b \in Buffers, ~point_decode(b).neutral, point_decode(b).y # Zero
  PROVE  point_encode(point_decode(b)) = b
<1> DEFINE x == gf_decode(b)  neg == (b[32] \div 2^6) % 2 = 1  y == make_y(x.value, neg)
           Q == point_decode(b)  e == gf_encode(x.value)  sign == IF neg THEN 64 ELSE 0
<1> DEFINE none == ~(b[32] < 2^7 /\ x.ok /\ y.ok)
<1>1. Q = [neutral |-> none, x |-> x.value, y |-> y.y]
  BY DEF point_decode
<1>2. b[32] < 128 /\ x.ok /\ ~Q.neutral /\ Q.x = x.value /\ Q.y = y.y /\ y.y # Zero
  <2> HIDE DEF none, x, y, neg
  <2>1. Q.neutral = none /\ Q.x = x.value /\ Q.y = y.y
    BY <1>1
  <2>2. ~none /\ Q.y # Zero
    BY <2>1
  <2> USE DEF none
  <2>3. b[32] < 2^7 /\ x.ok
    BY <2>2
  <2>4. b[32] < 128
    BY <2>3, Powers
  <2> HIDE DEF none
  <2> QED BY <2>1, <2>2, <2>3, <2>4
<1> HIDE DEF none
<1>3. x.value \in Polynomials /\ neg \in BOOLEAN
  BY DecodedIs DEF Buffers
<1>4. e[32] = b[32] % 64 /\ \A i \in 1..31 : e[i] = b[i]
  BY <1>2, WrittenBack DEF Buffers
<1> HIDE DEF Q, x, y, e
<1>5. IsNegative(Q.y) <=> neg
  <2> HIDE DEF neg
  <2> QED BY <1>2, <1>3, SignedIs DEF y
<1>6. point_encode(Q) = [i \in 1..32 |-> IF i < 32 THEN e[i] ELSE e[32] + sign]
  <2> HIDE DEF neg
  <2>1. (IF IsNegative(Q.y) THEN 2^6 ELSE 0) = sign
    BY <1>5, Powers
  <2>2. gf_encode(Q.x) = e
    BY <1>2 DEF e
  <2> HIDE DEF sign
  <2> QED BY <1>2, <2>1, <2>2 DEF point_encode, Masked
<1>7. e[32] + sign = b[32]
  <2> DEFINE v == b[32]
  <2>1. v \in Bytes
    BY DEF Buffers
  <2>2. v \in Nat /\ v < 128
    BY <1>2, <2>1 DEF Bytes
  <2>3. neg <=> (v \div 64) % 2 = 1
    BY Powers
  <2> HIDE DEF v, neg
  <2>4. (v % 64) + sign = v
    <3>1. (v \div 64) % 2 = v \div 64 /\ v \div 64 \in {0, 1} /\ v = (v % 64) + 64 * (v \div 64)
      BY <2>2
    <3>2. CASE neg
      <4>1. v \div 64 = 1
        BY <2>3, <3>1, <3>2
      <4> QED BY <3>1, <3>2, <4>1
    <3>3. CASE ~neg
      <4>1. v \div 64 = 0
        BY <2>3, <3>1, <3>3
      <4> QED BY <2>2, <3>1, <3>3, <4>1
    <3> QED BY <3>2, <3>3
  <2> QED BY <1>4, <2>4 DEF v
<1> HIDE DEF sign, neg
<1> DEFINE p == [i \in 1..32 |-> IF i < 32 THEN e[i] ELSE e[32] + sign]
<1>8. \A i \in 1..32 : p[i] = b[i]
  <2> SUFFICES ASSUME NEW i \in 1..32 PROVE p[i] = b[i]
    OBVIOUS
  <2>1. i = 32 \/ (i \in 1..31 /\ i < 32)
    OBVIOUS
  <2> QED BY <1>4, <1>7, <2>1
<1>9. p = b
  <2>1. p = [i \in 1..32 |-> p[i]]
    OBVIOUS
  <2> HIDE DEF p
  <2>2. b = [i \in 1..32 |-> b[i]]
    BY DEF Buffers
  <2> QED BY <1>8, <2>1, <2>2
<1> QED BY <1>6, <1>9 DEF Q

-----------------------------------------------------------------------------
LEMMA GroupBytesAre ==
  ASSUME NEW x0 \in Nat, x0 < P, NEW x1 \in Nat, x1 < P, NEW x2 \in Nat, x2 < P,
         NEW k \in 1..5
  PROVE  GroupBytes(x0, x1, x2)[k] \in Bytes
<1> DEFINE h0 == x0 \div 2048  h1 == x1 \div 2048  h2 == x2 \div 2048
           b1 == x0 % 256
           b2 == ((x0 \div 256) % 8) + (x1 % 32) * 8
           b3 == ((x1 \div 32) % 64) + (x2 % 4) * 64
           b4 == (x2 \div 4) % 256
           u == (x2 \div 1024) % 2
           b5 == u + (h0 + 5 * h1 + 25 * h2) * 2
<1>1. GroupBytes(x0, x1, x2) = <<b1, b2, b3, b4, b5>>
  BY Powers DEF GroupBytes
<1>2. h0 \in Nat /\ h0 <= 4 /\ h1 \in Nat /\ h1 <= 4 /\ h2 \in Nat /\ h2 <= 4
  <2>1. x0 < 9767 /\ x1 < 9767 /\ x2 < 9767
    BY DEF P
  <2> QED BY <2>1
<1>3. b1 \in Bytes /\ b2 \in Bytes /\ b3 \in Bytes /\ b4 \in Bytes
  BY DEF Bytes
<1>4. u \in {0, 1}
  BY SMT
<1> HIDE DEF h0, h1, h2, u
<1>5. b5 \in Bytes
  BY <1>2, <1>4 DEF Bytes
<1> HIDE DEF b1, b2, b3, b4, b5
<1> QED BY <1>1, <1>3, <1>5

LEMMA ElementBytesAre ==
  ASSUME NEW a \in Polynomials
  PROVE  gf_encode(a) \in Buffers /\ gf_encode(a)[32] \in 0..63
<1> DEFINE e == gf_encode(a)
<1>1. \A i \in Degrees : a[i] \in Nat /\ a[i] < P
  <2> SUFFICES ASSUME NEW i \in Degrees PROVE a[i] \in Nat /\ a[i] < P
    OBVIOUS
  <2> DEFINE x == a[i]
  <2>1. x \in 0..(P - 1)
    BY CoefficientIs
  <2> HIDE DEF x
  <2>2. x \in Nat /\ x < P
    BY <2>1, Positive
  <2> QED BY <2>2 DEF x
<1>2. /\ \A g \in 0..5, k \in 1..5 : e[5 * g + k] = GroupOf(a, g)[k]
      /\ e[31] = a[18] % 256 /\ e[32] = a[18] \div 256
      /\ e = [i \in 1..32 |-> e[i]]
  BY EncodedIs
<1> HIDE DEF e
<1>3. e[31] \in Bytes /\ e[32] \in 0..63
  <2>1. 18 \in Degrees
    BY DEF Degrees
  <2> DEFINE x == a[18]
  <2>2. x \in Nat /\ x < 9767
    BY <1>1, <2>1 DEF P
  <2>3. e[31] = x % 256 /\ e[32] = x \div 256
    BY <1>2
  <2> HIDE DEF x
  <2>4. x % 256 \in 0..255 /\ x \div 256 \in 0..63
    BY <2>2
  <2> QED BY <2>3, <2>4 DEF Bytes
<1>4. ASSUME NEW i \in 1..30 PROVE e[i] \in Bytes
  <2> DEFINE g == (i - 1) \div 5  k == ((i - 1) % 5) + 1
  <2>1. g \in 0..5 /\ k \in 1..5 /\ i = 5 * g + k
    OBVIOUS
  <2> HIDE DEF g, k
  <2>2. 3 * g \in Degrees /\ 3 * g + 1 \in Degrees /\ 3 * g + 2 \in Degrees
    BY <2>1 DEF Degrees
  <2> DEFINE x0 == a[3 * g]  x1 == a[3 * g + 1]  x2 == a[3 * g + 2]
  <2>3. x0 \in Nat /\ x0 < P /\ x1 \in Nat /\ x1 < P /\ x2 \in Nat /\ x2 < P
    BY <1>1, <2>2
  <2>4. GroupOf(a, g) = GroupBytes(x0, x1, x2)
    BY DEF GroupOf
  <2> HIDE DEF x0, x1, x2
  <2>5. GroupOf(a, g)[k] \in Bytes
    BY <2>1, <2>3, <2>4, GroupBytesAre
  <2> QED BY <1>2, <2>1, <2>5
<1>5. ASSUME NEW i \in 1..32 PROVE e[i] \in Bytes
  <2>1. i = 31 \/ i = 32 \/ i \in 1..30
    OBVIOUS
  <2>2. e[32] \in Bytes
    BY <1>3 DEF Bytes
  <2> QED BY <1>3, <1>4, <2>1, <2>2
<1>6. e \in Buffers
  BY <1>2, <1>5 DEF Buffers
<1> QED BY <1>3, <1>6 DEF e

LEMMA PointBytesAre ==
  ASSUME NEW Q \in Points
  PROVE  point_encode(Q) \in Buffers
<1> DEFINE x == gf_encode(Q.x)  sign == IF IsNegative(Q.y) THEN 64 ELSE 0
           p == [i \in 1..32 |-> IF i < 32 THEN Masked(x[i], Q, 255) ELSE Masked(x[32] + sign, Q, 127)]
<1>1. point_encode(Q) = p
  BY Powers DEF point_encode
<1>2. Q.x \in Polynomials
  BY DEF Points
<1>3. x \in Buffers /\ x[32] \in 0..63
  BY <1>2, ElementBytesAre
<1> HIDE DEF x
<1>4. sign \in 0..64
  OBVIOUS
<1> HIDE DEF sign
<1>5. ASSUME NEW i \in 1..32 PROVE p[i] \in Bytes
  <2>1. x[i] \in Bytes
    BY <1>3 DEF Buffers
  <2>2. x[32] + sign \in Bytes /\ 255 \in Bytes /\ 127 \in Bytes
    BY <1>3, <1>4 DEF Bytes
  <2> QED BY <2>1, <2>2 DEF Masked
<1>6. p \in Buffers
  BY <1>5 DEF Buffers
<1> QED BY <1>1, <1>6

-----------------------------------------------------------------------------
(* Encoding and decoding                                                   *)

\* The bytes of a point at infinity have no coordinates in them.
LEMMA InfinityBytes ==
  ASSUME NEW Q, Q.neutral
  PROVE  point_encode(Q) = [i \in 1..32 |-> IF i < 32 THEN 255 ELSE 127]
<1> DEFINE x == gf_encode(Q.x)  sign == IF IsNegative(Q.y) THEN 2^6 ELSE 0
           p == [i \in 1..32 |-> IF i < 32 THEN Masked(x[i], Q, 255) ELSE Masked(x[32] + sign, Q, 127)]
<1>1. point_encode(Q) = p
  BY DEF point_encode
<1> HIDE DEF x, sign
<1> QED BY <1>1 DEF Masked

\* What has been encoded is decoded as a point at infinity if it was one, and else with
\* the same abscissa.
THEOREM EncodedDecodes ==
  ASSUME NEW Q \in Points
  PROVE  LET D == point_decode(point_encode(Q))
         IN  IF Q.neutral THEN D.neutral ELSE D.x = Q.x
<1> DEFINE b == point_encode(Q)  D == point_decode(b)
           neg == (b[32] \div 2^6) % 2 = 1  x == gf_decode(b)  y == make_y(x.value, neg)
           none == ~(b[32] < 2^7 /\ x.ok /\ y.ok)
<1>1. D = [neutral |-> none, x |-> x.value, y |-> y.y]
  BY DEF point_decode
<1>2. D.neutral = none /\ D.x = x.value
  BY <1>1
<1>3. b \in Buffers
  BY PointBytesAre
<1> HIDE DEF D, neg, y
<1>4. CASE Q.neutral
  <2>1. b = [i \in 1..32 |-> IF i < 32 THEN 255 ELSE 127]
    BY <1>4, InfinityBytes
  <2> HIDE DEF b
  <2>2. ReadFrom(b)[2] = GroupAt(b, 0)[3]
    <3>1. 2 \in Degrees /\ 2 # 18 /\ 2 \div 3 = 0 /\ (2 % 3) + 1 = 3
      BY DEF Degrees
    <3> QED BY <3>1 DEF ReadFrom
  <2> DEFINE c == [k \in 1..5 |-> b[5 * 0 + k]]
  <2>3. c = [k \in 1..5 |-> 255]
    BY <2>1
  <2>4. GroupAt(b, 0) = GroupCoefficients(c)
    BY DEF GroupAt
  <2> HIDE DEF c
  <2>5. c[1] = 255 /\ c[2] = 255 /\ c[3] = 255 /\ c[4] = 255 /\ c[5] = 255
    BY <2>3
  <2>6. FifthOf(127) = 25 /\ FifthOf(25) = 5
    BY FifthIs
  <2>7. GroupCoefficients(c)[3] = 12287
    <3> DEFINE w == c[5] \div 2  d == FifthOf(w)  e == FifthOf(d)
    <3>1. w = 127
      BY <2>5
    <3> HIDE DEF w
    <3>2. d = 25
      BY <2>6, <3>1
    <3> HIDE DEF d
    <3>3. e = 5
      BY <2>6, <3>2
    <3> HIDE DEF e
    <3>4. GroupCoefficients(c)[3] = c[3] \div 64 + c[4] * 4 + (c[5] % 2) * 1024 + e * 2048
      BY Powers DEF GroupCoefficients, w, d, e
    <3> QED BY <2>5, <3>3, <3>4
  <2>8. ~(ReadFrom(b)[2] < P)
    BY <2>2, <2>4, <2>7 DEF P
  <2>9. ~x.ok
    <3>1. 2 \in Degrees
      BY DEF Degrees
    <3>2. x.ok <=> \A i \in Degrees : ReadFrom(b)[i] < P
      BY <1>3, DecodedIs DEF Buffers
    <3> QED BY <2>8, <3>1, <3>2
  <2> QED BY <1>2, <1>4, <2>9 DEF D, b
<1>5. CASE ~Q.neutral
  <2> DEFINE e == gf_encode(Q.x)  sign == IF IsNegative(Q.y) THEN 64 ELSE 0
  <2>1. Q.x \in Polynomials
    BY DEF Points
  <2>2. e \in Buffers /\ e[32] \in 0..63
    BY <2>1, ElementBytesAre
  <2>3. b = [i \in 1..32 |-> IF i < 32 THEN e[i] ELSE e[32] + sign]
    BY <1>5, Powers DEF point_encode, Masked
  <2> HIDE DEF b, e
  <2>4. \A i \in 1..31 : b[i] = e[i]
    BY <2>3
  <2>5. b[32] % 64 = e[32]
    <3>1. b[32] = e[32] + sign
      BY <2>3
    <3> DEFINE v == e[32]
    <3>2. v \in 0..63 /\ sign \in {0, 64}
      BY <2>2
    <3> HIDE DEF v, sign
    <3>3. (v + sign) % 64 = v
      BY <3>2
    <3> QED BY <3>1, <3>3 DEF v
  <2>6. x.value = Q.x
    BY <2>1, <2>4, <2>5, ReadBack DEF e
  <2> QED BY <1>2, <1>5, <2>6 DEF D, b
<1> QED BY <1>4, <1>5 DEF D, b

-----------------------------------------------------------------------------
(* What the calls have to do with                                          *)

LEMMA MapToBaseClosed ==
  ASSUME NEW seed \in Words
  PROVE  gf_map_to_base(seed) \in Polynomials
<1> DEFINE f == CHOOSE h : AreDivisions(h, seed)
           c == Digits(seed).c  D == 0..(P - 1)
           digits == [i \in Degrees |-> c[i + 1]]
<1>1. AreDivisions(f, seed)
  BY DivisionsExist
<1>2. Digits(seed) = f[19]
  BY DEF Digits, AreDivisions
<1> HIDE DEF f
<1>3. c \in Seq(D) /\ Len(c) = 19
  <2>1. 19 \in 0..19
    OBVIOUS
  <2>2. IsOnTable(f, 19)
    BY <1>1, <2>1, OnTable
  <2> QED BY <1>2, <2>2 DEF IsOnTable, Divisions
<1>4. gf_map_to_base(seed) = Poly(digits)
  BY DEF gf_map_to_base
<1> HIDE DEF c
<1>5. ASSUME NEW i \in Degrees PROVE digits[i] \in Int
  <2>1. i + 1 \in 1..Len(c)
    BY <1>3 DEF Degrees
  <2> HIDE DEF D
  <2>2. c[i + 1] \in D
    BY <1>3, <2>1, ElementOfSeq
  <2> QED BY <2>2, Positive DEF D
<1> HIDE DEF digits
<1>6. Poly(digits) \in Polynomials
  BY <1>5, PolyIs
<1> QED BY <1>4, <1>6

LEMMA MappedAre ==
  ASSUME NEW s \in DOMAIN Seeds
  PROVE  Mapped[s] \in Points
<1>1. Seeds \in Seq(Words)
  BY CurveAssumption
<1> DEFINE n == Len(Seeds)
           e == [i \in DOMAIN Seeds |-> gf_map_to_base(Seeds[i])]
           q == [i \in DOMAIN Seeds |-> Icart_map(Elements[i])]
<1>2. n \in Nat /\ DOMAIN Seeds = 1..n /\ s \in 1..n
  BY <1>1
<1>3. e[s] = gf_map_to_base(Seeds[s]) /\ q[s] = Icart_map(Elements[s]) /\ Seeds[s] \in Words
  BY <1>1
<1>4. Elements[s] = e[s] /\ Mapped[s] = q[s]
  <2> DEFINE T == {e[i] : i \in 1..n} \cup {q[i] : i \in 1..n}
  <2>1. e \in [1..n -> T] /\ q \in [1..n -> T]
    BY <1>2
  <2>2. Elements = e \o <<>> /\ Mapped = q \o <<>>
    BY DEF Elements, Mapped
  <2> HIDE DEF e, q, n, T
  <2>3. e \in Seq(T) /\ q \in Seq(T)
    BY <1>2, <2>1, FunctionIsSequence
  <2>4. e \o <<>> = e /\ q \o <<>> = q
    BY <2>3, ConcatEmptySeq
  <2> QED BY <2>2, <2>4
<1> HIDE DEF e, q
<1>5. Elements[s] \in Polynomials
  BY <1>3, <1>4, MapToBaseClosed
<1> QED BY <1>3, <1>4, <1>5, IcartClosed

LEMMA StartingPoints == generator \in Points /\ Neutral \in Points
<1>1. 32 \in Int /\ 0 \in Int
  OBVIOUS
<1>2. Monomial(32, 14) \in Polynomials /\ Zero \in Polynomials
  BY <1>1, MonomialClosed
<1> QED BY <1>2 DEF generator, Neutral, Points

\* the point that was encoded, from what is kept of it
Source(of) == IF of = <<>> THEN Neutral ELSE [neutral |-> FALSE, x |-> of[1], y |-> of[2]]

LEMMA SourceIs ==
  ASSUME NEW Q \in Points
  PROVE  /\ Source(View(Q)) \in Points
         /\ point_encode(Source(View(Q))) = point_encode(Q)
<1>1. Q = [neutral |-> Q.neutral, x |-> Q.x, y |-> Q.y] /\ Q.neutral \in BOOLEAN
  BY DEF Points
<1>2. CASE Q.neutral
  <2>1. Source(View(Q)) = Neutral
    BY <1>2 DEF Source, View
  <2>2. Neutral.neutral
    BY DEF Neutral
  <2>3. point_encode(Neutral) = point_encode(Q)
    BY <1>2, <2>2, InfinityBytes
  <2> QED BY <2>1, <2>3, StartingPoints
<1>3. CASE ~Q.neutral
  <2>1. View(Q) = <<Q.x, Q.y>> /\ View(Q) # <<>>
    BY <1>3 DEF View
  <2>2. Source(View(Q)) = [neutral |-> FALSE, x |-> Q.x, y |-> Q.y]
    BY <2>1 DEF Source
  <2>3. Source(View(Q)) = Q
    BY <1>1, <1>3, <2>2
  <2> QED BY <2>3
<1> QED BY <1>2, <1>3

LEMMA ProductIsPoint ==
  ASSUME NEW Q \in Points, NEW s \in Int, NEW build0
  PROVE  PointProduct(build0, Q, s) \subseteq Points
BY ProductRefClosed, ProductAvx2Closed DEF PointProduct

LEMMA AlteredAre ==
  ASSUME NEW b \in Buffers
  PROVE  Altered(b) \subseteq Buffers
<1>1. Tails \subseteq Bytes /\ Lasts \subseteq Bytes
  BY CurveAssumption
<1> HIDE DEF Bytes
<1>2. ASSUME NEW i, NEW v \in Bytes PROVE [b EXCEPT ![i] = v] \in Buffers
  BY DEF Buffers
<1>3. ASSUME NEW c \in Altered(b) PROVE c \in Buffers
  <2>1. \/ \E v \in Tails : c = [b EXCEPT ![5] = v]
        \/ \E v \in Lasts : c = [b EXCEPT ![32] = v]
    BY DEF Altered
  <2>2. ASSUME NEW v \in Tails, c = [b EXCEPT ![5] = v] PROVE c \in Buffers
    <3>1. v \in Bytes
      BY <1>1
    <3> QED BY <1>2, <2>2, <3>1
  <2>3. ASSUME NEW v \in Lasts, c = [b EXCEPT ![32] = v] PROVE c \in Buffers
    <3>1. v \in Bytes
      BY <1>1
    <3> QED BY <1>2, <2>3, <3>1
  <2> QED BY <2>1, <2>2, <2>3
<1> QED BY <1>3

-----------------------------------------------------------------------------
(* The calls                                                               *)

\* The points have elements as coordinates, the buffer has 32 bytes, and q1 is what
\* the buffer decodes to, from the time it is decoded to the next call that writes q1.
PointsTyped == q1 \in Points /\ q2 \in Points
BufferIs(state, bytes, of) ==
    /\ state \in {"empty", "encoded", "altered", "decoded", "altered decoded"}
    /\ buf = [bytes |-> bytes, state |-> state, of |-> of]
    /\ state # "empty" => bytes \in Buffers
    /\ state \in {"encoded", "decoded"} => bytes = point_encode(Source(of)) /\ Source(of) \in Points
    /\ state \in {"decoded", "altered decoded"} => q1 = point_decode(bytes)
BufferInv == BufferIs(buf.state, buf.bytes, buf.of)
CurveInv == PointsTyped /\ BufferInv

LEMMA BufferEmptied ==
  ASSUME buf' = Empty
  PROVE  BufferInv'
<1>1. buf'.state = "empty" /\ buf'.bytes = <<>> /\ buf'.of = <<>>
  BY DEF Empty
<1>2. buf' = [bytes |-> buf'.bytes, state |-> buf'.state, of |-> buf'.of]
  BY <1>1 DEF Empty
<1> QED BY <1>1, <1>2 DEF BufferInv, BufferIs

LEMMA PointsPreserved ==
  ASSUME CurveInv, Next
  PROVE  PointsTyped'
<1>1. q1 \in Points /\ q2 \in Points
  BY DEF CurveInv, PointsTyped
<1>2. CASE point_add \/ point_sub
  <2>1. q1' \in PointAdd(q1, q2) \/ q1' \in PointSub(q1, q2)
    BY <1>2 DEF point_add, point_sub, Becomes
  <2>2. q1' \in Points
    BY <1>1, <2>1, PointAddClosed, PointNegClosed
  <2>3. q2' = q2
    BY <1>2 DEF point_add, point_sub, Becomes
  <2> QED BY <1>1, <2>2, <2>3 DEF PointsTyped
<1>3. CASE point_neg \/ point_set_neutral
  <2>1. q1' = PointNeg(q1) \/ q1' = Neutral
    BY <1>3 DEF point_neg, point_set_neutral, Becomes
  <2>2. q1' \in Points
    BY <1>1, <2>1, PointNegClosed, StartingPoints
  <2>3. q2' = q2
    BY <1>3 DEF point_neg, point_set_neutral, Becomes
  <2> QED BY <1>1, <2>2, <2>3 DEF PointsTyped
<1>4. ASSUME NEW k \in Shifts, point_mul2k(k) PROVE PointsTyped'
  <2>1. q1' \in PointMul2k(build, q1, k) /\ q2' = q2
    BY <1>4 DEF point_mul2k, Becomes
  <2>2. k \in Nat
    BY CurveAssumption
  <2>3. q1' \in Points
    BY <1>1, <2>1, <2>2, PointMul2kClosed
  <2> QED BY <1>1, <2>1, <2>3 DEF PointsTyped
<1>5. ASSUME NEW s \in Scalars, point_mul(s) PROVE PointsTyped'
  <2>1. q1' \in PointProduct(build, q1, s) /\ q2' = q2
    BY <1>5 DEF point_mul
  <2>2. s \in Int
    BY CurveAssumption
  <2>3. q1' \in Points
    BY <1>1, <2>1, <2>2, ProductIsPoint
  <2> QED BY <1>1, <2>1, <2>3 DEF PointsTyped
<1>6. ASSUME NEW i \in DOMAIN Seeds, NEW j \in DOMAIN Seeds, hash_to_curve(i, j) PROVE PointsTyped'
  <2>1. q1' \in PointAdd(Mapped[i], Mapped[j]) /\ q2' = q2
    BY <1>6 DEF hash_to_curve, Becomes
  <2>2. Mapped[i] \in Points /\ Mapped[j] \in Points
    BY MappedAre
  <2>3. q1' \in Points
    BY <2>1, <2>2, PointAddClosed
  <2> QED BY <1>1, <2>1, <2>3 DEF PointsTyped
<1>7. CASE Exchange \/ Copy \/ encode \/ Alter
  BY <1>1, <1>7 DEF Exchange, Copy, encode, Alter, PointsTyped
<1>8. CASE decode
  <2>1. buf.bytes \in Buffers /\ q1' = point_decode(buf.bytes) /\ q2' = q2
    <3>1. buf.state \in {"encoded", "altered"}
      BY <1>8 DEF decode
    <3>2. buf.state # "empty"
      BY <3>1
    <3> QED BY <1>8, <3>2 DEF decode, CurveInv, BufferInv, BufferIs
  <2> QED BY <1>1, <2>1, PointDecodedIs DEF PointsTyped
<1> QED BY <1>2, <1>3, <1>4, <1>5, <1>6, <1>7, <1>8 DEF Next

LEMMA BufferPreserved ==
  ASSUME CurveInv, Next
  PROVE  BufferInv'
<1>1. q1 \in Points /\ q2 \in Points
  BY DEF CurveInv, PointsTyped
<1>2. CASE point_add \/ point_sub \/ point_neg \/ point_set_neutral \/ Exchange \/ Copy
  <2>1. buf' = Empty
    BY <1>2 DEF point_add, point_sub, point_neg, point_set_neutral, Exchange, Copy, Becomes
  <2> QED BY <2>1, BufferEmptied
<1>3. CASE \/ \E k \in Shifts : point_mul2k(k)
           \/ \E s \in Scalars : point_mul(s)
           \/ \E i, j \in DOMAIN Seeds : hash_to_curve(i, j)
  <2>1. buf' = Empty
    BY <1>3 DEF point_mul2k, point_mul, hash_to_curve, Becomes
  <2> QED BY <2>1, BufferEmptied
<1>4. CASE encode
  <2> DEFINE b == point_encode(q1)
  <2>1. buf' = [bytes |-> b, state |-> "encoded", of |-> View(q1)]
    BY <1>4 DEF encode
  <2>2. b \in Buffers /\ b = point_encode(Source(View(q1))) /\ Source(View(q1)) \in Points
    BY <1>1, PointBytesAre, SourceIs
  <2> HIDE DEF b
  <2>3. buf'.state = "encoded" /\ buf'.bytes = b /\ buf'.of = View(q1)
    BY <2>1
  <2> QED BY <2>1, <2>2, <2>3 DEF BufferInv, BufferIs
<1>5. CASE Alter
  <2>1. PICK b \in Altered(buf.bytes) : buf' = [buf EXCEPT !.bytes = b, !.state = "altered"]
    BY <1>5 DEF Alter
  <2>2. /\ buf = [bytes |-> buf.bytes, state |-> buf.state, of |-> buf.of]
        /\ buf.bytes \in Buffers
    BY <1>5 DEF Alter, CurveInv, BufferInv, BufferIs
  <2>3. buf'.bytes = b /\ buf'.state = "altered" /\ buf'.of = buf.of
        /\ buf' = [bytes |-> b, state |-> "altered", of |-> buf.of]
    BY <2>1, <2>2
  <2>4. b \in Buffers
    BY <2>2, AlteredAre
  <2> QED BY <2>3, <2>4 DEF BufferInv, BufferIs
<1>6. CASE decode
  <2> DEFINE s == IF buf.state = "encoded" THEN "decoded" ELSE "altered decoded"
  <2>1. /\ buf.state \in {"encoded", "altered"} /\ q1' = point_decode(buf.bytes)
        /\ buf' = [buf EXCEPT !.state = s]
    BY <1>6 DEF decode
  <2>2. /\ buf = [bytes |-> buf.bytes, state |-> buf.state, of |-> buf.of]
        /\ buf.bytes \in Buffers
        /\ buf.state = "encoded" =>
              buf.bytes = point_encode(Source(buf.of)) /\ Source(buf.of) \in Points
    BY <2>1 DEF CurveInv, BufferInv, BufferIs
  <2>3. /\ buf' = [bytes |-> buf.bytes, state |-> s, of |-> buf.of]
        /\ buf'.bytes = buf.bytes /\ buf'.state = s /\ buf'.of = buf.of
    BY <2>1, <2>2
  <2>4. s \in {"decoded", "altered decoded"} /\ (s = "decoded" => buf.state = "encoded")
    OBVIOUS
  <2> HIDE DEF s
  <2> QED BY <2>1, <2>2, <2>3, <2>4 DEF BufferInv, BufferIs
<1> QED BY <1>2, <1>3, <1>4, <1>5, <1>6 DEF Next

\* Points keep their type and a decoded buffer its point, for any seeds, scalars, shifts
\* and altered bytes.
THEOREM CurveInvAlways == Spec => []CurveInv
<1>1. Init => CurveInv
  <2> SUFFICES ASSUME Init PROVE CurveInv
    OBVIOUS
  <2>1. buf = Empty /\ q1 = generator /\ q2 = Neutral
    BY DEF Init
  <2>2. buf.state = "empty" /\ buf = [bytes |-> buf.bytes, state |-> buf.state, of |-> buf.of]
    BY <2>1 DEF Empty
  <2> QED BY <2>1, <2>2, StartingPoints DEF CurveInv, PointsTyped, BufferInv, BufferIs
<1>2. CurveInv /\ [Next]_vars => CurveInv'
  <2> SUFFICES ASSUME CurveInv, [Next]_vars PROVE CurveInv'
    OBVIOUS
  <2>1. CASE Next
    BY <2>1, PointsPreserved, BufferPreserved DEF CurveInv
  <2>2. CASE UNCHANGED vars
    BY <2>2 DEF vars, CurveInv, PointsTyped, BufferInv, BufferIs
  <2> QED BY <2>1, <2>2
<1> QED BY <1>1, <1>2, PTL DEF Spec

\* No two buffers stand for a finite point, whatever was done to the bytes (no finite point
\* has the ordinate 0, since the order of the group is odd, which is a fact about numbers).
THEOREM OneEncodingAlways == Spec => [](q1.y # Zero => OneEncoding)
<1>1. CurveInv => (q1.y # Zero => OneEncoding)
  <2> SUFFICES ASSUME CurveInv, q1.y # Zero, ~q1.neutral,
                      buf.state \in {"decoded", "altered decoded"}
               PROVE  point_encode(q1) = buf.bytes
    BY DEF OneEncoding
  <2>1. buf.bytes \in Buffers /\ q1 = point_decode(buf.bytes)
    BY DEF CurveInv, BufferInv, BufferIs
  <2> QED BY <2>1, DecodesOnce
<1> QED BY <1>1, CurveInvAlways, PTL

\* What was encoded is decoded to the point at infinity if it was that, and else to the
\* same abscissa.
SameAbscissa ==
    buf.state = "decoded" => IF buf.of = <<>> THEN q1.neutral ELSE q1.x = buf.of[1]

\* curve9767_point_decode undoes curve9767_point_encode in every behaviour, but for the
\* choice of the square root.
THEOREM SameAbscissaAlways == Spec => []SameAbscissa
<1>1. CurveInv => SameAbscissa
  <2> SUFFICES ASSUME CurveInv, buf.state = "decoded"
               PROVE  IF buf.of = <<>> THEN q1.neutral ELSE q1.x = buf.of[1]
    BY DEF SameAbscissa
  <2> DEFINE Q == Source(buf.of)
  <2>1. q1 = point_decode(point_encode(Q)) /\ Q \in Points
    BY DEF CurveInv, BufferInv, BufferIs
  <2>2. /\ buf.of = <<>> => Q.neutral
        /\ buf.of # <<>> => ~Q.neutral /\ Q.x = buf.of[1]
    BY DEF Source, Neutral
  <2> HIDE DEF Q
  <2> QED BY <2>1, <2>2, EncodedDecodes
<1> QED BY <1>1, CurveInvAlways, PTL

-----------------------------------------------------------------------------
\* What a call of hash_to_curve has been given.
HashesSeeds == call # <<>> /\ call[1] = "hash" => call[2] \in DOMAIN Seeds /\ call[3] \in DOMAIN Seeds

LEMMA SeedOfCall ==
  ASSUME NEW s \in DOMAIN Seeds
  PROVE  Rebuilt(Elements[s], Rests[s]) = Seeds[s]
<1>1. Seeds \in Seq(Words)
  BY CurveAssumption
<1> DEFINE n == Len(Seeds)
           e == [i \in DOMAIN Seeds |-> gf_map_to_base(Seeds[i])]
           r == [i \in DOMAIN Seeds |-> Digits(Seeds[i]).x]
<1>2. n \in Nat /\ DOMAIN Seeds = 1..n
  BY <1>1
<1>3. Seeds[s] \in Words
  BY <1>1
<1>4. e[s] = gf_map_to_base(Seeds[s]) /\ r[s] = Digits(Seeds[s]).x
  OBVIOUS
<1>5. Elements[s] = e[s] /\ Rests[s] = r[s]
  <2> DEFINE T == {e[i] : i \in 1..n} \cup {r[i] : i \in 1..n}
  <2>1. e \in [1..n -> T] /\ r \in [1..n -> T]
    BY <1>2
  <2>2. Elements = e \o <<>> /\ Rests = r \o <<>>
    BY DEF Elements, Rests
  <2> HIDE DEF e, r, n, T
  <2>3. e \in Seq(T) /\ r \in Seq(T)
    BY <1>2, <2>1, FunctionIsSequence
  <2>4. e \o <<>> = e /\ r \o <<>> = r
    BY <2>3, ConcatEmptySeq
  <2> QED BY <2>2, <2>4
<1> HIDE DEF e, r
<1> QED BY <1>3, <1>4, <1>5, SeedRebuilt

LEMMA HashesSeedsAlways == Spec => []HashesSeeds
<1>1. Init => HashesSeeds
  BY DEF Init, HashesSeeds
<1>2. HashesSeeds /\ [Next]_vars => HashesSeeds'
  <2> SUFFICES ASSUME HashesSeeds, [Next]_vars PROVE HashesSeeds'
    OBVIOUS
  <2>1. CASE UNCHANGED vars
    BY <2>1 DEF vars, HashesSeeds
  <2>2. ASSUME NEW i \in DOMAIN Seeds, NEW j \in DOMAIN Seeds, hash_to_curve(i, j) PROVE HashesSeeds'
    BY <2>2 DEF hash_to_curve, Called, HashesSeeds
  <2>3. CASE point_add \/ point_sub \/ point_neg \/ point_set_neutral
    BY <2>3 DEF point_add, point_sub, point_neg, point_set_neutral, Called, HashesSeeds
  <2>4. ASSUME NEW k \in Shifts, point_mul2k(k) PROVE HashesSeeds'
    BY <2>4 DEF point_mul2k, Called, HashesSeeds
  <2>5. ASSUME NEW s \in Scalars, point_mul(s) PROVE HashesSeeds'
    BY <2>5 DEF point_mul, Called, HashesSeeds
  <2>6. CASE Exchange \/ Copy \/ encode \/ Alter \/ decode
    <3>1. call' \in {<<"exchange">>, <<"copy">>, <<"encode">>, <<"alter">>, <<"decode">>}
      BY <2>6 DEF Exchange, Copy, encode, Alter, decode, Called
    <3> QED BY <3>1 DEF HashesSeeds
  <2> QED BY <2>1, <2>2, <2>3, <2>4, <2>5, <2>6 DEF Next
<1> QED BY <1>1, <1>2, PTL DEF Spec

\* The 48 bytes of a seed can be rebuilt from the field element that
\* curve9767_hash_to_curve maps, for any seeds and any sequence of calls.
THEOREM RebuildsSeedAlways == Spec => []RebuildsSeed
<1>1. HashesSeeds => RebuildsSeed
  BY SeedOfCall DEF HashesSeeds, RebuildsSeed
<1> QED BY <1>1, HashesSeedsAlways, PTL

=============================================================================
