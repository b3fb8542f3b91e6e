--------------------------- MODULE Scalar_proofs ---------------------------
(***************************************************************************)
(* Scalars.  The API functions stay in their range and compute with        *)
(* residues, for every order, radix and constants that satisfy             *)
(* ScalarAssumption.                                                       *)
(*                                                                         *)
(* The limb loops of scalar_ref.c compute what ScalarArith says, and no    *)
(* carry is lost, for limbs and words of every size that LimbAssumption    *)
(* allows too.                                                             *)
(***************************************************************************)
EXTENDS Scalar, ScalarLimbs, Congruence

-----------------------------------------------------------------------------
(* The API. *)

\* The constants are integers, the order positive and the bounds comparable.
LEMMA Bounds ==
  /\ N \in Nat /\ N > 10 /\ Top \in Nat /\ R \in Nat /\ Chunk \in Nat /\ R > 0
  /\ 112 * N < 100 * Top /\ 100 * Top < 114 * N /\ 896 * N < 100 * R
  /\ Top = 16 * Chunk /\ NegInv \in Int /\ sR2 \in Int /\ D \in Int
  /\ sR2 \in Scalars /\ D \in Scalars
<1>1. /\ N \in Nat /\ N > 10 /\ Top \in Nat /\ R \in Nat /\ Chunk \in Nat /\ Top = 16 * Chunk
      /\ 112 * N < 100 * Top /\ 100 * Top < 114 * N /\ 8 * Top <= R
      /\ NegInv \in 0..(R - 1) /\ sR2 \in 0..(N - 1) /\ D \in 0..(N - 1)
  BY ScalarAssumption
<1> QED BY <1>1 DEF Scalars

\* A multiple of N is congruent to zero.
LEMMA DifferenceCongruent ==
  ASSUME NEW x \in Int, NEW y \in Int, NEW q \in Nat, q > 0, (x - y) % q = 0
  PROVE  Congruent(x, y, q)
<1>1. x - y \in Int /\ 0 % q = 0 /\ 0 \in Int
  OBVIOUS
<1>2. Congruent(x - y, 0, q)
  BY <1>1, ModEqual
<1>3. PICK k \in Int : x - y = 0 + k * q
  BY <1>2 DEF Congruent
<1>4. k * q \in Int
  OBVIOUS
<1>5. x = y + k * q
  BY <1>3, <1>4
<1> QED BY <1>5 DEF Congruent

\* The radix can be cancelled modulo N.
LEMMA RadixInverse == \E e \in Int : Congruent(R * e, 1, N)
<1>1. PICK e \in 0..(N - 1) : (R * e) % N = 1
  BY ScalarAssumption
<1>2. R * e \in Int /\ 1 % N = 1 /\ e \in Int
  BY Bounds
<1>3. Congruent(R * e, 1, N)
  BY <1>1, <1>2, Bounds, ModEqual
<1> QED BY <1>2, <1>3

\* A conditional addition or subtraction of N does not change the residue.
LEMMA CondCongruent ==
  ASSUME NEW x \in Int
  PROVE  /\ CondSub(x) \in Int /\ Congruent(CondSub(x), x, N)
         /\ CondAdd(x) \in Int /\ Congruent(CondAdd(x), x, N)
<1>1. N \in Int
  BY Bounds
<1>2. x = x + 0 * N /\ x - N = x + (-1) * N /\ x + N = x + 1 * N
  BY <1>1
<1>3. Congruent(x, x, N) /\ Congruent(x - N, x, N) /\ Congruent(x + N, x, N)
  BY <1>2 DEF Congruent
<1> QED BY <1>1, <1>3 DEF CondSub, CondAdd

\* Two conditional subtractions bring any sum of operands below 2^252.
LEMMA AddCorrect ==
  ASSUME NEW x \in Nat, NEW y \in Nat, 100 * (x + y) < 312 * N
  PROVE  /\ ScalarAdd(x, y) \in Scalars
         /\ Congruent(ScalarAdd(x, y), x + y, N)
<1> DEFINE s == x + y  t == CondSub(s)  w == CondSub(t)
<1>1. s \in Int /\ t \in Int /\ w \in Int /\ Congruent(t, s, N) /\ Congruent(w, t, N)
  BY CondCongruent
<1>2. 0 <= w /\ w < Top
  BY Bounds DEF CondSub
<1>3. w \in Scalars
  BY <1>1, <1>2, Bounds DEF Scalars
<1>4. Congruent(w, s, N)
  <2> HIDE DEF s, t, w
  <2> QED BY <1>1, Bounds, CongruentTrans
<1> QED BY <1>3, <1>4 DEF ScalarAdd

\* Two conditional additions make any difference of scalars non-negative.
LEMMA SubCorrect ==
  ASSUME NEW x \in Nat, NEW y \in Nat, 100 * x < 127 * N, y < 2 * N
  PROVE  /\ ScalarSub(x, y) \in Scalars
         /\ Congruent(ScalarSub(x, y), x - y, N)
<1> DEFINE s == x - y  t == CondAdd(s)  w == CondAdd(t)
<1>1. s \in Int /\ t \in Int /\ w \in Int /\ Congruent(t, s, N) /\ Congruent(w, t, N)
  BY CondCongruent
<1>2. 0 <= w /\ 100 * w < 127 * N
  BY Bounds DEF CondAdd
<1>3. w \in Scalars
  BY <1>1, <1>2, Bounds DEF Scalars
<1>4. Congruent(w, s, N)
  <2> HIDE DEF s, t, w
  <2> QED BY <1>1, Bounds, CongruentTrans
<1> QED BY <1>3, <1>4 DEF ScalarSub

\* Normalisation is the remainder.
LEMMA NormalizeCorrect ==
  ASSUME NEW x \in Scalars
  PROVE  Normalize(x) = x % N
<1>1. x \in Nat /\ x < 2 * N /\ N \in Nat /\ N > 0
  BY Bounds DEF Scalars
<1> DEFINE y == Normalize(x)
<1>2. y \in 0..(N - 1) /\ Congruent(y, x, N)
  <2>1. y \in 0..(N - 1)
    BY <1>1 DEF Normalize
  <2>2. x = x + 0 * N /\ x - N = x + (-1) * N
    BY <1>1
  <2>3. Congruent(x, x, N) /\ Congruent(x - N, x, N)
    BY <2>2 DEF Congruent
  <2> QED BY <2>1, <2>3 DEF Normalize
<1>3. x % N \in 0..(N - 1) /\ Congruent(x, x % N, N)
  BY <1>1, ModCongruent
<1> DEFINE z == x % N
<1>4. z \in 0..(N - 1) /\ Congruent(x, z, N)
  BY <1>3
<1> HIDE DEF y, z
<1>5. y \in Int /\ z \in Int
  BY <1>1, <1>2, <1>4
<1>6. Congruent(y, z, N)
  BY <1>1, <1>2, <1>4, <1>5, CongruentTrans
<1>7. y = z
  BY <1>1, <1>2, <1>4, <1>6, RemainderUnique
<1> QED BY <1>7 DEF y, z

\* The division of Montgomery's multiplication is exact, and its result is
\* below 1.19 * N.
LEMMA MmulCorrect ==
  ASSUME NEW x \in Scalars, NEW y \in Scalars
  PROVE  /\ ScalarMmul(x, y) \in Nat /\ 100 * ScalarMmul(x, y) < 119 * N
         /\ Congruent(R * ScalarMmul(x, y), x * y, N)
<1> DEFINE p == x * y  k == (NegInv * p) % R  e == p + k * N  z == ScalarMmul(x, y)
<1>1. x \in Nat /\ y \in Nat /\ 100 * x < 127 * N /\ 100 * y < 127 * N /\ p \in Nat
  BY Bounds DEF Scalars
<1>2. /\ NegInv * p \in Int /\ k \in 0..(R - 1) /\ Congruent(k, NegInv * p, R) /\ R \in Int
      /\ R > 0 /\ R \in Nat
  <2>1. NegInv * p \in Int
    <3> HIDE DEF p
    <3> QED BY <1>1, Bounds
  <2> QED BY <2>1, Bounds, ModCongruent
<1>3. Congruent(e, 0, R)
  <2>1. PICK l \in Int : k = NegInv * p + l * R
    BY <1>2 DEF Congruent
  <2>2. Congruent(N * NegInv + 1, 0, R)
    <3>1. N * NegInv + 1 \in Int /\ (N * NegInv + 1) - 0 = N * NegInv + 1
      BY Bounds
    <3>2. (N * NegInv + 1) % R = 0
      BY ScalarAssumption
    <3> QED BY <1>2, <3>1, <3>2, DifferenceCongruent
  <2>3. PICK h \in Int : N * NegInv + 1 = 0 + h * R
    BY <2>2 DEF Congruent
  <2>4. e = p * (N * NegInv + 1) + (l * N) * R
    <3> DEFINE kk == k
    <3>1. kk = NegInv * p + l * R
      BY <2>1
    <3> HIDE DEF kk, p
    <3>2. p + kk * N = p * (N * NegInv + 1) + (l * N) * R
      BY <1>1, <2>1, <3>1, Bounds
    <3> QED BY <3>2 DEF kk
  <2> HIDE DEF e, p
  <2>5. e = p * (h * R) + (l * N) * R
    BY <2>3, <2>4, <1>2
  <2>6. p * (h * R) + (l * N) * R = 0 + (p * h + l * N) * R /\ p * h + l * N \in Int
    BY <1>1, <1>2, Bounds
  <2>7. e = 0 + (p * h + l * N) * R
    BY <2>5, <2>6
  <2> QED BY <2>6, <2>7 DEF Congruent
<1>4. e \in Nat
  <2> HIDE DEF p, k
  <2> QED BY <1>1, <1>2, Bounds
<1>5. z = e \div R
  <2>1. NegInv * (x * y) = NegInv * p
    OBVIOUS
  <2> QED BY DEF ScalarMmul
<1>6. e = R * z /\ z \in Nat
  <2>1. PICK h \in Int : e = 0 + h * R
    BY <1>3 DEF Congruent
  <2> HIDE DEF e
  <2>2. e = R * (e \div R) + (e % R) /\ e \div R \in Nat /\ e % R \in 0..(R - 1)
    BY <1>2, <1>4
  <2>3. e % R = 0
    <3>1. 0 \in 0..(R - 1) /\ e \in Int
      BY <1>2, <1>4
    <3>2. Congruent(e, 0, R)
      BY <1>3
    <3>3. e % R = 0 % R /\ 0 % R = 0
      BY <1>2, <3>1, <3>2, ModEqual
    <3> QED BY <3>3
  <2> QED BY <1>2, <1>5, <2>2, <2>3
<1>7. 100 * z < 119 * N
  <2>1. 10000 * p <= 16129 * (N * N)
    <3>1. (100 * x) * (100 * y) <= (127 * N) * (127 * N)
      <4>1. \A u, v, w \in Nat : u <= w /\ v <= w => u * v <= w * w
        <5> SUFFICES ASSUME NEW u \in Nat, NEW v \in Nat, NEW w \in Nat, u <= w, v <= w
                     PROVE u * v <= w * w
          OBVIOUS
        <5>1. u * v <= u * w /\ u * w <= w * w
          OBVIOUS
        <5> QED BY <5>1
      <4>2. 100 * x \in Nat /\ 100 * y \in Nat /\ 127 * N \in Nat /\ 100 * x <= 127 * N
            /\ 100 * y <= 127 * N
        BY <1>1, Bounds
      <4> DEFINE u == 100 * x  v == 100 * y  w == 127 * N
      <4>3. u * v <= w * w
        <5> HIDE DEF u, v, w
        <5> QED BY <4>1, <4>2 DEF u, v, w
      <4> QED BY <4>3
    <3>2. (100 * x) * (100 * y) = 10000 * p /\ (127 * N) * (127 * N) = 16129 * (N * N)
      BY <1>1, Bounds
    <3> QED BY <3>1, <3>2
  <2>2. 896 * (N * N) <= 100 * (N * R) /\ k * N <= R * N
    <3>1. N * (896 * N) <= N * (100 * R)
      BY Bounds
    <3>2. k * N <= R * N
      <4> HIDE DEF k
      <4> QED BY <1>2, Bounds
    <3>3. N * (896 * N) = 896 * (N * N) /\ N * (100 * R) = 100 * (N * R)
      BY Bounds
    <3> QED BY <3>1, <3>2, <3>3
  <2> DEFINE nn == N * N  nr == N * R  kn == k * N  rz == R * z
  <2>3. /\ 10000 * p <= 16129 * nn /\ 896 * nn <= 100 * nr /\ kn <= nr /\ rz = p + kn
        /\ p \in Int /\ nn \in Int /\ nr \in Int /\ kn \in Int /\ rz \in Int /\ nr > 0
    <3>1. R * N = N * R /\ N * R > 0 /\ N * R \in Int /\ N * N \in Int
      BY Bounds
    <3>2. kn \in Int
      <4> HIDE DEF k
      <4> QED BY <1>2, Bounds
    <3>3. rz = p + kn /\ rz \in Int /\ p \in Int
      BY <1>1, <1>4, <1>6
    <3> QED BY <2>1, <2>2, <3>1, <3>2, <3>3
  <2>4. 100 * rz < 119 * nr
    <3> HIDE DEF p, nn, nr, kn, rz
    <3> QED BY <2>3
  <2>5. R * (100 * z) < R * (119 * N)
    <3>1. 100 * rz = R * (100 * z) /\ 119 * nr = R * (119 * N)
      <4> HIDE DEF z
      <4> QED BY <1>6, Bounds
    <3> QED BY <2>4, <3>1
  <2>6. \A u, v \in Int : R * u < R * v => u < v
    <3> SUFFICES ASSUME NEW u \in Int, NEW v \in Int, u >= v PROVE R * u >= R * v
      BY Bounds
    <3> QED BY Bounds
  <2>7. 100 * z \in Int /\ 119 * N \in Int
    BY <1>6, Bounds
  <2> HIDE DEF z
  <2> QED BY <2>5, <2>6, <2>7
<1>8. Congruent(R * z, x * y, N)
  <2>1. R * z = x * y + k * N /\ k \in Int
    BY <1>2, <1>6
  <2> QED BY <2>1 DEF Congruent
<1> QED BY <1>6, <1>7, <1>8

\* The product of two scalars, through the constant sR2.
LEMMA MulCorrect ==
  ASSUME NEW x \in Scalars, NEW y \in Scalars
  PROVE  /\ ScalarMul(x, y) \in Scalars
         /\ Congruent(ScalarMul(x, y), x * y, N)
<1> DEFINE t == ScalarMmul(x, sR2)  z == ScalarMmul(t, y)
<1>1. x \in Int /\ y \in Int /\ R \in Int /\ N \in Int /\ sR2 \in Scalars /\ sR2 \in Int
  BY Bounds DEF Scalars
<1>2. t \in Nat /\ 100 * t < 119 * N /\ Congruent(R * t, x * sR2, N)
  BY <1>1, MmulCorrect
<1>3. t \in Scalars
  <2> HIDE DEF t
  <2> QED BY <1>2, Bounds DEF Scalars
<1>4. z \in Nat /\ 100 * z < 119 * N /\ Congruent(R * z, t * y, N)
  <2> HIDE DEF t
  <2> QED BY <1>3, MmulCorrect
<1>5. z \in Scalars
  <2> HIDE DEF z
  <2> QED BY <1>4, Bounds DEF Scalars
<1> HIDE DEF t, z
<1>6. PICK e \in Int : Congruent(R * e, 1, N)
  BY RadixInverse
<1>7. Congruent(t, R * x, N)
  <2>1. Congruent(sR2, R * R, N)
    <3>1. R * R \in Int /\ (sR2 - R * R) % N = 0 /\ N \in Nat /\ N > 0
      BY Bounds, ScalarAssumption
    <3> QED BY <1>1, <3>1, DifferenceCongruent
  <2>2. Congruent(x, x, N)
    BY <1>1, CongruentRefl
  <2>3. Congruent(x * sR2, x * (R * R), N)
    <3>1. R * R \in Int
      BY <1>1
    <3> QED BY <1>1, <2>1, <2>2, <3>1, CongruentProduct
  <2>4. x * (R * R) = R * (R * x) /\ x * sR2 \in Int /\ R * (R * x) \in Int /\ R * t \in Int
        /\ R * x \in Int /\ t \in Int
    BY <1>1, <1>2
  <2>5. Congruent(R * t, R * (R * x), N)
    BY <1>1, <1>2, <2>3, <2>4, CongruentTrans
  <2> QED BY <1>1, <1>6, <2>4, <2>5, CongruentCancel
<1>8. Congruent(z, x * y, N)
  <2>1. Congruent(y, y, N)
    BY <1>1, CongruentRefl
  <2>2. t \in Int /\ z \in Int /\ R * x \in Int /\ t * y \in Int /\ R * z \in Int
        /\ (R * x) * y = R * (x * y) /\ R * (x * y) \in Int /\ x * y \in Int
    BY <1>1, <1>2, <1>4
  <2>3. Congruent(t * y, (R * x) * y, N)
    BY <1>1, <1>7, <2>1, <2>2, CongruentProduct
  <2>4. Congruent(R * z, R * (x * y), N)
    BY <1>1, <1>4, <2>2, <2>3, CongruentTrans
  <2> QED BY <1>1, <1>6, <2>2, <2>4, CongruentCancel
<1> QED BY <1>5, <1>8 DEF ScalarMul, t, z

\* One turn of the decoding loop is a step of Horner's rule.
LEMMA AbsorbCorrect ==
  ASSUME NEW x \in Scalars, NEW chunk \in 0..(Chunk - 1)
  PROVE  /\ Absorb(x, chunk) \in Scalars
         /\ Congruent(Absorb(x, chunk), x * Chunk + chunk, N)
<1> DEFINE t == ScalarMmul(x, D)
<1>1. x \in Int /\ R \in Int /\ N \in Int /\ D \in Scalars /\ D \in Int /\ Chunk \in Int
      /\ chunk \in Nat
  BY Bounds DEF Scalars
<1>2. t \in Nat /\ 100 * t < 119 * N /\ Congruent(R * t, x * D, N)
  BY <1>1, MmulCorrect
<1>3. 100 * (t + chunk) < 312 * N
  <2> HIDE DEF t
  <2> QED BY <1>2, Bounds
<1>4. ScalarAdd(t, chunk) \in Scalars /\ Congruent(ScalarAdd(t, chunk), t + chunk, N)
  <2> HIDE DEF t
  <2> QED BY <1>1, <1>2, <1>3, AddCorrect
<1> HIDE DEF t
<1>5. PICK e \in Int : Congruent(R * e, 1, N)
  BY RadixInverse
<1>6. Congruent(t, x * Chunk, N)
  <2>1. Congruent(D, Chunk * R, N)
    <3>1. Chunk * R \in Int /\ (D - Chunk * R) % N = 0 /\ N \in Nat /\ N > 0
      BY Bounds, ScalarAssumption
    <3> QED BY <1>1, <3>1, DifferenceCongruent
  <2>2. Congruent(x, x, N)
    BY <1>1, CongruentRefl
  <2>3. Chunk * R \in Int /\ x * D \in Int /\ x * (Chunk * R) = R * (x * Chunk)
        /\ R * (x * Chunk) \in Int /\ x * Chunk \in Int /\ R * t \in Int /\ t \in Int
    BY <1>1, <1>2
  <2>4. Congruent(x * D, x * (Chunk * R), N)
    BY <1>1, <2>1, <2>2, <2>3, CongruentProduct
  <2>5. Congruent(R * t, R * (x * Chunk), N)
    BY <1>1, <1>2, <2>3, <2>4, CongruentTrans
  <2> QED BY <1>1, <1>5, <2>3, <2>5, CongruentCancel
<1>7. Congruent(t + chunk, x * Chunk + chunk, N)
  <2>1. x * Chunk \in Int /\ t \in Int /\ chunk \in Int
    BY <1>1, <1>2
  <2>2. PICK l \in Int : t = x * Chunk + l * N
    BY <1>6 DEF Congruent
  <2> DEFINE q == x * Chunk  r == l * N
  <2>3. q \in Int /\ r \in Int /\ t = q + r
    BY <1>1, <2>1, <2>2
  <2>4. t + chunk = (q + chunk) + r
    <3> HIDE DEF q, r
    <3> QED BY <2>1, <2>3
  <2> QED BY <2>2, <2>4 DEF Congruent
<1>8. t + chunk \in Int /\ x * Chunk + chunk \in Int /\ ScalarAdd(t, chunk) \in Int
  BY <1>1, <1>2, <1>4 DEF Scalars
<1>9. Congruent(ScalarAdd(t, chunk), x * Chunk + chunk, N)
  BY <1>1, <1>4, <1>7, <1>8, CongruentTrans
<1> QED BY <1>4, <1>9 DEF Absorb, t

-----------------------------------------------------------------------------
(* The register machine. *)

\* The inductive invariant: every structure holds a scalar.
IInv ==
    /\ reg \in [Regs -> Scalars]
    /\ call \in Calls
    /\ answer \in Nat
    /\ reading \in SUBSET Regs

\* The residues the structures stand for.
Residues == [r \in Regs |-> reg[r] % N]

\* What is decoded is a scalar.
LEMMA InputsAreScalars ==
  /\ \A low \in 0..(Chunk - 1) : low \in Scalars /\ low \in Nat /\ low < N
  /\ \A low \in Inputs : low \in 0..(Top - 1) /\ low \in Scalars
<1>1. \A low \in 0..(Top - 1) : low \in Scalars
  BY Bounds DEF Scalars
<1>2. \A low \in 0..(Chunk - 1) : low \in 0..(Top - 1) /\ low < N
  BY Bounds
<1>3. \A low \in Inputs : low \in 0..(Top - 1)
  BY InputAssumption
<1> QED BY <1>1, <1>2, <1>3

\* Any value of the right range and residue is a legal result.
LEMMA PutStep ==
  ASSUME IInv, NEW name \in {"add", "sub", "mul", "neg", "condcopy"}, NEW z \in Regs, NEW value \in Scalars, NEW residue \in Int,
         Congruent(value, residue, N), Put(name, z, value)
  PROVE  IInv' /\ Ring!Assign(name, z, residue)
<1>1. value % N = residue % N
  <2>1. value \in Int
    BY DEF Scalars
  <2> QED BY <2>1, Bounds, ModEqual
<1>2. /\ reading = {} /\ reg' = [reg EXCEPT ![z] = value] /\ answer' = 0 /\ reading' = reading
     /\ call' = <<name>>
  BY DEF Put, Idle
<1>3. IInv'
  BY <1>2 DEF IInv, Calls
<1>4. Residues' = [Residues EXCEPT ![z] = residue % N]
  BY <1>1, <1>2 DEF Residues, IInv
<1> QED BY <1>2, <1>3, <1>4 DEF Ring!Assign, Ring!Idle, Residues

\* An answer that is a function of the residues is the ring's answer.
LEMMA TellStep ==
  ASSUME IInv, NEW question \in Calls, NEW value \in Nat, Tell(question, value)
  PROVE  IInv' /\ Ring!Tell(question, value)
<1>1. reading = {} /\ call' = question /\ answer' = value /\ reg' = reg /\ reading' = reading
  BY DEF Tell, Idle
<1> QED BY <1>1 DEF IInv, Ring!Tell, Ring!Idle

\* The arithmetic operations, whichever structures they name.
LEMMA ArithmeticStep ==
  ASSUME IInv, NEW x \in Regs, NEW y \in Regs, NEW z \in Regs,
         \/ Add(z, x, y) \/ Sub(z, x, y) \/ Mul(z, x, y) \/ Neg(z, x)
         \/ \E ctl \in BOOLEAN : CondCopy(z, x, ctl)
  PROVE  IInv' /\ Ring!Next
<1> DEFINE p == reg[x]  q == reg[y]  u == reg[x] % N  w == reg[y] % N
<1>1. /\ p \in Scalars /\ q \in Scalars /\ p \in Nat /\ q \in Nat /\ N \in Nat /\ N > 0
      /\ p < 2 * N /\ q < 2 * N /\ 100 * p < 127 * N /\ 100 * q < 127 * N
  BY Bounds DEF IInv, Scalars
<1>2. /\ Congruent(p, u, N) /\ Congruent(q, w, N) /\ u \in Int /\ w \in Int
  <2>1. \A e \in Nat : Congruent(e, e % N, N) /\ e % N \in Int
    BY <1>1, ModCongruent
  <2> QED BY <1>1, <2>1
<1>3. Residues[x] = u /\ Residues[y] = w
  BY DEF Residues
<1>4. ASSUME NEW name \in {"add", "sub", "mul", "neg", "condcopy"},
             NEW value \in Scalars, NEW residue \in Int, Congruent(value, residue, N),
             Put(name, z, value),
             \/ name = "add" /\ residue = u + w
             \/ name = "sub" /\ residue = u - w
             \/ name = "mul" /\ residue = u * w
             \/ name = "neg" /\ residue = -u
             \/ name = "condcopy" /\ residue = u
      PROVE  IInv' /\ Ring!Next
  <2>1. IInv' /\ Ring!Assign(name, z, residue)
    BY <1>4, PutStep
  <2>2. Ring!Arithmetic(z, x, y)
    <3> HIDE DEF u, w
    <3>1. /\ [r \in Regs |-> reg[r] % N][x] = u
          /\ [r \in Regs |-> reg[r] % N][y] = w
      BY <1>3 DEF Residues
    <3> QED BY <1>4, <2>1, <3>1 DEF Ring!Arithmetic, Ring!Assign
  <2> QED BY <2>1, <2>2 DEF Ring!Next
<1> HIDE DEF p, q, u, w
<1>5. CASE Add(z, x, y)
  <2>1. ScalarAdd(p, q) \in Scalars /\ Congruent(ScalarAdd(p, q), p + q, N)
    BY <1>1, AddCorrect
  <2>2. Congruent(p + q, u + w, N)
    BY <1>1, <1>2, CongruentSum
  <2>3. p + q \in Int /\ u + w \in Int /\ ScalarAdd(p, q) \in Int
    BY <1>1, <1>2, <2>1 DEF Scalars
  <2>4. Congruent(ScalarAdd(p, q), u + w, N)
    BY <1>1, <2>1, <2>2, <2>3, CongruentTrans
  <2>5. Put("add", z, ScalarAdd(p, q))
    BY <1>5 DEF Add, p, q
  <2> QED BY <1>4, <2>1, <2>3, <2>4, <2>5
<1>6. CASE Sub(z, x, y)
  <2>1. ScalarSub(p, q) \in Scalars /\ Congruent(ScalarSub(p, q), p - q, N)
    BY <1>1, SubCorrect
  <2>2. Congruent(p - q, u - w, N)
    BY <1>1, <1>2, CongruentSum
  <2>3. p - q \in Int /\ u - w \in Int /\ ScalarSub(p, q) \in Int
    BY <1>1, <1>2, <2>1 DEF Scalars
  <2>4. Congruent(ScalarSub(p, q), u - w, N)
    BY <1>1, <2>1, <2>2, <2>3, CongruentTrans
  <2>5. Put("sub", z, ScalarSub(p, q))
    BY <1>6 DEF Sub, p, q
  <2> QED BY <1>4, <2>1, <2>3, <2>4, <2>5
<1>7. CASE Mul(z, x, y)
  <2>1. ScalarMul(p, q) \in Scalars /\ Congruent(ScalarMul(p, q), p * q, N)
    BY <1>1, MulCorrect
  <2>2. Congruent(p * q, u * w, N)
    BY <1>1, <1>2, CongruentProduct
  <2>3. p * q \in Int /\ u * w \in Int /\ ScalarMul(p, q) \in Int
    BY <1>1, <1>2, <2>1 DEF Scalars
  <2>4. Congruent(ScalarMul(p, q), u * w, N)
    BY <1>1, <2>1, <2>2, <2>3, CongruentTrans
  <2>5. Put("mul", z, ScalarMul(p, q))
    BY <1>7 DEF Mul, p, q
  <2> QED BY <1>4, <2>1, <2>3, <2>4, <2>5
<1>8. CASE Neg(z, x)
  <2>1. ScalarSub(0, p) \in Scalars /\ Congruent(ScalarSub(0, p), 0 - p, N)
    BY <1>1, SubCorrect
  <2>2. Congruent(0 - p, 0 - u, N)
    <3>1. Congruent(0, 0, N)
      BY <1>1, CongruentRefl
    <3> QED BY <1>1, <1>2, <3>1, CongruentSum
  <2>3. 0 - u = -u /\ 0 - p \in Int /\ -u \in Int /\ ScalarSub(0, p) \in Int
    BY <1>1, <1>2, <2>1 DEF Scalars
  <2>4. Congruent(ScalarSub(0, p), -u, N)
    BY <1>1, <2>1, <2>2, <2>3, CongruentTrans
  <2>5. Put("neg", z, ScalarSub(0, p))
    BY <1>8 DEF Neg, p
  <2> QED BY <1>4, <2>1, <2>3, <2>4, <2>5
<1>9. CASE \E ctl \in BOOLEAN : CondCopy(z, x, ctl)
  <2>1. Put("condcopy", z, p) \/ Put("condcopy", z, reg[z])
    BY <1>9 DEF CondCopy, p
  <2>2. CASE Put("condcopy", z, p)
    BY <1>1, <1>2, <1>4, <2>2
  <2>3. CASE Put("condcopy", z, reg[z])
    <3>1. /\ reg' = reg /\ answer' = 0 /\ reading' = reading /\ reading = {}
          /\ call' = <<"condcopy">>
      BY <2>3 DEF Put, Idle, IInv
    <3>2. Ring!Assign("condcopy", z, Residues[z])
      <4>1. Residues[z] = Residues[z] % N
        <5> DEFINE r == reg[z]
        <5>1. r \in Int
          BY DEF IInv, Scalars
        <5> HIDE DEF r
        <5>2. r % N \in 0..(N - 1) /\ Congruent(r % N, r, N)
          BY <1>1, <5>1, ModCongruent
        <5>3. r % N \in Int /\ (r % N) % N = r % N
          BY <1>1, <5>1, <5>2, ModEqual
        <5> QED BY <5>3 DEF Residues, r
      <4>2. Residues' = [Residues EXCEPT ![z] = Residues[z] % N]
        BY <3>1, <4>1 DEF Residues
      <4> QED BY <3>1, <4>2 DEF Ring!Assign, Ring!Idle, Residues
    <3>3. Ring!Arithmetic(z, z, y)
      BY <3>2 DEF Ring!Arithmetic, Residues
    <3>4. IInv'
      BY <3>1 DEF IInv, Calls
    <3> QED BY <3>3, <3>4 DEF Ring!Next
  <2> QED BY <2>1, <2>2, <2>3
<1> QED BY <1>5, <1>6, <1>7, <1>8, <1>9

\* The questions: encoding, comparison to zero, equality.
LEMMA QuestionStep ==
  ASSUME IInv, NEW x \in Regs, NEW y \in Regs, Encode(x) \/ IsZero(x) \/ Eq(x, y)
  PROVE  IInv' /\ Ring!Next
<1> DEFINE p == reg[x]  q == reg[y]  s == ScalarSub(p, q)
<1>1. /\ p \in Scalars /\ q \in Scalars /\ p \in Nat /\ q \in Nat /\ N \in Nat /\ N > 0
      /\ q < 2 * N /\ 100 * p < 127 * N
  BY Bounds DEF IInv, Scalars
<1>2. Normalize(p) = p % N /\ p % N \in Nat
  <2> HIDE DEF p
  <2>1. p % N \in 0..(N - 1)
    BY <1>1, ModCongruent
  <2> QED BY <1>1, <2>1, NormalizeCorrect
<1>3. Residues[x] = p % N /\ Residues[y] = q % N
  BY DEF Residues
<1>4. Flag(TRUE) \in Nat /\ Flag(FALSE) \in Nat /\ \A e \in BOOLEAN : Flag(e) = Ring!Flag(e)
  BY DEF Flag, Ring!Flag
<1>5. CASE Encode(x)
  <2>1. Tell(<<"encode", x>>, p % N) /\ <<"encode", x>> \in Calls
    BY <1>2, <1>5 DEF Encode, Calls
  <2>2. IInv' /\ Ring!Tell(<<"encode", x>>, Residues[x])
    BY <1>2, <1>3, <2>1, TellStep
  <2> QED BY <2>2 DEF Ring!Next, Residues
<1>6. CASE IsZero(x)
  <2>1. Tell(<<"is_zero", x>>, Flag(p % N = 0)) /\ <<"is_zero", x>> \in Calls
    BY <1>2, <1>6 DEF IsZero, Calls
  <2>2. IInv' /\ Ring!Tell(<<"is_zero", x>>, Ring!Flag(Residues[x] = 0))
    BY <1>3, <1>4, <2>1, TellStep DEF Flag, Ring!Flag
  <2> QED BY <2>2 DEF Ring!Next, Residues
<1>7. CASE Eq(x, y)
  <2>1. s \in Scalars /\ Congruent(s, p - q, N)
    <3> HIDE DEF p, q
    <3> QED BY <1>1, SubCorrect
  <2>2. Normalize(s) = s % N
    BY <2>1, NormalizeCorrect
  <2>3. s % N = 0 <=> p % N = q % N
    <3> HIDE DEF p, q, s
    <3>1. s \in Int /\ p \in Int /\ q \in Int /\ p - q \in Int /\ 0 \in Int /\ 0 % N = 0
      BY <1>1, <2>1 DEF Scalars
    <3>2. s % N = (p - q) % N
      BY <1>1, <2>1, <3>1, ModEqual
    <3>3. ASSUME (p - q) % N = 0 PROVE p % N = q % N
      BY <1>1, <3>1, <3>3, DifferenceCongruent, ModEqual
    <3>4. ASSUME p % N = q % N PROVE (p - q) % N = 0
      <4>1. PICK l \in Int : p = q + l * N
        BY <1>1, <3>1, <3>4, ModEqual DEF Congruent
      <4>2. p - q = 0 + l * N
        <5> DEFINE r == l * N
        <5>1. r \in Int /\ p = q + r
          BY <1>1, <4>1
        <5> HIDE DEF r
        <5>2. p - q = 0 + r
          BY <3>1, <5>1
        <5> QED BY <5>2 DEF r
      <4>3. Congruent(p - q, 0, N)
        BY <4>2 DEF Congruent
      <4> QED BY <1>1, <3>1, <4>3, ModEqual
    <3> QED BY <3>2, <3>3, <3>4
  <2>4. Tell(<<"eq", x, y>>, Flag(p % N = q % N)) /\ <<"eq", x, y>> \in Calls
    <3>1. Flag(s % N = 0) = Flag(p % N = q % N)
      BY <2>3 DEF Flag
    <3> QED BY <1>7, <2>2, <3>1 DEF Eq, Calls
  <2>5. IInv' /\ Ring!Tell(<<"eq", x, y>>, Ring!Flag(Residues[x] = Residues[y]))
    BY <1>3, <1>4, <2>4, TellStep DEF Flag, Ring!Flag
  <2> QED BY <2>5 DEF Ring!Next, Residues
<1> QED BY <1>5, <1>6, <1>7

\* The decoders.
LEMMA StrictStep ==
  ASSUME IInv, NEW z \in Regs, NEW low \in Scalars, NEW ignored \in BOOLEAN,
         low \in 0..(Top - 1), reading = {}, reading' = reading,
         call' = <<"decode_strict">>,
         answer' = Flag(~ignored /\ WasNormal(low)),
         NEW value \in Scalars, value % N = low % N, reg' = [reg EXCEPT ![z] = value]
  PROVE  IInv' /\ Ring!Next
<1>1. low \in Nat /\ N \in Nat /\ N > 0 /\ answer' \in Nat
  BY Bounds DEF Scalars, Flag
<1>2. low % N \in 0..(N - 1) /\ (low < N => low % N = low)
  <2>1. low % N \in 0..(N - 1)
    BY <1>1, ModCongruent
  <2>2. low < N => low % N = low
    BY <1>1
  <2> QED BY <2>1, <2>2
<1>3. IInv'
  BY <1>1 DEF IInv, Calls
<1>4. Residues' = [Residues EXCEPT ![z] = low % N]
  BY DEF Residues, IInv
<1>5. answer' = Ring!Flag(low < N /\ ~ignored) /\ (answer' = 1 => low % N = low)
  BY <1>2 DEF Flag, Ring!Flag, WasNormal
<1>6. Ring!DecodeStrict(z, low, ignored)
  BY <1>2, <1>4, <1>5 DEF Ring!DecodeStrict, Ring!Idle, Residues
<1> QED BY <1>3, <1>6 DEF Ring!Next

LEMMA DecodeStep ==
  ASSUME IInv, NEW z \in Regs,
         \/ \E low \in Inputs, ignored \in BOOLEAN : DecodeStrict(z, low, ignored)
         \/ \E low \in 0..(Chunk - 1) : DecodeStrictShort(z, low)
         \/ \E chunk \in 0..(Chunk - 1) : DecodeReduceFirst(z, chunk) \/ DecodeReduceNext(z, chunk)
  PROVE  IInv' /\ Ring!Next
<1>1. CASE \E low \in Inputs, ignored \in BOOLEAN : DecodeStrict(z, low, ignored)
  <2>1. PICK low \in Inputs, ignored \in BOOLEAN : DecodeStrict(z, low, ignored)
    BY <1>1
  <2>2. low \in Scalars /\ low \in 0..(Top - 1) /\ low \in Nat
    BY InputsAreScalars DEF Scalars
  <2> DEFINE value == Normalize(low)
  <2>3. value = low % N
    BY <2>2, NormalizeCorrect
  <2>4. value \in Scalars /\ value % N = low % N
    <3>1. N \in Nat /\ N > 0
      BY Bounds
    <3>2. low % N \in 0..(N - 1) /\ Congruent(low % N, low, N) /\ low % N \in Int
      BY <2>2, <3>1, ModCongruent
    <3>3. (low % N) % N = low % N
      BY <2>2, <3>1, <3>2, ModEqual
    <3>4. low % N \in Scalars
      BY <3>1, <3>2 DEF Scalars
    <3> QED BY <2>3, <3>3, <3>4
  <2>5. /\ reading = {} /\ reading' = reading /\ reg' = [reg EXCEPT ![z] = value]
        /\ answer' = Flag(~ignored /\ WasNormal(low)) /\ call' = <<"decode_strict">>
    BY <2>1 DEF DecodeStrict, Idle
  <2> HIDE DEF value
  <2> QED BY <2>2, <2>4, <2>5, StrictStep
<1>2. CASE \E low \in 0..(Chunk - 1) : DecodeStrictShort(z, low)
  <2>1. PICK low \in 0..(Chunk - 1) : DecodeStrictShort(z, low)
    BY <1>2
  <2>2. low \in Scalars /\ low \in 0..(Top - 1) /\ low < N
    BY InputsAreScalars, Bounds
  <2>3. /\ reading = {} /\ reading' = reading /\ reg' = [reg EXCEPT ![z] = low]
        /\ answer' = Flag(~FALSE /\ WasNormal(low)) /\ call' = <<"decode_strict">>
    BY <2>1, <2>2 DEF DecodeStrictShort, Idle, Flag, WasNormal
  <2> QED BY <2>2, <2>3, StrictStep
<1>3. ASSUME NEW chunk \in 0..(Chunk - 1), DecodeReduceFirst(z, chunk)
      PROVE  IInv' /\ Ring!Next
  <2>1. /\ reading = {} /\ reg' = [reg EXCEPT ![z] = chunk] /\ answer' = 0
        /\ reading' \in {{}, {z}} /\ call' = <<"decode_reduce">>
    BY <1>3 DEF DecodeReduceFirst, Idle
  <2>2. IInv'
    BY <2>1, InputsAreScalars DEF IInv, Calls
  <2>3. Residues' = [Residues EXCEPT ![z] = chunk % N]
    BY <2>1 DEF Residues, IInv
  <2>4. Ring!DecodeReduceFirst(z, chunk)
    BY <2>1, <2>3 DEF Ring!DecodeReduceFirst, Ring!Idle, Residues
  <2> QED BY <2>2, <2>4 DEF Ring!Next
<1>4. ASSUME NEW chunk \in 0..(Chunk - 1), DecodeReduceNext(z, chunk)
      PROVE  IInv' /\ Ring!Next
  <2> DEFINE x == reg[z]  u == reg[z] % N  y == Absorb(x, chunk)
  <2>1. /\ reading = {z} /\ reg' = [reg EXCEPT ![z] = y] /\ answer' = answer
        /\ reading' \in {{}, {z}} /\ call' = call
    BY <1>4 DEF DecodeReduceNext
  <2>2. x \in Scalars /\ x \in Int /\ N \in Nat /\ N > 0 /\ Chunk \in Int /\ chunk \in Int
    BY Bounds DEF IInv, Scalars
  <2>3. y \in Scalars /\ y \in Int /\ Congruent(y, x * Chunk + chunk, N)
    <3> HIDE DEF x
    <3> QED BY <2>2, AbsorbCorrect DEF Scalars
  <2>4. y % N = (u * Chunk + chunk) % N
    <3>1. \A e \in Int : Congruent(e, e % N, N) /\ e % N \in Int
      BY <2>2, ModCongruent
    <3>2. Congruent(x, u, N) /\ u \in Int
      BY <2>2, <3>1
    <3> HIDE DEF x, u, y
    <3>3. Congruent(Chunk, Chunk, N) /\ Congruent(chunk, chunk, N) /\ N \in Int
      BY <2>2, CongruentRefl
    <3>4. x * Chunk \in Int /\ u * Chunk \in Int /\ x * Chunk + chunk \in Int
          /\ u * Chunk + chunk \in Int
      BY <2>2, <3>2
    <3>5. Congruent(x * Chunk, u * Chunk, N)
      BY <2>2, <3>2, <3>3, CongruentProduct
    <3>6. Congruent(x * Chunk + chunk, u * Chunk + chunk, N)
      BY <2>2, <3>3, <3>4, <3>5, CongruentSum
    <3>7. Congruent(y, u * Chunk + chunk, N)
      BY <2>3, <3>3, <3>4, <3>6, CongruentTrans
    <3> QED BY <2>2, <2>3, <3>4, <3>7, ModEqual
  <2>5. IInv'
    BY <2>1, <2>3 DEF IInv
  <2>6. Residues' = [Residues EXCEPT ![z] = (Residues[z] * Chunk + chunk) % N]
    BY <2>1, <2>4 DEF Residues, IInv
  <2>7. Ring!DecodeReduceNext(z, chunk)
    BY <2>1, <2>6 DEF Ring!DecodeReduceNext, Residues
  <2> QED BY <2>5, <2>7 DEF Ring!Next
<1> QED BY <1>1, <1>2, <1>3, <1>4

\* Every step keeps the invariant and is a step of the ring.
LEMMA Step == IInv /\ [Next]_vars => IInv' /\ [Ring!Next]_(Ring!vars)
<1> SUFFICES ASSUME IInv, [Next]_vars PROVE IInv' /\ [Ring!Next]_(Ring!vars)
  OBVIOUS
<1>1. CASE UNCHANGED vars
  BY <1>1 DEF vars, IInv, Ring!vars
<1>2. CASE \E x, y, z \in Regs : Add(z, x, y) \/ Sub(z, x, y) \/ Mul(z, x, y)
  BY <1>2, ArithmeticStep
<1>3. CASE \E x, z \in Regs : Neg(z, x) \/ \E ctl \in BOOLEAN : CondCopy(z, x, ctl)
  BY <1>3, ArithmeticStep
<1>4. CASE \E x, y \in Regs : Encode(x) \/ IsZero(x) \/ Eq(x, y)
  BY <1>4, QuestionStep
<1>5. CASE \E z \in Regs :
             \/ \E low \in Inputs, ignored \in BOOLEAN : DecodeStrict(z, low, ignored)
             \/ \E low \in 0..(Chunk - 1) : DecodeStrictShort(z, low)
             \/ \E chunk \in 0..(Chunk - 1) :
                  DecodeReduceFirst(z, chunk) \/ DecodeReduceNext(z, chunk)
  BY <1>5, DecodeStep
<1> QED BY <1>1, <1>2, <1>3, <1>4, <1>5 DEF Next

\* The constants zero and one are their own residues.
LEMMA Initially == Init => IInv /\ Ring!Init
<1> SUFFICES ASSUME Init PROVE IInv /\ Ring!Init
  OBVIOUS
<1>1. 0 \in Scalars /\ 1 \in Scalars /\ 0 % N = 0 /\ 1 % N = 1
  BY Bounds DEF Scalars
<1>2. reg \in [Regs -> {0, 1}] /\ call = <<"none">> /\ answer = 0 /\ reading = {}
  BY DEF Init
<1>3. IInv
  BY <1>1, <1>2 DEF IInv, Calls
<1>4. Residues \in [Regs -> {0, 1}]
  BY <1>1, <1>2 DEF Residues
<1> QED BY <1>2, <1>3, <1>4 DEF Ring!Init, Residues

\* No sequence of calls leaves the range below 1.27 * N that every function of
\* scalar_ref.c assumes.
THEOREM RangeCorrect == Spec => []InRange
<1>1. IInv => InRange
  BY DEF IInv, InRange
<1>2. Init => IInv
  BY Initially
<1>3. IInv /\ [Next]_vars => IInv'
  BY Step
<1> QED BY <1>1, <1>2, <1>3, PTL DEF Spec

\* The structures and the return values are natural numbers.
THEOREM TypeCorrect == Spec => []TypeOK
<1>1. IInv => TypeOK
  BY DEF IInv, TypeOK, Scalars
<1>2. Init => IInv
  BY Initially
<1>3. IInv /\ [Next]_vars => IInv'
  BY Step
<1> QED BY <1>1, <1>2, <1>3, PTL DEF Spec

\* The scalar API implements arithmetic modulo the order.
THEOREM Implements == Spec => IsRing
<1>1. Init => IInv /\ Ring!Init
  BY Initially
<1>2. IInv /\ [Next]_vars => IInv' /\ [Ring!Next]_(Ring!vars)
  BY Step
<1> QED BY <1>1, <1>2, PTL DEF Spec, IsRing, Ring!Spec


-----------------------------------------------------------------------------
(* Sizes. *)

\* The exponents that occur are in the range of the laws.
LEMMA ExponentTypes ==
  /\ LimbBits \in Nat /\ LimbBits >= 1 /\ Limbs \in Nat /\ Limbs >= 1 /\ TopBits \in Nat
  /\ TopBits < LimbBits /\ WordBits \in Nat /\ WordBits >= 2 * LimbBits + 2
  /\ \A k \in Exponents : 2^k \in Nat /\ 2^k >= 1
  /\ \A k \in 0..Limbs : LimbBits * k \in Nat /\ LimbBits * k <= LimbBits * Limbs
  /\ LimbBits * Limbs \in Nat
<1>1. /\ LimbBits \in Nat /\ LimbBits >= 1 /\ Limbs \in Nat /\ Limbs >= 1 /\ TopBits \in Nat
      /\ TopBits < LimbBits /\ WordBits \in Nat /\ WordBits >= 2 * LimbBits + 2
  BY LimbAssumption
<1>2. \A k \in Exponents : 2^k \in Nat /\ 2^k >= 1
  BY LimbPowerLaws
<1>3. ASSUME NEW k \in 0..Limbs
      PROVE  LimbBits * k \in Nat /\ LimbBits * k <= LimbBits * Limbs
  BY <1>1
<1> QED BY <1>1, <1>2, <1>3

\* The base is even, and half of it is a power of two.
LEMMA Base == B \in Nat /\ B >= 2 /\ 2^(LimbBits - 1) \in Nat /\ 2^(LimbBits - 1) >= 1
              /\ B = 2 * 2^(LimbBits - 1)
<1>1. LimbBits - 1 \in Exponents /\ 1 \in Exponents /\ (LimbBits - 1) + 1 = LimbBits
      /\ LimbBits \in Exponents
  BY ExponentTypes DEF Exponents
<1>2. 2^LimbBits = 2^(LimbBits - 1) * 2^1 /\ 2^1 = 2
  BY <1>1, LimbPowerLaws
<1>3. 2^(LimbBits - 1) \in Nat /\ 2^(LimbBits - 1) >= 1
  BY <1>1, ExponentTypes
<1> QED BY <1>2, <1>3 DEF B

\* The powers of the base, the radix and the limit of scalar_add.
LEMMA Powers ==
  /\ \A k \in 0..Limbs : B^k \in Nat /\ B^k >= 1
  /\ \A k \in 0..(Limbs - 1) : B^(k + 1) = B^k * B
  /\ B^0 = 1 /\ B^Limbs = R
  /\ 2^TopBits \in Nat /\ 2^TopBits >= 1 /\ Top = B^(Limbs - 1) * 2^TopBits
<1>1. ASSUME NEW k \in 0..Limbs
      PROVE  LimbBits * k \in Exponents /\ B^k = 2^(LimbBits * k)
  BY ExponentTypes, LimbPowerLaws DEF Exponents
<1>2. ASSUME NEW k \in 0..(Limbs - 1) PROVE B^(k + 1) = B^k * B
  <2>1. k \in 0..Limbs /\ k + 1 \in 0..Limbs /\ LimbBits * (k + 1) = LimbBits * k + LimbBits
    BY ExponentTypes
  <2>2. LimbBits * k \in Exponents /\ LimbBits \in Exponents /\ LimbBits * k + LimbBits \in Exponents
    BY <1>1, <2>1, ExponentTypes DEF Exponents
  <2>3. 2^(LimbBits * k + LimbBits) = 2^(LimbBits * k) * 2^LimbBits
    BY <2>2, LimbPowerLaws
  <2> QED BY <1>1, <2>1, <2>3 DEF B
<1>3. B^0 = 1
  <2>1. 0 \in 0..Limbs /\ LimbBits * 0 = 0
    BY ExponentTypes
  <2> QED BY <1>1, <2>1, LimbPowerLaws
<1>4. B^Limbs = R
  <2>1. Limbs \in 0..Limbs
    BY ExponentTypes
  <2> QED BY <1>1, <2>1, LimbAssumption
<1>5. 2^TopBits \in Nat /\ 2^TopBits >= 1 /\ Top = B^(Limbs - 1) * 2^TopBits
  <2>1. Limbs - 1 \in 0..Limbs /\ LimbBits * (Limbs - 1) + LimbBits = LimbBits * Limbs
        /\ LimbBits * (Limbs - 1) \in Int
    BY ExponentTypes
  <2>2. LimbBits * (Limbs - 1) \in Nat
    BY <2>1, ExponentTypes
  <2>3. /\ LimbBits * (Limbs - 1) \in Exponents /\ TopBits \in Exponents
        /\ LimbBits * (Limbs - 1) + TopBits \in Exponents
    BY <2>1, <2>2, ExponentTypes DEF Exponents
  <2>4. 2^(LimbBits * (Limbs - 1) + TopBits) = 2^(LimbBits * (Limbs - 1)) * 2^TopBits
    BY <2>3, LimbPowerLaws
  <2> QED BY <1>1, <2>1, <2>3, <2>4, ExponentTypes, LimbAssumption
<1>6. \A k \in 0..Limbs : B^k \in Nat /\ B^k >= 1
  BY <1>1, ExponentTypes
<1> QED BY <1>2, <1>3, <1>4, <1>5, <1>6

\* A word holds four products of limbs; it is even, and a multiple of the base.
LEMMA WordSize ==
  /\ 2^WordBits \in Nat /\ 2^(WordBits - 1) \in Nat
  /\ 2^WordBits = 2 * 2^(WordBits - 1)
  /\ 2^WordBits >= 4 * (B * B)
  /\ \E q \in Nat : 2^WordBits = q * B
<1>1. /\ WordBits \in Exponents /\ WordBits - 1 \in Exponents /\ 1 \in Exponents
      /\ LimbBits \in Exponents /\ WordBits - LimbBits \in Exponents
      /\ 2 \in Exponents /\ 2 * LimbBits \in Exponents /\ 2 + 2 * LimbBits \in Exponents
      /\ WordBits - (2 + 2 * LimbBits) \in Exponents
      /\ (WordBits - 1) + 1 = WordBits /\ (WordBits - LimbBits) + LimbBits = WordBits
      /\ LimbBits + LimbBits = 2 * LimbBits /\ 1 + 1 = 2
      /\ (2 + 2 * LimbBits) + (WordBits - (2 + 2 * LimbBits)) = WordBits
  BY ExponentTypes DEF Exponents
<1>2. /\ 2^WordBits = 2^(WordBits - 1) * 2^1
      /\ 2^WordBits = 2^(WordBits - LimbBits) * 2^LimbBits
      /\ 2^(2 * LimbBits) = 2^LimbBits * 2^LimbBits
      /\ 2^2 = 2^1 * 2^1
      /\ 2^(2 + 2 * LimbBits) = 2^2 * 2^(2 * LimbBits)
      /\ 2^WordBits = 2^(2 + 2 * LimbBits) * 2^(WordBits - (2 + 2 * LimbBits))
  <2>1. ASSUME NEW k \in Exponents, NEW l \in Exponents, NEW n \in Exponents, k + l = n
        PROVE  2^n = 2^k * 2^l
    BY <2>1, LimbPowerLaws
  <2>2. 2^WordBits = 2^(WordBits - 1) * 2^1
    BY <1>1, <2>1
  <2>3. 2^WordBits = 2^(WordBits - LimbBits) * 2^LimbBits
    BY <1>1, <2>1
  <2>4. 2^(2 * LimbBits) = 2^LimbBits * 2^LimbBits /\ 2^2 = 2^1 * 2^1
    BY <1>1, <2>1
  <2>5. 2^(2 + 2 * LimbBits) = 2^2 * 2^(2 * LimbBits)
    BY <1>1, <2>1
  <2>6. 2^WordBits = 2^(2 + 2 * LimbBits) * 2^(WordBits - (2 + 2 * LimbBits))
    BY <1>1, <2>1
  <2> QED BY <2>2, <2>3, <2>4, <2>5, <2>6
<1>3. /\ 2^WordBits \in Nat /\ 2^(WordBits - 1) \in Nat /\ 2^(WordBits - LimbBits) \in Nat
      /\ 2^(WordBits - (2 + 2 * LimbBits)) \in Nat /\ 2^(WordBits - (2 + 2 * LimbBits)) >= 1
  BY <1>1, ExponentTypes
<1>4. 2^WordBits = 2 * 2^(WordBits - 1) /\ 2^WordBits = 2^(WordBits - LimbBits) * B
  <2>1. 2^1 = 2
    BY LimbPowerLaws
  <2>2. 2^WordBits = 2^(WordBits - 1) * 2
    BY <1>2, <2>1
  <2> QED BY <1>2, <1>3, <2>2 DEF B
<1>5. 2^WordBits >= 4 * (B * B)
  <2> DEFINE x == B * B  y == 2^(WordBits - (2 + 2 * LimbBits))
  <2>1. 2^2 = 4 /\ 2^(2 * LimbBits) = x
    BY <1>2, LimbPowerLaws DEF B
  <2>2. 2^WordBits = (4 * x) * y
    BY <1>2, <2>1
  <2>3. x \in Nat /\ y \in Nat /\ y >= 1
    BY <1>3, Base
  <2> HIDE DEF x, y
  <2>4. (4 * x) * y >= 4 * x
    <3> DEFINE z == 4 * x
    <3>1. z \in Nat
      BY <2>3
    <3> HIDE DEF z
    <3>2. z * y >= z
      BY <2>3, <3>1
    <3> QED BY <3>2 DEF z
  <2> QED BY <2>2, <2>4 DEF x
<1> QED BY <1>3, <1>4, <1>5

-----------------------------------------------------------------------------
(* The integer that limbs stand for. *)

LimbArrays == [Index -> 0..(B - 1)]

\* The partial sums that Value is defined with: they exist, and there is one sum for
\* each number of limbs.
PartialSums(s, x, n) ==
    s = [k \in 0..n |-> IF k = 0 THEN 0 ELSE s[k - 1] + x[k - 1] * B^(k - 1)]

LEMMA SumsExist == \A x : \A n \in Nat : \E s : PartialSums(s, x, n)
<1> SUFFICES ASSUME NEW x PROVE \A n \in Nat : \E s : PartialSums(s, x, n)
  OBVIOUS
<1> DEFINE Missing == {n \in Nat : ~\E s : PartialSums(s, x, n)}
<1> SUFFICES ASSUME Missing # {} PROVE FALSE
  OBVIOUS
<1>1. PICK n \in Missing : \A k \in Missing : n <= k
  BY LeastNatural
<1>2. n # 0
  <2> DEFINE s == [k \in 0..0 |-> 0]
  <2>1. PartialSums(s, x, 0)
    BY DEF PartialSums
  <2> QED BY <1>1, <2>1
<1>3. n - 1 \in Nat /\ n - 1 \notin Missing
  BY <1>1, <1>2
<1>4. PICK s : PartialSums(s, x, n - 1)
  BY <1>3
<1> DEFINE t == [k \in 0..n |-> IF k = 0 THEN 0
                                ELSE IF k = n THEN s[n - 1] + x[n - 1] * B^(n - 1)
                                ELSE s[k]]
<1>5. PartialSums(t, x, n)
  <2>1. s = [k \in 0..(n - 1) |-> IF k = 0 THEN 0 ELSE s[k - 1] + x[k - 1] * B^(k - 1)]
    BY <1>4 DEF PartialSums
  <2>2. ASSUME NEW k \in 0..(n - 1) PROVE t[k] = s[k]
    <3>1. k \in 0..n /\ k # n
      BY <1>1, <2>2
    <3>2. k = 0 => s[k] = 0
      BY <2>1, <2>2
    <3> QED BY <3>1, <3>2
  <2>3. ASSUME NEW k \in 0..n, k # 0 PROVE t[k] = t[k - 1] + x[k - 1] * B^(k - 1)
    <3>1. k - 1 \in 0..(n - 1) /\ n \in Nat
      BY <1>1, <2>3
    <3>2. t[k - 1] = s[k - 1]
      BY <2>2, <3>1
    <3>3. CASE k = n
      BY <2>3, <3>2, <3>3
    <3>4. CASE k # n
      <4>1. k \in 0..(n - 1)
        BY <2>3, <3>1, <3>4
      <4>2. t[k] = s[k]
        BY <2>2, <4>1
      <4>3. s[k] = s[k - 1] + x[k - 1] * B^(k - 1)
        BY <2>1, <2>3, <4>1
      <4> QED BY <3>2, <4>2, <4>3
    <3> QED BY <3>3, <3>4
  <2>4. t[0] = 0
    BY <1>1
  <2>5. t = [k \in 0..n |-> t[k]]
    OBVIOUS
  <2> HIDE DEF t
  <2> QED BY <2>3, <2>4, <2>5 DEF PartialSums
<1> QED BY <1>1, <1>5

LEMMA SumsUnique ==
  ASSUME NEW x, NEW n \in Nat, NEW l \in Nat, n <= l, NEW s, NEW t,
         PartialSums(s, x, n), PartialSums(t, x, l)
  PROVE  s[n] = t[n]
<1> DEFINE Differ == {k \in 0..n : s[k] # t[k]}
<1>1. Differ = {}
  <2> SUFFICES ASSUME Differ # {} PROVE FALSE
    OBVIOUS
  <2>1. Differ \in SUBSET Nat
    OBVIOUS
  <2>2. PICK k \in Differ : \A j0 \in Differ : k <= j0
    BY <2>1, LeastNatural
  <2>3. /\ s = [p \in 0..n |-> IF p = 0 THEN 0 ELSE s[p - 1] + x[p - 1] * B^(p - 1)]
        /\ t = [p \in 0..l |-> IF p = 0 THEN 0 ELSE t[p - 1] + x[p - 1] * B^(p - 1)]
    BY DEF PartialSums
  <2>4. k \in 0..n /\ k \in 0..l /\ s[k] # t[k]
    BY <2>2
  <2>5. CASE k = 0
    BY <2>3, <2>4, <2>5
  <2>6. CASE k # 0
    <3>1. k - 1 \in 0..n /\ k - 1 \notin Differ
      BY <2>2, <2>4, <2>6
    <3>2. s[k - 1] = t[k - 1]
      BY <3>1
    <3>3. /\ s[k] = s[k - 1] + x[k - 1] * B^(k - 1)
          /\ t[k] = t[k - 1] + x[k - 1] * B^(k - 1)
      BY <2>3, <2>4, <2>6
    <3> QED BY <2>4, <3>2, <3>3
  <2> QED BY <2>5, <2>6
<1> QED BY <1>1

LEMMA ValueIsSum ==
  ASSUME NEW x, NEW n \in Nat
  PROVE  \E s : PartialSums(s, x, n) /\ Value(x, n) = s[n]
<1> DEFINE s == CHOOSE s0 : PartialSums(s0, x, n)
<1>1. PartialSums(s, x, n)
  BY SumsExist
<1>2. Value(x, n) = s[n]
  BY DEF Value, PartialSums
<1> QED BY <1>1, <1>2

\* No limb is worth nothing, and each limb counts with its power of the base.
LEMMA ValueUnfold ==
  /\ \A x : Value(x, 0) = 0
  /\ \A x : \A n \in Nat : Value(x, n + 1) = Value(x, n) + x[n] * B^n
<1>1. ASSUME NEW x PROVE Value(x, 0) = 0
  <2>1. PICK s : PartialSums(s, x, 0) /\ Value(x, 0) = s[0]
    BY ValueIsSum
  <2>2. s = [k \in 0..0 |-> IF k = 0 THEN 0 ELSE s[k - 1] + x[k - 1] * B^(k - 1)]
    BY <2>1 DEF PartialSums
  <2>3. s[0] = 0
    BY <2>2
  <2> QED BY <2>1, <2>3
<1>2. ASSUME NEW x, NEW n \in Nat PROVE Value(x, n + 1) = Value(x, n) + x[n] * B^n
  <2>1. PICK s : PartialSums(s, x, n) /\ Value(x, n) = s[n]
    BY ValueIsSum
  <2>2. n + 1 \in Nat
    OBVIOUS
  <2>3. PICK t : PartialSums(t, x, n + 1) /\ Value(x, n + 1) = t[n + 1]
    BY <2>2, ValueIsSum
  <2>4. s[n] = t[n]
    BY <2>1, <2>2, <2>3, SumsUnique
  <2>5. t = [k \in 0..(n + 1) |-> IF k = 0 THEN 0 ELSE t[k - 1] + x[k - 1] * B^(k - 1)]
    BY <2>3 DEF PartialSums
  <2>6. t[n + 1] = t[(n + 1) - 1] + x[(n + 1) - 1] * B^((n + 1) - 1) /\ (n + 1) - 1 = n
    BY <2>5
  <2> QED BY <2>1, <2>3, <2>4, <2>6
<1> QED BY <1>1, <1>2

\* Limbs below n make an integer below the power n of the base.
LEMMA ValueType ==
  ASSUME NEW x \in LimbArrays
  PROVE  \A n \in 0..Limbs : Value(x, n) \in Nat /\ Value(x, n) < B^n
<1> DEFINE S == {n \in 0..Limbs : Value(x, n) \in Nat /\ Value(x, n) < B^n}
<1>1. 0 \in S
  BY ValueUnfold, Powers, ExponentTypes
<1>2. ASSUME NEW n \in 0..(Limbs - 1), n \in S PROVE n + 1 \in S
  <2> DEFINE p == B^n  v == Value(x, n)  z == x[n]
  <2>1. n \in Nat /\ n + 1 \in 0..Limbs /\ n \in Index /\ Limbs \in Nat
    BY ExponentTypes DEF Index
  <2>2. Value(x, n + 1) = v + z * p /\ B^(n + 1) = p * B /\ p \in Nat /\ p >= 1
    BY <2>1, ValueUnfold, Powers
  <2>3. v \in Nat /\ v < p /\ z \in 0..(B - 1) /\ B \in Nat /\ B >= 2
    BY <1>2, <2>1, Base DEF LimbArrays
  <2> HIDE DEF p, v, z
  <2>4. z * p \in Nat /\ z * p <= (B - 1) * p /\ (B - 1) * p = p * B - p /\ p * B \in Nat
    <3>1. z <= B - 1 /\ B - 1 \in Nat /\ z \in Nat
      BY <2>3
    <3>2. z * p <= (B - 1) * p /\ z * p \in Nat
      BY <2>2, <3>1
    <3>3. (B - 1) * p = p * B - p /\ p * B \in Nat
      BY <2>2, <2>3
    <3> QED BY <3>2, <3>3
  <2> DEFINE zp == z * p  pb == p * B
  <2>5. zp \in Nat /\ zp <= pb - p /\ pb \in Nat
    BY <2>4
  <2> HIDE DEF zp, pb
  <2>6. v + zp \in Nat /\ v + zp < pb
    BY <2>2, <2>3, <2>5
  <2> QED BY <2>1, <2>2, <2>6 DEF zp, pb
<1>3. Limbs \in Nat
  BY ExponentTypes
<1> HIDE DEF S
<1>4. \A n \in 0..Limbs : n \in S
  BY <1>1, <1>2, <1>3, UpTo
<1> QED BY <1>4 DEF S

\* Only the limbs below n count.
LEMMA ValueAgrees ==
  ASSUME NEW x, NEW y, NEW n \in Nat, \A k \in 0..(n - 1) : x[k] = y[k]
  PROVE  Value(x, n) = Value(y, n)
<1> DEFINE S == {k \in 0..n : Value(x, k) = Value(y, k)}
<1>1. 0 \in S
  BY ValueUnfold
<1>2. ASSUME NEW k \in 0..(n - 1), k \in S PROVE k + 1 \in S
  BY <1>2, ValueUnfold
<1> HIDE DEF S
<1>3. \A k \in 0..n : k \in S
  BY <1>1, <1>2, UpTo
<1> QED BY <1>3 DEF S

\* Writing a limb changes the integers that it is part of by its change.
LEMMA ValueWritten ==
  ASSUME NEW x \in LimbArrays, NEW k \in Index, NEW z \in 0..(B - 1)
  PROVE  /\ [x EXCEPT ![k] = z] \in LimbArrays
         /\ \A n \in 0..k : Value([x EXCEPT ![k] = z], n) = Value(x, n)
         /\ \A n \in (k + 1)..Limbs :
              Value([x EXCEPT ![k] = z], n) = Value(x, n) + (z - x[k]) * B^k
<1> DEFINE y == [x EXCEPT ![k] = z]
<1>1. /\ y \in LimbArrays /\ y[k] = z /\ \A l \in Index : l # k => y[l] = x[l]
      /\ x[k] \in Int /\ y[k] \in Int
  BY DEF LimbArrays
<1>2. k \in Nat /\ k + 1 \in Nat /\ k \in 0..Limbs /\ k + 1 \in 0..Limbs /\ Limbs \in Nat
  BY ExponentTypes DEF Index
<1> HIDE DEF y
<1>3. ASSUME NEW n \in 0..k PROVE Value(y, n) = Value(x, n)
  <2>1. \A l \in 0..(n - 1) : y[l] = x[l]
    BY <1>1, <1>2 DEF Index
  <2> QED BY <1>2, <2>1, ValueAgrees
<1> DEFINE t == (z - x[k]) * B^k
           S == {r \in 0..(Limbs - (k + 1)) :
                   Value(y, (k + 1) + r) = Value(x, (k + 1) + r) + t}
<1>4. 0 \in S
  <2> DEFINE p == B^k  u == x[k]  v == Value(x, k)
  <2>1. Value(y, k) = v /\ Value(y, k + 1) = v + z * p /\ Value(x, k + 1) = v + u * p
    BY <1>1, <1>2, <1>3, ValueUnfold
  <2>2. p \in Int /\ u \in Int /\ v \in Int /\ z \in Int /\ t = (z - u) * p
    BY <1>1, <1>2, Powers, ValueType
  <2> HIDE DEF p, u, v, t
  <2>3. z * p \in Int /\ u * p \in Int /\ (z - u) * p = z * p - u * p
    BY <2>2
  <2> DEFINE zp == z * p  up == u * p
  <2>4. zp \in Int /\ up \in Int /\ t = zp - up /\ Value(y, k + 1) = v + zp /\ Value(x, k + 1) = v + up
    BY <2>1, <2>2, <2>3
  <2> HIDE DEF zp, up
  <2>5. Value(y, k + 1) = Value(x, k + 1) + t
    BY <2>2, <2>4
  <2>6. (k + 1) + 0 = k + 1 /\ 0 \in 0..(Limbs - (k + 1))
    BY <1>2
  <2> QED BY <2>5, <2>6
<1>5. ASSUME NEW r \in 0..((Limbs - (k + 1)) - 1), r \in S PROVE r + 1 \in S
  <2> DEFINE n == (k + 1) + r
  <2>1. n \in Nat /\ n \in Index /\ n # k /\ n \in 0..Limbs /\ (k + 1) + (r + 1) = n + 1
        /\ r + 1 \in 0..(Limbs - (k + 1))
    BY <1>2 DEF Index
  <2>2. Value(y, n) = Value(x, n) + t
    BY <1>5
  <2>3. Value(y, n + 1) = Value(y, n) + y[n] * B^n /\ Value(x, n + 1) = Value(x, n) + x[n] * B^n
        /\ y[n] = x[n]
    BY <1>1, <2>1, ValueUnfold
  <2> DEFINE q == x[n] * B^n  v == Value(x, n)
  <2>4. q \in Int /\ v \in Int /\ t \in Int
    BY <1>1, <1>2, <2>1, Powers, ValueType DEF LimbArrays
  <2> HIDE DEF n, q, v, t
  <2>5. Value(y, n + 1) = Value(x, n + 1) + t
    BY <2>2, <2>3, <2>4 DEF q, v
  <2> QED BY <2>1, <2>5
<1> HIDE DEF S
<1>6. \A r \in 0..(Limbs - (k + 1)) : r \in S
  <2>1. Limbs - (k + 1) \in Nat
    BY <1>2
  <2> QED BY <1>4, <1>5, <2>1, UpTo
<1>7. ASSUME NEW n \in (k + 1)..Limbs PROVE Value(y, n) = Value(x, n) + t
  <2>1. n - (k + 1) \in 0..(Limbs - (k + 1)) /\ (k + 1) + (n - (k + 1)) = n
    BY <1>2
  <2>2. n - (k + 1) \in S
    BY <1>6, <2>1
  <2> QED BY <2>1, <2>2 DEF S
<1> QED BY <1>1, <1>3, <1>7 DEF y

\* The limbs of an integer below the radix stand for it.
LEMMA LimbsOfInteger ==
  ASSUME NEW z \in 0..(R - 1)
  PROVE  ToLimbs(z) \in LimbArrays /\ Value(ToLimbs(z), Limbs) = z
<1>1. z \in Nat /\ Limbs \in Nat /\ R \in Nat /\ R > 0 /\ B \in Nat /\ B >= 2
  BY ScalarAssumption, ExponentTypes, Base, Powers
<1>2. \A k \in 0..Limbs : B^k \in Nat /\ B^k > 0
  BY Powers
<1>3. ASSUME NEW k \in Index PROVE (z \div B^k) % B \in 0..(B - 1)
  <2>1. k \in 0..Limbs
    BY <1>1 DEF Index
  <2>2. z \div B^k \in Int
    BY <1>1, <1>2, <2>1, Division
  <2> QED BY <1>1, <2>2, Division
<1>4. ToLimbs(z) \in LimbArrays
  BY <1>3 DEF ToLimbs, LimbArrays
<1> DEFINE x == ToLimbs(z)  S == {n \in 0..Limbs : Value(x, n) = z % B^n}
<1>5. \A k \in Index : x[k] = (z \div B^k) % B
  BY DEF ToLimbs
<1> HIDE DEF x
<1>6. 0 \in S
  <2>1. B^0 = 1 /\ z % 1 = 0
    BY <1>1, Powers
  <2> QED BY <1>1, <2>1, ValueUnfold
<1>7. ASSUME NEW n \in 0..(Limbs - 1), n \in S PROVE n + 1 \in S
  <2> DEFINE p == B^n  q == z \div p  r == z % p  q2 == q \div B  d0 == q % B
  <2>1. n \in Nat /\ n \in Index /\ n \in 0..Limbs /\ n + 1 \in 0..Limbs
    BY <1>1 DEF Index
  <2>2. Value(x, n + 1) = r + d0 * p /\ B^(n + 1) = p * B /\ p \in Nat /\ p > 0
    BY <1>2, <1>5, <1>7, <2>1, ValueUnfold, Powers
  <2>3. q \in Int /\ r \in 0..(p - 1) /\ z = p * q + r
    <3> HIDE DEF p
    <3> QED BY <1>1, <2>2, Division
  <2>4. q2 \in Int /\ d0 \in 0..(B - 1) /\ q = B * q2 + d0
    <3> HIDE DEF q
    <3> QED BY <1>1, <2>3, Division
  <2> HIDE DEF p, q, r, q2, d0
  <2>5. z = (p * B) * q2 + (r + d0 * p)
    <3>1. p * (B * q2 + d0) = (p * B) * q2 + d0 * p
      BY <1>1, <2>2, <2>4
    <3> DEFINE u == (p * B) * q2  v == d0 * p
    <3>2. u \in Int /\ v \in Int
      BY <1>1, <2>2, <2>4
    <3>3. z = (u + v) + r
      BY <2>3, <2>4, <3>1
    <3> HIDE DEF u, v
    <3>4. z = u + (r + v)
      BY <2>3, <3>2, <3>3
    <3> QED BY <3>4 DEF u, v
  <2>6. r + d0 * p \in 0..((p * B) - 1) /\ p * B \in Nat /\ p * B > 0
    <3>1. d0 * p \in Nat /\ d0 * p <= (B - 1) * p /\ (B - 1) * p = p * B - p /\ p * B \in Nat
      <4>1. d0 \in Nat /\ d0 <= B - 1 /\ B - 1 \in Nat
        BY <1>1, <2>4
      <4>2. d0 * p \in Nat /\ d0 * p <= (B - 1) * p
        BY <2>2, <4>1
      <4>3. (B - 1) * p = p * B - p /\ p * B \in Nat
        BY <1>1, <2>2
      <4> QED BY <4>2, <4>3
    <3> DEFINE v == d0 * p  pb == p * B
    <3>2. v \in Nat /\ v <= pb - p /\ pb \in Nat
      BY <3>1
    <3> HIDE DEF v, pb
    <3>3. r + v \in 0..(pb - 1) /\ pb > 0
      BY <2>2, <2>3, <3>2
    <3> QED BY <3>2, <3>3 DEF v, pb
  <2> DEFINE m0 == p * B  s == r + d0 * p
  <2>7. z = m0 * q2 + s /\ m0 \in Nat /\ m0 > 0 /\ s \in 0..(m0 - 1)
    BY <2>5, <2>6
  <2> HIDE DEF m0, s
  <2>8. z % m0 = s
    BY <1>1, <2>4, <2>7, DivisionUnique
  <2> QED BY <2>1, <2>2, <2>8 DEF m0, s
<1> HIDE DEF S
<1>8. \A n \in 0..Limbs : n \in S
  BY <1>1, <1>6, <1>7, UpTo
<1>9. Value(x, Limbs) = z % R
  <2>1. Limbs \in S /\ B^Limbs = R
    BY <1>1, <1>8, Powers
  <2> QED BY <2>1 DEF S
<1>10. z % R = z
  BY <1>1
<1> QED BY <1>4, <1>9, <1>10 DEF x

\* What the masks look at: the bits of the top limb above TopBits tell whether 2^252 is
\* reached, its top bit whether half of the radix is.
LEMMA TopLimb ==
  ASSUME NEW x \in LimbArrays
  PROVE  /\ x[Limbs - 1] \div 2^TopBits # 0 <=> Value(x, Limbs) >= Top
         /\ x[Limbs - 1] \div 2^(LimbBits - 1) # 0 <=> 2 * Value(x, Limbs) >= R
<1> DEFINE p == B^(Limbs - 1)  t == x[Limbs - 1]  v == Value(x, Limbs - 1)
<1>1. Limbs - 1 \in Nat /\ Limbs - 1 \in Index /\ Limbs - 1 \in 0..Limbs /\ (Limbs - 1) + 1 = Limbs
      /\ Limbs - 1 \in 0..(Limbs - 1)
  BY ExponentTypes DEF Index
<1>2. Value(x, Limbs) = v + t * p /\ p \in Nat /\ p >= 1 /\ v \in Nat /\ v < p /\ t \in Nat
  <2>1. Value(x, (Limbs - 1) + 1) = v + t * p
    BY <1>1, ValueUnfold
  <2>2. p \in Nat /\ p >= 1 /\ v \in Nat /\ v < p
    BY <1>1, Powers, ValueType
  <2>3. t \in Nat
    BY <1>1, Base DEF LimbArrays
  <2> HIDE DEF p, t, v
  <2> QED BY <1>1, <2>1, <2>2, <2>3
<1> HIDE DEF p, t, v
<1>3. ASSUME NEW c \in Nat, c >= 1 PROVE t \div c # 0 <=> v + t * p >= p * c
  <2>1. t = c * (t \div c) + (t % c) /\ t \div c \in Int /\ t % c \in 0..(c - 1)
    BY <1>2, <1>3, Division
  <2>2. t \div c # 0 <=> t >= c
    <3>1. CASE t >= c
      <4>1. t \div c # 0
        BY <2>1, <3>1
      <4> QED BY <3>1, <4>1
    <3>2. CASE ~(t >= c)
      <4>1. t = c * 0 + t /\ t \in 0..(c - 1)
        BY <1>2, <1>3, <3>2
      <4>2. t \div c = 0
        BY <1>2, <1>3, <4>1, DivisionUnique
      <4> QED BY <3>2, <4>2
    <3> QED BY <3>1, <3>2
  <2>3. ASSUME t >= c PROVE v + t * p >= p * c
    <3>1. t * p >= p * c /\ t * p \in Nat /\ p * c \in Nat
      BY <1>2, <2>3
    <3> QED BY <1>2, <3>1
  <2>4. ASSUME ~(t >= c) PROVE ~(v + t * p >= p * c)
    <3>1. t <= c - 1 /\ c - 1 \in Nat
      BY <1>2, <2>4
    <3>2. t * p <= (c - 1) * p /\ (c - 1) * p = p * c - p /\ t * p \in Nat /\ p * c \in Nat
      <4>1. t * p <= (c - 1) * p
        BY <1>2, <3>1
      <4>2. (c - 1) * p = p * c - p
        BY <1>2
      <4> QED BY <1>2, <4>1, <4>2
    <3> DEFINE tp == t * p  pc0 == p * c
    <3>3. tp <= pc0 - p /\ tp \in Nat /\ pc0 \in Nat
      BY <3>2
    <3> HIDE DEF tp, pc0
    <3>4. ~(v + tp >= pc0)
      BY <1>2, <3>3
    <3> QED BY <3>4 DEF tp, pc0
  <2> QED BY <2>2, <2>3, <2>4
<1>4. 2^TopBits \in Nat /\ 2^TopBits >= 1 /\ Top = p * 2^TopBits
  BY Powers DEF p
<1>5. 2^(LimbBits - 1) \in Nat /\ 2^(LimbBits - 1) >= 1 /\ R = 2 * (p * 2^(LimbBits - 1))
  <2> DEFINE h == 2^(LimbBits - 1)
  <2>1. h \in Nat /\ h >= 1 /\ B = 2 * h
    BY Base
  <2>2. R = p * B
    <3>1. B^((Limbs - 1) + 1) = B^(Limbs - 1) * B /\ B^Limbs = R
      BY <1>1, Powers
    <3> QED BY <1>1, <3>1 DEF p
  <2> HIDE DEF h
  <2>3. p * (2 * h) = 2 * (p * h)
    BY <1>2, <2>1
  <2> QED BY <2>1, <2>2, <2>3 DEF h
<1>6. t \div 2^TopBits # 0 <=> v + t * p >= Top
  BY <1>3, <1>4
<1>7. t \div 2^(LimbBits - 1) # 0 <=> 2 * (v + t * p) >= R
  <2> DEFINE h == 2^(LimbBits - 1)  ph == p * h  u == v + t * p
  <2>1. t \div h # 0 <=> u >= ph
    BY <1>3, <1>5
  <2>2. R = 2 * ph /\ ph \in Nat /\ u \in Nat
    BY <1>2, <1>5
  <2> HIDE DEF h, ph, u
  <2>3. t \div h # 0 <=> 2 * u >= R
    BY <2>1, <2>2
  <2> QED BY <2>3 DEF h, u
<1> QED BY <1>2, <1>6, <1>7 DEF t

-----------------------------------------------------------------------------
(* What one word holds. *)

\* A sum that does not reach the end of a word is stored as it is, and splits into a
\* limb and a carry.
LEMMA WordExact ==
  ASSUME NEW z \in Nat, z < 4 * (B * B)
  PROVE  /\ Word(z) = z /\ Low(Word(z)) \in 0..(B - 1) /\ Carry(Word(z)) \in Nat
         /\ z = B * Carry(Word(z)) + Low(Word(z))
<1> DEFINE W == 2^WordBits
<1>1. W \in Nat /\ z < W /\ W > 0 /\ B \in Nat /\ B >= 2
  <2>1. W \in Nat /\ W >= 4 * (B * B) /\ B \in Nat /\ B >= 2
    BY WordSize, Base
  <2> DEFINE x == 4 * (B * B)
  <2>2. x \in Nat /\ z < x /\ W >= x
    BY <2>1
  <2> HIDE DEF W, x
  <2> QED BY <2>1, <2>2
<1>2. Word(z) = z
  <2>1. Word(z) = z % W
    BY DEF Word
  <2> HIDE DEF W
  <2>2. z % W = z
    BY <1>1
  <2> QED BY <2>1, <2>2
<1>3. /\ z % B \in 0..(B - 1) /\ z \div B \in Int /\ z = B * (z \div B) + (z % B)
  BY <1>1, Division
<1>4. z \div B \in Nat
  BY <1>1
<1> QED BY <1>2, <1>3, <1>4 DEF Low, Carry

\* The carry of a sum below a multiple of the base is below the factor.
LEMMA CarryBelow ==
  ASSUME NEW q \in Nat, NEW r \in 0..(B - 1), NEW c \in Nat, B * q + r < B * c
  PROVE  q < c
<1>1. B \in Nat /\ B >= 2
  BY Base
<1>2. SUFFICES ASSUME c <= q PROVE FALSE
  OBVIOUS
<1>3. B * c <= B * q /\ B * c \in Nat /\ B * q \in Nat
  BY <1>1, <1>2
<1> QED BY <1>1, <1>3

\* scalar_add and the correction of scalar_sub: a limb and a carry of 0 or 1.
LEMMA AddWord ==
  ASSUME NEW z \in 0..(2 * B - 1)
  PROVE  /\ Low(Word(z)) \in 0..(B - 1) /\ Carry(Word(z)) \in {0, 1}
         /\ Low(Word(z)) + Carry(Word(z)) * B = z
<1> DEFINE lo == Low(Word(z))  c == Carry(Word(z))
<1>1. B \in Nat /\ B >= 2 /\ z \in Nat /\ B * 2 = 2 * B
  BY Base
<1>2. z < 4 * (B * B)
  <2>1. B * B >= 2 * B /\ B * B \in Nat
    BY <1>1
  <2> QED BY <1>1, <2>1
<1>3. lo \in 0..(B - 1) /\ c \in Nat /\ z = B * c + lo
  BY <1>1, <1>2, WordExact
<1> HIDE DEF lo, c
<1>4. c < 2
  BY <1>1, <1>3, CarryBelow
<1>5. c \in {0, 1} /\ B * c = c * B
  BY <1>1, <1>3, <1>4
<1> QED BY <1>1, <1>3, <1>5 DEF lo, c

\* Differences wrap below zero: the top bit of the word is the borrow.
LEMMA SubWord ==
  ASSUME NEW z \in (-B)..(B - 1)
  PROVE  /\ Low(Word(z)) \in 0..(B - 1) /\ Borrow(Word(z)) \in {0, 1}
         /\ Low(Word(z)) - Borrow(Word(z)) * B = z
<1> DEFINE W == 2^WordBits  H == 2^(WordBits - 1)
<1>1. B \in Nat /\ B >= 2 /\ z \in Int /\ -B <= z /\ z < B
  BY Base
<1>2. W \in Nat /\ H \in Nat /\ W = 2 * H /\ H >= 2 * B
  <2>1. W \in Nat /\ H \in Nat /\ W = 2 * H /\ W >= 4 * (B * B)
    BY WordSize
  <2> DEFINE x == B * B
  <2>2. x >= 2 * B /\ x \in Nat
    BY <1>1
  <2> HIDE DEF W, H, x
  <2>3. W >= 4 * x
    BY <2>1 DEF x
  <2> QED BY <1>1, <2>1, <2>2, <2>3
<1>3. PICK q \in Nat : W = q * B
  BY WordSize
<1>4. /\ \A x : Low(x) = x % B /\ Borrow(x) = x \div H /\ Word(x) = x % W
  BY DEF Low, Borrow, Word
<1> HIDE DEF W, H
<1>5. CASE z >= 0
  <2>1. z = W * 0 + z /\ z \in 0..(W - 1) /\ z = H * 0 + z /\ z \in 0..(H - 1)
        /\ z = B * 0 + z /\ z \in 0..(B - 1) /\ W > 0 /\ H > 0
    BY <1>1, <1>2, <1>5
  <2>2. z % W = z /\ z \div H = 0 /\ z % B = z
    BY <1>1, <1>2, <2>1, DivisionUnique
  <2> QED BY <1>1, <1>4, <2>1, <2>2
<1>6. CASE z < 0
  <2> DEFINE w == W + z
  <2>1. /\ z = W * (-1) + w /\ w \in 0..(W - 1) /\ W > 0 /\ H > 0 /\ w \in Int
        /\ w = H * 1 + (w - H) /\ w - H \in 0..(H - 1)
    BY <1>1, <1>2, <1>6
  <2>2. z % W = w
    <3> HIDE DEF w
    <3> QED BY <1>1, <1>2, <2>1, DivisionUnique
  <2>3. w \div H = 1
    <3> HIDE DEF w
    <3> QED BY <1>1, <1>2, <2>1, DivisionUnique
  <2>4. w = B * (q - 1) + (z + B) /\ z + B \in 0..(B - 1) /\ q - 1 \in Int
    <3>1. B * (q - 1) = q * B - B
      BY <1>1, <1>3
    <3> DEFINE qb == q * B
    <3>2. W = qb /\ qb \in Int /\ B * (q - 1) = qb - B
      BY <1>1, <1>3, <3>1
    <3> HIDE DEF qb
    <3>3. w = B * (q - 1) + (z + B)
      BY <1>1, <3>2
    <3> QED BY <1>1, <1>3, <1>6, <3>3
  <2>5. w % B = z + B
    <3> DEFINE k == q - 1  r == z + B
    <3>1. w = B * k + r /\ r \in 0..(B - 1) /\ k \in Int /\ w \in Int /\ B \in Nat /\ B > 0
      BY <1>1, <2>1, <2>4
    <3> HIDE DEF w, k, r
    <3>2. w % B = r
      BY <3>1, DivisionUnique
    <3> QED BY <3>2 DEF r
  <2>6. Word(z) = w /\ Low(w) = z + B /\ Borrow(w) = 1
    BY <1>4, <2>2, <2>3, <2>5
  <2> QED BY <1>1, <2>4, <2>6
<1> QED BY <1>1, <1>5, <1>6

\* The product of two limbs.
LEMMA LimbProduct ==
  ASSUME NEW x \in 0..(B - 1), NEW y \in 0..(B - 1)
  PROVE  x * y \in Nat /\ x * y <= B * B - 2 * B + 1 /\ B * B \in Nat /\ B * B >= 2 * B
<1> DEFINE c == B - 1
<1>1. B \in Nat /\ B >= 2 /\ c \in Nat /\ x \in Nat /\ y \in Nat /\ x <= c /\ y <= c
  BY Base
<1>2. c * c = B * B - 2 * B + 1 /\ B * B \in Nat /\ B * B >= 2 * B
  BY <1>1
<1> HIDE DEF c
<1>3. x * y <= c * y /\ c * y <= c * c /\ x * y \in Nat /\ c * y \in Nat /\ c * c \in Nat
  BY <1>1
<1> DEFINE xy == x * y  cy == c * y  k == c * c
<1>4. xy <= k
  <2>1. xy <= cy /\ cy <= k /\ xy \in Nat /\ cy \in Nat /\ k \in Nat
    BY <1>3
  <2> HIDE DEF xy, cy, k
  <2> QED BY <2>1
<1> QED BY <1>2, <1>3, <1>4

\* N0I is the opposite of the inverse of the low limb of the order.
LEMMA LowInverse == N0 \in 0..(B - 1) /\ N0I \in 0..(B - 1) /\ Congruent(N0 * N0I, -1, B)
<1>1. B \in Nat /\ B > 0 /\ N \in Nat /\ N > 10 /\ R \in Nat /\ NegInv \in Int /\ N \in Int
  BY Base, ScalarAssumption
<1>2. N0 = N % B
  <2>1. 0 \in Index
    BY ExponentTypes DEF Index
  <2>2. order[0] = (N \div B^0) % B
    BY <2>1 DEF order, ToLimbs
  <2>3. B^0 = 1 /\ N \div 1 = N
    BY <1>1, Powers
  <2> QED BY <2>2, <2>3 DEF N0
<1>3. N0I = NegInv % B
  BY DEF N0I, Low
<1>4. /\ N0 \in 0..(B - 1) /\ Congruent(N0, N, B)
      /\ N0I \in 0..(B - 1) /\ Congruent(N0I, NegInv, B)
  BY <1>1, <1>2, <1>3, ModCongruent
<1>5. Congruent(N0 * N0I, N * NegInv, B)
  <2>1. N0 \in Int /\ N0I \in Int /\ B \in Int
    BY <1>1, <1>4
  <2> QED BY <1>1, <1>4, <2>1, CongruentProduct
<1>6. Congruent(N * NegInv, -1, B)
  <2>1. (N * NegInv + 1) % R = 0 /\ R > 0 /\ N * NegInv + 1 \in Int
    BY <1>1, ScalarAssumption
  <2> DEFINE q == (N * NegInv + 1) \div R  p == B^(Limbs - 1)
  <2>2. N * NegInv + 1 = R * q /\ q \in Int
    BY <1>1, <2>1, Division
  <2>3. Limbs - 1 \in 0..(Limbs - 1) /\ Limbs - 1 \in 0..Limbs /\ (Limbs - 1) + 1 = Limbs
    BY ExponentTypes
  <2>4. R = p * B /\ p \in Int
    BY <2>3, Powers
  <2> HIDE DEF p, q
  <2>5. (p * B) * q = (p * q) * B /\ p * q \in Int
    BY <1>1, <2>2, <2>4
  <2> DEFINE nn == N * NegInv  k == p * q
  <2>6. nn + 1 = k * B /\ k \in Int /\ nn \in Int
    BY <1>1, <2>2, <2>4, <2>5
  <2> HIDE DEF nn, k
  <2>7. nn = -1 + k * B
    <3>1. k * B \in Int
      BY <1>1, <2>6
    <3> QED BY <2>6, <3>1
  <2> QED BY <2>6, <2>7 DEF nn, Congruent
<1>7. N0 * N0I \in Int /\ N * NegInv \in Int /\ -1 \in Int /\ B \in Int
  BY <1>1, <1>4
<1>8. Congruent(N0 * N0I, -1, B)
  BY <1>5, <1>6, <1>7, CongruentTrans
<1> QED BY <1>4, <1>8

\* The low limb of a word is that of the sum, even if the word wrapped.
LEMMA LowOfWord == ASSUME NEW z \in Int PROVE Congruent(Low(Word(z)), z, B) /\ Low(Word(z)) \in 0..(B - 1)
<1> DEFINE W == 2^WordBits  w == Word(z)
<1>1. W \in Nat /\ W > 0 /\ B \in Nat /\ B > 0
  <2>1. W \in Nat /\ W >= 4 * (B * B) /\ B \in Nat /\ B >= 2
    BY WordSize, Base
  <2> DEFINE s == B * B
  <2>2. s \in Nat /\ s >= 2
    BY <2>1
  <2>3. W >= 4 * s
    BY <2>1
  <2> HIDE DEF W, s
  <2> QED BY <2>1, <2>2, <2>3
<1>2. w \in 0..(W - 1) /\ Congruent(w, z, W)
  BY <1>1, ModCongruent DEF Word
<1> HIDE DEF w
<1>3. Congruent(w, z, B)
  <2>1. PICK q \in Nat : W = q * B
    BY WordSize
  <2>2. PICK k \in Int : w = z + k * W
    BY <1>2 DEF Congruent
  <2>3. k * (q * B) = (k * q) * B /\ k * q \in Int
    BY <1>1
  <2>4. w = z + (k * q) * B
    BY <2>1, <2>2, <2>3
  <2> QED BY <2>3, <2>4 DEF Congruent
<1>4. Low(w) \in 0..(B - 1) /\ Congruent(Low(w), w, B)
  <2>1. w \in Int
    BY <1>1, <1>2
  <2> QED BY <1>1, <2>1, ModCongruent DEF Low
<1>5. Congruent(Low(w), z, B)
  <2>1. w \in Int /\ Low(w) \in Int
    BY <1>1, <1>2, <1>4
  <2> QED BY <1>1, <1>3, <1>4, <2>1, CongruentTrans
<1> QED BY <1>4, <1>5 DEF w

\* "By construction, the low limb of the sum is zero": the multiple of the order that a
\* row adds makes it divisible by the base, and the carry is the quotient.
LEMMA RowWord ==
  ASSUME NEW d0 \in 0..(B - 1), NEW x \in 0..(B - 1), NEW y \in 0..(B - 1),
         NEW t, t = Word(d0 + x * y), NEW q, q = Low(Word(t * N0I))
  PROVE  /\ q \in 0..(B - 1) /\ Carry(Word(t + q * N0)) \in 0..(2 * B)
         /\ B * Carry(Word(t + q * N0)) = d0 + x * y + q * N0
<1> DEFINE s == B * B  p == x * y
<1>1. B \in Nat /\ B >= 2 /\ B > 0 /\ d0 \in Nat /\ d0 <= B - 1 /\ p \in Nat /\ s \in Nat
      /\ p <= s - 2 * B + 1 /\ s >= 2 * B
  <2>1. p \in Nat /\ p <= s - 2 * B + 1 /\ s \in Nat /\ s >= 2 * B
    BY LimbProduct
  <2> HIDE DEF p, s
  <2> QED BY <2>1, Base
<1>2. t = d0 + p /\ t \in Nat /\ t < s
  <2> DEFINE z == d0 + p
  <2>1. z \in Nat /\ z < 4 * s /\ z < s
    <3> HIDE DEF p, s
    <3> QED BY <1>1
  <2>2. Word(z) = z
    <3> HIDE DEF z
    <3> QED BY <2>1, WordExact
  <2> QED BY <2>1, <2>2
<1>3. N0 \in 0..(B - 1) /\ N0I \in 0..(B - 1) /\ Congruent(N0 * N0I, -1, B)
  BY LowInverse
<1>4. q \in 0..(B - 1) /\ Congruent(q, t * N0I, B) /\ t * N0I \in Int
  <2>1. t * N0I \in Int
    BY <1>2, <1>3
  <2> QED BY <2>1, LowOfWord
<1> DEFINE r == q * N0
<1>5. r \in Nat /\ r <= s - 2 * B + 1
  BY <1>3, <1>4, LimbProduct
<1>6. Congruent(t + r, 0, B)
  <2>1. Congruent(q * N0, (t * N0I) * N0, B)
    <3>1. q \in Int /\ N0 \in Int /\ B \in Int /\ Congruent(N0, N0, B)
      BY <1>1, <1>3, <1>4, CongruentRefl
    <3> QED BY <1>4, <3>1, CongruentProduct
  <2>2. PICK k \in Int : N0 * N0I = -1 + k * B
    BY <1>3 DEF Congruent
  <2>3. PICK l \in Int : q * N0 = (t * N0I) * N0 + l * B
    BY <2>1 DEF Congruent
  <2>4. (t * N0I) * N0 = t * (N0 * N0I)
    BY <1>2, <1>3
  <2>5. t * (-1 + k * B) = (t * k) * B - t
    BY <1>1, <1>2
  <2> DEFINE u == t * k
  <2>6. u \in Int /\ r = (u * B - t) + l * B
    BY <1>2, <2>2, <2>3, <2>4, <2>5
  <2> HIDE DEF u, r
  <2>7. t + r = 0 + (u + l) * B /\ u + l \in Int
    <3>1. (u + l) * B = u * B + l * B /\ u * B \in Int /\ l * B \in Int
      BY <1>1, <2>6
    <3> DEFINE ub == u * B  lb == l * B
    <3>2. (u + l) * B = ub + lb /\ ub \in Int /\ lb \in Int /\ r = (ub - t) + lb
      BY <2>6, <3>1
    <3> HIDE DEF ub, lb
    <3>3. t + r = (u + l) * B
      BY <1>2, <3>2
    <3>4. (u + l) * B \in Int
      BY <3>2
    <3> QED BY <2>6, <3>3, <3>4
  <2> QED BY <2>7 DEF Congruent
<1> HIDE DEF p, s
<1> DEFINE z == t + r
<1>7. z \in Nat /\ z < 4 * s /\ z < 2 * s + B
  BY <1>1, <1>2, <1>5
<1> DEFINE lo == Low(Word(z))  c == Carry(Word(z))
<1>8. lo \in 0..(B - 1) /\ c \in Nat /\ z = B * c + lo
  <2> HIDE DEF z
  <2> QED BY <1>7, WordExact DEF s
<1> HIDE DEF lo, c, z, r
<1>9. lo = 0
  <2>1. lo = z + (-c) * B /\ -c \in Int
    <3>1. B * c \in Int /\ (-c) * B = -(B * c)
      BY <1>1, <1>8
    <3> QED BY <1>1, <1>7, <1>8, <3>1
  <2>2. Congruent(lo, z, B) /\ Congruent(z, 0, B)
    BY <1>6, <2>1 DEF Congruent, z
  <2>3. lo \in Int /\ z \in Int /\ 0 \in Int /\ B \in Int /\ 0 \in 0..(B - 1)
    BY <1>1, <1>7, <1>8
  <2>4. Congruent(lo, 0, B)
    BY <2>2, <2>3, CongruentTrans
  <2> QED BY <1>1, <1>8, <2>3, <2>4, RemainderUnique
<1>10. c \in 0..(2 * B)
  <2>1. B * (2 * B + 1) = 2 * s + B
    BY <1>1 DEF s
  <2>2. B * c + lo < B * (2 * B + 1) /\ 2 * B + 1 \in Nat
    BY <1>1, <1>7, <1>8, <2>1
  <2>3. c < 2 * B + 1
    BY <1>8, <2>2, CarryBelow
  <2> QED BY <1>1, <1>8, <2>3
<1>11. B * c = d0 + p + r
  <2>1. B * c \in Int
    BY <1>1, <1>8
  <2> QED BY <1>1, <1>2, <1>5, <1>8, <1>9, <2>1 DEF z
<1> QED BY <1>4, <1>10, <1>11 DEF c, z, p, r

-----------------------------------------------------------------------------
(* What a pass over the limbs computes. *)

\* The order fits in the limbs, and so do the scalars.
LEMMA Sizes ==
  /\ N \in Nat /\ N > 10 /\ Top \in Nat /\ R \in Nat
  /\ 112 * N < 100 * Top /\ 100 * Top < 114 * N /\ 8 * Top <= R
  /\ order \in LimbArrays /\ Value(order, Limbs) = N
  /\ 0 \in Scalars /\ ToLimbs(0) \in LimbArrays
  /\ \A x \in Scalars :
       /\ x \in Nat /\ 100 * x < 127 * N
       /\ ToLimbs(x) \in LimbArrays /\ Value(ToLimbs(x), Limbs) = x
<1>1. /\ N \in Nat /\ N > 10 /\ Top \in Nat /\ R \in Nat
      /\ 112 * N < 100 * Top /\ 100 * Top < 114 * N /\ 8 * Top <= R
  BY ScalarAssumption
<1>2. N \in 0..(R - 1) /\ 0 \in Scalars
  BY <1>1 DEF Scalars
<1>3. \A x \in Scalars : x \in Nat /\ 100 * x < 127 * N /\ x \in 0..(R - 1)
  BY <1>1 DEF Scalars
<1>4. order \in LimbArrays /\ Value(order, Limbs) = N
  BY <1>2, LimbsOfInteger DEF order
<1>5. \A x \in Scalars : ToLimbs(x) \in LimbArrays /\ Value(ToLimbs(x), Limbs) = x
  BY <1>3, LimbsOfInteger
<1> QED BY <1>1, <1>2, <1>3, <1>4, <1>5

\* The limbs of s below n, with the carry c, are x + t * y.
PassOK(s, x, c, t, y, n) == Value(s, n) + c * B^n = Value(x, n) + t * Value(y, n)

LEMMA PassStarts == \A s, x, t, y : t \in Int => PassOK(s, x, 0, t, y, 0)
<1> SUFFICES ASSUME NEW s, NEW x, NEW t \in Int, NEW y PROVE PassOK(s, x, 0, t, y, 0)
  OBVIOUS
<1>1. Value(s, 0) = 0 /\ Value(x, 0) = 0 /\ Value(y, 0) = 0 /\ B^0 = 1
  BY ValueUnfold, Powers
<1> QED BY <1>1 DEF PassOK

LEMMA PassStep ==
  ASSUME NEW s \in LimbArrays, NEW x \in LimbArrays, NEW y \in LimbArrays, NEW n \in Index,
         NEW c \in Int, NEW c1 \in Int, NEW t \in Int, NEW lo \in 0..(B - 1),
         PassOK(s, x, c, t, y, n), lo + c1 * B = x[n] + t * y[n] + c
  PROVE  /\ [s EXCEPT ![n] = lo] \in LimbArrays
         /\ PassOK([s EXCEPT ![n] = lo], x, c1, t, y, n + 1)
<1> DEFINE s1 == [s EXCEPT ![n] = lo]  p == B^n
           u == Value(s, n)  v == Value(x, n)  w == Value(y, n)  xn == x[n]  yn == y[n]
<1>1. s1 \in LimbArrays /\ Value(s1, n) = u /\ s1[n] = lo
  <2>1. n \in 0..n
    BY ExponentTypes DEF Index
  <2>2. s1 \in LimbArrays /\ \A k \in 0..n : Value(s1, k) = Value(s, k)
    BY ValueWritten
  <2>3. s1[n] = lo
    BY DEF LimbArrays
  <2> QED BY <2>1, <2>2, <2>3
<1>2. n \in Nat /\ n \in 0..Limbs /\ n \in 0..(Limbs - 1) /\ B \in Nat
  BY ExponentTypes, Base DEF Index
<1>3. /\ Value(s1, n + 1) = u + lo * p /\ Value(x, n + 1) = v + xn * p
      /\ Value(y, n + 1) = w + yn * p /\ B^(n + 1) = p * B
  BY <1>1, <1>2, ValueUnfold, Powers
<1>4. /\ u \in Int /\ v \in Int /\ w \in Int /\ p \in Int /\ xn \in Int /\ yn \in Int /\ lo \in Int
      /\ B \in Int
  BY <1>2, ValueType, Powers DEF LimbArrays, Index
<1>5. u + c * p = v + t * w /\ lo + c1 * B = xn + t * yn + c
  BY DEF PassOK
<1> HIDE DEF s1, p, u, v, w, xn, yn
<1>6. (u + lo * p) + c1 * (p * B) = (v + xn * p) + t * (w + yn * p)
  <2>1. (lo + c1 * B) * p = (xn + t * yn + c) * p
    BY <1>5
  <2>2. (lo + c1 * B) * p = lo * p + c1 * (p * B)
    BY <1>4
  <2>3. (xn + t * yn + c) * p = xn * p + t * (yn * p) + c * p
    BY <1>4
  <2>4. t * (w + yn * p) = t * w + t * (yn * p)
    BY <1>4
  <2> DEFINE e1 == lo * p  e2 == c1 * (p * B)  e3 == xn * p  e4 == t * (yn * p)  e5 == c * p
             e6 == t * w  e7 == t * (w + yn * p)
  <2>5. /\ e1 \in Int /\ e2 \in Int /\ e3 \in Int /\ e4 \in Int /\ e5 \in Int /\ e6 \in Int
        /\ e1 + e2 = e3 + e4 + e5 /\ e7 = e6 + e4 /\ u + e5 = v + e6
    BY <1>4, <1>5, <2>1, <2>2, <2>3, <2>4
  <2> HIDE DEF e1, e2, e3, e4, e5, e6, e7
  <2>6. (u + e1) + e2 = (v + e3) + e7
    BY <1>4, <2>5
  <2> QED BY <2>6 DEF e1, e2, e3, e7
<1>7. PassOK(s1, x, c1, t, y, n + 1)
  BY <1>3, <1>6 DEF PassOK
<1> QED BY <1>1, <1>7 DEF s1

\* Half-way through a correction, the limbs done hold t times the order on top of v.
CorrectionOK(s, v, c, t, n) == Value(s, Limbs) + c * B^n = v + t * Value(order, n)

LEMMA CorrectionStarts ==
  ASSUME NEW s \in LimbArrays, NEW t \in Int PROVE CorrectionOK(s, Value(s, Limbs), 0, t, 0)
<1>1. Value(order, 0) = 0 /\ B^0 = 1
  BY ValueUnfold, Powers
<1>2. Value(s, Limbs) \in Int
  BY ValueType, ExponentTypes
<1> QED BY <1>1, <1>2 DEF CorrectionOK

LEMMA CorrectionStep ==
  ASSUME NEW s \in LimbArrays, NEW n \in Index, NEW v0 \in Int,
         NEW c \in Int, NEW c1 \in Int, NEW t \in Int, NEW lo \in 0..(B - 1),
         CorrectionOK(s, v0, c, t, n), lo + c1 * B = s[n] + t * order[n] + c
  PROVE  /\ [s EXCEPT ![n] = lo] \in LimbArrays
         /\ CorrectionOK([s EXCEPT ![n] = lo], v0, c1, t, n + 1)
<1> DEFINE s1 == [s EXCEPT ![n] = lo]  p == B^n
           u == Value(s, Limbs)  w == Value(order, n)  xn == s[n]  yn == order[n]
<1>1. order \in LimbArrays
  BY Sizes
<1>2. n \in Nat /\ n \in 0..Limbs /\ n \in 0..(Limbs - 1) /\ B \in Nat /\ Limbs \in (n + 1)..Limbs
      /\ Limbs \in 0..Limbs
  BY ExponentTypes, Base DEF Index
<1>3. s1 \in LimbArrays /\ Value(s1, Limbs) = u + (lo - xn) * p
  BY <1>2, ValueWritten
<1>4. Value(order, n + 1) = w + yn * p /\ B^(n + 1) = p * B
  BY <1>2, ValueUnfold, Powers
<1>5. /\ u \in Int /\ w \in Int /\ p \in Int /\ xn \in Int /\ yn \in Int /\ lo \in Int /\ B \in Int
  <2>1. u \in Int /\ w \in Int /\ p \in Int
    BY <1>1, <1>2, ValueType, Powers
  <2>2. xn \in 0..(B - 1) /\ yn \in 0..(B - 1)
    BY <1>1 DEF LimbArrays
  <2> QED BY <1>2, <2>1, <2>2
<1>6. u + c * p = v0 + t * w /\ lo + c1 * B = xn + t * yn + c
  BY DEF CorrectionOK
<1> HIDE DEF s1, p, u, w, xn, yn
<1>7. (u + (lo - xn) * p) + c1 * (p * B) = v0 + t * (w + yn * p)
  <2>1. (lo - xn) + c1 * B = t * yn + c
    <3> DEFINE e1 == c1 * B  e2 == t * yn
    <3>1. e1 \in Int /\ e2 \in Int /\ lo + e1 = xn + e2 + c
      BY <1>5, <1>6
    <3> HIDE DEF e1, e2
    <3>2. (lo - xn) + e1 = e2 + c
      BY <1>5, <3>1
    <3> QED BY <3>2 DEF e1, e2
  <2>2. ((lo - xn) + c1 * B) * p = (lo - xn) * p + c1 * (p * B)
    BY <1>5
  <2>3. (t * yn + c) * p = t * (yn * p) + c * p
    BY <1>5
  <2>4. t * (w + yn * p) = t * w + t * (yn * p)
    BY <1>5
  <2> DEFINE e1 == (lo - xn) * p  e2 == c1 * (p * B)  e4 == t * (yn * p)  e5 == c * p
             e6 == t * w  e7 == t * (w + yn * p)
  <2>5. /\ e1 \in Int /\ e2 \in Int /\ e4 \in Int /\ e5 \in Int /\ e6 \in Int
        /\ e1 + e2 = e4 + e5 /\ e7 = e6 + e4 /\ u + e5 = v0 + e6
    BY <1>5, <1>6, <2>1, <2>2, <2>3, <2>4
  <2> HIDE DEF e1, e2, e4, e5, e6, e7
  <2>6. (u + e1) + e2 = v0 + e7
    BY <1>5, <2>5
  <2> QED BY <2>6 DEF e1, e2, e7
<1>8. CorrectionOK(s1, v0, c1, t, n + 1)
  BY <1>3, <1>4, <1>7 DEF CorrectionOK
<1> QED BY <1>3, <1>8 DEF s1

-----------------------------------------------------------------------------
(* What the conditional corrections see. *)

\* A difference below zero is kept in the limbs modulo the radix.
Residue(z) == IF z < 0 THEN z + R ELSE z

LEMMA ResidueUnique ==
  ASSUME NEW v0 \in 0..(R - 1), NEW z \in (-R)..(R - 1), NEW k \in Int, v0 = z + k * R
  PROVE  v0 = Residue(z)
<1>1. R \in Nat /\ v0 \in Int /\ 0 <= v0 /\ v0 < R /\ z \in Int /\ -R <= z /\ z < R
  BY Sizes
<1>2. ~(k >= 2)
  <2>1. ASSUME k >= 2 PROVE k * R >= 2 * R /\ k * R \in Int
    BY <1>1, <2>1
  <2> QED BY <1>1, <2>1
<1>3. ~(k <= -1)
  <2>1. ASSUME k <= -1 PROVE k * R <= -R /\ k * R \in Int
    BY <1>1, <2>1
  <2> QED BY <1>1, <2>1
<1>4. k = 0 \/ k = 1
  BY <1>2, <1>3
<1>5. 0 * R = 0 /\ 1 * R = R
  BY <1>1
<1> QED BY <1>1, <1>4, <1>5 DEF Residue

\* A full pass: nothing is lost but the carry.
LEMMA PassEnds ==
  ASSUME NEW s \in LimbArrays, NEW x \in LimbArrays, NEW y \in LimbArrays, NEW c \in {-1, 0, 1},
         NEW t \in Int, PassOK(s, x, c, t, y, Limbs)
  PROVE  /\ Value(s, Limbs) \in 0..(R - 1)
         /\ Value(s, Limbs) = (Value(x, Limbs) + t * Value(y, Limbs)) + (-c) * R
<1>1. B^Limbs = R /\ R \in Nat /\ Limbs \in 0..Limbs
  BY Powers, Sizes, ExponentTypes
<1> DEFINE u == Value(s, Limbs)  e == Value(x, Limbs) + t * Value(y, Limbs)
<1>2. u \in Nat /\ u < R /\ Value(x, Limbs) \in Int /\ Value(y, Limbs) \in Int
  BY <1>1, ValueType
<1>3. e \in Int
  BY <1>2
<1>4. u + c * R = e
  BY <1>1 DEF PassOK
<1> HIDE DEF u, e
<1>5. u = e + (-c) * R
  BY <1>1, <1>2, <1>3, <1>4
<1> QED BY <1>1, <1>2, <1>5 DEF u, e

LEMMA CorrectionEnds ==
  ASSUME NEW s \in LimbArrays, NEW v0 \in Int, NEW c \in {-1, 0, 1},
         NEW t \in {-1, 0, 1}, CorrectionOK(s, v0, c, t, Limbs)
  PROVE  /\ Value(s, Limbs) \in 0..(R - 1)
         /\ Value(s, Limbs) = (v0 + t * N) + (-c) * R
<1>1. B^Limbs = R /\ R \in Nat /\ Limbs \in 0..Limbs /\ Value(order, Limbs) = N /\ N \in Nat
  BY Powers, Sizes, ExponentTypes
<1> DEFINE u == Value(s, Limbs)
<1>2. u \in Nat /\ u < R
  BY <1>1, ValueType
<1>4. u + c * R = v0 + t * N
  BY <1>1 DEF CorrectionOK
<1> HIDE DEF u
<1>5. u = (v0 + t * N) + (-c) * R
  BY <1>1, <1>2, <1>4
<1> QED BY <1>1, <1>2, <1>5 DEF u

\* The sum or difference after n conditional corrections.
First(o, x, y) == IF o = "add" THEN x + y ELSE x - y
Corrected(o, z) == IF o = "add" THEN CondSub(z) ELSE CondAdd(z)
Stage(o, x, y, n) ==
    IF n = 0 THEN First(o, x, y)
    ELSE IF n = 1 THEN Corrected(o, First(o, x, y))
    ELSE Corrected(o, Corrected(o, First(o, x, y)))

\* What the masks see, and what they then do: one of these holds of z = Stage(..).
Mended(o, z, t) == t = IF o = "add" THEN (IF z >= Top THEN -1 ELSE 0) ELSE (IF z < 0 THEN 1 ELSE 0)

LEMMA Stages ==
  ASSUME NEW o \in {"add", "sub"}, NEW x \in Scalars, NEW y \in Scalars, NEW n \in {0, 1, 2}
  PROVE  /\ Stage(o, x, y, n) \in Int
         /\ -R <= 2 * Stage(o, x, y, n) /\ 2 * Stage(o, x, y, n) < R
         /\ o = "add" \/ n = 2 => Stage(o, x, y, n) >= 0
         /\ n < 2 => Stage(o, x, y, n + 1) = Corrected(o, Stage(o, x, y, n))
         /\ n = 2 => Stage(o, x, y, n) = IF o = "add" THEN ScalarAdd(x, y) ELSE ScalarSub(x, y)
<1>1. /\ N \in Nat /\ N > 10 /\ Top \in Nat /\ R \in Nat
      /\ 112 * N < 100 * Top /\ 100 * Top < 114 * N /\ 8 * Top <= R
      /\ x \in Nat /\ 100 * x < 127 * N /\ y \in Nat /\ 100 * y < 127 * N
  BY Sizes
<1>2. CASE o = "add"
  <2>1. \A z : Corrected(o, z) = IF z >= Top THEN z - N ELSE z
    BY <1>2 DEF Corrected, CondSub
  <2>2. First(o, x, y) = x + y /\ ScalarAdd(x, y) = Corrected(o, Corrected(o, x + y))
    BY <1>2 DEF First, ScalarAdd, Corrected
  <2>3. CASE n = 0
    BY <1>1, <1>2, <2>1, <2>2, <2>3 DEF Stage
  <2>4. CASE n = 1
    BY <1>1, <1>2, <2>1, <2>2, <2>4 DEF Stage
  <2>5. CASE n = 2
    BY <1>1, <1>2, <2>1, <2>2, <2>5 DEF Stage
  <2> QED BY <2>3, <2>4, <2>5
<1>3. CASE o = "sub"
  <2>1. \A z : Corrected(o, z) = IF z < 0 THEN z + N ELSE z
    BY <1>3 DEF Corrected, CondAdd
  <2>2. First(o, x, y) = x - y /\ ScalarSub(x, y) = Corrected(o, Corrected(o, x - y)) /\ o # "add"
    BY <1>3 DEF First, ScalarSub, Corrected
  <2>3. CASE n = 0
    BY <1>1, <1>3, <2>1, <2>2, <2>3 DEF Stage
  <2>4. CASE n = 1
    BY <1>1, <1>3, <2>1, <2>2, <2>4 DEF Stage
  <2>5. CASE n = 2
    BY <1>1, <1>3, <2>1, <2>2, <2>5 DEF Stage
  <2> QED BY <2>3, <2>4, <2>5
<1> QED BY <1>2, <1>3

\* The first pass leaves the sum, without carry, or the difference modulo the radix.
LEMMA FirstPassEnds ==
  ASSUME NEW o \in {"add", "sub"}, NEW s \in LimbArrays, NEW x \in LimbArrays,
         NEW y \in LimbArrays, NEW c \in {0, 1}, NEW sg \in {-1, 1}, sg = IF o = "add" THEN 1 ELSE -1,
         Value(x, Limbs) \in Scalars, Value(y, Limbs) \in Scalars,
         PassOK(s, x, sg * c, sg, y, Limbs)
  PROVE  /\ Value(s, Limbs) = Residue(Stage(o, Value(x, Limbs), Value(y, Limbs), 0))
         /\ o = "add" => c = 0
<1> DEFINE u == Value(s, Limbs)  X == Value(x, Limbs)  Y == Value(y, Limbs)
           z == Stage(o, X, Y, 0)
<1>1. z \in Int /\ -R <= 2 * z /\ 2 * z < R /\ (o = "add" => z >= 0) /\ R \in Nat
  <2>1. 0 \in {0, 1, 2} /\ R \in Nat
    BY Sizes
  <2> HIDE DEF z
  <2>2. z \in Int /\ -R <= 2 * z /\ 2 * z < R /\ (o = "add" => z >= 0)
    <3> HIDE DEF X, Y
    <3> USE DEF z
    <3> QED BY <2>1, Stages DEF X, Y
  <2> QED BY <2>1, <2>2
<1>2. X \in Int /\ Y \in Int
  BY Sizes
<1>3. z = X + sg * Y
  <2>1. z = IF o = "add" THEN X + Y ELSE X - Y
    BY DEF Stage, First
  <2> HIDE DEF z, X, Y
  <2>2. 1 * Y = Y /\ (-1) * Y = -Y /\ X + -Y = X - Y
    BY <1>2
  <2> QED BY <2>1, <2>2
<1>4. sg * c \in {-1, 0, 1} /\ sg \in Int
  OBVIOUS
<1> DEFINE k == sg * c
<1>5. u \in 0..(R - 1) /\ u = (X + sg * Y) + (-k) * R
  <2> HIDE DEF k
  <2> QED BY <1>4, PassEnds DEF k
<1> HIDE DEF u, z, X, Y
<1>6. u = Residue(z)
  <2>1. z \in (-R)..(R - 1) /\ -k \in Int
    BY <1>1
  <2> HIDE DEF k
  <2> QED BY <1>3, <1>5, <2>1, ResidueUnique
<1>7. ASSUME o = "add" PROVE c = 0
  <2>1. u = z /\ k = c
    BY <1>1, <1>6, <1>7 DEF Residue
  <2>2. z = z + (-c) * R
    BY <1>3, <1>5, <2>1
  <2>3. R > 0
    BY <1>1, <1>5
  <2> QED BY <1>1, <2>2, <2>3
<1> QED BY <1>6, <1>7 DEF u, z, X, Y

\* The masks tell whether the limbs must be corrected.
LEMMA MaskSees ==
  ASSUME NEW s \in LimbArrays, NEW z \in Int, -R <= 2 * z, 2 * z < R,
         Value(s, Limbs) = Residue(z)
  PROVE  /\ s[Limbs - 1] \div 2^(LimbBits - 1) # 0 <=> z < 0
         /\ z >= 0 => (s[Limbs - 1] \div 2^TopBits # 0 <=> z >= Top)
<1>1. R \in Nat /\ Top \in Nat
  BY Sizes
<1>2. 2 * Residue(z) >= R <=> z < 0
  BY <1>1 DEF Residue
<1>3. z >= 0 => Residue(z) = z
  BY <1>1 DEF Residue
<1> QED BY <1>2, <1>3, TopLimb

\* A correction takes the limbs to the next stage.
LEMMA NextStage ==
  ASSUME NEW o \in {"add", "sub"}, NEW x \in Scalars, NEW y \in Scalars, NEW n \in {0, 1},
         NEW s \in LimbArrays, NEW c \in {-1, 0, 1}, NEW t \in {-1, 0, 1},
         Mended(o, Stage(o, x, y, n), t),
         CorrectionOK(s, Residue(Stage(o, x, y, n)), c, t, Limbs)
  PROVE  Value(s, Limbs) = Residue(Stage(o, x, y, n + 1))
<1> DEFINE z == Stage(o, x, y, n)  z1 == Stage(o, x, y, n + 1)  u == Value(s, Limbs)
           v0 == Residue(z)
<1>1. z \in Int /\ -R <= 2 * z /\ 2 * z < R /\ z1 = Corrected(o, z)
  <2>1. n \in {0, 1, 2} /\ n < 2
    OBVIOUS
  <2> QED BY <2>1, Stages
<1>2. z1 \in Int /\ -R <= 2 * z1 /\ 2 * z1 < R
  <2>1. n + 1 \in {0, 1, 2}
    OBVIOUS
  <2> QED BY <2>1, Stages
<1>3. R \in Nat /\ N \in Nat
  BY Sizes
<1> HIDE DEF z, z1
<1>4. v0 \in Int /\ \E k \in {0, 1} : v0 = z + k * R
  BY <1>1, <1>3 DEF Residue
<1>5. u \in 0..(R - 1) /\ u = (v0 + t * N) + (-c) * R
  <2> HIDE DEF v0
  <2> QED BY <1>4, CorrectionEnds DEF z, v0
<1>6. z1 = z + t * N
  <2>1. t = IF o = "add" THEN (IF z >= Top THEN -1 ELSE 0) ELSE (IF z < 0 THEN 1 ELSE 0)
    BY DEF Mended, z
  <2>2. 0 * N = 0 /\ 1 * N = N /\ (-1) * N = -N
    BY <1>3
  <2>3. z1 = IF o = "add" THEN (IF z >= Top THEN z - N ELSE z) ELSE (IF z < 0 THEN z + N ELSE z)
    BY <1>1 DEF Corrected, CondSub, CondAdd
  <2> QED BY <1>1, <1>3, <2>1, <2>2, <2>3
<1> HIDE DEF v0, u
<1>7. PICK k \in {0, 1} : v0 = z + k * R
  BY <1>4
<1>8. u = z1 + (k + (-c)) * R /\ k + (-c) \in Int
  <2> DEFINE tn == t * N
  <2>1. tn \in Int
    BY <1>3
  <2>2. u = ((z + k * R) + tn) + (-c) * R /\ z1 = z + tn
    BY <1>5, <1>6, <1>7
  <2> HIDE DEF tn
  <2> QED BY <1>1, <1>3, <2>1, <2>2
<1>9. z1 \in (-R)..(R - 1)
  BY <1>2, <1>3
<1>10. u = Residue(z1)
  BY <1>5, <1>8, <1>9, ResidueUnique
<1> QED BY <1>10 DEF u, z1

\* scalar_normalize: the borrow tells whether the source was below the order.
LEMMA ReduceEnds ==
  ASSUME NEW s \in LimbArrays, NEW x \in LimbArrays, NEW c \in {0, 1}, Value(x, Limbs) \in Scalars,
         PassOK(s, x, -c, -1, order, Limbs)
  PROVE  /\ c = 1 <=> Value(x, Limbs) < N
         /\ c = 0 => Value(s, Limbs) = Value(x, Limbs) - N
<1> DEFINE u == Value(s, Limbs)  X == Value(x, Limbs)  k == -c
<1>1. /\ N \in Nat /\ R \in Nat /\ X \in Nat /\ X < R /\ Value(order, Limbs) = N
      /\ order \in LimbArrays
  BY Sizes
<1>2. u \in 0..(R - 1) /\ u = (X + (-1) * N) + (-k) * R
  <2>1. k \in {-1, 0, 1} /\ -1 \in Int
    OBVIOUS
  <2> HIDE DEF k
  <2> QED BY <1>1, <2>1, PassEnds DEF k
<1> HIDE DEF u, X
<1>3. u = (X - N) + c * R
  BY <1>1, <1>2
<1> QED BY <1>1, <1>2, <1>3 DEF u, X

-----------------------------------------------------------------------------
(* Montgomery multiplication, row by row. *)

\* After n rows, acc is the product with the limbs of x below n and a multiple of the
\* order, shifted by n limbs.
RowOK(acc, x, y, n) ==
    \E Q \in 0..(B^n - 1) : acc * B^n = Value(x, n) * Value(y, Limbs) + Q * N

\* Before limb n of a row, the limbs s hold n - 1 new limbs, one that is stale and the old
\* ones from n on: together with the carry c, what the row had at its start, which is
\* RowBefore, and the parts of the two products below n.
RowBefore(s, c, x, y, q, n) ==
    B * Value(s, n - 1) + c * B^n + (Value(s, Limbs) - Value(s, n))
      - x * Value(y, n) - q * Value(order, n)

\* What is accumulated stays below the sum of the second operand and the order.
LEMMA RowSmall ==
  ASSUME NEW acc \in Int, NEW x \in LimbArrays, NEW y \in LimbArrays, NEW n \in 0..Limbs,
         RowOK(acc, x, y, n)
  PROVE  acc >= 0 /\ acc < Value(y, Limbs) + N
<1> DEFINE p == B^n  Y == Value(y, Limbs)  v == Value(x, n)
<1>1. p \in Nat /\ p >= 1 /\ Y \in Nat /\ v \in Nat /\ v <= p - 1 /\ N \in Nat /\ N > 0
  <2>1. p \in Nat /\ p >= 1
    BY Powers
  <2>2. Limbs \in 0..Limbs /\ Y \in Nat
    BY ExponentTypes, ValueType
  <2>3. v \in Nat /\ v < p
    BY ValueType
  <2> HIDE DEF p, Y, v
  <2> QED BY <2>1, <2>2, <2>3, Sizes
<1>2. PICK Q \in 0..(p - 1) : acc * p = v * Y + Q * N
  BY DEF RowOK
<1> HIDE DEF p, Y, v
<1>3. /\ v * Y <= (p - 1) * Y /\ Q * N <= (p - 1) * N /\ v * Y \in Nat /\ Q * N \in Nat
      /\ (p - 1) * Y = p * Y - Y /\ (p - 1) * N = p * N - N /\ p * Y \in Nat /\ p * N \in Nat
  <2>1. v * Y <= (p - 1) * Y /\ v * Y \in Nat
    BY <1>1
  <2>2. Q \in Nat /\ Q <= p - 1
    BY <1>1
  <2>3. Q * N <= (p - 1) * N /\ Q * N \in Nat
    BY <1>1, <2>2
  <2>4. (p - 1) * Y = p * Y - Y /\ (p - 1) * N = p * N - N /\ p * Y \in Nat /\ p * N \in Nat
    BY <1>1
  <2> QED BY <2>1, <2>3, <2>4
<1>4. acc >= 0
  <2>1. acc * p >= 0
    BY <1>2, <1>3
  <2>2. ASSUME acc <= -1 PROVE FALSE
    <3>1. acc * p <= (-1) * p
      BY <1>1, <2>2
    <3> QED BY <1>1, <2>1, <3>1
  <2> QED BY <2>2
<1>5. acc < Y + N
  <2>1. SUFFICES ASSUME acc >= Y + N PROVE FALSE
    BY <1>1
  <2>2. acc * p >= (Y + N) * p /\ (Y + N) * p = p * Y + p * N
    BY <1>1, <2>1
  <2> DEFINE ap == acc * p  e1 == v * Y  e2 == Q * N  pY == p * Y  pN == p * N
  <2>3. /\ ap >= pY + pN /\ ap = e1 + e2 /\ e1 <= pY - Y /\ e2 <= pN - N
        /\ pY \in Nat /\ pN \in Nat /\ e1 \in Nat /\ e2 \in Nat
    BY <1>2, <1>3, <2>2
  <2> HIDE DEF ap, e1, e2, pY, pN
  <2> QED BY <1>1, <2>3
<1> QED BY <1>4, <1>5 DEF Y

LEMMA RowStarts ==
  ASSUME NEW s \in LimbArrays, NEW y \in LimbArrays, NEW x \in 0..(B - 1), NEW q \in 0..(B - 1),
         NEW c \in Int, B * c = s[0] + x * y[0] + q * N0
  PROVE  RowBefore(s, c, x, y, q, 1) = Value(s, Limbs)
<1>1. /\ 0 \in Index /\ 0 \in 0..(Limbs - 1) /\ B^(0 + 1) = B^0 * B /\ B^0 = 1 /\ 0 + 1 = 1
      /\ B \in Nat /\ 1 - 1 = 0 /\ Limbs \in 0..Limbs /\ 0 \in Nat
  BY ExponentTypes, Powers, Base DEF Index
<1>2. \A z : Value(z, 1) = Value(z, 0) + z[0] * B^0 /\ Value(z, 0) = 0
  BY <1>1, ValueUnfold
<1> DEFINE s0 == s[0]  y0 == y[0]  u == Value(s, Limbs)
<1>3. s0 \in Int /\ y0 \in Int /\ N0 \in Int /\ u \in Int /\ x \in Int /\ q \in Int
  <2>1. s0 \in 0..(B - 1) /\ y0 \in 0..(B - 1)
    BY <1>1 DEF LimbArrays
  <2>2. u \in Int
    BY <1>1, ValueType
  <2>3. N0 \in 0..(B - 1)
    BY LowInverse
  <2> HIDE DEF s0, y0, u
  <2> QED BY <1>1, <2>1, <2>2, <2>3
<1>4. Value(s, 1) = s0 /\ Value(y, 1) = y0 /\ Value(order, 1) = N0
  BY <1>1, <1>2, <1>3 DEF N0
<1>5. RowBefore(s, c, x, y, q, 1) = B * 0 + c * B + (u - s0) - x * y0 - q * N0
  <2>1. B^1 = B
    BY <1>1
  <2>2. Value(s, 1 - 1) = 0
    BY <1>1, <1>2
  <2> QED BY <1>4, <2>1, <2>2 DEF RowBefore
<1> HIDE DEF s0, y0, u
<1> DEFINE xy == x * y0  r == q * N0  bc == B * c
<1>6. xy \in Int /\ r \in Int /\ bc \in Int /\ B * 0 = 0 /\ c * B = bc /\ bc = s0 + xy + r
  BY <1>1, <1>3 DEF s0, y0
<1>7. RowBefore(s, c, x, y, q, 1) = 0 + bc + (u - s0) - xy - r
  BY <1>5, <1>6
<1> HIDE DEF xy, r, bc
<1>8. RowBefore(s, c, x, y, q, 1) = u
  BY <1>3, <1>6, <1>7
<1> QED BY <1>8 DEF u

\* What the inner loop puts into one word.
InnerSum(s, c, x, y, q, n) == s[n] + x * y[n] + q * order[n] + c

\* "If cc <= 2^16, then cc will be at most 2^16 on output": the word of the inner loop
\* does not wrap, and its carry is bounded like the one it took.
LEMMA InnerWord ==
  ASSUME NEW s \in LimbArrays, NEW y \in LimbArrays, NEW n \in Index,
         NEW x \in 0..(B - 1), NEW q \in 0..(B - 1), NEW c \in 0..(2 * B)
  PROVE  /\ Low(Word(InnerSum(s, c, x, y, q, n))) \in 0..(B - 1)
         /\ Carry(Word(InnerSum(s, c, x, y, q, n))) \in 0..(2 * B)
         /\ Low(Word(InnerSum(s, c, x, y, q, n))) + Carry(Word(InnerSum(s, c, x, y, q, n))) * B
              = InnerSum(s, c, x, y, q, n)
<1> DEFINE d1 == s[n]  yn == y[n]  on == order[n]
<1>1. d1 \in 0..(B - 1) /\ yn \in 0..(B - 1) /\ on \in 0..(B - 1)
  BY Sizes DEF LimbArrays
<1> HIDE DEF d1, yn, on
<1> DEFINE bb == B * B  p == x * yn  r == q * on  z == d1 + p + r + c
<1>2. InnerSum(s, c, x, y, q, n) = z
  BY DEF InnerSum, d1, yn, on
<1>3. /\ B \in Nat /\ B >= 2 /\ d1 \in Nat /\ d1 <= B - 1 /\ c \in Nat /\ c <= 2 * B
      /\ p \in Nat /\ r \in Nat /\ bb \in Nat
      /\ p <= bb - 2 * B + 1 /\ r <= bb - 2 * B + 1 /\ bb >= 2 * B
  <2>1. p \in Nat /\ p <= bb - 2 * B + 1 /\ bb \in Nat /\ bb >= 2 * B
    BY <1>1, LimbProduct
  <2>2. r \in Nat /\ r <= bb - 2 * B + 1
    BY <1>1, LimbProduct
  <2>3. B \in Nat /\ B >= 2
    BY Base
  <2> HIDE DEF p, r, bb
  <2> QED BY <1>1, <2>1, <2>2, <2>3
<1>4. z \in Nat /\ z < 4 * bb /\ z < 2 * bb + B
  <2> HIDE DEF p, r, bb
  <2> QED BY <1>3
<1> DEFINE lo == Low(Word(z))  k == Carry(Word(z))
<1>5. lo \in 0..(B - 1) /\ k \in Nat /\ z = B * k + lo
  <2> HIDE DEF z
  <2> QED BY <1>4, WordExact
<1>6. B * (2 * B + 1) = 2 * bb + B /\ B * k = k * B /\ k * B \in Int
  <2>1. B * (2 * B + 1) = 2 * (B * B) + B
    BY <1>3
  <2> HIDE DEF lo, k, z
  <2>2. B * k = k * B /\ k * B \in Int
    BY <1>3, <1>5
  <2> QED BY <2>1, <2>2
<1> HIDE DEF lo, k, z, bb
<1>7. k < 2 * B + 1
  <2>1. B * k + lo < B * (2 * B + 1) /\ 2 * B + 1 \in Nat
    BY <1>3, <1>4, <1>5, <1>6
  <2> QED BY <1>5, <2>1, CarryBelow
<1>8. k \in 0..(2 * B) /\ lo + k * B = z
  BY <1>3, <1>5, <1>6, <1>7
<1> QED BY <1>2, <1>5, <1>8 DEF lo, k

LEMMA InnerStep ==
  ASSUME NEW s \in LimbArrays, NEW y \in LimbArrays, NEW n \in Index, n >= 1,
         NEW x \in 0..(B - 1), NEW q \in 0..(B - 1), NEW c \in Int, NEW c1 \in Int,
         NEW lo \in 0..(B - 1), lo + c1 * B = InnerSum(s, c, x, y, q, n)
  PROVE  /\ [s EXCEPT ![n - 1] = lo] \in LimbArrays
         /\ RowBefore([s EXCEPT ![n - 1] = lo], c1, x, y, q, n + 1) = RowBefore(s, c, x, y, q, n)
<1> DEFINE s1 == [s EXCEPT ![n - 1] = lo]  p == B^n  p0 == B^(n - 1)
           u == Value(s, n - 1)  v == Value(s, n)  w == Value(s, Limbs)
           vy == Value(y, n)  vo == Value(order, n)
           sn == s[n]  yn == y[n]  on == order[n]  sp == s[n - 1]
<1>1. /\ n \in Nat /\ n - 1 \in Nat /\ n - 1 \in Index /\ n - 1 \in 0..Limbs /\ n \in 0..Limbs
      /\ n \in 0..(Limbs - 1) /\ n - 1 \in 0..(Limbs - 1) /\ (n - 1) + 1 = n /\ n + 1 \in 0..Limbs
      /\ n - 1 \in 0..(n - 1) /\ n + 1 \in ((n - 1) + 1)..Limbs /\ n \in ((n - 1) + 1)..Limbs
      /\ Limbs \in ((n - 1) + 1)..Limbs /\ Limbs \in 0..Limbs /\ (n + 1) - 1 = n
  BY ExponentTypes DEF Index
<1>2. /\ s1 \in LimbArrays
      /\ \A k \in 0..(n - 1) : Value(s1, k) = Value(s, k)
      /\ \A k \in ((n - 1) + 1)..Limbs : Value(s1, k) = Value(s, k) + (lo - sp) * p0
  <2>1. n - 1 \in Index
    BY <1>1
  <2> QED BY <2>1, ValueWritten
<1>3. /\ Value(s, n + 1) = v + sn * p /\ v = u + sp * p0
      /\ Value(y, n + 1) = vy + yn * p /\ Value(order, n + 1) = vo + on * p
      /\ p = p0 * B /\ B^(n + 1) = p * B
  <2>1. Value(s, (n - 1) + 1) = u + sp * p0 /\ B^((n - 1) + 1) = p0 * B
    BY <1>1, ValueUnfold, Powers
  <2>2. v = u + sp * p0 /\ p = p0 * B
    BY <1>1, <2>1
  <2>3. /\ Value(s, n + 1) = v + sn * p /\ Value(y, n + 1) = vy + yn * p
        /\ Value(order, n + 1) = vo + on * p /\ B^(n + 1) = p * B
    BY <1>1, ValueUnfold, Powers
  <2> QED BY <2>2, <2>3
<1>4. /\ u \in Int /\ v \in Int /\ w \in Int /\ vy \in Int /\ vo \in Int /\ sn \in Int /\ yn \in Int
      /\ on \in Int /\ sp \in Int /\ p \in Int /\ p0 \in Int /\ B \in Int /\ lo \in Int
      /\ x \in Int /\ q \in Int
  <2>1. order \in LimbArrays
    BY Sizes
  <2>2. u \in Nat /\ v \in Nat /\ w \in Nat /\ vy \in Nat /\ vo \in Nat /\ p \in Nat /\ p0 \in Nat
    BY <1>1, <2>1, ValueType, Powers
  <2>3. sn \in 0..(B - 1) /\ yn \in 0..(B - 1) /\ on \in 0..(B - 1) /\ sp \in 0..(B - 1)
    BY <1>1, <2>1 DEF LimbArrays
  <2> HIDE DEF u, v, w, vy, vo, p, p0, sn, yn, on, sp
  <2> QED BY <2>2, <2>3, Base
<1> DEFINE t == (lo - sp) * p0
<1>5. /\ Value(s1, (n + 1) - 1) = v + t /\ Value(s1, Limbs) = w + t
      /\ Value(s1, n + 1) = (v + sn * p) + t
  BY <1>1, <1>2, <1>3
<1>6. RowBefore(s1, c1, x, y, q, n + 1)
        = B * (v + t) + c1 * (p * B) + ((w + t) - ((v + sn * p) + t))
            - x * (vy + yn * p) - q * (vo + on * p)
  BY <1>3, <1>5 DEF RowBefore
<1>7. RowBefore(s, c, x, y, q, n) = B * u + c * p + (w - v) - x * vy - q * vo
  BY DEF RowBefore
<1>8. lo + c1 * B = sn + x * yn + q * on + c
  BY DEF InnerSum
<1>9. v = u + sp * p0 /\ p = p0 * B
  BY <1>3
<1> HIDE DEF s1, p, p0, u, v, w, vy, vo, sn, yn, on, sp
<1>10. B * (v + t) = B * u + lo * p
  <2>1. (lo - sp) * p0 = lo * p0 - sp * p0 /\ B * (u + lo * p0) = B * u + lo * (p0 * B)
    BY <1>4
  <2> DEFINE e1 == lo * p0  e2 == sp * p0
  <2>2. e1 \in Int /\ e2 \in Int /\ t = e1 - e2 /\ v = u + e2
    BY <1>4, <1>9, <2>1
  <2> HIDE DEF e1, e2, t
  <2>3. v + t = u + e1
    BY <1>4, <2>2
  <2> QED BY <1>9, <2>1, <2>3 DEF e1
<1>11. lo * p + c1 * (p * B) = sn * p + x * (yn * p) + q * (on * p) + c * p
  <2>1. (lo + c1 * B) * p = lo * p + c1 * (p * B)
    BY <1>4
  <2>2. (sn + x * yn + q * on + c) * p = sn * p + x * (yn * p) + q * (on * p) + c * p
    <3> DEFINE e1 == x * yn  e2 == q * on
    <3>1. e1 \in Int /\ e2 \in Int /\ e1 * p = x * (yn * p) /\ e2 * p = q * (on * p)
      BY <1>4
    <3>2. (sn + e1 + e2 + c) * p = sn * p + e1 * p + e2 * p + c * p
      <4> HIDE DEF e1, e2
      <4> QED BY <1>4, <3>1
    <3> QED BY <3>1, <3>2
  <2> QED BY <1>8, <2>1, <2>2
<1>12. x * (vy + yn * p) = x * vy + x * (yn * p) /\ q * (vo + on * p) = q * vo + q * (on * p)
  BY <1>4
<1> DEFINE h1 == B * (v + t)  h2 == c1 * (p * B)  h3 == sn * p  h4 == x * (vy + yn * p)
           h5 == q * (vo + on * p)  h6 == B * u  h7 == c * p  h8 == x * vy  h9 == q * vo
           g1 == lo * p  g2 == x * (yn * p)  g3 == q * (on * p)
<1>13. /\ h2 \in Int /\ h3 \in Int /\ h6 \in Int /\ h7 \in Int /\ h8 \in Int /\ h9 \in Int
       /\ g1 \in Int /\ g2 \in Int /\ g3 \in Int /\ t \in Int
       /\ h1 = h6 + g1 /\ g1 + h2 = h3 + g2 + g3 + h7 /\ h4 = h8 + g2 /\ h5 = h9 + g3
  BY <1>4, <1>10, <1>11, <1>12
<1> HIDE DEF h1, h2, h3, h4, h5, h6, h7, h8, h9, g1, g2, g3, t
<1>14. h1 + h2 + ((w + t) - ((v + h3) + t)) - h4 - h5 = h6 + h7 + (w - v) - h8 - h9
  BY <1>4, <1>13
<1>15. RowBefore(s1, c1, x, y, q, n + 1) = RowBefore(s, c, x, y, q, n)
  BY <1>6, <1>7, <1>14 DEF h1, h2, h3, h4, h5, h6, h7, h8, h9
<1> QED BY <1>2, <1>15 DEF s1

\* A row ends with one more limb of x used; "dh = 0" at the end of every row, because what
\* is accumulated is below the sum of the second operand and the order.
LEMMA RowEnds ==
  ASSUME NEW s \in LimbArrays, NEW x \in LimbArrays, NEW y \in LimbArrays, NEW n \in Index,
         NEW q \in 0..(B - 1), NEW c \in 0..(2 * B), Value(y, Limbs) \in Scalars,
         RowOK(RowBefore(s, c, x[n], y, q, Limbs), x, y, n)
  PROVE  /\ [s EXCEPT ![Limbs - 1] = Low(Word(c))] \in LimbArrays
         /\ Carry(Word(c)) = 0
         /\ RowOK(Value([s EXCEPT ![Limbs - 1] = Low(Word(c))], Limbs), x, y, n + 1)
<1> DEFINE lo == Low(Word(c))  h == Carry(Word(c))  s1 == [s EXCEPT ![Limbs - 1] = lo]
           u == Value(s, Limbs - 1)  acc == RowBefore(s, c, x[n], y, q, Limbs)
           Y == Value(y, Limbs)  xn == x[n]  w == Value(s, Limbs)  p0 == B^(Limbs - 1)
           p == B^n  v == Value(x, n)  acc1 == Value(s1, Limbs)  sp == s[Limbs - 1]
<1>1. /\ Limbs - 1 \in Nat /\ Limbs - 1 \in Index /\ Limbs - 1 \in 0..(Limbs - 1)
      /\ Limbs - 1 \in 0..Limbs /\ (Limbs - 1) + 1 = Limbs /\ Limbs \in ((Limbs - 1) + 1)..Limbs
      /\ Limbs \in 0..Limbs /\ n \in Nat /\ n \in 0..Limbs /\ n \in 0..(Limbs - 1)
      /\ n + 1 \in 0..Limbs
  BY ExponentTypes DEF Index
<1>2. B \in Nat /\ B >= 2 /\ N \in Nat /\ N > 10 /\ R \in Nat /\ Y \in Nat /\ Y + N < R
  BY Base, Sizes
<1>3. lo \in 0..(B - 1) /\ h \in Nat /\ lo + h * B = c
  <2>1. c \in Nat /\ c < 4 * (B * B)
    <3>1. B * B >= 2 * B /\ B * B \in Nat
      BY <1>2
    <3> QED BY <1>2, <3>1
  <2>2. lo \in 0..(B - 1) /\ h \in Nat /\ c = B * h + lo
    <3>1. Word(c) = c
      BY <2>1, WordExact
    <3> QED BY <2>1, WordExact
  <2> HIDE DEF lo, h
  <2>3. B * h = h * B /\ B * h \in Int
    BY <1>2, <2>2
  <2> QED BY <2>2, <2>3
<1>4. s1 \in LimbArrays /\ acc1 = w + (lo - sp) * p0
  <2> HIDE DEF lo
  <2> QED BY <1>1, <1>3, ValueWritten
<1>5. w = u + sp * p0 /\ R = p0 * B /\ B^(n + 1) = p * B /\ Value(x, n + 1) = v + xn * p /\ B^Limbs = R
  <2>1. Value(s, (Limbs - 1) + 1) = u + sp * p0 /\ B^((Limbs - 1) + 1) = p0 * B
    BY <1>1, ValueUnfold, Powers
  <2>2. B^(n + 1) = p * B /\ Value(x, n + 1) = v + xn * p /\ B^Limbs = R
    BY <1>1, ValueUnfold, Powers
  <2> QED BY <1>1, <2>1, <2>2
<1>6. /\ u \in Nat /\ w \in Nat /\ v \in Nat /\ p \in Nat /\ p >= 1 /\ p0 \in Nat
      /\ sp \in 0..(B - 1) /\ xn \in 0..(B - 1)
  <2>1. u \in Nat /\ w \in Nat /\ v \in Nat /\ p \in Nat /\ p >= 1 /\ p0 \in Nat
    BY <1>1, ValueType, Powers
  <2>2. sp \in 0..(B - 1) /\ xn \in 0..(B - 1)
    BY <1>1 DEF LimbArrays
  <2> QED BY <2>1, <2>2
<1>7. acc = B * u + c * R + (w - w) - xn * Y - q * N
  BY <1>5, Sizes DEF RowBefore
<1> DEFINE xy == xn * Y  qn == q * N  bu == B * u  cr == c * R
<1>8. /\ xy \in Nat /\ qn \in Nat /\ bu \in Nat /\ cr \in Int
      /\ xy <= (B - 1) * Y /\ qn <= (B - 1) * N
      /\ (B - 1) * Y + (B - 1) * N = B * (Y + N) - (Y + N) /\ B * (Y + N) <= B * R
      /\ (B - 1) * Y \in Nat /\ (B - 1) * N \in Nat /\ B * (Y + N) \in Nat
  <2>1. xn \in Nat /\ xn <= B - 1 /\ q \in Nat /\ q <= B - 1 /\ B - 1 \in Nat
    BY <1>2, <1>6
  <2> HIDE DEF xn, Y, u
  <2>2. xy \in Nat /\ xy <= (B - 1) * Y /\ (B - 1) * Y \in Nat
    BY <1>2, <2>1
  <2>3. qn \in Nat /\ qn <= (B - 1) * N /\ (B - 1) * N \in Nat
    BY <1>2, <2>1
  <2>4. (B - 1) * Y + (B - 1) * N = B * (Y + N) - (Y + N)
    BY <1>2
  <2>5. B * (Y + N) <= B * R /\ B * (Y + N) \in Nat
    <3> DEFINE yn0 == Y + N
    <3>1. yn0 \in Nat /\ yn0 <= R
      BY <1>2
    <3> HIDE DEF yn0
    <3>2. B * yn0 <= B * R /\ B * yn0 \in Nat
      BY <1>2, <3>1
    <3> QED BY <3>2 DEF yn0
  <2>6. bu \in Nat /\ cr \in Int
    BY <1>2, <1>6
  <2> HIDE DEF xy, qn, bu, cr
  <2> QED BY <2>2, <2>3, <2>4, <2>5, <2>6
<1>9. acc = bu + cr - xy - qn
  <2> HIDE DEF acc, bu, cr, xy, qn, w
  <2>1. acc = bu + cr + (w - w) - xy - qn
    BY <1>7 DEF bu, cr, xy, qn
  <2> QED BY <1>6, <1>8, <2>1
<1>10. acc \in Int
  <2> HIDE DEF acc, bu, cr, xy, qn
  <2> QED BY <1>8, <1>9
<1>11. acc >= 0 /\ acc < Y + N
  <2> HIDE DEF acc
  <2> QED BY <1>1, <1>10, RowSmall DEF acc
<1> DEFINE br == B * R
<1>12. acc + xy + qn < br
  <2> DEFINE e1 == (B - 1) * Y  e2 == (B - 1) * N  e3 == B * (Y + N)
  <2>1. /\ xy \in Nat /\ qn \in Nat /\ xy <= e1 /\ qn <= e2 /\ e1 + e2 = e3 - (Y + N) /\ e3 <= br
        /\ e1 \in Nat /\ e2 \in Nat /\ e3 \in Nat
    BY <1>8
  <2>2. br \in Int
    BY <1>2
  <2> HIDE DEF e1, e2, e3, acc, xy, qn, br, Y
  <2> QED BY <1>2, <1>10, <1>11, <2>1, <2>2
<1>13. cr = B * (lo * p0) + h * br
  <2> HIDE DEF lo, h, p0
  <2>1. (lo + h * B) * (p0 * B) = B * (lo * p0) + h * (B * (p0 * B))
    BY <1>2, <1>3, <1>6
  <2> QED BY <1>3, <1>5, <2>1
<1>14. B * acc1 = bu + B * (lo * p0)
  <2> HIDE DEF lo, p0, u, w, sp, acc1
  <2>1. (lo - sp) * p0 = lo * p0 - sp * p0 /\ lo * p0 \in Int /\ sp * p0 \in Int
    BY <1>2, <1>3, <1>6
  <2> DEFINE e1 == lo * p0  e2 == sp * p0  e3 == (lo - sp) * p0
  <2>2. e1 \in Int /\ e2 \in Int /\ e3 = e1 - e2 /\ w = u + e2 /\ acc1 = w + e3
    BY <1>4, <1>5, <2>1
  <2> HIDE DEF e1, e2, e3
  <2>3. acc1 = u + e1 /\ B * (u + e1) = B * u + B * e1
    BY <1>2, <1>6, <2>2
  <2> QED BY <2>3 DEF e1
<1> DEFINE ba == B * acc1  e1 == B * (lo * p0)  hr == h * br
<1>15. ba + hr = acc + xy + qn /\ ba \in Nat
  <2>1. lo * p0 \in Nat
    <3> HIDE DEF lo, p0
    <3> QED BY <1>2, <1>3, <1>6
  <2>2. e1 \in Nat /\ hr \in Int /\ br \in Int
    <3> DEFINE e0 == lo * p0
    <3>1. e0 \in Nat
      BY <2>1
    <3> HIDE DEF h
    <3>2. br \in Int
      BY <1>2
    <3> HIDE DEF e0, br
    <3>3. hr \in Int /\ B * e0 \in Nat
      BY <1>2, <1>3, <3>1, <3>2
    <3> QED BY <3>2, <3>3 DEF e0
  <2>3. ba = bu + e1 /\ cr = e1 + hr
    BY <1>13, <1>14
  <2> HIDE DEF ba, e1, hr, acc, xy, qn, bu, cr, br
  <2> QED BY <1>8, <1>9, <1>10, <2>2, <2>3
<1>16. h = 0
  <2>1. SUFFICES ASSUME h >= 1 PROVE FALSE
    BY <1>3
  <2> HIDE DEF h
  <2>2. br \in Nat
    BY <1>2
  <2> HIDE DEF br
  <2>3. hr >= br /\ hr \in Int
    BY <1>3, <2>1, <2>2
  <2> HIDE DEF ba, acc, xy, qn, hr
  <2> QED BY <1>8, <1>10, <1>12, <1>15, <2>2, <2>3
<1>17. ba = acc + xy + qn
  <2>1. hr = 0
    <3>1. br \in Int
      BY <1>2
    <3> HIDE DEF br, h
    <3> QED BY <1>16, <3>1
  <2> HIDE DEF ba, hr, acc, xy, qn
  <2> QED BY <1>15, <2>1
<1>18. PICK Q \in 0..(p - 1) : acc * p = v * Y + Q * N
  BY DEF RowOK
<1> DEFINE Q1 == Q + q * p
<1>19. Q1 \in 0..((p * B) - 1)
  <2> HIDE DEF p
  <2>1. q \in Nat /\ q <= B - 1 /\ B - 1 \in Nat
    BY <1>2
  <2>2. q * p \in Nat /\ q * p <= (B - 1) * p
    BY <1>6, <2>1
  <2>3. (B - 1) * p = p * B - p /\ p * B \in Nat
    BY <1>2, <1>6
  <2> DEFINE e2 == q * p  e3 == p * B
  <2>4. e2 \in Nat /\ e2 <= e3 - p /\ e3 \in Nat
    BY <2>2, <2>3
  <2> HIDE DEF e2, e3
  <2>5. Q + e2 \in 0..(e3 - 1)
    BY <1>6, <2>4
  <2> QED BY <2>5 DEF e2, e3
<1>20. acc1 * (p * B) = (v + xn * p) * Y + Q1 * N
  <2>1. acc1 \in Int
    BY <1>1, <1>4, ValueType
  <2>2. Q \in Int
    BY <1>6
  <2> HIDE DEF p, acc1, xn, Y, v, acc
  <2>3. acc1 * (p * B) = ba * p
    BY <1>2, <1>6, <2>1
  <2>4. (acc + xy + qn) * p = acc * p + (xn * p) * Y + (q * p) * N
    <3>1. (acc + xy + qn) * p = acc * p + xy * p + qn * p
      <4> HIDE DEF xy, qn
      <4> QED BY <1>6, <1>8, <1>10
    <3>2. xy * p = (xn * p) * Y /\ qn * p = (q * p) * N
      BY <1>2, <1>6
    <3> QED BY <3>1, <3>2
  <2>5. (v + xn * p) * Y = v * Y + (xn * p) * Y /\ Q1 * N = Q * N + (q * p) * N
    BY <1>2, <1>6, <2>2
  <2> DEFINE f1 == v * Y  f2 == (xn * p) * Y  f3 == Q * N  f4 == (q * p) * N  f5 == acc * p
  <2>6. f1 \in Int /\ f2 \in Int /\ f3 \in Int /\ f4 \in Int /\ f5 = f1 + f3
    BY <1>2, <1>6, <1>18, <2>2
  <2>7. acc1 * (p * B) = f5 + f2 + f4 /\ (v + xn * p) * Y = f1 + f2 /\ Q1 * N = f3 + f4
    BY <1>17, <2>3, <2>4, <2>5
  <2> HIDE DEF f1, f2, f3, f4, f5, Q1
  <2> QED BY <2>6, <2>7
<1>21. RowOK(acc1, x, y, n + 1)
  <2>1. acc1 * B^(n + 1) = Value(x, n + 1) * Value(y, Limbs) + Q1 * N /\ Q1 \in 0..(B^(n + 1) - 1)
    BY <1>5, <1>19, <1>20
  <2> HIDE DEF acc1, Q1
  <2> QED BY <2>1 DEF RowOK
<1> QED BY <1>4, <1>16, <1>21 DEF lo, h, s1, acc1

\* The first row starts from nothing.
LEMMA RowsStart == \A x, y \in LimbArrays : RowOK(0, x, y, 0)
<1> SUFFICES ASSUME NEW x \in LimbArrays, NEW y \in LimbArrays PROVE RowOK(0, x, y, 0)
  OBVIOUS
<1>1. Value(x, 0) = 0 /\ B^0 = 1 /\ Value(y, Limbs) \in Int /\ N \in Nat
  BY ValueUnfold, Powers, ValueType, ExponentTypes, Sizes
<1>2. 0 * 1 = 0 * Value(y, Limbs) + 0 * N /\ 0 \in 0..(1 - 1)
  BY <1>1
<1>3. 0 \in 0..(B^0 - 1) /\ 0 * B^0 = Value(x, 0) * Value(y, Limbs) + 0 * N
  BY <1>1, <1>2
<1> QED BY <1>3 DEF RowOK

\* After the last row the multiple of the order is the one that ScalarMmul adds.
LEMMA RowsAre ==
  ASSUME NEW acc \in Int, NEW x \in LimbArrays, NEW y \in LimbArrays, RowOK(acc, x, y, Limbs)
  PROVE  acc = ScalarMmul(Value(x, Limbs), Value(y, Limbs))
<1> DEFINE X == Value(x, Limbs)  Y == Value(y, Limbs)  P == X * Y
<1>1. /\ N \in Nat /\ N > 10 /\ R \in Nat /\ R > 0 /\ NegInv \in Int /\ X \in Int /\ Y \in Int
      /\ P \in Int /\ B^Limbs = R
  <2>1. X \in Int /\ Y \in Int
    BY ExponentTypes, ValueType
  <2>2. P \in Int
    BY <2>1
  <2>3. R > 0 /\ NegInv \in Int
    BY ScalarAssumption
  <2> QED BY <2>1, <2>2, <2>3, Sizes, Powers
<1>2. PICK Q \in 0..(R - 1) : acc * R = P + Q * N
  BY <1>1 DEF RowOK
<1> HIDE DEF P
<1>3. Congruent(N * NegInv, -1, R) /\ N * NegInv \in Int
  <2>1. (N * NegInv + 1) % R = 0 /\ N * NegInv \in Int
    BY <1>1, ScalarAssumption
  <2> DEFINE nn == N * NegInv  k == (nn + 1) \div R
  <2>2. nn + 1 = R * k /\ k \in Int /\ nn \in Int
    <3> HIDE DEF nn
    <3>1. nn + 1 \in Int /\ (nn + 1) % R = 0
      BY <2>1 DEF nn
    <3> QED BY <1>1, <2>1, <3>1, Division DEF nn
  <2> HIDE DEF nn, k
  <2>3. nn = -1 + k * R
    <3>1. R * k = k * R /\ k * R \in Int
      BY <1>1, <2>2
    <3> QED BY <2>2, <3>1
  <2> QED BY <2>1, <2>2, <2>3 DEF Congruent, nn
<1>4. Congruent(NegInv * P, Q, R)
  <2>1. PICK k \in Int : N * NegInv = -1 + k * R
    BY <1>3 DEF Congruent
  <2>2. NegInv * P = NegInv * (acc * R) - NegInv * (Q * N)
    <3> DEFINE e1 == acc * R  e2 == Q * N
    <3>1. e1 \in Int /\ e2 \in Int /\ P = e1 - e2
      BY <1>1, <1>2
    <3> HIDE DEF e1, e2
    <3>2. NegInv * (e1 - e2) = NegInv * e1 - NegInv * e2
      BY <1>1, <3>1
    <3> QED BY <3>1, <3>2 DEF e1, e2
  <2>3. NegInv * (acc * R) = (NegInv * acc) * R /\ NegInv * (Q * N) = Q * (N * NegInv)
    BY <1>1
  <2>4. Q * (-1 + k * R) = (Q * k) * R - Q
    BY <1>1
  <2> DEFINE e1 == NegInv * acc  e2 == Q * k
  <2>5. e1 \in Int /\ e2 \in Int /\ NegInv * P = e1 * R - (e2 * R - Q)
    BY <1>1, <2>1, <2>2, <2>3, <2>4
  <2> HIDE DEF e1, e2
  <2>6. NegInv * P = Q + (e1 - e2) * R /\ e1 - e2 \in Int
    <3>1. (e1 - e2) * R = e1 * R - e2 * R /\ e1 * R \in Int /\ e2 * R \in Int
      BY <1>1, <2>5
    <3> DEFINE f1 == e1 * R  f2 == e2 * R
    <3>2. f1 \in Int /\ f2 \in Int /\ (e1 - e2) * R = f1 - f2 /\ NegInv * P = f1 - (f2 - Q)
      BY <2>5, <3>1
    <3> HIDE DEF f1, f2
    <3> QED BY <1>1, <2>5, <3>2
  <2> QED BY <2>6 DEF Congruent
<1>5. (NegInv * P) % R = Q
  <2> DEFINE z == NegInv * P
  <2>1. z \in Int
    BY <1>1
  <2>2. z % R \in 0..(R - 1) /\ Congruent(z % R, z, R)
    <3> HIDE DEF z
    <3> QED BY <1>1, <2>1, ModCongruent
  <2> DEFINE r == z % R
  <2>3. r \in 0..(R - 1) /\ Congruent(r, z, R) /\ Congruent(z, Q, R)
    BY <1>4, <2>2
  <2> HIDE DEF z, r
  <2>4. r \in Int /\ Q \in Int /\ R \in Int
    BY <1>1, <2>3
  <2>5. Congruent(r, Q, R)
    BY <2>1, <2>3, <2>4, CongruentTrans
  <2>6. r = Q
    BY <1>1, <2>3, <2>5, RemainderUnique
  <2> QED BY <2>6 DEF r, z
<1>6. (P + Q * N) \div R = acc
  <2> DEFINE e == P + Q * N
  <2>1. e = R * acc + 0 /\ e \in Int /\ 0 \in 0..(R - 1)
    <3>1. acc * R = R * acc /\ R * acc \in Int
      BY <1>1
    <3> QED BY <1>1, <1>2, <3>1
  <2> HIDE DEF e
  <2>2. e \div R = acc
    BY <1>1, <2>1, DivisionUnique
  <2> QED BY <2>2 DEF e
<1> QED BY <1>5, <1>6 DEF ScalarMmul, P

-----------------------------------------------------------------------------
(* The inductive invariant. *)

\* The operands stay what they were; every limb is a limb; dh is never set.
LimbsOK ==
    /\ op \in {"add", "sub", "normalize", "mmul"}
    /\ a \in LimbArrays /\ b \in LimbArrays /\ d \in LimbArrays
    /\ Value(a, Limbs) \in Scalars /\ Value(b, Limbs) \in Scalars
    /\ dh = 0 /\ f \in 0..(B - 1) /\ g \in 0..(B - 1)
    /\ pc \in {"sum", "difference", "mask", "correct", "reduce", "row", "inner", "done"}

\* In a first pass: the limbs below i with the carry, or without the borrow, are exact.
FirstPassOK ==
    /\ pc = "sum" => op = "add" /\ j = 0 /\ i \in 0..Limbs /\ cc \in {0, 1}
                       /\ PassOK(d, a, 1 * cc, 1, b, i)
    /\ pc = "difference" => op = "sub" /\ j = 0 /\ i \in 0..Limbs /\ cc \in {0, 1}
                       /\ PassOK(d, a, (-1) * cc, -1, b, i)
    /\ pc = "reduce" => op = "normalize" /\ i \in 0..Limbs /\ cc \in {0, 1}
                       /\ PassOK(d, a, -cc, -1, order, i)

\* After j corrections the limbs are the sum or difference that j corrections give,
\* modulo the radix; the first pass of an addition leaves no carry.
StagesOK ==
    pc = "mask" =>
      /\ op \in {"add", "sub"} /\ j \in {0, 1, 2}
      /\ Value(d, Limbs) = Residue(Stage(op, Value(a, Limbs), Value(b, Limbs), j))
      /\ op = "add" /\ j = 0 => cc = 0

\* During a correction the mask is right, and the limbs below i are corrected.
Direction == IF op = "add" THEN -1 ELSE 1
CorrectOK ==
    pc = "correct" =>
      /\ op \in {"add", "sub"} /\ j \in {0, 1} /\ i \in 0..Limbs /\ cc \in {0, 1} /\ m \in {0, 1}
      /\ Mended(op, Stage(op, Value(a, Limbs), Value(b, Limbs), j), Direction * m)
      /\ CorrectionOK(d, Residue(Stage(op, Value(a, Limbs), Value(b, Limbs), j)),
                      Direction * cc, Direction * m, i)

\* Between rows and inside one, what is accumulated is a Montgomery product so far.
RowsOK ==
    /\ pc = "row" => op = "mmul" /\ i \in 0..Limbs /\ RowOK(Value(d, Limbs), a, b, i)
    /\ pc = "inner" =>
         /\ op = "mmul" /\ i \in Index /\ j \in 1..Limbs /\ cc \in 0..(2 * B) /\ f = a[i]
         /\ RowOK(RowBefore(d, cc, f, b, g, j), a, b, i)

ResultOK == pc = "done" => MatchesArithmetic

LimbsInv == LimbsOK /\ FirstPassOK /\ StagesOK /\ CorrectOK /\ RowsOK /\ ResultOK

LEMMA LimbsInitially == LimbsInit => LimbsInv
<1> SUFFICES ASSUME LimbsInit PROVE LimbsInv
  OBVIOUS
<1>1. /\ op \in {"add", "sub", "normalize", "mmul"} /\ d = ToLimbs(0) /\ dh = 0
      /\ i = 0 /\ j = 0 /\ m = 0 /\ f = 0 /\ g = 0 /\ cc = 0
      /\ pc = CASE op = "add" -> "sum" [] op = "sub" -> "difference"
                [] op = "normalize" -> "reduce" [] op = "mmul" -> "row"
  BY DEF LimbsInit
<1>2. \E x \in Scalars : a = ToLimbs(x)
  BY LimbAssumption DEF LimbsInit
<1>3. \E x \in Scalars : b = ToLimbs(x)
  BY LimbAssumption, Sizes DEF LimbsInit
<1>4. /\ a \in LimbArrays /\ b \in LimbArrays /\ Value(a, Limbs) \in Scalars
      /\ Value(b, Limbs) \in Scalars
  BY <1>2, <1>3, Sizes
<1>5. d \in LimbArrays /\ Value(d, Limbs) = 0 /\ Limbs \in Nat /\ 0 \in 0..Limbs
      /\ B \in Nat /\ B >= 2 /\ 0 \in 0..(B - 1)
  BY <1>1, Sizes, ExponentTypes, Base
<1>6. LimbsOK
  BY <1>1, <1>4, <1>5 DEF LimbsOK
<1>7. /\ PassOK(d, a, 0, 1, b, 0) /\ PassOK(d, a, 0, -1, b, 0) /\ PassOK(d, a, 0, -1, order, 0)
      /\ 1 * 0 = 0 /\ (-1) * 0 = 0
  <2>1. /\ 1 \in Int /\ -1 \in Int /\ 1 * 0 = 0 /\ (-1) * 0 = 0
    OBVIOUS
  <2> QED BY <2>1, PassStarts
<1>8. FirstPassOK
  BY <1>1, <1>5, <1>7 DEF FirstPassOK
<1>9. RowOK(Value(d, Limbs), a, b, 0)
  BY <1>4, <1>5, RowsStart
<1>10. RowsOK
  BY <1>1, <1>5, <1>9 DEF RowsOK
<1>11. pc \notin {"mask", "correct", "done"}
  BY <1>1
<1> QED BY <1>6, <1>8, <1>10, <1>11 DEF LimbsInv, StagesOK, CorrectOK, ResultOK

\* A borrow is a carry with the opposite sign.
LEMMA BorrowIsCarry ==
  ASSUME NEW lo \in Int, NEW h \in {0, 1}, NEW x \in Int, NEW y \in Int, NEW c \in {0, 1},
         lo - h * B = x - y - c
  PROVE  /\ lo + (-h) * B = x + (-1) * y + (-c) /\ -h \in Int /\ -c \in Int /\ -1 \in Int
         /\ (-1) * h = -h /\ (-1) * c = -c /\ (-1) * h \in Int /\ (-1) * c \in Int
<1>1. B \in Int
  BY Base
<1>2. h * B \in Int /\ (-h) * B = -(h * B) /\ (-1) * y = -y
  BY <1>1
<1>3. lo + (-h) * B = x + (-1) * y + (-c)
  BY <1>2
<1> QED BY <1>3

\* A limb of a first pass.
LEMMA PassStepKeeps == LimbsInv /\ (Sum \/ Difference \/ Reduce) => LimbsInv'
<1> SUFFICES ASSUME LimbsInv, Sum \/ Difference \/ Reduce PROVE LimbsInv'
  OBVIOUS
<1>1. LimbsOK /\ FirstPassOK
  BY DEF LimbsInv
<1>2. /\ a \in LimbArrays /\ b \in LimbArrays /\ d \in LimbArrays /\ order \in LimbArrays
      /\ B \in Nat /\ B >= 2 /\ Limbs \in Nat
  BY <1>1, Sizes, Base, ExponentTypes DEF LimbsOK
<1>3. ASSUME NEW k \in Index
      PROVE  a[k] \in 0..(B - 1) /\ b[k] \in 0..(B - 1) /\ order[k] \in 0..(B - 1)
  BY <1>2 DEF LimbArrays
<1>4. CASE Sum
  <2> DEFINE w == Word(a[i] + b[i] + cc)
  <2>1. /\ pc = "sum" /\ i < Limbs /\ d' = [d EXCEPT ![i] = Low(w)] /\ cc' = Carry(w) /\ i' = i + 1
        /\ op' = op /\ a' = a /\ b' = b /\ dh' = dh /\ j' = j /\ f' = f /\ g' = g /\ pc' = pc
    BY <1>4 DEF Sum, SetLimb
  <2>2. op = "add" /\ j = 0 /\ i \in Index /\ cc \in {0, 1} /\ PassOK(d, a, 1 * cc, 1, b, i)
    BY <1>1, <1>2, <2>1 DEF FirstPassOK, Index
  <2>3. a[i] + b[i] + cc \in 0..(2 * B - 1)
    BY <1>2, <1>3, <2>2
  <2>4. Low(w) \in 0..(B - 1) /\ Carry(w) \in {0, 1} /\ Low(w) + Carry(w) * B = a[i] + b[i] + cc
    BY <2>3, AddWord
  <2> HIDE DEF w
  <2>5. /\ Low(w) + (1 * Carry(w)) * B = a[i] + 1 * b[i] + 1 * cc /\ 1 * cc \in Int
        /\ 1 * Carry(w) \in Int /\ 1 \in Int
    BY <1>3, <2>2, <2>4
  <2>6. d' \in LimbArrays /\ PassOK(d', a, 1 * Carry(w), 1, b, i + 1)
    BY <1>2, <2>1, <2>2, <2>4, <2>5, PassStep
  <2>7. i + 1 \in 0..Limbs
    BY <1>2, <2>2 DEF Index
  <2>8. LimbsOK'
    BY <1>1, <2>1, <2>6 DEF LimbsOK
  <2>9. FirstPassOK'
    BY <2>1, <2>2, <2>4, <2>6, <2>7 DEF FirstPassOK
  <2> QED BY <2>1, <2>8, <2>9 DEF LimbsInv, StagesOK, CorrectOK, RowsOK, ResultOK
<1>5. CASE Difference
  <2> DEFINE w == Word(a[i] - b[i] - cc)
  <2>1. /\ pc = "difference" /\ i < Limbs /\ d' = [d EXCEPT ![i] = Low(w)] /\ cc' = Borrow(w)
        /\ i' = i + 1
        /\ op' = op /\ a' = a /\ b' = b /\ dh' = dh /\ j' = j /\ f' = f /\ g' = g /\ pc' = pc
    BY <1>5 DEF Difference, SetLimb
  <2>2. op = "sub" /\ j = 0 /\ i \in Index /\ cc \in {0, 1} /\ PassOK(d, a, (-1) * cc, -1, b, i)
    BY <1>1, <1>2, <2>1 DEF FirstPassOK, Index
  <2>3. a[i] - b[i] - cc \in (-B)..(B - 1)
    BY <1>2, <1>3, <2>2
  <2>4. Low(w) \in 0..(B - 1) /\ Borrow(w) \in {0, 1} /\ Low(w) - Borrow(w) * B = a[i] - b[i] - cc
    BY <2>3, SubWord
  <2> HIDE DEF w
  <2>5. /\ Low(w) + ((-1) * Borrow(w)) * B = a[i] + (-1) * b[i] + (-1) * cc /\ (-1) * cc \in Int
        /\ (-1) * Borrow(w) \in Int /\ -1 \in Int
    <3> DEFINE lo == Low(w)  h == Borrow(w)  x == a[i]  y == b[i]
    <3>1. lo \in Int /\ x \in Int /\ y \in Int /\ h \in {0, 1} /\ cc \in {0, 1}
          /\ lo - h * B = x - y - cc
      BY <1>2, <1>3, <2>2, <2>4
    <3> HIDE DEF lo, h, x, y
    <3>2. lo + ((-1) * h) * B = x + (-1) * y + (-1) * cc /\ (-1) * cc \in Int
          /\ (-1) * h \in Int /\ -1 \in Int
      BY <3>1, BorrowIsCarry
    <3> QED BY <3>2 DEF lo, h, x, y
  <2>6. d' \in LimbArrays /\ PassOK(d', a, (-1) * Borrow(w), -1, b, i + 1)
    BY <1>2, <2>1, <2>2, <2>4, <2>5, PassStep
  <2>7. i + 1 \in 0..Limbs
    BY <1>2, <2>2 DEF Index
  <2>8. LimbsOK'
    BY <1>1, <2>1, <2>6 DEF LimbsOK
  <2>9. FirstPassOK'
    BY <2>1, <2>2, <2>4, <2>6, <2>7 DEF FirstPassOK
  <2> QED BY <2>1, <2>8, <2>9 DEF LimbsInv, StagesOK, CorrectOK, RowsOK, ResultOK
<1>6. CASE Reduce
  <2> DEFINE w == Word(a[i] - order[i] - cc)
  <2>1. /\ pc = "reduce" /\ i < Limbs /\ d' = [d EXCEPT ![i] = Low(w)] /\ cc' = Borrow(w)
        /\ i' = i + 1
        /\ op' = op /\ a' = a /\ b' = b /\ dh' = dh /\ j' = j /\ f' = f /\ g' = g /\ pc' = pc
    BY <1>6 DEF Reduce, SetLimb
  <2>2. op = "normalize" /\ i \in Index /\ cc \in {0, 1} /\ PassOK(d, a, -cc, -1, order, i)
    BY <1>1, <1>2, <2>1 DEF FirstPassOK, Index
  <2>3. a[i] - order[i] - cc \in (-B)..(B - 1)
    BY <1>2, <1>3, <2>2
  <2>4. Low(w) \in 0..(B - 1) /\ Borrow(w) \in {0, 1}
        /\ Low(w) - Borrow(w) * B = a[i] - order[i] - cc
    BY <2>3, SubWord
  <2> HIDE DEF w
  <2>5. /\ Low(w) + (-Borrow(w)) * B = a[i] + (-1) * order[i] + (-cc) /\ -cc \in Int
        /\ -Borrow(w) \in Int /\ -1 \in Int
    <3> DEFINE lo == Low(w)  h == Borrow(w)  x == a[i]  y == order[i]
    <3>1. lo \in Int /\ x \in Int /\ y \in Int /\ h \in {0, 1} /\ cc \in {0, 1}
          /\ lo - h * B = x - y - cc
      BY <1>2, <1>3, <2>2, <2>4
    <3> HIDE DEF lo, h, x, y
    <3>2. lo + (-h) * B = x + (-1) * y + (-cc) /\ -cc \in Int /\ -h \in Int /\ -1 \in Int
      BY <3>1, BorrowIsCarry
    <3> QED BY <3>2 DEF lo, h, x, y
  <2>6. d' \in LimbArrays /\ PassOK(d', a, -Borrow(w), -1, order, i + 1)
    BY <1>2, <2>1, <2>2, <2>4, <2>5, PassStep
  <2>7. i + 1 \in 0..Limbs
    BY <1>2, <2>2 DEF Index
  <2>8. LimbsOK'
    BY <1>1, <2>1, <2>6 DEF LimbsOK
  <2>9. FirstPassOK'
    BY <2>1, <2>2, <2>4, <2>6, <2>7 DEF FirstPassOK
  <2> QED BY <2>1, <2>8, <2>9 DEF LimbsInv, StagesOK, CorrectOK, RowsOK, ResultOK
<1> QED BY <1>4, <1>5, <1>6

\* The end of a first pass.
LEMMA FirstPassEndKeeps == LimbsInv /\ FirstPassEnd => LimbsInv'
<1> SUFFICES ASSUME LimbsInv, FirstPassEnd PROVE LimbsInv'
  OBVIOUS
<1>1. LimbsOK /\ FirstPassOK
  BY DEF LimbsInv
<1>2. /\ pc \in {"sum", "difference"} /\ i = Limbs /\ pc' = "mask" /\ op' = op /\ a' = a /\ b' = b
      /\ d' = d /\ dh' = dh /\ i' = i /\ j' = j /\ f' = f /\ g' = g /\ cc' = cc
  BY DEF FirstPassEnd
<1>3. LimbsOK'
  BY <1>1, <1>2 DEF LimbsOK
<1> DEFINE sg == IF op = "add" THEN 1 ELSE -1
<1>4. /\ op \in {"add", "sub"} /\ j = 0 /\ cc \in {0, 1} /\ sg \in {-1, 1}
      /\ PassOK(d, a, sg * cc, sg, b, Limbs)
  BY <1>1, <1>2 DEF FirstPassOK
<1>5. sg = IF op = "add" THEN 1 ELSE -1
  OBVIOUS
<1> HIDE DEF sg
<1>6. /\ Value(d, Limbs) = Residue(Stage(op, Value(a, Limbs), Value(b, Limbs), 0))
      /\ op = "add" => cc = 0
  BY <1>1, <1>4, <1>5, FirstPassEnds DEF LimbsOK
<1>7. StagesOK'
  BY <1>2, <1>4, <1>6 DEF StagesOK
<1> QED BY <1>2, <1>3, <1>7 DEF LimbsInv, FirstPassOK, CorrectOK, RowsOK, ResultOK

\* The masks of the conditional corrections.
LEMMA MaskKeeps == LimbsInv /\ Mask => LimbsInv'
<1> SUFFICES ASSUME LimbsInv, Mask PROVE LimbsInv'
  OBVIOUS
<1>1. LimbsOK /\ StagesOK
  BY DEF LimbsInv
<1>2. /\ pc = "mask" /\ j < 2 /\ pc' = "correct" /\ op' = op /\ a' = a /\ b' = b /\ d' = d
      /\ dh' = dh /\ j' = j /\ f' = f /\ g' = g /\ cc' = 0 /\ i' = 0
      /\ m' = IF (op = "add" /\ TooLarge) \/ (op = "sub" /\ Negative) THEN 1 ELSE 0
  BY DEF Mask
<1>3. LimbsOK'
  BY <1>1, <1>2 DEF LimbsOK
<1> DEFINE X == Value(a, Limbs)  Y == Value(b, Limbs)  z == Stage(op, X, Y, j)
<1>4. /\ op \in {"add", "sub"} /\ j \in {0, 1} /\ j \in {0, 1, 2} /\ Value(d, Limbs) = Residue(z)
      /\ X \in Scalars /\ Y \in Scalars /\ d \in LimbArrays
  BY <1>1, <1>2 DEF StagesOK, LimbsOK
<1>5. z \in Int /\ -R <= 2 * z /\ 2 * z < R /\ (op = "add" => z >= 0)
  <2> HIDE DEF X, Y
  <2> QED BY <1>4, Stages
<1> HIDE DEF z
<1>6. (Negative <=> z < 0) /\ (z >= 0 => (TooLarge <=> z >= Top))
  BY <1>4, <1>5, MaskSees DEF Negative, TooLarge
<1>7. Mended(op, z, Direction * m') /\ m' \in {0, 1} /\ Direction * m' \in Int
  <2>1. Direction = IF op = "add" THEN -1 ELSE 1
    BY DEF Direction
  <2>2. (-1) * 1 = -1 /\ (-1) * 0 = 0 /\ 1 * 1 = 1 /\ 1 * 0 = 0
    OBVIOUS
  <2>3. CASE op = "add"
    BY <1>2, <1>5, <1>6, <2>1, <2>2, <2>3 DEF Mended
  <2>4. CASE op = "sub"
    BY <1>2, <1>5, <1>6, <2>1, <2>2, <2>4 DEF Mended
  <2> QED BY <1>4, <2>3, <2>4
<1>8. CorrectionOK(d, Residue(z), Direction * 0, Direction * m', 0)
  <2>1. Direction * 0 = 0
    BY DEF Direction
  <2>2. CorrectionOK(d, Value(d, Limbs), 0, Direction * m', 0)
    BY <1>4, <1>7, CorrectionStarts
  <2> QED BY <1>4, <2>1, <2>2
<1>9. CorrectOK'
  <2>1. Direction' = Direction /\ 0 \in 0..Limbs
    BY <1>2, ExponentTypes DEF Direction
  <2> QED BY <1>2, <1>4, <1>7, <1>8, <2>1 DEF CorrectOK, z
<1> QED BY <1>2, <1>3, <1>9 DEF LimbsInv, FirstPassOK, StagesOK, RowsOK, ResultOK

\* A limb of a correction.
LEMMA CorrectKeeps == LimbsInv /\ Correct => LimbsInv'
<1> SUFFICES ASSUME LimbsInv, Correct PROVE LimbsInv'
  OBVIOUS
<1>1. LimbsOK /\ CorrectOK
  BY DEF LimbsInv
<1> DEFINE w == IF op = "add" THEN Word(d[i] - m * order[i] - cc) ELSE Word(d[i] + m * order[i] + cc)
           h == IF op = "add" THEN Borrow(w) ELSE Carry(w)
           v0 == Residue(Stage(op, Value(a, Limbs), Value(b, Limbs), j))
<1>2. /\ pc = "correct" /\ i < Limbs /\ d' = [d EXCEPT ![i] = Low(w)] /\ cc' = h /\ i' = i + 1
      /\ op' = op /\ a' = a /\ b' = b /\ dh' = dh /\ j' = j /\ m' = m /\ f' = f /\ g' = g /\ pc' = pc
      /\ op \in {"add", "sub"}
  <2>1. /\ pc = "correct" /\ op' = op /\ a' = a /\ b' = b /\ dh' = dh /\ j' = j /\ m' = m
        /\ f' = f /\ g' = g /\ pc' = pc
    BY DEF Correct
  <2>2. CASE op = "add"
    BY <2>1, <2>2 DEF Correct, SetLimb
  <2>3. CASE op = "sub"
    BY <2>1, <2>3 DEF Correct, SetLimb
  <2>4. op = "add" \/ op = "sub"
    BY DEF Correct
  <2> QED BY <2>1, <2>2, <2>3, <2>4
<1>3. /\ a \in LimbArrays /\ b \in LimbArrays /\ d \in LimbArrays /\ order \in LimbArrays
      /\ B \in Nat /\ B >= 2 /\ Limbs \in Nat
      /\ Value(a, Limbs) \in Scalars /\ Value(b, Limbs) \in Scalars
  BY <1>1, Sizes, Base, ExponentTypes DEF LimbsOK
<1>4. /\ j \in {0, 1} /\ i \in Index /\ cc \in {0, 1} /\ m \in {0, 1}
      /\ Mended(op, Stage(op, Value(a, Limbs), Value(b, Limbs), j), Direction * m)
      /\ CorrectionOK(d, v0, Direction * cc, Direction * m, i)
  BY <1>1, <1>2, <1>3 DEF CorrectOK, Index
<1>5. d[i] \in 0..(B - 1) /\ order[i] \in 0..(B - 1)
  BY <1>3, <1>4 DEF LimbArrays
<1> DEFINE x == d[i]  y == order[i]  my == m * y  lo == Low(w)
<1>6. my \in 0..(B - 1)
  <2>1. 0 * y = 0 /\ 1 * y = y
    BY <1>5
  <2> QED BY <1>3, <1>4, <1>5, <2>1
<1>7. /\ lo \in 0..(B - 1) /\ h \in {0, 1}
      /\ lo + (Direction * h) * B = x + (Direction * m) * y + Direction * cc
      /\ Direction * h \in Int /\ Direction * m \in Int /\ Direction * cc \in Int
  <2>1. CASE op = "add"
    <3>1. w = Word(x - my - cc) /\ h = Borrow(w) /\ Direction = -1
      BY <2>1 DEF Direction
    <3>2. x - my - cc \in (-B)..(B - 1)
      <4> HIDE DEF my, x
      <4> QED BY <1>3, <1>4, <1>5, <1>6 DEF x
    <3>3. lo \in 0..(B - 1) /\ h \in {0, 1} /\ lo - h * B = x - my - cc
      <4> HIDE DEF w, h
      <4>1. Low(Word(x - my - cc)) \in 0..(B - 1) /\ Borrow(Word(x - my - cc)) \in {0, 1}
            /\ Low(Word(x - my - cc)) - Borrow(Word(x - my - cc)) * B = x - my - cc
        <5> DEFINE e == x - my - cc
        <5> HIDE DEF e
        <5>1. e \in (-B)..(B - 1)
          BY <3>2 DEF e
        <5>2. Low(Word(e)) \in 0..(B - 1) /\ Borrow(Word(e)) \in {0, 1}
              /\ Low(Word(e)) - Borrow(Word(e)) * B = e
          BY <5>1, SubWord
        <5> QED BY <5>2 DEF e
      <4> QED BY <3>1, <4>1
    <3>4. x \in Int /\ y \in Int /\ my \in Int /\ lo \in Int
      <4> HIDE DEF my, lo
      <4> QED BY <1>3, <1>5, <1>6, <3>3
    <3>5. (-1) * my = ((-1) * m) * y
      BY <1>4, <3>4
    <3> HIDE DEF w, h, x, y, my, lo
    <3>6. lo + (-h) * B = x + (-1) * my + (-cc) /\ -h \in Int /\ -cc \in Int
          /\ (-1) * h = -h /\ (-1) * cc = -cc
      BY <1>4, <3>3, <3>4, BorrowIsCarry
    <3>7. (-1) * m \in Int
      BY <1>4
    <3> QED BY <3>1, <3>3, <3>5, <3>6, <3>7
  <2>2. CASE op = "sub"
    <3>1. w = Word(x + my + cc) /\ h = Carry(w) /\ Direction = 1
      BY <2>2 DEF Direction
    <3>2. x + my + cc \in 0..(2 * B - 1)
      <4> HIDE DEF my, x
      <4> QED BY <1>3, <1>4, <1>5, <1>6 DEF x
    <3>3. lo \in 0..(B - 1) /\ h \in {0, 1} /\ lo + h * B = x + my + cc
      <4> HIDE DEF w, h
      <4>1. Low(Word(x + my + cc)) \in 0..(B - 1) /\ Carry(Word(x + my + cc)) \in {0, 1}
            /\ Low(Word(x + my + cc)) + Carry(Word(x + my + cc)) * B = x + my + cc
        <5> DEFINE e == x + my + cc
        <5> HIDE DEF e
        <5>1. e \in 0..(2 * B - 1)
          BY <3>2 DEF e
        <5>2. Low(Word(e)) \in 0..(B - 1) /\ Carry(Word(e)) \in {0, 1}
              /\ Low(Word(e)) + Carry(Word(e)) * B = e
          BY <5>1, AddWord
        <5> QED BY <5>2 DEF e
      <4> QED BY <3>1, <4>1
    <3>4. 1 * h = h /\ 1 * m = m /\ 1 * cc = cc /\ h \in Int /\ m \in Int /\ cc \in Int
      <4> HIDE DEF h
      <4> QED BY <1>4, <3>3
    <3> HIDE DEF w, h, x, y, lo
    <3> QED BY <3>1, <3>3, <3>4
  <2> QED BY <1>2, <2>1, <2>2
<1>8. v0 \in Int
  <2>1. j \in {0, 1, 2} /\ R \in Nat
    BY <1>4, Sizes
  <2> DEFINE z == Stage(op, Value(a, Limbs), Value(b, Limbs), j)
  <2>2. z \in Int
    BY <1>2, <1>3, <2>1, Stages
  <2> HIDE DEF z
  <2>3. Residue(z) \in Int
    BY <2>1, <2>2 DEF Residue
  <2> QED BY <2>3 DEF z
<1> HIDE DEF w, h, v0
<1>9. /\ [d EXCEPT ![i] = lo] \in LimbArrays
      /\ CorrectionOK([d EXCEPT ![i] = lo], v0, Direction * h, Direction * m, i + 1)
  <2> HIDE DEF lo
  <2>1. lo + (Direction * h) * B = d[i] + (Direction * m) * order[i] + Direction * cc
    BY <1>7
  <2> DEFINE c0 == Direction * cc  c1 == Direction * h  t0 == Direction * m
  <2>2. c0 \in Int /\ c1 \in Int /\ t0 \in Int /\ lo \in 0..(B - 1)
        /\ lo + c1 * B = d[i] + t0 * order[i] + c0 /\ CorrectionOK(d, v0, c0, t0, i)
    BY <1>4, <1>7, <2>1
  <2> HIDE DEF c0, c1, t0
  <2>3. /\ [d EXCEPT ![i] = lo] \in LimbArrays
        /\ CorrectionOK([d EXCEPT ![i] = lo], v0, c1, t0, i + 1)
    BY <1>3, <1>4, <1>8, <2>2, CorrectionStep
  <2> QED BY <2>3 DEF c1, t0
<1>10. d' \in LimbArrays /\ CorrectionOK(d', v0, Direction * cc', Direction * m, i')
  BY <1>2, <1>9
<1>11. LimbsOK'
  BY <1>1, <1>2, <1>10 DEF LimbsOK
<1>12. CorrectOK'
  <2>1. Direction' = Direction /\ i' \in 0..Limbs /\ cc' \in {0, 1}
    BY <1>2, <1>3, <1>4, <1>7 DEF Direction, Index
  <2> QED BY <1>2, <1>4, <1>10, <2>1 DEF CorrectOK, v0
<1> QED BY <1>2, <1>11, <1>12 DEF LimbsInv, FirstPassOK, StagesOK, RowsOK, ResultOK

\* The end of a correction.
LEMMA CorrectEndKeeps == LimbsInv /\ CorrectEnd => LimbsInv'
<1> SUFFICES ASSUME LimbsInv, CorrectEnd PROVE LimbsInv'
  OBVIOUS
<1>1. LimbsOK /\ CorrectOK
  BY DEF LimbsInv
<1>2. /\ pc = "correct" /\ i = Limbs /\ pc' = "mask" /\ op' = op /\ a' = a /\ b' = b /\ d' = d
      /\ dh' = dh /\ j' = j + 1 /\ f' = f /\ g' = g /\ cc' = cc
  BY DEF CorrectEnd
<1>3. LimbsOK'
  BY <1>1, <1>2 DEF LimbsOK
<1> DEFINE X == Value(a, Limbs)  Y == Value(b, Limbs)
<1>4. /\ op \in {"add", "sub"} /\ j \in {0, 1} /\ cc \in {0, 1} /\ m \in {0, 1}
      /\ X \in Scalars /\ Y \in Scalars /\ d \in LimbArrays
      /\ Mended(op, Stage(op, X, Y, j), Direction * m)
      /\ CorrectionOK(d, Residue(Stage(op, X, Y, j)), Direction * cc, Direction * m, Limbs)
  BY <1>1, <1>2 DEF CorrectOK, LimbsOK
<1> HIDE DEF X, Y
<1>5. Direction * cc \in {-1, 0, 1} /\ Direction * m \in {-1, 0, 1}
  BY <1>4 DEF Direction
<1> DEFINE c == Direction * cc  t == Direction * m
<1>6. Value(d, Limbs) = Residue(Stage(op, X, Y, j + 1))
  <2>1. c \in {-1, 0, 1} /\ t \in {-1, 0, 1} /\ Mended(op, Stage(op, X, Y, j), t)
        /\ CorrectionOK(d, Residue(Stage(op, X, Y, j)), c, t, Limbs)
    BY <1>4, <1>5
  <2> HIDE DEF c, t
  <2> QED BY <1>4, <2>1, NextStage
<1>7. StagesOK'
  <2>1. j + 1 \in {0, 1, 2} /\ j + 1 # 0
    BY <1>4
  <2> QED BY <1>2, <1>4, <1>6, <2>1 DEF StagesOK, X, Y
<1> QED BY <1>2, <1>3, <1>7 DEF LimbsInv, FirstPassOK, CorrectOK, RowsOK, ResultOK

\* After two corrections the result is that of ScalarAdd or ScalarSub.
LEMMA CorrectionsEndKeeps == LimbsInv /\ CorrectionsEnd => LimbsInv'
<1> SUFFICES ASSUME LimbsInv, CorrectionsEnd PROVE LimbsInv'
  OBVIOUS
<1>1. LimbsOK /\ StagesOK
  BY DEF LimbsInv
<1>2. /\ pc = "mask" /\ j = 2 /\ pc' = "done" /\ op' = op /\ a' = a /\ b' = b /\ d' = d
      /\ dh' = dh /\ f' = f /\ g' = g /\ ret' = ret
  BY DEF CorrectionsEnd
<1>3. LimbsOK'
  BY <1>1, <1>2 DEF LimbsOK
<1> DEFINE X == Value(a, Limbs)  Y == Value(b, Limbs)  z == Stage(op, X, Y, 2)
<1>4. op \in {"add", "sub"} /\ Value(d, Limbs) = Residue(z) /\ X \in Scalars /\ Y \in Scalars
  BY <1>1, <1>2 DEF StagesOK, LimbsOK
<1>5. z >= 0 /\ z \in Int /\ z = IF op = "add" THEN ScalarAdd(X, Y) ELSE ScalarSub(X, Y)
  <2> HIDE DEF X, Y
  <2>1. 2 \in {0, 1, 2}
    OBVIOUS
  <2> QED BY <1>4, <2>1, Stages
<1>6. Value(d, Limbs) = IF op = "add" THEN ScalarAdd(X, Y) ELSE ScalarSub(X, Y)
  <2> HIDE DEF z
  <2>1. Residue(z) = z
    BY <1>5 DEF Residue
  <2> QED BY <1>4, <1>5, <2>1
<1>7. MatchesArithmetic'
  <2>1. CASE op = "add"
    BY <1>2, <1>6, <2>1 DEF MatchesArithmetic, Computed
  <2>2. CASE op = "sub"
    BY <1>2, <1>6, <2>2 DEF MatchesArithmetic, Computed
  <2> QED BY <1>4, <2>1, <2>2
<1> QED BY <1>2, <1>3, <1>7 DEF LimbsInv, FirstPassOK, StagesOK, CorrectOK, RowsOK, ResultOK

\* scalar_normalize keeps the source or the difference.
LEMMA SelectKeeps == LimbsInv /\ Select => LimbsInv'
<1> SUFFICES ASSUME LimbsInv, Select PROVE LimbsInv'
  OBVIOUS
<1>1. LimbsOK /\ FirstPassOK
  BY DEF LimbsInv
<1>2. /\ pc = "reduce" /\ i = Limbs /\ pc' = "done" /\ op' = op /\ a' = a /\ b' = b
      /\ dh' = dh /\ f' = f /\ g' = g /\ ret' = cc
      /\ d' = [k \in Index |-> IF cc = 1 THEN a[k] ELSE d[k]]
  BY DEF Select
<1> DEFINE X == Value(a, Limbs)
<1>3. /\ op = "normalize" /\ cc \in {0, 1} /\ PassOK(d, a, -cc, -1, order, Limbs)
      /\ a \in LimbArrays /\ d \in LimbArrays /\ X \in Scalars
  BY <1>1, <1>2 DEF FirstPassOK, LimbsOK
<1>4. /\ cc = 1 <=> X < N
      /\ cc = 0 => Value(d, Limbs) = X - N
  BY <1>3, ReduceEnds
<1>5. d' = IF cc = 1 THEN a ELSE d
  <2>1. a = [k \in Index |-> a[k]] /\ d = [k \in Index |-> d[k]]
    BY <1>3 DEF LimbArrays
  <2>2. CASE cc = 1
    BY <1>2, <2>1, <2>2
  <2>3. CASE cc # 1
    BY <1>2, <2>1, <2>3
  <2> QED BY <2>2, <2>3
<1>6. LimbsOK'
  BY <1>1, <1>2, <1>3, <1>5 DEF LimbsOK
<1>7. Value(d', Limbs) = Normalize(X)
  BY <1>3, <1>4, <1>5 DEF Normalize
<1>8. MatchesArithmetic'
  <2>1. Value(d', Limbs) = Normalize(Value(a', Limbs)) /\ (ret' = 1 <=> WasNormal(Value(a', Limbs)))
    BY <1>2, <1>4, <1>7 DEF WasNormal
  <2>2. Computed' = Normalize(Value(a', Limbs))
    BY <1>2, <1>3 DEF Computed
  <2> QED BY <1>2, <1>3, <2>1, <2>2 DEF MatchesArithmetic
<1> QED BY <1>2, <1>6, <1>8 DEF LimbsInv, FirstPassOK, StagesOK, CorrectOK, RowsOK, ResultOK

\* The start of a row.
LEMMA RowStartKeeps == LimbsInv /\ RowStart => LimbsInv'
<1> SUFFICES ASSUME LimbsInv, RowStart PROVE LimbsInv'
  OBVIOUS
<1>1. LimbsOK /\ RowsOK
  BY DEF LimbsInv
<1> DEFINE t == Word(d[0] + a[i] * b[0])  q == Low(Word(t * N0I))
<1>2. /\ pc = "row" /\ i < Limbs /\ f' = a[i] /\ g' = q /\ cc' = Carry(Word(t + q * N0))
      /\ j' = 1 /\ pc' = "inner" /\ op' = op /\ a' = a /\ b' = b /\ d' = d /\ dh' = dh /\ i' = i
  BY DEF RowStart
<1>3. /\ a \in LimbArrays /\ b \in LimbArrays /\ d \in LimbArrays /\ Limbs \in Nat /\ Limbs >= 1
      /\ B \in Nat /\ B >= 2
  BY <1>1, Base, ExponentTypes DEF LimbsOK
<1>4. op = "mmul" /\ i \in Index /\ RowOK(Value(d, Limbs), a, b, i)
  BY <1>1, <1>2, <1>3 DEF RowsOK, Index
<1>5. d[0] \in 0..(B - 1) /\ a[i] \in 0..(B - 1) /\ b[0] \in 0..(B - 1)
  <2>1. 0 \in Index
    BY <1>3 DEF Index
  <2> QED BY <1>3, <1>4, <2>1 DEF LimbArrays
<1>6. q \in 0..(B - 1) /\ cc' \in 0..(2 * B) /\ B * cc' = d[0] + a[i] * b[0] + q * N0
  <2> DEFINE d0 == d[0]  x == a[i]  y == b[0]
  <2>1. /\ t = Word(d0 + x * y) /\ q = Low(Word(t * N0I)) /\ cc' = Carry(Word(t + q * N0))
        /\ d0 \in 0..(B - 1) /\ x \in 0..(B - 1) /\ y \in 0..(B - 1)
    BY <1>2, <1>5
  <2> HIDE DEF t, q, d0, x, y
  <2>2. /\ q \in 0..(B - 1) /\ Carry(Word(t + q * N0)) \in 0..(2 * B)
        /\ B * Carry(Word(t + q * N0)) = d0 + x * y + q * N0
    BY <2>1, RowWord
  <2> QED BY <2>1, <2>2 DEF d0, x, y
<1> HIDE DEF t, q
<1>7. RowBefore(d, cc', a[i], b, q, 1) = Value(d, Limbs)
  <2>1. cc' \in Int
    BY <1>3, <1>6
  <2> QED BY <1>3, <1>5, <1>6, <2>1, RowStarts
<1>8. LimbsOK'
  BY <1>1, <1>2, <1>5, <1>6 DEF LimbsOK
<1>9. RowsOK'
  <2>1. 1 \in 1..Limbs
    BY <1>3
  <2> QED BY <1>2, <1>4, <1>6, <1>7, <2>1 DEF RowsOK
<1> QED BY <1>2, <1>8, <1>9 DEF LimbsInv, FirstPassOK, StagesOK, CorrectOK, ResultOK

\* A limb of a row.
LEMMA InnerKeeps == LimbsInv /\ Inner => LimbsInv'
<1> SUFFICES ASSUME LimbsInv, Inner PROVE LimbsInv'
  OBVIOUS
<1>1. LimbsOK /\ RowsOK
  BY DEF LimbsInv
<1> DEFINE e == InnerSum(d, cc, f, b, g, j)  h == Word(e)
<1>2. /\ pc = "inner" /\ j < Limbs /\ d' = [d EXCEPT ![j - 1] = Low(h)] /\ cc' = Carry(h)
      /\ j' = j + 1 /\ pc' = "inner" /\ op' = op /\ a' = a /\ b' = b /\ dh' = dh /\ i' = i
      /\ f' = f /\ g' = g
  BY DEF Inner, InnerSum
<1>3. /\ a \in LimbArrays /\ b \in LimbArrays /\ d \in LimbArrays
      /\ Limbs \in Nat /\ Limbs >= 1 /\ B \in Nat /\ B >= 2
      /\ f \in 0..(B - 1) /\ g \in 0..(B - 1)
  BY <1>1, Base, ExponentTypes DEF LimbsOK
<1>4. /\ op = "mmul" /\ i \in Index /\ j \in Index /\ j >= 1 /\ cc \in 0..(2 * B) /\ f = a[i]
      /\ RowOK(RowBefore(d, cc, f, b, g, j), a, b, i)
  BY <1>1, <1>2, <1>3 DEF RowsOK, Index
<1>6. Low(h) \in 0..(B - 1) /\ Carry(h) \in 0..(2 * B) /\ Low(h) + Carry(h) * B = e
  <2>1. /\ b \in LimbArrays /\ d \in LimbArrays /\ j \in Index
        /\ f \in 0..(B - 1) /\ g \in 0..(B - 1) /\ cc \in 0..(2 * B)
    BY <1>3, <1>4
  <2> QED BY <2>1, InnerWord, Zenon
<1> HIDE DEF h
<1>8. /\ [d EXCEPT ![j - 1] = Low(h)] \in LimbArrays
      /\ RowBefore([d EXCEPT ![j - 1] = Low(h)], Carry(h), f, b, g, j + 1)
           = RowBefore(d, cc, f, b, g, j)
  <2> DEFINE lo == Low(h)  c1 == Carry(h)
  <2>1. cc \in Int /\ c1 \in Int /\ lo \in 0..(B - 1) /\ lo + c1 * B = e
    BY <1>3, <1>4, <1>6
  <2> HIDE DEF lo, c1
  <2>2. /\ [d EXCEPT ![j - 1] = lo] \in LimbArrays
        /\ RowBefore([d EXCEPT ![j - 1] = lo], c1, f, b, g, j + 1) = RowBefore(d, cc, f, b, g, j)
    <3>1. /\ d \in LimbArrays /\ b \in LimbArrays /\ j \in Index /\ j >= 1
          /\ f \in 0..(B - 1) /\ g \in 0..(B - 1) /\ cc \in Int /\ c1 \in Int
          /\ lo \in 0..(B - 1) /\ lo + c1 * B = InnerSum(d, cc, f, b, g, j)
      BY <1>3, <1>4, <1>6, <2>1 DEF lo
    <3> QED BY <3>1, InnerStep
  <2> QED BY <2>2 DEF lo, c1
<1>9. LimbsOK'
  BY <1>1, <1>2, <1>8 DEF LimbsOK
<1>10. RowsOK'
  <2>1. j + 1 \in 1..Limbs
    BY <1>3, <1>4 DEF Index
  <2> QED BY <1>2, <1>4, <1>6, <1>8, <2>1 DEF RowsOK
<1> QED BY <1>2, <1>9, <1>10 DEF LimbsInv, FirstPassOK, StagesOK, CorrectOK, ResultOK

\* The end of a row.
LEMMA RowEndKeeps == LimbsInv /\ RowEnd => LimbsInv'
<1> SUFFICES ASSUME LimbsInv, RowEnd PROVE LimbsInv'
  OBVIOUS
<1>1. LimbsOK /\ RowsOK
  BY DEF LimbsInv
<1>2. /\ pc = "inner" /\ j = Limbs /\ pc' = "row" /\ i' = i + 1 /\ op' = op /\ a' = a /\ b' = b
      /\ f' = f /\ g' = g
      /\ d' = [d EXCEPT ![Limbs - 1] = Low(Word(dh + cc))] /\ dh' = Carry(Word(dh + cc))
  BY DEF RowEnd
<1>3. /\ a \in LimbArrays /\ b \in LimbArrays /\ d \in LimbArrays /\ Limbs \in Nat
      /\ B \in Nat /\ B >= 2 /\ g \in 0..(B - 1) /\ dh = 0 /\ Value(b, Limbs) \in Scalars
  BY <1>1, Base, ExponentTypes DEF LimbsOK
<1>4. /\ op = "mmul" /\ i \in Index /\ cc \in 0..(2 * B)
      /\ RowOK(RowBefore(d, cc, a[i], b, g, Limbs), a, b, i)
  BY <1>1, <1>2 DEF RowsOK
<1>5. dh + cc = cc
  BY <1>3, <1>4
<1>6. d' \in LimbArrays /\ dh' = 0 /\ RowOK(Value(d', Limbs), a, b, i + 1)
  <2>1. /\ [d EXCEPT ![Limbs - 1] = Low(Word(cc))] \in LimbArrays /\ Carry(Word(cc)) = 0
        /\ RowOK(Value([d EXCEPT ![Limbs - 1] = Low(Word(cc))], Limbs), a, b, i + 1)
    BY <1>3, <1>4, RowEnds
  <2> QED BY <1>2, <1>5, <2>1
<1>7. LimbsOK'
  BY <1>1, <1>2, <1>6 DEF LimbsOK
<1>8. RowsOK'
  <2>1. i + 1 \in 0..Limbs
    BY <1>3, <1>4 DEF Index
  <2> QED BY <1>2, <1>4, <1>6, <2>1 DEF RowsOK
<1> QED BY <1>2, <1>7, <1>8 DEF LimbsInv, FirstPassOK, StagesOK, CorrectOK, ResultOK

\* After the last row the result is that of ScalarMmul.
LEMMA RowsEndKeeps == LimbsInv /\ RowsEnd => LimbsInv'
<1> SUFFICES ASSUME LimbsInv, RowsEnd PROVE LimbsInv'
  OBVIOUS
<1>1. LimbsOK /\ RowsOK
  BY DEF LimbsInv
<1>2. /\ pc = "row" /\ i = Limbs /\ pc' = "done" /\ op' = op /\ a' = a /\ b' = b /\ d' = d
      /\ dh' = dh /\ f' = f /\ g' = g
  BY DEF RowsEnd
<1>3. LimbsOK'
  BY <1>1, <1>2 DEF LimbsOK
<1>4. /\ a \in LimbArrays /\ b \in LimbArrays /\ d \in LimbArrays /\ op = "mmul"
      /\ RowOK(Value(d, Limbs), a, b, Limbs)
  BY <1>1, <1>2 DEF LimbsOK, RowsOK
<1>5. Value(d, Limbs) = ScalarMmul(Value(a, Limbs), Value(b, Limbs))
  <2>1. Value(d, Limbs) \in Int
    BY <1>4, ValueType, ExponentTypes
  <2> QED BY <1>4, <2>1, RowsAre
<1>6. MatchesArithmetic'
  BY <1>2, <1>4, <1>5 DEF MatchesArithmetic, Computed
<1> QED BY <1>2, <1>3, <1>6 DEF LimbsInv, FirstPassOK, StagesOK, CorrectOK, RowsOK, ResultOK

LEMMA LimbsStep == LimbsInv /\ [LimbsNext]_limbVars => LimbsInv'
<1> SUFFICES ASSUME LimbsInv, [LimbsNext]_limbVars PROVE LimbsInv'
  OBVIOUS
<1>1. CASE UNCHANGED limbVars
  BY <1>1 DEF limbVars, LimbsInv, LimbsOK, FirstPassOK, StagesOK, Direction, CorrectOK, RowsOK, ResultOK,
              MatchesArithmetic, Computed
<1>2. CASE Sum \/ Difference \/ Reduce
  BY <1>2, PassStepKeeps
<1>3. CASE FirstPassEnd
  BY <1>3, FirstPassEndKeeps
<1>4. CASE Mask
  BY <1>4, MaskKeeps
<1>5. CASE Correct
  BY <1>5, CorrectKeeps
<1>6. CASE CorrectEnd
  BY <1>6, CorrectEndKeeps
<1>7. CASE CorrectionsEnd
  BY <1>7, CorrectionsEndKeeps
<1>8. CASE Select
  BY <1>8, SelectKeeps
<1>9. CASE RowStart
  BY <1>9, RowStartKeeps
<1>10. CASE Inner
  BY <1>10, InnerKeeps
<1>11. CASE RowEnd
  BY <1>11, RowEndKeeps
<1>12. CASE RowsEnd
  BY <1>12, RowsEndKeeps
<1> QED BY <1>1, <1>2, <1>3, <1>4, <1>5, <1>6, <1>7, <1>8, <1>9, <1>10, <1>11, <1>12 DEF LimbsNext

LEMMA LimbsInvariance == LimbsSpec => []LimbsInv
<1> QED BY LimbsInitially, LimbsStep, PTL DEF LimbsSpec

-----------------------------------------------------------------------------
(* What the functions guarantee. *)

\* No carry is lost and no word overflows: "No possible carry at this point (cc = 0)" after
\* an addition, a carry of at most 2^16 inside a row, and "dh = 0" after the last one.
THEOREM CarriesAlwaysBounded == LimbsSpec => []CarriesBounded
<1>1. LimbsInv => CarriesBounded
  <2> SUFFICES ASSUME LimbsInv PROVE CarriesBounded
    OBVIOUS
  <2>1. d \in [Index -> 0..(B - 1)] /\ f \in 0..(B - 1) /\ g \in 0..(B - 1) /\ dh = 0
    BY DEF LimbsInv, LimbsOK, LimbArrays
  <2>2. pc = "mask" /\ op = "add" /\ j = 0 => cc = 0
    BY DEF LimbsInv, StagesOK
  <2>3. pc = "inner" => cc <= 2 * B
    BY Base DEF LimbsInv, RowsOK
  <2> QED BY <2>1, <2>2, <2>3 DEF CarriesBounded
<1> QED BY <1>1, LimbsInvariance, PTL

\* At every limb of a first pass the limbs done and the carry or borrow are exactly the
\* sum or the difference of the limbs read, although a word may have wrapped.
THEOREM PassesAlwaysExact == LimbsSpec => []PassesExact
<1>1. LimbsInv => PassesExact
  <2> SUFFICES ASSUME LimbsInv PROVE PassesExact
    OBVIOUS
  <2>1. ASSUME NEW x \in LimbArrays, NEW n \in 0..Limbs
        PROVE  Value(x, n) \in Int /\ B^n \in Int
    BY <2>1, ValueType, Powers
  <2>2. a \in LimbArrays /\ b \in LimbArrays /\ d \in LimbArrays /\ order \in LimbArrays
    BY Sizes DEF LimbsInv, LimbsOK
  <2>3. ASSUME pc = "sum" PROVE Value(d, i) + cc * B^i = Value(a, i) + Value(b, i)
    <3>1. i \in 0..Limbs /\ cc \in {0, 1} /\ PassOK(d, a, 1 * cc, 1, b, i)
      BY <2>3 DEF LimbsInv, FirstPassOK
    <3> DEFINE v == Value(b, i)
    <3>2. v \in Int /\ 1 * v = v /\ 1 * cc = cc
      BY <2>1, <2>2, <3>1
    <3>3. Value(d, i) + (1 * cc) * B^i = Value(a, i) + 1 * v
      BY <3>1 DEF PassOK
    <3> HIDE DEF v
    <3>4. Value(d, i) + cc * B^i = Value(a, i) + v
      BY <3>2, <3>3
    <3> QED BY <3>4 DEF v
  <2>4. ASSUME NEW y \in LimbArrays, i \in 0..Limbs, cc \in {0, 1}, PassOK(d, a, -cc, -1, y, i)
        PROVE  Value(d, i) - cc * B^i = Value(a, i) - Value(y, i)
    <3> DEFINE v == Value(y, i)  p == B^i  u == Value(d, i)  w == Value(a, i)
    <3>1. v \in Int /\ p \in Int /\ u \in Int /\ w \in Int
      BY <2>1, <2>2, <2>4
    <3>2. u + (-cc) * p = w + (-1) * v
      BY <2>4 DEF PassOK
    <3> HIDE DEF v, p, u, w
    <3>3. (-cc) * p = -(cc * p) /\ (-1) * v = -v /\ cc * p \in Int
      BY <2>4, <3>1
    <3>4. u - cc * p = w - v
      BY <3>1, <3>2, <3>3
    <3> QED BY <3>4 DEF v, p, u, w
  <2>5. ASSUME pc = "difference" PROVE Value(d, i) - cc * B^i = Value(a, i) - Value(b, i)
    <3>1. i \in 0..Limbs /\ cc \in {0, 1} /\ PassOK(d, a, (-1) * cc, -1, b, i)
      BY <2>5 DEF LimbsInv, FirstPassOK
    <3>2. (-1) * cc = -cc
      BY <3>1
    <3>3. PassOK(d, a, -cc, -1, b, i)
      BY <3>1, <3>2
    <3> QED BY <2>2, <2>4, <3>1, <3>3
  <2>6. ASSUME pc = "reduce" PROVE Value(d, i) - cc * B^i = Value(a, i) - Value(order, i)
    <3>1. i \in 0..Limbs /\ cc \in {0, 1} /\ PassOK(d, a, -cc, -1, order, i)
      BY <2>6 DEF LimbsInv, FirstPassOK
    <3> QED BY <2>2, <2>4, <3>1
  <2> QED BY <2>3, <2>5, <2>6 DEF PassesExact
<1> QED BY <1>1, LimbsInvariance, PTL

\* After every row of scalar_mmul what is accumulated is congruent to the product with the
\* rows used, up to the shifts, and below the sum of the second operand and the order.
THEOREM RowsAlwaysCongruent == LimbsSpec => []RowsCongruent
<1>1. LimbsInv => RowsCongruent
  <2> SUFFICES ASSUME LimbsInv, pc = "row" PROVE RowsCongruent
    BY DEF RowsCongruent
  <2>1. /\ a \in LimbArrays /\ b \in LimbArrays /\ d \in LimbArrays /\ dh = 0
        /\ i \in 0..Limbs /\ RowOK(Value(d, Limbs), a, b, i)
    BY DEF LimbsInv, LimbsOK, RowsOK
  <2> DEFINE u == Value(d, Limbs)  acc == u + dh * B^Limbs  p == B^i  Y == Value(b, Limbs)
             v == Value(a, i)
  <2>2. /\ u \in Int /\ p \in Int /\ Y \in Int /\ v \in Int /\ N \in Nat /\ N > 0
        /\ B^Limbs \in Int
    <3>1. Limbs \in 0..Limbs
      BY ExponentTypes
    <3>2. u \in Nat /\ Y \in Nat /\ v \in Nat
      BY <2>1, <3>1, ValueType
    <3>3. p \in Nat /\ B^Limbs \in Nat
      BY <2>1, <3>1, Powers
    <3> HIDE DEF u, p, Y, v
    <3> QED BY <3>2, <3>3, Sizes
  <2>3. acc = u
    BY <2>1, <2>2
  <2>4. u < Y + N
    <3>1. u \in Int
      BY <2>2
    <3> QED BY <2>1, <3>1, RowSmall
  <2>5. PICK Q \in 0..(p - 1) : u * p = v * Y + Q * N
    BY <2>1 DEF RowOK
  <2> HIDE DEF u, acc, p, Y, v
  <2>6. acc * p - v * Y = N * Q + 0 /\ Q \in Int /\ 0 \in 0..(N - 1) /\ acc * p - v * Y \in Int
    <3> DEFINE e1 == u * p  e2 == v * Y  e3 == Q * N
    <3>1. e1 \in Int /\ e2 \in Int /\ e3 \in Int /\ e1 = e2 + e3 /\ N * Q = e3
      BY <2>2, <2>5
    <3> HIDE DEF e1, e2, e3
    <3>2. e1 - e2 = N * Q + 0 /\ e1 - e2 \in Int
      BY <3>1
    <3> QED BY <2>2, <2>3, <2>5, <3>2 DEF e1, e2
  <2> DEFINE e == acc * p - v * Y
  <2>7. e % N = 0
    <3>1. e = N * Q + 0 /\ e \in Int
      BY <2>6
    <3> HIDE DEF e
    <3> QED BY <2>2, <2>6, <3>1, DivisionUnique
  <2>8. acc <= Y + N
    BY <2>2, <2>3, <2>4
  <2> QED BY <2>7, <2>8 DEF RowsCongruent, acc, u, p, Y, v
<1> QED BY <1>1, LimbsInvariance, PTL

\* scalar_add, scalar_sub, scalar_normalize and scalar_mmul return exactly the integers
\* that ScalarArith gives for them: what is proved of those operators holds of the loops.
THEOREM LoopsMatchArithmetic == LimbsSpec => []MatchesArithmetic
<1>1. LimbsInv => MatchesArithmetic
  BY DEF LimbsInv, ResultOK, MatchesArithmetic
<1> QED BY <1>1, LimbsInvariance, PTL
=============================================================================
