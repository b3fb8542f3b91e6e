----------------------------- MODULE ScalarArith -----------------------------
(***************************************************************************)
(* The internal scalar functions of scalar_ref.c, as operators on the      *)
(* integers that the arrays of 17 limbs stand for.  A scalar may exceed    *)
(* the order N: each function has its own bound on what it takes and on    *)
(* what it returns, and nothing checks them at run time.                   *)
(***************************************************************************)
EXTENDS Integers

CONSTANTS N,            \* the curve order
          Top,          \* 2^252: where scalar_add starts to subtract
          R,            \* 2^255: the Montgomery radix (sR)
          Chunk,        \* 2^248: what 31 bytes hold
          NegInv,       \* -1/N modulo R (N0I, for all limbs at once)
          sR2,          \* the square of R modulo N
          D             \* sD

\* The order lies between 2^252 / 1.14 and 2^252 / 1.12, it is odd, and the
\* precomputed constants are what their comments say.  The order, the radix and
\* the constants of scalar_ref.c satisfy all of it.
ASSUME ScalarAssumption ==
    /\ N \in Nat /\ N > 10
    /\ Top \in Nat /\ 112 * N < 100 * Top /\ 100 * Top < 114 * N
    /\ R \in Nat /\ 8 * Top <= R /\ Chunk \in Nat /\ Top = 16 * Chunk
    /\ \E i \in 0..(N - 1) : (R * i) % N = 1
    /\ NegInv \in 0..(R - 1) /\ (N * NegInv + 1) % R = 0
    /\ sR2 \in 0..(N - 1) /\ (sR2 - R * R) % N = 0
    /\ D \in 0..(N - 1) /\ (D - Chunk * R) % N = 0

\* every value below 1.27 * N; the API keeps all its scalars there
Scalars == { x \in 0..(2 * N - 1) : 100 * x < 127 * N }

\* "We now subtract n conditionally on d >= 2^252 (and we do it twice)."
CondSub(x) == IF x >= Top THEN x - N ELSE x

\* a plausible bug: a conditional subtraction is missing
ScalarAddOnce(x, y) == CondSub(x + y)
ScalarAdd(x, y) == CondSub(CondSub(x + y))

CondAdd(x) == IF x < 0 THEN x + N ELSE x

ScalarSub(x, y) == CondAdd(CondAdd(x - y))

Normalize(x) == IF x < N THEN x ELSE x - N
WasNormal(x) == x < N

\* (x * y + k * N) / R, for the k below R that makes the division exact
ScalarMmul(x, y) == (x * y + ((NegInv * (x * y)) % R) * N) \div R

ScalarMul(x, y) == ScalarMmul(ScalarMmul(x, sR2), y)

\* one turn of the loop of decode_reduce: x * 2^248 + chunk
Absorb(x, chunk) == ScalarAdd(ScalarMmul(x, D), chunk)
=============================================================================
