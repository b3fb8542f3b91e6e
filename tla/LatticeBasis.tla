---------------------------- MODULE LatticeBasis ----------------------------
(***************************************************************************)
(* What the three implementations of curve9767_inner_reduce_basis_vartime  *)
(* share: two's complement words, the sizes they chose, the vectors they   *)
(* start from and the algebra of two-dimensional vectors.                  *)
(*                                                                         *)
(* A limb array of w bits stands for an integer in -2^(w-1)..2^(w-1) - 1;  *)
(* every addition is silently truncated to w bits, and a shift keeps the   *)
(* low w bits.                                                             *)
(***************************************************************************)
EXTENDS Integers

CONSTANT MaxBits        \* no power of two above 2^MaxBits is ever formed

\* The laws of powers of two that the proofs use, up to the bound.
ASSUME PowerLaws ==
    /\ MaxBits \in Nat \ {0}
    /\ 2^0 = 1 /\ 2^1 = 2
    /\ \A i \in 0..MaxBits : 2^i \in Nat \ {0}
    /\ \A i, j \in 0..MaxBits : i + j <= MaxBits => 2^(i + j) = 2^i * 2^j

\* x kept on w bits: the signed value of its low w bits
Trunc(x, w) ==
    LET low == x % 2^w IN IF low < 2^(w - 1) THEN low ELSE low - 2^w

Fits(x, w) == -(2^(w - 1)) <= x /\ x < 2^(w - 1)

\* the low w bits of x shifted left by s; a shift of w or more leaves nothing
Shl(x, s, w) == IF s >= w THEN 0 ELSE (x % 2^(w - s)) * 2^s

\* a + sign * (x << s), on w bits
ShiftAcc(sign, a, x, s, w) == Trunc(a + sign * Shl(x, s, w), w)

\* unsigned comparison of two w-bit registers
Ult(x, y, w) == (x % 2^w) < (y % 2^w)

\* x with its bits flipped when negative
Magnitude(x) == IF x < 0 THEN -x - 1 ELSE x

\* the bits of x without its sign bit; 0 and -1 have none
BitLength(x) ==
    CHOOSE k \in 0..MaxBits :
        Magnitude(x) < 2^k /\ (k = 0 \/ 2^(k - 1) <= Magnitude(x))

\* a plausible bug: one bit too many
AlignShiftPlusOne(x, y) ==
    LET d == BitLength(x) - BitLength(y) IN IF d < 0 THEN 1 ELSE d + 1

\* the shift that lines up y under x, never negative
AlignShift(x, y) ==
    LET d == BitLength(x) - BitLength(y) IN IF d < 0 THEN 0 ELSE d

\* the integer that is x plus or minus y shifted, before any truncation
ExactAcc(sign, x, y, s) == x + sign * 2^s * y

-----------------------------------------------------------------------------
CONSTANTS N,            \* the curve order
          Target,       \* the loop ends when nv has at most this many bits
          Half,         \* bits of an output buffer (128)
          Small,        \* bits of a small register (150, or 128)
          Large         \* bits of a large register (510, or 512)

\* What the sizes chosen in the code provide: Target bits hold 2N, so that a
\* reduced vector is short enough, and less than N^2; an output buffer holds the
\* square root of 2^Target with its sign; a large register holds 2 * N^2 with
\* its sign.
ASSUME SizeAssumption ==
    /\ N \in Nat /\ N > 2
    /\ Target \in Nat /\ Half \in Nat /\ Small \in Nat /\ Large \in Nat
    /\ 1 < Half /\ Half <= Small /\ Small <= Large /\ Large <= MaxBits
    /\ Target + 2 <= 2 * Half /\ 2 * Half <= MaxBits
    /\ Target < Large /\ 2 * (Large - Target) <= MaxBits
    /\ 2 * N <= 2^Target /\ 2^Target <= N * N
    /\ 2 * (N * N) <= 2^(Large - 1)

Scalars == { x \in 0..(2 * N - 1) : 100 * x < 127 * N }

\* scalar_normalize: the input is below 2N, one subtraction is enough
Normalize(x) == IF x < N THEN x ELSE x - N

Dot(x, y) == x[1] * y[1] + x[2] * y[2]
Det(x, y) == x[1] * y[2] - x[2] * y[1]

\* a plausible bug: the conversion forgets that a small register is short
ToSmallUntruncated(x) == x

ToSmall(x) == Trunc(x, Small)

\* plausible bugs: only one coordinate is updated; sp is shifted by s, not s + 1
CombineSmallFirstOnly(sign, x, y, s) == <<ShiftAcc(sign, x[1], y[1], s, Small), x[2]>>
CombineNormOneShift(sign, nu, nv, sp, s, w) ==
    ShiftAcc(sign, ShiftAcc(1, nu, nv, 2 * s, w), sp, s, w)

\* u <- u + sign * (v << s), on the small registers and without truncation
CombineSmall(sign, x, y, s) ==
    <<ShiftAcc(sign, x[1], y[1], s, Small), ShiftAcc(sign, x[2], y[2], s, Small)>>
CombineExact(sign, x, y, s) ==
    <<ExactAcc(sign, x[1], y[1], s), ExactAcc(sign, x[2], y[2], s)>>

\* nu + (nv << 2s) + sign * (sp << (s + 1)) and sp + sign * (nv << s) on w bits
CombineNorm(sign, nu, nv, sp, s, w) ==
    ShiftAcc(sign, ShiftAcc(1, nu, nv, 2 * s, w), sp, s + 1, w)
CombineDot(sign, nv, sp, s, w) == ShiftAcc(sign, sp, nv, s, w)

ToHalf(x) == <<Trunc(x[1], Half), Trunc(x[2], Half)>>

Signed(w) == -(2^(w - 1))..(2^(w - 1) - 1)
Pairs(S) == S \X S
=============================================================================
