--------------------------- MODULE VerifyProduct ---------------------------
(***************************************************************************)
(* curve9767_point_verify_mul_mulgen_add_vartime and the product it is     *)
(* made of: a half-size multiple c0 = c1 * s1 from the lattice, then       *)
(* c0*Q1 - c1*Q2 + (c1*s2)*G in one loop over four multipliers, whose      *)
(* digits are formed on the fly and whose doublings are put off until a    *)
(* point must be added.                                                    *)
(*                                                                         *)
(* The multipliers are numbered as their accumulators: 0 is |c0|, 1 is     *)
(* |c1|, 2 and 3 are the low and high halves of c2.                        *)
(***************************************************************************)
EXTENDS Naf, CurveGroup

CONSTANTS Len,          \* bytes of a half: 16
          W,            \* window of c0 and c1: 4; 5 in the AVX2 code
          WG,           \* window of c2: 5; 7 in the AVX2 code
          Scalars1, Scalars2, \* the scalars to verify with
          Logs,         \* the points Q1, as multiples of G
          Errors        \* how far Q2 is from s1*Q1 + s2*G

Half == ByteBits * Len

\* c2 < N leaves some zero bits on top, the lattice has room to succeed, and N
\* is above any half.
ASSUME VerifyAssumption ==
    /\ Len \in Nat \ {0} /\ W \in 3..ByteBits /\ WG \in 3..ByteBits
    /\ 2^(Half - 1) <= N /\ N <= 2^(2 * Half - 4)
    /\ Scalars1 \subseteq Nat /\ Scalars2 \subseteq Nat
    /\ Logs \subseteq 0..(N - 1) /\ Errors \subseteq 0..(N - 1)

ASSUME VerifyPowerLaws == PowersUpTo(2 * Half + 2 * ByteBits)

VARIABLES build,                \* "ref" (the same text in ops_arm.c) or "avx2"
          q1, s1, s2, q2,       \* the arguments
          mult, neg0, neg1,     \* |c0|, |c1|, c2, and the signs of c0 and c1
          rcbf, rc, window,     \* for each multiplier; rcbf or rc, as built
          acc,                  \* ref: its bytes from the current one up
          i, dbl, q3,
          pc, verdict,
          sums                  \* history: the value of the digits used so far

args == <<build, q1, s1, s2, q2>>
prepared == <<mult, neg0, neg1, rcbf, rc, window>>
vars == <<args, prepared, acc, i, dbl, q3, pc, verdict, sums>>

Lattice == INSTANCE LatticePromise
    WITH HalfBound <- 2^(Half - 1), b <- s1, answer <- mult, delivered <- pc # "reduce"

Lanes == 0..3
Width(k) == IF k \in {0, 1} THEN W ELSE WG
Lane(k) == CASE k = 0 -> mult[1] [] k = 1 -> mult[2]
             [] k = 2 -> mult[3] % 2^Half [] k = 3 -> mult[3] \div 2^Half

\* A 128-bit word read as a signed integer: its sign, its absolute value.
IsNegative(word) == word >= 2^(Half - 1)
AbsI128(word) == IF IsNegative(word) THEN 2^Half - word ELSE word

AnyPoint(log) == IF log = 0 THEN [neutral : {TRUE}, at : {1, Junk}] ELSE {Multiple(log)}

\* Arguments, with Q2 on or off the equation.  The rest is not yet assigned.
Init ==
    /\ build \in {"ref", "avx2"}
    /\ s1 \in Scalars1 /\ s2 \in Scalars2
    /\ \E log \in Logs, error \in Errors :
         /\ q1 \in AnyPoint(log)
         /\ q2 \in AnyPoint((s1 * log + s2 + error) % N)
    /\ mult = <<0, 0, 0>> /\ neg0 = FALSE /\ neg1 = FALSE
    /\ rcbf = <<>> /\ rc = <<>> /\ window = <<>>
    /\ acc = [k \in Lanes |-> 0] /\ i = Half /\ dbl = 0 /\ q3 = Infinity
    /\ pc = "reduce" /\ verdict = "none"
    /\ sums = [k \in Lanes |-> 0]

\* The integers in the residue class of x that fit the output of the reduction.
HalvesCloseTo(x) == { h \in {x % N, (x % N) - N} : h \in Lattice!Halves }

\* a plausible bug: the sign of c1 is forgotten in c1*s2
ReduceSignLost ==
    /\ pc = "reduce"
    /\ \E c1 \in Lattice!Halves \ {0} : \E c0 \in HalvesCloseTo(c1 * s1) :
         /\ neg0' = IsNegative(c0 % 2^Half) /\ neg1' = IsNegative(c1 % 2^Half)
         /\ mult' = <<AbsI128(c0 % 2^Half), AbsI128(c1 % 2^Half),
                      (AbsI128(c1 % 2^Half) * s2) % N>>
    /\ pc' = "prepare"
    /\ UNCHANGED <<args, rcbf, rc, window, acc, i, dbl, q3, verdict, sums>>

\* Any answer the reduction may give.  c1*s2 is a scalar operation: its encoding
\* is the residue.
Reduce ==
    /\ pc = "reduce"
    /\ \E c1 \in Lattice!Halves \ {0} : \E c0 \in HalvesCloseTo(c1 * s1) :
         LET word0 == c0 % 2^Half
             word1 == c1 % 2^Half
             ss == IF IsNegative(word1) THEN -AbsI128(word1) ELSE AbsI128(word1)
         IN  /\ neg0' = IsNegative(word0) /\ neg1' = IsNegative(word1)
             /\ mult' = <<AbsI128(word0), AbsI128(word1), (ss * s2) % N>>
    /\ pc' = "prepare"
    /\ UNCHANGED <<args, rcbf, rc, window, acc, i, dbl, q3, verdict, sums>>

-----------------------------------------------------------------------------
(* curve9767_inner_mul2_mulgen_add_vartime                                 *)

Oriented(P, negative) == IF negative THEN PointNeg(P) ELSE P

\* P, 3P, 5P...
OddMultiples(P, w) ==
    LET twice == PointAdd(P, P)
        entry[k \in 0..(2^(w - 2) - 1)] ==
            IF k = 0 THEN P ELSE PointAdd(entry[k - 1], twice)
    IN  entry

\* A precomputed table: window_odd5_G or window_odd5_G128.
OddMultiplesOfG(shift) == [k \in 0..(2^(WG - 2) - 1) |-> Multiple((2 * k + 1) * 2^shift)]

\* The same tables, named as in the AVX2 code, where digits have 7 bits.
window_odd7_G == OddMultiplesOfG(0)
window_odd7_G128 == OddMultiplesOfG(Half)

\* acc2 starts with one byte of the high half.
FirstBytes(k) ==
    IF k = 2 THEN Byte(mult[3], Len - 1) + Byte(mult[3], Len) * 2^ByteBits
             ELSE Byte(Lane(k), Len - 1)

\* The halves of what the recoding of c2 as a whole gives: a carry may leave
\* its low half.
Positions(k) ==
    LET ones2 == NafPositions(mult[3], 2 * Len, WG)
    IN  CASE k \in {0, 1} -> NafPositions(Lane(k), Len, W)
          [] k = 2 -> ones2 \cap 0..(Half - 1)
          [] k = 3 -> { p - Half : p \in ones2 \ 0..(Half - 1) }

\* a plausible bug: each half of c2 is recoded by itself
DigitsOfLaneApart(k) == NafDigits(Lane(k), Len, Width(k))

DigitsOfLane(k) ==
    LET rc2 == NafDigits(mult[3], 2 * Len, WG)
    IN  CASE k \in {0, 1} -> NafDigits(Lane(k), Len, W)
          [] k = 2 -> [p \in 0..(Half - 1) |-> rc2[p]]
          [] k = 3 -> [p \in 0..(Half - 1) |-> rc2[p + Half]]

Prepare ==
    /\ pc = "prepare"
    /\ IF build = "avx2"
       THEN rc' = [k \in Lanes |-> DigitsOfLane(k)] /\ UNCHANGED <<rcbf, acc>>
       ELSE /\ rcbf' = [k \in Lanes |-> Positions(k)]
            /\ acc' = [k \in Lanes |-> FirstBytes(k)]
            /\ UNCHANGED rc
    /\ window' = [k \in Lanes |->
                    CASE k = 0 -> OddMultiples(Oriented(q1, neg0), W)
                      [] k = 1 -> OddMultiples(Oriented(q2, ~neg1), W)
                      [] k = 2 -> window_odd7_G
                      [] k = 3 -> window_odd7_G128]
    /\ q3' = Infinity /\ dbl' = 0 /\ i' = Half - 1
    /\ pc' = "loop"
    /\ UNCHANGED <<args, mult, neg0, neg1, verdict, sums>>

\* the digit m0..m3 of this turn; 0 for none
Digit(k) ==
    CASE build = "avx2" -> rc[k][i]
      [] build = "ref" /\ i \in rcbf[k] ->
            Signed(OddDigit(acc[k], i % ByteBits, Width(k)), Width(k))
      [] build = "ref" /\ i \notin rcbf[k] -> 0

Term(k, m) == IF m > 0 THEN window[k][m \div 2] ELSE PointNeg(window[k][(-m) \div 2])

AddDigit(P, k) == IF Digit(k) = 0 THEN P ELSE PointAdd(P, Term(k, Digit(k)))
AddDigits(P) == AddDigit(AddDigit(AddDigit(AddDigit(P, 0), 1), 2), 3)

\* A byte is shifted in below, when the current one is used up; words of 4 bytes.
NextBytes(k) ==
    IF i % ByteBits = 0 /\ i # 0
    THEN (acc[k] * 2^ByteBits + Byte(Lane(k), (i - 1) \div ByteBits)) % 2^(4 * ByteBits)
    ELSE acc[k]

Doubled(P, k) == IF P.neutral THEN P ELSE PointMul2k(P, k)

Advance ==
    /\ pc = "loop" /\ i >= 0
    /\ acc' = IF build = "ref" THEN [k \in Lanes |-> NextBytes(k)] ELSE acc
    /\ sums' = [k \in Lanes |-> 2 * sums[k] + Digit(k)]
    /\ i' = i - 1
    /\ UNCHANGED <<args, prepared, pc, verdict>>

\* no digit: the doubling is put off
Skip ==
    /\ Advance
    /\ \A k \in Lanes : Digit(k) = 0
    /\ dbl' = dbl + 1
    /\ UNCHANGED q3

\* a plausible bug: dbl is not reset
AccumulateDoublesAgain ==
    /\ Advance
    /\ \E k \in Lanes : Digit(k) # 0
    /\ q3' = AddDigits(Doubled(q3, dbl + 1))
    /\ dbl' = dbl + 1

Accumulate ==
    /\ Advance
    /\ \E k \in Lanes : Digit(k) # 0
    /\ q3' = AddDigits(Doubled(q3, dbl + 1))
    /\ dbl' = 0

Finish ==
    /\ pc = "loop" /\ i < 0
    /\ q3' = IF dbl > 0 THEN Doubled(q3, dbl) ELSE q3
    /\ dbl' = 0
    /\ verdict' = IF q3'.neutral THEN "equal" ELSE "different"
    /\ pc' = "done"
    /\ UNCHANGED <<args, prepared, acc, i, sums>>

Next == Reduce \/ Prepare \/ Skip \/ Accumulate \/ Finish

-----------------------------------------------------------------------------
\* The digits used so far leave a remainder that the positions below can still
\* express (less than half a window), and nothing is left at the end.  (The digits
\* are formed without carries, from accumulators that slide along the bytes
\* independently of the bit fields; those of c2 straddle its two halves.)
Remains(c, used, w, top) ==
    LET rest == c - 2^(i + 1) * used
    IN  /\ -top * 2^(i + w - 1) < rest /\ rest < top * 2^(i + w - 1)
        /\ i < 0 => rest = 0
DigitsConverge ==
    pc \in {"loop", "done"} =>
        /\ Remains(mult[1], sums[0], W, 1)
        /\ Remains(mult[2], sums[1], W, 1)
        /\ Remains(mult[3], sums[2] + 2^Half * sums[3], WG, 2^Half + 1)

\* The accumulator, doubled as often as is due, is what the digits used so far
\* say: no doubling is lost or done twice, also when the sum passes through the
\* point at infinity, and no window entry is wrong, also for points at infinity.
Base(k) == CASE k = 0 -> Log(Oriented(q1, neg0)) [] k = 1 -> Log(Oriented(q2, ~neg1))
             [] k = 2 -> 1 [] k = 3 -> 2^Half
Horner ==
    pc \in {"loop", "done"} =>
        (Log(q3) * 2^dbl - (sums[0] * Base(0) + sums[1] * Base(1)
                             + sums[2] * Base(2) + sums[3] * Base(3))) % N = 0

\* Verification accepts when the equation holds, and only then, whatever half-size
\* multiple the reduction chose.  ("For a well-chosen non-zero value".)
Promise == INSTANCE VerifyPromise WITH q1 <- Log(q1), q2 <- Log(q2)
Decides == Promise!Spec
=============================================================================
