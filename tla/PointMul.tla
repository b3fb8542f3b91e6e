------------------------------ MODULE PointMul ------------------------------
(***************************************************************************)
(* curve9767_point_mul, _mulgen and _mul_mulgen_add: the scalar is shifted *)
(* by a constant so that its digits become signed, and a window of         *)
(* coordinates without flags is searched for each digit.                   *)
(*                                                                         *)
(* The AVX2 functions have larger digits, sum in local variables and write *)
(* Q3 last.  There, point_mul keeps the sum in Jacobian coordinates, with  *)
(* an addition that is wrong when it should have been a doubling, or when  *)
(* the operands are opposite; only its last addition is a complete one.    *)
(***************************************************************************)
EXTENDS CurveGroup

CONSTANTS W,            \* bits of a digit: 4; 5 in the AVX2 code
          Lane,         \* digits of a quarter of the scalar: 16; 13 in the AVX2 code
          Scalars,      \* the scalars to multiply by, normalised or not
          Logs          \* the points Q1, as multiples of G

\* 63 digits (51 in the AVX2 code): the topmost of the four quarters is one digit short.
Digits == 4 * Lane - 1

\* The order takes all digits, and no window entry is at infinity.
ASSUME WindowAssumption ==
    /\ W \in Nat \ {0} /\ Lane \in Nat \ {0}
    /\ 2^W < N /\ 2^(W * (Digits - 1)) < N /\ N <= 2^(W * Digits)
    /\ Scalars \subseteq Nat /\ Logs \subseteq 0..(N - 1)

\* The laws of powers that the proofs use, up to four quarters.
Exponents == 0..(W * (4 * Lane))
ASSUME WindowPowerLaws ==
    /\ 2^0 = 1 /\ 2^1 = 2
    /\ \A k \in Exponents : 2^k \in Nat \ {0}
    /\ \A k, l \in Exponents : k + l \in Exponents => 2^(k + l) = 2^k * 2^l

VARIABLES build,        \* "ref" (the same text in ops_arm.c) or "avx2"
          op, s1, s2,   \* the call and its scalars
          alias,        \* whether Q3 is the same structure as Q1
          q1, q3,
          local,        \* avx2: the sum so far (U, or rz and the Jacobian coordinates)
          sb1, sb2,     \* the shifted scalars, encoded
          window, qz,   \* the multiples of Q1; whether Q1 is infinity
          i,            \* the turn; Digits or Lane after the last
          pc,
          point         \* history: the point Q1 at the call

vars == <<build, op, s1, s2, alias, q1, q3, local, sb1, sb2, window, qz, i, pc, point>>

\* scalar_win4_off: 2^(W-1) in every digit
Offset == ((2^(W * Digits) - 1) \div (2^W - 1)) * 2^(W - 1)

\* added to the scalar; encoding normalises the sum
Shifted(s) == (Offset + s) % N

DigitOf(sb, j) == (sb \div 2^(W * j)) % 2^W

Entries == 0..(2^(W - 1) - 1)

Init ==
    /\ build \in {"ref", "avx2"}
    /\ op \in {"mul", "mulgen", "mul_mulgen_add"}
    /\ s1 \in Scalars /\ s2 \in Scalars
    /\ op = "mul" => s2 = 0
    /\ op = "mulgen" => s1 = 0
    /\ alias \in (IF op = "mulgen" THEN {FALSE} ELSE BOOLEAN)
    /\ \E log \in Logs :
         q1 \in IF log = 0 THEN [neutral : {TRUE}, at : {1, Junk}] ELSE {Multiple(log)}
    /\ point = q1 /\ q3 = (IF alias THEN q1 ELSE Infinity)
    /\ local = Infinity
    /\ sb1 = 0 /\ sb2 = 0 /\ window = <<>> /\ qz = FALSE /\ i = 0
    /\ pc = "start"

\* Q1, 2*Q1... as successive sums; only coordinates are kept.
WindowOf(P) ==
    LET multiple[k \in Entries] == IF k = 0 THEN P ELSE PointAdd(multiple[k - 1], P)
    IN  [k \in Entries |-> multiple[k].at]

\* A precomputed table: curve9767_inner_window_G, _G64, _G128 or _G192.
WindowOfG(quarter) == [k \in Entries |-> Multiple((k + 1) * 2^(W * Lane * quarter)).at]

\* The same tables, named as in the AVX2 code, where digits have 5 bits.
window5_G == WindowOfG(0)
window5_G65 == WindowOfG(1)
window5_G130 == WindowOfG(2)
window5_G195 == WindowOfG(3)

\* (e - 8) times the base of the window, with the flag of a base that is finite
DoLookup(win, e) ==
    LET middle == 2^(W - 1)
        index == CASE e = middle -> 0
                   [] e > middle -> e - (middle + 1)
                   [] e < middle -> middle - 1 - e
        T == [neutral |-> e = middle, at |-> win[index]]
    IN  IF e <= middle THEN PointNeg(T) ELSE T

\* a plausible bug: the flag of Q1 is forgotten
LookupQ1NoFlag(e) == DoLookup(window, e)

\* T.neutral |= qz
LookupQ1(e) == LET T == DoLookup(window, e) IN [T EXCEPT !.neutral = @ \/ qz]

\* Q1 is read before Q3 is written: they may be the same structure.
Start ==
    /\ pc = "start"
    /\ sb1' = Shifted(s1) /\ sb2' = Shifted(s2)
    /\ window' = IF op = "mulgen" THEN <<>> ELSE WindowOf(q1)
    /\ qz' = q1.neutral
    /\ pc' = op
    /\ UNCHANGED <<build, op, s1, s2, alias, q1, q3, local, i, point>>

\* The sum so far, and where it is written.
Sum == IF build = "avx2" THEN local ELSE q3

WriteQ3(P) ==
    /\ q3' = P
    /\ q1' = IF alias THEN P ELSE q1

Store(P) ==
    /\ IF build = "avx2" THEN local' = P /\ UNCHANGED <<q1, q3>>
                         ELSE WriteQ3(P) /\ UNCHANGED local
    /\ i' = i + 1
    /\ UNCHANGED <<build, op, s1, s2, alias, sb1, sb2, window, qz, pc, point>>

\* In the first turn Q3 "is (conceptually) 0".
Accumulated ==
    LET T == LookupQ1(DigitOf(sb1, Digits - 1 - i))
    IN  IF i = 0 THEN T ELSE PointAdd(PointMul2k(Sum, W), T)

\* The mixed addition of the 8M+3S formulas: with equal or opposite operands the
\* third coordinate is zero, and conversion to affine coordinates gives junk.
JacobianCoordinates(x, y) == IF x \in {y, N - y} THEN Junk ELSE (x + y) % N

\* The masks md0, md1 and md2 keep the sum or one of the operands, or nothing.
JacobianAdd(P, T) ==
    [neutral |-> P.neutral /\ T.neutral,
     at |-> CASE ~P.neutral /\ ~T.neutral -> JacobianCoordinates(P.at, T.at)
              [] P.neutral /\ ~T.neutral -> T.at
              [] ~P.neutral /\ T.neutral -> P.at
              [] P.neutral /\ T.neutral -> Junk]

\* a plausible bug: the last turn is like the others
JacobianTurnsAll == 1..(Digits - 1)

JacobianTurns == 1..(Digits - 2)

MulTurn ==
    /\ pc = "mul" /\ i < Digits
    /\ ~(build = "avx2" /\ i \in JacobianTurns)
    /\ Store(Accumulated)

JacobianTurn ==
    /\ pc = "mul" /\ build = "avx2" /\ i \in JacobianTurns
    /\ Store(JacobianAdd(PointMul2k(local, W), LookupQ1(DigitOf(sb1, Digits - 1 - i))))

MulMulgenAddTurn ==
    /\ pc = "mul_mulgen_add" /\ i < Digits
    /\ Store(PointAdd(Accumulated, DoLookup(window5_G, DigitOf(sb2, Digits - 1 - i))))

\* one lookup in each quarter
Quarter(k) ==
    LET table == CASE k = 0 -> window5_G [] k = 1 -> window5_G65
                   [] k = 2 -> window5_G130 [] k = 3 -> window5_G195
    IN  DoLookup(table, DigitOf(sb2, Lane * (k + 1) - 1 - i))

\* "the first loop iteration will not make a lookup in the highest window"
MulgenFirst ==
    /\ pc = "mulgen" /\ i = 0
    /\ Store(PointAdd(PointAdd(Quarter(0), Quarter(1)), Quarter(2)))

MulgenTurn ==
    /\ pc = "mulgen" /\ i \in 1..(Lane - 1)
    /\ Store(PointAdd(PointAdd(PointAdd(PointAdd(PointMul2k(Sum, W), Quarter(0)),
                                        Quarter(1)), Quarter(2)), Quarter(3)))

Turns == IF pc = "mulgen" THEN Lane ELSE Digits

Return ==
    /\ pc \notin {"start", "done"} /\ i = Turns
    /\ pc' = "done"
    /\ IF build = "avx2" THEN WriteQ3(local) ELSE UNCHANGED <<q1, q3>>
    /\ UNCHANGED <<build, op, s1, s2, alias, local, sb1, sb2, window, qz, i, point>>

Next == Start \/ MulTurn \/ JacobianTurn \/ MulMulgenAddTurn \/ MulgenFirst \/ MulgenTurn \/ Return

Spec == Init /\ [][Next]_vars

-----------------------------------------------------------------------------
\* The upper digits of a shifted scalar, each less the middle value.
Used(sb, low) == (sb \div 2^(W * low)) - (Offset \div 2^(W * low))
UsedInQuarter(k, low) ==
    LET part(x) == (x \div 2^(W * Lane * k)) % 2^(W * Lane)
    IN  (part(sb2) \div 2^(W * low)) - (part(Offset) \div 2^(W * low))

\* After each turn the sum is what the digits used so far say, in particular
\* when it is the point at infinity, when an addition happens to be a doubling,
\* and when the operand is infinity and its window holds arbitrary coordinates.
SumOfDigits ==
    /\ pc \in {"mul", "mul_mulgen_add"} /\ i > 0 =>
        (Log(Sum) - Log(point) * Used(sb1, Digits - i)
                 - (IF pc = "mul" THEN 0 ELSE Used(sb2, Digits - i))) % N = 0
    /\ pc = "mulgen" /\ i > 0 =>
        (Log(Sum) - UsedInQuarter(0, Lane - i)
                 - UsedInQuarter(1, Lane - i) * 2^(W * Lane)
                 - UsedInQuarter(2, Lane - i) * 2^(W * Lane * 2)
                 - UsedInQuarter(3, Lane - i) * ((2^(W * Lane * 3)) % N)) % N = 0

\* The digits are signed and the scalar was shifted and normalised, Q3 may be Q1:
\* the result is the product all the same.
Promise == INSTANCE ProductPromise
    WITH q1 <- Log(point), result <- IF pc = "done" THEN {Log(q3)} ELSE {}
IsProduct == Promise!Spec
=============================================================================
