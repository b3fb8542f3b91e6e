------------------------------ MODULE FieldRef ------------------------------
(***************************************************************************)
(* The extension field in ops_ref.c: 19 elements, products of polynomials  *)
(* as three products of halves, one reduction per coefficient.             *)
(***************************************************************************)
EXTENDS MontyWords

Degrees == 0..18

Total(f) == f[0] + f[1] + f[2] + f[3] + f[4] + f[5] + f[6] + f[7] + f[8] + f[9]
            + f[10] + f[11] + f[12] + f[13] + f[14] + f[15] + f[16] + f[17] + f[18]
Sum(S, f(_)) == Total([i \in Degrees |-> IF i \in S THEN f(i) ELSE 0]) % Word

GfAdd(a, b) == [i \in Degrees |-> MpAdd(a[i], b[i])]
GfSub(a, b) == [i \in Degrees |-> MpSub(a[i], b[i])]
GfNeg(a)    == [i \in Degrees |-> MpSub(P, a[i])]
GfCondneg(a, ctl) == [i \in Degrees |-> IF ctl = 1 THEN MpSub(P, a[i]) ELSE a[i]]

\* coefficient i of the product of two polynomials of n coefficients, at offset o
Product(a, b, o, n, i) ==
    Sum({j \in 0..(n - 1) : i - j \in 0..(n - 1)}, LAMBDA j : a[o + j] * b[o + i - j])

\* aL + aH: "t4[9] = a[9]"
Folded(a) == [i \in 0..9 |-> IF i < 9 THEN a[i] + a[i + 10] ELSE a[9]]

\* "c[i] = t1[i] + t3[i-10] - t1[i-10] - t2[i-10] + 2*(t2[i-1] + t3[i+9] - t1[i+9] - t2[i+9])"
Kfix(t1, t2, t3, i) ==
    LET at(t, top, j) == IF j \in 0..top THEN t[j] ELSE 0
    IN  t1[i] + at(t3, 17, i - 10) - at(t1, 18, i - 10) - at(t2, 16, i - 10)
        + 2 * (at(t2, 16, i - 1) + (IF i <= 8 THEN t3[i + 9] - t1[i + 9] ELSE 0)
               - at(t2, 16, i + 9))

GfMul(a, b) ==
    LET t1 == [i \in 0..18 |-> Product(a, b, 0, 10, i)]
        t2 == [i \in 0..16 |-> Product(a, b, 10, 9, i)]
        t4 == Folded(a)
        t5 == Folded(b)
        t3 == [i \in 0..17 |-> Product(t4, t5, 0, 10, i)]
    IN  [i \in Degrees |-> FromMonty(Kfix(t1, t2, t3, i) % Word)]

\* the same with each product of two different coefficients computed once
Square(a, o, n, i) ==
    LET pairs == {j \in 0..(n - 1) : i - j \in 0..(n - 1) /\ 2 * j < i}
        middle == IF i % 2 = 0 THEN a[o + i \div 2] * a[o + i \div 2] ELSE 0
    IN  (middle + 2 * Sum(pairs, LAMBDA j : a[o + j] * a[o + i - j])) % Word

GfSqr(a) ==
    LET t1 == [i \in 0..18 |-> Square(a, 0, 10, i)]
        t2 == [i \in 0..16 |-> Square(a, 10, 9, i)]
        t4 == Folded(a)
        t3 == [i \in 0..17 |-> Square(t4, 0, 10, i)]
    IN  [i \in Degrees |-> FromMonty(Kfix(t1, t2, t3, i) % Word)]

\* the coefficient of degree 0 is not multiplied
GfFrob(a, f) == [i \in Degrees |-> IF i = 0 THEN a[0] ELSE MontyMul(a[i], f[i])]

\* the product of two elements known to be in the base field, as a base field element
GfMulToLow(a, b) ==
    FromMonty((a[0] * b[0] + 2 * Sum(1..18, LAMBDA i : a[i] * b[19 - i])) % Word)

GfMulConst(a, k) == [i \in Degrees |-> MontyMul(a[i], k)]

-----------------------------------------------------------------------------
(* Constants in Montgomery representation, as the preprocessor computes    *)
(* them, and the sums of several products that are reduced once.           *)

CONSTANTS A, B          \* the curve is Y^2 = X^3 + A X + B z^9
R == Word % P
Rep(k) == ((k % P) * R) % P
Rep2(k) == (Rep(k) * R) % P
Am == Rep(A)
Bm == Rep(B)
MinusTwentySevenBBmm == (((((P - 27) * Bm) % P)) * Bm) % P

\* 3 x^2 + A, given the square
Slope(a) == LET t == GfMulConst(a, Rep(3)) IN [t EXCEPT ![0] = MpAdd(@, Am)]

\* y^4 - 9 x^4 - 54 x^2 + 18 B z^9 y^2 + 72 B z^9 x + 27 - 27 B^2 z^18, given the powers
FirstDoubleY(YYYY, S, XX, YY, x1) ==
    [i \in Degrees |->
        LET plain == R * YYYY[i] + Rep(-9) * S[i] + Rep(-54) * XX[i]
            wrapped == IF i < 9
                       THEN ((36 * Bm) % P) * YY[i + 10] + ((144 * Bm) % P) * x1[i + 10]
                       ELSE ((18 * Bm) % P) * YY[i - 9] + ((72 * Bm) % P) * x1[i - 9]
            term == CASE i = 0 -> Rep2(27)
                      [] i = 18 -> MinusTwentySevenBBmm
                      [] OTHER -> 0
        IN  FromMonty((plain + wrapped + term) % Word)]
=============================================================================
