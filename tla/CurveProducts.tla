--------------------------- MODULE CurveProducts ---------------------------
(***************************************************************************)
(* curve9767_point_mul of both builds on coordinates.  The scalars are     *)
(* small: all digits but the last few are zero, and the turns for those    *)
(* leave the sum at infinity, with some coordinates.                       *)
(***************************************************************************)
EXTENDS PointCodec

CONSTANT LastDigits     \* how many digits may be nonzero

ASSUME ProductsAssumption == LastDigits \in Nat \ {0}

\* the last digits of s, after the offset: 2^(w-1) less than those of the sum
DigitsOf(s, w) ==
    LET middle == 2^(w - 1)
        offset == ((2^(w * LastDigits) - 1) \div (2^w - 1)) * middle
        rest[t \in 0..LastDigits] == IF t = 0 THEN s + offset ELSE rest[t - 1] \div 2^w
    IN  [t \in 1..LastDigits |-> (rest[LastDigits - t] % 2^w) - middle]

\* d*Q from the window of Q, with the flag of Q.  A sum of Q and a multiple of it has
\* one outcome, also at infinity.
Lookup(Q, d) ==
    LET entry[k \in 0..15] ==
            IF k = 0 THEN Q
            ELSE LET last == entry[k - 1] IN CHOOSE R \in PointAdd(last, Q) : TRUE
        T == [entry[CASE d = 0 -> 0 [] d > 0 -> d - 1 [] d < 0 -> -d - 1]
                EXCEPT !.neutral = Q.neutral \/ d = 0]
    IN  IF d <= 0 THEN PointNeg(T) ELSE T

-----------------------------------------------------------------------------
(* portable code: affine coordinates                                       *)

Raised(sums) == UNION { PointMul2k("ref", S, 4) : S \in sums }

ProductRef(Q, s) ==
    LET digits == DigitsOf(s, 4)
        sums[t \in 0..LastDigits] ==
            IF t = 0 THEN {Lookup(Q, 0)}
            ELSE UNION { PointAdd(R, Lookup(Q, digits[t])) : R \in Raised(sums[t - 1]) }
    IN  sums[LastDigits]

-----------------------------------------------------------------------------
(* AVX2 code: Jacobian coordinates, and one complete addition at the end   *)

FromAffine(Q) == [X |-> Q.x, Y |-> Q.y, Z |-> Constant(1)]

\* The sum from the differences of the operands, one brought to the denominator of J.
SumFrom(J, dx, dy, cube, V) ==
    LET at(X3) == [X |-> X3,
                   Y |-> Minus(Times(Minus(V, X3), dy), Times(cube, J.Y)),
                   Z |-> Times(J.Z, dx)]
    IN  at(Minus(Minus(Square(dy), Plus(V, V)), cube))

DifferenceX(J, T, zz) == Minus(Times(zz, T.x), J.X)
DifferenceY(J, T, zz) == Minus(Times(Times(zz, J.Z), T.y), J.Y)

\* a plausible bug: the square of the difference of the abscissas for its cube
MixedAddSquared(J, T) ==
    LET with(dx, dy, square) == SumFrom(J, dx, dy, square, Times(square, J.X))
        from(dx, dy) == with(dx, dy, Square(dx))
        of(zz) == from(DifferenceX(J, T, zz), DifferenceY(J, T, zz))
    IN  of(Square(J.Z))

\* 8M+3S formulas: right when the operands are neither equal nor opposite
MixedAdd(J, T) ==
    LET with(dx, dy, square) == SumFrom(J, dx, dy, Times(square, dx), Times(square, J.X))
        from(dx, dy) == with(dx, dy, Square(dx))
        of(zz) == from(DifferenceX(J, T, zz), DifferenceY(J, T, zz))
    IN  of(Square(J.Z))

Cleared == [X |-> Zero, Y |-> Zero, Z |-> Zero]

\* The masks keep the sum, or one operand, or no bit.
JacobianTurn(S, T) ==
    LET of(J) == CASE ~S.rz /\ ~T.neutral -> MixedAdd(J, T)
                   [] S.rz /\ ~T.neutral -> FromAffine(T)
                   [] ~S.rz /\ T.neutral -> J
                   [] S.rz /\ T.neutral -> Cleared
    IN  [rz |-> S.rz /\ T.neutral, J |-> of(Doubled("avx2", S.J, 5))]

LastTurn(S, T) == PointAdd(Affine(S.rz, Doubled("avx2", S.J, 5)), T)

ProductAvx2(Q, s) ==
    LET digits == DigitsOf(s, 5)
        turn[t \in 0..(LastDigits - 1)] ==
            IF t = 0 THEN [rz |-> TRUE, J |-> Cleared]
            ELSE LET S == turn[t - 1] IN JacobianTurn(S, Lookup(Q, digits[t]))
    IN  LastTurn(turn[LastDigits - 1], Lookup(Q, digits[LastDigits]))

PointProduct(build, Q, s) == IF build = "ref" THEN ProductRef(Q, s) ELSE ProductAvx2(Q, s)
=============================================================================
