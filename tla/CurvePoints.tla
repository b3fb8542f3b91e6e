----------------------------- MODULE CurvePoints -----------------------------
(***************************************************************************)
(* The points of y^2 = x^3 - 3*x + 2048*z^9 with their coordinates, as the *)
(* point functions of the two builds compute them.  A point at infinity    *)
(* has coordinates too, which mean nothing and are computed with.          *)
(***************************************************************************)
EXTENDS ExtensionField

A == -3
B == 2048
Bi == 9
TimesB(k, a) == TimesMonomial((k * B) % P, Bi, a)

generator == [neutral |-> FALSE, x |-> Zero, y |-> Monomial(32, 14)]

\* what curve9767_point_set_neutral() writes
Neutral == [neutral |-> TRUE, x |-> Zero, y |-> Zero]

\* the square of y
RightHandSide(x) == Plus(Plus(Times(Square(x), x), Scaled(A, x)), Monomial(B, Bi))

make_y(x, neg) ==
    LET signed(s) ==
            [ok |-> s.ok, y |-> IF IsNegative(s.root) = neg THEN s.root ELSE Negated(s.root)]
    IN  signed(SquareRoot(RightHandSide(x)))

-----------------------------------------------------------------------------
\* the slope of the chord, or of the tangent when the abscissas are equal
Slope(Q1, Q2) ==
    LET ex == Q1.x = Q2.x
    IN  Times(IF ex THEN Plus(Scaled(3, Square(Q1.x)), Constant(A)) ELSE Minus(Q2.y, Q1.y),
              Reciprocal(IF ex THEN Plus(Q1.y, Q1.y) ELSE Minus(Q2.x, Q1.x)))

\* Computed for any operands: right when both are finite and not opposite.
ThirdPoint(Q1, Q2) ==
    LET at(lambda, x3) == [x |-> x3, y |-> Minus(Times(lambda, Minus(Q1.x, x3)), Q1.y)]
        on(lambda) == at(lambda, Minus(Minus(Square(lambda), Q1.x), Q2.x))
    IN  on(Slope(Q1, Q2))

\* a plausible bug: a point added to its opposite is taken for a doubling
PointAddNoOpposite(Q1, Q2) ==
    LET R == IF Q1.neutral THEN Q2 ELSE IF Q2.neutral THEN Q1 ELSE ThirdPoint(Q1, Q2)
    IN  {[neutral |-> Q1.neutral /\ Q2.neutral, x |-> R.x, y |-> R.y]}

\* The words of two points at infinity are OR-ed: some coordinates.
PointAdd(Q1, Q2) ==
    LET none == \/ Q1.neutral /\ Q2.neutral
                \/ ~Q1.neutral /\ ~Q2.neutral /\ Q1.x = Q2.x /\ Q1.y # Q2.y
    IN  {[neutral |-> none, x |-> R.x, y |-> R.y] : R \in
            CASE Q1.neutral /\ Q2.neutral -> {Q1, Q2}
              [] Q1.neutral /\ ~Q2.neutral -> {Q2}
              [] ~Q1.neutral /\ Q2.neutral -> {Q1}
              [] ~Q1.neutral /\ ~Q2.neutral -> {ThirdPoint(Q1, Q2)}}

PointNeg(Q) == [Q EXCEPT !.y = Negated(@)]
PointSub(Q1, Q2) == PointAdd(Q1, PointNeg(Q2))

-----------------------------------------------------------------------------
(* Repeated doubling: the first from affine to Jacobian coordinates in     *)
(* four squarings, the others with the formulas of each build.             *)

FirstDouble(Q) ==
    LET from(xx, xxxx, yy) ==
            [X |-> Plus(Plus(xxxx, Scaled(6, xx)), Plus(TimesB(-8, Q.x), Constant(9))),
             Y |-> Plus(Plus(Plus(Square(yy), TimesB(18, yy)),
                             Plus(Scaled(-9, xxxx), Scaled(-54, xx))),
                        Plus(TimesB(72, Q.x),
                             Plus(Constant(27), Monomial(-27 * ((B * B) % P), 2 * Bi)))),
             Z |-> Plus(Q.y, Q.y)]
        with(xx) == from(xx, Square(xx), Square(Q.y))
    IN  with(Square(Q.x))

\* X' = M^2 - 2S    Y' = M*(S - X') - eighth, where eighth is 8*Y^4
DoubleFrom(M, S, eighth, Z) ==
    LET at(X2) == [X |-> X2, Y |-> Minus(Times(Minus(S, X2), M), eighth), Z |-> Z]
    IN  at(Minus(Minus(Square(M), S), S))

\* portable code: one product, eight squarings
DoubleRef(J) ==
    LET from(xx, yy, yyyy, zz) ==
            DoubleFrom(Scaled(3, Minus(xx, Square(zz))),
                       Scaled(2, Minus(Minus(Square(Plus(J.X, yy)), xx), yyyy)),
                       Scaled(8, yyyy),
                       Minus(Minus(Square(Plus(J.Y, J.Z)), yy), zz))
        with(xx, yy, zz) == from(xx, yy, Square(yy), zz)
    IN  with(Square(J.X), Square(J.Y), Square(J.Z))

\* AVX2 code: four products, four squarings
DoubleAvx2(J) ==
    LET from(Y2, YY, zz) ==
            DoubleFrom(Scaled(3, Times(Minus(J.X, zz), Plus(J.X, zz))),
                       Times(YY, J.X),
                       Scaled((P + 1) \div 2, Square(YY)),
                       Times(Y2, J.Z))
        with(Y2) == from(Y2, Square(Y2), Square(J.Z))
    IN  with(Plus(J.Y, J.Y))

Doubled(build, J, n) ==
    LET doubled[k \in 0..n] ==
            IF k = 0 THEN J
            ELSE IF build = "ref" THEN DoubleRef(doubled[k - 1]) ELSE DoubleAvx2(doubled[k - 1])
    IN  doubled[n]

\* X/Z^2, Y/Z^3
Affine(neutral, J) ==
    LET with(zi, zzi) ==
            [neutral |-> neutral, x |-> Times(J.X, zzi), y |-> Times(J.Y, Times(zzi, zi))]
        from(zi) == with(zi, Square(zi))
    IN  from(Reciprocal(J.Z))

PointMul2k(build, Q, k) ==
    IF k = 0 THEN {Q}
    ELSE IF k = 1 THEN PointAdd(Q, Q)
    ELSE {Affine(Q.neutral, Doubled(build, FirstDouble(Q), k - 1))}

-----------------------------------------------------------------------------
BaseReciprocal(k) == BaseInverse(k % P)

\* Icart's map
Icart_map(u) ==
    LET at(v, x) == [neutral |-> u = Zero, x |-> x, y |-> Plus(Times(u, x), v)]
        cubed(v, uu, uuuu) ==
            Minus(Plus(Square(v), Scaled(BaseReciprocal(-27), Times(uu, uuuu))), Monomial(B, Bi))
        of(v, uu, uuuu) ==
            at(v, Plus(CubeRoot(cubed(v, uu, uuuu)), Scaled(BaseReciprocal(3), uu)))
        from(uu, uuuu) ==
            of(Times(Minus(Constant(-9), uuuu), Reciprocal(Scaled(6, u))), uu, uuuu)
        with(uu) == from(uu, Square(uu))
    IN  with(Square(u))
=============================================================================
