--------------------------- MODULE ExtensionField ---------------------------
(***************************************************************************)
(* GF(p^19) by value: a polynomial is the function that gives its          *)
(* coefficients, 0..p-1, modulo z^19 - 2.  That the field functions of the *)
(* two builds compute this is what modules Field and FieldPowers are for.  *)
(***************************************************************************)
EXTENDS Integers

P == 9767
Degrees == 0..18

Polynomials == [Degrees -> 0..(P - 1)]

\* the coefficients modulo P; asking whether they are has TLC compute them once
Poly(f) == LET a == [i \in Degrees |-> f[i] % P] IN CASE a \in Polynomials -> a

Monomial(c, d) == Poly([i \in Degrees |-> IF i = d THEN c ELSE 0])
Constant(c) == Monomial(c, 0)
Zero == Constant(0)

Plus(a, b) == Poly([i \in Degrees |-> a[i] + b[i]])
Minus(a, b) == Poly([i \in Degrees |-> a[i] - b[i]])
Negated(a) == Minus(Zero, a)
Scaled(k, a) == Poly([i \in Degrees |-> k * a[i]])

\* the j-th product of total degree i or i + 19
Product(a, b, i, j) == a[j] * (IF j <= i THEN b[i - j] ELSE (2 * b[19 + i - j]) % P)

Products(a, b, i) ==
    LET t(j) == Product(a, b, i, j)
    IN  t(0) + t(1) + t(2) + t(3) + t(4) + t(5) + t(6) + t(7) + t(8) + t(9)
        + t(10) + t(11) + t(12) + t(13) + t(14) + t(15) + t(16) + t(17) + t(18)

Times(a, b) == Poly([i \in Degrees |-> Products(a, b, i)])

Square(a) == Times(a, a)

\* a product by c * z^d
TimesMonomial(c, d, a) ==
    Poly([i \in Degrees |-> IF i >= d THEN c * a[i - d] ELSE ((2 * c) % P) * a[i + 19 - d]])

\* the bits of an exponent, from the highest; all exponents are below 2^14
Bit(n, k) == (n \div 2^(14 - k)) % 2

Power(a, n) ==
    LET power[k \in 0..14] ==
            IF k = 0 THEN Constant(1)
            ELSE LET h == power[k - 1]
                     hh == Square(h)
                 IN  IF Bit(n, k) = 0 THEN hh ELSE Times(hh, a)
    IN  power[14]

BasePower(x, n) ==
    LET power[k \in 0..14] ==
            IF k = 0 THEN 1
            ELSE LET h == power[k - 1]
                     hh == (h * h) % P
                 IN  IF Bit(n, k) = 0 THEN hh ELSE (hh * x) % P
    IN  power[14]

\* mp_inv: the inverse of 0 is 0
BaseInverse(k) == BasePower(k, P - 2)

\* the j-th power of the Frobenius operator
Conjugate(a, j) == Poly([i \in Degrees |-> a[i] * BasePower(2, 514 * ((i * j) % 19))])

\* a^(1 + p^2 + p^4 + ... + p^16)
EvenConjugates(a) ==
    LET with(b, j) == Times(b, Conjugate(b, j))
    IN  Times(a, Conjugate(with(with(with(a, 2), 4), 8), 2))

\* a^(p + p^3 + ... + p^17)
OddConjugates(a) == Conjugate(EvenConjugates(a), 1)

\* others is the product of the other conjugates of a
ReciprocalFrom(a, others) == Scaled(BaseInverse(Times(a, others)[0]), others)

\* gf_inv: the inverse of 0 is 0
Reciprocal(a) ==
    LET with(odd) == Times(odd, Conjugate(odd, 1))
    IN  ReciprocalFrom(a, with(OddConjugates(a)))

\* gf_sqrt: whether a is a square, and the root; not a square, the root of the opposite
SquareRootFrom(even, norm) ==
    [ok |-> BasePower(norm, (P - 1) \div 2) # P - 1,
     root |-> Power(Scaled(BaseInverse(norm), Square(even)), (P + 1) \div 4)]
SquareRoot(a) ==
    LET from(even, odd) == SquareRootFrom(even, Times(even, odd)[0])
        with(odd) == from(Times(a, Conjugate(odd, 1)), odd)
    IN  with(OddConjugates(a))

\* gf_cubert: every element is a cube, once
CubeRoot(a) ==
    LET from(even, odd) == Times(even, Power(Times(Square(even), odd), (P - 2) \div 3))
        with(odd) == from(Times(a, Conjugate(odd, 1)), odd)
    IN  with(OddConjugates(a))

\* gf_is_neg: the highest coefficient that is not zero is above (p-1)/2
IsNegative(a) ==
    \E i \in Degrees : /\ a[i] > (P - 1) \div 2
                       /\ \A j \in (i + 1)..18 : a[j] = 0
=============================================================================
