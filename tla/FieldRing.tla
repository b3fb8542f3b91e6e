----------------------------- MODULE FieldRing -----------------------------
(***************************************************************************)
(* What inner.h promises of the field functions: two polynomials, and calls *)
(* that replace the first by a function of both, modulo P and z^19 - 2.     *)
(***************************************************************************)
EXTENDS Integers

CONSTANTS P, Root, A, B

Degrees == 0..18
Polynomials == [Degrees -> 0..(P - 1)]

VARIABLES x, y, call

vars == <<x, y, call>>

Reduced(f(_)) == [i \in Degrees |-> f(i) % P]
Plus(a, b)  == Reduced(LAMBDA i : a[i] + b[i])
Minus(a, b) == Reduced(LAMBDA i : a[i] - b[i])
Scaled(k, a) == Reduced(LAMBDA i : k * a[i])
Constant(k) == [i \in Degrees |-> IF i = 0 THEN k % P ELSE 0]

Total(f) == f[0] + f[1] + f[2] + f[3] + f[4] + f[5] + f[6] + f[7] + f[8] + f[9]
            + f[10] + f[11] + f[12] + f[13] + f[14] + f[15] + f[16] + f[17] + f[18]
\* coefficient i: the terms of degree i + 19 are doubled
Convolution(a, b, i) ==
    Total([j \in Degrees |-> a[j] * (IF j <= i THEN b[i - j] ELSE 2 * b[i + 19 - j])])

Times(a, b) == Reduced(LAMBDA i : Convolution(a, b, i))

\* multiplication by z^9
Shifted9(a) == [i \in Degrees |-> IF i < 9 THEN (2 * a[i + 10]) % P ELSE a[i - 9]]

Result(c) ==
    CASE c = "add" -> Plus(x, y)
      [] c = "sub" -> Minus(x, y)
      [] c = "neg" -> Minus(Constant(0), x)
      [] c = "condneg0" -> x
      [] c = "condneg1" -> Minus(Constant(0), x)
      [] c = "mul" -> Times(x, y)
      [] c = "sqr" -> Times(x, x)
      [] c = "frob" -> Reduced(LAMBDA i : x[i] * Root^i)
      [] c = "mul_low" -> Scaled(Times(x, y)[0], y)
      [] c = "slope" -> Plus(Scaled(3, x), Constant(A))
      [] c = "double" ->
            Plus(Plus(Plus(x, Scaled(-9, y)), Scaled(-54, x)),
                 Plus(Plus(Scaled(18 * B, Shifted9(y)), Scaled(72 * B, Shifted9(x))),
                      [i \in Degrees |-> IF i = 0 THEN 27 % P
                                         ELSE IF i = 18 THEN (-27 * B * B) % P ELSE 0]))

Calls == {"add", "sub", "neg", "condneg0", "condneg1", "mul", "sqr", "frob",
          "mul_low", "slope", "double"}

Init == x \in Polynomials /\ y \in Polynomials /\ call = ""

Call(c) == call' = c /\ x' = Result(c) /\ y' = y
Exchange == call' = "" /\ x' = y /\ y' = x

Next == Exchange \/ \E c \in Calls : Call(c)

Spec == Init /\ [][Next]_vars
=============================================================================
