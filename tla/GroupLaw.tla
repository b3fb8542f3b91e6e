------------------------------ MODULE GroupLaw ------------------------------
(***************************************************************************)
(* What curve9767.h promises of the point functions: two elements of the   *)
(* group of the curve, the empty sequence for the point at infinity and    *)
(* the pair of coordinates for the others, under the chord and tangent     *)
(* law as textbooks give it.                                               *)
(***************************************************************************)
EXTENDS Integers

CONSTANTS Arguments,    \* the field elements that seeds are mapped to
          Images        \* the points that Icart's map gives for them

VARIABLES p1, p2, call

Field == INSTANCE ExtensionField

LOCAL Plus(a, b) == Field!Plus(a, b)
LOCAL Minus(a, b) == Field!Minus(a, b)
LOCAL Times(a, b) == Field!Times(a, b)

Infinity == <<>>

OnCurve(p) ==
    p # Infinity =>
        Times(p[2], p[2]) =
            Plus(Times(p[1], Minus(Times(p[1], p[1]), Field!Constant(3))), Field!Monomial(2048, 9))

Opposite(p) == IF p = Infinity THEN p ELSE <<p[1], Field!Negated(p[2])>>

\* the third point of the line of slope n/d through p and q, reflected
OnLine(p, q, n, d) ==
    LET slope == Times(n, Field!Reciprocal(d))
        x == Minus(Times(slope, slope), Plus(p[1], q[1]))
    IN  <<x, Minus(Times(slope, Minus(p[1], x)), p[2])>>

Sum(p, q) ==
    IF p = Infinity THEN q
    ELSE IF q = Infinity THEN p
    ELSE IF q = Opposite(p) THEN Infinity
    ELSE IF q = p
    THEN OnLine(p, p, Field!Scaled(3, Minus(Times(p[1], p[1]), Field!Constant(1))), Field!Scaled(2, p[2]))
    ELSE OnLine(p, q, Minus(p[2], q[2]), Minus(p[1], q[1]))

DoubledTimes(p, k) ==
    LET d[i \in 0..k] == IF i = 0 THEN p ELSE Sum(d[i - 1], d[i - 1]) IN d[k]

MultipleOf(p, s) ==
    LET multiple[k \in 0..s] ==
            IF k = 0 THEN Infinity
            ELSE LET half == multiple[k \div 2]
                     even == Sum(half, half)
                 IN  IF k % 2 = 0 THEN even ELSE Sum(even, p)
    IN  multiple[s]

\* Icart's point for u: on the curve and on the line y = u*x + (3*a - u^4)/(6*u)
IsIcart(p, u) ==
    IF u = Field!Zero THEN p = Infinity
    ELSE /\ p # Infinity /\ OnCurve(p)
         /\ Field!Scaled(6, Times(u, Minus(p[2], Times(u, p[1])))) =
                Minus(Field!Constant(-9), Field!Power(u, 4))

-----------------------------------------------------------------------------
Init == OnCurve(p1) /\ OnCurve(p2) /\ call = <<>>

Result(c) ==
    CASE c = "add" -> Sum(p1, p2)
      [] c = "sub" -> Sum(p1, Opposite(p2))
      [] c = "neg" -> Opposite(p1)
      [] c = "set" -> Infinity
      [] c = "exchange" -> p2
      [] c \in {"copy", "encode", "alter"} -> p1

Operations == {"add", "sub", "neg", "set", "exchange", "copy", "encode", "alter"}

Call ==
    /\ call'[1] \in Operations
    /\ p1' = Result(call'[1])
    /\ p2' = CASE call'[1] = "exchange" -> p1 [] call'[1] = "copy" -> p1 [] OTHER -> p2

Double == call'[1] = "mul2k" /\ p1' = DoubledTimes(p1, call'[2]) /\ p2' = p2

Multiply == call'[1] = "mul" /\ p1' = MultipleOf(p1, call'[2]) /\ p2' = p2

Hash ==
    /\ call'[1] = "hash"
    /\ \A i \in {call'[2], call'[3]} : IsIcart(Images[i], Arguments[i])
    /\ p1' = Sum(Images[call'[2]], Images[call'[3]]) /\ p2' = p2

Decode == call'[1] = "decode" /\ OnCurve(p1') /\ p2' = p2

Next == Call \/ Double \/ Multiply \/ Hash \/ Decode

Spec == Init /\ [][Next]_<<p1, p2, call>>
=============================================================================
