------------------------------- MODULE Field -------------------------------
(***************************************************************************)
(* Sequences of calls on two polynomials, by the portable code or by the   *)
(* AVX2 code.  Results are the operands of later calls.                    *)
(***************************************************************************)
EXTENDS FieldAvx2

CONSTANTS Root,         \* z is multiplied by it under a Frobenius operator
          Samples,      \* coefficients that operands are made of
          Leftovers,    \* contents of the lanes to ignore
          MaxCalls      \* calls in a row; one when an operand is sparse

VARIABLES build,        \* which of the two programs runs
          x, y,         \* the operands
          call,         \* the last call
          left          \* how many calls may follow

kernelVars == <<build, x, y, call, left>>

Uniform == {[i \in Degrees |-> c] : c \in Samples}
\* All coefficients but one are zero, which is represented by P: the sums of
\* products are near their bound.
Sparse == {[i \in Degrees |-> IF i = k THEN c ELSE P] : k \in Degrees, c \in Samples}

Stored(s, junk) ==
    IF build = "ref" THEN s ELSE [l \in Lanes |-> IF l <= 18 THEN s[l] ELSE junk]

KernelInit ==
    /\ build \in {"ref", "avx2"}
    /\ \E s \in Uniform \cup Sparse, t \in Uniform \cup Sparse, junk \in Leftovers :
          /\ x = Stored(s, junk) /\ y = Stored(t, junk)
          /\ left = IF s \in Uniform /\ t \in Uniform THEN MaxCalls ELSE 1
    /\ call = ""

\* the coefficients f of the Frobenius operator are in Montgomery representation
RootsRep == [i \in Degrees |-> ((Root^i % P) * R) % P]

\* Samples and lanes hold what they may; constants have inverses modulo P; sums of
\* 19 products, of which 18 may be doubled, can be reduced.  That powers of the root
\* are integers, the first one 1, is arithmetic: a prover need not know powers.
ASSUME FieldAssumption ==
    /\ A \in Int /\ B \in Int
    /\ Samples \subseteq Elements /\ Leftovers \subseteq 0..(Half - 1)
    /\ Root^0 = 1 /\ \A i \in Degrees : Root^i \in Int /\ RootsRep[i] # 0
    /\ Half % 2 = 0 /\ P % 3 # 0
    /\ 6 * P < Half /\ 37 * (P * P) <= MaxOperand

ResultRef(c) ==
    CASE c = "add" -> GfAdd(x, y)
      [] c = "sub" -> GfSub(x, y)
      [] c = "neg" -> GfNeg(x)
      [] c = "condneg0" -> GfCondneg(x, 0)
      [] c = "condneg1" -> GfCondneg(x, 1)
      [] c = "mul" -> GfMul(x, y)
      [] c = "sqr" -> GfSqr(x)
      [] c = "frob" -> GfFrob(x, RootsRep)
      [] c = "mul_low" -> GfMulConst(y, GfMulToLow(x, y))
      [] c = "slope" -> Slope(x)
      [] c = "double" -> FirstDoubleY(x, y, x, y, x)

ResultAvx2(c) ==
    CASE c = "add" -> VgfAdd(x, y)
      [] c = "sub" -> VgfSub(x, y)
      [] c = "neg" -> VgfNeg(x)
      [] c = "condneg0" -> VgfCondneg(x, 0)
      [] c = "condneg1" -> VgfCondneg(x, 1)
      [] c = "mul" -> VgfMul(x, y)
      [] c = "sqr" -> VgfMul(x, x)
      [] c = "frob" -> VgfFrob(x, RootsRep)
      [] c = "mul_low" -> VgfMulConst(y, VgfMulToLow(x, y))
      [] c = "slope" -> VgfSlope(x)
      [] c = "double" -> VgfFirstDoubleY(VgfMulConst(x, Rep(16)), VgfMulConst(y, Rep(4)), y, x, x)

Calls == {"add", "sub", "neg", "condneg0", "condneg1", "mul", "sqr", "frob",
          "mul_low", "slope", "double"}

Call(c) ==
    /\ left > 0
    /\ x' = IF build = "ref" THEN ResultRef(c) ELSE ResultAvx2(c)
    /\ call' = c /\ left' = left - 1
    /\ UNCHANGED <<build, y>>

Exchange ==
    /\ left > 0 /\ call # ""
    /\ x' = y /\ y' = x
    /\ call' = "" /\ left' = left - 1
    /\ UNCHANGED build

KernelNext == Exchange \/ \E c \in Calls : Call(c)

-----------------------------------------------------------------------------
\* out of Montgomery representation
WordInverse == CHOOSE k \in 1..P : (k * Word) % P = 1
Value(a) == [i \in Degrees |-> (a[i] * WordInverse) % P]
Ring == INSTANCE FieldRing WITH x <- Value(x), y <- Value(y)
=============================================================================
