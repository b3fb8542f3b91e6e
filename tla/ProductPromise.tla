--------------------------- MODULE ProductPromise ---------------------------
(***************************************************************************)
(* What curve9767.h promises of the multiplications: s1*Q1, s2*G or        *)
(* s1*Q1 + s2*G, for all scalars and points, the point at infinity         *)
(* included.  Points are given by their discrete logarithm.                *)
(***************************************************************************)
EXTENDS Integers

CONSTANT N              \* the curve order

VARIABLES op, q1, s1, s2,
          result        \* {} until the call returns

vars == <<op, q1, s1, s2, result>>

Init ==
    /\ op \in {"mul", "mulgen", "mul_mulgen_add"}
    /\ q1 \in 0..(N - 1) /\ s1 \in Nat /\ s2 \in Nat
    /\ result = {}

Product ==
    CASE op = "mul" -> s1 * q1
      [] op = "mulgen" -> s2
      [] op = "mul_mulgen_add" -> s1 * q1 + s2

Return ==
    /\ result = {}
    /\ result' = {Product % N}
    /\ UNCHANGED <<op, q1, s1, s2>>

Next == Return

Spec == Init /\ [][Next]_vars
=============================================================================
