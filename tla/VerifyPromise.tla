--------------------------- MODULE VerifyPromise ---------------------------
(***************************************************************************)
(* What curve9767.h promises of                                            *)
(* curve9767_point_verify_mul_mulgen_add_vartime: it tells whether         *)
(* s1*Q1 + s2*G = Q2.  Points are given by their discrete logarithm.       *)
(***************************************************************************)
EXTENDS Integers

CONSTANT N              \* the curve order

VARIABLES q1, s1, s2, q2,
          verdict       \* "none" until the call returns

vars == <<q1, s1, s2, q2, verdict>>

Holds == (s1 * q1 + s2 - q2) % N = 0

Init ==
    /\ q1 \in 0..(N - 1) /\ q2 \in 0..(N - 1)
    /\ s1 \in Nat /\ s2 \in Nat
    /\ verdict = "none"

Answer ==
    /\ verdict = "none"
    /\ verdict' = IF Holds THEN "equal" ELSE "different"
    /\ UNCHANGED <<q1, s1, s2, q2>>

Next == Answer

Spec == Init /\ [][Next]_vars
=============================================================================
