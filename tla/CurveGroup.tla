----------------------------- MODULE CurveGroup -----------------------------
(***************************************************************************)
(* Points as the multiplication code sees them: a flag for the point at    *)
(* infinity, and coordinates.  Coordinates are represented by the discrete *)
(* logarithm of the point that has them; the curve has an odd prime order, *)
(* and no coordinates stand for infinity: a point at infinity has some     *)
(* coordinates all the same, and only the flag tells.                      *)
(***************************************************************************)
EXTENDS Integers

CONSTANTS N,            \* the curve order
          Junk          \* the coordinates that a sum at infinity leaves

Coordinates == 1..(N - 1)

ASSUME GroupAssumption ==
    /\ N \in Nat /\ N > 2 /\ \A k \in 2..(N - 1) : N % k # 0
    /\ Junk \in Coordinates

Points == [neutral : BOOLEAN, at : Coordinates]

\* the multiple of the generator that a point is
Log(P) == IF P.neutral THEN 0 ELSE P.at

Infinity == [neutral |-> TRUE, at |-> Junk]

\* the point k * G, k not a multiple of N: an entry of a precomputed table
Multiple(k) == [neutral |-> FALSE, at |-> k % N]

\* The special cases are told apart by the flags, and by comparing coordinates
\* whatever the flags.
PointAdd(P, Q) ==
    LET sum == (P.at + Q.at) % N
        none == \/ P.neutral /\ Q.neutral
                \/ ~P.neutral /\ ~Q.neutral /\ sum = 0
    IN  [neutral |-> none,
         at |-> CASE none -> Junk
                  [] P.neutral /\ ~none -> Q.at
                  [] Q.neutral /\ ~none -> P.at
                  [] ~(P.neutral \/ Q.neutral \/ none) -> sum]

PointNeg(P) == [P EXCEPT !.at = N - @]

PointMul2k(P, k) == [P EXCEPT !.at = (2^k * @) % N]
=============================================================================
