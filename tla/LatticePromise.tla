--------------------------- MODULE LatticePromise ---------------------------
(***************************************************************************)
(* What curve9767_inner_reduce_basis_vartime promises, as inner.h declares *)
(* it: for a scalar b, one answer <<c0, c1>> of two signed integers that   *)
(* fit the output buffers, with c1 # 0 and c0 = c1 * b modulo the order.   *)
(***************************************************************************)
EXTENDS Integers

CONSTANTS N,            \* the curve order
          HalfBound     \* 2^127: the bound on both absolute values

VARIABLES b,            \* the scalar, below 1.27 * N
          answer,       \* <<c0, c1>> once delivered
          delivered

vars == <<b, answer, delivered>>

\* The API keeps every scalar below 1.27 * N without normalising it.
Scalars == { x \in 0..(2 * N - 1) : 100 * x < 127 * N }

Halves == (1 - HalfBound)..(HalfBound - 1)

IsHalfSize(x, c) ==
    /\ c[2] # 0
    /\ (c[1] - c[2] * x) % N = 0

Init ==
    /\ b \in Scalars
    /\ answer = <<0, 0>>
    /\ delivered = FALSE

Deliver ==
    /\ ~delivered
    /\ delivered' = TRUE
    /\ answer' \in Halves \X Halves
    /\ IsHalfSize(b, answer')
    /\ UNCHANGED b

Next == Deliver

Spec == Init /\ [][Next]_vars
=============================================================================
