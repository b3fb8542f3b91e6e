---------------------------- MODULE LatticeReduce ----------------------------
(***************************************************************************)
(* curve9767_inner_reduce_basis_vartime of scalar_ref.c: Lagrange's        *)
(* reduction of the lattice spanned by u = [N, 0] and v = [b, 1], with a   *)
(* power of two in the place of the quotient.                              *)
(*                                                                         *)
(* u and v live in "small" registers of Small bits, which are too short    *)
(* for the first vectors; nu = <u,u>, nv = <v,v> and sp = <u,v> live in    *)
(* "large" registers and are updated, never recomputed.  The code relies   *)
(* on three facts no test can see: the large registers never overflow,     *)
(* the truncation of the small ones is gone when the loop ends, and the    *)
(* loop ends.  The history variables eu and ev hold the untruncated        *)
(* vectors, so that these facts can be stated.                             *)
(***************************************************************************)
EXTENDS LatticeBasis

VARIABLES b,            \* the scalar given by the caller
          u, v,         \* the basis, two small registers each
          nu, nv, sp,   \* its Gram matrix, in large registers
          pc,           \* "order", "test" (the two halves of an iteration), "done"
          c,            \* the two output buffers
          eu, ev        \* history: the exact vectors

regs == <<u, v, nu, nv, sp>>
vars == <<b, u, v, nu, nv, sp, pc, c, eu, ev>>

Init ==
    /\ b \in Scalars
    /\ u = <<ToSmall(N), 0>>
    /\ v = <<ToSmall(Normalize(b)), 1>>
    /\ nu = Trunc(N * N, Large)
    /\ nv = Trunc(Normalize(b) * Normalize(b) + 1, Large)
    /\ sp = Trunc(N * Normalize(b), Large)
    /\ pc = "order"
    /\ c = <<0, 0>>
    /\ eu = <<N, 0>>
    /\ ev = <<Normalize(b), 1>>

\* a plausible bug: SWAP(u1, v1) is missing
SwapFirstOnly ==
    /\ pc = "order"
    /\ Ult(nu, nv, Large)
    /\ u' = <<v[1], u[2]>> /\ v' = <<u[1], v[2]>>
    /\ nu' = nv /\ nv' = nu
    /\ eu' = <<ev[1], eu[2]>> /\ ev' = <<eu[1], ev[2]>>
    /\ pc' = "test"
    /\ UNCHANGED <<b, sp, c>>

\* The pointers are exchanged; sp is symmetric and stays.
Swap ==
    /\ pc = "order"
    /\ Ult(nu, nv, Large)
    /\ u' = v /\ v' = u
    /\ nu' = nv /\ nv' = nu
    /\ eu' = ev /\ ev' = eu
    /\ pc' = "test"
    /\ UNCHANGED <<b, sp, c>>

Keep ==
    /\ pc = "order"
    /\ ~Ult(nu, nv, Large)
    /\ pc' = "test"
    /\ UNCHANGED <<b, regs, c, eu, ev>>

\* plausible bugs: a target that no reduced vector need reach; one that lets
\* the loop end before the vector fits the output
ShortEnoughTooStrict == BitLength(nv) <= Target - 3
ShortEnoughTooSoon == BitLength(nv) <= Target + 3

ShortEnough == BitLength(nv) <= Target

Return ==
    /\ pc = "test"
    /\ ShortEnough
    /\ c' = ToHalf(v)
    /\ pc' = "done"
    /\ UNCHANGED <<b, regs, eu, ev>>

\* u <- u + sign * (v << s), with the Gram matrix updated to match
Combine(sign, s) ==
    /\ u' = CombineSmall(sign, u, v, s)
    /\ nu' = CombineNorm(sign, nu, nv, sp, s, Large)
    /\ sp' = CombineDot(sign, nv, sp, s, Large)
    /\ eu' = CombineExact(sign, eu, ev, s)

Subtract ==
    /\ pc = "test"
    /\ ~ShortEnough
    /\ sp >= 0
    /\ Combine(-1, AlignShift(sp, nv))
    /\ pc' = "order"
    /\ UNCHANGED <<b, v, nv, c, ev>>

Add ==
    /\ pc = "test"
    /\ ~ShortEnough
    /\ sp < 0
    /\ Combine(1, AlignShift(sp, nv))
    /\ pc' = "order"
    /\ UNCHANGED <<b, v, nv, c, ev>>

Next == Swap \/ Keep \/ Return \/ Subtract \/ Add

Spec == Init /\ [][Next]_vars

\* The loop has nothing to wait for: it runs until it returns.
FairSpec == Spec /\ WF_vars(Next)

-----------------------------------------------------------------------------
\* Every register holds a value of its width.
TypeOK ==
    /\ b \in Scalars
    /\ u \in Pairs(Signed(Small)) /\ v \in Pairs(Signed(Small))
    /\ nu \in Signed(Large) /\ nv \in Signed(Large) /\ sp \in Signed(Large)
    /\ pc \in {"order", "test", "done"}
    /\ c \in Pairs(Signed(Half))

\* The three large registers are the Gram matrix of the exact vectors: the
\* incremental updates are right and no large register ever wraps.  (The
\* updates of nu, nv and sp in the main loop.)
GramExact ==
    /\ nu = Dot(eu, eu)
    /\ nv = Dot(ev, ev)
    /\ sp = Dot(eu, ev)

\* The small registers are the exact vectors modulo 2^Small, although the
\* first vectors do not fit ("The result is silently truncated if it does
\* not fit").
SmallIsTruncation ==
    /\ u = <<ToSmall(eu[1]), ToSmall(eu[2])>>
    /\ v = <<ToSmall(ev[1]), ToSmall(ev[2])>>

\* u and v stay a basis of the lattice of the pairs x = y * b modulo N: both
\* are in it and their determinant is +N or -N.  It is what makes c0 = c1 * b
\* and, with the bound on the loop's exit, c1 # 0.
BasisOfLattice ==
    /\ (eu[1] - eu[2] * b) % N = 0
    /\ (ev[1] - ev[2] * b) % N = 0
    /\ Det(eu, ev) \in {N, -N}

\* No vector ever gets longer than the first one, the test finds the longer
\* vector in u, and the loop ends on a vector of at most Target bits.  ("The
\* two operands MUST be nonnegative" of ult_large, and the order of the swap.)
NormsBounded ==
    /\ Dot(eu, eu) <= N * N /\ Dot(ev, ev) <= N * N
    /\ pc = "test" => Dot(ev, ev) <= Dot(eu, eu)
    /\ pc = "done" => Dot(ev, ev) < 2^Target

\* An iteration that does not return strictly shortens u: the quotient, taken
\* as a power of two, is never zero and never twice too large.  (The choice of
\* s and of the sign.)  Without it the loop could run forever.
ShrinksStep == pc = "test" /\ pc' = "order" => Dot(eu', eu') < Dot(eu, eu)
Shrinks == [][ShrinksStep]_vars

\* The function returns, for every scalar.
Terminates == <>(pc = "done")

\* The answer is what inner.h promises.
Promise == INSTANCE LatticePromise
             WITH HalfBound <- 2^(Half - 1), answer <- c, delivered <- (pc = "done")
KeepsPromise == Promise!Spec
=============================================================================
