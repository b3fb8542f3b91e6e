---------------------------- MODULE LatticeAmd64 ----------------------------
(***************************************************************************)
(* curve9767_inner_reduce_basis_vartime of scalar_amd64.c.  It has two     *)
(* loops: the first works on eight words (nu_0 .. nu_7 and so on), and is  *)
(* left for good, for a loop on six words, once nu fits these.  In each    *)
(* loop a shift above MaxShift goes through generic functions.             *)
(*                                                                         *)
(* The generic path of the second loop takes the sign of sp from sp_7, a   *)
(* word that loop no longer maintains: topNegative is that word's sign.    *)
(***************************************************************************)
EXTENDS LatticeBasis

CONSTANTS NarrowWidth,       \* bits of a large register in the second loop (384)
          MaxShift      \* the largest shift done inline (31)

VARIABLES b, u, v, nu, nv, sp, pc, c, eu, ev,   \* as in LatticeReduce
          loop,                                 \* which of the two loops runs
          topNegative,                          \* the sign bit of sp_7
          astray                                \* history: a step took the wrong sign

gram == <<nu, nv, sp>>
vars == <<b, u, v, nu, nv, sp, pc, c, eu, ev, loop, topNegative, astray>>

Width == IF loop = 1 THEN Large ELSE NarrowWidth

Init ==
    /\ b \in Scalars
    /\ u = <<ToSmall(N), 0>>
    /\ v = <<ToSmall(Normalize(b)), 1>>
    /\ nu = Trunc(N * N, Large)
    /\ nv = Trunc(Normalize(b) * Normalize(b) + 1, Large)
    /\ sp = Trunc(N * Normalize(b), Large)
    /\ pc = "order"
    /\ c = <<0, 0>>
    /\ eu = <<N, 0>>
    /\ ev = <<Normalize(b), 1>>
    /\ loop = 1
    /\ topNegative = FALSE
    /\ astray = FALSE

Swap ==
    /\ pc = "order"
    /\ Ult(nu, nv, Width)
    /\ u' = v /\ v' = u
    /\ nu' = nv /\ nv' = nu
    /\ eu' = ev /\ ev' = eu
    /\ pc' = "test"
    /\ UNCHANGED <<b, sp, c, loop, topNegative, astray>>

Keep ==
    /\ pc = "order"
    /\ ~Ult(nu, nv, Width)
    /\ pc' = "test"
    /\ UNCHANGED <<b, u, v, gram, c, eu, ev, loop, topNegative, astray>>

\* a plausible bug: no room left for the sign
FitsNarrowNoSign == loop = 1 /\ nu \in 0..(2^NarrowWidth - 1)

\* nu fits six words with its sign: go to the second loop
FitsNarrow == loop = 1 /\ nu \in 0..(2^(NarrowWidth - 1) - 1)

EnterNarrow ==
    /\ pc = "test"
    /\ FitsNarrow
    /\ loop' = 2
    /\ nu' = Trunc(nu, NarrowWidth) /\ nv' = Trunc(nv, NarrowWidth) /\ sp' = Trunc(sp, NarrowWidth)
    /\ pc' = "order"
    /\ UNCHANGED <<b, u, v, c, eu, ev, topNegative, astray>>

\* a plausible bug: a target that no reduced vector need reach
ShortEnoughTooStrict == BitLength(nv) <= Target - 2

\* a plausible bug: the target of another bound on the norm, a bit longer
ShortEnoughOneBitMore == BitLength(nv) <= Target + 1

ShortEnough == BitLength(nv) <= Target

Return ==
    /\ pc = "test"
    /\ ~FitsNarrow
    /\ ShortEnough
    /\ c' = ToHalf(v)
    /\ pc' = "done"
    /\ UNCHANGED <<b, u, v, gram, eu, ev, loop, topNegative, astray>>

\* One iteration with the sign the code took.  The exact vectors are followed
\* as long as that was the sign of sp.
Combine(negative, s) ==
    LET sign == IF negative THEN 1 ELSE -1 IN
    /\ u' = CombineSmall(sign, u, v, s)
    /\ nu' = CombineNorm(sign, nu, nv, sp, s, Width)
    /\ sp' = CombineDot(sign, nv, sp, s, Width)
    /\ topNegative' = IF loop = 1 THEN sp' < 0 ELSE topNegative
    /\ astray' = (astray \/ negative # (sp < 0))
    /\ eu' = IF astray' THEN eu ELSE CombineExact(sign, eu, ev, s)
    /\ pc' = "order"
    /\ UNCHANGED <<b, v, nv, c, ev, loop>>

Inline ==
    /\ pc = "test" /\ ~FitsNarrow /\ ~ShortEnough
    /\ AlignShift(sp, nv) <= MaxShift
    /\ Combine(sp < 0, AlignShift(sp, nv))

\* Both loops test sp_7 here.
Generic ==
    /\ pc = "test" /\ ~FitsNarrow /\ ~ShortEnough
    /\ AlignShift(sp, nv) > MaxShift
    /\ Combine(topNegative, AlignShift(sp, nv))

Next == Swap \/ Keep \/ EnterNarrow \/ Return \/ Inline \/ Generic

Spec == Init /\ [][Next]_vars
FairSpec == Spec /\ WF_vars(Next)

-----------------------------------------------------------------------------
\* Going from eight words to six loses nothing: the registers still hold the scalar
\* products of the exact vectors, which no register is wide enough to show.  ("Since all
\* squared norms are positive, and since N(u) >= N(v), it is guaranteed that |sp| <= nu.
\* Thus, if nu fits on 6 words (including the sign bit), then we can jump to phase 2".)
\* In the first loop this holds whatever path was taken; in the second, until a step
\* is taken on the stale sign.
SwitchLossless ==
    loop = 1 \/ ~astray => /\ nu = Dot(eu, eu)
                           /\ nv = Dot(ev, ev)
                           /\ sp = Dot(eu, ev)

\* The function returns for every scalar: inner.h gives it no other outcome
\* ("Given a scalar b, compute signed integers c0 and c1").
Terminates == <>(pc = "done")
=============================================================================
