----------------------------- MODULE LatticeArm -----------------------------
(***************************************************************************)
(* curve9767_inner_reduce_basis_vartime of scalar_arm.c with its assembly  *)
(* core (scalar_cm0.s; scalar_cm4.s has the same steps).  The large        *)
(* registers shrink as the vectors do: once nu leaves the top two words    *)
(* unused, nu, nv and sp lose these words.  The comment argues that |sp|   *)
(* cannot exceed nu at that point; nothing in the code checks it.          *)
(***************************************************************************)
EXTENDS LatticeBasis

CONSTANTS Step,         \* the bits lost at a time (two words, 64)
          Sizes         \* the widths the large registers can have

VARIABLES b, u, v, nu, nv, sp, pc, c, eu, ev,   \* as in LatticeReduce
          width                                 \* current bits of nu, nv and sp (r6)

gram == <<nu, nv, sp>>
vars == <<b, u, v, nu, nv, sp, pc, c, eu, ev, width>>

Init ==
    /\ b \in Scalars
    /\ u = <<ToSmall(N), 0>>
    /\ v = <<ToSmall(Normalize(b)), 1>>
    /\ nu = Trunc(N * N, Large)
    /\ nv = Trunc(Normalize(b) * Normalize(b) + 1, Large)
    /\ sp = Trunc(N * Normalize(b), Large)
    /\ pc = "order"
    /\ c = <<0, 0>>
    /\ eu = <<N, 0>>
    /\ ev = <<Normalize(b), 1>>
    /\ width = Large

\* r5 toggles between 0 and 32: the names of the two halves of tab[] change
Swap ==
    /\ pc = "order"
    /\ Ult(nu, nv, width)
    /\ u' = v /\ v' = u
    /\ nu' = nv /\ nv' = nu
    /\ eu' = ev /\ ev' = eu
    /\ pc' = "size"
    /\ UNCHANGED <<b, sp, c, width>>

Keep ==
    /\ pc = "order"
    /\ ~Ult(nu, nv, width)
    /\ pc' = "size"
    /\ UNCHANGED <<b, u, v, gram, c, eu, ev, width>>

\* plausible bugs: no room left for the sign; the smaller norm is tested
TopWordsUnusedNoSign == width > Step /\ nu \in 0..(2^(width - Step) - 1)
TopWordsUnusedOfNv == width > Step /\ nv \in 0..(2^(width - Step - 1) - 1)

\* the top two words of nu and the sign bit of the word below are zero
TopWordsUnused == width > Step /\ nu \in 0..(2^(width - Step - 1) - 1)

Narrow ==
    /\ pc = "size"
    /\ TopWordsUnused
    /\ width' = width - Step
    /\ nu' = Trunc(nu, width - Step)
    /\ nv' = Trunc(nv, width - Step)
    /\ sp' = Trunc(sp, width - Step)
    /\ pc' = "test"
    /\ UNCHANGED <<b, u, v, c, eu, ev>>

KeepWidth ==
    /\ pc = "size"
    /\ ~TopWordsUnused
    /\ pc' = "test"
    /\ UNCHANGED <<b, u, v, gram, c, eu, ev, width>>

ShortEnough == BitLength(nv) <= Target

Return ==
    /\ pc = "test"
    /\ ShortEnough
    /\ c' = ToHalf(v)
    /\ pc' = "done"
    /\ UNCHANGED <<b, u, v, gram, eu, ev, width>>

Combine(sign, s) ==
    /\ u' = CombineSmall(sign, u, v, s)
    /\ nu' = CombineNorm(sign, nu, nv, sp, s, width)
    /\ sp' = CombineDot(sign, nv, sp, s, width)
    /\ eu' = CombineExact(sign, eu, ev, s)
    /\ pc' = "order"
    /\ UNCHANGED <<b, v, nv, c, ev, width>>

Subtract == pc = "test" /\ ~ShortEnough /\ sp >= 0 /\ Combine(-1, AlignShift(sp, nv))
Add == pc = "test" /\ ~ShortEnough /\ sp < 0 /\ Combine(1, AlignShift(sp, nv))

Next == Swap \/ Keep \/ Narrow \/ KeepWidth \/ Return \/ Subtract \/ Add

-----------------------------------------------------------------------------
\* Losing the top words loses nothing: the Gram matrix of the exact vectors
\* is still the one in the registers.  (L_reduce_core__size: "We know that
\* |sp| <= nu; thus, if the top two words of nu are redundant, then we can
\* reduce the size by two words".)
NarrowingLossless ==
    /\ nu = Dot(eu, eu)
    /\ nv = Dot(ev, ev)
    /\ sp = Dot(eu, ev)

\* The core runs the loop of the reference code: with the width forgotten, and
\* the test of the size as a stutter, each step is a step of LatticeReduce.
Reference == INSTANCE LatticeReduce WITH pc <- IF pc = "size" THEN "test" ELSE pc
RunsReferenceSteps == Reference!Spec
RunsReferenceLoop == Reference!FairSpec
=============================================================================
