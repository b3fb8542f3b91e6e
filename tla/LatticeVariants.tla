--------------------------- MODULE LatticeVariants ---------------------------
(***************************************************************************)
(* The three reductions on the same scalar: the reference code first, then *)
(* the ARM core, then the amd64 function.  Each runs on registers of its   *)
(* own; the names of those of the ARM core end in 1, of those of the amd64 *)
(* function in 2.                                                          *)
(***************************************************************************)
EXTENDS LatticeReduce

CONSTANTS Step, Sizes,          \* as in LatticeArm
          NarrowWidth, MaxShift      \* as in LatticeAmd64

ASSUME StepAssumption ==
    /\ Step \in Nat \ {0}
    /\ Sizes \subseteq 1..Large /\ Large \in Sizes
    /\ \A w \in Sizes : w - Step > 0 => w - Step \in Sizes

ASSUME NarrowAssumption == NarrowWidth \in 1..Large /\ MaxShift \in Nat

VARIABLES u1, v1, nu1, nv1, sp1, pc1, c1, eu1, ev1, width,
          u2, v2, nu2, nv2, sp2, pc2, c2, eu2, ev2, loop, topNegative, astray

reference == <<u, v, nu, nv, sp, pc, c, eu, ev>>
arm == <<u1, v1, nu1, nv1, sp1, pc1, c1, eu1, ev1, width>>
amd64 == <<u2, v2, nu2, nv2, sp2, pc2, c2, eu2, ev2, loop, topNegative, astray>>
allVars == <<b, reference, arm, amd64>>

Arm == INSTANCE LatticeArm WITH
           u <- u1, v <- v1, nu <- nu1, nv <- nv1, sp <- sp1,
           pc <- pc1, c <- c1, eu <- eu1, ev <- ev1
Amd64 == INSTANCE LatticeAmd64 WITH
             u <- u2, v <- v2, nu <- nu2, nv <- nv2, sp <- sp2,
             pc <- pc2, c <- c2, eu <- eu2, ev <- ev2

VariantsInit == Init /\ Arm!Init /\ Amd64!Init

ReferenceStep == Next /\ UNCHANGED <<arm, amd64>>
ArmStep == pc = "done" /\ Arm!Next /\ UNCHANGED <<reference, amd64>>
Amd64Step == pc1 = "done" /\ Amd64!Next /\ UNCHANGED <<reference, arm>>

VariantsNext == ReferenceStep \/ ArmStep \/ Amd64Step

VariantsSpec == VariantsInit /\ [][VariantsNext]_allVars

\* The code is sequential: the function that runs takes its next step.
VariantsFairSpec == VariantsSpec /\ WF_allVars(VariantsNext)

-----------------------------------------------------------------------------
\* The ARM core (scalar_cm0.s) loses nothing with the top words of its registers:
\* the Gram matrix of the exact vectors is still the one in the registers.
NarrowingLossless == Arm!NarrowingLossless

\* With the widths forgotten, the ARM core runs the loop of scalar_ref.c: it takes its
\* steps, and runs until it returns.
RunsReferenceSteps == Arm!RunsReferenceSteps
RunsReferenceLoop == Arm!RunsReferenceLoop

\* Neither does scalar_amd64.c with the top words that its second loop leaves out, and
\* its first loop keeps to the course on both of its paths: only in the second loop can
\* a step be taken on a sign that is not that of sp.
SwitchLossless == Amd64!SwitchLossless

\* The ARM core returns the very pair the reference code returns.  So does the
\* amd64 function unless a step went astray: entering the second loop at its top repeats
\* no swap.
SameAnswer == /\ pc1 = "done" => c1 = c
              /\ pc2 = "done" /\ ~astray => c2 = c

\* All return: the amd64 function unless a step went astray.
TerminatesOnCourse == <>(pc1 = "done" /\ (pc2 = "done" \/ astray))
=============================================================================
