----------------------------- MODULE FieldCalls -----------------------------
(***************************************************************************)
(* The field functions: the calls on polynomials (Field), and the programs *)
(* that raise to large powers by such calls (FieldPowers).  A behaviour is *)
(* one of the two.                                                         *)
(***************************************************************************)
EXTENDS Field

VARIABLES prog, step, reg

Powers == INSTANCE FieldPowers

vars == <<build, x, y, call, left, prog, step, reg>>

Zero == [i \in 0..18 |-> P]

Init == \/ KernelInit /\ prog = "none" /\ step = 0 /\ reg = <<>>
        \/ Powers!Init /\ x = Zero /\ y = Zero /\ call = "" /\ left = 0

KernelCall == prog = "none" /\ KernelNext /\ UNCHANGED <<prog, step, reg>>
PowerStep == prog # "none" /\ Powers!Next /\ UNCHANGED <<x, y, call, left>>

Next == KernelCall \/ PowerStep

\* A function that runs takes its next step: the code is sequential.
Spec == Init /\ [][Next]_vars /\ WF_vars(PowerStep)

-----------------------------------------------------------------------------
\* Every result is a valid operand, whatever the sequence of calls: coefficients
\* lie in 1..p, in both programs, so that no later sum of products passes the
\* bound of the reduction (mp_frommonty, gf_add, vgf_add and the others).
Reduced == \A i \in Degrees : x[i] \in Elements /\ y[i] \in Elements

\* Each call returns what polynomial arithmetic modulo z^19 - 2 says, although
\* products go through three half-size products, or through lanes with the two
\* highest coefficients dropped and added back, unused lanes hold anything, and
\* sums of several products are reduced once.
IsFieldRing == Ring!Spec

\* gf_inv, gf_sqrt, gf_cubert, mp_inv and mp_is_qr raise to the powers that invert,
\* halve and take a third of the exponent; the residue test of gf_sqrt is on the
\* power (p^19-1)/2.
ReachesPower == prog # "none" => Powers!ReachesPower

\* They end: every Frobenius table is one of the operators, and what is reduced to
\* its low coefficient is in the base field.
Ends == prog # "none" ~> (prog # "none" /\ Powers!Returned)
=============================================================================
