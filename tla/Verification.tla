---------------------------- MODULE Verification ----------------------------
(***************************************************************************)
(* The verification of an equation between points (VerifyProduct), and the *)
(* recoding it uses on every multiplier (NafRecode).  A behaviour is one   *)
(* of the two.                                                             *)
(***************************************************************************)
EXTENDS VerifyProduct

CONSTANT RecodeLen      \* bytes of the multipliers recoded by themselves

\* One byte per turn must be enough.
ASSUME RecodeAssumption == RecodeLen \in Nat \ {0} /\ W \in 2..ByteBits
ASSUME RecodePowerLaws == PowersUpTo(ByteBits * RecodeLen + ByteBits)

VARIABLES c, r, v, read \* as in NafRecode

Recode == INSTANCE NafRecode WITH Len <- RecodeLen

recoding == <<c, r, v, read>>
verifying == <<q1, s1, s2, q2, prepared, acc, i, dbl, q3, pc, verdict, sums>>

Recodes == pc = "recode"

\* No call is made where the recoding runs by itself.
VerificationInit ==
    \/ Init /\ c = 0 /\ r = Recode!NafStart /\ v = 0 /\ read = 0
    \/ /\ Recode!Init
       /\ s1 = 0 /\ s2 = 0 /\ q1 = Infinity /\ q2 = Infinity /\ q3 = Infinity
       /\ mult = <<0, 0, 0>> /\ neg0 = FALSE /\ neg1 = FALSE
       /\ rcbf = <<>> /\ rc = <<>> /\ window = <<>>
       /\ acc = <<>> /\ i = 0 /\ dbl = 0
       /\ pc = "recode" /\ verdict = "none" /\ sums = <<>>

VerifyStep == Next /\ UNCHANGED recoding
RecodeStep == Recodes /\ Recode!Next /\ UNCHANGED verifying

VerificationSpec ==
    VerificationInit /\ [][VerifyStep \/ RecodeStep]_<<vars, recoding>>

-----------------------------------------------------------------------------
\* At every turn, the digits written, the accumulator and the unread bytes add up
\* to the multiplier: no carry is lost at a byte boundary, nor at the top.
NothingLost == Recodes => Recode!NothingLost
=============================================================================
