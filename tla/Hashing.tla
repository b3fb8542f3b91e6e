------------------------------ MODULE Hashing ------------------------------
(***************************************************************************)
(* The hashing contexts (Shake), whose permutation is a black box, and     *)
(* that permutation (Keccak).  A behaviour is one of the two.              *)
(***************************************************************************)
EXTENDS Shake, Keccak

\* States for the model: zero, and one with a few bits in every word.
Zero == [k \in Words |-> {}]
Scattered == [k \in Words |-> {(7 * k) % 64, (11 * k * k + 3) % 64, 63 - k}]
SomeBlocks == {Zero, Scattered}

HashingInit ==
    /\ Init
    /\ \/ PermutationInit
       \/ build = "none" /\ A = (CHOOSE S \in Blocks : TRUE) /\ j = 0 /\ stage = "invert"

ContextStep == build = "none" /\ Next /\ UNCHANGED permuting
PermutationStep == build # "none" /\ PermutationNext /\ UNCHANGED vars

\* A call that was made runs to its end; nobody has to make one.
HashingSpec ==
    /\ HashingInit
    /\ [][ContextStep \/ PermutationStep]_<<vars, permuting>>
    /\ WF_<<vars, permuting>>(\E c \in Ctxs : (InjectChunk(c) \/ ExtractChunk(c)) /\ UNCHANGED permuting)
=============================================================================
