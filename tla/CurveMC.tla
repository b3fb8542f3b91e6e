------------------------------ MODULE CurveMC ------------------------------
(***************************************************************************)
(* Seeds for module Curve: zero and p^19, which are mapped to zero, the    *)
(* greatest value, and a vector of the tests of the repository             *)
(* (KAT_MAP_TO_BASE in test_curve9767.c).                                  *)
(***************************************************************************)
EXTENDS Curve

ZeroSeed == [i \in 1..24 |-> 0] \o <<>>
MaxSeed == [i \in 1..24 |-> 65535] \o <<>>
\* p^19
MultipleSeed ==
        <<37431, 62994, 62298, 21566, 13837, 50594, 43208, 13794, 29741, 54836, 11790, 40843,
          57171, 11899, 19200, 3616, 0, 0, 0, 0, 0, 0, 0, 0>>
TestSeed ==
        <<51010, 54467, 3381, 33462, 4658, 33343, 19808, 3469, 32010, 62277, 9663, 17467,
          59403, 39628, 4135, 22687, 38037, 20446, 50559, 15611, 34138, 171, 23292, 29286>>

MCSeeds == <<ZeroSeed, MultipleSeed, MaxSeed, TestSeed>>
=============================================================================
