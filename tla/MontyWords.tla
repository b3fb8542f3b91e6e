----------------------------- MODULE MontyWords -----------------------------
(***************************************************************************)
(* The base field on machine words.  An element is an integer of 1..P, P   *)
(* standing for zero; words wrap modulo the square of Half.  Reduction     *)
(* omits both the addition and the final correction of Montgomery's        *)
(* algorithm, which is right up to an exact bound on its operand.          *)
(***************************************************************************)
EXTENDS Integers

CONSTANTS P,            \* the modulus: 9767
          W,            \* bits of a half word: 16
          P1I,          \* -1/P modulo the size of a word
          R2            \* the square of the size of a word, modulo P

Half == 2^W
Word == Half * Half

\* the largest operand of a reduction, 3654952486 in the source
MaxOperand == 2 * Word - 1 - (Half - 1) * (P + Half)

ASSUME MontyAssumption ==
    /\ P \in Nat /\ P > 1 /\ Half \in Nat
    /\ 4 * P < Half
    /\ P1I \in 0..(Word - 1) /\ R2 \in 1..P
    /\ (P * P1I + 1) % Word = 0
    /\ (R2 - Word * Word) % P = 0
    /\ MaxOperand \in 1..(Word - 1)

Elements == 1..P

\* "P & -(c >> 31)"
Correction(c) == IF 2 * c >= Word THEN P ELSE 0

\* a plausible bug: results lie in 0..p-1
MpAddFromZero(a, b) ==
    LET c == (a + b - P) % Word
    IN  (c + Correction(c)) % Word

MpAdd(a, b) ==
    LET c == (P - (a + b)) % Word
    IN  (P - (c + Correction(c))) % Word

MpSub(a, b) ==
    LET c == (b - a) % Word
    IN  (P - (c + Correction(c))) % Word

\* x / Word, for x in 1..MaxOperand
FromMonty(x) == 1 + ((((x * P1I) % Word) \div Half) * P) \div Half

\* the same in ops_avx2.c, with the addition
WideFromMonty(x) == (((x * P1I) % Word) * P + x) \div Word

MontyMul(a, b) == FromMonty((a * b) % Word)

\* "We add p to x so that a source value x == 0 is supported."
ToMonty(x) == FromMonty(((x + P) * R2) % Word)

-----------------------------------------------------------------------------
(* The same on lanes of half words, where comparisons are signed. *)

Signed(h) == IF 2 * h >= Half THEN h - Half ELSE h

\* "32-bit value x0:x1 must first be replaced with (((x0*p0) >> 16) + x0*p1 + x1*p0)"
LaneFromMonty(x) ==
    LET x0 == x % Half       x1 == x \div Half
        p0 == P1I % Half     p1 == P1I \div Half
        y1 == ((x0 * p0) \div Half + x0 * p1 + x1 * p0) % Half
    IN  1 + (y1 * P) \div Half

\* a product by a constant k that was multiplied by P1I beforehand
LaneMulConst(a, k) ==
    LET kp == (k * P1I) % Word
        y1 == ((a * (kp % Half)) \div Half + a * (kp \div Half)) % Half
    IN  (1 + (y1 * P) \div Half) % Half

LaneAdd(a, b) ==
    LET t == (a + b) % Half
    IN  (t - (IF Signed(t) > P THEN P ELSE 0)) % Half

LaneSub(a, b) ==
    LET t == (a - b) % Half
    IN  (t + (IF Signed(a) > Signed(b) THEN 0 ELSE P)) % Half

LaneNeg(a) ==
    LET t == (P - a) % Half
    IN  (t + (IF P > Signed(a) THEN 0 ELSE P)) % Half
=============================================================================
