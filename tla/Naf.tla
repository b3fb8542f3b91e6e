-------------------------------- MODULE Naf --------------------------------
(***************************************************************************)
(* Recoding of a multiplier into odd signed digits (NAF_w), as ops_ref.c   *)
(* splits it: prepare_recode_NAF finds where the nonzero digits are, with  *)
(* their carries; the multiplication later reads each digit off the plain  *)
(* bits at that position, without any carry.  recode_NAFw of ops_avx2.c    *)
(* runs the same loop and writes the digits themselves.                    *)
(***************************************************************************)
EXTENDS Integers

CONSTANT ByteBits       \* 8

ASSUME ByteAssumption == ByteBits \in Nat \ {0}

\* The laws of powers of two that the proofs use, up to 2^m.
PowersUpTo(m) ==
    /\ 2^0 = 1 /\ 2^1 = 2
    /\ \A k \in 0..m : 2^k \in Nat \ {0}
    /\ \A k \in 0..m : \A l \in 0..(m - k) : 2^(k + l) = 2^k * 2^l

Byte(c, j) == (c \div 2^(ByteBits * j)) % 2^ByteBits

WithLowBitSet(x) == x + 1 - (x % 2)

\* the w bits of x from position s on, as an odd digit: (1 | (x >> s)) & (2^w - 1)
OddDigit(x, s, w) == WithLowBitSet((x \div 2^s) % 2^w)

\* the upper half of the digits stands for the negative ones
Signed(m, w) == IF m < 2^(w - 1) THEN m ELSE m - 2^w

-----------------------------------------------------------------------------
(* The loop of prepare_recode_NAF.  acc_len may become negative.           *)

NafStart == [acc |-> 0, acc_len |-> 0, u |-> 0, ones |-> {}]

\* At most one byte is read per turn.
Loaded(r, c, len, w) ==
    IF r.acc_len < w /\ r.u < len
    THEN [r EXCEPT !.acc = @ + Byte(c, r.u) * 2^(r.acc_len),
                   !.acc_len = @ + ByteBits,
                   !.u = @ + 1]
    ELSE r

\* a plausible bug: the carry is not added
EmittedNoCarry(r, v, w) ==
    IF r.acc % 2 = 1
    THEN [r EXCEPT !.acc = @ - (@ % 2^w), !.ones = @ \cup {v}]
    ELSE r

\* acc += acc & mask1; acc &= mask2
Emitted(r, v, w) ==
    LET mask1 == 2^(w - 1)
        raised == r.acc + ((r.acc \div mask1) % 2) * mask1
    IN  IF r.acc % 2 = 1
        THEN [r EXCEPT !.acc = raised - (raised % 2^w), !.ones = @ \cup {v}]
        ELSE r

NafTurn(r, c, len, w, v) ==
    LET e == Emitted(Loaded(r, c, len, w), v, w)
    IN  [e EXCEPT !.acc = @ \div 2, !.acc_len = @ - 1]

\* the digit recode_NAFw writes in a turn
EmittedDigit(r, c, len, w) ==
    LET acc == Loaded(r, c, len, w).acc IN IF acc % 2 = 1 THEN Signed(acc % 2^w, w) ELSE 0

\* The loop as a whole: r before each turn, and after the last.
NafLoop(c, len, w) ==
    LET turn[v \in 0..(ByteBits * len)] ==
            IF v = 0 THEN NafStart ELSE NafTurn(turn[v - 1], c, len, w, v - 1)
    IN  turn

\* where the nonzero digits of c are: the bit field rcbf
NafPositions(c, len, w) == NafLoop(c, len, w)[ByteBits * len].ones

\* the digits of c: the array rc[]
NafDigits(c, len, w) ==
    LET turn == NafLoop(c, len, w)
    IN  [v \in 0..(ByteBits * len - 1) |-> EmittedDigit(turn[v], c, len, w)]
=============================================================================
