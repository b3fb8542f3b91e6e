----------------------------- MODULE NafRecode -----------------------------
(***************************************************************************)
(* prepare_recode_NAF of ops_ref.c and recode_NAFw of ops_avx2.c on every  *)
(* multiplier they may be given: one action per turn of the loop.          *)
(***************************************************************************)
EXTENDS Naf

CONSTANTS Len,          \* bytes of the multiplier
          W             \* width of the window

Length == ByteBits * Len

VARIABLES build,        \* whose loop: "ref" or "avx2"
          c,            \* the multiplier
          r,            \* acc, acc_len, u and the bit field rcbf
          v,            \* the position the loop has reached
          read          \* history: the sum of the digits found so far

vars == <<build, c, r, v, read>>

\* "The top bit of the last byte must be zero."
Init ==
    /\ build \in {"ref", "avx2"}
    /\ c \in 0..(2^(Length - 1) - 1)
    /\ r = NafStart
    /\ v = 0
    /\ read = 0

\* The digit at p as the multiplication of ops_ref.c will form it, from c alone.
DigitAt(p) == Signed(OddDigit(c, p, W), W)

DigitFound == CASE build = "ref" /\ v \in r'.ones -> DigitAt(v)
                [] build = "ref" /\ v \notin r'.ones -> 0
                [] build = "avx2" -> EmittedDigit(r, c, Len, W)

Turn ==
    /\ v < Length
    /\ r' = NafTurn(r, c, Len, W, v)
    /\ v' = v + 1
    /\ read' = read + DigitFound * 2^v
    /\ UNCHANGED <<build, c>>

Next == Turn

-----------------------------------------------------------------------------
\* What has been written, read back without carries, and what is still in the
\* accumulator and in the unread bytes always add up to the multiplier; nothing
\* is left at the end.  (The comment of mul2_mulgen_add: "NAF_w recoding is
\* computed on the fly, using the bits prepared in the rcbf*[] arrays.")
NothingLost ==
    /\ read + r.acc * 2^v + (c \div 2^(ByteBits * r.u)) * 2^(ByteBits * r.u) = c
    /\ v = Length => r.acc = 0 /\ r.u = Len
=============================================================================
