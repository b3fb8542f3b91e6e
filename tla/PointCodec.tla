----------------------------- MODULE PointCodec -----------------------------
(***************************************************************************)
(* Field elements and points as 32 bytes.  Coefficients go by three into   *)
(* five bytes: 11 low bits of each, and 7 bits for the three upper parts,  *)
(* numbers of 0..4 written in base 5.                                      *)
(***************************************************************************)
EXTENDS CurvePoints, Sequences

Bytes == 0..255

\* the bytes of a group of three coefficients
GroupBytes(x0, x1, x2) ==
    LET s == x0 \div 2^11 + 5 * (x1 \div 2^11) + 25 * (x2 \div 2^11)
    IN  <<x0 % 2^8,
          ((x0 \div 2^8) % 2^3) + (x1 % 2^5) * 2^3,
          ((x1 \div 2^5) % 2^6) + (x2 % 2^2) * 2^6,
          (x2 \div 2^2) % 2^8,
          ((x2 \div 2^10) % 2) + s * 2>>

gf_encode(a) ==
    LET group(g) == GroupBytes(a[3 * g], a[3 * g + 1], a[3 * g + 2])
    IN  [i \in 1..32 |-> CASE i <= 30 -> group((i - 1) \div 5)[((i - 1) % 5) + 1]
                           [] i = 31 -> a[18] % 2^8
                           [] i = 32 -> a[18] \div 2^8]

\* "For all values x in 0..127, floor(x/5) = floor(x*103/512)."
FifthOf(w) == (w * 103) \div 2^9

\* a plausible bug: the top digit is kept below 5
GroupCoefficientsMasked(b) ==
    LET w == b[5] \div 2
        d == FifthOf(w)
        e == FifthOf(d)
    IN  <<b[1] + (b[2] % 2^3) * 2^8 + (w - 5 * d) * 2^11,
          b[2] \div 2^3 + (b[3] % 2^6) * 2^5 + (d - 5 * e) * 2^11,
          b[3] \div 2^6 + b[4] * 2^2 + (b[5] % 2) * 2^10 + (e % 5) * 2^11>>

\* What is read from five bytes: 128 values of the 7 bits, of which 125 are written.
GroupCoefficients(b) ==
    LET w == b[5] \div 2
        d == FifthOf(w)
        e == FifthOf(d)
    IN  <<b[1] + (b[2] % 2^3) * 2^8 + (w - 5 * d) * 2^11,
          b[2] \div 2^3 + (b[3] % 2^6) * 2^5 + (d - 5 * e) * 2^11,
          b[3] \div 2^6 + b[4] * 2^2 + (b[5] % 2) * 2^10 + e * 2^11>>

\* Coefficients above p-1 are reduced, and reported.
gf_decode(buf) ==
    LET group(g) == GroupCoefficients([k \in 1..5 |-> buf[5 * g + k]])
        read == [i \in Degrees |-> IF i = 18 THEN buf[31] + (buf[32] % 2^6) * 2^8
                                   ELSE group(i \div 3)[(i % 3) + 1]]
    IN  [ok |-> \A i \in Degrees : read[i] < P, value |-> Poly(read)]

-----------------------------------------------------------------------------
\* the bits of mask, set when the point is at infinity
Masked(byte, Q, mask) == IF Q.neutral THEN mask ELSE byte

point_encode(Q) ==
    LET x == gf_encode(Q.x)
    IN  [i \in 1..32 |->
            IF i < 32 THEN Masked(x[i], Q, 255)
            ELSE Masked(x[32] + (IF IsNegative(Q.y) THEN 2^6 ELSE 0), Q, 127)]

point_encode_X(Q) ==
    LET x == gf_encode(Q.x)
    IN  [i \in 1..32 |-> Masked(x[i], Q, IF i < 32 THEN 255 ELSE 63)]

point_decode(buf) ==
    LET x == gf_decode(buf)
        y == make_y(x.value, (buf[32] \div 2^6) % 2 = 1)
    IN  [neutral |-> ~(buf[32] < 2^7 /\ x.ok /\ y.ok), x |-> x.value, y |-> y.y]

-----------------------------------------------------------------------------
(* 48 bytes, 24 limbs of 16 bits, to a field element: digits in base p.    *)

max_xw == <<24, 24, 23, 22, 21, 20, 20, 19, 18, 17, 16, 15, 15, 14, 13, 12, 11, 10, 10>>

Word == 2^16

\* the n low words divided by p, from the n-th down, with the remainder after each k;
\* the words above are not looked at
Divide(x, n) ==
    LET remainder[k \in 0..n] ==
            IF k = 0 THEN 0 ELSE (x[n + 1 - k] + remainder[k - 1] * Word) % P
        quotient == [i \in 1..n |-> (x[i] + remainder[n - i] * Word) \div P]
    IN  [r |-> remainder[n], x |-> quotient \o SubSeq(x, n + 1, 24)]

\* a plausible bug: one word less
DividedShort(acc, n) ==
    LET division == Divide(acc.x, n - 1)
    IN  [x |-> division.x, c |-> Append(acc.c, division.r)]

\* one more coefficient
Divided(acc, n) ==
    LET division == Divide(acc.x, n)
    IN  [x |-> division.x, c |-> Append(acc.c, division.r)]

\* c: the 19 remainders, x: what is left
Digits(seed) ==
    LET after[i \in 0..19] ==
            IF i = 0 THEN [x |-> seed, c |-> <<>>] ELSE Divided(after[i - 1], max_xw[i])
    IN  after[19]

gf_map_to_base(seed) ==
    LET digits == Digits(seed) IN Poly([i \in Degrees |-> digits.c[i + 1]])
=============================================================================
