----------------------------- MODULE FieldAvx2 -----------------------------
(***************************************************************************)
(* The extension field in ops_avx2.c.  A polynomial is a vgf: 16 lanes of  *)
(* u0, then 8 of u1, of which the last five "should be ignored; they are   *)
(* not necessarily zero".  A vector of words has two groups of four lanes, *)
(* that most instructions do not cross.                                    *)
(***************************************************************************)
EXTENDS FieldRef

Lanes == 0..23
Vectors == 0..7

VgfAdd(a, b) == [l \in Lanes |-> LaneAdd(a[l], b[l])]
VgfSub(a, b) == [l \in Lanes |-> LaneSub(a[l], b[l])]
VgfNeg(a)    == [l \in Lanes |-> LaneNeg(a[l])]
VgfCondneg(a, ctl) == IF ctl = 1 THEN VgfNeg(a) ELSE a

\* _mm256_bslli_epi128(v, 4) and _mm256_bsrli_epi128(v, 12)
Up(v)  == [l \in Vectors |-> IF l % 4 = 0 THEN 0 ELSE v[l - 1]]
Top(v) == [l \in Vectors |-> IF l % 4 = 0 THEN v[l + 3] ELSE 0]
\* _mm256_permute2x128_si256: a group of x (0, 1), of y (2, 3), or zero (8)
Permute(x, y, low, high) ==
    LET group(g, l) == CASE g \in {0, 1} -> x[4 * g + l]
                         [] g \in {2, 3} -> y[4 * (g - 2) + l]
                         [] g = 8 -> 0
    IN  [l \in Vectors |-> IF l < 4 THEN group(low, l) ELSE group(high, l - 4)]
AddVec(v, w) == [l \in Vectors |-> (v[l] + w[l]) % Word]

\* c0: a0 a1 a2 a3 : a8 a9 a10 a11    c1: a4 a5 a6 a7 : a12 a13 a14 a15
\* c2: a16 a17 a18 0 : 0 0 0 0
Spread(a) ==
    <<[l \in Vectors |-> IF l < 4 THEN a[l] ELSE a[l + 4]],
      [l \in Vectors |-> IF l < 4 THEN a[l + 4] ELSE a[l + 8]],
      [l \in Vectors |-> IF l < 3 THEN a[l + 16] ELSE 0]>>

\* "Morph a into z*a": what leaves the fourth lane of c2 is dropped.
Morph(c) ==
    <<AddVec(Up(c[1]), Permute(Top(c[2]), Top(c[2]), 8, 2)),
      AddVec(Up(c[2]), Top(c[1])),
      AddVec(Up(c[3]), Permute(Top(c[2]), Top(c[2]), 3, 8))>>

\* the vectors that are summed at offset t: b[k] times z^(k % 4) a
Terms(t) == {k \in 0..18 : t - 4 * (k \div 4) \in {0, 4, 16}}

\* a plausible bug: both factors' highest coefficients are dropped and forgotten
NoSquareOfTop(a, b) == 0
SquareOfTop(a, b) == a[18] * b[18]

\* "Since we dropped a17 and a18, we lack some products"
Lost(a, b, t) ==
    CASE t = 20 -> [l \in Vectors |->
             CASE l \in {0, 4} -> a[17] * b[3 + 2 * l] + a[18] * b[2 + 2 * l]
               [] l \in {1, 5} -> a[18] * b[1 + 2 * l] [] OTHER -> 0]
      [] t = 24 -> [l \in Vectors |->
             CASE l \in {0, 4} -> a[17] * b[7 + 2 * l] + a[18] * b[6 + 2 * l]
               [] l \in {1, 5} -> a[18] * b[5 + 2 * l] [] OTHER -> 0]
      [] t = 36 -> [l \in Vectors |-> IF l = 0 THEN SquareOfTop(a, b) ELSE 0]
      [] OTHER -> [l \in Vectors |-> 0]

\* The vectors t0_8, t4_12, ..., t32, t36: lane l of t holds degree t + l, or
\* t + l + 4 in the upper group.
Sums(a, b) ==
    LET c0 == Spread(a)   c1 == Morph(c0)   c2 == Morph(c1)   c3 == Morph(c2)
        c == <<c0, c1, c2, c3>>
        part(t, k) == CASE t - 4 * (k \div 4) = 0 -> 1 [] t - 4 * (k \div 4) = 4 -> 2 [] OTHER -> 3
    IN  [t \in {4 * i : i \in 0..9} |->
            LET lost == Lost(a, b, t)
            IN  [l \in Vectors |->
                    (lost[l] + Sum(Terms(t), LAMBDA k : b[k] * c[(k % 4) + 1][part(t, k)][l])) % Word]]

\* "Do cross-lane moves and adds", then "reduction modulo z^19-2"
Crossed(t) ==
    [j \in {0, 4, 16, 20, 32, 36} |->
        CASE j = 0  -> AddVec(t[0], Permute(t[8], t[8], 8, 0))
          [] j = 4  -> AddVec(t[4], Permute(t[12], t[12], 8, 0))
          [] j = 16 -> AddVec(t[16], Permute(t[8], t[24], 1, 2))
          [] j = 20 -> AddVec(t[20], Permute(t[12], t[28], 1, 2))
          [] j = 32 -> AddVec(t[32], Permute(t[24], t[24], 1, 8))
          [] j = 36 -> t[36]]

Wrapped(t) ==
    LET t19 == AddVec(Top(t[16]), Up(t[20]))
        t23 == AddVec(Permute(Up(t[16]), Up(t[32]), 1, 2), Top(t[20]))
        t35 == AddVec(Top(t[32]), Up(t[36]))
        plusTwice(v, w) == AddVec(v, AddVec(w, w))
    IN  <<plusTwice(t[0], t19), plusTwice(t[4], t23), plusTwice(t[16], t35)>>

\* unpacked vectors of words, back to lanes of half words
Packed(v) ==
    [l \in Lanes |-> CASE l \in 0..3 -> v[1][l]        [] l \in 4..7 -> v[2][l - 4]
                       [] l \in 8..11 -> v[1][l - 4]   [] l \in 12..15 -> v[2][l - 8]
                       [] l \in 16..19 -> v[3][l - 16] [] l \in 20..23 -> v[3][l - 20]]

VgfMul(a, b) ==
    LET words == Packed(Wrapped(Crossed(Sums(a, b))))
    IN  [l \in Lanes |-> LaneFromMonty(words[l])]

\* the unused lanes of the coefficients are zero
VgfFrob(a, f) ==
    [l \in Lanes |-> LaneMulConst(a[l], CASE l = 0 -> R [] l \in 1..18 -> f[l] [] OTHER -> 0)]

\* b18 ... b1, doubled as half words, facing a1 ... a18
VgfMulToLow(a, b) ==
    WideFromMonty(Sum(Degrees, LAMBDA i : a[i] * (IF i = 0 THEN b[0] ELSE (2 * b[19 - i]) % Half)))

VgfMulConst(a, k) == [l \in Lanes |-> LaneMulConst(a[l], k)]

\* "Take care that 3*u + 7755 [...] fits in 16 bits but not with signed interpretation"
VgfSlope(a) ==
    [l \in Lanes |->
        LET minus2(t) == (t - (IF Signed(t) > 2 * P THEN 2 * P ELSE 0)) % Half
            minus1(t) == (t - (IF Signed(t) > P THEN P ELSE 0)) % Half
            sum == (3 * a[l] + (IF l = 0 THEN Am ELSE 0)) % Half
            first == IF l < 16 /\ Signed(sum) < 0 THEN (sum - 2 * P) % Half ELSE sum
        IN  minus1(minus2(first))]

\* "coefficients 0..8 in the result may range up to 2*p"
VgfMulz9(a) ==
    [l \in Lanes |-> CASE l <= 8 -> (2 * a[l + 10]) % Half
                       [] l \in 9..18 -> a[l - 9]
                       [] OTHER -> 0]

\* sums of unreduced products by constants: vgf_mul_const_noreduce,
\* vgf_mulacc_const_noreduce, vgf_montyred
Montyred(words) == [l \in Lanes |-> LaneFromMonty(words[l] % Word)]

Inverse2 == (P + 1) \div 2
VgfFirstDoubleY(S, ZZ, XXXX, XX, x1) ==
    LET M == VgfMulz9(ZZ)
        z9 == VgfMulz9(x1)
        quarter == (Inverse2 * Inverse2) % P
        D16R == (((quarter * quarter) % P) * R) % P
        D4EighteenBm == ((quarter * ((18 * Bm) % P)) % P)
    IN  Montyred([l \in Lanes |->
            S[l] * D16R + M[l] * D4EighteenBm + XXXX[l] * Rep(-9) + XX[l] * Rep(-54)
            + z9[l] * ((72 * Bm) % P)
            + (CASE l = 0 -> Rep2(27)
                 [] l = 18 -> MinusTwentySevenBBmm
                 [] OTHER -> 0)])
=============================================================================
