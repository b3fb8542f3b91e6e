------------------------------ MODULE KeccakF ------------------------------
(***************************************************************************)
(* Keccak-f[1600] as FIPS 202 defines it, step mapping by step mapping.    *)
(* The lane (x, y) has the number x + 5*y; a lane is the set of its bits.  *)
(***************************************************************************)
EXTENDS Integers

CONSTANT Blocks         \* the states to permute

VARIABLES A,            \* the state
          round         \* rounds done

vars == <<A, round>>

Bits == 0..63
Lanes == 0..24
X(k) == k % 5
Y(k) == k \div 5
LaneAt(x, y) == (x % 5) + 5 * (y % 5)

Xor(p, q) == (p \ q) \cup (q \ p)
Rotl(p, n) == { (bit + n) % 64 : bit \in p }

Theta(S) ==
    LET column == [x \in 0..4 |-> Xor(S[x], Xor(S[x + 5], Xor(S[x + 10], Xor(S[x + 15], S[x + 20]))))]
    IN  [k \in Lanes |-> Xor(S[k], Xor(column[(X(k) + 4) % 5],
                                       Rotl(column[(X(k) + 1) % 5], 1)))]

\* The lanes in the order of their offsets, which are the triangular numbers.
Walk ==
    LET lane[t \in 0..23] ==
            IF t = 0 THEN LaneAt(1, 0)
            ELSE LET last == lane[t - 1] IN LaneAt(Y(last), 2 * X(last) + 3 * Y(last))
    IN  lane

Offset(k) ==
    IF k = 0 THEN 0
    ELSE LET t == CHOOSE t \in 0..23 : Walk[t] = k IN (((t + 1) * (t + 2)) \div 2) % 64

Rho(S) == [k \in Lanes |-> Rotl(S[k], Offset(k))]

Pi(S) == [k \in Lanes |-> S[LaneAt(X(k) + 3 * Y(k), X(k))]]

Chi(S) ==
    [k \in Lanes |-> Xor(S[k], S[LaneAt(X(k) + 2, Y(k))] \ S[LaneAt(X(k) + 1, Y(k))])]

\* The shift register of the round constants, modulo x^8 + x^6 + x^5 + x^4 + 1.
Register ==
    LET state[t \in 0..167] ==
            IF t = 0 THEN {0}
            ELSE LET shifted == { bit + 1 : bit \in state[t - 1] }
                 IN  IF 8 \in shifted THEN Xor(shifted, {8, 6, 5, 4, 0}) ELSE shifted
    IN  state

\* 2^m - 1, for m from 0 to 6
Position == <<0, 1, 3, 7, 15, 31, 63>>

Constant(r) == { Position[m + 1] : m \in { m \in 0..6 : 0 \in Register[m + 7 * r] } }

Iota(S, r) == [S EXCEPT ![0] = Xor(@, Constant(r))]

Init == A \in Blocks /\ round = 0

Round ==
    /\ round < 24
    /\ round' = round + 1
    /\ A' = Iota(Chi(Pi(Rho(Theta(A)))), round)

Spec == Init /\ [][Round]_vars
=============================================================================
