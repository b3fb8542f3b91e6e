---------------------------- MODULE FieldPowers ----------------------------
(***************************************************************************)
(* Inversion, square root and cube root in GF(p^19), and the two powers in *)
(* GF(p) that they call, with the real modulus.  Each is a fixed sequence  *)
(* of products and Frobenius operators that raises its operand to a power: *)
(* a register is the exponent it has reached, the sum of e[j] * p^j.       *)
(***************************************************************************)
EXTENDS Integers, SequencesExt

p == 9767
Degrees == 0..18

VARIABLES build,        \* which of the two programs, that use tables of their own
          prog,         \* the function that runs
          step,         \* instructions done
          reg           \* the exponents in its local variables

vars == <<build, prog, step, reg>>

-----------------------------------------------------------------------------
(* Multiplying coefficient i by 2^(k*i*j), k = (p-1)/19, raises to p^j.    *)

PowerOf2[n \in 0..514] ==
    IF n = 0 THEN 1 ELSE (PowerOf2[n \div 2] * PowerOf2[n \div 2] * (1 + (n % 2))) % p

R == 7182

RootOfUnity[j \in Degrees] ==
    IF j = 0 THEN R ELSE (RootOfUnity[j - 1] * PowerOf2[514]) % p

\* frob1 ... frob9
frob ==
      (1 :> << 3267,  5929,  2440,   449,  4794,  7615,  6585,  4354,  6093,  7802,
            1860,  5546,  8618,  8767,  5420,  1878,  2323,  6748>>)
   @@ (2 :> << 5929,   449,  7615,  4354,  7802,  5546,  8767,  1878,  6748,  3267,
            2440,  4794,  6585,  6093,  1860,  8618,  5420,  2323>>)
   @@ (4 :> <<  449,  4354,  5546,  1878,  3267,  4794,  6093,  8618,  2323,  5929,
            7615,  7802,  8767,  6748,  2440,  6585,  1860,  5420>>)
   @@ (8 :> << 4354,  1878,  4794,  8618,  5929,  7802,  6748,  6585,  5420,   449,
            5546,  3267,  6093,  2323,  7615,  8767,  2440,  1860>>)
   @@ (9 :> << 6093,  6748,  4354,  2323,  6585,  1878,  7615,  5420,  4794,  8767,
             449,  8618,  2440,  5546,  5929,  1860,  3267,  7802>>)

\* vfrob1 ... vfrob9: multiplied by -1/p, the low halves and the high halves
vfrob ==
      (1 :> <<<<46526, 65019,  1489, 39112, 20009, 43594, 40279, 29409,  9682, 24853,
                64522, 53988, 32442, 27322, 30167, 30476, 26182, 23243, 47036>>,
              <<    6, 17002, 28430, 17613,  2838, 48841, 32811, 44983, 20955, 16184,
                51216, 22558, 16667, 30248, 37904, 39662, 37998, 15560, 42802>>>>)
   @@ (2 :> <<<<46526,  1489, 20009, 40279,  9682, 64522, 32442, 30167, 26182, 47036,
                65019, 39112, 43594, 29409, 24853, 53988, 27322, 30476, 23243>>,
              <<    6, 28430,  2838, 32811, 20955, 51216, 16667, 37904, 37998, 42802,
                17002, 17613, 48841, 44983, 16184, 22558, 30248, 39662, 15560>>>>)
   @@ (4 :> <<<<46526, 20009,  9682, 32442, 26182, 65019, 43594, 24853, 27322, 23243,
                 1489, 40279, 64522, 30167, 47036, 39112, 29409, 53988, 30476>>,
              <<    6,  2838, 20955, 16667, 37998, 17002, 48841, 16184, 30248, 15560,
                28430, 32811, 51216, 37904, 42802, 17613, 44983, 22558, 39662>>>>)
   @@ (8 :> <<<<46526,  9682, 26182, 43594, 27322,  1489, 64522, 47036, 29409, 30476,
                20009, 32442, 65019, 24853, 23243, 40279, 30167, 39112, 53988>>,
              <<    6, 20955, 37998, 48841, 30248, 28430, 51216, 42802, 44983, 39662,
                 2838, 16667, 17002, 16184, 15560, 32811, 37904, 17613, 22558>>>>)
   @@ (9 :> <<<<46526, 24853, 47036,  9682, 23243, 29409, 26182, 40279, 30476, 43594,
                30167, 20009, 27322, 39112, 32442,  1489, 53988, 65019, 64522>>,
              <<    6, 16184, 42802, 20955, 15560, 44983, 37998, 32811, 39662, 48841,
                37904,  2838, 30248, 17613, 16667, 28430, 22558, 17002, 51216>>>>)

\* a plausible bug: the high half first
PremultipliedBig(f) == <<(f * 55471 + (f * 5737) \div 2^16) % 2^16, (f * 5737) % 2^16>>

\* the product by -1/p = 0xD8AF1669 modulo 2^32
Premultiplied(f) == <<(f * 5737) % 2^16, (f * 55471 + (f * 5737) \div 2^16) % 2^16>>

\* the powers of p that a table stands for: one, unless it is wrong
Raises(k) ==
    {j \in Degrees :
        IF build = "ref"
        THEN \A i \in 1..18 : frob[k][i] = RootOfUnity[(i * j) % 19]
        ELSE \A i \in Degrees :
                <<vfrob[k][1][i + 1], vfrob[k][2][i + 1]>> = Premultiplied(RootOfUnity[(i * j) % 19])}

-----------------------------------------------------------------------------
(* Instructions: <<operation, destination, operands>>.                     *)

Mul(d, a, b) == <<"mul", d, a, b>>
Sqr(d, a) == <<"mul", d, a, a>>
SqrTimes(d, n) == [i \in 1..n |-> Sqr(d, d)]
Frob(d, a, table) == <<"frob", d, a, table>>
\* a product known to be in GF(p), of which only the low coefficient is computed
Low(d, a, b) == <<"low", d, a, b>>
Call(d, a, f) == <<"call", d, a, f>>

mp_inv ==
    <<Sqr("x8", "a")>> \o SqrTimes("x8", 2) \o
    <<Mul("x9", "a", "x8"), Sqr("x152", "x9")>> \o SqrTimes("x152", 3) \o
    <<Mul("x152", "x152", "x8"), Sqr("x2441", "x152")>> \o SqrTimes("x2441", 3) \o
    <<Mul("x2441", "x2441", "x9"), Sqr("c", "x2441"), Sqr("c", "c"), Mul("c", "c", "a")>>

mp_is_qr ==
    <<Sqr("c", "a")>> \o SqrTimes("c", 2) \o
    <<Mul("c", "c", "a"), Sqr("c", "c"), Mul("c", "c", "a"), Mul("x19", "c", "c")>> \o
    SqrTimes("x19", 7) \o <<Mul("c", "x19", "c")>>

gf_inv ==
    <<Frob("t2", "a", 1),  Mul("t1", "t2", "a"),
      Frob("t2", "t1", 2), Mul("t1", "t2", "t1"),
      Frob("t2", "t1", 4), Mul("t1", "t2", "t1"),
      Frob("t1", "t1", 1), Mul("t1", "t1", "a"),
      Frob("t2", "t1", 9), Mul("t1", "t2", "t1"),
      Frob("t1", "t1", 1),
      Low("y", "a", "t1"), Call("yi", "y", "mp_inv"), Mul("c", "yi", "t1")>>

\* a^e in t1 and a^f in t2, where e = 1 + p^2 + ... + p^18 and f = p + p^3 + ... + p^17
EvenAndOdd ==
    <<Frob("t2", "a", 2),  Mul("t1", "t2", "a"),
      Frob("t2", "t1", 4), Mul("t1", "t2", "t1"),
      Frob("t2", "t1", 8), Mul("t1", "t2", "t1"),
      Frob("t2", "t1", 2), Mul("t1", "t2", "a"),
      Frob("t2", "t1", 1),
      Frob("t1", "t2", 1), Mul("t1", "t1", "a")>>

gf_sqrt == EvenAndOdd \o
    <<Low("y", "t1", "t2"), Call("qr", "y", "mp_is_qr"), Call("yi", "y", "mp_inv"),
      Sqr("t1", "t1"), Mul("t2", "t1", "yi"),
      Sqr("t1", "t2"), Sqr("t1", "t1"), Mul("t3", "t1", "t2"), Mul("t1", "t1", "t3"),
      Sqr("t1", "t1"), Mul("t1", "t1", "t2")>> \o SqrTimes("t1", 6) \o
    <<Mul("t1", "t1", "t3"), Sqr("c", "t1")>>

\* a plausible bug: one squaring is missing
ThirdOfPowerShort ==
    <<Sqr("t3", "t1"), Mul("t2", "t2", "t3"),
      Sqr("t3", "t2"), Mul("t3", "t2", "t3"), Sqr("t4", "t3"), Sqr("t4", "t4"),
      Mul("t2", "t4", "t2"), Mul("t4", "t2", "t4")>> \o SqrTimes("t4", 4) \o
    <<Mul("t4", "t2", "t4"), Sqr("t4", "t4"), Sqr("t4", "t4"), Mul("t4", "t3", "t4")>>

\* (a^(2e + f)) to the power (p-2)/3 = 3255
ThirdOfPower ==
    <<Sqr("t3", "t1"), Mul("t2", "t2", "t3"),
      Sqr("t3", "t2"), Mul("t3", "t2", "t3"), Sqr("t4", "t3"), Sqr("t4", "t4"),
      Mul("t2", "t4", "t2"), Mul("t4", "t2", "t4")>> \o SqrTimes("t4", 5) \o
    <<Mul("t4", "t2", "t4"), Sqr("t4", "t4"), Sqr("t4", "t4"), Mul("t4", "t3", "t4")>>

gf_cubert == EvenAndOdd \o ThirdOfPower \o <<Mul("c", "t1", "t4")>>

Program == [mp_inv |-> mp_inv, mp_is_qr |-> mp_is_qr, gf_inv |-> gf_inv,
            gf_sqrt |-> gf_sqrt, gf_cubert |-> gf_cubert]

Registers == {"a", "c", "t1", "t2", "t3", "t4", "y", "yi", "qr", "x8", "x9", "x19", "x152", "x2441"}

-----------------------------------------------------------------------------
One == [j \in Degrees |-> IF j = 0 THEN 1 ELSE 0]
Plus(e, f) == [j \in Degrees |-> e[j] + f[j]]
Scale(k, e) == [j \in Degrees |-> k * e[j]]

\* In GF(p) the Frobenius operator is the identity: the exponent is one number.
InBaseField(e) == \A j \in Degrees : e[j] = e[0]

\* The callees are themselves runs of this module.
CalleePower == [mp_inv |-> p - 2, mp_is_qr |-> (p - 1) \div 2]

Init == build \in {"ref", "avx2"} /\ prog \in DOMAIN Program /\ step = 0 /\ reg = [r \in {"a"} |-> One]

Execute ==
    /\ step < Len(Program[prog])
    /\ LET in == Program[prog][step + 1]
           put(e) == reg' = [r \in DOMAIN reg \cup {in[2]} |-> IF r = in[2] THEN e ELSE reg[r]]
       IN  \/ in[1] = "mul" /\ put(Plus(reg[in[3]], reg[in[4]]))
           \/ in[1] = "frob" /\ \E s \in Raises(in[4]) : put([j \in Degrees |-> reg[in[3]][(j - s) % 19]])
           \/ /\ in[1] = "low" /\ InBaseField(Plus(reg[in[3]], reg[in[4]]))
              /\ put(Plus(reg[in[3]], reg[in[4]]))
           \/ in[1] = "call" /\ put(Scale(CalleePower[in[4]], reg[in[3]]))
    /\ step' = step + 1 /\ UNCHANGED <<build, prog>>

Next == Execute

-----------------------------------------------------------------------------
\* Exponents are taken modulo p^19 - 1: carries go round.
Ripple(digits) ==
    FoldLeft(LAMBDA done, d : <<Append(done[1], (d + done[2]) % p), (d + done[2]) \div p>>,
             <<<<>>, 0>>, digits)
Again(digits) == LET r == Ripple(digits) IN [r[1] EXCEPT ![1] = @ + r[2]]
\* three rounds: the first carry is small, the second at most one
Settled(digits) == Again(Again(Again(digits)))
Normal(e) == LET s == Settled([i \in 1..19 |-> e[i - 1]]) IN [j \in Degrees |-> s[j + 1]]

AllDigits == [j \in Degrees |-> p - 1]          \* p^19 - 1

HalfDigits == [j \in Degrees |-> (p - 1) \div 2]

Returned == step = Len(Program[prog])

\* mp_is_qr's return value, from the Montgomery representation of 0, 1 and -1
IsQr(r) == (r + 1500) \div 2^13

\* At the end: c is the power that inverts, halves or thirds the exponent, and
\* the residue tests decide on the right power.
ReachesPower ==
    Returned =>
        LET e == reg["c"] IN
        CASE prog = "mp_inv" -> e[0] = p - 2
          [] prog = "mp_is_qr" -> e[0] = (p - 1) \div 2 /\ <<IsQr(p), IsQr(R), IsQr(p - R)>> = <<1, 1, 0>>
          [] prog = "gf_inv" -> Normal(Plus(e, One)) = AllDigits
          [] prog = "gf_sqrt" -> Normal(Scale(4, e)) = Scale(2, One) /\ Normal(reg["qr"]) = HalfDigits
          [] prog = "gf_cubert" -> Normal(Scale(3, e)) = One

=============================================================================
