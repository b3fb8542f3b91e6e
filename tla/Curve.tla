-------------------------------- MODULE Curve --------------------------------
(***************************************************************************)
(* A caller of the point functions of curve9767.h with two points and a    *)
(* buffer of 32 bytes: any sequence of calls, in either build, results     *)
(* given back as operands, the points at infinity with the coordinates     *)
(* that the code leaves in them; the buffer may be altered before it is    *)
(* decoded.                                                                *)
(***************************************************************************)
EXTENDS CurveProducts

CONSTANTS Seeds,        \* what hash_to_curve gets from SHAKE: limbs of 48 bytes
          Shifts,       \* the k of point_mul2k
          Scalars,      \* the s of point_mul
          MaxMultiple,  \* bound on the multiples of each base
          MaxCalls,     \* bound on the calls
          Tails,        \* values of the fifth byte, the 7 bits of a group
          Lasts         \* values of the last byte

Words == [1..24 -> 0..(Word - 1)]

\* 48 bytes are read as 24 words of 16 bits.
ASSUME CurveAssumption ==
    /\ Seeds \in Seq(Words) /\ Shifts \subseteq Nat /\ Scalars \subseteq Nat
    /\ Tails \subseteq Bytes /\ Lasts \subseteq Bytes

VARIABLES build, q1, q2,
          m1, m2,       \* ghosts: the multiples of G and of the mapped seeds
          buf,          \* [bytes, state, of]: of is the point that was encoded
          call,         \* the last call
          calls

vars == <<build, q1, q2, m1, m2, buf, call, calls>>

Bases == 0..Len(Seeds)
Unit(b) == [i \in Bases |-> IF i = b THEN 1 ELSE 0]
NoMultiple == [i \in Bases |-> 0]
\* a point decoded from altered bytes is no known multiple
Unknown == <<>>

Scale(k, m) == [i \in Bases |-> k * m[i]]
Sum(m, n) == [i \in Bases |-> m[i] + n[i]]
InBounds(m) == \A i \in Bases : m[i] \in -MaxMultiple..MaxMultiple

\* a point without the coordinates of infinity
View(Q) == IF Q.neutral THEN <<>> ELSE <<Q.x, Q.y>>

Empty == [bytes |-> <<>>, state |-> "empty", of |-> <<>>]

Elements == [i \in DOMAIN Seeds |-> gf_map_to_base(Seeds[i])] \o <<>>
Mapped == [i \in DOMAIN Seeds |-> Icart_map(Elements[i])] \o <<>>
MappedMultiple(i) == IF Mapped[i].neutral THEN NoMultiple ELSE Unit(i)

Init == /\ build \in {"ref", "avx2"}
        /\ q1 = generator /\ m1 = Unit(0)
        /\ q2 = Neutral /\ m2 = NoMultiple
        /\ buf = Empty /\ call = <<>> /\ calls = 0

Called(c) == call' = c /\ calls < MaxCalls /\ calls' = calls + 1

\* q1 becomes one of R, which should be the multiple m
Becomes(R, m) ==
    /\ InBounds(m) /\ q1' \in R /\ m1' = m
    /\ buf' = Empty /\ UNCHANGED <<build, q2, m2>>

point_add ==
    /\ m1 # Unknown /\ m2 # Unknown
    /\ Called(<<"add">>) /\ Becomes(PointAdd(q1, q2), Sum(m1, m2))
point_sub ==
    /\ m1 # Unknown /\ m2 # Unknown
    /\ Called(<<"sub">>) /\ Becomes(PointSub(q1, q2), Sum(m1, Scale(-1, m2)))
point_neg ==
    m1 # Unknown /\ Called(<<"neg">>) /\ Becomes({PointNeg(q1)}, Scale(-1, m1))
point_mul2k(k) ==
    /\ m1 # Unknown /\ InBounds(Scale(2^k, m1))
    /\ Called(<<"mul2k", k>>) /\ Becomes(PointMul2k(build, q1, k), Scale(2^k, m1))

\* bound: early, only of a multiple 0, 1 or -1 of each base, and with q2 at infinity
point_mul(s) ==
    /\ m1 # Unknown /\ m2 = NoMultiple /\ calls < 2
    /\ \A i \in Bases : m1[i] \in -1..1
    /\ Called(<<"mul", s>>)
    /\ q1' \in PointProduct(build, q1, s) /\ m1' = Scale(s, m1)
    /\ buf' = Empty /\ UNCHANGED <<build, q2, m2>>

point_set_neutral == Called(<<"set">>) /\ Becomes({Neutral}, NoMultiple)

\* Two halves of what SHAKE yields are mapped, and the points added.
hash_to_curve(i, j) ==
    /\ calls = 0            \* bound: hashing comes first
    /\ Called(<<"hash", i, j>>)
    /\ Becomes(PointAdd(Mapped[i], Mapped[j]), Sum(MappedMultiple(i), MappedMultiple(j)))

\* assignments of the structures
Exchange ==
    /\ Called(<<"exchange">>) /\ q1' = q2 /\ q2' = q1 /\ m1' = m2 /\ m2' = m1
    /\ buf' = Empty /\ UNCHANGED build
Copy ==
    /\ Called(<<"copy">>) /\ q2' = q1 /\ m2' = m1
    /\ buf' = Empty /\ UNCHANGED <<build, q1, m1>>

encode ==
    /\ Called(<<"encode">>)
    /\ buf' = [bytes |-> point_encode(q1), state |-> "encoded", of |-> View(q1)]
    /\ UNCHANGED <<build, q1, q2, m1, m2>>

\* what a peer may send instead
Altered(bytes) ==
    {[bytes EXCEPT ![5] = v] : v \in Tails} \cup {[bytes EXCEPT ![32] = v] : v \in Lasts}

Alter ==
    /\ buf.state = "encoded" /\ Called(<<"alter">>)
    /\ \E b \in Altered(buf.bytes) : b # buf.bytes /\ buf' = [buf EXCEPT !.bytes = b, !.state = "altered"]
    /\ UNCHANGED <<build, q1, q2, m1, m2>>

decode ==
    /\ buf.state \in {"encoded", "altered"} /\ Called(<<"decode">>)
    /\ q1' = point_decode(buf.bytes)
    /\ m1' = IF q1'.neutral THEN NoMultiple ELSE IF buf.state = "altered" THEN Unknown ELSE m1
    /\ buf' = [buf EXCEPT !.state = IF @ = "encoded" THEN "decoded" ELSE "altered decoded"]
    /\ UNCHANGED <<build, q2, m2>>

Next == \/ point_add \/ point_sub \/ point_neg \/ point_set_neutral
        \/ \E k \in Shifts : point_mul2k(k)
        \/ \E s \in Scalars : point_mul(s)
        \/ \E i, j \in DOMAIN Seeds : hash_to_curve(i, j)
        \/ Exchange \/ Copy \/ encode \/ Alter \/ decode

Spec == Init /\ [][Next]_vars

-----------------------------------------------------------------------------
Law == INSTANCE GroupLaw WITH
           p1 <- View(q1), p2 <- View(q2), Arguments <- Elements,
           Images <- [i \in DOMAIN Seeds |-> View(Mapped[i])]

\* Every call adds, subtracts, negates or doubles in the group of the curve, with
\* the point at infinity and equal or opposite operands told apart only by flags
\* and comparisons: point_add, point_sub, point_neg, point_mul2k and point_mul
\* of both builds, point_decode and hash_to_curve.
IsCurveGroup == Law!Spec

\* Points reached by different calls are equal exactly when they are the same
\* multiple: their encodings are equal, their encodings without the sign are equal
\* when they are opposite too, and the flag is set for the multiple 0 alone.
SameMultiple ==
    /\ m1 # Unknown => q1.neutral = (m1 = NoMultiple)
    /\ m1 # Unknown /\ m2 # Unknown =>
        /\ (point_encode(q1) = point_encode(q2)) = (m1 = m2)
        /\ (point_encode_X(q1) = point_encode_X(q2)) = (m1 = m2 \/ m1 = Scale(-1, m2))

\* A buffer that decodes is the one encoding of the point it decodes to: no two
\* buffers stand for a point.  What was encoded is decoded as it was.
OneEncoding ==
    buf.state \in {"decoded", "altered decoded"} /\ ~q1.neutral => point_encode(q1) = buf.bytes
DecodesEncoded == buf.state = "decoded" => View(q1) = buf.of
Canonical == OneEncoding /\ DecodesEncoded

\* x * p + d, on words
TimesModulus(x, d) ==
    LET carry[i \in 0..24] == IF i = 0 THEN d ELSE (x[i] * P + carry[i - 1]) \div Word
    IN  [i \in 1..24 |-> (x[i] * P + carry[i - 1]) % Word] \o <<>>

\* the number that has these low digits in base p, and what is left above them
Rebuilt(digits, rest) ==
    LET number[i \in 0..19] ==
            IF i = 0 THEN rest ELSE TimesModulus(number[i - 1], digits[19 - i])
    IN  number[19]

\* what the divisions leave
Rests == [i \in DOMAIN Seeds |-> Digits(Seeds[i]).x] \o <<>>

\* The 48 bytes of a seed can be rebuilt from the element it is mapped to: its
\* coefficients are the low 19 digits in base p, and no word that the shortening
\* division skips is set.
RebuildsSeed ==
    call # <<>> /\ call[1] = "hash" =>
        \A s \in {call[2], call[3]} :
            Rebuilt(Elements[s], Rests[s]) = Seeds[s]
=============================================================================
