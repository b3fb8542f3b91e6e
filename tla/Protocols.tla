------------------------------ MODULE Protocols ------------------------------
(***************************************************************************)
(* Key generation, Diffie-Hellman and signatures.  A point is its discrete *)
(* logarithm, a scalar an integer modulo the curve order, an encoding a    *)
(* term; SHAKE256 is an oracle whose output for a new input is any output, *)
(* extracted in order.  Two users have a seed each, buffers may come from  *)
(* elsewhere, and outputs that a caller does not want are absent.          *)
(***************************************************************************)
EXTENDS Integers

CONSTANTS N,            \* the curve order, an odd prime
          Users,        \* each has one seed
          Hashes,       \* identifiers of hash functions with hashed messages
          Signer,       \* the user who signs
          MaxCalls      \* bound on the calls

ASSUME ProtocolsAssumption == N \in Nat /\ N > 2 /\ N % 2 = 1 /\ Signer \in Users

Scalars == 0..(N - 1)
Points == Scalars

VARIABLES oracle,       \* SHAKE256 inputs seen, and the scalars that 64 bytes reduce to
          secret, extra, public,    \* per user, what keygen has returned: s, t and Q
          shared,       \* per user, what ecdh_recv has returned: [from, ok, key]
          mem,          \* the signature buffer, and the one that holds hv
          signing,      \* sign_generate between its two hashes
          signed,       \* what was signed: [user, hv, sig]
          answer,       \* the last verification
          use,          \* bound: the keys of a behaviour serve exchanges, or signatures
          calls

keys == <<secret, extra, public>>
protocolsVars == <<oracle, keys, shared, mem, signing, signed, answer, use, calls>>

Absent == <<>>

\* extracting 64 bytes gives a scalar, the same one for the same input
Reduced(input, v) ==
    /\ v \in Scalars
    /\ IF input \in DOMAIN oracle
       THEN v = oracle[input] /\ UNCHANGED oracle
       ELSE oracle' = [i \in DOMAIN oracle \cup {input} |-> IF i = input THEN v ELSE oracle[i]]

\* further bytes of the same stream
Extracted(input, offset) == <<"bytes", input, offset>>

\* condcopy of scalar_one when is_zero
NonZero(k) == IF k = 0 THEN 1 ELSE k

-----------------------------------------------------------------------------
point_encode(x) == IF x = 0 THEN <<"infinity">> ELSE <<"point", x>>
point_encode_X(x) == IF x = 0 THEN <<"x of infinity">> ELSE <<"x", {x, N - x}>>
point_decode(c) == IF c[1] = "point" THEN [ok |-> TRUE, at |-> c[2]] ELSE [ok |-> FALSE, at |-> 0]

\* what 32 bytes may be, read as a point or as a scalar
PointBytes == {point_encode(x) : x \in Points} \cup {<<"no point">>}
ScalarBytes == [low : Scalars, canonical : BOOLEAN]
scalar_encode(s) == [low |-> s, canonical |-> TRUE]

-----------------------------------------------------------------------------
KeygenInput(u) == <<"curve9767-keygen:", u>>

\* a plausible bug: what is not wanted is not extracted
AdditionalSecretFirst(u, wanted) ==
    Extracted(KeygenInput(u), IF wanted \cap {"s", "Q"} = {} THEN 0 ELSE 64)

\* t is what follows the 64 bytes of s, wanted or not
AdditionalSecret(u, wanted) == Extracted(KeygenInput(u), 64)

Seen(f, u, given, x) == [f EXCEPT ![u] = IF given THEN @ \cup {x} ELSE @]

\* "If any of these pointers is NULL, then the corresponding element is skipped."
keygen(u, wanted) ==
    /\ \E v \in Scalars :
        /\ Reduced(KeygenInput(u), v)
        /\ secret' = Seen(secret, u, "s" \in wanted, NonZero(v))
        /\ extra' = Seen(extra, u, "t" \in wanted, AdditionalSecret(u, wanted))
        /\ public' = Seen(public, u, "Q" \in wanted, NonZero(v))
    /\ UNCHANGED <<shared, mem, signing, signed, answer>>

ecdh_keygen(u, wantsQ) == keygen(u, {"s"} \cup (IF wantsQ THEN {"Q"} ELSE {}))

-----------------------------------------------------------------------------
\* a plausible bug: the result for the point at infinity is kept
PremasterNotReplaced(s, received) ==
    LET Q2 == point_decode(received)
    IN  point_encode_X((s * Q2.at) % N)

\* The point is multiplied even if it did not decode, and the result replaced.
Premaster(s, received) ==
    LET Q2 == point_decode(received)
        product == point_encode_X((s * Q2.at) % N)
        alternate == <<"curve9767-ecdh-failed:", scalar_encode(s), received>>
    IN  IF Q2.ok THEN product ELSE alternate

ecdh_recv(u, s, received) ==
    /\ s \in secret[u]
    /\ shared' = [shared EXCEPT ![u] = @ \cup
            {[from |-> received, ok |-> point_decode(received).ok,
              key |-> <<"curve9767-ecdh:", Premaster(s, received)>>]}]
    /\ UNCHANGED <<oracle, keys, mem, signing, signed, answer>>

-----------------------------------------------------------------------------
KInput(t, hv) == <<"curve9767-sign-k:", t, hv>>
EInput(c, Q, hv) == <<"curve9767-sign-e:", c, point_encode(Q), hv>>

\* The caller has hashed its message: hv may lie in the buffer of the signature.
Prepare(hv, where) ==
    /\ signing = Absent
    /\ mem' = [mem EXCEPT ![where] = hv]
    /\ signing' = [at |-> where, hv |-> hv]
    /\ UNCHANGED <<oracle, keys, shared, signed, answer>>

\* a plausible bug: zero is kept
make_k_any(v) == v

make_k(v) == NonZero(v)

\* sign_generate up to the encoding of C, which stays in a local buffer
sign_commit(u, s, t, Q) ==
    /\ signing # Absent /\ DOMAIN signing = {"at", "hv"}
    /\ s \in secret[u] /\ t \in extra[u] /\ Q \in public[u]
    /\ \E v \in Scalars :
        /\ Reduced(KInput(t, mem[signing.at]), v)
        /\ signing' = [at |-> signing.at, hv |-> signing.hv, user |-> u, s |-> s, Q |-> Q,
                       k |-> make_k(v), c |-> point_encode(make_k(v))]
    /\ UNCHANGED <<keys, shared, mem, signed, answer>>

\* the rest: the message is read again, and the signature written at last
sign_respond ==
    /\ signing # Absent /\ "c" \in DOMAIN signing
    /\ \E e \in Scalars :
        /\ Reduced(EInput(signing.c, signing.Q, mem[signing.at]), e)
        /\ LET d == (e * signing.s + signing.k) % N
               sig == [c |-> signing.c, d |-> scalar_encode(d)]
           IN  /\ mem' = [mem EXCEPT !["sig"] = sig]
               /\ signed' = [user |-> signing.user, Q |-> signing.Q, hv |-> signing.hv, sig |-> sig]
    /\ signing' = Absent
    /\ UNCHANGED <<keys, shared, answer>>

-----------------------------------------------------------------------------
\* d*G - e*Q
Recomputed(d, e, Q) == (d.low - e * Q) % N

\* d is used even if it was rejected; the encodings are compared
sign_verify(sig, Q, hv) ==
    /\ \E e \in Scalars :
        /\ Reduced(EInput(sig.c, Q, hv), e)
        /\ answer' = [by |-> "sign_verify", sig |-> sig, Q |-> Q, hv |-> hv,
                      ok |-> sig.d.canonical /\ point_encode(Recomputed(sig.d, e, Q)) = sig.c]
    /\ UNCHANGED <<keys, shared, mem, signing, signed>>

\* C is decoded first; the points are compared
sign_verify_vartime(sig, Q, hv) ==
    /\ LET C == point_decode(sig.c)
           result(ok) == [by |-> "sign_verify_vartime", sig |-> sig, Q |-> Q, hv |-> hv, ok |-> ok]
       IN  IF ~C.ok \/ ~sig.d.canonical
           THEN answer' = result(FALSE) /\ UNCHANGED oracle
           ELSE \E e \in Scalars :
                    /\ Reduced(EInput(sig.c, Q, hv), e)
                    /\ answer' = result(Recomputed(sig.d, e, Q) = C.at)
    /\ UNCHANGED <<keys, shared, mem, signing, signed>>

-----------------------------------------------------------------------------
Nothing == [u \in Users |-> {}]

ProtocolsInit == /\ oracle = <<>>
        /\ secret = Nothing /\ extra = Nothing /\ public = Nothing /\ shared = Nothing
        /\ mem = [where \in {"sig", "hv"} |-> Absent]
        /\ signing = Absent /\ signed = Absent /\ answer = Absent
        /\ use \in {"exchange", "sign"} /\ calls = 0

Count == calls < MaxCalls /\ calls' = calls + 1 /\ use' = use

\* a public key that was obtained, or did not decode
PublicKeys == {0} \cup UNION {public[u] : u \in Users}

\* bound: signatures from elsewhere are verified when nothing is being signed,
\* and what was verified is verified again, by either function, before all else
Verifiable ==
    IF answer # Absent THEN {<<answer.sig, answer.Q, answer.hv>>}
    ELSE IF signing # Absent THEN {}
    ELSE (IF signed # Absent THEN {signed.sig} ELSE [c : PointBytes, d : ScalarBytes])
            \X PublicKeys \X Hashes

Exchange ==
    /\ use = "exchange"
    /\ \/ \E u \in Users, wantsQ \in BOOLEAN : ecdh_keygen(u, wantsQ)
       \/ \E u \in Users : \E s \in secret[u], c \in PointBytes : ecdh_recv(u, s, c)

Sign ==
    /\ use = "sign"
    /\ \/ answer = Absent /\ \E hv \in Hashes, where \in {"sig", "hv"} : Prepare(hv, where)
       \/ \E s \in secret[Signer], t \in extra[Signer], Q \in public[Signer] :
            sign_commit(Signer, s, t, Q)
       \/ sign_respond
       \/ \E a \in Verifiable : sign_verify(a[1], a[2], a[3]) \/ sign_verify_vartime(a[1], a[2], a[3])

ProtocolsNext ==
    /\ Count
    /\ \/ \E u \in Users, wanted \in SUBSET {"s", "t", "Q"} :
            (use = "sign" => u = Signer) /\ answer = Absent /\ keygen(u, wanted)
       \/ Exchange
       \/ Sign

Spec == ProtocolsInit /\ [][ProtocolsNext]_protocolsVars

-----------------------------------------------------------------------------
\* The key pair of a seed is one, whichever outputs were asked for together: s is
\* not zero, Q is s*G, t does not depend on what else is wanted (keygen.c:20).
KeyPairs ==
    \A u \in Users :
        /\ \A s \in secret[u] : s # 0
        /\ \A s, r \in secret[u] \cup public[u] : s = r
        /\ \A t, r \in extra[u] : t = r

\* Two users who receive the other's key get the same secret, also when a sign was
\* flipped on the way; a buffer that does not decode is reported, and leads to a
\* secret that no other exchange leads to (ecdh.c:57).
SharedSecrets ==
    \A u, v \in Users : \A x \in shared[u], y \in shared[v] :
        /\ x.ok = (x.from[1] = "point")
        /\ x.ok /\ y.ok =>
            \A s \in secret[u], r \in secret[v] :
                x.from = point_encode(r) /\ y.from \in {point_encode(s), point_encode(N - s)} =>
                    x.key = y.key
        /\ ~x.ok => (x.key = y.key) = (secret[u] = secret[v] /\ x.from = y.from)

\* d is lower than the order, and the encoding of d*G - e*Q is c.
Correct(a) ==
    /\ a.sig.d.canonical
    /\ point_encode(Recomputed(a.sig.d, oracle[EInput(a.sig.c, a.Q, a.hv)], a.Q)) = a.sig.c

\* Both verifiers answer what curve9767.h defines, the encoding of infinity set
\* apart, on any 64 bytes; and both accept what sign_generate wrote, although hv
\* may have been in the buffer that it writes (sign.c:66, sign.c:84).
SignaturesVerify ==
    answer # Absent =>
        /\ answer.ok => Correct(answer)
        /\ ~answer.ok /\ answer.sig.c # point_encode(0) /\ answer.sig.d.canonical
             /\ answer.sig.c # <<"no point">> => ~Correct(answer)
        /\ signed # Absent /\ answer.sig = signed.sig /\ answer.Q = signed.Q /\ answer.hv = signed.hv
             => answer.ok

\* "The signature is valid if and only if the encoding of C' is equal to c",
\* "Returned value is 1 if the signature is correct, 0 otherwise." (curve9767.h)
VartimeAsDocumented ==
    answer # Absent /\ answer.by = "sign_verify_vartime" /\ answer.sig.d.canonical /\ answer.Q # 0
      /\ EInput(answer.sig.c, answer.Q, answer.hv) \in DOMAIN oracle
        => answer.ok = Correct(answer)
=============================================================================
