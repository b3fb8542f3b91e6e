----------------------------- MODULE HashStream -----------------------------
(***************************************************************************)
(* What sha3.h promises of a hashing context: it takes bytes in chunks of  *)
(* any length, is turned once to output, and then gives the bytes of the   *)
(* sponge function of FIPS 202 on the whole message, in chunks of any      *)
(* length.  The permutation is a black box: an output byte is named by     *)
(* all that went through the sponge before it, and its place in the state. *)
(* A byte is the set of its bits.                                          *)
(***************************************************************************)
EXTENDS Integers, Sequences

CONSTANTS Ctxs,         \* hashing contexts
          Rate,         \* bytes absorbed by one permutation
          Width,        \* bytes of the state (200)
          Bytes,        \* message bytes
          MaxChunk      \* bytes given to, or asked of, one call at most

VARIABLE log            \* what was injected in and extracted from each context

\* the bits appended to the message, and the last bit of the padding
Suffix(domain) == IF domain = "shake" THEN {0, 1, 2, 3, 4} ELSE {1, 2}
LastBit == {7}

Pad10_1(m, domain) ==
    LET n == (Len(m) \div Rate + 1) * Rate
    IN  [k \in 1..n |-> IF k <= Len(m) THEN m[k]
                        ELSE (IF k = Len(m) + 1 THEN Suffix(domain) ELSE {})
                               \cup (IF k = n THEN LastBit ELSE {})]

Zeros(n) == [k \in 1..n |-> {}]

\* the k-th output byte, from 0
OutputByte(m, domain, k) ==
    [from |-> Pad10_1(m, domain) \o Zeros((k \div Rate) * Rate), at |-> k % Rate]

OutputFrom(m, domain, first, n) ==
    [k \in 1..n |-> OutputByte(m, domain, first + k - 1)]

Chunks == UNION { [1..n -> Bytes] : n \in 1..MaxChunk }

Fresh == [phase |-> "input", domain |-> "shake", msg |-> <<>>, out |-> <<>>]

Init == log = [c \in Ctxs |-> Fresh]

Reset(c) == log' = [log EXCEPT ![c] = Fresh]

Inject(c, data) ==
    /\ log[c].phase = "input"
    /\ log' = [log EXCEPT ![c].msg = @ \o data]

Flip(c) ==
    /\ log[c].phase = "input"
    /\ log' = [log EXCEPT ![c].phase = "output"]

Extract(c, n) ==
    /\ log[c].phase = "output"
    /\ log' = [log EXCEPT ![c].out = @ \o OutputFrom(log[c].msg, "shake", Len(@), n)]

\* SHA3 has an output of fixed length: half the capacity.
Close(c) ==
    /\ log[c].phase = "input"
    /\ log' = [log EXCEPT ![c] =
                 [@ EXCEPT !.phase = "closed", !.domain = "sha3",
                           !.out = OutputFrom(log[c].msg, "sha3", 0, (Width - Rate) \div 2)]]

Copy(from, to) == log' = [log EXCEPT ![to] = log[from]]

Next ==
    \E c \in Ctxs :
      \/ Reset(c) \/ Flip(c) \/ Close(c)
      \/ \E data \in Chunks : Inject(c, data)
      \/ \E n \in 1..MaxChunk : Extract(c, n)
      \/ \E other \in Ctxs : Copy(c, other)

Spec == Init /\ [][Next]_log
=============================================================================
