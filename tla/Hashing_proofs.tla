--------------------------- MODULE Hashing_proofs ---------------------------
(***************************************************************************)
(* Proofs about the hashing contexts, for every rate, every number of      *)
(* contexts, and messages and outputs of any length cut in any way: what   *)
(* is read is the sponge function of what was injected (IsStream), and a   *)
(* first byte of output belongs to one message (SameMessage).              *)
(*                                                                         *)
(* ContextOK says what the words of one context are, as a function of what *)
(* its calls were given and have returned so far; each lemma of a call or  *)
(* of a turn of a loop says that it is kept.  Contexts are independent, so *)
(* the invariant of the program is ContextOK of each of them.              *)
(*                                                                         *)
(* Then the permutation, for every state of 25 lanes: both builds do the   *)
(* rounds of Keccak-f[1600].  PermutationInv says in which words the lanes *)
(* of the standard's state are and which of them are complemented; a round *)
(* is followed through its linear steps (LinearStep), its rows (ChiRow)    *)
(* and its constant.  The tables of the code are the standard's walk over  *)
(* the lanes (OffsetIs), its shift register (ConstantIs) and its pi, as    *)
(* each arrangement in memory has it (PlainTables, SecondTables, MovedBack,*)
(* BufferStep).                                                            *)
(*                                                                         *)
(* At the end, the protocols that hash (module Protocols).                 *)
(***************************************************************************)
EXTENDS Hashing, Protocols, Congruence, SequenceTheorems

Octet == SUBSET (0..7)
OutputBytes == [from : Seq(Octet), at : Nat]
Domains == {"shake", "sha3"}
Logs == [phase : {"input", "output", "closed"}, domain : Domains,
         msg : Seq(Octet), out : Seq(OutputBytes)]

\* While it takes input: the whole blocks are history, what follows is in cur, and
\* r is still to come.
InputOK(t, b, at, r, l) ==
    /\ l.phase = "input" /\ l.domain = "shake" /\ l.out = <<>>
    /\ l.msg \in Seq(Octet) /\ t \in Seq(Octet) /\ r \in Seq(Octet)
    /\ at \in 0..(Rate - 1)
    /\ b \in [Spot -> Octet]
    /\ \E q \in Nat : Len(t) = q * Rate
    /\ Len(l.msg) = Len(t) + at + Len(r)
    /\ \A i \in 1..Len(t) : t[i] = l.msg[i]
    /\ \A p \in Spot : b[p] = IF p < at THEN l.msg[Len(t) + p + 1] ELSE {}
    /\ \A i \in 1..Len(r) : r[i] = l.msg[Len(t) + at + i]

\* Once it gives output: the padded message and whole blocks of nothing are history,
\* or would be after one more permutation, and at says where the output has come to.
OutputOK(t, b, at, l) ==
    /\ l.phase = "output" /\ l.domain = "shake"
    /\ l.msg \in Seq(Octet)
    /\ l.out \in Seq(OutputBytes)
    /\ l.out = Promise!OutputFrom(l.msg, "shake", 0, Len(l.out))
    /\ \E q \in Nat :
        LET history == Promise!Pad10_1(l.msg, "shake") \o Promise!Zeros(q * Rate)
        IN  \/ /\ at = Rate /\ t \in Seq(Octet) /\ b \in [Spot -> Octet]
               /\ Processed(t, b) = history
               /\ Len(l.out) = q * Rate
            \/ /\ at \in 1..Rate /\ b = Blank
               /\ t = history
               /\ Len(l.out) = q * Rate + at

ClosedOK(l) ==
    /\ l.phase = "closed" /\ l.domain = "sha3"
    /\ l.msg \in Seq(Octet)
    /\ l.out = Promise!OutputFrom(l.msg, "sha3", 0, (Width - Rate) \div 2)

ContextOK(t, b, at, r, l) ==
    /\ l \in Logs
    /\ InputOK(t, b, at, r, l) \/ OutputOK(t, b, at, l) \/ ClosedOK(l)

-----------------------------------------------------------------------------
\* what the call that runs has still to inject
Pending(c) == IF busy = {c} THEN rest ELSE <<>>

\* A call that runs has something to do, on a context in the right phase.
CallInv ==
    \/ busy = {} /\ rest = <<>> /\ want = 0
    \/ \E c \in Ctxs : /\ busy = {c} /\ log[c].phase = "input"
                       /\ rest # <<>> /\ want = 0
    \/ \E c \in Ctxs : /\ busy = {c} /\ log[c].phase = "output"
                       /\ rest = <<>> /\ want \in 1..MaxChunk

IInv ==
    /\ DOMAIN tape = Ctxs /\ DOMAIN cur = Ctxs /\ DOMAIN dptr = Ctxs /\ DOMAIN log = Ctxs
    /\ CallInv
    /\ \A c \in Ctxs : ContextOK(tape[c], cur[c], dptr[c], Pending(c), log[c])

-----------------------------------------------------------------------------
(* Sequences of bytes, and blocks.                                         *)

LEMMA Sizes ==
  /\ Rate \in Nat /\ Rate > 1 /\ Width \in Int /\ MaxChunk \in Nat
  /\ (Width - Rate) \div 2 \in 1..Rate
  /\ \A x \in Bytes : x \in Octet
  /\ {} \in Octet /\ SuffixShake \in Octet /\ SuffixSha3 \in Octet /\ LastBit \in Octet
<1>1. Width - Rate \in Nat /\ Rate \in Nat
  BY SpongeAssumption
<1>2. Width \in Int
  BY SpongeAssumption
<1>3. {} \in Octet /\ SuffixShake \in Octet /\ SuffixSha3 \in Octet /\ LastBit \in Octet
  BY DEF Octet, SuffixShake, SuffixSha3, LastBit
<1> QED BY <1>1, <1>2, <1>3, SpongeAssumption DEF Octet

\* The block and the place in it are the quotient and the remainder.
LEMMA BlockDivision ==
  ASSUME NEW q \in Nat, NEW at \in 0..(Rate - 1)
  PROVE  (q * Rate + at) \div Rate = q /\ (q * Rate + at) % Rate = at
<1>1. /\ Rate \in Nat /\ Rate > 0 /\ q * Rate + at \in Int /\ q \in Int
      /\ q * Rate + at = Rate * q + at
  BY Sizes
<1> QED BY <1>1, DivisionUnique

LEMMA ZerosSeq ==
  ASSUME NEW n \in Nat
  PROVE  /\ Promise!Zeros(n) \in Seq(Octet) /\ Len(Promise!Zeros(n)) = n
         /\ \A i \in 1..n : Promise!Zeros(n)[i] = {}
BY Sizes DEF Promise!Zeros

\* the whole blocks of a message, and one more
LEMMA PadSeq ==
  ASSUME NEW m \in Seq(Octet), NEW domain \in Domains
  PROVE  LET n == (Len(m) \div Rate + 1) * Rate
             P == Promise!Pad10_1(m, domain)
         IN  /\ n \in Nat /\ Len(m) < n
             /\ P \in Seq(Octet) /\ Len(P) = n
             /\ \A i \in 1..n : P[i] = IF i <= Len(m) THEN m[i]
                        ELSE (IF i = Len(m) + 1 THEN Promise!Suffix(domain) ELSE {})
                               \cup (IF i = n THEN LastBit ELSE {})
<1> DEFINE q == Len(m) \div Rate  n == (q + 1) * Rate  P == Promise!Pad10_1(m, domain)
           e(i) == IF i <= Len(m) THEN m[i]
                   ELSE (IF i = Len(m) + 1 THEN Promise!Suffix(domain) ELSE {})
                               \cup (IF i = n THEN LastBit ELSE {})
<1>1. Len(m) \in Nat
  OBVIOUS
<1>2. q \in Nat /\ Len(m) = Rate * q + (Len(m) % Rate) /\ Len(m) % Rate \in 0..(Rate - 1)
  BY <1>1, Sizes
<1>3. n \in Nat /\ Len(m) < n
  <2> HIDE DEF q
  <2>1. (q + 1) * Rate = Rate * q + Rate /\ Rate * q \in Nat
    BY <1>2, Sizes
  <2> QED BY <1>2, <2>1, Sizes
<1>4. P = [i \in 1..n |-> e(i)]
  BY DEF Promise!Pad10_1, Promise!LastBit, LastBit
<1>5. Promise!Suffix(domain) \in Octet
  BY DEF Promise!Suffix, Octet
<1>6. \A i \in 1..n : e(i) \in Octet
  <2> HIDE DEF n
  <2>1. ASSUME NEW i \in 1..n, i <= Len(m) PROVE e(i) \in Octet
    <3>1. i \in 1..Len(m)
      BY <1>1, <1>3, <2>1
    <3> QED BY <2>1, <3>1
  <2>2. ASSUME NEW i \in 1..n, ~(i <= Len(m)) PROVE e(i) \in Octet
    BY <1>5, <2>2 DEF Octet, LastBit
  <2> QED BY <2>1, <2>2
<1> HIDE DEF n, e
<1>7. P \in Seq(Octet) /\ Len(P) = n /\ \A i \in 1..n : P[i] = e(i)
  BY <1>3, <1>4, <1>6
<1> QED BY <1>3, <1>7 DEF n, e

LEMMA ProcessedSeq ==
  ASSUME NEW t \in Seq(Octet), NEW b \in [Spot -> Octet]
  PROVE  /\ Processed(t, b) \in Seq(Octet) /\ Len(Processed(t, b)) = Len(t) + Rate
         /\ \A i \in 1..(Len(t) + Rate) :
                Processed(t, b)[i] = IF i <= Len(t) THEN t[i] ELSE b[i - Len(t) - 1]
<1> DEFINE w == [k \in 1..Rate |-> b[k - 1]]
<1>1. Rate \in Nat
  BY Sizes
<1>2. \A k \in 1..Rate : k - 1 \in Spot /\ b[k - 1] \in Octet
  BY <1>1 DEF Spot
<1>3. w \in Seq(Octet) /\ Len(w) = Rate /\ \A k \in 1..Rate : w[k] = b[k - 1]
  BY <1>1, <1>2
<1>4. Processed(t, b) = t \o w
  BY DEF Processed
<1> HIDE DEF w
<1>5. /\ t \o w \in Seq(Octet) /\ Len(t \o w) = Len(t) + Len(w)
      /\ \A i \in 1..(Len(t) + Len(w)) : (t \o w)[i] = IF i <= Len(t) THEN t[i] ELSE w[i - Len(t)]
  BY <1>3, ConcatProperties
<1>6. \A i \in 1..(Len(t) + Rate) : ~(i <= Len(t)) => i - Len(t) \in 1..Rate
  BY <1>1
<1> QED BY <1>3, <1>4, <1>5, <1>6

-----------------------------------------------------------------------------
(* The calls on one context, and the turns of their loops.                 *)

\* shake_init
LEMMA FreshOK == ContextOK(<<>>, Blank, 0, <<>>, Fresh)
<1>1. Len(<<>>) = 0 * Rate /\ 0 \in Nat /\ <<>> \in Seq(Octet)
  BY Sizes
<1>2. 0 \in 0..(Rate - 1) /\ Blank \in [Spot -> Octet]
  BY Sizes DEF Blank
<1>3. InputOK(<<>>, Blank, 0, <<>>, Fresh)
  <2>1. \E q \in Nat : Len(<<>>) = q * Rate
    BY <1>1
  <2>2. \A p \in Spot : Blank[p] = IF p < 0 THEN Fresh.msg[Len(<<>>) + p + 1] ELSE {}
    BY Sizes DEF Blank, Spot
  <2>3. /\ Fresh.phase = "input" /\ Fresh.domain = "shake" /\ Fresh.out = <<>>
        /\ Fresh.msg = <<>> /\ Len(Fresh.msg) = 0 /\ Len(<<>>) = 0
    BY DEF Fresh
  <2> QED BY <1>1, <1>2, <2>1, <2>2, <2>3 DEF InputOK
<1>4. Fresh \in Logs
  BY DEF Fresh, Logs, Domains
<1> QED BY <1>3, <1>4 DEF ContextOK

\* the start of shake_inject
LEMMA InjectCallOK ==
  ASSUME NEW t, NEW b, NEW at, NEW l, ContextOK(t, b, at, <<>>, l), l.phase = "input",
         NEW data \in Seq(Octet)
  PROVE  ContextOK(t, b, at, data, [l EXCEPT !.msg = @ \o data])
<1> DEFINE l2 == [l EXCEPT !.msg = @ \o data]
<1>1. InputOK(t, b, at, <<>>, l)
  BY DEF ContextOK, OutputOK, ClosedOK
<1>2. l.msg \o data \in Seq(Octet)
  BY <1>1, ConcatProperties DEF InputOK
<1>3. /\ l2 \in Logs
      /\ l2.phase = l.phase /\ l2.domain = l.domain /\ l2.msg = l.msg \o data /\ l2.out = l.out
  BY <1>2 DEF ContextOK, Logs
<1> HIDE DEF l2
<1>4. l.msg \in Seq(Octet) /\ Len(l.msg) = Len(t) + at /\ Len(t) \in Nat /\ at \in 0..(Rate - 1)
  BY <1>1 DEF InputOK
<1>5. /\ l2.msg \in Seq(Octet) /\ Len(l2.msg) = Len(l.msg) + Len(data)
      /\ \A i \in 1..Len(l.msg) + Len(data) : l2.msg[i] =
            IF i <= Len(l.msg) THEN l.msg[i] ELSE data[i - Len(l.msg)]
  <2> DEFINE m == l.msg
  <2>1. m \in Seq(Octet)
    BY <1>4
  <2> HIDE DEF m
  <2>2. /\ m \o data \in Seq(Octet) /\ Len(m \o data) = Len(m) + Len(data)
        /\ \A i \in 1..Len(m) + Len(data) : (m \o data)[i] =
            IF i <= Len(m) THEN m[i] ELSE data[i - Len(m)]
    BY <2>1, ConcatProperties
  <2> QED BY <1>3, <2>2 DEF m
<1>6. \A i \in 1..Len(t) : t[i] = l2.msg[i]
  <2> SUFFICES ASSUME NEW i \in 1..Len(t) PROVE t[i] = l2.msg[i]
    OBVIOUS
  <2>1. t[i] = l.msg[i]
    BY <1>1 DEF InputOK
  <2>2. i \in 1..Len(l.msg) + Len(data) /\ i <= Len(l.msg)
    BY <1>4
  <2> QED BY <1>5, <2>1, <2>2
<1>7. \A p \in Spot : b[p] = IF p < at THEN l2.msg[Len(t) + p + 1] ELSE {}
  <2> SUFFICES ASSUME NEW p \in Spot, p < at PROVE l.msg[Len(t) + p + 1] = l2.msg[Len(t) + p + 1]
    BY <1>1 DEF InputOK
  <2>1. Len(t) + p + 1 \in 1..Len(l.msg) + Len(data) /\ Len(t) + p + 1 <= Len(l.msg)
    BY <1>4, Sizes DEF Spot
  <2> QED BY <1>5, <2>1
<1>8. \A i \in 1..Len(data) : data[i] = l2.msg[Len(t) + at + i]
  <2> SUFFICES ASSUME NEW i \in 1..Len(data) PROVE data[i] = l2.msg[Len(t) + at + i]
    OBVIOUS
  <2> DEFINE n == Len(l.msg)  k == n + i
  <2>1. n \in Nat /\ n = Len(t) + at /\ Len(data) \in Nat
    BY <1>4
  <2> HIDE DEF n
  <2>2. k \in 1..n + Len(data) /\ ~(k <= n) /\ k - n = i
    BY <2>1
  <2>3. l2.msg[k] = data[k - n]
    BY <1>5, <2>2 DEF n
  <2> QED BY <2>1, <2>2, <2>3
<1>9. InputOK(t, b, at, data, l2)
  BY <1>1, <1>3, <1>4, <1>5, <1>6, <1>7, <1>8, Sizes DEF InputOK
<1> QED BY <1>3, <1>9 DEF ContextOK, l2

\* what one turn of the loop of shake_inject takes, makes of the block, and leaves
TurnLen(at, r) == Smaller(Rate - at, Len(r))
TurnBlock(b, at, r) ==
    [p \in Spot |-> IF p \in at..(at + TurnLen(at, r) - 1) THEN XorByte(b[p], r[p - at + 1])
                    ELSE b[p]]
TurnRest(at, r) == SubSeq(r, TurnLen(at, r) + 1, Len(r))

\* one turn of the loop of shake_inject
LEMMA InjectChunkOK ==
  ASSUME NEW t, NEW b, NEW at, NEW r, NEW l, InputOK(t, b, at, r, l), r # <<>>
  PROVE  /\ at + TurnLen(at, r) = Rate =>
                InputOK(Processed(t, TurnBlock(b, at, r)), Blank, 0, TurnRest(at, r), l)
         /\ at + TurnLen(at, r) # Rate =>
                InputOK(t, TurnBlock(b, at, r), at + TurnLen(at, r), TurnRest(at, r), l)
<1> DEFINE clen == Smaller(Rate - at, Len(r))
           block == [p \in Spot |-> IF p \in at..(at + clen - 1) THEN XorByte(b[p], r[p - at + 1])
                                    ELSE b[p]]
           r2 == SubSeq(r, clen + 1, Len(r))
<1>1. /\ l.msg \in Seq(Octet) /\ t \in Seq(Octet) /\ r \in Seq(Octet) /\ at \in 0..(Rate - 1)
      /\ b \in [Spot -> Octet] /\ Len(l.msg) = Len(t) + at + Len(r)
  BY DEF InputOK
<1>2. Len(t) \in Nat /\ Len(r) \in Nat /\ Len(r) > 0 /\ Rate \in Nat
  BY <1>1, Sizes, EmptySeq
<1>3. clen \in 1..Len(r) /\ at + clen \in 1..Rate
  BY <1>1, <1>2 DEF Smaller
<1> HIDE DEF clen
<1>4. /\ r2 \in Seq(Octet) /\ Len(r2) = Len(r) - clen
      /\ \A i \in 1..Len(r2) : r2[i] = r[clen + i]
  <2>1. \A i \in (clen + 1)..Len(r) : r[i] \in Octet
    BY <1>1, <1>3
  <2> QED BY <1>2, <1>3, <2>1, SubSeqProperties
<1>5. ASSUME NEW p \in Spot
      PROVE  block[p] = IF p < at + clen THEN l.msg[Len(t) + p + 1] ELSE {}
  <2>1. b[p] = IF p < at THEN l.msg[Len(t) + p + 1] ELSE {}
    BY DEF InputOK
  <2>2. p \in Nat
    BY <1>2 DEF Spot
  <2>3. CASE p \in at..(at + clen - 1)
    <3>1. block[p] = XorByte({}, r[p - at + 1])
      <4>1. b[p] = {}
        BY <1>1, <1>2, <1>3, <2>1, <2>2, <2>3
      <4>2. block[p] = XorByte(b[p], r[p - at + 1])
        BY <2>3
      <4> QED BY <4>1, <4>2
    <3>2. p - at + 1 \in 1..Len(r) /\ Len(t) + at + (p - at + 1) = Len(t) + p + 1
      BY <1>1, <1>2, <1>3, <2>2, <2>3
    <3>3. r[p - at + 1] = l.msg[Len(t) + at + (p - at + 1)]
      BY <3>2 DEF InputOK
    <3>4. XorByte({}, r[p - at + 1]) = r[p - at + 1]
      BY DEF XorByte
    <3>5. p < at + clen
      BY <1>1, <1>2, <1>3, <2>2, <2>3
    <3> QED BY <3>1, <3>2, <3>3, <3>4, <3>5
  <2>4. CASE p \notin at..(at + clen - 1)
    <3>1. block[p] = b[p]
      BY <2>4
    <3>2. p < at <=> p < at + clen
      BY <1>1, <1>2, <1>3, <2>2, <2>4
    <3> QED BY <2>1, <3>1, <3>2
  <2> QED BY <2>3, <2>4
<1>6. block \in [Spot -> Octet]
  <2>1. ASSUME NEW p \in Spot PROVE block[p] \in Octet
    <3>1. p < at + clen => Len(t) + p + 1 \in 1..Len(l.msg)
      BY <1>1, <1>2, <1>3 DEF Spot
    <3>2. block[p] = IF p < at + clen THEN l.msg[Len(t) + p + 1] ELSE {}
      BY <1>5
    <3>3. p < at + clen => l.msg[Len(t) + p + 1] \in Octet
      BY <1>1, <3>1
    <3> HIDE DEF block
    <3> QED BY <3>2, <3>3, Sizes
  <2> QED BY <2>1
<1>7. PICK q \in Nat : Len(t) = q * Rate
  BY DEF InputOK
<1>8. /\ l.phase = "input" /\ l.domain = "shake" /\ l.out = <<>>
      /\ \A i \in 1..Len(t) : t[i] = l.msg[i]
      /\ \A i \in 1..Len(r) : r[i] = l.msg[Len(t) + at + i]
  BY DEF InputOK
<1> HIDE DEF block, r2
<1>9. ASSUME at + clen # Rate PROVE InputOK(t, block, at + clen, r2, l)
  <2>1. at + clen \in 0..(Rate - 1)
    BY <1>2, <1>3, <1>9
  <2>2. Len(l.msg) = Len(t) + (at + clen) + Len(r2)
    BY <1>1, <1>2, <1>3, <1>4
  <2>3. \A i \in 1..Len(r2) : r2[i] = l.msg[Len(t) + (at + clen) + i]
    <3> SUFFICES ASSUME NEW i \in 1..Len(r2) PROVE r2[i] = l.msg[Len(t) + (at + clen) + i]
      OBVIOUS
    <3>1. clen + i \in 1..Len(r) /\ Len(t) + at + (clen + i) = Len(t) + (at + clen) + i
      BY <1>1, <1>2, <1>3, <1>4
    <3> QED BY <1>4, <1>8, <3>1
  <2> QED BY <1>1, <1>4, <1>5, <1>6, <1>7, <1>8, <2>1, <2>2, <2>3 DEF InputOK
<1>10. ASSUME at + clen = Rate PROVE InputOK(Processed(t, block), Blank, 0, r2, l)
  <2> DEFINE t2 == Processed(t, block)
  <2>1. /\ t2 \in Seq(Octet) /\ Len(t2) = Len(t) + Rate
        /\ \A i \in 1..(Len(t) + Rate) : t2[i] = IF i <= Len(t) THEN t[i] ELSE block[i - Len(t) - 1]
    BY <1>1, <1>6, ProcessedSeq
  <2> HIDE DEF t2
  <2>2. Len(t2) = (q + 1) * Rate /\ q + 1 \in Nat
    BY <1>2, <1>7, <2>1
  <2> DEFINE m == Len(l.msg)  lt == Len(t)  lr == Len(r)  lt2 == Len(t2)  lr2 == Len(r2)
  <2>10. /\ m = lt + at + lr /\ lt \in Nat /\ lr \in Nat /\ at \in Int /\ clen \in 1..lr
         /\ lr2 = lr - clen /\ lt2 = lt + Rate /\ at + clen = Rate /\ Rate \in Nat
    BY <1>1, <1>2, <1>3, <1>4, <1>10, <2>1
  <2>11. m = lt2 + 0 + lr2
    <3> HIDE DEF m, lt, lr, lt2, lr2
    <3> QED BY <2>10
  <2>3. Len(l.msg) = Len(t2) + 0 + Len(r2)
    BY <2>11
  <2>4. \A i \in 1..Len(t2) : t2[i] = l.msg[i]
    <3> SUFFICES ASSUME NEW i \in 1..Len(t2) PROVE t2[i] = l.msg[i]
      OBVIOUS
    <3>1. CASE i <= Len(t)
      <4>1. i \in 1..Len(t) /\ i \in 1..(Len(t) + Rate)
        BY <1>2, <2>1, <3>1
      <4> QED BY <1>8, <2>1, <3>1, <4>1
    <3>2. CASE ~(i <= Len(t))
      <4>1. i - Len(t) - 1 \in Spot /\ i - Len(t) - 1 < at + clen
            /\ Len(t) + (i - Len(t) - 1) + 1 = i
        BY <1>2, <1>10, <2>1, <3>2 DEF Spot
      <4> QED BY <1>5, <2>1, <3>2, <4>1
    <3> QED BY <3>1, <3>2
  <2>5. \A i \in 1..Len(r2) : r2[i] = l.msg[Len(t2) + 0 + i]
    <3> SUFFICES ASSUME NEW i \in 1..Len(r2) PROVE r2[i] = l.msg[Len(t2) + 0 + i]
      OBVIOUS
    <3>1. clen + i \in 1..lr /\ lt + at + (clen + i) = lt2 + 0 + i
      <4>1. i \in 1..lr2
        OBVIOUS
      <4> HIDE DEF m, lt, lr, lt2, lr2
      <4> QED BY <2>10, <4>1
    <3> QED BY <1>4, <1>8, <3>1
  <2>6. /\ 0 \in 0..(Rate - 1) /\ Blank \in [Spot -> Octet]
        /\ \A p \in Spot : Blank[p] = IF p < 0 THEN l.msg[Len(t2) + p + 1] ELSE {}
    BY Sizes DEF Blank, Spot
  <2>7. InputOK(t2, Blank, 0, r2, l)
    BY <1>1, <1>4, <1>8, <2>1, <2>2, <2>3, <2>4, <2>5, <2>6 DEF InputOK
  <2> QED BY <2>7 DEF t2
<1> QED BY <1>9, <1>10, Zenon DEF block, r2, clen, TurnLen, TurnBlock, TurnRest

\* The padding that shake_flip and sha3_close XOR in completes the message.
LEMMA PaddingOK ==
  ASSUME NEW t, NEW b, NEW at, NEW l, InputOK(t, b, at, <<>>, l), NEW domain \in Domains
  PROVE  LET suffix == Promise!Suffix(domain)
         IN  /\ Padded(b, at, suffix) \in [Spot -> Octet]
             /\ Processed(t, Padded(b, at, suffix)) = Promise!Pad10_1(l.msg, domain)
<1> DEFINE suffix == Promise!Suffix(domain)  m == l.msg  n == Len(t) + Rate
           block == Padded(b, at, suffix)  P == Promise!Pad10_1(m, domain)
<1>1. m \in Seq(Octet) /\ t \in Seq(Octet) /\ b \in [Spot -> Octet] /\ at \in 0..(Rate - 1)
  BY DEF InputOK
<1>2. Len(t) \in Nat /\ Rate \in Nat /\ Rate > 1 /\ Len(m) = Len(t) + at
  BY <1>1, Sizes DEF InputOK
<1>3. suffix \in Octet /\ suffix \cap LastBit = {}
  BY DEF Promise!Suffix, Octet, LastBit
<1> HIDE DEF suffix
<1>4. \A p \in Spot : block[p] = XorByte(XorByte(b[p], IF p = at THEN suffix ELSE {}),
                                     IF p = Rate - 1 THEN LastBit ELSE {})
  BY DEF Padded
<1>5. block \in [Spot -> Octet]
  <2>1. ASSUME NEW p \in Spot PROVE block[p] \in Octet
    <3>1. b[p] \in Octet
      BY <1>1
    <3>2. block[p] \subseteq b[p] \cup suffix \cup LastBit
      BY <1>4 DEF XorByte
    <3>3. b[p] \subseteq 0..7 /\ suffix \subseteq 0..7 /\ LastBit \subseteq 0..7
      BY <1>3, <3>1, Sizes DEF Octet
    <3> QED BY <3>2, <3>3, Zenon DEF Octet
  <2>2. block = [p \in Spot |-> block[p]]
    BY DEF Padded
  <2> HIDE DEF block
  <2> QED BY <2>1, <2>2
<1> HIDE DEF block
<1>6. /\ Processed(t, block) \in Seq(Octet) /\ Len(Processed(t, block)) = n
      /\ \A i \in 1..n : Processed(t, block)[i] = IF i <= Len(t) THEN t[i] ELSE block[i - Len(t) - 1]
  BY <1>1, <1>5, ProcessedSeq
<1>7. (Len(m) \div Rate + 1) * Rate = n
  <2>1. PICK q \in Nat : Len(t) = q * Rate
    BY DEF InputOK
  <2>2. Len(m) \div Rate = q
    BY <1>1, <1>2, <2>1, BlockDivision
  <2> QED BY <1>2, <2>1, <2>2
<1>8. /\ P \in Seq(Octet) /\ Len(P) = n
      /\ \A i \in 1..n : P[i] = IF i <= Len(m) THEN m[i]
                        ELSE (IF i = Len(m) + 1 THEN suffix ELSE {})
                               \cup (IF i = n THEN LastBit ELSE {})
  BY <1>1, <1>7, PadSeq DEF suffix
<1>9. /\ \A i \in 1..Len(t) : t[i] = m[i]
      /\ \A p \in Spot : b[p] = IF p < at THEN m[Len(t) + p + 1] ELSE {}
  BY DEF InputOK
<1> HIDE DEF m, n, P
<1>10. \A i \in 1..n : Processed(t, block)[i] = P[i]
  <2> SUFFICES ASSUME NEW i \in 1..n PROVE Processed(t, block)[i] = P[i]
    OBVIOUS
  <2> DEFINE p == i - Len(t) - 1
  <2>1. i \in Nat /\ i > 0 /\ i <= Len(t) + Rate
    BY <1>2 DEF n
  <2>2. CASE i <= Len(t)
    <3>1. i \in 1..Len(t) /\ i <= Len(m)
      BY <1>1, <1>2, <2>1, <2>2
    <3> QED BY <1>6, <1>8, <1>9, <2>2, <3>1
  <2>3. CASE ~(i <= Len(t)) /\ p < at
    <3>1. p \in Spot /\ Len(t) + p + 1 = i /\ p # at /\ p # Rate - 1 /\ i <= Len(m)
      BY <1>1, <1>2, <2>1, <2>3 DEF Spot
    <3> HIDE DEF p
    <3>2. block[p] = XorByte(XorByte(m[i], {}), {})
      BY <1>4, <1>9, <2>3, <3>1
    <3>3. block[p] = m[i]
      BY <3>2 DEF XorByte
    <3> QED BY <1>6, <1>8, <2>3, <3>1, <3>3 DEF p
  <2>4. CASE ~(i <= Len(t)) /\ ~(p < at)
    <3>1. /\ p \in Spot /\ ~(i <= Len(m)) /\ (p = at <=> i = Len(m) + 1)
          /\ (p = Rate - 1 <=> i = n)
      BY <1>1, <1>2, <2>1, <2>4 DEF Spot, n
    <3> HIDE DEF p
    <3>2. block[p] = XorByte(XorByte({}, IF i = Len(m) + 1 THEN suffix ELSE {}),
                         IF i = n THEN LastBit ELSE {})
      BY <1>4, <1>9, <2>4, <3>1
    <3>3. block[p] = (IF i = Len(m) + 1 THEN suffix ELSE {}) \cup (IF i = n THEN LastBit ELSE {})
      BY <1>3, <3>2 DEF XorByte
    <3> QED BY <1>6, <1>8, <2>4, <3>1, <3>3 DEF p
  <2> QED BY <2>2, <2>3, <2>4
<1>11. Processed(t, block) = P
  BY <1>6, <1>8, <1>10, SeqEqual
<1> QED BY <1>5, <1>11 DEF block, P, m, suffix

\* what OutputFrom gives is output bytes, each at its place
LEMMA OutputSeq ==
  ASSUME NEW m \in Seq(Octet), NEW domain \in Domains, NEW first \in Nat, NEW n \in Nat
  PROVE  LET out == Promise!OutputFrom(m, domain, first, n)
         IN  /\ out \in Seq(OutputBytes) /\ Len(out) = n
             /\ \A k \in 1..n : out[k] = Promise!OutputByte(m, domain, first + k - 1)
<1>1. ASSUME NEW k \in Nat PROVE Promise!OutputByte(m, domain, k) \in OutputBytes
  <2>1. k \div Rate \in Nat /\ k % Rate \in Nat /\ Rate \in Nat
    BY Sizes
  <2>2. (k \div Rate) * Rate \in Nat
    BY <2>1
  <2>3. Promise!Pad10_1(m, domain) \o Promise!Zeros((k \div Rate) * Rate) \in Seq(Octet)
    BY <2>2, PadSeq, ZerosSeq, ConcatProperties
  <2> QED BY <2>1, <2>3 DEF Promise!OutputByte, OutputBytes
<1>2. \A k \in 1..n : first + k - 1 \in Nat
  OBVIOUS
<1> QED BY <1>1, <1>2 DEF Promise!OutputFrom

\* shake_flip
LEMMA FlipOK ==
  ASSUME NEW t, NEW b, NEW at, NEW l, ContextOK(t, b, at, <<>>, l), l.phase = "input"
  PROVE  ContextOK(t, Padded(b, at, SuffixShake), Rate, <<>>, [l EXCEPT !.phase = "output"])
<1> DEFINE l2 == [l EXCEPT !.phase = "output"]  P == Promise!Pad10_1(l.msg, "shake")
<1>1. InputOK(t, b, at, <<>>, l) /\ l \in Logs
  BY DEF ContextOK, OutputOK, ClosedOK
<1>2. l2 \in Logs /\ l2.phase = "output" /\ l2.domain = "shake" /\ l2.msg = l.msg /\ l2.out = <<>>
  BY <1>1 DEF Logs, InputOK
<1> HIDE DEF l2
<1>3. l.msg \in Seq(Octet) /\ t \in Seq(Octet) /\ "shake" \in Domains
  BY <1>1 DEF InputOK, Domains
<1>4. Padded(b, at, SuffixShake) \in [Spot -> Octet] /\ Processed(t, Padded(b, at, SuffixShake)) = P
  <2>1. Promise!Suffix("shake") = SuffixShake
    BY DEF Promise!Suffix, SuffixShake
  <2> QED BY <1>1, <1>3, <2>1, PaddingOK
<1>5. P \o Promise!Zeros(0 * Rate) = P
  <2>1. P \in Seq(Octet)
    BY <1>3, PadSeq
  <2>2. 0 * Rate = 0 /\ Promise!Zeros(0) = <<>>
    BY Sizes DEF Promise!Zeros
  <2> QED BY <2>1, <2>2, ConcatEmptySeq
<1>6. <<>> = Promise!OutputFrom(l.msg, "shake", 0, 0) /\ Len(<<>>) = 0 * Rate /\ 0 \in Nat
  BY Sizes DEF Promise!OutputFrom
<1>7. /\ <<>> \in Seq(OutputBytes) /\ Len(<<>>) = 0
      /\ l2.out = Promise!OutputFrom(l2.msg, "shake", 0, Len(l2.out))
  BY <1>2, <1>6
<1>8. OutputOK(t, Padded(b, at, SuffixShake), Rate, l2)
  <2>1. /\ Processed(t, Padded(b, at, SuffixShake)) =
                Promise!Pad10_1(l2.msg, "shake") \o Promise!Zeros(0 * Rate)
        /\ Len(l2.out) = 0 * Rate
    BY <1>2, <1>4, <1>5, <1>6
  <2> QED BY <1>2, <1>3, <1>4, <1>6, <1>7, <2>1 DEF OutputOK
<1> QED BY <1>2, <1>8 DEF ContextOK, l2

\* A block of nothing is one more block of zeros.
LEMMA BlankBlock ==
  ASSUME NEW P \in Seq(Octet), NEW q \in Nat
  PROVE  Processed(P \o Promise!Zeros(q * Rate), Blank) = P \o Promise!Zeros((q + 1) * Rate)
<1> DEFINE z == q * Rate  z2 == (q + 1) * Rate
           t == P \o Promise!Zeros(z)  t2 == P \o Promise!Zeros(z2)
<1>1. z \in Nat /\ z2 \in Nat /\ z2 = z + Rate /\ Rate \in Nat /\ Len(P) \in Nat
  BY Sizes
<1> HIDE DEF z, z2
<1>2. /\ Promise!Zeros(z) \in Seq(Octet) /\ Len(Promise!Zeros(z)) = z
      /\ \A i \in 1..z : Promise!Zeros(z)[i] = {}
      /\ Promise!Zeros(z2) \in Seq(Octet) /\ Len(Promise!Zeros(z2)) = z2
      /\ \A i \in 1..z2 : Promise!Zeros(z2)[i] = {}
  BY <1>1, ZerosSeq
<1>3. /\ t \in Seq(Octet) /\ Len(t) = Len(P) + z
      /\ \A i \in 1..Len(P) + z : t[i] = IF i <= Len(P) THEN P[i] ELSE Promise!Zeros(z)[i - Len(P)]
  BY <1>2, ConcatProperties
<1>4. /\ t2 \in Seq(Octet) /\ Len(t2) = Len(P) + z2
      /\ \A i \in 1..Len(P) + z2 : t2[i] = IF i <= Len(P) THEN P[i] ELSE Promise!Zeros(z2)[i - Len(P)]
  BY <1>2, ConcatProperties
<1> HIDE DEF t, t2
<1>5. Blank \in [Spot -> Octet] /\ \A p \in Spot : Blank[p] = {}
  BY Sizes DEF Blank
<1>6. /\ Processed(t, Blank) \in Seq(Octet) /\ Len(Processed(t, Blank)) = Len(t) + Rate
      /\ \A i \in 1..(Len(t) + Rate) :
            Processed(t, Blank)[i] = IF i <= Len(t) THEN t[i] ELSE Blank[i - Len(t) - 1]
  BY <1>3, <1>5, ProcessedSeq
<1>7. ASSUME NEW i \in 1..Len(t2) PROVE Processed(t, Blank)[i] = t2[i]
  <2>1. i \in Nat /\ i > 0 /\ i <= Len(P) + z + Rate /\ Len(t) = Len(P) + z
        /\ i \in 1..(Len(t) + Rate) /\ i \in 1..Len(P) + z2
    BY <1>1, <1>3, <1>4
  <2>2. CASE i <= Len(P)
    <3>1. i <= Len(t) /\ i \in 1..Len(P) + z
      BY <1>1, <2>1, <2>2
    <3> QED BY <1>3, <1>4, <1>6, <2>1, <2>2, <3>1
  <2>3. CASE ~(i <= Len(P))
    <3>1. i - Len(P) \in 1..z2
      BY <1>1, <2>1, <2>3
    <3>2. t2[i] = {}
      BY <1>2, <1>4, <2>1, <2>3, <3>1
    <3>3. Processed(t, Blank)[i] = {}
      <4>1. CASE i <= Len(t)
        <5>1. i \in 1..Len(P) + z /\ i - Len(P) \in 1..z
          BY <1>1, <2>1, <2>3, <4>1
        <5> QED BY <1>2, <1>3, <1>6, <2>1, <2>3, <4>1, <5>1
      <4>2. CASE ~(i <= Len(t))
        <5>1. i - Len(t) - 1 \in Spot
          BY <1>1, <2>1, <4>2 DEF Spot
        <5> QED BY <1>5, <1>6, <2>1, <4>2, <5>1
      <4> QED BY <4>1, <4>2
    <3> QED BY <3>2, <3>3
  <2> QED BY <2>2, <2>3
<1>8. Processed(t, Blank) = t2
  <2>1. Len(Processed(t, Blank)) = Len(t2)
    BY <1>1, <1>3, <1>4, <1>6
  <2> QED BY <1>4, <1>6, <1>7, <2>1, SeqEqual
<1> QED BY <1>8 DEF t, t2, z, z2

\* Two reads in a row are one.
LEMMA OutputsJoin ==
  ASSUME NEW m \in Seq(Octet), NEW domain \in Domains, NEW a \in Nat, NEW n \in Nat
  PROVE  Promise!OutputFrom(m, domain, 0, a) \o Promise!OutputFrom(m, domain, a, n)
            = Promise!OutputFrom(m, domain, 0, a + n)
<1> DEFINE s == Promise!OutputFrom(m, domain, 0, a)  t == Promise!OutputFrom(m, domain, a, n)
           u == Promise!OutputFrom(m, domain, 0, a + n)
           byte(k) == Promise!OutputByte(m, domain, k)
<1>0. 0 \in Nat /\ a + n \in Nat
  OBVIOUS
<1>1. /\ s \in Seq(OutputBytes) /\ Len(s) = a /\ \A k \in 1..a : s[k] = byte(0 + k - 1)
      /\ t \in Seq(OutputBytes) /\ Len(t) = n /\ \A k \in 1..n : t[k] = byte(a + k - 1)
      /\ u \in Seq(OutputBytes) /\ Len(u) = a + n /\ \A k \in 1..(a + n) : u[k] = byte(0 + k - 1)
  <2>1. s \in Seq(OutputBytes) /\ Len(s) = a /\ \A k \in 1..a : s[k] = byte(0 + k - 1)
    BY <1>0, OutputSeq
  <2>2. t \in Seq(OutputBytes) /\ Len(t) = n /\ \A k \in 1..n : t[k] = byte(a + k - 1)
    BY OutputSeq
  <2>3. u \in Seq(OutputBytes) /\ Len(u) = a + n /\ \A k \in 1..(a + n) : u[k] = byte(0 + k - 1)
    BY <1>0, OutputSeq
  <2> QED BY <2>1, <2>2, <2>3
<1> HIDE DEF s, t, u, byte
<1>2. /\ s \o t \in Seq(OutputBytes) /\ Len(s \o t) = a + n
      /\ \A i \in 1..a + n : (s \o t)[i] = IF i <= a THEN s[i] ELSE t[i - a]
  BY <1>1, ConcatProperties
<1>3. ASSUME NEW i \in 1..(a + n) PROVE (s \o t)[i] = u[i]
  <2>1. CASE i <= a
    <3>1. i \in 1..a
      BY <2>1
    <3> QED BY <1>1, <1>2, <2>1, <3>1
  <2>2. CASE ~(i <= a)
    <3>1. i - a \in 1..n /\ a + (i - a) - 1 = 0 + i - 1
      BY <2>2
    <3>2. t[i - a] = byte(a + (i - a) - 1)
      BY <1>1, <3>1
    <3> QED BY <1>1, <1>2, <2>2, <3>1, <3>2
  <2> QED BY <2>1, <2>2
<1>4. s \o t = u
  BY <1>1, <1>2, <1>3, SeqEqual
<1> QED BY <1>4 DEF s, t, u

\* what shake_extract reads from, in a turn of its loop
Refilled(t, b, at) == IF at = Rate THEN Processed(t, b) ELSE t
FirstPlace(at) == IF at = Rate THEN 0 ELSE at

\* It is the history of the padded message, and of whole blocks of nothing.
LEMMA RefilledOK ==
  ASSUME NEW t, NEW b, NEW at, NEW l, OutputOK(t, b, at, l)
  PROVE  \E q \in Nat :
            /\ Refilled(t, b, at) = Promise!Pad10_1(l.msg, "shake") \o Promise!Zeros(q * Rate)
            /\ FirstPlace(at) \in 0..(Rate - 1)
            /\ Len(l.out) = q * Rate + FirstPlace(at)
            /\ (IF at = Rate THEN Blank ELSE b) = Blank
<1> DEFINE P == Promise!Pad10_1(l.msg, "shake")
<1>1. PICK q \in Nat :
        \/ /\ at = Rate /\ Processed(t, b) = P \o Promise!Zeros(q * Rate)
           /\ Len(l.out) = q * Rate
        \/ /\ at \in 1..Rate /\ b = Blank
           /\ t = P \o Promise!Zeros(q * Rate)
           /\ Len(l.out) = q * Rate + at
  BY Zenon DEF OutputOK
<1>2. P \in Seq(Octet)
  <2>1. l.msg \in Seq(Octet) /\ "shake" \in Domains
    BY DEF OutputOK, Domains
  <2> QED BY <2>1, PadSeq
<1>3. Rate \in Nat /\ Rate > 1 /\ q * Rate \in Nat /\ (q + 1) * Rate = q * Rate + Rate /\ q + 1 \in Nat
  BY Sizes
<1> HIDE DEF P
<1>4. CASE at = Rate /\ Processed(t, b) = P \o Promise!Zeros(q * Rate) /\ Len(l.out) = q * Rate
  <2>1. Refilled(t, b, at) = P \o Promise!Zeros(q * Rate) /\ FirstPlace(at) = 0
    BY <1>4 DEF Refilled, FirstPlace
  <2>2. q * Rate + 0 = q * Rate /\ 0 \in 0..(Rate - 1)
    BY <1>3
  <2> QED BY <1>4, <2>1, <2>2 DEF P
<1>5. CASE at \in 1..Rate /\ b = Blank /\ t = P \o Promise!Zeros(q * Rate)
           /\ Len(l.out) = q * Rate + at
  <2>1. CASE at = Rate
    <3>1. Refilled(t, b, at) = P \o Promise!Zeros((q + 1) * Rate) /\ FirstPlace(at) = 0
      BY <1>2, <1>5, <2>1, BlankBlock DEF Refilled, FirstPlace
    <3>2. Len(l.out) = (q + 1) * Rate + 0 /\ 0 \in 0..(Rate - 1)
      BY <1>3, <1>5, <2>1
    <3> QED BY <1>3, <2>1, <3>1, <3>2 DEF P
  <2>2. CASE at # Rate
    <3>1. Refilled(t, b, at) = t /\ FirstPlace(at) = at /\ at \in 0..(Rate - 1)
      BY <1>3, <1>5, <2>2 DEF Refilled, FirstPlace
    <3> QED BY <1>5, <2>2, <3>1 DEF P
  <2> QED BY <2>1, <2>2
<1> QED BY <1>1, <1>4, <1>5

\* how many bytes a turn writes, and which
TurnOut(at, n) == Smaller(Rate - FirstPlace(at), n)
TurnBytes(t, b, at, n) ==
    [k \in 1..TurnOut(at, n) |-> Read(Refilled(t, b, at), FirstPlace(at) + k - 1)]

\* one turn of the loop of shake_extract
LEMMA ExtractChunkOK ==
  ASSUME NEW t, NEW b, NEW at, NEW l, ContextOK(t, b, at, <<>>, l), l.phase = "output",
         NEW n \in Nat, n > 0
  PROVE  /\ TurnOut(at, n) \in 1..n
         /\ TurnBytes(t, b, at, n)
                = Promise!OutputFrom(l.msg, "shake", Len(l.out), TurnOut(at, n))
         /\ ContextOK(Refilled(t, b, at), IF at = Rate THEN Blank ELSE b,
                      FirstPlace(at) + TurnOut(at, n), <<>>,
                      [l EXCEPT !.out = @ \o TurnBytes(t, b, at, n)])
<1> DEFINE t2 == Refilled(t, b, at)
           first == FirstPlace(at)
           clen == Smaller(Rate - first, n)
           chunk == [k \in 1..clen |-> Read(t2, first + k - 1)]
           l2 == [l EXCEPT !.out = @ \o chunk]
           m == l.msg
           a == Len(l.out)
           P == Promise!Pad10_1(m, "shake")
           b2 == IF at = Rate THEN Blank ELSE b
<1>1. OutputOK(t, b, at, l) /\ l \in Logs
  BY DEF ContextOK, InputOK, ClosedOK
<1>2. PICK q \in Nat : /\ t2 = P \o Promise!Zeros(q * Rate)
                       /\ first \in 0..(Rate - 1)
                       /\ a = q * Rate + first
                       /\ b2 = Blank
  BY <1>1, RefilledOK
<1>3. /\ m \in Seq(Octet) /\ l.out \in Seq(OutputBytes) /\ l.domain = "shake" /\ "shake" \in Domains
      /\ l.out = Promise!OutputFrom(m, "shake", 0, a)
  BY <1>1 DEF OutputOK, Domains
<1>4. a \in Nat /\ Rate \in Nat /\ Rate > 1 /\ q * Rate \in Nat
  BY <1>3, Sizes
<1> HIDE DEF first, t2
<1>5. clen \in 1..n /\ first + clen \in 1..Rate
  BY <1>2, <1>4 DEF Smaller
<1> HIDE DEF clen
<1>6. \A k \in 1..clen : Promise!OutputByte(m, "shake", a + k - 1) = Read(t2, first + k - 1)
  <2> SUFFICES ASSUME NEW k \in 1..clen
               PROVE  Promise!OutputByte(m, "shake", a + k - 1) = Read(t2, first + k - 1)
    OBVIOUS
  <2>1. first + k - 1 \in 0..(Rate - 1) /\ a + k - 1 = q * Rate + (first + k - 1)
    BY <1>2, <1>4, <1>5
  <2>2. (a + k - 1) \div Rate = q /\ (a + k - 1) % Rate = first + k - 1
    BY <2>1, BlockDivision
  <2> QED BY <1>2, <2>2 DEF Promise!OutputByte, Read
<1>7. chunk = Promise!OutputFrom(m, "shake", a, clen)
  BY <1>6 DEF Promise!OutputFrom
<1>8. chunk \in Seq(OutputBytes) /\ Len(chunk) = clen
  <2>1. clen \in Nat
    BY <1>5
  <2> HIDE DEF m, a, chunk
  <2>2. LET out == Promise!OutputFrom(m, "shake", a, clen)
        IN  out \in Seq(OutputBytes) /\ Len(out) = clen
    BY <1>3, <1>4, <2>1, OutputSeq
  <2> QED BY <1>7, <2>2
<1> HIDE DEF chunk
<1>9. l.out \o chunk \in Seq(OutputBytes) /\ Len(l.out \o chunk) = a + clen
  BY <1>3, <1>8, ConcatProperties
<1>10. l.out \o chunk = Promise!OutputFrom(m, "shake", 0, a + clen)
  <2>1. clen \in Nat
    BY <1>5
  <2> HIDE DEF m, a
  <2>2. Promise!OutputFrom(m, "shake", 0, a) \o Promise!OutputFrom(m, "shake", a, clen)
            = Promise!OutputFrom(m, "shake", 0, a + clen)
    BY <1>3, <1>4, <2>1, OutputsJoin
  <2> QED BY <1>3, <1>7, <2>2
<1>11. /\ l2 \in Logs
       /\ l2.phase = l.phase /\ l2.domain = l.domain /\ l2.msg = m /\ l2.out = l.out \o chunk
  BY <1>1, <1>9 DEF Logs
<1> HIDE DEF l2
<1>12. OutputOK(t2, b2, first + clen, l2)
  <2>1. Len(l2.out) = q * Rate + (first + clen)
    BY <1>2, <1>4, <1>5, <1>9, <1>11
  <2>2. l2.out = Promise!OutputFrom(l2.msg, "shake", 0, Len(l2.out)) /\ l2.out \in Seq(OutputBytes)
    BY <1>9, <1>10, <1>11
  <2>3. /\ first + clen \in 1..Rate /\ b2 = Blank
        /\ t2 = Promise!Pad10_1(l2.msg, "shake") \o Promise!Zeros(q * Rate)
    BY <1>2, <1>5, <1>11
  <2>4. l2.phase = "output" /\ l2.domain = "shake" /\ l2.msg \in Seq(Octet)
    BY <1>3, <1>11
  <2> HIDE DEF b2, P, m, a
  <2> QED BY <2>1, <2>2, <2>3, <2>4, Zenon DEF OutputOK
<1>13. ContextOK(t2, b2, first + clen, <<>>, l2)
  BY <1>11, <1>12 DEF ContextOK
<1> QED BY <1>5, <1>7, <1>13, Zenon DEF l2, chunk, clen, first, t2, TurnOut, TurnBytes

\* what sha3_close processes, and reads
Closing(t, b, at) == Processed(t, Padded(b, at, SuffixSha3))
CloseBytes(t, b, at) == [k \in 1..((Width - Rate) \div 2) |-> Read(Closing(t, b, at), k - 1)]

\* sha3_close; the words of the context are left as they fall.
LEMMA CloseOK ==
  ASSUME NEW t, NEW b, NEW at, NEW l, ContextOK(t, b, at, <<>>, l), l.phase = "input",
         NEW bAfter, NEW atAfter
  PROVE  /\ CloseBytes(t, b, at)
                = Promise!OutputFrom(l.msg, "sha3", 0, (Width - Rate) \div 2)
         /\ ContextOK(Closing(t, b, at), bAfter, atAfter, <<>>,
                      [l EXCEPT !.phase = "closed", !.domain = "sha3",
                                !.out = CloseBytes(t, b, at)])
<1> DEFINE t2 == Processed(t, Padded(b, at, SuffixSha3))
           half == (Width - Rate) \div 2
           read == [k \in 1..half |-> Read(t2, k - 1)]
           l2 == [l EXCEPT !.phase = "closed", !.domain = "sha3", !.out = read]
           m == l.msg
           P == Promise!Pad10_1(m, "sha3")
<1>1. InputOK(t, b, at, <<>>, l) /\ l \in Logs
  BY DEF ContextOK, OutputOK, ClosedOK
<1>2. m \in Seq(Octet) /\ "sha3" \in Domains /\ half \in 1..Rate /\ Rate \in Nat
  BY <1>1, Sizes DEF InputOK, Domains
<1>3. t2 = P
  <2>1. Promise!Suffix("sha3") = SuffixSha3
    BY DEF Promise!Suffix, SuffixSha3
  <2> QED BY <1>1, <1>2, <2>1, PaddingOK
<1>4. P \o Promise!Zeros(0 * Rate) = P
  <2>1. P \in Seq(Octet)
    BY <1>2, PadSeq
  <2>2. 0 * Rate = 0 /\ Promise!Zeros(0) = <<>>
    BY Sizes DEF Promise!Zeros
  <2> QED BY <2>1, <2>2, ConcatEmptySeq
<1> HIDE DEF half, t2
<1>5. \A k \in 1..half : Promise!OutputByte(m, "sha3", 0 + k - 1) = Read(t2, k - 1)
  <2> SUFFICES ASSUME NEW k \in 1..half
               PROVE  Promise!OutputByte(m, "sha3", 0 + k - 1) = Read(t2, k - 1)
    OBVIOUS
  <2>1. k - 1 \in 0..(Rate - 1) /\ 0 + k - 1 = 0 * Rate + (k - 1) /\ 0 \in Nat
    BY <1>2
  <2>2. (0 + k - 1) \div Rate = 0 /\ (0 + k - 1) % Rate = k - 1
    BY <2>1, BlockDivision
  <2> QED BY <1>3, <1>4, <2>2 DEF Promise!OutputByte, Read
<1>6. read = Promise!OutputFrom(m, "sha3", 0, half)
  BY <1>5 DEF Promise!OutputFrom
<1> HIDE DEF read
<1>7. read \in Seq(OutputBytes)
  <2>1. half \in Nat /\ 0 \in Nat
    BY <1>2
  <2> HIDE DEF m
  <2>2. Promise!OutputFrom(m, "sha3", 0, half) \in Seq(OutputBytes)
    BY <1>2, <2>1, OutputSeq
  <2> QED BY <1>6, <2>2
<1>8. l2 \in Logs /\ l2.phase = "closed" /\ l2.domain = "sha3" /\ l2.msg = m /\ l2.out = read
  BY <1>1, <1>2, <1>7 DEF Logs
<1> HIDE DEF l2
<1>9. ContextOK(t2, bAfter, atAfter, <<>>, l2)
  BY <1>2, <1>6, <1>8 DEF ContextOK, ClosedOK, half
<1> QED BY <1>6, <1>9, Zenon DEF l2, read, half, t2, Closing, CloseBytes

-----------------------------------------------------------------------------
(* The padding.                                                            *)

\* A padded message determines the message and the kind of context.
LEMMA PadInjective ==
  ASSUME NEW m \in Seq(Octet), NEW w \in Seq(Octet), NEW d \in Domains, NEW e \in Domains,
         Promise!Pad10_1(m, d) = Promise!Pad10_1(w, e)
  PROVE  m = w /\ d = e
<1> DEFINE P == Promise!Pad10_1(m, d)  n == (Len(m) \div Rate + 1) * Rate
           Q == Promise!Pad10_1(w, e)  k == (Len(w) \div Rate + 1) * Rate
<1>1. /\ n \in Nat /\ Len(m) < n /\ Len(P) = n
      /\ \A i \in 1..n : P[i] = IF i <= Len(m) THEN m[i]
                        ELSE (IF i = Len(m) + 1 THEN Promise!Suffix(d) ELSE {})
                               \cup (IF i = n THEN LastBit ELSE {})
  BY PadSeq
<1>2. /\ k \in Nat /\ Len(w) < k /\ Len(Q) = k
      /\ \A i \in 1..k : Q[i] = IF i <= Len(w) THEN w[i]
                        ELSE (IF i = Len(w) + 1 THEN Promise!Suffix(e) ELSE {})
                               \cup (IF i = k THEN LastBit ELSE {})
  BY PadSeq
<1>3. Len(m) \in Nat /\ Len(w) \in Nat /\ P = Q
  OBVIOUS
<1> HIDE DEF n, k, P, Q
<1>4. n = k
  BY <1>1, <1>2, <1>3
<1>5. /\ \A x \in Domains : Promise!Suffix(x) \cap LastBit = {} /\ Promise!Suffix(x) # {}
      /\ Promise!Suffix(d) \cup LastBit = Promise!Suffix(e) \cup LastBit => d = e
      /\ Promise!Suffix(d) = Promise!Suffix(e) => d = e
  <2>1. \A x \in Domains : /\ x = "shake" => Promise!Suffix(x) = {0, 1, 2, 3, 4}
                           /\ x = "sha3" => Promise!Suffix(x) = {1, 2}
                           /\ x = "shake" \/ x = "sha3"
    BY DEF Promise!Suffix, Domains
  <2>2. 0 \in {0, 1, 2, 3, 4} /\ 0 \notin {1, 2} /\ 0 \notin LastBit /\ 1 \in {1, 2} /\ 1 \in {0, 1, 2, 3, 4}
        /\ {0, 1, 2, 3, 4} \cap LastBit = {} /\ {1, 2} \cap LastBit = {}
    BY DEF LastBit
  <2> QED BY <2>1, <2>2
\* a message that ended earlier would have zeros where the longer one has its suffix
<1>6. Len(m) = Len(w)
  <2>1. ASSUME Len(m) < Len(w) PROVE FALSE
    <3>1. Len(w) + 1 \in 1..n /\ ~(Len(w) + 1 <= Len(w)) /\ ~(Len(w) + 1 <= Len(m))
          /\ Len(w) + 1 # Len(m) + 1
      BY <1>1, <1>2, <1>3, <1>4, <2>1
    <3>2. /\ P[Len(w) + 1] = {} \cup (IF Len(w) + 1 = n THEN LastBit ELSE {})
          /\ Q[Len(w) + 1] = Promise!Suffix(e) \cup (IF Len(w) + 1 = n THEN LastBit ELSE {})
      BY <1>1, <1>2, <1>4, <3>1
    <3> QED BY <1>3, <1>5, <3>2
  <2>2. ASSUME Len(w) < Len(m) PROVE FALSE
    <3>1. Len(m) + 1 \in 1..n /\ ~(Len(m) + 1 <= Len(w)) /\ ~(Len(m) + 1 <= Len(m))
          /\ Len(w) + 1 # Len(m) + 1
      BY <1>1, <1>2, <1>3, <1>4, <2>2
    <3>2. /\ Q[Len(m) + 1] = {} \cup (IF Len(m) + 1 = n THEN LastBit ELSE {})
          /\ P[Len(m) + 1] = Promise!Suffix(d) \cup (IF Len(m) + 1 = n THEN LastBit ELSE {})
      BY <1>1, <1>2, <1>4, <3>1
    <3> QED BY <1>3, <1>5, <3>2
  <2> QED BY <1>3, <2>1, <2>2
<1>7. m = w
  <2>1. ASSUME NEW i \in 1..Len(m) PROVE m[i] = w[i]
    <3>1. i \in 1..n /\ i <= Len(m)
      BY <1>1, <1>3
    <3> QED BY <1>1, <1>2, <1>3, <1>4, <1>6, <3>1
  <2> QED BY <1>6, <2>1, SeqEqual
<1>8. d = e
  <2>1. Len(m) + 1 \in 1..n /\ ~(Len(m) + 1 <= Len(m))
    BY <1>1, <1>3
  <2>2. /\ P[Len(m) + 1] = Promise!Suffix(d) \cup (IF Len(m) + 1 = n THEN LastBit ELSE {})
        /\ Q[Len(m) + 1] = Promise!Suffix(e) \cup (IF Len(m) + 1 = n THEN LastBit ELSE {})
    BY <1>1, <1>2, <1>4, <1>6, <2>1
  <2>3. CASE Len(m) + 1 = n
    BY <1>3, <1>5, <2>2, <2>3
  <2>4. CASE Len(m) + 1 # n
    BY <1>3, <1>5, <2>2, <2>4
  <2> QED BY <2>3, <2>4
<1> QED BY <1>7, <1>8

-----------------------------------------------------------------------------
(* The contexts of a program.                                              *)

\* Only the words and the log of c change.
OnlyAt(c) ==
    /\ DOMAIN tape' = Ctxs /\ DOMAIN cur' = Ctxs /\ DOMAIN dptr' = Ctxs /\ DOMAIN log' = Ctxs
    /\ \A d \in Ctxs \ {c} :
        /\ tape'[d] = tape[d] /\ cur'[d] = cur[d] /\ dptr'[d] = dptr[d] /\ log'[d] = log[d]
        /\ Pending(d) = <<>> /\ Pending(d)' = <<>>

LEMMA OneContext ==
  ASSUME IInv, NEW c \in Ctxs, OnlyAt(c), CallInv',
         ContextOK(tape'[c], cur'[c], dptr'[c], Pending(c)', log'[c])
  PROVE  IInv'
<1>1. ASSUME NEW d \in Ctxs
      PROVE  ContextOK(tape'[d], cur'[d], dptr'[d], Pending(d)', log'[d])
  <2>1. CASE d # c
    <3>1. ContextOK(tape[d], cur[d], dptr[d], Pending(d), log[d])
      BY DEF IInv
    <3> QED BY <2>1, <3>1 DEF OnlyAt
  <2> QED BY <2>1
<1> QED BY <1>1 DEF IInv, OnlyAt

\* No call runs, so nothing is pending.
LEMMA IdlePending ==
  ASSUME Idle, NEW d
  PROVE  Pending(d) = <<>>
<1>1. busy # {d}
  BY DEF Idle
<1> QED BY <1>1 DEF Pending

LEMMA IdleCall == ASSUME IInv, Idle PROVE rest = <<>> /\ want = 0
<1>1. \A c : busy # {c}
  BY DEF Idle
<1> QED BY <1>1 DEF IInv, CallInv

LEMMA ShakeInitInv ==
  ASSUME IInv, NEW c \in Ctxs, ShakeInit(c)
  PROVE  IInv' /\ Promise!Reset(c)
<1>1. /\ Idle /\ UNCHANGED <<busy, rest, want>> /\ Idle'
      /\ tape' = [tape EXCEPT ![c] = <<>>] /\ cur' = [cur EXCEPT ![c] = Blank]
      /\ dptr' = [dptr EXCEPT ![c] = 0] /\ log' = [log EXCEPT ![c] = Fresh]
  BY DEF ShakeInit, Idle
<1>2. \A d : Pending(d) = <<>> /\ Pending(d)' = <<>>
  BY <1>1, IdlePending DEF Pending, Idle
<1>3. OnlyAt(c)
  BY <1>1, <1>2 DEF OnlyAt, IInv
<1>4. CallInv'
  BY <1>1, IdleCall DEF CallInv, Idle
<1>5. ContextOK(tape'[c], cur'[c], dptr'[c], Pending(c)', log'[c])
  BY <1>1, <1>2, FreshOK DEF IInv
<1>6. Promise!Reset(c)
  BY <1>1 DEF Promise!Reset, Promise!Fresh, Fresh
<1> QED BY <1>3, <1>4, <1>5, <1>6, OneContext

LEMMA CopyInv ==
  ASSUME IInv, NEW from \in Ctxs, NEW to \in Ctxs, Copy(from, to)
  PROVE  IInv' /\ Promise!Copy(from, to)
<1>1. /\ Idle /\ UNCHANGED <<busy, rest, want>> /\ Idle'
      /\ tape' = [tape EXCEPT ![to] = tape[from]] /\ cur' = [cur EXCEPT ![to] = cur[from]]
      /\ dptr' = [dptr EXCEPT ![to] = dptr[from]] /\ log' = [log EXCEPT ![to] = log[from]]
  BY DEF Copy, Idle
<1>2. \A d : Pending(d) = <<>> /\ Pending(d)' = <<>>
  BY <1>1, IdlePending DEF Pending, Idle
<1>3. OnlyAt(to)
  BY <1>1, <1>2 DEF OnlyAt, IInv
<1>4. CallInv'
  BY <1>1, IdleCall DEF CallInv, Idle
<1>5. ContextOK(tape'[to], cur'[to], dptr'[to], Pending(to)', log'[to])
  BY <1>1, <1>2 DEF IInv
<1>6. Promise!Copy(from, to)
  BY <1>1 DEF Promise!Copy
<1> QED BY <1>3, <1>4, <1>5, <1>6, OneContext

LEMMA ChunkIsOctets ==
  ASSUME NEW data \in Chunks
  PROVE  data \in Seq(Octet) /\ data # <<>> /\ data \in Promise!Chunks
<1>1. PICK n \in 1..MaxChunk : data \in [1..n -> Bytes]
  BY DEF Chunks
<1>2. n \in Nat /\ n > 0
  BY <1>1, Sizes
<1>3. data \in [1..n -> Octet]
  BY <1>1, Sizes
<1>4. data \in Seq(Octet) /\ Len(data) = n
  BY <1>2, <1>3
<1>5. data # <<>>
  BY <1>2, <1>4
<1>6. data \in Promise!Chunks
  BY <1>1 DEF Promise!Chunks
<1> QED BY <1>4, <1>5, <1>6

LEMMA InjectCallInv ==
  ASSUME IInv, NEW c \in Ctxs, NEW data \in Chunks, InjectCall(c, data)
  PROVE  IInv' /\ Promise!Inject(c, data)
<1>1. /\ Idle /\ log[c].phase = "input" /\ UNCHANGED <<tape, cur, dptr, want>>
      /\ busy' = {c} /\ rest' = data
      /\ log' = [log EXCEPT ![c] = [log[c] EXCEPT !.msg = @ \o data]]
  BY DEF InjectCall
<1>2. \A d : Pending(d) = <<>>
  BY <1>1, IdlePending
<1>3. Pending(c)' = data /\ \A d \in Ctxs \ {c} : Pending(d)' = <<>>
  BY <1>1 DEF Pending
<1>4. data \in Seq(Octet) /\ data # <<>>
  BY ChunkIsOctets
<1>5. OnlyAt(c)
  BY <1>1, <1>2, <1>3 DEF OnlyAt, IInv
<1>6. log'[c] = [log[c] EXCEPT !.msg = @ \o data]
  BY <1>1 DEF IInv
<1>7. ContextOK(tape[c], cur[c], dptr[c], <<>>, log[c])
  BY <1>2 DEF IInv
<1>8. ContextOK(tape[c], cur[c], dptr[c], data, log'[c])
  <2>1. ContextOK(tape[c], cur[c], dptr[c], data, [log[c] EXCEPT !.msg = @ \o data])
    BY <1>1, <1>4, <1>7, InjectCallOK, Zenon
  <2> QED BY <1>6, <2>1, Zenon
<1>9. ContextOK(tape'[c], cur'[c], dptr'[c], Pending(c)', log'[c])
  BY <1>1, <1>3, <1>8
<1>10. CallInv'
  <2>1. log'[c].phase = "input"
    <3>1. log[c] \in Logs
      BY <1>7 DEF ContextOK
    <3> QED BY <1>1, <1>6, <3>1 DEF Logs
  <2> QED BY <1>1, <1>4, <2>1, IdleCall DEF CallInv
<1>11. Promise!Inject(c, data)
  BY <1>1 DEF Promise!Inject
<1> QED BY <1>5, <1>9, <1>10, <1>11, OneContext

LEMMA InjectChunkInv ==
  ASSUME IInv, NEW c \in Ctxs, InjectChunk(c)
  PROVE  IInv' /\ UNCHANGED log
<1> DEFINE clen == TurnLen(dptr[c], rest)
           block == TurnBlock(cur[c], dptr[c], rest)
           r2 == TurnRest(dptr[c], rest)
<1>1. /\ busy = {c} /\ rest # <<>> /\ UNCHANGED <<want, log>>
      /\ rest' = r2 /\ busy' = IF r2 = <<>> THEN {} ELSE {c}
  BY DEF InjectChunk, TurnRest, TurnLen
<1>2. IF dptr[c] + clen = Rate
      THEN /\ tape' = [tape EXCEPT ![c] = Processed(@, block)]
           /\ cur' = [cur EXCEPT ![c] = Blank]
           /\ dptr' = [dptr EXCEPT ![c] = 0]
      ELSE /\ cur' = [cur EXCEPT ![c] = block]
           /\ dptr' = [dptr EXCEPT ![c] = @ + clen]
           /\ UNCHANGED tape
  BY DEF InjectChunk, TurnLen, TurnBlock
<1>3. \A d \in Ctxs \ {c} : Pending(d) = <<>> /\ Pending(d)' = <<>>
  BY <1>1 DEF Pending
<1>4. Pending(c) = rest /\ Pending(c)' = r2
  BY <1>1 DEF Pending
<1>5. log[c].phase = "input" /\ want = 0
  <2>1. busy # {} /\ \A d : busy = {d} => d = c
    BY <1>1
  <2> QED BY <1>1, <2>1 DEF IInv, CallInv
<1>6. InputOK(tape[c], cur[c], dptr[c], rest, log[c]) /\ log[c] \in Logs
  BY <1>4, <1>5 DEF IInv, ContextOK, OutputOK, ClosedOK
<1>7. IF dptr[c] + clen = Rate
      THEN InputOK(Processed(tape[c], block), Blank, 0, r2, log[c])
      ELSE InputOK(tape[c], block, dptr[c] + clen, r2, log[c])
  BY <1>1, <1>6, InjectChunkOK, Zenon
<1> HIDE DEF clen, block, r2
<1>8. InputOK(tape'[c], cur'[c], dptr'[c], r2, log'[c])
  BY <1>1, <1>2, <1>7 DEF IInv
<1>9. ContextOK(tape'[c], cur'[c], dptr'[c], Pending(c)', log'[c])
  BY <1>1, <1>4, <1>6, <1>8 DEF ContextOK
<1>10. OnlyAt(c)
  BY <1>1, <1>2, <1>3 DEF OnlyAt, IInv
<1>11. CallInv'
  BY <1>1, <1>5 DEF CallInv
<1> QED BY <1>1, <1>9, <1>10, <1>11, OneContext

LEMMA ShakeFlipInv ==
  ASSUME IInv, NEW c \in Ctxs, ShakeFlip(c)
  PROVE  IInv' /\ Promise!Flip(c)
<1> DEFINE l2 == [log[c] EXCEPT !.phase = "output"]
<1>1. /\ Idle /\ log[c].phase = "input" /\ UNCHANGED <<tape, busy, rest, want>> /\ Idle'
      /\ cur' = [cur EXCEPT ![c] = Padded(cur[c], dptr[c], SuffixShake)]
      /\ dptr' = [dptr EXCEPT ![c] = Rate] /\ log' = [log EXCEPT ![c] = l2]
  BY DEF ShakeFlip, Idle
<1>2. \A d : Pending(d) = <<>> /\ Pending(d)' = <<>>
  BY <1>1, IdlePending DEF Pending, Idle
<1>3. Promise!Flip(c)
  BY <1>1 DEF Promise!Flip
<1>4. ContextOK(tape[c], cur[c], dptr[c], <<>>, log[c])
  BY <1>2 DEF IInv
<1>5. ContextOK(tape[c], Padded(cur[c], dptr[c], SuffixShake), Rate, <<>>, l2)
  BY <1>1, <1>4, FlipOK, Zenon
<1> HIDE DEF l2
<1>6. OnlyAt(c)
  BY <1>1, <1>2 DEF OnlyAt, IInv
<1>7. CallInv'
  BY <1>1, IdleCall DEF CallInv, Idle
<1>8. ContextOK(tape'[c], cur'[c], dptr'[c], Pending(c)', log'[c])
  BY <1>1, <1>2, <1>5 DEF IInv
<1> QED BY <1>3, <1>6, <1>7, <1>8, OneContext

LEMMA Sha3CloseInv ==
  ASSUME IInv, NEW c \in Ctxs, Sha3Close(c)
  PROVE  IInv' /\ Promise!Close(c)
<1> DEFINE t2 == Closing(tape[c], cur[c], dptr[c])
           half == (Width - Rate) \div 2
           read == CloseBytes(tape[c], cur[c], dptr[c])
           l2 == [log[c] EXCEPT !.phase = "closed", !.domain = "sha3", !.out = read]
<1>1. /\ Idle /\ log[c].phase = "input" /\ UNCHANGED <<dptr, busy, rest, want>> /\ Idle'
      /\ tape' = [tape EXCEPT ![c] = t2] /\ cur' = [cur EXCEPT ![c] = Blank]
      /\ log' = [log EXCEPT ![c] = l2]
  BY DEF Sha3Close, Idle, Closing, CloseBytes
<1>2. \A d : Pending(d) = <<>> /\ Pending(d)' = <<>>
  BY <1>1, IdlePending DEF Pending, Idle
<1>3. ContextOK(tape[c], cur[c], dptr[c], <<>>, log[c])
  BY <1>2 DEF IInv
<1>4. /\ read = Promise!OutputFrom(log[c].msg, "sha3", 0, half)
      /\ ContextOK(t2, Blank, dptr[c], <<>>, l2)
  BY <1>1, <1>3, CloseOK, Zenon
<1>5. Promise!Close(c)
  <2>1. log' = [log EXCEPT ![c] = [log[c] EXCEPT !.phase = "closed", !.domain = "sha3",
                  !.out = Promise!OutputFrom(log[c].msg, "sha3", 0, half)]]
    BY <1>1, <1>4, Zenon
  <2> QED BY <1>1, <2>1 DEF Promise!Close
<1> HIDE DEF l2, t2
<1>6. OnlyAt(c)
  BY <1>1, <1>2 DEF OnlyAt, IInv
<1>7. CallInv'
  BY <1>1, IdleCall DEF CallInv, Idle
<1>8. ContextOK(tape'[c], cur'[c], dptr'[c], Pending(c)', log'[c])
  BY <1>1, <1>2, <1>4 DEF IInv
<1> QED BY <1>5, <1>6, <1>7, <1>8, OneContext

LEMMA ExtractCallInv ==
  ASSUME IInv, NEW c \in Ctxs, NEW n \in 1..MaxChunk, ExtractCall(c, n)
  PROVE  IInv' /\ UNCHANGED log
<1>1. /\ Idle /\ log[c].phase = "output" /\ UNCHANGED <<tape, cur, dptr, rest, log>>
      /\ busy' = {c} /\ want' = n
  BY DEF ExtractCall
<1>2. rest = <<>> /\ \A d : Pending(d) = <<>> /\ Pending(d)' = <<>>
  BY <1>1, IdlePending, IdleCall DEF Pending
<1>3. OnlyAt(c)
  BY <1>1, <1>2 DEF OnlyAt, IInv
<1>4. CallInv'
  BY <1>1, <1>2 DEF CallInv
<1>5. ContextOK(tape'[c], cur'[c], dptr'[c], Pending(c)', log'[c])
  BY <1>1, <1>2 DEF IInv
<1> QED BY <1>1, <1>3, <1>4, <1>5, OneContext

LEMMA ExtractChunkInv ==
  ASSUME IInv, NEW c \in Ctxs, ExtractChunk(c)
  PROVE  IInv' /\ \E n \in 1..MaxChunk : Promise!Extract(c, n)
<1> DEFINE t2 == Refilled(tape[c], cur[c], dptr[c])
           first == FirstPlace(dptr[c])
           clen == TurnOut(dptr[c], want)
           chunk == TurnBytes(tape[c], cur[c], dptr[c], want)
           l2 == [log[c] EXCEPT !.out = @ \o chunk]
<1>1. /\ busy = {c} /\ want > 0 /\ UNCHANGED rest
      /\ tape' = [tape EXCEPT ![c] = t2]
      /\ cur' = [cur EXCEPT ![c] = IF dptr[c] = Rate THEN Blank ELSE cur[c]]
      /\ dptr' = [dptr EXCEPT ![c] = first + clen]
      /\ want' = want - clen
      /\ log' = [log EXCEPT ![c] = l2]
      /\ busy' = IF want - clen = 0 THEN {} ELSE {c}
  BY DEF ExtractChunk, TurnOut, TurnBytes, Refilled, FirstPlace
<1>2. log[c].phase = "output" /\ rest = <<>> /\ want \in 1..MaxChunk
  <2>1. busy # {} /\ \A d : busy = {d} => d = c
    BY <1>1
  <2> QED BY <1>1, <2>1 DEF IInv, CallInv
<1>3. \A d : Pending(d) = <<>> /\ Pending(d)' = <<>>
  BY <1>1, <1>2 DEF Pending
<1>4. ContextOK(tape[c], cur[c], dptr[c], <<>>, log[c])
  BY <1>3 DEF IInv
<1>5. want \in Nat /\ want > 0
  BY <1>2, Sizes
<1>6. /\ clen \in 1..want
      /\ chunk = Promise!OutputFrom(log[c].msg, "shake", Len(log[c].out), clen)
      /\ ContextOK(t2, IF dptr[c] = Rate THEN Blank ELSE cur[c], first + clen, <<>>, l2)
  BY <1>2, <1>4, <1>5, ExtractChunkOK, Zenon
<1>7. clen \in 1..MaxChunk /\ (want - clen = 0 \/ want - clen \in 1..MaxChunk)
  <2> HIDE DEF clen
  <2> QED BY <1>2, <1>6, Sizes
<1>8. Promise!Extract(c, clen)
  <2>1. log' = [log EXCEPT ![c] = [log[c] EXCEPT !.out = @ \o
                    Promise!OutputFrom(log[c].msg, "shake", Len(log[c].out), clen)]]
    BY <1>1, <1>6, Zenon
  <2> HIDE DEF clen
  <2> QED BY <1>2, <2>1 DEF Promise!Extract
<1>9. l2.phase = "output"
  <2>1. log[c] \in Logs
    BY <1>4 DEF ContextOK
  <2> HIDE DEF chunk
  <2> QED BY <1>2, <2>1 DEF Logs
<1> HIDE DEF l2, t2, first, clen
<1>10. OnlyAt(c)
  BY <1>1, <1>3 DEF OnlyAt, IInv
<1>11. log'[c] = l2
  BY <1>1 DEF IInv
<1>12. CallInv'
  BY <1>1, <1>2, <1>7, <1>9, <1>11 DEF CallInv
<1>13. ContextOK(tape'[c], cur'[c], dptr'[c], Pending(c)', log'[c])
  BY <1>1, <1>3, <1>6 DEF IInv
<1> QED BY <1>7, <1>8, <1>10, <1>12, <1>13, OneContext

-----------------------------------------------------------------------------
(* The theorems.                                                           *)

LEMMA InitIInv == Init => IInv /\ Promise!Init
<1> SUFFICES ASSUME Init PROVE IInv /\ Promise!Init
  OBVIOUS
<1>1. /\ tape = [c \in Ctxs |-> <<>>] /\ cur = [c \in Ctxs |-> Blank]
      /\ dptr = [c \in Ctxs |-> 0] /\ log = [c \in Ctxs |-> Fresh]
      /\ busy = {} /\ rest = <<>> /\ want = 0
  BY DEF Init
<1>2. \A c \in Ctxs : Pending(c) = <<>>
  BY <1>1, IdlePending DEF Idle
<1>3. \A c \in Ctxs : ContextOK(tape[c], cur[c], dptr[c], Pending(c), log[c])
  BY <1>1, <1>2, FreshOK
<1>4. IInv
  BY <1>1, <1>3 DEF IInv, CallInv
<1> QED BY <1>1, <1>4 DEF Promise!Init, Promise!Fresh, Fresh

\* A step of a program keeps the invariant, and is a call of the promise or none.
LEMMA NextIInv == IInv /\ [Next]_vars => IInv' /\ [Promise!Next]_log
<1> SUFFICES ASSUME IInv, [Next]_vars PROVE IInv' /\ (Promise!Next \/ UNCHANGED log)
  OBVIOUS
<1>1. CASE UNCHANGED vars
  BY <1>1 DEF vars, IInv, CallInv, Pending
<1>2. CASE Next
  <2>1. PICK c \in Ctxs :
          \/ ShakeInit(c)
          \/ \E to \in Ctxs : Copy(c, to)
          \/ \E data \in Chunks : InjectCall(c, data)
          \/ InjectChunk(c)
          \/ ShakeFlip(c)
          \/ \E n \in 1..MaxChunk : ExtractCall(c, n)
          \/ ExtractChunk(c)
          \/ Sha3Close(c)
    BY <1>2, Zenon DEF Next
  <2>2. CASE ShakeInit(c)
    BY <2>2, ShakeInitInv, Zenon DEF Promise!Next
  <2>3. CASE \E to \in Ctxs : Copy(c, to)
    <3>1. PICK to \in Ctxs : Copy(c, to)
      BY <2>3
    <3> QED BY <3>1, CopyInv, Zenon DEF Promise!Next
  <2>4. CASE \E data \in Chunks : InjectCall(c, data)
    <3>1. PICK data \in Chunks : InjectCall(c, data)
      BY <2>4
    <3>2. data \in Promise!Chunks
      BY ChunkIsOctets
    <3> QED BY <3>1, <3>2, InjectCallInv, Zenon DEF Promise!Next
  <2>5. CASE InjectChunk(c)
    BY <2>5, InjectChunkInv
  <2>6. CASE ShakeFlip(c)
    BY <2>6, ShakeFlipInv, Zenon DEF Promise!Next
  <2>7. CASE \E n \in 1..MaxChunk : ExtractCall(c, n)
    BY <2>7, ExtractCallInv
  <2>8. CASE ExtractChunk(c)
    BY <2>8, ExtractChunkInv, Zenon DEF Promise!Next
  <2>9. CASE Sha3Close(c)
    BY <2>9, Sha3CloseInv, Zenon DEF Promise!Next
  <2> QED BY <2>1, <2>2, <2>3, <2>4, <2>5, <2>6, <2>7, <2>8, <2>9, Zenon
<1> QED BY <1>1, <1>2

\* The steps of the permutation leave the contexts alone.
LEMMA HashingSteps ==
  [ContextStep \/ PermutationStep]_<<vars, permuting>> => [Next]_vars
BY DEF ContextStep, PermutationStep

\* However the input and the output are cut into calls, and wherever a context was
\* cloned, what is read is the sponge function of the message that was injected:
\* any rate, any number of contexts, any lengths (shake_inject, shake_flip,
\* shake_extract and sha3_close of sha3.c).
THEOREM ContextsAreStreams == HashingSpec => IsStream
<1>1. HashingInit => IInv /\ Promise!Init
  BY InitIInv DEF HashingInit
<1>2. IInv /\ [ContextStep \/ PermutationStep]_<<vars, permuting>> => IInv' /\ [Promise!Next]_log
  BY NextIInv, HashingSteps
<1> QED BY <1>1, <1>2, PTL DEF HashingSpec, IsStream, Promise!Spec

\* Two contexts give the same first byte only if they were given the same message and
\* are of the same kind: the padding never makes two messages one, and the suffixes
\* keep SHA3 and SHAKE apart (shake_flip and sha3_close of sha3.c).
THEOREM SameMessageAlways == HashingSpec => []SameMessage
<1>1. HashingInit => IInv
  BY InitIInv DEF HashingInit
<1>2. IInv /\ [ContextStep \/ PermutationStep]_<<vars, permuting>> => IInv'
  BY NextIInv, HashingSteps
<1>3. IInv => SameMessage
  <2> SUFFICES ASSUME IInv, NEW x \in Ctxs, NEW y \in Ctxs,
                      log[x].out # <<>>, log[y].out # <<>>, log[x].out[1] = log[y].out[1]
               PROVE  log[x].msg = log[y].msg /\ log[x].domain = log[y].domain
    BY DEF SameMessage
  <2>1. ASSUME NEW c \in Ctxs, log[c].out # <<>>
        PROVE  /\ log[c].msg \in Seq(Octet) /\ log[c].domain \in Domains
               /\ log[c].out[1].from = Promise!Pad10_1(log[c].msg, log[c].domain)
    <3> DEFINE l == log[c]  P == Promise!Pad10_1(l.msg, l.domain)
    <3>1. l \in Logs /\ (OutputOK(tape[c], cur[c], dptr[c], l) \/ ClosedOK(l))
      BY <2>1 DEF IInv, ContextOK, InputOK
    <3>2. l.msg \in Seq(Octet) /\ l.domain \in Domains /\ Len(l.out) \in Nat /\ Len(l.out) > 0
      BY <2>1, <3>1, EmptySeq DEF Logs
    <3>3. \E n \in Nat : l.out = Promise!OutputFrom(l.msg, l.domain, 0, n)
      <4>1. CASE OutputOK(tape[c], cur[c], dptr[c], l)
        BY <3>2, <4>1 DEF OutputOK
      <4>2. CASE ClosedOK(l)
        <5>1. (Width - Rate) \div 2 \in Nat
          BY Sizes
        <5> QED BY <4>2, <5>1 DEF ClosedOK
      <4> QED BY <3>1, <4>1, <4>2
    <3> HIDE DEF l
    <3>4. PICK n \in Nat : l.out = Promise!OutputFrom(l.msg, l.domain, 0, n)
      BY <3>3
    <3>5. l.out[1] = Promise!OutputByte(l.msg, l.domain, 0 + 1 - 1)
      <4> DEFINE m == l.msg  d == l.domain
      <4>1. m \in Seq(Octet) /\ d \in Domains /\ l.out = Promise!OutputFrom(m, d, 0, n)
        BY <3>2, <3>4
      <4> HIDE DEF m, d
      <4>2. LET out == Promise!OutputFrom(m, d, 0, n)
            IN  Len(out) = n /\ \A k \in 1..n : out[k] = Promise!OutputByte(m, d, 0 + k - 1)
        BY <4>1, OutputSeq
      <4>3. 1 \in 1..n
        BY <3>2, <4>1, <4>2
      <4> QED BY <4>1, <4>2, <4>3 DEF m, d
    <3>6. 0 + 1 - 1 = 0 /\ 0 \div Rate = 0 /\ 0 * Rate = 0
      BY Sizes
    <3>7. P \in Seq(Octet) /\ P \o Promise!Zeros(0) = P
      <4>1. P \in Seq(Octet)
        BY <3>2, PadSeq
      <4>2. Promise!Zeros(0) = <<>>
        BY DEF Promise!Zeros
      <4> QED BY <4>1, <4>2, ConcatEmptySeq
    <3>8. l.out[1].from = P
      BY <3>5, <3>6, <3>7 DEF Promise!OutputByte
    <3> QED BY <3>2, <3>8 DEF l
  <2>2. Promise!Pad10_1(log[x].msg, log[x].domain) = Promise!Pad10_1(log[y].msg, log[y].domain)
    BY <2>1
  <2> QED BY <2>1, <2>2, PadInjective
<1> QED BY <1>1, <1>2, <1>3, PTL DEF HashingSpec

-----------------------------------------------------------------------------
(* The permutation. *)

States == [Words -> SUBSET Bits]

\* a word that is stored complemented, or not
Comp(c, x) == IF c THEN Not(x) ELSE x

\* Rotations keep words, and commute with complements.
LEMMA RotWord ==
  ASSUME NEW x \in SUBSET Bits, NEW n \in Nat
  PROVE  RotLeft(x, n) \in SUBSET Bits /\ RotLeft(x, n) = Standard!Rotl(x, n)
<1>1. ASSUME NEW bit \in x PROVE (bit + n) % 64 \in Bits
  <2>1. bit + n \in Int
    BY DEF Bits
  <2> QED BY <2>1 DEF Bits
<1>2. RotLeft(x, n) \in SUBSET Bits
  BY <1>1 DEF RotLeft
<1> QED BY <1>2 DEF RotLeft, Standard!Rotl

\* The bit that a rotation takes to a place.
LEMMA RotBit ==
  ASSUME NEW x \in SUBSET Bits, NEW n \in Nat, NEW bit \in Bits
  PROVE  bit \in RotLeft(x, n) <=> (bit - n) % 64 \in x
<1>1. ASSUME NEW c \in Bits PROVE (c + n) % 64 = bit <=> c = (bit - n) % 64
  BY <1>1 DEF Bits
<1>2. (bit - n) % 64 \in Bits
  BY DEF Bits
<1> QED BY <1>1, <1>2 DEF RotLeft

LEMMA RotNot ==
  ASSUME NEW x \in SUBSET Bits, NEW n \in Nat
  PROVE  RotLeft(Not(x), n) = Not(RotLeft(x, n))
<1>1. Not(x) \in SUBSET Bits /\ RotLeft(Not(x), n) \in SUBSET Bits
  BY RotWord DEF Not
<1>2. ASSUME NEW bit \in Bits PROVE bit \in RotLeft(Not(x), n) <=> bit \in Not(RotLeft(x, n))
  <2>1. (bit - n) % 64 \in Bits
    BY DEF Bits
  <2> QED BY <1>1, <2>1, RotBit DEF Not
<1> QED BY <1>1, <1>2 DEF Not

\* Complements go through exclusive or.
LEMMA XorNot ==
  ASSUME NEW x \in SUBSET Bits, NEW y \in SUBSET Bits
  PROVE  /\ Xor(Not(x), y) = Not(Xor(x, y))
         /\ Xor(x, Not(y)) = Not(Xor(x, y))
         /\ Xor(Not(x), Not(y)) = Xor(x, y)
         /\ Xor(x, y) \in SUBSET Bits
BY DEF Xor, Not

\* The lane that pi takes to lane (p - 1, n - 1), and which lanes are stored
\* complemented after theta: the parities of four columns are complemented, and one of
\* them goes into every lane of columns 0 and 3, two or none into the others.
Source(n, p) == Standard!LaneAt((p - 1) + 3 * (n - 1), p - 1)
Target(n, p) == 5 * (n - 1) + (p - 1)
Flipped(k) == (k \in Inverted /\ k % 5 \notin {0, 3}) \/ (k \notin Inverted /\ k % 5 \in {0, 3})

\* chi, row by row: the complements that go in, and those that come out.
RowReady(n, a, b) == \A q \in 1..5 : a[q] = Comp(Flipped(Source(n, q)), b[q])
RowDone(n, a, b, p) ==
    Nonlinear(n, a)[p] = Comp(Target(n, p) \in Inverted, Xor(b[p], b[((p + 1) % 5) + 1] \ b[(p % 5) + 1]))

LEMMA ChiRow ==
  ASSUME NEW n \in 1..5, NEW b \in [1..5 -> SUBSET Bits], NEW a, NEW p \in 1..5, RowReady(n, a, b)
  PROVE  RowDone(n, a, b, p)
<1> USE DEF RowReady, RowDone
<1> DEFINE out == Nonlinear(n, a)
<1>1. PICK b1 \in SUBSET Bits, b2 \in SUBSET Bits, b3 \in SUBSET Bits, b4 \in SUBSET Bits, b5 \in SUBSET Bits :
        b[1] = b1 /\ b[2] = b2 /\ b[3] = b3 /\ b[4] = b4 /\ b[5] = b5
  OBVIOUS
<1>2. /\ Xor(b[1], b[3] \ b[2]) = Xor(b1, b3 \ b2) /\ Xor(b[2], b[4] \ b[3]) = Xor(b2, b4 \ b3)
      /\ Xor(b[3], b[5] \ b[4]) = Xor(b3, b5 \ b4) /\ Xor(b[4], b[1] \ b[5]) = Xor(b4, b1 \ b5)
      /\ Xor(b[5], b[2] \ b[1]) = Xor(b5, b2 \ b1)
  BY <1>1
<1> DEFINE result(q) == Xor(b[q], b[((q + 1) % 5) + 1] \ b[(q % 5) + 1])
<1>3. /\ result(1) = Xor(b1, b3 \ b2) /\ result(2) = Xor(b2, b4 \ b3)
      /\ result(3) = Xor(b3, b5 \ b4) /\ result(4) = Xor(b4, b1 \ b5)
      /\ result(5) = Xor(b5, b2 \ b1)
  BY <1>2
<1> HIDE DEF result
<1>4. CASE n = 1
  <2>1. Flipped(Source(1, 1)) /\ ~Flipped(Source(1, 2)) /\ Flipped(Source(1, 3)) /\ Flipped(Source(1, 4)) /\ ~Flipped(Source(1, 5))
    BY DEF Flipped, Source, Standard!LaneAt, Inverted
  <2>2. a[1] = Not(b1) /\ a[2] = b2 /\ a[3] = Not(b3) /\ a[4] = Not(b4) /\ a[5] = b5
    BY <1>4, <1>1, <2>1 DEF Comp
  <2>3. Target(1, 1) \notin Inverted /\ Target(1, 2) \in Inverted /\ Target(1, 3) \in Inverted /\ Target(1, 4) \notin Inverted /\ Target(1, 5) \notin Inverted
    BY DEF Target, Inverted
  <2>4. out[1] = Xor(b1, b3 \ b2)
    BY <1>4, <2>2 DEF Nonlinear, Xor, Not
  <2>5. out[2] = Not(Xor(b2, b4 \ b3))
    BY <1>4, <2>2 DEF Nonlinear, Xor, Not
  <2>6. out[3] = Not(Xor(b3, b5 \ b4))
    BY <1>4, <2>2 DEF Nonlinear, Xor, Not
  <2>7. out[4] = Xor(b4, b1 \ b5)
    BY <1>4, <2>2 DEF Nonlinear, Xor, Not
  <2>8. out[5] = Xor(b5, b2 \ b1)
    BY <1>4, <2>2 DEF Nonlinear, Xor, Not
  <2> HIDE DEF out
  <2>9. \A q \in 1..5 : out[q] = Comp(Target(1, q) \in Inverted, result(q))
    BY <1>3, <2>3, <2>4, <2>5, <2>6, <2>7, <2>8 DEF Comp
  <2> QED BY <1>4, <2>9 DEF result, out
<1>5. CASE n = 2
  <2>1. Flipped(Source(2, 1)) /\ ~Flipped(Source(2, 2)) /\ Flipped(Source(2, 3)) /\ ~Flipped(Source(2, 4)) /\ ~Flipped(Source(2, 5))
    BY DEF Flipped, Source, Standard!LaneAt, Inverted
  <2>2. a[1] = Not(b1) /\ a[2] = b2 /\ a[3] = Not(b3) /\ a[4] = b4 /\ a[5] = b5
    BY <1>5, <1>1, <2>1 DEF Comp
  <2>3. Target(2, 1) \notin Inverted /\ Target(2, 2) \notin Inverted /\ Target(2, 3) \notin Inverted /\ Target(2, 4) \in Inverted /\ Target(2, 5) \notin Inverted
    BY DEF Target, Inverted
  <2>4. out[1] = Xor(b1, b3 \ b2)
    BY <1>5, <2>2 DEF Nonlinear, Xor, Not
  <2>5. out[2] = Xor(b2, b4 \ b3)
    BY <1>5, <2>2 DEF Nonlinear, Xor, Not
  <2>6. out[3] = Xor(b3, b5 \ b4)
    BY <1>5, <2>2 DEF Nonlinear, Xor, Not
  <2>7. out[4] = Not(Xor(b4, b1 \ b5))
    BY <1>5, <2>2 DEF Nonlinear, Xor, Not
  <2>8. out[5] = Xor(b5, b2 \ b1)
    BY <1>5, <2>2 DEF Nonlinear, Xor, Not
  <2> HIDE DEF out
  <2>9. \A q \in 1..5 : out[q] = Comp(Target(2, q) \in Inverted, result(q))
    BY <1>3, <2>3, <2>4, <2>5, <2>6, <2>7, <2>8 DEF Comp
  <2> QED BY <1>5, <2>9 DEF result, out
<1>6. CASE n = 3
  <2>1. Flipped(Source(3, 1)) /\ ~Flipped(Source(3, 2)) /\ Flipped(Source(3, 3)) /\ ~Flipped(Source(3, 4)) /\ ~Flipped(Source(3, 5))
    BY DEF Flipped, Source, Standard!LaneAt, Inverted
  <2>2. a[1] = Not(b1) /\ a[2] = b2 /\ a[3] = Not(b3) /\ a[4] = b4 /\ a[5] = b5
    BY <1>6, <1>1, <2>1 DEF Comp
  <2>3. Target(3, 1) \notin Inverted /\ Target(3, 2) \notin Inverted /\ Target(3, 3) \in Inverted /\ Target(3, 4) \notin Inverted /\ Target(3, 5) \notin Inverted
    BY DEF Target, Inverted
  <2>4. out[1] = Xor(b1, b3 \ b2)
    BY <1>6, <2>2 DEF Nonlinear, Xor, Not
  <2>5. out[2] = Xor(b2, b4 \ b3)
    BY <1>6, <2>2 DEF Nonlinear, Xor, Not
  <2>6. out[3] = Not(Xor(b3, b5 \ b4))
    BY <1>6, <2>2 DEF Nonlinear, Xor, Not
  <2>7. out[4] = Xor(b4, b1 \ b5)
    BY <1>6, <2>2 DEF Nonlinear, Xor, Not
  <2>8. out[5] = Xor(b5, b2 \ b1)
    BY <1>6, <2>2 DEF Nonlinear, Xor, Not
  <2> HIDE DEF out
  <2>9. \A q \in 1..5 : out[q] = Comp(Target(3, q) \in Inverted, result(q))
    BY <1>3, <2>3, <2>4, <2>5, <2>6, <2>7, <2>8 DEF Comp
  <2> QED BY <1>6, <2>9 DEF result, out
<1>7. CASE n = 4
  <2>1. ~Flipped(Source(4, 1)) /\ Flipped(Source(4, 2)) /\ ~Flipped(Source(4, 3)) /\ Flipped(Source(4, 4)) /\ Flipped(Source(4, 5))
    BY DEF Flipped, Source, Standard!LaneAt, Inverted
  <2>2. a[1] = b1 /\ a[2] = Not(b2) /\ a[3] = b3 /\ a[4] = Not(b4) /\ a[5] = Not(b5)
    BY <1>7, <1>1, <2>1 DEF Comp
  <2>3. Target(4, 1) \notin Inverted /\ Target(4, 2) \notin Inverted /\ Target(4, 3) \in Inverted /\ Target(4, 4) \notin Inverted /\ Target(4, 5) \notin Inverted
    BY DEF Target, Inverted
  <2>4. out[1] = Xor(b1, b3 \ b2)
    BY <1>7, <2>2 DEF Nonlinear, Xor, Not
  <2>5. out[2] = Xor(b2, b4 \ b3)
    BY <1>7, <2>2 DEF Nonlinear, Xor, Not
  <2>6. out[3] = Not(Xor(b3, b5 \ b4))
    BY <1>7, <2>2 DEF Nonlinear, Xor, Not
  <2>7. out[4] = Xor(b4, b1 \ b5)
    BY <1>7, <2>2 DEF Nonlinear, Xor, Not
  <2>8. out[5] = Xor(b5, b2 \ b1)
    BY <1>7, <2>2 DEF Nonlinear, Xor, Not
  <2> HIDE DEF out
  <2>9. \A q \in 1..5 : out[q] = Comp(Target(4, q) \in Inverted, result(q))
    BY <1>3, <2>3, <2>4, <2>5, <2>6, <2>7, <2>8 DEF Comp
  <2> QED BY <1>7, <2>9 DEF result, out
<1>8. CASE n = 5
  <2>1. Flipped(Source(5, 1)) /\ ~Flipped(Source(5, 2)) /\ ~Flipped(Source(5, 3)) /\ Flipped(Source(5, 4)) /\ ~Flipped(Source(5, 5))
    BY DEF Flipped, Source, Standard!LaneAt, Inverted
  <2>2. a[1] = Not(b1) /\ a[2] = b2 /\ a[3] = b3 /\ a[4] = Not(b4) /\ a[5] = b5
    BY <1>8, <1>1, <2>1 DEF Comp
  <2>3. Target(5, 1) \in Inverted /\ Target(5, 2) \notin Inverted /\ Target(5, 3) \notin Inverted /\ Target(5, 4) \notin Inverted /\ Target(5, 5) \notin Inverted
    BY DEF Target, Inverted
  <2>4. out[1] = Not(Xor(b1, b3 \ b2))
    BY <1>8, <2>2 DEF Nonlinear, Xor, Not
  <2>5. out[2] = Xor(b2, b4 \ b3)
    BY <1>8, <2>2 DEF Nonlinear, Xor, Not
  <2>6. out[3] = Xor(b3, b5 \ b4)
    BY <1>8, <2>2 DEF Nonlinear, Xor, Not
  <2>7. out[4] = Xor(b4, b1 \ b5)
    BY <1>8, <2>2 DEF Nonlinear, Xor, Not
  <2>8. out[5] = Xor(b5, b2 \ b1)
    BY <1>8, <2>2 DEF Nonlinear, Xor, Not
  <2> HIDE DEF out
  <2>9. \A q \in 1..5 : out[q] = Comp(Target(5, q) \in Inverted, result(q))
    BY <1>3, <2>3, <2>4, <2>5, <2>6, <2>7, <2>8 DEF Comp
  <2> QED BY <1>8, <2>9 DEF result, out
<1> QED BY <1>4, <1>5, <1>6, <1>7, <1>8

-----------------------------------------------------------------------------
\* The parity of a column of lanes.
Column(L, x) == Xor(L[x], Xor(L[x + 5], Xor(L[x + 10], Xor(L[x + 15], L[x + 20]))))

LEMMA ColumnType ==
  ASSUME NEW L \in States, NEW x \in 0..4
  PROVE  Column(L, x) \in SUBSET Bits
<1>1. L[x] \in SUBSET Bits /\ L[x + 5] \in SUBSET Bits /\ L[x + 10] \in SUBSET Bits
      /\ L[x + 15] \in SUBSET Bits /\ L[x + 20] \in SUBSET Bits
  BY DEF States, Words
<1> QED BY <1>1 DEF Column, Xor

\* What theta puts in a lane.
LEMMA ThetaAt ==
  ASSUME NEW L \in States, NEW k \in Words
  PROVE  /\ Standard!Theta(L)[k] =
                Xor(L[k], Xor(RotLeft(Column(L, (k + 1) % 5), 1), Column(L, (k + 4) % 5)))
         /\ Standard!Theta(L) \in States
<1> DEFINE parity == [x \in 0..4 |-> Column(L, x)]
<1>1. Standard!Theta(L) = [i \in Words |-> Xor(L[i], Xor(parity[((i % 5) + 4) % 5], Standard!Rotl(parity[((i % 5) + 1) % 5], 1)))]
  BY DEF Standard!Theta, Standard!Lanes, Words, Standard!X, Standard!Xor, Xor, Column
<1> HIDE DEF parity
<1>2. \A i \in Words : Xor(L[i], Xor(parity[((i % 5) + 4) % 5], Standard!Rotl(parity[((i % 5) + 1) % 5], 1)))
          = Xor(L[i], Xor(RotLeft(Column(L, (i + 1) % 5), 1), Column(L, (i + 4) % 5)))
  <2> SUFFICES ASSUME NEW i \in Words
               PROVE  Xor(L[i], Xor(parity[((i % 5) + 4) % 5], Standard!Rotl(parity[((i % 5) + 1) % 5], 1)))
          = Xor(L[i], Xor(RotLeft(Column(L, (i + 1) % 5), 1), Column(L, (i + 4) % 5)))
    OBVIOUS
  <2>1. ((i % 5) + 4) % 5 = (i + 4) % 5 /\ ((i % 5) + 1) % 5 = (i + 1) % 5 /\ (i + 4) % 5 \in 0..4 /\ (i + 1) % 5 \in 0..4
    BY DEF Words
  <2>2. /\ parity[((i % 5) + 4) % 5] = Column(L, (i + 4) % 5)
        /\ parity[((i % 5) + 1) % 5] = Column(L, (i + 1) % 5)
    BY <2>1 DEF parity
  <2>3. Standard!Rotl(parity[((i % 5) + 1) % 5], 1) = RotLeft(Column(L, (i + 1) % 5), 1)
    BY <2>1, <2>2, ColumnType, RotWord
  <2> QED BY <2>2, <2>3 DEF Xor
<1>3. \A i \in Words : Xor(L[i], Xor(RotLeft(Column(L, (i + 1) % 5), 1), Column(L, (i + 4) % 5))) \in SUBSET Bits
  <2> SUFFICES ASSUME NEW i \in Words
               PROVE  Xor(L[i], Xor(RotLeft(Column(L, (i + 1) % 5), 1), Column(L, (i + 4) % 5))) \in SUBSET Bits
    OBVIOUS
  <2>1. (i + 4) % 5 \in 0..4 /\ (i + 1) % 5 \in 0..4
    BY DEF Words
  <2>2. RotLeft(Column(L, (i + 1) % 5), 1) \in SUBSET Bits /\ Column(L, (i + 4) % 5) \in SUBSET Bits
    BY <2>1, ColumnType, RotWord
  <2>3. L[i] \in SUBSET Bits
    BY DEF States
  <2> QED BY <2>2, <2>3 DEF Xor
<1> QED BY <1>1, <1>2, <1>3 DEF States

-----------------------------------------------------------------------------
\* A state in memory: lane k is at word w[k], and complemented if it is one of the six.
Placed(S, w, L) == \A k \in Words : S[w[k]] = Comp(k \in Inverted, L[k])
Placement(w) == w \in [Words -> Words] /\ \A k, m \in Words : w[k] = w[m] => k = m
ColumnsAt(columns, w) == \A x \in 0..4 : \A y \in 1..5 : columns[x + 1][y] = w[x + 5 * (y - 1)]

\* The parity of a column as the code has it: that of an odd number of complemented
\* lanes is complemented, which is every column's but the last.
LEMMA ParityComp ==
  ASSUME NEW S, NEW w \in [Words -> Words], NEW columns, NEW L \in States,
         Placed(S, w, L), ColumnsAt(columns, w), NEW x \in 0..4
  PROVE  LET c == columns[x + 1]
         IN  Xor(S[c[1]], Xor(S[c[2]], Xor(S[c[3]], Xor(S[c[4]], S[c[5]])))) = Comp(x # 4, Column(L, x))
<1> DEFINE c == columns[x + 1]
<1>1. x \in Words /\ x + 5 \in Words /\ x + 10 \in Words /\ x + 15 \in Words /\ x + 20 \in Words
  BY DEF Words
<1>2. c[1] = w[x] /\ c[2] = w[x + 5] /\ c[3] = w[x + 10] /\ c[4] = w[x + 15] /\ c[5] = w[x + 20]
  <2>1. \A y \in 1..5 : c[y] = w[x + 5 * (y - 1)]
    BY DEF ColumnsAt
  <2> QED BY <2>1
<1>3. /\ S[c[1]] = Comp(x \in Inverted, L[x])
      /\ S[c[2]] = Comp(x + 5 \in Inverted, L[x + 5])
      /\ S[c[3]] = Comp(x + 10 \in Inverted, L[x + 10])
      /\ S[c[4]] = Comp(x + 15 \in Inverted, L[x + 15])
      /\ S[c[5]] = Comp(x + 20 \in Inverted, L[x + 20])
  BY <1>1, <1>2 DEF Placed
<1> HIDE DEF c
<1>4. PICK a1 \in SUBSET Bits, a2 \in SUBSET Bits, a3 \in SUBSET Bits, a4 \in SUBSET Bits, a5 \in SUBSET Bits :
        L[x] = a1 /\ L[x + 5] = a2 /\ L[x + 10] = a3 /\ L[x + 15] = a4 /\ L[x + 20] = a5
  BY <1>1 DEF States
<1>5. Column(L, x) = Xor(a1, Xor(a2, Xor(a3, Xor(a4, a5))))
  BY <1>4 DEF Column
<1>6. CASE x = 0
  <2>1. S[c[1]] = a1 /\ S[c[2]] = a2 /\ S[c[3]] = a3 /\ S[c[4]] = a4 /\ S[c[5]] = Not(a5)
    BY <1>3, <1>4, <1>6 DEF Comp, Inverted
  <2>2. Xor(a1, Xor(a2, Xor(a3, Xor(a4, Not(a5))))) = Not(Xor(a1, Xor(a2, Xor(a3, Xor(a4, a5)))))
    BY DEF Xor, Not
  <2> QED BY <1>5, <1>6, <2>1, <2>2 DEF Comp, c
<1>7. CASE x = 1
  <2>1. S[c[1]] = Not(a1) /\ S[c[2]] = a2 /\ S[c[3]] = a3 /\ S[c[4]] = a4 /\ S[c[5]] = a5
    BY <1>3, <1>4, <1>7 DEF Comp, Inverted
  <2>2. Xor(Not(a1), Xor(a2, Xor(a3, Xor(a4, a5)))) = Not(Xor(a1, Xor(a2, Xor(a3, Xor(a4, a5)))))
    BY DEF Xor, Not
  <2> QED BY <1>5, <1>7, <2>1, <2>2 DEF Comp, c
<1>8. CASE x = 2
  <2>1. S[c[1]] = Not(a1) /\ S[c[2]] = a2 /\ S[c[3]] = Not(a3) /\ S[c[4]] = Not(a4) /\ S[c[5]] = a5
    BY <1>3, <1>4, <1>8 DEF Comp, Inverted
  <2>2. Xor(Not(a1), Xor(a2, Xor(Not(a3), Xor(Not(a4), a5)))) = Not(Xor(a1, Xor(a2, Xor(a3, Xor(a4, a5)))))
    BY DEF Xor, Not
  <2> QED BY <1>5, <1>8, <2>1, <2>2 DEF Comp, c
<1>9. CASE x = 3
  <2>1. S[c[1]] = a1 /\ S[c[2]] = Not(a2) /\ S[c[3]] = a3 /\ S[c[4]] = a4 /\ S[c[5]] = a5
    BY <1>3, <1>4, <1>9 DEF Comp, Inverted
  <2>2. Xor(a1, Xor(Not(a2), Xor(a3, Xor(a4, a5)))) = Not(Xor(a1, Xor(a2, Xor(a3, Xor(a4, a5)))))
    BY DEF Xor, Not
  <2> QED BY <1>5, <1>9, <2>1, <2>2 DEF Comp, c
<1>10. CASE x = 4
  <2>1. S[c[1]] = a1 /\ S[c[2]] = a2 /\ S[c[3]] = a3 /\ S[c[4]] = a4 /\ S[c[5]] = a5
    BY <1>3, <1>4, <1>10 DEF Comp, Inverted
  <2> QED BY <1>5, <1>10, <2>1 DEF Comp, c
<1> QED BY <1>6, <1>7, <1>8, <1>9, <1>10

\* theta of the code, at the word of a lane.
LEMMA ThetaStep ==
  ASSUME NEW S, NEW w, NEW columns, NEW L \in States, NEW k \in Words,
         Placement(w), Placed(S, w, L), ColumnsAt(columns, w)
  PROVE  ColumnsMixed(S, columns)[w[k]] = Comp(Flipped(k), Standard!Theta(L)[k])
<1> DEFINE parity == [x \in 0..4 |->
            LET c == columns[x + 1]
            IN  Xor(S[c[1]], Xor(S[c[2]], Xor(S[c[3]], Xor(S[c[4]], S[c[5]]))))]
           t == [x \in 0..4 |-> Xor(RotLeft(parity[(x + 1) % 5], 1), parity[(x + 4) % 5])]
           of(i) == CHOOSE x \in 0..4 : \E y \in 1..5 : columns[x + 1][y] = i
<1>1. ColumnsMixed(S, columns) = [i \in Words |-> Xor(S[i], t[of(i)])]
  BY DEF ColumnsMixed
<1>2. w \in [Words -> Words] /\ w[k] \in Words
  BY DEF Placement
<1>3. \A x \in 0..4 : parity[x] = Comp(x # 4, Column(L, x))
  BY <1>2, ParityComp
<1> HIDE DEF parity
<1>4. of(w[k]) = k % 5
  <2>1. k % 5 \in 0..4 /\ (k \div 5) + 1 \in 1..5 /\ k = (k % 5) + 5 * ((k \div 5 + 1) - 1)
    BY DEF Words
  <2>2. columns[(k % 5) + 1][(k \div 5) + 1] = w[k]
    BY <2>1 DEF ColumnsAt
  <2>3. ASSUME NEW x \in 0..4, NEW y \in 1..5, columns[x + 1][y] = w[k] PROVE x = k % 5
    <3>1. x + 5 * (y - 1) \in Words /\ (x + 5 * (y - 1)) % 5 = x
      BY DEF Words
    <3>2. w[x + 5 * (y - 1)] = w[k]
      BY <2>3 DEF ColumnsAt
    <3> QED BY <3>1, <3>2 DEF Placement
  <2> QED BY <2>1, <2>2, <2>3
<1> HIDE DEF of
<1>5. ColumnsMixed(S, columns)[w[k]] = Xor(S[w[k]], t[k % 5])
  BY <1>1, <1>2, <1>4
<1>6. k % 5 \in 0..4 /\ (k + 1) % 5 \in 0..4 /\ (k + 4) % 5 \in 0..4
      /\ ((k % 5) + 1) % 5 = (k + 1) % 5 /\ ((k % 5) + 4) % 5 = (k + 4) % 5
  BY DEF Words
<1>7. t[k % 5] = Xor(RotLeft(parity[(k + 1) % 5], 1), parity[(k + 4) % 5])
  BY <1>6
<1> DEFINE up == Column(L, (k + 1) % 5)
           down == Column(L, (k + 4) % 5)
<1>8. up \in SUBSET Bits /\ down \in SUBSET Bits /\ L[k] \in SUBSET Bits /\ RotLeft(up, 1) \in SUBSET Bits
  BY <1>6, ColumnType, RotWord DEF States
<1> DEFINE p == (k + 1) % 5 # 4
           q == (k + 4) % 5 # 4
<1>9. parity[(k + 1) % 5] = Comp(p, up) /\ parity[(k + 4) % 5] = Comp(q, down)
      /\ p \in BOOLEAN /\ q \in BOOLEAN
  BY <1>3, <1>6
<1>10. Standard!Theta(L)[k] = Xor(L[k], Xor(RotLeft(up, 1), down))
  BY ThetaAt
<1> HIDE DEF up, down, t, p, q
<1>11. RotLeft(parity[(k + 1) % 5], 1) = Comp(p, RotLeft(up, 1))
  BY <1>8, <1>9, RotNot DEF Comp
<1> DEFINE odd == (p /\ ~q) \/ (q /\ ~p)
<1>12. t[k % 5] = Comp(odd, Xor(RotLeft(up, 1), down)) /\ Xor(RotLeft(up, 1), down) \in SUBSET Bits
  <2> DEFINE u == RotLeft(up, 1)
  <2>1. /\ Xor(Not(u), down) = Not(Xor(u, down)) /\ Xor(u, Not(down)) = Not(Xor(u, down))
        /\ Xor(Not(u), Not(down)) = Xor(u, down) /\ Xor(u, down) \in SUBSET Bits
    BY <1>8, XorNot
  <2> QED BY <1>7, <1>9, <1>11, <2>1 DEF Comp
<1>13. odd <=> k % 5 \in {0, 3}
  BY DEF Words, p, q
<1>14. S[w[k]] = Comp(k \in Inverted, L[k])
  BY DEF Placed
<1> HIDE DEF odd
<1>15. Xor(S[w[k]], t[k % 5]) = Comp((k \in Inverted /\ ~odd) \/ (odd /\ k \notin Inverted), Standard!Theta(L)[k])
  <2>1. odd \in BOOLEAN /\ (k \in Inverted) \in BOOLEAN
    BY DEF odd
  <2> DEFINE a == L[k]
             d == Xor(RotLeft(up, 1), down)
  <2>2. /\ Xor(Not(a), d) = Not(Xor(a, d)) /\ Xor(a, Not(d)) = Not(Xor(a, d))
        /\ Xor(Not(a), Not(d)) = Xor(a, d)
    BY <1>8, <1>12, XorNot
  <2> QED BY <1>10, <1>12, <1>14, <2>1, <2>2 DEF Comp
<1>16. Flipped(k) = ((k \in Inverted /\ ~odd) \/ (odd /\ k \notin Inverted))
  BY <1>13 DEF Flipped
<1> QED BY <1>5, <1>15, <1>16

-----------------------------------------------------------------------------
\* rho: the offsets of FIPS 202 are the rotations of the code.
LEMMA WalkSteps ==
  /\ Standard!Walk[0] = 1
  /\ \A t \in 1..23 : LET last == Standard!Walk[t - 1]
                      IN  Standard!Walk[t] = ((last \div 5) % 5) + 5 * ((2 * (last % 5) + 3 * (last \div 5)) % 5)
<1> DEFINE next(l) == Standard!LaneAt(Standard!Y(l), 2 * Standard!X(l) + 3 * Standard!Y(l))
           step == [l \in Words |-> next(l)]
           walk == CHOOSE lane : lane = [t \in 0..23 |-> IF t = 0 THEN Standard!LaneAt(1, 0) ELSE next(lane[t - 1])]
<1>1. Standard!LaneAt(1, 0) \in Words /\ Standard!LaneAt(1, 0) = 1
  BY DEF Standard!LaneAt, Words
<1>2. step \in [Words -> Words]
  BY DEF Standard!LaneAt, Standard!X, Standard!Y, Words
<1>3. \E f : Iterated(f, 23, Words, 1, step)
  <2> HIDE DEF step, next
  <2>1. 1 \in Words /\ 23 \in Nat
    BY DEF Words
  <2> QED BY <1>2, <2>1, Iterates
<1>4. PICK f \in [0..23 -> Words] : f[0] = 1 /\ \A t \in 1..23 : f[t] = step[f[t - 1]]
  <2> HIDE DEF step, next
  <2> QED BY <1>3 DEF Iterated
<1>5. \A t \in 1..23 : f[t - 1] \in Words /\ step[f[t - 1]] = next(f[t - 1])
  BY <1>4
<1>6. f = [t \in 0..23 |-> IF t = 0 THEN Standard!LaneAt(1, 0) ELSE next(f[t - 1])]
  <2> HIDE DEF step, next
  <2> QED BY <1>1, <1>4, <1>5
<1>7. walk = [t \in 0..23 |-> IF t = 0 THEN Standard!LaneAt(1, 0) ELSE next(walk[t - 1])]
  <2> HIDE DEF next
  <2> QED BY <1>6
<1>8. Standard!Walk = walk
  BY DEF Standard!Walk
<1> HIDE DEF walk
<1>9. walk[0] = 1 /\ \A t \in 1..23 : walk[t] = next(walk[t - 1])
  <2> HIDE DEF next
  <2> QED BY <1>1, <1>7
<1> QED BY <1>8, <1>9 DEF Standard!LaneAt, Standard!X, Standard!Y

LEMMA WalkIs ==
  /\ Standard!Walk[0] = 1 /\ Standard!Walk[1] = 10 /\ Standard!Walk[2] = 7 /\ Standard!Walk[3] = 11
  /\ Standard!Walk[4] = 17 /\ Standard!Walk[5] = 18 /\ Standard!Walk[6] = 3 /\ Standard!Walk[7] = 5
  /\ Standard!Walk[8] = 16 /\ Standard!Walk[9] = 8 /\ Standard!Walk[10] = 21 /\ Standard!Walk[11] = 24
  /\ Standard!Walk[12] = 4 /\ Standard!Walk[13] = 15 /\ Standard!Walk[14] = 23 /\ Standard!Walk[15] = 19
  /\ Standard!Walk[16] = 13 /\ Standard!Walk[17] = 12 /\ Standard!Walk[18] = 2 /\ Standard!Walk[19] = 20
  /\ Standard!Walk[20] = 14 /\ Standard!Walk[21] = 22 /\ Standard!Walk[22] = 9 /\ Standard!Walk[23] = 6
<1> DEFINE W == Standard!Walk
<1>0. W[0] = 1 /\ \A t \in 1..23 : W[t] = ((W[t - 1] \div 5) % 5) + 5 * ((2 * (W[t - 1] % 5) + 3 * (W[t - 1] \div 5)) % 5)
  BY WalkSteps
<1> HIDE DEF W
<1>1. W[1] = 10
  BY <1>0, <1>0
<1>2. W[2] = 7
  BY <1>0, <1>1
<1>3. W[3] = 11
  BY <1>0, <1>2
<1>4. W[4] = 17
  BY <1>0, <1>3
<1>5. W[5] = 18
  BY <1>0, <1>4
<1>6. W[6] = 3
  BY <1>0, <1>5
<1>7. W[7] = 5
  BY <1>0, <1>6
<1>8. W[8] = 16
  BY <1>0, <1>7
<1>9. W[9] = 8
  BY <1>0, <1>8
<1>10. W[10] = 21
  BY <1>0, <1>9
<1>11. W[11] = 24
  BY <1>0, <1>10
<1>12. W[12] = 4
  BY <1>0, <1>11
<1>13. W[13] = 15
  BY <1>0, <1>12
<1>14. W[14] = 23
  BY <1>0, <1>13
<1>15. W[15] = 19
  BY <1>0, <1>14
<1>16. W[16] = 13
  BY <1>0, <1>15
<1>17. W[17] = 12
  BY <1>0, <1>16
<1>18. W[18] = 2
  BY <1>0, <1>17
<1>19. W[19] = 20
  BY <1>0, <1>18
<1>20. W[20] = 14
  BY <1>0, <1>19
<1>21. W[21] = 22
  BY <1>0, <1>20
<1>22. W[22] = 9
  BY <1>0, <1>21
<1>23. W[23] = 6
  BY <1>0, <1>22
<1> QED BY <1>0, <1>1, <1>2, <1>3, <1>4, <1>5, <1>6, <1>7, <1>8, <1>9, <1>10, <1>11, <1>12, <1>13, <1>14, <1>15, <1>16, <1>17, <1>18, <1>19, <1>20, <1>21, <1>22, <1>23 DEF W

LEMMA OffsetIs == \A k \in Words : Standard!Offset(k) = Rotations1[k + 1]
<1> DEFINE W == Standard!Walk
           at(k) == CHOOSE t \in 0..23 : W[t] = k
<1>1. /\ W[0] = 1 /\ W[1] = 10 /\ W[2] = 7 /\ W[3] = 11 /\ W[4] = 17 /\ W[5] = 18
      /\ W[6] = 3 /\ W[7] = 5 /\ W[8] = 16 /\ W[9] = 8 /\ W[10] = 21 /\ W[11] = 24
      /\ W[12] = 4 /\ W[13] = 15 /\ W[14] = 23 /\ W[15] = 19 /\ W[16] = 13 /\ W[17] = 12
      /\ W[18] = 2 /\ W[19] = 20 /\ W[20] = 14 /\ W[21] = 22 /\ W[22] = 9 /\ W[23] = 6
  BY WalkIs
<1> HIDE DEF W
<1>2. \A t, u \in 0..23 : W[t] = W[u] => t = u
  BY <1>1
<1>3. \A t \in 0..23 : at(W[t]) = t
  BY <1>2
<1>4. /\ at(1) = 0 /\ at(10) = 1 /\ at(7) = 2 /\ at(11) = 3 /\ at(17) = 4 /\ at(18) = 5
      /\ at(3) = 6 /\ at(5) = 7 /\ at(16) = 8 /\ at(8) = 9 /\ at(21) = 10 /\ at(24) = 11
      /\ at(4) = 12 /\ at(15) = 13 /\ at(23) = 14 /\ at(19) = 15 /\ at(13) = 16 /\ at(12) = 17
      /\ at(2) = 18 /\ at(20) = 19 /\ at(14) = 20 /\ at(22) = 21 /\ at(9) = 22 /\ at(6) = 23
  BY <1>1, <1>3
<1> HIDE DEF at
<1>5. \A k \in 1..24 : Standard!Offset(k) = (((at(k) + 1) * (at(k) + 2)) \div 2) % 64
  BY DEF Standard!Offset, at, W
<1>6. Standard!Offset(0) = 0
  BY DEF Standard!Offset
<1>7. \A k \in 1..24 : Standard!Offset(k) = Rotations1[k + 1]
  <2>1. Standard!Offset(1) = 1
    BY <1>4, <1>5
  <2>2. Standard!Offset(2) = 62
    BY <1>4, <1>5
  <2>3. Standard!Offset(3) = 28
    BY <1>4, <1>5
  <2>4. Standard!Offset(4) = 27
    BY <1>4, <1>5
  <2>5. Standard!Offset(5) = 36
    BY <1>4, <1>5
  <2>6. Standard!Offset(6) = 44
    BY <1>4, <1>5
  <2>7. Standard!Offset(7) = 6
    BY <1>4, <1>5
  <2>8. Standard!Offset(8) = 55
    BY <1>4, <1>5
  <2>9. Standard!Offset(9) = 20
    BY <1>4, <1>5
  <2>10. Standard!Offset(10) = 3
    BY <1>4, <1>5
  <2>11. Standard!Offset(11) = 10
    BY <1>4, <1>5
  <2>12. Standard!Offset(12) = 43
    BY <1>4, <1>5
  <2>13. Standard!Offset(13) = 25
    BY <1>4, <1>5
  <2>14. Standard!Offset(14) = 39
    BY <1>4, <1>5
  <2>15. Standard!Offset(15) = 41
    BY <1>4, <1>5
  <2>16. Standard!Offset(16) = 45
    BY <1>4, <1>5
  <2>17. Standard!Offset(17) = 15
    BY <1>4, <1>5
  <2>18. Standard!Offset(18) = 21
    BY <1>4, <1>5
  <2>19. Standard!Offset(19) = 8
    BY <1>4, <1>5
  <2>20. Standard!Offset(20) = 18
    BY <1>4, <1>5
  <2>21. Standard!Offset(21) = 2
    BY <1>4, <1>5
  <2>22. Standard!Offset(22) = 61
    BY <1>4, <1>5
  <2>23. Standard!Offset(23) = 56
    BY <1>4, <1>5
  <2>24. Standard!Offset(24) = 14
    BY <1>4, <1>5
  <2> QED BY <2>1, <2>2, <2>3, <2>4, <2>5, <2>6, <2>7, <2>8, <2>9, <2>10, <2>11, <2>12, <2>13, <2>14, <2>15, <2>16, <2>17, <2>18, <2>19, <2>20, <2>21, <2>22, <2>23, <2>24 DEF Rotations1
<1> QED BY <1>6, <1>7 DEF Words, Rotations1

-----------------------------------------------------------------------------
\* iota: the shift register gives the round constants of the code.
LEMMA RegisterSteps ==
  LET R == Standard!Register
  IN  /\ R[0] = {0}
      /\ \A t \in 0..167 : R[t] \in SUBSET (0..7)
      /\ \A t \in 0..166 : \A bit \in 0..7 :
            bit \in R[t + 1] <=> IF bit = 0 THEN 7 \in R[t]
                                 ELSE ~(bit - 1 \in R[t] <=> (bit \in {4, 5, 6} /\ 7 \in R[t]))
<1> DEFINE next(s) == LET shifted == { bit + 1 : bit \in s }
                      IN  IF 8 \in shifted THEN Standard!Xor(shifted, {8, 6, 5, 4, 0}) ELSE shifted
           States8 == SUBSET (0..7)
           step == [s \in States8 |-> next(s)]
           register == CHOOSE state : state = [t \in 0..167 |-> IF t = 0 THEN {0} ELSE next(state[t - 1])]
<1>1. ASSUME NEW s \in States8
      PROVE  /\ next(s) \in States8
             /\ \A bit \in 0..7 : bit \in next(s) <=> IF bit = 0 THEN 7 \in s
                                 ELSE ~(bit - 1 \in s <=> (bit \in {4, 5, 6} /\ 7 \in s))
  <2> DEFINE shifted == { bit + 1 : bit \in s }
  <2>1. shifted \in SUBSET (1..8) /\ \A bit \in 1..8 : bit \in shifted <=> bit - 1 \in s
    OBVIOUS
  <2> HIDE DEF shifted
  <2>2. next(s) = IF 8 \in shifted THEN Standard!Xor(shifted, {8, 6, 5, 4, 0}) ELSE shifted
    BY DEF shifted
  <2> HIDE DEF next
  <2>3. 8 \in shifted <=> 7 \in s
    BY <2>1
  <2>4. CASE 7 \in s
    <3>1. next(s) = Standard!Xor(shifted, {8, 6, 5, 4, 0})
      BY <2>2, <2>3, <2>4
    <3> QED BY <2>1, <2>3, <2>4, <3>1 DEF Standard!Xor
  <2>5. CASE 7 \notin s
    <3>1. next(s) = shifted
      BY <2>2, <2>3, <2>5
    <3> QED BY <2>1, <2>3, <2>5, <3>1
  <2> QED BY <2>4, <2>5
<1>2. {0} \in States8 /\ step \in [States8 -> States8] /\ 167 \in Nat
  <2> HIDE DEF next
  <2> QED BY <1>1
<1>3. \E f : Iterated(f, 167, States8, {0}, step)
  <2> HIDE DEF step, next, States8
  <2> QED BY <1>2, Iterates
<1>4. PICK f \in [0..167 -> States8] : f[0] = {0} /\ \A t \in 1..167 : f[t] = step[f[t - 1]]
  <2> HIDE DEF step, next, States8
  <2> QED BY <1>3 DEF Iterated
<1>5. \A t \in 1..167 : f[t - 1] \in States8 /\ step[f[t - 1]] = next(f[t - 1])
  <2> HIDE DEF next
  <2> QED BY <1>4
<1>6. f = [t \in 0..167 |-> IF t = 0 THEN {0} ELSE next(f[t - 1])]
  <2> HIDE DEF step, next, States8
  <2> QED BY <1>4, <1>5
<1>7. register = [t \in 0..167 |-> IF t = 0 THEN {0} ELSE next(register[t - 1])]
  <2> HIDE DEF next
  <2> QED BY <1>6
<1>8. Standard!Register = register
  BY DEF Standard!Register
<1> HIDE DEF register
<1>9. register[0] = {0} /\ \A t \in 1..167 : register[t] = next(register[t - 1])
  <2> HIDE DEF next
  <2>1. \A t \in 0..167 : register[t] = IF t = 0 THEN {0} ELSE next(register[t - 1])
    BY <1>7, Zenon
  <2> QED BY <2>1
<1> HIDE DEF next, step
<1>10. \A t \in 0..166 : register[t + 1] = next(register[t])
  <2> SUFFICES ASSUME NEW t \in 0..166 PROVE register[t + 1] = next(register[t])
    OBVIOUS
  <2>1. t + 1 \in 1..167 /\ (t + 1) - 1 = t
    OBVIOUS
  <2> QED BY <1>9, <2>1
<1>11. \A t \in 0..167 : register[t] \in States8
  <2> DEFINE Good == {t \in 0..167 : register[t] \in States8}
  <2>1. 0 \in Good
    BY <1>2, <1>9
  <2>2. ASSUME NEW t \in 0..(167 - 1), t \in Good PROVE t + 1 \in Good
    <3>1. t \in 0..166 /\ t + 1 \in 0..167 /\ register[t] \in States8
      BY <2>2
    <3>2. register[t + 1] = next(register[t]) /\ next(register[t]) \in States8
      BY <1>1, <1>10, <3>1
    <3> QED BY <3>1, <3>2
  <2> HIDE DEF Good
  <2>3. \A t \in 0..167 : t \in Good
    BY <1>2, <2>1, <2>2, UpTo
  <2> QED BY <2>3 DEF Good
<1>12. ASSUME NEW t \in 0..166, NEW bit \in 0..7
       PROVE  bit \in register[t + 1] <=> IF bit = 0 THEN 7 \in register[t]
                                 ELSE ~(bit - 1 \in register[t] <=> (bit \in {4, 5, 6} /\ 7 \in register[t]))
  <2>1. register[t] \in States8 /\ register[t + 1] = next(register[t])
    BY <1>10, <1>11
  <2> HIDE DEF States8
  <2> QED BY <1>1, <2>1
<1> QED BY <1>8, <1>9, <1>11, <1>12

\* Seven steps of the register, which one round constant takes: the bits that come out,
\* and the register after them.
LEMMA SevenSteps ==
  ASSUME NEW t \in 0..161
  PROVE  LET R == Standard!Register
             In(bit) == bit \in R[t]
         IN  /\ 0 \in R[t] <=> In(0)
             /\ 0 \in R[t + 1] <=> In(7)
             /\ 0 \in R[t + 2] <=> In(6)
             /\ 0 \in R[t + 3] <=> ~(In(5) <=> In(7))
             /\ 0 \in R[t + 4] <=> ~(~(In(4) <=> In(6)) <=> In(7))
             /\ 0 \in R[t + 5] <=> ~(~(In(3) <=> In(5)) <=> In(6))
             /\ 0 \in R[t + 6] <=> ~(~(In(2) <=> In(4)) <=> In(5))
             /\ t # 161 =>
                 /\ 0 \in R[t + 7] <=> ~(~(In(1) <=> In(3)) <=> In(4))
                 /\ 1 \in R[t + 7] <=> ~(~(In(2) <=> In(4)) <=> In(5))
                 /\ 2 \in R[t + 7] <=> ~(~(In(3) <=> In(5)) <=> In(6))
                 /\ 3 \in R[t + 7] <=> ~(~(In(4) <=> In(6)) <=> In(7))
                 /\ 4 \in R[t + 7] <=> ~(~(~(~(In(1) <=> In(3)) <=> In(4)) <=> In(5)) <=> In(7))
                 /\ 5 \in R[t + 7] <=> ~(~(~(~(In(1) <=> In(2)) <=> In(3)) <=> In(5)) <=> In(6))
                 /\ 6 \in R[t + 7] <=> ~(~(~(In(1) <=> In(2)) <=> In(6)) <=> In(7))
                 /\ 7 \in R[t + 7] <=> ~(~(~(In(0) <=> In(2)) <=> In(3)) <=> In(7))
<1> DEFINE R == Standard!Register
           In(bit) == bit \in R[t]
<1>0. \A u \in 0..166 : /\ 0 \in R[u + 1] <=> 7 \in R[u]
                        /\ 1 \in R[u + 1] <=> 0 \in R[u]
                        /\ 2 \in R[u + 1] <=> 1 \in R[u]
                        /\ 3 \in R[u + 1] <=> 2 \in R[u]
                        /\ 4 \in R[u + 1] <=> ~(3 \in R[u] <=> 7 \in R[u])
                        /\ 5 \in R[u + 1] <=> ~(4 \in R[u] <=> 7 \in R[u])
                        /\ 6 \in R[u + 1] <=> ~(5 \in R[u] <=> 7 \in R[u])
                        /\ 7 \in R[u + 1] <=> 6 \in R[u]
  BY RegisterSteps
<1> HIDE DEF R
<1>1. /\ 0 \in R[t + 1] <=> In(7)
      /\ 1 \in R[t + 1] <=> In(0)
      /\ 2 \in R[t + 1] <=> In(1)
      /\ 3 \in R[t + 1] <=> In(2)
      /\ 4 \in R[t + 1] <=> ~(In(3) <=> In(7))
      /\ 5 \in R[t + 1] <=> ~(In(4) <=> In(7))
      /\ 6 \in R[t + 1] <=> ~(In(5) <=> In(7))
      /\ 7 \in R[t + 1] <=> In(6)
  <2>1. t + 0 \in 0..166 /\ (t + 0) + 1 = t + 1
    OBVIOUS
  <2> QED BY <1>0, <2>1
<1>2. /\ 0 \in R[t + 2] <=> In(6)
      /\ 1 \in R[t + 2] <=> In(7)
      /\ 2 \in R[t + 2] <=> In(0)
      /\ 3 \in R[t + 2] <=> In(1)
      /\ 4 \in R[t + 2] <=> ~(In(2) <=> In(6))
      /\ 5 \in R[t + 2] <=> ~(~(In(3) <=> In(6)) <=> In(7))
      /\ 6 \in R[t + 2] <=> ~(~(In(4) <=> In(6)) <=> In(7))
      /\ 7 \in R[t + 2] <=> ~(In(5) <=> In(7))
  <2>1. t + 1 \in 0..166 /\ (t + 1) + 1 = t + 2
    OBVIOUS
  <2> QED BY <1>0, <1>1, <2>1
<1>3. /\ 0 \in R[t + 3] <=> ~(In(5) <=> In(7))
      /\ 1 \in R[t + 3] <=> In(6)
      /\ 2 \in R[t + 3] <=> In(7)
      /\ 3 \in R[t + 3] <=> In(0)
      /\ 4 \in R[t + 3] <=> ~(~(In(1) <=> In(5)) <=> In(7))
      /\ 5 \in R[t + 3] <=> ~(~(~(In(2) <=> In(5)) <=> In(6)) <=> In(7))
      /\ 6 \in R[t + 3] <=> ~(~(In(3) <=> In(5)) <=> In(6))
      /\ 7 \in R[t + 3] <=> ~(~(In(4) <=> In(6)) <=> In(7))
  <2>1. t + 2 \in 0..166 /\ (t + 2) + 1 = t + 3
    OBVIOUS
  <2> QED BY <1>0, <1>2, <2>1
<1>4. /\ 0 \in R[t + 4] <=> ~(~(In(4) <=> In(6)) <=> In(7))
      /\ 1 \in R[t + 4] <=> ~(In(5) <=> In(7))
      /\ 2 \in R[t + 4] <=> In(6)
      /\ 3 \in R[t + 4] <=> In(7)
      /\ 4 \in R[t + 4] <=> ~(~(~(In(0) <=> In(4)) <=> In(6)) <=> In(7))
      /\ 5 \in R[t + 4] <=> ~(~(~(In(1) <=> In(4)) <=> In(5)) <=> In(6))
      /\ 6 \in R[t + 4] <=> ~(~(In(2) <=> In(4)) <=> In(5))
      /\ 7 \in R[t + 4] <=> ~(~(In(3) <=> In(5)) <=> In(6))
  <2>1. t + 3 \in 0..166 /\ (t + 3) + 1 = t + 4
    OBVIOUS
  <2> QED BY <1>0, <1>3, <2>1
<1>5. /\ 0 \in R[t + 5] <=> ~(~(In(3) <=> In(5)) <=> In(6))
      /\ 1 \in R[t + 5] <=> ~(~(In(4) <=> In(6)) <=> In(7))
      /\ 2 \in R[t + 5] <=> ~(In(5) <=> In(7))
      /\ 3 \in R[t + 5] <=> In(6)
      /\ 4 \in R[t + 5] <=> ~(~(~(In(3) <=> In(5)) <=> In(6)) <=> In(7))
      /\ 5 \in R[t + 5] <=> ~(~(~(~(In(0) <=> In(3)) <=> In(4)) <=> In(5)) <=> In(7))
      /\ 6 \in R[t + 5] <=> ~(~(In(1) <=> In(3)) <=> In(4))
      /\ 7 \in R[t + 5] <=> ~(~(In(2) <=> In(4)) <=> In(5))
  <2>1. t + 4 \in 0..166 /\ (t + 4) + 1 = t + 5
    OBVIOUS
  <2> QED BY <1>0, <1>4, <2>1
<1>6. /\ 0 \in R[t + 6] <=> ~(~(In(2) <=> In(4)) <=> In(5))
      /\ 1 \in R[t + 6] <=> ~(~(In(3) <=> In(5)) <=> In(6))
      /\ 2 \in R[t + 6] <=> ~(~(In(4) <=> In(6)) <=> In(7))
      /\ 3 \in R[t + 6] <=> ~(In(5) <=> In(7))
      /\ 4 \in R[t + 6] <=> ~(~(~(In(2) <=> In(4)) <=> In(5)) <=> In(6))
      /\ 5 \in R[t + 6] <=> ~(~(~(~(In(2) <=> In(3)) <=> In(4)) <=> In(6)) <=> In(7))
      /\ 6 \in R[t + 6] <=> ~(~(~(In(0) <=> In(2)) <=> In(3)) <=> In(7))
      /\ 7 \in R[t + 6] <=> ~(~(In(1) <=> In(3)) <=> In(4))
  <2>1. t + 5 \in 0..166 /\ (t + 5) + 1 = t + 6
    OBVIOUS
  <2> QED BY <1>0, <1>5, <2>1
<1>7. ASSUME t # 161
      PROVE  /\ 0 \in R[t + 7] <=> ~(~(In(1) <=> In(3)) <=> In(4))
             /\ 1 \in R[t + 7] <=> ~(~(In(2) <=> In(4)) <=> In(5))
             /\ 2 \in R[t + 7] <=> ~(~(In(3) <=> In(5)) <=> In(6))
             /\ 3 \in R[t + 7] <=> ~(~(In(4) <=> In(6)) <=> In(7))
             /\ 4 \in R[t + 7] <=> ~(~(~(~(In(1) <=> In(3)) <=> In(4)) <=> In(5)) <=> In(7))
             /\ 5 \in R[t + 7] <=> ~(~(~(~(In(1) <=> In(2)) <=> In(3)) <=> In(5)) <=> In(6))
             /\ 6 \in R[t + 7] <=> ~(~(~(In(1) <=> In(2)) <=> In(6)) <=> In(7))
             /\ 7 \in R[t + 7] <=> ~(~(~(In(0) <=> In(2)) <=> In(3)) <=> In(7))
  <2>1. t + 6 \in 0..166 /\ (t + 6) + 1 = t + 7
    BY <1>7
  <2> QED BY <1>0, <1>6, <2>1
<1> QED BY <1>1, <1>2, <1>3, <1>4, <1>5, <1>6, <1>7 DEF R

\* The round constants.
LEMMA ConstantIs == \A r \in 0..23 : Standard!Constant(r) = RC[r + 1]
<1> DEFINE R == Standard!Register
           Taken(r) == { m \in 0..6 : 0 \in R[m + 7 * r] }
<1>1. \A t \in 0..167 : R[t] \in SUBSET (0..7)
  BY RegisterSteps
<1>2. \A r : Standard!Constant(r) = { Standard!Position[m + 1] : m \in Taken(r) }
  BY DEF Standard!Constant
<1> HIDE DEF R, Taken
<1>3. /\ R[0] = {0}
      /\ Standard!Constant(0) = RC[1]
  <2>1. R[0] = {0}
    BY RegisterSteps DEF R
  <2>2. 0 \in R[0 + 0] /\ 0 \notin R[0 + 1] /\ 0 \notin R[0 + 2] /\ 0 \notin R[0 + 3] /\ 0 \notin R[0 + 4] /\ 0 \notin R[0 + 5] /\ 0 \notin R[0 + 6]
    BY <2>1, SevenSteps DEF R
  <2>3. Taken(0) = {0}
    BY <2>2 DEF Taken
  <2> QED BY <1>2, <2>1, <2>3 DEF RC, Standard!Position
<1>4. /\ R[7] = {7}
      /\ Standard!Constant(1) = RC[2]
  <2>a. 0 \in 0..161 /\ 0 # 161
    OBVIOUS
  <2>b. /\ 0 \notin R[0 + 7] /\ 1 \notin R[0 + 7] /\ 2 \notin R[0 + 7] /\ 3 \notin R[0 + 7]
        /\ 4 \notin R[0 + 7] /\ 5 \notin R[0 + 7] /\ 6 \notin R[0 + 7] /\ 7 \in R[0 + 7]
    BY <1>3, <2>a, SevenSteps DEF R
  <2>1. R[7] = {7}
    BY <1>1, <2>b
  <2>2. 0 \notin R[7 + 0] /\ 0 \in R[7 + 1] /\ 0 \notin R[7 + 2] /\ 0 \in R[7 + 3] /\ 0 \in R[7 + 4] /\ 0 \notin R[7 + 5] /\ 0 \notin R[7 + 6]
    BY <2>1, SevenSteps DEF R
  <2>3. Taken(1) = {1, 3, 4}
    BY <2>2 DEF Taken
  <2> QED BY <1>2, <2>1, <2>3 DEF RC, Standard!Position
<1>5. /\ R[14] = {3, 4, 6, 7}
      /\ Standard!Constant(2) = RC[3]
  <2>a. 7 \in 0..161 /\ 7 # 161
    OBVIOUS
  <2>b. /\ 0 \notin R[7 + 7] /\ 1 \notin R[7 + 7] /\ 2 \notin R[7 + 7] /\ 3 \in R[7 + 7]
        /\ 4 \in R[7 + 7] /\ 5 \notin R[7 + 7] /\ 6 \in R[7 + 7] /\ 7 \in R[7 + 7]
    BY <1>4, <2>a, SevenSteps DEF R
  <2>1. R[14] = {3, 4, 6, 7}
    BY <1>1, <2>b
  <2>2. 0 \notin R[14 + 0] /\ 0 \in R[14 + 1] /\ 0 \in R[14 + 2] /\ 0 \in R[14 + 3] /\ 0 \in R[14 + 4] /\ 0 \notin R[14 + 5] /\ 0 \in R[14 + 6]
    BY <2>1, SevenSteps DEF R
  <2>3. Taken(2) = {1, 2, 3, 4, 6}
    BY <2>2 DEF Taken
  <2> QED BY <1>2, <2>1, <2>3 DEF RC, Standard!Position
<1>6. /\ R[21] = {1, 3, 4}
      /\ Standard!Constant(3) = RC[4]
  <2>a. 14 \in 0..161 /\ 14 # 161
    OBVIOUS
  <2>b. /\ 0 \notin R[14 + 7] /\ 1 \in R[14 + 7] /\ 2 \notin R[14 + 7] /\ 3 \in R[14 + 7]
        /\ 4 \in R[14 + 7] /\ 5 \notin R[14 + 7] /\ 6 \notin R[14 + 7] /\ 7 \notin R[14 + 7]
    BY <1>5, <2>a, SevenSteps DEF R
  <2>1. R[21] = {1, 3, 4}
    BY <1>1, <2>b
  <2>2. 0 \notin R[21 + 0] /\ 0 \notin R[21 + 1] /\ 0 \notin R[21 + 2] /\ 0 \notin R[21 + 3] /\ 0 \in R[21 + 4] /\ 0 \in R[21 + 5] /\ 0 \in R[21 + 6]
    BY <2>1, SevenSteps DEF R
  <2>3. Taken(3) = {4, 5, 6}
    BY <2>2 DEF Taken
  <2> QED BY <1>2, <2>1, <2>3 DEF RC, Standard!Position
<1>7. /\ R[28] = {0, 1, 2, 3, 4, 6, 7}
      /\ Standard!Constant(4) = RC[5]
  <2>a. 21 \in 0..161 /\ 21 # 161
    OBVIOUS
  <2>b. /\ 0 \in R[21 + 7] /\ 1 \in R[21 + 7] /\ 2 \in R[21 + 7] /\ 3 \in R[21 + 7]
        /\ 4 \in R[21 + 7] /\ 5 \notin R[21 + 7] /\ 6 \in R[21 + 7] /\ 7 \in R[21 + 7]
    BY <1>6, <2>a, SevenSteps DEF R
  <2>1. R[28] = {0, 1, 2, 3, 4, 6, 7}
    BY <1>1, <2>b
  <2>2. 0 \in R[28 + 0] /\ 0 \in R[28 + 1] /\ 0 \in R[28 + 2] /\ 0 \in R[28 + 3] /\ 0 \in R[28 + 4] /\ 0 \notin R[28 + 5] /\ 0 \notin R[28 + 6]
    BY <2>1, SevenSteps DEF R
  <2>3. Taken(4) = {0, 1, 2, 3, 4}
    BY <2>2 DEF Taken
  <2> QED BY <1>2, <2>1, <2>3 DEF RC, Standard!Position
<1>8. /\ R[35] = {0, 3}
      /\ Standard!Constant(5) = RC[6]
  <2>a. 28 \in 0..161 /\ 28 # 161
    OBVIOUS
  <2>b. /\ 0 \in R[28 + 7] /\ 1 \notin R[28 + 7] /\ 2 \notin R[28 + 7] /\ 3 \in R[28 + 7]
        /\ 4 \notin R[28 + 7] /\ 5 \notin R[28 + 7] /\ 6 \notin R[28 + 7] /\ 7 \notin R[28 + 7]
    BY <1>7, <2>a, SevenSteps DEF R
  <2>1. R[35] = {0, 3}
    BY <1>1, <2>b
  <2>2. 0 \in R[35 + 0] /\ 0 \notin R[35 + 1] /\ 0 \notin R[35 + 2] /\ 0 \notin R[35 + 3] /\ 0 \notin R[35 + 4] /\ 0 \in R[35 + 5] /\ 0 \notin R[35 + 6]
    BY <2>1, SevenSteps DEF R
  <2>3. Taken(5) = {0, 5}
    BY <2>2 DEF Taken
  <2> QED BY <1>2, <2>1, <2>3 DEF RC, Standard!Position
<1>9. /\ R[42] = {0, 2, 4, 5}
      /\ Standard!Constant(6) = RC[7]
  <2>a. 35 \in 0..161 /\ 35 # 161
    OBVIOUS
  <2>b. /\ 0 \in R[35 + 7] /\ 1 \notin R[35 + 7] /\ 2 \in R[35 + 7] /\ 3 \notin R[35 + 7]
        /\ 4 \in R[35 + 7] /\ 5 \in R[35 + 7] /\ 6 \notin R[35 + 7] /\ 7 \notin R[35 + 7]
    BY <1>8, <2>a, SevenSteps DEF R
  <2>1. R[42] = {0, 2, 4, 5}
    BY <1>1, <2>b
  <2>2. 0 \in R[42 + 0] /\ 0 \notin R[42 + 1] /\ 0 \notin R[42 + 2] /\ 0 \in R[42 + 3] /\ 0 \in R[42 + 4] /\ 0 \in R[42 + 5] /\ 0 \in R[42 + 6]
    BY <2>1, SevenSteps DEF R
  <2>3. Taken(6) = {0, 3, 4, 5, 6}
    BY <2>2 DEF Taken
  <2> QED BY <1>2, <2>1, <2>3 DEF RC, Standard!Position
<1>10. /\ R[49] = {0, 1, 2, 3, 6}
      /\ Standard!Constant(7) = RC[8]
  <2>a. 42 \in 0..161 /\ 42 # 161
    OBVIOUS
  <2>b. /\ 0 \in R[42 + 7] /\ 1 \in R[42 + 7] /\ 2 \in R[42 + 7] /\ 3 \in R[42 + 7]
        /\ 4 \notin R[42 + 7] /\ 5 \notin R[42 + 7] /\ 6 \in R[42 + 7] /\ 7 \notin R[42 + 7]
    BY <1>9, <2>a, SevenSteps DEF R
  <2>1. R[49] = {0, 1, 2, 3, 6}
    BY <1>1, <2>b
  <2>2. 0 \in R[49 + 0] /\ 0 \notin R[49 + 1] /\ 0 \in R[49 + 2] /\ 0 \notin R[49 + 3] /\ 0 \in R[49 + 4] /\ 0 \notin R[49 + 5] /\ 0 \in R[49 + 6]
    BY <2>1, SevenSteps DEF R
  <2>3. Taken(7) = {0, 2, 4, 6}
    BY <2>2 DEF Taken
  <2> QED BY <1>2, <2>1, <2>3 DEF RC, Standard!Position
<1>11. /\ R[56] = {1, 3, 6, 7}
      /\ Standard!Constant(8) = RC[9]
  <2>a. 49 \in 0..161 /\ 49 # 161
    OBVIOUS
  <2>b. /\ 0 \notin R[49 + 7] /\ 1 \in R[49 + 7] /\ 2 \notin R[49 + 7] /\ 3 \in R[49 + 7]
        /\ 4 \notin R[49 + 7] /\ 5 \notin R[49 + 7] /\ 6 \in R[49 + 7] /\ 7 \in R[49 + 7]
    BY <1>10, <2>a, SevenSteps DEF R
  <2>1. R[56] = {1, 3, 6, 7}
    BY <1>1, <2>b
  <2>2. 0 \notin R[56 + 0] /\ 0 \in R[56 + 1] /\ 0 \in R[56 + 2] /\ 0 \in R[56 + 3] /\ 0 \notin R[56 + 4] /\ 0 \notin R[56 + 5] /\ 0 \notin R[56 + 6]
    BY <2>1, SevenSteps DEF R
  <2>3. Taken(8) = {1, 2, 3}
    BY <2>2 DEF Taken
  <2> QED BY <1>2, <2>1, <2>3 DEF RC, Standard!Position
<1>12. /\ R[63] = {4, 5, 6}
      /\ Standard!Constant(9) = RC[10]
  <2>a. 56 \in 0..161 /\ 56 # 161
    OBVIOUS
  <2>b. /\ 0 \notin R[56 + 7] /\ 1 \notin R[56 + 7] /\ 2 \notin R[56 + 7] /\ 3 \notin R[56 + 7]
        /\ 4 \in R[56 + 7] /\ 5 \in R[56 + 7] /\ 6 \in R[56 + 7] /\ 7 \notin R[56 + 7]
    BY <1>11, <2>a, SevenSteps DEF R
  <2>1. R[63] = {4, 5, 6}
    BY <1>1, <2>b
  <2>2. 0 \notin R[63 + 0] /\ 0 \notin R[63 + 1] /\ 0 \in R[63 + 2] /\ 0 \in R[63 + 3] /\ 0 \notin R[63 + 4] /\ 0 \notin R[63 + 5] /\ 0 \notin R[63 + 6]
    BY <2>1, SevenSteps DEF R
  <2>3. Taken(9) = {2, 3}
    BY <2>2 DEF Taken
  <2> QED BY <1>2, <2>1, <2>3 DEF RC, Standard!Position
<1>13. /\ R[70] = {0, 6}
      /\ Standard!Constant(10) = RC[11]
  <2>a. 63 \in 0..161 /\ 63 # 161
    OBVIOUS
  <2>b. /\ 0 \in R[63 + 7] /\ 1 \notin R[63 + 7] /\ 2 \notin R[63 + 7] /\ 3 \notin R[63 + 7]
        /\ 4 \notin R[63 + 7] /\ 5 \notin R[63 + 7] /\ 6 \in R[63 + 7] /\ 7 \notin R[63 + 7]
    BY <1>12, <2>a, SevenSteps DEF R
  <2>1. R[70] = {0, 6}
    BY <1>1, <2>b
  <2>2. 0 \in R[70 + 0] /\ 0 \notin R[70 + 1] /\ 0 \in R[70 + 2] /\ 0 \notin R[70 + 3] /\ 0 \in R[70 + 4] /\ 0 \in R[70 + 5] /\ 0 \notin R[70 + 6]
    BY <2>1, SevenSteps DEF R
  <2>3. Taken(10) = {0, 2, 4, 5}
    BY <2>2 DEF Taken
  <2> QED BY <1>2, <2>1, <2>3 DEF RC, Standard!Position
<1>14. /\ R[77] = {2, 3, 5, 6, 7}
      /\ Standard!Constant(11) = RC[12]
  <2>a. 70 \in 0..161 /\ 70 # 161
    OBVIOUS
  <2>b. /\ 0 \notin R[70 + 7] /\ 1 \notin R[70 + 7] /\ 2 \in R[70 + 7] /\ 3 \in R[70 + 7]
        /\ 4 \notin R[70 + 7] /\ 5 \in R[70 + 7] /\ 6 \in R[70 + 7] /\ 7 \in R[70 + 7]
    BY <1>13, <2>a, SevenSteps DEF R
  <2>1. R[77] = {2, 3, 5, 6, 7}
    BY <1>1, <2>b
  <2>2. 0 \notin R[77 + 0] /\ 0 \in R[77 + 1] /\ 0 \in R[77 + 2] /\ 0 \notin R[77 + 3] /\ 0 \notin R[77 + 4] /\ 0 \in R[77 + 5] /\ 0 \notin R[77 + 6]
    BY <2>1, SevenSteps DEF R
  <2>3. Taken(11) = {1, 2, 5}
    BY <2>2 DEF Taken
  <2> QED BY <1>2, <2>1, <2>3 DEF RC, Standard!Position
<1>15. /\ R[84] = {0, 2, 4, 6, 7}
      /\ Standard!Constant(12) = RC[13]
  <2>a. 77 \in 0..161 /\ 77 # 161
    OBVIOUS
  <2>b. /\ 0 \in R[77 + 7] /\ 1 \notin R[77 + 7] /\ 2 \in R[77 + 7] /\ 3 \notin R[77 + 7]
        /\ 4 \in R[77 + 7] /\ 5 \notin R[77 + 7] /\ 6 \in R[77 + 7] /\ 7 \in R[77 + 7]
    BY <1>14, <2>a, SevenSteps DEF R
  <2>1. R[84] = {0, 2, 4, 6, 7}
    BY <1>1, <2>b
  <2>2. 0 \in R[84 + 0] /\ 0 \in R[84 + 1] /\ 0 \in R[84 + 2] /\ 0 \in R[84 + 3] /\ 0 \in R[84 + 4] /\ 0 \in R[84 + 5] /\ 0 \notin R[84 + 6]
    BY <2>1, SevenSteps DEF R
  <2>3. Taken(12) = {0, 1, 2, 3, 4, 5}
    BY <2>2 DEF Taken
  <2> QED BY <1>2, <2>1, <2>3 DEF RC, Standard!Position
<1>16. /\ R[91] = {0, 2, 3, 6, 7}
      /\ Standard!Constant(13) = RC[14]
  <2>a. 84 \in 0..161 /\ 84 # 161
    OBVIOUS
  <2>b. /\ 0 \in R[84 + 7] /\ 1 \notin R[84 + 7] /\ 2 \in R[84 + 7] /\ 3 \in R[84 + 7]
        /\ 4 \notin R[84 + 7] /\ 5 \notin R[84 + 7] /\ 6 \in R[84 + 7] /\ 7 \in R[84 + 7]
    BY <1>15, <2>a, SevenSteps DEF R
  <2>1. R[91] = {0, 2, 3, 6, 7}
    BY <1>1, <2>b
  <2>2. 0 \in R[91 + 0] /\ 0 \in R[91 + 1] /\ 0 \in R[91 + 2] /\ 0 \in R[91 + 3] /\ 0 \notin R[91 + 4] /\ 0 \notin R[91 + 5] /\ 0 \in R[91 + 6]
    BY <2>1, SevenSteps DEF R
  <2>3. Taken(13) = {0, 1, 2, 3, 6}
    BY <2>2 DEF Taken
  <2> QED BY <1>2, <2>1, <2>3 DEF RC, Standard!Position
<1>17. /\ R[98] = {0, 1, 5, 6}
      /\ Standard!Constant(14) = RC[15]
  <2>a. 91 \in 0..161 /\ 91 # 161
    OBVIOUS
  <2>b. /\ 0 \in R[91 + 7] /\ 1 \in R[91 + 7] /\ 2 \notin R[91 + 7] /\ 3 \notin R[91 + 7]
        /\ 4 \notin R[91 + 7] /\ 5 \in R[91 + 7] /\ 6 \in R[91 + 7] /\ 7 \notin R[91 + 7]
    BY <1>16, <2>a, SevenSteps DEF R
  <2>1. R[98] = {0, 1, 5, 6}
    BY <1>1, <2>b
  <2>2. 0 \in R[98 + 0] /\ 0 \notin R[98 + 1] /\ 0 \in R[98 + 2] /\ 0 \in R[98 + 3] /\ 0 \in R[98 + 4] /\ 0 \notin R[98 + 5] /\ 0 \in R[98 + 6]
    BY <2>1, SevenSteps DEF R
  <2>3. Taken(14) = {0, 2, 3, 4, 6}
    BY <2>2 DEF Taken
  <2> QED BY <1>2, <2>1, <2>3 DEF RC, Standard!Position
<1>18. /\ R[105] = {0, 1, 3, 5, 7}
      /\ Standard!Constant(15) = RC[16]
  <2>a. 98 \in 0..161 /\ 98 # 161
    OBVIOUS
  <2>b. /\ 0 \in R[98 + 7] /\ 1 \in R[98 + 7] /\ 2 \notin R[98 + 7] /\ 3 \in R[98 + 7]
        /\ 4 \notin R[98 + 7] /\ 5 \in R[98 + 7] /\ 6 \notin R[98 + 7] /\ 7 \in R[98 + 7]
    BY <1>17, <2>a, SevenSteps DEF R
  <2>1. R[105] = {0, 1, 3, 5, 7}
    BY <1>1, <2>b
  <2>2. 0 \in R[105 + 0] /\ 0 \in R[105 + 1] /\ 0 \notin R[105 + 2] /\ 0 \notin R[105 + 3] /\ 0 \in R[105 + 4] /\ 0 \notin R[105 + 5] /\ 0 \in R[105 + 6]
    BY <2>1, SevenSteps DEF R
  <2>3. Taken(15) = {0, 1, 4, 6}
    BY <2>2 DEF Taken
  <2> QED BY <1>2, <2>1, <2>3 DEF RC, Standard!Position
<1>19. /\ R[112] = {1, 3, 5, 7}
      /\ Standard!Constant(16) = RC[17]
  <2>a. 105 \in 0..161 /\ 105 # 161
    OBVIOUS
  <2>b. /\ 0 \notin R[105 + 7] /\ 1 \in R[105 + 7] /\ 2 \notin R[105 + 7] /\ 3 \in R[105 + 7]
        /\ 4 \notin R[105 + 7] /\ 5 \in R[105 + 7] /\ 6 \notin R[105 + 7] /\ 7 \in R[105 + 7]
    BY <1>18, <2>a, SevenSteps DEF R
  <2>1. R[112] = {1, 3, 5, 7}
    BY <1>1, <2>b
  <2>2. 0 \notin R[112 + 0] /\ 0 \in R[112 + 1] /\ 0 \notin R[112 + 2] /\ 0 \notin R[112 + 3] /\ 0 \in R[112 + 4] /\ 0 \notin R[112 + 5] /\ 0 \in R[112 + 6]
    BY <2>1, SevenSteps DEF R
  <2>3. Taken(16) = {1, 4, 6}
    BY <2>2 DEF Taken
  <2> QED BY <1>2, <2>1, <2>3 DEF RC, Standard!Position
<1>20. /\ R[119] = {1, 3, 5}
      /\ Standard!Constant(17) = RC[18]
  <2>a. 112 \in 0..161 /\ 112 # 161
    OBVIOUS
  <2>b. /\ 0 \notin R[112 + 7] /\ 1 \in R[112 + 7] /\ 2 \notin R[112 + 7] /\ 3 \in R[112 + 7]
        /\ 4 \notin R[112 + 7] /\ 5 \in R[112 + 7] /\ 6 \notin R[112 + 7] /\ 7 \notin R[112 + 7]
    BY <1>19, <2>a, SevenSteps DEF R
  <2>1. R[119] = {1, 3, 5}
    BY <1>1, <2>b
  <2>2. 0 \notin R[119 + 0] /\ 0 \notin R[119 + 1] /\ 0 \notin R[119 + 2] /\ 0 \in R[119 + 3] /\ 0 \notin R[119 + 4] /\ 0 \notin R[119 + 5] /\ 0 \in R[119 + 6]
    BY <2>1, SevenSteps DEF R
  <2>3. Taken(17) = {3, 6}
    BY <2>2 DEF Taken
  <2> QED BY <1>2, <2>1, <2>3 DEF RC, Standard!Position
<1>21. /\ R[126] = {1, 4, 5, 6, 7}
      /\ Standard!Constant(18) = RC[19]
  <2>a. 119 \in 0..161 /\ 119 # 161
    OBVIOUS
  <2>b. /\ 0 \notin R[119 + 7] /\ 1 \in R[119 + 7] /\ 2 \notin R[119 + 7] /\ 3 \notin R[119 + 7]
        /\ 4 \in R[119 + 7] /\ 5 \in R[119 + 7] /\ 6 \in R[119 + 7] /\ 7 \in R[119 + 7]
    BY <1>20, <2>a, SevenSteps DEF R
  <2>1. R[126] = {1, 4, 5, 6, 7}
    BY <1>1, <2>b
  <2>2. 0 \notin R[126 + 0] /\ 0 \in R[126 + 1] /\ 0 \in R[126 + 2] /\ 0 \notin R[126 + 3] /\ 0 \in R[126 + 4] /\ 0 \notin R[126 + 5] /\ 0 \notin R[126 + 6]
    BY <2>1, SevenSteps DEF R
  <2>3. Taken(18) = {1, 2, 4}
    BY <2>2 DEF Taken
  <2> QED BY <1>2, <2>1, <2>3 DEF RC, Standard!Position
<1>22. /\ R[133] = {3, 5, 6, 7}
      /\ Standard!Constant(19) = RC[20]
  <2>a. 126 \in 0..161 /\ 126 # 161
    OBVIOUS
  <2>b. /\ 0 \notin R[126 + 7] /\ 1 \notin R[126 + 7] /\ 2 \notin R[126 + 7] /\ 3 \in R[126 + 7]
        /\ 4 \notin R[126 + 7] /\ 5 \in R[126 + 7] /\ 6 \in R[126 + 7] /\ 7 \in R[126 + 7]
    BY <1>21, <2>a, SevenSteps DEF R
  <2>1. R[133] = {3, 5, 6, 7}
    BY <1>1, <2>b
  <2>2. 0 \notin R[133 + 0] /\ 0 \in R[133 + 1] /\ 0 \in R[133 + 2] /\ 0 \notin R[133 + 3] /\ 0 \notin R[133 + 4] /\ 0 \in R[133 + 5] /\ 0 \in R[133 + 6]
    BY <2>1, SevenSteps DEF R
  <2>3. Taken(19) = {1, 2, 5, 6}
    BY <2>2 DEF Taken
  <2> QED BY <1>2, <2>1, <2>3 DEF RC, Standard!Position
<1>23. /\ R[140] = {0, 1, 2, 4, 5}
      /\ Standard!Constant(20) = RC[21]
  <2>a. 133 \in 0..161 /\ 133 # 161
    OBVIOUS
  <2>b. /\ 0 \in R[133 + 7] /\ 1 \in R[133 + 7] /\ 2 \in R[133 + 7] /\ 3 \notin R[133 + 7]
        /\ 4 \in R[133 + 7] /\ 5 \in R[133 + 7] /\ 6 \notin R[133 + 7] /\ 7 \notin R[133 + 7]
    BY <1>22, <2>a, SevenSteps DEF R
  <2>1. R[140] = {0, 1, 2, 4, 5}
    BY <1>1, <2>b
  <2>2. 0 \in R[140 + 0] /\ 0 \notin R[140 + 1] /\ 0 \notin R[140 + 2] /\ 0 \in R[140 + 3] /\ 0 \in R[140 + 4] /\ 0 \in R[140 + 5] /\ 0 \in R[140 + 6]
    BY <2>1, SevenSteps DEF R
  <2>3. Taken(20) = {0, 3, 4, 5, 6}
    BY <2>2 DEF Taken
  <2> QED BY <1>2, <2>1, <2>3 DEF RC, Standard!Position
<1>24. /\ R[147] = {1, 2, 3, 4, 5}
      /\ Standard!Constant(21) = RC[22]
  <2>a. 140 \in 0..161 /\ 140 # 161
    OBVIOUS
  <2>b. /\ 0 \notin R[140 + 7] /\ 1 \in R[140 + 7] /\ 2 \in R[140 + 7] /\ 3 \in R[140 + 7]
        /\ 4 \in R[140 + 7] /\ 5 \in R[140 + 7] /\ 6 \notin R[140 + 7] /\ 7 \notin R[140 + 7]
    BY <1>23, <2>a, SevenSteps DEF R
  <2>1. R[147] = {1, 2, 3, 4, 5}
    BY <1>1, <2>b
  <2>2. 0 \notin R[147 + 0] /\ 0 \notin R[147 + 1] /\ 0 \notin R[147 + 2] /\ 0 \in R[147 + 3] /\ 0 \in R[147 + 4] /\ 0 \notin R[147 + 5] /\ 0 \in R[147 + 6]
    BY <2>1, SevenSteps DEF R
  <2>3. Taken(21) = {3, 4, 6}
    BY <2>2 DEF Taken
  <2> QED BY <1>2, <2>1, <2>3 DEF RC, Standard!Position
<1>25. /\ R[154] = {0, 1, 3}
      /\ Standard!Constant(22) = RC[23]
  <2>a. 147 \in 0..161 /\ 147 # 161
    OBVIOUS
  <2>b. /\ 0 \in R[147 + 7] /\ 1 \in R[147 + 7] /\ 2 \notin R[147 + 7] /\ 3 \in R[147 + 7]
        /\ 4 \notin R[147 + 7] /\ 5 \notin R[147 + 7] /\ 6 \notin R[147 + 7] /\ 7 \notin R[147 + 7]
    BY <1>24, <2>a, SevenSteps DEF R
  <2>1. R[154] = {0, 1, 3}
    BY <1>1, <2>b
  <2>2. 0 \in R[154 + 0] /\ 0 \notin R[154 + 1] /\ 0 \notin R[154 + 2] /\ 0 \notin R[154 + 3] /\ 0 \notin R[154 + 4] /\ 0 \in R[154 + 5] /\ 0 \notin R[154 + 6]
    BY <2>1, SevenSteps DEF R
  <2>3. Taken(22) = {0, 5}
    BY <2>2 DEF Taken
  <2> QED BY <1>2, <2>1, <2>3 DEF RC, Standard!Position
<1>26. /\ R[161] = {2, 6}
      /\ Standard!Constant(23) = RC[24]
  <2>a. 154 \in 0..161 /\ 154 # 161
    OBVIOUS
  <2>b. /\ 0 \notin R[154 + 7] /\ 1 \notin R[154 + 7] /\ 2 \in R[154 + 7] /\ 3 \notin R[154 + 7]
        /\ 4 \notin R[154 + 7] /\ 5 \notin R[154 + 7] /\ 6 \in R[154 + 7] /\ 7 \notin R[154 + 7]
    BY <1>25, <2>a, SevenSteps DEF R
  <2>1. R[161] = {2, 6}
    BY <1>1, <2>b
  <2>2. 0 \notin R[161 + 0] /\ 0 \notin R[161 + 1] /\ 0 \in R[161 + 2] /\ 0 \notin R[161 + 3] /\ 0 \in R[161 + 4] /\ 0 \in R[161 + 5] /\ 0 \in R[161 + 6]
    BY <2>1, SevenSteps DEF R
  <2>3. Taken(23) = {2, 4, 5, 6}
    BY <2>2 DEF Taken
  <2> QED BY <1>2, <2>1, <2>3 DEF RC, Standard!Position
<1> QED BY <1>3, <1>4, <1>5, <1>6, <1>7, <1>8, <1>9, <1>10, <1>11, <1>12, <1>13, <1>14, <1>15, <1>16, <1>17, <1>18, <1>19, <1>20, <1>21, <1>22, <1>23, <1>24, <1>25, <1>26

-----------------------------------------------------------------------------
\* The Cortex-M4 rotates a lane as two halves, which change places for 32 and more.
LEMMA HalvesRotate ==
  ASSUME NEW x \in SUBSET Bits, NEW by, by.left \in 0..31
  PROVE  ShiftedHalves(x, by) = RotLeft(x, by.left + (IF by.crossed THEN 32 ELSE 0))
<1> DEFINE left == by.left
           crossed == by.crossed
           lo == IF crossed THEN High(x) ELSE Low(x)
           hi == IF crossed THEN Low(x) ELSE High(x)
           newLo == Lsl(lo, left) \cup Lsr(hi, 32 - left)
           newHi == Lsl(hi, left) \cup Lsr(lo, 32 - left)
           turn == left + (IF crossed THEN 32 ELSE 0)
<1>1. left \in 0..31
  OBVIOUS
<1>2. ShiftedHalves(x, by) = newLo \cup { bit + 32 : bit \in newHi }
  BY DEF ShiftedHalves
<1> HIDE DEF left, crossed
<1>3. lo \in SUBSET (0..31) /\ hi \in SUBSET (0..31)
  BY DEF Low, High, Bits
<1>4. \A bit \in 0..31 : /\ bit \in lo <=> IF crossed THEN bit + 32 \in x ELSE bit \in x
                         /\ bit \in hi <=> IF crossed THEN bit \in x ELSE bit + 32 \in x
  BY DEF Low, High, Bits
<1> HIDE DEF lo, hi
<1>5. \A bit \in 0..31 : /\ bit \in newLo <=> IF bit >= left THEN bit - left \in lo ELSE bit + 32 - left \in hi
                         /\ bit \in newHi <=> IF bit >= left THEN bit - left \in hi ELSE bit + 32 - left \in lo
  BY <1>1, <1>3 DEF Lsl, Lsr
<1>6. newLo \in SUBSET (0..31) /\ newHi \in SUBSET (0..31)
  BY DEF Lsl, Lsr
<1> HIDE DEF newLo, newHi
<1> DEFINE both == newLo \cup { bit + 32 : bit \in newHi }
<1>7. \A bit \in 0..31 : (bit \in both <=> bit \in newLo) /\ (bit + 32 \in both <=> bit \in newHi)
  BY <1>6
<1>8. both \in SUBSET Bits
  <2>1. \A bit \in newLo : bit \in Bits
    BY <1>6 DEF Bits
  <2>2. \A bit \in newHi : bit + 32 \in Bits
    BY <1>6 DEF Bits
  <2> HIDE DEF Bits
  <2> QED BY <2>1, <2>2
<1> HIDE DEF both
<1>9. turn \in Nat
  BY <1>1
<1>10. \A bit \in Bits : bit \in RotLeft(x, turn) <=> (bit - turn) % 64 \in x
  <2> HIDE DEF turn
  <2> QED BY <1>9, RotBit
<1>11. RotLeft(x, turn) \in SUBSET Bits
  <2> HIDE DEF turn
  <2> QED BY <1>9, RotWord
<1>12. ASSUME NEW bit \in 0..31
       PROVE  /\ bit \in both <=> bit \in RotLeft(x, turn)
              /\ bit + 32 \in both <=> bit + 32 \in RotLeft(x, turn)
  <2>0. bit \in Bits /\ bit + 32 \in Bits
    BY DEF Bits
  <2>1. CASE bit >= left
    <3>1. bit - left \in 0..31
      BY <1>1, <2>1
    <3>2. (bit \in both <=> bit - left \in lo) /\ (bit + 32 \in both <=> bit - left \in hi)
      BY <1>5, <1>7, <2>1
    <3>3. /\ (bit - turn) % 64 = IF crossed THEN (bit - left) + 32 ELSE bit - left
          /\ ((bit + 32) - turn) % 64 = IF crossed THEN bit - left ELSE (bit - left) + 32
      BY <1>1, <2>1
    <3> QED BY <1>4, <1>10, <2>0, <3>1, <3>2, <3>3
  <2>2. CASE bit < left
    <3>1. bit + 32 - left \in 0..31 /\ ~(bit >= left)
      BY <1>1, <2>2
    <3>2. (bit \in both <=> bit + 32 - left \in hi) /\ (bit + 32 \in both <=> bit + 32 - left \in lo)
      BY <1>5, <1>7, <3>1
    <3>3. /\ (bit - turn) % 64 = IF crossed THEN bit + 32 - left ELSE (bit + 32 - left) + 32
          /\ ((bit + 32) - turn) % 64 = IF crossed THEN (bit + 32 - left) + 32 ELSE bit + 32 - left
      BY <1>1, <2>2
    <3> QED BY <1>4, <1>10, <2>0, <3>1, <3>2, <3>3
  <2> QED BY <1>1, <2>1, <2>2
<1>13. \A b \in Bits : b \in both <=> b \in RotLeft(x, turn)
  <2> SUFFICES ASSUME NEW b \in Bits PROVE b \in both <=> b \in RotLeft(x, turn)
    OBVIOUS
  <2>1. CASE b \in 0..31
    BY <1>12, <2>1
  <2>2. CASE b \notin 0..31
    <3>1. b - 32 \in 0..31 /\ (b - 32) + 32 = b
      BY <2>2 DEF Bits
    <3> QED BY <1>12, <3>1
  <2> QED BY <2>1, <2>2
<1>14. both = RotLeft(x, turn)
  BY <1>8, <1>11, <1>13
<1> QED BY <1>2, <1>14 DEF both, left, crossed

-----------------------------------------------------------------------------
\* A round of Keccak-f, with the linear steps apart.
Linear(L) == Standard!Rho(Standard!Theta(L))
Round(L, r) == Standard!Iota(Standard!Chi(Standard!Pi(Linear(L))), r)

LEMMA LinearType ==
  ASSUME NEW L \in States
  PROVE  /\ Linear(L) \in States
         /\ \A k \in Words : Linear(L)[k] = RotLeft(Standard!Theta(L)[k], Rotations1[k + 1])
<1>1. Standard!Theta(L) \in States
  <2>1. 0 \in Words
    BY DEF Words
  <2> QED BY <2>1, ThetaAt
<1> DEFINE T == Standard!Theta(L)
<1>2. Linear(L) = [k \in Words |-> Standard!Rotl(T[k], Standard!Offset(k))]
  BY DEF Linear, Standard!Rho, Standard!Lanes, Words
<1> HIDE DEF T
<1>3. \A k \in Words : T[k] \in SUBSET Bits /\ Rotations1[k + 1] \in Nat
  BY <1>1 DEF T, States, Words, Rotations1
<1>4. \A k \in Words : /\ Linear(L)[k] = RotLeft(T[k], Rotations1[k + 1])
                       /\ Linear(L)[k] \in SUBSET Bits
  <2> SUFFICES ASSUME NEW k \in Words
               PROVE  /\ Linear(L)[k] = RotLeft(T[k], Rotations1[k + 1])
                      /\ Linear(L)[k] \in SUBSET Bits
    OBVIOUS
  <2>1. Linear(L)[k] = Standard!Rotl(T[k], Rotations1[k + 1])
    BY <1>2, OffsetIs
  <2>2. RotLeft(T[k], Rotations1[k + 1]) = Standard!Rotl(T[k], Rotations1[k + 1])
        /\ RotLeft(T[k], Rotations1[k + 1]) \in SUBSET Bits
    BY <1>3, RotWord
  <2> QED BY <2>1, <2>2
<1> QED BY <1>2, <1>4 DEF T, States

\* The words of a state before chi.
Prepared(S, w, L) == \A k \in Words : S[w[k]] = Comp(Flipped(k), Linear(L)[k])

\* theta and rho of the code, at the word of a lane.
LEMMA LinearStep ==
  ASSUME NEW S, NEW w, NEW columns, NEW rotations, NEW L \in States,
         Placement(w), Placed(S, w, L), ColumnsAt(columns, w),
         \A k \in Words : rotations[w[k] + 1] = Rotations1[k + 1]
  PROVE  Prepared(Rotated(ColumnsMixed(S, columns), rotations), w, L)
<1> SUFFICES ASSUME NEW k \in Words
             PROVE  Rotated(ColumnsMixed(S, columns), rotations)[w[k]] = Comp(Flipped(k), Linear(L)[k])
  BY DEF Prepared
<1> DEFINE C == ColumnsMixed(S, columns)
<1>1. C[w[k]] = Comp(Flipped(k), Standard!Theta(L)[k])
  BY ThetaStep
<1>2. w[k] \in Words
  BY DEF Placement
<1> HIDE DEF C
<1>3. Rotated(C, rotations)[w[k]] = RotLeft(Comp(Flipped(k), Standard!Theta(L)[k]), Rotations1[k + 1])
  BY <1>1, <1>2 DEF Rotated
<1>4. Standard!Theta(L)[k] \in SUBSET Bits /\ Rotations1[k + 1] \in Nat
  BY ThetaAt DEF States, Words, Rotations1
<1>5. Linear(L)[k] = RotLeft(Standard!Theta(L)[k], Rotations1[k + 1])
  BY LinearType
<1> QED BY <1>3, <1>4, <1>5, RotNot DEF Comp, C

-----------------------------------------------------------------------------
\* pi and chi: where a lane comes from, and that every lane comes from one.
LEMMA SourceIs ==
  /\ \A n, p \in 1..5 : /\ Source(n, p) \in Words /\ Target(n, p) \in Words
                        /\ Target(n, p) % 5 = p - 1 /\ Target(n, p) \div 5 = n - 1
  /\ \A n, p, m, q \in 1..5 : Source(n, p) = Source(m, q) => n = m /\ p = q
  /\ \A k \in Words : /\ (k \div 5) + 1 \in 1..5 /\ (k % 5) + 1 \in 1..5
                      /\ Target((k \div 5) + 1, (k % 5) + 1) = k
<1>1. \A n, p \in 1..5 : Source(n, p) = (((p - 1) + 3 * (n - 1)) % 5) + 5 * (p - 1)
  BY DEF Source, Standard!LaneAt
<1>2. \A n, p \in 1..5 : Source(n, p) \in Words /\ Source(n, p) \div 5 = p - 1
  BY <1>1 DEF Words
<1>3. ASSUME NEW n \in 1..5, NEW m \in 1..5, NEW p \in 1..5, Source(n, p) = Source(m, p)
      PROVE  n = m
  BY <1>1, <1>3
<1>4. ASSUME NEW n \in 1..5, NEW p \in 1..5, NEW m \in 1..5, NEW q \in 1..5, Source(n, p) = Source(m, q)
      PROVE  n = m /\ p = q
  <2>1. p - 1 = q - 1
    BY <1>2, <1>4
  <2>2. p = q
    BY <2>1
  <2> QED BY <1>3, <1>4, <2>2
<1>5. \A n, p \in 1..5 : /\ Target(n, p) \in Words
                         /\ Target(n, p) % 5 = p - 1 /\ Target(n, p) \div 5 = n - 1
  BY DEF Target, Words
<1>6. \A k \in Words : /\ (k \div 5) + 1 \in 1..5 /\ (k % 5) + 1 \in 1..5
                       /\ Target((k \div 5) + 1, (k % 5) + 1) = k
  BY DEF Target, Words
<1> QED BY <1>2, <1>4, <1>5, <1>6

LEMMA ChiPiAt ==
  ASSUME NEW M \in States
  PROVE  /\ Standard!Chi(Standard!Pi(M)) \in States
         /\ \A n, p \in 1..5 : Standard!Chi(Standard!Pi(M))[Target(n, p)] =
                Xor(M[Source(n, p)], M[Source(n, ((p + 1) % 5) + 1)] \ M[Source(n, (p % 5) + 1)])
<1> DEFINE P == Standard!Pi(M)
<1>1. P \in States /\ \A n, p \in 1..5 : P[Target(n, p)] = M[Source(n, p)]
  <2>1. P = [k \in Words |-> M[Standard!LaneAt((k % 5) + 3 * (k \div 5), k % 5)]]
    BY DEF Standard!Pi, Standard!Lanes, Standard!X, Standard!Y, Words
  <2> HIDE DEF P
  <2>2. \A k \in Words : Standard!LaneAt((k % 5) + 3 * (k \div 5), k % 5) \in Words
    BY DEF Standard!LaneAt, Words
  <2>3. P \in States
    BY <2>1, <2>2 DEF States
  <2>4. ASSUME NEW n \in 1..5, NEW p \in 1..5 PROVE P[Target(n, p)] = M[Source(n, p)]
    <3>1. Target(n, p) \in Words /\ Target(n, p) % 5 = p - 1 /\ Target(n, p) \div 5 = n - 1
      BY SourceIs
    <3>2. P[Target(n, p)] = M[Standard!LaneAt((Target(n, p) % 5) + 3 * (Target(n, p) \div 5), Target(n, p) % 5)]
      BY <2>1, <3>1
    <3> QED BY <3>1, <3>2 DEF Source
  <2> QED BY <2>3, <2>4
<1> HIDE DEF P
<1> DEFINE at(k, i) == Standard!LaneAt((k % 5) + i, k \div 5)
<1>2. Standard!Chi(P) = [k \in Words |-> Xor(P[k], P[at(k, 2)] \ P[at(k, 1)])]
  BY DEF Standard!Chi, Standard!Lanes, Standard!X, Standard!Y, Standard!Xor, Xor, Words
<1>3. \A k \in Words : at(k, 2) \in Words /\ at(k, 1) \in Words
  BY DEF Standard!LaneAt, Words
<1>4. ASSUME NEW n \in 1..5, NEW p \in 1..5
      PROVE  /\ at(Target(n, p), 2) = Target(n, ((p + 1) % 5) + 1)
             /\ at(Target(n, p), 1) = Target(n, (p % 5) + 1)
  <2>1. Target(n, p) % 5 = p - 1 /\ Target(n, p) \div 5 = n - 1
    BY SourceIs
  <2>2. /\ at(Target(n, p), 2) = (((p - 1) + 2) % 5) + 5 * ((n - 1) % 5)
        /\ at(Target(n, p), 1) = (((p - 1) + 1) % 5) + 5 * ((n - 1) % 5)
    BY <2>1 DEF Standard!LaneAt
  <2>3. (n - 1) % 5 = n - 1 /\ (p - 1) + 2 = p + 1 /\ (p - 1) + 1 = p
    OBVIOUS
  <2> HIDE DEF at
  <2> QED BY <2>2, <2>3 DEF Target
<1> HIDE DEF at
<1>5. Standard!Chi(P) \in States
  BY <1>1, <1>2, <1>3 DEF States, Xor
<1>6. ASSUME NEW n \in 1..5, NEW p \in 1..5
      PROVE  Standard!Chi(P)[Target(n, p)] =
                Xor(M[Source(n, p)], M[Source(n, ((p + 1) % 5) + 1)] \ M[Source(n, (p % 5) + 1)])
  <2>1. Target(n, p) \in Words
    BY SourceIs
  <2>2. Standard!Chi(P)[Target(n, p)] =
          Xor(P[Target(n, p)], P[Target(n, ((p + 1) % 5) + 1)] \ P[Target(n, (p % 5) + 1)])
    BY <1>2, <1>4, <2>1
  <2>3. ((p + 1) % 5) + 1 \in 1..5 /\ (p % 5) + 1 \in 1..5
    OBVIOUS
  <2> QED BY <1>1, <2>2, <2>3
<1> QED BY <1>5, <1>6 DEF P

\* chi of the code: a row of words that theta and rho have been done on.
LEMMA ChiStep ==
  ASSUME NEW L \in States, NEW n \in 1..5, NEW p \in 1..5, NEW a,
         \A q \in 1..5 : a[q] = Comp(Flipped(Source(n, q)), Linear(L)[Source(n, q)])
  PROVE  Nonlinear(n, a)[p] =
            Comp(Target(n, p) \in Inverted, Standard!Chi(Standard!Pi(Linear(L)))[Target(n, p)])
<1> DEFINE M == Linear(L)
           b == [q \in 1..5 |-> M[Source(n, q)]]
<1>1. M \in States
  BY LinearType
<1> HIDE DEF M
<1>2. b \in [1..5 -> SUBSET Bits]
  BY <1>1, SourceIs DEF States
<1>3. \A q \in 1..5 : a[q] = Comp(Flipped(Source(n, q)), b[q])
  BY DEF M
<1>4. ((p + 1) % 5) + 1 \in 1..5 /\ (p % 5) + 1 \in 1..5
  OBVIOUS
<1>5. Xor(b[p], b[((p + 1) % 5) + 1] \ b[(p % 5) + 1]) = Standard!Chi(Standard!Pi(M))[Target(n, p)]
  BY <1>1, <1>4, ChiPiAt
<1> HIDE DEF b
<1>6. RowReady(n, a, b)
  BY <1>3 DEF RowReady
<1>7. RowDone(n, a, b, p)
  BY <1>2, <1>6, ChiRow
<1> QED BY <1>5, <1>7 DEF M, RowDone

-----------------------------------------------------------------------------
\* The arrangements of the lanes in memory: their own places; those after the first
\* of two rounds of sha3.c; and, from a round to the next, where its rows were read.
Plain == [k \in Words |-> k]
Second == [k \in Words |-> Columns2[(k % 5) + 1][(k \div 5) + 1]]
RowsAt(rows, w) == \A n, p \in 1..5 : rows[n][p] = w[Source(n, p)]
Turned(w) == [k \in Words |-> w[Source((k \div 5) + 1, (k % 5) + 1)]]

LEMMA PlainTables ==
  /\ Placement(Plain) /\ Plain[0] = 0
  /\ ColumnsAt(Columns1, Plain) /\ RowsAt(Rows1, Plain)
  /\ \A k \in Words : Rotations1[Plain[k] + 1] = Rotations1[k + 1]
<1>1. Placement(Plain) /\ Plain[0] = 0
  BY DEF Placement, Plain, Words
<1>2. \A x \in 0..4 : \A y \in 1..5 : x + 5 * (y - 1) \in Words /\ Plain[x + 5 * (y - 1)] = x + 5 * (y - 1)
  BY DEF Plain, Words
<1>3. \A x \in 0..4 : \A y \in 1..5 : Columns1[x + 1][y] = x + 5 * (y - 1)
  BY DEF Columns1
<1>4. \A n, p \in 1..5 : Plain[Source(n, p)] = Source(n, p)
  BY SourceIs DEF Plain
<1>5. \A n, p \in 1..5 : Rows1[n][p] = Source(n, p)
  BY DEF Rows1, Source, Standard!LaneAt
<1> QED BY <1>1, <1>2, <1>3, <1>4, <1>5 DEF ColumnsAt, RowsAt, Plain

LEMMA SecondTables ==
  /\ Placement(Second) /\ Second[0] = 0 /\ Second = Turned(Plain)
  /\ ColumnsAt(Columns2, Second) /\ RowsAt(Rows2, Second)
  /\ \A k \in Words : Rotations2[Second[k] + 1] = Rotations1[k + 1]
<1>1. \A n, p \in 1..5 : Columns2[p][n] = Source(n, p)
  BY DEF Columns2, Source, Standard!LaneAt
<1>2. \A k \in Words : Second[k] = Source((k \div 5) + 1, (k % 5) + 1)
  BY <1>1, SourceIs DEF Second
<1>3. Second \in [Words -> Words]
  BY <1>2, SourceIs DEF Second
<1>4. ASSUME NEW k \in Words, NEW m \in Words, Second[k] = Second[m] PROVE k = m
  <2>1. (k \div 5) + 1 = (m \div 5) + 1 /\ (k % 5) + 1 = (m % 5) + 1
    BY <1>2, <1>4, SourceIs
  <2> QED BY <2>1, SourceIs
<1>5. Second = Turned(Plain)
  <2>1. \A k \in Words : Plain[Source((k \div 5) + 1, (k % 5) + 1)] = Source((k \div 5) + 1, (k % 5) + 1)
    BY SourceIs DEF Plain
  <2> QED BY <1>2, <2>1 DEF Turned, Second
<1>6. \A n, p \in 1..5 : Second[Target(n, p)] = Source(n, p)
  BY <1>1, SourceIs DEF Second
<1>7. ColumnsAt(Columns2, Second)
  <2> SUFFICES ASSUME NEW x \in 0..4, NEW y \in 1..5 PROVE Columns2[x + 1][y] = Second[x + 5 * (y - 1)]
    BY DEF ColumnsAt
  <2>1. x + 1 \in 1..5 /\ x + 5 * (y - 1) = Target(y, x + 1)
    BY DEF Target
  <2> QED BY <1>1, <1>6, <2>1
<1>8. \A n, p \in 1..5 : Rows2[n][p] = Second[Source(n, p)]
  <2>1. \A p \in 1..5 : Rows2[1][p] = Second[Source(1, p)]
    BY DEF Rows2, Second, Columns2, Source, Standard!LaneAt, Words
  <2>2. \A p \in 1..5 : Rows2[2][p] = Second[Source(2, p)]
    BY DEF Rows2, Second, Columns2, Source, Standard!LaneAt, Words
  <2>3. \A p \in 1..5 : Rows2[3][p] = Second[Source(3, p)]
    BY DEF Rows2, Second, Columns2, Source, Standard!LaneAt, Words
  <2>4. \A p \in 1..5 : Rows2[4][p] = Second[Source(4, p)]
    BY DEF Rows2, Second, Columns2, Source, Standard!LaneAt, Words
  <2>5. \A p \in 1..5 : Rows2[5][p] = Second[Source(5, p)]
    BY DEF Rows2, Second, Columns2, Source, Standard!LaneAt, Words
  <2> QED BY <2>1, <2>2, <2>3, <2>4, <2>5
<1>9. \A x \in 0..4 : \A y \in 0..4 : Rotations2[Columns2[x + 1][y + 1] + 1] = Rotations1[x + 5 * y + 1]
  BY DEF Rotations2, Rotations1, Columns2
<1>10. ASSUME NEW k \in Words PROVE Rotations2[Second[k] + 1] = Rotations1[k + 1]
  <2>1. k % 5 \in 0..4 /\ k \div 5 \in 0..4 /\ (k % 5) + 5 * (k \div 5) = k
    BY DEF Words
  <2> QED BY <1>9, <2>1 DEF Second
<1>11. Second[0] = 0
  BY DEF Second, Columns2, Words
<1> QED BY <1>3, <1>4, <1>5, <1>7, <1>8, <1>10, <1>11 DEF Placement, RowsAt

-----------------------------------------------------------------------------
\* The rows of a round that sha3.c does in place.
LEMMA RowsStep ==
  ASSUME NEW S, NEW w, NEW rows, NEW L \in States, NEW r \in 0..23,
         Placement(w), w[0] = 0, RowsAt(rows, w), Prepared(S, w, L)
  PROVE  /\ Placed(RowsDone(S, rows, r), Turned(w), Round(L, r))
         /\ Round(L, r) \in States
<1> DEFINE C == Standard!Chi(Standard!Pi(Linear(L)))
           out == [n \in 1..5 |-> Nonlinear(n, [p \in 1..5 |-> S[rows[n][p]]])]
           at(k) == CHOOSE at \in Indexes : rows[at[1]][at[2]] = k
           done == [k \in Words |-> out[at(k)[1]][at(k)[2]]]
<1>1. RowsDone(S, rows, r) = [done EXCEPT ![0] = Xor(@, RC[r + 1])]
  BY DEF RowsDone
<1>2. C \in States
  BY LinearType, ChiPiAt
<1>3. \A n, p \in 1..5 : out[n][p] = Comp(Target(n, p) \in Inverted, C[Target(n, p)])
  <2> SUFFICES ASSUME NEW n \in 1..5, NEW p \in 1..5
               PROVE  out[n][p] = Comp(Target(n, p) \in Inverted, C[Target(n, p)])
    OBVIOUS
  <2> DEFINE a == [q \in 1..5 |-> S[rows[n][q]]]
  <2>1. ASSUME NEW q \in 1..5 PROVE a[q] = Comp(Flipped(Source(n, q)), Linear(L)[Source(n, q)])
    BY SourceIs DEF Prepared, RowsAt
  <2>2. out[n] = Nonlinear(n, a)
    OBVIOUS
  <2> HIDE DEF a, out
  <2> QED BY <2>1, <2>2, ChiStep
<1> HIDE DEF out, C
<1>4. ASSUME NEW n \in 1..5, NEW p \in 1..5 PROVE at(rows[n][p]) = <<n, p>>
  <2>1. <<n, p>> \in Indexes /\ rows[<<n, p>>[1]][<<n, p>>[2]] = rows[n][p]
    BY DEF Indexes
  <2>2. ASSUME NEW i \in Indexes, rows[i[1]][i[2]] = rows[n][p] PROVE i = <<n, p>>
    <3>1. i[1] \in 1..5 /\ i[2] \in 1..5 /\ i = <<i[1], i[2]>>
      BY DEF Indexes
    <3>2. w[Source(i[1], i[2])] = w[Source(n, p)]
      BY <2>2, <3>1 DEF RowsAt
    <3>3. Source(i[1], i[2]) = Source(n, p)
      BY <3>1, <3>2, SourceIs DEF Placement
    <3> QED BY <3>1, <3>3, SourceIs
  <2> QED BY <2>1, <2>2
<1> HIDE DEF at
<1>5. \A n, p \in 1..5 : rows[n][p] \in Words /\ done[rows[n][p]] = Comp(Target(n, p) \in Inverted, C[Target(n, p)])
  <2> SUFFICES ASSUME NEW n \in 1..5, NEW p \in 1..5
               PROVE  rows[n][p] \in Words /\ done[rows[n][p]] = Comp(Target(n, p) \in Inverted, C[Target(n, p)])
    OBVIOUS
  <2>1. rows[n][p] \in Words
    BY SourceIs DEF RowsAt, Placement
  <2>2. done[rows[n][p]] = out[n][p]
    BY <1>4, <2>1
  <2> QED BY <1>3, <2>1, <2>2
<1> HIDE DEF done
<1>6. Round(L, r) = [C EXCEPT ![0] = Xor(@, RC[r + 1])]
  BY ConstantIs DEF Round, Standard!Iota, Standard!Xor, Xor, C
<1>7. \A k \in Words : Turned(w)[k] = rows[(k \div 5) + 1][(k % 5) + 1]
  BY SourceIs DEF Turned, RowsAt
<1>8. \A k \in Words : done[Turned(w)[k]] = Comp(k \in Inverted, C[k]) /\ Turned(w)[k] \in Words
  BY <1>5, <1>7, SourceIs
<1>9. ASSUME NEW k \in Words PROVE Turned(w)[k] = 0 <=> k = 0
  <2>1. Source((k \div 5) + 1, (k % 5) + 1) \in Words /\ 0 \in Words
    BY SourceIs DEF Words
  <2>2. Turned(w)[k] = 0 <=> Source((k \div 5) + 1, (k % 5) + 1) = 0
    BY <2>1 DEF Turned, Placement
  <2>3. Source(1, 1) = 0
    BY DEF Source, Standard!LaneAt
  <2>4. Source((k \div 5) + 1, (k % 5) + 1) = 0 <=> (k \div 5) + 1 = 1 /\ (k % 5) + 1 = 1
    BY <2>3, SourceIs
  <2>5. (k \div 5) + 1 = 1 /\ (k % 5) + 1 = 1 <=> k = 0
    BY DEF Words
  <2> QED BY <2>2, <2>4, <2>5
<1>10. RC[r + 1] \in SUBSET Bits
  BY DEF RC, Bits
<1>11. done \in [Words -> {done[k] : k \in Words}]
  BY DEF done
<1>12. 0 \in Words /\ 0 \notin Inverted
  BY DEF Words, Inverted
<1>13. Round(L, r) \in States
  <2>1. Xor(C[0], RC[r + 1]) \in SUBSET Bits
    BY <1>2, <1>10, <1>12 DEF States, Xor
  <2> QED BY <1>2, <1>6, <2>1 DEF States
<1>14. ASSUME NEW k \in Words
       PROVE  RowsDone(S, rows, r)[Turned(w)[k]] = Comp(k \in Inverted, Round(L, r)[k])
  <2>1. CASE k = 0
    <3>1. RowsDone(S, rows, r)[0] = Xor(done[0], RC[r + 1])
      BY <1>1, <1>11, <1>12
    <3>2. done[0] = C[0] /\ Turned(w)[0] = 0
      BY <1>8, <1>9, <1>12 DEF Comp
    <3>3. Round(L, r)[0] = Xor(C[0], RC[r + 1])
      BY <1>2, <1>6, <1>12 DEF States
    <3> QED BY <1>12, <2>1, <3>1, <3>2, <3>3 DEF Comp
  <2>2. CASE k # 0
    <3>1. RowsDone(S, rows, r)[Turned(w)[k]] = done[Turned(w)[k]]
      BY <1>1, <1>8, <1>9, <1>11, <2>2
    <3>2. Round(L, r)[k] = C[k]
      BY <1>2, <1>6, <2>2 DEF States
    <3> QED BY <1>8, <3>1, <3>2
  <2> QED BY <2>1, <2>2
<1> QED BY <1>13, <1>14 DEF Placed

\* After two rounds every word is moved back to its own place.
LEMMA MovedBack ==
  ASSUME NEW S
  PROVE  \A k \in Words : Moved(S)[k] = S[Turned(Second)[k]]
<1> DEFINE place(k) == Rows2[(k \div 5) + 1][(k % 5) + 1]
           first == Moves[1]
           second == Moves[2]
           from(cycle, k) == LET p == CHOOSE p \in 1..12 : cycle[p] = k IN cycle[(p % 12) + 1]
           in(cycle, k) == \E p \in 1..12 : cycle[p] = k
<1>1. \A k \in Words : Turned(Second)[k] = place(k)
  BY SourceIs, SecondTables DEF Turned, RowsAt
<1>2. /\ \A p, q \in 1..12 : first[p] = first[q] => p = q
      /\ \A p, q \in 1..12 : second[p] = second[q] => p = q
  BY DEF Moves
<1>3. /\ \A p \in 1..12 : from(first, first[p]) = first[(p % 12) + 1]
      /\ \A p \in 1..12 : from(second, second[p]) = second[(p % 12) + 1]
  <2> HIDE DEF first, second
  <2> QED BY <1>2
<1> HIDE DEF from
<1>4. /\ \A p \in 1..12 : place(first[p]) = first[(p % 12) + 1] /\ first[p] \in Words
      /\ \A p \in 1..12 : place(second[p]) = second[(p % 12) + 1] /\ second[p] \in Words
  BY DEF Rows2, Moves, Words
<1>5. ASSUME NEW k \in Words, ~in(first, k), ~in(second, k) PROVE k = 0 /\ place(k) = 0
  BY <1>5 DEF Moves, Rows2, Words
<1> HIDE DEF place, first, second
<1>6. ASSUME NEW k \in Words PROVE Moved(S)[k] = S[place(k)]
  <2>1. Moved(S)[k] = CASE in(first, k) -> S[from(first, k)]
                        [] in(second, k) -> S[from(second, k)]
                        [] OTHER -> S[k]
    BY DEF Moved, first, second, from
  <2>2. in(first, k) => from(first, k) = place(k)
    BY <1>3, <1>4
  <2>3. in(second, k) => from(second, k) = place(k)
    BY <1>3, <1>4
  <2>4. ~in(first, k) /\ ~in(second, k) => S[place(k)] = S[k]
    BY <1>5
  <2> HIDE DEF in
  <2>5. CASE in(first, k) /\ ~in(second, k)
    BY <2>1, <2>2, <2>5
  <2>6. CASE ~in(first, k) /\ in(second, k)
    BY <2>1, <2>3, <2>6
  <2>7. CASE ~in(first, k) /\ ~in(second, k)
    BY <2>1, <2>4, <2>7
  <2>8. ~(in(first, k) /\ in(second, k))
    BY DEF in, first, second, Moves
  <2> QED BY <2>5, <2>6, <2>7, <2>8
<1> QED BY <1>1, <1>6

-----------------------------------------------------------------------------
\* sha3_cm4.c: a slot of the buffer has one rotated lane, that of the row it is loaded for.
Turns(entry) ==
    /\ entry.word \in Words /\ entry.by.left \in 0..31
    /\ Rotations1[entry.word + 1] = entry.by.left + (IF entry.by.crossed THEN 32 ELSE 0)

LEMMA BufferOrder ==
  LET order == Pass01 \o Pass23 \o Pass4
  IN  /\ \A i \in 1..10 : order[i] = Pass01[i]
      /\ \A i \in 11..20 : order[i] = Pass23[i - 10]
      /\ \A i \in 21..25 : order[i] = Pass4[i - 20]
<1> DEFINE E == [word : Words, by : [left : 0..31, crossed : BOOLEAN]]
<1>1. Pass01 \in Seq(E) /\ Len(Pass01) = 10
  BY DEF Pass01, Shift, Words
<1>2. Pass23 \in Seq(E) /\ Len(Pass23) = 10
  BY DEF Pass23, Shift, Words
<1>3. Pass4 \in Seq(E) /\ Len(Pass4) = 5
  BY DEF Pass4, Shift, Words
<1> HIDE DEF E
<1> DEFINE half == Pass01 \o Pass23
<1>4. /\ half \in Seq(E) /\ Len(half) = 20
      /\ \A i \in 1..10 : half[i] = Pass01[i]
      /\ \A i \in 11..20 : half[i] = Pass23[i - 10]
  <2>1. /\ half \in Seq(E) /\ Len(half) = Len(Pass01) + Len(Pass23)
        /\ \A i \in 1..(Len(Pass01) + Len(Pass23)) :
              half[i] = IF i <= Len(Pass01) THEN Pass01[i] ELSE Pass23[i - Len(Pass01)]
    BY <1>1, <1>2, ConcatProperties
  <2> HIDE DEF half
  <2>2. Len(half) = 20
    BY <1>1, <1>2, <2>1
  <2>3. ASSUME NEW i \in 1..10 PROVE half[i] = Pass01[i]
    <3>1. i \in 1..(Len(Pass01) + Len(Pass23)) /\ i <= Len(Pass01)
      BY <1>1, <1>2
    <3> QED BY <2>1, <3>1
  <2>4. ASSUME NEW i \in 11..20 PROVE half[i] = Pass23[i - 10]
    <3>1. i \in 1..(Len(Pass01) + Len(Pass23)) /\ ~(i <= Len(Pass01)) /\ i - Len(Pass01) = i - 10
      BY <1>1, <1>2
    <3> QED BY <2>1, <3>1
  <2> QED BY <2>1, <2>2, <2>3, <2>4
<1> HIDE DEF half
<1> DEFINE all == half \o Pass4
<1>5. /\ \A i \in 1..20 : all[i] = half[i]
      /\ \A i \in 21..25 : all[i] = Pass4[i - 20]
  <2>1. \A i \in 1..(Len(half) + Len(Pass4)) :
              all[i] = IF i <= Len(half) THEN half[i] ELSE Pass4[i - Len(half)]
    BY <1>3, <1>4, ConcatProperties
  <2> HIDE DEF all
  <2>2. ASSUME NEW i \in 1..20 PROVE all[i] = half[i]
    <3>1. i \in 1..(Len(half) + Len(Pass4)) /\ i <= Len(half)
      BY <1>3, <1>4
    <3> QED BY <2>1, <3>1
  <2>3. ASSUME NEW i \in 21..25 PROVE all[i] = Pass4[i - 20]
    <3>1. i \in 1..(Len(half) + Len(Pass4)) /\ ~(i <= Len(half)) /\ i - Len(half) = i - 20
      BY <1>3, <1>4
    <3> QED BY <2>1, <3>1
  <2> QED BY <2>2, <2>3
<1>6. Pass01 \o Pass23 \o Pass4 = all
  BY DEF half
<1> HIDE DEF half, all
<1>7. ASSUME NEW i \in 1..10 PROVE all[i] = Pass01[i]
  <2>1. i \in 1..20
    OBVIOUS
  <2> QED BY <1>4, <1>5, <2>1
<1>8. ASSUME NEW i \in 11..20 PROVE all[i] = Pass23[i - 10]
  <2>1. i \in 1..20
    OBVIOUS
  <2> QED BY <1>4, <1>5, <2>1
<1>9. \A i \in 21..25 : all[i] = Pass4[i - 20]
  BY <1>4, <1>5
<1> QED BY <1>6, <1>7, <1>8, <1>9

LEMMA TurnsIs ==
  /\ \A i \in 1..10 : Turns(Pass01[i])
  /\ \A i \in 1..10 : Turns(Pass23[i])
  /\ \A i \in 1..5 : Turns(Pass4[i])
<1>1. \A i \in 1..10 : Turns(Pass01[i])
  <2>1. Turns(Pass01[1])
    <3>1. Pass01[1].word = 0 /\ Pass01[1].by.left = 0 /\ ~Pass01[1].by.crossed
      BY DEF Pass01, Shift
    <3>2. 0 \in Words /\ Rotations1[0 + 1] = 0
      BY DEF Words, Rotations1
    <3> QED BY <3>1, <3>2 DEF Turns
  <2>2. Turns(Pass01[2])
    <3>1. Pass01[2].word = 1 /\ Pass01[2].by.left = 1 /\ ~Pass01[2].by.crossed
      BY DEF Pass01, Shift
    <3>2. 1 \in Words /\ Rotations1[1 + 1] = 1
      BY DEF Words, Rotations1
    <3> QED BY <3>1, <3>2 DEF Turns
  <2>3. Turns(Pass01[3])
    <3>1. Pass01[3].word = 5 /\ Pass01[3].by.left = 4 /\ Pass01[3].by.crossed
      BY DEF Pass01, Shift
    <3>2. 5 \in Words /\ Rotations1[5 + 1] = 36
      BY DEF Words, Rotations1
    <3> QED BY <3>1, <3>2 DEF Turns
  <2>4. Turns(Pass01[4])
    <3>1. Pass01[4].word = 6 /\ Pass01[4].by.left = 12 /\ Pass01[4].by.crossed
      BY DEF Pass01, Shift
    <3>2. 6 \in Words /\ Rotations1[6 + 1] = 44
      BY DEF Words, Rotations1
    <3> QED BY <3>1, <3>2 DEF Turns
  <2>5. Turns(Pass01[5])
    <3>1. Pass01[5].word = 10 /\ Pass01[5].by.left = 3 /\ ~Pass01[5].by.crossed
      BY DEF Pass01, Shift
    <3>2. 10 \in Words /\ Rotations1[10 + 1] = 3
      BY DEF Words, Rotations1
    <3> QED BY <3>1, <3>2 DEF Turns
  <2>6. Turns(Pass01[6])
    <3>1. Pass01[6].word = 11 /\ Pass01[6].by.left = 10 /\ ~Pass01[6].by.crossed
      BY DEF Pass01, Shift
    <3>2. 11 \in Words /\ Rotations1[11 + 1] = 10
      BY DEF Words, Rotations1
    <3> QED BY <3>1, <3>2 DEF Turns
  <2>7. Turns(Pass01[7])
    <3>1. Pass01[7].word = 15 /\ Pass01[7].by.left = 9 /\ Pass01[7].by.crossed
      BY DEF Pass01, Shift
    <3>2. 15 \in Words /\ Rotations1[15 + 1] = 41
      BY DEF Words, Rotations1
    <3> QED BY <3>1, <3>2 DEF Turns
  <2>8. Turns(Pass01[8])
    <3>1. Pass01[8].word = 16 /\ Pass01[8].by.left = 13 /\ Pass01[8].by.crossed
      BY DEF Pass01, Shift
    <3>2. 16 \in Words /\ Rotations1[16 + 1] = 45
      BY DEF Words, Rotations1
    <3> QED BY <3>1, <3>2 DEF Turns
  <2>9. Turns(Pass01[9])
    <3>1. Pass01[9].word = 20 /\ Pass01[9].by.left = 18 /\ ~Pass01[9].by.crossed
      BY DEF Pass01, Shift
    <3>2. 20 \in Words /\ Rotations1[20 + 1] = 18
      BY DEF Words, Rotations1
    <3> QED BY <3>1, <3>2 DEF Turns
  <2>10. Turns(Pass01[10])
    <3>1. Pass01[10].word = 21 /\ Pass01[10].by.left = 2 /\ ~Pass01[10].by.crossed
      BY DEF Pass01, Shift
    <3>2. 21 \in Words /\ Rotations1[21 + 1] = 2
      BY DEF Words, Rotations1
    <3> QED BY <3>1, <3>2 DEF Turns
  <2> QED BY <2>1, <2>2, <2>3, <2>4, <2>5, <2>6, <2>7, <2>8, <2>9, <2>10
<1>2. \A i \in 1..10 : Turns(Pass23[i])
  <2>1. Turns(Pass23[1])
    <3>1. Pass23[1].word = 2 /\ Pass23[1].by.left = 30 /\ Pass23[1].by.crossed
      BY DEF Pass23, Shift
    <3>2. 2 \in Words /\ Rotations1[2 + 1] = 62
      BY DEF Words, Rotations1
    <3> QED BY <3>1, <3>2 DEF Turns
  <2>2. Turns(Pass23[2])
    <3>1. Pass23[2].word = 3 /\ Pass23[2].by.left = 28 /\ ~Pass23[2].by.crossed
      BY DEF Pass23, Shift
    <3>2. 3 \in Words /\ Rotations1[3 + 1] = 28
      BY DEF Words, Rotations1
    <3> QED BY <3>1, <3>2 DEF Turns
  <2>3. Turns(Pass23[3])
    <3>1. Pass23[3].word = 7 /\ Pass23[3].by.left = 6 /\ ~Pass23[3].by.crossed
      BY DEF Pass23, Shift
    <3>2. 7 \in Words /\ Rotations1[7 + 1] = 6
      BY DEF Words, Rotations1
    <3> QED BY <3>1, <3>2 DEF Turns
  <2>4. Turns(Pass23[4])
    <3>1. Pass23[4].word = 8 /\ Pass23[4].by.left = 23 /\ Pass23[4].by.crossed
      BY DEF Pass23, Shift
    <3>2. 8 \in Words /\ Rotations1[8 + 1] = 55
      BY DEF Words, Rotations1
    <3> QED BY <3>1, <3>2 DEF Turns
  <2>5. Turns(Pass23[5])
    <3>1. Pass23[5].word = 12 /\ Pass23[5].by.left = 11 /\ Pass23[5].by.crossed
      BY DEF Pass23, Shift
    <3>2. 12 \in Words /\ Rotations1[12 + 1] = 43
      BY DEF Words, Rotations1
    <3> QED BY <3>1, <3>2 DEF Turns
  <2>6. Turns(Pass23[6])
    <3>1. Pass23[6].word = 13 /\ Pass23[6].by.left = 25 /\ ~Pass23[6].by.crossed
      BY DEF Pass23, Shift
    <3>2. 13 \in Words /\ Rotations1[13 + 1] = 25
      BY DEF Words, Rotations1
    <3> QED BY <3>1, <3>2 DEF Turns
  <2>7. Turns(Pass23[7])
    <3>1. Pass23[7].word = 17 /\ Pass23[7].by.left = 15 /\ ~Pass23[7].by.crossed
      BY DEF Pass23, Shift
    <3>2. 17 \in Words /\ Rotations1[17 + 1] = 15
      BY DEF Words, Rotations1
    <3> QED BY <3>1, <3>2 DEF Turns
  <2>8. Turns(Pass23[8])
    <3>1. Pass23[8].word = 18 /\ Pass23[8].by.left = 21 /\ ~Pass23[8].by.crossed
      BY DEF Pass23, Shift
    <3>2. 18 \in Words /\ Rotations1[18 + 1] = 21
      BY DEF Words, Rotations1
    <3> QED BY <3>1, <3>2 DEF Turns
  <2>9. Turns(Pass23[9])
    <3>1. Pass23[9].word = 22 /\ Pass23[9].by.left = 29 /\ Pass23[9].by.crossed
      BY DEF Pass23, Shift
    <3>2. 22 \in Words /\ Rotations1[22 + 1] = 61
      BY DEF Words, Rotations1
    <3> QED BY <3>1, <3>2 DEF Turns
  <2>10. Turns(Pass23[10])
    <3>1. Pass23[10].word = 23 /\ Pass23[10].by.left = 24 /\ Pass23[10].by.crossed
      BY DEF Pass23, Shift
    <3>2. 23 \in Words /\ Rotations1[23 + 1] = 56
      BY DEF Words, Rotations1
    <3> QED BY <3>1, <3>2 DEF Turns
  <2> QED BY <2>1, <2>2, <2>3, <2>4, <2>5, <2>6, <2>7, <2>8, <2>9, <2>10
<1>3. \A i \in 1..5 : Turns(Pass4[i])
  <2>1. Turns(Pass4[1])
    <3>1. Pass4[1].word = 4 /\ Pass4[1].by.left = 27 /\ ~Pass4[1].by.crossed
      BY DEF Pass4, Shift
    <3>2. 4 \in Words /\ Rotations1[4 + 1] = 27
      BY DEF Words, Rotations1
    <3> QED BY <3>1, <3>2 DEF Turns
  <2>2. Turns(Pass4[2])
    <3>1. Pass4[2].word = 9 /\ Pass4[2].by.left = 20 /\ ~Pass4[2].by.crossed
      BY DEF Pass4, Shift
    <3>2. 9 \in Words /\ Rotations1[9 + 1] = 20
      BY DEF Words, Rotations1
    <3> QED BY <3>1, <3>2 DEF Turns
  <2>3. Turns(Pass4[3])
    <3>1. Pass4[3].word = 14 /\ Pass4[3].by.left = 7 /\ Pass4[3].by.crossed
      BY DEF Pass4, Shift
    <3>2. 14 \in Words /\ Rotations1[14 + 1] = 39
      BY DEF Words, Rotations1
    <3> QED BY <3>1, <3>2 DEF Turns
  <2>4. Turns(Pass4[4])
    <3>1. Pass4[4].word = 19 /\ Pass4[4].by.left = 8 /\ ~Pass4[4].by.crossed
      BY DEF Pass4, Shift
    <3>2. 19 \in Words /\ Rotations1[19 + 1] = 8
      BY DEF Words, Rotations1
    <3> QED BY <3>1, <3>2 DEF Turns
  <2>5. Turns(Pass4[5])
    <3>1. Pass4[5].word = 24 /\ Pass4[5].by.left = 14 /\ ~Pass4[5].by.crossed
      BY DEF Pass4, Shift
    <3>2. 24 \in Words /\ Rotations1[24 + 1] = 14
      BY DEF Words, Rotations1
    <3> QED BY <3>1, <3>2 DEF Turns
  <2> QED BY <2>1, <2>2, <2>3, <2>4, <2>5
<1> QED BY <1>1, <1>2, <1>3

LEMMA BufferStep ==
  ASSUME NEW S, NEW L \in States, Prepared(Rotated(S, Rotations1), Plain, L),
         \A k \in Words : S[k] \in SUBSET Bits
  PROVE  \A n, p \in 1..5 :
            Buffer(S)[Loads[n][p]] = Comp(Flipped(Source(n, p)), Linear(L)[Source(n, p)])
<1> DEFINE order == Pass01 \o Pass23 \o Pass4
<1>1. Buffer(S) = [slot \in Words |-> ShiftedHalves(S[order[slot + 1].word], order[slot + 1].by)]
  BY DEF Buffer
<1>2. /\ \A i \in 1..10 : order[i] = Pass01[i]
      /\ \A i \in 11..20 : order[i] = Pass23[i - 10]
      /\ \A i \in 21..25 : order[i] = Pass4[i - 20]
  BY BufferOrder
<1> HIDE DEF order
<1>3. ASSUME NEW slot \in Words PROVE Turns(order[slot + 1])
  <2>1. slot + 1 \in 1..10 \/ slot + 1 \in 11..20 \/ slot + 1 \in 21..25
    BY DEF Words
  <2>2. CASE slot + 1 \in 1..10
    BY <1>2, <2>2, TurnsIs
  <2>3. CASE slot + 1 \in 11..20
    <3>1. (slot + 1) - 10 \in 1..10
      BY <2>3 DEF Words
    <3> QED BY <1>2, <2>3, <3>1, TurnsIs
  <2>4. CASE slot + 1 \in 21..25
    <3>1. (slot + 1) - 20 \in 1..5
      BY <2>4 DEF Words
    <3> QED BY <1>2, <2>4, <3>1, TurnsIs
  <2> QED BY <2>1, <2>2, <2>3, <2>4
<1>4. ASSUME NEW slot \in Words
      PROVE  /\ order[slot + 1].word \in Words
             /\ Buffer(S)[slot] = RotLeft(S[order[slot + 1].word], Rotations1[order[slot + 1].word + 1])
  <2> DEFINE e == order[slot + 1]
  <2>1. /\ e.word \in Words /\ e.by.left \in 0..31
        /\ Rotations1[e.word + 1] = e.by.left + (IF e.by.crossed THEN 32 ELSE 0)
    BY <1>3 DEF Turns
  <2>2. Buffer(S)[slot] = ShiftedHalves(S[e.word], e.by)
    BY <1>1
  <2> HIDE DEF e
  <2>3. S[e.word] \in SUBSET Bits
    BY <2>1
  <2>4. ShiftedHalves(S[e.word], e.by) = RotLeft(S[e.word], Rotations1[e.word + 1])
    BY <2>1, <2>3, HalvesRotate
  <2> QED BY <2>1, <2>2, <2>4 DEF e
<1>5. order[1].word = 0 /\ order[4].word = 6 /\ order[15].word = 12 /\ order[18].word = 18 /\ order[25].word = 24
  BY <1>2 DEF Pass01, Pass23, Pass4
<1>6. order[12].word = 3 /\ order[22].word = 9 /\ order[5].word = 10 /\ order[8].word = 16 /\ order[19].word = 22
  BY <1>2 DEF Pass01, Pass23, Pass4
<1>7. order[2].word = 1 /\ order[13].word = 7 /\ order[16].word = 13 /\ order[24].word = 19 /\ order[9].word = 20
  BY <1>2 DEF Pass01, Pass23, Pass4
<1>8. order[21].word = 4 /\ order[3].word = 5 /\ order[6].word = 11 /\ order[17].word = 17 /\ order[20].word = 23
  BY <1>2 DEF Pass01, Pass23, Pass4
<1>9. order[11].word = 2 /\ order[14].word = 8 /\ order[23].word = 14 /\ order[7].word = 15 /\ order[10].word = 21
  BY <1>2 DEF Pass01, Pass23, Pass4
<1>10. ASSUME NEW n \in 1..5, NEW p \in 1..5
       PROVE  Loads[n][p] \in Words /\ order[Loads[n][p] + 1].word = Source(n, p)
  <2>1. CASE n = 1
    <3>1. Loads[1][1] = 0 /\ Loads[1][2] = 3 /\ Loads[1][3] = 14 /\ Loads[1][4] = 17 /\ Loads[1][5] = 24
      BY DEF Loads
    <3>2. Source(1, 1) = 0 /\ Source(1, 2) = 6 /\ Source(1, 3) = 12 /\ Source(1, 4) = 18 /\ Source(1, 5) = 24
      BY DEF Source, Standard!LaneAt
    <3> QED BY <1>5, <2>1, <3>1, <3>2 DEF Words
  <2>2. CASE n = 2
    <3>1. Loads[2][1] = 11 /\ Loads[2][2] = 21 /\ Loads[2][3] = 4 /\ Loads[2][4] = 7 /\ Loads[2][5] = 18
      BY DEF Loads
    <3>2. Source(2, 1) = 3 /\ Source(2, 2) = 9 /\ Source(2, 3) = 10 /\ Source(2, 4) = 16 /\ Source(2, 5) = 22
      BY DEF Source, Standard!LaneAt
    <3> QED BY <1>6, <2>2, <3>1, <3>2 DEF Words
  <2>3. CASE n = 3
    <3>1. Loads[3][1] = 1 /\ Loads[3][2] = 12 /\ Loads[3][3] = 15 /\ Loads[3][4] = 23 /\ Loads[3][5] = 8
      BY DEF Loads
    <3>2. Source(3, 1) = 1 /\ Source(3, 2) = 7 /\ Source(3, 3) = 13 /\ Source(3, 4) = 19 /\ Source(3, 5) = 20
      BY DEF Source, Standard!LaneAt
    <3> QED BY <1>7, <2>3, <3>1, <3>2 DEF Words
  <2>4. CASE n = 4
    <3>1. Loads[4][1] = 20 /\ Loads[4][2] = 2 /\ Loads[4][3] = 5 /\ Loads[4][4] = 16 /\ Loads[4][5] = 19
      BY DEF Loads
    <3>2. Source(4, 1) = 4 /\ Source(4, 2) = 5 /\ Source(4, 3) = 11 /\ Source(4, 4) = 17 /\ Source(4, 5) = 23
      BY DEF Source, Standard!LaneAt
    <3> QED BY <1>8, <2>4, <3>1, <3>2 DEF Words
  <2>5. CASE n = 5
    <3>1. Loads[5][1] = 10 /\ Loads[5][2] = 13 /\ Loads[5][3] = 22 /\ Loads[5][4] = 6 /\ Loads[5][5] = 9
      BY DEF Loads
    <3>2. Source(5, 1) = 2 /\ Source(5, 2) = 8 /\ Source(5, 3) = 14 /\ Source(5, 4) = 15 /\ Source(5, 5) = 21
      BY DEF Source, Standard!LaneAt
    <3> QED BY <1>9, <2>5, <3>1, <3>2 DEF Words
  <2> QED BY <2>1, <2>2, <2>3, <2>4, <2>5
<1>11. ASSUME NEW n \in 1..5, NEW p \in 1..5
       PROVE  Buffer(S)[Loads[n][p]] = Comp(Flipped(Source(n, p)), Linear(L)[Source(n, p)])
  <2>1. Source(n, p) \in Words
    BY SourceIs
  <2>2. Buffer(S)[Loads[n][p]] = RotLeft(S[Source(n, p)], Rotations1[Source(n, p) + 1])
    BY <1>4, <1>10
  <2>3. Rotated(S, Rotations1)[Plain[Source(n, p)]] = RotLeft(S[Source(n, p)], Rotations1[Source(n, p) + 1])
    BY <2>1 DEF Rotated, Plain
  <2> QED BY <2>1, <2>2, <2>3 DEF Prepared
<1> QED BY <1>11

\* A round of the Cortex-M4.
LEMMA RoundCm4Step ==
  ASSUME NEW S, NEW L \in States, NEW r \in 0..23, Placed(S, Plain, L)
  PROVE  /\ Placed(WrittenBack(Buffer(ColumnsMixed(S, Columns1)), r), Plain, Round(L, r))
         /\ Round(L, r) \in States
<1> DEFINE M == ColumnsMixed(S, Columns1)
           buffer == Buffer(M)
           C == Standard!Chi(Standard!Pi(Linear(L)))
           out == [n \in 1..5 |-> Nonlinear(n, [p \in 1..5 |-> buffer[Loads[n][p]]])]
           written == [k \in Words |-> out[(k \div 5) + 1][(k % 5) + 1]]
<1>1. WrittenBack(buffer, r) = [written EXCEPT ![0] = Xor(@, RC[r + 1])]
  BY DEF WrittenBack
<1>2. C \in States
  BY LinearType, ChiPiAt
<1>3. Prepared(Rotated(M, Rotations1), Plain, L)
  BY PlainTables, LinearStep
<1>4. \A k \in Words : M[k] \in SUBSET Bits
  <2> SUFFICES ASSUME NEW k \in Words PROVE M[k] \in SUBSET Bits
    OBVIOUS
  <2>1. M[Plain[k]] = Comp(Flipped(k), Standard!Theta(L)[k])
    BY PlainTables, ThetaStep
  <2>2. Standard!Theta(L)[k] \in SUBSET Bits
    BY ThetaAt DEF States
  <2> QED BY <2>1, <2>2 DEF Plain, Comp, Not
<1> HIDE DEF M
<1>5. \A n, p \in 1..5 : buffer[Loads[n][p]] = Comp(Flipped(Source(n, p)), Linear(L)[Source(n, p)])
  BY <1>3, <1>4, BufferStep
<1> HIDE DEF buffer
<1>6. \A n, p \in 1..5 : out[n][p] = Comp(Target(n, p) \in Inverted, C[Target(n, p)])
  <2> SUFFICES ASSUME NEW n \in 1..5, NEW p \in 1..5
               PROVE  out[n][p] = Comp(Target(n, p) \in Inverted, C[Target(n, p)])
    OBVIOUS
  <2> DEFINE a == [q \in 1..5 |-> buffer[Loads[n][q]]]
  <2>1. ASSUME NEW q \in 1..5 PROVE a[q] = Comp(Flipped(Source(n, q)), Linear(L)[Source(n, q)])
    BY <1>5
  <2>2. out[n] = Nonlinear(n, a)
    OBVIOUS
  <2> HIDE DEF a, out
  <2> QED BY <2>1, <2>2, ChiStep
<1> HIDE DEF out, C
<1>7. \A k \in Words : written[k] = Comp(k \in Inverted, C[k])
  BY <1>6, SourceIs
<1>8. written \in [Words -> {written[k] : k \in Words}]
  OBVIOUS
<1> HIDE DEF written
<1>9. Round(L, r) = [C EXCEPT ![0] = Xor(@, RC[r + 1])]
  BY ConstantIs DEF Round, Standard!Iota, Standard!Xor, Xor, C
<1>10. RC[r + 1] \in SUBSET Bits
  BY DEF RC, Bits
<1>11. 0 \in Words /\ 0 \notin Inverted
  BY DEF Words, Inverted
<1>12. Round(L, r) \in States
  <2>1. Xor(C[0], RC[r + 1]) \in SUBSET Bits
    BY <1>2, <1>10, <1>11 DEF States, Xor
  <2> QED BY <1>2, <1>9, <2>1 DEF States
<1>13. ASSUME NEW k \in Words
       PROVE  WrittenBack(buffer, r)[Plain[k]] = Comp(k \in Inverted, Round(L, r)[k])
  <2>1. Plain[k] = k
    BY DEF Plain
  <2>2. CASE k = 0
    <3>1. WrittenBack(buffer, r)[0] = Xor(written[0], RC[r + 1])
      BY <1>1, <1>8, <1>11
    <3>2. written[0] = C[0]
      BY <1>7, <1>11 DEF Comp
    <3>3. Round(L, r)[0] = Xor(C[0], RC[r + 1])
      BY <1>2, <1>9, <1>11 DEF States
    <3> QED BY <1>11, <2>1, <2>2, <3>1, <3>2, <3>3 DEF Comp
  <2>3. CASE k # 0
    <3>1. WrittenBack(buffer, r)[k] = written[k]
      BY <1>1, <1>8, <2>3
    <3>2. Round(L, r)[k] = C[k]
      BY <1>2, <1>9, <2>3 DEF States
    <3> QED BY <1>7, <2>1, <3>1, <3>2
  <2> QED BY <2>2, <2>3
<1> QED BY <1>12, <1>13 DEF Placed, buffer, M

-----------------------------------------------------------------------------
\* Where the lanes of the state of Keccak-f are, from one step of the code to the next.
InMemory(L) ==
    IF stage = "second" THEN Placed(A, Second, L)
    ELSE IF stage \in {"invert", "done"} THEN \A k \in Words : A[k] = L[k]
    ELSE Placed(A, Plain, L)

PermutationInv ==
    /\ stage \in {"invert", "first", "second", "loop", "revert", "done"}
    /\ stage = "invert" => j = 0
    /\ stage \in {"first", "second"} => j \in 0..22 /\ j % 2 = 0
    /\ stage = "loop" => j \in 0..23
    /\ stage \in {"revert", "done"} => j = 24
    /\ \E L \in States : InMemory(L)

\* The state of Keccak-f is the one that is in memory.
Lanes == [k \in Words |-> Lane(k)]

LEMMA LanesAre ==
  ASSUME NEW L \in States, InMemory(L)
  PROVE  Lanes = L
<1> SUFFICES ASSUME NEW k \in Words PROVE Lane(k) = L[k]
  BY DEF Lanes, States
<1>1. L[k] \in SUBSET Bits
  BY DEF States
<1>2. Not(Not(L[k])) = L[k]
  BY <1>1 DEF Not
<1>3. CASE stage = "second"
  <2>1. A[Columns2[(k % 5) + 1][(k \div 5) + 1]] = Comp(k \in Inverted, L[k])
    BY <1>3 DEF InMemory, Placed, Second
  <2> QED BY <1>2, <1>3, <2>1 DEF Lane, Comp
<1>4. CASE stage \in {"invert", "done"}
  BY <1>4 DEF InMemory, Lane
<1>5. CASE stage # "second" /\ stage \notin {"invert", "done"}
  <2>1. A[k] = Comp(k \in Inverted, L[k])
    BY <1>5 DEF InMemory, Placed, Plain
  <2> QED BY <1>2, <1>5, <2>1 DEF Lane, Comp
<1> QED BY <1>3, <1>4, <1>5

\* The same of the next state.
LEMMA LanesNext ==
  ASSUME NEW L \in States, InMemory(L)'
  PROVE  Lanes' = L
<1> SUFFICES ASSUME NEW k \in Words PROVE Lane(k)' = L[k]
  BY DEF Lanes, States
<1>1. L[k] \in SUBSET Bits
  BY DEF States
<1>2. Not(Not(L[k])) = L[k]
  BY <1>1 DEF Not
<1>3. CASE stage' = "second"
  <2>1. A'[Columns2[(k % 5) + 1][(k \div 5) + 1]] = Comp(k \in Inverted, L[k])
    BY <1>3 DEF InMemory, Placed, Second
  <2> QED BY <1>2, <1>3, <2>1 DEF Lane, Comp
<1>4. CASE stage' \in {"invert", "done"}
  BY <1>4 DEF InMemory, Lane
<1>5. CASE stage' # "second" /\ stage' \notin {"invert", "done"}
  <2>1. A'[k] = Comp(k \in Inverted, L[k])
    BY <1>5 DEF InMemory, Placed, Plain
  <2> QED BY <1>2, <1>5, <2>1 DEF Lane, Comp
<1> QED BY <1>3, <1>4, <1>5

LEMMA StandardRound ==
  ASSUME NEW L \in States, NEW r \in 0..23, Lanes = L, Lanes' = Round(L, r),
         r = (IF stage = "second" THEN j + 1 ELSE j),
         (IF stage = "second" THEN j + 1 ELSE j)' = r + 1
  PROVE  Standard!Round
BY DEF Standard!Round, Lanes, Round, Linear

LEMMA StandardStutters ==
  ASSUME Lanes' = Lanes,
         (IF stage = "second" THEN j + 1 ELSE j)' = (IF stage = "second" THEN j + 1 ELSE j)
  PROVE  UNCHANGED Standard!vars
BY DEF Standard!vars, Lanes

-----------------------------------------------------------------------------
\* Each step keeps PermutationInv, and is a round or changes nothing in the state.
LEMMA InvertStep ==
  ASSUME PermutationInv, Invert
  PROVE  PermutationInv' /\ UNCHANGED Standard!vars
<1>1. PICK L \in States : InMemory(L)
  BY DEF PermutationInv
<1>2. stage = "invert" /\ j = 0 /\ j' = j /\ stage' \in {"first", "loop"}
  BY DEF PermutationInv, Invert
<1>3. ASSUME NEW k \in Words PROVE A'[Plain[k]] = Comp(k \in Inverted, L[k])
  BY <1>1, <1>2 DEF InMemory, Invert, InvertedWords, Plain, Comp
<1>4. InMemory(L)'
  BY <1>2, <1>3 DEF InMemory, Placed
<1>5. Lanes' = Lanes
  BY <1>1, <1>4, LanesAre, LanesNext
<1>6. PermutationInv'
  BY <1>2, <1>4 DEF PermutationInv
<1> QED BY <1>2, <1>5, <1>6, StandardStutters

LEMMA RevertStep ==
  ASSUME PermutationInv, Revert
  PROVE  PermutationInv' /\ UNCHANGED Standard!vars
<1>1. PICK L \in States : InMemory(L)
  BY DEF PermutationInv
<1>2. stage = "revert" /\ j = 24 /\ j' = j /\ stage' = "done"
  BY DEF PermutationInv, Revert
<1>3. ASSUME NEW k \in Words PROVE A'[k] = L[k]
  <2>1. A[k] = Comp(k \in Inverted, L[k])
    BY <1>1, <1>2 DEF InMemory, Placed, Plain
  <2>2. Not(Not(L[k])) = L[k]
    BY DEF States, Not
  <2> QED BY <2>1, <2>2 DEF Revert, InvertedWords, Comp
<1>4. InMemory(L)'
  BY <1>2, <1>3 DEF InMemory
<1>5. Lanes' = Lanes
  BY <1>1, <1>4, LanesAre, LanesNext
<1>6. PermutationInv'
  BY <1>2, <1>4 DEF PermutationInv
<1> QED BY <1>2, <1>5, <1>6, StandardStutters

LEMMA FirstRoundStep ==
  ASSUME PermutationInv, FirstRound
  PROVE  PermutationInv' /\ Standard!Round
<1>1. PICK L \in States : InMemory(L)
  BY DEF PermutationInv
<1>2. stage = "first" /\ j \in 0..22 /\ j % 2 = 0 /\ j' = j /\ stage' = "second" /\ j \in 0..23
  BY DEF PermutationInv, FirstRound
<1>3. Placed(A, Plain, L)
  BY <1>1, <1>2 DEF InMemory
<1> DEFINE S == Rotated(ColumnsMixed(A, Columns1), Rotations1)
<1>4. Prepared(S, Plain, L)
  BY <1>3, PlainTables, LinearStep
<1> HIDE DEF S
<1>5. Placed(RowsDone(S, Rows1, j), Turned(Plain), Round(L, j)) /\ Round(L, j) \in States
  BY <1>2, <1>4, PlainTables, RowsStep
<1>6. PICK M \in States : M = Round(L, j)
  BY <1>5
<1>7. Placed(A', Second, M)
  BY <1>5, <1>6, SecondTables DEF FirstRound, S
<1>8. InMemory(M)'
  BY <1>2, <1>7 DEF InMemory
<1>9. Lanes = L /\ Lanes' = M
  BY <1>1, <1>8, LanesAre, LanesNext
<1>10. PermutationInv'
  BY <1>2, <1>8 DEF PermutationInv
<1> QED BY <1>2, <1>6, <1>9, <1>10, StandardRound

LEMMA SecondRoundStep ==
  ASSUME PermutationInv, SecondRound
  PROVE  PermutationInv' /\ Standard!Round
<1>1. PICK L \in States : InMemory(L)
  BY DEF PermutationInv
<1>2. /\ stage = "second" /\ j \in 0..22 /\ j % 2 = 0 /\ j' = j + 2 /\ j + 1 \in 0..23
      /\ stage' = IF j' < 24 THEN "first" ELSE "revert"
  BY DEF PermutationInv, SecondRound
<1>3. Placed(A, Second, L)
  BY <1>1, <1>2 DEF InMemory
<1> DEFINE S == Rotated(ColumnsMixed(A, Columns2), Rotations2)
           T == RowsDone(S, Rows2, j + 1)
<1>4. Prepared(S, Second, L)
  BY <1>3, SecondTables, LinearStep
<1> HIDE DEF S
<1>5. Placed(T, Turned(Second), Round(L, j + 1)) /\ Round(L, j + 1) \in States
  BY <1>2, <1>4, SecondTables, RowsStep
<1> HIDE DEF T
<1>6. PICK M \in States : M = Round(L, j + 1)
  BY <1>5
<1>7. Placed(A', Plain, M)
  <2>1. A' = Moved(T)
    BY DEF SecondRound, S, T
  <2> QED BY <1>5, <1>6, <2>1, MovedBack DEF Placed, Plain
<1>8. stage' \in {"first", "revert"}
  BY <1>2
<1>9. InMemory(M)'
  BY <1>7, <1>8 DEF InMemory
<1>10. Lanes = L /\ Lanes' = M
  BY <1>1, <1>9, LanesAre, LanesNext
<1>11. stage' = "first" => j' \in 0..22 /\ j' % 2 = 0
  BY <1>2
<1>12. stage' = "revert" => j' = 24
  BY <1>2
<1>13. PermutationInv'
  BY <1>8, <1>9, <1>11, <1>12 DEF PermutationInv
<1>14. (IF stage = "second" THEN j + 1 ELSE j)' = (j + 1) + 1
  BY <1>2, <1>8
<1> QED BY <1>2, <1>6, <1>10, <1>13, <1>14, StandardRound

LEMMA RoundCm4IsRound ==
  ASSUME PermutationInv, RoundCm4
  PROVE  PermutationInv' /\ Standard!Round
<1>1. PICK L \in States : InMemory(L)
  BY DEF PermutationInv
<1>2. /\ stage = "loop" /\ j \in 0..23 /\ j' = j + 1
      /\ stage' = IF j' < 24 THEN "loop" ELSE "revert"
  BY DEF PermutationInv, RoundCm4
<1>3. Placed(A, Plain, L)
  BY <1>1, <1>2 DEF InMemory
<1>4. Placed(A', Plain, Round(L, j)) /\ Round(L, j) \in States
  BY <1>2, <1>3, RoundCm4Step DEF RoundCm4
<1>5. PICK M \in States : M = Round(L, j)
  BY <1>4
<1>6. stage' \in {"loop", "revert"}
  BY <1>2
<1>7. InMemory(M)'
  BY <1>4, <1>5, <1>6 DEF InMemory
<1>8. Lanes = L /\ Lanes' = M
  BY <1>1, <1>7, LanesAre, LanesNext
<1>9. (stage' = "loop" => j' \in 0..23) /\ (stage' = "revert" => j' = 24)
  BY <1>2
<1>10. PermutationInv'
  BY <1>6, <1>7, <1>9 DEF PermutationInv
<1> QED BY <1>2, <1>5, <1>6, <1>8, <1>10, StandardRound

LEMMA PermutationStarts ==
  ASSUME A \in Blocks, j = 0, stage = "invert"
  PROVE  PermutationInv /\ Standard!Init
<1>1. A \in States
  BY BlocksAssumption DEF States
<1>2. InMemory(A)
  BY DEF InMemory
<1>3. Lanes = A
  BY <1>1, <1>2, LanesAre
<1> QED BY <1>1, <1>2, <1>3 DEF PermutationInv, Standard!Init, Lanes

LEMMA PermutationSteps ==
  ASSUME PermutationInv, PermutationNext
  PROVE  PermutationInv' /\ [Standard!Round]_(Standard!vars)
BY InvertStep, RevertStep, FirstRoundStep, SecondRoundStep, RoundCm4IsRound DEF PermutationNext

LEMMA PermutationRests ==
  ASSUME PermutationInv, UNCHANGED permuting
  PROVE  PermutationInv' /\ UNCHANGED Standard!vars
<1>1. A' = A /\ j' = j /\ stage' = stage
  BY DEF permuting
<1>2. PermutationInv'
  BY <1>1 DEF PermutationInv, InMemory
<1> QED BY <1>1, <1>2 DEF Standard!vars, Lane

-----------------------------------------------------------------------------
\* The permutation of both builds is Keccak-f[1600], for every state it is given: each
\* round of process_block (sha3.c) and of its Cortex-M4 version (sha3_cm4.c) is the
\* standard's round of the lanes that are in memory, whatever the lanes are.
THEOREM PermutationIsKeccak == HashingSpec => IsKeccak
<1>1. HashingInit => PermutationInv /\ Standard!Init
  <2> SUFFICES ASSUME HashingInit PROVE PermutationInv /\ Standard!Init
    OBVIOUS
  <2>1. (CHOOSE S \in Blocks : TRUE) \in Blocks
    BY BlocksAssumption
  <2>2. A \in Blocks /\ j = 0 /\ stage = "invert"
    BY <2>1 DEF HashingInit, PermutationInit
  <2> QED BY <2>2, PermutationStarts
<1>2. PermutationInv /\ [ContextStep \/ PermutationStep]_<<vars, permuting>>
        => PermutationInv' /\ [Standard!Round]_(Standard!vars)
  <2> SUFFICES ASSUME PermutationInv, [ContextStep \/ PermutationStep]_<<vars, permuting>>
               PROVE  PermutationInv' /\ [Standard!Round]_(Standard!vars)
    OBVIOUS
  <2>1. CASE PermutationStep
    BY <2>1, PermutationSteps DEF PermutationStep
  <2>2. CASE ~PermutationStep
    <3>1. UNCHANGED permuting
      BY <2>2 DEF ContextStep
    <3> QED BY <3>1, PermutationRests
  <2> QED BY <2>1, <2>2
<1> QED BY <1>1, <1>2, PTL DEF HashingSpec, IsKeccak, Standard!Spec

-----------------------------------------------------------------------------
(***************************************************************************)
(* The protocols, for every curve order, any users and hashed messages,    *)
(* and calls in any number: the key pair of a seed is one, both sides of   *)
(* an exchange get the same secret, and both verifiers answer what the     *)
(* signature equation says.                                                *)
(*                                                                         *)
(* SHAKE256 only learns (Grows), so what a call returned stays the         *)
(* function of its inputs that it was.  ProtocolsInv says which function   *)
(* of the oracle each key, shared secret, signature and verdict is; the    *)
(* properties then follow by arithmetic modulo N.                          *)
(***************************************************************************)

\* SHAKE256 has given scalars.
OracleInv == \A i \in DOMAIN oracle : oracle[i] \in Scalars

\* what keygen has returned is a function of the seed
KeysInv ==
    /\ DOMAIN secret = Users /\ DOMAIN public = Users /\ DOMAIN extra = Users
    /\ \A u \in Users :
        /\ \A s \in secret[u] \cup public[u] :
            /\ KeygenInput(u) \in DOMAIN oracle
            /\ s = NonZero(oracle[KeygenInput(u)])
        /\ \A t \in extra[u] : t = Extracted(KeygenInput(u), 64)

\* what ecdh_recv has returned is a function of the secret and the buffer
SharedBy(s, c) ==
    [from |-> c, ok |-> point_decode(c).ok, key |-> <<"curve9767-ecdh:", Premaster(s, c)>>]

SharedInv ==
    /\ DOMAIN shared = Users
    /\ \A u \in Users : \A x \in shared[u] :
        \E s \in secret[u], c \in PointBytes : x = SharedBy(s, c)

\* the buffers of the hashed message and the signature
Buffers == {"sig", "hv"}

\* Between the hashes the message is still in its buffer, and C is k*G.
PreparedSign == \E at \in Buffers, hv \in Hashes : signing = [at |-> at, hv |-> hv] /\ mem[at] = hv

Committed ==
    \E at \in Buffers, hv \in Hashes, s \in 1..(N - 1), k \in 1..(N - 1) :
        /\ signing = [at |-> at, hv |-> hv, user |-> Signer, s |-> s, Q |-> s,
                      k |-> k, c |-> point_encode(k)]
        /\ mem[at] = hv

SigningInv == DOMAIN mem = Buffers /\ (signing = Absent \/ PreparedSign \/ Committed)

\* a signature by the secret s with the nonce k, when the hash was e
SignatureOf(s, k, e) == [c |-> point_encode(k), d |-> scalar_encode((e * s + k) % N)]

SignedInv ==
    signed = Absent \/
    \E hv \in Hashes, s \in 1..(N - 1), k \in 1..(N - 1), e \in Scalars :
        /\ signed = [user |-> Signer, Q |-> s, hv |-> hv, sig |-> SignatureOf(s, k, e)]
        /\ EInput(point_encode(k), s, hv) \in DOMAIN oracle
        /\ oracle[EInput(point_encode(k), s, hv)] = e

\* what was verified: any 64 bytes, a public key, a hashed message
Signatures == [c : PointBytes, d : ScalarBytes]

Verdict(by, sig, Q, hv, ok) == [by |-> by, sig |-> sig, Q |-> Q, hv |-> hv, ok |-> ok]

\* the answers of the two verifiers, when the hash is e
PlainVerdict(sig, Q, e) == sig.d.canonical /\ point_encode(Recomputed(sig.d, e, Q)) = sig.c
Vartime(sig, Q, e) == Recomputed(sig.d, e, Q) = point_decode(sig.c).at

AnswerInv ==
    answer = Absent \/
    \E sig \in Signatures, Q \in Scalars, hv \in Hashes :
        LET input == EInput(sig.c, Q, hv)
        IN  \/ /\ input \in DOMAIN oracle
               /\ answer = Verdict("sign_verify", sig, Q, hv, PlainVerdict(sig, Q, oracle[input]))
            \/ /\ ~point_decode(sig.c).ok \/ ~sig.d.canonical
               /\ answer = Verdict("sign_verify_vartime", sig, Q, hv, FALSE)
            \/ /\ input \in DOMAIN oracle
               /\ point_decode(sig.c).ok /\ sig.d.canonical
               /\ answer = Verdict("sign_verify_vartime", sig, Q, hv, Vartime(sig, Q, oracle[input]))

ProtocolsInv == OracleInv /\ KeysInv /\ SharedInv /\ SigningInv /\ SignedInv /\ AnswerInv

-----------------------------------------------------------------------------
(* What is once known stays.                                               *)

\* inputs that SHAKE256 has seen keep their outputs
Grows == \A i \in DOMAIN oracle : i \in DOMAIN oracle' /\ oracle'[i] = oracle[i]

LEMMA NBounds == N \in Nat /\ N > 2 /\ Signer \in Users
BY ProtocolsAssumption

\* An extraction answers as before, or learns one input.
LEMMA Learns ==
  ASSUME OracleInv, NEW input, NEW v, Reduced(input, v)
  PROVE  v \in Scalars /\ OracleInv' /\ Grows /\ input \in DOMAIN oracle' /\ oracle'[input] = v
<1>1. CASE input \in DOMAIN oracle
  BY <1>1 DEF Reduced, OracleInv, Grows
<1>2. CASE input \notin DOMAIN oracle
  <2>1. oracle' = [i \in DOMAIN oracle \cup {input} |-> IF i = input THEN v ELSE oracle[i]]
    BY <1>2 DEF Reduced
  <2>2. DOMAIN oracle' = DOMAIN oracle \cup {input}
    BY <2>1
  <2>3. \A i \in DOMAIN oracle : oracle'[i] = oracle[i]
    BY <1>2, <2>1
  <2>4. oracle'[input] = v
    BY <2>1
  <2> QED BY <2>2, <2>3, <2>4 DEF Reduced, OracleInv, Grows
<1> QED BY <1>1, <1>2

LEMMA NothingLearnt ==
  ASSUME OracleInv, UNCHANGED oracle
  PROVE  OracleInv' /\ Grows
BY DEF OracleInv, Grows

\* The keys, a signature and a verdict stay functions of the oracle.
LEMMA KeysKept == ASSUME KeysInv, Grows, UNCHANGED keys PROVE KeysInv'
BY DEF KeysInv, Grows, keys

LEMMA SharedKept == ASSUME SharedInv, UNCHANGED <<keys, shared>> PROVE SharedInv'
BY DEF SharedInv, keys

LEMMA SigningKept == ASSUME SigningInv, UNCHANGED <<mem, signing>> PROVE SigningInv'
BY DEF SigningInv, PreparedSign, Committed

LEMMA SignedKept == ASSUME SignedInv, Grows, UNCHANGED signed PROVE SignedInv'
<1>1. CASE signed = Absent
  BY <1>1 DEF SignedInv
<1>2. CASE signed # Absent
  <2>1. PICK hv \in Hashes, s \in 1..(N - 1), k \in 1..(N - 1), e \in Scalars :
            /\ signed = [user |-> Signer, Q |-> s, hv |-> hv, sig |-> SignatureOf(s, k, e)]
            /\ EInput(point_encode(k), s, hv) \in DOMAIN oracle
            /\ oracle[EInput(point_encode(k), s, hv)] = e
    BY <1>2, Zenon DEF SignedInv
  <2>2. /\ signed' = [user |-> Signer, Q |-> s, hv |-> hv, sig |-> SignatureOf(s, k, e)]
        /\ EInput(point_encode(k), s, hv) \in DOMAIN oracle'
        /\ oracle'[EInput(point_encode(k), s, hv)] = e
    BY <2>1, Zenon DEF Grows
  <2> QED BY <2>2, Zenon DEF SignedInv
<1> QED BY <1>1, <1>2

LEMMA AnswerKept == ASSUME AnswerInv, Grows, UNCHANGED answer PROVE AnswerInv'
<1>1. CASE answer = Absent
  BY <1>1 DEF AnswerInv
<1>2. CASE answer # Absent
  <2>1. PICK sig \in Signatures, Q \in Scalars, hv \in Hashes :
        LET input == EInput(sig.c, Q, hv)
        IN  \/ /\ input \in DOMAIN oracle
               /\ answer = Verdict("sign_verify", sig, Q, hv, PlainVerdict(sig, Q, oracle[input]))
            \/ /\ ~point_decode(sig.c).ok \/ ~sig.d.canonical
               /\ answer = Verdict("sign_verify_vartime", sig, Q, hv, FALSE)
            \/ /\ input \in DOMAIN oracle
               /\ point_decode(sig.c).ok /\ sig.d.canonical
               /\ answer = Verdict("sign_verify_vartime", sig, Q, hv, Vartime(sig, Q, oracle[input]))
    BY <1>2, Zenon DEF AnswerInv
  <2> DEFINE input == EInput(sig.c, Q, hv)
  <2>2. input \in DOMAIN oracle => input \in DOMAIN oracle' /\ oracle'[input] = oracle[input]
    BY DEF Grows
  <2>3. answer' = answer
    OBVIOUS
  <2>4. \/ /\ input \in DOMAIN oracle'
           /\ answer' = Verdict("sign_verify", sig, Q, hv, PlainVerdict(sig, Q, oracle'[input]))
        \/ /\ ~point_decode(sig.c).ok \/ ~sig.d.canonical
           /\ answer' = Verdict("sign_verify_vartime", sig, Q, hv, FALSE)
        \/ /\ input \in DOMAIN oracle'
           /\ point_decode(sig.c).ok /\ sig.d.canonical
           /\ answer' = Verdict("sign_verify_vartime", sig, Q, hv, Vartime(sig, Q, oracle'[input]))
    BY <2>1, <2>2, <2>3, Zenon
  <2> QED BY <2>4, Zenon DEF AnswerInv
<1> QED BY <1>1, <1>2

-----------------------------------------------------------------------------
(* The calls.                                                              *)

LEMMA KeygenInv ==
  ASSUME ProtocolsInv, NEW u \in Users, NEW wanted, keygen(u, wanted)
  PROVE  ProtocolsInv'
<1> USE DEF ProtocolsInv
<1>1. PICK v \in Scalars :
        /\ Reduced(KeygenInput(u), v)
        /\ secret' = Seen(secret, u, "s" \in wanted, NonZero(v))
        /\ extra' = Seen(extra, u, "t" \in wanted, AdditionalSecret(u, wanted))
        /\ public' = Seen(public, u, "Q" \in wanted, NonZero(v))
  BY DEF keygen
<1>2. UNCHANGED <<shared, mem, signing, signed, answer>>
  BY DEF keygen
<1>3. /\ OracleInv' /\ Grows
      /\ KeygenInput(u) \in DOMAIN oracle' /\ oracle'[KeygenInput(u)] = v
  BY <1>1, Learns
<1>4. KeysInv'
  <2>1. DOMAIN secret' = Users /\ DOMAIN public' = Users /\ DOMAIN extra' = Users
    BY <1>1 DEF KeysInv, Seen
  <2>2. ASSUME NEW w \in Users
        PROVE  /\ secret'[w] \subseteq secret[w] \cup (IF w = u THEN {NonZero(v)} ELSE {})
               /\ public'[w] \subseteq public[w] \cup (IF w = u THEN {NonZero(v)} ELSE {})
               /\ extra'[w] \subseteq extra[w] \cup
                                (IF w = u THEN {Extracted(KeygenInput(u), 64)} ELSE {})
    BY <1>1 DEF KeysInv, Seen, AdditionalSecret
  <2>3. ASSUME NEW w \in Users, NEW s \in secret'[w] \cup public'[w]
        PROVE  KeygenInput(w) \in DOMAIN oracle' /\ s = NonZero(oracle'[KeygenInput(w)])
    <3>1. CASE s \in secret[w] \cup public[w]
      BY <1>3, <3>1 DEF KeysInv, Grows
    <3>2. CASE s \notin secret[w] \cup public[w]
      BY <1>3, <2>2, <2>3, <3>2
    <3> QED BY <3>1, <3>2
  <2>4. ASSUME NEW w \in Users, NEW t \in extra'[w] PROVE t = Extracted(KeygenInput(w), 64)
    BY <2>2, <2>4 DEF KeysInv
  <2> QED BY <2>1, <2>3, <2>4 DEF KeysInv
<1>5. SharedInv'
  <2>1. \A w \in Users : secret[w] \subseteq secret'[w]
    BY <1>1 DEF KeysInv, Seen
  <2> QED BY <1>2, <2>1 DEF SharedInv
<1>6. SigningInv' /\ SignedInv' /\ AnswerInv'
  BY <1>2, <1>3, SigningKept, SignedKept, AnswerKept
<1> QED BY <1>3, <1>4, <1>5, <1>6

LEMMA EcdhInv ==
  ASSUME ProtocolsInv, NEW u \in Users, NEW s, NEW c \in PointBytes, ecdh_recv(u, s, c)
  PROVE  ProtocolsInv'
<1> USE DEF ProtocolsInv
<1>1. UNCHANGED <<oracle, keys, mem, signing, signed, answer>>
  BY DEF ecdh_recv
<1>2. s \in secret[u] /\ shared' = [shared EXCEPT ![u] = @ \cup {SharedBy(s, c)}]
  BY DEF ecdh_recv, SharedBy
<1>3. OracleInv' /\ Grows
  BY <1>1, NothingLearnt
<1>4. KeysInv' /\ SigningInv' /\ SignedInv' /\ AnswerInv'
  BY <1>1, <1>3, KeysKept, SigningKept, SignedKept, AnswerKept
<1>5. SharedInv'
  <2>1. DOMAIN shared' = Users
    BY <1>2 DEF SharedInv
  <2>2. ASSUME NEW w \in Users, NEW x \in shared'[w]
        PROVE  \E r \in secret'[w], b \in PointBytes : x = SharedBy(r, b)
    <3>1. x \in shared[w] \/ (w = u /\ x = SharedBy(s, c))
      BY <1>2, <2>2 DEF SharedInv
    <3>2. \E r \in secret[w], b \in PointBytes : x = SharedBy(r, b)
      BY <1>2, <3>1 DEF SharedInv
    <3> QED BY <1>1, <3>2 DEF keys
  <2> QED BY <2>1, <2>2 DEF SharedInv
<1> QED BY <1>3, <1>4, <1>5

LEMMA PrepareInv ==
  ASSUME ProtocolsInv, NEW hv \in Hashes, NEW where \in Buffers, Prepare(hv, where)
  PROVE  ProtocolsInv'
<1> USE DEF ProtocolsInv
<1>1. UNCHANGED <<oracle, keys, shared, signed, answer>>
  BY DEF Prepare
<1>2. OracleInv' /\ Grows
  BY <1>1, NothingLearnt
<1>3. KeysInv' /\ SharedInv' /\ SignedInv' /\ AnswerInv'
  BY <1>1, <1>2, KeysKept, SharedKept, SignedKept, AnswerKept
<1>4. signing' = [at |-> where, hv |-> hv] /\ DOMAIN mem' = Buffers /\ mem'[where] = hv
  BY DEF Prepare, SigningInv
<1>5. PreparedSign'
  BY <1>4 DEF PreparedSign
<1> QED BY <1>2, <1>3, <1>4, <1>5 DEF SigningInv

\* a secret scalar is not zero, and is the public key
LEMMA OneKey ==
  ASSUME OracleInv, KeysInv, NEW u \in Users, NEW s \in secret[u] \cup public[u]
  PROVE  s \in 1..(N - 1) /\ s = NonZero(oracle[KeygenInput(u)])
<1>1. oracle[KeygenInput(u)] \in 0..(N - 1) /\ s = NonZero(oracle[KeygenInput(u)])
  BY DEF OracleInv, KeysInv, Scalars
<1> DEFINE v == oracle[KeygenInput(u)]
<1> HIDE DEF v
<1>2. v \in 0..(N - 1) => NonZero(v) \in 1..(N - 1)
  BY NBounds DEF NonZero
<1> QED BY <1>1, <1>2 DEF v

LEMMA CommitInv ==
  ASSUME ProtocolsInv, NEW s, NEW t, NEW Q, sign_commit(Signer, s, t, Q)
  PROVE  ProtocolsInv'
<1> USE DEF ProtocolsInv
<1>1. /\ signing # Absent /\ DOMAIN signing = {"at", "hv"}
      /\ s \in secret[Signer] /\ Q \in public[Signer]
      /\ UNCHANGED <<keys, shared, mem, signed, answer>>
  BY DEF sign_commit
<1>2. PICK v \in Scalars :
        /\ Reduced(KInput(t, mem[signing.at]), v)
        /\ signing' = [at |-> signing.at, hv |-> signing.hv, user |-> Signer, s |-> s, Q |-> Q,
                       k |-> make_k(v), c |-> point_encode(make_k(v))]
  BY DEF sign_commit
<1>3. OracleInv' /\ Grows
  BY <1>2, Learns
<1>4. KeysInv' /\ SharedInv' /\ SignedInv' /\ AnswerInv'
  BY <1>1, <1>3, KeysKept, SharedKept, SignedKept, AnswerKept
<1>5. s \in 1..(N - 1) /\ Q = s
  BY <1>1, OneKey, NBounds
<1>6. make_k(v) \in 1..(N - 1)
  BY NBounds DEF make_k, NonZero, Scalars
<1>7. PreparedSign
  <2>1. "user" \notin DOMAIN signing
    BY <1>1
  <2>2. ~Committed
    BY <2>1 DEF Committed
  <2> QED BY <1>1, <2>2 DEF SigningInv
<1>8. PICK at \in Buffers, hv \in Hashes : signing = [at |-> at, hv |-> hv] /\ mem[at] = hv
  BY <1>7 DEF PreparedSign
<1>9. Committed'
  <2>1. signing' = [at |-> at, hv |-> hv, user |-> Signer, s |-> s, Q |-> s,
                    k |-> make_k(v), c |-> point_encode(make_k(v))]
    BY <1>2, <1>5, <1>8
  <2>2. mem'[at] = hv
    BY <1>1, <1>8
  <2> QED BY <1>5, <1>6, <2>1, <2>2 DEF Committed
<1> QED BY <1>1, <1>3, <1>4, <1>9 DEF SigningInv

LEMMA RespondInv ==
  ASSUME ProtocolsInv, sign_respond
  PROVE  ProtocolsInv'
<1> USE DEF ProtocolsInv
<1>1. /\ signing # Absent /\ "c" \in DOMAIN signing
      /\ signing' = Absent /\ UNCHANGED <<keys, shared, answer>>
  BY DEF sign_respond
<1>2. Committed
  <2>1. ~PreparedSign
    BY <1>1 DEF PreparedSign
  <2> QED BY <1>1, <2>1 DEF SigningInv
<1>3. PICK at \in Buffers, hv \in Hashes, s \in 1..(N - 1), k \in 1..(N - 1) :
        /\ signing = [at |-> at, hv |-> hv, user |-> Signer, s |-> s, Q |-> s,
                      k |-> k, c |-> point_encode(k)]
        /\ mem[at] = hv
  BY <1>2, Zenon DEF Committed
<1>4. /\ signing.at = at /\ signing.hv = hv /\ signing.user = Signer /\ signing.s = s
      /\ signing.Q = s /\ signing.k = k /\ signing.c = point_encode(k)
  BY <1>3
<1>5. PICK e \in Scalars :
        /\ Reduced(EInput(point_encode(k), s, hv), e)
        /\ mem' = [mem EXCEPT !["sig"] = SignatureOf(s, k, e)]
        /\ signed' = [user |-> Signer, Q |-> s, hv |-> hv, sig |-> SignatureOf(s, k, e)]
  BY <1>3, <1>4 DEF sign_respond, SignatureOf
<1>6. /\ OracleInv' /\ Grows
      /\ EInput(point_encode(k), s, hv) \in DOMAIN oracle'
      /\ oracle'[EInput(point_encode(k), s, hv)] = e
  BY <1>5, Learns
<1>7. KeysInv' /\ SharedInv' /\ AnswerInv'
  BY <1>1, <1>6, KeysKept, SharedKept, AnswerKept
<1>8. SignedInv'
  BY <1>5, <1>6, Zenon DEF SignedInv
<1>9. SigningInv'
  BY <1>1, <1>5 DEF SigningInv
<1> QED BY <1>6, <1>7, <1>8, <1>9

LEMMA VerifyInv ==
  ASSUME ProtocolsInv, NEW sig \in Signatures, NEW Q \in Scalars, NEW hv \in Hashes,
         sign_verify(sig, Q, hv)
  PROVE  ProtocolsInv'
<1> USE DEF ProtocolsInv
<1>1. UNCHANGED <<keys, shared, mem, signing, signed>>
  BY DEF sign_verify
<1> DEFINE input == EInput(sig.c, Q, hv)
<1>2. PICK e \in Scalars :
        /\ Reduced(input, e)
        /\ answer' = Verdict("sign_verify", sig, Q, hv, PlainVerdict(sig, Q, e))
  BY DEF sign_verify, Verdict, PlainVerdict
<1>3. OracleInv' /\ Grows /\ input \in DOMAIN oracle' /\ oracle'[input] = e
  BY <1>2, Learns
<1>4. KeysInv' /\ SharedInv' /\ SigningInv' /\ SignedInv'
  BY <1>1, <1>3, KeysKept, SharedKept, SigningKept, SignedKept
<1>5. AnswerInv'
  BY <1>2, <1>3, Zenon DEF AnswerInv
<1> QED BY <1>3, <1>4, <1>5

LEMMA VartimeInv ==
  ASSUME ProtocolsInv, NEW sig \in Signatures, NEW Q \in Scalars, NEW hv \in Hashes,
         sign_verify_vartime(sig, Q, hv)
  PROVE  ProtocolsInv'
<1> USE DEF ProtocolsInv
<1>1. UNCHANGED <<keys, shared, mem, signing, signed>>
  BY DEF sign_verify_vartime
<1> DEFINE input == EInput(sig.c, Q, hv)
<1>2. CASE ~point_decode(sig.c).ok \/ ~sig.d.canonical
  <2>1. answer' = Verdict("sign_verify_vartime", sig, Q, hv, FALSE) /\ UNCHANGED oracle
    BY <1>2 DEF sign_verify_vartime, Verdict
  <2>2. OracleInv' /\ Grows
    BY <2>1, NothingLearnt
  <2>3. AnswerInv'
    BY <1>2, <2>1, Zenon DEF AnswerInv
  <2> QED BY <1>1, <2>2, <2>3, KeysKept, SharedKept, SigningKept, SignedKept
<1>3. CASE point_decode(sig.c).ok /\ sig.d.canonical
  <2>1. PICK e \in Scalars :
          /\ Reduced(input, e)
          /\ answer' = Verdict("sign_verify_vartime", sig, Q, hv, Vartime(sig, Q, e))
    BY <1>3 DEF sign_verify_vartime, Verdict, Vartime
  <2>2. OracleInv' /\ Grows /\ input \in DOMAIN oracle' /\ oracle'[input] = e
    BY <2>1, Learns
  <2>3. AnswerInv'
    BY <1>3, <2>1, <2>2, Zenon DEF AnswerInv
  <2> QED BY <1>1, <2>2, <2>3, KeysKept, SharedKept, SigningKept, SignedKept
<1> QED BY <1>2, <1>3

\* Whatever is verified is 64 bytes, a point and a hashed message.
LEMMA VerifiableTyped ==
  ASSUME ProtocolsInv, NEW a \in Verifiable
  PROVE  a[1] \in Signatures /\ a[2] \in Scalars /\ a[3] \in Hashes
<1> USE DEF ProtocolsInv
<1>1. CASE answer # Absent
  <2>1. PICK sig \in Signatures, Q \in Scalars, hv \in Hashes :
            answer.sig = sig /\ answer.Q = Q /\ answer.hv = hv
    BY <1>1 DEF AnswerInv, Verdict
  <2> QED BY <1>1, <2>1 DEF Verifiable
<1>2. CASE answer = Absent
  <2>1. a \in (IF signed # Absent THEN {signed.sig} ELSE [c : PointBytes, d : ScalarBytes])
                \X PublicKeys \X Hashes
    BY <1>2 DEF Verifiable
  <2>2. a[2] \in PublicKeys /\ a[3] \in Hashes
        /\ a[1] \in (IF signed # Absent THEN {signed.sig} ELSE Signatures)
    BY <2>1 DEF Signatures
  <2>3. PublicKeys \subseteq Scalars
    <3>1. ASSUME NEW u \in Users, NEW s \in public[u] PROVE s \in Scalars
      BY <3>1, OneKey, NBounds DEF Scalars
    <3>2. 0 \in Scalars
      BY NBounds DEF Scalars
    <3> QED BY <3>1, <3>2 DEF PublicKeys
  <2>4. signed # Absent => signed.sig \in Signatures
    <3>1. ASSUME NEW s \in 1..(N - 1), NEW k \in 1..(N - 1), NEW e \in Scalars
          PROVE  SignatureOf(s, k, e) \in Signatures
      <4>1. e * s + k \in Int
        BY NBounds DEF Scalars
      <4>2. (e * s + k) % N \in Scalars
        BY <4>1, NBounds DEF Scalars
      <4>3. k \in Points
        BY NBounds DEF Points, Scalars
      <4> QED BY <4>2, <4>3 DEF SignatureOf, Signatures, scalar_encode, ScalarBytes, PointBytes
    <3> QED BY <3>1 DEF SignedInv
  <2> QED BY <2>2, <2>3, <2>4
<1> QED BY <1>1, <1>2

-----------------------------------------------------------------------------
(* ProtocolsInv is inductive.                                                      *)

LEMMA InitProtocolsInv == ProtocolsInit => ProtocolsInv
<1> SUFFICES ASSUME ProtocolsInit PROVE ProtocolsInv
  OBVIOUS
<1>1. /\ oracle = <<>>
      /\ secret = Nothing /\ extra = Nothing /\ public = Nothing /\ shared = Nothing
      /\ mem = [where \in {"sig", "hv"} |-> Absent]
      /\ signing = Absent /\ signed = Absent /\ answer = Absent
  BY DEF ProtocolsInit
<1>2. DOMAIN oracle = {}
  BY <1>1
<1>3. OracleInv /\ KeysInv /\ SharedInv
  BY <1>1, <1>2 DEF OracleInv, KeysInv, SharedInv, Nothing
<1>4. SigningInv /\ SignedInv /\ AnswerInv
  BY <1>1 DEF SigningInv, SignedInv, AnswerInv, Buffers
<1> QED BY <1>3, <1>4 DEF ProtocolsInv

LEMMA NextProtocolsInv == ProtocolsInv /\ [ProtocolsNext]_protocolsVars => ProtocolsInv'
<1> SUFFICES ASSUME ProtocolsInv, [ProtocolsNext]_protocolsVars PROVE ProtocolsInv'
  OBVIOUS
<1>1. CASE UNCHANGED protocolsVars
  BY <1>1, NothingLearnt, KeysKept, SharedKept, SigningKept, SignedKept, AnswerKept
     DEF protocolsVars, ProtocolsInv
<1>2. ASSUME NEW u \in Users, NEW wanted \in SUBSET {"s", "t", "Q"}, keygen(u, wanted)
      PROVE  ProtocolsInv'
  BY <1>2, KeygenInv
<1>3. CASE Exchange
  <2>1. ASSUME NEW u \in Users, NEW wantsQ \in BOOLEAN, ecdh_keygen(u, wantsQ) PROVE ProtocolsInv'
    BY <2>1, KeygenInv DEF ecdh_keygen
  <2>2. ASSUME NEW u \in Users, NEW s \in secret[u], NEW c \in PointBytes, ecdh_recv(u, s, c)
        PROVE  ProtocolsInv'
    BY <2>2, EcdhInv
  <2> QED BY <1>3, <2>1, <2>2, Zenon DEF Exchange
<1>4. CASE Sign
  <2>1. ASSUME NEW hv \in Hashes, NEW where \in {"sig", "hv"}, Prepare(hv, where) PROVE ProtocolsInv'
    BY <2>1, PrepareInv DEF Buffers
  <2>2. ASSUME NEW s, NEW t, NEW Q, sign_commit(Signer, s, t, Q) PROVE ProtocolsInv'
    BY <2>2, CommitInv
  <2>3. ASSUME NEW a \in Verifiable,
               sign_verify(a[1], a[2], a[3]) \/ sign_verify_vartime(a[1], a[2], a[3])
        PROVE  ProtocolsInv'
    BY <2>3, VerifiableTyped, VerifyInv, VartimeInv
  <2> QED BY <1>4, <2>1, <2>2, <2>3, RespondInv, Zenon DEF Sign
<1> QED BY <1>1, <1>2, <1>3, <1>4, Zenon DEF ProtocolsNext

LEMMA IInvAlways == Spec => []ProtocolsInv
BY InitProtocolsInv, NextProtocolsInv, PTL DEF Spec

-----------------------------------------------------------------------------
(* What ProtocolsInv says about the calls' results.                                *)

\* The key pair of a seed is one, whichever outputs were asked for, by whichever
\* calls in whichever order: s is not zero, Q is s*G, t is one (keygen.c:20).
THEOREM KeyPairsAlways == Spec => []KeyPairs
<1>1. ProtocolsInv => KeyPairs
  <2> SUFFICES ASSUME ProtocolsInv, NEW u \in Users
               PROVE  /\ \A s \in secret[u] : s # 0
                      /\ \A s, r \in secret[u] \cup public[u] : s = r
                      /\ \A t, r \in extra[u] : t = r
    BY DEF KeyPairs
  <2>1. \A s \in secret[u] \cup public[u] :
            s \in 1..(N - 1) /\ s = NonZero(oracle[KeygenInput(u)])
    BY OneKey DEF ProtocolsInv
  <2>2. \A t \in extra[u] : t = Extracted(KeygenInput(u), 64)
    BY DEF ProtocolsInv, KeysInv
  <2> QED BY <2>1, <2>2, NBounds
<1> QED BY <1>1, IInvAlways, PTL

\* r*(N - s) is the opposite of r*s, so both have the same x coordinate.
LEMMA OppositeProduct ==
  ASSUME NEW r \in Int, NEW s \in Int
  PROVE  point_encode_X((r * (N - s)) % N) = point_encode_X((r * s) % N)
<1> DEFINE a == r * s  b == r * (N - s)  x == a % N  y == b % N
<1>1. N \in Nat /\ N > 0 /\ N \in Int
  BY NBounds
<1>2. a \in Int /\ b \in Int /\ b = (-a) + r * N
  BY <1>1
<1>3. Congruent(b, -a, N)
  BY <1>2 DEF Congruent
<1>4. x \in 0..(N - 1) /\ y \in 0..(N - 1) /\ Congruent(x, a, N) /\ Congruent(y, b, N)
  BY <1>1, <1>2, ModCongruent
<1> HIDE DEF a, b, x, y
<1>5. Congruent(x + y, 0, N)
  <2>1. Congruent(x + b, a + (-a), N)
    BY <1>1, <1>2, <1>3, <1>4, CongruentSum
  <2>2. Congruent(x + y, x + b, N)
    BY <1>1, <1>2, <1>4, CongruentSum, CongruentRefl
  <2>3. a + (-a) = 0
    BY <1>2
  <2> QED BY <1>1, <1>2, <1>4, <2>1, <2>2, <2>3, CongruentTrans
<1>6. CASE x = 0
  <2>1. Congruent(y, 0, N)
    BY <1>4, <1>5, <1>6
  <2>2. y = 0
    BY <1>1, <1>4, <2>1, RemainderUnique
  <2> QED BY <1>6, <2>2 DEF a, b, x, y
<1>7. CASE x # 0
  <2>1. N - x \in 0..(N - 1) /\ N - x # 0
    BY <1>1, <1>4, <1>7
  <2>2. PICK k \in Int : x + y = 0 + k * N
    BY <1>5 DEF Congruent
  <2>3. y = (N - x) + (k - 1) * N /\ k - 1 \in Int
    BY <1>1, <1>4, <2>2
  <2>4. Congruent(y, N - x, N)
    BY <2>3 DEF Congruent
  <2>5. y = N - x
    BY <1>1, <1>4, <2>1, <2>4, RemainderUnique
  <2>6. point_encode_X(y) = point_encode_X(x)
    <3>1. N - y = x /\ y # 0
      BY <1>1, <1>4, <2>1, <2>5
    <3>2. {y, N - y} = {x, N - x}
      BY <2>5, <3>1
    <3> QED BY <1>7, <3>1, <3>2 DEF point_encode_X
  <2> QED BY <2>6 DEF a, b, x, y
<1> QED BY <1>6, <1>7

\* A point that was encoded is decoded, infinity apart.
LEMMA DecodeEncode ==
  ASSUME NEW x, x # 0
  PROVE  point_encode(x) = <<"point", x>> /\ point_decode(point_encode(x)) = [ok |-> TRUE, at |-> x]
BY DEF point_encode, point_decode

\* Two users who hold each other's key, with either sign, get the same secret; what
\* does not decode is reported, and leads to a secret of its own (ecdh.c:57).
THEOREM SharedSecretsAlways == Spec => []SharedSecrets
<1>1. ProtocolsInv => SharedSecrets
  <2> SUFFICES ASSUME ProtocolsInv, NEW u \in Users, NEW v \in Users,
                      NEW x \in shared[u], NEW y \in shared[v]
               PROVE  /\ x.ok = (x.from[1] = "point")
                      /\ x.ok /\ y.ok =>
                            \A s \in secret[u], r \in secret[v] :
                                x.from = point_encode(r)
                                /\ y.from \in {point_encode(s), point_encode(N - s)}
                                  => x.key = y.key
                      /\ ~x.ok => (x.key = y.key) = (secret[u] = secret[v] /\ x.from = y.from)
    BY DEF SharedSecrets
  <2>1. PICK s \in secret[u], c \in PointBytes : x = SharedBy(s, c)
    BY DEF ProtocolsInv, SharedInv
  <2>2. PICK r \in secret[v], b \in PointBytes : y = SharedBy(r, b)
    BY DEF ProtocolsInv, SharedInv
  <2>3. s \in 1..(N - 1) /\ r \in 1..(N - 1) /\ secret[u] = {s} /\ secret[v] = {r}
    BY OneKey DEF ProtocolsInv
  <2>4. /\ x.from = c /\ x.ok = point_decode(c).ok
        /\ x.key = <<"curve9767-ecdh:", Premaster(s, c)>>
        /\ y.from = b /\ y.ok = point_decode(b).ok
        /\ y.key = <<"curve9767-ecdh:", Premaster(r, b)>>
    BY <2>1, <2>2 DEF SharedBy
  <2>5. x.ok = (x.from[1] = "point")
    BY <2>4 DEF point_decode
  <2>6. ASSUME x.ok, y.ok, x.from = point_encode(r),
               y.from \in {point_encode(s), point_encode(N - s)}
        PROVE  x.key = y.key
    <3>1. r # 0 /\ s # 0 /\ N - s # 0
      BY <2>3, NBounds
    <3>2. Premaster(s, c) = point_encode_X((s * r) % N)
      BY <2>4, <2>6, <3>1, DecodeEncode DEF Premaster
    <3>3. PICK w \in {s, N - s} : b = point_encode(w)
      BY <2>4, <2>6
    <3>4. Premaster(r, b) = point_encode_X((r * w) % N)
      BY <2>4, <2>6, <3>1, <3>3, DecodeEncode DEF Premaster
    <3>5. s \in Int /\ r \in Int /\ r * s = s * r
      BY <2>3, NBounds
    <3>6. point_encode_X((r * w) % N) = point_encode_X((s * r) % N)
      <4>1. CASE w = s
        BY <3>5, <4>1
      <4>2. CASE w = N - s
        BY <3>5, <4>2, OppositeProduct
      <4> QED BY <4>1, <4>2
    <3> QED BY <2>4, <3>2, <3>4, <3>6
  <2>7. ASSUME ~x.ok
        PROVE  (x.key = y.key) = (secret[u] = secret[v] /\ x.from = y.from)
    <3>1. Premaster(s, c) = <<"curve9767-ecdh-failed:", scalar_encode(s), c>>
      BY <2>4, <2>7 DEF Premaster
    <3>2. CASE y.ok
      <4>1. Premaster(r, b) = point_encode_X((r * point_decode(b).at) % N)
        BY <2>4, <3>2 DEF Premaster
      <4>2. \A m, a, C : point_encode_X(m) # <<"curve9767-ecdh-failed:", a, C>>
        <5>1. \A X, a, C : /\ <<"x of infinity">> # <<"curve9767-ecdh-failed:", a, C>>
                           /\ <<"x", X>> # <<"curve9767-ecdh-failed:", a, C>>
          OBVIOUS
        <5> QED BY <5>1, Zenon DEF point_encode_X
      <4>3. x.key # y.key
        <5>1. Premaster(r, b) # Premaster(s, c)
          BY <3>1, <4>1, <4>2
        <5> QED BY <2>4, <5>1
      <4>4. x.from # y.from
        BY <2>4, <2>7, <3>2
      <4> QED BY <4>3, <4>4
    <3>3. CASE ~y.ok
      <4>1. Premaster(r, b) = <<"curve9767-ecdh-failed:", scalar_encode(r), b>>
        BY <2>4, <3>3 DEF Premaster
      <4>2. x.key = y.key <=> scalar_encode(s) = scalar_encode(r) /\ c = b
        BY <2>4, <3>1, <4>1
      <4>3. scalar_encode(s) = scalar_encode(r) <=> s = r
        BY DEF scalar_encode
      <4>4. secret[u] = secret[v] <=> s = r
        BY <2>3
      <4> QED BY <2>4, <4>2, <4>3, <4>4
    <3> QED BY <3>2, <3>3
  <2> QED BY <2>3, <2>5, <2>6, <2>7
<1> QED BY <1>1, IInvAlways, PTL

-----------------------------------------------------------------------------
(* Signatures.                                                             *)

\* an encoding that a verifier is given
LEMMA DecodeAny ==
  ASSUME NEW c \in PointBytes
  PROVE  \/ c = <<"infinity">> /\ c = point_encode(0) /\ ~point_decode(c).ok
         \/ c = <<"no point">> /\ ~point_decode(c).ok
         \/ \E x \in Points : x # 0 /\ c = point_encode(x) /\ c = <<"point", x>>
                              /\ point_decode(c).ok /\ point_decode(c).at = x
<1>1. c = <<"no point">> \/ \E x \in Points : c = point_encode(x)
  BY DEF PointBytes
<1>2. CASE c = <<"no point">>
  BY <1>2 DEF point_decode
<1>3. CASE \E x \in Points : c = point_encode(x)
  <2>1. PICK x \in Points : c = point_encode(x)
    BY <1>3
  <2>2. CASE x = 0
    BY <2>1, <2>2 DEF point_encode, point_decode
  <2>3. CASE x # 0
    <3>1. c = <<"point", x>> /\ point_decode(c) = [ok |-> TRUE, at |-> x]
      BY <2>1, <2>3, DecodeEncode
    <3>2. point_decode(c).ok /\ point_decode(c).at = x
      BY <3>1
    <3> QED BY <2>1, <2>3, <3>1, <3>2, Zenon
  <2> QED BY <2>2, <2>3
<1> QED BY <1>1, <1>2, <1>3

\* Points have encodings of their own.
LEMMA EncodeInjective ==
  ASSUME NEW x, NEW y, point_encode(x) = point_encode(y)
  PROVE  x = y
<1>1. \A a : <<"infinity">> # <<"point", a>>
  OBVIOUS
<1> QED BY <1>1 DEF point_encode

\* d*G - e*Q is C for what sign_generate computes.
LEMMA RecomputesNonce ==
  ASSUME NEW s \in 1..(N - 1), NEW k \in 1..(N - 1), NEW e \in Scalars
  PROVE  Recomputed(scalar_encode((e * s + k) % N), e, s) = k
<1> DEFINE p == e * s  d == (p + k) % N
<1>1. N \in Nat /\ N > 0 /\ N \in Int /\ p \in Int /\ k \in 0..(N - 1) /\ k \in Int
  BY NBounds DEF Scalars
<1> HIDE DEF p
<1>2. p + k \in Int
  BY <1>1
<1>3. d \in 0..(N - 1) /\ Congruent(d, p + k, N)
  BY <1>1, <1>2, ModCongruent
<1> HIDE DEF d
<1>4. Congruent(d - p, (p + k) - p, N)
  BY <1>1, <1>2, <1>3, CongruentSum, CongruentRefl
<1>5. (p + k) - p = k /\ d - p \in Int
  BY <1>1, <1>3
<1>6. (d - p) % N = k % N
  BY <1>1, <1>4, <1>5, ModEqual
<1>7. k % N = k
  BY <1>1
<1>8. scalar_encode(d).low = d
  BY DEF scalar_encode
<1> QED BY <1>6, <1>7, <1>8 DEF Recomputed, p, d

\* Both verifiers answer what the equation of signatures says, infinity apart, on
\* any 64 bytes; both accept what sign_generate wrote (sign.c:66, sign.c:84).
THEOREM SignaturesVerifyAlways == Spec => []SignaturesVerify
<1>1. ProtocolsInv => SignaturesVerify
  <2> SUFFICES ASSUME ProtocolsInv, answer # Absent
               PROVE  /\ answer.ok => Correct(answer)
                      /\ ~answer.ok /\ answer.sig.c # point_encode(0) /\ answer.sig.d.canonical
                           /\ answer.sig.c # <<"no point">> => ~Correct(answer)
                      /\ signed # Absent /\ answer.sig = signed.sig /\ answer.Q = signed.Q
                           /\ answer.hv = signed.hv => answer.ok
    BY DEF SignaturesVerify
  <2>1. PICK sig \in Signatures, Q \in Scalars, hv \in Hashes :
        LET input == EInput(sig.c, Q, hv)
        IN  \/ /\ input \in DOMAIN oracle
               /\ answer = Verdict("sign_verify", sig, Q, hv, PlainVerdict(sig, Q, oracle[input]))
            \/ /\ ~point_decode(sig.c).ok \/ ~sig.d.canonical
               /\ answer = Verdict("sign_verify_vartime", sig, Q, hv, FALSE)
            \/ /\ input \in DOMAIN oracle
               /\ point_decode(sig.c).ok /\ sig.d.canonical
               /\ answer = Verdict("sign_verify_vartime", sig, Q, hv, Vartime(sig, Q, oracle[input]))
    BY Zenon DEF ProtocolsInv, AnswerInv
  <2> DEFINE input == EInput(sig.c, Q, hv)
             e == oracle[input]
  <2>2. answer.sig = sig /\ answer.Q = Q /\ answer.hv = hv
    BY <2>1 DEF Verdict
  <2>3. Correct(answer) <=> PlainVerdict(sig, Q, e)
    BY <2>2 DEF Correct, PlainVerdict
  <2>4. sig.c \in PointBytes /\ sig.d.canonical \in BOOLEAN
    BY DEF Signatures, ScalarBytes
  <2>5. ASSUME point_decode(sig.c).ok, sig.d.canonical
        PROVE  PlainVerdict(sig, Q, e) <=> Vartime(sig, Q, e)
    <3>1. PICK x : sig.c = point_encode(x) /\ point_decode(sig.c).at = x
      BY <2>4, <2>5, DecodeAny
    <3>2. point_encode(Recomputed(sig.d, e, Q)) = point_encode(x) <=> Recomputed(sig.d, e, Q) = x
      BY EncodeInjective
    <3> QED BY <2>5, <3>1, <3>2 DEF PlainVerdict, Vartime
  <2>6. \/ answer.ok <=> PlainVerdict(sig, Q, e)
        \/ ~answer.ok /\ (~point_decode(sig.c).ok \/ ~sig.d.canonical)
    <3>1. CASE answer = Verdict("sign_verify", sig, Q, hv, PlainVerdict(sig, Q, e))
      BY <3>1 DEF Verdict
    <3>2. CASE (~point_decode(sig.c).ok \/ ~sig.d.canonical)
               /\ answer = Verdict("sign_verify_vartime", sig, Q, hv, FALSE)
      BY <3>2 DEF Verdict
    <3>3. CASE point_decode(sig.c).ok /\ sig.d.canonical
               /\ answer = Verdict("sign_verify_vartime", sig, Q, hv, Vartime(sig, Q, e))
      BY <2>5, <3>3 DEF Verdict
    <3> QED BY <2>1, <3>1, <3>2, <3>3, Zenon
  <2>7. answer.ok => Correct(answer)
    BY <2>3, <2>6
  <2>8. ASSUME ~answer.ok, sig.c # point_encode(0), sig.d.canonical, sig.c # <<"no point">>
        PROVE  ~Correct(answer)
    <3>1. point_decode(sig.c).ok
      BY <2>4, <2>8, DecodeAny
    <3> QED BY <2>3, <2>6, <2>8, <3>1
  <2>9. ASSUME signed # Absent, answer.sig = signed.sig, answer.Q = signed.Q, answer.hv = signed.hv
        PROVE  answer.ok
    <3>1. PICK s \in 1..(N - 1), k \in 1..(N - 1), f \in Scalars :
            /\ signed.Q = s /\ signed.sig = SignatureOf(s, k, f)
            /\ oracle[EInput(point_encode(k), s, signed.hv)] = f
      <4>1. PICK m \in Hashes, s \in 1..(N - 1), k \in 1..(N - 1), f \in Scalars :
              /\ signed = [user |-> Signer, Q |-> s, hv |-> m, sig |-> SignatureOf(s, k, f)]
              /\ oracle[EInput(point_encode(k), s, m)] = f
        BY <2>9, Zenon DEF ProtocolsInv, SignedInv
      <4> QED BY <4>1
    <3>2. sig.c = point_encode(k) /\ sig.d = scalar_encode((f * s + k) % N) /\ Q = s
      BY <2>2, <2>9, <3>1 DEF SignatureOf
    <3>3. e = f
      BY <2>2, <2>9, <3>1, <3>2
    <3>4. sig.d.canonical /\ point_decode(sig.c).ok
      BY <3>2, DecodeEncode DEF scalar_encode
    <3>5. Recomputed(sig.d, e, Q) = k
      BY <3>2, <3>3, RecomputesNonce
    <3>6. PlainVerdict(sig, Q, e)
      BY <3>2, <3>4, <3>5 DEF PlainVerdict
    <3> QED BY <2>6, <3>4, <3>6
  <2> QED BY <2>2, <2>7, <2>8, <2>9
<1> QED BY <1>1, IInvAlways, PTL
=============================================================================
