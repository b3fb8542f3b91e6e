------------------------------- MODULE Shake -------------------------------
(***************************************************************************)
(* The SHAKE and SHA3 contexts of sha3.c.  A program runs several of them, *)
(* feeds each in chunks, may clone one at any time by copying the          *)
(* structure, and reads output in chunks.                                  *)
(*                                                                         *)
(* The state A of a context is a function of what was XORed into it before *)
(* each permutation; process_block is a black box.  tape is that history:  *)
(* a multiple of Rate bytes, one block per permutation.  cur is what was   *)
(* XORed since the last one.                                               *)
(***************************************************************************)
EXTENDS Integers, Sequences

CONSTANTS Ctxs,         \* hashing contexts
          Rate,         \* bytes absorbed by one permutation (200 - size / 4)
          Width,        \* bytes of the state (200)
          Bytes,        \* message bytes, as sets of bits
          MaxChunk,     \* bytes given to, or asked of, one call at most
          MaxIn, MaxOut \* bounds of the model: total input and output

ASSUME SpongeAssumption ==
    /\ Rate \in Nat /\ Width \in Nat /\ 1 < Rate
    /\ Width - Rate \in Nat /\ (Width - Rate) \div 2 \in 1..Rate
    /\ MaxChunk \in Nat /\ MaxIn \in Nat /\ MaxOut \in Nat
    /\ \A x \in Bytes : x \subseteq 0..7

VARIABLES tape, cur, dptr,      \* per context: A, and the position in it
          busy,                 \* the context of the call that runs, if any
          rest,                 \* what shake_inject has still to read
          want,                 \* what shake_extract has still to write
          log                   \* history: the bytes of each context's calls

vars == <<tape, cur, dptr, busy, rest, want, log>>

Spot == 0..(Rate - 1)
Blank == [p \in Spot |-> {}]

SuffixShake == {0, 1, 2, 3, 4}          \* 0x1F
SuffixSha3 == {1, 2}                    \* 0x06
LastBit == {7}                          \* 0x80

XorByte(x, y) == (x \ y) \cup (y \ x)

Chunks == UNION { [1..n -> Bytes] : n \in 1..MaxChunk }

Fresh == [phase |-> "input", domain |-> "shake", msg |-> <<>>, out |-> <<>>]

Smaller(x, y) == IF x < y THEN x ELSE y

\* process_block(A): everything XORed so far becomes history
Processed(t, block) == t \o [k \in 1..Rate |-> block[k - 1]]

\* A program calls shake_init first; a context starts as that leaves it.
Init ==
    /\ tape = [c \in Ctxs |-> <<>>]
    /\ cur = [c \in Ctxs |-> Blank]
    /\ dptr = [c \in Ctxs |-> 0]
    /\ busy = {} /\ rest = <<>> /\ want = 0
    /\ log = [c \in Ctxs |-> Fresh]

Idle == busy = {}

ShakeInit(c) ==
    /\ Idle
    /\ tape' = [tape EXCEPT ![c] = <<>>]
    /\ cur' = [cur EXCEPT ![c] = Blank]
    /\ dptr' = [dptr EXCEPT ![c] = 0]
    /\ log' = [log EXCEPT ![c] = Fresh]
    /\ UNCHANGED <<busy, rest, want>>

\* "A running state can be cloned by copying the structure"
Copy(from, to) ==
    /\ Idle
    /\ tape' = [tape EXCEPT ![to] = tape[from]]
    /\ cur' = [cur EXCEPT ![to] = cur[from]]
    /\ dptr' = [dptr EXCEPT ![to] = dptr[from]]
    /\ log' = [log EXCEPT ![to] = log[from]]
    /\ UNCHANGED <<busy, rest, want>>

\* (sha3_update is shake_inject.  A call with no byte changes nothing.)
InjectCall(c, data) ==
    /\ Idle
    /\ log[c].phase = "input"
    /\ Len(log[c].msg) + Len(data) <= MaxIn
    /\ busy' = {c} /\ rest' = data
    /\ log' = [log EXCEPT ![c].msg = @ \o data]
    /\ UNCHANGED <<tape, cur, dptr, want>>

\* a plausible bug: a block that is full waits for the next byte
InjectChunkLazy(c) ==
    /\ busy = {c} /\ rest # <<>>
    /\ LET clen == Smaller(Rate - dptr[c], Len(rest))
           block == [p \in Spot |-> IF p \in dptr[c]..(dptr[c] + clen - 1)
                                    THEN XorByte(cur[c][p], rest[p - dptr[c] + 1])
                                    ELSE cur[c][p]]
       IN  /\ rest' = SubSeq(rest, clen + 1, Len(rest))
           /\ IF dptr[c] + clen = Rate /\ rest' # <<>>
              THEN /\ tape' = [tape EXCEPT ![c] = Processed(@, block)]
                   /\ cur' = [cur EXCEPT ![c] = Blank]
                   /\ dptr' = [dptr EXCEPT ![c] = 0]
              ELSE /\ cur' = [cur EXCEPT ![c] = block]
                   /\ dptr' = [dptr EXCEPT ![c] = @ + clen]
                   /\ UNCHANGED tape
    /\ busy' = IF rest' = <<>> THEN {} ELSE busy
    /\ UNCHANGED <<want, log>>

\* one turn of the loop of shake_inject
InjectChunk(c) ==
    /\ busy = {c} /\ rest # <<>>
    /\ LET clen == Smaller(Rate - dptr[c], Len(rest))
           block == [p \in Spot |-> IF p \in dptr[c]..(dptr[c] + clen - 1)
                                    THEN XorByte(cur[c][p], rest[p - dptr[c] + 1])
                                    ELSE cur[c][p]]
       IN  /\ rest' = SubSeq(rest, clen + 1, Len(rest))
           /\ IF dptr[c] + clen = Rate
              THEN /\ tape' = [tape EXCEPT ![c] = Processed(@, block)]
                   /\ cur' = [cur EXCEPT ![c] = Blank]
                   /\ dptr' = [dptr EXCEPT ![c] = 0]
              ELSE /\ cur' = [cur EXCEPT ![c] = block]
                   /\ dptr' = [dptr EXCEPT ![c] = @ + clen]
                   /\ UNCHANGED tape
    /\ busy' = IF rest' = <<>> THEN {} ELSE busy
    /\ UNCHANGED <<want, log>>

\* a plausible bug: both paddings have the same suffix
PaddedSameSuffix(block, at, suffix) ==
    [p \in Spot |-> XorByte(XorByte(block[p], IF p = at THEN SuffixShake ELSE {}),
                        IF p = Rate - 1 THEN LastBit ELSE {})]

Padded(block, at, suffix) ==
    [p \in Spot |-> XorByte(XorByte(block[p], IF p = at THEN suffix ELSE {}),
                        IF p = Rate - 1 THEN LastBit ELSE {})]

\* The padded block is left for shake_extract to process.
ShakeFlip(c) ==
    /\ Idle
    /\ log[c].phase = "input"
    /\ cur' = [cur EXCEPT ![c] = Padded(@, dptr[c], SuffixShake)]
    /\ dptr' = [dptr EXCEPT ![c] = Rate]
    /\ log' = [log EXCEPT ![c].phase = "output"]
    /\ UNCHANGED <<tape, busy, rest, want>>

ExtractCall(c, n) ==
    /\ Idle
    /\ log[c].phase = "output"
    /\ Len(log[c].out) + n <= MaxOut
    /\ busy' = {c} /\ want' = n
    /\ UNCHANGED <<tape, cur, dptr, rest, log>>

\* what is read at place p, when the state has come from t and holds block
Read(t, p) == [from |-> t, at |-> p]

\* a plausible bug: an exhausted block is not replaced
ExtractChunkNoBlock(c) ==
    /\ busy = {c} /\ want > 0
    /\ LET clen == Smaller(Rate - dptr[c], want)
       IN  /\ dptr' = [dptr EXCEPT ![c] = @ + clen]
           /\ want' = want - clen
           /\ log' = [log EXCEPT ![c].out = @ \o [k \in 1..clen |-> Read(tape[c], dptr[c] + k - 1)]]
    /\ busy' = IF want' = 0 THEN {} ELSE busy
    /\ UNCHANGED <<tape, cur, rest>>

\* one turn of the loop of shake_extract
ExtractChunk(c) ==
    /\ busy = {c} /\ want > 0
    /\ LET full == dptr[c] = Rate
           t == IF full THEN Processed(tape[c], cur[c]) ELSE tape[c]
           first == IF full THEN 0 ELSE dptr[c]
           clen == Smaller(Rate - first, want)
       IN  /\ tape' = [tape EXCEPT ![c] = t]
           /\ cur' = [cur EXCEPT ![c] = IF full THEN Blank ELSE @]
           /\ dptr' = [dptr EXCEPT ![c] = first + clen]
           /\ want' = want - clen
           /\ log' = [log EXCEPT ![c].out = @ \o [k \in 1..clen |-> Read(t, first + k - 1)]]
    /\ busy' = IF want' = 0 THEN {} ELSE busy
    /\ UNCHANGED rest

\* The output length is half the capacity, read from the first block.
Sha3Close(c) ==
    /\ Idle
    /\ log[c].phase = "input"
    /\ LET t == Processed(tape[c], Padded(cur[c], dptr[c], SuffixSha3))
       IN  /\ tape' = [tape EXCEPT ![c] = t]
           /\ log' = [log EXCEPT ![c] =
                [@ EXCEPT !.phase = "closed", !.domain = "sha3",
                          !.out = [k \in 1..((Width - Rate) \div 2) |-> Read(t, k - 1)]]]
    /\ cur' = [cur EXCEPT ![c] = Blank]
    /\ UNCHANGED <<dptr, busy, rest, want>>

Next ==
    \E c \in Ctxs :
      \/ ShakeInit(c)
      \/ \E to \in Ctxs : Copy(c, to)
      \/ \E data \in Chunks : InjectCall(c, data)
      \/ InjectChunk(c)
      \/ ShakeFlip(c)
      \/ \E n \in 1..MaxChunk : ExtractCall(c, n)
      \/ ExtractChunk(c)
      \/ Sha3Close(c)

-----------------------------------------------------------------------------
\* However the input and the output are cut into calls, and wherever a context
\* was cloned, what is read is the sponge function of the message that was
\* injected.  (The block boundaries of shake_inject, the padding that
\* shake_flip leaves in place, the lazy processing of shake_extract.)
Promise == INSTANCE HashStream
IsStream == Promise!Spec

\* Two contexts give the same first byte only if they were given the same
\* message and are of the same kind: the padding never makes two messages one,
\* and the suffixes keep SHA3 and SHAKE apart.
SameMessage ==
    \A x, y \in Ctxs :
      /\ log[x].out # <<>> /\ log[y].out # <<>>
      /\ log[x].out[1] = log[y].out[1]
      => log[x].msg = log[y].msg /\ log[x].domain = log[y].domain

\* The loops over blocks of shake_inject and shake_extract end.
Returns == busy # {} ~> busy = {}
=============================================================================
