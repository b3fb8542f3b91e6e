----------------------------- MODULE ScalarRing -----------------------------
(***************************************************************************)
(* What curve9767.h promises of scalars: each is an integer modulo the     *)
(* curve order, and a function that tests, compares or encodes depends on  *)
(* that integer only, never on how it is represented.  The destination of  *)
(* an operation may be one of its operands.                                *)
(***************************************************************************)
EXTENDS Integers

CONSTANTS N,            \* the curve order
          Top, Chunk,   \* what 32 and 31 bytes hold (2^252, 2^248)
          Regs          \* the scalar structures of the program

VARIABLES val,          \* their residues
          call,         \* the last call: a function's name; for a test, its operands too
          answer,       \* what it returned; 0 for a void function
          reading       \* the structure decode_reduce is filling, or {}

vars == <<val, call, answer, reading>>

Flag(p) == IF p THEN 1 ELSE 0

Idle == reading = {}

Init ==
    /\ val \in [Regs -> {0, 1}]
    /\ call = <<"none">>
    /\ answer = 0
    /\ reading = {}

Assign(name, z, residue) ==
    /\ Idle
    /\ call' = <<name>>
    /\ val' = [val EXCEPT ![z] = residue % N]
    /\ answer' = 0
    /\ UNCHANGED reading

Tell(question, value) ==
    /\ Idle
    /\ call' = question
    /\ answer' = value
    /\ UNCHANGED <<val, reading>>

Arithmetic(z, x, y) ==
    \/ Assign("add", z, val[x] + val[y])
    \/ Assign("sub", z, val[x] - val[y])
    \/ Assign("mul", z, val[x] * val[y])
    \/ Assign("neg", z, -val[x])
    \/ Assign("condcopy", z, val[x])

\* Accepted exactly when it is the encoding of a residue; "the scalar contents
\* are indeterminate" otherwise.
DecodeStrict(z, low, ignored) ==
    /\ Idle
    /\ call' = <<"decode_strict">>
    /\ answer' = Flag(low < N /\ ~ignored)
    /\ \E r \in 0..(N - 1) :
         /\ answer' = 1 => r = low
         /\ val' = [val EXCEPT ![z] = r]
    /\ UNCHANGED reading

\* Integers of any length are read modulo N, from the most significant bytes.
DecodeReduceFirst(z, chunk) ==
    /\ Idle
    /\ call' = <<"decode_reduce">>
    /\ val' = [val EXCEPT ![z] = chunk % N]
    /\ answer' = 0
    /\ reading' \in {{}, {z}}

DecodeReduceNext(z, chunk) ==
    /\ reading = {z}
    /\ val' = [val EXCEPT ![z] = (@ * Chunk + chunk) % N]
    /\ reading' \in {{}, {z}}
    /\ UNCHANGED <<call, answer>>

Next ==
    \/ \E x, y, z \in Regs : Arithmetic(z, x, y)
    \/ \E x \in Regs : Tell(<<"encode", x>>, val[x]) \/ Tell(<<"is_zero", x>>, Flag(val[x] = 0))
    \/ \E x, y \in Regs : Tell(<<"eq", x, y>>, Flag(val[x] = val[y]))
    \/ \E z \in Regs, chunk \in 0..(Chunk - 1) :
         DecodeReduceFirst(z, chunk) \/ DecodeReduceNext(z, chunk)
    \/ \E z \in Regs, low \in 0..(Top - 1), ignored \in BOOLEAN : DecodeStrict(z, low, ignored)

Spec == Init /\ [][Next]_vars
=============================================================================
