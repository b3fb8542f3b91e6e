------------------------------- MODULE Scalar -------------------------------
(***************************************************************************)
(* The scalar API of scalar_ref.c: a program makes any sequence of calls   *)
(* on its scalar structures, with any aliasing of operands and result.     *)
(*                                                                         *)
(* A structure may hold any of several integers that stand for the same    *)
(* residue.  No function normalises its result; each relies on the API     *)
(* bound 1.27 * N for its operands and must give it back, over every       *)
(* sequence of calls.                                                      *)
(***************************************************************************)
EXTENDS ScalarArith

CONSTANTS Regs,         \* the scalar structures of the program
          Inputs        \* the 252-bit values it may have to decode

ASSUME InputAssumption == Inputs \subseteq 0..(Top - 1)

VARIABLES reg,          \* the integer each of them holds
          call,         \* the last call: a function's name; for a test, its operands too
          answer,       \* what it returned; 0 for a void function
          reading       \* the structure decode_reduce is filling, or {}

vars == <<reg, call, answer, reading>>

Flag(p) == IF p THEN 1 ELSE 0

\* Calls do not overlap: only the loop of decode_reduce has steps of its own.
Idle == reading = {}

\* structures start as copies of curve9767_scalar_zero or curve9767_scalar_one
Init ==
    /\ reg \in [Regs -> {0, 1}]
    /\ call = <<"none">>
    /\ answer = 0
    /\ reading = {}

Put(name, z, value) ==
    /\ Idle
    /\ call' = <<name>>
    /\ reg' = [reg EXCEPT ![z] = value]
    /\ answer' = 0
    /\ UNCHANGED reading

Tell(question, value) ==
    /\ Idle
    /\ call' = question
    /\ answer' = value
    /\ UNCHANGED <<reg, reading>>

Add(z, x, y) == Put("add", z, ScalarAdd(reg[x], reg[y]))
Sub(z, x, y) == Put("sub", z, ScalarSub(reg[x], reg[y]))
Neg(z, x) == Put("neg", z, ScalarSub(0, reg[x]))
Mul(z, x, y) == Put("mul", z, ScalarMul(reg[x], reg[y]))
CondCopy(z, x, ctl) == Put("condcopy", z, IF ctl THEN reg[x] ELSE reg[z])

\* len >= 32: low holds the 252 bits that are read, and the bits above them
\* must be zero.  The value is normalised in place, accepted or not.
DecodeStrict(z, low, ignored) ==
    /\ Idle
    /\ call' = <<"decode_strict">>
    /\ answer' = Flag(~ignored /\ WasNormal(low))
    /\ reg' = [reg EXCEPT ![z] = Normalize(low)]
    /\ UNCHANGED reading

\* len <= 31: "hence necessarily correct"
DecodeStrictShort(z, low) ==
    /\ Idle
    /\ call' = <<"decode_strict">>
    /\ answer' = 1
    /\ reg' = [reg EXCEPT ![z] = low]
    /\ UNCHANGED reading

\* the most significant chunk, of 31 bytes or less; more may follow
DecodeReduceFirst(z, chunk) ==
    /\ Idle
    /\ call' = <<"decode_reduce">>
    /\ reg' = [reg EXCEPT ![z] = chunk]
    /\ answer' = 0
    /\ reading' \in {{}, {z}}

DecodeReduceNext(z, chunk) ==
    /\ reading = {z}
    /\ reg' = [reg EXCEPT ![z] = Absorb(@, chunk)]
    /\ reading' \in {{}, {z}}
    /\ UNCHANGED <<call, answer>>

\* a plausible bug: the two representations are compared
EqRaw(x, y) == Tell(<<"eq", x, y>>, Flag(reg[x] = reg[y]))

Encode(x) == Tell(<<"encode", x>>, Normalize(reg[x]))
IsZero(x) == Tell(<<"is_zero", x>>, Flag(Normalize(reg[x]) = 0))
Eq(x, y) == Tell(<<"eq", x, y>>, Flag(Normalize(ScalarSub(reg[x], reg[y])) = 0))

Next ==
    \/ \E x, y, z \in Regs : Add(z, x, y) \/ Sub(z, x, y) \/ Mul(z, x, y)
    \/ \E x, z \in Regs : Neg(z, x)
    \/ \E x, z \in Regs, ctl \in BOOLEAN : CondCopy(z, x, ctl)
    \/ \E z \in Regs, low \in Inputs, ignored \in BOOLEAN : DecodeStrict(z, low, ignored)
    \/ \E z \in Regs, low \in 0..(Chunk - 1) : DecodeStrictShort(z, low)
    \/ \E z \in Regs, chunk \in 0..(Chunk - 1) :
         DecodeReduceFirst(z, chunk) \/ DecodeReduceNext(z, chunk)
    \/ \E x \in Regs : Encode(x) \/ IsZero(x)
    \/ \E x, y \in Regs : Eq(x, y)

Spec == Init /\ [][Next]_vars

-----------------------------------------------------------------------------
Calls ==
    {<<name>> : name \in {"none", "add", "sub", "mul", "neg", "condcopy",
                          "decode_strict", "decode_reduce"}}
        \cup {<<name, x>> : name \in {"encode", "is_zero"}, x \in Regs}
        \cup {<<"eq", x, y>> : x, y \in Regs}

TypeOK ==
    /\ reg \in [Regs -> Nat]
    /\ call \in Calls
    /\ answer \in Nat
    /\ reading \in SUBSET Regs

\* No sequence of calls takes a scalar out of the range every function relies
\* on ("the API level to be lower than 1.27*n"), the loop of decode_reduce
\* included, and although results are fed back unnormalised.
InRange == \A r \in Regs : reg[r] \in Scalars

\* The program computes with residues: what it answers never depends on the
\* representation its history of calls happened to produce.
Ring == INSTANCE ScalarRing WITH val <- [r \in Regs |-> reg[r] % N]
IsRing == Ring!Spec
=============================================================================
