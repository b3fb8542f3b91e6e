---------------------------- MODULE ScalarLimbs ----------------------------
(***************************************************************************)
(* The loops of scalar_ref.c over the limbs of a scalar: addition and      *)
(* subtraction with their two conditional corrections, normalisation, and  *)
(* Montgomery multiplication.  Every intermediate value is an unsigned     *)
(* word of WordBits bits, as uint32_t is for limbs of 15 bits: sums may    *)
(* wrap, and a borrow is the top bit of a wrapped difference.  ScalarArith *)
(* says which integer each function must come to.                          *)
(***************************************************************************)
EXTENDS ScalarArith

CONSTANTS LimbBits,     \* 15
          Limbs,        \* 17
          TopBits,      \* bits of 2^252 that are in the top limb: 12
          WordBits,     \* 32
          Operands      \* the scalars to compute with

VARIABLES op,           \* the function that runs
          a, b,         \* its operands
          d, dh,        \* the limbs under construction, and mmul's extra one
          i, j,         \* the loop counters of the code
          m,            \* mask of the conditional correction
          f, g,         \* multipliers of the row (scalar_mmul)
          cc,           \* carry or borrow
          pc,
          ret           \* value returned by scalar_normalize

limbVars == <<op, a, b, d, dh, i, j, m, f, g, cc, pc, ret>>

B == 2^LimbBits
Index == 0..(Limbs - 1)

ASSUME LimbAssumption ==
    /\ LimbBits \in Nat \ {0} /\ Limbs \in Nat \ {0} /\ TopBits \in 0..(LimbBits - 1)
    /\ R = 2^(LimbBits * Limbs) /\ Top = 2^(LimbBits * (Limbs - 1) + TopBits)
    /\ WordBits \in Nat /\ WordBits >= 2 * LimbBits + 2
    /\ Operands \subseteq Scalars

\* The laws of powers that the proofs use, up to the largest exponents in use.
Exponents == 0..(LimbBits * Limbs + WordBits)
ASSUME LimbPowerLaws ==
    /\ 2^0 = 1 /\ 2^1 = 2
    /\ \A k \in Exponents : 2^k \in Nat \ {0}
    /\ \A k, l \in Exponents : k + l \in Exponents => 2^(k + l) = 2^k * 2^l
    /\ \A k \in 0..Limbs : B^k = 2^(LimbBits * k)

Word(x) == x % 2^WordBits
Low(x) == x % B
\* a plausible bug: a carry is taken one bit too low
CarryShort(x) == x \div (B \div 2)
Carry(x) == x \div B
Borrow(x) == x \div 2^(WordBits - 1)

ToLimbs(x) == [k \in Index |-> (x \div B^k) % B]

\* the integer in the limbs below n
Value(x, n) == LET s[k \in 0..n] == IF k = 0 THEN 0 ELSE s[k - 1] + x[k - 1] * B^(k - 1)
               IN  s[n]

order == ToLimbs(N)
N0 == order[0]
\* a plausible bug: the inverse of N and not its opposite
N0IPlus == Low(-NegInv)
N0I == Low(NegInv)      \* -1/N modulo one limb

LimbsInit ==
    /\ op \in {"add", "sub", "normalize", "mmul"}
    /\ a \in { ToLimbs(x) : x \in Operands }
    /\ b \in { ToLimbs(x) : x \in IF op = "normalize" THEN {0} ELSE Operands }
    /\ d = ToLimbs(0) /\ dh = 0
    /\ i = 0 /\ j = 0 /\ m = 0 /\ f = 0 /\ g = 0 /\ cc = 0 /\ ret = 0
    /\ pc = CASE op = "add" -> "sum" [] op = "sub" -> "difference"
              [] op = "normalize" -> "reduce" [] op = "mmul" -> "row"

\* the limb i of d and the next carry or borrow, from one word
SetLimb(w, carry) ==
    /\ i < Limbs
    /\ d' = [d EXCEPT ![i] = Low(w)]
    /\ cc' = carry
    /\ i' = i + 1

Sum ==
    /\ pc = "sum"
    /\ LET w == Word(a[i] + b[i] + cc) IN SetLimb(w, Carry(w))
    /\ UNCHANGED <<op, a, b, dh, j, m, f, g, pc, ret>>

Difference ==
    /\ pc = "difference"
    /\ LET w == Word(a[i] - b[i] - cc) IN SetLimb(w, Borrow(w))
    /\ UNCHANGED <<op, a, b, dh, j, m, f, g, pc, ret>>

FirstPassEnd ==
    /\ pc \in {"sum", "difference"} /\ i = Limbs
    /\ pc' = "mask"
    /\ UNCHANGED <<op, a, b, d, dh, i, j, m, f, g, cc, ret>>

\* a plausible bug: only the lowest of the bits above 2^252 is looked at
TooLargeOneBit == (d[Limbs - 1] \div 2^TopBits) % 2 = 1

TooLarge == d[Limbs - 1] \div 2^TopBits # 0
Negative == d[Limbs - 1] \div 2^(LimbBits - 1) # 0

Mask ==
    /\ pc = "mask" /\ j < 2
    /\ m' = IF (op = "add" /\ TooLarge) \/ (op = "sub" /\ Negative) THEN 1 ELSE 0
    /\ cc' = 0 /\ i' = 0
    /\ pc' = "correct"
    /\ UNCHANGED <<op, a, b, d, dh, j, f, g, ret>>

Correct ==
    /\ pc = "correct"
    /\ \/ /\ op = "add"
          /\ LET w == Word(d[i] - m * order[i] - cc) IN SetLimb(w, Borrow(w))
       \/ /\ op = "sub"
          /\ LET w == Word(d[i] + m * order[i] + cc) IN SetLimb(w, Carry(w))
    /\ UNCHANGED <<op, a, b, dh, j, m, f, g, pc, ret>>

CorrectEnd ==
    /\ pc = "correct" /\ i = Limbs
    /\ j' = j + 1
    /\ pc' = "mask"
    /\ UNCHANGED <<op, a, b, d, dh, i, m, f, g, cc, ret>>

CorrectionsEnd ==
    /\ pc = "mask" /\ j = 2
    /\ pc' = "done"
    /\ UNCHANGED <<op, a, b, d, dh, i, j, m, f, g, cc, ret>>

Reduce ==
    /\ pc = "reduce"
    /\ LET w == Word(a[i] - order[i] - cc) IN SetLimb(w, Borrow(w))
    /\ UNCHANGED <<op, a, b, dh, j, m, f, g, pc, ret>>

\* a borrow means that the source was below the order: it is kept
Select ==
    /\ pc = "reduce" /\ i = Limbs
    /\ d' = [k \in Index |-> IF cc = 1 THEN a[k] ELSE d[k]]
    /\ ret' = cc
    /\ pc' = "done"
    /\ UNCHANGED <<op, a, b, dh, i, j, m, f, g, cc>>

\* scalar_mmul adds a[i] * b and the multiple of the order that clears the low
\* limb, and shifts by one limb.
RowStart ==
    /\ pc = "row" /\ i < Limbs
    /\ LET t == Word(d[0] + a[i] * b[0])
           q == Low(Word(t * N0I))
       IN  /\ f' = a[i] /\ g' = q
           /\ cc' = Carry(Word(t + q * N0))
    /\ j' = 1
    /\ pc' = "inner"
    /\ UNCHANGED <<op, a, b, d, dh, i, m, ret>>

Inner ==
    /\ pc = "inner" /\ j < Limbs
    /\ LET h == Word(d[j] + f * b[j] + g * order[j] + cc)
       IN  /\ d' = [d EXCEPT ![j - 1] = Low(h)]
           /\ cc' = Carry(h)
    /\ j' = j + 1
    /\ UNCHANGED <<op, a, b, dh, i, m, f, g, pc, ret>>

RowEnd ==
    /\ pc = "inner" /\ j = Limbs
    /\ d' = [d EXCEPT ![Limbs - 1] = Low(Word(dh + cc))]
    /\ dh' = Carry(Word(dh + cc))
    /\ i' = i + 1
    /\ pc' = "row"
    /\ UNCHANGED <<op, a, b, j, m, f, g, cc, ret>>

RowsEnd ==
    /\ pc = "row" /\ i = Limbs
    /\ pc' = "done"
    /\ UNCHANGED <<op, a, b, d, dh, i, j, m, f, g, cc, ret>>

LimbsNext ==
    \/ Sum \/ Difference \/ FirstPassEnd \/ Mask \/ Correct \/ CorrectEnd \/ CorrectionsEnd
    \/ Reduce \/ Select
    \/ RowStart \/ Inner \/ RowEnd \/ RowsEnd

LimbsSpec == LimbsInit /\ [][LimbsNext]_limbVars

-----------------------------------------------------------------------------
\* Limbs stay limbs, although each is stored in a wider word.  "No possible carry
\* at this point (cc = 0)"; "If cc <= 2^16 ... cc will be at most 2^16 on output";
\* "the new dh value can be only 0 or 1"; "in particular, that dh = 0" at the end.
CarriesBounded ==
    /\ d \in [Index -> 0..(B - 1)]
    /\ f \in 0..(B - 1) /\ g \in 0..(B - 1)
    /\ pc = "mask" /\ op = "add" /\ j = 0 => cc = 0
    /\ pc = "inner" => cc <= 2 * B
    /\ dh \in {0, 1}
    /\ pc = "done" => dh = 0

\* Half-way through a pass, the limbs done and the carry are the sum or the
\* difference of the limbs read.
PassesExact ==
    /\ pc = "sum" => Value(d, i) + cc * B^i = Value(a, i) + Value(b, i)
    /\ pc = "difference" => Value(d, i) - cc * B^i = Value(a, i) - Value(b, i)
    /\ pc = "reduce" => Value(d, i) - cc * B^i = Value(a, i) - Value(order, i)

\* After each row, what was accumulated is the product with the rows of a that
\* were used, modulo the order and up to the shifts, and it stays small.
RowsCongruent ==
    pc = "row" =>
      LET acc == Value(d, Limbs) + dh * B^Limbs
      IN  /\ (acc * B^i - Value(a, i) * Value(b, Limbs)) % N = 0
          /\ acc <= Value(b, Limbs) + N

\* Each function returns exactly the integer that ScalarArith gives for it.
Computed ==
    LET x == Value(a, Limbs)
        y == Value(b, Limbs)
    IN  CASE op = "add" -> ScalarAdd(x, y)
          [] op = "sub" -> ScalarSub(x, y)
          [] op = "normalize" -> Normalize(x)
          [] op = "mmul" -> ScalarMmul(x, y)
MatchesArithmetic ==
    pc = "done" =>
      /\ Value(d, Limbs) = Computed
      /\ op = "normalize" => (ret = 1 <=> WasNormal(Value(a, Limbs)))
=============================================================================
