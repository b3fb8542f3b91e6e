# Curve9767 in TLA+

Curve9767 is an elliptic curve library in C (`src/src`), with variants for
Cortex-M0+, Cortex-M4 and AVX2. It has no threads and no persistent state. What
is hard about it is of another kind:

* values are kept in **redundant or truncated representations** (a scalar may
  exceed the order, a "small" lattice register silently drops bits, a Montgomery
  reduction omits its final correction, a point at infinity has coordinates),
  under bounds that only comments state, and every result is the operand of a
  later call;
* **loops** whose length depends on the data end because of an argument on
  norms, and **variants** of the same function take other registers, formulas and
  orders of operations;
* **hashing contexts** are fed and read in chunks of any length, are cloned in
  the middle of a block, and defer work from one call to the next;
* **protocol functions** compute with inputs that were refused, and combine the
  verdicts at the end; outputs may be absent, and buffers shared.

## 1. Inventory

| component | state | operations | used by |
|---|---|---|---|
| scalars (`scalar_*.c`) | 17 limbs of 15 bits, value below 1.27 n | add, sub, neg, mul, condcopy, two decoders, encode, is_zero, eq | everything below |
| lattice reduction (`scalar_ref.c`, `scalar_arm.c` + `scalar_cm0.s`, `scalar_cm4.s`, `scalar_amd64.c`) | vectors u, v; norms nu, nv; product sp | one call, a loop of swaps and combinations | verification |
| hashing contexts (`sha3.c`) | 200 bytes A, position dptr, rate | init, inject, flip, extract; init, update, close; copy of the structure | protocols, hash to curve |
| Keccak permutation (`sha3.c`, `sha3_cm4.c`) | A, round | 24 rounds on complemented, moved or interleaved words | hashing contexts |
| field GF(9767), GF(9767^19) (`ops_*.c`, `ops_*.s`) | coefficients in 1..p; AVX2 vectors with five lanes to ignore | add, sub, neg, mul, sqr, inv, sqrt, cubert, comparisons | points |
| point codec (`curve9767.c`, `ops_*.c`) | 32 bytes | encode, encode_X, decode, seeds to elements | protocols, hash to curve |
| points (`ops_*.c`, `curve9767.c`) | x, y, neutral flag | add, sub, neg, mul2k, set_neutral, Icart map | multiplication, protocols |
| point multiplication (`ops_*.c`) | windows of 8 or 16 points, accumulator | mul, mulgen, mul_mulgen_add | protocols |
| verification product (`ops_*.c`) | NAF digits, windows, accumulator | verify_mul_mulgen_add_vartime | sign_verify_vartime |
| protocols (`keygen.c`, `ecdh.c`, `sign.c`, `hash.c`) | none between calls | keygen, ecdh_keygen, ecdh_recv, sign_generate, two verifiers, hash_to_curve | applications |
| tests, benchmarks | - | - | - |

What makes each correct:

* *Scalars*: every function maps residues to residues, whatever the
  representation of its operands; no sequence of calls leaves the range that the
  next call relies on; no 32-bit word overflows where it matters.
* *Lattice reduction*: for a scalar b it ends, and gives c0, c1 with c1 # 0,
  c0 = c1 b mod n and both below 2^127 in absolute value, although the registers
  that hold the vectors are too narrow for them during the loop; the variants give
  the same pair.
* *Hashing*: the output depends on the message only, not on how it was
  cut, nor on the other contexts; different messages or functions never reach the
  permutation as the same input; the permutation is Keccak-f[1600].
* *Field*: results are valid operands, are right modulo p and z^19 - 2, and the
  addition chains reach the powers they are written for.
* *Points*: the group law, with all its special cases and arbitrary coordinates at
  infinity; encodings stand for one point each.
* *Multiplication, verification*: the result is the stated combination for all
  scalars and points, infinity included; verification accepts exactly when the
  equation holds, whatever half-size multiple it used.
* *Protocols*: the same seed gives the same keys whatever is asked for; partners
  agree; failed exchanges give secrets of their own; signatures verify, and
  verifiers answer as defined.

Hazards, each at its line and with the properties that watch it, are in
`PROJECT.json`.

## 2. Modules

Each group has pure operators, a machine, an abstract specification of what it
promises, and proofs in a module of their own. A run may hold two machines
(`LatticeVariants`, `Verification`, `Hashing`, `FieldCalls`): a behaviour is then
one of the two, or one after the other.

| module | models | extends / instantiates |
|---|---|---|
| `LatticeBasis` | signed words of a given width (truncation, shift, bit length, unsigned comparison); the updates of a combination step on registers, the exact ones beside them | |
| `LatticePromise` | inner.h: any half-size c0, c1 with c0 = c1 b mod n, delivered once | |
| `LatticeReduce` | `scalar_ref.c`: the loop, one action per branch | `LatticeBasis`; `LatticePromise` |
| `LatticeArm` | the ARM driver and the Cortex-M0+ core, whose large registers narrow | `LatticeBasis`; `LatticeReduce` |
| `LatticeAmd64` | the two loops of `scalar_amd64.c`, the second on fewer words | `LatticeBasis` |
| `LatticeVariants` | the reference, the ARM core, then the amd64 function, on the same scalar | `LatticeReduce`; `LatticeArm`, `LatticeAmd64` |
| `ScalarArith` | each internal scalar function as a function of integers | |
| `ScalarRing` | curve9767.h: integers modulo n | |
| `Scalar` | the API, any sequence of calls on shared structures | `ScalarArith`; `ScalarRing` |
| `ScalarLimbs` | the limb loops on wrapping words, against `ScalarArith` | `ScalarArith` |
| `HashStream` | sha3.h: the sponge function of FIPS 202 on whole messages | |
| `Shake` | `sha3.c`: contexts, chunks, padding, deferred permutation | `HashStream` |
| `KeccakF` | FIPS 202: the step mappings of Keccak-f[1600] | |
| `Keccak` | process_block of `sha3.c` and of `sha3_cm4.c` | `KeccakF` |
| `Hashing` | the contexts and the permutation | `Shake`, `Keccak` |
| `MontyWords` | the functions mp_*() on wrapping words, and their lane counterparts | |
| `FieldRing` | inner.h: polynomials modulo p and z^19 - 2 | |
| `FieldRef`, `FieldAvx2` | the field functions of `ops_ref.c`, and of `ops_avx2.c` on vectors of lanes | `MontyWords` |
| `Field` | any sequence of field calls in either build | `FieldAvx2`; `FieldRing` |
| `FieldPowers` | inversion, roots and residue test, as programs on exponents | |
| `FieldCalls` | both | `Field`; `FieldPowers` |
| `ExtensionField` | GF(9767^19) by value, with the real parameters | |
| `CurvePoints` | point_add, point_mul2k of both builds, make_y, the Icart map, on coordinates | `ExtensionField` |
| `PointCodec` | bytes of elements and points; 48 bytes to an element | `CurvePoints` |
| `CurveProducts` | point_mul of both builds on coordinates | `PointCodec` |
| `GroupLaw` | curve9767.h: the group of the curve, as textbooks give it | `ExtensionField` |
| `Curve`, `CurveMC` | a caller with two points and a buffer; the seeds it hashes | `CurveProducts`; `GroupLaw` |
| `Naf` | the recoding loop and the digits that are read off later, for both builds | |
| `NafRecode` | the recoding as a machine, for every multiplier | `Naf` |
| `CurveGroup` | points as a flag and coordinates, over a cyclic group | |
| `VerifyPromise` | curve9767.h: whether s1\*Q1 + s2\*G = Q2 | |
| `VerifyProduct` | the verification: reduction, recoding, joint loop, verdict, in both builds | `Naf`, `CurveGroup`; `LatticePromise`, `VerifyPromise` |
| `Verification` | the verification, and the recoding by itself | `VerifyProduct`; `NafRecode` |
| `ProductPromise` | curve9767.h: the three products | |
| `PointMul` | the three constant-time multiplications, in both builds | `CurveGroup`; `ProductPromise` |
| `Protocols` | `keygen.c`, `ecdh.c`, `sign.c` | |
| `Congruence` | congruence and division of integers: definitions, lemmas | |
| `Lattice_proofs` | proofs about the three reductions | `LatticeVariants` |
| `Scalar_proofs` | proofs about scalars and their limb loops | `Scalar`, `ScalarLimbs`, `Congruence` |
| `Field_proofs` | proofs about words, polynomials and calls | `FieldCalls`, `Congruence` |
| `Hashing_proofs` | proofs about contexts, the permutation, and the protocols that use them | `Hashing`, `Protocols`, `Congruence` |
| `Curve_proofs` | proofs about seeds, the codec and points on coordinates | `Curve`, `Congruence` |
| `PointMul_proofs`, `Verification_proofs` | proofs | the module of that name, `Congruence` |

`build` is "ref" or "avx2" wherever both builds are modelled. Much of `ops_arm.c`,
`scalar_arm.c` and `scalar_amd64.c` repeats the text of `ops_ref.c` and
`scalar_ref.c`; the map of `PROJECT.json` names one of the copies for each
definition.

**Lattice.** `u`, `v`, `nu`, `nv`, `sp` are the registers as signed integers
of their width. `eu`, `ev` are history variables: the vectors that an unbounded
machine would hold. A turn of the loop is `Swap` or `Keep` (the comparison), then
`Return`, `Subtract` or `Add`. Shifts and sums truncate as `DEF_OP_LSHIFT` and
its counterparts do. Limbs are not visible here: a register is one integer. In
`LatticeArm`, `width` is the register that counts words (r6), and `Narrow` or
`KeepWidth` the size test between the comparison and the length test. In
`LatticeAmd64`, `loop` says which of the two loops runs; `topNegative` is the
sign bit of the most significant word of sp as the code left it, and `astray`
remembers that a step was taken on a sign that was not that of sp.

**Scalars.** In `Scalar` a structure is the integer it represents, and an
action is one API call with any aliasing. The loop of `decode_reduce` has a step
per 31-byte chunk (`reading` names the structure being filled), since its
intermediate values have bounds of their own; no other call runs meanwhile.
`call` and `answer` are the last call and what it
returned, so that an abstract step answers the same question. The ring sees a structure through
`reg[r] % N`, which is the refinement mapping. `ScalarLimbs` executes one limb
per step; `pc`, `i`, `j`, `cc`, `m`, `f`, `g`, `dh` are the C variables.

**Hashing.** In `Shake` the permutation is a black box, so that the state of a context is
represented by what was XORed into it: `tape`, a block per permutation, and
`cur`, the block under construction. An output byte is the pair of the tape and a
position; two bytes are equal only if they are so for every permutation. A byte
is the set of its bits, and XOR is symmetric difference. `InjectChunk` and
`ExtractChunk` are one turn of the loops. In `HashStream` the input of the
permutation is computed from the whole message by the padding rule. In `Keccak` a
lane is the set of its bits; a step is one round of either code, the pair of
rounds of `sha3.c` with the chain of moves that ends it, or the five passes
of `sha3_cm4.c` through its stack buffer; the refinement mapping puts the words
back in place and complements them.

**Field.** In `Field` an operand is the sequence of its words, in the build's own
layout (19 coefficients, or 24 lanes), and an action is one call. Besides the
functions of inner.h it has the expressions that points compute with late
reductions: the numerator of the tangent's slope and the first doubling. In
`FieldPowers` a register is the exponent that it has reached, in base p; the
Frobenius tables are copied from the source and must be the operators they are
named for. `ExtensionField` is the field by value, the level at which the points
are modelled.

**Points.** `CurvePoints` to `Curve` work on coordinates, with the real field and
curve. A sum of two points at infinity ORs their words: the model allows the
coordinates of either. `m1`, `m2` are history variables, the multiples that the
points should be; `call` names the call for `GroupLaw`.

**Multiplication, verification.** In `CurveGroup` a finite point is represented by
its discrete logarithm, which stands for its coordinates; infinity is a flag,
beside which the coordinates mean nothing (`Junk`, or whatever the caller left).
Windows hold coordinates only, as in the code. The AVX2 `point_mul` keeps its sum
in Jacobian coordinates, with an addition that gives junk for equal or opposite
operands; all three AVX2 functions write Q3 last. The precomputed tables are the
multiples their comments name: their numbers are not part of the model. In
`VerifyProduct` the four accumulators acc0..acc3, digits m0..m3 and bit
fields (or recoded arrays rc0..rc2, AVX2) are functions of the number of the
multiplier; `Reduce` takes any answer
that `LatticePromise` allows, which is how the two parts are composed, and
computes c1\*s2 as `ScalarRing` allows. `Skip` is the `continue` of the loop.
`sums` is a history variable. In `PointMul` a turn of a loop is an action and
`alias` says that Q3 is Q1.

**Protocols.** Points are logarithms, scalars residues, encodings terms. SHAKE256
is `oracle`: the output for a new input is any output, and stays. An absent output
is one the caller does not ask for. `sign_commit` and `sign_respond` are the two
halves of `sign_generate`; `mem` holds the buffers of the signature and of hv,
which may be the same.

## 3. Runs

| run | instance | what it shows |
|---|---|---|
| `lattice_reduce` | n = 509, every scalar below 1.27 n, target 10 bits | the registers hold what the exact computation gives, the loop shrinks the basis, ends, and keeps the promise |
| `lattice_variants` | n = 1021; ARM registers of 23 bits that lose 3 at a time; amd64 registers of 23, then 18 bits | neither code loses anything with the top words it drops, and the amd64 registers are exact until a step is taken on the stale sign; the ARM loop is the reference loop; all three return the same pair, unless a step of the amd64 function went astray, which alone can keep it from ending |
| `lattice_amd64_stale` | n = 1021, the same registers | (violation) it does go astray and then does not end: see below |
| `scalar_api` | n = 57, 2^252 as 64, radix 1024, chunk of 4, two structures, four inputs | range and ring, over all sequences of calls |
| `scalar_limbs` | n = 457, 3 limbs of 4 bits, words of 10 bits, 24 operands | limb loops compute `ScalarArith` exactly |
| `hashing` | two contexts, rate 2, two byte values; the real permutation on two states | chunking, padding, clones, separation of SHAKE from SHA3, deferred permutation, termination; both permutations, round by round |
| `field` | p = 19, half words of 7 bits, sequences of 3 calls; the real programs for powers | coefficients stay in range, late reductions are right, vectors lose no coefficient; powers are reached |
| `curve` | the real field and curve, sequences of 5 calls, four seeds | group law, codec, hash to curve, point_mul on coordinates |
| `verification` | n = 57853, two bytes of 5 bits per half, windows 4 and 5; every multiplier of three bytes | recoding, digits formed on the fly, deferred doublings, verdict |
| `point_mul` | n = 1029001, digits of 3 bits, quarters of two digits | signed windows, infinity, aliasing, incomplete additions |
| `protocols` | n = 5, two users, two hashes, 6 calls | keys, agreement, failed exchanges, signatures |
| `sign_vartime_infinity` | the same, 3 calls | (violation) the faster verifier at the encoding of infinity |

**Bounds.** The lattice instances keep the proportions of the real parameters
(the real ones: n of 252 bits, target 253, answers of 127 bits, small registers
of 150 bits, large ones of 510): `Target` is one more than the length of n,
`Half` about half of it, and `Large` about twice. All scalars are initial states,
which covers reductions of zero to several turns, swaps both ways, both signs of
sp, shifts that overshoot and vectors beyond the small registers. In the scalar
instances `N` lies between `Top`/1.14 and `Top`/1.12 as the real order does
(2^252/n = 1.1327), which is what every bound in the comments depends on; the
inputs include 0, n-1, n and the largest value. Words of
2\*LimbBits+2 bits are the counterpart of 32-bit words for 15-bit limbs: the
inner product of `scalar_mmul` uses them to the last bit.

In `hashing` input and output cross two block boundaries, and the byte values
include one equal to the first padding byte, so that a message can look like
padding. The permutation starts from the zero state, and from one with bits in
every word; in 24 rounds every bit of the state takes part.

The field instance has p = 19, the largest prime with a residue to extend by whose
37 p^2 = 13357 is within the bound of the reduction for words of 14 bits, 14098, as
the real 3529588693 is within 3654952486: operands of 19 (zero, the largest
word) reach it. Uniform operands give the largest sums, and operands with one
coefficient place every product; lanes to ignore hold zeros or all ones.
`FieldPowers` and the curve run have the real parameters. `MaxCalls` bounds the
sequences: five calls are enough to reach, for instance, equal points by different
ways, or an infinity with odd coordinates as the operand of another call. The seeds
are 0 and p^19, which are mapped to zero and so to infinity, the largest one, and
a vector of `test_curve9767.c`. Products take scalars of three digits at the end,
positive and negative digits, and the whole chain of turns at infinity before.

In the multiplications the order leaves as many bits free on top as the real one
does (4 of 256, for a 252-bit order) in `verification`; in `point_mul`, n is 6.87
times the largest intermediate multiple of the AVX2 loop, as the comment of the
source computes 6.84 for the real one: with a smaller n the incomplete addition
would be wrong before the last turn. The scalars include 0, 1, those beyond the
order, those whose shifted form is 0 or n-1, and small ones, for which the sum
stays at infinity over many turns; the points include infinity with two different
left-over coordinates, and small multiples of G, for which sums of windows
cancel or coincide. In `protocols` an order of 5 has every coincidence (nonce and
challenge zero, a key equal to its opposite's partner), and six calls are two key
generations, a signature in two steps, and two verifications or exchanges.
`MaxIn`, `MaxOut` and `MaxChunk` bound the lengths; `MaxBits` bounds a
loop in the definition of bit length; `MaxShift` is the number of inlined shifts
of the amd64 code (31 in the source). `MaxMultiple` bounds the multiples a caller
of the point functions builds.

**Deadlock** is not checked where the system stops: a reduction, a limb loop, a
recoding or a product ends once; contexts and callers reach the bounds of the
model. It is checked in `scalar_api`, where a program can always make a call.

**Fairness.** The lattice runs, `hashing` and `field` assume weak fairness of the
loop or program itself: the code is sequential, with nothing to wait for, so that a
call that runs takes its next step. No call is assumed to be made.

### Disagreements found

* `scalar_amd64.c:1335`. In the second loop of the amd64 reduction the path for
  a shift above 31 chooses between adding and subtracting with the top bit of
  `sp_7`. That loop works on words 0 to 5 and does not maintain `sp_7`; its other
  path tests `sp_5`. If sp changes sign after the switch, and a long shift
  follows, the step goes the wrong way. The model shows reductions that never
  end because of it. The first loop is not affected, nor are answers that were
  reached without such a step.
* `sign.c:104`. The header defines a signature as valid if and only if the
  encoding of the recomputed point equals the first half of the signature. The
  faster verifier decodes that half first, and decoding refuses infinity; the other
  verifier accepts. `sign_generate` never writes such a signature.

## 4. Proofs

`tlapm` checks the following for every value of the constants that satisfies the
assumptions below. In each module the argument is an invariant (`IInv`, or the
name given here) that the initial states satisfy and every action keeps; the
properties of the runs follow from it, and TLC has checked it on the instances
of the runs.

| module | theorems | of the runs' properties |
|---|---|---|
| `Lattice_proofs` | `TypeCorrect`, `GramCorrect`, `TruncationCorrect`, `BasisCorrect`, `NormsCorrect`, `ShrinksCorrect`, `Implements` | all of `lattice_reduce` that is not liveness |
| | `NarrowingAlways`, `SwitchAlways`, `SameAnswerAlways`, `ArmImplementsReference` | all of `lattice_variants` that is not liveness |
| `Scalar_proofs` | `RangeCorrect`, `TypeCorrect`, `Implements` | all of `scalar_api` |
| | `CarriesAlwaysBounded`, `PassesAlwaysExact`, `RowsAlwaysCongruent`, `LoopsMatchArithmetic` | all of `scalar_limbs` |
| `Field_proofs` | `FromMontyExact`, `MontyMulExact`, `AddSubExact`, `ToMontyExact`, `LaneFromMontyExact`, `LaneMulConstExact`, `LaneAddSubExact` | none: the words below `field` |
| | `GfMulExact`, `VgfMulExact`, `ReducedAlways`, `RingAlways` | the calls in `field` (`Reduced`, `IsFieldRing`); not the programs for powers |
| `Hashing_proofs` | `ContextsAreStreams`, `SameMessageAlways`, `PermutationIsKeccak` | all of `hashing` that is not liveness |
| | `KeyPairsAlways`, `SharedSecretsAlways`, `SignaturesVerifyAlways` | all of `protocols` |
| `Curve_proofs` | `SeedRebuilt`, `RebuildsSeedAlways` | `RebuildsSeed` of `curve` |
| | `ReadBack`, `WrittenBack`, `DecodesOnce`, `EncodedDecodes`, `CurveInvAlways`, `OneEncodingAlways`, `SameAbscissaAlways` | of `Canonical`, what does not depend on the field; see below |
| `PointMul_proofs` | `SumOfDigitsAlways`, `MultipliesAlways` | all of `point_mul` |
| `Verification_proofs` | `NothingLostAlways`, `DigitsConvergeAlways`, `HornerAlways`, `DecidesAlways` | all of `verification` |

*Lattice, the reference.* The promise is about what is returned; by itself it is
not inductive. `IInv` adds that (1) `eu`, `ev` are a basis of the lattice of b,
(2) `nu`, `nv`, `sp` are their exact scalar products, (3) neither norm ever exceeds
n^2, and nv <= nu at the test, (4) `u`, `v` are the truncations of `eu`, `ev`. (2)
needs (3) so that no sum leaves the large registers, and (3) needs the step to
shrink: with s the difference of bit lengths, 2^s nv < 2 |sp|, hence |u - 2^s v|^2
< |u|^2. The answer fits since the bit length of the norm bounds both coordinates,
and c1 # 0 since a vector (c0, 0) of the lattice has a norm of n^2 at least, unless
it is null.

*Lattice, the variants.* (1) to (4) are one relation between registers and exact
vectors, `Tracks`, with the width of the registers as a parameter; each kind of step
is shown to keep it at any width that holds twice the larger norm. For the ARM core
the narrowing test is what establishes it at the smaller width; for the amd64
function, the switch of loops. That all answers agree is not a simulation in
lockstep, since one program may have finished while the next has not started: the
bases that a loop goes through are determined by the first one, swaps apart, and
each program stops at the first short one. `SameCourse` says that what each has
reached lies on the course of the first. In the second amd64 loop this holds as
long as no step has been taken on a stale sign, which is the hypothesis of
`SameAnswer`, and of `SwitchLossless` for that loop (the second run shows it is needed).
The first loop needs no hypothesis: by `Amd64Inv` the word that its generic path tests has
the sign of the exact product, so that both paths keep the registers exact. `ArmImplementsReference` forgets
the width: each step of the ARM core is a step of the reference, or a stutter
(`Narrow`). It is `RunsReferenceLoop` of the run, without its fairness.

*Scalars.* `InRange` is inductive once each function is bounded: sums of two
scalars minus n twice, differences plus n twice, Montgomery products by
x y / R + n. The ring mapping uses uniqueness of remainders, and that R is
invertible modulo n (`CongruentCancel`).

*Limbs.* A pass of an addition or subtraction keeps
value(d, i) + carry B^i = value(a, i) +/- value(b, i), where value(x, i) is that of
the low i limbs and the borrow is read from a word that wrapped (`PassOK`). The
masks are right because the top bits of the integer decide which multiple of n is
left (`StagesOK`, `CorrectOK`). A row of the product keeps (d B^i) congruent to
(the low i limbs of a) times b, and d < b + n (`RowOK`); within a row the carry stays
below 2 B + 1, so that its sums fit a word of 2 LimbBits + 2 bits.

*Hashing.* `ContextOK` gives the words of a context as a function of its log: while
it takes input, whole blocks are on the tape and the rest in `cur`; afterwards the
tape is the padded message and one block of zeros per permutation of output,
which may be one less than the position says, as the permutation is deferred.
Contexts are independent. `SameMessage` needs the padding to be injective, for
messages and functions of either kind: the last set bit of the padded message is
the end mark, the suffix lies below it, and what is before is the message.

*Permutation.* `PermutationInv` says in which words the lanes of the standard's
state are, and which of them are complemented, at each stage of either build; the
refinement mapping undoes both. A round is followed through its linear steps
(`LinearStep`: complements pass through the parities and rotations in a way that
depends on their places only), its rows (`ChiRow`: the AND and OR of the code on
complemented words are chi) and its constant. The tables are the standard's:
the rotations are its walk over the lanes (`OffsetIs`), the constants its shift
register (`ConstantIs`), and the moves of each arrangement its pi
(`PlainTables`, `SecondTables`, `MovedBack`, `BufferStep`).

*Words of the field.* With y = -x/p modulo the word, x + y p is a multiple of the
word; the low half of y adds less than the carry that is known to come, so that
adding one stands for adding x, as long as x is not zero and not above the bound. The
lane form is the same integer computed modulo half a word.

*Products of polynomials.* A coefficient of the product is a sum of 19 terms
(`Total`), 18 of which may be doubled: at most 37 p^2 (`ConvolutionFits`), which the
reduction takes. The portable code forms it from three products of halves: the
diagonals (`Diag`) split into four (`Quad`), and the words that wrap on the way are
congruent to what they stand for modulo the word, which their sum does not pass. The
AVX2 code multiplies shifted vectors: `Part` and `Dropped` are the terms that a
vector of 16 lanes holds and those it loses, which are added back from the
highest coefficients; `IsCrossed` and `IsSummed` follow the blocks of lanes as
they are moved and added. Whatever the lanes to ignore hold takes no part.

*Calls of the field.* `Stands(r, n)`: r is the Montgomery representation of n modulo
p. `Meant` is the integer that each coefficient of the result of a call stands
for; it is shown of the portable code, of the lanes, and of the ring
(`MeantRef`, `MeantAvx2`, `MeantRing`), for the late reductions of the slope
and of the doubling too, whose sums of products are within the bound or are
lessened first. `CallExact` joins them: a call on reduced operands gives a reduced
operand, and the value that the ring gives. `Reduced` is the inductive invariant.

*Seeds.* A division of `gf_map_to_base` looks at the words that the table of the code
leaves it; undone by a multiplication it gives back the number (`MultipliedBack`)
when no word above those is set. `Tops` bounds the highest word in use, each
division divides it by p, and `OnTable` shows that it is zero when the table leaves it
out. The provers do not accept that a function defined by recursion exists: `Recursion`
extends it by one value at a time.

*Codec.* Three coefficients of 14 bits share five bytes and two bits; `GroupRead` and
`GroupWritten` follow their shifts, with the fifth byte, and are put together
in `ReadBack` and `WrittenBack`. A buffer that decodes to a finite point gives its
abscissa by the element and its sign by the top bit, and the root that is taken has
that sign; so encoding it writes the buffer again (`DecodesOnce`). This needs y # 0,
since zero is its own opposite and would be accepted with either sign: no point of the
curve has this ordinate (the comments of `ops_arm.c` say so), which is a fact of
arithmetic that TLC sees in the run and the theorem has as its hypothesis.
`EncodedDecodes` gives the abscissa back; that the ordinate is too needs that
the square root computed is one. `CurveInv` carries both over to sequences of
calls: each of the point functions, in both builds and with whatever coordinates are left at
infinity, returns coordinates of 19 reduced coefficients, and a decoded buffer is
forgotten when its point changes.

*Multiplication.* The order is prime, so that a product of two integers that are
not multiples of it is none either (`Euclid`, by a least multiplier). `Is(P, k)`
says that P is k G; the lemmas about the point functions, windows and lookups are
stated with it. `IInv` says that after the digits from n on the sum is
`Expected(n)` G, where the digits are those of the shifted scalar minus the offset
in each place; the sum of all is the scalar modulo n. The Jacobian addition of the
AVX2 code returns junk for equal or opposite operands: `NeverEqual` shows that before
the last turn the digits used stand for a number between digit-sized bounds and n,
so that doubling and adding a table entry can meet neither case, for any point that
is not infinity. The base product adds four quarters per turn, whose digits sum to
those of the whole (`PartsSum`).

*Verification.* The recoding: what the digits found below position p stand for,
`SoFar`, is the multiplier less the accumulator and the unread bytes. For some q from p
to p + w - 1 it is the signed value of the multiplier's low q bits (`Settled`): the bits
between p and q belong to the window of the last digit, and are zero in the accumulator.
A turn keeps this (`TurnOK`), also when a carry goes up, and at the top, since twice the
multiplier fits; `NothingLost` is the first part
for the recoding as a machine. The digit that the multiplication later reads off the
plain bits is the one that was found: a carry of one into an odd window came from below
an even one, and setting the lowest bit does the same (`OddBits`). The joint loop: `VerifyInv` says that (1) the bit
fields or arrays hold the digits of the recodings, those of c2 shared by two lanes,
(2) each accumulator agrees with its multiplier in the two bytes from the current
one up, in which a digit lies, although it slides along a half of c2 and is cut to
four bytes (`AccStep`), (3) windows hold the odd multiples of `Base`, (4) `sums` are
the digits found from the position up, scaled, and (5) q3, doubled `dbl` times more, is their
combination. `DigitsConverge` follows from (4) and `FoundSmall`: what is found below
a position, and what is found between Half and a position, is less than half a window. At
the end the total is C1 (s1 Q1 + s2 G - Q2) by what the reduction promises; C1 is not zero
and less than n in absolute value, and n is prime: the total is infinity exactly when the
equation holds, which is the step of `VerifyPromise`.

*Protocols.* SHAKE256 only learns (`Grows`), so that what a call returned remains
the function of its inputs that it was; `IInv` says which function of the oracle
each key, secret, signature and verdict is. The properties are then arithmetic
modulo n, for the signature s = e x + k, and for the exchange x (y G) = y (x G),
up to a sign that the abscissa forgets. An exchange that failed hashes another
prefix.

*Assumptions.* They are evaluated by TLC for the constants of the runs, and hold of
those in the source.

* `PowerLaws`, `LimbPowerLaws`, `WindowPowerLaws`: 2^k is positive and
  additive over the exponents in use. Exponentiation is opaque to the provers.
* `SizeAssumption`, `StepAssumption`, `NarrowAssumption`: widths of the lattice
  registers against n (2 n^2 < 2^509).
* `ScalarAssumption`, `LimbAssumption`: order, radix and constants (sR2 = 2^510 mod
  n, sD = 2^503 mod n, N0I n = -1 mod 2^15, 2^252/n = 1.1327), with the top limb
  shorter than a limb (12 bits of 15) and words of 2 LimbBits + 2 bits at least.
* `SpongeAssumption`: a rate of at least two bytes; the output of SHA3 fits one block.
* `BlocksAssumption`: the permutation starts from some states of 25 lanes of 64 bits.
* `MontyAssumption`: P1I p = -1 modulo the word, R2 = 2^64 mod p, 4 p below half a
  word, the bound of the reduction within a word.
* `FieldAssumption`: half words are even, and so p is odd: a half, a quarter and a
  sixteenth exist; 3 does not divide p; 6 p is below half a word, for the sums in the lanes
  of the slope; 37 p^2 is not above the bound of the reduction; the coefficients of the
  Frobenius operator are not zero. Root^0 = 1 and Root^i is an integer: the
  provers know no powers.
* `VerifyPowerLaws`, `RecodePowerLaws`: the same laws, as far as the recodings and
  the products of the verification need them.
* `VerifyAssumption`: windows of at least three bits and no more than a byte; n has four
  bits less than two halves, and is at least 2^(Half - 1), the bound of the lattice's
  answers (2^127, for an order of 252 bits). A narrower order would let c1 be a multiple of it.
* `GroupAssumption`: n is a prime above 2. `WindowAssumption`: 2^(W (Digits - 1)) < n
  <= 2^(W Digits), which is 2^248 < n <= 2^252 (250 and 255 for AVX2).
* `CurveAssumption`: a seed is 24 words of 16 bits; shifts, scalars and altered bytes
  are what their types say. `ProductsAssumption`: a scalar has a digit. The
  field is that of the source.
* `ProtocolsAssumption`: n is odd and above 2; the signer is a user.

*Only model-checked.* Termination and every other liveness property, which the
provers do not reach. `ReachesPower`: five programs without parameters, which the
run executes to the end. `IsCurveGroup` and `SameMultiple`: that the formulas follow
the group law is algebra over one field of 9767^19 elements, as are that the square
root is one and that no point has a zero ordinate, which is what `Canonical` says beyond
`OneEncodingAlways` and `SameAbscissaAlways`.
Sums over the digits of a number of unknown length are handled in
`PointMul_proofs` and `Verification_proofs` by the least counterexample (`LeastNatural`) instead of
induction, for which the provers would need a theorem with an operator parameter.

## 5. Not modelled

See `components` in `PROJECT.json`. The numbers in the precomputed tables of
multiples of G; the division of 48 bytes by p is modelled by value and not by
its two reductions and exact division; full-length scalars on real coordinates
(`point_mul` there takes scalars with few digits, all others over a cyclic
group). Constant-time behaviour is a property of pairs of runs of machine code.
The assembly files repeat the same formulas with other instructions; `scalar_cm4.s`
narrows as the Cortex-M0+ core does. Code that calls the hashing API out of order
is excluded by the header.

## 6. Plan

*Composition*: `Protocols` over the points of `Curve` instead of logarithms.
