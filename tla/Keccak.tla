------------------------------- MODULE Keccak -------------------------------
(***************************************************************************)
(* process_block: the permutation of sha3.c, and of sha3_cm4.c for the     *)
(* Cortex-M4.  In both, six lanes are stored complemented throughout the   *)
(* rounds, so that few complements are needed in chi.                      *)
(*                                                                         *)
(* sha3.c leaves each lane at the word where rho put it: a round moves     *)
(* nothing, the next one has other indexes for the same lanes, and then    *)
(* all words are moved back.  sha3_cm4.c rotates halves of lanes into a    *)
(* buffer on the stack, in an order of its own, and writes them back.      *)
(***************************************************************************)
EXTENDS Integers, Sequences

CONSTANT Blocks         \* the states to permute

Words == 0..24
Bits == 0..63

ASSUME BlocksAssumption == Blocks # {} /\ Blocks \subseteq [Words -> SUBSET Bits]

VARIABLES build,        \* "ref" (sha3.c) or "cm4"
          A,            \* the 25 words
          j,            \* the round counter of the loop
          stage         \* "invert", "first", "second", "loop", "revert", "done"

permuting == <<build, A, j, stage>>

Xor(x, y) == (x \ y) \cup (y \ x)
Not(x) == Bits \ x
RotLeft(x, n) == { (bit + n) % 64 : bit \in x }

\* "Invert some words (alternate internal representation)"
Inverted == {1, 2, 8, 12, 17, 20}

\* RC[] and process_block_RC, as the positions of the bits
RC ==
    <<{0}, {1, 7, 15}, {1, 3, 7, 15, 63}, {15, 31, 63}, {0, 1, 3, 7, 15}, {0, 31},
      {0, 7, 15, 31, 63}, {0, 3, 15, 63}, {1, 3, 7}, {3, 7}, {0, 3, 15, 31}, {1, 3, 31},
      {0, 1, 3, 7, 15, 31}, {0, 1, 3, 7, 63}, {0, 3, 7, 15, 63}, {0, 1, 15, 63},
      {1, 15, 63}, {7, 63}, {1, 3, 15}, {1, 3, 31, 63}, {0, 7, 15, 31, 63},
      {7, 15, 63}, {0, 31}, {3, 15, 31, 63}>>

\* t0..t4 from the words of each column, XORed into these words
ColumnsMixed(S, columns) ==
    LET parity == [x \in 0..4 |->
            LET c == columns[x + 1]
            IN  Xor(S[c[1]], Xor(S[c[2]], Xor(S[c[3]], Xor(S[c[4]], S[c[5]]))))]
        t == [x \in 0..4 |-> Xor(RotLeft(parity[(x + 1) % 5], 1), parity[(x + 4) % 5])]
    IN  [k \in Words |-> Xor(S[k], t[CHOOSE x \in 0..4 : \E y \in 1..5 : columns[x + 1][y] = k])]

\* c0..c4 from the five words of a row, each row with complements of its own
Nonlinear(row, a) ==
    LET or(x, y) == x \cup y
        and(x, y) == x \cap y
    IN  CASE row = 1 ->
                <<Xor(a[1], or(a[2], a[3])), Xor(a[2], or(Not(a[3]), a[4])),
                  Xor(a[3], and(a[4], a[5])), Xor(a[4], or(a[5], a[1])), Xor(a[5], and(a[1], a[2]))>>
          [] row = 2 ->
                <<Xor(a[1], or(a[2], a[3])), Xor(a[2], and(a[3], a[4])),
                  Xor(a[3], or(a[4], Not(a[5]))), Xor(a[4], or(a[5], a[1])), Xor(a[5], and(a[1], a[2]))>>
          [] row = 3 ->
                <<Xor(a[1], or(a[2], a[3])), Xor(a[2], and(a[3], a[4])),
                  Xor(a[3], and(Not(a[4]), a[5])), Xor(Not(a[4]), or(a[5], a[1])), Xor(a[5], and(a[1], a[2]))>>
          [] row = 4 ->
                <<Xor(a[1], and(a[2], a[3])), Xor(a[2], or(a[3], a[4])),
                  Xor(a[3], or(Not(a[4]), a[5])), Xor(Not(a[4]), and(a[5], a[1])), Xor(a[5], or(a[1], a[2]))>>
          [] row = 5 ->
                <<Xor(a[1], and(Not(a[2]), a[3])), Xor(Not(a[2]), or(a[3], a[4])),
                  Xor(a[3], and(a[4], a[5])), Xor(a[4], or(a[5], a[1])), Xor(a[5], and(a[1], a[2]))>>

Indexes == (1..5) \X (1..5)

\* the rows at the words rows names, and the round constant, which only word 0 gets
RowsDone(S, rows, r) ==
    LET out == [n \in 1..5 |-> Nonlinear(n, [p \in 1..5 |-> S[rows[n][p]]])]
        done == [k \in Words |-> LET at == CHOOSE at \in Indexes : rows[at[1]][at[2]] = k
                                 IN  out[at[1]][at[2]]]
    IN  [done EXCEPT ![0] = Xor(@, RC[r + 1])]

-----------------------------------------------------------------------------
(* sha3.c                                                                  *)

Columns1 == <<<<0, 5, 10, 15, 20>>, <<1, 6, 11, 16, 21>>, <<2, 7, 12, 17, 22>>,
              <<3, 8, 13, 18, 23>>, <<4, 9, 14, 19, 24>>>>
Rotations1 == <<0, 1, 62, 28, 27,  36, 44, 6, 55, 20,  3, 10, 43, 25, 39,
                41, 45, 15, 21, 8,  18, 2, 61, 56, 14>>
Rows1 == <<<<0, 6, 12, 18, 24>>, <<3, 9, 10, 16, 22>>, <<1, 7, 13, 19, 20>>,
           <<4, 5, 11, 17, 23>>, <<2, 8, 14, 15, 21>>>>

Columns2 == <<<<0, 3, 1, 4, 2>>, <<6, 9, 7, 5, 8>>, <<12, 10, 13, 11, 14>>,
              <<18, 16, 19, 17, 15>>, <<24, 22, 20, 23, 21>>>>
Rotations2 == <<0, 3, 18, 36, 41,  45, 1, 10, 2, 44,  6, 15, 62, 43, 61,
                56, 55, 21, 28, 25,  39, 14, 20, 8, 27>>
Rows2 == <<<<0, 9, 13, 17, 21>>, <<18, 22, 1, 5, 14>>, <<6, 10, 19, 23, 2>>,
           <<24, 3, 7, 11, 15>>, <<12, 16, 20, 4, 8>>>>

\* a plausible bug: a pair of words is moved the wrong way round
MovesSwapped == <<<<5, 18, 11, 10, 6, 22, 20, 12, 19, 15, 8, 24>>,
                  <<1, 9, 14, 2, 13, 23, 4, 21, 16, 3, 17, 7>>>>

\* each word of a cycle gets the next one, the last gets the first
Moves == <<<<5, 18, 11, 10, 6, 22, 20, 12, 19, 15, 24, 8>>,
           <<1, 9, 14, 2, 13, 23, 4, 21, 16, 3, 17, 7>>>>

Moved(S) ==
    LET from(cycle, k) == LET p == CHOOSE p \in 1..12 : cycle[p] = k IN cycle[(p % 12) + 1]
        in(cycle, k) == \E p \in 1..12 : cycle[p] = k
    IN  [k \in Words |-> CASE in(Moves[1], k) -> S[from(Moves[1], k)]
                           [] in(Moves[2], k) -> S[from(Moves[2], k)]
                           [] OTHER -> S[k]]

Rotated(S, rotations) == [k \in Words |-> RotLeft(S[k], rotations[k + 1])]

\* "each iteration computes two rounds"
FirstRound ==
    /\ stage = "first"
    /\ A' = RowsDone(Rotated(ColumnsMixed(A, Columns1), Rotations1), Rows1, j)
    /\ stage' = "second"
    /\ UNCHANGED <<build, j>>

SecondRound ==
    /\ stage = "second"
    /\ A' = Moved(RowsDone(Rotated(ColumnsMixed(A, Columns2), Rotations2), Rows2, j + 1))
    /\ j' = j + 2
    /\ stage' = IF j' < 24 THEN "first" ELSE "revert"
    /\ UNCHANGED build

-----------------------------------------------------------------------------
(* sha3_cm4.c                                                              *)

\* the shifts of the halves, for the words of a column: the shift to the left, and
\* whether it takes a half into the other
Shift(left, crossed) == [left |-> left, crossed |-> crossed]

\* words 5*i and 5*i+1: these and the next ones in the order of the buffer
Pass01 ==
    <<[word |-> 0, by |-> Shift(0, FALSE)], [word |-> 1, by |-> Shift(1, FALSE)],
      [word |-> 5, by |-> Shift(4, TRUE)], [word |-> 6, by |-> Shift(12, TRUE)],
      [word |-> 10, by |-> Shift(3, FALSE)], [word |-> 11, by |-> Shift(10, FALSE)],
      [word |-> 15, by |-> Shift(9, TRUE)], [word |-> 16, by |-> Shift(13, TRUE)],
      [word |-> 20, by |-> Shift(18, FALSE)], [word |-> 21, by |-> Shift(2, FALSE)]>>
\* words 5*i+2 and 5*i+3
Pass23 ==
    <<[word |-> 2, by |-> Shift(30, TRUE)], [word |-> 3, by |-> Shift(28, FALSE)],
      [word |-> 7, by |-> Shift(6, FALSE)], [word |-> 8, by |-> Shift(23, TRUE)],
      [word |-> 12, by |-> Shift(11, TRUE)], [word |-> 13, by |-> Shift(25, FALSE)],
      [word |-> 17, by |-> Shift(15, FALSE)], [word |-> 18, by |-> Shift(21, FALSE)],
      [word |-> 22, by |-> Shift(29, TRUE)], [word |-> 23, by |-> Shift(24, TRUE)]>>
\* words 5*i+4
Pass4 ==
    <<[word |-> 4, by |-> Shift(27, FALSE)], [word |-> 9, by |-> Shift(20, FALSE)],
      [word |-> 14, by |-> Shift(7, TRUE)], [word |-> 19, by |-> Shift(8, FALSE)],
      [word |-> 24, by |-> Shift(14, FALSE)]>>

\* Halves are sets of 0..31; lsl and lsr drop what leaves a half.
Low(x) == x \cap 0..31
High(x) == { bit - 32 : bit \in x \ 0..31 }
Lsl(h, n) == { bit + n : bit \in h } \cap 0..31
Lsr(h, n) == { bit - n : bit \in h } \cap 0..31

ShiftedHalves(x, by) ==
    LET lo == IF by.crossed THEN High(x) ELSE Low(x)
        hi == IF by.crossed THEN Low(x) ELSE High(x)
        newLo == Lsl(lo, by.left) \cup Lsr(hi, 32 - by.left)
        newHi == Lsl(hi, by.left) \cup Lsr(lo, 32 - by.left)
    IN  newLo \cup { bit + 32 : bit \in newHi }

\* the buffer at sp+32, numbered from 0
Buffer(S) ==
    LET order == Pass01 \o Pass23 \o Pass4
    IN  [slot \in Words |-> ShiftedHalves(S[order[slot + 1].word], order[slot + 1].by)]

\* KHI_LOAD: the slots of each row
Loads == <<<<0, 3, 14, 17, 24>>, <<11, 21, 4, 7, 18>>, <<1, 12, 15, 23, 8>>,
           <<20, 2, 5, 16, 19>>, <<10, 13, 22, 6, 9>>>>

\* KHI_STEP: the results are written to the words in order.
WrittenBack(buffer, r) ==
    LET out == [n \in 1..5 |-> Nonlinear(n, [p \in 1..5 |-> buffer[Loads[n][p]]])]
        written == [k \in Words |-> out[(k \div 5) + 1][(k % 5) + 1]]
    IN  [written EXCEPT ![0] = Xor(@, RC[r + 1])]

RoundCm4 ==
    /\ stage = "loop"
    /\ A' = WrittenBack(Buffer(ColumnsMixed(A, Columns1)), j)
    /\ j' = j + 1
    /\ stage' = IF j' < 24 THEN "loop" ELSE "revert"
    /\ UNCHANGED build

-----------------------------------------------------------------------------
PermutationInit ==
    /\ build \in {"ref", "cm4"}
    /\ A \in Blocks /\ j = 0
    /\ stage = "invert"

InvertedWords == [k \in Words |-> IF k \in Inverted THEN Not(A[k]) ELSE A[k]]

Invert ==
    /\ stage = "invert"
    /\ A' = InvertedWords
    /\ stage' = IF build = "ref" THEN "first" ELSE "loop"
    /\ UNCHANGED <<build, j>>

\* "Invert some words back to normal representation."
Revert ==
    /\ stage = "revert"
    /\ A' = InvertedWords
    /\ stage' = "done"
    /\ UNCHANGED <<build, j>>

PermutationNext == Invert \/ FirstRound \/ SecondRound \/ RoundCm4 \/ Revert

-----------------------------------------------------------------------------
\* The state the words stand for: a lane may be stored complemented, and after the
\* first of two rounds not at its own index.
Lane(k) ==
    LET word == IF stage = "second" THEN A[Columns2[(k % 5) + 1][(k \div 5) + 1]] ELSE A[k]
    IN  IF stage \notin {"invert", "done"} /\ k \in Inverted THEN Not(word) ELSE word

\* Every round of both builds is a round of Keccak-f[1600], although lanes are
\* complemented, moved, or rotated by halves: the hash is SHAKE, and the two builds
\* of the library agree.
Standard == INSTANCE KeccakF
    WITH A <- [k \in Words |-> Lane(k)], round <- IF stage = "second" THEN j + 1 ELSE j
IsKeccak == Standard!Spec
=============================================================================
