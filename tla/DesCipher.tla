---------------------------- MODULE DesCipher ----------------------------
(***************************************************************************)
(* The DES block cipher of Stuff/Maths/Crypt/DES.hpp, its tables and       *)
(* helpers in DES/Tables.hpp and DES/Funcs.hpp, and permute_bits of        *)
(* Stuff/Maths/Bit.hpp.  A word of n bits is a function from 0 .. n-1 to   *)
(* {0, 1}; index 0 is the least significant bit, as in the code.  Widths   *)
(* are those of the values (4, 6, 28, 32, 48, 56, 64): the higher bits of  *)
(* the code's uint64_t are always zero.                                    *)
(***************************************************************************)
EXTENDS Integers, Sequences

Word(n) == [0 .. n - 1 -> {0, 1}]

Xor(v, w) == [i \in DOMAIN v |-> (v[i] + w[i]) % 2]

\* The n bits of v above its k lowest, and two words of n bits side by side
Slice(v, k, n) == [i \in 0 .. n - 1 |-> v[i + k]]
Concat(high, low, n) == [i \in 0 .. 2 * n - 1 |-> IF i < n THEN low[i] ELSE high[i - n]]

\* The value of a short word, and the word of n bits of a value
ToNat(v, n) == LET sum[i \in 0 .. n] == IF i = 0 THEN 0 ELSE 2 * sum[i - 1] + v[n - i] IN sum[n]
ToWord(x, n) == [i \in 0 .. n - 1 |-> (x \div 2^i) % 2]

(***************************************************************************)
(* Tables.  The standard numbers bits from 1 at the most significant end;  *)
(* permutation_table turns such a lookup into one for permute_bits, where  *)
(* bit i of the result is bit table[i] of the value.                       *)
(***************************************************************************)
permutation_table(lookup, source_bits) ==
  [i \in 0 .. Len(lookup) - 1 |-> source_bits - lookup[Len(lookup) - i]]

permute_bits(val, table) == [i \in DOMAIN table |-> val[table[i]]]

\* The entry for a 6-bit input is in the row given by its outer bits and the
\* column given by its inner ones
substitution_table(lookup) ==
  [key \in 0 .. 63 |-> lookup[16 * (2 * (key \div 32) + (key % 2)) + ((key \div 2) % 16) + 1]]

\* The initial permutation, 64 bits to 64
k_initial_permutation_table == permutation_table(<<
    58, 50, 42, 34, 26, 18, 10, 2, 60, 52, 44, 36, 28, 20, 12, 4,
    62, 54, 46, 38, 30, 22, 14, 6, 64, 56, 48, 40, 32, 24, 16, 8,
    57, 49, 41, 33, 25, 17, 9, 1, 59, 51, 43, 35, 27, 19, 11, 3,
    61, 53, 45, 37, 29, 21, 13, 5, 63, 55, 47, 39, 31, 23, 15, 7 >>, 64)

\* The final permutation, 64 bits to 64
k_final_permutation_table == permutation_table(<<
    40, 8, 48, 16, 56, 24, 64, 32, 39, 7, 47, 15, 55, 23, 63, 31,
    38, 6, 46, 14, 54, 22, 62, 30, 37, 5, 45, 13, 53, 21, 61, 29,
    36, 4, 44, 12, 52, 20, 60, 28, 35, 3, 43, 11, 51, 19, 59, 27,
    34, 2, 42, 10, 50, 18, 58, 26, 33, 1, 41, 9, 49, 17, 57, 25 >>, 64)

\* The expansion of a half block, 32 bits to 48
k_expansion_table == permutation_table(<<
    32, 1, 2, 3, 4, 5, 4, 5, 6, 7, 8, 9, 8, 9, 10, 11,
    12, 13, 12, 13, 14, 15, 16, 17, 16, 17, 18, 19, 20, 21, 20, 21,
    22, 23, 24, 25, 24, 25, 26, 27, 28, 29, 28, 29, 30, 31, 32, 1 >>, 32)

\* The permutation that ends the round function, 32 bits to 32
k_f_final_p_table == permutation_table(<<
    16, 7, 20, 21, 29, 12, 28, 17, 1, 15, 23, 26, 5, 18, 31, 10,
    2, 8, 24, 14, 32, 27, 3, 9, 19, 13, 30, 6, 22, 11, 4, 25 >>, 32)

\* Permuted choice 1: the 56 key bits of 64
k_key_sched_pc_1 == permutation_table(<<
    57, 49, 41, 33, 25, 17, 9, 1, 58, 50, 42, 34, 26, 18, 10, 2,
    59, 51, 43, 35, 27, 19, 11, 3, 60, 52, 44, 36, 63, 55, 47, 39,
    31, 23, 15, 7, 62, 54, 46, 38, 30, 22, 14, 6, 61, 53, 45, 37,
    29, 21, 13, 5, 28, 20, 12, 4 >>, 64)

\* Permuted choice 2: the 48 bits of a round key
k_key_sched_pc_2 == permutation_table(<<
    14, 17, 11, 24, 1, 5, 3, 28, 15, 6, 21, 10, 23, 19, 12, 4,
    26, 8, 16, 7, 27, 20, 13, 2, 41, 52, 31, 37, 47, 55, 30, 40,
    51, 45, 33, 48, 44, 49, 39, 56, 34, 53, 46, 42, 50, 36, 29, 32 >>, 56)

\* The eight S-boxes, 6 bits to 4, printed as in the standard (4 rows of 16)
k_sub_tables == <<
  substitution_table(<<
    14, 4, 13, 1, 2, 15, 11, 8, 3, 10, 6, 12, 5, 9, 0, 7,
    0, 15, 7, 4, 14, 2, 13, 1, 10, 6, 12, 11, 9, 5, 3, 8,
    4, 1, 14, 8, 13, 6, 2, 11, 15, 12, 9, 7, 3, 10, 5, 0,
    15, 12, 8, 2, 4, 9, 1, 7, 5, 11, 3, 14, 10, 0, 6, 13 >>),
  substitution_table(<<
    15, 1, 8, 14, 6, 11, 3, 4, 9, 7, 2, 13, 12, 0, 5, 10,
    3, 13, 4, 7, 15, 2, 8, 14, 12, 0, 1, 10, 6, 9, 11, 5,
    0, 14, 7, 11, 10, 4, 13, 1, 5, 8, 12, 6, 9, 3, 2, 15,
    13, 8, 10, 1, 3, 15, 4, 2, 11, 6, 7, 12, 0, 5, 14, 9 >>),
  substitution_table(<<
    10, 0, 9, 14, 6, 3, 15, 5, 1, 13, 12, 7, 11, 4, 2, 8,
    13, 7, 0, 9, 3, 4, 6, 10, 2, 8, 5, 14, 12, 11, 15, 1,
    13, 6, 4, 9, 8, 15, 3, 0, 11, 1, 2, 12, 5, 10, 14, 7,
    1, 10, 13, 0, 6, 9, 8, 7, 4, 15, 14, 3, 11, 5, 2, 12 >>),
  substitution_table(<<
    7, 13, 14, 3, 0, 6, 9, 10, 1, 2, 8, 5, 11, 12, 4, 15,
    13, 8, 11, 5, 6, 15, 0, 3, 4, 7, 2, 12, 1, 10, 14, 9,
    10, 6, 9, 0, 12, 11, 7, 13, 15, 1, 3, 14, 5, 2, 8, 4,
    3, 15, 0, 6, 10, 1, 13, 8, 9, 4, 5, 11, 12, 7, 2, 14 >>),
  substitution_table(<<
    2, 12, 4, 1, 7, 10, 11, 6, 8, 5, 3, 15, 13, 0, 14, 9,
    14, 11, 2, 12, 4, 7, 13, 1, 5, 0, 15, 10, 3, 9, 8, 6,
    4, 2, 1, 11, 10, 13, 7, 8, 15, 9, 12, 5, 6, 3, 0, 14,
    11, 8, 12, 7, 1, 14, 2, 13, 6, 15, 0, 9, 10, 4, 5, 3 >>),
  substitution_table(<<
    12, 1, 10, 15, 9, 2, 6, 8, 0, 13, 3, 4, 14, 7, 5, 11,
    10, 15, 4, 2, 7, 12, 9, 5, 6, 1, 13, 14, 0, 11, 3, 8,
    9, 14, 15, 5, 2, 8, 12, 3, 7, 0, 4, 10, 1, 13, 11, 6,
    4, 3, 2, 12, 9, 5, 15, 10, 11, 14, 1, 7, 6, 0, 8, 13 >>),
  substitution_table(<<
    4, 11, 2, 14, 15, 0, 8, 13, 3, 12, 9, 7, 5, 10, 6, 1,
    13, 0, 11, 7, 4, 9, 1, 10, 14, 3, 5, 12, 2, 15, 8, 6,
    1, 4, 11, 13, 12, 3, 7, 14, 10, 15, 6, 8, 0, 5, 9, 2,
    6, 11, 13, 8, 1, 4, 10, 7, 9, 5, 0, 15, 14, 2, 3, 12 >>),
  substitution_table(<<
    13, 2, 8, 4, 6, 15, 11, 1, 10, 9, 3, 14, 5, 0, 12, 7,
    1, 15, 13, 8, 10, 3, 7, 4, 12, 5, 6, 11, 0, 14, 9, 2,
    7, 11, 4, 1, 9, 12, 14, 2, 0, 6, 10, 13, 15, 3, 5, 8,
    2, 1, 14, 7, 4, 10, 8, 13, 15, 12, 9, 0, 3, 5, 6, 11 >>) >>

k_key_shifts == << 1, 1, 2, 2, 2, 2, 2, 2, 1, 2, 2, 2, 2, 2, 2, 1 >>

(***************************************************************************)
(* Key schedule.  chain[i] is the 56-bit key after i rotations; the two    *)
(* 28-bit halves rotate separately.  Round keys are numbered from 0.       *)
(***************************************************************************)
rotl(v, bits, n) == [i \in 0 .. bits - 1 |-> v[(i + bits - n) % bits]]

subkey_n(key, round) ==
  Concat(rotl(Slice(key, 28, 28), 28, k_key_shifts[round + 1]),
         rotl(Slice(key, 0, 28), 28, k_key_shifts[round + 1]), 28)

key_schedule(key) ==
  LET chain[i \in 0 .. 16] == IF i = 0 THEN key ELSE subkey_n(chain[i - 1], i - 1)
  IN  [i \in 0 .. 15 |-> permute_bits(chain[i + 1], k_key_sched_pc_2)]

prepare_key(key) == permute_bits(key, k_key_sched_pc_1)

(***************************************************************************)
(* The round function: box i of 0 .. 7 reads the i-th group of 6 bits from *)
(* the top and yields the i-th group of 4 from the top.                    *)
(***************************************************************************)
sbox_transform_lookup(data) ==
  LET s_res == [i \in 0 .. 7 |-> k_sub_tables[i + 1][ToNat(Slice(data, 42 - 6 * i, 6), 6)]]
  IN  [b \in 0 .. 31 |-> (s_res[7 - b \div 4] \div 2^(b % 4)) % 2]

feistel_block(data, round_key, expansion_table) ==
  permute_bits(sbox_transform_lookup(Xor(permute_bits(data, expansion_table), round_key)),
               k_f_final_p_table)

\* (slip) the round keys are one off when deciphering
RoundKeyOff(keys, reverse, i) == keys[IF reverse THEN (16 - i) % 16 ELSE i]

\* The key of round i: deciphering uses them in the opposite order
RoundKey(keys, reverse, i) == keys[IF reverse THEN 15 - i ELSE i]

\* routine before, during and after its loop.  A half block pair is
\* <<left, right>>; the last of the sixteen rounds does not swap
RoutineStart(data) ==
  LET input == permute_bits(data, k_initial_permutation_table)
  IN  << Slice(input, 32, 32), Slice(input, 0, 32) >>

RoutineRound(half, i, round_key, expansion_table) ==
  LET mixed == Xor(half[1], feistel_block(half[2], round_key, expansion_table))
  IN  IF i # 15 THEN << half[2], mixed >> ELSE << mixed, half[2] >>

RoutineEnd(half) == permute_bits(Concat(half[1], half[2], 32), k_final_permutation_table)
=============================================================================
