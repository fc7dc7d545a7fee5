---------------------------- MODULE CryptoProofs ----------------------------
(***************************************************************************)
(* For every block and key: deciphering with DES undoes enciphering.  For  *)
(* every message and every SHA-2: what finish compresses is the message,   *)
(* padded as the standard says.  For every polynomial with its constant    *)
(* term and every message: the check misses no burst of its width.         *)
(***************************************************************************)
EXTENDS DesCrypt, Sha2, CRC, DataLemmas, SequenceTheorems, TLAPS

-----------------------------------------------------------------------------
(***************************************************************************)
(* DES                                                                     *)
(***************************************************************************)
\* The tables stay within the words they permute, and the final permutation
\* undoes the initial one.
LEMMA PermutationTables ==
  ASSUME NEW i \in 0 .. 63
  PROVE  /\ k_initial_permutation_table[i] \in 0 .. 63
         /\ k_final_permutation_table[i] \in 0 .. 63
         /\ k_initial_permutation_table[k_final_permutation_table[i]] = i
         /\ k_final_permutation_table[k_initial_permutation_table[i]] = i
  BY SMTT(60) DEF k_final_permutation_table, k_initial_permutation_table, permutation_table

LEMMA PermutationDomains ==
  /\ DOMAIN k_initial_permutation_table = 0 .. 63 /\ DOMAIN k_final_permutation_table = 0 .. 63
  /\ DOMAIN k_f_final_p_table = 0 .. 31
  /\ DOMAIN k_key_sched_pc_1 = 0 .. 55 /\ DOMAIN k_key_sched_pc_2 = 0 .. 47
  BY SMTT(200) DEF k_final_permutation_table, k_initial_permutation_table, permutation_table,
     k_f_final_p_table, k_key_sched_pc_1, k_key_sched_pc_2

LEMMA OtherTables ==
  /\ k_expansion_table \in [0 .. 47 -> 0 .. 31]
  /\ \A i \in 0 .. 31 : k_f_final_p_table[i] \in 0 .. 31
  /\ \A i \in 0 .. 55 : k_key_sched_pc_1[i] \in 0 .. 63
  /\ \A i \in 0 .. 47 : k_key_sched_pc_2[i] \in 0 .. 55
  /\ \A i \in 1 .. 16 : k_key_shifts[i] \in {1, 2}
<1>1. k_expansion_table \in [0 .. 47 -> 0 .. 31]
  BY SMTT(60) DEF k_expansion_table, permutation_table
<1>2. \A i \in 0 .. 31 : k_f_final_p_table[i] \in 0 .. 31
  BY SMTT(60) DEF k_f_final_p_table, permutation_table
<1>3. \A i \in 0 .. 55 : k_key_sched_pc_1[i] \in 0 .. 63
  BY SMTT(60) DEF k_key_sched_pc_1, permutation_table
<1>4. \A i \in 0 .. 47 : k_key_sched_pc_2[i] \in 0 .. 55
  BY SMTT(60) DEF k_key_sched_pc_2, permutation_table
<1>5. \A i \in 1 .. 16 : k_key_shifts[i] \in {1, 2}
  BY SMTT(60) DEF k_key_shifts
<1> QED
  BY <1>1, <1>2, <1>3, <1>4, <1>5

LEMMA SubstitutionTables ==
  ASSUME NEW k \in 0 .. 63, NEW b \in 1 .. 8
  PROVE  k_sub_tables[b][k] \in 0 .. 15
  BY SMTT(200) DEF k_sub_tables, substitution_table

\* Exclusive or takes a word back that it put in.
LEMMA XorTwice ==
  ASSUME NEW n \in Nat, NEW v \in Word(n), NEW w \in Word(n)
  PROVE  Xor(v, w) \in Word(n) /\ Xor(Xor(v, w), w) = v
<1>1. DOMAIN v = 0 .. n - 1 /\ \A i \in 0 .. n - 1 : v[i] \in {0, 1} /\ w[i] \in {0, 1}
  BY DEF Word
<1>2. Xor(v, w) = [i \in 0 .. n - 1 |-> (v[i] + w[i]) % 2]
  BY <1>1 DEF Xor
<1>3. Xor(v, w) \in Word(n)
  BY <1>1, <1>2 DEF Word
<1>4. DOMAIN Xor(v, w) = 0 .. n - 1
  BY <1>2
<1>5. Xor(Xor(v, w), w) = [i \in 0 .. n - 1 |-> (Xor(v, w)[i] + w[i]) % 2]
  BY <1>4 DEF Xor
<1>6. ASSUME NEW i \in 0 .. n - 1 PROVE (Xor(v, w)[i] + w[i]) % 2 = v[i]
  <2>1. Xor(v, w)[i] = (v[i] + w[i]) % 2
    BY <1>2
  <2>2. v[i] \in {0, 1} /\ w[i] \in {0, 1}
    BY <1>1
  <2> QED
    BY <2>1, <2>2
<1>7. v = [i \in 0 .. n - 1 |-> v[i]]
  BY DEF Word
<1> QED
  BY <1>3, <1>5, <1>6, <1>7

\* The value of six bits.
LEMMA SixBits ==
  ASSUME NEW v \in Word(6)
  PROVE  ToNat(v, 6) \in 0 .. 63
<1> DEFINE S == Nat
           F == [p \in (1 .. 6) \X S |-> 2 * p[2] + v[6 - p[1]]]
           body(g) == [i \in 0 .. 6 |-> IF i = 0 THEN 0 ELSE 2 * g[i - 1] + v[6 - i]]
           folded == CHOOSE g : g = body(g)
<1>1. \A i \in 0 .. 5 : v[i] \in {0, 1}
  BY DEF Word
<1>2. F \in [(1 .. 6) \X S -> S]
  BY <1>1
<1>3. PICK g \in [0 .. 6 -> S] : Recurs(g, 6, 0, F)
  <2> HIDE DEF F
  <2>1. 0 \in S /\ 6 \in Nat
    OBVIOUS
  <2> HIDE DEF S
  <2> QED
    BY <1>2, <2>1, Recursion
<1>6. ASSUME NEW i \in 1 .. 6 PROVE g[i] = 2 * g[i - 1] + v[6 - i]
  <2>1. g[i] = F[<<i, g[i - 1]>>] /\ <<i, g[i - 1]>> \in (1 .. 6) \X S
    BY <1>3 DEF Recurs
  <2> QED
    BY <2>1
<1>7. g = body(g)
  <2>1. g = [i \in 0 .. 6 |-> g[i]]
    BY <1>3
  <2>2. ASSUME NEW i \in 0 .. 6 PROVE g[i] = IF i = 0 THEN 0 ELSE 2 * g[i - 1] + v[6 - i]
    BY <1>3, <1>6 DEF Recurs
  <2> QED
    BY <2>1, <2>2
<1>8. folded = body(folded)
  <2> HIDE DEF body
  <2> QED
    BY <1>7
<1>9. folded[6] \in 0 .. 63
  <2> HIDE DEF folded
  <2>0. v[0] \in {0, 1} /\ v[1] \in {0, 1} /\ v[2] \in {0, 1} /\ v[3] \in {0, 1} /\ v[4] \in {0, 1} /\ v[5] \in {0, 1}
    BY <1>1
  <2>1. ASSUME NEW i \in 0 .. 6 PROVE folded[i] = IF i = 0 THEN 0 ELSE 2 * folded[i - 1] + v[6 - i]
    BY <1>8
  <2>2. folded[0] = 0
    BY <2>1
  <2>3. /\ folded[1] = 2 * folded[0] + v[5] /\ folded[2] = 2 * folded[1] + v[4] /\ folded[3] = 2 * folded[2] + v[3]
        /\ folded[4] = 2 * folded[3] + v[2] /\ folded[5] = 2 * folded[4] + v[1] /\ folded[6] = 2 * folded[5] + v[0]
    BY <2>1
  <2> QED
    BY <2>0, <2>2, <2>3
<1>10. ToNat(v, 6) = folded[6]
  BY DEF ToNat
<1> QED
  BY <1>9, <1>10

\* What a round mixes into a half is a half: no table is read outside.
LEMMA FeistelIsWord ==
  ASSUME NEW data \in Word(32), NEW k \in Word(48), NEW e \in [0 .. 47 -> 0 .. 31]
  PROVE  feistel_block(data, k, e) \in Word(32)
<1> DEFINE expanded == permute_bits(data, e)
           mixed == Xor(expanded, k)
           box(i) == ToNat(Slice(mixed, 42 - 6 * i, 6), 6)
           s_res == [i \in 0 .. 7 |-> k_sub_tables[i + 1][box(i)]]
           bits == [b \in 0 .. 31 |-> (s_res[7 - b \div 4] \div 2^(b % 4)) % 2]
<1>1. expanded \in Word(48)
  <2>1. expanded = [i \in 0 .. 47 |-> data[e[i]]]
    BY DEF permute_bits
  <2>2. ASSUME NEW i \in 0 .. 47 PROVE data[e[i]] \in {0, 1}
    BY DEF Word
  <2>3. 48 - 1 = 47
    OBVIOUS
  <2> QED
    BY ONLY SMTT(100), <2>1, <2>2, <2>3 DEF Word
<1>2. mixed \in Word(48)
  <2> HIDE DEF expanded
  <2> QED
    BY <1>1, XorTwice
<1> HIDE DEF mixed
<1>3. ASSUME NEW i \in 0 .. 7 PROVE box(i) \in 0 .. 63
  <2>1. Slice(mixed, 42 - 6 * i, 6) \in Word(6)
    BY <1>2 DEF Slice, Word
  <2> QED
    BY <2>1, SixBits
<1> HIDE DEF box
<1>4. ASSUME NEW i \in 0 .. 7 PROVE s_res[i] \in Nat
  <2>1. box(i) \in 0 .. 63 /\ i + 1 \in 1 .. 8
    BY <1>3
  <2>2. k_sub_tables[i + 1][box(i)] \in 0 .. 15
    BY ZenonT(30), <2>1, SubstitutionTables
  <2> QED
    BY <2>2
<1>5. ASSUME NEW b \in 0 .. 31 PROVE bits[b] \in {0, 1}
  <2>1. 7 - b \div 4 \in 0 .. 7 /\ b % 4 \in Nat
    OBVIOUS
  <2>2. s_res[7 - b \div 4] \in Nat
    BY <1>4, <2>1
  <2>3. 2 ^ (b % 4) \in Nat \ {0}
    BY <2>1, TwoToPositive
  <2> HIDE DEF s_res
  <2>4. PICK x \in Nat : x = s_res[7 - b \div 4]
    BY <2>2
  <2>5. PICK y \in Nat \ {0} : y = 2 ^ (b % 4)
    BY <2>3
  <2>6. x \div y \in Int
    BY DivisionProps
  <2>7. bits[b] = (x \div y) % 2
    BY <2>4, <2>5
  <2> QED
    BY <2>6, <2>7
<1>6. feistel_block(data, k, e) = permute_bits(bits, k_f_final_p_table)
  BY DEF feistel_block, sbox_transform_lookup, box, mixed
<1> HIDE DEF bits
<1> QED
  <2>1. permute_bits(bits, k_f_final_p_table) = [i \in 0 .. 31 |-> bits[k_f_final_p_table[i]]]
    BY SMTT(100), PermutationDomains DEF permute_bits
  <2>2. ASSUME NEW i \in 0 .. 31 PROVE bits[k_f_final_p_table[i]] \in {0, 1}
    BY <1>5, OtherTables
  <2>3. 32 - 1 = 31
    OBVIOUS
  <2> QED
    BY ONLY SMTT(100), <1>6, <2>1, <2>2, <2>3 DEF Word

\* The round keys are sixteen words of 48 bits.
LEMMA SubkeyIsWord ==
  ASSUME NEW key \in Word(56), NEW r \in 0 .. 15
  PROVE  subkey_n(key, r) \in Word(56)
<1> DEFINE n == k_key_shifts[r + 1]
           high == rotl(Slice(key, 28, 28), 28, n)
           low == rotl(Slice(key, 0, 28), 28, n)
<1>1. n \in {1, 2}
  <2>1. r + 1 \in 1 .. 16
    OBVIOUS
  <2> QED
    BY SMTT(100), <2>1, OtherTables
<1> HIDE DEF n
<1>2. ASSUME NEW i \in 0 .. 27 PROVE high[i] \in {0, 1} /\ low[i] \in {0, 1}
  <2>1. (i + 28 - n) % 28 \in 0 .. 27
    BY <1>1
  <2>2. PICK j \in 0 .. 27 : j = (i + 28 - n) % 28
    BY <2>1
  <2>3. j + 28 \in 0 .. 55 /\ j + 0 \in 0 .. 55
    OBVIOUS
  <2>4. key[j + 28] \in {0, 1} /\ key[j + 0] \in {0, 1}
    BY <2>3 DEF Word
  <2> QED
    BY SMTT(100), <2>2, <2>4 DEF rotl, Slice
<1> HIDE DEF high, low
<1>3. subkey_n(key, r) = [i \in 0 .. 2 * 28 - 1 |-> IF i < 28 THEN low[i] ELSE high[i - 28]]
  BY DEF subkey_n, Concat, high, low, n
<1>4. ASSUME NEW i \in 0 .. 55 PROVE (IF i < 28 THEN low[i] ELSE high[i - 28]) \in {0, 1}
  BY <1>2
<1>5. 2 * 28 - 1 = 55 /\ 56 - 1 = 55
  OBVIOUS
<1> QED
  BY <1>3, <1>4, <1>5 DEF Word

LEMMA KeySchedule ==
  ASSUME NEW key \in Word(56)
  PROVE  key_schedule(key) \in [0 .. 15 -> Word(48)]
<1> DEFINE S == Word(56)
           F == [p \in (1 .. 16) \X S |-> subkey_n(p[2], p[1] - 1)]
           body(g) == [i \in 0 .. 16 |-> IF i = 0 THEN key ELSE subkey_n(g[i - 1], i - 1)]
           chain == CHOOSE g : g = body(g)
<1>1. ASSUME NEW k \in S, NEW i \in 1 .. 16 PROVE i - 1 \in 0 .. 15 /\ subkey_n(k, i - 1) \in S
  BY SubkeyIsWord
<1>2. F \in [(1 .. 16) \X S -> S]
  <2> HIDE DEF S
  <2> QED
    BY <1>1
<1>3. PICK g \in [0 .. 16 -> S] : Recurs(g, 16, key, F)
  <2> HIDE DEF F
  <2>1. key \in S /\ 16 \in Nat
    OBVIOUS
  <2> HIDE DEF S
  <2> QED
    BY <1>2, <2>1, Recursion
<1> HIDE DEF S
<1>4. ASSUME NEW i \in 1 .. 16 PROVE g[i] = subkey_n(g[i - 1], i - 1)
  <2>1. g[i] = F[<<i, g[i - 1]>>] /\ <<i, g[i - 1]>> \in (1 .. 16) \X S
    BY <1>3 DEF Recurs
  <2> QED
    BY <2>1
<1>5. g = body(g)
  <2>1. g = [i \in 0 .. 16 |-> g[i]]
    BY <1>3
  <2>2. ASSUME NEW i \in 0 .. 16 PROVE g[i] = IF i = 0 THEN key ELSE subkey_n(g[i - 1], i - 1)
    BY <1>3, <1>4 DEF Recurs
  <2> QED
    BY <2>1, <2>2
<1>6. chain = body(chain)
  <2> HIDE DEF body
  <2> QED
    BY <1>5
<1>7. \A i \in 0 .. 16 : chain[i] = IF i = 0 THEN key ELSE subkey_n(chain[i - 1], i - 1)
  <2> HIDE DEF chain
  <2> QED
    BY <1>6
<1> DEFINE Ready == {i \in Nat : i <= 16 => chain[i] \in S}
<1>8. ASSUME NEW i \in Nat PROVE i \in Ready
  <2>1. 0 \in Ready
    <3>1. chain[0] = key
      <4> HIDE DEF chain
      <4> QED
        BY <1>7
    <3> HIDE DEF chain
    <3> QED
      BY <3>1 DEF S
  <2>2. ASSUME NEW m \in Nat, m \in Ready PROVE m + 1 \in Ready
    <3> HIDE DEF chain
    <3>1. CASE m + 1 <= 16
      <4>1. chain[m] \in S /\ m + 1 \in 1 .. 16 /\ m + 1 \in 0 .. 16 /\ m + 1 # 0 /\ m + 1 - 1 = m
        BY <2>2, <3>1
      <4>2. chain[m + 1] = subkey_n(chain[m + 1 - 1], m + 1 - 1)
        BY <1>7, <4>1
      <4> QED
        BY <1>1, <4>1, <4>2
    <3> QED
      BY <3>1
  <2> HIDE DEF Ready
  <2> QED
    BY <2>1, <2>2, Induction
<1>9. key_schedule(key) = [i \in 0 .. 15 |-> permute_bits(chain[i + 1], k_key_sched_pc_2)]
  BY DEF key_schedule
<1>10. ASSUME NEW i \in 0 .. 15 PROVE permute_bits(chain[i + 1], k_key_sched_pc_2) \in Word(48)
  <2> HIDE DEF chain
  <2>1. i + 1 \in Nat /\ i + 1 <= 16
    OBVIOUS
  <2>2. PICK k \in Word(56) : k = chain[i + 1]
    BY <1>8, <2>1 DEF S
  <2>3. permute_bits(k, k_key_sched_pc_2) = [b \in 0 .. 47 |-> k[k_key_sched_pc_2[b]]]
    BY PermutationDomains DEF permute_bits
  <2>4. ASSUME NEW b \in 0 .. 47 PROVE k[k_key_sched_pc_2[b]] \in {0, 1}
    <3>1. k_key_sched_pc_2[b] \in 0 .. 55 /\ 56 - 1 = 55
      BY SMTT(100), b \in 0 .. 47, OtherTables
    <3> QED
      BY <3>1 DEF Word
  <2>5. 48 - 1 = 47
    OBVIOUS
  <2> QED
    BY ONLY SMTT(100), <2>2, <2>3, <2>4, <2>5 DEF Word
<1> HIDE DEF chain
<1> QED
  BY <1>9, <1>10

Halves == Word(32) \X Word(32)

\* What routine does before its loop undoes what it does after it, and back.
LEMMA StartAndEnd ==
  /\ \A data \in Word(64) : RoutineStart(data) \in Halves /\ RoutineEnd(RoutineStart(data)) = data
  /\ \A halves \in Halves : RoutineEnd(halves) \in Word(64) /\ RoutineStart(RoutineEnd(halves)) = halves
<1>0. 64 - 1 = 63 /\ 32 - 1 = 31 /\ 2 * 32 - 1 = 63
  OBVIOUS
<1>1. ASSUME NEW data \in Word(64)
      PROVE  RoutineStart(data) \in Halves /\ RoutineEnd(RoutineStart(data)) = data
  <2> DEFINE input == permute_bits(data, k_initial_permutation_table)
             joined == Concat(Slice(input, 32, 32), Slice(input, 0, 32), 32)
  <2>1. input = [i \in 0 .. 63 |-> data[k_initial_permutation_table[i]]]
    BY PermutationDomains DEF permute_bits
  <2>2. ASSUME NEW i \in 0 .. 63 PROVE input[i] \in {0, 1}
    <3>1. PICK j \in 0 .. 63 : j = k_initial_permutation_table[i]
      BY PermutationTables
    <3>2. data[j] \in {0, 1}
      BY <1>0 DEF Word
    <3> QED
      BY <2>1, <3>1, <3>2
  <2>3. RoutineStart(data) = << Slice(input, 32, 32), Slice(input, 0, 32) >>
    BY DEF RoutineStart
  <2> HIDE DEF input
  <2>4. /\ Slice(input, 32, 32) = [i \in 0 .. 31 |-> input[i + 32]]
        /\ Slice(input, 0, 32) = [i \in 0 .. 31 |-> input[i + 0]]
    BY <1>0 DEF Slice
  <2>5. Slice(input, 32, 32) \in Word(32) /\ Slice(input, 0, 32) \in Word(32)
    BY <1>0, <2>2, <2>4 DEF Word
  <2>6. joined = [i \in 0 .. 63 |-> IF i < 32 THEN Slice(input, 0, 32)[i] ELSE Slice(input, 32, 32)[i - 32]]
    BY <1>0 DEF Concat
  <2>7. ASSUME NEW i \in 0 .. 63 PROVE joined[i] = input[i]
    <3>1. CASE i < 32
      BY <2>4, <2>6, <3>1
    <3>2. CASE ~(i < 32)
      <4>1. i - 32 \in 0 .. 31 /\ i - 32 + 32 = i
        BY <3>2
      <4> QED
        BY <2>4, <2>6, <3>2, <4>1
    <3> QED
      BY <3>1, <3>2
  <2>8. RoutineEnd(RoutineStart(data)) = permute_bits(joined, k_final_permutation_table)
    BY <2>3 DEF RoutineEnd
  <2> HIDE DEF joined
  <2>9. permute_bits(joined, k_final_permutation_table) = [i \in 0 .. 63 |-> joined[k_final_permutation_table[i]]]
    BY PermutationDomains DEF permute_bits
  <2>10. ASSUME NEW i \in 0 .. 63 PROVE joined[k_final_permutation_table[i]] = data[i]
    <3>1. PICK j \in 0 .. 63 : j = k_final_permutation_table[i]
      BY PermutationTables
    <3>2. k_initial_permutation_table[j] = i
      BY <3>1, PermutationTables
    <3>3. joined[j] = input[j] /\ input[j] = data[k_initial_permutation_table[j]]
      BY <2>1, <2>7
    <3> QED
      BY <3>1, <3>2, <3>3
  <2>11. data = [i \in 0 .. 63 |-> data[i]]
    BY <1>0 DEF Word
  <2> QED
    BY <2>3, <2>5, <2>8, <2>9, <2>10, <2>11 DEF Halves
<1>2. ASSUME NEW halves \in Halves
      PROVE  RoutineEnd(halves) \in Word(64) /\ RoutineStart(RoutineEnd(halves)) = halves
  <2> DEFINE joined == Concat(halves[1], halves[2], 32)
             data == permute_bits(joined, k_final_permutation_table)
             input == permute_bits(data, k_initial_permutation_table)
  <2>1. halves = << halves[1], halves[2] >> /\ halves[1] \in Word(32) /\ halves[2] \in Word(32)
    BY DEF Halves
  <2>2. PICK left, right : left = halves[1] /\ right = halves[2]
    OBVIOUS
  <2>3. joined = [i \in 0 .. 63 |-> IF i < 32 THEN right[i] ELSE left[i - 32]]
    BY <1>0, <2>2 DEF Concat
  <2>4. /\ left = [i \in 0 .. 31 |-> left[i]] /\ right = [i \in 0 .. 31 |-> right[i]]
        /\ \A i \in 0 .. 31 : left[i] \in {0, 1} /\ right[i] \in {0, 1}
    BY <1>0, <2>1, <2>2 DEF Word
  <2>5. ASSUME NEW i \in 0 .. 63 PROVE joined[i] \in {0, 1}
    BY <2>3, <2>4
  <2>6. data = [i \in 0 .. 63 |-> joined[k_final_permutation_table[i]]]
    BY PermutationDomains DEF permute_bits
  <2>7. RoutineEnd(halves) = data
    BY DEF RoutineEnd
  <2> HIDE DEF joined
  <2>8. data \in Word(64)
    <3>1. ASSUME NEW i \in 0 .. 63 PROVE joined[k_final_permutation_table[i]] \in {0, 1}
      BY <2>5, PermutationTables
    <3> QED
      BY <1>0, <2>6, <3>1 DEF Word
  <2> HIDE DEF data
  <2>9. input = [i \in 0 .. 63 |-> data[k_initial_permutation_table[i]]]
    BY PermutationDomains DEF permute_bits
  <2>10. RoutineStart(data) = << Slice(input, 32, 32), Slice(input, 0, 32) >>
    BY DEF RoutineStart
  <2> HIDE DEF input
  <2>11. ASSUME NEW i \in 0 .. 63 PROVE input[i] = joined[i]
    <3>1. PICK j \in 0 .. 63 : j = k_initial_permutation_table[i]
      BY PermutationTables
    <3>2. k_final_permutation_table[j] = i
      BY <3>1, PermutationTables
    <3> QED
      BY <2>6, <2>9, <3>1, <3>2
  <2>12. /\ Slice(input, 32, 32) = [i \in 0 .. 31 |-> input[i + 32]]
         /\ Slice(input, 0, 32) = [i \in 0 .. 31 |-> input[i + 0]]
    BY <1>0 DEF Slice
  <2>13. ASSUME NEW i \in 0 .. 31 PROVE input[i + 32] = left[i] /\ input[i + 0] = right[i]
    <3>1. i + 32 \in 0 .. 63 /\ ~(i + 32 < 32) /\ i + 32 - 32 = i /\ i + 0 = i /\ i \in 0 .. 63 /\ i < 32
      OBVIOUS
    <3> QED
      BY <2>3, <2>11, <3>1
  <2>14. Slice(input, 32, 32) = left /\ Slice(input, 0, 32) = right
    BY <2>4, <2>12, <2>13
  <2> QED
    BY <2>1, <2>2, <2>7, <2>8, <2>10, <2>14
<1> QED
  BY <1>1, <1>2

\* The pair of halves after round i: what RoutineRound makes of those before it.
LEMMA RoundMixes ==
  ASSUME NEW h \in Halves, NEW i \in 0 .. 15, NEW k \in Word(48), NEW e \in [0 .. 47 -> 0 .. 31]
  PROVE  /\ RoutineRound(h, i, k, e) \in Halves
         /\ RoutineRound(h, i, k, e) =
              IF i # 15 THEN << h[2], Xor(h[1], feistel_block(h[2], k, e)) >>
              ELSE << Xor(h[1], feistel_block(h[2], k, e)), h[2] >>
         /\ feistel_block(h[2], k, e) \in Word(32)
         /\ Xor(Xor(h[1], feistel_block(h[2], k, e)), feistel_block(h[2], k, e)) = h[1]
<1>1. h[1] \in Word(32) /\ h[2] \in Word(32) /\ 32 \in Nat
  BY DEF Halves
<1>2. feistel_block(h[2], k, e) \in Word(32)
  BY <1>1, FeistelIsWord
<1>3. PICK f \in Word(32) : f = feistel_block(h[2], k, e)
  BY <1>2
<1>4. Xor(h[1], f) \in Word(32) /\ Xor(Xor(h[1], f), f) = h[1]
  BY <1>1, XorTwice
<1>5. RoutineRound(h, i, k, e) = IF i # 15 THEN << h[2], Xor(h[1], f) >> ELSE << Xor(h[1], f), h[2] >>
  BY <1>3 DEF RoutineRound
<1>6. << h[2], Xor(h[1], f) >> \in Halves /\ << Xor(h[1], f), h[2] >> \in Halves
  BY <1>1, <1>4 DEF Halves
<1> QED
  BY <1>2, <1>3, <1>4, <1>5, <1>6

\* Two rounds with one key, the second on exchanged halves, are the same halves
\* exchanged: of a round that swaps, of the last one, and of the last one again.
Exchanged(h) == << h[2], h[1] >>

LEMMA RoundUndone ==
  ASSUME NEW h \in Halves, NEW k \in Word(48), NEW e \in [0 .. 47 -> 0 .. 31],
         NEW i \in 0 .. 15, NEW j \in 0 .. 15, NEW back,
         i = 15 => back = RoutineRound(h, i, k, e),
         i # 15 => back = Exchanged(RoutineRound(h, i, k, e))
  PROVE  /\ j = 15 => RoutineRound(back, j, k, e) = h
         /\ j # 15 => RoutineRound(back, j, k, e) = Exchanged(h)
<1> DEFINE g == RoutineRound(h, i, k, e)
<1>1. PICK f : f = feistel_block(h[2], k, e)
  OBVIOUS
<1>2. g = (IF i # 15 THEN << h[2], Xor(h[1], f) >> ELSE << Xor(h[1], f), h[2] >>)
      /\ Xor(Xor(h[1], f), f) = h[1] /\ g \in Halves
  <2>1. /\ g \in Halves
        /\ g = IF i # 15 THEN << h[2], Xor(h[1], feistel_block(h[2], k, e)) >>
               ELSE << Xor(h[1], feistel_block(h[2], k, e)), h[2] >>
        /\ Xor(Xor(h[1], feistel_block(h[2], k, e)), feistel_block(h[2], k, e)) = h[1]
    BY ZenonT(30), RoundMixes
  <2> QED
    BY ONLY <1>1, <2>1
<1>3. back = << Xor(h[1], f), h[2] >>
  <2>1. i = 15 => back = g
    OBVIOUS
  <2>2. i # 15 => back = Exchanged(g)
    OBVIOUS
  <2> HIDE DEF g
  <2> QED
    BY ONLY <1>2, <2>1, <2>2 DEF Exchanged
<1>4. back \in Halves
  <2> HIDE DEF g
  <2>1. i = 15 => back = g
    BY ONLY <1>2, <1>3
  <2>2. i # 15 => back = << g[2], g[1] >>
    BY ONLY <1>2, <1>3
  <2>3. << g[2], g[1] >> \in Halves
    BY ONLY <1>2 DEF Halves
  <2> QED
    BY ONLY <1>2, <2>1, <2>2, <2>3
<1>5. RoutineRound(back, j, k, e) =
        IF j # 15 THEN << back[2], Xor(back[1], feistel_block(back[2], k, e)) >>
        ELSE << Xor(back[1], feistel_block(back[2], k, e)), back[2] >>
  BY ONLY ZenonT(60), <1>4, k \in Word(48), e \in [0 .. 47 -> 0 .. 31], j \in 0 .. 15, RoundMixes
<1>6. back[1] = Xor(h[1], f) /\ back[2] = h[2]
  BY <1>3
<1>7. h = << h[1], h[2] >>
  BY DEF Halves
<1>8. Xor(back[1], feistel_block(back[2], k, e)) = h[1]
  BY <1>1, <1>2, <1>6
<1> QED
  BY <1>5, <1>6, <1>7, <1>8 DEF Exchanged

Keys == key_schedule(job.key)

\* The halves after the i-th round, of the sixteen of an enciphering, make those
\* before the next; trace has the halves before the first.
TraceKept(next) ==
  \A i \in 1 .. Len(trace) :
     (IF i = Len(trace) THEN next ELSE trace[i + 1])
       = RoutineRound(trace[i], i - 1, Keys[i - 1], job.expansion)

DesTypeOK ==
  /\ job \in Jobs
  /\ pass \in Nat
  /\ block \in Word(64)
  /\ half \in Halves
  /\ round \in 0 .. 16
  /\ trace \in Seq(Halves)

DesIInv ==
  /\ DesTypeOK
  /\ round = 0 => half = RoutineStart(block)
  /\ job.passes = 1 =>
       /\ pass \in 0 .. 2
       /\ pass = 0 => Len(trace) = round /\ TraceKept(half)
       /\ pass # 0 => Len(trace) = 16
       /\ pass = 1 => TraceKept(RoutineStart(block))
       /\ Len(trace) > 0 => trace[1] = RoutineStart(job.block)
       /\ pass = 0 => block = job.block
  /\ DecipherRetraces

\* What holds in every state of the calls of encrypt, decrypt, crypt and tripcode.
THEOREM DesInvariance == DesSpec => []DesIInv
<1>1. DesInit => DesIInv
  <2> SUFFICES ASSUME DesInit PROVE DesIInv
    OBVIOUS
  <2>1. job \in Jobs /\ pass = 0 /\ block = job.block /\ half = RoutineStart(job.block) /\ round = 0 /\ trace = << >>
    BY DEF DesInit
  <2>2. block \in Word(64) /\ half \in Halves
    BY <2>1, JobsAssumption, StartAndEnd DEF Prepared
  <2>3. << >> \in Seq(Halves) /\ Len(<< >>) = 0
    OBVIOUS
  <2>4. DesTypeOK
    BY <2>1, <2>2, <2>3 DEF DesTypeOK
  <2>5. DecipherRetraces
    BY <2>1 DEF DecipherRetraces, Deciphering
  <2>6. TraceKept(half)
    BY <2>1, <2>3 DEF TraceKept
  <2> QED
    BY <2>1, <2>3, <2>4, <2>5, <2>6 DEF DesIInv
<1>2. DesIInv /\ [DesNext]_desVars => DesIInv'
  <2> SUFFICES ASSUME DesIInv, [DesNext]_desVars PROVE DesIInv'
    OBVIOUS
  <2>0. /\ job \in Jobs /\ pass \in Nat /\ block \in Word(64) /\ half \in Halves
        /\ round \in 0 .. 16 /\ trace \in Seq(Halves) /\ Len(trace) \in Nat
        /\ job.block \in Word(64) /\ job.expansion \in [0 .. 47 -> 0 .. 31] /\ job.passes \in {1, 25}
        /\ Keys \in [0 .. 15 -> Word(48)]
    BY SMTT(60), JobsAssumption, KeySchedule DEF DesIInv, DesTypeOK, Prepared, Keys
  <2>1. CASE DesRound
    <3> DEFINE k == RoundKey(Keys, Deciphering, round)
               e == job.expansion
    <3>1. /\ pass < Passes /\ round < 16 /\ round \in 0 .. 15 /\ half' = RoutineRound(half, round, k, e)
          /\ round' = round + 1 /\ job' = job /\ pass' = pass /\ block' = block
          /\ trace' = IF job.passes = 1 /\ pass = 0 THEN Append(trace, half) ELSE trace
      BY <2>0, <2>1 DEF DesRound, Keys
    <3>2. k \in Word(48)
      <4>1. (IF Deciphering THEN 15 - round ELSE round) \in 0 .. 15
        BY <3>1
      <4> HIDE DEF k
      <4>2. Keys[IF Deciphering THEN 15 - round ELSE round] \in Word(48)
        BY ONLY ZenonT(30), <2>0, <4>1
      <4> QED
        BY ONLY <4>2 DEF k, RoundKey
    <3>3. half' \in Halves
      <4> HIDE DEF k, e
      <4>1. half \in Halves /\ round \in 0 .. 15 /\ e \in [0 .. 47 -> 0 .. 31]
        BY ONLY <2>0, <3>1 DEF e
      <4>2. RoutineRound(half, round, k, e) \in Halves
        BY ONLY ZenonT(30), <4>1, <3>2, RoundMixes
      <4> QED
        BY ONLY <3>1, <4>2
    <3>4. Append(trace, half) \in Seq(Halves) /\ Len(Append(trace, half)) = Len(trace) + 1
          /\ \A i \in 1 .. Len(trace) : Append(trace, half)[i] = trace[i]
          /\ Append(trace, half)[Len(trace) + 1] = half
      BY <2>0, AppendProperties
    <3>5. DesTypeOK' /\ round' # 0 /\ round' \in 1 .. 16
      <4>1. round' \in 1 .. 16 /\ round' \in 0 .. 16 /\ round' # 0
        BY <3>1
      <4>2. trace' \in Seq(Halves)
        BY ONLY <2>0, <3>1, <3>4
      <4>3. job' \in Jobs /\ pass' \in Nat /\ block' \in Word(64)
        BY ONLY <2>0, <3>1
      <4> QED
        BY ONLY <3>3, <4>1, <4>2, <4>3 DEF DesTypeOK
    <3>6. ASSUME job.passes # 1 PROVE DesIInv'
      BY <3>1, <3>5, <3>6 DEF DesIInv, DecipherRetraces, Deciphering
    <3>7. ASSUME job.passes = 1, pass = 0 PROVE DesIInv'
      <4>1. Len(trace) = round /\ TraceKept(half) /\ block = job.block
            /\ (Len(trace) > 0 => trace[1] = RoutineStart(job.block))
            /\ (round = 0 => half = RoutineStart(block))
        BY <3>7 DEF DesIInv
      <4>2. trace' = Append(trace, half) /\ Len(trace') = round + 1 /\ Len(trace') > 0
            /\ \A i \in 1 .. round : trace'[i] = trace[i]
            /\ trace'[round + 1] = half
        BY <3>1, <3>4, <3>7, <4>1
      <4>3. k = Keys[round]
        BY <3>7 DEF RoundKey, Deciphering
      <4>4. TraceKept(half)'
        <5>1. ASSUME NEW i \in 1 .. round + 1
              PROVE  (IF i = round + 1 THEN half' ELSE trace'[i + 1]) = RoutineRound(trace'[i], i - 1, Keys[i - 1], e)
          <6>1. CASE i = round + 1
            <7>1. i - 1 = round
              BY <3>1, <6>1
            <7> QED
              BY <3>1, <4>2, <4>3, <6>1, <7>1
          <6>2. CASE i # round + 1
            <7>1. i \in 1 .. round /\ (i = round \/ i + 1 \in 1 .. round) /\ i \in 1 .. Len(trace)
              BY <3>1, <4>1, <6>2
            <7>2. (IF i = Len(trace) THEN half ELSE trace[i + 1]) = RoutineRound(trace[i], i - 1, Keys[i - 1], e)
              BY <4>1, <7>1 DEF TraceKept
            <7>3. trace'[i + 1] = IF i = Len(trace) THEN half ELSE trace[i + 1]
              BY <4>1, <4>2, <7>1
            <7> QED
              BY <4>2, <6>2, <7>1, <7>2, <7>3
          <6> QED
            BY <6>1, <6>2
        <5>2. Keys' = Keys /\ (job.expansion)' = e
          BY <3>1 DEF Keys
        <5> HIDE DEF e
        <5> QED
          BY <4>2, <5>1, <5>2 DEF TraceKept
      <4>5. trace'[1] = RoutineStart(job.block)
        <5>1. round = 0 \/ 1 \in 1 .. round
          BY <3>1
        <5> QED
          BY <3>1, <4>1, <4>2, <5>1
      <4>6. DecipherRetraces'
        BY <3>1, <3>7 DEF DecipherRetraces, Deciphering
      <4> QED
        BY <3>1, <3>5, <3>7, <4>1, <4>2, <4>4, <4>5, <4>6 DEF DesIInv
    <3>8. ASSUME job.passes = 1, pass = 1 PROVE DesIInv'
      <4>1. /\ Len(trace) = 16 /\ TraceKept(RoutineStart(block)) /\ trace[1] = RoutineStart(job.block)
            /\ half = IF round = 0 THEN RoutineStart(block)
                      ELSE << trace[17 - round][2], trace[17 - round][1] >>
        <5>1. Len(trace) = 16 /\ TraceKept(RoutineStart(block))
          BY <3>8 DEF DesIInv
        <5>2. trace[1] = RoutineStart(job.block)
          BY <3>8, <5>1 DEF DesIInv
        <5>3. half = IF round = 0 THEN RoutineStart(block)
                     ELSE << trace[17 - round][2], trace[17 - round][1] >>
          BY <3>1, <3>8 DEF DesIInv, DecipherRetraces, Deciphering
        <5> QED
          BY <5>1, <5>2, <5>3
      <4> DEFINE n == 16 - round
                 h == trace[n]
      <4>2. n \in 1 .. 16 /\ n - 1 \in 0 .. 15 /\ n - 1 = 15 - round /\ 17 - round = n + 1
            /\ (n = 16 <=> round = 0) /\ (n - 1 = 15 <=> round = 0) /\ round' = 17 - n
            /\ 17 - round' = n /\ (round' = 16 <=> round = 15) /\ (round' = 16 => n = 1)
        BY <3>1
      <4>3. k = Keys[n - 1]
        BY <3>8, <4>2 DEF RoundKey, Deciphering
      <4> HIDE DEF n, k
      <4>4. h \in Halves
        <5>1. n \in 1 .. Len(trace)
          BY <4>1, <4>2
        <5> QED
          BY <2>0, <5>1
      <4>5. (IF n = 16 THEN RoutineStart(block) ELSE trace[n + 1]) = RoutineRound(h, n - 1, k, e)
        BY <4>1, <4>2, <4>3 DEF TraceKept
      <4> HIDE DEF h, e
      <4>6. half = IF n - 1 = 15 THEN RoutineRound(h, n - 1, k, e)
                   ELSE << RoutineRound(h, n - 1, k, e)[2], RoutineRound(h, n - 1, k, e)[1] >>
        BY <4>1, <4>2, <4>5
      <4>7. RoutineRound(half, round, k, e) = IF round = 15 THEN h ELSE << h[2], h[1] >>
        <5>1. PICK i \in 0 .. 15 : i = n - 1
          BY <4>2
        <5>2. e \in [0 .. 47 -> 0 .. 31]
          BY <2>0 DEF e
        <5>3. (i = 15 => half = RoutineRound(h, i, k, e)) /\ (i # 15 => half = Exchanged(RoutineRound(h, i, k, e)))
          BY <4>6, <5>1 DEF Exchanged
        <5>4. /\ round = 15 => RoutineRound(half, round, k, e) = h
              /\ round # 15 => RoutineRound(half, round, k, e) = Exchanged(h)
          <6>1. round \in 0 .. 15
            BY <3>1
          <6>2. k \in Word(48)
            BY <3>2
          <6>3. h \in Halves
            BY <4>4
          <6> QED
            BY ONLY <6>1, <6>2, <6>3, <5>2, <5>3, i \in 0 .. 15, RoundUndone
        <5> QED
          BY <5>4 DEF Exchanged
      <4>8. half' = IF round' = 16 THEN trace[1] ELSE << trace[17 - round'][2], trace[17 - round'][1] >>
        BY <3>1, <4>2, <4>7 DEF h
      <4>9. DecipherRetraces'
        BY <3>1, <3>5, <3>8, <4>8 DEF DecipherRetraces, Deciphering
      <4>10. TraceKept(RoutineStart(block))'
        <5>1. trace' = trace /\ job' = job /\ block' = block /\ Keys' = Keys
          BY <3>1, <3>8 DEF Keys
        <5>2. TraceKept(RoutineStart(block))
          BY <4>1
        <5> QED
          BY <5>1, <5>2 DEF TraceKept
      <4> QED
        BY <3>1, <3>5, <3>8, <4>1, <4>9, <4>10 DEF DesIInv
    <3>9. job.passes = 1 => pass \in {0, 1}
      BY <2>0, <3>1 DEF Passes
    <3> QED
      BY <3>6, <3>7, <3>8, <3>9
  <2>2. CASE DesReturn
    <3>1. /\ pass < Passes /\ round = 16 /\ block' = RoutineEnd(half) /\ pass' = pass + 1
          /\ half' = RoutineStart(RoutineEnd(half)) /\ round' = 0 /\ job' = job /\ trace' = trace
      BY <2>2 DEF DesReturn
    <3>2. block' \in Word(64) /\ half' = half /\ half' = RoutineStart(block')
      BY <2>0, <3>1, StartAndEnd
    <3>3. DesTypeOK'
      BY <2>0, <3>1, <3>2 DEF DesTypeOK
    <3>4. ASSUME job.passes # 1 PROVE DesIInv'
      BY <3>1, <3>2, <3>3, <3>4 DEF DesIInv, DecipherRetraces, Deciphering
    <3>5. ASSUME job.passes = 1, pass = 0 PROVE DesIInv'
      <4>1. Len(trace) = 16 /\ TraceKept(half) /\ trace[1] = RoutineStart(job.block) /\ pass' = 1
        <5>1. Len(trace) = 16 /\ TraceKept(half)
          BY <3>1, <3>5 DEF DesIInv
        <5>2. trace[1] = RoutineStart(job.block)
          BY <3>5, <5>1 DEF DesIInv
        <5> QED
          BY <3>1, <3>5, <5>1, <5>2
      <4>2. TraceKept(RoutineStart(block))'
        BY <3>1, <3>2, <4>1 DEF TraceKept, Keys
      <4>3. DecipherRetraces'
        BY <3>1, <3>2, <3>5, <4>1 DEF DecipherRetraces, Deciphering
      <4> QED
        BY <3>1, <3>2, <3>3, <3>5, <4>1, <4>2, <4>3 DEF DesIInv
    <3>6. ASSUME job.passes = 1, pass = 1 PROVE DesIInv'
      <4>1. Len(trace) = 16 /\ trace[1] = RoutineStart(job.block) /\ half = trace[1] /\ pass' = 2
        <5>1. Len(trace) = 16
          BY <3>6 DEF DesIInv
        <5>2. trace[1] = RoutineStart(job.block)
          BY <3>6, <5>1 DEF DesIInv
        <5>3. half = trace[1]
          BY <3>1, <3>6 DEF DesIInv, DecipherRetraces, Deciphering
        <5> QED
          BY <3>1, <3>6, <5>1, <5>2, <5>3
      <4>2. block' = job.block
        BY <2>0, <3>1, <4>1, StartAndEnd
      <4>3. DecipherRetraces'
        BY <3>1, <3>6, <4>1, <4>2 DEF DecipherRetraces, Deciphering
      <4> QED
        BY <3>1, <3>2, <3>3, <3>6, <4>1, <4>2, <4>3 DEF DesIInv
    <3>7. job.passes = 1 => pass \in {0, 1}
      BY <2>0, <3>1 DEF Passes
    <3> QED
      BY <3>4, <3>5, <3>6, <3>7
  <2>3. CASE UNCHANGED desVars
    BY SMTT(100), <2>3 DEF desVars, DesIInv, DesTypeOK, TraceKept, Keys, DecipherRetraces, Deciphering
  <2> QED
    BY <2>1, <2>2, <2>3 DEF DesNext
<1> QED
  BY <1>1, <1>2, PTL DEF DesSpec

\* For every block, key and expansion, decrypt of encrypt is the block again, and
\* walks back through the halves of encrypt (routine, DES.hpp:11-38).
THEOREM Decipher == DesSpec => []DecipherRetraces
<1>1. DesIInv => DecipherRetraces
  BY DEF DesIInv
<1> QED
  BY <1>1, DesInvariance, PTL

LEMMA PreparedKey ==
  ASSUME NEW raw_key \in Word(64)
  PROVE  prepare_key(raw_key) \in Word(56)
<1>1. prepare_key(raw_key) = [i \in 0 .. 55 |-> raw_key[k_key_sched_pc_1[i]]]
  BY PermutationDomains DEF prepare_key, permute_bits
<1>2. ASSUME NEW i \in 0 .. 55 PROVE raw_key[k_key_sched_pc_1[i]] \in {0, 1}
  <2>1. k_key_sched_pc_1[i] \in 0 .. 63 /\ 64 - 1 = 63
    BY SMTT(100), i \in 0 .. 55, OtherTables
  <2> QED
    BY <2>1 DEF Word
<1> DEFINE Dec == 0 .. 55
<1>3. Word(56) = [Dec -> {0, 1}]
  <2>1. 56 - 1 = 55
    OBVIOUS
  <2> QED
    BY ONLY <2>1 DEF Word
<1>4. prepare_key(raw_key) = [i \in Dec |-> raw_key[k_key_sched_pc_1[i]]]
  BY ONLY <1>1
<1>5. \A i \in Dec : raw_key[k_key_sched_pc_1[i]] \in {0, 1}
  BY ONLY <1>2
<1> HIDE DEF Dec
<1> QED
  BY ONLY <1>3, <1>4, <1>5

\* The assumption on the calls holds of whatever encrypt is called with ...
THEOREM EncryptIsPrepared ==
  ASSUME NEW plaintext \in Word(64), NEW raw_key \in Word(64), NEW answer
  PROVE  Prepared(EncryptJob(plaintext, raw_key, answer))
<1> DEFINE j == EncryptJob(plaintext, raw_key, answer)
<1>1. /\ j.block = plaintext /\ j.key = prepare_key(raw_key) /\ j.expansion = k_expansion_table
      /\ j.passes = 1
  BY DEF EncryptJob
<1>2. prepare_key(raw_key) \in Word(56)
  BY PreparedKey
<1> HIDE DEF j
<1> QED
  BY <1>1, <1>2, OtherTables DEF Prepared, j

\* ... and of whatever password and salt crypt is called with.
THEOREM CryptIsPrepared ==
  ASSUME NEW pw \in Seq(0 .. 255), NEW salt, NEW skip, NEW answer
  PROVE  Prepared(CryptJob(pw, salt, skip, answer))
<1> DEFINE j == CryptJob(pw, salt, skip, answer)
           m == IF Len(pw) < 8 THEN Len(pw) ELSE 8
           front == SubSeq(pw, 1, m)
           raw_key == get_crypt_key(front)
           Characters == 0 .. 255
<1>0. pw \in Seq(Characters)
  OBVIOUS
<1>1. /\ j.block = [b \in 0 .. 63 |-> 0] /\ j.key = prepare_key(raw_key)
      /\ j.expansion = get_crypt_expansion_block(salt) /\ j.passes = 25
  BY DEF CryptJob
<1>2. Len(pw) \in Nat /\ m \in 0 .. Len(pw)
  OBVIOUS
<1>3. front \in Seq(Characters) /\ Len(front) = m
  <2>1. m \in Nat /\ 0 + m <= Len(pw) /\ 0 \in Nat
    BY <1>2
  <2> HIDE DEF m, Characters
  <2>2. SubSeq(pw, 0 + 1, 0 + m) \in Seq(Characters) /\ Len(SubSeq(pw, 0 + 1, 0 + m)) = m
    BY <1>0, <2>1, PartOf
  <2>3. 0 + 1 = 1 /\ 0 + m = m
    BY <2>1
  <2> QED
    BY <2>2, <2>3
<1> HIDE DEF front, m
<1>4. ASSUME NEW b \in 0 .. 63 PROVE raw_key[b] \in {0, 1}
  <2>1. raw_key[b] = IF 7 - (b \div 8) < Len(front) /\ b % 8 > 0
                     THEN (front[8 - (b \div 8)] \div 2^((b % 8) - 1)) % 2 ELSE 0
    BY DEF get_crypt_key
  <2>2. CASE 7 - (b \div 8) < Len(front) /\ b % 8 > 0
    <3>1. 8 - (b \div 8) \in 1 .. Len(front) /\ (b % 8) - 1 \in Nat
      <4>1. Len(front) \in Nat /\ Len(front) <= 8
        BY <1>2, <1>3 DEF m
      <4>2. PICK n \in Nat : n = Len(front)
        BY <4>1
      <4>3. 7 - (b \div 8) < n /\ b % 8 > 0 /\ n <= 8
        BY <2>2, <4>1, <4>2
      <4>4. 8 - (b \div 8) \in 1 .. n /\ (b % 8) - 1 \in Nat
        BY <4>3
      <4> QED
        BY <4>2, <4>4
    <3>2. PICK x \in 0 .. 255 : x = front[8 - (b \div 8)]
      <4>1. PICK i \in 1 .. Len(front) : i = 8 - (b \div 8)
        BY <3>1
      <4>2. front[i] \in Characters
        <5> HIDE DEF Characters
        <5> QED
          BY <1>3
      <4> QED
        BY <4>1, <4>2
    <3>3. PICK y \in Nat \ {0} : y = 2^((b % 8) - 1)
      BY <3>1, TwoToPositive
    <3>4. x \div y \in Int
      BY DivisionProps
    <3> QED
      BY SMTT(100), <2>1, <2>2, <3>2, <3>3, <3>4
  <2>3. CASE ~(7 - (b \div 8) < Len(front) /\ b % 8 > 0)
    BY <2>1, <2>3
  <2> QED
    BY <2>2, <2>3
<1>5. raw_key \in Word(64)
  <2>1. raw_key = [b \in 0 .. 63 |-> raw_key[b]] /\ 64 - 1 = 63
    BY DEF get_crypt_key
  <2> HIDE DEF raw_key
  <2> QED
    BY <1>4, <2>1 DEF Word
<1> HIDE DEF raw_key
<1>6. prepare_key(raw_key) \in Word(56)
  BY SMTT(60), <1>5, PreparedKey
<1>7. get_crypt_expansion_block(salt) \in [0 .. 47 -> 0 .. 31]
  <2>1. PICK Swapped \in [0 .. 47 -> BOOLEAN] :
          get_crypt_expansion_block(salt)
            = [b \in 0 .. 47 |-> k_expansion_table[IF Swapped[b] THEN (b + 24) % 48 ELSE b]]
    <3> DEFINE Salted(k) == k < 12 /\ (FromBase64(salt[(k \div 6) + 1]) \div 2^(k % 6)) % 2 = 1
               S == [b \in 0 .. 47 |-> Salted((47 - b) % 24)]
    <3>1. get_crypt_expansion_block(salt)
            = [b \in 0 .. 47 |-> k_expansion_table[IF Salted((47 - b) % 24) THEN (b + 24) % 48 ELSE b]]
      BY DEF get_crypt_expansion_block
    <3>2. ASSUME NEW b \in 0 .. 47 PROVE Salted((47 - b) % 24) \in BOOLEAN
      OBVIOUS
    <3> HIDE DEF Salted
    <3>3. S \in [0 .. 47 -> BOOLEAN] /\ \A b \in 0 .. 47 : S[b] = Salted((47 - b) % 24)
      BY <3>2
    <3> HIDE DEF S
    <3> QED
      BY <3>1, <3>3
  <2>2. ASSUME NEW b \in 0 .. 47 PROVE k_expansion_table[IF Swapped[b] THEN (b + 24) % 48 ELSE b] \in 0 .. 31
    <3>1. (IF Swapped[b] THEN (b + 24) % 48 ELSE b) \in 0 .. 47
      OBVIOUS
    <3>2. k_expansion_table \in [0 .. 47 -> 0 .. 31]
      BY OtherTables
    <3> QED
      BY ONLY ZenonT(30), <3>1, <3>2
  <2> QED
    BY <2>1, <2>2
<1>8. [b \in 0 .. 63 |-> 0] \in Word(64)
  <2>1. 64 - 1 = 63
    OBVIOUS
  <2> QED
    BY <2>1 DEF Word
<1> HIDE DEF j
<1> QED
  BY <1>1, <1>6, <1>7, <1>8 DEF Prepared, j

-----------------------------------------------------------------------------
(***************************************************************************)
(* SHA-2: the padding                                                      *)
(***************************************************************************)
Octet == 0 .. 255

\* What has been fed for this message.
Stream == blocks \o pending

ShaTypeOK ==
  /\ batch \in Batches /\ item \in 1 .. Len(batch)
  /\ stage \in {"update", "zeros", "length"}
  /\ fed \in 0 .. Len(Message)
  /\ pending \in Seq(Octet) /\ blocks \in Seq(Octet)
  /\ \E S : schedule \in Seq(S)
  /\ Len(pending) <= Props.chunk
  /\ Compressing <=> Len(pending) = Props.chunk
  /\ \E q \in Nat : Len(blocks) = Props.chunk * q
  /\ bit_size = 8 * Len(blocks)

\* z zeros behind the bit that follows n bytes leave room for the length.
Fits(n, c, l, z) ==
  z \in 0 .. c - 1 /\ \E q \in Nat : n + 1 + z = c * q + c - l

Fitting(z) == Fits(Len(Message), Props.chunk, Props.length, z)

\* The message, as far as it has been fed; the bit; the zeros; the length.
Padded(z) ==
  /\ \A i \in 1 .. fed : Stream[i] = Message[i]
  /\ stage = "update" => Len(Stream) = fed
  /\ stage # "update" => fed = Len(Message) /\ cached = 8 * Len(Message) /\ Stream[fed + 1] = 128
  /\ stage = "zeros" =>
       /\ Len(Stream) \in fed + 1 .. fed + 1 + z
       /\ \A i \in fed + 2 .. Len(Stream) : Stream[i] = 0
  /\ stage = "length" =>
       /\ \A i \in fed + 2 .. fed + 1 + z : Stream[i] = 0
       /\ \E m \in 1 .. Props.length :
            /\ Len(Stream) = fed + 1 + z + m
            /\ \A k \in 1 .. m : Stream[fed + 1 + z + k] = LengthByte(k)

ShaIInv == ShaTypeOK /\ \E z : Fitting(z) /\ Padded(z)

Sizes(c, l) == (c = 64 /\ l = 8) \/ (c = 128 /\ l = 16)

LEMMA PropsAre ==
  ASSUME NEW b \in Batches, NEW i \in 1 .. Len(b)
  PROVE  /\ Sizes(b[i].props.chunk, b[i].props.length)
         /\ b[i].message \in Seq(Octet) /\ Len(b[i].message) \in Nat /\ Shifted(8 * Len(b[i].message))[8] = 0
<1>1. b \in Seq(Item) /\ Shifted(8 * Len(b[i].message))[8] = 0
  BY ShaAssumption
<1>2. PICK e \in Item : e = b[i]
  BY <1>1
<1>3. /\ e.props \in {Sha256Props, Sha224Props, Sha512Props, Sha384Props}
      /\ e.message \in Seq(0 .. 255)
  BY ONLY e \in Item DEF Item
<1>4. Sizes(e.props.chunk, e.props.length)
  BY ONLY <1>3 DEF Sha256Props, Sha224Props, Sha512Props, Sha384Props, Props32, Props64, Sizes
<1> QED
  BY <1>1, <1>2, <1>3, <1>4 DEF Octet

\* There always is a number of zeros below the size of a block.
LEMMA ZerosFit ==
  ASSUME NEW n \in Nat, NEW c, NEW l, Sizes(c, l)
  PROVE  \E z : Fits(n, c, l, z)
<1>1. CASE c = 64 /\ l = 8
  <2> DEFINE r == (n + 1 + 7) % 64
             q == (n + 1 + 7) \div 64
  <2>1. q \in Nat /\ r \in 0 .. 63 /\ n + 1 + 7 = 64 * q + r
    BY Z3
  <2> HIDE DEF r, q
  <2>2. 63 - r \in 0 .. c - 1 /\ n + 1 + (63 - r) = c * q + c - l
    BY ONLY <2>1, <1>1, n \in Nat
  <2> QED
    BY ONLY <2>1, <2>2 DEF Fits
<1>2. CASE c = 128 /\ l = 16
  <2> DEFINE r == (n + 1 + 15) % 128
             q == (n + 1 + 15) \div 128
  <2>1. q \in Nat /\ r \in 0 .. 127 /\ n + 1 + 15 = 128 * q + r
    BY Z3
  <2> HIDE DEF r, q
  <2>2. 127 - r \in 0 .. c - 1 /\ n + 1 + (127 - r) = c * q + c - l
    BY ONLY <2>1, <1>2, n \in Nat
  <2> QED
    BY ONLY <2>1, <2>2 DEF Fits
<1> QED
  BY <1>1, <1>2 DEF Sizes

\* Where in its block the length goes.
LEMMA LengthStarts ==
  ASSUME NEW c, NEW l, Sizes(c, l), NEW q \in Nat, NEW r \in Nat, NEW p \in 0 .. c, NEW m \in 0 .. l,
         c * q + c - l + m = c * r + p, p < c
  PROVE  IF m = l THEN p = 0 ELSE p = c - l + m /\ r = q
  BY DEF Sizes

LEMMA JoinedAt ==
  ASSUME NEW S, NEW f \in Seq(S), NEW g \in Seq(S), NEW q, NEW d, q = Len(f), d = Len(g)
  PROVE  /\ Len(f \o g) = q + d
         /\ \A i \in 1 .. q + d : (f \o g)[i] = IF i <= q THEN f[i] ELSE g[i - q]
  BY ConcatProperties

\* One more byte.
LEMMA FeedStream ==
  ASSUME ShaTypeOK, NEW byte \in Octet, Feed(byte)
  PROVE  /\ batch' = batch /\ item' = item /\ bit_size' = bit_size /\ blocks' = blocks
         /\ pending' \in Seq(Octet) /\ Len(pending) < Props.chunk
         /\ \E S : schedule' \in Seq(S)
         /\ Len(pending') <= Props.chunk
         /\ schedule' # << >> <=> Len(pending') = Props.chunk
         /\ Len(Stream) \in Nat /\ Len(Stream') = Len(Stream) + 1
         /\ \A i \in 1 .. Len(Stream) : Stream'[i] = Stream[i]
         /\ Stream'[Len(Stream) + 1] = byte
<1>1. /\ ~Compressing /\ pending' = Append(pending, byte)
      /\ IF Len(pending') >= Props.chunk THEN schedule' = data_to_schedule(pending') ELSE schedule' = schedule
      /\ batch' = batch /\ item' = item /\ bit_size' = bit_size /\ blocks' = blocks
  BY DEF Feed
<1>2. pending \in Seq(Octet) /\ blocks \in Seq(Octet)
  BY DEF ShaTypeOK
<1>3. PICK p \in Nat, q \in Nat : p = Len(pending) /\ q = Len(blocks)
  BY <1>2
<1>4. PICK c \in Nat : c = Props.chunk /\ c > 0
  <2>1. batch \in Batches /\ item \in 1 .. Len(batch)
    BY DEF ShaTypeOK
  <2>2. Sizes(batch[item].props.chunk, batch[item].props.length)
    BY ONLY <2>1, PropsAre
  <2>3. Props = batch[item].props
    BY DEF Props
  <2> QED
    BY ONLY <2>2, <2>3 DEF Sizes
<1>5. p < c /\ schedule = << >>
  <2>1. Len(pending) <= Props.chunk /\ (Compressing <=> Len(pending) = Props.chunk)
    BY DEF ShaTypeOK
  <2>2. ~Compressing
    BY <1>1
  <2> QED
    BY ONLY <1>3, <1>4, <2>1, <2>2, p \in Nat, c \in Nat DEF Compressing
<1>6. /\ pending' \in Seq(Octet) /\ Len(pending') = p + 1
      /\ \A i \in 1 .. p : pending'[i] = pending[i]
      /\ pending'[p + 1] = byte
  BY ONLY <1>1, <1>2, <1>3, AppendProperties, byte \in Octet
<1>7. (\E S : schedule' \in Seq(S)) /\ (schedule' # << >> <=> Len(pending') = c)
  <2>1. CASE p + 1 >= c
    <3> DEFINE s == data_to_schedule(pending')
               S == {s[i] : i \in 1 .. 16}
    <3>1. DOMAIN s = 1 .. 16 /\ s = [i \in 1 .. 16 |-> s[i]]
      BY DEF data_to_schedule
    <3> HIDE DEF s
    <3>2. s \in [1 .. 16 -> S]
      BY ONLY <3>1
    <3>3. s \in Seq(S) /\ Len(s) = 16
      <4> HIDE DEF S
      <4> QED
        BY ONLY <3>2, ArrayIsSeq, 16 \in Nat
    <3>4. s # << >>
      <4>1. Len(<< >>) # 16
        OBVIOUS
      <4> QED
        BY ONLY <3>3, <4>1, Zenon
    <3>5. schedule' = s
      BY <1>1, <1>4, <1>6, <2>1 DEF s
    <3> QED
      BY <1>4, <1>5, <1>6, <2>1, <3>3, <3>4, <3>5
  <2>2. CASE ~(p + 1 >= c)
    BY <1>1, <1>4, <1>5, <1>6, <2>2 DEF ShaTypeOK
  <2> QED
    BY <2>1, <2>2
<1>8. /\ Len(Stream) = q + p
      /\ \A i \in 1 .. q + p : Stream[i] = IF i <= q THEN blocks[i] ELSE pending[i - q]
  BY ONLY <1>2, <1>3, ConcatProperties DEF Stream
<1>9. /\ Len(Stream') = q + (p + 1)
      /\ \A i \in 1 .. q + (p + 1) : Stream'[i] = IF i <= q THEN blocks[i] ELSE pending'[i - q]
  <2>0. blocks' = blocks
    BY <1>1
  <2>1. Stream' = blocks \o pending'
    BY ONLY <2>0 DEF Stream
  <2>2. PICK t : t = pending'
    OBVIOUS
  <2>3. PICK d \in Nat : d = p + 1 /\ d = Len(t) /\ q = Len(blocks) /\ t \in Seq(Octet) /\ blocks \in Seq(Octet)
    BY ONLY <1>2, <1>3, <1>6, <2>2, p \in Nat
  <2>4. /\ Len(blocks \o t) = q + d
        /\ \A i \in 1 .. q + d : (blocks \o t)[i] = IF i <= q THEN blocks[i] ELSE t[i - q]
    BY ONLY <2>3, JoinedAt
  <2> QED
    BY ONLY <2>1, <2>2, <2>3, <2>4
<1>10. ASSUME NEW i \in 1 .. q + p PROVE Stream'[i] = Stream[i]
  <2>1. i \in 1 .. q + (p + 1)
    OBVIOUS
  <2>2. CASE i <= q
    BY ONLY <1>8, <1>9, <2>1, <2>2, i \in 1 .. q + p
  <2>3. CASE ~(i <= q)
    <3>1. i - q \in 1 .. p
      BY <2>3
    <3> QED
      BY ONLY <1>6, <1>8, <1>9, <2>1, <2>3, <3>1, i \in 1 .. q + p
  <2> QED
    BY <2>2, <2>3
<1>11. Stream'[q + p + 1] = byte
  <2>1. PICK x \in 1 .. q + (p + 1) : x = q + p + 1 /\ ~(x <= q) /\ x - q = p + 1
    OBVIOUS
  <2> QED
    BY ONLY <1>6, <1>9, <2>1
<1> QED
  BY ONLY <1>1, <1>3, <1>4, <1>5, <1>6, <1>7, <1>8, <1>9, <1>10, <1>11

LEMMA FedTypes ==
  ASSUME ShaTypeOK, NEW byte \in Octet, Feed(byte),
         stage' \in {"update", "zeros", "length"}, fed' \in 0 .. Len(Message)
  PROVE  ShaTypeOK'
<1>1. Props' = Props /\ Message' = Message
  BY FeedStream DEF Props, Message
<1> QED
  BY <1>1, FeedStream DEF ShaTypeOK, Compressing

\* The sizes of the message being hashed.
LEMMA Here ==
  ASSUME ShaTypeOK
  PROVE  /\ Sizes(Props.chunk, Props.length)
         /\ Message \in Seq(Octet) /\ Len(Message) \in Nat /\ Shifted(8 * Len(Message))[8] = 0
         /\ Len(pending) \in Nat /\ Len(blocks) \in Nat /\ Len(Stream) = Len(blocks) + Len(pending)
<1>1. pending \in Seq(Octet) /\ blocks \in Seq(Octet) /\ batch \in Batches /\ item \in 1 .. Len(batch)
  BY DEF ShaTypeOK
<1>2. /\ Sizes(Props.chunk, Props.length)
      /\ Message \in Seq(Octet) /\ Len(Message) \in Nat /\ Shifted(8 * Len(Message))[8] = 0
  BY <1>1, PropsAre DEF Props, Message
<1>3. Len(pending) \in Nat /\ Len(blocks) \in Nat /\ Len(Stream) = Len(blocks) + Len(pending)
  BY ONLY <1>1, ConcatProperties DEF Stream
<1> QED
  BY <1>2, <1>3

LEMMA UpdateStep ==
  ASSUME ShaTypeOK, NEW z, Fitting(z), Padded(z), Update
  PROVE  ShaTypeOK' /\ Padded(z)'
<1>1. /\ stage = "update" /\ fed < Len(Message) /\ Feed(Message[fed + 1]) /\ fed' = fed + 1 /\ stage' = stage
  BY DEF Update
<1>2. PICK n \in Nat, f \in Nat : n = Len(Message) /\ f = fed /\ f < n /\ Message \in Seq(Octet)
  BY SMTT(30), <1>1, Here DEF ShaTypeOK
<1>3. PICK byte \in Octet : byte = Message[f + 1]
  BY <1>2
<1>4. ShaTypeOK'
  <2>1. fed' \in 0 .. Len(Message) /\ stage' \in {"update", "zeros", "length"} /\ Feed(byte)
    BY <1>1, <1>2, <1>3
  <2> QED
    BY <2>1, FedTypes
<1>5. /\ Len(Stream) = f /\ \A i \in 1 .. f : Stream[i] = Message[i]
  BY <1>1, <1>2 DEF Padded
<1>6. /\ batch' = batch /\ item' = item
      /\ Len(Stream') = f + 1 /\ (\A i \in 1 .. f : Stream'[i] = Stream[i]) /\ Stream'[f + 1] = byte
  BY <1>1, <1>2, <1>3, <1>5, FeedStream
<1>7. Message' = Message
  BY <1>6 DEF Message
<1>8. ASSUME NEW i \in 1 .. f + 1 PROVE Stream'[i] = Message'[i]
  <2>1. i \in 1 .. f \/ i = f + 1
    OBVIOUS
  <2> QED
    BY ONLY <1>3, <1>5, <1>6, <1>7, <2>1
<1>9. Padded(z)'
  BY ONLY <1>1, <1>2, <1>6, <1>8 DEF Padded
<1> QED
  BY <1>4, <1>9

LEMMA FinishStep ==
  ASSUME ShaTypeOK, NEW z, Fitting(z), Padded(z), Finish
  PROVE  ShaTypeOK' /\ Padded(z)'
<1>1. /\ stage = "update" /\ fed = Len(Message) /\ Feed(128) /\ fed' = fed /\ stage' = "zeros"
      /\ cached' = bit_size + 8 * Len(pending)
  BY DEF Finish
<1>2. PICK n \in Nat : n = Len(Message) /\ fed = n
  BY <1>1, Here
<1>3. 128 \in Octet
  BY DEF Octet
<1>4. ShaTypeOK'
  <2>1. fed' \in 0 .. Len(Message) /\ stage' \in {"update", "zeros", "length"}
    BY <1>1, <1>2
  <2> QED
    BY <1>1, <1>3, <2>1, FedTypes
<1>5. Len(Stream) = n /\ \A i \in 1 .. n : Stream[i] = Message[i]
  BY <1>1, <1>2 DEF Padded
<1>6. /\ batch' = batch /\ item' = item
      /\ Len(Stream') = n + 1 /\ (\A i \in 1 .. n : Stream'[i] = Stream[i]) /\ Stream'[n + 1] = 128
  BY <1>1, <1>3, <1>5, FeedStream
<1>7. Message' = Message
  BY <1>6 DEF Message
<1>8. cached' = 8 * n
  <2>1. bit_size = 8 * Len(blocks) /\ Len(blocks) + Len(pending) = n /\ Len(blocks) \in Nat /\ Len(pending) \in Nat
    BY <1>5, Here DEF ShaTypeOK
  <2> QED
    BY ONLY <1>1, <2>1
<1>9. z \in Nat
  BY Here DEF Fitting, Fits, Sizes
<1>10. Len(Stream') \in n + 1 .. n + 1 + z /\ \A i \in n + 2 .. Len(Stream') : Stream'[i] = 0
  BY ONLY <1>6, <1>9, n \in Nat
<1>11. Padded(z)'
  BY ONLY <1>1, <1>2, <1>5, <1>6, <1>7, <1>8, <1>10 DEF Padded
<1> QED
  BY <1>4, <1>11

LEMMA PadZeroStep ==
  ASSUME ShaTypeOK, NEW z, Fitting(z), Padded(z), PadZero
  PROVE  ShaTypeOK' /\ Padded(z)'
<1>1. /\ stage = "zeros" /\ Feed(0) /\ fed' = fed /\ stage' = stage /\ cached' = cached
      /\ Len(pending) # Props.chunk - Props.length
  BY DEF PadZero, RoomForLength
<1>2. PICK n \in Nat : n = Len(Message) /\ fed = n
  BY <1>1, Here DEF Padded
<1>3. 0 \in Octet
  BY DEF Octet
<1>4. ShaTypeOK'
  <2>1. fed' \in 0 .. Len(Message) /\ stage' \in {"update", "zeros", "length"}
    BY <1>1, <1>2
  <2> QED
    BY <1>1, <1>3, <2>1, FedTypes
<1>5. PICK c \in Nat, l \in Nat : c = Props.chunk /\ l = Props.length /\ Sizes(c, l)
  BY Here DEF Sizes
<1>6. PICK s \in Nat : s = Len(Stream)
  BY Here
<1>7. z \in 0 .. c - 1 /\ s \in n + 1 .. n + 1 + z
  BY <1>1, <1>2, <1>5, <1>6 DEF Padded, Fitting, Fits
<1>8. s # n + 1 + z
  <2>1. Fits(n, c, l, z)
    BY <1>2, <1>5 DEF Fitting
  <2>2. PICK r \in Nat : Len(blocks) = c * r
    BY <1>5 DEF ShaTypeOK
  <2>3. Len(pending) \in Nat /\ Len(Stream) = Len(blocks) + Len(pending)
    BY Here
  <2>4. Len(pending) < Props.chunk
    BY <1>1, <1>3, FeedStream
  <2>5. PICK p \in Nat : p = Len(pending) /\ p < c /\ p # c - l /\ s = c * r + p
    BY ONLY <1>1, <1>5, <1>6, <2>2, <2>3, <2>4
  <2>6. PICK q \in Nat : n + 1 + z = c * q + c - l
    BY ONLY <2>1, Zenon DEF Fits
  <2>9. z \in Nat
    BY ONLY <1>5, <1>7
  <2>7. CASE c = 64 /\ l = 8
    <3>1. c * q = 64 * q /\ c * r = 64 * r /\ c - l = 56 /\ p < 64 /\ p # 56
      BY <2>5, <2>7
    <3>2. s = 64 * r + p /\ n + 1 + z = 64 * q + 56
      BY ONLY <2>5, <2>6, <3>1
    <3>3. p \in Nat /\ p < 64 /\ p # 56
      BY ONLY <3>1
    <3> QED
      BY ONLY <2>9, <3>2, <3>3, q \in Nat, r \in Nat
  <2>8. CASE c = 128 /\ l = 16
    <3>1. c * q = 128 * q /\ c * r = 128 * r /\ c - l = 112 /\ p < 128 /\ p # 112
      BY <2>5, <2>8
    <3>2. s = 128 * r + p /\ n + 1 + z = 128 * q + 112
      BY ONLY <2>5, <2>6, <3>1
    <3>3. p \in Nat /\ p < 128 /\ p # 112
      BY ONLY <3>1
    <3> QED
      BY ONLY <2>9, <3>2, <3>3, q \in Nat, r \in Nat
  <2> QED
    BY ONLY <1>5, <2>7, <2>8 DEF Sizes
<1>9. /\ batch' = batch /\ item' = item
      /\ Len(Stream') = s + 1 /\ (\A i \in 1 .. s : Stream'[i] = Stream[i]) /\ Stream'[s + 1] = 0
  BY <1>1, <1>3, <1>6, FeedStream
<1>10. Message' = Message
  BY <1>9 DEF Message
<1>11. /\ \A i \in 1 .. n : Stream[i] = Message[i]
       /\ cached = 8 * n /\ Stream[n + 1] = 128
       /\ \A i \in n + 2 .. s : Stream[i] = 0
  BY <1>1, <1>2, <1>6 DEF Padded
<1>12. /\ \A i \in 1 .. n : Stream'[i] = Message'[i]
       /\ Stream'[n + 1] = 128
  <2>1. \A i \in 1 .. n : i \in 1 .. s
    BY ONLY <1>7, n \in Nat, s \in Nat
  <2>2. n + 1 \in 1 .. s
    BY ONLY <1>7, n \in Nat, s \in Nat
  <2> QED
    BY ONLY <1>9, <1>10, <1>11, <2>1, <2>2
<1>13. ASSUME NEW i \in n + 2 .. s + 1 PROVE Stream'[i] = 0
  <2>1. i = s + 1 \/ (i \in n + 2 .. s /\ i \in 1 .. s)
    BY ONLY i \in n + 2 .. s + 1, n \in Nat, s \in Nat
  <2> QED
    BY ONLY <1>9, <1>11, <2>1
<1>14. Len(Stream') \in n + 1 .. n + 1 + z
  BY ONLY <1>7, <1>8, <1>9, n \in Nat, s \in Nat, c \in Nat
<1>15. Padded(z)'
  BY ONLY <1>1, <1>2, <1>9, <1>10, <1>11, <1>12, <1>13, <1>14 DEF Padded
<1> QED
  BY <1>4, <1>15

\* Shifting by one byte more divides by 256 once more.
LEMMA ShiftedIs ==
  ASSUME NEW x \in Nat
  PROVE  /\ \A i \in 0 .. 16 : Shifted(x)[i] \in Nat
         /\ Shifted(x)[0] = x
         /\ \A i \in 1 .. 16 : Shifted(x)[i] = Shifted(x)[i - 1] \div 256
<1> DEFINE S == Nat
           F == [p \in (1 .. 16) \X S |-> p[2] \div 256]
           body(g) == [i \in 0 .. 16 |-> IF i = 0 THEN x ELSE g[i - 1] \div 256]
           shifted == CHOOSE g : g = body(g)
<1>1. Shifted(x) = shifted
  BY Zenon DEF Shifted
<1>2. F \in [(1 .. 16) \X S -> S]
  <2>1. \A v \in Nat : v \div 256 \in Nat
    BY Z3
  <2> QED
    BY ONLY <2>1
<1>3. PICK g \in [0 .. 16 -> S] : Recurs(g, 16, x, F)
  <2> HIDE DEF F
  <2> QED
    BY ONLY <1>2, x \in Nat, 16 \in Nat, Recursion
<1>4. g = body(g)
  <2> DEFINE term(i) == IF i = 0 THEN x ELSE g[i - 1] \div 256
  <2>1. g = [i \in 0 .. 16 |-> g[i]]
    BY <1>3
  <2>2. ASSUME NEW i \in 0 .. 16 PROVE g[i] = term(i)
    <3>1. CASE i = 0
      BY <1>3, <3>1 DEF Recurs
    <3>2. CASE i # 0
      <4>1. i \in 1 .. 16 /\ i - 1 \in 0 .. 16
        BY <3>2
      <4>2. g[i] = F[<<i, g[i - 1]>>] /\ <<i, g[i - 1]>> \in (1 .. 16) \X S
        <5> HIDE DEF F
        <5> QED
          BY <1>3, <4>1 DEF Recurs
      <4>3. g[i] = g[i - 1] \div 256
        BY ONLY <4>2
      <4> QED
        BY <3>2, <4>3
    <3> QED
      BY <3>1, <3>2
  <2>3. body(g) = [i \in 0 .. 16 |-> term(i)]
    OBVIOUS
  <2> HIDE DEF term, body
  <2> QED
    BY <2>1, <2>2, <2>3
<1>5. shifted = body(shifted)
  <2> HIDE DEF body
  <2> QED
    BY <1>4
<1> HIDE DEF shifted, F
<1>6. shifted = [i \in 0 .. 16 |-> IF i = 0 THEN x ELSE shifted[i - 1] \div 256]
  BY ONLY <1>5
<1> HIDE DEF body
<1>7. shifted[0] = x /\ \A i \in 1 .. 16 : shifted[i] = shifted[i - 1] \div 256
  BY ONLY <1>6
<1>8. \A i \in 0 .. 16 : shifted[i] \in Nat
  <2> DEFINE T == {i \in Nat : i <= 16 => shifted[i] \in Nat}
  <2>1. 0 \in T
    BY ONLY <1>7, x \in Nat
  <2>2. ASSUME NEW i \in Nat, i \in T PROVE i + 1 \in T
    <3> SUFFICES ASSUME i + 1 <= 16 PROVE shifted[i + 1] \in Nat
      OBVIOUS
    <3>1. i + 1 \in 1 .. 16 /\ (i + 1) - 1 = i /\ shifted[i] \in Nat
      BY <2>2
    <3>2. shifted[i + 1] = shifted[(i + 1) - 1] \div 256
      BY ONLY <1>7, <3>1
    <3>3. PICK v \in Nat : v = shifted[i]
      BY ONLY <3>1
    <3>4. v \div 256 \in Nat
      BY Z3
    <3> QED
      BY ONLY <3>1, <3>2, <3>3, <3>4
  <2> HIDE DEF T
  <2>3. \A i \in Nat : i \in T
    BY ONLY <2>1, <2>2, Induction
  <2> QED
    BY <2>3 DEF T
<1> QED
  BY ONLY <1>1, <1>7, <1>8

\* The bytes of a length.
LEMMA LengthByteIs ==
  ASSUME NEW l \in 8 .. 16, l = Props.length, cached \in Nat, NEW k \in 1 .. l
  PROVE  LengthByte(k) \in Octet
<1>1. l - k \in 0 .. 16
  OBVIOUS
<1>2. PICK v \in Nat : v = Shifted(cached)[l - k]
  BY <1>1, ShiftedIs
<1>3. v % 256 \in 0 .. 255
  BY Z3
<1> QED
  BY <1>2, <1>3 DEF LengthByte, Octet

LEMMA PadLengthStep ==
  ASSUME ShaTypeOK, NEW z, Fitting(z), Padded(z), PadLength
  PROVE  ShaTypeOK' /\ Padded(z)'
<1>1. PICK n \in Nat : n = Len(Message) /\ fed = n /\ cached = 8 * n /\ stage \in {"zeros", "length"}
  BY Here DEF PadLength, Padded
<1>2. PICK c \in Nat, l \in Nat : c = Props.chunk /\ l = Props.length /\ Sizes(c, l)
  BY Here DEF Sizes
<1>3. PICK s \in Nat, p \in Nat, r \in Nat :
         s = Len(Stream) /\ p = Len(pending) /\ Len(blocks) = c * r /\ s = c * r + p
  <2>1. PICK r \in Nat : Len(blocks) = c * r
    BY <1>2 DEF ShaTypeOK
  <2>2. Len(pending) \in Nat /\ Len(Stream) = Len(blocks) + Len(pending) /\ Len(Stream) \in Nat
    BY Here
  <2> QED
    BY ONLY <2>1, <2>2
<1>4. PICK q \in Nat : z \in 0 .. c - 1 /\ n + 1 + z = c * q + c - l
  <2>1. Fits(n, c, l, z)
    BY <1>1, <1>2 DEF Fitting
  <2> QED
    BY ONLY <2>1, Zenon DEF Fits
<1>5. /\ Feed(LengthByte(p - (c - l) + 1))
      /\ fed' = fed /\ cached' = cached /\ stage' = "length"
      /\ (stage = "zeros" /\ p = c - l) \/ (stage = "length" /\ pending # << >>)
  BY <1>2, <1>3 DEF PadLength, RoomForLength
<1>6. p < c
  <2>1. ~Compressing /\ p <= c
    BY <1>2, <1>3, <1>5 DEF Feed, ShaTypeOK
  <2> QED
    BY <1>2, <1>3, <2>1 DEF ShaTypeOK
<1>7. PICK m \in 0 .. l - 1 :
        /\ s = n + 1 + z + m /\ p - (c - l) + 1 = m + 1
        /\ \A i \in n + 2 .. n + 1 + z : Stream[i] = 0
        /\ \A k \in 1 .. m : Stream[n + 1 + z + k] = LengthByte(k)
  <2>1. CASE stage = "zeros"
    <3>1. s \in n + 1 .. n + 1 + z /\ \A i \in n + 2 .. s : Stream[i] = 0
      BY <1>1, <1>3, <2>1 DEF Padded
    <3>2. p = c - l
      BY <1>5, <2>1
    <3>3. s = n + 1 + z
      <4>1. s = c * r + c - l /\ s >= n + 1 /\ s <= n + 1 + z
        BY ONLY <1>2, <1>3, <3>1, <3>2, <1>4, n \in Nat
      <4>2. CASE c = 64 /\ l = 8
        <5>1. s = 64 * r + 56 /\ n + 1 + z = 64 * q + 56 /\ z \in 0 .. 63
          BY ONLY <1>4, <4>1, <4>2
        <5> QED
          BY ONLY <4>1, <5>1, n \in Nat, q \in Nat, r \in Nat, s \in Nat
      <4>3. CASE c = 128 /\ l = 16
        <5>1. s = 128 * r + 112 /\ n + 1 + z = 128 * q + 112 /\ z \in 0 .. 127
          BY ONLY <1>4, <4>1, <4>3
        <5> QED
          BY ONLY <4>1, <5>1, n \in Nat, q \in Nat, r \in Nat, s \in Nat
      <4> QED
        BY ONLY <1>2, <4>2, <4>3 DEF Sizes
    <3>4. 0 \in 0 .. l - 1 /\ s = n + 1 + z + 0 /\ p - (c - l) + 1 = 0 + 1 /\ \A k \in 1 .. 0 : FALSE
      BY ONLY <1>2, <3>2, <3>3, <1>4, n \in Nat, p \in Nat, s \in Nat DEF Sizes
    <3> QED
      BY ONLY <3>1, <3>3, <3>4
  <2>2. CASE stage = "length"
    <3>1. PICK m \in 1 .. l :
            /\ s = n + 1 + z + m /\ \A i \in n + 2 .. n + 1 + z : Stream[i] = 0
            /\ \A k \in 1 .. m : Stream[n + 1 + z + k] = LengthByte(k)
      BY <1>1, <1>2, <1>3, <2>2 DEF Padded
    <3>2. p # 0
      BY <1>3, <1>5, <2>2, EmptySeq DEF ShaTypeOK
    <3>3. c * q + c - l + m = c * r + p
      BY ONLY <1>3, <1>4, <3>1
    <3>4. m # l /\ p = c - l + m
      <4>1. m \in 0 .. l /\ p \in 0 .. c
        BY <1>6, <3>1
      <4> QED
        BY ONLY <1>2, <1>6, <3>2, <3>3, <4>1, LengthStarts, q \in Nat, r \in Nat
    <3>5. m \in 0 .. l - 1 /\ p - (c - l) + 1 = m + 1
      BY ONLY <1>2, <3>1, <3>4, p \in Nat, l \in Nat, c \in Nat
    <3> QED
      BY ONLY <3>1, <3>5
  <2> QED
    BY <1>1, <2>1, <2>2
<1>8. PICK byte \in Octet : byte = LengthByte(m + 1)
  <2>1. m + 1 \in 1 .. l /\ cached \in Nat
    BY <1>1
  <2>2. l \in 8 .. 16
    BY ONLY <1>2 DEF Sizes
  <2> QED
    BY <1>2, <2>1, <2>2, LengthByteIs
<1>9. Feed(byte)
  BY <1>5, <1>7, <1>8
<1>10. ShaTypeOK'
  <2>1. fed' \in 0 .. Len(Message) /\ stage' \in {"update", "zeros", "length"}
    BY <1>1, <1>5
  <2> QED
    BY <1>9, <2>1, FedTypes
<1>11. /\ batch' = batch /\ item' = item
       /\ Len(Stream') = s + 1 /\ (\A i \in 1 .. s : Stream'[i] = Stream[i]) /\ Stream'[s + 1] = byte
  BY <1>3, <1>9, FeedStream
<1>12. Props' = Props /\ Message' = Message
  BY <1>11 DEF Props, Message
<1>13. /\ \A i \in 1 .. n : Stream[i] = Message[i]
       /\ Stream[n + 1] = 128
  BY <1>1 DEF Padded
<1>14. /\ \A i \in 1 .. n : Stream'[i] = Message'[i]
       /\ Stream'[n + 1] = 128
  <2>1. \A i \in 1 .. n : i \in 1 .. s
    BY ONLY <1>4, <1>7, n \in Nat, s \in Nat, c \in Nat, l \in Nat
  <2>2. n + 1 \in 1 .. s
    BY ONLY <1>4, <1>7, n \in Nat, s \in Nat, c \in Nat, l \in Nat
  <2> QED
    BY ONLY <1>11, <1>12, <1>13, <2>1, <2>2
<1>15. ASSUME NEW i \in n + 2 .. n + 1 + z PROVE Stream'[i] = 0
  <2>1. i \in 1 .. s
    BY ONLY <1>4, <1>7, i \in n + 2 .. n + 1 + z, n \in Nat, s \in Nat, c \in Nat, l \in Nat
  <2> QED
    BY ONLY <1>7, <1>11, <2>1, i \in n + 2 .. n + 1 + z
<1>16. ASSUME NEW k \in 1 .. m + 1 PROVE Stream'[n + 1 + z + k] = LengthByte(k)'
  <2>1. LengthByte(k)' = LengthByte(k)
    BY <1>5, <1>12 DEF LengthByte
  <2>2. CASE k = m + 1
    <3>1. n + 1 + z + k = s + 1
      BY ONLY <1>4, <1>7, <2>2, n \in Nat, c \in Nat, l \in Nat
    <3> QED
      BY ONLY <1>8, <1>11, <2>1, <2>2, <3>1
  <2>3. CASE k # m + 1
    <3>1. k \in 1 .. m /\ n + 1 + z + k \in 1 .. s
      BY ONLY <1>4, <1>7, <2>3, k \in 1 .. m + 1, n \in Nat, c \in Nat, l \in Nat
    <3> QED
      BY ONLY <1>7, <1>11, <2>1, <3>1
  <2> QED
    BY <2>2, <2>3
<1>17. PICK m2 \in 1 .. l : m2 = m + 1 /\ s + 1 = n + 1 + z + m2
  <2>1. m + 1 \in 1 .. l /\ s + 1 = n + 1 + z + (m + 1)
    BY ONLY <1>4, <1>7, n \in Nat, c \in Nat, l \in Nat
  <2> QED
    BY ONLY <2>1
<1>18. Padded(z)'
  <2>1. \A k \in 1 .. m2 : Stream'[fed' + 1 + z + k] = LengthByte(k)'
    BY ONLY <1>1, <1>5, <1>16, <1>17
  <2>2. m2 \in 1 .. Props.length'
    BY <1>2, <1>12
  <2>3. Len(Stream') = fed' + 1 + z + m2
    BY ONLY <1>1, <1>5, <1>11, <1>17
  <2> QED
    BY ONLY <1>1, <1>5, <1>12, <1>14, <1>15, <2>1, <2>2, <2>3 DEF Padded
<1> QED
  BY <1>10, <1>18

\* Steps of the compression feed nothing.
LEMMA QuietStep ==
  ASSUME NEW z, Padded(z), Stream' = Stream,
         UNCHANGED << batch, item, fed, stage, cached >>
  PROVE  Padded(z)'
<1>1. Props' = Props /\ Message' = Message
  BY DEF Props, Message
<1>2. \A k : LengthByte(k)' = LengthByte(k)
  BY <1>1 DEF LengthByte
<1> QED
  BY <1>1, <1>2 DEF Padded

LEMMA ExtendStep ==
  ASSUME ShaTypeOK, NEW z, Padded(z), Extend
  PROVE  ShaTypeOK' /\ Padded(z)'
<1>1. PICK w : schedule' = Append(schedule, w)
  BY DEF Extend
<1>2. /\ Compressing
      /\ UNCHANGED << batch, item, fed, stage, pending, bit_size, cached, blocks >>
  BY DEF Extend
<1>3. PICK S : schedule \in Seq(S)
  BY DEF ShaTypeOK
<1>4. (\E U : schedule' \in Seq(U)) /\ schedule' # << >>
  <2> DEFINE U == S \cup {w}
  <2>1. schedule \in Seq(U) /\ w \in U
    BY <1>3, SeqOfFewer, \A i \in 1 .. Len(schedule) : schedule[i] \in U
  <2> HIDE DEF U
  <2>2. schedule' \in Seq(U) /\ Len(schedule') = Len(schedule) + 1 /\ Len(schedule) \in Nat
    BY ONLY <1>1, <2>1, AppendProperties
  <2>3. schedule' # << >>
    BY <2>2
  <2> QED
    BY <2>2, <2>3
<1>5. Props' = Props /\ Message' = Message /\ Stream' = Stream
  BY <1>2 DEF Props, Message, Stream
<1>6. ShaTypeOK'
  BY <1>2, <1>4, <1>5 DEF ShaTypeOK, Compressing
<1> QED
  BY <1>2, <1>5, <1>6, QuietStep

LEMMA RoundStep ==
  ASSUME ShaTypeOK, NEW z, Padded(z), ShaRound
  PROVE  ShaTypeOK' /\ Padded(z)'
<1>1. UNCHANGED << batch, item, fed, stage, pending, bit_size, cached, schedule, blocks >>
  BY DEF ShaRound
<1>2. Props' = Props /\ Message' = Message /\ Stream' = Stream
  BY <1>1 DEF Props, Message, Stream
<1>3. ShaTypeOK'
  BY <1>1, <1>2 DEF ShaTypeOK, Compressing
<1> QED
  BY <1>1, <1>2, <1>3, QuietStep

\* There are constants for at least one round.
LEMMA RoundsExist ==
  ASSUME NEW b \in Batches, NEW i \in 1 .. Len(b)
  PROVE  Len(b[i].props.k) # 0
<1>1. b \in Seq(Item)
  BY ShaAssumption
<1>2. PICK e \in Item : e = b[i]
  BY <1>1
<1>3. e.props \in {Sha256Props, Sha224Props, Sha512Props, Sha384Props}
  BY ONLY e \in Item DEF Item
<1>4. e.props.k = k256 \/ e.props.k = k512
  BY ONLY <1>3 DEF Sha256Props, Sha224Props, Sha512Props, Sha384Props, Props32, Props64
<1>5. Len(k256) # 0 /\ Len(k512) # 0
  <2>1. Len(k256) = 64
    BY ONLY SMTT(60) DEF k256
  <2>2. Len(k512) = 80
    BY ONLY SMTT(60) DEF k512
  <2> QED
    BY ONLY <2>1, <2>2
<1> QED
  BY ONLY <1>2, <1>4, <1>5

LEMMA BlockStep ==
  ASSUME ShaTypeOK, NEW z, Padded(z), FinishBlock
  PROVE  ShaTypeOK' /\ Padded(z)'
<1>1. /\ Len(schedule) = Len(Props.k)
      /\ bit_size' = bit_size + 8 * Props.chunk
      /\ pending' = << >> /\ schedule' = << >> /\ blocks' = blocks \o pending
      /\ UNCHANGED << batch, item, fed, stage, cached >>
  BY DEF FinishBlock
<1>2. Props' = Props /\ Message' = Message
  BY <1>1 DEF Props, Message
<1>3. pending \in Seq(Octet) /\ blocks \in Seq(Octet)
  BY DEF ShaTypeOK
<1>4. blocks' \in Seq(Octet) /\ Stream' = Stream
  <2>1. Stream = blocks \o pending /\ Stream' = (blocks \o pending) \o << >>
    BY <1>1 DEF Stream
  <2>2. blocks \o pending \in Seq(Octet)
    BY <1>3, ConcatProperties
  <2>3. (blocks \o pending) \o << >> = blocks \o pending
    BY ONLY <2>2, ConcatEmptySeq
  <2> QED
    BY <1>1, <2>1, <2>2, <2>3
<1>5. PICK c \in Nat, q \in Nat, p \in Nat, s \in Nat :
        /\ c = Props.chunk /\ c # 0 /\ p = Len(pending) /\ s = Len(blocks) /\ s = c * q
        /\ Len(blocks') = s + p
  <2>1. PICK c \in Nat : c = Props.chunk /\ c # 0
    BY Here DEF Sizes
  <2>2. PICK q \in Nat : Len(blocks) = c * q
    BY <2>1 DEF ShaTypeOK
  <2>3. Len(blocks') = Len(blocks) + Len(pending)
    BY ONLY <1>1, <1>3, ConcatProperties
  <2> QED
    BY <1>3, <2>1, <2>2, <2>3
<1>6. p = c
  <2>1. Len(schedule) # 0
    BY <1>1, RoundsExist DEF ShaTypeOK, Props
  <2>2. Compressing
    BY <2>1 DEF Compressing
  <2> QED
    BY <1>5, <2>2 DEF ShaTypeOK
<1>7. Len(blocks') = c * (q + 1) /\ q + 1 \in Nat
  <2>1. c * (q + 1) = c * q + c
    BY Z3
  <2> QED
    BY <1>5, <1>6, <2>1
<1>8. bit_size' = 8 * Len(blocks')
  <2>1. bit_size = 8 * s
    BY <1>5 DEF ShaTypeOK
  <2> QED
    BY ONLY <1>1, <1>5, <1>6, <2>1
<1>9. /\ pending' \in Seq(Octet) /\ Len(pending') = 0
      /\ schedule' \in Seq({}) /\ ~(schedule' # << >>)
  BY <1>1
<1>10. ShaTypeOK'
  <2>1. \E x \in Nat : Len(blocks') = Props'.chunk * x
    BY <1>2, <1>5, <1>7
  <2>2. Len(pending') <= Props'.chunk /\ (schedule' # << >> <=> Len(pending') = Props'.chunk)
    BY <1>2, <1>5, <1>9
  <2>3. \E S : schedule' \in Seq(S)
    BY <1>9
  <2>4. batch' = batch /\ item' = item /\ stage' = stage /\ fed' = fed
    BY <1>1
  <2> QED
    BY <1>2, <1>4, <1>8, <1>9, <2>1, <2>2, <2>3, <2>4 DEF ShaTypeOK, Compressing
<1> QED
  BY <1>1, <1>4, <1>10, QuietStep

\* Nothing of a message is left when the next one begins.
LEMMA ResetStep ==
  ASSUME ShaTypeOK, NEW z, Padded(z), Reset
  PROVE  ShaIInv'
<1>1. /\ stage = "length" /\ pending = << >> /\ item < Len(batch)
      /\ item' = item + 1 /\ batch' = batch /\ pending' = << >> /\ schedule' = schedule
      /\ bit_size' = 0 /\ fed' = 0 /\ stage' = "update" /\ blocks' = << >>
  BY DEF Reset, Done
<1>2. item' \in 1 .. Len(batch') /\ batch' \in Batches
  BY <1>1, ShaAssumption DEF ShaTypeOK
<1>3. PICK c \in Nat, l, n \in Nat : c = Props'.chunk /\ l = Props'.length /\ Sizes(c, l) /\ n = Len(Message)'
  BY <1>2, PropsAre DEF Props, Message, Sizes
<1>4. schedule = << >>
  <2>1. Len(pending) = 0
    BY <1>1
  <2>2. Props.chunk # 0
    BY Here DEF Sizes
  <2>3. Compressing <=> Len(pending) = Props.chunk
    BY DEF ShaTypeOK
  <2> QED
    BY ONLY <2>1, <2>2, <2>3 DEF Compressing
<1>5. Len(blocks') = 0 /\ Len(pending') = 0 /\ 0 = c * 0 /\ c # 0 /\ Len(Stream') = 0
  BY <1>1, <1>3 DEF Sizes, Stream
<1>6. ShaTypeOK'
  <2>1. \E x \in Nat : Len(blocks') = Props'.chunk * x
    BY <1>3, <1>5
  <2>2. Len(pending') <= Props'.chunk /\ (schedule' # << >> <=> Len(pending') = Props'.chunk)
    BY <1>1, <1>3, <1>4, <1>5
  <2>3. schedule' \in Seq({}) /\ pending' \in Seq(Octet) /\ blocks' \in Seq(Octet) /\ fed' \in 0 .. Len(Message)'
    BY <1>1, <1>3, <1>4
  <2>4. bit_size' = 8 * Len(blocks')
    BY <1>1, <1>5
  <2> QED
    BY <1>1, <1>2, <2>1, <2>2, <2>3, <2>4 DEF ShaTypeOK, Compressing
<1>7. PICK x : Fitting(x)'
  <2>1. PICK x : Fits(n, c, l, x)
    BY ONLY <1>3, ZerosFit
  <2> QED
    BY ONLY <1>3, <2>1, Zenon DEF Fitting
<1>8. Padded(x)'
  BY <1>1, <1>5 DEF Padded
<1> QED
  BY <1>6, <1>7, <1>8 DEF ShaIInv

\* What has been fed and compressed, in every state, is a part of the padded message.
THEOREM ShaInvariance == ShaSpec => []ShaIInv
<1>1. ShaInit => ShaIInv
  <2> SUFFICES ASSUME ShaInit PROVE ShaIInv
    OBVIOUS
  <2>1. /\ batch \in Batches /\ item = 1 /\ fed = 0 /\ bit_size = 0 /\ stage = "update"
        /\ pending = << >> /\ schedule = << >> /\ blocks = << >>
    BY DEF ShaInit
  <2>2. item \in 1 .. Len(batch)
    <3>1. batch \in Seq(Item) /\ batch # << >>
      BY <2>1, ShaAssumption
    <3> QED
      BY ONLY <2>1, <3>1, EmptySeq
  <2>3. PICK c \in Nat, l, n \in Nat : c = Props.chunk /\ l = Props.length /\ Sizes(c, l) /\ n = Len(Message)
    BY <2>1, <2>2, PropsAre DEF Props, Message, Sizes
  <2>4. Len(blocks) = 0 /\ Len(pending) = 0 /\ 0 = c * 0 /\ c # 0 /\ Len(Stream) = 0
    BY <2>1, <2>3 DEF Sizes, Stream
  <2>5. ShaTypeOK
    <3>1. \E x \in Nat : Len(blocks) = Props.chunk * x
      BY <2>3, <2>4
    <3>2. Len(pending) <= Props.chunk /\ (Compressing <=> Len(pending) = Props.chunk)
      BY <2>1, <2>3, <2>4 DEF Compressing
    <3>3. schedule \in Seq({}) /\ pending \in Seq(Octet) /\ blocks \in Seq(Octet) /\ fed \in 0 .. Len(Message)
      BY <2>1, <2>3
    <3> QED
      BY <2>1, <2>2, <2>4, <3>1, <3>2, <3>3 DEF ShaTypeOK
  <2>6. PICK x : Fitting(x)
    <3>1. PICK x : Fits(n, c, l, x)
      BY ONLY <2>3, ZerosFit
    <3> QED
      BY ONLY <2>3, <3>1, Zenon DEF Fitting
  <2>7. Padded(x)
    BY <2>1, <2>4 DEF Padded
  <2> QED
    BY <2>5, <2>6, <2>7 DEF ShaIInv
<1>2. ShaIInv /\ [ShaNext]_shaVars => ShaIInv'
  <2> SUFFICES ASSUME ShaIInv, [ShaNext]_shaVars PROVE ShaIInv'
    OBVIOUS
  <2>1. PICK z : ShaTypeOK /\ Fitting(z) /\ Padded(z)
    BY DEF ShaIInv
  <2>2. ASSUME batch' = batch, item' = item, ShaTypeOK', Padded(z)' PROVE ShaIInv'
    <3>1. Fitting(z)'
      BY <2>1, <2>2 DEF Fitting, Props, Message
    <3> QED
      BY <2>2, <3>1 DEF ShaIInv
  <2>3. CASE Update \/ Finish \/ PadZero \/ PadLength
    <3>1. batch' = batch /\ item' = item
      BY <2>3 DEF Update, Finish, PadZero, PadLength, Feed
    <3>2. ShaTypeOK' /\ Padded(z)'
      BY <2>1, <2>3, UpdateStep, FinishStep, PadZeroStep, PadLengthStep
    <3> QED
      BY <2>2, <3>1, <3>2
  <2>4. CASE Extend \/ ShaRound \/ FinishBlock
    <3>1. batch' = batch /\ item' = item
      BY <2>4 DEF Extend, ShaRound, FinishBlock
    <3>2. ShaTypeOK' /\ Padded(z)'
      BY <2>1, <2>4, ExtendStep, RoundStep, BlockStep
    <3> QED
      BY <2>2, <3>1, <3>2
  <2>5. CASE Reset
    BY <2>1, <2>5, ResetStep
  <2>6. ASSUME UNCHANGED shaVars PROVE ShaIInv'
    <3>1. UNCHANGED << batch, item, fed, stage, pending, bit_size, cached, schedule, blocks >>
      BY <2>6 DEF shaVars
    <3>2. Props' = Props /\ Message' = Message /\ Stream' = Stream
      BY <3>1 DEF Props, Message, Stream
    <3>3. ShaTypeOK'
      BY <2>1, <3>1, <3>2 DEF ShaTypeOK, Compressing
    <3> QED
      BY <2>1, <2>2, <3>1, <3>2, <3>3, QuietStep
  <2> QED
    BY <2>3, <2>4, <2>5, <2>6 DEF ShaNext
<1> QED
  BY <1>1, <1>2, PTL DEF ShaSpec

\* A number is what its bytes say, highest first, when it has no more of them.
LEMMA ReadBigEndian ==
  ASSUME NEW l \in 8 .. 16, NEW x \in Nat, Shifted(x)[8] = 0, NEW B,
         \A k \in 1 .. l : B[k] = Shifted(x)[l - k] % 256,
         NEW v, \A i \in 0 .. l : v[i] = IF i = 0 THEN 0 ELSE 256 * v[i - 1] + B[i]
  PROVE  v[l] = x
<1>1. PICK s : s = Shifted(x)
  OBVIOUS
<1>2. /\ s[8] = 0 /\ s[0] = x
      /\ \A i \in 0 .. 16 : s[i] \in Nat
      /\ \A i \in 1 .. 16 : s[i] = s[i - 1] \div 256
      /\ \A k \in 1 .. l : B[k] = s[l - k] % 256
  <2>1. s[0] = x /\ (\A i \in 0 .. 16 : s[i] \in Nat) /\ \A i \in 1 .. 16 : s[i] = s[i - 1] \div 256
    BY ONLY SMTT(30), <1>1, ShiftedIs, x \in Nat
  <2>2. s[8] = 0
    BY ONLY <1>1, Shifted(x)[8] = 0
  <2>3. \A k \in 1 .. l : B[k] = s[l - k] % 256
    BY ONLY <1>1, \A k \in 1 .. l : B[k] = Shifted(x)[l - k] % 256
  <2> QED
    BY ONLY <2>1, <2>2, <2>3
<1> DEFINE Z == {i \in Nat : i <= 8 => s[8 + i] = 0}
           T == {i \in Nat : i <= l => v[i] = s[l - i]}
<1>3. s[l] = 0
  <2>1. 0 \in Z
    BY ONLY <1>2
  <2>2. ASSUME NEW i \in Nat, i \in Z PROVE i + 1 \in Z
    <3> SUFFICES ASSUME i + 1 <= 8 PROVE s[8 + (i + 1)] = 0
      OBVIOUS
    <3>1. s[8 + i] = 0
      BY <2>2
    <3>2. 8 + (i + 1) \in 1 .. 16 /\ (8 + (i + 1)) - 1 = 8 + i
      OBVIOUS
    <3>3. s[8 + (i + 1)] = s[(8 + (i + 1)) - 1] \div 256
      BY ONLY <1>2, <3>2
    <3> QED
      BY ONLY <3>1, <3>2, <3>3
  <2> HIDE DEF Z
  <2>3. \A i \in Nat : i \in Z
    BY ONLY <2>1, <2>2, Induction
  <2>4. l - 8 \in Nat /\ l - 8 <= 8 /\ 8 + (l - 8) = l
    OBVIOUS
  <2> QED
    BY ONLY <2>3, <2>4 DEF Z
<1>4. 0 \in T
  <2>1. v[0] = 0
    OBVIOUS
  <2> QED
    BY ONLY <1>3, <2>1, l \in 8 .. 16
<1>5. ASSUME NEW i \in Nat, i \in T PROVE i + 1 \in T
  <2> SUFFICES ASSUME i + 1 <= l PROVE v[i + 1] = s[l - (i + 1)]
    OBVIOUS
  <2>1. v[i] = s[l - i]
    BY <1>5
  <2>2. i + 1 \in 1 .. l /\ i + 1 \in 0 .. l /\ i + 1 # 0 /\ (i + 1) - 1 = i
    OBVIOUS
  <2>3. v[i + 1] = 256 * v[i] + B[i + 1]
    <3>1. v[i + 1] = IF i + 1 = 0 THEN 0 ELSE 256 * v[(i + 1) - 1] + B[i + 1]
      BY <2>2
    <3> QED
      BY ONLY <2>2, <3>1
  <2>4. l - i \in 1 .. 16 /\ (l - i) - 1 = l - (i + 1) /\ l - (i + 1) \in 0 .. 16
    OBVIOUS
  <2>5. PICK a \in Nat : a = s[l - (i + 1)]
    BY ONLY <1>2, <2>4
  <2>6. s[l - i] = a \div 256
    <3>1. s[l - i] = s[(l - i) - 1] \div 256
      BY ONLY <1>2, <2>4
    <3> QED
      BY ONLY <2>4, <2>5, <3>1
  <2>7. B[i + 1] = a % 256
    BY ONLY <1>2, <2>2, <2>5
  <2>8. 256 * (a \div 256) + (a % 256) = a
    BY ONLY a \in Nat, Z3
  <2> QED
    BY ONLY <2>1, <2>3, <2>5, <2>6, <2>7, <2>8
<1>6. l \in T
  <2> HIDE DEF T
  <2>1. \A n \in Nat : n \in T
    BY ONLY <1>4, <1>5, Induction
  <2>2. l \in Nat
    OBVIOUS
  <2> QED
    BY ONLY <2>1, <2>2
<1> QED
  BY ONLY <1>2, <1>6, l \in 8 .. 16

\* What was compressed for n bytes: q blocks of c bytes, with z zeros and a length
\* of l bytes.
Whole(z, n, l, c, q) ==
  /\ n = Len(Message) /\ l = Props.length /\ c = Props.chunk /\ Sizes(c, l)
  /\ z \in 0 .. c - 1
  /\ Len(blocks) = n + 1 + z + l /\ Len(blocks) = c * q
  /\ \A i \in 1 .. n : blocks[i] = Message[i]
  /\ blocks[n + 1] = 128
  /\ \A i \in n + 2 .. n + 1 + z : blocks[i] = 0
  /\ \A k \in 1 .. l : blocks[n + 1 + z + k] = LengthByte(k)
  /\ cached = 8 * n

LEMMA AllCompressed ==
  ASSUME ShaTypeOK, NEW z, Fitting(z), Padded(z), Done
  PROVE  \E n, l, c, q \in Nat : Whole(z, n, l, c, q)
<1>1. PICK n \in Nat, l \in Nat, c \in Nat :
        n = Len(Message) /\ l = Props.length /\ c = Props.chunk /\ Sizes(c, l)
  BY Here DEF Sizes
<1>2. stage = "length" /\ pending = << >>
  BY DEF Done
<1>3. Stream = blocks
  BY <1>2, ConcatEmptySeq DEF Stream, ShaTypeOK
<1>4. fed = n /\ cached = 8 * n
  BY <1>1, <1>2 DEF Padded
<1>5. PICK m \in 1 .. l : /\ Len(blocks) = n + 1 + z + m
                         /\ \A k \in 1 .. m : blocks[n + 1 + z + k] = LengthByte(k)
  BY <1>1, <1>2, <1>3, <1>4 DEF Padded
<1>6. /\ \A i \in 1 .. n : blocks[i] = Message[i]
      /\ blocks[n + 1] = 128
      /\ \A i \in n + 2 .. n + 1 + z : blocks[i] = 0
  BY <1>2, <1>3, <1>4 DEF Padded
<1>7. PICK r \in Nat : Len(blocks) = c * r
  BY <1>1 DEF ShaTypeOK
<1>8. Fits(n, c, l, z)
  BY <1>1 DEF Fitting
<1>9. PICK q \in Nat : z \in 0 .. c - 1 /\ n + 1 + z = c * q + c - l
  BY <1>8 DEF Fits
<1>10. m = l
  <2>1. CASE c = 64 /\ l = 8
    <3>1. c * q = 64 * q /\ c * r = 64 * r /\ c - l = 56 /\ m \in 1 .. 8 /\ z \in Nat
      BY <1>9, <2>1
    <3> QED
      BY ONLY <1>5, <1>7, <1>9, <2>1, <3>1, n \in Nat, q \in Nat, r \in Nat
  <2>2. CASE c = 128 /\ l = 16
    <3>1. c * q = 128 * q /\ c * r = 128 * r /\ c - l = 112 /\ m \in 1 .. 16 /\ z \in Nat
      BY <1>9, <2>2
    <3> QED
      BY ONLY <1>5, <1>7, <1>9, <2>2, <3>1, n \in Nat, q \in Nat, r \in Nat
  <2> QED
    BY ONLY <1>1, <2>1, <2>2 DEF Sizes
<1>11. Whole(z, n, l, c, r)
  BY ONLY <1>1, <1>4, <1>5, <1>6, <1>7, <1>9, <1>10, Zenon DEF Whole
<1> QED
  BY ONLY <1>11, n \in Nat, l \in Nat, c \in Nat, r \in Nat, Zenon

\* What finish compresses is the message, one bit, the fewest zeros that leave
\* room for the length, and the length, in whole blocks: for messages of every
\* length, with every SHA-2 and in every batch.
THEOREM PaddingIsStandard == ShaSpec => []PaddedAsStandard
<1>1. ShaIInv => PaddedAsStandard
  <2> SUFFICES ASSUME ShaIInv, Done PROVE PaddedAsStandard
    BY DEF PaddedAsStandard
  <2>1. PICK z : ShaTypeOK /\ Fitting(z) /\ Padded(z)
    BY DEF ShaIInv
  <2>0. PICK n \in Nat, l \in Nat, c \in Nat, q \in Nat : Whole(z, n, l, c, q)
    <3>1. \E n, l, c, q \in Nat : Whole(z, n, l, c, q)
      BY ONLY <2>1, Done, AllCompressed, Zenon
    <3> QED
      BY ONLY <3>1, Zenon
  <2>2. /\ n = Len(Message) /\ l = Props.length /\ c = Props.chunk /\ Sizes(c, l)
        /\ z \in 0 .. c - 1 /\ Len(blocks) = n + 1 + z + l
        /\ \A i \in 1 .. n : blocks[i] = Message[i]
        /\ blocks[n + 1] = 128
        /\ \A i \in n + 2 .. n + 1 + z : blocks[i] = 0
        /\ \A k \in 1 .. l : blocks[n + 1 + z + k] = LengthByte(k)
        /\ cached = 8 * n
    BY ONLY <2>0, Zenon DEF Whole
  <2>z. z \in Nat /\ z \in 0 .. c - 1 /\ Len(blocks) = n + 1 + z + l /\ Len(blocks) \in Nat
    BY ONLY <2>2
  <2>3. Len(blocks) - n - 1 - l = z
    BY ONLY <2>z
  <2>4. Len(blocks) % c = 0
    <3>1. CASE c = 64
      <4>1. (64 * q) % 64 = 0
        BY ONLY q \in Nat, Z3
      <4> QED
        BY ONLY <2>0, <3>1, <4>1 DEF Whole
    <3>2. CASE c = 128
      <4>1. (128 * q) % 128 = 0
        BY ONLY q \in Nat, Z3
      <4> QED
        BY ONLY <2>0, <3>2, <4>1 DEF Whole
    <3> QED
      BY ONLY <2>2, <3>1, <3>2 DEF Sizes
  <2>5. SubSeq(blocks, 1, n) = Message
    <3>1. Message \in Seq(Octet) /\ blocks \in Seq(Octet) /\ n <= Len(blocks)
      <4>1. batch \in Batches /\ item \in 1 .. Len(batch) /\ blocks \in Seq(Octet)
        BY ONLY <2>1, Zenon DEF ShaTypeOK
      <4>2. Message \in Seq(Octet)
        BY ONLY <4>1, PropsAre DEF Message
      <4> QED
        BY ONLY <2>z, <4>1, <4>2
    <3>2. SubSeq(blocks, 1, n) = SubSeq(Message, 1, n)
      BY ONLY <2>2, <3>1, SamePrefix, n \in Nat
    <3>3. SubSeq(Message, 1, Len(Message)) = Message
      BY ONLY <3>1
    <3> QED
      BY ONLY <2>2, <3>2, <3>3
  <2>6. ASSUME NEW i \in 1 .. z PROVE blocks[n + 1 + i] = 0
    <3>1. n + 1 + i \in n + 2 .. n + 1 + z
      BY ONLY <2>z
    <3> QED
      BY ONLY <2>2, <3>1
  <2> DEFINE B == [k \in 1 .. l |-> blocks[n + 1 + z + k]]
             zeros == Len(blocks) - Len(Message) - 1 - Props.length
             body(g) == [i \in 0 .. Props.length |->
                           IF i = 0 THEN 0 ELSE 256 * g[i - 1] + blocks[Len(Message) + 1 + zeros + i]]
             value == CHOOSE g : g = body(g)
  <2>7. value = body(value)
    <3> DEFINE S == Nat
               F == [p \in (1 .. l) \X S |-> 256 * p[2] + B[p[1]]]
    <3>1. F \in [(1 .. l) \X S -> S]
      <4>1. ASSUME NEW i \in 1 .. l, NEW v \in Nat PROVE 256 * v + B[i] \in Nat
        <5>1. n + 1 + z + i \in 1 .. Len(blocks)
          <6>1. PICK e \in Nat : e = Len(blocks) /\ e = n + 1 + z + l
            BY ONLY <2>z
          <6>2. n + 1 + z + i \in 1 .. e
            BY ONLY <2>z, <6>1, n \in Nat, l \in Nat, i \in 1 .. l
          <6> QED
            BY ONLY <6>1, <6>2
        <5>2. blocks[n + 1 + z + i] \in Octet
          BY SMTT(30), <2>1, <5>1 DEF ShaTypeOK
        <5>3. B[i] \in Nat
          BY <5>2 DEF Octet
        <5> QED
          BY ONLY <5>3, v \in Nat
      <4> HIDE DEF B
      <4> QED
        BY ONLY <4>1
    <3>2. PICK g \in [0 .. l -> S] : Recurs(g, l, 0, F)
      <4> HIDE DEF F
      <4> QED
        BY ONLY <3>1, l \in Nat, Recursion
    <3>3. g = body(g)
      <4> DEFINE term(i) == IF i = 0 THEN 0 ELSE 256 * g[i - 1] + blocks[n + 1 + z + i]
      <4>1. g = [i \in 0 .. l |-> g[i]]
        BY <3>2
      <4>2. ASSUME NEW i \in 0 .. l PROVE g[i] = term(i)
        <5>1. CASE i = 0
          BY <3>2, <5>1 DEF Recurs
        <5>2. CASE i # 0
          <6>1. i \in 1 .. l /\ i - 1 \in 0 .. l
            BY <5>2
          <6>2. g[i] = F[<<i, g[i - 1]>>] /\ <<i, g[i - 1]>> \in (1 .. l) \X S
            <7> HIDE DEF F
            <7> QED
              BY <3>2, <6>1 DEF Recurs
          <6>3. g[i] = 256 * g[i - 1] + B[i] /\ B[i] = blocks[n + 1 + z + i]
            BY <6>1, <6>2
          <6> QED
            BY <5>2, <6>3
        <5> QED
          BY <5>1, <5>2
      <4>3. body(g) = [i \in 0 .. l |-> term(i)]
        BY ONLY <2>2, <2>3
      <4> HIDE DEF term, body
      <4> QED
        BY <4>1, <4>2, <4>3
    <3> HIDE DEF body
    <3> QED
      BY <3>3
  <2>8. value[l] = 8 * n
    <3>1. Shifted(8 * n)[8] = 0 /\ 8 * n \in Nat /\ l \in 8 .. 16
      <4>1. Shifted(8 * Len(Message))[8] = 0
        BY ONLY <2>1, Here
      <4>2. l \in 8 .. 16
        BY ONLY <2>2 DEF Sizes
      <4> QED
        BY ONLY <2>2, <4>1, <4>2, n \in Nat
    <3>2. ASSUME NEW k \in 1 .. l PROVE B[k] = Shifted(8 * n)[l - k] % 256
      <4>1. blocks[n + 1 + z + k] = LengthByte(k)
        BY <2>2
      <4> QED
        BY <2>2, <4>1 DEF LengthByte
    <3>3. \A i \in 0 .. l : value[i] = IF i = 0 THEN 0 ELSE 256 * value[i - 1] + B[i]
      <4> HIDE DEF value
      <4>1. \A i \in 0 .. l : i # 0 => B[i] = blocks[n + 1 + z + i]
        OBVIOUS
      <4> HIDE DEF B
      <4>2. value = [i \in 0 .. l |-> IF i = 0 THEN 0 ELSE 256 * value[i - 1] + blocks[n + 1 + z + i]]
        BY ONLY <2>2, <2>3, <2>7
      <4>3. ASSUME NEW i \in 0 .. l PROVE value[i] = IF i = 0 THEN 0 ELSE 256 * value[i - 1] + B[i]
        <5>1. value[i] = IF i = 0 THEN 0 ELSE 256 * value[i - 1] + blocks[n + 1 + z + i]
          BY ONLY <4>2, i \in 0 .. l
        <5>2. i # 0 => B[i] = blocks[n + 1 + z + i]
          BY ONLY <4>1, i \in 0 .. l
        <5> QED
          BY ONLY <5>1, <5>2
      <4> QED
        BY ONLY <4>3
    <3> HIDE DEF value, B
    <3> QED
      BY ONLY <3>1, <3>2, <3>3, ReadBigEndian, l \in Nat
  <2>9. /\ Len(blocks) % Props.chunk = 0
        /\ zeros \in 0 .. Props.chunk - 1
        /\ SubSeq(blocks, 1, Len(Message)) = Message
        /\ blocks[Len(Message) + 1] = 128
        /\ \A i \in 1 .. zeros : blocks[Len(Message) + 1 + i] = 0
        /\ value[Props.length] = 8 * Len(Message)
    <3> HIDE DEF value
    <3> QED
      BY ONLY <2>2, <2>3, <2>4, <2>5, <2>6, <2>8
  <2> QED
    BY ONLY <2>9, Zenon DEF PaddedAsStandard
<1> QED
  BY <1>1, ShaInvariance, PTL

-----------------------------------------------------------------------------
(***************************************************************************)
(* Cyclic redundancy checks                                                *)
(***************************************************************************)
LEMMA InAdded == \A a, b, x : x \in Added(a, b) <=> ((x \in a) <=> (x \notin b))
BY DEF Added

LEMMA AddedInts == \A a, b \in SUBSET Int : Added(a, b) \in SUBSET Int
BY DEF Added

LEMMA InUp ==
  ASSUME NEW w \in SUBSET Int, NEW n \in Int
  PROVE  ShiftUp(w, n) \in SUBSET Int /\ \A x \in Int : x \in ShiftUp(w, n) <=> x - n \in w
<1>1. \A x \in Int : (x - n) + n = x /\ (x + n) - n = x
  OBVIOUS
<1> QED
  BY <1>1 DEF ShiftUp

LEMMA InDown ==
  ASSUME NEW w \in SUBSET Int, NEW n \in Nat
  PROVE  ShiftDown(w, n) \in SUBSET Nat /\ \A x \in Int : x \in ShiftDown(w, n) <=> x >= 0 /\ x + n \in w
BY DEF ShiftDown

LEMMA DownByNone ==
  ASSUME NEW w \in SUBSET Nat
  PROVE  ShiftDown(w, 0) = w
<1>1. w \in SUBSET Int /\ 0 \in Nat
  OBVIOUS
<1>2. ShiftDown(w, 0) \in SUBSET Nat /\ \A x \in Int : x \in ShiftDown(w, 0) <=> x >= 0 /\ x + 0 \in w
  BY ONLY <1>1, InDown
<1>3. ASSUME NEW x PROVE x \in ShiftDown(w, 0) <=> x \in w
  <2>1. CASE x \in Nat
    <3>1. x \in Int /\ x >= 0 /\ x + 0 = x
      BY ONLY <2>1
    <3> QED
      BY ONLY <1>2, <3>1
  <2>2. CASE x \notin Nat
    BY ONLY <1>2, <2>2, w \in SUBSET Nat
  <2> QED
    BY ONLY <2>1, <2>2
<1> QED
  BY ONLY <1>3

\* A description as CrcAssumption has it.
Sound(d) ==
  /\ d.width \in 8 .. 32 /\ d.reflect \in BOOLEAN /\ (d.reflect => d.size = d.width)
  /\ d.poly \subseteq mask(d) /\ 0 \in d.poly /\ d.init \subseteq mask(d)

\* The bits of a register in the order in which the division meets them: the next one
\* is 0.  So it is the register of a division that shifts down, whichever way the code
\* shifts.
View(d, s) == { b \in mask(d) : (IF d.reflect THEN b ELSE (d.width - 1) - b) \in s }

Divisor(d) == View(d, xor_value(d))

Divided(d, r) == Added(ShiftDown(r, 1), IF 0 \in r THEN Divisor(d) ELSE {})

\* Some bits, within n in a row.
Burst(n, r) == r # {} /\ r \subseteq Nat /\ \A p, q \in r : p - q < n

LEMMA DivisorIs ==
  ASSUME NEW d, Sound(d), NEW n \in Int, n = d.width
  PROVE  Divisor(d) \subseteq 0 .. n - 1 /\ n - 1 \in Divisor(d)
<1>1. n \in 8 .. 32 /\ mask(d) = 0 .. n - 1 /\ d.poly \subseteq 0 .. n - 1 /\ 0 \in d.poly
  BY DEF Sound, mask
<1>2. CASE d.reflect
  <2>1. xor_value(d) = { (n - 1) - b : b \in d.poly }
    BY <1>2 DEF Sound, xor_value
  <2>2. n - 1 \in xor_value(d)
    BY <1>1, <2>1
  <2> QED
    BY <1>1, <1>2, <2>2 DEF Divisor, View
<1>3. CASE ~d.reflect
  <2>1. xor_value(d) = d.poly
    BY <1>3 DEF xor_value
  <2> QED
    BY <1>1, <1>3, <2>1 DEF Divisor, View
<1> QED
  BY <1>2, <1>3

\* A burst stays one in the division: it is shifted until its first bit is met, and
\* then the divisor leaves the highest bit of the register.
LEMMA BurstStays ==
  ASSUME NEW d, Sound(d), NEW r, NEW n, n = d.width, Burst(n, r)
  PROVE  Burst(n, Divided(d, r))
<1>1. n \in 8 .. 32 /\ n = d.width
  BY DEF Sound
<1>2. PICK v : v = Divisor(d)
  OBVIOUS
<1>3. v \subseteq 0 .. n - 1 /\ n - 1 \in v
  BY <1>1, <1>2, DivisorIs
<1>4. PICK t : t = ShiftDown(r, 1)
  OBVIOUS
<1>5. r # {} /\ r \in SUBSET Nat /\ \A p, q \in r : p - q < n
  BY <1>1 DEF Burst
<1>6. t \in SUBSET Nat /\ \A x \in Int : x \in t <=> x >= 0 /\ x + 1 \in r
  BY <1>4, <1>5, InDown
<1>7. CASE 0 \in r
  <2>1. PICK e : e = Added(t, v)
    OBVIOUS
  <2>2. Divided(d, r) = e
    BY ONLY <1>1, <1>2, <1>4, <1>7, <2>1 DEF Divided
  <2>3. \A x : x \in e <=> ((x \in t) <=> (x \notin v))
    BY ONLY <1>1, <2>1, InAdded
  <2>4. \A p \in r : p < n
    BY ONLY <1>1, <1>5, <1>7
  <2>5. n - 1 \notin t
    BY ONLY <1>1, <1>6, <2>4
  <2>6. n - 1 \in e
    BY ONLY <1>1, <1>3, <2>3, <2>5
  <2>7. t \subseteq 0 .. n - 1
    BY ONLY <1>1, <1>6, <2>4
  <2>8. e \subseteq 0 .. n - 1
    BY ONLY <1>1, <1>3, <2>3, <2>7
  <2>9. \A p, q \in e : p - q < n
    BY ONLY <1>1, <2>8
  <2> QED
    <3>1. e # {} /\ e \subseteq Nat
      BY ONLY <1>1, <2>6, <2>8
    <3> QED
      BY ONLY <2>2, <2>9, <3>1 DEF Burst
<1>8. CASE 0 \notin r
  <2>1. Divided(d, r) = t
    BY ONLY <1>1, <1>4, <1>8 DEF Divided, Added
  <2>2. PICK p \in r : TRUE
    BY ONLY <1>1, <1>5
  <2>3. p - 1 \in t
    <3>1. p \in Nat /\ p # 0
      BY ONLY <1>1, <1>5, <1>8, <2>2
    <3>2. p - 1 \in Int /\ p - 1 >= 0 /\ (p - 1) + 1 = p
      BY ONLY <1>1, <3>1
    <3> QED
      BY ONLY <1>1, <1>6, <2>2, <3>2
  <2>4. \A x, y \in t : x - y < n
    <3> SUFFICES ASSUME NEW x \in t, NEW y \in t PROVE x - y < n
      OBVIOUS
    <3>1. x \in Nat /\ y \in Nat /\ x + 1 \in r /\ y + 1 \in r
      BY ONLY <1>1, <1>6, x \in t, y \in t
    <3>2. (x + 1) - (y + 1) < n
      BY ONLY <1>1, <1>5, <3>1
    <3> QED
      BY ONLY <1>1, <3>1, <3>2
  <2> QED
    BY ONLY <1>1, <1>6, <2>1, <2>3, <2>4 DEF Burst
<1> QED
  BY <1>7, <1>8

-----------------------------------------------------------------------------
\* The division of a word in the order of the code is that of its view.
Start(d, index) == IF d.reflect THEN index ELSE ShiftUp(index, d.width - 8)

\* What the code may divide: bits above the width are lost or left out in the end, if
\* the register goes up.
Dividend(d, x) == x \in SUBSET Nat /\ (d.reflect => x \subseteq mask(d))

LEMMA DivisionViewed ==
  ASSUME NEW d, Sound(d), NEW x, Dividend(d, x)
  PROVE  /\ Dividend(d, DivideStep(d, x))
         /\ View(d, DivideStep(d, x)) = Divided(d, View(d, x))
<1>1. PICK n \in 8 .. 32 : n = d.width
  BY DEF Sound
<1>2. mask(d) = 0 .. n - 1 /\ d.poly \subseteq 0 .. n - 1
  BY <1>1 DEF Sound, mask
<1>3. PICK p : p = xor_value(d)
  OBVIOUS
<1>4. PICK y : y = DivideStep(d, x)
  OBVIOUS
<1>5. PICK v : v = View(d, x)
  OBVIOUS
<1>6. x \in SUBSET Nat
  BY DEF Dividend
<1>7. PICK g : g = Divisor(d)
  OBVIOUS
<1>8. v \in SUBSET Int
  BY <1>2, <1>5 DEF View
<1>9. PICK t : t = ShiftDown(v, 1)
  OBVIOUS
<1>10. t \in SUBSET Nat /\ \A b \in Int : b \in t <=> b >= 0 /\ b + 1 \in v
  BY ONLY <1>8, <1>9, InDown
<1>11. CASE d.reflect
  <2>1. x \subseteq 0 .. n - 1
    BY <1>2, <1>11 DEF Dividend
  <2>2. p = { (n - 1) - b : b \in d.poly } /\ p \subseteq 0 .. n - 1
    <3>1. d.size = n
      BY ONLY <1>1, <1>11, Sound(d) DEF Sound
    <3>2. p = { d.size - 1 - b : b \in d.poly }
      BY ONLY <1>3, <1>11 DEF xor_value
    <3>3. \A b \in d.poly : b \in 0 .. n - 1
      BY ONLY <1>2
    <3>4. \A b \in 0 .. n - 1 : (n - 1) - b \in 0 .. n - 1
      BY ONLY n \in 8 .. 32
    <3>5. p = { (n - 1) - b : b \in d.poly }
      BY ONLY <3>1, <3>2
    <3>6. p \subseteq 0 .. n - 1
      BY ONLY <3>3, <3>4, <3>5
    <3> QED
      BY ONLY <3>5, <3>6
  <2>3. v = x /\ g = p
    BY ONLY <1>2, <1>3, <1>5, <1>7, <1>11, <2>1, <2>2 DEF View, Divisor
  <2>4. y = IF 0 \in x THEN Added(t, p) ELSE t
    BY ONLY <1>3, <1>4, <1>9, <1>11, <2>3 DEF DivideStep, check_bit
  <2>5. Divided(d, v) = y
    BY ONLY <1>7, <1>9, <2>3, <2>4 DEF Divided, Added
  <2>6. t \subseteq 0 .. n - 1
    BY ONLY <1>10, <2>1, <2>3, n \in 8 .. 32
  <2>7. y \subseteq 0 .. n - 1
    BY ONLY <2>2, <2>4, <2>6 DEF Added
  <2>8. View(d, y) = y
    BY ONLY <1>2, <1>11, <2>7 DEF View
  <2>9. Dividend(d, y)
    BY ONLY <1>2, <2>7 DEF Dividend
  <2> QED
    BY ONLY <1>4, <1>5, <2>5, <2>8, <2>9
<1>12. CASE ~d.reflect
  <2>1. PICK u : u = ShiftUp(x, 1)
    OBVIOUS
  <2>2. u \in SUBSET Int /\ \A b \in Int : b \in u <=> b - 1 \in x
    <3>1. x \in SUBSET Int /\ 1 \in Int
      BY ONLY <1>6
    <3>2. ShiftUp(x, 1) \in SUBSET Int /\ \A b \in Int : b \in ShiftUp(x, 1) <=> b - 1 \in x
      BY ONLY <3>1, InUp
    <3> QED
      BY ONLY <2>1, <3>2
  <2>3. p \subseteq 0 .. n - 1
    BY ONLY <1>2, <1>3, <1>12 DEF xor_value
  <2>4. y = IF n - 1 \in x THEN Added(u \cap (0 .. 31), p) ELSE u \cap (0 .. 31)
    BY ONLY <1>1, <1>3, <1>4, <1>12, <2>1 DEF DivideStep, check_bit
  <2>5. Dividend(d, y)
    <3>1. \A b \in y : b \in 0 .. 31 \/ b \in p
      <4>1. PICK c : c = u \cap (0 .. 31)
        OBVIOUS
      <4>2. \A b \in Added(c, p) : b \in c \/ b \in p
        BY ONLY TRUE DEF Added
      <4>3. y = Added(c, p) \/ y = c
        BY ONLY <2>4, <4>1
      <4> QED
        BY ONLY <4>1, <4>2, <4>3
    <3>2. \A b \in y : b \in Nat
      <4>1. \A b \in p : b \in Nat
        BY ONLY <2>3, n \in 8 .. 32
      <4>2. \A b \in 0 .. 31 : b \in Nat
        OBVIOUS
      <4> QED
        BY ONLY <3>1, <4>1, <4>2
    <3> QED
      BY ONLY <1>12, <3>2 DEF Dividend
  <2>6. \A b : b \in View(d, y) <=> b \in 0 .. n - 1 /\ (n - 1) - b \in y
    BY ONLY <1>1, <1>2, <1>12 DEF View
  <2>7. \A b : b \in v <=> b \in 0 .. n - 1 /\ (n - 1) - b \in x
    BY ONLY <1>1, <1>2, <1>5, <1>12 DEF View
  <2>8. \A b : b \in g <=> b \in 0 .. n - 1 /\ (n - 1) - b \in p
    BY ONLY <1>1, <1>2, <1>3, <1>7, <1>12 DEF View, Divisor
  <2>9. 0 \in v <=> n - 1 \in x
    BY ONLY <2>7, n \in 8 .. 32
  <2>10. t \subseteq 0 .. n - 1
    BY ONLY <1>10, <2>7, n \in 8 .. 32
  <2>11. ASSUME NEW b \in 0 .. n - 1 PROVE (n - 1) - b \in u \cap (0 .. 31) <=> b \in t
    <3>1. (n - 1) - b \in 0 .. 31 /\ (n - 1) - b \in Int /\ ((n - 1) - b) - 1 = (n - 1) - (b + 1)
      BY ONLY n \in 8 .. 32, b \in 0 .. n - 1
    <3>2. (n - 1) - b \in u <=> (n - 1) - (b + 1) \in x
      BY ONLY <2>2, <3>1
    <3>3. b \in t <=> b + 1 \in v
      BY ONLY <1>10, b \in 0 .. n - 1
    <3>4. (n - 1) - (b + 1) \in x => b + 1 \in 0 .. n - 1
      BY ONLY <1>6, n \in 8 .. 32, b \in 0 .. n - 1
    <3> QED
      BY ONLY <2>7, <3>1, <3>2, <3>3, <3>4
  <2>12. PICK w : w = Divided(d, v)
    OBVIOUS
  <2>13. w = IF n - 1 \in x THEN Added(t, g) ELSE t
    BY ONLY <1>7, <1>9, <2>9, <2>12 DEF Divided, Added
  <2>14. ASSUME NEW b PROVE b \in View(d, y) <=> b \in w
    <3>1. CASE b \notin 0 .. n - 1
      BY ONLY <2>6, <2>8, <2>10, <2>13, <3>1 DEF Added
    <3>2. CASE b \in 0 .. n - 1
      <4>1. PICK c : c = (n - 1) - b
        OBVIOUS
      <4>2. c \in u \cap (0 .. 31) <=> b \in t
        BY ONLY <2>11, <3>2, <4>1
      <4>3. c \in p <=> b \in g
        BY ONLY <2>8, <3>2, <4>1
      <4>4. c \in y <=> b \in w
        BY ONLY <2>4, <2>13, <4>2, <4>3 DEF Added
      <4> QED
        BY ONLY <2>6, <3>2, <4>1, <4>4
    <3> QED
      BY ONLY <3>1, <3>2
  <2> QED
    BY ONLY <1>4, <1>5, <2>5, <2>12, <2>14
<1> QED
  BY <1>11, <1>12

\* Exclusive-or goes through the division.
LEMMA DivisionAdds ==
  ASSUME NEW d, NEW a \in SUBSET Int, NEW b \in SUBSET Int
  PROVE  Added(DivideStep(d, a), DivideStep(d, b)) = DivideStep(d, Added(a, b))
<1>1. PICK p, m : p = xor_value(d) /\ m = check_bit(d)
  OBVIOUS
<1>2. PICK e : e = Added(a, b)
  OBVIOUS
<1>3. e \in SUBSET Int /\ \A x : x \in e <=> ((x \in a) <=> (x \notin b))
  BY ONLY <1>2, InAdded, AddedInts, a \in SUBSET Int, b \in SUBSET Int
<1> DEFINE S(x) == IF d.reflect THEN ShiftDown(x, 1) ELSE ShiftUp(x, 1) \cap (0 .. 31)
<1>4. ASSUME NEW x PROVE x \in S(e) <=> ((x \in S(a)) <=> (x \notin S(b)))
  <2>1. CASE d.reflect
    <3>1. \A w \in SUBSET Int : ShiftDown(w, 1) \in SUBSET Nat
      BY ONLY InDown, 1 \in Nat
    <3>2. CASE x \notin Nat
      BY ONLY <1>3, <2>1, <3>1, <3>2, a \in SUBSET Int, b \in SUBSET Int
    <3>3. CASE x \in Nat
      <4>1. \A w \in SUBSET Int : x \in ShiftDown(w, 1) <=> x + 1 \in w
        BY ONLY <3>3, InDown, 1 \in Nat
      <4> QED
        BY ONLY <1>3, <2>1, <4>1, a \in SUBSET Int, b \in SUBSET Int
    <3> QED
      BY ONLY <3>2, <3>3
  <2>2. CASE ~d.reflect
    <3>1. CASE x \notin 0 .. 31
      BY ONLY <2>2, <3>1
    <3>2. CASE x \in 0 .. 31
      <4>1. \A w \in SUBSET Int : x \in ShiftUp(w, 1) <=> x - 1 \in w
        BY ONLY <3>2, InUp, 1 \in Int
      <4> QED
        BY ONLY <1>3, <2>2, <3>2, <4>1, a \in SUBSET Int, b \in SUBSET Int
    <3> QED
      BY ONLY <3>1, <3>2
  <2> QED
    BY ONLY <2>1, <2>2
<1>5. \A w : DivideStep(d, w) = IF m \in w THEN Added(S(w), p) ELSE S(w)
  BY ONLY <1>1 DEF DivideStep
<1> HIDE DEF S
<1>6. m \in e <=> ((m \in a) <=> (m \notin b))
  BY ONLY <1>3
<1>7. ASSUME NEW x PROVE x \in Added(DivideStep(d, a), DivideStep(d, b)) <=> x \in DivideStep(d, e)
  <2>1. PICK sa, sb, se : sa = S(a) /\ sb = S(b) /\ se = S(e)
    OBVIOUS
  <2>2. x \in se <=> ((x \in sa) <=> (x \notin sb))
    BY ONLY <1>4, <2>1
  <2>3. PICK da, db, de : da = DivideStep(d, a) /\ db = DivideStep(d, b) /\ de = DivideStep(d, e)
    OBVIOUS
  <2>4. /\ da = IF m \in a THEN Added(sa, p) ELSE sa
        /\ db = IF m \in b THEN Added(sb, p) ELSE sb
        /\ de = IF m \in e THEN Added(se, p) ELSE se
    BY ONLY <1>5, <2>1, <2>3
  <2>5. /\ x \in da <=> IF m \in a THEN (x \in sa) <=> (x \notin p) ELSE x \in sa
        /\ x \in db <=> IF m \in b THEN (x \in sb) <=> (x \notin p) ELSE x \in sb
        /\ x \in de <=> IF m \in e THEN (x \in se) <=> (x \notin p) ELSE x \in se
    BY ONLY <2>4, InAdded
  <2>6. x \in Added(da, db) <=> ((x \in da) <=> (x \notin db))
    BY ONLY InAdded
  <2> QED
    BY ONLY <1>6, <2>2, <2>3, <2>5, <2>6
<1> QED
  BY ONLY <1>2, <1>7

LEMMA DivisionInts ==
  ASSUME NEW d, Sound(d), NEW a \in SUBSET Int
  PROVE  DivideStep(d, a) \in SUBSET Int
<1>1. PICK p : p = xor_value(d)
  OBVIOUS
<1>2. p \in SUBSET Int
  <2>1. PICK n \in 8 .. 32 : n = d.width
    BY DEF Sound
  <2>2. d.poly \subseteq 0 .. n - 1 /\ (d.reflect => d.size = n)
    BY <2>1 DEF Sound, mask
  <2> QED
    BY <1>1, <2>2 DEF xor_value
<1>3. ShiftDown(a, 1) \in SUBSET Int
  BY InDown
<1>4. ShiftUp(a, 1) \in SUBSET Int
  BY InUp
<1> QED
  BY ONLY <1>1, <1>2, <1>3, <1>4 DEF DivideStep, Added

-----------------------------------------------------------------------------
\* What the code makes of an index, step by step.
Steps(d, r, s) == r \in [0 .. 8 -> SUBSET Int] /\ r[0] = s /\ \A z \in 1 .. 8 : r[z] = DivideStep(d, r[z - 1])

LEMMA RemainderIs ==
  ASSUME NEW d, Sound(d), NEW index, Start(d, index) \in SUBSET Int
  PROVE  \E r : Steps(d, r, Start(d, index)) /\ remainder(d, index) = r[8] \cap mask(d)
<1> DEFINE S == SUBSET Int
           s == Start(d, index)
           F == [p \in (1 .. 8) \X S |-> DivideStep(d, p[2])]
           body(g) == [z \in 0 .. 8 |-> IF z = 0 THEN s ELSE DivideStep(d, g[z - 1])]
           ret == CHOOSE g : g = body(g)
<1>1. F \in [(1 .. 8) \X S -> S]
  BY DivisionInts
<1>2. PICK g \in [0 .. 8 -> S] : Recurs(g, 8, s, F)
  <2> HIDE DEF F
  <2>1. s \in S /\ 8 \in Nat
    OBVIOUS
  <2> HIDE DEF S, s
  <2> QED
    BY <1>1, <2>1, Recursion
<1>3. ASSUME NEW z \in 1 .. 8 PROVE g[z] = DivideStep(d, g[z - 1])
  <2>1. g[z] = F[<<z, g[z - 1]>>] /\ <<z, g[z - 1]>> \in (1 .. 8) \X S
    <3>1. z - 1 \in 0 .. 8
      OBVIOUS
    <3> HIDE DEF F, S
    <3> QED
      BY ONLY <1>2, <3>1, z \in 1 .. 8 DEF Recurs
  <2> QED
    BY ONLY <2>1
<1>4. g[0] = s
  BY <1>2 DEF Recurs
<1>5. g = body(g)
  <2>1. g = [z \in 0 .. 8 |-> g[z]]
    BY <1>2
  <2>2. ASSUME NEW z \in 0 .. 8 PROVE g[z] = IF z = 0 THEN s ELSE DivideStep(d, g[z - 1])
    BY ONLY <1>3, <1>4, z \in 0 .. 8
  <2> HIDE DEF s
  <2> QED
    BY ONLY <2>1, <2>2
<1>6. ret = body(ret)
  <2> HIDE DEF body
  <2> QED
    BY <1>5
<1>7. ASSUME NEW z \in 0 .. 8 PROVE ret[z] = IF z = 0 THEN s ELSE DivideStep(d, ret[z - 1])
  <2> HIDE DEF ret
  <2> QED
    BY ONLY <1>6, z \in 0 .. 8
<1>8. ret = [z \in 0 .. 8 |-> ret[z]]
  <2> HIDE DEF ret
  <2>1. \A z \in 0 .. 8 : ret[z] = body(ret)[z]
    BY ONLY <1>6
  <2> QED
    BY ONLY <1>6
<1>9. remainder(d, index) = ret[8] \cap mask(d)
  BY ONLY TRUE DEF remainder, Start
<1> HIDE DEF ret
<1>10. PICK q : q = ret
  OBVIOUS
<1>16. \A z \in 0 .. 8 : q[z] = IF z = 0 THEN s ELSE DivideStep(d, q[z - 1])
  BY ONLY <1>7, <1>10
<1>11. \A z \in 0 .. 8 : q[z] \in SUBSET Int
  <2> DEFINE T == {z \in Nat : z <= 8 => q[z] \in SUBSET Int}
  <2>1. 0 \in T
    BY <1>16
  <2>2. ASSUME NEW z \in Nat, z \in T PROVE z + 1 \in T
    <3>1. CASE z + 1 <= 8
      <4>1. z + 1 \in 0 .. 8 /\ z + 1 # 0 /\ (z + 1) - 1 = z /\ z <= 8
        BY <3>1
      <4>2. q[z + 1] = DivideStep(d, q[z])
        BY ONLY <1>16, <4>1
      <4>3. q[z] \in SUBSET Int
        BY <2>2, <4>1
      <4> QED
        BY <4>2, <4>3, DivisionInts
    <3> QED
      BY <3>1
  <2> HIDE DEF T
  <2>3. \A z \in Nat : z \in T
    BY ONLY <2>1, <2>2, Induction
  <2> QED
    BY ONLY <2>3 DEF T
<1>12. q = [z \in 0 .. 8 |-> q[z]]
  BY ONLY <1>8, <1>10
<1>13. q \in [0 .. 8 -> SUBSET Int]
  BY ONLY <1>11, <1>12
<1>14. q[0] = Start(d, index) /\ \A z \in 1 .. 8 : q[z] = DivideStep(d, q[z - 1])
  BY ONLY <1>16
<1>15. Steps(d, q, Start(d, index))
  BY ONLY <1>13, <1>14 DEF Steps
<1> QED
  BY ONLY <1>9, <1>10, <1>15

\* Two divisions differ as the division of their difference.
LEMMA StepsAdd ==
  ASSUME NEW d, NEW q, NEW r, NEW a, NEW b, Steps(d, q, a), Steps(d, r, b)
  PROVE  Steps(d, [z \in 0 .. 8 |-> Added(q[z], r[z])], Added(a, b))
<1>1. PICK f : f = [z \in 0 .. 8 |-> Added(q[z], r[z])]
  OBVIOUS
<1>2. \A z \in 0 .. 8 : q[z] \in SUBSET Int /\ r[z] \in SUBSET Int
  BY DEF Steps
<1>3. \A z \in 0 .. 8 : f[z] = Added(q[z], r[z]) /\ f[z] \in SUBSET Int
  BY ONLY <1>1, <1>2, AddedInts
<1>4. ASSUME NEW z \in 1 .. 8 PROVE f[z] = DivideStep(d, f[z - 1])
  <2>1. z - 1 \in 0 .. 8 /\ z \in 0 .. 8
    OBVIOUS
  <2>2. q[z] = DivideStep(d, q[z - 1]) /\ r[z] = DivideStep(d, r[z - 1])
    BY DEF Steps
  <2>3. q[z - 1] \in SUBSET Int /\ r[z - 1] \in SUBSET Int
    BY ONLY <1>2, <2>1
  <2>4. Added(q[z], r[z]) = DivideStep(d, Added(q[z - 1], r[z - 1]))
    BY ONLY <2>2, <2>3, DivisionAdds
  <2> QED
    BY ONLY <1>3, <2>1, <2>4
<1>5. f[0] = Added(a, b)
  BY <1>3 DEF Steps
<1>6. f \in [0 .. 8 -> SUBSET Int]
  BY ONLY <1>1, <1>3
<1> QED
  BY ONLY <1>1, <1>4, <1>5, <1>6 DEF Steps

\* Bits that the eight steps do not reach only move on.
LEMMA FurtherStep ==
  ASSUME NEW d, NEW v \in SUBSET Int, NEW hi \in SUBSET Int, \A b \in hi : b >= 8, NEW z \in 0 .. 7
  PROVE  Divided(d, Added(v, ShiftDown(hi, z))) = Added(Divided(d, v), ShiftDown(hi, z + 1))
<1>1. PICK s, t : s = ShiftDown(hi, z) /\ t = ShiftDown(hi, z + 1)
  OBVIOUS
<1>2. /\ s \in SUBSET Nat /\ \A x \in Int : x \in s <=> x >= 0 /\ x + z \in hi
      /\ t \in SUBSET Nat /\ \A x \in Int : x \in t <=> x >= 0 /\ x + (z + 1) \in hi
  BY <1>1, InDown
<1>3. PICK e : e = Added(v, s)
  OBVIOUS
<1>4. e \in SUBSET Int /\ \A x : x \in e <=> ((x \in v) <=> (x \notin s))
  BY ONLY <1>2, <1>3, InAdded, AddedInts, v \in SUBSET Int
<1>5. 0 \notin s
  BY ONLY <1>2, \A b \in hi : b >= 8, z \in 0 .. 7
<1>6. 0 \in e <=> 0 \in v
  BY ONLY <1>4, <1>5
<1>7. PICK ve, vv : ve = ShiftDown(e, 1) /\ vv = ShiftDown(v, 1)
  OBVIOUS
<1>8. /\ ve \in SUBSET Nat /\ \A x \in Int : x \in ve <=> x >= 0 /\ x + 1 \in e
      /\ vv \in SUBSET Nat /\ \A x \in Int : x \in vv <=> x >= 0 /\ x + 1 \in v
  BY ONLY <1>4, <1>7, InDown, 1 \in Nat, v \in SUBSET Int
<1>9. ASSUME NEW x PROVE x \in ve <=> ((x \in vv) <=> (x \notin t))
  <2>1. CASE x \in Nat
    <3>1. x \in Int /\ x >= 0 /\ x + 1 \in Int /\ x + 1 >= 0 /\ (x + 1) + z = x + (z + 1)
      BY <2>1
    <3>2. x + 1 \in s <=> x \in t
      BY ONLY <1>2, <3>1
    <3> QED
      BY ONLY <1>4, <1>8, <3>1, <3>2
  <2>2. CASE x \notin Nat
    BY ONLY <1>2, <1>8, <2>2
  <2> QED
    BY ONLY <2>1, <2>2
<1>10. PICK g : g = (IF 0 \in v THEN Divisor(d) ELSE {})
  OBVIOUS
<1>11. Divided(d, e) = Added(ve, g) /\ Divided(d, v) = Added(vv, g)
  BY ONLY <1>6, <1>7, <1>10 DEF Divided
<1>12. Added(ve, g) = Added(Added(vv, g), t)
  <2>1. ASSUME NEW x PROVE x \in Added(ve, g) <=> x \in Added(Added(vv, g), t)
    <3>1. x \in Added(ve, g) <=> ((x \in ve) <=> (x \notin g))
      BY ONLY InAdded
    <3>2. x \in Added(vv, g) <=> ((x \in vv) <=> (x \notin g))
      BY ONLY InAdded
    <3>3. x \in Added(Added(vv, g), t) <=> ((x \in Added(vv, g)) <=> (x \notin t))
      BY ONLY InAdded
    <3> QED
      BY ONLY <1>9, <3>1, <3>2, <3>3
  <2> QED
    BY ONLY <2>1
<1> QED
  BY ONLY <1>1, <1>3, <1>11, <1>12

\* A burst is not lost in eight steps.
LEMMA BurstAfterSteps ==
  ASSUME NEW d, Sound(d), NEW n, n = d.width, NEW f, NEW x, Steps(d, f, x), Dividend(d, x),
         NEW hi \in SUBSET Int, \A b \in hi : b >= 8, Burst(n, Added(View(d, x), hi))
  PROVE  Burst(n, Added(View(d, f[8]), ShiftDown(hi, 8)))
<1> DEFINE Holds(z) == Dividend(d, f[z]) /\ Burst(n, Added(View(d, f[z]), ShiftDown(hi, z)))
           T == {z \in Nat : z <= 8 => Holds(z)}
<1>1. 0 \in T
  <2>1. ShiftDown(hi, 0) = hi
    <3>1. ASSUME NEW b \in hi PROVE b \in Nat
      <4>1. b \in Int /\ b >= 8
        BY ONLY hi \in SUBSET Int, \A c \in hi : c >= 8
      <4> QED
        BY ONLY <4>1
    <3>2. hi \in SUBSET Nat
      BY ONLY <3>1
    <3> QED
      BY ONLY <3>2, DownByNone
  <2>2. f[0] = x
    BY DEF Steps
  <2> QED
    BY <2>1, <2>2
<1>2. ASSUME NEW z \in Nat, z \in T PROVE z + 1 \in T
  <2>1. CASE z + 1 <= 8
    <3>1. z \in 0 .. 7 /\ z + 1 \in 1 .. 8 /\ (z + 1) - 1 = z
      BY <2>1
    <3>2. Dividend(d, f[z]) /\ Burst(n, Added(View(d, f[z]), ShiftDown(hi, z)))
      BY <1>2, <3>1
    <3>3. f[z + 1] = DivideStep(d, f[z])
      BY ONLY <3>1, Steps(d, f, x) DEF Steps
    <3>4. PICK v : v = View(d, f[z])
      OBVIOUS
    <3>5. v \in SUBSET Int
      <4>1. PICK m \in 8 .. 32 : m = d.width
        BY DEF Sound
      <4> QED
        BY ONLY <3>4, <4>1 DEF View, mask
    <3>6. Dividend(d, f[z + 1]) /\ View(d, f[z + 1]) = Divided(d, v)
      BY <3>2, <3>3, <3>4, DivisionViewed
    <3>7. Divided(d, Added(v, ShiftDown(hi, z))) = Added(Divided(d, v), ShiftDown(hi, z + 1))
      BY <3>1, <3>5, FurtherStep
    <3>8. Burst(n, Divided(d, Added(v, ShiftDown(hi, z))))
      BY <3>2, <3>4, BurstStays
    <3> QED
      BY <3>6, <3>7, <3>8
  <2> QED
    BY <2>1
<1> HIDE DEF T
<1>3. \A z \in Nat : z \in T
  BY ONLY <1>1, <1>2, Induction
<1>4. Holds(8)
  BY ONLY <1>3 DEF T
<1> QED
  BY <1>4

-----------------------------------------------------------------------------
\* The places of bits in a register of n bits, and in a byte.
PlaceOf(d, n, b) == IF d.reflect THEN b ELSE (n - 1) - b

Index(d, s) == (IF d.reflect THEN s ELSE ShiftDown(s, d.width - 8)) \cap (0 .. 7)
MovedOn(d, s) == IF d.reflect THEN ShiftDown(s, 8) ELSE ShiftUp(s, 8)

LEMMA UpdatedIs ==
  ASSUME NEW d, NEW s, NEW byte
  PROVE  Updated(d, s, byte) = Added(remainder(d, Added(Index(d, s), byte)), MovedOn(d, s)) \cap mask(d)
BY DEF Updated, Index, MovedOn

LEMMA MaskIs ==
  ASSUME NEW d, Sound(d), NEW n, n = d.width
  PROVE  n \in 8 .. 32 /\ mask(d) = 0 .. n - 1
BY DEF Sound, mask

LEMMA InView ==
  ASSUME NEW d, Sound(d), NEW n, n = d.width, NEW s
  PROVE  \A b : b \in View(d, s) <=> b \in 0 .. n - 1 /\ PlaceOf(d, n, b) \in s
<1>1. mask(d) = 0 .. n - 1
  BY MaskIs
<1> QED
  BY ONLY <1>1, n = d.width DEF View, PlaceOf

\* The next eight bits are the index.
LEMMA IndexPlaces ==
  ASSUME NEW d, Sound(d), NEW n, n = d.width, NEW s \in SUBSET mask(d), NEW b \in 0 .. 7
  PROVE  PlaceOf(d, 8, b) \in Index(d, s) <=> PlaceOf(d, n, b) \in s
<1>1. n \in 8 .. 32 /\ s \in SUBSET (0 .. n - 1)
  <2>1. n \in 8 .. 32 /\ mask(d) = 0 .. n - 1
    BY ONLY Sound(d), n = d.width, MaskIs
  <2> QED
    BY ONLY <2>1, s \in SUBSET mask(d)
<1>2. CASE d.reflect
  BY ONLY <1>2, b \in 0 .. 7 DEF PlaceOf, Index
<1>3. CASE ~d.reflect
  <2>1. PICK m \in Nat : m = n - 8
    BY ONLY <1>1
  <2>2. PICK e : e = ShiftDown(s, m)
    OBVIOUS
  <2>3. s \in SUBSET Int
    BY ONLY <1>1
  <2>4. \A x \in Int : x \in e <=> x >= 0 /\ x + m \in s
    BY ONLY <2>2, <2>3, InDown, m \in Nat
  <2>5. PICK c \in 0 .. 7 : c = 7 - b
    OBVIOUS
  <2>6. c \in Int /\ c >= 0 /\ c + m = (n - 1) - b
    BY ONLY <1>1, <2>1, <2>5, b \in 0 .. 7
  <2>7. c \in e <=> (n - 1) - b \in s
    BY ONLY <2>4, <2>6
  <2>8. Index(d, s) = e \cap (0 .. 7)
    BY ONLY <1>3, <2>1, <2>2, n = d.width DEF Index
  <2>9. PlaceOf(d, 8, b) = c /\ PlaceOf(d, n, b) = (n - 1) - b
    BY ONLY <1>3, <2>5 DEF PlaceOf
  <2> QED
    BY ONLY <2>7, <2>8, <2>9, c \in 0 .. 7
<1> QED
  BY <1>2, <1>3

\* The others move on by eight.
LEMMA ShiftedPlaces ==
  ASSUME NEW d, Sound(d), NEW n, n = d.width, NEW s \in SUBSET mask(d), NEW b \in 0 .. n - 1
  PROVE  PlaceOf(d, n, b) \in MovedOn(d, s) <=> b + 8 \in 0 .. n - 1 /\ PlaceOf(d, n, b + 8) \in s
<1>1. n \in 8 .. 32 /\ s \in SUBSET (0 .. n - 1) /\ s \in SUBSET Int
  <2>1. n \in 8 .. 32 /\ mask(d) = 0 .. n - 1
    BY ONLY Sound(d), n = d.width, MaskIs
  <2> QED
    BY ONLY <2>1, s \in SUBSET mask(d)
<1>2. CASE d.reflect
  <2>1. PICK e : e = ShiftDown(s, 8)
    OBVIOUS
  <2>2. \A x \in Int : x \in e <=> x >= 0 /\ x + 8 \in s
    BY ONLY <1>1, <2>1, InDown, 8 \in Nat
  <2>3. b \in e <=> b + 8 \in s
    BY ONLY <2>2, <1>1, b \in 0 .. n - 1
  <2> QED
    BY ONLY <1>1, <1>2, <2>1, <2>3 DEF PlaceOf, MovedOn
<1>3. CASE ~d.reflect
  <2>1. PICK e : e = ShiftUp(s, 8)
    OBVIOUS
  <2>2. \A x \in Int : x \in e <=> x - 8 \in s
    BY ONLY <1>1, <2>1, InUp, 8 \in Int
  <2>3. PICK c \in Int : c = (n - 1) - b
    BY ONLY <1>1, b \in 0 .. n - 1
  <2>4. c - 8 = (n - 1) - (b + 8)
    BY ONLY <1>1, <2>3, b \in 0 .. n - 1
  <2>5. c - 8 \in 0 .. n - 1 => b + 8 \in 0 .. n - 1
    BY ONLY <1>1, <2>3, b \in 0 .. n - 1
  <2>6. c \in e <=> c - 8 \in s
    BY ONLY <2>2
  <2>7. c - 8 \in s => c - 8 \in 0 .. n - 1
    BY ONLY <1>1
  <2>8. PlaceOf(d, n, b) = c /\ PlaceOf(d, n, b + 8) = c - 8 /\ MovedOn(d, s) = e
    BY ONLY <1>3, <2>1, <2>3, <2>4 DEF PlaceOf, MovedOn
  <2> QED
    BY ONLY <2>5, <2>6, <2>7, <2>8
<1> QED
  BY <1>2, <1>3

LEMMA StartAdds ==
  ASSUME NEW d, Sound(d), NEW a \in SUBSET Int, NEW b \in SUBSET Int
  PROVE  Start(d, a) \in SUBSET Int /\ Start(d, b) \in SUBSET Int
         /\ Added(Start(d, a), Start(d, b)) = Start(d, Added(a, b))
<1>1. PICK m \in Int : m = d.width - 8
  BY DEF Sound
<1>2. PICK e : e = Added(a, b)
  OBVIOUS
<1>3. e \in SUBSET Int /\ \A x : x \in e <=> ((x \in a) <=> (x \notin b))
  BY ONLY <1>2, InAdded, AddedInts, a \in SUBSET Int, b \in SUBSET Int
<1>4. CASE d.reflect
  <2>1. Start(d, a) = a /\ Start(d, b) = b /\ Start(d, e) = e
    BY ONLY <1>4 DEF Start
  <2> QED
    BY ONLY <1>2, <2>1, a \in SUBSET Int, b \in SUBSET Int
<1>5. CASE ~d.reflect
  <2>1. PICK sa, sb, se : sa = ShiftUp(a, m) /\ sb = ShiftUp(b, m) /\ se = ShiftUp(e, m)
    OBVIOUS
  <2>2. sa \in SUBSET Int /\ \A x \in Int : x \in sa <=> x - m \in a
    BY ONLY <2>1, InUp, m \in Int, a \in SUBSET Int
  <2>3. sb \in SUBSET Int /\ \A x \in Int : x \in sb <=> x - m \in b
    BY ONLY <2>1, InUp, m \in Int, b \in SUBSET Int
  <2>4. se \in SUBSET Int /\ \A x \in Int : x \in se <=> x - m \in e
    BY ONLY <1>3, <2>1, InUp, m \in Int
  <2>5. ASSUME NEW x PROVE x \in Added(sa, sb) <=> x \in se
    <3>1. x \in Added(sa, sb) <=> ((x \in sa) <=> (x \notin sb))
      BY ONLY InAdded
    <3>2. CASE x \in Int
      BY ONLY <1>3, <2>2, <2>3, <2>4, <3>1, <3>2
    <3>3. CASE x \notin Int
      BY ONLY <2>2, <2>3, <2>4, <3>1, <3>3
    <3> QED
      BY ONLY <3>2, <3>3
  <2>6. Start(d, a) = sa /\ Start(d, b) = sb /\ Start(d, e) = se
    BY ONLY <1>1, <1>5, <2>1 DEF Start
  <2>7. Added(sa, sb) = se
    BY ONLY <2>5
  <2> QED
    BY ONLY <1>2, <2>2, <2>3, <2>6, <2>7
<1> QED
  BY <1>4, <1>5

LEMMA StartViewed ==
  ASSUME NEW d, Sound(d), NEW x \in SUBSET (0 .. 7)
  PROVE  /\ Dividend(d, Start(d, x))
         /\ \A b : b \in View(d, Start(d, x)) <=> b \in 0 .. 7 /\ PlaceOf(d, 8, b) \in x
<1>1. PICK n : n = d.width
  OBVIOUS
<1>2. n \in 8 .. 32 /\ mask(d) = 0 .. n - 1
  BY <1>1, MaskIs
<1>3. PICK s : s = Start(d, x)
  OBVIOUS
<1>4. \A b : b \in View(d, s) <=> b \in 0 .. n - 1 /\ PlaceOf(d, n, b) \in s
  BY <1>1, InView
<1>5. CASE d.reflect
  <2>1. s = x
    BY ONLY <1>3, <1>5 DEF Start
  <2>2. \A b : b \in 0 .. 7 => b \in 0 .. n - 1
    BY ONLY <1>2
  <2>3. Dividend(d, s)
    BY ONLY <1>2, <2>1, <2>2, x \in SUBSET (0 .. 7) DEF Dividend
  <2>4. \A b : b \in View(d, s) <=> b \in 0 .. 7 /\ PlaceOf(d, 8, b) \in x
    BY ONLY <1>4, <1>5, <2>1, <2>2, x \in SUBSET (0 .. 7) DEF PlaceOf
  <2> QED
    BY ONLY <1>3, <2>3, <2>4
<1>6. CASE ~d.reflect
  <2>1. PICK m \in Nat : m = n - 8
    BY ONLY <1>2
  <2>2. s = ShiftUp(x, m)
    BY ONLY <1>1, <1>3, <1>6, <2>1 DEF Start
  <2>3. x \in SUBSET Int
    OBVIOUS
  <2>4. s \in SUBSET Int /\ \A y \in Int : y \in s <=> y - m \in x
    BY ONLY <2>2, <2>3, InUp, m \in Nat, m \in Int
  <2>5. \A y \in s : y \in Nat
    BY ONLY <2>4, m \in Nat, x \in SUBSET (0 .. 7)
  <2>6. Dividend(d, s)
    BY ONLY <1>6, <2>5 DEF Dividend
  <2>7. ASSUME NEW b \in 0 .. n - 1 PROVE (n - 1) - b \in s <=> 7 - b \in x
    <3>1. (n - 1) - b \in Int /\ ((n - 1) - b) - m = 7 - b
      BY ONLY <1>2, <2>1, b \in 0 .. n - 1
    <3> QED
      BY ONLY <2>4, <3>1
  <2>8. ASSUME NEW b \in Int, 7 - b \in x PROVE b \in 0 .. 7
    BY ONLY <2>8, b \in Int, x \in SUBSET (0 .. 7)
  <2>9. ASSUME NEW b PROVE b \in View(d, s) <=> b \in 0 .. 7 /\ PlaceOf(d, 8, b) \in x
    <3>1. PlaceOf(d, n, b) = (n - 1) - b /\ PlaceOf(d, 8, b) = (8 - 1) - b
      BY ONLY <1>6 DEF PlaceOf
    <3>2. CASE b \in 0 .. n - 1
      <4>1. (8 - 1) - b = 7 - b /\ b \in Int
        BY ONLY <1>2, <3>2
      <4> QED
        BY ONLY <1>4, <2>7, <2>8, <3>1, <3>2, <4>1
    <3>3. CASE b \notin 0 .. n - 1
      <4>1. b \notin 0 .. 7
        BY ONLY <1>2, <3>3
      <4> QED
        BY ONLY <1>4, <3>3, <4>1
    <3> QED
      BY ONLY <3>2, <3>3
  <2> QED
    BY ONLY <1>3, <2>6, <2>9
<1> QED
  BY <1>5, <1>6

-----------------------------------------------------------------------------
\* The damage that is still to come, from the next bit on.
Ahead(s, k) == ShiftDown(s, 8 * k)

\* That of the next byte, as the code turns it over.
TurnedAt(d, s, i) == { IF d.reflect THEN p % 8 ELSE 7 - (p % 8) : p \in { q \in s : (q \div 8) + 1 = i } }

LEMMA AheadIs ==
  ASSUME NEW s \in SUBSET Nat, NEW k \in Nat
  PROVE  /\ Ahead(s, k) \in SUBSET Nat
         /\ \A b \in Nat : b \in Ahead(s, k) <=> b + 8 * k \in s
         /\ \A b \in Nat : b \in Ahead(s, k + 1) <=> b + 8 \in Ahead(s, k)
         /\ Ahead(s, k + 1) \in SUBSET Nat
<1>1. PICK m \in Nat : m = 8 * k
  OBVIOUS
<1>2. PICK m2 \in Nat : m2 = 8 * (k + 1)
  OBVIOUS
<1>3. m2 = m + 8
  BY ONLY <1>1, <1>2, k \in Nat
<1>4. s \in SUBSET Int
  OBVIOUS
<1>5. PICK a, b : a = Ahead(s, k) /\ b = Ahead(s, k + 1)
  OBVIOUS
<1>6. a \in SUBSET Nat /\ \A x \in Int : x \in a <=> x >= 0 /\ x + m \in s
  BY ONLY <1>1, <1>4, <1>5, InDown, m \in Nat DEF Ahead
<1>7. b \in SUBSET Nat /\ \A x \in Int : x \in b <=> x >= 0 /\ x + m2 \in s
  BY ONLY <1>2, <1>4, <1>5, InDown, m2 \in Nat DEF Ahead
<1>8. ASSUME NEW x \in Nat PROVE x \in b <=> x + 8 \in a
  <2>1. x \in Int /\ x >= 0 /\ x + 8 \in Int /\ x + 8 >= 0 /\ (x + 8) + m = x + m2
    BY ONLY <1>3, m \in Nat, m2 \in Nat, x \in Nat
  <2> QED
    BY ONLY <1>6, <1>7, <2>1
<1>9. \A x \in Nat : x \in a <=> x + 8 * k \in s
  BY ONLY <1>1, <1>6
<1> QED
  BY ONLY <1>5, <1>6, <1>7, <1>8, <1>9

LEMMA TurnedPlaces ==
  ASSUME NEW d, d.reflect \in BOOLEAN, NEW s \in SUBSET Nat, NEW k \in Nat
  PROVE  /\ TurnedAt(d, s, k + 1) \in SUBSET (0 .. 7)
         /\ \A b \in 0 .. 7 : PlaceOf(d, 8, b) \in TurnedAt(d, s, k + 1) <=> b \in Ahead(s, k)
<1> DEFINE Q == { q \in s : (q \div 8) + 1 = k + 1 }
<1>1. \A p \in Nat : p % 8 \in 0 .. 7 /\ p \div 8 \in Int /\ p = 8 * (p \div 8) + (p % 8)
  BY DivisionProps
<1>2. ASSUME NEW p \in Q PROVE p \in s /\ p \in Nat /\ p = 8 * k + (p % 8) /\ p % 8 \in 0 .. 7
  <2>1. p \in Nat /\ p \in s /\ (p \div 8) + 1 = k + 1
    OBVIOUS
  <2>2. PICK a \in Int, c \in 0 .. 7 : a = p \div 8 /\ c = p % 8 /\ p = 8 * a + c
    BY ONLY <1>1, <2>1
  <2>3. a = k
    BY ONLY <2>1, <2>2, k \in Nat
  <2> QED
    BY ONLY <2>1, <2>2, <2>3
<1>3. ASSUME NEW b \in 0 .. 7, b + 8 * k \in s PROVE b + 8 * k \in Q /\ (b + 8 * k) % 8 = b
  <2>1. (b + 8 * k) \div 8 = k /\ (b + 8 * k) % 8 = b
    BY ONLY b \in 0 .. 7, k \in Nat
  <2> QED
    BY ONLY <1>3, <2>1
<1>4. \A b \in 0 .. 7 : b \in Ahead(s, k) <=> b + 8 * k \in s
  <2>1. \A b \in Nat : b \in Ahead(s, k) <=> b + 8 * k \in s
    BY ONLY AheadIs, s \in SUBSET Nat, k \in Nat
  <2> QED
    BY ONLY <2>1
<1> DEFINE F(p) == IF d.reflect THEN p % 8 ELSE 7 - (p % 8)
<1>5. TurnedAt(d, s, k + 1) = { F(p) : p \in Q }
  BY DEF TurnedAt
<1>6. \A p \in Q : F(p) \in 0 .. 7
  BY ONLY <1>2
<1>7. ASSUME NEW b \in 0 .. 7 PROVE PlaceOf(d, 8, b) \in { F(p) : p \in Q } <=> b + 8 * k \in s
  <2>1. ASSUME NEW p \in Q PROVE F(p) = PlaceOf(d, 8, b) <=> p % 8 = b
    <3>1. p % 8 \in 0 .. 7
      BY ONLY <1>2, p \in Q
    <3> QED
      BY ONLY <3>1, b \in 0 .. 7 DEF PlaceOf
  <2>2. ASSUME b + 8 * k \in s PROVE \E p \in Q : F(p) = PlaceOf(d, 8, b)
    BY ONLY <1>3, <2>1, <2>2, b \in 0 .. 7
  <2>3. ASSUME NEW p \in Q, F(p) = PlaceOf(d, 8, b) PROVE b + 8 * k \in s
    <3>1. p % 8 = b
      BY ONLY <2>1, <2>3
    <3>2. p \in s /\ p = 8 * k + b /\ p \in Nat
      BY ONLY <1>2, <3>1, p \in Q
    <3>3. p = b + 8 * k
      BY ONLY <3>2, k \in Nat, b \in 0 .. 7
    <3> QED
      BY ONLY <3>2, <3>3
  <2> HIDE DEF F, Q
  <2> QED
    BY ONLY <2>2, <2>3
<1> QED
  BY ONLY <1>4, <1>5, <1>6, <1>7

\* The difference of the registers, and the damage to come: a burst before the byte is
\* one after it.
ToCome(d, a, b, s, k) == Added(View(d, Added(a, b)), Ahead(s, k))

LEMMA ByteKeepsBurst ==
  ASSUME NEW d, Sound(d), NEW n, n = d.width, NEW a \in SUBSET mask(d), NEW h \in SUBSET mask(d),
         NEW byte \in SUBSET Int, NEW s \in SUBSET Nat, NEW k \in Nat, Burst(n, ToCome(d, a, h, s, k))
  PROVE  Burst(n, ToCome(d, Updated(d, a, byte), Updated(d, h, Added(byte, TurnedAt(d, s, k + 1))), s, k + 1))
<1>1. n \in 8 .. 32 /\ mask(d) = 0 .. n - 1
  BY ONLY Sound(d), n = d.width, MaskIs
<1>2. PICK t : t = TurnedAt(d, s, k + 1)
  OBVIOUS
<1>3. d.reflect \in BOOLEAN
  BY ONLY Sound(d) DEF Sound
<1>4. t \in SUBSET (0 .. 7) /\ \A b \in 0 .. 7 : PlaceOf(d, 8, b) \in t <=> b \in Ahead(s, k)
  BY ONLY <1>2, <1>3, TurnedPlaces, s \in SUBSET Nat, k \in Nat
<1>5. PICK F, G : F = Ahead(s, k) /\ G = Ahead(s, k + 1)
  OBVIOUS
<1>6. F \in SUBSET Nat /\ G \in SUBSET Nat /\ \A b \in Nat : b \in G <=> b + 8 \in F
  BY ONLY <1>5, AheadIs, s \in SUBSET Nat, k \in Nat
<1>7. PICK ia, ih : ia = Index(d, a) /\ ih = Index(d, h)
  OBVIOUS
<1>8. ia \in SUBSET (0 .. 7) /\ ih \in SUBSET (0 .. 7)
  BY ONLY <1>7 DEF Index
<1>9. PICK ja, jh : ja = Added(ia, byte) /\ jh = Added(ih, Added(byte, t))
  OBVIOUS
<1>10. ja \in SUBSET Int /\ jh \in SUBSET Int
  <2>1. ia \in SUBSET Int /\ ih \in SUBSET Int /\ t \in SUBSET Int
    BY ONLY <1>4, <1>8
  <2> QED
    BY ONLY <1>9, <2>1, AddedInts, byte \in SUBSET Int
<1>11. PICK x : x = Added(ja, jh)
  OBVIOUS
<1>12. \A b : b \in x <=> (((b \in ia) <=> (b \notin ih)) <=> (b \notin t))
  BY ONLY <1>9, <1>11, InAdded
<1>13. x \in SUBSET (0 .. 7)
  <2>1. ASSUME NEW b, b \in x PROVE b \in ia \/ b \in ih \/ b \in t
    BY ONLY <1>12, <2>1
  <2>2. ASSUME NEW b, b \in ia \/ b \in ih \/ b \in t PROVE b \in 0 .. 7
    <3>1. \A y \in SUBSET (0 .. 7) : b \in y => b \in 0 .. 7
      OBVIOUS
    <3> QED
      BY ONLY <1>4, <1>8, <2>2, <3>1
  <2>3. \A b \in x : b \in 0 .. 7
    BY ONLY <2>1, <2>2
  <2> QED
    BY ONLY <2>3
<1>14. PICK q : Steps(d, q, Start(d, ja)) /\ remainder(d, ja) = q[8] \cap mask(d)
  <2>1. Start(d, ja) \in SUBSET Int
    BY ONLY <1>10, Sound(d), StartAdds
  <2> QED
    BY ONLY <2>1, Sound(d), RemainderIs
<1>15. PICK r : Steps(d, r, Start(d, jh)) /\ remainder(d, jh) = r[8] \cap mask(d)
  <2>1. Start(d, jh) \in SUBSET Int
    BY ONLY <1>10, Sound(d), StartAdds
  <2> QED
    BY ONLY <2>1, Sound(d), RemainderIs
<1>16. PICK f : f = [z \in 0 .. 8 |-> Added(q[z], r[z])]
  OBVIOUS
<1>17. Steps(d, f, Start(d, x))
  <2>1. Added(Start(d, ja), Start(d, jh)) = Start(d, x)
    BY ONLY <1>10, <1>11, Sound(d), StartAdds
  <2> QED
    BY ONLY <1>14, <1>15, <1>16, <2>1, StepsAdd
<1>18. PICK R : R = ToCome(d, a, h, s, k)
  OBVIOUS
<1>19. PICK off : off = View(d, Added(a, h))
  OBVIOUS
<1>20. \A b : b \in R <=> ((b \in off) <=> (b \notin F))
  BY ONLY <1>5, <1>18, <1>19, InAdded DEF ToCome
<1>21. \A b : b \in off <=> b \in 0 .. n - 1 /\ ((PlaceOf(d, n, b) \in a) <=> (PlaceOf(d, n, b) \notin h))
  <2>1. \A b : b \in off <=> b \in 0 .. n - 1 /\ PlaceOf(d, n, b) \in Added(a, h)
    BY ONLY <1>19, Sound(d), n = d.width, InView
  <2> QED
    BY ONLY <2>1, InAdded
<1>22. PICK v : v = View(d, Start(d, x))
  OBVIOUS
<1>23. Dividend(d, Start(d, x)) /\ \A b : b \in v <=> b \in 0 .. 7 /\ PlaceOf(d, 8, b) \in x
  BY ONLY <1>13, <1>22, Sound(d), StartViewed
<1>24. ASSUME NEW b \in 0 .. 7 PROVE b \in v <=> b \in R
  <2>1. PlaceOf(d, 8, b) \in ia <=> PlaceOf(d, n, b) \in a
    BY ONLY <1>7, IndexPlaces, Sound(d), n = d.width, a \in SUBSET mask(d), b \in 0 .. 7
  <2>2. PlaceOf(d, 8, b) \in ih <=> PlaceOf(d, n, b) \in h
    BY ONLY <1>7, IndexPlaces, Sound(d), n = d.width, h \in SUBSET mask(d), b \in 0 .. 7
  <2>3. b \in 0 .. n - 1
    BY ONLY <1>1, b \in 0 .. 7
  <2>4. PlaceOf(d, 8, b) \in t <=> b \in F
    BY ONLY <1>4, <1>5, b \in 0 .. 7
  <2> QED
    BY ONLY <1>12, <1>20, <1>21, <1>23, <2>1, <2>2, <2>3, <2>4, b \in 0 .. 7
<1>25. PICK hi : hi = { b \in R : b >= 8 }
  OBVIOUS
<1>26. R \in SUBSET Nat
  <2>1. Burst(n, R)
    BY ONLY <1>18, Burst(n, ToCome(d, a, h, s, k))
  <2>2. R \subseteq Nat
    BY ONLY <2>1 DEF Burst
  <2> QED
    BY ONLY <2>2
<1>27. hi \in SUBSET Int /\ \A b \in hi : b >= 8
  <2>1. ASSUME NEW b \in hi PROVE b \in Int /\ b >= 8
    <3>1. b \in R /\ b >= 8
      BY ONLY <1>25, b \in hi
    <3>2. \A y \in R : y \in Int
      BY ONLY <1>26
    <3> QED
      BY ONLY <3>1, <3>2
  <2> QED
    BY ONLY <2>1
<1>28. R = Added(v, hi)
  <2>1. ASSUME NEW b PROVE b \in R <=> ((b \in v) <=> (b \notin hi))
    <3>1. CASE b \in 0 .. 7
      BY ONLY <1>24, <1>25, <3>1
    <3>2. CASE b \notin 0 .. 7
      <4>1. b \in R => b >= 8
        BY ONLY <1>26, <3>2
      <4> QED
        BY ONLY <1>23, <1>25, <3>2, <4>1
    <3> QED
      BY ONLY <3>1, <3>2
  <2> QED
    BY ONLY <2>1, InAdded
<1>29. Burst(n, Added(v, hi))
  BY ONLY <1>18, <1>28, Burst(n, ToCome(d, a, h, s, k))
<1>30. PICK w, g : w = View(d, f[8]) /\ g = ShiftDown(hi, 8)
  OBVIOUS
<1>31. Burst(n, Added(w, g))
  <2>1. Burst(n, Added(View(d, f[8]), ShiftDown(hi, 8)))
    BY ONLY <1>17, <1>22, <1>23, <1>27, <1>29, Sound(d), n = d.width, BurstAfterSteps
  <2> QED
    BY ONLY <1>30, <2>1
<1>32. PICK na, nh : na = Updated(d, a, byte) /\ nh = Updated(d, h, Added(byte, t))
  OBVIOUS
<1>33. PICK sa, sh : sa = MovedOn(d, a) /\ sh = MovedOn(d, h)
  OBVIOUS
<1>34. na = Added(q[8] \cap mask(d), sa) \cap mask(d) /\ nh = Added(r[8] \cap mask(d), sh) \cap mask(d)
  BY ONLY <1>7, <1>9, <1>14, <1>15, <1>32, <1>33, UpdatedIs
<1>35. f[8] = Added(q[8], r[8])
  BY ONLY <1>16
<1>36. PICK N : N = View(d, Added(na, nh))
  OBVIOUS
<1>37. \A b : b \in N <=> b \in 0 .. n - 1 /\ ((PlaceOf(d, n, b) \in na) <=> (PlaceOf(d, n, b) \notin nh))
  <2>1. \A b : b \in N <=> b \in 0 .. n - 1 /\ PlaceOf(d, n, b) \in Added(na, nh)
    BY ONLY <1>36, Sound(d), n = d.width, InView
  <2> QED
    BY ONLY <2>1, InAdded
<1>38. \A b : b \in w <=> b \in 0 .. n - 1 /\ ((PlaceOf(d, n, b) \in q[8]) <=> (PlaceOf(d, n, b) \notin r[8]))
  <2>1. \A b : b \in w <=> b \in 0 .. n - 1 /\ PlaceOf(d, n, b) \in f[8]
    BY ONLY <1>30, Sound(d), n = d.width, InView
  <2> QED
    BY ONLY <1>35, <2>1, InAdded
<1>39. g \in SUBSET Nat /\ \A b \in Nat : b \in g <=> b + 8 \in R
  <2>1. g \in SUBSET Nat /\ \A b \in Int : b \in g <=> b >= 0 /\ b + 8 \in hi
    BY ONLY <1>27, <1>30, InDown, 8 \in Nat
  <2>2. \A b \in Nat : b \in Int /\ b >= 0 /\ b + 8 >= 8
    OBVIOUS
  <2> QED
    BY ONLY <1>25, <2>1, <2>2
<1>40. ASSUME NEW b PROVE ((b \in N) <=> (b \notin G)) <=> ((b \in w) <=> (b \notin g))
  <2>1. CASE b \in 0 .. n - 1
    <3>1. PICK c : c = PlaceOf(d, n, b)
      OBVIOUS
    <3>2. c \in mask(d)
      BY ONLY <1>1, <2>1, <3>1, b \in 0 .. n - 1 DEF PlaceOf
    <3>3. c \in na <=> ((c \in q[8]) <=> (c \notin sa))
      BY ONLY <1>34, <3>2, InAdded
    <3>4. c \in nh <=> ((c \in r[8]) <=> (c \notin sh))
      BY ONLY <1>34, <3>2, InAdded
    <3>5. c \in sa <=> b + 8 \in 0 .. n - 1 /\ PlaceOf(d, n, b + 8) \in a
      BY ONLY <1>33, <2>1, <3>1, ShiftedPlaces, Sound(d), n = d.width, a \in SUBSET mask(d)
    <3>6. c \in sh <=> b + 8 \in 0 .. n - 1 /\ PlaceOf(d, n, b + 8) \in h
      BY ONLY <1>33, <2>1, <3>1, ShiftedPlaces, Sound(d), n = d.width, h \in SUBSET mask(d)
    <3>7. b + 8 \in off <=> ((c \in sa) <=> (c \notin sh))
      BY ONLY <1>21, <3>5, <3>6
    <3>8. b \in Nat
      BY ONLY <1>1, <2>1
    <3>9. b \in g <=> ((b + 8 \in off) <=> (b \notin G))
      BY ONLY <1>6, <1>20, <1>39, <3>8
    <3>10. /\ b \in N <=> ((c \in na) <=> (c \notin nh))
           /\ b \in w <=> ((c \in q[8]) <=> (c \notin r[8]))
      BY ONLY <1>37, <1>38, <2>1, <3>1
    <3> QED
      BY ONLY <3>3, <3>4, <3>7, <3>9, <3>10
  <2>2. CASE b \in Nat /\ b \notin 0 .. n - 1
    <3>1. b + 8 \notin 0 .. n - 1
      BY ONLY <1>1, <2>2
    <3>2. b + 8 \in R <=> b + 8 \in F
      BY ONLY <1>20, <1>21, <3>1
    <3>3. b \in g <=> b \in G
      BY ONLY <1>6, <1>39, <2>2, <3>2
    <3> QED
      BY ONLY <1>37, <1>38, <2>2, <3>3
  <2>3. CASE b \notin Nat
    <3>1. b \notin 0 .. n - 1
      BY ONLY <1>1, <2>3
    <3> QED
      BY ONLY <1>6, <1>37, <1>38, <1>39, <2>3, <3>1
  <2> QED
    BY ONLY <2>1, <2>2, <2>3
<1>41. Added(N, G) = Added(w, g)
  <2>1. ASSUME NEW b PROVE b \in Added(N, G) <=> b \in Added(w, g)
    <3>1. b \in Added(N, G) <=> ((b \in N) <=> (b \notin G))
      BY ONLY InAdded
    <3>2. b \in Added(w, g) <=> ((b \in w) <=> (b \notin g))
      BY ONLY InAdded
    <3> QED
      BY ONLY <1>40, <3>1, <3>2
  <2> QED
    BY ONLY <2>1
<1>42. ToCome(d, na, nh, s, k + 1) = Added(N, G)
  BY ONLY <1>5, <1>36 DEF ToCome
<1> QED
  BY ONLY <1>2, <1>31, <1>32, <1>41, <1>42

-----------------------------------------------------------------------------
\* Both registers stay within their masks, and the damage that is a burst of the check's
\* width leaves, with the difference it has made so far, a burst to divide.
CrcInv ==
  /\ description \in Descriptions
  /\ damage \in Damages
  /\ taken \in 0 .. Len(Checked)
  /\ sum \in SUBSET mask(description)
  /\ heard \in SUBSET mask(description)
  /\ Burst(description.width, damage) =>
       Burst(description.width, ToCome(description, sum, heard, damage, taken))

LEMMA DescriptionsSound ==
  ASSUME NEW d \in Descriptions
  PROVE  Sound(d) /\ d.init \in SUBSET mask(d)
BY CrcAssumption DEF Sound

LEMMA DamagePlaces ==
  ASSUME NEW s \in Damages
  PROVE  s \in SUBSET Nat /\ \A b \in s : b < 8 * Len(Checked)
<1>1. PICK m \in Nat : m = Len(Checked)
  BY CrcAssumption
<1>2. s \subseteq 0 .. 8 * m - 1
  BY <1>1, CrcAssumption
<1>3. ASSUME NEW b \in s PROVE b \in Nat /\ b < 8 * m
  BY ONLY <1>1, <1>2, b \in s
<1> QED
  BY ONLY <1>1, <1>3

LEMMA NothingYet ==
  ASSUME NEW d, NEW a, NEW s \in SUBSET Nat
  PROVE  ToCome(d, a, a, s, 0) = s
<1>1. \A b : b \notin View(d, Added(a, a))
  <2>1. \A b : b \notin Added(a, a)
    BY ONLY InAdded
  <2> QED
    BY ONLY <2>1 DEF View
<1>2. Ahead(s, 0) = s
  <2>1. 8 * 0 = 0
    OBVIOUS
  <2> QED
    BY ONLY <2>1, DownByNone, s \in SUBSET Nat DEF Ahead
<1>3. ASSUME NEW b PROVE b \in Added(View(d, Added(a, a)), s) <=> b \in s
  BY ONLY <1>1, InAdded
<1> QED
  BY ONLY <1>2, <1>3 DEF ToCome

THEOREM CrcInvariance == CrcSpec => []CrcInv
<1>1. CrcInit => CrcInv
  <2> SUFFICES ASSUME CrcInit PROVE CrcInv
    OBVIOUS
  <2>1. description \in Descriptions /\ damage \in Damages /\ taken = 0 /\ sum = heard /\ sum = description.init
    BY DEF CrcInit
  <2>2. sum \in SUBSET mask(description)
    BY ONLY <2>1, DescriptionsSound
  <2>3. taken \in 0 .. Len(Checked)
    BY <2>1, CrcAssumption
  <2>4. damage \in SUBSET Nat
    BY ONLY <2>1, DamagePlaces
  <2>5. ToCome(description, sum, heard, damage, taken) = damage
    BY ONLY <2>1, <2>4, NothingYet
  <2> QED
    BY ONLY <2>1, <2>2, <2>3, <2>5 DEF CrcInv
<1>2. CrcInv /\ [CrcNext]_crcVars => CrcInv'
  <2> SUFFICES ASSUME CrcInv, [CrcNext]_crcVars PROVE CrcInv'
    OBVIOUS
  <2>1. CASE UpdateSum
    <3>1. /\ description \in Descriptions /\ damage \in Damages
          /\ sum \in SUBSET mask(description) /\ heard \in SUBSET mask(description)
          /\ Burst(description.width, damage) =>
               Burst(description.width, ToCome(description, sum, heard, damage, taken))
      BY DEF CrcInv
    <3>2. PICK m \in Nat : m = Len(Checked)
      BY CrcAssumption
    <3>3. taken \in 0 .. m /\ taken < m /\ taken' = taken + 1
      BY <2>1, <3>2 DEF CrcInv, UpdateSum
    <3>4. taken \in Nat /\ taken' \in 0 .. m
      BY ONLY <3>2, <3>3
    <3>5. description' = description /\ damage' = damage
      BY <2>1 DEF UpdateSum
    <3>6. PICK byte : byte = ByteAt(taken + 1)
      OBVIOUS
    <3>7. byte \in SUBSET Int
      BY ONLY <3>6 DEF ByteAt, L, H
    <3>8. Turned(taken + 1) = TurnedAt(description, damage, taken + 1)
      BY ONLY TRUE DEF Turned, TurnedAt
    <3>9. /\ sum' = Updated(description, sum, byte)
          /\ heard' = Updated(description, heard, Added(byte, TurnedAt(description, damage, taken + 1)))
      BY <2>1, <3>3, <3>6, <3>8 DEF UpdateSum
    <3>10. sum' \in SUBSET mask(description) /\ heard' \in SUBSET mask(description)
      BY ONLY <3>9 DEF Updated
    <3>11. ASSUME Burst(description.width, damage)
           PROVE  Burst(description.width, ToCome(description, sum', heard', damage, taken + 1))
      <4>1. Sound(description) /\ damage \in SUBSET Nat
        BY ONLY <3>1, DescriptionsSound, DamagePlaces
      <4>2. PICK n : n = description.width
        OBVIOUS
      <4>3. Burst(n, ToCome(description, sum, heard, damage, taken))
        BY ONLY <3>1, <3>11, <4>2
      <4>4. Burst(n, ToCome(description, Updated(description, sum, byte),
                            Updated(description, heard, Added(byte, TurnedAt(description, damage, taken + 1))),
                            damage, taken + 1))
        BY ONLY <3>1, <3>4, <3>7, <4>1, <4>2, <4>3, ByteKeepsBurst
      <4> QED
        BY ONLY <3>9, <4>2, <4>4
    <3> QED
      BY ONLY <3>1, <3>2, <3>3, <3>4, <3>5, <3>10, <3>11 DEF CrcInv
  <2>2. CASE UNCHANGED crcVars
    BY <2>2 DEF CrcInv, crcVars
  <2> QED
    BY <2>1, <2>2 DEF CrcNext
<1> QED
  BY <1>1, <1>2, PTL DEF CrcSpec

\* Damage within as many bits in a row as the check is wide leaves the two registers
\* different when the message has been read, for every description whose polynomial has its
\* constant term, every message and every place of the burst.
THEOREM BurstsAlwaysDetected == CrcSpec => []BurstsDetected
<1>1. CrcInv => BurstsDetected
  <2> SUFFICES ASSUME CrcInv, taken = Len(Checked), damage # {},
                      \A p, q \in damage : p - q < description.width
               PROVE  finished_value(description, heard) # finished_value(description, sum)
    BY DEF BurstsDetected
  <2>1. description \in Descriptions /\ damage \in Damages /\ sum \in SUBSET mask(description)
        /\ heard \in SUBSET mask(description)
    BY DEF CrcInv
  <2>2. damage \in SUBSET Nat /\ \A b \in damage : b < 8 * Len(Checked)
    BY ONLY <2>1, DamagePlaces
  <2>3. PICK n : n = description.width
    OBVIOUS
  <2>4. Burst(n, damage)
    BY <2>2, <2>3 DEF Burst
  <2>5. PICK R : R = ToCome(description, sum, heard, damage, taken)
    OBVIOUS
  <2>6. Burst(n, R)
    BY <2>3, <2>4, <2>5 DEF CrcInv
  <2>7. PICK b : b \in R
    BY ONLY <2>6 DEF Burst
  <2>8. PICK m \in Nat : m = Len(Checked) /\ taken = m
    BY CrcAssumption
  <2>9. \A x : x \notin Ahead(damage, taken)
    <3>1. Ahead(damage, m) \in SUBSET Nat /\ \A x \in Nat : x \in Ahead(damage, m) <=> x + 8 * m \in damage
      BY ONLY <2>2, AheadIs, m \in Nat
    <3>2. \A x \in damage : x < 8 * m
      BY ONLY <2>2, <2>8
    <3>3. PICK c \in Nat : c = 8 * m
      BY ONLY m \in Nat
    <3>4. ASSUME NEW x \in Nat, x + c \in damage PROVE FALSE
      <4>1. x + c < c
        BY ONLY <3>2, <3>3, <3>4
      <4> QED
        BY ONLY <4>1, c \in Nat, x \in Nat
    <3> QED
      BY ONLY <2>8, <3>1, <3>3, <3>4
  <2>10. b \in View(description, Added(sum, heard))
    BY ONLY <2>5, <2>7, <2>9, InAdded DEF ToCome
  <2>11. PICK c : c \in Added(sum, heard)
    BY ONLY <2>10 DEF View
  <2>12. (c \in sum) <=> (c \notin heard)
    BY ONLY <2>11, InAdded
  <2>13. PICK x : x = description.xor_out
    OBVIOUS
  <2>14. (c \in Added(sum, x) <=> ((c \in sum) <=> (c \notin x))) /\ (c \in Added(heard, x) <=> ((c \in heard) <=> (c \notin x)))
    BY ONLY InAdded
  <2>15. Added(heard, x) # Added(sum, x)
    BY ONLY <2>12, <2>14
  <2> QED
    BY ONLY <2>13, <2>15 DEF finished_value
<1> QED
  BY <1>1, CrcInvariance, PTL
=============================================================================
