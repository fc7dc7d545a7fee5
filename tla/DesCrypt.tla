---------------------------- MODULE DesCrypt -----------------------------
(***************************************************************************)
(* encrypt, decrypt, crypt and tripcode of Stuff/Maths/Crypt/DES.hpp as a  *)
(* machine that takes one step per round of the cipher.  A job enciphers   *)
(* its block once, as encrypt does, or 25 times over, as crypt does; what  *)
(* encrypt returned is then deciphered with the same key.  Characters are  *)
(* their codes.                                                            *)
(***************************************************************************)
EXTENDS DesCipher, SequencesExt

-----------------------------------------------------------------------------
\* A character of a salt or a result as a number of 6 bits, and back
FromBase64(c) == (IF c > 90 THEN c - 13 ELSE IF c > 57 THEN c - 7 ELSE c) - 46
ToBase64(x) == x + (IF x > 37 THEN 59 ELSE IF x > 11 THEN 53 ELSE 46)

\* The 12 bits of the salt each swap two entries of the expansion, 24 apart,
\* counted from its last
get_crypt_expansion_block(salt) ==
  LET Salted(k) == k < 12 /\ (FromBase64(salt[(k \div 6) + 1]) \div 2^(k % 6)) % 2 = 1
  IN  [b \in 0 .. 47 |-> k_expansion_table[IF Salted((47 - b) % 24) THEN (b + 24) % 48 ELSE b]]

\* Eleven characters of 6 bits, from the top; two zero bits follow the last
crypt_base64(salt, data) ==
  salt \o [i \in 1 .. 11 |->
             ToBase64(ToNat([b \in 0 .. 5 |-> IF 64 - 6 * i + b < 0 THEN 0 ELSE data[64 - 6 * i + b]], 6))]

\* (slip) the key keeps its characters in the low seven bits of each byte
KeyUnshifted(pw) ==
  [b \in 0 .. 63 |-> IF 7 - (b \div 8) < Len(pw) /\ b % 8 < 7
                     THEN (pw[8 - (b \div 8)] \div 2^(b % 8)) % 2 ELSE 0]

\* Seven bits of each character, above a zero parity bit, the first at the top
get_crypt_key(pw) ==
  [b \in 0 .. 63 |-> IF 7 - (b \div 8) < Len(pw) /\ b % 8 > 0
                     THEN (pw[8 - (b \div 8)] \div 2^((b % 8) - 1)) % 2 ELSE 0]

\* The key of a tripcode: four characters are escaped ("&lt" without its ;),
\* then the first eight characters count
Escaped(c) == CASE c = 38 -> << 38, 97, 109, 112, 59 >>
                [] c = 62 -> << 38, 103, 116, 59 >>
                [] c = 60 -> << 38, 108, 116 >>
                [] c = 34 -> << 38, 113, 117, 111, 116, 59 >>
                [] OTHER -> << c >>

get_tripkey(raw_key) ==
  LET all == FlattenSeq([i \in DOMAIN raw_key |-> Escaped(raw_key[i])])
  IN  SubSeq(all, 1, IF Len(all) < 8 THEN Len(all) ELSE 8)

\* Its salt is the second and third character of the key followed by "H.".
\* They are stored over the "H." while they are read, so a key of two
\* characters has its second character twice
salt_transform(c) == IF c \in 58 .. 64 THEN c + 7 ELSE IF c \in 91 .. 96 THEN c + 6 ELSE c

TripSalt(tripkey) ==
  LET output == tripkey \o << 72, 46 >>
  IN  << salt_transform(output[2]), salt_transform(output[IF Len(tripkey) = 2 THEN 2 ELSE 3]) >>

-----------------------------------------------------------------------------
\* The calls: encrypt; crypt, whose password counts up to its eighth character;
\* tripcode, which returns what crypt does from the fourth character on
EncryptJob(plaintext, raw_key, answer) ==
  [block |-> plaintext, key |-> prepare_key(raw_key), expansion |-> k_expansion_table,
   passes |-> 1, salt |-> << >>, skip |-> 0, answer |-> answer]

CryptJob(pw, salt, skip, answer) ==
  [block |-> [b \in 0 .. 63 |-> 0],
   key |-> prepare_key(get_crypt_key(SubSeq(pw, 1, IF Len(pw) < 8 THEN Len(pw) ELSE 8))),
   expansion |-> get_crypt_expansion_block(salt), passes |-> 25, salt |-> salt, skip |-> skip, answer |-> answer]

TripcodeJob(raw, answer) ==
  LET key == get_tripkey(raw) IN CryptJob(key, TripSalt(key), 3, answer)

CONSTANT Jobs   \* the calls explored, each with the answer a test expects

\* What encrypt and crypt hand to routine: words of these widths
Prepared(j) ==
  /\ j.block \in Word(64)
  /\ j.key \in Word(56)
  /\ j.expansion \in [0 .. 47 -> 0 .. 31]
  /\ j.passes \in {1, 25}

ASSUME JobsAssumption == \A j \in Jobs : Prepared(j)

VARIABLES
  job,        \* the call being served
  pass,       \* completed calls of routine
  block,      \* what the last of them returned
  half,       \* left and right of the one under way
  round,      \* its i
  trace       \* history: the halves before each round of an enciphering

desVars == << job, pass, block, half, round, trace >>

\* The second call of routine for an encrypt job deciphers
Passes == IF job.passes = 1 THEN 2 ELSE job.passes
Deciphering == job.passes = 1 /\ pass = 1

DesInit ==
  /\ job \in Jobs
  /\ pass = 0
  /\ block = job.block
  /\ half = RoutineStart(job.block)
  /\ round = 0
  /\ trace = << >>

DesRound ==
  /\ pass < Passes
  /\ round < 16
  /\ half' = RoutineRound(half, round, RoundKey(key_schedule(job.key), Deciphering, round), job.expansion)
  /\ round' = round + 1
  /\ trace' = IF job.passes = 1 /\ pass = 0 THEN Append(trace, half) ELSE trace
  /\ UNCHANGED << job, pass, block >>

DesReturn ==
  /\ pass < Passes
  /\ round = 16
  /\ block' = RoutineEnd(half)
  /\ pass' = pass + 1
  /\ half' = RoutineStart(RoutineEnd(half))
  /\ round' = 0
  /\ UNCHANGED << job, trace >>

DesNext == DesRound \/ DesReturn

DesSpec == DesInit /\ [][DesNext]_desVars

-----------------------------------------------------------------------------
\* Deciphering walks back through the very halves enciphering went through,
\* with left and right exchanged, and ends with the plaintext: the round keys
\* are taken in the opposite order, the last round does not swap, and the final
\* permutation undoes the initial one (routine, DES.hpp:11-38).
DecipherRetraces ==
  /\ Deciphering =>
       half = IF round = 0 THEN RoutineStart(block)
              ELSE IF round = 16 THEN trace[1]
              ELSE << trace[17 - round][2], trace[17 - round][1] >>
  /\ pass = 2 /\ job.passes = 1 => block = job.block

\* encrypt, crypt and tripcode return what Tests/Maths/DES.cpp expects of them:
\* a step of the key set-up, the salting or the encoding that is off by a bit
\* changes every character of the answer.
KnownAnswers ==
  /\ pass = 1 /\ job.passes = 1 => block = job.answer
  /\ pass = 25 => SubSeq(crypt_base64(job.salt, block), job.skip + 1, 13) = job.answer
=============================================================================
