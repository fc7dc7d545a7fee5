---------------------------- MODULE MCCrypto -----------------------------
(***************************************************************************)
(* The ciphers, hashes and checks for TLC.  The four components share      *)
(* nothing but this run: "algorithm" is the one that takes steps, the others rest  *)
(* in an initial state.                                                    *)
(***************************************************************************)
EXTENDS DesCrypt, DesBitslice, Sha2, CRC

VARIABLE algorithm

-----------------------------------------------------------------------------
(***************************************************************************)
(* DES: calls of encrypt (some of them steps of the recurrence), of crypt  *)
(* and of tripcode, with the answers Tests/Maths/DES.cpp expects           *)
(***************************************************************************)
\* A 64-bit word from its four 16-bit parts, the highest first
W(parts) == [b \in 0 .. 63 |-> (parts[4 - (b \div 16)] \div 2^(b % 16)) % 2]

TestJobs == {
  EncryptJob(W(<< 4660, 22187, 52499, 9526 >>), W(<< 43707, 2328, 10038, 52445 >>),
             W(<< 49335, 43216, 24378, 33436 >>)),
  EncryptJob(W(<< 38004, 47336, 51003, 51837 >>), W(<< 38004, 47336, 51003, 51837 >>),
             W(<< 36263, 17632, 51534, 24087 >>)),
  EncryptJob(W(<< 3291, 9699, 47676, 28025 >>), W(<< 3291, 9699, 47676, 28025 >>),
             W(<< 18308, 50362, 20486, 2079 >>)),
  EncryptJob(W(<< 10841, 61636, 25680, 28379 >>), W(<< 10841, 61636, 25680, 28379 >>),
             W(<< 42435, 40258, 20976, 43038 >>)),
  CryptJob(<< 65, 65, 65, 65, 65, 65, 65, 65 >>, << 47, 65 >>, 0,
           << 47, 65, 119, 117, 86, 78, 110, 70, 106, 105, 122, 50, 103 >>),
  TripcodeJob(<< 65 >>, << 104, 82, 74, 57, 89, 97, 46, 47, 116, 46 >>),
  TripcodeJob(<< 38, 38 >>, << 115, 83, 51, 73, 73, 73, 100, 89, 49, 50 >>) }

-----------------------------------------------------------------------------
(***************************************************************************)
(* Bitslices: two lanes; the first value has one of the 64 inputs at all   *)
(* boxes, so every entry of every table is reached; the second is fixed    *)
(***************************************************************************)
\* The same six bits at every box
Sixes(x) == [b \in 0 .. 47 |-> (x \div 2^(b % 6)) % 2]

AllInputs == { Sixes(x) : x \in 0 .. 63 }
SomeInputs == { Sixes(x) : x \in {38} }

-----------------------------------------------------------------------------
(***************************************************************************)
(* SHA-2: messages of Tests/Maths/Hash.cpp, two with one state, and       *)
(* messages that end where the padding takes one block or two (no test has *)
(* those, so they come without an answer)                                  *)
(***************************************************************************)
Filled(n) == [i \in 1 .. n |-> i]

TestBatches == {
  << [props |-> Sha256Props, message |-> << >>,
     answer |-> << <<58288, 50242>>, <<39164, 7188>>, <<39675, 62664>>, <<39279, 47396>>, <<10158, 16868>>, <<25755, 37708>>, <<42133, 39195>>, <<30802, 47189>> >>],
     [props |-> Sha256Props, message |-> << 97, 98, 99, 100, 98, 99, 100, 101, 99, 100, 101, 102, 100, 101, 102, 103, 101, 102, 103, 104, 102, 103, 104, 105, 103, 104, 105, 106, 104, 105, 106, 107, 105, 106, 107, 108, 106, 107, 108, 109, 107, 108, 109, 110, 108, 109, 110, 111, 109, 110, 111, 112, 110, 111, 112, 113 >>,
     answer |-> << <<9357, 27233>>, <<53766, 14520>>, <<58816, 9875>>, <<3134, 24633>>, <<41788, 58457>>, <<25855, 8551>>, <<63212, 60884>>, <<6619, 1729>> >>] >>,
  << [props |-> Sha224Props, message |-> << >>,
     answer |-> << <<53578, 652>>, <<10810, 11209>>, <<18273, 699>>, <<10370, 13508>>, <<5538, 45087>>, <<33422, 42538>>, <<50611, 58415>> >>] >>,
  << [props |-> Sha384Props, message |-> << 97, 98, 99 >>,
     answer |-> << <<51968, 30015, 17827, 24203>>, <<46496, 15721, 39622, 20487>>, <<10028, 12971, 3806, 53603>>, <<6795, 24666, 17407, 23533>>, <<32902, 1835, 41447, 52259>>, <<22714, 60577, 13512, 9639>> >>] >>,
  << [props |-> Sha512Props, message |-> << 97, 98, 99 >>,
     answer |-> << <<56751, 13729, 37729, 31418>>, <<52289, 29513, 44576, 16689>>, <<4838, 64078, 35241, 32418>>, <<2718, 61158, 19285, 54170>>, <<8594, 39210, 10063, 49576>>, <<14010, 15395, 41982, 60349>>, <<17741, 17443, 25660, 59406>>, <<10906, 51535, 42316, 42143>> >>] >> }
  \cup { << [props |-> Sha256Props, message |-> Filled(n), answer |-> << >>] >> : n \in {55, 63, 64, 119} }

-----------------------------------------------------------------------------
(***************************************************************************)
(* CRC: the message all checks are listed for, whole and with damage of up *)
(* to 32 bits in a row at its start, across its middle and at its end      *)
(***************************************************************************)
Digits == << 49, 50, 51, 52, 53, 54, 55, 56, 57 >>

SomeDamages ==
  { {} } \cup { { p + b : b \in s } : p \in {0, 29, 40},
                s \in { {0}, {0, 1}, {0, 7}, {0, 9, 14}, {0, 3, 30}, {0, 15, 31} } }

-----------------------------------------------------------------------------
AlgorithmInit ==
  /\ algorithm \in {"des", "bitslice", "sha2", "crc"}
  /\ DesInit /\ (algorithm # "des" => job = CHOOSE j \in TestJobs : TRUE)
  /\ BitsliceInit /\ (algorithm # "bitslice" => ~toMSB)
  /\ ShaInit /\ (algorithm # "sha2" => batch = CHOOSE b \in TestBatches : TRUE)
  /\ CrcInit /\ (algorithm # "crc" => description = D(8, 8, L(7), {}, FALSE, {}, L(244)) /\ damage = {})

AlgorithmNext ==
  /\ UNCHANGED algorithm
  /\ \/ algorithm = "des" /\ DesNext /\ UNCHANGED << bitsliceVars, shaVars, crcVars >>
     \/ algorithm = "bitslice" /\ BitsliceNext /\ UNCHANGED << desVars, shaVars, crcVars >>
     \/ algorithm = "sha2" /\ ShaNext /\ UNCHANGED << desVars, bitsliceVars, crcVars >>
     \/ algorithm = "crc" /\ CrcNext /\ UNCHANGED << desVars, bitsliceVars, shaVars >>

-----------------------------------------------------------------------------
(***************************************************************************)
(* Every algorithm has the answers the repository's tests list for it      *)
(* (Tests/Maths/DES.cpp, Hash.cpp and CRC.cpp): a wrong entry of a table,  *)
(* a wrong rotation, reflection or carry shows in them.                    *)
(***************************************************************************)
KnownVectors == KnownAnswers /\ KnownDigests /\ KnownChecks
=============================================================================
