------------------------------ MODULE Sha2 -------------------------------
(***************************************************************************)
(* SHA2State of Stuff/Maths/Hash/Sha2.hpp with the properties of SHA-256,  *)
(* -224, -512 and -384: bytes are buffered, a full buffer is compressed,   *)
(* finish pads.  A word is the sequence of its 16-bit parts, the highest   *)
(* first.  One step feeds one byte, extends the schedule by one word or    *)
(* takes one round.  update's bulk path is never taken: its condition      *)
(* compares remove_const itself, not what it yields (line 214).            *)
(***************************************************************************)
EXTENDS Integers, SequencesExt

h256 == <<
    <<27145, 58983>>, <<47975, 44677>>, <<15470, 62322>>, <<42319, 62778>>, <<20750, 21119>>, <<39685, 26764>>, <<8067, 55723>>,
    <<23520, 52505>> >>
h224 == <<
    <<49413, 40664>>, <<13948, 54535>>, <<12400, 56599>>, <<63246, 22841>>, <<65472, 2865>>, <<26712, 5393>>, <<25849, 36775>>,
    <<48890, 20388>> >>
h512 == <<
    <<27145, 58983, 62396, 51464>>, <<47975, 44677, 33994, 42811>>, <<15470, 62322, 65172, 63531>>, <<42319, 62778, 24349, 14065>>,
    <<20750, 21119, 44518, 33489>>, <<39685, 26764, 11070, 27679>>, <<8067, 55723, 64321, 48491>>, <<23520, 52505, 4990, 8569>> >>
h384 == <<
    <<52155, 40285, 49413, 40664>>, <<25242, 10538, 13948, 54535>>, <<37209, 346, 12400, 56599>>, <<5423, 60632, 63246, 22841>>,
    <<26419, 9831, 65472, 2865>>, <<36532, 19079, 26712, 5393>>, <<56076, 11789, 25849, 36775>>, <<18357, 18461, 48890, 20388>> >>
k256 == <<
    <<17034, 12184>>, <<28983, 17553>>, <<46528, 64463>>, <<59829, 56229>>, <<14678, 49755>>, <<23025, 4593>>, <<37439, 33444>>,
    <<43804, 24277>>, <<55303, 43672>>, <<4739, 23297>>, <<9265, 34238>>, <<21772, 32195>>, <<29374, 23924>>, <<32990, 45566>>,
    <<39900, 1703>>, <<49563, 61812>>, <<58523, 27073>>, <<61374, 18310>>, <<4033, 40390>>, <<9228, 41420>>, <<11753, 11375>>,
    <<19060, 33962>>, <<23728, 43484>>, <<30457, 35034>>, <<38974, 20818>>, <<43057, 50797>>, <<45059, 10184>>, <<48985, 32711>>,
    <<50912, 3059>>, <<54695, 37191>>, <<1738, 25425>>, <<5161, 10599>>, <<10167, 2693>>, <<11803, 8504>>, <<19756, 28156>>,
    <<21304, 3347>>, <<25866, 29524>>, <<30314, 2747>>, <<33218, 51502>>, <<37490, 11397>>, <<41663, 59553>>, <<43034, 26187>>,
    <<49739, 35696>>, <<51052, 20899>>, <<53650, 59417>>, <<54937, 1572>>, <<62478, 13701>>, <<4202, 41072>>, <<6564, 49430>>,
    <<7735, 27656>>, <<10056, 30540>>, <<13488, 48309>>, <<14620, 3251>>, <<20184, 43594>>, <<23452, 51791>>, <<26670, 28659>>,
    <<29839, 33518>>, <<30885, 25455>>, <<33992, 30740>>, <<36039, 520>>, <<37054, 65530>>, <<42064, 27883>>, <<48889, 41975>>,
    <<50801, 30962>> >>
k512 == <<
    <<17034, 12184, 55080, 44578>>, <<28983, 17553, 9199, 26061>>, <<46528, 64463, 60493, 15151>>, <<59829, 56229, 33161, 56252>>,
    <<14678, 49755, 62280, 46392>>, <<23025, 4593, 46597, 53273>>, <<37439, 33444, 44825, 20379>>, <<43804, 24277, 55917, 33048>>,
    <<55303, 43672, 41731, 578>>, <<4739, 23297, 17776, 28606>>, <<9265, 34238, 20196, 45708>>, <<21772, 32195, 54783, 46306>>,
    <<29374, 23924, 62075, 35183>>, <<32990, 45566, 15126, 38577>>, <<39900, 1703, 9671, 4661>>, <<49563, 61812, 53097, 9876>>,
    <<58523, 27073, 40689, 19154>>, <<61374, 18310, 14415, 9699>>, <<4033, 40390, 35724, 54709>>, <<9228, 41420, 30636, 40037>>,
    <<11753, 11375, 22827, 629>>, <<19060, 33962, 28326, 58499>>, <<23728, 43484, 48449, 64468>>, <<30457, 35034, 33553, 21429>>,
    <<38974, 20818, 61030, 57259>>, <<43057, 50797, 11700, 12816>>, <<45059, 10184, 39163, 8511>>, <<48985, 32711, 48879, 3812>>,
    <<50912, 3059, 15784, 36802>>, <<54695, 37191, 37642, 42789>>, <<1738, 25425, 57347, 33391>>, <<5161, 10599, 2574, 28272>>,
    <<10167, 2693, 18130, 12284>>, <<11803, 8504, 23590, 51494>>, <<19756, 28156, 23236, 10989>>, <<21304, 3347, 40341, 46047>>,
    <<25866, 29524, 35759, 25566>>, <<30314, 2747, 15479, 45736>>, <<33218, 51502, 18413, 44774>>, <<37490, 11397, 5250, 13627>>,
    <<41663, 59553, 19697, 868>>, <<43034, 26187, 48194, 12289>>, <<49739, 35696, 53496, 38801>>, <<51052, 20899, 1620, 48688>>,
    <<53650, 59417, 55023, 21016>>, <<54937, 1572, 21861, 43280>>, <<62478, 13701, 22385, 8234>>, <<4202, 41072, 12987, 53688>>,
    <<6564, 49430, 47314, 53448>>, <<7735, 27656, 20801, 43859>>, <<10056, 30540, 57230, 60313>>, <<13488, 48309, 57755, 18600>>,
    <<14620, 3251, 50633, 23139>>, <<20184, 43594, 58177, 35531>>, <<23452, 51791, 30563, 58227>>, <<26670, 28659, 54962, 47267>>,
    <<29839, 33518, 24047, 45820>>, <<30885, 25455, 17175, 12128>>, <<33992, 30740, 41456, 43890>>, <<36039, 520, 6756, 14828>>,
    <<37054, 65530, 9059, 7720>>, <<42064, 27883, 56962, 48617>>, <<48889, 41975, 45766, 30997>>, <<50801, 30962, 58226, 21291>>,
    <<51751, 16078, 59942, 24988>>, <<53638, 47303, 8640, 49671>>, <<60122, 32214, 52704, 60190>>, <<62845, 20351, 61038, 53624>>,
    <<1776, 26538, 29207, 28602>>, <<2659, 32197, 41672, 39078>>, <<4415, 38916, 48889, 3502>>, <<7025, 2869, 4892, 18203>>,
    <<10459, 30709, 8964, 32132>>, <<13002, 43899, 16583, 9363>>, <<15518, 48650, 5577, 48828>>, <<17181, 26564, 39952, 3404>>,
    <<19653, 54462, 52030, 17078>>, <<22911, 10652, 64613, 32298>>, <<24523, 28587, 15062, 64236>>, <<27716, 6540, 19015, 22551>> >>

\* SHA-224 and SHA-384 start from other digests and give away less of the last
Props32(h, digest) ==
  [chunk |-> 64, length |-> 8, digest |-> digest, h |-> h, k |-> k256,
   sum_0 |-> << 2, 13, 22 >>, sum_1 |-> << 6, 11, 25 >>,
   sig_0 |-> << 7, 18, 3 >>, sig_1 |-> << 17, 19, 10 >>]
Props64(h, digest) ==
  [chunk |-> 128, length |-> 16, digest |-> digest, h |-> h, k |-> k512,
   sum_0 |-> << 28, 34, 39 >>, sum_1 |-> << 14, 18, 41 >>,
   sig_0 |-> << 1, 8, 7 >>, sig_1 |-> << 19, 61, 6 >>]

Sha256Props == Props32(h256, 8)
Sha224Props == Props32(h224, 7)
Sha512Props == Props64(h512, 8)
Sha384Props == Props64(h384, 6)

-----------------------------------------------------------------------------
(***************************************************************************)
(* Words                                                                   *)
(***************************************************************************)
Bits(w) == 16 * Len(w)
BitOf(w, i) == (w[Len(w) - (i \div 16)] \div 2^(i % 16)) % 2

Place(w) == 0 .. Bits(w) - 1

\* The word of so many parts whose i-th bit is bits[i]
WordOf(parts, bits) ==
  [p \in 1 .. parts |-> FoldLeft(LAMBDA v, j : 2 * v + bits[16 * (parts - p) + 16 - j], 0, [j \in 1 .. 16 |-> j])]

\* Three rotations to the right, or two and a shift
Sum(w, r) ==
  WordOf(Len(w), [i \in Place(w) |-> (BitOf(w, (i + r[1]) % Bits(w)) + BitOf(w, (i + r[2]) % Bits(w))
                                      + BitOf(w, (i + r[3]) % Bits(w))) % 2])
\* (slip) the third is a rotation too
SigRotates(w, r) == Sum(w, r)

Sig(w, r) ==
  WordOf(Len(w), [i \in Place(w) |-> (BitOf(w, (i + r[1]) % Bits(w)) + BitOf(w, (i + r[2]) % Bits(w))
                                      + (IF i + r[3] < Bits(w) THEN BitOf(w, i + r[3]) ELSE 0)) % 2])

Choose(e, f, g) ==
  WordOf(Len(e), [i \in Place(e) |-> IF BitOf(e, i) = 1 THEN BitOf(f, i) ELSE BitOf(g, i)])
Majority(a, b, c) ==
  WordOf(Len(a), [i \in Place(a) |-> (BitOf(a, i) + BitOf(b, i) + BitOf(c, i)) \div 2])

\* The sum of some words, carries going from part to part and off the top
AddAll(words) ==
  LET Part(p) == FoldLeft(LAMBDA s, w : s + w[p], 0, words)
      parts == Len(words[1])
      carry[p \in 1 .. parts + 1] == IF p = parts + 1 THEN 0 ELSE (Part(p) + carry[p + 1]) \div 65536
  IN  [p \in 1 .. parts |-> (Part(p) + carry[p + 1]) % 65536]

-----------------------------------------------------------------------------
CONSTANT Batches   \* what is hashed, each batch one after the other with one state

Item == [props : {Sha256Props, Sha224Props, Sha512Props, Sha384Props},
         message : Seq(0 .. 255), answer : Seq(Seq(Nat))]

\* x shifted to the right by so many bytes
Shifted(x) ==
  LET shifted[i \in 0 .. 16] == IF i = 0 THEN x ELSE shifted[i - 1] \div 256
  IN  shifted

\* m_bit_size is a size_t of eight bytes: a length in bits has no more
ASSUME ShaAssumption ==
  \A b \in Batches : /\ b \in Seq(Item) \ {<< >>}
                      /\ \A i \in DOMAIN b : Shifted(8 * Len(b[i].message))[8] = 0

VARIABLES
  batch,      \* what one SHA2State is used for
  item,       \* the message it is at
  fed,        \* bytes of the message update has taken
  stage,      \* "update", "zeros" or "length"
  pending,    \* m_data up to m_pending_data
  bit_size,   \* m_bit_size
  cached,     \* cached_bit_length of finish
  digest,     \* m_digest
  schedule,   \* m_schedule as far as it is computed; empty between blocks
  args,       \* the working variables a .. h
  step,       \* rounds taken of the block
  blocks      \* history: every byte compressed for this message

shaVars == << batch, item, fed, stage, pending, bit_size, cached, digest, schedule, args, step, blocks >>

Props == batch[item].props
Message == batch[item].message
Compressing == schedule # << >>

ShaInit ==
  /\ batch \in Batches
  /\ item = 1
  /\ digest = Props.h
  /\ fed = 0 /\ bit_size = 0 /\ cached = 0 /\ step = 0
  /\ stage = "update"
  /\ pending = << >> /\ schedule = << >> /\ args = << >> /\ blocks = << >>

\* Big-endian words of the buffer
data_to_schedule(data) ==
  LET parts == Len(Props.h[1])
  IN  [i \in 1 .. 16 |-> [p \in 1 .. parts |->
         LET at == 2 * ((i - 1) * parts + p) IN 256 * data[at - 1] + data[at]]]

\* update(uint8_t): a full buffer is compressed at once
Feed(byte) ==
  /\ ~Compressing
  /\ pending' = Append(pending, byte)
  /\ IF Len(pending') >= Props.chunk
     THEN schedule' = data_to_schedule(pending') /\ args' = digest /\ step' = 0
     ELSE UNCHANGED << schedule, args, step >>
  /\ UNCHANGED << batch, item, bit_size, digest, blocks >>

Update ==
  /\ stage = "update" /\ fed < Len(Message)
  /\ Feed(Message[fed + 1])
  /\ fed' = fed + 1
  /\ UNCHANGED << stage, cached >>

\* (slip) the length is taken after the bit that follows the message
FinishLate ==
  /\ stage = "update" /\ fed = Len(Message)
  /\ cached' = bit_size + 8 * (Len(pending) + 1)
  /\ Feed(128)
  /\ stage' = "zeros"
  /\ UNCHANGED fed

\* finish: the length is taken before any padding is fed
Finish ==
  /\ stage = "update" /\ fed = Len(Message)
  /\ cached' = bit_size + 8 * Len(pending)
  /\ Feed(128)
  /\ stage' = "zeros"
  /\ UNCHANGED fed

RoomForLength == Len(pending) = Props.chunk - Props.length

PadZero ==
  /\ stage = "zeros" /\ ~RoomForLength
  /\ Feed(0)
  /\ UNCHANGED << fed, stage, cached >>

\* Byte k of the big-endian length
LengthByte(k) == Shifted(cached)[Props.length - k] % 256

PadLength ==
  /\ \/ stage = "zeros" /\ RoomForLength
     \/ stage = "length" /\ pending # << >>
  /\ Feed(LengthByte(Len(pending) - (Props.chunk - Props.length) + 1))
  /\ stage' = "length"
  /\ UNCHANGED << fed, cached >>

\* transform: the schedule, then the rounds, then the sum with the digest
Extend ==
  LET n == Len(schedule)
  IN  /\ Compressing /\ n < Len(Props.k)
      /\ schedule' = Append(schedule, AddAll(<< Sig(schedule[n - 14], Props.sig_0),
                       Sig(schedule[n - 1], Props.sig_1), schedule[n - 6], schedule[n - 15] >>))
      /\ UNCHANGED << batch, item, fed, stage, pending, bit_size, cached, digest, args, step, blocks >>

ShaRound ==
  /\ Len(schedule) = Len(Props.k) /\ step < Len(Props.k)
  /\ LET temp1 == << args[8], Sum(args[5], Props.sum_1), Choose(args[5], args[6], args[7]),
                     Props.k[step + 1], schedule[step + 1] >>
         temp2 == << Sum(args[1], Props.sum_0), Majority(args[1], args[2], args[3]) >>
     IN  args' = << AddAll(temp1 \o temp2), args[1], args[2], args[3],
                    AddAll(<< args[4] >> \o temp1), args[5], args[6], args[7] >>
  /\ step' = step + 1
  /\ UNCHANGED << batch, item, fed, stage, pending, bit_size, cached, digest, schedule, blocks >>

FinishBlock ==
  /\ Len(schedule) = Len(Props.k) /\ step = Len(Props.k)
  /\ digest' = [i \in 1 .. 8 |-> AddAll(<< digest[i], args[i] >>)]
  /\ bit_size' = bit_size + 8 * Props.chunk
  /\ pending' = << >>
  /\ schedule' = << >>
  /\ blocks' = blocks \o pending
  /\ UNCHANGED << batch, item, fed, stage, cached, args, step >>

Done == stage = "length" /\ pending = << >>

\* reset, before the next message of the batch
Reset ==
  /\ Done
  /\ item < Len(batch)
  /\ item' = item + 1
  /\ digest' = batch[item + 1].props.h
  /\ bit_size' = 0 /\ fed' = 0 /\ stage' = "update" /\ blocks' = << >>
  /\ UNCHANGED << batch, pending, cached, schedule, args, step >>

ShaNext ==
  Update \/ Finish \/ PadZero \/ PadLength \/ Extend \/ ShaRound \/ FinishBlock \/ Reset

ShaSpec == ShaInit /\ [][ShaNext]_shaVars

-----------------------------------------------------------------------------
\* What is compressed is the message, one bit, the fewest zeros and the length,
\* in whole blocks, wherever the message ends in a block: with one byte too many
\* for the length to fit, with a full block, with nothing.
PaddedAsStandard ==
  Done =>
    LET n == Len(Message)
        zeros == Len(blocks) - n - 1 - Props.length
        value[i \in 0 .. Props.length] ==
          IF i = 0 THEN 0 ELSE 256 * value[i - 1] + blocks[n + 1 + zeros + i]
    IN  /\ Len(blocks) % Props.chunk = 0
        /\ zeros \in 0 .. Props.chunk - 1
        /\ SubSeq(blocks, 1, n) = Message
        /\ blocks[n + 1] = 128
        /\ \A i \in 1 .. zeros : blocks[n + 1 + i] = 0
        /\ value[Props.length] = 8 * n

\* The digests are those of Tests/Maths/Hash.cpp, also of a state that has been
\* used and reset before: a wrong constant, rotation or carry shows in them.
KnownDigests ==
  Done /\ batch[item].answer # << >> => SubSeq(digest, 1, Props.digest) = batch[item].answer
=============================================================================
