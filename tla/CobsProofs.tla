----------------------------- MODULE CobsProofs -----------------------------
(***************************************************************************)
(* For every message, every frame from anywhere and every block size: what  *)
(* cobs_encode emits has no zero in it but the delimiter at its end and     *)
(* grows by one byte a block; cobs_decode_inplace stays inside its buffer,  *)
(* overwrites nothing it has not read, and consumes what its result says;   *)
(* of a frame that arrives it makes the message, of one that was cut a      *)
(* prefix of it.                                                           *)
(***************************************************************************)
EXTENDS CobsCodec, DataLemmas, SequenceTheorems, TLAPS

(***************************************************************************)
(* The encoder                                                             *)
(***************************************************************************)

\* The bytes of a round, once its last distance is written, have no zero.
LEMMA RoundNonZero ==
  ASSUME Encoder!IInv
  PROVE  /\ Encoder!Patched \in [1 .. Len(message) -> Byte]
         /\ Encoder!Overhead \in 1 .. Full
         /\ \A i \in base + 1 .. base + it : Encoder!Patched[i] \in 1 .. Full
<1>0. Full \in Nat /\ Full >= 2
  BY CobsAssumption
<1>1. Encoder!AsByte(Encoder!Dist) = Encoder!Dist /\ Encoder!Dist \in 1 .. Full
  BY <1>0 DEF Encoder!IInv, Encoder!DistFits, Encoder!AsByte, Encoder!Dist
<1>2. Encoder!Overhead \in 1 .. Full
  BY <1>0, <1>1 DEF Encoder!IInv, Encoder!TypeOK, Encoder!OverheadKnown, Encoder!Overhead,
                    Byte, Encoder!Byte
<1>3. Encoder!Patched \in [1 .. Len(message) -> Byte]
  BY <1>0, <1>1 DEF Encoder!IInv, Encoder!TypeOK, Encoder!Patched, Byte, Encoder!Byte
<1>4. ASSUME NEW i \in base + 1 .. base + it PROVE Encoder!Patched[i] \in 1 .. Full
  <2>1. i \in 1 .. Len(message) /\ i - base \in 1 .. it /\ base + (i - base) = i
    BY DEF Encoder!IInv, Encoder!TypeOK
  <2>2. CASE prev_zero_pt # -1 /\ i = base + prev_zero_pt + 1
    BY <1>1, <2>1, <2>2 DEF Encoder!IInv, Encoder!TypeOK, Encoder!Patched
  <2>3. CASE prev_zero_pt = -1 \/ i # base + prev_zero_pt + 1
    <3>1. i - base # prev_zero_pt + 1
      BY <2>1, <2>3 DEF Encoder!IInv, Encoder!TypeOK
    <3>2. data[i] # 0
      BY <2>1, <3>1 DEF Encoder!IInv, Encoder!Scanned
    <3>3. Encoder!Patched[i] = data[i]
      BY <2>1, <2>3 DEF Encoder!IInv, Encoder!TypeOK, Encoder!Patched
    <3> QED
      BY <1>0, <2>1, <3>2, <3>3 DEF Encoder!IInv, Encoder!TypeOK, Byte, Encoder!Byte
  <2> QED
    BY <2>2, <2>3
<1> QED
  BY <1>2, <1>3, <1>4

\* What a round hands out has no zero.
LEMMA HandedOut ==
  ASSUME Encoder!IInv, wire \in Seq(1 .. Full)
  PROVE  wire \o <<Encoder!Overhead>> \o SubSeq(Encoder!Patched, base + 1, base + it) \in Seq(1 .. Full)
<1>1. SubSeq(Encoder!Patched, base + 1, base + it) \in Seq(1 .. Full)
  <2>1. Len(message) \in Nat /\ base \in Nat /\ it \in Nat
    BY LenProperties DEF Encoder!IInv, Encoder!TypeOK
  <2>2. \A i \in base + 1 .. base + it : Encoder!Patched[i] \in 1 .. Full
    BY RoundNonZero
  <2> QED
    BY <2>1, <2>2, SubSeqProperties
<1>2. <<Encoder!Overhead>> \in Seq(1 .. Full)
  BY RoundNonZero
<1> QED
  BY <1>1, <1>2

\* Delim.hpp:133-145 and Delim.cpp:5-32.  Zero-freedom of the wire needs that the
\* bytes scanned so far are free of zeros but for the one the open distance will
\* replace, and that no distance wraps.
LEMMA EncoderInvariant ==
  /\ Encoder!Init => Encoder!IInv
  /\ Encoder!IInv /\ (Encoder!Next \/ UNCHANGED sender) => Encoder!IInv'
<1>0. Full \in Nat /\ Full >= 2
  BY CobsAssumption
<1>1. Encoder!Init => Encoder!IInv
  <2>1. <<>> \in Seq(Byte) /\ <<>> \in Seq(1 .. Full) /\ Len(<<>>) = 0
    OBVIOUS
  <2>2. <<>> \in [1 .. 0 -> Byte] /\ 0 \in Byte
    BY <1>0 DEF Byte, Encoder!Byte
  <2> QED
    BY <1>0, <2>1, <2>2
       DEF Encoder!Init, Encoder!IInv, Encoder!TypeOK, Encoder!DistFits, Encoder!Dist,
           Encoder!Scanned, Encoder!OverheadKnown, Encoder!WireNonZero, Encoder!Terminated,
           Byte, Encoder!Byte
<1>2. Encoder!IInv /\ (Encoder!Next \/ UNCHANGED sender) => Encoder!IInv'
  <2> SUFFICES ASSUME Encoder!IInv, (Encoder!Next \/ UNCHANGED sender) PROVE Encoder!IInv'
    OBVIOUS
  <2>0. Len(message) \in Nat
    BY LenProperties DEF Encoder!IInv, Encoder!TypeOK
  <2>1. ASSUME NEW m \in Messages, Encoder!Encode(m) PROVE Encoder!IInv'
    <3>1. m \in Seq(Byte) /\ m \in [1 .. Len(m) -> Byte] /\ Len(m) \in Nat
      BY MessagesAreBytes
    <3>2. Encoder!TypeOK'
      BY <1>0, <2>1, <3>1 DEF Encoder!Encode, Encoder!TypeOK, Byte, Encoder!Byte
    <3>3. Encoder!DistFits' /\ Encoder!Scanned' /\ Encoder!OverheadKnown'
      BY <1>0, <2>1 DEF Encoder!Encode, Encoder!DistFits, Encoder!Dist, Encoder!Scanned,
                        Encoder!OverheadKnown
    <3>4. Encoder!WireNonZero' /\ Encoder!Terminated'
      <4>1. <<>> \in Seq(1 .. Full)
        OBVIOUS
      <4> QED
        BY <2>1, <4>1 DEF Encoder!Encode, Encoder!WireNonZero, Encoder!Terminated
    <3> QED
      BY <3>2, <3>3, <3>4 DEF Encoder!IInv
  <2>2. CASE Encoder!Scan
    <3>1. Encoder!TypeOK' /\ Encoder!DistFits'
      BY <1>0, <2>0, <2>2 DEF Encoder!Scan, Encoder!RoundOver, Encoder!IInv,
                              Encoder!TypeOK, Encoder!DistFits, Encoder!Dist
    <3>2. Encoder!Scanned'
      BY <2>0, <2>2 DEF Encoder!Scan, Encoder!IInv, Encoder!TypeOK, Encoder!Scanned
    <3>3. Encoder!OverheadKnown' /\ Encoder!WireNonZero' /\ Encoder!Terminated'
      BY <2>2 DEF Encoder!Scan, Encoder!IInv, Encoder!OverheadKnown, Encoder!WireNonZero,
                  Encoder!Terminated
    <3> QED
      BY <3>1, <3>2, <3>3 DEF Encoder!IInv
  <2>3. CASE Encoder!ScanZero
    BY <1>0, <2>0, <2>3, RoundNonZero
       DEF Encoder!ScanZero, Encoder!RoundOver, Encoder!IInv, Encoder!TypeOK,
           Encoder!DistFits, Encoder!Dist, Encoder!Scanned, Encoder!OverheadKnown,
           Encoder!WireNonZero, Encoder!Terminated, Byte, Encoder!Byte
  <2>4. CASE Encoder!EndRound
    <3>1. wire' \in Seq(1 .. Full)
      BY <2>4, HandedOut DEF Encoder!EndRound, Encoder!IInv, Encoder!WireNonZero
    <3> QED
      BY <1>0, <2>0, <2>4, <3>1, RoundNonZero
         DEF Encoder!EndRound, Encoder!IInv, Encoder!TypeOK, Encoder!DistFits,
             Encoder!Dist, Encoder!Scanned, Encoder!OverheadKnown, Encoder!WireNonZero,
             Encoder!Terminated, Byte, Encoder!Byte
  <2>5. CASE Encoder!Terminate
    BY <2>5 DEF Encoder!Terminate, Encoder!IInv, Encoder!TypeOK, Encoder!DistFits,
                Encoder!Dist, Encoder!Scanned, Encoder!OverheadKnown, Encoder!WireNonZero,
                Encoder!Terminated
  <2>6. CASE UNCHANGED sender
    BY <2>6 DEF sender, Encoder!IInv, Encoder!TypeOK, Encoder!DistFits, Encoder!Dist,
                Encoder!Scanned, Encoder!OverheadKnown, Encoder!WireNonZero,
                Encoder!Terminated
  <2> QED
    BY <2>1, <2>2, <2>3, <2>4, <2>5, <2>6 DEF Encoder!Next, Encoder!Step
<1> QED
  BY <1>1, <1>2

LEMMA WireZeroFree == Encoder!IInv => Encoder!ZeroOnlyAtEnd
<1>0. Full \in Nat
  BY CobsAssumption
<1>1. Encoder!IInv => Encoder!ZeroOnlyAtEnd
  <2> SUFFICES ASSUME Encoder!IInv PROVE Encoder!ZeroOnlyAtEnd
    OBVIOUS
  <2>1. CASE epc # "encoded"
    <3>1. wire \in Seq(1 .. Full)
      BY <2>1 DEF Encoder!IInv, Encoder!WireNonZero
    <3>2. \A i \in 1 .. Len(wire) : wire[i] # 0
      BY <1>0, <3>1, ElementOfSeq
    <3> QED
      BY <2>1, <3>2 DEF Encoder!ZeroOnlyAtEnd
  <2>2. CASE epc = "encoded"
    <3>1. PICK blocks \in Seq(1 .. Full) : wire = Append(blocks, 0)
      BY <2>2 DEF Encoder!IInv, Encoder!Terminated
    <3>2. Len(wire) = Len(blocks) + 1 /\ Len(blocks) \in Nat /\ wire[Len(wire)] = 0
      BY <3>1
    <3>3. \A i \in 1 .. Len(blocks) : wire[i] = blocks[i] /\ blocks[i] \in 1 .. Full
      BY <1>0, <3>1, ElementOfSeq
    <3>4. wire # <<>>
      BY <3>2
    <3> QED
      BY <1>0, <2>2, <3>2, <3>3, <3>4 DEF Encoder!ZeroOnlyAtEnd
  <2> QED
    BY <2>1, <2>2
<1> QED
  BY <1>1

(***************************************************************************)
(* The decoder, given any bytes                                            *)
(***************************************************************************)
Decodes == (\E f \in Seq(Byte) : Decoder!Decode(f)) \/ Decoder!Step \/ UNCHANGED receiver

\* A code byte that is not zero leaves at least one to count down.
LEMMA NextTyped ==
  ASSUME Decoder!TypeOK, ~Decoder!AtEnd PROVE Decoder!Next1 \in Byte /\ input + 1 \in 1 .. Len(frame)
BY DEF Decoder!TypeOK, Decoder!AtEnd, Decoder!Next1, Byte, Decoder!Byte

\* Delim.cpp:42-117: the cursors of the in-place decoder.  That the output stays
\* behind the input needs the code byte each block has read and not written; that
\* a block in progress has a positive remainder needs that no code byte is zero.
LEMMA DecoderInvariant ==
  /\ Decoder!Init => Decoder!IInv
  /\ Decoder!IInv /\ Decodes => Decoder!IInv'
<1>0. Full \in Nat /\ Full >= 2
  BY CobsAssumption
<1>1. Decoder!Init => Decoder!IInv
  <2>1. <<>> \in Seq(Byte) /\ Len(<<>>) = 0
    OBVIOUS
  <2>2. 0 \in Byte
    BY <1>0 DEF Byte, Decoder!Byte
  <2>3. <<>> \in [1 .. 0 -> Byte]
    OBVIOUS
  <2> QED
    BY <2>1, <2>2, <2>3
       DEF Decoder!Init, Decoder!IInv, Decoder!TypeOK, Decoder!WriteBehindRead,
           Decoder!UnreadIntact, Decoder!Results, Byte, Decoder!Byte
<1>2. Decoder!IInv /\ Decodes => Decoder!IInv'
  <2> SUFFICES ASSUME Decoder!IInv, Decodes PROVE Decoder!IInv'
    OBVIOUS
  <2> USE <1>0 DEF Decoder!IInv, Decoder!TypeOK, Decoder!WriteBehindRead,
                   Decoder!UnreadIntact, Decoder!AtEnd, Decoder!Stop, Decoder!Results
  <2>0. ~Decoder!AtEnd => Decoder!Next1 \in 0 .. Full /\ input + 1 \in 1 .. Len(frame)
    BY NextTyped DEF Byte, Decoder!Byte
  <2>1. ASSUME NEW f \in Seq(Byte), Decoder!Decode(f) PROVE Decoder!IInv'
    <3>1. f \in [1 .. Len(f) -> Byte] /\ Len(f) \in Nat
      OBVIOUS
    <3> QED
      BY <2>1, <3>1 DEF Decoder!Decode, Byte, Decoder!Byte
  <2>2. CASE Decoder!NoMoreBlocks
    BY <2>2 DEF Decoder!NoMoreBlocks
  <2>3. CASE Decoder!BlockStart
    BY <2>0, <2>3 DEF Decoder!BlockStart, Byte, Decoder!Byte
  <2>4. CASE Decoder!BlockStartZero
    BY <2>0, <2>4 DEF Decoder!BlockStartZero
  <2>5. CASE Decoder!Copy
    BY <2>0, <2>5 DEF Decoder!Copy, Byte, Decoder!Byte
  <2>6. CASE Decoder!DataMissing
    BY <2>6 DEF Decoder!DataMissing
  <2>7. CASE Decoder!DataZero
    BY <2>7 DEF Decoder!DataZero
  <2>8. CASE Decoder!ZeroBetween
    <3>1. /\ output + 1 \in 1 .. input /\ input + 1 \in 1 .. Len(frame)
          /\ buffer' = [buffer EXCEPT ![output + 1] = 0]
      BY <2>0, <2>8 DEF Decoder!ZeroBetween
    <3>2. buffer'[input + 1] = Decoder!Next1
      BY <3>1 DEF Decoder!Next1
    <3> QED
      BY <2>0, <2>8, <3>1, <3>2 DEF Decoder!ZeroBetween, Byte, Decoder!Byte
  <2>9. CASE Decoder!BlockEnd
    BY <2>0, <2>9 DEF Decoder!BlockEnd
  <2>10. CASE Decoder!DelimiterMissing
    BY <2>10 DEF Decoder!DelimiterMissing
  <2>11. CASE Decoder!FullBlockLast
    BY <2>11 DEF Decoder!FullBlockLast
  <2>12. CASE UNCHANGED receiver
    BY <2>12 DEF receiver
  <2> QED
    BY <2>1, <2>2, <2>3, <2>4, <2>5, <2>6, <2>7, <2>8, <2>9, <2>10, <2>11, <2>12
       DEF Decodes, Decoder!Step
<1> QED
  BY <1>1, <1>2

\* COBSResult (Delim.hpp:147-158): every result but UnexpectedZero means that the
\* whole frame was read.
LEMMA DecoderConsumes ==
  /\ Decoder!Init => Decoder!ConsumedFully
  /\ Decoder!ConsumedFully /\ Decodes => Decoder!ConsumedFully'
<1>1. Decoder!Init => Decoder!ConsumedFully
  BY DEF Decoder!Init, Decoder!ConsumedFully
<1>2. Decoder!ConsumedFully /\ Decodes => Decoder!ConsumedFully'
  <2> USE DEF Decoder!ConsumedFully, Decoder!Stop, Decoder!AtEnd
  <2> SUFFICES ASSUME Decoder!ConsumedFully, Decodes PROVE Decoder!ConsumedFully'
    OBVIOUS
  <2>1. ASSUME NEW f \in Seq(Byte), Decoder!Decode(f) PROVE Decoder!ConsumedFully'
    BY <2>1 DEF Decoder!Decode
  <2>2. CASE Decoder!NoMoreBlocks \/ Decoder!BlockStart \/ Decoder!BlockStartZero
    BY <2>2 DEF Decoder!NoMoreBlocks, Decoder!BlockStart, Decoder!BlockStartZero
  <2>3. CASE Decoder!Copy \/ Decoder!DataMissing \/ Decoder!DataZero
    BY <2>3 DEF Decoder!Copy, Decoder!DataMissing, Decoder!DataZero
  <2>4. CASE Decoder!ZeroBetween \/ Decoder!BlockEnd \/ Decoder!DelimiterMissing \/ Decoder!FullBlockLast
    BY <2>4 DEF Decoder!ZeroBetween, Decoder!BlockEnd, Decoder!DelimiterMissing,
                Decoder!FullBlockLast
  <2>5. CASE UNCHANGED receiver
    BY <2>5 DEF receiver
  <2> QED
    BY <2>1, <2>2, <2>3, <2>4, <2>5 DEF Decodes, Decoder!Step
<1> QED
  BY <1>1, <1>2

(***************************************************************************)
(* The two of them                                                         *)
(***************************************************************************)
\* Every round but the last hands out Full - 1 bytes or more, for one overhead byte.
Rounds == Len(wire) - base

OverheadInv ==
  /\ epc = "idle" => message = <<>> /\ wire = <<>> /\ base = 0
  /\ epc = "round" => \/ Rounds * (Full - 1) <= base
                      \/ base = Len(message) /\ (Rounds - 1) * (Full - 1) <= base
  /\ epc = "encoded" => base = Len(message) /\ (Rounds - 2) * (Full - 1) <= base

CodecIInv == Encoder!IInv /\ OverheadInv /\ Decoder!IInv /\ Decoder!ConsumedFully

\* What is on the wire is bytes.
LEMMA WireOfBytes ==
  ASSUME Encoder!IInv, epc \in {"round", "encoded"}
  PROVE  wire \in Seq(Byte)
<1>0. Full \in Nat /\ 1 .. Full \subseteq Byte /\ 0 \in Byte
  BY CobsAssumption DEF Byte
<1>1. CASE epc # "encoded"
  <2>1. wire \in Seq(1 .. Full)
    BY <1>1 DEF Encoder!IInv, Encoder!WireNonZero
  <2> QED
    BY <1>0, <2>1
<1>2. CASE epc = "encoded"
  <2>1. PICK b \in Seq(1 .. Full) : wire = Append(b, 0)
    BY <1>2 DEF Encoder!IInv, Encoder!Terminated
  <2>2. b \in Seq(Byte)
    BY <1>0
  <2> QED
    BY <1>0, <2>1, <2>2
<1> QED
  BY <1>1, <1>2

\* A round that is not the last hands out Full - 1 bytes or more.
LEMMA OverheadStep ==
  ASSUME Encoder!IInv, OverheadInv, Encoder!Next \/ UNCHANGED sender
  PROVE  OverheadInv'
<1>0. /\ Full \in Nat /\ Full >= 2 /\ Len(message) \in Nat
      /\ base \in Nat /\ base <= Len(message) /\ it \in Nat /\ prev_zero_pt \in Int
      /\ prev_zero_pt >= -1 /\ base + it <= Len(message) /\ epc \in {"idle", "round", "encoded"}
  BY CobsAssumption, LenProperties DEF Encoder!IInv, Encoder!TypeOK
<1>1. ASSUME NEW m \in Messages, Encoder!Encode(m) PROVE OverheadInv'
  <2>1. epc' = "round" /\ base' = 0 /\ wire' = <<>>
    BY <1>1 DEF Encoder!Encode
  <2>2. Rounds' = 0
    BY <2>1 DEF Rounds
  <2> QED
    BY <1>0, <2>1, <2>2 DEF OverheadInv
<1>2. CASE Encoder!Scan \/ Encoder!ScanZero
  BY <1>2 DEF Encoder!Scan, Encoder!ScanZero, OverheadInv, Rounds
<1>3. CASE Encoder!EndRound
  <2>1. epc = "round" /\ epc' = "round" /\ message' = message /\ base' = base + it /\ base < Len(message)
    BY <1>3 DEF Encoder!EndRound
  <2>2. wire \in Seq(Byte) /\ Len(wire) \in Nat
    BY <2>1, WireOfBytes
  <2>3. Rounds \in Int /\ Rounds * (Full - 1) <= base
    BY <1>0, <2>1, <2>2 DEF OverheadInv, Rounds
  <2>4. Len(wire') = Len(wire) + 1 + it
    <3>1. Encoder!Patched \in Seq(Byte) /\ Len(Encoder!Patched) = Len(message) /\ Encoder!Overhead \in 1 .. Full
      BY <1>0, RoundNonZero
    <3> DEFINE part == SubSeq(Encoder!Patched, base + 1, base + it)
               one == <<Encoder!Overhead>>
    <3>2. part \in Seq(Byte) /\ Len(part) = it
      BY <1>0, <3>1, SubSeqProperties
    <3>3. one \in Seq(Byte) /\ Len(one) = 1
      BY <1>0, <3>1 DEF Byte
    <3>4. wire' = (wire \o one) \o part
      BY <1>3 DEF Encoder!EndRound
    <3> HIDE DEF part, one
    <3>5. wire \o one \in Seq(Byte) /\ Len(wire \o one) = Len(wire) + 1
      BY <2>2, <3>3, ConcatProperties
    <3>6. Len((wire \o one) \o part) = Len(wire \o one) + Len(part)
      BY <3>2, <3>5, ConcatProperties
    <3> QED
      BY <3>2, <3>4, <3>5, <3>6
  <2>5. Rounds' = Rounds + 1
    BY <1>0, <2>1, <2>2, <2>4 DEF Rounds
  <2>6. CASE base + it = Len(message)
    <3>1. base' = Len(message') /\ Rounds' - 1 = Rounds /\ base <= base'
      BY <1>0, <2>1, <2>3, <2>5, <2>6
    <3>2. (Rounds' - 1) * (Full - 1) <= base'
      <4>1. (Rounds' - 1) * (Full - 1) = Rounds * (Full - 1) /\ Rounds * (Full - 1) \in Int
        BY <1>0, <2>3, <3>1
      <4> QED
        BY <1>0, <2>1, <2>3, <3>1, <4>1
    <3> QED
      BY <2>1, <3>1, <3>2 DEF OverheadInv
  <2>7. CASE base + it # Len(message)
    <3>1. it - prev_zero_pt = Full
      BY <1>3, <2>7 DEF Encoder!EndRound, Encoder!RoundOver, Encoder!Dist
    <3>2. it >= Full - 1
      BY <1>0, <3>1
    <3>3. (Rounds + 1) * (Full - 1) = Rounds * (Full - 1) + (Full - 1) /\ Rounds * (Full - 1) \in Int
      BY <1>0, <2>3, Z3
    <3>4. Rounds' * (Full - 1) <= base'
      BY <1>0, <2>1, <2>3, <2>5, <3>2, <3>3
    <3> QED
      BY <2>1, <3>4 DEF OverheadInv
  <2> QED
    BY <2>6, <2>7
<1>4. CASE Encoder!Terminate
  <2>1. epc = "round" /\ epc' = "encoded" /\ message' = message /\ base' = base
        /\ base = Len(message) /\ wire' = Append(wire, 0)
    BY <1>4 DEF Encoder!Terminate
  <2>2. wire \in Seq(Byte) /\ Len(wire) \in Nat
    BY <2>1, WireOfBytes
  <2>3. Rounds \in Int /\ Rounds' = Rounds + 1
    BY <1>0, <2>1, <2>2 DEF Rounds
  <2>4. (Rounds - 1) * (Full - 1) <= base
    <3>1. CASE Rounds * (Full - 1) <= base
      <4>1. (Rounds - 1) * (Full - 1) = Rounds * (Full - 1) - (Full - 1) /\ Rounds * (Full - 1) \in Int
        BY <1>0, <2>3, Z3
      <4> QED
        BY <1>0, <3>1, <4>1
    <3> QED
      BY <2>1, <3>1 DEF OverheadInv
  <2>5. Rounds' - 2 = Rounds - 1
    BY <2>3
  <2> QED
    BY <2>1, <2>4, <2>5 DEF OverheadInv
<1>5. CASE UNCHANGED sender
  BY <1>5 DEF sender, OverheadInv, Rounds
<1> QED
  BY <1>1, <1>2, <1>3, <1>4, <1>5 DEF Encoder!Next, Encoder!Step

\* Delim.hpp:132-164, Delim.cpp:5-117: what holds in every state of the codec.
THEOREM CodecInvariance == Spec => []CodecIInv
<1>1. Init => CodecIInv
  <2> SUFFICES ASSUME Init PROVE CodecIInv
    OBVIOUS
  <2>1. OverheadInv
    BY DEF Init, Encoder!Init, OverheadInv
  <2> QED
    BY <2>1, EncoderInvariant, DecoderInvariant, DecoderConsumes DEF Init, CodecIInv
<1>2. CodecIInv /\ [Next]_vars => CodecIInv'
  <2> SUFFICES ASSUME CodecIInv, [Next]_vars PROVE CodecIInv'
    OBVIOUS
  <2>1. Encoder!Next \/ UNCHANGED sender
    BY DEF Next, vars, Encode, Encoding, Arrive, Foreign, Decoding, Encoder!Next
  <2>2. Decodes
    <3>1. ASSUME NEW n \in 0 .. Len(wire), Arrive(n) PROVE Decodes
      <4>1. wire \in Seq(Byte)
        BY <3>1, WireOfBytes DEF Arrive, CodecIInv
      <4>2. SubSeq(wire, 1, n) \in Seq(Byte)
        BY <4>1
      <4> QED
        BY <3>1, <4>2 DEF Arrive, Decodes
    <3>2. ASSUME NEW f \in Frames, Foreign(f) PROVE Decodes
      <4>1. f \in Seq(Byte)
        BY FramesAreBytes
      <4> QED
        BY <3>2, <4>1 DEF Foreign, Decodes
    <3>3. CASE Decoding \/ Encoding \/ (\E m \in Messages : Encode(m)) \/ UNCHANGED vars
      BY <3>3 DEF Decoding, Encoding, Encode, vars, Decodes
    <3> QED
      BY <3>1, <3>2, <3>3 DEF Next
  <2>3. Encoder!IInv' /\ OverheadInv'
    BY <2>1, EncoderInvariant, OverheadStep DEF CodecIInv
  <2>4. Decoder!IInv' /\ Decoder!ConsumedFully'
    BY <2>2, DecoderInvariant, DecoderConsumes DEF CodecIInv
  <2> QED
    BY <2>3, <2>4 DEF CodecIInv
<1> QED
  BY <1>1, <1>2, PTL DEF Spec

\* A receiver that splits the stream at its zeros gets whole frames.
THEOREM ZeroFree == Spec => []ZeroOnlyAtEnd
<1>1. CodecIInv => ZeroOnlyAtEnd
  BY WireZeroFree DEF CodecIInv, ZeroOnlyAtEnd
<1> QED
  BY <1>1, CodecInvariance, PTL

\* No write passes the read cursor, whatever the frame holds.
THEOREM InPlaceSafe == Spec => []WriteBehindRead
<1>1. CodecIInv => WriteBehindRead
  BY DEF CodecIInv, Decoder!IInv, WriteBehindRead
<1> QED
  BY <1>1, CodecInvariance, PTL

\* So what has not been read is as it came.
THEOREM NothingClobbered == Spec => []Decoder!UnreadIntact
<1>1. CodecIInv => Decoder!UnreadIntact
  BY DEF CodecIInv, Decoder!IInv
<1> QED
  BY <1>1, CodecInvariance, PTL

\* COBSResult (Delim.hpp:147-158): every result but UnexpectedZero means that the
\* whole frame was read.
THEOREM Consumption == Spec => []Decoder!ConsumedFully
<1>1. CodecIInv => Decoder!ConsumedFully
  BY DEF CodecIInv
<1> QED
  BY <1>1, CodecInvariance, PTL

\* The overhead is one byte for every started block, for every message and block size.
THEOREM OverheadKept == Spec => []OverheadBounded
<1>1. CodecIInv => OverheadBounded
  <2> SUFFICES ASSUME CodecIInv PROVE OverheadBounded
    OBVIOUS
  <2> DEFINE B == Full - 1
             L == Len(message)
             q == L \div B
  <2>0. /\ B \in Nat /\ B >= 1 /\ L \in Nat /\ base \in Nat /\ base <= L
        /\ epc \in {"idle", "round", "encoded"}
    BY CobsAssumption, LenProperties DEF CodecIInv, Encoder!IInv, Encoder!TypeOK
  <2> HIDE DEF B, L
  <2>1. Len(wire) \in Nat
    <3>1. CASE epc = "idle"
      BY <3>1 DEF CodecIInv, OverheadInv
    <3>2. CASE epc # "idle"
      BY <2>0, <3>2, WireOfBytes DEF CodecIInv
    <3> QED
      BY <3>1, <3>2
  <2>2. q \in Nat /\ L < B * (q + 1)
    BY <2>0, Z3
  <2> HIDE DEF q
  <2>3. ASSUME NEW k \in Int, k * B <= L PROVE k <= q
    <3>1. k * B < (q + 1) * B
      BY <2>0, <2>2, <2>3, Z3
    <3>2. k < q + 1
      BY <2>0, <2>2, <3>1, Z3
    <3> QED
      BY <2>2, <3>2
  <2>4. Rounds \in Int /\ Rounds = Len(wire) - base
    BY <2>0, <2>1 DEF Rounds
  <2>5. Rounds - 2 <= q
    <3>1. CASE epc = "idle"
      BY <2>2, <2>4, <3>1 DEF CodecIInv, OverheadInv
    <3>2. CASE epc = "round" /\ Rounds * B <= base
      <4>1. Rounds * B \in Int /\ Rounds * B <= L
        BY <2>0, <2>4, <3>2
      <4>2. Rounds <= q
        BY <2>3, <2>4, <4>1
      <4> QED
        BY <2>2, <2>4, <4>2
    <3>3. CASE epc = "round" /\ base = L /\ (Rounds - 1) * B <= base
      <4>1. Rounds - 1 \in Int /\ (Rounds - 1) * B <= L
        BY <2>4, <3>3
      <4>2. Rounds - 1 <= q
        BY <2>3, <4>1
      <4> QED
        BY <2>2, <2>4, <4>2
    <3>4. CASE epc = "encoded"
      <4>1. Rounds - 2 \in Int /\ (Rounds - 2) * B <= L
        BY <2>4, <3>4 DEF CodecIInv, OverheadInv, B, L
      <4> QED
        BY <2>3, <4>1
    <3> QED
      BY <2>0, <3>1, <3>2, <3>3, <3>4 DEF CodecIInv, OverheadInv, B, L
  <2>6. Len(wire) <= L + q + 2
    BY <2>0, <2>1, <2>2, <2>4, <2>5
  <2> QED
    BY <2>6 DEF OverheadBounded, Encoder!OverheadBounded, L, q, B
<1> QED
  BY <1>1, CodecInvariance, PTL

(***************************************************************************)
(* Decoding inverts encoding                                               *)
(***************************************************************************)

LEMMA RoundFacts ==
  ASSUME Encoder!IInv
  PROVE  /\ Full \in Nat /\ Full >= 2 /\ Len(message) \in Nat /\ base \in Nat /\ it \in Nat
         /\ base <= Len(message) /\ base + it <= Len(message)
         /\ prev_zero_pt \in Int /\ -1 <= prev_zero_pt /\ prev_zero_pt < it
         /\ Encoder!AsByte(Encoder!Dist) = it - prev_zero_pt /\ it - prev_zero_pt \in 1 .. Full
         /\ data \in [1 .. Len(message) -> Byte] /\ message \in Seq(Byte)
<1>1. Full \in Nat /\ Full >= 2
  BY CobsAssumption
<1>2. Len(message) \in Nat
  BY LenProperties DEF Encoder!IInv, Encoder!TypeOK
<1>3. /\ base \in 0 .. Len(message) /\ it \in 0 .. Len(message) - base
      /\ prev_zero_pt \in -1 .. it - 1 /\ it - prev_zero_pt \in 1 .. Full
      /\ data \in [1 .. Len(message) -> Byte] /\ message \in Seq(Byte)
  BY DEF Encoder!IInv, Encoder!TypeOK, Encoder!DistFits, Encoder!Dist, Byte, Encoder!Byte
<1>4. (it - prev_zero_pt) % (Full + 1) = it - prev_zero_pt
  <2> DEFINE d == it - prev_zero_pt
  <2>1. d \in 0 .. Full
    BY <1>1, <1>3
  <2> HIDE DEF d
  <2>2. d % (Full + 1) = d
    BY <1>1, <2>1
  <2> QED
    BY <2>2 DEF d
<1> DEFINE L == Len(message)
<1>5. L \in Nat /\ base \in 0 .. L /\ it \in 0 .. L - base
  BY <1>2, <1>3
<1> HIDE DEF L
<1>6. base \in Nat /\ it \in Nat /\ base <= L /\ base + it <= L
  BY <1>5
<1>7. prev_zero_pt \in Int /\ -1 <= prev_zero_pt /\ prev_zero_pt < it
  BY <1>3, <1>6
<1> QED
  BY <1>1, <1>2, <1>3, <1>4, <1>6, <1>7 DEF Encoder!AsByte, Encoder!Dist, L

\* The codes of a round: before its last distance is written, and after.
Met(k) == k = 0 \/ message[base + k] = 0

NoZero(from, to) == \A j \in from .. to : message[base + j] # 0

Chained(k, code) ==
  /\ code \in 1 .. Full - 1 /\ k + code <= prev_zero_pt + 1
  /\ message[base + k + code] = 0 /\ NoZero(k + 1, k + code - 1)

\* RoundKept in these terms.
LEMMA RoundParts ==
  RoundKept <=>
    (epc = "round" =>
       /\ \A k \in 1 .. Len(message) - base :
             k > it \/ message[base + k] # 0 => data[base + k] = message[base + k]
       /\ prev_zero_pt # -1 => message[base + prev_zero_pt + 1] = 0
       /\ NoZero(prev_zero_pt + 2, it)
       /\ \A k \in 0 .. prev_zero_pt : Met(k) => Chained(k, Code(k)))
BY DEF RoundKept, Chained, NoZero, Met

\* What Patched and Overhead make of the code of the open distance.
LEMMA LastDistance ==
  ASSUME Encoder!IInv
  PROVE  /\ prev_zero_pt = -1 => Encoder!Patched = data /\ Encoder!Overhead = it - prev_zero_pt
         /\ prev_zero_pt # -1 =>
              /\ Encoder!Overhead = beg_byte
              /\ Encoder!Patched[base + prev_zero_pt + 1] = it - prev_zero_pt
         /\ \A k \in 1 .. Len(message) - base :
              k # prev_zero_pt + 1 => Encoder!Patched[base + k] = data[base + k]
         /\ Encoder!Patched \in [1 .. Len(message) -> Byte]
<1> DEFINE d == it - prev_zero_pt
           L == Len(message)
           z == prev_zero_pt
<1>1. /\ L \in Nat /\ base \in Nat /\ z \in Int /\ -1 <= z /\ base + z + 1 <= L
      /\ data \in [1 .. L -> Byte]
  BY RoundFacts
<1>2. /\ Encoder!Patched = IF z = -1 THEN data ELSE [data EXCEPT ![base + z + 1] = d]
      /\ Encoder!Overhead = IF z = -1 THEN d ELSE beg_byte
  BY RoundFacts DEF Encoder!Patched, Encoder!Overhead
<1>3. Encoder!Patched \in [1 .. L -> Byte]
  BY RoundNonZero
<1> DEFINE P == Encoder!Patched
<1> HIDE DEF d, L, z, P
<1>4. ASSUME z # -1 PROVE P[base + z + 1] = d
  <2>1. base + z + 1 \in 1 .. L
    BY <1>1, <1>4
  <2> QED
    BY <1>1, <1>2, <1>4, <2>1 DEF P
<1>5. ASSUME NEW k \in 1 .. L - base, k # z + 1 PROVE P[base + k] = data[base + k]
  <2>1. base + k \in 1 .. L /\ base + k # base + z + 1
    BY <1>1, <1>5
  <2> QED
    BY <1>1, <1>2, <2>1 DEF P
<1> QED
  BY <1>2, <1>3, <1>4, <1>5 DEF d, L, z, P

\* Scanning keeps the chain.
LEMMA ScanKeeps ==
  ASSUME Encoder!IInv, RoundKept, Encoder!Scan PROVE RoundKept'
<1>1. /\ epc = "round" /\ base + it < Len(message) /\ data[base + it + 1] # 0 /\ it' = it + 1
      /\ UNCHANGED <<message, data, base, prev_zero_pt, beg_byte, epc>>
  BY RoundFacts DEF Encoder!Scan, Encoder!RoundOver
<1>2. message[base + it + 1] # 0
  <2>0. Len(message) \in Nat /\ base \in Nat /\ it \in Nat
    BY RoundFacts
  <2>1. it + 1 \in 1 .. Len(message) - base /\ it + 1 > it /\ base + (it + 1) = base + it + 1
    BY <1>1, <2>0
  <2>2. data[base + (it + 1)] = message[base + (it + 1)]
    BY <1>1, <2>1 DEF RoundKept
  <2> QED
    BY <1>1, <2>1, <2>2
<1>3. \A k \in prev_zero_pt + 2 .. it + 1 : message[base + k] # 0
  <2> TAKE k \in prev_zero_pt + 2 .. it + 1
  <2>1. k \in prev_zero_pt + 2 .. it \/ k = it + 1
    BY RoundFacts
  <2>2. base + (it + 1) = base + it + 1
    BY RoundFacts
  <2> QED
    BY <1>1, <1>2, <2>1, <2>2 DEF RoundKept
<1>4. \A k \in 1 .. Len(message) - base :
        k > it + 1 \/ message[base + k] # 0 => data[base + k] = message[base + k]
  <2> TAKE k \in 1 .. Len(message) - base
  <2>1. k > it + 1 => k > it
    BY RoundFacts
  <2> QED
    BY <1>1, <2>1 DEF RoundKept
<1> QED
  BY <1>1, <1>3, <1>4 DEF RoundKept, Code

\* A zero closes the open distance and opens the next.
LEMMA ScanZeroKeeps ==
  ASSUME Encoder!IInv, RoundKept, Encoder!ScanZero PROVE RoundKept'
<1> DEFINE z == prev_zero_pt
           d == it - z
<1>1. /\ epc = "round" /\ base + it < Len(message) /\ data[base + it + 1] = 0
      /\ it' = it + 1 /\ prev_zero_pt' = it /\ data' = Encoder!Patched
      /\ beg_byte' = Encoder!Overhead /\ UNCHANGED <<message, base, epc>>
      /\ d # Full
  BY RoundFacts DEF Encoder!ScanZero, Encoder!RoundOver, Encoder!Dist
<1>2. /\ Full \in Nat /\ Full >= 2 /\ Len(message) \in Nat /\ base \in Nat /\ it \in Nat
      /\ z \in Int /\ -1 <= z /\ z < it /\ d \in 1 .. Full - 1
  BY <1>1, RoundFacts
<1>3. /\ \A k \in 1 .. Len(message) - base :
             k > it \/ message[base + k] # 0 => data[base + k] = message[base + k]
      /\ z # -1 => message[base + z + 1] = 0
      /\ NoZero(z + 2, it)
      /\ \A k \in 0 .. z : Met(k) => Chained(k, Code(k))
  BY <1>1, RoundParts
<1>4. message[base + it + 1] = 0
  <2>1. it + 1 \in 1 .. Len(message) - base /\ it + 1 > it /\ base + (it + 1) = base + it + 1
    BY <1>1, <1>2
  <2> QED
    BY <1>1, <1>3, <2>1
<1>5. \A k \in 1 .. Len(message) - base :
        k > it + 1 \/ message[base + k] # 0 => data'[base + k] = message[base + k]
  <2> SUFFICES ASSUME NEW k \in 1 .. Len(message) - base, k > it + 1 \/ message[base + k] # 0
               PROVE  Encoder!Patched[base + k] = message[base + k]
    BY <1>1
  <2>1. k # z + 1
    <3>1. CASE k > it + 1
      BY <1>2, <3>1
    <3>2. CASE message[base + k] # 0
      <4>1. CASE z = -1
        BY <1>2, <4>1
      <4>2. CASE z # -1
        <5>1. base + (z + 1) = base + z + 1
          BY <1>2
        <5> QED
          BY <1>3, <3>2, <4>2, <5>1
      <4> QED
        BY <4>1, <4>2
    <3> QED
      BY <3>1, <3>2
  <2>2. k > it \/ message[base + k] # 0
    BY <1>2
  <2> QED
    BY <1>3, <2>1, <2>2, LastDistance
\* The zero before it, or the overhead byte, now has its code.
<1>6. ASSUME NEW k \in 0 .. it, Met(k)
      PROVE  /\ Code(k)' \in 1 .. Full - 1 /\ k + Code(k)' <= it + 1
             /\ message[base + k + Code(k)'] = 0 /\ NoZero(k + 1, k + Code(k)' - 1)
  <2>1. CASE k = z + 1
    <3>1. Code(k)' = d
      <4>1. CASE z = -1
        <5>1. k = 0
          BY <2>1, <4>1
        <5> QED
          BY <1>1, <4>1, <5>1, LastDistance DEF Code
      <4>2. CASE z # -1
        <5>1. k # 0 /\ base + k = base + z + 1
          BY <1>2, <2>1, <4>2
        <5> QED
          BY <1>1, <4>2, <5>1, LastDistance DEF Code
      <4> QED
        BY <4>1, <4>2
    <3>2. k + d = it + 1 /\ base + k + d = base + it + 1 /\ k + 1 = z + 2 /\ k + d - 1 = it
      BY <1>2, <2>1
    <3> HIDE DEF d
    <3> QED
      BY <1>2, <1>3, <1>4, <3>1, <3>2
  <2>2. CASE k # z + 1
    <3>1. k <= z
      <4>1. CASE k \in z + 2 .. it
        <5>1. k # 0
          BY <1>2, <4>1
        <5> QED
          BY <1>3, <1>6, <4>1, <5>1 DEF NoZero, Met
      <4> QED
        BY <1>2, <1>6, <2>2, <4>1
    <3>2. z # -1 /\ k \in 0 .. z
      BY <1>2, <1>6, <3>1
    <3>3. Chained(k, Code(k))
      BY <1>3, <1>6, <3>2
    <3>4. Code(k)' = Code(k)
      <4>1. CASE k = 0
        BY <1>1, <3>2, <4>1, LastDistance DEF Code
      <4>2. CASE k # 0
        <5>1. k \in 1 .. Len(message) - base
          BY <1>1, <1>2, <3>2, <4>2
        <5> QED
          BY <1>1, <2>2, <4>2, <5>1, LastDistance DEF Code
      <4> QED
        BY <4>1, <4>2
    <3> DEFINE c == Code(k)
    <3>5. c \in Int /\ k + c <= z + 1
      BY <1>2, <3>3 DEF Chained
    <3> HIDE DEF c
    <3>6. k + c <= it + 1
      BY <1>2, <1>6, <3>5
    <3> QED
      BY <3>3, <3>4, <3>6 DEF Chained, c
  <2> QED
    BY <2>1, <2>2
<1>7. message[base + it + 1] = 0 /\ NoZero(it + 2, it + 1)
  BY <1>2, <1>4 DEF NoZero
<1> QED
  BY <1>1, <1>5, <1>6, <1>7 DEF RoundKept, Met, NoZero

FinalCode(k) == IF k = 0 THEN Encoder!Overhead ELSE Encoder!Patched[base + k]

Closed(k, code) ==
  /\ code \in 1 .. Full /\ k + code <= it + 1
  /\ NoZero(k + 1, k + code - 1)
  /\ k + code <= it => message[base + k + code] = 0 /\ code # Full
  /\ k + code = it + 1 => code = Full \/ base + it = Len(message)

\* When a round ends every code of it is the distance to the next one or to the end.
LEMMA RoundCloses ==
  ASSUME Encoder!IInv, RoundKept, Encoder!EndRound
  PROVE  /\ \A k \in 1 .. it : ~Met(k) => FinalCode(k) = message[base + k]
         /\ \A k \in 0 .. it : Met(k) => Closed(k, FinalCode(k))
         /\ it >= 1
<1> DEFINE z == prev_zero_pt
           d == it - z
<1>1. /\ epc = "round" /\ base < Len(message) /\ (base + it = Len(message) \/ d = Full)
  BY DEF Encoder!EndRound, Encoder!RoundOver, Encoder!Dist
<1>2. /\ Full \in Nat /\ Full >= 2 /\ Len(message) \in Nat /\ base \in Nat /\ it \in Nat
      /\ z \in Int /\ -1 <= z /\ z < it /\ d \in 1 .. Full /\ base + it <= Len(message)
  BY RoundFacts
<1>3. /\ \A k \in 1 .. Len(message) - base :
             k > it \/ message[base + k] # 0 => data[base + k] = message[base + k]
      /\ z # -1 => message[base + z + 1] = 0
      /\ NoZero(z + 2, it)
      /\ \A k \in 0 .. z : Met(k) => Chained(k, Code(k))
  BY <1>1, RoundParts
<1>4. ASSUME NEW k \in 1 .. it, ~Met(k) PROVE FinalCode(k) = message[base + k]
  <2>1. k # 0 /\ k \in 1 .. Len(message) - base
    BY <1>2
  <2>2. k # z + 1
    <3>1. CASE z = -1
      BY <1>2, <3>1
    <3>2. CASE z # -1
      <4>1. base + (z + 1) = base + z + 1
        BY <1>2
      <4> QED
        BY <1>3, <1>4, <3>2, <4>1 DEF Met
    <3> QED
      BY <3>1, <3>2
  <2> QED
    BY <1>3, <1>4, <2>1, <2>2, LastDistance DEF FinalCode, Met
<1>5. ASSUME NEW k \in 0 .. it, Met(k) PROVE Closed(k, FinalCode(k))
  <2>1. CASE k = z + 1
    <3>1. FinalCode(k) = d
      <4>1. CASE z = -1
        <5>1. k = 0
          BY <2>1, <4>1
        <5> QED
          BY <4>1, <5>1, LastDistance DEF FinalCode
      <4>2. CASE z # -1
        <5>1. k # 0 /\ base + k = base + z + 1
          BY <1>2, <2>1, <4>2
        <5> QED
          BY <4>2, <5>1, LastDistance DEF FinalCode
      <4> QED
        BY <4>1, <4>2
    <3>2. k + d = it + 1 /\ k + 1 = z + 2 /\ k + d - 1 = it /\ ~(k + d <= it)
      BY <1>2, <2>1
    <3>3. d \in 1 .. Full /\ (d = Full \/ base + it = Len(message))
      BY <1>1, <1>2
    <3> HIDE DEF d
    <3>4. k + d <= it + 1
      BY <1>2, <3>2
    <3> QED
      BY <1>3, <3>1, <3>2, <3>3, <3>4 DEF Closed
  <2>2. CASE k # z + 1
    <3>1. k <= z
      <4>1. CASE k \in z + 2 .. it
        <5>1. k # 0
          BY <1>2, <4>1
        <5> QED
          BY <1>3, <1>5, <4>1, <5>1 DEF NoZero, Met
      <4> QED
        BY <1>2, <1>5, <2>2, <4>1
    <3>2. z # -1 /\ k \in 0 .. z
      BY <1>2, <1>5, <3>1
    <3>3. Chained(k, Code(k))
      BY <1>3, <1>5, <3>2
    <3>4. FinalCode(k) = Code(k)
      <4>1. CASE k = 0
        BY <3>2, <4>1, LastDistance DEF Code, FinalCode
      <4>2. CASE k # 0
        <5>1. k \in 1 .. Len(message) - base
          BY <1>2, <1>5, <3>2, <4>2
        <5> QED
          BY <2>2, <4>2, <5>1, LastDistance DEF Code, FinalCode
      <4> QED
        BY <4>1, <4>2
    <3> DEFINE c == Code(k)
    <3>5. c \in 1 .. Full - 1 /\ k + c <= z + 1
      BY <1>2, <3>3 DEF Chained
    <3> HIDE DEF c
    <3>6. k + c <= it /\ k + c <= it + 1 /\ k + c # it + 1 /\ c \in 1 .. Full /\ c # Full
      BY <1>2, <1>5, <3>5
    <3>7. message[base + k + c] = 0 /\ NoZero(k + 1, k + c - 1)
      BY <3>3 DEF Chained, c
    <3> QED
      BY <3>4, <3>6, <3>7 DEF Closed, c
  <2> QED
    BY <2>1, <2>2
<1>6. it >= 1
  <2>1. CASE base + it = Len(message)
    BY <1>1, <1>2, <2>1
  <2>2. CASE d = Full
    BY <1>2, <2>2
  <2> QED
    BY <1>1, <2>1, <2>2
<1> QED
  BY <1>4, <1>5, <1>6

\* A round puts its codes and its bytes behind what is on the wire.
LEMMA RoundOnWire ==
  ASSUME Encoder!IInv, Encoder!EndRound
  PROVE  /\ Len(wire) \in Nat /\ Len(wire') = Len(wire) + 1 + it
         /\ \A i \in 1 .. Len(wire) : wire'[i] = wire[i]
         /\ \A k \in 0 .. it : wire'[Len(wire) + 1 + k] = FinalCode(k)
<1> DEFINE one == <<Encoder!Overhead>>
           part == SubSeq(Encoder!Patched, base + 1, base + it)
           n == Len(wire)
<1>1. wire \in Seq(1 .. Full) /\ wire' = (wire \o one) \o part
  BY DEF Encoder!EndRound, Encoder!IInv, Encoder!WireNonZero
<1>2. n \in Nat /\ it \in Nat /\ base \in Nat /\ Len(message) \in Nat /\ base + it <= Len(message)
      /\ Full \in Nat
  BY <1>1, RoundFacts
<1>3. one \in Seq(1 .. Full) /\ Len(one) = 1 /\ one[1] = Encoder!Overhead
  BY RoundNonZero
<1>4. part \in Seq(1 .. Full) /\ Len(part) = it
      /\ \A k \in 1 .. it : part[k] = Encoder!Patched[base + k]
  <2> DEFINE P == Encoder!Patched
             B == base
             I == it
  <2>1. P \in Seq(Byte) /\ Len(P) = Len(message)
    BY <1>2, RoundNonZero
  <2>2. \A i \in B + 1 .. B + I : P[i] \in 1 .. Full
    BY RoundNonZero
  <2>3. B \in Nat /\ I \in Nat /\ B + I <= Len(P)
    BY <1>2, <2>1
  <2> HIDE DEF P, B, I
  <2> DEFINE r == SubSeq(P, B + 1, B + I)
  <2>5. r \in Seq(Byte) /\ Len(r) = I /\ \A k \in 1 .. I : r[k] = P[B + k]
    BY <2>1, <2>3, PartOf
  <2>6. \A k \in 1 .. I : B + k \in B + 1 .. B + I
    BY <2>3
  <2> HIDE DEF r
  <2>7. \A k \in 1 .. I : r[k] \in 1 .. Full
    BY <2>2, <2>5, <2>6
  <2>8. r \in Seq(1 .. Full)
    BY <2>5, <2>7, SeqOfFewer
  <2> QED
    BY <2>5, <2>8 DEF r, P, B, I
<1> HIDE DEF one, part, n
<1> DEFINE w == wire \o one
<1>5. /\ w \in Seq(1 .. Full) /\ Len(w) = n + 1 /\ w[n + 1] = Encoder!Overhead
      /\ \A i \in 1 .. n : w[i] = wire[i]
  <2>1. /\ w \in Seq(1 .. Full) /\ Len(w) = Len(wire) + Len(one)
        /\ \A i \in 1 .. Len(wire) + Len(one) :
             w[i] = IF i <= Len(wire) THEN wire[i] ELSE one[i - Len(wire)]
    BY <1>1, <1>3, ConcatProperties
  <2>2. /\ n + 1 \in 1 .. n + 1 /\ ~(n + 1 <= n) /\ n + 1 - n = 1
    BY <1>2
  <2>3. \A i \in 1 .. n + 1 : w[i] = IF i <= n THEN wire[i] ELSE one[i - n]
    BY <1>3, <2>1 DEF n
  <2> HIDE DEF w
  <2> QED
    BY <1>2, <1>3, <2>1, <2>2, <2>3 DEF n
<1> HIDE DEF w
<1>6. /\ Len(wire') = n + 1 + it
      /\ \A i \in 1 .. n + 1 + it :
           wire'[i] = IF i <= n + 1 THEN w[i] ELSE part[i - (n + 1)]
  <2>1. /\ Len(w \o part) = Len(w) + Len(part)
        /\ \A i \in 1 .. Len(w) + Len(part) :
             (w \o part)[i] = IF i <= Len(w) THEN w[i] ELSE part[i - Len(w)]
    BY <1>4, <1>5, ConcatProperties
  <2>2. wire' = w \o part
    BY <1>1 DEF w
  <2> QED
    BY <1>2, <1>4, <1>5, <2>1, <2>2
<1>7. ASSUME NEW i \in 1 .. n PROVE wire'[i] = wire[i]
  <2>1. i \in 1 .. n + 1 + it /\ i <= n + 1
    BY <1>2
  <2> QED
    BY <1>5, <1>6, <2>1
<1>8. ASSUME NEW k \in 0 .. it PROVE wire'[n + 1 + k] = FinalCode(k)
  <2>1. CASE k = 0
    <3>1. n + 1 + k = n + 1 /\ n + 1 \in 1 .. n + 1 + it /\ n + 1 <= n + 1
      BY <1>2, <2>1
    <3> QED
      BY <1>5, <1>6, <2>1, <3>1 DEF FinalCode
  <2>2. CASE k # 0
    <3> DEFINE j == n + 1 + k
    <3>1. j \in 1 .. n + 1 + it /\ ~(j <= n + 1) /\ j - (n + 1) = k /\ k \in 1 .. it
      BY <1>2, <2>2
    <3> HIDE DEF j
    <3>2. wire'[j] = part[k]
      BY <1>6, <3>1
    <3> QED
      BY <1>4, <2>2, <3>1, <3>2 DEF j, FinalCode
  <2> QED
    BY <2>1, <2>2
<1> QED
  BY <1>2, <1>6, <1>7, <1>8 DEF n

\* A layout of what is on the wire, and a round, make a layout of both.
LEMMA RoundLaid ==
  ASSUME Encoder!IInv, RoundKept, Encoder!EndRound,
         NEW p \in [Nat -> Nat], NEW C \in SUBSET Nat, BytesLaid(p, C), CodesChained(p, C),
         NEW q \in [Nat -> Nat], NEW D,
         \A i \in 0 .. Len(wire) : q[i] = p[i],
         \A k \in 0 .. it : q[Len(wire) + 1 + k] = base + k,
         D = C \union {Len(wire) + 1 + k : k \in {k \in 0 .. it : Met(k)}}
  PROVE  BytesLaid(q, D)' /\ CodesChained(q, D)'
<1> DEFINE n == Len(wire)
           N == n + 1 + it
           L == Len(message)
<1>0. /\ epc = "round" /\ epc' = "round" /\ message' = message /\ base' = base + it /\ base < L
  BY DEF Encoder!EndRound
<1>1. /\ n \in Nat /\ it \in Nat /\ base \in Nat /\ it >= 1 /\ L \in Nat
      /\ Body = n /\ Body' = N /\ Full \in Nat /\ Full >= 2
  BY <1>0, RoundOnWire, RoundFacts, RoundCloses DEF Body
<1>2. /\ \A i \in 1 .. n : wire'[i] = wire[i]
      /\ \A k \in 0 .. it : wire'[n + 1 + k] = FinalCode(k)
  BY RoundOnWire
<1>3. /\ \A k \in 1 .. it : ~Met(k) => FinalCode(k) = message[base + k]
      /\ \A k \in 0 .. it : Met(k) => Closed(k, FinalCode(k))
  BY RoundCloses
<1>4. /\ \A i \in 0 .. n : q[i] = p[i] /\ p[i] \in Nat
      /\ \A k \in 0 .. it : q[n + 1 + k] = base + k
  <2> HIDE DEF N, L
  <2>1. ASSUME NEW i \in 0 .. n PROVE p[i] \in Nat
    <3>1. i \in Nat
      BY <1>1
    <3> HIDE DEF n
    <3> QED
      BY <3>1
  <2>2. \A i \in 0 .. n : q[i] = p[i]
    OBVIOUS
  <2>3. \A k \in 0 .. it : q[n + 1 + k] = base + k
    OBVIOUS
  <2> QED
    BY <2>1, <2>2, <2>3
<1>5. /\ p[0] = 0 /\ p[n] = base /\ \A i \in 0 .. n : p[i] <= base
      /\ \A i \in 1 .. n : ByteLaid(p, C, i)
      /\ C \subseteq 1 .. n /\ (n > 0 => 1 \in C /\ p[1] = 0 /\ base > 0)
      /\ \A i \in C : CodeChained(p, C, i)
  BY <1>1 DEF BytesLaid, CodesChained
<1>6. /\ \A i \in 1 .. n : i \in D <=> i \in C
      /\ \A k \in 0 .. it : n + 1 + k \in D <=> Met(k)
      /\ D \subseteq 1 .. N
  <2>0. \A i : i \in D <=> i \in C \/ \E k \in 0 .. it : Met(k) /\ i = n + 1 + k
    OBVIOUS
  <2> HIDE DEF n, L
  <2>1. ASSUME NEW k \in 0 .. it PROVE n + 1 + k \notin 1 .. n /\ n + 1 + k \in 1 .. N
    BY <1>1
  <2>2. ASSUME NEW k \in 0 .. it, NEW h \in 0 .. it, n + 1 + k = n + 1 + h PROVE k = h
    BY <1>1, <2>2
  <2>3. \A i \in 1 .. n : i \in 1 .. N
    BY <1>1
  <2> HIDE DEF N
  <2>4. \A i \in 1 .. n : i \in D <=> i \in C
    BY <2>0, <2>1
  <2>5. ASSUME NEW k \in 0 .. it PROVE n + 1 + k \in D <=> Met(k)
    <3>1. n + 1 + k \notin C
      BY <1>5, <2>1
    <3>2. ASSUME n + 1 + k \in D PROVE Met(k)
      <4>1. PICK h \in 0 .. it : Met(h) /\ n + 1 + k = n + 1 + h
        BY <2>0, <3>1, <3>2
      <4> QED
        BY <2>2, <4>1
    <3> QED
      BY <2>0, <3>2
  <2>6. ASSUME NEW i \in D PROVE i \in 1 .. N
    <3>1. CASE i \in C
      BY <1>5, <2>3, <3>1
    <3>2. CASE i \notin C
      <4>1. PICK k \in 0 .. it : i = n + 1 + k
        BY <2>0, <2>6, <3>2
      <4> QED
        BY <2>1, <4>1
    <3> QED
      BY <3>1, <3>2
  <2> QED
    BY <2>4, <2>5, <2>6
<1> HIDE DEF n, N, L
<1>7. /\ N = n + 1 + it /\ \A i \in 1 .. N : i \in 1 .. n \/ \E k \in 0 .. it : i = n + 1 + k
  <2>1. N = n + 1 + it
    BY DEF N
  <2>2. ASSUME NEW i \in 1 .. N, i \notin 1 .. n PROVE i - (n + 1) \in 0 .. it /\ i = n + 1 + (i - (n + 1))
    BY <1>1, <2>1, <2>2
  <2> QED
    BY <2>1, <2>2
<1>8. BytesLaid(q, D)'
  <2>1. q[0] = 0 /\ q[N] = base + it
    <3>1. 0 \in 0 .. n /\ it \in 0 .. it
      BY <1>1
    <3> QED
      BY <1>4, <1>5, <1>7, <3>1
  <2>2. ASSUME NEW i \in 0 .. N PROVE q[i] <= base + it
    <3>1. CASE i \in 0 .. n
      BY <1>1, <1>4, <1>5, <3>1
    <3>2. CASE i \notin 0 .. n
      <4>1. PICK k \in 0 .. it : i = n + 1 + k
        BY <1>1, <1>7, <3>2
      <4>2. q[i] = base + k
        BY <1>4, <4>1
      <4>3. base + k <= base + it
        BY <1>1, <4>1
      <4> QED
        BY <4>2, <4>3
    <3> QED
      BY <3>1, <3>2
  <2>3. ASSUME NEW i \in 1 .. N PROVE ByteLaid(q, D, i)'
    <3>1. CASE i \in 1 .. n
      <4>1. i \in 0 .. n /\ i - 1 \in 0 .. n
        BY <1>1, <3>1
      <4>2. q[i] = p[i] /\ q[i - 1] = p[i - 1] /\ (i \in D <=> i \in C) /\ wire'[i] = wire[i]
        BY <1>2, <1>4, <1>6, <3>1, <4>1
      <4>3. ByteLaid(p, C, i)
        BY <1>5, <3>1
      <4> QED
        BY <1>0, <4>2, <4>3 DEF ByteLaid
    <3>2. CASE i \notin 1 .. n
      <4>1. PICK k \in 0 .. it : i = n + 1 + k
        BY <1>7, <3>2
      <4>2. q[i] = base + k /\ (i \in D <=> Met(k)) /\ wire'[i] = FinalCode(k)
        BY <1>2, <1>4, <1>6, <4>1
      <4>3. CASE k = 0
        <5>1. i - 1 = n /\ n \in 0 .. n /\ base + k = base
          BY <1>1, <4>1, <4>3
        <5>2. q[i - 1] = base /\ q[i] = base /\ i \in D
          BY <1>4, <1>5, <4>2, <4>3, <5>1 DEF Met
        <5> QED
          BY <5>2 DEF ByteLaid
      <4>4. CASE k # 0
        <5>0. k \in 1 .. it
          BY <1>1, <4>1, <4>4
        <5>1. k - 1 \in 0 .. it /\ i - 1 = n + 1 + (k - 1) /\ base + k = (base + (k - 1)) + 1
          BY <1>1, <4>1, <5>0
        <5>2. q[i - 1] = base + (k - 1)
          BY <1>4, <5>1
        <5>3. q[i] = q[i - 1] + 1
          BY <4>2, <5>1, <5>2
        <5>4. Met(k) <=> message[base + k] = 0
          BY <4>4 DEF Met
        <5>5. i \notin D => wire'[i] = message[base + k]
          BY <1>3, <4>2, <5>0
        <5> QED
          BY <1>0, <4>2, <5>3, <5>4, <5>5 DEF ByteLaid
      <4> QED
        BY <4>3, <4>4
    <3> QED
      BY <3>1, <3>2
  <2> QED
    BY <1>0, <1>1, <2>1, <2>2, <2>3 DEF BytesLaid
<1>9. ASSUME NEW i \in D PROVE CodeChained(q, D, i)'
  <2>1. CASE i \in 1 .. n
    <3> DEFINE c == wire[i]
               e == i + c
    <3>1. wire'[i] = c /\ i \in C /\ CodeChained(p, C, i)
      BY <1>2, <1>5, <1>6, <2>1
    <3>2. /\ c \in 1 .. Full /\ e <= n + 1 /\ \A j \in i + 1 .. e - 1 : j \notin C
          /\ e <= n => e \in C /\ (p[e] = p[e - 1] <=> c = Full)
          /\ e = n + 1 => c = Full \/ base = Len(message)
      BY <1>1, <3>1 DEF CodeChained, NextCode
    <3>3. NextCode(i)' = e
      BY <3>1 DEF NextCode
    <3> HIDE DEF c, e
    <3>4. e \in Nat /\ e >= 1 /\ e <= N + 1 /\ e # N + 1
      <4>1. e = i + c
        BY DEF e
      <4> QED
        BY <1>1, <1>7, <2>1, <3>2, <4>1
    <3>5. ASSUME NEW j \in i + 1 .. e - 1 PROVE j \notin D
      <4>1. j \in 1 .. n
        BY <1>1, <2>1, <3>2, <3>4
      <4> QED
        BY <1>6, <3>2, <4>1
    <3>6. ASSUME e <= N PROVE e \in D /\ (q[e] = q[e - 1] <=> c = Full)
      <4>1. CASE e <= n
        <5>1. e \in 1 .. n /\ e \in 0 .. n /\ e - 1 \in 0 .. n
          BY <1>1, <3>4, <4>1
        <5> QED
          BY <1>4, <1>6, <3>2, <4>1, <5>1
      <4>2. CASE e = n + 1
        <5>1. 0 \in 0 .. it /\ n + 1 + 0 = n + 1 /\ n \in 0 .. n /\ e - 1 = n /\ base + 0 = base
          BY <1>1, <4>2
        <5>2. e \in D
          BY <1>6, <4>2, <5>1 DEF Met
        <5>3. q[e] = base /\ q[e - 1] = base
          BY <1>4, <1>5, <4>2, <5>1
        <5>4. c = Full
          BY <1>0, <1>1, <3>2, <4>2 DEF L
        <5> QED
          BY <5>2, <5>3, <5>4
      <4> QED
        BY <1>1, <3>2, <3>4, <4>1, <4>2
    <3> QED
      BY <1>1, <3>1, <3>2, <3>3, <3>4, <3>5, <3>6 DEF CodeChained
  <2>2. CASE i \notin 1 .. n
    <3>1. PICK k \in 0 .. it : i = n + 1 + k
      BY <1>6, <1>7, <2>2
    <3> DEFINE c == FinalCode(k)
               e == i + c
               m == k + c
    <3>2. wire'[i] = c /\ Closed(k, c)
      BY <1>2, <1>3, <1>6, <3>1
    <3>3. /\ c \in 1 .. Full /\ m <= it + 1 /\ NoZero(k + 1, m - 1)
          /\ m <= it => message[base + k + c] = 0 /\ c # Full
          /\ m = it + 1 => c = Full \/ base + it = Len(message)
      BY <3>2 DEF Closed
    <3>4. NextCode(i)' = e
      BY <3>2 DEF NextCode
    <3>5. e = i + c /\ m = k + c
      OBVIOUS
    <3> HIDE DEF c, e, m
    <3>6. /\ e = n + 1 + m /\ m \in 1 .. it + 1 /\ e <= N + 1 /\ (e <= N <=> m <= it)
          /\ (e = N + 1 <=> m = it + 1)
      BY <1>1, <1>7, <3>1, <3>3, <3>5
    <3>7. ASSUME NEW j \in i + 1 .. e - 1 PROVE j \notin D
      <4> DEFINE h == j - (n + 1)
      <4>1. h \in k + 1 .. m - 1 /\ h \in 1 .. it /\ j = n + 1 + h /\ h \in 0 .. it
        BY <1>1, <3>1, <3>6, <3>7
      <4> HIDE DEF h
      <4>2. ~Met(h)
        <5>1. h # 0
          BY <4>1
        <5>2. message[base + h] # 0
          BY <3>3, <4>1 DEF NoZero
        <5> QED
          BY <5>1, <5>2 DEF Met
      <4> QED
        BY <1>6, <4>1, <4>2
    <3>8. ASSUME e <= N PROVE e \in D /\ (q[e] = q[e - 1] <=> c = Full)
      <4>1. m \in 1 .. it /\ m \in 0 .. it /\ m - 1 \in 0 .. it /\ e - 1 = n + 1 + (m - 1)
            /\ base + m = base + k + c /\ base + m # base + (m - 1)
        BY <1>1, <3>1, <3>3, <3>5, <3>6, <3>8
      <4>2. message[base + m] = 0 /\ c # Full
        BY <3>3, <4>1
      <4>3. e \in D
        BY <1>6, <3>6, <4>1, <4>2 DEF Met
      <4>4. q[e] = base + m /\ q[e - 1] = base + (m - 1)
        BY <1>4, <3>6, <4>1
      <4> QED
        BY <4>1, <4>2, <4>3, <4>4
    <3> QED
      BY <1>0, <1>1, <3>2, <3>3, <3>4, <3>6, <3>7, <3>8 DEF CodeChained
  <2> QED
    BY <2>1, <2>2
<1>10. 1 \in D /\ q[1] = 0 /\ base + it > 0
  <2>1. CASE n = 0
    <3>1. 1 = n + 1 + 0 /\ 0 \in 0 .. it /\ base + 0 = base
      BY <1>1, <2>1
    <3>2. 1 \in D /\ q[1] = base /\ base = 0
      <4>1. Met(0)
        BY DEF Met
      <4> QED
        BY <1>4, <1>5, <1>6, <2>1, <3>1, <4>1
    <3> QED
      BY <1>1, <3>2
  <2>2. CASE n # 0
    <3>1. 1 \in 0 .. n /\ 1 \in 1 .. n /\ n > 0
      BY <1>1, <2>2
    <3> QED
      BY <1>1, <1>4, <1>5, <1>6, <3>1
  <2> QED
    BY <2>1, <2>2
<1>11. CodesChained(q, D)'
  BY <1>0, <1>1, <1>6, <1>9, <1>10 DEF CodesChained
<1> QED
  BY <1>8, <1>11

\* The rest of the message is still what the caller gave.
LEMMA RoundRestarts ==
  ASSUME Encoder!IInv, RoundKept, Encoder!EndRound PROVE RoundKept'
<1>1. /\ epc = "round" /\ epc' = "round" /\ message' = message /\ base' = base + it /\ it' = 0
      /\ prev_zero_pt' = -1 /\ data' = Encoder!Patched
  BY DEF Encoder!EndRound
<1>2. /\ Len(message) \in Nat /\ base \in Nat /\ it \in Nat /\ base + it <= Len(message)
      /\ prev_zero_pt \in Int /\ prev_zero_pt < it
  BY RoundFacts
<1>3. ASSUME NEW k \in 1 .. Len(message) - (base + it)
      PROVE  data'[(base + it) + k] = message[(base + it) + k]
  <2> DEFINE h == it + k
  <2>1. h \in 1 .. Len(message) - base /\ h > it /\ h # prev_zero_pt + 1 /\ (base + it) + k = base + h
    BY <1>2
  <2> HIDE DEF h
  <2>2. data[base + h] = message[base + h]
    BY <1>1, <2>1 DEF RoundKept
  <2> QED
    BY <1>1, <2>1, <2>2, LastDistance
<1>4. 0 .. (-1) = {} /\ (-1) + 2 .. 0 = {}
  OBVIOUS
<1> QED
  BY <1>1, <1>3, <1>4 DEF RoundKept

\* A layout stands while the wire and what of the message is on it do.
LEMMA LayoutStands ==
  ASSUME NEW p \in [Nat -> Nat], NEW C \in SUBSET Nat, BytesLaid(p, C), CodesChained(p, C),
         Body' = Body, UNCHANGED <<message, base>>, \A i \in 1 .. Body : wire'[i] = wire[i],
         Body \in Nat
  PROVE  BytesLaid(p, C)' /\ CodesChained(p, C)'
<1>1. ASSUME NEW i \in 1 .. Body PROVE ByteLaid(p, C, i)'
  <2>1. wire'[i] = wire[i] /\ ByteLaid(p, C, i)
    BY DEF BytesLaid
  <2> QED
    BY <2>1 DEF ByteLaid
<1>2. ASSUME NEW i \in C PROVE CodeChained(p, C, i)'
  <2>1. i \in 1 .. Body /\ CodeChained(p, C, i)
    BY DEF CodesChained
  <2>2. wire'[i] = wire[i]
    BY <2>1
  <2>3. NextCode(i)' = NextCode(i)
    BY <2>2 DEF NextCode
  <2> QED
    BY <2>1, <2>2, <2>3 DEF CodeChained
<1> QED
  BY <1>1, <1>2 DEF BytesLaid, CodesChained

\* What cobs_encode does to the layout: a round adds to it, the delimiter does not.
LEMMA LayoutGrows ==
  ASSUME CodecIInv, LayoutKept, RoundKept, UNCHANGED receiver,
         Encoder!Step \/ (dpc = "idle" /\ \E m \in Messages : Encoder!Encode(m))
  PROVE  LayoutKept' /\ RoundKept'
<1>0. Encoder!IInv /\ OverheadInv
  BY DEF CodecIInv
<1>1. dpc' = dpc
  BY DEF receiver
<1>2. ASSUME NEW p \in [Nat -> Nat], NEW C \in SUBSET Nat, epc' = "round", dpc = "idle",
             (BytesLaid(p, C) /\ CodesChained(p, C))'
      PROVE  LayoutKept'
  <2>1. Followed(p, C)'
    BY <1>1, <1>2 DEF Followed
  <2> QED
    BY <1>1, <1>2, <2>1 DEF LayoutKept
<1>3. ASSUME NEW m \in Messages, Encoder!Encode(m), dpc = "idle" PROVE LayoutKept' /\ RoundKept'
  <2>1. /\ epc' = "round" /\ base' = 0 /\ wire' = <<>> /\ message' = m /\ data' = m /\ it' = 0
        /\ prev_zero_pt' = -1
    BY <1>3 DEF Encoder!Encode
  <2>2. RoundKept'
    <3>1. 0 .. (-1) = {} /\ (-1) + 2 .. 0 = {}
      OBVIOUS
    <3> QED
      BY <2>1, <3>1 DEF RoundKept
  <2> DEFINE p == [i \in Nat |-> 0]
  <2>3. p \in [Nat -> Nat] /\ p[0] = 0
    OBVIOUS
  <2>4. Body' = 0
    BY <2>1 DEF Body
  <2> HIDE DEF p
  <2>5. PICK f \in [Nat -> Nat] : f[0] = 0
    BY <2>3
  <2>6. BytesLaid(f, {})' /\ CodesChained(f, {})'
    <3>1. \A i \in 0 .. 0 : i = 0
      OBVIOUS
    <3>2. 1 .. 0 = {}
      OBVIOUS
    <3> QED
      BY <2>1, <2>4, <2>5, <3>1, <3>2 DEF BytesLaid, CodesChained
  <2> QED
    BY <1>2, <1>3, <2>1, <2>2, <2>5, <2>6
<1>4. ASSUME Encoder!Step PROVE LayoutKept' /\ RoundKept'
  <2>0. epc = "round" /\ dpc = "idle" /\ wire \in Seq(1 .. Full) /\ Len(wire) \in Nat
    <3>1. epc = "round"
      BY <1>4 DEF Encoder!Step, Encoder!Scan, Encoder!ScanZero, Encoder!EndRound, Encoder!Terminate
    <3>2. wire \in Seq(1 .. Full)
      BY <1>0, <3>1 DEF Encoder!IInv, Encoder!WireNonZero
    <3> QED
      BY <3>1, <3>2 DEF LayoutKept
  <2>1. PICK p \in [Nat -> Nat], C \in SUBSET Nat : BytesLaid(p, C) /\ CodesChained(p, C)
    BY DEF LayoutKept
  <2>2. CASE Encoder!Scan \/ Encoder!ScanZero
    <3>1. UNCHANGED <<message, base, wire, epc>>
      BY <2>2 DEF Encoder!Scan, Encoder!ScanZero
    <3>2. Body' = Body /\ Body \in Nat
      BY <2>0, <3>1 DEF Body
    <3>3. BytesLaid(p, C)' /\ CodesChained(p, C)'
      BY <2>1, <3>1, <3>2, LayoutStands
    <3> QED
      BY <1>0, <1>2, <2>0, <2>2, <3>1, <3>3, ScanKeeps, ScanZeroKeeps
  <2>3. CASE Encoder!EndRound
    <3> DEFINE n == Len(wire)
               f == [i \in Nat |-> IF i <= n THEN p[i] ELSE base + (i - (n + 1))]
               D == C \union {Len(wire) + 1 + k : k \in {k \in 0 .. it : Met(k)}}
    <3>1. base \in Nat /\ it \in Nat /\ n \in Nat
      BY <1>0, <2>0, RoundFacts
    <3>2. f \in [Nat -> Nat]
      <4> SUFFICES ASSUME NEW i \in Nat PROVE (IF i <= n THEN p[i] ELSE base + (i - (n + 1))) \in Nat
        OBVIOUS
      <4> HIDE DEF n
      <4> QED
        BY <3>1
    <3>3. \A i \in 0 .. n : f[i] = p[i]
      <4> HIDE DEF n
      <4> QED
        BY <3>1
    <3>4. ASSUME NEW k \in 0 .. it PROVE f[n + 1 + k] = base + k
      <4> HIDE DEF n
      <4>1. n + 1 + k \in Nat /\ ~(n + 1 + k <= n) /\ (n + 1 + k) - (n + 1) = k
        BY <3>1
      <4> QED
        BY <4>1
    <3>5. D \in SUBSET Nat
      <4> SUFFICES ASSUME NEW k \in 0 .. it PROVE n + 1 + k \in Nat
        OBVIOUS
      <4> HIDE DEF n
      <4> QED
        BY <3>1
    <3> HIDE DEF f
    <3>6. PICK q \in [Nat -> Nat] :
             /\ \A i \in 0 .. Len(wire) : q[i] = p[i]
             /\ \A k \in 0 .. it : q[Len(wire) + 1 + k] = base + k
      BY <3>2, <3>3, <3>4
    <3>7. PICK E \in SUBSET Nat : E = C \union {Len(wire) + 1 + k : k \in {k \in 0 .. it : Met(k)}}
      BY <3>5
    <3>8. BytesLaid(q, E)' /\ CodesChained(q, E)'
      BY <1>0, <2>1, <2>3, <3>6, <3>7, RoundLaid
    <3>9. epc' = "round"
      BY <2>3 DEF Encoder!EndRound
    <3> QED
      BY <1>0, <1>2, <2>0, <2>3, <3>8, <3>9, RoundRestarts
  <2>4. CASE Encoder!Terminate
    <3>1. /\ wire' = Append(wire, 0) /\ epc' = "encoded" /\ base = Len(message)
          /\ UNCHANGED <<message, base>>
      BY <2>4 DEF Encoder!Terminate
    <3>2. Len(wire') = Len(wire) + 1 /\ \A i \in 1 .. Len(wire) : wire'[i] = wire[i]
      BY <2>0, <3>1, AppendProperties
    <3>3. Body = Len(wire) /\ Body' = Len(wire)
      BY <2>0, <3>1, <3>2 DEF Body
    <3>4. BytesLaid(p, C)' /\ CodesChained(p, C)'
      BY <2>0, <2>1, <3>1, <3>2, <3>3, LayoutStands
    <3>5. Followed(p, C)'
      BY <1>1, <2>0 DEF Followed
    <3> QED
      BY <1>1, <2>0, <3>1, <3>4, <3>5 DEF LayoutKept, RoundKept
  <2> QED
    BY <1>4, <2>2, <2>3, <2>4 DEF Encoder!Step
<1> QED
  BY <1>3, <1>4

\* What the decoder reads of an encoder's frame.
OnWire ==
  /\ Body \in Nat /\ Len(wire) = Body + 1 /\ wire[Body + 1] = 0
  /\ \A i \in 1 .. Body : wire[i] \in 1 .. Full
  /\ Len(message) \in Nat /\ Len(frame) \in Nat /\ Full \in Nat /\ Full >= 2
  /\ input \in Nat /\ output \in Nat /\ input <= Len(frame) /\ output <= input
  /\ dpc = "data" => output < input
  /\ buffer \in [1 .. Len(frame) -> Byte]

LEMMA FrameOnWire ==
  ASSUME CodecIInv, epc = "encoded" PROVE OnWire
<1>1. PICK b \in Seq(1 .. Full) : wire = Append(b, 0)
  BY DEF CodecIInv, Encoder!IInv, Encoder!Terminated
<1>2. Full \in Nat /\ Full >= 2
  BY CobsAssumption
<1>3. Len(wire) = Len(b) + 1 /\ Len(b) \in Nat /\ wire[Len(b) + 1] = 0
  BY <1>1
<1>4. \A i \in 1 .. Len(b) : wire[i] \in 1 .. Full
  <2>1. \A i \in 1 .. Len(b) : b[i] \in 1 .. Full
    BY ElementOfSeq
  <2>2. \A i \in 1 .. Len(b) : wire[i] = b[i]
    BY <1>1, AppendProperties
  <2> QED
    BY <2>1, <2>2
<1>5. Body = Len(b)
  BY <1>3 DEF Body
<1>6. /\ Len(message) \in Nat /\ Len(frame) \in Nat /\ input \in Nat /\ output \in Nat
      /\ input <= Len(frame) /\ output <= input /\ (dpc = "data" => output < input)
      /\ buffer \in [1 .. Len(frame) -> Byte]
  <2>1. Len(message) \in Nat /\ Len(frame) \in Nat
    BY LenProperties DEF CodecIInv, Encoder!IInv, Encoder!TypeOK, Decoder!IInv, Decoder!TypeOK
  <2> QED
    BY <2>1 DEF CodecIInv, Decoder!IInv, Decoder!TypeOK, Decoder!WriteBehindRead, Byte, Decoder!Byte
<1> QED
  BY <1>2, <1>3, <1>4, <1>5, <1>6 DEF OnWire

\* The next byte is the wire's; it is zero only if it is the delimiter.
LEMMA NextOnWire ==
  ASSUME CodecIInv, OnWire, Arrived, ~Decoder!AtEnd
  PROVE  /\ input + 1 \in 1 .. Len(frame) /\ Decoder!Next1 = buffer[input + 1]
         /\ Decoder!Next1 = wire[input + 1]
         /\ Decoder!Next1 = 0 => input = Body
         /\ Decoder!Next1 # 0 => input + 1 \in 1 .. Body
<1> DEFINE j == input + 1
<1>1. j \in 1 .. Len(frame) /\ j <= Body + 1 /\ j \in input + 1 .. Len(frame)
  BY DEF OnWire, Arrived, Decoder!AtEnd
<1>2. Decoder!Next1 = buffer[j] /\ buffer[j] = frame[j] /\ frame[j] = wire[j]
  BY <1>1 DEF Decoder!Next1, CodecIInv, Decoder!IInv, Decoder!UnreadIntact, Arrived
<1>3. j \in 1 .. Body => wire[j] # 0
  BY DEF OnWire
<1>4. j = Body + 1 => wire[j] = 0
  BY DEF OnWire
<1>5. j \in 1 .. Body \/ j = Body + 1
  BY <1>1 DEF OnWire
<1>6. input \in Nat /\ Body \in Nat
  BY DEF OnWire
<1> QED
  BY <1>1, <1>2, <1>3, <1>4, <1>5, <1>6

Facts(p, C) ==
  /\ CodecIInv /\ OnWire /\ BytesLaid(p, C) /\ CodesChained(p, C)
  /\ Arrived /\ DecodedSoFar(p) /\ BetweenBlocks(p, C) /\ InBlock(C)
  /\ epc = "encoded" /\ base = Len(message)
  /\ UNCHANGED <<message, base, wire, epc, frame>>

\* What is left to show of a step that reads on ...
LEMMA FollowsOn ==
  ASSUME NEW p \in [Nat -> Nat], NEW C \in SUBSET Nat, Facts(p, C),
         dpc' # "decoded", DecodedSoFar(p)', BetweenBlocks(p, C)', InBlock(C)'
  PROVE  Followed(p, C)'
<1>1. Body' = Body
  BY DEF Facts, Body
<1>2. Arrived'
  BY <1>1 DEF Facts, Arrived
<1>3. Finished'
  BY DEF Finished
<1> QED
  BY <1>2, <1>3 DEF Followed

\* ... and of one that ends.
LEMMA FollowsToEnd ==
  ASSUME NEW p \in [Nat -> Nat], NEW C \in SUBSET Nat, Facts(p, C),
         dpc' = "decoded", UNCHANGED <<output, buffer>>, Finished'
  PROVE  Followed(p, C)'
<1>1. Body' = Body
  BY DEF Facts, Body
<1>2. Arrived'
  BY <1>1 DEF Facts, Arrived
<1>3. DecodedSoFar(p)'
  BY DEF Facts, DecodedSoFar
<1>4. BetweenBlocks(p, C)' /\ InBlock(C)'
  BY DEF BetweenBlocks, InBlock
<1> QED
  BY <1>2, <1>3, <1>4 DEF Followed

\* The block that is being read, from its code.
LEMMA OpenBlock ==
  ASSUME NEW p \in [Nat -> Nat], NEW C \in SUBSET Nat, Facts(p, C), dpc = "data"
  PROVE  /\ input <= Body /\ output = p[input] /\ Body > 0 /\ base > 0
         /\ \E i \in C : /\ i \in 1 .. Body /\ i <= input /\ remaining = NextCode(i) - input
                         /\ small = (wire[i] # Full) /\ CodeChained(p, C, i) /\ NextCode(i) \in Nat
<1>1. input <= Body /\ output = p[input]
  BY DEF Facts, InBlock, DecodedSoFar
<1>2. PICK i \in C : i <= input /\ remaining = NextCode(i) - input /\ small = (wire[i] # Full)
  BY DEF Facts, InBlock
<1>3. i \in 1 .. Body /\ CodeChained(p, C, i)
  BY DEF Facts, CodesChained
<1>4. NextCode(i) \in Nat
  <2>1. wire[i] \in 1 .. Full /\ Full \in Nat /\ Body \in Nat
    BY <1>3 DEF CodeChained, Facts, OnWire
  <2>2. i \in Nat /\ wire[i] \in Nat
    BY <1>3, <2>1
  <2> QED
    BY <2>2 DEF NextCode
<1>5. Body > 0
  BY <1>3 DEF Facts, OnWire
<1> QED
  BY <1>1, <1>2, <1>3, <1>4, <1>5 DEF Facts, CodesChained

LEMMA FollowNoMoreBlocks ==
  ASSUME NEW p \in [Nat -> Nat], NEW C \in SUBSET Nat, Facts(p, C), Decoder!NoMoreBlocks
  PROVE  Followed(p, C)'
<1>1. /\ dpc = "block" /\ input = Len(frame) /\ dpc' = "decoded" /\ result' = "Ok"
      /\ UNCHANGED <<frame, buffer, output, remaining, small, input>>
  BY DEF Decoder!NoMoreBlocks, Decoder!Stop, Decoder!AtEnd
<1>2. Body' = Body /\ Body \in Nat /\ Len(frame) \in Nat /\ UNCHANGED <<message, frame>>
  BY DEF Facts, Body, OnWire
<1>3. \/ input = 0 
      \/ input = Body + 1 /\ message # <<>>
      \/ ~small /\ input = Len(frame) /\ input <= Body
      \/ ~small /\ input < Body
  BY <1>1 DEF Facts, BetweenBlocks
<1>4. output = IF input <= Body THEN p[input] ELSE Len(message)
  BY <1>1 DEF Facts, DecodedSoFar
<1>5. ASSUME Len(frame) = Body + 1 PROVE output = Len(message) /\ message # <<>>
  BY <1>1, <1>2, <1>3, <1>4, <1>5
<1>6. ASSUME Len(frame) <= Body PROVE frame = <<>> \/ ~small
  <2>1. CASE input = 0
    <3>1. frame \in Seq(Byte) /\ Len(frame) = 0
      BY <1>1, <2>1 DEF Facts, CodecIInv, Decoder!IInv, Decoder!TypeOK, Byte, Decoder!Byte
    <3> QED
      BY <3>1, EmptySeq
  <2>2. CASE input # 0
    BY <1>1, <1>2, <1>3, <1>6, <2>2
  <2> QED
    BY <2>1, <2>2
<1>7. Finished'
  BY <1>1, <1>2, <1>5, <1>6 DEF Finished
<1> QED
  BY <1>1, <1>7, FollowsToEnd

LEMMA FollowBlockStart ==
  ASSUME NEW p \in [Nat -> Nat], NEW C \in SUBSET Nat, Facts(p, C), Decoder!BlockStart
  PROVE  Followed(p, C)'
<1>0. PICK j \in Nat : j = input + 1
  BY DEF Facts, OnWire
<1>1. /\ dpc = "block" /\ ~Decoder!AtEnd /\ Decoder!Next1 # 0 /\ input' = j
      /\ remaining' = Decoder!Next1 /\ small' = (Decoder!Next1 # Full) /\ dpc' = "data"
      /\ UNCHANGED <<frame, buffer, output, result>>
  BY <1>0 DEF Decoder!BlockStart
<1>2. j \in 1 .. Body /\ Decoder!Next1 = wire[j]
  BY <1>0, <1>1, NextOnWire DEF Facts
<1>3. Body' = Body /\ Body \in Nat /\ input \in Nat /\ UNCHANGED <<message, wire>>
  BY DEF Facts, Body, OnWire
<1>4. j \in C /\ p[j] = p[input]
  <2>1. CASE input = 0
    BY <1>0, <1>2, <1>3, <2>1 DEF Facts, BytesLaid, CodesChained
  <2>2. CASE input # 0
    BY <1>0, <1>1, <1>2, <1>3, <2>2 DEF Facts, BetweenBlocks, Decoder!AtEnd
  <2> QED
    BY <2>1, <2>2
<1>5. output = p[j]
  <2>1. input <= Body
    BY <1>0, <1>2, <1>3
  <2> QED
    BY <1>1, <1>4, <2>1 DEF Facts, DecodedSoFar
<1>6. DecodedSoFar(p)'
  BY <1>1, <1>2, <1>3, <1>5 DEF Facts, DecodedSoFar
<1>7. InBlock(C)'
  <2>1. wire[j] \in 1 .. Full /\ Full \in Nat
    BY <1>2 DEF Facts, OnWire
  <2>2. NextCode(j) = j + wire[j] /\ NextCode(j)' = NextCode(j)
    BY <1>3 DEF NextCode
  <2>3. j <= j /\ wire[j] = NextCode(j) - j
    BY <2>1, <2>2
  <2>4. j <= Body
    BY <1>2
  <2> QED
    BY <1>1, <1>2, <1>3, <1>4, <2>2, <2>3, <2>4 DEF InBlock
<1>8. BetweenBlocks(p, C)'
  BY <1>1 DEF BetweenBlocks
<1> QED
  BY <1>1, <1>6, <1>7, <1>8, FollowsOn

LEMMA FollowBlockStartZero ==
  ASSUME NEW p \in [Nat -> Nat], NEW C \in SUBSET Nat, Facts(p, C), Decoder!BlockStartZero
  PROVE  Followed(p, C)'
<1>1. /\ dpc = "block" /\ ~Decoder!AtEnd /\ Decoder!Next1 = 0 /\ input' = input + 1
      /\ dpc' = "decoded" /\ result' = "UnexpectedZero"
      /\ UNCHANGED <<frame, buffer, output, remaining, small>>
  BY DEF Decoder!BlockStartZero, Decoder!Stop
<1>2. input = Body /\ input + 1 \in 1 .. Len(frame)
  BY <1>1, NextOnWire DEF Facts
<1>3. Body' = Body /\ Body \in Nat /\ Len(frame) \in Nat /\ UNCHANGED <<message, frame>>
  BY DEF Facts, Body, OnWire
<1>4. p[0] = 0 /\ p[Body] = base /\ base = Len(message)
  BY DEF Facts, BytesLaid
<1>5. output = Len(message)
  <2>1. input <= Body
    BY <1>2, <1>3
  <2> QED
    BY <1>1, <1>2, <1>4, <2>1 DEF Facts, DecodedSoFar
<1>6. message = <<>>
  <2>1. input = 0
    BY <1>1, <1>2, <1>3 DEF Facts, BetweenBlocks, Decoder!AtEnd
  <2>2. Len(message) = 0 /\ message \in Seq(Byte)
    BY <1>2, <1>4, <2>1 DEF Facts, CodecIInv, Encoder!IInv, Encoder!TypeOK, Byte, Encoder!Byte
  <2> QED
    BY <2>2, EmptySeq
<1>7. Finished'
  BY <1>1, <1>2, <1>3, <1>5, <1>6 DEF Finished
<1> QED
  BY <1>1, <1>7, FollowsToEnd

LEMMA FollowCopy ==
  ASSUME NEW p \in [Nat -> Nat], NEW C \in SUBSET Nat, Facts(p, C), Decoder!Copy
  PROVE  Followed(p, C)'
<1> DEFINE j == input + 1
           o == output + 1
<1>1. /\ dpc = "data" /\ remaining > 1 /\ ~Decoder!AtEnd /\ Decoder!Next1 # 0
      /\ buffer' = [buffer EXCEPT ![o] = Decoder!Next1] /\ output' = o /\ input' = j
      /\ remaining' = remaining - 1 /\ UNCHANGED <<frame, small, dpc, result>>
  BY DEF Decoder!Copy
<1>2. j \in 1 .. Body /\ Decoder!Next1 = wire[j] /\ j \in 1 .. Len(frame)
  BY <1>1, NextOnWire DEF Facts
<1>3. /\ Body' = Body /\ Body \in Nat /\ input \in Nat /\ output \in Nat /\ output <= input
      /\ UNCHANGED <<message, wire>> /\ buffer \in [1 .. Len(frame) -> Byte] /\ Len(frame) \in Nat
  BY DEF Facts, Body, OnWire
<1>4. output = p[input]
  BY <1>1, OpenBlock
<1>5. PICK i \in C : /\ i \in 1 .. Body /\ i <= input /\ remaining = NextCode(i) - input
                     /\ small = (wire[i] # Full) /\ CodeChained(p, C, i) /\ NextCode(i) \in Nat
  BY <1>1, OpenBlock
<1>6. j \notin C
  <2> DEFINE e == NextCode(i)
  <2>1. e \in Nat /\ e - input > 1 /\ i \in Nat /\ i <= input
    BY <1>1, <1>5
  <2> HIDE DEF e
  <2>2. j \in i + 1 .. e - 1
    BY <1>3, <2>1
  <2> QED
    BY <1>5, <2>2 DEF CodeChained, e
<1>7. p[j] = o /\ wire[j] = message[o] /\ o <= Len(message)
  <2>1. p[j] = p[j - 1] + 1 /\ wire[j] = message[p[j]]
    BY <1>2, <1>6 DEF Facts, BytesLaid, ByteLaid
  <2>2. j - 1 = input /\ j \in 0 .. Body
    BY <1>2, <1>3
  <2>3. p[j] <= base /\ base = Len(message)
    BY <2>2 DEF Facts, BytesLaid
  <2> QED
    BY <1>4, <2>1, <2>2, <2>3
<1>8. ASSUME NEW k \in 1 .. o PROVE buffer'[k] = message[k]
  <2>1. k \in 1 .. output \/ k = o
    BY <1>3
  <2>2. o \in 1 .. Len(frame)
    BY <1>2, <1>3
  <2>3. CASE k = o
    BY <1>1, <1>2, <1>3, <1>7, <2>2, <2>3
  <2>4. CASE k # o
    <3>1. buffer'[k] = buffer[k] /\ k \in 1 .. output
      BY <1>1, <1>3, <2>1, <2>2, <2>4
    <3> QED
      BY <3>1 DEF Facts, DecodedSoFar
  <2> QED
    BY <2>3, <2>4
<1>9. j <= Body
  BY <1>2
<1>10. DecodedSoFar(p)'
  BY <1>1, <1>3, <1>7, <1>8, <1>9 DEF DecodedSoFar
<1>11. InBlock(C)'
  <2>1. i <= j /\ remaining - 1 = NextCode(i) - j
    BY <1>3, <1>5
  <2>2. NextCode(i)' = NextCode(i)
    BY <1>3 DEF NextCode
  <2> HIDE DEF j
  <2> QED
    BY <1>1, <1>3, <1>5, <1>9, <2>1, <2>2 DEF InBlock
<1>12. BetweenBlocks(p, C)'
  BY <1>1 DEF BetweenBlocks
<1> QED
  BY <1>1, <1>10, <1>11, <1>12, FollowsOn

\* A frame that ends inside a block is not whole.
LEMMA FollowMissing ==
  ASSUME NEW p \in [Nat -> Nat], NEW C \in SUBSET Nat, Facts(p, C),
         Decoder!DataMissing \/ Decoder!DelimiterMissing
  PROVE  Followed(p, C)'
<1>1. /\ dpc = "data" /\ input = Len(frame) /\ dpc' = "decoded" /\ result' # "Ok"
      /\ UNCHANGED <<frame, buffer, output, remaining, small, input>>
  BY DEF Decoder!DataMissing, Decoder!DelimiterMissing, Decoder!Stop, Decoder!AtEnd
<1>2. Body' = Body /\ Body \in Nat /\ Len(frame) \in Nat
  BY DEF Facts, Body, OnWire
<1>3. Len(frame) # Body + 1
  BY <1>1, <1>2, OpenBlock
<1>4. Finished'
  BY <1>1, <1>2, <1>3 DEF Finished
<1> QED
  BY <1>1, <1>4, FollowsToEnd

\* No zero stands inside a block.
LEMMA FollowDataZero ==
  ASSUME NEW p \in [Nat -> Nat], NEW C \in SUBSET Nat, Facts(p, C), Decoder!DataZero
  PROVE  FALSE
<1>1. dpc = "data" /\ remaining > 1 /\ ~Decoder!AtEnd /\ Decoder!Next1 = 0
  BY DEF Decoder!DataZero
<1>2. input = Body /\ Body \in Nat
  BY <1>1, NextOnWire DEF Facts, OnWire
<1>3. PICK i \in C : remaining = NextCode(i) - input /\ CodeChained(p, C, i) /\ NextCode(i) \in Nat
  BY <1>1, OpenBlock
<1>4. NextCode(i) <= Body + 1
  BY <1>3 DEF CodeChained
<1> QED
  BY <1>1, <1>2, <1>3, <1>4

LEMMA FollowZeroBetween ==
  ASSUME NEW p \in [Nat -> Nat], NEW C \in SUBSET Nat, Facts(p, C), Decoder!ZeroBetween
  PROVE  Followed(p, C)'
<1>0. PICK j \in Nat, o \in Nat : j = input + 1 /\ o = output + 1
  BY DEF Facts, OnWire
<1>1. /\ dpc = "data" /\ remaining = 1 /\ small /\ ~Decoder!AtEnd /\ Decoder!Next1 # 0
      /\ buffer' = [buffer EXCEPT ![o] = 0] /\ output' = o /\ input' = j
      /\ remaining' = buffer'[j] /\ small' = (buffer'[j] # Full)
      /\ UNCHANGED <<frame, dpc, result>>
  BY <1>0 DEF Decoder!ZeroBetween
<1>2. j \in 1 .. Body /\ buffer[j] = wire[j] /\ j \in 1 .. Len(frame)
  BY <1>0, <1>1, NextOnWire DEF Facts
<1>3. /\ Body' = Body /\ Body \in Nat /\ input \in Nat /\ output \in Nat /\ output < input
      /\ UNCHANGED <<message, wire>> /\ buffer \in [1 .. Len(frame) -> Byte] /\ Len(frame) \in Nat
  BY <1>1 DEF Facts, Body, OnWire
<1>4. output = p[input]
  BY <1>1, OpenBlock
<1>5. PICK i \in C : /\ remaining = NextCode(i) - input /\ small = (wire[i] # Full)
                     /\ CodeChained(p, C, i) /\ NextCode(i) \in Nat
  BY <1>1, OpenBlock
<1>6. NextCode(i) = j /\ j - 1 = input /\ j \in 0 .. Body /\ j <= Body
  <2> DEFINE e == NextCode(i)
  <2>1. e \in Nat /\ 1 = e - input
    BY <1>1, <1>5
  <2> HIDE DEF e
  <2>2. e = j
    BY <1>0, <1>3, <2>1
  <2>3. j - 1 = input /\ j \in 0 .. Body /\ j <= Body
    BY <1>0, <1>2, <1>3
  <2> QED
    BY <2>2, <2>3 DEF e
<1>7. j \in C /\ p[j] # p[input]
  BY <1>1, <1>5, <1>6 DEF CodeChained
<1>8. p[j] = o /\ message[o] = 0 /\ o <= Len(message)
  <2>1. p[j] = p[input] + 1 /\ message[p[j]] = 0
    BY <1>2, <1>6, <1>7 DEF Facts, BytesLaid, ByteLaid
  <2>2. p[j] <= base /\ base = Len(message)
    BY <1>6 DEF Facts, BytesLaid
  <2> QED
    BY <1>0, <1>4, <2>1, <2>2
<1>9. o \in 1 .. Len(frame) /\ o # j
  <2> DEFINE F == Len(frame)
  <2>1. F \in Nat /\ j <= F /\ output < input /\ output \in Nat /\ input \in Nat
    BY <1>2, <1>3
  <2> HIDE DEF F
  <2>2. o \in 1 .. F /\ o # j
    BY <1>0, <2>1
  <2> QED
    BY <2>2 DEF F
<1>10. buffer'[j] = wire[j] /\ buffer'[o] = 0
  BY <1>1, <1>2, <1>3, <1>9
<1>11. ASSUME NEW k \in 1 .. o PROVE buffer'[k] = message[k]
  <2>1. CASE k = o
    BY <1>8, <1>10, <2>1
  <2>2. CASE k # o
    <3>1. buffer'[k] = buffer[k] /\ k \in 1 .. output
      BY <1>0, <1>1, <1>3, <1>9, <2>2
    <3> QED
      BY <3>1 DEF Facts, DecodedSoFar
  <2> QED
    BY <2>1, <2>2
<1>12. DecodedSoFar(p)'
  BY <1>1, <1>3, <1>6, <1>8, <1>11 DEF DecodedSoFar
<1>13. InBlock(C)'
  <2>1. wire[j] \in 1 .. Full /\ Full \in Nat
    BY <1>2 DEF Facts, OnWire
  <2>2. NextCode(j) = j + wire[j] /\ NextCode(j)' = NextCode(j)
    BY <1>3 DEF NextCode
  <2>3. j <= j /\ wire[j] = NextCode(j) - j
    BY <2>1, <2>2
  <2> QED
    BY <1>1, <1>3, <1>6, <1>7, <1>10, <2>2, <2>3 DEF InBlock
<1>14. BetweenBlocks(p, C)'
  BY <1>1 DEF BetweenBlocks
<1> QED
  BY <1>1, <1>12, <1>13, <1>14, FollowsOn

LEMMA FollowBlockEnd ==
  ASSUME NEW p \in [Nat -> Nat], NEW C \in SUBSET Nat, Facts(p, C), Decoder!BlockEnd
  PROVE  Followed(p, C)'
<1> DEFINE j == input + 1
<1>1. /\ dpc = "data" /\ remaining = 1 /\ ~Decoder!AtEnd /\ (Decoder!Next1 = 0 \/ ~small)
      /\ input' = IF Decoder!Next1 = 0 THEN j ELSE input
      /\ dpc' = "block" /\ UNCHANGED <<frame, buffer, output, remaining, small, result>>
  BY DEF Decoder!BlockEnd
<1>2. /\ Body' = Body /\ Body \in Nat /\ input \in Nat /\ Len(message) \in Nat
      /\ UNCHANGED <<message, wire, frame>>
  BY DEF Facts, Body, OnWire
<1>3. input <= Body /\ output = p[input] /\ base > 0 /\ base = Len(message)
  BY <1>1, OpenBlock DEF Facts
<1>4. InBlock(C)'
  BY <1>1 DEF InBlock
<1>5. output <= Len(message) /\ \A k \in 1 .. output : buffer[k] = message[k]
  BY DEF Facts, DecodedSoFar
<1>6. CASE Decoder!Next1 = 0
  <2>1. input = Body /\ input' = Body + 1 /\ ~(input' <= Body)
    BY <1>1, <1>2, <1>6, NextOnWire DEF Facts
  <2>2. output = Len(message) /\ message # <<>>
    BY <1>2, <1>3, <2>1 DEF Facts, BytesLaid
  <2>3. DecodedSoFar(p)'
    BY <1>1, <1>2, <1>5, <2>1, <2>2 DEF DecodedSoFar
  <2>4. BetweenBlocks(p, C)'
    BY <1>2, <2>1, <2>2 DEF BetweenBlocks
  <2> QED
    BY <1>1, <1>4, <2>3, <2>4, FollowsOn
<1>7. CASE Decoder!Next1 # 0
  <2>1. j \in 1 .. Body /\ input' = input /\ ~small
    BY <1>1, <1>7, NextOnWire DEF Facts
  <2>2. PICK i \in C : /\ remaining = NextCode(i) - input /\ small = (wire[i] # Full)
                       /\ CodeChained(p, C, i) /\ NextCode(i) \in Nat
    BY <1>1, OpenBlock
  <2>3. NextCode(i) = j /\ j - 1 = input /\ j <= Body /\ input < Body
    <3> DEFINE e == NextCode(i)
    <3>1. e \in Nat /\ 1 = e - input
      BY <1>1, <2>2
    <3> HIDE DEF e
    <3>2. e = j
      BY <1>2, <3>1
    <3>3. j - 1 = input /\ j <= Body /\ input < Body
      BY <1>2, <2>1
    <3> QED
      BY <3>2, <3>3 DEF e
  <2>4. j \in C /\ p[j] = p[input]
    BY <2>1, <2>2, <2>3 DEF CodeChained
  <2>5. DecodedSoFar(p)'
    BY <1>1, <1>2, <1>3, <1>5, <2>1 DEF DecodedSoFar
  <2>6. BetweenBlocks(p, C)'
    BY <1>1, <1>2, <2>1, <2>3, <2>4 DEF BetweenBlocks
  <2> QED
    BY <1>1, <1>4, <2>5, <2>6, FollowsOn
<1> QED
  BY <1>6, <1>7

LEMMA FollowFullBlockLast ==
  ASSUME NEW p \in [Nat -> Nat], NEW C \in SUBSET Nat, Facts(p, C), Decoder!FullBlockLast
  PROVE  Followed(p, C)'
<1>1. /\ dpc = "data" /\ input = Len(frame) /\ ~small /\ dpc' = "block"
      /\ UNCHANGED <<frame, buffer, input, output, remaining, small, result>>
  BY DEF Decoder!FullBlockLast, Decoder!AtEnd
<1>2. Body' = Body /\ UNCHANGED <<message, frame, wire>>
  BY DEF Facts, Body
<1>3. input <= Body
  BY <1>1, OpenBlock
<1>4. DecodedSoFar(p)'
  BY <1>1, <1>2 DEF Facts, DecodedSoFar
<1>5. BetweenBlocks(p, C)' /\ InBlock(C)'
  BY <1>1, <1>2, <1>3 DEF BetweenBlocks, InBlock
<1> QED
  BY <1>1, <1>4, <1>5, FollowsOn

LEMMA DecoderFollows ==
  ASSUME NEW p \in [Nat -> Nat], NEW C \in SUBSET Nat,
         CodecIInv, epc = "encoded", base = Len(message), BytesLaid(p, C), CodesChained(p, C),
         Followed(p, C), UNCHANGED sender, Decoder!Step
  PROVE  Followed(p, C)'
<1>1. dpc # "idle" /\ frame' = frame
  BY DEF Decoder!Step, Decoder!NoMoreBlocks, Decoder!BlockStart, Decoder!BlockStartZero, Decoder!Copy,
         Decoder!DataMissing, Decoder!DataZero, Decoder!ZeroBetween, Decoder!BlockEnd,
         Decoder!DelimiterMissing, Decoder!FullBlockLast, Decoder!Stop
<1>2. Facts(p, C)
  BY <1>1, FrameOnWire DEF Facts, Followed, sender
<1> QED
  BY <1>2, FollowNoMoreBlocks, FollowBlockStart, FollowBlockStartZero, FollowCopy, FollowMissing,
     FollowDataZero, FollowZeroBetween, FollowBlockEnd, FollowFullBlockLast DEF Decoder!Step

CodecLaid == LayoutKept /\ RoundKept

\* Delim.hpp:132-145, Delim.cpp:5-32 and 42-117: what is on the wire is the message cut
\* at codes that chain to its end, and the decoder, wherever it is, has taken from it
\* what those codes say.
THEOREM LayoutInvariance == Spec => []CodecLaid
<1>1. Init => CodecLaid
  <2> SUFFICES ASSUME Init PROVE CodecLaid
    OBVIOUS
  <2>1. epc = "idle" /\ dpc = "idle" /\ wire = <<>> /\ base = 0
    BY DEF Init, Encoder!Init, Decoder!Init
  <2>2. Body = 0
    BY <2>1 DEF Body
  <2>3. PICK f \in [Nat -> Nat] : f[0] = 0
    <3>1. [i \in Nat |-> 0] \in [Nat -> Nat] /\ [i \in Nat |-> 0][0] = 0
      OBVIOUS
    <3> QED
      BY <3>1
  <2>4. BytesLaid(f, {}) /\ CodesChained(f, {})
    <3>1. \A i \in 0 .. 0 : i = 0
      OBVIOUS
    <3>2. 1 .. 0 = {}
      OBVIOUS
    <3> QED
      BY <2>1, <2>2, <2>3, <3>1, <3>2 DEF BytesLaid, CodesChained
  <2>5. Followed(f, {})
    BY <2>1 DEF Followed
  <2> QED
    BY <2>1, <2>3, <2>4, <2>5 DEF CodecLaid, LayoutKept, RoundKept
<1>2. CodecIInv /\ CodecLaid /\ [Next]_vars => CodecLaid'
  <2> SUFFICES ASSUME CodecIInv, CodecLaid, [Next]_vars PROVE CodecLaid'
    OBVIOUS
  <2>0. LayoutKept /\ RoundKept
    BY DEF CodecLaid
  <2>1. CASE Encoding
    BY <2>0, <2>1, LayoutGrows DEF Encoding, CodecLaid
  <2>2. ASSUME NEW m \in Messages, Encode(m) PROVE CodecLaid'
    BY <2>0, <2>2, LayoutGrows DEF Encode, CodecLaid
  <2>3. ASSUME UNCHANGED sender, epc # "encoded", epc = "round" => dpc' = "idle" PROVE CodecLaid'
    <3>1. PICK p \in [Nat -> Nat], C \in SUBSET Nat : BytesLaid(p, C) /\ CodesChained(p, C)
      BY <2>0 DEF LayoutKept
    <3>2. BytesLaid(p, C)' /\ CodesChained(p, C)'
      BY <2>3, <3>1 DEF sender, BytesLaid, CodesChained, ByteLaid, CodeChained, NextCode, Body
    <3>3. Followed(p, C)'
      BY <2>3 DEF sender, Followed
    <3>4. RoundKept'
      BY <2>0, <2>3 DEF sender, RoundKept, Code
    <3> QED
      BY <2>3, <3>2, <3>3, <3>4 DEF CodecLaid, LayoutKept, sender
  <2>4. ASSUME NEW f \in Frames, Foreign(f) PROVE CodecLaid'
    BY <2>3, <2>4 DEF Foreign
  <2>5. ASSUME UNCHANGED sender, epc = "encoded",
               \A p \in [Nat -> Nat], C \in SUBSET Nat :
                 BytesLaid(p, C) /\ CodesChained(p, C) /\ Followed(p, C) => Followed(p, C)'
        PROVE  CodecLaid'
    <3>1. PICK p \in [Nat -> Nat], C \in SUBSET Nat :
             BytesLaid(p, C) /\ CodesChained(p, C) /\ Followed(p, C)
      BY <2>0 DEF LayoutKept
    <3>2. BytesLaid(p, C)' /\ CodesChained(p, C)'
      BY <2>5, <3>1 DEF sender, BytesLaid, CodesChained, ByteLaid, CodeChained, NextCode, Body
    <3>3. Followed(p, C)'
      BY <2>5, <3>1
    <3>4. RoundKept' /\ base' = Len(message') /\ epc' = "encoded"
      BY <2>0, <2>5 DEF sender, RoundKept, LayoutKept
    <3> QED
      BY <3>2, <3>3, <3>4 DEF CodecLaid, LayoutKept
  <2>6. ASSUME NEW n \in 0 .. Len(wire), Arrive(n) PROVE CodecLaid'
    <3>1. /\ epc = "encoded" /\ dpc' = "block" /\ frame' = SubSeq(wire, 1, n)
          /\ input' = 0 /\ output' = 0 /\ UNCHANGED sender
      BY <2>6 DEF Arrive, Decoder!Decode
    <3>2. OnWire /\ wire \in Seq(Byte)
      BY <3>1, FrameOnWire, WireOfBytes DEF CodecIInv
    <3>3. /\ Len(SubSeq(wire, 1, n)) = n
          /\ \A i \in 1 .. n : SubSeq(wire, 1, n)[i] = wire[i]
      <4>1. n \in Nat /\ n <= Len(wire) /\ 0 \in Nat /\ 0 + n = n /\ 0 + 1 = 1
        BY <3>2 DEF OnWire
      <4>2. \A i \in 1 .. n : 0 + i = i
        BY <4>1
      <4>3. /\ Len(SubSeq(wire, 0 + 1, 0 + n)) = n
            /\ \A i \in 1 .. n : SubSeq(wire, 0 + 1, 0 + n)[i] = wire[0 + i]
        BY <3>2, <4>1, PartOf
      <4> QED
        BY <4>1, <4>2, <4>3
    <3>4. Body' = Body /\ n <= Body + 1 /\ Body \in Nat /\ Len(message) \in Nat /\ wire' = wire
          /\ message' = message
      BY <3>1, <3>2 DEF sender, Body, OnWire
    <3>5. ASSUME NEW p \in [Nat -> Nat], NEW C \in SUBSET Nat, BytesLaid(p, C)
          PROVE  Followed(p, C)'
      <4>1. Arrived'
        BY <3>1, <3>3, <3>4 DEF Arrived
      <4>2. DecodedSoFar(p)'
        BY <3>1, <3>4, <3>5 DEF DecodedSoFar, BytesLaid
      <4>3. BetweenBlocks(p, C)' /\ InBlock(C)' /\ Finished'
        BY <3>1 DEF BetweenBlocks, InBlock, Finished
      <4> QED
        BY <4>1, <4>2, <4>3 DEF Followed
    <3> QED
      BY <2>5, <3>1, <3>5
  <2>7. CASE Decoding
    <3>1. dpc # "idle" /\ UNCHANGED sender /\ Decoder!Step
      BY <2>7 DEF Decoding, Decoder!Step, Decoder!NoMoreBlocks, Decoder!BlockStart,
                  Decoder!BlockStartZero, Decoder!Copy, Decoder!DataMissing, Decoder!DataZero,
                  Decoder!ZeroBetween, Decoder!BlockEnd, Decoder!DelimiterMissing,
                  Decoder!FullBlockLast
    <3>2. epc # "round"
      BY <2>0, <3>1 DEF LayoutKept
    <3>3. CASE epc # "encoded"
      BY <2>3, <3>1, <3>2, <3>3
    <3>4. CASE epc = "encoded"
      <4>1. base = Len(message)
        BY <2>0, <3>4 DEF LayoutKept
      <4>2. ASSUME NEW p \in [Nat -> Nat], NEW C \in SUBSET Nat,
                   BytesLaid(p, C), CodesChained(p, C), Followed(p, C)
            PROVE  Followed(p, C)'
        BY <3>1, <3>4, <4>1, <4>2, DecoderFollows
      <4> QED
        BY <2>5, <3>1, <3>4, <4>2
    <3> QED
      BY <3>3, <3>4
  <2>8. CASE UNCHANGED vars
    <3>1. UNCHANGED sender /\ UNCHANGED receiver
      BY <2>8 DEF vars
    <3>2. CASE epc # "encoded"
      BY <2>0, <2>3, <3>1, <3>2 DEF receiver, LayoutKept
    <3>3. CASE epc = "encoded"
      <4>1. ASSUME NEW p \in [Nat -> Nat], NEW C \in SUBSET Nat, Followed(p, C)
            PROVE  Followed(p, C)'
        BY <3>1, <4>1 DEF sender, receiver, Followed, Arrived, DecodedSoFar, BetweenBlocks, InBlock,
                          Finished, NextCode, Body
      <4> QED
        BY <2>5, <3>1, <3>3, <4>1
    <3> QED
      BY <3>2, <3>3
  <2> QED
    BY <2>1, <2>2, <2>4, <2>6, <2>7, <2>8 DEF Next
<1> QED
  BY <1>1, <1>2, CodecInvariance, PTL DEF Spec

\* The decoded bytes are the message's first.
LEMMA DecodedIsPrefix ==
  ASSUME CodecIInv, CodecLaid, Sent
  PROVE  /\ Arrived /\ Finished /\ OnWire /\ output \in 0 .. Len(message)
         /\ Decoder!Decoded = SubSeq(message, 1, output)
         /\ message \in Seq(Byte) /\ frame \in Seq(Byte) /\ wire \in Seq(Byte)
<1>1. epc = "encoded" /\ dpc = "decoded"
  BY DEF Sent
<1>2. OnWire
  BY <1>1, FrameOnWire
<1>3. message \in Seq(Byte) /\ frame \in Seq(Byte) /\ wire \in Seq(Byte)
  BY <1>1, WireOfBytes DEF CodecIInv, Encoder!IInv, Encoder!TypeOK, Decoder!IInv, Decoder!TypeOK,
                    Byte, Encoder!Byte, Decoder!Byte
<1>4. PICK p \in [Nat -> Nat], C \in SUBSET Nat : Followed(p, C)
  BY DEF CodecLaid, LayoutKept
<1>5. Arrived /\ Finished /\ output <= Len(message) /\ \A i \in 1 .. output : buffer[i] = message[i]
  BY <1>1, <1>4 DEF Followed, DecodedSoFar
<1>6. output \in Nat /\ Len(message) \in Nat /\ output <= Len(buffer)
  <2>1. buffer \in [1 .. Len(frame) -> Byte] /\ Len(frame) \in Nat /\ input \in Nat
    BY <1>2 DEF OnWire
  <2>2. Len(buffer) = Len(frame)
    BY <2>1
  <2>3. output \in Nat /\ Len(message) \in Nat /\ output <= input /\ input <= Len(frame)
    BY <1>2 DEF OnWire
  <2> QED
    BY <2>1, <2>2, <2>3
<1>7. buffer \in Seq(Byte)
  <2>1. buffer \in [1 .. Len(frame) -> Byte] /\ Len(frame) \in Nat
    BY <1>2 DEF OnWire
  <2> QED
    BY <2>1, ArrayIsSeq
<1>8. SubSeq(buffer, 1, output) = SubSeq(message, 1, output)
  BY <1>3, <1>5, <1>6, <1>7, SamePrefix
<1>9. Decoder!Decoded = SubSeq(message, 1, output)
  BY <1>8 DEF Decoder!Decoded
<1> QED
  BY <1>2, <1>3, <1>5, <1>6, <1>9

\* Delim.cpp:42-117 undoes Delim.hpp:132-145: a frame that arrives whole is decoded to the
\* message, with the result that says so.
THEOREM RoundTripHolds == Spec => []RoundTrip
<1>1. CodecIInv /\ CodecLaid => RoundTrip
  <2> SUFFICES ASSUME CodecIInv, CodecLaid, Sent, frame = wire
               PROVE  /\ Decoder!Decoded = message
                      /\ result = IF message = <<>> THEN "UnexpectedZero" ELSE "Ok"
                      /\ input = Len(frame)
    BY DEF RoundTrip, Whole
  <2>1. dpc = "decoded" /\ Len(frame) = Body + 1
    BY DecodedIsPrefix DEF Sent, OnWire
  <2>2. /\ output = Len(message) /\ input = Len(frame)
        /\ result = IF message = <<>> THEN "UnexpectedZero" ELSE "Ok"
    BY <2>1, DecodedIsPrefix DEF Finished
  <2>3. SubSeq(message, 1, Len(message)) = message
    BY DecodedIsPrefix
  <2> QED
    BY <2>2, <2>3, DecodedIsPrefix
<1> QED
  BY <1>1, CodecInvariance, LayoutInvariance, PTL

\* A frame that was cut gives no byte that was not sent, and passes for whole only where
\* cobs_decode_block wants no delimiter.
THEOREM CutsNoticed == Spec => []CutNoticed
<1>1. CodecIInv /\ CodecLaid => CutNoticed
  <2> SUFFICES ASSUME CodecIInv, CodecLaid, Sent, frame # wire
               PROVE  /\ IsPrefix(Decoder!Decoded, message)
                      /\ result = "Ok" => frame = <<>> \/ ~small
    BY DEF CutNoticed, Cut
  <2>1. dpc = "decoded" /\ Arrived /\ Finished /\ OnWire
    BY DecodedIsPrefix DEF Sent
  <2>2. Len(frame) # Len(wire)
    <3>1. Len(frame) = Len(wire) => \A i \in 1 .. Len(frame) : frame[i] = wire[i]
      BY <2>1 DEF Arrived
    <3> QED
      BY <3>1, DecodedIsPrefix, SeqEqual
  <2>3. Len(frame) <= Body
    BY <2>1, <2>2 DEF Arrived, OnWire
  <2>4. IsPrefix(Decoder!Decoded, message)
    <3>1. output \in 0 .. Len(message) /\ message \in Seq(Byte) /\ Len(message) \in Nat
      BY <2>1, DecodedIsPrefix DEF OnWire
    <3>2. Len(SubSeq(message, 1, output)) = output
      BY <3>1
    <3>3. /\ Len(Decoder!Decoded) = output /\ Len(Decoder!Decoded) <= Len(message)
          /\ Decoder!Decoded = SubSeq(message, 1, Len(Decoder!Decoded))
      BY <3>1, <3>2, DecodedIsPrefix
    <3> QED
      BY <3>3 DEF IsPrefix
  <2> QED
    BY <2>1, <2>3, <2>4 DEF Finished
<1> QED
  BY <1>1, CodecInvariance, LayoutInvariance, PTL
=============================================================================
