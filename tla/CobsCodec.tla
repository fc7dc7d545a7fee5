----------------------------- MODULE CobsCodec ------------------------------
(***************************************************************************)
(* The two halves of COBS one after the other, as PacketManager and the     *)
(* test of Tests/IO/Delim.cpp use them: cobs_encode, a line that may drop   *)
(* the end of the frame, cobs_decode_inplace.  Or the decoder is given a    *)
(* frame that no encoder made.                                              *)
(***************************************************************************)
EXTENDS Cobs, SequencesExt

VARIABLES
    message, data, base, it, prev_zero_pt, beg_byte, wire, epc,
    frame, buffer, input, output, remaining, small, dpc, result

Encoder == INSTANCE CobsEncoder
Decoder == INSTANCE CobsDecoder

sender == <<message, data, base, it, prev_zero_pt, beg_byte, wire, epc>>
receiver == <<frame, buffer, input, output, remaining, small, dpc, result>>
vars == <<sender, receiver>>

Init == Encoder!Init /\ Decoder!Init

Encode(m) == dpc = "idle" /\ Encoder!Encode(m) /\ UNCHANGED receiver

Encoding == Encoder!Step /\ UNCHANGED receiver

\* The frame arrives, its first n bytes at least.
Arrive(n) ==
    /\ epc = "encoded"
    /\ Decoder!Decode(SubSeq(wire, 1, n))
    /\ UNCHANGED sender

\* Something else arrives.
Foreign(f) ==
    /\ epc = "idle"
    /\ Decoder!Decode(f)
    /\ UNCHANGED sender

Decoding == Decoder!Step /\ UNCHANGED sender

Next ==
    \/ \E m \in Messages : Encode(m)
    \/ Encoding
    \/ \E n \in 0 .. Len(wire) : Arrive(n)
    \/ \E f \in Frames : Foreign(f)
    \/ Decoding

Spec == Init /\ [][Next]_vars
-----------------------------------------------------------------------------
Sent  == dpc = "decoded" /\ epc = "encoded"
Whole == Sent /\ frame = wire
Cut   == Sent /\ frame # wire

\* Nothing on the wire is zero but the delimiter that ends it, and so a reader
\* finds the end of a frame wherever it starts to listen.
ZeroOnlyAtEnd == Encoder!ZeroOnlyAtEnd

\* The overhead is one byte for every started block, and the delimiter: what
\* PacketManager sizes its buffers by.
OverheadBounded == Encoder!OverheadBounded

\* Whatever the frame holds, the decoder overwrites no byte it has not read and
\* nothing outside the frame.
WriteBehindRead == Decoder!WriteBehindRead

\* "Message was one byte short for the ending zero delimiter" (Delim.hpp) is what
\* ZeroMissing is for: a frame without its delimiter is not Ok.
OkOnlyIfTerminated == Decoder!OkOnlyIfTerminated

\* Decoding inverts encoding, and says so; all of the frame is consumed.  (The
\* empty message is the exception: it encodes to a lone delimiter, and that is
\* an UnexpectedZero with nothing decoded.)
RoundTrip ==
    Whole => /\ Decoder!Decoded = message
             /\ result = IF message = <<>> THEN "UnexpectedZero" ELSE "Ok"
             /\ input = Len(frame)

\* A frame cut short yields a prefix of the message, never a byte that was not
\* sent, and passes for whole only if it was cut to nothing or at the end of a full
\* block, where cobs_decode_block wants no delimiter.
CutNoticed ==
    Cut => /\ IsPrefix(Decoder!Decoded, message)
           /\ result = "Ok" => frame = <<>> \/ ~small

-----------------------------------------------------------------------------
(* The inductive invariant of RoundTrip and CutNoticed.  Of the bytes        *)
(* 1 .. Body of the wire (all but the delimiter) those at C are codes, and   *)
(* p[i] bytes of the message are in the first i.  A code stands for a zero   *)
(* of the message, or for nothing: an overhead byte.                       *)

Body == IF epc = "encoded" THEN Len(wire) - 1 ELSE Len(wire)

NextCode(i) == i + wire[i]

\* Every byte that is no code is the message's, every code that is no overhead a zero.
ByteLaid(p, C, i) ==
    /\ i \notin C => p[i] = p[i - 1] + 1 /\ wire[i] = message[p[i]]
    /\ i \in C => p[i] = p[i - 1] \/ (p[i] = p[i - 1] + 1 /\ message[p[i]] = 0)

BytesLaid(p, C) ==
    /\ p[0] = 0 /\ p[Body] = base
    /\ \A i \in 0 .. Body : p[i] <= base
    /\ \A i \in 1 .. Body : ByteLaid(p, C, i)

\* Each code is the distance to the next one, or to the end; overhead follows a full
\* block and only that, and only a full block ends a round before the message.
CodeChained(p, C, i) ==
    /\ wire[i] \in 1 .. Full
    /\ NextCode(i) <= Body + 1
    /\ \A j \in i + 1 .. NextCode(i) - 1 : j \notin C
    /\ NextCode(i) <= Body =>
          /\ NextCode(i) \in C
          /\ p[NextCode(i)] = p[NextCode(i) - 1] <=> wire[i] = Full
    /\ NextCode(i) = Body + 1 => wire[i] = Full \/ base = Len(message)

CodesChained(p, C) ==
    /\ C \subseteq 1 .. Body
    /\ Body > 0 => 1 \in C /\ p[1] = 0 /\ base > 0
    /\ \A i \in C : CodeChained(p, C, i)

\* Where the decoder is in it.
DecodedSoFar(p) ==
    /\ output <= Len(message)
    /\ \A i \in 1 .. output : buffer[i] = message[i]
    /\ dpc \in {"block", "data"} => output = IF input <= Body THEN p[input] ELSE Len(message)

BetweenBlocks(p, C) ==
    dpc = "block" =>
        \/ input = 0
        \/ input = Body + 1 /\ message # <<>>
        \/ ~small /\ input = Len(frame) /\ input <= Body
        \/ ~small /\ input < Body /\ input + 1 \in C /\ p[input + 1] = p[input]

InBlock(C) ==
    dpc = "data" =>
        /\ input <= Body
        /\ \E i \in C : /\ i <= input /\ remaining = NextCode(i) - input
                        /\ small = (wire[i] # Full)

Finished ==
    dpc = "decoded" =>
        /\ Len(frame) = Body + 1 =>
              /\ output = Len(message) /\ input = Len(frame)
              /\ result = IF message = <<>> THEN "UnexpectedZero" ELSE "Ok"
        /\ Len(frame) <= Body => (result = "Ok" => frame = <<>> \/ ~small)

Arrived == Len(frame) <= Body + 1 /\ \A i \in 1 .. Len(frame) : frame[i] = wire[i]

Followed(p, C) ==
    epc = "encoded" /\ dpc # "idle" =>
        Arrived /\ DecodedSoFar(p) /\ BetweenBlocks(p, C) /\ InBlock(C) /\ Finished

LayoutKept ==
    /\ epc = "encoded" => base = Len(message)
    /\ epc = "round" => dpc = "idle"
    /\ \E p \in [Nat -> Nat], C \in SUBSET Nat :
        BytesLaid(p, C) /\ CodesChained(p, C) /\ Followed(p, C)

\* The encoder in a round: the zeros it has met are chained by their distances.
Code(k) == IF k = 0 THEN beg_byte ELSE data[base + k]

RoundKept ==
    epc = "round" =>
        /\ \A k \in 1 .. Len(message) - base :
               k > it \/ message[base + k] # 0 => data[base + k] = message[base + k]
        /\ prev_zero_pt # -1 => message[base + prev_zero_pt + 1] = 0
        /\ \A k \in prev_zero_pt + 2 .. it : message[base + k] # 0
        /\ \A k \in 0 .. prev_zero_pt : k = 0 \/ message[base + k] = 0 =>
               /\ Code(k) \in 1 .. Full - 1 /\ k + Code(k) <= prev_zero_pt + 1
               /\ message[base + k + Code(k)] = 0
               /\ \A j \in k + 1 .. k + Code(k) - 1 : message[base + j] # 0
=============================================================================
