-------------------------------- MODULE Cobs --------------------------------
(***************************************************************************)
(* What the two halves of COBS (Inc/Stuff/IO/Delim.hpp, Src/IO/Delim.cpp)   *)
(* have in common: the size of a full block and what they are given.        *)
(***************************************************************************)
EXTENDS Integers, Sequences

CONSTANTS
    Full,       \* 255: the distance that closes a block with no zero, its code byte
    Messages,   \* what may be encoded
    Frames      \* what may be decoded besides what was encoded, well formed or not

ASSUME CobsAssumption == Full \in Nat /\ Full >= 2

Byte == 0 .. Full

ASSUME MessagesAreBytes == Messages \subseteq Seq(Byte)

ASSUME FramesAreBytes == Frames \subseteq Seq(Byte)
=============================================================================
