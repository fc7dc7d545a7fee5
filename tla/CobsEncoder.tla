---------------------------- MODULE CobsEncoder -----------------------------
(***************************************************************************)
(* cobs_encode of Inc/Stuff/IO/Delim.hpp over cobs_encode_inplace of        *)
(* Src/IO/Delim.cpp: consistent overhead byte stuffing, a round at a time.  *)
(* A round replaces every zero it meets by the distance to the next one and *)
(* ends with the data, or where a distance no longer fits a byte; the first *)
(* distance of a round has no zero to go to and is its overhead byte.       *)
(*                                                                         *)
(* Pointers are offsets from the start of the round; prev_zero_pt points at *)
(* the overhead byte while it is -1, so that the code's two cases of dist   *)
(* are one subtraction.                                                     *)
(***************************************************************************)
EXTENDS Cobs

VARIABLES
    message,        \* what the call was given
    data,           \* the caller's buffer, which the call overwrites
    base,           \* bytes consumed by the rounds before
    it, prev_zero_pt, beg_byte,     \* the round
    wire,           \* what byte_fn and buf_fn were handed
    epc             \* "idle", "round" or "encoded"

encoder == <<message, data, base, it, prev_zero_pt, beg_byte, wire, epc>>

Init ==
    /\ message = <<>>
    /\ data = <<>>
    /\ base = 0
    /\ it = 0
    /\ prev_zero_pt = -1
    /\ beg_byte = 0
    /\ wire = <<>>
    /\ epc = "idle"

Encode(m) ==
    /\ epc = "idle"
    /\ epc' = "round"
    /\ message' = m
    /\ data' = m
    /\ base' = 0
    /\ wire' = <<>>
    /\ it' = 0
    /\ prev_zero_pt' = -1
    /\ beg_byte' = 0

Dist == it - prev_zero_pt

\* A byte holds a distance modulo 256.
AsByte(n) == n % (Full + 1)

\* (slip) A round ends one byte early, with the code of a shorter block ...
RoundOverEarly == base + it = Len(message) \/ Dist = Full - 1

\* (slip) ... or when the distance has already wrapped.
RoundOverLate == base + it = Len(message) \/ Dist = Full + 1

RoundOver == base + it = Len(message) \/ Dist = Full

\* *prev_zero_pt = dist: the overhead byte, or the zero the distance starts at.
Patched ==
    IF prev_zero_pt = -1 THEN data
    ELSE [data EXCEPT ![base + prev_zero_pt + 1] = AsByte(Dist)]

Overhead == IF prev_zero_pt = -1 THEN AsByte(Dist) ELSE beg_byte

\* A byte that is not zero stays.
Scan ==
    /\ epc = "round"
    /\ base < Len(message)
    /\ ~RoundOver
    /\ data[base + it + 1] # 0
    /\ it' = it + 1
    /\ UNCHANGED <<message, data, base, prev_zero_pt, beg_byte, wire, epc>>

\* A zero: the distance to it is known, the one from it starts.
ScanZero ==
    /\ epc = "round"
    /\ base < Len(message)
    /\ ~RoundOver
    /\ data[base + it + 1] = 0
    /\ data' = Patched
    /\ beg_byte' = Overhead
    /\ prev_zero_pt' = it
    /\ it' = it + 1
    /\ UNCHANGED <<message, base, wire, epc>>

\* (slip) The distance from the last zero is never written.
EndRoundUnpatched ==
    /\ epc = "round"
    /\ base < Len(message)
    /\ RoundOver
    /\ wire' = wire \o <<Overhead>> \o SubSeq(data, base + 1, base + it)
    /\ base' = base + it
    /\ it' = 0
    /\ prev_zero_pt' = -1
    /\ UNCHANGED <<message, data, beg_byte, epc>>

\* The round ends; cobs_encode hands out its overhead byte and its bytes.
EndRound ==
    /\ epc = "round"
    /\ base < Len(message)
    /\ RoundOver
    /\ data' = Patched
    /\ beg_byte' = 0
    /\ wire' = wire \o <<Overhead>> \o SubSeq(Patched, base + 1, base + it)
    /\ base' = base + it
    /\ it' = 0
    /\ prev_zero_pt' = -1
    /\ UNCHANGED <<message, epc>>

\* Everything is consumed: the delimiter.
Terminate ==
    /\ epc = "round"
    /\ base = Len(message)
    /\ wire' = Append(wire, 0)
    /\ epc' = "encoded"
    /\ UNCHANGED <<message, data, base, it, prev_zero_pt, beg_byte>>

Step == Scan \/ ScanZero \/ EndRound \/ Terminate

Next == (\E m \in Messages : Encode(m)) \/ Step

Spec == Init /\ [][Next]_encoder
-----------------------------------------------------------------------------
TypeOK ==
    /\ message \in Seq(Byte)
    /\ data \in [1 .. Len(message) -> Byte]
    /\ base \in 0 .. Len(message)
    /\ it \in 0 .. Len(message) - base
    /\ prev_zero_pt \in -1 .. it - 1
    /\ beg_byte \in Byte
    /\ epc \in {"idle", "round", "encoded"}

\* A distance always fits a byte: the loop stops before it would wrap to 0.
DistFits == Dist \in 1 .. Full

\* Nothing on the wire is zero but the delimiter that ends it.
ZeroOnlyAtEnd ==
    /\ epc = "encoded" => wire # <<>> /\ wire[Len(wire)] = 0
    /\ \A i \in 1 .. Len(wire) :
           wire[i] = 0 => epc = "encoded" /\ i = Len(wire)

\* The overhead is one byte for every started block, and the delimiter.
OverheadBounded ==
    Len(wire) <= Len(message) + Len(message) \div (Full - 1) + 2

\* The inductive invariant of ZeroOnlyAtEnd: what lies between the open distance
\* and the scan has no zero, what lies before it in the round was patched.
Scanned ==
    \A i \in 1 .. it : i # prev_zero_pt + 1 => data[base + i] # 0

OverheadKnown == prev_zero_pt # -1 => beg_byte # 0

WireNonZero == epc # "encoded" => wire \in Seq(1 .. Full)

Terminated ==
    epc = "encoded" => \E blocks \in Seq(1 .. Full) : wire = Append(blocks, 0)

IInv ==
    /\ TypeOK
    /\ DistFits
    /\ Scanned
    /\ OverheadKnown
    /\ WireNonZero
    /\ Terminated
=============================================================================
