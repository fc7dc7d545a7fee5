---------------------------- MODULE CobsDecoder -----------------------------
(***************************************************************************)
(* cobs_decode_inplace of Src/IO/Delim.cpp: the loop over cobs_decode_block *)
(* and the loop inside it, one action for each way through an iteration.    *)
(* The output overwrites the input, behind the cursor that reads it.        *)
(***************************************************************************)
EXTENDS Cobs

Results == {"Ok", "ZeroMissing", "TooShort", "UnexpectedZero"}

VARIABLES
    frame,              \* what the call was given
    buffer,             \* the caller's buffer, which the call overwrites
    input, output,      \* bytes read and bytes written so far
    remaining, small,   \* remaining_until_zero and small_block
    dpc,                \* "idle", "block" (entering one), "data", "decoded"
    result

decoder == <<frame, buffer, input, output, remaining, small, dpc, result>>

Init ==
    /\ frame = <<>>
    /\ buffer = <<>>
    /\ input = 0
    /\ output = 0
    /\ remaining = 0
    /\ small = TRUE
    /\ dpc = "idle"
    /\ result = "Ok"

Decode(f) ==
    /\ dpc = "idle"
    /\ dpc' = "block"
    /\ frame' = f
    /\ buffer' = f
    /\ input' = 0
    /\ output' = 0
    /\ UNCHANGED <<remaining, small, result>>

AtEnd == input = Len(frame)

\* *current_input_it
Next1 == buffer[input + 1]

Stop(r) ==
    /\ dpc' = "decoded"
    /\ result' = r
    /\ UNCHANGED <<frame, buffer, output, remaining, small>>

\* No further block: "Invalid" inside, Ok to the caller.
NoMoreBlocks ==
    /\ dpc = "block"
    /\ AtEnd
    /\ Stop("Ok")
    /\ UNCHANGED input

\* (slip) A block starts with the zero before it, the first one too.
BlockStartEmits ==
    /\ dpc = "block"
    /\ ~AtEnd
    /\ Next1 # 0
    /\ input' = input + 1
    /\ output' = output + 1
    /\ remaining' = Next1
    /\ small' = (Next1 # Full)
    /\ dpc' = "data"
    /\ UNCHANGED <<frame, buffer, result>>

\* The code byte of a block.
BlockStart ==
    /\ dpc = "block"
    /\ ~AtEnd
    /\ Next1 # 0
    /\ input' = input + 1
    /\ remaining' = Next1
    /\ small' = (Next1 # Full)
    /\ dpc' = "data"
    /\ UNCHANGED <<frame, buffer, output, result>>

\* A zero for a code byte, which is read past.
BlockStartZero ==
    /\ dpc = "block"
    /\ ~AtEnd
    /\ Next1 = 0
    /\ input' = input + 1
    /\ Stop("UnexpectedZero")

\* (slip) The data byte is copied to where it was read.
CopyUnshifted ==
    /\ dpc = "data"
    /\ remaining > 1
    /\ ~AtEnd
    /\ Next1 # 0
    /\ output' = output + 1
    /\ input' = input + 1
    /\ remaining' = remaining - 1
    /\ UNCHANGED <<frame, buffer, small, dpc, result>>

\* A byte of the block's data.
Copy ==
    /\ dpc = "data"
    /\ remaining > 1
    /\ ~AtEnd
    /\ Next1 # 0
    /\ buffer' = [buffer EXCEPT ![output + 1] = Next1]
    /\ output' = output + 1
    /\ input' = input + 1
    /\ remaining' = remaining - 1
    /\ UNCHANGED <<frame, small, dpc, result>>

\* (slip) A block that is cut short counts as the last one.
DataMissingOk ==
    /\ dpc = "data"
    /\ remaining > 1
    /\ AtEnd
    /\ Stop("Ok")
    /\ UNCHANGED input

\* The data ends inside a block ...
DataMissing ==
    /\ dpc = "data"
    /\ remaining > 1
    /\ AtEnd
    /\ Stop("TooShort")
    /\ UNCHANGED input

\* ... or a zero stands inside it.
DataZero ==
    /\ dpc = "data"
    /\ remaining > 1
    /\ ~AtEnd
    /\ Next1 = 0
    /\ Stop("UnexpectedZero")
    /\ UNCHANGED input

\* The next block of the message: the zero the last one stands for is emitted
\* before the code byte is read.
ZeroBetween ==
    /\ dpc = "data"
    /\ remaining = 1
    /\ small
    /\ ~AtEnd
    /\ Next1 # 0
    /\ buffer' = [buffer EXCEPT ![output + 1] = 0]
    /\ output' = output + 1
    /\ remaining' = buffer'[input + 1]
    /\ small' = (buffer'[input + 1] # Full)
    /\ input' = input + 1
    /\ UNCHANGED <<frame, dpc, result>>

\* The delimiter, or after a full block anything at all, ends the block.
BlockEnd ==
    /\ dpc = "data"
    /\ remaining = 1
    /\ ~AtEnd
    /\ Next1 = 0 \/ ~small
    /\ input' = IF Next1 = 0 THEN input + 1 ELSE input
    /\ dpc' = "block"
    /\ UNCHANGED <<frame, buffer, output, remaining, small, result>>

\* The data ends where a delimiter is due: an error, but not after a full block.
DelimiterMissing ==
    /\ dpc = "data"
    /\ remaining = 1
    /\ AtEnd
    /\ small
    /\ Stop("ZeroMissing")
    /\ UNCHANGED input

FullBlockLast ==
    /\ dpc = "data"
    /\ remaining = 1
    /\ AtEnd
    /\ ~small
    /\ dpc' = "block"
    /\ UNCHANGED <<frame, buffer, input, output, remaining, small, result>>

Step ==
    \/ NoMoreBlocks \/ BlockStart \/ BlockStartZero
    \/ Copy \/ DataMissing \/ DataZero
    \/ ZeroBetween \/ BlockEnd \/ DelimiterMissing \/ FullBlockLast

Next == (\E f \in Frames : Decode(f)) \/ Step

Spec == Init /\ [][Next]_decoder
-----------------------------------------------------------------------------
Decoded == SubSeq(buffer, 1, output)

TypeOK ==
    /\ frame \in Seq(Byte)
    /\ buffer \in [1 .. Len(frame) -> Byte]
    /\ input \in 0 .. Len(frame)
    /\ output \in 0 .. Len(frame)
    /\ remaining \in Byte
    /\ small \in BOOLEAN
    /\ dpc \in {"idle", "block", "data", "decoded"}
    /\ result \in Results

\* The write cursor stays behind the read cursor, by at least the code byte of
\* the block being read: whatever the frame holds, no byte is overwritten
\* before it is read (ZeroBetween writes and then reads) or outside the frame.
WriteBehindRead ==
    /\ output <= input
    /\ dpc = "data" => output < input /\ remaining >= 1

UnreadIntact == \A i \in input + 1 .. Len(frame) : buffer[i] = frame[i]

IInv == TypeOK /\ WriteBehindRead /\ UnreadIntact

\* Only UnexpectedZero leaves part of the frame unread (COBSResult, Delim.hpp).
ConsumedFully ==
    dpc = "decoded" /\ result # "UnexpectedZero" => input = Len(frame)

\* "Message was one byte short for the ending zero delimiter" is what ZeroMissing
\* is for: a frame without its delimiter is not Ok.
OkOnlyIfTerminated ==
    dpc = "decoded" /\ result = "Ok" /\ frame # <<>> => frame[Len(frame)] = 0
=============================================================================
