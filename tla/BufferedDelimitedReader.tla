----------------------- MODULE BufferedDelimitedReader ----------------------
(***************************************************************************)
(* BufferedDelimitedReader of Inc/Stuff/IO/Delim.hpp, which keeps a partial *)
(* delimiter out of its buffer until it turns out not to be one.  feed() is *)
(* feed_char() until that refuses a character (a caller whose data ends     *)
(* without a refusal would have it read past the end of the data, so its    *)
(* calls are those that end in a refusal).                                  *)
(***************************************************************************)
EXTENDS Naturals, Sequences, SequencesExt

CONSTANTS Chars, Delimiter, Capacity

ASSUME BufferedAssumption ==
    /\ Delimiter \in Seq(Chars) /\ Len(Delimiter) > 0
    /\ Capacity \in Nat

VARIABLES
    match_size,
    buffer,
    consumed        \* every character taken since the last reset()

bufferedVars == <<match_size, buffer, consumed>>

BufferedInit ==
    /\ match_size = 0
    /\ buffer = <<>>
    /\ consumed = <<>>

HasMessageReady == match_size = Len(Delimiter)

Free == Capacity - Len(buffer)

\* (slip) Room for the character alone.
NeededCapacityOne == 1

NeededCapacity == Len(Delimiter) + match_size + 1

Matched == SubSeq(Delimiter, 1, match_size)

\* (slip) The match starts over with every character of the delimiter.
FeedMatchRestarts(c) ==
    /\ ~HasMessageReady
    /\ Delimiter[match_size + 1] = c
    /\ match_size' = 1
    /\ consumed' = Append(consumed, c)
    /\ UNCHANGED buffer

\* The character continues the delimiter.
FeedMatch(c) ==
    /\ ~HasMessageReady
    /\ Delimiter[match_size + 1] = c
    /\ match_size' = match_size + 1
    /\ consumed' = Append(consumed, c)
    /\ UNCHANGED buffer

\* (slip) The false start of the delimiter is dropped.
FeedOtherDrops(c) ==
    /\ ~HasMessageReady
    /\ Delimiter[match_size + 1] # c
    /\ NeededCapacity <= Free
    /\ buffer' = Append(buffer, c)
    /\ match_size' = 0
    /\ consumed' = Append(consumed, c)

\* The character does not: what looked like the delimiter was data.
FeedOther(c) ==
    /\ ~HasMessageReady
    /\ Delimiter[match_size + 1] # c
    /\ NeededCapacity <= Free
    /\ buffer' = Append(buffer \o Matched, c)
    /\ match_size' = 0
    /\ consumed' = Append(consumed, c)

\* feed_char() returns false and leaves everything as it is.
FeedRefused(c) ==
    /\ \/ HasMessageReady
       \/ ~HasMessageReady /\ Delimiter[match_size + 1] # c /\ NeededCapacity > Free
    /\ UNCHANGED <<match_size, buffer, consumed>>

\* reset(), once the message is read or given up.
ResetBuffered ==
    /\ buffer' = <<>>
    /\ match_size' = 0
    /\ consumed' = <<>>

BufferedNext ==
    \/ ResetBuffered
    \/ \E c \in Chars : FeedMatch(c) \/ FeedOther(c) \/ FeedRefused(c)

BufferedSpec == BufferedInit /\ [][BufferedNext]_bufferedVars
-----------------------------------------------------------------------------
\* No character is lost or moved: the buffer and the matched part of the delimiter
\* are what was consumed, so a message is exactly the data before its delimiter.
NothingLost == consumed = buffer \o Matched

\* The buffer never outgrows what the constructor reserved: its characters never
\* move under a view that get_buffered_message() gave out.
NeverReallocates == Len(buffer) <= Capacity

\* A delimiter of two characters, like the end of a line, is missed only where the
\* character before it could itself have begun one: a mismatch puts that character
\* in the buffer without trying it as the delimiter's first.
MissedOnlyAfterFalseStart ==
    LET n == Len(consumed) - Len(Delimiter)
    IN  Len(Delimiter) <= 2 /\ IsSuffix(Delimiter, consumed) /\ ~HasMessageReady =>
            n > 0 /\ consumed[n] = Head(Delimiter)
=============================================================================
