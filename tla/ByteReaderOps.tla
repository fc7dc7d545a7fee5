--------------------------- MODULE ByteReaderOps ----------------------------
(***************************************************************************)
(* Delim::ByteReader of Inc/Stuff/IO/Delim.hpp as operators on its state,   *)
(* a record of the bytes read (buffer up to read_size) and the number of    *)
(* delimiter bytes matched.                                                 *)
(***************************************************************************)
EXTENDS Naturals, Sequences

CONSTANTS
    BufSize,
    Delimiter       \* a sequence of bytes

Empty == [read |-> <<>>, delim_match_size |-> 0]

HaveMatch(r) == r.delim_match_size >= Len(Delimiter)

IsFull(r) == Len(r.read) >= BufSize

\* update() returns true, and takes the byte.
Accepts(r) == ~IsFull(r) /\ ~HaveMatch(r)

\* (slip) The delimiter's byte ends the message only where one was expected.
UpdatedAnywhere(r, b) ==
    [read |-> Append(r.read, b),
     delim_match_size |->
        IF Len(r.read) > 0 /\ Delimiter[r.delim_match_size + 1] = b
        THEN r.delim_match_size + 1 ELSE r.delim_match_size]

\* The state update() leaves when it takes b.  A byte that does not continue the
\* delimiter leaves what is matched of it as it is.
Updated(r, b) ==
    [read |-> Append(r.read, b),
     delim_match_size |->
        IF Delimiter[r.delim_match_size + 1] = b
        THEN r.delim_match_size + 1 ELSE r.delim_match_size]

\* (slip) The delimiter is left on.
WithoutDelimiterKept(r) == r.read

WithoutDelimiter(r) == SubSeq(r.read, 1, Len(r.read) - Len(Delimiter))
=============================================================================
