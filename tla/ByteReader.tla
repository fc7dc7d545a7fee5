----------------------------- MODULE ByteReader -----------------------------
(***************************************************************************)
(* Delim::ByteReader of Inc/Stuff/IO/Delim.hpp fed byte by byte, and reset  *)
(* by its owner whenever update() refuses a byte, as PacketManager::rx_byte *)
(* does: the refused byte is the first of the next message.                 *)
(***************************************************************************)
EXTENDS Naturals, Sequences, SequencesExt

CONSTANTS
    Bytes,
    BufSize,
    Delimiters      \* the delimiters that readers are made with

ASSUME ReaderAssumption ==
    /\ BufSize \in Nat
    /\ \A del \in Delimiters : del \in Seq(Bytes) /\ Len(del) \in 1 .. BufSize - 1

VARIABLES reader, delimiter

readerVars == <<reader, delimiter>>

Reader == INSTANCE ByteReaderOps WITH Delimiter <- delimiter

ReaderInit ==
    /\ reader = Reader!Empty
    /\ delimiter \in Delimiters

Update(b) ==
    /\ Reader!Accepts(reader)
    /\ reader' = Reader!Updated(reader, b)
    /\ UNCHANGED delimiter

\* update() refuses b: the owner takes the message or gives it up.
UpdateRefused(b) ==
    /\ ~Reader!Accepts(reader)
    /\ reader' = Reader!Updated(Reader!Empty, b)
    /\ UNCHANGED delimiter

\* reset(), reset_safe().
ResetReader ==
    /\ reader' = Reader!Empty
    /\ UNCHANGED delimiter

ReaderNext == ResetReader \/ \E b \in Bytes : Update(b) \/ UpdateRefused(b)

ReaderSpec == ReaderInit /\ [][ReaderNext]_readerVars
-----------------------------------------------------------------------------
\* The delimiter stands somewhere in the bytes read.
Occurs(bytes) ==
    \E i \in 1 .. Len(bytes) - Len(delimiter) + 1 :
        SubSeq(bytes, i, i + Len(delimiter) - 1) = delimiter

Message == Reader!WithoutDelimiter(reader)

\* A delimiter that arrives whole is never missed, whatever precedes it (a false
\* start of the delimiter, for one).
NeverMissed == Occurs(reader.read) => Reader!HaveMatch(reader)

\* A delimiter of one byte ends the message where it first stands: what the reader
\* hands out without the delimiter is what came before it, and has none in it.
CutAtFirst ==
    Len(delimiter) = 1 /\ Reader!HaveMatch(reader) =>
        /\ reader.read = Message \o delimiter
        /\ ~Occurs(Message)
=============================================================================
