------------------------------ MODULE MCLines -------------------------------
(***************************************************************************)
(* The readers of delimited data and the GPS receiver, which reads its      *)
(* lines with one of them, for TLC: "part" is the one that takes steps.     *)
(* The sentences are those of Tests/IO/GPS.cpp (the checksums of the        *)
(* altered ones were worked out anew): without a fix, with one, of another  *)
(* position, of a field that does not parse, of a kind that is not read.    *)
(***************************************************************************)
EXTENDS ByteReader, BufferedDelimitedReader, GPS

Ascii == " !.#$%&'()*+,-./0123456789:;<=>?@ABCDEFGHIJKLMNOPQRSTUVWXYZ"

Codes(s) == [i \in 1 .. Len(s) |->
                31 + CHOOSE k \in 1 .. Len(Ascii) : k # 3 /\ SubSeq(Ascii, k, k) = SubSeq(s, i, i)]

Hex(x) == IF x < 10 THEN 48 + x ELSE 55 + x

\* A sentence as the device frames it
Framed(s) ==
    LET payload == Codes(s)
        sum == checksum(payload)
    IN  <<36>> \o payload \o <<42, Hex(sum \div 16), Hex(sum % 16), 13, 10>>

Angle(d, m, digits, decimal) ==
    [degrees |-> d, minutes |-> m, minutes_decimal_digits |-> digits, minutes_decimal |-> decimal]
At(hh, mm, ss) == Some([hh |-> hh, mm |-> mm, ss |-> ss, sss |-> 0])

Here == Some(<<Angle(37, 3, 5, 63512), Angle(35, 21, 5, 5260)>>)
There == Some(<<Angle(8, 59, 4, 9), Angle(120, 0, 4, 7004)>>)

TestSentences == {
  [text |-> Framed("GPRMC,,V,,,,,,,,,,N"),
   data |-> [fix |-> FALSE, time |-> None, location |-> None, satellites |-> None]],
  [text |-> Framed("GPGGA,143025.00,3703.63512,N,03521.05260,E,0,03,,,,,,,"),
   data |-> [fix |-> FALSE, time |-> At(14, 30, 25), location |-> Here, satellites |-> Some(3)]],
  [text |-> Framed("GPGGA,143026.00,3703.63512,N,03521.05260,E,1,04,1.70,134.6,M,27.5,M,,"),
   data |-> [fix |-> TRUE, time |-> At(14, 30, 26), location |-> Here, satellites |-> Some(4)]],
  [text |-> Framed("GPGLL,0859.0009,S,12000.7004,W,143027.00,A,A"),
   data |-> [fix |-> TRUE, time |-> At(14, 30, 27), location |-> There, satellites |-> None]],
  [text |-> Framed("GPGLL,0859.0009,S,12000.,W,143028.00,A,A"),
   data |-> [fix |-> TRUE, time |-> At(14, 30, 28), location |-> None, satellites |-> None]] }

TestStreams == { s \in [1 .. 3 -> TestSentences] : s[1] # s[2] /\ s[2] # s[3] /\ s[1] # s[3] }

-----------------------------------------------------------------------------
(***************************************************************************)
(* Delimiters of one byte, as PacketManager's, and of two, like a line's    *)
(***************************************************************************)
CONSTANTS d, x, y, cr, lf

MCDelimiters == {<<d>>, <<d, x>>}

MCDelimiter == <<cr, lf>>

-----------------------------------------------------------------------------
VARIABLE part

LinesInit ==
    /\ part \in {"byte reader", "buffered reader", "gps"}
    /\ ReaderInit /\ (part # "byte reader" => delimiter = <<d>>)
    /\ BufferedInit
    /\ GpsInit /\ (part # "gps" => stream = CHOOSE s \in TestStreams : TRUE)

LinesNext ==
    /\ UNCHANGED part
    /\ \/ part = "byte reader" /\ ReaderNext /\ UNCHANGED <<bufferedVars, gpsVars>>
       \/ part = "buffered reader" /\ BufferedNext /\ UNCHANGED <<readerVars, gpsVars>>
       \/ part = "gps" /\ GpsNext /\ UNCHANGED <<readerVars, bufferedVars>>
=============================================================================
