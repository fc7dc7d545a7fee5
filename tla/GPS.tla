-------------------------------- MODULE GPS ---------------------------------
(***************************************************************************)
(* The GPS receiver of Examples/GPS.cpp: bytes of a serial port go one by   *)
(* one through a Delim::ByteReader<96, 2>, whose lines are given to         *)
(* GPSState::feed_line of Src/IO/GPS.cpp.  A line is handled when the byte  *)
(* after its ending arrives.  A byte is its code, a text a sequence of      *)
(* them; an std::optional is <<>> or <<value>>.                             *)
(***************************************************************************)
EXTENDS Conv, FiniteSets

CONSTANTS
    LineSize,       \* 96: the buffer of the reader
    Streams,        \* what the device sends: sequences of sentences
    BadBytes,       \* what a damaged byte may become
    MaxFaults       \* bytes the line may lose or damage

VARIABLES
    stream,         \* the sentences sent, [text |-> ..., data |-> ...]
    sentByte,       \* <<sentence, byte>> that is sent next
    faults,         \* the bytes that were lost or damaged, <<sentence, byte>>
    rdr,            \* m_reader
    gps             \* m_gps_state

gpsVars == <<stream, sentByte, faults, rdr, gps>>

Lines == INSTANCE ByteReaderOps WITH BufSize <- LineSize, Delimiter <- <<13, 10>>

Field(segments, i) == IF i + 1 <= Len(segments) THEN segments[i + 1] ELSE <<>>

-----------------------------------------------------------------------------
(***************************************************************************)
(* A line is a message                                                     *)
(***************************************************************************)
\* The exclusive or of the bytes: a bit is set if an odd number of them have it.
checksum(payload) ==
    LET Parity(k) == Cardinality({i \in 1 .. Len(payload) : (payload[i] \div 2^k) % 2 = 1}) % 2
    IN  Parity(0) + 2 * Parity(1) + 4 * Parity(2) + 8 * Parity(3)
        + 16 * Parity(4) + 32 * Parity(5) + 64 * Parity(6) + 128 * Parity(7)

\* (slip) Any checksum will do.
create_from_sv_trusting(line) ==
    LET n == Len(line)
    IN  IF n >= 4 /\ line[1] = 36 /\ line[n - 2] = 42
        THEN Some(SubSeq(line, 2, n - 3)) ELSE None

\* The payload between '$' and '*' if the two digits after it are its checksum.
\* The "\r\n" that may end a sentence was taken off by the reader.
create_from_sv(line) ==
    LET n == Len(line)
        given == fast_hex_sv_to_int(SubSeq(line, n - 1, n))
        payload == SubSeq(line, 2, n - 3)
    IN  IF /\ n >= 4 /\ line[1] = 36 /\ line[n - 2] = 42
           /\ Has(given) /\ The(given) = checksum(payload)
        THEN Some(payload) ELSE None

Commas(payload) == {i \in 1 .. Len(payload) : payload[i] = 44}

\* The segments are what lies between the commas, 32 at most, and not of nothing.
extract_segments(payload) ==
    LET commas == Commas(payload)
        End(k) == IF k > Cardinality(commas) THEN Len(payload) + 1
                  ELSE IF k = 0 THEN 0
                  ELSE CHOOSE c \in commas : Cardinality({d \in commas : d <= c}) = k
    IN  [k \in 1 .. Cardinality(commas) + 1 |-> SubSeq(payload, End(k - 1) + 1, End(k) - 1)]

Countable(payload) == payload # <<>> /\ Cardinality(Commas(payload)) < 32

-----------------------------------------------------------------------------
(***************************************************************************)
(* The fields of a message                                                 *)
(***************************************************************************)
Part(segment, start, len) ==
    LET last == start + len IN SubSeq(segment, start + 1, IF last > Len(segment) THEN Len(segment) ELSE last)

parse_utc_time(segment) ==
    LET hh == fast_sv_to_int(Part(segment, 0, 2))
        mm == fast_sv_to_int(Part(segment, 2, 2))
        ss == fast_sv_to_int(Part(segment, 4, 2))
        sss == fast_sv_to_int(Part(segment, 7, 3))
    IN  IF Len(segment) = 9 /\ Has(hh) /\ Has(mm) /\ Has(ss) /\ Has(sss)
        THEN Some([hh |-> The(hh), mm |-> The(mm), ss |-> The(ss), sss |-> The(sss)]) ELSE None

Dots(segment) == {i \in 1 .. Len(segment) : segment[i] = 46}

\* (slip) The degrees of a longitude have two digits as well.
parse_angle_short(segment, degree_digits) ==
    LET dot == CHOOSE d \in Dots(segment) : \A e \in Dots(segment) : d <= e
        degrees == from_chars(SubSeq(segment, 1, 2), int, 10)
        minutes == from_chars(SubSeq(segment, 3, dot - 1), int, 10)
        decimal == from_chars(SubSeq(segment, dot + 1, Len(segment)), int, 10)
    IN  IF Dots(segment) = {} \/ dot - 1 <= degree_digits THEN None
        ELSE IF degrees.ec # "" \/ minutes.ec # "" \/ decimal.ec # "" THEN None
        ELSE Some([degrees |-> The(degrees.value), minutes |-> The(minutes.value),
                   minutes_decimal_digits |-> Len(segment) - dot, minutes_decimal |-> The(decimal.value)])

parse_angle(segment, degree_digits) ==
    LET dot == CHOOSE d \in Dots(segment) : \A e \in Dots(segment) : d <= e
        degrees == from_chars(SubSeq(segment, 1, degree_digits), int, 10)
        minutes == from_chars(SubSeq(segment, degree_digits + 1, dot - 1), int, 10)
        decimal == from_chars(SubSeq(segment, dot + 1, Len(segment)), int, 10)
    IN  IF Dots(segment) = {} \/ dot - 1 <= degree_digits THEN None
        ELSE IF degrees.ec # "" \/ minutes.ec # "" \/ decimal.ec # "" THEN None
        ELSE Some([degrees |-> The(degrees.value), minutes |-> The(minutes.value),
                   minutes_decimal_digits |-> Len(segment) - dot, minutes_decimal |-> The(decimal.value)])

\* Both indicators are stored in the first of the pair; the second keeps the value
\* the pair is made with, the first of the enumeration.
parse_direction_indicators(ns, ew) ==
    IF ns = <<>> \/ ew = <<>> \/ Upper(ns[1]) \notin {78, 83} THEN None
    ELSE IF Upper(ew[1]) = 69 THEN Some(<<"E", "N">>)
    ELSE IF Upper(ew[1]) = 87 THEN Some(<<"W", "N">>)
    ELSE None

NoUpdate == [time |-> <<>>, latitude |-> <<>>, longitude |-> <<>>, ns_direction |-> <<>>,
             ew_direction |-> <<>>, connected_satellites |-> <<>>]

Position(segments, i) ==
    [NoUpdate EXCEPT !.latitude = Field(segments, i), !.ns_direction = Field(segments, i + 1),
                     !.longitude = Field(segments, i + 2), !.ew_direction = Field(segments, i + 3)]

GPGGA == <<71, 80, 71, 71, 65>>
GPGLL == <<71, 80, 71, 76, 76>>
GPRMC == <<71, 80, 82, 77, 67>>

\* (slip) A fix that is not valid is a position all the same.
UpdateDataInvalidFix(segments) ==
    CASE segments[1] = GPGGA ->
           Some([Position(segments, 2)
                 EXCEPT !.time = Field(segments, 1), !.connected_satellites = Field(segments, 7)])
      [] segments[1] = GPGLL -> Some([Position(segments, 1) EXCEPT !.time = Field(segments, 5)])
      [] segments[1] = GPRMC -> Some([Position(segments, 3) EXCEPT !.time = Field(segments, 1)])
      [] OTHER -> Some(NoUpdate)

\* What feed_line hands to update_things, nothing when it returns before.  The date
\* is no part of it: no sentence's date is read.
UpdateData(segments) ==
    CASE segments[1] = GPGGA ->
           Some([(IF Field(segments, 6) # <<48>> THEN Position(segments, 2) ELSE NoUpdate)
                 EXCEPT !.time = Field(segments, 1), !.connected_satellites = Field(segments, 7)])
      [] segments[1] = GPGLL ->
           IF Field(segments, 6) # <<65>> THEN None
           ELSE Some([Position(segments, 1) EXCEPT !.time = Field(segments, 5)])
      [] segments[1] = GPRMC ->
           IF Field(segments, 2) # <<65>> THEN None
           ELSE Some([Position(segments, 3) EXCEPT !.time = Field(segments, 1)])
      [] OTHER -> Some(NoUpdate)

\* (slip) Each of the two angles is taken as it comes.
update_things_angles_apart(g, u) ==
    LET lat == parse_angle(u.latitude, 2)
        long == parse_angle(u.longitude, 3)
        time == parse_utc_time(u.time)
    IN  [g EXCEPT
          !.time = IF Has(time) THEN time ELSE @,
          !.location = IF Has(lat) /\ @ # None THEN Some(<<The(lat), The(@)[2]>>)
                       ELSE IF Has(lat) /\ Has(long) THEN Some(<<The(lat), The(long)>>) ELSE @]

\* A field that parses replaces the old one, on its own; the angles only together.
update_things(g, u) ==
    LET lat == parse_angle(u.latitude, 2)
        long == parse_angle(u.longitude, 3)
        time == parse_utc_time(u.time)
        direction == parse_direction_indicators(u.ns_direction, u.ew_direction)
        satellites == from_chars(u.connected_satellites, int, 10)
    IN  [g EXCEPT
          !.time = IF Has(time) THEN time ELSE @,
          !.location = IF Has(lat) /\ Has(long) THEN Some(<<The(lat), The(long)>>) ELSE @,
          !.direction = IF Has(direction) THEN direction ELSE @,
          !.connected_satellites = IF satellites.ec = "" THEN The(satellites.value) ELSE @]

feed_line(g, line) ==
    LET payload == create_from_sv(line)
        update == UpdateData(extract_segments(The(payload)))
    IN  IF Has(payload) /\ Countable(The(payload)) /\ Has(update)
        THEN update_things(g, The(update)) ELSE g

-----------------------------------------------------------------------------
(***************************************************************************)
(* The connection                                                          *)
(***************************************************************************)
NothingKnown == [time |-> None, date |-> None, location |-> None, direction |-> None, connected_satellites |-> 0]

GpsInit ==
    /\ stream \in Streams
    /\ sentByte = <<1, 1>>
    /\ faults = {}
    /\ rdr = Lines!Empty
    /\ gps = NothingKnown

\* new_data for one byte.  A buffer that is full without a match is reported, and
\* its bytes but the last two are fed all the same.
NewData(b) ==
    IF Lines!Accepts(rdr)
    THEN rdr' = Lines!Updated(rdr, b) /\ UNCHANGED gps
    ELSE /\ gps' = feed_line(gps, Lines!WithoutDelimiter(rdr))
         /\ rdr' = Lines!Updated(Lines!Empty, b)

Sending == sentByte[1] <= Len(stream)
Sent == stream[sentByte[1]].text[sentByte[2]]

Advance ==
    sentByte' = IF sentByte[2] = Len(stream[sentByte[1]].text)
                THEN <<sentByte[1] + 1, 1>> ELSE <<sentByte[1], sentByte[2] + 1>>

Receive ==
    /\ Sending
    /\ NewData(Sent)
    /\ Advance
    /\ UNCHANGED <<stream, faults>>

MayFail == Sending /\ Cardinality(faults) < MaxFaults /\ faults' = faults \cup {sentByte}

ReceiveDamaged ==
    /\ MayFail
    /\ \E b \in BadBytes : b # Sent /\ NewData(b)
    /\ Advance
    /\ UNCHANGED stream

LoseByte ==
    /\ MayFail
    /\ Advance
    /\ UNCHANGED <<stream, rdr, gps>>

GpsNext == Receive \/ ReceiveDamaged \/ LoseByte

-----------------------------------------------------------------------------
(***************************************************************************)
(* What a reader of the state may rely on.  A sentence's data is what its   *)
(* text says, [fix, time, location, satellites], the last three optional.   *)
(***************************************************************************)
Taken(g, data) ==
    [g EXCEPT !.time = IF Has(data.time) THEN data.time ELSE @,
              !.location = IF data.fix /\ Has(data.location) THEN data.location ELSE @,
              !.connected_satellites = IF Has(data.satellites) THEN The(data.satellites) ELSE @]

Known(sentences) ==
    LET g[i \in 0 .. Len(stream)] ==
            IF i = 0 THEN NothingKnown
            ELSE IF i \in sentences THEN Taken(g[i - 1], stream[i].data) ELSE g[i - 1]
    IN  g[Len(stream)]

\* A fault in a sentence's ending merges it with the one after it.
InEnding(f) == f[2] >= Len(stream[f[1]].text) - 1
Spoilt == {f[1] : f \in faults} \cup {f[1] + 1 : f \in {x \in faults : InEnding(x)}}

\* The sentences whose ending was followed by another byte, the spoilt ones apart.
Handled == {i \in 1 .. Len(stream) : sentByte[1] > i /\ (sentByte[1] > i + 1 \/ sentByte[2] > 1)}

\* A damaged or lost byte costs the sentence it is in, and the next one only if it
\* was in the ending, and none other: all else is what the sentences say, no field
\* is made of two of them, a position without a fix is not taken.
FollowsUnspoilt ==
    LET expected == Known(Handled \ Spoilt)
    IN  faults = {} \/ (sentByte[2] > 1 /\ sentByte[1] \notin Spoilt) =>
            /\ gps.time = expected.time
            /\ gps.location = expected.location
            /\ gps.connected_satellites = expected.connected_satellites

\* Never, whatever is lost, is a location or a time one that no sentence has sent.
NothingMadeUp ==
    /\ gps.time # None => \E i \in Handled : gps.time = stream[i].data.time
    /\ gps.location # None => \E i \in Handled : gps.location = stream[i].data.location

\* What the program knows of time, place and satellites is what the sentences said
\* that arrived unspoilt, in their order (feed_line and update_things, fed by the
\* ByteReader of Examples/GPS.cpp).
FollowsSentences == FollowsUnspoilt /\ NothingMadeUp

\* "ns, ew" (Inc/Stuff/IO/GPS.hpp:72): the first of the pair is north or south, the
\* second east or west.
DirectionIsNsEw ==
    gps.direction # None => The(gps.direction)[1] \in {"N", "S"} /\ The(gps.direction)[2] \in {"E", "W"}
=============================================================================
