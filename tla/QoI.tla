------------------------------- MODULE QoI -------------------------------
(***************************************************************************)
(* The QoI codec of Stuff/Graphics/Image/QoI.ipp: an image is encoded      *)
(* pixel by pixel, the bytes travel (whole, cut or with one byte changed), *)
(* and are decoded block by block.  A colour is <<r, g, b, a>>.            *)
(***************************************************************************)
EXTENDS Format

CONSTANTS
  Images,       \* sequences of pixels: the images encoded, one row high
  BadBytes,     \* the bytes a damaged one may become
  DamageUpTo    \* only images of at most so many pixels are damaged

Byte == 0 .. 255
Pixel == Byte \X Byte \X Byte \X Byte

\* The number of pixels has a place in the four bytes of a dimension
ASSUME QoIAssumption ==
  /\ \A im \in Images : im \in Seq(Pixel) /\ im # << >> /\ Len(im) \div 256^3 \in Byte
  /\ BadBytes \subseteq Byte

VARIABLES
  image,        \* pixels of the image given to encode
  bytes,        \* what is written, then what the decoder is given
  pos,          \* pixels encoded, then bytes read
  coder,        \* the colours both sides keep: [map, last_seen], and run_length
  out,          \* pixels of the decoded image
  pixels,       \* how many it shall have
  stage,        \* "encode", "sent", "header", "payload", "ending", "image" or "error"
  damage        \* what happened on the way: "none", "cut" or "changed"

qoiVars == << image, bytes, pos, coder, out, pixels, stage, damage >>

Black == << 0, 0, 0, 255 >>

hash(c) == (3 * c[1] + 5 * c[2] + 7 * c[3] + 11 * c[4]) % 64

\* Both sides begin with a zeroed map and opaque black
FreshCoder == [map |-> [h \in 0 .. 63 |-> << 0, 0, 0, 0 >>], last_seen |-> Black, run_length |-> 0]

BE32(x) == [k \in 1 .. 4 |-> (x \div 256^(4 - k)) % 256]
to_bytes(width, height) == << 113, 111, 105, 102 >> \o BE32(width) \o BE32(height) \o << 4, 0 >>

Ending == << 0, 0, 0, 0, 0, 0, 0, 1 >>

-----------------------------------------------------------------------------
(***************************************************************************)
(* Encoding                                                                *)
(***************************************************************************)
RunBlock(length) == << 192 + ((length - 1) % 64) >>

\* The channels by which a colour differs from the one before
Delta(cur, last, channel) == cur[channel] - last[channel]

DiffFits(cur, last) == \A ch \in 1 .. 3 : Delta(cur, last, ch) + 2 \in 0 .. 3
DiffBlock(cur, last) ==
  << 64 + 16 * (Delta(cur, last, 1) + 2) + 4 * (Delta(cur, last, 2) + 2) + Delta(cur, last, 3) + 2 >>

LumaFits(cur, last) ==
  LET dg == Delta(cur, last, 2)
  IN  dg \in -32 .. 31 /\ \A ch \in {1, 3} : Delta(cur, last, ch) - dg \in -8 .. 7
LumaBlock(cur, last) ==
  LET dg == Delta(cur, last, 2)
  IN  << 128 + dg + 32, 16 * (Delta(cur, last, 1) - dg + 8) + Delta(cur, last, 3) - dg + 8 >>

RGBABlock(cur, last) ==
  IF cur[4] # last[4] THEN << 255, cur[1], cur[2], cur[3], cur[4] >> ELSE << 254, cur[1], cur[2], cur[3] >>

\* The first block that can express the pixel, in the encoder's order
Block(cur, c) ==
  IF c.map[hash(cur)] = cur THEN << hash(cur) >>
  ELSE IF cur[4] = c.last_seen[4] /\ DiffFits(cur, c.last_seen) THEN DiffBlock(cur, c.last_seen)
  ELSE IF cur[4] = c.last_seen[4] /\ LumaFits(cur, c.last_seen) THEN LumaBlock(cur, c.last_seen)
  ELSE RGBABlock(cur, c.last_seen)

\* (slip) a run of any length goes on
NoFlush(c) == FALSE

\* A run is flushed at 62: the bytes of longer ones are those of RGB and RGBA
MustFlush(c) == c.run_length >= 62

EncodePixel ==
  LET cur == image[pos + 1]
      full == IF MustFlush(coder) THEN RunBlock(coder.run_length) ELSE << >>
      run == IF MustFlush(coder) THEN 0 ELSE coder.run_length
      same == cur = coder.last_seen
  IN  /\ stage = "encode"
      /\ pos < Len(image)
      /\ bytes' = bytes \o full \o (IF same THEN << >>
                    ELSE (IF run # 0 THEN RunBlock(run) ELSE << >>) \o Block(cur, coder))
      /\ coder' = [map |-> [coder.map EXCEPT ![hash(cur)] = cur], last_seen |-> cur,
                   run_length |-> IF same THEN run + 1 ELSE 0]
      /\ pos' = pos + 1
      /\ UNCHANGED << image, out, pixels, stage, damage >>

FinishEncode ==
  /\ stage = "encode"
  /\ pos = Len(image)
  /\ bytes' = bytes \o (IF coder.run_length # 0 THEN RunBlock(coder.run_length) ELSE << >>) \o Ending
  /\ stage' = "sent"
  /\ UNCHANGED << image, pos, coder, out, pixels, damage >>

QoIInit ==
  /\ image \in Images
  /\ bytes = to_bytes(Len(image), 1)
  /\ pos = 0
  /\ coder = FreshCoder
  /\ out = << >>
  /\ pixels = 0
  /\ stage = "encode"
  /\ damage = "none"

-----------------------------------------------------------------------------
(***************************************************************************)
(* The way to the decoder                                                  *)
(***************************************************************************)
Deliver ==
  /\ stage = "sent"
  /\ stage' = "header"
  /\ pos' = 0
  /\ coder' = FreshCoder
  /\ \/ UNCHANGED << bytes, damage >>
     \/ /\ Len(image) <= DamageUpTo
        /\ damage' = "cut"
        /\ \E n \in 0 .. Len(bytes) - 1 : bytes' = SubSeq(bytes, 1, n)
     \/ /\ Len(image) <= DamageUpTo
        /\ damage' = "changed"
        /\ \E i \in {4, 8, 13, 14} \cup 15 .. Len(bytes), b \in BadBytes :
             bytes[i] # b /\ bytes' = [bytes EXCEPT ![i] = b]
  /\ UNCHANGED << image, out, pixels >>

-----------------------------------------------------------------------------
(***************************************************************************)
(* Decoding                                                                *)
(***************************************************************************)
HeaderFormat == << "U8", "U8", "U8", "U8", "U32BE", "U32BE", "U8", "U8" >>

HeaderAccepted(h) ==
  /\ SubSeq(h, 1, 4) = << 113, 111, 105, 102 >>
  /\ h[5] # 0 /\ h[6] # 0
  /\ h[7] \in {3, 4}
  /\ h[8] \in {0, 1}

\* The image is created with the dimensions of the header
ReadHeader ==
  LET raw == decode(HeaderFormat, bytes, 0)
  IN  /\ stage = "header"
      /\ IF raw.ok /\ HeaderAccepted(raw.out)
         THEN /\ stage' = "payload"
              /\ pos' = raw.it
              /\ pixels' = raw.out[5] * raw.out[6]
         ELSE stage' = "error" /\ UNCHANGED << pos, pixels >>
      /\ UNCHANGED << image, bytes, coder, out, damage >>

block_type(b) ==
  CASE b = 255 -> "RGBA" [] b = 254 -> "RGB" [] b < 64 -> "Index" [] b \in 64 .. 127 -> "Diff"
    [] b \in 128 .. 191 -> "Luma" [] OTHER -> "Run"

extra_data_size(type) == CASE type = "RGB" -> 3 [] type = "RGBA" -> 4 [] type = "Luma" -> 1 [] OTHER -> 0

\* (slip) the alpha channel of a diff block starts from opaque
MovedOpaque(last, dr, dg, db) == << (last[1] + dr) % 256, (last[2] + dg) % 256, (last[3] + db) % 256, 255 >>

\* Channels wrap; the alpha channel is that of the last colour
Moved(last, dr, dg, db) == << (last[1] + dr) % 256, (last[2] + dg) % 256, (last[3] + db) % 256, last[4] >>

\* The colour a block puts in the image; e is its extra data
Colour(type, b, e, c) ==
  CASE type = "RGBA" -> e
    [] type = "RGB" -> Append(e, c.last_seen[4])
    [] type = "Index" -> c.map[b % 64]
    [] type = "Diff" -> Moved(c.last_seen, ((b \div 16) % 4) - 2, ((b \div 4) % 4) - 2, (b % 4) - 2)
    [] type = "Luma" -> LET dg == (b % 64) - 32
                        IN  Moved(c.last_seen, (e[1] \div 16) + dg - 8, dg, (e[1] % 16) + dg - 8)

\* (slip) room for one pixel is room for a run
RoomForOne(n) == Len(out) < pixels

has_remaining(n) == Len(out) + n <= pixels

\* An index or a run block leaves the map alone, any other stores its colour
DecodeBlock ==
  LET b == bytes[pos + 1]
      type == block_type(b)
      extra == extra_data_size(type)
      n == IF type = "Run" THEN (b % 64) + 1 ELSE 1
      e == SubSeq(bytes, pos + 2, pos + 1 + extra)
      cur == IF type = "Run" THEN coder.last_seen ELSE Colour(type, b, e, coder)
  IN  /\ stage = "payload"
      /\ Len(out) < pixels
      /\ pos < Len(bytes)
      /\ IF pos + 1 + extra > Len(bytes) \/ ~has_remaining(n)
         THEN stage' = "error" /\ UNCHANGED << pos, coder, out >>
         ELSE /\ out' = out \o [i \in 1 .. n |-> cur]
              /\ coder' = [map |-> IF type \in {"Run", "Index"} THEN coder.map
                                   ELSE [coder.map EXCEPT ![hash(cur)] = cur],
                           last_seen |-> cur, run_length |-> 0]
              /\ pos' = pos + 1 + extra
              /\ UNCHANGED stage
      /\ UNCHANGED << image, bytes, pixels, damage >>

\* The payload also ends where the bytes do; then the ending is missing
ReadEnding ==
  /\ stage = "payload"
  /\ Len(out) >= pixels \/ pos = Len(bytes)
  /\ stage' = IF pos + 7 <= Len(bytes) /\ \A i \in 1 .. 7 : bytes[pos + i] = 0 THEN "image" ELSE "error"
  /\ UNCHANGED << image, bytes, pos, coder, out, pixels, damage >>

QoINext == EncodePixel \/ FinishEncode \/ Deliver \/ ReadHeader \/ DecodeBlock \/ ReadEnding

QoISpec == QoIInit /\ [][QoINext]_qoiVars

-----------------------------------------------------------------------------
\* What decode makes of what encode wrote is the image again: the test of
\* Tests/Graphics/Image.cpp, for every image
RoundTrip == stage \in {"image", "error"} /\ damage = "none" => stage = "image" /\ out = image

\* Every image whose first pixel is not opaque black survives encoding and
\* decoding: at each pixel both sides hold the same map and the same last
\* colour, whichever of the six blocks the encoder chose, and no run length is
\* read as the tag of another block.  (An image that starts with opaque black is
\* stored by the encoder's map and not by the decoder's: see RoundTrip.)
RoundTripAfterColour == image[1] # Black => RoundTrip

\* No stream makes the decoder write past the image, and an image it accepts is
\* whole: from a stream that was cut only the last byte, which decode does not
\* read, can be missing.
AcceptedIsWhole ==
  /\ stage # "encode" => Len(out) <= pixels
  /\ stage = "image" => Len(out) = pixels
  /\ stage = "image" /\ damage = "cut" =>
       pos = Len(bytes) - 7 /\ (image[1] # Black => out = image)

\* Both of them: what the codec hands out is what was put in, or nothing.
PixelsSurvive == RoundTripAfterColour /\ AcceptedIsWhole
=============================================================================
