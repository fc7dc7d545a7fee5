------------------------------- MODULE UTF8 -------------------------------
(***************************************************************************)
(* UTF-8: Inc/Stuff/Util/UTF8.hpp.                                         *)
(*                                                                         *)
(* A writer encodes code points one after another, the text may lose one   *)
(* byte on the way or be cut short, and a reader decodes what is there     *)
(* until it is at the end.  encode_utf8 returns four bytes and no count:   *)
(* the writer appends as many of them as its code point needs, as          *)
(* Tests/Util/UTF8.cpp lists them.                                         *)
(***************************************************************************)
EXTENDS Integers, Sequences

CONSTANTS CodePoints, MaxCodePoints  \* what the writer may write, and how many

ASSUME Utf8Assumption == CodePoints \subseteq Nat /\ MaxCodePoints \in Nat

VARIABLES written,  \* the code points encoded
          sizes,    \* the number of bytes of each
          octets,    \* the text not decoded yet
          hurt,     \* 0, or the number of the character that lost a byte
          decoded   \* what decode_utf8 returned

utf8Vars == << written, sizes, octets, hurt, decoded >>

-----------------------------------------------------------------------------
\* (slip) The first code point of three bytes still gets two
Category_late(codepoint) ==
  CASE codepoint > 2^21 - 1 -> 4
    [] codepoint \in 2^16 .. 2^21 - 1 -> 3
    [] codepoint \in 2^11 + 1 .. 2^16 - 1 -> 2
    [] codepoint \in 2^7 .. 2^11 -> 1
    [] OTHER -> 0

\* The index into "patterns": how many bytes follow the first; 4 is too many
Category(codepoint) ==
  CASE codepoint > 2^21 - 1 -> 4
    [] codepoint \in 2^16 .. 2^21 - 1 -> 3
    [] codepoint \in 2^11 .. 2^16 - 1 -> 2
    [] codepoint \in 2^7 .. 2^11 - 1 -> 1
    [] OTHER -> 0

Patterns == << 0, 192, 224, 240 >>

\* encode_utf8, without the zeros after the last byte
encode_utf8(codepoint) ==
  LET c == IF Category(codepoint) = 4 THEN 65533 ELSE codepoint
      cat == Category(c)
  IN  [i \in 1 .. cat + 1 |->
         IF i = 1 THEN Patterns[cat + 1] + (c \div 2^(6 * cat))
                  ELSE 128 + ((c \div 2^(6 * (cat + 1 - i))) % 64)]

-----------------------------------------------------------------------------
replacement_ch == 65534

\* The category a leading byte announces; 4 is not a leading byte
LeadCategory(byte) ==
  CASE byte \in 240 .. 247 -> 3
    [] byte \in 224 .. 239 -> 2
    [] byte \in 192 .. 223 -> 1
    [] byte \in 0 .. 127 -> 0
    [] OTHER -> 4

Masks == << 128, 32, 16, 8 >>

\* (slip) A byte that leads nothing takes the byte after it along
Taken_two(text) ==
  LET cat == LeadCategory(text[1])
      size == IF cat = 4 THEN 2 ELSE cat + 1
  IN  IF size > Len(text) THEN Len(text) ELSE size

\* The bytes decode_utf8 reads of a text that is not empty
Taken(text) ==
  LET cat == LeadCategory(text[1])
  IN  IF cat = 4 THEN 1
      ELSE IF cat + 1 > Len(text) THEN Len(text) ELSE cat + 1

\* The code point decode_utf8 returns; the bytes after the first count as
\* six bits whatever they are
decode_utf8(text) ==
  LET cat == LeadCategory(text[1])
      value[i \in 0 .. cat] ==
        IF i = 0 THEN text[1] % Masks[cat + 1]
                 ELSE (64 * value[i - 1]) + (text[i + 1] % 64)
  IN  IF cat = 4 \/ cat + 1 > Len(text) THEN replacement_ch ELSE value[cat]

-----------------------------------------------------------------------------
Utf8Init ==
  /\ written = << >> /\ sizes = << >>
  /\ octets = << >> /\ hurt = 0
  /\ decoded = << >>

Encode(codepoint) ==
  /\ Len(written) < MaxCodePoints
  /\ decoded = << >> /\ hurt = 0
  /\ written' = Append(written, codepoint)
  /\ sizes' = Append(sizes, Len(encode_utf8(codepoint)))
  /\ octets' = octets \o encode_utf8(codepoint)
  /\ UNCHANGED << hurt, decoded >>

\* The number of the character the k-th byte of the text belongs to
CharacterOf(k) ==
  LET end[i \in 0 .. Len(sizes)] == IF i = 0 THEN 0 ELSE end[i - 1] + sizes[i]
  IN  CHOOSE i \in 1 .. Len(sizes) : end[i - 1] < k /\ k <= end[i]

\* The text loses its k-th byte before it is read
LoseByteOf(k) ==
  /\ decoded = << >> /\ hurt = 0
  /\ octets' = SubSeq(octets, 1, k - 1) \o SubSeq(octets, k + 1, Len(octets))
  /\ hurt' = CharacterOf(k)
  /\ UNCHANGED << written, sizes, decoded >>

Decode ==
  /\ octets # << >>
  /\ decoded' = Append(decoded, decode_utf8(octets))
  /\ octets' = SubSeq(octets, Taken(octets) + 1, Len(octets))
  /\ UNCHANGED << written, sizes, hurt >>

Utf8Next ==
  \/ \E c \in CodePoints : Encode(c)
  \/ \E k \in DOMAIN octets : LoseByteOf(k)
  \/ Decode

Utf8Spec == Utf8Init /\ [][Utf8Next]_utf8Vars

-----------------------------------------------------------------------------
\* What a code point is after a round trip: those of more than 21 bits are
\* replaced when they are encoded
Carried(codepoint) == IF codepoint > 2^21 - 1 THEN 65533 ELSE codepoint

(***************************************************************************)
(* An undamaged text decodes to the code points it was written from: no    *)
(* boundary between the lengths is off by one in encode_utf8 and not in    *)
(* decode_utf8, and a character never swallows a part of the next.         *)
(***************************************************************************)
DecodesBack ==
  hurt = 0 => \A i \in DOMAIN decoded :
                 i \in DOMAIN written /\ decoded[i] = Carried(written[i])

(***************************************************************************)
(* A lost byte spoils the character it is of and at most the one after it, *)
(* which decode_utf8 may read as the missing byte.  The characters before  *)
(* come out as written, and so do those after, however many replacements   *)
(* stand between.                                                          *)
(***************************************************************************)
DamageIsLocal ==
  hurt # 0 =>
    /\ \A i \in DOMAIN decoded : i < hurt => decoded[i] = Carried(written[i])
    /\ octets = << >> =>
         \A back \in 0 .. Len(written) - hurt - 2 :
            /\ back < Len(decoded)
            /\ decoded[Len(decoded) - back] = Carried(written[Len(written) - back])

\* Both of them: a text survives the way except where it was hurt.
TextSurvives == DecodesBack /\ DamageIsLocal
=============================================================================
