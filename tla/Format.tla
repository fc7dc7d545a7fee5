----------------------------- MODULE Format ------------------------------
(***************************************************************************)
(* Binary record formats of Stuff/Files/Format.hpp.  A format is the       *)
(* sequence of the primitive fields it reaches from left to right: named   *)
(* fields, arrays and groups only order the calls of decode.               *)
(***************************************************************************)
EXTENDS Integers, Sequences

\* Size in bytes, byte order and C++ type of the primitives used.  The
\* little-endian "U" types are declared signed and the big-endian "I" types
\* unsigned
Primitive(name) ==
  CASE name = "U8"    -> [size |-> 1, big |-> FALSE, signed |-> FALSE]
    [] name = "U16BE" -> [size |-> 2, big |-> TRUE,  signed |-> FALSE]
    [] name = "U32BE" -> [size |-> 4, big |-> TRUE,  signed |-> FALSE]
    [] name = "I16BE" -> [size |-> 2, big |-> TRUE,  signed |-> FALSE]
    [] name = "U16LE" -> [size |-> 2, big |-> FALSE, signed |-> TRUE]

\* A field of the last bytes of the data is refused: the end is tested after
\* each byte read, the last one included
FieldFits(field, data, it) == it + field.size < Len(data)

\* What the bytes of arr are as a number, the first the most significant
Number(arr) ==
  LET v[k \in 0 .. Len(arr)] == IF k = 0 THEN 0 ELSE 256 * v[k - 1] + arr[k]
  IN  v[Len(arr)]

FieldValue(field, data, it) ==
  LET value == Number([k \in 1 .. field.size |-> data[it + (IF field.big THEN k ELSE (field.size + 1) - k)]])
  IN  IF field.signed /\ value >= 2^(8 * field.size - 1) THEN value - 2^(8 * field.size) ELSE value

\* What decode has: the values of the fields so far, the offset after them, and
\* ok, which is FALSE once a field was refused
Decoded(ok, it, out) == [ok |-> ok, it |-> it, out |-> out]

DecodeField(field, data, so_far) ==
  IF so_far.ok /\ FieldFits(field, data, so_far.it)
  THEN Decoded(TRUE, so_far.it + field.size, Append(so_far.out, FieldValue(field, data, so_far.it)))
  ELSE Decoded(FALSE, so_far.it, so_far.out)

\* The fields from offset it on
decode(format, data, it) ==
  LET fields[k \in 0 .. Len(format)] ==
        IF k = 0 THEN Decoded(TRUE, it, << >>) ELSE DecodeField(Primitive(format[k]), data, fields[k - 1])
  IN  fields[Len(format)]
=============================================================================
