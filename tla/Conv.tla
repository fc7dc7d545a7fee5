------------------------------- MODULE Conv --------------------------------
(***************************************************************************)
(* Inc/Stuff/Util/Conv.hpp: from digits to numbers.  A character is its     *)
(* ASCII code, a string_view a sequence of them.  An integral type T is     *)
(* [digits |-> std::numeric_limits<T>::digits, signed |-> is_signed].       *)
(***************************************************************************)
EXTENDS Integers, Sequences

int == [digits |-> 31, signed |-> TRUE]

None == <<>>
Some(x) == <<x>>
Has(opt) == opt # None
The(opt) == opt[1]

Decimal(c) == c \in 48 .. 57
HexLetter(c) == c \in 65 .. 70 \cup 97 .. 102
Upper(c) == IF c >= 97 THEN c - 32 ELSE c

from_hex_digit(c) == IF Decimal(c) THEN c - 48 ELSE IF HexLetter(c) THEN 10 + Upper(c) - 65 ELSE 16

\* What is or-ed or added up, digit by digit, into a register of modulus values.
Accumulated(digits, base, modulus) ==
    LET res[i \in 0 .. Len(digits)] ==
            IF i = 0 THEN 0 ELSE (res[i - 1] * base + digits[i]) % modulus
    IN  res[Len(digits)]

\* fast_hex_sv_to_int<uint8_t, true>: a third digit shifts the first one out.
fast_hex_sv_to_int(view) ==
    IF \A i \in DOMAIN view : Decimal(view[i]) \/ HexLetter(view[i])
    THEN Some(Accumulated([i \in DOMAIN view |-> from_hex_digit(view[i])], 16, 256))
    ELSE None

\* fast_sv_to_int<int, false, true>, for as many digits as an int holds.
fast_sv_to_int(view) ==
    IF \A i \in DOMAIN view : Decimal(view[i])
    THEN Some(Accumulated([i \in DOMAIN view |-> view[i] - 48], 10, 2147483647))
    ELSE None

digit_from_char(c) ==
    IF Decimal(c) THEN c - 48
    ELSE IF c \in 65 .. 90 \cup 97 .. 122 THEN 10 + Upper(c) - 65 ELSE 127

bit_width(n) == CHOOSE w \in 0 .. n : 2^w > n /\ \A x \in 0 .. w - 1 : 2^x <= n

TMax(T) == 2^(T.digits - 1) - 1 + 2^(T.digits - 1)
UMax(T) == IF T.signed THEN 2 * TMax(T) + 1 ELSE TMax(T)

\* What from_chars knows of the number: v, the bits that are left to count, the
\* digits read, and what ended the loop.
Scan(v, remaining, read, stop) == [v |-> v, remaining |-> remaining, read |-> read, stop |-> stop]

\* (slip) The checked path is entered a digit too early, where the bits that are left
\* are exactly those of the digit.
ScanStepEarly(s, c, T, base) ==
    LET digit == digit_from_char(c)
        remaining == s.remaining - bit_width(base)
    IN  IF s.stop # "no" THEN s
        ELSE IF digit > base THEN Scan(s.v, s.remaining, s.read, "digit")
        ELSE IF remaining > 0 THEN Scan(s.v * base + digit, remaining, s.read + 1, "no")
        ELSE IF s.v * base + base > UMax(T) THEN Scan(s.v, s.remaining, s.read, "overflow")
        ELSE Scan(s.v * base + base, remaining, s.read + 1, "no")

\* One turn of the loop of from_chars.  A digit may equal the base; once the bits
\* it counts for each digit are used up, the base is added in place of the digit.
ScanStep(s, c, T, base) ==
    LET digit == digit_from_char(c)
        remaining == s.remaining - bit_width(base)
    IN  IF s.stop # "no" THEN s
        ELSE IF digit > base THEN Scan(s.v, s.remaining, s.read, "digit")
        ELSE IF remaining >= 0 THEN Scan(s.v * base + digit, remaining, s.read + 1, "no")
        ELSE IF s.v * base + base > UMax(T) THEN Scan(s.v, s.remaining, s.read, "overflow")
        ELSE Scan(s.v * base + base, remaining, s.read + 1, "no")

Scanned(text, T, base) ==
    LET s[i \in 0 .. Len(text)] ==
            IF i = 0 THEN Scan(0, T.digits, 0, "no")
            ELSE ScanStep(s[i - 1], text[i], T, base)
    IN  s[Len(text)]

\* What an unsigned value is as a T.
AsT(v, T) == IF T.signed /\ v > TMax(T) THEN v - UMax(T) - 1 ELSE v

Failed(ec) == [ec |-> ec, value |-> None]
Converted(v) == [ec |-> "", value |-> Some(v)]

\* ec is empty for success; value is what is stored, if anything is.
from_chars(text, T, base) ==
    LET negative == T.signed /\ text # <<>> /\ text[1] = 45
        s == Scanned(IF negative THEN Tail(text) ELSE text, T, base)
    IN  IF text = <<>> THEN Failed("invalid_argument")
        ELSE IF s.stop = "overflow" THEN Failed("result_out_of_range")
        ELSE IF s.read = 0 THEN Failed("invalid_argument")
        ELSE IF negative /\ s.v > TMax(T) THEN Failed("result_out_of_range")
        ELSE Converted(IF negative THEN -s.v ELSE AsT(s.v, T))
=============================================================================
