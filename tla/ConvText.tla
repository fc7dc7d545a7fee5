------------------------------ MODULE ConvText ------------------------------
(***************************************************************************)
(* from_chars on a text that grows character by character, for every base   *)
(* and type at hand.                                                        *)
(***************************************************************************)
EXTENDS Conv

CONSTANTS
    Characters,     \* what the text is made of
    MaxText,        \* the longest text
    Types, Bases

ASSUME ConvAssumption ==
    /\ Characters \subseteq 0 .. 127
    /\ Types \subseteq [digits : Nat \ {0}, signed : BOOLEAN]
    /\ Bases \subseteq Nat

VARIABLES text, type, base

convVars == <<text, type, base>>

ConvInit == text = <<>> /\ type \in Types /\ base \in Bases

Type ==
    /\ Len(text) < MaxText
    /\ \E c \in Characters : text' = Append(text, c)
    /\ UNCHANGED <<type, base>>

ConvNext == Type

ConvSpec == ConvInit /\ [][ConvNext]_convVars

\* The digits at the head of the text, after its sign.
Sign == type.signed /\ text # <<>> /\ text[1] = 45
Digits == IF Sign THEN Tail(text) ELSE text
IsDigit(c) == digit_from_char(c) < base
Denoted == Accumulated([i \in DOMAIN Digits |-> digit_from_char(Digits[i])], base, 2 * UMax(type) + 2)

\* Numbers that the counted bits have room for are what their digits say, the
\* smallest and the largest of them too, and take no error path, whatever the base
\* and the width: the coordinates and counts the GPS parser reads are such.
ShortIsExact ==
    /\ Digits # <<>>
    /\ \A i \in DOMAIN Digits : IsDigit(Digits[i])
    /\ Len(Digits) * bit_width(base) <= type.digits
    => from_chars(text, type, base) = Converted(IF Sign THEN -Denoted ELSE Denoted)
=============================================================================
