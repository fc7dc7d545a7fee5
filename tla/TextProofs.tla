----------------------------- MODULE TextProofs -----------------------------
(***************************************************************************)
(* For every text of any code points: decode_utf8 returns what encode_utf8 *)
(* was given, but for the character that lost a byte and the one after it. *)
(* For every base and integral type: from_chars returns the number that    *)
(* the digits say, if they fit the bits it counts for them.  For every     *)
(* delimiter and every buffer size: the readers of Inc/Stuff/IO/Delim.hpp  *)
(* find the delimiters, hand out what came before them, and lose nothing.  *)
(***************************************************************************)
EXTENDS UTF8, ConvText, ByteReader, BufferedDelimitedReader, DataLemmas, SequenceTheorems, TLAPS

-----------------------------------------------------------------------------
(***************************************************************************)
(* UTF-8                                                                   *)
(***************************************************************************)
LEMMA SomePowers ==
  /\ 2 ^ 0 = 1 /\ 2 ^ 6 = 64 /\ 2 ^ 7 = 128 /\ 2 ^ 11 = 2048 /\ 2 ^ 12 = 4096
  /\ 2 ^ 16 = 65536 /\ 2 ^ 18 = 262144 /\ 2 ^ 21 = 2097152
OBVIOUS

\* The bytes of a code point, of every length.
Bytes1(w, e) == w <= 127 /\ Len(e) = 1 /\ e[1] = w
Bytes2(w, e) == 128 <= w /\ w <= 2047 /\ Len(e) = 2 /\ e[1] = 192 + (w \div 64) /\ e[2] = 128 + (w % 64)
Bytes3(w, e) ==
  /\ 2048 <= w /\ w <= 65535 /\ Len(e) = 3
  /\ e[1] = 224 + (w \div 4096) /\ e[2] = 128 + ((w \div 64) % 64) /\ e[3] = 128 + (w % 64)
Bytes4(w, e) ==
  /\ 65536 <= w /\ w <= 2097151 /\ Len(e) = 4
  /\ e[1] = 240 + (w \div 262144) /\ e[2] = 128 + ((w \div 4096) % 64)
  /\ e[3] = 128 + ((w \div 64) % 64) /\ e[4] = 128 + (w % 64)

LEMMA Categories ==
  ASSUME NEW c \in Nat
  PROVE  /\ c <= 127 => Category(c) = 0
         /\ 128 <= c /\ c <= 2047 => Category(c) = 1
         /\ 2048 <= c /\ c <= 65535 => Category(c) = 2
         /\ 65536 <= c /\ c <= 2097151 => Category(c) = 3
         /\ c > 2097151 => Category(c) = 4
         /\ Carried(c) = (IF c > 2097151 THEN 65533 ELSE c)
  BY SomePowers DEF Category, Carried

LEMMA EncodedBytes ==
  ASSUME NEW c \in Nat
  PROVE  /\ encode_utf8(c) \in Seq(Nat)
         /\ \/ Bytes1(Carried(c), encode_utf8(c)) \/ Bytes2(Carried(c), encode_utf8(c))
            \/ Bytes3(Carried(c), encode_utf8(c)) \/ Bytes4(Carried(c), encode_utf8(c))
<1> DEFINE w == Carried(c)
           cat == Category(w)
           e == encode_utf8(c)
           byte(i) == IF i = 1 THEN Patterns[cat + 1] + (w \div 2^(6 * cat))
                      ELSE 128 + ((w \div 2^(6 * (cat + 1 - i))) % 64)
<1>1. w \in Nat /\ w <= 2097151 /\ w = (IF Category(c) = 4 THEN 65533 ELSE c)
  BY Categories
<1>2. e = [i \in 1 .. cat + 1 |-> byte(i)]
  BY <1>1 DEF encode_utf8
<1> HIDE DEF w
<1>0. w \div 1 = w
  BY <1>1
<1>3. cat \in 0 .. 3
  <2>1. w <= 127 \/ (128 <= w /\ w <= 2047) \/ (2048 <= w /\ w <= 65535) \/ (65536 <= w /\ w <= 2097151)
    BY <1>1
  <2> QED
    BY <1>1, <2>1, Categories
<1>4. ASSUME NEW i \in 1 .. cat + 1 PROVE byte(i) \in Nat
  <2> HIDE DEF cat
  <2>1. 6 * cat \in Nat /\ 6 * (cat + 1 - i) \in Nat
    BY <1>3
  <2>2. PICK a \in Nat \ {0} : a = 2^(6 * cat)
    BY <2>1, TwoToPositive
  <2>3. PICK b \in Nat \ {0} : b = 2^(6 * (cat + 1 - i))
    BY <2>1, TwoToPositive
  <2>4. w \div a \in Nat /\ w \div b \in Nat
    BY <1>1, Z3
  <2>5. Patterns[cat + 1] \in Nat
    BY <1>3 DEF Patterns
  <2>6. (w \div b) % 64 \in Nat
    BY <2>4
  <2> QED
    BY <2>2, <2>3, <2>4, <2>5, <2>6
<1>5. e \in Seq(Nat) /\ Len(e) = cat + 1
  <2> HIDE DEF byte, cat, e
  <2>1. cat + 1 \in Nat /\ e \in [1 .. cat + 1 -> Nat]
    BY <1>2, <1>3, <1>4
  <2> QED
    BY <2>1, ArrayIsSeq
<1>6. ASSUME NEW i \in 1 .. cat + 1 PROVE e[i] = byte(i)
  <2> HIDE DEF byte, cat
  <2> QED
    BY <1>2
<1>7. ASSUME w <= 127 PROVE Bytes1(w, e)
  <2>1. cat = 0 /\ 6 * 0 = 0 /\ 1 \in 1 .. 0 + 1
    BY <1>1, <1>7, Categories
  <2>2. e[1] = byte(1)
    BY <1>6, <2>1
  <2>3. e[1] = 0 + (w \div 1)
    BY <2>1, <2>2, SomePowers DEF Patterns
  <2> HIDE DEF e, cat
  <2> QED
    BY <1>0, <1>1, <1>5, <1>7, <2>1, <2>3 DEF Bytes1
<1>8. ASSUME 128 <= w /\ w <= 2047 PROVE Bytes2(w, e)
  <2>1. cat = 1 /\ 6 * 1 = 6 /\ 6 * (1 + 1 - 2) = 0 /\ 1 \in 1 .. 1 + 1 /\ 2 \in 1 .. 1 + 1
    BY <1>1, <1>8, Categories
  <2>2. e[1] = byte(1) /\ e[2] = byte(2)
    BY <1>6, <2>1
  <2>3. e[1] = 192 + (w \div 64)
    BY <2>1, <2>2, SomePowers DEF Patterns
  <2>4. e[2] = 128 + ((w \div 1) % 64)
    BY <2>1, <2>2, SomePowers
  <2> HIDE DEF e, cat
  <2> QED
    BY <1>0, <1>5, <1>8, <2>1, <2>3, <2>4 DEF Bytes2
<1>9. ASSUME 2048 <= w /\ w <= 65535 PROVE Bytes3(w, e)
  <2>1. cat = 2 /\ 6 * 2 = 12 /\ 6 * (2 + 1 - 2) = 6 /\ 6 * (2 + 1 - 3) = 0 /\ 1 \in 1 .. 2 + 1 /\ 2 \in 1 .. 2 + 1 /\ 3 \in 1 .. 2 + 1
    BY <1>1, <1>9, Categories
  <2>2. e[1] = byte(1) /\ e[2] = byte(2) /\ e[3] = byte(3)
    BY <1>6, <2>1
  <2>3. e[1] = 224 + (w \div 4096)
    BY <2>1, <2>2, SomePowers DEF Patterns
  <2>4. e[2] = 128 + ((w \div 64) % 64)
    BY <2>1, <2>2, SomePowers
  <2>5. e[3] = 128 + ((w \div 1) % 64)
    BY <2>1, <2>2, SomePowers
  <2> HIDE DEF e, cat
  <2> QED
    BY <1>0, <1>5, <1>9, <2>1, <2>3, <2>4, <2>5 DEF Bytes3
<1>10. ASSUME 65536 <= w /\ w <= 2097151 PROVE Bytes4(w, e)
  <2>1. cat = 3 /\ 6 * 3 = 18 /\ 6 * (3 + 1 - 2) = 12 /\ 6 * (3 + 1 - 3) = 6 /\ 6 * (3 + 1 - 4) = 0
        /\ 1 \in 1 .. 3 + 1 /\ 2 \in 1 .. 3 + 1 /\ 3 \in 1 .. 3 + 1 /\ 4 \in 1 .. 3 + 1
    BY <1>1, <1>10, Categories
  <2>2. e[1] = byte(1) /\ e[2] = byte(2) /\ e[3] = byte(3) /\ e[4] = byte(4)
    BY <1>6, <2>1
  <2>3. e[1] = 240 + (w \div 262144)
    BY <2>1, <2>2, SomePowers DEF Patterns
  <2>4. e[2] = 128 + ((w \div 4096) % 64)
    BY <2>1, <2>2, SomePowers
  <2>5. e[3] = 128 + ((w \div 64) % 64)
    BY <2>1, <2>2, SomePowers
  <2>6. e[4] = 128 + ((w \div 1) % 64)
    BY <2>1, <2>2, SomePowers
  <2> HIDE DEF e, cat
  <2> QED
    BY <1>0, <1>5, <1>10, <2>1, <2>3, <2>4, <2>5, <2>6 DEF Bytes4
<1>11. w <= 127 \/ (128 <= w /\ w <= 2047) \/ (2048 <= w /\ w <= 65535) \/ (65536 <= w /\ w <= 2097151)
  BY <1>1
<1>12. Bytes1(w, e) \/ Bytes2(w, e) \/ Bytes3(w, e) \/ Bytes4(w, e)
  BY <1>7, <1>8, <1>9, <1>10, <1>11
<1> HIDE DEF e
<1> QED
  BY <1>5, <1>12 DEF e, w

\* A number in base 64, and its quotients.
LEMMA SixBitDigits ==
  ASSUME NEW w \in Nat
  PROVE  \E q \in Nat, d \in Nat : d <= 63 /\ w = 64 * q + d /\ w \div 64 = q /\ w % 64 = d
  OBVIOUS

LEMMA InBase64 ==
  ASSUME NEW w \in Nat
  PROVE  \E u, b, d, f \in Nat :
           /\ b <= 63 /\ d <= 63 /\ f <= 63
           /\ w = 64 * (64 * (64 * u + b) + d) + f
           /\ w % 64 = f /\ w \div 64 = 64 * (64 * u + b) + d
           /\ (w \div 64) % 64 = d /\ w \div 4096 = 64 * u + b
           /\ (w \div 4096) % 64 = b /\ w \div 262144 = u
<1>1. PICK q \in Nat, f \in Nat : f <= 63 /\ w = 64 * q + f /\ w \div 64 = q /\ w % 64 = f
  BY SixBitDigits
<1>2. PICK r \in Nat, d \in Nat : d <= 63 /\ q = 64 * r + d /\ q \div 64 = r /\ q % 64 = d
  BY SixBitDigits
<1>3. PICK u \in Nat, b \in Nat : b <= 63 /\ r = 64 * u + b /\ r \div 64 = u /\ r % 64 = b
  BY SixBitDigits
<1>4. w \div 4096 = r
  <2>1. (w \div 64) \div 64 = w \div (64 * 64)
    BY DividedTwice
  <2> QED
    BY <1>1, <1>2, <2>1
<1>5. w \div 262144 = u
  <2>1. (w \div 4096) \div 64 = w \div (4096 * 64)
    BY DividedTwice
  <2> QED
    BY <1>3, <1>4, <2>1
<1> QED
  BY <1>1, <1>2, <1>3, <1>4, <1>5

\* The bytes of a code point, by its digits.
DigitsOf1(w, e) == \E f \in Nat : f <= 127 /\ w = f /\ Len(e) = 1 /\ e[1] = f
DigitsOf2(w, e) ==
  \E d, f \in Nat : d <= 31 /\ f <= 63 /\ w = 64 * d + f /\ Len(e) = 2 /\ e[1] = 192 + d /\ e[2] = 128 + f
DigitsOf3(w, e) ==
  \E b, d, f \in Nat :
     /\ b <= 15 /\ d <= 63 /\ f <= 63 /\ w = 64 * (64 * b + d) + f
     /\ Len(e) = 3 /\ e[1] = 224 + b /\ e[2] = 128 + d /\ e[3] = 128 + f
DigitsOf4(w, e) ==
  \E u, b, d, f \in Nat :
     /\ u <= 7 /\ b <= 63 /\ d <= 63 /\ f <= 63 /\ w = 64 * (64 * (64 * u + b) + d) + f
     /\ Len(e) = 4 /\ e[1] = 240 + u /\ e[2] = 128 + b /\ e[3] = 128 + d /\ e[4] = 128 + f
DigitsOf(w, e) == DigitsOf1(w, e) \/ DigitsOf2(w, e) \/ DigitsOf3(w, e) \/ DigitsOf4(w, e)

LEMMA EncodedDigits ==
  ASSUME NEW c \in Nat
  PROVE  encode_utf8(c) \in Seq(Nat) /\ DigitsOf(Carried(c), encode_utf8(c))
<1>1. PICK w, e : w = Carried(c) /\ e = encode_utf8(c)
  OBVIOUS
<1>2. w \in Nat
  BY <1>1, Categories
<1>3. e \in Seq(Nat) /\ (Bytes1(w, e) \/ Bytes2(w, e) \/ Bytes3(w, e) \/ Bytes4(w, e))
  BY <1>1, EncodedBytes
<1>4. PICK u, b, d, f \in Nat :
           /\ b <= 63 /\ d <= 63 /\ f <= 63
           /\ w = 64 * (64 * (64 * u + b) + d) + f
           /\ w % 64 = f /\ w \div 64 = 64 * (64 * u + b) + d
           /\ (w \div 64) % 64 = d /\ w \div 4096 = 64 * u + b
           /\ (w \div 4096) % 64 = b /\ w \div 262144 = u
  BY <1>2, InBase64
<1>41. b <= 63 /\ d <= 63 /\ f <= 63 /\ w = 64 * (64 * (64 * u + b) + d) + f
  BY <1>4
<1>42. w % 64 = f /\ w \div 64 = 64 * (64 * u + b) + d
  BY <1>4
<1>43. (w \div 64) % 64 = d /\ w \div 4096 = 64 * u + b
  BY <1>4
<1>44. (w \div 4096) % 64 = b /\ w \div 262144 = u
  BY <1>4
<1>5. ASSUME Bytes1(w, e) PROVE DigitsOf(w, e)
  <2>1. w \in Nat /\ w <= 127 /\ Len(e) = 1 /\ e[1] = w
    BY ONLY <1>2, <1>5 DEF Bytes1
  <2>2. DigitsOf1(w, e)
    BY ONLY <2>1 DEF DigitsOf1
  <2> QED
    BY ONLY <2>2 DEF DigitsOf
<1>6. ASSUME Bytes2(w, e) PROVE DigitsOf(w, e)
  <2>1. w <= 2047 /\ Len(e) = 2 /\ e[1] = 192 + (w \div 64) /\ e[2] = 128 + (w % 64)
    BY ONLY <1>6 DEF Bytes2
  <2>2. u = 0 /\ b = 0 /\ d <= 31
    BY ONLY <1>41, <2>1, u \in Nat, b \in Nat, d \in Nat, f \in Nat
  <2>3. w = 64 * d + f /\ w \div 64 = d
    BY ONLY <1>41, <1>42, <2>2, d \in Nat, f \in Nat
  <2>4. e[1] = 192 + d /\ e[2] = 128 + f /\ Len(e) = 2 /\ f <= 63
    BY ONLY <1>41, <1>42, <2>1, <2>3
  <2>5. DigitsOf2(w, e)
    BY ONLY <2>2, <2>3, <2>4, d \in Nat, f \in Nat DEF DigitsOf2
  <2> QED
    BY ONLY <2>5 DEF DigitsOf
<1>7. ASSUME Bytes3(w, e) PROVE DigitsOf(w, e)
  <2>1. w <= 65535 /\ Len(e) = 3
        /\ e[1] = 224 + (w \div 4096) /\ e[2] = 128 + ((w \div 64) % 64) /\ e[3] = 128 + (w % 64)
    BY ONLY <1>7 DEF Bytes3
  <2>2. u = 0 /\ b <= 15
    BY ONLY <1>41, <2>1, u \in Nat, b \in Nat, d \in Nat, f \in Nat
  <2>3. w = 64 * (64 * b + d) + f /\ w \div 4096 = b
    BY ONLY <1>41, <1>43, <2>2, b \in Nat, d \in Nat, f \in Nat
  <2>4. e[1] = 224 + b /\ e[2] = 128 + d /\ e[3] = 128 + f /\ Len(e) = 3 /\ d <= 63 /\ f <= 63
    BY ONLY <1>41, <1>42, <1>43, <2>1, <2>3
  <2>5. DigitsOf3(w, e)
    BY ONLY <2>2, <2>3, <2>4, b \in Nat, d \in Nat, f \in Nat DEF DigitsOf3
  <2> QED
    BY ONLY <2>5 DEF DigitsOf
<1>8. ASSUME Bytes4(w, e) PROVE DigitsOf(w, e)
  <2>1. w <= 2097151 /\ Len(e) = 4 /\ e[1] = 240 + (w \div 262144) /\ e[2] = 128 + ((w \div 4096) % 64)
        /\ e[3] = 128 + ((w \div 64) % 64) /\ e[4] = 128 + (w % 64)
    BY ONLY <1>8 DEF Bytes4
  <2>2. u <= 7
    BY ONLY <1>41, <2>1, u \in Nat, b \in Nat, d \in Nat, f \in Nat
  <2>3. e[1] = 240 + u /\ e[2] = 128 + b /\ e[3] = 128 + d /\ e[4] = 128 + f /\ Len(e) = 4
    BY ONLY <1>42, <1>43, <1>44, <2>1
  <2>4. DigitsOf4(w, e)
    BY ONLY <1>41, <2>2, <2>3, u \in Nat, b \in Nat, d \in Nat, f \in Nat DEF DigitsOf4
  <2> QED
    BY ONLY <2>4 DEF DigitsOf
<1>9. DigitsOf(w, e)
  BY <1>3, <1>5, <1>6, <1>7, <1>8
<1> QED
  BY <1>1, <1>3, <1>9

\* What follows the first byte of a character leads none.
Leads(e) ==
  /\ Len(e) \in 1 .. 4 /\ LeadCategory(e[1]) = Len(e) - 1
  /\ \A i \in 2 .. Len(e) : LeadCategory(e[i]) = 4

LEMMA LeadingByte ==
  ASSUME NEW c \in Nat
  PROVE  Leads(encode_utf8(c))
<1>1. PICK w, e : w = Carried(c) /\ e = encode_utf8(c)
  OBVIOUS
<1>2. e \in Seq(Nat) /\ DigitsOf(w, e)
  BY <1>1, EncodedDigits
<1>3. ASSUME NEW x \in Nat, x <= 63 PROVE LeadCategory(128 + x) = 4
  BY <1>3 DEF LeadCategory
<1>4. ASSUME DigitsOf1(w, e) PROVE Leads(e)
  <2>1. PICK f \in Nat : f <= 127 /\ Len(e) = 1 /\ e[1] = f
    BY <1>4 DEF DigitsOf1
  <2>2. LeadCategory(e[1]) = 0
    BY <2>1 DEF LeadCategory
  <2> QED
    BY <2>1, <2>2 DEF Leads
<1>5. ASSUME DigitsOf2(w, e) PROVE Leads(e)
  <2>1. PICK d, f \in Nat : d <= 31 /\ f <= 63 /\ Len(e) = 2 /\ e[1] = 192 + d /\ e[2] = 128 + f
    BY <1>5 DEF DigitsOf2
  <2>2. LeadCategory(e[1]) = 1
    BY <2>1 DEF LeadCategory
  <2>3. LeadCategory(e[2]) = 4 /\ \A i \in 2 .. Len(e) : i = 2
    BY <1>3, <2>1
  <2> QED
    BY <2>1, <2>2, <2>3 DEF Leads
<1>6. ASSUME DigitsOf3(w, e) PROVE Leads(e)
  <2>1. PICK b, d, f \in Nat : /\ b <= 15 /\ d <= 63 /\ f <= 63
                               /\ Len(e) = 3 /\ e[1] = 224 + b /\ e[2] = 128 + d /\ e[3] = 128 + f
    BY <1>6 DEF DigitsOf3
  <2>2. LeadCategory(e[1]) = 2
    BY <2>1 DEF LeadCategory
  <2>3. LeadCategory(e[2]) = 4 /\ LeadCategory(e[3]) = 4 /\ \A i \in 2 .. Len(e) : i = 2 \/ i = 3
    BY <1>3, <2>1
  <2> QED
    BY <2>1, <2>2, <2>3 DEF Leads
<1>7. ASSUME DigitsOf4(w, e) PROVE Leads(e)
  <2>1. PICK u, b, d, f \in Nat :
          /\ u <= 7 /\ b <= 63 /\ d <= 63 /\ f <= 63
          /\ Len(e) = 4 /\ e[1] = 240 + u /\ e[2] = 128 + b /\ e[3] = 128 + d /\ e[4] = 128 + f
    BY <1>7 DEF DigitsOf4
  <2>2. LeadCategory(e[1]) = 3
    BY <2>1 DEF LeadCategory
  <2>3. LeadCategory(e[2]) = 4 /\ LeadCategory(e[3]) = 4 /\ LeadCategory(e[4]) = 4
        /\ \A i \in 2 .. Len(e) : i = 2 \/ i = 3 \/ i = 4
    BY <1>3, <2>1
  <2> QED
    BY <2>1, <2>2, <2>3 DEF Leads
<1>8. Leads(e)
  BY <1>2, <1>4, <1>5, <1>6, <1>7 DEF DigitsOf
<1> QED
  BY <1>1, <1>8

LEMMA Remainders ==
  /\ \A x \in Nat : x <= 127 => x % 128 = x
  /\ \A x \in Nat : x <= 31 => (192 + x) % 32 = x
  /\ \A x \in Nat : x <= 15 => (224 + x) % 16 = x
  /\ \A x \in Nat : x <= 7 => (240 + x) % 8 = x
  /\ \A x \in Nat : x <= 63 => (128 + x) % 64 = x
<1>1. \A x \in Nat : x <= 127 => x % 128 = x
  OBVIOUS
<1>2. \A x \in Nat : x <= 31 => (192 + x) % 32 = x
  OBVIOUS
<1>3. \A x \in Nat : x <= 15 => (224 + x) % 16 = x
  OBVIOUS
<1>4. \A x \in Nat : x <= 7 => (240 + x) % 8 = x
  OBVIOUS
<1>5. \A x \in Nat : x <= 63 => (128 + x) % 64 = x
  OBVIOUS
<1> QED
  BY <1>1, <1>2, <1>3, <1>4, <1>5

\* The value read: six bits of each byte after the first.
ReadAs(t, cat) ==
  IF cat = 0 THEN t[1] % 128
  ELSE IF cat = 1 THEN 64 * (t[1] % 32) + (t[2] % 64)
  ELSE IF cat = 2 THEN 64 * (64 * (t[1] % 16) + (t[2] % 64)) + (t[3] % 64)
  ELSE 64 * (64 * (64 * (t[1] % 8) + (t[2] % 64)) + (t[3] % 64)) + (t[4] % 64)

LEMMA ReadBytes ==
  ASSUME NEW t \in Seq(Nat), NEW cat \in 0 .. 3, cat + 1 <= Len(t), LeadCategory(t[1]) = cat
  PROVE  Taken(t) = cat + 1 /\ decode_utf8(t) = ReadAs(t, cat)
<1> DEFINE S == Nat
           s0 == t[1] % Masks[cat + 1]
           F == [p \in (1 .. cat) \X S |-> (64 * p[2]) + (t[p[1] + 1] % 64)]
           body(g) == [i \in 0 .. cat |-> IF i = 0 THEN t[1] % Masks[cat + 1] ELSE (64 * g[i - 1]) + (t[i + 1] % 64)]
           value == CHOOSE g : g = body(g)
<1>1. /\ Taken(t) = cat + 1
      /\ decode_utf8(t) = value[cat]
  <2>1. ~(cat + 1 > Len(t)) /\ cat # 4
    OBVIOUS
  <2> QED
    BY <2>1 DEF Taken, decode_utf8
<1>2. ASSUME NEW i \in 0 .. cat PROVE t[i + 1] \in Nat
  <2>1. i + 1 \in 1 .. Len(t)
    OBVIOUS
  <2> QED
    BY <2>1
<1>3. s0 \in S
  <2>1. Masks[cat + 1] \in {128, 32, 16, 8}
    BY DEF Masks
  <2>2. t[1] \in Nat
    OBVIOUS
  <2> QED
    BY <2>1, <2>2
<1>4. F \in [(1 .. cat) \X S -> S]
  <2>1. ASSUME NEW i \in 1 .. cat, NEW v \in S PROVE (64 * v) + (t[i + 1] % 64) \in S
    <3>1. t[i + 1] \in Nat
      BY <1>2
    <3> QED
      BY <3>1
  <2> HIDE DEF S
  <2> QED
    BY <2>1
<1>5. PICK g \in [0 .. cat -> S] : Recurs(g, cat, s0, F)
  <2> HIDE DEF F, S, s0
  <2>1. cat \in Nat
    OBVIOUS
  <2> QED
    BY <1>3, <1>4, <2>1, Recursion
<1>6. g = body(g)
  <2> DEFINE term(i) == IF i = 0 THEN t[1] % Masks[cat + 1] ELSE (64 * g[i - 1]) + (t[i + 1] % 64)
  <2>1. g = [i \in 0 .. cat |-> g[i]]
    BY <1>5
  <2>2. ASSUME NEW i \in 0 .. cat PROVE g[i] = term(i)
    <3>1. CASE i = 0
      BY <1>5, <3>1 DEF Recurs
    <3>2. CASE i # 0
      <4>1. i \in 1 .. cat /\ i - 1 \in 0 .. cat
        BY <3>2
      <4>2. g[i] = F[<<i, g[i - 1]>>] /\ <<i, g[i - 1]>> \in (1 .. cat) \X S
        <5> HIDE DEF F, S, s0
        <5> QED
          BY <1>5, <4>1 DEF Recurs
      <4>3. g[i] = (64 * g[i - 1]) + (t[i + 1] % 64)
        BY <4>2
      <4> QED
        BY <3>2, <4>3
    <3> QED
      BY <3>1, <3>2
  <2>3. body(g) = [i \in 0 .. cat |-> term(i)]
    OBVIOUS
  <2> HIDE DEF term, body
  <2> QED
    BY <2>1, <2>2, <2>3
<1>7. value = body(value)
  <2> HIDE DEF body
  <2> QED
    BY <1>6
<1> HIDE DEF value
<1>8. \A i \in 0 .. cat : value[i] = IF i = 0 THEN t[1] % Masks[cat + 1] ELSE (64 * value[i - 1]) + (t[i + 1] % 64)
  BY <1>7
<1>9. value[0] = t[1] % Masks[cat + 1]
  BY <1>8
<1>10. cat >= 1 => value[1] = 64 * value[0] + (t[2] % 64)
  BY <1>8
<1>11. cat >= 2 => value[2] = 64 * value[1] + (t[3] % 64)
  BY <1>8
<1>12. cat >= 3 => value[3] = 64 * value[2] + (t[4] % 64)
  BY <1>8
<1>13. Masks[1] = 128 /\ Masks[2] = 32 /\ Masks[3] = 16 /\ Masks[4] = 8
  BY DEF Masks
<1> HIDE DEF s0, F, body
<1>14. CASE cat = 0
  BY ONLY <1>1, <1>9, <1>13, <1>14 DEF ReadAs
<1>15. CASE cat = 1
  BY ONLY <1>1, <1>9, <1>10, <1>13, <1>15 DEF ReadAs
<1>16. CASE cat = 2
  BY ONLY <1>1, <1>9, <1>10, <1>11, <1>13, <1>16 DEF ReadAs
<1>17. CASE cat = 3
  BY ONLY <1>1, <1>9, <1>10, <1>11, <1>12, <1>13, <1>17 DEF ReadAs
<1>18. cat = 0 \/ cat = 1 \/ cat = 2 \/ cat = 3
  OBVIOUS
<1> QED
  BY <1>14, <1>15, <1>16, <1>17, <1>18

\* A text that starts with the bytes of a code point is read as it, and no further.
LEMMA Decodes ==
  ASSUME NEW c \in Nat, NEW t \in Seq(Nat), Len(encode_utf8(c)) <= Len(t),
         \A j \in 1 .. Len(encode_utf8(c)) : t[j] = encode_utf8(c)[j]
  PROVE  Taken(t) = Len(encode_utf8(c)) /\ decode_utf8(t) = Carried(c)
<1>1. PICK w, e : w = Carried(c) /\ e = encode_utf8(c)
  OBVIOUS
<1>2. Leads(e) /\ DigitsOf(w, e)
  BY <1>1, LeadingByte, EncodedDigits
<1>3. Len(e) <= Len(t) /\ \A j \in 1 .. Len(e) : t[j] = e[j]
  BY <1>1
<1>4. PICK cat \in 0 .. 3 : cat + 1 = Len(e) /\ LeadCategory(t[1]) = cat
  <2>1. Len(e) - 1 \in 0 .. 3 /\ Len(e) - 1 + 1 = Len(e) /\ 1 \in 1 .. Len(e)
    BY <1>2 DEF Leads
  <2> QED
    BY <1>2, <1>3, <2>1 DEF Leads
<1>5. Taken(t) = cat + 1 /\ decode_utf8(t) = ReadAs(t, cat)
  <2>1. cat + 1 <= Len(t)
    BY <1>3, <1>4
  <2> QED
    BY <1>4, <2>1, ReadBytes
<1>6. \A x \in Nat : x <= 63 => (128 + x) % 64 = x
  BY ONLY Remainders
<1>7. decode_utf8(t) = w
  <2>1. ASSUME DigitsOf1(w, e) PROVE decode_utf8(t) = w
    <3>1. PICK f \in Nat : f <= 127 /\ w = f /\ Len(e) = 1 /\ e[1] = f
      BY <2>1 DEF DigitsOf1
    <3>2. cat = 0 /\ t[1] = f
      BY <1>3, <1>4, <3>1
    <3>3. f % 128 = f
      BY ONLY f \in Nat, <3>1, Remainders
    <3> QED
      BY ONLY <1>5, <3>1, <3>2, <3>3 DEF ReadAs
  <2>2. ASSUME DigitsOf2(w, e) PROVE decode_utf8(t) = w
    <3>1. PICK d, f \in Nat : d <= 31 /\ f <= 63 /\ w = 64 * d + f /\ Len(e) = 2 /\ e[1] = 192 + d /\ e[2] = 128 + f
      BY <2>2 DEF DigitsOf2
    <3>2. cat = 1 /\ t[1] = 192 + d /\ t[2] = 128 + f
      BY <1>3, <1>4, <3>1
    <3>3. (192 + d) % 32 = d
      BY ONLY d \in Nat, <3>1, Remainders
    <3>4. (128 + f) % 64 = f
      BY <1>6, <3>1
    <3> QED
      BY ONLY <1>5, <3>1, <3>2, <3>3, <3>4 DEF ReadAs
  <2>3. ASSUME DigitsOf3(w, e) PROVE decode_utf8(t) = w
    <3>1. PICK b, d, f \in Nat :
            /\ b <= 15 /\ d <= 63 /\ f <= 63 /\ w = 64 * (64 * b + d) + f
            /\ Len(e) = 3 /\ e[1] = 224 + b /\ e[2] = 128 + d /\ e[3] = 128 + f
      BY <2>3 DEF DigitsOf3
    <3>2. cat = 2 /\ t[1] = 224 + b /\ t[2] = 128 + d /\ t[3] = 128 + f
      BY <1>3, <1>4, <3>1
    <3>3. (224 + b) % 16 = b
      BY ONLY b \in Nat, <3>1, Remainders
    <3>4. (128 + f) % 64 = f /\ (128 + d) % 64 = d
      BY <1>6, <3>1
    <3> QED
      BY ONLY <1>5, <3>1, <3>2, <3>3, <3>4 DEF ReadAs
  <2>4. ASSUME DigitsOf4(w, e) PROVE decode_utf8(t) = w
    <3>1. PICK u, b, d, f \in Nat :
            /\ u <= 7 /\ b <= 63 /\ d <= 63 /\ f <= 63 /\ w = 64 * (64 * (64 * u + b) + d) + f
            /\ Len(e) = 4 /\ e[1] = 240 + u /\ e[2] = 128 + b /\ e[3] = 128 + d /\ e[4] = 128 + f
      BY <2>4 DEF DigitsOf4
    <3>2. cat = 3 /\ t[1] = 240 + u /\ t[2] = 128 + b /\ t[3] = 128 + d /\ t[4] = 128 + f
      BY <1>3, <1>4, <3>1
    <3>3. (240 + u) % 8 = u
      BY ONLY u \in Nat, <3>1, Remainders
    <3>4. (128 + f) % 64 = f /\ (128 + d) % 64 = d /\ (128 + b) % 64 = b
      BY <1>6, <3>1
    <3> QED
      BY ONLY <1>5, <3>1, <3>2, <3>3, <3>4 DEF ReadAs
  <2> QED
    BY <1>2, <2>1, <2>2, <2>3, <2>4 DEF DigitsOf
<1> QED
  BY <1>1, <1>4, <1>5, <1>7

-----------------------------------------------------------------------------
\* The bytes before each character of a text, and the text.
OffsetsOf(w, off) ==
  /\ off \in [1 .. Len(w) + 1 -> Nat] /\ off[1] = 0
  /\ \A i \in 1 .. Len(w) : off[i + 1] = off[i] + Len(encode_utf8(w[i]))

TextOf(w, off, u) ==
  /\ u \in Seq(Nat) /\ Len(u) = off[Len(w) + 1]
  /\ \A i \in 1 .. Len(w) : \A j \in 1 .. Len(encode_utf8(w[i])) : u[off[i] + j] = encode_utf8(w[i])[j]

\* What is left of a text after its first p bytes.
Unread(t, u, p) ==
  p <= Len(u) /\ Len(t) = Len(u) - p /\ \A j \in 1 .. Len(t) : t[j] = u[p + j]

LEMMA OffsetFacts ==
  ASSUME NEW w \in Seq(CodePoints), NEW off, OffsetsOf(w, off), NEW m \in 1 .. Len(w)
  PROVE  /\ w[m] \in Nat /\ Len(encode_utf8(w[m])) \in 1 .. 4
         /\ off[m] \in Nat /\ off[m + 1] \in Nat
         /\ off[m + 1] = off[m] + Len(encode_utf8(w[m])) /\ off[m] < off[m + 1]
<1>1. w[m] \in CodePoints
  OBVIOUS
<1>2. w[m] \in Nat
  BY ONLY <1>1, Utf8Assumption
<1>3. Len(encode_utf8(w[m])) \in 1 .. 4
  BY <1>2, LeadingByte DEF Leads
<1>4. Len(w) \in Nat /\ m \in 1 .. Len(w) + 1 /\ m + 1 \in 1 .. Len(w) + 1
  OBVIOUS
<1>5. off \in [1 .. Len(w) + 1 -> Nat] /\ off[m + 1] = off[m] + Len(encode_utf8(w[m]))
  BY DEF OffsetsOf
<1>6. off[m] \in Nat /\ off[m + 1] \in Nat
  BY ONLY <1>4, <1>5
<1>7. off[m] < off[m + 1]
  <2>1. PICK l \in 1 .. 4 : l = Len(encode_utf8(w[m]))
    BY <1>3
  <2>2. PICK x \in Nat, y \in Nat : x = off[m] /\ y = off[m + 1]
    BY <1>6
  <2>3. y = x + l
    BY <1>5, <2>1, <2>2
  <2> QED
    BY <2>2, <2>3
<1> QED
  BY <1>2, <1>3, <1>5, <1>6, <1>7

LEMMA OffsetsRise ==
  ASSUME NEW w \in Seq(CodePoints), NEW off, OffsetsOf(w, off),
         NEW i \in 1 .. Len(w) + 1, NEW j \in 1 .. Len(w) + 1, i < j
  PROVE  off[i] < off[j]
<1> DEFINE T == {m \in Nat : i + 1 + m <= Len(w) + 1 => off[i] < off[i + 1 + m]}
<1>0. ASSUME NEW k \in 1 .. Len(w) PROVE off[k] \in Nat /\ off[k + 1] \in Nat /\ off[k] < off[k + 1]
  BY OffsetFacts
<1>1. 0 \in T
  <2>1. i + 1 + 0 = i + 1
    OBVIOUS
  <2>2. i + 1 <= Len(w) + 1 => i \in 1 .. Len(w)
    OBVIOUS
  <2> QED
    BY <1>0, <2>1, <2>2
<1>2. ASSUME NEW m \in Nat, m \in T PROVE m + 1 \in T
  <2> SUFFICES ASSUME i + 1 + (m + 1) <= Len(w) + 1 PROVE off[i] < off[i + 1 + (m + 1)]
    OBVIOUS
  <2>1. i + 1 + m \in 1 .. Len(w) /\ i + 1 + (m + 1) = (i + 1 + m) + 1 /\ i \in 1 .. Len(w)
    OBVIOUS
  <2>2. off[i] < off[i + 1 + m]
    BY <1>2, <2>1
  <2>3. off[i + 1 + m] \in Nat /\ off[(i + 1 + m) + 1] \in Nat /\ off[i + 1 + m] < off[(i + 1 + m) + 1] /\ off[i] \in Nat
    BY <1>0, <2>1
  <2> QED
    BY <2>1, <2>2, <2>3
<1>3. Nat \subseteq T
  <2> HIDE DEF T
  <2> QED
    BY <1>1, <1>2, Induction
<1>4. PICK m \in Nat : j = i + 1 + m
  <2>1. j - i - 1 \in Nat /\ j = i + 1 + (j - i - 1)
    OBVIOUS
  <2> QED
    BY <2>1
<1>5. m \in T /\ i + 1 + m <= Len(w) + 1
  BY <1>3, <1>4
<1> HIDE DEF T
<1>6. i + 1 + m <= Len(w) + 1 => off[i] < off[i + 1 + m]
  BY <1>5 DEF T
<1> QED
  BY ONLY <1>4, <1>5, <1>6

\* Every byte of a text is a character's.
LEMMA CharacterFound ==
  ASSUME NEW w \in Seq(CodePoints), NEW off, OffsetsOf(w, off), NEW k \in Nat, 0 < k, k <= off[Len(w) + 1]
  PROVE  \E h \in 1 .. Len(w) : off[h] < k /\ k <= off[h + 1]
<1> DEFINE T == {m \in Nat : m <= Len(w) /\ k <= off[m + 1] => \E h \in 1 .. Len(w) : off[h] < k /\ k <= off[h + 1]}
<1>1. 0 \in T
  <2>1. off[0 + 1] = 0
    BY DEF OffsetsOf
  <2> QED
    BY <2>1
<1>2. ASSUME NEW m \in Nat, m \in T PROVE m + 1 \in T
  <2> SUFFICES ASSUME m + 1 <= Len(w), k <= off[m + 1 + 1]
               PROVE  \E h \in 1 .. Len(w) : off[h] < k /\ k <= off[h + 1]
    OBVIOUS
  <2>0. m + 1 \in 1 .. Len(w)
    OBVIOUS
  <2>1. m + 1 \in 1 .. Len(w) /\ off[m + 1] \in Nat
    BY <2>0, OffsetFacts
  <2>2. CASE k <= off[m + 1]
    BY <1>2, <2>2
  <2>3. CASE ~(k <= off[m + 1])
    BY <2>1, <2>3
  <2> QED
    BY <2>2, <2>3
<1>3. Nat \subseteq T
  <2> HIDE DEF T
  <2> QED
    BY <1>1, <1>2, Induction
<1>4. Len(w) \in T
  BY <1>3
<1> QED
  BY <1>4

\* decode_utf8 always reads something, and a byte that leads nothing alone.
LEMMA TakenBytes ==
  ASSUME NEW t \in Seq(Nat), t # << >>
  PROVE  /\ Taken(t) \in 1 .. Len(t) /\ Len(t) \in Nat /\ Len(t) >= 1
         /\ LeadCategory(t[1]) = 4 => Taken(t) = 1
         /\ LeadCategory(t[1]) # 4 /\ LeadCategory(t[1]) + 1 > Len(t) => Taken(t) = Len(t)
         /\ LeadCategory(t[1]) # 4 /\ LeadCategory(t[1]) + 1 <= Len(t) => Taken(t) = LeadCategory(t[1]) + 1
         /\ SubSeq(t, Taken(t) + 1, Len(t)) \in Seq(Nat)
         /\ Len(SubSeq(t, Taken(t) + 1, Len(t))) = Len(t) - Taken(t)
         /\ \A j \in 1 .. Len(t) - Taken(t) : SubSeq(t, Taken(t) + 1, Len(t))[j] = t[Taken(t) + j]
<1>1. Len(t) \in Nat /\ Len(t) >= 1
  BY EmptySeq
<1>2. LeadCategory(t[1]) \in 0 .. 4
  BY DEF LeadCategory
<1>3. /\ Taken(t) \in 1 .. Len(t)
      /\ LeadCategory(t[1]) = 4 => Taken(t) = 1
      /\ LeadCategory(t[1]) # 4 /\ LeadCategory(t[1]) + 1 > Len(t) => Taken(t) = Len(t)
      /\ LeadCategory(t[1]) # 4 /\ LeadCategory(t[1]) + 1 <= Len(t) => Taken(t) = LeadCategory(t[1]) + 1
  <2>1. PICK c \in 0 .. 4 : c = LeadCategory(t[1])
    BY <1>2
  <2>2. Taken(t) = IF c = 4 THEN 1 ELSE IF c + 1 > Len(t) THEN Len(t) ELSE c + 1
    BY ONLY <2>1 DEF Taken
  <2> QED
    BY ONLY <1>1, <2>1, <2>2, c \in 0 .. 4
<1>4. PICK a \in Nat, k \in Nat : a = Taken(t) /\ k = Len(t) - Taken(t) /\ a + k = Len(t)
  <2>1. Taken(t) \in Nat /\ Len(t) - Taken(t) \in Nat /\ Taken(t) + (Len(t) - Taken(t)) = Len(t)
    BY <1>1, <1>3
  <2> QED
    BY <2>1
<1>5. /\ SubSeq(t, a + 1, a + k) \in Seq(Nat) /\ Len(SubSeq(t, a + 1, a + k)) = k
      /\ \A i \in 1 .. k : SubSeq(t, a + 1, a + k)[i] = t[a + i]
  <2>1. a + k <= Len(t)
    BY <1>4
  <2> QED
    BY <2>1, PartOf
<1> QED
  BY ONLY <1>1, <1>3, <1>4, <1>5

\* Where a character's bytes come next, decode_utf8 reads them and returns it.
LEMMA ReadsCharacter ==
  ASSUME NEW w \in Seq(CodePoints), NEW off, NEW u, OffsetsOf(w, off), TextOf(w, off, u),
         NEW m \in 1 .. Len(w), NEW t \in Seq(Nat), off[m + 1] - off[m] <= Len(t),
         \A j \in 1 .. off[m + 1] - off[m] : t[j] = u[off[m] + j]
  PROVE  Taken(t) = off[m + 1] - off[m] /\ decode_utf8(t) = Carried(w[m]) /\ t # << >>
<1>1. PICK c \in Nat : c = w[m]
  BY OffsetFacts
<1>2. PICK e : e = encode_utf8(c)
  OBVIOUS
<1>3. off[m + 1] - off[m] = Len(e) /\ Len(e) \in 1 .. 4
  <2>1. off[m + 1] = off[m] + Len(e) /\ off[m] \in Nat /\ Len(e) \in 1 .. 4
    BY <1>1, <1>2, OffsetFacts
  <2> QED
    BY ONLY <2>1
<1>4. \A j \in 1 .. Len(e) : t[j] = e[j]
  BY <1>1, <1>2, <1>3 DEF TextOf
<1>5. Taken(t) = Len(e) /\ decode_utf8(t) = Carried(c)
  BY <1>2, <1>3, <1>4, Decodes
<1>6. t # << >>
  BY <1>3
<1> QED
  BY <1>1, <1>3, <1>5, <1>6

-----------------------------------------------------------------------------
Read == {decode_utf8(t) : t \in Seq(Nat)}

RightUpto(h) == \A i \in 1 .. Len(decoded) : i < h => decoded[i] = Carried(written[i])

\* The reader is before the byte q that is lost, at the start of a character.
Before(u, off) ==
  /\ Len(decoded) < hurt
  /\ \E q \in Nat :
       /\ off[hurt] < q /\ q <= off[hurt + 1]
       /\ Len(octets) = Len(u) - off[Len(decoded) + 1] - 1
       /\ \A j \in 1 .. Len(octets) :
            octets[j] = IF off[Len(decoded) + 1] + j < q THEN u[off[Len(decoded) + 1] + j]
                        ELSE u[off[Len(decoded) + 1] + j + 1]

\* It is past it, at the start of character m or on its way there through the
\* end of the one before, and has all after the damage that it has passed.
AfterAt(u, off, at, m) ==
  /\ Unread(octets, u, at)
  /\ at = off[m] \/ (off[m - 1] < at /\ at < off[m] /\ m <= hurt + 2)
  /\ \A i \in hurt + 2 .. m - 1 :
       m - 1 - i < Len(decoded) /\ decoded[Len(decoded) - (m - 1 - i)] = Carried(written[i])

After(u, off) ==
  /\ hurt <= Len(decoded) + 1
  /\ \E at \in Nat, m \in hurt + 1 .. Len(written) + 1 : AfterAt(u, off, at, m)

Position(u, off) ==
  \/ /\ hurt = 0 /\ Len(decoded) <= Len(written)
     /\ Unread(octets, u, off[Len(decoded) + 1]) /\ RightUpto(Len(decoded) + 1)
  \/ /\ hurt \in 1 .. Len(written) /\ RightUpto(hurt)
     /\ Before(u, off) \/ After(u, off)

Utf8TypeOK ==
  /\ written \in Seq(CodePoints)
  /\ octets \in Seq(Nat)
  /\ decoded \in Seq(Read)
  /\ sizes \in Seq(Nat) /\ Len(sizes) = Len(written)
  /\ \A i \in 1 .. Len(written) : sizes[i] = Len(encode_utf8(written[i]))

Utf8IInv ==
  /\ Utf8TypeOK
  /\ \E u, off : OffsetsOf(written, off) /\ TextOf(written, off, u) /\ Position(u, off)

LEMMA DecodeRead ==
  ASSUME Utf8TypeOK, Decode
  PROVE  /\ octets # << >> /\ Taken(octets) \in 1 .. Len(octets) /\ Len(octets) \in Nat
         /\ octets' \in Seq(Nat) /\ Len(octets') = Len(octets) - Taken(octets)
         /\ \A j \in 1 .. Len(octets') : octets'[j] = octets[Taken(octets) + j]
         /\ decoded' \in Seq(Read) /\ Len(decoded') = Len(decoded) + 1 /\ Len(decoded) \in Nat
         /\ \A i \in 1 .. Len(decoded) : decoded'[i] = decoded[i]
         /\ decoded'[Len(decoded) + 1] = decode_utf8(octets)
         /\ written' = written /\ sizes' = sizes /\ hurt' = hurt
<1>1. /\ octets # << >> /\ decoded' = Append(decoded, decode_utf8(octets))
      /\ octets' = SubSeq(octets, Taken(octets) + 1, Len(octets))
      /\ written' = written /\ sizes' = sizes /\ hurt' = hurt
  BY DEF Decode
<1>2. octets \in Seq(Nat) /\ decoded \in Seq(Read) /\ decode_utf8(octets) \in Read
  BY DEF Utf8TypeOK, Read
<1>3. /\ Taken(octets) \in 1 .. Len(octets) /\ Len(octets) \in Nat
      /\ octets' \in Seq(Nat) /\ Len(octets') = Len(octets) - Taken(octets)
      /\ \A j \in 1 .. Len(octets) - Taken(octets) : octets'[j] = octets[Taken(octets) + j]
  BY ONLY <1>1, <1>2, TakenBytes
<1>4. /\ decoded' \in Seq(Read) /\ Len(decoded') = Len(decoded) + 1 /\ Len(decoded) \in Nat
      /\ \A i \in 1 .. Len(decoded) : decoded'[i] = decoded[i]
      /\ decoded'[Len(decoded) + 1] = decode_utf8(octets)
  <2> HIDE DEF Read
  <2>1. PICK v \in Read : v = decode_utf8(octets)
    BY ONLY <1>2
  <2> QED
    BY ONLY <1>1, <1>2, <2>1, AppendProperties
<1> QED
  BY ONLY <1>1, <1>3, <1>4

LEMMA MoveOn ==
  ASSUME NEW t \in Seq(Nat), NEW s \in Seq(Nat), NEW u \in Seq(Nat), NEW at \in Nat, NEW k \in Nat,
         Unread(t, u, at), k <= Len(t), Len(s) = Len(t) - k, \A j \in 1 .. Len(s) : s[j] = t[k + j]
  PROVE  Unread(s, u, at + k)
<1>1. at <= Len(u) /\ Len(t) = Len(u) - at /\ Len(t) \in Nat /\ Len(u) \in Nat
  BY DEF Unread
<1>2. at + k <= Len(u) /\ Len(s) = Len(u) - (at + k)
  BY <1>1
<1>3. ASSUME NEW j \in 1 .. Len(s) PROVE s[j] = u[at + k + j]
  <2>0. j \in Nat /\ 1 <= j /\ j <= Len(t) - k
    OBVIOUS
  <2>1. k + j \in 1 .. Len(t) /\ at + (k + j) = at + k + j
    BY ONLY <1>1, <2>0, at \in Nat, k \in Nat
  <2>2. t[k + j] = u[at + (k + j)]
    BY <2>1 DEF Unread
  <2> QED
    BY <2>1, <2>2
<1> QED
  BY <1>2, <1>3 DEF Unread

\* The end of a character is within its text.
LEMMA CharacterEnds ==
  ASSUME NEW w \in Seq(CodePoints), NEW off, NEW u, OffsetsOf(w, off), TextOf(w, off, u), NEW m \in 1 .. Len(w)
  PROVE  off[m] \in Nat /\ off[m + 1] \in Nat /\ off[m] < off[m + 1] /\ off[m + 1] <= Len(u) /\ Len(u) \in Nat
<1>1. off[m] \in Nat /\ off[m + 1] \in Nat /\ off[m] < off[m + 1]
  BY OffsetFacts
<1>2. Len(u) = off[Len(w) + 1] /\ Len(u) \in Nat
  BY DEF TextOf
<1>3. CASE m = Len(w)
  BY <1>1, <1>2, <1>3
<1>4. CASE m # Len(w)
  <2>1. m + 1 \in 1 .. Len(w) + 1 /\ Len(w) + 1 \in 1 .. Len(w) + 1 /\ m + 1 < Len(w) + 1
    BY <1>4
  <2>2. off[m + 1] < off[Len(w) + 1]
    BY ONLY <2>1, OffsetsRise, w \in Seq(CodePoints), OffsetsOf(w, off)
  <2> QED
    BY <1>1, <1>2, <2>2
<1> QED
  BY <1>3, <1>4

LEMMA AtCharacter ==
  ASSUME NEW w \in Seq(CodePoints), NEW off, NEW u, OffsetsOf(w, off), TextOf(w, off, u),
         NEW m \in 1 .. Len(w), NEW t \in Seq(Nat), Unread(t, u, off[m])
  PROVE  /\ Taken(t) = off[m + 1] - off[m] /\ decode_utf8(t) = Carried(w[m]) /\ t # << >>
         /\ off[m] \in Nat /\ off[m + 1] \in Nat /\ off[m] < off[m + 1]
<1>1. off[m] \in Nat /\ off[m + 1] \in Nat /\ off[m] < off[m + 1] /\ off[m + 1] <= Len(u) /\ Len(u) \in Nat
  BY CharacterEnds
<1>2. Len(t) = Len(u) - off[m] /\ \A j \in 1 .. Len(t) : t[j] = u[off[m] + j]
  BY DEF Unread
<1>3. off[m + 1] - off[m] <= Len(t)
  BY <1>1, <1>2
<1>4. \A j \in 1 .. off[m + 1] - off[m] : t[j] = u[off[m] + j]
  BY <1>1, <1>2, <1>3
<1> QED
  BY <1>1, <1>3, <1>4, ReadsCharacter

\* In the middle of a character decode_utf8 takes one byte.
LEMMA WithinCharacter ==
  ASSUME NEW w \in Seq(CodePoints), NEW off, NEW u, OffsetsOf(w, off), TextOf(w, off, u),
         NEW m \in 1 .. Len(w), NEW at \in Nat, off[m] < at, at < off[m + 1],
         NEW t \in Seq(Nat), Unread(t, u, at), t # << >>
  PROVE  Taken(t) = 1
<1>1. off[m] \in Nat /\ off[m + 1] \in Nat /\ off[m + 1] = off[m] + Len(encode_utf8(w[m])) /\ w[m] \in Nat
      /\ Len(encode_utf8(w[m])) \in 1 .. 4
  BY OffsetFacts
<1>2. PICK i \in Nat : i = at - off[m] + 1
  <2>1. at - off[m] + 1 \in Nat
    BY <1>1
  <2> QED
    BY <2>1
<1>3. i \in 2 .. Len(encode_utf8(w[m])) /\ at + 1 = off[m] + i
  <2>1. PICK x \in Nat, l \in 1 .. 4 : x = off[m] /\ l = Len(encode_utf8(w[m]))
    BY <1>1
  <2>2. x < at /\ at < x + l /\ i = at - x + 1
    BY <1>1, <1>2, <2>1
  <2>3. i \in 2 .. l /\ at + 1 = x + i
    BY ONLY <2>2, x \in Nat, l \in 1 .. 4, at \in Nat
  <2> QED
    BY <2>1, <2>3
<1>4. LeadCategory(encode_utf8(w[m])[i]) = 4
  BY <1>1, <1>3, LeadingByte DEF Leads
<1>5. u[off[m] + i] = encode_utf8(w[m])[i]
  <2>1. i \in 1 .. Len(encode_utf8(w[m]))
    BY <1>1, <1>3
  <2>2. \A z \in 1 .. Len(w) : \A y \in 1 .. Len(encode_utf8(w[z])) : u[off[z] + y] = encode_utf8(w[z])[y]
    BY DEF TextOf
  <2> QED
    BY ONLY <2>1, <2>2, m \in 1 .. Len(w)
<1>6. Len(t) \in Nat /\ Len(t) >= 1
  BY TakenBytes
<1>7. t[1] = u[at + 1]
  BY <1>6 DEF Unread
<1> QED
  BY <1>3, <1>4, <1>5, <1>7, TakenBytes

LEMMA CleanStep ==
  ASSUME Utf8TypeOK, Decode, NEW u, NEW off, OffsetsOf(written, off), TextOf(written, off, u),
         hurt = 0, Len(decoded) <= Len(written), Unread(octets, u, off[Len(decoded) + 1]), RightUpto(Len(decoded) + 1)
  PROVE  Position(u, off)'
<1>1. PICK d \in Nat, n \in Nat : d = Len(decoded) /\ n = Len(written)
  BY DEF Utf8TypeOK
<1>2. /\ octets # << >> /\ Taken(octets) \in 1 .. Len(octets) /\ Len(octets) \in Nat
      /\ octets' \in Seq(Nat) /\ Len(octets') = Len(octets) - Taken(octets)
      /\ \A j \in 1 .. Len(octets') : octets'[j] = octets[Taken(octets) + j]
      /\ Len(decoded') = d + 1 /\ \A i \in 1 .. d : decoded'[i] = decoded[i]
      /\ decoded'[d + 1] = decode_utf8(octets)
      /\ written' = written /\ hurt' = hurt
  BY <1>1, DecodeRead
<1>3. written \in Seq(CodePoints) /\ octets \in Seq(Nat) /\ u \in Seq(Nat)
  BY DEF Utf8TypeOK, TextOf
<1>4. d + 1 \in 1 .. n
  <2>1. d <= n /\ Len(octets) >= 1 /\ Len(octets) = Len(u) - off[d + 1]
    BY <1>1, <1>2 DEF Unread
  <2>2. Len(u) = off[n + 1] /\ Len(u) \in Nat
    BY <1>1, <1>3 DEF TextOf
  <2>3. d # n
    BY <2>1, <2>2
  <2> QED
    BY <2>1, <2>3
<1>5. /\ Taken(octets) = off[d + 1 + 1] - off[d + 1] /\ decode_utf8(octets) = Carried(written[d + 1])
      /\ off[d + 1] \in Nat /\ off[d + 1 + 1] \in Nat /\ off[d + 1] < off[d + 1 + 1]
  BY <1>1, <1>3, <1>4, AtCharacter
<1>6. Unread(octets', u, off[d + 1] + Taken(octets))
  <2>1. Unread(octets, u, off[d + 1]) /\ Taken(octets) \in Nat /\ Taken(octets) <= Len(octets)
    BY <1>1, <1>2
  <2> QED
    BY ONLY <1>2, <1>3, <1>5, <2>1, MoveOn
<1>7. off[d + 1] + Taken(octets) = off[d + 1 + 1]
  BY ONLY <1>5
<1>8. ASSUME NEW i \in 1 .. d + 1 PROVE decoded'[i] = Carried(written[i])
  <2>1. CASE i = d + 1
    BY <1>2, <1>5, <2>1
  <2>2. CASE i # d + 1
    <3>1. i \in 1 .. d /\ i < d + 1
      BY <2>2
    <3>2. decoded[i] = Carried(written[i])
      BY <1>1, <3>1 DEF RightUpto
    <3> QED
      BY <1>2, <3>1, <3>2
  <2> QED
    BY <2>1, <2>2
<1>9. (hurt = 0 /\ Len(decoded) <= Len(written))' /\ Unread(octets, u, off[Len(decoded) + 1])'
  BY <1>1, <1>2, <1>4, <1>6, <1>7
<1>10. RightUpto(Len(decoded) + 1)'
  BY <1>2, <1>8 DEF RightUpto
<1> QED
  BY <1>9, <1>10 DEF Position

LEMMA AfterStep ==
  ASSUME Utf8TypeOK, Decode, NEW u, NEW off, OffsetsOf(written, off), TextOf(written, off, u),
         hurt \in 1 .. Len(written), RightUpto(hurt), After(u, off)
  PROVE  RightUpto(hurt)' /\ After(u, off)'
<1>0. PICK d \in Nat, n \in Nat : d = Len(decoded) /\ n = Len(written)
  BY DEF Utf8TypeOK
<1>1. PICK h \in 1 .. n : d = Len(decoded) /\ n = Len(written) /\ h = hurt
  BY <1>0
<1>2. /\ octets # << >> /\ Taken(octets) \in 1 .. Len(octets) /\ Len(octets) \in Nat
      /\ octets' \in Seq(Nat) /\ Len(octets') = Len(octets) - Taken(octets)
      /\ \A j \in 1 .. Len(octets') : octets'[j] = octets[Taken(octets) + j]
      /\ Len(decoded') = d + 1 /\ \A i \in 1 .. d : decoded'[i] = decoded[i]
      /\ decoded'[d + 1] = decode_utf8(octets)
      /\ written' = written /\ hurt' = h
  BY <1>1, DecodeRead
<1>3. written \in Seq(CodePoints) /\ octets \in Seq(Nat) /\ u \in Seq(Nat)
      /\ OffsetsOf(written, off) /\ TextOf(written, off, u) /\ Len(u) = off[n + 1] /\ Len(u) \in Nat
  BY <1>1 DEF Utf8TypeOK, TextOf
<1>30. PICK lo \in Nat, lu \in Nat, tk \in Nat :
         /\ lo = Len(octets) /\ lu = Len(u) /\ lu = off[n + 1]
         /\ tk = Taken(octets) /\ 1 <= tk /\ tk <= lo /\ Len(octets') = lo - tk
  <2>1. Taken(octets) \in Nat /\ 1 <= Taken(octets) /\ Taken(octets) <= Len(octets)
    BY ONLY <1>2
  <2> QED
    BY ONLY <1>2, <1>3, <2>1
<1>4. h <= d + 1
  BY <1>1 DEF After
<1>5. PICK at \in Nat, m \in h + 1 .. n + 1 : AfterAt(u, off, at, m)
  BY <1>1 DEF After
<1>6. /\ Unread(octets, u, at)
      /\ at = off[m] \/ (off[m - 1] < at /\ at < off[m] /\ m <= h + 2)
      /\ \A i \in h + 2 .. m - 1 : m - 1 - i < d /\ decoded[d - (m - 1 - i)] = Carried(written[i])
  BY <1>1, <1>5 DEF AfterAt
<1>7. RightUpto(hurt)'
  <2>1. ASSUME NEW i \in 1 .. d + 1, i < h PROVE decoded'[i] = Carried(written[i])
    <3>1. i \in 1 .. d
      BY <1>4, <2>1
    <3>2. decoded[i] = Carried(written[i])
      BY <1>1, <2>1, <3>1 DEF RightUpto
    <3> QED
      BY <1>2, <3>1, <3>2
  <2> QED
    BY <1>2, <2>1 DEF RightUpto
<1>8. Taken(octets) \in Nat /\ Taken(octets) <= Len(octets)
  BY <1>2
<1>9. Unread(octets', u, at + Taken(octets))
  BY ONLY <1>2, <1>3, <1>6, <1>8, at \in Nat, MoveOn
<1>10. ASSUME NEW to \in Nat, NEW k \in h + 1 .. n + 1, Unread(octets', u, to),
              to = off[k] \/ (off[k - 1] < to /\ to < off[k] /\ k <= h + 2),
              \A i \in h + 2 .. k - 1 : k - 1 - i < d + 1 /\ decoded'[d + 1 - (k - 1 - i)] = Carried(written[i])
       PROVE  After(u, off)'
  <2>0. Len(decoded') = d + 1 /\ written' = written /\ hurt' = h
    BY ONLY <1>2
  <2>1. AfterAt(u, off, to, k)'
    BY ONLY <1>10, <2>0 DEF AfterAt
  <2>2. (hurt <= Len(decoded) + 1)' /\ k \in hurt' + 1 .. Len(written') + 1
    BY <1>1, <1>2, <1>4
  <2> QED
    BY <2>1, <2>2 DEF After
<1>11. CASE at = off[m]
  <2>1. m \in 1 .. n
    <3>1. at <= lu /\ lo = lu - at
      BY ONLY <1>6, <1>30 DEF Unread
    <3>2. at # lu
      BY ONLY <1>30, <3>1, lo \in Nat, lu \in Nat, tk \in Nat, at \in Nat
    <3>3. m # n + 1
      BY ONLY <1>11, <1>30, <3>2
    <3> QED
      BY <3>3
  <2>2. /\ Taken(octets) = off[m + 1] - off[m] /\ decode_utf8(octets) = Carried(written[m])
        /\ off[m] \in Nat /\ off[m + 1] \in Nat /\ off[m] < off[m + 1]
    <3>1. m \in 1 .. Len(written) /\ Unread(octets, u, off[m])
      BY ONLY <1>1, <1>6, <1>11, <2>1
    <3> QED
      BY ONLY <1>3, <3>1, AtCharacter
  <2>3. at + Taken(octets) = off[m + 1] /\ m + 1 \in h + 1 .. n + 1
    BY <1>11, <2>1, <2>2
  <2>4. ASSUME NEW i \in h + 2 .. (m + 1) - 1
        PROVE  (m + 1) - 1 - i < d + 1 /\ decoded'[d + 1 - ((m + 1) - 1 - i)] = Carried(written[i])
    <3>1. CASE i = m
      <4>1. (m + 1) - 1 - i = 0 /\ d + 1 - ((m + 1) - 1 - i) = d + 1
        BY <3>1
      <4> QED
        BY <1>2, <2>2, <3>1, <4>1
    <3>2. CASE i # m
      <4>1. i \in h + 2 .. m - 1
        BY <3>2
      <4>2. m - 1 - i < d /\ decoded[d - (m - 1 - i)] = Carried(written[i])
        BY <1>6, <4>1
      <4>3. PICK x \in Nat : x = d - (m - 1 - i) /\ x \in 1 .. d /\ d + 1 - ((m + 1) - 1 - i) = x
        <5>1. d - (m - 1 - i) \in 1 .. d /\ d + 1 - ((m + 1) - 1 - i) = d - (m - 1 - i)
          BY <4>1, <4>2
        <5> QED
          BY <5>1
      <4>4. (m + 1) - 1 - i < d + 1
        BY <4>1, <4>2
      <4> QED
        BY <1>2, <4>2, <4>3, <4>4
    <3> QED
      BY <3>1, <3>2
  <2>5. Unread(octets', u, off[m + 1])
    BY <1>9, <2>3
  <2> QED
    BY <1>7, <1>10, <2>2, <2>3, <2>4, <2>5
<1>12. CASE off[m - 1] < at /\ at < off[m] /\ m <= h + 2
  <2>1. m - 1 \in 1 .. n /\ m - 1 + 1 = m
    OBVIOUS
  <2>2. Taken(octets) = 1
    BY <1>1, <1>2, <1>3, <1>6, <1>12, <2>1, WithinCharacter
  <2>3. off[m] \in Nat /\ off[m - 1] \in Nat
    BY <1>1, <1>3, <2>1, CharacterEnds
  <2>4. at + 1 = off[m] \/ (off[m - 1] < at + 1 /\ at + 1 < off[m] /\ m <= h + 2)
    BY <1>12, <2>3
  <2>5. ~ \E i \in h + 2 .. m - 1 : TRUE
    BY <1>12
  <2>6. Unread(octets', u, at + 1)
    BY <1>9, <2>2
  <2>7. at + 1 \in Nat
    OBVIOUS
  <2> QED
    BY ONLY <1>7, <1>10, <2>4, <2>5, <2>6, <2>7, m \in h + 1 .. n + 1
<1> QED
  BY <1>6, <1>11, <1>12

LEMMA BeforeStep ==
  ASSUME Utf8TypeOK, Decode, NEW u, NEW off, OffsetsOf(written, off), TextOf(written, off, u),
         hurt \in 1 .. Len(written), RightUpto(hurt), Before(u, off)
  PROVE  RightUpto(hurt)' /\ (Before(u, off) \/ After(u, off))'
<1>0. PICK d \in Nat, n \in Nat : d = Len(decoded) /\ n = Len(written)
  BY DEF Utf8TypeOK
<1>1. PICK h \in 1 .. n : d = Len(decoded) /\ n = Len(written) /\ h = hurt
  BY <1>0
<1>2. /\ octets # << >> /\ Taken(octets) \in 1 .. Len(octets) /\ Len(octets) \in Nat
      /\ octets' \in Seq(Nat) /\ Len(octets') = Len(octets) - Taken(octets)
      /\ \A j \in 1 .. Len(octets') : octets'[j] = octets[Taken(octets) + j]
      /\ Len(decoded') = d + 1 /\ \A i \in 1 .. d : decoded'[i] = decoded[i]
      /\ decoded'[d + 1] = decode_utf8(octets)
      /\ written' = written /\ hurt' = h
  BY <1>1, DecodeRead
<1>3. written \in Seq(CodePoints) /\ octets \in Seq(Nat) /\ u \in Seq(Nat)
      /\ OffsetsOf(written, off) /\ TextOf(written, off, u) /\ Len(u) = off[n + 1] /\ Len(u) \in Nat
  BY <1>1 DEF Utf8TypeOK, TextOf
<1>30. PICK lo \in Nat, lu \in Nat, tk \in Nat :
         /\ lo = Len(octets) /\ lu = Len(u) /\ lu = off[n + 1]
         /\ tk = Taken(octets) /\ 1 <= tk /\ tk <= lo /\ Len(octets') = lo - tk
  <2>1. Taken(octets) \in Nat /\ 1 <= Taken(octets) /\ Taken(octets) <= Len(octets)
    BY ONLY <1>2
  <2> QED
    BY ONLY <1>2, <1>3, <2>1
<1>4. d < h
  BY <1>1 DEF Before
<1>5. PICK k \in Nat, q \in Nat :
        /\ k = off[d + 1] /\ off[h] < q /\ q <= off[h + 1] /\ Len(octets) = Len(u) - k - 1
        /\ \A j \in 1 .. Len(octets) : octets[j] = IF k + j < q THEN u[k + j] ELSE u[k + j + 1]
  <2>1. d + 1 \in 1 .. n
    BY <1>4
  <2>2. off[d + 1] \in Nat
    BY <1>1, <1>3, <2>1, CharacterEnds
  <2> QED
    BY <1>1, <2>2 DEF Before
<1>6. /\ off[h] \in Nat /\ off[h + 1] \in Nat /\ off[h] < off[h + 1] /\ off[h + 1] <= Len(u)
      /\ off[h + 1] = off[h] + Len(encode_utf8(written[h])) /\ Len(encode_utf8(written[h])) \in 1 .. 4
      /\ written[h] \in Nat
  BY <1>1, <1>3, CharacterEnds, OffsetFacts
<1>7. \A i \in 1 .. d : i < h => decoded'[i] = Carried(written[i])
  BY <1>1, <1>2 DEF RightUpto
<1>8. CASE d + 1 < h
  <2>1. d + 1 \in 1 .. n /\ d + 1 + 1 \in 1 .. n + 1 /\ h \in 1 .. n + 1
    BY <1>8
  <2>2. PICK l \in Nat : l = off[d + 1 + 1] /\ k < l
    BY <1>1, <1>3, <1>5, <2>1, CharacterEnds
  <2>3. l <= off[h]
    <3>1. CASE d + 1 + 1 = h
      BY <1>6, <2>2, <3>1
    <3>2. CASE d + 1 + 1 # h
      <4>1. PICK g \in 1 .. n + 1 : g = d + 1 + 1
        BY ONLY <2>1
      <4>2. g < h
        BY ONLY <1>8, <3>2, <4>1, d \in Nat, n \in Nat, h \in 1 .. n
      <4>3. off[g] < off[h]
        <5>1. n = Len(written)
          BY <1>1
        <5>2. written \in Seq(CodePoints) /\ OffsetsOf(written, off) /\ h \in 1 .. Len(written) + 1
              /\ g \in 1 .. Len(written) + 1
          BY ONLY <1>3, <2>1, <4>1, <5>1
        <5> QED
          BY ONLY <4>2, <5>2, OffsetsRise
      <4> QED
        BY ONLY <1>6, <2>2, <4>1, <4>3
    <3> QED
      BY <3>1, <3>2
  <2>31. PICK a \in Nat, b \in Nat : a = off[h] /\ b = off[h + 1]
    BY <1>6
  <2>32. l <= a /\ a < q /\ q <= b /\ b <= lu /\ lo = lu - k - 1 /\ k < l
    BY ONLY <1>5, <1>6, <1>30, <2>2, <2>3, <2>31
  <2>33. l - k <= lo /\ l < q /\ l - k \in Nat
    BY ONLY <2>32, a \in Nat, b \in Nat, l \in Nat, k \in Nat, lo \in Nat, lu \in Nat, q \in Nat
  <2>4. l - k <= Len(octets) /\ l < q
    BY ONLY <1>30, <2>33
  <2>5. ASSUME NEW j \in 1 .. l - k PROVE octets[j] = u[k + j]
    <3>1. j \in 1 .. Len(octets) /\ k + j < q
      BY ONLY <1>2, <2>2, <2>4, k \in Nat, q \in Nat, l \in Nat, j \in 1 .. l - k
    <3> QED
      BY ONLY <1>5, <3>1
  <2>6. Taken(octets) = l - k /\ decode_utf8(octets) = Carried(written[d + 1])
    <3>1. d + 1 \in 1 .. Len(written) /\ off[d + 1] = k /\ off[d + 1 + 1] = l
      BY ONLY <1>1, <1>5, <2>1, <2>2
    <3>2. \A j \in 1 .. l - k : octets[j] = u[k + j]
      BY ONLY <2>5
    <3>3. PICK m \in 1 .. Len(written) : m = d + 1
      BY ONLY <3>1
    <3>4. off[m] = k /\ off[m + 1] = l
      BY ONLY <3>1, <3>3
    <3>5. off[m + 1] - off[m] <= Len(octets)
      BY ONLY <2>4, <3>4
    <3>6. \A j \in 1 .. off[m + 1] - off[m] : octets[j] = u[off[m] + j]
      BY ONLY <3>2, <3>4
    <3>7. Taken(octets) = off[m + 1] - off[m] /\ decode_utf8(octets) = Carried(written[m])
      BY ONLY <1>3, <3>5, <3>6, m \in 1 .. Len(written), ReadsCharacter
    <3> QED
      BY ONLY <3>3, <3>4, <3>7
  <2>70. Len(octets') = lu - l - 1
    <3>1. tk = l - k
      BY ONLY <1>30, <2>6
    <3>2. lo - tk = lu - l - 1
      BY ONLY <2>32, <3>1, l \in Nat, k \in Nat, lo \in Nat, lu \in Nat, tk \in Nat
    <3> QED
      BY ONLY <1>30, <3>2
  <2>7. Len(octets') = Len(u) - l - 1
    BY ONLY <1>30, <2>70
  <2>8. ASSUME NEW j \in 1 .. Len(octets')
        PROVE  octets'[j] = IF l + j < q THEN u[l + j] ELSE u[l + j + 1]
    <3>1. octets'[j] = octets[l - k + j]
      BY <1>2, <2>6
    <3>20. j \in Nat /\ 1 <= j /\ j <= lu - l - 1
      BY ONLY <2>70, l \in Nat, lu \in Nat, j \in 1 .. Len(octets')
    <3>21. l - k + j \in 1 .. lo /\ k + (l - k + j) = l + j
      BY ONLY <2>32, <3>20, l \in Nat, k \in Nat, lo \in Nat, lu \in Nat
    <3>2. l - k + j \in 1 .. Len(octets) /\ k + (l - k + j) = l + j
      BY ONLY <1>30, <3>21
    <3>3. octets[l - k + j] = IF k + (l - k + j) < q THEN u[k + (l - k + j)] ELSE u[k + (l - k + j) + 1]
      BY <1>5, <3>2
    <3> QED
      BY <3>1, <3>2, <3>3
  <2>9. Before(u, off)'
    <3>1. Len(decoded') = d + 1 /\ hurt' = h /\ d + 1 < h
      BY ONLY <1>2, <1>8
    <3>2. off[d + 1 + 1] = l /\ off[h] < q /\ q <= off[h + 1]
      BY ONLY <1>5, <2>2
    <3> QED
      BY ONLY ZenonT(30), <2>7, <2>8, <3>1, <3>2, q \in Nat DEF Before
  <2>10. RightUpto(hurt)'
    <3>1. decoded'[d + 1] = Carried(written[d + 1])
      BY <1>2, <2>6
    <3>2. \A i \in 1 .. d + 1 : i \in 1 .. d \/ i = d + 1
      OBVIOUS
    <3> QED
      BY <1>2, <1>7, <3>1, <3>2 DEF RightUpto
  <2> QED
    BY <2>9, <2>10
<1>9. CASE d + 1 = h /\ q = k + 1
  <2>1. Unread(octets, u, q)
    <3>0. PICK b \in Nat : b = off[h + 1]
      BY <1>6
    <3>10. q <= b /\ b <= lu /\ lo = lu - k - 1 /\ q = k + 1
      BY ONLY <1>5, <1>6, <1>9, <1>30, <3>0
    <3>11. q <= lu /\ lo = lu - q
      BY ONLY <3>10, q \in Nat, b \in Nat, k \in Nat, lo \in Nat, lu \in Nat
    <3>1. q <= Len(u) /\ Len(octets) = Len(u) - q
      BY ONLY <1>30, <3>11
    <3>2. ASSUME NEW j \in 1 .. Len(octets) PROVE octets[j] = u[q + j]
      <4>1. ~(k + j < q) /\ k + j + 1 = q + j
        BY <1>9
      <4> QED
        BY <1>5, <4>1
    <3> QED
      BY <3>1, <3>2 DEF Unread
  <2>2. q = off[h + 1] \/ (off[h + 1 - 1] < q /\ q < off[h + 1] /\ h + 1 <= h + 2)
    <3>1. h + 1 - 1 = h
      OBVIOUS
    <3> QED
      BY <1>5, <1>6, <3>1
  <2>3. ~ \E i \in h + 2 .. h + 1 - 1 : TRUE
    OBVIOUS
  <2>4. AfterAt(u, off, q, h + 1)
    BY <1>1, <2>1, <2>2, <2>3 DEF AfterAt
  <2>5. h + 1 \in hurt + 1 .. Len(written) + 1 /\ hurt <= Len(decoded) + 1
    BY <1>1, <1>9
  <2>6. After(u, off)
    BY <2>4, <2>5 DEF After
  <2> QED
    BY <2>6, AfterStep
<1>10. CASE d + 1 = h /\ q # k + 1
  <2>1. PICK l \in 2 .. 4 : /\ l = Len(encode_utf8(written[h])) /\ off[h] = k /\ off[h + 1] = k + l
                            /\ k + 1 < q /\ q <= k + l /\ k + l <= Len(u)
    <3>1. PICK l \in 1 .. 4 : l = Len(encode_utf8(written[h]))
      BY <1>6
    <3>2. off[h] = k /\ off[h + 1] = k + l /\ k < q /\ q <= k + l /\ k + l <= Len(u)
      BY <1>5, <1>6, <1>10, <3>1
    <3>3. k + 1 < q /\ l \in 2 .. 4
      BY <1>10, <3>2
    <3> QED
      BY <3>1, <3>2, <3>3
  <2>2. LeadCategory(octets[1]) = l - 1
    <3>1. 1 \in 1 .. Len(octets) /\ 1 \in 1 .. l
      BY <1>2, <2>1
    <3>2. octets[1] = u[k + 1]
      BY <1>5, <2>1, <3>1
    <3>3. u[k + 1] = encode_utf8(written[h])[1]
      BY <1>1, <1>3, <2>1, <3>1 DEF TextOf
    <3> QED
      BY <1>6, <2>1, <3>2, <3>3, LeadingByte DEF Leads
  <2>3. Taken(octets) = IF l > Len(octets) THEN Len(octets) ELSE l
    <3>1. l - 1 # 4 /\ l - 1 + 1 = l
      OBVIOUS
    <3>2. /\ LeadCategory(octets[1]) + 1 > Len(octets) => Taken(octets) = Len(octets)
          /\ LeadCategory(octets[1]) + 1 <= Len(octets) => Taken(octets) = LeadCategory(octets[1]) + 1
      BY ONLY <1>2, <1>3, <2>2, <3>1, TakenBytes
    <3>3. l > lo \/ l <= lo
      OBVIOUS
    <3> QED
      BY ONLY <1>30, <2>2, <3>1, <3>2, <3>3
  <2>31. tk = (IF l > lo THEN lo ELSE l) /\ k + l <= lu /\ lo = lu - k - 1
    BY ONLY <1>5, <1>30, <2>1, <2>3
  <2>4. RightUpto(hurt)'
    <3>1. \A i \in 1 .. d + 1 : i < h => i \in 1 .. d
      BY <1>10
    <3> QED
      BY <1>2, <1>7, <3>1 DEF RightUpto
  <2>5. ASSUME NEW to \in Nat, NEW m \in h + 1 .. n + 1, Unread(octets', u, to), m <= h + 2,
               to = off[m] \/ (off[m - 1] < to /\ to < off[m])
        PROVE  After(u, off)'
    <3>1. ~ \E i \in h + 2 .. m - 1 : TRUE
      BY <2>5
    <3>2. AfterAt(u, off, to, m)'
      BY <1>2, <2>5, <3>1 DEF AfterAt
    <3>3. (hurt <= Len(decoded) + 1)' /\ m \in hurt' + 1 .. Len(written') + 1
      BY <1>1, <1>2, <1>10
    <3> QED
      BY <3>2, <3>3 DEF After
  <2>6. CASE l > Len(octets)
    <3>0. lo - tk = 0 /\ lu = k + l
      <4>1. l > lo
        BY ONLY <1>30, <2>6
      <4> QED
        BY ONLY <2>31, <4>1, k \in Nat, l \in 2 .. 4, lo \in Nat, lu \in Nat
    <3>1. Len(octets') = 0 /\ Len(u) = k + l
      BY ONLY <1>30, <3>0
    <3>2. Unread(octets', u, k + l)
      BY <3>1 DEF Unread
    <3>3. k + l \in Nat /\ h + 1 \in h + 1 .. n + 1 /\ h + 1 <= h + 2
      OBVIOUS
    <3> QED
      BY <2>1, <2>4, <2>5, <3>2, <3>3
  <2>7. CASE ~(l > Len(octets))
    <3>0. tk = l /\ l <= lo /\ lo - tk = lu - (k + l + 1) /\ k + l + 1 <= lu
      <4>1. ~(l > lo)
        BY ONLY <1>30, <2>7
      <4> QED
        BY ONLY <2>31, <4>1, k \in Nat, l \in 2 .. 4, lo \in Nat, lu \in Nat
    <3>1. Taken(octets) = l /\ l <= Len(octets) /\ Len(octets') = Len(u) - (k + l + 1) /\ k + l + 1 <= Len(u)
      BY ONLY <1>30, <3>0
    <3>2. ASSUME NEW j \in 1 .. Len(octets') PROVE octets'[j] = u[k + l + 1 + j]
      <4>1. octets'[j] = octets[l + j]
        BY <1>2, <3>1
      <4>20. j \in Nat /\ 1 <= j /\ j <= lo - tk
        BY ONLY <1>30, lo \in Nat, tk \in Nat, j \in 1 .. Len(octets')
      <4>21. l + j \in 1 .. lo /\ ~(k + (l + j) < q) /\ k + (l + j) + 1 = k + l + 1 + j
        BY ONLY <2>1, <3>0, <4>20, k \in Nat, q \in Nat, l \in 2 .. 4, lo \in Nat
      <4>2. l + j \in 1 .. Len(octets) /\ ~(k + (l + j) < q) /\ k + (l + j) + 1 = k + l + 1 + j
        BY ONLY <1>30, <4>21
      <4> QED
        BY <1>5, <4>1, <4>2
    <3>3. Unread(octets', u, k + l + 1)
      BY <3>1, <3>2 DEF Unread
    <3>4. h # n
      BY <1>3, <2>1, <3>1
    <3>5. h + 1 \in 1 .. n
      BY <3>4
    <3>6. off[h + 1] < off[h + 1 + 1] /\ off[h + 1 + 1] \in Nat
      BY <1>1, <1>3, <3>5, CharacterEnds
    <3>7. h + 1 + 1 = h + 2 /\ h + 2 - 1 = h + 1 /\ h + 2 \in h + 1 .. n + 1 /\ k + l + 1 \in Nat
      BY <3>5
    <3>8. k + l + 1 = off[h + 2] \/ (off[h + 2 - 1] < k + l + 1 /\ k + l + 1 < off[h + 2])
      <4>1. PICK c \in Nat : c = off[h + 2] /\ k + l < c
        BY ONLY <2>1, <3>6, <3>7
      <4>2. k + l + 1 = c \/ (k + l < k + l + 1 /\ k + l + 1 < c)
        BY ONLY <4>1, k \in Nat, l \in 2 .. 4, c \in Nat
      <4> QED
        BY ONLY <2>1, <3>7, <4>1, <4>2
    <3> QED
      BY <2>4, <2>5, <3>3, <3>7, <3>8
  <2> QED
    BY <2>6, <2>7
<1> QED
  BY <1>4, <1>8, <1>9, <1>10

\* The character a byte belongs to is the one between whose ends it lies.
LEMMA CharacterIs ==
  ASSUME Utf8TypeOK, NEW off, OffsetsOf(written, off), NEW k \in Nat, 0 < k, k <= off[Len(written) + 1]
  PROVE  CharacterOf(k) \in 1 .. Len(written) /\ off[CharacterOf(k)] < k /\ k <= off[CharacterOf(k) + 1]
<1> DEFINE body(g) == [i \in 0 .. Len(sizes) |-> IF i = 0 THEN 0 ELSE g[i - 1] + sizes[i]]
           end == CHOOSE g : g = body(g)
<1>1. PICK n \in Nat : n = Len(written) /\ n = Len(sizes)
  BY DEF Utf8TypeOK
<1>2. ASSUME NEW i \in 1 .. n PROVE off[i] \in Nat /\ off[i + 1] = off[i] + sizes[i]
  BY <1>1, OffsetFacts DEF Utf8TypeOK
<1>3. off[1] = 0
  BY DEF OffsetsOf
<1>4. end = body(end)
  <2> DEFINE g == [i \in 0 .. Len(sizes) |-> off[i + 1]]
             term(i) == IF i = 0 THEN 0 ELSE g[i - 1] + sizes[i]
  <2>1. ASSUME NEW i \in 0 .. Len(sizes) PROVE off[i + 1] = term(i)
    <3>1. CASE i = 0
      BY <1>3, <3>1
    <3>2. CASE i # 0
      <4>1. i \in 1 .. n /\ i - 1 \in 0 .. Len(sizes) /\ i - 1 + 1 = i
        BY <1>1, <3>2
      <4>2. g[i - 1] = off[i]
        BY <4>1
      <4> QED
        BY <1>2, <3>2, <4>1, <4>2
    <3> QED
      BY <3>1, <3>2
  <2>2. body(g) = [i \in 0 .. Len(sizes) |-> term(i)]
    OBVIOUS
  <2>3. g = body(g)
    <3> HIDE DEF term, body
    <3> QED
      BY <2>1, <2>2
  <2> HIDE DEF g, body
  <2> QED
    BY <2>3
<1> HIDE DEF end
<1>5. \A i \in 0 .. n : end[i] = IF i = 0 THEN 0 ELSE end[i - 1] + sizes[i]
  BY <1>1, <1>4
<1> DEFINE T == {m \in Nat : m <= n => end[m] = off[m + 1]}
<1>6. 0 \in T
  <2>1. 0 \in 0 .. n /\ 0 + 1 = 1
    OBVIOUS
  <2> QED
    BY <1>3, <1>5, <2>1
<1>7. ASSUME NEW m \in Nat, m \in T PROVE m + 1 \in T
  <2> SUFFICES ASSUME m + 1 <= n PROVE end[m + 1] = off[m + 1 + 1]
    OBVIOUS
  <2>1. m + 1 \in 0 .. n /\ m + 1 # 0 /\ m + 1 - 1 = m /\ m + 1 \in 1 .. n
    OBVIOUS
  <2>2. end[m + 1] = end[m] + sizes[m + 1]
    BY <1>5, <2>1
  <2>3. end[m] = off[m + 1]
    BY <1>7, <2>1
  <2> QED
    BY <1>2, <2>1, <2>2, <2>3
<1>8. Nat \subseteq T
  <2> HIDE DEF T
  <2> QED
    BY <1>6, <1>7, Induction
<1>9. ASSUME NEW m \in 0 .. n PROVE end[m] = off[m + 1]
  <2>1. m \in T /\ m <= n
    BY <1>8
  <2> QED
    BY <2>1
<1>10. PICK h \in 1 .. n : off[h] < k /\ k <= off[h + 1]
  <2>1. written \in Seq(CodePoints)
    BY DEF Utf8TypeOK
  <2> QED
    BY <1>1, <2>1, CharacterFound
<1>11. CharacterOf(k) = CHOOSE i \in 1 .. Len(sizes) : end[i - 1] < k /\ k <= end[i]
  BY DEF CharacterOf, end
<1>12. ASSUME NEW i \in 1 .. n PROVE end[i - 1] = off[i] /\ end[i] = off[i + 1]
  <2>1. i - 1 \in 0 .. n /\ i \in 0 .. n /\ i - 1 + 1 = i
    OBVIOUS
  <2>2. end[i - 1] = off[i - 1 + 1] /\ end[i] = off[i + 1]
    BY <1>9, <2>1
  <2> QED
    BY <2>1, <2>2
<1>13. h \in 1 .. Len(sizes) /\ end[h - 1] < k /\ k <= end[h]
  BY <1>1, <1>10, <1>12
<1>14. CharacterOf(k) \in 1 .. Len(sizes) /\ end[CharacterOf(k) - 1] < k /\ k <= end[CharacterOf(k)]
  BY ONLY <1>11, <1>13
<1> QED
  BY ONLY <1>1, <1>12, <1>14

LEMMA ByteRemoved ==
  ASSUME NEW t \in Seq(Nat), NEW k \in 1 .. Len(t)
  PROVE  /\ SubSeq(t, 1, k - 1) \o SubSeq(t, k + 1, Len(t)) \in Seq(Nat)
         /\ Len(SubSeq(t, 1, k - 1) \o SubSeq(t, k + 1, Len(t))) = Len(t) - 1
         /\ \A j \in 1 .. Len(t) - 1 :
              (SubSeq(t, 1, k - 1) \o SubSeq(t, k + 1, Len(t)))[j] = IF j < k THEN t[j] ELSE t[j + 1]
<1>1. PICK a \in Nat, b \in Nat : a = k - 1 /\ b = Len(t) - k /\ k = a + 1 /\ Len(t) = k + b
  <2>1. k - 1 \in Nat /\ Len(t) - k \in Nat /\ k = (k - 1) + 1 /\ Len(t) = k + (Len(t) - k)
    OBVIOUS
  <2> QED
    BY <2>1
<1>2. PICK x : x = SubSeq(t, 1, k - 1)
  OBVIOUS
<1>3. PICK y : y = SubSeq(t, k + 1, Len(t))
  OBVIOUS
<1>4. x \in Seq(Nat) /\ Len(x) = a /\ \A i \in 1 .. a : x[i] = t[i]
  <2>1. 0 \in Nat /\ 0 + a <= Len(t) /\ 0 + 1 = 1 /\ 0 + a = k - 1 /\ \A i \in 1 .. a : 0 + i = i
    BY <1>1
  <2>2. /\ SubSeq(t, 0 + 1, 0 + a) \in Seq(Nat) /\ Len(SubSeq(t, 0 + 1, 0 + a)) = a
        /\ \A i \in 1 .. a : SubSeq(t, 0 + 1, 0 + a)[i] = t[0 + i]
    BY ONLY <2>1, t \in Seq(Nat), a \in Nat, PartOf
  <2> QED
    BY ONLY <1>2, <2>1, <2>2
<1>5. y \in Seq(Nat) /\ Len(y) = b /\ \A i \in 1 .. b : y[i] = t[k + i]
  <2>1. k \in Nat /\ k + b <= Len(t) /\ k + b = Len(t)
    BY <1>1
  <2>2. /\ SubSeq(t, k + 1, k + b) \in Seq(Nat) /\ Len(SubSeq(t, k + 1, k + b)) = b
        /\ \A i \in 1 .. b : SubSeq(t, k + 1, k + b)[i] = t[k + i]
    BY ONLY <2>1, t \in Seq(Nat), b \in Nat, PartOf
  <2> QED
    BY ONLY <1>3, <2>1, <2>2
<1>6. /\ x \o y \in Seq(Nat) /\ Len(x \o y) = Len(x) + Len(y)
      /\ \A i \in 1 .. Len(x) + Len(y) : (x \o y)[i] = IF i <= Len(x) THEN x[i] ELSE y[i - Len(x)]
  BY ONLY <1>4, <1>5, ConcatProperties
<1>7. Len(x) + Len(y) = Len(t) - 1
  <2>1. a + b = Len(t) - 1
    BY ONLY <1>1, a \in Nat, b \in Nat
  <2> QED
    BY ONLY <1>4, <1>5, <2>1
<1>8. ASSUME NEW j \in 1 .. Len(t) - 1 PROVE (x \o y)[j] = IF j < k THEN t[j] ELSE t[j + 1]
  <2>0. (x \o y)[j] = IF j <= a THEN x[j] ELSE y[j - a]
    BY <1>4, <1>6, <1>7
  <2>1. CASE j <= a
    <3>1. j \in 1 .. a /\ j < k
      BY <1>1, <2>1
    <3> QED
      BY <1>4, <2>0, <3>1
  <2>2. CASE ~(j <= a)
    <3>1. j - a \in 1 .. b /\ ~(j < k) /\ k + (j - a) = j + 1
      BY <1>1, <2>2
    <3> QED
      BY <1>5, <2>0, <2>2, <3>1
  <2> QED
    BY <2>1, <2>2
<1> QED
  BY <1>2, <1>3, <1>6, <1>7, <1>8

\* Before anything is read or lost the text is the characters written.
LEMMA Undamaged ==
  ASSUME Utf8TypeOK, NEW u, NEW off, OffsetsOf(written, off), TextOf(written, off, u), Position(u, off),
         hurt = 0, decoded = << >>
  PROVE  Len(decoded) = 0 /\ off[1] = 0 /\ Len(octets) = Len(u) /\ \A j \in 1 .. Len(u) : octets[j] = u[j]
<1>1. Len(decoded) = 0 /\ off[1] = 0 /\ 0 + 1 = 1
  BY DEF OffsetsOf
<1>2. Unread(octets, u, 0)
  BY <1>1 DEF Position
<1>3. Len(u) \in Nat
  BY DEF TextOf
<1> QED
  BY <1>1, <1>2, <1>3 DEF Unread

LEMMA EncodeStep ==
  ASSUME Utf8TypeOK, NEW c \in CodePoints, Encode(c), NEW u, NEW off,
         OffsetsOf(written, off), TextOf(written, off, u), Position(u, off)
  PROVE  Utf8IInv'
<1>1. PICK e : e = encode_utf8(c)
  OBVIOUS
<1>2. e \in Seq(Nat) /\ Len(e) \in Nat
  <2>1. c \in Nat
    BY Utf8Assumption
  <2> QED
    BY <1>1, <2>1, EncodedBytes
<1>3. /\ written' = Append(written, c) /\ sizes' = Append(sizes, Len(e)) /\ octets' = octets \o e
      /\ hurt' = 0 /\ hurt = 0 /\ decoded = << >> /\ decoded' = << >>
  BY <1>1 DEF Encode
<1>4. PICK n \in Nat : n = Len(written)
  BY DEF Utf8TypeOK
<1>5. /\ written' \in Seq(CodePoints) /\ Len(written') = n + 1
      /\ \A i \in 1 .. n : written'[i] = written[i]
      /\ written'[n + 1] = c
  <2>1. written \in Seq(CodePoints)
    BY DEF Utf8TypeOK
  <2> QED
    BY ONLY <1>3, <1>4, <2>1, c \in CodePoints, AppendProperties
<1>6. /\ sizes' \in Seq(Nat) /\ Len(sizes') = n + 1
      /\ \A i \in 1 .. n : sizes'[i] = sizes[i]
      /\ sizes'[n + 1] = Len(e)
  <2>1. sizes \in Seq(Nat) /\ Len(sizes) = n
    BY <1>4 DEF Utf8TypeOK
  <2> QED
    BY ONLY <1>2, <1>3, <2>1, AppendProperties
<1>7. /\ octets' \in Seq(Nat) /\ Len(octets') = Len(octets) + Len(e)
      /\ \A i \in 1 .. Len(octets) + Len(e) : octets'[i] = IF i <= Len(octets) THEN octets[i] ELSE e[i - Len(octets)]
  <2>1. octets \in Seq(Nat)
    BY DEF Utf8TypeOK
  <2> QED
    BY ONLY <1>2, <1>3, <2>1, ConcatProperties
<1>8. Utf8TypeOK'
  <2>1. \A i \in 1 .. n : sizes[i] = Len(encode_utf8(written[i]))
    BY <1>4 DEF Utf8TypeOK
  <2>2. \A i \in 1 .. n + 1 : i \in 1 .. n \/ i = n + 1
    OBVIOUS
  <2>3. \A i \in 1 .. n + 1 : sizes'[i] = Len(encode_utf8(written'[i]))
    BY ONLY <1>1, <1>5, <1>6, <2>1, <2>2
  <2>4. << >> \in Seq(Read)
    OBVIOUS
  <2> QED
    BY ONLY <1>3, <1>5, <1>6, <1>7, <2>3, <2>4 DEF Utf8TypeOK
<1> DEFINE off2 == [i \in 1 .. n + 2 |-> IF i <= n + 1 THEN off[i] ELSE off[n + 1] + Len(e)]
<1>9. off \in [1 .. n + 1 -> Nat] /\ off[1] = 0 /\ \A i \in 1 .. n : off[i + 1] = off[i] + Len(encode_utf8(written[i]))
  BY <1>4 DEF OffsetsOf
<1>10. /\ off2 \in [1 .. (n + 1) + 1 -> Nat] /\ \A i \in 1 .. n + 1 : off2[i] = off[i]
       /\ off2[(n + 1) + 1] = off[n + 1] + Len(e)
  <2>1. off[n + 1] + Len(e) \in Nat /\ (n + 1) + 1 = n + 2 /\ n + 2 \in 1 .. n + 2 /\ ~(n + 2 <= n + 1)
    BY <1>2, <1>9
  <2>2. off2 \in [1 .. n + 2 -> Nat]
    BY <1>9, <2>1
  <2>3. \A i \in 1 .. n + 1 : i \in 1 .. n + 2 /\ i <= n + 1
    OBVIOUS
  <2> QED
    BY <2>1, <2>2, <2>3
<1> HIDE DEF off2
<1>11. OffsetsOf(written', off2)
  <2>1. off2[1] = 0
    BY <1>9, <1>10
  <2>2. ASSUME NEW i \in 1 .. n + 1 PROVE off2[i + 1] = off2[i] + Len(encode_utf8(written'[i]))
    <3>1. CASE i = n + 1
      BY <1>1, <1>5, <1>10, <3>1
    <3>2. CASE i # n + 1
      <4>1. i \in 1 .. n /\ i \in 1 .. n + 1 /\ i + 1 \in 1 .. n + 1
        BY <3>2
      <4> QED
        BY ONLY <1>5, <1>9, <1>10, <4>1
    <3> QED
      BY <3>1, <3>2
  <2> QED
    BY ONLY <1>5, <1>10, <2>1, <2>2 DEF OffsetsOf
<1>12. Len(octets) = off[n + 1] /\ Len(octets) = Len(u) /\ \A j \in 1 .. Len(u) : octets[j] = u[j]
  BY <1>3, <1>4, Undamaged DEF TextOf
<1>13. TextOf(written', off2, octets')
  <2>1. Len(octets') = off2[(n + 1) + 1]
    BY ONLY <1>7, <1>10, <1>12
  <2>2. ASSUME NEW i \in 1 .. n + 1, NEW j \in 1 .. Len(encode_utf8(written'[i]))
        PROVE  octets'[off2[i] + j] = encode_utf8(written'[i])[j]
    <3>1. CASE i = n + 1
      <4>1. j \in 1 .. Len(e) /\ off2[i] = off[n + 1] /\ written'[i] = c
        BY <1>1, <1>5, <1>10, <3>1
      <4>2. PICK p \in Nat : p = off[n + 1]
        BY <1>9
      <4>3. PICK x \in Nat : x = p + j /\ x \in 1 .. p + Len(e) /\ ~(x <= p) /\ x - p = j
        <5>1. (p + j) - p = j /\ p + j \in Nat /\ p + j \in 1 .. p + Len(e) /\ ~(p + j <= p)
          BY <1>2, <4>1
        <5> QED
          BY ONLY <5>1
      <4>4. Len(octets) = p
        BY <1>12, <4>2
      <4>5. octets'[x] = e[x - p]
        BY ONLY <1>7, <4>3, <4>4
      <4> QED
        BY ONLY <1>1, <4>1, <4>2, <4>3, <4>5
    <3>2. CASE i # n + 1
      <4>1. i \in 1 .. n /\ i \in 1 .. Len(written)
        BY <1>4, <3>2
      <4>2. j \in 1 .. Len(encode_utf8(written[i])) /\ off2[i] = off[i] /\ written'[i] = written[i]
        BY <1>5, <1>10, <4>1
      <4>3. u[off[i] + j] = encode_utf8(written[i])[j]
        BY <4>1, <4>2 DEF TextOf
      <4>4. off[i] \in Nat /\ off[i + 1] = off[i] + Len(encode_utf8(written[i])) /\ off[i + 1] <= Len(u) /\ Len(u) \in Nat
            /\ Len(encode_utf8(written[i])) \in Nat
        <5>1. written \in Seq(CodePoints)
          BY DEF Utf8TypeOK
        <5>2. off[i] \in Nat /\ off[i + 1] = off[i] + Len(encode_utf8(written[i])) /\ Len(encode_utf8(written[i])) \in 1 .. 4
          BY <4>1, <5>1, OffsetFacts
        <5>3. off[i + 1] <= Len(u) /\ Len(u) \in Nat
          BY <4>1, <5>1, CharacterEnds
        <5> QED
          BY <5>2, <5>3
      <4>5. off[i] + j \in 1 .. Len(u)
        BY ONLY <4>2, <4>4
      <4>6. octets'[off[i] + j] = octets[off[i] + j]
        <5>1. off[i] + j \in 1 .. Len(octets) + Len(e) /\ off[i] + j <= Len(octets)
          BY ONLY <1>2, <1>12, <4>4, <4>5
        <5> QED
          BY ONLY <1>7, <5>1
      <4> QED
        BY ONLY <1>12, <4>2, <4>3, <4>5, <4>6
    <3> QED
      BY <3>1, <3>2
  <2> QED
    BY ONLY <1>5, <1>7, <2>1, <2>2 DEF TextOf
<1>14. PICK t2, o2 : t2 = octets' /\ o2 = off2
  OBVIOUS
<1>15. Position(t2, o2)'
  <2>1. Len(decoded') = 0 /\ 0 + 1 = 1 /\ 0 <= n + 1 /\ Len(written') = n + 1 /\ hurt' = 0
    BY <1>3, <1>5
  <2>2. o2[1] = 0 /\ Len(t2) \in Nat
    BY <1>7, <1>9, <1>10, <1>14
  <2>3. Unread(octets', t2, 0)
    BY <1>7, <1>14, <2>2 DEF Unread
  <2>4. RightUpto(1)'
    BY <2>1 DEF RightUpto
  <2>5. RightUpto(Len(decoded) + 1)' /\ Unread(octets', t2, o2[Len(decoded') + 1])
    BY <2>1, <2>2, <2>3, <2>4
  <2> QED
    BY <2>1, <2>5 DEF Position
<1>16. OffsetsOf(written', o2) /\ TextOf(written', o2, t2)
  BY <1>11, <1>13, <1>14
<1> QED
  BY <1>8, <1>15, <1>16 DEF Utf8IInv

LEMMA LoseStep ==
  ASSUME Utf8TypeOK, NEW k \in DOMAIN octets, LoseByteOf(k), NEW u, NEW off,
         OffsetsOf(written, off), TextOf(written, off, u), Position(u, off)
  PROVE  Utf8IInv'
<1>1. /\ octets' = SubSeq(octets, 1, k - 1) \o SubSeq(octets, k + 1, Len(octets))
      /\ hurt = 0 /\ decoded = << >> /\ decoded' = decoded /\ written' = written /\ sizes' = sizes
      /\ hurt' = CharacterOf(k)
  BY DEF LoseByteOf
<1>2. octets \in Seq(Nat) /\ k \in 1 .. Len(octets) /\ Len(octets) \in Nat
  BY DEF Utf8TypeOK
<1>3. /\ octets' \in Seq(Nat) /\ Len(octets') = Len(octets) - 1
      /\ \A j \in 1 .. Len(octets) - 1 : octets'[j] = IF j < k THEN octets[j] ELSE octets[j + 1]
  BY ONLY <1>1, <1>2, ByteRemoved
<1>4. Len(decoded) = 0 /\ off[1] = 0 /\ Len(octets) = Len(u) /\ \A j \in 1 .. Len(u) : octets[j] = u[j]
  BY <1>1, Undamaged
<1>5. Utf8TypeOK'
  BY <1>1, <1>3 DEF Utf8TypeOK
<1>6. PICK h \in 1 .. Len(written) : h = hurt' /\ off[h] < k /\ k <= off[h + 1] /\ h > 0
  <2>1. k \in Nat /\ 0 < k /\ k <= off[Len(written) + 1]
    BY <1>2, <1>4 DEF TextOf
  <2>2. PICK g : g = CharacterOf(k)
    OBVIOUS
  <2>3. g \in 1 .. Len(written) /\ off[g] < k /\ k <= off[g + 1]
    BY <2>1, <2>2, CharacterIs
  <2>4. g > 0 /\ g = hurt'
    BY <1>1, <2>2, <2>3 DEF Utf8TypeOK
  <2> QED
    BY ONLY <2>3, <2>4
<1>7. ASSUME NEW j \in 1 .. Len(octets') PROVE octets'[j] = IF 0 + j < k THEN u[0 + j] ELSE u[0 + j + 1]
  <2>1. j \in 1 .. Len(octets) - 1 /\ j \in 1 .. Len(u) /\ j + 1 \in 1 .. Len(u) /\ 0 + j = j
    BY <1>2, <1>3, <1>4
  <2> QED
    BY ONLY <1>3, <1>4, <2>1
<1>8. Before(u, off)'
  <2>1. Len(decoded') = 0 /\ 0 < hurt' /\ off[0 + 1] = 0 /\ k \in Nat /\ off[hurt'] < k /\ k <= off[hurt' + 1]
    BY <1>1, <1>2, <1>4, <1>6
  <2>2. Len(octets') = Len(u) - 0 - 1
    BY <1>2, <1>3, <1>4
  <2> QED
    BY ONLY <1>7, <2>1, <2>2 DEF Before
<1>9. RightUpto(hurt)'
  BY <1>1, <1>4 DEF RightUpto
<1>10. Position(u, off)'
  BY <1>1, <1>6, <1>8, <1>9 DEF Position
<1> QED
  BY <1>1, <1>5, <1>10 DEF Utf8IInv

\* What the reader has and what is left of the text, in every state.
THEOREM Utf8Invariance == Utf8Spec => []Utf8IInv
<1>1. Utf8Init => Utf8IInv
  <2> SUFFICES ASSUME Utf8Init PROVE Utf8IInv
    OBVIOUS
  <2>1. written = << >> /\ sizes = << >> /\ octets = << >> /\ hurt = 0 /\ decoded = << >>
    BY DEF Utf8Init
  <2>2. Utf8TypeOK
    <3> HIDE DEF Read
    <3> QED
      BY <2>1 DEF Utf8TypeOK
  <2> DEFINE off == [i \in 1 .. 1 |-> 0]
  <2>3. Len(written) = 0 /\ off \in [1 .. 0 + 1 -> Nat] /\ off[1] = 0 /\ 0 + 1 = 1
    BY <2>1
  <2> HIDE DEF off
  <2>4. OffsetsOf(written, off)
    BY <2>3 DEF OffsetsOf
  <2>5. TextOf(written, off, << >>)
    BY <2>3 DEF TextOf
  <2>6. Unread(octets, << >>, 0) /\ Len(decoded) = 0
    BY <2>1 DEF Unread
  <2>7. RightUpto(1)
    BY <2>6 DEF RightUpto
  <2>8. Position(<< >>, off)
    BY <2>1, <2>3, <2>6, <2>7 DEF Position
  <2> QED
    BY <2>2, <2>4, <2>5, <2>8 DEF Utf8IInv
<1>2. Utf8IInv /\ [Utf8Next]_utf8Vars => Utf8IInv'
  <2> SUFFICES ASSUME Utf8IInv, [Utf8Next]_utf8Vars PROVE Utf8IInv'
    OBVIOUS
  <2>1. Utf8TypeOK
    BY DEF Utf8IInv
  <2>2. PICK u, off : OffsetsOf(written, off) /\ TextOf(written, off, u) /\ Position(u, off)
    BY DEF Utf8IInv
  <2>3. ASSUME NEW c \in CodePoints, Encode(c) PROVE Utf8IInv'
    BY <2>1, <2>2, <2>3, EncodeStep
  <2>4. ASSUME NEW k \in DOMAIN octets, LoseByteOf(k) PROVE Utf8IInv'
    BY <2>1, <2>2, <2>4, LoseStep
  <2>5. ASSUME Decode PROVE Utf8IInv'
    <3>1. Position(u, off)'
      <4>1. CASE /\ hurt = 0 /\ Len(decoded) <= Len(written)
                 /\ Unread(octets, u, off[Len(decoded) + 1]) /\ RightUpto(Len(decoded) + 1)
        BY ONLY <2>1, <2>2, <2>5, <4>1, CleanStep
      <4>2. ASSUME hurt \in 1 .. Len(written), RightUpto(hurt), Before(u, off) \/ After(u, off)
            PROVE  Position(u, off)'
        <5>1. (RightUpto(hurt) /\ (Before(u, off) \/ After(u, off)))'
          BY <2>1, <2>2, <2>5, <4>2, BeforeStep, AfterStep
        <5>2. (hurt \in 1 .. Len(written))'
          BY <2>5, <4>2 DEF Decode
        <5> QED
          BY <5>1, <5>2 DEF Position
      <4> QED
        BY <2>2, <4>1, <4>2 DEF Position
    <3>2. /\ octets' \in Seq(Nat) /\ decoded' \in Seq(Read)
          /\ written' = written /\ sizes' = sizes
      BY <2>1, <2>5, DecodeRead
    <3>3. Utf8TypeOK'
      BY <2>1, <3>2 DEF Utf8TypeOK
    <3> QED
      BY <2>2, <3>1, <3>2, <3>3 DEF Utf8IInv
  <2>6. ASSUME UNCHANGED utf8Vars PROVE Utf8IInv'
    <3>1. written' = written /\ sizes' = sizes /\ octets' = octets /\ hurt' = hurt /\ decoded' = decoded
      BY <2>6 DEF utf8Vars
    <3>2. Utf8TypeOK'
      BY <2>1, <3>1 DEF Utf8TypeOK
    <3>3. Position(u, off)'
      BY <2>2, <3>1 DEF Position, RightUpto, Before, After, AfterAt
    <3> QED
      BY <2>2, <3>1, <3>2, <3>3 DEF Utf8IInv
  <2> QED
    BY <2>3, <2>4, <2>5, <2>6 DEF Utf8Next
<1> QED
  BY <1>1, <1>2, PTL DEF Utf8Spec

\* A text of any length of any code points: undamaged it decodes to what was
\* written, and a lost byte spoils its character and at most the next
\* (encode_utf8 and decode_utf8, UTF8.hpp).
THEOREM TextAlwaysSurvives == Utf8Spec => []TextSurvives
<1>1. Utf8IInv => TextSurvives
  <2> SUFFICES ASSUME Utf8IInv PROVE TextSurvives
    OBVIOUS
  <2>1. PICK u, off : OffsetsOf(written, off) /\ TextOf(written, off, u) /\ Position(u, off)
    BY DEF Utf8IInv
  <2>2. PICK d \in Nat, n \in Nat : /\ d = Len(decoded) /\ n = Len(written)
                                    /\ DOMAIN decoded = 1 .. d /\ DOMAIN written = 1 .. n
    <3> HIDE DEF Read
    <3> QED
      BY DEF Utf8IInv, Utf8TypeOK
  <2>3. DecodesBack
    <3> SUFFICES ASSUME hurt = 0, NEW i \in DOMAIN decoded
                 PROVE  i \in DOMAIN written /\ decoded[i] = Carried(written[i])
      BY DEF DecodesBack
    <3>1. d <= n /\ RightUpto(d + 1)
      BY <2>1, <2>2 DEF Position
    <3>2. i \in 1 .. d /\ i < d + 1
      BY <2>2
    <3> QED
      BY <2>2, <3>1, <3>2 DEF RightUpto
  <2>4. DamageIsLocal
    <3> SUFFICES ASSUME hurt # 0 PROVE DamageIsLocal
      BY DEF DamageIsLocal
    <3>1. hurt \in 1 .. n /\ RightUpto(hurt) /\ (Before(u, off) \/ After(u, off))
      BY <2>1, <2>2 DEF Position
    <3>2. \A i \in DOMAIN decoded : i < hurt => decoded[i] = Carried(written[i])
      BY <2>2, <3>1 DEF RightUpto
    <3>3. ASSUME octets = << >>, NEW back \in 0 .. Len(written) - hurt - 2
          PROVE  back < Len(decoded) /\ decoded[Len(decoded) - back] = Carried(written[Len(written) - back])
      <4>0. PICK h \in 1 .. n : h = hurt
        BY <3>1
      <4>1. back \in Nat /\ back <= n - h - 2
        BY <2>2, <3>3, <4>0
      <4>2. written \in Seq(CodePoints) /\ Len(octets) = 0 /\ Len(u) \in Nat /\ Len(u) = off[n + 1]
        BY <2>1, <2>2, <3>3 DEF Utf8IInv, Utf8TypeOK, TextOf
      <4>3. ~Before(u, off)
        <5> SUFFICES ASSUME Before(u, off) PROVE FALSE
          OBVIOUS
        <5>1. d < h
          BY <2>2, <4>0 DEF Before
        <5>2. d + 1 \in 1 .. n /\ h + 1 \in 1 .. n
          BY <4>1, <5>1
        <5>3. off[d + 1] \in Nat /\ off[d + 1 + 1] \in Nat /\ off[d + 1] < off[d + 1 + 1] /\ off[d + 1 + 1] <= Len(u)
          BY <2>1, <2>2, <4>2, <5>2, CharacterEnds
        <5>4. off[h + 1] < Len(u) /\ off[h + 1] \in Nat
          <6>1. PICK g \in 1 .. n : g = h + 1
            BY <5>2
          <6>2. off[g] \in Nat /\ off[g + 1] \in Nat /\ off[g] < off[g + 1] /\ off[g + 1] <= Len(u)
            BY <2>1, <2>2, <4>2, CharacterEnds
          <6> QED
            BY ONLY <4>2, <6>1, <6>2
        <5>5. 0 = Len(u) - off[d + 1] - 1
          BY <2>2, <4>2 DEF Before
        <5>6. d + 1 + 1 \in 1 .. n + 1 /\ h + 1 \in 1 .. n + 1 /\ (d + 1 + 1 < h + 1 \/ d + 1 + 1 = h + 1)
          BY <5>1, <5>2
        <5>7. off[d + 1 + 1] <= off[h + 1]
          BY <2>1, <2>2, <4>2, <5>3, <5>4, <5>6, OffsetsRise
        <5> QED
          BY <4>2, <5>3, <5>4, <5>5, <5>7
      <4>4. PICK at \in Nat, m \in h + 1 .. n + 1 : AfterAt(u, off, at, m)
        BY <2>2, <3>1, <4>0, <4>3 DEF After
      <4>5. at = Len(u)
        BY <4>2, <4>4 DEF AfterAt, Unread
      <4>6. m = n + 1
        <5> SUFFICES ASSUME m # n + 1 PROVE FALSE
          OBVIOUS
        <5>1. m \in 1 .. n
          OBVIOUS
        <5>2. off[m] \in Nat /\ off[m + 1] \in Nat /\ off[m] < off[m + 1] /\ off[m + 1] <= Len(u)
          BY <2>1, <2>2, <4>2, <5>1, CharacterEnds
        <5>3. at = off[m] \/ at < off[m]
          BY <4>4 DEF AfterAt
        <5> QED
          BY <4>2, <4>5, <5>2, <5>3
      <4>7. n - back \in h + 2 .. m - 1 /\ m - 1 - (n - back) = back
        BY <4>1, <4>6
      <4>8. m - 1 - (n - back) < d /\ decoded[d - (m - 1 - (n - back))] = Carried(written[n - back])
        BY <2>2, <4>0, <4>4, <4>7 DEF AfterAt
      <4> QED
        BY <2>2, <4>7, <4>8
    <3> QED
      BY <3>2, <3>3 DEF DamageIsLocal
  <2> QED
    BY <2>3, <2>4 DEF TextSurvives
<1> QED
  BY <1>1, Utf8Invariance, PTL

-----------------------------------------------------------------------------
(***************************************************************************)
(* The number conversion                                                   *)
(***************************************************************************)
ConvTypeOK == text \in Seq(Characters) /\ type \in Types /\ base \in Bases

LEMMA TwoToSum ==
  ASSUME NEW a \in Nat, NEW b \in Nat
  PROVE  2 ^ (a + b) = 2 ^ a * 2 ^ b
<1> DEFINE T == {n \in Nat : 2 ^ (a + n) = 2 ^ a * 2 ^ n}
<1>1. 0 \in T
  <2>1. 2 ^ a \in Nat /\ a + 0 = a
    BY TwoToPositive
  <2> QED
    BY <2>1, TwoToZero
<1>2. ASSUME NEW n \in Nat, n \in T PROVE n + 1 \in T
  <2>1. 2 ^ (n + 1) = 2 * 2 ^ n
    BY TwoToNext
  <2>2. 2 ^ ((a + n) + 1) = 2 * 2 ^ (a + n)
    <3>1. a + n \in Nat
      OBVIOUS
    <3> QED
      BY ONLY <3>1, TwoToNext
  <2>3. PICK x \in Nat, y \in Nat : x = 2 ^ a /\ y = 2 ^ n
    BY TwoToPositive
  <2>4. 2 ^ (a + n) = x * y
    BY <1>2, <2>3
  <2>5. 2 * (x * y) = x * (2 * y)
    BY Z3
  <2>6. a + (n + 1) = (a + n) + 1
    OBVIOUS
  <2>7. 2 ^ (a + (n + 1)) = 2 ^ a * 2 ^ (n + 1)
    BY ONLY <2>1, <2>2, <2>3, <2>4, <2>5, <2>6
  <2> QED
    BY ONLY <2>7, n + 1 \in Nat
<1> HIDE DEF T
<1>3. \A n \in Nat : n \in T
  BY ONLY <1>1, <1>2, Induction
<1> QED
  BY <1>3 DEF T

LEMMA TwoToRises ==
  ASSUME NEW a \in Nat, NEW b \in Nat, a <= b
  PROVE  2 ^ a <= 2 ^ b
<1>1. PICK d \in Nat : b = a + d
  <2>1. b - a \in Nat /\ b = a + (b - a)
    OBVIOUS
  <2> QED
    BY <2>1
<1>2. PICK x \in Nat, y \in Nat \ {0} : x = 2 ^ a /\ y = 2 ^ d
  BY TwoToPositive
<1>3. 2 ^ b = x * y
  BY ONLY <1>1, <1>2, TwoToSum, a \in Nat
<1>4. x <= x * y
  BY ONLY x \in Nat, y \in Nat \ {0}, Z3
<1> QED
  BY ONLY <1>2, <1>3, <1>4

LEMMA Exceeded == \A n \in Nat : n < 2 ^ n
<1> DEFINE T == {n \in Nat : n < 2 ^ n}
<1>1. 0 \in T
  BY TwoToZero
<1>2. ASSUME NEW n \in Nat, n \in T PROVE n + 1 \in T
  <2>1. PICK x \in Nat : x = 2 ^ n /\ n < x
    BY <1>2, TwoToPositive
  <2>2. 2 ^ (n + 1) = 2 * x
    BY <2>1, TwoToNext
  <2>3. n + 1 < 2 * x
    BY ONLY <2>1, n \in Nat, x \in Nat
  <2> QED
    BY ONLY <2>2, <2>3, n + 1 \in Nat
<1> HIDE DEF T
<1>3. \A n \in Nat : n \in T
  BY ONLY <1>1, <1>2, Induction
<1> QED
  BY <1>3 DEF T

\* The bits counted for a digit have room for it.
LEMMA BitWidth ==
  ASSUME NEW n \in Nat
  PROVE  bit_width(n) \in Nat /\ 2 ^ bit_width(n) > n
<1> DEFINE Is(w) == 2 ^ w > n /\ \A x \in 0 .. w - 1 : 2 ^ x <= n
           T == {k \in Nat : \A w \in 0 .. k : w <= n => 2 ^ w <= n}
<1>1. \E w \in 0 .. n : Is(w)
  <2> SUFFICES ASSUME \A w \in 0 .. n : ~Is(w) PROVE FALSE
    OBVIOUS
  <2>0. \A w \in Nat : 2 ^ w \in Nat
    BY TwoToPositive
  <2>1. 0 \in T
    <3>1. 2 ^ 0 <= n
      <4>1. ~Is(0)
        <5>1. 0 \in 0 .. n
          OBVIOUS
        <5> HIDE DEF Is
        <5> QED
          BY <5>1
      <4>2. \A x \in 0 .. 0 - 1 : 2 ^ x <= n
        <5>1. \A x : x \notin 0 .. 0 - 1
          OBVIOUS
        <5> QED
          BY ONLY <5>1
      <4>3. 2 ^ 0 \in Nat
        BY <2>0
      <4> QED
        BY ONLY <4>1, <4>2, <4>3, n \in Nat
    <3>2. ASSUME NEW w \in 0 .. 0 PROVE 2 ^ w <= n
      <4>1. w = 0
        OBVIOUS
      <4> QED
        BY ONLY <3>1, <4>1
    <3> QED
      BY ONLY <3>2
  <2>2. ASSUME NEW k \in Nat, k \in T PROVE k + 1 \in T
    <3> SUFFICES ASSUME k + 1 <= n PROVE 2 ^ (k + 1) <= n
      <4>1. \A w \in 0 .. k : w <= n => 2 ^ w <= n
        BY <2>2
      <4>2. \A w \in 0 .. k + 1 : w \in 0 .. k \/ w = k + 1
        OBVIOUS
      <4>3. ASSUME k + 1 <= n => 2 ^ (k + 1) <= n PROVE k + 1 \in T
        BY <4>1, <4>2, <4>3
      <4> HIDE DEF T
      <4> QED
        BY <4>3
    <3>1. ~Is(k + 1)
      <4>1. k + 1 \in 0 .. n
        OBVIOUS
      <4> HIDE DEF Is
      <4> QED
        BY <4>1
    <3>2. \A x \in 0 .. (k + 1) - 1 : 2 ^ x <= n
      BY <2>2
    <3>3. 2 ^ (k + 1) \in Nat
      BY <2>0
    <3> QED
      BY ONLY <3>1, <3>2, <3>3, n \in Nat
  <2>3. n \in T
    <3> HIDE DEF T
    <3>1. \A k \in Nat : k \in T
      BY ONLY <2>1, <2>2, Induction
    <3> QED
      BY <3>1
  <2>4. 2 ^ n <= n
    BY <2>3
  <2>5. n < 2 ^ n /\ 2 ^ n \in Nat
    BY <2>0, Exceeded
  <2> QED
    BY ONLY <2>4, <2>5, n \in Nat
<1>2. bit_width(n) = CHOOSE w \in 0 .. n : Is(w)
  BY DEF bit_width
<1> HIDE DEF Is
<1>3. bit_width(n) \in 0 .. n /\ Is(bit_width(n))
  BY ONLY <1>1, <1>2
<1> QED
  BY ONLY <1>3, n \in Nat DEF Is

IntegralTypes == [digits : Nat \ {0}, signed : BOOLEAN]
Scans == [v : Int, remaining : Int, read : Int, stop : {"no", "digit", "overflow"}]

LEMMA DigitIs == \A c \in Nat : digit_from_char(c) \in Nat
BY DEF digit_from_char, Decimal, Upper

LEMMA StepIsScan ==
  ASSUME NEW s \in Scans, NEW c \in Nat, NEW T \in IntegralTypes, NEW b \in Nat
  PROVE  ScanStep(s, c, T, b) \in Scans
<1>1. PICK d \in Nat : d = digit_from_char(c)
  BY DigitIs
<1>2. PICK w \in Nat : w = bit_width(b)
  BY BitWidth
<1>3. /\ s.v * b + d \in Int /\ s.v * b + b \in Int /\ s.remaining - w \in Int /\ s.read + 1 \in Int
      /\ s.v \in Int /\ s.remaining \in Int /\ s.read \in Int
  <2>1. PICK v \in Int, r \in Int, k \in Int : v = s.v /\ r = s.remaining /\ k = s.read
    BY DEF Scans
  <2>2. v * b + d \in Int /\ v * b + b \in Int /\ r - w \in Int /\ k + 1 \in Int
    OBVIOUS
  <2> QED
    BY ONLY <2>1, <2>2
<1>4. ScanStep(s, c, T, b) \in {s, Scan(s.v, s.remaining, s.read, "digit"),
         Scan(s.v * b + d, s.remaining - w, s.read + 1, "no"), Scan(s.v, s.remaining, s.read, "overflow"),
         Scan(s.v * b + b, s.remaining - w, s.read + 1, "no")}
  <2>1. CASE s.stop # "no"
    BY ONLY <2>1 DEF ScanStep
  <2>2. CASE s.stop = "no" /\ d > b
    BY ONLY <1>1, <2>2, Zenon DEF ScanStep
  <2>3. CASE s.stop = "no" /\ ~(d > b) /\ s.remaining - w >= 0
    BY ONLY <1>1, <1>2, <2>3, Zenon DEF ScanStep
  <2>4. CASE s.stop = "no" /\ ~(d > b) /\ ~(s.remaining - w >= 0) /\ s.v * b + b > UMax(T)
    BY ONLY <1>1, <1>2, <2>4, Zenon DEF ScanStep
  <2>5. CASE s.stop = "no" /\ ~(d > b) /\ ~(s.remaining - w >= 0) /\ ~(s.v * b + b > UMax(T))
    BY ONLY <1>1, <1>2, <2>5, Zenon DEF ScanStep
  <2> QED
    BY ONLY <2>1, <2>2, <2>3, <2>4, <2>5, Zenon
<1>5. \A v, r, k \in Int, e \in {"no", "digit", "overflow"} : Scan(v, r, k, e) \in Scans
  BY DEF Scan, Scans
<1>6. /\ Scan(s.v, s.remaining, s.read, "digit") \in Scans
      /\ Scan(s.v * b + d, s.remaining - w, s.read + 1, "no") \in Scans
      /\ Scan(s.v, s.remaining, s.read, "overflow") \in Scans
      /\ Scan(s.v * b + b, s.remaining - w, s.read + 1, "no") \in Scans
  BY ONLY <1>3, <1>5
<1> QED
  BY ONLY <1>4, <1>6, s \in Scans

\* The loop of from_chars, turn by turn.
RunOf(s, t, T, b) ==
    /\ Scanned(t, T, b) = s[Len(t)] /\ s[0] = Scan(0, T.digits, 0, "no")
    /\ \A i \in 1 .. Len(t) : s[i] = ScanStep(s[i - 1], t[i], T, b)

LEMMA Turns ==
  ASSUME NEW t \in Seq(Nat), NEW T \in IntegralTypes, NEW b \in Nat
  PROVE  \E s : RunOf(s, t, T, b)
<1> DEFINE n == Len(t)
           S == Scans
           s0 == Scan(0, T.digits, 0, "no")
           F == [p \in (1 .. n) \X S |-> ScanStep(p[2], t[p[1]], T, b)]
           body(g) == [i \in 0 .. n |-> IF i = 0 THEN s0 ELSE ScanStep(g[i - 1], t[i], T, b)]
           s == CHOOSE g : g = body(g)
<1>1. Scanned(t, T, b) = s[n]
  BY Zenon DEF Scanned
<1>2. n \in Nat /\ \A i \in 1 .. n : t[i] \in Nat
  OBVIOUS
<1>3. s0 \in S
  BY DEF Scan, Scans, IntegralTypes
<1> HIDE DEF n, S, s0
<1>4. F \in [(1 .. n) \X S -> S]
  <2>1. ASSUME NEW i \in 1 .. n, NEW v \in S PROVE ScanStep(v, t[i], T, b) \in S
    BY <1>2, StepIsScan DEF S
  <2> QED
    BY ONLY <2>1
<1>5. PICK g \in [0 .. n -> S] : Recurs(g, n, s0, F)
  <2> HIDE DEF F
  <2> QED
    BY ONLY <1>2, <1>3, <1>4, Recursion
<1>6. g = body(g)
  <2> DEFINE term(i) == IF i = 0 THEN s0 ELSE ScanStep(g[i - 1], t[i], T, b)
  <2>1. g = [i \in 0 .. n |-> g[i]]
    BY <1>5
  <2>2. ASSUME NEW i \in 0 .. n PROVE g[i] = term(i)
    <3>1. CASE i = 0
      BY <1>5, <3>1 DEF Recurs
    <3>2. CASE i # 0
      <4>1. i \in 1 .. n /\ i - 1 \in 0 .. n
        BY <1>2, <3>2
      <4>2. g[i] = F[<<i, g[i - 1]>>] /\ <<i, g[i - 1]>> \in (1 .. n) \X S
        <5> HIDE DEF F
        <5> QED
          BY <1>5, <4>1 DEF Recurs
      <4>3. g[i] = ScanStep(g[i - 1], t[i], T, b)
        BY ONLY <4>2
      <4> QED
        BY <3>2, <4>3
    <3> QED
      BY <3>1, <3>2
  <2>3. body(g) = [i \in 0 .. n |-> term(i)]
    OBVIOUS
  <2> HIDE DEF term, body
  <2> QED
    BY <2>1, <2>2, <2>3
<1>7. s = body(s)
  <2> HIDE DEF body
  <2> QED
    BY <1>6
<1> HIDE DEF s, F
<1>8. s = [i \in 0 .. n |-> IF i = 0 THEN s0 ELSE ScanStep(s[i - 1], t[i], T, b)]
  BY ONLY <1>7
<1> HIDE DEF body
<1>9. s[0] = s0 /\ \A i \in 1 .. n : s[i] = ScanStep(s[i - 1], t[i], T, b)
  BY ONLY <1>2, <1>8
<1>10. RunOf(s, t, T, b)
  BY ONLY <1>1, <1>9 DEF n, s0, RunOf
<1> QED
  BY ONLY <1>10

\* The reference value, digit by digit.
SumOf(r, d, b, M) ==
    /\ Accumulated(d, b, M) = r[Len(d)] /\ r[0] = 0
    /\ \A i \in 1 .. Len(d) : r[i] = (r[i - 1] * b + d[i]) % M

LEMMA Summed ==
  ASSUME NEW d \in Seq(Int), NEW b \in Nat, NEW M \in Nat \ {0}
  PROVE  \E r : SumOf(r, d, b, M)
<1> DEFINE n == Len(d)
           S == Int
           F == [p \in (1 .. n) \X S |-> (p[2] * b + d[p[1]]) % M]
           body(g) == [i \in 0 .. n |-> IF i = 0 THEN 0 ELSE (g[i - 1] * b + d[i]) % M]
           r == CHOOSE g : g = body(g)
<1>1. Accumulated(d, b, M) = r[n]
  BY Zenon DEF Accumulated
<1>2. n \in Nat /\ \A i \in 1 .. n : d[i] \in Int
  OBVIOUS
<1> HIDE DEF n
<1>4. F \in [(1 .. n) \X S -> S]
  <2>1. ASSUME NEW i \in 1 .. n, NEW v \in Int PROVE (v * b + d[i]) % M \in Int
    <3>1. PICK x \in Int : x = v * b + d[i]
      BY <1>2
    <3>2. x % M \in Int
      BY DivisionProps
    <3> QED
      BY ONLY <3>1, <3>2
  <2> QED
    BY ONLY <2>1
<1>5. PICK g \in [0 .. n -> S] : Recurs(g, n, 0, F)
  <2> HIDE DEF F
  <2> QED
    BY ONLY <1>2, <1>4, 0 \in Int, Recursion
<1>6. g = body(g)
  <2> DEFINE term(i) == IF i = 0 THEN 0 ELSE (g[i - 1] * b + d[i]) % M
  <2>1. g = [i \in 0 .. n |-> g[i]]
    BY <1>5
  <2>2. ASSUME NEW i \in 0 .. n PROVE g[i] = term(i)
    <3>1. CASE i = 0
      BY <1>5, <3>1 DEF Recurs
    <3>2. CASE i # 0
      <4>1. i \in 1 .. n /\ i - 1 \in 0 .. n
        BY <1>2, <3>2
      <4>2. g[i] = F[<<i, g[i - 1]>>] /\ <<i, g[i - 1]>> \in (1 .. n) \X S
        <5> HIDE DEF F
        <5> QED
          BY <1>5, <4>1 DEF Recurs
      <4>3. g[i] = (g[i - 1] * b + d[i]) % M
        BY ONLY <4>2
      <4> QED
        BY <3>2, <4>3
    <3> QED
      BY <3>1, <3>2
  <2>3. body(g) = [i \in 0 .. n |-> term(i)]
    OBVIOUS
  <2> HIDE DEF term, body
  <2> QED
    BY <2>1, <2>2, <2>3
<1>7. r = body(r)
  <2> HIDE DEF body
  <2> QED
    BY <1>6
<1> HIDE DEF r, F
<1>8. r = [i \in 0 .. n |-> IF i = 0 THEN 0 ELSE (r[i - 1] * b + d[i]) % M]
  BY ONLY <1>7
<1> HIDE DEF body
<1>9. r[0] = 0 /\ \A i \in 1 .. n : r[i] = (r[i - 1] * b + d[i]) % M
  BY ONLY <1>2, <1>8
<1>10. SumOf(r, d, b, M)
  BY ONLY <1>1, <1>9 DEF n, SumOf
<1> QED
  BY ONLY <1>10

LEMMA Limits ==
  ASSUME NEW T \in IntegralTypes
  PROVE  \E x \in Nat \ {0} : /\ x = 2 ^ T.digits /\ TMax(T) = x - 1
                             /\ 2 * UMax(T) + 2 \in Nat \ {0} /\ x <= 2 * UMax(T) + 2
<1>1. PICK d \in Nat : T.digits = d + 1
  <2>1. T.digits \in Nat \ {0}
    BY DEF IntegralTypes
  <2>2. PICK k \in Nat \ {0} : k = T.digits
    BY ONLY <2>1
  <2>3. k - 1 \in Nat /\ k = (k - 1) + 1
    OBVIOUS
  <2> QED
    BY ONLY <2>2, <2>3
<1>2. PICK y \in Nat \ {0} : y = 2 ^ d
  BY TwoToPositive
<1>3. 2 ^ T.digits = 2 * y /\ T.digits - 1 = d
  BY ONLY <1>1, <1>2, TwoToNext
<1>4. TMax(T) = y - 1 + y
  BY ONLY <1>2, <1>3 DEF TMax
<1>5. PICK m \in Nat : m = TMax(T) /\ m = 2 * y - 1
  <2>1. y - 1 + y = 2 * y - 1 /\ 2 * y - 1 \in Nat
    OBVIOUS
  <2> QED
    BY ONLY <1>4, <2>1
<1>6. UMax(T) = 2 * m + 1 \/ UMax(T) = m
  BY ONLY <1>5 DEF UMax
<1>7. 2 * UMax(T) + 2 = 4 * m + 4 \/ 2 * UMax(T) + 2 = 2 * m + 2
  BY ONLY <1>6, m \in Nat
<1>8. PICK x \in Nat \ {0} : x = 2 * y
  OBVIOUS
<1> QED
  BY ONLY <1>3, <1>5, <1>7, <1>8

\* Digits that fit the counted bits are read to the end, and say the number.
LEMMA ReadsDigits ==
  ASSUME NEW t \in Seq(Nat), NEW T \in IntegralTypes, NEW b \in Nat,
         \A i \in 1 .. Len(t) : digit_from_char(t[i]) < b,
         Len(t) * bit_width(b) <= T.digits
  PROVE  \E v \in Nat :
           /\ v = Accumulated([i \in DOMAIN t |-> digit_from_char(t[i])], b, 2 * UMax(T) + 2)
           /\ Scanned(t, T, b) = Scan(v, T.digits - Len(t) * bit_width(b), Len(t), "no")
           /\ v <= TMax(T)
<1>1. PICK X \in Nat \ {0}, M \in Nat \ {0} :
         /\ X = 2 ^ T.digits /\ TMax(T) = X - 1 /\ M = 2 * UMax(T) + 2 /\ X <= M
  BY Limits
<1>2. PICK n \in Nat, w \in Nat, D \in Nat :
         n = Len(t) /\ w = bit_width(b) /\ 2 ^ w > b /\ D = T.digits /\ n * w <= D
  <2>1. T.digits \in Nat
    BY DEF IntegralTypes
  <2>2. Len(t) \in Nat
    OBVIOUS
  <2> QED
    BY <2>1, <2>2, BitWidth
<1> DEFINE ds == [i \in DOMAIN t |-> digit_from_char(t[i])]
<1>3. ds \in Seq(Int) /\ Len(ds) = n /\ \A i \in 1 .. n : ds[i] = digit_from_char(t[i]) /\ ds[i] \in 0 .. b - 1
  <2>1. DOMAIN t = 1 .. n /\ \A i \in 1 .. n : t[i] \in Nat
    BY <1>2
  <2>2. ASSUME NEW i \in 1 .. n PROVE digit_from_char(t[i]) \in 0 .. b - 1
    <3>1. PICK d \in Nat : d = digit_from_char(t[i])
      BY <2>1, DigitIs
    <3>2. d < b
      BY <1>2, <3>1
    <3> QED
      BY ONLY <3>1, <3>2, b \in Nat
  <2>3. ds \in [1 .. n -> Int]
    BY <2>1, <2>2
  <2>4. ds \in Seq(Int) /\ Len(ds) = n
    BY ONLY <2>3, ArrayIsSeq, n \in Nat
  <2> QED
    BY <2>1, <2>2, <2>4
<1> HIDE DEF ds
<1>4. PICK r : /\ Accumulated(ds, b, M) = r[n] /\ r[0] = 0
               /\ \A i \in 1 .. n : r[i] = (r[i - 1] * b + ds[i]) % M
  <2>1. PICK r : SumOf(r, ds, b, M)
    BY ONLY <1>3, Summed, b \in Nat, M \in Nat \ {0}, Zenon
  <2> QED
    BY ONLY <1>3, <2>1 DEF SumOf
<1>5. PICK s : /\ Scanned(t, T, b) = s[n] /\ s[0] = Scan(0, D, 0, "no")
               /\ \A i \in 1 .. n : s[i] = ScanStep(s[i - 1], t[i], T, b)
  <2>1. PICK s : RunOf(s, t, T, b)
    BY ONLY Turns, t \in Seq(Nat), T \in IntegralTypes, b \in Nat, Zenon
  <2> QED
    BY ONLY <1>2, <2>1 DEF RunOf
<1> DEFINE Good(i, v) == s[i] = Scan(v, D - i * w, i, "no") /\ r[i] = v /\ v < 2 ^ (i * w)
           G == {i \in Nat : i <= n => \E v \in Nat : Good(i, v)}
<1>6. 0 \in G
  <2>1. 0 * w = 0 /\ D - 0 = D /\ 0 < 2 ^ 0
    BY TwoToZero
  <2>2. Good(0, 0)
    BY ONLY <1>4, <1>5, <2>1
  <2> HIDE DEF Good
  <2> QED
    BY ONLY <2>2
<1>7. ASSUME NEW i \in Nat, i \in G PROVE i + 1 \in G
  <2> SUFFICES ASSUME i + 1 <= n PROVE \E v \in Nat : Good(i + 1, v)
    <3> HIDE DEF Good
    <3> QED
      OBVIOUS
  <2>1. PICK v \in Nat : Good(i, v)
    BY <1>7
  <2>2. PICK d \in Nat : d = digit_from_char(t[i + 1]) /\ d = ds[i + 1] /\ d < b
    <3>1. i + 1 \in 1 .. n
      OBVIOUS
    <3> QED
      BY ONLY <1>3, <3>1, b \in Nat
  <2>3. PICK y \in Nat, z \in Nat : y = i * w /\ z = y + w /\ z = (i + 1) * w /\ z <= D
    <3>1. i * w \in Nat /\ (i + 1) * w = i * w + w /\ (i + 1) * w <= n * w
      <4>1. PICK k \in Nat : n = i + 1 + k
        <5>1. n - (i + 1) \in Nat
          OBVIOUS
        <5> QED
          BY <5>1
      <4> QED
        BY ONLY <4>1, i \in Nat, w \in Nat, Z3
    <3>2. PICK y \in Nat : y = i * w
      BY ONLY <3>1
    <3>3. PICK m \in Nat : m = n * w
      BY Z3
    <3>4. PICK z \in Nat : z = y + w
      OBVIOUS
    <3>5. z = (i + 1) * w /\ (i + 1) * w <= m
      BY ONLY <3>1, <3>2, <3>3, <3>4
    <3>6. m <= D
      BY ONLY <1>2, <3>3
    <3>7. z <= D
      BY ONLY <3>5, <3>6, z \in Nat, m \in Nat, D \in Nat
    <3> QED
      BY ONLY <3>2, <3>4, <3>5, <3>7
  <2>4. PICK A \in Nat, W \in Nat : A = 2 ^ y /\ W = 2 ^ w
    BY TwoToPositive
  <2>5. 2 ^ z = A * W
    BY ONLY <2>3, <2>4, TwoToSum
  <2>6. v < A /\ b < W
    BY ONLY <1>2, <2>1, <2>3, <2>4
  <2>7. PICK u \in Nat : u = v * b + d /\ u < 2 ^ z
    <3>1. v * b + d \in Nat /\ v * b + d < A * W
      <4>1. v * b + d < (v + 1) * b
        BY ONLY <2>2, Z3, v \in Nat, d \in Nat, b \in Nat
      <4>2. (v + 1) * b <= A * b /\ A * b <= A * W
        BY ONLY <2>6, Z3, v \in Nat, A \in Nat, W \in Nat, b \in Nat
      <4>3. v * b + d \in Nat /\ (v + 1) * b \in Nat /\ A * b \in Nat /\ A * W \in Nat
        BY Z3
      <4> QED
        BY ONLY <4>1, <4>2, <4>3
    <3> QED
      BY ONLY <2>5, <3>1
  <2>8. u % M = u
    <3>1. 2 ^ z <= X /\ 2 ^ z \in Nat
      BY <1>1, <1>2, <2>3, TwoToRises, TwoToPositive
    <3>2. u < M
      BY ONLY <1>1, <2>7, <3>1
    <3> QED
      BY ONLY <3>2, u \in Nat, M \in Nat \ {0}
  <2>9. r[i + 1] = u
    <3>1. i + 1 \in 1 .. n /\ (i + 1) - 1 = i
      OBVIOUS
    <3>2. r[i + 1] = (r[(i + 1) - 1] * b + ds[i + 1]) % M
      BY ONLY <1>4, <3>1
    <3> QED
      BY ONLY <2>1, <2>2, <2>7, <2>8, <3>1, <3>2
  <2>10. s[i + 1] = Scan(u, D - (i + 1) * w, i + 1, "no")
    <3>1. i + 1 \in 1 .. n /\ (i + 1) - 1 = i
      OBVIOUS
    <3>2. s[i + 1] = ScanStep(Scan(v, D - y, i, "no"), t[i + 1], T, b)
      BY ONLY <1>5, <2>1, <2>3, <3>1
    <3>3. (D - y) - w >= 0 /\ ~(d > b) /\ (D - y) - w = D - z
      BY ONLY <2>2, <2>3, D \in Nat, w \in Nat, b \in Nat
    <3> DEFINE q == Scan(v, D - y, i, "no")
    <3>4. q.v = v /\ q.remaining = D - y /\ q.read = i /\ q.stop = "no"
      BY DEF Scan
    <3> HIDE DEF q
    <3>5. ScanStep(q, t[i + 1], T, b) = Scan(q.v * b + d, q.remaining - w, q.read + 1, "no")
      <4>1. ~(q.stop # "no") /\ ~(digit_from_char(t[i + 1]) > b) /\ q.remaining - bit_width(b) >= 0
        BY ONLY <1>2, <2>2, <3>3, <3>4
      <4> QED
        BY ONLY <1>2, <2>2, <4>1, Zenon DEF ScanStep
    <3> QED
      BY ONLY <2>3, <2>7, <3>2, <3>3, <3>4, <3>5 DEF q
  <2>11. Good(i + 1, u)
    BY ONLY <2>3, <2>7, <2>9, <2>10
  <2> HIDE DEF Good
  <2> QED
    BY ONLY <2>11, u \in Nat
<1> HIDE DEF G
<1>8. \A i \in Nat : i \in G
  BY ONLY <1>6, <1>7, Induction
<1>9. PICK v \in Nat : Good(n, v)
  <2> HIDE DEF Good
  <2> QED
    BY ONLY <1>8, n \in Nat DEF G
<1>10. v <= TMax(T)
  <2>1. PICK k \in Nat : k = n * w
    BY Z3
  <2>2. 2 ^ k <= X /\ 2 ^ k \in Nat
    BY ONLY <1>1, <1>2, <2>1, TwoToRises, TwoToPositive
  <2> QED
    BY ONLY <1>1, <1>9, <2>1, <2>2
<1> QED
  BY ONLY <1>1, <1>2, <1>4, <1>5, <1>9, <1>10 DEF ds

THEOREM ConvTypes == ConvSpec => []ConvTypeOK
<1>1. ConvInit => ConvTypeOK
  BY DEF ConvInit, ConvTypeOK
<1>2. ConvTypeOK /\ [ConvNext]_convVars => ConvTypeOK'
  BY DEF ConvTypeOK, ConvNext, Type, convVars
<1> QED
  BY <1>1, <1>2, PTL DEF ConvSpec

\* Numbers of any length, base and width that have room in the bits counted for
\* their digits are converted to what their digits say.
THEOREM ShortNumbersExact == ConvSpec => []ShortIsExact
<1>1. ConvTypeOK => ShortIsExact
  <2> SUFFICES ASSUME ConvTypeOK,
                      Digits # <<>>, \A i \in DOMAIN Digits : IsDigit(Digits[i]),
                      Len(Digits) * bit_width(base) <= type.digits
               PROVE  from_chars(text, type, base) = Converted(IF Sign THEN -Denoted ELSE Denoted)
    BY Zenon DEF ShortIsExact
  <2>1. text \in Seq(Nat) /\ type \in IntegralTypes /\ base \in Nat
    <3>1. Characters \subseteq Nat /\ text \in Seq(Characters)
      BY ConvAssumption DEF ConvTypeOK
    <3>2. text \in Seq(Nat)
      <4>1. ASSUME NEW i \in 1 .. Len(text) PROVE text[i] \in Nat
        <5>1. text[i] \in Characters
          BY ONLY <3>1, i \in 1 .. Len(text)
        <5> QED
          BY ONLY <3>1, <5>1
      <4> QED
        BY ONLY <3>1, <4>1, SeqOfFewer
    <3>3. type \in IntegralTypes
      BY ConvAssumption DEF ConvTypeOK, IntegralTypes
    <3>4. base \in Nat
      BY ConvAssumption DEF ConvTypeOK
    <3> QED
      BY ONLY <3>2, <3>3, <3>4
  <2>2. text # <<>>
    BY <2>1 DEF Digits, Sign
  <2>3. Digits \in Seq(Nat)
    BY <2>1, <2>2 DEF Digits
  <2>4. DOMAIN Digits = 1 .. Len(Digits) /\ Len(Digits) \in Nat /\ Len(Digits) # 0
    BY <2>3
  <2>5. PICK v \in Nat : /\ v = Denoted /\ v <= TMax(type)
                         /\ Scanned(Digits, type, base)
                              = Scan(v, type.digits - Len(Digits) * bit_width(base), Len(Digits), "no")
    BY ONLY <2>1, <2>3, <2>4, ReadsDigits, \A i \in DOMAIN Digits : IsDigit(Digits[i]),
            Len(Digits) * bit_width(base) <= type.digits DEF Denoted, IsDigit
  <2> DEFINE q == Scanned(Digits, type, base)
  <2>6. q.v = v /\ q.read = Len(Digits) /\ q.stop = "no"
    BY <2>5 DEF Scan
  <2> HIDE DEF q
  <2>7. TMax(type) \in Int /\ ~(v > TMax(type))
    <3>1. TMax(type) \in Int
      BY <2>1, Limits
    <3> QED
      BY ONLY <2>5, <3>1
  <2>8. CASE Sign
    <3>1. Digits = Tail(text) /\ type.signed /\ text[1] = 45
      BY ONLY <2>8 DEF Digits, Sign
    <3>2. from_chars(text, type, base) = Converted(-q.v)
      BY ONLY <2>2, <2>4, <2>6, <2>7, <3>1, Zenon DEF from_chars, q
    <3> QED
      BY ONLY <2>5, <2>6, <2>8, <3>2
  <2>9. CASE ~Sign
    <3>1. Digits = text /\ ~(type.signed /\ text # <<>> /\ text[1] = 45)
      BY ONLY <2>9 DEF Digits, Sign
    <3>2. from_chars(text, type, base) = Converted(AsT(q.v, type))
      BY ONLY <2>2, <2>4, <2>6, <2>7, <3>1, Zenon DEF from_chars, q
    <3>3. AsT(q.v, type) = v
      BY ONLY <2>6, <2>7 DEF AsT
    <3> QED
      BY ONLY <2>5, <2>9, <3>2, <3>3
  <2> QED
    BY ONLY <2>8, <2>9
<1> QED
  BY <1>1, ConvTypes, PTL
-----------------------------------------------------------------------------
(***************************************************************************)
(* The delimited readers                                                   *)
(***************************************************************************)
\* From i on, the bytes read are the first k of the delimiter.
Stands(read, i, k) ==
  i + k - 1 <= Len(read) /\ \A j \in 1 .. k : read[i + j - 1] = delimiter[j]

\* Wherever the bytes read hold the first k of the delimiter in a row, as many are
\* matched: a byte that does not continue the delimiter never undoes a match.
AsManyMatched ==
  \A k \in 1 .. Len(delimiter) : \A i \in 1 .. Len(reader.read) :
    Stands(reader.read, i, k) => reader.delim_match_size >= k

\* A delimiter of one byte that is matched was matched by the last byte.
OneByteLast ==
  Len(delimiter) = 1 /\ reader.delim_match_size >= 1 =>
    /\ reader.read # <<>>
    /\ reader.read[Len(reader.read)] = delimiter[1]
    /\ \A i \in 1 .. Len(reader.read) - 1 : reader.read[i] # delimiter[1]

ReaderTypeOK ==
  /\ delimiter \in Delimiters
  /\ reader \in [read : Seq(Bytes), delim_match_size : 0 .. Len(delimiter)]

ReaderIInv == ReaderTypeOK /\ AsManyMatched /\ OneByteLast

LEMMA DelimiterTyped ==
  ASSUME ReaderTypeOK
  PROVE  /\ delimiter \in Seq(Bytes)
         /\ Len(delimiter) \in Nat /\ Len(delimiter) >= 1
         /\ reader.read \in Seq(Bytes)
         /\ Len(reader.read) \in Nat
         /\ reader.delim_match_size \in 0 .. Len(delimiter)
BY ReaderAssumption DEF ReaderTypeOK

\* What update() makes of a reader that still accepts: Delim.hpp:181-194.
LEMMA UpdateKeeps ==
  ASSUME ReaderIInv, ~Reader!HaveMatch(reader), NEW b \in Bytes,
         reader' = Reader!Updated(reader, b), delimiter' = delimiter
  PROVE  ReaderIInv'
<1> DEFINE m == reader.delim_match_size
           read == reader.read
           hit == delimiter[m + 1] = b
<1>0. /\ delimiter \in Seq(Bytes) /\ Len(delimiter) \in Nat /\ Len(delimiter) >= 1
      /\ read \in Seq(Bytes) /\ Len(read) \in Nat
      /\ m \in Nat /\ m < Len(delimiter)
  BY DelimiterTyped DEF ReaderIInv, Reader!HaveMatch
<1>1. /\ reader' = [read |-> Append(read, b), delim_match_size |-> IF hit THEN m + 1 ELSE m]
  BY DEF Reader!Updated
<1>2. /\ reader'.read = Append(read, b)
      /\ reader'.delim_match_size = IF hit THEN m + 1 ELSE m
  BY <1>1
<1>3. /\ Append(read, b) \in Seq(Bytes)
      /\ Len(Append(read, b)) = Len(read) + 1
      /\ \A i \in 1 .. Len(read) : Append(read, b)[i] = read[i]
      /\ Append(read, b)[Len(read) + 1] = b
  BY <1>0, AppendProperties
<1>4. ReaderTypeOK'
  BY <1>0, <1>1, <1>3 DEF ReaderIInv, ReaderTypeOK
<1> HIDE DEF m, read, hit
<1>5. AsManyMatched'
  <2> SUFFICES ASSUME NEW k \in 1 .. Len(delimiter), NEW i \in 1 .. Len(read) + 1,
                      i + k - 1 <= Len(read) + 1,
                      \A j \in 1 .. k : Append(read, b)[i + j - 1] = delimiter[j]
               PROVE  (IF hit THEN m + 1 ELSE m) >= k
    <3>1. AsManyMatched' <=> \A k \in 1 .. Len(delimiter) : \A i \in 1 .. Len(Append(read, b)) :
             Stands(Append(read, b), i, k) => (IF hit THEN m + 1 ELSE m) >= k
      <4>1. AsManyMatched' <=> \A k \in 1 .. Len(delimiter) : \A i \in 1 .. Len(reader'.read) :
               Stands(reader'.read, i, k) => reader'.delim_match_size >= k
        BY Zenon DEF AsManyMatched, Stands
      <4> QED
        BY <1>2, <4>1
    <3> QED
      BY <1>3, <3>1 DEF Stands
  <2>1. CASE i + k - 1 <= Len(read)
    <3>1. ASSUME NEW j \in 1 .. k PROVE read[i + j - 1] = delimiter[j]
      <4>1. i + j - 1 \in 1 .. Len(read)
        BY <1>0, <2>1
      <4> QED
        BY <1>3, <4>1
    <3>2. m >= k
      <4>1. Stands(read, i, k) /\ i \in 1 .. Len(read)
        BY <1>0, <2>1, <3>1 DEF Stands
      <4> QED
        BY <4>1 DEF ReaderIInv, AsManyMatched, m, read
    <3> QED
      BY <1>0, <3>2
  <2>2. CASE i + k - 1 = Len(read) + 1
    <3>1. b = delimiter[k]
      <4>1. k \in 1 .. k
        BY <1>0
      <4>2. Append(read, b)[i + k - 1] = delimiter[k]
        BY <4>1
      <4> QED
        BY <1>3, <2>2, <4>2
    <3>2. m >= k - 1
      <4>1. CASE k = 1
        BY <1>0, <4>1
      <4>2. CASE k > 1
        <5>1. ASSUME NEW j \in 1 .. k - 1 PROVE read[i + j - 1] = delimiter[j]
          <6>1. i + j - 1 \in 1 .. Len(read) /\ j \in 1 .. k
            BY <1>0, <2>2, <4>2
          <6> QED
            BY <1>3, <6>1
        <5>2. Stands(read, i, k - 1) /\ k - 1 \in 1 .. Len(delimiter) /\ i \in 1 .. Len(read)
          BY <1>0, <2>2, <4>2, <5>1 DEF Stands
        <5> QED
          BY <5>2 DEF ReaderIInv, AsManyMatched, m, read
      <4> QED
        BY <1>0, <4>1, <4>2
    <3>3. m = k - 1 => hit
      BY <1>0, <3>1 DEF hit
    <3> QED
      BY <1>0, <3>2, <3>3
  <2> QED
    BY <1>0, <2>1, <2>2
<1>6. OneByteLast'
  <2> SUFFICES ASSUME Len(delimiter) = 1, (IF hit THEN m + 1 ELSE m) >= 1
               PROVE  b = delimiter[1] /\ \A i \in 1 .. Len(read) : read[i] # delimiter[1]
    BY <1>0, <1>2, <1>3 DEF OneByteLast
  <2>1. m = 0 /\ hit
    BY <1>0
  <2>2. ASSUME NEW i \in 1 .. Len(read), read[i] = delimiter[1] PROVE FALSE
    <3>1. Stands(read, i, 1)
      BY <1>0, <2>2 DEF Stands
    <3>2. m >= 1
      BY <1>0, <3>1 DEF ReaderIInv, AsManyMatched, m, read
    <3> QED
      BY <2>1, <3>2
  <2> QED
    BY <2>1, <2>2 DEF hit
<1> QED
  BY <1>4, <1>5, <1>6 DEF ReaderIInv

\* A reader that was reset takes its first byte.
LEMMA FirstByteKeeps ==
  ASSUME ReaderIInv, NEW b \in Bytes,
         reader' = Reader!Updated(Reader!Empty, b), delimiter' = delimiter
  PROVE  ReaderIInv'
<1>0. /\ delimiter \in Seq(Bytes) /\ Len(delimiter) \in Nat /\ Len(delimiter) >= 1
  BY DelimiterTyped DEF ReaderIInv
<1>1. Append(<<>>, b) = <<b>> /\ <<b>> \in Seq(Bytes) /\ Len(<<b>>) = 1 /\ <<b>>[1] = b
  OBVIOUS
<1>2. reader' = [read |-> <<b>>, delim_match_size |-> IF delimiter[1] = b THEN 1 ELSE 0]
  BY <1>1 DEF Reader!Updated, Reader!Empty
<1>3. ReaderTypeOK'
  BY <1>0, <1>1, <1>2 DEF ReaderIInv, ReaderTypeOK
<1>4. AsManyMatched'
  <2> SUFFICES ASSUME NEW k \in 1 .. Len(delimiter), NEW i \in 1 .. 1,
                      Stands(<<b>>, i, k)
               PROVE  (IF delimiter[1] = b THEN 1 ELSE 0) >= k
    BY <1>0, <1>1, <1>2 DEF AsManyMatched, Stands
  <2> QED
    BY <1>0, <1>1 DEF Stands
<1>5. OneByteLast'
  BY <1>0, <1>1, <1>2 DEF OneByteLast
<1> QED
  BY <1>3, <1>4, <1>5 DEF ReaderIInv

\* Delim.hpp:170-229: what is matched of the delimiter covers every place where a
\* part of it stands in the buffer.  That the delimiter is never missed needs this
\* of all its beginnings, for the last byte only extends one of them.
THEOREM ReaderInvariance == ReaderSpec => []ReaderIInv
<1>1. ReaderInit => ReaderIInv
  <2> SUFFICES ASSUME ReaderInit PROVE ReaderIInv
    OBVIOUS
  <2>1. reader = [read |-> <<>>, delim_match_size |-> 0] /\ <<>> \in Seq(Bytes) /\ Len(<<>>) = 0
    BY DEF ReaderInit, Reader!Empty
  <2>2. Len(delimiter) \in Nat
    BY ReaderAssumption DEF ReaderInit
  <2> QED
    BY <2>1, <2>2 DEF ReaderInit, ReaderIInv, ReaderTypeOK, AsManyMatched, OneByteLast
<1>2. ReaderIInv /\ [ReaderNext]_readerVars => ReaderIInv'
  <2> SUFFICES ASSUME ReaderIInv, [ReaderNext]_readerVars PROVE ReaderIInv'
    OBVIOUS
  <2>1. ASSUME NEW b \in Bytes, Update(b) PROVE ReaderIInv'
    BY <2>1, UpdateKeeps DEF Update, Reader!Accepts
  <2>2. ASSUME NEW b \in Bytes, UpdateRefused(b) PROVE ReaderIInv'
    BY <2>2, FirstByteKeeps DEF UpdateRefused
  <2>3. CASE ResetReader
    <3>1. reader' = [read |-> <<>>, delim_match_size |-> 0] /\ <<>> \in Seq(Bytes) /\ Len(<<>>) = 0
      BY <2>3 DEF ResetReader, Reader!Empty
    <3>2. delimiter' = delimiter /\ Len(delimiter) \in Nat
      BY <2>3, DelimiterTyped DEF ResetReader, ReaderIInv
    <3> QED
      BY <3>1, <3>2 DEF ReaderIInv, ReaderTypeOK, AsManyMatched, OneByteLast
  <2>4. CASE UNCHANGED readerVars
    BY <2>4 DEF readerVars, ReaderIInv, ReaderTypeOK, AsManyMatched, OneByteLast, Stands
  <2> QED
    BY <2>1, <2>2, <2>3, <2>4 DEF ReaderNext
<1> QED
  BY <1>1, <1>2, PTL DEF ReaderSpec

\* A delimiter that arrives whole is matched, whatever came before it
\* (Delim.hpp:190-191).
THEOREM DelimiterNeverMissed == ReaderSpec => []NeverMissed
<1>1. ReaderIInv => NeverMissed
  <2> SUFFICES ASSUME ReaderIInv, NEW i \in 1 .. Len(reader.read) - Len(delimiter) + 1,
                      SubSeq(reader.read, i, i + Len(delimiter) - 1) = delimiter
               PROVE  reader.delim_match_size >= Len(delimiter)
    BY DEF NeverMissed, Occurs, Reader!HaveMatch
  <2>0. /\ delimiter \in Seq(Bytes) /\ Len(delimiter) \in Nat /\ Len(delimiter) >= 1
        /\ reader.read \in Seq(Bytes) /\ Len(reader.read) \in Nat
    BY DelimiterTyped DEF ReaderIInv
  <2>1. \A j \in 1 .. Len(delimiter) : reader.read[i + j - 1] = delimiter[j]
    <3> DEFINE n == i + Len(delimiter) - 1
    <3>1. \A l \in i .. n : reader.read[l] \in Bytes
      BY <2>0
    <3>2. \A j \in 1 .. n - i + 1 : SubSeq(reader.read, i, n)[j] = reader.read[i + j - 1]
      BY <2>0, <3>1, SubSeqProperties
    <3>3. n - i + 1 = Len(delimiter)
      BY <2>0
    <3> QED
      BY <3>2, <3>3
  <2>2. Stands(reader.read, i, Len(delimiter))
    BY <2>0, <2>1 DEF Stands
  <2> QED
    BY <2>0, <2>2 DEF ReaderIInv, AsManyMatched
<1> QED
  BY <1>1, ReaderInvariance, PTL

\* A message that a delimiter of one byte ends is what came before its first
\* occurrence (get_without_delimiter, Delim.hpp:208-218).
THEOREM MessageCutAtFirst == ReaderSpec => []CutAtFirst
<1>1. ReaderIInv => CutAtFirst
  <2> SUFFICES ASSUME ReaderIInv, Len(delimiter) = 1, Reader!HaveMatch(reader) PROVE
                 reader.read = Message \o delimiter /\ ~Occurs(Message)
    BY DEF CutAtFirst
  <2> DEFINE read == reader.read
             n == Len(read) - 1
  <2>0. /\ delimiter \in Seq(Bytes) /\ read \in Seq(Bytes) /\ Len(read) \in Nat
        /\ reader.delim_match_size >= 1
    BY DelimiterTyped DEF ReaderIInv, Reader!HaveMatch
  <2>1. /\ Len(read) >= 1 /\ read[Len(read)] = delimiter[1]
        /\ \A i \in 1 .. n : read[i] # delimiter[1]
    BY <2>0 DEF ReaderIInv, OneByteLast
  <2>2. Message = SubSeq(read, 1, n)
    BY DEF Message, Reader!WithoutDelimiter
  <2>3. /\ Message \in Seq(Bytes) /\ Len(Message) = n
        /\ \A i \in 1 .. n : Message[i] = read[i]
    <3>1. \A i \in 1 .. n : read[i] \in Bytes
      BY <2>0
    <3> QED
      BY <2>0, <2>1, <2>2, <3>1, SubSeqProperties
  <2>4. read = Message \o delimiter
    <3>1. /\ Message \o delimiter \in Seq(Bytes) /\ Len(Message \o delimiter) = n + 1
          /\ \A i \in 1 .. n + 1 : (Message \o delimiter)[i] =
                IF i <= n THEN Message[i] ELSE delimiter[i - n]
      <4>1. /\ Message \o delimiter \in Seq(Bytes)
            /\ Len(Message \o delimiter) = Len(Message) + Len(delimiter)
            /\ \A i \in 1 .. Len(Message) + Len(delimiter) : (Message \o delimiter)[i] =
                  IF i <= Len(Message) THEN Message[i] ELSE delimiter[i - Len(Message)]
        BY <2>0, <2>3, ConcatProperties
      <4> QED
        BY <2>3, <4>1
    <3>2. ASSUME NEW i \in 1 .. Len(read) PROVE read[i] = (Message \o delimiter)[i]
      <4>1. i \in 1 .. n + 1 /\ (i \in 1 .. n \/ i = n + 1)
        BY <2>0, <2>1
      <4>2. CASE i \in 1 .. n
        BY <2>0, <2>3, <3>1, <4>1, <4>2
      <4>3. CASE i = n + 1
        <5>1. i \in 1 .. n + 1 /\ ~(i <= n) /\ i - n = 1
          BY <2>0, <2>1, <4>3
        <5>2. (Message \o delimiter)[i] = delimiter[1]
          BY <3>1, <5>1
        <5> QED
          BY <2>0, <2>1, <4>3, <5>2
      <4> QED
        BY <4>1, <4>2, <4>3
    <3>3. Len(read) = Len(Message \o delimiter)
      BY <2>0, <2>1, <3>1
    <3> QED
      BY <2>0, <3>1, <3>2, <3>3, SeqEqual
  <2>5. ASSUME NEW i \in 1 .. n - 1 + 1, SubSeq(Message, i, i + 1 - 1) = delimiter PROVE FALSE
    <3>1. SubSeq(Message, i, i) = delimiter /\ i \in 1 .. n /\ i \in Int
      BY <2>0, <2>5
    <3>2. \A l \in i .. i : Message[l] \in Bytes
      BY <2>3, <3>1
    <3>3. SubSeq(Message, i, i)[1] = Message[i]
      BY <3>1, <3>2, SubSeqProperties
    <3> QED
      BY <2>1, <2>3, <3>1, <3>3
  <2> QED
    BY <2>3, <2>4, <2>5 DEF Occurs
<1> QED
  BY <1>1, ReaderInvariance, PTL

-----------------------------------------------------------------------------
\* With a delimiter of one character a mismatch is not the delimiter.
OneNotMissed ==
  Len(Delimiter) = 1 /\ match_size = 0 /\ consumed # <<>> =>
    consumed[Len(consumed)] # Delimiter[1]

\* The first character of a delimiter of two came to nothing only behind another.
FirstAfterFirst ==
  LET n == Len(consumed)
  IN  Len(Delimiter) = 2 /\ match_size = 0 /\ n >= 1 /\ consumed[n] = Delimiter[1] =>
        n >= 2 /\ consumed[n - 1] = Delimiter[1]

\* So did both of them.
BothAfterFirst ==
  LET n == Len(consumed)
  IN  Len(Delimiter) = 2 /\ match_size < 2 /\ n >= 2
        /\ consumed[n] = Delimiter[2] /\ consumed[n - 1] = Delimiter[1] =>
        n >= 3 /\ consumed[n - 2] = Delimiter[1]

BufferedTypeOK ==
  /\ match_size \in 0 .. Len(Delimiter)
  /\ buffer \in Seq(Chars)
  /\ consumed \in Seq(Chars)

BufferedIInv ==
  /\ BufferedTypeOK
  /\ NothingLost
  /\ NeverReallocates
  /\ OneNotMissed
  /\ FirstAfterFirst
  /\ BothAfterFirst

\* What is matched of the delimiter is one character more.
LEMMA MatchedGrows ==
  ASSUME NEW m \in Nat, m < Len(Delimiter)
  PROVE  /\ SubSeq(Delimiter, 1, m) \in Seq(Chars)
         /\ Len(SubSeq(Delimiter, 1, m)) = m
         /\ SubSeq(Delimiter, 1, m + 1) = SubSeq(Delimiter, 1, m) \o <<Delimiter[m + 1]>>
         /\ m >= 1 => SubSeq(Delimiter, 1, m)[1] = Delimiter[1]
         /\ Delimiter[m + 1] \in Chars
<1>0. Delimiter \in Seq(Chars) /\ Len(Delimiter) \in Nat
  BY BufferedAssumption
<1>1. \A i \in 1 .. m : Delimiter[i] \in Chars
  BY <1>0
<1>2. /\ SubSeq(Delimiter, 1, m) \in Seq(Chars)
      /\ Len(SubSeq(Delimiter, 1, m)) = IF 1 <= m THEN m - 1 + 1 ELSE 0
      /\ \A i \in 1 .. m - 1 + 1 : SubSeq(Delimiter, 1, m)[i] = Delimiter[1 + i - 1]
  BY <1>1, SubSeqProperties
<1>3. SubSeq(Delimiter, 1, m + 1) = SubSeq(Delimiter, 1, m + 1 - 1) \o <<Delimiter[m + 1]>>
  <2>1. 1 \in 1 .. Len(Delimiter) /\ m + 1 \in 1 .. Len(Delimiter)
    BY <1>0
  <2> QED
    BY <1>0, <2>1, SubSeqRecursiveSecond
<1>4. m + 1 - 1 = m /\ Delimiter[m + 1] \in Chars
  BY <1>0
<1> QED
  BY <1>2, <1>3, <1>4

LEMMA OneMore ==
  ASSUME NEW s \in Seq(Chars), NEW t \in Seq(Chars), NEW c \in Chars
  PROVE  (s \o t) \o <<c>> = s \o (t \o <<c>>)
<1>1. <<c>> \in Seq(Chars)
  OBVIOUS
<1> DEFINE u == <<c>>
<1> HIDE DEF u
<1> QED
  BY <1>1, ConcatAssociative DEF u

\* Delim.hpp:14-66: a buffer and a match_size that together are the data taken.
\* That a missed delimiter has its own first character before it needs to know
\* where that character came to nothing, one step earlier.
THEOREM BufferedInvariance == BufferedSpec => []BufferedIInv
<1>0. Delimiter \in Seq(Chars) /\ Len(Delimiter) \in Nat /\ Len(Delimiter) >= 1 /\ Capacity \in Nat
  BY BufferedAssumption
<1>1. ASSUME match_size' = 0, buffer' = <<>>, consumed' = <<>> PROVE BufferedIInv'
  <2>1. <<>> \in Seq(Chars) /\ Len(<<>>) = 0 /\ SubSeq(Delimiter, 1, 0) = <<>>
    BY SubSeqEmpty
  <2>2. <<>> \o <<>> = <<>>
    OBVIOUS
  <2> QED
    BY <1>0, <1>1, <2>1, <2>2
       DEF BufferedIInv, BufferedTypeOK, NothingLost, NeverReallocates, OneNotMissed,
           FirstAfterFirst, BothAfterFirst, Matched
<1>2. BufferedInit => BufferedIInv
  <2> SUFFICES ASSUME BufferedInit PROVE BufferedIInv
    OBVIOUS
  <2>1. <<>> \in Seq(Chars) /\ Len(<<>>) = 0 /\ SubSeq(Delimiter, 1, 0) = <<>>
    BY SubSeqEmpty
  <2>2. <<>> \o <<>> = <<>>
    OBVIOUS
  <2> QED
    BY <1>0, <2>1, <2>2
       DEF BufferedInit, BufferedIInv, BufferedTypeOK, NothingLost, NeverReallocates,
           OneNotMissed, FirstAfterFirst, BothAfterFirst, Matched
<1>3. ASSUME BufferedIInv, NEW c \in Chars, FeedMatch(c) \/ FeedOther(c) PROVE BufferedIInv'
  <2> DEFINE m == match_size
             n == Len(consumed)
  <2>0. /\ m \in Nat /\ m < Len(Delimiter) /\ buffer \in Seq(Chars) /\ Len(buffer) \in Nat
        /\ consumed \in Seq(Chars) /\ n \in Nat /\ consumed' = Append(consumed, c)
    BY <1>0, <1>3 DEF BufferedIInv, BufferedTypeOK, HasMessageReady, FeedMatch, FeedOther
  <2>1. /\ consumed' \in Seq(Chars) /\ Len(consumed') = n + 1
        /\ consumed'[n + 1] = c /\ \A i \in 1 .. n : consumed'[i] = consumed[i]
        /\ consumed' = consumed \o <<c>>
    BY <2>0, AppendProperties, AppendIsConcat
  <2>2. /\ Matched \in Seq(Chars) /\ Len(Matched) = m
        /\ SubSeq(Delimiter, 1, m + 1) = Matched \o <<Delimiter[m + 1]>>
        /\ m >= 1 => Matched[1] = Delimiter[1]
    BY <2>0, MatchedGrows DEF Matched
  <2>3. m = 1 => n >= 1 /\ consumed[n] = Delimiter[1]
    <3>1. consumed = buffer \o Matched
      BY <1>3 DEF BufferedIInv, NothingLost
    <3>2. /\ Len(consumed) = Len(buffer) + Len(Matched)
          /\ \A i \in 1 .. Len(buffer) + Len(Matched) :
               consumed[i] = IF i <= Len(buffer) THEN buffer[i] ELSE Matched[i - Len(buffer)]
      BY <2>0, <2>2, <3>1, ConcatProperties
    <3>3. ASSUME m = 1 PROVE n >= 1 /\ consumed[n] = Matched[1]
      <4>1. n = Len(buffer) + 1 /\ n \in 1 .. Len(buffer) + Len(Matched) /\ n - Len(buffer) = 1
        BY <2>0, <2>2, <3>2, <3>3
      <4>2. consumed[n] = Matched[n - Len(buffer)]
        BY <2>0, <3>2, <4>1
      <4> QED
        BY <2>0, <4>1, <4>2
    <3> QED
      BY <2>2, <3>3
  <2>4. BufferedTypeOK' /\ NothingLost' /\ NeverReallocates'
    <3>1. CASE FeedMatch(c)
      <4>1. (buffer \o Matched) \o <<c>> = buffer \o (Matched \o <<c>>)
        BY <2>0, <2>2, OneMore
      <4>2. c = Delimiter[m + 1] /\ match_size' = m + 1 /\ buffer' = buffer
        BY <3>1 DEF FeedMatch
      <4>3. consumed = buffer \o Matched /\ Len(buffer) <= Capacity
        BY <1>3 DEF BufferedIInv, NothingLost, NeverReallocates
      <4>4. Matched' = Matched \o <<c>>
        BY <2>2, <4>2 DEF Matched
      <4>5. consumed' = buffer' \o Matched'
        BY <2>1, <4>1, <4>2, <4>3, <4>4
      <4>6. BufferedTypeOK'
        BY <1>0, <2>0, <2>1, <4>2 DEF BufferedTypeOK
      <4>7. NothingLost' /\ NeverReallocates'
        BY <4>2, <4>3, <4>5 DEF NothingLost, NeverReallocates
      <4> QED
        BY <4>6, <4>7
    <3>2. CASE FeedOther(c)
      <4>1. /\ match_size' = 0 /\ buffer' = consumed'
            /\ Len(Delimiter) + m + 1 <= Capacity - Len(buffer)
        BY <1>3, <2>0, <3>2 DEF FeedOther, BufferedIInv, NothingLost, NeededCapacity, Free
      <4>2. Matched' = <<>>
        BY <4>1, SubSeqEmpty DEF Matched
      <4>3. buffer' \o <<>> = buffer'
        BY <2>1, <4>1, ConcatEmptySeq
      <4>4. n = Len(buffer) + m
        BY <1>3, <2>0, <2>2, ConcatProperties DEF BufferedIInv, NothingLost
      <4>5. Len(consumed') <= Capacity
        BY <1>0, <2>0, <2>1, <4>1, <4>4
      <4>6. BufferedTypeOK'
        BY <1>0, <2>1, <4>1 DEF BufferedTypeOK
      <4>7. NothingLost' /\ NeverReallocates'
        BY <4>1, <4>2, <4>3, <4>5 DEF NothingLost, NeverReallocates
      <4> QED
        BY <4>6, <4>7
    <3> QED
      BY <1>3, <3>1, <3>2
  <2>5. (match_size' = 0 => c # Delimiter[m + 1]) /\ (c = Delimiter[m + 1] => match_size' = m + 1)
    BY <1>3, <2>0 DEF FeedMatch, FeedOther
  <2>6. OneNotMissed'
    BY <2>0, <2>1, <2>5 DEF OneNotMissed
  <2>7. FirstAfterFirst'
    <3> SUFFICES ASSUME Len(Delimiter) = 2, match_size' = 0, c = Delimiter[1]
                 PROVE  n >= 1 /\ consumed[n] = Delimiter[1]
      BY <2>0, <2>1 DEF FirstAfterFirst
    <3> QED
      BY <2>0, <2>3, <2>5
  <2>8. BothAfterFirst'
    <3> SUFFICES ASSUME Len(Delimiter) = 2, match_size' < 2, n >= 1,
                        c = Delimiter[2], consumed[n] = Delimiter[1]
                 PROVE  n >= 2 /\ consumed[n - 1] = Delimiter[1]
      BY <2>0, <2>1 DEF BothAfterFirst
    <3>1. m = 0
      BY <2>0, <2>5
    <3> QED
      BY <1>3, <3>1 DEF BufferedIInv, FirstAfterFirst
  <2> QED
    BY <2>4, <2>6, <2>7, <2>8 DEF BufferedIInv
<1>4. BufferedIInv /\ [BufferedNext]_bufferedVars => BufferedIInv'
  <2> SUFFICES ASSUME BufferedIInv, [BufferedNext]_bufferedVars PROVE BufferedIInv'
    OBVIOUS
  <2>1. CASE ResetBuffered
    BY <1>1, <2>1 DEF ResetBuffered
  <2>2. ASSUME NEW c \in Chars, FeedRefused(c) PROVE BufferedIInv'
    BY <2>2 DEF FeedRefused, BufferedIInv, BufferedTypeOK, NothingLost, NeverReallocates,
                OneNotMissed, FirstAfterFirst, BothAfterFirst, Matched
  <2>3. CASE UNCHANGED bufferedVars
    BY <2>3 DEF bufferedVars, BufferedIInv, BufferedTypeOK, NothingLost, NeverReallocates,
                OneNotMissed, FirstAfterFirst, BothAfterFirst, Matched
  <2> QED
    BY <1>3, <2>1, <2>2, <2>3 DEF BufferedNext
<1> QED
  BY <1>2, <1>4, PTL DEF BufferedSpec

\* Nothing that was fed is lost or moved, however often a delimiter began and came
\* to nothing (Delim.hpp:48-51).
THEOREM BufferedNothingLost == BufferedSpec => []NothingLost
<1>1. BufferedIInv => NothingLost
  BY DEF BufferedIInv
<1> QED
  BY <1>1, BufferedInvariance, PTL

\* push_back never has to reallocate (Delim.hpp:44-46).
THEOREM BufferedNeverReallocates == BufferedSpec => []NeverReallocates
<1>1. BufferedIInv => NeverReallocates
  BY DEF BufferedIInv
<1> QED
  BY <1>1, BufferedInvariance, PTL

\* The suffix s of t, character by character.
LEMMA SuffixElements ==
  ASSUME NEW S, NEW s \in Seq(S), NEW t \in Seq(S), IsSuffix(s, t)
  PROVE  /\ Len(s) <= Len(t)
         /\ \A j \in 0 .. Len(s) - 1 : t[Len(t) - j] = s[Len(s) - j]
<1> DEFINE rs == [i \in 1 .. Len(s) |-> s[(Len(s) - i) + 1]]
           rt == [i \in 1 .. Len(t) |-> t[(Len(t) - i) + 1]]
<1>0. Len(s) \in Nat /\ Len(t) \in Nat
  OBVIOUS
<1>1. rs \in Seq(S) /\ Len(rs) = Len(s) /\ rt \in Seq(S) /\ Len(rt) = Len(t)
  <2>1. rs \in [1 .. Len(s) -> S] /\ rt \in [1 .. Len(t) -> S]
    BY <1>0
  <2> QED
    BY <1>0, <2>1
<1>2. Len(rs) <= Len(rt) /\ SubSeq(rs, 1, Len(rs)) = SubSeq(rt, 1, Len(rs))
  BY DEF IsSuffix, IsPrefix, Reverse
<1>3. ASSUME NEW i \in 1 .. Len(s) PROVE rs[i] = rt[i]
  <2>1. \A l \in 1 .. Len(s) : rs[l] \in S /\ rt[l] \in S
    BY <1>0, <1>1, <1>2
  <2> HIDE DEF rs, rt
  <2>2. \A l \in 1 .. Len(s) - 1 + 1 : SubSeq(rs, 1, Len(s))[l] = rs[1 + l - 1]
    BY <1>0, <2>1, SubSeqProperties
  <2>3. \A l \in 1 .. Len(s) - 1 + 1 : SubSeq(rt, 1, Len(s))[l] = rt[1 + l - 1]
    BY <1>0, <2>1, SubSeqProperties
  <2> QED
    BY <1>0, <1>1, <1>2, <2>2, <2>3
<1>4. ASSUME NEW j \in 0 .. Len(s) - 1 PROVE t[Len(t) - j] = s[Len(s) - j]
  <2>1. /\ j + 1 \in 1 .. Len(s) /\ j + 1 \in 1 .. Len(t)
        /\ (Len(s) - (j + 1)) + 1 = Len(s) - j /\ (Len(t) - (j + 1)) + 1 = Len(t) - j
    BY <1>0, <1>1, <1>2
  <2>2. rs[j + 1] = s[Len(s) - j] /\ rt[j + 1] = t[Len(t) - j]
    BY <2>1
  <2> QED
    BY <1>3, <2>1, <2>2
<1> QED
  BY <1>0, <1>1, <1>2, <1>4

\* A delimiter of up to two characters is missed only behind its own first one
\* (Delim.hpp:49-51).
THEOREM MissedBehindFirst == BufferedSpec => []MissedOnlyAfterFalseStart
<1>0. Delimiter \in Seq(Chars) /\ Len(Delimiter) \in Nat /\ Len(Delimiter) >= 1
      /\ Head(Delimiter) = Delimiter[1]
  BY BufferedAssumption
<1>1. BufferedIInv => MissedOnlyAfterFalseStart
  <2> SUFFICES ASSUME BufferedIInv, Len(Delimiter) <= 2, IsSuffix(Delimiter, consumed),
                      ~HasMessageReady
               PROVE  /\ Len(consumed) - Len(Delimiter) > 0
                      /\ consumed[Len(consumed) - Len(Delimiter)] = Delimiter[1]
    BY <1>0 DEF MissedOnlyAfterFalseStart
  <2> DEFINE n == Len(consumed)
  <2>0. consumed \in Seq(Chars) /\ n \in Nat /\ match_size \in Nat /\ match_size < Len(Delimiter)
    BY <1>0 DEF BufferedIInv, BufferedTypeOK, HasMessageReady
  <2>1. /\ Len(Delimiter) <= n
        /\ \A j \in 0 .. Len(Delimiter) - 1 : consumed[n - j] = Delimiter[Len(Delimiter) - j]
    BY <1>0, <2>0, SuffixElements
  <2>2. consumed[n] = Delimiter[Len(Delimiter)]
    <3>1. 0 \in 0 .. Len(Delimiter) - 1 /\ n - 0 = n /\ Len(Delimiter) - 0 = Len(Delimiter)
      BY <1>0, <2>0
    <3>2. consumed[n - 0] = Delimiter[Len(Delimiter) - 0]
      BY <2>1, <3>1
    <3> QED
      BY <3>1, <3>2
  <2>3. CASE Len(Delimiter) = 1
    BY <2>0, <2>1, <2>2, <2>3 DEF BufferedIInv, OneNotMissed
  <2>4. CASE Len(Delimiter) = 2
    <3>1. 1 \in 0 .. Len(Delimiter) - 1 /\ Len(Delimiter) - 1 = 1
      BY <2>4
    <3>2. consumed[n - 1] = Delimiter[1]
      BY <2>1, <3>1
    <3> QED
      BY <2>0, <2>1, <2>2, <2>4, <3>2 DEF BufferedIInv, BothAfterFirst
  <2>5. Len(Delimiter) = 1 \/ Len(Delimiter) = 2
    <3>1. \A l \in Nat : l >= 1 /\ l <= 2 => l = 1 \/ l = 2
      OBVIOUS
    <3> QED
      BY <1>0, <3>1
  <2> QED
    BY <2>3, <2>4, <2>5
<1> QED
  BY <1>1, BufferedInvariance, PTL
=============================================================================
