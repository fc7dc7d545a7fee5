-------------------------------- MODULE CRC --------------------------------
(***************************************************************************)
(* Cyclic redundancy checks: Inc/Stuff/Maths/Check/CRC.hpp over the        *)
(* descriptions of CRCDescriptions.ipp.                                    *)
(*                                                                         *)
(* A word is the set of the numbers of its one bits, so that exclusive-or  *)
(* is the symmetric difference and a shift adds to every number.  Two      *)
(* CRCStates with one description read a message: one as it was sent, the  *)
(* other with "damage" done to it on the way, as PacketManager's receiver  *)
(* reads a damaged packet.                                                 *)
(***************************************************************************)
EXTENDS Integers, Sequences

CONSTANTS Descriptions, \* the kinds of check used
          Checked,      \* the bytes sent
          Damages       \* what the way does to them: sets of places of bits

VARIABLES description, damage,
          taken,        \* bytes both states have read
          sum, heard    \* CRCState::state of the one and of the other

crcVars == << description, damage, taken, sum, heard >>

\* Exclusive-or
Added(a, b) == (a \ b) \cup (b \ a)
ShiftUp(w, n) == { b + n : b \in w }
ShiftDown(w, n) == { b - n : b \in { c \in w : c >= n } }

\* The word with the value n < 2^32, from its high and its low half
H(hi, lo) == { b \in 0 .. 15 : (lo \div 2^b) % 2 = 1 } \cup { b + 16 : b \in { c \in 0 .. 15 : (hi \div 2^c) % 2 = 1 } }
L(n) == H(0, n)

mask(d) == 0 .. d.width - 1

-----------------------------------------------------------------------------
\* (slip) The polynomial is not reflected with the register
xor_value_forward(d) == d.poly

\* operator[] of the remainder generator, and the entry of its lookup table:
\* the index is divided by the polynomial in eight steps
xor_value(d) == IF d.reflect THEN { d.size - 1 - b : b \in d.poly } ELSE d.poly
check_bit(d) == IF d.reflect THEN 0 ELSE d.width - 1

DivideStep(d, ret) ==
  LET shifted == IF d.reflect THEN ShiftDown(ret, 1) ELSE ShiftUp(ret, 1) \cap (0 .. 31)
  IN  IF check_bit(d) \in ret THEN Added(shifted, xor_value(d)) ELSE shifted

remainder(d, index) ==
  LET ret[z \in 0 .. 8] ==
        IF z = 0 THEN (IF d.reflect THEN index ELSE ShiftUp(index, d.width - 8))
                 ELSE DivideStep(d, ret[z - 1])
  IN  ret[8] \cap mask(d)

\* (slip) The register is not shifted past the byte it took in
Updated_unshifted(d, s, byte) ==
  LET index == Added((IF d.reflect THEN s ELSE ShiftDown(s, d.width - 8)) \cap (0 .. 7), byte)
  IN  Added(remainder(d, index), s) \cap mask(d)

\* CRCState::update
Updated(d, s, byte) ==
  LET index == Added((IF d.reflect THEN s ELSE ShiftDown(s, d.width - 8)) \cap (0 .. 7), byte)
  IN  Added(remainder(d, index), IF d.reflect THEN ShiftDown(s, 8) ELSE ShiftUp(s, 8)) \cap mask(d)

finished_value(d, s) == Added(s, d.xor_out)

-----------------------------------------------------------------------------
\* A row of CRCDescriptions.ipp: the bits of sum_type, width, poly, init,
\* reflect, xor_out and check
D(size, width, poly, init, reflect, xor_out, check) ==
  [size |-> size, width |-> width, poly |-> poly, init |-> init,
   reflect |-> reflect, xor_out |-> xor_out, check |-> check]

\* The descriptions Tests/Maths/CRC.cpp tests (update takes none narrower
\* than a byte), from CRC32ISOHDLC to CRC15MPT1327
AllDescriptions == {
  D(32, 32, H(1217, 7607), H(65535, 65535), TRUE, H(65535, 65535), H(52212, 14630)),
  D(32, 32, H(1217, 7607), H(65535, 65535), FALSE, H(65535, 65535), H(64649, 6424)),
  D(16, 16, L(4129), L(0), TRUE, L(0), L(8585)),
  D(8, 8, L(47), L(255), FALSE, L(255), L(223)),
  D(8, 8, L(167), L(0), TRUE, L(0), L(38)),
  D(8, 8, L(155), L(255), FALSE, L(0), L(218)),
  D(8, 8, L(57), L(0), TRUE, L(0), L(21)),
  D(8, 8, L(213), L(0), FALSE, L(0), L(188)),
  D(8, 8, L(29), L(0), FALSE, L(0), L(55)),
  D(8, 8, L(73), L(0), FALSE, L(255), L(148)),
  D(8, 8, L(29), L(255), FALSE, L(0), L(180)),
  D(8, 8, L(7), L(0), FALSE, L(85), L(161)),
  D(8, 8, L(29), L(253), FALSE, L(0), L(126)),
  D(8, 8, L(155), L(0), FALSE, L(0), L(234)),
  D(8, 8, L(49), L(0), TRUE, L(0), L(161)),
  D(8, 8, L(29), L(199), FALSE, L(0), L(153)),
  D(8, 8, L(49), L(255), FALSE, L(0), L(247)),
  D(8, 8, L(47), L(0), FALSE, L(0), L(62)),
  D(8, 8, L(7), L(255), TRUE, L(0), L(208)),
  D(8, 8, L(29), L(255), FALSE, L(255), L(75)),
  D(8, 8, L(7), L(0), FALSE, L(0), L(244)),
  D(8, 8, L(29), L(255), TRUE, L(0), L(151)),
  D(8, 8, L(155), L(0), TRUE, L(0), L(37)),
  D(16, 10, L(563), L(0), FALSE, L(0), L(409)),
  D(16, 10, L(985), L(1023), FALSE, L(0), L(563)),
  D(16, 10, L(373), L(0), FALSE, L(1023), L(298)),
  D(16, 11, L(901), L(26), FALSE, L(0), L(1443)),
  D(16, 11, L(775), L(0), FALSE, L(0), L(97)),
  D(16, 12, L(3859), L(4095), FALSE, L(0), L(3405)),
  D(16, 12, L(2063), L(0), FALSE, L(0), L(3931)),
  D(16, 12, L(3377), L(0), FALSE, L(4095), L(2868)),
  D(16, 13, L(7413), L(0), FALSE, L(0), L(1274)),
  D(16, 14, L(8237), L(0), FALSE, L(16383), L(12462)),
  D(16, 15, L(17817), L(0), FALSE, L(0), L(1438)),
  D(16, 15, L(26645), L(0), FALSE, L(1), L(9574)) }

\* Every polynomial has the constant term, and a register that is reflected
\* fills its type.  Damage is done to what was sent.
ASSUME CrcAssumption ==
  /\ \A d \in Descriptions :
       /\ d.width \in 8 .. 32 /\ d.reflect \in BOOLEAN /\ (d.reflect => d.size = d.width)
       /\ d.poly \subseteq mask(d) /\ 0 \in d.poly /\ d.init \subseteq mask(d)
  /\ Checked \in Seq(0 .. 255)
  /\ \A s \in Damages : s \subseteq 0 .. 8 * Len(Checked) - 1

-----------------------------------------------------------------------------
\* The i-th byte of the message as a word
ByteAt(i) == L(Checked[i])

\* The bits of the i-th byte the damage turns over; places are counted in
\* the order the check divides the bits in
Turned(i) == { IF description.reflect THEN p % 8 ELSE 7 - (p % 8) :
                 p \in { q \in damage : (q \div 8) + 1 = i } }

CrcInit ==
  /\ description \in Descriptions
  /\ damage \in Damages
  /\ taken = 0
  /\ sum = description.init
  /\ heard = description.init

UpdateSum ==
  /\ taken < Len(Checked)
  /\ taken' = taken + 1
  /\ sum' = Updated(description, sum, ByteAt(taken'))
  /\ heard' = Updated(description, heard, Added(ByteAt(taken'), Turned(taken')))
  /\ UNCHANGED << description, damage >>

CrcNext == UpdateSum

CrcSpec == CrcInit /\ [][CrcNext]_crcVars

-----------------------------------------------------------------------------
(***************************************************************************)
(* Every kind of check has the value its description lists for the         *)
(* message "123456789" (Tests/Maths/CRC.cpp): a wrong polynomial, a wrong  *)
(* reflection or mask, or a register shifted the wrong way changes it.     *)
(***************************************************************************)
KnownChecks ==
  taken = Len(Checked) => finished_value(description, sum) = description.check

(***************************************************************************)
(* Damage within as many bits in a row as the check is wide is never       *)
(* missed: the two states still differ when the last byte is read.  This   *)
(* is what PacketManager relies on when it takes equal sums to mean an     *)
(* undamaged packet.                                                       *)
(***************************************************************************)
BurstsDetected ==
  /\ taken = Len(Checked)
  /\ damage # {}
  /\ \A p, q \in damage : p - q < description.width
  => finished_value(description, heard) # finished_value(description, sum)
=============================================================================
