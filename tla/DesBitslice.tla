--------------------------- MODULE DesBitslice ---------------------------
(***************************************************************************)
(* The bitsliced S-boxes of Stuff/Maths/Crypt/DES/SBox.hpp, as they are    *)
(* used: values are pushed into slices (bitslice_push of Maths/Bit.hpp),   *)
(* one call of helper runs the eight circuits on every lane at once, and   *)
(* the results are popped (bitslice_pop).                                  *)
(*                                                                         *)
(* A circuit is the sequence of its assignments: the k-th is x_k.  An      *)
(* operand k > 0 is x_k, an operand -k is the argument a_k; the operator   *)
(* is that of the C++ expression.                                          *)
(***************************************************************************)
EXTENDS DesCipher, SequencesExt

Gates1 == <<
    <<"~", -4>>, <<"~", -1>>, <<"^", -4, -3>>, <<"^", 3, 2>>, <<"|", -3, 2>>, <<"&", 5, 1>>, <<"|", -6, 6>>,
    <<"^", 4, 7>>, <<"|", 1, 2>>, <<"&", -6, 9>>, <<"^", 7, 10>>, <<"|", -2, 11>>, <<"^", 8, 12>>,
    <<"^", 9, 13>>, <<"|", -6, 14>>, <<"^", 1, 15>>, <<"~", 14>>, <<"&", 17, 3>>, <<"|", -2, 18>>,
    <<"^", 16, 19>>, <<"|", -5, 20>>, <<"^", 13, 21>>, <<"|", -3, 4>>, <<"~", 23>>, <<"|", -6, 24>>,
    <<"^", 6, 25>>, <<"&", 1, 8>>, <<"|", -2, 27>>, <<"^", 26, 28>>, <<"|", 1, 8>>, <<"^", 30, 6>>,
    <<"&", 5, 14>>, <<"^", 32, 8>>, <<"&", -2, 33>>, <<"^", 31, 34>>, <<"|", -5, 35>>, <<"^", 29, 36>>,
    <<"&", -3, 10>>, <<"|", 38, 4>>, <<"&", -3, 33>>, <<"^", 40, 25>>, <<"|", -2, 41>>, <<"^", 39, 42>>,
    <<"|", -3, 26>>, <<"^", 44, 14>>, <<"|", -1, 8>>, <<"^", 46, 20>>, <<"|", -2, 47>>, <<"^", 45, 48>>,
    <<"&", -5, 49>>, <<"^", 43, 50>>, <<"^", 8, 40>>, <<"^", -3, 11>>, <<"&", 53, 5>>, <<"|", -2, 54>>,
    <<"^", 52, 55>>, <<"|", -6, 4>>, <<"^", 57, 38>>, <<"&", 13, 56>>, <<"&", -2, 59>>, <<"^", 58, 60>>,
    <<"&", -5, 61>>, <<"^", 56, 62>> >>
Gates2 == <<
    <<"~", -5>>, <<"~", -1>>, <<"^", -5, -6>>, <<"^", 3, 2>>, <<"^", 4, -2>>, <<"|", -6, 1>>, <<"|", 6, 2>>,
    <<"&", -2, 7>>, <<"^", -6, 8>>, <<"&", -3, 9>>, <<"^", 5, 10>>, <<"&", -2, 9>>, <<"^", -5, 6>>,
    <<"|", -3, 13>>, <<"^", 12, 14>>, <<"&", -4, 15>>, <<"^", 11, 16>>, <<"|", -5, -1>>, <<"|", -6, 18>>,
    <<"^", 13, 19>>, <<"^", 20, -2>>, <<"|", -6, 4>>, <<"&", 22, 17>>, <<"|", -3, 23>>, <<"^", 21, 24>>,
    <<"|", -6, 2>>, <<"&", -5, 2>>, <<"|", -2, 27>>, <<"^", 26, 28>>, <<"^", 3, 27>>, <<"^", 2, 19>>,
    <<"&", -2, 31>>, <<"^", 30, 32>>, <<"&", -3, 33>>, <<"^", 29, 34>>, <<"|", -4, 35>>, <<"^", 25, 36>>,
    <<"&", 21, 32>>, <<"^", 38, 5>>, <<"|", -1, 15>>, <<"^", 40, 13>>, <<"|", -3, 41>>, <<"^", 39, 42>>,
    <<"|", 28, 41>>, <<"&", -4, 44>>, <<"^", 43, 45>>, <<"&", 19, 21>>, <<"^", 47, 26>>, <<"&", -2, 33>>,
    <<"^", 49, 21>>, <<"&", -3, 50>>, <<"^", 48, 51>>, <<"&", 18, 28>>, <<"&", 53, 50>>, <<"|", -4, 54>>,
    <<"^", 52, 55>> >>
Gates3 == <<
    <<"~", -5>>, <<"~", -6>>, <<"&", -5, -3>>, <<"^", 3, -6>>, <<"&", -4, 1>>, <<"^", 4, 5>>, <<"^", 6, -2>>,
    <<"&", -3, 1>>, <<"^", -5, 2>>, <<"|", -4, 9>>, <<"^", 8, 10>>, <<"&", 7, 11>>, <<"^", -5, 11>>,
    <<"|", 13, 7>>, <<"&", -4, 14>>, <<"^", 12, 15>>, <<"&", -2, 16>>, <<"^", 11, 17>>, <<"&", -1, 18>>,
    <<"^", 7, 19>>, <<"^", -3, -4>>, <<"^", 21, 9>>, <<"|", 2, 4>>, <<"^", 23, 8>>, <<"|", -2, 24>>,
    <<"^", 22, 25>>, <<"^", -6, 23>>, <<"|", 27, -4>>, <<"^", -3, 15>>, <<"|", 29, 5>>, <<"|", -2, 30>>,
    <<"^", 28, 31>>, <<"|", -1, 32>>, <<"^", 26, 33>>, <<"^", -3, 9>>, <<"|", 35, 5>>, <<"|", 4, 29>>,
    <<"^", 37, -4>>, <<"|", -2, 38>>, <<"^", 36, 39>>, <<"&", -6, 11>>, <<"|", 41, 6>>, <<"^", 34, 38>>,
    <<"^", 43, 41>>, <<"&", -2, 44>>, <<"^", 42, 45>>, <<"|", -1, 46>>, <<"^", 40, 47>>, <<"|", 2, 38>>,
    <<"^", 49, 13>>, <<"^", 27, 28>>, <<"|", -2, 51>>, <<"^", 50, 52>>, <<"&", 12, 23>>, <<"&", 54, 52>>,
    <<"|", -1, 55>>, <<"^", 53, 56>> >>
Gates4 == <<
    <<"~", -1>>, <<"~", -3>>, <<"|", -1, -3>>, <<"&", -5, 3>>, <<"^", 1, 4>>, <<"|", -2, -3>>, <<"^", 5, 6>>,
    <<"&", -1, -5>>, <<"^", 8, 3>>, <<"&", -2, 9>>, <<"^", -5, 10>>, <<"&", -4, 11>>, <<"^", 7, 12>>,
    <<"^", 2, 4>>, <<"&", -2, 14>>, <<"^", 9, 15>>, <<"&", 5, 14>>, <<"^", -5, 2>>, <<"|", -2, 18>>,
    <<"^", 17, 19>>, <<"|", -4, 20>>, <<"^", 16, 21>>, <<"&", -6, 22>>, <<"^", 13, 23>>, <<"~", 13>>,
    <<"|", -6, 22>>, <<"^", 25, 26>>, <<"&", -2, 11>>, <<"^", 28, 17>>, <<"^", -3, 10>>, <<"^", 30, 19>>,
    <<"&", -4, 31>>, <<"^", 29, 32>>, <<"^", 25, 33>>, <<"&", -2, 34>>, <<"^", 24, 35>>, <<"|", -4, 34>>,
    <<"^", 36, 37>>, <<"&", -6, 38>>, <<"^", 33, 39>>, <<"^", 26, 38>>, <<"^", 41, 40>> >>
Gates5 == <<
    <<"~", -6>>, <<"~", -3>>, <<"|", 1, 2>>, <<"^", 3, -4>>, <<"&", -1, 3>>, <<"^", 4, 5>>, <<"|", -6, -4>>,
    <<"^", 7, -3>>, <<"|", -3, 7>>, <<"|", -1, 9>>, <<"^", 8, 10>>, <<"&", -5, 11>>, <<"^", 6, 12>>, <<"~", 4>>,
    <<"&", 14, -6>>, <<"|", -1, 15>>, <<"^", 8, 16>>, <<"|", -5, 17>>, <<"^", 10, 18>>, <<"|", -2, 19>>,
    <<"^", 13, 20>>, <<"|", 2, 15>>, <<"^", 22, -6>>, <<"^", -4, 22>>, <<"&", -1, 24>>, <<"^", 23, 25>>,
    <<"^", -1, 11>>, <<"&", 27, 22>>, <<"|", -5, 28>>, <<"^", 26, 29>>, <<"|", -4, 27>>, <<"~", 31>>,
    <<"|", -2, 32>>, <<"^", 30, 33>>, <<"^", 2, 15>>, <<"&", -1, 35>>, <<"^", 14, 36>>, <<"^", 5, 7>>,
    <<"&", 38, 34>>, <<"|", -5, 39>>, <<"^", 37, 40>>, <<"^", 2, 5>>, <<"&", 42, 16>>, <<"&", 4, 27>>,
    <<"&", -5, 44>>, <<"^", 43, 45>>, <<"|", -2, 46>>, <<"^", 41, 47>>, <<"&", 24, 48>>, <<"^", 49, 5>>,
    <<"^", 11, 30>>, <<"|", 51, 50>>, <<"&", -5, 52>>, <<"^", 50, 53>>, <<"^", 14, 19>>, <<"^", 55, 34>>,
    <<"^", 4, 16>>, <<"&", 57, 30>>, <<"&", -5, 58>>, <<"^", 56, 59>>, <<"|", -2, 60>>, <<"^", 54, 61>> >>
Gates6 == <<
    <<"~", -2>>, <<"~", -5>>, <<"^", -2, -6>>, <<"^", 3, 2>>, <<"^", 4, -1>>, <<"&", -5, -6>>, <<"|", 6, 1>>,
    <<"&", -5, 5>>, <<"&", -1, 8>>, <<"^", 7, 9>>, <<"&", -4, 10>>, <<"^", 5, 11>>, <<"^", -6, 10>>,
    <<"&", 13, -1>>, <<"&", -2, -6>>, <<"^", 15, -5>>, <<"&", -1, 16>>, <<"^", 2, 17>>, <<"|", -4, 18>>,
    <<"^", 14, 19>>, <<"&", -3, 20>>, <<"^", 12, 21>>, <<"^", -6, 18>>, <<"&", -1, 23>>, <<"^", -5, 24>>,
    <<"^", -2, 17>>, <<"|", 26, 6>>, <<"&", -4, 27>>, <<"^", 25, 28>>, <<"~", 26>>, <<"|", -6, 29>>,
    <<"~", 31>>, <<"&", -4, 32>>, <<"^", 30, 33>>, <<"&", -3, 34>>, <<"^", 29, 35>>, <<"^", 6, 34>>,
    <<"&", -5, 23>>, <<"^", 38, 5>>, <<"|", -4, 39>>, <<"^", 37, 40>>, <<"|", 16, 24>>, <<"^", 42, 1>>,
    <<"^", 15, 24>>, <<"^", 44, 31>>, <<"|", -4, 45>>, <<"^", 43, 46>>, <<"|", -3, 47>>, <<"^", 41, 48>>,
    <<"|", 5, 38>>, <<"^", 50, 6>>, <<"&", 8, 31>>, <<"|", -4, 52>>, <<"^", 51, 53>>, <<"&", 30, 43>>,
    <<"|", -3, 55>>, <<"^", 54, 56>> >>
Gates7 == <<
    <<"~", -2>>, <<"~", -5>>, <<"&", -2, -4>>, <<"^", 3, -5>>, <<"^", 4, -3>>, <<"&", -4, 4>>, <<"^", 6, -2>>,
    <<"&", -3, 7>>, <<"^", -1, 8>>, <<"|", -6, 9>>, <<"^", 5, 10>>, <<"&", -4, 2>>, <<"|", 12, -2>>,
    <<"|", -2, 2>>, <<"&", -3, 14>>, <<"^", 13, 15>>, <<"^", 6, 11>>, <<"|", -6, 17>>, <<"^", 16, 18>>,
    <<"&", -1, 19>>, <<"^", 11, 20>>, <<"|", -2, 21>>, <<"^", 22, 6>>, <<"^", 23, 15>>, <<"^", 5, 6>>,
    <<"|", 25, 12>>, <<"|", -6, 26>>, <<"^", 24, 27>>, <<"&", 1, 19>>, <<"&", 23, 26>>, <<"&", -6, 30>>,
    <<"^", 29, 31>>, <<"|", -1, 32>>, <<"^", 28, 33>>, <<"&", -4, 16>>, <<"|", 35, 1>>, <<"&", -6, 36>>,
    <<"^", 11, 37>>, <<"&", -4, 13>>, <<"|", -3, 7>>, <<"^", 39, 40>>, <<"|", 1, 24>>, <<"|", -6, 42>>,
    <<"^", 41, 43>>, <<"|", -1, 44>>, <<"^", 38, 45>>, <<"^", 8, 44>>, <<"^", 6, 15>>, <<"|", -6, 48>>,
    <<"^", 47, 49>>, <<"^", 19, 44>>, <<"^", -4, 25>>, <<"&", 52, 46>>, <<"&", -6, 53>>, <<"^", 51, 54>>,
    <<"|", -1, 55>>, <<"^", 50, 56>> >>
Gates8 == <<
    <<"~", -1>>, <<"~", -4>>, <<"^", -3, 1>>, <<"|", -3, 1>>, <<"^", 4, 2>>, <<"|", -5, 5>>, <<"^", 3, 6>>,
    <<"|", 1, 5>>, <<"^", 2, 8>>, <<"&", -5, 9>>, <<"^", 8, 10>>, <<"&", -2, 11>>, <<"^", 7, 12>>,
    <<"^", 6, 9>>, <<"&", 3, 9>>, <<"&", -5, 8>>, <<"^", 15, 16>>, <<"|", -2, 17>>, <<"^", 14, 18>>,
    <<"|", -6, 19>>, <<"^", 13, 20>>, <<"|", -5, 3>>, <<"&", 22, 2>>, <<"~", -3>>, <<"&", 24, 8>>,
    <<"&", -5, 4>>, <<"^", 25, 26>>, <<"|", -2, 27>>, <<"^", 23, 28>>, <<"&", -6, 29>>, <<"^", 13, 30>>,
    <<"^", 5, 6>>, <<"^", 32, 22>>, <<"|", -4, 13>>, <<"&", -2, 34>>, <<"^", 33, 35>>, <<"&", -1, 33>>,
    <<"^", 37, 8>>, <<"^", -1, 23>>, <<"&", 39, 7>>, <<"&", -2, 40>>, <<"^", 38, 41>>, <<"|", -6, 42>>,
    <<"^", 36, 43>>, <<"^", -1, 10>>, <<"^", 45, 22>>, <<"~", 7>>, <<"&", 47, 8>>, <<"|", -2, 48>>,
    <<"^", 46, 49>>, <<"^", 19, 29>>, <<"|", 51, 38>>, <<"&", -6, 52>>, <<"^", 50, 53>> >>

Circuits == <<
  [gates |-> Gates1, outs |-> << 37, 51, 63, 22 >>],
  [gates |-> Gates2, outs |-> << 46, 17, 37, 56 >>],
  [gates |-> Gates3, outs |-> << 34, 57, 48, 20 >>],
  [gates |-> Gates4, outs |-> << 27, 24, 42, 40 >>],
  [gates |-> Gates5, outs |-> << 48, 34, 21, 62 >>],
  [gates |-> Gates6, outs |-> << 49, 22, 57, 36 >>],
  [gates |-> Gates7, outs |-> << 21, 46, 57, 34 >>],
  [gates |-> Gates8, outs |-> << 21, 54, 44, 31 >>] >>

(***************************************************************************)
(* One lane of a circuit: a is its six arguments, the wires are computed   *)
(* in order.  mk_sbox exclusive-ors the four outs into its arguments, the  *)
(* first being the most significant of the entry.                          *)
(***************************************************************************)
Gate(g, a, x) ==
  LET In(k) == IF k > 0 THEN x[k] ELSE a[-k]
  IN  CASE g[1] = "~" -> 1 - In(g[2])
        [] g[1] = "^" -> (In(g[2]) + In(g[3])) % 2
        [] g[1] = "&" -> In(g[2]) * In(g[3])
        [] g[1] = "|" -> In(g[2]) + In(g[3]) - (In(g[2]) * In(g[3]))

mk_sbox(n, a) ==
  LET x == FoldLeft(LAMBDA wires, g : Append(wires, Gate(g, a, wires)), << >>, Circuits[n].gates)
  IN  [k \in 1 .. 4 |-> x[Circuits[n].outs[k]]]

CONSTANTS
  Lanes,      \* bits of a slice (64 in the code)
  Values,     \* the 48-bit values pushed first
  Later       \* and those pushed on top of one

ASSUME LanesAssumption == Lanes \in Nat \ {0}

VARIABLES
  toMSB,      \* the end the client pushes to, and pops from
  slices,     \* 48, then 32 words of Lanes bits, least significant first
  pushed,     \* the values pushed, in order
  popped,     \* the values popped since, in order
  mixed       \* helper has run

bitsliceVars == << toMSB, slices, pushed, popped, mixed >>

BitsliceInit ==
  /\ toMSB \in BOOLEAN
  /\ slices = [i \in 0 .. 47 |-> [b \in 1 .. Lanes |-> 0]]
  /\ pushed = << >>
  /\ popped = << >>
  /\ mixed = FALSE

\* (slip) pushing to the most significant end shifts the other way
PushedMisshifted(target, b) == IF toMSB THEN Append(SubSeq(target, 1, Lanes - 1), b)
                               ELSE << b >> \o SubSeq(target, 1, Lanes - 1)

\* A slice shifts by one to make room for the new bit
Pushed(target, b) == IF toMSB THEN Append(Tail(target), b)
                     ELSE << b >> \o SubSeq(target, 1, Lanes - 1)

\* Slice i gets the i-th bit from the top
bitslice_push(v) ==
  /\ ~mixed
  /\ Len(pushed) < Lanes
  /\ slices' = [i \in 0 .. 47 |-> Pushed(slices[i], v[47 - i])]
  /\ pushed' = Append(pushed, v)
  /\ UNCHANGED << toMSB, popped, mixed >>

\* Box n reads slices 6 n - 6 and on, and writes 4 n - 4 and on, of zeroed outputs
helper ==
  /\ ~mixed
  /\ pushed # << >>
  /\ LET out == [n \in 1 .. 8 |-> [lane \in 1 .. Lanes |->
                   mk_sbox(n, [k \in 1 .. 6 |-> slices[6 * n + k - 7][lane]])]]
     IN  slices' = [i \in 0 .. 31 |-> [lane \in 1 .. Lanes |-> out[(i \div 4) + 1][lane][(i % 4) + 1]]]
  /\ mixed' = TRUE
  /\ UNCHANGED << toMSB, pushed, popped >>

\* The popped end's bits make a value, slice 0 at the top; the slices shift
bitslice_pop ==
  /\ mixed
  /\ Len(popped) < Len(pushed)
  /\ popped' = Append(popped, [b \in 0 .. 31 |-> slices[31 - b][IF toMSB THEN Lanes ELSE 1]])
  /\ slices' = [i \in 0 .. 31 |-> IF toMSB THEN << 0 >> \o SubSeq(slices[i], 1, Lanes - 1)
                                  ELSE Append(Tail(slices[i]), 0)]
  /\ UNCHANGED << toMSB, pushed, mixed >>

BitsliceNext ==
  \/ \E v \in IF pushed = << >> THEN Values ELSE Later : bitslice_push(v)
  \/ helper
  \/ bitslice_pop

-----------------------------------------------------------------------------
\* The circuits compute the tables: every value popped is what
\* sbox_transform_lookup gives for a value pushed, last in first out, whatever
\* the other lanes hold.  One wrong gate of the 448, a swapped output, or a
\* slice that shifts the wrong way shows in some lane.
SlicedAsLookedUp ==
  \A j \in DOMAIN popped : popped[j] = sbox_transform_lookup(pushed[Len(pushed) + 1 - j])
=============================================================================
