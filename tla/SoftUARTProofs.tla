--------------------------- MODULE SoftUARTProofs ---------------------------
(***************************************************************************)
(* For every buffer size, every set of messages and every set of frame      *)
(* formats: the thread and the tick handler of SoftUART never touch the     *)
(* port's buffer at the same time, the line rests high, and the two         *)
(* implement SerialPipe: words are shown whole, in order and once each, and *)
(* a call returns after its last.                                           *)
(***************************************************************************)
EXTENDS SoftUART, DataLemmas, SequenceTheorems, TLAPS

\* The formats configure may leave behind have whole numbers of bits.
LEMMA ConfigShape ==
  ASSUME NEW c \in Configs \union {NoConfig}
  PROVE  /\ c.start_bits \in Nat \ {0} /\ c.stop_bits \in Nat \ {0}
         /\ c.word_size \in Nat
         /\ ParityBits(c) \in {0, 1}
         /\ FrameLength(c) \in Nat \ {0}
BY UartAssumption DEF NoConfig, ParityBits, FrameLength

\* The parity of SoftUART.cpp:93 is a bit.
LEMMA ParityIsBit ==
  ASSUME NEW c \in Configs \union {NoConfig}, NEW byte \in Nat
  PROVE  Parity(byte, c) \in Bits
<1> DEFINE ones == {i \in 0 .. c.word_size - 1 : Bit(byte, i) = 1}
<1>1. IsFiniteSet(0 .. c.word_size - 1)
  BY ConfigShape, FS_Interval
<1>2. IsFiniteSet(ones)
  BY <1>1, FS_Subset
<1>3. Cardinality(ones) \in Nat
  BY <1>2, FS_CardinalityType
<1> QED
  BY <1>3 DEF Parity, Popcount, Bits

\* A bit of a byte is a bit.
LEMMA BitIsBit ==
  ASSUME NEW byte \in Nat, NEW i \in Nat PROVE Bit(byte, i) \in Bits
BY DEF Bit, Bits

\* A frame is a sequence of bits that ends with a stop bit (SoftUART.cpp:88-101).
LEMMA FrameShape ==
  ASSUME NEW c \in Configs \union {NoConfig}, NEW byte \in Nat
  PROVE  /\ Frame(byte, c) \in Seq(Bits)
         /\ Len(Frame(byte, c)) = FrameLength(c)
         /\ Frame(byte, c) # <<>>
         /\ Frame(byte, c)[Len(Frame(byte, c))] = 1
<1> DEFINE n == FrameLength(c)
<1>1. n \in Nat \ {0}
  BY ConfigShape
<1>2. \A i \in 1 .. n : Frame(byte, c)[i] \in Bits
  <2> TAKE i \in 1 .. n
  <2>1. CASE i <= c.start_bits
    BY <2>1 DEF Frame, Bits
  <2>2. CASE i > c.start_bits /\ i <= c.start_bits + c.word_size
    <3>1. i - c.start_bits - 1 \in Nat
      BY <2>2, ConfigShape
    <3> QED
      BY <2>2, <3>1, BitIsBit, ConfigShape DEF Frame
  <2>3. CASE i > c.start_bits + c.word_size
    BY <2>3, ParityIsBit, ConfigShape DEF Frame, Bits
  <2> QED
    BY <2>1, <2>2, <2>3, ConfigShape
<1>3. Frame(byte, c) = [i \in 1 .. n |-> Frame(byte, c)[i]]
  BY DEF Frame
<1>4. Frame(byte, c) \in Seq(Bits) /\ Len(Frame(byte, c)) = n
  BY <1>1, <1>2, <1>3
<1>5. Frame(byte, c)[n] = 1
  BY <1>1, ConfigShape DEF Frame, FrameLength
<1> QED
  BY <1>1, <1>4, <1>5

-----------------------------------------------------------------------------
\* Shifting a bit out of a frame leaves its end where it is.
LEMMA ShiftedOut ==
  ASSUME NEW s \in Seq(Bits), s # <<>>, s[Len(s)] = 1
  PROVE  /\ Head(s) \in Bits /\ Tail(s) \in Seq(Bits)
         /\ Tail(s) = <<>> => Head(s) = 1
         /\ Tail(s) # <<>> => Tail(s)[Len(Tail(s))] = 1
<1>1. Len(s) \in Nat \ {0}
  BY EmptySeq, LenProperties
<1>2. Head(s) = s[1] /\ Head(s) \in Bits
  BY <1>1
<1>3. PICK t \in Seq(Bits) :
         /\ t = Tail(s)
         /\ Len(t) = Len(s) - 1
         /\ \A i \in 1 .. Len(t) : t[i] = s[i + 1]
  BY HeadTailProperties
<1>4. ASSUME t = <<>> PROVE s[1] = 1
  <2>1. Len(t) = 0
    BY <1>4
  <2>2. Len(s) = 1
    BY <1>1, <1>3, <2>1
  <2> QED
    BY <2>2
<1>5. ASSUME t # <<>> PROVE t[Len(t)] = 1
  <2>1. Len(t) \in Nat \ {0}
    BY <1>5, EmptySeq
  <2> QED
    BY <1>1, <1>3, <2>1
<1> QED
  BY <1>2, <1>3, <1>4, <1>5, Zenon

\* SoftUART.cpp:28-102: ownership of the buffer, the level of the resting line
\* and the types of the transmitter, for every interleaving of the thread with
\* the interrupt.  Ownership holds by itself; the level of the line needs that
\* every frame ends with a stop bit, and that only whole frames end a chunk.
THEOREM Invariance == SafeSpec => []IInv
<1>0. BufSize \in Nat \ {0}
  BY UartAssumption
<1>1. Init => IInv
  <2>1. <<>> \in Seq(Bits) /\ <<>> \in Seq(Nat) /\ 1 \in Bits
    BY DEF Bits
  <2> QED
    <3> SUFFICES ASSUME Init PROVE IInv
      OBVIOUS
    <3> USE DEF Init
    <3>1. config \in Configs \union {NoConfig}
      OBVIOUS
    <3>2. tx_buffer \in [1 .. BufSize -> Nat] /\ tx_remaining \in 0 .. BufSize
      BY <1>0
    <3>3. TypeOK
      BY <2>1, <3>1, <3>2 DEF TypeOK
    <3>4. BufferOwned /\ Drained /\ StopBitLast /\ RestsHigh
      BY DEF BufferOwned, Drained, StopBitLast, RestsHigh
    <3> QED
      BY <3>3, <3>4 DEF IInv
<1>2. IInv /\ [Next]_vars => IInv'
  <2> SUFFICES ASSUME IInv, [Next]_vars PROVE IInv'
    OBVIOUS
  <2> USE <1>0 DEF IInv, TypeOK, BufferOwned, Drained, StopBitLast, RestsHigh, Bits,
             port, caller
  <2>1. ASSUME NEW c \in Configs, Configure(c) PROVE IInv'
    BY <2>1 DEF Configure
  <2>2. ASSUME NEW m \in Messages, TxBytes(m) PROVE IInv'
    <3>1. m \in Seq(Nat)
      BY <2>2, UartAssumption
    <3> QED
      BY <2>2, <3>1 DEF TxBytes
  <2>3. CASE SetupTx
    <3>1. Consume \in 0 .. BufSize /\ Consume <= Len(data)
      BY DEF Consume
    <3>2. tx_buffer' \in [1 .. BufSize -> Nat]
      <4> SUFFICES ASSUME NEW i \in 1 .. BufSize, i > BufSize - Consume
                   PROVE  data[i - (BufSize - Consume)] \in Nat
        BY <2>3 DEF SetupTx
      <4>1. i - (BufSize - Consume) \in 1 .. Len(data)
        BY <3>1
      <4>2. data \in Seq(Nat)
        OBVIOUS
      <4> HIDE DEF IInv
      <4> QED
        BY <4>1, <4>2
    <3> QED
      BY <2>3, <3>1, <3>2 DEF SetupTx
  <2>4. CASE Publish
    BY <2>4 DEF Publish
  <2>5. CASE Waited
    <3>1. Consume \in Nat /\ Consume <= Len(data)
      BY DEF Consume
    <3>2. SubSeq(data, Consume + 1, Len(data)) \in Seq(Nat)
      BY <3>1, SMTT(30)
    <3> QED
      BY <2>5, <3>2 DEF Waited
  <2>6. CASE Return
    BY <2>6 DEF Return
  <2>7. CASE TickIdle
    BY <2>7 DEF TickIdle
  <2>8. CASE TickShift
    <3>1. /\ tx_bits \in Seq(Bits) /\ tx_bits # <<>> /\ tx_bits[Len(tx_bits)] = 1
          /\ line' = Head(tx_bits) /\ tx_bits' = Tail(tx_bits)
      BY <2>8 DEF TickShift
    <3> QED
      BY <2>8, <3>1, ShiftedOut, SMTT(30) DEF TickShift
  <2>9. CASE TickLoad
    <3>1. BufSize - tx_remaining + 1 \in 1 .. BufSize
      BY <2>9 DEF TickLoad
    <3>2. tx_buffer[BufSize - tx_remaining + 1] \in Nat
      BY <3>1
    <3>3. /\ tx_bits' \in Seq(Bits) /\ tx_bits' # <<>> /\ tx_bits'[Len(tx_bits')] = 1
      BY <2>9, <3>2, FrameShape DEF TickLoad
    <3> QED
      BY <2>9, <3>3 DEF TickLoad
  <2>10. CASE TickFinish
    BY <2>10 DEF TickFinish
  <2>11. CASE TickFinishLine
    BY <2>11 DEF TickFinishLine
  <2>12. CASE UNCHANGED vars
    BY <2>12 DEF vars
  <2> QED
    BY <2>1, <2>2, <2>3, <2>4, <2>5, <2>6, <2>7, <2>8, <2>9, <2>10, <2>11, <2>12
       DEF Next, Caller, Tick
<1> QED
  BY <1>1, <1>2, PTL DEF SafeSpec

\* The transmitter keeps its types.
THEOREM TypeCorrect == Spec => []TypeOK
<1>1. IInv => TypeOK
  BY DEF IInv
<1> QED
  BY <1>1, Invariance, PTL DEF Spec

\* setup_tx (SoftUART.cpp:28) never writes what the handler may be reading.
THEOREM Ownership == Spec => []BufferOwned
<1>1. IInv => BufferOwned
  BY DEF IInv
<1> QED
  BY <1>1, Invariance, PTL DEF Spec

\* Between chunks and between calls the line is high, in the window of
\* SoftUART.cpp:83-84 too.
THEOREM LineRestsHigh == Spec => []IdleHigh
<1>1. IInv => IdleHigh
  BY DEF IInv, TypeOK, BufferOwned, Drained, RestsHigh, IdleHigh
<1> QED
  BY <1>1, Invariance, PTL DEF Spec

\* No edge outside a call: configure and a tick that outlives the call only repeat
\* the level the line already has.
THEOREM NoEdgeOutside == Spec => EdgesInsideCalls
<1>1. IInv /\ [Next]_vars => [line' # line => pc = "wait"]_vars
  <2> SUFFICES ASSUME IInv, Next PROVE line' # line => pc = "wait"
    BY DEF vars
  <2> USE DEF IInv, TypeOK, BufferOwned, Drained, RestsHigh
  <2>1. ASSUME NEW c \in Configs, Configure(c) PROVE line' = line
    BY <2>1 DEF Configure
  <2>2. ASSUME NEW m \in Messages, TxBytes(m) PROVE line' = line
    BY <2>2 DEF TxBytes
  <2>3. CASE Caller
    BY <2>3 DEF Caller, SetupTx, Publish, Waited, Return
  <2>4. CASE TickIdle \/ TickLoad \/ TickFinish
    BY <2>4 DEF TickIdle, TickLoad, TickFinish
  <2>5. CASE TickShift
    BY <2>5 DEF TickShift
  <2>6. CASE TickFinishLine
    BY <2>6 DEF TickFinishLine
  <2> QED
    BY <2>1, <2>2, <2>3, <2>4, <2>5, <2>6 DEF Next, Tick
<1> QED
  BY <1>1, Invariance, PTL DEF Spec, SafeSpec, EdgesInsideCalls

-----------------------------------------------------------------------------
(* What the receiver makes of a frame is the word the frame was built from. *)

LEMMA BitZero == ASSUME NEW x \in Nat PROVE Bit(x, 0) = x % 2
<1>1. x \div 1 = x
  BY Z3
<1>2. x % 2 \in 0 .. 1
  BY DivisionProps
<1> QED
  BY <1>1, <1>2, TwoToZero DEF Bit

\* The bits above the lowest one are those of the half.
LEMMA BitOfHalf ==
  ASSUME NEW x \in Nat, NEW i \in Nat
  PROVE  Bit(x \div 2, i) = Bit(x, i + 1)
<1>1. 2 ^ i \in Nat \ {0} /\ 2 ^ (i + 1) = 2 * 2 ^ i
  BY TwoToPositive, TwoToNext
<1>2. (x \div 2) \div 2 ^ i = x \div 2 ^ (i + 1)
  <2> DEFINE p == 2 ^ i
  <2>1. p \in Nat \ {0} /\ 2 \in Nat \ {0}
    BY <1>1
  <2> HIDE DEF p
  <2>2. (x \div 2) \div p = x \div (2 * p)
    BY <2>1, DividedTwice
  <2> QED
    BY <1>1, <2>2 DEF p
<1> QED
  BY <1>2 DEF Bit

\* A number of so many bits is the only one with its bits.
Determined(width) ==
  \A x, y \in 0 .. 2 ^ width - 1 :
     (\A i \in 0 .. width - 1 : Bit(x, i) = Bit(y, i)) => x = y

LEMMA BitsDetermine == \A width \in Nat : Determined(width)
<1> DEFINE T == {width \in Nat : Determined(width)}
<1>1. 0 \in T
  <2>1. \A x \in 0 .. 2 ^ 0 - 1 : x = 0
    BY TwoToZero
  <2> QED
    BY <2>1 DEF Determined
<1>2. ASSUME NEW n \in Nat, n \in T PROVE n + 1 \in T
  <2> SUFFICES ASSUME NEW x \in 0 .. 2 ^ (n + 1) - 1, NEW y \in 0 .. 2 ^ (n + 1) - 1,
                      \A i \in 0 .. n : Bit(x, i) = Bit(y, i)
               PROVE  x = y
    BY DEF Determined
  <2>1. 2 ^ (n + 1) = 2 * 2 ^ n /\ 2 ^ n \in Nat \ {0} /\ x \in Nat /\ y \in Nat
    BY TwoToNext, TwoToPositive
  <2>2. /\ x \div 2 \in 0 .. 2 ^ n - 1 /\ x = 2 * (x \div 2) + (x % 2)
        /\ y \div 2 \in 0 .. 2 ^ n - 1 /\ y = 2 * (y \div 2) + (y % 2)
    <3> DEFINE p == 2 ^ n
    <3>1. p \in Nat \ {0} /\ x \in 0 .. 2 * p - 1 /\ y \in 0 .. 2 * p - 1
      BY <2>1
    <3> HIDE DEF p
    <3>2. /\ x \div 2 \in Int /\ x % 2 \in 0 .. 1 /\ x = 2 * (x \div 2) + (x % 2)
          /\ y \div 2 \in Int /\ y % 2 \in 0 .. 1 /\ y = 2 * (y \div 2) + (y % 2)
      BY <2>1, DivisionProps
    <3>3. x \div 2 \in 0 .. p - 1 /\ y \div 2 \in 0 .. p - 1
      BY <3>1, <3>2
    <3> QED
      BY <3>2, <3>3 DEF p
  <2>3. x % 2 = y % 2
    BY <2>1, BitZero
  <2>4. \A i \in 0 .. n - 1 : Bit(x \div 2, i) = Bit(y \div 2, i)
    <3> TAKE i \in 0 .. n - 1
    <3>1. i \in Nat /\ i + 1 \in 0 .. n
      OBVIOUS
    <3>2. Bit(x, i + 1) = Bit(y, i + 1)
      BY <3>1
    <3> QED
      BY <2>1, <3>1, <3>2, BitOfHalf
  <2>5. x \div 2 = y \div 2
    BY <1>2, <2>2, <2>4 DEF Determined
  <2> QED
    BY <2>2, <2>3, <2>5
<1> HIDE DEF T
<1>3. \A n \in Nat : n \in T
  BY <1>1, <1>2, Induction
<1> QED
  BY <1>3 DEF T

\* The ones of a word are counted from 0 by the sender, from 1 by the receiver.
LEMMA OnesOfWord ==
  ASSUME NEW byte \in Nat, NEW width \in Nat
  PROVE  /\ IsFiniteSet({i \in 1 .. width : Bit(byte, i - 1) = 1})
         /\ Cardinality({i \in 1 .. width : Bit(byte, i - 1) = 1}) = Popcount(byte, width)
         /\ Popcount(byte, width) \in Nat
<1> DEFINE A == {i \in 0 .. width - 1 : Bit(byte, i) = 1}
           B == {i \in 1 .. width : Bit(byte, i - 1) = 1}
           f == [i \in A |-> i + 1]
<1>1. IsFiniteSet(A) /\ Cardinality(A) \in Nat
  <2>1. IsFiniteSet(0 .. width - 1)
    BY FS_Interval
  <2>2. A \in SUBSET (0 .. width - 1)
    OBVIOUS
  <2> QED
    BY <2>1, <2>2, FS_Subset, FS_CardinalityType
<1>2. f \in Bijection(A, B)
  <2>1. \A i \in A : f[i] = i + 1 /\ f[i] \in B
    OBVIOUS
  <2>2. \A j \in B : j - 1 \in A /\ f[j - 1] = j
    OBVIOUS
  <2>3. \A i, j \in A : f[i] = f[j] => i = j
    BY <2>1
  <2>4. f \in [A -> B]
    BY <2>1
  <2> HIDE DEF f, A, B
  <2> QED
    BY <2>2, <2>3, <2>4 DEF Bijection, Injection, Surjection, IsInjective
<1> HIDE DEF f
<1>3. IsFiniteSet(B) /\ Cardinality(B) = Cardinality(A)
  <2> HIDE DEF A, B
  <2> QED
    BY <1>1, <1>2, FS_Bijection DEF ExistsBijection
<1> QED
  BY <1>1, <1>3 DEF Popcount

-----------------------------------------------------------------------------
LEMMA FrameAt ==
  ASSUME NEW c, NEW byte, NEW j \in 1 .. FrameLength(c)
  PROVE  Frame(byte, c)[j] =
           IF j <= c.start_bits THEN 0
           ELSE IF j <= c.start_bits + c.word_size THEN Bit(byte, j - c.start_bits - 1)
           ELSE IF j <= c.start_bits + c.word_size + ParityBits(c) THEN Parity(byte, c)
           ELSE 1
BY DEF Frame

\* The word, the parity and the stop bits of a frame (SoftUART.cpp:88-101).
LEMMA FrameParts ==
  ASSUME NEW c \in Configs \union {NoConfig}, NEW byte \in Nat
  PROVE  LET f == Frame(byte, c)
             s == c.start_bits
             w == c.word_size
             n == FrameLength(c)
         IN  /\ \A i \in 1 .. s : f[i] = 0
             /\ \A i \in 1 .. w : f[s + i] = Bit(byte, i - 1)
             /\ c.use_parity => f[s + w + 1] = Parity(byte, c)
             /\ \A i \in 1 .. c.stop_bits : f[n - c.stop_bits + i] = 1
             /\ n - c.stop_bits = s + w + ParityBits(c)
<1> DEFINE f == Frame(byte, c)
           s == c.start_bits
           w == c.word_size
           n == FrameLength(c)
<1>1. /\ s \in Nat \ {0} /\ w \in Nat /\ c.stop_bits \in Nat \ {0}
      /\ ParityBits(c) \in {0, 1} /\ n = s + w + ParityBits(c) + c.stop_bits
  BY ConfigShape DEF FrameLength
<1>2. \A i \in 1 .. s : f[i] = 0
  BY <1>1 DEF Frame
<1>3. ASSUME NEW i \in 1 .. w PROVE f[s + i] = Bit(byte, i - 1)
  <2> DEFINE j == s + i
  <2>1. j \in 1 .. n /\ ~(j <= s) /\ j <= s + w /\ j - s - 1 = i - 1
    BY <1>1
  <2> HIDE DEF j
  <2>2. f[j] = Bit(byte, j - s - 1)
    BY <2>1, FrameAt
  <2> QED
    BY <2>1, <2>2, Zenon DEF j
<1>4. ASSUME c.use_parity PROVE f[s + w + 1] = Parity(byte, c)
  <2>1. /\ ParityBits(c) = 1 /\ s + w + 1 \in 1 .. n /\ ~(s + w + 1 <= s)
        /\ ~(s + w + 1 <= s + w) /\ s + w + 1 <= s + w + ParityBits(c)
    BY <1>1, <1>4 DEF ParityBits
  <2> QED
    BY <2>1, FrameAt
<1>5. ASSUME NEW i \in 1 .. c.stop_bits PROVE f[n - c.stop_bits + i] = 1
  <2> DEFINE j == n - c.stop_bits + i
  <2>1. j \in 1 .. n /\ ~(j <= s) /\ ~(j <= s + w) /\ ~(j <= s + w + ParityBits(c))
    BY <1>1
  <2> HIDE DEF j
  <2>2. f[j] = 1
    BY <2>1, FrameAt
  <2> QED
    BY <2>2 DEF j
<1> QED
  BY <1>1, <1>2, <1>3, <1>4, <1>5

LEMMA TwoParts ==
  ASSUME NEW a \in Seq(Bits), NEW z \in Seq(Bits), Len(z) = 1
  PROVE  /\ a \o z \in Seq(Bits) /\ DOMAIN (a \o z) = 1 .. Len(a) + 1
         /\ \A i \in 1 .. Len(a) : (a \o z)[i] = a[i]
         /\ (a \o z)[Len(a) + 1] = z[1]
<1>1. /\ a \o z \in Seq(Bits) /\ Len(a \o z) = Len(a) + Len(z)
      /\ \A i \in 1 .. Len(a) + Len(z) :
           (a \o z)[i] = IF i <= Len(a) THEN a[i] ELSE z[i - Len(a)]
  BY ConcatProperties
<1> DEFINE b == a \o z
           n == Len(a)
<1>2. n \in Nat
  OBVIOUS
<1>3. /\ b \in Seq(Bits) /\ Len(b) = n + 1
      /\ \A i \in 1 .. n + 1 : b[i] = IF i <= n THEN a[i] ELSE z[i - n]
  BY <1>1
<1> HIDE DEF b, n
<1>4. DOMAIN b = 1 .. n + 1
  BY <1>3
<1>5. \A i \in 1 .. n : b[i] = a[i]
  BY <1>2, <1>3
<1>6. b[n + 1] = z[1]
  <2> DEFINE j == n + 1
  <2>1. j \in 1 .. n + 1 /\ ~(j <= n) /\ j - n = 1
    BY <1>2
  <2> HIDE DEF j
  <2>2. b[j] = z[j - n]
    BY <1>3, <2>1
  <2> QED
    BY <2>1, <2>2, Zenon DEF j
<1> QED
  BY <1>3, <1>4, <1>5, <1>6, Zenon DEF b, n

\* Adding the parity of a number (or its opposite) makes it even (or odd).
LEMMA MadeEven ==
  ASSUME NEW p \in Nat, NEW inv \in {0, 1}
  PROVE  (p + ((p + inv) % 2)) % 2 = inv /\ (p + inv) % 2 \in {0, 1}
<1>1. CASE inv = 0
  BY <1>1, Z3
<1>2. CASE inv = 1
  BY <1>2, Z3
<1> QED
  BY <1>1, <1>2

\* Word and parity bit together have the parity that was asked for.
LEMMA ParityHolds ==
  ASSUME NEW c \in Configs \union {NoConfig}, NEW byte \in Nat,
         NEW word \in Seq(Bits), NEW check \in Seq(Bits),
         Len(word) = c.word_size, \A i \in 1 .. Len(word) : word[i] = Bit(byte, i - 1),
         Len(check) = 1, check[1] = Parity(byte, c)
  PROVE  Ones(word \o check) % 2 = IF c.invert_parity THEN 1 ELSE 0
<1> DEFINE w == c.word_size
           b == word \o check
           p == Popcount(byte, w)
           inv == IF c.invert_parity THEN 1 ELSE 0
           S == {i \in 1 .. w : Bit(byte, i - 1) = 1}
<1>1. w \in Nat
  BY ConfigShape
<1>2. IsFiniteSet(S) /\ Cardinality(S) = p /\ p \in Nat
  BY <1>1, OnesOfWord
<1>3. /\ DOMAIN b = 1 .. w + 1
      /\ \A i \in 1 .. w : b[i] = Bit(byte, i - 1)
      /\ b[w + 1] = Parity(byte, c)
  <2>1. /\ DOMAIN b = 1 .. Len(word) + 1 /\ \A i \in 1 .. Len(word) : b[i] = word[i]
        /\ b[Len(word) + 1] = check[1]
    <3> HIDE DEF w
    <3> QED
      BY TwoParts
  <2>2. Len(word) = w
    OBVIOUS
  <2> HIDE DEF w, b
  <2> QED
    BY <2>1, <2>2, Zenon
<1>4. {i \in DOMAIN b : b[i] = 1} = IF Parity(byte, c) = 1 THEN S \union {w + 1} ELSE S
  <2>1. {i \in DOMAIN b : b[i] = 1} = {i \in 1 .. w + 1 : b[i] = 1}
    BY <1>3
  <2>2. \A i \in 1 .. w + 1 : b[i] = 1 <=> i \in S \/ (i = w + 1 /\ Parity(byte, c) = 1)
    BY <1>1, <1>3
  <2> HIDE DEF b
  <2>3. S \subseteq 1 .. w + 1 /\ w + 1 \in 1 .. w + 1
    BY <1>1
  <2> HIDE DEF S
  <2> QED
    BY <2>1, <2>2, <2>3
<1>5. Parity(byte, c) = (p + inv) % 2 /\ inv \in {0, 1}
  BY DEF Parity
<1>6. Ones(b) = p + ((p + inv) % 2)
  <2>1. w + 1 \notin S
    BY <1>1
  <2>2. Cardinality(S \union {w + 1}) = p + 1
    <3> HIDE DEF S
    <3> QED
      BY <1>2, <2>1, FS_AddElement
  <2>3. (p + inv) % 2 \in {0, 1}
    <3> HIDE DEF p, inv
    <3> QED
      BY <1>2, <1>5, MadeEven
  <2> HIDE DEF S, b, p, inv
  <2>4. CASE Parity(byte, c) = 1
    BY <1>2, <1>4, <1>5, <2>2, <2>4 DEF Ones
  <2>5. CASE Parity(byte, c) = 0
    <3>1. {i \in DOMAIN b : b[i] = 1} = S
      BY <1>4, <2>5
    <3>2. Ones(b) = p
      BY <1>2, <3>1 DEF Ones
    <3> QED
      BY <1>2, <1>5, <2>5, <3>2
  <2> QED
    BY <1>5, <2>3, <2>4, <2>5
<1>7. (p + ((p + inv) % 2)) % 2 = inv
  <2> HIDE DEF p, inv
  <2> QED
    BY <1>2, <1>5, MadeEven
<1> QED
  BY <1>6, <1>7

LEMMA PartOfBits ==
  ASSUME NEW f \in Seq(Bits), NEW a \in Nat, NEW k \in Nat, a + k <= Len(f),
         NEW r, r = SubSeq(f, a + 1, a + k)
  PROVE  /\ r \in Seq(Bits) /\ Len(r) = k /\ DOMAIN r = 1 .. k
         /\ \A i \in 1 .. k : r[i] = f[a + i]
<1>1. SubSeq(f, a + 1, a + k) \in Seq(Bits) /\ Len(SubSeq(f, a + 1, a + k)) = k
  BY PartOf
<1>2. \A i \in 1 .. k : SubSeq(f, a + 1, a + k)[i] = f[a + i]
  BY PartOf
<1>3. DOMAIN r = 1 .. k
  BY <1>1
<1> QED
  BY <1>1, <1>2, <1>3, Zenon

\* A whole frame is read as the word it was built from, in every format.
LEMMA DecodedFrame ==
  ASSUME config \in Configs \union {NoConfig}, NEW byte \in Nat, Fits(byte, config)
  PROVE  Decoded(Frame(byte, config)) = byte
<1> DEFINE c == config
           f == Frame(byte, c)
           s == c.start_bits
           w == c.word_size
           t == c.stop_bits
           b == ParityBits(c)
           n == FrameLength(c)
           word  == SubSeq(f, s + 1, s + w)
           check == SubSeq(f, s + w + 1, n - t)
           stops == SubSeq(f, n - t + 1, n)
           inverted == IF c.invert_parity THEN 1 ELSE 0
           found == CHOOSE x \in 0 .. 2 ^ w - 1 : \A i \in 1 .. w : Bit(x, i - 1) = word[i]
<1>1. /\ s \in Nat \ {0} /\ w \in Nat /\ t \in Nat \ {0} /\ b \in {0, 1}
      /\ n = s + w + b + t
  BY ConfigShape DEF FrameLength
<1>2. f \in Seq(Bits) /\ Len(f) = n
  BY FrameShape
<1>3. /\ \A i \in 1 .. w : f[s + i] = Bit(byte, i - 1)
      /\ c.use_parity => f[s + w + 1] = Parity(byte, c)
      /\ \A i \in 1 .. t : f[n - t + i] = 1
  BY FrameParts
<1>4. /\ word \in Seq(Bits) /\ Len(word) = w
      /\ \A i \in 1 .. w : word[i] = Bit(byte, i - 1)
  <2>1. s + w <= Len(f)
    BY <1>1, <1>2
  <2> HIDE DEF f, n, s, w
  <2>2. /\ word \in Seq(Bits) /\ Len(word) = w
        /\ \A i \in 1 .. w : word[i] = f[s + i]
    <3>1. word = SubSeq(f, s + 1, s + w)
      OBVIOUS
    <3> HIDE DEF word
    <3> QED
      BY <1>1, <1>2, <2>1, <3>1, PartOfBits, SMTT(60)
  <2> QED
    BY <1>3, <2>2
<1>5. ASSUME c.use_parity
      PROVE  check \in Seq(Bits) /\ Len(check) = 1 /\ check[1] = Parity(byte, c)
  <2>1. b = 1 /\ n - t = s + w + 1 /\ s + w \in Nat /\ s + w + 1 <= n
    BY <1>1, <1>5 DEF ParityBits
  <2> DEFINE a == s + w
  <2>2. check = SubSeq(f, a + 1, a + 1)
    BY <2>1
  <2>3. a \in Nat /\ a + 1 <= Len(f)
    BY <1>2, <2>1
  <2> HIDE DEF a, f, check
  <2>4. 1 \in Nat /\ 1 \in 1 .. 1
    OBVIOUS
  <2>5. check \in Seq(Bits) /\ Len(check) = 1 /\ \A i \in 1 .. 1 : check[i] = f[a + i]
    BY <1>2, <2>2, <2>3, <2>4, PartOfBits, SMTT(60)
  <2>6. check[1] = f[a + 1]
    BY <2>4, <2>5, Zenon
  <2> QED
    BY <1>3, <1>5, <2>5, <2>6, Zenon DEF a
<1>6. c.use_parity => Ones(word \o check) % 2 = inverted
  <2> HIDE DEF word, check, f
  <2> QED
    BY <1>4, <1>5, ParityHolds
<1>7. Ones(stops) = t
  <2> DEFINE a == n - t
  <2>1. a \in Nat /\ a + t = n /\ a + t <= Len(f)
    BY <1>1, <1>2
  <2> HIDE DEF a, f, n
  <2>2. stops = SubSeq(f, a + 1, a + t) /\ \A i \in 1 .. t : f[a + i] = 1
    BY <1>3, <2>1 DEF a
  <2> HIDE DEF stops
  <2>3. DOMAIN stops = 1 .. t /\ \A i \in 1 .. t : stops[i] = 1
    <3>1. t \in Nat
      BY <1>1
    <3> HIDE DEF t
    <3>2. DOMAIN stops = 1 .. t /\ \A i \in 1 .. t : stops[i] = f[a + i]
      BY <1>2, <2>1, <2>2, <3>1, PartOfBits, SMTT(60)
    <3> QED
      BY <2>2, <3>2, Zenon
  <2>4. {i \in DOMAIN stops : stops[i] = 1} = 1 .. t
    BY <2>3
  <2>5. Cardinality(1 .. t) = t
    BY <1>1, IntervalSize
  <2> QED
    BY <2>4, <2>5 DEF Ones
<1>8. found = byte
  <2>1. byte \in 0 .. 2 ^ w - 1 /\ \A i \in 1 .. w : Bit(byte, i - 1) = word[i]
    BY <1>4 DEF Fits
  <2> HIDE DEF word
  <2>2. found \in 0 .. 2 ^ w - 1 /\ \A i \in 1 .. w : Bit(found, i - 1) = word[i]
    BY <2>1
  <2> HIDE DEF found
  <2>3. \A i \in 0 .. w - 1 : Bit(found, i) = Bit(byte, i)
    <3> TAKE i \in 0 .. w - 1
    <3>1. i + 1 \in 1 .. w /\ (i + 1) - 1 = i
      BY <1>1
    <3> QED
      BY <2>1, <2>2, <3>1
  <2> QED
    BY <1>1, <2>1, <2>2, <2>3, BitsDetermine DEF Determined
<1> HIDE DEF word, check, stops, found
<1> QED
  BY <1>6, <1>7, <1>8 DEF Decoded, word, check, stops, found
-----------------------------------------------------------------------------
(* The words arrive: the refinement of SerialPipe.                         *)

\* One bit crosses the line.
LEMMA Crossing ==
  ASSUME NEW r \in Seq(Bits), NEW t \in Seq(Bits), t # <<>>
  PROVE  /\ Append(r, Head(t)) \in Seq(Bits)
         /\ Append(r, Head(t)) \o Tail(t) = r \o t
         /\ Len(Append(r, Head(t))) = Len(r) + 1
         /\ Len(r \o t) = Len(r) + Len(t)
         /\ Len(t) \in Nat \ {0} /\ Len(r) \in Nat
         /\ Tail(t) = <<>> => Append(r, Head(t)) = r \o t /\ Len(t) = 1
         /\ Tail(t) # <<>> => Len(t) > 1
         /\ r = <<>> => r \o t = t /\ t[1] = Head(t)
<1>1. /\ Head(t) \in Bits /\ Tail(t) \in Seq(Bits) /\ Head(t) = t[1]
      /\ Len(Tail(t)) = Len(t) - 1 /\ \A i \in 1 .. Len(Tail(t)) : Tail(t)[i] = t[i + 1]
      /\ Len(t) \in Nat \ {0} /\ Len(r) \in Nat
  BY HeadTailProperties, EmptySeq, LenProperties
<1> DEFINE h == Head(t)
           u == Tail(t)
           a == Append(r, h)
<1> HIDE DEF h, u, a
<1>2. h \in Bits /\ u \in Seq(Bits) /\ h = t[1] /\ Len(u) = Len(t) - 1
      /\ \A i \in 1 .. Len(u) : u[i] = t[i + 1]
  BY <1>1 DEF h, u
<1>3. /\ a \in Seq(Bits) /\ Len(a) = Len(r) + 1
      /\ \A i \in 1 .. Len(r) : a[i] = r[i]
      /\ a[Len(r) + 1] = h
  BY <1>2, AppendProperties DEF a
<1>4. /\ a \o u \in Seq(Bits) /\ Len(a \o u) = Len(a) + Len(u)
      /\ \A i \in 1 .. Len(a) + Len(u) :
           (a \o u)[i] = IF i <= Len(a) THEN a[i] ELSE u[i - Len(a)]
  BY <1>2, <1>3, ConcatProperties
<1>5. /\ r \o t \in Seq(Bits) /\ Len(r \o t) = Len(r) + Len(t)
      /\ \A i \in 1 .. Len(r) + Len(t) :
           (r \o t)[i] = IF i <= Len(r) THEN r[i] ELSE t[i - Len(r)]
  BY ConcatProperties
<1>6. a \o u = r \o t
  <2> DEFINE x == a \o u
             y == r \o t
  <2>1. x \in Seq(Bits) /\ y \in Seq(Bits) /\ Len(x) = Len(y)
    BY <1>1, <1>2, <1>3, <1>4, <1>5
  <2>2. ASSUME NEW i \in 1 .. Len(x) PROVE x[i] = y[i]
    <3>1. Len(x) = Len(r) + Len(t) /\ Len(a) = Len(r) + 1
      BY <1>1, <1>2, <1>3, <1>4
    <3>2. CASE i <= Len(r)
      BY <1>1, <1>3, <1>4, <1>5, <3>1, <3>2, <2>2
    <3>3. CASE i = Len(r) + 1
      BY <1>1, <1>2, <1>3, <1>4, <1>5, <3>1, <3>3, <2>2
    <3>4. CASE i > Len(r) + 1
      <4>1. i - Len(a) \in 1 .. Len(u) /\ i - Len(a) + 1 = i - Len(r) /\ ~(i <= Len(a))
        BY <1>1, <1>2, <3>1, <3>4, <2>2
      <4>2. u[i - Len(a)] = t[i - Len(r)]
        BY <1>2, <4>1
      <4> QED
        BY <1>1, <1>4, <1>5, <3>1, <3>4, <4>1, <4>2, <2>2
    <3>5. Len(r) \in Nat /\ i \in Int
      BY <1>1, <2>2, <3>1
    <3>6. i <= Len(r) \/ i = Len(r) + 1 \/ i > Len(r) + 1
      BY <3>5
    <3> QED
      BY <3>2, <3>3, <3>4, <3>6, Zenon
  <2> HIDE DEF x, y
  <2>3. x = y
    BY <2>1, <2>2, SeqEqual
  <2> QED
    BY <2>3 DEF x, y
<1>7. u = <<>> => a \o u = a /\ Len(t) = 1
  <2>1. u = <<>> => a \o u = a
    BY <1>3, ConcatEmptySeq, Zenon
  <2>2. u = <<>> => Len(u) = 0
    OBVIOUS
  <2>3. Len(u) = 0 => Len(t) = 1
    <3>1. Len(t) \in Nat /\ Len(u) = Len(t) - 1
      BY <1>1, <1>2, Zenon
    <3> QED
      BY <3>1
  <2> QED
    BY <2>1, <2>2, <2>3, Zenon
<1>8. u # <<>> => Len(t) > 1
  <2>1. u # <<>> => Len(u) # 0
    BY <1>2, EmptySeq
  <2> QED
    BY <1>1, <1>2, <2>1
<1>9. r = <<>> => r \o t = t
  BY ConcatEmptySeq
<1> QED
  BY <1>1, <1>2, <1>3, <1>5, <1>6, <1>7, <1>8, <1>9 DEF h, u, a

LEMMA ChunkBounds ==
  ASSUME data \in Seq(Nat)
  PROVE  Consume \in 0 .. BufSize /\ Consume <= Len(data) /\ Len(data) \in Nat
BY UartAssumption DEF Consume

\* While a frame is under way its word is one of the message's.
LEMMA UnderWay ==
  ASSUME IInv, PipeIInv
  PROVE  /\ tx_bits # <<>> => pc = "wait" /\ isr = "ready"
         /\ tx_bits # <<>> => Out + 1 \in 1 .. Len(message)
         /\ Out \in 0 .. Len(message) /\ Len(message) \in Nat
         /\ tx_bits = <<>> /\ pc # "wait" => Out = Len(message) - Len(data)
<1> DEFINE n == Len(message)
           d == Len(data)
           k == Consume
<1>1. n \in Nat /\ d \in Nat /\ d <= n /\ k \in 0 .. BufSize /\ k <= d
  BY ChunkBounds DEF IInv, TypeOK, PipeIInv, CallKept
<1>2. tx_bits # <<>> => pc = "wait" /\ isr = "ready" /\ tx_remaining < k
  BY DEF IInv, BufferOwned, PipeIInv, ChunkKept
<1>3. pc = "wait" => tx_remaining <= k
  BY DEF PipeIInv, ChunkKept
<1>4. tx_remaining \in Nat
  BY UartAssumption DEF IInv, TypeOK
<1> HIDE DEF n, d, k
<1>5. /\ pc = "wait" /\ tx_bits # <<>> => Out = n - d + (k - tx_remaining) - 1
      /\ pc = "wait" /\ tx_bits = <<>> => Out = n - d + (k - tx_remaining) - 0
      /\ pc # "wait" /\ tx_bits = <<>> => Out = n - d + 0 - 0
  BY DEF Out, Before, Taken, n, d, k
<1> HIDE DEF Out
<1>6. CASE tx_bits # <<>>
  BY <1>1, <1>2, <1>4, <1>5, <1>6 DEF n, d
<1>7. CASE tx_bits = <<>> /\ pc = "wait"
  BY <1>1, <1>3, <1>4, <1>5, <1>7 DEF n, d
<1>8. CASE tx_bits = <<>> /\ pc # "wait"
  BY <1>1, <1>5, <1>8 DEF n, d
<1> QED
  BY <1>6, <1>7, <1>8

\* A receiver that waits for a start bit takes nothing from a line at rest.
LEMMA RestIsIgnored ==
  ASSUME IInv, PipeIInv, TickIdle \/ TickLoad \/ TickFinishLine
  PROVE  UNCHANGED receiver
<1>1. tx_bits = <<>>
  BY DEF TickIdle, TickLoad, TickFinishLine, IInv, Drained, PipeIInv, ChunkKept
<1>2. rx = <<>> /\ line = 1
  BY <1>1 DEF PipeIInv, FrameKept, IInv, RestsHigh
<1> QED
  BY <1>2 DEF TickIdle, TickLoad, TickFinishLine, Sample

\* The last bit of a frame brings the next word of the message; every other one
\* only moves from the transmitter to the receiver.
LEMMA ShiftSteps ==
  ASSUME IInv, PipeIInv, TickShift
  PROVE  \/ /\ tx_bits' = <<>> /\ rx' = <<>>
            /\ received' = Append(received, message[Out + 1])
         \/ /\ tx_bits' # <<>> /\ received' = received /\ rx' \in Seq(Bits)
            /\ rx' \o tx_bits' = Frame(message[Out + 1], config)
<1> DEFINE byte == message[Out + 1]
           F == Frame(byte, config)
           b == Append(rx, Head(tx_bits))
<1>1. /\ tx_bits # <<>> /\ tx_bits' = Tail(tx_bits) /\ Sample(Head(tx_bits))
      /\ tx_bits \in Seq(Bits) /\ pc = "wait"
  BY UnderWay DEF TickShift, IInv, TypeOK
<1>2. rx \in Seq(Bits) /\ rx \o tx_bits = F
  BY <1>1 DEF PipeIInv, FrameKept
<1>3. config \in Configs \union {NoConfig} /\ byte \in Nat /\ Fits(byte, config)
  <2>1. config \in Configs /\ message \in Messages /\ Out + 1 \in 1 .. Len(message)
    BY <1>1, UnderWay DEF PipeIInv, CallKept
  <2>2. message \in Seq(Nat) /\ \A i \in 1 .. Len(message) : Fits(message[i], config)
    BY <2>1, UartAssumption
  <2> HIDE DEF Out
  <2> QED
    BY <2>1, <2>2
<1> HIDE DEF byte
<1>4. Len(F) = FrameLength(config) /\ F[1] = 0
  BY <1>3, FrameShape, FrameParts, ConfigShape
<1>5. Decoded(F) = byte
  BY <1>3, DecodedFrame
<1> HIDE DEF F
<1>6. ~(rx = <<>> /\ Head(tx_bits) = 1)
  BY <1>1, <1>2, <1>4, Crossing
<1>7. CASE Tail(tx_bits) = <<>>
  <2>1. b = F
    BY <1>1, <1>2, <1>7, Crossing
  <2>2. FrameLength(config) \in Nat
    BY <1>3, ConfigShape
  <2>3. ~(Len(b) < FrameLength(config))
    BY <1>4, <2>1, <2>2
  <2>4. rx' = <<>> /\ received' = Append(received, byte)
    BY <1>1, <1>5, <1>6, <2>1, <2>3 DEF Sample
  <2>5. tx_bits' = <<>>
    BY <1>1, <1>7
  <2>6. received' = Append(received, message[Out + 1])
    BY <2>4 DEF byte
  <2> HIDE DEF Out
  <2> QED
    BY <2>4, <2>5, <2>6, Zenon
<1>8. CASE Tail(tx_bits) # <<>>
  <2>1. /\ b \in Seq(Bits) /\ b \o Tail(tx_bits) = rx \o tx_bits
        /\ Len(b) = Len(rx) + 1 /\ Len(rx \o tx_bits) = Len(rx) + Len(tx_bits)
        /\ Len(tx_bits) \in Nat /\ Len(rx) \in Nat /\ Len(tx_bits) > 1
    BY <1>1, <1>2, <1>8, Crossing, Zenon
  <2> HIDE DEF b
  <2>3. b \o Tail(tx_bits) = F /\ FrameLength(config) = Len(rx) + Len(tx_bits)
    BY <1>2, <1>4, <2>1, Zenon
  <2>4. Len(b) < FrameLength(config)
    BY <2>1, <2>3
  <2>2. rx' = b /\ received' = received
    BY <1>1, <1>6, <2>4 DEF Sample, b
  <2> QED
    BY <1>1, <1>8, <2>1, <2>2, <2>3 DEF F, byte
<1> QED
  BY <1>7, <1>8

\* The chunks the thread cuts, SoftUART.cpp:28-49.
LEMMA CutChunks ==
  ASSUME IInv, PipeIInv
  PROVE  /\ SetupTx => PipeIInv'
         /\ Publish => PipeIInv'
<1>1. Consume \in 0 .. BufSize /\ Consume <= Len(data) /\ Len(data) \in Nat /\ BufSize \in Nat
  BY ChunkBounds, UartAssumption DEF IInv, TypeOK
<1>2. ASSUME SetupTx PROVE PipeIInv'
  <2>1. /\ pc = "loop" /\ pc' = "publish" /\ tx_bits = <<>> /\ tx_remaining' = Consume
        /\ UNCHANGED <<config, tx_in_progress, tx_bits, data, message, isr, receiver>>
    BY <1>2 DEF SetupTx, IInv, BufferOwned
  <2>2. UNCHANGED <<Consume, Before, Out>>
    BY <2>1 DEF Consume, Before, Taken, Out
  <2>3. ASSUME NEW i \in 1 .. Consume PROVE tx_buffer'[BufSize - Consume + i] = data[i]
    <3> DEFINE k == Consume
               j == BufSize - k + i
    <3>1. j \in 1 .. BufSize /\ j > BufSize - k /\ j - (BufSize - k) = i
      BY <1>1, <2>3
    <3> HIDE DEF j
    <3> QED
      BY <1>2, <3>1, Zenon DEF SetupTx, j
  <2>4. CallKept'
    BY <2>1, <2>2 DEF PipeIInv, CallKept
  <2>5. ChunkKept'
    BY <2>1, <2>2, <2>3 DEF ChunkKept
  <2>6. FrameKept' /\ WordsKept'
    BY <2>1, <2>2 DEF PipeIInv, FrameKept, WordsKept, receiver
  <2> QED
    BY <2>4, <2>5, <2>6 DEF PipeIInv
<1>3. ASSUME Publish PROVE PipeIInv'
  <2>1. /\ pc = "publish" /\ pc' = "wait" /\ tx_bits = <<>> /\ tx_in_progress' = TRUE
        /\ tx_remaining = Consume
        /\ UNCHANGED <<config, tx_buffer, tx_remaining, tx_bits, data, message, isr, receiver>>
    BY <1>3 DEF Publish, IInv, BufferOwned, PipeIInv, ChunkKept
  <2>2. UNCHANGED <<Consume, Before>>
    BY <2>1 DEF Consume, Before
  <2>3. Taken = 0 /\ Taken' = 0
    <3>1. Consume - Consume = 0
      BY <1>1
    <3> QED
      BY <2>1, <2>2, <3>1 DEF Taken
  <2>4. Out' = Out
    BY <2>1, <2>2, <2>3 DEF Out
  <2>5. CallKept'
    BY <2>1, <2>2 DEF PipeIInv, CallKept
  <2>6. ChunkKept'
    <3>1. \A i \in 1 .. Consume : tx_buffer[BufSize - Consume + i] = data[i]
      BY <2>1 DEF PipeIInv, ChunkKept
    <3> QED
      BY <1>1, <2>1, <2>2, <3>1 DEF ChunkKept
  <2>7. FrameKept' /\ WordsKept'
    BY <2>1, <2>4 DEF PipeIInv, FrameKept, WordsKept, receiver
  <2> QED
    BY <2>5, <2>6, <2>7 DEF PipeIInv
<1> QED
  BY <1>2, <1>3

\* The sent chunk is dropped, SoftUART.cpp:46.
LEMMA DropChunk ==
  ASSUME IInv, PipeIInv, Waited PROVE PipeIInv'
<1>1. /\ pc = "wait" /\ pc' = "loop" /\ tx_bits = <<>> /\ tx_remaining = 0
      /\ data' = SubSeq(data, Consume + 1, Len(data))
      /\ UNCHANGED <<config, port, message, isr, receiver>>
  BY DEF Waited, IInv, Drained, PipeIInv, ChunkKept
<1>2. /\ Consume \in Nat /\ Consume <= Len(data) /\ Len(data) \in Nat
      /\ Len(message) \in Nat /\ data \in Seq(Nat) /\ message \in Seq(Nat)
      /\ Len(data) <= Len(message)
  BY ChunkBounds DEF IInv, TypeOK, PipeIInv, CallKept
<1> DEFINE k == Consume
           d == Len(data)
           n == Len(message)
           rest == SubSeq(data, k + 1, d)
<1>3. /\ Len(rest) = d - k /\ \A i \in 1 .. d - k : rest[i] = data[k + i]
  <2>1. k \in Nat /\ d - k \in Nat /\ k + (d - k) = d
    BY <1>2
  <2> DEFINE l == d - k
  <2>2. rest = SubSeq(data, k + 1, k + l)
    BY <2>1
  <2>3. k \in Nat /\ l \in Nat /\ k + l <= Len(data) /\ data \in Seq(Nat)
    BY <1>2, <2>1
  <2> HIDE DEF k, l, rest
  <2>4. Len(rest) = l /\ \A i \in 1 .. l : rest[i] = data[k + i]
    BY <2>2, <2>3, PartOf
  <2> QED
    BY <2>4 DEF l
<1>4. Before = n - d /\ Before' = n - (d - k) /\ Taken = k - 0 /\ Taken' = 0
  <2> HIDE DEF rest
  <2> QED
    BY <1>1, <1>3 DEF Before, Taken, rest
<1>5. tx_bits' = tx_bits /\ received' = received /\ rx' = rx /\ config' = config
  BY <1>1 DEF port, receiver
<1>6. Out' = Out
  BY <1>1, <1>2, <1>4, <1>5 DEF Out
<1>7. CallKept'
  <2>1. ASSUME NEW i \in 1 .. Len(data') PROVE data'[i] = message[Before' + i]
    <3>1. k + i \in 1 .. d /\ i \in 1 .. d - k
      BY <1>1, <1>2, <1>3, <2>1
    <3>2. data'[i] = data[k + i]
      BY <1>1, <1>3, <3>1
    <3>3. data[k + i] = message[Before + (k + i)]
      BY <3>1 DEF PipeIInv, CallKept
    <3>4. Before + (k + i) = Before' + i
      BY <1>2, <1>4, <3>1
    <3> QED
      BY <3>2, <3>3, <3>4
  <2>2. Len(data') <= Len(message)
    BY <1>1, <1>2, <1>3
  <2>3. /\ message \in Seq(Nat) /\ config \in Configs /\ message \in Messages
    BY <1>1 DEF PipeIInv, CallKept
  <2> QED
    BY <1>1, <2>1, <2>2, <2>3 DEF CallKept
<1>8. ChunkKept' /\ FrameKept' /\ WordsKept'
  BY <1>1, <1>5, <1>6 DEF PipeIInv, ChunkKept, FrameKept, WordsKept
<1> QED
  BY <1>7, <1>8 DEF PipeIInv

\* The handler takes the next byte of the chunk, SoftUART.cpp:86-100.
LEMMA LoadWord ==
  ASSUME IInv, PipeIInv, TickLoad PROVE PipeIInv'
<1> DEFINE k == Consume
           i == k - tx_remaining + 1
<1>1. /\ pc = "wait" /\ tx_bits = <<>> /\ tx_remaining # 0 /\ tx_remaining' = tx_remaining - 1
      /\ isr = "ready" /\ tx_in_progress
      /\ tx_bits' = Frame(tx_buffer[BufSize - tx_remaining + 1], config)
      /\ UNCHANGED <<config, tx_in_progress, tx_buffer, pc, data, message, isr>>
  BY DEF TickLoad, IInv, BufferOwned, caller
<1>2. /\ tx_remaining \in Nat /\ tx_remaining <= k /\ k \in 0 .. BufSize /\ BufSize \in Nat
      /\ k <= Len(data) /\ Len(data) \in Nat
  BY <1>1, ChunkBounds, UartAssumption DEF IInv, TypeOK, PipeIInv, ChunkKept
<1>3. received' = received /\ rx' = rx /\ rx = <<>>
  BY <1>1, RestIsIgnored DEF receiver, PipeIInv, FrameKept
<1>4. config \in Configs \union {NoConfig}
  BY DEF IInv, TypeOK
<1>5. Before \in Int /\ k' = k /\ Before' = Before
  <2>1. Len(message) \in Int
    BY DEF PipeIInv, CallKept
  <2> QED
    BY <1>1, <1>2, <2>1 DEF Before, Consume
<1>6. i \in 1 .. k /\ BufSize - tx_remaining + 1 = BufSize - k + i
  BY <1>1, <1>2
<1> DEFINE byte == tx_buffer[BufSize - tx_remaining + 1]
<1>7. byte = message[Before + i] /\ byte \in Nat
  <2>1. byte = data[i]
    BY <1>1, <1>6 DEF PipeIInv, ChunkKept
  <2>2. i \in 1 .. Len(data)
    BY <1>2, <1>6
  <2>3. data[i] = message[Before + i]
    BY <2>2 DEF PipeIInv, CallKept
  <2>4. data[i] \in Nat
    BY <2>2 DEF IInv, TypeOK
  <2> QED
    BY <2>1, <2>3, <2>4
<1> HIDE DEF byte
<1>8. tx_bits' \in Seq(Bits) /\ tx_bits' # <<>>
  BY <1>1, <1>4, <1>7, FrameShape DEF byte
<1>9. Out' = Out /\ Out + 1 = Before + i
  <2>1. Taken = k - tx_remaining /\ Taken' = k - (tx_remaining - 1)
    BY <1>1, <1>5 DEF Taken
  <2>2. Out = Before + (k - tx_remaining) - 0 /\ Out' = Before + (k - (tx_remaining - 1)) - 1
    BY <1>1, <1>5, <1>8, <2>1 DEF Out
  <2> HIDE DEF k
  <2> QED
    BY <1>2, <1>5, <2>2
<1>10. CallKept'
  BY <1>1, <1>5 DEF PipeIInv, CallKept
<1>11. ChunkKept'
  <2>1. /\ tx_remaining' <= k /\ tx_remaining' < k /\ tx_in_progress'
    BY <1>1, <1>2
  <2>2. \A j \in 1 .. k : tx_buffer[BufSize - k + j] = data[j]
    BY <1>1 DEF PipeIInv, ChunkKept
  <2> HIDE DEF k
  <2> QED
    BY <1>1, <1>5, <2>1, <2>2 DEF ChunkKept, k
<1>12. FrameKept'
  <2>1. tx_bits' = Frame(message'[Out' + 1], config')
    BY <1>1, <1>7, <1>9 DEF byte
  <2>2. <<>> \o tx_bits' = tx_bits' /\ <<>> \in Seq(Bits)
    BY <1>8, ConcatEmptySeq
  <2> QED
    BY <1>3, <1>8, <2>1, <2>2 DEF FrameKept
<1>13. WordsKept'
  BY <1>1, <1>3, <1>9 DEF PipeIInv, WordsKept
<1> QED
  BY <1>10, <1>11, <1>12, <1>13 DEF PipeIInv

\* A bit goes out, SoftUART.cpp:69-74.
LEMMA ShiftBit ==
  ASSUME IInv, PipeIInv, TickShift PROVE PipeIInv'
<1>1. /\ tx_bits # <<>> /\ pc = "wait" /\ isr = "ready"
      /\ UNCHANGED <<config, tx_in_progress, tx_buffer, tx_remaining, pc, data, message, isr>>
  BY UnderWay DEF TickShift, caller
<1>2. UNCHANGED <<Consume, Before, Taken>>
  BY <1>1 DEF Consume, Before, Taken
<1>3. Out \in Nat /\ Out + 1 \in 1 .. Len(message) /\ message \in Seq(Nat)
  BY <1>1, UnderWay DEF PipeIInv, CallKept
<1>4. Before \in Int /\ Taken \in Int
  <2>1. /\ Consume \in Int /\ tx_remaining \in Int /\ Len(message) \in Int /\ Len(data) \in Int
    BY ChunkBounds DEF IInv, TypeOK, PipeIInv, CallKept
  <2> QED
    BY <2>1 DEF Before, Taken
<1>5. CallKept'
  BY <1>1, <1>2 DEF PipeIInv, CallKept
<1>6. ChunkKept'
  BY <1>1, <1>2 DEF PipeIInv, ChunkKept
<1>7. CASE /\ tx_bits' = <<>> /\ rx' = <<>>
           /\ received' = Append(received, message[Out + 1])
  <2>1. Out' = Out + 1
    <3>1. Out = Before + Taken - 1 /\ Out' = Before + Taken - 0
      BY <1>1, <1>2, <1>7 DEF Out
    <3> HIDE DEF Out
    <3> QED
      BY <1>4, <3>1
  <2>2. FrameKept'
    BY <1>7 DEF FrameKept
  <2>3. WordsKept'
    <3>1. /\ received \in Seq(Nat) /\ Len(received) = Out
          /\ \A i \in 1 .. Out : received[i] = message[i]
      BY DEF PipeIInv, WordsKept
    <3> DEFINE o == Out
               m == message[o + 1]
    <3>2. m \in Nat /\ o \in Nat
      BY <1>3
    <3> HIDE DEF m, o
    <3>3. /\ Append(received, m) \in Seq(Nat) /\ Len(Append(received, m)) = o + 1
          /\ \A i \in 1 .. o : Append(received, m)[i] = received[i]
          /\ Append(received, m)[o + 1] = m
      BY <3>1, <3>2, AppendProperties DEF o
    <3>4. \A i \in 1 .. o + 1 : Append(received, m)[i] = message[i]
      BY <3>1, <3>2, <3>3 DEF m, o
    <3>5. Out' = o + 1 /\ received' = Append(received, m) /\ message' = message
      BY <1>1, <1>7, <2>1 DEF o, m
    <3> QED
      BY <3>3, <3>4, <3>5 DEF WordsKept
  <2> QED
    BY <1>5, <1>6, <2>2, <2>3 DEF PipeIInv
<1>8. CASE /\ tx_bits' # <<>> /\ received' = received /\ rx' \in Seq(Bits)
           /\ rx' \o tx_bits' = Frame(message[Out + 1], config)
  <2>1. Out' = Out
    BY <1>1, <1>2, <1>8 DEF Out
  <2>2. FrameKept' /\ WordsKept'
    BY <1>1, <1>8, <2>1 DEF PipeIInv, FrameKept, WordsKept
  <2> QED
    BY <1>5, <1>6, <2>2 DEF PipeIInv
<1> QED
  BY <1>7, <1>8, ShiftSteps

\* What the thread has cut and the handler has taken, bit by bit: the words received
\* are those of the message up to the one under way, which is on both ends of the line.
THEOREM PipeInvariance == SafeSpec => []PipeIInv
<1>1. Init => PipeIInv
  <2> SUFFICES ASSUME Init PROVE PipeIInv
    OBVIOUS
  <2>1. Len(message) = 0 /\ Len(data) = 0 /\ pc = "unconfigured" /\ tx_bits = <<>>
    BY DEF Init
  <2>2. Before = 0 /\ Taken = 0
    BY <2>1 DEF Before, Taken
  <2>3. Out = 0
    BY <2>1, <2>2 DEF Out
  <2>4. CallKept
    BY <2>1 DEF Init, CallKept
  <2>5. ChunkKept /\ FrameKept
    BY <2>1 DEF Init, ChunkKept, FrameKept
  <2>6. WordsKept
    BY <2>3 DEF Init, WordsKept
  <2> QED
    BY <2>4, <2>5, <2>6 DEF PipeIInv
<1>2. IInv /\ IInv' /\ PipeIInv /\ [Next]_vars => PipeIInv'
  <2> SUFFICES ASSUME IInv, IInv', PipeIInv, [Next]_vars PROVE PipeIInv'
    OBVIOUS
  <2>1. ASSUME NEW c \in Configs, Configure(c) PROVE PipeIInv'
    <3>1. /\ pc \in {"unconfigured", "idle"} /\ pc' = "idle" /\ config' = c /\ tx_bits = <<>>
          /\ UNCHANGED <<port, data, message, isr, receiver>>
      BY <2>1 DEF Configure, IInv, BufferOwned
    <3>2. UNCHANGED <<Before, Taken, Out>>
      BY <3>1 DEF Before, Taken, Out, port
    <3>3. CallKept' /\ ChunkKept' /\ FrameKept' /\ WordsKept'
      BY <3>1, <3>2
         DEF PipeIInv, CallKept, ChunkKept, FrameKept, WordsKept, port, receiver
    <3> QED
      BY <3>3 DEF PipeIInv
  <2>2. ASSUME NEW m \in Messages, TxBytes(m) PROVE PipeIInv'
    <3>1. /\ pc = "idle" /\ pc' = "loop" /\ data' = m /\ message' = m /\ received' = <<>>
          /\ tx_bits = <<>> /\ tx_bits' = <<>> /\ rx' = rx /\ config' = config
      BY <2>2 DEF TxBytes, port, IInv, BufferOwned
    <3>2. m \in Seq(Nat) /\ Len(m) \in Nat
      BY UartAssumption
    <3>3. Before' = 0 /\ Taken' = 0
      BY <3>1, <3>2 DEF Before, Taken
    <3>4. Out' = 0
      BY <3>1, <3>3 DEF Out
    <3>5. CallKept'
      BY <3>1, <3>2, <3>3 DEF PipeIInv, CallKept
    <3>6. ChunkKept' /\ FrameKept'
      BY <3>1 DEF PipeIInv, ChunkKept, FrameKept
    <3>7. WordsKept'
      BY <3>1, <3>4 DEF WordsKept
    <3> QED
      BY <3>5, <3>6, <3>7 DEF PipeIInv
  <2>3. CASE SetupTx \/ Publish
    BY <2>3, CutChunks
  <2>4. CASE Waited
    BY <2>4, DropChunk
  <2>5. CASE Return
    <3>1. /\ pc = "loop" /\ pc' = "idle" /\ data = <<>> /\ tx_bits = <<>>
          /\ UNCHANGED <<config, port, data, message, isr, receiver>>
      BY <2>5 DEF Return, IInv, BufferOwned
    <3>2. UNCHANGED <<Before, Taken, Out>>
      BY <3>1 DEF Before, Taken, Out, port
    <3>3. CallKept' /\ ChunkKept' /\ FrameKept' /\ WordsKept'
      BY <3>1, <3>2
         DEF PipeIInv, CallKept, ChunkKept, FrameKept, WordsKept, port, receiver
    <3> QED
      BY <3>3 DEF PipeIInv
  <2>6. CASE TickLoad
    BY <2>6, LoadWord
  <2>7. CASE TickShift
    BY <2>7, ShiftBit
  <2>8. CASE TickIdle \/ TickFinish \/ TickFinishLine
    <3>1. UNCHANGED <<receiver, config, tx_buffer, tx_remaining, tx_bits, caller>>
      <4>1. CASE TickFinish
        BY <4>1 DEF TickFinish
      <4>2. CASE TickIdle \/ TickFinishLine
        BY <4>2, RestIsIgnored DEF TickIdle, TickFinishLine, port
      <4> QED
        BY <2>8, <4>1, <4>2
    <3>2. UNCHANGED <<Before, Taken, Out, Consume>>
      BY <3>1 DEF Before, Taken, Out, Consume, caller
    <3>3. tx_bits = <<>> /\ (tx_in_progress' # tx_in_progress => tx_remaining = 0)
      BY <2>8 DEF TickIdle, TickFinish, TickFinishLine, IInv, Drained, PipeIInv, ChunkKept, port
    <3>4. CallKept' /\ FrameKept' /\ WordsKept'
      BY <3>1, <3>2 DEF PipeIInv, CallKept, FrameKept, WordsKept, caller, receiver
    <3>5. ChunkKept'
      BY <3>1, <3>2, <3>3 DEF PipeIInv, ChunkKept, caller
    <3> QED
      BY <3>4, <3>5 DEF PipeIInv
  <2>9. ASSUME UNCHANGED vars PROVE PipeIInv'
    <3>1. UNCHANGED <<Before, Taken, Out, Consume>>
      BY <2>9 DEF Before, Taken, Out, Consume, vars, port, caller
    <3> QED
      BY <2>9, <3>1 DEF PipeIInv, CallKept, ChunkKept, FrameKept, WordsKept,
                        vars, port, caller, receiver
  <2> QED
    BY <2>1, <2>2, <2>3, <2>4, <2>5, <2>6, <2>7, <2>8, <2>9 DEF Next, Caller, Tick
<1> QED
  BY <1>1, <1>2, Invariance, PTL DEF SafeSpec

\* Every step of thread, interrupt and receiver is one of the pipe's, or none: a call
\* sends, the last bit of a frame is an arrival, and tx_bytes returns when all arrived.
THEOREM PipeStep ==
  IInv /\ PipeIInv /\ [Next]_vars => [Pipe!Next]_(Pipe!vars)
<1> SUFFICES ASSUME IInv, PipeIInv, [Next]_vars PROVE [Pipe!Next]_(Pipe!vars)
  OBVIOUS
<1> DEFINE busy == pc \notin {"unconfigured", "idle"}
<1>1. ASSUME NEW c \in Configs, Configure(c) PROVE UNCHANGED Pipe!vars
  BY <1>1 DEF Configure, Pipe!vars, receiver
<1>2. ASSUME NEW m \in Messages, TxBytes(m) PROVE Pipe!Next
  BY <1>2 DEF TxBytes, Pipe!Next, Pipe!Send
<1>3. CASE SetupTx \/ Publish \/ Waited
  BY <1>3 DEF SetupTx, Publish, Waited, Pipe!vars, receiver
<1>4. CASE Return
  <2>1. data = <<>> /\ pc = "loop" /\ tx_bits = <<>> /\ pc' = "idle"
        /\ UNCHANGED <<message, receiver>>
    BY <1>4 DEF Return, IInv, BufferOwned
  <2>2. Len(data) = 0 /\ Len(message) \in Nat
    BY <2>1, UnderWay
  <2>3. Out = Len(message)
    BY <2>1, <2>2, UnderWay
  <2>4. received = message
    BY <2>3, SeqEqual DEF PipeIInv, WordsKept, CallKept
  <2>5. Pipe!Return
    BY <2>1, <2>4 DEF Pipe!Return, receiver
  <2> QED
    BY <2>5 DEF Pipe!Next
<1>5. CASE TickShift
  <2>1. UNCHANGED <<message, pc>> /\ pc = "wait"
    BY <1>5, UnderWay DEF TickShift, caller
  <2>2. Len(received) = Out /\ Out + 1 \in 1 .. Len(message) /\ Len(message) \in Nat /\ Out \in Nat
    BY <1>5, UnderWay DEF TickShift, PipeIInv, WordsKept
  <2>3. CASE received' = Append(received, message[Out + 1])
    <3>1. Pipe!Arrive
      <4> HIDE DEF Out
      <4> QED
        BY <2>1, <2>2, <2>3 DEF Pipe!Arrive
    <3> QED
      BY <3>1 DEF Pipe!Next
  <2>4. CASE received' = received
    BY <2>1, <2>4 DEF Pipe!vars
  <2> QED
    BY <1>5, <2>3, <2>4, ShiftSteps
<1>6. CASE TickIdle \/ TickLoad \/ TickFinish \/ TickFinishLine
  <2>1. UNCHANGED <<receiver, caller>>
    BY <1>6, RestIsIgnored DEF TickIdle, TickLoad, TickFinish, TickFinishLine
  <2> QED
    BY <2>1 DEF Pipe!vars, receiver, caller
<1>7. ASSUME UNCHANGED vars PROVE UNCHANGED Pipe!vars
  BY <1>7 DEF vars, caller, receiver, Pipe!vars
<1> QED
  BY <1>1, <1>2, <1>3, <1>4, <1>5, <1>6, <1>7 DEF Next, Caller, Tick

\* tx_bytes and the handler implement the pipe, for every buffer size, message and
\* frame format (the safety of ImplementsPipe; that the words do arrive is TLC's).
THEOREM ImplementsPipeSafety == Spec => Pipe!SafeSpec
<1>1. Init => Pipe!Init
  BY DEF Init, Pipe!Init
<1> QED
  BY <1>1, PipeStep, PipeInvariance, Invariance, PTL DEF Spec, SafeSpec, Pipe!SafeSpec
=============================================================================
