------------------------ MODULE PacketManagerProofs -------------------------
(***************************************************************************)
(* PacketManager for every number of orders, of packets, faults and         *)
(* restarts, and every size of the receive buffer: what an endpoint         *)
(* delivered and what it counted as dropped add up to the order of the last *)
(* packet it took; packets come in the order they were sent, none twice;    *)
(* what is counted as dropped was lost; what arrives whole is delivered;    *)
(* and no reset comes without a reason.                                     *)
(***************************************************************************)
EXTENDS PacketManager, FiniteSetTheorems, SequenceTheorems, TLAPS

-----------------------------------------------------------------------------
(* Arithmetic modulo the number of orders.                                 *)

LEMMA Division ==
    ASSUME NEW x \in Int, NEW d \in Nat \ {0}
    PROVE  /\ x \div d \in Int /\ x % d \in 0 .. d - 1
           /\ x = d * (x \div d) + (x % d)
  BY Z3

\* Two remainders of numbers that differ by a multiple of d are the same.
LEMMA SameRemainder ==
    ASSUME NEW d \in Nat \ {0}, NEW r \in 0 .. d - 1, NEW s \in 0 .. d - 1,
           NEW k \in Int, s = r + d * k
    PROVE  r = s
  <1>1. CASE k >= 1
    <2>1. d * k >= d
      BY <1>1, Z3
    <2> QED
      BY <2>1
  <1>2. CASE k <= -1
    <2>1. d * k <= -d
      BY <1>2, Z3
    <2> QED
      BY <2>1
  <1>3. CASE k = 0
    BY <1>3
  <1> QED
    BY <1>1, <1>2, <1>3

LEMMA RemainderOf ==
    ASSUME NEW d \in Nat \ {0}, NEW r \in 0 .. d - 1, NEW x \in Int, NEW k \in Int,
           x = r + d * k
    PROVE  x % d = r
  <1>1. x \div d \in Int /\ x % d \in 0 .. d - 1 /\ x = d * (x \div d) + (x % d)
    BY Division
  <1>2. d * (k - (x \div d)) = d * k - d * (x \div d)
    BY <1>1, Z3
  <1>3. x % d = r + d * (k - (x \div d))
    BY <1>1, <1>2, Z3
  <1> QED
    BY <1>1, <1>3, SameRemainder

\* The sum of the counters once the packet of an order is accepted after another: the
\* gap is counted modulo d, and the packet itself is one more.
LEMMA GapCounted ==
    ASSUME NEW d \in Nat \ {0}, NEW order \in 0 .. d - 1,
           NEW sum \in Nat, NEW total \in Int,
           total = sum + ((order - 1 - (sum % d)) % d) + 1
    PROVE  total % d = order
  <1> DEFINE gap == order - 1 - (sum % d)
             q == sum \div d
             g == gap \div d
  <1>1. q \in Int /\ sum % d \in 0 .. d - 1 /\ sum = d * q + (sum % d)
    BY Division
  <1>2. gap \in Int
    BY <1>1
  <1>3. g \in Int /\ gap % d \in 0 .. d - 1 /\ gap = d * g + (gap % d)
    <2> HIDE DEF gap
    <2> QED
      BY <1>2, Division
  <1> HIDE DEF q, g
  <1>4. d * (q - g) = d * q - d * g
    BY <1>1, <1>3, Z3
  <1>5. total = order + d * (q - g)
    <2>1. total = sum + (gap % d) + 1 /\ gap = order - 1 - (sum % d)
      OBVIOUS
    <2> HIDE DEF gap
    <2> QED
      BY <2>1, <1>1, <1>3, <1>4
  <1>6. q - g \in Int
    BY <1>1, <1>3
  <1> QED
    BY <1>5, <1>6, RemainderOf

-----------------------------------------------------------------------------
(* What the steps do to the types.                                         *)

LEMMA Sizes == OrderMod \in Nat \ {0, 1} /\ 0 \in Orders
  BY PacketAssumption DEF Orders

LEMMA OddBytes == Zero \in Bytes /\ Noise \in Bytes
  BY Sizes DEF Zero, Noise, Part, Bytes

LEMMA PacketBytes ==
    ASSUME NEW id \in Nat, NEW order \in Orders
    PROVE  Packet(id, order) \in [1 .. 3 -> Bytes]
  BY OddBytes DEF Packet, Part, Bytes

LEMMA CopiesTyped ==
    ASSUME NEW id \in Nat, NEW order \in Orders, NEW count \in Nat
    PROVE  Copies(id, order, count) \in Seq(Bytes)
  <1>1. \A i \in 1 .. 3 * count : ((i - 1) % 3) + 1 \in 1 .. 3
    OBVIOUS
  <1>2. \A i \in 1 .. 3 * count : Packet(id, order)[((i - 1) % 3) + 1] \in Bytes
    BY <1>1, PacketBytes
  <1>3. Copies(id, order, count) \in [1 .. 3 * count -> Bytes]
    BY <1>2 DEF Copies
  <1>4. 3 * count \in Nat
    OBVIOUS
  <1> QED
    BY <1>3, <1>4, SeqDef

Readers == [read : Seq(Bytes), delim_match_size : Nat]

LEMMA EmptyTyped == Reader!Empty \in Readers
  <1>1. <<>> \in Seq(Bytes)
    OBVIOUS
  <1> QED
    BY <1>1 DEF Reader!Empty, Readers

LEMMA UpdatedTyped ==
    ASSUME NEW r \in Readers, NEW byte \in Bytes
    PROVE  Reader!Updated(r, byte) \in Readers
  BY DEF Reader!Updated, Readers

\* A byte read is the first of an intact packet: its order is one.
LEMMA IntactTyped ==
    ASSUME NEW bytes \in Seq(Bytes), Intact(bytes)
    PROVE  bytes[1].order \in Orders /\ bytes[1].id \in Nat
  <1>1. Len(bytes) = 3
    BY DEF Intact
  <1>2. bytes[1] \in Bytes
    BY <1>1, ElementOfSeq
  <1> QED
    BY <1>2 DEF Bytes

LEMMA StatsFields ==
    ASSUME NEW s \in Stats
    PROVE  /\ s.current_overruns \in Nat /\ s.total_overruns \in Nat
           /\ s.errors \in Nat /\ s.rx_redundant \in Nat /\ s.rx_dropped \in Nat
           /\ s.rx_packets \in Nat /\ s.state_resets \in Nat
  BY DEF Stats

LEMMA StatsUpdates ==
    ASSUME NEW s \in Stats, NEW n \in Nat
    PROVE  /\ [s EXCEPT !.current_overruns = n] \in Stats
           /\ [s EXCEPT !.total_overruns = n] \in Stats
           /\ [s EXCEPT !.errors = n] \in Stats
           /\ [s EXCEPT !.rx_redundant = n] \in Stats
           /\ [s EXCEPT !.rx_dropped = n] \in Stats
           /\ [s EXCEPT !.rx_packets = n] \in Stats
  BY DEF Stats

LEMMA TotalledTyped == ASSUME NEW s \in Stats PROVE Totalled(s) \in Stats
  <1>1. s.total_overruns + s.current_overruns \in Nat
    BY StatsFields
  <1> QED
    BY <1>1, StatsUpdates DEF Totalled

LEMMA StatsTyped ==
    ASSUME NEW s \in Stats
    PROVE  /\ Overrun(s) \in Stats /\ Error(s) \in Stats /\ Redundant(s) \in Stats
           /\ ResetState(s) \in Stats /\ NoStats \in Stats
           /\ \A order, last \in Orders : Accepted(s, order, last) \in Stats
  <1>1. \A order, last \in Orders : (order - 1 - last) % OrderMod \in Nat
    BY Sizes, Division DEF Orders
  <1>2. Overrun(s) \in Stats
    <2>1. /\ s.current_overruns + 1 \in Nat
          /\ s.total_overruns + s.current_overruns + 1 \in Nat
      BY StatsFields
    <2> DEFINE t == [s EXCEPT !.current_overruns = s.current_overruns + 1]
    <2>2. t \in Stats
      BY <2>1, StatsUpdates
    <2>3. [t EXCEPT !.total_overruns = s.total_overruns + s.current_overruns + 1] \in Stats
      BY <2>1, <2>2, StatsUpdates
    <2> QED
      BY <2>3 DEF Overrun, Stats
  <1>3. Error(s) \in Stats
    <2>1. s.errors + 1 \in Nat
      BY StatsFields
    <2>2. [s EXCEPT !.errors = s.errors + 1] \in Stats
      BY <2>1, StatsUpdates
    <2> QED
      BY <2>2, TotalledTyped DEF Error
  <1>4. Redundant(s) \in Stats
    <2>1. s.rx_redundant + 1 \in Nat
      BY StatsFields
    <2>2. [s EXCEPT !.rx_redundant = s.rx_redundant + 1] \in Stats
      BY <2>1, StatsUpdates
    <2> QED
      BY <2>2, TotalledTyped DEF Redundant
  <1>5. NoStats \in Stats
    BY DEF Stats, NoStats
  <1>6. ResetState(s) \in Stats
    BY DEF Stats, ResetState, NoStats
  <1>7. ASSUME NEW order \in Orders, NEW last \in Orders
        PROVE  Accepted(s, order, last) \in Stats
    <2> DEFINE gap == (order - 1 - last) % OrderMod
               t == [s EXCEPT !.rx_dropped = s.rx_dropped + gap]
    <2>1. s.rx_dropped + gap \in Nat /\ s.rx_packets + 1 \in Nat
      BY <1>1, StatsFields
    <2> HIDE DEF gap
    <2>2. t \in Stats
      BY <2>1, StatsUpdates
    <2>3. [t EXCEPT !.rx_packets = s.rx_packets + 1] \in Stats
      BY <2>1, <2>2, StatsUpdates
    <2>4. [s EXCEPT !.rx_dropped = s.rx_dropped + gap, !.rx_packets = s.rx_packets + 1]
            \in Stats
      BY <2>3 DEF Stats
    <2>5. Totalled([s EXCEPT !.rx_dropped = @ + gap, !.rx_packets = @ + 1]) \in Stats
      BY <2>4, TotalledTyped
    <2> QED
      BY <2>5 DEF Accepted, gap
  <1> QED
    BY <1>2, <1>3, <1>4, <1>5, <1>6, <1>7

\* What the counters of an endpoint add up to.
Total(s) == (s.rx_dropped + s.rx_packets) % OrderMod

LEMMA SumKept ==
    ASSUME NEW s \in Stats
    PROVE  /\ Total(Overrun(s)) = Total(s) /\ Total(Error(s)) = Total(s)
           /\ Total(Redundant(s)) = Total(s)
           /\ Total(ResetState(s)) = 0 /\ Total(NoStats) = 0
  <1>1. 0 % OrderMod = 0
    BY Sizes, RemainderOf DEF Orders
  <1> QED
    BY <1>1 DEF Total, Stats, Overrun, Error, Redundant, Totalled, ResetState, NoStats

LEMMA SumAccepted ==
    ASSUME NEW s \in Stats, NEW order \in Orders, NEW last \in Orders, Total(s) = last
    PROVE  Total(Accepted(s, order, last)) = order
  <1>1. s.rx_dropped \in Nat /\ s.rx_packets \in Nat
    BY DEF Stats
  <1>2. ((s.rx_dropped + ((order - 1 - last) % OrderMod)) + (s.rx_packets + 1)) % OrderMod
          = order
    <2> DEFINE sum == s.rx_dropped + s.rx_packets
               gap == (order - 1 - (sum % OrderMod)) % OrderMod
               total == (s.rx_dropped + gap) + (s.rx_packets + 1)
    <2>1. OrderMod \in Nat \ {0} /\ order \in 0 .. OrderMod - 1 /\ last \in Int
      BY Sizes DEF Orders
    <2>2. sum \in Nat /\ sum % OrderMod = last
      BY <1>1 DEF Total
    <2>3. gap \in Int /\ gap = (order - 1 - last) % OrderMod
      <3>1. order - 1 - last \in Int
        BY <2>1
      <3>2. (order - 1 - last) % OrderMod \in Int
        BY <2>1, <3>1, Division
      <3> QED
        BY <2>2, <3>2
    <2>4. total \in Int /\ total = sum + gap + 1
      <3> HIDE DEF gap
      <3> QED
        BY <1>1, <2>3
    <2>5. total = sum + ((order - 1 - (sum % OrderMod)) % OrderMod) + 1
      BY <2>4
    <2> HIDE DEF sum, total
    <2>6. total % OrderMod = order
      BY <2>1, <2>2, <2>4, <2>5, GapCounted
    <2> QED
      BY <2>3, <2>6 DEF total
  <1>3. /\ Accepted(s, order, last).rx_dropped
             = s.rx_dropped + ((order - 1 - last) % OrderMod)
        /\ Accepted(s, order, last).rx_packets = s.rx_packets + 1
    BY DEF Accepted, Totalled, Stats
  <1> QED
    BY <1>2, <1>3 DEF Total

\* What is only ever counted up.
LEMMA CountersGrow ==
    ASSUME TypeOK, [Next]_vars
    PROVE  /\ restarts' \in [Endpoints -> Nat] /\ sent' \in [Endpoints -> Nat]
           /\ \A x \in Endpoints : restarts[x] <= restarts'[x] /\ sent[x] <= sent'[x]
  <1>0. restarts \in [Endpoints -> Nat] /\ sent \in [Endpoints -> Nat]
    BY DEF TypeOK
  <1>1. \/ restarts' = restarts
        \/ \E p \in Endpoints : restarts' = [restarts EXCEPT ![p] = @ + 1]
    <2>1. ASSUME NEW p \in Endpoints, NEW count \in 0 .. 2, TxPacket(p, count)
          PROVE  restarts' = restarts
      BY <2>1 DEF TxPacket
    <2>2. ASSUME NEW p \in Endpoints, RxByte(p) \/ Lose(p) \/ Corrupt(p)
          PROVE  restarts' = restarts
      BY <2>2 DEF RxByte, Lose, Corrupt
    <2>3. ASSUME NEW p \in Endpoints, Restart(p) \/ Reset(p)
          PROVE  restarts' = [restarts EXCEPT ![p] = @ + 1]
      BY <2>3 DEF Restart, Reset, RestartAllowed
    <2> QED
      BY <2>1, <2>2, <2>3 DEF Next, vars
  <1>2. \/ sent' = sent
        \/ \E p \in Endpoints : sent' = [sent EXCEPT ![p] = @ + 1]
    <2>1. ASSUME NEW p \in Endpoints, NEW count \in 0 .. 2, TxPacket(p, count)
          PROVE  sent' = [sent EXCEPT ![p] = @ + 1]
      BY <2>1 DEF TxPacket
    <2>2. ASSUME NEW p \in Endpoints, RxByte(p) \/ Lose(p) \/ Corrupt(p)
          PROVE  sent' = sent
      BY <2>2 DEF RxByte, Lose, Corrupt
    <2>3. ASSUME NEW p \in Endpoints, Restart(p) \/ Reset(p) PROVE sent' = sent
      BY <2>3 DEF Restart, Reset
    <2> QED
      BY <2>1, <2>2, <2>3 DEF Next, vars
  <1>3. ASSUME NEW f \in [Endpoints -> Nat], NEW g,
               g = f \/ \E p \in Endpoints : g = [f EXCEPT ![p] = @ + 1]
        PROVE  g \in [Endpoints -> Nat] /\ \A x \in Endpoints : f[x] <= g[x]
    BY <1>3
  <1> QED
    BY <1>0, <1>1, <1>2, <1>3

LEMMA HeardTyped ==
    ASSUME TypeOK, [Next]_vars
    PROVE  heard' \in [Endpoints -> Seq(Bytes)]
  <1>0. heard \in [Endpoints -> Seq(Bytes)] /\ <<>> \in Seq(Bytes)
    BY DEF TypeOK
  <1>1. ASSUME NEW p \in Endpoints, NEW count \in 0 .. 2, TxPacket(p, count)
        PROVE  heard' = heard
    BY <1>1 DEF TxPacket
  <1>2. ASSUME NEW p \in Endpoints, RxByte(p) PROVE heard' \in [Endpoints -> Seq(Bytes)]
    <2>1. line[p] \in Seq(Bytes) /\ line[p] # <<>>
      BY <1>2 DEF RxByte, TypeOK
    <2>2. Head(line[p]) \in Bytes
      BY <2>1, HeadTailProperties
    <2>3. heard[p] \in Seq(Bytes)
      BY <1>0
    <2>4. Append(heard[p], Head(line[p])) \in Seq(Bytes)
      BY <2>2, <2>3
    <2> QED
      BY <1>0, <1>2, <2>4 DEF RxByte
  <1>3. ASSUME NEW p \in Endpoints, Lose(p) \/ Corrupt(p) PROVE heard' = heard
    BY <1>3 DEF Lose, Corrupt
  <1>4. ASSUME NEW p \in Endpoints, Restart(p) \/ Reset(p)
        PROVE  heard' \in [Endpoints -> Seq(Bytes)]
    BY <1>0, <1>4 DEF Restart, Reset
  <1> QED
    BY <1>0, <1>1, <1>2, <1>3, <1>4 DEF Next, vars

-----------------------------------------------------------------------------
\* Packetman.hpp:93-113, 189-248: the counters of either end add up to the order of the
\* last packet it took.  That the orders it compares are orders at all needs the types
\* of the bytes in the reader and on the line, which TypeOK carries through every step.
THEOREM Invariance == Spec => []IInv
<1> USE DEF IInv
<1>1. Init => IInv
  <2> SUFFICES ASSUME Init PROVE IInv
    OBVIOUS
  <2>1. <<>> \in Seq(Bytes) /\ <<>> \in Seq(Nat)
    OBVIOUS
  <2>2. NoStats \in Stats
    BY DEF NoStats, Stats
  <2>3. TypeOK
    BY <2>1, <2>2, Sizes, EmptyTyped DEF Init, TypeOK, Readers
  <2>4. Total(NoStats) = 0
    BY <2>2, SumKept
  <2> QED
    BY <2>3, <2>4 DEF Init, Accounting, Total
<1>2. IInv /\ [Next]_vars => IInv'
  <2> SUFFICES ASSUME IInv, [Next]_vars PROVE IInv'
    OBVIOUS
  <2>0. restarts' \in [Endpoints -> Nat] /\ heard' \in [Endpoints -> Seq(Bytes)]
    BY CountersGrow, HeardTyped
  <2> USE DEF TypeOK
  <2>1. ASSUME NEW p \in Endpoints, NEW count \in 0 .. 2, TxPacket(p, count)
        PROVE  IInv'
    <3> DEFINE order == (last_sent[p] + 1) % OrderMod
    <3>1. order \in Orders
      <4>1. last_sent[p] + 1 \in Int /\ OrderMod \in Nat \ {0}
        BY Sizes DEF Orders
      <4>2. (last_sent[p] + 1) % OrderMod \in 0 .. OrderMod - 1
        BY <4>1, Division
      <4> QED
        BY <4>2 DEF Orders
    <3> HIDE DEF order
    <3>2. sent[p] + 1 \in Nat /\ Peer(p) \in Endpoints /\ count \in Nat
      BY PacketAssumption
    <3>3. Copies(sent[p] + 1, order, count) \in Seq(Bytes)
      BY <3>1, <3>2, CopiesTyped
    <3>4. line[Peer(p)] \o Copies(sent[p] + 1, order, count) \in Seq(Bytes)
      BY <3>2, <3>3, ConcatProperties
    <3>5. /\ line' = [line EXCEPT ![Peer(p)] = @ \o Copies(sent[p] + 1, order, count)]
          /\ last_sent' = [last_sent EXCEPT ![p] = order]
          /\ sent' = [sent EXCEPT ![p] = sent[p] + 1]
          /\ UNCHANGED <<last_received, stats, rx_reader, delivered>>
      BY <2>1 DEF TxPacket, order
    <3>6. TypeOK'
      BY <2>0, <3>1, <3>2, <3>4, <3>5
    <3> QED
      BY <3>5, <3>6 DEF Accounting
  <2>2. ASSUME NEW p \in Endpoints, RxByte(p) PROVE IInv'
    <3> DEFINE byte == Head(line[p])
               bytes == rx_reader[p].read
               first == bytes[1]
               last == last_received[p]
               s == stats[p]
    <3>1. /\ byte \in Bytes
          /\ line' \in [Endpoints -> Seq(Bytes)]
          /\ sent' = sent
      <4>1. line[p] \in Seq(Bytes) /\ line[p] # <<>>
        BY <2>2 DEF RxByte
      <4>2. byte \in Bytes /\ Tail(line[p]) \in Seq(Bytes)
        BY <4>1, HeadTailProperties
      <4> QED
        BY <2>2, <4>2 DEF RxByte
    <3>2. s \in Stats /\ last \in Orders /\ Total(s) = last
      BY DEF Accounting, Total
    <3>3. rx_reader[p] \in Readers
      BY DEF Readers
    <3>4. CASE /\ rx_reader' = [rx_reader EXCEPT ![p] = Reader!Updated(@, byte)]
               /\ UNCHANGED <<last_sent, last_received, stats, delivered>>
      <4>1. Reader!Updated(rx_reader[p], byte) \in Readers
        BY <3>1, <3>3, UpdatedTyped
      <4>2. TypeOK'
        BY <2>0, <3>1, <3>4, <4>1 DEF Readers
      <4> QED
        BY <3>4, <4>2 DEF Accounting
    <3>5. CASE rx_reader' = [rx_reader EXCEPT ![p] = ReaderAfter(byte)] /\ Finish(p)
      <4>1. ReaderAfter(byte) \in Readers
        BY <3>1, EmptyTyped, UpdatedTyped DEF ReaderAfter
      <4>2. rx_reader' \in [Endpoints -> Readers]
        BY <3>5, <4>1 DEF Readers
      <4>3. ASSUME NEW t \in Stats, NEW o \in Orders, NEW l \in Orders,
                   stats' = [stats EXCEPT ![p] = t],
                   last_received' = [last_received EXCEPT ![p] = o],
                   last_sent' = [last_sent EXCEPT ![p] = l],
                   delivered' \in [Endpoints -> Seq(Nat)], Total(t) = o
            PROVE  IInv'
        <5>1. TypeOK'
          BY <2>0, <3>1, <4>2, <4>3 DEF Readers
        <5>2. Accounting'
          BY <4>3 DEF Accounting, Total
        <5> QED
          BY <5>1, <5>2
      <4>4. ASSUME NEW t \in Stats, stats' = [stats EXCEPT ![p] = t], Discard,
                   Total(t) = Total(s)
            PROVE  IInv'
        <5>1. /\ last_received' = [last_received EXCEPT ![p] = last]
              /\ last_sent' = [last_sent EXCEPT ![p] = last_sent[p]]
          BY <4>4 DEF Discard
        <5>2. last_sent[p] \in Orders /\ delivered' \in [Endpoints -> Seq(Nat)]
          BY <4>4 DEF Discard
        <5> QED
          BY <3>2, <4>3, <4>4, <5>1, <5>2
      <4>10. ASSUME Intact(bytes), Deliver(p, first)
             PROVE  delivered' \in [Endpoints -> Seq(Nat)]
        <5>1. first.id \in Nat /\ delivered[p] \in Seq(Nat)
          BY <4>10, IntactTyped
        <5> HIDE DEF first
        <5>2. Append(delivered[p], first.id) \in Seq(Nat)
          BY <5>1
        <5> QED
          BY <4>10, <5>2 DEF Deliver
      <4>5. CASE stats' = [stats EXCEPT ![p] = Overrun(@)] /\ Discard
        BY <3>2, <4>4, <4>5, StatsTyped, SumKept
      <4>6. CASE stats' = [stats EXCEPT ![p] = Error(@)] /\ Discard
        BY <3>2, <4>4, <4>6, StatsTyped, SumKept
      <4>7. CASE stats' = [stats EXCEPT ![p] = Redundant(@)] /\ Discard
        BY <3>2, <4>4, <4>7, StatsTyped, SumKept
      <4>8. CASE /\ Intact(bytes)
                 /\ stats' = [stats EXCEPT ![p] = Accepted(@, first.order, last)]
                 /\ Deliver(p, first)
                 /\ UNCHANGED last_sent
        <5>1. first.order \in Orders
          BY <4>8, IntactTyped
        <5>2. Total(Accepted(s, first.order, last)) = first.order
          BY <3>2, <5>1, SumAccepted
        <5>3. Accepted(s, first.order, last) \in Stats
          BY <3>2, <5>1, StatsTyped
        <5>4. last_sent' = [last_sent EXCEPT ![p] = last_sent[p]] /\ last_sent[p] \in Orders
          BY <4>8
        <5> HIDE DEF first, s, last
        <5>5. last_received' = [last_received EXCEPT ![p] = first.order]
          BY <4>8 DEF Deliver
        <5>6. stats' = [stats EXCEPT ![p] = Accepted(s, first.order, last)]
          BY <4>8 DEF s
        <5>7. delivered' \in [Endpoints -> Seq(Nat)]
          BY <4>8, <4>10 DEF first
        <5> QED
          BY <4>3, <5>7, <5>1, <5>2, <5>3, <5>4, <5>5, <5>6
      <4>9. CASE /\ Intact(bytes)
                 /\ last_sent' = [last_sent EXCEPT ![p] = 0]
                 /\ stats' = [stats EXCEPT ![p] = Accepted(ResetState(@), first.order, 0)]
                 /\ Deliver(p, first)
        <5>1. first.order \in Orders
          BY <4>9, IntactTyped
        <5>2. ResetState(s) \in Stats /\ Total(ResetState(s)) = 0 /\ 0 \in Orders
          BY <3>2, StatsTyped, SumKept, Sizes
        <5>3. /\ Total(Accepted(ResetState(s), first.order, 0)) = first.order
              /\ Accepted(ResetState(s), first.order, 0) \in Stats
          BY <5>1, <5>2, SumAccepted, StatsTyped
        <5> HIDE DEF first, s
        <5>4. last_received' = [last_received EXCEPT ![p] = first.order]
          BY <4>9 DEF Deliver
        <5>5. stats' = [stats EXCEPT ![p] = Accepted(ResetState(s), first.order, 0)]
          BY <4>9 DEF s
        <5>6. delivered' \in [Endpoints -> Seq(Nat)]
          BY <4>9, <4>10 DEF first
        <5> QED
          BY <4>3, <5>6, <4>9, <5>1, <5>2, <5>3, <5>4, <5>5
      <4> QED
        BY <3>5, <4>5, <4>6, <4>7, <4>8, <4>9 DEF Finish
    <3> QED
      BY <2>2, <3>4, <3>5 DEF RxByte
  <2>3. ASSUME NEW p \in Endpoints, Lose(p) PROVE IInv'
    <3>1. Tail(line[p]) \in Seq(Bytes)
      BY <2>3, HeadTailProperties DEF Lose
    <3>2. line' \in [Endpoints -> Seq(Bytes)]
      BY <2>3, <3>1 DEF Lose
    <3> QED
      BY <2>0, <2>3, <3>2 DEF Lose, Accounting
  <2>4. ASSUME NEW p \in Endpoints, Corrupt(p) PROVE IInv'
    <3>1. PICK byte \in {Noise, Zero} : line' = [line EXCEPT ![p] = <<byte>> \o Tail(@)]
      BY <2>4 DEF Corrupt
    <3>2. <<byte>> \in Seq(Bytes)
      BY OddBytes
    <3>3. Tail(line[p]) \in Seq(Bytes)
      BY <2>4, HeadTailProperties DEF Corrupt
    <3>4. <<byte>> \o Tail(line[p]) \in Seq(Bytes)
      BY <3>2, <3>3, ConcatProperties
    <3>5. line' \in [Endpoints -> Seq(Bytes)]
      BY <3>1, <3>4
    <3> QED
      BY <2>0, <2>4, <3>5 DEF Corrupt, Accounting
  <2>5. ASSUME NEW p \in Endpoints, Restart(p) PROVE IInv'
    <3>1. NoStats \in Stats /\ Total(NoStats) = 0 /\ 0 \in Orders
      <4>1. NoStats \in Stats
        BY DEF NoStats, Stats
      <4> QED
        BY <4>1, SumKept, Sizes
    <3>2. TypeOK'
      <4>1. <<>> \in Seq(Nat)
        OBVIOUS
      <4> QED
        BY <2>0, <2>5, <3>1, <4>1, EmptyTyped DEF Restart, Readers
    <3> QED
      BY <2>5, <3>1, <3>2 DEF Restart, Accounting, Total
  <2>6. ASSUME NEW p \in Endpoints, Reset(p) PROVE IInv'
    <3>1. /\ ResetState(stats[p]) \in Stats /\ Total(ResetState(stats[p])) = 0
          /\ 0 \in Orders
      BY StatsTyped, SumKept, Sizes
    <3>2. TypeOK'
      <4>1. <<>> \in Seq(Nat)
        OBVIOUS
      <4> QED
        BY <2>0, <2>6, <3>1, <4>1 DEF Reset
    <3> QED
      BY <2>6, <3>1, <3>2 DEF Reset, Accounting, Total
  <2>7. CASE UNCHANGED vars
    BY <2>7 DEF vars, Accounting
  <2> QED
    BY <2>1, <2>2, <2>3, <2>4, <2>5, <2>6, <2>7 DEF Next
<1> QED
  BY <1>1, <1>2, PTL DEF Spec

\* What an endpoint delivered and what it counted as dropped add up, modulo the number
\* of orders, to the order of the last packet it took: through every loss, copy, restart
\* and wrap.
THEOREM AccountsAddUp == Spec => []Accounting
<1>1. IInv => Accounting
  BY DEF IInv
<1> QED
  BY <1>1, Invariance, PTL

-----------------------------------------------------------------------------
(* The order of delivery.  No step makes a packet overtake another on its   *)
(* way, so what is still to be read stays in the order it was sent, behind  *)
(* what was delivered.                                                      *)

LEMMA Joined ==
    ASSUME NEW r \in Seq(Bytes), NEW l \in Seq(Bytes)
    PROVE  /\ r \o l \in Seq(Bytes)
           /\ Len(r) \in Nat /\ Len(l) \in Nat
           /\ Len(r \o l) = Len(r) + Len(l)
           /\ \A i \in 1 .. Len(r) : (r \o l)[i] = r[i]
           /\ \A i \in 1 .. Len(l) : (r \o l)[Len(r) + i] = l[i]
  <1>1. \A i \in 1 .. Len(l) : Len(r) + i > Len(r) /\ Len(r) + i \in 1 .. Len(r) + Len(l)
    OBVIOUS
  <1> QED
    BY <1>1, ConcatProperties

LEMMA Regrouped ==
    ASSUME NEW r \in Seq(Bytes), NEW l \in Seq(Bytes), NEW t \in Seq(Bytes)
    PROVE  r \o (l \o t) = (r \o l) \o t
  BY ConcatAssociative, SMTT(60)

LEMMA AppendedByte ==
    ASSUME NEW r \in Seq(Bytes), NEW byte \in Bytes
    PROVE  Append(r, byte) = r \o <<byte>>
  BY AppendProperties

LEMMA Lengthened ==
    ASSUME NEW d \in Seq(Nat), NEW x \in Nat
    PROVE  LET e == Append(d, x)
           IN  /\ Len(e) = Len(d) + 1 /\ e[Len(d) + 1] = x /\ e # <<>>
               /\ \A i \in 1 .. Len(d) : e[i] = d[i] /\ d[i] \in Nat
  <1>1. \A i \in 1 .. Len(d) : d[i] \in Nat
    OBVIOUS
  <1>2. Len(Append(d, x)) = Len(d) + 1 /\ Append(d, x)[Len(d) + 1] = x
    OBVIOUS
  <1>3. \A i \in 1 .. Len(d) : Append(d, x)[i] = d[i]
    OBVIOUS
  <1>4. Append(d, x) # <<>>
    BY <1>2
  <1> QED
    BY <1>1, <1>2, <1>3, <1>4

LEMMA TailOf ==
    ASSUME NEW l \in Seq(Bytes), l # <<>>
    PROVE  /\ Head(l) = l[1] /\ Head(l) \in Bytes
           /\ Tail(l) \in Seq(Bytes) /\ Len(l) \in Nat \ {0} /\ Len(Tail(l)) = Len(l) - 1
           /\ \A i \in 1 .. Len(Tail(l)) : Tail(l)[i] = l[i + 1]
  BY HeadTailProperties

\* t is what is left of s when some of its bytes are taken away and others spoiled.
Thins(t, s) ==
    \E m \in [1 .. Len(t) -> 1 .. Len(s)] :
        /\ \A i, j \in 1 .. Len(t) : i < j => m[i] < m[j]
        /\ \A i \in 1 .. Len(t) : t[i] = s[m[i]] \/ ~Body(t[i])

LEMMA ThinnedAscends ==
    ASSUME NEW s \in Seq(Bytes), NEW t \in Seq(Bytes), Thins(t, s), Ascending(s)
    PROVE  Ascending(t)
  <1>1. PICK m \in [1 .. Len(t) -> 1 .. Len(s)] :
               /\ \A i, j \in 1 .. Len(t) : i < j => m[i] < m[j]
               /\ \A i \in 1 .. Len(t) : t[i] = s[m[i]] \/ ~Body(t[i])
    BY DEF Thins
  <1>2. ASSUME NEW i \in 1 .. Len(t), NEW j \in 1 .. Len(t), i < j
        PROVE  NotBefore(t[i], t[j])
    <2>1. m[i] \in 1 .. Len(s) /\ m[j] \in 1 .. Len(s) /\ m[i] < m[j]
      BY <1>1, <1>2
    <2>2. NotBefore(s[m[i]], s[m[j]])
      BY <2>1 DEF Ascending
    <2> QED
      BY <1>1, <2>2 DEF NotBefore
  <1> QED
    BY <1>2 DEF Ascending

LEMMA StreamTyped ==
    ASSUME TypeOK, NEW p \in Endpoints
    PROVE  /\ rx_reader[p].read \in Seq(Bytes) /\ line[p] \in Seq(Bytes)
           /\ Stream(p) \in Seq(Bytes) /\ Len(Stream(p)) \in Nat
           /\ Len(Stream(p)) = Len(rx_reader[p].read) + Len(line[p])
           /\ Peer(p) \in Endpoints /\ sent[p] \in Nat /\ sent[Peer(p)] \in Nat
  <1>1. rx_reader[p].read \in Seq(Bytes) /\ line[p] \in Seq(Bytes)
    BY DEF TypeOK
  <1>2. Peer(p) \in Endpoints
    BY PacketAssumption
  <1>3. sent[p] \in Nat /\ sent[Peer(p)] \in Nat
    BY <1>2 DEF TypeOK
  <1> QED
    BY <1>1, <1>2, <1>3, Joined DEF Stream

\* What is left of the stream keeps the order when nothing is delivered.
LEMMA ThinnedKeeps ==
    ASSUME TypeOK, TypeOK', NEW p \in Endpoints, OrderKept(p),
           Thins(Stream(p)', Stream(p)),
           delivered'[p] = delivered[p], last_received'[p] = last_received[p],
           sent'[Peer(p)] = sent[Peer(p)]
    PROVE  OrderKept(p)'
  <1>1. Stream(p) \in Seq(Bytes) /\ Stream(p)' \in Seq(Bytes)
    <2>1. rx_reader'[p].read \in Seq(Bytes) /\ line'[p] \in Seq(Bytes)
      BY DEF TypeOK
    <2> QED
      BY <2>1, StreamTyped, Joined DEF Stream
  <1>2. Ascending(Stream(p)')
    BY <1>1, ThinnedAscends DEF OrderKept
  <1>3. ASSUME NEW i \in 1 .. Len(Stream(p)') PROVE Due(p, Stream(p)[i])'
    <2>1. PICK m \in [1 .. Len(Stream(p)') -> 1 .. Len(Stream(p))] :
               \A k \in 1 .. Len(Stream(p)') :
                  Stream(p)'[k] = Stream(p)[m[k]] \/ ~Body(Stream(p)'[k])
      BY DEF Thins
    <2>2. CASE Stream(p)'[i] = Stream(p)[m[i]]
      <3>1. Due(p, Stream(p)[m[i]])
        BY <2>1 DEF OrderKept
      <3> QED
        BY <2>2, <3>1 DEF Due
    <2>3. CASE ~Body(Stream(p)'[i])
      BY <2>3 DEF Due
    <2> QED
      BY <2>1, <2>2, <2>3
  <1> QED
    BY <1>2, <1>3 DEF OrderKept

LEMMA ThinsItself == ASSUME NEW s \in Seq(Bytes) PROVE Thins(s, s)
  <1> DEFINE m == [i \in 1 .. Len(s) |-> i]
  <1>1. /\ m \in [1 .. Len(s) -> 1 .. Len(s)]
        /\ \A i, j \in 1 .. Len(s) : i < j => m[i] < m[j]
        /\ \A i \in 1 .. Len(s) : s[i] = s[m[i]]
    OBVIOUS
  <1> QED
    BY <1>1 DEF Thins

\* Whoever neither reads nor is sent anything.
LEMMA UntouchedKeeps ==
    ASSUME TypeOK, TypeOK', NEW p \in Endpoints, OrderKept(p),
           rx_reader'[p] = rx_reader[p], line'[p] = line[p],
           delivered'[p] = delivered[p], last_received'[p] = last_received[p],
           sent'[Peer(p)] = sent[Peer(p)]
    PROVE  OrderKept(p)'
  <1>1. Stream(p)' = Stream(p)
    BY DEF Stream
  <1>2. Thins(Stream(p)', Stream(p))
    BY <1>1, StreamTyped, ThinsItself
  <1> QED
    BY <1>2, ThinnedKeeps

LEMMA CopiesAre ==
    ASSUME NEW id \in Nat, NEW order \in Orders, NEW count \in Nat
    PROVE  /\ Copies(id, order, count) \in Seq(Bytes)
           /\ \A i \in 1 .. Len(Copies(id, order, count)) :
                LET c == Copies(id, order, count)[i]
                IN  Body(c) => c.id = id /\ c.order = order
  <1>1. Copies(id, order, count) \in Seq(Bytes) /\ 3 * count \in Nat
    BY CopiesTyped
  <1>2. Len(Copies(id, order, count)) = 3 * count
    BY <1>1 DEF Copies
  <1>3. ASSUME NEW i \in 1 .. 3 * count
        PROVE  LET c == Copies(id, order, count)[i]
               IN  Body(c) => c.id = id /\ c.order = order
    <2>1. ((i - 1) % 3) + 1 \in 1 .. 3
      OBVIOUS
    <2>2. Copies(id, order, count)[i] = Packet(id, order)[((i - 1) % 3) + 1]
      BY <1>3 DEF Copies
    <2>3. \A k \in 1 .. 3 : Packet(id, order)[k] \in { Part(id, order, 1), Part(id, order, 2), Zero }
      BY DEF Packet
    <2>4. PICK c \in { Part(id, order, 1), Part(id, order, 2), Zero } :
                 c = Copies(id, order, count)[i]
      BY <2>1, <2>2, <2>3
    <2>5. Body(c) => c.id = id /\ c.order = order
      BY <2>4 DEF Body, Part, Zero
    <2> QED
      BY <2>4, <2>5
  <1> QED
    BY <1>1, <1>2, <1>3

\* A packet joins the end of the stream.
LEMMA SendingJoins ==
    ASSUME TypeOK, NEW p \in Endpoints, NEW count \in 0 .. 2, TxPacket(p, count)
    PROVE  LET order == (last_sent[p] + 1) % OrderMod
               id == sent[p] + 1
               c == Copies(id, order, count)
           IN  /\ id \in Nat /\ order \in Orders /\ sent'[p] = id
               /\ c \in Seq(Bytes)
               /\ \A i \in 1 .. Len(c) : Body(c[i]) => c[i].id = id /\ c[i].order = order
               /\ Stream(Peer(p))' = Stream(Peer(p)) \o c
               /\ \A q \in Endpoints \ {Peer(p)} : Stream(q)' = Stream(q)
  <1> DEFINE q == Peer(p)
             order == (last_sent[p] + 1) % OrderMod
             id == sent[p] + 1
             c == Copies(id, order, count)
             s == Stream(q)
  <1>0. q \in Endpoints /\ rx_reader' = rx_reader
    BY PacketAssumption DEF TxPacket
  <1>1. id \in Nat /\ order \in Orders /\ count \in Nat /\ sent'[p] = id
    <2>1. last_sent[p] + 1 \in Int /\ OrderMod \in Nat \ {0}
      <3>1. last_sent[p] \in Orders
        BY DEF TypeOK
      <3> QED
        BY <3>1, Sizes DEF Orders
    <2>2. (last_sent[p] + 1) % OrderMod \in 0 .. OrderMod - 1
      BY <2>1, Division
    <2>3. sent[p] + 1 \in Nat /\ sent'[p] = sent[p] + 1
      <3>1. sent[p] \in Nat /\ sent \in [Endpoints -> Nat]
        BY DEF TypeOK
      <3> QED
        BY <3>1 DEF TxPacket
    <2> QED
      BY <2>2, <2>3 DEF Orders
  <1> HIDE DEF order
  <1>2. /\ c \in Seq(Bytes)
        /\ \A i \in 1 .. Len(c) : Body(c[i]) => c[i].id = id /\ c[i].order = order
    BY <1>1, CopiesAre
  <1>3. line' = [line EXCEPT ![q] = line[q] \o c]
    BY DEF TxPacket, order
  <1> HIDE DEF c, q
  <1>4. s \in Seq(Bytes) /\ rx_reader[q].read \in Seq(Bytes) /\ line[q] \in Seq(Bytes)
    BY <1>0, StreamTyped
  <1>5. Stream(q)' = s \o c
    <2>1. rx_reader[q].read \o (line[q] \o c) = (rx_reader[q].read \o line[q]) \o c
      BY <1>2, <1>4, Regrouped
    <2>2. line'[q] = line[q] \o c
      BY <1>0, <1>3 DEF TypeOK
    <2> QED
      BY <1>0, <2>1, <2>2 DEF Stream
  <1>6. \A x \in Endpoints \ {q} : Stream(x)' = Stream(x)
    BY <1>0, <1>3 DEF Stream, TypeOK
  <1> QED
    BY <1>1, <1>2, <1>5, <1>6 DEF order, c, q

\* Its id is above all that are there.
LEMMA SendingKeeps ==
    ASSUME TypeOK, TypeOK', OrderIInv, NEW p \in Endpoints, NEW count \in 0 .. 2,
           TxPacket(p, count), NEW q \in Endpoints
    PROVE  OrderKept(q)'
  <1>0. OrderKept(q) /\ Peer(p) \in Endpoints /\ Peer(Peer(p)) = p /\ Peer(Peer(q)) = q
    BY PacketAssumption DEF OrderIInv
  <1>1. /\ rx_reader' = rx_reader /\ delivered' = delivered
        /\ last_received' = last_received
        /\ sent' = [sent EXCEPT ![p] = sent[p] + 1]
    BY DEF TxPacket
  <1>2. CASE q # Peer(p)
    <2>1. Peer(q) # p
      BY <1>0, <1>2
    <2>2. line'[q] = line[q] /\ sent'[Peer(q)] = sent[Peer(q)]
      BY <1>0, <1>2, <2>1, StreamTyped DEF TxPacket, TypeOK
    <2> QED
      BY <1>0, <1>1, <2>2, UntouchedKeeps
  <1>3. CASE q = Peer(p)
    <2> DEFINE order == (last_sent[p] + 1) % OrderMod
               id == sent[p] + 1
               c == Copies(id, order, count)
               s == Stream(q)
               d == delivered[q]
    <2>1. /\ id \in Nat /\ order \in Orders /\ sent'[p] = id /\ c \in Seq(Bytes)
          /\ s \in Seq(Bytes)
      BY <1>3, SendingJoins, StreamTyped
    <2>2. \A i \in 1 .. Len(c) : Body(c[i]) => c[i].id = id /\ c[i].order = order
      BY SendingJoins
    <2>3. Stream(q)' = s \o c
      BY <1>3, SendingJoins
    <2> HIDE DEF order, c
    <2> HIDE DEF s
    <2>6. /\ Len(s) \in Nat /\ Len(c) \in Nat /\ Len(s \o c) = Len(s) + Len(c)
          /\ \A i \in 1 .. Len(s) : (s \o c)[i] = s[i]
          /\ \A i \in 1 .. Len(c) : (s \o c)[Len(s) + i] = c[i]
      BY <2>1, Joined
    <2>7. Peer(q) = p /\ sent[Peer(q)] = id - 1 /\ sent'[Peer(q)] = id
      <3>1. sent'[p] = id /\ id - 1 = sent[p]
        <4>1. sent[p] \in Nat
          BY DEF TypeOK
        <4> QED
          BY <2>1, <4>1
      <3> QED
        BY <1>0, <1>3, <3>1
    <2> HIDE DEF id
    <2>8. \A i \in 1 .. Len(s) : Body(s[i]) => s[i].id < id /\ s[i].id \in Nat
      <3>1. \A i \in 1 .. Len(s) : s[i] \in Bytes
        BY <2>1
      <3>2. \A i \in 1 .. Len(s) : Due(q, s[i])
        BY <1>0 DEF OrderKept, s
      <3>3. \A i \in 1 .. Len(s) : s[i].id \in Nat
        BY <3>1 DEF Bytes
      <3>4. \A i \in 1 .. Len(s) : Body(s[i]) => s[i].id <= id - 1
        BY <2>7, <3>2 DEF Due
      <3> QED
        BY <2>1, <3>3, <3>4
    <2>9. ASSUME NEW i \in 1 .. Len(s \o c) PROVE i \in 1 .. Len(s) \/ i - Len(s) \in 1 .. Len(c)
      BY <2>6
    <2>10. Ascending(Stream(q)')
      <3>1. ASSUME NEW i \in 1 .. Len(s \o c), NEW j \in 1 .. Len(s \o c), i < j
            PROVE  NotBefore((s \o c)[i], (s \o c)[j])
        <4>1. CASE i \in 1 .. Len(s) /\ j \in 1 .. Len(s)
          <5>1. NotBefore(s[i], s[j])
            BY <1>0, <3>1, <4>1 DEF OrderKept, Ascending, s
          <5> QED
            BY <2>6, <4>1, <5>1
        <4>2. CASE i \in 1 .. Len(s) /\ j - Len(s) \in 1 .. Len(c)
          <5>1. (s \o c)[i] = s[i] /\ (s \o c)[j] = c[j - Len(s)]
            <6>1. j = Len(s) + (j - Len(s))
              BY <2>6
            <6> QED
              BY <2>6, <4>2, <6>1
          <5>2. Body(s[i]) /\ Body(c[j - Len(s)]) => s[i].id < c[j - Len(s)].id /\ s[i].id \in Nat
            BY <2>2, <2>8, <4>2
          <5> QED
            BY <2>1, <2>2, <4>2, <5>1, <5>2 DEF NotBefore
        <4>3. CASE i - Len(s) \in 1 .. Len(c) /\ j - Len(s) \in 1 .. Len(c)
          <5>1. (s \o c)[i] = c[i - Len(s)] /\ (s \o c)[j] = c[j - Len(s)]
            <6>1. i = Len(s) + (i - Len(s)) /\ j = Len(s) + (j - Len(s))
              BY <2>6
            <6> QED
              BY <2>6, <4>3, <6>1
          <5> QED
            BY <2>1, <2>2, <4>3, <5>1 DEF NotBefore
        <4> QED
          BY <2>6, <2>9, <3>1, <4>1, <4>2, <4>3
      <3> QED
        BY <2>3, <3>1 DEF Ascending
    <2>11. ASSUME NEW i \in 1 .. Len(Stream(q)') PROVE Due(q, Stream(q)[i])'
      <3>1. CASE i \in 1 .. Len(s)
        <4>1. Due(q, s[i]) /\ Stream(q)'[i] = s[i]
          BY <1>0, <2>3, <2>6, <3>1 DEF OrderKept, s
        <4>2. Body(s[i]) => s[i].id <= id
          BY <2>1, <2>8, <3>1
        <4> QED
          BY <1>1, <2>7, <4>1, <4>2 DEF Due
      <3>2. CASE i - Len(s) \in 1 .. Len(c)
        <4>1. Stream(q)'[i] = c[i - Len(s)]
          <5>1. i = Len(s) + (i - Len(s))
            BY <2>6
          <5> QED
            BY <2>3, <2>6, <3>2, <5>1
        <4>2. Body(c[i - Len(s)]) => c[i - Len(s)].id = id
          BY <2>2, <3>2
        <4>3. d # <<>> => Last(d) < id /\ Last(d) \in Nat
          <5>1. d \in Seq(Nat) /\ \A k \in 1 .. Len(d) : d[k] <= id - 1
            BY <1>0, <2>7 DEF OrderKept, TypeOK
          <5>2. d # <<>> => Len(d) \in 1 .. Len(d) /\ d[Len(d)] \in Nat
            BY <5>1
          <5> HIDE DEF d
          <5>3. d # <<>> => d[Len(d)] <= id - 1 /\ d[Len(d)] \in Nat
            BY <5>1, <5>2
          <5> QED
            BY <2>1, <5>3 DEF Last
        <4> QED
          BY <1>1, <2>1, <2>7, <4>1, <4>2, <4>3 DEF Due
      <3> QED
        BY <2>3, <2>9, <3>1, <3>2
    <2>12. \A i \in 1 .. Len(d) : d[i] <= sent'[Peer(q)]
      <3>1. d \in Seq(Nat) /\ \A k \in 1 .. Len(d) : d[k] <= id - 1
        BY <1>0, <2>7 DEF OrderKept, TypeOK
      <3> HIDE DEF d
      <3>2. \A k \in 1 .. Len(d) : d[k] \in Nat
        BY <3>1
      <3> QED
        BY <2>1, <2>7, <3>1, <3>2
    <2> QED
      BY <1>0, <1>1, <2>10, <2>11, <2>12 DEF OrderKept
  <1> QED
    BY <1>2, <1>3

LEMMA ThinsBehind ==
    ASSUME NEW r \in Seq(Bytes), NEW l \in Seq(Bytes)
    PROVE  Thins(l, r \o l)
  <1> DEFINE s == r \o l
             m == [i \in 1 .. Len(l) |-> Len(r) + i]
  <1>1. /\ Len(r) \in Nat /\ Len(l) \in Nat /\ Len(s) = Len(r) + Len(l)
        /\ \A i \in 1 .. Len(l) : s[Len(r) + i] = l[i]
    BY Joined
  <1> HIDE DEF s
  <1>2. /\ m \in [1 .. Len(l) -> 1 .. Len(s)]
        /\ \A i, j \in 1 .. Len(l) : i < j => m[i] < m[j]
        /\ \A i \in 1 .. Len(l) : l[i] = s[m[i]]
    BY <1>1
  <1> HIDE DEF m
  <1>3. Thins(l, s)
    BY <1>2 DEF Thins
  <1> QED
    BY <1>3 DEF s

LEMMA ThinsLost ==
    ASSUME NEW r \in Seq(Bytes), NEW l \in Seq(Bytes), l # <<>>
    PROVE  Thins(r \o Tail(l), r \o l)
  <1> DEFINE t == r \o Tail(l)
             s == r \o l
             a == Len(r)
             b == Len(l)
             m == [i \in 1 .. Len(t) |-> IF i <= a THEN i ELSE i + 1]
  <1>1. /\ Tail(l) \in Seq(Bytes) /\ b \in Nat \ {0} /\ Len(Tail(l)) = b - 1
        /\ \A j \in 1 .. b - 1 : Tail(l)[j] = l[j + 1]
    BY TailOf
  <1>2. /\ a \in Nat /\ Len(s) = a + b /\ \A i \in 1 .. a : s[i] = r[i]
        /\ \A j \in 1 .. b : s[a + j] = l[j]
    BY Joined
  <1>3. /\ Len(t) = a + (b - 1) /\ \A i \in 1 .. a : t[i] = r[i]
        /\ \A j \in 1 .. b - 1 : t[a + j] = Tail(l)[j]
    BY <1>1, Joined
  <1> HIDE DEF t, s, a, b
  <1>4. ASSUME NEW i \in 1 .. Len(t) PROVE t[i] = s[IF i <= a THEN i ELSE i + 1]
    <2>1. CASE i <= a
      <3>1. i \in 1 .. a
        BY <1>2, <1>3, <2>1
      <3> QED
        BY <1>2, <1>3, <2>1, <3>1
    <2>2. CASE i > a
      <3> DEFINE j == i - a
      <3>1. j \in 1 .. b - 1 /\ j + 1 \in 1 .. b /\ a + j = i /\ a + (j + 1) = i + 1
        BY <1>1, <1>2, <1>3, <2>2
      <3> HIDE DEF j
      <3>2. t[i] = Tail(l)[j] /\ s[i + 1] = l[j + 1]
        BY <1>2, <1>3, <3>1
      <3>3. t[i] = s[i + 1] /\ ~(i <= a)
        <4>1. Tail(l)[j] = l[j + 1]
          BY <1>1, <3>1
        <4>2. ~(i <= a)
          BY <1>2, <1>3, <2>2
        <4> QED
          BY <3>2, <4>1, <4>2
      <3> QED
        BY <3>3
    <2>3. i <= a \/ i > a
      BY <1>1, <1>2, <1>3
    <2> QED
      BY <2>1, <2>2, <2>3
  <1>5. /\ m \in [1 .. Len(t) -> 1 .. Len(s)]
        /\ \A i, j \in 1 .. Len(t) : i < j => m[i] < m[j]
    BY <1>1, <1>2, <1>3
  <1>6. \A i \in 1 .. Len(t) : t[i] = s[m[i]]
    BY <1>4
  <1> HIDE DEF m
  <1>7. Thins(t, s)
    BY <1>5, <1>6 DEF Thins
  <1> QED
    BY <1>7 DEF t, s

LEMMA ThinsSpoiled ==
    ASSUME NEW r \in Seq(Bytes), NEW l \in Seq(Bytes), l # <<>>,
           NEW byte \in Bytes, ~Body(byte)
    PROVE  Thins(r \o (<<byte>> \o Tail(l)), r \o l)
  <1> DEFINE n == <<byte>> \o Tail(l)
             t == r \o n
             s == r \o l
             a == Len(r)
             b == Len(l)
             m == [i \in 1 .. Len(t) |-> i]
  <1>1. /\ Tail(l) \in Seq(Bytes) /\ b \in Nat \ {0} /\ Len(Tail(l)) = b - 1
        /\ \A j \in 1 .. b - 1 : Tail(l)[j] = l[j + 1]
    BY TailOf
  <1>2. /\ a \in Nat /\ Len(s) = a + b /\ \A i \in 1 .. a : s[i] = r[i]
        /\ \A j \in 1 .. b : s[a + j] = l[j]
    BY Joined
  <1>3. /\ n \in Seq(Bytes) /\ Len(n) = b /\ n[1] = byte
        /\ \A j \in 1 .. b - 1 : n[1 + j] = Tail(l)[j]
    <2>1. <<byte>> \in Seq(Bytes) /\ Len(<<byte>>) = 1 /\ <<byte>>[1] = byte
      OBVIOUS
    <2>2. /\ n \in Seq(Bytes) /\ Len(n) = 1 + Len(Tail(l))
          /\ \A i \in 1 .. 1 : n[i] = <<byte>>[i]
          /\ \A i \in 1 .. Len(Tail(l)) : n[1 + i] = Tail(l)[i]
      BY <1>1, <2>1, Joined
    <2> HIDE DEF n, b
    <2> QED
      BY <1>1, <2>1, <2>2
  <1> HIDE DEF n
  <1>4. /\ Len(t) = a + b /\ \A i \in 1 .. a : t[i] = r[i]
        /\ \A j \in 1 .. b : t[a + j] = n[j]
    <2>1. /\ Len(t) = a + Len(n) /\ \A i \in 1 .. a : t[i] = r[i]
          /\ \A j \in 1 .. Len(n) : t[a + j] = n[j]
      BY <1>3, Joined
    <2> HIDE DEF t, a, b
    <2> QED
      BY <1>3, <2>1
  <1> HIDE DEF t, s, a, b
  <1>5. ASSUME NEW i \in 1 .. Len(t) PROVE t[i] = s[i] \/ ~Body(t[i])
    <2>1. CASE i <= a
      <3>1. i \in 1 .. a
        BY <1>2, <1>4, <2>1
      <3> QED
        BY <1>2, <1>4, <3>1
    <2>2. CASE i = a + 1
      <3>1. t[i] = n[1]
        BY <1>1, <1>2, <1>4, <2>2
      <3> QED
        BY <1>3, <3>1
    <2>3. CASE i > a + 1
      <3> DEFINE j == i - (a + 1)
      <3>1. j \in 1 .. b - 1 /\ 1 + j \in 1 .. b /\ j + 1 = 1 + j /\ i = a + (1 + j)
        BY <1>1, <1>2, <1>4, <2>3
      <3> HIDE DEF j
      <3>2. t[i] = n[1 + j] /\ s[i] = l[1 + j]
        BY <1>2, <1>4, <3>1
      <3>3. n[1 + j] = Tail(l)[j] /\ Tail(l)[j] = l[1 + j]
        BY <1>1, <1>3, <3>1
      <3> QED
        BY <3>2, <3>3
    <2>4. i <= a \/ i = a + 1 \/ i > a + 1
      BY <1>1, <1>2, <1>4
    <2> QED
      BY <2>1, <2>2, <2>3, <2>4
  <1>6. /\ m \in [1 .. Len(t) -> 1 .. Len(s)]
        /\ \A i, j \in 1 .. Len(t) : i < j => m[i] < m[j]
    BY <1>1, <1>2, <1>4
  <1>7. \A i \in 1 .. Len(t) : t[i] = s[m[i]] \/ ~Body(t[i])
    BY <1>5
  <1> HIDE DEF m
  <1>8. Thins(t, s)
    BY <1>6, <1>7 DEF Thins
  <1> QED
    BY <1>8 DEF t, s, n

\* A byte of the line is lost or spoiled.
LEMMA LineThins ==
    ASSUME TypeOK, NEW p \in Endpoints, Lose(p) \/ Corrupt(p)
    PROVE  Thins(Stream(p)', Stream(p))
  <1>0. /\ rx_reader[p].read \in Seq(Bytes)
        /\ line[p] \in Seq(Bytes) /\ line[p] # <<>> /\ rx_reader' = rx_reader
    BY StreamTyped DEF Lose, Corrupt
  <1>1. CASE Lose(p)
    <2>1. Stream(p)' = rx_reader[p].read \o Tail(line[p])
      BY <1>0, <1>1 DEF Lose, Stream, TypeOK
    <2> QED
      BY <1>0, <2>1, ThinsLost DEF Stream
  <1>2. CASE Corrupt(p)
    <2>1. PICK byte \in {Noise, Zero} : line' = [line EXCEPT ![p] = <<byte>> \o Tail(@)]
      BY <1>2 DEF Corrupt
    <2>2. byte \in Bytes /\ ~Body(byte)
      BY OddBytes DEF Body, Noise, Zero, Part
    <2>3. Stream(p)' = rx_reader[p].read \o (<<byte>> \o Tail(line[p]))
      BY <1>0, <2>1 DEF Stream, TypeOK
    <2> QED
      BY <1>0, <2>2, <2>3, ThinsSpoiled DEF Stream
  <1> QED
    BY <1>1, <1>2

LEMMA LineKeeps ==
    ASSUME TypeOK, TypeOK', OrderIInv, NEW p \in Endpoints, Lose(p) \/ Corrupt(p),
           NEW q \in Endpoints
    PROVE  OrderKept(q)'
  <1>0. OrderKept(q) /\ UNCHANGED <<rx_reader, delivered, last_received, sent>>
    BY DEF OrderIInv, Lose, Corrupt
  <1>1. CASE q # p
    <2>1. line'[q] = line[q]
      BY <1>1 DEF Lose, Corrupt, TypeOK
    <2> QED
      BY <1>0, <2>1, UntouchedKeeps
  <1>2. CASE q = p
    <2>1. Thins(Stream(q)', Stream(q))
      BY <1>2, LineThins
    <2> QED
      BY <1>0, <2>1, ThinnedKeeps
  <1> QED
    BY <1>1, <1>2

\* A byte is read: it stays in the stream, or what is judged leaves it.
LEMMA ReadThins ==
    ASSUME TypeOK, NEW p \in Endpoints, RxByte(p)
    PROVE  /\ Thins(Stream(p)', Stream(p))
           /\ ~Reader!Accepts(rx_reader[p]) => Stream(p)' = line[p]
  <1> DEFINE r == rx_reader[p].read
             l == line[p]
  <1>0. r \in Seq(Bytes) /\ l \in Seq(Bytes) /\ Stream(p) = r \o l /\ l # <<>>
    BY StreamTyped DEF RxByte, Stream
  <1>1. /\ Head(l) \in Bytes /\ Tail(l) \in Seq(Bytes) /\ l = <<Head(l)>> \o Tail(l)
        /\ line'[p] = Tail(l)
    BY <1>0, TailOf, HeadTailProperties DEF RxByte, TypeOK
  <1>2. CASE Reader!Accepts(rx_reader[p])
    <2>1. rx_reader'[p] = Reader!Updated(rx_reader[p], Head(l))
      BY <1>2 DEF RxByte, TypeOK
    <2>2. rx_reader'[p].read = r \o <<Head(l)>>
      <3>1. rx_reader'[p].read = Append(r, Head(l))
        BY <2>1 DEF Reader!Updated
      <3> QED
        BY <1>0, <1>1, <3>1, AppendedByte
    <2>3. Stream(p)' = r \o (<<Head(l)>> \o Tail(l))
      <3>1. <<Head(l)>> \in Seq(Bytes)
        BY <1>1
      <3>2. Stream(p)' = (r \o <<Head(l)>>) \o Tail(l)
        BY <1>1, <2>2 DEF Stream
      <3> QED
        BY <1>0, <1>1, <3>1, <3>2, Regrouped
    <2>4. Stream(p)' = Stream(p) /\ Stream(p) \in Seq(Bytes)
      BY <1>0, <1>1, <2>3, Joined
    <2> QED
      BY <1>2, <2>4, ThinsItself
  <1>3. CASE ~Reader!Accepts(rx_reader[p])
    <2>1. rx_reader'[p] = ReaderAfter(Head(l))
      BY <1>3 DEF RxByte, TypeOK
    <2>2. rx_reader'[p].read = <<Head(l)>>
      BY <1>1, <2>1 DEF ReaderAfter, Reader!Updated, Reader!Empty
    <2>3. Stream(p)' = l
      BY <1>1, <2>2 DEF Stream
    <2>4. Thins(l, r \o l)
      BY <1>0, ThinsBehind
    <2> QED
      BY <1>0, <2>3, <2>4
  <1> QED
    BY <1>2, <1>3

\* The packet of b is delivered, and what follows is not older.
LEMMA DeliveringKeeps ==
    ASSUME TypeOK, NEW p \in Endpoints, OrderKept(p),
           NEW b \in Bytes, Body(b), Due(p, b), b.order # last_received[p],
           last_received'[p] = b.order, delivered'[p] = Append(delivered[p], b.id),
           sent' = sent, Stream(p)' \in Seq(Bytes), Ascending(Stream(p)'),
           \A i \in 1 .. Len(Stream(p)') :
              NotBefore(b, Stream(p)'[i]) /\ Due(p, Stream(p)'[i])
    PROVE  OrderKept(p)'
  <1> DEFINE d == delivered[p]
             n == Len(d)
             e == Append(d, b.id)
  <1>1. /\ d \in Seq(Nat) /\ n \in Nat /\ b.id \in Nat
        /\ sent[Peer(p)] \in Nat
    <2>1. d \in Seq(Nat)
      BY DEF TypeOK
    <2>2. b.id \in Nat
      BY DEF Bytes
    <2>3. sent[Peer(p)] \in Nat
      BY StreamTyped
    <2>4. n \in Nat
      BY <2>1
    <2> QED
      BY <2>1, <2>2, <2>3, <2>4
  <1>2. /\ \A i \in 1 .. n : d[i] <= sent[Peer(p)]
        /\ \A i, j \in 1 .. n : i < j => d[i] < d[j]
    BY DEF OrderKept
  <1>3. b.id <= sent[Peer(p)] /\ (n > 0 => d[n] < b.id)
    <2>1. n > 0 => d # <<>>
      OBVIOUS
    <2>2. n > 0 => d[n] \in Nat
      BY <1>1
    <2>3. b.id <= sent[Peer(p)] /\ (n > 0 => d[n] <= b.id /\ d[n] # b.id)
      BY <2>1 DEF Due, Last
    <2> HIDE DEF n, d
    <2> QED
      BY <1>1, <2>2, <2>3
  <1>4. /\ Len(e) = n + 1 /\ e[n + 1] = b.id /\ e # <<>>
        /\ \A i \in 1 .. n : e[i] = d[i] /\ d[i] \in Nat
    BY <1>1, Lengthened
  <1> HIDE DEF d, n, e
  <1>5. ASSUME NEW i \in 1 .. n PROVE d[i] < b.id
    <2>1. i < n \/ i = n
      BY <1>1
    <2>2. n \in 1 .. n /\ n > 0
      BY <1>1
    <2>3. d[n] < b.id /\ d[n] \in Nat /\ d[i] \in Nat
      BY <1>3, <1>4, <2>2
    <2>4. CASE i < n
      <3>1. d[i] < d[n]
        BY <1>2, <2>2, <2>4
      <3> QED
        BY <1>1, <2>3, <3>1
    <2> QED
      BY <2>1, <2>3, <2>4
  <1>6. \A i, j \in 1 .. Len(e) : i < j => e[i] < e[j]
    <2> SUFFICES ASSUME NEW i \in 1 .. n + 1, NEW j \in 1 .. n + 1, i < j
                 PROVE  e[i] < e[j]
      BY <1>4
    <2>1. i \in 1 .. n /\ (j \in 1 .. n \/ j = n + 1)
      BY <1>1
    <2> QED
      BY <1>2, <1>4, <1>5, <2>1
  <1>7. \A i \in 1 .. Len(e) : e[i] <= sent[Peer(p)]
    <2> SUFFICES ASSUME NEW i \in 1 .. n + 1 PROVE e[i] <= sent[Peer(p)]
      BY <1>4
    <2>1. i \in 1 .. n \/ i = n + 1
      BY <1>1
    <2> QED
      BY <1>2, <1>3, <1>4, <2>1
  <1>8. delivered'[p] = e /\ Last(e) = b.id
    BY <1>4 DEF e, d, Last
  <1>9. ASSUME NEW i \in 1 .. Len(Stream(p)') PROVE Due(p, Stream(p)[i])'
    <2>1. NotBefore(b, Stream(p)'[i]) /\ Due(p, Stream(p)'[i])
      OBVIOUS
    <2> QED
      BY <1>8, <2>1 DEF Due, NotBefore
  <1> QED
    BY <1>6, <1>7, <1>8, <1>9 DEF OrderKept

\* A byte is read: the reader takes it, or finish_rx() judges what was read and the
\* byte begins what follows.
LEMMA ReadingKeeps ==
    ASSUME TypeOK, TypeOK', OrderIInv, NEW p \in Endpoints, RxByte(p),
           NEW q \in Endpoints
    PROVE  OrderKept(q)'
  <1> DEFINE r == rx_reader[p].read
             l == line[p]
             s == Stream(p)
  <1>0. /\ OrderKept(q) /\ OrderKept(p) /\ sent' = sent /\ l # <<>>
        /\ r \in Seq(Bytes) /\ l \in Seq(Bytes) /\ s \in Seq(Bytes) /\ s = r \o l
    BY StreamTyped DEF OrderIInv, RxByte, Stream
  <1>2. CASE q # p
    <2>1. /\ line'[q] = line[q] /\ rx_reader'[q] = rx_reader[q]
          /\ delivered'[q] = delivered[q] /\ last_received'[q] = last_received[q]
      BY <1>2 DEF RxByte, Finish, Deliver, Discard, TypeOK
    <2> QED
      BY <1>0, <2>1, UntouchedKeeps
  <1>3. CASE q = p /\ Reader!Accepts(rx_reader[p])
    <2>1. UNCHANGED <<delivered, last_received>>
      BY <1>3 DEF RxByte
    <2> QED
      BY <1>0, <1>3, <2>1, ReadThins, ThinnedKeeps
  <1>4. CASE q = p /\ ~Reader!Accepts(rx_reader[p])
    <2>1. Finish(p)
      BY <1>4 DEF RxByte
    <2>2. Stream(p)' = l
      BY <1>4, ReadThins
    <2>3. /\ Len(r) \in Nat /\ Len(l) \in Nat /\ Len(s) = Len(r) + Len(l)
          /\ \A i \in 1 .. Len(r) : s[i] = r[i]
          /\ \A i \in 1 .. Len(l) : s[Len(r) + i] = l[i]
      <3> HIDE DEF s, r, l
      <3> QED
        BY <1>0, Joined
    <2>4. Thins(l, s)
      BY <2>2, ReadThins
    <2>5. CASE Discard
      BY <1>0, <1>4, <2>2, <2>4, <2>5, ThinnedKeeps DEF Discard
    <2>6. ASSUME Intact(r), Deliver(p, r[1]), r[1].order # last_received[p]
          PROVE  OrderKept(p)'
      <3> DEFINE b == r[1]
                 d == delivered[p]
      <3>1. /\ Len(r) = 3 /\ b \in Bytes /\ Body(b) /\ b.id \in Nat
            /\ s[1] = b /\ 1 \in 1 .. Len(s)
        <4>1. Len(r) = 3 /\ b.part = 1
          BY <2>6 DEF Intact
        <4>2. b \in Bytes
          BY <1>0, <4>1, ElementOfSeq
        <4>3. s[1] = b /\ 1 \in 1 .. Len(s)
          BY <2>3, <4>1
        <4> HIDE DEF b
        <4> QED
          BY <4>1, <4>2, <4>3 DEF Body, Bytes
      <3>2. /\ last_received'[p] = b.order /\ delivered'[p] = Append(delivered[p], b.id)
            /\ sent' = sent
        BY <1>0, <2>6 DEF Deliver, TypeOK
      <3>3. ASSUME NEW i \in 1 .. Len(l) PROVE NotBefore(b, l[i]) /\ Due(p, l[i])
        <4> HIDE DEF b, l, s, r
        <4>1. 1 < Len(r) + i /\ Len(r) + i \in 1 .. Len(s) /\ s[Len(r) + i] = l[i]
          BY <2>3, <3>1
        <4>2. NotBefore(s[1], s[Len(r) + i]) /\ Due(p, s[Len(r) + i])
          BY <1>0, <3>1, <4>1 DEF OrderKept, Ascending, s
        <4> QED
          BY <3>1, <4>1, <4>2
      <3>4. Due(p, b)
        BY <1>0, <3>1 DEF OrderKept
      <3>5. Ascending(l)
        BY <1>0, <2>4, ThinnedAscends DEF OrderKept
      <3> HIDE DEF b, l, s
      <3> QED
        BY <1>0, <2>2, <2>6, <3>1, <3>2, <3>3, <3>4, <3>5, DeliveringKeeps DEF b
    <2> QED
      BY <1>4, <2>1, <2>5, <2>6 DEF Finish, Relation
  <1> QED
    BY <1>2, <1>3, <1>4

\* An endpoint starts over: a restart drops what its reader held.
LEMMA StartingThins ==
    ASSUME TypeOK, NEW p \in Endpoints, Restart(p) \/ Reset(p)
    PROVE  Thins(Stream(p)', Stream(p)) /\ Stream(p)' \in Seq(Bytes)
  <1> DEFINE r == rx_reader[p].read
             l == line[p]
             t == Stream(p)'
  <1>0. line' = line
    BY DEF Restart, Reset
  <1>1. /\ r \in Seq(Bytes) /\ l \in Seq(Bytes)
        /\ Stream(p) = r \o l /\ Stream(p) \in Seq(Bytes)
    BY StreamTyped DEF Stream
  <1>2. t = l \/ t = Stream(p)
    <2>1. CASE Restart(p)
      <3>1. rx_reader'[p].read = <<>>
        BY <2>1 DEF Restart, Reader!Empty, TypeOK
      <3>2. t = <<>> \o l
        BY <1>0, <3>1 DEF Stream
      <3>3. <<>> \o l = l
        BY <1>1, ConcatSimplifications
      <3> QED
        BY <3>2, <3>3
    <2>2. CASE Reset(p)
      BY <1>0, <2>2 DEF Reset, Stream
    <2> QED
      BY <2>1, <2>2
  <1>3. Thins(l, r \o l) /\ Thins(Stream(p), Stream(p))
    BY <1>1, ThinsBehind, ThinsItself
  <1> HIDE DEF t, l, r
  <1>4. t \in Seq(Bytes) /\ Thins(t, Stream(p))
    BY <1>1, <1>2, <1>3
  <1> QED
    BY <1>4 DEF t

\* Nothing was delivered to it yet.
LEMMA StartingOverKeeps ==
    ASSUME TypeOK, TypeOK', OrderIInv, NEW p \in Endpoints, Restart(p) \/ Reset(p),
           NEW q \in Endpoints
    PROVE  OrderKept(q)'
  <1>0. OrderKept(q) /\ line' = line /\ sent' = sent
    BY DEF OrderIInv, Restart, Reset
  <1>1. CASE q # p
    <2>1. /\ rx_reader'[q] = rx_reader[q] /\ delivered'[q] = delivered[q]
          /\ last_received'[q] = last_received[q]
      BY <1>1 DEF Restart, Reset, TypeOK
    <2> QED
      BY <1>0, <2>1, UntouchedKeeps
  <1>2. CASE q = p
    <2> DEFINE t == Stream(p)'
    <2>1. delivered'[p] = <<>>
      BY DEF Restart, Reset, TypeOK
    <2>2. t \in Seq(Bytes) /\ Thins(t, Stream(p)) /\ Stream(p) \in Seq(Bytes)
      BY StartingThins, StreamTyped
    <2>3. Ascending(t)
      BY <1>0, <1>2, <2>2, ThinnedAscends DEF OrderKept
    <2>4. ASSUME NEW i \in 1 .. Len(t) PROVE Due(p, Stream(p)[i])'
      <3>1. PICK k \in 1 .. Len(Stream(p)) : t[i] = Stream(p)[k] \/ ~Body(t[i])
        BY <2>2 DEF Thins
      <3>2. Due(p, Stream(p)[k])
        BY <1>0, <1>2 DEF OrderKept
      <3> QED
        BY <1>0, <2>1, <3>1, <3>2 DEF Due
    <2> QED
      BY <1>2, <2>1, <2>3, <2>4 DEF OrderKept
  <1> QED
    BY <1>1, <1>2

LEMMA OrderStarts == ASSUME Init PROVE OrderIInv
  <1>1. \A p \in Endpoints : delivered[p] = <<>> /\ Stream(p) = <<>>
    BY DEF Init, Stream, Reader!Empty
  <1> QED
    BY <1>1 DEF OrderIInv, OrderKept, Ascending

\* Packetman.hpp:81-91, 93-113, 189-248: what is unread, in a reader or on the line, is
\* in the order it was sent and not older than what was delivered.
THEOREM OrderInvariance == Spec => []OrderIInv
<1>1. IInv /\ IInv' /\ OrderIInv /\ [Next]_vars => OrderIInv'
  <2> SUFFICES ASSUME IInv, IInv', OrderIInv, [Next]_vars, NEW q \in Endpoints
               PROVE  OrderKept(q)'
    BY DEF OrderIInv
  <2>1. TypeOK /\ TypeOK'
    BY DEF IInv
  <2>2. ASSUME NEW p \in Endpoints, NEW count \in 0 .. 2, TxPacket(p, count)
        PROVE  OrderKept(q)'
    BY <2>1, <2>2, SendingKeeps
  <2>3. ASSUME NEW p \in Endpoints, RxByte(p) PROVE OrderKept(q)'
    BY <2>1, <2>3, ReadingKeeps
  <2>4. ASSUME NEW p \in Endpoints, Lose(p) \/ Corrupt(p) PROVE OrderKept(q)'
    BY <2>1, <2>4, LineKeeps
  <2>5. ASSUME NEW p \in Endpoints, Restart(p) \/ Reset(p) PROVE OrderKept(q)'
    BY <2>1, <2>5, StartingOverKeeps
  <2>6. CASE UNCHANGED vars
    <3>1. OrderKept(q)
      BY DEF OrderIInv
    <3> QED
      BY <2>1, <2>6, <3>1, UntouchedKeeps DEF vars
  <2> QED
    BY <2>2, <2>3, <2>4, <2>5, <2>6 DEF Next
<1> QED
  BY <1>1, OrderStarts, Invariance, PTL DEF Spec

\* Whatever is lost, spoiled or sent twice, and whenever an end starts over: packets are
\* handed up in the order they were sent, and none twice.
THEOREM DeliveredInOrder == Spec => []InOrder
<1>1. OrderIInv => InOrder
  BY DEF OrderIInv, OrderKept, InOrder
<1> QED
  BY <1>1, OrderInvariance, PTL

-----------------------------------------------------------------------------
(* The packets counted as dropped.  While neither end starts over and no    *)
(* order is used twice the order of a packet is its id, so that what is     *)
(* counted as a gap is a gap.                                               *)

LEMMA OrderOfSmall == ASSUME NEW x \in 0 .. OrderMod - 1 PROVE x % OrderMod = x
  <1>1. OrderMod \in Nat \ {0} /\ x \in Int /\ 0 \in Int /\ x = x + OrderMod * 0
    BY Sizes
  <1> QED
    BY <1>1, RemainderOf

LEMMA LastTyped ==
    ASSUME TypeOK, NEW p \in Endpoints
    PROVE  /\ LastDelivered(p) \in Nat /\ delivered[p] \in Seq(Nat)
           /\ Len(delivered[p]) \in Nat
           /\ delivered[p] # <<>> <=> Len(delivered[p]) > 0
  <1> DEFINE d == delivered[p]
  <1>1. d \in Seq(Nat)
    BY DEF TypeOK
  <1> HIDE DEF d
  <1>2. Len(d) \in Nat /\ (d # <<>> <=> Len(d) > 0) /\ (Len(d) > 0 => d[Len(d)] \in Nat)
    BY <1>1
  <1>3. (IF d = <<>> THEN 0 ELSE Last(d)) \in Nat
    BY <1>2 DEF Last
  <1> QED
    BY <1>1, <1>2, <1>3 DEF d, LastDelivered

\* What has been disturbed stays so.
LEMMA DisturbedStays ==
    ASSUME TypeOK, [Next]_vars, NEW p \in Endpoints, Undisturbed(p)'
    PROVE  Undisturbed(p)
  <1> DEFINE o == Peer(p)
  <1>1. o \in Endpoints
    BY StreamTyped
  <1>2. \A x \in Endpoints : restarts[x] <= restarts'[x] /\ sent[x] <= sent'[x]
    BY CountersGrow
  <1>3. /\ restarts[p] \in Nat /\ restarts[o] \in Nat /\ sent[p] \in Nat /\ sent[o] \in Nat
    BY <1>1 DEF TypeOK
  <1>4. /\ restarts[p] <= 0 /\ restarts[o] <= 0
        /\ sent[p] <= sent'[p] /\ sent'[p] < OrderMod
        /\ sent[o] <= sent'[o] /\ sent'[o] < OrderMod
    BY <1>1, <1>2 DEF Undisturbed
  <1>5. sent'[p] \in Nat /\ sent'[o] \in Nat
    BY <1>1, CountersGrow
  <1> QED
    BY <1>3, <1>4, <1>5, Sizes DEF Undisturbed

LEMMA NumberedThinned ==
    ASSUME NEW s, NEW t, Numbered(s), Thins(t, s)
    PROVE  Numbered(t)
  <1>1. PICK m \in [1 .. Len(t) -> 1 .. Len(s)] :
               \A i \in 1 .. Len(t) : t[i] = s[m[i]] \/ ~Body(t[i])
    BY DEF Thins
  <1> QED
    BY <1>1 DEF Numbered

LEMMA NumberedJoined ==
    ASSUME NEW s \in Seq(Bytes), NEW t \in Seq(Bytes), Numbered(s), Numbered(t)
    PROVE  Numbered(s \o t)
  <1> DEFINE u == s \o t
  <1>1. /\ Len(s) \in Nat /\ Len(t) \in Nat /\ Len(u) = Len(s) + Len(t)
        /\ \A i \in 1 .. Len(s) : u[i] = s[i]
        /\ \A i \in 1 .. Len(t) : u[Len(s) + i] = t[i]
    BY Joined
  <1> HIDE DEF u
  <1>2. ASSUME NEW i \in 1 .. Len(u), Body(u[i]) PROVE u[i].order = u[i].id
    <2>1. CASE i \in 1 .. Len(s)
      BY <1>1, <1>2, <2>1 DEF Numbered
    <2>2. CASE i - Len(s) \in 1 .. Len(t)
      <3>1. i = Len(s) + (i - Len(s))
        BY <1>1
      <3>2. u[i] = t[i - Len(s)]
        BY <1>1, <2>2, <3>1
      <3> QED
        BY <1>2, <2>2, <3>2 DEF Numbered
    <2> QED
      BY <1>1, <2>1, <2>2
  <1> QED
    BY <1>2 DEF u, Numbered

\* Nothing is delivered to or sent by p, and nothing new is in its stream.
LEMMA StraightThinned ==
    ASSUME NEW p \in Endpoints, Straight(p), Thins(Stream(p)', Stream(p)),
           last_sent'[p] = last_sent[p], sent'[p] = sent[p],
           last_received'[p] = last_received[p], delivered'[p] = delivered[p],
           stats'[p].rx_packets = stats[p].rx_packets,
           stats'[p].rx_dropped = stats[p].rx_dropped
    PROVE  Straight(p)'
  <1>1. Numbered(Stream(p)')
    BY NumberedThinned DEF Straight
  <1> QED
    BY <1>1 DEF Straight, LastDelivered

LEMMA SendingStraight ==
    ASSUME TypeOK, StraightIInv, NEW p \in Endpoints, NEW count \in 0 .. 2,
           TxPacket(p, count), NEW q \in Endpoints, Undisturbed(q), Undisturbed(q)'
    PROVE  Straight(q)'
  <1> DEFINE order == (last_sent[p] + 1) % OrderMod
             id == sent[p] + 1
             c == Copies(id, order, count)
  <1>0. /\ Straight(q) /\ Peer(p) # p
        /\ Peer(q) \in Endpoints /\ Peer(p) \in Endpoints /\ Peer(Peer(q)) = q
        /\ Peer(Peer(p)) = p
    BY PacketAssumption DEF StraightIInv
  <1>1. /\ UNCHANGED <<last_received, stats, rx_reader, delivered>>
        /\ last_sent' = [last_sent EXCEPT ![p] = order]
        /\ sent' = [sent EXCEPT ![p] = id]
    BY DEF TxPacket
  <1>2. /\ c \in Seq(Bytes) /\ Stream(Peer(p))' = Stream(Peer(p)) \o c
        /\ \A i \in 1 .. Len(c) : Body(c[i]) => c[i].id = id /\ c[i].order = order
        /\ \A x \in Endpoints \ {Peer(p)} : Stream(x)' = Stream(x)
        /\ id \in Nat /\ sent'[p] = id
    BY SendingJoins
  <1>3. q \in {p, Peer(p)} => order = id
    <2> SUFFICES ASSUME q \in {p, Peer(p)} PROVE order = id
      OBVIOUS
    <2>1. Undisturbed(p) /\ id < OrderMod
      BY <1>0, <1>2 DEF Undisturbed
    <2>2. last_sent[p] = sent[p]
      BY <2>1 DEF StraightIInv, Straight
    <2>3. id % OrderMod = id
      <3>1. id \in 0 .. OrderMod - 1 /\ OrderMod \in Nat \ {0}
        BY <1>2, <2>1, Sizes
      <3> HIDE DEF id
      <3> QED
        BY <3>1, OrderOfSmall
    <2>4. order = id % OrderMod
      BY <2>2, Zenon
    <2> QED
      BY <2>3, <2>4, Zenon
  <1> HIDE DEF order, c
  <1>4. CASE q # p /\ q # Peer(p)
    <2>1. /\ last_sent'[q] = last_sent[q] /\ sent'[q] = sent[q]
          /\ Stream(q)' = Stream(q)
      BY <1>1, <1>2, <1>4 DEF TypeOK
    <2> QED
      BY <1>0, <1>1, <2>1 DEF Straight, LastDelivered
  <1>5. CASE q = p
    <2>1. last_sent'[q] = sent'[q] /\ Stream(q)' = Stream(q)
      BY <1>0, <1>1, <1>2, <1>3, <1>5 DEF TypeOK
    <2> QED
      BY <1>0, <1>1, <2>1 DEF Straight, LastDelivered
  <1>6. CASE q = Peer(p)
    <2>1. last_sent'[q] = last_sent[q] /\ sent'[q] = sent[q]
      BY <1>0, <1>1, <1>6 DEF TypeOK
    <2>2. Numbered(c)
      <3>1. sent[p] \in Nat
        BY DEF TypeOK
      <3>2. id # 0
        BY <3>1
      <3> HIDE DEF id
      <3> QED
        BY <1>2, <1>3, <1>6, <3>2 DEF Numbered
    <2>3. Numbered(Stream(q)')
      <3>1. Numbered(Stream(q)) /\ Stream(q) \in Seq(Bytes)
        BY <1>0, StreamTyped DEF Straight
      <3> QED
        BY <1>2, <1>6, <2>2, <3>1, NumberedJoined
    <2> QED
      BY <1>0, <1>1, <2>1, <2>3 DEF Straight, LastDelivered
  <1> QED
    BY <1>4, <1>5, <1>6

LEMMA GapClosed ==
    ASSUME NEW order \in Nat, NEW last \in Nat, NEW dropped \in Nat, NEW packets \in Nat,
           last = dropped + packets,
           NEW dropped1, NEW packets1,
           dropped1 = dropped + (order - 1 - last), packets1 = packets + 1
    PROVE  dropped1 + packets1 = order
  OBVIOUS

\* The packet that is judged comes from the stream: its order is its id.  It is not
\* earlier than the last one, and the orders between the two are the gap counted.
LEMMA ReadingStraight ==
    ASSUME TypeOK, OrderIInv, StraightIInv, NEW p \in Endpoints, RxByte(p),
           NEW q \in Endpoints, Undisturbed(q)
    PROVE  Straight(q)'
  <1> DEFINE r == rx_reader[p].read
             b == r[1]
             d == delivered[p]
             last == last_received[p]
             s == stats[p]
  <1>1. Straight(q) /\ sent' = sent
    BY DEF StraightIInv, RxByte
  <1>2. CASE q # p
    <2>1. /\ line'[q] = line[q] /\ rx_reader'[q] = rx_reader[q]
          /\ delivered'[q] = delivered[q] /\ last_received'[q] = last_received[q]
          /\ last_sent'[q] = last_sent[q] /\ stats'[q] = stats[q]
      BY <1>2 DEF RxByte, Finish, Deliver, Discard, TypeOK
    <2>2. Stream(q)' = Stream(q)
      BY <2>1 DEF Stream
    <2> QED
      BY <1>1, <2>1, <2>2 DEF Straight, LastDelivered
  <1>3. ASSUME q = p, UNCHANGED <<last_sent, last_received, delivered>>,
               stats'[p].rx_packets = s.rx_packets, stats'[p].rx_dropped = s.rx_dropped
        PROVE  Straight(q)'
    BY <1>1, <1>3, ReadThins, StraightThinned
  <1>4. s \in Stats
    BY DEF TypeOK
  <1>5. ASSUME Intact(r), q = p
        PROVE  /\ b.id \in Nat /\ b.order = b.id /\ b.order \in Orders /\ last \in Orders
               /\ last <= b.order
    <2>1. /\ r \in Seq(Bytes) /\ line[p] \in Seq(Bytes) /\ Stream(p) = r \o line[p]
      BY StreamTyped DEF Stream
    <2>2. Len(r) = 3 /\ Body(b)
      BY <1>5 DEF Intact, Body
    <2>3. 1 \in 1 .. Len(Stream(p)) /\ Stream(p)[1] = b
      <3>1. /\ Len(line[p]) \in Nat /\ Len(r \o line[p]) = Len(r) + Len(line[p])
            /\ \A i \in 1 .. Len(r) : (r \o line[p])[i] = r[i]
        <4> HIDE DEF r
        <4> QED
          BY <2>1, Joined
      <3> HIDE DEF r
      <3>2. 1 \in 1 .. Len(r \o line[p]) /\ (r \o line[p])[1] = r[1]
        BY <2>2, <3>1
      <3> QED
        BY <2>1, <3>2
    <2>4. b.id \in Nat /\ b.order \in Orders /\ last \in Orders
      BY <1>5, <2>1, IntactTyped DEF TypeOK
    <2>5. b.order = b.id /\ last = LastDelivered(p)
      BY <1>1, <1>5, <2>2, <2>3 DEF Straight, Numbered
    <2>6. Due(p, b)
      BY <2>3 DEF OrderIInv, OrderKept
    <2>7. LastDelivered(p) <= b.id
      BY <2>2, <2>4, <2>6 DEF Due, LastDelivered
    <2> QED
      BY <2>4, <2>5, <2>7
  <1>6. ASSUME q = p, Intact(r), Relation(b.order, last) = "later",
               stats' = [stats EXCEPT ![p] = Accepted(@, b.order, last)],
               Deliver(p, b), UNCHANGED last_sent
        PROVE  Straight(q)'
    <2>1. /\ last_received'[p] = b.order /\ delivered'[p] = Append(d, b.id)
          /\ stats'[p] = Accepted(s, b.order, last)
      BY <1>6 DEF Deliver, TypeOK
    <2>2. /\ b.id \in Nat /\ b.order = b.id /\ b.order \in Orders /\ last \in Orders
          /\ b.order > last
      BY <1>5, <1>6, Sizes DEF Relation, Orders
    <2>3. d \in Seq(Nat) /\ Len(d) \in Nat /\ s.rx_packets \in Nat /\ s.rx_dropped \in Nat
      BY <1>4, LastTyped DEF Stats
    <2>4. /\ Len(delivered'[p]) = Len(d) + 1 /\ delivered'[p] # <<>>
          /\ Last(delivered'[p]) = b.id
      BY <2>1, <2>2, <2>3, Lengthened DEF Last
    <2>5. /\ stats'[p].rx_dropped = s.rx_dropped + ((b.order - 1 - last) % OrderMod)
          /\ stats'[p].rx_packets = s.rx_packets + 1
      BY <1>4, <2>1 DEF Accepted, Totalled, Stats
    <2>6. (b.order - 1 - last) % OrderMod = b.order - 1 - last
      <3>1. b.order - 1 - last \in 0 .. OrderMod - 1
        BY <2>2, Sizes DEF Orders
      <3> QED
        BY <3>1, OrderOfSmall
    <2>11. \A i \in 1 .. Len(delivered'[p]) : delivered'[p][i] # 0
      <3>1. /\ \A i \in 1 .. Len(d) : d[i] # 0 /\ delivered'[p][i] = d[i]
            /\ delivered'[p][Len(d) + 1] = b.id
        BY <1>1, <1>6, <2>1, <2>2, <2>3, Lengthened DEF Straight
      <3>2. b.id # 0
        BY <2>2, Sizes DEF Orders
      <3> HIDE DEF b, d
      <3> QED
        BY <2>3, <2>4, <3>1, <3>2
    <2>7. /\ s.rx_packets = Len(d) /\ s.rx_dropped + s.rx_packets = last
          /\ last_sent[p] = sent[p] /\ Numbered(Stream(p))
      BY <1>1, <1>6 DEF Straight
    <2>8. Numbered(Stream(p)')
      BY <2>7, ReadThins, NumberedThinned
    <2>9. LastDelivered(p)' = b.id
      BY <2>4 DEF LastDelivered
    <2>10. stats'[p].rx_dropped + stats'[p].rx_packets = b.order
      <3>1. stats'[p].rx_dropped = s.rx_dropped + (b.order - 1 - last)
        BY <2>5, <2>6
      <3>2. b.order \in Nat /\ last \in Nat
        BY <2>2 DEF Orders
      <3>3. last = s.rx_dropped + s.rx_packets /\ stats'[p].rx_packets = s.rx_packets + 1
        BY <2>5, <2>7
      <3> DEFINE o == b.order
                 x == s.rx_dropped
                 y == s.rx_packets
                 x1 == stats'[p].rx_dropped
                 y1 == stats'[p].rx_packets
      <3>4. /\ x1 = x + (o - 1 - last) /\ o \in Nat /\ last \in Nat /\ x \in Nat /\ y \in Nat
            /\ last = x + y /\ y1 = y + 1
        BY <2>3, <3>1, <3>2, <3>3
      <3>5. x1 + y1 = o
        <4> HIDE DEF o, x, y, x1, y1, last
        <4> QED
          BY <3>4, GapClosed
      <3> QED
        BY <3>5
    <2> HIDE DEF b, d, s, last
    <2> QED
      BY <1>1, <1>6, <2>1, <2>2, <2>4, <2>5, <2>7, <2>8, <2>9, <2>10, <2>11
         DEF Straight
  <1>7. ASSUME q = p, Intact(r) PROVE Relation(b.order, last) # "earlier"
    BY <1>5, <1>7, Sizes DEF Relation, Orders
  <1>8. /\ Overrun(s).rx_packets = s.rx_packets /\ Overrun(s).rx_dropped = s.rx_dropped
        /\ Error(s).rx_packets = s.rx_packets /\ Error(s).rx_dropped = s.rx_dropped
        /\ Redundant(s).rx_packets = s.rx_packets
        /\ Redundant(s).rx_dropped = s.rx_dropped
    BY <1>4 DEF Overrun, Error, Redundant, Totalled, Stats
  <1>9. CASE q = p /\ Reader!Accepts(rx_reader[p])
    BY <1>3, <1>9 DEF RxByte
  <1>10. CASE q = p /\ ~Reader!Accepts(rx_reader[p])
    <2>1. Finish(p)
      BY <1>10 DEF RxByte
    <2>2. CASE Discard /\ \E t \in {Overrun(s), Error(s), Redundant(s)} :
                              stats' = [stats EXCEPT ![p] = t]
      <3>1. stats'[p] \in {Overrun(s), Error(s), Redundant(s)}
        BY <2>2 DEF TypeOK
      <3> QED
        BY <1>3, <1>8, <1>10, <2>2, <3>1 DEF Discard
    <2> HIDE DEF s
    <2> QED
      BY <1>6, <1>7, <1>10, <2>1, <2>2 DEF Finish, s
  <1> QED
    BY <1>2, <1>9, <1>10

LEMMA StraightStarts == ASSUME Init PROVE StraightIInv
  <1>1. \A p \in Endpoints : delivered[p] = <<>> /\ Stream(p) = <<>>
    BY DEF Init, Stream, Reader!Empty
  <1> QED
    BY <1>1 DEF Init, NoStats, StraightIInv, Straight, Numbered, LastDelivered

\* Packetman.hpp:81-91, 189-248: as long as neither end starts over and no order is used
\* twice, the counters of either end add up to the last packet it took, exactly, and
\* that packet's order is its place among those sent.
THEOREM StraightInvariance == Spec => []StraightIInv
<1>1. IInv /\ IInv' /\ OrderIInv /\ StraightIInv /\ [Next]_vars => StraightIInv'
  <2> SUFFICES ASSUME IInv, OrderIInv, StraightIInv, [Next]_vars, NEW q \in Endpoints,
                      Undisturbed(q)'
               PROVE  Straight(q)'
    BY DEF StraightIInv
  <2>1. TypeOK /\ Undisturbed(q) /\ Straight(q)
    BY DisturbedStays DEF IInv, StraightIInv
  <2>2. ASSUME NEW p \in Endpoints, NEW count \in 0 .. 2, TxPacket(p, count)
        PROVE  Straight(q)'
    BY <2>1, <2>2, SendingStraight
  <2>3. ASSUME NEW p \in Endpoints, RxByte(p) PROVE Straight(q)'
    BY <2>1, <2>3, ReadingStraight
  <2>4. ASSUME NEW p \in Endpoints, Lose(p) \/ Corrupt(p) PROVE Straight(q)'
    <3>1. UNCHANGED <<last_sent, last_received, stats, sent, delivered, rx_reader>>
      BY <2>4 DEF Lose, Corrupt
    <3>2. CASE q # p
      <4>1. line'[q] = line[q]
        BY <2>1, <2>4, <3>2 DEF Lose, Corrupt, TypeOK
      <4> QED
        BY <2>1, <3>1, <4>1 DEF Straight, LastDelivered, Stream
    <3>3. CASE q = p
      <4>1. Thins(Stream(q)', Stream(q))
        BY <2>1, <2>4, <3>3, LineThins
      <4> QED
        BY <2>1, <3>1, <4>1, StraightThinned
    <3> QED
      BY <3>2, <3>3
  <2>5. ASSUME NEW p \in Endpoints, Restart(p) \/ Reset(p) PROVE Straight(q)'
    <3>1. restarts' = [restarts EXCEPT ![p] = restarts[p] + 1] /\ restarts[p] \in Nat
      BY <2>1, <2>5 DEF Restart, Reset, RestartAllowed, TypeOK
    <3>2. q # p
      BY <2>1, <3>1 DEF Undisturbed, TypeOK
    <3>3. /\ last_sent'[q] = last_sent[q] /\ last_received'[q] = last_received[q]
          /\ stats'[q] = stats[q] /\ rx_reader'[q] = rx_reader[q]
          /\ delivered'[q] = delivered[q] /\ line' = line /\ sent' = sent
      BY <2>1, <2>5, <3>2 DEF Restart, Reset, TypeOK
    <3> QED
      BY <2>1, <3>3 DEF Straight, LastDelivered, Stream
  <2>6. CASE UNCHANGED vars
    BY <2>1, <2>6 DEF vars, Straight, LastDelivered, Stream
  <2> QED
    BY <2>2, <2>3, <2>4, <2>5, <2>6 DEF Next
<1> QED
  BY <1>1, StraightStarts, Invariance, OrderInvariance, PTL DEF Spec

LEMMA LastIsHighest ==
    ASSUME NEW d \in Seq(Nat), NEW i \in 1 .. Len(d),
           \A j \in 1 .. Len(d) : i < j => d[i] < d[j]
    PROVE  d[i] <= d[Len(d)] /\ d[i] \in Nat /\ d[Len(d)] \in Nat /\ d # <<>>
  <1> DEFINE n == Len(d)
  <1>1. n \in Nat /\ i \in 1 .. n /\ n \in 1 .. n /\ d # <<>>
    OBVIOUS
  <1>2. d[i] \in Nat /\ d[n] \in Nat
    BY <1>1
  <1> HIDE DEF n
  <1>3. i = n \/ i < n
    BY <1>1
  <1>4. i < n => d[i] < d[n]
    BY <1>1 DEF n
  <1>5. d[i] <= d[n]
    BY <1>2, <1>3, <1>4
  <1> QED
    BY <1>1, <1>2, <1>5 DEF n

LEMMA LastIsMax ==
    ASSUME NEW d \in Seq(Nat),
           \A i, j \in 1 .. Len(d) : i < j => d[i] < d[j]
    PROVE  Max(ToSet(d) \union {0}) = IF d = <<>> THEN 0 ELSE Last(d)
  <1> DEFINE S == ToSet(d) \union {0}
             m == IF d = <<>> THEN 0 ELSE Last(d)
  <1>1. /\ Len(d) \in Nat /\ (d # <<>> <=> Len(d) > 0)
        /\ \A i \in 1 .. Len(d) : d[i] \in Nat
        /\ DOMAIN d = 1 .. Len(d)
    OBVIOUS
  <1>2. S \subseteq Nat
    BY <1>1 DEF ToSet
  <1>3. m \in S
    BY <1>1 DEF ToSet, Last
  <1>4. ASSUME NEW y \in S PROVE m >= y
    <2>1. CASE y = 0
      BY <1>2, <1>3, <2>1
    <2>2. ASSUME NEW i \in 1 .. Len(d), y = d[i] PROVE m >= y
      <3>1. d[i] <= d[Len(d)] /\ d # <<>>
        BY LastIsHighest
      <3>2. m = d[Len(d)] /\ m \in Nat /\ y \in Nat
        BY <1>1, <1>2, <1>3, <3>1 DEF Last
      <3> HIDE DEF m, S
      <3> QED
        BY <2>2, <3>1, <3>2
    <2> QED
      BY <1>1, <2>1, <2>2 DEF ToSet
  <1> HIDE DEF S, m
  <1>5. \E x \in S : \A y \in S : x >= y
    BY <1>3, <1>4
  <1>6. Max(S) \in S /\ \A y \in S : Max(S) >= y
    BY <1>5 DEF Max
  <1>7. Max(S) >= m /\ m >= Max(S) /\ Max(S) \in Nat /\ m \in Nat
    BY <1>2, <1>3, <1>4, <1>6
  <1>8. Max(S) = m
    BY <1>7
  <1> QED
    BY <1>8 DEF S, m

LEMMA AsManyAsDelivered ==
    ASSUME NEW d \in Seq(Nat),
           \A i, j \in 1 .. Len(d) : i < j => d[i] < d[j]
    PROVE  IsFiniteSet(ToSet(d)) /\ Cardinality(ToSet(d)) = Len(d)
  <1>1. /\ Len(d) \in Nat /\ DOMAIN d = 1 .. Len(d) /\ d \in [1 .. Len(d) -> Nat]
        /\ \A i \in 1 .. Len(d) : d[i] \in Nat
    OBVIOUS
  <1>2. d \in [1 .. Len(d) -> ToSet(d)]
    BY <1>1 DEF ToSet
  <1>3. ASSUME NEW i \in 1 .. Len(d), NEW j \in 1 .. Len(d), d[i] = d[j] PROVE i = j
    <2>1. ~(i < j) /\ ~(j < i)
      BY <1>1, <1>3
    <2> QED
      BY <2>1
  <1>4. \A x \in ToSet(d) : \E i \in 1 .. Len(d) : d[i] = x
    BY <1>1 DEF ToSet
  <1>5. d \in Bijection(1 .. Len(d), ToSet(d))
    BY <1>2, <1>3, <1>4 DEF Bijection, Injection, Surjection, IsInjective
  <1>6. ExistsBijection(1 .. Len(d), ToSet(d))
    BY <1>5 DEF ExistsBijection
  <1> QED
    BY <1>1, <1>6, FS_CountingElements, FS_NatBijection

\* As many are missing among the first n as are not there.
LEMMA GapsAre ==
    ASSUME NEW n \in Nat, NEW S \in SUBSET (1 .. n), NEW k \in Nat, Cardinality(S) = k
    PROVE  Cardinality((1 .. n) \ S) = n - k
  <1> DEFINE A == 1 .. n
             B == A \ S
  <1>1. IsFiniteSet(A) /\ Cardinality(A) = n
    BY FS_Interval
  <1> HIDE DEF A
  <1>2. IsFiniteSet(S) /\ IsFiniteSet(B)
    BY <1>1, FS_Subset DEF A
  <1>3. S \union B = A /\ S \cap B = {}
    BY DEF A
  <1>4. Cardinality(B) \in Nat
    BY <1>2, FS_CardinalityType
  <1>5. Cardinality(A) = Cardinality(S) + Cardinality(B) - Cardinality(S \cap B)
    BY <1>2, <1>3, FS_Union
  <1>6. Cardinality(S \cap B) = 0
    BY <1>3, FS_EmptySet
  <1>7. n = k + Cardinality(B) - 0
    BY <1>1, <1>5, <1>6
  <1> HIDE DEF B
  <1>8. Cardinality(B) = n - k
    BY <1>4, <1>7
  <1> QED
    BY <1>8 DEF A, B

\* A packet is counted as dropped exactly if it was sent before one that was delivered
\* and never arrived whole itself: nothing the line does is counted twice, or missed
\* once a later packet is there.
THEOREM LossesCounted == Spec => []DroppedWereLost
<1>1. IInv /\ OrderIInv /\ StraightIInv => DroppedWereLost
  <2> SUFFICES ASSUME IInv, OrderIInv, StraightIInv, NEW p \in Endpoints, Undisturbed(p)
               PROVE  stats[p].rx_dropped =
                        Cardinality((1 .. Max(ToSet(delivered[p]) \union {0}))
                                      \ ToSet(delivered[p]))
    BY DEF DroppedWereLost
  <2> DEFINE d == delivered[p]
             n == LastDelivered(p)
  <2>1. /\ d \in Seq(Nat) /\ Len(d) \in Nat /\ n \in Nat
        /\ \A i \in 1 .. Len(d) : d[i] \in Nat /\ d[i] # 0
        /\ stats[p].rx_packets = Len(d) /\ stats[p].rx_dropped + stats[p].rx_packets = n
        /\ \A i, j \in 1 .. Len(d) : i < j => d[i] < d[j]
    BY LastTyped DEF IInv, StraightIInv, Straight, OrderIInv, OrderKept
  <2>2. stats[p].rx_dropped \in Nat
    BY DEF IInv, TypeOK, Stats
  <2>3. Max(ToSet(d) \union {0}) = n
    BY <2>1, LastIsMax DEF LastDelivered
  <2>4. ASSUME NEW i \in 1 .. Len(d) PROVE d[i] \in 1 .. n
    <3>1. d[i] <= d[Len(d)] /\ d # <<>>
      BY <2>1, LastIsHighest
    <3>2. n = d[Len(d)]
      BY <3>1 DEF LastDelivered, Last
    <3>3. d[i] \in Nat /\ d[i] # 0
      BY <2>1
    <3> HIDE DEF n, d
    <3> QED
      BY <2>1, <3>1, <3>2, <3>3
  <2>5. ToSet(d) \subseteq 1 .. n
    BY <2>1, <2>4 DEF ToSet
  <2>6. Cardinality(ToSet(d)) = Len(d)
    BY <2>1, AsManyAsDelivered
  <2>7. Cardinality((1 .. n) \ ToSet(d)) = n - Len(d)
    BY <2>1, <2>5, <2>6, GapsAre
  <2> HIDE DEF n, d
  <2>8. stats[p].rx_dropped = n - Len(d)
    BY <2>1, <2>2
  <2> QED
    BY <2>3, <2>7, <2>8 DEF d
<1> QED
  BY <1>1, Invariance, OrderInvariance, StraightInvariance, PTL

-----------------------------------------------------------------------------
(* What arrives whole.  A zero ends what the reader takes, so the byte      *)
(* behind it is the first one of the reader's next message: a packet that   *)
(* begins there is read from its first byte to its last.                    *)

LEMMA Appended ==
    ASSUME NEW h \in Seq(Bytes), NEW byte \in Bytes
    PROVE  LET g == Append(h, byte)
           IN  /\ g \in Seq(Bytes) /\ Len(h) \in Nat /\ Len(g) = Len(h) + 1
               /\ g[Len(h) + 1] = byte /\ g # <<>>
               /\ \A i \in 1 .. Len(h) : g[i] = h[i]
  <1> DEFINE g == Append(h, byte)
  <1>1. g \in Seq(Bytes) /\ Len(h) \in Nat /\ Len(g) = Len(h) + 1
    OBVIOUS
  <1>2. g[Len(h) + 1] = byte
    OBVIOUS
  <1>3. \A i \in 1 .. Len(h) : g[i] = h[i]
    OBVIOUS
  <1>4. g # <<>>
    BY <1>1
  <1> QED
    BY <1>1, <1>2, <1>3, <1>4

LEMMA Readiness ==
    ASSUME NEW reader \in Readers, NEW byte \in Bytes
    PROVE  /\ Reader!HaveMatch(reader) <=> reader.delim_match_size >= 1
           /\ Reader!Accepts(reader) <=>
                ~(Len(reader.read) >= RxBufSize) /\ ~(reader.delim_match_size >= 1)
           /\ Reader!Updated(reader, byte).read = Append(reader.read, byte)
           /\ reader.delim_match_size = 0 =>
                Reader!Updated(reader, byte).delim_match_size = IF byte = Zero THEN 1 ELSE 0
  <1>1. Len(<<Zero>>) = 1 /\ <<Zero>>[0 + 1] = Zero
    OBVIOUS
  <1> QED
    BY <1>1 DEF Reader!HaveMatch, Reader!Accepts, Reader!IsFull, Reader!Updated

\* The reader after rx_byte(): it took the byte, or begins with it.
Fed(reader, byte) ==
    IF Reader!Accepts(reader) THEN Reader!Updated(reader, byte) ELSE ReaderAfter(byte)

\* The byte is one more of the message, or the first one.
LEMMA FedReads ==
    ASSUME NEW reader \in Readers, NEW byte \in Bytes,
           reader.delim_match_size \in {0, 1}
    PROVE  /\ Fed(reader, byte).read =
                 IF Reader!Accepts(reader) THEN Append(reader.read, byte) ELSE <<byte>>
           /\ Fed(reader, byte).delim_match_size = IF byte = Zero THEN 1 ELSE 0
  <1>1. Reader!Empty \in Readers /\ Reader!Empty.delim_match_size = 0 /\ Reader!Empty.read = <<>>
    BY EmptyTyped DEF Reader!Empty
  <1>2. Append(<<>>, byte) = <<byte>>
    OBVIOUS
  <1>3. CASE Reader!Accepts(reader)
    <2>1. reader.delim_match_size = 0
      BY <1>3, Readiness
    <2> QED
      BY <1>3, <2>1, Readiness DEF Fed
  <1>4. CASE ~Reader!Accepts(reader)
    BY <1>1, <1>2, <1>4, Readiness DEF Fed, ReaderAfter
  <1> QED
    BY <1>3, <1>4

LEMMA HoldsOn ==
    ASSUME NEW h \in Seq(Bytes), NEW reader \in Readers, Holds(h, reader), NEW byte \in Bytes
    PROVE  Holds(Append(h, byte), Fed(reader, byte))
  <1> DEFINE r == reader.read
             g == Append(h, byte)
             n == Fed(reader, byte)
             t == n.read
             L == Len(h)
             K == Len(r)
  <1>1. /\ g \in Seq(Bytes) /\ L \in Nat /\ Len(g) = L + 1 /\ g[L + 1] = byte /\ g # <<>>
        /\ \A i \in 1 .. L : g[i] = h[i]
    BY Appended
  <1>2. r \in Seq(Bytes) /\ K \in Nat /\ (r = <<>> <=> K = 0) /\ (h = <<>> <=> L = 0)
    BY DEF Readers
  <1>3. /\ K <= L /\ (h # <<>> => r # <<>>)
        /\ \A j \in 1 .. K : r[j] = h[L - K + j]
        /\ reader.delim_match_size = IF r # <<>> /\ Last(r) = Zero THEN 1 ELSE 0
        /\ \A i \in 1 .. L :
              Begins(h, i) /\ L < i + 3 /\ (\A j \in i .. L - 1 : h[j] # Zero) => K = L - i + 1
    BY DEF Holds
  <1>4. /\ t = IF Reader!Accepts(reader) THEN Append(r, byte) ELSE <<byte>>
        /\ n.delim_match_size = IF byte = Zero THEN 1 ELSE 0
    BY <1>3, FedReads
  <1>5. /\ Reader!Accepts(reader) => Len(t) = K + 1 /\ \A i \in 1 .. K : t[i] = r[i]
        /\ ~Reader!Accepts(reader) => Len(t) = 1
        /\ t[Len(t)] = byte /\ t # <<>> /\ t \in Seq(Bytes)
    <2>1. CASE Reader!Accepts(reader)
      <3>1. t = Append(r, byte)
        BY <1>4, <2>1
      <3> HIDE DEF t, r, n
      <3> QED
        BY <1>2, <2>1, <3>1, Appended DEF K
    <2>2. CASE ~Reader!Accepts(reader)
      <3>1. t = <<byte>>
        BY <1>4, <2>2
      <3> HIDE DEF t, n
      <3> QED
        BY <2>2, <3>1
    <2> QED
      BY <2>1, <2>2
  <1>6. Reader!Accepts(reader) <=> ~(K >= RxBufSize) /\ ~(r # <<>> /\ Last(r) = Zero)
    BY <1>3, Readiness
  <1>7. r # <<>> => Last(r) = h[L]
    <2>1. ASSUME r # <<>> PROVE Last(r) = h[L]
      <3>1. K \in 1 .. K /\ L - K + K = L /\ Last(r) = r[K]
        BY <1>1, <1>2, <2>1 DEF Last
      <3> QED
        BY <1>3, <3>1
    <2> QED
      BY <2>1
  <1> HIDE DEF r, g, n, t, L, K
  <1>8. Len(t) <= Len(g)
    BY <1>1, <1>2, <1>3, <1>5
  <1>9. ASSUME NEW j \in 1 .. Len(t) PROVE t[j] = g[Len(g) - Len(t) + j]
    <2>1. CASE j = Len(t)
      <3>1. Len(g) - Len(t) + j = L + 1
        BY <1>1, <1>2, <1>5, <2>1
      <3> QED
        BY <1>1, <1>5, <2>1, <3>1
    <2>2. CASE j # Len(t)
      <3>1. Reader!Accepts(reader) /\ j \in 1 .. K /\ Len(t) = K + 1
        BY <1>2, <1>5, <2>2
      <3>2. L - K + j \in 1 .. L /\ Len(g) - Len(t) + j = L - K + j
        BY <1>1, <1>2, <1>3, <3>1
      <3>3. t[j] = r[j] /\ r[j] = h[L - K + j] /\ g[L - K + j] = h[L - K + j]
        BY <1>1, <1>3, <1>5, <3>1, <3>2
      <3> QED
        BY <3>2, <3>3
    <2> QED
      BY <2>1, <2>2
  <1>10. n.delim_match_size = IF t # <<>> /\ Last(t) = Zero THEN 1 ELSE 0
    BY <1>4, <1>5 DEF Last
  <1>11. ASSUME NEW i \in 1 .. Len(g), Begins(g, i), Len(g) < i + 3,
                \A j \in i .. Len(g) - 1 : g[j] # Zero
         PROVE  Len(t) = Len(g) - i + 1
    <2>1. CASE i = L + 1
      <3>1. CASE L = 0
        <4>1. K = 0 /\ r = <<>>
          BY <1>2, <1>3, <3>1
        <4> QED
          BY <1>1, <1>5, <2>1, <4>1
      <3>2. CASE L # 0
        <4>1. i - 1 = L /\ L \in 1 .. L /\ i # 1 /\ r # <<>>
          BY <1>1, <1>2, <1>3, <2>1, <3>2
        <4>2. h[L] = Zero
          BY <1>1, <1>11, <4>1 DEF Begins
        <4>3. ~Reader!Accepts(reader)
          BY <1>6, <1>7, <4>1, <4>2
        <4> QED
          BY <1>1, <1>5, <2>1, <4>3
      <3> QED
        BY <3>1, <3>2
    <2>2. CASE i # L + 1
      <3>1. i \in 1 .. L /\ L < i + 2
        BY <1>1, <1>11, <2>2
      <3>2. Begins(h, i)
        <4>1. i # 1 => i - 1 \in 1 .. L
          BY <1>1, <3>1
        <4> QED
          BY <1>1, <1>11, <4>1 DEF Begins
      <3>3. \A j \in i .. L : j \in 1 .. L /\ j \in i .. Len(g) - 1
        BY <1>1, <3>1
      <3>4. \A j \in i .. L : h[j] # Zero
        BY <1>1, <1>11, <3>3
      <3>5. L < i + 3 /\ \A j \in i .. L - 1 : j \in i .. L
        BY <1>1, <3>1
      <3>6. K = L - i + 1
        BY <1>3, <3>1, <3>2, <3>4, <3>5
      <3>7. K >= 1 /\ K <= 2 /\ L \in i .. L
        BY <1>1, <3>1, <3>6
      <3>8. Reader!Accepts(reader)
        <4>1. h[L] # Zero
          BY <3>4, <3>7
        <4>2. ~(K >= RxBufSize)
          BY <1>2, <3>7, PacketAssumption
        <4> QED
          BY <1>6, <1>7, <4>1, <4>2
      <3> QED
        BY <1>1, <1>2, <1>5, <3>1, <3>6, <3>8
    <2> QED
      BY <2>1, <2>2
  <1>12. Holds(g, n)
    BY <1>5, <1>8, <1>9, <1>10, <1>11 DEF Holds, t
  <1> QED
    BY <1>12 DEF g, n

\* Packetman.hpp:99-106, Delim.hpp:98-117: the reader holds the end of what was heard,
\* and nothing that may become a packet is split between two of its messages.
THEOREM HeldInvariance == Spec => []HeldIInv
<1>1. ASSUME Init PROVE HeldIInv
  <2>1. Holds(<<>>, Reader!Empty)
    BY DEF Holds, Reader!Empty
  <2> QED
    BY <1>1, <2>1 DEF Init, HeldIInv
<1>2. IInv /\ HeldIInv /\ [Next]_vars => HeldIInv'
  <2> SUFFICES ASSUME IInv, HeldIInv, [Next]_vars, NEW q \in Endpoints, restarts'[q] = 0
               PROVE  Holds(heard[q], rx_reader[q])'
    BY DEF HeldIInv
  <2>1. TypeOK /\ Holds(heard[q], rx_reader[q])
    <3>1. TypeOK /\ restarts[q] \in Nat
      BY DEF IInv, TypeOK
    <3>2. restarts[q] <= restarts'[q]
      BY <3>1, CountersGrow
    <3>3. restarts[q] = 0
      BY <3>1, <3>2
    <3> QED
      BY <3>1, <3>3 DEF HeldIInv
  <2>2. CASE heard'[q] = heard[q] /\ rx_reader'[q] = rx_reader[q]
    BY <2>1, <2>2
  <2>3. CASE RxByte(q)
    <3> DEFINE byte == Head(line[q])
    <3>1. /\ byte \in Bytes /\ heard[q] \in Seq(Bytes) /\ rx_reader[q] \in Readers
      <4>1. line[q] \in Seq(Bytes) /\ line[q] # <<>>
        BY <2>1, <2>3 DEF RxByte, TypeOK
      <4> QED
        BY <2>1, <4>1, HeadTailProperties DEF TypeOK, Readers
    <3>2. heard'[q] = Append(heard[q], byte) /\ rx_reader'[q] = Fed(rx_reader[q], byte)
      BY <2>1, <2>3 DEF RxByte, Fed, TypeOK
    <3> HIDE DEF byte
    <3>3. Holds(Append(heard[q], byte), Fed(rx_reader[q], byte))
      BY <2>1, <3>1, HoldsOn
    <3> QED
      BY <3>2, <3>3
  <2>4. ASSUME NEW p \in Endpoints, RxByte(p), p # q
        PROVE  heard'[q] = heard[q] /\ rx_reader'[q] = rx_reader[q]
    BY <2>1, <2>4 DEF RxByte, TypeOK
  <2>5. ASSUME NEW p \in Endpoints, Restart(p) \/ Reset(p)
        PROVE  heard'[q] = heard[q] /\ rx_reader'[q] = rx_reader[q]
    <3>1. restarts' = [restarts EXCEPT ![p] = restarts[p] + 1] /\ restarts[p] \in Nat
      BY <2>1, <2>5 DEF Restart, Reset, RestartAllowed, TypeOK
    <3>2. q # p
      BY <2>1, <3>1 DEF TypeOK
    <3> QED
      BY <2>1, <2>5, <3>2 DEF Restart, Reset, TypeOK
  <2>6. ASSUME NEW p \in Endpoints,
               (\E count \in 0 .. 2 : TxPacket(p, count)) \/ Lose(p) \/ Corrupt(p)
        PROVE  heard'[q] = heard[q] /\ rx_reader'[q] = rx_reader[q]
    BY <2>6 DEF TxPacket, Lose, Corrupt
  <2> QED
    BY <2>2, <2>3, <2>4, <2>5, <2>6 DEF Next, vars
<1> QED
  BY <1>1, <1>2, Invariance, PTL DEF Spec

LEMMA Three ==
    ASSUME NEW s \in Seq(Bytes), Len(s) = 3
    PROVE  s = <<s[1], s[2], s[3]>> /\ s # <<>>
  <1>1. s = <<s[1], s[2], s[3]>>
    OBVIOUS
  <1>2. s # <<>>
    OBVIOUS
  <1> QED
    BY <1>1, <1>2

\* The three bytes of s from i on are a packet.
PacketAt(s, i) ==
    /\ s[i] = Part(s[i].id, s[i].order, 1)
    /\ s[i + 1] = Part(s[i].id, s[i].order, 2)
    /\ s[i + 2] = Zero

LEMMA PacketRead ==
    ASSUME NEW t \in Seq(Bytes), Len(t) = 3
    PROVE  Intact(t) <=> PacketAt(t, 1)
  <1>1. t = <<t[1], t[2], t[3]>>
    BY Three
  <1>2. PacketAt(t, 1) <=> /\ t[1] = Part(t[1].id, t[1].order, 1)
                           /\ t[2] = Part(t[1].id, t[1].order, 2) /\ t[3] = Zero
    BY DEF PacketAt
  <1> QED
    BY <1>1, <1>2 DEF Intact, Packet, Part

LEMMA WholePacket ==
    ASSUME NEW s \in Seq(Bytes), NEW i \in 1 .. Len(s) - 2
    PROVE  Intact(SubSeq(s, i, i + 2)) <=> PacketAt(s, i)
  <1> DEFINE t == SubSeq(s, i, i + 2)
  <1>1. /\ t \in Seq(Bytes) /\ Len(t) = 3
        /\ t[1] = s[i] /\ t[2] = s[i + 1] /\ t[3] = s[i + 2]
    <2>1. i \in Int /\ i + 2 \in Int /\ i \in 1 .. Len(s) /\ i + 2 \in 1 .. Len(s) /\ i <= i + 2
      OBVIOUS
    <2> QED
      BY <2>1, SubSeqProperties
  <1> HIDE DEF t
  <1>2. PacketAt(t, 1) <=> PacketAt(s, i)
    BY <1>1 DEF PacketAt
  <1>3. Intact(t) <=> PacketAt(s, i)
    BY <1>1, <1>2, PacketRead
  <1> QED
    BY <1>3 DEF t

\* Nothing that was delivered is forgotten.
LEMMA DeliveredGrows ==
    ASSUME TypeOK, NEW p \in Endpoints, RxByte(p), NEW x \in ToSet(delivered[p])
    PROVE  x \in ToSet(delivered'[p])
  <1> DEFINE d == delivered[p]
  <1>1. d \in Seq(Nat) /\ rx_reader[p].read \in Seq(Bytes)
    BY DEF TypeOK
  <1>2. PICK i \in 1 .. Len(d) : d[i] = x
    BY <1>1 DEF ToSet
  <1>3. ASSUME Intact(rx_reader[p].read), Deliver(p, rx_reader[p].read[1])
        PROVE  x \in ToSet(delivered'[p])
    <2> DEFINE id == rx_reader[p].read[1].id
    <2>1. id \in Nat
      BY <1>1, <1>3, IntactTyped
    <2>2. delivered'[p] = Append(d, id)
      BY <1>3 DEF Deliver, TypeOK
    <2> HIDE DEF d, id
    <2>3. /\ Append(d, id)[i] = x /\ i \in 1 .. Len(Append(d, id))
          /\ Append(d, id) \in Seq(Nat)
      BY <1>1, <1>2, <2>1, Lengthened
    <2>4. DOMAIN Append(d, id) = 1 .. Len(Append(d, id))
      BY <2>3
    <2>5. x \in ToSet(Append(d, id))
      BY <2>3, <2>4, Zenon DEF ToSet
    <2> QED
      BY <2>2, <2>5, Zenon
  <1>4. CASE UNCHANGED delivered
    BY <1>4
  <1>5. CASE Finish(p)
    <2>1. UNCHANGED delivered \/ (Intact(rx_reader[p].read) /\ Deliver(p, rx_reader[p].read[1]))
      BY <1>5 DEF Finish, Discard
    <2> QED
      BY <1>3, <1>4, <2>1
  <1> QED
    BY <1>4, <1>5 DEF RxByte

\* A packet that arrives whole, a zero or nothing before it, is delivered, or is a copy
\* of one that was, as soon as the byte behind it is there: for every fault before it,
\* as long as neither end starts over and no order is used twice.
THEOREM WholeDelivered == Spec => []WholeIsDelivered
<1>1. ASSUME Init PROVE WholeIsDelivered
  <2>1. ASSUME NEW p \in Endpoints PROVE (1 .. Len(heard[p]) - 3) = {}
    BY <1>1 DEF Init
  <2> QED
    BY <2>1 DEF WholeIsDelivered
<1>2. /\ IInv /\ OrderIInv /\ StraightIInv /\ HeldIInv /\ WholeIsDelivered /\ [Next]_vars
      => WholeIsDelivered'
  <2> SUFFICES ASSUME IInv, OrderIInv, StraightIInv, HeldIInv, WholeIsDelivered,
                      [Next]_vars, NEW q \in Endpoints, Undisturbed(q)',
                      NEW i \in 1 .. Len(heard'[q]) - 3,
                      Begins(heard'[q], i), Intact(SubSeq(heard'[q], i, i + 2))
               PROVE  heard'[q][i].id \in ToSet(delivered'[q])
    BY DEF WholeIsDelivered, Begins
  <2>1. TypeOK /\ Undisturbed(q) /\ Straight(q)
    BY DisturbedStays DEF IInv, StraightIInv
  <2>2. CASE heard'[q] = heard[q] /\ delivered'[q] = delivered[q]
    BY <2>1, <2>2 DEF WholeIsDelivered
  <2>3. CASE RxByte(q)
    <3> DEFINE h == heard[q]
               g == heard'[q]
               r == rx_reader[q].read
               byte == Head(line[q])
    <3>1. /\ byte \in Bytes /\ h \in Seq(Bytes) /\ r \in Seq(Bytes)
          /\ rx_reader[q] \in Readers /\ g = Append(h, byte) /\ Holds(h, rx_reader[q])
      <4>1. line[q] \in Seq(Bytes) /\ line[q] # <<>>
        BY <2>1, <2>3 DEF RxByte, TypeOK
      <4>2. byte \in Bytes
        BY <4>1, HeadTailProperties
      <4> QED
        BY <2>1, <2>3, <4>2 DEF RxByte, TypeOK, Readers, HeldIInv, Undisturbed
    <3> HIDE DEF h, g, r, byte
    <3>2. /\ Len(h) \in Nat /\ Len(g) = Len(h) + 1 /\ g \in Seq(Bytes)
          /\ \A j \in 1 .. Len(h) : g[j] = h[j]
      BY <3>1, Appended
    <3>3. i \in 1 .. Len(h) - 2 /\ i \in 1 .. Len(g) - 2
      BY <3>2 DEF g
    <3>4. PacketAt(g, i)
      BY <3>2, <3>3, WholePacket DEF g
    <3>5. /\ i \in 1 .. Len(h) /\ i + 1 \in 1 .. Len(h) /\ i + 2 \in 1 .. Len(h)
          /\ i = 1 \/ i - 1 \in 1 .. Len(h)
      BY <3>2, <3>3
    <3>6. PacketAt(h, i) /\ Begins(h, i) /\ g[i] = h[i]
      BY <3>2, <3>4, <3>5 DEF PacketAt, Begins, g
    <3>7. CASE i <= Len(h) - 3
      <4>1. i \in 1 .. Len(h) - 3
        BY <3>2, <3>3, <3>7
      <4>2. Intact(SubSeq(h, i, i + 2))
        BY <3>1, <3>3, <3>6, WholePacket
      <4>3. h[i].id \in ToSet(delivered[q])
        BY <2>1, <3>6, <4>1, <4>2 DEF WholeIsDelivered, h
      <4> QED
        BY <2>1, <2>3, <3>6, <4>3, DeliveredGrows DEF g
    <3>8. CASE i = Len(h) - 2
      <4>1. Len(r) = 3 /\ r[1] = h[i] /\ r[2] = h[i + 1] /\ r[3] = h[i + 2]
        <5>1. \A j \in i .. Len(h) - 1 : j = i \/ j = i + 1
          BY <3>2, <3>3, <3>8
        <5>2. \A j \in i .. Len(h) - 1 : h[j] # Zero
          BY <3>6, <5>1 DEF PacketAt, Zero, Part
        <5>3. Len(h) < i + 3 /\ Len(h) - i + 1 = 3 /\ Len(h) - 3 + 1 = i
              /\ Len(h) - 3 + 2 = i + 1 /\ Len(h) - 3 + 3 = i + 2
          BY <3>2, <3>3, <3>8
        <5>4. Len(r) = 3
          BY <3>1, <3>5, <3>6, <5>2, <5>3 DEF Holds, r
        <5>5. \A j \in 1 .. 3 : r[j] = h[Len(h) - 3 + j]
          BY <3>1, <5>4 DEF Holds, r
        <5>6. r[1] = h[Len(h) - 3 + 1] /\ r[2] = h[Len(h) - 3 + 2] /\ r[3] = h[Len(h) - 3 + 3]
          BY <5>5
        <5>7. r[1] = h[i]
          BY <5>3, <5>6
        <5>8. r[2] = h[i + 1]
          BY <5>3, <5>6
        <5>9. r[3] = h[i + 2]
          BY <5>3, <5>6
        <5> QED
          BY <5>4, <5>7, <5>8, <5>9
      <4>2. Intact(r) /\ r # <<>> /\ Last(r) = Zero
        <5>1. PacketAt(r, 1)
          BY <3>6, <4>1 DEF PacketAt
        <5>2. Intact(r)
          BY <3>1, <4>1, <5>1, PacketRead
        <5>3. r[3] = Zero
          BY <3>6, <4>1 DEF PacketAt
        <5>4. r # <<>>
          BY <3>1, <4>1, Three
        <5> QED
          BY <4>1, <5>2, <5>3, <5>4 DEF Last
      <4>3. Reader!HaveMatch(rx_reader[q]) /\ ~Reader!Accepts(rx_reader[q])
        <5>1. rx_reader[q].delim_match_size = 1
          BY <3>1, <4>2 DEF Holds, r
        <5> QED
          BY <3>1, <5>1, Readiness
      <4>4. Finish(q)
        BY <2>3, <4>3 DEF RxByte
      <4>5. CASE Relation(r[1].order, last_received[q]) = "same" /\ Discard
        <5>1. Body(r[1])
          BY <4>2 DEF Intact, Body
        <5>2. 1 \in 1 .. Len(Stream(q)) /\ Stream(q)[1] = r[1]
          <6>1. line[q] \in Seq(Bytes) /\ Stream(q) = r \o line[q]
            BY <2>1, StreamTyped DEF Stream, r
          <6>2. /\ Len(line[q]) \in Nat /\ Len(r \o line[q]) = Len(r) + Len(line[q])
                /\ \A j \in 1 .. Len(r) : (r \o line[q])[j] = r[j]
            BY <3>1, <6>1, Joined
          <6> QED
            BY <4>1, <6>1, <6>2
        <5>3. r[1].order = r[1].id /\ r[1].id # 0
          BY <2>1, <5>1, <5>2 DEF Straight, Numbered
        <5>4. r[1].id = LastDelivered(q)
          BY <2>1, <4>5, <5>3 DEF Straight, Relation
        <5>5. delivered[q] # <<>> /\ Last(delivered[q]) = r[1].id
          BY <5>3, <5>4 DEF LastDelivered
        <5>6. r[1].id \in ToSet(delivered[q])
          <6>1. delivered[q] \in Seq(Nat) /\ Len(delivered[q]) \in 1 .. Len(delivered[q])
            BY <2>1, <5>5, LastTyped
          <6> QED
            BY <5>5, <6>1 DEF ToSet, Last
        <5> QED
          BY <3>6, <4>1, <4>5, <5>6 DEF Discard, g
      <4>6. CASE Deliver(q, r[1])
        <5>1. delivered'[q] = Append(delivered[q], r[1].id)
          BY <2>1, <4>6 DEF Deliver, TypeOK
        <5>2. r[1].id \in Nat /\ delivered[q] \in Seq(Nat)
          BY <2>1, <3>1, <4>2, IntactTyped DEF TypeOK
        <5> DEFINE d == delivered[q]
                   id == r[1].id
        <5> HIDE DEF d, id
        <5>3. /\ Len(d) \in Nat /\ Len(Append(d, id)) = Len(d) + 1
              /\ Append(d, id)[Len(d) + 1] = id /\ Append(d, id) \in Seq(Nat)
          BY <5>2, Lengthened DEF d, id
        <5>4. id \in ToSet(Append(d, id))
          BY <5>3 DEF ToSet
        <5> QED
          BY <3>6, <4>1, <5>1, <5>4 DEF d, id, g
      <4> QED
        BY <4>2, <4>3, <4>4, <4>5, <4>6 DEF Finish, r
    <3> QED
      BY <3>2, <3>3, <3>7, <3>8
  <2>4. ASSUME NEW p \in Endpoints, RxByte(p), p # q
        PROVE  heard'[q] = heard[q] /\ delivered'[q] = delivered[q]
    BY <2>1, <2>4 DEF RxByte, Finish, Deliver, Discard, TypeOK
  <2>5. ASSUME NEW p \in Endpoints, Restart(p) \/ Reset(p)
        PROVE  heard'[q] = heard[q] /\ delivered'[q] = delivered[q]
    <3>1. restarts' = [restarts EXCEPT ![p] = restarts[p] + 1] /\ restarts[p] \in Nat
      BY <2>1, <2>5 DEF Restart, Reset, RestartAllowed, TypeOK
    <3>2. q # p
      BY <2>1, <3>1 DEF Undisturbed, TypeOK
    <3> QED
      BY <2>1, <2>5, <3>2 DEF Restart, Reset, TypeOK
  <2>6. ASSUME NEW p \in Endpoints,
               (\E count \in 0 .. 2 : TxPacket(p, count)) \/ Lose(p) \/ Corrupt(p)
        PROVE  heard'[q] = heard[q] /\ delivered'[q] = delivered[q]
    BY <2>6 DEF TxPacket, Lose, Corrupt
  <2> QED
    BY <2>2, <2>3, <2>4, <2>5, <2>6 DEF Next, vars
<1> QED
  BY <1>1, <1>2, Invariance, OrderInvariance, StraightInvariance, HeldInvariance,
     PTL DEF Spec

-----------------------------------------------------------------------------
(* Why an endpoint starts over.  The orders of what is sent to it rise      *)
(* except where the sender started over, or ran out of orders; and packets  *)
(* are not taken out of turn, so each fall is met once.                     *)

Trace == [Nat -> Nat]

LEMMA QuietThinned ==
    ASSUME NEW p \in Endpoints, Quiet(p), Thins(Stream(p)', Stream(p))
    PROVE  Quiet(p)'
  <1>1. PICK m \in [1 .. Len(Stream(p)') -> 1 .. Len(Stream(p))] :
               \A i \in 1 .. Len(Stream(p)') :
                  Stream(p)'[i] = Stream(p)[m[i]] \/ ~Body(Stream(p)'[i])
    BY DEF Thins
  <1> QED
    BY <1>1 DEF Quiet

LEMMA AlongThinned ==
    ASSUME NEW s, NEW t, NEW o, NEW n, NEW g, Along(s, o, n, g), Thins(t, s)
    PROVE  Along(t, o, n, g)
  <1>1. PICK m \in [1 .. Len(t) -> 1 .. Len(s)] :
               \A i \in 1 .. Len(t) : t[i] = s[m[i]] \/ ~Body(t[i])
    BY DEF Thins
  <1>2. ASSUME NEW i \in 1 .. Len(t), Body(t[i])
        PROVE  t[i].id \in 1 .. n /\ t[i].id >= g /\ t[i].order = o[t[i].id]
    <2>1. m[i] \in 1 .. Len(s) /\ t[i] = s[m[i]]
      BY <1>1, <1>2
    <2> QED
      BY <1>2, <2>1 DEF Along
  <1> QED
    BY <1>2 DEF Along

\* Nothing is sent to p, nor delivered.
LEMMA FallsThinned ==
    ASSUME NEW p \in Endpoints, NEW e \in Trace, NEW o \in Trace,
           NEW w \in Nat, NEW g \in Nat, Falls(p, e, o, w, g),
           Thins(Stream(p)', Stream(p)),
           last_sent'[Peer(p)] = last_sent[Peer(p)], sent'[Peer(p)] = sent[Peer(p)],
           restarts'[Peer(p)] = restarts[Peer(p)],
           last_received'[p] \in {last_received[p], 0},
           stats'[p].state_resets <= restarts'[p] + e[g]
    PROVE  Falls(p, e, o, w, g)'
  <1>1. Along(Stream(p)', o, sent[Peer(p)], g)
    BY AlongThinned DEF Falls
  <1> QED
    BY <1>1 DEF Falls

\* One packet more, in the same stretch or in a later one.
LEMMA RisingOn ==
    ASSUME NEW e \in Trace, NEW o \in Trace, NEW n \in Nat, NEW c \in Nat, NEW last \in Nat,
           Rising(e, o, n, c, last), NEW c1 \in Nat, NEW order \in Nat,
           c < c1 \/ (c = c1 /\ last < order)
    PROVE  Rising([e EXCEPT ![n + 1] = c1], [o EXCEPT ![n + 1] = order], n + 1, c1, order)
  <1> DEFINE e1 == [e EXCEPT ![n + 1] = c1]
             o1 == [o EXCEPT ![n + 1] = order]
  <1>1. e1[n + 1] = c1 /\ o1[n + 1] = order /\ e1[0] = e[0]
    BY DEF Trace
  <1>2. ASSUME NEW x \in 1 .. n
        PROVE  /\ e[x] \in Nat /\ o[x] \in Nat /\ e1[x] = e[x] /\ o1[x] = o[x]
               /\ e[x] < c1 \/ (e[x] = c1 /\ o[x] < order)
    <2>1. e[x] \in Nat /\ o[x] \in Nat /\ e1[x] = e[x] /\ o1[x] = o[x]
      BY DEF Trace
    <2>2. e[x] < c \/ (e[x] = c /\ o[x] <= last)
      BY DEF Rising
    <2> HIDE DEF e1, o1
    <2> QED
      BY <2>1, <2>2
  <1> HIDE DEF e1, o1
  <1>3. ASSUME NEW x \in 1 .. n + 1
        PROVE  e1[x] < c1 \/ (e1[x] = c1 /\ o1[x] <= order)
    <2>1. CASE x = n + 1
      BY <1>1, <2>1
    <2>2. CASE x \in 1 .. n
      BY <1>2, <2>2
    <2> QED
      BY <2>1, <2>2
  <1>4. ASSUME NEW x \in 1 .. n + 1, NEW y \in 1 .. n + 1, x < y
        PROVE  e1[x] < e1[y] \/ (e1[x] = e1[y] /\ o1[x] < o1[y])
    <2>1. x \in 1 .. n /\ (y \in 1 .. n \/ y = n + 1)
      BY <1>4
    <2>2. CASE y = n + 1
      BY <1>1, <1>2, <2>1, <2>2
    <2>3. CASE y \in 1 .. n
      <3>1. e[x] < e[y] \/ (e[x] = e[y] /\ o[x] < o[y])
        BY <1>4, <2>1, <2>3 DEF Rising
      <3> QED
        BY <1>2, <2>1, <2>3, <3>1
    <2> QED
      BY <2>1, <2>2, <2>3
  <1>5. Rising(e1, o1, n + 1, c1, order)
    BY <1>1, <1>3, <1>4 DEF Rising
  <1> QED
    BY <1>5 DEF e1, o1

\* The packet's copies join what is on its way.
LEMMA AlongOn ==
    ASSUME NEW s \in Seq(Bytes), NEW t \in Seq(Bytes), NEW o \in Trace,
           NEW n \in Nat, NEW g \in Nat, g <= n, Along(s, o, n, g), NEW order \in Nat,
           \A i \in 1 .. Len(t) : Body(t[i]) => t[i].id = n + 1 /\ t[i].order = order
    PROVE  Along(s \o t, [o EXCEPT ![n + 1] = order], n + 1, g)
  <1> DEFINE o1 == [o EXCEPT ![n + 1] = order]
             u == s \o t
  <1>1. o1[n + 1] = order /\ \A x \in 1 .. n : o1[x] = o[x]
    BY DEF Trace
  <1>2. /\ Len(s) \in Nat /\ Len(t) \in Nat /\ Len(u) = Len(s) + Len(t)
        /\ \A i \in 1 .. Len(s) : u[i] = s[i]
        /\ \A i \in 1 .. Len(t) : u[Len(s) + i] = t[i]
    BY Joined
  <1> HIDE DEF o1, u
  <1>3. ASSUME NEW i \in 1 .. Len(u), Body(u[i])
        PROVE  u[i].id \in 1 .. n + 1 /\ u[i].id >= g /\ u[i].order = o1[u[i].id]
    <2>1. CASE i \in 1 .. Len(s)
      <3>1. /\ s[i].id \in 1 .. n /\ s[i].id >= g /\ s[i].order = o[s[i].id]
            /\ u[i] = s[i]
        BY <1>2, <1>3, <2>1 DEF Along
      <3> QED
        BY <1>1, <3>1
    <2>2. CASE i - Len(s) \in 1 .. Len(t)
      <3>1. i = Len(s) + (i - Len(s))
        BY <1>2
      <3>2. u[i] = t[i - Len(s)]
        BY <1>2, <2>2, <3>1
      <3>3. u[i].id = n + 1 /\ u[i].order = order
        BY <1>3, <2>2, <3>2
      <3> QED
        BY <1>1, <3>3
    <2> QED
      BY <1>2, <2>1, <2>2
  <1>4. Along(u, o1, n + 1, g)
    BY <1>3 DEF Along
  <1> QED
    BY <1>4 DEF u, o1

\* The next order: the stretch goes on, or the orders start again at 0.
LEMMA NextOrder ==
    ASSUME NEW last \in Orders, NEW w \in Nat, NEW n \in Nat, OrderMod * w + last <= n
    PROVE  \E w1 \in Nat :
              /\ OrderMod * w1 + ((last + 1) % OrderMod) <= n + 1
              /\ w < w1 \/ (w = w1 /\ last < (last + 1) % OrderMod)
  <1>1. last \in 0 .. OrderMod - 1 /\ OrderMod \in Nat \ {0}
    BY Sizes DEF Orders
  <1>2. CASE last + 1 < OrderMod
    <2>1. last + 1 \in 0 .. OrderMod - 1
      BY <1>1, <1>2
    <2>2. (last + 1) % OrderMod = last + 1
      BY <2>1, OrderOfSmall
    <2>3. OrderMod * w \in Nat
      BY <1>1, Z3
    <2>4. OrderMod * w + (last + 1) <= n + 1 /\ last < last + 1
      BY <1>1, <2>3
    <2> QED
      BY <2>2, <2>4
  <1>3. CASE last + 1 = OrderMod
    <2>1. OrderMod = 0 + OrderMod * 1 /\ 0 \in 0 .. OrderMod - 1 /\ OrderMod \in Int
      BY <1>1
    <2>2. OrderMod % OrderMod = 0
      BY <1>1, <2>1, RemainderOf
    <2>3. OrderMod * (w + 1) = OrderMod * w + OrderMod /\ OrderMod * w \in Nat
      BY <1>1, Z3
    <2>4. OrderMod * (w + 1) + 0 <= n + 1 /\ w + 1 \in Nat /\ w < w + 1
      BY <1>1, <1>3, <2>3
    <2> QED
      BY <1>3, <2>2, <2>4
  <1> QED
    BY <1>1, <1>2, <1>3

LEMMA SendingFalls ==
    ASSUME TypeOK, NEW p \in Endpoints, NEW e \in Trace, NEW o \in Trace,
           NEW w \in Nat, NEW g \in Nat, Falls(p, e, o, w, g),
           NEW count \in 0 .. 2, TxPacket(Peer(p), count)
    PROVE  \E e1, o1 \in Trace, w1, g1 \in Nat : Falls(p, e1, o1, w1, g1)'
  <1> DEFINE q == Peer(p)
             n == sent[q]
             last == last_sent[q]
             order == (last + 1) % OrderMod
             t == Copies(n + 1, order, count)
             s == Stream(p)
  <1>1. /\ q \in Endpoints /\ q # p /\ Peer(q) = p
        /\ n \in Nat /\ last \in Orders /\ restarts[q] \in Nat /\ s \in Seq(Bytes)
    BY PacketAssumption, StreamTyped DEF TypeOK
  <1>2. /\ restarts' = restarts /\ stats' = stats /\ last_received' = last_received
        /\ sent'[q] = n + 1 /\ last_sent'[q] = order
    BY <1>1 DEF TxPacket, TypeOK
  <1>3. /\ t \in Seq(Bytes) /\ Stream(p)' = s \o t /\ order \in Orders
        /\ \A i \in 1 .. Len(t) : Body(t[i]) => t[i].id = n + 1 /\ t[i].order = order
    BY <1>1, SendingJoins
  <1>4. /\ OrderMod * w + last <= n /\ g <= n
        /\ Rising(e, o, n, restarts[q] + w, last) /\ Along(s, o, n, g)
        /\ last_received[p] # 0 => g # 0 /\ last_received[p] = o[g]
        /\ stats[p].state_resets <= restarts[p] + e[g]
    BY DEF Falls
  <1>5. PICK w1 \in Nat : /\ OrderMod * w1 + order <= n + 1
                          /\ w < w1 \/ (w = w1 /\ last < order)
    BY <1>1, <1>4, NextOrder
  <1> HIDE DEF order, t, s
  <1>6. /\ order \in Nat /\ last \in Nat /\ restarts[q] + w \in Nat /\ restarts[q] + w1 \in Nat
        /\ \/ restarts[q] + w < restarts[q] + w1
           \/ restarts[q] + w = restarts[q] + w1 /\ last < order
    <2>1. Orders \subseteq Nat
      BY Sizes DEF Orders
    <2>2. order \in Nat /\ last \in Nat /\ restarts[q] \in Nat
      BY <1>1, <1>3, <2>1
    <2> HIDE DEF last
    <2> QED
      BY <1>5, <2>2
  <1>7. PICK e1 \in Trace : e1 = [e EXCEPT ![n + 1] = restarts[q] + w1]
    BY <1>1, <1>6 DEF Trace
  <1>8. PICK o1 \in Trace : o1 = [o EXCEPT ![n + 1] = order]
    BY <1>1, <1>6 DEF Trace
  <1> HIDE DEF n, last
  <1>9. Rising(e1, o1, n + 1, restarts[q] + w1, order)
    BY <1>1, <1>4, <1>6, <1>7, <1>8, RisingOn
  <1>10. Along(s \o t, o1, n + 1, g)
    BY <1>1, <1>3, <1>4, <1>6, <1>8, AlongOn
  <1>11. e1[g] = e[g] /\ o1[g] = o[g] /\ g <= n + 1
    <2>1. g # n + 1 /\ g <= n + 1
      BY <1>1, <1>4
    <2> QED
      BY <1>1, <1>7, <1>8, <2>1 DEF Trace
  <1>12. restarts'[q] + w1 = restarts[q] + w1
    BY <1>2
  <1> HIDE DEF q
  <1>13. Peer(p) = q
    BY DEF q
  <1>14. /\ OrderMod * w1 + last_sent'[q] <= sent'[q]
         /\ Rising(e1, o1, sent'[q], restarts'[q] + w1, last_sent'[q])
         /\ Along(Stream(p)', o1, sent'[q], g)
         /\ g <= sent'[q]
    BY <1>2, <1>3, <1>5, <1>9, <1>10, <1>11, <1>12
  <1>15. /\ last_received'[p] # 0 => g # 0 /\ last_received'[p] = o1[g]
         /\ stats'[p].state_resets <= restarts'[p] + e1[g]
    BY <1>2, <1>4, <1>11
  <1>16. Falls(p, e1, o1, w1, g)'
    BY <1>13, <1>14, <1>15 DEF Falls
  <1> QED
    BY <1>16

\* A packet is taken after g.  One whose order is below the last one's lies behind a
\* fall of the orders.
LEMMA TakenRises ==
    ASSUME NEW e \in Trace, NEW o \in Trace, NEW n \in Nat, NEW c, NEW l,
           Rising(e, o, n, c, l), NEW g \in Nat, NEW id \in 1 .. n, g <= id,
           NEW last \in Nat, last # 0 => g # 0 /\ last = o[g]
    PROVE  /\ e[g] \in Nat /\ e[id] \in Nat /\ e[g] <= e[id]
           /\ o[id] < last => e[g] < e[id]
  <1>1. e[g] \in Nat /\ e[id] \in Nat /\ o[g] \in Nat /\ o[id] \in Nat /\ e[0] = 0
    BY DEF Trace, Rising
  <1>2. g # 0 /\ g < id => e[g] < e[id] \/ (e[g] = e[id] /\ o[g] < o[id])
    <2>1. g # 0 /\ g < id => g \in 1 .. n
      OBVIOUS
    <2> QED
      BY <2>1 DEF Rising
  <1>3. e[g] <= e[id]
    <2>1. g = 0 \/ (g # 0 /\ g < id) \/ g = id
      OBVIOUS
    <2>2. CASE g = 0
      BY <1>1, <2>2
    <2>3. CASE g # 0 /\ g < id
      BY <1>1, <1>2, <2>3
    <2>4. CASE g = id
      BY <1>1, <2>4
    <2> QED
      BY <2>1, <2>2, <2>3, <2>4
  <1>4. ASSUME o[id] < last PROVE e[g] < e[id]
    <2>1. last # 0
      BY <1>1, <1>4
    <2>2. g # 0 /\ o[id] < o[g]
      BY <1>4, <2>1
    <2>3. g # id
      BY <1>1, <2>2
    <2>4. g < id
      BY <2>3
    <2> QED
      BY <1>1, <1>2, <2>2, <2>4
  <1> QED
    BY <1>1, <1>3, <1>4

\* The packet at the head of the stream, and what follows it.
LEMMA HeadOfStream ==
    ASSUME TypeOK, OrderIInv, NEW p \in Endpoints, Intact(rx_reader[p].read),
           NEW o, NEW n \in Nat, NEW g \in Nat, Along(Stream(p), o, n, g)
    PROVE  LET b == rx_reader[p].read[1]
           IN  /\ Body(b) /\ b.order \in Orders
               /\ b.id \in 1 .. n /\ b.id >= g /\ b.order = o[b.id]
               /\ Along(line[p], o, n, b.id)
  <1> DEFINE r == rx_reader[p].read
             l == line[p]
             b == r[1]
             s == Stream(p)
  <1>1. /\ r \in Seq(Bytes) /\ l \in Seq(Bytes) /\ s = r \o l
        /\ Len(r) = 3 /\ Body(b) /\ b.order \in Orders
    BY StreamTyped, IntactTyped DEF Intact, Body, Stream
  <1>2. Ascending(s)
    BY DEF OrderIInv, OrderKept
  <1> HIDE DEF r, l, s
  <1>3. /\ Len(l) \in Nat /\ Len(s) = Len(r) + Len(l)
        /\ \A i \in 1 .. Len(r) : s[i] = r[i]
        /\ \A i \in 1 .. Len(l) : s[Len(r) + i] = l[i]
    BY <1>1, Joined
  <1>4. 1 \in 1 .. Len(s) /\ s[1] = b
    BY <1>1, <1>3
  <1> HIDE DEF b
  <1>5. b.id \in 1 .. n /\ b.id >= g /\ b.order = o[b.id]
    BY <1>1, <1>4 DEF Along, s
  <1>6. ASSUME NEW i \in 1 .. Len(l), Body(l[i])
        PROVE  l[i].id \in 1 .. n /\ l[i].id >= b.id /\ l[i].order = o[l[i].id]
    <2>1. 3 + i \in 1 .. Len(s) /\ 1 < 3 + i /\ s[3 + i] = l[i]
      BY <1>1, <1>3
    <2>2. l[i].id \in 1 .. n /\ l[i].order = o[l[i].id]
      BY <1>6, <2>1 DEF Along, s
    <2>3. NotBefore(b, l[i])
      BY <1>2, <1>4, <2>1 DEF Ascending
    <2>4. b.id <= l[i].id
      BY <1>1, <1>6, <2>3 DEF NotBefore
    <2> QED
      BY <1>5, <2>2, <2>4
  <1>7. Along(l, o, n, b.id)
    BY <1>6 DEF Along
  <1> QED
    BY <1>1, <1>5, <1>7 DEF b, r, l

LEMMA ReadingFalls ==
    ASSUME TypeOK, OrderIInv, NEW p \in Endpoints, RxByte(p),
           NEW e \in Trace, NEW o \in Trace,
           NEW w \in Nat, NEW g \in Nat, Falls(p, e, o, w, g)
    PROVE  \E g1 \in Nat : Falls(p, e, o, w, g1)'
  <1> DEFINE q == Peer(p)
             n == sent[q]
             r == rx_reader[p].read
             b == r[1]
             last == last_received[p]
             s == stats[p]
  <1>1. /\ q \in Endpoints /\ q # p /\ restarts' = restarts /\ sent' = sent
        /\ last_sent'[q] = last_sent[q] /\ s \in Stats /\ restarts[p] \in Nat
        /\ n \in Nat /\ last \in Orders
    BY PacketAssumption DEF RxByte, Finish, Discard, TypeOK
  <1>2. ASSUME last_received' = last_received, stats'[p].state_resets = s.state_resets
        PROVE  Falls(p, e, o, w, g)'
    <2>1. stats'[p].state_resets <= restarts'[p] + e[g]
      BY <1>1, <1>2 DEF Falls
    <2>2. Thins(Stream(p)', Stream(p))
      BY ReadThins
    <2> QED
      BY <1>1, <1>2, <2>1, <2>2, FallsThinned
  <1>3. /\ Overrun(s).state_resets = s.state_resets
        /\ Error(s).state_resets = s.state_resets
        /\ Redundant(s).state_resets = s.state_resets
        /\ \A x, y : Accepted(s, x, y).state_resets = s.state_resets
        /\ \A x, y : Accepted(ResetState(s), x, y).state_resets = s.state_resets + 1
    BY <1>1 DEF Overrun, Error, Redundant, Accepted, ResetState, NoStats, Totalled, Stats
  <1>4. ASSUME Intact(r), ~Reader!Accepts(rx_reader[p]), Deliver(p, b),
               \/ stats'[p].state_resets = s.state_resets
               \/ b.order < last /\ stats'[p].state_resets = s.state_resets + 1
        PROVE  \E g1 \in Nat : Falls(p, e, o, w, g1)'
    <2>1. /\ OrderMod * w + last_sent[q] <= n
          /\ Rising(e, o, n, restarts[q] + w, last_sent[q])
          /\ Along(Stream(p), o, n, g)
          /\ last # 0 => g # 0 /\ last = o[g]
          /\ s.state_resets <= restarts[p] + e[g]
      BY DEF Falls
    <2>2. /\ b.id \in 1 .. n /\ b.id >= g /\ b.order = o[b.id]
          /\ Along(line[p], o, n, b.id)
      BY <1>1, <1>4, <2>1, HeadOfStream
    <2>3. last_received'[p] = b.order /\ Stream(p)' = line[p]
      BY <1>4, ReadThins DEF Deliver, TypeOK
    <2>4. last \in Nat /\ s.state_resets \in Nat
      BY <1>1, Sizes, StatsFields DEF Orders
    <2> HIDE DEF b, last, s, n
    <2>5. /\ e[g] \in Nat /\ e[b.id] \in Nat /\ e[g] <= e[b.id]
          /\ o[b.id] < last => e[g] < e[b.id]
      <3>1. g <= b.id
        BY <1>1, <2>2
      <3> QED
        BY <1>1, <2>1, <2>2, <2>4, <3>1, TakenRises
    <2>6. stats'[p].state_resets <= restarts'[p] + e[b.id]
      <3>1. CASE stats'[p].state_resets = s.state_resets
        BY <1>1, <2>1, <2>4, <2>5, <3>1
      <3>2. CASE b.order < last /\ stats'[p].state_resets = s.state_resets + 1
        <4>1. e[g] < e[b.id]
          BY <2>2, <2>5, <3>2
        <4> QED
          BY <1>1, <2>1, <2>4, <2>5, <3>2, <4>1
      <3> QED
        BY <1>4, <3>1, <3>2
    <2>7. sent'[q] = n /\ restarts'[q] = restarts[q]
      BY <1>1 DEF n
    <2>8. b.id # 0 /\ b.id <= n
      BY <1>1, <2>2
    <2>9. PICK g1 \in Nat : g1 = b.id
      BY <1>1, <2>2
    <2>10. /\ OrderMod * w + last_sent'[q] <= sent'[q]
           /\ Rising(e, o, sent'[q], restarts'[q] + w, last_sent'[q])
           /\ Along(Stream(p)', o, sent'[q], g1)
           /\ g1 <= sent'[q]
      BY <1>1, <2>1, <2>2, <2>3, <2>7, <2>8, <2>9
    <2>11. /\ last_received'[p] # 0 => g1 # 0 /\ last_received'[p] = o[g1]
           /\ stats'[p].state_resets <= restarts'[p] + e[g1]
      BY <2>2, <2>3, <2>6, <2>8, <2>9
    <2>12. Falls(p, e, o, w, g1)'
      BY <2>10, <2>11 DEF Falls
    <2> QED
      BY <2>12
  <1>5. CASE Reader!Accepts(rx_reader[p])
    <2>1. last_received' = last_received /\ stats' = stats
      BY <1>5 DEF RxByte
    <2> QED
      BY <1>2, <2>1
  <1>6. CASE ~Reader!Accepts(rx_reader[p])
    <2>1. Finish(p)
      BY <1>6 DEF RxByte
    <2>2. CASE Discard /\ \E x \in {Overrun(s), Error(s), Redundant(s)} :
                              stats' = [stats EXCEPT ![p] = x]
      <3>1. stats'[p].state_resets = s.state_resets /\ last_received' = last_received
        BY <1>3, <2>2 DEF Discard, TypeOK
      <3> QED
        BY <1>2, <3>1
    <2>3. CASE /\ Intact(r) /\ Deliver(p, b)
               /\ stats' = [stats EXCEPT ![p] = Accepted(@, b.order, last)]
      <3>1. stats'[p].state_resets = s.state_resets
        BY <1>3, <2>3 DEF TypeOK
      <3> QED
        BY <1>4, <1>6, <2>3, <3>1
    <2>4. CASE /\ Intact(r) /\ Relation(b.order, last) = "earlier" /\ Deliver(p, b)
               /\ stats' = [stats EXCEPT ![p] = Accepted(ResetState(@), b.order, 0)]
      <3>1. stats'[p].state_resets = s.state_resets + 1
        BY <1>3, <2>4 DEF TypeOK
      <3>2. b.order < last
        BY <2>4 DEF Relation
      <3> QED
        BY <1>4, <1>6, <2>4, <3>1, <3>2
    <2> HIDE DEF s
    <2> QED
      BY <2>1, <2>2, <2>3, <2>4 DEF Finish, s
  <1> QED
    BY <1>5, <1>6

\* A step that leaves p, and what its sender counts, as they are.
LEMMA FallsUntouched ==
    ASSUME TypeOK, NEW p \in Endpoints, NEW e \in Trace, NEW o \in Trace,
           NEW w \in Nat, NEW g \in Nat, Falls(p, e, o, w, g),
           Thins(Stream(p)', Stream(p)), last_sent'[Peer(p)] = last_sent[Peer(p)],
           sent' = sent, restarts' = restarts,
           last_received'[p] = last_received[p], stats'[p] = stats[p]
    PROVE  Falls(p, e, o, w, g)'
  <1>1. stats'[p].state_resets <= restarts'[p] + e[g]
    BY DEF Falls
  <1> QED
    BY <1>1, StreamTyped, FallsThinned

\* An endpoint that hears no packet does not start over of itself.
LEMMA QuietReads ==
    ASSUME TypeOK, NEW q \in Endpoints, Quiet(q), RxByte(q)
    PROVE  last_sent' = last_sent
  <1> DEFINE r == rx_reader[q].read
  <1>1. ASSUME Intact(r) PROVE FALSE
    <2>1. r \in Seq(Bytes) /\ line[q] \in Seq(Bytes) /\ Stream(q) = r \o line[q]
      BY StreamTyped DEF Stream
    <2>2. Len(r) = 3 /\ Body(r[1])
      BY <1>1 DEF Intact, Body
    <2> HIDE DEF r
    <2>3. /\ Len(line[q]) \in Nat /\ Len(Stream(q)) = Len(r) + Len(line[q])
          /\ \A i \in 1 .. Len(r) : Stream(q)[i] = r[i]
      BY <2>1, Joined
    <2>4. 1 \in 1 .. Len(Stream(q)) /\ Stream(q)[1] = r[1]
      BY <2>2, <2>3
    <2> QED
      BY <2>2, <2>4 DEF Quiet
  <1> QED
    BY <1>1 DEF RxByte, Finish, Discard

\* Packetman.hpp:81-91, 109-113, 236-241: as far as orders fall among the packets sent,
\* the sender started over or its orders wrapped; the receiver starts over at such a
\* fall only.
THEOREM ResetsInvariance == Spec => []ResetsIInv
<1>1. ASSUME Init PROVE ResetsIInv
  <2> DEFINE zero == [x \in Nat |-> 0]
  <2>1. zero \in [Nat -> Nat] /\ zero[0] = 0
    OBVIOUS
  <2>2. ASSUME NEW p \in Endpoints PROVE Quiet(Peer(p)) /\ Falls(p, zero, zero, 0, 0)
    <3>1. Peer(p) \in Endpoints
      BY PacketAssumption
    <3>2. /\ last_sent[Peer(p)] = 0 /\ sent[Peer(p)] = 0 /\ restarts[p] = 0
          /\ last_received[p] = 0 /\ stats[p].state_resets = 0
          /\ Stream(p) = <<>> /\ Stream(Peer(p)) = <<>>
      BY <1>1, <3>1 DEF Init, Stream, Reader!Empty, NoStats
    <3>3. OrderMod * 0 = 0
      BY Sizes
    <3>4. Rising(zero, zero, 0, restarts[Peer(p)] + 0, 0)
      BY <2>1 DEF Rising
    <3> HIDE DEF zero
    <3> QED
      BY <2>1, <3>2, <3>3, <3>4 DEF Quiet, Falls, Along
  <2> HIDE DEF zero
  <2> QED
    BY <2>1, <2>2 DEF ResetsIInv
<1>2. IInv /\ OrderIInv /\ ResetsIInv /\ [Next]_vars => ResetsIInv'
  <2> SUFFICES ASSUME IInv, OrderIInv, ResetsIInv, [Next]_vars,
                      NEW p \in Endpoints \ Senders
               PROVE  /\ Quiet(Peer(p))'
                      /\ \E e, o \in Trace, w, g \in Nat : Falls(p, e, o, w, g)'
    BY DEF ResetsIInv, Trace
  <2> DEFINE q == Peer(p)
             Kept == \E e, o \in Trace, w, g \in Nat : Falls(p, e, o, w, g)'
  <2>1. /\ TypeOK /\ Quiet(q) /\ q \in Endpoints /\ q # p /\ Peer(q) = p
        /\ restarts[p] \in Nat /\ restarts[q] \in Nat
    BY PacketAssumption DEF IInv, TypeOK, ResetsIInv
  <2>2. PICK e \in Trace, o \in Trace, w \in Nat, g \in Nat : Falls(p, e, o, w, g)
    BY DEF ResetsIInv, Trace
  <2>3. /\ Stream(p) \in Seq(Bytes) /\ Stream(q) \in Seq(Bytes)
        /\ Thins(Stream(p), Stream(p)) /\ Thins(Stream(q), Stream(q))
    BY <2>1, StreamTyped, ThinsItself
  <2>4. ASSUME NEW x \in Endpoints, NEW count \in 0 .. 2, TxPacket(x, count)
        PROVE  Quiet(q)' /\ Kept
    <3>1. x # p
      BY <2>4 DEF TxPacket
    <3>2. Stream(q)' = Stream(q)
      <4>1. q # Peer(x)
        BY <2>1, <3>1, PacketAssumption
      <4> QED
        BY <2>1, <2>4, <4>1, SendingJoins
    <3>3. CASE x = q
      BY <2>1, <2>2, <2>3, <2>4, <3>2, <3>3, SendingFalls, QuietThinned
    <3>4. CASE x # q
      <4>1. Stream(p)' = Stream(p)
        <5>1. p # Peer(x)
          BY <2>1, <3>4, PacketAssumption
        <5> QED
          BY <2>1, <2>4, <5>1, SendingJoins
      <4>2. /\ last_sent'[q] = last_sent[q] /\ sent'[q] = sent[q] /\ restarts' = restarts
            /\ last_received' = last_received /\ stats' = stats
        BY <2>1, <2>4, <3>4 DEF TxPacket, TypeOK
      <4>3. stats'[p].state_resets <= restarts'[p] + e[g]
        BY <2>2, <4>2 DEF Falls
      <4>4. Falls(p, e, o, w, g)'
        BY <2>1, <2>2, <2>3, <4>1, <4>2, <4>3, FallsThinned
      <4> QED
        BY <2>1, <2>3, <3>2, <4>4, QuietThinned
    <3> QED
      BY <3>3, <3>4
  <2>5. ASSUME NEW x \in Endpoints, RxByte(x) PROVE Quiet(q)' /\ Kept
    <3>1. \A y \in Endpoints \ {x} :
             /\ Stream(y)' = Stream(y) /\ last_sent'[y] = last_sent[y]
             /\ last_received'[y] = last_received[y] /\ stats'[y] = stats[y]
      BY <2>1, <2>5 DEF RxByte, Finish, Deliver, Discard, Stream, TypeOK
    <3>2. sent' = sent /\ restarts' = restarts
      BY <2>5 DEF RxByte
    <3>3. Quiet(q)'
      <4>1. Thins(Stream(q)', Stream(q))
        BY <2>1, <2>3, <2>5, <3>1, ReadThins
      <4> QED
        BY <2>1, <4>1, QuietThinned
    <3>4. CASE x = p
      BY <2>1, <2>2, <2>5, <3>3, <3>4, ReadingFalls
    <3>5. CASE x # p
      <4>1. last_sent'[q] = last_sent[q]
        BY <2>1, <2>5, <3>1, QuietReads
      <4>2. Falls(p, e, o, w, g)'
        BY <2>1, <2>2, <2>3, <3>1, <3>2, <3>5, <4>1, FallsUntouched
      <4> QED
        BY <3>3, <4>2
    <3> QED
      BY <3>4, <3>5
  <2>6. ASSUME NEW x \in Endpoints, Lose(x) \/ Corrupt(x) PROVE Quiet(q)' /\ Kept
    <3>1. UNCHANGED <<last_sent, last_received, stats, sent, rx_reader, restarts>>
      BY <2>6 DEF Lose, Corrupt
    <3>2. \A y \in Endpoints : Thins(Stream(y)', Stream(y))
      <4>1. ASSUME NEW y \in Endpoints \ {x} PROVE Stream(y)' = Stream(y)
        BY <2>1, <2>6, <3>1 DEF Lose, Corrupt, Stream, TypeOK
      <4>2. ASSUME NEW y \in Endpoints \ {x} PROVE Thins(Stream(y)', Stream(y))
        BY <2>1, <4>1, StreamTyped, ThinsItself
      <4> QED
        BY <2>1, <2>6, <4>2, LineThins
    <3>3. Falls(p, e, o, w, g)'
      BY <2>1, <2>2, <3>1, <3>2, FallsUntouched
    <3> QED
      BY <2>1, <3>2, <3>3, QuietThinned
  <2>7. ASSUME NEW x \in Endpoints, Restart(x) \/ Reset(x) PROVE Quiet(q)' /\ Kept
    <3>1. /\ restarts' = [restarts EXCEPT ![x] = restarts[x] + 1] /\ sent' = sent
          /\ last_sent'[x] = 0 /\ last_received'[x] = 0
          /\ stats'[x].state_resets \in {0, stats[x].state_resets + 1}
      <4>1. /\ restarts' = [restarts EXCEPT ![x] = restarts[x] + 1] /\ sent' = sent
            /\ last_sent'[x] = 0 /\ last_received'[x] = 0
        BY <2>1, <2>7 DEF Restart, Reset, RestartAllowed, TypeOK
      <4>2. CASE Restart(x)
        <5>1. stats'[x] = NoStats
          BY <2>1, <4>2 DEF Restart, TypeOK
        <5> QED
          BY <4>1, <5>1 DEF NoStats
      <4>3. CASE Reset(x)
        <5>1. stats'[x] = ResetState(stats[x])
          BY <2>1, <4>3 DEF Reset, TypeOK
        <5> QED
          BY <4>1, <5>1 DEF ResetState, NoStats
      <4> QED
        BY <2>7, <4>2, <4>3
    <3>2. \A y \in Endpoints \ {x} :
             /\ Stream(y)' = Stream(y) /\ last_sent'[y] = last_sent[y]
             /\ last_received'[y] = last_received[y] /\ stats'[y] = stats[y]
             /\ restarts'[y] = restarts[y]
      BY <2>1, <2>7, <3>1 DEF Restart, Reset, Stream, TypeOK
    <3>3. Thins(Stream(p)', Stream(p)) /\ Thins(Stream(q)', Stream(q))
      BY <2>1, <2>3, <2>7, <3>2, StartingThins
    <3>4. Quiet(q)'
      BY <2>1, <3>3, QuietThinned
    <3>5. e[g] \in Nat /\ stats[p].state_resets <= restarts[p] + e[g]
          /\ stats[p].state_resets \in Nat
      BY <2>1, <2>2, StatsFields DEF Falls, Trace, TypeOK
    <3>6. CASE x # q
      <4>1. last_received'[p] \in {last_received[p], 0}
        BY <3>1, <3>2
      <4>2. stats'[p].state_resets <= restarts'[p] + e[g]
        <5>1. CASE x = p
          <6>1. restarts'[p] = restarts[p] + 1
            BY <2>1, <3>1, <5>1 DEF TypeOK
          <6> QED
            BY <2>1, <3>1, <3>5, <5>1, <6>1
        <5>2. CASE x # p
          BY <3>2, <3>5, <5>2
        <5> QED
          BY <5>1, <5>2
      <4>3. Falls(p, e, o, w, g)'
        BY <2>1, <2>2, <3>1, <3>2, <3>3, <3>6, <4>1, <4>2, FallsThinned
      <4> QED
        BY <3>4, <4>3
    <3>7. CASE x = q
      <4> DEFINE n == sent[q]
                 c == restarts[q] + w
      <4>1. /\ restarts'[q] = restarts[q] + 1 /\ last_sent'[q] = 0 /\ sent'[q] = n
            /\ Stream(p)' = Stream(p) /\ last_received'[p] = last_received[p]
            /\ stats'[p] = stats[p] /\ restarts'[p] = restarts[p]
        BY <2>1, <3>1, <3>2, <3>7 DEF TypeOK
      <4>2. /\ OrderMod * w + last_sent[q] <= n /\ Rising(e, o, n, c, last_sent[q])
            /\ Along(Stream(p), o, n, g) /\ g <= n
            /\ last_received[p] # 0 => g # 0 /\ last_received[p] = o[g]
        BY <2>2 DEF Falls
      <4>3. OrderMod * w + 0 <= n
        <5>1. OrderMod * w \in Nat /\ last_sent[q] \in Nat /\ n \in Nat
          <6>1. OrderMod * w \in Nat
            BY <2>2, Sizes, Z3
          <6>2. last_sent[q] \in Orders /\ n \in Nat
            BY <2>1 DEF TypeOK
          <6> QED
            BY <6>1, <6>2, Sizes DEF Orders
        <5> HIDE DEF n
        <5> QED
          BY <4>2, <5>1
      <4>4. c \in Nat /\ restarts'[q] + w = c + 1
        BY <2>1, <2>2, <4>1
      <4> HIDE DEF n, c
      <4>5. Rising(e, o, n, c + 1, 0)
        <5>1. ASSUME NEW y \in 1 .. n PROVE e[y] < c + 1
          <6>1. e[y] \in Nat /\ (e[y] < c \/ e[y] = c)
            BY <2>2, <4>2 DEF Rising, Trace
          <6> QED
            BY <4>4, <6>1
        <5> QED
          BY <4>2, <5>1 DEF Rising
      <4>6. Falls(p, e, o, w, g)'
        BY <3>5, <4>1, <4>2, <4>3, <4>4, <4>5 DEF Falls
      <4> QED
        BY <3>4, <4>6
    <3> QED
      BY <3>6, <3>7
  <2>8. ASSUME UNCHANGED vars PROVE Quiet(q)' /\ Kept
    <3>1. Stream(p)' = Stream(p) /\ Stream(q)' = Stream(q)
      BY <2>8 DEF vars, Stream
    <3>2. Falls(p, e, o, w, g)'
      BY <2>1, <2>2, <2>3, <2>8, <3>1, FallsUntouched DEF vars
    <3> QED
      BY <2>1, <2>3, <3>1, <3>2, QuietThinned
  <2> HIDE DEF Kept, q
  <2>9. Quiet(q)' /\ Kept
    <3>1. CASE Next
      <4>1. PICK x \in Endpoints :
                \/ \E count \in 0 .. 2 : TxPacket(x, count)
                \/ RxByte(x)
                \/ Lose(x)
                \/ Corrupt(x)
                \/ Restart(x)
                \/ Reset(x)
        BY <3>1 DEF Next
      <4> QED
        BY <4>1, <2>4, <2>5, <2>6, <2>7
    <3>2. CASE UNCHANGED vars
      BY <2>8, <3>2
    <3> QED
      BY <3>1, <3>2
  <2> QED
    BY <2>9 DEF Kept, q
<1> QED
  BY <1>1, <1>2, Invariance, OrderInvariance, PTL DEF Spec

\* An endpoint that only receives starts over no more often than it was told to and its
\* sender started over or ran out of orders: no loss, copy or damage makes it forget.
THEOREM OnlyJustifiedResets == Spec => []ResetsJustified
<1>1. IInv /\ ResetsIInv => ResetsJustified
  <2> SUFFICES ASSUME IInv, ResetsIInv, NEW p \in Endpoints \ Senders
               PROVE  stats[p].state_resets <=
                        restarts[p] + restarts[Peer(p)] + (sent[Peer(p)] \div OrderMod)
    BY DEF ResetsJustified
  <2> DEFINE q == Peer(p)
             n == sent[q]
             k == n \div OrderMod
  <2>1. PICK e \in Trace, o \in Trace, w \in Nat, g \in Nat : Falls(p, e, o, w, g)
    BY DEF ResetsIInv, Trace
  <2>2. /\ q \in Endpoints /\ n \in Nat /\ restarts[p] \in Nat /\ restarts[q] \in Nat
        /\ stats[p].state_resets \in Nat /\ last_sent[q] \in Nat
    <3>1. TypeOK /\ q \in Endpoints
      BY PacketAssumption DEF IInv
    <3>2. last_sent[q] \in Orders /\ stats[p] \in Stats
      BY <3>1 DEF TypeOK
    <3> QED
      BY <3>1, <3>2, Sizes, StatsFields DEF TypeOK, Orders
  <2>3. /\ OrderMod * w + last_sent[q] <= n /\ g <= n
        /\ Rising(e, o, n, restarts[q] + w, last_sent[q])
        /\ stats[p].state_resets <= restarts[p] + e[g]
    BY <2>1 DEF Falls
  <2> HIDE DEF n, q
  <2>4. e[g] \in Nat /\ e[g] <= restarts[q] + w
    <3>1. CASE g = 0
      BY <2>1, <2>2, <2>3, <3>1 DEF Rising
    <3>2. CASE g # 0
      <4>1. g \in 1 .. n
        BY <2>1, <2>2, <2>3, <3>2
      <4> QED
        BY <2>1, <2>2, <2>3, <4>1 DEF Rising, Trace
    <3> QED
      BY <3>1, <3>2
  <2>5. w <= k /\ k \in Int
    <3>1. OrderMod \in Nat \ {0}
      BY Sizes
    <3> DEFINE m == n % OrderMod
    <3>2. PICK i \in Nat : i = n
      BY <2>2
    <3>3. k \in Int /\ m \in 0 .. OrderMod - 1 /\ n = OrderMod * k + m
      <4>1. /\ i \div OrderMod \in Int /\ i % OrderMod \in 0 .. OrderMod - 1
            /\ i = OrderMod * (i \div OrderMod) + (i % OrderMod)
        BY <3>1, <3>2, Division
      <4> QED
        BY <3>2, <4>1
    <3> HIDE DEF k, m
    <3>4. OrderMod * w <= n
      <4>1. OrderMod * w \in Nat
        BY <2>1, <3>1, Z3
      <4> QED
        BY <2>2, <2>3, <4>1
    <3>5. OrderMod * (w - k) <= OrderMod - 1
      <4>1. OrderMod * (w - k) = OrderMod * w - OrderMod * k
        BY <2>1, <3>1, <3>3, Z3
      <4>2. OrderMod * w \in Int /\ OrderMod * k \in Int
        BY <2>1, <3>1, <3>3
      <4> QED
        BY <2>2, <3>1, <3>3, <3>4, <4>1, <4>2
    <3>6. w - k >= 1 => OrderMod * (w - k) >= OrderMod
      BY <2>1, <3>1, <3>3, Z3
    <3> QED
      BY <2>1, <3>1, <3>3, <3>5, <3>6
  <2> HIDE DEF k
  <2>6. stats[p].state_resets <= restarts[p] + restarts[q] + k
    BY <2>1, <2>2, <2>3, <2>4, <2>5
  <2> QED
    BY <2>6 DEF k, n, q
<1> QED
  BY <1>1, Invariance, ResetsInvariance, PTL
=============================================================================
