---------------------------- MODULE PacketManager ----------------------------
(***************************************************************************)
(* Two PacketManagerBase endpoints (Inc/Stuff/IO/Packetman.hpp), each       *)
(* feeding the bytes it receives to its own Delim::ByteReader, over a line  *)
(* that may lose or corrupt bytes, with restarts of either end.             *)
(*                                                                         *)
(* A packet is two bytes of body and the zero that COBS ends it with; a     *)
(* byte of body names its packet, the order in its header and its place.    *)
(* That a body which is not exactly one packet's fails to decode, fails its *)
(* CRC or has a wrong length is what CRC-32 is trusted with; which of the   *)
(* three, depends on the bytes, and is left open.                           *)
(***************************************************************************)
EXTENDS Integers, Sequences, SequencesExt, FiniteSetsExt

CONSTANTS
    Endpoints, Senders,     \* all of them, and those that call tx_packet
    RxBufSize,
    OrderMod,       \* 2^32: how many orders there are
    MaxPackets,     \* bounds: calls of tx_packet by each endpoint,
    MaxFaults,      \*         bytes the line loses or corrupts,
    MaxRestarts,    \*         restarts and calls of reset() of each endpoint,
    Peer(_)         \* the other end

ASSUME PacketAssumption ==
    /\ OrderMod \in Nat \ {0, 1}
    /\ RxBufSize \in Nat /\ RxBufSize >= 3
    /\ \A p \in Endpoints : Peer(p) \in Endpoints \ {p} /\ Peer(Peer(p)) = p

Orders == 0 .. OrderMod - 1

Bytes == [id : Nat, order : Orders, part : 0 .. 3]

Part(id, order, n) == [id |-> id, order |-> order, part |-> n]
Zero  == Part(0, 0, 3)
Noise == Part(0, 0, 0)      \* a byte that is neither zero nor any packet's

Packet(id, order) == <<Part(id, order, 1), Part(id, order, 2), Zero>>

Reader == INSTANCE ByteReaderOps WITH BufSize <- RxBufSize, Delimiter <- <<Zero>>

VARIABLES
    last_sent,      \* last_sent_packet_order and last_received_packet_order
    last_received,
    stats,          \* PacketManStatistics
    rx_reader,
    line,           \* the bytes on their way to each endpoint
    sent,           \* packets each endpoint sent, the id of the last one
    delivered,      \* ids that rx_packet was called with, since the last restart
    heard,          \* bytes each endpoint received since its last restart
    restarts,
    faults

vars == <<last_sent, last_received, stats, rx_reader, line, sent, delivered, heard,
          restarts, faults>>

NoStats == [current_overruns |-> 0, total_overruns |-> 0, errors |-> 0,
            rx_redundant |-> 0, rx_dropped |-> 0, rx_packets |-> 0,
            state_resets |-> 0]

Init ==
    /\ last_sent = [p \in Endpoints |-> 0]
    /\ last_received = [p \in Endpoints |-> 0]
    /\ stats = [p \in Endpoints |-> NoStats]
    /\ rx_reader = [p \in Endpoints |-> Reader!Empty]
    /\ line = [p \in Endpoints |-> <<>>]
    /\ sent = [p \in Endpoints |-> 0]
    /\ delivered = [p \in Endpoints |-> <<>>]
    /\ heard = [p \in Endpoints |-> <<>>]
    /\ restarts = [p \in Endpoints |-> 0]
    /\ faults = 0

-----------------------------------------------------------------------------
Copies(id, order, count) ==
    [i \in 1 .. 3 * count |-> Packet(id, order)[((i - 1) % 3) + 1]]

\* tx_packet(v, count): the packet goes out count times under one order.
TxPacket(p, count) ==
    LET order == (last_sent[p] + 1) % OrderMod
        id    == sent[p] + 1
    IN  /\ p \in Senders
        /\ sent[p] < MaxPackets
        /\ sent' = [sent EXCEPT ![p] = id]
        /\ last_sent' = [last_sent EXCEPT ![p] = order]
        /\ line' = [line EXCEPT ![Peer(p)] = @ \o Copies(id, order, count)]
        /\ UNCHANGED <<last_received, stats, rx_reader, delivered, heard, restarts,
                       faults>>

-----------------------------------------------------------------------------
(* Receiving.                                                              *)

\* The bytes read are a packet, whole.
Intact(bytes) ==
    /\ Len(bytes) = 3
    /\ bytes[1].part = 1
    /\ bytes = Packet(bytes[1].id, bytes[1].order)

Overrun(s) ==
    [s EXCEPT !.current_overruns = @ + 1,
              !.total_overruns = @ + s.current_overruns + 1]

\* total_overruns is brought up to date however finish_rx returns.
Totalled(s) == [s EXCEPT !.total_overruns = @ + s.current_overruns]

Error(s) == Totalled([s EXCEPT !.errors = @ + 1])

Redundant(s) == Totalled([s EXCEPT !.rx_redundant = @ + 1])

\* PacketManStatistics::reset_state().
ResetState(s) == [NoStats EXCEPT !.state_resets = s.state_resets + 1]

\* (slip) The packet that did arrive counts as dropped as well.
AcceptedOff(s, order, last) ==
    Totalled([s EXCEPT !.rx_dropped = @ + ((order - last) % OrderMod),
                       !.rx_packets = @ + 1])

\* The orders between the two are dropped packets, counted in 32 bits.
Accepted(s, order, last) ==
    Totalled([s EXCEPT !.rx_dropped = @ + ((order - 1 - last) % OrderMod),
                       !.rx_packets = @ + 1])

\* (slip) A copy of the last packet passes for a restart of the other end.
RelationLax(order, last) == IF order <= last THEN "earlier" ELSE "later"

\* How a packet's order compares to the last one's.
Relation(order, last) ==
    IF order = last THEN "same" ELSE IF order < last THEN "earlier" ELSE "later"

\* (slip) The refused byte is dropped.
ReaderAfterDrops(byte) == Reader!Empty

\* The refused byte is the first of what follows.
ReaderAfter(byte) == Reader!Updated(Reader!Empty, byte)

Deliver(p, packet) ==
    /\ last_received' = [last_received EXCEPT ![p] = packet.order]
    /\ delivered' = [delivered EXCEPT ![p] = Append(@, packet.id)]

Discard == UNCHANGED <<last_sent, last_received, delivered>>

\* finish_rx() on what was read.
Finish(p) ==
    LET bytes == rx_reader[p].read
        last  == last_received[p]
        read  == Reader!HaveMatch(rx_reader[p])
        packet == bytes[1]
    IN
    \/ \* the buffer filled up before a delimiter came
       /\ ~read
       /\ stats' = [stats EXCEPT ![p] = Overrun(@)]
       /\ Discard
    \/ /\ read
       /\ ~Intact(bytes)
       /\ stats' = [stats EXCEPT ![p] = Error(@)]
       /\ Discard
    \/ /\ read
       /\ Intact(bytes)
       /\ \/ /\ Relation(packet.order, last) = "same"
             /\ stats' = [stats EXCEPT ![p] = Redundant(@)]
             /\ Discard
          \/ /\ Relation(packet.order, last) = "later"
             /\ stats' = [stats EXCEPT ![p] = Accepted(@, packet.order, last)]
             /\ Deliver(p, packet)
             /\ UNCHANGED last_sent
          \/ \* the other end has started over, so reset()
             /\ Relation(packet.order, last) = "earlier"
             /\ last_sent' = [last_sent EXCEPT ![p] = 0]
             /\ stats' = [stats EXCEPT ![p] = Accepted(ResetState(@), packet.order, 0)]
             /\ Deliver(p, packet)

\* rx_byte(): the reader takes the byte, or refuses it.
RxByte(p) ==
    LET byte == Head(line[p])
    IN  /\ line[p] # <<>>
        /\ line' = [line EXCEPT ![p] = Tail(@)]
        /\ heard' = [heard EXCEPT ![p] = Append(@, byte)]
        /\ \/ /\ Reader!Accepts(rx_reader[p])
              /\ rx_reader' = [rx_reader EXCEPT ![p] = Reader!Updated(@, byte)]
              /\ UNCHANGED <<last_sent, last_received, stats, delivered>>
           \/ /\ ~Reader!Accepts(rx_reader[p])
              /\ Finish(p)
              /\ rx_reader' = [rx_reader EXCEPT ![p] = ReaderAfter(byte)]
        /\ UNCHANGED <<sent, restarts, faults>>

-----------------------------------------------------------------------------
(* The line, and the ends of it.                                           *)

Fault ==
    /\ faults < MaxFaults
    /\ faults' = faults + 1

Lose(p) ==
    /\ Fault
    /\ line[p] # <<>>
    /\ line' = [line EXCEPT ![p] = Tail(@)]
    /\ UNCHANGED <<last_sent, last_received, stats, rx_reader, sent, delivered, heard,
                   restarts>>

\* The byte becomes another, a delimiter perhaps.
Corrupt(p) ==
    /\ Fault
    /\ line[p] # <<>>
    /\ \E byte \in {Noise, Zero} \ {Head(line[p])} :
          line' = [line EXCEPT ![p] = <<byte>> \o Tail(@)]
    /\ UNCHANGED <<last_sent, last_received, stats, rx_reader, sent, delivered, heard,
                   restarts>>

RestartAllowed(p) ==
    /\ restarts[p] < MaxRestarts
    /\ restarts' = [restarts EXCEPT ![p] = @ + 1]

\* The endpoint is created anew.
Restart(p) ==
    /\ RestartAllowed(p)
    /\ last_sent' = [last_sent EXCEPT ![p] = 0]
    /\ last_received' = [last_received EXCEPT ![p] = 0]
    /\ stats' = [stats EXCEPT ![p] = NoStats]
    /\ rx_reader' = [rx_reader EXCEPT ![p] = Reader!Empty]
    /\ delivered' = [delivered EXCEPT ![p] = <<>>]
    /\ heard' = [heard EXCEPT ![p] = <<>>]
    /\ UNCHANGED <<line, sent, faults>>

\* The application calls reset(), which leaves the reader alone.
Reset(p) ==
    /\ RestartAllowed(p)
    /\ last_sent' = [last_sent EXCEPT ![p] = 0]
    /\ last_received' = [last_received EXCEPT ![p] = 0]
    /\ stats' = [stats EXCEPT ![p] = ResetState(@)]
    /\ delivered' = [delivered EXCEPT ![p] = <<>>]
    /\ heard' = [heard EXCEPT ![p] = <<>>]
    /\ UNCHANGED <<rx_reader, line, sent, faults>>

Next ==
    \E p \in Endpoints :
        \/ \E count \in 0 .. 2 : TxPacket(p, count)
        \/ RxByte(p)
        \/ Lose(p)
        \/ Corrupt(p)
        \/ Restart(p)
        \/ Reset(p)

Spec == Init /\ [][Next]_vars
-----------------------------------------------------------------------------
\* What was delivered and what was counted as dropped add up to the order of the
\* last packet, through losses, redundant copies, restarts of the other end and the
\* wrap of the order.
Accounting ==
    \A p \in Endpoints :
        (stats[p].rx_dropped + stats[p].rx_packets) % OrderMod = last_received[p]

\* Packets are delivered in the order they were sent, none twice, also when the
\* other end restarts or the order wraps while copies are on the line.
InOrder ==
    \A p \in Endpoints :
        \A i, j \in 1 .. Len(delivered[p]) : i < j => delivered[p][i] < delivered[p][j]

\* Neither end has restarted and no order was used twice, in either direction: an end
\* that sees an order again starts over too.
Undisturbed(p) ==
    /\ restarts[p] = 0 /\ restarts[Peer(p)] = 0
    /\ sent[p] < OrderMod /\ sent[Peer(p)] < OrderMod

\* The packets counted as dropped are those that never arrived whole: there are as
\* many as gaps in what was delivered.
DroppedWereLost ==
    \A p \in Endpoints :
        Undisturbed(p) =>
            stats[p].rx_dropped =
                Cardinality((1 .. Max(ToSet(delivered[p]) \union {0}))
                              \ ToSet(delivered[p]))

\* A packet may begin there: nothing, or a zero, was heard before it.
Begins(h, i) == i = 1 \/ h[i - 1] = Zero

\* The reader finds its way back after any fault: a packet that arrives whole behind
\* a zero is delivered as soon as one more byte arrives, whatever went before.
WholeIsDelivered ==
    \A p \in Endpoints :
        Undisturbed(p) =>
            \A i \in 1 .. Len(heard[p]) - 3 :
                /\ Begins(heard[p], i)
                /\ Intact(SubSeq(heard[p], i, i + 2))
                => heard[p][i].id \in ToSet(delivered[p])

\* One-way traffic: an endpoint resets only because the other end did start over or
\* ran out of orders, once each time; nothing the line does makes it forget its state.
ResetsJustified ==
    \A p \in Endpoints \ Senders :
        stats[p].state_resets <=
            restarts[p] + restarts[Peer(p)] + (sent[Peer(p)] \div OrderMod)

-----------------------------------------------------------------------------
(* The inductive invariant of Accounting.                                  *)

Stats == [current_overruns : Nat, total_overruns : Nat, errors : Nat,
          rx_redundant : Nat, rx_dropped : Nat, rx_packets : Nat, state_resets : Nat]

TypeOK ==
    /\ last_sent \in [Endpoints -> Orders]
    /\ last_received \in [Endpoints -> Orders]
    /\ stats \in [Endpoints -> Stats]
    /\ rx_reader \in [Endpoints -> [read : Seq(Bytes), delim_match_size : Nat]]
    /\ line \in [Endpoints -> Seq(Bytes)]
    /\ sent \in [Endpoints -> Nat]
    /\ delivered \in [Endpoints -> Seq(Nat)]
    /\ heard \in [Endpoints -> Seq(Bytes)]
    /\ restarts \in [Endpoints -> Nat]

IInv == TypeOK /\ Accounting

-----------------------------------------------------------------------------
(* The inductive invariant of InOrder, on what still is to be read.        *)

\* The byte belongs to a packet.
Body(byte) == byte.part \in {1, 2}

\* The packet of c was not sent before that of b, and one packet has one order.
NotBefore(b, c) ==
    Body(b) /\ Body(c) => b.id <= c.id /\ (b.id = c.id => b.order = c.order)

Ascending(s) == \A i, j \in 1 .. Len(s) : i < j => NotBefore(s[i], s[j])

\* What an endpoint holds unread, and what is on its way to it.
Stream(p) == rx_reader[p].read \o line[p]

\* The byte's packet was sent, and is not older than what was delivered; a copy of
\* what was delivered last still has its order.
Due(p, byte) ==
    Body(byte) =>
        /\ byte.id <= sent[Peer(p)]
        /\ delivered[p] # <<>> =>
             /\ Last(delivered[p]) <= byte.id
             /\ byte.id = Last(delivered[p]) => byte.order = last_received[p]

OrderKept(p) ==
    /\ \A i \in 1 .. Len(delivered[p]) : delivered[p][i] <= sent[Peer(p)]
    /\ \A i, j \in 1 .. Len(delivered[p]) : i < j => delivered[p][i] < delivered[p][j]
    /\ Ascending(Stream(p))
    /\ \A i \in 1 .. Len(Stream(p)) : Due(p, Stream(p)[i])

OrderIInv == \A p \in Endpoints : OrderKept(p)

-----------------------------------------------------------------------------
(* The inductive invariant of DroppedWereLost: ids are orders.             *)

Numbered(s) ==
    \A i \in 1 .. Len(s) : Body(s[i]) => s[i].order = s[i].id /\ s[i].id # 0

LastDelivered(p) == IF delivered[p] = <<>> THEN 0 ELSE Last(delivered[p])

Straight(p) ==
    /\ last_sent[p] = sent[p]
    /\ Numbered(Stream(p))
    /\ last_received[p] = LastDelivered(p)
    /\ \A i \in 1 .. Len(delivered[p]) : delivered[p][i] # 0
    /\ stats[p].rx_packets = Len(delivered[p])
    /\ stats[p].rx_dropped + stats[p].rx_packets = last_received[p]

StraightIInv == \A p \in Endpoints : Undisturbed(p) => Straight(p)

-----------------------------------------------------------------------------
(* The inductive invariant of WholeIsDelivered.                            *)

\* The reader holds the end of what was heard; what begins behind a zero and could
\* still become a packet, from its first byte.
Holds(h, reader) ==
    LET r == reader.read
    IN  /\ Len(r) <= Len(h) /\ (h # <<>> => r # <<>>)
        /\ \A j \in 1 .. Len(r) : r[j] = h[Len(h) - Len(r) + j]
        /\ reader.delim_match_size = IF r # <<>> /\ Last(r) = Zero THEN 1 ELSE 0
        /\ \A i \in 1 .. Len(h) :
              Begins(h, i) /\ Len(h) < i + 3 /\ (\A j \in i .. Len(h) - 1 : h[j] # Zero)
              => Len(r) = Len(h) - i + 1

HeldIInv ==
    \A p \in Endpoints : restarts[p] = 0 => Holds(heard[p], rx_reader[p])

-----------------------------------------------------------------------------
(* The inductive invariant of ResetsJustified.  The orders of what is sent  *)
(* to p fall only where the sender starts over or runs out of orders: o has *)
(* the order of each packet, e numbers the stretches that rise, w counts    *)
(* the wraps, and g is the last packet that p ever took.                    *)

\* Of n packets, in stretches up to c: along a stretch the orders rise, in c to last.
Rising(e, o, n, c, last) ==
    /\ e[0] = 0
    /\ \A x \in 1 .. n : e[x] < c \/ (e[x] = c /\ o[x] <= last)
    /\ \A x, y \in 1 .. n : x < y => e[x] < e[y] \/ (e[x] = e[y] /\ o[x] < o[y])

\* What is in s was sent under these orders, and not before g.
Along(s, o, n, g) ==
    \A i \in 1 .. Len(s) :
        Body(s[i]) => s[i].id \in 1 .. n /\ s[i].id >= g /\ s[i].order = o[s[i].id]

Falls(p, e, o, w, g) ==
    LET q == Peer(p)
    IN  /\ OrderMod * w + last_sent[q] <= sent[q]
        /\ Rising(e, o, sent[q], restarts[q] + w, last_sent[q])
        /\ Along(Stream(p), o, sent[q], g)
        /\ g <= sent[q]
        /\ last_received[p] # 0 => g # 0 /\ last_received[p] = o[g]
        /\ stats[p].state_resets <= restarts[p] + e[g]

\* Nothing is on its way to the sender.
Quiet(p) == \A i \in 1 .. Len(Stream(p)) : ~Body(Stream(p)[i])

ResetsIInv ==
    \A p \in Endpoints \ Senders :
        /\ Quiet(Peer(p))
        /\ \E e, o \in [Nat -> Nat], w, g \in Nat : Falls(p, e, o, w, g)
=============================================================================
