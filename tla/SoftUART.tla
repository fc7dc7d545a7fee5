------------------------------ MODULE SoftUART ------------------------------
(***************************************************************************)
(* One ticked port of the bit-banged transmitter, Src/IO/SoftUART.cpp.  A   *)
(* thread runs configure and tx_bytes; a timer interrupt runs the tick      *)
(* handler, one bit time apart, and may fall between any two of its steps.  *)
(* The two share the port's state with no lock but tx_in_progress.          *)
(*                                                                         *)
(* The bit buffer is kept as the sequence of its tx_bits_remaining low bits *)
(* (the ones it is padded with above them never leave).  A receiver that    *)
(* samples the line at the end of every tick stands for the other side.     *)
(***************************************************************************)
EXTENDS Integers, Sequences, FiniteSets

CONSTANTS
    BufSize,    \* tx_buffer_size
    Messages,   \* what tx_bytes may be called with
    Configs     \* what configure may be called with

Fits(word, c) == word \in 0 .. 2 ^ c.word_size - 1

\* At least one start and one stop bit, and no byte wider than the word (a wider
\* one is or-ed over the parity and stop bits): the callers' side of the contract.
ASSUME UartAssumption ==
    /\ BufSize \in Nat \ {0}
    /\ Messages \subseteq Seq(Nat)
    /\ Configs \subseteq [use_parity : BOOLEAN, invert_parity : BOOLEAN,
                          start_bits : Nat \ {0}, stop_bits : Nat \ {0},
                          word_size : Nat]
    /\ \A m \in Messages, c \in Configs :
           \A i \in 1 .. Len(m) : Fits(m[i], c)

VARIABLES
    config,         \* port_configs[port]
    tx_in_progress, tx_buffer, tx_remaining, tx_bits,   \* port_states[port]
    pc, data,       \* the calling thread: where it is, the span still to send
    isr,            \* the handler: "ready", or "finishing" its last tick
    line,           \* the last tx_callback
    message,        \* the argument of the current or last call
    rx, received    \* the receiver: bits of this frame, words of this call

port == <<tx_in_progress, tx_buffer, tx_remaining, tx_bits>>
caller == <<pc, data, message>>
receiver == <<rx, received>>
vars == <<config, port, caller, isr, line, receiver>>

NoConfig == [use_parity |-> TRUE, invert_parity |-> FALSE,
             start_bits |-> 1, stop_bits |-> 1, word_size |-> 8]

Init ==
    /\ config = NoConfig
    /\ tx_in_progress = FALSE
    /\ tx_buffer = [i \in 1 .. BufSize |-> 0]
    /\ tx_remaining = 0
    /\ tx_bits = <<>>
    /\ pc = "unconfigured"
    /\ data = <<>>
    /\ isr = "ready"
    /\ line = 1
    /\ message = <<>>
    /\ rx = <<>>
    /\ received = <<>>

-----------------------------------------------------------------------------
(* The frame of a byte, the bit sent first is at 1.                        *)

Bit(byte, i) == IF (byte \div 2 ^ i) % 2 # 0 THEN 1 ELSE 0

Popcount(byte, width) == Cardinality({i \in 0 .. width - 1 : Bit(byte, i) = 1})

ParityBits(c) == IF c.use_parity THEN 1 ELSE 0

Parity(byte, c) ==
    (Popcount(byte, c.word_size) + (IF c.invert_parity THEN 1 ELSE 0)) % 2

FrameLength(c) == c.start_bits + c.word_size + ParityBits(c) + c.stop_bits

Frame(byte, c) ==
    [i \in 1 .. FrameLength(c) |->
        IF i <= c.start_bits THEN 0
        ELSE IF i <= c.start_bits + c.word_size THEN Bit(byte, i - c.start_bits - 1)
        ELSE IF i <= c.start_bits + c.word_size + ParityBits(c) THEN Parity(byte, c)
        ELSE 1]

-----------------------------------------------------------------------------
(* The other side.                                                         *)

FramingError == -1

Ones(bits) == Cardinality({i \in DOMAIN bits : bits[i] = 1})

\* What the receiver makes of a whole frame: least significant bit first, the
\* ones of word and parity even (odd when inverted), then the stop bits.
Decoded(bits) ==
    LET word   == SubSeq(bits, config.start_bits + 1,
                         config.start_bits + config.word_size)
        check  == SubSeq(bits, config.start_bits + config.word_size + 1,
                         FrameLength(config) - config.stop_bits)
        stops  == SubSeq(bits, FrameLength(config) - config.stop_bits + 1,
                         FrameLength(config))
        inverted == IF config.invert_parity THEN 1 ELSE 0
    IN  IF /\ config.use_parity => Ones(word \o check) % 2 = inverted
           /\ Ones(stops) = config.stop_bits
        THEN CHOOSE byte \in 0 .. 2 ^ config.word_size - 1 :
                 \A i \in 1 .. config.word_size : Bit(byte, i - 1) = word[i]
        ELSE FramingError

\* The receiver samples one bit; a 1 while it waits for a start bit is idle line.
Sample(bit) ==
    LET bits == Append(rx, bit)
    IN  IF rx = <<>> /\ bit = 1
        THEN UNCHANGED receiver
        ELSE IF Len(bits) < FrameLength(config)
        THEN rx' = bits /\ UNCHANGED received
        ELSE rx' = <<>> /\ received' = Append(received, Decoded(bits))

-----------------------------------------------------------------------------
(* The calling thread.                                                     *)

\* configure(): between calls, and before the first one.
Configure(c) ==
    /\ pc \in {"unconfigured", "idle"}
    /\ line' = 1
    /\ config' = c
    /\ pc' = "idle"
    /\ UNCHANGED <<port, data, message, isr, receiver>>

\* tx_bytes() is entered; tx_start_callback.
TxBytes(m) ==
    /\ pc = "idle"
    /\ pc' = "loop"
    /\ data' = m
    /\ message' = m
    /\ received' = <<>>
    /\ UNCHANGED <<config, port, isr, line, rx>>

Consume == IF Len(data) < BufSize THEN Len(data) ELSE BufSize

\* (slip) The chunk is copied to the front of the buffer.
SetupTxFront ==
    /\ pc = "loop"
    /\ data # <<>>
    /\ tx_buffer' = [i \in 1 .. BufSize |->
                        IF i <= Consume THEN data[i] ELSE tx_buffer[i]]
    /\ tx_remaining' = Consume
    /\ pc' = "publish"
    /\ UNCHANGED <<config, tx_in_progress, tx_bits, data, message, isr, line, receiver>>

\* (slip) tx_in_progress is set before the buffer is.
SetupTxEarly ==
    /\ pc = "loop"
    /\ data # <<>>
    /\ tx_in_progress' = TRUE
    /\ tx_remaining' = Consume
    /\ pc' = "publish"
    /\ UNCHANGED <<config, tx_buffer, tx_bits, data, message, isr, line, receiver>>

\* setup_tx: the next chunk, right-aligned in the buffer ...
SetupTx ==
    /\ pc = "loop"
    /\ data # <<>>
    /\ tx_buffer' = [i \in 1 .. BufSize |->
                        IF i > BufSize - Consume
                        THEN data[i - (BufSize - Consume)] ELSE tx_buffer[i]]
    /\ tx_remaining' = Consume
    /\ pc' = "publish"
    /\ UNCHANGED <<config, tx_in_progress, tx_bits, data, message, isr, line, receiver>>

\* ... and handed to the interrupt.
Publish ==
    /\ pc = "publish"
    /\ tx_in_progress' = TRUE
    /\ pc' = "wait"
    /\ UNCHANGED <<config, tx_buffer, tx_remaining, tx_bits, data, message, isr,
                   line, receiver>>

\* The busy wait sees the end of the chunk.
Waited ==
    /\ pc = "wait"
    /\ ~tx_in_progress
    /\ data' = SubSeq(data, Consume + 1, Len(data))
    /\ pc' = "loop"
    /\ UNCHANGED <<config, port, message, isr, line, receiver>>

\* Nothing is left: tx_complete_callback, and tx_bytes returns.
Return ==
    /\ pc = "loop"
    /\ data = <<>>
    /\ pc' = "idle"
    /\ UNCHANGED <<config, port, data, message, isr, line, receiver>>

-----------------------------------------------------------------------------
(* The tick handler.                                                       *)

\* Nothing in progress: the line keeps its level.
TickIdle ==
    /\ isr = "ready"
    /\ ~tx_in_progress
    /\ Sample(line)
    /\ UNCHANGED <<config, port, caller, isr, line>>

\* The next bit of the frame goes out.
TickShift ==
    /\ isr = "ready"
    /\ tx_in_progress
    /\ tx_bits # <<>>
    /\ line' = Head(tx_bits)
    /\ tx_bits' = Tail(tx_bits)
    /\ Sample(Head(tx_bits))
    /\ UNCHANGED <<config, tx_in_progress, tx_buffer, tx_remaining, caller, isr>>

\* (slip) A chunk of which one byte remains counts as sent.
TickLoadShort ==
    /\ isr = "ready"
    /\ tx_in_progress
    /\ tx_bits = <<>>
    /\ tx_remaining > 1
    /\ tx_bits' = Frame(tx_buffer[BufSize - tx_remaining + 1], config)
    /\ tx_remaining' = tx_remaining - 1
    /\ Sample(line)
    /\ UNCHANGED <<config, tx_in_progress, tx_buffer, caller, isr, line>>

\* The frame of the next byte is built; this tick puts nothing on the line.
TickLoad ==
    /\ isr = "ready"
    /\ tx_in_progress
    /\ tx_bits = <<>>
    /\ tx_remaining # 0
    /\ tx_bits' = Frame(tx_buffer[BufSize - tx_remaining + 1], config)
    /\ tx_remaining' = tx_remaining - 1
    /\ Sample(line)
    /\ UNCHANGED <<config, tx_in_progress, tx_buffer, caller, isr, line>>

\* (slip) The end of the chunk is announced while its last frame is going out.
TickFinishEarly ==
    /\ isr = "ready"
    /\ tx_in_progress
    /\ tx_remaining = 0
    /\ tx_in_progress' = FALSE
    /\ isr' = "finishing"
    /\ UNCHANGED <<config, tx_buffer, tx_remaining, tx_bits, caller, line, receiver>>

\* The chunk is sent: first the thread is let go ...
TickFinish ==
    /\ isr = "ready"
    /\ tx_in_progress
    /\ tx_bits = <<>>
    /\ tx_remaining = 0
    /\ tx_in_progress' = FALSE
    /\ isr' = "finishing"
    /\ UNCHANGED <<config, tx_buffer, tx_remaining, tx_bits, caller, line, receiver>>

\* ... then, with the thread possibly far ahead already, the line is set idle.
TickFinishLine ==
    /\ isr = "finishing"
    /\ line' = 1
    /\ isr' = "ready"
    /\ Sample(1)
    /\ UNCHANGED <<config, port, caller>>

-----------------------------------------------------------------------------
Caller ==
    \/ SetupTx
    \/ Publish
    \/ Waited
    \/ Return

Tick == TickIdle \/ TickShift \/ TickLoad \/ TickFinish \/ TickFinishLine

Next ==
    \/ \E c \in Configs : Configure(c)
    \/ \E m \in Messages : TxBytes(m)
    \/ Caller
    \/ Tick

SafeSpec == Init /\ [][Next]_vars

\* The timer keeps ticking and a thread inside tx_bytes keeps running.
Spec == SafeSpec /\ WF_vars(Caller) /\ WF_vars(Tick)
-----------------------------------------------------------------------------
Bits == {0, 1}

\* The transmitter's types (what the receiver holds is ImplementsPipe's matter).
TypeOK ==
    /\ config \in Configs \union {NoConfig}
    /\ tx_in_progress \in BOOLEAN
    /\ tx_buffer \in [1 .. BufSize -> Nat]
    /\ tx_remaining \in 0 .. BufSize
    /\ tx_bits \in Seq(Bits)
    /\ pc \in {"unconfigured", "idle", "loop", "publish", "wait"}
    /\ data \in Seq(Nat)
    /\ isr \in {"ready", "finishing"}
    /\ line \in Bits

\* The thread writes the buffer and the counter only while the interrupt leaves
\* them alone: nothing is in progress and no frame is half out, although the
\* handler may still be inside the tick that ended the last chunk.
BufferOwned == pc # "wait" => ~tx_in_progress /\ tx_bits = <<>>

\* The line is high whenever nothing is being sent, also in the window between
\* tx_in_progress = false and the tx_callback(true) after it: a thread let go by
\* the former cannot complete, or start the next chunk, over a low line.
IdleHigh == ~tx_in_progress => line = 1

\* The line changes only inside a call, between tx_start_callback and
\* tx_complete_callback (a driver enabled by one and disabled by the other
\* drives every edge), although the last tick may outlive the call.
EdgesInsideCalls == [][line' # line => pc = "wait"]_vars

\* Every call returns: the busy wait cannot miss the end of a chunk.
CallReturns == (pc = "loop") ~> (pc = "idle")

Pipe == INSTANCE SerialPipe WITH busy <- pc \notin {"unconfigured", "idle"}

\* The inductive invariant of BufferOwned and IdleHigh: every frame under way ends
\* with a high stop bit, so that the line is high when it is out.
StopBitLast == tx_bits # <<>> => tx_bits[Len(tx_bits)] = 1

RestsHigh == tx_bits = <<>> => line = 1

Drained == ~tx_in_progress => tx_bits = <<>>

IInv == TypeOK /\ BufferOwned /\ Drained /\ StopBitLast /\ RestsHigh

-----------------------------------------------------------------------------
(* The inductive invariant of ImplementsPipe.                              *)

\* The words of the chunks before the one at hand, and those taken out of it.
Before == Len(message) - Len(data)
Taken  == IF pc = "wait" THEN Consume - tx_remaining ELSE 0

\* The words that came out whole: all those taken but the one under way.
Out == Before + Taken - (IF tx_bits = <<>> THEN 0 ELSE 1)

\* The thread has yet to send what it did not send, to one format.
CallKept ==
    /\ message \in Seq(Nat)
    /\ pc # "unconfigured" => config \in Configs
    /\ pc \in {"loop", "publish", "wait"} => message \in Messages
    /\ pc \in {"unconfigured", "idle"} => data = <<>>
    /\ Len(data) <= Len(message)
    /\ \A i \in 1 .. Len(data) : data[i] = message[Before + i]

\* The buffer ends with the chunk, of which the handler takes each word once.
ChunkKept ==
    /\ pc \in {"publish", "wait"} =>
          \A i \in 1 .. Consume : tx_buffer[BufSize - Consume + i] = data[i]
    /\ pc = "publish" => tx_remaining = Consume
    /\ pc = "wait" => tx_remaining <= Consume
    /\ pc = "wait" /\ ~tx_in_progress => tx_remaining = 0
    /\ tx_bits # <<>> => isr = "ready" /\ tx_remaining < Consume

\* What was sampled and what is still to be shifted out are the frame of one word.
FrameKept ==
    IF tx_bits = <<>> THEN rx = <<>>
    ELSE rx \in Seq(Bits) /\ rx \o tx_bits = Frame(message[Out + 1], config)

WordsKept ==
    /\ Len(received) = Out /\ received \in Seq(Nat)
    /\ \A i \in 1 .. Out : received[i] = message[i]

PipeIInv == CallKept /\ ChunkKept /\ FrameKept /\ WordsKept

\* The words of each call arrive whole, in order, before it returns; over several
\* chunks and changes of configuration.
ImplementsPipe == Pipe!Spec
=============================================================================
