# A verification project for LibStuff

LibStuff is a C++ header library with a handful of source files (`Inc/Stuff`,
`Src`).  It has no process of its own: every component is called by an
application, some of them from a timer interrupt or a thread of the library's
making.  The modules here model the components that keep state or transform it;
`PROJECT.json` lists the runs, the mutants each property is tested with, the
theorems, and the source lines behind every definition.

## 1. Inventory

The parts of the library, the state each keeps, what it does, and what makes it
correct.  "Hard" names what a unit test would hardly reach.

| Part | State | Operations | Correct when | Hard |
|---|---|---|---|---|
| `Util/SpinLock.hpp` SpinMutex | one atomic flag | lock, try_lock, unlock | mutual exclusion, publication of the protected data, no lost unlock | interleaving, relaxed loads |
| `IO/SoftUART` | per port: chunk buffer, counter, bit buffer, in-progress flag | configure, tx_bytes (thread), tick (interrupt) | words arrive whole, in order, before the call returns; the line rests high | thread against interrupt, chunk boundaries |
| `IO/Delim.hpp`, `Src/IO/Delim.cpp` COBS | none (in place, cursor and end pointers) | encode, decode | no zero inside a frame; decode inverts encode; the write cursor never passes the read cursor | block boundaries, malformed frames |
| `IO/Delim.hpp` ByteReader, BufferedDelimitedReader | buffer, matched prefix of the delimiter | feed, get, reset | hands out exactly the bytes before each delimiter | partial delimiters, a full buffer |
| `IO/GPS` and its receiver | the reader; fix, time, position | feed, feed_line | the state is what the last valid sentence of each kind says | a byte lost or damaged anywhere, partial updates |
| `IO/Packetman.hpp` PacketManager | order counters, error counters, reader, encode buffer | tx_packet, rx_byte, reset | every packet handed up was sent, intact; counters account for what was lost | lossy line, restarts, order wrap |
| `Util/Timer.hpp` SleepTimer, AccurateTimer | running flag, mutex, condition variable | start, run, cancel | no tick after cancel returned, run returns | cancel racing run and the callback |
| `Maths/Crypt/DES` | the rounds of a block | encrypt, decrypt, crypt, tripcode | decryption inverts encryption; the bitsliced S-boxes are the tables | one gate or entry among hundreds wrong |
| `Maths/Hash/Sha2.hpp` | block buffer, length, working words | update, finish, reset | digests are the standard's wherever a message ends | padding at the edges of a block, the second message |
| `Maths/Check/CRC` | register | update, finalize | damage no wider than the check is found | reflection, widths that are no multiple of 8 |
| `Graphics/Image/QoI.ipp` | colour map, last pixel, run | encode, decode | decode inverts encode | the two sides' maps drifting apart, cut and damaged streams |
| `Graphics/Image.hpp` Image | size, capacity, owned block | constructors, assignments, create, resize, reset, fill | every block is freed at most once and has one owner | moves, an assignment to an image that has a block |
| `Util/Memo.hpp` Memoizer | LRU list, map, table | call | returns what the function returns; bounded; the three tables agree | evictions while an outer call waits |
| `Util/Alloc.hpp` BumpAllocator | pool, counters | allocate | blocks are aligned, inside, disjoint | padding against the end of the pool |
| `Util/Conv.hpp`, `Util/UTF8.hpp`, `Maths/Bit.hpp` | none | from_chars; encode, decode; permutations, bit slices | inverse of formatting, or of each other | the limits of a type or length |
| `Serde`, `Serde/Serializers/JSON.hpp` | the serialisers of the open levels, a stream | serialize | what a reader reads back is the value | commas and brackets over nesting |
| `Files/Format.hpp` | a position in the data | decode | fields are what the format says | the last field |
| `Util/MMap`, `Util/Scope.hpp` | fd, data, size; armed flags | initialize, deinitialize, moves | every resource is released once | one of the system calls failing |
| `IO/ACS.hpp`, `IO/NTC.hpp`, `IO/Nextion.hpp` | averaging window; table; output buffer | sample, lookup; format | numeric; well formed output | - |
| `Maths/BLAS`, `Maths/Scalar`, `Maths/Random`, `Intro`, `CPUID`, `Util/Hash.hpp`, iterators | none or a generator's | arithmetic, traits, compile-time reflection | numeric | floating point and templates: outside TLC's reach |

Interactions: PacketManager is built on COBS and ByteReader and is fed by whatever
receives bytes (SoftUART transmits them); the GPS parser is fed lines cut by a
ByteReader and converts their fields with Conv; the tripcode is `crypt` with a salt
taken from the key; the header of a QoI stream is read with Format, and its pixels
are those of an Image; the JSON serialiser is driven by Serde.

## 2. How the project was built, and what is left

The parts with concurrency, an unreliable line or recovery came first, then the
transformations whose two sides must agree, then the remaining owners of state.

| Step | Modules | Composes | Specification it is held to | Theorems |
|---|---|---|---|---|
| 1 | `SpinMutex`, `Mutex` | threads | `Mutex`, a lock with waiters (refinement) | exclusion, publication, refinement |
| 2 | `SoftUART`, `SerialPipe` | thread, interrupt, receiver | `SerialPipe`, words in order and the call's return (refinement) | ownership, idle line, refinement |
| 3 | `Cobs`, `CobsEncoder`, `CobsDecoder`, `CobsCodec` | the two halves over a line that cuts | the inverse; a prefix | zero-freedom, overhead, in-place safety, inverse, cut frames |
| 4 | `ByteReaderOps`, `ByteReader`, `BufferedDelimitedReader` | reader and its owner | first occurrence of the delimiter | all their properties |
| 5 | `PacketManager` | two endpoints, two readers, a line with faults | what was sent | accounting, order of delivery, losses, resynchronisation, reasons to reset |
| 6 | `Timer` | runner, controllers, clock | - | no tick after cancel, spacing, ticks not put off |
| 7 | `GPS`, `Conv` | device, line with faults, reader, parser | fields of the last valid sentence of each kind | - |
| 8 | `DesCipher`, `DesCrypt`, `DesBitslice`, `Sha2`, `CRC` | sender and receiver of a checked message | the tables; the standard's padding; the tests' answers | deciphering undoes enciphering; the padding is the standard's; no burst of a check's width is missed |
| 9 | `QoI`, `Format` | encoder, a stream that is cut or damaged, decoder | the row of pixels | decoding undoes encoding; what is accepted is whole |
| 10 | `ConvText`, `UTF8`, `Json` | writer, text that loses a byte, reader | values of digits; code points; the value serialised | a text survives |
| 11 | `Memo`, `Images`, `Alloc` | nested calls; programs with several images | the function; one owner per block; disjoint extents | the function's answers, tables agree, ownership, disjointness |

Left: a proof for JSON (section 5 says what it needs), a model of the encoding in
place inside `tx_buf`, and the parts of section 6 once `Stf::ScopeGuard` exists.

## 3. How the models read the code

Common to all modules: an action is one atomic step of the source (one access to
shared state where threads or an interrupt meet, one iteration where the order of
reads and writes matters, one whole call where nothing else can run); a variable with
a name of the source is that field; the others (`consumed`, `heard`, `shown`, ...)
record history for the properties, and guards read them only as bounds.  Operators
whose comment starts with "(slip)" are not part of the model: each is the definition
after it with a plausible bug, used to check that the property named beside it in
`PROJECT.json` would notice.

**`SpinMutex`** (`Util/SpinLock.hpp`).  `m_impl` holds the newest value of the atomic
flag; `stale` the threads whose relaxed loads may still return the previous one.
`ExchangeFree`/`ExchangeTaken` are the read-modify-write of line 23, `SpinExit` the
inner loop, `TryLoad` and `TryExchange` the two halves of `try_lock`, `Unlock` the
releasing store.  `seen` and `carried` follow the happens-before relation that acquire
and release set up, release sequences included.  Unlocking what one does not hold is
excluded, as for any Lockable.

**`SoftUART`** (`IO/SoftUART`).  The thread's steps are `Configure`, `TxBytes`,
`SetupTx`, `Publish`, `Waited`, `Return`; the interrupt's `TickIdle`, `TickShift`,
`TickLoad`, `TickFinish` and `TickFinishLine`, the last two separate because the
thread may run between them.  The bit buffer is the sequence of bits still to be sent.
The receiver is external: it samples at the end of each tick and decodes frames.
`SerialPipe` is what a caller is promised: words in order, all of them before the call
returns.

**`CobsEncoder`, `CobsDecoder`, `CobsCodec`** (`IO/Delim`).  One action per way through
an iteration of the inner loops.  A code byte is 255 in the source; here it is `Full`,
a constant of at least two, so that blocks become full within a few bytes.  The decoder
works on one buffer with two cursors, as the code does.  `CobsCodec` puts the two in
sequence, with a line that delivers a beginning of the frame (`Arrive`), or gives the
decoder a frame no encoder made (`Foreign`).

**`ByteReaderOps`, `ByteReader`, `BufferedDelimitedReader`** (`IO/Delim.hpp`).
`ByteReaderOps` has the reader's functions without variables, so that `ByteReader`,
`PacketManager` and `GPS` share them.  `BufferedDelimitedReader` keeps a partial
delimiter out of the buffer (`Matched`) until it is one, or data.

**`GPS`, `Conv`** (`Src/IO/GPS.cpp`, `Examples/GPS.cpp`, `Util/Conv.hpp`).  The device
sends sentences byte by byte; the line loses a byte or changes it; the receiver cuts
lines and feeds them.  The parser is translated function by function, with an
`std::optional` as `<<>>` or `<<value>>`, and `Conv` has the conversions it calls with
the width of their types.  A sentence is its bytes and the data it states, so that
`FollowsSentences` compares the state with what was meant and not with a second parser.

**`PacketManager`** (`IO/Packetman.hpp`).  Each endpoint has the two order counters, the
statistics and a reader; `line[p]` is what travels towards `p`.  `TxPacket` is all of
`tx_packet`, `RxByte` all of `rx_byte` with `finish_rx` and the `reset` it may make.
A byte is a record that names its packet; `Copies` and `Packet` stand for
serialisation, CRC and COBS, `Intact` for their checks, and the three error counters
of the source are one (`errors`).  An endpoint's `Restart` creates it anew, `Reset` is
the public call.

**`Timer`** (`Util/Timer.hpp`).  `rpc` is the place of `run()` in its loop; the wait is
the four steps of a condition variable with a predicate: it is tested (`WaitOver`,
`WaitOn`), the runner releases the mutex and blocks (`Wait`), wakes (`Wake`,
`WakeSpuriously`) and takes the mutex again (`Relock`).  Between the test and the block
the runner has the mutex: `cancel()` can store its flag there (line 33), but its
`notify_all()` has to wait (line 35), and `CancelEndsRun` fails if it need not.
`start()` takes no lock and is five steps: the test, the clock, `m_started_at`,
`m_every`, `m_armed`.  `next_tick_at()` reads those fields without a lock that `start()`
takes, so each read is a step: the start, the period, the period and the start again for
`AccurateTimer` (`PlanFrom`, `PlanCount`, `PlanDuration`, `PlanTick`), the clock and the
period for `SleepTimer` (`PlanFrom`, `PlanTick`); `partial` is what it has worked out so
far, and `torn` says that a `start()` wrote a field meanwhile.  `cancel()` is three
steps: the test, the store, and the notification under the lock.  `Sub` instants make a
millisecond, for `AccurateTimer` cuts instants to milliseconds.  `kind` is chosen
initially: the two timers differ in `next_tick_at` only.

`Paced` has two parts.  `Apart`: ticks with no `start()` between them are a period apart
(`SleepTimer`) or in different periods (`AccurateTimer`), however late the runner is.
`Near`: what the runner waits for is ahead of the instant it noted, by less than a period
and a millisecond.  `Near` leaves out the torn plans of an `AccurateTimer`, of which
nothing of the kind holds: see the observations in section 6.

**`DesCipher`, `DesCrypt`, `DesBitslice`** (`Maths/Crypt/DES`, `Maths/Bit.hpp`).  A word
of n bits is a function to {0, 1}; every table of `Tables.hpp` is given as the source
orders it.  `DesCrypt` takes one step per round and deciphers what `encrypt` returned;
`crypt` is 25 encipherings under the salted expansion, `tripcode` a `crypt` with
escapes.  `Prepared` is what the calls hand to `routine`: words of the right widths and
an expansion table; it is proved of `encrypt` and `crypt`.  `DesBitslice` has the gates of `SBox.hpp` as data: values are pushed into
slices, the eight circuits run on all lanes, the results are popped.

**`Sha2`** (`Maths/Hash/Sha2.hpp`).  One step feeds a byte, extends the schedule by a
word or takes a round; a word is a sequence of 16-bit parts with their carries.
`Shifted` takes the bytes of the length apart; a length must fit the eight bytes of
`m_bit_size` (`ShaAssumption`).
**`CRC`** (`Maths/Check`).  Words are sets of bit numbers; two states read one message,
sent and damaged.  `CrcAssumption` is what the rows of `CRCDescriptions.ipp` have in
common; TLC evaluates it on the rows.

**`QoI`, `Format`** (`Graphics/Image/QoI.ipp`, `Files/Format.hpp`).  The encoder takes a
pixel a step, the decoder a block; `coder` is the colour map and the last pixel, which
both sides keep; the header goes through `Format`'s fields.

**`ConvText`, `UTF8`, `Json`, `Memo`, `Images`, `Alloc`**.  `ConvText` grows a text and
converts it at each length.  `UTF8` has a writer, a text that loses a byte, and a
reader.  `Json` is the recursion of `serialize` as a stack of open levels, and an
external reader of the stream.  `Memo`'s actions are the lookup, the call of `impl` and
`remember`, over a stack of calls that wait; what `impl` makes of its arguments and of
what its calls returned is a constant, `Impl`.  `Images` has the heap of blocks with
their number of frees, and every constructor, assignment and member as one action.
`Alloc` is `allocate` with the padding of `std::align`.

## 4. Runs, bounds, fairness

Components that share nothing are checked in one run: a variable (`part` in `MCLines`
and `MCLibrary`, `algorithm` in `MCCrypto`), chosen initially, says which one takes
steps while the others rest in one initial state.

| Run | Asks | Bounds, and why they are enough |
|---|---|---|
| `spin_mutex` | exclusion, publication, lost unlocks, refinement with progress | three threads: one holds, one spins, one barges in |
| `soft_uart` | ownership of the buffer, idle line, every call returns, words arrive | a buffer of two; messages of 0 to 5 bytes give no chunk, a short one, a full one, several with a short last one; words of two bits with every parity |
| `cobs_codec` | zero-freedom, overhead, in-place cursors, round trip, frames cut short | blocks of two bytes, every message to five bytes cut anywhere, every frame to five, malformed ones included: two full blocks, and zeros on every side of their edges |
| `cobs_unterminated` | the documented meaning of Ok and ZeroMissing; violated | as `cobs_codec` |
| `lines` | delimiters found, nothing lost, no reallocation; the GPS state follows the sentences | three bytes and a buffer of six: a delimiter of one byte or of two at, before and over its end; capacity seven; three sentences of each kind with one byte of them lost, or changed to a delimiter, a comma or `$` |
| `gps_direction` | the pair of directions is north or south, then east or west; violated | the same sentences, no faults |
| `packet_one_way` | order, resynchronisation, reasons to reset | four packets under four orders (so the order wraps to 0), one fault, a restart of each end, a buffer one byte larger than a packet |
| `packet_two_way` | order and accounting while resets answer resets | two packets each way, two orders, a restart of each end |
| `timer` | no callback after a cancel, no lost wake-up, ticks neither bunched nor put off | two controllers with any number of cancels and one start beside the constructor's, which is enough to fall between any two steps of the runner and of the other controller; a clock of six instants, periods of one and two milliseconds of two instants: two ticks of the shorter period, starts inside a millisecond |
| `crypto` | deciphering retraces, bitslices agree with tables, padding, known answers, bursts found | the tests' keys and messages; all 64 inputs of every S-box; message lengths around the edges of a block; every burst over nine bytes and scattered pairs |
| `library` | pixels, numbers, texts and values survive; the memoizer, the images and the pool | six colours of which two share a hash, images to four pixels, one with an alpha that is not opaque, and runs around 62 and 124; types of few bits; the first and last code point of every length; a Fibonacci of small arguments over two entries; three images, three blocks; a pool of six bytes at both parities |
| `qoi_round_trip` | the decoded image is the image; violated | images to three pixels |

Deadlock is checked where the system never stops (`spin_mutex`, `soft_uart`).  The other
runs stop when a message is finished or a bound is reached.

The findings.
* `cobs_unterminated`: a frame that ends with a full block and no delimiter is Ok,
  though `Inc/Stuff/IO/Delim.hpp:148-151` documents Ok and ZeroMissing otherwise.
  `CutNoticed` states what does hold.
* `gps_direction`: both direction indicators of a sentence go into the first of the
  pair (`Src/IO/GPS.cpp:173-175`), which `IO/GPS.hpp:72` documents as "ns, ew".
* `qoi_round_trip`: a run block does not enter its colour into the decoder's map
  (`QoI.ipp:289-300`) while the encoder enters every pixel (line 501), so an image
  that starts with opaque black and returns to it comes out wrong.  `PixelsSurvive`
  states what does hold.

Fairness.  `SpinMutex`: a thread inside a call keeps running, and a store becomes
visible in finite time, as C++ asks of implementations; nobody has to call `lock()`.
`SoftUART`: the interrupt keeps ticking and the thread keeps running; this is what the
busy wait relies on.  `Timer`: threads inside `run()`, `start()` or `cancel()` continue
and the callback returns; the clock is not fair, so that `CancelEndsRun` cannot rely
on the next tick.  The other components only react: they have no liveness property.

## 5. Proofs

TLAPS checks these for every value of the constants that satisfies the named
assumptions.  The argument is an inductive invariant, defined at the end of the
component's module or at the head of its proofs.

| Module | Theorems | Why the property is not inductive alone | Assumes |
|---|---|---|---|
| `SpinMutexProofs` | exclusion, publication, flag means held, refinement of `Mutex` (safety) | a thread past the exchange needs the flag set; publication needs who released the value in the flag | any set of threads |
| `SoftUARTProofs` | ownership, line rests high, no edge outside a call, refinement of `SerialPipe` (safety) | the line is high only if every frame under way ends in a stop bit, and the counter is 0 when the thread is let go; the words received, those in the frame under way, in the buffer and behind the cursor are the message, in order, at every bit | `UartAssumption`: a start and a stop bit, no byte wider than the word |
| `CobsProofs` | no zero but the delimiter; one byte of overhead per started block; write cursor behind read cursor, unread bytes untouched, consumption; decoding inverts encoding; a cut frame gives a beginning of the message | what lies between the open distance and the scan is zero-free; every finished round but the last consumed `Full - 1` bytes; the gap between the cursors depends on where in a block the decoder is; the wire is the message cut at codes, each of which reaches the next, and the decoder has what the codes behind it say | `Full >= 2`, messages and frames of bytes |
| `PacketManagerProofs` | accounting of delivered and dropped packets; delivery in order; the dropped were lost; what arrives whole is delivered; no reset without a reason | orders that are compared come out of the reader and off the line, so the types of both are part of it; what is unread, in the reader and on the line, is in the order it was sent and not older than what was delivered; while nothing restarts or wraps, orders are ids and the counters add up exactly; the reader holds the end of what was heard; orders fall only where the sender starts over or wraps, and the receiver meets each fall once | `PacketAssumption` |
| `LibraryProofs`, memoizer | every answer is the function's; its tables agree and never hold a pending argument | the calls that wait descend, so none computes what another is computing, and each holds the values of the calls it has made | `MemoAssumption`: a size of one or more, a function that descends |
| ..., images and pool | images own their blocks alone and keep their pictures; the allocator's blocks are aligned and apart | an image that is not there shows nothing; the pool's rest starts where the last block ends | `ImagesAssumption`, `AllocAssumption` |
| ..., timers | no tick after cancel; ticks spaced, and not put off unless a start() tears the plan | the mutex is held exactly inside the critical section; what `next_tick_at` has worked out agrees with the fields it read unless a start() wrote one; the planned tick is a period after the last one, for `AccurateTimer` a multiple of the period after the start; any number of starts | `TimerAssumption`: positive periods |
| ..., QoI | an image that does not begin with opaque black survives; never more pixels than the header says; what is accepted is whole, a cut stream only short of its last byte | the places between the blocks, each a number of bytes and of pixels, lead from one to the next; at each the map has, for every hash, its latest colour, and so both sides have the same map and last colour; whichever of the six blocks was chosen gives the colour back | `QoIAssumption`: pixels of four bytes, as many as a dimension of the header counts |
| `TextProofs`, UTF-8 | a text survives but for the character that lost a byte and the one after it | the text is the characters' bytes at their offsets; the reader stands at the start of a character, or, behind the damage, inside one, where every byte is a continuation and is taken alone | `Utf8Assumption`: code points are numbers |
| ..., number conversion | digits of any base that fit the counted bits are converted exactly, with the sign, and on no error path | digit by digit the scan has counted the bits of what it has read, its number is below two to that many, and so no register wraps before the checked path begins | `ConvAssumption`: ASCII, types of one digit or more |
| ..., delimited readers | no delimiter missed, the message ends at the first one, nothing lost, no reallocation, what a false start hides | the matched count must be the longest end of the bytes read that begins the delimiter, as far as the code keeps it so | `ReaderAssumption`, `BufferedAssumption`: a delimiter of one byte or more, shorter than the buffer |
| `CryptoProofs`, DES | deciphering walks back through the enciphering and ends with the plaintext | the trace holds each round's halves, each the Feistel step of the one before, whatever the f-function and the round keys; the final permutation undoes the initial one, entry by entry of the two tables | `JobsAssumption`, proved of every call of `encrypt` and `crypt` |
| ..., SHA-2 | `finish` compresses the message, one bit, the fewest zeros and the length, in whole blocks | what has been fed and compressed is always a part of the padded message; the number of zeros is the one that fits the length of the message, and the length begins where it says, at one place of a block | `ShaAssumption`: a length that fits `m_bit_size` |
| ..., CRC | damage within as many bits in a row as the check is wide is never missed | what the registers differ by, put in the order of the division, and the damage still to come are one dividend, for updating is linear; the damage itself is its first value, and each of the eight steps of a byte leaves a burst a burst: a step that shifts only moves it, and one that takes the polynomial away, which has its constant term, puts the top bit in and leaves nothing beyond it | `CrcAssumption`: widths of 8 to 32, a polynomial with its constant term, a reflected register that fills its type |
| `DataLemmas` | induction over a set of numbers; a function recursive on a number exists | the lemmas on powers of two, quotients and parts of sequences that the others cite | - |

Induction over data.  The library's induction theorems take an operator as a parameter,
which no prover here can instantiate.  `DataLemmas` has induction for a set of numbers
instead (from finite sets being well-founded), and proves that a function defined by
recursion on a number exists, so that the recursive functions of the models, such as
`Value` of `Memo`, the value that `decode_utf8` shifts together, the turns of the loop
of `from_chars`, the fields that `decode` reads and the bytes of a SHA-2 length, can be
unfolded.

Only model-checked: liveness (`LockProgress`, `CallReturns`, `CancelEndsRun`, the
progress half of the refinements), which is out of the prover's reach.  Then what is
about particular values: `FollowsSentences`, over the sentences of the run with their
checksums; `KnownVectors`, the tests' answers; `SlicedAsLookedUp`, which compares
hundreds of gates with the tables on all inputs there are.  And
`ReadsBack`, whose values nest to any depth (an induction over trees) and which says
with ENABLED that the reader goes on.

## 6. Not modelled

`PROJECT.json` lists every part with its reason.  Numeric code (vectors, matrices,
scalars, random numbers, sensors) is decided by test vectors, not by states.
Compile-time code (introspection, concepts, tuples) has no behaviour.  `MMap.cpp` and
the tests use an `Stf::ScopeGuard` that `Scope.hpp` does not define.  Inside the
modelled parts:

* `PacketManager`: COBS in place inside `tx_buf`, what `tx_packet` returns, and a
  CRC-32 that fails to notice damage.
* `BufferedDelimitedReader`: calls of `feed` that end before a refusal, which read past
  the end of their argument.
* `SoftUART`: ports other than the one the handler ticks, and bytes wider than a word.
* `Timer`: data races proper (`m_started_at` and `m_every` are written without the
  mutex; the model has each access whole and sequentially consistent, in the order of
  the source), a clock that is set back, a period of zero, and callbacks that cancel
  their own timer.
* `Alloc`: a `sizeof(T) * n` (`Util/Alloc.hpp:26`) that wraps: sizes are not bounded.
* `COBSEncoder`, the class (`IO/Delim.hpp:81-130`), is unfinished in the source.
* `Images`: self-assignment, `NewImage` (which nothing uses), dimensions beyond their
  product.  `Json`: escapes and bytes, which the code does not write.
* `CRC` of 64 bits and more; SHA-2 messages whose length in bits takes more than eight bytes.

Observations made while modelling, which no property is about:

* `DES.hpp:155`: a two-character tripcode key gets its second character twice as salt;
  `DES.hpp:124` writes `&lt` without its semicolon; `crypt("")` shifts by 65
  (`DES.hpp:102`).  `Sha2.hpp:214`: the bulk path of `update` is never taken.
* `Format.hpp:137` refuses a field that ends exactly at the end of the data; the
  little-endian `U` types are signed, the big-endian `I` types unsigned.
* `Conv.hpp:206` compares `digit > base`, so that a digit equal to the base passes;
  line 219 adds the base, not the digit, on overflow; the result's `ptr` is the first
  character on success.
* GPS: the time is documented as "hhmmss.sss" and accepted with nine characters
  (`GPS.cpp:82`); the date of RMC is never read; a line that overflows is fed without
  its last two bytes (`Examples/GPS.cpp:75-79`).
* `UTF8.hpp`: the decoder's replacement is 0xFFFE, the encoder's 0xFFFD; continuation
  bytes, overlong forms and surrogates are not checked.
* The memoizer evicts in the order of computation, not of use; a size of 0 would erase
  from an empty list.  Assigning to an image by move leaks the block it had and keeps
  its old capacity; `resize` keeps no pixels.  The allocator's mutex is never locked.
* `JSON.hpp:89` ignores the errors of nested values; strings are not escaped (190).
* `Timer.hpp:102-108`: a `cancel()` and a `start()` that write `m_started_at` between
  `AccurateTimer`'s two reads of it have it add the time since the old start to the new
  one: the next tick is put off by all the time the timer had run.  TLC shows it when
  `Near` drops `~torn`.  A new period between the two reads of `m_every` (105, 107)
  misplaces the tick in the same way, backwards too.
* `SoftUART`: the handler ticks port 0 only.  `Packetman.hpp`: `reset()` zeroes
  `last_sent_packet_order`; `current_overruns` is never cleared (104); the room check
  reads a cursor that only `write_buf` advances (161); `tx_packet` returns 0 both for
  failure and for the order that wraps (90).
* `Nextion.hpp` drops the sign and keeps 16 bits of a number; `Random.hpp:59`
  returns `x * s` for the first of its pair.
