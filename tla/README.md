# A verification of dsr_enc_rawopt in TLA+

`dsrtx` encodes up to 32 audio channels (16 stereo programmes) into a DSR
(Digital Satellite Radio) stream and sends it to an SDR transmitter, a file or
the network. This directory holds TLA+ models of its parts, TLC runs that check
them on small instances, and proofs, checked by TLAPS, of the safety properties of eight
of them for all values of their constants. Paths such as `rf_hackrf.c:166` are
relative to `src/src/`.

1. [The system](#1-the-system)
2. [Modules](#2-modules)
3. [Runs](#3-runs), [findings](#findings)
4. [Proofs](#4-proofs)
5. [What is abstracted, what is not modelled](#5-what-is-abstracted-what-is-not-modelled)
6. [Plan](#6-plan)

## 1. The system

### Components

| Component | Files | State | Operations |
|---|---|---|---|
| main program | `dsrtx.c` | channel table, `rf`, `_abort` | `main`, `_load_config`, `testrun`, signal handler |
| frame encoder | `dsr.c`, `dsr.h`, `bits.c` | frame counter, delay memory of 4 blocks, SA table | `dsr_init`, `dsr_encode`, `dsr_update_sa`, `dsr_encode_ps` |
| audio sources | `src.c`, `src_rawaudio.c`, `src_tone.c`, `src_ffmpeg.c` | buffer, position, end-of-file, decoder | `src_*_open`, `src_read_mono`, `src_read_stereo`, `src_close` |
| configuration | `conf.c`, `conf.h` | text parsed in place | `conf_loadfile`, `_conf_parse`, `_conf_find`, `conf_section_exists`, `conf_str/int/double/bool` |
| RF interface, modulator | `rf.c`, `rf.h` | overlap-add ring, phase | `rf_qpsk_init`, `rf_qpsk_modulate`, `rf_write`, `rf_close` |
| HackRF sink | `rf_hackrf.c` | ring of buffers with a mutex each | `rf_hackrf_open`, `_rf_write`, `_tx_callback`, `_rf_close` |
| file and UDP sinks | `rf_file.c`, `udpsink.c` | conversion buffer, socket | `rf_file_open`, seven writers, `_rf_file_close` |
| SoapySDR sink | `rf_soapysdr.c` | stream | `_rf_write`; not built by the Makefile |
| trace output, tests | `dsr_trace.c`, `dsr_trace.h`, `test_*.c` | — | — |

### How they interact

Everything but the HackRF sink runs in the main thread:

    config file --conf--> main --opens--> sources, sink
    loop until _abort:
        sources --src_read_*--> audio[2048] --dsr_encode--> 64 frame pairs (5120 octets)
                --rf_qpsk_modulate--> samples --rf_write--> sink     (or octets --rf_write--> sink)
    signal handler: _abort = 1; a second signal ends the process

The HackRF sink adds libhackrf's transfer thread. `_buffer_write` (main thread)
and `_buffer_read` (transfer thread) share the ring; each keeps the mutex of the
buffer it is at locked *between* calls and takes the next mutex before it gives
up its own. The fields of a buffer are accessed under the mutex of that buffer
only if this discipline holds: there is no other lock.

### What is hard, and what makes each part correct

`PROJECT.json` lists each hazard with its line. In short:

* **HackRF ring** (two threads, a lost device, a stop at any time): the threads
  never use one buffer at a time, the reader finds only full buffers in the order
  they were filled, the writer waits only when the ring is full, nothing is freed
  under a callback, the octets on the air are the octets written.
* **Encoder** (signed counter that overflows, two delays, three addresses derived
  from one counter): each frame carries the samples of two blocks ago, scaled as
  announced then, with the SA bits in order; a receiver that has only the bits gets
  the samples back.
* **Programme names** (octets of up to four-byte codes, well formed or not, eight
  places, a parity table indexed by an unchecked number): a receiver shows the names,
  types and modes of the configuration; a malformed name harms no other, and a type out
  of range ends the program or spoils its own channel.
* **Companding** (a pointer walking a table with no bound): no overflow, best range.
* **Frame** (640 bits, two codes, two kinds of interleaving, scrambling): a receiver
  gets everything back; the codes keep their distance.
* **Sources** (buffers, blocks, frames and ends at different lengths; packets refused,
  decoders that break): order, completeness, every call returns but on three kinds of
  source that never give anything again.
* **Main program** (tables filled by the order of sections; every way to fail;
  signals at any moment; one thread that waits for every source; sources that end): slots,
  routing and announcements agree for as long as a source lasts; everything is closed
  once, but for a HackRF that will not stop; a signal costs no encoded block and ends the
  program unless it is in a call that never returns.
* **Configuration** (a list written over the text it is read from; brackets and marks
  left open; values converted without a check): nothing lost, nothing else read.
* **Modulator and sinks** (a ring that wraps inside a block, sums of ten pulses in 16
  bits, rounding, datagrams that fail, devices that take a part): no sum leaves 16
  bits, what is taken is the convolution without a gap, octets stay in order.

## 2. Modules

Each row names the code a module translates; `PROJECT.json` maps each definition
to its lines. `MC…` modules give the constants their values.

| Module | Code | What a state is, what a step is |
|---|---|---|
| `TxStream` | — | Abstract: what the sink promises. `written`, `played`, the latest copy `handed`; push, hand over in order, or insert zeros when the stream has run low. |
| `HackrfRing` | `rf_hackrf.c` with the loop of `testrun` | Program counters of both threads, mutexes, fill levels and *every octet* of every buffer, named by its position in the stream. Each lock, trylock, unlock, copy and each call of libhackrf is a step; a lost device and a failing `hackrf_stop_tx` are steps. |
| `HackrfRingProofs` | | Proofs (section 4). |
| `DsrEncoder` | `dsr.c` `dsr_encode` (counter, delay, scales, SA) | A call fills the delay memory, then one step per frame pair. Samples are named by block, channel and position; the counter is an int of `Word` values. |
| `BlockScale` | `dsr.c:143-152`, `dsr.c:298-331` | The search for the shift, one step per sample looked at and per step of the pointer. 16-bit arithmetic as in the code. |
| `EncoderProofs` | | Proofs about both (section 4). |
| `DsrFrame` | `dsr.c:154-272`, `dsr.c:333-391`, `bits.c` | One frame pair, as sets of bit positions that are 1: fields, BCH, interleaving, sync words, PRBS, output; and a receiver that knows only the frame's layout. |
| `EncodePath` | `dsr.c:274-393` | Composes `BlockScale`, `DsrEncoder` and `DsrFrame` into `dsr_encode` at its real sizes, with real samples, and lets the receiver rebuild them two blocks later. |
| `EncodePathProofs` | | Proofs about `DsrFrame` and `EncodePath` (section 4). |
| `ServiceInfo` | `dsr.c:68-209`, `dsr.c:395-475`, `dsrtx.c:212-257` | Sections with names as pieces of octets, well formed UTF-8 or not; one step per section, per character of a name and for the table; then the 128 rows, and a receiver that finds the groups by their sync word. A type is an int, shifted as the code does; an index outside the parity table reads an octet of `Memory` or ends the program (`RebuildCrashes`). |
| `AudioSource` | `src.c`, `src_rawaudio.c`, `src_tone.c`, `src_ffmpeg.c` | One source and its caller: step by step through `src_read_mono`/`_stereo` and the reader behind them, with the decoder's and the resampler's stores. |
| `AudioSourceProofs` | | Proofs (section 4). |
| `DsrTx` | `dsrtx.c`, `dsr.c` `dsr_update_sa` | The whole program from the options to its status, the other parts as single steps, any of which may turn out to be a call that never returns (`hung`). A source gives each block all 64 samples, the last few or none (`ended`); what fills a slot in a block is `fed`. A HackRF is closed or kept (`RfCloseFails`). |
| `DsrTxProofs` | | Proofs (section 4). |
| `Conf` | `conf.c` | The file in memory with the pointers `s` and `d`, one step per case of the parser; then a lookup along the list and the conversion of what it found. |
| `ConfProofs` | | Proofs about `Conf` and `ServiceInfo` (section 4). |
| `Modulator` | `rf.c:103-209` | The ring, the phase, one step per symbol. |
| `FileSink` | `rf_file.c`, `rf_soapysdr.c:40-63` | The file, the standard output with its previews, the datagrams or the device; one step per `fwrite`, `send` or write of the device, whole, in part or failing where the code looks at the result. |
| `TxOutput` | `dsrtx.c:302-316` | Composes `Modulator` and `FileSink` into the output half of the main loop. Histories keep the phases of all symbols (`phases`) and, for each block, how many symbols and how much output came before it (`marks`): the properties compare the output with the convolution of those symbols. |
| `TxOutputProofs` | | Proofs (section 4). |
| `NumberLemmas` | — | Division with remainder, induction up to a number, recursive functions: lemmas of the proofs. |

**Composition.** `DsrTx` sees encoder, sources and sinks as steps that succeed or
fail; `HackrfRing` contains the loop of `testrun`, for its end and its writes matter
to the ring; `TxOutput` joins modulator and sink, whose buffers do not match in
size. `DsrEncoder`, `BlockScale` and `DsrFrame` split `dsr_encode` by the data they
distinguish: *which* sample is sent where, *how* it is scaled, *where its bits go*;
`EncodePath` puts them together again. It takes the shift of a block from the operator
`RangeOf`, which the theorem `WalkFindsRange` shows the search to compute.
`ServiceInfo` and `DsrTx` share the `[channel]` sections: `DsrTx` says which are
accepted, `ServiceInfo` what becomes of the names and types of those that are, the types
out of range included, at which `dsr_update_sa` may end the program; `DsrTx` runs with
types of 0 to 15.

## 3. Runs

Invariants that give the variables their types are checked where they guard memory
(`AudioSource`, `BlockScale`, `Conf`) or are part of `RingInv`. The longest run,
`conf`, takes about two minutes.

| Run | Instance | Shows |
|---|---|---|
| `ring` | 4 buffers of 3 octets, blocks of 7 in chunks of 4, transfers of 5, 5 blocks, device may be lost | Mutual exclusion of buffers, whole buffers only, progress of the copy loop, waiting only when full, no use after free, the inductive invariant, and the refinement `HackrfRing => TxStream`; every block is accepted, what is written is aired and a signal ends the program, unless the device is lost while the ring is full. |
| `encoder` | 4 samples a block, 4 channels, counter of 32 values, 13 blocks | Delay of two blocks, scales announced before, SA order, over two overflows. |
| `scale` | blocks of 3 from 48 samples at the edges of all ranges, both signs | Exact and tightest scaling; the pointer stays in the table; the inductive invariant. |
| `service` | about 1000 names with every two kinds of characters; every channel and mode, types in, next to and far beyond their range | A receiver shows names, types and modes; a type out of range ends the program or spoils its own channel. |
| `encode` | the real sizes, 6 blocks, an overflow of the counter, 2 programmes | A receiver recovers every field with all syndromes zero and, two blocks later, every sample to 14 bits; three wrong bits of a block can be corrected and a fourth noticed, two in a word of scale factors. |
| `sources` | about 300 sources, blocks of 3 on buffers of 4, 6 calls, mono and stereo | Order, completeness, every call returns unless the source is stuck. |
| `dsrtx` | all tables of up to 3 sections of 2 programmes, all ways to fail, sources that end or fall silent, silent sinks, up to 2 signals | Slots, routing, announcements, closing, no lost block, the end. |
| `output` | the real pulse at 2 samples a symbol (ring of 21), 3 blocks of 2 kinds, 8 types and a device, any datagram or write of the device failing, any raw write cut short | No sum can leave 16 bits; what is taken = convolution at the precision of the type; octets in order; one preview, before the signal. |
| `conf` | an empty line and up to 3 lines of 13 kinds, 8 lookups | What a lookup finds, and makes of it, is what the file says; the parser ends. |
| `sources_pipe` | a pipe with `repeat` | **violated**: a call never returns. |
| `conf_compact` | first line `k=v` without blanks | **violated**: the rest of the file is lost. |
| `rate` | sample rates of 1 to 12 times the symbol rate | **violated**: a block larger than its buffer. |

### Why the bounds are enough

* **Ring.** Sizes are pairwise unlike, and none divides another where the code does
  not make it so: copies end inside, at and beyond buffers, chunks end inside
  buffers, transfers span two. 35 octets against 12 in the ring let it wrap twice
  while the reader is at any distance. Four buffers are the least for which "next",
  "previous" and "in between" are different sets on both sides; the proofs cover
  every other size.
* **Encoder.** The counter range is a multiple of the delay (4 blocks) and of the SA
  table as 2^32 is (assumed by name); 13 blocks run over the overflow twice, with
  all slots reused. Two scale vectors that differ in each channel tell blocks apart.
* **Scale.** A sample matters only through the range its magnitude falls in and
  through its last bits; both edges of all ranges are there, with both signs, in
  all orders of three. The proofs cover every length and sample.
* **Codes.** `CodesFarApart` holds for whole codes although no run can list 2^44 blocks.
  Each block sent is a sum of rows of the code (`Upset` is empty): in the run for every
  block sent, and for *every* 44 bits by the theorem `BlocksUpsetNothing` (section 4). So
  what a receiver finds upset depends on the wrong bits alone; all 41728 sets of up to
  three wrong bits upset different check bits, so no two blocks differ in fewer than seven
  places; and every row with its own bit has an even number of ones, so they differ in
  eight. The words of scale factors are 64 and are compared each with each.
* **Encoder path.** `range` lets each channel reach both edges of each of the eight
  ranges in turn; in `single` one channel differs from all the others, each of the 32
  in turn, so a bit of one channel in the place of another shows. Six blocks use every
  place of the delay memory and read back four blocks.
* **Service.** A character acts on the rest of the name through its length and through
  the state the decoder leaves: every two kinds stand next to each other, a third
  stands where the name is cut, and names of no, one and eight wide characters are
  there. `Memory` is what may lie outside the parity table: any mixture of 0 and 255. The
  types are the two ends of the range, the next to each, one that points 16 million octets
  away, and one that the shift by four bits brings back into the range of another.
* **Sources.** Lengths 0, 1, one less than, equal to and one more than the buffer
  (4) and twice the buffer; blocks of 3, so buffers end at every place in a block;
  decoded frames include an empty one and ones of one and two buffers and more, broken
  ones in every place, and the decoder holds back 0 or 1 frame.
* **Main program.** Two sections can collide, a third can come between or after
  them; two programmes tell a pair from its neighbour. A source may end before, at or in
  any block; of its last block it matters only whether it is empty. `dsrtx` loops without a
  bound on blocks: its state repeats.
* **Output.** A block (24 samples) is longer than the ring (21) and than the sink's
  buffer (10), and a multiple of neither; a device takes less than a block (9) or all
  of it. `Headroom` speaks of every symbol that may follow, not only of the blocks.
* **Configuration.** Three lines let a section lie before, between and after keys.
  Lines start after an empty one in `conf`: the other case is `conf_compact`.

### Fairness

* `HackrfRing`: weak fairness of each thread (the scheduler runs it when it can
  run; no lock is contested by more than the two threads, and a trylock that fails
  is a step of its own), of libhackrf's next transfer while it streams (the
  hardware drains transfers at the sample rate), and of the end of the stream after
  `hackrf_stop_tx`. A signal and the loss of the device are never owed. With
  `DeviceMayVanish` the main thread may stop for ever in `pthread_mutex_lock`
  (`rf_hackrf.c:166`): that is what the code does, so `ring` switches the check for
  deadlock off, and the liveness properties name this state, `Stranded`, as the only
  one in which they need not hold.
* `AudioSource`, `DsrTx`, `Conf`: weak fairness of the one thread. Nothing owes
  another call of `src_read_*`, and no signal is owed. In `DsrTx` the thread is fair
  unless it is `hung` in a call on a source, a command or a sink that lets it wait for
  ever; `ReadReturns` excepts the sources that are `Stuck`. Both say exactly where the
  program depends on the other side.
* The other modules check safety only.

### Findings

1. **`rate`**. `o2` (`dsrtx.c:279`) holds ten samples per symbol. `sample_rate` may
   be "any multiple of 10240000" (`example.conf:34`) and `main` checks only that
   (`dsrtx.c:377`): from eleven times on `rf_qpsk_modulate` writes past its end.
2. **`sources_pipe`**. With `exec` and `repeat`, `fseek` fails on the pipe, its result
   is ignored (`src_rawaudio.c:48`), `fread` goes on returning 0 and `src_read_*`
   never returns: neither of "rewind to beginning or signal EOF" happens. The same
   path loops on an empty repeated file.
3. **`conf_compact`**. When nothing has been dropped from the text before it, the
   terminator of a value is written onto the newline that `s` still points to
   (`conf.c:174`): the parser takes it for the end of the file and all further
   lines are lost. A file that begins with a comment, an empty line or a blank, as
   the example does, or has a blank around the first `=`, is read in full.

Seen while reading, each a single constant or word and so without a run of its own:
`-v` is documented as `--verbose` (`dsrtx.c:77`) and prints the version (`dsrtx.c:346`);
the example's `[output]` for a HackRF has no `data_type` (`example.conf:9-14`), which
the code demands (`dsrtx.c:182`), and gives `amp` as a boolean (`example.conf:14`) that is
read as a number (`dsrtx.c:201`), so that `amp = true` would leave the amplifier off
(`ValueAsDocumented` has the conversion); the README lists SoapySDR, which the Makefile never
enables, and an unknown output type runs without a sink (`dsrtx.c:439`); under "Allocate
0.5 seconds for output buffers" (`rf_hackrf.c:287`) the buffers take `sample_rate * 2`
octets, two for each sample, which is one second; `test_dsr.c:284` speaks
of a PRBS over "Bits 320+", the code scrambles bits 12 to 319.

## 4. Proofs

TLAPS checks the following for **every** value of the constants that satisfies the
named assumptions.

### `HackrfRingProofs`, from `RingAssumption`

At least two buffers; buffers, blocks, chunks and transfers of any positive size; any
bound on blocks; the device lost or not.

| Theorem | Says |
|---|---|
| `RingInvHolds` | `Spec => []RingInv` |
| `TypeCorrect`, `ExclusiveBuffers`, `ReaderGetsWholeBuffers`, `WriterNeverSpins`, `WriterBlocksOnlyWhenFull`, `FreedAfterLastCallback` | the invariants `TypeOK`, `NoSharedBuffer`, `WholeBuffers`, `NeverSpins`, `BlockedMeansFull`, `NoUseAfterFree` |
| `RingImplementsStream` | `Spec => StreamRefined`: the ring implements `TxStream` |

None of these invariants is inductive. That the two indices differ depends on who
holds which mutex; that a successful trylock yields a full buffer depends on *all*
buffers between reader and writer being full and all the others empty; that octets
are in order depends on each full buffer continuing its neighbour. `RingInv` says
just that: `LocksOK` (the mutexes are a function of the two indices and the program
counters), `FillOK` (full between reader and writer, empty elsewhere), `ProgressOK`
(what the counters know of the loops), `OctetsOK` (each unread octet is the base of
its buffer plus its offset, and bases continue one another round the ring).

The proof has one lemma per action (or per group of actions that leave the ring
alone, by `QuietStep`) and under it one step per conjunct the action can disturb.
`WriteUnlock`, `ReadTryLock` and `ReadUnlock` move a border of the set `Between`;
`SuccCases`, `SuccFacts` and `WriteUnlockBetween` say how, so that `%` does not enter
the rest. The refinement maps copies to pushes and hand-overs, an underrun to zeros
(the invariant gives the low-water mark: the reader's buffer is empty and its
successor is the writer's), everything else to stuttering.

### `EncoderProofs`: `BlockScale`, from `ScaleAssumption`

Any block length and any set of 16-bit samples.

| Theorem | Says |
|---|---|
| `ScaleInvHolds` | the inductive invariant `ScaleInv` |
| `RangeInTable` | the pointer stays in the table (`TypeOK`) |
| `ScalingIsExact` | `NoOverflow` |
| `ScaleIsTightest` | `TightestRange` |
| `WalkFindsRange` | `RangeFound`: the walk computes `RangeOf` of the set of samples |

`NoOverflow` speaks of finished blocks; the invariant says of a block under way that
all samples so far fit the present range, except the one under test, and that one of
them does not fit the range before. `FitsRange` (a sample fits a range exactly when
its shifted value has 16 bits) and `RangesNested` carry the arithmetic.

### `EncoderProofs`: `DsrEncoder`, from `EncoderAssumption`

Any block length, number of channels, size and place of the SA table, any scales, any
number of calls. The width of the counter is a multiple of twice the period of the delay
memory and of the SA table, as 2^32 is.

| Theorem | Says |
|---|---|
| `EncoderInvHolds` | the inductive invariant `EncoderInv` |
| `DelayedByTwoBlocksHolds` | a frame carries the samples of two blocks before |
| `ScaleAnnouncedBeforeHolds` | with the scales announced for them before |
| `SAInOrderHolds` | the SA bits go out row by row without a gap |

The code takes three addresses from one signed counter. `FrameOK` says the counter is the
number of frame pairs wrapped to an int; `Int32Digits` shows that block and row numbers
taken from it do not notice the wrap, negative values included. `DelayOK` says where the
last three blocks lie; it survives a call because four slots keep the one that is
written apart from the three that are still read (`PlaceInSlot`).

### `EncodePathProofs`, from `PathAssumption`

The real sizes (32 channels, blocks of 64, delay memory of 8192 samples), and any set of
programmes of 16-bit samples, any SA table, any number of calls and any counter whose
range is a multiple of the delay and of the SA table.

| Theorem | Says |
|---|---|
| `PathInvHolds` | the inductive invariant `PathInv`, with what `EncoderInv` says of the delay |
| `EncoderImplemented` | `Spec => Enc!Spec`: with its values, scales and bits it implements `DsrEncoder` |
| `FramesReceived` | `Received`: each pair of frames gives back every field, no block has an error |
| `AudioReceivedHolds` | `AudioReceived`: every sample comes back two blocks later, scaled with any copy of the factor heard |
| `BlocksUpsetNothing` | every block that `BchEncode` makes, of any 44 bits, is a sum of rows of the code: no check bit is upset |

The theorems of `EncoderProofs` are used, not repeated: `EP` instantiates that module with
the state of this one, `EncoderImplemented` carries `EncoderInv` over, and `ShiftHolds`
takes from `RangeOfHolds` and `CodedBounds` what is known of a scaled sample.

`FrameInv` says what the two frames are after each step: after `Insert` and `Shape` that
a receiver would find everything in them (`Framed`), before that what `Insert` needs. Each
lemma on the way is about one function of the code, for every argument:

* `BchDivides`: the division leaves nothing of a block whose check bits come from
  `CheckBits`, for every 44 bits. The register that the encoder shifts and the rest that
  the receiver keeps differ by a factor of x^19 (`RestIsShifted`, `Times19Linear`), and
  that factor loses nothing (`Times19Injective`).
* `CheckBitsLinear`, `OneMore`: the check bits of a sum are the sum of the check bits, and
  each bit more turns those of its row; `BlocksUpsetNothing` adds the 44 bits one by one.
* `NumberRead`, `Block77Is`, `SampleRead`: a number of up to eleven bits is read as it was
  written, the fields of a block do not touch, and a sample cut into 11 and 3 bits is put
  together again, sign included.
* `OctetDealtIs`, `DealtIs`: each octet fills its own stretch of a frame, the tenth, which
  is shorter, too; so bit k of a block is where a receiver looks for it.
* `OnesAre`, `NibbleIs`, `PrbsIs`: the register of the encoder, four steps at a time, and
  the sequence of the receiver, five terms at a time, are the same recurrence; both are
  compared with it term by term.

`PathInv` adds what links the halves: `AnnouncedOK` (the factors announced are those of
the blocks given), `LinkOK` (the frame being made has the samples and the round of the
last step of `DsrEncoder`) and `HeardOK` (the receiver has heard of the factors of each
block exactly the bits sent so far). Without the last one nothing could be said of a
sample, whose factor came with 64 frames two blocks earlier.

### `DsrTxProofs`, from `ProgramAssumption`

Any number of programmes, of sections and of signals; any configuration and command
line; every open, lookup, read and write may fail or hang, every source may end in any
block, a HackRF may not stop.

| Theorem | Says |
|---|---|
| `ProgramInvHolds` | the inductive invariant `ProgramInv` |
| `FirstComeFirstServedHolds` | a slot goes to the first section that asks for it |
| `SourcesInTheirSlotsHolds` | the loop feeds each channel from its own section's source |
| `AnnouncedIsSentHolds` | what has a signal is announced as it is; what is announced has a full block unless its source did not open or has ended |
| `ClosedAtEndHolds` | status 0 means every source closed once, and the sink, unless it is a HackRF that would not stop |
| `NoBlockLostHolds` | a signal costs no encoded block |

The table of slots is the only link between `_load_config`, which fills it, `testrun`,
which routes by it, and the end of `main`, which closes by it. `TableOK` states it as a
function of the accepted sections; `FedOK` and `ClosedOK` state how far a loop over the
slots has come. Two facts about pairs carry the rest: the slots of a valid section are an
even one and its successor or a single one (`SlotsOfSection`), and no loop over the
slots stops at the right slot of a stereo pair, which has no source of its own. So every
source is fed and closed from exactly one slot (`Home`), and both tracks of a stereo
source get the same number of samples (`FedBy`).

### `AudioSourceProofs`, from `SourceAssumption`

Any block and buffer length, any set of sources with any packets, frames, broken
frames and failing reads, any number of calls.

| Theorem | Says |
|---|---|
| `SourceInvHolds` | the inductive invariant `SourceInv` |
| `BufferTyped` | position and length stay inside the buffer (`TypeOK`) |
| `InOrderHolds` | the blocks are the input's samples in order, once each |
| `EndIsCompleteHolds` | an ended source has given all it can |

`BufferOK` says the buffer is the last stretch of the input read, `PlaceOK` that what
was copied is what was read less that stretch (a repeated file by a number of whole
lengths more), `DecoderOK` what decoder and resampler have taken and keep back.
`TracksRest` and its neighbours move the borders of such stretches.

### `ConfProofs`, from `ConfAssumption` and `ServiceAssumption`

`Conf`: any set of files without a terminator inside or a backslash at the end, any
lookups.

| Theorem | Says |
|---|---|
| `ConfInvHolds` | the inductive invariant `ConfInv` |
| `PointersInside` | neither pointer leaves the memory of the file (`TypeOK`) |

The list is written over the text it is read from, so the pointers are safe only
because of what lies between them. `TextOK` says both terminators are still ahead,
`GapOK` how far `d` may be ahead of `s` (one character, at a terminator, which is what
`conf_compact` is about), `ListOK` that the list up to `d` is made of whole strings, so
that a lookup, which skips string by string, comes to its end and not beyond.

`ServiceInfo`: any number of sections that share no channel, any types, and names of any
length and any octets but 0: each is a sequence of pieces, of which some encode a
character and the others are stray, overlong or cut short. Every string is one, for what
begins no code, or breaks off, ends where the next piece begins.

| Theorem | Says |
|---|---|
| `ServiceInvHolds` | the inductive invariant `ServiceInv` |
| `TypesReceivedHolds` | types, modes, music flags and parity arrive; a type outside 0..15 harms its own channel or ends the program (`TypesReceived`) |
| `NamesReceivedHolds` | so do the names, a blank for what the set lacks or is malformed (`NamesReceived`) |

`ServiceInv` says that the slots of the sections read so far are as these ask and no later
section has touched them, and of the name in work that its first pieces are written and
`src` is at the octets of the next (`Reading`). That one call of `_utf8next` takes one
piece and nothing of its neighbour is `PieceIs`: `EncodingRead` computes back the code of
an encoding of one to four octets, `MalformedRead` finds that the others fail, and
`PieceRead` that what follows makes no difference. `RestsAre` splits the string into what
is left behind each piece. A receiver counts sync words: `GroupIs` says the count finds
the row where `dsr_update_sa` began the group. `CharShown` takes from the character set
only that its codes are small and the blank is in its place.

### `TxOutputProofs`, from `ModulatorAssumption`, `PulseAssumption`, `SinkAssumption`, `OutputAssumption`

Any number of samples per symbol; any pulse whose overlapping taps add up to less than
full scale (section 5); blocks, buffers and datagrams of any length; a device that takes
any part; a raw block of which the file takes any part, and any datagram or write of the
device failing.

| Theorem | Says |
|---|---|
| `OutInvHolds` | the inductive invariant `OutInv` |
| `WindowHoldsRestHolds` | the ring holds the rest of the convolution, what was taken was complete |
| `HeadroomHolds` | no 16-bit sum can wrap, whatever symbols come |
| `StreamFiledHolds` | the output is the convolution to the precision of its type, without a gap |
| `OctetsSentHolds` | the octets arrive in order, a failure costs the rest of its block only |

`HoldsRest` says each slot of the ring holds what the symbols so far give to the sample
it will become; `NeverWraps` that its magnitude and what may still be added (`Reach` of
its age) stay in 16 bits, so `Wrap16` is the identity on every sum; `Complete` that the
samples of the block in work are final. `Chain` says that the blocks' shares of symbols
and of output follow one another, and `AllFiled` that each share is right: a later symbol
does not reach back into it (`BeforePulse`), a later write only appends (`FiledStays`).
The seven writers differ in the arithmetic of their conversions; each is one lemma.

The convolution is a sum over a sequence that grows. It is written as a recursive
*function*, and `NumberLemmas` gives what the proofs need of one: that such a function
exists (`RecursiveFunction`), from induction on a *set* of numbers
(`InductionUpTo`), which needs no theorem with an operator for a parameter.

### How the invariants were found

Each inductive invariant was checked by TLC as an invariant of the bounds of its run
before it was proved (`RingInv` and `ScaleInv` still are part of theirs). A step that
would not go through was a conjunct missing from the invariant, never a property
weakened. The assumptions on constants are
evaluated by TLC in every run.

### Model-checked only

* **Liveness** (`BlockAccepted`, `StreamAired`, `AbortStops`, `SignalEnds`, `ReadReturns`,
  `ParseEnds`) rests on fairness and `ENABLED`, which the prover does not handle.
* **`CodesFarApart`**: the distance of two fixed codes. Of its parts, that no block sent
  upsets a check bit is proved for every block (`BlocksUpsetNothing`). The others quantify
  over no constant; the run evaluates them for every set of up to three wrong bits and
  every pair of words. A proof would be the same list of cases, or the theory of fields
  with 64 elements.
* **`Conf.FoundAsDocumented`, `ValueAsDocumented`**: `Documented` reads the text a second
  time as the documentation does, by a fold over its lines; that the parser agrees with it
  for every text is an induction over the text with that fold. What is proved is that the
  parser stays within it.

## 5. What is abstracted, what is not modelled

* **Gains, frequencies, antennas** are passed through and left out. Names, types and
  music flags have a module of their own, `ServiceInfo`; in `DsrTx` they go where their
  section goes.
* **Opening** sources and sinks is a choice between success and failure in `DsrTx`
  (with the type and the input of a source as `_open_src` asks for them).
  `rf_hackrf_open` is the state it leaves on success. `src_ffmpeg_open` gives nothing
  back when it fails half way; nothing else depends on what it leaves open.
* **Samples** of tones and decoders are external; a sample is its position. The
  decoder and the resampler are modelled by how `src_ffmpeg.c` uses them: frames come
  some packets late, packets may be refused, a frame may be broken, give no samples or
  more than there is room for. The `level` of a source is left out.
* **The pulse** of the modulator is a constant of the module; the run has the taps that
  `rf_qpsk_init` computes for two samples per symbol at the level of 0.8. Sums wrap
  at 16 bits in the model as they would in the code, and `Headroom` shows they do not.
  The proof needs of the pulse that taps a symbol apart add up to no more than 32767
  (`PulseAssumption`): those of `rf_qpsk_init` at the level of 0.8 (`dsrtx.c:451`) come to
  25838 at most.
* **stdio**: reads of audio may fail. A raw block may be taken in part (`WriteRawShort`); the
  writers of samples ignore what `fwrite` returns, and in the model the file takes all of
  theirs. Datagrams and devices may fail. Memory never runs out. `conf_loadfile` reads a
  second piece of a file, should the first `fread` stop short of the length and not of the
  file, to the start of the memory and not behind the first (`conf.c:219`); in the model a
  file is read in one piece or not at all.
* **The resampler**: a negative result of `swr_convert` ends the source as an error of the
  decoder does (`FfmpegBroken`).
* **`conf_section_exists`** is called with a name of a section only; its answer for none
  (`conf.c:298`) is left out.
* **Configuration**: what `strtol` and `strtod` make of a value is external.
* **Undefined behaviour**: signed overflow of the frame counter (`dsr.c:391`) is taken
  to wrap, as the build's code does; reading behind a backslash that ends a file is
  excluded by an assumption.
* **Not modelled**: opening and closing of SoapySDR devices (the sink is not built),
  `rf_udp_send` and `rf_udp_set_bitrate` of `udpsink.c` (nothing calls them), debugging
  output, tests.

Known and without a run of their own, because a reading of one line settles them: with
the output `-` the text of a preview stands before the signal (`rf_file.c:61-79`), and
`OnePreview` says nowhere else; `amp = true` counts as 0. Hazards seen that
no property can tell apart: a backslash as the last character of a file (`conf.c:141`) and
`ftell` on a pipe (`conf.c:205`) read memory that was never written; a field that ends on
an octet's border reads the next octet and writes it back as it was, which behind the
last field of the frames `a` and `b` and of `zi` lies outside the array (`bits.c:43-48`); `antenna` outlives the
configuration it points into (`dsrtx.c:202`); a `sample_rate` of 0 passes the test
(`dsrtx.c:377`) and makes every block empty; the result of `rf_qpsk_init` is ignored
(`dsrtx.c:451`).

## 6. Plan

The modules were written in the order HackRF ring, encoder, companding, sources, main
program, configuration, output, frame, service information, encoder path; the ring, the
companding, the main program, the encoder with its frames and its receiver, the service information, the
sources, the configuration's pointers and the output are proved. Left:

1. **Prove**: that a lookup of `Conf` returns an entry of the list.
2. **Abstract specifications**: a programme's samples from source to frame as a queue,
   implemented by `AudioSource` and `DsrEncoder`; a sink as "blocks in order", implemented
   by `FileSink`.
3. **Model**: the error paths of `src_ffmpeg_open` and `rf_hackrf_open` one by one; the
   pacing of `rf_udp_send`, should the program come to use it.
