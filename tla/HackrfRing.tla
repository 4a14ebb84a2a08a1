----------------------------- MODULE HackrfRing -----------------------------
(***************************************************************************)
(* The HackRF sink of dsrtx (src/rf_hackrf.c): a ring of buffers, each     *)
(* with its own mutex, between two threads.                                *)
(*                                                                         *)
(*   - the main thread runs testrun() -> rf_write() -> _rf_write() ->      *)
(*     _buffer_write(), and _rf_close() once a signal has set _abort;      *)
(*   - libhackrf's transfer thread runs _tx_callback() -> _buffer_read().  *)
(*                                                                         *)
(* A thread keeps the mutex of "its" buffer locked between calls and moves *)
(* on by locking the next buffer BEFORE releasing the one it leaves: the   *)
(* writer with a blocking lock, the reader with a trylock that turns into  *)
(* an underrun.  Each lock, trylock, unlock and copy is a step of its own. *)
(*                                                                         *)
(* Data: an octet is its position in the stream (see TxStream).  The       *)
(* initial state is the one rf_hackrf_open() leaves behind.                *)
(***************************************************************************)
EXTENDS Integers

CONSTANTS
    Count,          \* number of buffers (BUFFERS, 32 in the code)
    Length,         \* octets per buffer (sample_rate * 2 / BUFFERS)
    BlockOctets,    \* octets of one _rf_write call (one modulated audio block)
    ChunkOctets,    \* size of the conversion buffer iq8 (4096)
    TransferOctets, \* valid_length of a libhackrf transfer
    MaxBlocks,      \* bound: blocks the main loop produces
    DeviceMayVanish \* TRUE: the device may be unplugged at any time

ASSUME RingAssumption ==
    /\ Count \in Nat /\ Count >= 2
    /\ Length \in Nat \ {0}
    /\ BlockOctets \in Nat \ {0}
    /\ ChunkOctets \in Nat \ {0}
    /\ TransferOctets \in Nat \ {0}
    /\ MaxBlocks \in Nat
    /\ DeviceMayVanish \in BOOLEAN

VARIABLES
    \* buffers_t and buffer_t
    mutex,      \* mutex[i]: "free" or the role that has it locked
    data,       \* data[i][o]: the octet at offset o of buffer i
    start,      \* start[i]: offset of the first unread octet
    length,     \* length[i]: unread octets
    in,         \* the writer's buffer
    out,        \* the reader's buffer
    \* the main thread
    wpc,        \* where it is
    samples,    \* octets of the current block not yet converted
    b,          \* octets of the current chunk not yet in a buffer
    blocks,     \* blocks started
    abort,      \* _abort
    \* the transfer thread
    rpc,        \* where it is
    l,          \* octets of the current transfer still to fill
    \* libhackrf and the lifetime of the ring
    dev,        \* state of the device's stream
    freed,      \* _buffer_free() has run
    \* the stream seen from outside (TxStream)
    written, played, handed

mainVars   == <<wpc, samples, b, blocks, abort>>
txVars     == <<rpc, l>>
devVars    == <<dev, freed>>
streamVars == <<written, played, handed>>
vars == <<mutex, data, start, length, in, out, mainVars, txVars, devVars, streamVars>>

Index   == 0 .. Count - 1
Offset  == 0 .. Length - 1
Zero    == -1     \* an octet of memset(buf, 0, l)
Junk    == -2     \* an octet of malloc'ed memory nobody has written
Smaller(x, y) == IF x < y THEN x ELSE y

\* (i + 1) % buffers->count
Succ(i) == (i + 1) % Count

MainPC == {"loop", "chunk", "call", "unlock", "copy",
           "stop", "wait", "close", "free", "done"}
TxPC   == {"idle", "call", "unlock", "copy"}
Dev    == {"streaming", "stopping", "stopped", "vanished", "closed"}

-----------------------------------------------------------------------------
\* Mutant of Init: the reader starts on the buffer next to the writer's.
InitReaderNext ==
    /\ mutex = [i \in Index |-> IF i = 0 THEN "writer"
                                ELSE IF i = 1 THEN "reader" ELSE "free"]
    /\ data = [i \in Index |-> [o \in Offset |-> Junk]]
    /\ start = [i \in Index |-> 0] /\ length = [i \in Index |-> 0]
    /\ in = 0 /\ out = 1
    /\ wpc = "loop" /\ samples = 0 /\ b = 0 /\ blocks = 0 /\ abort = FALSE
    /\ rpc = "idle" /\ l = 0 /\ dev = "streaming" /\ freed = FALSE
    /\ written = 0 /\ played = 0 /\ handed = [k \in {} |-> Zero]

\* _buffer_init: the writer starts on the first buffer, the reader on the last,
\* which is empty; both mutexes are taken before the stream starts.
Init ==
    /\ mutex = [i \in Index |-> IF i = 0 THEN "writer"
                                ELSE IF i = Count - 1 THEN "reader" ELSE "free"]
    /\ data = [i \in Index |-> [o \in Offset |-> Junk]]
    /\ start = [i \in Index |-> 0]
    /\ length = [i \in Index |-> 0]
    /\ in = 0
    /\ out = Count - 1
    /\ wpc = "loop" /\ samples = 0 /\ b = 0 /\ blocks = 0 /\ abort = FALSE
    /\ rpc = "idle" /\ l = 0
    /\ dev = "streaming" /\ freed = FALSE
    /\ written = 0 /\ played = 0 /\ handed = [k \in {} |-> Zero]

-----------------------------------------------------------------------------
(* The main thread: testrun() and _rf_write() *)

\* while(!_abort): encode a block and hand it to _rf_write.
RfWrite ==
    /\ wpc = "loop" /\ ~abort /\ blocks < MaxBlocks
    /\ samples' = BlockOctets
    /\ blocks' = blocks + 1
    /\ wpc' = "chunk"
    /\ UNCHANGED <<mutex, data, start, length, in, out, b, abort, txVars, devVars, streamVars>>

\* while(samples > 0): convert the next chunk of at most 4096 octets.
NextChunk ==
    /\ wpc = "chunk" /\ samples > 0
    /\ b' = Smaller(samples, ChunkOctets)
    /\ samples' = samples - b'
    /\ wpc' = "call"
    /\ UNCHANGED <<mutex, data, start, length, in, out, blocks, abort, txVars, devVars, streamVars>>

\* _rf_write returns; testrun ignores its result.
BlockDone ==
    /\ wpc = "chunk" /\ samples = 0
    /\ wpc' = "loop"
    /\ UNCHANGED <<mutex, data, start, length, in, out, samples, b, blocks, abort,
                   txVars, devVars, streamVars>>

-----------------------------------------------------------------------------
(* _buffer_write(): called while(b) *)

\* Mutant of WriteLock: the lock's result is ignored.
WriteLockAnyway ==
    /\ wpc = "call" /\ length[in] = Length
    /\ mutex' = [mutex EXCEPT ![Succ(in)] = "writer"]
    /\ wpc' = "unlock"
    /\ UNCHANGED <<data, start, length, in, out, samples, b, blocks, abort,
                   txVars, devVars, streamVars>>

\* Mutant of WriteLock: the writer moves on from a buffer that is not full.
WriteLockPartial ==
    /\ wpc = "call" /\ length[in] > 0
    /\ mutex[Succ(in)] = "free"
    /\ mutex' = [mutex EXCEPT ![Succ(in)] = "writer"]
    /\ wpc' = "unlock"
    /\ UNCHANGED <<data, start, length, in, out, samples, b, blocks, abort,
                   txVars, devVars, streamVars>>

\* The buffer is full: pthread_mutex_lock on the next one, which may block.
WriteLock ==
    /\ wpc = "call" /\ length[in] = Length
    /\ mutex[Succ(in)] = "free"
    /\ mutex' = [mutex EXCEPT ![Succ(in)] = "writer"]
    /\ wpc' = "unlock"
    /\ UNCHANGED <<data, start, length, in, out, samples, b, blocks, abort,
                   txVars, devVars, streamVars>>

\* Mutant of WriteUnlock: the buffer that was left stays locked.
WriteUnlockForgotten ==
    /\ wpc = "unlock"
    /\ in' = Succ(in)
    /\ wpc' = "copy"
    /\ UNCHANGED <<mutex, data, start, length, out, samples, b, blocks, abort,
                   txVars, devVars, streamVars>>

\* Release the full buffer to the reader and adopt the next one.
WriteUnlock ==
    /\ wpc = "unlock"
    /\ mutex' = [mutex EXCEPT ![in] = "free"]
    /\ in' = Succ(in)
    /\ wpc' = "copy"
    /\ UNCHANGED <<data, start, length, out, samples, b, blocks, abort,
                   txVars, devVars, streamVars>>

\* Mutant of WriteCopy: the room left in the buffer is not looked at.
WriteCopyUnclamped ==
    /\ \/ wpc = "call" /\ length[in] # Length
       \/ wpc = "copy"
    /\ data' = [data EXCEPT ![in] = [o \in Offset |->
                   IF start[in] + length[in] <= o /\ o < start[in] + length[in] + b
                   THEN written + (o - start[in] - length[in]) ELSE @[o]]]
    /\ length' = [length EXCEPT ![in] = @ + b]
    /\ b' = 0
    /\ written' = written + b
    /\ wpc' = "chunk"
    /\ UNCHANGED <<mutex, start, in, out, samples, blocks, abort, txVars, devVars,
                   played, handed>>

\* memcpy as much as fits behind what the buffer holds.
WriteCopy ==
    /\ \/ wpc = "call" /\ length[in] # Length
       \/ wpc = "copy"
    /\ LET i == start[in] + length[in]
           n == Smaller(b, Length - i)
       IN  /\ data' = [data EXCEPT ![in] = [o \in Offset |->
                          IF i <= o /\ o < i + n THEN written + (o - i) ELSE @[o]]]
           /\ length' = [length EXCEPT ![in] = @ + n]
           /\ b' = b - n
           /\ written' = written + n
    /\ wpc' = IF b' = 0 THEN "chunk" ELSE "call"
    /\ UNCHANGED <<mutex, start, in, out, samples, blocks, abort, txVars, devVars,
                   played, handed>>

-----------------------------------------------------------------------------
(* The transfer thread: _tx_callback() and _buffer_read() *)

\* libhackrf asks for the next transfer.
TxCallback ==
    /\ rpc = "idle" /\ dev \in {"streaming", "stopping"}
    /\ l' = TransferOctets
    /\ rpc' = "call"
    /\ UNCHANGED <<mutex, data, start, length, in, out, mainVars, devVars, streamVars>>

\* Mutant of ReadTryLock: the drained buffer's start is not reset.
ReadTryLockNoReset ==
    /\ rpc = "call" /\ length[out] = 0
    /\ mutex[Succ(out)] = "free"
    /\ mutex' = [mutex EXCEPT ![Succ(out)] = "reader"]
    /\ rpc' = "unlock"
    /\ UNCHANGED <<data, start, length, in, out, mainVars, l, devVars, streamVars>>

\* The buffer is drained and the next one is free: lock it, reset the old one.
ReadTryLock ==
    /\ rpc = "call" /\ length[out] = 0
    /\ mutex[Succ(out)] = "free"
    /\ mutex' = [mutex EXCEPT ![Succ(out)] = "reader"]
    /\ start' = [start EXCEPT ![out] = 0]
    /\ rpc' = "unlock"
    /\ UNCHANGED <<data, length, in, out, mainVars, l, devVars, streamVars>>

\* The trylock fails: the rest of the transfer is filled with zeros.
ReadUnderrun ==
    /\ rpc = "call" /\ length[out] = 0
    /\ mutex[Succ(out)] # "free"
    /\ handed' = [k \in 1..l |-> Zero]
    /\ l' = 0
    /\ rpc' = "idle"
    /\ UNCHANGED <<mutex, data, start, length, in, out, mainVars, devVars, written, played>>

\* Mutant of ReadUnlock: the drained buffer stays locked.
ReadUnlockForgotten ==
    /\ rpc = "unlock"
    /\ out' = Succ(out)
    /\ rpc' = "copy"
    /\ UNCHANGED <<mutex, data, start, length, in, mainVars, l, devVars, streamVars>>

\* Release the drained buffer to the writer and adopt the next one.
ReadUnlock ==
    /\ rpc = "unlock"
    /\ mutex' = [mutex EXCEPT ![out] = "free"]
    /\ out' = Succ(out)
    /\ rpc' = "copy"
    /\ UNCHANGED <<data, start, length, in, mainVars, l, devVars, streamVars>>

\* Mutant of ReadCopy: every copy starts at offset 0 of the buffer.
ReadCopyFromZero ==
    /\ \/ rpc = "call" /\ length[out] # 0
       \/ rpc = "copy"
    /\ LET n == Smaller(l, length[out])
       IN  /\ handed' = [k \in 1..n |-> data[out][k - 1]]
           /\ l' = l - n
           /\ length' = [length EXCEPT ![out] = @ - n]
           /\ start' = [start EXCEPT ![out] = @ + n]
           /\ played' = played + n
    /\ rpc' = IF l' = 0 THEN "idle" ELSE "call"
    /\ UNCHANGED <<mutex, data, in, out, mainVars, devVars, written>>

\* memcpy what the buffer has, up to the rest of the transfer.  A copy of nothing
\* returns 0, which _tx_callback takes for an underrun.
ReadCopy ==
    /\ \/ rpc = "call" /\ length[out] # 0
       \/ rpc = "copy"
    /\ LET n == Smaller(l, length[out])
       IN  /\ handed' = IF n = 0 THEN [k \in 1..l |-> Zero]
                        ELSE [k \in 1..n |-> data[out][start[out] + k - 1]]
           /\ l' = IF n = 0 THEN 0 ELSE l - n
           /\ start' = [start EXCEPT ![out] = @ + n]
           /\ length' = [length EXCEPT ![out] = @ - n]
           /\ played' = played + n
    /\ rpc' = IF l' = 0 THEN "idle" ELSE "call"
    /\ UNCHANGED <<mutex, data, in, out, mainVars, devVars, written>>

-----------------------------------------------------------------------------
(* Stopping: the signal handler and _rf_close() *)

\* _sigint_callback_handler, first signal (the second one ends the process).
Signal ==
    /\ ~abort /\ wpc # "done"
    /\ abort' = TRUE
    /\ UNCHANGED <<mutex, data, start, length, in, out, wpc, samples, b, blocks,
                   txVars, devVars, streamVars>>

\* _abort is looked at between blocks only.
LoopExit ==
    /\ wpc = "loop" /\ abort
    /\ wpc' = "stop"
    /\ UNCHANGED <<mutex, data, start, length, in, out, samples, b, blocks, abort,
                   txVars, devVars, streamVars>>

\* Mutant of StopTx: the device is never told to stop.
StopTxMissing ==
    /\ wpc = "stop"
    /\ wpc' = "wait"
    /\ UNCHANGED <<mutex, data, start, length, in, out, samples, b, blocks, abort,
                   txVars, devVars, streamVars>>

\* Mutant of StopTx: the ring is freed as soon as the stop has been requested.
StopTxFreeNow ==
    /\ wpc = "stop"
    /\ dev' = IF dev = "streaming" THEN "stopping" ELSE dev
    /\ wpc' = "free"
    /\ UNCHANGED <<mutex, data, start, length, in, out, samples, b, blocks, abort,
                   txVars, freed, streamVars>>

\* hackrf_stop_tx succeeds.
StopTx ==
    /\ wpc = "stop"
    /\ dev' = IF dev = "streaming" THEN "stopping" ELSE dev
    /\ wpc' = "wait"
    /\ UNCHANGED <<mutex, data, start, length, in, out, samples, b, blocks, abort,
                   txVars, freed, streamVars>>

\* hackrf_stop_tx fails: _rf_close returns -1 and leaves everything as it is.
StopTxFails ==
    /\ wpc = "stop"
    /\ wpc' = "done"
    /\ UNCHANGED <<mutex, data, start, length, in, out, samples, b, blocks, abort,
                   txVars, devVars, streamVars>>

\* while(hackrf_is_streaming(rf->d) == HACKRF_TRUE) usleep(100)
WaitStopped ==
    /\ wpc = "wait" /\ dev \in {"stopped", "vanished"}
    /\ wpc' = "close"
    /\ UNCHANGED <<mutex, data, start, length, in, out, samples, b, blocks, abort,
                   txVars, devVars, streamVars>>

\* hackrf_close joins the transfer thread, so it returns with no callback running;
\* its error is only printed.
HackrfClose ==
    /\ wpc = "close" /\ rpc = "idle"
    /\ dev' = "closed"
    /\ wpc' = "free"
    /\ UNCHANGED <<mutex, data, start, length, in, out, samples, b, blocks, abort,
                   txVars, freed, streamVars>>

\* hackrf_exit, _buffer_free, free(rf)
BufferFree ==
    /\ wpc = "free"
    /\ freed' = TRUE
    /\ wpc' = "done"
    /\ UNCHANGED <<mutex, data, start, length, in, out, samples, b, blocks, abort,
                   txVars, dev, streamVars>>

\* libhackrf: the stream ends some time after hackrf_stop_tx.
StreamEnds ==
    /\ dev = "stopping"
    /\ dev' = "stopped"
    /\ UNCHANGED <<mutex, data, start, length, in, out, mainVars, txVars, freed, streamVars>>

\* libhackrf: the device is unplugged; no further callback starts.
Vanish ==
    /\ DeviceMayVanish /\ dev \in {"streaming", "stopping"}
    /\ dev' = "vanished"
    /\ UNCHANGED <<mutex, data, start, length, in, out, mainVars, txVars, freed, streamVars>>

\* main() has returned from rf_close(); nothing of the ring moves any more.
Finished ==
    /\ wpc = "done" /\ rpc = "idle"
    /\ UNCHANGED vars

-----------------------------------------------------------------------------
Writer == RfWrite \/ NextChunk \/ BlockDone \/ WriteLock \/ WriteUnlock \/ WriteCopy
Reader == ReadTryLock \/ ReadUnderrun \/ ReadUnlock \/ ReadCopy
Closer == LoopExit \/ StopTx \/ StopTxFails \/ WaitStopped \/ HackrfClose \/ BufferFree
Device == TxCallback \/ StreamEnds \/ Vanish

Next == Writer \/ Reader \/ Closer \/ Device \/ Signal \/ Finished

(***************************************************************************)
(* Fairness: both threads run whenever they can; libhackrf keeps asking    *)
(* for transfers while it streams (the hardware drains them at the sample  *)
(* rate) and ends the stream after hackrf_stop_tx.  Signals and the loss   *)
(* of the device are never owed.                                           *)
(***************************************************************************)
Fairness ==
    /\ WF_vars(Writer) /\ WF_vars(Closer) /\ WF_vars(Reader)
    /\ WF_vars(TxCallback) /\ WF_vars(StreamEnds)

Spec == Init /\ [][Next]_vars /\ Fairness

-----------------------------------------------------------------------------
\* The variables have their types; no buffer holds more than Length octets.
TypeOK ==
    /\ mutex \in [Index -> {"free", "writer", "reader"}]
    /\ data \in [Index -> [Offset -> Int]]
    /\ start \in [Index -> 0..Length] /\ length \in [Index -> 0..Length]
    /\ in \in Index /\ out \in Index
    /\ wpc \in MainPC /\ samples \in 0..BlockOctets /\ b \in 0..ChunkOctets
    /\ blocks \in Nat /\ abort \in BOOLEAN
    /\ rpc \in TxPC /\ l \in 0..TransferOctets
    /\ dev \in Dev /\ freed \in BOOLEAN
    /\ written \in Nat /\ played \in Nat

-----------------------------------------------------------------------------
(* The inductive invariant: who holds what, and which octets are where *)

\* Buffers strictly between the reader's and the writer's, in ring order.
Between(i) == IF out < in THEN out < i /\ i < in ELSE out < i \/ i < in

\* The holder of mutex i, from the program counters alone.
Holder(i) ==
    IF i = in \/ (wpc = "unlock" /\ i = Succ(in)) THEN "writer"
    ELSE IF i = out \/ (rpc = "unlock" /\ i = Succ(out)) THEN "reader" ELSE "free"

\* The position in the stream of offset 0 of buffer i.
Base(i) == IF i = in THEN written - length[in]
           ELSE IF i = out THEN played - start[out] ELSE data[i][0]

LocksOK ==
    /\ in # out
    /\ wpc = "unlock" => Succ(in) # out
    /\ rpc = "unlock" => Succ(out) # in
    /\ \A i \in Index : mutex[i] = Holder(i)

FillOK ==
    /\ start[in] = 0
    /\ start[out] + length[out] <= Length
    /\ \A i \in Index : Between(i) => start[i] = 0 /\ length[i] = Length
    /\ \A i \in Index \ {in, out} : ~Between(i) => start[i] = 0 /\ length[i] = 0
    /\ wpc = "unlock" => length[in] = Length
    /\ wpc = "copy" => length[in] = 0
    /\ rpc = "unlock" => length[out] = 0 /\ start[out] = 0
    /\ rpc = "copy" => length[out] = Length /\ start[out] = 0

ProgressOK ==
    /\ wpc \in {"call", "unlock", "copy"} => b > 0
    /\ rpc # "idle" => l > 0
    /\ freed => rpc = "idle" /\ dev = "closed"
    /\ wpc = "free" => rpc = "idle" /\ dev = "closed"

OctetsOK ==
    /\ \A i \in Index : \A o \in Offset :
           start[i] <= o /\ o < start[i] + length[i] => data[i][o] = Base(i) + o
    /\ \A i \in Index : i = out \/ Between(i)
           => Base(Succ(i)) = Base(i) + start[i] + length[i]
    /\ \A i \in Index : Between(i) => Base(i) + Length <= written

\* Locks, fill levels and octets fit together: the mutexes follow from the two
\* indices, the buffers from the reader to the writer are full, the others empty,
\* and their octets continue one another in the order of the ring.
RingInv == TypeOK /\ LocksOK /\ FillOK /\ ProgressOK /\ OctetsOK

-----------------------------------------------------------------------------
(* Properties *)

\* The two threads never touch the same buffer_t: neither buffers->in and
\* buffers->out nor the mutexes behind them ever coincide, so the unlocked
\* accesses around memcpy (rf_hackrf.c:117, 146, 158, 179) do not race.
NoSharedBuffer ==
    /\ in # out
    /\ wpc \in {"call", "unlock"} => mutex[in] = "writer"
    /\ wpc = "copy" => mutex[in] = "writer"
    /\ rpc \in {"call", "unlock", "copy"} => mutex[out] = "reader"

\* A buffer the reader adopts is full and unread: the trylock that succeeds
\* never yields a buffer the writer has not filled (rf_hackrf.c:126).
WholeBuffers == rpc = "copy" => start[out] = 0 /\ length[out] = Length

\* The loop while(b) of _rf_write makes progress: _buffer_write never copies
\* nothing (rf_hackrf.c:232, 174).
NeverSpins ==
    /\ wpc = "copy" => start[in] + length[in] < Length
    /\ wpc = "call" /\ length[in] # Length => start[in] + length[in] < Length

\* The main thread waits for a mutex only when the ring is full: every buffer
\* but the reader's holds Length octets that have not been read.
BlockedMeansFull ==
    wpc = "call" /\ length[in] = Length /\ mutex[Succ(in)] # "free"
        => \A i \in Index \ {out} : length[i] = Length

\* _buffer_free runs only after the last callback has returned.
NoUseAfterFree == freed => rpc = "idle" /\ dev = "closed"

\* The ring implements the stream: octets go to the device in order, once each,
\* and zeros are inserted only when at most one buffer's worth is pending.
Stream == INSTANCE TxStream WITH LowWater <- Length, MaxPush <- ChunkOctets,
                                 MaxHand <- TransferOctets
StreamRefined == Stream!StreamSpec

\* The main thread waits for a buffer that the reader will never release, for there
\* are no callbacks any more: the device is lost and the ring full (rf_hackrf.c:166).
Stranded ==
    /\ dev = "vanished" /\ rpc = "idle"
    /\ wpc = "call" /\ length[in] = Length /\ mutex[Succ(in)] = "reader"

\* Every block given to _rf_write is taken in the end, however full the ring, unless
\* the device is lost; the lost device stops the main thread at a full ring only.
BlockAccepted == wpc = "chunk" ~> wpc = "loop" \/ Stranded

\* What has been written goes on the air, except for the part of it that is
\* still in the writer's buffer, unless the stream is stopped or the device lost.
StreamAired ==
    \A k \in 1 .. MaxBlocks * BlockOctets :
        written >= k + Length ~> played >= k \/ dev # "streaming"

\* After the signal the main loop ends and _rf_close returns, even when the signal
\* arrives while the main thread waits for a buffer, and even when the device has been
\* lost: only when the ring is full as well is the signal without effect.
AbortStops == abort ~> wpc = "done" \/ Stranded
=============================================================================
