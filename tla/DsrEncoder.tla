----------------------------- MODULE DsrEncoder -----------------------------
(***************************************************************************)
(* dsr_encode() of dsrtx (src/dsr.c): one call takes a block of 64 samples *)
(* for each of 32 channels and produces 64 pairs of frames.  The samples   *)
(* go through a delay memory of four blocks and leave it two blocks later, *)
(* while the scale factors of the same samples are sent at once; the       *)
(* special service (SA) bits run through the frames 16 bits ahead of the   *)
(* blocks.  All of it is addressed by one signed 32-bit frame counter.     *)
(*                                                                         *)
(* A sample is named by its block, channel and position and carries the    *)
(* shift it was scaled with; bits, check bits and the spectrum PRBS are    *)
(* left out.                                                               *)
(***************************************************************************)
EXTENDS Integers, Sequences

CONSTANTS
    Samples,    \* samples per channel and block = frame pairs per block (64)
    Groups,     \* 77-bit blocks in a frame pair, four channels each (8)
    SAFrames,   \* rows of the SA table (128), each of Samples bits
    SAOffset,   \* bits the SA table runs ahead of the blocks (16)
    Word,       \* 2^32: the frame counter is an int
    Scales,     \* the shifts a block can call for: functions Channel -> 0..7
    MaxBlocks   \* bound: calls of dsr_encode

Slots    == 4                         \* & 3
Delay    == 2                         \* blockno + 2
Channel  == 0 .. 4 * Groups - 1
Position == 0 .. Samples - 1
Span     == Samples * 4 * Groups      \* 0x800: one block in the delay memory
Address  == 0 .. Slots * Span - 1     \* & 0x1FFF

ASSUME EncoderAssumption ==
    /\ Samples \in Nat \ {0} /\ Groups \in Nat \ {0}
    /\ SAFrames \in Nat \ {0} /\ SAOffset \in 0..Samples
    /\ Word \in Nat \ {0} /\ Word % (2 * Samples * Slots) = 0
    /\ Word % (2 * Samples * SAFrames) = 0
    /\ Scales \subseteq [Channel -> 0..7]
    /\ MaxBlocks \in Nat

VARIABLES
    frame,      \* dsr_t.frame
    delay,      \* dsr_t.delay
    pc,         \* "call" between calls, "frames" inside the loop over the frames
    scale,      \* shifts of the current block
    ac,         \* where the next frame's samples are read
    i,          \* frames of this call already sent
    tx,         \* contents of the latest frame pair
    \* history
    announced,  \* the scales of all blocks so far
    count       \* frame pairs so far, without overflow

vars == <<frame, delay, pc, scale, ac, i, tx, announced, count>>

\* The value of an int after wrapping around, as the build's -O3 code computes it.
Int32(x) == ((x + Word \div 2) % Word) - Word \div 2

Nothing == [block |-> -1, channel |-> -1, x |-> -1, shift |-> 0]

\* zi[...][i >> 3] >> (7 - (i & 7)): bit m of the ZI frame with the channel's shift.
ZIBit(m) == [c \in Channel |-> [shift |-> scale[c], bit |-> m]]

\* Mutant of SABit: the row is not wrapped at the end of the superframe's offset.
SABitNoCarry(f) ==
    [row |-> (Int32(f) \div Samples) % SAFrames, bit |-> Int32(f + SAOffset) % Samples]

\* s->sa[(j >> 6) & 127][(j >> 3) & 7] >> (7 - (j & 7)) with j = s->frame + 16
SABit(f) ==
    LET j == Int32(f + SAOffset)
    IN  [row |-> (j \div Samples) % SAFrames, bit |-> j % Samples]

\* The delay memory with the new block at base, the channels side by side.
Stored(base, sc) ==
    [a \in Address |->
        IF base <= a /\ a < base + Span
        THEN LET c == (a - base) % (4 * Groups)
             IN  [block |-> Len(announced), channel |-> c,
                  x |-> (a - base) \div (4 * Groups), shift |-> sc[c]]
        ELSE delay[a]]

Init ==
    /\ frame = 0
    /\ delay = [a \in Address |-> Nothing]
    /\ pc = "call" /\ i = 0 /\ ac = 0
    /\ scale = [c \in Channel |-> 7]
    /\ tx = [samples |-> <<>>, zi |-> <<>>, sa |-> <<>>]
    /\ announced = <<>> /\ count = 0

\* Mutant of LoadBlock: the samples go where this call reads, without any delay.
LoadBlockEarly ==
    /\ pc = "call" /\ Len(announced) < MaxBlocks
    /\ scale' \in Scales
    /\ LET blockno == frame \div Samples
           base    == Span * (blockno % Slots)
       IN  /\ delay' = Stored(base, scale')
           /\ ac' = Span * (blockno % Slots)
    /\ announced' = Append(announced, scale')
    /\ i' = 0 /\ pc' = "frames"
    /\ UNCHANGED <<frame, tx, count>>

\* Mutant of LoadBlock: the samples are scaled with the previous block's shifts.
LoadBlockOldScale ==
    /\ pc = "call" /\ Len(announced) < MaxBlocks
    /\ scale' \in Scales
    /\ LET blockno == frame \div Samples
           base    == Span * ((blockno + Delay) % Slots)
       IN  /\ delay' = Stored(base, scale)
           /\ ac' = Span * (blockno % Slots)
    /\ announced' = Append(announced, scale')
    /\ i' = 0 /\ pc' = "frames"
    /\ UNCHANGED <<frame, tx, count>>

\* Start of dsr_encode: choose the shifts and store the block two slots ahead of
\* the one to be sent.
LoadBlock ==
    /\ pc = "call" /\ Len(announced) < MaxBlocks
    /\ scale' \in Scales
    /\ LET blockno == frame \div Samples
           base    == Span * ((blockno + Delay) % Slots)
       IN  /\ delay' = Stored(base, scale')
           /\ ac' = Span * (blockno % Slots)
    /\ announced' = Append(announced, scale')
    /\ i' = 0 /\ pc' = "frames"
    /\ UNCHANGED <<frame, tx, count>>

\* One pair of frames: each group takes the next four samples.
SendFrame ==
    /\ pc = "frames"
    /\ tx' = [samples |-> [c \in Channel |-> delay[ac + c]],
               zi      |-> ZIBit(i),
               sa      |-> SABit(frame)]
    /\ ac' = ac + 4 * Groups
    /\ frame' = Int32(frame + 1)
    /\ i' = i + 1
    /\ pc' = IF i' = Samples THEN "call" ELSE "frames"
    /\ count' = count + 1
    /\ UNCHANGED <<delay, scale, announced>>

Finished == pc = "call" /\ Len(announced) = MaxBlocks /\ UNCHANGED vars

Next == LoadBlock \/ SendFrame \/ Finished

Spec == Init /\ [][Next]_vars

-----------------------------------------------------------------------------
(* Properties.  k is the number of the latest frame pair, n its block. *)

k == count - 1
n == k \div Samples

\* Frame k carries, for every channel, sample k mod 64 of the block given to
\* dsr_encode two calls before, and silence before the first: the ring of four
\* blocks never sends a block it is being given, or one too old, not even when
\* the frame counter overflows (dsr.c:322, 333, 391).
DelayedByTwoBlocks ==
    count > 0 => \A c \in Channel :
        LET s == tx.samples[c]
        IN  IF n < Delay THEN s = Nothing
            ELSE s.block = n - Delay /\ s.channel = c /\ s.x = k % Samples

\* The samples in a frame were scaled with the factors that the ZI frames
\* announced two blocks before, bit by bit in the order of the ZI frame
\* (dsr.c:318, 327, 356).
ScaleAnnouncedBefore ==
    count > 0 => \A c \in Channel :
        /\ n >= Delay => tx.samples[c].shift = announced[n - Delay + 1][c]
        /\ tx.zi[c] = [shift |-> announced[n + 1][c], bit |-> k % Samples]

\* The SA bits are the rows of the table in order, none skipped or repeated, with
\* bit 16 at the start of each block, across the overflow of the frame counter
\* (dsr.c:347).
SAInOrder ==
    count > 0 => tx.sa = [row |-> ((k + SAOffset) \div Samples) % SAFrames,
                             bit |-> (k + SAOffset) % Samples]
=============================================================================
