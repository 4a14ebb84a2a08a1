----------------------------- MODULE EncodePath ------------------------------
(***************************************************************************)
(* dsr_encode (src/dsr.c) as a whole, from 16-bit samples to the bits on   *)
(* the channel, and a receiver that has nothing but those bits:            *)
(*                                                                         *)
(*   BlockScale  finds the scale of each block and scales the samples,     *)
(*   DsrEncoder  keeps them for two blocks and announces their scales,     *)
(*   DsrFrame    makes frames of them,                                     *)
(*                                                                         *)
(* at their real sizes: 32 channels, blocks of 64 samples, 64 frame pairs, *)
(* a delay memory of 8192 samples.  What DsrEncoder calls a sample by its  *)
(* block, channel and place has its value here.                            *)
(***************************************************************************)
EXTENDS DsrFrame

CONSTANTS
    Patterns,         \* programmes to be sent
    Audio(_, _, _, _),\* sample of a pattern, in a block, of a channel, at a place
    SATable,          \* the bits of each row that are 1
    Word,             \* values of the frame counter
    MaxBlocks         \* bound: calls of dsr_encode

VARIABLES
    pattern,
    counter, delay, epc, scale, ac, round, tx, announced, count,   \* DsrEncoder's
    heard      \* receiver: for each block the bits of the sixteen ZI frames

pathVars == <<pattern, counter, delay, epc, scale, ac, round, tx, announced, count, heard>>
vars == <<frameVars, pathVars>>

-----------------------------------------------------------------------------
Scaling == INSTANCE BlockScale WITH BlockSamples <- 64, Inputs <- {}, looked <- 64, range <- 0,
                                    mag <- 0, step <- "done", block <- {}

ASSUME PathAssumption ==
    /\ \A p \in Patterns, n \in 0..MaxBlocks, c \in Channels, x \in 0..63 :
           Audio(p, n, c, x) \in Scaling!Int16
    /\ Cardinality(DOMAIN SATable) \in Nat \ {0}
    /\ DOMAIN SATable = 0 .. Cardinality(DOMAIN SATable) - 1
    /\ Word \in Nat \ {0} /\ Word % (2 * 64 * 4) = 0
    /\ Word % (2 * 64 * Cardinality(DOMAIN SATable)) = 0
    /\ MaxBlocks \in Nat

\* The shift that BlockScale finds for a channel of a block.
ShiftOf(n, c) ==
    Scaling!Shift(Scaling!RangeOf({Audio(pattern, n, c, x) : x \in 0..63}))

Enc == INSTANCE DsrEncoder WITH Samples <- 64, Groups <- 8, SAOffset <- 16,
                                SAFrames <- Cardinality(DOMAIN SATable),
                                Scales <- [Channels -> 0..7],
                                frame <- counter, pc <- epc, i <- round

\* *ac = audio << shift, >> 2: the value of a sample in the delay memory.
Value(s) == IF s = Enc!Nothing THEN 0
            ELSE Scaling!Coded(Audio(pattern, s.block, s.channel, s.x), 7 - s.shift)

Init ==
    /\ FrameInit /\ Enc!Init
    /\ pattern \in Patterns /\ heard = <<>>

\* The first half of dsr_encode.
LoadBlock ==
    /\ pc = "idle"
    /\ scale' = [c \in Channels |-> ShiftOf(Len(announced), c)]
    /\ Enc!LoadBlock
    /\ heard' = Append(heard, [m \in 0..15 |-> {}])
    /\ UNCHANGED <<frameVars, pattern>>

\* The loop's next round.
SendFrame ==
    /\ Enc!SendFrame
    /\ StartFrame([audio |-> [c \in Channels |-> Value(tx'.samples[c])], scale |-> scale,
                   frame |-> round, sa |-> IF tx'.sa.bit \in SATable[tx'.sa.row] THEN 1 ELSE 0])
    /\ UNCHANGED <<pattern, heard>>

MakeFrame == FrameStep /\ UNCHANGED pathVars

\* The receiver takes the frames and keeps the ZI bits.
Receive ==
    /\ pc = "done"
    /\ LET frames == FramesOf(block)
           zi(m)  == 63 + (m % 2) \in BlockAt(frames, m \div 2)
       IN  heard' = [heard EXCEPT ![Len(heard)] =
                         [m \in 0..15 |-> IF zi(m) THEN @[m] \cup {(count - 1) % 64} ELSE @[m]]]
    /\ pc' = "idle"
    /\ UNCHANGED <<input, blocks, a, b, block, pattern, counter, delay, epc, scale, ac, round, tx,
                   announced, count>>

Finished == epc = "call" /\ pc = "idle" /\ Len(announced) = MaxBlocks /\ UNCHANGED vars

Next == LoadBlock \/ SendFrame \/ MakeFrame \/ Receive \/ Finished

Spec == Init /\ [][Next]_vars

-----------------------------------------------------------------------------
(* Properties *)

\* The scale factor of a channel in one of the three copies that a ZI frame holds.
HeardShift(n, c, copy) ==
    LET word == Number({k - 14 * copy : k \in heard[n][c \div 2] \cap 14 * copy .. 14 * copy + 13}, 0, 6)
    IN  IF c % 2 = 0 THEN word \div 8 ELSE word % 8

\* From the bits alone a receiver gets back every sample that was given to dsr_encode,
\* of every channel, two blocks later: it scales the 14 bits with any of the three copies
\* of the factor announced with the block, and is at most the dropped low bits away from
\* what was given.  Before that it gets silence (dsr.c:274-393).
AudioReceived ==
    pc = "done" =>
        LET frames == FramesOf(block)
            n == Len(heard)
        IN  \A c \in Channels :
                LET v == SampleOf(BlockAt(frames, c \div 4), c % 4)
                    given == Audio(pattern, n - 3, c, (count - 1) % 64)
                IN  IF n <= 2 THEN v = 0
                    ELSE \A copy \in 0..2 :
                             LET scaled == given * 2 ^ HeardShift(n - 2, c, copy)
                             IN  4 * v <= scaled /\ scaled < 4 * v + 4
=============================================================================
