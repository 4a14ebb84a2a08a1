---------------------------- MODULE EncoderProofs ----------------------------
(***************************************************************************)
(* Proofs about the two halves of dsr_encode: BlockScale, for blocks of    *)
(* any length and any 16-bit samples, and DsrEncoder, for every block      *)
(* length, number of channels, size of the SA table and width of the frame *)
(* counter, and for any number of calls: what a frame carries although the *)
(* delay memory is a ring and the counter overflows.                       *)
(***************************************************************************)
EXTENDS BlockScale, DsrEncoder, NumberLemmas, TLAPS

-----------------------------------------------------------------------------
(* BlockScale: the search for the scale of a block *)

\* The two columns of the table of ranges.
LEMMA Table ==
    /\ Limit(0) = 256 /\ Limit(1) = 512 /\ Limit(2) = 1024 /\ Limit(3) = 2048
    /\ Limit(4) = 4096 /\ Limit(5) = 8192 /\ Limit(6) = 16384 /\ Limit(7) = 32768
    /\ Factor(0) = 128 /\ Factor(1) = 64 /\ Factor(2) = 32 /\ Factor(3) = 16
    /\ Factor(4) = 8 /\ Factor(5) = 4 /\ Factor(6) = 2 /\ Factor(7) = 1
BY DEF Limit, Factor

\* What it means to fit an int16_t.
LEMMA Int16Bounds == \A v \in Int : v \in Int16 <=> -32768 <= v /\ v <= 32767
BY DEF Int16

\* A sample fits a range exactly when its scaled value is a 16-bit number.
LEMMA FitsRange ==
    ASSUME NEW s \in Int16, NEW r \in 0..7
    PROVE  Magnitude(s) < Limit(r) <=> s * Factor(r) \in Int16
<1>0. s \in Int
  BY DEF Int16
<1>1. CASE r = 0
  <2>1. Limit(r) = 256 /\ Factor(r) = 128
    BY <1>1, Table
  <2>2. Magnitude(s) < 256 <=> -32768 <= s * 128 /\ s * 128 <= 32767
    BY <1>0 DEF Magnitude
  <2> QED BY <2>1, <2>2, <1>0, Int16Bounds
<1>2. CASE r = 1
  <2>1. Limit(r) = 512 /\ Factor(r) = 64
    BY <1>2, Table
  <2>2. Magnitude(s) < 512 <=> -32768 <= s * 64 /\ s * 64 <= 32767
    BY <1>0 DEF Magnitude
  <2> QED BY <2>1, <2>2, <1>0, Int16Bounds
<1>3. CASE r = 2
  <2>1. Limit(r) = 1024 /\ Factor(r) = 32
    BY <1>3, Table
  <2>2. Magnitude(s) < 1024 <=> -32768 <= s * 32 /\ s * 32 <= 32767
    BY <1>0 DEF Magnitude
  <2> QED BY <2>1, <2>2, <1>0, Int16Bounds
<1>4. CASE r = 3
  <2>1. Limit(r) = 2048 /\ Factor(r) = 16
    BY <1>4, Table
  <2>2. Magnitude(s) < 2048 <=> -32768 <= s * 16 /\ s * 16 <= 32767
    BY <1>0 DEF Magnitude
  <2> QED BY <2>1, <2>2, <1>0, Int16Bounds
<1>5. CASE r = 4
  <2>1. Limit(r) = 4096 /\ Factor(r) = 8
    BY <1>5, Table
  <2>2. Magnitude(s) < 4096 <=> -32768 <= s * 8 /\ s * 8 <= 32767
    BY <1>0 DEF Magnitude
  <2> QED BY <2>1, <2>2, <1>0, Int16Bounds
<1>6. CASE r = 5
  <2>1. Limit(r) = 8192 /\ Factor(r) = 4
    BY <1>6, Table
  <2>2. Magnitude(s) < 8192 <=> -32768 <= s * 4 /\ s * 4 <= 32767
    BY <1>0 DEF Magnitude
  <2> QED BY <2>1, <2>2, <1>0, Int16Bounds
<1>7. CASE r = 6
  <2>1. Limit(r) = 16384 /\ Factor(r) = 2
    BY <1>7, Table
  <2>2. Magnitude(s) < 16384 <=> -32768 <= s * 2 /\ s * 2 <= 32767
    BY <1>0 DEF Magnitude
  <2> QED BY <2>1, <2>2, <1>0, Int16Bounds
<1>8. CASE r = 7
  <2>1. Limit(r) = 32768 /\ Factor(r) = 1
    BY <1>8, Table
  <2>2. Magnitude(s) < 32768 <=> -32768 <= s * 1 /\ s * 1 <= 32767
    BY <1>0 DEF Magnitude
  <2> QED BY <2>1, <2>2, <1>0, Int16Bounds
<1> QED BY <1>1, <1>2, <1>3, <1>4, <1>5, <1>6, <1>7, <1>8

\* The ranges are nested and the last one holds every magnitude.
LEMMA RangesNested ==
    /\ \A r \in 0..7 : Limit(r) \in Int
    /\ \A r \in 0..6 : Limit(r) < Limit(r + 1)
    /\ Limit(7) = 32768
BY Table

\* A magnitude is a 15-bit number.
LEMMA MagnitudeType == \A s \in Int16 : Magnitude(s) \in Nat /\ Magnitude(s) <= 32767
BY DEF Magnitude, Int16

\* A 16-bit number is stored as it is, and 14 bits keep it up to its low two.
LEMMA CodedBounds ==
    ASSUME NEW s \in Int16, NEW r \in 0..7, s * Factor(r) \in Int16
    PROVE  /\ 4 * Coded(s, r) <= s * Factor(r)
           /\ s * Factor(r) < 4 * Coded(s, r) + 4
<1>1. PICK v \in Int : v = s * Factor(r) /\ -32768 <= v /\ v <= 32767
  BY Int16Bounds DEF Int16
<1>2. Wrap16(v) = v
  BY <1>1 DEF Wrap16
<1>3. Coded(s, r) = v \div 4
  BY <1>1, <1>2 DEF Coded
<1>4. 4 * (v \div 4) <= v /\ v < 4 * (v \div 4) + 4
  OBVIOUS
<1> QED BY <1>1, <1>3, <1>4

\* The walk starts at the narrowest range with no sample looked at.
LEMMA InitScaleInv == ScaleInit => ScaleInv
BY ScaleAssumption DEF ScaleInit, ScaleInv, TypeOK

\* A sample under test is one of the block; nothing else changes.
LEMMA NextSampleInv == ASSUME ScaleInv, NextSample PROVE ScaleInv'
<1>1. PICK s \in Int16 : mag' = Magnitude(s) /\ block' = block \cup {s}
  BY ScaleAssumption DEF NextSample
<1>2. step = "sample" /\ step' = "test" /\ looked' = looked /\ range' = range
  BY DEF NextSample
<1>3. TypeOK'
  BY <1>1, <1>2, MagnitudeType DEF ScaleInv, TypeOK
<1>4. \E u \in block' : Magnitude(u) = mag'
  BY <1>1
<1>5. \A u \in block' : Magnitude(u) < Limit(range') \/ Magnitude(u) = mag'
  BY <1>1, <1>2 DEF ScaleInv
<1>6. range' > 0 => \E u \in block' : Magnitude(u) >= Limit(range' - 1)
  BY <1>1, <1>2 DEF ScaleInv
<1> QED BY <1>2, <1>3, <1>4, <1>5, <1>6 DEF ScaleInv

\* A range the sample under test does not fit is left, never the last one.
LEMMA NextRangeInv == ASSUME ScaleInv, NextRange PROVE ScaleInv'
<1>1. /\ step = "test" /\ mag >= Limit(range) /\ range' = range + 1
      /\ step' = step /\ looked' = looked /\ mag' = mag /\ block' = block
  BY DEF NextRange
<1>2. range \in 0..7 /\ mag \in Nat /\ mag <= 32767 /\ block \subseteq Int16
  BY DEF ScaleInv, TypeOK
<1>3. range \in 0..6
  <2>1. range # 7
    BY <1>1, <1>2, RangesNested
  <2> QED BY <2>1, <1>2
<1>4. Limit(range) \in Int /\ Limit(range + 1) \in Int /\ Limit(range) < Limit(range + 1)
  BY <1>3, RangesNested
<1>5. TypeOK'
  BY <1>1, <1>3 DEF ScaleInv, TypeOK
<1>6. PICK s \in block : Magnitude(s) = mag
  BY <1>1 DEF ScaleInv
<1>7. ASSUME NEW u \in block PROVE Magnitude(u) < Limit(range') \/ Magnitude(u) = mag
  <2>1. Magnitude(u) \in Nat
    BY <1>2, MagnitudeType
  <2>2. Magnitude(u) < Limit(range) \/ Magnitude(u) = mag
    BY DEF ScaleInv
  <2> QED BY <2>1, <2>2, <1>1, <1>4
<1>8. Magnitude(s) >= Limit(range' - 1)
  <2>1. range' - 1 = range
    BY <1>1, <1>2
  <2> QED BY <2>1, <1>1, <1>6
<1> QED BY <1>1, <1>5, <1>6, <1>7, <1>8 DEF ScaleInv

\* A sample that fits leaves the whole block so far within the range.
LEMMA SampleFitsInv == ASSUME ScaleInv, SampleFits PROVE ScaleInv'
<1>1. /\ step = "test" /\ mag < Limit(range) /\ looked' = looked + 1
      /\ step' = IF looked' = BlockSamples THEN "done" ELSE "sample"
      /\ range' = range /\ mag' = mag /\ block' = block
  BY DEF SampleFits
<1>2. looked < BlockSamples
  BY <1>1 DEF ScaleInv
<1>3. TypeOK'
  BY <1>1, <1>2, ScaleAssumption DEF ScaleInv, TypeOK
<1>4. \A u \in block : Magnitude(u) < Limit(range)
  BY <1>1 DEF ScaleInv
<1>5. step' # "done" => looked' < BlockSamples
  BY <1>1, <1>3, ScaleAssumption DEF TypeOK
<1>6. step' # "test" /\ (range > 0 => \E u \in block : Magnitude(u) >= Limit(range - 1))
  BY <1>1 DEF ScaleInv
<1> QED BY <1>1, <1>3, <1>4, <1>5, <1>6 DEF ScaleInv

\* Every step keeps the invariant.
LEMMA StepScaleInv == ScaleInv /\ [ScaleNext]_scaleVars => ScaleInv'
<1> SUFFICES ASSUME ScaleInv, [ScaleNext]_scaleVars PROVE ScaleInv'
  OBVIOUS
<1>1. CASE NextSample
  BY <1>1, NextSampleInv
<1>2. CASE NextRange
  BY <1>2, NextRangeInv
<1>3. CASE SampleFits
  BY <1>3, SampleFitsInv
<1>4. CASE ScaleDone \/ UNCHANGED scaleVars
  BY <1>4 DEF ScaleDone, scaleVars, ScaleInv, TypeOK
<1> QED BY <1>1, <1>2, <1>3, <1>4 DEF ScaleNext

\* For every block of 16-bit samples the invariant of the walk holds throughout.
THEOREM ScaleInvHolds == ScaleSpec => []ScaleInv
BY InitScaleInv, StepScaleInv, PTL DEF ScaleSpec

\* The walk over the range table never leaves it, whatever the samples.
THEOREM RangeInTable == ScaleSpec => []TypeOK
<1>1. ScaleInv => TypeOK
  BY DEF ScaleInv
<1> QED BY <1>1, ScaleInvHolds, PTL

\* No sample of any block is clipped or wraps around when it is scaled.
THEOREM ScalingIsExact == ScaleSpec => []NoOverflow
<1>1. ScaleInv => NoOverflow
  <2> SUFFICES ASSUME ScaleInv, step = "done", NEW s \in block
               PROVE  /\ s * Factor(range) \in Int16
                      /\ 4 * Coded(s, range) <= s * Factor(range)
                      /\ s * Factor(range) < 4 * Coded(s, range) + 4
    BY DEF NoOverflow
  <2>1. s \in Int16 /\ range \in 0..7 /\ Magnitude(s) < Limit(range)
    BY DEF ScaleInv, TypeOK
  <2>2. s * Factor(range) \in Int16
    BY <2>1, FitsRange
  <2> QED BY <2>1, <2>2, CodedBounds
<1> QED BY <1>1, ScaleInvHolds, PTL

\* The scale factor sent is the largest the block allows.
THEOREM ScaleIsTightest == ScaleSpec => []TightestRange
<1>1. ScaleInv => TightestRange
  <2> SUFFICES ASSUME ScaleInv, step = "done", range > 0
               PROVE  \E s \in block : s * Factor(range - 1) \notin Int16
    BY DEF TightestRange
  <2>1. PICK s \in block : Magnitude(s) >= Limit(range - 1)
    BY DEF ScaleInv
  <2>2. s \in Int16 /\ range - 1 \in 0..7
    BY DEF ScaleInv, TypeOK
  <2>3. ~(Magnitude(s) < Limit(range - 1))
    BY <2>1, <2>2, MagnitudeType, RangesNested
  <2> QED BY <2>2, <2>3, FitsRange
<1> QED BY <1>1, ScaleInvHolds, PTL

\* Every set of samples has a range.
LEMMA RangeOfHolds ==
    ASSUME NEW B \in SUBSET Int16
    PROVE  RangeOf(B) \in 0..7 /\ FirstThatHolds(RangeOf(B), B)
<1>1. PICK T : T = {r \in 0..7 : \A s \in B : Magnitude(s) < Limit(r)}
  OBVIOUS
<1>2. 7 \in T
  BY <1>1, MagnitudeType, Table
<1>3. PICK r \in T : \A q \in T : r <= q
  <2>1. T \subseteq Nat
    BY <1>1
  <2> QED BY <1>2, <2>1, LeastNatural
<1>4. r \in 0..7 /\ \A s \in B : Magnitude(s) < Limit(r)
  BY <1>1
<1>5. ASSUME r > 0
      PROVE  \E s \in B : Magnitude(s) >= Limit(r - 1)
  <2>1. r - 1 \in 0..7 /\ r - 1 \notin T
    BY <1>3, <1>4, <1>5
  <2>2. PICK s \in B : ~(Magnitude(s) < Limit(r - 1))
    BY <1>1, <2>1
  <2>3. Magnitude(s) \in Nat /\ Limit(r - 1) \in Int
    BY <2>1, MagnitudeType, RangesNested
  <2> QED BY <2>2, <2>3
<1>6. FirstThatHolds(r, B)
  BY <1>4, <1>5 DEF FirstThatHolds
<1> QED BY <1>4, <1>6 DEF RangeOf

\* A later range holds more.
LEMMA LimitsGrow == \A r, q \in 0..7 : r < q => Limit(r) <= Limit(q - 1) /\ Limit(q - 1) \in Int
<1> SUFFICES ASSUME NEW r \in 0..7, NEW q \in 0..7, r < q
             PROVE  Limit(r) <= Limit(q - 1) /\ Limit(q - 1) \in Int
  OBVIOUS
<1>1. q - 1 \in 0..7 /\ r <= q - 1
  OBVIOUS
<1> QED BY <1>1, Table

\* No block has two ranges.
LEMMA OneRange ==
    ASSUME NEW B \in SUBSET Int16, NEW r \in 0..7, NEW q \in 0..7,
           FirstThatHolds(r, B), FirstThatHolds(q, B)
    PROVE  r = q
<1>1. ASSUME NEW u \in 0..7, NEW w \in 0..7, u < w, FirstThatHolds(u, B), FirstThatHolds(w, B)
      PROVE  FALSE
  <2>1. PICK s \in B : Magnitude(s) >= Limit(w - 1)
    BY <1>1 DEF FirstThatHolds
  <2>2. Magnitude(s) < Limit(u) /\ Magnitude(s) \in Nat
    BY <1>1, MagnitudeType DEF FirstThatHolds
  <2>3. Limit(u) <= Limit(w - 1) /\ Limit(u) \in Int /\ Limit(w - 1) \in Int
    BY <1>1, LimitsGrow, RangesNested
  <2> QED BY <2>1, <2>2, <2>3
<1>2. ~(r < q) /\ ~(q < r)
  BY <1>1
<1> QED BY <1>2

\* The walk computes what the composition of the whole encoder takes from it: a function
\* of the set of the block's samples.
THEOREM WalkFindsRange == ScaleSpec => []RangeFound
<1>1. ScaleInv => RangeFound
  <2> SUFFICES ASSUME ScaleInv, step = "done" PROVE range = RangeOf(block)
    BY DEF RangeFound
  <2>1. range \in 0..7 /\ block \in SUBSET Int16
    BY DEF ScaleInv, TypeOK
  <2>2. FirstThatHolds(range, block)
    BY DEF ScaleInv, FirstThatHolds
  <2>3. RangeOf(block) \in 0..7 /\ FirstThatHolds(RangeOf(block), block)
    BY <2>1, <2>2 DEF RangeOf
  <2> QED BY <2>1, <2>2, <2>3, OneRange
<1> QED BY <1>1, ScaleInvHolds, PTL

-----------------------------------------------------------------------------
(* DsrEncoder: the inductive invariant *)

Width  == 4 * Groups                  \* channels side by side in the memory
Shifts == [Channel -> 0..7]
Blocks == Len(announced)              \* blocks given to dsr_encode so far

EncoderTypeOK ==
    /\ frame \in Int /\ count \in Nat
    /\ announced \in Seq(Shifts) /\ scale \in Shifts
    /\ pc \in {"call", "frames"} /\ i \in 0..Samples /\ ac \in Nat

\* The frame counter is the number of frame pairs in an int.
FrameOK == frame = Int32(count)

\* All frames of the earlier blocks have been sent, and i of the latest, which are read
\* from the slot of the latest block's number.
PhaseOK ==
    /\ pc = "call" => count = Samples * Blocks
    /\ pc = "frames" =>
           /\ Blocks > 0 /\ i \in Position
           /\ count = Samples * (Blocks - 1) + i
           /\ ac = Span * ((Blocks - 1) % Slots) + i * Width
           /\ scale = announced[Blocks]

\* Sample x of channel ch in block m, and where the delay memory holds it.
Sample(m, ch, x) ==
    IF m < 0 THEN Nothing
    ELSE [block |-> m, channel |-> ch, x |-> x, shift |-> announced[m + 1][ch]]
Place(m, ch, x) == Span * ((m + Delay) % Slots) + x * Width + ch

\* The delay memory holds the last three blocks, silence where there are none yet.
DelayOK ==
    \A d \in 1..3, ch \in Channel, x \in Position :
        delay[Place(Blocks - d, ch, x)] = Sample(Blocks - d, ch, x)

\* What the latest frame pair carries.
TxOK == DelayedByTwoBlocks /\ ScaleAnnouncedBefore /\ SAInOrder

EncoderInv == EncoderTypeOK /\ FrameOK /\ PhaseOK /\ DelayOK /\ TxOK

-----------------------------------------------------------------------------
(* The frame counter *)

\* Wrapping a counter changes it by a multiple of the word.
LEMMA Int32Wraps ==
    ASSUME NEW x \in Int
    PROVE  Int32(x) \in Int /\ \E z \in Int : Int32(x) = x + Word * z
<1>1. PICK h \in Int : h = Word \div 2
  BY EncoderAssumption
<1>2. PICK q \in Int, r \in Int : x + h = Word * q + r /\ r = (x + h) % Word
  <2>1. x + h \in Int /\ Word \in Nat \ {0}
    BY <1>1, EncoderAssumption
  <2>2. PICK q \in Int, r \in 0 .. Word - 1 : x + h = Word * q + r /\ r = (x + h) % Word
    BY <2>1, DivMod, Zenon
  <2> QED BY <2>1, <2>2
<1>3. Int32(x) = r - h
  BY <1>1, <1>2 DEF Int32
<1>4. r - h = x + Word * (-q)
  BY <1>1, <1>2, EncoderAssumption
<1> QED BY <1>1, <1>2, <1>3, <1>4

\* Counters that differ by a multiple of the word have the same value in an int.
LEMMA Int32Shift ==
    ASSUME NEW x \in Int, NEW z \in Int
    PROVE  Int32(x + Word * z) = Int32(x)
<1>1. PICK h \in Int : h = Word \div 2
  BY EncoderAssumption
<1>2. (x + Word * z) + h = (x + h) + Word * z
  BY <1>1, EncoderAssumption
<1>3. ((x + h) + Word * z) % Word = (x + h) % Word
  <2>1. x + h \in Int /\ Word \in Nat \ {0}
    BY <1>1, EncoderAssumption
  <2> QED BY <2>1, DivModShift, Zenon
<1> QED BY <1>1, <1>2, <1>3 DEF Int32

\* Counting in an int is counting without overflow, in an int.
LEMMA Int32Add ==
    ASSUME NEW x \in Int, NEW y \in Int
    PROVE  Int32(Int32(x) + y) = Int32(x + y)
<1>1. PICK z \in Int : Int32(x) = x + Word * z
  BY Int32Wraps
<1>2. Int32(x) + y = (x + y) + Word * z
  BY <1>1, EncoderAssumption
<1> QED BY <1>2, Int32Shift

\* Block and row numbers taken from the counter do not notice its overflow.
LEMMA Int32Digits ==
    ASSUME NEW x \in Int, NEW v \in {Slots, SAFrames}
    PROVE  /\ (Int32(x) \div Samples) % v = (x \div Samples) % v
           /\ Int32(x) % Samples = x % Samples
<1>1. PICK z \in Int : Int32(x) = x + Word * z
  BY Int32Wraps
<1>2. v \in Nat \ {0} /\ Samples \in Nat \ {0} /\ Word \in Int /\ Word % (2 * Samples * v) = 0
  BY EncoderAssumption DEF Slots
<1>3. PICK b \in Nat \ {0} : b = 2 * Samples * v /\ Word % b = 0
  BY <1>2
<1>4. PICK p \in Int, m \in 0 .. b - 1 : Word = b * p + m /\ m = Word % b
  BY <1>2, DivMod, Zenon
<1>5. Word = b * p
  BY <1>3, <1>4
<1>6. PICK y \in Int : y = 2 * (p * z)
  OBVIOUS
<1>7. PICK vy \in Int : vy = v * y
  BY <1>2
<1>8. Word * z = Samples * vy
  <2>1. Word * z = (2 * Samples * v) * p * z
    BY <1>2, <1>3, <1>5
  <2>2. (2 * Samples * v) * p * z = Samples * (v * (2 * (p * z)))
    BY <1>2
  <2> QED BY <1>6, <1>7, <2>1, <2>2
<1>9. (x + Samples * vy) \div Samples = (x \div Samples) + vy /\ (x + Samples * vy) % Samples = x % Samples
  BY <1>2, DivModShift, Zenon
<1>10. PICK d \in Int : d = x \div Samples
  BY <1>2, DivMod
<1>11. (d + v * y) % v = d % v
  BY <1>2, DivModShift, Zenon
<1>12. Int32(x) = x + Samples * vy
  BY <1>1, <1>8
<1> QED BY <1>7, <1>9, <1>10, <1>11, <1>12, Zenon

-----------------------------------------------------------------------------
(* The delay memory *)

\* Slots and positions lie side by side and never overlap: the offset of a sample in its
\* slot gives back its position and channel.
LEMMA Offsets ==
    ASSUME NEW ch \in Channel, NEW x \in Position
    PROVE  /\ x * Width + ch \in 0 .. Span - 1
           /\ (x * Width + ch) \div Width = x /\ (x * Width + ch) % Width = ch
<1>1. Width \in Nat \ {0} /\ Samples \in Nat \ {0} /\ ch \in 0 .. Width - 1 /\ x \in 0 .. Samples - 1
  BY EncoderAssumption DEF Width, Channel, Position
<1>2. Span = Samples * Width /\ Span \in Nat \ {0}
  BY EncoderAssumption DEF Span, Width
<1>3. PICK y \in Nat : Samples = x + 1 + y
  <2>1. Samples - x - 1 \in Nat /\ Samples = x + 1 + (Samples - x - 1)
    BY <1>1
  <2> QED BY <2>1
<1>4. Samples * Width = x * Width + Width + y * Width /\ y * Width \in Nat /\ x * Width \in Nat
  BY <1>1, <1>3
<1>5. x * Width + ch \in 0 .. Span - 1
  BY <1>1, <1>2, <1>4
<1>6. x * Width + ch \in Int /\ x * Width + ch = Width * x + ch
  BY <1>1
<1>7. (x * Width + ch) \div Width = x /\ (x * Width + ch) % Width = ch
  <2>1. x \in Int
    BY <1>1
  <2> QED BY <1>1, <1>6, <2>1, DivModUnique, Zenon
<1> QED BY <1>5, <1>7

\* A sample's place is an address of the memory.
LEMMA PlaceInMemory ==
    ASSUME NEW q \in 0 .. Slots - 1, NEW w \in 0 .. Span - 1
    PROVE  Span * q + w \in Address
<1>1. q \in {0, 1, 2, 3} /\ Span \in Nat
  BY EncoderAssumption DEF Slots, Span
<1>2. /\ Span * 0 + w \in Address /\ Span * 1 + w \in Address
      /\ Span * 2 + w \in Address /\ Span * 3 + w \in Address
  <2>1. PICK sp \in Nat : sp = Span
    BY <1>1
  <2> QED BY <2>1 DEF Address, Slots
<1> QED BY <1>1, <1>2

\* A place lies in the slot at base exactly if the slot is its own.
LEMMA PlaceInSlot ==
    ASSUME NEW q \in 0 .. Slots - 1, NEW r \in 0 .. Slots - 1, NEW w \in 0 .. Span - 1
    PROVE  (Span * r <= Span * q + w /\ Span * q + w < Span * r + Span) <=> q = r
<1>1. q \in {0, 1, 2, 3} /\ r \in {0, 1, 2, 3}
  BY DEF Slots
<1>2. PICK sp \in Nat : sp = Span /\ w \in 0 .. sp - 1
  BY EncoderAssumption DEF Span
<1>3. CASE q = r
  BY <1>2, <1>3, <1>1
<1>4. CASE q < r
  <2>1. r = q + 1 \/ r = q + 2 \/ r = q + 3
    BY <1>1, <1>4
  <2> QED BY <1>1, <1>2, <1>4, <2>1
<1>5. CASE r < q
  <2>1. q = r + 1 \/ q = r + 2 \/ q = r + 3
    BY <1>1, <1>5
  <2> QED BY <1>1, <1>2, <1>5, <2>1
<1> QED BY <1>1, <1>3, <1>4, <1>5

\* Storing a block writes its own slot and leaves the others alone.
LEMMA StoredAt ==
    ASSUME NEW q \in 0 .. Slots - 1, NEW r \in 0 .. Slots - 1, NEW sc,
           NEW ch \in Channel, NEW x \in Position
    PROVE  Stored(Span * r, sc)[Span * q + (x * Width + ch)] =
             IF q = r THEN [block |-> Blocks, channel |-> ch, x |-> x, shift |-> sc[ch]]
             ELSE delay[Span * q + (x * Width + ch)]
<1>1. PICK w \in 0 .. Span - 1 : w = x * Width + ch /\ w \div Width = x /\ w % Width = ch
  BY Offsets
<1>2. Span * q + w \in Address
  BY PlaceInMemory
<1>3. (Span * r <= Span * q + w /\ Span * q + w < Span * r + Span) <=> q = r
  BY PlaceInSlot
<1>4. ASSUME q = r
      PROVE  (Span * q + w) - Span * r = w
  BY <1>4, EncoderAssumption DEF Span, Slots
<1>5. CASE q = r
  BY <1>1, <1>2, <1>3, <1>4, <1>5, Zenon DEF Stored, Width, Blocks
<1>6. CASE q # r
  BY <1>1, <1>2, <1>3, <1>6, Zenon DEF Stored, Width
<1> QED BY <1>5, <1>6, <1>1

-----------------------------------------------------------------------------
(* The initial states *)

\* A fresh encoder has sent nothing, and its delay memory is silent.
LEMMA InitInv == Init => EncoderInv
<1> SUFFICES ASSUME Init PROVE EncoderInv
  OBVIOUS
<1>1. EncoderTypeOK
  BY EncoderAssumption DEF Init, EncoderTypeOK, Shifts
<1>2. FrameOK
  <2>1. PICK wd \in Nat \ {0} : wd = Word
    BY EncoderAssumption
  <2>2. ((0 + wd \div 2) % wd) - wd \div 2 = 0
    OBVIOUS
  <2> QED BY <2>1, <2>2 DEF Init, FrameOK, Int32
<1>3. PhaseOK
  BY EncoderAssumption DEF Init, PhaseOK, Blocks
<1>4. DelayOK
  <2> SUFFICES ASSUME NEW d \in 1..3, NEW ch \in Channel, NEW x \in Position
               PROVE  delay[Place(-d, ch, x)] = Nothing
    BY DEF Init, DelayOK, Blocks, Sample
  <2>1. PICK q \in 0 .. Slots - 1 : q = (-d + Delay) % Slots
    BY DEF Slots, Delay
  <2>2. PICK w \in 0 .. Span - 1 : w = x * Width + ch
    BY Offsets
  <2>3. Place(-d, ch, x) = Span * q + w
    <3>1. Span \in Nat /\ Width \in Nat /\ x \in Int /\ ch \in Int
      BY EncoderAssumption DEF Span, Width, Position, Channel
    <3> QED BY <2>1, <2>2, <3>1 DEF Place, Slots
  <2> QED BY <2>3, PlaceInMemory DEF Init
<1>5. TxOK
  BY DEF Init, TxOK, DelayedByTwoBlocks, ScaleAnnouncedBefore, SAInOrder
<1> QED BY <1>1, <1>2, <1>3, <1>4, <1>5 DEF EncoderInv

-----------------------------------------------------------------------------
(* Storing a block *)

\* The new block takes the slot of the oldest, which has been sent; the other two stay.
LEMMA LoadBlockInv == EncoderInv /\ LoadBlock => EncoderInv'
<1> SUFFICES ASSUME EncoderInv, LoadBlock PROVE EncoderInv'
  OBVIOUS
<1>1. PICK b \in Nat : b = Blocks
  BY DEF EncoderInv, EncoderTypeOK, Blocks
<1>2. /\ Samples \in Nat \ {0} /\ Slots = 4 /\ Delay = 2
      /\ scale' \in Shifts /\ announced \in Seq(Shifts) /\ Len(announced) = b
  BY <1>1, EncoderAssumption DEF LoadBlock, EncoderInv, EncoderTypeOK, Slots, Delay, Blocks, Shifts, Channel
<1>3. /\ announced' \in Seq(Shifts) /\ Len(announced') = b + 1 /\ announced'[b + 1] = scale'
      /\ \A m \in 1..b : announced'[m] = announced[m]
  BY <1>2 DEF LoadBlock
<1>4. count = Samples * b /\ count \in Nat /\ frame = Int32(count)
  BY <1>1 DEF LoadBlock, EncoderInv, PhaseOK, EncoderTypeOK, FrameOK
<1>5. PICK fb \in Int : fb = frame \div Samples /\ fb % Slots = b % Slots
  <2>1. count \div Samples = b
    <3>1. count \in Int /\ b \in Int /\ 0 \in 0 .. Samples - 1 /\ count = Samples * b + 0
      BY <1>2, <1>4
    <3> QED BY <1>2, <3>1, DivModUnique, Zenon
  <2>2. (Int32(count) \div Samples) % Slots = (count \div Samples) % Slots
    BY <1>4, Int32Digits
  <2>3. frame \div Samples \in Int
    BY <1>2, DivMod DEF EncoderInv, EncoderTypeOK
  <2> QED BY <1>4, <2>1, <2>2, <2>3
<1>6. PICK r \in 0 .. Slots - 1 : r = (b + Delay) % Slots /\ r = (fb + Delay) % Slots
  BY <1>2, <1>5, SMTT(30)
<1>7. delay' = Stored(Span * r, scale') /\ ac' = Span * (b % Slots)
  BY <1>5, <1>6 DEF LoadBlock
<1>8. EncoderTypeOK'
  <2>1. ac' \in Nat
    <3>1. b % Slots \in Nat /\ Span \in Nat
      BY <1>2, EncoderAssumption DEF Span
    <3> QED BY <1>7, <3>1
  <2> QED BY <1>2, <1>3, <2>1 DEF LoadBlock, EncoderInv, EncoderTypeOK
<1>9. FrameOK'
  BY <1>4 DEF LoadBlock, FrameOK, Int32
<1>10. PhaseOK'
  <2>1. b + 1 > 0 /\ 0 \in Position /\ count = Samples * ((b + 1) - 1) + 0 /\ 0 * Width = 0
    BY <1>2, <1>4, EncoderAssumption DEF Position, Width
  <2>2. Span * (b % Slots) + 0 = Span * (((b + 1) - 1) % Slots) + 0 /\ (b + 1) - 1 = b
    BY <1>2
  <2>3. ac' = Span * (((b + 1) - 1) % Slots) + 0
    <3>1. Span * (b % Slots) \in Int
      <4>1. b % Slots \in Nat /\ Span \in Nat
        BY <1>2, EncoderAssumption DEF Span
      <4> QED BY <4>1
    <3> QED BY <1>7, <2>2, <3>1
  <2> QED BY <1>3, <2>1, <2>3 DEF LoadBlock, PhaseOK, Blocks
<1>11. DelayOK'
  <2> SUFFICES ASSUME NEW d \in 1..3, NEW ch \in Channel, NEW x \in Position
               PROVE  delay'[Place(b + 1 - d, ch, x)] = Sample(b + 1 - d, ch, x)'
    BY <1>3 DEF DelayOK, Blocks, Place
  <2>1. PICK q \in 0 .. Slots - 1 : q = (b + 1 - d + Delay) % Slots
    BY <1>2
  <2>2. Place(b + 1 - d, ch, x) = Span * q + (x * Width + ch)
    <3>1. PICK sp \in Nat, xw \in Int : sp = Span * q /\ xw = x * Width /\ ch \in Int
      BY <1>2, EncoderAssumption DEF Span, Width, Position, Channel
    <3> QED BY <2>1, <3>1 DEF Place
  <2>3. delay'[Place(b + 1 - d, ch, x)] =
          IF q = r THEN [block |-> b, channel |-> ch, x |-> x, shift |-> scale'[ch]]
          ELSE delay[Place(b + 1 - d, ch, x)]
    BY <1>1, <1>7, <2>2, StoredAt
  <2>4. q = r <=> d = 1
    BY <1>2, <1>6, <2>1
  <2>5. CASE d = 1
    BY <1>2, <1>3, <2>3, <2>4, <2>5 DEF Sample
  <2>6. CASE d # 1
    <3>1. PICK e \in 1..3 : e = d - 1
      BY <2>6
    <3>2. delay[Place(b - e, ch, x)] = Sample(b - e, ch, x)
      BY <1>1 DEF EncoderInv, DelayOK
    <3>3. b - e = b + 1 - d
      BY <3>1
    <3>4. Sample(b - e, ch, x)' = Sample(b - e, ch, x)
      <4>1. CASE b - e < 0
        BY <4>1 DEF Sample
      <4>2. CASE b - e >= 0
        <5>1. b - e + 1 \in 1..b
          BY <4>2
        <5> QED BY <1>3, <5>1 DEF Sample
      <4> QED BY <4>1, <4>2
    <3> QED BY <2>3, <2>4, <2>6, <3>2, <3>3, <3>4
  <2> QED BY <2>5, <2>6
<1>12. TxOK'
  <2> SUFFICES ASSUME count > 0
               PROVE  (DelayedByTwoBlocks /\ ScaleAnnouncedBefore /\ SAInOrder)'
    BY DEF LoadBlock, TxOK, DelayedByTwoBlocks, ScaleAnnouncedBefore, SAInOrder
  <2>1. tx' = tx /\ count' = count /\ k' = k /\ n' = n
    BY DEF LoadBlock, k, n
  <2>2. n = b - 1
    <3>1. k \in Int /\ b - 1 \in Int /\ Samples - 1 \in 0 .. Samples - 1 /\ k = Samples * (b - 1) + (Samples - 1)
      BY <1>2, <1>4 DEF k
    <3> QED BY <1>2, <3>1, DivModUnique, Zenon DEF n
  <2>3. b > 0
    BY <1>2, <1>4
  <2>4. DelayedByTwoBlocks'
    BY <2>1 DEF EncoderInv, TxOK, DelayedByTwoBlocks
  <2>5. SAInOrder'
    BY <2>1 DEF EncoderInv, TxOK, SAInOrder
  <2>6. announced'[n + 1] = announced[n + 1]
    BY <1>3, <2>2, <2>3
  <2>7. n >= Delay => announced'[n - Delay + 1] = announced[n - Delay + 1]
    BY <1>2, <1>3, <2>2, <2>3
  <2>8. ScaleAnnouncedBefore'
    BY <2>1, <2>6, <2>7 DEF EncoderInv, TxOK, ScaleAnnouncedBefore
  <2> QED BY <2>4, <2>5, <2>8
<1> QED BY <1>8, <1>9, <1>10, <1>11, <1>12 DEF EncoderInv

-----------------------------------------------------------------------------
(* Sending a frame pair *)

\* A frame reads the slot of its own block number, which holds the block of two calls
\* before, at the position of the frame in the block.
LEMMA SendFrameInv == EncoderInv /\ SendFrame => EncoderInv'
<1> SUFFICES ASSUME EncoderInv, SendFrame PROVE EncoderInv'
  OBVIOUS
<1>1. PICK b \in Nat \ {0} : b = Blocks
  BY DEF EncoderInv, EncoderTypeOK, SendFrame, PhaseOK, Blocks
<1>2. PICK z \in Position : z = i
  BY DEF EncoderInv, PhaseOK, SendFrame
<1>3. /\ Samples \in Nat \ {0} /\ Slots = 4 /\ Delay = 2 /\ Width \in Nat \ {0}
      /\ scale \in Shifts /\ announced \in Seq(Shifts) /\ Len(announced) = b /\ scale = announced[b]
      /\ z \in 0 .. Samples - 1 /\ SAOffset \in Nat
  BY <1>1, <1>2, EncoderAssumption
  DEF EncoderInv, EncoderTypeOK, Slots, Delay, Blocks, PhaseOK, SendFrame, Width, Position
<1>4. /\ count = Samples * (b - 1) + z /\ count \in Nat /\ frame = Int32(count)
      /\ ac = Span * ((b - 1) % Slots) + z * Width
  BY <1>1, <1>2 DEF SendFrame, EncoderInv, PhaseOK, FrameOK, EncoderTypeOK
<1>5. k' = count /\ n' = b - 1 /\ k' % Samples = z
  <2>1. k' = count
    BY <1>4 DEF SendFrame, k
  <2>2. count \div Samples = b - 1 /\ count % Samples = z
    <3>1. count \in Int /\ b - 1 \in Int
      BY <1>4
    <3> QED BY <1>3, <1>4, <3>1, DivModUnique, Zenon
  <2> QED BY <2>1, <2>2 DEF n
<1>6. EncoderTypeOK'
  <2>1. frame' \in Int
    BY <1>4, Int32Add, Int32Wraps DEF SendFrame
  <2>2. ac' \in Nat /\ i' \in 0..Samples
    BY <1>2, <1>3 DEF SendFrame, EncoderInv, EncoderTypeOK, Width
  <2> QED BY <1>3, <1>4, <2>1, <2>2 DEF SendFrame, EncoderInv, EncoderTypeOK
<1>7. FrameOK'
  BY <1>4, Int32Add DEF SendFrame, FrameOK
<1>8. PhaseOK'
  <2>1. count' = Samples * (b - 1) + (z + 1) /\ i' = z + 1 /\ Blocks' = b /\ announced' = announced
    BY <1>1, <1>2, <1>3, <1>4 DEF SendFrame, Blocks
  <2>2. CASE z + 1 = Samples
    <3>1. count' = Samples * b /\ pc' = "call"
      BY <1>2, <1>3, <2>1, <2>2 DEF SendFrame
    <3> QED BY <2>1, <3>1 DEF PhaseOK
  <2>3. CASE z + 1 # Samples
    <3>1. pc' = "frames" /\ z + 1 \in Position
      BY <1>2, <1>3, <2>1, <2>3 DEF SendFrame, Position
    <3>2. ac' = Span * ((b - 1) % Slots) + (z + 1) * Width
      <4>1. PICK sp \in Int : sp = Span * ((b - 1) % Slots)
        <5>1. (b - 1) % Slots \in Nat /\ Span \in Nat
          BY <1>3, EncoderAssumption DEF Span
        <5> QED BY <5>1
      <4>2. ac' = (sp + z * Width) + Width
        BY <1>4, <4>1 DEF SendFrame, Width
      <4> QED BY <1>3, <4>1, <4>2
    <3>3. scale' = announced'[b] /\ b > 0 /\ pc' # "call"
      BY <1>3, <2>1, <3>1 DEF SendFrame
    <3> QED BY <2>1, <3>1, <3>2, <3>3 DEF PhaseOK
  <2> QED BY <2>2, <2>3
<1>9. DelayOK'
  BY DEF SendFrame, EncoderInv, DelayOK, Blocks, Sample
<1>10. \A ch \in Channel : tx'.samples[ch] = Sample(b - 3, ch, z)
  <2> SUFFICES ASSUME NEW ch \in Channel
               PROVE  delay[ac + ch] = Sample(b - 3, ch, z)
    BY DEF SendFrame
  <2>1. delay[Place(b - 3, ch, z)] = Sample(b - 3, ch, z)
    BY <1>1, <1>2 DEF EncoderInv, DelayOK
  <2>2. Place(b - 3, ch, z) = Span * ((b - 3 + 2) % Slots) + z * Width + ch
    BY <1>3 DEF Place
  <2>3. b - 3 + 2 = b - 1
    OBVIOUS
  <2> QED BY <1>4, <2>1, <2>2, <2>3
<1>11. DelayedByTwoBlocks'
  <2> SUFFICES ASSUME NEW ch \in Channel
               PROVE  LET e == tx'.samples[ch]
                      IN  IF n' < Delay THEN e = Nothing
                          ELSE e.block = n' - Delay /\ e.channel = ch /\ e.x = k' % Samples
    BY DEF DelayedByTwoBlocks
  <2>1. CASE b - 3 < 0
    BY <1>3, <1>5, <1>10, <2>1 DEF Sample
  <2>2. CASE b - 3 >= 0
    <3>1. PICK e : e = tx'.samples[ch]
      OBVIOUS
    <3>2. e = [block |-> b - 3, channel |-> ch, x |-> z, shift |-> announced[(b - 3) + 1][ch]]
      BY <1>10, <2>2, <3>1 DEF Sample
    <3>3. e.block = b - 3 /\ e.channel = ch /\ e.x = z
      BY <3>2
    <3>4. ~(n' < Delay) /\ n' - Delay = b - 3
      BY <1>3, <1>5, <2>2
    <3> QED BY <1>5, <3>1, <3>3, <3>4, Zenon
  <2> QED BY <2>1, <2>2
<1>12. ScaleAnnouncedBefore'
  <2> SUFFICES ASSUME NEW ch \in Channel
               PROVE  /\ n' >= Delay => tx'.samples[ch].shift = announced'[n' - Delay + 1][ch]
                      /\ tx'.zi[ch] = [shift |-> announced'[n' + 1][ch], bit |-> k' % Samples]
    BY DEF ScaleAnnouncedBefore
  <2>1. announced' = announced /\ (b - 1) + 1 = b /\ (b - 1) - 2 + 1 = (b - 3) + 1
    BY DEF SendFrame
  <2>2. n' >= Delay => tx'.samples[ch].shift = announced'[n' - Delay + 1][ch]
    <3>1. ASSUME b - 1 >= 2
          PROVE  tx'.samples[ch].shift = announced[(b - 3) + 1][ch]
      <4>1. PICK e : e = tx'.samples[ch]
        OBVIOUS
      <4>2. e = [block |-> b - 3, channel |-> ch, x |-> z, shift |-> announced[(b - 3) + 1][ch]]
        BY <1>10, <3>1, <4>1 DEF Sample
      <4> QED BY <4>1, <4>2
    <3> QED BY <1>3, <1>5, <2>1, <3>1
  <2>3. tx'.zi[ch] = [shift |-> announced'[n' + 1][ch], bit |-> k' % Samples]
    BY <1>2, <1>3, <1>5, <2>1 DEF SendFrame, ZIBit
  <2> QED BY <2>2, <2>3
<1>13. SAInOrder'
  <2>1. PICK y \in Int : y = count + SAOffset /\ Int32(frame + SAOffset) = Int32(y)
    BY <1>3, <1>4, Int32Add
  <2>2. (Int32(y) \div Samples) % SAFrames = (y \div Samples) % SAFrames /\ Int32(y) % Samples = y % Samples
    BY Int32Digits
  <2> QED BY <1>5, <2>1, <2>2 DEF SendFrame, SAInOrder, SABit
<1> QED BY <1>6, <1>7, <1>8, <1>9, <1>11, <1>12, <1>13 DEF EncoderInv, TxOK

-----------------------------------------------------------------------------
(* Every behaviour *)

\* The frame counter is the number of frame pairs in an int, the frames of all earlier blocks
\* have been sent, and the delay memory holds the last three blocks (dsr.c:304-393).
THEOREM EncoderInvHolds == Spec => []EncoderInv
<1>1. EncoderInv /\ [Next]_vars => EncoderInv'
  <2> SUFFICES ASSUME EncoderInv, [Next]_vars PROVE EncoderInv'
    OBVIOUS
  <2>1. CASE LoadBlock
    BY <2>1, LoadBlockInv
  <2>2. CASE SendFrame
    BY <2>2, SendFrameInv
  <2>3. CASE UNCHANGED vars
    BY <2>3 DEF vars, EncoderInv, EncoderTypeOK, FrameOK, PhaseOK, DelayOK, TxOK, Blocks, Sample,
                DelayedByTwoBlocks, ScaleAnnouncedBefore, SAInOrder, k, n
  <2> QED BY <2>1, <2>2, <2>3 DEF Next, Finished
<1> QED BY InitInv, <1>1, PTL DEF Spec

\* Every frame carries the samples of its place in the block given two calls before,
\* and silence before the first (dsr.c:322, 333, 391).
THEOREM DelayedByTwoBlocksHolds == Spec => []DelayedByTwoBlocks
<1>1. EncoderInv => DelayedByTwoBlocks
  BY DEF EncoderInv, TxOK
<1> QED BY EncoderInvHolds, <1>1, PTL

\* Every sample was scaled with the factor the ZI frames announced two blocks before
\* (dsr.c:318, 327, 356).
THEOREM ScaleAnnouncedBeforeHolds == Spec => []ScaleAnnouncedBefore
<1>1. EncoderInv => ScaleAnnouncedBefore
  BY DEF EncoderInv, TxOK
<1> QED BY EncoderInvHolds, <1>1, PTL

\* The SA bits are the rows of the table in order, whatever the width of the counter
\* (dsr.c:347).
THEOREM SAInOrderHolds == Spec => []SAInOrder
<1>1. EncoderInv => SAInOrder
  BY DEF EncoderInv, TxOK
<1> QED BY EncoderInvHolds, <1>1, PTL
=============================================================================
