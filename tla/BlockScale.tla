----------------------------- MODULE BlockScale -----------------------------
(***************************************************************************)
(* The companding of dsr_encode (src/dsr.c): the loop over the 64 samples  *)
(* of a channel finds the largest shift that no sample of the block        *)
(* overflows, then each sample is shifted and cut to 14 bits.              *)
(*                                                                         *)
(* The range table is walked with a pointer that only moves forward, so    *)
(* the loop is correct only if the ranges are nested and the last one      *)
(* holds everything.                                                       *)
(***************************************************************************)
EXTENDS Integers

CONSTANTS BlockSamples,   \* samples per channel and block (64)
          Inputs          \* the 16-bit samples a block may hold

Int16 == {v \in Int : -32768 <= v /\ v <= 32767}

ASSUME ScaleAssumption == BlockSamples \in Nat /\ Inputs \subseteq Int16

VARIABLES looked,   \* samples of the block looked at
          range,    \* index of scale[i] in _ranges
          mag,      \* as: magnitude of the sample under test
          step,     \* "sample", "test" or "done"
          block     \* history: the samples looked at

scaleVars == <<looked, range, mag, step, block>>

\* Mutant of Limit: the masks of the ranges are one bit short.
LimitShort(r) == <<512, 1024, 2048, 4096, 8192, 16384, 32768, 32768>>[r + 1]

\* Mutant of Limit: the masks of the ranges are one bit long.
LimitLong(r) == <<128, 256, 512, 1024, 2048, 4096, 8192, 16384>>[r + 1]

\* Mutant of Limit: the mask of the widest range is that of the one before.
LimitNoLast(r) == <<256, 512, 1024, 2048, 4096, 8192, 16384, 16384>>[r + 1]

\* _ranges[r].mask: a magnitude has a masked bit exactly when it reaches this.
Limit(r) == <<256, 512, 1024, 2048, 4096, 8192, 16384, 32768>>[r + 1]

\* _ranges[r].shift and the factor it stands for.
Shift(r) == 7 - r
Factor(r) == <<128, 64, 32, 16, 8, 4, 2, 1>>[r + 1]

\* *ap < 0 ? ~*ap : *ap
Magnitude(s) == IF s < 0 THEN -s - 1 ELSE s

\* audio << shift assigned to an int16_t, then >>= 2.
Wrap16(v) == ((v + 32768) % 65536) - 32768
Coded(s, r) == Wrap16(s * Factor(r)) \div 4

\* The range a block of samples ends up in: the first that holds them all.
FirstThatHolds(r, samples) ==
    /\ \A s \in samples : Magnitude(s) < Limit(r)
    /\ r > 0 => \E s \in samples : Magnitude(s) >= Limit(r - 1)
RangeOf(samples) == CHOOSE r \in 0..7 : FirstThatHolds(r, samples)

ScaleInit ==
    /\ looked = 0 /\ range = 0 /\ mag = 0 /\ block = {}
    /\ step = IF BlockSamples = 0 THEN "done" ELSE "sample"

\* The next sample of the channel.
NextSample ==
    /\ step = "sample"
    /\ \E s \in Inputs : mag' = Magnitude(s) /\ block' = block \cup {s}
    /\ step' = "test"
    /\ UNCHANGED <<looked, range>>

\* Mutant of NextRange: the pointer advances once per sample at most.
NextRangeOnce ==
    /\ step = "test" /\ mag >= Limit(range)
    /\ range' = range + 1
    /\ looked' = looked + 1
    /\ step' = IF looked' = BlockSamples THEN "done" ELSE "sample"
    /\ UNCHANGED <<mag, block>>

\* while(as & scale[i]->mask) scale[i]++
NextRange ==
    /\ step = "test" /\ mag >= Limit(range)
    /\ range' = range + 1
    /\ UNCHANGED <<looked, mag, step, block>>

\* The sample fits.
SampleFits ==
    /\ step = "test" /\ mag < Limit(range)
    /\ looked' = looked + 1
    /\ step' = IF looked' = BlockSamples THEN "done" ELSE "sample"
    /\ UNCHANGED <<range, mag, block>>

ScaleDone == step = "done" /\ UNCHANGED scaleVars

ScaleNext == NextSample \/ NextRange \/ SampleFits \/ ScaleDone

ScaleSpec == ScaleInit /\ [][ScaleNext]_scaleVars

-----------------------------------------------------------------------------
(* Properties *)

\* The walk never leaves the table of eight ranges.
TypeOK ==
    /\ looked \in 0..BlockSamples /\ range \in 0..7 /\ mag \in Nat /\ mag <= 32767
    /\ step \in {"sample", "test", "done"}
    /\ block \subseteq Int16

\* No sample of the finished block loses its sign or its high bits when it is
\* shifted: what is stored, shifted back, is the sample without the bits below
\* the 14 that are sent (dsr.c:327-328).
NoOverflow ==
    step = "done" => \A s \in block :
        /\ s * Factor(range) \in Int16
        /\ 4 * Coded(s, range) <= s * Factor(range)
        /\ s * Factor(range) < 4 * Coded(s, range) + 4

\* No larger shift would have done: some sample overflows the range before.
TightestRange ==
    step = "done" /\ range > 0 =>
        \E s \in block : s * Factor(range - 1) \notin Int16

\* The walk sample by sample, which never steps back, ends at the range that the block as
\* a set calls for, in whatever order its samples come (dsr.c:299-313).
RangeFound == step = "done" => range = RangeOf(block)

\* The inductive invariant: the samples looked at fit the current range, but for
\* the one under test, and one of them does not fit the range before.
ScaleInv ==
    /\ TypeOK
    /\ step # "done" => looked < BlockSamples
    /\ step = "test" => \E s \in block : Magnitude(s) = mag
    /\ \A s \in block : Magnitude(s) < Limit(range) \/ (step = "test" /\ Magnitude(s) = mag)
    /\ range > 0 => \E s \in block : Magnitude(s) >= Limit(range - 1)
=============================================================================
