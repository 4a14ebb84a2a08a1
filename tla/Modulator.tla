----------------------------- MODULE Modulator ------------------------------
(***************************************************************************)
(* The QPSK modulator (src/rf.c, rf_qpsk_init and rf_qpsk_modulate): each  *)
(* symbol adds its pulse to a ring of ntaps samples and takes the oldest   *)
(* samples out of it, for no later symbol adds to them.  The ring and the  *)
(* phase outlive a call: pulses reach over the borders of the blocks.      *)
(***************************************************************************)
EXTENDS Integers, Sequences

CONSTANTS
    Interpolation,   \* samples per symbol
    Shape            \* the pulse, level and full scale included, on 0 .. NTaps - 1

NTaps == 10 * Interpolation + 1   \* (10 * interpolation) | 1
Slots == 0 .. NTaps - 1

ASSUME ModulatorAssumption ==
    /\ Interpolation \in Nat \ {0}
    /\ Shape \in [Slots -> Int]

Abs(v) == IF v < 0 THEN -v ELSE v

\* What the taps at a, a - Interpolation and so on come to: with signs that agree, all
\* that a slot of age a may still get.
Reach(a) ==
    LET sum[q \in 0 .. a \div Interpolation] ==
            (IF q = 0 THEN 0 ELSE sum[q - 1]) + Abs(Shape[(a % Interpolation) + q * Interpolation])
    IN  sum[a \div Interpolation]

\* Pulses that overlap stay below full scale: 25838 for every Interpolation at the level
\* of 0.8 (dsrtx.c:451), which rf_scale() only lowers.
ASSUME PulseAssumption == \A a \in Slots : Reach(a) <= 32767

VARIABLES
    win,    \* the ring: I and Q by slot
    winx,   \* the oldest slot
    sym,    \* the phase of the last symbol
    x,      \* the next symbol of the block
    iq      \* the samples of this call (dst)

modVars == <<win, winx, sym, x, iq>>

Wrap16(v) == ((v + 32768) % 65536) - 32768

\* The four points of the constellation.
Point == [p \in 0..3 |-> [c \in 1..2 |-> IF c = 1 THEN (<<-1, -1, 1, 1>>)[p + 1]
                                        ELSE (<<-1, 1, 1, -1>>)[p + 1]]]
Tap(p, i, c) == Point[p][c] * Shape[i]

\* Phase step of two bits, and the two bits, MSB first, of symbol n of a block of octets.
Step == [b \in 0..3 |-> (<<0, 3, 1, 2>>)[b + 1]]
Dibit(block, n) == (block[n \div 4 + 1] \div (<<64, 16, 4, 1>>)[(n % 4) + 1]) % 4

Zero == [c \in 1..2 |-> 0]

ModInit ==
    /\ win = [i \in Slots |-> Zero] /\ winx = 0
    /\ sym = 0 /\ x = 0 /\ iq = <<>>

ModStart == x' = 0 /\ iq' = <<>> /\ UNCHANGED <<win, winx, sym>>

\* Slot i counts as the age-th after the oldest.
Age(i) == (i - winx + NTaps) % NTaps

\* The window with the pulse of a symbol of phase p added.
Added(p) == [i \in Slots |-> [c \in 1..2 |-> Wrap16(win[i][c] + Tap(p, Age(i), c))]]

\* The oldest samples go out and leave zeros.
Emitted(w) == [n \in 1 .. Interpolation |-> w[(winx + n - 1) % NTaps]]

\* Mutant of Cleared: the samples taken out stay in the ring.
NotCleared(w) == w

Cleared(w) == [i \in Slots |-> IF Age(i) < Interpolation THEN Zero ELSE w[i]]

\* One round of the loop of rf_qpsk_modulate.
Symbol(block) ==
    /\ x < 4 * Len(block)
    /\ sym' = (sym + Step[Dibit(block, x)]) % 4
    /\ LET w == Added(sym')
       IN  win' = Cleared(w) /\ iq' = iq \o Emitted(w)
    /\ winx' = (winx + Interpolation) % NTaps
    /\ x' = x + 1
=============================================================================
