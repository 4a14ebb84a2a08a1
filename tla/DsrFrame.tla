------------------------------ MODULE DsrFrame ------------------------------
(***************************************************************************)
(* One pair of main frames (src/dsr.c, the body of the loop of dsr_encode):*)
(* eight protected blocks of 77 bits, dealt out to two frames of 320 bits, *)
(* scrambled and interleaved.  A string of bits is the set of the places   *)
(* that hold a 1, place 0 being sent first.                                *)
(***************************************************************************)
EXTENDS Integers, Sequences, FiniteSets

Channels == 0..31

VARIABLES
    input,     \* what the body works on: audio and scale of the 32 channels, its round, sa bit
    pc,        \* the step of the loop's body
    blocks,    \* c[8][10]
    a, b,      \* the two frames
    block      \* 80 octets of the result

frameVars == <<input, pc, blocks, a, b, block>>

-----------------------------------------------------------------------------
(* Bits *)

Xor(A, B) == (A \ B) \cup (B \ A)
Bit(v, k) == (v \div 2 ^ k) % 2

\* bits_write_uint, bits_write_int: the low nbits of v, the highest first, from place p.
BitsWrite(bits, p, v, nbits) ==
    (bits \ (p .. p + nbits - 1)) \cup {p + nbits - 1 - k : k \in {i \in 0 .. nbits - 1 : Bit(v, i) = 1}}

\* Mutant of Polynomial: a term is wrong.
PolynomialOther == {15, 11, 9, 8, 6, 4, 0}

Polynomial == {15, 10, 9, 8, 6, 4, 0}   \* 0x8751, and 19

\* The check bits of the 44 at the start of a block: a shift register of 19 bits.
Shifted(code, bit) ==
    LET up == {k + 1 : k \in code \ {18}}
    IN  IF bit # (18 \in code) THEN Xor(up, Polynomial) ELSE up
CheckBits(bits) ==
    LET code[i \in 0..44] == IF i = 0 THEN {} ELSE Shifted(code[i - 1], i - 1 \in bits)
    IN  code[44]
BchEncode(bits) == (bits \ (44..62)) \cup {62 - k : k \in CheckBits(bits)}

\* The table of the ZI frame's check bits, which is linear: its rows for single bits.
ZiRow == [k \in 0..5 |-> (<<209, 115, 230, 29, 58, 116>>)[k + 1]]
ZiBch(c) == {i \in 0..7 : Cardinality({k \in 0..5 : Bit(c, k) = 1 /\ Bit(ZiRow[k], i) = 1}) % 2 = 1}

ZiWord(sc_l, sc_r) ==
    LET c == sc_l * 8 + sc_r
    IN  BitsWrite({}, 0, c, 6) \cup {13 - k : k \in ZiBch(c)}

\* Three times the word of a pair of channels; the rest, PI, is 0.
ZiFrame(m) ==
    LET w == ZiWord(input.scale[2 * m], input.scale[2 * m + 1])
    IN  {14 * t + p : t \in 0..2, p \in w}

-----------------------------------------------------------------------------
(* The loop's body *)

FrameInit ==
    /\ input = [audio |-> [c \in Channels |-> 0], scale |-> [c \in Channels |-> 7],
                frame |-> 0, sa |-> 0]
    /\ pc = "idle"
    /\ blocks = [j \in 0..7 |-> {}] /\ a = {} /\ b = {} /\ block = {}

\* The loop enters its body.
StartFrame(in) ==
    /\ pc = "idle"
    /\ input' = in /\ pc' = "clear"
    /\ UNCHANGED <<blocks, a, b, block>>

SyncWord == 1810   \* 0x712

\* The sync words and the special service bit.
Clear ==
    /\ pc = "clear"
    /\ a' = BitsWrite(BitsWrite({}, 0, SyncWord, 11), 11, input.sa, 1)
    /\ b' = BitsWrite(BitsWrite({}, 0, -1 - SyncWord, 11), 11, 0, 1)
    /\ pc' = "blocks"
    /\ UNCHANGED <<input, blocks, block>>

\* The high 11 bits of sample c of a block, and its three low bits.
High(bits, v, c) == BitsWrite(bits, 11 * c, v[c] \div 8, 11)
Low(bits, v, c)  == BitsWrite(bits, 65 + 3 * c, v[c], 3)

\* The high bits of four samples, protected, two ZI bits and the low bits.
Block77(v, zi1, zi2) ==
    LET high == High(High(High(High({}, v, 0), v, 1), v, 2), v, 3)
        zi   == BitsWrite(BitsWrite(BchEncode(high), 63, zi1, 1), 64, zi2, 1)
    IN  Low(Low(Low(Low(zi, v, 0), v, 1), v, 2), v, 3)

ZiBit(m) == IF input.frame \in ZiFrame(m) THEN 1 ELSE 0

Generate ==
    /\ pc = "blocks"
    /\ blocks' = [j \in 0..7 |->
           Block77([c \in 0..3 |-> input.audio[4 * j + c]], ZiBit(2 * j), ZiBit(2 * j + 1))]
    /\ pc' = "insert"
    /\ UNCHANGED <<input, a, b, block>>

\* Mutant of Place: the octets lie a pair of bits too far apart.
PlaceApart(p, j) == p + 18 * j

\* Where the octets j of two blocks go, from place p of the frame on.
Place(p, j) == p + 16 * j

\* Bits spread out, for others to go between.
Ileave(bits) == {2 * k : k \in bits}

\* Octets j of two blocks dealt out, one bit of each in turn; of the tenth five bits only.
OctetDealt(frame, p, c0, c1, j) ==
    LET octet(c) == Ileave({i - 8 * j : i \in c \cap 8 * j .. 8 * j + 7})
        l  == IF j = 9 THEN 10 ELSE 16
        at == Place(p, j)
    IN  (frame \ (at .. at + l - 1)) \cup {at + k : k \in octet(c0)} \cup {at + k + 1 : k \in octet(c1)}

\* Two blocks dealt out from place p on.
Dealt(frame, p, c0, c1) ==
    LET after[j \in 0..10] == IF j = 0 THEN frame ELSE OctetDealt(after[j - 1], p, c0, c1, j - 1)
    IN  after[10]

Insert ==
    /\ pc = "insert"
    /\ a' = Dealt(Dealt(a, 12, blocks[0], blocks[1]), 166, blocks[2], blocks[3])
    /\ b' = Dealt(Dealt(b, 12, blocks[4], blocks[5]), 166, blocks[6], blocks[7])
    /\ pc' = "shape"
    /\ UNCHANGED <<input, blocks, block>>

\* The nine bits of the scrambler's register after up to five steps: for so long no bit
\* that comes in is looked at again.  0xBD at bit 12; four bits at a time from there.
Advanced(reg, m) ==
    {k - m : k \in reg \cap m..8}
        \cup {9 - m + k : k \in {t \in 0 .. m - 1 : (t \in reg) # (t + 4 \in reg)}}
Nibble[q \in 3..79] ==
    IF q = 3 THEN {0, 2, 3, 4, 5, 7} ELSE LET before == Nibble[q - 1] IN Advanced(before, 4)
Register(x) == Advanced(Nibble[x \div 4], x % 4)

\* The bits of a frame that _mkprbs inverts.
Prbs0 == {x \in 12..319 : 0 \in Register(x)}
Prbs1 == {x \in 12..319 : (0 \in Register(x)) # (3 \in Register(x))}

Shape ==
    /\ pc = "shape"
    /\ a' = Xor(a, Prbs0) /\ b' = Xor(b, Prbs1)
    /\ pc' = "emit"
    /\ UNCHANGED <<input, blocks, block>>

Emit ==
    /\ pc = "emit"
    /\ block' = Ileave(a) \cup {k + 1 : k \in Ileave(b)}
    /\ pc' = "done"
    /\ UNCHANGED <<input, blocks, a, b>>

FrameStep == Clear \/ Generate \/ Insert \/ Shape \/ Emit

-----------------------------------------------------------------------------
(* A receiver *)

\* The ones of the scrambling sequence: nine terms are given, and each term after them is
\* the sum of those nine and five places before it, found five at a time.
Ones[q \in 0..62] ==
    IF q = 0 THEN {0, 2, 3, 4, 5, 7}
    ELSE LET before == Ones[q - 1]
         IN  before \cup {t \in 5 * q + 4 .. 5 * q + 8 : (t - 9 \in before) # (t - 5 \in before)}
Scrambler == Ones[62]
Descrambled(frame, q) ==
    {x \in 0..319 : (x \in frame) # (x >= 12 /\ IF q = 0 THEN x - 12 \in Scrambler
                                      ELSE (x - 12 \in Scrambler) # (x - 9 \in Scrambler))}

\* What the 63 bits of a block leave over when divided by the generator polynomial: times
\* x, plus the next bit.
TimesX(s) ==
    LET up == {k + 1 : k \in s}
    IN  IF 19 \in up THEN Xor(up \ {19}, {15, 10, 9, 8, 6, 4, 0}) ELSE up
Syndrome(bits) ==
    LET rest[p \in 0..63] ==
            IF p = 0 THEN {} ELSE Xor(TimesX(rest[p - 1]), IF p - 1 \in bits THEN {0} ELSE {})
    IN  rest[63]

\* The 77 bits of block j.
BlockAt(frames, j) ==
    {p \in 0..76 : 12 + 154 * ((j % 4) \div 2) + 2 * p + (j % 2) \in frames[j \div 4 + 1]}

\* The number in nbits bits from place p on, the highest first.
Number(bits, p, nbits) ==
    LET number[k \in 0..nbits] ==
            IF k = 0 THEN 0 ELSE 2 * number[k - 1] + (IF p + k - 1 \in bits THEN 1 ELSE 0)
    IN  number[nbits]
Signed(v) == IF v >= 8192 THEN v - 16384 ELSE v

\* The two frames in the clear, and a sample of a block.
FramesOf(bits) == LET frame(q) == Descrambled({k \in 0..319 : 2 * k + q \in bits}, q)
                  IN  <<frame(0), frame(1)>>
SampleOf(bits, c) == Signed(8 * Number(bits, 11 * c, 11) + Number(bits, 65 + 3 * c, 3))

-----------------------------------------------------------------------------
(* Properties *)

\* A receiver that undoes the interleaving and the scrambling finds both sync words and
\* the special service bit in clear, no error in any block, the 14 bits of all 32 samples
\* and the bit of each ZI frame: no two fields share a place of the frame and none is
\* scrambled twice or not at all (dsr.c:211-272, 338-389).
Received ==
    pc = "done" =>
        LET frames == FramesOf(block)
            zi(m) == input.frame < 42 /\ (input.frame % 14)
                        \in ZiWord(input.scale[2 * m], input.scale[2 * m + 1])
        IN  /\ Number(frames[1], 0, 11) = SyncWord
            /\ Number(frames[2], 0, 11) = 2047 - SyncWord
            /\ Number(frames[1], 11, 1) = input.sa /\ 11 \notin frames[2]
            /\ \A j \in 0..7 :
                   LET bits == BlockAt(frames, j)
                   IN  /\ Syndrome(bits) = {}
                       /\ \A c \in 0..3 :
                              input.audio[4 * j + c] = SampleOf(bits, c)
                       /\ \A q \in 0..1 : (63 + q \in bits) <=> zi(2 * j + q)

\* The check bits that a wrong bit of the 63 upsets: those of the code's row for one of the
\* first 44 bits, or the check bit itself; and those that several wrong bits upset.
Row63[p \in 0..62] == IF p < 44 THEN BchEncode({p}) \ {p} ELSE {p}
Upset(wrong) == {i \in 44..62 : Cardinality({p \in wrong : i \in Row63[p]}) % 2 = 1}

\* Up to three wrong bits, wherever they are, are told from all others.
UpToThree == {{}} \cup {{p, q, r} : p, q, r \in 0..62}
ThreeCorrected == Cardinality({Upset(wrong) : wrong \in UpToThree}) = Cardinality(UpToThree)

\* As many check bits are upset, or an even number less or more, as bits are wrong.
FourthNoticed == \A p \in 0..62 : Cardinality(Row63[p]) % 2 = 1

\* The words of two different pairs of scale factors differ in five places at least.
TwoCorrected ==
    LET words == [pair \in (0..7) \X (0..7) |-> ZiWord(pair[1], pair[2])]
    IN  \A v, w \in DOMAIN words : v # w => Cardinality(Xor(words[v], words[w])) >= 5

\* The codes correct what they are there for: three errors, and a fourth one noticed, in
\* the 63 bits of a block; two errors in the word of a pair of scale factors.  Each block
\* sent is one that upsets no check bit, so what is upset on arrival comes from the wrong
\* bits alone: no three of them look like another three, so two words with no bit upset
\* differ in seven places at least, and, their ones being even in number, in eight
\* (dsr.c:154-164, 226-242).
CodesFarApart ==
    pc = "insert" =>
        /\ \A j \in 0..7 : Upset(blocks[j] \cap 0..62) = {}
        /\ ThreeCorrected /\ FourthNoticed /\ TwoCorrected
=============================================================================
