------------------------------ MODULE TxOutput ------------------------------
(***************************************************************************)
(* From the encoded block to the file, the network or the device: the      *)
(* output half of the main loop (src/dsrtx.c, testrun), the modulator and  *)
(* the sink.                                                               *)
(***************************************************************************)
EXTENDS Modulator, FileSink

CONSTANTS
    Blocks,      \* what the encoder may produce: sequences of octets
    MaxBlocks    \* bound: blocks of a behaviour

Octet == 0..255

ASSUME OutputAssumption == Blocks \subseteq Seq(Octet) \ {<<>>} /\ MaxBlocks \in Nat

VARIABLES
    pc,     \* "encode", "modulate" or "write"
    sent,   \* history: the blocks, the last of them in work
    lost,   \* history: by block, whether the sink gave up in it
    taken,  \* history: by block, how far the sink got
    phases, \* history: the phases of all symbols
    marks   \* history: by block, how many symbols and how much written came before it

vars == <<modVars, sinkVars, pc, sent, lost, taken, phases, marks>>

Block == sent[Len(sent)]
Modulated == data_type \notin RawTypes

Mark == [symbols |-> Len(phases), items |-> Len(written)]

Init == ModInit /\ SinkInit /\ pc = "encode" /\ sent = <<>>
        /\ lost = <<>> /\ taken = <<>> /\ phases = <<>> /\ marks = <<Mark>>

Encode ==
    /\ pc = "encode" /\ Len(sent) < MaxBlocks
    /\ \E b \in Blocks : sent' = Append(sent, b)
    /\ pc' = IF Modulated THEN "modulate" ELSE "write"
    /\ ModStart /\ SinkStart /\ UNCHANGED <<lost, taken, phases, marks>>

Modulate ==
    /\ pc = "modulate"
    /\ Symbol(Block)
    /\ pc' = IF x' = 4 * Len(Block) THEN "write" ELSE "modulate"
    /\ phases' = Append(phases, sym')
    /\ UNCHANGED <<sinkVars, sent, lost, taken, marks>>

Write ==
    /\ pc = "write"
    /\ \/ WriteIQ(iq) \/ WriteRaw(Block) \/ WriteRawShort(Block)
       \/ SendDatagram(Block) \/ SendFails(Block)
       \/ DeviceTakes(iq) \/ DeviceFails(iq)
    /\ UNCHANGED <<modVars, pc, sent, lost, taken, phases, marks>>

\* The result of rf_write() is not looked at.
Return ==
    /\ pc = "write" /\ WriteReturns(IF Modulated THEN Len(iq) ELSE Len(Block))
    /\ pc' = "encode" /\ lost' = Append(lost, failed) /\ taken' = Append(taken, off)
    /\ marks' = Append(marks, Mark)
    /\ UNCHANGED <<modVars, sinkVars, sent, phases>>

Done == pc = "encode" /\ Len(sent) = MaxBlocks /\ UNCHANGED vars

Next == Encode \/ Modulate \/ Write \/ Return \/ Done

Spec == Init /\ [][Next]_vars

-----------------------------------------------------------------------------
(* The transmission as a convolution *)

\* What symbol k, counted from 1, of symbols with these phases gives to sample t, counted
\* from 0, and what all of them give.
Part(turns, k, t, c) ==
    LET a == t - (k - 1) * Interpolation IN IF a \in Slots THEN Tap(turns[k], a, c) ELSE 0
Convolution(turns, t, c) ==
    LET sum[k \in 0 .. Len(turns)] == IF k = 0 THEN 0 ELSE sum[k - 1] + Part(turns, k, t, c)
    IN  sum[Len(turns)]

\* Sample t of all symbols so far.
Sample(t, c) == Convolution(phases, t, c)

\* Each symbol is turned from the one before it, whatever block that was in, by the bits of
\* its own; the block in work counts as far as it has come.
Turned ==
    \A b \in DOMAIN sent : \A n \in 0 .. (IF b = Len(sent) THEN x ELSE 4 * Len(sent[b])) - 1 :
        LET k == marks[b].symbols + n
        IN  phases[k + 1] = ((IF k = 0 THEN 0 ELSE phases[k]) + Step[Dibit(sent[b], n)]) % 4

\* What a reader of the file takes the stored value for, and how far it may be below
\* the sample.
Decoded(type, y) ==
    CASE type = "uint8"  -> y * 256 - 32768
      [] type = "int8"   -> y * 256
      [] type = "uint16" -> y - 32768
      [] type = "int32"  -> y \div 65537
      [] OTHER           -> y

Quantum(type) == IF type \in {"uint8", "int8"} THEN 256 ELSE 1

\* Samples or octets in a block, and how many items of the output the first n of them are.
Size(b) == IF Modulated THEN 4 * Len(sent[b]) * Interpolation ELSE Len(sent[b])
Items(n) == IF data_type = "unmod_udp" THEN (n + Payload - 1) \div Payload ELSE n

\* The output holds the first n samples of a block to the precision of its type, or the first
\* n octets, which are in datagrams the last of which ends with them.
SamplesFiled(b, n) ==
    \A i \in 1..n, c \in 1..2 :
        Sample(marks[b].symbols * Interpolation + i - 1, c)
            - Decoded(data_type, written[marks[b].items + i][c]) \in 0 .. Quantum(data_type) - 1
OctetsFiled(b, n) ==
    \A i \in 1..n :
        IF data_type = "unmod_uint8" THEN written[marks[b].items + i] = sent[b][i]
        ELSE LET datagram == written[marks[b].items + (i - 1) \div Payload + 1]
                 at == ((i - 1) % Payload) + 1
             IN  datagram[at] = sent[b][i] /\ Len(datagram) <= Payload
                 /\ (i = n => Len(datagram) = at)

\* Block follows block, and nothing but the rest of one in which the sink failed is missing.
Gapless ==
    /\ marks[1] = [symbols |-> 0, items |-> 0] /\ marks[Len(marks)] = Mark
    /\ \A b \in DOMAIN sent :
          /\ marks[b + 1].symbols = marks[b].symbols + IF Modulated THEN 4 * Len(sent[b]) ELSE 0
          /\ marks[b + 1].items = marks[b].items + Items(taken[b])
          /\ ~lost[b] => taken[b] = Size(b)

-----------------------------------------------------------------------------
(* Properties *)

\* On the standard output one preview of the first piece stands before the signal, and none
\* comes between its samples or octets; a file holds the signal alone (rf_file.c:57-82, 514).
OnePreview ==
    /\ shown \in {<<>>, <<0>>} /\ (~stdout => shown = <<>>)
    /\ stdout /\ written # <<>> => shown = <<0>>

\* The file holds, and the device gets, the linear convolution of all symbols sent with the
\* pulse, each symbol turned from the one before it, to the precision of the type, with no
\* sample lost or repeated at the border of a block, of a buffer or of the ring and no text
\* of a preview in between, but for the rest of a block at which the device took nothing
\* (rf.c:173-205, rf_file.c:41-322, rf_soapysdr.c:47-60).
StreamFiled ==
    Modulated /\ pc = "encode" =>
        /\ OnePreview /\ Gapless /\ Turned
        /\ \A b \in DOMAIN sent : SamplesFiled(b, taken[b])

\* After every symbol the ring holds, from winx on, what the symbols so far still have to
\* give, and nothing else; and the samples taken out since the block began were complete
\* (rf.c:178-204).
WindowHoldsRest ==
    Modulated =>
        /\ Turned
        /\ \A i \in Slots, c \in 1..2 :
               win[i][c] = Sample(Len(phases) * Interpolation + Age(i), c)
        /\ Len(iq) = x * Interpolation
        /\ \A n \in 1 .. Len(iq), c \in 1..2 :
               iq[n][c] = Sample((Len(phases) - x) * Interpolation + n - 1, c)

\* Whatever symbols come next, no 16-bit sum of the ring can wrap: what a slot holds and all
\* that later symbols may still add to it before it goes out stay below full scale (rf.c:184-196).
Headroom == Modulated => \A i \in Slots, c \in 1..2 : Abs(win[i][c]) + Reach(Age(i)) <= 32767

\* Unmodulated, a file holds exactly the octets of the blocks, but for the rest of one it
\* did not take all of.  Over the network every block goes out from its start without a
\* gap, in datagrams of no more than Payload, and what is lost is the rest of a block one
\* of whose datagrams failed (rf_file.c:371-372, 420-432).
OctetsSent ==
    pc = "encode" /\ ~Modulated =>
        /\ OnePreview /\ Gapless
        /\ \A b \in DOMAIN sent : OctetsFiled(b, taken[b])
=============================================================================
