-------------------------- MODULE AudioSourceProofs -------------------------
(***************************************************************************)
(* Proofs about AudioSource for blocks and buffers of every size, for any  *)
(* set of sources and any number of calls: each sample a source gives      *)
(* arrives once and in its place, and a short call means that there is no  *)
(* more to give.                                                           *)
(***************************************************************************)
EXTENDS AudioSource, NumberLemmas, SequenceTheorems, FiniteSetTheorems, TLAPS

-----------------------------------------------------------------------------
(* The inductive invariant *)

Sample == [at : Nat, track : 0..1]
Pair   == (Sample \X Sample) \cup SUBSET Sample

\* TypeOK, and the types of what it leaves out.
Types ==
    /\ TypeOK
    /\ audio \in Seq(Sample) /\ block \in Seq(Pair)
    /\ calls \in Nat /\ total \in Nat /\ returned \in 0 .. BlockSamples
    /\ held \in Nat /\ sent \in Nat /\ received \in Nat

\* Samples of the buffer not yet copied.
Left == IF audio_len > 0 THEN audio_len ELSE 0

\* The buffer holds the last samples read, interleaved as the source's tracks ask for.
BufferOK ==
    /\ Left <= pos
    /\ audio_len > 0 => step = RightTrack + 1 /\ audio = Tracks(pos - audio_len, audio_len, step)

\* The samples copied are those read, less what is left in the buffer; a file that is
\* repeated has been read some times before.
PlaceOK ==
    /\ Raw => pos <= source.length /\ (feof => pos = source.length)
    /\ ~(Raw /\ source.repeat) => total = pos - Left
    /\ Raw /\ source.repeat => \E z \in Nat : total = source.length * z + (pos - Left)

\* Where in a call the source may have ended, and what the end says.
EndOK ==
    /\ source.kind = "none" => pc = "idle" /\ audio_len = 0
    /\ pc = "fetch" => audio_len = 0 /\ Len(block) < BlockSamples
    /\ pc = "loop" /\ audio_len < 0 => Len(block) < BlockSamples
    /\ eof = -1 => audio_len < 0
    /\ pc = "idle" /\ audio_len < 0 => eof = -1
    /\ audio_len < 0 => total = Deliverable /\ ~(Raw /\ source.repeat)
    /\ returned < BlockSamples => eof = -1 \/ source.kind = "none"

\* What the decoder and the resampler have taken, given and kept.
PacketsRead == Len(source.packets) - Len(packets)
Taken(m)    == {j \in 1..m : source.packets[j] = "audio"}
DecoderOK ==
    Ffmpeg => /\ packets = SubSeq(source.packets, PacketsRead + 1, Len(source.packets))
              /\ PacketsRead \in 0 .. Len(source.packets)
              /\ sent = Cardinality(Taken(PacketsRead))
              /\ received <= Len(source.frames) - source.hold
              /\ \A f \in 1 .. received : source.frames[f] # Broken
              /\ held = KeptBack[received] /\ FrameSum[received] = pos + held

SourceInv == Types /\ BufferOK /\ PlaceOK /\ EndOK /\ DecoderOK /\ InOrder

-----------------------------------------------------------------------------
(* Interleaved samples *)

\* A place of the buffer belongs to a sample and a track.
LEMMA TracksPlace ==
    ASSUME NEW t \in 1..2, NEW e \in Nat \ {0}, NEW r \in 0 .. t - 1
    PROVE  /\ ((e - 1) * t + r) \div t = e - 1 /\ ((e - 1) * t + r) % t = r
           /\ \A m \in Nat : e <= m => (e - 1) * t + r + 1 \in 1 .. m * t
<1>1. CASE t = 1
  BY <1>1
<1>2. CASE t = 2
  BY <1>2
<1> QED BY <1>1, <1>2

\* m samples of each track from position p on, the left one first and the right one at the
\* end of its place.
Holds(a, p, m, t) ==
    /\ a \in Seq(Sample) /\ Len(a) = m * t
    /\ \A e \in 1..m :
          /\ 1 + (e - 1) * t \in 1 .. m * t /\ (e - 1) * t + t \in 1 .. m * t
          /\ a[1 + (e - 1) * t] = [at |-> p + e - 1, track |-> 0]
          /\ a[(e - 1) * t + t] = [at |-> p + e - 1, track |-> t - 1]

\* The two pointers find the samples of both tracks in what a source reads.
LEMMA TracksContents ==
    ASSUME NEW p \in Nat, NEW m \in Nat, NEW t \in 1..2
    PROVE  Holds(Tracks(p, m, t), p, m, t)
<1>1. PICK w \in Nat : w = m * t
  OBVIOUS
<1>2. \A j \in 1..w : (j - 1) \div t \in Nat /\ (j - 1) % t \in 0..1
  <2>1. CASE t = 1
    BY <2>1
  <2>2. CASE t = 2
    BY <2>2
  <2> QED BY <2>1, <2>2
<1>3. Tracks(p, m, t) = [j \in 1..w |-> [at |-> p + (j - 1) \div t, track |-> (j - 1) % t]]
  BY <1>1 DEF Tracks
<1>4. Tracks(p, m, t) \in Seq(Sample) /\ Len(Tracks(p, m, t)) = w
  <2>1. ASSUME NEW j \in 1..w
        PROVE  [at |-> p + (j - 1) \div t, track |-> (j - 1) % t] \in Sample
    BY <1>2 DEF Sample
  <2>2. Tracks(p, m, t) \in [1..w -> Sample]
    BY <1>3, <2>1
  <2> QED BY <2>2
<1>5. ASSUME NEW e \in 1..m
      PROVE  /\ 1 + (e - 1) * t \in 1 .. m * t /\ (e - 1) * t + t \in 1 .. m * t
             /\ Tracks(p, m, t)[1 + (e - 1) * t] = [at |-> p + e - 1, track |-> 0]
             /\ Tracks(p, m, t)[(e - 1) * t + t] = [at |-> p + e - 1, track |-> t - 1]
  <2>1. PICK l \in 1..w : l = 1 + (e - 1) * t /\ (l - 1) \div t = e - 1 /\ (l - 1) % t = 0
    <3>1. 0 \in 0 .. t - 1 /\ e \in Nat \ {0} /\ e <= m
      OBVIOUS
    <3>2. /\ ((e - 1) * t + 0) \div t = e - 1 /\ ((e - 1) * t + 0) % t = 0
          /\ (e - 1) * t + 0 + 1 \in 1 .. m * t
      BY <3>1, TracksPlace
    <3>3. PICK q \in Int : q = (e - 1) * t
      OBVIOUS
    <3>4. q + 0 = q /\ (1 + q) - 1 = q /\ q + 0 + 1 = 1 + q
      BY <3>3
    <3> QED BY <1>1, <3>2, <3>3, <3>4
  <2>2. PICK r \in 1..w : r = (e - 1) * t + t /\ (r - 1) \div t = e - 1 /\ (r - 1) % t = t - 1
    <3>1. t - 1 \in 0 .. t - 1 /\ e \in Nat \ {0} /\ e <= m
      OBVIOUS
    <3>2. /\ ((e - 1) * t + (t - 1)) \div t = e - 1 /\ ((e - 1) * t + (t - 1)) % t = t - 1
          /\ (e - 1) * t + (t - 1) + 1 \in 1 .. m * t
      BY <3>1, TracksPlace, ZenonT(40)
    <3>3. PICK q \in Int : q = (e - 1) * t
      OBVIOUS
    <3>4. q + (t - 1) = (q + t) - 1 /\ q + (t - 1) + 1 = q + t
      BY <3>3
    <3> QED BY <1>1, <3>2, <3>3, <3>4
  <2>3. p + (e - 1) = p + e - 1
    OBVIOUS
  <2>4. Tracks(p, m, t)[l] = [at |-> p + e - 1, track |-> 0]
    BY <1>3, <2>1, <2>3
  <2>5. Tracks(p, m, t)[r] = [at |-> p + e - 1, track |-> t - 1]
    BY <1>3, <2>2, <2>3
  <2> QED BY <1>1, <2>1, <2>2, <2>4, <2>5
<1> QED BY <1>1, <1>4, <1>5 DEF Holds

\* Without its first c samples the buffer starts c samples later.
LEMMA TracksRest ==
    ASSUME NEW p \in Nat, NEW m \in Nat, NEW t \in 1..2, NEW c \in 0..m
    PROVE  SubSeq(Tracks(p, m, t), c * t + 1, Len(Tracks(p, m, t))) = Tracks(p + c, m - c, t)
<1>1. PICK w \in Nat, v \in Nat, u \in Nat : w = m * t /\ v = c * t /\ u = (m - c) * t /\ w - v = u
  <2>1. CASE t = 1
    BY <2>1
  <2>2. CASE t = 2
    BY <2>2
  <2> QED BY <2>1, <2>2
<1>2. Tracks(p, m, t) \in Seq(Sample) /\ Len(Tracks(p, m, t)) = w
  BY <1>1, TracksContents, ZenonT(40) DEF Holds
<1>3. \A j \in 1..u : (v + j - 1) \div t = c + ((j - 1) \div t) /\ (v + j - 1) % t = (j - 1) % t
  <2>1. CASE t = 1
    BY <1>1, <2>1
  <2>2. CASE t = 2
    BY <1>1, <2>2
  <2> QED BY <2>1, <2>2
<1>4. SubSeq(Tracks(p, m, t), v + 1, w) = [j \in 1..u |-> Tracks(p, m, t)[v + j]]
  BY <1>1, <1>2
<1>5. \A j \in 1..u : Tracks(p, m, t)[v + j] =
                        [at |-> (p + c) + ((j - 1) \div t), track |-> (j - 1) % t]
  <2> TAKE j \in 1..u
  <2>1. v + j \in 1..w
    BY <1>1
  <2>2. Tracks(p, m, t)[v + j] = [at |-> p + (v + j - 1) \div t, track |-> (v + j - 1) % t]
    BY <1>1, <2>1 DEF Tracks
  <2>3. (j - 1) \div t \in Int
    BY <1>1
  <2>4. p + (v + j - 1) \div t = (p + c) + ((j - 1) \div t)
    BY <1>3, <2>3, SMTT(20)
  <2>5. (v + j - 1) % t = (j - 1) % t
    BY <1>3
  <2>6. PICK A, B : A = p + (v + j - 1) \div t /\ B = (v + j - 1) % t
    OBVIOUS
  <2>7. A = (p + c) + ((j - 1) \div t) /\ B = (j - 1) % t
    BY <2>4, <2>5, <2>6
  <2>8. Tracks(p, m, t)[v + j] = [at |-> A, track |-> B]
    BY <2>2, <2>6
  <2> QED BY <2>7, <2>8
<1>6. SubSeq(Tracks(p, m, t), v + 1, w) =
          [j \in 1..u |-> [at |-> (p + c) + ((j - 1) \div t), track |-> (j - 1) % t]]
  BY <1>4, <1>5
<1>7. Tracks(p + c, m - c, t) =
          [j \in 1..u |-> [at |-> (p + c) + ((j - 1) \div t), track |-> (j - 1) % t]]
  BY <1>1 DEF Tracks
<1> QED BY <1>1, <1>2, <1>6, <1>7, Zenon

-----------------------------------------------------------------------------
(* The decoder *)

\* FrameSum adds up the frames one by one.
LEMMA FrameSums ==
    ASSUME source \in Sources, Ffmpeg
    PROVE  /\ FrameSum[0] = 0
           /\ \A f \in 1 .. Len(source.frames) : FrameSum[f] = FrameSum[f - 1] + source.frames[f]
<1>1. PICK N \in Nat : N = Len(source.frames) /\ \A f \in 1..N : source.frames[f] \in Int
  <2>1. source.frames \in Seq(Int)
    BY SourceAssumption DEF Ffmpeg, Broken
  <2> QED BY <2>1
<1>2. PICK G : G = [n \in Nat |-> [v \in Int |-> IF n \in 1..N THEN v + source.frames[n] ELSE v]]
  OBVIOUS
<1>3. G \in [Nat -> [Int -> Int]]
  <2>1. ASSUME NEW n \in Nat
        PROVE  [v \in Int |-> IF n \in 1..N THEN v + source.frames[n] ELSE v] \in [Int -> Int]
    <3>1. CASE n \in 1..N
      <4>1. PICK y \in Int : y = source.frames[n]
        BY <1>1, <3>1
      <4> QED BY <3>1, <4>1
    <3>2. CASE n \notin 1..N
      BY <3>2
    <3> QED BY <3>1, <3>2
  <2> QED BY <1>2, <2>1
<1>4. PICK g \in [0..N -> Int] : g[0] = 0 /\ \A n \in 1..N : g[n] = G[n][g[n - 1]]
  <2>1. 0 \in Int
    OBVIOUS
  <2>2. Recursion(N, Int, 0, G)
    BY <1>1, <1>3, <2>1, RecursiveFunction
  <2> QED BY <2>2 DEF Recursion
<1>5. g = [f \in 0..N |-> IF f = 0 THEN 0 ELSE g[f - 1] + source.frames[f]]
  <2> SUFFICES ASSUME NEW f \in 0..N
               PROVE  g[f] = IF f = 0 THEN 0 ELSE g[f - 1] + source.frames[f]
    OBVIOUS
  <2>1. CASE f = 0
    BY <1>4, <2>1
  <2>2. CASE f # 0
    <3>1. f \in 1..N /\ f - 1 \in 0..N
      BY <2>2
    <3>2. g[f - 1] \in Int /\ g[f] = G[f][g[f - 1]]
      BY <1>4, <3>1
    <3> QED BY <1>1, <1>2, <2>2, <3>1, <3>2
  <2> QED BY <2>1, <2>2
<1>6. FrameSum = [f \in 0..N |-> IF f = 0 THEN 0 ELSE FrameSum[f - 1] + source.frames[f]]
  BY <1>1, <1>5 DEF FrameSum
<1> QED BY <1>1, <1>6, SMTT(30)

\* What the resampler keeps back of the frames so far, frame by frame.
LEMMA KeptBacks ==
    ASSUME source \in Sources, Ffmpeg
    PROVE  /\ KeptBack[0] = 0
           /\ \A f \in 1 .. Len(source.frames) :
                 KeptBack[f] = LET due == KeptBack[f - 1] + source.frames[f]
                               IN  IF due > BufferSamples THEN due - BufferSamples ELSE 0
<1> DEFINE Rest(v, f) == LET due == v + source.frames[f]
                         IN  IF due > BufferSamples THEN due - BufferSamples ELSE 0
<1>1. PICK N \in Nat : N = Len(source.frames) /\ \A f \in 1..N : source.frames[f] \in Int
  <2>1. source.frames \in Seq(Int)
    BY SourceAssumption DEF Ffmpeg, Broken
  <2> QED BY <2>1
<1>2. PICK G : G = [n \in Nat |-> [v \in Int |-> IF n \in 1..N THEN Rest(v, n) ELSE v]]
  OBVIOUS
<1>3. G \in [Nat -> [Int -> Int]]
  <2>1. ASSUME NEW n \in Nat
        PROVE  [v \in Int |-> IF n \in 1..N THEN Rest(v, n) ELSE v] \in [Int -> Int]
    <3>1. CASE n \in 1..N
      <4>1. PICK y \in Int, b \in Int : y = source.frames[n] /\ b = BufferSamples
        BY <1>1, <3>1, SourceAssumption
      <4> QED BY <3>1, <4>1
    <3>2. CASE n \notin 1..N
      BY <3>2
    <3> QED BY <3>1, <3>2
  <2> QED BY <1>2, <2>1
<1>4. PICK g \in [0..N -> Int] : g[0] = 0 /\ \A n \in 1..N : g[n] = G[n][g[n - 1]]
  <2>1. 0 \in Int
    OBVIOUS
  <2>2. Recursion(N, Int, 0, G)
    BY <1>1, <1>3, <2>1, RecursiveFunction
  <2> QED BY <2>2 DEF Recursion
<1>5. g = [f \in 0..N |-> IF f = 0 THEN 0 ELSE Rest(g[f - 1], f)]
  <2> SUFFICES ASSUME NEW f \in 0..N
               PROVE  g[f] = IF f = 0 THEN 0 ELSE Rest(g[f - 1], f)
    OBVIOUS
  <2>1. CASE f = 0
    BY <1>4, <2>1
  <2>2. CASE f # 0
    <3>1. f \in 1..N /\ f - 1 \in 0..N
      BY <2>2
    <3>2. g[f - 1] \in Int /\ g[f] = G[f][g[f - 1]]
      BY <1>4, <3>1
    <3> QED BY <1>1, <1>2, <2>2, <3>1, <3>2
  <2> QED BY <2>1, <2>2
<1>6. KeptBack = [f \in 0..N |-> IF f = 0 THEN 0 ELSE Rest(KeptBack[f - 1], f)]
  BY <1>1, <1>5 DEF KeptBack
<1>7. KeptBack[0] = 0 /\ \A f \in 1..N : KeptBack[f] = Rest(KeptBack[f - 1], f)
  <2>1. PICK h : h = KeptBack /\ h = [f \in 0..N |-> IF f = 0 THEN 0 ELSE Rest(h[f - 1], f)]
    BY <1>6
  <2>2. h[0] = 0
    BY <1>1, <2>1
  <2>3. \A f \in 1..N : h[f] = Rest(h[f - 1], f)
    <3> TAKE f \in 1..N
    <3>1. f \in 0..N /\ f # 0
      BY <1>1
    <3>2. h[f] = IF f = 0 THEN 0 ELSE Rest(h[f - 1], f)
      BY <2>1, <3>1, Zenon
    <3> QED BY <3>1, <3>2, Zenon
  <2> QED BY <2>1, <2>2, <2>3
<1> QED BY <1>1, <1>7

\* The decoder has been given one packet more after an audio packet, and never more than
\* there are.
LEMMA TakenGrows ==
    ASSUME source \in Sources, Ffmpeg, NEW m \in 0 .. Len(source.packets)
    PROVE  /\ Cardinality(Taken(m)) \in 0 .. Len(source.frames)
           /\ m = Len(source.packets) => Cardinality(Taken(m)) = Len(source.frames)
           /\ m < Len(source.packets) =>
                 Cardinality(Taken(m + 1)) = IF source.packets[m + 1] = "audio"
                                             THEN Cardinality(Taken(m)) + 1 ELSE Cardinality(Taken(m))
<1>1. /\ source.packets \in Seq({"audio", "refused", "other"})
      /\ Cardinality(AudioIn(source.packets)) = Len(source.frames)
  BY SourceAssumption DEF Ffmpeg
<1>2. AudioIn(source.packets) = Taken(Len(source.packets))
  BY <1>1 DEF AudioIn, Taken
<1>3. \A e \in Nat : IsFiniteSet(Taken(e))
  <2> TAKE e \in Nat
  <2>1. IsFiniteSet(1..e)
    BY FS_Interval
  <2>2. Taken(e) \subseteq 1..e
    BY DEF Taken
  <2> QED BY <2>1, <2>2, FS_Subset
<1>4. Cardinality(Taken(m)) \in 0 .. Len(source.frames)
  <2>1. Taken(m) \subseteq AudioIn(source.packets) /\ IsFiniteSet(AudioIn(source.packets))
    <3>1. Len(source.packets) \in Nat
      BY <1>1
    <3> QED BY <1>1, <1>2, <1>3, <3>1 DEF Taken, AudioIn
  <2>2. /\ Cardinality(Taken(m)) <= Cardinality(AudioIn(source.packets))
        /\ Cardinality(Taken(m)) \in Nat /\ Cardinality(AudioIn(source.packets)) \in Nat
    BY <1>3, <2>1, FS_Subset, FS_CardinalityType
  <2> QED BY <1>1, <2>2
<1>5. ASSUME m < Len(source.packets), source.packets[m + 1] = "audio"
      PROVE  Cardinality(Taken(m + 1)) = Cardinality(Taken(m)) + 1
  <2>1. Taken(m + 1) = Taken(m) \cup {m + 1} /\ m + 1 \notin Taken(m)
    BY <1>5 DEF Taken
  <2> QED BY <1>3, <2>1, FS_AddElement
<1>6. ASSUME m < Len(source.packets), source.packets[m + 1] # "audio"
      PROVE  Taken(m + 1) = Taken(m)
  BY <1>6 DEF Taken
<1> QED BY <1>1, <1>2, <1>4, <1>5, <1>6

-----------------------------------------------------------------------------
(* Steps that read nothing *)

\* What only depends on the source does not change.
LEMMA SourceKept ==
    ASSUME source' = source
    PROVE  /\ Raw' = Raw /\ Ffmpeg' = Ffmpeg /\ RightTrack' = RightTrack
           /\ FrameSum' = FrameSum /\ KeptBack' = KeptBack /\ Deliverable' = Deliverable
           /\ \A m : Taken(m)' = Taken(m)
           /\ stereo' = stereo => \A q : Due(q)' = Due(q)
<1>1. Raw' = Raw /\ Ffmpeg' = Ffmpeg
  BY DEF Raw, Ffmpeg
<1>2. RightTrack' = RightTrack
  BY <1>1 DEF RightTrack
<1>3. FrameSum' = FrameSum /\ KeptBack' = KeptBack
  BY DEF FrameSum, KeptBack
<1>4. Decodable' = Decodable
  BY DEF Decodable
<1>5. Deliverable' = Deliverable
  BY <1>1, <1>3, <1>4 DEF Deliverable
<1>6. \A m : Taken(m)' = Taken(m)
  BY DEF Taken
<1>7. \A q : Place(q)' = Place(q)
  BY <1>1 DEF Place
<1>8. stereo' = stereo => \A q : Due(q)' = Due(q)
  BY <1>2, <1>7 DEF Due
<1> QED BY <1>1, <1>2, <1>3, <1>5, <1>6, <1>8

\* The invariants of the buffer, the place and the decoder depend on what is left in the
\* buffer, not on how an empty one is told from the end.
LEMMA NothingRead ==
    ASSUME SourceInv, Left' = Left, audio_len' > 0 => audio_len' = audio_len,
           UNCHANGED <<source, audio, step, pos, feof, avVars, total>>
    PROVE  BufferOK' /\ PlaceOK' /\ DecoderOK'
<1>1. BufferOK'
  BY SourceKept DEF SourceInv, BufferOK, Tracks
<1>2. PlaceOK'
  BY SourceKept DEF SourceInv, PlaceOK
<1>3. DecoderOK'
  BY SourceKept DEF SourceInv, DecoderOK, PacketsRead, avVars
<1> QED BY <1>1, <1>2, <1>3

\* The block stays as it is or starts anew.
LEMMA NothingCopied ==
    ASSUME SourceInv, block' = block \/ block' = <<>>, UNCHANGED <<source, stereo, total>>
    PROVE  InOrder'
<1>1. CASE block' = <<>>
  BY <1>1 DEF InOrder
<1>2. CASE block' = block
  BY <1>2, SourceKept DEF SourceInv, InOrder
<1> QED BY <1>1, <1>2

\* A call begins, looks for a buffer or comes back: what has been read and copied stays.
LEMMA CallInv ==
    SourceInv /\ (ReadNothing \/ ReadCall \/ Fetch \/ EndOfSource \/ ReadDone) => SourceInv'
<1> SUFFICES ASSUME SourceInv, ReadNothing \/ ReadCall \/ Fetch \/ EndOfSource \/ ReadDone
             PROVE  SourceInv'
  OBVIOUS
<1>1. /\ UNCHANGED <<source, stereo, audio, step, audio_len, pos, feof, avVars, total>>
      /\ block' = block \/ block' = <<>>
  BY DEF ReadNothing, ReadCall, Fetch, EndOfSource, ReadDone, srcVars, fileVars
<1>2. BufferOK' /\ PlaceOK' /\ DecoderOK' /\ InOrder'
  BY <1>1, NothingRead, NothingCopied DEF Left
<1>3. Types'
  <2>1. block' \in Seq(Pair) /\ Len(block') <= BlockSamples
    <3>1. CASE block' = block
      BY <3>1 DEF SourceInv, Types, TypeOK
    <3>2. CASE block' = <<>>
      BY <3>2, SourceAssumption
    <3> QED BY <1>1, <3>1, <3>2
  <2>2. calls' \in Nat /\ returned' \in 0 .. BlockSamples /\ pc' \in {"idle", "loop", "fetch"} /\ eof' \in {-1, 0}
    <3>1. Len(block) \in 0 .. BlockSamples
      BY DEF SourceInv, Types, TypeOK
    <3> QED BY <3>1, SourceAssumption, SMTT(20)
            DEF SourceInv, Types, TypeOK, ReadNothing, ReadCall, Fetch, EndOfSource, ReadDone, srcVars
  <2> QED BY <1>1, <2>1, <2>2 DEF SourceInv, Types, TypeOK, avVars
<1>4. EndOK'
  BY <1>1, SourceKept, SourceAssumption
  DEF SourceInv, EndOK, Types, TypeOK, ReadNothing, ReadCall, Fetch, EndOfSource, ReadDone, srcVars
<1> QED BY <1>2, <1>3, <1>4 DEF SourceInv

-----------------------------------------------------------------------------
(* The end of a source *)

\* All that the source can give has been copied when the source says that it has ended.
LEMMA EndInv == SourceInv /\ (RawEnd \/ FfmpegBroken \/ FfmpegEnd) => SourceInv'
<1> SUFFICES ASSUME SourceInv, RawEnd \/ FfmpegBroken \/ FfmpegEnd PROVE SourceInv'
  OBVIOUS
<1>1. /\ UNCHANGED <<source, stereo, audio, step, eof, pos, feof, avVars, block, calls, returned, total>>
      /\ pc = "fetch" /\ pc' = "loop" /\ audio_len' = -1 /\ audio_len = 0 /\ (Raw \/ Ffmpeg)
  BY DEF SourceInv, EndOK, RawEnd, FfmpegBroken, FfmpegEnd, fileVars
<1>2. BufferOK' /\ PlaceOK' /\ DecoderOK' /\ InOrder'
  BY <1>1, NothingRead, NothingCopied DEF Left
<1>3. Types'
  BY <1>1, SourceAssumption DEF SourceInv, Types, TypeOK, avVars
<1>4. total = pos /\ ~(Raw /\ source.repeat)
  <2>1. ~(Raw /\ source.repeat)
    BY DEF RawEnd, FfmpegBroken, FfmpegEnd, Raw, Ffmpeg
  <2> QED BY <1>1, <2>1 DEF SourceInv, PlaceOK, Left, Types, TypeOK
<1>5. total = Deliverable
  <2>1. CASE RawEnd
    BY <1>4, <2>1 DEF SourceInv, PlaceOK, RawEnd, Deliverable
  <2>2. CASE FfmpegBroken \/ FfmpegEnd
    <3>1. Ffmpeg /\ ~Raw /\ source \in Sources
      BY <2>2 DEF FfmpegBroken, FfmpegEnd, Raw, Ffmpeg, SourceInv, Types, TypeOK
    <3>2. PICK top \in Nat : top = Len(source.frames) - source.hold /\ top <= Len(source.frames)
      BY <3>1, SourceAssumption DEF Ffmpeg
    <3>3. /\ received \in 0..top /\ \A f \in 1 .. received : source.frames[f] # Broken
          /\ PacketsRead \in 0 .. Len(source.packets) /\ sent = Cardinality(Taken(PacketsRead))
          /\ KeptBack[received] = held /\ FrameSum[received] = pos + held
          /\ pos \in Nat /\ held \in Nat
      <4>1. pos \in Nat /\ held \in Nat /\ received \in Nat
        BY DEF SourceInv, Types, TypeOK
      <4>2. DecoderOK
        BY DEF SourceInv
      <4> QED BY <3>1, <3>2, <4>1, <4>2 DEF DecoderOK
    <3>4. received = top \/ source.frames[received + 1] = Broken
      <4>1. CASE FfmpegBroken
        BY <4>1 DEF FfmpegBroken
      <4>2. CASE FfmpegEnd
        <5>1. packets = <<>> /\ sent - source.hold <= received
          BY <3>1, <3>2, <3>3, <4>2, SourceAssumption
          DEF FfmpegEnd, FrameReady, SourceInv, Types, Ffmpeg
        <5>2. PacketsRead = Len(source.packets)
          BY <3>1, <5>1, SourceAssumption DEF PacketsRead, Ffmpeg
        <5>3. sent = Len(source.frames)
          BY <3>1, <3>3, <5>2, TakenGrows
        <5> QED BY <3>2, <3>3, <5>1, <5>3
      <4> QED BY <2>2, <4>1, <4>2
    <3>5. Decodable = received
      <4> DEFINE Last(m) == /\ \A f \in 1..m : source.frames[f] # Broken
                            /\ m = top \/ source.frames[m + 1] = Broken
      <4>1. Last(received)
        BY <3>3, <3>4
      <4>2. ASSUME NEW m \in 0..top, Last(m)
            PROVE  m = received
        <5>1. CASE m < received
          <6>1. m + 1 \in 1..received /\ m # top
            BY <3>3, <5>1
          <6> QED BY <3>3, <4>2, <6>1
        <5>2. CASE received < m
          <6>1. received + 1 \in 1..m /\ received # top
            BY <3>3, <5>2
          <6> QED BY <3>4, <4>2, <6>1
        <5> QED BY <3>3, <5>1, <5>2
      <4>3. Decodable = CHOOSE m \in 0..top : Last(m)
        BY <3>2 DEF Decodable
      <4> HIDE DEF Last
      <4> QED BY <3>3, <4>1, <4>2, <4>3
    <3> QED BY <1>4, <3>1, <3>3, <3>5 DEF Deliverable
  <2> QED BY <2>1, <2>2
<1>6. EndOK'
  BY <1>1, <1>4, <1>5, SourceKept, SourceAssumption DEF SourceInv, EndOK, Types, TypeOK, Raw, Ffmpeg
<1> QED BY <1>2, <1>3, <1>6 DEF SourceInv

-----------------------------------------------------------------------------
(* Copying *)

\* The samples left in the buffer are the next ones due, even after a rewind.
LEMMA NextPlaces ==
    ASSUME SourceInv, NEW e \in 1 .. audio_len
    PROVE  Place(total + e - 1) = (pos - audio_len) + e - 1
<1>1. PICK p \in Nat, q \in Nat : p = pos - audio_len /\ q = p + e - 1 /\ q < pos /\ Left = audio_len
  BY DEF SourceInv, Types, TypeOK, BufferOK, Left
<1>2. CASE ~(Raw /\ source.repeat)
  <2>1. total + e - 1 = q
    BY <1>1, <1>2 DEF SourceInv, PlaceOK, Types, TypeOK
  <2> QED BY <1>1, <1>2, <2>1 DEF Place
<1>3. CASE Raw /\ source.repeat
  <2>1. PICK L \in Nat \ {0} : L = source.length /\ q \in 0 .. L - 1
    <3>1. source.length \in Nat /\ pos <= source.length
      BY <1>3, SourceAssumption DEF SourceInv, PlaceOK, Types, TypeOK, Raw
    <3> QED BY <1>1, <3>1 DEF SourceInv, Types, TypeOK
  <2>2. PICK z \in Nat : total = L * z + p
    BY <1>1, <1>3, <2>1 DEF SourceInv, PlaceOK
  <2>3. total + e - 1 = L * z + q /\ total + e - 1 \in Int /\ z \in Int
    BY <1>1, <2>2, SMTT(30) DEF SourceInv, Types
  <2>4. (total + e - 1) % L = q
    BY <2>1, <2>3, DivModUnique, Zenon
  <2> QED BY <1>1, <1>3, <2>1, <2>4 DEF Place
<1> QED BY <1>2, <1>3

\* A pass of the loop copies what fits, from the next place on and from both tracks.
LEMMA CopyInv == SourceInv /\ Copy => SourceInv'
<1> SUFFICES ASSUME SourceInv, Copy PROVE SourceInv'
  OBVIOUS
<1>1. /\ UNCHANGED <<source, stereo, step, eof, pos, feof, avVars, pc, calls, returned>>
      /\ pc = "loop" /\ audio_len > 0 /\ Len(block) < BlockSamples
  BY DEF Copy, fileVars
<1>2. PICK m \in 1 .. audio_len :
         /\ Len(block) + m <= BlockSamples
         /\ block' = block \o Copied(m)
         /\ audio' = SubSeq(audio, m * step + 1, Len(audio))
         /\ audio_len' = audio_len - m
         /\ total' = total + m
  <2>1. Len(block) \in Nat /\ audio_len \in Nat /\ BlockSamples \in Nat
    BY <1>1, SourceAssumption DEF SourceInv, Types, TypeOK
  <2>2. Smaller(audio_len, BlockSamples - Len(block)) \in 1 .. audio_len
        /\ Len(block) + Smaller(audio_len, BlockSamples - Len(block)) <= BlockSamples
    BY <1>1, <2>1 DEF Smaller
  <2> QED BY <2>2 DEF Copy
<1>3. PICK p \in Nat : p = pos - audio_len /\ audio = Tracks(p, audio_len, step)
                       /\ step \in 1..2 /\ step = RightTrack + 1
  <2>1. step = RightTrack + 1 /\ audio = Tracks(pos - audio_len, audio_len, step) /\ audio_len <= pos
    BY <1>1 DEF SourceInv, BufferOK, Left
  <2>2. RightTrack \in 0..1
    BY DEF RightTrack
  <2> QED BY <1>1, <2>1, <2>2 DEF SourceInv, Types, TypeOK
<1>4. audio_len \in Nat /\ total \in Nat /\ audio_len <= BufferSamples /\ Len(block) \in Nat
  BY <1>1 DEF SourceInv, Types, TypeOK
<1>5. /\ audio \in Seq(Sample) /\ Len(audio) = audio_len * step
      /\ \A e \in 1 .. audio_len :
            /\ 1 + (e - 1) * step \in 1 .. Len(audio) /\ (e - 1) * step + step \in 1 .. Len(audio)
            /\ audio[1 + (e - 1) * step] = [at |-> p + e - 1, track |-> 0]
            /\ audio[(e - 1) * step + step] = [at |-> p + e - 1, track |-> step - 1]
  <2>1. Holds(Tracks(p, audio_len, step), p, audio_len, step)
    BY <1>3, <1>4, TracksContents, Zenon
  <2> QED BY <1>3, <2>1 DEF Holds
<1>6. PICK c : c = Copied(m) /\ c \in Seq(Pair) /\ Len(c) = m
  <2>1. ASSUME NEW e \in 1..m
        PROVE  LET l == audio[1 + (e - 1) * step]
                   r == audio[(e - 1) * step + step]
               IN  (IF stereo THEN <<l, r>> ELSE {l, r}) \in Pair
    <3>1. PICK l \in Sample, r \in Sample : l = audio[1 + (e - 1) * step] /\ r = audio[(e - 1) * step + step]
      <4>1. e \in 1 .. audio_len
        BY <1>4
      <4>2. /\ 1 + (e - 1) * step \in 1 .. Len(audio) /\ (e - 1) * step + step \in 1 .. Len(audio)
        BY <1>5, <4>1
      <4>3. audio[1 + (e - 1) * step] \in Sample /\ audio[(e - 1) * step + step] \in Sample
        BY <1>5, <4>2, ElementOfSeq
      <4> QED BY <4>3
    <3>2. <<l, r>> \in Pair /\ {l, r} \in Pair
      BY DEF Pair
    <3> QED BY <3>1, <3>2
  <2>2. Copied(m) \in [1..m -> Pair]
    BY <2>1 DEF Copied
  <2> QED BY <2>2
<1>7. block' \in Seq(Pair) /\ Len(block') = Len(block) + m
      /\ \A j \in 1 .. Len(block) + m :
            block'[j] = IF j <= Len(block) THEN block[j] ELSE c[j - Len(block)]
  <2>1. block \in Seq(Pair)
    BY DEF SourceInv, Types
  <2>2. PICK b \in Seq(Pair), d \in Seq(Pair) : b = block /\ d = c /\ Len(b) = Len(block) /\ Len(d) = m
    BY <1>6, <2>1
  <2>3. /\ b \o d \in Seq(Pair) /\ Len(b \o d) = Len(b) + Len(d)
        /\ \A j \in 1 .. Len(b) + Len(d) : (b \o d)[j] = IF j <= Len(b) THEN b[j] ELSE d[j - Len(b)]
    BY ConcatProperties
  <2>4. block' = b \o d
    BY <1>2, <1>6, <2>2
  <2> QED BY <2>2, <2>3, <2>4
<1>8. audio' = Tracks(p + m, audio_len - m, step)
  <2>1. m \in 0 .. audio_len
    BY <1>4
  <2>2. SubSeq(Tracks(p, audio_len, step), m * step + 1, Len(Tracks(p, audio_len, step)))
          = Tracks(p + m, audio_len - m, step)
    BY <1>3, <1>4, <2>1, TracksRest, ZenonT(40)
  <2>3. audio = Tracks(p, audio_len, step) /\ audio' = SubSeq(audio, m * step + 1, Len(audio))
    BY <1>2, <1>3
  <2> QED BY <2>2, <2>3, Zenon
<1>9. /\ audio' \in Seq(Sample) /\ Len(audio') = (audio_len - m) * step /\ p + m \in Nat /\ audio_len - m \in Nat
  <2>1. p + m \in Nat /\ audio_len - m \in Nat
    BY <1>4
  <2>2. Holds(Tracks(p + m, audio_len - m, step), p + m, audio_len - m, step)
    BY <1>3, <2>1, TracksContents, Zenon
  <2> QED BY <1>8, <2>1, <2>2 DEF Holds
<1>10. Types'
  <2>1. audio_len' \in -1 .. BufferSamples /\ audio_len' * step' <= Len(audio') /\ total' \in Nat
    <3>1. (audio_len - m) * step \in Int
      BY <1>3, <1>9
    <3> QED BY <1>1, <1>2, <1>4, <1>9, <3>1, SourceAssumption
  <2>2. /\ source' \in Sources /\ stereo' \in BOOLEAN
        /\ step' \in 0..2 /\ eof' \in {-1, 0}
        /\ pos' \in Nat /\ feof' \in BOOLEAN /\ pc' \in {"idle", "loop", "fetch"}
        /\ calls' \in Nat /\ returned' \in 0 .. BlockSamples
        /\ held' \in Nat /\ sent' \in Nat /\ received' \in Nat
    BY <1>1 DEF SourceInv, Types, TypeOK, avVars
  <2>3. Len(block') <= BlockSamples
    BY <1>2, <1>7
  <2> QED BY <1>7, <1>9, <2>1, <2>2, <2>3 DEF Types, TypeOK
<1>11. Left' = Left - m /\ Left = audio_len /\ audio_len' >= 0
  BY <1>1, <1>2, <1>4 DEF Left
<1>12. BufferOK'
  <2>1. pos' - audio_len' = p + m /\ audio_len' = audio_len - m /\ step' = step /\ pos' = pos
    BY <1>1, <1>2, <1>3, <1>4 DEF SourceInv, Types, TypeOK
  <2>2. Left' <= pos'
    BY <1>3, <1>4, <1>11, <2>1 DEF SourceInv, Types, TypeOK
  <2>3. audio' = Tracks(pos' - audio_len', audio_len', step')
    BY <1>8, <2>1
  <2> QED BY <1>1, <1>3, <2>1, <2>2, <2>3, SourceKept DEF BufferOK, Tracks
<1>13. PlaceOK'
  <2>1. pos - Left + m = pos' - Left' /\ pos - Left \in Int /\ pos' = pos /\ feof' = feof
    BY <1>1, <1>4, <1>11 DEF SourceInv, Types, TypeOK
  <2>2. CASE ~(Raw /\ source.repeat)
    BY <1>1, <1>2, <2>1, <2>2, SourceKept DEF SourceInv, PlaceOK
  <2>3. CASE Raw /\ source.repeat
    <3>1. PICK z \in Nat : total = source.length * z + (pos - Left)
      BY <2>3 DEF SourceInv, PlaceOK
    <3>2. source.length * z \in Int
      BY <2>3, SourceAssumption DEF SourceInv, Types, TypeOK, Raw
    <3>3. total' = source.length * z + (pos' - Left')
      BY <1>2, <1>4, <2>1, <3>1, <3>2, SMTT(20)
    <3> QED BY <1>1, <2>1, <2>3, <3>3, SourceKept DEF SourceInv, PlaceOK
  <2> QED BY <2>2, <2>3
<1>14. EndOK'
  <2>1. ~(audio_len < 0) /\ ~(audio_len' < 0) /\ audio_len # 0
    BY <1>1, <1>2, <1>4
  <2> QED BY <1>1, <2>1 DEF SourceInv, EndOK
<1>15. DecoderOK'
  BY <1>1, SourceKept DEF SourceInv, DecoderOK, PacketsRead, avVars
<1>16. InOrder'
  <2> SUFFICES ASSUME NEW j \in 1 .. Len(block')
               PROVE  block'[j] = Due(total' - Len(block') + j - 1)
    BY <1>1, SourceKept DEF InOrder
  <2>1. total' - Len(block') = total - Len(block)
    BY <1>2, <1>4, <1>7
  <2>2. CASE j <= Len(block)
    BY <1>4, <1>7, <2>1, <2>2 DEF SourceInv, InOrder
  <2>3. CASE j > Len(block)
    <3>1. PICK e \in 1..m : e = j - Len(block)
      <4>1. j - Len(block) \in 1..m
        <5>1. j \in 1 .. Len(block) + m /\ m \in Nat
          BY <1>4, <1>7
        <5> QED BY <1>4, <2>3, <5>1
      <4> QED BY <4>1
    <3>2. total' - Len(block') + j - 1 = total + e - 1
      BY <1>4, <2>1, <3>1
    <3>3. e \in 1 .. audio_len
      BY <1>4
    <3>4. Place(total + e - 1) = p + e - 1
      BY <1>3, <3>3, NextPlaces
    <3>5. audio[1 + (e - 1) * step] = [at |-> p + e - 1, track |-> 0]
          /\ audio[(e - 1) * step + step] = [at |-> p + e - 1, track |-> RightTrack]
      <4>1. step - 1 = RightTrack
        BY <1>3 DEF RightTrack
      <4> QED BY <1>5, <3>3, <4>1
    <3>6. c[e] = Due(total + e - 1)
      BY <1>6, <3>4, <3>5 DEF Copied, Due
    <3>7. block'[j] = c[e]
      BY <1>4, <1>7, <2>3, <3>1
    <3> QED BY <3>2, <3>6, <3>7
  <2> QED BY <1>4, <1>7, <2>2, <2>3
<1> QED BY <1>10, <1>12, <1>13, <1>14, <1>15, <1>16 DEF SourceInv

-----------------------------------------------------------------------------
(* Filling the buffer *)

\* A new buffer, full or not, holds the samples from where it was read on; the block waits.
LEMMA Refilled ==
    ASSUME SourceInv, pc = "fetch", pc' = "loop",
           NEW p \in Nat, NEW m \in 0 .. BufferSamples,
           step' = RightTrack + 1, audio' = Tracks(p, m, step'), audio_len' = m, pos' = p + m,
           UNCHANGED <<source, stereo, eof, block, calls, returned, total>>,
           feof' \in BOOLEAN, held' \in Nat, sent' \in Nat, received' \in Nat
    PROVE  Types' /\ BufferOK' /\ EndOK' /\ InOrder' /\ pos' - Left' = p
<1>1. PICK t \in 1..2 : t = step'
  BY DEF RightTrack
<1>2. m \in Nat /\ m <= BufferSamples /\ BufferSamples \in Nat
  BY SourceAssumption
<1>3. audio' \in Seq(Sample) /\ Len(audio') = m * t
  <2>1. Holds(Tracks(p, m, t), p, m, t)
    BY <1>2, TracksContents, Zenon
  <2> QED BY <1>1, <2>1 DEF Holds
<1>4. Types'
  <2>1. audio_len' \in -1 .. BufferSamples /\ audio_len' * step' <= Len(audio')
    <3>1. m * t \in Nat
      BY <1>1, <1>2
    <3> QED BY <1>1, <1>2, <1>3, <3>1
  <2> QED BY <1>1, <1>2, <1>3, <2>1 DEF SourceInv, Types, TypeOK
<1>5. Left' = m
  BY <1>2 DEF Left
<1>6. BufferOK'
  <2>1. m <= p + m /\ (p + m) - m = p
    BY <1>2
  <2>2. RightTrack' = RightTrack
    BY SourceKept
  <2>3. Tracks(pos' - audio_len', audio_len', step') = audio'
    BY <2>1
  <2> QED BY <1>5, <2>1, <2>2, <2>3 DEF BufferOK, Tracks
<1>7. EndOK'
  <2>1. ~(audio_len' < 0) /\ eof # -1
    BY <1>2 DEF SourceInv, EndOK
  <2> QED BY <2>1 DEF SourceInv, EndOK
<1>8. InOrder'
  BY NothingCopied
<1> QED BY <1>2, <1>4, <1>5, <1>6, <1>7, <1>8

\* A file is read on from where it was left, or from its start after its end.
LEMMA RawReadInv == SourceInv /\ RawRead => SourceInv'
<1> SUFFICES ASSUME SourceInv, RawRead PROVE SourceInv'
  OBVIOUS
<1>1. Raw /\ pc = "fetch" /\ pc' = "loop" /\ step' = source.tracks /\ (~feof \/ source.repeat)
      /\ UNCHANGED <<source, stereo, eof, avVars, block, calls, returned, total>>
  BY DEF RawRead
<1>2. /\ source.length \in Nat /\ source.tracks \in 1..2
      /\ source.repeat \in BOOLEAN /\ source.pipe \in BOOLEAN /\ source.fails \in BOOLEAN
      /\ audio_len = 0 /\ pos \in Nat /\ total \in Nat /\ BufferSamples \in Nat \ {0} /\ Left = 0
      /\ pos <= source.length /\ (feof => pos = source.length)
  BY <1>1, SourceAssumption DEF SourceInv, Types, TypeOK, EndOK, PlaceOK, Raw, Left
<1>3. PICK p \in 0 .. source.length :
         /\ p = IF feof /\ ~source.pipe THEN 0 ELSE pos
         /\ LET m == Smaller(BufferSamples, source.length - p)
            IN  audio' = Tracks(p, m, source.tracks) /\ audio_len' = m /\ pos' = p + m
                /\ feof' = (m < BufferSamples /\ ~source.fails)
  BY <1>2 DEF RawRead
<1>4. PICK m \in 0 .. BufferSamples :
         /\ m = Smaller(BufferSamples, source.length - p)
         /\ audio' = Tracks(p, m, source.tracks) /\ audio_len' = m /\ pos' = p + m
         /\ p + m <= source.length /\ (m < BufferSamples => p + m = source.length)
         /\ feof' = (m < BufferSamples /\ ~source.fails)
  <2>1. /\ Smaller(BufferSamples, source.length - p) \in 0 .. BufferSamples
        /\ p + Smaller(BufferSamples, source.length - p) <= source.length
        /\ Smaller(BufferSamples, source.length - p) < BufferSamples =>
              p + Smaller(BufferSamples, source.length - p) = source.length
    BY <1>2, <1>3 DEF Smaller
  <2> QED BY <1>3, <2>1
<1>5. feof' \in BOOLEAN /\ (feof' => m < BufferSamples)
  BY <1>4
<1>6. RightTrack + 1 = source.tracks
  BY <1>1, <1>2 DEF RightTrack, Raw, Ffmpeg
<1>7. Types' /\ BufferOK' /\ EndOK' /\ InOrder' /\ pos' - Left' = p
  <2>1. held' \in Nat /\ sent' \in Nat /\ received' \in Nat /\ p \in Nat
    BY <1>1, <1>2 DEF SourceInv, Types, avVars
  <2> QED BY <1>1, <1>4, <1>5, <1>6, <2>1, Refilled
<1>8. PlaceOK'
  <2>1. Raw' /\ pos' <= source.length /\ (feof' => pos' = source.length)
    BY <1>1, <1>4, <1>5, SourceKept
  <2>2. ASSUME ~source.repeat
        PROVE  total' = pos' - Left'
    <3>1. p = pos
      BY <1>1, <1>3, <2>2
    <3> QED BY <1>1, <1>2, <1>7, <2>2, <3>1 DEF SourceInv, PlaceOK
  <2>3. ASSUME source.repeat
        PROVE  \E z \in Nat : total = source.length * z + (pos' - Left')
    <3>1. PICK z \in Nat : total = source.length * z + pos
      <4>1. pos - Left = pos
        BY <1>2
      <4> QED BY <1>1, <2>3, <4>1 DEF SourceInv, PlaceOK
    <3>2. CASE p = pos
      BY <1>7, <3>1, <3>2
    <3>3. CASE p # pos
      <4>1. p = 0 /\ pos = source.length
        BY <1>2, <1>3, <3>3
      <4>2. source.length * z + source.length = source.length * (z + 1) + 0 /\ z + 1 \in Nat
        BY <1>2
      <4> QED BY <1>7, <3>1, <4>1, <4>2
    <3> QED BY <3>2, <3>3
  <2> QED BY <1>1, <2>1, <2>2, <2>3 DEF PlaceOK
<1>9. DecoderOK'
  BY <1>1 DEF DecoderOK, Raw, Ffmpeg
<1> QED BY <1>7, <1>8, <1>9 DEF SourceInv

\* A tone goes on.
LEMMA ToneReadInv == SourceInv /\ ToneRead => SourceInv'
<1> SUFFICES ASSUME SourceInv, ToneRead PROVE SourceInv'
  OBVIOUS
<1>1. /\ source.kind = "tone" /\ ~Raw /\ ~Ffmpeg /\ pc = "fetch" /\ pc' = "loop"
      /\ UNCHANGED <<source, stereo, eof, feof, avVars, block, calls, returned, total>>
      /\ audio' = Tracks(pos, BufferSamples, 1) /\ audio_len' = BufferSamples /\ step' = 1
      /\ pos' = pos + BufferSamples
  BY DEF ToneRead, Raw, Ffmpeg
<1>2. BufferSamples \in 0 .. BufferSamples /\ RightTrack + 1 = 1 /\ pos \in Nat
  BY <1>1, SourceAssumption DEF RightTrack, SourceInv, Types, TypeOK
<1>3. Types' /\ BufferOK' /\ EndOK' /\ InOrder' /\ pos' - Left' = pos
  <2>1. held' \in Nat /\ sent' \in Nat /\ received' \in Nat /\ feof' \in BOOLEAN
    BY <1>1 DEF SourceInv, Types, TypeOK, avVars
  <2> QED BY <1>1, <1>2, <2>1, Refilled
<1>4. PlaceOK'
  <2>1. total = pos
    BY <1>1, <1>2 DEF SourceInv, PlaceOK, EndOK, Left
  <2> QED BY <1>1, <1>3, <2>1, SourceKept DEF PlaceOK
<1>5. DecoderOK'
  BY <1>1 DEF DecoderOK, Ffmpeg
<1> QED BY <1>3, <1>4, <1>5 DEF SourceInv

\* Only the decoder sees a packet.
LEMMA FfmpegPacketInv == SourceInv /\ FfmpegPacket => SourceInv'
<1> SUFFICES ASSUME SourceInv, FfmpegPacket PROVE SourceInv'
  OBVIOUS
<1>1. /\ Ffmpeg /\ packets # <<>> /\ pc = "fetch" /\ packets' = Tail(packets)
      /\ sent' = IF Head(packets) = "audio" THEN sent + 1 ELSE sent
      /\ UNCHANGED <<source, stereo, audio, step, audio_len, eof, pos, feof, received, held,
                     pc, block, calls, returned, total>>
  BY DEF FfmpegPacket, srcVars, fileVars
<1>2. InOrder'
  BY <1>1, NothingCopied
<1>3. Types'
  <2>1. sent' \in Nat
    BY <1>1 DEF SourceInv, Types
  <2> QED BY <1>1, <2>1 DEF SourceInv, Types, TypeOK
<1>4. BufferOK' /\ PlaceOK' /\ EndOK'
  BY <1>1, SourceKept DEF SourceInv, BufferOK, PlaceOK, EndOK, Left, Tracks
<1>5. DecoderOK'
  <2>1. /\ source \in Sources /\ source.packets \in Seq({"audio", "refused", "other"})
        /\ Len(source.packets) \in Nat
    BY <1>1, SourceAssumption DEF SourceInv, Types, TypeOK, Ffmpeg
  <2>2. PICK m \in 0 .. Len(source.packets) :
           /\ m = PacketsRead /\ packets = SubSeq(source.packets, m + 1, Len(source.packets))
           /\ sent = Cardinality(Taken(m))
    BY <1>1 DEF SourceInv, DecoderOK
  <2>3. m < Len(source.packets)
    BY <1>1, <2>1, <2>2
  <2>4. m + 1 \in 1 .. Len(source.packets) /\ Len(source.packets) \in m + 1 .. Len(source.packets)
    BY <2>1, <2>3
  <2>5. /\ Head(packets) = source.packets[m + 1]
        /\ packets' = SubSeq(source.packets, (m + 1) + 1, Len(source.packets))
    BY <1>1, <2>1, <2>2, <2>4, HeadTailOfSubSeq
  <2>6. Len(packets') = Len(source.packets) - (m + 1)
    BY <2>1, <2>4, <2>5
  <2>7. PacketsRead' = m + 1
    BY <1>1, <2>1, <2>4, <2>6, SMTT(30) DEF PacketsRead
  <2>8. sent' = Cardinality(Taken(m + 1))
    BY <1>1, <2>1, <2>2, <2>3, <2>5, TakenGrows
  <2>9. sent' = Cardinality(Taken(PacketsRead)')
    BY <1>1, <2>7, <2>8 DEF Taken
  <2>10. packets' = SubSeq(source'.packets, PacketsRead' + 1, Len(source'.packets))
         /\ PacketsRead' \in 0 .. Len(source'.packets)
    <3>1. PICK r \in 0 .. Len(source.packets) : r = m + 1
      BY <2>1, <2>4
    <3>2. PacketsRead' = r /\ packets' = SubSeq(source.packets, r + 1, Len(source.packets))
      BY <2>5, <2>7, <3>1, Zenon
    <3> QED BY <1>1, <3>2, Zenon
  <2>11. /\ received' <= Len(source'.frames) - source'.hold
         /\ \A f \in 1 .. received' : source'.frames[f] # Broken
         /\ held' = KeptBack[received]' /\ FrameSum[received]' = pos' + held'
    BY <1>1, SourceKept DEF SourceInv, DecoderOK
  <2> QED BY <2>9, <2>10, <2>11 DEF DecoderOK
<1> QED BY <1>2, <1>3, <1>4, <1>5 DEF SourceInv

\* A frame follows the one before, behind what the resampler kept back of it.
LEMMA FfmpegFrameInv == SourceInv /\ FfmpegFrame => SourceInv'
<1> SUFFICES ASSUME SourceInv, FfmpegFrame PROVE SourceInv'
  OBVIOUS
<1>1. /\ Ffmpeg /\ ~Raw /\ pc = "fetch" /\ pc' = "loop" /\ FrameReady /\ step' = 2
      /\ source.frames[received + 1] # Broken /\ received' = received + 1
      /\ UNCHANGED <<source, stereo, eof, feof, packets, sent, block, calls, returned, total>>
      /\ audio' = Tracks(pos, audio_len', 2) /\ pos' = pos + audio_len'
  BY DEF FfmpegFrame, Raw, Ffmpeg
<1>2. /\ source \in Sources /\ source.frames \in Seq(Nat \cup {Broken}) /\ source.hold \in Nat
      /\ Len(source.packets) \in Nat /\ Len(source.frames) \in Nat
  BY <1>1, SourceAssumption, SMTT(30) DEF SourceInv, Types, TypeOK, Ffmpeg
<1>3. /\ received \in Nat /\ held \in Nat /\ pos \in Nat /\ total \in Nat /\ audio_len = 0 /\ Left = 0
      /\ BufferSamples \in Nat \ {0} /\ sent \in Nat /\ feof \in BOOLEAN
  BY <1>1, SourceAssumption DEF SourceInv, Types, TypeOK, EndOK, Left
<1>4. received' <= Len(source.frames) - source.hold /\ received' \in 1 .. Len(source.frames)
  <2>1. sent <= Len(source.frames)
    BY <1>1, <1>2, TakenGrows DEF SourceInv, DecoderOK
  <2> QED BY <1>1, <1>2, <1>3, <2>1 DEF FrameReady
<1>5. PICK s \in Nat : s = source.frames[received']
  <2>1. source.frames[received'] \in Nat \cup {Broken}
    BY <1>2, <1>4, ElementOfSeq
  <2> QED BY <1>1, <2>1
<1>6. PICK m \in 0 .. BufferSamples :
         /\ m = Smaller(BufferSamples, held + s)
         /\ audio_len' = m /\ held' = (held + s) - m
  <2>1. Smaller(BufferSamples, held + s) \in 0 .. BufferSamples
    BY <1>3 DEF Smaller
  <2>2. /\ audio_len' = Smaller(BufferSamples, held + source.frames[received'])
        /\ held' = (held + source.frames[received']) - audio_len'
    BY Zenon DEF FfmpegFrame
  <2> QED BY <1>5, <2>1, <2>2
<1>7. held' \in Nat /\ held' = IF held + s > BufferSamples THEN (held + s) - BufferSamples ELSE 0
  BY <1>3, <1>6 DEF Smaller
<1>8. Types' /\ BufferOK' /\ EndOK' /\ InOrder' /\ pos' - Left' = pos
  <2>1. RightTrack + 1 = 2
    BY <1>1 DEF RightTrack
  <2>2. received' \in Nat /\ sent' \in Nat /\ feof' \in BOOLEAN
    BY <1>1, <1>3
  <2> QED BY <1>1, <1>3, <1>6, <1>7, <2>1, <2>2, Refilled
<1>9. PlaceOK'
  <2>1. total = pos
    BY <1>1, <1>3 DEF SourceInv, PlaceOK
  <2> QED BY <1>1, <1>8, <2>1, SourceKept DEF PlaceOK
<1>10. DecoderOK'
  <2>1. received' - 1 = received
    BY <1>1, <1>3
  <2>2. KeptBack[received'] = held'
    <3>1. KeptBack[received'] = LET due == KeptBack[received' - 1] + source.frames[received']
                                IN  IF due > BufferSamples THEN due - BufferSamples ELSE 0
      BY <1>1, <1>2, <1>4, KeptBacks, Zenon
    <3>2. KeptBack[received' - 1] = held
      BY <1>1, <2>1 DEF SourceInv, DecoderOK
    <3> QED BY <1>5, <1>7, <3>1, <3>2, Zenon
  <2>3. FrameSum[received'] = pos' + held'
    <3>1. FrameSum[received'] = (pos + held) + s
      BY <1>1, <1>2, <1>4, <1>5, <2>1, FrameSums DEF SourceInv, DecoderOK
    <3> QED BY <1>1, <1>3, <1>6, <3>1
  <2>4. \A f \in 1 .. received' : source.frames[f] # Broken
    <3>1. \A f \in 1 .. received' : f \in 1 .. received \/ f = received + 1
      BY <1>1, <1>3
    <3>2. \A f \in 1 .. received : source.frames[f] # Broken
      BY <1>1 DEF SourceInv, DecoderOK
    <3> QED BY <1>1, <3>1, <3>2, Zenon
  <2>5. (KeptBack[received])' = KeptBack[received'] /\ (FrameSum[received])' = FrameSum[received']
    BY <1>1, SourceKept
  <2>6. PacketsRead' = PacketsRead
    BY <1>1 DEF PacketsRead
  <2>7. /\ packets' = SubSeq(source'.packets, PacketsRead' + 1, Len(source'.packets))
        /\ PacketsRead' \in 0 .. Len(source'.packets)
        /\ sent' = Cardinality(Taken(PacketsRead)')
    BY <1>1, <2>6, SourceKept DEF SourceInv, DecoderOK, Taken
  <2> QED BY <1>1, <1>4, <2>2, <2>3, <2>4, <2>5, <2>7 DEF DecoderOK
<1> QED BY <1>8, <1>9, <1>10 DEF SourceInv

-----------------------------------------------------------------------------
(* Every behaviour *)

\* Nothing has been read.
LEMMA InitInv == Init => SourceInv
<1> SUFFICES ASSUME Init PROVE SourceInv
  OBVIOUS
<1>1. BlockSamples \in Nat \ {0} /\ BufferSamples \in Nat \ {0}
  BY SourceAssumption
<1>2. Types
  <2>1. /\ audio = <<>> /\ block = <<>> /\ step = 0 /\ audio_len = 0 /\ eof = 0 /\ pos = 0
        /\ feof = FALSE /\ pc = "idle" /\ calls = 0 /\ total = 0 /\ returned = BlockSamples
        /\ held = 0 /\ sent = 0 /\ received = 0 /\ source \in Sources /\ stereo \in BOOLEAN
    BY DEF Init
  <2>2. audio \in Seq(Sample) /\ block \in Seq(Pair) /\ Len(audio) = 0 /\ Len(block) = 0
    BY <2>1
  <2>3. /\ returned \in 0 .. BlockSamples /\ audio_len \in -1 .. BufferSamples
        /\ audio_len * step <= Len(audio) /\ Len(block) <= BlockSamples
    BY <1>1, <2>1, <2>2
  <2>4. feof \in BOOLEAN
    BY <2>1, Zenon
  <2>5. step \in 0..2 /\ eof \in {-1, 0} /\ pos \in Nat /\ pc \in {"idle", "loop", "fetch"}
    BY <2>1
  <2>6. TypeOK
    BY <2>1, <2>3, <2>4, <2>5, Zenon DEF TypeOK
  <2>7. calls \in Nat /\ total \in Nat /\ held \in Nat /\ sent \in Nat /\ received \in Nat
    BY <2>1
  <2> QED BY <2>2, <2>3, <2>6, <2>7, Zenon DEF Types
<1>3. BufferOK /\ EndOK /\ InOrder
  BY <1>1 DEF Init, BufferOK, EndOK, InOrder, Left
<1>4. PlaceOK
  <2>1. Raw => source.length \in Nat
    BY SourceAssumption DEF Init, Raw
  <2> QED BY <2>1 DEF Init, PlaceOK, Left
<1>5. DecoderOK
  <2> SUFFICES ASSUME Ffmpeg PROVE DecoderOK
    BY DEF DecoderOK
  <2>1. /\ source \in Sources /\ packets = source.packets
        /\ source.packets \in Seq({"audio", "refused", "other"}) /\ source.hold \in 0 .. Len(source.frames)
        /\ source.frames \in Seq(Nat \cup {Broken})
    BY SourceAssumption DEF Init, Ffmpeg
  <2>2. PacketsRead = 0 /\ Len(source.packets) \in Nat
    BY <2>1 DEF PacketsRead
  <2>3. packets = SubSeq(source.packets, 1, Len(source.packets))
    BY <2>1, SubSeqFull
  <2>4. Taken(0) = {}
    BY DEF Taken
  <2>5. sent = Cardinality(Taken(0))
    BY <2>4, FS_EmptySet DEF Init
  <2> QED BY <2>1, <2>2, <2>3, <2>5, FrameSums, KeptBacks DEF Init, DecoderOK
<1> QED BY <1>2, <1>3, <1>4, <1>5 DEF SourceInv

\* Between the file or the decoder and the block every sample has one place: read and still
\* in the buffer, or copied; what the resampler keeps back is read later (src.c:39-61,
\* src_rawaudio.c:42-60, src_ffmpeg.c:60-100).
THEOREM SourceInvHolds == Spec => []SourceInv
<1>1. SourceInv /\ [Next]_vars => SourceInv'
  <2> SUFFICES ASSUME SourceInv, [Next]_vars PROVE SourceInv'
    OBVIOUS
  <2>1. CASE ReadNothing \/ ReadCall \/ Fetch \/ EndOfSource \/ ReadDone
    BY <2>1, CallInv
  <2>2. CASE RawEnd \/ FfmpegBroken \/ FfmpegEnd
    BY <2>2, EndInv
  <2>3. CASE Copy
    BY <2>3, CopyInv
  <2>4. CASE RawRead
    BY <2>4, RawReadInv
  <2>5. CASE ToneRead
    BY <2>5, ToneReadInv
  <2>6. CASE FfmpegPacket
    BY <2>6, FfmpegPacketInv
  <2>7. CASE FfmpegFrame
    BY <2>7, FfmpegFrameInv
  <2>8. CASE UNCHANGED vars
    <3>1. UNCHANGED <<source, stereo, audio, step, audio_len, eof, pos, feof, avVars, pc, block,
                      calls, returned, total>>
      BY <2>8 DEF vars, srcVars, fileVars
    <3>2. BufferOK' /\ PlaceOK' /\ DecoderOK' /\ InOrder'
      BY <3>1, NothingRead, NothingCopied DEF Left
    <3>3. Types' /\ EndOK'
      BY <3>1, SourceKept DEF SourceInv, Types, TypeOK, EndOK, avVars
    <3> QED BY <3>2, <3>3 DEF SourceInv
  <2> QED BY <2>1, <2>2, <2>3, <2>4, <2>5, <2>6, <2>7, <2>8 DEF Next, Reading, Finished
<1> QED BY InitInv, <1>1, PTL DEF Spec

\* The buffer always holds the samples the two pointers are to find, and never more than
\* there is room for (src.c:56-61, 99-106, src_ffmpeg.c:92-98).
THEOREM BufferTyped == Spec => []TypeOK
<1>1. SourceInv => TypeOK
  BY DEF SourceInv, Types
<1> QED BY SourceInvHolds, <1>1, PTL

\* No sample is lost, repeated or swapped where a call ends inside a buffer, a buffer inside
\* a call, or where a repeated file starts again (src.c:39-61).
THEOREM InOrderHolds == Spec => []InOrder
<1>1. SourceInv => InOrder
  BY DEF SourceInv
<1> QED BY SourceInvHolds, <1>1, PTL

\* A call comes back short only at the end of the source, after everything it can give has
\* been copied (src.c:46-50, src_rawaudio.c:45-50, src_ffmpeg.c:86-100).
THEOREM EndIsCompleteHolds == Spec => []EndIsComplete
<1>1. SourceInv => EndIsComplete
  BY DEF SourceInv, EndOK, EndIsComplete
<1> QED BY SourceInvHolds, <1>1, PTL
=============================================================================
