---------------------------- MODULE AudioSource -----------------------------
(***************************************************************************)
(* One audio source of dsrtx, read 64 samples at a time by the main loop:  *)
(* src_read_mono() and src_read_stereo() (src/src.c) over the three        *)
(* sources behind src_t.read:                                              *)
(*                                                                         *)
(*   "raw"    a file or a pipe read with fread (src/src_rawaudio.c)        *)
(*   "tone"   a sine of unlimited length (src/src_tone.c)                  *)
(*   "ffmpeg" packets, a decoder and a resampler (src/src_ffmpeg.c)        *)
(*   "none"   a channel whose source failed to open (s == NULL)            *)
(*                                                                         *)
(* A sample is named by its position in the source and its track.          *)
(***************************************************************************)
EXTENDS Integers, Sequences, FiniteSets

CONSTANTS
    Sources,        \* the sources a channel may have, see below
    BlockSamples,   \* samples per call (64)
    BufferSamples,  \* audio_len of the source's own buffer
    MaxCalls        \* bound: calls of src_read_*

(***************************************************************************)
(* A source is a record.  "raw": length (samples per track up to the end), *)
(* tracks (1 or 2), repeat, pipe, fails (after length samples every read   *)
(* fails, which is not the end of the file).  "ffmpeg": packets ("audio",  *)
(* "refused": of the audio stream, but refused by the decoder, or "other"),*)
(* frames (for each packet the decoder accepts the samples the resampler   *)
(* makes of it, or Broken), hold (frames the decoder keeps back until it   *)
(* is given more packets).                                                 *)
(***************************************************************************)
Broken == -1   \* avcodec_receive_frame reports an error other than EAGAIN
AudioIn(p) == {j \in DOMAIN p : p[j] = "audio"}

ASSUME SourceAssumption ==
    /\ BlockSamples \in Nat \ {0} /\ BufferSamples \in Nat \ {0}
    /\ MaxCalls \in Nat
    /\ \A s \in Sources :
           /\ s.kind \in {"raw", "tone", "ffmpeg", "none"}
           /\ s.kind = "raw" => /\ s.length \in Nat /\ s.tracks \in 1..2
                                /\ s.repeat \in BOOLEAN /\ s.pipe \in BOOLEAN /\ s.fails \in BOOLEAN
           /\ s.kind = "ffmpeg" => /\ s.packets \in Seq({"audio", "refused", "other"})
                                   /\ s.frames \in Seq(Nat \cup {Broken})
                                   /\ Cardinality(AudioIn(s.packets)) = Len(s.frames)
                                   /\ s.hold \in 0 .. Len(s.frames)

VARIABLES
    source,     \* the source of the channel
    stereo,     \* read with src_read_stereo (else src_read_mono)
    \* src_t
    audio,      \* the buffer, a sequence of samples; audio[0] points at its head
    step,       \* audio_step
    audio_len, eof,
    pos,        \* samples read from the file, the tone or the resampler: the next one's place
    feof,       \* of src_rawaudio_t's FILE
    \* libavformat and libavcodec
    packets,    \* packets not yet read
    sent,       \* audio packets given to the decoder
    received,   \* frames taken from the decoder
    held,       \* samples the resampler could not return for want of room
    \* the caller
    pc,         \* "idle", "loop" (in the for loop) or "fetch" (inside s->read)
    block,      \* samples copied by this call; the rest of the block is silence
    calls,
    returned,   \* result of the latest call
    \* history
    total       \* samples copied by all calls

srcVars  == <<audio, step, audio_len, eof>>
fileVars == <<pos, feof>>
avVars   == <<packets, sent, received, held>>
vars == <<source, stereo, srcVars, fileVars, avVars, pc, block, calls, returned, total>>

Smaller(x, y) == IF x < y THEN x ELSE y
Raw    == source.kind = "raw"
Ffmpeg == source.kind = "ffmpeg"

\* Interleaved samples of positions p .. p + m - 1.
Tracks(p, m, tracks) ==
    [j \in 1 .. m * tracks |-> [at |-> p + (j - 1) \div tracks, track |-> (j - 1) % tracks]]

Init ==
    /\ source \in Sources
    /\ stereo \in BOOLEAN
    /\ audio = <<>> /\ step = 0 /\ audio_len = 0 /\ eof = 0
    /\ pos = 0 /\ feof = FALSE
    /\ packets = IF Ffmpeg THEN source.packets ELSE <<>>
    /\ sent = 0 /\ received = 0 /\ held = 0
    /\ pc = "idle" /\ block = <<>> /\ calls = 0 /\ returned = BlockSamples /\ total = 0

-----------------------------------------------------------------------------
(* src_read_mono(), src_read_stereo() *)

\* No source, or the source has ended: the call returns 0 at once.
ReadNothing ==
    /\ pc = "idle" /\ calls < MaxCalls
    /\ source.kind = "none" \/ audio_len < 0
    /\ calls' = calls + 1 /\ block' = <<>> /\ returned' = 0
    /\ UNCHANGED <<source, stereo, srcVars, fileVars, avVars, pc, total>>

ReadCall ==
    /\ pc = "idle" /\ calls < MaxCalls
    /\ source.kind # "none" /\ audio_len >= 0
    /\ calls' = calls + 1 /\ block' = <<>> /\ pc' = "loop"
    /\ UNCHANGED <<source, stereo, srcVars, fileVars, avVars, returned, total>>

\* if(s->audio_len == 0): fetch a new buffer.
Fetch ==
    /\ pc = "loop" /\ Len(block) < BlockSamples /\ audio_len = 0
    /\ pc' = "fetch"
    /\ UNCHANGED <<source, stereo, srcVars, fileVars, avVars, block, calls, returned, total>>

\* if(s->audio_len < 0): EOF, the call ends short.
EndOfSource ==
    /\ pc = "loop" /\ Len(block) < BlockSamples /\ audio_len < 0
    /\ eof' = -1
    /\ returned' = Len(block) /\ pc' = "idle"
    /\ UNCHANGED <<source, stereo, audio, step, audio_len, fileVars, avVars, block, calls, total>>

\* What one pass of the copying loop appends: m samples from both pointers.
Copied(m) ==
    [j \in 1..m |-> LET l == audio[1 + (j - 1) * step]
                        r == audio[(j - 1) * step + step]
                    IN  IF stereo THEN <<l, r>> ELSE {l, r}]

\* for(; s->audio_len > 0 && i < samples; i++)
Copy ==
    /\ pc = "loop" /\ Len(block) < BlockSamples /\ audio_len > 0
    /\ LET m == Smaller(audio_len, BlockSamples - Len(block))
       IN  /\ block' = block \o Copied(m)
           /\ audio' = SubSeq(audio, m * step + 1, Len(audio))
           /\ audio_len' = audio_len - m
           /\ total' = total + m
    /\ UNCHANGED <<source, stereo, step, eof, fileVars, avVars, pc, calls, returned>>

ReadDone ==
    /\ pc = "loop" /\ Len(block) = BlockSamples
    /\ returned' = Len(block) /\ pc' = "idle"
    /\ UNCHANGED <<source, stereo, srcVars, fileVars, avVars, block, calls, total>>

-----------------------------------------------------------------------------
(* _src_rawaudio_read() *)

\* Mutant of RawEnd: the end is taken for another empty buffer.
RawEndMissed ==
    /\ pc = "fetch" /\ Raw /\ feof /\ ~source.repeat
    /\ audio_len' = 0 /\ pc' = "loop"
    /\ UNCHANGED <<source, stereo, audio, step, eof, fileVars, avVars, block, calls, returned, total>>

\* feof and no repeat: -1.
RawEnd ==
    /\ pc = "fetch" /\ Raw /\ feof /\ ~source.repeat
    /\ audio_len' = -1 /\ pc' = "loop"
    /\ UNCHANGED <<source, stereo, audio, step, eof, fileVars, avVars, block, calls, returned, total>>

\* Mutant of RawRead: the last, short buffer counts as the end.
RawReadShortIsEnd ==
    /\ pc = "fetch" /\ Raw
    /\ ~feof
    /\ LET m == Smaller(BufferSamples, source.length - pos)
       IN  /\ audio' = Tracks(pos, m, source.tracks)
           /\ audio_len' = IF m < BufferSamples /\ ~source.repeat THEN -1 ELSE m
           /\ pos' = pos + m /\ feof' = (m < BufferSamples /\ ~source.fails)
    /\ step' = source.tracks /\ pc' = "loop"
    /\ UNCHANGED <<source, stereo, eof, avVars, block, calls, returned, total>>

\* Mutant of RawRead: what fread returned is not looked at.
RawReadIgnoresCount ==
    /\ pc = "fetch" /\ Raw
    /\ ~feof \/ source.repeat
    /\ LET from == IF feof /\ ~source.pipe THEN 0 ELSE pos
           m    == Smaller(BufferSamples, source.length - from)
       IN  /\ audio' = Tracks(from, m, source.tracks)
           /\ audio_len' = BufferSamples
           /\ pos' = from + m /\ feof' = (m < BufferSamples /\ ~source.fails)
    /\ step' = source.tracks /\ pc' = "loop"
    /\ UNCHANGED <<source, stereo, eof, avVars, block, calls, returned, total>>

\* fread, after a rewind if the end was reached before.  fseek fails on a pipe and
\* leaves its end-of-file flag set, and fread then reads nothing; a read that fails
\* does not set it.
RawRead ==
    /\ pc = "fetch" /\ Raw
    /\ ~feof \/ source.repeat
    /\ LET from == IF feof /\ ~source.pipe THEN 0 ELSE pos
           m    == Smaller(BufferSamples, source.length - from)
       IN  /\ audio' = Tracks(from, m, source.tracks)
           /\ audio_len' = m
           /\ pos' = from + m
           /\ feof' = (m < BufferSamples /\ ~source.fails)
    /\ step' = source.tracks /\ pc' = "loop"
    /\ UNCHANGED <<source, stereo, eof, avVars, block, calls, returned, total>>

\* _src_tone_read(): a whole buffer, one track for both pointers.
ToneRead ==
    /\ pc = "fetch" /\ source.kind = "tone"
    /\ audio' = Tracks(pos, BufferSamples, 1)
    /\ audio_len' = BufferSamples /\ step' = 1
    /\ pos' = pos + BufferSamples /\ pc' = "loop"
    /\ UNCHANGED <<source, stereo, eof, feof, avVars, block, calls, returned, total>>

-----------------------------------------------------------------------------
(* _src_ffmpeg_read() *)

\* avcodec_receive_frame has a frame; otherwise it says EAGAIN.
FrameReady == sent - source.hold > received

\* EAGAIN: read the next packet and give it to the decoder if it is audio; what
\* avcodec_send_packet returns is not looked at.
FfmpegPacket ==
    /\ pc = "fetch" /\ Ffmpeg /\ ~FrameReady /\ packets # <<>>
    /\ sent' = IF Head(packets) = "audio" THEN sent + 1 ELSE sent
    /\ packets' = Tail(packets)
    /\ UNCHANGED <<source, stereo, srcVars, fileVars, received, held, pc, block, calls, returned, total>>

\* Mutant of FfmpegFrame: what does not fit is thrown away.
FfmpegFrameDropsRest ==
    /\ pc = "fetch" /\ Ffmpeg /\ FrameReady /\ source.frames[received + 1] # Broken
    /\ received' = received + 1 /\ held' = 0
    /\ audio_len' = Smaller(BufferSamples, source.frames[received'])
    /\ audio' = Tracks(pos, audio_len', 2) /\ pos' = pos + source.frames[received']
    /\ step' = 2 /\ pc' = "loop"
    /\ UNCHANGED <<source, stereo, eof, feof, packets, sent, block, calls, returned, total>>

\* A frame: resample it.  The resampler may return no sample at all; it keeps what does
\* not fit into the buffer for the next frame.
FfmpegFrame ==
    /\ pc = "fetch" /\ Ffmpeg /\ FrameReady /\ source.frames[received + 1] # Broken
    /\ received' = received + 1
    /\ LET due == held + source.frames[received']
       IN  audio_len' = Smaller(BufferSamples, due) /\ held' = due - audio_len'
    /\ audio' = Tracks(pos, audio_len', 2) /\ pos' = pos + audio_len'
    /\ step' = 2 /\ pc' = "loop"
    /\ UNCHANGED <<source, stereo, eof, feof, packets, sent, block, calls, returned, total>>

\* An error that is not EAGAIN, or one of the resampler (swr_convert): a negative number,
\* whatever is still to come.
FfmpegBroken ==
    /\ pc = "fetch" /\ Ffmpeg /\ FrameReady /\ source.frames[received + 1] = Broken
    /\ audio_len' = -1 /\ pc' = "loop"
    /\ UNCHANGED <<source, stereo, audio, step, eof, fileVars, avVars, block, calls, returned, total>>

\* EAGAIN and no packet left: -1.  The decoder is not drained.
FfmpegEnd ==
    /\ pc = "fetch" /\ Ffmpeg /\ ~FrameReady /\ packets = <<>>
    /\ audio_len' = -1 /\ pc' = "loop"
    /\ UNCHANGED <<source, stereo, audio, step, eof, fileVars, avVars, block, calls, returned, total>>

-----------------------------------------------------------------------------
Finished == pc = "idle" /\ calls = MaxCalls /\ UNCHANGED vars

Reading == \/ Fetch \/ EndOfSource \/ Copy \/ ReadDone \/ RawEnd \/ RawRead \/ ToneRead
           \/ FfmpegPacket \/ FfmpegFrame \/ FfmpegBroken \/ FfmpegEnd

Next == ReadNothing \/ ReadCall \/ Reading \/ Finished

\* The thread inside a call keeps running; nothing owes another call.
Spec == Init /\ [][Next]_vars /\ WF_vars(Reading)

-----------------------------------------------------------------------------
(* Properties *)

\* The state is of the declared types, and the buffer holds the audio_len samples of
\* each track that src_read_* takes through its two pointers, no more than the buffer's
\* memory has room for (src.c:56-61, 99-106, src_ffmpeg.c:92-98).
TypeOK ==
    /\ source \in Sources /\ stereo \in BOOLEAN
    /\ step \in 0..2 /\ eof \in {-1, 0}
    /\ audio_len \in -1 .. BufferSamples /\ audio_len * step <= Len(audio)
    /\ pos \in Nat /\ feof \in BOOLEAN
    /\ pc \in {"idle", "loop", "fetch"} /\ Len(block) <= BlockSamples

\* Samples of the first f decoded frames, and those of them that the resampler keeps back.
FrameSum[f \in 0 .. Len(source.frames)] ==
    IF f = 0 THEN 0 ELSE FrameSum[f - 1] + source.frames[f]
KeptBack[f \in 0 .. Len(source.frames)] ==
    IF f = 0 THEN 0
    ELSE LET due == KeptBack[f - 1] + source.frames[f]
         IN  IF due > BufferSamples THEN due - BufferSamples ELSE 0

\* Frames before the first the decoder breaks at or keeps back.
Decodable == CHOOSE n \in 0 .. Len(source.frames) - source.hold :
                 /\ \A f \in 1..n : source.frames[f] # Broken
                 /\ n = Len(source.frames) - source.hold \/ source.frames[n + 1] = Broken

\* The samples a source can give before it ends: neither the decoder nor the resampler is
\* drained, and the first error of the decoder is the end.
Deliverable ==
    IF Raw THEN source.length ELSE FrameSum[Decodable] - KeptBack[Decodable]

\* The position the q-th sample comes from, and the track of the right pointer.
Place(q) == IF Raw /\ source.repeat THEN q % source.length ELSE q
RightTrack == IF Ffmpeg \/ (Raw /\ source.tracks = 2) THEN 1 ELSE 0
Due(q) == LET l == [at |-> Place(q), track |-> 0]
              r == [at |-> Place(q), track |-> RightTrack]
          IN  IF stereo THEN <<l, r>> ELSE {l, r}

\* Block after block the samples follow one another, left with left and right with
\* right: none is lost, repeated or swapped where a call ends inside a buffer, where a
\* buffer ends inside a call, or where a repeated file starts again (src.c:39-61).
InOrder ==
    \A j \in 1 .. Len(block) : block[j] = Due(total - Len(block) + j - 1)

\* A call comes back short only at the end of the source, everything the source can
\* give has been copied by then, and a source that is repeated never ends
\* (src.c:46-50, src_rawaudio.c:45-50, src_ffmpeg.c:86-100).
EndIsComplete ==
    /\ returned < BlockSamples => eof = -1 \/ source.kind = "none"
    /\ eof = -1 => total = Deliverable /\ ~(Raw /\ source.repeat)

\* Reads that give nothing for ever, without an end: a pipe that is to be repeated, an
\* empty file that is, and a file that cannot be read on.
Stuck ==
    Raw /\ pos = source.length /\ (source.fails \/ (source.repeat /\ (source.pipe \/ pos = 0)))

\* Every call returns, but for the three kinds of source above: neither empty buffers,
\* packets of other streams or packets the decoder refuses nor the end of the source keep
\* src_read_mono or src_read_stereo in its loop, and with it the main thread (src.c:43-50,
\* src_ffmpeg.c:67-84).
ReadReturns == pc = "loop" ~> (pc = "idle" \/ Stuck)

\* "EOF -- rewind to beginning or signal EOF" (src_rawaudio.c:47): at the end of a file the
\* source either starts again or ends, so every call returns.
RewindsOrEnds == pc = "loop" ~> pc = "idle"
=============================================================================
