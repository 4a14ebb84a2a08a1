--------------------------- MODULE MCAudioSource ----------------------------
(***************************************************************************)
(* Sources whose ends fall on, before and after the ends of the buffer and *)
(* of the block, and the sources on which a call does not return.          *)
(***************************************************************************)
EXTENDS AudioSource

RawSource(length, tracks, repeat, pipe, fails) ==
    [kind |-> "raw", length |-> length, tracks |-> tracks, repeat |-> repeat, pipe |-> pipe,
     fails |-> fails]

\* Seven packets, three of them accepted by the decoder.
FfmpegSource(f, h) ==
    [kind |-> "ffmpeg", frames |-> f, hold |-> h,
     packets |-> <<"audio", "other", "refused", "audio", "other", "audio", "refused">>]

\* Frames smaller and larger than the buffer of four, empty ones and broken ones.
MCSources ==
    {RawSource(n, t, FALSE, p, FALSE) : n \in {0, 3, 4, 7, 8}, t \in {1, 2}, p \in BOOLEAN}
    \cup {RawSource(n, t, TRUE, FALSE, FALSE) : n \in {0, 1, 4, 5}, t \in {1, 2}}
    \cup {RawSource(n, 2, r, FALSE, TRUE) : n \in {0, 3, 4, 7}, r \in BOOLEAN}
    \cup {RawSource(n, 2, TRUE, TRUE, FALSE) : n \in {3, 4}}
    \cup {FfmpegSource(f, h) :
             f \in [1..3 -> {0, 2, 3, 6, 9}] \cup {<<4, Broken, 3>>, <<6, 5, Broken>>, <<Broken, 4, 4>>},
             h \in {0, 1}}
    \cup {[kind |-> "tone"], [kind |-> "none"]}

\* exec = true and repeat = true: a pipe that is to be played again.
MCPipeRepeated == {RawSource(n, 2, TRUE, TRUE, FALSE) : n \in {3, 4, 5}}
=============================================================================
