------------------------------- MODULE MCDsrTx ------------------------------
(***************************************************************************)
(* Two programmes, up to three [channel] sections in every combination,    *)
(* the outputs, command lines and files that end the program early, and    *)
(* sources and sinks that let the main thread wait for ever.               *)
(***************************************************************************)
EXTENDS DsrTx

SectionSet ==
    [channel : 1..Pairs, mode : {"s", "a", "b"}, type : {"rawaudio"}, input : {TRUE},
     opens : BOOLEAN, ends : {FALSE}, waits : {FALSE}]
    \cup {[channel |-> 0, mode |-> "s", type |-> "tone", input |-> FALSE, opens |-> TRUE,
           ends |-> FALSE, waits |-> FALSE],
          [channel |-> 1, mode |-> "?", type |-> "tone", input |-> FALSE, opens |-> TRUE,
           ends |-> FALSE, waits |-> FALSE]}

Conf(type, data_type, rate, waits, sections) ==
    [readable |-> TRUE, type |-> type, data_type |-> data_type, sample_rate |-> rate,
     waits |-> waits, channels |-> sections]

UpTo(m, S) == UNION {[1..k -> S] : k \in 0..m}

\* Stereo, mono B, mono A: a source of each type with and without an input, of which at
\* most two can be opened, one in a right slot; the sources that read something may end.
Three(type, input, w1, w2) ==
    <<[channel |-> 1, mode |-> "s", type |-> type, input |-> input, opens |-> TRUE,
       ends |-> type # "tone", waits |-> w1],
      [channel |-> 2, mode |-> "b", type |-> "tone", input |-> FALSE, opens |-> TRUE,
       ends |-> FALSE, waits |-> w2],
      [channel |-> 2, mode |-> "a", type |-> "rawaudio", input |-> TRUE, opens |-> FALSE,
       ends |-> TRUE, waits |-> TRUE]>>

\* A stereo and a mono source that may end, in any order.
BothEnd ==
    <<[channel |-> 2, mode |-> "s", type |-> "rawaudio", input |-> TRUE, opens |-> TRUE,
       ends |-> TRUE, waits |-> FALSE],
      [channel |-> 1, mode |-> "b", type |-> "ffmpeg", input |-> TRUE, opens |-> TRUE,
       ends |-> TRUE, waits |-> FALSE]>>
Few == {<<>>, BothEnd} \cup {Three("ffmpeg", TRUE, w1, w2) : w1, w2 \in BOOLEAN}
        \cup {Three(type, input, FALSE, TRUE) : type \in {"rawaudio", "tone", "?"}, input \in BOOLEAN}

MCConfigs ==
    {Conf("file", "float", 20480000, FALSE, t) : t \in UpTo(3, SectionSet)}
    \cup UNION {{Conf("hackrf", "int8", 10240000, TRUE, t), Conf("file", "unmod_udp", 20480000, FALSE, t),
                 Conf("file", "int16", 20480000, TRUE, t), Conf("file", "float", 15000000, FALSE, t),
                 Conf("", "int16", 0, FALSE, t), Conf("file", "", 20480000, FALSE, t),
                 [Conf("file", "uint8", 20480000, FALSE, t) EXCEPT !.readable = FALSE]} : t \in Few}

MCCommandLines == {<<>>, <<"-V", "-c">>, <<"-v", "-c">>, <<"-c", "?">>}

\* Sample rates that are multiples of the symbol rate.
MCStart     == {<<"-c">>}
MCMultiples == {Conf("file", "float", 10240000 * m, FALSE, <<>>) : m \in 1..12}
=============================================================================
