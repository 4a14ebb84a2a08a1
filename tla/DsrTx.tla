------------------------------- MODULE DsrTx --------------------------------
(***************************************************************************)
(* The dsrtx program (src/dsrtx.c): its options, the configuration of the  *)
(* output and of the channels, the main loop that reads one block of audio *)
(* from every source, encodes it and gives it to the sink, the signal      *)
(* handler, and the way down again.                                        *)
(*                                                                         *)
(* The channel table has two slots per programme, left (or mono A) and     *)
(* right (or mono B).  A source is named by the [channel] section it was   *)
(* opened for, and 0 is NULL; a section's name and programme type go where *)
(* its number goes.  Encoder, modulator, sources and sinks have modules of *)
(* their own and are single steps here.                                    *)
(***************************************************************************)
EXTENDS Integers, Sequences

CONSTANTS
    Pairs,        \* stereo programmes (16)
    SymbolRate,   \* DSR_SYMBOL_RATE
    CommandLines, \* sequences of options
    Configs,      \* configuration files, see below
    MaxSignals    \* bound: signals sent to the process

(***************************************************************************)
(* A configuration file: readable; type, data_type and sample_rate of the  *)
(* [output] section; and channels, the [channel] sections in order.  A     *)
(* section: channel, mode, type of source, input, whether one is named,    *)
(* opens, whether it can be opened, ends, whether it may come to an end (a *)
(* tone does not, nor a file that is repeated), and waits, whether it may  *)
(* let its reader wait for ever: a pipe or a network stream that falls     *)
(* silent, a command that does not end.  Of the sink the same is said by   *)
(* waits of the file.  Programme types lie within 0..15; what the others   *)
(* do to the program is in ServiceInfo.                                    *)
(***************************************************************************)
Section ==
    [channel : Int, mode : STRING, type : STRING, input : BOOLEAN, opens : BOOLEAN,
     ends : BOOLEAN, waits : BOOLEAN]

ASSUME ProgramAssumption ==
    /\ Pairs \in Nat \ {0} /\ SymbolRate \in Nat \ {0} /\ MaxSignals \in Nat
    /\ CommandLines \subseteq Seq(STRING)
    /\ \A file \in Configs : file.sample_rate \in Nat /\ file.channels \in Seq(Section)

VARIABLES
    conf,       \* the file named with -c
    args,       \* options not yet looked at
    conffile,   \* an option named the file
    sample_rate,
    next,       \* i: the section to be loaded
    channels,   \* dsr_t.channels
    sa,         \* dsr_t.sa: for each slot the mode and section it announces
    pc,         \* where main() is
    handlers,   \* the signal handler is installed
    signals,    \* signals sent so far
    abort,      \* _abort
    rf,         \* the sink: "none", "open", "closed" or "kept", open for good
    l,          \* slot the loop over the channels has come to
    fed,        \* fed[s]: whose samples are in audio[s * 64 ..] of this block, and how many
    ended,      \* sources that have come to their end (audio_len < 0)
    block,      \* "none", "encoded" or "written"
    status,     \* how the process ended
    hung,       \* the main thread is in a call that never returns
    \* history
    accepted,   \* sections that got a slot
    opened,     \* sources opened
    closes      \* closes[i]: times source i has been closed

optVars    == <<args, conffile>>
tableVars  == <<next, channels, accepted, opened>>
sigVars    == <<handlers, signals, abort>>
loopVars   == <<l, fed, block>>
srcVars    == <<ended, closes>>
vars == <<conf, optVars, sample_rate, tableVars, sa, pc, sigVars, rf, loopVars, status, hung,
          srcVars>>

Slot == 0 .. 2 * Pairs - 1
NULL == 0
Free == [mode |-> 0, section |-> NULL, arg |-> NULL]
Silent == <<NULL, "none", "none">>
Sections == 1 .. Len(conf.channels)

\* l & 30: the left slot of the pair.
Left(s) == s - (s % 2)

\* _par[...type, music, mode...] and the name of every slot.
Announced(table) == [s \in Slot |-> [mode |-> table[s].mode, section |-> table[s].section]]

\* The process ends.
Exit(how) == pc' = "exit" /\ status' = how

Init ==
    /\ conf \in Configs /\ args \in CommandLines
    /\ conffile = FALSE
    /\ sample_rate = 0
    /\ next = 1 /\ channels = [s \in Slot |-> Free]
    /\ accepted = {} /\ opened = {} /\ ended = {} /\ closes = [i \in Sections |-> 0]
    /\ sa = Announced(channels)          \* dsr_init
    /\ pc = "options" /\ status = "running" /\ hung = FALSE
    /\ handlers = FALSE /\ signals = 0 /\ abort = 0
    /\ rf = "none" /\ l = 0 /\ fed = [s \in Slot |-> Silent] /\ block = "none"

-----------------------------------------------------------------------------
(* Options: the loop over getopt_long() *)

\* -v, --version and any unknown option end the program with status 0.
OptionEnds ==
    /\ pc = "options" /\ args # <<>> /\ Head(args) \in {"-v", "--version", "?"}
    /\ args' = Tail(args)
    /\ Exit("0")
    /\ UNCHANGED <<conf, conffile, sample_rate, tableVars, sa, sigVars, rf, loopVars, srcVars>>

OptionConfig ==
    /\ pc = "options" /\ args # <<>> /\ Head(args) = "-c"
    /\ conffile' = TRUE
    /\ args' = Tail(args)
    /\ UNCHANGED <<conf, sample_rate, tableVars, sa, pc, sigVars, rf, loopVars, status, srcVars>>

OptionVerbose ==
    /\ pc = "options" /\ args # <<>> /\ Head(args) \in {"-V", "--verbose"}
    /\ args' = Tail(args)
    /\ UNCHANGED <<conf, conffile, sample_rate, tableVars, sa, pc, sigVars, rf, loopVars,
                   status, srcVars>>

-----------------------------------------------------------------------------
(* _load_config() *)

DataTypes == {"uint8", "int8", "uint16", "int16", "int32", "float", "unmod_uint8", "unmod_udp"}

\* No -c, no such file or no valid data_type.
LoadFails ==
    /\ pc = "options" /\ args = <<>>
    /\ ~conffile \/ ~conf.readable \/ conf.data_type \notin DataTypes
    /\ Exit("-1")
    /\ UNCHANGED <<conf, optVars, sample_rate, tableVars, sa, sigVars, rf, loopVars, srcVars>>

\* The [output] section.
LoadOutput ==
    /\ pc = "options" /\ args = <<>>
    /\ conffile /\ conf.readable /\ conf.data_type \in DataTypes
    /\ sample_rate' = conf.sample_rate
    /\ pc' = "sections"
    /\ UNCHANGED <<conf, optVars, tableVars, sa, sigVars, rf, loopVars, status, srcVars>>

Loading == pc = "sections" /\ next <= Len(conf.channels)
sec == conf.channels[next]
ValidChannel == sec.channel \in 1..Pairs
c == (sec.channel - 1) * 2 + (IF sec.mode = "b" THEN 1 ELSE 0)

\* _open_src: a tone needs no input, and what else there is must be known and named.
Opens == sec.opens /\ (sec.type = "tone" \/ (sec.type \in {"rawaudio", "ffmpeg"} /\ sec.input))

\* The slots and the source of an accepted section.
Accept ==
    /\ next' = next + 1
    /\ accepted' = accepted \cup {next}
    /\ opened' = IF Opens THEN opened \cup {next} ELSE opened

\* The slot section next gets; arg is NULL when _open_src fails.
Allocated(mode) == [mode |-> mode, section |-> next, arg |-> IF Opens THEN next ELSE NULL]

\* Mutant of AllocStereo: only the left slot is tested.
AllocStereoLeftOnly ==
    /\ Loading /\ ValidChannel /\ sec.mode = "s"
    /\ channels[c].mode = 0
    /\ channels' = [channels EXCEPT ![c] = Allocated(1),
                                    ![c + 1] = [mode |-> 2, section |-> next, arg |-> @.arg]]
    /\ Accept
    /\ UNCHANGED <<conf, optVars, sample_rate, sa, pc, sigVars, rf, loopVars, status, srcVars>>

\* mode = s: both slots must be free; the source goes into the left one.
AllocStereo ==
    /\ Loading /\ ValidChannel /\ sec.mode = "s"
    /\ channels[c].mode = 0 /\ channels[c + 1].mode = 0
    /\ channels' = [channels EXCEPT ![c] = Allocated(1),
                                    ![c + 1] = [mode |-> 2, section |-> next, arg |-> @.arg]]
    /\ Accept
    /\ UNCHANGED <<conf, optVars, sample_rate, sa, pc, sigVars, rf, loopVars, status, srcVars>>

\* mode = a or b: one slot.
AllocMono ==
    /\ Loading /\ ValidChannel /\ sec.mode \in {"a", "b"}
    /\ channels[c].mode = 0
    /\ channels' = [channels EXCEPT ![c] = Allocated(1)]
    /\ Accept
    /\ UNCHANGED <<conf, optVars, sample_rate, sa, pc, sigVars, rf, loopVars, status, srcVars>>

\* Mutant of SkipSection: the first section that cannot be used ends the loop.
SkipSectionBreaks ==
    /\ Loading
    /\ \/ ~ValidChannel \/ sec.mode \notin {"s", "a", "b"}
       \/ ValidChannel /\ channels[c].mode # 0
       \/ ValidChannel /\ sec.mode = "s" /\ channels[c + 1].mode # 0
    /\ next' = Len(conf.channels) + 1
    /\ UNCHANGED <<conf, optVars, sample_rate, channels, accepted, opened, sa, pc, sigVars, rf,
                   loopVars, status, srcVars>>

\* A wrong channel number, an unknown mode or a slot that is taken.
SkipSection ==
    /\ Loading
    /\ \/ ~ValidChannel \/ sec.mode \notin {"s", "a", "b"}
       \/ ValidChannel /\ channels[c].mode # 0
       \/ ValidChannel /\ sec.mode = "s" /\ channels[c + 1].mode # 0
    /\ next' = next + 1
    /\ UNCHANGED <<conf, optVars, sample_rate, channels, accepted, opened, sa, pc, sigVars, rf,
                   loopVars, status, srcVars>>

LoadDone ==
    /\ pc = "sections" /\ next > Len(conf.channels)
    /\ pc' = "rate"
    /\ UNCHANGED <<conf, optVars, sample_rate, tableVars, sa, sigVars, rf, loopVars,
                   status, srcVars>>

-----------------------------------------------------------------------------
(* Starting *)

\* The sources that are open stay open.
RateFails ==
    /\ pc = "rate" /\ sample_rate % SymbolRate # 0
    /\ Exit("-1")
    /\ UNCHANGED <<conf, optVars, sample_rate, tableVars, sa, sigVars, rf, loopVars, srcVars>>

\* Mutant of UpdateSA: the table dsr_init built is sent.
UpdateSAMissing ==
    /\ pc = "rate" /\ sample_rate % SymbolRate = 0
    /\ pc' = "signal"
    /\ UNCHANGED <<conf, optVars, sample_rate, tableVars, sa, sigVars, rf, loopVars, status, srcVars>>

\* dsr_update_sa
UpdateSA ==
    /\ pc = "rate" /\ sample_rate % SymbolRate = 0
    /\ sa' = Announced(channels)
    /\ pc' = "signal"
    /\ UNCHANGED <<conf, optVars, sample_rate, tableVars, sigVars, rf, loopVars, status, srcVars>>

InstallHandlers ==
    /\ pc = "signal"
    /\ handlers' = TRUE /\ pc' = "open"
    /\ UNCHANGED <<conf, optVars, sample_rate, tableVars, sa, signals, abort, rf, loopVars,
                   status, srcVars>>

\* rf_hackrf_open or rf_file_open fails; again the sources stay open.
OpenFails ==
    /\ pc = "open" /\ conf.type \in {"hackrf", "file"}
    /\ Exit("-1")
    /\ UNCHANGED <<conf, optVars, sample_rate, tableVars, sa, sigVars, rf, loopVars, srcVars>>

\* The sink is opened; a type that is neither leaves rf_t zero.  Then rf_qpsk_init.
OpenSink ==
    /\ pc = "open"
    /\ rf' = IF conf.type \in {"hackrf", "file"} THEN "open" ELSE "none"
    /\ pc' = "loop"
    /\ UNCHANGED <<conf, optVars, sample_rate, tableVars, sa, sigVars, loopVars, status, srcVars>>

-----------------------------------------------------------------------------
(* testrun() *)

\* Mutant of StartBlock: _abort is not looked at.
StartBlockAlways ==
    /\ pc = "loop"
    /\ l' = 0 /\ fed' = [s \in Slot |-> Silent] /\ block' = "none"
    /\ pc' = "route"
    /\ UNCHANGED <<conf, optVars, sample_rate, tableVars, sa, sigVars, rf, status, srcVars>>

\* while(!_abort): a silent block, and the loop over the slots begins.
StartBlock ==
    /\ pc = "loop" /\ abort = 0
    /\ l' = 0 /\ fed' = [s \in Slot |-> Silent] /\ block' = "none"
    /\ pc' = "route"
    /\ UNCHANGED <<conf, optVars, sample_rate, tableVars, sa, sigVars, rf, status, srcVars>>

Routing == pc = "route" /\ l \in Slot
Paired  == channels[Left(l)].mode = 1 /\ channels[Left(l) + 1].mode = 2

\* The 64 samples src_read_* is asked for: all of them, the last few, or none once the
\* source has ended or where there is none.
Got(i) ==
    IF i = NULL \/ i \in ended THEN {"none"}
    ELSE IF conf.channels[i].ends THEN {"all", "part", "none"} ELSE {"all"}

\* A source that gives less than it is asked for has come to its end (audio_len < 0).
Ended(i, much) == IF i # NULL /\ much # "all" THEN ended \cup {i} ELSE ended

\* src_read_stereo fills two slots, as far as it gets; the rest stays silent.
RouteStereo ==
    /\ Routing /\ Paired
    /\ LET i == channels[l].arg
       IN  \E much \in Got(i) :
               /\ fed' = IF much = "none" THEN fed
                         ELSE [fed EXCEPT ![l] = <<i, "left", much>>,
                                          ![l + 1] = <<i, "right", much>>]
               /\ ended' = Ended(i, much)
    /\ l' = l + 2
    /\ UNCHANGED <<conf, optVars, sample_rate, tableVars, sa, pc, sigVars, rf, block, status,
                   closes>>

RouteMono ==
    /\ Routing /\ ~Paired /\ channels[l].mode = 1
    /\ LET i == channels[l].arg
       IN  \E much \in Got(i) :
               /\ fed' = IF much = "none" THEN fed ELSE [fed EXCEPT ![l] = <<i, "mono", much>>]
               /\ ended' = Ended(i, much)
    /\ l' = l + 1
    /\ UNCHANGED <<conf, optVars, sample_rate, tableVars, sa, pc, sigVars, rf, block, status,
                   closes>>

RouteNone ==
    /\ Routing /\ ~Paired /\ channels[l].mode # 1
    /\ l' = l + 1
    /\ UNCHANGED <<conf, optVars, sample_rate, tableVars, sa, pc, sigVars, rf, fed, block, status,
                   srcVars>>

\* dsr_encode
Encode ==
    /\ pc = "route" /\ l \notin Slot
    /\ block' = "encoded" /\ pc' = "write"
    /\ UNCHANGED <<conf, optVars, sample_rate, tableVars, sa, sigVars, rf, l, fed, status, srcVars>>

\* The block goes out as it is: rf_write of 5120 octets instead of rf_qpsk_modulate.
Unmodulated == conf.type = "file" /\ conf.data_type \in {"unmod_uint8", "unmod_udp"}

\* int16_t rf_qpsk_modulate stores for a block of 40960 bits, and the size of o2.
Modulated == (40960 \div 2) * 2 * (sample_rate \div SymbolRate)
OutputSize == 40960 * 2 * 5

\* Mutant of WriteBlock: a signal drops the block in hand.
WriteBlockUnlessAborted ==
    /\ pc = "write"
    /\ block' = IF rf = "open" /\ abort = 0 THEN "written" ELSE block
    /\ pc' = "loop"
    /\ UNCHANGED <<conf, optVars, sample_rate, tableVars, sa, sigVars, rf, l, fed, status, srcVars>>

\* Modulate unless the sink takes the bits as they are; rf_write's result is ignored
\* and with no sink it writes nothing.
WriteBlock ==
    /\ pc = "write"
    /\ block' = IF rf = "open" THEN "written" ELSE block
    /\ pc' = "loop"
    /\ UNCHANGED <<conf, optVars, sample_rate, tableVars, sa, sigVars, rf, l, fed, status, srcVars>>

LoopExit ==
    /\ pc = "loop" /\ abort # 0
    /\ pc' = "rf_close"
    /\ UNCHANGED <<conf, optVars, sample_rate, tableVars, sa, sigVars, rf, loopVars, status, srcVars>>

-----------------------------------------------------------------------------
(* Stopping *)

\* rf_close, then the loop over the channels starts.
RfClose ==
    /\ pc = "rf_close"
    /\ rf' = IF rf = "open" THEN "closed" ELSE rf
    /\ l' = 0 /\ pc' = "src_close"
    /\ UNCHANGED <<conf, optVars, sample_rate, tableVars, sa, sigVars, fed, block, status, srcVars>>

\* hackrf_stop_tx fails: device and ring stay as they are, main takes no notice.
RfCloseFails ==
    /\ pc = "rf_close" /\ rf = "open" /\ conf.type = "hackrf"
    /\ rf' = "kept"
    /\ l' = 0 /\ pc' = "src_close"
    /\ UNCHANGED <<conf, optVars, sample_rate, tableVars, sa, sigVars, fed, block, status, srcVars>>

\* Mutant of SrcClose: one source per programme.
SrcCloseLeft ==
    /\ pc = "src_close" /\ l \in Slot
    /\ closes' = IF channels[l].arg = NULL THEN closes
                 ELSE [closes EXCEPT ![channels[l].arg] = @ + 1]
    /\ l' = l + 2
    /\ UNCHANGED <<conf, optVars, sample_rate, tableVars, sa, pc, sigVars, rf, fed, block, status,
                   ended>>

\* if(arg) src_close(arg), free(arg)
SrcClose ==
    /\ pc = "src_close" /\ l \in Slot
    /\ closes' = IF channels[l].arg = NULL THEN closes
                 ELSE [closes EXCEPT ![channels[l].arg] = @ + 1]
    /\ l' = l + 1
    /\ UNCHANGED <<conf, optVars, sample_rate, tableVars, sa, pc, sigVars, rf, fed, block, status,
                   ended>>

Return ==
    /\ pc = "src_close" /\ l \notin Slot
    /\ Exit("0")
    /\ UNCHANGED <<conf, optVars, sample_rate, tableVars, sa, sigVars, rf, loopVars, srcVars>>

-----------------------------------------------------------------------------
(* Calls that never return *)

\* Sources the main thread may wait for where it is: the one it opens, reads or closes
\* (fopen, fread, avcodec and pclose wait for the other side).
Awaited ==
    CASE pc = "sections"  -> IF next \in Sections /\ ValidChannel /\ Opens THEN {next} ELSE {}
      [] pc = "route"     -> IF Routing /\ channels[l].mode = 1 THEN {channels[l].arg} \ {NULL} ELSE {}
      [] pc = "src_close" -> IF l \in Slot THEN {channels[l].arg} \ {NULL} ELSE {}
      [] OTHER            -> {}

\* fopen of a FIFO, a device that was unplugged with its ring full, a pipe nobody reads,
\* into which fclose too writes what is left.
SinkAwaited ==
    /\ conf.waits
    /\ \/ pc \in {"open", "write"} /\ conf.type \in {"hackrf", "file"}
       \/ pc = "rf_close" /\ conf.type = "file"

Hang ==
    /\ ~hung
    /\ (\E i \in Awaited : conf.channels[i].waits) \/ SinkAwaited
    /\ hung' = TRUE
    /\ UNCHANGED <<conf, optVars, sample_rate, tableVars, sa, pc, sigVars, rf, loopVars, status,
                   srcVars>>

-----------------------------------------------------------------------------
(* Signals, at any time *)

Sent == signals < MaxSignals /\ pc # "exit" /\ signals' = signals + 1

\* No handler yet: the signal ends the process.
SignalKills ==
    /\ Sent /\ ~handlers
    /\ Exit("killed")
    /\ UNCHANGED <<conf, optVars, sample_rate, tableVars, sa, handlers, abort, rf, loopVars, srcVars>>

SignalFirst ==
    /\ Sent /\ handlers /\ abort = 0
    /\ abort' = 1
    /\ UNCHANGED <<conf, optVars, sample_rate, tableVars, sa, pc, handlers, rf, loopVars, status,
                   srcVars>>

\* exit(-1) from the handler: nothing is closed.
SignalAgain ==
    /\ Sent /\ handlers /\ abort # 0
    /\ Exit("-1")
    /\ UNCHANGED <<conf, optVars, sample_rate, tableVars, sa, handlers, abort, rf, loopVars, srcVars>>

Finished == pc = "exit" /\ UNCHANGED vars

-----------------------------------------------------------------------------
Options  == OptionEnds \/ OptionConfig \/ OptionVerbose
Load     == LoadFails \/ LoadOutput \/ AllocStereo \/ AllocMono \/ SkipSection \/ LoadDone
Start    == RateFails \/ UpdateSA \/ InstallHandlers \/ OpenFails \/ OpenSink
Testrun  == StartBlock \/ RouteStereo \/ RouteMono \/ RouteNone \/ Encode \/ WriteBlock \/ LoopExit
Stop     == RfClose \/ RfCloseFails \/ SrcClose \/ Return
Signal   == SignalKills \/ SignalFirst \/ SignalAgain

Main == Options \/ Load \/ Start \/ Testrun \/ Stop
MainRuns == ~hung /\ Main /\ UNCHANGED hung
Next == MainRuns \/ (Signal /\ UNCHANGED hung) \/ Hang \/ Finished

\* The main thread runs unless it waits for ever; signals are never owed.
Spec == Init /\ [][Next]_vars /\ WF_vars(MainRuns)

-----------------------------------------------------------------------------
(* Properties *)

\* The slots a [channel] section asks for, each with the signal it is to carry.
Wanted(s) ==
    LET left == (s.channel - 1) * 2
    IN  IF s.mode = "s" THEN {<<left, "left">>, <<left + 1, "right">>}
        ELSE {<<IF s.mode = "b" THEN left + 1 ELSE left, "mono">>}

Valid(s) == s.channel \in 1..Pairs /\ s.mode \in {"s", "a", "b"}
SlotsOf(i) == {w[1] : w \in Wanted(conf.channels[i])}

\* Slots go to the first section that asks for them: accepted sections never share a
\* slot, and a valid section is turned down only for one accepted before it
\* (dsrtx.c:205-267).
FirstComeFirstServed ==
    pc # "options" => \A i \in 1 .. next - 1 :
        IF i \in accepted
        THEN \A j \in accepted \ {i} : SlotsOf(i) \cap SlotsOf(j) = {}
        ELSE Valid(conf.channels[i]) =>
                 \E j \in accepted : j < i /\ SlotsOf(i) \cap SlotsOf(j) # {}

\* In every block the signal of an open source is in exactly the slots its section asks
\* for, left in the left one, although the loop tells stereo from mono by the modes of two
\* slots only.  A source that has ended is heard once more at most, with its last samples,
\* both tracks alike, and leaves nothing of an older block behind (dsrtx.c:286-300).
SourcesInTheirSlots ==
    pc = "write" => \A i \in opened :
        LET slots == {s \in Slot : fed[s][1] = i}
        IN  IF slots = {} THEN i \in ended
            ELSE /\ {<<s, fed[s][2]>> : s \in slots} = Wanted(conf.channels[i])
                 /\ \A s \in slots : fed[s][3] = IF i \in ended THEN "part" ELSE "all"

\* The special service announces what the block carries: a slot with a signal is announced
\* under its section's name with the right mode, and a slot that is announced has 64 samples
\* of its source in every block unless that could not be opened or has come to its end,
\* after which nobody takes the announcement back (dsrtx.c:384, dsr.c:430-475, src.c:30-92).
AnnouncedIsSent ==
    pc = "write" => \A s \in Slot :
        /\ fed[s] # Silent =>
               sa[s] = [mode |-> IF fed[s][2] = "right" THEN 2 ELSE 1, section |-> fed[s][1]]
        /\ sa[s].mode # 0 =>
               fed[s][3] = "all" \/ sa[s].section \notin opened \/ sa[s].section \in ended

\* When main returns 0 from a run of the loop, every source that was opened has been closed
\* once and the sink too, but for a HackRF that would not stop: its device and its ring
\* stay as they are, and neither the sources nor the status show it (dsrtx.c:455-467,
\* rf_hackrf.c:249-254).
ClosedAtEnd ==
    status = "0" /\ handlers =>
        /\ rf \in CASE conf.type = "file"   -> {"closed"}
                   [] conf.type = "hackrf" -> {"closed", "kept"}
                   [] OTHER                -> {"none"}
        /\ \A i \in Sections : closes[i] = IF i \in opened THEN 1 ELSE 0

\* A block that has been encoded reaches the sink: the signal ends the loop between
\* blocks, never between encoding and writing (dsrtx.c:283).
NoBlockLost ==
    pc \in {"loop", "rf_close", "src_close"} \/ status = "0" =>
        ~(block = "encoded" /\ rf # "none")

\* The first signal after the start ends the program, unless the main thread waits for ever
\* for a source, a command or the sink: the handler only sets a flag, and the call it
\* interrupts is restarted (dsrtx.c:58-68, 283).
SignalEnds == abort # 0 ~> (pc = "exit" \/ hung)

-----------------------------------------------------------------------------
(* What the documentation says *)

\* "Or any multiple of 10240000" (src/example.conf:34): the modulated
\* block fits o2.
BlockFits == pc = "write" /\ ~Unmodulated => Modulated <= OutputSize
=============================================================================
