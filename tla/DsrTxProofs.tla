---------------------------- MODULE DsrTxProofs -----------------------------
(***************************************************************************)
(* Proofs about DsrTx for every number of programmes, every configuration  *)
(* file and command line, and signals at any time: the table of slots, the *)
(* routing of the sources, the SA data, the last block and the closing of  *)
(* what was opened.                                                        *)
(***************************************************************************)
EXTENDS DsrTx, SequenceTheorems, TLAPS

-----------------------------------------------------------------------------
(* The inductive invariant *)

Owner  == {NULL} \cup Sections
Track  == {"none", "left", "right", "mono"}
Amount == {"all", "part", "none"}

FlagTypes == conffile \in BOOLEAN /\ handlers \in BOOLEAN /\ hung \in BOOLEAN
ValueTypes ==
    /\ conf \in Configs /\ args \in Seq(STRING) /\ sample_rate \in Nat
    /\ next \in 1 .. Len(conf.channels) + 1
    /\ channels \in [Slot -> [mode : 0..2, section : Owner, arg : Owner]]
    /\ sa \in [Slot -> [mode : 0..2, section : Owner]]
    /\ pc \in {"options", "sections", "rate", "signal", "open", "loop", "route", "write",
               "rf_close", "src_close", "exit"}
    /\ signals \in 0..MaxSignals /\ abort \in {0, 1}
    /\ rf \in {"none", "open", "closed", "kept"}
    /\ l \in 0 .. 2 * Pairs
    /\ fed \in [Slot -> Owner \X Track \X Amount]
    /\ block \in {"none", "encoded", "written"}
    /\ status \in {"running", "0", "-1", "killed"}
    /\ accepted \subseteq 1 .. next - 1 /\ opened \subseteq accepted
    /\ closes \in [Sections -> Nat] /\ ended \subseteq Sections
TypeOK == FlagTypes /\ ValueTypes

\* The signal that slot s carries for section i, and the entry of the table it has.
Carried(i, s) ==
    IF conf.channels[i].mode # "s" THEN "mono" ELSE IF s % 2 = 0 THEN "left" ELSE "right"
Entry(i, s) ==
    [mode    |-> IF Carried(i, s) = "right" THEN 2 ELSE 1,
     section |-> i,
     arg     |-> IF i \in opened /\ Carried(i, s) # "right" THEN i ELSE NULL]

\* The table is what the accepted sections ask for and nothing else, and a valid
\* section was turned down for an earlier one.
TableOK ==
    /\ \A i \in accepted : Valid(conf.channels[i])
    /\ \A i \in accepted : \A s \in SlotsOf(i) : channels[s] = Entry(i, s)
    /\ \A s \in Slot : channels[s] # Free => \E i \in accepted : s \in SlotsOf(i)
    /\ \A i \in 1 .. next - 1 :
           i \notin accepted /\ Valid(conf.channels[i]) =>
               \E j \in accepted : j < i /\ SlotsOf(i) \cap SlotsOf(j) # {}

\* Before the signal handler is installed nothing runs, and the process has ended exactly
\* when main is at its end.
Starting == {"options", "sections", "rate", "signal"}
PhaseOK ==
    /\ pc = "options" => next = 1
    /\ pc \in Starting => ~handlers
    /\ status = "running" <=> pc # "exit"

\* Once dsr_update_sa has been called the SA data are those of the table.
SAOK == pc \notin {"options", "sections", "rate", "exit"} => sa = Announced(channels)

\* What the source of section i has given in this block once its slots are below l, and
\* what is heard of it in slot s.
Gave(i) == IF i \in ended THEN {"part", "none"} ELSE {"all"}
Heard(i, s, much) ==
    IF i \in opened /\ s < l /\ much # "none" THEN <<i, Carried(i, s), much>> ELSE Silent
FedBy(i) == \E much \in Gave(i) : \A s \in SlotsOf(i) : fed[s] = Heard(i, s, much)
FedSlots ==
    /\ \A i \in accepted : FedBy(i)
    /\ \A s \in Slot : channels[s] = Free => fed[s] = Silent

\* The loop over the slots never comes to the right slot of a stereo pair, and it has fed
\* the slots below l with the sources of the sections that hold them.
FedOK ==
    /\ pc = "route" /\ l \in Slot /\ l % 2 = 1 => ~Paired
    /\ pc \in {"route", "write"} => FedSlots
    /\ pc = "write" => l \notin Slot

\* The sink is open from OpenSink to RfClose, if it is a sink at all, and holds no block
\* back.
Opened == IF conf.type \in {"hackrf", "file"} THEN "open" ELSE "none"
SinkOK ==
    /\ pc \in Starting \cup {"open"} => rf = "none"
    /\ pc \in {"loop", "route", "write", "rf_close"} => rf = Opened
    /\ pc = "src_close" =>
           IF Opened = "none" THEN rf = "none"
           ELSE rf = "closed" \/ (rf = "kept" /\ conf.type = "hackrf")
    /\ pc \in Starting \cup {"open", "route"} => block = "none"
    /\ NoBlockLost

\* The slot that holds the source of section i.
Home(i) ==
    (conf.channels[i].channel - 1) * 2 + (IF conf.channels[i].mode = "b" THEN 1 ELSE 0)

\* The sources in the slots below l have been closed.
ClosedOK ==
    /\ pc \notin {"src_close", "exit"} => closes = [i \in Sections |-> 0]
    /\ pc = "src_close" => \A i \in Sections :
           closes[i] = IF i \in opened /\ Home(i) < l THEN 1 ELSE 0
    /\ ClosedAtEnd

ProgramInv ==
    /\ TypeOK /\ TableOK /\ PhaseOK /\ SAOK /\ FedOK /\ SinkOK /\ ClosedOK

-----------------------------------------------------------------------------
(* Slots and sections *)

\* The slots of a valid section are slots of the table: one, or an even one and the next.
LEMMA SlotsOfSection ==
    ASSUME NEW i, Valid(conf.channels[i])
    PROVE  LET left == (conf.channels[i].channel - 1) * 2
           IN  /\ left \in Slot /\ left + 1 \in Slot /\ left % 2 = 0 /\ (left + 1) % 2 = 1
               /\ conf.channels[i].mode = "s" => SlotsOf(i) = {left, left + 1}
               /\ conf.channels[i].mode = "a" => SlotsOf(i) = {left}
               /\ conf.channels[i].mode = "b" => SlotsOf(i) = {left + 1}
<1> DEFINE left == (conf.channels[i].channel - 1) * 2
<1>1. conf.channels[i].channel \in 1..Pairs /\ conf.channels[i].mode \in {"s", "a", "b"}
  BY DEF Valid
<1>2. /\ left \in Slot /\ left + 1 \in Slot /\ left % 2 = 0 /\ (left + 1) % 2 = 1
  <2>1. \A m \in Nat : (m * 2) % 2 = 0 /\ (m * 2 + 1) % 2 = 1
    OBVIOUS
  <2>2. PICK m \in 1..Pairs : conf.channels[i].channel = m
    BY <1>1
  <2>3. left \in Nat /\ left = (m - 1) * 2 /\ m - 1 \in Nat
    BY <2>2, ProgramAssumption
  <2>4. left \in Slot /\ left + 1 \in Slot
    BY <2>2, ProgramAssumption DEF Slot
  <2> QED BY <2>1, <2>3, <2>4
<1>3. conf.channels[i].mode = "s" => SlotsOf(i) = {left, left + 1}
  <2>1. SUFFICES ASSUME conf.channels[i].mode = "s"
                 PROVE  SlotsOf(i) = {left, left + 1}
    OBVIOUS
  <2>2. Wanted(conf.channels[i]) = {<<left, "left">>, <<left + 1, "right">>}
    BY <2>1 DEF Wanted
  <2> QED BY <2>2 DEF SlotsOf
<1>4. conf.channels[i].mode = "a" => SlotsOf(i) = {left}
  <2>1. SUFFICES ASSUME conf.channels[i].mode = "a"
                 PROVE  SlotsOf(i) = {left}
    OBVIOUS
  <2>2. Wanted(conf.channels[i]) = {<<left, "mono">>}
    BY <2>1 DEF Wanted
  <2> QED BY <2>2 DEF SlotsOf
<1>5. conf.channels[i].mode = "b" => SlotsOf(i) = {left + 1}
  <2>1. SUFFICES ASSUME conf.channels[i].mode = "b"
                 PROVE  SlotsOf(i) = {left + 1}
    OBVIOUS
  <2>2. Wanted(conf.channels[i]) = {<<left + 1, "mono">>}
    BY <2>1 DEF Wanted
  <2> QED BY <2>2 DEF SlotsOf
<1> QED BY <1>2, <1>3, <1>4, <1>5

\* What a valid section wants is each of its slots with the signal it carries there.
LEMMA WantedIsCarried ==
    ASSUME NEW i, Valid(conf.channels[i])
    PROVE  Wanted(conf.channels[i]) = {<<s, Carried(i, s)>> : s \in SlotsOf(i)}
<1> DEFINE left == (conf.channels[i].channel - 1) * 2
<1>1. conf.channels[i].mode \in {"s", "a", "b"}
  BY DEF Valid
<1>2. CASE conf.channels[i].mode = "s"
  <2>1. Wanted(conf.channels[i]) = {<<left, "left">>, <<left + 1, "right">>}
    BY <1>2 DEF Wanted
  <2>2. SlotsOf(i) = {left, left + 1} /\ left % 2 = 0 /\ (left + 1) % 2 = 1
    BY <1>2, SlotsOfSection
  <2>3. Carried(i, left) = "left" /\ Carried(i, left + 1) = "right"
    BY <1>2, <2>2 DEF Carried
  <2> QED BY <2>1, <2>2, <2>3
<1>3. CASE conf.channels[i].mode = "a"
  <2>1. Wanted(conf.channels[i]) = {<<left, "mono">>}
    BY <1>3 DEF Wanted
  <2>2. SlotsOf(i) = {left} /\ Carried(i, left) = "mono"
    BY <1>3, SlotsOfSection DEF Carried
  <2> QED BY <2>1, <2>2
<1>4. CASE conf.channels[i].mode = "b"
  <2>1. Wanted(conf.channels[i]) = {<<left + 1, "mono">>}
    BY <1>4 DEF Wanted
  <2>2. SlotsOf(i) = {left + 1} /\ Carried(i, left + 1) = "mono"
    BY <1>4, SlotsOfSection DEF Carried
  <2> QED BY <2>1, <2>2
<1> QED BY <1>1, <1>2, <1>3, <1>4

\* A slot that is in use is held by an accepted section; one that is not is free.
LEMMA SlotHolders ==
    ASSUME TypeOK, TableOK, NEW s \in Slot
    PROVE  /\ channels[s].mode = 0 =>
                  channels[s] = Free /\ \A i \in accepted : s \notin SlotsOf(i)
           /\ channels[s].mode # 0 =>
                  /\ channels[s] # Free
                  /\ \E i \in accepted : s \in SlotsOf(i) /\ channels[s] = Entry(i, s)
           /\ channels[s] # Free => channels[s].mode # 0
<1>1. \A i \in accepted : s \in SlotsOf(i) => channels[s] = Entry(i, s)
  BY DEF TableOK
<1>2. \A i : Entry(i, s).mode \in {1, 2}
  BY DEF Entry
<1>3. Free.mode = 0
  BY DEF Free
<1>4. channels[s] # Free => \E i \in accepted : s \in SlotsOf(i)
  BY DEF TableOK
<1> QED BY <1>1, <1>2, <1>3, <1>4

\* The sections that have been loaded are sections of the file.
LEMMA Loaded ==
    ASSUME TypeOK
    PROVE  /\ Len(conf.channels) \in Nat /\ 1 .. next - 1 \subseteq Sections
           /\ accepted \subseteq Sections /\ opened \subseteq Sections
           /\ next \in Nat /\ NULL \notin Sections
<1>1. Len(conf.channels) \in Nat
  BY ProgramAssumption DEF TypeOK, ValueTypes
<1>2. next \in 1 .. Len(conf.channels) + 1 /\ accepted \subseteq 1 .. next - 1 /\ opened \subseteq accepted
  BY DEF TypeOK, ValueTypes
<1> QED BY <1>1, <1>2 DEF Sections, NULL

\* The slots of the section to be loaded are those its handler tests and fills.
LEMMA NextSlots ==
    ASSUME TypeOK, Loading, ValidChannel, sec.mode \in {"s", "a", "b"}
    PROVE  /\ next \in Sections /\ Valid(conf.channels[next]) /\ c \in Slot
           /\ c = Home(next)
           /\ sec.mode = "s" => c % 2 = 0 /\ c + 1 \in Slot /\ (c + 1) % 2 = 1
                                /\ SlotsOf(next) = {c, c + 1}
           /\ sec.mode # "s" => SlotsOf(next) = {c}
<1>1. next \in Sections
  BY Loaded DEF Loading, Sections, TypeOK, ValueTypes
<1>2. Valid(conf.channels[next])
  BY DEF Valid, ValidChannel, sec
<1>3. conf.channels[next].channel \in Nat
  BY ProgramAssumption DEF ValidChannel, sec
<1>4. c = (conf.channels[next].channel - 1) * 2 + (IF sec.mode = "b" THEN 1 ELSE 0)
  BY DEF c, sec
<1>5. c = Home(next)
  BY <1>4 DEF Home, sec
<1>6. CASE sec.mode = "s"
  <2>1. c = (conf.channels[next].channel - 1) * 2
    BY <1>3, <1>4, <1>6
  <2> QED BY <1>1, <1>2, <1>5, <1>6, <2>1, SlotsOfSection DEF sec
<1>7. CASE sec.mode = "a"
  <2>1. c = (conf.channels[next].channel - 1) * 2
    BY <1>3, <1>4, <1>7
  <2> QED BY <1>1, <1>2, <1>5, <1>7, <2>1, SlotsOfSection DEF sec
<1>8. CASE sec.mode = "b"
  <2>1. c = (conf.channels[next].channel - 1) * 2 + 1
    BY <1>3, <1>4, <1>8
  <2> QED BY <1>1, <1>2, <1>5, <1>8, <2>1, SlotsOfSection DEF sec
<1> QED BY <1>6, <1>7, <1>8

\* The entries AllocStereo and AllocMono write are those of the invariant.
LEMMA AllocatedEntries ==
    ASSUME TypeOK, TableOK, AllocStereo \/ AllocMono, NEW i, i = next
    PROVE  /\ accepted' = accepted \cup {i} /\ i \notin accepted
           /\ next' = i + 1 /\ i \in Sections /\ conf' = conf
           /\ opened' \in {opened, opened \cup {i}}
           /\ Valid(conf.channels[i])
           /\ SlotsOf(i) \subseteq Slot
           /\ \A s \in SlotsOf(i) : channels[s].mode = 0 /\ channels'[s] = Entry(i, s)'
           /\ \A s \in Slot \ SlotsOf(i) : channels'[s] = channels[s]
           /\ DOMAIN channels' = Slot
<1>1. Loading /\ ValidChannel /\ sec.mode \in {"s", "a", "b"} /\ Accept /\ conf' = conf
  BY DEF AllocStereo, AllocMono
<1>2. i \notin accepted
  BY Loaded DEF TypeOK, ValueTypes
<1>3. next' = i + 1 /\ accepted' = accepted \cup {i}
      /\ opened' = IF Opens THEN opened \cup {i} ELSE opened
  BY <1>1 DEF Accept
<1>4. opened \subseteq accepted /\ channels \in [Slot -> [mode : 0..2, section : Owner, arg : Owner]]
  BY DEF TypeOK, ValueTypes
<1>5. i \in opened' <=> Opens
  BY <1>2, <1>3, <1>4
<1>6. PICK d : d = c
  OBVIOUS
<1>7. /\ i \in Sections /\ Valid(conf.channels[i]) /\ d \in Slot
      /\ sec.mode = "s" => d % 2 = 0 /\ d + 1 \in Slot /\ (d + 1) % 2 = 1
                           /\ SlotsOf(i) = {d, d + 1}
      /\ sec.mode # "s" => SlotsOf(i) = {d}
  BY <1>1, <1>6, NextSlots
<1>8. \A s : Entry(i, s)' =
          [mode    |-> IF Carried(i, s) = "right" THEN 2 ELSE 1,
           section |-> i,
           arg     |-> IF Opens /\ Carried(i, s) # "right" THEN i ELSE NULL]
  BY <1>1, <1>5 DEF Entry, Carried
<1>9. CASE AllocStereo
  <2>1. sec.mode = "s" /\ channels[d].mode = 0 /\ channels[d + 1].mode = 0
    BY <1>6, <1>9 DEF AllocStereo
  <2>2. channels[d + 1].arg = NULL
    BY <1>7, <2>1, SlotHolders DEF Free
  <2>3. Carried(i, d) = "left" /\ Carried(i, d + 1) = "right"
    BY <1>7, <2>1 DEF Carried, sec
  <2>4. d + 1 # d
    BY <1>7 DEF Slot
  <2>5. channels' = [channels EXCEPT
            ![d]     = [mode |-> 1, section |-> i, arg |-> IF Opens THEN i ELSE NULL],
            ![d + 1] = [mode |-> 2, section |-> i, arg |-> @.arg]]
    BY <1>6, <1>9 DEF AllocStereo, Allocated
  <2>6. channels'[d] = [mode |-> 1, section |-> i, arg |-> IF Opens THEN i ELSE NULL]
        /\ channels'[d + 1] = [mode |-> 2, section |-> i, arg |-> NULL]
    BY <1>4, <1>7, <2>1, <2>2, <2>4, <2>5
  <2>7. channels'[d] = Entry(i, d)' /\ channels'[d + 1] = Entry(i, d + 1)'
    BY <1>8, <2>3, <2>6
  <2>8. DOMAIN channels' = Slot /\ \A s \in Slot \ {d, d + 1} : channels'[s] = channels[s]
    BY <1>4, <2>5
  <2> QED BY <1>1, <1>2, <1>3, <1>7, <2>1, <2>7, <2>8
<1>10. CASE AllocMono
  <2>1. sec.mode # "s" /\ channels[d].mode = 0
        /\ channels' = [channels EXCEPT
               ![d] = [mode |-> 1, section |-> i, arg |-> IF Opens THEN i ELSE NULL]]
    BY <1>6, <1>10 DEF AllocMono, Allocated
  <2>2. Carried(i, d) = "mono"
    BY <2>1 DEF Carried, sec
  <2>3. channels'[d] = Entry(i, d)'
    BY <1>4, <1>7, <1>8, <2>1, <2>2
  <2>4. DOMAIN channels' = Slot /\ \A s \in Slot \ {d} : channels'[s] = channels[s]
    BY <1>4, <2>1
  <2> QED BY <1>1, <1>2, <1>3, <1>7, <2>1, <2>3, <2>4
<1> QED BY <1>9, <1>10

-----------------------------------------------------------------------------
(* Types *)

\* The initial states are of the declared types.
LEMMA InitType == Init => TypeOK
<1> SUFFICES ASSUME Init PROVE TypeOK
  OBVIOUS
<1> USE ProgramAssumption
<1>1. conf \in Configs /\ args \in CommandLines /\ sample_rate = 0 /\ next = 1
  BY DEF Init
<1>2. Len(conf.channels) \in Nat
  BY <1>1
<1>3. FlagTypes
  BY DEF Init, FlagTypes
<1>4. channels \in [Slot -> [mode : 0..2, section : Owner, arg : Owner]]
  BY DEF Init, Free, Owner
<1>5. sa \in [Slot -> [mode : 0..2, section : Owner]]
  BY <1>4 DEF Init, Announced
<1>6. fed \in [Slot -> Owner \X Track \X Amount]
  BY DEF Init, Silent, Owner, Track, Amount
<1>7. closes \in [Sections -> Nat]
  BY DEF Init
<1>8. /\ pc = "options" /\ signals = 0 /\ abort = 0 /\ rf = "none" /\ l = 0 /\ block = "none"
      /\ status = "running" /\ accepted = {} /\ opened = {} /\ ended = {}
  BY DEF Init
<1> QED BY <1>1, <1>2, <1>3, <1>4, <1>5, <1>6, <1>7, <1>8 DEF TypeOK, ValueTypes

\* The loop over the slots stays within the table: what RouteStereo skips is there.
LEMMA RouteInTable ==
    ASSUME TypeOK, FedOK, RouteStereo
    PROVE  l % 2 = 0 /\ l \in Slot /\ l + 1 \in Slot /\ Left(l) = l /\ l + 2 \in 0 .. 2 * Pairs
<1>1. pc = "route" /\ l \in Slot /\ Paired
  BY DEF RouteStereo, Routing
<1>2. l % 2 = 0
  BY <1>1, ProgramAssumption DEF FedOK, Slot
<1>3. \A m \in Nat, p \in Nat : m % 2 = 0 /\ m <= 2 * p - 1 => m + 1 <= 2 * p - 1
  OBVIOUS
<1> QED BY <1>1, <1>2, <1>3, ProgramAssumption DEF Slot, Left

\* Every step of main, of the signal handler and of the calls that hang keeps the types.
LEMMA TypeStep == TypeOK /\ TableOK /\ FedOK /\ Next => TypeOK'
<1> SUFFICES ASSUME TypeOK, TableOK, FedOK, Next PROVE TypeOK'
  OBVIOUS
<1> USE ProgramAssumption DEF optVars, tableVars, sigVars, loopVars, srcVars, Exit
<1>a. FlagTypes'
  BY DEF TypeOK, FlagTypes, Next, MainRuns, Main, Options, Load, Start, Testrun, Stop, Signal,
     OptionEnds, OptionConfig, OptionVerbose, LoadFails, LoadOutput, AllocStereo, AllocMono,
     SkipSection, LoadDone, RateFails, UpdateSA, InstallHandlers, OpenFails, OpenSink,
     StartBlock, RouteStereo, RouteMono, RouteNone, Encode, WriteBlock, LoopExit, RfClose,
     RfCloseFails, SrcClose, Return, Hang, SignalKills, SignalFirst, SignalAgain, Finished, vars, srcVars
<1> SUFFICES ValueTypes'
  BY <1>a DEF TypeOK
<1>b. ValueTypes
  BY DEF TypeOK
<1> USE DEF ValueTypes, Owner, Sections
<1>1. CASE Options
  <2>1. args' \in Seq(STRING)
    <3>1. args' = Tail(args) /\ args # <<>>
      BY <1>1 DEF Options, OptionEnds, OptionConfig, OptionVerbose
    <3>2. args \in Seq(STRING)
      BY <1>b
    <3> QED BY <3>1, <3>2, HeadTailProperties, Zenon
  <2>2. CASE OptionEnds
    BY <1>b, <2>1, <2>2 DEF OptionEnds
  <2>3. CASE OptionConfig
    BY <1>b, <2>1, <2>3 DEF OptionConfig
  <2>4. CASE OptionVerbose
    BY <1>b, <2>1, <2>4 DEF OptionVerbose
  <2> QED BY <1>1, <2>2, <2>3, <2>4 DEF Options
<1>2. CASE LoadFails \/ LoadOutput \/ LoadDone
  BY <1>2, <1>b, ZenonT(40) DEF LoadFails, LoadOutput, LoadDone
<1>3. CASE AllocStereo \/ AllocMono
  <2>1. PICK i : i = next
    OBVIOUS
  <2>2. /\ conf' = conf /\ next' = i + 1 /\ i \in Sections
        /\ accepted' = accepted \cup {i} /\ opened' \in {opened, opened \cup {i}}
        /\ \A s \in SlotsOf(i) : channels'[s] = Entry(i, s)'
        /\ \A s \in Slot \ SlotsOf(i) : channels'[s] = channels[s]
        /\ DOMAIN channels' = Slot
    BY <1>3, <2>1, AllocatedEntries
  <2>3. ASSUME NEW s \in Slot
        PROVE  channels'[s] \in [mode : 0..2, section : Owner, arg : Owner]
    <3>1. CASE s \in SlotsOf(i)
      <4>1. channels'[s] = Entry(i, s)'
        BY <2>2, <3>1
      <4>2. PICK m \in {1, 2}, a \in {NULL, i} : Entry(i, s)' = [mode |-> m, section |-> i, arg |-> a]
        BY DEF Entry
      <4> QED BY <2>2, <4>1, <4>2
    <3>2. CASE s \notin SlotsOf(i)
      BY <1>b, <2>2, <2>3, <3>2
    <3> QED BY <3>1, <3>2
  <2>4. channels' \in [Slot -> [mode : 0..2, section : Owner, arg : Owner]]
    <3>1. channels' = [s \in Slot |-> channels'[s]]
      BY <1>3, <1>b DEF AllocStereo, AllocMono
    <3> QED BY <2>3, <3>1
  <2>5. next' \in 1 .. Len(conf.channels) + 1 /\ accepted' \subseteq 1 .. next' - 1
        /\ opened' \subseteq accepted'
    <3>1. i \in Nat /\ Len(conf.channels) \in Nat /\ i \in 1 .. Len(conf.channels)
      BY <2>1, <2>2, Loaded
    <3>2. accepted \subseteq 1 .. i - 1 /\ opened \subseteq accepted
      BY <1>b, <2>1
    <3>3. 1 .. i - 1 \subseteq 1 .. i /\ i \in 1 .. i /\ next' - 1 = i
      BY <2>2, <3>1
    <3>4. accepted' \subseteq 1 .. next' - 1 /\ opened' \subseteq accepted'
      BY <2>2, <3>2, <3>3
    <3> QED BY <2>2, <3>1, <3>4
  <2>6. UNCHANGED <<conf, args, sample_rate, sa, pc, signals, abort, rf, l, fed, block, status, ended, closes>>
    BY <1>3 DEF AllocStereo, AllocMono
  <2> QED BY <1>b, <2>4, <2>5, <2>6, ZenonT(40)
<1>4. CASE SkipSection
  BY <1>4, <1>b, Loaded DEF SkipSection, Loading
<1>5. CASE Start
  <2>1. CASE UpdateSA
    <3>1. sa' \in [Slot -> [mode : 0..2, section : Owner]]
      BY <1>b, <2>1 DEF UpdateSA, Announced
    <3> QED BY <1>b, <2>1, <3>1 DEF UpdateSA
  <2>2. CASE RateFails \/ InstallHandlers
    BY <1>b, <2>2 DEF RateFails, InstallHandlers
  <2>3. CASE OpenFails \/ OpenSink
    <3>1. rf' \in {"none", "open", "closed", "kept"}
      BY <1>b, <2>3 DEF OpenFails, OpenSink
    <3> QED BY <1>b, <2>3, <3>1 DEF OpenFails, OpenSink
  <2> QED BY <1>5, <2>1, <2>2, <2>3 DEF Start
<1>6. CASE StartBlock
  BY <1>6, <1>b DEF StartBlock, Silent, Track, Amount
<1>7. CASE RouteStereo
  <2>1. l' \in 0 .. 2 * Pairs /\ l \in Slot /\ l + 1 \in Slot
    BY <1>7, RouteInTable DEF RouteStereo
  <2>2. channels[l].arg \in Owner
    BY <1>b, <2>1
  <2>a. PICK i : i = channels[l].arg
    OBVIOUS
  <2>3. PICK much \in Got(i) :
            /\ fed' = IF much = "none" THEN fed
                      ELSE [fed EXCEPT ![l] = <<i, "left", much>>, ![l + 1] = <<i, "right", much>>]
            /\ ended' = Ended(i, much)
    BY <1>7, <2>a DEF RouteStereo
  <2>4. much \in Amount
    BY <2>3 DEF Got, Amount
  <2>5. fed' \in [Slot -> Owner \X Track \X Amount]
    BY <1>b, <2>1, <2>2, <2>a, <2>3, <2>4 DEF Track
  <2>6. ended' \subseteq Sections
    BY <1>b, <2>2, <2>a, <2>3 DEF Ended
  <2> QED BY <1>7, <1>b, <2>1, <2>5, <2>6, SMTT(30) DEF RouteStereo
<1>8. CASE RouteMono
  <2>1. l' \in 0 .. 2 * Pairs /\ l \in Slot
    BY <1>8, <1>b DEF RouteMono, Routing, Slot
  <2>2. channels[l].arg \in Owner
    BY <1>b, <2>1
  <2>a. PICK i : i = channels[l].arg
    OBVIOUS
  <2>3. PICK much \in Got(i) :
            /\ fed' = IF much = "none" THEN fed ELSE [fed EXCEPT ![l] = <<i, "mono", much>>]
            /\ ended' = Ended(i, much)
    BY <1>8, <2>a DEF RouteMono
  <2>4. much \in Amount
    BY <2>3 DEF Got, Amount
  <2>5. fed' \in [Slot -> Owner \X Track \X Amount]
    BY <1>b, <2>1, <2>2, <2>a, <2>3, <2>4 DEF Track
  <2>6. ended' \subseteq Sections
    BY <1>b, <2>2, <2>a, <2>3 DEF Ended
  <2> QED BY <1>8, <1>b, <2>1, <2>5, <2>6 DEF RouteMono
<1>9. CASE RouteNone
  <2>1. l' \in 0 .. 2 * Pairs
    BY <1>9, <1>b DEF RouteNone, Routing, Slot
  <2> QED BY <1>9, <1>b, <2>1 DEF RouteNone
<1>10. CASE Encode \/ WriteBlock \/ LoopExit
  BY <1>10, <1>b DEF Encode, WriteBlock, LoopExit
<1>11. CASE RfClose \/ RfCloseFails \/ Return
  <2>1. rf' \in {"none", "open", "closed", "kept"} /\ l' \in 0 .. 2 * Pairs
    BY <1>11, <1>b DEF RfClose, RfCloseFails, Return
  <2> QED BY <1>11, <1>b, <2>1 DEF RfClose, RfCloseFails, Return
<1>12. CASE SrcClose
  <2>1. l' \in 0 .. 2 * Pairs /\ l \in Slot
    BY <1>12, <1>b DEF SrcClose, Slot
  <2>2. channels[l].arg \in Owner
    BY <1>b, <2>1
  <2>3. closes' \in [Sections -> Nat]
    BY <1>12, <1>b, <2>1, <2>2 DEF SrcClose, NULL
  <2> QED BY <1>12, <1>b, <2>1, <2>3 DEF SrcClose
<1>13. CASE Signal \/ Hang
  <2>1. CASE Hang
    BY <1>b, <2>1 DEF Hang
  <2>2. CASE Signal
    <3>1. signals' \in 0..MaxSignals
      BY <1>b, <2>2 DEF Signal, SignalKills, SignalFirst, SignalAgain, Sent
    <3>2. CASE SignalKills
      BY <1>b, <3>1, <3>2 DEF SignalKills
    <3>3. CASE SignalFirst
      BY <1>b, <3>1, <3>3 DEF SignalFirst
    <3>4. CASE SignalAgain
      BY <1>b, <3>1, <3>4 DEF SignalAgain
    <3> QED BY <2>2, <3>2, <3>3, <3>4 DEF Signal
  <2> QED BY <1>13, <2>1, <2>2
<1>14. CASE Finished
  BY <1>14, <1>b DEF Finished, vars
<1> QED BY <1>1, <1>2, <1>3, <1>4, <1>5, <1>6, <1>7, <1>8, <1>9, <1>10, <1>11, <1>12, <1>13, <1>14
        DEF Next, MainRuns, Main, Load, Testrun, Stop

-----------------------------------------------------------------------------
(* The table of slots *)

\* Only the loading of a section changes the table.
LEMMA TableFrame ==
    Next => AllocStereo \/ AllocMono \/ SkipSection
              \/ UNCHANGED <<conf, next, channels, accepted, opened>>
BY DEF Next, MainRuns, Main, Options, Load, Start, Testrun, Stop, Signal,
   OptionEnds, OptionConfig, OptionVerbose, LoadFails, LoadOutput, LoadDone, RateFails, UpdateSA,
   InstallHandlers, OpenFails, OpenSink, StartBlock, RouteStereo, RouteMono, RouteNone, Encode,
   WriteBlock, LoopExit, RfClose, RfCloseFails, SrcClose, Return, Hang, SignalKills, SignalFirst, SignalAgain,
   Finished, vars, tableVars, srcVars

\* The table holds the accepted sections and no others after every step.
LEMMA TableStep == TypeOK /\ TableOK /\ Next => TableOK'
<1> SUFFICES ASSUME TypeOK, TableOK, Next PROVE TableOK'
  OBVIOUS
<1>1. CASE UNCHANGED <<conf, next, channels, accepted, opened>>
  BY <1>1 DEF TableOK, SlotsOf, Entry, Carried
<1>2. CASE SkipSection
  <2>1. /\ UNCHANGED <<conf, channels, accepted, opened>> /\ next' = next + 1 /\ Loading
        /\ \/ ~ValidChannel \/ sec.mode \notin {"s", "a", "b"}
           \/ ValidChannel /\ channels[c].mode # 0
           \/ ValidChannel /\ sec.mode = "s" /\ channels[c + 1].mode # 0
    BY <1>2 DEF SkipSection
  <2>2. /\ \A i \in accepted' : Valid(conf.channels[i])'
        /\ \A i \in accepted' : \A s \in SlotsOf(i)' : channels'[s] = Entry(i, s)'
        /\ \A s \in Slot : channels'[s] # Free => \E i \in accepted' : s \in SlotsOf(i)'
    BY <2>1 DEF TableOK, SlotsOf, Entry, Carried
  <2>3. PICK i : i = next
    OBVIOUS
  <2>4. ASSUME Valid(conf.channels[i])
        PROVE  \E j \in accepted : j < i /\ SlotsOf(i) \cap SlotsOf(j) # {}
    <3>1. ValidChannel /\ sec.mode \in {"s", "a", "b"}
      BY <2>3, <2>4 DEF Valid, ValidChannel, sec
    <3>2. /\ c \in Slot /\ c \in SlotsOf(i)
          /\ sec.mode = "s" => c + 1 \in Slot /\ c + 1 \in SlotsOf(i)
      BY <2>1, <2>3, <3>1, NextSlots
    <3>3. PICK s \in Slot : s \in SlotsOf(i) /\ channels[s].mode # 0
      BY <2>1, <3>1, <3>2
    <3>4. PICK j \in accepted : s \in SlotsOf(j)
      BY <3>3, SlotHolders
    <3>5. j < i
      BY <2>3, Loaded DEF TypeOK, ValueTypes
    <3> QED BY <3>3, <3>4, <3>5
  <2>5. \A j \in 1 .. next' - 1 : j \in 1 .. next - 1 \/ j = i
    BY <2>1, <2>3, Loaded
  <2>6. ASSUME NEW j \in 1 .. next' - 1, j \notin accepted, Valid(conf.channels[j])
        PROVE  \E m \in accepted : m < j /\ SlotsOf(j) \cap SlotsOf(m) # {}
    BY <2>4, <2>5, <2>6 DEF TableOK
  <2> QED BY <2>1, <2>2, <2>6 DEF TableOK, SlotsOf
<1>3. CASE AllocStereo \/ AllocMono
  <2>1. PICK i : i = next
    OBVIOUS
  <2>2. /\ accepted' = accepted \cup {i} /\ i \notin accepted
        /\ next' = i + 1 /\ i \in Sections /\ conf' = conf
        /\ opened' \in {opened, opened \cup {i}}
        /\ Valid(conf.channels[i]) /\ SlotsOf(i) \subseteq Slot
        /\ \A s \in SlotsOf(i) : channels[s].mode = 0 /\ channels'[s] = Entry(i, s)'
        /\ \A s \in Slot \ SlotsOf(i) : channels'[s] = channels[s]
    BY <1>3, <2>1, AllocatedEntries
  <2>3. \A j : SlotsOf(j)' = SlotsOf(j) /\ Valid(conf.channels[j])' = Valid(conf.channels[j])
    BY <2>2 DEF SlotsOf
  <2>4. \A j \in accepted' : Valid(conf.channels[j])'
    BY <2>2, <2>3 DEF TableOK
  <2>5. ASSUME NEW j \in accepted', NEW s \in SlotsOf(j)
        PROVE  channels'[s] = Entry(j, s)'
    <3>1. CASE j = i
      BY <2>2, <2>5, <3>1
    <3>2. CASE j # i
      <4>1. j \in accepted /\ channels[s] = Entry(j, s)
        BY <2>2, <2>5, <3>2 DEF TableOK
      <4>2. s \in Slot
        BY <4>1, SlotsOfSection DEF TableOK, Valid
      <4>3. s \notin SlotsOf(i)
        BY <2>2, <2>5, <4>1, <4>2, SlotHolders
      <4>4. Entry(j, s)' = Entry(j, s)
        BY <2>2, <3>2 DEF Entry, Carried
      <4> QED BY <2>2, <4>1, <4>2, <4>3, <4>4
    <3> QED BY <3>1, <3>2
  <2>6. ASSUME NEW s \in Slot, channels'[s] # Free
        PROVE  \E j \in accepted' : s \in SlotsOf(j)
    BY <2>2, <2>6 DEF TableOK
  <2>7. ASSUME NEW j \in 1 .. next' - 1, j \notin accepted', Valid(conf.channels[j])
        PROVE  \E m \in accepted' : m < j /\ SlotsOf(j) \cap SlotsOf(m) # {}
    <3>1. j \in 1 .. next - 1 /\ j \notin accepted
      BY <2>1, <2>2, <2>7, Loaded
    <3> QED BY <2>2, <2>7, <3>1 DEF TableOK
  <2> QED BY <2>3, <2>4, <2>5, <2>6, <2>7 DEF TableOK
<1> QED BY <1>1, <1>2, <1>3, TableFrame

-----------------------------------------------------------------------------
(* Phases and SA data *)

\* The handler is installed once the sink is about to be opened, and the status says how
\* the process ended exactly when it has.
LEMMA PhaseStep == TypeOK /\ PhaseOK /\ Next => PhaseOK'
<1> SUFFICES ASSUME TypeOK, PhaseOK, Next PROVE PhaseOK'
  OBVIOUS
<1>1. pc' = "options" => next' = 1
  BY DEF PhaseOK, Loading, Routing, tableVars,
     Next, MainRuns, Main, Options, Load, Start, Testrun, Stop, Signal,
     OptionEnds, OptionConfig, OptionVerbose, LoadFails, LoadOutput, LoadDone, AllocStereo,
     AllocMono, SkipSection, RateFails, UpdateSA, InstallHandlers, OpenFails, OpenSink, StartBlock,
     RouteStereo, RouteMono, RouteNone, Encode, WriteBlock, LoopExit, RfClose, RfCloseFails, SrcClose, Return,
     Hang, Sent, SignalKills, SignalFirst, SignalAgain, Finished, Exit, vars, srcVars
<1>2. pc' \in Starting => ~handlers'
  BY DEF PhaseOK, Starting, Loading, Routing, sigVars,
     Next, MainRuns, Main, Options, Load, Start, Testrun, Stop, Signal,
     OptionEnds, OptionConfig, OptionVerbose, LoadFails, LoadOutput, LoadDone, AllocStereo,
     AllocMono, SkipSection, RateFails, UpdateSA, InstallHandlers, OpenFails, OpenSink, StartBlock,
     RouteStereo, RouteMono, RouteNone, Encode, WriteBlock, LoopExit, RfClose, RfCloseFails, SrcClose, Return,
     Hang, Sent, SignalKills, SignalFirst, SignalAgain, Finished, Exit, vars, srcVars
<1>3. status' = "running" <=> pc' # "exit"
  BY DEF PhaseOK, Loading, Routing,
     Next, MainRuns, Main, Options, Load, Start, Testrun, Stop, Signal,
     OptionEnds, OptionConfig, OptionVerbose, LoadFails, LoadOutput, LoadDone, AllocStereo,
     AllocMono, SkipSection, RateFails, UpdateSA, InstallHandlers, OpenFails, OpenSink, StartBlock,
     RouteStereo, RouteMono, RouteNone, Encode, WriteBlock, LoopExit, RfClose, RfCloseFails, SrcClose, Return,
     Hang, Sent, SignalKills, SignalFirst, SignalAgain, Finished, Exit, vars, srcVars
<1> QED BY <1>1, <1>2, <1>3 DEF PhaseOK

\* dsr_update_sa is the last to write the SA data, and comes after the last section.
LEMMA SAStep == TypeOK /\ SAOK /\ Next => SAOK'
BY DEF SAOK, Announced, Loading, Routing, tableVars,
     Next, MainRuns, Main, Options, Load, Start, Testrun, Stop, Signal,
     OptionEnds, OptionConfig, OptionVerbose, LoadFails, LoadOutput, LoadDone, AllocStereo,
     AllocMono, SkipSection, RateFails, UpdateSA, InstallHandlers, OpenFails, OpenSink, StartBlock,
     RouteStereo, RouteMono, RouteNone, Encode, WriteBlock, LoopExit, RfClose, RfCloseFails, SrcClose, Return,
     Hang, Sent, SignalKills, SignalFirst, SignalAgain, Finished, Exit, vars, srcVars

-----------------------------------------------------------------------------
(* Routing *)

\* No slot is held by two sections.
LEMMA OneHolder ==
    ASSUME TableOK, NEW i \in accepted, NEW j \in accepted, NEW s \in SlotsOf(i), s \in SlotsOf(j)
    PROVE  i = j
<1>1. Entry(i, s) = Entry(j, s)
  BY DEF TableOK
<1> QED BY <1>1 DEF Entry

\* What an entry of the table says of its section.
LEMMA EntryFacts ==
    ASSUME NEW i, NEW s
    PROVE  /\ Entry(i, s).section = i
           /\ Entry(i, s).mode = 2 <=> Carried(i, s) = "right"
           /\ Entry(i, s).mode = 1 <=> Carried(i, s) # "right"
           /\ Carried(i, s) # "right" => Entry(i, s).arg = IF i \in opened THEN i ELSE NULL
           /\ Carried(i, s) = "right" => Entry(i, s).arg = NULL
BY DEF Entry

\* The left slot of a pair.
LEMMA LeftFacts ==
    ASSUME NEW s \in Slot
    PROVE  /\ s \in Nat /\ s % 2 \in {0, 1}
           /\ s % 2 = 0 => Left(s) = s /\ (s + 1) % 2 = 1 /\ (s + 2) % 2 = 0 /\ s + 1 \in Slot
                            /\ Left(s + 1) = s
           /\ s % 2 = 1 => Left(s) = s - 1 /\ s - 1 \in Slot /\ (s + 1) % 2 = 0
BY ProgramAssumption DEF Left, Slot

\* Both slots of a pair in use as left and right belong to one stereo section.
LEMMA PairHolder ==
    ASSUME TypeOK, TableOK, NEW s \in Slot, s % 2 = 0, s + 1 \in Slot, channels[s + 1].mode = 2
    PROVE  \E i \in accepted :
               /\ SlotsOf(i) = {s, s + 1}
               /\ Carried(i, s) = "left" /\ Carried(i, s + 1) = "right"
<1>1. PICK i \in accepted : s + 1 \in SlotsOf(i) /\ channels[s + 1] = Entry(i, s + 1)
  BY SlotHolders
<1>2. conf.channels[i].mode = "s"
  BY <1>1, EntryFacts DEF Carried
<1>3. Valid(conf.channels[i])
  BY DEF TableOK
<1> DEFINE left == (conf.channels[i].channel - 1) * 2
<1>4. left \in Slot /\ left % 2 = 0 /\ SlotsOf(i) = {left, left + 1}
  BY <1>2, <1>3, SlotsOfSection
<1>5. left = s
  <2> HIDE DEF left
  <2> QED BY <1>1, <1>4, LeftFacts
<1>6. Carried(i, s) = "left" /\ Carried(i, s + 1) = "right"
  BY <1>2, LeftFacts DEF Carried
<1> QED BY <1>4, <1>5, <1>6

\* RouteStereo is at the left slot of a stereo section.
LEMMA StereoAt ==
    ASSUME TypeOK, TableOK, FedOK, RouteStereo
    PROVE  \E i \in accepted :
               /\ SlotsOf(i) = {l, l + 1}
               /\ Carried(i, l) = "left" /\ Carried(i, l + 1) = "right"
               /\ channels[l].arg = IF i \in opened THEN i ELSE NULL
<1>1. l % 2 = 0 /\ l \in Slot /\ l + 1 \in Slot /\ Left(l) = l
  BY RouteInTable
<1>2. channels[l + 1].mode = 2
  BY <1>1 DEF RouteStereo, Paired
<1>3. PICK i \in accepted :
          SlotsOf(i) = {l, l + 1} /\ Carried(i, l) = "left" /\ Carried(i, l + 1) = "right"
  BY <1>1, <1>2, PairHolder
<1>4. channels[l] = Entry(i, l)
  BY <1>3 DEF TableOK
<1> QED BY <1>3, <1>4, EntryFacts

\* RouteMono is at the slot of a mono section.
LEMMA MonoAt ==
    ASSUME TypeOK, TableOK, RouteMono
    PROVE  \E i \in accepted :
               /\ SlotsOf(i) = {l} /\ Carried(i, l) = "mono"
               /\ channels[l].arg = IF i \in opened THEN i ELSE NULL
<1>1. l \in Slot /\ ~Paired /\ channels[l].mode = 1
  BY DEF RouteMono, Routing
<1>2. PICK i \in accepted : l \in SlotsOf(i) /\ channels[l] = Entry(i, l)
  BY <1>1, SlotHolders
<1>3. Valid(conf.channels[i])
  BY DEF TableOK
<1>4. Carried(i, l) # "right"
  BY <1>1, <1>2, EntryFacts
<1>5. conf.channels[i].mode # "s"
  <2> SUFFICES ASSUME conf.channels[i].mode = "s" PROVE FALSE
    OBVIOUS
  <2>1. l % 2 = 0
    BY <1>4 DEF Carried
  <2>2. Left(l) = l /\ (l + 1) % 2 = 1
    BY <1>1, <2>1, LeftFacts
  <2> DEFINE left == (conf.channels[i].channel - 1) * 2
  <2>3. left \in Slot /\ left % 2 = 0 /\ (left + 1) % 2 = 1 /\ SlotsOf(i) = {left, left + 1}
    BY <1>3, SlotsOfSection
  <2>4. l + 1 \in SlotsOf(i)
    <3> HIDE DEF left
    <3> QED BY <1>2, <2>1, <2>3
  <2>5. channels[l + 1] = Entry(i, l + 1) /\ Carried(i, l + 1) = "right"
    BY <2>2, <2>4 DEF TableOK, Carried
  <2>6. channels[l + 1].mode = 2
    BY <2>5, EntryFacts
  <2> QED BY <1>1, <2>2, <2>6 DEF Paired
<1>6. SlotsOf(i) = {l} /\ Carried(i, l) = "mono"
  BY <1>2, <1>3, <1>5, SlotsOfSection DEF Valid, Carried
<1> QED BY <1>2, <1>4, <1>6, EntryFacts

\* RouteNone is at a free slot: the right slot of a stereo section is never met alone.
LEMMA NoneAt ==
    ASSUME TypeOK, TableOK, RouteNone
    PROVE  l \in Slot /\ channels[l] = Free
<1>1. l \in Slot /\ ~Paired /\ channels[l].mode # 1
  BY DEF RouteNone, Routing
<1>2. channels[l].mode # 2
  <2> SUFFICES ASSUME channels[l].mode = 2 PROVE FALSE
    OBVIOUS
  <2>1. PICK i \in accepted : l \in SlotsOf(i) /\ channels[l] = Entry(i, l)
    BY <1>1, SlotHolders
  <2>2. l % 2 = 1
    <3>1. Carried(i, l) = "right"
      BY <2>1, EntryFacts
    <3>2. l % 2 # 0
      BY <3>1 DEF Carried
    <3> QED BY <1>1, <3>2, LeftFacts
  <2>3. PICK s \in Slot : s = l - 1 /\ l = s + 1 /\ s % 2 = 0 /\ Left(l) = s
    <3>1. l - 1 \in Slot /\ Left(l) = l - 1
      BY <1>1, <2>2, LeftFacts
    <3>2. (l - 1) % 2 = 0 /\ l = (l - 1) + 1
      BY <1>1, <2>2, ProgramAssumption DEF Slot
    <3> QED BY <3>1, <3>2
  <2>4. PICK j \in accepted : SlotsOf(j) = {s, s + 1} /\ Carried(j, s) = "left"
    BY <1>1, <2>3, PairHolder
  <2>5. channels[s] = Entry(j, s)
    BY <2>4 DEF TableOK
  <2>6. channels[s].mode = 1
    BY <2>4, <2>5, EntryFacts
  <2> QED BY <1>1, <2>3, <2>6 DEF Paired
<1>3. channels[l].mode \in 0..2
  BY <1>1 DEF TypeOK, ValueTypes
<1> QED BY <1>1, <1>2, <1>3, SlotHolders

\* Only the steps of the loop over the slots touch the block.
LEMMA FedFrame ==
    Next => \/ StartBlock \/ RouteStereo \/ RouteMono \/ RouteNone \/ Encode
            \/ pc' \notin {"route", "write"}
            \/ UNCHANGED <<conf, channels, accepted, opened, ended, pc, l, fed>>
BY DEF tableVars, loopVars, Loading, Routing,
     Next, MainRuns, Main, Options, Load, Start, Testrun, Stop, Signal,
     OptionEnds, OptionConfig, OptionVerbose, LoadFails, LoadOutput, LoadDone, AllocStereo,
     AllocMono, SkipSection, RateFails, UpdateSA, InstallHandlers, OpenFails, OpenSink, StartBlock,
     RouteStereo, RouteMono, RouteNone, Encode, WriteBlock, LoopExit, RfClose, RfCloseFails, SrcClose, Return,
     Hang, Sent, SignalKills, SignalFirst, SignalAgain, Finished, Exit, vars, srcVars

\* Every holder's slots are slots of the table.
LEMMA HeldSlots ==
    ASSUME TableOK, NEW i \in accepted
    PROVE  SlotsOf(i) \subseteq Slot
BY SlotsOfSection DEF TableOK, Valid

\* Before its slots are reached a section is silent.
LEMMA NotYet ==
    ASSUME FedSlots, NEW i \in accepted, NEW s \in SlotsOf(i), ~(s < l)
    PROVE  fed[s] = Silent
BY DEF FedSlots, FedBy, Heard

\* What is read from the source of a section: nothing new but that it may have ended.
LEMMA WhatIsRead ==
    ASSUME TypeOK, NEW i \in accepted, NEW arg, arg = (IF i \in opened THEN i ELSE NULL),
           NEW much \in Got(arg), ended' = Ended(arg, much)
    PROVE  /\ i \in opened => arg = i /\ much \in (IF i \in ended' THEN {"part", "none"} ELSE {"all"})
           /\ i \notin opened => much = "none" /\ ended' = ended
           /\ \A j : j # i => (j \in ended' <=> j \in ended)
<1>1. i # NULL
  BY Loaded
<1> QED BY <1>1 DEF Got, Ended

\* Sections whose slots are neither filled nor passed by a step keep what they have.
LEMMA OthersKeep ==
    ASSUME TableOK, FedSlots, UNCHANGED <<conf, opened>>, NEW j \in accepted,
           j \in ended' <=> j \in ended,
           \A s \in SlotsOf(j) : fed'[s] = fed[s] /\ (s < l' <=> s < l)
    PROVE  FedBy(j)'
<1>1. PICK much \in Gave(j) : \A s \in SlotsOf(j) : fed[s] = Heard(j, s, much)
  BY DEF FedSlots, FedBy
<1>2. SlotsOf(j)' = SlotsOf(j) /\ Gave(j)' = Gave(j)
  BY DEF SlotsOf, Gave
<1>3. \A s \in SlotsOf(j) : fed'[s] = Heard(j, s, much)'
  BY <1>1 DEF Heard, Carried
<1> QED BY <1>1, <1>2, <1>3 DEF FedBy

\* A stereo read fills the two slots of its section and no other.
LEMMA FedStereo == TypeOK /\ TableOK /\ FedOK /\ RouteStereo => FedSlots'
<1> SUFFICES ASSUME TypeOK, TableOK, FedOK, RouteStereo PROVE FedSlots'
  OBVIOUS
<1>1. PICK m : m = l
  OBVIOUS
<1>2. m \in Slot /\ m + 1 \in Slot /\ m \in Nat
  BY <1>1, RouteInTable DEF Slot
<1>3. PICK i \in accepted :
          /\ SlotsOf(i) = {m, m + 1}
          /\ Carried(i, m) = "left" /\ Carried(i, m + 1) = "right"
          /\ channels[m].arg = IF i \in opened THEN i ELSE NULL
  BY <1>1, StereoAt
<1>4. fed \in [Slot -> Owner \X Track \X Amount]
  BY DEF TypeOK, ValueTypes
<1>5. /\ UNCHANGED <<conf, channels, accepted, opened>> /\ l' = m + 2
      /\ \E much \in Got(channels[m].arg) :
             /\ fed' = IF much = "none" THEN fed
                       ELSE [fed EXCEPT ![m] = <<channels[m].arg, "left", much>>,
                                        ![m + 1] = <<channels[m].arg, "right", much>>]
             /\ ended' = Ended(channels[m].arg, much)
  BY <1>1 DEF RouteStereo, tableVars
<1>a. PICK arg : arg = channels[m].arg
  OBVIOUS
<1>6. PICK much \in Got(arg) :
          /\ fed' = IF much = "none" THEN fed
                    ELSE [fed EXCEPT ![m] = <<arg, "left", much>>, ![m + 1] = <<arg, "right", much>>]
          /\ ended' = Ended(arg, much)
  BY <1>5, <1>a
<1>7. /\ i \in opened => arg = i /\ much \in (IF i \in ended' THEN {"part", "none"} ELSE {"all"})
      /\ i \notin opened => much = "none" /\ ended' = ended
      /\ \A j : j # i => (j \in ended' <=> j \in ended)
  BY <1>3, <1>a, <1>6, WhatIsRead
<1>8. FedSlots
  BY DEF FedOK, RouteStereo, Routing
<1>9. fed[m] = Silent /\ fed[m + 1] = Silent
  <2>1. ~(m < l) /\ ~(m + 1 < l)
    BY <1>1, <1>2
  <2> QED BY <1>3, <1>8, <2>1, NotYet
<1>10. \A s \in Slot \ {m, m + 1} : fed'[s] = fed[s]
  BY <1>2, <1>4, <1>6
<1>11. \A j : SlotsOf(j)' = SlotsOf(j) /\ \A s : Carried(j, s)' = Carried(j, s)
  BY <1>5 DEF SlotsOf, Carried
<1>12. FedBy(i)'
  <2>1. CASE i \in opened
    <3>1. fed'[m] = Heard(i, m, much)' /\ fed'[m + 1] = Heard(i, m + 1, much)'
      <4>1. m < l' /\ m + 1 < l' /\ m # m + 1
        BY <1>2, <1>5
      <4>2. CASE much = "none"
        BY <1>6, <1>9, <4>2 DEF Heard
      <4>3. CASE much # "none"
        <5>1. fed'[m] = <<i, "left", much>> /\ fed'[m + 1] = <<i, "right", much>>
          BY <1>2, <1>4, <1>6, <1>7, <2>1, <4>1, <4>3
        <5> QED BY <1>3, <1>5, <1>11, <2>1, <4>1, <4>3, <5>1 DEF Heard
      <4> QED BY <4>2, <4>3
    <3>2. much \in Gave(i)'
      BY <1>7, <2>1 DEF Gave
    <3> QED BY <1>3, <1>11, <3>1, <3>2 DEF FedBy
  <2>2. CASE i \notin opened
    <3>1. fed' = fed /\ \A s, k : Heard(i, s, k)' = Silent
      BY <1>5, <1>6, <1>7, <2>2 DEF Heard
    <3>2. \E k : k \in Gave(i)'
      BY DEF Gave
    <3> QED BY <1>3, <1>9, <1>11, <3>1, <3>2 DEF FedBy
  <2> QED BY <2>1, <2>2
<1>13. ASSUME NEW j \in accepted, j # i
       PROVE  FedBy(j)'
  <2>1. ASSUME NEW s \in SlotsOf(j)
        PROVE  fed'[s] = fed[s] /\ (s < l' <=> s < l)
    <3>1. s \in Slot /\ s \in Nat
      BY HeldSlots DEF Slot
    <3>2. s \notin {m, m + 1}
      BY <1>3, <1>13, OneHolder
    <3>3. s < l' <=> s < l
      BY <1>1, <1>2, <1>5, <3>1, <3>2
    <3> QED BY <1>10, <3>1, <3>2, <3>3
  <2> QED BY <1>5, <1>7, <1>8, <1>13, <2>1, OthersKeep
<1>14. ASSUME NEW s \in Slot, channels[s] = Free
       PROVE  fed'[s] = Silent
  <2>1. s \notin SlotsOf(i)
    BY <1>14, SlotHolders DEF Free
  <2> QED BY <1>3, <1>8, <1>10, <1>14, <2>1 DEF FedSlots
<1> QED BY <1>5, <1>12, <1>13, <1>14 DEF FedSlots

\* A mono read fills the slot of its section and no other.
LEMMA FedMono == TypeOK /\ TableOK /\ FedOK /\ RouteMono => FedSlots'
<1> SUFFICES ASSUME TypeOK, TableOK, FedOK, RouteMono PROVE FedSlots'
  OBVIOUS
<1>1. PICK m : m = l
  OBVIOUS
<1>2. m \in Slot /\ m \in Nat
  BY <1>1 DEF RouteMono, Routing, Slot
<1>3. PICK i \in accepted :
          /\ SlotsOf(i) = {m} /\ Carried(i, m) = "mono"
          /\ channels[m].arg = IF i \in opened THEN i ELSE NULL
  BY <1>1, MonoAt
<1>4. fed \in [Slot -> Owner \X Track \X Amount]
  BY DEF TypeOK, ValueTypes
<1>5. /\ UNCHANGED <<conf, channels, accepted, opened>> /\ l' = m + 1
      /\ \E much \in Got(channels[m].arg) :
             /\ fed' = IF much = "none" THEN fed
                       ELSE [fed EXCEPT ![m] = <<channels[m].arg, "mono", much>>]
             /\ ended' = Ended(channels[m].arg, much)
  BY <1>1 DEF RouteMono, tableVars
<1>a. PICK arg : arg = channels[m].arg
  OBVIOUS
<1>6. PICK much \in Got(arg) :
          /\ fed' = IF much = "none" THEN fed ELSE [fed EXCEPT ![m] = <<arg, "mono", much>>]
          /\ ended' = Ended(arg, much)
  BY <1>5, <1>a
<1>7. /\ i \in opened => arg = i /\ much \in (IF i \in ended' THEN {"part", "none"} ELSE {"all"})
      /\ i \notin opened => much = "none" /\ ended' = ended
      /\ \A j : j # i => (j \in ended' <=> j \in ended)
  BY <1>3, <1>a, <1>6, WhatIsRead
<1>8. FedSlots
  BY DEF FedOK, RouteMono, Routing
<1>9. fed[m] = Silent
  <2>1. ~(m < l)
    BY <1>1, <1>2
  <2> QED BY <1>3, <1>8, <2>1, NotYet
<1>10. \A s \in Slot \ {m} : fed'[s] = fed[s]
  BY <1>2, <1>4, <1>6
<1>11. \A j : SlotsOf(j)' = SlotsOf(j) /\ \A s : Carried(j, s)' = Carried(j, s)
  BY <1>5 DEF SlotsOf, Carried
<1>12. FedBy(i)'
  <2>1. CASE i \in opened
    <3>1. fed'[m] = Heard(i, m, much)'
      <4>1. m < l'
        BY <1>2, <1>5
      <4>2. CASE much = "none"
        BY <1>6, <1>9, <4>2 DEF Heard
      <4>3. CASE much # "none"
        <5>1. fed'[m] = <<i, "mono", much>>
          BY <1>2, <1>4, <1>6, <1>7, <2>1, <4>3
        <5> QED BY <1>3, <1>5, <1>11, <2>1, <4>1, <4>3, <5>1 DEF Heard
      <4> QED BY <4>2, <4>3
    <3>2. much \in Gave(i)'
      BY <1>7, <2>1 DEF Gave
    <3> QED BY <1>3, <1>11, <3>1, <3>2 DEF FedBy
  <2>2. CASE i \notin opened
    <3>1. fed' = fed /\ \A s, k : Heard(i, s, k)' = Silent
      BY <1>5, <1>6, <1>7, <2>2 DEF Heard
    <3>2. \E k : k \in Gave(i)'
      BY DEF Gave
    <3> QED BY <1>3, <1>9, <1>11, <3>1, <3>2 DEF FedBy
  <2> QED BY <2>1, <2>2
<1>13. ASSUME NEW j \in accepted, j # i
       PROVE  FedBy(j)'
  <2>1. ASSUME NEW s \in SlotsOf(j)
        PROVE  fed'[s] = fed[s] /\ (s < l' <=> s < l)
    <3>1. s \in Slot /\ s \in Nat
      BY HeldSlots DEF Slot
    <3>2. s # m
      BY <1>3, <1>13, OneHolder
    <3>3. s < l' <=> s < l
      BY <1>1, <1>2, <1>5, <3>1, <3>2
    <3> QED BY <1>10, <3>1, <3>2, <3>3
  <2> QED BY <1>5, <1>7, <1>8, <1>13, <2>1, OthersKeep
<1>14. ASSUME NEW s \in Slot, channels[s] = Free
       PROVE  fed'[s] = Silent
  <2>1. s \notin SlotsOf(i)
    BY <1>14, SlotHolders DEF Free
  <2> QED BY <1>3, <1>8, <1>10, <1>14, <2>1 DEF FedSlots
<1> QED BY <1>5, <1>12, <1>13, <1>14 DEF FedSlots

\* A slot that is passed over is free and stays silent.
LEMMA FedNone == TypeOK /\ TableOK /\ FedOK /\ RouteNone => FedSlots'
<1> SUFFICES ASSUME TypeOK, TableOK, FedOK, RouteNone PROVE FedSlots'
  OBVIOUS
<1>1. PICK m : m = l
  OBVIOUS
<1>2. m \in Slot /\ m \in Nat /\ channels[m] = Free
  BY <1>1, NoneAt DEF Slot
<1>3. UNCHANGED <<conf, channels, accepted, opened, ended, fed>> /\ l' = m + 1
  BY <1>1 DEF RouteNone, tableVars, srcVars
<1>4. FedSlots
  BY DEF FedOK, RouteNone, Routing
<1>5. ASSUME NEW j \in accepted
      PROVE  FedBy(j)'
  <2>1. ASSUME NEW s \in SlotsOf(j)
        PROVE  fed'[s] = fed[s] /\ (s < l' <=> s < l)
    <3>1. s \in Slot /\ s \in Nat
      BY HeldSlots DEF Slot
    <3>2. s # m
      BY <1>2, <2>1, SlotHolders DEF Free
    <3>3. s < m + 1 <=> s < m
      BY <1>2, <3>1, <3>2
    <3> QED BY <1>1, <1>3, <3>3
  <2> QED BY <1>3, <1>4, <2>1, OthersKeep
<1>6. \A s \in Slot : channels[s] = Free => fed'[s] = Silent
  BY <1>3, <1>4 DEF FedSlots
<1> QED BY <1>3, <1>5, <1>6 DEF FedSlots

\* Between an even slot and the next the loop stays with the same pair.
LEMMA NeverAlone ==
    TypeOK /\ FedOK /\ (RouteStereo \/ RouteMono \/ RouteNone) /\ l' \in Slot /\ l' % 2 = 1
        => ~Paired'
<1> SUFFICES ASSUME TypeOK, FedOK, RouteStereo \/ RouteMono \/ RouteNone, l' \in Slot, l' % 2 = 1
             PROVE  ~Paired'
  OBVIOUS
<1>1. CASE RouteStereo
  <2>1. l \in Slot /\ l % 2 = 0 /\ l' = l + 2
    BY <1>1, RouteInTable DEF RouteStereo
  <2>2. (l + 2) % 2 = 0
    BY <2>1, LeftFacts
  <2> QED BY <2>1, <2>2
<1>2. CASE RouteMono \/ RouteNone
  <2>1. PICK m : m = l
    OBVIOUS
  <2>2. m \in Slot /\ m \in Nat /\ l' = m + 1 /\ channels' = channels /\ ~Paired
    BY <1>2, <2>1 DEF RouteMono, RouteNone, Routing, tableVars, Slot
  <2>3. m % 2 = 0
    BY <2>2, LeftFacts
  <2>4. Left(m) = m /\ Left(m + 1) = m
    BY <2>2, <2>3, LeftFacts
  <2>5. Paired' <=> channels'[Left(m + 1)].mode = 1 /\ channels'[Left(m + 1) + 1].mode = 2
    BY <2>2 DEF Paired, Left
  <2> QED BY <2>1, <2>2, <2>4, <2>5 DEF Paired
<1> QED BY <1>1, <1>2

\* After every step the slots below l have been fed, and no others.
LEMMA FedStep == TypeOK /\ TableOK /\ FedOK /\ Next => FedOK'
<1> SUFFICES ASSUME TypeOK, TableOK, FedOK, Next PROVE FedOK'
  OBVIOUS
<1>1. CASE StartBlock
  <2>1. UNCHANGED <<conf, channels, accepted, opened>> /\ l' = 0 /\ pc' = "route"
        /\ fed' = [s \in Slot |-> Silent]
    BY <1>1 DEF StartBlock, tableVars
  <2>2. \A i \in accepted : \A s \in SlotsOf(i) : s \in Slot /\ ~(s < 0)
    BY HeldSlots DEF Slot
  <2>3. \A i : SlotsOf(i)' = SlotsOf(i)
    BY <2>1 DEF SlotsOf
  <2>4. FedSlots'
    <3>1. ASSUME NEW i \in accepted
          PROVE  FedBy(i)'
      <4>1. \A s \in SlotsOf(i) : \A much : Heard(i, s, much)' = Silent
        BY <2>1, <2>2 DEF Heard
      <4>2. \E much : much \in Gave(i)'
        BY DEF Gave
      <4> QED BY <2>1, <2>2, <2>3, <4>1, <4>2 DEF FedBy
    <3> QED BY <2>1, <3>1 DEF FedSlots
  <2>5. l' % 2 = 0
    BY <2>1
  <2> QED BY <2>1, <2>4, <2>5 DEF FedOK
<1>2. CASE RouteStereo \/ RouteMono \/ RouteNone
  <2>1. FedSlots'
    BY <1>2, FedStereo, FedMono, FedNone
  <2>2. pc' = "route"
    BY <1>2 DEF RouteStereo, RouteMono, RouteNone, Routing
  <2>3. l' \in Slot /\ l' % 2 = 1 => ~Paired'
    BY <1>2, NeverAlone
  <2> QED BY <2>1, <2>2, <2>3 DEF FedOK
<1>3. CASE Encode
  <2>1. FedSlots
    BY <1>3 DEF Encode, FedOK
  <2>2. UNCHANGED <<conf, channels, accepted, opened, ended, l, fed>> /\ l \notin Slot /\ pc' = "write"
    BY <1>3 DEF Encode, tableVars, srcVars
  <2>3. FedSlots'
    BY <2>1, <2>2 DEF FedSlots, FedBy, Gave, Heard, SlotsOf, Carried
  <2> QED BY <2>2, <2>3 DEF FedOK
<1>4. CASE pc' \notin {"route", "write"}
  BY <1>4 DEF FedOK
<1>5. CASE UNCHANGED <<conf, channels, accepted, opened, ended, pc, l, fed>>
  BY <1>5 DEF FedOK, FedSlots, FedBy, Gave, Heard, SlotsOf, Carried, Paired, Left
<1> QED BY <1>1, <1>2, <1>3, <1>4, <1>5, FedFrame

-----------------------------------------------------------------------------
(* The sink and the sources at the end *)

\* The sink is opened and closed in order, and every encoded block is written first.
LEMMA SinkStep == TypeOK /\ PhaseOK /\ SinkOK /\ Next => SinkOK'
<1> SUFFICES ASSUME TypeOK, PhaseOK, SinkOK, Next PROVE SinkOK'
  OBVIOUS
<1>1. pc' \in Starting \cup {"open"} => rf' = "none"
  BY DEF SinkOK, Starting, Loading, Routing,
     Next, MainRuns, Main, Options, Load, Start, Testrun, Stop, Signal,
     OptionEnds, OptionConfig, OptionVerbose, LoadFails, LoadOutput, LoadDone, AllocStereo,
     AllocMono, SkipSection, RateFails, UpdateSA, InstallHandlers, OpenFails, OpenSink, StartBlock,
     RouteStereo, RouteMono, RouteNone, Encode, WriteBlock, LoopExit, RfClose, RfCloseFails, SrcClose, Return,
     Hang, Sent, SignalKills, SignalFirst, SignalAgain, Finished, Exit, vars, srcVars
<1>2. pc' \in {"loop", "route", "write", "rf_close"} => rf' = Opened'
  BY DEF SinkOK, Opened, Starting, Loading, Routing,
     Next, MainRuns, Main, Options, Load, Start, Testrun, Stop, Signal,
     OptionEnds, OptionConfig, OptionVerbose, LoadFails, LoadOutput, LoadDone, AllocStereo,
     AllocMono, SkipSection, RateFails, UpdateSA, InstallHandlers, OpenFails, OpenSink, StartBlock,
     RouteStereo, RouteMono, RouteNone, Encode, WriteBlock, LoopExit, RfClose, RfCloseFails, SrcClose, Return,
     Hang, Sent, SignalKills, SignalFirst, SignalAgain, Finished, Exit, vars, srcVars
<1>3. pc' = "src_close" =>
          IF Opened' = "none" THEN rf' = "none"
          ELSE rf' = "closed" \/ (rf' = "kept" /\ conf'.type = "hackrf")
  BY DEF SinkOK, Opened, Loading, Routing,
     Next, MainRuns, Main, Options, Load, Start, Testrun, Stop, Signal,
     OptionEnds, OptionConfig, OptionVerbose, LoadFails, LoadOutput, LoadDone, AllocStereo,
     AllocMono, SkipSection, RateFails, UpdateSA, InstallHandlers, OpenFails, OpenSink, StartBlock,
     RouteStereo, RouteMono, RouteNone, Encode, WriteBlock, LoopExit, RfClose, RfCloseFails, SrcClose, Return,
     Hang, Sent, SignalKills, SignalFirst, SignalAgain, Finished, Exit, vars, srcVars
<1>4. pc' \in Starting \cup {"open", "route"} => block' = "none"
  BY DEF SinkOK, Starting, Loading, Routing, loopVars,
     Next, MainRuns, Main, Options, Load, Start, Testrun, Stop, Signal,
     OptionEnds, OptionConfig, OptionVerbose, LoadFails, LoadOutput, LoadDone, AllocStereo,
     AllocMono, SkipSection, RateFails, UpdateSA, InstallHandlers, OpenFails, OpenSink, StartBlock,
     RouteStereo, RouteMono, RouteNone, Encode, WriteBlock, LoopExit, RfClose, RfCloseFails, SrcClose, Return,
     Hang, Sent, SignalKills, SignalFirst, SignalAgain, Finished, Exit, vars, srcVars
<1>5. NoBlockLost'
  BY DEF SinkOK, Opened, NoBlockLost, Starting, PhaseOK, Loading, Routing, loopVars, TypeOK, ValueTypes,
     Next, MainRuns, Main, Options, Load, Start, Testrun, Stop, Signal,
     OptionEnds, OptionConfig, OptionVerbose, LoadFails, LoadOutput, LoadDone, AllocStereo,
     AllocMono, SkipSection, RateFails, UpdateSA, InstallHandlers, OpenFails, OpenSink, StartBlock,
     RouteStereo, RouteMono, RouteNone, Encode, WriteBlock, LoopExit, RfClose, RfCloseFails, SrcClose, Return,
     Hang, Sent, SignalKills, SignalFirst, SignalAgain, Finished, Exit, vars, srcVars
<1> QED BY <1>1, <1>2, <1>3, <1>4, <1>5 DEF SinkOK

\* Each source is in the entry of its home slot, and in no other.
LEMMA HomeEntry ==
    ASSUME TypeOK, TableOK, NEW i \in accepted
    PROVE  /\ Home(i) \in SlotsOf(i) /\ Home(i) \in Slot
           /\ Carried(i, Home(i)) # "right"
           /\ \A s \in SlotsOf(i) : Carried(i, s) # "right" => s = Home(i)
           /\ channels[Home(i)].arg = IF i \in opened THEN i ELSE NULL
<1> DEFINE left == (conf.channels[i].channel - 1) * 2
<1>1. Valid(conf.channels[i])
  BY DEF TableOK
<1>2. conf.channels[i].mode \in {"s", "a", "b"}
  BY <1>1 DEF Valid
<1>3. /\ left \in Slot /\ left + 1 \in Slot /\ left % 2 = 0 /\ (left + 1) % 2 = 1
      /\ conf.channels[i].mode = "s" => SlotsOf(i) = {left, left + 1}
      /\ conf.channels[i].mode = "a" => SlotsOf(i) = {left}
      /\ conf.channels[i].mode = "b" => SlotsOf(i) = {left + 1}
  BY <1>1, SlotsOfSection
<1>4. Home(i) = IF conf.channels[i].mode = "b" THEN left + 1 ELSE left
  <2>1. left + 0 = left
    BY <1>3 DEF Slot
  <2> QED BY <2>1 DEF Home
<1> HIDE DEF left
<1>5. /\ Home(i) \in SlotsOf(i) /\ Home(i) \in Slot
      /\ Carried(i, Home(i)) # "right"
      /\ \A s \in SlotsOf(i) : Carried(i, s) # "right" => s = Home(i)
  BY <1>2, <1>3, <1>4 DEF Carried
<1>6. channels[Home(i)] = Entry(i, Home(i))
  BY <1>5 DEF TableOK
<1> QED BY <1>5, <1>6, EntryFacts

\* SrcClose closes the source whose home is slot l, if there is one.
LEMMA SrcCloseStep ==
    TypeOK /\ TableOK /\ ClosedOK /\ SrcClose =>
        \A i \in Sections : closes'[i] = IF i \in opened /\ Home(i) < l + 1 THEN 1 ELSE 0
<1> SUFFICES ASSUME TypeOK, TableOK, ClosedOK, SrcClose, NEW i \in Sections
             PROVE  closes'[i] = IF i \in opened /\ Home(i) < l + 1 THEN 1 ELSE 0
  OBVIOUS
<1>1. /\ pc = "src_close" /\ l \in Slot /\ l \in Nat
      /\ closes' = IF channels[l].arg = NULL THEN closes
                   ELSE [closes EXCEPT ![channels[l].arg] = @ + 1]
  BY DEF SrcClose, Slot
<1>2. closes \in [Sections -> Nat] /\ opened \subseteq accepted /\ i # NULL
  BY Loaded DEF TypeOK, ValueTypes
<1>3. closes[i] = IF i \in opened /\ Home(i) < l THEN 1 ELSE 0
  BY <1>1 DEF ClosedOK
<1>4. CASE i \in opened /\ Home(i) = l
  <2>1. channels[l].arg = i
    BY <1>2, <1>4, HomeEntry
  <2>2. ~(Home(i) < l) /\ Home(i) < l + 1
    BY <1>1, <1>4
  <2> QED BY <1>1, <1>2, <1>3, <1>4, <2>1, <2>2
<1>5. CASE ~(i \in opened /\ Home(i) = l)
  <2>1. channels[l].arg # i
    <3> SUFFICES ASSUME channels[l].arg = i PROVE FALSE
      OBVIOUS
    <3>1. channels[l] # Free
      BY <1>2 DEF Free
    <3>2. PICK j \in accepted : l \in SlotsOf(j) /\ channels[l] = Entry(j, l)
      BY <1>1, <3>1, SlotHolders
    <3>3. j = i /\ i \in opened /\ Carried(i, l) # "right"
      BY <1>2, <3>2, EntryFacts
    <3> QED BY <1>5, <3>2, <3>3, HomeEntry
  <2>2. closes'[i] = closes[i]
    BY <1>1, <1>2, <2>1
  <2>3. i \in opened => (Home(i) < l + 1 <=> Home(i) < l)
    <3>1. i \in opened => Home(i) \in Nat /\ Home(i) # l
      BY <1>2, <1>5, HomeEntry DEF Slot
    <3> QED BY <1>1, <3>1
  <2> QED BY <1>3, <2>2, <2>3
<1> QED BY <1>4, <1>5

\* Which steps come before, to and within the loop that closes the sources.
LEMMA ClosedFrame ==
    Next => /\ pc' \notin {"src_close", "exit"} =>
                   pc \notin {"src_close", "exit"} /\ conf' = conf /\ closes' = closes
            /\ pc' = "src_close" =>
                   RfClose \/ RfCloseFails \/ SrcClose \/ (pc = "src_close" /\ UNCHANGED <<conf, opened, l, closes>>)
<1>1. Next => (pc' \notin {"src_close", "exit"} =>
                   pc \notin {"src_close", "exit"} /\ conf' = conf /\ closes' = closes)
  BY DEF tableVars, loopVars, Loading, Routing,
     Next, MainRuns, Main, Options, Load, Start, Testrun, Stop, Signal,
     OptionEnds, OptionConfig, OptionVerbose, LoadFails, LoadOutput, LoadDone, AllocStereo,
     AllocMono, SkipSection, RateFails, UpdateSA, InstallHandlers, OpenFails, OpenSink, StartBlock,
     RouteStereo, RouteMono, RouteNone, Encode, WriteBlock, LoopExit, RfClose, RfCloseFails, SrcClose, Return,
     Hang, Sent, SignalKills, SignalFirst, SignalAgain, Finished, Exit, vars, srcVars
<1>2. ASSUME Next, pc' = "src_close"
      PROVE  RfClose \/ RfCloseFails \/ SrcClose \/ (pc = "src_close" /\ UNCHANGED <<conf, opened, l, closes>>)
  <2>1. ~(Options \/ Load \/ Start \/ Testrun \/ Return)
    BY <1>2 DEF Options, Load, Start, Testrun, OptionEnds, OptionConfig, OptionVerbose, LoadFails,
       LoadOutput, LoadDone, AllocStereo, AllocMono, SkipSection, RateFails, UpdateSA,
       InstallHandlers, OpenFails, OpenSink, StartBlock, RouteStereo, RouteMono, RouteNone, Encode,
       WriteBlock, LoopExit, Return, Exit, Loading, Routing
  <2>2. CASE Signal \/ Hang \/ Finished
    BY <1>2, <2>2 DEF Signal, SignalKills, SignalFirst, SignalAgain, Hang, Finished, Exit, vars,
       tableVars, loopVars, srcVars
  <2> QED BY <1>2, <2>1, <2>2 DEF Next, MainRuns, Main, Stop
<1> QED BY <1>1, <1>2

\* With the handler installed, status 0 is main's own return value.
LEMMA NormalEnd ==
    PhaseOK /\ Next /\ status' = "0" /\ handlers' =>
        Return \/ (handlers /\ UNCHANGED <<conf, opened, status, rf, closes>>)
<1>1. CASE pc = "exit"
  BY <1>1 DEF tableVars, sigVars, Loading, Routing,
     Next, MainRuns, Main, Options, Load, Start, Testrun, Stop, Signal,
     OptionEnds, OptionConfig, OptionVerbose, LoadFails, LoadOutput, LoadDone, AllocStereo,
     AllocMono, SkipSection, RateFails, UpdateSA, InstallHandlers, OpenFails, OpenSink, StartBlock,
     RouteStereo, RouteMono, RouteNone, Encode, WriteBlock, LoopExit, RfClose, RfCloseFails, SrcClose, Return,
     Hang, Sent, SignalKills, SignalFirst, SignalAgain, Finished, Exit, vars, srcVars
<1>2. CASE pc # "exit"
  <2>1. PhaseOK => status = "running" /\ (pc = "options" => ~handlers)
    BY <1>2 DEF PhaseOK, Starting
  <2>2. Next /\ status = "running" /\ status' = "0" => Return \/ (pc = "options" /\ (handlers' => handlers))
    BY DEF tableVars, sigVars, Loading, Routing,
     Next, MainRuns, Main, Options, Load, Start, Testrun, Stop, Signal,
     OptionEnds, OptionConfig, OptionVerbose, LoadFails, LoadOutput, LoadDone, AllocStereo,
     AllocMono, SkipSection, RateFails, UpdateSA, InstallHandlers, OpenFails, OpenSink, StartBlock,
     RouteStereo, RouteMono, RouteNone, Encode, WriteBlock, LoopExit, RfClose, RfCloseFails, SrcClose, Return,
     Hang, Sent, SignalKills, SignalFirst, SignalAgain, Finished, Exit, vars, srcVars
  <2> SUFFICES ASSUME PhaseOK, Next, status' = "0", handlers' PROVE Return
    OBVIOUS
  <2>3. Return \/ (pc = "options" /\ handlers)
    BY <2>1, <2>2
  <2> QED BY <2>1, <2>3
<1> QED BY <1>1, <1>2

\* What was opened has been closed once when main returns, and nothing before.
LEMMA ClosedStep ==
    TypeOK /\ TableOK /\ PhaseOK /\ SinkOK /\ ClosedOK /\ Next => ClosedOK'
<1> SUFFICES ASSUME TypeOK, TableOK, PhaseOK, SinkOK, ClosedOK, Next PROVE ClosedOK'
  OBVIOUS
<1>1. pc' \notin {"src_close", "exit"} => closes' = [i \in Sections' |-> 0]
  BY ClosedFrame DEF ClosedOK, Sections
<1>2. opened \subseteq accepted /\ opened \subseteq Sections /\ closes \in [Sections -> Nat]
  BY Loaded DEF TypeOK, ValueTypes
<1>3. ASSUME pc' = "src_close", NEW i \in Sections'
      PROVE  closes'[i] = IF i \in opened' /\ Home(i)' < l' THEN 1 ELSE 0
  <2>1. CASE RfClose \/ RfCloseFails
    <3>1. UNCHANGED <<conf, opened, closes>> /\ l' = 0 /\ pc = "rf_close"
      BY <2>1 DEF RfClose, RfCloseFails, tableVars, srcVars
    <3>2. closes[i] = 0 /\ i \in Sections
      BY <1>3, <3>1 DEF ClosedOK, Sections
    <3>3. i \in opened => ~(Home(i) < 0)
      BY <1>2, HomeEntry DEF Slot
    <3>4. Home(i)' = Home(i)
      BY <3>1 DEF Home
    <3> QED BY <3>1, <3>2, <3>3, <3>4
  <2>2. CASE SrcClose
    <3>1. UNCHANGED <<conf, opened>> /\ l' = l + 1
      BY <2>2 DEF SrcClose, tableVars
    <3>2. i \in Sections /\ Home(i)' = Home(i)
      BY <1>3, <3>1 DEF Sections, Home
    <3> QED BY <2>2, <3>1, <3>2, SrcCloseStep
  <2>3. CASE pc = "src_close" /\ UNCHANGED <<conf, opened, l, closes>>
    BY <1>3, <2>3 DEF ClosedOK, Sections, Home
  <2> QED BY <1>3, <2>1, <2>2, <2>3, ClosedFrame
<1>4. ClosedAtEnd'
  <2> SUFFICES ASSUME status' = "0", handlers' PROVE ClosedAtEnd'
    BY DEF ClosedAtEnd
  <2>1. CASE Return
    <3>1. pc = "src_close" /\ l \notin Slot /\ UNCHANGED <<conf, opened, closes, rf>>
      BY <2>1 DEF Return, tableVars, srcVars
    <3>2. l = 2 * Pairs
      BY <3>1, ProgramAssumption DEF TypeOK, ValueTypes, Slot
    <3>3. \A i \in opened : Home(i) < l
      BY <1>2, <3>2, HomeEntry, ProgramAssumption DEF Slot
    <3>4. \A i \in Sections : closes[i] = IF i \in opened /\ Home(i) < l THEN 1 ELSE 0
      BY <3>1 DEF ClosedOK
    <3>5. rf \in CASE conf.type = "file"   -> {"closed"}
                   [] conf.type = "hackrf" -> {"closed", "kept"}
                   [] OTHER                -> {"none"}
      BY <3>1 DEF SinkOK, Opened
    <3> QED BY <3>1, <3>3, <3>4, <3>5 DEF ClosedAtEnd, Sections
  <2>2. CASE handlers /\ UNCHANGED <<conf, opened, status, rf, closes>>
    BY <2>2 DEF ClosedOK, ClosedAtEnd, Sections
  <2> QED BY <2>1, <2>2, NormalEnd
<1> QED BY <1>1, <1>3, <1>4 DEF ClosedOK

-----------------------------------------------------------------------------
(* The invariant *)

\* The program starts with an empty table, no sink and nothing opened.
LEMMA InitProgram == Init => ProgramInv
<1> SUFFICES ASSUME Init PROVE ProgramInv
  OBVIOUS
<1>1. /\ pc = "options" /\ status = "running" /\ ~handlers /\ next = 1 /\ rf = "none"
      /\ block = "none" /\ accepted = {} /\ opened = {} /\ closes = [i \in Sections |-> 0]
      /\ channels = [s \in Slot |-> Free]
  BY DEF Init
<1>2. TypeOK
  BY InitType
<1>3. TableOK
  BY <1>1 DEF TableOK
<1>4. PhaseOK /\ SAOK /\ FedOK
  BY <1>1 DEF PhaseOK, Starting, SAOK, FedOK
<1>5. SinkOK
  BY <1>1 DEF SinkOK, NoBlockLost
<1>6. ClosedOK
  BY <1>1 DEF ClosedOK, ClosedAtEnd
<1> QED BY <1>2, <1>3, <1>4, <1>5, <1>6 DEF ProgramInv

\* Every step, of main or of the signal handler, preserves the invariant.
LEMMA NextProgram == ProgramInv /\ [Next]_vars => ProgramInv'
<1> SUFFICES ASSUME ProgramInv, [Next]_vars PROVE ProgramInv'
  OBVIOUS
<1>1. CASE Next
  BY <1>1, TypeStep, TableStep, PhaseStep, SAStep, FedStep, SinkStep, ClosedStep DEF ProgramInv
<1>2. CASE UNCHANGED vars
  <2> USE <1>2 DEF ProgramInv, vars, optVars, tableVars, sigVars, loopVars, srcVars
  <2>1. TypeOK'
    BY DEF TypeOK, FlagTypes, ValueTypes, Owner, Sections
  <2>2. TableOK'
    BY DEF TableOK, SlotsOf, Entry, Carried
  <2>3. PhaseOK' /\ SAOK'
    BY DEF PhaseOK, SAOK, Announced
  <2>4. FedOK'
    BY DEF FedOK, FedSlots, FedBy, Gave, Heard, SlotsOf, Carried, Paired, Left
  <2>5. SinkOK'
    BY DEF SinkOK, Opened, NoBlockLost
  <2>6. ClosedOK'
    BY DEF ClosedOK, ClosedAtEnd, Sections, Home
  <2> QED BY <2>1, <2>2, <2>3, <2>4, <2>5, <2>6
<1> QED BY <1>1, <1>2

\* The invariant holds in every reachable state.
THEOREM ProgramInvHolds == Spec => []ProgramInv
BY InitProgram, NextProgram, PTL DEF Spec

-----------------------------------------------------------------------------
(* The properties *)

\* Accepted sections never share a slot, and a valid section is turned down only for an
\* earlier one that holds a slot of its own, however many sections there are.
THEOREM FirstComeFirstServedHolds == Spec => []FirstComeFirstServed
<1>1. ProgramInv => FirstComeFirstServed
  <2> SUFFICES ASSUME ProgramInv, pc # "options", NEW i \in 1 .. next - 1
               PROVE  IF i \in accepted
                      THEN \A j \in accepted \ {i} : SlotsOf(i) \cap SlotsOf(j) = {}
                      ELSE Valid(conf.channels[i]) =>
                               \E j \in accepted : j < i /\ SlotsOf(i) \cap SlotsOf(j) # {}
    BY DEF FirstComeFirstServed
  <2>1. CASE i \in accepted
    BY <2>1, OneHolder DEF ProgramInv
  <2>2. CASE i \notin accepted
    BY <2>2 DEF ProgramInv, TableOK
  <2> QED BY <2>1, <2>2
<1> QED BY <1>1, ProgramInvHolds, PTL

\* When a block is written, a slot that is not silent carries the source of the section
\* that holds it, and every source is heard in all the slots of its section alike: with 64
\* samples, or once it has ended with fewer or none.
LEMMA FedWhole ==
    ASSUME ProgramInv, pc = "write"
    PROVE  /\ \A i \in accepted : \E much \in Gave(i) : \A s \in SlotsOf(i) :
                  fed[s] = IF i \in opened /\ much # "none" THEN <<i, Carried(i, s), much>>
                           ELSE Silent
           /\ \A s \in Slot : fed[s] # Silent \/ channels[s] # Free =>
                  \E i \in accepted : s \in SlotsOf(i) /\ channels[s] = Entry(i, s)
<1> USE DEF ProgramInv
<1>1. l = 2 * Pairs
  BY ProgramAssumption DEF FedOK, TypeOK, ValueTypes, Slot
<1>2. ASSUME NEW i \in accepted
      PROVE  \E much \in Gave(i) : \A s \in SlotsOf(i) :
                 fed[s] = IF i \in opened /\ much # "none" THEN <<i, Carried(i, s), much>>
                          ELSE Silent
  <2>1. \A s \in SlotsOf(i) : s < l
    BY <1>1, HeldSlots, ProgramAssumption DEF Slot
  <2>2. FedBy(i)
    BY DEF FedOK, FedSlots
  <2> QED BY <2>1, <2>2 DEF FedBy, Heard
<1>3. ASSUME NEW s \in Slot, fed[s] # Silent \/ channels[s] # Free
      PROVE  \E i \in accepted : s \in SlotsOf(i) /\ channels[s] = Entry(i, s)
  BY <1>3, SlotHolders DEF FedOK, FedSlots
<1> QED BY <1>2, <1>3

\* For every table: what is heard of an open source is in exactly the slots its section
\* asks for, with the signal that belongs there, whole until the source ends, once more
\* at most in part, and then nowhere.
THEOREM SourcesInTheirSlotsHolds == Spec => []SourcesInTheirSlots
<1>1. ProgramInv => SourcesInTheirSlots
  <2> SUFFICES ASSUME ProgramInv, pc = "write", NEW i \in opened,
                      NEW slots, slots = {s \in Slot : fed[s][1] = i}
               PROVE  IF slots = {} THEN i \in ended
                      ELSE /\ {<<s, fed[s][2]>> : s \in slots} = Wanted(conf.channels[i])
                           /\ \A s \in slots : fed[s][3] = IF i \in ended THEN "part" ELSE "all"
    BY DEF SourcesInTheirSlots
  <2>1. i \in accepted /\ i # NULL
    BY Loaded DEF ProgramInv, TypeOK, ValueTypes
  <2>2. Wanted(conf.channels[i]) = {<<s, Carried(i, s)>> : s \in SlotsOf(i)}
    BY <2>1, WantedIsCarried DEF ProgramInv, TableOK
  <2>3. PICK much \in Gave(i) : \A s \in SlotsOf(i) :
            fed[s] = IF much # "none" THEN <<i, Carried(i, s), much>> ELSE Silent
    BY <2>1, FedWhole
  <2>4. SlotsOf(i) \subseteq Slot
    BY <2>1, HeldSlots DEF ProgramInv
  <2>5. ASSUME NEW s \in Slot, fed[s][1] = i
        PROVE  s \in SlotsOf(i)
    <3>1. fed[s] # Silent
      BY <2>1, <2>5 DEF Silent
    <3>2. PICK j \in accepted : s \in SlotsOf(j)
      BY <3>1, FedWhole
    <3>3. PICK k : fed[s] = <<j, Carried(j, s), k>>
      BY <3>1, <3>2, FedWhole
    <3> QED BY <2>5, <3>2, <3>3
  <2>6. CASE much = "none"
    <3>1. slots = {}
      BY <2>1, <2>3, <2>5, <2>6 DEF Silent
    <3>2. i \in ended
      BY <2>6 DEF Gave
    <3> QED BY <3>1, <3>2
  <2>7. CASE much # "none"
    <3>1. slots = SlotsOf(i) /\ \A s \in slots : fed[s] = <<i, Carried(i, s), much>>
      BY <2>3, <2>4, <2>5, <2>7
    <3>2. SlotsOf(i) # {}
      BY <2>1, HomeEntry DEF ProgramInv
    <3>3. much = IF i \in ended THEN "part" ELSE "all"
      BY <2>7 DEF Gave
    <3>4. {<<s, fed[s][2]>> : s \in slots} = Wanted(conf.channels[i])
      BY <2>2, <3>1
    <3> QED BY <3>1, <3>2, <3>3, <3>4
  <2> QED BY <2>6, <2>7
<1> QED BY <1>1, ProgramInvHolds, PTL

\* The SA data name for each slot the section whose signal it carries, and a slot they
\* announce has its 64 samples in every block until its source ends, if it was opened.
THEOREM AnnouncedIsSentHolds == Spec => []AnnouncedIsSent
<1>1. ProgramInv => AnnouncedIsSent
  <2> SUFFICES ASSUME ProgramInv, pc = "write", NEW s \in Slot
               PROVE  /\ fed[s] # Silent =>
                             sa[s] = [mode |-> IF fed[s][2] = "right" THEN 2 ELSE 1,
                                      section |-> fed[s][1]]
                      /\ sa[s].mode # 0 =>
                             \/ fed[s][3] = "all"
                             \/ sa[s].section \notin opened \/ sa[s].section \in ended
    BY DEF AnnouncedIsSent
  <2>1. sa[s] = [mode |-> channels[s].mode, section |-> channels[s].section]
    BY DEF ProgramInv, SAOK, Announced
  <2>2. CASE channels[s] = Free
    BY <2>1, <2>2 DEF Free, ProgramInv, FedOK, FedSlots
  <2>3. CASE channels[s] # Free
    <3>1. PICK i \in accepted : s \in SlotsOf(i) /\ channels[s] = Entry(i, s)
      BY <2>3, FedWhole
    <3>2. PICK much \in Gave(i) :
              fed[s] = IF i \in opened /\ much # "none" THEN <<i, Carried(i, s), much>> ELSE Silent
      BY <3>1, FedWhole
    <3>3. sa[s] = [mode |-> IF Carried(i, s) = "right" THEN 2 ELSE 1, section |-> i]
      BY <2>1, <3>1 DEF Entry
    <3>4. i \notin ended => much = "all"
      BY DEF Gave
    <3>5. CASE i \in opened /\ much # "none"
      <4>1. fed[s] = <<i, Carried(i, s), much>>
        BY <3>2, <3>5
      <4> QED BY <3>3, <3>4, <4>1
    <3>6. CASE ~(i \in opened /\ much # "none")
      <4>1. fed[s] = Silent /\ (i \notin opened \/ i \in ended)
        BY <3>2, <3>4, <3>6
      <4> QED BY <3>3, <4>1
    <3> QED BY <3>5, <3>6
  <2> QED BY <2>2, <2>3
<1> QED BY <1>1, ProgramInvHolds, PTL

\* Status 0 from a run of the loop means that every source that was opened has been closed,
\* once, and the sink too unless it is a HackRF that would not stop.
THEOREM ClosedAtEndHolds == Spec => []ClosedAtEnd
<1>1. ProgramInv => ClosedAtEnd
  BY DEF ProgramInv, ClosedOK
<1> QED BY <1>1, ProgramInvHolds, PTL

\* Whenever a signal comes, a block that has been encoded is written before the loop ends.
THEOREM NoBlockLostHolds == Spec => []NoBlockLost
<1>1. ProgramInv => NoBlockLost
  BY DEF ProgramInv, SinkOK
<1> QED BY <1>1, ProgramInvHolds, PTL
=============================================================================
