----------------------------- MODULE ServiceInfo -----------------------------
(***************************************************************************)
(* What the special service announces: the names of the programmes, their  *)
(* types and modes, on the way from the [channel] sections (src/dsrtx.c,   *)
(* _load_config) through the receivers' character set (src/dsr.c,          *)
(* dsr_encode_ps) into the table of 128 rows that dsr_encode sends bit by  *)
(* bit (dsr_update_sa).                                                    *)
(*                                                                         *)
(* Names are strings of octets, for what a malformed name does to its      *)
(* neighbours is the question; DsrTx says which sections are accepted.     *)
(***************************************************************************)
EXTENDS Integers, Sequences, FiniteSets, FiniteSetsExt, SequencesExt

CONSTANTS
    Tables,   \* sequences of sections that were accepted, in order
    Memory    \* octets that may be read outside the table _par

Octet == 0..255
Slot  == 0..31
Continuation == 128..191   \* octets that continue a code of UTF-8

(***************************************************************************)
(* A section has a channel 1..16, a mode "s", "a" or "b", type, secondary  *)
(* (program_type and secondary_type), music, and a name.  A name is a      *)
(* sequence of pieces: octets that encode a character, whose code is       *)
(* given, or octets that encode none, for which the code is U+FFFD.        *)
(***************************************************************************)
Replacement == 65533
Code == {n \in Nat \ {0} : n \div 4096 < 512}   \* what four octets can encode

Follower(bits) == 128 + (bits % 64)
Encoding(code) ==
    IF code < 128 THEN <<code>>
    ELSE IF code < 2048 THEN <<192 + (code \div 64), Follower(code)>>
    ELSE IF code < 65536 THEN <<224 + (code \div 4096), Follower(code \div 64), Follower(code)>>
    ELSE <<240 + ((code \div 4096) \div 64), Follower(code \div 4096), Follower(code \div 64),
           Follower(code)>>

\* An octet that begins no code, a code longer than need be, or one that is cut short.
Stray(o)    == Len(o) = 1 /\ o[1] \in Continuation \cup 248..255
Overlong(o) == \/ Len(o) = 2 /\ o[1] \in {192, 193}
               \/ Len(o) = 3 /\ o[1] = 224 /\ o[2] < 160
               \/ Len(o) = 4 /\ o[1] = 240 /\ o[2] < 144
Short(o)    == \/ Len(o) = 1 /\ o[1] \in 192..247
               \/ Len(o) = 2 /\ o[1] \in 224..247
               \/ Len(o) = 3 /\ o[1] \in 240..247

\* Piece k of a name that encodes none.  What is cut short does not go on after it.
Malformed(name, k) ==
    LET o == name[k].octets
    IN  /\ \A n \in 2 .. Len(o) : o[n] \in Continuation
        /\ \/ Stray(o)
           \/ Overlong(o)
           \/ Short(o) /\ (k < Len(name) => name[k + 1].octets[1] \notin Continuation)

NameOf(name) ==
    /\ name \in Seq(ToSet(name))
    /\ \A k \in 1..Len(name) :
           /\ name[k].octets \in Seq(Octet \ {0})
           /\ \/ name[k].code \in Code /\ name[k].octets = Encoding(name[k].code)
              \/ name[k].code = Replacement /\ Malformed(name, k)

SlotsOf(s) == LET left == (s.channel - 1) * 2
              IN  CASE s.mode = "s" -> {left, left + 1}
                    [] s.mode = "a" -> {left}
                    [] s.mode = "b" -> {left + 1}

ASSUME ServiceAssumption ==
    /\ Memory \subseteq Octet
    /\ \A t \in Tables : t \in Seq(ToSet(t)) /\ \A i, j \in 1..Len(t) :
           /\ t[i].channel \in 1..16 /\ t[i].mode \in {"s", "a", "b"} /\ t[i].music \in BOOLEAN
           /\ NameOf(t[i].name)
           /\ i # j => SlotsOf(t[i]) \cap SlotsOf(t[j]) = {}

VARIABLES
    table,
    step, next,   \* the step of _load_config and the section it is at
    src,          \* dsr_encode_ps: octets of the name not yet read
    dst,          \* and the characters written
    channels,     \* dsr_t.channels
    sa            \* dsr_t.sa

serviceVars == <<table, step, next, src, dst, channels, sa>>

-----------------------------------------------------------------------------
(* The character set *)

Space == 32

\* Code points of _charset; 0 where the table has no character.
Low == <<
    195, 197, 198, 338, 375, 221, 213, 216, 222, 330, 340, 262, 346, 377, 358, 240,
    227, 229, 230, 339, 373, 253, 245, 248, 254, 331, 341, 263, 347, 378, 359, 0>>
High == <<
    225, 224, 233, 232, 237, 236, 243, 242, 250, 249, 209, 199, 350, 946, 161, 306,
    226, 228, 234, 235, 238, 239, 244, 246, 251, 252, 241, 231, 351, 487, 305, 307,
    170, 945, 169, 8240, 486, 283, 328, 337, 960, 8352, 163, 36, 8592, 8593, 8594, 8595,
    186, 185, 178, 179, 177, 304, 324, 369, 181, 191, 247, 176, 188, 189, 190, 167,
    193, 192, 201, 200, 205, 204, 211, 210, 218, 217, 344, 268, 352, 381, 208, 319,
    194, 196, 202, 203, 206, 207, 212, 214, 219, 220, 345, 269, 353, 382, 273, 320>>
Charset == [place \in Octet |->
    CASE place < 32         -> Low[place + 1]
      [] place = 36         -> 164
      [] place = 94         -> 8213
      [] place = 96         -> 8214
      [] place = 126        -> 175
      [] place = 127        -> 0
      [] place \in 128..223 -> High[place - 127]
      [] place >= 224       -> 0
      [] OTHER              -> place]

\* What the first octet of a code says: its own bits, how many octets follow, and the
\* least code that needs so many.
Lead(c) == CASE c < 128        -> [bits |-> c, more |-> 0, least |-> 0]
             [] c \in 192..223 -> [bits |-> c % 32, more |-> 1, least |-> 128]
             [] c \in 224..239 -> [bits |-> c % 16, more |-> 2, least |-> 2048]
             [] c \in 240..247 -> [bits |-> c % 8, more |-> 3, least |-> 65536]
             [] OTHER          -> [bits |-> Replacement, more |-> 0, least |-> 0]

\* How many of the octets that are to follow do, and the bits of the first n of them.
Following(s) ==
    Max({g \in 0 .. Lead(s[1]).more : \A k \in 1..g : k + 1 <= Len(s) /\ s[k + 1] \in Continuation})
Value(s, n) ==
    LET u[k \in 0..n] == IF k = 0 THEN Lead(s[1]).bits ELSE u[k - 1] * 64 + (s[k + 1] % 64)
    IN  u[n]
Complete(s) == Following(s) = Lead(s[1]).more /\ Value(s, Following(s)) >= Lead(s[1]).least

\* Mutant of Utf8Next: after a malformed code the octets already looked at are read again.
Utf8NextRereads(s) ==
    [code |-> IF Complete(s) THEN Value(s, Following(s)) ELSE Replacement,
     rest |-> IF Complete(s) THEN SubSeq(s, Following(s) + 2, Len(s)) ELSE Tail(s)]

\* The next code of a string and what follows it; U+FFFD for a code that is cut short,
\* longer than need be or begins in its middle.
Utf8Next(s) ==
    [code |-> IF Complete(s) THEN Value(s, Following(s)) ELSE Replacement,
     rest |-> SubSeq(s, Following(s) + 2, Len(s))]

\* The first place of a character in the set, or a blank.
InCharset(code) ==
    LET places == {j \in Octet : Charset[j] = code}
    IN  IF places = {} THEN Space ELSE Min(places)

\* dsr_decode_ps, which prints the names: "?" for a place without a character.
DecodePS(name) == [k \in 1..8 |-> IF Charset[name[k]] # 0 THEN Charset[name[k]] ELSE 63]

-----------------------------------------------------------------------------
(* The table *)

Bit(v, k) == (v \div 2 ^ k) % 2

\* _par: the seven high bits, made even by the lowest.
Par(v) == LET high == 2 * (v \div 2) IN high + (Cardinality({k \in 1..7 : Bit(high, k) = 1}) % 2)

\* type << 4 of an int keeps its lowest 28 bits, with their sign.
Wrapped(type) == (((type % 268435456) + 134217728) % 268435456) - 134217728

\* (type << 4) | (music << 3) | (mode << 1)
Index(ch) == 16 * Wrapped(ch.type) + 8 * ch.music + 2 * ch.mode

\* What is read outside _par for these channels, where nothing checks the type.
Outside(chans) == {Index(chans[c]) : c \in Slot} \ Octet

\* Mutant of Announced: music and mode change places.
AnnouncedSwapped(ch, memory) ==
    LET index == 16 * Wrapped(ch.type) + 4 * ch.music + 2 * ch.mode
    IN  IF index \in Octet THEN Par(index) ELSE memory[Index(ch)]

\* _par[...], or whatever lies where the index points to.
Announced(ch, memory) == IF Index(ch) \in Octet THEN Par(Index(ch)) ELSE memory[Index(ch)]

SyncWord(i) == IF i % 8 = 0 THEN <<5, 207>> ELSE <<5, 255>>   \* 0x5CF, 0x5FF

\* Seven times the types, zero octets, and a character of the names at a time: in each
\* group of eight rows four channels a row.
Row(chans, i, memory) ==
    [p \in 1..8 |->
        LET ch == chans[4 * (i % 8) + p - 3]
        IN  CASE p \in 1..2              -> SyncWord(i)[p]
              [] p \in 3..6 /\ i < 56   -> Announced(ch, memory)
              [] p \in 3..6 /\ i >= 64  -> ch.name[(i - 64) \div 8 + 1]
              [] OTHER                  -> 0]

UpdateSA(chans, memory) == [i \in 0..127 |-> Row(chans, i, memory)]

-----------------------------------------------------------------------------
\* dsr_init, and the configuration is loaded.
ServiceInit ==
    /\ table \in Tables
    /\ step = "sections" /\ next = 1
    /\ src = <<>> /\ dst = <<>>
    /\ channels = [c \in Slot |-> [type |-> 0, music |-> 1, mode |-> 0,
                                   name |-> [k \in 1..8 |-> 0]]]
    /\ sa = UpdateSA(channels, <<>>)    \* all types are 0

Current == table[next]

\* conf_str(..., "name", "") goes to dsr_encode_ps.
StartName ==
    /\ step = "sections" /\ next <= Len(table)
    /\ src' = FlattenSeq([k \in 1..Len(Current.name) |-> Current.name[k].octets])
    /\ dst' = <<>> /\ step' = "name"
    /\ UNCHANGED <<table, next, channels, sa>>

\* for(i = 0; i < 8 && *src; i++)
EncodeChar ==
    /\ step = "name" /\ Len(dst) < 8 /\ src # <<>>
    /\ dst' = Append(dst, InCharset(Utf8Next(src).code))
    /\ src' = Utf8Next(src).rest
    /\ UNCHANGED <<table, step, next, channels, sa>>

\* for(; i < 8; i++) dst[i] = ' '
PadName ==
    /\ step = "name" /\ (src = <<>> \/ Len(dst) = 8)
    /\ dst' = dst \o [k \in 1 .. 8 - Len(dst) |-> Space]
    /\ step' = "set"
    /\ UNCHANGED <<table, next, src, channels, sa>>

Set(changed) ==
    /\ channels' = [c \in Slot |-> IF c \in DOMAIN changed THEN changed[c] ELSE channels[c]]
    /\ next' = next + 1 /\ step' = "sections"
    /\ UNCHANGED <<table, src, dst, sa>>

Flag(b) == IF b THEN 1 ELSE 0
First == [type |-> Current.type, music |-> Flag(Current.music), mode |-> 1, name |-> dst]

\* Both channels get the name, the right one no music and the type of its own if there is one.
SetStereo ==
    /\ step = "set" /\ Current.mode = "s"
    /\ LET right == [type |-> Current.secondary, music |-> 0, mode |-> 2, name |-> dst]
           left  == (Current.channel - 1) * 2
       IN  Set([c \in {left, left + 1} |-> IF c = left THEN First ELSE right])

SetMono ==
    /\ step = "set" /\ Current.mode \in {"a", "b"}
    /\ Set([c \in SlotsOf(Current) |-> First])

\* main: dsr_update_sa.
RebuildSA ==
    /\ step = "sections" /\ next > Len(table)
    /\ \E memory \in [Outside(channels) -> Memory] : sa' = UpdateSA(channels, memory)
    /\ step' = "done"
    /\ UNCHANGED <<table, next, src, dst, channels>>

\* Nothing can be read where an index points to: the process ends, with no handler yet.
RebuildCrashes ==
    /\ step = "sections" /\ next > Len(table)
    /\ Outside(channels) # {}
    /\ step' = "killed"
    /\ UNCHANGED <<table, next, src, dst, channels, sa>>

Announcing == step \in {"done", "killed"} /\ UNCHANGED serviceVars

ServiceNext ==
    \/ StartName \/ EncodeChar \/ PadName \/ SetStereo \/ SetMono
    \/ RebuildSA \/ RebuildCrashes \/ Announcing

ServiceSpec == ServiceInit /\ [][ServiceNext]_serviceVars

-----------------------------------------------------------------------------
(* A receiver: it finds the groups of eight rows by their sync word. *)

Starts == {i \in 0..127 : sa[i][1] = 5 /\ sa[i][2] = 207}
Group(g) == LET starts == Starts   \* the row with which group g begins
            IN  CHOOSE i \in starts : Cardinality({j \in starts : j < i}) = g - 1
Heard(row, c) == sa[row + c \div 4][3 + (c % 4)]
Weight(v)   == Cardinality({k \in 0..7 : Bit(v, k) = 1})

\* A receiver is to show the characters of the set as they are.
Shown(code) == IF code # Replacement /\ \E j \in Octet : Charset[j] = code THEN code ELSE Space

Owner(c) == {i \in 1..Len(table) : c \in SlotsOf(table[i])}

-----------------------------------------------------------------------------
(* Properties *)

\* A receiver shows the first eight characters of each name as the configuration gives
\* them: a character the set lacks, and one that is malformed, costs one blank and never
\* its neighbours, both channels of a stereo programme show the same, and no name runs
\* over the eight octets it has (dsr.c:167-205, 395-418, 459-475).
NamesReceived ==
    /\ Len(dst) <= 8
    /\ step = "done" => \A i \in 1..Len(table) :
        LET name == table[i].name
        IN  \A c \in SlotsOf(table[i]) :
                DecodePS([k \in 1..8 |-> Heard(Group(8 + k), c)]) =
                    [k \in 1..8 |-> IF k <= Len(name) THEN Shown(name[k].code) ELSE Space]

\* The type section i gives the channel in slot c.
TypeOf(i, c) ==
    IF table[i].mode = "s" /\ c % 2 = 1 THEN table[i].secondary ELSE table[i].type

\* In all seven groups of types the octet of each channel has even parity and gives the
\* mode, type and music flag of its section, and mode 0 for a channel without one.  A
\* type outside 0..15, which nothing checks, is looked up outside the table: it may end
\* the program before it has sent anything, and if it does not it spoils the octets of its
\* own channel and no other; without one the program always comes through (dsr.c:441-448).
TypesReceived ==
    /\ step = "killed" =>
           \E i \in 1..Len(table) : \E c \in SlotsOf(table[i]) : TypeOf(i, c) \notin 0..15
    /\ step = "done" => \A g \in 1..7 : LET row == Group(g) IN \A c \in Slot :
        LET v == Heard(row, c)
        IN  /\ Owner(c) = {} => Weight(v) % 2 = 0 /\ (v \div 2) % 4 = 0
            /\ \A i \in Owner(c) :
                   LET right == table[i].mode = "s" /\ c % 2 = 1
                   IN  TypeOf(i, c) \in 0..15 =>
                           /\ Weight(v) % 2 = 0 /\ v \div 16 = TypeOf(i, c)
                           /\ (v \div 8) % 2 = IF table[i].music /\ ~right THEN 1 ELSE 0
                           /\ (v \div 2) % 4 = IF right THEN 2 ELSE 1
=============================================================================
