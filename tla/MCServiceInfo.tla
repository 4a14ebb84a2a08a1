--------------------------- MODULE MCServiceInfo ----------------------------
(***************************************************************************)
(* Names with every two kinds of characters, well formed or not, at their  *)
(* start and a third where they are cut off; and sections of every channel *)
(* and mode with types at, beyond and far beyond the ends of their range,  *)
(* which the second channel of a stereo programme passes before the first. *)
(***************************************************************************)
EXTENDS ServiceInfo

Char(octets, code) == [octets |-> octets, code |-> code]

Letter == Char(<<65>>, 65)
Wide   == {Char(<<195, 156>>, 220), Char(<<226, 134, 146>>, 8594)}     \* two and three octets
Absent == {Char(<<240, 159, 147, 187>>, 128251), Char(<<126>>, 126)}   \* not in the set
Bad    == {Char(o, Replacement) :    \* overlong, never, cut, alone
              o \in {<<193, 129>>, <<255>>, <<237>>, <<226, 134>>, <<146>>}}

Pieces == {Letter} \cup Wide \cup Absent \cup Bad

Names == {p \in {<<x, y>> \o [k \in 1..5 |-> Letter] \o <<z, Letter>> :
                     x \in Pieces, y \in Pieces, z \in Pieces} : NameOf(p)}
         \cup {<<>>, <<Char(<<226, 134>>, Replacement)>>, [k \in 1..8 |-> CHOOSE w \in Wide : TRUE]}

Channel(channel, mode, type, secondary, music, name) ==
    [channel |-> channel, mode |-> mode, type |-> type, secondary |-> secondary,
     music |-> music, name |-> name]

MCTables ==
    {<<Channel(3, "s", 10, 1, TRUE, n)>> : n \in Names}
    \cup {<<Channel(ch, m, t, t + 7, mu, <<Letter>>),
            Channel((ch % 16) + 1, "b", 15, 0, ~mu, <<Letter, Letter>>)>> :
              ch \in 1..16, m \in {"s", "a", "b"}, mu \in BOOLEAN,
              t \in {-1, 0, 9, 15, 16, 1000000, 268435465}}
=============================================================================
