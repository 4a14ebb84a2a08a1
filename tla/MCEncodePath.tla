--------------------------- MODULE MCEncodePath -----------------------------
(***************************************************************************)
(* Two programmes.  "range" lets every channel of every block reach both   *)
(* edges of another of the eight ranges, with samples unlike each other in *)
(* between.  In "single" one channel differs from all others in each frame *)
(* pair, each of the 32 in turn, over zeros and over ones.                 *)
(***************************************************************************)
EXTENDS EncodePath

MCAudio(p, n, c, x) ==
    IF p = "single" THEN (IF c = (7 * n + x) % 32 THEN -32768 ELSE -(n % 2))
    ELSE LET limit == 256 * 2 ^ ((5 * n + 3 * c) % 8)
         IN  CASE x = (c + n) % 64     -> -limit
               [] x = (c + n + 1) % 64 -> limit - 1
               [] OTHER -> ((1103 * x + 7919 * c + 104729 * n) % (2 * limit)) - limit

MCSATable == [row \in 0..3 |-> {k \in 0..63 : (k * k + row * k + row) % 5 < 2}]
=============================================================================
