---------------------------- MODULE MCBlockScale ----------------------------
(***************************************************************************)
(* The samples at the edges of every range, on both sides of zero.         *)
(***************************************************************************)
EXTENDS BlockScale

Edges == {0, 255, 256, 511, 512, 1023, 1024, 2047, 2048, 4095, 4096, 8191, 8192,
          16383, 16384, 32767}

MCInputs == Edges \cup {-s : s \in Edges} \cup {-s - 1 : s \in Edges}
=============================================================================
