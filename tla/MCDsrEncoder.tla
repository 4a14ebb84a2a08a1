---------------------------- MODULE MCDsrEncoder ----------------------------
(***************************************************************************)
(* Two scale vectors that differ in every channel tell blocks apart; the   *)
(* counter is small enough to overflow twice.                              *)
(***************************************************************************)
EXTENDS DsrEncoder

MCScales == {[c \in Channel |-> c % 8], [c \in Channel |-> (c + 1) % 8]}
=============================================================================
