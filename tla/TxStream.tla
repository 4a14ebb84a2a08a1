------------------------------ MODULE TxStream ------------------------------
(***************************************************************************)
(* What the HackRF sink promises to the rest of dsrtx, without buffers,    *)
(* mutexes or threads: the octets handed to the device are the octets      *)
(* written, in the order written, each exactly once; the only thing ever   *)
(* inserted between them is zeros, and only when at most LowWater octets   *)
(* are still pending.                                                      *)
(*                                                                         *)
(* An octet is named by its position in the transmitted stream, so that    *)
(* loss, duplication, reordering and stale memory are all visible.         *)
(***************************************************************************)
EXTENDS Integers

CONSTANTS LowWater,   \* pending octets at or below which zeros may be inserted
          MaxPush,    \* most octets a single call of the producer appends
          MaxHand,    \* most octets of a single copy into a transfer
          Zero        \* the octet inserted by an underrun

VARIABLES written,    \* octets accepted from the producer
          played,     \* octets of the stream handed to the device
          handed      \* the octets of the latest copy into a transfer

streamVars == <<written, played, handed>>

StreamInit ==
    /\ written = 0
    /\ played = 0
    /\ handed = [k \in {} |-> Zero]

\* The producer appends n octets to the stream.
Push(n) ==
    /\ written' = written + n
    /\ UNCHANGED <<played, handed>>

\* The next n octets of the stream, and no others, go to the device.
Hand(n) ==
    /\ played + n <= written
    /\ played' = played + n
    /\ handed' = [k \in 1..n |-> played + k - 1]
    /\ UNCHANGED written

\* The rest of a transfer is filled with n zeros because the stream has run low.
Silence(n) ==
    /\ written - played <= LowWater
    /\ handed' = [k \in 1..n |-> Zero]
    /\ UNCHANGED <<written, played>>

StreamNext ==
    \/ \E n \in 1..MaxPush : Push(n)
    \/ \E n \in 1..MaxHand : Hand(n)
    \/ \E n \in 1..MaxHand : Silence(n)

StreamSpec == StreamInit /\ [][StreamNext]_streamVars
=============================================================================
