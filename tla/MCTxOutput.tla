---------------------------- MODULE MCTxOutput ------------------------------
(***************************************************************************)
(* Two samples per symbol, so a ring of 21; blocks of three octets, which  *)
(* are 24 samples, more than the ring and no multiple of the buffer.       *)
(***************************************************************************)
EXTENDS TxOutput

\* The pulse rf_qpsk_init computes for two samples per symbol and the level of 0.8 of
\* dsrtx.c:451: _rrc(t, 0.5, 1) * _hamming, by 0.8 * 32767 / sqrt(2), rounded (rf.c:62-133).
MCShape == [i \in 0..20 |-> (<<-1, 10, -31, 54, 22, -150, 537, -1127, -1794, 10484, 21068,
                              10484, -1794, -1127, 537, -150, 22, 54, -31, 10, -1>>)[i + 1]]

MCBlocks == {<<27, 228, 0>>, <<255, 99, 170>>}
=============================================================================
