--------------------------- MODULE MCTxBroadcast ---------------------------
(* Instances of TxBroadcast for TLC.                                       *)
EXTENDS TxBroadcast, TLC

\* Clients and flags are interchangeable.
Symmetry == Permutations(Clients) \cup Permutations(Flags)
=============================================================================
