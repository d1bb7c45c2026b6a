--------------------------- MODULE MCTransferQueue ---------------------------
(* Small instances of TransferQueue for TLC.                               *)
EXTENDS TransferQueueProofs, TLC

Interchangeable == Permutations(Hosts) \cup Permutations(Callers)
==============================================================================
