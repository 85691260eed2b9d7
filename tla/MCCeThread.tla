------------------------------ MODULE MCCeThread ------------------------------
(* Symmetry for the runs of CeThread: addresses, TLS indices and the threads  *)
(* _beginthread makes are only compared for equality.                         *)
EXTENDS CeThread, TLC

Interchangeable == Permutations(Blocks) \cup Permutations(Indexes) \cup Permutations(Begun)
==============================================================================
