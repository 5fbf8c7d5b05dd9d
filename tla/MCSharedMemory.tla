--------------------------- MODULE MCSharedMemory ---------------------------
(***************************************************************************)
(* Instances of SharedMemory for TLC.                                      *)
(***************************************************************************)
EXTENDS SharedMemory, TLC

\* Consumers are interchangeable in the safety runs; so are producers.
Symmetry == Permutations(Producers) \cup Permutations(Consumers)
=============================================================================
