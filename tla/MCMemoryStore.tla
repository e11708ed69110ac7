--------------------------- MODULE MCMemoryStore ----------------------------
(***************************************************************************)
(* A small instance of MemoryStore.                                        *)
(***************************************************************************)
EXTENDS MemoryStore, TLC

Symmetry == Permutations(Topics) \cup Permutations(Texts) \cup Permutations(Sessions)
=============================================================================
