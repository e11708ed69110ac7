---------------------------- MODULE MCPurchasing ----------------------------
(***************************************************************************)
(* Small instances of Purchasing.                                          *)
(***************************************************************************)
EXTENDS Purchasing, TLC

Symmetry == Permutations(Items) \cup Permutations(Purchases) \cup Permutations(Sessions)
=============================================================================
