--------------------------- MODULE MCApprovalGate ---------------------------
(***************************************************************************)
(* Small instances of ApprovalGate: one approval has an executor, the      *)
(* other has none, and both have a deadline.                               *)
(***************************************************************************)
EXTENDS ApprovalGate, TLC

CONSTANTS a1, a2

MCDomain == [a \in Approvals |-> IF a = a1 THEN "reservation" ELSE "staffing"]

\* Managers and sessions are interchangeable.
Symmetry == Permutations(Managers) \cup Permutations(Sessions)
=============================================================================
