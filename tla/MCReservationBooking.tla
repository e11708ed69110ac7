------------------------ MODULE MCReservationBooking ------------------------
(***************************************************************************)
(* Small instances of ReservationBooking: a table of two, a table of six,  *)
(* a party on each side of the threshold, and stays of two that coincide   *)
(* (starting at 1) or are back to back (moved to 3).                       *)
(***************************************************************************)
EXTENDS ReservationBooking, TLC

CONSTANTS t2, t6

MCCapacity == [t \in Tables |-> IF t = t2 THEN 2 ELSE 6]

\* Notes only; another party, time or table; a larger party at another table.
MCChangeRequests ==
    {NoChange,
     [NoChange EXCEPT !.party = 2], [NoChange EXCEPT !.party = 6],
     [NoChange EXCEPT !.time = 3], [NoChange EXCEPT !.table = t2],
     [NoChange EXCEPT !.party = 6, !.table = t6]}

Symmetry == Permutations(Reservations) \cup Permutations(Sessions) \cup Permutations(Proposals)
=============================================================================
