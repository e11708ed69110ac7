----------------------------- MODULE LockWaits ------------------------------
(***************************************************************************)
(* How PostgreSQL sees the sessions that wait for each other's locks: as a *)
(* set Waits of pairs <<s, t>>, s waits for t.  A session that finds       *)
(* itself on a cycle is aborted (deadlock_timeout, DeadLockCheck).         *)
(***************************************************************************)

\* s can be reached from s: it is in every set that holds the sessions it waits for,
\* and with each of its members the sessions that one waits for.
OnCycle(s, Sessions, Waits) ==
    \A D \in SUBSET Sessions :
        (\A w \in Waits : w[1] \in D \cup {s} => w[2] \in D) => s \in D
=============================================================================
