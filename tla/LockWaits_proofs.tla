-------------------------- MODULE LockWaits_proofs --------------------------
(***************************************************************************)
(* What a session on a cycle has in common with every other one there: it  *)
(* waits, and it makes somebody wait.  Which operations of the code can be *)
(* in that position is for the modules that use this one to say.           *)
(***************************************************************************)
EXTENDS LockWaits, TLAPS

\* Who is on a cycle waits for a session and is waited for by one.
LEMMA WaitsAndIsWaitedFor ==
    ASSUME NEW Sessions, NEW Waits, NEW s \in Sessions, OnCycle(s, Sessions, Waits),
           \A w \in Waits : w[1] \in Sessions /\ w[2] \in Sessions
    PROVE  /\ \E w \in Waits : w[1] = s
           /\ \E w \in Waits : w[2] = s
<1>1. \A D \in SUBSET Sessions :
        (\A w \in Waits : w[1] \in D \cup {s} => w[2] \in D) => s \in D
  BY DEF OnCycle
<1>2. \E w \in Waits : w[1] = s
  <2>1. ~ \A w \in Waits : w[1] \in {} \cup {s} => w[2] \in {}
    BY <1>1
  <2>2. QED
    BY <2>1
<1>3. \E w \in Waits : w[2] = s
  <2>1. ~ \A w \in Waits : w[1] \in (Sessions \ {s}) \cup {s} => w[2] \in Sessions \ {s}
    BY <1>1
  <2>2. QED
    BY <2>1
<1>4. QED
  BY <1>2, <1>3
=============================================================================
