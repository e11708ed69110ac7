------------------------- MODULE ApprovalLifecycle -------------------------
(***************************************************************************)
(* What the human-approval gate promises, without sessions or a database:  *)
(* an approval is proposed, then decided at most once, and the gated       *)
(* action is applied at most once, by the very step that approves it.      *)
(* ApprovalGate is the detailed specification compared with this one.      *)
(***************************************************************************)
EXTENDS Naturals

CONSTANT Approvals

VARIABLES status,   \* status[a]: "absent" until proposed, then the decision
          applied   \* applied[a]: how often the gated action of a took effect

lifecycleVars == <<status, applied>>

Init ==
    /\ status = [a \in Approvals |-> "absent"]
    /\ applied = [a \in Approvals |-> 0]

\* An agent's high-impact action becomes a pending proposal.
Propose(a) ==
    /\ status[a] = "absent"
    /\ status' = [status EXCEPT ![a] = "pending"]
    /\ UNCHANGED applied

\* The manager approves; the action takes effect now, or its execution
\* fails now. It never takes effect later.
Approve(a) ==
    /\ status[a] = "pending"
    /\ status' = [status EXCEPT ![a] = "approved"]
    /\ \E ran \in {0, 1} : applied' = [applied EXCEPT ![a] = ran]

Reject(a) ==
    /\ status[a] = "pending"
    /\ status' = [status EXCEPT ![a] = "rejected"]
    /\ UNCHANGED applied

\* One sweep expires any number of pending approvals.
Expire(S) ==
    /\ \A a \in S : status[a] = "pending"
    /\ status' = [a \in Approvals |-> IF a \in S THEN "expired" ELSE status[a]]
    /\ UNCHANGED applied

Next ==
    \/ \E a \in Approvals : Propose(a) \/ Approve(a) \/ Reject(a)
    \/ \E S \in SUBSET Approvals : Expire(S)

Spec == Init /\ [][Next]_lifecycleVars
=============================================================================
