----------------------------- MODULE Purchasing -----------------------------
(***************************************************************************)
(* Restocking (InventoryService in app/services/inventory_service.py):     *)
(* create_purchase_request() looks for an open request of the item, and    *)
(* only if there is none inserts one, approved at once when it is cheap    *)
(* and together with a pending approval when it is not.  A decision then   *)
(* runs through ApprovalService in a transaction of its own.  Look-up and  *)
(* insert are separate statements of a READ COMMITTED transaction.         *)
(***************************************************************************)
EXTENDS Naturals, FiniteSets

CONSTANTS
    Items,       \* inventory items
    Purchases,   \* ids of purchase requests; the approval of one has its id
    Sessions,    \* database sessions that can be open at the same time
    NoItem, NoPurchase

ASSUME NullsAssumption == NoItem \notin Items /\ NoPurchase \notin Purchases

VARIABLES
    purchase,  \* purchase[q]: the committed purchase_requests row
    approval,  \* approval[q]: the committed approvals row proposed for q
    tx         \* tx[s]: what session s is doing

vars == <<purchase, approval, tx>>

\* The statuses the code assigns; draft, rejected, fulfilled and cancelled are
\* allowed by the table and never written.
PurchaseRows == [status : {"absent", "pending_approval", "approved"},
                 item : Items \cup {NoItem}, costly : BOOLEAN]

Decisions == {"approved", "rejected"}
Results == {"none", "success", "failed"}
ApprovalRows == [status : {"absent", "pending"} \cup Decisions, result : Results]

AbsentPurchase == [status |-> "absent", item |-> NoItem, costly |-> FALSE]
AbsentApproval == [status |-> "absent", result |-> "none"]

Pcs == {"idle", "inserting", "deciding", "executing", "committing"}
Transactions == [pc : Pcs, purchase : Purchases \cup {NoPurchase}, item : Items \cup {NoItem},
                 costly : BOOLEAN, decision : Decisions \cup {"none"}, result : Results,
                 alone : BOOLEAN]   \* history: nobody else has committed since it began
Idle == [pc |-> "idle", purchase |-> NoPurchase, item |-> NoItem, costly |-> FALSE,
         decision |-> "none", result |-> "none", alone |-> TRUE]

Init ==
    /\ purchase = [q \in Purchases |-> AbsentPurchase]
    /\ approval = [q \in Purchases |-> AbsentApproval]
    /\ tx = [s \in Sessions |-> Idle]

\* s has committed, and the sessions at work have been overtaken.
Ends(s) ==
    tx' = [t \in Sessions |-> IF t = s \/ tx[t].pc = "idle" THEN Idle
                             ELSE [tx[t] EXCEPT !.alone = FALSE]]

-----------------------------------------------------------------------------
(* Proposing *)

\* Mutant: a request that is approved counts as done.
IsOpenPending(q) == purchase[q].status = "pending_approval"

\* get_open_purchase_request_for_item(); "approved" stays open because nothing
\* marks a request fulfilled, and no code moves a rejected one out of
\* "pending_approval".
IsOpen(q) == purchase[q].status \in {"pending_approval", "approved"}

\* create_purchase_request() finds nothing open. (When it does find something
\* it answers with that and changes nothing.)
BeginCreate(s, q, item, costly) ==
    /\ tx[s].pc = "idle"
    /\ purchase[q].status = "absent"
    /\ \A t \in Sessions : tx[t].purchase # q
    /\ ~\E p \in Purchases : IsOpen(p) /\ purchase[p].item = item
    /\ tx' = [tx EXCEPT ![s] = [Idle EXCEPT !.pc = "inserting", !.purchase = q,
                                            !.item = item, !.costly = costly]]
    /\ UNCHANGED <<purchase, approval>>

\* Mutants: every request is inserted as approved; or as a draft.
InsertedApproved(s) == [item |-> tx[s].item, costly |-> tx[s].costly, status |-> "approved"]
InsertedDraft(s) == [item |-> tx[s].item, costly |-> tx[s].costly, status |-> "draft"]

\* The rows a costly, and a cheap, request inserts.
Inserted(s) ==
    [item |-> tx[s].item, costly |-> tx[s].costly,
     status |-> IF tx[s].costly THEN "pending_approval" ELSE "approved"]

\* Request, approval and purchase.requested event are committed together.
CommitCreate(s) ==
    /\ tx[s].pc = "inserting"
    /\ purchase' = [purchase EXCEPT ![tx[s].purchase] = Inserted(s)]
    /\ approval' = IF tx[s].costly
                     THEN [approval EXCEPT ![tx[s].purchase].status = "pending"] ELSE approval
    /\ Ends(s)

-----------------------------------------------------------------------------
(* Deciding: ApprovalService, as in ApprovalGate, with its executor *)

BeginDecision(s, q, decision) ==
    /\ tx[s].pc = "idle"
    /\ approval[q].status = "pending"
    /\ tx' = [tx EXCEPT ![s] = [Idle EXCEPT !.pc = "deciding", !.purchase = q,
                                            !.decision = decision]]
    /\ UNCHANGED <<purchase, approval>>

\* The session that has flushed a decision on q holds the approval's row lock.
Holds(s, q) == tx[s].purchase = q /\ tx[s].pc \in {"executing", "committing"}

\* The flush of the decision; the table's CHECK lets a decision be repeated
\* but not reversed. Only an approval has something to execute.
Flush(s) ==
    /\ tx[s].pc = "deciding"
    /\ \A t \in Sessions \ {s} : ~Holds(t, tx[s].purchase)
    /\ approval[tx[s].purchase].status \in {"pending", tx[s].decision}
    /\ tx' = [tx EXCEPT ![s].pc = IF tx[s].decision = "approved"
                                    THEN "executing" ELSE "committing"]
    /\ UNCHANGED <<purchase, approval>>

\* execute_approved_action() in its savepoint: the request becomes approved,
\* or the failure is recorded on the approval.
Execute(s) ==
    /\ tx[s].pc = "executing"
    /\ \E result \in {"success", "failed"} :
         tx' = [tx EXCEPT ![s].pc = "committing", ![s].result = result]
    /\ UNCHANGED <<purchase, approval>>

\* Mutant: the savepoint of a failed execution is not rolled back.
CommitDecisionKeepingFailed(s) ==
    /\ tx[s].pc = "committing"
    /\ LET q == tx[s].purchase IN
         /\ approval' = [approval EXCEPT ![q].status = tx[s].decision,
                                         ![q].result = IF tx[s].decision = "approved"
                                                         THEN tx[s].result ELSE @]
         /\ purchase' = IF tx[s].decision = "approved"
                          THEN [purchase EXCEPT ![q].status = "approved"] ELSE purchase
    /\ Ends(s)

\* Neither reject() nor anything it calls touches the purchase request.
CommitDecision(s) ==
    /\ tx[s].pc = "committing"
    /\ LET q == tx[s].purchase IN
         /\ approval' = [approval EXCEPT ![q].status = tx[s].decision,
                                         ![q].result = IF tx[s].decision = "approved"
                                                         THEN tx[s].result ELSE @]
         /\ purchase' = IF tx[s].result = "success"
                          THEN [purchase EXCEPT ![q].status = "approved"] ELSE purchase
    /\ Ends(s)

\* Any error, the refusal of the CHECK included: get_db_session rolls back.
Fail(s) ==
    /\ tx[s].pc # "idle"
    /\ tx' = [tx EXCEPT ![s] = Idle]
    /\ UNCHANGED <<purchase, approval>>

Next ==
    \E s \in Sessions :
        \/ \E q \in Purchases, item \in Items, costly \in BOOLEAN : BeginCreate(s, q, item, costly)
        \/ CommitCreate(s)
        \/ \E q \in Purchases, d \in Decisions : BeginDecision(s, q, d)
        \/ Flush(s) \/ Execute(s) \/ CommitDecision(s)
        \/ Fail(s)

Spec == Init /\ [][Next]_vars

-----------------------------------------------------------------------------
(* Properties *)

TypeOK ==
    /\ purchase \in [Purchases -> PurchaseRows]
    /\ approval \in [Purchases -> ApprovalRows]
    /\ tx \in [Sessions -> Transactions]

\* FR-027: a purchase at or above the cost threshold is ordered only if its
\* approval stands approved, however decisions on it overlap.
CostlyNeedsApproval ==
    \A q \in Purchases :
        purchase[q].status = "approved" /\ purchase[q].costly => approval[q].status = "approved"

\* This step commits a request during which another one committed.
Overtaken == \E s \in Sessions : /\ ~tx[s].alone /\ tx'[s] = Idle
                                 /\ tx[s].pc \in {"inserting", "committing"}

\* "must not create a second PurchaseRequest/Approval" while one is open for
\* the same item.
OneOpenPerItem ==
    \A p, q \in Purchases :
        /\ {purchase[p].status, purchase[q].status} \subseteq {"pending_approval", "approved"}
        /\ purchase[p].item = purchase[q].item
        => p = q

\* A second open request for an item takes two proposals that overlap.
SecondOrderNeedsOverlap ==
    [][OneOpenPerItem /\ ~OneOpenPerItem' => Overtaken]_vars

\* The execution record tells the truth: a costly purchase is ordered exactly
\* when its approval says that the execution succeeded.
RecordMatchesOrder ==
    \A q \in Purchases :
        purchase[q].costly => (purchase[q].status = "approved" <=> approval[q].result = "success")

\* It lies only after two decisions on one approval overlapped: the second
\* execution can fail, and be recorded, after the first has ordered.
RecordLiesOnlyByOverlap ==
    [][RecordMatchesOrder /\ ~RecordMatchesOrder' => Overtaken]_vars

\* An open request is a "not-yet-resolved" one: it was not rejected.
OpenIsUnresolved == \A q \in Purchases : IsOpen(q) => approval[q].status # "rejected"
=============================================================================
