------------------------- MODULE Purchasing_proofs -------------------------
(***************************************************************************)
(* For any number of items, purchase requests and sessions: TypeOK,        *)
(* CostlyNeedsApproval, SecondOrderNeedsOverlap and                        *)
(* RecordLiesOnlyByOverlap of Purchasing.  The argument: what a session    *)
(* has read stays true until somebody else commits, and the lock on an     *)
(* approval's row and the CHECK keep a flushed decision the only one.      *)
(***************************************************************************)
EXTENDS Purchasing, TLAPS

Deciding == {"deciding", "executing", "committing"}
Holding == {"executing", "committing"}

\* The shape of a transaction tx[s] = x.
Formed(x) ==
    /\ x.pc = "idle" => x = Idle
    /\ x.pc # "idle" => x.purchase \in Purchases
    /\ x.pc \in Deciding => x.decision \in Decisions
    /\ x.pc = "executing" => x.decision = "approved"
    /\ x.pc = "committing" => (x.result = "none" <=> x.decision = "rejected")
    /\ x.pc # "committing" => x.result = "none"

NothingOpen(item) == \A p \in Purchases : IsOpen(p) => purchase[p].item # item

\* What the committed rows say of what x has read or flushed, whoever commits.
Stands(x) ==
    /\ x.pc = "inserting" => /\ purchase[x.purchase].status = "absent"
                             /\ approval[x.purchase].status = "absent"
    /\ x.pc \in Deciding => approval[x.purchase].status # "absent"
    /\ x.pc \in Holding => approval[x.purchase].status \in {"pending", x.decision}

\* What they say as well until somebody else commits.
Untouched(x) ==
    /\ x.pc = "inserting" => NothingOpen(x.item)
    /\ x.pc \in Deciding => approval[x.purchase].status = "pending"

Current(x) == Stands(x) /\ (x.alone => Untouched(x))

\* Two transactions on one request: neither is inserting it, and at most one
\* holds its approval.
Compatible(x, y) ==
    x.pc # "idle" /\ y.pc # "idle" /\ x.purchase = y.purchase =>
        "inserting" \notin {x.pc, y.pc} /\ ~({x.pc, y.pc} \subseteq Holding)

TransactionsOK ==
    /\ \A s \in Sessions : Formed(tx[s]) /\ Current(tx[s])
    /\ \A s, t \in Sessions : s # t => Compatible(tx[s], tx[t])

RowsOK ==
    \A q \in Purchases :
        /\ approval[q].status # "absent" => purchase[q].status # "absent"
        /\ approval[q].status \in {"absent", "pending"} => approval[q].result = "none"

IInv == TypeOK /\ TransactionsOK /\ RowsOK /\ CostlyNeedsApproval

-----------------------------------------------------------------------------
(* Steps inside a transaction: only tx[s] changes *)

LEMMA TxStep ==
    ASSUME IInv, NEW s \in Sessions, NEW x \in Transactions,
           tx' = [tx EXCEPT ![s] = x],
           UNCHANGED <<purchase, approval>>,
           Formed(x), Current(x),
           \A t \in Sessions \ {s} : Compatible(x, tx[t])
    PROVE  IInv'
<1>1. TypeOK'
  BY DEF IInv, TypeOK
<1>2. RowsOK' /\ CostlyNeedsApproval'
  BY DEF IInv, RowsOK, CostlyNeedsApproval
<1>3. \A t \in Sessions : tx'[t] = IF t = s THEN x ELSE tx[t]
  BY DEF IInv, TypeOK
<1>4. ASSUME NEW t \in Sessions PROVE (Formed(tx[t]) /\ Current(tx[t]))'
  <2>1. Formed(x)' /\ Current(x)' /\ Formed(tx[t])
    BY DEF IInv, TransactionsOK, Formed, Current, Stands, Untouched, NothingOpen, IsOpen
  <2>2. CASE t = s
    BY <1>3, <2>1, <2>2 DEF Formed, Current, Stands, Untouched, NothingOpen, IsOpen
  <2>3. CASE t # s
    BY <1>3, <2>1, <2>3 DEF IInv, TransactionsOK, Formed, Current, Stands, Untouched, NothingOpen, IsOpen
  <2>4. QED
    BY <2>2, <2>3
<1>5. ASSUME NEW t \in Sessions, NEW u \in Sessions, t # u
      PROVE  Compatible(tx[t], tx[u])'
  BY <1>3, <1>5 DEF IInv, TransactionsOK, Compatible
<1>6. TransactionsOK'
  BY <1>4, <1>5 DEF TransactionsOK
<1>7. QED
  BY <1>1, <1>2, <1>6 DEF IInv

LEMMA IdleOK ==
    Idle \in Transactions /\ Formed(Idle) /\ Current(Idle) /\ \A y : Compatible(Idle, y)
BY DEF Idle, Transactions, Pcs, Results, Formed, Current, Stands, Untouched, Compatible, Deciding, Holding

LEMMA BeginCreateStep ==
    ASSUME IInv, NEW s \in Sessions, NEW q \in Purchases, NEW item \in Items,
           NEW costly \in BOOLEAN, BeginCreate(s, q, item, costly)
    PROVE  IInv'
<1> DEFINE x == [Idle EXCEPT !.pc = "inserting", !.purchase = q, !.item = item, !.costly = costly]
<1>1. x \in Transactions /\ Formed(x)
  BY DEF Idle, Transactions, Pcs, Results, Formed, Deciding
<1>2. Current(x)
  BY DEF BeginCreate, IInv, RowsOK, Idle, Current, Stands, Untouched, NothingOpen, Deciding, Holding
<1>3. \A t \in Sessions \ {s} : Compatible(x, tx[t])
  BY DEF BeginCreate, Idle, Compatible
<1>4. tx' = [tx EXCEPT ![s] = x] /\ UNCHANGED <<purchase, approval>>
  BY DEF BeginCreate
<1> HIDE DEF x
<1>5. QED
  BY <1>1, <1>2, <1>3, <1>4, TxStep

LEMMA BeginDecisionStep ==
    ASSUME IInv, NEW s \in Sessions, NEW q \in Purchases, NEW d \in Decisions,
           BeginDecision(s, q, d)
    PROVE  IInv'
<1> DEFINE x == [Idle EXCEPT !.pc = "deciding", !.purchase = q, !.decision = d]
<1>1. x \in Transactions /\ Formed(x)
  BY DEF Idle, Transactions, Pcs, Results, Formed, Deciding
<1>2. Current(x)
  BY DEF BeginDecision, Idle, Current, Stands, Untouched, Deciding, Holding
<1>3. \A t \in Sessions \ {s} : Compatible(x, tx[t])
  BY DEF BeginDecision, IInv, TransactionsOK, Current, Stands, Untouched, Idle, Compatible, Holding
<1>4. tx' = [tx EXCEPT ![s] = x] /\ UNCHANGED <<purchase, approval>>
  BY DEF BeginDecision
<1> HIDE DEF x
<1>5. QED
  BY <1>1, <1>2, <1>3, <1>4, TxStep

LEMMA FlushStep ==
    ASSUME IInv, NEW s \in Sessions, Flush(s)
    PROVE  IInv'
<1> DEFINE x == [tx[s] EXCEPT !.pc = IF tx[s].decision = "approved"
                                       THEN "executing" ELSE "committing"]
<1>1. tx[s] \in Transactions /\ Formed(tx[s]) /\ Current(tx[s]) /\ tx[s].pc = "deciding"
  BY DEF Flush, IInv, TypeOK, TransactionsOK
<1>2. tx[s].decision \in Decisions /\ tx[s].purchase \in Purchases /\ tx[s].result = "none"
  BY <1>1 DEF Formed, Deciding
<1>3. x \in Transactions /\ Formed(x)
  BY <1>1, <1>2 DEF Transactions, Pcs, Formed, Decisions, Deciding
<1>4. Current(x)
  BY <1>1 DEF Flush, Transactions, Current, Stands, Untouched, Deciding, Holding
<1>5. \A t \in Sessions \ {s} : Compatible(x, tx[t])
  BY <1>1 DEF Flush, Holds, IInv, TransactionsOK, Transactions, Compatible, Holding
<1>6. tx' = [tx EXCEPT ![s] = x] /\ UNCHANGED <<purchase, approval>>
  BY DEF Flush
<1> HIDE DEF x
<1>7. QED
  BY <1>3, <1>4, <1>5, <1>6, TxStep

LEMMA ExecuteStep ==
    ASSUME IInv, NEW s \in Sessions, Execute(s)
    PROVE  IInv'
<1>1. PICK result \in {"success", "failed"} :
        tx' = [tx EXCEPT ![s].pc = "committing", ![s].result = result]
  BY DEF Execute
<1> DEFINE x == [tx[s] EXCEPT !.pc = "committing", !.result = result]
<1>2. tx[s] \in Transactions /\ Formed(tx[s]) /\ Current(tx[s]) /\ tx[s].pc = "executing"
  BY DEF Execute, IInv, TypeOK, TransactionsOK
<1>3. x \in Transactions /\ Formed(x)
  BY <1>2 DEF Transactions, Pcs, Results, Formed, Decisions, Deciding
<1>4. Current(x)
  BY <1>2 DEF Transactions, Current, Stands, Untouched, Deciding, Holding
<1>5. \A t \in Sessions \ {s} : Compatible(x, tx[t])
  BY <1>2 DEF IInv, TransactionsOK, Transactions, Compatible, Holding
<1>6. tx' = [tx EXCEPT ![s] = x] /\ UNCHANGED <<purchase, approval>>
  BY <1>1 DEF Execute
<1> HIDE DEF x
<1>7. QED
  BY <1>3, <1>4, <1>5, <1>6, TxStep

LEMMA FailStep ==
    ASSUME IInv, NEW s \in Sessions, Fail(s)
    PROVE  IInv'
BY IdleOK, TxStep DEF Fail

-----------------------------------------------------------------------------
(* Steps that commit: the others are no longer alone *)

\* A commit ends s and keeps the invariant if the rows it leaves are in order
\* and contradict nothing that another transaction x has flushed.
LEMMA CommitStep ==
    ASSUME IInv, NEW s \in Sessions, Ends(s),
           purchase' \in [Purchases -> PurchaseRows],
           approval' \in [Purchases -> ApprovalRows],
           RowsOK', CostlyNeedsApproval',
           \A t \in Sessions \ {s} : \A x : x = tx[t] => Stands(x)'
    PROVE  IInv'
<1> DEFINE End(t) == IF t = s \/ tx[t].pc = "idle" THEN Idle ELSE [tx[t] EXCEPT !.alone = FALSE]
<1>1. \A t \in Sessions : tx[t] \in Transactions /\ Formed(tx[t])
  BY DEF IInv, TypeOK, TransactionsOK
<1>2. \A t \in Sessions : End(t) \in Transactions /\ Formed(End(t))
  <2>1. ASSUME NEW x \in Transactions, Formed(x), x.pc # "idle"
        PROVE  /\ [x EXCEPT !.alone = FALSE] \in Transactions
               /\ Formed([x EXCEPT !.alone = FALSE])
    BY <2>1 DEF Transactions, Formed, Deciding
  <2>2. QED
    BY <1>1, <2>1, IdleOK
<1>3. \A t \in Sessions : tx'[t] = End(t)
  BY DEF Ends
<1> HIDE DEF End
<1>4. TypeOK'
  <2>1. tx' = [t \in Sessions |-> End(t)]
    BY DEF Ends, End
  <2>2. QED
    BY <1>2, <2>1 DEF TypeOK
<1>5. ASSUME NEW t \in Sessions PROVE (Formed(tx[t]) /\ Current(tx[t]))'
  <2>1. Formed(tx[t])'
    BY <1>2, <1>3 DEF Formed
  <2>2. CASE t = s \/ tx[t].pc = "idle"
    <3>1. tx'[t] = Idle
      BY <1>3, <2>2 DEF End
    <3>2. QED
      BY <2>1, <3>1 DEF Current, Stands, Untouched, Idle, Deciding, Holding
  <2>3. CASE t # s /\ tx[t].pc # "idle"
    <3>1. tx'[t] = [tx[t] EXCEPT !.alone = FALSE]
      BY <1>3, <2>3 DEF End
    <3>2. PICK y : y = tx[t]
      OBVIOUS
    <3>3. Stands(y)'
      BY <2>3, <3>2
    <3>4. /\ tx'[t].pc = y.pc /\ tx'[t].purchase = y.purchase
          /\ tx'[t].decision = y.decision /\ ~tx'[t].alone
      BY <1>1, <3>1, <3>2 DEF Transactions
    <3>5. QED
      BY <2>1, <3>3, <3>4 DEF Current, Stands
  <2>4. QED
    BY <2>2, <2>3
<1>6. ASSUME NEW t \in Sessions, NEW u \in Sessions, t # u
      PROVE  Compatible(tx[t], tx[u])'
  <2>1. Compatible(tx[t], tx[u])
    BY <1>6 DEF IInv, TransactionsOK
  <2>2. ASSUME NEW v \in Sessions
        PROVE  \/ tx'[v].pc = "idle"
               \/ tx'[v].pc = tx[v].pc /\ tx'[v].purchase = tx[v].purchase
    <3>1. CASE tx'[v] = Idle
      BY <3>1 DEF Idle
    <3>2. CASE tx'[v] = [tx[v] EXCEPT !.alone = FALSE]
      BY <1>1, <3>2 DEF Transactions
    <3>3. QED
      BY <1>3, <3>1, <3>2 DEF End
  <2>3. QED
    BY <2>1, <2>2 DEF Compatible
<1>7. TransactionsOK'
  BY <1>5, <1>6 DEF TransactionsOK
<1>8. QED
  BY <1>4, <1>7 DEF IInv

LEMMA CommitCreateStep ==
    ASSUME IInv, NEW s \in Sessions, CommitCreate(s)
    PROVE  IInv'
<1> DEFINE q == tx[s].purchase
<1>1. /\ tx[s] \in Transactions /\ tx[s].pc = "inserting" /\ q \in Purchases
      /\ purchase[q].status = "absent" /\ approval[q].status = "absent"
  BY DEF CommitCreate, IInv, TypeOK, TransactionsOK, Formed, Current, Stands
<1>2. Inserted(s) \in PurchaseRows
  BY <1>1 DEF Inserted, PurchaseRows, Transactions
<1>3. /\ purchase' \in [Purchases -> PurchaseRows]
      /\ \A p \in Purchases : purchase'[p] = IF p = q THEN Inserted(s) ELSE purchase[p]
  BY <1>1, <1>2 DEF CommitCreate, IInv, TypeOK
<1>4. /\ approval' \in [Purchases -> ApprovalRows]
      /\ \A p \in Purchases : /\ approval'[p].result = approval[p].result
                              /\ p # q => approval'[p].status = approval[p].status
      /\ approval'[q].status = IF tx[s].costly THEN "pending" ELSE "absent"
  BY <1>1 DEF CommitCreate, IInv, TypeOK, ApprovalRows
<1>5. RowsOK'
  BY <1>1, <1>3, <1>4 DEF IInv, RowsOK, Inserted
<1>6. CostlyNeedsApproval'
  BY <1>1, <1>3, <1>4 DEF IInv, CostlyNeedsApproval, Inserted
<1>7. ASSUME NEW t \in Sessions \ {s}, NEW x, x = tx[t] PROVE Stands(x)'
  <2>1. Stands(x) /\ Formed(x) /\ Compatible(x, tx[s])
    BY <1>7 DEF IInv, TransactionsOK, Current
  <2>2. x.pc \in Deciding \cup Holding \cup {"inserting"} => x.purchase \in Purchases \ {q}
    BY <1>1, <2>1 DEF Compatible, Formed, Deciding, Holding
  <2> HIDE DEF q
  <2>3. QED
    BY <1>3, <1>4, <2>1, <2>2 DEF Stands
<1>8. Ends(s)
  BY DEF CommitCreate
<1>9. QED
  BY <1>3, <1>4, <1>5, <1>6, <1>7, <1>8, CommitStep

LEMMA CommitDecisionStep ==
    ASSUME IInv, NEW s \in Sessions, CommitDecision(s)
    PROVE  IInv'
<1> DEFINE q == tx[s].purchase
<1>1. /\ tx[s] \in Transactions /\ tx[s].pc = "committing" /\ q \in Purchases
      /\ tx[s].decision \in Decisions
      /\ tx[s].result = "none" <=> tx[s].decision = "rejected"
      /\ approval[q].status \in {"pending", tx[s].decision}
  BY DEF CommitDecision, IInv, TypeOK, TransactionsOK, Formed, Current, Stands, Deciding, Holding
<1>2. /\ purchase' \in [Purchases -> PurchaseRows]
      /\ \A p \in Purchases :
           /\ purchase'[p].costly = purchase[p].costly
           /\ purchase'[p].status = IF p = q /\ tx[s].result = "success" THEN "approved"
                                    ELSE purchase[p].status
  BY <1>1 DEF CommitDecision, IInv, TypeOK, PurchaseRows
<1>3. /\ approval' \in [Purchases -> ApprovalRows]
      /\ \A p \in Purchases : p # q => approval'[p] = approval[p]
      /\ approval'[q].status = tx[s].decision
  <2> DEFINE result == IF tx[s].decision = "approved" THEN tx[s].result ELSE approval[q].result
  <2>1. approval \in [Purchases -> ApprovalRows] /\ result \in Results
    BY <1>1 DEF IInv, TypeOK, ApprovalRows, Transactions
  <2>2. approval' = [approval EXCEPT ![q].status = tx[s].decision, ![q].result = result]
    BY DEF CommitDecision
  <2> HIDE DEF result
  <2>3. QED
    BY <1>1, <2>1, <2>2 DEF ApprovalRows
<1>4. RowsOK'
  BY <1>1, <1>2, <1>3 DEF IInv, RowsOK, Decisions
<1>5. CostlyNeedsApproval'
  BY <1>1, <1>2, <1>3 DEF IInv, CostlyNeedsApproval, Decisions
<1>6. ASSUME NEW t \in Sessions \ {s}, NEW x, x = tx[t] PROVE Stands(x)'
  <2>1. Stands(x) /\ Formed(x) /\ Compatible(x, tx[s])
    BY <1>6 DEF IInv, TransactionsOK, Current
  <2>2. x.pc \in Holding \cup {"inserting"} => x.purchase \in Purchases \ {q}
    BY <1>1, <2>1 DEF Compatible, Formed, Holding
  <2>3. x.pc \in Deciding => x.purchase \in Purchases
    BY <2>1 DEF Formed, Deciding
  <2> HIDE DEF q
  <2>4. x.pc = "inserting" => /\ purchase'[x.purchase].status = "absent"
                              /\ approval'[x.purchase].status = "absent"
    BY <1>2, <1>3, <2>1, <2>2 DEF Stands
  <2>5. x.pc \in Deciding => approval'[x.purchase].status # "absent"
    BY <1>1, <1>3, <2>1, <2>3 DEF Stands, Decisions
  <2>6. x.pc \in Holding => approval'[x.purchase].status \in {"pending", x.decision}
    BY <1>3, <2>1, <2>2 DEF Stands
  <2>7. QED
    BY <2>4, <2>5, <2>6 DEF Stands
<1>7. Ends(s)
  BY DEF CommitDecision
<1>8. QED
  BY <1>2, <1>3, <1>4, <1>5, <1>6, <1>7, CommitStep

-----------------------------------------------------------------------------
(* The invariant *)

LEMMA InitInvariant == Init => IInv
<1> SUFFICES ASSUME Init PROVE IInv
  OBVIOUS
<1>1. TypeOK
  BY IdleOK DEF Init, TypeOK, PurchaseRows, ApprovalRows, AbsentPurchase, AbsentApproval, Results
<1>2. TransactionsOK
  BY IdleOK DEF Init, TransactionsOK
<1>3. RowsOK /\ CostlyNeedsApproval
  BY DEF Init, RowsOK, CostlyNeedsApproval, AbsentPurchase, AbsentApproval
<1>4. QED
  BY <1>1, <1>2, <1>3 DEF IInv

LEMMA NextInvariant == IInv /\ [Next]_vars => IInv'
<1> SUFFICES ASSUME IInv, [Next]_vars PROVE IInv'
  OBVIOUS
<1>1. CASE UNCHANGED vars
  BY <1>1 DEF vars, IInv, TypeOK, TransactionsOK, RowsOK, CostlyNeedsApproval,
              Formed, Current, Stands, Untouched, NothingOpen, IsOpen, Compatible
<1>2. ASSUME NEW s \in Sessions, NEW q \in Purchases, NEW item \in Items, NEW costly \in BOOLEAN,
             BeginCreate(s, q, item, costly)
      PROVE  IInv'
  BY <1>2, BeginCreateStep
<1>3. ASSUME NEW s \in Sessions, NEW q \in Purchases, NEW d \in Decisions, BeginDecision(s, q, d)
      PROVE  IInv'
  BY <1>3, BeginDecisionStep
<1>4. ASSUME NEW s \in Sessions, CommitCreate(s) PROVE IInv'
  BY <1>4, CommitCreateStep
<1>5. ASSUME NEW s \in Sessions, Flush(s) \/ Execute(s) \/ Fail(s) PROVE IInv'
  BY <1>5, FlushStep, ExecuteStep, FailStep
<1>6. ASSUME NEW s \in Sessions, CommitDecision(s) PROVE IInv'
  BY <1>6, CommitDecisionStep
<1>7. QED
  BY <1>1, <1>2, <1>3, <1>4, <1>5, <1>6 DEF Next

THEOREM Invariant == Spec => []IInv
BY InitInvariant, NextInvariant, PTL DEF Spec

-----------------------------------------------------------------------------
(* What the steps do to the rows *)

\* Only two actions write, and either ends its transaction.
LEMMA Writers ==
    ASSUME [Next]_vars
    PROVE  \/ UNCHANGED <<purchase, approval>>
           \/ \E s \in Sessions : CommitCreate(s) \/ CommitDecision(s)
BY DEF Next, vars, BeginCreate, BeginDecision, Flush, Execute, Fail

\* A commit over another one's commit is an overtaken one.
LEMMA AloneUnlessOvertaken ==
    ASSUME NEW s \in Sessions, Ends(s), tx[s].pc \in {"inserting", "committing"}, ~Overtaken
    PROVE  tx[s].alone
<1>1. tx'[s] = Idle
  BY DEF Ends
<1>2. QED
  BY <1>1 DEF Overtaken

LEMMA InsertedRows ==
    ASSUME IInv, NEW s \in Sessions, CommitCreate(s)
    PROVE  LET q == tx[s].purchase IN
           /\ q \in Purchases /\ tx[s].pc = "inserting" /\ Current(tx[s]) /\ Ends(s)
           /\ purchase'[q] = Inserted(s)
           /\ \A p \in Purchases \ {q} : purchase'[p] = purchase[p]
           /\ \A p \in Purchases : approval'[p].result = approval[p].result
BY DEF CommitCreate, IInv, TypeOK, TransactionsOK, Formed, ApprovalRows

LEMMA DecidedRows ==
    ASSUME IInv, NEW s \in Sessions, CommitDecision(s)
    PROVE  LET q == tx[s].purchase IN
           /\ q \in Purchases /\ tx[s].pc = "committing" /\ Current(tx[s]) /\ Ends(s)
           /\ tx[s].decision \in Decisions
           /\ tx[s].result = "none" <=> tx[s].decision = "rejected"
           /\ \A p \in Purchases : /\ purchase'[p].item = purchase[p].item
                                   /\ purchase'[p].costly = purchase[p].costly
           /\ \A p \in Purchases \ {q} : purchase'[p] = purchase[p] /\ approval'[p] = approval[p]
           /\ purchase'[q].status = IF tx[s].result = "success" THEN "approved"
                                    ELSE purchase[q].status
           /\ approval'[q].result = IF tx[s].decision = "approved" THEN tx[s].result
                                    ELSE approval[q].result
<1> DEFINE q == tx[s].purchase
<1>1. /\ q \in Purchases /\ tx[s].pc = "committing" /\ Current(tx[s]) /\ Ends(s)
      /\ tx[s].decision \in Decisions
      /\ tx[s].result = "none" <=> tx[s].decision = "rejected"
  BY DEF CommitDecision, IInv, TransactionsOK, Formed, Deciding
<1>2. /\ \A p \in Purchases : /\ purchase'[p].item = purchase[p].item
                              /\ purchase'[p].costly = purchase[p].costly
      /\ \A p \in Purchases \ {q} : purchase'[p] = purchase[p] /\ approval'[p] = approval[p]
      /\ purchase'[q].status = IF tx[s].result = "success" THEN "approved" ELSE purchase[q].status
  BY <1>1 DEF CommitDecision, IInv, TypeOK, PurchaseRows
<1>3. approval'[q].result = IF tx[s].decision = "approved" THEN tx[s].result ELSE approval[q].result
  BY <1>1 DEF CommitDecision, IInv, TypeOK, ApprovalRows
<1>4. QED
  BY <1>1, <1>2, <1>3

LEMMA OneOpenStep ==
    ASSUME IInv, [Next]_vars, OneOpenPerItem, ~Overtaken
    PROVE  OneOpenPerItem'
<1> DEFINE Open == {"pending_approval", "approved"}
<1>1. CASE UNCHANGED <<purchase, approval>>
  BY <1>1 DEF OneOpenPerItem
<1>2. ASSUME NEW s \in Sessions, CommitCreate(s) PROVE OneOpenPerItem'
  <2> DEFINE q == tx[s].purchase
  <2>1. /\ q \in Purchases /\ purchase'[q] = Inserted(s)
        /\ \A p \in Purchases \ {q} : purchase'[p] = purchase[p]
    BY <1>2, InsertedRows
  <2>2. NothingOpen(tx[s].item)
    BY <1>2, InsertedRows, AloneUnlessOvertaken DEF Current, Untouched
  <2>3. \A p \in Purchases \ {q} : purchase'[p].status \in Open => purchase'[p].item # tx[s].item
    BY <2>1, <2>2 DEF NothingOpen, IsOpen
  <2>4. purchase'[q].item = tx[s].item
    BY <2>1 DEF Inserted
  <2> HIDE DEF q
  <2>5. QED
    BY <2>1, <2>3, <2>4 DEF OneOpenPerItem
<1>3. ASSUME NEW s \in Sessions, CommitDecision(s) PROVE OneOpenPerItem'
  <2> DEFINE q == tx[s].purchase
  <2>1. /\ q \in Purchases
        /\ \A p \in Purchases : purchase'[p].item = purchase[p].item
        /\ \A p \in Purchases \ {q} : purchase'[p] = purchase[p]
    BY <1>3, DecidedRows
  <2>2. purchase[q].status \in Open
    BY <1>3, <2>1, DecidedRows DEF IInv, TypeOK, PurchaseRows, RowsOK, Current, Stands, Deciding
  <2>3. \A p \in Purchases : purchase'[p].status \in Open => purchase[p].status \in Open
    BY <2>1, <2>2
  <2>4. QED
    BY <2>1, <2>3 DEF OneOpenPerItem
<1>4. QED
  BY <1>1, <1>2, <1>3, Writers

LEMMA RecordStep ==
    ASSUME IInv, [Next]_vars, RecordMatchesOrder, ~Overtaken
    PROVE  RecordMatchesOrder'
<1>1. CASE UNCHANGED <<purchase, approval>>
  BY <1>1 DEF RecordMatchesOrder
<1>2. ASSUME NEW s \in Sessions, CommitCreate(s) PROVE RecordMatchesOrder'
  <2> DEFINE q == tx[s].purchase
  <2>1. /\ q \in Purchases /\ purchase'[q] = Inserted(s)
        /\ \A p \in Purchases \ {q} : purchase'[p] = purchase[p]
        /\ \A p \in Purchases : approval'[p].result = approval[p].result
    BY <1>2, InsertedRows
  <2>2. approval[q].result = "none"
    BY <1>2, <2>1, InsertedRows DEF IInv, RowsOK, Current, Stands
  <2>3. purchase'[q].costly => purchase'[q].status = "pending_approval"
    BY <2>1 DEF Inserted
  <2> HIDE DEF q
  <2>4. QED
    BY <2>1, <2>2, <2>3 DEF RecordMatchesOrder
<1>3. ASSUME NEW s \in Sessions, CommitDecision(s) PROVE RecordMatchesOrder'
  <2> DEFINE q == tx[s].purchase
  <2>1. /\ q \in Purchases
        /\ \A p \in Purchases : purchase'[p].costly = purchase[p].costly
        /\ \A p \in Purchases \ {q} : purchase'[p] = purchase[p] /\ approval'[p] = approval[p]
    BY <1>3, DecidedRows
  <2>2. approval[q].status = "pending"
    BY <1>3, DecidedRows, AloneUnlessOvertaken DEF Current, Untouched, Deciding
  <2>3. approval[q].result = "none"
    BY <2>1, <2>2 DEF IInv, RowsOK
  <2>4. purchase[q].costly => purchase[q].status # "approved"
    BY <2>1, <2>3 DEF RecordMatchesOrder
  <2>5. purchase'[q].costly => (purchase'[q].status = "approved" <=> approval'[q].result = "success")
    BY <1>3, <2>1, <2>3, <2>4, DecidedRows DEF Decisions
  <2> HIDE DEF q
  <2>6. QED
    BY <2>1, <2>5 DEF RecordMatchesOrder
<1>4. QED
  BY <1>1, <1>2, <1>3, Writers

-----------------------------------------------------------------------------
(* The theorems *)

\* The rows and transactions of any instance have their types: no code path
\* writes a status the readers do not know.
THEOREM TypeCorrect == Spec => []TypeOK
BY Invariant, PTL DEF IInv

\* FR-027 for purchases: CommitCreate never inserts a costly request as
\* approved, and the executor approves one only under a standing approval,
\* however decisions overlap.
THEOREM CostlyOrdersApproved == Spec => []CostlyNeedsApproval
BY Invariant, PTL DEF IInv

\* The look-up of create_purchase_request() does keep one open request per
\* item, as long as nothing is committed between look-up and commit.
THEOREM OneOrderUnlessOverlap == Spec => SecondOrderNeedsOverlap
<1>1. IInv /\ [Next]_vars => [OneOpenPerItem /\ ~OneOpenPerItem' => Overtaken]_vars
  BY OneOpenStep
<1>2. QED
  BY <1>1, Invariant, PTL DEF Spec, SecondOrderNeedsOverlap

\* The execution record of an approval tells whether its purchase was ordered,
\* unless decisions on it overlapped.
THEOREM RecordTrueUnlessOverlap == Spec => RecordLiesOnlyByOverlap
<1>1. IInv /\ [Next]_vars => [RecordMatchesOrder /\ ~RecordMatchesOrder' => Overtaken]_vars
  BY RecordStep
<1>2. QED
  BY <1>1, Invariant, PTL DEF Spec, RecordLiesOnlyByOverlap
=============================================================================
