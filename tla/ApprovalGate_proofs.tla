------------------------ MODULE ApprovalGate_proofs ------------------------
(***************************************************************************)
(* For any number of approvals, sessions and managers: the type invariant, *)
(* EffectsAreApproved, TrailMatchesRow, DecisionsTerminal and              *)
(* DecisionsNeverDeadlock of ApprovalGate. The argument: every committed   *)
(* row satisfies the CHECK constraint, a flushed row satisfies it with the *)
(* columns that will be committed, and its lock keeps it that way until    *)
(* the commit; a decision flushes one row, so it waits for no other row    *)
(* once it holds one.                                                      *)
(***************************************************************************)
EXTENDS ApprovalGate, LockWaits_proofs, FiniteSetTheorems

\* A committed row passed the CHECK; one that was never proposed is blank.
RowsConsistent ==
    \A a \in Approvals : IF row[a].status = "absent" THEN row[a] = AbsentRow
                                                     ELSE DecisionConsistent(row[a])

LocksExclusive ==
    \A s, t \in Sessions : s # t => tx[s].locked \cap tx[t].locked = {}

\* Whether the CHECK lets a session with operation op and manager m update a
\* row r depends on the time stamps that are already there.
Permitted(r, op, m) ==
    /\ op # "approved" => ~r.approved_at
    /\ op # "rejected" => ~r.rejected_at
    /\ op \in Decisions => m # NoManager

\* What a transaction tx[s] = x has established about the rows it flushed.
TxOK(x) ==
    /\ x.pc = "flushing" => x.todo # <<>> /\ x.result = "none"
    /\ x.pc = "flushing" \/ x.locked # {} => x.op \in Decisions \cup {"expired"}
    /\ x.pc = "flushing" /\ x.op \in Decisions => x.locked = {}
    /\ \A a \in x.locked :
         /\ Permitted(row[a], x.op, x.manager)
         /\ x.result # "none" => Domain[a] \in ExecutorDomains
    /\ x.pc = "executing" \/ x.result # "none" => x.op = "approved"
    /\ x.pc = "remembering" \/ x.remembered => x.op \in Decisions

FlushedRowsOK == \A s \in Sessions : TxOK(tx[s])

IInv ==
    /\ TypeOK
    /\ RowsConsistent
    /\ LocksExclusive
    /\ FlushedRowsOK
    /\ EffectsAreApproved
    /\ TrailMatchesRow

-----------------------------------------------------------------------------
(* The columns an UPDATE leaves behind *)

\* The row a session writes, column by column.
LEMMA WrittenColumns ==
    ASSUME TypeOK, NEW s \in Sessions, NEW a \in Approvals
    PROVE  /\ Written(s, a) \in Rows
           /\ tx[s].op = "approved" =>
                /\ Written(s, a).status = "approved"
                /\ Written(s, a).decided_by = tx[s].manager
                /\ Written(s, a).approved_at
                /\ Written(s, a).rejected_at = row[a].rejected_at
                /\ Written(s, a).execution_result =
                      IF tx[s].result = "none" THEN row[a].execution_result ELSE tx[s].result
           /\ tx[s].op = "rejected" =>
                /\ Written(s, a).status = "rejected"
                /\ Written(s, a).decided_by = tx[s].manager
                /\ Written(s, a).rejected_at
                /\ Written(s, a).approved_at = row[a].approved_at
                /\ Written(s, a).execution_result = row[a].execution_result
           /\ tx[s].op \notin Decisions =>
                /\ Written(s, a).status = "expired"
                /\ Written(s, a).decided_by = row[a].decided_by
                /\ Written(s, a).approved_at = row[a].approved_at
                /\ Written(s, a).rejected_at = row[a].rejected_at
                /\ Written(s, a).execution_result = row[a].execution_result
<1>1. row[a] \in Rows /\ tx[s] \in Transactions
  BY DEF TypeOK
<1>2. CASE tx[s].op = "approved"
  BY <1>1, <1>2 DEF Written, Rows, Transactions, Statuses, Results, Decisions
<1>3. CASE tx[s].op = "rejected"
  BY <1>1, <1>3 DEF Written, Rows, Transactions, Statuses, Results, Decisions
<1>4. CASE tx[s].op \notin Decisions
  BY <1>1, <1>4 DEF Written, Rows, Transactions, Statuses, Results, Decisions
<1>5. QED
  BY <1>2, <1>3, <1>4 DEF Decisions

\* The CHECK on the written row, in terms of the committed one.
LEMMA CheckOfWritten ==
    ASSUME TypeOK, NEW s \in Sessions, NEW a \in Approvals
    PROVE  DecisionConsistent(Written(s, a)) <=> Permitted(row[a], tx[s].op, tx[s].manager)
<1>1. row[a] \in Rows /\ tx[s] \in Transactions
  BY DEF TypeOK
<1>2. CASE tx[s].op = "approved"
  BY <1>1, <1>2, WrittenColumns DEF Permitted, DecisionConsistent, Rows, Decisions
<1>3. CASE tx[s].op = "rejected"
  BY <1>1, <1>3, WrittenColumns DEF Permitted, DecisionConsistent, Rows, Decisions
<1>4. CASE tx[s].op \notin Decisions
  BY <1>1, <1>4, WrittenColumns DEF Permitted, DecisionConsistent, Rows, Decisions
<1>5. QED
  BY <1>2, <1>3, <1>4 DEF Decisions

-----------------------------------------------------------------------------
(* Steps inside a transaction: only tx[s] changes *)

\* A step that replaces only tx[s], by a transaction that is itself in order
\* and locks no row another one holds, keeps the invariant.
LEMMA TxStep ==
    ASSUME IInv, NEW s \in Sessions, NEW x \in Transactions,
           tx' = [tx EXCEPT ![s] = x],
           UNCHANGED <<row, effect, memory, completed>>,
           TxOK(x),
           \A t \in Sessions \ {s} : x.locked \cap tx[t].locked = {}
    PROVE  IInv'
<1>1. TypeOK'
  BY DEF IInv, TypeOK
<1>2. RowsConsistent' /\ EffectsAreApproved' /\ TrailMatchesRow'
  BY DEF IInv, RowsConsistent, EffectsAreApproved, TrailMatchesRow, DecisionConsistent
<1>3. LocksExclusive'
  BY DEF IInv, TypeOK, LocksExclusive
<1>4. FlushedRowsOK'
  BY DEF IInv, TypeOK, FlushedRowsOK, TxOK, Permitted
<1>5. QED
  BY <1>1, <1>2, <1>3, <1>4 DEF IInv

\* Ending a session without a commit.
LEMMA RollbackStep ==
    ASSUME IInv, NEW s \in Sessions, Rollback(s)
    PROVE  IInv'
<1>1. IdleTx \in Transactions /\ TxOK(IdleTx) /\ IdleTx.locked = {}
  BY DEF IdleTx, Transactions, TxOK, Pcs, Statuses, Results
<1>2. QED
  BY <1>1, TxStep DEF Rollback

\* approve() and reject() start with one row to flush.
LEMMA BeginDecisionStep ==
    ASSUME IInv, NEW s \in Sessions, NEW a \in Approvals, NEW m \in Managers,
           NEW d \in Decisions, BeginDecision(s, a, m, d)
    PROVE  IInv'
<1> DEFINE x == [IdleTx EXCEPT !.pc = "flushing", !.op = d, !.manager = m, !.todo = <<a>>]
<1>0. <<a>> \in Seq(Approvals) /\ <<a>> # <<>>
  OBVIOUS
<1>1. x \in Transactions /\ TxOK(x) /\ x.locked = {}
  <2>1. x \in Transactions
    BY <1>0 DEF IdleTx, Transactions, Pcs, Statuses, Results, Decisions
  <2>2. /\ x.locked = {} /\ x.result = "none" /\ ~x.remembered
        /\ x.pc = "flushing" /\ x.todo = <<a>> /\ x.op = d
    BY DEF IdleTx
  <2>3. QED
    BY <1>0, <2>1, <2>2 DEF TxOK, Decisions
<1>2. QED
  BY <1>1, TxStep DEF BeginDecision

\* expire() starts with a non-empty listing of overdue rows.
LEMMA BeginExpireStep ==
    ASSUME IInv, NEW s \in Sessions, BeginExpire(s)
    PROVE  IInv'
<1>1. PICK due \in (SUBSET {a \in Deadlined : row[a].status = "pending"}) \ {{}} :
        \E listing \in [1 .. Cardinality(due) -> due] :
          tx' = [tx EXCEPT ![s] = [IdleTx EXCEPT !.pc = "flushing", !.op = "expired",
                                                 !.todo = listing]]
  BY DEF BeginExpire
<1>2. due \subseteq Approvals /\ IsFiniteSet(due) /\ due # {}
  <2>1. due \in SUBSET Approvals /\ due # {}
    BY DeadlinedAssumption
  <2>2. QED
    BY <2>1, ApprovalsAssumption, FS_Subset
<1>3. Cardinality(due) \in Nat /\ Cardinality(due) # 0
  BY <1>2, FS_CardinalityType, FS_EmptySet
<1>4. PICK listing \in [1 .. Cardinality(due) -> due] :
        tx' = [tx EXCEPT ![s] = [IdleTx EXCEPT !.pc = "flushing", !.op = "expired",
                                               !.todo = listing]]
  BY <1>1
<1>5. listing \in Seq(Approvals) /\ listing # <<>>
  BY <1>2, <1>3
<1> DEFINE x == [IdleTx EXCEPT !.pc = "flushing", !.op = "expired", !.todo = listing]
<1>6. x \in Transactions /\ TxOK(x) /\ x.locked = {}
  <2>1. x \in Transactions
    BY <1>5 DEF IdleTx, Transactions, Pcs, Statuses, Results
  <2>2. /\ x.locked = {} /\ x.result = "none" /\ ~x.remembered
        /\ x.pc = "flushing" /\ x.todo = listing /\ x.op = "expired"
    BY DEF IdleTx
  <2>3. QED
    BY <1>5, <2>1, <2>2 DEF TxOK
<1>7. QED
  BY <1>4, <1>6, TxStep DEF BeginExpire

\* The flushed row joins the locked ones; the CHECK makes it permitted.
LEMMA FlushStep ==
    ASSUME IInv, NEW s \in Sessions, Flush(s)
    PROVE  IInv'
<1> DEFINE a == Head(tx[s].todo)
           x == [tx[s] EXCEPT !.pc = AfterFlush(s), !.todo = Tail(@), !.locked = @ \cup {a}]
<1>1. tx[s] \in Transactions /\ tx[s].todo # <<>> /\ TxOK(tx[s])
  BY DEF IInv, TypeOK, Flush, FlushedRowsOK, TxOK
<1>2. a \in Approvals /\ Tail(tx[s].todo) \in Seq(Approvals)
  BY <1>1 DEF Transactions
<1>3. AfterFlush(s) \in Pcs
  BY DEF AfterFlush, Pcs
<1>4. x \in Transactions
  BY <1>1, <1>2, <1>3 DEF Transactions
<1>5. Permitted(row[a], tx[s].op, tx[s].manager)
  BY <1>2, CheckOfWritten DEF IInv, Flush
<1>6. AfterFlush(s) = "flushing" => Tail(tx[s].todo) # <<>>
  BY DEF AfterFlush
<1>7. TxOK(x)
  BY <1>1, <1>2, <1>5, <1>6 DEF TxOK, AfterFlush, Transactions, Decisions, Flush
<1>8. \A t \in Sessions \ {s} : x.locked \cap tx[t].locked = {}
  BY <1>1, <1>2 DEF IInv, LocksExclusive, Flush, LockFree, Transactions
<1>9. tx' = [tx EXCEPT ![s] = x]
  BY <1>1 DEF Flush, IInv, TypeOK, Transactions
<1>10. QED
  BY <1>4, <1>7, <1>8, <1>9, TxStep DEF Flush

\* The executor's outcome is recorded for a domain that has an executor.
LEMMA ExecuteStep ==
    ASSUME IInv, NEW s \in Sessions, Execute(s)
    PROVE  IInv'
<1>1. PICK result \in Results :
        /\ result = "none" <=> \E a \in tx[s].locked : Domain[a] \notin ExecutorDomains
        /\ tx' = [tx EXCEPT ![s].pc = "remembering", ![s].result = result]
  BY DEF Execute
<1> DEFINE x == [tx[s] EXCEPT !.pc = "remembering", !.result = result]
<1>2. tx[s] \in Transactions /\ TxOK(tx[s]) /\ tx[s].op = "approved"
  BY DEF IInv, TypeOK, FlushedRowsOK, TxOK, Execute
<1>3. x \in Transactions /\ TxOK(x) /\ x.locked = tx[s].locked
  BY <1>1, <1>2 DEF Transactions, TxOK, Pcs, Decisions
<1>4. tx' = [tx EXCEPT ![s] = x]
  <2>1. tx \in [Sessions -> Transactions]
    BY DEF IInv, TypeOK
  <2>2. QED
    BY <1>1, <2>1 DEF Transactions
<1> HIDE DEF x
<1>5. \A t \in Sessions \ {s} : x.locked \cap tx[t].locked = {}
  BY <1>3 DEF IInv, LocksExclusive
<1>6. UNCHANGED <<row, effect, memory, completed>>
  BY DEF Execute
<1>7. QED
  BY <1>3, <1>4, <1>5, <1>6, TxStep

\* A stored memory tells the decision of its session.
LEMMA RememberStep ==
    ASSUME IInv, NEW s \in Sessions, Remember(s)
    PROVE  IInv'
<1>1. PICK stored \in BOOLEAN :
        tx' = [tx EXCEPT ![s].pc = "publishing", ![s].remembered = stored]
  BY DEF Remember
<1> DEFINE x == [tx[s] EXCEPT !.pc = "publishing", !.remembered = stored]
<1>2. tx[s] \in Transactions /\ TxOK(tx[s]) /\ tx[s].op \in Decisions
  BY DEF IInv, TypeOK, FlushedRowsOK, TxOK, Remember
<1>3. x \in Transactions /\ TxOK(x) /\ x.locked = tx[s].locked
  BY <1>2 DEF Transactions, TxOK, Pcs
<1>4. tx' = [tx EXCEPT ![s] = x]
  <2>1. tx \in [Sessions -> Transactions]
    BY DEF IInv, TypeOK
  <2>2. QED
    BY <1>1, <2>1 DEF Transactions
<1> HIDE DEF x
<1>5. \A t \in Sessions \ {s} : x.locked \cap tx[t].locked = {}
  BY <1>3 DEF IInv, LocksExclusive
<1>6. UNCHANGED <<row, effect, memory, completed>>
  BY DEF Remember
<1>7. QED
  BY <1>3, <1>4, <1>5, <1>6, TxStep

LEMMA PublishStep ==
    ASSUME IInv, NEW s \in Sessions, Publish(s)
    PROVE  IInv'
<1> DEFINE x == [tx[s] EXCEPT !.pc = "committing"]
<1>1. tx[s] \in Transactions /\ TxOK(tx[s])
  BY DEF IInv, TypeOK, FlushedRowsOK
<1>2. x \in Transactions /\ TxOK(x) /\ x.locked = tx[s].locked
  BY <1>1 DEF Transactions, TxOK, Pcs
<1>3. tx' = [tx EXCEPT ![s] = x]
  BY <1>1 DEF Publish, IInv, TypeOK, Transactions
<1>4. \A t \in Sessions \ {s} : x.locked \cap tx[t].locked = {}
  BY <1>2 DEF IInv, LocksExclusive
<1>5. QED
  BY <1>2, <1>3, <1>4, TxStep DEF Publish

-----------------------------------------------------------------------------
(* Steps that change what is committed *)

LEMMA ProposeStep ==
    ASSUME IInv, NEW a \in Approvals, Propose(a)
    PROVE  IInv'
<1>1. row[a] = AbsentRow
  BY DEF IInv, RowsConsistent, Propose
<1>2. row' = [row EXCEPT ![a] = [AbsentRow EXCEPT !.status = "pending"]]
  BY <1>1 DEF IInv, TypeOK, Propose
<1>3. TypeOK'
  <2>1. [AbsentRow EXCEPT !.status = "pending"] \in Rows
    BY DEF AbsentRow, Rows, Statuses, Results
  <2>2. row' \in [Approvals -> Rows]
    BY <1>2, <2>1 DEF IInv, TypeOK
  <2>3. QED
    BY <2>2 DEF IInv, TypeOK, Propose
<1>4. RowsConsistent'
  BY <1>2 DEF IInv, TypeOK, RowsConsistent, DecisionConsistent, AbsentRow
<1>5. LocksExclusive'
  BY DEF IInv, LocksExclusive, Propose
<1>6. FlushedRowsOK'
  <2>1. \A b \in Approvals : /\ row'[b].approved_at = row[b].approved_at
                             /\ row'[b].rejected_at = row[b].rejected_at
    BY <1>1, <1>2 DEF IInv, TypeOK, AbsentRow
  <2>2. \A s \in Sessions : tx[s].locked \subseteq Approvals
    BY DEF IInv, TypeOK, Transactions
  <2>3. QED
    BY <2>1, <2>2 DEF IInv, FlushedRowsOK, TxOK, Permitted, Propose
<1>7. EffectsAreApproved'
  BY <1>1, <1>2 DEF IInv, TypeOK, EffectsAreApproved, Propose, AbsentRow
<1>8. TrailMatchesRow'
  BY <1>1, <1>2 DEF IInv, TypeOK, TrailMatchesRow, Propose, AbsentRow, Decisions
<1>9. QED
  BY <1>3, <1>4, <1>5, <1>6, <1>7, <1>8 DEF IInv

\* What a committing session has established about each row it holds.
LEMMA CommittedRow ==
    ASSUME IInv, NEW s \in Sessions, NEW a \in Approvals, a \in tx[s].locked
    PROVE  /\ tx[s].op \in Decisions \cup {"expired"}
           /\ Written(s, a) \in Rows
           /\ Written(s, a).status = tx[s].op
           /\ DecisionConsistent(Written(s, a))
           /\ row[a].status \in Decisions => row[a].status = tx[s].op
           /\ tx[s].result # "none" => tx[s].op = "approved" /\ Domain[a] \in ExecutorDomains
           /\ tx[s].remembered => tx[s].op \in Decisions
           /\ Written(s, a).decided_by # NoManager <=> tx[s].op \in Decisions
           /\ Written(s, a).execution_result =
                 IF tx[s].result = "none" THEN row[a].execution_result ELSE tx[s].result
<1>1. tx[s] \in Transactions /\ TxOK(tx[s])
  BY DEF IInv, TypeOK, FlushedRowsOK
<1>2. tx[s].op \in Decisions \cup {"expired"}
  BY <1>1 DEF TxOK, Transactions, Statuses, Decisions
<1>3. Permitted(row[a], tx[s].op, tx[s].manager) /\ DecisionConsistent(Written(s, a))
  BY <1>1, CheckOfWritten DEF IInv, TxOK
<1>4. row[a].status \in Decisions => row[a].status = tx[s].op
  BY <1>1, <1>2, <1>3 DEF IInv, RowsConsistent, DecisionConsistent, Permitted, Decisions
<1>5. /\ tx[s].result # "none" => tx[s].op = "approved" /\ Domain[a] \in ExecutorDomains
      /\ tx[s].remembered => tx[s].op \in Decisions
  BY <1>1 DEF TxOK
<1>6. /\ Written(s, a) \in Rows
      /\ Written(s, a).status = tx[s].op
      /\ Written(s, a).execution_result =
            IF tx[s].result = "none" THEN row[a].execution_result ELSE tx[s].result
  BY <1>1, <1>2, <1>5, WrittenColumns DEF IInv, Decisions
<1>7. Written(s, a).decided_by # NoManager <=> tx[s].op \in Decisions
  BY <1>1, <1>2, <1>3, <1>4, WrittenColumns DEF IInv, TrailMatchesRow, Permitted, Decisions
<1>8. QED
  BY <1>1, <1>2, <1>3, <1>4, <1>5, <1>6, <1>7

\* The rows a commit leaves: the committed session's, and all others as before.
LEMMA CommitStep ==
    ASSUME IInv, NEW s \in Sessions, Commit(s)
    PROVE  /\ IInv'
           /\ \A a \in Approvals : row[a].status \in Decisions =>
                                      row'[a].status = row[a].status
<1> DEFINE Held(a) == a \in tx[s].locked
<1>1. /\ \A a \in Approvals : row'[a] = IF Held(a) THEN Written(s, a) ELSE row[a]
      /\ \A a \in Approvals : effect'[a] = IF Held(a) /\ tx[s].result = "success"
                                             THEN effect[a] + 1 ELSE effect[a]
      /\ \A a \in Approvals : memory'[a] = IF Held(a) /\ tx[s].remembered
                                             THEN tx[s].op ELSE memory[a]
      /\ \A a \in Approvals, d \in Decisions :
           completed'[a][d] = IF Held(a) /\ tx[s].op = d
                                THEN completed[a][d] + 1 ELSE completed[a][d]
      /\ tx' = [tx EXCEPT ![s] = IdleTx]
  BY DEF Commit
<1>2. TypeOK'
  <2>1. row' \in [Approvals -> Rows]
    BY CommittedRow DEF IInv, TypeOK, Commit
  <2>2. effect' \in [Approvals -> Nat]
    BY DEF IInv, TypeOK, Commit
  <2>3. memory' \in [Approvals -> Decisions \cup {"none"}]
    BY CommittedRow DEF IInv, TypeOK, Commit
  <2>4. completed' \in [Approvals -> [Decisions -> Nat]]
    BY DEF IInv, TypeOK, Commit
  <2>5. IdleTx \in Transactions
    BY DEF IdleTx, Transactions, Pcs, Statuses, Results
  <2>6. tx' \in [Sessions -> Transactions]
    BY <1>1, <2>5 DEF IInv, TypeOK
  <2>7. QED
    BY <2>1, <2>2, <2>3, <2>4, <2>6 DEF TypeOK
<1>3. RowsConsistent'
  <2> SUFFICES ASSUME NEW a \in Approvals
               PROVE  IF row'[a].status = "absent" THEN row'[a] = AbsentRow
                                                   ELSE DecisionConsistent(row'[a])
    BY DEF RowsConsistent, DecisionConsistent
  <2>1. CASE Held(a)
    BY <1>1, <2>1, CommittedRow DEF Decisions
  <2>2. CASE ~Held(a)
    BY <1>1, <2>2 DEF IInv, RowsConsistent
  <2>3. QED
    BY <2>1, <2>2
<1>4. LocksExclusive'
  BY <1>1 DEF IInv, TypeOK, LocksExclusive, IdleTx
<1>5. FlushedRowsOK'
  <2> SUFFICES ASSUME NEW t \in Sessions
               PROVE  TxOK(tx[t])'
    BY DEF FlushedRowsOK
  <2>1. CASE t = s
    BY <1>1, <2>1 DEF IInv, TypeOK, TxOK, IdleTx
  <2>2. CASE t # s
    <3>1. tx'[t] = tx[t] /\ TxOK(tx[t]) /\ tx[t].locked \subseteq Approvals
      BY <1>1, <2>2 DEF IInv, TypeOK, FlushedRowsOK, Transactions
    <3>2. \A a \in tx[t].locked : row'[a] = row[a]
      BY <1>1, <2>2, <3>1 DEF IInv, LocksExclusive
    <3>3. QED
      BY <3>1, <3>2 DEF TxOK, Permitted
  <2>3. QED
    BY <2>1, <2>2
<1>6. EffectsAreApproved'
  <2> SUFFICES ASSUME NEW a \in Approvals, effect'[a] > 0
               PROVE  row'[a].status = "approved"
    BY DEF EffectsAreApproved
  <2>1. CASE Held(a)
    <3>1. CASE tx[s].result = "success"
      BY <1>1, <2>1, <3>1, CommittedRow
    <3>2. CASE tx[s].result # "success"
      BY <1>1, <2>1, <3>2, CommittedRow DEF IInv, EffectsAreApproved, Decisions
    <3>3. QED
      BY <3>1, <3>2
  <2>2. CASE ~Held(a)
    BY <1>1, <2>2 DEF IInv, EffectsAreApproved
  <2>3. QED
    BY <2>1, <2>2
<1>7. TrailMatchesRow'
  <2> SUFFICES ASSUME NEW a \in Approvals
               PROVE  /\ \A d \in Decisions : completed'[a][d] > 0 <=> row'[a].status = d
                      /\ memory'[a] # "none" => memory'[a] = row'[a].status
                      /\ row'[a].decided_by # NoManager <=> row'[a].status \in Decisions
                      /\ row'[a].execution_result # "none" =>
                            row'[a].status = "approved" /\ Domain[a] \in ExecutorDomains
    BY DEF TrailMatchesRow
  <2>1. CASE Held(a)
    <3>1. \A d \in Decisions : completed'[a][d] > 0 <=> row'[a].status = d
      <4> SUFFICES ASSUME NEW d \in Decisions
                   PROVE  completed'[a][d] > 0 <=> row'[a].status = d
        OBVIOUS
      <4>1. completed[a][d] \in Nat /\ (completed[a][d] > 0 <=> row[a].status = d)
        BY DEF IInv, TypeOK, TrailMatchesRow
      <4>2. row'[a].status = tx[s].op /\ (row[a].status = d => tx[s].op = d)
        BY <1>1, <2>1, CommittedRow
      <4>3. CASE tx[s].op = d
        BY <1>1, <2>1, <4>1, <4>2, <4>3
      <4>4. CASE tx[s].op # d
        BY <1>1, <2>1, <4>1, <4>2, <4>4
      <4>5. QED
        BY <4>3, <4>4
    <3>2. memory'[a] # "none" => memory'[a] = row'[a].status
      <4>1. memory[a] # "none" => memory[a] \in Decisions /\ memory[a] = row[a].status
        BY DEF IInv, TypeOK, TrailMatchesRow
      <4>2. QED
        BY <1>1, <2>1, <4>1, CommittedRow
    <3>3. row'[a].decided_by # NoManager <=> row'[a].status \in Decisions
      BY <1>1, <2>1, CommittedRow
    <3>4. row'[a].execution_result # "none" =>
             row'[a].status = "approved" /\ Domain[a] \in ExecutorDomains
      BY <1>1, <2>1, CommittedRow DEF IInv, TrailMatchesRow, Decisions
    <3>5. QED
      BY <3>1, <3>2, <3>3, <3>4
  <2>2. CASE ~Held(a)
    BY <1>1, <2>2 DEF IInv, TrailMatchesRow
  <2>3. QED
    BY <2>1, <2>2
<1>8. \A a \in Approvals : row[a].status \in Decisions => row'[a].status = row[a].status
  BY <1>1, CommittedRow
<1>9. QED
  BY <1>2, <1>3, <1>4, <1>5, <1>6, <1>7, <1>8 DEF IInv

-----------------------------------------------------------------------------
(* Theorems *)

LEMMA InitIInv == Init => IInv
<1> SUFFICES ASSUME Init PROVE IInv
  OBVIOUS
<1>1. AbsentRow \in Rows /\ IdleTx \in Transactions
  BY DEF AbsentRow, IdleTx, Rows, Transactions, Pcs, Statuses, Results
<1>2. TypeOK
  BY <1>1 DEF Init, TypeOK
<1>3. \A s \in Sessions : TxOK(tx[s])
  BY DEF Init, IdleTx, TxOK
<1>4. RowsConsistent /\ LocksExclusive /\ EffectsAreApproved
  BY DEF Init, RowsConsistent, LocksExclusive, EffectsAreApproved, AbsentRow, IdleTx
<1>5. TrailMatchesRow
  BY DEF Init, TrailMatchesRow, AbsentRow, Decisions
<1>6. QED
  BY <1>2, <1>3, <1>4, <1>5 DEF IInv, FlushedRowsOK

\* A step of the specification keeps the invariant, and no decided row's
\* status changes with it.
LEMMA NextIInv ==
    ASSUME IInv, [Next]_vars
    PROVE  /\ IInv'
           /\ \A a \in Approvals : row[a].status \in Decisions =>
                                      row'[a].status = row[a].status
<1>1. CASE UNCHANGED vars
  BY <1>1 DEF vars, IInv, TypeOK, RowsConsistent, LocksExclusive, FlushedRowsOK, TxOK,
              Permitted, EffectsAreApproved, TrailMatchesRow, DecisionConsistent
<1>2. CASE \E a \in Approvals : Propose(a)
  <2>1. PICK a \in Approvals : Propose(a)
    BY <1>2
  <2>2. \A b \in Approvals : row[b].status \in Decisions => row'[b].status = row[b].status
    BY <2>1 DEF Propose, IInv, TypeOK, Decisions
  <2>3. QED
    BY <2>1, <2>2, ProposeStep
<1>3. ASSUME NEW s \in Sessions, Commit(s)
      PROVE  /\ IInv'
             /\ \A a \in Approvals : row[a].status \in Decisions =>
                                        row'[a].status = row[a].status
  BY <1>3, CommitStep
<1>4. ASSUME NEW s \in Sessions,
             \/ \E a \in Approvals, m \in Managers, d \in Decisions : BeginDecision(s, a, m, d)
             \/ BeginExpire(s) \/ Flush(s) \/ Execute(s) \/ Remember(s) \/ Publish(s)
             \/ FlushRefused(s) \/ DeadlockVictim(s) \/ Fail(s)
      PROVE  IInv' /\ row' = row
  <2>1. CASE \E a \in Approvals, m \in Managers, d \in Decisions : BeginDecision(s, a, m, d)
    BY <2>1, BeginDecisionStep DEF BeginDecision
  <2>2. CASE BeginExpire(s)
    BY <2>2, BeginExpireStep DEF BeginExpire
  <2>3. CASE Flush(s)
    BY <2>3, FlushStep DEF Flush
  <2>4. CASE Execute(s)
    BY <2>4, ExecuteStep DEF Execute
  <2>5. CASE Remember(s)
    BY <2>5, RememberStep DEF Remember
  <2>6. CASE Publish(s)
    BY <2>6, PublishStep DEF Publish
  <2>7. CASE FlushRefused(s) \/ DeadlockVictim(s) \/ Fail(s)
    BY <2>7, RollbackStep DEF FlushRefused, DeadlockVictim, Fail, Rollback
  <2>8. QED
    BY <1>4, <2>1, <2>2, <2>3, <2>4, <2>5, <2>6, <2>7
<1>5. QED
  BY <1>1, <1>2, <1>3, <1>4 DEF Next, SessionStep

\* The inductive invariant holds throughout.
THEOREM Invariant == Spec => []IInv
<1>1. IInv /\ [Next]_vars => IInv'
  BY NextIInv
<1>2. QED
  BY InitIInv, <1>1, PTL DEF Spec

\* Every variable keeps its type.
THEOREM TypeCorrect == Spec => []TypeOK
<1>1. IInv => TypeOK
  BY DEF IInv
<1>2. QED
  BY Invariant, <1>1, PTL

\* FR-027: what takes effect was approved; approve(), reject() and expire()
\* may overlap in any number of sessions.
THEOREM OnlyApprovedTakesEffect == Spec => []EffectsAreApproved
<1>1. IInv => EffectsAreApproved
  BY DEF IInv
<1>2. QED
  BY Invariant, <1>1, PTL

\* The decision's row, events and memory are committed together and agree.
THEOREM DecisionTrail == Spec => []TrailMatchesRow
<1>1. IInv => TrailMatchesRow
  BY DEF IInv
<1>2. QED
  BY Invariant, <1>1, PTL

\* FR-028: a committed decision is never turned into another status, because
\* the CHECK refuses the stale UPDATE that would do it.
THEOREM DecisionsAreTerminal == Spec => DecisionsTerminal
<1>1. IInv /\ [Next]_vars =>
        [\A a \in Approvals : row[a].status \in Decisions => row'[a].status = row[a].status]_row
  BY NextIInv
<1>2. QED
  BY Invariant, <1>1, PTL DEF Spec, DecisionsTerminal

-----------------------------------------------------------------------------
(* One session at a time implements the promised life cycle *)

\* With nobody else to decide in between, the rows an open session works on
\* stay pending until it commits, and a decision concerns exactly one row.
SerialTxOK(x) ==
    /\ \A a \in x.locked : row[a].status = "pending"
    /\ \A i \in DOMAIN x.todo : row[x.todo[i]].status = "pending"
    /\ x.op \in Decisions =>
          IF x.pc = "flushing" THEN x.locked = {} /\ \E a \in Approvals : x.todo = <<a>>
                               ELSE \E a \in Approvals : x.locked = {a}

SerialInv == \A s \in Sessions : SerialTxOK(tx[s])

\* A step that leaves the database alone and tx[s] in order.
LEMMA SerialTxStep ==
    ASSUME IInv, SerialInv, NEW s \in Sessions, NEW x,
           tx' = [tx EXCEPT ![s] = x], UNCHANGED row, SerialTxOK(x)
    PROVE  SerialInv'
BY DEF SerialInv, SerialTxOK, IInv, TypeOK

\* The invariant of serial execution is kept by every step.
LEMMA SerialNext ==
    ASSUME \A s, t \in Sessions : s = t, IInv, SerialInv, [Next]_vars
    PROVE  SerialInv'
<1>1. CASE UNCHANGED vars
  BY <1>1 DEF vars, SerialInv, SerialTxOK
<1>2. CASE \E a \in Approvals : Propose(a)
  <2>1. PICK a \in Approvals : Propose(a)
    BY <1>2
  <2>2. \A b \in Approvals : row[b].status = "pending" => row'[b].status = "pending"
    BY <2>1 DEF Propose, IInv, TypeOK
  <2>3. \A s \in Sessions : tx[s] \in Transactions /\ SerialTxOK(tx[s])
    BY DEF IInv, TypeOK, SerialInv
  <2>4. \A s \in Sessions : /\ tx[s].locked \subseteq Approvals
                            /\ \A i \in DOMAIN tx[s].todo : tx[s].todo[i] \in Approvals
    BY <2>3 DEF Transactions
  <2>5. tx' = tx
    BY <2>1 DEF Propose
  <2>6. QED
    BY <2>2, <2>3, <2>4, <2>5 DEF SerialInv, SerialTxOK
<1>3. ASSUME NEW s \in Sessions, NEW a \in Approvals, NEW m \in Managers,
             NEW d \in Decisions, BeginDecision(s, a, m, d)
      PROVE  SerialInv'
  <2> DEFINE x == [IdleTx EXCEPT !.pc = "flushing", !.op = d, !.manager = m, !.todo = <<a>>]
  <2>1. x.locked = {} /\ x.pc = "flushing" /\ x.todo = <<a>>
    BY DEF IdleTx
  <2>2. SerialTxOK(x)
    BY <1>3, <2>1 DEF SerialTxOK, BeginDecision
  <2>3. QED
    BY <1>3, <2>2, SerialTxStep DEF BeginDecision
<1>4. ASSUME NEW s \in Sessions, BeginExpire(s)
      PROVE  SerialInv'
  <2>1. PICK due \in (SUBSET {a \in Deadlined : row[a].status = "pending"}) \ {{}} :
          \E listing \in [1 .. Cardinality(due) -> due] :
            tx' = [tx EXCEPT ![s] = [IdleTx EXCEPT !.pc = "flushing", !.op = "expired",
                                                   !.todo = listing]]
    BY <1>4 DEF BeginExpire
  <2>2. PICK listing \in [1 .. Cardinality(due) -> due] :
          tx' = [tx EXCEPT ![s] = [IdleTx EXCEPT !.pc = "flushing", !.op = "expired",
                                                 !.todo = listing]]
    BY <2>1
  <2> DEFINE x == [IdleTx EXCEPT !.pc = "flushing", !.op = "expired", !.todo = listing]
  <2>3. x.locked = {} /\ x.op \notin Decisions /\ x.todo = listing
    BY DEF IdleTx, Decisions
  <2>4. \A i \in DOMAIN listing : row[listing[i]].status = "pending"
    OBVIOUS
  <2>5. SerialTxOK(x)
    BY <2>3, <2>4 DEF SerialTxOK
  <2>6. QED
    BY <1>4, <2>2, <2>5, SerialTxStep DEF BeginExpire
<1>5. ASSUME NEW s \in Sessions, Flush(s)
      PROVE  SerialInv'
  <2> DEFINE q == tx[s].todo
             x == [tx[s] EXCEPT !.pc = AfterFlush(s), !.todo = Tail(@),
                                !.locked = @ \cup {Head(q)}]
  <2>1. tx[s] \in Transactions /\ SerialTxOK(tx[s]) /\ TxOK(tx[s]) /\ q # <<>>
    BY <1>5 DEF IInv, TypeOK, SerialInv, FlushedRowsOK, TxOK, Flush
  <2>2. q \in Seq(Approvals)
    BY <2>1 DEF Transactions
  <2>3. /\ Head(q) \in Approvals /\ row[Head(q)].status = "pending"
        /\ \A i \in DOMAIN Tail(q) : row[Tail(q)[i]].status = "pending"
    BY <2>1, <2>2 DEF SerialTxOK
  <2>4. /\ x.locked = tx[s].locked \cup {Head(q)}
        /\ x.todo = Tail(q)
        /\ x.pc = AfterFlush(s) /\ x.op = tx[s].op
    BY <2>1 DEF Transactions
  <2>5. x.op \in Decisions => x.pc # "flushing" /\ \E a \in Approvals : x.locked = {a}
    <3>1. x.op \in Decisions => tx[s].locked = {}
      BY <1>5, <2>1, <2>4 DEF SerialTxOK, Flush
    <3>2. x.op \in Decisions => AfterFlush(s) # "flushing"
      BY <2>4 DEF AfterFlush, Decisions
    <3>3. QED
      BY <2>3, <2>4, <3>1, <3>2
  <2>6. SerialTxOK(x)
    BY <2>1, <2>3, <2>4, <2>5 DEF SerialTxOK
  <2>7. tx' = [tx EXCEPT ![s] = x]
    BY <1>5, <2>1 DEF Flush, IInv, TypeOK, Transactions
  <2>8. QED
    BY <1>5, <2>6, <2>7, SerialTxStep DEF Flush
<1>6. ASSUME NEW s \in Sessions, Execute(s) \/ Remember(s) \/ Publish(s)
      PROVE  SerialInv'
  <2>1. /\ row' = row
        /\ \A t \in Sessions : /\ tx'[t].locked = tx[t].locked
                               /\ tx'[t].todo = tx[t].todo
                               /\ tx'[t].op = tx[t].op
                               /\ tx'[t].pc = "flushing" <=> tx[t].pc = "flushing"
    BY <1>6 DEF Execute, Remember, Publish, IInv, TypeOK, Transactions
  <2>2. QED
    BY <2>1 DEF SerialInv, SerialTxOK
<1>7. ASSUME NEW s \in Sessions,
             Commit(s) \/ FlushRefused(s) \/ DeadlockVictim(s) \/ Fail(s)
      PROVE  SerialInv'
  <2>1. \A t \in Sessions : tx'[t] = IdleTx
    BY <1>7 DEF Commit, FlushRefused, DeadlockVictim, Fail, Rollback, IInv, TypeOK
  <2>2. QED
    BY <2>1 DEF SerialInv, SerialTxOK, IdleTx, Decisions
<1>8. QED
  BY <1>1, <1>2, <1>3, <1>4, <1>5, <1>6, <1>7 DEF Next, SessionStep

\* A commit is one decision, or one sweep, of the life cycle.
LEMMA CommitImplements ==
    ASSUME \A s, t \in Sessions : s = t, IInv, SerialInv, NEW s \in Sessions, Commit(s)
    PROVE  [Lifecycle!Next]_(Lifecycle!lifecycleVars)
<1> DEFINE st == [a \in Approvals |-> row[a].status]
           L == tx[s].locked
<1>1. tx[s] \in Transactions /\ TxOK(tx[s]) /\ SerialTxOK(tx[s]) /\ L \subseteq Approvals
  BY DEF IInv, TypeOK, FlushedRowsOK, SerialInv, Transactions
<1>2. \A a \in Approvals : row'[a].status = IF a \in L THEN tx[s].op ELSE row[a].status
  BY CommittedRow DEF Commit
<1>3. \A a \in L : row[a].status = "pending" /\ effect[a] = 0
  <2>1. \A a \in L : row[a].status = "pending"
    BY <1>1 DEF SerialTxOK
  <2>2. QED
    BY <1>1, <2>1 DEF IInv, TypeOK, EffectsAreApproved
<1>4. \A a \in L : tx[s].op \in Decisions \cup {"expired"}
  BY <1>1, CommittedRow
<1>5. CASE tx[s].op \notin Decisions
  <2>1. effect' = effect
    BY <1>1, <1>5 DEF Commit, TxOK, IInv, TypeOK, Decisions
  <2>2. st' = [a \in Approvals |-> IF a \in L THEN "expired" ELSE st[a]]
    BY <1>2, <1>4, <1>5
  <2>3. L \in SUBSET Approvals /\ \A a \in L : st[a] = "pending"
    BY <1>1, <1>3
  <2> HIDE DEF L
  <2>4. \E S \in SUBSET Approvals :
          /\ \A a \in S : st[a] = "pending"
          /\ st' = [a \in Approvals |-> IF a \in S THEN "expired" ELSE st[a]]
          /\ UNCHANGED effect
    BY <2>1, <2>2, <2>3
  <2>5. QED
    BY <2>4 DEF Lifecycle!Next, Lifecycle!Expire
<1>6. CASE tx[s].op \in Decisions
  <2>1. PICK a \in Approvals : L = {a}
    BY <1>1, <1>6 DEF SerialTxOK, Commit
  <2>2. st[a] = "pending" /\ effect[a] = 0 /\ st' = [st EXCEPT ![a] = tx[s].op]
    BY <1>2, <1>3, <2>1
  <2>3. effect' = [effect EXCEPT ![a] = IF tx[s].result = "success" THEN 1 ELSE 0]
    <3>1. \A b \in Approvals : effect'[b] = IF b = a /\ tx[s].result = "success"
                                              THEN effect[b] + 1 ELSE effect[b]
      BY <2>1 DEF Commit
    <3>2. effect \in [Approvals -> Nat] /\ effect' = [b \in Approvals |-> effect'[b]]
      BY DEF Commit, IInv, TypeOK
    <3>3. effect[a] = 0
      BY <2>2
    <3>4. QED
      BY <3>1, <3>2, <3>3
  <2>4. CASE tx[s].op = "approved"
    BY <2>2, <2>3, <2>4 DEF Lifecycle!Approve, Lifecycle!Next
  <2>5. CASE tx[s].op = "rejected"
    <3>1. effect' = effect
      BY <1>1, <2>2, <2>3, <2>5 DEF TxOK, IInv, TypeOK
    <3>2. QED
      BY <2>2, <2>5, <3>1 DEF Lifecycle!Reject, Lifecycle!Next
  <2>6. QED
    BY <1>6, <2>4, <2>5 DEF Decisions
<1>7. QED
  BY <1>5, <1>6

\* spec.md assumes a single manager at a time. Under that assumption, stated
\* as "at most one session", the gate is the life cycle ApprovalLifecycle
\* promises: decided once, applied at most once and only by the approval.
THEOREM SerialImplementsLifecycle ==
    ASSUME \A s, t \in Sessions : s = t
    PROVE  Spec => ImplementsLifecycle
<1>1. Init => SerialInv
  BY DEF Init, SerialInv, SerialTxOK, IdleTx, Decisions
<1>2. IInv /\ SerialInv /\ [Next]_vars => SerialInv'
  BY SerialNext
<1>3. Init => Lifecycle!Init
  BY DEF Init, Lifecycle!Init, AbsentRow
<1>4. IInv /\ SerialInv /\ [Next]_vars => [Lifecycle!Next]_(Lifecycle!lifecycleVars)
  <2> SUFFICES ASSUME IInv, SerialInv, [Next]_vars
               PROVE  [Lifecycle!Next]_(Lifecycle!lifecycleVars)
    OBVIOUS
  <2>1. CASE \E a \in Approvals : Propose(a)
    <3>1. PICK a \in Approvals : Propose(a)
      BY <2>1
    <3>2. [b \in Approvals |-> row'[b].status] =
              [[b \in Approvals |-> row[b].status] EXCEPT ![a] = "pending"]
      <4>1. \A b \in Approvals : row'[b].status = IF b = a THEN "pending" ELSE row[b].status
        BY <3>1 DEF Propose, IInv, TypeOK, Rows
      <4>2. QED
        BY <4>1
    <3>3. Lifecycle!Propose(a)
      BY <3>1, <3>2 DEF Propose, Lifecycle!Propose
    <3>4. QED
      BY <3>3 DEF Lifecycle!Next
  <2>2. CASE \E s \in Sessions : Commit(s)
    BY <2>2, CommitImplements
  <2>3. CASE row' = row /\ effect' = effect
    BY <2>3 DEF Lifecycle!lifecycleVars
  <2>4. QED
    BY <2>1, <2>2, <2>3 DEF Next, vars, SessionStep, BeginDecision, BeginExpire, Flush,
       Execute, Remember, Publish, FlushRefused, DeadlockVictim, Fail, Rollback
<1>5. QED
  BY <1>1, <1>2, <1>3, <1>4, Invariant, PTL DEF Spec, ImplementsLifecycle, Lifecycle!Spec

\* A commit records the decision of a row that had none.
LEMMA CommitDecides ==
    ASSUME \A s, t \in Sessions : s = t, IInv, SerialInv, DecidedOnce,
           NEW s \in Sessions, Commit(s)
    PROVE  DecidedOnce'
<1> SUFFICES ASSUME NEW a \in Approvals
             PROVE  completed'[a]["approved"] + completed'[a]["rejected"] <= 1
  BY DEF DecidedOnce
<1>1. /\ completed[a]["approved"] \in Nat /\ completed[a]["rejected"] \in Nat
      /\ completed[a]["approved"] + completed[a]["rejected"] <= 1
  BY DEF IInv, TypeOK, Decisions, DecidedOnce
<1>2. \A d \in Decisions : completed'[a][d] =
          IF a \in tx[s].locked /\ tx[s].op = d THEN completed[a][d] + 1
                                                ELSE completed[a][d]
  BY DEF Commit
<1>3. CASE a \in tx[s].locked
  <2>1. row[a].status = "pending"
    BY <1>3 DEF SerialInv, SerialTxOK
  <2>2. completed[a]["approved"] = 0 /\ completed[a]["rejected"] = 0
    BY <1>1, <2>1 DEF IInv, TrailMatchesRow, Decisions
  <2>3. /\ completed'[a]["approved"] = IF tx[s].op = "approved" THEN 1 ELSE 0
        /\ completed'[a]["rejected"] = IF tx[s].op = "rejected" THEN 1 ELSE 0
    BY <1>2, <1>3, <2>2 DEF Decisions
  <2>4. QED
    BY <2>3
<1>4. CASE a \notin tx[s].locked
  BY <1>1, <1>2, <1>4 DEF Decisions
<1>5. QED
  BY <1>3, <1>4

\* "decisions are terminal" (app/services/approval_service.py): while requests
\* do not overlap, an approval is decided once and its approval.completed is
\* published once. The run of overlapping sessions shows the hypothesis is
\* needed: there the same decision commits twice.
THEOREM SerialDecidesOnce ==
    ASSUME \A s, t \in Sessions : s = t
    PROVE  Spec => []DecidedOnce
<1>1. Init => SerialInv
  BY DEF Init, SerialInv, SerialTxOK, IdleTx, Decisions
<1>2. Init => DecidedOnce
  BY DEF Init, DecidedOnce, Decisions
<1>3. IInv /\ SerialInv /\ [Next]_vars => SerialInv'
  BY SerialNext
<1>4. IInv /\ SerialInv /\ DecidedOnce /\ [Next]_vars => DecidedOnce'
  <2> SUFFICES ASSUME IInv, SerialInv, DecidedOnce, [Next]_vars
               PROVE  DecidedOnce'
    OBVIOUS
  <2>1. CASE \E s \in Sessions : Commit(s)
    BY <2>1, CommitDecides
  <2>2. CASE completed' = completed
    BY <2>2 DEF DecidedOnce
  <2>3. QED
    BY <2>1, <2>2 DEF Next, vars, Propose, SessionStep, BeginDecision, BeginExpire, Flush,
       Execute, Remember, Publish, FlushRefused, DeadlockVictim, Fail, Rollback
<1>5. QED
  BY <1>1, <1>2, <1>3, <1>4, Invariant, PTL DEF Spec

\* An expired approval "can no longer be approved or rejected": while requests
\* do not overlap, the sweep of expire() is final, for no open session holds
\* the lock of an expired row it read as pending.
THEOREM SerialExpiryFinal ==
    ASSUME \A s, t \in Sessions : s = t
    PROVE  Spec => ExpiredStaysExpired
<1>1. Init => SerialInv
  BY DEF Init, SerialInv, SerialTxOK, IdleTx, Decisions
<1>2. IInv /\ SerialInv /\ [Next]_vars => SerialInv'
  BY SerialNext
<1>3. IInv /\ SerialInv /\ [Next]_vars =>
        [\A a \in Approvals : row[a].status = "expired" => row'[a].status = "expired"]_row
  <2> SUFFICES ASSUME IInv, SerialInv, [Next]_vars,
                      NEW a \in Approvals, row[a].status = "expired"
               PROVE  row'[a].status = "expired"
    OBVIOUS
  <2>1. CASE \E b \in Approvals : Propose(b)
    BY <2>1 DEF Propose, IInv, TypeOK
  <2>2. CASE \E s \in Sessions : Commit(s)
    <3>1. PICK s \in Sessions : Commit(s)
      BY <2>2
    <3>2. a \notin tx[s].locked
      BY DEF SerialInv, SerialTxOK
    <3>3. QED
      BY <3>1, <3>2 DEF Commit
  <2>3. CASE row' = row
    BY <2>3
  <2>4. QED
    BY <2>1, <2>2, <2>3 DEF Next, vars, SessionStep, BeginDecision, BeginExpire, Flush,
       Execute, Remember, Publish, FlushRefused, DeadlockVictim, Fail, Rollback
<1>4. QED
  BY <1>1, <1>2, <1>3, Invariant, PTL DEF Spec, ExpiredStaysExpired

-----------------------------------------------------------------------------
(* Who can deadlock *)

\* However many managers decide, and whatever sweeps list the same rows in whatever
\* order: a session that waits and makes another one wait is a sweep, because
\* approve() and reject() flush their row before anything else.
THEOREM OnlySweepsDeadlock == Spec => []DecisionsNeverDeadlock
<1>1. IInv => DecisionsNeverDeadlock
  <2> SUFFICES ASSUME IInv, NEW s \in Sessions, Deadlocked(s)
               PROVE  tx[s].op = "expired"
    BY DEF DecisionsNeverDeadlock
  <2>1. \A w \in Waits : w[1] \in Sessions /\ w[2] \in Sessions
    BY DEF Waits
  <2>2. /\ \E w \in Waits : w[1] = s
        /\ \E w \in Waits : w[2] = s
    BY <2>1, WaitsAndIsWaitedFor DEF Deadlocked
  <2>3. tx[s].pc = "flushing"
    BY <2>2 DEF Waits, WaitsFor
  <2>4. tx[s].locked # {}
    BY <2>2 DEF Waits, WaitsFor
  <2>5. QED
    BY <2>3, <2>4 DEF IInv, FlushedRowsOK, TxOK
<1>2. QED
  BY <1>1, Invariant, PTL
=============================================================================
