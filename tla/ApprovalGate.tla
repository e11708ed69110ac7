---------------------------- MODULE ApprovalGate ----------------------------
(***************************************************************************)
(* ApprovalService (app/services/approval_service.py): the gate every      *)
(* high-impact action passes.  Each HTTP request owns one AsyncSession,    *)
(* that is one READ COMMITTED transaction: the row is read without a lock, *)
(* the decision is flushed (an UPDATE that takes the row lock and on which *)
(* PostgreSQL evaluates the CHECK constraint), the action is executed, a   *)
(* memory and the events are written, and get_db_session commits or rolls  *)
(* back the whole.  Between any two of these awaits another session runs.  *)
(***************************************************************************)
EXTENDS Naturals, Sequences, FiniteSets, LockWaits

CONSTANTS
    Approvals,   \* approval ids
    Sessions,    \* database sessions that can be open at the same time
    Managers,    \* users who decide
    Domain,      \* Domain[a]: Approval.domain
    Deadlined,   \* the approvals created with an expires_at
    NoManager    \* decided_by_user_id IS NULL

APPROVAL_DOMAINS == {"reservation", "inventory", "staffing", "purchase"}

\* The domains build_executors() registers an executor for.
ExecutorDomains == {"reservation", "purchase"}

ASSUME ApprovalsAssumption == IsFiniteSet(Approvals)
ASSUME SessionsAssumption == IsFiniteSet(Sessions)
ASSUME DomainAssumption == Domain \in [Approvals -> APPROVAL_DOMAINS]
ASSUME DeadlinedAssumption == Deadlined \subseteq Approvals
ASSUME NoManagerAssumption == NoManager \notin Managers

VARIABLES
    row,        \* row[a]: the committed approvals row
    effect,     \* effect[a]: committed applications of a's action
    memory,     \* memory[a]: decision told by the active memory "approval_<a>"
    completed,  \* completed[a][d]: committed approval.completed events
    tx          \* tx[s]: the open transaction of session s

vars == <<row, effect, memory, completed, tx>>

Statuses == {"absent", "pending", "approved", "rejected", "expired"}
Decisions == {"approved", "rejected"}
Results == {"none", "success", "failed"}
Pcs == {"idle", "flushing", "executing", "remembering", "publishing", "committing"}

\* executed_at is written together with execution_result, so it is not kept.
Rows == [status : Statuses, decided_by : Managers \cup {NoManager},
         approved_at : BOOLEAN, rejected_at : BOOLEAN, execution_result : Results]

Transactions ==
    [pc : Pcs, op : Statuses, manager : Managers \cup {NoManager},
     todo : Seq(Approvals),         \* rows still to be flushed, in this order
     locked : SUBSET Approvals,     \* rows flushed, whose lock is held
     result : Results, remembered : BOOLEAN]

AbsentRow == [status |-> "absent", decided_by |-> NoManager, approved_at |-> FALSE,
              rejected_at |-> FALSE, execution_result |-> "none"]

IdleTx == [pc |-> "idle", op |-> "absent", manager |-> NoManager, todo |-> <<>>,
           locked |-> {}, result |-> "none", remembered |-> FALSE]

Init ==
    /\ row = [a \in Approvals |-> AbsentRow]
    /\ effect = [a \in Approvals |-> 0]
    /\ memory = [a \in Approvals |-> "none"]
    /\ completed = [a \in Approvals |-> [d \in Decisions |-> 0]]
    /\ tx = [s \in Sessions |-> IdleTx]

-----------------------------------------------------------------------------
(* The approvals table *)

\* Mutant: a constraint that relates each status to its own timestamp only.
DecisionConsistentOneSided(r) ==
    \/ r.status = "approved" /\ r.approved_at /\ r.decided_by # NoManager
    \/ r.status = "rejected" /\ r.rejected_at /\ r.decided_by # NoManager
    \/ r.status \in {"pending", "expired"}

\* ck_approvals_decision_consistency, evaluated on every row written.
DecisionConsistent(r) ==
    \/ /\ r.status = "approved" /\ r.approved_at
       /\ r.decided_by # NoManager /\ ~r.rejected_at
    \/ /\ r.status = "rejected" /\ r.rejected_at
       /\ r.decided_by # NoManager /\ ~r.approved_at
    \/ r.status \in {"pending", "expired"} /\ ~r.approved_at /\ ~r.rejected_at

\* The row session s leaves behind: an UPDATE names only the columns the
\* session changed, the others keep what is committed now, which need not be
\* what the session once read.
Written(s, a) ==
    IF tx[s].op = "approved"
      THEN [row[a] EXCEPT !.status = "approved", !.decided_by = tx[s].manager,
                          !.approved_at = TRUE,
                          !.execution_result =
                              IF tx[s].result = "none" THEN @ ELSE tx[s].result]
    ELSE IF tx[s].op = "rejected"
      THEN [row[a] EXCEPT !.status = "rejected", !.decided_by = tx[s].manager,
                          !.rejected_at = TRUE]
    ELSE [row[a] EXCEPT !.status = "expired"]

\* Mutant: an UPDATE takes no row lock.
NoRowLock(s, a) == TRUE

\* The row lock of an UPDATE lasts until its transaction ends.
LockFree(s, a) == \A t \in Sessions \ {s} : a \notin tx[t].locked

WaitsFor(s, t) ==
    /\ tx[s].pc = "flushing"
    /\ tx[s].todo # <<>>
    /\ Head(tx[s].todo) \in tx[t].locked

\* Who waits for whom.
Waits == {w \in Sessions \X Sessions : w[1] # w[2] /\ WaitsFor(w[1], w[2])}

Deadlocked(s) == OnCycle(s, Sessions, Waits)

-----------------------------------------------------------------------------
(* Actions *)

\* create_approval_request() for a MEDIUM or HIGH risk action (LOW is refused
\* there), committed with the proposing request.
Propose(a) ==
    /\ row[a].status = "absent"
    /\ row' = [row EXCEPT ![a].status = "pending"]
    /\ UNCHANGED <<effect, memory, completed, tx>>

\* Mutant: approve() and reject() first expire() whatever is overdue.
BeginDecisionSweeping(s, a, m, decision) ==
    /\ tx[s].pc = "idle"
    /\ row[a].status = "pending"
    /\ LET due == {b \in Deadlined \ {a} : row[b].status = "pending" /\ LockFree(s, b)}
       IN  tx' = [tx EXCEPT ![s] = [IdleTx EXCEPT !.pc = "flushing", !.op = decision,
                                                !.manager = m, !.todo = <<a>>, !.locked = due]]
    /\ UNCHANGED <<row, effect, memory, completed>>

\* Mutants: _require_pending lets an expired, or an approved, row pass.
BeginDecisionAlsoExpired(s, a, m, decision) ==
    /\ tx[s].pc = "idle"
    /\ row[a].status \in {"pending", "expired"}
    /\ tx' = [tx EXCEPT ![s] = [IdleTx EXCEPT !.pc = "flushing", !.op = decision,
                                             !.manager = m, !.todo = <<a>>]]
    /\ UNCHANGED <<row, effect, memory, completed>>

BeginDecisionAlsoApproved(s, a, m, decision) ==
    /\ tx[s].pc = "idle"
    /\ row[a].status \in {"pending", "approved"}
    /\ tx' = [tx EXCEPT ![s] = [IdleTx EXCEPT !.pc = "flushing", !.op = decision,
                                             !.manager = m, !.todo = <<a>>]]
    /\ UNCHANGED <<row, effect, memory, completed>>

\* approve() and reject() up to the first flush: _require_pending reads the
\* committed row, takes no lock, and refuses a row that is not pending.
BeginDecision(s, a, m, decision) ==
    /\ tx[s].pc = "idle"
    /\ row[a].status = "pending"
    /\ tx' = [tx EXCEPT ![s] = [IdleTx EXCEPT !.pc = "flushing", !.op = decision,
                                             !.manager = m, !.todo = <<a>>]]
    /\ UNCHANGED <<row, effect, memory, completed>>

\* expire(): the overdue pending rows, in whatever order SELECT lists them.
BeginExpire(s) ==
    /\ tx[s].pc = "idle"
    /\ \E due \in (SUBSET {a \in Deadlined : row[a].status = "pending"}) \ {{}} :
         \E listing \in [1 .. Cardinality(due) -> due] :
           /\ \A i, j \in DOMAIN listing : listing[i] = listing[j] => i = j
           /\ tx' = [tx EXCEPT ![s] = [IdleTx EXCEPT !.pc = "flushing", !.op = "expired",
                                                    !.todo = listing]]
    /\ UNCHANGED <<row, effect, memory, completed>>

\* Mutant: the step after an approval's flush is misnamed.
AfterFlushStuck(s) ==
    IF tx[s].op = "approved" THEN "executed"
    ELSE IF tx[s].op = "rejected" THEN "remembering"
    ELSE IF Tail(tx[s].todo) = <<>> THEN "committing" ELSE "flushing"

\* What follows the flush of the last row of each operation.
AfterFlush(s) ==
    IF tx[s].op = "approved" THEN "executing"
    ELSE IF tx[s].op = "rejected" THEN "remembering"
    ELSE IF Tail(tx[s].todo) = <<>> THEN "committing" ELSE "flushing"

\* repo.save(): the UPDATE waits for the row lock, then passes the CHECK.
Flush(s) ==
    /\ tx[s].pc = "flushing"
    /\ LET a == Head(tx[s].todo) IN
         /\ LockFree(s, a)
         /\ DecisionConsistent(Written(s, a))
         /\ tx' = [tx EXCEPT ![s].pc = AfterFlush(s),
                             ![s].todo = Tail(@),
                             ![s].locked = @ \cup {a}]
    /\ UNCHANGED <<row, effect, memory, completed>>

\* _execute(): the executor runs in a SAVEPOINT. Its failure is recorded and
\* undoes only its own work; a domain without executor records nothing.
Execute(s) ==
    /\ tx[s].pc = "executing"
    /\ \E result \in Results :
         /\ result = "none" <=> \E a \in tx[s].locked : Domain[a] \notin ExecutorDomains
         /\ tx' = [tx EXCEPT ![s].pc = "remembering", ![s].result = result]
    /\ UNCHANGED <<row, effect, memory, completed>>

\* _remember(): add_memory() in a SAVEPOINT whose failure is swallowed.
Remember(s) ==
    /\ tx[s].pc = "remembering"
    /\ \E stored \in BOOLEAN :
         tx' = [tx EXCEPT ![s].pc = "publishing", ![s].remembered = stored]
    /\ UNCHANGED <<row, effect, memory, completed>>

\* The purchase.* and approval.completed events, and the handler's return.
Publish(s) ==
    /\ tx[s].pc = "publishing"
    /\ tx' = [tx EXCEPT ![s].pc = "committing"]
    /\ UNCHANGED <<row, effect, memory, completed>>

\* get_db_session after the handler: everything becomes visible at once.
Commit(s) ==
    /\ tx[s].pc = "committing"
    /\ row' = [a \in Approvals |-> IF a \in tx[s].locked THEN Written(s, a) ELSE row[a]]
    /\ effect' = [a \in Approvals |->
                    IF a \in tx[s].locked /\ tx[s].result = "success"
                      THEN effect[a] + 1 ELSE effect[a]]
    /\ memory' = [a \in Approvals |->
                    IF a \in tx[s].locked /\ tx[s].remembered
                      THEN tx[s].op ELSE memory[a]]
    /\ completed' = [a \in Approvals |-> [d \in Decisions |->
                       IF a \in tx[s].locked /\ tx[s].op = d
                         THEN completed[a][d] + 1 ELSE completed[a][d]]]
    /\ tx' = [tx EXCEPT ![s] = IdleTx]

\* Mutant: the session of a request that failed is neither rolled back nor closed.
RollbackForgotten(s) == UNCHANGED vars

\* get_db_session on an exception, and every other end of a session: all its
\* writes and locks are gone.
Rollback(s) ==
    /\ tx' = [tx EXCEPT ![s] = IdleTx]
    /\ UNCHANGED <<row, effect, memory, completed>>

\* The UPDATE violates the CHECK: IntegrityError out of repo.save().
FlushRefused(s) ==
    /\ tx[s].pc = "flushing"
    /\ LockFree(s, Head(tx[s].todo))
    /\ ~DecisionConsistent(Written(s, Head(tx[s].todo)))
    /\ Rollback(s)

\* PostgreSQL aborts a session that waits on a cycle.
DeadlockVictim(s) == Deadlocked(s) /\ Rollback(s)

\* A lost connection, a crash, or an error out of a publish.
Fail(s) == tx[s].pc # "idle" /\ Rollback(s)

SessionStep(s) ==
    \/ Flush(s) \/ FlushRefused(s) \/ DeadlockVictim(s)
    \/ Execute(s) \/ Remember(s) \/ Publish(s) \/ Commit(s)

Next ==
    \/ \E a \in Approvals : Propose(a)
    \/ \E s \in Sessions :
         \/ \E a \in Approvals, m \in Managers, d \in Decisions : BeginDecision(s, a, m, d)
         \/ BeginExpire(s)
         \/ SessionStep(s)
         \/ Fail(s)

Spec == Init /\ [][Next]_vars

\* A session that can take its next step takes it: the event loop and the
\* database keep running. A waiter for a row lock is woken in turn (the lock
\* queue is first come, first served), which weak fairness does not give.
Fairness ==
    \A s \in Sessions :
        /\ WF_vars(SessionStep(s))
        /\ SF_vars(Flush(s) \/ FlushRefused(s))

FairSpec == Spec /\ Fairness

-----------------------------------------------------------------------------
(* Properties *)

TypeOK ==
    /\ row \in [Approvals -> Rows]
    /\ effect \in [Approvals -> Nat]
    /\ memory \in [Approvals -> Decisions \cup {"none"}]
    /\ completed \in [Approvals -> [Decisions -> Nat]]
    /\ tx \in [Sessions -> Transactions]

\* FR-027: a gated action has taken effect only if its approval is approved,
\* whatever decisions, sweeps and failures overlapped. In particular a
\* rejected or expired approval was never executed.
EffectsAreApproved == \A a \in Approvals : effect[a] > 0 => row[a].status = "approved"

\* FR-028: no session, however stale what it read, turns a committed approval
\* into a rejection or the reverse, or re-opens or expires a decided one.
DecisionsTerminal ==
    [][\A a \in Approvals : row[a].status \in Decisions => row'[a].status = row[a].status]_row

\* The trail of a decision (approval.completed events, PAST_DECISION memory,
\* deciding manager, execution record) exists exactly for decided approvals
\* and tells the decision the row tells: nothing is half recorded.
TrailMatchesRow ==
    \A a \in Approvals :
        /\ \A d \in Decisions : completed[a][d] > 0 <=> row[a].status = d
        /\ memory[a] # "none" => memory[a] = row[a].status
        /\ row[a].decided_by # NoManager <=> row[a].status \in Decisions
        /\ row[a].execution_result # "none" =>
              row[a].status = "approved" /\ Domain[a] \in ExecutorDomains

\* No request waits forever behind another one's row lock.
EverySessionEnds == \A s \in Sessions : tx[s].pc # "idle" ~> tx[s].pc = "idle"

\* approve() and reject() ask for their one row before they hold anything, so the
\* deadlock detector never takes a manager's decision back: where sessions wait for
\* each other in a circle, over decisions or not, only sweeps are on it.
DecisionsNeverDeadlock ==
    \A s \in Sessions : Deadlocked(s) => tx[s].op = "expired"

\* "decisions are terminal": an approval is decided, and executed, once.
DecidedOnce ==
    \A a \in Approvals : completed[a]["approved"] + completed[a]["rejected"] <= 1

\* An expired approval "can no longer be approved or rejected".
ExpiredStaysExpired ==
    [][\A a \in Approvals : row[a].status = "expired" => row'[a].status = "expired"]_row

\* The promised life cycle: what ApprovalLifecycle allows and nothing else.
Lifecycle == INSTANCE ApprovalLifecycle
    WITH status <- [a \in Approvals |-> row[a].status], applied <- effect

\* Held when requests do not overlap (one session).
ImplementsLifecycle == Lifecycle!Spec
=============================================================================
