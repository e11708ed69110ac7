------------------------------- MODULE Schema -------------------------------
(***************************************************************************)
(* The database as the migrations of alembic/versions/ build it, what the  *)
(* running application leaves in it, and the two tools that work on a      *)
(* database that may hold such rows: scripts/seed.py and alembic itself.   *)
(*                                                                         *)
(* The seed script and the migrations treat a table as a whole, so the     *)
(* rows of one table that carry the same references are one row here.      *)
(***************************************************************************)
EXTENDS Naturals, SequencesExt

VARIABLES
    rev,    \* how many of the revisions are applied
    rows,   \* the committed rows
    seed    \* the script: "idle", or "cleared" between its two transactions

vars == <<rev, rows, seed>>

Base == 0
Latest == 5   \* 1e302475a174, fbf678bce577, 3a9fe896c6d3, 7563f16597f2, d945e4c60188

-----------------------------------------------------------------------------
(* Tables and foreign keys, as <<child, parent>> pairs.                    *)

Scoped == {"customers", "events", "inventory_items", "menu_items", "restaurant_tables",
           "staff", "staff_shifts", "users", "agent_runs", "approvals", "memories",
           "purchase_requests", "reservations", "inventory_transactions", "sales",
           "workflow_runs"}
Tables == Scoped \cup {"restaurants", "agent_messages", "shift_assignments"}

\* Mutant: agent_messages has a run_id, but the foreign key was left out.
CascadesButMessages == (Scoped \X {"restaurants"}) \cup
    {<<"agent_runs", "agent_runs">>, <<"memories", "customers">>,
     <<"shift_assignments", "staff_shifts">>}

Cascades == (Scoped \X {"restaurants"}) \cup
    {<<"agent_runs", "agent_runs">>, <<"memories", "customers">>,
     <<"agent_messages", "agent_runs">>, <<"shift_assignments", "staff_shifts">>}

Restricts ==
    {<<"approvals", "agent_runs">>, <<"purchase_requests", "inventory_items">>,
     <<"reservations", "customers">>, <<"shift_assignments", "staff">>,
     <<"inventory_transactions", "inventory_items">>, <<"sales", "menu_items">>}

SetsNull ==
    {<<"agent_runs", "users">>, <<"agent_runs", "events">>, <<"approvals", "users">>,
     <<"memories", "agent_runs">>, <<"sales", "customers">>, <<"sales", "reservations">>,
     <<"reservations", "restaurant_tables">>, <<"purchase_requests", "agent_runs">>,
     <<"purchase_requests", "users">>, <<"inventory_transactions", "agent_runs">>,
     <<"inventory_transactions", "purchase_requests">>} \cup
    ({"agent_messages", "purchase_requests", "reservations", "shift_assignments",
      "inventory_transactions"} \X {"approvals"})

-----------------------------------------------------------------------------
(* Rows.  kind is the trigger type of a run and the status of an approval; *)
(* refs are the tables its foreign keys that are not NULL lead to.         *)

Row(table, kind, refs) == [table |-> table, kind |-> kind, refs |-> refs]
Plain(table, refs) == Row(table, "plain", refs \cup {"restaurants"})
Run(kind, refs) == Row("agent_runs", kind, refs \cup {"restaurants"})
Approval(kind, refs) == Row("approvals", kind, refs \cup {"restaurants", "agent_runs"})

\* What seed() inserts: the house, its people, its guests with what it knows of them.
SeedHouse == {Row("restaurants", "plain", {})} \cup
    {Plain(t, {}) : t \in {"users", "restaurant_tables", "menu_items", "inventory_items"}}
SeedStaff == {Plain("staff", {}), Plain("staff_shifts", {}),
              Row("shift_assignments", "plain", {"staff_shifts", "staff"})}
SeedGuests == {Plain("customers", {}),
               Plain("reservations", {"customers", "restaurant_tables"}),
               Plain("sales", {"reservations", "customers", "menu_items"}),
               Plain("memories", {"customers"}), Plain("memories", {})}

\* What requests leave behind; only workflows make scheduled runs.  No code of the
\* application inserts inventory_transactions, which the inventory service only reads.
RuntimeRows ==
    {Plain("events", {}), Run("manager_request", {"users"}), Run("event", {"events"}),
     Approval("pending", {}),
     Plain("purchase_requests", {"inventory_items", "agent_runs"}),
     Plain("purchase_requests", {"inventory_items", "agent_runs", "approvals"}),
     Row("agent_messages", "plain", {"agent_runs"}), Plain("memories", {"agent_runs"})}
Scheduled == {Plain("workflow_runs", {}), Run("scheduled", {})}
Decided == Approval("decided", {"users"})

\* ck_agent_runs_trigger_consistency and ck_approvals_decision_consistency.
ChecksHold(r) ==
    /\ r.table = "agent_runs" => /\ r.kind = "manager_request" <=> "users" \in r.refs
                                 /\ r.kind = "event" <=> "events" \in r.refs
    /\ r.kind = "decided" => "users" \in r.refs

\* The revision from which on a table has the columns the models write.
Since(r) == IF r.table = "workflow_runs" \/ r.kind = "scheduled" THEN 5
            ELSE IF r.table = "events" THEN 4
            ELSE IF r.table = "approvals" THEN 3
            ELSE IF r.table = "agent_runs" THEN 2 ELSE 1

Holds(table) == \E r \in rows : r.table = table
Resolves(r) == \A t \in r.refs : Holds(t)

Init == rev = Base /\ rows = {} /\ seed = "idle"

-----------------------------------------------------------------------------
(* The running application.                                                *)

Record(r) ==
    /\ rev >= Since(r) /\ Resolves(r)
    /\ rows' = rows \cup {r}
    /\ UNCHANGED <<rev, seed>>

\* Every workflow starts a scheduled agent run in its own transaction.
RunWorkflow ==
    /\ rev = Latest /\ Holds("restaurants")
    /\ rows' = rows \cup Scheduled
    /\ UNCHANGED <<rev, seed>>

\* approve() and reject() name the manager who decided.
Decide ==
    /\ rev >= 3 /\ Approval("pending", {}) \in rows /\ Holds("users")
    /\ \E others \in {{}, {Approval("pending", {})}} :
         rows' = (rows \ {Approval("pending", {})}) \cup {Decided} \cup others
    /\ UNCHANGED <<rev, seed>>

-----------------------------------------------------------------------------
(* DELETE FROM a table.  Constraint triggers run level by level, and all   *)
(* that hangs off restaurants goes in the first one, so that RESTRICT and  *)
(* SET NULL find only rows that no cascade reaches.                        *)

Hit(R, gone) == {r \in R : \E g \in gone : <<r.table, g.table>> \in Cascades
                                           /\ g.table \in r.refs}
Gone(R, table) == LET own == {r \in R : r.table = table}
                      below == own \cup Hit(R, own)
                  IN  below \cup Hit(R, below)
Kept(r, gone) == [r EXCEPT !.refs =
    {t \in @ : \A g \in gone : <<r.table, g.table>> \in SetsNull => t # g.table}]

Refused(R, gone) ==
    \E r \in R \ gone :
        \/ ~ChecksHold(Kept(r, gone))
        \/ \E g \in gone : g.table \in r.refs /\ <<r.table, g.table>> \in Restricts

Delete(result, table) ==
    LET gone == Gone(result.rows, table)
    IN  IF ~result.ok \/ Refused(result.rows, gone) THEN [result EXCEPT !.ok = FALSE]
        ELSE [result EXCEPT !.rows = {Kept(r, gone) : r \in @ \ gone}]

-----------------------------------------------------------------------------
(* scripts/seed.py: one transaction clears, a second one fills.            *)

\* Mutant: the restaurant goes first, since everything hangs off it.
ClearRestaurantFirst ==
    <<"restaurants", "sales", "memories", "shift_assignments", "staff_shifts",
      "reservations", "staff", "menu_items", "inventory_items", "restaurant_tables",
      "customers", "users">>

ClearOrder ==
    <<"sales", "memories", "shift_assignments", "staff_shifts", "reservations", "staff",
      "menu_items", "inventory_items", "restaurant_tables", "customers", "users",
      "restaurants">>

\* A refused DELETE ends the script with nothing changed.
ClearExisting ==
    /\ seed = "idle" /\ rev > Base
    /\ LET result == FoldLeft(Delete, [rows |-> rows, ok |-> TRUE], ClearOrder)
       IN  result.ok /\ rows' = result.rows
    /\ seed' = "cleared"
    /\ UNCHANGED rev

Fill ==
    /\ seed = "cleared" /\ rev > Base
    /\ rows' = rows \cup SeedHouse \cup SeedStaff \cup SeedGuests
    /\ seed' = "idle"
    /\ UNCHANGED rev

\* The embedding model does not load, say: the first transaction stays.
FillFails ==
    /\ seed = "cleared"
    /\ seed' = "idle"
    /\ UNCHANGED <<rev, rows>>

-----------------------------------------------------------------------------
(* alembic: a command runs its revisions in one transaction.               *)

\* What each revision asks of the rows it meets. ADD COLUMN ... NOT NULL without a
\* default needs an empty table: that is the upgrade of the second revision, and both
\* directions of the third and the fourth.
ModelNameFits == ~Holds("agent_runs")
ApprovalsFit == ~Holds("approvals")
EventsFit == ~Holds("events")

\* Mutant: the constraints on the trigger are left as the upgrade made them.
OldTriggersUnchecked == TRUE

\* The downgrade of d945e4c60188 puts constraints back that know no scheduled run.
OldTriggersFit == \A r \in rows : r.kind # "scheduled"

UpgradeFits(v) == /\ v = 2 => ModelNameFits
                  /\ v = 3 => ApprovalsFit
                  /\ v = 4 => EventsFit

DowngradeFits(v) == /\ v = 3 => ApprovalsFit
                    /\ v = 4 => EventsFit
                    /\ v = 5 => OldTriggersFit

Upgrade(target) ==
    /\ rev < target /\ \A v \in rev + 1 .. target : UpgradeFits(v)
    /\ rev' = target
    /\ UNCHANGED <<rows, seed>>

\* The downgrade of d945e4c60188 drops workflow_runs, that of 1e302475a174 the rest.
Downgrade(target) ==
    /\ target < rev /\ \A v \in target + 1 .. rev : DowngradeFits(v)
    /\ rev' = target
    /\ rows' = IF target = Base THEN {}
               ELSE {r \in rows : r.table # "workflow_runs" \/ target >= 5}
    /\ UNCHANGED seed

-----------------------------------------------------------------------------
Next ==
    \/ \E r \in RuntimeRows : Record(r)
    \/ RunWorkflow \/ Decide
    \/ ClearExisting \/ Fill \/ FillFails
    \/ \E target \in Base .. Latest : Upgrade(target) \/ Downgrade(target)

Spec == Init /\ [][Next]_vars

-----------------------------------------------------------------------------
(* Properties.                                                             *)

\* Whatever the seed script and the migrations do to a database in use, its rows keep
\* the shape the models give them: a run still names what triggered it and a decision
\* who took it, no reference dangles, and what only the latest schema can hold is
\* there only under the latest schema.
TypeOK ==
    /\ rev \in Base .. Latest /\ seed \in {"idle", "cleared"}
    /\ \A r \in rows :
         /\ r.table \in Tables /\ r.refs \subseteq Tables
         /\ ChecksHold(r) /\ Resolves(r)
         /\ r.table = "workflow_runs" \/ r.kind = "scheduled" => rev = Latest

\* What somebody has to answer for: a decision, a manager's request, an order.
Deed(r) == \/ r.table = "purchase_requests"
           \/ r.kind \in {"decided", "manager_request"}

\* Running seed.py again never removes or rewrites a purchase request, a manager's
\* request or a decided approval: _clear_existing either fails on them or is not there
\* at all.  Only dropping the whole schema takes the first two away, and nothing
\* takes a decision.
DeedsSurvive ==
    [][\A r \in rows : Deed(r) /\ r \notin rows' => /\ rev' = Base
                                                    /\ r.table # "approvals"]_vars

\* A migration that succeeds loses no row, unless it takes the schema down to base:
\* above all, the downgrade that drops workflow_runs never finds a row in it, because
\* the scheduled run that was committed with one stops it first.
MigrationsLoseNothing == [][rev' # rev /\ rev' # Base => rows' = rows]_vars
=============================================================================
