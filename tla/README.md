# DineOps: a verification development

DineOps (RestaurantSahayak) is a FastAPI service in which a manager runs a
restaurant through services and LLM agents: reservations, stock and purchasing,
staffing, customers, and a gate of human approvals in front of every
high-impact action. State lives in PostgreSQL, reached through SQLAlchemy's
`AsyncSession`: one session, and one READ COMMITTED transaction, per HTTP
request. This directory holds TLA+ models of that program, the TLC runs that
check them and proofs that TLAPS checks.

## Inventory

| Component | State | Operations | What is hard |
|---|---|---|---|
| Approval gate (`services/approval_service.py`) | `approvals` row, execution record, memory and events of a decision | propose, approve, reject, expire, execute | overlapping decisions, failures half-way, who applies the action |
| Reservations (`services/reservation_service.py`) | `reservations` rows | create, modify, cancel, execute an approved change | check-then-write, stale rows, proposals approved late |
| Purchasing (`services/inventory_service.py`) | `purchase_requests` rows | propose, execute an approved request | one open request per item, rejected requests |
| Stock arithmetic (same file) | none: reads `inventory_items`, `inventory_transactions` | classify, required and reorder quantity | boundaries (threshold, zero) |
| Event bus (`services/event_bus.py`, `workflows/registry.py`) | `events` rows, handler registry | publish, dispatch, retry | handlers share the publisher's session, publish in turn, fail |
| Memory (`services/memory_service.py`) | `memories` rows, at most one active per scope and topic | add, search, update, reinforce, forget, delete | awaits between look-up and write, access counter |
| Tool-calling agents (`agents/tool_calling_agent.py`) | messages, tool calls of one run | the tool loop | iteration limit, tool failures, final status |
| Orchestrator (`agents/orchestrator_agent.py`) | LangGraph state, in-memory checkpoints | route, delegate, await approval, resume, combine | budgets, pause and resume, retries |
| Agent run trail (`services/agent_run_service.py`, `api/manager_context.py`) | `agent_runs`, `agent_messages` rows | start, log, complete | message numbers, rollback of a failed request's record |
| Background workflows (`workflows/scheduler.py`, `background_workflow.py`) | jobs and their asyncio tasks, `workflow_runs` rows | register, start, tick, stop | a job that raises, stop during a tick |
| Staffing, customers | `customers` row | staff requirement, update | rounding |
| Schema, migrations, seed (`alembic/versions`, `scripts/seed.py`) | the tables and what is in them | upgrade, downgrade, clear and refill | rows only a newer schema allows, cascades, two transactions |
| Session scope (`core/db.py`) | the open transaction | commit after the handler, rollback on exception | everything above happens inside it |

Components call each other within one session: a route (or an agent's tool)
calls a service; the service writes through its repository and publishes on the
event bus; a subscribed handler runs an agent, whose tools call services again;
`ApprovalService` calls the executor of the service that proposed. The only
shared state between requests is the database. What makes each component
correct, and where it could go wrong, is listed under `hazards` in
`PROJECT.json`.

## Modules

| Module | Models | Extended by |
|---|---|---|
| `ApprovalLifecycle` | the abstract promise of the gate: proposed, decided at most once, applied at most once and by the approving step | instantiated by `ApprovalGate` |
| `LockWaits` | PostgreSQL's deadlock detector: which sessions wait on a cycle | `ApprovalGate`, `MemoryStore`, `LockWaits_proofs` |
| `ApprovalGate` | `ApprovalService` inside `get_db_session` | `MCApprovalGate`, `ApprovalGate_proofs` |
| `ReservationBooking` | `ReservationService`, directly and as an executor | `MCReservationBooking`, `ReservationBooking_proofs` |
| `Purchasing` | `create_purchase_request`, the decision on it and its executor | `MCPurchasing`, `Purchasing_proofs` |
| `EventBus` | `InProcessEventBus` inside the publisher's transaction | `MCEventBus`, `EventBus_proofs` |
| `FactTable` | the abstract promise of the memory: a table of facts, one active per topic, each operation one step | instantiated by `MemoryStore` |
| `MemoryStore` | `MemoryService` and its repository | `MCMemoryStore`, `MemoryStore_proofs` |
| `AgentTools` | the typed tools, by what each can leave behind, and the agents that have them | `AgentRuns` |
| `AgentRuns` | `ToolCallingAgent` and the run records | `Orchestrator` |
| `Orchestrator` | `OrchestratorAgent`'s graph, pause and resume | `AgentRequests` |
| `AgentRequests` | the requests and workflows that start agents, in their sessions | `MCAgents`, `AgentRequests_proofs` |
| `Scheduler` | `AsyncIOScheduler` | `MCAgents` |
| `Planning` | stock and staffing arithmetic | `MCAgents` |
| `MCAgents` | requests, the scheduler's host or a planning question, side by side; the instance TLC checks | `MCAgents_proofs` |
| `Schema` | foreign keys, migrations, the seed script | run as it is |

### How the database is modelled

Committed rows are variables; `tx[s]` is what session `s` is doing, with `pc`
the await it has reached. A read sees what is committed at that step and takes
no lock. A flushed UPDATE holds the row's lock until the transaction ends, and
another UPDATE of the row waits. The written row is computed from the row that
is committed when the lock is held, and only the columns the session changed
are replaced (SQLAlchemy's unit of work); this is what lets a stale session
overwrite one column and leave another. CHECK constraints and unique indexes
are evaluated where PostgreSQL evaluates them. A commit makes all of a
transaction visible at once, and `Fail` may end it before, at any step: it
stands for any exception, a lost connection and a crash.

Not modelled in any module: a commit that fails after the response was sent
(FastAPI runs the end of the session dependency after it has answered); several
service operations in one transaction, as an agent run makes them (each service's
module has one operation per transaction, except that a transaction may publish
several events; `AgentRequests` has the whole transaction, with the services
abstracted); the identity map beyond the one row an operation loads.

### ApprovalGate

`Propose` is `create_approval_request`; `BeginDecision` is `_require_pending`;
`BeginExpire` is `list_overdue`; `Flush` the UPDATE with its CHECK
(`DecisionConsistent`); `Execute`, `Remember` and `Publish` are `_execute` and
`_remember`, in their savepoints, and `_publish`; `Commit` and `Rollback` are
`get_db_session`. `effect[a]` counts committed applications of the gated action,
`completed[a]` the `approval.completed` events. Memory and event text are
abstracted to the decision they tell.

Runs. `gate_concurrent`: two sessions, two managers, two approvals, one of a domain
with an executor and one without, both with a deadline; enough for every pair of
decision and sweep to overlap on the same row, and for two sweeps to lock two rows
in opposite orders. `EverySessionEnds` says that a request is answered and its
transaction closed, whatever fails; a session left open keeps its locks.
`DecisionsNeverDeadlock` says who can be told of a deadlock: only a sweep, which
updates several rows one by one. `approve()` and `reject()` ask for their one row
before they hold anything, so nobody waits for a decision that still waits itself.
The rows meant are those of `approvals`, one decision per transaction; what an
executor locks in its own tables comes after. It would fail if a decision locked a
second row first, as one that begins with `expire()` would: the mutant does that.

`gate_serial` has one session, which is spec.md's assumption of a single manager at
a time, and compares the gate with `ApprovalLifecycle`, in which an expired approval
stays expired. `gate_decided_twice` shows that "decisions are terminal" needs that
assumption: `_require_pending` judges a row that may have changed by the time it is
written. `ExpiredStaysExpired` fails the same way when two sessions overlap. What
the CHECK constraint does rule out, even then, is that a decision is reversed, and
so that a rejected action is executed.

### ReservationBooking

A request loads the booking (`image`), computes what it wants (`target`), looks
for conflicts table by table (`CheckTable`, smallest table first, each SELECT on
what is committed by then), writes, publishes and commits. `NeedsApproval`
splits direct requests from proposals (`ProposeModify`, `ProposeCancel`, one
read and one INSERT each, so single steps). `BeginApprove` and `LoadApproved`
are the approving session: the approval's row lock is taken together with the
load that follows it, which only removes steps in which nothing else can happen
to the approval. A failing executor leaves the decision (`FailedExecution`).
A change that names neither party, time nor table (`NoChange`) rewrites the
notes only; the code then skips the conflict check. An UPDATE that would change
nothing is modelled as one that takes the lock.

Whether two bookings collide is said twice, on purpose: `Overlap` is the query's
comparison of half-open intervals, `Occupied` the set of moments a party sits at its
table. The properties use the second (`Clash`), so that a wrong edge in the query
shows: the mutant overlooks bookings that begin or end together.

A transaction carries one history variable: `alone` says that no other session
has committed a booking since it began. The code's checks are sound as long as
nothing is committed between a check and the write it guards, and the properties
`HighImpactHeld`, `RevivedOnlyByApproval`, `ClashNeedsOverlap` and
`MisfitNeedsOverlap` say exactly that: the rule breaks only in a step that
commits over another request's commit (`Overlapped`). `LargePartyApproved` needs
no such exception. `ServedAtOnceUnlessOverlapped` is the most general of them: the
commit of a request that was not overtaken is what one step of the service would do
on the rows as they are at the commit, with the seats, the slot, the status and the
party judged there and then, and an executor does what its proposal says and
nothing else. `RevivedOnlyByApproval` follows from it.

Runs. A table of two and one of six seats; parties of two and six, on each side
of the threshold; stays of two slots starting at 1, or moved to 3, so that
bookings coincide or are back to back. `booking` has two sessions, two bookings
and one proposal. `booking_double` has one session and two proposals: a large
booking's cancellation and a change of its notes are both proposed, the
cancellation is approved, the slot is booked by someone else, and then the
change is approved.

### Purchasing

`BeginCreate` is the look-up of an open request, `CommitCreate` the insert of
request, approval and event. `IsOpen` follows the repository: `approved` stays
open. The decision is `ApprovalGate`'s with the executor that approves the
request; nothing writes `rejected`, `fulfilled` or `cancelled`. `alone` is as in
`ReservationBooking`: a second open order for an item, and an execution record
that says "failed" of an order that was placed, come only from a step that
commits over another's commit. Three sessions and three requests for two items
(`purchasing`) let a proposal overlap with two others or with two decisions.
`purchasing_open_rejected` has one session.

### EventBus

A session carries a stack of publications: the innermost is running its
handlers, one after the other, each tried `MaxRetries + 1` times. A handler may
publish (`HandlerPublishes`), raise, return, or break the session
(`HandlerBreaksSession`), after which `Create` and `Finish` raise because they
write. `Unwind` is the caller of the outermost `publish()`: a savepoint, when
the publisher is an approval's executor, confines the rollback. Application
code passes no idempotency key, so in a transaction only the first publication
is given one. `bus` has two sessions that may use the same key and a registry of
one event type with two subscribers: the inventory agent, which can publish
`inventory.low` while it handles `inventory.low`, and one that publishes
nothing. `bus_contained` uses the application's own registry.

Nothing in the code ends a cascade: `check_stock` publishes `inventory.low`, whose
handler runs an agent that has `check_stock`, inside the same call. In the model
`MaxCalls` ends it, so that TLC can finish, and no property concludes anything from
that. `ReturnsOrPublishesAgain` is what the bus does promise: at any depth, a failing
handler is not retried for ever, so that the session reaches the end of `publish()`
or a handler publishes once more. Whether the latter stops is left open. What a
handler has written before it failed, and writes again when it is retried in the
same transaction, is not represented.

A savepoint belongs to the executor that opened it, so a later publication of the
same transaction is made with or without one (`Publish`).

### MemoryStore

An operation plans its statements on the rows it loads (`Begin`) and flushes
them one at a time (`Flush`); a search is as many UPDATEs as memories it found.
A statement waits (`Blockers`) for the lock of its row and, when it takes a key
of the unique index, for another transaction that gives that key up or takes it.
`Column` merges an UPDATE into the row as committed now; `Refuse` is what the
index, a row deleted meanwhile, or the deadlock detector raises. The detector is
`LockWaits`': a session is aborted when it can be reached from itself along the waits,
whatever the length of the cycle and whether its edges are row locks or index
waits. A session may wait for several others at once; to abort it when one of them
leads back to it is enough, because it needs all of them to end. `OnlySearchesDeadlock`
says who is ever on such a cycle: a search, which touches what it found row by row
and keeps the locks. An update, a reinforcement or a deletion is one statement and
holds nothing while it waits; an addition flushes the row it corrects first, and
that row keeps the key for its insertion. The exception is an addition that was
overtaken: the row it corrects has another topic by then, and the insertion waits
like any other. TLC met it with three ids; with the two of the run only searches
are on a cycle, and the theorem covers both. A topic stands
for the whole key. An embedding is known by the topic and text it was computed
from. The arithmetic on importance and confidence, and the ranking of a search
by distance, are left out: a search finds any active rows in any order.

Run `memory`: two sessions, two topics, two texts, two rows, each row accessed
at most once more by the planned statements (`MaxTouches`), searches of up to
two rows. Two rows are enough for two searches in opposite orders, for an
addition that races with another or with a change of topic, and for an addition
over a fact that is being forgotten. It shows that the index, not the code's
look-up, keeps one active fact per topic, that nobody revives a forgotten row
(an UPDATE names changed columns only), and which slips need operations to
overlap: an addition that forgets a fact whose topic was changed under it, a
vector that matches no row, an access that is lost.

`FactTable` says what the operations are for somebody who is alone: learn, revise,
recall, forget, remove, each one step. `Told` is the mapping: the committed rows
without their vectors. `AtomicUnlessOvertaken`, checked by `memory`, says that a
commit is a step of `FactTable` unless another session has committed since the
operation began; sessions that are merely in progress do not matter. What could
break it is the time between the look-up and the last flush of an operation: the
fact an addition corrects, the topic of a row that is rewritten, the counts of a
search. `ImplementsFactTable`, that one session at a time implements the table, is
proved from it.

### AgentTools, AgentRuns, Orchestrator, AgentRequests

One request is followed at a time, from the route or workflow that starts it to
the end of its session. Its rows (`runs`, `approvals`, `workflow`) are the
session's view; `saved` is what is committed. `StatementFails` is any database
failure, after which the session is `poisoned`: SQLAlchemy refuses every later
statement, so logging a message raises, `complete_run` is caught by its callers
and lost, and `get_db_session` rolls back. A refused tool call leaves the session
clean.

`AgentRuns` is the tool loop; a tool call either reads, writes, is refused, proposes
(`ProposeChange`) or is handed back what was proposed before (`HandBack`). Only
agents with a `gated` tool in `AgentTools` can propose, and only those with
`create_purchase_request` are handed back: it answers for a purchase that is still
open with that purchase's approval, whoever proposed it and whether or not it has
been decided. `AgentInit` may have such an approval, and the run that proposed it,
from an earlier request. What happens inside a call that returns is the services'
modules' business. The exception are the agents an event sets to work: a tool that
publishes runs an `InventoryAgent` within the call, which may use such a tool in
turn, and no budget counts them. They are not stepped here: the trail of one that
has ended is what `AgentInit` starts with, and that a call returns at all is assumed
only where it is said (`ToolWork`, in `EveryRequestEnds`). The final status looks at
the last output only (`FinalStatus`): a proposal followed by another call of the
same agent is `buried`, a history variable of the approval. `Orchestrator` is the
graph: scope, decide, delegate with one retry, pause or combine. The model's answers
are free choices. A forced delegation picks any missing domain; the code takes the
first in the order the model named them. A paused graph lives in the process that
paused it, and `ResumeElsewhere` is `resume()` on another instance, which marks the
run failed although its own instance could still complete it. `AgentRequests` adds
the routes, the workflows, the dashboard's own operations and its decisions, none of
which resumes a paused run: in this application nobody calls `resume()`, and the
model lets anyone do so. The checkpoint is no part of any transaction: when a
resumption is rolled back, the approval is undecided again and the graph has gone on
(`resolved` remembers which approvals it holds for decided). When the request that
paused was itself rolled back, but the approval, handed back from an earlier one, is
there, a resumption decides it on behalf of a run that has no row, and what it then
records breaks a foreign key (`ResumeUnrecorded`).

Run `agents`: two specialists, one that can propose and one that cannot, two
iterations of up to two calls, two delegations, one retry, two approvals. So a
proposal can be buried within a response or by the next one, a failed attempt
can be repeated, a second specialist can be forced, and a run can be resumed
and paused again. What it shows, and where the guarantees end:

* `CompletenessFloor`: a completed answer has asked every required specialist,
  unless the delegation budget ran out. Asked is all: a specialist whose
  attempts both failed counts.
* `ProposalsAccountedFor`: a completed orchestration leaves no proposal undecided
  except a buried one, one made by an attempt that failed afterwards, or one that the
  graph has decided in a session that was rolled back. All do happen; the second is
  proposed again by the retry.
* `CommittedTrailIsSettled`: only an orchestrator that one of its specialists made
  pause stays `running`: that specialist had answered over a `PendingApprovalOutput`
  (`proposed`), of its own proposal or of one handed back to it, so that none of
  the orchestration's runs need own the approval it waits for. A
  resumption whose session is rolled back leaves it so for ever, and so does a
  decision on the dashboard. A workflow run is `completed` even when its agent
  answered with an error; the failed agent run under it is what tells.
  `handle()` raises only when it cannot record its run, in a poisoned session,
  where the workflow's own `failed` cannot be saved either: it is never
  committed, and the model's `workflow` has no such value.
* An answer is sent before the commit (`answered`), so a client can be told
  `completed` of a transaction that is then rolled back; no property denies it.
* `EveryRequestEnds`: iterations, delegations and retries are bounded, so a request
  whose tools return ends. It does not say that they do: `check_stock` may set off
  a cascade without end (see `EventBus`).

### Scheduler

`tasks[j]` is the entry of `_tasks`, `loops` the coroutines that were ever
created. A cancelled loop ends at its next step (`Unwind`); `StopReturns` waits
for those it cancelled. `start()` makes a new task for every job whatever the
table holds, so a second `start()`, or one during `stop()`, loses loops that
`stop()` can no longer reach; `misused` records that, and `OneLoopPerJob` holds
without it. Two jobs and two starts (run `agents`, in the behaviours where
`process = "scheduler"`): a start, a stop, and the start after it or during it.
The application never starts its scheduler; the jobs are `background_registry`'s.

### Planning

Pure functions over whole units. `asked` is the question put to a planning tool;
every quantity, threshold, period and number of covers up to `MaxQuantity` = 5
is an initial state, so the boundaries (an empty shelf, exactly at the
threshold, a threshold of 0, covers that just fill a shift) are all among them.
`PlansSuffice` compares the recommendations with what they are for. Its one
exception is the code's: an item that is out of stock with a threshold of 0 is
flagged, with nothing recommended. Averages are kept as numerators, because the
code's `Decimal` keeps 28 digits. The reads of sales, schedules and availability
behind the questions are left out.

### Schema

The seed script and the migrations treat a table as a whole, so rows of a table
with the same references are one row here. `Cascades`, `Restricts` and
`SetsNull` are the foreign keys of the first revision with their `ondelete`.
`Delete` is `DELETE FROM table`: PostgreSQL runs the constraint triggers level by
level, so that what hangs off `restaurants` is gone before a RESTRICT looks.
A migration runs as one transaction, and a revision `Fits` if the rows it meets
allow it. Run `schema` has no bound: every state of this abstraction is reached.

* `DeedsSurvive`: running the seed script over a database in use never removes
  or rewrites a decision, a manager's request or a purchase request: its DELETEs
  are refused (RESTRICT from `inventory_items`, or a CHECK that SET NULL would
  break) and the script ends with nothing changed. Where there are none, the
  cascades from `restaurants` do take runs, messages, events and undecided
  approvals with them, although the script's docstring (`seed.py:1`) says it
  does not touch these tables: it never names them. A failure between its two
  transactions leaves an empty database.
* `MigrationsLoseNothing`: above `base`, a migration that succeeds keeps every
  row. `d945e4c60188`'s downgrade drops `workflow_runs`, but the scheduled agent
  run that was committed with each of them makes it fail first.
* Not shown as wrong, but true of the code: after a downgrade past
  `fbf678bce577` with agent runs in the database, upgrading again fails, because
  `model_name` is NOT NULL without a default.
* Rows of `inventory_transactions` do not occur: nothing in the application or the
  seed inserts them (`inventory_service.py:3` says so). Their RESTRICT on
  `inventory_items` would only make the seed script fail in more states.

Concurrent seed runs, and the seed's vectors (computed from the text alone, while
the service embeds `topic: text`), are left out.

## Bounds

| Bound | Where | Why enough |
|---|---|---|
| two or three sessions | all | the races found or excluded are between a reader and one or two writers |
| `MaxEvents` = 2 | `EventBus` | no new transaction starts once this many events are committed; transactions already begun still commit; the second publisher of a key can meet the first before and after its commit |
| `MaxCalls` = 2 | `EventBus` | publications of the transactions in progress together: two sessions with one each, or one session whose publication nests or repeats. The code has no such bound, and no property relies on it |
| `MaxRetries` = 1 | `EventBus` | the value the application uses |
| `MaxTouches` = 1, `SearchLimit` = 2 | `MemoryStore` | a lost access needs two touches of one row that overlap; opposite orders need two rows |
| `MaxIterations`, `MaxCalls`, `MaxDelegations` = 2, `MaxRetries` = 1 | `AgentRuns`, `Orchestrator` | each limit can be reached, and reached with something already done; the retries are the application's |
| `MaxApprovals` = 2 | `AgentRuns` | a proposal and a second one by a retry, a resumption or another specialist, or one left by an earlier request and a new one |
| one request at a time, then its resumptions | `AgentRequests` | requests share nothing but rows the services' modules are about |
| `MaxStarts` = 2 | `Scheduler` | a start after a stop, and a start too many |
| `MaxQuantity` = 5 | `Planning` | below, at and above twice a threshold, in units smaller than the window |
| ids of approvals, bookings, purchases | all | each is used once; a second one of each gives the pairs the properties speak of |

Runs say `CHECK_DEADLOCK FALSE` because the system may rest when every approval
is decided, every booking cancelled or every id used. `agents` says so because a
request may be the last and a planning question is answered in its initial
state, `memory` because every row may be deleted. `schema` checks deadlock.

## Fairness

`gate_concurrent`, `bus` and `agents` check liveness. The first two assume weak
fairness of a session's next step: the event loop and the database keep running, and
an external call returns or fails. They assume strong fairness of the steps that
wait for a row lock or a unique index: PostgreSQL queues waiters and wakes them in
turn, so a waiter that is again and again able to proceed does so. No fairness is
assumed of requests arriving or failing, or of proposals, decisions and sweeps being
made.

`agents` assumes weak fairness of the work of a request (`Work`) and, per loop,
of the scheduler's steps: the model's client has a timeout
(`llm_request_timeout_seconds`), the event loop serves every task that is ready,
a sleep ends, and a job ends or raises. `Work` leaves out what nobody owes:
requests arriving, statements failing, resumptions and decisions. It also leaves
out what tools do (`ToolWork`); that they return is a premise of
`EveryRequestEnds`, in the property itself, because the code does not ensure it.

## Proofs

`ApprovalGate_proofs` proves, for any number of approvals, sessions and managers:

* `TypeCorrect`, `OnlyApprovedTakesEffect`, `DecisionTrail` and
  `DecisionsAreTerminal`. They follow from one inductive invariant `IInv`. The
  properties alone are not inductive: what a commit writes depends on what the
  session has flushed. `IInv` adds that two sessions never hold the same row,
  that a flushed row still satisfies the CHECK with the status it is to get, and
  that only an approving session carries an execution result. From the CHECK it
  follows that a row flushed as approved is committed as pending, expired or
  approved, never as rejected, which is the heart of `DecisionsAreTerminal`.
* `SerialImplementsLifecycle`, `SerialDecidesOnce` and `SerialExpiryFinal`: if
  there is at most one session (spec.md's single manager at a time), the gate
  implements `ApprovalLifecycle` under the mapping `status <- row's status`,
  `applied <- effect`; a completion is published once; the sweep is final. They
  need `SerialInv`, that the rows a transaction has read are still pending when
  it commits. `gate_decided_twice` shows that the hypothesis cannot be dropped
  from the second, and the same overlap breaks the third.
* `OnlySweepsDeadlock`: `DecisionsNeverDeadlock`. It needs of the invariant that a
  decision has one row on its list and holds nothing before it is flushed; so a
  decision that waits is waited for by nobody, and whoever is on a cycle both waits
  and is waited for (`WaitsAndIsWaitedFor` in `LockWaits_proofs`, for cycles of any
  length).

`Purchasing_proofs` proves, for any number of items, requests and sessions,
`TypeCorrect`, `CostlyOrdersApproved`, `OneOrderUnlessOverlap` and
`RecordTrueUnlessOverlap`. The invariant splits what a transaction knows in two:
`Stands` is what no other commit can change (a request being inserted does not
exist yet; a flushed decision is the only one its row can still get), `Untouched`
what holds only while it is `alone` (nothing is open for the item; the approval
is still pending). The first carries the unconditional theorem, the second the
two that make an exception for overlap. `TxStep` handles every step inside a
transaction, `CommitStep` the two that write.

`ReservationBooking_proofs` proves, for any number of tables, bookings,
proposals and sessions, `TypeCorrect`, `GrowthApproved`, `LargePartiesHeld`,
`RevivalByApproval`, `DoubleBookingCauses`, `MisfitCauses` and `ServedAtOnce`, along
the same lines. `WrittenRow` is the lemma on the column-wise UPDATE: a request that was
not overtaken writes exactly the row it judged, one that was writes columns each
of which is its own or the stored one; the latter is enough for `GrowthApproved`.
The case that forces the exception for revivals in `DoubleBookingCauses` is a
proposal that changes the notes only. `ServedAtOnce` needs one more invariant,
`AsAsked`: what a request that is `alone` is about to write is the loaded row with the
requested change, or what the proposal, still pending, asks for; and every change of
seats or slot it has passed `SlotIsFree` for, the rows being those of the commit.

`EventBus_proofs` proves, for any registry, number of sessions and depth of
nesting, `TypeCorrect`, `OneEventPerKey`, `AllHandlersHadTheirTurn` and
`PoisonedNeverReturns`. The invariant describes a transaction publication by
publication (`SessionOK`, `FrameOK`): how far each has come with its handlers,
that those below the innermost wait for the handler that publishes, that only
the first has a key, and that a row it leaves behind was offered to every
handler. `OneCarrier` says that a key is carried by one open transaction at
most, and not while it is committed; this is where the unique index and the
wait for it enter.

`MemoryStore_proofs` proves, for any ids, topics, texts and sessions,
`TypeCorrect`, `OneActive`, `ForgettingIsFinal`, `AdditionForgetsItsOwn` and
`InaccuracyNeedsOverlap`. Of a session, `IInv` says that it writes a row once
(`EachRowOnce`), that the unique index holds in the table as it sees it
(`OneSeen`), that it revives nothing, and, while nobody committed over it, that
its statements fit the rows as committed (`Fits`). Of two sessions it says that
they have changed no row in common and give no two rows the same key (`Apart`).
`OneActivePerKey` alone is not inductive: what a commit leaves behind depends on
rows another session has flushed and not yet committed.

Two more results rest on it:

* `OperationsAreAtomic` is `AtomicUnlessOvertaken`. `WholeUntilOvertaken` says what a
  session that is still `alone` has flushed and has yet to flush, taken together:
  the statements of one operation, planned on rows that are committed as they were
  loaded. When the last one is flushed they make one step of `FactTable`
  (`CommitWhole`); the unique index supplies the guard that a revised topic is free,
  which the code does not test. For one session (`\A s, t \in Sessions : s = t`) it gives
  `SerialImplementsFactTable`: nobody is ever overtaken, so every step maps to a step
  or a stutter.
* `WhoDeadlocks` is `OnlySearchesDeadlock`, with waits for several sessions at once
  and for keys as well as rows. Whoever is on a cycle waits and is waited for, so it
  has a statement behind it and one to come. `OneOrTouches` says that those are
  touches unless one of them is an insertion, and `CorrectionWaitsForNobody` that
  the insertion of an addition nobody has overtaken finds its key free.

`AgentRequests_proofs` holds the invariant of the agents' requests, for any
agents, scopes, budgets, retries and number of resumptions; `MCAgents_proofs`
states the results for the program as it is run: `RequestsTyped`,
`FloorBeforeCompletion`, `NoProposalLeftBehind` and `TrailIsSettled`.
`RequestInv` has these parts:

* `AgentOK`, `OrchOK`, `RequestOK`: what each place in the tool loop, the graph and
  the request knows of the counters and the flags around it.
* `LiveOK`, `SavedOK`: the trail as the session sees it and as it is committed. The
  same predicates are said of both (`Rooted`: a run's parent is the
  orchestrator's; `Unfinished`, `NoneLeft`, `Checkpoint`, `Failure`), because a rollback makes
  the second the first.
* `Held`: while the session is clean, a proposal that nothing accounts for yet
  (`Open`) is in the hands of the specialist being awaited, of the await node, of a
  checkpoint, or the graph has returned. This is what `ProposalsAccountedFor` lacks
  to be inductive: it speaks of completed runs only, and a proposal is made long
  before. `Checkpoint` says that a paused graph waits for the only open one, if any
  is: what it waits for may be another request's.
* `Busy`: a run is "running" only while somebody works on it, or when one of its
  specialists has answered over a proposal (`HasProposal`);
  `CommittedTrailIsSettled` follows when the request is over.
* `Floor`: from the place where the graph combines, everything required was
  invoked or the budget is spent.

TLC checked each part as an invariant first, also with `MaxApprovals` and
`MaxDelegations` of 3.

`OneLoopEach`, also in `MCAgents_proofs`, is about the scheduler alone (`SchedulerSpec`),
for any jobs and number of starts: `SchedulerInv` adds that only loops of known
jobs live and that, while `stop()` gathers, the table is not empty (so that a
`start()` in between counts as misuse) and every loop in it has been cancelled.
`OneLoopInTheHost` carries it over to `MCAgents`. `RecommendationsSuffice` is
`PlansSuffice` for every quantity, lookback, threshold and minimum: `RoundedUp`
says what rounding up guarantees (enough for every cover, and one fewer would
not be), and the rest is linear arithmetic with a case for each recommendation.

The proofs use the named assumptions of the modules: null values are not ids,
requested sizes and times are natural numbers, capacities are natural numbers,
budgets are natural numbers, the lookback window is positive, a registry names
sequences of handlers, sessions and memory ids (UUIDs) are finite sets. The
serial theorems assume one session; every other one holds of any overlap.

Three results are proved of properties no run checks, because a stronger one is
checked that implies them: `SerialExpiryFinal` (`ImplementsLifecycle`),
`RevivalByApproval` (`ServedAtOnceUnlessOverlapped`) and `AdditionForgetsItsOwn`
(`AtomicUnlessOvertaken`); `SerialImplementsFactTable` follows from the last.

Model-checked only:

* the liveness properties (`EverySessionEnds`, `ReturnsOrPublishesAgain`,
  `EveryRequestEnds`, `KeepsTicking`): fairness is out of the prover's reach;
* the schema (`TypeOK`, `DeedsSurvive`, `MigrationsLoseNothing`): it has no
  constants, so TLC's run reaches every state there is and a proof would add nothing;
* the findings' runs.

## Plan

The modules planned are written, the runs are complete, and every safety property
of a component with constants is proved, the absence of deadlocks among decisions included.
What could be added:

1. A property like `AtomicUnlessOvertaken` for purchase requests, whose rules are stated
   one by one now, each with its exception for overlap.
2. The order of an event's results in `EventBus`, which the invariant implies and no
   property states.

## Not modelled

* Analytics and dashboard: read-only queries; LLM and embedding clients: any
  answer is possible; logging, telemetry, configuration; authentication.
* The prompts (`agents/prompts.py`): text for the model, whose answer is free.
* Message numbers of a run (`agent_run_service.py:54`): the messages of a run are
  written by one session, one after the other.
* `asyncio.gather` over one `AsyncSession` (`inventory_service.py:145`): its effect
  is the driver's.
* Runs of agents started by event handlers are in `EventBus`, as handlers, and
  not in `AgentRuns`.
* Customer updates (one row, one column-wise UPDATE), schedules and availability
  (reads).
* `stop()` of the scheduler called twice at once.
* `resume()` of an orchestration that did not pause but ended in an error. One whose
  resumption failed at the approval keeps its checkpoint and can be resumed again.
