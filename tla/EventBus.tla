------------------------------ MODULE EventBus ------------------------------
(***************************************************************************)
(* InProcessEventBus (app/services/event_bus.py).  A service changes its   *)
(* row and publishes; every subscribed handler runs before publish()       *)
(* returns, in the publisher's own session and transaction, and may itself *)
(* publish, so a session carries a stack of publications.  Handlers are    *)
(* retried and their exceptions recorded, not propagated; but a handler's  *)
(* database error leaves the shared session unusable until it is rolled    *)
(* back, and nothing below publish() rolls it back.                        *)
(***************************************************************************)
EXTENDS Naturals, Sequences, SequencesExt, FiniteSetsExt

CONSTANTS
    Types,       \* the subscribed event types
    Handlers,    \* Handlers[type]: registrations in subscription order
    Reactions,   \* Reactions[h]: event types handler h may publish
    Keys, NoKey, \* idempotency keys; NoKey when the publisher gives none
    Sessions,    \* sessions that can publish at the same time
    MaxRetries,  \* max_retries_per_handler
    MaxEvents,   \* bound: a session that finds this many rows publishes no more
    MaxCalls     \* bound, of nothing in the code: publish() calls of the open transactions

ASSUME RegistryAssumption ==
    /\ Handlers \in [Types -> Seq(DOMAIN Reactions)]
    /\ \A h \in DOMAIN Reactions : Reactions[h] \subseteq Types
    /\ MaxRetries \in Nat /\ MaxEvents \in Nat /\ MaxCalls \in Nat \ {0}
    /\ NoKey \notin Keys

VARIABLES
    events,   \* the committed rows of the events table
    tx        \* tx[s]: the transaction of session s

vars == <<events, tx>>

Outcomes == {"success", "failed"}

EventRows == [type : Types, key : Keys \cup {NoKey}, results : Seq(Outcomes)]

\* One activation of publish(): its row, and the handler it has come to.
Frames == [type : Types, key : Keys \cup {NoKey},
           phase : {"lookup", "create", "dispatch", "running"},
           attempt : 0 .. MaxRetries,
           results : Seq(Outcomes)]   \* outcomes of the handlers already done

Transactions ==
    [pc : {"idle", "publishing", "returned", "raising"},
     stack : Seq(Frames),             \* innermost publication last
     rows : Seq(EventRows),           \* events whose publish() has returned
     poisoned : BOOLEAN,              \* the session refuses every statement
     blame : {"none", "handler", "duplicate"},   \* what poisoned it
     savepoint : BOOLEAN,             \* the publisher runs in begin_nested()
     calls : Nat]                     \* publish() calls so far

Idle == [pc |-> "idle", stack |-> <<>>, rows |-> <<>>, poisoned |-> FALSE,
         blame |-> "none", savepoint |-> FALSE, calls |-> 0]

Init ==
    /\ events = <<>>
    /\ tx = [s \in Sessions |-> Idle]

-----------------------------------------------------------------------------
(* The table and the stack *)

Frame(s) == Last(tx[s].stack)
Pop(s) == Front(tx[s].stack)
IsRoot(s) == Len(tx[s].stack) = 1
InPhase(s, phase) == tx[s].stack # <<>> /\ Frame(s).phase = phase

\* The handler the innermost publication has come to.
Position(s) == Len(Frame(s).results) + 1

\* Mutant: the loop over the handlers ends with the first one that fails.
HandlersLeftUntilFailure(s) ==
    /\ Position(s) <= Len(Handlers[Frame(s).type])
    /\ \A i \in DOMAIN Frame(s).results : Frame(s).results[i] = "success"

HandlersLeft(s) == Position(s) <= Len(Handlers[Frame(s).type])
Handler(s) == Handlers[Frame(s).type][Position(s)]

\* Bound, which the code does not have: another call may be made.
MayCall == MapThenSumSet(LAMBDA s : tx[s].calls, Sessions) < MaxCalls

Committed(key) == key # NoKey /\ \E i \in DOMAIN events : events[i].key = key

\* An uncommitted row of t carries the key; an INSERT of the same key waits.
Inserted(t, key) ==
    /\ key # NoKey
    /\ \/ \E i \in DOMAIN tx[t].rows : tx[t].rows[i].key = key
       \/ \E i \in DOMAIN tx[t].stack :
            tx[t].stack[i].key = key /\ tx[t].stack[i].phase \in {"dispatch", "running"}

\* publish() returns to, or raises into, the handler or service that called it.
Leave(s, rootPc) ==
    [tx[s] EXCEPT !.stack = Pop(s), !.pc = IF IsRoot(s) THEN rootPc ELSE "publishing"]

Returned(s) == Leave(s, "returned")
Raised(s) == Leave(s, "raising")

NewFrame(type, key) ==
    [type |-> type, key |-> key, phase |-> IF key = NoKey THEN "create" ELSE "lookup",
     attempt |-> 0, results |-> <<>>]

-----------------------------------------------------------------------------
(* publish() *)

\* A service calls publish() after its mutation, perhaps within the savepoint
\* of an approval's executor, which may have ended by the next call. Of several
\* calls in a transaction only the first is given a key here.
Publish(s, type, key) ==
    /\ MayCall
    /\ \/ /\ tx[s].pc = "idle"
          /\ Len(events) < MaxEvents
          /\ \E guarded \in BOOLEAN :
               tx' = [tx EXCEPT ![s] = [Idle EXCEPT !.pc = "publishing", !.savepoint = guarded,
                                                    !.calls = 1,
                                                    !.stack = <<NewFrame(type, key)>>]]
       \/ /\ tx[s].pc = "returned" /\ key = NoKey
          /\ \E guarded \in {FALSE, tx[s].savepoint} :
               tx' = [tx EXCEPT ![s].pc = "publishing", ![s].savepoint = guarded,
                                ![s].calls = @ + 1,
                                ![s].stack = <<NewFrame(type, key)>>]
    /\ UNCHANGED events

\* get_by_idempotency_key(): a committed event of the key ends the call.
LookUp(s) ==
    /\ InPhase(s, "lookup")
    /\ tx' = [tx EXCEPT ![s] = IF Committed(Frame(s).key) THEN Returned(s)
                               ELSE [tx[s] EXCEPT !.stack[Len(tx[s].stack)].phase = "create"]]
    /\ UNCHANGED events

\* Mutant: the index does not exist; the look-up alone is trusted.
CreateUnchecked(s) ==
    /\ InPhase(s, "create")
    /\ tx' = [tx EXCEPT ![s] =
                IF tx[s].poisoned THEN Raised(s)
                ELSE [tx[s] EXCEPT !.stack[Len(tx[s].stack)].phase = "dispatch"]]
    /\ UNCHANGED events

\* repo.create(). uq_events_idempotency_key makes it wait for a concurrent
\* insert of the key and then refuses a duplicate.
Create(s) ==
    /\ InPhase(s, "create")
    /\ \A t \in Sessions \ {s} : ~Inserted(t, Frame(s).key)
    /\ tx' = [tx EXCEPT ![s] =
                IF tx[s].poisoned THEN Raised(s)
                ELSE IF Committed(Frame(s).key)
                  THEN [Raised(s) EXCEPT !.poisoned = TRUE, !.blame = "duplicate"]
                ELSE [tx[s] EXCEPT !.stack[Len(tx[s].stack)].phase = "dispatch"]]
    /\ UNCHANGED events

\* The loop over the registrations, and each retry, calls the handler.
Call(s) ==
    /\ InPhase(s, "dispatch")
    /\ HandlersLeft(s)
    /\ tx' = [tx EXCEPT ![s].stack[Len(tx[s].stack)].phase = "running"]
    /\ UNCHANGED events

\* The frame once its current handler is done with, and before a retry.
Done(f, outcome) ==
    [f EXCEPT !.phase = "dispatch", !.attempt = 0, !.results = Append(@, outcome)]

\* Mutant: a retry is not counted.
RetryUncounted(f) == [f EXCEPT !.phase = "dispatch"]

Retry(f) == [f EXCEPT !.phase = "dispatch", !.attempt = @ + 1]

\* _dispatch_one(): the handler returns, whatever became of the statements it
\* made on the way.
HandlerReturns(s) ==
    /\ InPhase(s, "running")
    /\ tx' = [tx EXCEPT ![s].stack[Len(tx[s].stack)] = Done(@, "success")]
    /\ UNCHANGED events

\* Mutant: one retry too many.
HandlerRaisesOnceMore(s) ==
    /\ InPhase(s, "running")
    /\ tx' = [tx EXCEPT ![s].stack[Len(tx[s].stack)] =
                IF Frame(s).attempt <= MaxRetries THEN Retry(@) ELSE Done(@, "failed")]
    /\ UNCHANGED events

\* It raises: another attempt, or its failure is recorded. What the attempt
\* wrote and published stays in the transaction.
HandlerRaises(s) ==
    /\ InPhase(s, "running")
    /\ tx' = [tx EXCEPT ![s].stack[Len(tx[s].stack)] =
                IF Frame(s).attempt < MaxRetries THEN Retry(@) ELSE Done(@, "failed")]
    /\ UNCHANGED events

\* A statement of the handler fails in the database.
HandlerBreaksSession(s) ==
    /\ InPhase(s, "running")
    /\ ~tx[s].poisoned
    /\ tx' = [tx EXCEPT ![s].poisoned = TRUE, ![s].blame = "handler"]
    /\ UNCHANGED events

\* The handler's agent uses a tool whose service publishes: check_stock finds stock
\* short and publishes inventory.low, whose handler runs an agent with the same tool.
\* Nothing in the code ends such a cascade. MayCall does, for the checker alone, and
\* no property may draw a conclusion from it.
HandlerPublishes(s, type) ==
    /\ InPhase(s, "running")
    /\ type \in Reactions[Handler(s)]
    /\ MayCall
    /\ tx' = [tx EXCEPT ![s].calls = @ + 1, ![s].stack = Append(@, NewFrame(type, NoKey))]
    /\ UNCHANGED events

\* Mutant: the failure to save the event is swallowed as a handler's is.
FinishQuietly(s) ==
    /\ InPhase(s, "dispatch")
    /\ ~HandlersLeft(s)
    /\ LET f == Frame(s)
           row == [type |-> f.type, key |-> f.key, results |-> f.results]
       IN tx' = [tx EXCEPT ![s] = [Returned(s) EXCEPT !.rows = Append(@, row)]]
    /\ UNCHANGED events

\* All handlers done: handled and handler_results are saved, if the session
\* still accepts a statement.
Finish(s) ==
    /\ InPhase(s, "dispatch")
    /\ ~HandlersLeft(s)
    /\ LET f == Frame(s)
           row == [type |-> f.type, key |-> f.key, results |-> f.results]
       IN tx' = [tx EXCEPT ![s] = IF tx[s].poisoned THEN Raised(s)
                                  ELSE [Returned(s) EXCEPT !.rows = Append(@, row)]]
    /\ UNCHANGED events

-----------------------------------------------------------------------------
(* The publisher's transaction *)

\* get_db_session after the request: the mutation and its events, together.
Commit(s) ==
    /\ tx[s].pc = "returned"
    /\ events' = events \o tx[s].rows
    /\ tx' = [tx EXCEPT ![s] = Idle]

\* publish() raised into the service: without a savepoint the request and its
\* mutation are rolled back; with one only what was done inside it.
Unwind(s) ==
    /\ tx[s].pc = "raising"
    /\ tx' = [tx EXCEPT ![s] = IF tx[s].savepoint THEN [Idle EXCEPT !.pc = "returned"] ELSE Idle]
    /\ UNCHANGED events

\* A crash, or an error of the publisher's own: everything is rolled back.
Fail(s) ==
    /\ tx[s].pc # "idle"
    /\ tx' = [tx EXCEPT ![s] = Idle]
    /\ UNCHANGED events

Step(s) ==
    \/ LookUp(s) \/ Create(s) \/ Call(s) \/ HandlerReturns(s) \/ HandlerRaises(s)
    \/ Finish(s) \/ Unwind(s)

Next ==
    \E s \in Sessions :
        \/ \E type \in Types, key \in Keys \cup {NoKey} : Publish(s, type, key)
        \/ Step(s)
        \/ HandlerBreaksSession(s)
        \/ \E type \in Types : HandlerPublishes(s, type)
        \/ Commit(s) \/ Fail(s)

Spec == Init /\ [][Next]_vars

\* Handlers and the database do not hang, and a request ends after its last
\* publication. A waiter for a key is woken when the insert it waits for ends.
FairSpec ==
    /\ Spec
    /\ \A s \in Sessions : /\ WF_vars(Step(s)) /\ WF_vars(Commit(s))
                           /\ SF_vars(Create(s))

-----------------------------------------------------------------------------
(* Properties *)

TypeOK ==
    /\ events \in Seq(EventRows)
    /\ tx \in [Sessions -> Transactions]

\* A publication that is repeated under the same key, at once or by another
\* session, leaves one event.
UniqueKeys ==
    \A i, j \in DOMAIN events :
        events[i].key # NoKey /\ events[i].key = events[j].key => i = j

\* Every committed event, those published by handlers included, was offered to
\* every subscribed handler, in order, whatever the others did; none is
\* committed half dispatched.
EveryHandlerRan ==
    \A i \in DOMAIN events : Len(events[i].results) = Len(Handlers[events[i].type])

\* A session that refuses statements never gets as far as committing.
NoCommitWhenPoisoned == \A s \in Sessions : tx[s].pc = "returned" => ~tx[s].poisoned

\* A failing handler is not retried for ever: at any depth of nested publications, the
\* session gets to the end of publish(), or one of the handlers publishes once more.
\* That the latter ever stops is not claimed, and the code does not ensure it.
ReturnsOrPublishesAgain ==
    \A s \in Sessions, c \in 1 .. MaxCalls :
        tx[s].pc = "publishing" /\ tx[s].calls = c
          ~> tx[s].pc # "publishing" \/ tx[s].calls # c

\* "Publishing never raises because a handler failed".
HandlerFailureIsContained ==
    \A s \in Sessions : tx[s].pc = "raising" => tx[s].blame # "handler"
=============================================================================
