---------------------------- MODULE MemoryStore ----------------------------
(***************************************************************************)
(* The long-term memory (app/services/memory_service.py over               *)
(* app/repositories/memory_repo.py): one fact per row, at most one active  *)
(* row per topic.  An operation loads what it needs, plans its statements  *)
(* and flushes them one by one; in between it waits for the embedding      *)
(* model, the database or a row lock, so two sessions' operations overlap. *)
(* A topic stands for the whole unique key (restaurant, type, scope,       *)
(* topic).  Requests the service refuses, the invalid types, sources and   *)
(* importances with them, change nothing and are left out.                 *)
(***************************************************************************)
EXTENDS Naturals, Sequences, FiniteSets, LockWaits

CONSTANTS
    Topics, Texts,   \* what a memory is about, and what it says
    Ids,             \* the rows that can be inserted, oldest first
    MaxTouches,      \* bound: a memory this often accessed is left alone
    SearchLimit,     \* top_k
    Sessions

ASSUME MemoryAssumption ==
    /\ Ids \subseteq Nat /\ IsFiniteSet(Ids) /\ IsFiniteSet(Sessions)
    /\ MaxTouches \in Nat /\ SearchLimit \in Nat

VARIABLES
    memories,   \* memories[m]: the committed row
    tx          \* tx[s]: the operation session s has in progress

vars == <<memories, tx>>

\* The columns that matter: is_active as state, importance and confidence left
\* out. An embedding is known by what it was computed from; touches is a
\* history, the accesses committed so far.
Rows == [state : {"active", "forgotten"}, topic : Topics, text : Texts,
         embedding : [topic : Topics, text : Texts], access_count : Nat, touches : Nat]
Columns == {"state", "topic", "text", "embedding", "access_count"}

\* An id nobody has used yet, and one whose row is gone.
NoRows == [state : {"unused", "deleted"}]
Deleted == [state |-> "deleted"]

\* What a session has in progress. A statement is [row |-> m, set |-> values]:
\* an INSERT, UPDATE or DELETE of row m that sets the columns in DOMAIN values.
Idle == [pc |-> "idle",      \* or "working"
         todo |-> <<>>,      \* statements still to be flushed
         new |-> {},         \* the fact add_memory() will insert after them
         done |-> {},        \* flushed: their rows are locked until the end
         alone |-> TRUE]     \* history: nobody has committed since it began

\* The row add_memory() inserts.
Fresh(topic, text) ==
    [state |-> "active", topic |-> topic, text |-> text,
     embedding |-> [topic |-> topic, text |-> text], access_count |-> 0, touches |-> 0]

Init ==
    /\ memories = [m \in Ids |-> [state |-> "unused"]]
    /\ tx = [s \in Sessions |-> Idle]

Exists(m) == memories[m].state \in {"active", "forgotten"}
Active(m) == memories[m].state = "active"

-----------------------------------------------------------------------------
(* The operations, each planned on what it loads *)

Begin(s, plan, new) ==
    /\ tx[s].pc = "idle"
    /\ \A i \in DOMAIN plan : Exists(plan[i].row) /\ memories[plan[i].row].touches < MaxTouches
    /\ tx' = [tx EXCEPT ![s] = [Idle EXCEPT !.pc = "working", !.todo = plan, !.new = new]]
    /\ UNCHANGED memories

Plan(s, plan) == Begin(s, plan, {})

\* Mutant: an assigned object is written back whole.
ChangeWhole(m, row) == [row |-> m, set |-> [c \in Columns |-> row[c]]]

\* Assigning row to the loaded object m: its UPDATE names the columns whose value
\* is not the loaded one.
Change(m, row) ==
    [row |-> m, set |-> [c \in {d \in Columns : row[d] # memories[m][d]} |-> row[c]]]

\* Mutant: the current fact is looked up by its scope, without its topic.
AddScope(s, topic, text) ==
    LET current == {m \in Ids : Active(m)}
        new == {[topic |-> topic, text |-> text]}
    IN  IF current = {} THEN Begin(s, <<>>, new)
        ELSE \E m \in current :
               Begin(s, <<Change(m, [memories[m] EXCEPT !.state = "forgotten"])>>, new)

\* add_memory(): whatever is active under the key is deactivated first.
Add(s, topic, text) ==
    LET current == {m \in Ids : Active(m) /\ memories[m].topic = topic}
        new == {[topic |-> topic, text |-> text]}
    IN  IF current = {} THEN Begin(s, <<>>, new)
        ELSE \E m \in current :
               Begin(s, <<Change(m, [memories[m] EXCEPT !.state = "forgotten"])>>, new)

\* Mutant: the embedding is recomputed for a new text only.
UpdateKeeping(s, m, topic, text) ==
    /\ Active(m)
    /\ Plan(s, <<Change(m, [memories[m] EXCEPT
                   !.topic = topic, !.text = text,
                   !.embedding = IF text # memories[m].text THEN [topic |-> topic, text |-> text]
                                 ELSE @])>>)

\* Mutant: a text the request omits is written as null.
UpdateOmitted(s, m, topic, text) ==
    /\ Active(m)
    /\ Plan(s, <<Change(m, [memories[m] EXCEPT
                   !.topic = topic,
                   !.text = IF text = @ THEN "null" ELSE text,
                   !.embedding = [topic |-> topic, text |-> text]])>>)

\* Mutant: what is active under the new topic is forgotten first.
UpdateRetiring(s, m, topic, text) ==
    LET rivals == {n \in Ids \ {m} : Active(n) /\ memories[n].topic = topic}
        change == Change(m, [memories[m] EXCEPT !.topic = topic, !.text = text,
                                                !.embedding = [topic |-> topic, text |-> text]])
    IN  /\ Active(m)
        /\ IF rivals = {} THEN Plan(s, <<change>>)
           ELSE \E n \in rivals :
                  Plan(s, <<Change(n, [memories[n] EXCEPT !.state = "forgotten"]), change>>)

\* update_memory() to a new topic, text or both. The embedding is computed from
\* the session's copy, and an assigned vector always counts as changed.
Update(s, m, topic, text) ==
    /\ Active(m)
    /\ LET change == Change(m, [memories[m] EXCEPT !.topic = topic, !.text = text,
                                                   !.embedding = [topic |-> topic, text |-> text]])
       IN  Plan(s, <<[change EXCEPT !.set = [c \in DOMAIN @ \cup {"embedding"} |->
                        IF c = "embedding" THEN [topic |-> topic, text |-> text] ELSE @[c]]]>>)

\* touch_access(): the loaded count plus one.
Touched(m) == [memories[m] EXCEPT !.access_count = @ + 1]

\* reinforce_memory(): a confidence step, up to 1.0, and an access.
Reinforce(s, m) == Active(m) /\ Plan(s, <<Change(m, Touched(m))>>)

\* get_memory() counts an access, of a forgotten memory as well.
Get(s, m) == Exists(m) /\ Plan(s, <<Change(m, Touched(m))>>)

\* search_memory(): active rows, nearest first, which depends on the query; each
\* is touched and flushed in turn.
Search(s) ==
    \E k \in 1 .. SearchLimit : \E found \in [1 .. k -> {m \in Ids : Active(m)}] :
        /\ \A i, j \in 1 .. k : found[i] = found[j] => i = j
        /\ Plan(s, [i \in 1 .. k |-> Change(found[i], Touched(found[i]))])

\* forget_memory(). Forgetting again changes nothing.
Forget(s, m) ==
    Active(m) /\ Plan(s, <<Change(m, [memories[m] EXCEPT !.state = "forgotten"])>>)

\* delete_memory().
Delete(s, m) ==
    Exists(m) /\ Plan(s, <<[row |-> m, set |-> Deleted]>>)

-----------------------------------------------------------------------------
(* Flushing *)

Locked(s) == {d.row : d \in tx[s].done}

\* What a statement leaves in a column: an UPDATE merges its columns into the row
\* as it is committed now, not as the session had loaded it.
Column(d, c) == IF c \in DOMAIN d.set THEN d.set[c] ELSE memories[d.row][c]

IsTouch(d) == "access_count" \in DOMAIN d.set /\ d.set["access_count"] > 0

Result(d) ==
    IF d.set = Deleted THEN Deleted
    ELSE [state |-> Column(d, "state"), topic |-> Column(d, "topic"), text |-> Column(d, "text"),
          embedding |-> Column(d, "embedding"), access_count |-> Column(d, "access_count"),
          touches |-> IF memories[d.row].state = "unused" THEN 0
                      ELSE memories[d.row].touches + IF IsTouch(d) THEN 1 ELSE 0]

\* A row that was deleted meanwhile: its UPDATE finds nothing and raises, a
\* second DELETE only warns.
Vanished(d) == memories[d.row].state = "deleted"

\* The row m as session s would commit it.
Seen(s, m) == IF m \in Locked(s) THEN Result(CHOOSE d \in tx[s].done : d.row = m) ELSE memories[m]

\* uq_memories_active_scope_topic: a row can take a key that no other row has;
\* while another session's open transaction changes a row that has it, or gives
\* it to one, the statement waits.
Takes(d) == /\ DOMAIN d.set \cap {"topic", "state"} # {} /\ ~Vanished(d)
            /\ Result(d).state = "active"

\* Mutant: the index without its columns.
KeyFreeAnywhere(s, d) == TRUE

KeyFree(s, d) ==
    \A m \in Ids \ {d.row} :
        ~(Seen(s, m).state = "active" /\ Seen(s, m).topic = Result(d).topic)

Holds(t, topic) ==
    \E m \in Locked(t) : \E row \in {memories[m], Seen(t, m)} :
        row.state = "active" /\ row.topic = topic

\* The sessions statement d of session s waits for.
Blockers(s, d) ==
    {t \in Sessions \ {s} : d.row \in Locked(t) \/ (Takes(d) /\ Holds(t, Result(d).topic))}

\* A row id no session has used.
Free == {m \in Ids : memories[m].state = "unused" /\ \A s \in Sessions : m \notin Locked(s)}

\* The INSERT of add_memory(); a new id never meets another session's.
Insertion(m, fact) ==
    [row |-> m, set |-> [c \in Columns |-> Fresh(fact.topic, fact.text)[c]]]

\* What s has to flush next.
NextStatements(s) ==
    IF tx[s].todo # <<>> THEN {Head(tx[s].todo)}
    ELSE {Insertion(m, fact) : m \in {n \in Free : \A k \in Free : n <= k}, fact \in tx[s].new}

\* Nothing that s still has to wait for, nor that refuses the statement.
Accepted(s, d) ==
    /\ Blockers(s, d) = {}
    /\ Takes(d) => KeyFree(s, d)
    /\ Vanished(d) => d.set = Deleted

Flush(s) ==
    \E d \in NextStatements(s) :
        /\ tx[s].pc = "working" /\ Accepted(s, d)
        /\ tx' = [tx EXCEPT ![s].done = IF Vanished(d) THEN @ ELSE @ \cup {d},
                            ![s].new = IF tx[s].todo = <<>> THEN {} ELSE @,
                            ![s].todo = IF @ = <<>> THEN @ ELSE Tail(@)]
        /\ UNCHANGED memories

\* Everything planned is flushed.
Finished(s) == tx[s].todo = <<>> /\ tx[s].new = {}

Commit(s) ==
    /\ tx[s].pc = "working" /\ Finished(s)
    /\ memories' = [m \in Ids |-> Seen(s, m)]
    /\ tx' = [t \in Sessions |-> IF t = s \/ tx[t].pc = "idle" THEN Idle
                                 ELSE [tx[t] EXCEPT !.alone = FALSE]]

RollBack(s) == tx' = [tx EXCEPT ![s] = Idle] /\ UNCHANGED memories

\* Who waits for whom.
Waits == {w \in Sessions \X Sessions : \E d \in NextStatements(w[1]) : w[2] \in Blockers(w[1], d)}

Deadlocked(s) == OnCycle(s, Sessions, Waits)

\* The unique index, the vanished row or the deadlock detector refuses the
\* statement, and get_db_session rolls back.
Refused(s, d) == (Blockers(s, d) = {} /\ ~Accepted(s, d)) \/ Deadlocked(s)

Refuse(s) ==
    /\ tx[s].pc = "working"
    /\ \E d \in NextStatements(s) : Refused(s, d)
    /\ RollBack(s)

\* Any other exception: the embedding model, the connection, a customer unknown
\* to the foreign key.
Fail(s) == tx[s].pc = "working" /\ RollBack(s)

Request(s) ==
    \/ \E t \in Topics, x \in Texts :   \* bound: an id for every fact being added
         Cardinality({r \in Sessions : tx[r].new # {}}) < Cardinality(Free) /\ Add(s, t, x)
    \/ \E m \in Ids, t \in Topics, x \in Texts : Update(s, m, t, x)
    \/ \E m \in Ids : Reinforce(s, m) \/ Get(s, m) \/ Forget(s, m) \/ Delete(s, m)
    \/ Search(s)

Next == \E s \in Sessions : Request(s) \/ Flush(s) \/ Commit(s) \/ Refuse(s) \/ Fail(s)

Spec == Init /\ [][Next]_vars

-----------------------------------------------------------------------------
(* Properties *)

IsStatement(d) == d.row \in Ids /\ DOMAIN d.set \subseteq Columns

TypeOK ==
    /\ memories \in [Ids -> Rows \cup NoRows]
    /\ \A s \in Sessions :
         /\ tx[s].pc \in {"idle", "working"} /\ tx[s].alone \in BOOLEAN
         /\ tx[s].new \subseteq [topic : Topics, text : Texts]
         /\ \A d \in tx[s].done : IsStatement(d)
         /\ \A i \in DOMAIN tx[s].todo : IsStatement(tx[s].todo[i])

\* "can only have one active memory": whatever overlaps, additions and changes
\* of topic included.
OneActivePerKey ==
    \A m, n \in Ids : Active(m) /\ Active(n) /\ memories[m].topic = memories[n].topic => m = n

\* forget_memory() keeps the row as a record: no later write of another session,
\* which may have loaded it while it was active, revives it, and a row that was
\* deleted does not come back.
ForgottenStaysForgotten ==
    [][\A m \in Ids : /\ memories[m].state = "forgotten"
                        => memories'[m].state \in {"forgotten", "deleted"}
                      /\ memories[m].state = "deleted" => memories'[m].state = "deleted"]_vars

\* s commits over the commit of another session.
Overtaken(s) == ~tx[s].alone /\ tx[s].pc = "working" /\ memories' # memories /\ tx'[s] = Idle

\* An addition forgets only the fact it corrects, the one with its own topic,
\* unless an overlapping update has given that row another topic.
OtherFactForgottenOnlyByOverlap ==
    [][\A s \in Sessions, m, n \in Ids :
         /\ m \in Locked(s) /\ n \in Locked(s) /\ memories[n].state = "unused"
         /\ Active(m) /\ memories'[m].state = "forgotten" /\ memories'[n].state = "active"
         /\ memories'[n].topic # memories[m].topic
         => Overtaken(s)]_vars

\* The vector was computed from what the row says, and the counter has every
\* access.
Accurate(m) ==
    Exists(m) => /\ memories[m].embedding = [topic |-> memories[m].topic, text |-> memories[m].text]
                 /\ memories[m].access_count = memories[m].touches

\* A search by meaning finds the row by what it says, and counts it, until two
\* operations on it overlap: then the vector can be that of a text or topic the
\* row no longer has, and an access can be lost.
InaccurateOnlyByOverlap ==
    [][\A m \in Ids : Accurate(m) /\ ~Accurate(m)' => \E s \in Sessions : Overtaken(s)]_vars

\* Two searches that found the same rows in different orders wait for each other, and
\* PostgreSQL ends one. Nobody else is ever told so: an operation of one statement
\* holds nothing while it waits, and the insertion of an addition waits for nobody,
\* because the row it corrects keeps the key for it. That row may have another topic
\* by then if the addition was overtaken; then the insertion waits like any other.
OnlySearchesDeadlock ==
    \A s \in Sessions : Deadlocked(s) =>
        \/ tx[s].todo # <<>> /\ \A d \in tx[s].done \cup NextStatements(s) : IsTouch(d)
        \/ tx[s].new # {} /\ ~tx[s].alone

\* A row as FactTable has it: without its vector and the history.
FactOf(row) ==
    IF row.state \in {"active", "forgotten"}
      THEN [state |-> row.state, topic |-> row.topic, text |-> row.text,
            recalled |-> row.access_count]
    ELSE [state |-> row.state]

Told == [m \in Ids |-> FactOf(memories[m])]

Table == INSTANCE FactTable WITH facts <- Told

\* An operation that is not overtaken is one step of the table, whatever other sessions
\* have in progress: the two rows of an addition and the counts of a search change
\* together, on what was loaded several statements before.
AtomicUnlessOvertaken == [][Table!Next \/ \E s \in Sessions : Overtaken(s)]_Told

\* Held when operations do not overlap (one session).
ImplementsFactTable == Table!Spec
=============================================================================
