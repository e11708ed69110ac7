------------------------- MODULE MemoryStore_proofs -------------------------
(***************************************************************************)
(* For any topics, texts, ids and number of sessions whose operations      *)
(* overlap: the type invariant, OneActivePerKey, OnlySearchesDeadlock and  *)
(* the four action properties of MemoryStore; for one session, that it     *)
(* implements FactTable.                                                   *)
(***************************************************************************)
EXTENDS MemoryStore, LockWaits_proofs, SequenceTheorems

(***************************************************************************)
(* The invariant is about the rows as each session would commit them: the  *)
(* unique index keeps them unique in each session's own view, and the      *)
(* waiting keeps apart what two sessions have changed.                     *)
(***************************************************************************)

Facts == [topic : Topics, text : Texts]

\* What a statement may set: a deletion is not an UPDATE.
IsSet(set) ==
    \/ set = Deleted
    \/ /\ DOMAIN set \subseteq Columns
       /\ "state" \in DOMAIN set => set["state"] \in {"active", "forgotten"}
       /\ "topic" \in DOMAIN set => set["topic"] \in Topics
       /\ "text" \in DOMAIN set => set["text"] \in Texts
       /\ "embedding" \in DOMAIN set => set["embedding"] \in Facts
       /\ "access_count" \in DOMAIN set => set["access_count"] \in Nat

\* Only an insertion makes a row active.
RevivesNothing(d) == IsSet(d.set) /\ ("state" \in DOMAIN d.set => d.set["state"] # "active")

IsPlan(plan) == plan \in Seq({plan[i] : i \in DOMAIN plan})

TodoOK(d) == d.row \in Ids /\ RevivesNothing(d) /\ memories[d.row].state # "unused"
DoneOK(d) ==
    /\ d.row \in Ids
    /\ \/ Exists(d.row) /\ RevivesNothing(d)
       \/ memories[d.row].state = "unused" /\ \E fact \in Facts : d = Insertion(d.row, fact)

\* A row says what its vector says, and counts what was counted.
AccurateRow(row) ==
    row.state \in {"active", "forgotten"} =>
      row.embedding = [topic |-> row.topic, text |-> row.text] /\ row.access_count = row.touches

KeepsAccurate(d) == Accurate(d.row) => AccurateRow(Result(d))
Forgets(d) == "state" \in DOMAIN d.set /\ d.set["state"] = "forgotten"

\* The topics of the facts s adds.
Adds(s, topic) ==
    \/ \E fact \in tx[s].new : fact.topic = topic
    \/ \E e \in tx[s].done : memories[e.row].state = "unused" /\ e.set["topic"] = topic

\* As long as nobody else has committed, what s plans fits the rows as they are.
Fits(s, d) ==
    KeepsAccurate(d) /\ (Forgets(d) => \A topic : Adds(s, topic) => topic = memories[d.row].topic)

\* A statement for each row at most.
EachRowOnce(s) ==
    /\ \A d, e \in tx[s].done : d.row = e.row => d = e
    /\ \A i \in DOMAIN tx[s].todo : tx[s].todo[i].row \notin Locked(s)
    /\ \A i, j \in DOMAIN tx[s].todo : tx[s].todo[i].row = tx[s].todo[j].row => i = j

\* The unique index, as s sees the table.
OneSeen(s) ==
    \A m, n \in Ids :
        Seen(s, m).state = "active" /\ Seen(s, n).state = "active"
        /\ Seen(s, m).topic = Seen(s, n).topic => m = n

SessionOK(s) ==
    /\ DOMAIN tx[s] = {"pc", "todo", "new", "done", "alone"}
    /\ tx[s].pc \in {"idle", "working"} /\ tx[s].alone \in BOOLEAN
    /\ tx[s].pc = "idle" => tx[s] = Idle
    /\ tx[s].new \subseteq Facts /\ IsPlan(tx[s].todo)
    /\ \A i \in DOMAIN tx[s].todo : TodoOK(tx[s].todo[i])
    /\ \A d \in tx[s].done : DoneOK(d)
    /\ EachRowOnce(s) /\ OneSeen(s)
    /\ tx[s].alone => /\ \A i \in DOMAIN tx[s].todo : Fits(s, tx[s].todo[i])
                      /\ \A d \in tx[s].done : Fits(s, d)

\* Two sessions have changed no row in common, and give no two rows one key.
Apart(s, t) ==
    /\ Locked(s) \cap Locked(t) = {}
    /\ \A m \in Locked(s), n \in Locked(t) :
         ~(/\ Seen(s, m).state = "active" /\ Seen(t, n).state = "active"
           /\ Seen(s, m).topic = Seen(t, n).topic)

IInv ==
    /\ memories \in [Ids -> Rows \cup NoRows]
    /\ tx = [s \in Sessions |-> tx[s]]
    /\ OneActivePerKey
    /\ \A s \in Sessions : SessionOK(s)
    /\ \A s, t \in Sessions : s # t => Apart(s, t)

-----------------------------------------------------------------------------
(* Plans *)

LEMMA PlanOfSize ==
    ASSUME NEW n \in Nat, NEW plan, plan = [i \in 1 .. n |-> plan[i]]
    PROVE  IsPlan(plan) /\ Len(plan) = n /\ DOMAIN plan = 1 .. n
<1>1. DOMAIN plan = 1 .. n
  OBVIOUS
<1>2. plan \in [1 .. n -> {plan[i] : i \in DOMAIN plan}]
  BY <1>1
<1>3. plan \in Seq({plan[i] : i \in DOMAIN plan})
  BY <1>2, SeqDef
<1>4. QED
  BY <1>1, <1>3, LenProperties DEF IsPlan

LEMMA ShortPlans ==
    /\ IsPlan(<<>>) /\ DOMAIN <<>> = {}
    /\ \A d : IsPlan(<<d>>) /\ DOMAIN <<d>> = {1} /\ <<d>>[1] = d
<1>1. IsPlan(<<>>) /\ DOMAIN <<>> = {}
  BY EmptySeq, LenProperties DEF IsPlan
<1>2. ASSUME NEW d PROVE IsPlan(<<d>>) /\ DOMAIN <<d>> = {1} /\ <<d>>[1] = d
  <2>1. <<d>> = [i \in 1 .. 1 |-> <<d>>[i]] /\ <<d>>[1] = d
    OBVIOUS
  <2>2. IsPlan(<<d>>) /\ DOMAIN <<d>> = 1 .. 1
    BY <2>1, PlanOfSize
  <2>3. QED
    BY <2>1, <2>2
<1>3. QED
  BY <1>1, <1>2

LEMMA RestOfPlan ==
    ASSUME NEW plan, IsPlan(plan), plan # <<>>
    PROVE  /\ IsPlan(Tail(plan)) /\ 1 \in DOMAIN plan /\ Head(plan) = plan[1]
           /\ DOMAIN plan \subseteq Nat
           /\ \A i \in DOMAIN Tail(plan) :
                i + 1 \in DOMAIN plan /\ i + 1 # 1 /\ i \in Nat /\ Tail(plan)[i] = plan[i + 1]
<1> DEFINE S == {plan[i] : i \in DOMAIN plan}
           n == Len(plan) - 1
<1>1. /\ plan \in Seq(S) /\ Len(plan) \in Nat \ {0} /\ n \in Nat
      /\ DOMAIN plan = 1 .. Len(plan)
  BY EmptySeq, LenProperties DEF IsPlan
<1>2. /\ Head(plan) = plan[1] /\ Tail(plan) \in Seq(S) /\ Len(Tail(plan)) = n
      /\ \A i \in 1 .. n : Tail(plan)[i] = plan[i + 1]
  BY <1>1, HeadTailProperties
<1>3. DOMAIN Tail(plan) = 1 .. n /\ Tail(plan) = [i \in 1 .. n |-> Tail(plan)[i]]
  BY <1>2, LenProperties
<1>4. IsPlan(Tail(plan))
  BY <1>1, <1>3, PlanOfSize
<1>5. QED
  BY <1>1, <1>2, <1>3, <1>4

-----------------------------------------------------------------------------
(* What a session sees *)

LEMMA NothingSeen ==
    ASSUME NEW s, tx[s].done = {}
    PROVE  Locked(s) = {} /\ \A m : Seen(s, m) = memories[m]
BY DEF Locked, Seen

LEMMA WhatIsSeen ==
    ASSUME NEW s, EachRowOnce(s)
    PROVE  /\ \A d \in tx[s].done : d.row \in Locked(s) /\ Seen(s, d.row) = Result(d)
           /\ \A m : m \notin Locked(s) => Seen(s, m) = memories[m]
<1>1. ASSUME NEW d \in tx[s].done PROVE d.row \in Locked(s) /\ Seen(s, d.row) = Result(d)
  <2>1. d.row \in Locked(s)
    BY DEF Locked
  <2>2. \A e \in tx[s].done : e.row = d.row => e = d
    BY DEF EachRowOnce
  <2>3. (CHOOSE e \in tx[s].done : e.row = d.row) = d
    BY <2>2
  <2>4. QED
    BY <2>1, <2>3 DEF Seen
<1>2. QED
  BY <1>1 DEF Seen

\* A session that does not move sees what it saw, and keeps what it planned.
LEMMA Unmoved ==
    ASSUME NEW s, SessionOK(s), memories' = memories, tx'[s] = tx[s]
    PROVE  SessionOK(s)' /\ Locked(s)' = Locked(s) /\ \A m : Seen(s, m)' = Seen(s, m)
<1>1. Locked(s)' = Locked(s)
  BY DEF Locked
<1>2. \A d : /\ Result(d)' = Result(d) /\ TodoOK(d)' = TodoOK(d) /\ DoneOK(d)' = DoneOK(d)
             /\ KeepsAccurate(d)' = KeepsAccurate(d)
  BY DEF Result, Column, TodoOK, DoneOK, Exists, KeepsAccurate, Accurate
<1>3. \A m : Seen(s, m)' = Seen(s, m)
  BY <1>1, <1>2 DEF Seen
<1>4. \A topic : Adds(s, topic)' = Adds(s, topic)
  BY DEF Adds
<1>5. \A d : Fits(s, d)' = Fits(s, d)
  BY <1>2, <1>4 DEF Fits
<1>6. EachRowOnce(s)' /\ OneSeen(s)'
  BY <1>1, <1>3 DEF SessionOK, EachRowOnce, OneSeen
<1>7. SessionOK(s)'
  BY <1>2, <1>5, <1>6 DEF SessionOK
<1>8. QED
  BY <1>1, <1>3, <1>7

\* A step of s that commits nothing.
LEMMA OneMoves ==
    ASSUME IInv, NEW s \in Sessions, NEW x, tx' = [tx EXCEPT ![s] = x], memories' = memories,
           SessionOK(s)', \A t \in Sessions \ {s} : Apart(s, t)'
    PROVE  IInv'
<1>1. ASSUME NEW t \in Sessions \ {s}
      PROVE  SessionOK(t)' /\ Locked(t)' = Locked(t) /\ \A m : Seen(t, m)' = Seen(t, m)
  <2>1. tx'[t] = tx[t] /\ SessionOK(t)
    BY DEF IInv
  <2>2. QED
    BY <2>1, Unmoved
<1>2. ASSUME NEW t \in Sessions \ {s}, NEW u \in Sessions \ {s}, t # u PROVE Apart(t, u)'
  <2>1. Apart(t, u)
    BY <1>2 DEF IInv
  <2>2. QED
    BY <1>1, <2>1 DEF Apart
<1>3. \A t \in Sessions \ {s} : Apart(t, s)'
  BY DEF Apart
<1>4. tx' = [t \in Sessions |-> tx'[t]]
  BY DEF IInv
<1>5. OneActivePerKey'
  BY DEF IInv, OneActivePerKey, Active
<1>6. QED
  BY <1>1, <1>2, <1>3, <1>4, <1>5 DEF IInv

LEMMA RollBackOK ==
    ASSUME IInv, NEW s \in Sessions, RollBack(s)
    PROVE  IInv'
<1>1. tx'[s] = Idle /\ memories' = memories /\ tx' = [tx EXCEPT ![s] = Idle]
  BY DEF RollBack, IInv
<1>2. /\ Idle.pc = "idle" /\ Idle.todo = <<>> /\ Idle.new = {} /\ Idle.done = {}
      /\ Idle.alone = TRUE /\ DOMAIN Idle = {"pc", "todo", "new", "done", "alone"}
  BY DEF Idle
<1>3. Locked(s)' = {} /\ \A m : Seen(s, m)' = memories[m]
  BY <1>1, <1>2 DEF Locked, Seen
<1>4. EachRowOnce(s)' /\ OneSeen(s)'
  BY <1>1, <1>2, <1>3, ShortPlans DEF EachRowOnce, OneSeen, IInv, OneActivePerKey, Active
<1>5. SessionOK(s)'
  BY <1>1, <1>2, <1>4, ShortPlans DEF SessionOK
<1>6. \A t \in Sessions \ {s} : Apart(s, t)'
  BY <1>3 DEF Apart
<1>7. QED
  BY <1>1, <1>5, <1>6, OneMoves

\* An operation begins: its statements fit the rows it has loaded.
LEMMA BeginOK ==
    ASSUME IInv, NEW s \in Sessions, NEW plan, NEW new, Begin(s, plan, new),
           IsPlan(plan), new \subseteq Facts,
           \A i \in DOMAIN plan : TodoOK(plan[i]) /\ KeepsAccurate(plan[i]),
           \A i, j \in DOMAIN plan : plan[i].row = plan[j].row => i = j,
           \A i \in DOMAIN plan, fact \in new :
             Forgets(plan[i]) => fact.topic = memories[plan[i].row].topic
    PROVE  IInv'
<1> DEFINE x == [Idle EXCEPT !.pc = "working", !.todo = plan, !.new = new]
<1>1. tx'[s] = x /\ memories' = memories /\ tx' = [tx EXCEPT ![s] = x]
  BY DEF Begin, IInv
<1>2. /\ x.pc = "working" /\ x.todo = plan /\ x.new = new /\ x.done = {} /\ x.alone = TRUE
      /\ DOMAIN x = {"pc", "todo", "new", "done", "alone"}
  BY DEF Idle
<1> HIDE DEF x
<1>3. Locked(s)' = {} /\ \A m : Seen(s, m)' = memories[m]
  BY <1>1, <1>2 DEF Locked, Seen
<1>4. EachRowOnce(s)' /\ OneSeen(s)'
  BY <1>1, <1>2, <1>3 DEF EachRowOnce, OneSeen, IInv, OneActivePerKey, Active
<1>5. \A d : /\ TodoOK(d)' = TodoOK(d) /\ KeepsAccurate(d)' = KeepsAccurate(d)
  BY <1>1 DEF TodoOK, KeepsAccurate, Accurate, Exists, Result, Column
<1>6. \A topic : Adds(s, topic)' => \E fact \in new : fact.topic = topic
  BY <1>1, <1>2 DEF Adds
<1>7. \A i \in DOMAIN plan : Fits(s, plan[i])'
  BY <1>1, <1>5, <1>6 DEF Fits
<1>8. SessionOK(s)'
  BY <1>1, <1>2, <1>4, <1>5, <1>7 DEF SessionOK
<1>9. \A t \in Sessions \ {s} : Apart(s, t)'
  BY <1>3 DEF Apart
<1>10. QED
  BY <1>1, <1>8, <1>9, OneMoves

-----------------------------------------------------------------------------
(* The statements of the operations *)

\* An UPDATE that assigns row to the loaded object m, whose columns the loaded row
\* has: what it leaves is row.
LEMMA Changes ==
    ASSUME NEW m \in Ids, memories[m] \in Rows, NEW row \in Rows, row.state # "active" \/ Active(m),
           NEW d, d.row = m,
           \/ d.set = [c \in {k \in Columns : row[k] # memories[m][k]} |-> row[c]]
           \/ d.set = [c \in {k \in Columns : row[k] # memories[m][k]} \cup {"embedding"} |-> row[c]]
    PROVE  /\ TodoOK(d)
           /\ Result(d) = [row EXCEPT !.touches = memories[m].touches + IF IsTouch(d) THEN 1 ELSE 0]
           /\ IsTouch(d) <=> row.access_count # memories[m].access_count /\ row.access_count > 0
           /\ Forgets(d) <=> row.state = "forgotten" /\ Active(m)
<1> DEFINE old == memories[m]
<1>1. /\ DOMAIN d.set \subseteq Columns
      /\ \A c \in DOMAIN d.set : d.set[c] = row[c]
      /\ \A c \in Columns : c \notin DOMAIN d.set => row[c] = old[c]
      /\ \A c \in Columns : c \in DOMAIN d.set => row[c] # old[c] \/ c = "embedding"
  BY DEF Columns
<1>2. /\ row["state"] = row.state /\ row["topic"] = row.topic /\ row["text"] = row.text
      /\ row["embedding"] = row.embedding /\ row["access_count"] = row.access_count
      /\ row.state \in {"active", "forgotten"} /\ row.topic \in Topics /\ row.text \in Texts
      /\ row.embedding \in Facts /\ row.access_count \in Nat
      /\ old.state \in {"active", "forgotten"}
      /\ old["state"] = old.state /\ old["access_count"] = old.access_count
  BY DEF Rows, Facts
<1>3. d.set # Deleted
  BY <1>1, <1>2 DEF Deleted
<1>4. "state" \in DOMAIN d.set => d.set["state"] = "forgotten"
  BY <1>1, <1>2 DEF Active, Columns
<1>5. TodoOK(d)
  <2>1. IsSet(d.set)
    BY <1>1, <1>2 DEF IsSet
  <2>2. QED
    BY <1>2, <1>4, <2>1 DEF TodoOK, RevivesNothing
<1>6. \A c \in Columns : Column(d, c) = row[c]
  BY <1>1 DEF Column
<1>7. Result(d) = [row EXCEPT !.touches = memories[m].touches + IF IsTouch(d) THEN 1 ELSE 0]
  <2>1. Result(d) = [state |-> row.state, topic |-> row.topic, text |-> row.text,
                     embedding |-> row.embedding, access_count |-> row.access_count,
                     touches |-> memories[m].touches + IF IsTouch(d) THEN 1 ELSE 0]
    BY <1>2, <1>3, <1>6 DEF Result, Columns
  <2>2. QED
    BY <2>1 DEF Rows
<1>8. IsTouch(d) <=> row.access_count # memories[m].access_count /\ row.access_count > 0
  BY <1>1, <1>2 DEF IsTouch, Columns
<1>9. Forgets(d) <=> row.state = "forgotten" /\ Active(m)
  BY <1>1, <1>2, <1>4 DEF Forgets, Active, Columns
<1>10. QED
  BY <1>5, <1>7, <1>8, <1>9

LEMMA Existing ==
    ASSUME IInv, NEW m \in Ids, Exists(m)
    PROVE  memories[m] \in Rows
BY DEF IInv, Exists, NoRows

\* Such an UPDATE alone is a plan that fits, if row is as accurate as the loaded one.
LEMMA OneChange ==
    ASSUME IInv, NEW s \in Sessions, NEW m \in Ids, Exists(m),
           NEW row \in Rows, row.state # "active" \/ Active(m),
           NEW d, d.row = m,
           \/ d.set = [c \in {k \in Columns : row[k] # memories[m][k]} |-> row[c]]
           \/ d.set = [c \in {k \in Columns : row[k] # memories[m][k]} \cup {"embedding"} |-> row[c]],
           NEW new, new \subseteq Facts, Begin(s, <<d>>, new),
           Accurate(m) => row.embedding = [topic |-> row.topic, text |-> row.text],
           row.access_count \in {memories[m].access_count, memories[m].access_count + 1},
           row.state = "forgotten" /\ Active(m) => \A fact \in new : fact.topic = memories[m].topic
    PROVE  IInv'
<1>1. memories[m] \in Rows
  BY Existing
<1>2. /\ TodoOK(d)
      /\ Result(d) = [row EXCEPT !.touches = memories[m].touches + IF IsTouch(d) THEN 1 ELSE 0]
      /\ IsTouch(d) <=> row.access_count # memories[m].access_count /\ row.access_count > 0
      /\ Forgets(d) <=> row.state = "forgotten" /\ Active(m)
  BY <1>1, Changes
<1>3. /\ Result(d).topic = row.topic /\ Result(d).text = row.text
      /\ Result(d).embedding = row.embedding /\ Result(d).access_count = row.access_count
      /\ Result(d).touches = memories[m].touches + IF IsTouch(d) THEN 1 ELSE 0
  BY <1>2 DEF Rows
<1>4. KeepsAccurate(d)
  <2>1. Accurate(m) => memories[m].access_count = memories[m].touches
    BY DEF Accurate
  <2>2. memories[m].access_count \in Nat /\ memories[m].touches \in Nat
    BY <1>1 DEF Rows
  <2>3. Accurate(m) => Result(d).access_count = Result(d).touches
    <3>1. CASE row.access_count = memories[m].access_count
      BY <1>2, <1>3, <2>1, <2>2, <3>1
    <3>2. CASE row.access_count = memories[m].access_count + 1
      BY <1>2, <1>3, <2>1, <2>2, <3>2
    <3>3. QED
      BY <3>1, <3>2
  <2>4. QED
    BY <1>3, <2>3 DEF KeepsAccurate, AccurateRow
<1>5. \A i \in DOMAIN <<d>> : <<d>>[i] = d /\ i = 1
  BY ShortPlans
<1>6. QED
  BY <1>2, <1>4, <1>5, ShortPlans, BeginOK

LEMMA AddOK ==
    ASSUME IInv, NEW s \in Sessions, NEW topic \in Topics, NEW text \in Texts, Add(s, topic, text)
    PROVE  IInv'
<1> DEFINE current == {m \in Ids : Active(m) /\ memories[m].topic = topic}
           new == {[topic |-> topic, text |-> text]}
<1>1. new \subseteq Facts /\ \A fact \in new : fact.topic = topic
  BY DEF Facts
<1>2. CASE current = {}
  <2>1. Begin(s, <<>>, new)
    BY <1>2 DEF Add
  <2> HIDE DEF new
  <2>2. QED
    BY <1>1, <2>1, ShortPlans, BeginOK
<1>3. CASE current # {}
  <2>1. PICK m \in current :
          Begin(s, <<Change(m, [memories[m] EXCEPT !.state = "forgotten"])>>, new)
    BY <1>3 DEF Add
  <2> DEFINE row == [memories[m] EXCEPT !.state = "forgotten"]
             d == Change(m, row)
  <2>2. /\ m \in Ids /\ Exists(m) /\ memories[m].topic = topic /\ memories[m] \in Rows
    BY Existing DEF Exists, Active
  <2>3. /\ row \in Rows /\ row.state = "forgotten" /\ row.embedding = memories[m].embedding
        /\ row.topic = memories[m].topic /\ row.text = memories[m].text
        /\ row.access_count = memories[m].access_count
    BY <2>2 DEF Rows
  <2>4. d.row = m /\ d.set = [c \in {k \in Columns : row[k] # memories[m][k]} |-> row[c]]
    BY DEF Change
  <2>5. Begin(s, <<d>>, new)
    BY <2>1
  <2>6. Accurate(m) => row.embedding = [topic |-> row.topic, text |-> row.text]
    BY <2>2, <2>3 DEF Accurate
  <2> HIDE DEF row, d, new
  <2>7. QED
    BY <1>1, <2>2, <2>3, <2>4, <2>5, <2>6, OneChange
<1>4. QED
  BY <1>2, <1>3

LEMMA UpdateOK ==
    ASSUME IInv, NEW s \in Sessions, NEW m \in Ids, NEW topic \in Topics, NEW text \in Texts,
           Update(s, m, topic, text)
    PROVE  IInv'
<1> DEFINE none == {}
           vector == [topic |-> topic, text |-> text]
           row == [memories[m] EXCEPT !.topic = topic, !.text = text, !.embedding = vector]
           change == Change(m, row)
           d == [change EXCEPT !.set = [c \in DOMAIN @ \cup {"embedding"} |->
                   IF c = "embedding" THEN vector ELSE @[c]]]
<1>1. Active(m) /\ Exists(m) /\ memories[m] \in Rows /\ Begin(s, <<d>>, none)
  BY Existing DEF Update, Exists, Active, Plan
<1>2. /\ row \in Rows /\ row.state = memories[m].state /\ row.embedding = vector
      /\ row.topic = topic /\ row.text = text /\ row.access_count = memories[m].access_count
      /\ row["embedding"] = vector
  BY <1>1 DEF Rows
<1>3. change.row = m /\ change.set = [c \in {k \in Columns : row[k] # memories[m][k]} |-> row[c]]
  BY DEF Change
<1>4. d.row = m /\ d.set = [c \in DOMAIN change.set \cup {"embedding"} |->
                             IF c = "embedding" THEN vector ELSE change.set[c]]
  BY DEF Change
<1> HIDE DEF change, d
<1>5. d.set = [c \in {k \in Columns : row[k] # memories[m][k]} \cup {"embedding"} |-> row[c]]
  BY <1>2, <1>3, <1>4
<1>6. row.state # "forgotten" /\ row.embedding = [topic |-> row.topic, text |-> row.text]
  BY <1>1, <1>2 DEF Active
<1>7. none \subseteq Facts
  OBVIOUS
<1> HIDE DEF row, none
<1>8. QED
  BY <1>1, <1>2, <1>4, <1>5, <1>6, <1>7, OneChange

\* An access: what it leaves counts one more.
LEMMA Touches ==
    ASSUME IInv, NEW m \in Ids, Exists(m)
    PROVE  LET d == Change(m, Touched(m))
           IN  TodoOK(d) /\ KeepsAccurate(d) /\ d.row = m /\ ~Forgets(d)
<1> DEFINE row == Touched(m)
           d == Change(m, row)
<1>1. memories[m] \in Rows
  BY Existing
<1>2. /\ row \in Rows /\ row.state = memories[m].state /\ row.embedding = memories[m].embedding
      /\ row.topic = memories[m].topic /\ row.text = memories[m].text
      /\ row.access_count = memories[m].access_count + 1
  BY <1>1 DEF Rows, Touched
<1>3. d.row = m /\ d.set = [c \in {k \in Columns : row[k] # memories[m][k]} |-> row[c]]
  BY DEF Change
<1>4. (row.state # "active" \/ Active(m)) /\ m \in Ids
  BY <1>2 DEF Active
<1> HIDE DEF row, d
<1>5. /\ TodoOK(d)
      /\ Result(d) = [row EXCEPT !.touches = memories[m].touches + IF IsTouch(d) THEN 1 ELSE 0]
      /\ IsTouch(d) <=> row.access_count # memories[m].access_count /\ row.access_count > 0
      /\ Forgets(d) <=> row.state = "forgotten" /\ Active(m)
  BY <1>1, <1>2, <1>3, <1>4, Changes
<1>6. memories[m].access_count \in Nat /\ memories[m].touches \in Nat
  BY <1>1 DEF Rows
<1>7. /\ Result(d).topic = row.topic /\ Result(d).text = row.text
      /\ Result(d).embedding = row.embedding /\ Result(d).access_count = row.access_count
      /\ Result(d).touches = memories[m].touches + 1
  BY <1>2, <1>5, <1>6 DEF Rows
<1>8. KeepsAccurate(d)
  BY <1>2, <1>3, <1>6, <1>7 DEF KeepsAccurate, Accurate, AccurateRow
<1>9. ~Forgets(d)
  BY <1>2, <1>5 DEF Active
<1>10. QED
  BY <1>3, <1>5, <1>8, <1>9 DEF d, row

\* reinforce_memory() and get_memory().
LEMMA TouchOK ==
    ASSUME IInv, NEW s \in Sessions, NEW m \in Ids, Reinforce(s, m) \/ Get(s, m)
    PROVE  IInv'
<1> DEFINE d == Change(m, Touched(m))
           none == {}
<1>1. Exists(m) /\ Begin(s, <<d>>, none)
  BY DEF Reinforce, Get, Exists, Active, Plan
<1>2. TodoOK(d) /\ KeepsAccurate(d)
  BY <1>1, Touches
<1> HIDE DEF d
<1>3. none \subseteq Facts /\ \A fact \in none : FALSE
  OBVIOUS
<1>4. \A i \in DOMAIN <<d>> : <<d>>[i] = d /\ i = 1
  BY ShortPlans
<1> HIDE DEF none
<1>5. QED
  BY <1>1, <1>2, <1>3, <1>4, ShortPlans, BeginOK

LEMMA ForgetOK ==
    ASSUME IInv, NEW s \in Sessions, NEW m \in Ids, Forget(s, m)
    PROVE  IInv'
<1> DEFINE row == [memories[m] EXCEPT !.state = "forgotten"]
           none == {}
           d == Change(m, row)
<1>1. Exists(m) /\ memories[m] \in Rows /\ Begin(s, <<d>>, none)
  BY Existing DEF Forget, Exists, Active, Plan
<1>2. /\ row \in Rows /\ row.state = "forgotten" /\ row.embedding = memories[m].embedding
      /\ row.topic = memories[m].topic /\ row.text = memories[m].text
      /\ row.access_count = memories[m].access_count
  BY <1>1 DEF Rows
<1>3. d.row = m /\ d.set = [c \in {k \in Columns : row[k] # memories[m][k]} |-> row[c]]
  BY DEF Change
<1>4. Accurate(m) => row.embedding = [topic |-> row.topic, text |-> row.text]
  BY <1>1, <1>2 DEF Accurate
<1>5. none \subseteq Facts /\ \A fact \in none : fact.topic = memories[m].topic
  OBVIOUS
<1> HIDE DEF row, d, none
<1>6. QED
  BY <1>1, <1>2, <1>3, <1>4, <1>5, OneChange

LEMMA DeleteOK ==
    ASSUME IInv, NEW s \in Sessions, NEW m \in Ids, Delete(s, m)
    PROVE  IInv'
<1> DEFINE d == [row |-> m, set |-> Deleted]
<1>1. Exists(m) /\ Begin(s, <<d>>, {})
  BY DEF Delete, Plan
<1>2. d.row = m /\ d.set = Deleted /\ Result(d) = Deleted
  BY DEF Result
<1>3. TodoOK(d) /\ KeepsAccurate(d) /\ ~Forgets(d)
  BY <1>1, <1>2 DEF TodoOK, RevivesNothing, IsSet, KeepsAccurate, AccurateRow, Deleted, Exists, Forgets
<1> HIDE DEF d
<1>4. \A i \in DOMAIN <<d>> : <<d>>[i] = d /\ i = 1
  BY ShortPlans
<1>5. QED
  BY <1>1, <1>3, <1>4, ShortPlans, BeginOK

LEMMA SearchOK ==
    ASSUME IInv, NEW s \in Sessions, Search(s)
    PROVE  IInv'
<1>0. PICK k \in 1 .. SearchLimit : \E found \in [1 .. k -> {m \in Ids : Active(m)}] :
        /\ \A i, j \in 1 .. k : found[i] = found[j] => i = j
        /\ Plan(s, [i \in 1 .. k |-> Change(found[i], Touched(found[i]))])
  BY DEF Search
<1>1. PICK found \in [1 .. k -> {m \in Ids : Active(m)}] :
        /\ \A i, j \in 1 .. k : found[i] = found[j] => i = j
        /\ Plan(s, [i \in 1 .. k |-> Change(found[i], Touched(found[i]))])
  BY <1>0
<1> DEFINE plan == [i \in 1 .. k |-> Change(found[i], Touched(found[i]))]
           none == {}
<1>2. k \in Nat /\ plan = [i \in 1 .. k |-> plan[i]] /\ Begin(s, plan, none)
  BY <1>1, MemoryAssumption DEF Plan
<1>3. IsPlan(plan) /\ DOMAIN plan = 1 .. k
  BY <1>2, PlanOfSize
<1>4. ASSUME NEW i \in 1 .. k
      PROVE  TodoOK(plan[i]) /\ KeepsAccurate(plan[i]) /\ plan[i].row = found[i] /\ ~Forgets(plan[i])
  <2>1. /\ found[i] \in Ids /\ Exists(found[i])
        /\ plan[i] = Change(found[i], Touched(found[i]))
    BY DEF Exists, Active
  <2> HIDE DEF plan
  <2>2. QED
    BY <2>1, Touches
<1>5. none \subseteq Facts /\ \A fact \in none : FALSE
  OBVIOUS
<1> HIDE DEF plan, none
<1>6. /\ \A i \in DOMAIN plan : TodoOK(plan[i]) /\ KeepsAccurate(plan[i])
      /\ \A i, j \in DOMAIN plan : plan[i].row = plan[j].row => i = j
      /\ \A i \in DOMAIN plan, fact \in none :
           Forgets(plan[i]) => fact.topic = memories[plan[i].row].topic
  BY <1>1, <1>3, <1>4, <1>5
<1>7. QED
  BY <1>2, <1>3, <1>5, <1>6, BeginOK

-----------------------------------------------------------------------------
(* Flushing *)

\* An INSERT is of a row nobody has used, an UPDATE or DELETE of one not flushed yet.
LEMMA NextStatement ==
    ASSUME IInv, NEW s \in Sessions, NEW d \in NextStatements(s)
    PROVE  /\ d.row \in Ids /\ d.row \notin Locked(s)
           /\ \/ tx[s].todo # <<>> /\ d = tx[s].todo[1] /\ 1 \in DOMAIN tx[s].todo /\ TodoOK(d)
              \/ /\ tx[s].todo = <<>> /\ memories[d.row].state = "unused"
                 /\ \E fact \in tx[s].new : d = Insertion(d.row, fact)
<1>1. SessionOK(s)
  BY DEF IInv
<1>2. CASE tx[s].todo # <<>>
  <2>1. d = tx[s].todo[1] /\ 1 \in DOMAIN tx[s].todo
    BY <1>1, <1>2, RestOfPlan DEF NextStatements, SessionOK
  <2>2. TodoOK(d) /\ d.row \notin Locked(s)
    BY <1>1, <2>1 DEF SessionOK, EachRowOnce
  <2>3. QED
    BY <1>2, <2>1, <2>2 DEF TodoOK
<1>3. CASE tx[s].todo = <<>>
  <2>1. PICK m \in Free, fact \in tx[s].new : d = Insertion(m, fact)
    BY <1>3 DEF NextStatements
  <2>2. d.row = m
    BY <2>1 DEF Insertion
  <2>3. QED
    BY <1>3, <2>1, <2>2 DEF Free
<1>4. QED
  BY <1>2, <1>3

\* The row an INSERT leaves.
LEMMA Inserted ==
    ASSUME NEW d, memories[d.row].state = "unused", NEW fact \in Facts, d = Insertion(d.row, fact)
    PROVE  /\ DOMAIN d.set = Columns /\ d.set["topic"] = fact.topic /\ d.set["state"] = "active"
           /\ Result(d) = Fresh(fact.topic, fact.text) /\ AccurateRow(Result(d))
           /\ ~Forgets(d)
<1> DEFINE row == Fresh(fact.topic, fact.text)
<1>1. /\ row.state = "active" /\ row.topic = fact.topic /\ row.text = fact.text
      /\ row.embedding = [topic |-> fact.topic, text |-> fact.text]
      /\ row.access_count = 0 /\ row.touches = 0
  BY DEF Fresh
<1>2. d.set = [c \in Columns |-> row[c]]
  BY DEF Insertion
<1>3. /\ DOMAIN d.set = Columns /\ d.set["topic"] = row.topic /\ d.set["state"] = row.state
      /\ d.set["text"] = row.text /\ d.set["embedding"] = row.embedding
      /\ d.set["access_count"] = row.access_count
  BY <1>2 DEF Columns
<1>4. d.set # Deleted /\ ~IsTouch(d)
  BY <1>1, <1>3 DEF Deleted, Columns, IsTouch
<1>5. Result(d) = [state |-> row.state, topic |-> row.topic, text |-> row.text,
                   embedding |-> row.embedding, access_count |-> row.access_count, touches |-> 0]
  BY <1>3, <1>4 DEF Result, Column, Columns
<1>6. Result(d) = row
  BY <1>1, <1>5 DEF Fresh
<1>7. AccurateRow(row)
  BY <1>1 DEF AccurateRow
<1>8. QED
  BY <1>1, <1>3, <1>6, <1>7 DEF Forgets

\* A statement that cannot take a key leaves the row's own.
LEMMA KeepsKey ==
    ASSUME NEW d, ~Takes(d), ~Vanished(d), Result(d).state = "active"
    PROVE  memories[d.row].state = "active" /\ memories[d.row].topic = Result(d).topic
<1>1. "topic" \notin DOMAIN d.set /\ "state" \notin DOMAIN d.set
  BY DEF Takes
<1>2. d.set # Deleted
  BY <1>1 DEF Deleted
<1>3. Result(d).state = Column(d, "state") /\ Result(d).topic = Column(d, "topic")
  BY <1>2 DEF Result
<1>4. QED
  BY <1>1, <1>3 DEF Column

LEMMA SeenAfterFlush ==
    ASSUME IInv, NEW s \in Sessions, NEW d, d.row \notin Locked(s),
           memories' = memories, tx'[s].done = tx[s].done \cup {d}
    PROVE  /\ Locked(s)' = Locked(s) \cup {d.row}
           /\ Seen(s, d.row)' = Result(d) /\ \A m : m # d.row => Seen(s, m)' = Seen(s, m)
           /\ \A e, f \in tx'[s].done : e.row = f.row => e = f
<1>1. /\ EachRowOnce(s)
      /\ \A e \in tx[s].done : e.row \in Locked(s) /\ e.row # d.row
  BY DEF IInv, SessionOK, Locked
<1>2. \A e, f \in tx'[s].done : e.row = f.row => e = f
  BY <1>1 DEF EachRowOnce
<1>3. Locked(s)' = Locked(s) \cup {d.row}
  BY DEF Locked
<1>4. \A e : Result(e)' = Result(e)
  BY DEF Result, Column
<1>5. ASSUME NEW m, NEW e \in tx'[s].done, e.row = m PROVE Seen(s, m)' = Result(e)
  <2>1. \A f \in tx'[s].done : f.row = m => f = e
    BY <1>2, <1>5
  <2>2. (CHOOSE f \in tx'[s].done : f.row = m) = e
    BY <1>5, <2>1
  <2>3. m \in Locked(s)'
    BY <1>5 DEF Locked
  <2>4. QED
    BY <1>4, <2>2, <2>3 DEF Seen
<1>6. Seen(s, d.row)' = Result(d)
  BY <1>5
<1>7. ASSUME NEW m, m # d.row PROVE Seen(s, m)' = Seen(s, m)
  <2>1. CASE m \in Locked(s)
    <3>1. PICK e \in tx[s].done : e.row = m
      BY <2>1 DEF Locked
    <3>2. Seen(s, m)' = Result(e) /\ Seen(s, m) = Result(e)
      BY <1>1, <1>5, <3>1, WhatIsSeen
    <3>3. QED
      BY <3>2
  <2>2. CASE m \notin Locked(s)
    BY <1>3, <1>7, <2>2 DEF Seen
  <2>3. QED
    BY <2>1, <2>2
<1>8. QED
  BY <1>2, <1>3, <1>6, <1>7

\* What is left of the plan once its first statement is flushed.
LEMMA RestOfTodo ==
    ASSUME IInv, NEW s \in Sessions, memories' = memories,
           tx'[s].todo = IF tx[s].todo = <<>> THEN tx[s].todo ELSE Tail(tx[s].todo)
    PROVE  /\ IsPlan(tx'[s].todo)
           /\ \A i \in DOMAIN tx'[s].todo : \E j \in DOMAIN tx[s].todo :
                j # 1 /\ tx'[s].todo[i] = tx[s].todo[j] /\ TodoOK(tx[s].todo[j])
           /\ \A i, j \in DOMAIN tx'[s].todo : tx'[s].todo[i].row = tx'[s].todo[j].row => i = j
<1>1. SessionOK(s) /\ IsPlan(tx[s].todo)
  BY DEF IInv, SessionOK
<1>2. CASE tx[s].todo = <<>>
  <2>1. tx'[s].todo = <<>>
    BY <1>2
  <2>2. QED
    BY <2>1, ShortPlans
<1>3. CASE tx[s].todo # <<>>
  <2>1. /\ IsPlan(tx'[s].todo)
        /\ \A i \in DOMAIN tx'[s].todo :
             i + 1 \in DOMAIN tx[s].todo /\ i + 1 # 1 /\ i \in Nat
             /\ tx'[s].todo[i] = tx[s].todo[i + 1]
    BY <1>1, <1>3, RestOfPlan
  <2>2. \A i, j \in DOMAIN tx'[s].todo : tx'[s].todo[i].row = tx'[s].todo[j].row => i = j
    <3>1. SUFFICES ASSUME NEW i \in DOMAIN tx'[s].todo, NEW j \in DOMAIN tx'[s].todo,
                          tx'[s].todo[i].row = tx'[s].todo[j].row
                   PROVE  i = j
      OBVIOUS
    <3>2. i + 1 = j + 1
      BY <1>1, <2>1, <3>1 DEF SessionOK, EachRowOnce
    <3>3. QED
      BY <2>1, <3>2
  <2>3. QED
    BY <1>1, <2>1, <2>2 DEF SessionOK
<1>4. QED
  BY <1>2, <1>3

\* The statement is done: the index is kept in the session's own view, and what the
\* other sessions have changed is left alone.
LEMMA FlushKeepsKeys ==
    ASSUME IInv, NEW s \in Sessions, NEW d \in NextStatements(s), ~Vanished(d), Blockers(s, d) = {},
           Takes(d) => KeyFree(s, d), memories' = memories, tx'[s].done = tx[s].done \cup {d},
           \A t \in Sessions \ {s} : tx'[t] = tx[t]
    PROVE  OneSeen(s)' /\ \A t \in Sessions \ {s} : Apart(s, t)'
<1>1. /\ Locked(s)' = Locked(s) \cup {d.row} /\ d.row \in Ids /\ d.row \notin Locked(s)
      /\ Seen(s, d.row)' = Result(d) /\ \A m : m # d.row => Seen(s, m)' = Seen(s, m)
  BY NextStatement, SeenAfterFlush
<1>2. \A t \in Sessions : OneSeen(t) /\ EachRowOnce(t)
  BY DEF IInv, SessionOK
<1>3. \A t \in Sessions \ {s} : d.row \notin Locked(t)
  BY DEF Blockers
<1>4. \A t \in Sessions : Seen(t, d.row) = memories[d.row]
  BY <1>1, <1>2, <1>3, WhatIsSeen
<1>5. \A t \in Sessions \ {s} : Locked(t)' = Locked(t) /\ \A m : Seen(t, m)' = Seen(t, m)
  BY Unmoved DEF IInv
<1>6. OneSeen(s)'
  <2>1. ASSUME NEW n \in Ids \ {d.row}, Result(d).state = "active", Seen(s, n).state = "active",
               Result(d).topic = Seen(s, n).topic
        PROVE  FALSE
    <3>1. CASE Takes(d)
      BY <2>1, <3>1 DEF KeyFree
    <3>2. CASE ~Takes(d)
      BY <1>1, <1>2, <1>4, <2>1, <3>2, KeepsKey DEF OneSeen
    <3>3. QED
      BY <3>1, <3>2
  <2>2. QED
    BY <1>1, <1>2, <2>1 DEF OneSeen
<1>7. ASSUME NEW t \in Sessions \ {s} PROVE Apart(s, t)'
  <2>1. Apart(s, t)
    BY DEF IInv
  <2>2. ASSUME NEW n \in Locked(t), Result(d).state = "active", Seen(t, n).state = "active",
               Result(d).topic = Seen(t, n).topic
        PROVE  FALSE
    <3>1. n \in Ids
      BY DEF IInv, SessionOK, DoneOK, Locked
    <3>2. CASE Takes(d)
      <4>1. ~Holds(t, Result(d).topic)
        BY <3>2 DEF Blockers
      <4>2. QED
        BY <2>2, <4>1 DEF Holds
    <3>3. CASE ~Takes(d)
      BY <1>1, <1>2, <1>3, <1>4, <2>2, <3>1, <3>3, KeepsKey DEF OneSeen
    <3>4. QED
      BY <3>2, <3>3
  <2>3. (Locked(s) \cup {d.row}) \cap Locked(t) = {}
    BY <1>3, <2>1 DEF Apart
  <2>4. ASSUME NEW m \in Locked(s) \cup {d.row}, NEW n \in Locked(t)
        PROVE  ~(/\ Seen(s, m)'.state = "active" /\ Seen(t, n).state = "active"
                 /\ Seen(s, m)'.topic = Seen(t, n).topic)
    BY <1>1, <2>1, <2>2 DEF Apart
  <2>5. QED
    BY <1>1, <1>5, <2>3, <2>4 DEF Apart
<1>8. QED
  BY <1>6, <1>7

LEMMA FlushOK ==
    ASSUME IInv, NEW s \in Sessions, Flush(s)
    PROVE  IInv'
<1>1. PICK d \in NextStatements(s) :
        /\ tx[s].pc = "working"
        /\ Blockers(s, d) = {}
        /\ Takes(d) => KeyFree(s, d)
        /\ Vanished(d) => d.set = Deleted
        /\ tx' = [tx EXCEPT ![s].done = IF Vanished(d) THEN @ ELSE @ \cup {d},
                            ![s].new = IF tx[s].todo = <<>> THEN {} ELSE @,
                            ![s].todo = IF @ = <<>> THEN @ ELSE Tail(@)]
        /\ UNCHANGED memories
  BY DEF Flush, Accepted
<1> DEFINE x == [tx[s] EXCEPT !.done = IF Vanished(d) THEN @ ELSE @ \cup {d},
                              !.new = IF tx[s].todo = <<>> THEN {} ELSE @,
                              !.todo = IF @ = <<>> THEN @ ELSE Tail(@)]
<1>2. tx' = [tx EXCEPT ![s] = x] /\ memories' = memories /\ SessionOK(s)
  BY <1>1 DEF IInv
<1>3. /\ x.done = IF Vanished(d) THEN tx[s].done ELSE tx[s].done \cup {d}
      /\ x.new = IF tx[s].todo = <<>> THEN {} ELSE tx[s].new
      /\ x.todo = IF tx[s].todo = <<>> THEN tx[s].todo ELSE Tail(tx[s].todo)
      /\ x.pc = tx[s].pc /\ x.alone = tx[s].alone /\ DOMAIN x = DOMAIN tx[s]
  BY <1>2 DEF SessionOK
<1> HIDE DEF x
<1>4. tx'[s] = x /\ \A t \in Sessions \ {s} : tx'[t] = tx[t]
  BY <1>2 DEF IInv
<1>5. /\ d.row \in Ids /\ d.row \notin Locked(s)
      /\ \/ tx[s].todo # <<>> /\ d = tx[s].todo[1] /\ 1 \in DOMAIN tx[s].todo /\ TodoOK(d)
         \/ /\ tx[s].todo = <<>> /\ memories[d.row].state = "unused"
            /\ \E fact \in tx[s].new : d = Insertion(d.row, fact)
  BY NextStatement
<1>6. /\ IsPlan(x.todo)
      /\ \A i \in DOMAIN x.todo : \E j \in DOMAIN tx[s].todo :
           j # 1 /\ x.todo[i] = tx[s].todo[j] /\ TodoOK(tx[s].todo[j])
      /\ \A i, j \in DOMAIN x.todo : x.todo[i].row = x.todo[j].row => i = j
  <2>1. tx'[s].todo = IF tx[s].todo = <<>> THEN tx[s].todo ELSE Tail(tx[s].todo)
    BY <1>3, <1>4
  <2>2. tx'[s].todo = x.todo
    BY <1>4
  <2>3. QED
    BY <1>2, <2>1, <2>2, RestOfTodo
<1>7. \A e : /\ Result(e)' = Result(e) /\ TodoOK(e)' = TodoOK(e) /\ DoneOK(e)' = DoneOK(e)
             /\ KeepsAccurate(e)' = KeepsAccurate(e)
  BY <1>2 DEF Result, Column, TodoOK, DoneOK, Exists, KeepsAccurate, Accurate
<1>8. \A i \in DOMAIN x.todo : /\ TodoOK(x.todo[i]) /\ x.todo[i].row \notin Locked(s)
                               /\ (tx[s].alone => Fits(s, x.todo[i]))
                               /\ (tx[s].todo # <<>> => x.todo[i].row # d.row)
  BY <1>2, <1>5, <1>6 DEF SessionOK, EachRowOnce
<1>9. CASE Vanished(d)
  <2>1. tx[s].todo # <<>> /\ x.done = tx[s].done /\ x.new = tx[s].new
    BY <1>3, <1>5, <1>9 DEF Vanished
  <2>2. Locked(s)' = Locked(s)
    BY <1>4, <2>1 DEF Locked
  <2>3. \A m : Seen(s, m)' = Seen(s, m)
    <3>1. tx'[s].done = tx[s].done
      BY <1>4, <2>1
    <3>2. SUFFICES ASSUME NEW m PROVE Seen(s, m)' = Seen(s, m)
      OBVIOUS
    <3>3. CASE m \in Locked(s)
      <4>1. PICK e \in tx[s].done : e.row = m
        BY <3>3 DEF Locked
      <4>2. \A f \in tx[s].done : f.row = m => f = e
        BY <1>2, <4>1 DEF SessionOK, EachRowOnce
      <4>3. (CHOOSE f \in tx'[s].done : f.row = m) = e
        BY <3>1, <4>1, <4>2
      <4>4. (CHOOSE f \in tx[s].done : f.row = m) = e
        BY <4>1, <4>2
      <4>5. Result(e)' = Result(e) /\ m \in Locked(s)'
        BY <1>7, <2>2, <3>3
      <4>6. Seen(s, m)' = Result(e)
        BY <4>3, <4>5 DEF Seen
      <4>7. Seen(s, m) = Result(e)
        BY <3>3, <4>4 DEF Seen
      <4>8. QED
        BY <4>6, <4>7
    <3>4. CASE m \notin Locked(s)
      BY <1>2, <2>2, <3>4 DEF Seen
    <3>5. QED
      BY <3>3, <3>4
  <2>4. \A e : Fits(s, e)' = Fits(s, e)
    <3>1. tx'[s].done = tx[s].done /\ tx'[s].new = tx[s].new
      BY <1>4, <2>1
    <3>2. \A topic : Adds(s, topic)' = Adds(s, topic)
      BY <1>2, <3>1 DEF Adds
    <3>3. QED
      BY <1>2, <1>7, <3>2 DEF Fits, Forgets
  <2>5. EachRowOnce(s)' /\ OneSeen(s)'
    BY <1>2, <1>4, <1>6, <1>8, <2>1, <2>2, <2>3 DEF EachRowOnce, OneSeen, SessionOK
  <2>6. SessionOK(s)'
    BY <1>1, <1>2, <1>3, <1>4, <1>6, <1>7, <1>8, <2>1, <2>4, <2>5 DEF SessionOK
  <2>7. \A t \in Sessions \ {s} : Locked(t)' = Locked(t) /\ \A m : Seen(t, m)' = Seen(t, m)
    BY <1>2, <1>4, Unmoved DEF IInv
  <2>8. \A t \in Sessions \ {s} : Apart(s, t)'
    BY <2>2, <2>3, <2>7 DEF IInv, Apart
  <2>9. QED
    BY <1>2, <2>6, <2>8, OneMoves
<1>10. CASE ~Vanished(d)
  <2>1. x.done = tx[s].done \cup {d}
    BY <1>3, <1>10
  <2>2. /\ Locked(s)' = Locked(s) \cup {d.row}
        /\ \A e, f \in x.done : e.row = f.row => e = f
    BY <1>2, <1>4, <1>5, <2>1, SeenAfterFlush
  <2>3. OneSeen(s)' /\ \A t \in Sessions \ {s} : Apart(s, t)'
    BY <1>1, <1>2, <1>4, <1>10, <2>1, FlushKeepsKeys
  <2>4. EachRowOnce(s)'
    <3>1. \A i \in DOMAIN x.todo : x.todo[i].row # d.row
      BY <1>8, <1>3, ShortPlans
    <3>2. QED
      BY <1>4, <1>6, <1>8, <2>2, <3>1 DEF EachRowOnce
  <2>5. /\ DoneOK(d) /\ (tx[s].alone => KeepsAccurate(d))
        /\ \A topic : Adds(s, topic)' => Adds(s, topic)
        /\ tx[s].alone => Fits(s, d)
    <3>1. CASE tx[s].todo # <<>>
      <4>1. DoneOK(d) /\ (tx[s].alone => Fits(s, d))
        BY <1>2, <1>5, <1>10, <3>1 DEF SessionOK, DoneOK, TodoOK, IInv, Exists, Vanished, Rows, NoRows
      <4>2. x.new = tx[s].new /\ memories[d.row].state # "unused"
        BY <1>3, <1>5, <3>1 DEF TodoOK
      <4>3. \A topic : Adds(s, topic)' => Adds(s, topic)
        BY <1>2, <1>4, <2>1, <4>2 DEF Adds
      <4>4. QED
        BY <4>1, <4>3 DEF Fits
    <3>2. CASE tx[s].todo = <<>>
      <4>1. memories[d.row].state = "unused"
        BY <1>5, <3>2
      <4>2. PICK fact \in tx[s].new : d = Insertion(d.row, fact)
        BY <1>5, <3>2
      <4>3. fact \in Facts
        BY <1>2 DEF SessionOK
      <4>4. d.set["topic"] = fact.topic /\ AccurateRow(Result(d)) /\ ~Forgets(d)
        BY <4>1, <4>2, <4>3, Inserted
      <4>5. DoneOK(d)
        BY <1>5, <4>1, <4>2, <4>3 DEF DoneOK
      <4>6. x.new = {}
        BY <1>3, <3>2
      <4>7. \A topic : Adds(s, topic)' => Adds(s, topic)
        BY <1>2, <1>4, <2>1, <4>4, <4>6 DEF Adds
      <4>8. QED
        BY <4>4, <4>5, <4>7 DEF KeepsAccurate, Fits
    <3>3. QED
      BY <3>1, <3>2
  <2>6. \A e : Fits(s, e) => Fits(s, e)'
    BY <1>2, <1>7, <2>5 DEF Fits, Forgets
  <2>7. SessionOK(s)'
    <3>1. x.new \subseteq Facts
      BY <1>2, <1>3 DEF SessionOK
    <3>2. \A e \in x.done : DoneOK(e) /\ (tx[s].alone => Fits(s, e))
      BY <1>2, <2>1, <2>5 DEF SessionOK
    <3>3. QED
      BY <1>1, <1>2, <1>3, <1>4, <1>6, <1>7, <1>8, <2>3, <2>4, <2>6, <3>1, <3>2 DEF SessionOK
  <2>8. QED
    BY <1>2, <2>3, <2>7, OneMoves
<1>11. QED
  BY <1>9, <1>10

-----------------------------------------------------------------------------
(* Committing *)

\* What a flushed statement leaves: a row, or nothing; an active one only of an
\* active or a new one.
LEMMA ResultOfDone ==
    ASSUME IInv, NEW d, DoneOK(d)
    PROVE  /\ Result(d) \in Rows \cup {Deleted}
           /\ memories[d.row].state = "forgotten" => Result(d).state \in {"forgotten", "deleted"}
           /\ memories[d.row].state # "deleted"
           /\ Active(d.row) /\ Result(d).state = "forgotten" => Forgets(d)
<1>1. memories[d.row] \in Rows \cup NoRows /\ Deleted.state = "deleted"
  BY DEF IInv, DoneOK, Deleted
<1>2. CASE memories[d.row].state = "unused"
  <2>1. PICK fact \in Facts : d = Insertion(d.row, fact)
    BY <1>2 DEF DoneOK, Exists
  <2>2. Result(d) = Fresh(fact.topic, fact.text)
    BY <1>2, <2>1, Inserted
  <2>3. Fresh(fact.topic, fact.text) \in Rows
    BY DEF Fresh, Rows, Facts
  <2>4. QED
    BY <1>2, <2>2, <2>3 DEF Active
<1>3. CASE memories[d.row].state # "unused"
  <2>1. Exists(d.row) /\ IsSet(d.set) /\ RevivesNothing(d)
    BY <1>3 DEF DoneOK, RevivesNothing
  <2>2. memories[d.row] \in Rows
    BY <1>1, <2>1 DEF Exists, NoRows
  <2>3. CASE d.set = Deleted
    <3>1. Result(d) = Deleted
      BY <2>3 DEF Result
    <3>2. QED
      BY <1>1, <2>1, <3>1 DEF Exists
  <2>4. CASE d.set # Deleted
    <3>1. /\ Column(d, "state") \in {"active", "forgotten"} /\ Column(d, "topic") \in Topics
          /\ Column(d, "text") \in Texts /\ Column(d, "embedding") \in Facts
          /\ Column(d, "access_count") \in Nat
      BY <2>1, <2>2, <2>4 DEF Column, IsSet, Rows, Facts
    <3>2. memories[d.row].touches + (IF IsTouch(d) THEN 1 ELSE 0) \in Nat
      BY <2>2 DEF Rows
    <3>3. Result(d) = [state |-> Column(d, "state"), topic |-> Column(d, "topic"),
                       text |-> Column(d, "text"), embedding |-> Column(d, "embedding"),
                       access_count |-> Column(d, "access_count"),
                       touches |-> memories[d.row].touches + IF IsTouch(d) THEN 1 ELSE 0]
      BY <1>3, <2>4 DEF Result
    <3>4. Result(d) \in Rows /\ Result(d).state = Column(d, "state")
      BY <3>1, <3>2, <3>3 DEF Rows, Facts
    <3>5. memories[d.row].state = "forgotten" => Column(d, "state") = "forgotten"
      BY <2>1, <3>1 DEF Column, RevivesNothing
    <3>6. Active(d.row) /\ Column(d, "state") = "forgotten" => Forgets(d)
      BY DEF Active, Column, Forgets
    <3>7. QED
      BY <2>1, <3>4, <3>5, <3>6 DEF Exists
  <2>5. QED
    BY <2>3, <2>4
<1>4. QED
  BY <1>2, <1>3

\* What s commits.
LEMMA Committed ==
    ASSUME IInv, NEW s \in Sessions, Commit(s)
    PROVE  /\ SessionOK(s) /\ Locked(s) \subseteq Ids
           /\ \A m \in Ids : memories'[m] = Seen(s, m)
           /\ \A m \in Ids : m \notin Locked(s) => memories'[m] = memories[m]
           /\ \A m \in Locked(s) : \E d \in tx[s].done :
                d.row = m /\ DoneOK(d) /\ memories'[m] = Result(d)
           /\ memories' \in [Ids -> Rows \cup NoRows]
           /\ \A m \in Ids : memories[m].state # "unused" => memories'[m].state # "unused"
<1>1. SessionOK(s) /\ EachRowOnce(s) /\ \A m \in Ids : memories'[m] = Seen(s, m)
  BY DEF IInv, SessionOK, Commit
<1>2. \A m \in Ids : m \notin Locked(s) => memories'[m] = memories[m]
  BY <1>1, WhatIsSeen
<1>3. Locked(s) \subseteq Ids
  BY <1>1 DEF Locked, SessionOK, DoneOK
<1>4. ASSUME NEW m \in Locked(s)
      PROVE  \E d \in tx[s].done : d.row = m /\ DoneOK(d) /\ memories'[m] = Result(d)
  <2>1. PICK d \in tx[s].done : d.row = m
    BY DEF Locked
  <2>2. DoneOK(d) /\ Seen(s, m) = Result(d)
    BY <1>1, <2>1, WhatIsSeen DEF SessionOK
  <2>3. QED
    BY <1>1, <1>3, <2>1, <2>2
<1>5. \A m \in Locked(s) : memories'[m] \in Rows \cup {Deleted}
  BY <1>4, ResultOfDone
<1>6. Deleted \in NoRows /\ Deleted.state # "unused" /\ \A row \in Rows : row.state # "unused"
  BY DEF Deleted, NoRows, Rows
<1>7. \A m \in Ids : memories'[m] \in Rows \cup NoRows
  BY <1>2, <1>5, <1>6 DEF IInv
<1>8. memories' \in [Ids -> Rows \cup NoRows]
  BY <1>7 DEF Commit
<1>9. \A m \in Ids : memories[m].state # "unused" => memories'[m].state # "unused"
  BY <1>2, <1>5, <1>6
<1>10. QED
  BY <1>1, <1>2, <1>3, <1>4, <1>8, <1>9

\* A session that goes on while s commits keeps what it has changed, and sees what
\* s has.
LEMMA CommitSeenByOthers ==
    ASSUME IInv, NEW s \in Sessions, Commit(s), NEW t \in Sessions \ {s}, tx[t].pc = "working"
    PROVE  /\ tx'[t].done = tx[t].done /\ tx'[t].todo = tx[t].todo /\ tx'[t].new = tx[t].new
           /\ tx'[t].pc = tx[t].pc /\ tx'[t].alone = FALSE /\ DOMAIN tx'[t] = DOMAIN tx[t]
           /\ Locked(t)' = Locked(t)
           /\ \A m \in Locked(t) : Seen(t, m)' = Seen(t, m)
           /\ \A m \in Ids \ Locked(t) : Seen(t, m)' = Seen(s, m)
           /\ \A d \in tx[t].done : DoneOK(d)'
<1>1. SessionOK(t) /\ EachRowOnce(t) /\ Locked(t) \cap Locked(s) = {}
  BY DEF IInv, SessionOK, Apart
<1>2. /\ \A m \in Ids : memories'[m] = Seen(s, m)
      /\ \A m \in Ids : m \notin Locked(s) => memories'[m] = memories[m]
  BY Committed
<1>3. tx'[t] = [tx[t] EXCEPT !.alone = FALSE]
  BY DEF Commit
<1>4. /\ tx'[t].done = tx[t].done /\ tx'[t].todo = tx[t].todo /\ tx'[t].new = tx[t].new
      /\ tx'[t].pc = tx[t].pc /\ tx'[t].alone = FALSE /\ DOMAIN tx'[t] = DOMAIN tx[t]
  BY <1>1, <1>3 DEF SessionOK
<1>5. Locked(t)' = Locked(t)
  BY <1>4 DEF Locked
<1>6. \A m \in Ids \ Locked(t) : Seen(t, m)' = Seen(s, m)
  BY <1>2, <1>5 DEF Seen
<1>7. ASSUME NEW d \in tx[t].done
      PROVE  memories'[d.row] = memories[d.row] /\ Result(d)' = Result(d) /\ DoneOK(d)'
  <2>1. d.row \in Locked(t) /\ DoneOK(d) /\ d.row \in Ids
    BY <1>1 DEF Locked, SessionOK, DoneOK
  <2>2. memories'[d.row] = memories[d.row]
    BY <1>1, <1>2, <2>1
  <2>3. QED
    BY <2>1, <2>2 DEF Result, Column, DoneOK, Exists
<1>8. ASSUME NEW m \in Locked(t) PROVE Seen(t, m)' = Seen(t, m)
  <2>1. PICK d \in tx[t].done : d.row = m
    BY DEF Locked
  <2>2. Seen(t, m) = Result(d)
    BY <1>1, <2>1, WhatIsSeen
  <2>3. \A e \in tx[t].done : e.row = m => e = d
    BY <1>1, <2>1 DEF EachRowOnce
  <2>4. (CHOOSE e \in tx'[t].done : e.row = m) = d
    BY <1>4, <2>1, <2>3
  <2>5. Result(d)' = Result(d) /\ m \in Locked(t)'
    BY <1>5, <1>7
  <2>6. Seen(t, m)' = Result(d)
    BY <2>4, <2>5 DEF Seen
  <2>7. QED
    BY <2>2, <2>6
<1>9. QED
  BY <1>4, <1>5, <1>6, <1>7, <1>8

\* A session without an operation, when the table keeps to the index.
LEMMA IdleOK ==
    ASSUME NEW s, tx'[s] = Idle, OneActivePerKey'
    PROVE  SessionOK(s)' /\ Locked(s)' = {}
<1>1. /\ Idle.pc = "idle" /\ Idle.todo = <<>> /\ Idle.new = {} /\ Idle.done = {}
      /\ Idle.alone = TRUE /\ DOMAIN Idle = {"pc", "todo", "new", "done", "alone"}
  BY DEF Idle
<1>2. Locked(s)' = {} /\ \A m : Seen(s, m)' = memories'[m]
  BY <1>1 DEF Locked, Seen
<1>3. EachRowOnce(s)' /\ OneSeen(s)'
  BY <1>1, <1>2, ShortPlans DEF EachRowOnce, OneSeen, OneActivePerKey, Active
<1>4. SessionOK(s)'
  BY <1>1, <1>3, ShortPlans DEF SessionOK
<1>5. QED
  BY <1>2, <1>4

LEMMA CommitOK ==
    ASSUME IInv, NEW s \in Sessions, Commit(s)
    PROVE  IInv'
<1>1. /\ SessionOK(s) /\ OneSeen(s) /\ Locked(s) \subseteq Ids
      /\ \A m \in Ids : memories'[m] = Seen(s, m)
      /\ memories' \in [Ids -> Rows \cup NoRows]
      /\ \A m \in Ids : memories[m].state # "unused" => memories'[m].state # "unused"
  BY Committed DEF SessionOK
<1>2. OneActivePerKey'
  BY <1>1 DEF OneActivePerKey, Active, OneSeen
<1>3. ASSUME NEW t \in Sessions, t = s \/ tx[t].pc = "idle"
      PROVE  SessionOK(t)' /\ Locked(t)' = {}
  <2>1. tx'[t] = Idle
    BY <1>3 DEF Commit
  <2>2. QED
    BY <1>2, <2>1, IdleOK
<1>4. ASSUME NEW t \in Sessions \ {s}, tx[t].pc = "working"
      PROVE  SessionOK(t)'
  <2>1. SessionOK(t) /\ OneSeen(t) /\ EachRowOnce(t) /\ Apart(s, t) /\ Locked(t) \subseteq Ids
    BY DEF IInv, SessionOK, Locked, DoneOK
  <2>2. /\ tx'[t].done = tx[t].done /\ tx'[t].todo = tx[t].todo /\ tx'[t].new = tx[t].new
        /\ tx'[t].pc = tx[t].pc /\ tx'[t].alone = FALSE /\ DOMAIN tx'[t] = DOMAIN tx[t]
        /\ Locked(t)' = Locked(t)
        /\ \A m \in Locked(t) : Seen(t, m)' = Seen(t, m)
        /\ \A m \in Ids \ Locked(t) : Seen(t, m)' = Seen(s, m)
        /\ \A d \in tx[t].done : DoneOK(d)'
    BY <1>4, CommitSeenByOthers
  <2>3. \A d : TodoOK(d) => TodoOK(d)'
    BY <1>1 DEF TodoOK
  <2>4. EachRowOnce(t)'
    BY <2>1, <2>2 DEF EachRowOnce
  <2>5. OneSeen(t)'
    <3>1. SUFFICES ASSUME NEW m \in Ids, NEW n \in Ids,
                          Seen(t, m)'.state = "active", Seen(t, n)'.state = "active",
                          Seen(t, m)'.topic = Seen(t, n)'.topic
                   PROVE  m = n
      BY DEF OneSeen
    <3>2. \A k \in Ids : k \notin Locked(s) /\ k \notin Locked(t) => Seen(s, k) = Seen(t, k)
      BY <1>1, <2>1, WhatIsSeen DEF SessionOK
    <3>3. CASE m \in Locked(t) /\ n \in Locked(t)
      BY <2>1, <2>2, <3>1, <3>3 DEF OneSeen
    <3>4. CASE m \notin Locked(t) /\ n \notin Locked(t)
      BY <1>1, <2>2, <3>1, <3>4 DEF OneSeen
    <3>5. CASE m \in Locked(t) /\ n \notin Locked(t)
      <4>1. CASE n \in Locked(s)
        BY <2>1, <2>2, <3>1, <3>5, <4>1 DEF Apart
      <4>2. CASE n \notin Locked(s)
        BY <2>1, <2>2, <3>1, <3>2, <3>5, <4>2 DEF OneSeen
      <4>3. QED
        BY <4>1, <4>2
    <3>6. CASE m \notin Locked(t) /\ n \in Locked(t)
      <4>1. CASE m \in Locked(s)
        BY <2>1, <2>2, <3>1, <3>6, <4>1 DEF Apart
      <4>2. CASE m \notin Locked(s)
        BY <2>1, <2>2, <3>1, <3>2, <3>6, <4>2 DEF OneSeen
      <4>3. QED
        BY <4>1, <4>2
    <3>7. QED
      BY <3>3, <3>4, <3>5, <3>6
  <2>6. tx'[t].pc = "working" /\ tx'[t].new \subseteq Facts /\ IsPlan(tx'[t].todo)
    BY <1>4, <2>1, <2>2 DEF SessionOK
  <2>7. (\A i \in DOMAIN tx[t].todo : TodoOK(tx[t].todo[i]))'
    BY <2>1, <2>2, <2>3 DEF SessionOK
  <2>8. QED
    BY <2>1, <2>2, <2>4, <2>5, <2>6, <2>7 DEF SessionOK
<1>5. \A t \in Sessions : t # s /\ tx[t].pc # "idle" => tx[t].pc = "working"
  BY DEF IInv, SessionOK
<1>6. \A t \in Sessions : SessionOK(t)'
  BY <1>3, <1>4, <1>5
<1>7. ASSUME NEW t \in Sessions, NEW u \in Sessions, t # u PROVE Apart(t, u)'
  <2>1. Apart(t, u)
    BY <1>7 DEF IInv
  <2>2. CASE Locked(t)' = {} \/ Locked(u)' = {}
    BY <2>2 DEF Apart
  <2>3. CASE t # s /\ u # s /\ tx[t].pc = "working" /\ tx[u].pc = "working"
    <3>1. /\ Locked(t)' = Locked(t) /\ Locked(u)' = Locked(u)
          /\ \A m \in Locked(t) : Seen(t, m)' = Seen(t, m)
          /\ \A m \in Locked(u) : Seen(u, m)' = Seen(u, m)
      BY <2>3, CommitSeenByOthers
    <3>2. QED
      BY <2>1, <3>1 DEF Apart
  <2>4. QED
    BY <1>3, <1>5, <2>2, <2>3
<1>8. tx' = [t \in Sessions |-> tx'[t]]
  BY DEF Commit
<1>9. QED
  BY <1>1, <1>2, <1>6, <1>7, <1>8 DEF IInv

-----------------------------------------------------------------------------
(* The invariant *)

LEMMA InitOK == Init => IInv
<1> SUFFICES ASSUME Init PROVE IInv
  OBVIOUS
<1>1. /\ \A m \in Ids : memories[m].state = "unused"
      /\ memories \in [Ids -> Rows \cup NoRows]
      /\ tx = [s \in Sessions |-> tx[s]] /\ \A s \in Sessions : tx[s] = Idle
  BY DEF Init, NoRows
<1>2. /\ Idle.pc = "idle" /\ Idle.todo = <<>> /\ Idle.new = {} /\ Idle.done = {}
      /\ Idle.alone = TRUE /\ DOMAIN Idle = {"pc", "todo", "new", "done", "alone"}
  BY DEF Idle
<1>3. ASSUME NEW s \in Sessions
      PROVE  SessionOK(s) /\ Locked(s) = {}
  <2>1. Locked(s) = {} /\ \A m : Seen(s, m) = memories[m]
    BY <1>1, <1>2, NothingSeen
  <2>2. EachRowOnce(s) /\ OneSeen(s)
    BY <1>1, <1>2, <2>1, ShortPlans DEF EachRowOnce, OneSeen
  <2>3. QED
    BY <1>1, <1>2, <2>1, <2>2, ShortPlans DEF SessionOK
<1>4. OneActivePerKey /\ \A s, t \in Sessions : Apart(s, t)
  BY <1>1, <1>3 DEF OneActivePerKey, Active, Apart
<1>5. QED
  BY <1>1, <1>3, <1>4 DEF IInv

LEMMA RequestOK ==
    ASSUME IInv, NEW s \in Sessions, Request(s)
    PROVE  IInv'
BY AddOK, UpdateOK, TouchOK, ForgetOK, DeleteOK, SearchOK DEF Request

LEMMA StepOK == IInv /\ [Next]_vars => IInv'
<1> SUFFICES ASSUME IInv, [Next]_vars PROVE IInv'
  OBVIOUS
<1>1. ASSUME NEW s \in Sessions, Request(s) PROVE IInv'
  BY <1>1, RequestOK
<1>2. ASSUME NEW s \in Sessions, Flush(s) PROVE IInv'
  BY <1>2, FlushOK
<1>3. ASSUME NEW s \in Sessions, Commit(s) PROVE IInv'
  BY <1>3, CommitOK
<1>4. ASSUME NEW s \in Sessions, Refuse(s) \/ Fail(s) PROVE IInv'
  BY <1>4, RollBackOK DEF Refuse, Fail
<1>5. CASE UNCHANGED vars
  <2>1. memories' = memories /\ tx' = tx
    BY <1>5 DEF vars
  <2>2. \A s \in Sessions :
          SessionOK(s)' /\ Locked(s)' = Locked(s) /\ \A m : Seen(s, m)' = Seen(s, m)
    BY <2>1, Unmoved DEF IInv
  <2>3. \A s, t \in Sessions : s # t => Apart(s, t)'
    BY <2>2 DEF IInv, Apart
  <2>4. OneActivePerKey'
    BY <2>1 DEF IInv, OneActivePerKey, Active
  <2>5. QED
    BY <2>1, <2>2, <2>3, <2>4 DEF IInv
<1>6. QED
  BY <1>1, <1>2, <1>3, <1>4, <1>5 DEF Next

LEMMA Invariant == Spec => []IInv
BY InitOK, StepOK, PTL DEF Spec

\* Only a commit changes the table.
LEMMA OnlyCommits ==
    ASSUME [Next]_vars
    PROVE  memories' = memories \/ \E s \in Sessions : Commit(s)
<1>1. ASSUME NEW s \in Sessions, Request(s) PROVE memories' = memories
  <2>1. ASSUME NEW plan, NEW new, Begin(s, plan, new) PROVE memories' = memories
    BY <2>1 DEF Begin
  <2>2. ASSUME NEW t, NEW x, Add(s, t, x) PROVE memories' = memories
    BY <2>1, <2>2 DEF Add
  <2>3. ASSUME NEW m, NEW t, NEW x, Update(s, m, t, x) PROVE memories' = memories
    BY <2>1, <2>3 DEF Update, Plan
  <2>4. ASSUME NEW m, Reinforce(s, m) \/ Get(s, m) \/ Forget(s, m) \/ Delete(s, m)
        PROVE  memories' = memories
    BY <2>1, <2>4 DEF Reinforce, Get, Forget, Delete, Plan
  <2>5. ASSUME Search(s) PROVE memories' = memories
    BY <2>1, <2>5 DEF Search, Plan
  <2>6. QED
    BY <1>1, <2>2, <2>3, <2>4, <2>5 DEF Request
<1>2. ASSUME NEW s \in Sessions, Flush(s) \/ Refuse(s) \/ Fail(s) PROVE memories' = memories
  BY <1>2 DEF Flush, Refuse, Fail, RollBack
<1>3. QED
  BY <1>1, <1>2 DEF Next, vars

-----------------------------------------------------------------------------

\* Rows and statements are what the columns allow, for any ids and any overlap.
THEOREM TypeCorrect == Spec => []TypeOK
<1>1. IInv => TypeOK
  <2> SUFFICES ASSUME IInv PROVE TypeOK
    OBVIOUS
  <2>1. Deleted.state = "deleted" /\ DOMAIN Deleted \subseteq Columns
    BY DEF Deleted, Columns
  <2>2. \A d : TodoOK(d) => IsStatement(d)
    BY <2>1 DEF TodoOK, RevivesNothing, IsSet, IsStatement
  <2>3. ASSUME NEW d, DoneOK(d) PROVE IsStatement(d)
    <3>1. CASE memories[d.row].state = "unused"
      BY <2>3, <3>1, Inserted DEF DoneOK, Exists, IsStatement
    <3>2. CASE memories[d.row].state # "unused"
      BY <2>1, <2>3, <3>2 DEF DoneOK, RevivesNothing, IsSet, IsStatement
    <3>3. QED
      BY <3>1, <3>2
  <2>4. QED
    BY <2>2, <2>3 DEF IInv, SessionOK, TypeOK, Facts
<1>2. QED
  BY <1>1, Invariant, PTL

\* "can only have one active memory": under each key, for any number of sessions
\* that add to it, change topics into it or out of it, and wait for one another.
THEOREM OneActive == Spec => []OneActivePerKey
<1>1. IInv => OneActivePerKey
  BY DEF IInv
<1>2. QED
  BY <1>1, Invariant, PTL

\* A forgotten fact stays forgotten, and a deleted one deleted, whatever was loaded
\* before that.
THEOREM ForgettingIsFinal == Spec => ForgottenStaysForgotten
<1> DEFINE A == \A m \in Ids :
                  /\ memories[m].state = "forgotten" => memories'[m].state \in {"forgotten", "deleted"}
                  /\ memories[m].state = "deleted" => memories'[m].state = "deleted"
<1>1. IInv /\ [Next]_vars => [A]_vars
  <2> SUFFICES ASSUME IInv, [Next]_vars PROVE A
    OBVIOUS
  <2>1. CASE memories' = memories
    BY <2>1
  <2>2. ASSUME NEW s \in Sessions, Commit(s) PROVE A
    <3>1. ASSUME NEW m \in Locked(s), m \in Ids
          PROVE  /\ memories[m].state = "forgotten" => memories'[m].state \in {"forgotten", "deleted"}
                 /\ memories[m].state # "deleted"
      BY <2>2, <3>1, Committed, ResultOfDone
    <3>2. \A m \in Ids : m \notin Locked(s) => memories'[m] = memories[m]
      BY <2>2, Committed
    <3>3. QED
      BY <3>1, <3>2
  <2>3. QED
    BY <2>1, <2>2, OnlyCommits
<1>2. QED
  BY <1>1, Invariant, PTL DEF Spec, ForgottenStaysForgotten

\* An addition forgets another topic's fact only if it commits over another session.
THEOREM AdditionForgetsItsOwn == Spec => OtherFactForgottenOnlyByOverlap
<1> DEFINE A == \A s \in Sessions, m, n \in Ids :
                  /\ m \in Locked(s) /\ n \in Locked(s) /\ memories[n].state = "unused"
                  /\ Active(m) /\ memories'[m].state = "forgotten" /\ memories'[n].state = "active"
                  /\ memories'[n].topic # memories[m].topic
                  => Overtaken(s)
<1>1. IInv /\ [Next]_vars => [A]_vars
  <2> SUFFICES ASSUME IInv, [Next]_vars, NEW s \in Sessions, NEW m \in Ids, NEW n \in Ids,
                      m \in Locked(s), n \in Locked(s), memories[n].state = "unused",
                      Active(m), memories'[m].state = "forgotten", memories'[n].state = "active",
                      memories'[n].topic # memories[m].topic
               PROVE  Overtaken(s)
    OBVIOUS
  <2>1. memories' # memories /\ memories'[m] # memories[m]
    BY DEF Active
  <2>2. PICK t \in Sessions : Commit(t)
    BY <2>1, OnlyCommits
  <2>3. t = s
    <3>1. m \in Locked(t)
      BY <2>1, <2>2, Committed
    <3>2. QED
      BY <3>1 DEF IInv, Apart
  <2>4. tx[s].pc = "working" /\ tx'[s] = Idle /\ SessionOK(s)
    BY <2>2, <2>3 DEF Commit, IInv
  <2>5. PICK d \in tx[s].done : d.row = m /\ DoneOK(d) /\ memories'[m] = Result(d)
    BY <2>2, <2>3, Committed
  <2>6. PICK e \in tx[s].done : e.row = n /\ DoneOK(e) /\ memories'[n] = Result(e)
    BY <2>2, <2>3, Committed
  <2>7. Forgets(d)
    BY <2>5, ResultOfDone
  <2>8. PICK fact \in Facts : e = Insertion(n, fact)
    BY <2>6 DEF DoneOK, Exists
  <2>9. e.set["topic"] = fact.topic /\ Result(e) = Fresh(fact.topic, fact.text)
    BY <2>6, <2>8, Inserted
  <2>10. Adds(s, fact.topic) /\ memories'[n].topic = fact.topic
    BY <2>6, <2>9 DEF Adds, Fresh
  <2>11. ~tx[s].alone
    BY <2>4, <2>5, <2>7, <2>10 DEF SessionOK, Fits
  <2>12. QED
    BY <2>1, <2>4, <2>11 DEF Overtaken
<1>2. QED
  BY <1>1, Invariant, PTL DEF Spec, OtherFactForgottenOnlyByOverlap

\* A row stops saying what its vector says, or loses an access, only by a session
\* that commits over another.
THEOREM InaccuracyNeedsOverlap == Spec => InaccurateOnlyByOverlap
<1> DEFINE A == \A m \in Ids : Accurate(m) /\ ~Accurate(m)' => \E s \in Sessions : Overtaken(s)
<1>1. IInv /\ [Next]_vars => [A]_vars
  <2> SUFFICES ASSUME IInv, [Next]_vars, NEW m \in Ids, Accurate(m), ~Accurate(m)'
               PROVE  \E s \in Sessions : Overtaken(s)
    OBVIOUS
  <2>1. memories' # memories /\ memories'[m] # memories[m]
    BY DEF Accurate, Exists
  <2>2. PICK s \in Sessions : Commit(s)
    BY <2>1, OnlyCommits
  <2>3. tx[s].pc = "working" /\ tx'[s] = Idle /\ SessionOK(s)
    BY <2>2 DEF Commit, IInv
  <2>4. m \in Locked(s)
    BY <2>1, <2>2, Committed
  <2>5. PICK d \in tx[s].done : d.row = m /\ DoneOK(d) /\ memories'[m] = Result(d)
    BY <2>2, <2>4, Committed
  <2>6. ~KeepsAccurate(d)
    BY <2>5 DEF KeepsAccurate, AccurateRow, Accurate, Exists
  <2>7. ~tx[s].alone
    BY <2>3, <2>5, <2>6 DEF SessionOK, Fits
  <2>8. QED
    BY <2>1, <2>3, <2>7 DEF Overtaken
<1>2. QED
  BY <1>1, Invariant, PTL DEF Spec, InaccurateOnlyByOverlap
-----------------------------------------------------------------------------
(* Operations that nobody overtakes *)

Becomes(d, state, topic, text, recalled) ==
    FactOf(Result(d)) = [state |-> state, topic |-> topic, text |-> text, recalled |-> recalled]

\* What a statement makes of the committed fact.
Retires(d) ==
    LET row == memories[d.row]
    IN  Active(d.row) /\ Becomes(d, "forgotten", row.topic, row.text, row.access_count)
Revises(d, topic, text) ==
    Active(d.row) /\ Becomes(d, "active", topic, text, memories[d.row].access_count)
Counts(d) ==
    LET row == memories[d.row]
    IN  Exists(d.row) /\ Becomes(d, row.state, row.topic, row.text, row.access_count + 1)
Removes(d) == Exists(d.row) /\ FactOf(Result(d)) = [state |-> "deleted"]

Current(topic) == {m \in Ids : Active(m) /\ memories[m].topic = topic}
Inserts(d, topic, text) ==
    memories[d.row].state = "unused" /\ d = Insertion(d.row, [topic |-> topic, text |-> text])

\* The statements D, with the facts still to be inserted, are one operation.
Learning(D, new, topic, text) ==
    \E updates \in SUBSET D :
        /\ {d.row : d \in updates} = Current(topic) /\ \A d \in updates : Retires(d)
        /\ \/ D = updates /\ new = {[topic |-> topic, text |-> text]}
           \/ \E d \in D : D = updates \cup {d} /\ Inserts(d, topic, text) /\ new = {}
Recalling(D) ==
    \A d \in D : Counts(d) /\ (Active(d.row) \/ \A e \in D : e = d)

IsOperation(D, new) ==
    \/ \E topic \in Topics, text \in Texts : Learning(D, new, topic, text)
    \/ /\ new = {}
       /\ \/ Recalling(D)
          \/ \E d \in D : /\ \A e \in D : e = d
                          /\ \/ Retires(d) \/ Removes(d)
                             \/ \E topic \in Topics, text \in Texts : Revises(d, topic, text)

Planned(s) == tx[s].done \cup {tx[s].todo[i] : i \in DOMAIN tx[s].todo}

WholeUntilOvertaken ==
    \A s \in Sessions : tx[s].pc = "working" /\ tx[s].alone =>
        /\ \A i \in DOMAIN tx[s].todo : memories[tx[s].todo[i].row].state # "deleted"
        /\ IsOperation(Planned(s), tx[s].new)

LEMMA SameOperation ==
    ASSUME memories' = memories
    PROVE  \A D, new : IsOperation(D, new) => IsOperation(D, new)'
<1>1. \A d : FactOf(Result(d))' = FactOf(Result(d))
  BY DEF Result, Column, FactOf
<1>2. \A d : (Retires(d) => Retires(d)') /\ (Removes(d) => Removes(d)') /\ (Counts(d) => Counts(d)')
  BY <1>1 DEF Retires, Removes, Counts, Becomes, Active, Exists
<1>3. \A d, topic, text : /\ Revises(d, topic, text) => Revises(d, topic, text)'
                          /\ Inserts(d, topic, text) => Inserts(d, topic, text)'
  BY <1>1 DEF Revises, Inserts, Becomes, Active
<1>4. \A topic : Current(topic)' = Current(topic)
  BY DEF Current, Active
<1>5. \A D, new, topic, text : Learning(D, new, topic, text) => Learning(D, new, topic, text)'
  BY <1>2, <1>3, <1>4 DEF Learning
<1>6. \A D : Recalling(D) => Recalling(D)'
  BY <1>2 DEF Recalling, Active
<1>7. QED
  BY <1>2, <1>3, <1>5, <1>6 DEF IsOperation

\* A step of s that commits nothing, and leaves s with one operation.
LEMMA OneMovesWhole ==
    ASSUME IInv, WholeUntilOvertaken, memories' = memories, NEW s \in Sessions,
           \A t \in Sessions \ {s} : tx'[t] = tx[t],
           tx'[s].pc = "working" /\ tx'[s].alone =>
             /\ \A i \in DOMAIN tx'[s].todo : memories[tx'[s].todo[i].row].state # "deleted"
             /\ IsOperation(Planned(s)', tx'[s].new)
    PROVE  WholeUntilOvertaken'
<1> SUFFICES ASSUME NEW t \in Sessions, tx'[t].pc = "working", tx'[t].alone
             PROVE  /\ \A i \in DOMAIN tx'[t].todo : memories'[tx'[t].todo[i].row].state # "deleted"
                    /\ IsOperation(Planned(t), tx[t].new)'
  BY DEF WholeUntilOvertaken
<1>1. /\ \A i \in DOMAIN tx'[t].todo : memories[tx'[t].todo[i].row].state # "deleted"
      /\ IsOperation(Planned(t)', tx'[t].new)
  <2>1. CASE t = s
    BY <2>1
  <2>2. CASE t # s
    <3>1. tx'[t] = tx[t] /\ Planned(t)' = Planned(t)
      BY <2>2 DEF Planned
    <3>2. QED
      BY <3>1 DEF WholeUntilOvertaken
  <2>3. QED
    BY <2>1, <2>2
<1>2. QED
  BY <1>1, SameOperation

LEMMA BeginWhole ==
    ASSUME IInv, WholeUntilOvertaken, NEW s \in Sessions, NEW plan, NEW new, Begin(s, plan, new),
           IsOperation({plan[i] : i \in DOMAIN plan}, new)
    PROVE  WholeUntilOvertaken'
<1> DEFINE x == [Idle EXCEPT !.pc = "working", !.todo = plan, !.new = new]
<1>1. /\ tx'[s] = x /\ memories' = memories /\ \A t \in Sessions \ {s} : tx'[t] = tx[t]
      /\ \A i \in DOMAIN plan : Exists(plan[i].row)
  BY DEF Begin, IInv
<1>2. x.todo = plan /\ x.new = new /\ x.done = {}
  BY DEF Idle
<1> HIDE DEF x
<1>3. Planned(s)' = {plan[i] : i \in DOMAIN plan} /\ tx'[s].new = new /\ tx'[s].todo = plan
  BY <1>1, <1>2 DEF Planned
<1>4. \A i \in DOMAIN plan : memories[plan[i].row].state # "deleted"
  BY <1>1 DEF Exists
<1>5. QED
  BY <1>1, <1>3, <1>4, OneMovesWhole

LEMMA OneStatementWhole ==
    ASSUME IInv, WholeUntilOvertaken, NEW s \in Sessions, NEW d, NEW new, Begin(s, <<d>>, new),
           IsOperation({d}, new)
    PROVE  WholeUntilOvertaken'
<1>1. {<<d>>[i] : i \in DOMAIN <<d>>} = {d}
  BY ShortPlans
<1>2. QED
  BY <1>1, BeginWhole

\* The UPDATE that assigns row tells the fact of row.
LEMMA TellsRow ==
    ASSUME NEW m \in Ids, memories[m] \in Rows, NEW row \in Rows, row.state # "active" \/ Active(m),
           NEW d, d.row = m,
           \/ d.set = [c \in {k \in Columns : row[k] # memories[m][k]} |-> row[c]]
           \/ d.set = [c \in {k \in Columns : row[k] # memories[m][k]} \cup {"embedding"} |-> row[c]]
    PROVE  Becomes(d, row.state, row.topic, row.text, row.access_count)
<1>1. Result(d) = [row EXCEPT !.touches = memories[m].touches + IF IsTouch(d) THEN 1 ELSE 0]
  BY Changes
<1>2. /\ Result(d).state = row.state /\ Result(d).topic = row.topic /\ Result(d).text = row.text
      /\ Result(d).access_count = row.access_count /\ row.state \in {"active", "forgotten"}
  BY <1>1 DEF Rows
<1>3. QED
  BY <1>2 DEF Becomes, FactOf

LEMMA RetiresRow ==
    ASSUME IInv, NEW m \in Ids, Active(m)
    PROVE  LET d == Change(m, [memories[m] EXCEPT !.state = "forgotten"])
           IN  Retires(d) /\ d.row = m
<1> DEFINE row == [memories[m] EXCEPT !.state = "forgotten"]
           d == Change(m, row)
<1>1. memories[m] \in Rows
  BY Existing DEF Exists, Active
<1>2. /\ row \in Rows /\ row.state = "forgotten" /\ row.topic = memories[m].topic
      /\ row.text = memories[m].text /\ row.access_count = memories[m].access_count
  BY <1>1 DEF Rows
<1>3. d.row = m /\ d.set = [c \in {k \in Columns : row[k] # memories[m][k]} |-> row[c]]
  BY DEF Change
<1> HIDE DEF row, d
<1>4. Becomes(d, "forgotten", memories[m].topic, memories[m].text, memories[m].access_count)
  BY <1>1, <1>2, <1>3, TellsRow
<1>5. Retires(d) /\ d.row = m
  BY <1>3, <1>4 DEF Retires
<1>6. QED
  BY <1>5 DEF d, row

LEMMA CountsRow ==
    ASSUME IInv, NEW m \in Ids, Exists(m)
    PROVE  LET d == Change(m, Touched(m)) IN Counts(d) /\ d.row = m
<1> DEFINE row == Touched(m)
           d == Change(m, row)
<1>1. memories[m] \in Rows
  BY Existing
<1>2. /\ row \in Rows /\ row.state = memories[m].state /\ row.topic = memories[m].topic
      /\ row.text = memories[m].text /\ row.access_count = memories[m].access_count + 1
  BY <1>1 DEF Rows, Touched
<1>3. d.row = m /\ d.set = [c \in {k \in Columns : row[k] # memories[m][k]} |-> row[c]]
  BY DEF Change
<1>4. row.state # "active" \/ Active(m)
  BY <1>2 DEF Active
<1> HIDE DEF row, d
<1>5. Becomes(d, memories[m].state, memories[m].topic, memories[m].text, memories[m].access_count + 1)
  BY <1>1, <1>2, <1>3, <1>4, TellsRow
<1>6. Counts(d) /\ d.row = m
  BY <1>3, <1>5 DEF Counts
<1>7. QED
  BY <1>6 DEF d, row

LEMMA AddWhole ==
    ASSUME IInv, WholeUntilOvertaken, NEW s \in Sessions, NEW topic \in Topics, NEW text \in Texts,
           Add(s, topic, text)
    PROVE  WholeUntilOvertaken'
<1> DEFINE new == {[topic |-> topic, text |-> text]}
<1>1. CASE Current(topic) = {}
  <2>1. Begin(s, <<>>, new)
    BY <1>1 DEF Add, Current
  <2>2. {<<>>[i] : i \in DOMAIN <<>>} = {}
    BY ShortPlans
  <2>3. Learning({}, new, topic, text)
    <3> DEFINE updates == {}
    <3>1. updates \in SUBSET {} /\ {d.row : d \in updates} = Current(topic)
          /\ \A d \in updates : Retires(d)
      BY <1>1
    <3>2. QED
      BY <3>1 DEF Learning
  <2>4. IsOperation({}, new)
    BY <2>3 DEF IsOperation
  <2> HIDE DEF new
  <2>5. QED
    BY <2>1, <2>2, <2>4, BeginWhole
<1>2. CASE Current(topic) # {}
  <2>1. PICK m \in Current(topic) :
          Begin(s, <<Change(m, [memories[m] EXCEPT !.state = "forgotten"])>>, new)
    BY <1>2 DEF Add, Current
  <2> DEFINE d == Change(m, [memories[m] EXCEPT !.state = "forgotten"])
  <2>2. m \in Ids /\ Active(m) /\ memories[m].topic = topic
    BY DEF Current
  <2>3. Current(topic) = {m}
    BY <2>2 DEF Current, IInv, OneActivePerKey
  <2>4. Retires(d) /\ d.row = m /\ Begin(s, <<d>>, new)
    BY <2>1, <2>2, RetiresRow
  <2> HIDE DEF d
  <2>5. Learning({d}, new, topic, text)
    <3> DEFINE updates == {d}
    <3>1. updates \in SUBSET {d} /\ {e.row : e \in updates} = Current(topic)
          /\ \A e \in updates : Retires(e)
      BY <2>3, <2>4
    <3>2. QED
      BY <3>1 DEF Learning
  <2>6. IsOperation({d}, new)
    BY <2>5 DEF IsOperation
  <2> HIDE DEF new
  <2>7. QED
    BY <2>4, <2>6, OneStatementWhole
<1>3. QED
  BY <1>1, <1>2

LEMMA UpdateWhole ==
    ASSUME IInv, WholeUntilOvertaken, NEW s \in Sessions, NEW m \in Ids,
           NEW topic \in Topics, NEW text \in Texts, Update(s, m, topic, text)
    PROVE  WholeUntilOvertaken'
<1> DEFINE none == {}
           vector == [topic |-> topic, text |-> text]
           row == [memories[m] EXCEPT !.topic = topic, !.text = text, !.embedding = vector]
           change == Change(m, row)
           d == [change EXCEPT !.set = [c \in DOMAIN @ \cup {"embedding"} |->
                   IF c = "embedding" THEN vector ELSE @[c]]]
<1>1. Active(m) /\ memories[m] \in Rows /\ Begin(s, <<d>>, none)
  BY Existing DEF Update, Exists, Active, Plan
<1>2. /\ row \in Rows /\ row.state = memories[m].state /\ row.topic = topic /\ row.text = text
      /\ row.access_count = memories[m].access_count /\ row["embedding"] = vector
  BY <1>1 DEF Rows
<1>3. change.row = m /\ change.set = [c \in {k \in Columns : row[k] # memories[m][k]} |-> row[c]]
  BY DEF Change
<1>4. d.row = m /\ d.set = [c \in DOMAIN change.set \cup {"embedding"} |->
                             IF c = "embedding" THEN vector ELSE change.set[c]]
  BY DEF Change
<1> HIDE DEF change, d
<1>5. d.set = [c \in {k \in Columns : row[k] # memories[m][k]} \cup {"embedding"} |-> row[c]]
  BY <1>2, <1>3, <1>4
<1> HIDE DEF row, none
<1>6. Becomes(d, "active", topic, text, memories[m].access_count)
  BY <1>1, <1>2, <1>4, <1>5, TellsRow DEF Active
<1>7. Revises(d, topic, text)
  BY <1>1, <1>4, <1>6 DEF Revises
<1>8. IsOperation({d}, none)
  BY <1>7 DEF IsOperation, none
<1>9. QED
  BY <1>1, <1>8, OneStatementWhole

LEMMA OthersWhole ==
    ASSUME IInv, WholeUntilOvertaken, NEW s \in Sessions, NEW m \in Ids,
           Reinforce(s, m) \/ Get(s, m) \/ Forget(s, m) \/ Delete(s, m)
    PROVE  WholeUntilOvertaken'
<1> DEFINE none == {}
<1>1. CASE Reinforce(s, m) \/ Get(s, m)
  <2> DEFINE d == Change(m, Touched(m))
  <2>1. Exists(m) /\ Begin(s, <<d>>, none)
    BY <1>1 DEF Reinforce, Get, Exists, Active, Plan
  <2>2. Counts(d)
    BY <2>1, CountsRow
  <2> HIDE DEF d
  <2>3. IsOperation({d}, none)
    BY <2>2 DEF IsOperation, Recalling
  <2> HIDE DEF none
  <2>4. QED
    BY <2>1, <2>3, OneStatementWhole
<1>2. CASE Forget(s, m)
  <2> DEFINE d == Change(m, [memories[m] EXCEPT !.state = "forgotten"])
  <2>1. Active(m) /\ Begin(s, <<d>>, none)
    BY <1>2 DEF Forget, Plan
  <2>2. Retires(d)
    BY <2>1, RetiresRow
  <2> HIDE DEF d
  <2>3. IsOperation({d}, none)
    BY <2>2 DEF IsOperation
  <2> HIDE DEF none
  <2>4. QED
    BY <2>1, <2>3, OneStatementWhole
<1>3. CASE Delete(s, m)
  <2> DEFINE d == [row |-> m, set |-> Deleted]
  <2>1. Exists(m) /\ Begin(s, <<d>>, none)
    BY <1>3 DEF Delete, Plan
  <2>2. Removes(d)
    BY <2>1 DEF Removes, Result, Deleted, FactOf
  <2> HIDE DEF d
  <2>3. IsOperation({d}, none)
    BY <2>2 DEF IsOperation
  <2> HIDE DEF none
  <2>4. QED
    BY <2>1, <2>3, OneStatementWhole
<1>4. QED
  BY <1>1, <1>2, <1>3

LEMMA SearchWhole ==
    ASSUME IInv, WholeUntilOvertaken, NEW s \in Sessions, Search(s)
    PROVE  WholeUntilOvertaken'
<1>1. PICK k \in 1 .. SearchLimit : \E found \in [1 .. k -> {m \in Ids : Active(m)}] :
        Plan(s, [i \in 1 .. k |-> Change(found[i], Touched(found[i]))])
  BY DEF Search
<1>2. PICK found \in [1 .. k -> {m \in Ids : Active(m)}] :
        Plan(s, [i \in 1 .. k |-> Change(found[i], Touched(found[i]))])
  BY <1>1
<1> DEFINE plan == [i \in 1 .. k |-> Change(found[i], Touched(found[i]))]
           none == {}
<1>3. Begin(s, plan, none) /\ DOMAIN plan = 1 .. k
  BY <1>2 DEF Plan
<1>4. ASSUME NEW i \in 1 .. k PROVE Counts(plan[i]) /\ Active(plan[i].row)
  <2>1. /\ found[i] \in Ids /\ Exists(found[i]) /\ Active(found[i])
        /\ plan[i] = Change(found[i], Touched(found[i]))
    BY DEF Exists, Active
  <2> HIDE DEF plan
  <2>2. QED
    BY <2>1, CountsRow
<1> HIDE DEF plan
<1> DEFINE D == {plan[i] : i \in DOMAIN plan}
<1>5. Recalling(D)
  BY <1>3, <1>4 DEF Recalling
<1>6. IsOperation(D, none)
  BY <1>5 DEF IsOperation
<1> HIDE DEF none
<1>7. QED
  BY <1>3, <1>6, BeginWhole

LEMMA PlanSplits ==
    ASSUME NEW plan, IsPlan(plan), plan # <<>>
    PROVE  {plan[i] : i \in DOMAIN plan} = {plan[1]} \cup {Tail(plan)[i] : i \in DOMAIN Tail(plan)}
<1> DEFINE S == {plan[i] : i \in DOMAIN plan}
<1>1. plan \in Seq(S) /\ Len(plan) \in Nat \ {0} /\ DOMAIN plan = 1 .. Len(plan)
  BY EmptySeq, LenProperties DEF IsPlan
<1>2. /\ Tail(plan) \in Seq(S) /\ Len(Tail(plan)) = Len(plan) - 1
      /\ \A i \in 1 .. Len(plan) - 1 : Tail(plan)[i] = plan[i + 1]
  BY <1>1, HeadTailProperties
<1>3. DOMAIN Tail(plan) = 1 .. Len(plan) - 1
  BY <1>2, LenProperties
<1> HIDE DEF S
<1>4. ASSUME NEW j \in DOMAIN plan, j # 1
      PROVE  \E i \in DOMAIN Tail(plan) : plan[j] = Tail(plan)[i]
  <2>1. j - 1 \in 1 .. Len(plan) - 1 /\ j = (j - 1) + 1
    BY <1>1, <1>4
  <2>2. Tail(plan)[j - 1] = plan[j]
    BY <1>2, <2>1
  <2>3. QED
    BY <1>3, <2>1, <2>2
<1>5. ASSUME NEW i \in DOMAIN Tail(plan)
      PROVE  \E j \in DOMAIN plan : Tail(plan)[i] = plan[j]
  BY <1>1, <1>2, <1>3
<1>6. 1 \in DOMAIN plan
  BY <1>1
<1>7. QED
  BY <1>4, <1>5, <1>6

LEMMA FlushWhole ==
    ASSUME IInv, WholeUntilOvertaken, NEW s \in Sessions, Flush(s)
    PROVE  WholeUntilOvertaken'
<1>1. PICK d \in NextStatements(s) :
        /\ tx' = [tx EXCEPT ![s].done = IF Vanished(d) THEN @ ELSE @ \cup {d},
                            ![s].new = IF tx[s].todo = <<>> THEN {} ELSE @,
                            ![s].todo = IF @ = <<>> THEN @ ELSE Tail(@)]
        /\ memories' = memories /\ tx[s].pc = "working"
  BY DEF Flush
<1>2. SessionOK(s) /\ tx = [t \in Sessions |-> tx[t]]
  BY DEF IInv
<1>3. /\ tx'[s].done = IF Vanished(d) THEN tx[s].done ELSE tx[s].done \cup {d}
      /\ tx'[s].new = IF tx[s].todo = <<>> THEN {} ELSE tx[s].new
      /\ tx'[s].todo = IF tx[s].todo = <<>> THEN tx[s].todo ELSE Tail(tx[s].todo)
      /\ tx'[s].alone = tx[s].alone
      /\ \A t \in Sessions \ {s} : tx'[t] = tx[t]
  BY <1>1, <1>2 DEF SessionOK
<1>4. ASSUME tx[s].alone
      PROVE  /\ \A i \in DOMAIN tx'[s].todo : memories[tx'[s].todo[i].row].state # "deleted"
             /\ IsOperation(Planned(s)', tx'[s].new)
  <2>1. /\ \A i \in DOMAIN tx[s].todo : memories[tx[s].todo[i].row].state # "deleted"
        /\ IsOperation(Planned(s), tx[s].new)
    BY <1>1, <1>4 DEF WholeUntilOvertaken
  <2>2. CASE tx[s].todo # <<>>
    <3>1. /\ d = tx[s].todo[1] /\ 1 \in DOMAIN tx[s].todo /\ IsPlan(tx[s].todo)
      BY <1>2, <2>2, NextStatement DEF SessionOK
    <3>2. ~Vanished(d)
      BY <2>1, <3>1 DEF Vanished
    <3>3. tx'[s].done = tx[s].done \cup {d} /\ tx'[s].todo = Tail(tx[s].todo)
          /\ tx'[s].new = tx[s].new
      BY <1>3, <2>2, <3>2
    <3>4. Planned(s)' = Planned(s)
      <4> DEFINE plan == tx[s].todo
                 rest == Tail(plan)
                 all == {plan[i] : i \in DOMAIN plan}
                 later == {rest[i] : i \in DOMAIN rest}
      <4>1. all = {d} \cup later
        BY <2>2, <3>1, PlanSplits
      <4>2. Planned(s) = tx[s].done \cup all
        BY DEF Planned
      <4>3. Planned(s)' = (tx[s].done \cup {d}) \cup later
        BY <3>3 DEF Planned
      <4> HIDE DEF all, later
      <4>4. QED
        BY <4>1, <4>2, <4>3
    <3>5. \A i \in DOMAIN tx'[s].todo : \E j \in DOMAIN tx[s].todo : tx'[s].todo[i] = tx[s].todo[j]
      BY <2>2, <3>1, <3>3, RestOfPlan
    <3>6. QED
      BY <2>1, <3>3, <3>4, <3>5
  <2>3. CASE tx[s].todo = <<>>
    <3>1. PICK fact \in tx[s].new : memories[d.row].state = "unused" /\ d = Insertion(d.row, fact)
      BY <2>3, NextStatement
    <3>2. /\ tx'[s].done = tx[s].done \cup {d} /\ tx'[s].todo = <<>> /\ tx'[s].new = {}
      BY <1>3, <2>3, <3>1 DEF Vanished
    <3>3. Planned(s) = tx[s].done /\ Planned(s)' = tx[s].done \cup {d}
      BY <2>3, <3>2, ShortPlans DEF Planned
    <3>4. PICK topic \in Topics, text \in Texts : Learning(tx[s].done, tx[s].new, topic, text)
      BY <2>1, <3>1, <3>3 DEF IsOperation
    <3>5. /\ {e.row : e \in tx[s].done} = Current(topic) /\ \A e \in tx[s].done : Retires(e)
          /\ tx[s].new = {[topic |-> topic, text |-> text]}
      BY <3>1, <3>4 DEF Learning
    <3>6. Inserts(d, topic, text)
      BY <3>1, <3>5 DEF Inserts
    <3> DEFINE updates == tx[s].done
               D == updates \cup {d}
    <3>7. updates \in SUBSET D /\ d \in D
      OBVIOUS
    <3>8. Learning(D, {}, topic, text)
      BY <3>5, <3>6, <3>7 DEF Learning
    <3> HIDE DEF updates
    <3>9. IsOperation(D, {})
      BY <3>8 DEF IsOperation
    <3>10. \A i \in DOMAIN <<>> : FALSE
      BY ShortPlans
    <3>11. QED
      BY <3>2, <3>3, <3>9, <3>10 DEF updates
  <2>4. QED
    BY <2>2, <2>3
<1>5. QED
  BY <1>1, <1>3, <1>4, OneMovesWhole

LEMMA WholeInvariant == Spec => []WholeUntilOvertaken
<1>1. Init => WholeUntilOvertaken
  BY DEF Init, Idle, WholeUntilOvertaken
<1>2. IInv /\ WholeUntilOvertaken /\ [Next]_vars => WholeUntilOvertaken'
  <2> SUFFICES ASSUME IInv, WholeUntilOvertaken, [Next]_vars PROVE WholeUntilOvertaken'
    OBVIOUS
  <2>1. ASSUME NEW s \in Sessions, Request(s) PROVE WholeUntilOvertaken'
    BY <2>1, AddWhole, UpdateWhole, OthersWhole, SearchWhole DEF Request
  <2>2. ASSUME NEW s \in Sessions, Commit(s) PROVE WholeUntilOvertaken'
    <3>1. ASSUME NEW t \in Sessions PROVE tx'[t].pc # "working" \/ ~tx'[t].alone
      <4>1. tx'[t] = IF t = s \/ tx[t].pc = "idle" THEN Idle ELSE [tx[t] EXCEPT !.alone = FALSE]
        BY <2>2 DEF Commit
      <4>2. Idle.pc = "idle"
        BY DEF Idle
      <4>3. DOMAIN tx[t] = {"pc", "todo", "new", "done", "alone"}
        BY DEF IInv, SessionOK
      <4>4. QED
        BY <4>1, <4>2, <4>3
    <3>2. QED
      BY <3>1 DEF WholeUntilOvertaken
  <2>3. ASSUME NEW s \in Sessions, Refuse(s) \/ Fail(s) PROVE WholeUntilOvertaken'
    <3>1. /\ tx'[s] = Idle /\ memories' = memories
          /\ \A t \in Sessions \ {s} : tx'[t] = tx[t]
      BY <2>3 DEF Refuse, Fail, RollBack, IInv
    <3>2. Idle.pc = "idle"
      BY DEF Idle
    <3>3. QED
      BY <3>1, <3>2, OneMovesWhole
  <2>4. CASE UNCHANGED vars
    <3>1. memories' = memories /\ tx' = tx /\ \A s : Planned(s)' = Planned(s)
      BY <2>4 DEF vars, Planned
    <3>2. QED
      BY <3>1, SameOperation DEF WholeUntilOvertaken
  <2>5. QED
    BY <2>1, <2>2, <2>3, <2>4, FlushWhole DEF Next
<1>3. QED
  BY <1>1, <1>2, Invariant, PTL DEF Spec

-----------------------------------------------------------------------------
(* Who can deadlock *)

\* Statements are left for an operation that has flushed some only where all of them
\* touch; an addition and a search never mix.
OneOrTouches ==
    \A s \in Sessions :
        \/ tx[s].todo = <<>>
        \/ tx[s].done = {} /\ DOMAIN tx[s].todo = {1}
        \/ \A d \in Planned(s) : IsTouch(d)

\* An operation begins with one statement at most, or with touches.
LEMMA BeginsOneOrTouches ==
    ASSUME IInv, OneOrTouches, NEW s \in Sessions, NEW plan, NEW new, Begin(s, plan, new),
           \/ plan = <<>> \/ DOMAIN plan = {1}
           \/ \A i \in DOMAIN plan : IsTouch(plan[i])
    PROVE  OneOrTouches'
<1> DEFINE x == [Idle EXCEPT !.pc = "working", !.todo = plan, !.new = new]
<1>1. tx'[s] = x /\ \A t \in Sessions \ {s} : tx'[t] = tx[t]
  BY DEF Begin, IInv
<1>2. x.todo = plan /\ x.done = {}
  BY DEF Idle
<1> HIDE DEF x
<1>3. Planned(s)' = {plan[i] : i \in DOMAIN plan} /\ \A t \in Sessions \ {s} : Planned(t)' = Planned(t)
  BY <1>1, <1>2 DEF Planned
<1>4. QED
  BY <1>1, <1>2, <1>3 DEF OneOrTouches, IsTouch

LEMMA TouchIsTouch ==
    ASSUME IInv, NEW m \in Ids, Exists(m)
    PROVE  IsTouch(Change(m, Touched(m)))
<1>1. memories[m] \in Rows /\ memories[m].access_count \in Nat
  BY Existing DEF Rows
<1>2. /\ Touched(m)["access_count"] = memories[m].access_count + 1
      /\ Touched(m)["access_count"] # memories[m]["access_count"]
  BY <1>1 DEF Touched, Rows
<1>3. "access_count" \in Columns
  BY DEF Columns
<1> DEFINE row == Touched(m)
<1>4. row["access_count"] > 0
  BY <1>1, <1>2
<1> HIDE DEF row
<1>5. QED
  BY <1>2, <1>3, <1>4 DEF Change, IsTouch, row

LEMMA RequestOneOrTouches ==
    ASSUME IInv, OneOrTouches, NEW s \in Sessions, Request(s)
    PROVE  OneOrTouches'
<1>1. ASSUME NEW d, NEW new, Begin(s, <<d>>, new) PROVE OneOrTouches'
  BY <1>1, ShortPlans, BeginsOneOrTouches
<1>2. ASSUME NEW topic \in Topics, NEW text \in Texts, Add(s, topic, text) PROVE OneOrTouches'
  BY <1>1, <1>2, BeginsOneOrTouches DEF Add
<1>3. ASSUME NEW m \in Ids, NEW topic \in Topics, NEW text \in Texts, Update(s, m, topic, text)
      PROVE  OneOrTouches'
  BY <1>1, <1>3 DEF Update, Plan
<1>4. ASSUME NEW m \in Ids, Reinforce(s, m) \/ Get(s, m) \/ Forget(s, m) \/ Delete(s, m)
      PROVE  OneOrTouches'
  BY <1>1, <1>4 DEF Reinforce, Get, Forget, Delete, Plan
<1>5. ASSUME Search(s) PROVE OneOrTouches'
  <2>1. PICK k \in 1 .. SearchLimit : \E found \in [1 .. k -> {m \in Ids : Active(m)}] :
          Plan(s, [i \in 1 .. k |-> Change(found[i], Touched(found[i]))])
    BY <1>5 DEF Search
  <2>2. PICK found \in [1 .. k -> {m \in Ids : Active(m)}] :
          Plan(s, [i \in 1 .. k |-> Change(found[i], Touched(found[i]))])
    BY <2>1
  <2> DEFINE plan == [i \in 1 .. k |-> Change(found[i], Touched(found[i]))]
             none == {}
  <2>3. Begin(s, plan, none) /\ DOMAIN plan = 1 .. k
    BY <2>2 DEF Plan
  <2>4. ASSUME NEW i \in 1 .. k PROVE IsTouch(plan[i])
    <3>1. found[i] \in Ids /\ Exists(found[i]) /\ plan[i] = Change(found[i], Touched(found[i]))
      BY DEF Exists, Active
    <3> HIDE DEF plan
    <3>2. QED
      BY <3>1, TouchIsTouch
  <2> HIDE DEF plan, none
  <2>5. QED
    BY <2>3, <2>4, BeginsOneOrTouches
<1>6. QED
  BY <1>2, <1>3, <1>4, <1>5 DEF Request

\* One statement is flushed: what is left was planned with it.
LEMMA FlushOneOrTouches ==
    ASSUME IInv, OneOrTouches, NEW s \in Sessions, Flush(s)
    PROVE  OneOrTouches'
<1>1. PICK d \in NextStatements(s) :
        tx' = [tx EXCEPT ![s].done = IF Vanished(d) THEN @ ELSE @ \cup {d},
                         ![s].new = IF tx[s].todo = <<>> THEN {} ELSE @,
                         ![s].todo = IF @ = <<>> THEN @ ELSE Tail(@)]
  BY DEF Flush
<1>2. SessionOK(s) /\ tx = [t \in Sessions |-> tx[t]]
  BY DEF IInv
<1>3. /\ tx'[s].done \subseteq tx[s].done \cup {d}
      /\ tx'[s].todo = IF tx[s].todo = <<>> THEN tx[s].todo ELSE Tail(tx[s].todo)
      /\ \A t \in Sessions \ {s} : tx'[t] = tx[t]
  BY <1>1, <1>2 DEF SessionOK
<1>4. \A t \in Sessions \ {s} : Planned(t)' = Planned(t)
  BY <1>3 DEF Planned
<1>5. CASE tx[s].todo = <<>>
  BY <1>3, <1>4, <1>5 DEF OneOrTouches, IsTouch
<1>6. CASE tx[s].todo # <<>>
  <2>1. IsPlan(tx[s].todo)
    BY <1>2 DEF SessionOK
  <2>2. /\ d = tx[s].todo[1] /\ 1 \in DOMAIN tx[s].todo
        /\ \A i \in DOMAIN Tail(tx[s].todo) :
             i + 1 \in DOMAIN tx[s].todo /\ i + 1 # 1 /\ Tail(tx[s].todo)[i] = tx[s].todo[i + 1]
    BY <1>6, <2>1, NextStatement, RestOfPlan
  <2>3. CASE DOMAIN tx[s].todo = {1}
    <3>1. DOMAIN Tail(tx[s].todo) = {}
      BY <2>2, <2>3
    <3>2. IsPlan(Tail(tx[s].todo))
      BY <1>6, <2>1, RestOfPlan
    <3>3. Tail(tx[s].todo) = <<>>
      BY <3>1, <3>2, RestOfPlan
    <3>4. QED
      BY <1>3, <1>4, <1>6, <3>3 DEF OneOrTouches, IsTouch
  <2>4. CASE \A e \in Planned(s) : IsTouch(e)
    <3>1. Planned(s)' \subseteq Planned(s)
      BY <1>3, <1>6, <2>2 DEF Planned
    <3>2. QED
      BY <1>3, <1>4, <2>4, <3>1 DEF OneOrTouches, IsTouch
  <2>5. QED
    BY <1>6, <2>3, <2>4 DEF OneOrTouches
<1>7. QED
  BY <1>5, <1>6

LEMMA TouchesInvariant == Spec => []OneOrTouches
<1>1. Init => OneOrTouches
  BY DEF Init, Idle, OneOrTouches
<1>2. IInv /\ OneOrTouches /\ [Next]_vars => OneOrTouches'
  <2> SUFFICES ASSUME IInv, OneOrTouches, [Next]_vars PROVE OneOrTouches'
    OBVIOUS
  <2>1. ASSUME \A s \in Sessions :
                 tx'[s].todo = <<>>
                 \/ (tx'[s].todo = tx[s].todo /\ tx'[s].done = tx[s].done)
        PROVE  OneOrTouches'
    BY <2>1 DEF OneOrTouches, Planned, IsTouch
  <2>2. Idle.todo = <<>>
    BY DEF Idle
  <2>3. ASSUME NEW s \in Sessions, Commit(s) PROVE OneOrTouches'
    <3>1. ASSUME NEW t \in Sessions
          PROVE  tx'[t].todo = <<>> \/ (tx'[t].todo = tx[t].todo /\ tx'[t].done = tx[t].done)
      <4>1. tx'[t] = IF t = s \/ tx[t].pc = "idle" THEN Idle ELSE [tx[t] EXCEPT !.alone = FALSE]
        BY <2>3 DEF Commit
      <4>2. DOMAIN tx[t] = {"pc", "todo", "new", "done", "alone"}
        BY DEF IInv, SessionOK
      <4>3. QED
        BY <2>2, <4>1, <4>2
    <3>2. QED
      BY <2>1, <3>1
  <2>4. ASSUME NEW s \in Sessions, Refuse(s) \/ Fail(s) PROVE OneOrTouches'
    <3>1. tx'[s] = Idle /\ \A t \in Sessions \ {s} : tx'[t] = tx[t]
      BY <2>4 DEF Refuse, Fail, RollBack, IInv
    <3>2. QED
      BY <2>1, <2>2, <3>1
  <2>5. CASE UNCHANGED vars
    BY <2>1, <2>5 DEF vars
  <2>6. QED
    BY <2>3, <2>4, <2>5, RequestOneOrTouches, FlushOneOrTouches DEF Next
<1>3. QED
  BY <1>1, <1>2, Invariant, PTL DEF Spec

\* The insertion of a correction that nobody has overtaken waits for nobody: the row
\* it forgets is still the one with its topic, in every other session's view as well.
LEMMA CorrectionWaitsForNobody ==
    ASSUME IInv, WholeUntilOvertaken, NEW s \in Sessions, tx[s].alone, tx[s].todo = <<>>,
           tx[s].done # {}, NEW d \in NextStatements(s)
    PROVE  Blockers(s, d) = {}
<1>1. PICK m \in Free, fact \in tx[s].new : d = Insertion(m, fact)
  BY DEF NextStatements
<1>2. d.row = m /\ memories[m].state = "unused" /\ \A t \in Sessions : m \notin Locked(t)
  BY <1>1 DEF Insertion, Free
<1>3. SessionOK(s) /\ fact \in Facts
  BY DEF IInv, SessionOK
<1>4. tx[s].pc = "working" /\ Planned(s) = tx[s].done
  BY <1>3, ShortPlans DEF SessionOK, Idle, Planned
<1>5. PICK topic \in Topics, text \in Texts : Learning(tx[s].done, tx[s].new, topic, text)
  BY <1>1, <1>4 DEF WholeUntilOvertaken, IsOperation
<1>6. /\ {e.row : e \in tx[s].done} = Current(topic)
      /\ tx[s].new = {[topic |-> topic, text |-> text]}
  BY <1>1, <1>5 DEF Learning
<1>7. fact.topic = topic
  BY <1>6
<1>8. PICK n \in Locked(s) : n \in Ids /\ Active(n) /\ memories[n].topic = topic
  BY <1>6 DEF Current, Locked
<1>9. Result(d) = Fresh(topic, fact.text) /\ Result(d).topic = topic
  BY <1>1, <1>2, <1>3, <1>7, Inserted DEF Fresh
<1>10. ASSUME NEW t \in Sessions \ {s}, Holds(t, topic) PROVE FALSE
  <2>1. SessionOK(t) /\ Apart(s, t)
    BY DEF IInv
  <2>2. n \notin Locked(t)
    BY <1>8, <2>1 DEF Apart
  <2>3. Seen(t, n) = memories[n]
    BY <2>1, <2>2, WhatIsSeen DEF SessionOK
  <2>4. PICK k \in Locked(t) : \E row \in {memories[k], Seen(t, k)} :
                                row.state = "active" /\ row.topic = topic
    BY <1>10 DEF Holds
  <2>5. k \in Ids /\ k # n
    BY <2>1, <2>2, <2>4 DEF SessionOK, DoneOK, Locked
  <2>6. ~(memories[k].state = "active" /\ memories[k].topic = topic)
    BY <1>8, <2>5 DEF IInv, OneActivePerKey, Active
  <2>7. ~(Seen(t, k).state = "active" /\ Seen(t, k).topic = topic)
    BY <1>8, <2>1, <2>3, <2>5 DEF SessionOK, OneSeen, Active
  <2>8. QED
    BY <2>4, <2>6, <2>7
<1>11. QED
  BY <1>2, <1>9, <1>10 DEF Blockers

\* Whatever overlaps in however many sessions: who is told of a deadlock is a search
\* between two of its touches, or an addition that another commit has overtaken.
THEOREM WhoDeadlocks == Spec => []OnlySearchesDeadlock
<1>1. IInv /\ WholeUntilOvertaken /\ OneOrTouches => OnlySearchesDeadlock
  <2> SUFFICES ASSUME IInv, WholeUntilOvertaken, OneOrTouches, NEW s \in Sessions, Deadlocked(s)
               PROVE  \/ tx[s].todo # <<>> /\ \A d \in tx[s].done \cup NextStatements(s) : IsTouch(d)
                      \/ tx[s].new # {} /\ ~tx[s].alone
    BY DEF OnlySearchesDeadlock
  <2>1. \A w \in Waits : w[1] \in Sessions /\ w[2] \in Sessions
    BY DEF Waits
  <2>2. /\ \E w \in Waits : w[1] = s
        /\ \E w \in Waits : w[2] = s
    BY <2>1, WaitsAndIsWaitedFor DEF Deadlocked
  <2>3. PICK d \in NextStatements(s) : Blockers(s, d) # {}
    BY <2>2 DEF Waits
  <2>4. tx[s].done # {}
    <3>1. PICK w \in Waits : w[2] = s
      BY <2>2
    <3>2. PICK e \in NextStatements(w[1]) : s \in Blockers(w[1], e)
      BY <3>1 DEF Waits
    <3>3. Locked(s) # {}
      BY <3>2 DEF Blockers, Holds
    <3>4. QED
      BY <3>3 DEF Locked
  <2>5. CASE tx[s].todo # <<>>
    <3>1. \A e \in Planned(s) : IsTouch(e)
      BY <2>4, <2>5 DEF OneOrTouches
    <3>2. \A e \in NextStatements(s) : e \in Planned(s)
      BY <2>5, NextStatement DEF Planned
    <3>3. QED
      BY <2>5, <3>1, <3>2 DEF Planned
  <2>6. CASE tx[s].todo = <<>>
    <3>1. ~tx[s].alone
      BY <2>3, <2>4, <2>6, CorrectionWaitsForNobody
    <3>2. tx[s].new # {}
      BY <2>3, <2>6 DEF NextStatements
    <3>3. QED
      BY <3>1, <3>2
  <2>7. QED
    BY <2>5, <2>6
<1>2. QED
  BY <1>1, Invariant, WholeInvariant, TouchesInvariant, PTL

\* What a commit makes of the facts.
LEMMA ToldByCommit ==
    ASSUME IInv, NEW s \in Sessions, Commit(s)
    PROVE  LET D == tx[s].done
           IN  /\ Planned(s) = D /\ tx[s].new = {} /\ tx[s].pc = "working" /\ tx'[s] = Idle
               /\ \A d \in D : d.row \in Ids /\ Told'[d.row] = FactOf(Result(d))
               /\ \A m \in Ids : (\A d \in D : d.row # m) => Told'[m] = Told[m]
               /\ \A d, e \in D : d.row = e.row => d = e
<1>1. SessionOK(s) /\ EachRowOnce(s)
  BY DEF IInv, SessionOK
<1>2. \A m \in Ids : Told'[m] = FactOf(memories'[m]) /\ Told[m] = FactOf(memories[m])
  BY DEF Told, FactOf
<1>3. ASSUME NEW d \in tx[s].done
      PROVE  d.row \in Ids /\ Told'[d.row] = FactOf(Result(d))
  <2>1. d.row \in Ids /\ d.row \in Locked(s) /\ Seen(s, d.row) = Result(d)
    BY <1>1, WhatIsSeen DEF SessionOK, DoneOK
  <2>2. memories'[d.row] = Result(d)
    BY <2>1, Committed
  <2>3. QED
    BY <1>2, <2>1, <2>2
<1>4. ASSUME NEW m \in Ids, \A d \in tx[s].done : d.row # m PROVE Told'[m] = Told[m]
  <2>1. m \notin Locked(s)
    BY <1>4 DEF Locked
  <2>2. memories'[m] = memories[m]
    BY <2>1, Committed
  <2>3. QED
    BY <1>2, <2>2
<1>5. Planned(s) = tx[s].done /\ tx[s].new = {} /\ tx[s].pc = "working" /\ tx'[s] = Idle
  BY ShortPlans DEF Commit, Finished, Planned
<1>6. QED
  BY <1>1, <1>3, <1>4, <1>5 DEF EachRowOnce

\* What the table says of a row.
LEMMA ToldRow ==
    ASSUME IInv, NEW m \in Ids
    PROVE  /\ Told[m].state = memories[m].state
           /\ Exists(m) => Told[m] = [state |-> memories[m].state, topic |-> memories[m].topic,
                                      text |-> memories[m].text, recalled |-> memories[m].access_count]
           /\ memories[m].state = "unused" => Told[m] = [state |-> "unused"]
BY DEF Told, FactOf, Exists

\* A commit of one operation that was not overtaken is that operation of the table.
LEMMA CommitWhole ==
    ASSUME IInv, WholeUntilOvertaken, NEW s \in Sessions, Commit(s), tx[s].alone
    PROVE  Table!Next
<1> DEFINE D == tx[s].done
<1>1. /\ IsOperation(D, {})
      /\ \A d \in D : d.row \in Ids /\ Told'[d.row] = FactOf(Result(d))
      /\ \A m \in Ids : (\A d \in D : d.row # m) => Told'[m] = Told[m]
      /\ \A d, e \in D : d.row = e.row => d = e
  BY ToldByCommit DEF WholeUntilOvertaken
<1>2. Told = [m \in Ids |-> Told[m]] /\ Told' = [m \in Ids |-> Told'[m]]
  BY DEF Told
<1> HIDE DEF D
<1>3. ASSUME Recalling(D) PROVE Table!Next
  <2> DEFINE found == {d.row : d \in D}
  <2>1. ASSUME NEW d \in D
        PROVE  /\ d.row \in Ids /\ Told[d.row].state \in {"active", "forgotten"}
               /\ Told'[d.row] = [Told[d.row] EXCEPT !.recalled = @ + 1]
               /\ Told[d.row].state = "active" \/ \A e \in D : e = d
    <3>1. Counts(d) /\ (Active(d.row) \/ \A e \in D : e = d) /\ d.row \in Ids
      BY <1>1, <1>3 DEF Recalling
    <3>2. Told'[d.row] = [state |-> memories[d.row].state, topic |-> memories[d.row].topic,
                          text |-> memories[d.row].text,
                          recalled |-> memories[d.row].access_count + 1]
      BY <1>1, <3>1 DEF Counts, Becomes
    <3>3. Told[d.row] = [state |-> memories[d.row].state, topic |-> memories[d.row].topic,
                         text |-> memories[d.row].text, recalled |-> memories[d.row].access_count]
      BY <3>1, ToldRow DEF Counts
    <3>4. Told[d.row].state \in {"active", "forgotten"} /\ (Active(d.row) => Told[d.row].state = "active")
      BY <3>1, ToldRow DEF Counts, Exists, Active
    <3>5. QED
      BY <3>1, <3>2, <3>3, <3>4
  <2>2. \A m \in Ids : m \notin found => Told'[m] = Told[m]
    BY <1>1
  <2>3. ASSUME NEW m \in found
        PROVE  /\ m \in Ids /\ Told[m].state \in {"active", "forgotten"}
               /\ Told'[m] = [Told[m] EXCEPT !.recalled = @ + 1]
               /\ Told[m].state = "active" \/ found = {m}
    <3>1. PICK d \in D : d.row = m
      OBVIOUS
    <3>2. (\A e \in D : e = d) => found = {m}
      BY <3>1
    <3>3. QED
      BY <2>1, <3>1, <3>2
  <2> HIDE DEF found
  <2>4. Told' = [m \in Ids |-> IF m \in found THEN [Told[m] EXCEPT !.recalled = @ + 1] ELSE Told[m]]
    BY <1>2, <2>2, <2>3
  <2>5. Table!Recall(found) /\ found \in SUBSET Ids
    BY <2>3, <2>4 DEF Table!Recall, Table!Known, Table!Active
  <2>6. QED
    BY <2>5 DEF Table!Next
<1>4. ASSUME NEW d \in D, \A e \in D : e = d, Retires(d) PROVE Table!Next
  <2>1. d.row \in Ids /\ Active(d.row) /\ Exists(d.row)
    BY <1>1, <1>4 DEF Retires, Exists, Active
  <2>2. Told'[d.row] = [state |-> "forgotten", topic |-> memories[d.row].topic,
                        text |-> memories[d.row].text, recalled |-> memories[d.row].access_count]
    BY <1>1, <1>4 DEF Retires, Becomes
  <2>3. Told[d.row].state = "active" /\ Told'[d.row] = [Told[d.row] EXCEPT !.state = "forgotten"]
    <3>1. Told[d.row] = [state |-> memories[d.row].state, topic |-> memories[d.row].topic,
                         text |-> memories[d.row].text, recalled |-> memories[d.row].access_count]
      BY <2>1, ToldRow
    <3>2. QED
      BY <2>1, <2>2, <3>1 DEF Active
  <2>4. \A m \in Ids : m # d.row => Told'[m] = Told[m]
    BY <1>1, <1>4
  <2>5. Told' = [Told EXCEPT ![d.row].state = "forgotten"]
    BY <1>2, <2>1, <2>3, <2>4
  <2>6. Table!Forget(d.row)
    BY <2>3, <2>5 DEF Table!Forget, Table!Active
  <2>7. QED
    BY <2>1, <2>6 DEF Table!Next
<1>5. ASSUME NEW d \in D, \A e \in D : e = d, Removes(d) PROVE Table!Next
  <2>1. d.row \in Ids /\ Exists(d.row) /\ Told'[d.row] = Table!Gone
    BY <1>1, <1>5 DEF Removes, Table!Gone
  <2>2. Told[d.row].state \in {"active", "forgotten"}
    BY <2>1, ToldRow DEF Exists
  <2>3. \A m \in Ids : m # d.row => Told'[m] = Told[m]
    BY <1>1, <1>5
  <2>4. Told' = [Told EXCEPT ![d.row] = Table!Gone]
    BY <1>2, <2>1, <2>3
  <2>5. Table!Remove(d.row)
    BY <2>2, <2>4 DEF Table!Remove, Table!Known
  <2>6. QED
    BY <2>1, <2>5 DEF Table!Next
<1>6. ASSUME NEW d \in D, \A e \in D : e = d,
             NEW topic \in Topics, NEW text \in Texts, Revises(d, topic, text)
      PROVE  Table!Next
  <2>1. d.row \in Ids /\ Active(d.row) /\ Exists(d.row)
    BY <1>1, <1>6 DEF Revises, Exists, Active
  <2>2. Told'[d.row] = [state |-> "active", topic |-> topic, text |-> text,
                        recalled |-> memories[d.row].access_count]
    BY <1>1, <1>6 DEF Revises, Becomes
  <2>3. /\ Told[d.row].state = "active"
        /\ Told'[d.row] = [[Told[d.row] EXCEPT !.topic = topic] EXCEPT !.text = text]
    <3>1. Told[d.row] = [state |-> memories[d.row].state, topic |-> memories[d.row].topic,
                         text |-> memories[d.row].text, recalled |-> memories[d.row].access_count]
      BY <2>1, ToldRow
    <3> DEFINE revised == [Told[d.row] EXCEPT !.topic = topic]
    <3>2. revised =
            [state |-> memories[d.row].state, topic |-> topic,
             text |-> memories[d.row].text, recalled |-> memories[d.row].access_count]
      BY <3>1
    <3> HIDE DEF revised
    <3>3. [revised EXCEPT !.text = text] =
            [state |-> memories[d.row].state, topic |-> topic,
             text |-> text, recalled |-> memories[d.row].access_count]
      BY <3>2
    <3>4. Told[d.row].state = "active" /\ memories[d.row].state = "active"
      BY <2>1, <3>1 DEF Active
    <3>5. QED
      BY <2>2, <3>3, <3>4 DEF revised
  <2>4. \A m \in Ids : m # d.row => Told'[m] = Told[m]
    BY <1>1, <1>6
  <2>5. Told' = [Told EXCEPT ![d.row].topic = topic, ![d.row].text = text]
    BY <1>2, <2>1, <2>3, <2>4
  <2>6. ASSUME NEW m \in Ids, Told[m].state = "active", Told[m].topic = topic PROVE m = d.row
    <3>1. SUFFICES ASSUME m # d.row PROVE FALSE
      OBVIOUS
    <3>2. Told'[m].state = "active" /\ Told'[m].topic = topic
      BY <2>4, <2>6, <3>1
    <3>3. Seen(s, m).state = "active" /\ Seen(s, m).topic = topic
      <4>1. Told'[m] = FactOf(Seen(s, m))
        BY Committed DEF Told, FactOf
      <4>2. QED
        BY <3>2, <4>1 DEF FactOf
    <3>4. Seen(s, d.row).state = "active" /\ Seen(s, d.row).topic = topic
      <4>1. Told'[d.row] = FactOf(Seen(s, d.row))
        BY <2>1, Committed DEF Told, FactOf
      <4>2. QED
        BY <2>2, <4>1 DEF FactOf
    <3>5. QED
      BY <2>1, <3>1, <3>3, <3>4 DEF IInv, SessionOK, OneSeen
  <2>7. Table!Revise(d.row, topic, text)
    BY <2>3, <2>5, <2>6 DEF Table!Revise, Table!Active, Table!Current
  <2>8. QED
    BY <2>1, <2>7 DEF Table!Next
<1>7. ASSUME NEW topic \in Topics, NEW text \in Texts, Learning(D, {}, topic, text)
      PROVE  Table!Next
  <2>1. PICK updates \in SUBSET D : \E d \in D :
          /\ {e.row : e \in updates} = Current(topic) /\ \A e \in updates : Retires(e)
          /\ D = updates \cup {d} /\ Inserts(d, topic, text)
    BY <1>7 DEF Learning
  <2>2. PICK d \in D :
          /\ {e.row : e \in updates} = Current(topic) /\ \A e \in updates : Retires(e)
          /\ D = updates \cup {d} /\ Inserts(d, topic, text)
    BY <2>1
  <2>3. /\ d.row \in Ids /\ Told[d.row] = Table!Nothing
        /\ Told'[d.row] = Table!Learned(topic, text)
    <3>1. memories[d.row].state = "unused" /\ d.row \in Ids
      BY <1>1, <2>2 DEF Inserts
    <3> DEFINE fact == [topic |-> topic, text |-> text]
    <3>2. d = Insertion(d.row, fact) /\ fact \in Facts /\ fact.topic = topic /\ fact.text = text
      BY <2>2 DEF Inserts, Facts
    <3> HIDE DEF fact
    <3>3. Result(d) = Fresh(topic, text)
      BY <3>1, <3>2, Inserted
    <3>4. FactOf(Fresh(topic, text)) = [state |-> "active", topic |-> topic, text |-> text, recalled |-> 0]
      BY DEF FactOf, Fresh
    <3>5. Told[d.row] = [state |-> "unused"]
      BY <3>1, ToldRow
    <3>6. QED
      BY <1>1, <3>1, <3>3, <3>4, <3>5 DEF Table!Nothing, Table!Learned
  <2>4. ASSUME NEW e \in updates
        PROVE  e.row \in Ids /\ Told'[e.row] = [Told[e.row] EXCEPT !.state = "forgotten"]
    <3>1. e \in D /\ e.row \in Ids /\ Active(e.row) /\ Exists(e.row) /\ Retires(e)
      BY <1>1, <2>2 DEF Retires, Exists, Active
    <3>2. Told'[e.row] = [state |-> "forgotten", topic |-> memories[e.row].topic,
                          text |-> memories[e.row].text, recalled |-> memories[e.row].access_count]
      BY <1>1, <3>1 DEF Retires, Becomes
    <3>3. Told[e.row] = [state |-> memories[e.row].state, topic |-> memories[e.row].topic,
                         text |-> memories[e.row].text, recalled |-> memories[e.row].access_count]
      BY <3>1, ToldRow
    <3>4. QED
      BY <3>1, <3>2, <3>3
  <2>5. ASSUME NEW m \in Ids
        PROVE  m \in Table!Current(topic) <=> m \in Current(topic)
    <3>1. Told[m].state = memories[m].state
      BY ToldRow
    <3>2. ASSUME Active(m) PROVE Told[m].topic = memories[m].topic
      <4>1. Told[m] = [state |-> memories[m].state, topic |-> memories[m].topic,
                       text |-> memories[m].text, recalled |-> memories[m].access_count]
        BY <3>2, ToldRow DEF Active, Exists
      <4>2. QED
        BY <4>1
    <3>3. QED
      BY <3>1, <3>2 DEF Table!Current, Table!Active, Current, Active
  <2>6. \A m \in Ids : m \in Table!Current(topic) <=> \E e \in updates : e.row = m
    BY <2>2, <2>5
  <2>7. ASSUME NEW n \in Ids
        PROVE  Told'[n] = IF n = d.row THEN Table!Learned(topic, text)
                          ELSE IF n \in Table!Current(topic) THEN [Told[n] EXCEPT !.state = "forgotten"]
                          ELSE Told[n]
    BY <1>1, <2>2, <2>3, <2>4, <2>6
  <2>8. Told' = [n \in Ids |-> IF n = d.row THEN Table!Learned(topic, text)
                               ELSE IF n \in Table!Current(topic)
                                 THEN [Told[n] EXCEPT !.state = "forgotten"]
                               ELSE Told[n]]
    BY <1>2, <2>7
  <2>9. Table!Learn(topic, text)
    BY <2>3, <2>8 DEF Table!Learn
  <2>10. QED
    BY <2>9 DEF Table!Next
<1>8. QED
  BY <1>1, <1>3, <1>4, <1>5, <1>6, <1>7 DEF IsOperation

\* A commit is one step of the table of facts, unless the session was overtaken.
LEMMA StepOfTable ==
    ASSUME IInv, WholeUntilOvertaken, [Next]_vars
    PROVE  Told' = Told \/ Table!Next \/ \E s \in Sessions : Overtaken(s)
<1>1. CASE memories' = memories
  BY <1>1 DEF Told, FactOf, Exists
<1>2. CASE memories' # memories
  <2>1. PICK s \in Sessions : Commit(s)
    BY <1>2, OnlyCommits
  <2>2. tx[s].pc = "working" /\ tx'[s] = Idle /\ tx[s].alone \in BOOLEAN
    BY <2>1 DEF Commit, IInv, SessionOK
  <2>3. CASE tx[s].alone
    BY <2>1, <2>3, CommitWhole
  <2>4. CASE ~tx[s].alone
    BY <1>2, <2>2, <2>4 DEF Overtaken
  <2>5. QED
    BY <2>3, <2>4
<1>3. QED
  BY <1>1, <1>2

\* Between sessions that overlap: the operation of one over which nobody commits is
\* atomic, and what it makes of the facts is what FactTable says.
THEOREM OperationsAreAtomic == Spec => AtomicUnlessOvertaken
<1>1. IInv /\ WholeUntilOvertaken /\ [Next]_vars
      => [Table!Next \/ \E s \in Sessions : Overtaken(s)]_Told
  BY StepOfTable
<1>2. QED
  BY <1>1, Invariant, WholeInvariant, PTL DEF Spec, AtomicUnlessOvertaken

\* A session is alone if there is no other.
LEMMA AlwaysAlone ==
    ASSUME \A s, t \in Sessions : s = t
    PROVE  Spec => [](\A s \in Sessions : tx[s].alone)
<1> DEFINE Alone == \A s \in Sessions : tx[s].alone
<1>1. Init => Alone
  BY DEF Init, Idle
<1>2. IInv /\ Alone /\ [Next]_vars => Alone'
  <2> SUFFICES ASSUME IInv, Alone, [Next]_vars, NEW s \in Sessions PROVE tx'[s].alone
    OBVIOUS
  <2>1. Idle.alone = TRUE /\ DOMAIN Idle = {"pc", "todo", "new", "done", "alone"}
    BY DEF Idle
  <2>2. tx[s].alone /\ DOMAIN tx[s] = {"pc", "todo", "new", "done", "alone"}
        /\ tx = [t \in Sessions |-> tx[t]]
    BY DEF IInv, SessionOK
  <2>3. CASE UNCHANGED vars
    BY <2>2, <2>3 DEF vars
  <2>4. ASSUME Request(s) PROVE tx'[s].alone
    <3>1. ASSUME NEW plan, NEW new, Begin(s, plan, new) PROVE tx'[s].alone
      <4>1. tx'[s] = [Idle EXCEPT !.pc = "working", !.todo = plan, !.new = new]
        BY <2>2, <3>1 DEF Begin
      <4>2. QED
        BY <2>1, <4>1
    <3>2. ASSUME NEW t, NEW x, Add(s, t, x) PROVE tx'[s].alone
      BY <3>1, <3>2 DEF Add
    <3>3. ASSUME NEW m, NEW t, NEW x, Update(s, m, t, x) PROVE tx'[s].alone
      BY <3>1, <3>3 DEF Update, Plan
    <3>4. ASSUME NEW m, Reinforce(s, m) \/ Get(s, m) \/ Forget(s, m) \/ Delete(s, m)
          PROVE  tx'[s].alone
      BY <3>1, <3>4 DEF Reinforce, Get, Forget, Delete, Plan
    <3>5. ASSUME Search(s) PROVE tx'[s].alone
      BY <3>1, <3>5 DEF Search, Plan
    <3>6. QED
      BY <2>4, <3>2, <3>3, <3>4, <3>5 DEF Request
  <2>5. ASSUME Flush(s) PROVE tx'[s].alone
    BY <2>2, <2>5 DEF Flush
  <2>6. ASSUME Commit(s) \/ Refuse(s) \/ Fail(s) PROVE tx'[s].alone
    <3>1. tx'[s] = Idle
      BY <2>2, <2>6 DEF Commit, Refuse, Fail, RollBack
    <3>2. QED
      BY <2>1, <3>1
  <2>7. QED
    BY <2>3, <2>4, <2>5, <2>6 DEF Next
<1> HIDE DEF Alone
<1>3. Spec => []Alone
  BY <1>1, <1>2, Invariant, PTL DEF Spec
<1>4. QED
  BY <1>3 DEF Alone

\* The memory with one operation at a time is the table of facts FactTable promises.
THEOREM SerialImplementsFactTable ==
    ASSUME \A s, t \in Sessions : s = t
    PROVE  Spec => ImplementsFactTable
<1> DEFINE Alone == \A s \in Sessions : tx[s].alone
<1>1. Init => Table!Init
  BY DEF Init, Told, FactOf, Exists, Table!Init, Table!Nothing
<1>2. IInv /\ WholeUntilOvertaken /\ Alone /\ [Next]_vars => [Table!Next]_Told
  BY StepOfTable DEF Overtaken
<1>3. Spec => []Alone
  BY AlwaysAlone
<1> HIDE DEF Alone
<1>4. QED
  BY <1>1, <1>2, <1>3, Invariant, WholeInvariant, PTL DEF Spec, ImplementsFactTable, Table!Spec
=============================================================================
