--------------------------- MODULE EventBus_proofs --------------------------
(***************************************************************************)
(* For any registry, any keys and any number of sessions whose             *)
(* publications nest, wait for each other and fail: TypeOK, UniqueKeys,    *)
(* EveryHandlerRan and NoCommitWhenPoisoned of EventBus.                   *)
(***************************************************************************)
EXTENDS EventBus, SequenceTheorems, TLAPS

(***************************************************************************)
(* The invariant says how far each activation of publish() on a session's  *)
(* stack has come, and who carries a key: the committed rows, or one       *)
(* session that has inserted a row with it.  Only the first publication of *)
(* a transaction has a key.                                                *)
(***************************************************************************)

\* The transaction r has inserted a row with the key.
Carries(r, key) ==
    /\ key # NoKey
    /\ \/ \E i \in DOMAIN r.rows : r.rows[i].key = key
       \/ \E i \in DOMAIN r.stack :
            r.stack[i].key = key /\ r.stack[i].phase \in {"dispatch", "running"}

\* A publication has run some of its handlers, all but one at most while one runs.
\* Those below the innermost wait for their handler; one that looks its key up is
\* the first of its transaction.
FrameOK(f, depth, r) ==
    /\ Len(f.results) <= Len(Handlers[f.type])
    /\ f.phase = "running" => Len(f.results) < Len(Handlers[f.type])
    /\ depth > 1 => f.key = NoKey
    /\ depth < Len(r.stack) => f.phase = "running"
    /\ f.phase = "lookup" => ~r.poisoned /\ f.key # NoKey
    /\ f.key # NoKey => \A j \in DOMAIN r.rows : r.rows[j].key = NoKey

Offered(row) == Len(row.results) = Len(Handlers[row.type])

SessionOK(r) ==
    /\ r \in Transactions
    /\ r.pc = "publishing" <=> r.stack # <<>>
    /\ r.pc \in {"idle", "returned"} => ~r.poisoned
    /\ r.pc = "idle" => r.rows = <<>>
    /\ \A i \in DOMAIN r.stack : FrameOK(r.stack[i], i, r)
    /\ \A i \in DOMAIN r.rows : Offered(r.rows[i])
    /\ \A i, j \in DOMAIN r.rows : r.rows[i].key # NoKey /\ r.rows[i].key = r.rows[j].key => i = j

OneCarrier ==
    /\ \A s \in Sessions, k \in Keys : Carries(tx[s], k) => ~Committed(k)
    /\ \A s, t \in Sessions, k \in Keys : Carries(tx[s], k) /\ Carries(tx[t], k) => s = t

IInv ==
    /\ TypeOK
    /\ \A s \in Sessions : SessionOK(tx[s])
    /\ OneCarrier /\ UniqueKeys /\ EveryHandlerRan

-----------------------------------------------------------------------------
(* The stack of a transaction *)

LEMMA TopOfStack ==
    ASSUME NEW stack \in Seq(Frames), stack # <<>>
    PROVE  /\ Len(stack) \in Nat \ {0} /\ Len(stack) \in DOMAIN stack
           /\ Last(stack) = stack[Len(stack)] /\ Last(stack) \in Frames
           /\ Front(stack) \in Seq(Frames) /\ Len(Front(stack)) = Len(stack) - 1
           /\ \A i \in DOMAIN Front(stack) :
                i \in DOMAIN stack /\ i < Len(stack) /\ Front(stack)[i] = stack[i]
<1>1. Len(stack) \in Nat \ {0} /\ DOMAIN stack = 1 .. Len(stack)
  BY EmptySeq
<1>2. Len(stack) \in DOMAIN stack /\ stack[Len(stack)] \in Frames
  BY <1>1, ElementOfSeq
<1>3. Front(stack) = SubSeq(stack, 1, Len(stack) - 1)
  BY DEF Front
<1>4. /\ Front(stack) \in Seq(Frames) /\ Len(Front(stack)) = Len(stack) - 1
      /\ \A i \in 1 .. Len(stack) - 1 : Front(stack)[i] = stack[i]
  BY <1>1, <1>3, SubSeqProperties
<1>5. DOMAIN Front(stack) = 1 .. Len(stack) - 1
  BY <1>1, <1>4
<1>6. QED
  BY <1>1, <1>2, <1>4, <1>5 DEF Last

LEMMA InitialSession == SessionOK(Idle)
<1>1. Idle \in Transactions
  BY DEF Idle, Transactions
<1>2. Idle.stack = <<>> /\ Idle.rows = <<>> /\ Idle.pc = "idle" /\ Idle.poisoned = FALSE
  BY DEF Idle
<1>3. QED
  BY <1>1, <1>2 DEF SessionOK

LEMMA IdleCarriesNothing == \A k : ~Carries(Idle, k)
BY DEF Carries, Idle

\* The innermost publication goes on: a new frame f in the place of the last one.
LEMMA NewTop ==
    ASSUME NEW r, SessionOK(r), r.stack # <<>>,
           NEW f \in Frames, f.type = Last(r.stack).type, f.key = Last(r.stack).key,
           f.phase # "lookup", Len(f.results) <= Len(Handlers[f.type]),
           f.phase = "running" => Len(f.results) < Len(Handlers[f.type]),
           NEW x \in Transactions, x.pc = r.pc, x.rows = r.rows, x.poisoned = r.poisoned,
           Len(x.stack) = Len(r.stack), DOMAIN x.stack = DOMAIN r.stack,
           \A i \in DOMAIN r.stack : x.stack[i] = IF i = Len(r.stack) THEN f ELSE r.stack[i]
    PROVE  /\ SessionOK(x)
           /\ \A k : Carries(x, k) => Carries(r, k) \/ k = f.key
<1> DEFINE n == Len(r.stack)
<1>1. /\ r \in Transactions /\ r.stack \in Seq(Frames) /\ n \in Nat \ {0} /\ n \in DOMAIN r.stack
      /\ Last(r.stack) = r.stack[n]
  BY TopOfStack DEF SessionOK, Transactions
<1>2. x.pc = r.pc /\ x.rows = r.rows
  OBVIOUS
<1>3. /\ Len(x.stack) = n /\ DOMAIN x.stack = DOMAIN r.stack
      /\ \A i \in DOMAIN r.stack : x.stack[i] = IF i = n THEN f ELSE r.stack[i]
  OBVIOUS
<1>5. ASSUME NEW i \in DOMAIN x.stack PROVE FrameOK(x.stack[i], i, x)
  <2>1. FrameOK(r.stack[i], i, r)
    BY <1>3, <1>5 DEF SessionOK
  <2>2. QED
    BY <1>1, <1>2, <1>3, <2>1 DEF FrameOK
<1>6. x.stack # <<>>
  BY <1>1, <1>3
<1>7. SessionOK(x)
  <2>1. /\ \A i \in DOMAIN x.rows : Offered(x.rows[i])
        /\ \A i, j \in DOMAIN x.rows : x.rows[i].key # NoKey /\ x.rows[i].key = x.rows[j].key => i = j
        /\ x.pc = "publishing" /\ x.stack # <<>>
    BY <1>2, <1>6 DEF SessionOK
  <2>2. QED
    BY <1>5, <2>1 DEF SessionOK
<1>8. \A k : Carries(x, k) => Carries(r, k) \/ k = f.key
  BY <1>2, <1>3 DEF Carries
<1>9. QED
  BY <1>7, <1>8

\* The innermost publication ends; the transaction may be poisoned by that, or have
\* a row more.
LEMMA Left ==
    ASSUME NEW r, SessionOK(r), r.stack # <<>>,
           NEW x \in Transactions, x.stack = Front(r.stack),
           x.pc = IF Len(r.stack) = 1 THEN x.pc ELSE "publishing",
           Len(r.stack) = 1 => x.pc = "raising" \/ (x.pc = "returned" /\ ~x.poisoned),
           \/ x.rows = r.rows
           \/ /\ Len(Last(r.stack).results) = Len(Handlers[Last(r.stack).type])
              /\ Last(r.stack).phase = "dispatch"
              /\ x.rows = Append(r.rows, [type |-> Last(r.stack).type, key |-> Last(r.stack).key,
                                          results |-> Last(r.stack).results])
    PROVE  /\ SessionOK(x)
           /\ \A k : Carries(x, k) => Carries(r, k)
<1> DEFINE n == Len(r.stack)
           f == Last(r.stack)
           row == [type |-> f.type, key |-> f.key, results |-> f.results]
<1>1. /\ r \in Transactions /\ r.stack \in Seq(Frames) /\ r.rows \in Seq(EventRows)
      /\ n \in Nat \ {0} /\ n \in DOMAIN r.stack /\ f = r.stack[n] /\ f \in Frames
      /\ Len(x.stack) = n - 1 /\ DOMAIN x.stack = 1 .. n - 1
      /\ \A i \in DOMAIN x.stack : i \in DOMAIN r.stack /\ i < n /\ x.stack[i] = r.stack[i]
  BY TopOfStack, LenProperties DEF SessionOK, Transactions
<1>2. FrameOK(f, n, r)
  BY <1>1 DEF SessionOK
<1>3. row \in EventRows
  BY <1>1 DEF EventRows, Frames
<1>4. \/ x.rows = r.rows
      \/ /\ Offered(row) /\ f.phase = "dispatch"
         /\ \A i \in DOMAIN x.rows : i \in DOMAIN r.rows \/ i = Len(r.rows) + 1
         /\ \A i \in DOMAIN x.rows :
              x.rows[i] = IF i = Len(r.rows) + 1 THEN row ELSE r.rows[i]
  <2>1. /\ Append(r.rows, row) \in Seq(EventRows)
        /\ Len(Append(r.rows, row)) = Len(r.rows) + 1
        /\ \A i \in 1 .. Len(r.rows) : Append(r.rows, row)[i] = r.rows[i]
        /\ Append(r.rows, row)[Len(r.rows) + 1] = row
    BY <1>1, <1>3, AppendProperties
  <2>2. /\ DOMAIN Append(r.rows, row) = 1 .. Len(r.rows) + 1
        /\ DOMAIN r.rows = 1 .. Len(r.rows) /\ Len(r.rows) \in Nat
    BY <1>1, <2>1, LenProperties
  <2>3. Len(f.results) = Len(Handlers[f.type]) => Offered(row)
    BY DEF Offered
  <2> HIDE DEF row
  <2>4. ASSUME NEW i \in DOMAIN Append(r.rows, row)
        PROVE  /\ i \in DOMAIN r.rows \/ i = Len(r.rows) + 1
               /\ Append(r.rows, row)[i] = IF i = Len(r.rows) + 1 THEN row ELSE r.rows[i]
    BY <2>1, <2>2
  <2>5. \/ x.rows = r.rows
        \/ /\ Offered(row) /\ f.phase = "dispatch" /\ x.rows = Append(r.rows, row)
    BY <2>3 DEF row
  <2>6. QED
    BY <2>4, <2>5
<1> HIDE DEF row
<1>5. row.key = f.key /\ row.type = f.type /\ row.results = f.results
  BY DEF row
<1>6. ASSUME NEW i \in DOMAIN x.stack PROVE FrameOK(x.stack[i], i, x)
  <2>1. FrameOK(r.stack[i], i, r) /\ r.stack[i].phase = "running" /\ n > 1
    BY <1>1, <1>6 DEF SessionOK, FrameOK
  <2>2. f.key = NoKey
    BY <1>2, <2>1 DEF FrameOK
  <2>3. r.stack[i].key # NoKey => \A j \in DOMAIN x.rows : x.rows[j].key = NoKey
    BY <1>4, <1>5, <2>1, <2>2 DEF FrameOK
  <2>4. QED
    BY <1>1, <1>6, <2>1, <2>3 DEF FrameOK
<1>7. \A i \in DOMAIN x.rows : Offered(x.rows[i])
  BY <1>4 DEF SessionOK
<1>8. \A i, j \in DOMAIN x.rows : x.rows[i].key # NoKey /\ x.rows[i].key = x.rows[j].key => i = j
  BY <1>2, <1>4, <1>5 DEF SessionOK, FrameOK
<1>9. x.pc = "publishing" <=> x.stack # <<>>
  <2>1. n = 1 <=> x.stack = <<>>
    <3>1. x.stack \in Seq(Frames)
      BY DEF Transactions
    <3>2. (x.stack # <<>> => Len(x.stack) \in Nat \ {0}) /\ (x.stack = <<>> => Len(x.stack) = 0)
      BY <3>1, EmptySeq
    <3>3. QED
      BY <1>1, <3>2
  <2>2. QED
    BY <1>1, <2>1
<1>10. SessionOK(x)
  BY <1>6, <1>7, <1>8, <1>9 DEF SessionOK
<1>11. ASSUME NEW k, Carries(x, k) PROVE Carries(r, k)
  <2>1. CASE \E i \in DOMAIN x.rows : x.rows[i].key = k
    <3>1. PICK i \in DOMAIN x.rows : x.rows[i].key = k
      BY <2>1
    <3>2. CASE i \in DOMAIN r.rows /\ x.rows[i] = r.rows[i]
      BY <1>11, <3>1, <3>2 DEF Carries
    <3>3. CASE f.phase = "dispatch" /\ x.rows[i] = row
      BY <1>1, <1>5, <1>11, <3>1, <3>3 DEF Carries
    <3>4. QED
      BY <1>4, <3>1, <3>2, <3>3
  <2>2. CASE \E i \in DOMAIN x.stack :
               x.stack[i].key = k /\ x.stack[i].phase \in {"dispatch", "running"}
    BY <1>1, <1>11, <2>2 DEF Carries
  <2>3. QED
    BY <1>11, <2>1, <2>2 DEF Carries
<1>12. QED
  BY <1>10, <1>11

\* A publication begins, and stands above those the transaction has in progress.
LEMMA Begun ==
    ASSUME NEW r, SessionOK(r), NEW type \in Types, NEW key \in Keys \cup {NoKey},
           r.stack # <<>> => key = NoKey /\ Last(r.stack).phase = "running",
           key # NoKey => r.rows = <<>> /\ ~r.poisoned,
           NEW x \in Transactions, x.stack = Append(r.stack, NewFrame(type, key)),
           x.pc = "publishing", x.rows = r.rows, x.poisoned = r.poisoned
    PROVE  /\ SessionOK(x)
           /\ \A k : Carries(x, k) => Carries(r, k)
<1> DEFINE n == Len(r.stack)
           f == NewFrame(type, key)
<1>1. /\ r.stack \in Seq(Frames) /\ n \in Nat /\ DOMAIN r.stack = 1 .. n
      /\ r.rows \in Seq(EventRows)
  BY LenProperties DEF SessionOK, Transactions
<1>2. /\ f \in Frames /\ f.type = type /\ f.key = key /\ f.results = <<>> /\ Len(f.results) = 0
      /\ f.phase = (IF key = NoKey THEN "create" ELSE "lookup")
  BY RegistryAssumption, EmptySeq DEF NewFrame, Frames
<1> HIDE DEF f
<1>3. /\ x.stack # <<>> /\ DOMAIN x.stack = 1 .. n + 1 /\ Len(x.stack) = n + 1
      /\ \A i \in DOMAIN x.stack : x.stack[i] = IF i = n + 1 THEN f ELSE r.stack[i]
  <2>1. /\ x.stack \in Seq(Frames) /\ x.stack # <<>> /\ Len(x.stack) = n + 1
        /\ \A i \in 1 .. n : x.stack[i] = r.stack[i]
        /\ x.stack[n + 1] = f
    BY <1>1, <1>2, AppendProperties DEF f
  <2>2. DOMAIN x.stack = 1 .. n + 1
    BY <2>1, LenProperties
  <2>3. QED
    BY <1>1, <2>1, <2>2
<1>4. Len(Handlers[type]) \in Nat
  BY RegistryAssumption, LenProperties
<1>5. ASSUME NEW i \in DOMAIN x.stack PROVE FrameOK(x.stack[i], i, x)
  <2>1. CASE i = n + 1
    <3>1. key # NoKey => n = 0 /\ \A j \in DOMAIN x.rows : x.rows[j].key = NoKey
      BY <1>1, EmptySeq, LenProperties
    <3>2. QED
      BY <1>1, <1>2, <1>3, <1>4, <2>1, <3>1 DEF FrameOK
  <2>2. CASE i # n + 1
    <3>1. i \in DOMAIN r.stack /\ x.stack[i] = r.stack[i] /\ FrameOK(r.stack[i], i, r)
      BY <1>1, <1>3, <2>2 DEF SessionOK
    <3>2. r.stack[i].phase = "running"
      <4>1. n # 0 /\ r.stack # <<>> /\ Last(r.stack) = r.stack[n]
        BY <1>1, <3>1, EmptySeq DEF Last
      <4>2. QED
        BY <1>1, <3>1, <4>1 DEF FrameOK
    <3>3. QED
      BY <3>1, <3>2 DEF FrameOK
  <2>3. QED
    BY <2>1, <2>2
<1>6. /\ \A i \in DOMAIN x.rows : Offered(x.rows[i])
      /\ \A i, j \in DOMAIN x.rows : x.rows[i].key # NoKey /\ x.rows[i].key = x.rows[j].key => i = j
  BY DEF SessionOK
<1>7. SessionOK(x)
  BY <1>3, <1>5, <1>6 DEF SessionOK
<1>8. \A k : Carries(x, k) => Carries(r, k)
  BY <1>1, <1>2, <1>3 DEF Carries
<1>9. QED
  BY <1>7, <1>8

-----------------------------------------------------------------------------
(* The sessions together *)

LEMMA Stacks ==
    ASSUME IInv, NEW s \in Sessions
    PROVE  /\ SessionOK(tx[s]) /\ tx[s] \in Transactions /\ tx[s].stack \in Seq(Frames)
           /\ tx[s].stack # <<>> => /\ Frame(s) = Last(tx[s].stack) /\ Frame(s) \in Frames
                                    /\ Frame(s) = tx[s].stack[Len(tx[s].stack)]
                                    /\ FrameOK(Frame(s), Len(tx[s].stack), tx[s])
                                    /\ Len(tx[s].stack) \in Nat \ {0}
<1>1. SessionOK(tx[s]) /\ tx[s] \in Transactions /\ tx[s].stack \in Seq(Frames)
  BY DEF IInv, SessionOK, Transactions
<1>2. QED
  BY <1>1, TopOfStack DEF Frame, SessionOK

\* A step of s that commits nothing: it becomes x, and carries no key that was
\* not its own or free.
LEMMA SessionStep ==
    ASSUME IInv, NEW s \in Sessions, NEW x, tx' = [tx EXCEPT ![s] = x], events' = events,
           SessionOK(x),
           \A k \in Keys : Carries(x, k) =>
             \/ Carries(tx[s], k)
             \/ ~Committed(k) /\ \A t \in Sessions \ {s} : ~Carries(tx[t], k)
    PROVE  IInv'
<1>1. \A t \in Sessions : tx'[t] = IF t = s THEN x ELSE tx[t]
  BY DEF IInv, TypeOK
<1>2. TypeOK'
  BY DEF IInv, TypeOK, SessionOK
<1>3. \A t \in Sessions : SessionOK(tx'[t])
  BY <1>1 DEF IInv
<1>4. \A k : Committed(k)' = Committed(k)
  BY DEF Committed
<1>5. OneCarrier'
  <2>1. ASSUME NEW t \in Sessions, NEW k \in Keys, Carries(tx'[t], k) PROVE ~Committed(k)
    BY <1>1, <2>1 DEF IInv, OneCarrier
  <2>2. ASSUME NEW t \in Sessions, NEW u \in Sessions, NEW k \in Keys,
               Carries(tx'[t], k), Carries(tx'[u], k)
        PROVE  t = u
    BY <1>1, <2>2 DEF IInv, OneCarrier
  <2>3. QED
    BY <1>4, <2>1, <2>2 DEF OneCarrier
<1>6. UniqueKeys' /\ EveryHandlerRan'
  BY DEF IInv, UniqueKeys, EveryHandlerRan
<1>7. QED
  BY <1>2, <1>3, <1>5, <1>6 DEF IInv

LEMMA PublishOK ==
    ASSUME IInv, NEW s \in Sessions, NEW type \in Types, NEW key \in Keys \cup {NoKey},
           Publish(s, type, key)
    PROVE  IInv'
<1> DEFINE f == NewFrame(type, key)
<1>1. f \in Frames /\ <<f>> = Append(<<>>, f) /\ <<f>> \in Seq(Frames)
  BY RegistryAssumption, EmptySeq DEF NewFrame, Frames
<1> HIDE DEF f
<1>2. CASE tx[s].pc = "idle"
  <2>1. PICK guarded \in BOOLEAN :
          tx' = [tx EXCEPT ![s] = [Idle EXCEPT !.pc = "publishing", !.savepoint = guarded,
                                               !.calls = 1, !.stack = <<f>>]]
    BY <1>2 DEF Publish, f
  <2> DEFINE x == [Idle EXCEPT !.pc = "publishing", !.savepoint = guarded, !.calls = 1,
                               !.stack = <<f>>]
  <2>2. /\ x \in Transactions /\ x.stack = <<f>> /\ x.pc = "publishing"
        /\ x.rows = Idle.rows /\ x.poisoned = Idle.poisoned
        /\ Idle.stack = <<>> /\ Idle.rows = <<>> /\ ~Idle.poisoned
    <3>1. /\ Idle \in Transactions /\ Idle.stack = <<>> /\ Idle.rows = <<>> /\ ~Idle.poisoned
      BY InitialSession DEF SessionOK, Idle
    <3>2. /\ x.stack = <<f>> /\ x.pc = "publishing" /\ x.savepoint = guarded /\ x.calls = 1
          /\ x.rows = Idle.rows /\ x.poisoned = Idle.poisoned /\ x.blame = Idle.blame
      BY <3>1 DEF Transactions
    <3>3. x \in Transactions
      BY <1>1, <3>1, <3>2 DEF Transactions
    <3>4. QED
      BY <3>1, <3>2, <3>3
  <2> HIDE DEF x
  <2>3. SessionOK(x) /\ \A k : Carries(x, k) => Carries(Idle, k)
    BY <1>1, <2>2, InitialSession, Begun DEF f
  <2>4. QED
    BY <2>1, <2>3, IdleCarriesNothing, SessionStep DEF Publish, x
<1>3. CASE tx[s].pc = "returned" /\ key = NoKey
  <2>0. PICK guarded \in {FALSE, tx[s].savepoint} :
          tx' = [tx EXCEPT ![s].pc = "publishing", ![s].savepoint = guarded,
                           ![s].calls = @ + 1, ![s].stack = <<f>>]
    BY <1>3 DEF Publish, f
  <2> DEFINE x == [tx[s] EXCEPT !.pc = "publishing", !.savepoint = guarded,
                                !.calls = @ + 1, !.stack = <<f>>]
  <2>1. tx' = [tx EXCEPT ![s] = x]
    BY <2>0 DEF IInv, TypeOK
  <2>2. /\ SessionOK(tx[s]) /\ tx[s] \in Transactions /\ tx[s].stack = <<>>
    BY <1>3, Stacks DEF SessionOK
  <2>3. /\ x \in Transactions /\ x.stack = <<f>> /\ x.pc = "publishing"
        /\ x.rows = tx[s].rows /\ x.poisoned = tx[s].poisoned
    <3>1. /\ x.stack = <<f>> /\ x.pc = "publishing" /\ x.calls = tx[s].calls + 1
          /\ x.rows = tx[s].rows /\ x.poisoned = tx[s].poisoned
          /\ x.blame = tx[s].blame /\ x.savepoint = guarded
      BY <2>2 DEF Transactions
    <3>2. tx[s].calls + 1 \in Nat /\ tx[s].savepoint \in BOOLEAN
      BY <2>2 DEF Transactions
    <3>3. guarded \in BOOLEAN
      BY <2>0, <3>2
    <3>4. x \in Transactions
      BY <1>1, <2>2, <3>1, <3>2, <3>3 DEF Transactions
    <3>5. QED
      BY <3>1, <3>4
  <2> HIDE DEF x
  <2>4. SessionOK(x) /\ \A k : Carries(x, k) => Carries(tx[s], k)
    BY <1>1, <1>3, <2>2, <2>3, Begun DEF f
  <2>5. QED
    BY <2>1, <2>4, SessionStep DEF Publish
<1>4. QED
  BY <1>2, <1>3 DEF Publish

\* The innermost publication of s goes on, and its key, if it has one, is its own.
LEMMA TopStep ==
    ASSUME IInv, NEW s \in Sessions, tx[s].stack # <<>>,
           NEW f \in Frames, f.type = Frame(s).type, f.key = Frame(s).key, f.phase # "lookup",
           Len(f.results) <= Len(Handlers[f.type]),
           f.phase = "running" => Len(f.results) < Len(Handlers[f.type]),
           f.key = NoKey \/ Frame(s).phase \in {"dispatch", "running"} \/ f.phase = "create"
             \/ (~Committed(f.key) /\ \A t \in Sessions \ {s} : ~Carries(tx[t], f.key)),
           tx' = [tx EXCEPT ![s] = [tx[s] EXCEPT !.stack[Len(tx[s].stack)] = f]],
           events' = events
    PROVE  IInv'
<1> DEFINE x == [tx[s] EXCEPT !.stack[Len(tx[s].stack)] = f]
<1>1. /\ SessionOK(tx[s]) /\ tx[s] \in Transactions /\ tx[s].stack \in Seq(Frames)
      /\ Frame(s) = Last(tx[s].stack) /\ Frame(s) = tx[s].stack[Len(tx[s].stack)]
      /\ Len(tx[s].stack) \in DOMAIN tx[s].stack
  BY Stacks, TopOfStack
<1>2. SessionOK(x) /\ \A k : Carries(x, k) => Carries(tx[s], k) \/ k = f.key
  <2>1. /\ x.stack = [tx[s].stack EXCEPT ![Len(tx[s].stack)] = f]
        /\ x.pc = tx[s].pc /\ x.rows = tx[s].rows /\ x.poisoned = tx[s].poisoned
        /\ x.blame = tx[s].blame /\ x.savepoint = tx[s].savepoint /\ x.calls = tx[s].calls
    BY <1>1 DEF Transactions
  <2>2. /\ x.stack \in Seq(Frames)
        /\ Len(x.stack) = Len(tx[s].stack) /\ DOMAIN x.stack = DOMAIN tx[s].stack
        /\ \A i \in DOMAIN tx[s].stack :
             x.stack[i] = IF i = Len(tx[s].stack) THEN f ELSE tx[s].stack[i]
    BY <1>1, <2>1, LenProperties, ExceptSeq
  <2>3. x \in Transactions
    BY <1>1, <2>1, <2>2 DEF Transactions
  <2> HIDE DEF x
  <2>4. QED
    <3>1. PICK r : r = tx[s]
      OBVIOUS
    <3>2. PICK y : y = x
      OBVIOUS
    <3>3. SessionOK(r) /\ r.stack # <<>> /\ f.type = Last(r.stack).type /\ f.key = Last(r.stack).key
      BY <1>1, <3>1
    <3>4. y \in Transactions /\ y.pc = r.pc /\ y.rows = r.rows /\ y.poisoned = r.poisoned
      BY <2>1, <2>3, <3>1, <3>2
    <3>5. /\ Len(y.stack) = Len(r.stack) /\ DOMAIN y.stack = DOMAIN r.stack
          /\ \A i \in DOMAIN r.stack : y.stack[i] = IF i = Len(r.stack) THEN f ELSE r.stack[i]
      BY <2>2, <3>1, <3>2
    <3>6. SessionOK(y) /\ \A k : Carries(y, k) => Carries(r, k) \/ k = f.key
      BY <3>3, <3>4, <3>5, NewTop
    <3>7. QED
      BY <3>1, <3>2, <3>6
<1>3. f.phase = "create" => \A k : Carries(x, k) => Carries(tx[s], k)
  <2>1. /\ x.rows = tx[s].rows /\ DOMAIN x.stack = DOMAIN tx[s].stack
        /\ \A i \in DOMAIN tx[s].stack :
             x.stack[i] = IF i = Len(tx[s].stack) THEN f ELSE tx[s].stack[i]
    BY <1>1 DEF Transactions
  <2>2. QED
    BY <2>1 DEF Carries
<1>4. f.key # NoKey /\ Frame(s).phase \in {"dispatch", "running"} => Carries(tx[s], f.key)
  BY <1>1 DEF Carries
<1> HIDE DEF x
<1>5. \A k \in Keys : Carries(x, k) =>
        \/ Carries(tx[s], k)
        \/ ~Committed(k) /\ \A t \in Sessions \ {s} : ~Carries(tx[t], k)
  <2>1. \A k : Carries(x, k) => k # NoKey
    BY DEF Carries
  <2>2. QED
    BY <1>2, <1>3, <1>4, <2>1
<1>6. QED
  BY <1>2, <1>5, SessionStep DEF x

\* The innermost publication of s ends.
LEMMA EndStep ==
    ASSUME IInv, NEW s \in Sessions, tx[s].stack # <<>>,
           NEW rows \in Seq(EventRows), NEW poisoned \in BOOLEAN,
           NEW rootPc \in {"returned", "raising"},
           rootPc = "returned" /\ Len(tx[s].stack) = 1 => ~poisoned,
           NEW x \in Transactions, x.pc = IF IsRoot(s) THEN rootPc ELSE "publishing",
           x.stack = Pop(s), x.rows = rows, x.poisoned = poisoned,
           \/ rows = tx[s].rows
           \/ /\ Len(Frame(s).results) = Len(Handlers[Frame(s).type])
              /\ Frame(s).phase = "dispatch"
              /\ rows = Append(tx[s].rows, [type |-> Frame(s).type, key |-> Frame(s).key,
                                            results |-> Frame(s).results]),
           tx' = [tx EXCEPT ![s] = x], events' = events
    PROVE  IInv'
<1>1. /\ SessionOK(tx[s]) /\ tx[s] \in Transactions /\ tx[s].stack \in Seq(Frames)
      /\ Frame(s) = Last(tx[s].stack) /\ Front(tx[s].stack) \in Seq(Frames)
  BY Stacks, TopOfStack
<1>2. /\ x.stack = Front(tx[s].stack)
      /\ x.pc = IF Len(tx[s].stack) = 1 THEN x.pc ELSE "publishing"
      /\ Len(tx[s].stack) = 1 => x.pc = "raising" \/ (x.pc = "returned" /\ ~x.poisoned)
  BY DEF Pop, IsRoot
<1>3. SessionOK(x) /\ \A k : Carries(x, k) => Carries(tx[s], k)
  BY <1>1, <1>2, Left
<1>4. QED
  BY <1>3, SessionStep

\* What publish() returns and raises.
LEMMA WaysOut ==
    ASSUME IInv, NEW s \in Sessions, tx[s].stack # <<>>, NEW rootPc \in {"returned", "raising"}
    PROVE  LET x == Leave(s, rootPc)
           IN  /\ x \in Transactions /\ x.pc = IF IsRoot(s) THEN rootPc ELSE "publishing"
               /\ x.stack = Pop(s) /\ x.rows = tx[s].rows /\ x.poisoned = tx[s].poisoned
               /\ tx[s].rows \in Seq(EventRows) /\ tx[s].poisoned \in BOOLEAN
<1> DEFINE x == Leave(s, rootPc)
<1>1. tx[s] \in Transactions /\ Pop(s) \in Seq(Frames)
  BY Stacks, TopOfStack DEF Pop
<1>2. /\ x.pc = (IF IsRoot(s) THEN rootPc ELSE "publishing")
      /\ x.stack = Pop(s) /\ x.rows = tx[s].rows /\ x.poisoned = tx[s].poisoned
      /\ x.blame = tx[s].blame /\ x.savepoint = tx[s].savepoint /\ x.calls = tx[s].calls
  BY <1>1 DEF Leave, Transactions
<1>3. x \in Transactions
  BY <1>1, <1>2 DEF Leave, Transactions
<1>4. QED
  BY <1>1, <1>2, <1>3 DEF Transactions

LEMMA LookUpOK ==
    ASSUME IInv, NEW s \in Sessions, LookUp(s)
    PROVE  IInv'
<1>1. /\ tx[s].stack # <<>> /\ Frame(s).phase = "lookup" /\ ~tx[s].poisoned
      /\ Frame(s) \in Frames /\ Frame(s) = tx[s].stack[Len(tx[s].stack)]
      /\ FrameOK(Frame(s), Len(tx[s].stack), tx[s])
  BY Stacks DEF LookUp, InPhase, FrameOK
<1>2. CASE Committed(Frame(s).key)
  <2> DEFINE x == Leave(s, "returned")
  <2>1. tx' = [tx EXCEPT ![s] = x] /\ events' = events
    BY <1>2 DEF LookUp, Returned
  <2>2. /\ x \in Transactions /\ x.pc = (IF IsRoot(s) THEN "returned" ELSE "publishing")
        /\ x.stack = Pop(s) /\ x.rows = tx[s].rows /\ x.poisoned = tx[s].poisoned
        /\ tx[s].rows \in Seq(EventRows) /\ tx[s].poisoned \in BOOLEAN
    BY <1>1, WaysOut
  <2> HIDE DEF x
  <2>3. QED
    BY <1>1, <2>1, <2>2, EndStep
<1>3. CASE ~Committed(Frame(s).key)
  <2> DEFINE f == [Frame(s) EXCEPT !.phase = "create"]
  <2>1. /\ tx' = [tx EXCEPT ![s] = [tx[s] EXCEPT !.stack[Len(tx[s].stack)] = f]]
        /\ events' = events
    BY <1>1, <1>3 DEF LookUp
  <2>2. /\ f \in Frames /\ f.type = Frame(s).type /\ f.key = Frame(s).key /\ f.phase = "create"
        /\ f.results = Frame(s).results
    BY <1>1 DEF Frames
  <2> HIDE DEF f
  <2>3. QED
    BY <1>1, <2>1, <2>2, TopStep DEF FrameOK
<1>4. QED
  BY <1>2, <1>3

LEMMA CreateOK ==
    ASSUME IInv, NEW s \in Sessions, Create(s)
    PROVE  IInv'
<1>1. /\ tx[s].stack # <<>> /\ Frame(s).phase = "create" /\ events' = events
      /\ Frame(s) \in Frames /\ Frame(s) = tx[s].stack[Len(tx[s].stack)]
      /\ FrameOK(Frame(s), Len(tx[s].stack), tx[s])
      /\ tx[s] \in Transactions
  BY Stacks DEF Create, InPhase
<1> DEFINE x == Leave(s, "raising")
<1>2. /\ x \in Transactions /\ x.pc = (IF IsRoot(s) THEN "raising" ELSE "publishing")
      /\ x.stack = Pop(s) /\ x.rows = tx[s].rows /\ x.poisoned = tx[s].poisoned
      /\ tx[s].rows \in Seq(EventRows) /\ tx[s].poisoned \in BOOLEAN
  BY <1>1, WaysOut
<1>3. CASE tx[s].poisoned
  <2>1. tx' = [tx EXCEPT ![s] = x]
    BY <1>3 DEF Create, Raised
  <2> HIDE DEF x
  <2>2. QED
    BY <1>1, <1>2, <2>1, EndStep
<1>4. CASE ~tx[s].poisoned /\ Committed(Frame(s).key)
  <2> DEFINE y == [x EXCEPT !.poisoned = TRUE, !.blame = "duplicate"]
  <2>1. tx' = [tx EXCEPT ![s] = y]
    BY <1>4 DEF Create, Raised
  <2> HIDE DEF x
  <2>2. /\ y.pc = x.pc /\ y.stack = x.stack /\ y.rows = x.rows /\ y.poisoned = TRUE
        /\ y.blame = "duplicate" /\ y.savepoint = x.savepoint /\ y.calls = x.calls
    BY <1>2 DEF Transactions
  <2>3. y \in Transactions
    BY <1>2, <2>2 DEF Transactions
  <2> HIDE DEF y
  <2>4. QED
    BY <1>1, <1>2, <2>1, <2>2, <2>3, EndStep
<1>5. CASE ~tx[s].poisoned /\ ~Committed(Frame(s).key)
  <2> DEFINE f == [Frame(s) EXCEPT !.phase = "dispatch"]
  <2>1. tx' = [tx EXCEPT ![s] = [tx[s] EXCEPT !.stack[Len(tx[s].stack)] = f]]
    BY <1>1, <1>5 DEF Create
  <2>2. /\ f \in Frames /\ f.type = Frame(s).type /\ f.key = Frame(s).key /\ f.phase = "dispatch"
        /\ f.results = Frame(s).results
    BY <1>1 DEF Frames
  <2>3. \A t \in Sessions \ {s} : ~Carries(tx[t], Frame(s).key)
    BY DEF Create, Inserted, Carries
  <2> HIDE DEF f
  <2>4. QED
    BY <1>1, <1>5, <2>1, <2>2, <2>3, TopStep DEF FrameOK
<1>6. QED
  BY <1>3, <1>4, <1>5

LEMMA CallOK ==
    ASSUME IInv, NEW s \in Sessions, Call(s)
    PROVE  IInv'
<1> DEFINE f == [Frame(s) EXCEPT !.phase = "running"]
<1>1. /\ tx[s].stack # <<>> /\ Frame(s).phase = "dispatch" /\ events' = events
      /\ Frame(s) \in Frames /\ Frame(s) = tx[s].stack[Len(tx[s].stack)]
  BY Stacks DEF Call, InPhase
<1>2. tx' = [tx EXCEPT ![s] = [tx[s] EXCEPT !.stack[Len(tx[s].stack)] = f]]
  BY <1>1 DEF Call
<1>3. /\ f \in Frames /\ f.type = Frame(s).type /\ f.key = Frame(s).key /\ f.phase = "running"
      /\ f.results = Frame(s).results
  BY <1>1 DEF Frames
<1>4. Len(Frame(s).results) < Len(Handlers[Frame(s).type])
  <2>1. Len(Frame(s).results) \in Nat /\ Len(Handlers[Frame(s).type]) \in Nat
    BY <1>1, RegistryAssumption, LenProperties DEF Frames
  <2>2. QED
    BY <2>1 DEF Call, HandlersLeft, Position
<1> HIDE DEF f
<1>5. Len(f.results) <= Len(Handlers[f.type])
  BY <1>1, <1>3, Stacks DEF FrameOK
<1>6. QED
  BY <1>1, <1>2, <1>3, <1>4, <1>5, TopStep

\* A handler that is done with has one place more, and one that is tried again none.
LEMMA HandlerDone ==
    ASSUME IInv, NEW s \in Sessions, InPhase(s, "running"), events' = events,
           NEW outcome \in Outcomes,
           tx' = [tx EXCEPT ![s] = [tx[s] EXCEPT !.stack[Len(tx[s].stack)] = Done(Frame(s), outcome)]]
    PROVE  IInv'
<1> DEFINE f == Done(Frame(s), outcome)
<1>1. /\ tx[s].stack # <<>> /\ Frame(s).phase = "running" /\ Frame(s) \in Frames
      /\ FrameOK(Frame(s), Len(tx[s].stack), tx[s])
      /\ Frame(s).results \in Seq(Outcomes) /\ Len(Frame(s).results) \in Nat
      /\ Len(Handlers[Frame(s).type]) \in Nat
  BY Stacks, RegistryAssumption, LenProperties DEF InPhase, Frames
<1>2. /\ Append(Frame(s).results, outcome) \in Seq(Outcomes)
      /\ Len(Append(Frame(s).results, outcome)) = Len(Frame(s).results) + 1
  BY <1>1, AppendProperties
<1>3. /\ f \in Frames /\ f.type = Frame(s).type /\ f.key = Frame(s).key /\ f.phase = "dispatch"
      /\ f.results = Append(Frame(s).results, outcome)
  <2>1. /\ f.type = Frame(s).type /\ f.key = Frame(s).key /\ f.phase = "dispatch"
        /\ f.attempt = 0 /\ f.results = Append(Frame(s).results, outcome)
    BY <1>1 DEF Done, Frames
  <2>2. 0 \in 0 .. MaxRetries
    BY RegistryAssumption
  <2>3. f \in Frames
    BY <1>1, <1>2, <2>1, <2>2 DEF Done, Frames
  <2>4. QED
    BY <2>1, <2>3
<1>4. tx' = [tx EXCEPT ![s] = [tx[s] EXCEPT !.stack[Len(tx[s].stack)] = f]]
  OBVIOUS
<1> HIDE DEF f
<1>5. Len(f.results) <= Len(Handlers[f.type])
  BY <1>1, <1>2, <1>3 DEF FrameOK
<1>6. QED
  BY <1>1, <1>3, <1>4, <1>5, TopStep

LEMMA HandlerReturnsOK ==
    ASSUME IInv, NEW s \in Sessions, HandlerReturns(s)
    PROVE  IInv'
<1>1. InPhase(s, "running") /\ events' = events
  BY DEF HandlerReturns
<1>2. tx' = [tx EXCEPT ![s] = [tx[s] EXCEPT !.stack[Len(tx[s].stack)] = Done(Frame(s), "success")]]
  BY <1>1, Stacks DEF HandlerReturns, InPhase
<1>3. QED
  BY <1>1, <1>2, HandlerDone DEF Outcomes

LEMMA HandlerRaisesOK ==
    ASSUME IInv, NEW s \in Sessions, HandlerRaises(s)
    PROVE  IInv'
<1>1. /\ InPhase(s, "running") /\ events' = events
      /\ tx[s].stack # <<>> /\ Frame(s).phase = "running" /\ Frame(s) \in Frames
      /\ Frame(s) = tx[s].stack[Len(tx[s].stack)]
      /\ FrameOK(Frame(s), Len(tx[s].stack), tx[s])
  BY Stacks DEF HandlerRaises, InPhase
<1>2. CASE Frame(s).attempt < MaxRetries
  <2> DEFINE f == Retry(Frame(s))
  <2>1. tx' = [tx EXCEPT ![s] = [tx[s] EXCEPT !.stack[Len(tx[s].stack)] = f]]
    BY <1>1, <1>2 DEF HandlerRaises
  <2>2. /\ f \in Frames /\ f.type = Frame(s).type /\ f.key = Frame(s).key /\ f.phase = "dispatch"
        /\ f.results = Frame(s).results
    <3>1. /\ f.type = Frame(s).type /\ f.key = Frame(s).key /\ f.phase = "dispatch"
          /\ f.attempt = Frame(s).attempt + 1 /\ f.results = Frame(s).results
      BY <1>1 DEF Retry, Frames
    <3>2. Frame(s).attempt + 1 \in 0 .. MaxRetries
      BY <1>1, <1>2, RegistryAssumption DEF Frames
    <3>3. f \in Frames
      BY <1>1, <3>1, <3>2 DEF Retry, Frames
    <3>4. QED
      BY <3>1, <3>3
  <2> HIDE DEF f
  <2>3. Len(f.results) <= Len(Handlers[f.type])
    BY <1>1, <2>2 DEF FrameOK
  <2>4. QED
    BY <1>1, <2>1, <2>2, <2>3, TopStep
<1>3. CASE ~(Frame(s).attempt < MaxRetries)
  <2>1. tx' = [tx EXCEPT ![s] = [tx[s] EXCEPT !.stack[Len(tx[s].stack)] = Done(Frame(s), "failed")]]
    BY <1>1, <1>3 DEF HandlerRaises
  <2>2. QED
    BY <1>1, <2>1, HandlerDone DEF Outcomes
<1>4. QED
  BY <1>2, <1>3

\* The session is poisoned while a handler runs, when no publication of it looks
\* its key up.
LEMMA HandlerBreaksSessionOK ==
    ASSUME IInv, NEW s \in Sessions, HandlerBreaksSession(s)
    PROVE  IInv'
<1> DEFINE x == [tx[s] EXCEPT !.poisoned = TRUE, !.blame = "handler"]
<1>1. tx' = [tx EXCEPT ![s] = x] /\ events' = events
  BY DEF HandlerBreaksSession
<1>2. /\ SessionOK(tx[s]) /\ tx[s] \in Transactions /\ tx[s].stack \in Seq(Frames)
      /\ tx[s].stack # <<>> /\ Frame(s).phase = "running"
      /\ Frame(s) = tx[s].stack[Len(tx[s].stack)]
      /\ DOMAIN tx[s].stack = 1 .. Len(tx[s].stack) /\ Len(tx[s].stack) \in Nat
  BY Stacks, LenProperties DEF HandlerBreaksSession, InPhase
<1>3. /\ x.pc = tx[s].pc /\ x.stack = tx[s].stack /\ x.rows = tx[s].rows /\ x.poisoned = TRUE
      /\ x.blame = "handler" /\ x.savepoint = tx[s].savepoint /\ x.calls = tx[s].calls
  BY <1>2 DEF Transactions
<1>4. x \in Transactions
  BY <1>2, <1>3 DEF Transactions
<1> HIDE DEF x
<1>5. ASSUME NEW i \in DOMAIN x.stack PROVE FrameOK(x.stack[i], i, x)
  <2>1. FrameOK(tx[s].stack[i], i, tx[s]) /\ x.stack[i] = tx[s].stack[i]
    BY <1>2, <1>3, <1>5 DEF SessionOK
  <2>2. tx[s].stack[i].phase = "running"
    BY <1>2, <1>3, <1>5, <2>1 DEF FrameOK
  <2>3. QED
    BY <1>3, <2>1, <2>2 DEF FrameOK
<1>6. /\ \A i \in DOMAIN x.rows : Offered(x.rows[i])
      /\ \A i, j \in DOMAIN x.rows : x.rows[i].key # NoKey /\ x.rows[i].key = x.rows[j].key => i = j
      /\ x.pc = "publishing" /\ x.stack # <<>>
  BY <1>2, <1>3 DEF SessionOK
<1>7. SessionOK(x)
  BY <1>4, <1>5, <1>6 DEF SessionOK
<1>8. \A k : Carries(x, k) => Carries(tx[s], k)
  BY <1>3 DEF Carries
<1>9. QED
  BY <1>1, <1>7, <1>8, SessionStep

LEMMA HandlerPublishesOK ==
    ASSUME IInv, NEW s \in Sessions, NEW type \in Types, HandlerPublishes(s, type)
    PROVE  IInv'
<1> DEFINE f == NewFrame(type, NoKey)
           x == [tx[s] EXCEPT !.calls = @ + 1, !.stack = Append(@, f)]
<1>1. tx' = [tx EXCEPT ![s] = x] /\ events' = events
  BY DEF HandlerPublishes
<1>2. /\ SessionOK(tx[s]) /\ tx[s] \in Transactions /\ tx[s].stack \in Seq(Frames)
      /\ tx[s].stack # <<>> /\ Last(tx[s].stack).phase = "running"
      /\ tx[s].pc = "publishing"
  BY Stacks DEF HandlerPublishes, InPhase, SessionOK
<1>3. f \in Frames
  BY RegistryAssumption, EmptySeq DEF NewFrame, Frames
<1>4. Append(tx[s].stack, f) \in Seq(Frames) /\ tx[s].calls + 1 \in Nat
  BY <1>2, <1>3, AppendProperties DEF Transactions
<1>5. /\ x.pc = "publishing" /\ x.stack = Append(tx[s].stack, f) /\ x.rows = tx[s].rows
      /\ x.poisoned = tx[s].poisoned /\ x.blame = tx[s].blame
      /\ x.savepoint = tx[s].savepoint /\ x.calls = tx[s].calls + 1
  BY <1>2 DEF Transactions
<1>6. x \in Transactions
  BY <1>2, <1>4, <1>5 DEF Transactions
<1> HIDE DEF x
<1>7. SessionOK(x) /\ \A k : Carries(x, k) => Carries(tx[s], k)
  BY <1>2, <1>5, <1>6, Begun
<1>8. QED
  BY <1>1, <1>7, SessionStep

LEMMA FinishOK ==
    ASSUME IInv, NEW s \in Sessions, Finish(s)
    PROVE  IInv'
<1> DEFINE row == [type |-> Frame(s).type, key |-> Frame(s).key, results |-> Frame(s).results]
<1>1. /\ tx[s].stack # <<>> /\ Frame(s).phase = "dispatch" /\ events' = events
      /\ Frame(s) \in Frames /\ FrameOK(Frame(s), Len(tx[s].stack), tx[s])
      /\ tx[s] \in Transactions
  BY Stacks DEF Finish, InPhase
<1>2. CASE tx[s].poisoned
  <2> DEFINE x == Leave(s, "raising")
  <2>1. tx' = [tx EXCEPT ![s] = x]
    BY <1>2 DEF Finish, Raised
  <2>2. /\ x \in Transactions /\ x.pc = (IF IsRoot(s) THEN "raising" ELSE "publishing")
        /\ x.stack = Pop(s) /\ x.rows = tx[s].rows /\ x.poisoned = tx[s].poisoned
        /\ tx[s].rows \in Seq(EventRows) /\ tx[s].poisoned \in BOOLEAN
    BY <1>1, WaysOut
  <2> HIDE DEF x
  <2>3. QED
    BY <1>1, <2>1, <2>2, EndStep
<1>3. CASE ~tx[s].poisoned
  <2> DEFINE x == Leave(s, "returned")
             y == [x EXCEPT !.rows = Append(@, row)]
  <2>1. /\ x \in Transactions /\ x.pc = (IF IsRoot(s) THEN "returned" ELSE "publishing")
        /\ x.stack = Pop(s) /\ x.rows = tx[s].rows /\ x.poisoned = tx[s].poisoned
        /\ tx[s].rows \in Seq(EventRows) /\ tx[s].poisoned \in BOOLEAN
    BY <1>1, WaysOut
  <2>2. tx' = [tx EXCEPT ![s] = y]
    BY <1>3 DEF Finish, Returned
  <2> HIDE DEF x
  <2>3. row \in EventRows /\ Append(tx[s].rows, row) \in Seq(EventRows)
    <3>1. row \in EventRows
      BY <1>1 DEF Frames, EventRows
    <3>2. QED
      BY <2>1, <3>1, AppendProperties
  <2>4. /\ y.pc = x.pc /\ y.stack = x.stack /\ y.rows = Append(tx[s].rows, row)
        /\ y.poisoned = FALSE /\ y.blame = x.blame
        /\ y.savepoint = x.savepoint /\ y.calls = x.calls
    BY <1>3, <2>1 DEF Transactions
  <2>5. y \in Transactions
    BY <2>1, <2>3, <2>4 DEF Transactions
  <2>6. Len(Frame(s).results) = Len(Handlers[Frame(s).type])
    <3>1. Len(Frame(s).results) \in Nat /\ Len(Handlers[Frame(s).type]) \in Nat
      BY <1>1, RegistryAssumption, LenProperties DEF Frames
    <3>2. QED
      BY <1>1, <3>1 DEF Finish, HandlersLeft, Position, FrameOK
  <2> DEFINE more == Append(tx[s].rows, row)
  <2>7. /\ more \in Seq(EventRows)
        /\ more = Append(tx[s].rows, [type |-> Frame(s).type, key |-> Frame(s).key,
                                      results |-> Frame(s).results])
        /\ y.rows = more
    BY <2>3, <2>4
  <2> HIDE DEF y, row, more
  <2>8. QED
    BY <1>1, <2>1, <2>2, <2>4, <2>5, <2>6, <2>7, EndStep
<1>4. QED
  BY <1>2, <1>3

LEMMA UnwindOrFailOK ==
    ASSUME IInv, NEW s \in Sessions, Unwind(s) \/ Fail(s)
    PROVE  IInv'
<1> DEFINE x == [Idle EXCEPT !.pc = "returned"]
<1>1. x.pc = "returned" /\ x.stack = <<>> /\ x.rows = <<>> /\ x.poisoned = FALSE
  BY DEF Idle
<1>2. x \in Transactions
  BY InitialSession DEF SessionOK, Idle, Transactions
<1>3. SessionOK(x) /\ \A k : ~Carries(x, k)
  BY <1>1, <1>2 DEF SessionOK, Carries
<1>4. events' = events /\ (tx' = [tx EXCEPT ![s] = x] \/ tx' = [tx EXCEPT ![s] = Idle])
  BY DEF Unwind, Fail
<1> HIDE DEF x
<1>5. QED
  BY <1>3, <1>4, InitialSession, IdleCarriesNothing, SessionStep

\* The rows of s join the table: no other session has inserted, and no committed row
\* has, one of their keys.
LEMMA CommitOK ==
    ASSUME IInv, NEW s \in Sessions, Commit(s)
    PROVE  IInv'
<1> DEFINE rows == tx[s].rows
           n == Len(events)
<1>1. /\ rows \in Seq(EventRows) /\ events \in Seq(EventRows) /\ SessionOK(tx[s])
      /\ Len(rows) \in Nat /\ n \in Nat /\ DOMAIN rows = 1 .. Len(rows) /\ DOMAIN events = 1 .. n
  BY Stacks, LenProperties DEF IInv, TypeOK, Transactions
<1>2. /\ events' \in Seq(EventRows) /\ DOMAIN events' = 1 .. n + Len(rows)
      /\ \A i \in 1 .. n + Len(rows) : events'[i] = IF i <= n THEN events[i] ELSE rows[i - n]
  BY <1>1, ConcatProperties, LenProperties DEF Commit
<1>3. \A t \in Sessions : tx'[t] = IF t = s THEN Idle ELSE tx[t]
  BY DEF IInv, TypeOK, Commit
<1> HIDE DEF rows, n
<1>4. ASSUME NEW i \in DOMAIN events'
      PROVE  \/ i \in DOMAIN events /\ events'[i] = events[i]
             \/ i - n \in DOMAIN rows /\ events'[i] = rows[i - n] /\ i > n
  BY <1>1, <1>2
<1>5. TypeOK'
  <2>1. Idle \in Transactions
    BY InitialSession DEF SessionOK
  <2>2. QED
    BY <1>2, <2>1 DEF IInv, TypeOK, Commit
<1>6. \A t \in Sessions : SessionOK(tx'[t])
  BY <1>3, InitialSession DEF IInv
<1>7. \A k \in Keys, j \in DOMAIN rows : rows[j].key = k /\ k # NoKey => Carries(tx[s], k)
  BY DEF Carries, rows
<1>8. \A i \in DOMAIN events', k \in Keys :
        k # NoKey /\ events'[i].key = k => Committed(k) \/ Carries(tx[s], k)
  BY <1>4, <1>7 DEF Committed
<1>9. OneCarrier'
  <2>1. ASSUME NEW t \in Sessions, NEW k \in Keys, Carries(tx'[t], k)
        PROVE  t # s /\ Carries(tx[t], k) /\ ~Committed(k) /\ ~Carries(tx[s], k) /\ k # NoKey
    <3>1. t # s /\ Carries(tx[t], k) /\ k # NoKey
      BY <1>3, <2>1, IdleCarriesNothing DEF Carries
    <3>2. QED
      BY <3>1 DEF IInv, OneCarrier
  <2>2. \A t \in Sessions, k \in Keys : Carries(tx'[t], k) => ~Committed(k)'
    BY <1>8, <2>1 DEF Committed
  <2>3. \A t, u \in Sessions, k \in Keys : Carries(tx'[t], k) /\ Carries(tx'[u], k) => t = u
    BY <2>1 DEF IInv, OneCarrier
  <2>4. QED
    BY <2>2, <2>3 DEF OneCarrier
<1>10. UniqueKeys'
  <2>1. ASSUME NEW i \in DOMAIN events', NEW j \in DOMAIN events',
               events'[i].key # NoKey, events'[i].key = events'[j].key
        PROVE  i = j
    <3> DEFINE k == events'[i].key
    <3>1. k \in Keys
      <4>1. events'[i] \in EventRows
        BY <1>2, LenProperties
      <4>2. QED
        BY <2>1, <4>1 DEF EventRows
    <3>2. Carries(tx[s], k) => ~Committed(k)
      BY <3>1 DEF IInv, OneCarrier
    <3>3. ~(i \in DOMAIN events /\ events'[i] = events[i] /\ j - n \in DOMAIN rows /\ events'[j] = rows[j - n])
          /\ ~(j \in DOMAIN events /\ events'[j] = events[j] /\ i - n \in DOMAIN rows /\ events'[i] = rows[i - n])
      BY <1>7, <2>1, <3>1, <3>2 DEF Committed
    <3>4. CASE i \in DOMAIN events /\ j \in DOMAIN events /\ events'[i] = events[i] /\ events'[j] = events[j]
      BY <2>1, <3>4 DEF IInv, UniqueKeys
    <3>5. CASE /\ i - n \in DOMAIN rows /\ j - n \in DOMAIN rows
               /\ events'[i] = rows[i - n] /\ events'[j] = rows[j - n]
      <4>1. i - n = j - n
        BY <1>1, <2>1, <3>5 DEF SessionOK, rows
      <4>2. QED
        BY <1>1, <1>2, <4>1
    <3>6. QED
      BY <1>4, <3>3, <3>4, <3>5
  <2>2. QED
    BY <2>1 DEF UniqueKeys
<1>11. EveryHandlerRan'
  <2>1. \A j \in DOMAIN rows : Len(rows[j].results) = Len(Handlers[rows[j].type])
    BY <1>1 DEF SessionOK, Offered, rows
  <2>2. QED
    BY <1>4, <2>1 DEF IInv, EveryHandlerRan
<1>12. QED
  BY <1>5, <1>6, <1>9, <1>10, <1>11 DEF IInv

LEMMA InitOK == Init => IInv
<1> SUFFICES ASSUME Init PROVE IInv
  OBVIOUS
<1>1. /\ events = <<>> /\ \A s \in Sessions : tx[s] = Idle
  BY DEF Init
<1>2. TypeOK
  BY InitialSession, EmptySeq DEF Init, TypeOK, SessionOK
<1>3. OneCarrier /\ UniqueKeys /\ EveryHandlerRan
  BY <1>1, IdleCarriesNothing DEF OneCarrier, UniqueKeys, EveryHandlerRan
<1>4. QED
  BY <1>1, <1>2, <1>3, InitialSession DEF IInv

LEMMA StepOK == IInv /\ [Next]_vars => IInv'
<1> SUFFICES ASSUME IInv, [Next]_vars PROVE IInv'
  OBVIOUS
<1>1. ASSUME NEW s \in Sessions, NEW type \in Types, NEW key \in Keys \cup {NoKey},
             Publish(s, type, key)
      PROVE  IInv'
  BY <1>1, PublishOK
<1>2. ASSUME NEW s \in Sessions, Step(s) PROVE IInv'
  BY <1>2, LookUpOK, CreateOK, CallOK, HandlerReturnsOK, HandlerRaisesOK, FinishOK, UnwindOrFailOK
     DEF Step
<1>3. ASSUME NEW s \in Sessions, HandlerBreaksSession(s) PROVE IInv'
  BY <1>3, HandlerBreaksSessionOK
<1>4. ASSUME NEW s \in Sessions, NEW type \in Types, HandlerPublishes(s, type) PROVE IInv'
  BY <1>4, HandlerPublishesOK
<1>5. ASSUME NEW s \in Sessions, Commit(s) \/ Fail(s) PROVE IInv'
  BY <1>5, CommitOK, UnwindOrFailOK
<1>6. CASE UNCHANGED vars
  BY <1>6 DEF vars, IInv, TypeOK, OneCarrier, Committed, UniqueKeys, EveryHandlerRan
<1>7. QED
  BY <1>1, <1>2, <1>3, <1>4, <1>5, <1>6 DEF Next

LEMMA Invariant == Spec => []IInv
BY InitOK, StepOK, PTL DEF Spec

-----------------------------------------------------------------------------

\* Every transaction and every committed event has the shape it was given, however
\* deep the publications nest.
THEOREM TypeCorrect == Spec => []TypeOK
<1>1. IInv => TypeOK
  BY DEF IInv
<1>2. QED
  BY <1>1, Invariant, PTL

\* A publication repeated under its key leaves one event, for any number of
\* sessions that look the key up, wait for each other's insert, or roll back.
THEOREM OneEventPerKey == Spec => []UniqueKeys
<1>1. IInv => UniqueKeys
  BY DEF IInv
<1>2. QED
  BY <1>1, Invariant, PTL

\* No event is committed before each of its handlers had its turn, whatever the
\* handlers publish in theirs.
THEOREM AllHandlersHadTheirTurn == Spec => []EveryHandlerRan
<1>1. IInv => EveryHandlerRan
  BY DEF IInv
<1>2. QED
  BY <1>1, Invariant, PTL

\* A session in which a statement failed does not come back from publish() as if
\* nothing had happened.
THEOREM PoisonedNeverReturns == Spec => []NoCommitWhenPoisoned
<1>1. IInv => NoCommitWhenPoisoned
  BY DEF IInv, SessionOK, NoCommitWhenPoisoned
<1>2. QED
  BY <1>1, Invariant, PTL
=============================================================================
