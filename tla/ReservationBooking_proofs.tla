---------------------- MODULE ReservationBooking_proofs ----------------------
(***************************************************************************)
(* For any number of tables, bookings, proposals and sessions: TypeOK and  *)
(* the action properties of ReservationBooking.  The argument: what a      *)
(* request has loaded and checked stays true until somebody else commits,  *)
(* and an UPDATE of an unchanged row writes exactly the row the request    *)
(* judged; only a request that is overtaken merges columns judged apart.   *)
(***************************************************************************)
EXTENDS ReservationBooking, TLAPS

Writing == {"writing", "publishing", "committing"}
Loaded == {"checking"} \cup Writing

SameSeat(b, c) == b.party = c.party /\ b.table = c.table
SameSlot(b, c) == b.table = c.table /\ b.time = c.time /\ b.duration = c.duration

\* The shape of a request tx[s] = x, and what it has judged by itself.
Formed(x) ==
    /\ x.pc = "idle" => x = Idle
    /\ x.pc = "approving" => x.op = "execute"
    /\ x.op = "execute" => x.proposal \in Proposals
    /\ x.pc \in Loaded =>
         /\ x.op # "none" /\ x.reservation \in Reservations
         /\ x.target.status # "absent"
         /\ IF x.op = "create" THEN x.image = AbsentBooking ELSE x.image.status # "absent"
    /\ x.pc \in Loaded /\ x.op \in {"modify", "cancel"} =>
         /\ x.image.status \in Active
         /\ ~IsHighImpact(x.image.party) /\ ~IsHighImpact(x.target.party)
    /\ x.pc = "checking" => \A t \in x.candidates : x.target.party <= Capacity[t]
    /\ x.pc \in Writing => Fits(x.target) \/ (x.op # "create" /\ SameSeat(x.target, x.image))

\* What the committed rows say of x, whoever commits.
Stands(x) ==
    /\ x.op = "execute" => proposal[x.proposal].status # "absent"
    /\ x.pc \in Loaded => (x.op = "create" <=> booking[x.reservation].status = "absent")

\* What they say as well until somebody else commits: the booking is the one
\* that was loaded, and the slot that was checked is still free.
Untouched(x) ==
    /\ x.pc \in Loaded => x.image = booking[x.reservation]
    /\ x.pc \in Writing => \/ x.target.status \notin Active
                           \/ x.op # "create" /\ SameSlot(x.target, x.image)
                           \/ ~HasConflict(x.target.table, x.target, x.reservation)

Current(x) == Stands(x) /\ (x.alone => Untouched(x))

\* Two requests never create the same booking.
Compatible(x, y) ==
    x.op = "create" /\ y.op = "create" => x.reservation # y.reservation

TransactionsOK ==
    /\ \A s \in Sessions : Formed(tx[s]) /\ Current(tx[s])
    /\ \A s, t \in Sessions : s # t => Compatible(tx[s], tx[t])

RowsOK ==
    /\ \A r \in Reservations : booking[r].status = "absent" => booking[r] = AbsentBooking
    /\ \A p \in Proposals :
         proposal[p].status # "absent" =>
            /\ proposal[p].reservation \in Reservations
            /\ booking[proposal[p].reservation].status # "absent"

IInv == TypeOK /\ TransactionsOK /\ RowsOK

-----------------------------------------------------------------------------
(* The rules *)

LEMMA ModifiedRow ==
    ASSUME NEW b \in Bookings, NEW ch \in Changes
    PROVE  /\ Modified(b, ch) \in Bookings
           /\ Modified(b, ch).status = "modified"
           /\ ~Reseats(ch) => /\ SameSeat(Modified(b, ch), b)
                              /\ SameSlot(Modified(b, ch), b)
<1>1. Modified(b, ch) \in Bookings /\ Modified(b, ch).status = "modified"
  BY DEF Modified, Bookings, BookingStatuses, Active, Changes
<1>2. ASSUME ~Reseats(ch)
      PROVE  SameSeat(Modified(b, ch), b) /\ SameSlot(Modified(b, ch), b)
  <2>1. ch.party = 0 /\ ch.time = 0 /\ ch.table = NoTable
    BY <1>2 DEF Reseats, NoChange
  <2>2. QED
    BY <2>1 DEF Modified, Bookings, SameSeat, SameSlot
<1>3. QED
  BY <1>1, <1>2

LEMMA CancelledRow ==
    ASSUME NEW b \in Bookings
    PROVE  /\ Cancelled(b) \in Bookings
           /\ Cancelled(b).status = "cancelled"
           /\ SameSeat(Cancelled(b), b)
BY DEF Cancelled, Bookings, BookingStatuses, Active, SameSeat

LEMMA IdleOK ==
    /\ Idle \in Requests /\ Formed(Idle) /\ Current(Idle)
    /\ \A y : Compatible(Idle, y) /\ Compatible(y, Idle)
BY NullsAssumption DEF Idle, Requests, Operations, Bookings, BookingStatuses, AbsentBooking, Active,
   Formed, Current, Stands, Untouched, Compatible, Loaded, Writing

-----------------------------------------------------------------------------
(* Steps inside a transaction: only tx[s] changes *)

LEMMA TxStep ==
    ASSUME IInv, NEW s \in Sessions, NEW x \in Requests,
           tx' = [tx EXCEPT ![s] = x],
           UNCHANGED <<booking, proposal>>,
           Formed(x), Current(x),
           \A t \in Sessions \ {s} : Compatible(x, tx[t])
    PROVE  IInv'
<1>1. TypeOK'
  BY DEF IInv, TypeOK
<1>2. RowsOK'
  BY DEF IInv, RowsOK
<1>3. \A t \in Sessions : tx'[t] = IF t = s THEN x ELSE tx[t]
  BY DEF IInv, TypeOK
<1>4. ASSUME NEW t \in Sessions PROVE (Formed(tx[t]) /\ Current(tx[t]))'
  <2>1. \A y : Formed(y) /\ Current(y) => (Formed(y) /\ Current(y))'
    BY DEF Formed, Current, Stands, Untouched, HasConflict
  <2>2. CASE t = s
    BY <1>3, <2>1, <2>2 DEF Formed, Current, Stands, Untouched, HasConflict
  <2>3. CASE t # s
    BY <1>3, <2>1, <2>3 DEF IInv, TransactionsOK, Formed, Current, Stands, Untouched, HasConflict
  <2>4. QED
    BY <2>2, <2>3
<1>5. ASSUME NEW t \in Sessions, NEW u \in Sessions, t # u
      PROVE  Compatible(tx[t], tx[u])'
  BY <1>3, <1>5 DEF IInv, TransactionsOK, Compatible
<1>6. TransactionsOK'
  BY <1>4, <1>5 DEF TransactionsOK
<1>7. QED
  BY <1>1, <1>2, <1>6 DEF IInv

LEMMA BeginCreateStep ==
    ASSUME IInv, NEW s \in Sessions, NEW r \in Reservations, NEW party \in PartySizes,
           NEW time \in Times, NEW duration \in Durations, NEW tables \in SUBSET Tables,
           BeginCreate(s, r, party, time, duration, tables)
    PROVE  IInv'
<1> DEFINE target == [status |-> "booked", party |-> party, table |-> NoTable,
                      time |-> time, duration |-> duration]
           x == [Idle EXCEPT !.pc = "checking", !.op = "create", !.reservation = r,
                             !.target = target, !.candidates = tables]
<1>1. tx' = [tx EXCEPT ![s] = x] /\ UNCHANGED <<booking, proposal>>
  BY DEF BeginCreate
<1>2. target \in Bookings
  BY InputsAssumption DEF Bookings, BookingStatuses, Active
<1>3. x \in Requests
  BY <1>2, IdleOK DEF Idle, Requests, Operations
<1>4. \A t \in tables : party <= Capacity[t]
  BY DEF BeginCreate
<1>5. Formed(x)
  BY <1>4 DEF Idle, Formed, Loaded, Writing
<1>6. booking[r].status = "absent" /\ booking[r] = AbsentBooking
  BY DEF BeginCreate, IInv, RowsOK
<1>7. Current(x)
  BY <1>6 DEF Idle, Current, Stands, Untouched, Loaded, Writing
<1>8. \A t \in Sessions \ {s} : Compatible(x, tx[t])
  BY DEF BeginCreate, Idle, Compatible
<1> HIDE DEF x
<1>9. QED
  BY <1>1, <1>3, <1>5, <1>7, <1>8, TxStep

LEMMA BeginModifyStep ==
    ASSUME IInv, NEW s \in Sessions, NEW r \in Reservations, NEW ch \in ChangeRequests,
           BeginModify(s, r, ch)
    PROVE  IInv'
<1> DEFINE target == Modified(booking[r], ch)
           x == [Idle EXCEPT !.pc = IF Reseats(ch) THEN "checking" ELSE "writing",
                             !.op = "modify", !.reservation = r, !.image = booking[r],
                             !.target = target,
                             !.candidates = IF Reseats(ch) THEN {target.table} ELSE {}]
<1>1. tx' = [tx EXCEPT ![s] = x] /\ UNCHANGED <<booking, proposal>>
  BY DEF BeginModify
<1>2. /\ booking[r] \in Bookings /\ booking[r].status \in Active /\ ch \in Changes
      /\ ~IsHighImpact(booking[r].party) /\ ~IsHighImpact(target.party)
      /\ Reseats(ch) => Fits(target)
  BY InputsAssumption DEF BeginModify, IInv, TypeOK, NeedsApproval
<1>3. /\ target \in Bookings /\ target.status = "modified"
      /\ ~Reseats(ch) => SameSeat(target, booking[r]) /\ SameSlot(target, booking[r])
  BY <1>2, ModifiedRow
<1> HIDE DEF target
<1>4. /\ x.pc = (IF Reseats(ch) THEN "checking" ELSE "writing") /\ x.op = "modify"
      /\ x.reservation = r /\ x.proposal = NoProposal /\ x.image = booking[r] /\ x.target = target
      /\ x.candidates = IF Reseats(ch) THEN {target.table} ELSE {}
  BY DEF Idle
<1>5. x \in Requests
  BY <1>2, <1>3, IdleOK DEF Idle, Requests, Operations, Fits
<1> HIDE DEF x
<1>6. Formed(x)
  BY <1>2, <1>3, <1>4 DEF Formed, Loaded, Writing, Fits, Active
<1>7. Current(x)
  BY <1>2, <1>3, <1>4 DEF Current, Stands, Untouched, Loaded, Writing, Active
<1>8. \A t \in Sessions \ {s} : Compatible(x, tx[t])
  BY <1>4 DEF Compatible
<1>9. QED
  BY <1>1, <1>5, <1>6, <1>7, <1>8, TxStep

LEMMA BeginCancelStep ==
    ASSUME IInv, NEW s \in Sessions, NEW r \in Reservations, BeginCancel(s, r)
    PROVE  IInv'
<1> DEFINE target == Cancelled(booking[r])
           x == [Idle EXCEPT !.pc = "writing", !.op = "cancel", !.reservation = r,
                             !.image = booking[r], !.target = target]
<1>1. tx' = [tx EXCEPT ![s] = x] /\ UNCHANGED <<booking, proposal>>
  BY DEF BeginCancel
<1>2. /\ booking[r] \in Bookings /\ booking[r].status \in Active
      /\ ~IsHighImpact(booking[r].party)
  BY DEF BeginCancel, IInv, TypeOK
<1>3. target \in Bookings /\ target.status = "cancelled" /\ SameSeat(target, booking[r])
  BY <1>2, CancelledRow
<1> HIDE DEF target
<1>4. /\ x.pc = "writing" /\ x.op = "cancel" /\ x.reservation = r /\ x.image = booking[r]
      /\ x.target = target
  BY DEF Idle
<1>5. x \in Requests
  BY <1>2, <1>3, IdleOK DEF Idle, Requests, Operations
<1> HIDE DEF x
<1>6. Formed(x)
  BY <1>2, <1>3, <1>4 DEF Formed, Loaded, Writing, Active, SameSeat
<1>7. Current(x)
  BY <1>2, <1>3, <1>4 DEF Current, Stands, Untouched, Loaded, Writing, Active
<1>8. \A t \in Sessions \ {s} : Compatible(x, tx[t])
  BY <1>4 DEF Compatible
<1>9. QED
  BY <1>1, <1>5, <1>6, <1>7, <1>8, TxStep

LEMMA BeginApproveStep ==
    ASSUME IInv, NEW s \in Sessions, NEW p \in Proposals, BeginApprove(s, p)
    PROVE  IInv'
<1> DEFINE x == [Idle EXCEPT !.pc = "approving", !.op = "execute", !.proposal = p]
<1>1. x \in Requests
  BY IdleOK DEF Idle, Requests, Operations
<1>2. Formed(x) /\ Current(x)
  BY DEF BeginApprove, Idle, Formed, Current, Stands, Untouched, Loaded, Writing
<1>3. \A t \in Sessions \ {s} : Compatible(x, tx[t])
  BY DEF Idle, Compatible
<1>4. tx' = [tx EXCEPT ![s] = x] /\ UNCHANGED <<booking, proposal>>
  BY DEF BeginApprove
<1> HIDE DEF x
<1>5. QED
  BY <1>1, <1>2, <1>3, <1>4, TxStep

\* A failed execution leaves a request that writes what it had loaded.
LEMMA FailedExecutionOK ==
    ASSUME IInv, NEW s \in Sessions, tx[s].op = "execute", tx[s].pc \in Loaded
    PROVE  /\ FailedExecution(s) \in Requests
           /\ Formed(FailedExecution(s)) /\ Current(FailedExecution(s))
           /\ \A t \in Sessions \ {s} : Compatible(FailedExecution(s), tx[t])
<1> DEFINE x == FailedExecution(s)
<1>1. tx[s] \in Requests /\ Formed(tx[s]) /\ Current(tx[s])
  BY DEF IInv, TypeOK, TransactionsOK
<1>2. x \in Requests
  BY <1>1 DEF FailedExecution, Requests
<1>3. /\ x.pc = "committing" /\ x.op = "execute" /\ x.reservation = tx[s].reservation
      /\ x.proposal = tx[s].proposal /\ x.image = tx[s].image /\ x.target = tx[s].image
      /\ x.alone = tx[s].alone
  BY <1>1 DEF FailedExecution, Requests
<1> HIDE DEF x
<1>4. Formed(x)
  BY <1>1, <1>3 DEF Formed, Loaded, Writing, SameSeat
<1>5. Current(x)
  BY <1>1, <1>3 DEF Current, Stands, Untouched, Loaded, Writing, SameSlot
<1>6. \A t \in Sessions \ {s} : Compatible(x, tx[t])
  BY <1>3 DEF Compatible
<1>7. QED
  BY <1>2, <1>4, <1>5, <1>6 DEF x

LEMMA LoadApprovedStep ==
    ASSUME IInv, NEW s \in Sessions, LoadApproved(s)
    PROVE  IInv'
<1> DEFINE ask == proposal[tx[s].proposal]
           r == ask.reservation
           modify == ask.action = "modify_reservation"
           reseat == modify /\ Reseats(ask.changes)
           target == IF modify THEN Modified(booking[r], ask.changes) ELSE Cancelled(booking[r])
           loaded == [tx[s] EXCEPT !.reservation = r, !.image = booking[r], !.target = target,
                                   !.pc = IF reseat THEN "checking" ELSE "writing",
                                   !.candidates = IF reseat THEN {target.table} ELSE {}]
           failed == [loaded EXCEPT !.pc = "committing", !.candidates = {}, !.target = booking[r]]
           x == IF reseat /\ ~Fits(target) THEN failed ELSE loaded
<1>1. tx' = [tx EXCEPT ![s] = x] /\ UNCHANGED <<booking, proposal>> /\ tx[s].pc = "approving"
  BY DEF LoadApproved
<1>2. tx[s] \in Requests /\ Formed(tx[s]) /\ Current(tx[s])
  BY DEF IInv, TypeOK, TransactionsOK
<1>3. tx[s].op = "execute" /\ tx[s].proposal \in Proposals /\ ask.status # "absent"
  BY <1>1, <1>2 DEF Formed, Current, Stands
<1>4. /\ r \in Reservations /\ booking[r].status # "absent" /\ booking[r] \in Bookings
      /\ ask.changes \in Changes
  BY <1>3 DEF IInv, TypeOK, RowsOK, ProposalRows
<1>5. /\ target \in Bookings /\ target.status # "absent"
      /\ ~reseat => /\ SameSeat(target, booking[r])
                    /\ target.status \notin Active \/ SameSlot(target, booking[r])
  <2>1. CASE modify
    BY <1>4, <2>1, ModifiedRow
  <2>2. CASE ~modify
    BY <1>4, <2>2, CancelledRow DEF Active
  <2>3. QED
    BY <2>1, <2>2
<1> HIDE DEF target, reseat, r
<1>6. /\ x.op = "execute" /\ x.reservation = r /\ x.proposal = tx[s].proposal
      /\ x.image = booking[r]
      /\ \/ x.pc = "checking" /\ x.target = target /\ x.candidates = {target.table} /\ Fits(target)
         \/ x.pc = "writing" /\ x.target = target /\ x.candidates = {} /\ ~reseat
         \/ x.pc = "committing" /\ x.target = booking[r] /\ x.candidates = {}
  BY <1>2, <1>3 DEF Requests
<1>7. x \in Requests
  <2>1. x \in [pc : {"checking", "writing", "committing"}, op : {"execute"},
               reservation : Reservations, proposal : Proposals, image : Bookings,
               target : Bookings, candidates : SUBSET Tables, locked : SUBSET Reservations,
               alone : BOOLEAN]
    BY <1>2, <1>3, <1>4, <1>5, <1>6 DEF Requests, Fits
  <2> HIDE DEF x
  <2>2. QED
    BY <2>1 DEF Requests, Operations
<1> HIDE DEF x
<1>8. Formed(x)
  BY <1>3, <1>4, <1>5, <1>6 DEF Formed, Loaded, Writing, Fits, SameSeat
<1>9. Current(x)
  BY <1>3, <1>4, <1>5, <1>6 DEF Current, Stands, Untouched, Loaded, Writing, SameSlot
<1>10. \A t \in Sessions \ {s} : Compatible(x, tx[t])
  BY <1>6 DEF Compatible
<1>11. QED
  BY <1>1, <1>7, <1>8, <1>9, <1>10, TxStep

\* The check of a table depends on the time asked for only.
LEMMA ConflictIgnoresTable ==
    ASSUME NEW t, NEW b, NEW c, NEW self, b.time = c.time, b.duration = c.duration
    PROVE  HasConflict(t, b, self) <=> HasConflict(t, c, self)
BY DEF HasConflict, Overlap

LEMMA CheckTableStep ==
    ASSUME IInv, NEW s \in Sessions, CheckTable(s)
    PROVE  IInv'
<1>1. PICK t \in tx[s].candidates :
        IF ~HasConflict(t, tx[s].target, tx[s].reservation)
          THEN tx' = [tx EXCEPT ![s].pc = "writing", ![s].target.table = t, ![s].candidates = {}]
        ELSE IF tx[s].candidates # {t}
          THEN tx' = [tx EXCEPT ![s].candidates = @ \ {t}]
        ELSE tx' = [tx EXCEPT ![s] = IF tx[s].op = "execute" THEN FailedExecution(s) ELSE Idle]
  BY DEF CheckTable
<1>2. /\ tx[s] \in Requests /\ Formed(tx[s]) /\ Current(tx[s]) /\ tx[s].pc = "checking"
      /\ UNCHANGED <<booking, proposal>>
      /\ t \in Tables /\ tx[s].target.party <= Capacity[t]
      /\ \A u \in Sessions \ {s} : Compatible(tx[s], tx[u])
  BY DEF CheckTable, IInv, TypeOK, TransactionsOK, Requests, Formed
<1>3. CASE ~HasConflict(t, tx[s].target, tx[s].reservation)
  <2> DEFINE target == [tx[s].target EXCEPT !.table = t]
             x == [tx[s] EXCEPT !.pc = "writing", !.target = target, !.candidates = {}]
  <2>1. tx' = [tx EXCEPT ![s] = x]
    <3>1. tx' = [tx EXCEPT ![s].pc = "writing", ![s].target.table = t, ![s].candidates = {}]
      BY <1>1, <1>3
    <3>2. tx \in [Sessions -> Requests]
      BY DEF IInv, TypeOK
    <3>3. QED
      BY <1>2, <3>1, <3>2 DEF Requests
  <2>2. /\ target \in Bookings /\ target.table = t /\ target.status = tx[s].target.status
        /\ target.party = tx[s].target.party /\ target.time = tx[s].target.time
        /\ target.duration = tx[s].target.duration
    BY <1>2 DEF Requests, Bookings
  <2> HIDE DEF target
  <2>3. x \in Requests
    BY <1>2, <2>2 DEF Requests
  <2>4. /\ x.pc = "writing" /\ x.target = target /\ x.op = tx[s].op /\ x.image = tx[s].image
        /\ x.reservation = tx[s].reservation /\ x.proposal = tx[s].proposal
        /\ x.alone = tx[s].alone
    BY <1>2 DEF Requests
  <2> HIDE DEF x
  <2>5. Formed(x)
    BY <1>2, <2>2, <2>4 DEF Formed, Loaded, Writing, Fits
  <2>6. ~HasConflict(x.target.table, x.target, x.reservation)
    BY <1>3, <2>2, <2>4, ConflictIgnoresTable
  <2>7. Current(x)
    BY <1>2, <2>4, <2>6 DEF Current, Stands, Untouched, Loaded, Writing
  <2>8. \A u \in Sessions \ {s} : Compatible(x, tx[u])
    BY <1>2, <2>4 DEF Compatible
  <2>9. QED
    BY <1>2, <2>1, <2>3, <2>5, <2>7, <2>8, TxStep
<1>4. CASE HasConflict(t, tx[s].target, tx[s].reservation) /\ tx[s].candidates # {t}
  <2> DEFINE x == [tx[s] EXCEPT !.candidates = @ \ {t}]
  <2>1. tx' = [tx EXCEPT ![s] = x]
    BY <1>1, <1>4
  <2>2. x \in Requests
    BY <1>2 DEF Requests
  <2>3. /\ x.pc = "checking" /\ x.target = tx[s].target /\ x.op = tx[s].op
        /\ x.image = tx[s].image /\ x.reservation = tx[s].reservation
        /\ x.proposal = tx[s].proposal /\ x.alone = tx[s].alone
        /\ x.candidates \subseteq tx[s].candidates
    BY <1>2 DEF Requests
  <2> HIDE DEF x
  <2>4. Formed(x) /\ Current(x)
    BY <1>2, <2>3 DEF Formed, Current, Stands, Untouched, Loaded, Writing
  <2>5. \A u \in Sessions \ {s} : Compatible(x, tx[u])
    BY <1>2, <2>3 DEF Compatible
  <2>6. QED
    BY <1>2, <2>1, <2>2, <2>4, <2>5, TxStep
<1>5. CASE HasConflict(t, tx[s].target, tx[s].reservation) /\ tx[s].candidates = {t}
  <2>1. CASE tx[s].op = "execute"
    BY <1>1, <1>2, <1>5, <2>1, FailedExecutionOK, TxStep DEF Loaded
  <2>2. CASE tx[s].op # "execute"
    BY <1>1, <1>2, <1>5, <2>2, IdleOK, TxStep
  <2>3. QED
    BY <2>1, <2>2
<1>6. QED
  BY <1>3, <1>4, <1>5

\* Writing and publishing only move the program counter and take the lock.
LEMMA WriteStep ==
    ASSUME IInv, NEW s \in Sessions, Write(s) \/ Publish(s)
    PROVE  IInv'
<1>1. PICK pc \in Writing, locked \in SUBSET Reservations :
        tx' = [tx EXCEPT ![s].pc = pc, ![s].locked = locked]
  <2>1. tx[s] \in Requests /\ Formed(tx[s]) /\ tx[s].pc \in {"writing", "publishing"}
    BY DEF IInv, TypeOK, TransactionsOK, Write, Publish
  <2>2. tx[s].reservation \in Reservations /\ tx[s].locked \in SUBSET Reservations
    BY <2>1 DEF Formed, Loaded, Writing, Requests
  <2>3. CASE Write(s)
    <3>1. tx' = [tx EXCEPT ![s].pc = "publishing", ![s].locked = {tx[s].reservation}]
      BY <2>3 DEF Write
    <3>2. QED
      BY <2>2, <3>1 DEF Writing
  <2>4. CASE Publish(s)
    <3>1. tx' = [tx EXCEPT ![s].pc = "committing", ![s].locked = tx[s].locked]
      BY <2>1, <2>4 DEF Publish, IInv, TypeOK, Requests
    <3>2. QED
      BY <2>2, <3>1 DEF Writing
  <2>5. QED
    BY <2>3, <2>4
<1> DEFINE x == [tx[s] EXCEPT !.pc = pc, !.locked = locked]
<1>2. /\ tx[s] \in Requests /\ Formed(tx[s]) /\ Current(tx[s]) /\ tx[s].pc \in Writing
      /\ UNCHANGED <<booking, proposal>>
      /\ \A u \in Sessions \ {s} : Compatible(tx[s], tx[u])
  BY DEF IInv, TypeOK, TransactionsOK, Write, Publish, Writing
<1>3. tx' = [tx EXCEPT ![s] = x]
  BY <1>1
<1>4. x \in Requests
  BY <1>2 DEF Requests, Writing
<1>5. /\ x.pc \in Writing /\ x.target = tx[s].target /\ x.op = tx[s].op
      /\ x.image = tx[s].image /\ x.reservation = tx[s].reservation
      /\ x.proposal = tx[s].proposal /\ x.alone = tx[s].alone
  BY <1>2 DEF Requests
<1> HIDE DEF x
<1>6. Formed(x) /\ Current(x)
  BY <1>2, <1>5 DEF Formed, Current, Stands, Untouched, Loaded, Writing
<1>7. \A u \in Sessions \ {s} : Compatible(x, tx[u])
  BY <1>2, <1>5 DEF Compatible
<1>8. QED
  BY <1>2, <1>3, <1>4, <1>6, <1>7, TxStep

LEMMA ErrorStep ==
    ASSUME IInv, NEW s \in Sessions, ExecutorFails(s) \/ ApprovalRefused(s) \/ Fail(s)
    PROVE  IInv'
<1>1. CASE ExecutorFails(s)
  BY <1>1, FailedExecutionOK, TxStep DEF ExecutorFails, Loaded, Writing
<1>2. CASE ApprovalRefused(s) \/ Fail(s)
  BY <1>2, IdleOK, TxStep DEF ApprovalRefused, Fail
<1>3. QED
  BY <1>1, <1>2

-----------------------------------------------------------------------------
(* Steps of the approvals: only proposal[p] changes *)

LEMMA ProposalStep ==
    ASSUME IInv, NEW p \in Proposals, NEW ask \in ProposalRows,
           proposal' = [proposal EXCEPT ![p] = ask], UNCHANGED <<booking, tx>>,
           ask.status # "absent", ask.reservation \in Reservations,
           booking[ask.reservation].status # "absent"
    PROVE  IInv'
<1>1. TypeOK'
  BY DEF IInv, TypeOK
<1>2. \A q \in Proposals : proposal'[q] = IF q = p THEN ask ELSE proposal[q]
  BY DEF IInv, TypeOK
<1>3. RowsOK'
  BY <1>2 DEF IInv, RowsOK
<1>4. ASSUME NEW t \in Sessions PROVE (Formed(tx[t]) /\ Current(tx[t]))'
  <2>1. Formed(tx[t]) /\ Current(tx[t])
    BY DEF IInv, TransactionsOK
  <2>2. Formed(tx[t])'
    BY <2>1 DEF Formed
  <2>3. Stands(tx[t])'
    BY <1>2, <2>1 DEF Formed, Current, Stands
  <2>4. Untouched(tx[t]) => Untouched(tx[t])'
    BY DEF Untouched, HasConflict
  <2>5. QED
    BY <2>1, <2>2, <2>3, <2>4 DEF Current
<1>5. TransactionsOK'
  BY <1>4 DEF IInv, TransactionsOK, Compatible
<1>6. QED
  BY <1>1, <1>3, <1>5 DEF IInv

LEMMA ProposeStep ==
    ASSUME IInv, NEW p \in Proposals, NEW r \in Reservations,
           (\E ch \in ChangeRequests : ProposeModify(p, r, ch)) \/ ProposeCancel(p, r)
    PROVE  IInv'
<1>1. ASSUME NEW ch \in ChangeRequests, ProposeModify(p, r, ch) PROVE IInv'
  <2> DEFINE ask == [status |-> "pending", action |-> "modify_reservation",
                     reservation |-> r, changes |-> ch]
  <2>1. ask \in ProposalRows /\ booking[r].status # "absent"
    BY <1>1, InputsAssumption DEF ProposeModify, ProposalRows, Active
  <2>2. proposal' = [proposal EXCEPT ![p] = ask] /\ UNCHANGED <<booking, tx>>
    BY <1>1 DEF ProposeModify
  <2>3. QED
    BY <2>1, <2>2, ProposalStep
<1>2. CASE ProposeCancel(p, r)
  <2> DEFINE ask == [status |-> "pending", action |-> "cancel_reservation",
                     reservation |-> r, changes |-> NoChange]
  <2>1. ask \in ProposalRows /\ booking[r].status # "absent"
    BY <1>2 DEF ProposeCancel, ProposalRows, Active, NoChange, Changes
  <2>2. proposal' = [proposal EXCEPT ![p] = ask] /\ UNCHANGED <<booking, tx>>
    BY <1>2 DEF ProposeCancel
  <2>3. QED
    BY <2>1, <2>2, ProposalStep
<1>3. QED
  BY <1>1, <1>2

LEMMA RejectStep ==
    ASSUME IInv, NEW p \in Proposals, Reject(p)
    PROVE  IInv'
<1> DEFINE ask == [proposal[p] EXCEPT !.status = "rejected"]
<1>1. proposal[p] \in ProposalRows /\ proposal[p].status # "absent"
  BY DEF Reject, IInv, TypeOK
<1>2. /\ ask \in ProposalRows /\ ask.status = "rejected"
      /\ ask.reservation = proposal[p].reservation
  BY <1>1 DEF ProposalRows
<1>3. ask.reservation \in Reservations /\ booking[ask.reservation].status # "absent"
  BY <1>1, <1>2 DEF IInv, RowsOK
<1>4. proposal' = [proposal EXCEPT ![p] = ask] /\ UNCHANGED <<booking, tx>>
  BY DEF Reject
<1> HIDE DEF ask
<1>5. QED
  BY <1>2, <1>3, <1>4, ProposalStep

-----------------------------------------------------------------------------
(* The commit *)

\* The row a request leaves: the one it wanted, if it had loaded the stored
\* one, and otherwise a mixture in which each column is one or the other's.
LEMMA WrittenRow ==
    ASSUME IInv, NEW s \in Sessions, tx[s].pc = "committing"
    PROVE  LET x == tx[s]
               stored == booking[x.reservation]
           IN /\ x.reservation \in Reservations
              /\ Written(s) \in Bookings /\ Written(s).status # "absent"
              /\ Written(s).party \in {x.target.party, stored.party}
              /\ x.image = stored => Written(s) = x.target
              /\ x.op = "create" => x.image = stored
<1> DEFINE x == tx[s]
           stored == booking[x.reservation]
<1>1. x \in Requests /\ Formed(x) /\ Current(x) /\ x.pc \in Loaded
  BY DEF IInv, TypeOK, TransactionsOK, Loaded, Writing
<1>2. /\ x.reservation \in Reservations /\ stored \in Bookings
      /\ x.image \in Bookings /\ x.target \in Bookings
      /\ x.target.status # "absent"
      /\ x.op = "create" => x.image = AbsentBooking /\ stored = AbsentBooking
      /\ x.op # "create" => stored.status # "absent"
  BY <1>1 DEF IInv, TypeOK, RowsOK, Formed, Current, Stands, Requests
<1>3. Written(s) = [status |-> Column(x.target.status, x.image.status, stored.status),
                    party |-> Column(x.target.party, x.image.party, stored.party),
                    table |-> Column(x.target.table, x.image.table, stored.table),
                    time |-> Column(x.target.time, x.image.time, stored.time),
                    duration |-> Column(x.target.duration, x.image.duration, stored.duration)]
  BY DEF Written
<1> HIDE DEF x, stored
<1>4. Written(s) \in Bookings
  BY <1>2, <1>3 DEF Bookings, Column
<1>5. Written(s).status # "absent"
  BY <1>2, <1>3 DEF Column, AbsentBooking
<1>6. Written(s).party \in {x.target.party, stored.party}
  BY <1>3 DEF Column
<1>7. x.image = stored => Written(s) = x.target
  BY <1>2, <1>3 DEF Bookings, Column
<1>8. QED
  BY <1>2, <1>4, <1>5, <1>6, <1>7 DEF x, stored

\* The rows after a commit.
LEMMA CommittedRows ==
    ASSUME IInv, NEW s \in Sessions, Commit(s)
    PROVE  /\ booking' \in [Reservations -> Bookings]
           /\ \A r \in Reservations :
                booking'[r] = IF r = tx[s].reservation THEN Written(s) ELSE booking[r]
           /\ proposal' \in [Proposals -> ProposalRows]
           /\ \A p \in Proposals : /\ proposal'[p].reservation = proposal[p].reservation
                                   /\ proposal'[p].status = "absent" <=>
                                         proposal[p].status = "absent"
<1>1. tx[s].pc = "committing" /\ booking' = [booking EXCEPT ![tx[s].reservation] = Written(s)]
  BY DEF Commit
<1>2. /\ booking' \in [Reservations -> Bookings]
      /\ \A r \in Reservations :
           booking'[r] = IF r = tx[s].reservation THEN Written(s) ELSE booking[r]
  BY <1>1, WrittenRow DEF IInv, TypeOK
<1>3. /\ proposal' \in [Proposals -> ProposalRows]
      /\ \A p \in Proposals : /\ proposal'[p].reservation = proposal[p].reservation
                              /\ proposal'[p].status = "absent" <=> proposal[p].status = "absent"
  <2>1. CASE tx[s].op = "execute"
    <3>1. proposal[tx[s].proposal].status # "absent"
      BY <2>1 DEF IInv, TransactionsOK, Current, Stands
    <3>2. proposal' = [proposal EXCEPT ![tx[s].proposal].status = "approved"]
      BY <2>1 DEF Commit
    <3>3. proposal \in [Proposals -> ProposalRows]
      BY DEF IInv, TypeOK
    <3>4. \A p \in Proposals :
            proposal'[p] = IF p = tx[s].proposal THEN [proposal[p] EXCEPT !.status = "approved"]
                           ELSE proposal[p]
      BY <3>2, <3>3
    <3>5. proposal' \in [Proposals -> ProposalRows]
      BY <3>2, <3>3 DEF ProposalRows
    <3>6. QED
      BY <3>1, <3>3, <3>4, <3>5 DEF ProposalRows
  <2>2. CASE tx[s].op # "execute"
    BY <2>2 DEF Commit, IInv, TypeOK
  <2>3. QED
    BY <2>1, <2>2
<1>4. QED
  BY <1>2, <1>3

LEMMA CommitStep ==
    ASSUME IInv, NEW s \in Sessions, Commit(s)
    PROVE  IInv'
<1> DEFINE End(t) == IF t = s \/ tx[t].pc = "idle" THEN Idle ELSE [tx[t] EXCEPT !.alone = FALSE]
           r == tx[s].reservation
<1>1. /\ tx' = [t \in Sessions |-> End(t)] /\ tx[s].pc = "committing"
      /\ r \in Reservations /\ Written(s).status # "absent"
  BY WrittenRow DEF Commit
<1>2. ASSUME NEW t \in Sessions
      PROVE  /\ tx[t] \in Requests /\ Formed(tx[t]) /\ Stands(tx[t])
             /\ t # s => Compatible(tx[t], tx[s])
  BY DEF IInv, TypeOK, TransactionsOK, Current
<1>3. ASSUME NEW t \in Sessions
      PROVE  /\ End(t) \in Requests /\ Formed(End(t))
             /\ End(t) = Idle \/ ~End(t).alone
             /\ \A u \in Sessions : t # u => Compatible(End(t), End(u))
  <2>1. End(t) \in Requests
    BY <1>2, IdleOK DEF Requests
  <2>2. Formed(End(t))
    <3>1. CASE End(t) = Idle
      BY <3>1, IdleOK
    <3>2. CASE End(t) = [tx[t] EXCEPT !.alone = FALSE]
      <4>1. /\ End(t).pc = tx[t].pc /\ End(t).op = tx[t].op /\ End(t).image = tx[t].image
            /\ End(t).target = tx[t].target /\ End(t).reservation = tx[t].reservation
            /\ End(t).proposal = tx[t].proposal /\ End(t).candidates = tx[t].candidates
        BY <1>2, <3>2 DEF Requests
      <4>2. tx[t].pc # "idle" \/ End(t) = Idle
        OBVIOUS
      <4> HIDE DEF End
      <4>3. QED
        BY <1>2, <4>1, <4>2, IdleOK DEF Formed
    <3>3. QED
      BY <3>1, <3>2
  <2>3. End(t) = Idle \/ ~End(t).alone
    BY <1>2 DEF Requests
  <2>4. \A u \in Sessions : \/ End(u).op = "none"
                            \/ End(u).op = tx[u].op /\ End(u).reservation = tx[u].reservation
    <3>1. ASSUME NEW u \in Sessions, End(u) # Idle
          PROVE  End(u).op = tx[u].op /\ End(u).reservation = tx[u].reservation
      BY <1>2, <3>1 DEF Requests
    <3>2. Idle.op = "none"
      BY DEF Idle
    <3> HIDE DEF End
    <3>3. QED
      BY <3>1, <3>2
  <2>5. \A u \in Sessions : t # u => Compatible(End(t), End(u))
    <3> HIDE DEF End
    <3>1. QED
      BY <2>4 DEF IInv, TransactionsOK, Compatible
  <2>6. QED
    BY <2>1, <2>2, <2>3, <2>5
<1>4. ASSUME NEW t \in Sessions, NEW x, x = End(t) PROVE Current(x)'
  <2>1. CASE x = Idle
    BY <2>1 DEF Idle, Current, Stands, Untouched, Loaded, Writing
  <2>2. CASE x = [tx[t] EXCEPT !.alone = FALSE] /\ t # s
    <3>1. /\ x.pc = tx[t].pc /\ x.op = tx[t].op /\ ~x.alone
          /\ x.reservation = tx[t].reservation /\ x.proposal = tx[t].proposal
      BY <1>2, <2>2 DEF Requests
    <3>2. tx[t].op = "execute" => proposal'[tx[t].proposal].status # "absent"
      BY <1>2, CommittedRows DEF Formed, Stands
    <3>3. tx[t].pc \in Loaded =>
             (tx[t].op = "create" <=> booking'[tx[t].reservation].status = "absent")
      <4>1. CASE tx[t].reservation = r /\ tx[t].pc \in Loaded
        <5>1. tx[t].op # "create"
          BY <1>1, <1>2, <2>2, <4>1 DEF Stands, Compatible, Loaded, Writing
        <5>2. booking'[tx[t].reservation].status # "absent"
          BY <1>1, <4>1, CommittedRows
        <5>3. QED
          BY <5>1, <5>2
      <4>2. CASE tx[t].reservation # r /\ tx[t].pc \in Loaded
        <5>1. tx[t].reservation \in Reservations
          BY <1>2, <4>2 DEF Formed
        <5>2. booking'[tx[t].reservation] = booking[tx[t].reservation]
          BY <4>2, <5>1, CommittedRows
        <5>3. QED
          BY <1>2, <4>2, <5>2 DEF Stands
      <4>3. QED
        BY <4>1, <4>2
    <3>4. QED
      BY <3>1, <3>2, <3>3 DEF Current, Stands
  <2>3. QED
    BY <1>4, <2>1, <2>2
<1> HIDE DEF End
<1>5. TypeOK'
  BY <1>1, <1>3, CommittedRows DEF TypeOK
<1>6. TransactionsOK'
  <2>1. \A t \in Sessions : tx'[t] = End(t)
    BY <1>1
  <2>2. ASSUME NEW t \in Sessions PROVE (Formed(tx[t]) /\ Current(tx[t]))'
    <3>1. PICK x : x = End(t)
      OBVIOUS
    <3>2. Formed(x) /\ Current(x)'
      BY <1>3, <1>4, <3>1
    <3>3. tx'[t] = x
      BY <2>1, <3>1
    <3>4. QED
      BY <3>2, <3>3 DEF Formed, Current, Stands, Untouched, HasConflict
  <2>3. ASSUME NEW t \in Sessions, NEW u \in Sessions, t # u PROVE Compatible(tx[t], tx[u])'
    BY <1>3, <2>1, <2>3 DEF Compatible
  <2>4. QED
    BY <2>2, <2>3 DEF TransactionsOK
<1>7. RowsOK'
  <2>1. \A q \in Reservations : booking'[q].status = "absent" =>
            q # r /\ booking'[q] = booking[q]
    BY <1>1, CommittedRows
  <2>2. \A q \in Reservations : booking'[q].status = "absent" => booking'[q] = AbsentBooking
    BY <2>1 DEF IInv, RowsOK
  <2>3. ASSUME NEW p \in Proposals, proposal'[p].status # "absent"
        PROVE  /\ proposal'[p].reservation \in Reservations
               /\ booking'[proposal'[p].reservation].status # "absent"
    <3>1. /\ proposal'[p].reservation = proposal[p].reservation
          /\ proposal[p].status # "absent"
      BY <2>3, CommittedRows
    <3>2. QED
      BY <2>1, <3>1 DEF IInv, RowsOK
  <2>4. QED
    BY <2>2, <2>3 DEF RowsOK
<1>8. QED
  BY <1>5, <1>6, <1>7 DEF IInv

-----------------------------------------------------------------------------
(* The invariant *)

LEMMA InitInvariant == Init => IInv
<1> SUFFICES ASSUME Init PROVE IInv
  OBVIOUS
<1>1. TypeOK
  BY IdleOK DEF Init, TypeOK, Idle, Requests, AbsentProposal, ProposalRows, Changes, NoChange
<1>2. TransactionsOK
  BY IdleOK DEF Init, TransactionsOK
<1>3. RowsOK
  BY DEF Init, RowsOK, AbsentProposal
<1>4. QED
  BY <1>1, <1>2, <1>3 DEF IInv

LEMMA NextInvariant == IInv /\ [Next]_vars => IInv'
<1> SUFFICES ASSUME IInv, [Next]_vars PROVE IInv'
  OBVIOUS
<1>1. CASE UNCHANGED vars
  <2>1. \A t \in Sessions : (Formed(tx[t]) /\ Current(tx[t]))'
    BY <1>1 DEF vars, IInv, TransactionsOK, Formed, Current, Stands, Untouched, HasConflict
  <2>2. QED
    BY <1>1, <2>1 DEF vars, IInv, TypeOK, TransactionsOK, RowsOK, Compatible
<1>2. ASSUME NEW s \in Sessions, BeginRequest(s) PROVE IInv'
  BY <1>2, BeginCreateStep, BeginModifyStep, BeginCancelStep, BeginApproveStep DEF BeginRequest
<1>3. ASSUME NEW s \in Sessions, RequestStep(s) PROVE IInv'
  BY <1>3, LoadApprovedStep, ErrorStep, CheckTableStep, WriteStep, CommitStep DEF RequestStep
<1>4. ASSUME NEW s \in Sessions, ExecutorFails(s) \/ Fail(s) PROVE IInv'
  BY <1>4, ErrorStep
<1>5. ASSUME NEW p \in Proposals, NEW r \in Reservations,
             (\E ch \in ChangeRequests : ProposeModify(p, r, ch)) \/ ProposeCancel(p, r)
      PROVE  IInv'
  BY <1>5, ProposeStep
<1>6. ASSUME NEW p \in Proposals, Reject(p) PROVE IInv'
  BY <1>6, RejectStep
<1>7. QED
  BY <1>1, <1>2, <1>3, <1>4, <1>5, <1>6 DEF Next

THEOREM Invariant == Spec => []IInv
BY InitInvariant, NextInvariant, PTL DEF Spec

-----------------------------------------------------------------------------
(* What a step does to the bookings *)

LEMMA Writers ==
    ASSUME [Next]_vars
    PROVE  booking' = booking \/ \E s \in Sessions : Commit(s)
<1>1. ASSUME NEW s \in Sessions, BeginRequest(s) PROVE booking' = booking
  BY <1>1 DEF BeginRequest, BeginCreate, BeginModify, BeginCancel, BeginApprove
<1>2. ASSUME NEW s \in Sessions, RequestStep(s) PROVE booking' = booking \/ Commit(s)
  <2>1. LoadApproved(s) => booking' = booking
    BY DEF LoadApproved
  <2>2. CheckTable(s) => booking' = booking
    BY DEF CheckTable
  <2>3. ApprovalRefused(s) \/ Write(s) \/ Publish(s) => booking' = booking
    BY DEF ApprovalRefused, Write, Publish
  <2>4. QED
    BY <1>2, <2>1, <2>2, <2>3 DEF RequestStep
<1>3. ASSUME NEW s \in Sessions, ExecutorFails(s) \/ Fail(s) PROVE booking' = booking
  BY <1>3 DEF ExecutorFails, Fail
<1>4. ASSUME NEW p \in Proposals, NEW r \in Reservations,
             (\E ch \in ChangeRequests : ProposeModify(p, r, ch)) \/ ProposeCancel(p, r)
      PROVE  booking' = booking
  BY <1>4 DEF ProposeModify, ProposeCancel
<1>5. ASSUME NEW p \in Proposals, Reject(p) PROVE booking' = booking
  BY <1>5 DEF Reject
<1>6. QED
  BY <1>1, <1>2, <1>3, <1>4, <1>5 DEF Next, vars

\* What is known of a request that commits.
LEMMA Committing ==
    ASSUME IInv, NEW s \in Sessions, Commit(s)
    PROVE  /\ tx[s].pc = "committing" /\ tx'[s] = Idle
           /\ tx[s].reservation \in Reservations
           /\ tx[s].op \in {"create", "modify", "cancel", "execute"}
           /\ Formed(tx[s]) /\ Current(tx[s])
<1>1. tx[s].pc = "committing" /\ tx'[s] = Idle
  BY DEF Commit
<1>2. tx[s] \in Requests /\ Formed(tx[s]) /\ Current(tx[s])
  BY DEF IInv, TypeOK, TransactionsOK
<1>3. QED
  BY <1>1, <1>2 DEF Formed, Requests, Operations, Loaded, Writing

\* A request that nobody overtook writes the row it judged.
LEMMA CommittingAlone ==
    ASSUME IInv, NEW s \in Sessions, Commit(s), ~Overlapped
    PROVE  /\ Untouched(tx[s])
           /\ tx[s].image = booking[tx[s].reservation]
           /\ Written(s) = tx[s].target
<1>1. tx[s].alone
  BY Committing DEF Overlapped
<1>2. Untouched(tx[s]) /\ tx[s].image = booking[tx[s].reservation]
  BY <1>1, Committing DEF Current, Untouched, Loaded, Writing
<1>3. QED
  BY <1>2, Committing, WrittenRow

LEMMA LargePartyStep ==
    ASSUME IInv, [Next]_vars, NEW r \in Reservations,
           booking[r].status # "absent", ~IsHighImpact(booking[r].party),
           IsHighImpact(booking'[r].party)
    PROVE  ExecutedOn(r)
<1>1. PICK s \in Sessions : Commit(s)
  BY Writers
<1>2. r = tx[s].reservation /\ booking'[r] = Written(s)
  BY <1>1, CommittedRows
<1>3. CASE tx[s].op = "execute"
  BY <1>1, <1>2, <1>3, Committing DEF ExecutedOn
<1>4. CASE tx[s].op = "create"
  BY <1>1, <1>2, <1>4, Committing DEF Current, Stands, Loaded, Writing
<1>5. CASE tx[s].op \in {"modify", "cancel"}
  <2>1. ~IsHighImpact(tx[s].target.party)
    BY <1>1, <1>5, Committing DEF Formed, Loaded, Writing
  <2>2. booking'[r].party \in {tx[s].target.party, booking[r].party}
    BY <1>1, <1>2, Committing, WrittenRow
  <2>3. QED
    BY <2>1, <2>2
<1>6. QED
  BY <1>1, <1>3, <1>4, <1>5, Committing

\* A direct request that nobody overtook is of an active booking of a small
\* party, or of a new one.
LEMMA DirectRequest ==
    ASSUME IInv, [Next]_vars, NEW r \in Reservations, booking'[r] # booking[r],
           ~ExecutedOn(r), ~Overlapped, booking[r].status # "absent"
    PROVE  booking[r].status \in Active /\ ~IsHighImpact(booking[r].party)
<1>1. PICK s \in Sessions : Commit(s)
  BY Writers
<1>2. r = tx[s].reservation
  BY <1>1, CommittedRows
<1>3. tx[s].op \in {"modify", "cancel"}
  BY <1>1, <1>2, Committing DEF ExecutedOn, Current, Stands, Loaded, Writing
<1>4. QED
  BY <1>1, <1>2, <1>3, Committing, CommittingAlone DEF Formed, Loaded, Writing

LEMMA MisfitStep ==
    ASSUME IInv, [Next]_vars, EveryBookingFits, ~Overlapped
    PROVE  EveryBookingFits'
<1>1. CASE booking' = booking
  BY <1>1 DEF EveryBookingFits
<1>2. ASSUME NEW s \in Sessions, Commit(s) PROVE EveryBookingFits'
  <2> DEFINE r == tx[s].reservation
  <2>1. Formed(tx[s]) /\ Current(tx[s]) /\ tx[s].pc \in Writing
    BY <1>2, Committing DEF Writing
  <2>2. tx[s].image = booking[r] /\ Written(s) = tx[s].target
    BY <1>2, CommittingAlone
  <2>3. Fits(tx[s].target)
    <3>1. CASE Fits(tx[s].target)
      BY <3>1
    <3>2. CASE tx[s].op # "create" /\ SameSeat(tx[s].target, booking[r])
      <4>1. r \in Reservations /\ booking[r].status # "absent"
        BY <2>1, <3>2 DEF Formed, Current, Stands, Loaded
      <4>2. Fits(booking[r])
        BY <4>1 DEF EveryBookingFits
      <4>3. QED
        BY <3>2, <4>2 DEF Fits, SameSeat
    <3>3. QED
      BY <2>1, <2>2, <3>1, <3>2 DEF Formed
  <2>4. QED
    BY <1>2, <2>2, <2>3, CommittedRows DEF EveryBookingFits, Fits
<1>3. QED
  BY <1>1, <1>2, Writers

\* Two parties at one table at one moment: the query finds either from the other.
LEMMA SharedMoment ==
    ASSUME NEW b \in Bookings, NEW c \in Bookings, Occupied(b) \cap Occupied(c) # {}
    PROVE  Overlap(b, c) /\ Overlap(c, b)
<1>1. b.time \in Nat /\ b.duration \in Nat /\ c.time \in Nat /\ c.duration \in Nat
  BY DEF Bookings
<1>2. PICK m \in Occupied(b) : m \in Occupied(c)
  OBVIOUS
<1>3. /\ b.time <= m /\ m < b.time + b.duration
      /\ c.time <= m /\ m < c.time + c.duration /\ m \in Nat
  BY <1>1, <1>2 DEF Occupied
<1>4. QED
  BY <1>1, <1>3 DEF Overlap

LEMMA ClashStep ==
    ASSUME IInv, [Next]_vars, NoDoubleBooking, ~Overlapped,
           ~\E r \in Reservations : booking[r].status = "cancelled" /\ booking'[r].status \in Active
    PROVE  NoDoubleBooking'
<1>1. CASE booking' = booking
  BY <1>1 DEF NoDoubleBooking, Clash
<1>2. ASSUME NEW s \in Sessions, Commit(s) PROVE NoDoubleBooking'
  <2> DEFINE r == tx[s].reservation
             b == tx[s].target
  <2>1. r \in Reservations /\ Current(tx[s]) /\ Untouched(tx[s]) /\ tx[s].pc \in Writing
    BY <1>2, Committing, CommittingAlone DEF Writing
  <2>2. /\ booking'[r] = b /\ tx[s].image = booking[r]
        /\ \A q \in Reservations \ {r} : booking'[q] = booking[q]
    BY <1>2, <2>1, CommittingAlone, CommittedRows
  <2>3. ASSUME NEW q \in Reservations \ {r}, booking[q].status \in Active, b.status \in Active,
               b.table = booking[q].table, Occupied(b) \cap Occupied(booking[q]) # {}
        PROVE  FALSE
    <3>0. b \in Bookings /\ booking[q] \in Bookings
      BY <2>1 DEF IInv, TypeOK, Requests
    <3>1. HasConflict(b.table, b, r)
      BY <2>3, <3>0, SharedMoment DEF HasConflict
    <3>2. tx[s].op # "create" /\ SameSlot(b, booking[r])
      BY <2>1, <2>2, <2>3, <3>1 DEF Untouched
    <3>3. booking[r].status \in Active
      BY <2>1, <2>2, <2>3, <3>2 DEF IInv, TypeOK, Bookings, BookingStatuses, Current, Stands, Loaded
    <3>4. Clash(r, q)
      BY <2>3, <3>2, <3>3 DEF Clash, Occupied, SameSlot
    <3>5. QED
      BY <2>1, <2>3, <3>4 DEF NoDoubleBooking
  <2> HIDE DEF r, b
  <2>4. ASSUME NEW p \in Reservations, NEW q \in Reservations, p # q, Clash(p, q)'
        PROVE  FALSE
    <3>1. CASE p = r
      BY <2>2, <2>3, <2>4, <3>1 DEF Clash
    <3>2. CASE q = r
      BY <2>2, <2>3, <2>4, <3>2 DEF Clash
    <3>3. CASE p # r /\ q # r
      BY <2>2, <2>4, <3>3 DEF NoDoubleBooking, Clash
    <3>4. QED
      BY <3>1, <3>2, <3>3
  <2>5. QED
    BY <2>4 DEF NoDoubleBooking
<1>3. QED
  BY <1>1, <1>2, Writers

-----------------------------------------------------------------------------
(* What a request that nobody overtook is about to do *)

SlotIsFree(x) == Fits(x.target) /\ ~HasConflict(x.target.table, x.target, x.reservation)

\* x changes the booking as ch asks.
Modifies(x, ch) ==
    /\ x.target = Modified(x.image, ch)
    /\ x.pc = "checking" => x.candidates = {x.target.table}
    /\ x.pc \in Writing /\ Reseats(ch) => SlotIsFree(x)

\* x executes the proposal, or has failed to.
Obeys(x, ask) ==
    /\ ask.status = "pending" /\ x.reservation = ask.reservation
    /\ \/ x.pc = "committing" /\ x.target = x.image
       \/ ask.action = "modify_reservation" /\ Modifies(x, ask.changes)
       \/ /\ ask.action # "modify_reservation" /\ x.pc \in Writing
          /\ x.target = Cancelled(x.image)

Asked(x) ==
    \/ /\ x.op = "create" /\ x.target.status = "booked" /\ x.target.party \in PartySizes
       /\ x.target.time \in Times /\ x.target.duration \in Durations
       /\ x.pc \in Writing => SlotIsFree(x)
    \/ /\ x.op = "modify"
       /\ \E ch \in ChangeRequests : ~NeedsApproval(x.image, ch) /\ Modifies(x, ch)
    \/ x.op = "cancel" /\ x.pc \in Writing /\ x.target = Cancelled(x.image)
    \/ x.op = "execute" /\ Obeys(x, proposal[x.proposal])

Judged(x) ==
    x.alone => /\ x.pc = "approving" => proposal[x.proposal].status \in {"pending", "rejected"}
               /\ x.pc \in Loaded => Asked(x)

AsAsked == \A s \in Sessions : Judged(tx[s])

LEMMA JudgedTx ==
    ASSUME IInv, AsAsked, NEW s \in Sessions, NEW x, tx' = [tx EXCEPT ![s] = x],
           UNCHANGED <<booking, proposal>>, Judged(x)
    PROVE  AsAsked'
<1>1. \A t \in Sessions : tx'[t] = IF t = s THEN x ELSE tx[t]
  BY DEF IInv, TypeOK
<1>2. ASSUME NEW y, Judged(y) PROVE Judged(y)'
  BY <1>2 DEF Judged, Asked, Obeys, Modifies, SlotIsFree, HasConflict
<1>3. ASSUME NEW t \in Sessions PROVE Judged(tx[t])'
  <2>1. PICK y : y = tx'[t]
    OBVIOUS
  <2>2. Judged(y)
    BY <1>1, <2>1 DEF AsAsked
  <2>3. Judged(y)'
    BY <1>2, <2>2
  <2>4. QED
    BY <2>1, <2>3 DEF Judged, Asked, Obeys, Modifies, SlotIsFree, HasConflict
<1>4. QED
  BY <1>3 DEF AsAsked

LEMMA IdleJudged == Judged(Idle)
BY DEF Idle, Judged, Loaded, Writing

LEMMA JudgedBegin ==
    ASSUME IInv, AsAsked, NEW s \in Sessions, BeginRequest(s)
    PROVE  AsAsked'
<1>1. ASSUME NEW r \in Reservations, NEW party \in PartySizes, NEW time \in Times,
             NEW duration \in Durations, NEW tables \in SUBSET Tables,
             BeginCreate(s, r, party, time, duration, tables)
      PROVE  AsAsked'
  <2> DEFINE target == [status |-> "booked", party |-> party, table |-> NoTable,
                        time |-> time, duration |-> duration]
             x == [Idle EXCEPT !.pc = "checking", !.op = "create", !.reservation = r,
                               !.target = target, !.candidates = tables]
  <2>1. tx' = [tx EXCEPT ![s] = x] /\ UNCHANGED <<booking, proposal>>
    BY <1>1 DEF BeginCreate
  <2>2. Judged(x)
    BY DEF Idle, Judged, Asked, Writing
  <2> HIDE DEF x
  <2>3. QED
    BY <2>1, <2>2, JudgedTx
<1>2. ASSUME NEW r \in Reservations, NEW ch \in ChangeRequests, BeginModify(s, r, ch)
      PROVE  AsAsked'
  <2> DEFINE target == Modified(booking[r], ch)
             x == [Idle EXCEPT !.pc = IF Reseats(ch) THEN "checking" ELSE "writing",
                               !.op = "modify", !.reservation = r, !.image = booking[r],
                               !.target = target,
                               !.candidates = IF Reseats(ch) THEN {target.table} ELSE {}]
  <2>1. /\ tx' = [tx EXCEPT ![s] = x] /\ UNCHANGED <<booking, proposal>>
        /\ ~NeedsApproval(booking[r], ch)
    BY <1>2 DEF BeginModify
  <2>2. /\ x.pc = (IF Reseats(ch) THEN "checking" ELSE "writing") /\ x.op = "modify"
        /\ x.image = booking[r] /\ x.target = Modified(booking[r], ch)
        /\ x.candidates = IF Reseats(ch) THEN {x.target.table} ELSE {}
    BY DEF Idle
  <2> HIDE DEF x
  <2>3. Modifies(x, ch)
    BY <2>2 DEF Modifies, Writing
  <2>4. Judged(x)
    BY <2>1, <2>2, <2>3 DEF Judged, Asked
  <2>5. QED
    BY <2>1, <2>4, JudgedTx
<1>3. ASSUME NEW r \in Reservations, BeginCancel(s, r) PROVE AsAsked'
  <2> DEFINE x == [Idle EXCEPT !.pc = "writing", !.op = "cancel", !.reservation = r,
                               !.image = booking[r], !.target = Cancelled(booking[r])]
  <2>1. tx' = [tx EXCEPT ![s] = x] /\ UNCHANGED <<booking, proposal>>
    BY <1>3 DEF BeginCancel
  <2>2. x.pc = "writing" /\ x.op = "cancel" /\ x.target = Cancelled(x.image)
    BY DEF Idle
  <2> HIDE DEF x
  <2>3. Judged(x)
    BY <2>2 DEF Judged, Asked, Writing
  <2>4. QED
    BY <2>1, <2>3, JudgedTx
<1>4. ASSUME NEW p \in Proposals, BeginApprove(s, p) PROVE AsAsked'
  <2> DEFINE x == [Idle EXCEPT !.pc = "approving", !.op = "execute", !.proposal = p]
  <2>1. tx' = [tx EXCEPT ![s] = x] /\ UNCHANGED <<booking, proposal>>
    BY <1>4 DEF BeginApprove
  <2>2. Judged(x)
    BY <1>4 DEF BeginApprove, Idle, Judged, Loaded, Writing
  <2> HIDE DEF x
  <2>3. QED
    BY <2>1, <2>2, JudgedTx
<1>5. QED
  BY <1>1, <1>2, <1>3, <1>4 DEF BeginRequest

LEMMA JudgedLoad ==
    ASSUME IInv, AsAsked, NEW s \in Sessions, LoadApproved(s)
    PROVE  AsAsked'
<1> DEFINE ask == proposal[tx[s].proposal]
           r == ask.reservation
           modify == ask.action = "modify_reservation"
           reseat == modify /\ Reseats(ask.changes)
           target == IF modify THEN Modified(booking[r], ask.changes) ELSE Cancelled(booking[r])
           loaded == [tx[s] EXCEPT !.reservation = r, !.image = booking[r], !.target = target,
                                   !.pc = IF reseat THEN "checking" ELSE "writing",
                                   !.candidates = IF reseat THEN {target.table} ELSE {}]
           failed == [loaded EXCEPT !.pc = "committing", !.candidates = {}, !.target = booking[r]]
           x == IF reseat /\ ~Fits(target) THEN failed ELSE loaded
<1>1. /\ tx' = [tx EXCEPT ![s] = x] /\ UNCHANGED <<booking, proposal>>
      /\ tx[s].pc = "approving" /\ ask.status # "rejected"
  BY DEF LoadApproved
<1>2. tx[s] \in Requests /\ Formed(tx[s]) /\ Judged(tx[s])
  BY DEF IInv, TypeOK, TransactionsOK, AsAsked
<1>3. tx[s].op = "execute" /\ (tx[s].alone => ask.status = "pending")
  BY <1>1, <1>2 DEF Formed, Judged
<1> HIDE DEF target, reseat, r
<1>4. /\ x.op = "execute" /\ x.reservation = r /\ x.proposal = tx[s].proposal
      /\ x.image = booking[r] /\ x.alone = tx[s].alone
      /\ \/ x.pc = "checking" /\ x.target = target /\ x.candidates = {target.table} /\ reseat
         \/ x.pc = "writing" /\ x.target = target /\ ~reseat
         \/ x.pc = "committing" /\ x.target = booking[r]
  BY <1>2, <1>3 DEF Requests
<1>5. ask = proposal[x.proposal] /\ (x.alone => ask.status = "pending")
  BY <1>3, <1>4
<1>6. x.reservation = ask.reservation /\ x.op = "execute"
  BY <1>4 DEF r
<1> HIDE DEF x, ask
<1>7. ASSUME modify, x.target = target, x.pc \in {"checking", "writing"} PROVE Judged(x)
  <2>1. x.target = Modified(x.image, ask.changes)
    BY <1>4, <1>7 DEF target
  <2>2. Modifies(x, ask.changes)
    BY <1>4, <1>7, <2>1 DEF Modifies, Writing, reseat
  <2>3. x.alone => Obeys(x, ask)
    BY <1>5, <1>6, <1>7, <2>2 DEF Obeys
  <2>4. QED
    BY <1>5, <1>6, <1>7, <2>3 DEF Judged, Asked
<1>8. ASSUME ~modify, x.target = target, x.pc \in {"checking", "writing"} PROVE Judged(x)
  <2>1. x.target = Cancelled(x.image) /\ x.pc = "writing"
    BY <1>4, <1>8 DEF target, reseat
  <2>2. x.alone => Obeys(x, ask)
    BY <1>5, <1>6, <1>8, <2>1 DEF Obeys, Writing
  <2>3. QED
    BY <1>5, <1>6, <2>1, <2>2 DEF Judged, Asked
<1>9. ASSUME x.pc = "committing", x.target = x.image PROVE Judged(x)
  <2>1. x.alone => Obeys(x, ask)
    BY <1>5, <1>6, <1>9 DEF Obeys
  <2>2. QED
    BY <1>5, <1>6, <1>9, <2>1 DEF Judged, Asked
<1>10. Judged(x)
  BY <1>4, <1>7, <1>8, <1>9
<1>11. QED
  BY <1>1, <1>10, JudgedTx DEF x

\* An executor that fails writes nothing, under a decision that still stands.
LEMMA JudgedFailed ==
    ASSUME IInv, AsAsked, NEW s \in Sessions, tx[s].op = "execute", tx[s].pc \in Loaded
    PROVE  Judged(FailedExecution(s))
<1> DEFINE x == FailedExecution(s)
<1>1. tx[s] \in Requests /\ Judged(tx[s])
  BY DEF IInv, TypeOK, AsAsked
<1>2. /\ x.pc = "committing" /\ x.op = "execute" /\ x.reservation = tx[s].reservation
      /\ x.proposal = tx[s].proposal /\ x.image = tx[s].image /\ x.target = tx[s].image
      /\ x.alone = tx[s].alone
  BY <1>1 DEF FailedExecution, Requests
<1> HIDE DEF x
<1>3. x.alone => Obeys(x, proposal[x.proposal])
  BY <1>1, <1>2 DEF Judged, Asked, Obeys
<1>4. Judged(x)
  BY <1>2, <1>3 DEF Judged, Asked
<1>5. QED
  BY <1>4 DEF x

LEMMA JudgedCheck ==
    ASSUME IInv, AsAsked, NEW s \in Sessions, CheckTable(s)
    PROVE  AsAsked'
<1>1. PICK t \in tx[s].candidates :
        IF ~HasConflict(t, tx[s].target, tx[s].reservation)
          THEN tx' = [tx EXCEPT ![s].pc = "writing", ![s].target.table = t, ![s].candidates = {}]
        ELSE IF tx[s].candidates # {t}
          THEN tx' = [tx EXCEPT ![s].candidates = @ \ {t}]
        ELSE tx' = [tx EXCEPT ![s] = IF tx[s].op = "execute" THEN FailedExecution(s) ELSE Idle]
  BY DEF CheckTable
<1>2. /\ tx[s] \in Requests /\ Formed(tx[s]) /\ Judged(tx[s]) /\ tx[s].pc = "checking"
      /\ UNCHANGED <<booking, proposal>>
      /\ t \in Tables /\ tx[s].target.party <= Capacity[t]
  BY DEF CheckTable, IInv, TypeOK, TransactionsOK, Requests, Formed, AsAsked
<1>3. CASE ~HasConflict(t, tx[s].target, tx[s].reservation)
  <2> DEFINE target == [tx[s].target EXCEPT !.table = t]
             x == [tx[s] EXCEPT !.pc = "writing", !.target = target, !.candidates = {}]
  <2>1. tx' = [tx EXCEPT ![s] = x]
    <3>1. tx' = [tx EXCEPT ![s].pc = "writing", ![s].target.table = t, ![s].candidates = {}]
      BY <1>1, <1>3
    <3>2. tx \in [Sessions -> Requests]
      BY DEF IInv, TypeOK
    <3>3. QED
      BY <1>2, <3>1, <3>2 DEF Requests
  <2>2. /\ target.table = t /\ target.status = tx[s].target.status
        /\ target.party = tx[s].target.party /\ target.time = tx[s].target.time
        /\ target.duration = tx[s].target.duration
        /\ t = tx[s].target.table => target = tx[s].target
    BY <1>2 DEF Requests, Bookings
  <2> HIDE DEF target
  <2>3. /\ x.pc = "writing" /\ x.target = target /\ x.op = tx[s].op /\ x.image = tx[s].image
        /\ x.reservation = tx[s].reservation /\ x.proposal = tx[s].proposal
        /\ x.alone = tx[s].alone
    BY <1>2 DEF Requests
  <2> HIDE DEF x
  <2>4. SlotIsFree(x)
    <3>1. ~HasConflict(x.target.table, x.target, x.reservation)
      BY <1>3, <2>2, <2>3, ConflictIgnoresTable
    <3>2. QED
      BY <1>2, <2>2, <2>3, <3>1 DEF SlotIsFree, Fits
  <2>5. ASSUME NEW ch, Modifies(tx[s], ch) PROVE Modifies(x, ch)
    <3>1. t = tx[s].target.table
      BY <1>2, <2>5 DEF Modifies
    <3>2. x.target = tx[s].target
      BY <2>2, <2>3, <3>1
    <3>3. QED
      BY <2>3, <2>4, <2>5, <3>2 DEF Modifies
  <2>6. Obeys(tx[s], proposal[tx[s].proposal]) => Obeys(x, proposal[x.proposal])
    BY <1>2, <2>3, <2>5 DEF Obeys, Writing
  <2>7. ASSUME x.alone PROVE Asked(x)
    <3>1. Asked(tx[s])
      BY <1>2, <2>3, <2>7 DEF Judged, Loaded
    <3>2. CASE tx[s].op = "create"
      BY <2>2, <2>3, <2>4, <3>1, <3>2 DEF Asked
    <3>3. CASE tx[s].op = "modify"
      BY <2>3, <2>5, <3>1, <3>3 DEF Asked
    <3>4. CASE tx[s].op = "execute"
      BY <2>3, <2>6, <3>1, <3>4 DEF Asked
    <3>5. QED
      BY <1>2, <3>1, <3>2, <3>3, <3>4 DEF Asked, Writing
  <2>8. Judged(x)
    BY <2>3, <2>7 DEF Judged
  <2>9. QED
    BY <1>2, <2>1, <2>8, JudgedTx
<1>4. CASE HasConflict(t, tx[s].target, tx[s].reservation) /\ tx[s].candidates # {t}
  <2> DEFINE x == [tx[s] EXCEPT !.candidates = @ \ {t}]
  <2>1. tx' = [tx EXCEPT ![s] = x]
    BY <1>1, <1>4
  <2>2. /\ x.pc = "checking" /\ x.target = tx[s].target /\ x.op = tx[s].op
        /\ x.alone = tx[s].alone
    BY <1>2 DEF Requests
  <2> HIDE DEF x
  <2>3. ASSUME x.alone PROVE Asked(x)
    <3>1. Asked(tx[s])
      BY <1>2, <2>2, <2>3 DEF Judged, Loaded
    <3>2. \A ch : ~Modifies(tx[s], ch)
      BY <1>2, <1>4 DEF Modifies
    <3>3. tx[s].op = "create"
      BY <1>2, <3>1, <3>2 DEF Asked, Obeys, Writing
    <3>4. QED
      BY <1>2, <2>2, <3>1, <3>3 DEF Asked, Writing
  <2>4. Judged(x)
    BY <2>2, <2>3 DEF Judged
  <2>5. QED
    BY <1>2, <2>1, <2>4, JudgedTx
<1>5. CASE HasConflict(t, tx[s].target, tx[s].reservation) /\ tx[s].candidates = {t}
  <2>1. CASE tx[s].op = "execute"
    BY <1>1, <1>2, <1>5, <2>1, JudgedFailed, JudgedTx DEF Loaded
  <2>2. CASE tx[s].op # "execute"
    BY <1>1, <1>2, <1>5, <2>2, IdleJudged, JudgedTx
  <2>3. QED
    BY <2>1, <2>2
<1>6. QED
  BY <1>3, <1>4, <1>5

LEMMA JudgedWrite ==
    ASSUME IInv, AsAsked, NEW s \in Sessions, Write(s) \/ Publish(s)
    PROVE  AsAsked'
<1>1. PICK pc \in {"publishing", "committing"}, locked \in {tx[s].locked, {tx[s].reservation}} :
        tx' = [tx EXCEPT ![s].pc = pc, ![s].locked = locked]
  <2>1. CASE Write(s)
    <3>1. tx' = [tx EXCEPT ![s].pc = "publishing", ![s].locked = {tx[s].reservation}]
      BY <2>1 DEF Write
    <3>2. QED
      BY <3>1
  <2>2. CASE Publish(s)
    <3>1. tx' = [tx EXCEPT ![s].pc = "committing", ![s].locked = tx[s].locked]
      BY <2>2 DEF Publish, IInv, TypeOK, Requests
    <3>2. QED
      BY <3>1
  <2>3. QED
    BY <2>1, <2>2
<1> DEFINE x == [tx[s] EXCEPT !.pc = pc, !.locked = locked]
<1>2. /\ tx[s] \in Requests /\ Judged(tx[s]) /\ tx[s].pc \in {"writing", "publishing"}
      /\ UNCHANGED <<booking, proposal>>
  BY DEF IInv, TypeOK, AsAsked, Write, Publish
<1>3. tx' = [tx EXCEPT ![s] = x]
  BY <1>1
<1>4. /\ x.pc = pc /\ x.target = tx[s].target /\ x.op = tx[s].op
      /\ x.image = tx[s].image /\ x.reservation = tx[s].reservation
      /\ x.proposal = tx[s].proposal /\ x.alone = tx[s].alone
  BY <1>2 DEF Requests
<1> HIDE DEF x
<1>5. \A ch : Modifies(tx[s], ch) => Modifies(x, ch)
  BY <1>2, <1>4 DEF Modifies, SlotIsFree, Writing
<1>6. Obeys(tx[s], proposal[tx[s].proposal]) => Obeys(x, proposal[x.proposal])
  BY <1>2, <1>4, <1>5 DEF Obeys, Writing
<1>7. Asked(tx[s]) => Asked(x)
  BY <1>2, <1>4, <1>5, <1>6 DEF Asked, SlotIsFree, Writing
<1>8. Judged(x)
  BY <1>2, <1>4, <1>7 DEF Judged, Loaded, Writing
<1>9. QED
  BY <1>2, <1>3, <1>8, JudgedTx

LEMMA JudgedError ==
    ASSUME IInv, AsAsked, NEW s \in Sessions, ExecutorFails(s) \/ ApprovalRefused(s) \/ Fail(s)
    PROVE  AsAsked'
<1>1. CASE ExecutorFails(s)
  BY <1>1, JudgedFailed, JudgedTx DEF ExecutorFails, Loaded, Writing
<1>2. CASE ApprovalRefused(s) \/ Fail(s)
  BY <1>2, IdleJudged, JudgedTx DEF ApprovalRefused, Fail
<1>3. QED
  BY <1>1, <1>2

\* Nobody is executing a proposal that is made or rejected.
LEMMA JudgedProposal ==
    ASSUME IInv, AsAsked, NEW p \in Proposals, UNCHANGED <<booking, tx>>,
           \A q \in Proposals \ {p} : proposal'[q] = proposal[q],
           \/ proposal[p].status = "absent"
           \/ proposal'[p].status = "rejected" /\ \A s \in Sessions : ~Deciding(s, p)
    PROVE  AsAsked'
<1>1. ASSUME NEW s \in Sessions PROVE Judged(tx[s])'
  <2>1. Judged(tx[s]) /\ Formed(tx[s]) /\ Stands(tx[s]) /\ tx'[s] = tx[s]
    BY DEF AsAsked, IInv, TransactionsOK, Current
  <2>2. \A x, ch : Modifies(x, ch) => Modifies(x, ch)'
    BY DEF Modifies, SlotIsFree, HasConflict
  <2>3. \A x : SlotIsFree(x) => SlotIsFree(x)'
    BY DEF SlotIsFree, HasConflict
  <2>4. CASE tx[s].op # "execute"
    BY <2>1, <2>2, <2>3, <2>4 DEF Judged, Asked, Formed
  <2>5. CASE tx[s].op = "execute" /\ proposal'[tx[s].proposal] = proposal[tx[s].proposal]
    BY <2>1, <2>2, <2>3, <2>5 DEF Judged, Asked, Obeys
  <2>6. CASE tx[s].op = "execute" /\ tx[s].proposal = p
    <3>1. proposal[p].status # "absent"
      BY <2>1, <2>6 DEF Stands
    <3>2. tx[s].pc \in {"idle", "approving"} /\ proposal'[p].status = "rejected"
      BY <2>6, <3>1 DEF Deciding
    <3>3. QED
      BY <2>1, <2>6, <3>2 DEF Judged, Loaded, Writing
  <2>7. QED
    BY <2>1, <2>4, <2>5, <2>6 DEF Formed
<1>2. QED
  BY <1>1 DEF AsAsked

LEMMA JudgedCommit ==
    ASSUME IInv, AsAsked, NEW s \in Sessions, Commit(s)
    PROVE  AsAsked'
<1>1. ASSUME NEW t \in Sessions PROVE tx'[t] = Idle \/ ~tx'[t].alone
  <2>1. tx[t] \in Requests
    BY DEF IInv, TypeOK
  <2>2. tx'[t] = IF t = s \/ tx[t].pc = "idle" THEN Idle ELSE [tx[t] EXCEPT !.alone = FALSE]
    BY DEF Commit
  <2>3. QED
    BY <2>1, <2>2 DEF Requests
<1>2. \A t \in Sessions : Judged(tx[t])'
  BY <1>1 DEF Judged, Idle, Loaded, Writing
<1>3. QED
  BY <1>2 DEF AsAsked

LEMMA JudgedInit == Init => AsAsked
BY IdleJudged DEF Init, AsAsked

LEMMA JudgedNext == IInv /\ AsAsked /\ [Next]_vars => AsAsked'
<1> SUFFICES ASSUME IInv, AsAsked, [Next]_vars PROVE AsAsked'
  OBVIOUS
<1>1. CASE UNCHANGED vars
  <2>1. \A t \in Sessions : Judged(tx[t])'
    BY <1>1 DEF vars, AsAsked, Judged, Asked, Obeys, Modifies, SlotIsFree, HasConflict
  <2>2. QED
    BY <2>1 DEF AsAsked
<1>2. ASSUME NEW s \in Sessions, BeginRequest(s) PROVE AsAsked'
  BY <1>2, JudgedBegin
<1>3. ASSUME NEW s \in Sessions, RequestStep(s) PROVE AsAsked'
  BY <1>3, JudgedLoad, JudgedError, JudgedCheck, JudgedWrite, JudgedCommit DEF RequestStep
<1>4. ASSUME NEW s \in Sessions, ExecutorFails(s) \/ Fail(s) PROVE AsAsked'
  BY <1>4, JudgedError
<1>5. ASSUME NEW p \in Proposals, NEW r \in Reservations,
             (\E ch \in ChangeRequests : ProposeModify(p, r, ch)) \/ ProposeCancel(p, r)
      PROVE  AsAsked'
  <2>1. /\ UNCHANGED <<booking, tx>> /\ proposal[p].status = "absent"
        /\ \E ask : proposal' = [proposal EXCEPT ![p] = ask]
    BY <1>5 DEF ProposeModify, ProposeCancel
  <2>2. \A q \in Proposals \ {p} : proposal'[q] = proposal[q]
    BY <2>1 DEF IInv, TypeOK
  <2>3. QED
    BY <2>1, <2>2, JudgedProposal
<1>6. ASSUME NEW p \in Proposals, Reject(p) PROVE AsAsked'
  <2>1. /\ UNCHANGED <<booking, tx>> /\ proposal'[p].status = "rejected"
        /\ \A q \in Proposals \ {p} : proposal'[q] = proposal[q]
        /\ \A s \in Sessions : ~Deciding(s, p)
    BY <1>6 DEF Reject, IInv, TypeOK, ProposalRows
  <2>2. QED
    BY <2>1, JudgedProposal
<1>7. QED
  BY <1>1, <1>2, <1>3, <1>4, <1>5, <1>6 DEF Next

\* What a request that nobody overtook commits is one step of the service.
LEMMA ServedStep ==
    ASSUME IInv, AsAsked, [Next]_vars, ~Overlapped, booking' # booking
    PROVE  \/ \E r \in Reservations, party \in PartySizes, time \in Times, duration \in Durations :
                Books(r, party, time, duration)
           \/ \E r \in Reservations : Direct(r)
           \/ \E p \in Proposals : Approved(p)
<1>1. PICK s \in Sessions : Commit(s)
  BY Writers
<1> DEFINE x == tx[s]
           r == x.reservation
<1>2. /\ x.pc = "committing" /\ r \in Reservations /\ Formed(x) /\ Current(x)
      /\ x.image = booking[r] /\ x.alone /\ x \in Requests /\ Becomes(r, x.target)
  <2>1. x.alone
    BY <1>1, Committing DEF Overlapped
  <2>2. Becomes(r, x.target)
    BY <1>1, CommittingAlone DEF Becomes, Commit
  <2>3. QED
    BY <1>1, <2>1, <2>2, Committing, CommittingAlone DEF IInv, TypeOK
<1>3. Asked(x)
  BY <1>2 DEF AsAsked, Judged, Loaded, Writing
<1>4. x.image # x.target
  BY <1>2 DEF Becomes, IInv, TypeOK
<1> HIDE DEF x, r
<1>5. ASSUME NEW ch, Modifies(x, ch) PROVE ChangedTo(r, ch)
  BY <1>2, <1>5 DEF Modifies, ChangedTo, Seats, SlotIsFree, Writing, r
<1>6. CASE x.op = "create"
  <2>1. /\ x.target.status = "booked" /\ x.target.party \in PartySizes
        /\ x.target.time \in Times /\ x.target.duration \in Durations /\ SlotIsFree(x)
    BY <1>2, <1>3, <1>6 DEF Asked, Writing
  <2>2. booking[r].status = "absent"
    BY <1>2, <1>6 DEF Current, Stands, Loaded, Writing, r
  <2>3. /\ x.target = [status |-> "booked", party |-> x.target.party, table |-> x.target.table,
                       time |-> x.target.time, duration |-> x.target.duration]
        /\ x.target.table \in Tables
    BY <1>2, <2>1 DEF Requests, Bookings, SlotIsFree, Fits
  <2>4. Seats(r, x.target)
    BY <1>2, <2>1 DEF Seats, SlotIsFree, r
  <2>5. Books(r, x.target.party, x.target.time, x.target.duration)
    BY <2>2, <2>3, <2>4 DEF Books
  <2>6. QED
    BY <1>2, <2>1, <2>5
<1>7. CASE x.op \in {"modify", "cancel"}
  <2>1. booking[r].status \in Active /\ ~IsHighImpact(booking[r].party)
    BY <1>2, <1>7 DEF Formed, Loaded, Writing
  <2>2. CASE x.op = "modify"
    BY <1>2, <1>3, <1>5, <2>1, <2>2 DEF Asked, Direct
  <2>3. CASE x.op = "cancel"
    BY <1>2, <1>3, <2>1, <2>3 DEF Asked, Direct
  <2>4. QED
    BY <1>2, <1>7, <2>2, <2>3
<1>8. CASE x.op = "execute"
  <2> DEFINE p == x.proposal
             ask == proposal[p]
  <2>1. p \in Proposals /\ Obeys(x, ask)
    BY <1>2, <1>3, <1>8 DEF Formed, Asked
  <2>2. ask.status = "pending" /\ r = ask.reservation
    BY <2>1 DEF Obeys, r
  <2>3. proposal'[p].status = "approved"
    <3>1. proposal' = [proposal EXCEPT ![p].status = "approved"]
      BY <1>1, <1>8 DEF Commit, x
    <3>2. QED
      BY <2>1, <3>1 DEF IInv, TypeOK, ProposalRows
  <2>4. CASE ask.action = "modify_reservation"
    BY <1>4, <1>5, <2>1, <2>2, <2>3, <2>4 DEF Obeys, Approved
  <2>5. CASE ask.action # "modify_reservation"
    BY <1>2, <1>4, <2>1, <2>2, <2>3, <2>5 DEF Obeys, Approved
  <2>6. QED
    BY <2>1, <2>4, <2>5
<1>9. QED
  BY <1>3, <1>6, <1>7, <1>8 DEF Asked

-----------------------------------------------------------------------------
(* The theorems *)

\* Rows and requests of any instance have their types.
THEOREM TypeCorrect == Spec => []TypeOK
BY Invariant, PTL DEF IInv

\* FR-027, the part that needs no assumption: NeedsApproval weighs the party as
\* loaded and as wanted, so whatever columns an UPDATE mixes, a small party
\* becomes a large one only in the executor of an approved modification.
THEOREM GrowthApproved == Spec => LargePartyApproved
<1>1. IInv /\ [Next]_vars =>
        [\A r \in Reservations :
           booking[r].status # "absent" /\ ~IsHighImpact(booking[r].party)
             /\ IsHighImpact(booking'[r].party) => ExecutedOn(r)]_booking
  BY LargePartyStep
<1>2. QED
  BY <1>1, Invariant, PTL DEF Spec, LargePartyApproved

\* FR-027, the part that needs it: a direct change or cancellation hits a large
\* party only if the request had read a row that was changed since.
THEOREM LargePartiesHeld == Spec => HighImpactHeld
<1>1. IInv /\ [Next]_vars =>
        [\A r \in Reservations :
           booking[r].status # "absent" /\ IsHighImpact(booking[r].party)
             /\ booking'[r] # booking[r] => ExecutedOn(r) \/ Overlapped]_booking
  BY DirectRequest
<1>2. QED
  BY <1>1, Invariant, PTL DEF Spec, HighImpactHeld

\* The status test of modify_reservation() keeps cancelled bookings cancelled;
\* only the executor, which has none, and stale requests revive them.
THEOREM RevivalByApproval == Spec => RevivedOnlyByApproval
<1>1. IInv /\ [Next]_vars =>
        [\A r \in Reservations :
           booking[r].status = "cancelled" /\ booking'[r].status # "cancelled"
             => ExecutedOn(r) \/ Overlapped]_booking
  BY DirectRequest DEF Active
<1>2. QED
  BY <1>1, Invariant, PTL DEF Spec, RevivedOnlyByApproval

\* table_has_conflict() excludes double bookings, for any number of tables,
\* bookings and durations, except by overlapping requests or a revival.
THEOREM DoubleBookingCauses == Spec => ClashNeedsOverlap
<1>1. IInv /\ [Next]_vars =>
        [NoDoubleBooking /\ ~NoDoubleBooking' =>
           \/ Overlapped
           \/ \E r \in Reservations :
                 booking[r].status = "cancelled" /\ booking'[r].status \in Active]_booking
  BY ClashStep
<1>2. QED
  BY <1>1, Invariant, PTL DEF Spec, ClashNeedsOverlap

\* _apply_modification() and find_available_tables() seat every party at a
\* table that is large enough, except when requests overlap.
THEOREM MisfitCauses == Spec => MisfitNeedsOverlap
<1>1. IInv /\ [Next]_vars =>
        [EveryBookingFits /\ ~EveryBookingFits' => Overlapped]_booking
  BY MisfitStep
<1>2. QED
  BY <1>1, Invariant, PTL DEF Spec, MisfitNeedsOverlap

\* A request's SELECTs, its approval and its UPDATE lie steps apart, but unless another
\* request commits in between the outcome is that of one step of the service, made on
\* the rows as they are at the commit.
THEOREM ServedAtOnce == Spec => ServedAtOnceUnlessOverlapped
<1>1. IInv /\ AsAsked /\ [Next]_vars =>
        [\/ \E r \in Reservations, party \in PartySizes, time \in Times, duration \in Durations :
              Books(r, party, time, duration)
         \/ \E r \in Reservations : Direct(r)
         \/ \E p \in Proposals : Approved(p)
         \/ Overlapped]_booking
  BY ServedStep
<1>2. QED
  BY <1>1, Invariant, JudgedInit, JudgedNext, PTL DEF Spec, ServedAtOnceUnlessOverlapped
=============================================================================
