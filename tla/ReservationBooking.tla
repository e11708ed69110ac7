------------------------- MODULE ReservationBooking -------------------------
(***************************************************************************)
(* ReservationService (app/services/reservation_service.py): booking,      *)
(* modifying and cancelling reservations, directly or through an approved  *)
(* proposal.  Availability is checked by SELECTs and enforced by nothing   *)
(* in the database, so what is checked and what is committed are separate  *)
(* steps of a request's READ COMMITTED transaction.  An UPDATE names only  *)
(* the columns that differ from what the session had loaded.               *)
(***************************************************************************)
EXTENDS Naturals, FiniteSets

CONSTANTS
    Reservations,     \* reservation ids
    Tables,           \* active tables of the restaurant
    Capacity,         \* Capacity[t]: Table.seat_capacity
    Proposals,        \* ids of approvals with domain "reservation"
    Sessions,         \* database sessions that can be open at the same time
    PartySizes, Times, Durations,   \* what requests ask for
    ChangeRequests,   \* the changes a modification may ask for
    HighImpactParty,  \* settings.reservation_high_impact_party_size
    NoTable, NoReservation, NoProposal

\* A requested change; 0 and NoTable stand for a column not named in it. A
\* change that names none of them still may rewrite the notes.
Changes == [party : Nat, time : Nat, table : Tables \cup {NoTable}]

ASSUME CapacityAssumption == Capacity \in [Tables -> Nat]
ASSUME InputsAssumption ==
    /\ PartySizes \subseteq Nat \ {0}
    /\ Times \subseteq Nat \ {0}
    /\ Durations \subseteq Nat \ {0}
    /\ ChangeRequests \subseteq Changes
ASSUME ThresholdAssumption == HighImpactParty \in Nat \ {0}
ASSUME NullsAssumption ==
    NoTable \notin Tables /\ NoReservation \notin Reservations /\ NoProposal \notin Proposals

VARIABLES
    booking,   \* booking[r]: the committed reservations row
    proposal,  \* proposal[p]: the committed approvals row
    tx         \* tx[s]: the request session s is serving

vars == <<booking, proposal, tx>>

Active == {"booked", "modified"}
BookingStatuses == Active \cup {"absent", "cancelled"}

\* Statuses no code path assigns (requested, completed, no_show) are left out,
\* and so is a NULL table, which only the deletion of a table could leave.
Bookings == [status : BookingStatuses, party : Nat, table : Tables \cup {NoTable},
             time : Nat, duration : Nat]

ProposalRows ==
    [status : {"absent", "pending", "approved", "rejected"},
     action : {"modify_reservation", "cancel_reservation"},
     reservation : Reservations \cup {NoReservation}, changes : Changes]

Operations == {"none", "create", "modify", "cancel", "execute"}

Requests ==
    [pc : {"idle", "approving", "checking", "writing", "publishing", "committing"},
     op : Operations,
     reservation : Reservations \cup {NoReservation}, proposal : Proposals \cup {NoProposal},
     image : Bookings,               \* the row as this session loaded it
     target : Bookings,              \* the row as this session wants it
     candidates : SUBSET Tables,     \* tables whose availability is still to be checked
     locked : SUBSET Reservations,   \* rows updated, whose lock is held
     alone : BOOLEAN]                \* history: nobody else has committed a booking since it began

NoChange == [party |-> 0, time |-> 0, table |-> NoTable]
AbsentBooking == [status |-> "absent", party |-> 0, table |-> NoTable, time |-> 0, duration |-> 0]
AbsentProposal == [status |-> "absent", action |-> "cancel_reservation",
                   reservation |-> NoReservation, changes |-> NoChange]
Idle == [pc |-> "idle", op |-> "none", reservation |-> NoReservation, proposal |-> NoProposal,
         image |-> AbsentBooking, target |-> AbsentBooking, candidates |-> {}, locked |-> {},
         alone |-> TRUE]

Init ==
    /\ booking = [r \in Reservations |-> AbsentBooking]
    /\ proposal = [p \in Proposals |-> AbsentProposal]
    /\ tx = [s \in Sessions |-> Idle]

-----------------------------------------------------------------------------
(* Rules of the service *)

IsHighImpact(party) == party >= HighImpactParty

\* Mutant: only a booking that begins or ends within the other one is seen.
OverlapEdges(b, c) ==
    \/ b.time < c.time /\ c.time < b.time + b.duration
    \/ b.time < c.time + c.duration /\ c.time + c.duration < b.time + b.duration

\* Half-open intervals, as in table_has_conflict: back to back is no overlap.
Overlap(b, c) == b.time < c.time + c.duration /\ c.time < b.time + b.duration

\* table_has_conflict(): some other active committed reservation of table t
\* overlaps b.
HasConflict(t, b, self) ==
    \E r \in Reservations \ {self} :
        booking[r].status \in Active /\ booking[r].table = t /\ Overlap(booking[r], b)

\* The row _apply_modification() aims at.
Modified(b, ch) ==
    [b EXCEPT !.status = "modified",
              !.party = IF ch.party = 0 THEN @ ELSE ch.party,
              !.time = IF ch.time = 0 THEN @ ELSE ch.time,
              !.table = IF ch.table = NoTable THEN @ ELSE ch.table]

Cancelled(b) == [b EXCEPT !.status = "cancelled"]

\* Mutant: a larger party alone does not make the service look at the table.
ReseatsUnlessParty(ch) == ch.time # 0 \/ ch.table # NoTable

\* Only these changes make _apply_modification() look at the table at all.
Reseats(ch) == ch # NoChange

Fits(b) == b.table \in Tables /\ b.party <= Capacity[b.table]

\* Mutants: only the requested, or only the loaded, party is weighed.
NeedsApprovalRequested(b, ch) == IsHighImpact(Modified(b, ch).party)
NeedsApprovalLoaded(b, ch) == IsHighImpact(b.party)

\* modify_reservation() weighs the party as loaded and as requested.
NeedsApproval(b, ch) == IsHighImpact(b.party) \/ IsHighImpact(Modified(b, ch).party)

-----------------------------------------------------------------------------
(* Requests served directly *)

\* create_reservation() up to the availability check. Without a table in the
\* request every table with the seats is a candidate.
BeginCreate(s, r, party, time, duration, tables) ==
    /\ tx[s].pc = "idle"
    /\ booking[r].status = "absent"
    /\ \A t \in Sessions : tx[t].reservation # r
    /\ \/ \E t \in Tables : tables = {t} /\ party <= Capacity[t]
       \/ tables = {t \in Tables : party <= Capacity[t]} /\ tables # {}
    /\ tx' = [tx EXCEPT ![s] =
                [Idle EXCEPT !.pc = "checking", !.op = "create", !.reservation = r,
                             !.target = [status |-> "booked", party |-> party, table |-> NoTable,
                                         time |-> time, duration |-> duration],
                             !.candidates = tables]]
    /\ UNCHANGED <<booking, proposal>>

\* Mutant: the status of the booking is not looked at.
BeginModifyAny(s, r, ch) ==
    /\ tx[s].pc = "idle"
    /\ booking[r].status # "absent"
    /\ ~NeedsApproval(booking[r], ch)
    /\ Reseats(ch) => Fits(Modified(booking[r], ch))
    /\ tx' = [tx EXCEPT ![s] =
                [Idle EXCEPT !.pc = IF Reseats(ch) THEN "checking" ELSE "writing",
                             !.op = "modify", !.reservation = r, !.image = booking[r],
                             !.target = Modified(booking[r], ch),
                             !.candidates = IF Reseats(ch)
                                              THEN {Modified(booking[r], ch).table} ELSE {}]]
    /\ UNCHANGED <<booking, proposal>>

\* modify_reservation() of a routine booking. A table too small for the party
\* is refused before anything is written.
BeginModify(s, r, ch) ==
    /\ tx[s].pc = "idle"
    /\ booking[r].status \in Active
    /\ ~NeedsApproval(booking[r], ch)
    /\ Reseats(ch) => Fits(Modified(booking[r], ch))
    /\ tx' = [tx EXCEPT ![s] =
                [Idle EXCEPT !.pc = IF Reseats(ch) THEN "checking" ELSE "writing",
                             !.op = "modify", !.reservation = r, !.image = booking[r],
                             !.target = Modified(booking[r], ch),
                             !.candidates = IF Reseats(ch)
                                              THEN {Modified(booking[r], ch).table} ELSE {}]]
    /\ UNCHANGED <<booking, proposal>>

\* cancel_reservation() of a routine booking.
BeginCancel(s, r) ==
    /\ tx[s].pc = "idle"
    /\ booking[r].status \in Active
    /\ ~IsHighImpact(booking[r].party)
    /\ tx' = [tx EXCEPT ![s] =
                [Idle EXCEPT !.pc = "writing", !.op = "cancel", !.reservation = r,
                             !.image = booking[r], !.target = Cancelled(booking[r])]]
    /\ UNCHANGED <<booking, proposal>>

-----------------------------------------------------------------------------
(* The high-impact gate *)

\* modify_reservation() and cancel_reservation() of a large party: one read
\* and one INSERT, so a single step.
ProposeModify(p, r, ch) ==
    /\ proposal[p].status = "absent"
    /\ booking[r].status \in Active
    /\ NeedsApproval(booking[r], ch)
    /\ proposal' = [proposal EXCEPT ![p] =
                      [status |-> "pending", action |-> "modify_reservation",
                       reservation |-> r, changes |-> ch]]
    /\ UNCHANGED <<booking, tx>>

ProposeCancel(p, r) ==
    /\ proposal[p].status = "absent"
    /\ booking[r].status \in Active
    /\ IsHighImpact(booking[r].party)
    /\ proposal' = [proposal EXCEPT ![p] =
                      [status |-> "pending", action |-> "cancel_reservation",
                       reservation |-> r, changes |-> NoChange]]
    /\ UNCHANGED <<booking, tx>>

\* The session that has flushed the decision on p holds p's row lock.
Deciding(s, p) == tx[s].proposal = p /\ tx[s].pc \notin {"idle", "approving"}

\* ApprovalService.reject().
Reject(p) ==
    /\ proposal[p].status = "pending"
    /\ \A s \in Sessions : ~Deciding(s, p)
    /\ proposal' = [proposal EXCEPT ![p].status = "rejected"]
    /\ UNCHANGED <<booking, tx>>

\* ApprovalService.approve() up to the flush of the decision (ApprovalGate).
BeginApprove(s, p) ==
    /\ tx[s].pc = "idle"
    /\ proposal[p].status = "pending"
    /\ tx' = [tx EXCEPT ![s] = [Idle EXCEPT !.pc = "approving", !.op = "execute", !.proposal = p]]
    /\ UNCHANGED <<booking, proposal>>

\* Mutant: the savepoint's rollback forgets which row was being written.
FailedExecutionLost(s) ==
    [tx[s] EXCEPT !.pc = "committing", !.target = Idle, !.candidates = {}, !.locked = {}]

\* An executor that raised: its savepoint is rolled back, the decision stays.
FailedExecution(s) ==
    [tx[s] EXCEPT !.pc = "committing", !.target = tx[s].image, !.candidates = {}, !.locked = {}]

\* The decision is flushed and execute_approved_action() loads the booking,
\* whatever its status has become, and applies the proposed action.
LoadApproved(s) ==
    /\ tx[s].pc = "approving"
    /\ \A t \in Sessions \ {s} : ~Deciding(t, tx[s].proposal)
    /\ proposal[tx[s].proposal].status # "rejected"
    /\ LET ask == proposal[tx[s].proposal]
           r == ask.reservation
           reseat == ask.action = "modify_reservation" /\ Reseats(ask.changes)
           target == IF ask.action = "modify_reservation"
                       THEN Modified(booking[r], ask.changes) ELSE Cancelled(booking[r])
           loaded == [tx[s] EXCEPT !.reservation = r, !.image = booking[r], !.target = target,
                                   !.pc = IF reseat THEN "checking" ELSE "writing",
                                   !.candidates = IF reseat THEN {target.table} ELSE {}]
       IN tx' = [tx EXCEPT ![s] = IF reseat /\ ~Fits(target)
                                    THEN [loaded EXCEPT !.pc = "committing", !.candidates = {},
                                                        !.target = booking[r]]
                                    ELSE loaded]
    /\ UNCHANGED <<booking, proposal>>

-----------------------------------------------------------------------------
(* The rest of a request *)

\* The loop of find_available_tables(), smallest table first, or the single
\* check of a named table. Each SELECT sees what is committed by then.
CheckTable(s) ==
    /\ tx[s].pc = "checking"
    /\ \E t \in tx[s].candidates :
         /\ \A u \in tx[s].candidates : Capacity[t] <= Capacity[u]
         /\ IF ~HasConflict(t, tx[s].target, tx[s].reservation)
              THEN tx' = [tx EXCEPT ![s].pc = "writing", ![s].target.table = t,
                                    ![s].candidates = {}]
            ELSE IF tx[s].candidates # {t}
              THEN tx' = [tx EXCEPT ![s].candidates = @ \ {t}]
            ELSE tx' = [tx EXCEPT ![s] = IF tx[s].op = "execute" THEN FailedExecution(s) ELSE Idle]
    /\ UNCHANGED <<booking, proposal>>

\* repo.create() or repo.save(): an UPDATE waits for the lock on the row.
Write(s) ==
    /\ tx[s].pc = "writing"
    /\ \A t \in Sessions \ {s} : tx[s].reservation \notin tx[t].locked
    /\ tx' = [tx EXCEPT ![s].pc = "publishing", ![s].locked = {tx[s].reservation}]
    /\ UNCHANGED <<booking, proposal>>

\* The reservation.created, .modified or .cancelled event.
Publish(s) ==
    /\ tx[s].pc = "publishing"
    /\ tx' = [tx EXCEPT ![s].pc = "committing"]
    /\ UNCHANGED <<booking, proposal>>

Column(wanted, loaded, stored) == IF wanted # loaded THEN wanted ELSE stored

\* The row after the UPDATE: only the columns this session changed are its own.
Written(s) ==
    LET image == tx[s].image
        target == tx[s].target
        stored == booking[tx[s].reservation]
    IN [status |-> Column(target.status, image.status, stored.status),
        party |-> Column(target.party, image.party, stored.party),
        table |-> Column(target.table, image.table, stored.table),
        time |-> Column(target.time, image.time, stored.time),
        duration |-> Column(target.duration, image.duration, stored.duration)]

\* get_db_session commits the booking and, with it, the decision.
Commit(s) ==
    /\ tx[s].pc = "committing"
    /\ booking' = [booking EXCEPT ![tx[s].reservation] = Written(s)]
    /\ proposal' = IF tx[s].op = "execute"
                     THEN [proposal EXCEPT ![tx[s].proposal].status = "approved"] ELSE proposal
    /\ tx' = [t \in Sessions |-> IF t = s \/ tx[t].pc = "idle" THEN Idle
                                 ELSE [tx[t] EXCEPT !.alone = FALSE]]

\* Any error inside the executor's savepoint.
ExecutorFails(s) ==
    /\ tx[s].op = "execute"
    /\ tx[s].pc \in {"checking", "writing", "publishing"}
    /\ tx' = [tx EXCEPT ![s] = FailedExecution(s)]
    /\ UNCHANGED <<booking, proposal>>

\* The CHECK of the approvals table refuses to approve a rejected row.
ApprovalRefused(s) ==
    /\ tx[s].pc = "approving"
    /\ proposal[tx[s].proposal].status = "rejected"
    /\ tx' = [tx EXCEPT ![s] = Idle]
    /\ UNCHANGED <<booking, proposal>>

\* Any other error, a crash or a lost connection: get_db_session rolls back.
Fail(s) ==
    /\ tx[s].pc # "idle"
    /\ tx' = [tx EXCEPT ![s] = Idle]
    /\ UNCHANGED <<booking, proposal>>

RequestStep(s) ==
    \/ LoadApproved(s) \/ ApprovalRefused(s) \/ CheckTable(s)
    \/ Write(s) \/ Publish(s) \/ Commit(s)

BeginRequest(s) ==
    \/ \E r \in Reservations, party \in PartySizes, time \in Times, duration \in Durations :
         \E tables \in SUBSET Tables : BeginCreate(s, r, party, time, duration, tables)
    \/ \E r \in Reservations, ch \in ChangeRequests : BeginModify(s, r, ch)
    \/ \E r \in Reservations : BeginCancel(s, r)
    \/ \E p \in Proposals : BeginApprove(s, p)

Next ==
    \/ \E s \in Sessions : BeginRequest(s) \/ RequestStep(s) \/ ExecutorFails(s) \/ Fail(s)
    \/ \E p \in Proposals, r \in Reservations :
         (\E ch \in ChangeRequests : ProposeModify(p, r, ch)) \/ ProposeCancel(p, r)
    \/ \E p \in Proposals : Reject(p)

Spec == Init /\ [][Next]_vars

-----------------------------------------------------------------------------
(* Properties *)

TypeOK ==
    /\ booking \in [Reservations -> Bookings]
    /\ proposal \in [Proposals -> ProposalRows]
    /\ tx \in [Sessions -> Requests]

\* When a party sits at its table, moment by moment: nothing of how the service
\* compares two bookings is in it.
Occupied(b) == b.time .. (b.time + b.duration - 1)

Clash(r, q) ==
    /\ booking[r].status \in Active /\ booking[q].status \in Active
    /\ booking[r].table = booking[q].table
    /\ Occupied(booking[r]) \cap Occupied(booking[q]) # {}

\* No table is promised to two parties at the same time (data-model.md leaves
\* this to ReservationService alone).
NoDoubleBooking == \A r, q \in Reservations : r # q => ~Clash(r, q)

\* Every booking, cancelled ones included, sits at a table with enough seats.
EveryBookingFits == \A r \in Reservations : booking[r].status # "absent" => Fits(booking[r])

\* This very step ends a request that had the approval of a change of r...
ExecutedOn(r) ==
    \E s \in Sessions : /\ tx[s].op = "execute" /\ tx[s].reservation = r
                        /\ tx[s].pc = "committing" /\ tx'[s] = Idle

\* ...or a request during which another one committed a booking.
Overlapped == \E s \in Sessions : ~tx[s].alone /\ tx[s].pc = "committing" /\ tx'[s] = Idle

\* Whatever overlaps, a booking grows to a party that needs approval only by
\* an approved modification: no direct request can push it over the threshold,
\* not even with a stale image of the row.
LargePartyApproved ==
    [][\A r \in Reservations :
         booking[r].status # "absent" /\ ~IsHighImpact(booking[r].party)
           /\ IsHighImpact(booking'[r].party) => ExecutedOn(r)]_booking

\* FR-027: a committed booking for a large party changes only by an approved
\* proposal, unless the request read the booking before another one changed it.
HighImpactHeld ==
    [][\A r \in Reservations :
         booking[r].status # "absent" /\ IsHighImpact(booking[r].party)
           /\ booking'[r] # booking[r] => ExecutedOn(r) \/ Overlapped]_booking

\* A cancelled booking comes back only by an approved modification, or by a
\* request that read it before it was cancelled.
RevivedOnlyByApproval ==
    [][\A r \in Reservations :
         booking[r].status = "cancelled" /\ booking'[r].status # "cancelled"
           => ExecutedOn(r) \/ Overlapped]_booking

\* A double booking comes about in two ways only: requests overlapped, or an
\* approval brought a cancelled booking back. Every other step checks the slot
\* it takes, and a booking keeps the slot it was checked for.
ClashNeedsOverlap ==
    [][NoDoubleBooking /\ ~NoDoubleBooking' =>
         \/ Overlapped
         \/ \E r \in Reservations :
               booking[r].status = "cancelled" /\ booking'[r].status \in Active]_booking

\* A party comes to sit at a table too small for it only if requests
\* overlapped: party and table are otherwise judged together.
MisfitNeedsOverlap ==
    [][EveryBookingFits /\ ~EveryBookingFits' => Overlapped]_booking

Becomes(r, b) == booking' = [booking EXCEPT ![r] = b]

\* Somebody has the seats, and the slot is free, at the moment it is taken.
Seats(r, b) == Fits(b) /\ ~HasConflict(b.table, b, r) /\ Becomes(r, b)

Books(r, party, time, duration) ==
    /\ booking[r].status = "absent"
    /\ \E t \in Tables : Seats(r, [status |-> "booked", party |-> party, table |-> t,
                                   time |-> time, duration |-> duration])

\* Only a change of notes is not judged.
ChangedTo(r, ch) ==
    LET b == Modified(booking[r], ch) IN IF Reseats(ch) THEN Seats(r, b) ELSE Becomes(r, b)

Direct(r) ==
    /\ booking[r].status \in Active
    /\ \/ \E ch \in ChangeRequests : ~NeedsApproval(booking[r], ch) /\ ChangedTo(r, ch)
       \/ ~IsHighImpact(booking[r].party) /\ Becomes(r, Cancelled(booking[r]))

\* The one step that approves p does what p says, whatever the booking's status.
Approved(p) ==
    LET ask == proposal[p] IN
      /\ ask.status = "pending" /\ proposal'[p].status = "approved"
      /\ IF ask.action = "modify_reservation" THEN ChangedTo(ask.reservation, ask.changes)
         ELSE Becomes(ask.reservation, Cancelled(booking[ask.reservation]))

\* A request that no other one commits over is as good as served in one step: what it
\* judged several SELECTs and an approval earlier is true of the rows it changes, and
\* it changes nothing but what was asked, or approved.
ServedAtOnceUnlessOverlapped ==
    [][\/ \E r \in Reservations, party \in PartySizes, time \in Times, duration \in Durations :
            Books(r, party, time, duration)
       \/ \E r \in Reservations : Direct(r)
       \/ \E p \in Proposals : Approved(p)
       \/ Overlapped]_booking
=============================================================================
