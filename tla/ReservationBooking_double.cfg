SPECIFICATION Spec
CONSTANTS
    t2 = t2
    t6 = t6
    Reservations = {r1, r2}
    Tables = {t2, t6}
    Capacity <- MCCapacity
    Proposals = {p1, p2}
    Sessions = {s1}
    PartySizes = {2, 6}
    Times = {1}
    Durations = {2}
    ChangeRequests <- MCChangeRequests
    HighImpactParty = 6
    NoTable = NoTable
    NoReservation = NoReservation
    NoProposal = NoProposal
INVARIANT NoDoubleBooking
CHECK_DEADLOCK FALSE
