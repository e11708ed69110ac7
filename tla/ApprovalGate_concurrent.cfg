SPECIFICATION FairSpec
CONSTANTS
    a1 = a1
    a2 = a2
    Approvals = {a1, a2}
    Sessions = {s1, s2}
    Managers = {m1, m2}
    Deadlined = {a1, a2}
    Domain <- MCDomain
    NoManager = NoManager
INVARIANTS TypeOK EffectsAreApproved TrailMatchesRow DecisionsNeverDeadlock
PROPERTIES DecisionsTerminal EverySessionEnds
CHECK_DEADLOCK FALSE
