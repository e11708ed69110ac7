SPECIFICATION Spec
CONSTANTS
    a1 = a1
    a2 = a2
    Approvals = {a1}
    Sessions = {s1, s2}
    Managers = {m1}
    Deadlined = {a1}
    Domain <- MCDomain
    NoManager = NoManager
INVARIANT DecidedOnce
CHECK_DEADLOCK FALSE
