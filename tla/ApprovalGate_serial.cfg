SPECIFICATION Spec
CONSTANTS
    a1 = a1
    a2 = a2
    Approvals = {a1, a2}
    Sessions = {s1}
    Managers = {m1, m2}
    Deadlined = {a1, a2}
    Domain <- MCDomain
    NoManager = NoManager
INVARIANT DecidedOnce
PROPERTY ImplementsLifecycle
CHECK_DEADLOCK FALSE
