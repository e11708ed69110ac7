SPECIFICATION Spec
CONSTANTS
    Items = {i1, i2}
    Purchases = {q1, q2, q3}
    Sessions = {s1}
    NoItem = NoItem
    NoPurchase = NoPurchase
SYMMETRY Symmetry
INVARIANT OpenIsUnresolved
CHECK_DEADLOCK FALSE
