SPECIFICATION Spec
CONSTANTS
    Items = {i1, i2}
    Purchases = {q1, q2, q3}
    Sessions = {s1, s2, s3}
    NoItem = NoItem
    NoPurchase = NoPurchase
SYMMETRY Symmetry
INVARIANTS TypeOK CostlyNeedsApproval
PROPERTIES SecondOrderNeedsOverlap RecordLiesOnlyByOverlap
CHECK_DEADLOCK FALSE
