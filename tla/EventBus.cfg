SPECIFICATION FairSpec
CONSTANTS
    Types = {"inventory.low"}
    Handlers <- WithAudit
    Reactions <- MCReactions
    Keys = {k1}
    NoKey = NoKey
    Sessions = {s1, s2}
    MaxRetries = 1
    MaxEvents = 2
    MaxCalls = 2
INVARIANTS TypeOK UniqueKeys EveryHandlerRan NoCommitWhenPoisoned
PROPERTY ReturnsOrPublishesAgain
CHECK_DEADLOCK FALSE
