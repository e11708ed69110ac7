SPECIFICATION Spec
CONSTANTS
    Types <- AppTypes
    Handlers <- AppHandlers
    Reactions <- MCReactions
    Keys = {}
    NoKey = NoKey
    Sessions = {s1}
    MaxRetries = 1
    MaxEvents = 1
    MaxCalls = 2
INVARIANT HandlerFailureIsContained
CHECK_DEADLOCK FALSE
