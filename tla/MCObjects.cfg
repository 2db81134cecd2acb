CONSTANTS
    Addresses = {a1, a2}
    Functions = {f, g}
    None = None
    MaxObjects = 3
    MaxActs = 3
SPECIFICATION Spec
INVARIANTS RefsBalanced DeadLeavesNothing CirclesGo TopicCallsLive LastToldIsCurrent
SYMMETRY Symmetric
CHECK_DEADLOCK FALSE
