SPECIFICATION Spec
CONSTANTS
    Transfers = {ours, theirs}
    Ours = ours
    Hops = 3
    Configured = {1, 2, 3}
    MaxAttempts = 3
    Null = Null
INVARIANTS
    FollowsOurs
    StopsWhereRejected
CHECK_DEADLOCK FALSE
