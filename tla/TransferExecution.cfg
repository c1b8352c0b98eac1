SPECIFICATION FairSpec
CONSTANTS
    Runs = {r1, r2}
    Plans <- SmallPlans
    Null = Null
    Chains = 3
    MaxRecords = 2
    MaxRetries = 1
    MaxExits = 1
    MaxDbErrors = 1
    MaxRefused = 1
INVARIANTS
    TypeOK
    PageFollowsRun
    ExecutionIsExclusive
    NoBlindResend
    StepsInOrder
    CompletedIsRecorded
    OneRunPerRecord
PROPERTIES
    ImplementsHistory
    HopProgressGrows
    PreparingEnds
    ExecutingEnds
    RecordsSettle
CHECK_DEADLOCK FALSE
