SPECIFICATION FairSpec
CONSTANTS
    Tabs = {t1, t2}
    MAX_TRANSACTIONS = 2
    Limit = 2
    TotalSteps = 1
    Null = Null
    MaxRecords = 3
    MaxReloads = 1
INVARIANTS
    NewestKept
    PanelShowsLatest
PROPERTY
    WritesSettle
CHECK_DEADLOCK FALSE
