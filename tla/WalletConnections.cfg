SPECIFICATION FairSpec
CONSTANTS
    Tabs = {t1, t2}
    Chains = {c1, c2}
    Wallets = {keplr, leap}
    None = None
    MaxClicks = 4
INVARIANTS
    SavedIsRestorable
    CalmUseHasOneWallet
PROPERTY
    RestoringEnds
CHECK_DEADLOCK FALSE
