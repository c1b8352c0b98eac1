SPECIFICATION FairSpec
CONSTANTS
    Texts <- AmountTexts
    Units <- AmountUnits
    Null = Null
    MaxRequests = 4
    MaxEdits = 3
INVARIANTS
    QuoteIsCurrent
    ContextIsShown
PROPERTY
    LoadingEnds
CHECK_DEADLOCK FALSE
