SPECIFICATION Spec
CONSTANTS
    Texts <- AmountTexts
    Units <- AmountUnits
    Null = Null
    MaxRequests = 4
    MaxEdits = 3
INVARIANT
    ExecutesWhatWasQuoted
CHECK_DEADLOCK FALSE
