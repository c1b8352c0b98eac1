SPECIFICATION FairSpec
CONSTANTS
  main = main
  backup1 = backup1
  backup2 = backup2
  Urls <- TwoBackups
  Requests = {r}
  Blank = Blank
  MaxRetries = 2
  QueryRetries = 3
  MaxChanges = 3
INVARIANTS
  ListIsSound
PROPERTIES
  ListFollowsPrimary
  SwitchesToBackups
  RequestsEnd
  CloseReturns
