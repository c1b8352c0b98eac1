SPECIFICATION StepsFairSpec
CONSTANTS
  Chains <- MCChains
  Bases <- MCBases
  Networks <- NativeNetworks
  Broker = 4
INVARIANTS
  TokensReturnHome
  OneHopWhenPossible
  SwapsOnlyWhenNeeded
  PassesConfiguredChains
  StepsTypeOK
  
  TokensStayReachable
  AnnouncedAreSigned
  BreaksAfterSwapOnly
PROPERTIES
  AskedIsAnswered
CHECK_DEADLOCK FALSE
