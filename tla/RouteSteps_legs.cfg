SPECIFICATION StepsSpec
CONSTANTS
  Chains <- MCChains
  Bases <- MCBases
  Networks <- StarNetworks
  Broker = 4
INVARIANT LegsNameHeldTokens
CHECK_DEADLOCK FALSE
