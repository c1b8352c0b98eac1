SPECIFICATION StepsSpec
CONSTANTS
  Chains <- MCChains
  Bases <- MCBases
  Networks <- StarNetworks
  Broker = 4
INVARIANT PathHasAllChains
CHECK_DEADLOCK FALSE
