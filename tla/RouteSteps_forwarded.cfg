SPECIFICATION StepsSpec
CONSTANTS
  Chains <- MCChains
  Bases <- MCBases
  Networks <- ForwardingNetworks
  Broker = 4
INVARIANT IndexedTokensArrive
CHECK_DEADLOCK FALSE
