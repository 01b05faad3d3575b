SPECIFICATION FairSpec
CONSTANTS
  a = a
  b = b
  Terminals = {a, b}
  CommandsOf <- MCCommandsOf
  MaxReplicas = 2
  Declared = 1
  FixedName = FALSE
  FixedPort = FALSE
  UniquePids = TRUE
  Unscaled = unscaled
  Free = free
  MaxIds = 3
  MaxRuns <- MCMaxRuns
  MaxHand = 1
INVARIANTS
    Harmless
PROPERTIES
    ScaleDelivers
    Granted
CHECK_DEADLOCK FALSE
