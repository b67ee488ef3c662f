CONSTANTS
  task = task
  gateway = gateway
  judge = judge
  left = left
  right = right
  remote = remote
  Nothing = Nothing
  Tasks <- MCTasks
  Nodes <- MCNodes
  Workers <- MCWorkers
  NodeOf <- MCNodeOf
  MaxAttempts <- MCMaxAttempts
  MaxBreaks = 2
  MaxStalls = 1
  MaxOutages = 1
  MaxTroubles = 2
  MaxMishaps = 3
SPECIFICATION Spec
INVARIANTS
  MessageInvariant
  NothingLost
PROPERTIES
  NoRework
  KnownRouteSettles
CHECK_DEADLOCK FALSE
