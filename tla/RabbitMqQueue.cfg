CONSTANTS
  twice = twice
  node = node
  left = left
  right = right
  Nobody = Nobody
  Nothing = Nothing
  Tasks <- MCTasks
  Workers <- MCWorkers
  Nodes <- MCNodes
  NodeOf <- MCNodeOf
  MaxAttempts <- MCMaxAttempts
  MaxBreaks = 1
  MaxTroubles = 2
  MaxCalls = 2
  MaxMishaps = 3
SPECIFICATION Spec
INVARIANTS
  MessageInvariant
  NothingLost
  OneCopy
  AcksHitTheirOwn
  RouteRemembered
PROPERTIES
  KnownRouteSettles
