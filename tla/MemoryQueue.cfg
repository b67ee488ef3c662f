SPECIFICATION Spec
CONSTANTS
  w1 = w1
  w2 = w2
  c1 = c1
  c2 = c2
  fast = fast
  normal = normal
  a1 = a1
  a2 = a2
  b1 = b1
  NoEntry = NoEntry
  Tasks <- MCTasks
  Routes <- MCRoutes
  RouteOf <- MCRouteOf
  MaxAttempts <- MCMaxAttempts
  Delay <- MCDelay
  Workers = {w1, w2}
  Bindings <- GroupPerRoute
  Clients = {c1, c2}
  MaxSubmits = 1
  MaxReplays = 1
  Horizon = 1
INVARIANTS
  TypeOK
  RouteAccounting
  TaskConservation
  LeaseOwnership
PROPERTY ImplementsDelivery
CHECK_DEADLOCK FALSE
