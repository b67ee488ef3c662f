CONSTANTS
  slow = slow
  fast = fast
  gateway = gateway
  judge = judge
  left = left
  right = right
  Nothing = Nothing
  Tasks <- MCTasks
  Delayed <- MCDelayed
  Nodes <- MCNodes
  Workers <- MCWorkers
  NodeOf <- MCNodeOf
  MaxAttempts <- MCMaxAttempts
  MaxTasks = 1
  MaxBreaks = 1
  MaxStalls = 1
  MaxTroubles = 2
SPECIFICATION Spec
INVARIANTS
  StreamInvariant
  NothingLost
  OneCopy
  OneWorkerEach
PROPERTIES
  EveryTaskSettles
