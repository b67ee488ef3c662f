CONSTANTS
  shared = shared
  exclusive = exclusive
  wide = wide
  narrow = narrow
  NoWorker = NoWorker
  NoDelivery = NoDelivery
  Tasks <- MCTasks
  Workers <- MCWorkers
  MaxAttempts <- MCMaxAttempts
  Bound <- MCBound
  Compiled <- MCCompiled
  Unheard <- MCUnheard
  Unreadable <- MCUnreadable
  MaxReplays <- MCMaxReplays
  HistoryLimit = 1
SPECIFICATION Spec
INVARIANTS
  ServiceInvariant
  SnapshotTellsPlace
  DoneIsJudged
PROPERTIES
  EventsInOrder
  EveryAcceptedSettles
