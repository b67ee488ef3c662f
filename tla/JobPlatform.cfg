CONSTANTS
  NoWorker = NoWorker
  NoDelivery = NoDelivery
  job = job
  w1 = w1
  w2 = w2
  Tasks <- MCTasks
  Workers <- MCWorkers
  MaxAttempts <- MCMaxAttempts
  Bound <- MCBound
  Compiled <- MCTasks
  Unheard = {}
  Unreadable <- MCTasks
  MaxReplays <- MCMaxReplays
  HistoryLimit = 1
SYMMETRY WorkerSymmetry
SPECIFICATION JobSpec
INVARIANTS
  PlatformInvariant
  FailedAttemptsRecorded
  RejectedNeverRuns
