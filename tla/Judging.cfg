SPECIFICATION Spec

CONSTANTS
  Problems <- MCProblems
  Answers <- MCAnswers
  Outputs <- MCOutputs
  MaxEdits = 1
  MaxTroubles = 3
  Nothing = Nothing

CHECK_DEADLOCK FALSE

INVARIANTS
  JudgingInvariant
  VerdictIsEarned
  ViewsAgree
