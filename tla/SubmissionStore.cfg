SPECIFICATION Spec

CONSTANTS
  first = first
  second = second
  original = original
  redelivered = redelivered
  cpp = cpp
  rust = rust
  Nothing = Nothing
  Authors <- MCAuthors
  Judges <- MCJudges
  Languages <- MCLanguages
  Drafts <- MCDrafts
  MaxSaves = 2
  MaxEvents = 4
  MaxErrors = 1

SYMMETRY Symmetry

CHECK_DEADLOCK FALSE

INVARIANTS
  StoreInvariant
  DetailsAreOrdered
