SPECIFICATION Spec

CONSTANTS
  punctual = punctual
  slow = slow
  judge = judge
  special = special
  fast = fast
  normal = normal
  Never = Never
  Nodes <- MCNodes
  Groups <- MCGroups
  Bindings <- MCBindings
  Behind <- MCBehind
  Period = 2
  StaleAfter = 4
  TimeToLive = 6
  MaxLate = 1

INVARIANTS
  RegistryInvariant

PROPERTIES
  AnswersAreJustified
