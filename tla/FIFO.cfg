CONSTANTS
  N = 3
  Values = {a, b}
  NoValue = NoValue
SPECIFICATION Spec
INVARIANTS TypeOK OwnedSlot
PROPERTY ImplementsQueue
