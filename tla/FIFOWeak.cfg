CONSTANTS
  N = 2
  Values = {a, b}
  NoValue = NoValue
SPECIFICATION WeakSpec
INVARIANT TakesWhatWasAdded
