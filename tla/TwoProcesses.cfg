\* Two runs at the same time over one cache root.
SPECIFICATION Spec
CONSTANTS
  None = None
  a = a
  b = b
  c = c
  here = here
  there = there
  Builder <- TwoBuilders
  Root <- OneRoot
  RootOf <- SharedRoot
  Concurrent = TRUE
  MaxAttempts = 3
INVARIANT MarkerIsValid
