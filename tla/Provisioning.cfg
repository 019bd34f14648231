\* One run at a time, two of three over a shared cache root, with crashes and failures.
SPECIFICATION Spec
CONSTANTS
  None = None
  a = a
  b = b
  c = c
  here = here
  there = there
  Builder <- ThreeBuilders
  Root <- TwoRoots
  RootOf <- RootOfEach
  Concurrent = FALSE
  MaxAttempts = 3
INVARIANTS
  MarkerIsValid
  OnlyASharedNameMisleads
PROPERTY
  FinishedEnvironmentsStay
