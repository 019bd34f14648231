\* One tab: plans, edits, options of the build, overlapping listeners.
SPECIFICATION Spec
CONSTANTS
  Name <- Names
  Capability <- Capabilities
  Plan <- Plans
  Asked <- Edits
  Requested <- Capabilities
  MaxUndo = 1
  Limit <- Numbers
  Refused <- Refusals
  negative = negative
  NoPlan = NoPlan
  MaxPlans = 3
  MaxChanges = 2
  MaxBuilds = 2
  MaxRunning = 2
INVARIANTS
  TypeOK
  LaunchedAsConfirmed
  PreviewIsKept
  OnlyLostUpdatesSurprise
\* The bounds on plans and builds end it.
CHECK_DEADLOCK FALSE
