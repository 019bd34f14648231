\* The gate over plans with and without slips; three lines of the learner.
SPECIFICATION GateSpec
CONSTANTS
  Name <- Names
  Capability <- Capabilities
  Plan <- AnyPlan
  TargetList <- Lists
  MaxRounds = 3
  Requested <- Capabilities
INVARIANTS
  GateTypeOK
PROPERTIES
  NoEditDangles
  LossIsWarned
  DropTakesItsTargets
  MergingKeepsDecisions
  OnlyDistantMergesMisplace
\* The command ends.
CHECK_DEADLOCK FALSE
