\* One round: the planner covers what module A dropped.
SPECIFICATION Spec
CONSTANTS
  Title <- Titles
  Objective <- Objectives
  Base <- Confirmed
  Answer <- OneAnswer
  Options <- OneRound
  All = All
  MaxPasses = 1
INVARIANTS
  OverflowIsNotKnown
