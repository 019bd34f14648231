\* A course of two modules, with and without a budget, up to two rounds.
SPECIFICATION Spec
CONSTANTS
  Title <- Titles
  Objective <- Objectives
  Base <- Confirmed
  Answer <- Answers
  Options <- CommandLines
  All = All
  MaxPasses = 2
INVARIANTS
  TypeOK
  WithinBudget
  OnlyAttemptedIsKnown
  OverflowHandedBackOnce
  GapsAreVisible
PROPERTIES
  Termination
