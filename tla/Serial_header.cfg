SPECIFICATION Spec
CONSTANTS
  Base = 12
  Modes = {0, 1}
  Indexes <- MCIndexes
  Times <- MCTimes
  Actors <- MCActors
  DataSizes <- MCDataSizes
  Leftovers = {0, 7, 11}
INVARIANTS ReadsBack
