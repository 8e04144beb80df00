CONSTANTS
  Scanned <- FourPorts
  Plans <- SomeScans
  MaxPerState = 1
  Verbose = 0
  Debugging = 0
  OpenOnly = TRUE
SPECIFICATION Spec
INVARIANTS StateCountsExact StateIgnoresAnswerOrder NoUnexpectedState IterationComplete IgnoredStatesSummedOnce
CHECK_DEADLOCK FALSE
