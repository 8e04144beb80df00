CONSTANTS
  NumHosts = 2
  Groupings <- OneGroup
  Ignored = {}
  Direct = {}
  Guesses <- NoGuess
  Answers <- OneRoute
  Distances = {0}
  InitialTTL = 3
  MaxTTL = 4
  MaxOutstanding = 4
  MaxResends = 1
  MaxCache = 1000
SPECIFICATION Spec
INVARIANTS EveryTraceComplete
