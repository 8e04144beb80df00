CONSTANTS
  NumHosts = 3
  Groupings <- TwoGroupings
  Ignored = {}
  Direct = {3}
  Guesses <- OneGuess
  Answers <- SharedRoute
  Distances = {1}
  InitialTTL = 2
  MaxTTL = 3
  MaxOutstanding = 2
  MaxResends = 1
  MaxCache = 3
SPECIFICATION Spec
INVARIANTS ProbeListsAgree HopTreeSound OwnTraceComplete
PROPERTIES AnswersKept Termination
