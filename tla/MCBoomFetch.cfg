CONSTANTS
  fetchSize = 4
  FetchIntervals = {1, 2, 3}
  Penalties = {1, 2, 3}
  Predictors = {"prompt"}
  InstSizes = {1, 2, 3}
  Instructions <- MCInstructions
  Code <- MCCode
  Walks <- MCWalks
  numEntries = 2
  Factors = {1, 2}
  rasSize = 2
SPECIFICATION BoomSpec
INVARIANTS
  BoomInvariant
  AnswersAreForTheFirst
  LoopsStayInside
  RasIsAStack
  DirectHitsAreRight
  BoomLosesNothing
PROPERTY
  BoomDeliversAll
