CONSTANTS
  fetchSize = 4
  FetchIntervals = {1}
  Penalties = {3}
  Predictors = {"prompt"}
  InstSizes = {1, 3}
  Instructions = 10
SPECIFICATION Spec
INVARIANT HasRoom
