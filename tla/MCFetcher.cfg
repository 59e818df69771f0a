CONSTANTS
  fetchSize = 4
  FetchIntervals = {1, 2, 3}
  Penalties = {1, 2, 3, 4}
  Predictors = {"none", "prompt", "late"}
  InstSizes = {1, 3}
  Instructions = 5
SPECIFICATION Spec
INVARIANT FetcherInvariant
INVARIANT ResponsesAreForTheHead
INVARIANT HasSpace
INVARIANT NothingIsLost
PROPERTY AllDelivered
