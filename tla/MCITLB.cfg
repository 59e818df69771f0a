SPECIFICATION Spec
CONSTANTS
  Geometries <- MCGeometries
  MissPenalties = {1, 2}
  Pages = {0, 1, 2}
  Clients = 2
  MaxRequests = 5
INVARIANTS
  ITLBInvariant
  AnswersInOrder
  LruKeepsTheRecent
  RoundRobinIsFifo
PROPERTY
  AllAnswered
