\* The web server with two clients, and the net module's queue.
CONSTANTS
  MaxSessions = 3
  MaxDepth = 6
  Responses = {r1, r2}
  Empty = Empty
  Pieces = 2
  Callbacks = {c1, c2}
  NoObject = NoObject
  MaxPending = 3
SPECIFICATION Spec
INVARIANTS
  SessionOutlivesItsOperations
  ClientGetsTheFirstResponse
  CallbacksAreOwned
PROPERTIES
  EveryResponseIsWritten
CHECK_DEADLOCK FALSE
