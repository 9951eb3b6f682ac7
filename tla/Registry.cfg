SPECIFICATION Spec
CHECK_DEADLOCK FALSE
CONSTANTS
  c1 = c1  c2 = c2  c3 = c3  n1 = n1  n2 = n2
  NoOne = NoOne
  Conn <- MCConn3
  Name <- MCName1
  MayOwn <- Everybody
  Denied <- Nobody
  MaxServices = 3
  MaxPending = 0
  Activatable <- Nobody
  Exec <- SameCommand
  SpawnErrors = {}
  Flags <- AllFlags
  MaxOom = 0
  OomIn = {}
  Asserts = TRUE
SYMMETRY Symmetry3
INVARIANTS
  NoDuplicateOwner
  OwnedMatchesQueues
  SignalsAgree
  RepliesAreTrue
PROPERTIES
  ImplementsNameQueue
