SPECIFICATION Spec
CHECK_DEADLOCK FALSE
CONSTANTS
  c1 = c1  c2 = c2  c3 = c3  n1 = n1  n2 = n2
  NoOne = NoOne
  Conn <- MCConn2
  Name <- MCName2
  MayOwn <- ButC2ForN2
  Denied <- Nobody
  MaxServices = 2
  MaxPending = 2
  Activatable <- Startable
  Exec <- SameCommand
  SpawnErrors = {"parse"}
  Flags <- FewFlags
  MaxOom = 1
  OomIn = {"up", "daemon"}
  Asserts = TRUE
INVARIANTS
  WaitingCallsArePending
  AnsweredOnce
  OwnedMatchesQueues
  SignalsAgree
  NothingPendsOnOwnedNames
PROPERTIES
  OperationsUntilShortage
