SPECIFICATION FairSpec
CHECK_DEADLOCK FALSE
CONSTANTS
  c1 = c1  c2 = c2  c3 = c3  n1 = n1  n2 = n2
  NoOne = NoOne
  Conn <- MCConn2
  Name <- MCName1
  MayOwn <- Everybody
  Denied <- C1ToC2
  MaxServices = 3
  MaxPending = 2
  Activatable <- Startable
  Exec <- SameCommand
  SpawnErrors = {"parse", "fork"}
  Flags <- OneFlag
  MaxOom = 1
  OomIn = {"daemon"}
  Asserts = TRUE
PROPERTIES
  HangUpsAreNoticed
  CallsAreAnswered
