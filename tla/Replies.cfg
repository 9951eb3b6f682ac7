SPECIFICATION FairSpec
CONSTANTS
  c1 = c1  c2 = c2  c3 = c3
  Off = Off
  Conn <- MCConn2
  Serial = {1}
  MaxReplies = 2
  ReplyTimeout = 2
  OomWait = 1
  NoFds <- OnlyC1
  CallFds = {FALSE}
  Refusals = {"receive", "full"}
  MaxCalls = 3
  MaxOom = 1
INVARIANTS
  EveryCallTracked
  OneAnswer
  ExpiryScheduled
  NoFreedClient
  OneItemForEachReply
PROPERTIES
  CallsComeToAnEnd
