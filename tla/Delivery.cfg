SPECIFICATION Spec
CONSTANTS
  ann = ann
  bob = bob
  eve = eve
  mail = mail
  Conn = {ann, bob, eve}
  Name = {mail}
  Driver = Driver
  Nil = Nil
  Type = {"call", "signal", "return"}
  Iface = {"I"}
  MaxRules = 2
  MatchRule <- MCRules
  Message <- MCMessages
  BusPolicy <- MCPolicies
  Who <- MCWho
  TakesFds = {ann, bob}
  MaxTotal = 3
  FullSets <- MCFull
  AsksFor <- MCAsksFor
CHECK_DEADLOCK FALSE
INVARIANT RuleBooks
INVARIANT ExactDelivery
PROPERTY OptimizeNeverLoosens
