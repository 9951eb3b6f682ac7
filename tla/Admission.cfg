SPECIFICATION Spec
CONSTANTS
    Connections = {c1, c2, c3}
    Users = {u1}
    Anonymous = Anonymous
    AuthTimeout = 2
    MaxIncomplete = 1
    MaxCompleted = 2
    MaxPerUser = 1
    MaxInt = 1
    MaxMajor = 1
    MaxShortages = 1
INVARIANT UserCountsExact
INVARIANT LimitsHold
INVARIANT NamesNeverReused
PROPERTY EveryConnectionSettles
