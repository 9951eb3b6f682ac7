SPECIFICATION Spec
CONSTANTS
    Conversations = {c1, c2}
    None = None
    Dead = Dead
    NewKeyTimeout = 2
    ExpireKeysTimeout = 4
    MaxKeysInFile = 4
    MaxLockTimeouts = 2
    MaxTime = 7
CHECK_DEADLOCK FALSE
INVARIANT KeysOutliveChallenges
PROPERTY LockIsNotForEver
