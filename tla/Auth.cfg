SPECIFICATION Spec
CONSTANTS
    Messages <- MCMessages
    AllowedSets <- MCAllowedSets
    MaxFailures = 3
    MaxLines = 4
    MaxShortages = 1
CHECK_DEADLOCK FALSE
INVARIANT IdentityIsProved
INVARIANT StreamIntact
INVARIANT DescriptorsAgreed
PROPERTY ConversationEnds
PROPERTY GoodClientGetsIn
