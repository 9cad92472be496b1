SPECIFICATION Spec
CONSTANTS
    HeaderLen = 2
    ReadBufLen = 3
    MaxBlockSize = 4
    Profiles <- MCProfiles
INVARIANTS
    ServerAccepts
    DeliveredInOrder
    ErrorsHaveCause
CHECK_DEADLOCK FALSE
