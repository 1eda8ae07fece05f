\* Every pair of wrong fields in every encoding under every content type.
SPECIFICATION ChecksSpec
CONSTANT Messages <- TwoFieldsOff
INVARIANTS
    
    StoredCanBeRequested
    FailureKeepsMessage
CHECK_DEADLOCK FALSE
