\* Every route, method and body, and cards with up to two fields at fault.
CONSTANT
    Calls <- SomeCalls
SPECIFICATION HttpSpec
INVARIANTS
    RefusedIsNotCharged
    ChargedIsRecorded
    ChargedIsTold
\* A call ends.
CHECK_DEADLOCK FALSE
