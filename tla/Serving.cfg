\* Three payments, a signal and ten seconds that may end at any step.
CONSTANT Request = {r1, r2, r3}
SPECIFICATION FairSpec
INVARIANTS
    NoRequestIsCut
PROPERTIES
    
    StopsWhenAsked
\* The process ends.
CHECK_DEADLOCK FALSE
