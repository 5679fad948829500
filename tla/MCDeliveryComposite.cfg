SPECIFICATION Spec
CONSTANTS
    Tools <- LookupThenPost
    Services <- KeyedService
INVARIANT NoRepeatedEffect
CHECK_DEADLOCK FALSE
