SPECIFICATION FairSpec
CONSTANTS
    Tools <- OrdinaryTools
    Services <- ServiceKinds
INVARIANTS TypeOK NoRepeatedEffect StopsAtFirstFailure
PROPERTY Reported
CHECK_DEADLOCK FALSE
