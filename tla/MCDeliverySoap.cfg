SPECIFICATION Spec
CONSTANTS
    Tools <- SoapChanges
    Services <- KeyedService
INVARIANT NoAttemptMeansNone
CHECK_DEADLOCK FALSE
