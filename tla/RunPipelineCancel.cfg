SPECIFICATION Spec
CONSTANTS
    MaxRevision = 1
    Nothing = Nothing
INVARIANTS
    EarlyRequestCancels
CHECK_DEADLOCK FALSE
