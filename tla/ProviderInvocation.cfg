SPECIFICATION FairSpec
CONSTANTS
    Nothing = Nothing
    Keys = {k1}
    Envelopes <- MCEnvelopes
    Statuses <- MCStatuses
    BodyLimit = 2
    Timeout = 1
INVARIANTS
    AttemptsMatchWire
    EvidenceOfClosingExchange
    AcceptedIsNatural
    OneRequest
PROPERTY
    InvokeReturns
\* A call ends.
CHECK_DEADLOCK FALSE
