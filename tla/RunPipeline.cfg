SPECIFICATION FairSpec
CONSTANTS
    MaxRevision = 2
    Nothing = Nothing
INVARIANTS
    ClosingNeverPanics
    CallEvidenceTruthful
    CancellationHonoured
    AllOrNothing
    ResultMatchesProgress
PROPERTIES
    ProgressMovesOn
    RequestEndsRun
CHECK_DEADLOCK FALSE
