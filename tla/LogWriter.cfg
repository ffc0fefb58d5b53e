SPECIFICATION Spec
CONSTANTS
    r1 = r1
    r2 = r2
    r3 = r3
    Runs = {r1, r2}
    Events = {e1}
    Closers = {k1}
    Owner = owner
    Nobody = nobody
    Parts = 2
    Slots <- MCSlots
INVARIANTS
    FileWellFormed
    AcknowledgedKept
    OneStartPerRun
    OneFailureReported
    MissingEvidenceTold
PROPERTY
    RefinesAppendLog
\* The calls are finitely many, and a crash ends them all.
CHECK_DEADLOCK FALSE
