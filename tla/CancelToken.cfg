SPECIFICATION FairSpec
CONSTANTS
    Cancellers = {c1, c2, c3}
    Racers = {p1, p2}
    NoRequest = NoRequest
INVARIANTS
    NoLostWakeup
    OneRequestTime
    TrippedNeverInvokes
PROPERTIES
    RequestEndsAwaits
CHECK_DEADLOCK FALSE
