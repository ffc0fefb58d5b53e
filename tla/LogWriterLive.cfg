SPECIFICATION FairSpec
CONSTANTS
    r1 = r1
    r2 = r2
    r3 = r3
    Runs = {r3}
    Events = {e1}
    Closers = {k1}
    Owner = owner
    Nobody = nobody
    Parts = 2
    Slots <- MCSlots
PROPERTY
    EveryCallReturns
\* The calls are finitely many, and a crash ends them all.
CHECK_DEADLOCK FALSE
