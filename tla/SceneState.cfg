SPECIFICATION MCSpec
CONSTANTS
    spot = spot
    x = x
    y = y
    o1 = o1
    o2 = o2
    doc = doc
    other = other
    r1 = r1
    r2 = r2
    e1 = e1
    e2 = e2
    Nobody = Nobody
    SceneIds = {doc, other}
    Items <- MCItems
    OpIds = {o1, o2}
    MaxRevision = 3
    Clash <- MCClash
    Acceptable <- MCAcceptable
    Runs = {r1, r2}
    Editors = {e1}
    Target <- MCTarget
    Scripts <- MCScripts
INVARIANTS
    SnapshotSound
    EmbeddedAgreement
    CommittedRevisionsUnique
    RefusalsJustified
PROPERTIES
    RefinesAtomicScene
CHECK_DEADLOCK FALSE
