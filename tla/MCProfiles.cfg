CONSTANTS
    None = None
    Edited = Edited
    c1 = c1
    c2 = c2
    c3 = c3
    l1 = l1
    l2 = l2
    l3 = l3
    p0 = p0
    d1 = d1
    d2 = d2
    dp = dp
    t1 = t1
    Components = {c1, c2, c3}
    Layers = {l1, l2, l3, p0}
    Capsules = {d1, d2, dp}
    Tags = {t1}
    Contents <- MCContents
    Executables = {c2}
    FirstComposition <- MCFirst
    Compositions <- MCCompositions
    ProjectCapsule = dp
    ApprovalSets <- MCApprovals
    MaxVersions = 2
    MaxOperations = 2
    MaxKeys = 1
    MaxMoves = 1
    MaxEdits = 1
    MaxFaults = 1
    MaxCalls = 2
    MaxForeign = 1
SPECIFICATION MCSpec
INVARIANTS
    PinIsWhole
PROPERTIES
    PinIsEarned
    EditsStay
    FairApplyEnds
CHECK_DEADLOCK FALSE
