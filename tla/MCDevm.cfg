SPECIFICATION DevmSpec
CONSTANTS
    Procs = {p1, p2}
    Repos = {"r1", "r2"}
    Trees <- MCTrees
    RepoOf <- MCRepoOf
    PartsOf <- MCPartsOf
    FirstTree <- MCFirstTree
    Unpackable = {"t1secret"}
    Oversized = {"bigpatch"}
    Overweight = {"t1heavy"}
    Base = "base"
    None = None
    MaxFaults = 1
    Setups = {s1, s2}
    Nobody = Nobody
    MaxSaves = 2
    MaxDeaths = 1
    Commands = {c1, c2, c3}
    MaxPairs = 4
    MaxLosses = 1
    Authors = {a1, a2}
    ProfileNames = {"n1", "n2"}
    Refs = {"x", "y"}
    NoProfile = NoProfile
    MaxVersions = 2
    MaxDraft = 1
    MaxAuthored = 2
INVARIANTS
    BindingIsItsOwn
    RegisteredPairMatches
PROPERTIES
    SessionIsIntact
    DraftsAreKept
    BareRunsBind
CHECK_DEADLOCK FALSE
