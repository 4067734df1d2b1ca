SPECIFICATION MCSpec
CONSTANTS
    Publishers = {"p1", "p2"}
    Loads = {"g1", "g2"}
    Owners = {"o1", "o2"}
    OwnerOf <- MCOwnerOf
    Direct = {"o2"}
    GuestOwner = "o1"
    Capsules = {"c1", "c2"}
    LayersOf <- MCLayersOf
    Parallelism = 1
    Nothing = Nothing
    MaxMishaps = 1
INVARIANTS
    TagIsPullable
    CachedIsWhole
PROPERTIES
    LoadsEnd
CHECK_DEADLOCK FALSE
