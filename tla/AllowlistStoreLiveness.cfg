CONSTANTS
    Apps = {a1}
    Mgr = Mgr
    Preserve = Preserve
    None = None
    AppKinds = {"su_nnp"}
    FileVersions = {2, 4}
    MaxSets = 1
    MaxMoves = 1
    MaxCrashes = 1
    MaxFaults = 1
    MaxUpsets = 1
SPECIFICATION FairSpec
CHECK_DEADLOCK FALSE
PROPERTIES
    EventuallySaved
