CONSTANTS
    Apps = {a1, a2}
    Mgr = Mgr
    Preserve = Preserve
    None = None
    AppKinds = {"su_nnp"}
    FileVersions = {2, 3, 4, 5}
    MaxSets = 2
    MaxMoves = 1
    MaxCrashes = 1
    MaxFaults = 1
    MaxUpsets = 2
SPECIFICATION MCSpec
SYMMETRY Symmetry
CHECK_DEADLOCK FALSE
INVARIANTS
    LoadUndisturbed
    
    MeaningKept
    SettledFileMatches
