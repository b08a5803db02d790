CONSTANTS
    Readers = {r1, r2}
    Uids = {u1, u2}
    Nodes = {n1, n2, n3}
    Nil = Nil
    MaxCount = 2
SPECIFICATION MCSpec
SYMMETRY Symmetry
INVARIANTS
    LookupSeesSomeState
    MemoryExact
