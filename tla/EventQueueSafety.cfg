CONSTANTS
    Writers = {w1, w2}
    Readers = {r1, r2}
    Pollers = {}
    Owner = Owner
    Nobody = Nobody
    MaxQueued = 2
    MaxPayload = 1
    Lens = {0, 1, 2}
    Counts = {1, 2, 3}
    MaxSeq = 3
SPECIFICATION Spec
SYMMETRY Symmetry
INVARIANTS
    EventsAccounted
    ReadSafe
PROPERTIES
    ImplementsLog
