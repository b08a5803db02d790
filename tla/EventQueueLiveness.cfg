CONSTANTS
    Writers = {w1}
    Readers = {r1, r2}
    Pollers = {p1}
    Owner = Owner
    Nobody = Nobody
    MaxQueued = 1
    MaxPayload = 1
    Lens = {0}
    Counts = {2}
    MaxSeq = 1
SPECIFICATION FairSpec
PROPERTIES
    SleeperWoken
    ShutdownCompletes
