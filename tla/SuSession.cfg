CONSTANTS
    Tasks = {t1, t2}
    Apps = {a1}
    Mgr = Mgr
    Iso = Iso
    Spaces = {n1}
    Nil = Nil
    MaxOps = 2
SPECIFICATION Spec
SYMMETRY Symmetry
CHECK_DEADLOCK FALSE
INVARIANTS
    
    GlobalIntact
    EscapesAccounted
PROPERTIES
    SealedStaysSealed
