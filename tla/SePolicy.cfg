CONSTANTS
    Boot <- MCBoot
    Classes = {"process", "file"}
    Perms = {"use", "transition"}
    Drivers = {0, 1}
    Funcs = {0, 1}
    Ranges <- MCRanges
    Payloads <- MCPayloads
    Texts <- MCTexts
    Procs = {p1, p2}
    Readers = {r1}
    Slots = {m1, m2, m3}
    LateLoad = FALSE
    MaxBatches = 2
SPECIFICATION KsudSpec
SYMMETRY MCSymmetry
CHECK_DEADLOCK FALSE
INVARIANTS
    PolicyHandover
    HideAnswersOriginal
    RulesEffective
    TextMeansRules
