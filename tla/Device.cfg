CONSTANTS
    OrigLen = 3
    RcLen = 4
    ModSizes = {1, 3}
    Counts = {1, 2, 3, 5, 9}
    MaxFaults = 2
    Ids = {a, b}
    MaxCommands = 3
    MaxCrashes = 1
    MaxErrors = 1
    Apps = {"manager", "twice", "broken"}
    Apk <- MCApk
    Genuine = {"manager"}
    Uids = {10001, 10002}
    MaxWrites = 4
    Procs = {p1, p2}
    Rootly = {p1}
    Mgr = p2
    Files = {f1, f2, f3}
    Paths = {m1, m2}
    Walkers = {w1}
    Nil = Nil
    Mods = {"m"}
    Features = {"f", "g"}
    PlainKeys = {}
    Cmds = {c1, c2}
    MAX_CONFIG_COUNT = 1
    MaxOps = 3
    MaxBoots = 2
    Daemons = {d1, d2}
    QueueLimit = 2
    ReadLimit = 2
    MaxFileSize = 2
    RetentionDays = 2
    MaxEvents = 4
    MaxDays = 3
    MaxFailures = 2
SPECIFICATION MCSpec
\* A device that is switched on, with no command left, may stay on.
CHECK_DEADLOCK FALSE
INVARIANTS
    InjectionExact
    
    
    SupercallsExact
    FeatureSettings
    LogExplained
PROPERTIES
    BootAsForeseen
    CrownGoesToSigner
