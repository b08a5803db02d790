CONSTANTS
    Mods = {"m"}
    Features = {"f", "g"}
    PlainKeys = {}
    Cmds = {c1, c2}
    MAX_CONFIG_COUNT = 2
    MaxOps = 4
    MaxBoots = 1
SPECIFICATION ConfigSpec
CHECK_DEADLOCK FALSE
PROPERTIES
    PresenceManages
