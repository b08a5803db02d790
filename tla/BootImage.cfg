CONSTANTS
    Places <- MCPlaces
    Blobs <- MCBlobs
    Firmwares <- MCFirmwares
    PatchArgs <- MCPatchArgs
    MaxCommands = 3
    MaxUpdates = 1
    KoModules <- MCKoModules
    RunningKernels <- MCRunningKernels
    Noise = 2
SPECIFICATION Spec
\* A patched kernel that has booted, or an Image that was refused, stays so.
CHECK_DEADLOCK FALSE
INVARIANTS
    MetadataExact
    ModuleLoaded
    Restorable
