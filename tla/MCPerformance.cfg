SPECIFICATION Spec
CONSTANTS
    PpqPerSample = 2
    BlockSizes = {1, 3}
    Entries <- MCEntries
    LastPpq = 17
    Relocates = FALSE
    SliceLen <- MCSliceLen
    GrainSpeed = 2
    ScratchCycle = 4
    FadeOut = 2
    Keys <- MCKeys
    Snapshots <- MCSnapshots
    States <- MCStates
INVARIANTS
    OneShotPlaysOnce
PROPERTIES
    UndisturbedRecallOnGrid
    FrozenUndisturbed
