SPECIFICATION Spec
CONSTANTS
    PpqPerSample = 2
    BlockSizes = {1}
    Entries <- MCEntries
    LastPpq = 0
    Relocates = FALSE
    SliceLen <- MCSliceLen
    GrainSpeed = 2
    ScratchCycle = 4
    FadeOut = 3
    Notes = {1, 2}
    Styles = {"straight", "stretch"}
    SliceLists <- MCLists
    MaxEvents = 2
INVARIANTS
    GateHolds
PROPERTIES
    FadeNeverRestarts
    StyleAsSelected
