SPECIFICATION Spec
CONSTANTS
    PpqPerSample = 2
    BlockSizes = {1, 3}
    Entries <- MCEntries
    LastPpq = 12
    Relocates = FALSE
    SliceLen <- MCSliceLen
    GrainSpeed = 2
    ScratchCycle = 4
    FadeOut = 2
    References = {8, 12}
    Subdivisions = {3, 4}
    Styles = {"tapeStop", "stretch", "pingPong"}
    SliceLists <- MCTrimmed
INVARIANTS
    EveryTickRetriggers
    SameSliceInWindow
PROPERTIES
    OneDrawPerWindow
