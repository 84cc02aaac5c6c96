SPECIFICATION Spec
CONSTANTS
    PpqPerSample = 2
    BlockSizes = {1, 3}
    Entries <- MCEntries
    LastPpq = 22
    Relocates = FALSE
    SliceLen <- MCSliceLen
    GrainSpeed = 2
    ScratchCycle = 4
    FadeOut = 2
    ResetWindows = {8, 12}
    Styles = {"straight", "scratch", "pingPong", "tapeStop", "stretch"}
    SliceLists <- MCLists
INVARIANTS
    NoPickAcrossReset
    CutsAreAnticipated
PROPERTIES
    PicksLastAsDeclared
    WindowHeldToItsEnd
