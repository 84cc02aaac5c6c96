SPECIFICATION Spec
CONSTANTS
    PpqPerSample = 2
    BlockSizes = {3}
    Entries <- MCEntries
    LastPpq = 21
    Relocates = FALSE
    SliceLen <- MCSliceLen
    GrainSpeed = 2
    ScratchCycle = 4
    FadeOut = 2
    Patterns <- MCPatterns
    Bank <- MCBank
    Timings = {"immediate", "setInterval", "endOfPattern"}
    Intervals = {7}
    SliceLists <- MCTrimmed
INVARIANTS
    EditsNotShadowed
