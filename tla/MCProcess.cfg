SPECIFICATION MCSpec
CONSTANTS
    Frames = 3
    Unit = 2
    Rates <- MCRates
    BlockSize = 1
    Trims <- MCTrims
    SliceSpans <- MCSlices
    MaxPress = 2
    MaxRun = 1
    Commands = {"analyse", "quit"}
    Capacity = 4
    Modulus = 8
    Torn = "torn"
INVARIANTS
    HeardInsideSpan
    PressHeardWhole
    RaceFree
PROPERTIES
    AutoStopFolded
    ImplementsFifo
