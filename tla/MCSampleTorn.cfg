SPECIFICATION GestureSpec
CONSTANTS
    Tolerance = 1
    SliverMax = 2
    HoldoffDiv = 8
    GridDiv = 4
    Sounds = {"long", "short"}
    Length <- MCLength
    Peaks <- MCPeaks
    Quiet <- MCQuiet
    Sensitivities = {"low", "high"}
    MinGap = 3
    Handles = {0, 3, 8}
    Clicks = {1, 5}
    MaxMeanwhile = 2
    Weights = {0, 1}
    MaxManual = 1
    MaxExcluded = 1
    MaxRows = 2
    Pointer = {1, 5, 8}
    Zooms <- MCZooms
INVARIANTS
    MutedNotPlayable
