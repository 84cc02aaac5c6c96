\* A trim behind the first slice; no style is scratch.
\* Ticks: a bar of three, steps of two or three; one to three columns.
SPECIFICATION MCSpec
CONSTANTS
    Styles <- MCStyles
    ParamIds <- MCParamIds
    Applicable <- MCApplicable
    MenuKind <- MCMenuKind
    ModeOf <- MCModeOf
    NotRolled = {"subdivide"}
    Resolutions = {2, 3}
    Lengths = {1, 2}
    BarTicks = 3
    MaxRows = 2
    MaxColumns = 3
    MaxExtension = 2
    SliceLists <- MCSliceLists
    Scratch = "none of these"
    ScratchCycle = 4
    TrimSpans <- MCLeftTrimmed
    MaxData = 1
    MaxGestures = 1
    View <- MCView
    Dims <- MCDims
    MinRowH = 4
    ZoomUnit = 4
    OriginUnit = 6
    MinZoom = 1
    MaxZoom = 16
    Notch = 2
    ScrollBar <- MCBar
    MinKnob = 3
    Pointers = {0, 6, 14}
INVARIANTS
    EveryBarIsHeard
