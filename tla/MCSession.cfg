SPECIFICATION Spec
CONSTANTS
    Params <- MCParams
    NumIds = 4
    NumNotes = 5
    NumNoteValues = 4
    NumStyles = 3
    MaxRows = 2
    MaxColumns = 2
    MinTrimGap = 2
    Unit = 12
    MaxZoom = 8
    MaxFade = 10
    LowBpm = 10
    HighBpm = 22
    MaxBars = 4
    Files <- MCFiles
    Columns <- MCColumns
    Saved <- MCSessions
    HostValues = {5, 12}
    Tempos = {3, 17}
    Volumes = {4}
    Trims <- MCTrims
    Zooms = {2, 9}
    SliderFields = {"fadeInMs", "fadeOutMs", "grainSizeMs", "grainSpeed"}
    BandFields = {"styleWeights", "subdivisionWeights"}
    MenuFields = {"pitchMode", "tapeStopScope", "resetBarsIndex",
                  "patternSwitchTiming", "selectedDrawingStyle"}
    MaxEdits = 2
INVARIANTS
    ModeViewsAgree
    RepushHarmless
    ReopensAsSaved
    ReadWholeSections
