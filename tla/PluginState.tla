----------------------------- MODULE PluginState -----------------------------
(***************************************************************************)
(* The document of the plugin (state/PluginState.h and the states it is    *)
(* made of): its fields, the values of a new instance, what sanitize()     *)
(* accepts, and the mapping between trigger mode and tab of UiState.h.     *)
(*                                                                         *)
(* A document is one record over the fields of all eight states.  Every    *)
(* scalar is an integer (a flag is 0 or 1, an enumeration its ordinal, the *)
(* sample's path a number, 0 for none, a fraction counts Units), and an    *)
(* array of fixed length, which is stored and read as a whole, is one of   *)
(* them.  Lists, grids, style parameters and the two banks keep their      *)
(* shape, because their lengths are part of the format.                    *)
(***************************************************************************)
EXTENDS Integers, Sequences, FiniteSets, Functions

CONSTANTS
    Params,         \* StyleParamInfo of the scalar style parameters, in id
                    \* order: [min, max, default, options], options = 0 for
                    \* a continuous one
    NumIds,         \* kNumStyleParamIds: with the two override-only ids
    NumNotes,       \* kNumMidiNotes: keys, and slots of either bank
    NumNoteValues,  \* kNumNoteValues
    NumStyles,      \* kNumPlaybackStyles
    MaxRows, MaxColumns,
    MinTrimGap,     \* kMinTrimGapFrames
    Unit,           \* what 1.0 is
    MaxZoom,        \* kMaxSequencerZoom; the least is 1
    MaxFade,        \* kMaxFadeMs of the processor's setters
    LowBpm, HighBpm,    \* kMinBpm, kMaxBpm of the parameter surface
    MaxBars         \* kMaxBars of the parameter surface

ASSUME StateAssumption ==
    /\ \A i \in DOMAIN Params : Params[i].min <= Params[i].max
    /\ NumIds >= Len(Params) /\ NumNotes > 1 /\ NumNoteValues > 1
    /\ Unit > 0 /\ LowBpm < HighBpm /\ MaxBars > 1 /\ MinTrimGap > 0

Clamp(x, lo, hi) == IF x < lo THEN lo ELSE IF x > hi THEN hi ELSE x
Unlimited == 2147483647

\* TriggerMode and UiTab
SliceLength == 0
Clock == 1
Sequenced == 2
Performance == 3
Control == 4
GenerateTab == 0
SequenceTab == 1
ControlTab == 2
PerformTab == 3

TabForTriggerMode(mode) ==
    CASE mode \in {SliceLength, Clock} -> GenerateTab
      [] mode = Sequenced -> SequenceTab
      [] mode = Performance -> PerformTab
      [] mode = Control -> ControlTab

TriggerModeForTab(tab, generateMode) ==
    CASE tab = GenerateTab -> IF generateMode = Clock THEN Clock ELSE SliceLength
      [] tab = SequenceTab -> Sequenced
      [] tab = ControlTab -> Control
      [] tab = PerformTab -> Performance

-----------------------------------------------------------------------------
(* The states of a new instance *)

FreshParams == [generic |-> [i \in DOMAIN Params |-> Params[i].default],
                volume |-> Unit]
Nothing == [x \in {} |-> 0]
FreshGrid == [cells |-> <<>>, overrides |-> Nothing, extensions |-> Nothing]
FreshSegment == [trimStart |-> 0, trimEnd |-> 0, style |-> 0,
                 params |-> FreshParams, loop |-> 0, sync |-> 1]
NoSlots == Nothing              \* only populated slots are kept

FreshSample ==
    [samplePath |-> 0, sampleContentHash |-> 0, sampleLengthFrames |-> 0,
     sampleSampleRate |-> 0, trimStartFrame |-> 0, trimEndFrame |-> 0,
     sensitivity |-> Unit \div 2, quantizeTransients |-> 0,
     quantizeGridIndex |-> 2, manualPoints |-> <<>>, excludedPoints |-> <<>>,
     nextManualPointId |-> 1, nextExcludedPointId |-> 1, loopLengthBars |-> 1,
     manualBpmOverrideEnabled |-> 0, manualBpmOverrideValue |-> LowBpm + 4]
FreshRender ==
    [fadeInMs |-> 5, fadeOutMs |-> 10, pitchMode |-> 0, grainSizeMs |-> 60,
     grainSpeed |-> 1, grainWindowShape |-> 0, pitchShiftSemitones |-> 0,
     beatQuantizeTimeStretch |-> 1, beatQuantizeRepitch |-> 0]
FreshGenerate ==
    [generateMode |-> SliceLength, sliceWeights |-> <<>>, styleWeights |-> Unit,
     generateParams |-> FreshParams, resetBarsIndex |-> 1,
     clockReferenceIndex |-> 2, subdivisionWeights |-> Unit,
     tapeStopScope |-> 0, filterSweepScope |-> 1]
FreshSequencer ==
    [stepResolutionIndex |-> 1, patternLengthBarsIndex |-> 0, rows |-> 0,
     columns |-> 0, grid |-> FreshGrid, fallbackParams |-> FreshParams,
     randomizeStyleWeights |-> Unit, randomizeParametersForStyle |-> 0,
     selectedDrawingStyle |-> 0, patternBank |-> NoSlots,
     patternSwitchTiming |-> 0, patternSwitchIntervalIndex |-> 3,
     zoomX |-> 1, zoomY |-> 1, originX |-> 0, originY |-> Unit]
FreshPerformance ==
    [performanceBank |-> NoSlots, workingState |-> FreshSegment,
     workingPopulated |-> 0, focusedSlot |-> -1, trimSnapMode |-> 0,
     trimGridIndex |-> 2, quantizeRecallEnabled |-> 0,
     quantizeRecallIntervalIndex |-> 2]
FreshControl ==
    [baseNote |-> 1, gateMode |-> 0, activeStyle |-> 0,
     controlParams |-> FreshParams]
FreshUi ==
    [activeTab |-> GenerateTab, visibleStartNorm |-> 0,
     visibleEndNorm |-> Unit, auditionEnabled |-> 0]

\* Of two records with different fields
And(r, s) == [f \in DOMAIN r \cup DOMAIN s |-> IF f \in DOMAIN r THEN r[f] ELSE s[f]]

Fresh == And([triggerMode |-> SliceLength],
         And(FreshSample, And(FreshRender, And(FreshGenerate,
         And(FreshSequencer, And(FreshPerformance, And(FreshControl, FreshUi)))))))

-----------------------------------------------------------------------------
(* sanitize() *)

\* A value out of range goes to the nearer end ...
SampleRanges ==
    [sensitivity |-> <<0, Unit>>, loopLengthBars |-> <<1, Unlimited>>,
     manualBpmOverrideValue |-> <<1, Unlimited>>,
     sampleLengthFrames |-> <<0, Unlimited>>,
     sampleSampleRate |-> <<0, Unlimited>>,
     nextManualPointId |-> <<1, Unlimited>>,
     nextExcludedPointId |-> <<1, Unlimited>>]
RenderRanges ==
    [fadeInMs |-> <<0, Unlimited>>, fadeOutMs |-> <<0, Unlimited>>,
     grainSizeMs |-> <<20, 150>>, grainSpeed |-> <<1, 8>>,
     pitchShiftSemitones |-> <<-24, 24>>]
GenerateRanges ==
    [styleWeights |-> <<0, Unit>>, subdivisionWeights |-> <<0, Unit>>,
     resetBarsIndex |-> <<0, 5>>]
SequencerRanges ==
    [patternLengthBarsIndex |-> <<0, 4>>, rows |-> <<0, MaxRows>>,
     columns |-> <<0, MaxColumns>>, randomizeStyleWeights |-> <<0, Unit>>,
     selectedDrawingStyle |-> <<0, NumStyles - 1>>, zoomX |-> <<1, MaxZoom>>,
     zoomY |-> <<1, MaxZoom>>, originX |-> <<0, Unit>>, originY |-> <<0, Unit>>]
PerformanceRanges ==
    [focusedSlot |-> <<-1, NumNotes - 1>>, style |-> <<0, NumStyles - 1>>]
ControlRanges ==
    [baseNote |-> <<0, NumNotes - 1>>, activeStyle |-> <<0, NumStyles - 1>>]
UiRanges == [visibleStartNorm |-> <<0, Unit>>, visibleEndNorm |-> <<0, Unit>>]

Ranges ==
    And(SampleRanges, And(RenderRanges, And(GenerateRanges, And(SequencerRanges,
    And(PerformanceRanges, And(ControlRanges, UiRanges))))))

\* ... and an index or an ordinal that names nothing to its default.
Ordinals ==
    [triggerMode |-> 0..4, generateMode |-> {SliceLength, Clock},
     activeTab |-> 0..3, quantizeGridIndex |-> 0..(NumNoteValues - 1),
     clockReferenceIndex |-> 0..(NumNoteValues - 1),
     stepResolutionIndex |-> 0..(NumNoteValues - 1),
     patternSwitchIntervalIndex |-> 0..(NumNoteValues - 1),
     trimGridIndex |-> 0..(NumNoteValues - 1),
     quantizeRecallIntervalIndex |-> 0..(NumNoteValues - 1)]

\* A slip: the upper end itself is taken for out of range.
InRangeExclusive(field, x) ==
    IF field \in DOMAIN Ranges THEN Clamp(x, Ranges[field][1], Ranges[field][2] - 1)
    ELSE IF field \in DOMAIN Ordinals /\ x \notin Ordinals[field] THEN Fresh[field]
    ELSE x

InRange(field, x) ==
    IF field \in DOMAIN Ranges THEN Clamp(x, Ranges[field][1], Ranges[field][2])
    ELSE IF field \in DOMAIN Ordinals /\ x \notin Ordinals[field] THEN Fresh[field]
    ELSE x

\* StyleParameters::set
ParamSet(i, x) ==
    IF Params[i].options > 0 THEN Clamp(x, 0, Params[i].options - 1)
    ELSE Clamp(x, Params[i].min, Params[i].max)
SaneParams(p) == [generic |-> [i \in DOMAIN Params |-> ParamSet(i, p.generic[i])],
                  volume |-> Clamp(p.volume, 0, Unit)]

\* Ids count from 0; behind the parameters come the volume and its mode.
OverrideClamped(id, x) ==
    IF id < Len(Params) THEN Clamp(x, Params[id + 1].min, Params[id + 1].max)
    ELSE IF id = Len(Params) THEN Clamp(x, 0, Unit)
    ELSE Clamp(x, 0, 2)

\* sanitizeGrid
SaneGrid(g, rows, columns) ==
    [cells |-> [i \in 1..(rows * columns) |->
                    IF i \in DOMAIN g.cells /\ g.cells[i] \in 0..(NumStyles - 1)
                    THEN g.cells[i] ELSE -1],
     overrides |-> [c \in {c \in DOMAIN g.overrides : c < rows * columns} |->
                       [id \in DOMAIN g.overrides[c] |->
                           OverrideClamped(id, g.overrides[c][id])]],
     extensions |-> Restrict(g.extensions,
                       {c \in DOMAIN g.extensions : c < rows * columns})]

\* SampleState::sanitize: the trim inside the sample, its ends apart
SaneTrim(start, end, length) ==
    LET from == Clamp(start, 0, length)    to == Clamp(end, 0, length)
    IN  IF to - from >= MinTrimGap THEN <<from, to>>
        ELSE IF from + MinTrimGap <= length THEN <<from, from + MinTrimGap>>
        ELSE <<Clamp(length - MinTrimGap, 0, length), length>>

\* PerformanceSnapshot::sanitize
SaneSegment(s, length) ==
    LET from == Clamp(s.trimStart, 0, length)
    IN  [s EXCEPT !.style = InRange("style", s.style),
                  !.params = SaneParams(s.params),
                  !.trimStart = from,
                  !.trimEnd = Clamp(s.trimEnd, from, length)]

SanePattern(p) ==
    LET rows == InRange("rows", p.rows)    columns == InRange("columns", p.columns)
    IN  [rows |-> rows, columns |-> columns,
         stepResolutionIndex |-> InRange("stepResolutionIndex", p.stepResolutionIndex),
         patternLengthBarsIndex |->
             InRange("patternLengthBarsIndex", p.patternLengthBarsIndex),
         grid |-> SaneGrid(p.grid, rows, columns)]

Sanitized(d) ==
    LET scalar == [f \in DOMAIN d |-> InRange(f, d[f])]
        length == scalar.sampleLengthFrames
        trim == IF length > 0
                THEN SaneTrim(d.trimStartFrame, d.trimEndFrame, length)
                ELSE <<0, 0>>
        backwards == scalar.visibleEndNorm <= scalar.visibleStartNorm
    IN  [scalar EXCEPT
            !.trimStartFrame = trim[1], !.trimEndFrame = trim[2],
            !.sliceWeights = [i \in DOMAIN d.sliceWeights |->
                                  Clamp(d.sliceWeights[i], 0, Unit)],
            !.generateParams = SaneParams(d.generateParams),
            !.fallbackParams = SaneParams(d.fallbackParams),
            !.controlParams = SaneParams(d.controlParams),
            !.grid = SaneGrid(d.grid, scalar.rows, scalar.columns),
            !.patternBank = [s \in DOMAIN d.patternBank |->
                                 SanePattern(d.patternBank[s])],
            !.performanceBank = [s \in DOMAIN d.performanceBank |->
                                     SaneSegment(d.performanceBank[s], length)],
            !.workingState = SaneSegment(d.workingState, length),
            !.visibleStartNorm = IF backwards THEN 0 ELSE @,
            !.visibleEndNorm = IF backwards THEN Unit ELSE @]
=============================================================================
