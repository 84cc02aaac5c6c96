------------------------------- MODULE Session -------------------------------
(***************************************************************************)
(* The life of one document: the host that automates, saves and restores   *)
(* it (plugin/NeditProcessor.cpp) and the editor whose tabs, ribbon and    *)
(* buttons change it (plugin/NeditEditor.cpp).  All of it runs on the UI   *)
(* thread; what interleaves are the callbacks, and the views that are only *)
(* brought up to date by the idle timer.                                   *)
(*                                                                         *)
(* A stream may end early (setState parses what it could read), and may    *)
(* have been written by the build of an earlier format version.            *)
(***************************************************************************)
EXTENDS JsonFormat, ParameterSurface

CONSTANTS
    Files,              \* file -> [frames, slices]
    Columns(_, _),      \* computeSequencerDims: columns of a step resolution
                        \* and a pattern length
    Saved,              \* documents of earlier sessions, numbered:
                        \* ones that sanitize leaves alone
    HostValues,         \* normalized values the host may write
    Tempos,             \* what calculatedOriginalBpm may come to
    Volumes, Trims, Zooms,
    SliderFields,       \* fields of a slider of the editor, of a band, and
    BandFields,         \* of a button or a menu: those that are tried (bound)
    MenuFields,
    MaxEdits            \* bound: edits between two restores

ASSUME SessionAssumption == HostValues \subseteq 0..Unit

VARIABLES
    doc,        \* uiState_
    host,       \* the host's parameter objects, normalized
    shownTab,   \* lastTabSync_: the tab the editor's controls are set up for
    sound,      \* ghost: the mode was stored together with its tab: FALSE
                \* after a chunk that ends before its last section
    restored,   \* ghost: the chunk the document was just read from
    edits

vars == <<doc, host, shownTab, sound, restored, edits>>

NoChunk == [of |-> 0, version |-> 0, words |-> 0]
Versions == 1..FormatVersion

Init ==
    /\ doc = Fresh
    /\ host = Normalized(Fresh)
    /\ shownTab = GenerateTab
    /\ sound = TRUE
    /\ restored = NoChunk
    /\ edits = 0

\* An edit of the document that the host is not told of
Edit(d) ==
    /\ edits < MaxEdits
    /\ edits' = edits + 1
    /\ restored' = NoChunk
    /\ doc' = d

\* setParamNormalized
Write(id, n) ==
    /\ Edit(Applied(doc, id, n))
    /\ host' = [host EXCEPT ![id] = n]
    /\ sound' = (sound \/ id = TriggerModeId)

\* setParam, from a control bound to the parameter; the host's own writes
\* come by the same way.
SetParam(id, n) == Write(id, n) /\ UNCHANGED shownTab

\* valueChanged of the tab bar
ClickTab(tab) ==
    LET mode == TriggerModeForTab(tab, doc.generateMode)
    IN  /\ Write(TriggerModeId, OfOption(mode, 5))
        /\ shownTab' = tab

\* setGenerateMode: Generate hosts only its two generative modes
GenerateModeSet(d, mode) ==
    IF mode \in {SliceLength, Clock} THEN ModeSet(d, mode) ELSE d

\* The ribbon: it is there while the editor shows the Generate tab, whatever
\* the document says by now.
ClickRibbon(mode) ==
    /\ shownTab = GenerateTab
    /\ mode # doc.generateMode
    /\ Edit(GenerateModeSet(doc, mode))
    /\ sound' = TRUE
    /\ UNCHANGED <<host, shownTab>>

\* valueChanged of the tempo switch: a fresh override starts from the tempo
\* that was derived, if the slider can show it.
ToggleTempo(tempo) ==
    LET seed == IF tempo \in LowBpm..HighBpm THEN tempo ELSE (LowBpm + HighBpm) \div 2
        bpmId == <<"manualBpmOverrideValue", 0>>
        onId == <<"manualBpmOverrideEnabled", 0>>
        n == OfRange(seed, LowBpm, HighBpm)
    IN  /\ IF doc.manualBpmOverrideEnabled = 1
           THEN /\ Edit(Applied(doc, onId, 0))
                /\ host' = [host EXCEPT ![onId] = 0]
           ELSE /\ Edit(Applied(Applied(doc, bpmId, n), onId, Unit))
                /\ host' = [host EXCEPT ![bpmId] = n, ![onId] = Unit]
        /\ UNCHANGED <<shownTab, sound>>

\* syncTabBar, at the latest by the idle timer
Tick ==
    /\ shownTab' = doc.activeTab
    /\ UNCHANGED <<doc, host, sound, restored, edits>>

\* Edits of fields that are not parameters of the host
Unshared(d) == Edit(d) /\ UNCHANGED <<host, shownTab, sound>>

SetStyleVolume(v) == Unshared([doc EXCEPT !.generateParams.volume = v])

\* The editor's sliders: the position runs over the range that the setter
\* clamps to.
SliderRanges ==
    [fadeInMs |-> <<0, MaxFade>>, fadeOutMs |-> <<0, MaxFade>>,
     grainSizeMs |-> Ranges.grainSizeMs, grainSpeed |-> Ranges.grainSpeed]

MoveSlider(field, n) ==
    LET range == SliderRanges[field]
        x == range[1] + (n * (range[2] - range[1])) \div Unit
    IN  Unshared([doc EXCEPT ![field] = Clamp(x, range[1], range[2])])

\* The bands of weights, a column of which is set to the height clicked; one
\* number stands for all columns.
SetWeight(field, n) == Unshared([doc EXCEPT ![field] = Clamp(n, 0, Unit)])

\* setSubdivisionGroupZero, by the quick-clears of the band
ZeroSubdivisions ==
    /\ doc.subdivisionWeights # 0
    /\ Unshared([doc EXCEPT !.subdivisionWeights = 0])

\* Buttons and menus: the ordinals that the setter does not refuse.
GenerateOrdinals ==
    [pitchMode |-> 0..1, tapeStopScope |-> 0..1, filterSweepScope |-> 0..1,
     resetBarsIndex |-> 0..5, clockReferenceIndex |-> 0..(NumNoteValues - 1)]
SwitchOrdinals ==
    [patternSwitchTiming |-> 0..2,
     patternSwitchIntervalIndex |-> 0..(NumNoteValues - 1)]
MenuOrdinals ==
    GenerateOrdinals @@ SwitchOrdinals
        @@ [selectedDrawingStyle |-> 0..(NumStyles - 1)]

PickOrdinal(field, x) ==
    /\ x \in MenuOrdinals[field]
    /\ Unshared([doc EXCEPT ![field] = x])

\* setTrimFrames: whatever the handles ask for is put right by sanitize
SetTrimFrames(start, end) ==
    LET trim == SaneTrim(start, end, doc.sampleLengthFrames)
    IN  /\ doc.sampleLengthFrames > 0
        /\ Unshared([doc EXCEPT !.trimStartFrame = trim[1], !.trimEndFrame = trim[2]])

SetSequencerViewport(zoom, origin) ==
    Unshared([doc EXCEPT !.zoomX = InRange("zoomX", zoom),
                         !.zoomY = InRange("zoomY", zoom),
                         !.originX = InRange("originX", origin),
                         !.originY = InRange("originY", origin)])

\* requestSampleLoad: metadata and trim of the file, weights of its slices,
\* and a blank grid when its dimensions change (resizeGrid)
Loaded(d, file) ==
    LET slices == Files[file].slices    length == Files[file].frames
        rows == Clamp(slices, 0, MaxRows)
        columns == Clamp(Columns(d.stepResolutionIndex, d.patternLengthBarsIndex),
                         0, MaxColumns)
        blank == [cells |-> [i \in 1..(rows * columns) |-> -1],
                  overrides |-> Nothing, extensions |-> Nothing]
    IN  [d EXCEPT !.samplePath = file,
                  !.sampleLengthFrames = length, !.sampleSampleRate = 44,
                  !.trimStartFrame = 0, !.trimEndFrame = length,
                  !.sliceWeights = [i \in 1..slices |-> Unit],
                  !.rows = rows, !.columns = columns,
                  !.grid = IF rows = d.rows /\ columns = d.columns THEN @ ELSE blank]

LoadSample(file) == Unshared(Loaded(doc, file))

-----------------------------------------------------------------------------
(* getState, setState *)

\* The chunks of the earlier sessions, as the build of each version saved them
Chunks == [i \in DOMAIN Saved |->
              [version \in Versions |-> SerializedAs(Saved[i], version)]]
Length(i, version) == Len(Chunks[i][version])

\* What a later build might append: a section of a tag that is unknown here
LaterSection == <<"LATR", 0>>

\* The streams a host may hand over: chunks of every version, and the
\* beginnings of those of this one with a later section (bound).
Streams ==
    UNION {{[of |-> i, version |-> version, words |-> n] :
               n \in IF version < FormatVersion THEN {Length(i, version)}
                     ELSE 0..(Length(i, version) + Len(LaterSection))} :
           i \in DOMAIN Saved, version \in Versions}

\* What each of them reads as (a table: TLC evaluates it once)
ReadBack ==
    [i \in DOMAIN Saved |->
        [version \in Versions |->
            LET chunk == Chunks[i][version] \o LaterSection
            IN  [n \in 0..Len(chunk) |-> Deserialized(SubSeq(chunk, 1, n))]]]

\* setState: what cannot be read leaves everything as it is.  Nothing of the
\* old document stays but the tab the editor shows, so that only documents
\* with edits left are replaced here (bound).
Restore(stream) ==
    LET read == ReadBack[stream.of][stream.version][stream.words]
    IN  /\ edits < MaxEdits
        /\ IF ~read.ok THEN UNCHANGED vars
           ELSE /\ doc' = read.value
                /\ host' = Normalized(read.value)
                /\ sound' = (stream.words >= Length(stream.of, stream.version))
                /\ restored' = stream
                /\ edits' = 0
                /\ UNCHANGED shownTab

\* The project is saved, closed and opened again.
Reopen ==
    \E read \in {Deserialized(Serialized(doc))} :
        /\ read.ok
        /\ doc' = read.value
        /\ host' = Normalized(read.value)
        /\ shownTab' = read.value.activeTab
        /\ restored' = NoChunk
        /\ UNCHANGED <<sound, edits>>

Next ==
    \/ \E id \in ParamIds, n \in HostValues : SetParam(id, n)
    \/ \E tab \in 0..3 : ClickTab(tab)
    \/ \E mode \in {SliceLength, Clock} : ClickRibbon(mode)
    \/ \E tempo \in Tempos : ToggleTempo(tempo)
    \/ Tick
    \/ \E v \in Volumes : SetStyleVolume(v)
    \/ \E field \in SliderFields, n \in HostValues : MoveSlider(field, n)
    \/ \E field \in BandFields, n \in HostValues : SetWeight(field, n)
    \/ ZeroSubdivisions
    \/ \E field \in MenuFields : \E x \in MenuOrdinals[field] : PickOrdinal(field, x)
    \/ \E trim \in Trims : SetTrimFrames(trim[1], trim[2])
    \/ \E zoom \in Zooms, origin \in Volumes : SetSequencerViewport(zoom, origin)
    \/ \E file \in DOMAIN Files : LoadSample(file)
    \/ \E stream \in Streams : Restore(stream)
    \/ Reopen

Spec == Init /\ [][Next]_vars

-----------------------------------------------------------------------------
(* Properties *)

\* The views of the mode agree: the tab is the one of the trigger mode, and
\* a mode of the Generate tab is also the remembered sub-mode.  Tabs, ribbon,
\* host and chunks each write two or three of the three fields.
ModeViewsAgree ==
    sound =>
        /\ doc.activeTab = TabForTriggerMode(doc.triggerMode)
        /\ doc.triggerMode \in {SliceLength, Clock}
               => doc.generateMode = doc.triggerMode

\* The host may write any of its values again at any time (when it reads
\* automation, or reopens its own view) without changing what the user set.
\* Only the ribbon's mode is not its: switching between the two Generate
\* modes does not reach the host.
RepushHarmless ==
    \A id \in ParamIds :
        \/ Applied(doc, id, host[id]) = doc
        \/ /\ id = TriggerModeId
           /\ ~sound \/ doc.triggerMode \in {SliceLength, Clock}

\* The document just read has these fields as they were; only performance
\* segments beyond the end of its sample are cut to it.
ComesBack(read, fields) ==
    LET segments == {"performanceBank", "workingState"}
        Kept(was, is) == was.trimEnd <= read.sampleLengthFrames => is = was
    IN  /\ \A f \in fields \ segments : read[f] = doc[f]
        /\ "workingState" \in fields => Kept(doc.workingState, read.workingState)
        /\ "performanceBank" \in fields =>
              /\ DOMAIN read.performanceBank = DOMAIN doc.performanceBank
              /\ \A s \in DOMAIN doc.performanceBank :
                    Kept(doc.performanceBank[s], read.performanceBank[s])

\* Saving and reopening gives the document back, whatever the controls and
\* setters had put into it.  So does JSON, which leaves out the audition
\* switch; with one of its objects removed (asked of the documents of earlier
\* sessions), that object's fields get their defaults and the rest is unharmed.
ReopensAsSaved ==
    LET chunk == Deserialized(Serialized(doc))
        json == ToJson(doc)
        Removable == IF restored = NoChunk THEN {} ELSE DOMAIN json
    IN  /\ chunk.ok /\ ComesBack(chunk.value, DOMAIN doc)
        /\ \A gone \in {{}} \cup {{o} : o \in Removable} :
              LET left == DOMAIN json \ gone
                  read == FromJson([o \in left |-> json[o]])
                  fields == UNION {JsonObjects[o] : o \in left}
              IN  /\ ComesBack(read, fields)
                  /\ \A f \in DOMAIN doc \ fields : read[f] = Fresh[f]

\* What a chunk of an earlier version must come back as: everything, with
\* defaults for what that version did not have.
WithVolume(p, volume) == [p EXCEPT !.volume = volume]
SegmentAt(s, version) ==
    IF version >= 3 THEN s ELSE [s EXCEPT !.params = WithVolume(@, Unit)]
KnownTo(d, version, f) ==
    IF f \in NewerThan(version) THEN Fresh[f]
    ELSE IF version >= 3 THEN d[f]
    ELSE IF f \in ParamSets THEN WithVolume(d[f], Unit)
    ELSE IF f = "workingState" THEN SegmentAt(d[f], version)
    ELSE IF f = "performanceBank"
    THEN [s \in DOMAIN d[f] |-> SegmentAt(d[f][s], version)]
    ELSE d[f]

\* A chunk is read by whole sections or not at all: the document just read
\* holds, for some number of sections, all their fields as they were saved
\* (as far as their version had them) and defaults for the rest.
ReadWholeSections ==
    restored # NoChunk =>
        \E k \in 0..Len(Sections) :
            LET read == UNION {ToSet(WriteOrder[Sections[i]]) : i \in 1..k}
            IN  \A f \in DOMAIN doc :
                    doc[f] = IF f \in read
                             THEN KnownTo(Saved[restored.of], restored.version, f)
                             ELSE Fresh[f]
=============================================================================
