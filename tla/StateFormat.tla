----------------------------- MODULE StateFormat -----------------------------
(***************************************************************************)
(* The versioned binary chunk of the document (state/Serialization.cpp     *)
(* over StreamIO.h).  A chunk is a sequence of words: magic, version, then *)
(* sections of a tag, a size in words and a payload.  A word stands for    *)
(* one fixed-width value, or for a string or an array of fixed length: the *)
(* code checks its own length before each of them, so a chunk that ends    *)
(* inside one ends before it.                                              *)
(*                                                                         *)
(* A reader is given the words that are left and returns whether it        *)
(* succeeded, what it read and the words then left.  In the code a failed  *)
(* read sticks and yields zeros until the section's reader looks at ok():  *)
(* the section is refused then, and the chunk with it, so that what was    *)
(* read in between does not matter and a failure stops at once here.       *)
(***************************************************************************)
EXTENDS PluginState, SequencesExt

Magic == "NEDT"
FormatVersion == 4      \* kStateFormatVersion
MaxParamCount == 1024

Sections == <<"GLOB", "SMPL", "RNDR", "GNRT", "SEQR", "PERF", "CTRL", "UIST">>

\* How a field is stored; the others are single words.
PointLists == {"manualPoints", "excludedPoints"}
ParamSets == {"generateParams", "fallbackParams", "controlParams", "params"}
Banks == {"patternBank", "performanceBank"}

\* Fields that readers coerce to a flag
Flags == {"quantizeTransients", "manualBpmOverrideEnabled", "pitchMode",
          "grainWindowShape", "beatQuantizeTimeStretch", "beatQuantizeRepitch",
          "tapeStopScope", "filterSweepScope", "randomizeParametersForStyle",
          "loop", "sync", "workingPopulated", "trimSnapMode",
          "quantizeRecallEnabled", "gateMode", "auditionEnabled"}

-----------------------------------------------------------------------------
(* Writing *)

\* writeSequencerPatternBody, writePerformanceSnapshotBody
PatternBody == <<"rows", "columns", "stepResolutionIndex",
                 "patternLengthBarsIndex", "grid">>
SegmentBody == <<"trimStart", "trimEnd", "style", "params", "loop", "sync">>

\* writeGlobal .. writeUi: the fields of a section, in the order written
WriteGlobal == <<"triggerMode">>
WriteSample ==
    <<"samplePath", "sampleContentHash", "sampleLengthFrames",
      "sampleSampleRate", "trimStartFrame", "trimEndFrame", "sensitivity",
      "quantizeTransients", "quantizeGridIndex", "manualPoints",
      "excludedPoints", "nextManualPointId", "nextExcludedPointId",
      "loopLengthBars", "manualBpmOverrideEnabled", "manualBpmOverrideValue">>
WriteRender ==
    <<"fadeInMs", "fadeOutMs", "pitchMode", "grainSizeMs", "grainSpeed",
      "grainWindowShape", "pitchShiftSemitones", "beatQuantizeTimeStretch",
      "beatQuantizeRepitch">>
WriteGenerate ==
    <<"generateMode", "sliceWeights", "styleWeights", "generateParams",
      "resetBarsIndex", "clockReferenceIndex", "subdivisionWeights",
      "tapeStopScope", "filterSweepScope">>
WriteSequencer ==
    <<"stepResolutionIndex", "patternLengthBarsIndex", "rows", "columns",
      "grid", "fallbackParams", "randomizeStyleWeights",
      "randomizeParametersForStyle", "selectedDrawingStyle", "patternBank",
      "patternSwitchTiming", "patternSwitchIntervalIndex",
      "zoomX", "zoomY", "originX", "originY">>
WritePerformance ==
    <<"performanceBank", "workingState", "workingPopulated", "focusedSlot",
      "trimSnapMode", "trimGridIndex", "quantizeRecallEnabled",
      "quantizeRecallIntervalIndex">>
WriteControl == <<"baseNote", "gateMode", "activeStyle", "controlParams">>
WriteUi == <<"activeTab", "visibleStartNorm", "visibleEndNorm", "auditionEnabled">>

WriteOrder ==
    [GLOB |-> WriteGlobal, SMPL |-> WriteSample, RNDR |-> WriteRender,
     GNRT |-> WriteGenerate, SEQR |-> WriteSequencer,
     PERF |-> WritePerformance, CTRL |-> WriteControl, UIST |-> WriteUi]

Counted(s) == <<Len(s)>> \o s
Sorted(S) == SetToSortSeq(S, <)

\* writeGridData: cells, overrides by cell and parameter, extensions by cell
OverrideWords(ids) ==
    <<Cardinality(DOMAIN ids)>>
        \o FlattenSeq([i \in 1..Cardinality(DOMAIN ids) |->
               LET id == Sorted(DOMAIN ids)[i] IN <<id, ids[id]>>])
GridWords(g) ==
    Counted(g.cells)
    \o <<Cardinality(DOMAIN g.overrides)>>
    \o FlattenSeq([i \in 1..Cardinality(DOMAIN g.overrides) |->
           LET c == Sorted(DOMAIN g.overrides)[i]
           IN  <<c>> \o OverrideWords(g.overrides[c])])
    \o <<Cardinality(DOMAIN g.extensions)>>
    \o FlattenSeq([i \in 1..Cardinality(DOMAIN g.extensions) |->
           LET c == Sorted(DOMAIN g.extensions)[i] IN <<c, g.extensions[c]>>])

\* writeStyleParameters.  Before version 3 a scalar volume and its mode ended
\* the list, and no volume per style followed it.
ParamWords(p, version) ==
    IF version >= 3 THEN Counted(p.generic) \o <<p.volume>>
    ELSE Counted(p.generic \o <<p.volume, 0>>)

PlainWords(field, x, version) ==
    CASE field \in PointLists -> <<Len(x)>> \o FlattenSeq(x)
      [] field = "sliceWeights" -> Counted(x)
      [] field \in ParamSets -> ParamWords(x, version)
      [] field = "grid" -> GridWords(x)
      [] OTHER -> <<x>>

BodyWords(fields, body, version) ==
    FlattenSeq([i \in DOMAIN fields |->
                   PlainWords(fields[i], body[fields[i]], version)])
BodyOf(field) == IF field = "patternBank" THEN PatternBody ELSE SegmentBody

FieldWords(field, x, version) ==
    CASE field \in Banks ->
             <<Cardinality(DOMAIN x)>>
             \o FlattenSeq([i \in 1..Cardinality(DOMAIN x) |->
                    LET slot == Sorted(DOMAIN x)[i]
                    IN  <<slot>> \o BodyWords(BodyOf(field), x[slot], version)])
      [] field = "workingState" -> BodyWords(SegmentBody, x, version)
      [] OTHER -> PlainWords(field, x, version)

\* Fields that a format version has not got yet
NewerThan(version) ==
    (IF version < 2 THEN {"grainSpeed"} ELSE {})
    \cup (IF version < 4 THEN {"zoomX", "zoomY", "originX", "originY"} ELSE {})

SectionWords(d, section, version) ==
    LET known(f) == f \notin NewerThan(version)
        fields == SelectSeq(WriteOrder[section], known)
        payload == FlattenSeq([i \in DOMAIN fields |->
                       FieldWords(fields[i], d[fields[i]], version)])
    IN  <<section, Len(payload)>> \o payload

\* The chunk as the build of a format version wrote it
SerializedAs(d, version) ==
    <<Magic, version>>
    \o FlattenSeq([i \in DOMAIN Sections |-> SectionWords(d, Sections[i], version)])
Serialized(d) == SerializedAs(d, FormatVersion)

-----------------------------------------------------------------------------
(* Reading *)

Failed == [ok |-> FALSE, value |-> 0, left |-> <<>>]
Succeeded(value, left) == [ok |-> TRUE, value |-> value, left |-> left]
From(s, n) == SubSeq(s, n, Len(s))

\* A count, then so many entries of a width: refused when they cannot fit.
ReadCounted(left, width) ==
    IF left = <<>> \/ Head(left) > (Len(left) - 1) \div width THEN Failed
    ELSE Succeeded([i \in 1..Head(left) |->
                        SubSeq(left, 2 + (i - 1) * width, 1 + i * width)],
                   From(left, 2 + Head(left) * width))

\* readStyleParameters: ids beyond this build's are skipped, ids not provided
\* keep their defaults.
ReadParams(left, version) ==
    LET list == ReadCounted(left, 1)
        generic == [i \in DOMAIN Params |->
                        IF i \in DOMAIN list.value THEN ParamSet(i, list.value[i][1])
                        ELSE Params[i].default]
    IN  IF ~list.ok \/ Head(left) > MaxParamCount THEN Failed
        ELSE IF version < 3
        THEN Succeeded([generic |-> generic, volume |-> Unit], list.left)
        ELSE IF list.left = <<>> THEN Failed
        ELSE Succeeded([generic |-> generic, volume |-> Head(list.left)],
                       Tail(list.left))

\* isValidSequencerOverrideId: with the volume and its mode
OverrideId(id) == id < NumIds

\* One cell's overrides: only known ids are kept, and a cell without any is not.
ReadOverride(acc) ==
    LET list == IF acc.left = <<>> THEN Failed ELSE ReadCounted(Tail(acc.left), 2)
        known == {i \in DOMAIN list.value : OverrideId(list.value[i][1])}
        ids == [id \in {list.value[i][1] : i \in known} |->
                    list.value[CHOOSE i \in known : list.value[i][1] = id][2]]
    IN  IF ~acc.ok \/ ~list.ok THEN Failed
        ELSE Succeeded(IF known = {} THEN acc.value
                       ELSE And(Head(acc.left) :> ids, acc.value), list.left)

\* readGridData
ReadGrid(left) ==
    LET cells == ReadCounted(left, 1)
        over == IF cells.left = <<>> \/ Head(cells.left) > (Len(cells.left) - 1) \div 2
                THEN Failed
                ELSE FoldLeft(LAMBDA acc, i : ReadOverride(acc),
                              Succeeded(Nothing, Tail(cells.left)),
                              [i \in 1..Head(cells.left) |-> i])
        ext == ReadCounted(over.left, 2)
    IN  IF ~cells.ok \/ ~over.ok \/ ~ext.ok THEN Failed
        ELSE Succeeded(
            [cells |-> [i \in DOMAIN cells.value |-> cells.value[i][1]],
             overrides |-> over.value,
             extensions |-> [c \in {ext.value[i][1] : i \in DOMAIN ext.value} |->
                 (CHOOSE e \in ToSet(ext.value) : e[1] = c)[2]]],
            ext.left)

\* A slip: the last switch timing is taken for one too many.
CoercedShort(field, x) ==
    IF field \in Flags THEN (IF x # 0 THEN 1 ELSE 0)
    ELSE IF field = "patternSwitchTiming" /\ x >= 2 THEN 0
    ELSE x

\* Pattern switch timings beyond the last are read as "immediate".
Coerced(field, x) ==
    IF field \in Flags THEN (IF x # 0 THEN 1 ELSE 0)
    ELSE IF field = "patternSwitchTiming" /\ x > 2 THEN 0
    ELSE x

ReadPlain(field, left, version) ==
    CASE field \in PointLists -> ReadCounted(left, 2)
      [] field = "sliceWeights" ->
             LET list == ReadCounted(left, 1)
             IN  IF ~list.ok THEN Failed
                 ELSE Succeeded([i \in DOMAIN list.value |-> list.value[i][1]], list.left)
      [] field \in ParamSets -> ReadParams(left, version)
      [] field = "grid" -> ReadGrid(left)
      [] OTHER -> IF left = <<>> THEN Failed
                  ELSE Succeeded(Coerced(field, Head(left)), Tail(left))

\* Fields one after the other, each put into the record read so far
Then(acc, field, read) ==
    IF ~acc.ok \/ ~read.ok THEN Failed
    ELSE Succeeded([acc.value EXCEPT ![field] = read.value], read.left)

\* readSequencerPatternBody, readPerformanceSnapshotBody
FreshPattern == [rows |-> 0, columns |-> 0, stepResolutionIndex |-> 1,
                 patternLengthBarsIndex |-> 0, grid |-> FreshGrid]
ReadBody(fields, fresh, left, version) ==
    FoldLeft(LAMBDA acc, f : Then(acc, f, ReadPlain(f, acc.left, version)),
             Succeeded(fresh, left), fields)

ReadSlot(acc, fields, fresh, version) ==
    LET InSlot(body) ==
            IF ~body.ok THEN Failed
            ELSE Succeeded(And(Head(acc.left) :> body.value, acc.value), body.left)
    IN  IF ~acc.ok \/ acc.left = <<>> \/ Head(acc.left) >= NumNotes THEN Failed
        ELSE InSlot(ReadBody(fields, fresh, Tail(acc.left), version))
ReadBank(fields, fresh, left, version) ==
    IF left = <<>> \/ Head(left) > NumNotes THEN Failed
    ELSE FoldLeft(LAMBDA acc, i : ReadSlot(acc, fields, fresh, version),
                  Succeeded(NoSlots, Tail(left)), [i \in 1..Head(left) |-> i])

ReadField(field, left, version) ==
    CASE field = "patternBank" -> ReadBank(PatternBody, FreshPattern, left, version)
      [] field = "performanceBank" -> ReadBank(SegmentBody, FreshSegment, left, version)
      [] field = "workingState" -> ReadBody(SegmentBody, FreshSegment, left, version)
      [] OTHER -> ReadPlain(field, left, version)

\* readGlobal .. readUi: the fields of a section, in the order read; what
\* the version has not got yet is skipped.
ReadGlobal == <<"triggerMode">>
ReadSample ==
    <<"samplePath", "sampleContentHash", "sampleLengthFrames",
      "sampleSampleRate", "trimStartFrame", "trimEndFrame", "sensitivity",
      "quantizeTransients", "quantizeGridIndex", "manualPoints",
      "excludedPoints", "nextManualPointId", "nextExcludedPointId",
      "loopLengthBars", "manualBpmOverrideEnabled", "manualBpmOverrideValue">>
ReadRender(version) ==
    <<"fadeInMs", "fadeOutMs", "pitchMode", "grainSizeMs">>
    \o (IF version >= 2 THEN <<"grainSpeed">> ELSE <<>>)
    \o <<"grainWindowShape", "pitchShiftSemitones",
         "beatQuantizeTimeStretch", "beatQuantizeRepitch">>
ReadGenerate ==
    <<"generateMode", "sliceWeights", "styleWeights", "generateParams",
      "resetBarsIndex", "clockReferenceIndex", "subdivisionWeights",
      "tapeStopScope", "filterSweepScope">>
ReadSequencer(version) ==
    <<"stepResolutionIndex", "patternLengthBarsIndex", "rows", "columns",
      "grid", "fallbackParams", "randomizeStyleWeights",
      "randomizeParametersForStyle", "selectedDrawingStyle", "patternBank",
      "patternSwitchTiming", "patternSwitchIntervalIndex">>
    \o (IF version >= 4 THEN <<"zoomX", "zoomY", "originX", "originY">> ELSE <<>>)
ReadPerformance ==
    <<"performanceBank", "workingState", "workingPopulated", "focusedSlot",
      "trimSnapMode", "trimGridIndex", "quantizeRecallEnabled",
      "quantizeRecallIntervalIndex">>
ReadControl == <<"baseNote", "gateMode", "activeStyle", "controlParams">>
ReadUi == <<"activeTab", "visibleStartNorm", "visibleEndNorm", "auditionEnabled">>

ReadOrder(section, version) ==
    CASE section = "GLOB" -> ReadGlobal
      [] section = "SMPL" -> ReadSample
      [] section = "RNDR" -> ReadRender(version)
      [] section = "GNRT" -> ReadGenerate
      [] section = "SEQR" -> ReadSequencer(version)
      [] section = "PERF" -> ReadPerformance
      [] section = "CTRL" -> ReadControl
      [] section = "UIST" -> ReadUi

\* One section: its reader sees its payload only, an unknown tag is skipped,
\* and what the reader leaves of the payload is ignored.
ReadSection(acc, version) ==
    LET size == IF Len(acc.left) >= 2 THEN acc.left[2] ELSE 0
        section == acc.left[1]
        payload == SubSeq(acc.left, 3, 2 + size)
        After(read) == IF ~read.ok THEN Failed
                       ELSE Succeeded(read.value, From(acc.left, 3 + size))
    IN  IF Len(acc.left) < 2 + size THEN Failed
        ELSE IF section \notin ToSet(Sections) THEN After(acc)
        ELSE After(FoldLeft(
                 LAMBDA a, f : Then(a, f, ReadField(f, a.left, version)),
                 Succeeded(acc.value, payload), ReadOrder(section, version)))

\* Sections are read to the end of the stream.
RECURSIVE ReadSections(_, _)
ReadSections(acc, version) ==
    IF ~acc.ok \/ acc.left = <<>> THEN acc
    ELSE ReadSections(ReadSection(acc, version), version)

Deserialized(words) ==
    LET Whole(read) == IF ~read.ok THEN Failed
                       ELSE Succeeded(Sanitized(read.value), <<>>)
    IN  IF Len(words) < 2 \/ words[1] # Magic \/ words[2] \notin 1..FormatVersion
        THEN Failed
        ELSE Whole(ReadSections(Succeeded(Fresh, From(words, 3)), words[2]))
=============================================================================
