----------------------------- MODULE JsonFormat -----------------------------
(***************************************************************************)
(* The document as JSON (state/JsonIO.cpp): one object per state, keyed by *)
(* field name, written whole and read tolerantly: what is missing (or of   *)
(* another type, which counts as missing here) keeps its default.          *)
(*                                                                         *)
(* An object is a function of its keys.  Objects nested for layout only    *)
(* (the viewport, the three parts of a grid) are kept as in the document;  *)
(* a style parameter's name is its index, a cell or slot its number.       *)
(***************************************************************************)
EXTENDS StateFormat

\* The objects of a file and their keys; "top" stands for the file itself.
\* They hold what the chunk's sections hold, but for the audition switch.
JsonObjects ==
    [top |-> ToSet(WriteGlobal), sample |-> ToSet(WriteSample),
     render |-> ToSet(WriteRender), generate |-> ToSet(WriteGenerate),
     sequencer |-> ToSet(WriteSequencer),
     performance |-> ToSet(WritePerformance), control |-> ToSet(WriteControl),
     ui |-> ToSet(WriteUi) \ {"auditionEnabled"}]

\* The object that holds a field
HomeOf == [f \in UNION {JsonObjects[o] : o \in DOMAIN JsonObjects} |->
              CHOOSE o \in DOMAIN JsonObjects : f \in JsonObjects[o]]

\* toJson
ToJson(d) == [o \in DOMAIN JsonObjects |-> [f \in JsonObjects[o] |-> d[f]]]

\* readField over the keys an object should have
ReadKeys(object, defaults) ==
    [k \in DOMAIN defaults |-> IF k \in DOMAIN object THEN object[k] ELSE defaults[k]]

\* styleParametersFromJson: each value through set()
ParamsFromJson(j) ==
    LET object == ReadKeys(j, FreshParams)
        generic == ReadKeys(object.generic, FreshParams.generic)
    IN  [generic |-> [i \in DOMAIN Params |-> ParamSet(i, generic[i])],
         volume |-> Clamp(object.volume, 0, Unit)]

\* overridesFromJson: known names, and cells that have one
OverridesFromJson(j) ==
    LET known(c) == {id \in DOMAIN j[c] : OverrideId(id)}
    IN  [c \in {cell \in DOMAIN j : known(cell) # {}} |-> Restrict(j[c], known(c))]

GridFromJson(j) ==
    LET object == ReadKeys(j, FreshGrid)
    IN  [object EXCEPT !.overrides = OverridesFromJson(@)]

\* patternFromJson, snapshotFromJson: an object that is there is populated
PatternFromJson(j) ==
    LET object == ReadKeys(j, FreshPattern)
    IN  [object EXCEPT !.grid = GridFromJson(@)]
SnapshotFromJson(j) ==
    LET object == ReadKeys(j, FreshSegment)
    IN  [object EXCEPT !.params = ParamsFromJson(@)]

Slots(j) == DOMAIN j \cap 0..(NumNotes - 1)

FieldFromJson(field, x) ==
    CASE field \in ParamSets -> ParamsFromJson(x)
      [] field = "grid" -> GridFromJson(x)
      [] field = "patternBank" -> [s \in Slots(x) |-> PatternFromJson(x[s])]
      [] field = "performanceBank" -> [s \in Slots(x) |-> SnapshotFromJson(x[s])]
      [] field = "workingState" -> SnapshotFromJson(x)
      [] OTHER -> x

\* fromJson.  A working state without its flag counts as populated.
FromJson(j) ==
    LET has(f) == f \in DOMAIN HomeOf /\ HomeOf[f] \in DOMAIN j
                    /\ f \in DOMAIN j[HomeOf[f]]
        read == [f \in DOMAIN Fresh |->
                    IF has(f) THEN FieldFromJson(f, j[HomeOf[f]][f])
                    ELSE IF f = "workingPopulated" /\ has("workingState")
                    THEN 1 ELSE Fresh[f]]
    IN  Sanitized(read)
=============================================================================
