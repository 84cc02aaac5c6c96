--------------------------- MODULE ParameterSurface ---------------------------
(***************************************************************************)
(* The parameters the host sees (plugin/ParameterSurface.h): which fields  *)
(* of the document they are, and the conversion between a field and the    *)
(* normalized value 0 .. Unit of the host's parameter object.  A parameter *)
(* is a pair of a name and the index of a style parameter (0 otherwise).   *)
(***************************************************************************)
EXTENDS PluginState

StyleIds == {<<"style", i>> : i \in DOMAIN Params}
TriggerModeId == <<"triggerMode", 0>>

\* The fields behind the parameters that are a choice of so many options,
\* counted from a first value, and the ones that are a switch.
Menus == [triggerMode |-> [options |-> 5, first |-> 0],
            loopLengthBars |-> [options |-> MaxBars, first |-> 1],
            baseNote |-> [options |-> NumNotes, first |-> 0],
            quantizeRecallIntervalIndex |-> [options |-> NumNoteValues, first |-> 0]]
Switches == {"manualBpmOverrideEnabled", "gateMode", "quantizeRecallEnabled"}

\* isValidParamId
ParamIds == StyleIds \cup {<<f, 0>> : f \in DOMAIN Menus \cup Switches
                                          \cup {"manualBpmOverrideValue"}}

\* lround of a fraction
Round(a, b) == (2 * a + b) \div (2 * b)

\* A field on the scale of its host parameter
OfOption(x, options) == Clamp(Round(x * Unit, options - 1), 0, Unit)
OfRange(x, lo, hi) == Clamp(Round((x - lo) * Unit, hi - lo), 0, Unit)

ToNormalized(d, id) ==
    LET info == Params[id[2]]    x == d.generateParams.generic[id[2]]
    IN  IF id \in StyleIds
        THEN IF info.options > 0 THEN OfOption(x, info.options)
             ELSE OfRange(x, info.min, info.max)
        ELSE IF id[1] \in Switches THEN d[id[1]] * Unit
        ELSE IF id[1] \in DOMAIN Menus
        THEN OfOption(d[id[1]] - Menus[id[1]].first, Menus[id[1]].options)
        ELSE OfRange(d.manualBpmOverrideValue, LowBpm, HighBpm)

\* And back
ToOption(n, options) == Clamp(Round(n * (options - 1), Unit), 0, options - 1)
ToRange(n, lo, hi) == lo + (n * (hi - lo)) \div Unit

\* A slip: the trigger mode moves alone.
ModeSetAlone(d, mode) == [d EXCEPT !.triggerMode = mode]

\* The trigger mode takes the Generate sub-mode and the tab with it.
ModeSet(d, mode) ==
    [d EXCEPT !.triggerMode = mode,
              !.generateMode = IF mode \in {SliceLength, Clock} THEN mode ELSE @,
              !.activeTab = TabForTriggerMode(mode)]

Applied(d, id, n) ==
    LET info == Params[id[2]]
        choice == ToOption(n, Menus[id[1]].options) + Menus[id[1]].first
        style == IF info.options > 0 THEN ToOption(n, info.options)
                 ELSE ToRange(n, info.min, info.max)
    IN  IF id \in StyleIds
        THEN [d EXCEPT !.generateParams.generic[id[2]] = ParamSet(id[2], style)]
        ELSE IF id = TriggerModeId THEN ModeSet(d, choice)
        ELSE IF id[1] \in Switches
        THEN [d EXCEPT ![id[1]] = IF 2 * n >= Unit THEN 1 ELSE 0]
        ELSE IF id[1] \in DOMAIN Menus THEN [d EXCEPT ![id[1]] = choice]
        ELSE [d EXCEPT !.manualBpmOverrideValue = ToRange(n, LowBpm, HighBpm)]

\* A slip: the parameter objects stay as they were registered.
NormalizedAsRegistered(d) == [id \in ParamIds |-> ToNormalized(Fresh, id)]

\* syncParameterObjectsFromState; on a new document, registerParameters
Normalized(d) == [id \in ParamIds |-> ToNormalized(d, id)]
=============================================================================
