----------------------------- MODULE MCSession -----------------------------
(* Two style parameters (a menu of four options and a continuous one), five *)
(* keys, four note values, grids of up to 2 x 2 cells.                      *)
EXTENDS Session

MCParams == <<[min |-> 0, max |-> 3, default |-> 1, options |-> 4],
              [min |-> 2, max |-> 14, default |-> 5, options |-> 0]>>
MCFiles == <<[frames |-> 6, slices |-> 2], [frames |-> 9, slices |-> 1]>>
MCColumns(resolution, bars) == IF resolution < 2 THEN 1 ELSE 2
MCTrims == {<<2, 3>>, <<0, 5>>}

\* A session in which no field is at its default and fields of the same
\* range differ, with both banks in use.
MCGenerateParams == [generic |-> <<2, 9>>, volume |-> 7]
MCSegment == [trimStart |-> 2, trimEnd |-> 8, style |-> 2,
              params |-> [generic |-> <<0, 12>>, volume |-> 3],
              loop |-> 1, sync |-> 0]
MCGrid == [cells |-> <<-1, 2, 0, -1>>,
           overrides |-> (1 :> (0 :> 3 @@ 3 :> 2)), extensions |-> (2 :> 5)]
MCPattern == [rows |-> 1, columns |-> 2, stepResolutionIndex |-> 3,
              patternLengthBarsIndex |-> 1,
              grid |-> [cells |-> <<1, -1>>, overrides |-> Nothing,
                        extensions |-> (0 :> 2)]]
MCWorked ==
    [f \in DOMAIN Fresh |->
        CASE f = "triggerMode" -> Control   [] f = "activeTab" -> ControlTab
          [] f = "generateMode" -> Clock    [] f = "samplePath" -> 2
          [] f = "sampleContentHash" -> 77  [] f = "sampleLengthFrames" -> 9
          [] f = "sampleSampleRate" -> 44   [] f = "trimStartFrame" -> 1
          [] f = "trimEndFrame" -> 7        [] f = "sensitivity" -> 4
          [] f = "quantizeTransients" -> 1  [] f = "quantizeGridIndex" -> 3
          [] f = "manualPoints" -> <<<<1, 5>>, <<3, 6>>>>
          [] f = "excludedPoints" -> <<<<2, 3>>>>
          [] f = "nextManualPointId" -> 4   [] f = "nextExcludedPointId" -> 3
          [] f = "loopLengthBars" -> 2      [] f = "manualBpmOverrideEnabled" -> 1
          [] f = "manualBpmOverrideValue" -> 19 [] f = "fadeInMs" -> 1
          [] f = "fadeOutMs" -> 2           [] f = "pitchMode" -> 1
          [] f = "grainSizeMs" -> 30        [] f = "grainSpeed" -> 8
          [] f = "grainWindowShape" -> 1    [] f = "pitchShiftSemitones" -> -7
          [] f = "beatQuantizeTimeStretch" -> 0 [] f = "beatQuantizeRepitch" -> 1
          [] f = "sliceWeights" -> <<12, 0>> [] f = "styleWeights" -> 6
          [] f = "generateParams" -> MCGenerateParams
          [] f = "resetBarsIndex" -> 4      [] f = "clockReferenceIndex" -> 1
          [] f = "subdivisionWeights" -> 8  [] f = "tapeStopScope" -> 1
          [] f = "filterSweepScope" -> 0    [] f = "stepResolutionIndex" -> 2
          [] f = "patternLengthBarsIndex" -> 3 [] f = "rows" -> 2
          [] f = "columns" -> 2             [] f = "grid" -> MCGrid
          [] f = "fallbackParams" -> [generic |-> <<3, 4>>, volume |-> 5]
          [] f = "randomizeStyleWeights" -> 9
          [] f = "randomizeParametersForStyle" -> 1
          [] f = "selectedDrawingStyle" -> 2
          [] f = "patternBank" -> (1 :> MCPattern @@ 4 :> [MCPattern EXCEPT !.grid.cells = <<0, 2>>])
          [] f = "patternSwitchTiming" -> 2 [] f = "patternSwitchIntervalIndex" -> 0
          [] f = "zoomX" -> 3               [] f = "zoomY" -> 5
          [] f = "originX" -> 7             [] f = "originY" -> 2
          [] f = "performanceBank" -> (0 :> MCSegment @@ 3 :> [MCSegment EXCEPT !.trimEnd = 5])
          [] f = "workingState" -> [MCSegment EXCEPT !.loop = 0, !.sync = 1, !.style = 1]
          [] f = "workingPopulated" -> 1    [] f = "focusedSlot" -> 3
          [] f = "trimSnapMode" -> 1        [] f = "trimGridIndex" -> 0
          [] f = "quantizeRecallEnabled" -> 1
          [] f = "quantizeRecallIntervalIndex" -> 1
          [] f = "baseNote" -> 3            [] f = "gateMode" -> 1
          [] f = "activeStyle" -> 1
          [] f = "controlParams" -> [generic |-> <<2, 3>>, volume |-> 1]
          [] f = "visibleStartNorm" -> 3    [] f = "visibleEndNorm" -> 10
          [] f = "auditionEnabled" -> 1
          [] OTHER -> Fresh[f]]
MCSessions == <<MCWorked>>
=============================================================================
