--------------------------- MODULE SliceLengthMode ---------------------------
(***************************************************************************)
(* Trigger mode Slice Length (VoiceScheduler::runSliceLength).  Picks are  *)
(* chained back to back: the sample on which a pick has run its course     *)
(* starts the next one.  A periodic reset window cuts whatever is playing  *)
(* at every bar-grid boundary.                                             *)
(***************************************************************************)
EXTENDS PickRenderer

CONSTANTS
    ResetWindows, \* the lengths resetBarsIndex may select
    Styles,       \* the styles with a positive weight
    SliceLists    \* the trimmed slice lists a block may be given

ASSUME SliceLengthAssumption ==
    /\ ResetWindows \subseteq Nat /\ ResetWindows # {}
    /\ \A w \in ResetWindows : w >= PpqPerSample
    /\ Styles \subseteq PlaybackStyles /\ Styles # {}
    /\ SliceLists \subseteq Seq(SliceIds)

VARIABLES
    armed,      \* armedMode_ = ArmedMode::sliceLength
    voice,      \* renderer_
    slices,     \* the block's slice list
    resetBars,  \* the block's resetBarsIndex, as a length
    resetEnd,   \* resetWindowEndPpq_
    grid,       \* history: the window length resetEnd was computed with
    born,       \* history: where the current pick started
    at,         \* history: the position of the last sample walked
    abandoned   \* history: the pick in progress was left when a block was given up

blockVars == <<slices, resetBars>>
resetVars == <<resetEnd, grid>>
vars == <<hostVars, armed, voice, blockVars, resetVars, born, at, abandoned>>

TypeOK ==
    /\ HostTypeOK
    /\ armed \in BOOLEAN
    /\ voice \in Voices
    /\ slices \in SliceLists
    /\ resetBars \in ResetWindows
    /\ resetEnd \in Int
    /\ grid \in ResetWindows
    /\ born \in Int /\ at \in Int
    /\ abandoned \in BOOLEAN

Init ==
    /\ HostInit
    /\ armed = FALSE
    /\ voice = IdleVoice
    /\ slices \in SliceLists
    /\ resetBars \in ResetWindows
    /\ resetEnd = 0
    /\ grid = resetBars
    /\ born = 0 /\ at = 0
    /\ abandoned = FALSE

-----------------------------------------------------------------------------
ReadSnapshot ==
    /\ slices' \in SliceLists
    /\ resetBars' \in ResetWindows

(* Just entered the mode, or the transport just started: the reset window  *)
(* the playhead is inside, and a fresh pick.                               *)
Arm ==
    /\ armed' = TRUE
    /\ resetEnd' = NextBoundary(ppq', resetBars')
    /\ grid' = resetBars'
    /\ voice' = ClearPick(voice)

BeginBlock ==
    /\ ReadSnapshot
    /\ slices' # <<>>
    /\ \E size \in BlockSizes : HostBlock(TRUE, size, TRUE)
    /\ IF armed THEN UNCHANGED <<armed, voice, resetVars>> ELSE Arm
    /\ UNCHANGED <<born, at, abandoned>>

BypassBlock ==
    /\ ReadSnapshot
    /\ \E play \in BOOLEAN, size \in BlockSizes :
        /\ ~play \/ slices' = <<>>
        /\ HostBlock(play, size, FALSE)
    /\ armed' = FALSE
    /\ voice' = ClearPick(voice)
    /\ UNCHANGED <<resetVars, born, at, abandoned>>

-----------------------------------------------------------------------------
(* A slip: the boundary is only looked at when a pick has ended. *)
ResetDueBetweenPicks == ppq >= resetEnd /\ Finished(voice)

(* The boundary check, made for every sample. *)
ResetDue == ppq >= resetEnd

(* A slip: the next window is counted from the playhead, off the grid. *)
EndAfterSampleUngridded ==
    IF ResetDue THEN ppq + resetBars ELSE resetEnd

(* The end of the reset window a sample is in. *)
EndAfterSample ==
    IF ResetDue THEN NextBoundary(ppq, resetBars) ELSE resetEnd

(* The boundary cuts the pick. *)
VoiceAfterReset == IF ResetDue THEN ClearPick(voice) ELSE voice

Least(a, b) == IF a < b THEN a ELSE b

(* A slip: the cap is forgotten. *)
PickUncapped(s, style, end) ==
    StartPick(s, style, PassLength(style, s), SliceLen[s], FALSE)

(* A slip: every style is given the length of one forward pass. *)
PickOfOnePass(s, style, end) ==
    StartPick(s, style,
              Least(SliceLen[s], end - ppq), Least(SliceLen[s], end - ppq), FALSE)

(* A pick of slice s in a style, capped by the time until the reset.       *)
Pick(s, style, end) ==
    StartPick(s, style,
              Least(PassLength(style, s), end - ppq),
              Least(SliceLen[s], end - ppq), FALSE)

Picks(end) ==
    {Pick(slices[i], style, end) : i \in DOMAIN slices, style \in Styles}

NeedsPick(v) == Finished(v)

ResetStep ==
    /\ resetEnd' = EndAfterSample
    /\ at' = ppq
    /\ grid' = IF ResetDue THEN resetBars ELSE grid
    /\ UNCHANGED <<armed, blockVars>>

(* The pick in progress goes on. *)
ContinuePick ==
    /\ ~NeedsPick(VoiceAfterReset)
    /\ HostSample
    /\ ResetStep
    /\ voice' = RenderSample(VoiceAfterReset)
    /\ UNCHANGED <<born, abandoned>>

(* Picks are drawn until one is not over before it began. *)
ChainPick ==
    /\ NeedsPick(VoiceAfterReset)
    /\ HostSample
    /\ ResetStep
    /\ \E pick \in Picks(resetEnd') :
        /\ ~Finished(pick)
        /\ voice' = RenderSample(pick)
    /\ born' = ppq
    /\ abandoned' = FALSE

(* A thousand draws in a row were over before they began: one more is      *)
(* taken as it comes and, after this sample, the block is abandoned.       *)
BailOut ==
    /\ NeedsPick(VoiceAfterReset)
    /\ HostBail
    /\ ResetStep
    /\ \E dud \in Picks(resetEnd') : Finished(dud)
    /\ \E pick \in Picks(resetEnd') : voice' = RenderSample(pick)
    /\ born' = ppq
    /\ abandoned' = TRUE

Next ==
    \/ BeginBlock
    \/ BypassBlock
    \/ ContinuePick
    \/ ChainPick
    \/ BailOut

Spec == Init /\ [][Next]_vars

-----------------------------------------------------------------------------
(* No pick plays across a reset boundary: between the sample a sounding    *)
(* pick started on and the sample just rendered there is no point of the   *)
(* reset grid in force ("crossing the boundary cuts whatever is playing",  *)
(* Scheduler.cpp:350-364; checked for every sample, wherever in the block  *)
(* the boundary falls).                                                    *)
NoPickAcrossReset ==
    armed /\ ~Finished(voice) => NextBoundary(born, grid) > at

(* A pick lasts as long as it was declared to when it was drawn, for that  *)
(* is what its fade is timed by: no sample is walked a whole sample past   *)
(* the declared length with the same pick, and no successor starts earlier *)
(* than the sample before it.  What ends a pick is something else for each *)
(* style (the end of its span, its tape-stop duration, its length) and for *)
(* the reset, and all of them have to agree (Scheduler.h:23-31,            *)
(* Scheduler.cpp:366-440, PickRenderer::finished).  Only a pick that was   *)
(* in progress when a block was given up is late.                          *)
PicksLastAsDeclared ==
    [][ left > 0 /\ voice.active /\ ~abandoned =>
          /\ ppq - born < voice.len + PpqPerSample
          /\ born' # born => ppq - born >= voice.len - PpqPerSample ]_vars

(* The cap makes the declared length of a pick end no later than the reset *)
(* that would cut it, even when the bar setting changes while it plays     *)
(* (Scheduler.cpp:366-370, 436-440).                                       *)
CutsAreAnticipated ==
    armed /\ ~Finished(voice) => born + voice.len <= resetEnd

(* A change of the bar setting takes effect at the next boundary: the end  *)
(* of the window moves only when the playhead reaches it                   *)
(* (Scheduler.cpp:350-358).                                                *)
WindowHeldToItsEnd ==
    [][ armed /\ armed' /\ resetEnd' # resetEnd =>
          /\ ppq >= resetEnd
          /\ resetEnd' \in (ppq + 1) .. (ppq + resetBars)
          /\ resetEnd' % resetBars = 0 ]_vars

(* What makes NoPickAcrossReset inductive on a timeline that does not jump: *)
(* samples are only walked by an armed mode on a playing transport, the    *)
(* playhead is past the last grid point before the window's end, and that  *)
(* end is the grid point after the place the sounding pick started.        *)
ResetInv ==
    /\ left > 0 => armed
    /\ armed => /\ playing
                /\ resetEnd % grid = 0
                /\ resetEnd - grid <= ppq
    /\ armed /\ ~Finished(voice) =>
                /\ NextBoundary(born, grid) = resetEnd
                /\ at < resetEnd

(* What makes PicksLastAsDeclared follow, again on a timeline that does    *)
(* not jump: an active pick has run since it started, it still has the     *)
(* length it was drawn with, cut only by the reset, and it was sounding on *)
(* the sample before.                                                      *)
OnSchedule(v, start, now, end) ==
    /\ ~v.gated /\ ~v.releasing
    /\ v.since = now - start
    /\ v.len <= v.span
    /\ v.style = "tapeStop" => v.stop = v.len
    /\ start + v.len <= end
    /\ v.style \notin {"tapeStop", "stretch"} /\ v.len < v.span =>
          start + v.len = end
    /\ now - start < v.len + PpqPerSample

LastInv ==
    armed /\ voice.active /\ ~abandoned =>
        OnSchedule(voice, born, ppq, resetEnd)
=============================================================================
