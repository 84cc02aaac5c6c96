------------------------------ MODULE ClockMode ------------------------------
(***************************************************************************)
(* Trigger mode Clock (VoiceScheduler::runClock).  An outer reference      *)
(* window draws a slice, a subdivision and a style once; every subdivision *)
(* tick inside the window retriggers that combination.  The window end and *)
(* the next tick are musical positions that survive from sample to sample  *)
(* and from block to block.                                                *)
(***************************************************************************)
EXTENDS PickRenderer, FiniteSets

CONSTANTS
    References,   \* the window lengths clockReferenceIndex may select
    Subdivisions, \* the subdivision lengths with a positive weight
    Styles,       \* the styles with a positive weight
    SliceLists    \* the trimmed slice lists a block may be given

ASSUME ClockAssumption ==
    /\ References \subseteq Nat \ {0} /\ References # {}
    /\ Subdivisions \subseteq Nat /\ Subdivisions # {}
    /\ \A sub \in Subdivisions : sub >= PpqPerSample
    /\ Styles \subseteq PlaybackStyles /\ Styles # {}
    /\ SliceLists \subseteq Seq(SliceIds)

VARIABLES
    armed,      \* armedMode_ = ArmedMode::clock
    voice,      \* renderer_
    slices,     \* the block's slice list: the shared list clipped to the trim
    reference,  \* the block's clockReferenceIndex, as a length
    tapeWhole,  \* the block's tapeStopScope is wholeWindow
    windowEnd,  \* clockWindowEndPpq_
    windowLen,  \* clockWindowLengthHostSamples_
    nextTick,   \* clockNextTickPpq_
    pickValid,  \* clockPickValid_
    combo,      \* clockSliceIndex_ (from 1), ..SubdivisionIndex_, ..StyleOrdinal_
    drawn,      \* history: where and what the last draw since arming was
    shifted     \* history: since then a block had another slice at its index

clockVars == <<windowEnd, windowLen, nextTick, pickValid, combo, drawn, shifted>>
blockVars == <<slices, reference, tapeWhole>>
vars == <<hostVars, armed, voice, blockVars, clockVars>>

(* No draw since the mode was armed. *)
NotDrawn == [at |-> 0, grid |-> 0, index |-> 0, slice |-> NoSlice]

TypeOK ==
    /\ HostTypeOK
    /\ armed \in BOOLEAN
    /\ voice \in Voices
    /\ slices \in SliceLists
    /\ reference \in References
    /\ tapeWhole \in BOOLEAN
    /\ windowEnd \in Int
    /\ windowLen \in Nat
    /\ nextTick \in Int
    /\ pickValid \in BOOLEAN
    /\ combo \in [slice : Nat \ {0}, sub : Subdivisions, style : Styles]
    /\ drawn \in [at : Int, grid : Nat, index : Nat,
                 slice : SliceIds \cup {NoSlice}]
    /\ shifted \in BOOLEAN

Init ==
    /\ HostInit
    /\ armed = FALSE
    /\ voice = IdleVoice
    /\ slices \in SliceLists
    /\ reference \in References
    /\ tapeWhole \in BOOLEAN
    /\ windowEnd = 0 /\ windowLen = 0 /\ nextTick = 0
    /\ pickValid = FALSE
    /\ combo \in [slice : {1}, sub : Subdivisions, style : Styles]
    /\ drawn = NotDrawn
    /\ shifted = FALSE

-----------------------------------------------------------------------------
(* The snapshot and the slice list a block reads. *)
ReadSnapshot ==
    /\ slices' \in SliceLists
    /\ reference' \in References
    /\ tapeWhole' \in BOOLEAN

(* A slip to tell apart from Arm: the tick clock is not reset.             *)
ArmKeepingTick ==
    /\ armed' = TRUE
    /\ windowEnd' = NextBoundary(ppq', reference')
    /\ pickValid' = FALSE
    /\ drawn' = NotDrawn
    /\ shifted' = FALSE
    /\ UNCHANGED <<voice, windowLen, combo, nextTick>>

(* Just entered the mode, or the transport just started: the window the    *)
(* playhead is inside, and a pick on the very first sample.                *)
Arm ==
    /\ armed' = TRUE
    /\ windowEnd' = NextBoundary(ppq', reference')
    /\ nextTick' = ppq'
    /\ pickValid' = FALSE
    /\ drawn' = NotDrawn
    /\ shifted' = FALSE
    /\ UNCHANGED <<voice, windowLen, combo>>

(* The mode was armed: the clock goes on over the block's list, in which   *)
(* the kept index may mean another slice when the trim moved at the left.  *)
GoOn ==
    /\ shifted' = (shifted \/ /\ drawn.index \in DOMAIN slices'
                              /\ slices'[drawn.index] # drawn.slice)
    /\ UNCHANGED <<armed, voice, windowEnd, windowLen, nextTick, pickValid,
                   combo, drawn>>

(* VoiceScheduler::process with a moving transport and something to play. *)
BeginBlock ==
    /\ ReadSnapshot
    /\ slices' # <<>>
    /\ \E size \in BlockSizes : HostBlock(TRUE, size, TRUE)
    /\ IF armed THEN GoOn ELSE Arm

(* stopAndDisarm: the transport stands, or there are no slices. *)
BypassBlock ==
    /\ ReadSnapshot
    /\ \E play \in BOOLEAN, size \in BlockSizes :
        /\ ~play \/ slices' = <<>>
        /\ HostBlock(play, size, FALSE)
    /\ armed' = FALSE
    /\ voice' = ClearPick(voice)
    /\ UNCHANGED clockVars

-----------------------------------------------------------------------------
(* Whole-window Tape Stop and Stretch are one render for the whole window. *)
ContinuousRender(c) ==
    c.style = "stretch" \/ (c.style = "tapeStop" /\ tapeWhole)

Least(a, b) == IF a < b THEN a ELSE b

(* The declared length of a tick's pick in a window of length w. *)
TickLength(c, w) ==
    LET pass == PassLength(c.style, slices[c.slice])
    IN  IF c.style = "tapeStop" THEN (IF tapeWhole THEN w ELSE c.sub)
        ELSE Least(pass, IF c.style = "stretch" THEN w ELSE c.sub)

SliceExists(c) == c.slice \in DOMAIN slices

(* The position of the tick after this one, never past the window's end;   *)
(* the end itself when one render spans the window.                        *)
FollowingTick(c, end) ==
    LET stride == nextTick + c.sub
    IN  IF (SliceExists(c) /\ ContinuousRender(c)) \/ stride > end
        THEN end ELSE stride

(* A slip: an index beyond the list is clamped instead of falling silent.  *)
TickClamped(c, w, end) ==
    LET i == IF SliceExists(c) THEN c.slice ELSE Len(slices)
        d == [c EXCEPT !.slice = i]
    IN  /\ voice' = RenderSample(StartPick(slices[i], c.style, TickLength(d, w),
                                           TickLength(d, w), FALSE))
        /\ nextTick' = FollowingTick(d, end)

(* A tick: the combination starts from its beginning; the voice falls      *)
(* silent when its slice no longer exists.                                 *)
Tick(c, w, end) ==
    LET length == TickLength(c, w)
        pick   == StartPick(slices[c.slice], c.style, length,
                            IF c.style = "tapeStop" THEN length
                            ELSE SliceLen[slices[c.slice]], FALSE)
    IN  /\ voice' = RenderSample(IF SliceExists(c) THEN pick
                                 ELSE ClearPick(voice))
        /\ nextTick' = FollowingTick(c, end)

TickDue == ppq >= nextTick

(* A slip: every tick draws anew. *)
WindowOverAtAnyTick == TRUE

WindowOver == ~pickValid \/ ppq >= windowEnd

(* A tick that opens a window: the one weighted draw. *)
OpenWindow ==
    /\ TickDue /\ WindowOver
    /\ HostSample
    /\ pickValid' = TRUE
    /\ windowEnd' = NextBoundary(ppq, reference)
    /\ windowLen' = reference
    /\ \E c \in [slice : DOMAIN slices, sub : Subdivisions, style : Styles] :
        /\ combo' = c
        /\ drawn' = [at |-> ppq, grid |-> reference, index |-> c.slice,
                      slice |-> slices[c.slice]]
        /\ Tick(c, reference, windowEnd')
    /\ shifted' = FALSE
    /\ UNCHANGED <<armed, blockVars>>

(* A tick inside the window. *)
RetriggerTick ==
    /\ TickDue /\ ~WindowOver
    /\ HostSample
    /\ Tick(combo, windowLen, windowEnd)
    /\ UNCHANGED <<armed, blockVars, combo, drawn, shifted, pickValid, windowEnd,
                   windowLen>>

(* A sample between ticks. *)
HoldSample ==
    /\ ~TickDue
    /\ HostSample
    /\ voice' = RenderSample(voice)
    /\ UNCHANGED <<armed, blockVars, clockVars>>

Next ==
    \/ BeginBlock
    \/ BypassBlock
    \/ OpenWindow
    \/ RetriggerTick
    \/ HoldSample

Spec == Init /\ [][Next]_vars

-----------------------------------------------------------------------------
(* How far ahead the next tick of a combination may lie. *)
Reach(c, w) == IF c.style \in {"stretch", "tapeStop"} THEN w ELSE c.sub

(* The tick clock never runs away from the playhead: a tick is late by     *)
(* less than a sample, and never further ahead than one subdivision (one   *)
(* window for a render that spans it).  This is what "every subdivision    *)
(* tick inside the window retriggers" (Scheduler.h:27-28) needs of         *)
(* clockNextTickPpq_, which only ever moves by increments.                 *)
EveryTickRetriggers ==
    armed =>
        /\ ppq - nextTick < PpqPerSample
        /\ ~pickValid => nextTick <= ppq
        /\ pickValid => nextTick - ppq <= Reach(combo, windowLen)

(* What makes it inductive: an armed clock belongs to a playing transport, *)
(* samples are walked by an armed clock only, and the window that was      *)
(* drawn reaches no further ahead than its own length.                     *)
TickClockInv ==
    /\ armed => playing
    /\ left > 0 => armed
    /\ armed /\ pickValid => windowEnd - ppq <= windowLen
    /\ EveryTickRetriggers

(* The tick never passes the window's end, and the end is the boundary     *)
(* that follows the place where the window was drawn.                      *)
WindowInv ==
    armed =>
        /\ pickValid <=> drawn # NotDrawn
        /\ pickValid => /\ nextTick <= windowEnd
                        /\ windowEnd = NextBoundary(drawn.at, drawn.grid)

(* One weighted draw per window: the draw that follows a draw happens on   *)
(* the first sample of the next window of the grid in force, neither       *)
(* earlier nor a window later (Scheduler.cpp:480-502).                     *)
OneDrawPerWindow ==
    [][ drawn # NotDrawn /\ drawn' \notin {drawn, NotDrawn} =>
          LET boundary == NextBoundary(drawn.at, drawn.grid)
          IN drawn'.at \in boundary .. (boundary + PpqPerSample - 1) ]_vars

(* Every tick of a window plays the slice the window drew, also when the   *)
(* kept index is beyond the list of a block in between or back inside the  *)
(* list of a later one (Scheduler.cpp:484-512).  Only a trim that moved at *)
(* the left since the draw may make it another slice, for then the index,  *)
(* which is all the code keeps, means another.                             *)
SameSliceInWindow ==
    armed /\ voice.active /\ drawn # NotDrawn /\ ~shifted =>
        voice.slice = drawn.slice

(* What makes SameSliceInWindow inductive: the combination is the drawn    *)
(* one, and its index means the drawn slice in the block's list.           *)
ComboInv ==
    armed =>
        /\ pickValid <=> drawn # NotDrawn
        /\ pickValid => combo.slice = drawn.index
        /\ ~shifted /\ drawn.index \in DOMAIN slices =>
              slices[drawn.index] = drawn.slice

=============================================================================
