--------------------------- MODULE PerformanceMode ---------------------------
(***************************************************************************)
(* Trigger mode Performance (VoiceScheduler::runPerformance and            *)
(* requestPerformanceRecall).  A note recalls a snapshot of the bank: the  *)
(* focused slot's key plays the live working state at once, any other      *)
(* populated slot a frozen copy of its snapshot, at once or, with Quantize *)
(* Recall on a playing transport, at the next point of the interval grid.  *)
(* A finished pick is rechained (loop) or cleared (one-shot).              *)
(*                                                                         *)
(* A snapshot is its segment (as a slice), its style and its loop flag.    *)
(***************************************************************************)
EXTENDS PickRenderer

CONSTANTS
    Keys,      \* the notes the host may send
    Snapshots, \* what a slot of the bank or the working state may hold
    States     \* the plugin states the UI may publish

NoNote == "noNote"            \* pendingPerformanceNote_ = -1, no focus
Unpopulated == [segment |-> NoSlice, style |-> "straight", loop |-> FALSE]

Populated(snapshot) == snapshot # Unpopulated

\* PerformanceState; interval is quantizeRecallIntervalIndex as a length.
PerformanceStates ==
    [ bank : [Keys -> Snapshots], working : Snapshots,
      focus : Keys \cup {NoNote}, quantize : BOOLEAN, interval : Nat \ {0} ]

ASSUME PerformanceAssumption ==
    /\ NoNote \notin Keys /\ NoSlice \notin SliceIds
    /\ Unpopulated \in Snapshots
    /\ Snapshots \ {Unpopulated} \subseteq
           [segment : SliceIds, style : PlaybackStyles, loop : BOOLEAN]
    /\ States \subseteq PerformanceStates /\ States # {}

VARIABLES
    armed,     \* armedMode_ = ArmedMode::performance
    state,     \* the snapshot of PluginState the block was given
    perf,      \* the scheduler's Performance runtime and its voice
    plays,     \* history: picks started since the last recall
    stale      \* history: since the boundary was computed for the pending
               \* note, a block was bypassed or the interval changed

historyVars == <<plays, stale>>
vars == <<hostVars, armed, state, perf, historyVars>>

Runtimes ==
    [ pending  : Keys \cup {NoNote},  \* pendingPerformanceNote_
      snapped  : BOOLEAN,             \* performanceBoundaryArmed_
      boundary : Int,                 \* performanceBoundaryPpq_
      recall   : BOOLEAN,             \* performanceRecallPending_
      focused  : BOOLEAN,             \* performancePlaybackIsFocused_
      frozen   : Snapshots,           \* performanceFrozenSnapshot_
      frozenAt : Keys \cup {NoNote},  \* history: the slot it was copied from
      voice    : Voices ]

TypeOK ==
    /\ HostTypeOK
    /\ armed \in BOOLEAN
    /\ state \in States
    /\ perf \in Runtimes
    /\ plays \in 0 .. 2
    /\ stale \in BOOLEAN

Init ==
    /\ HostInit
    /\ armed = FALSE
    /\ state \in States
    /\ perf = [ pending |-> NoNote, snapped |-> FALSE, boundary |-> 0,
                recall |-> FALSE, focused |-> FALSE, frozen |-> Unpopulated,
                frozenAt |-> NoNote, voice |-> IdleVoice ]
    /\ plays = 0
    /\ stale = FALSE

-----------------------------------------------------------------------------
(* applyPerformanceRecallFromState, against the state of a block. *)
Apply(p, note, st) ==
    IF note = st.focus THEN [p EXCEPT !.focused = TRUE, !.recall = TRUE]
    ELSE IF ~Populated(st.bank[note]) THEN p
    ELSE [p EXCEPT !.frozen = st.bank[note], !.frozenAt = note,
                   !.focused = FALSE, !.recall = TRUE]

(* A slip: the boundary of the note it replaces is kept. *)
DeferKeepingBoundary(p, note) == [p EXCEPT !.pending = note]

Defer(p, note) == [p EXCEPT !.pending = note, !.snapped = FALSE]

(* Does a note ask for anything at all? *)
Accepted(note, st) ==
    /\ note # NoNote
    /\ note = st.focus \/ Populated(st.bank[note])

(* requestPerformanceRecall, while the transport of the block does or does *)
(* not play.                                                               *)
Defers(note, st, play) ==
    Accepted(note, st) /\ note # st.focus /\ st.quantize /\ play

NoteOn(p, note, st, play) ==
    IF ~Accepted(note, st) THEN p
    ELSE IF Defers(note, st, play) THEN Defer(p, note)
    ELSE Apply(p, note, st)

-----------------------------------------------------------------------------
(* A block that is walked.  Unlike the transport-driven modes Performance  *)
(* also runs while the transport is stopped.                               *)
BeginBlock ==
    /\ state' \in States
    /\ \E play \in BOOLEAN, size \in BlockSizes : HostBlock(play, size, TRUE)
    /\ \E note \in Keys \cup {NoNote} :
        LET routed == NoteOn(perf, note, state', playing')
        IN  /\ perf' = IF armed THEN routed
                       ELSE [routed EXCEPT !.voice = ClearPick(@)]
            /\ stale' = /\ perf'.snapped /\ ~Defers(note, state', playing')
                        /\ stale \/ state'.interval # state.interval
    /\ armed' = TRUE
    /\ UNCHANGED plays

(* No slices: stopAndDisarm.  The notes of the block were routed before.   *)
BypassBlock ==
    /\ state' \in States
    /\ \E play \in BOOLEAN, size \in BlockSizes : HostBlock(play, size, FALSE)
    /\ \E note \in Keys \cup {NoNote} :
        LET routed == NoteOn(perf, note, state', playing')
        IN  /\ perf' = [routed EXCEPT !.voice = ClearPick(@)]
            /\ stale' = (routed.snapped /\ ~Defers(note, state', playing'))
    /\ armed' = FALSE
    /\ UNCHANGED plays

-----------------------------------------------------------------------------
Snapped(p) ==
    IF playing /\ ~p.snapped
    THEN [p EXCEPT !.snapped = TRUE, !.boundary = NextBoundary(ppq, state.interval)]
    ELSE p

(* A stopped transport has no beat position to quantize against. *)
BoundaryCrossed(p) == playing => ppq >= p.boundary

(* The Quantize Recall boundary, checked for every sample. *)
Recalled(p) ==
    IF p.pending = NoNote THEN p
    ELSE IF BoundaryCrossed(Snapped(p))
         THEN [Apply(p, p.pending, state) EXCEPT !.pending = NoNote,
                                                       !.snapped = FALSE]
    ELSE Snapped(p)

(* A slip: the bank itself is played, not the copy that was frozen. *)
ActiveStateLive(p) ==
    IF p.focused \/ p.frozenAt = NoNote THEN state.working ELSE state.bank[p.frozenAt]

ActiveState(p) == IF p.focused THEN state.working ELSE p.frozen

(* A slip: the loop flag of the working state decides. *)
RechainsWorking(p) == Finished(p.voice) /\ state.working.loop

(* The pick has run its course and its snapshot loops. *)
Rechains(p) == Finished(p.voice) /\ ActiveState(p).loop

(* A folding style ends when its declared window runs out; a schedule      *)
(* bounds the others.                                                      *)
Fresh(snapshot) ==
    LET pass == PassLength(snapshot.style, snapshot.segment)
    IN  StartPick(snapshot.segment, snapshot.style, pass,
                  SliceLen[snapshot.segment], FoldingStyle(snapshot.style))

NeedsFreshPick(p) == p.recall \/ (p.voice.active /\ Rechains(p))

Starts(p) == NeedsFreshPick(p) /\ Populated(ActiveState(p))

VoiceAt(p) ==
    IF Starts(p) THEN Fresh(ActiveState(p))
    ELSE IF ~NeedsFreshPick(p) /\ Finished(p.voice) THEN ClearPick(p.voice)
    ELSE p.voice

Sample ==
    /\ HostSample
    /\ LET p == Recalled(perf)
       IN  /\ perf' = [p EXCEPT !.recall = FALSE,
                                !.voice = RenderSample(VoiceAt(p))]
           /\ plays' = CASE p.recall            -> IF Starts(p) THEN 1 ELSE 0
                         [] ~p.recall /\ Starts(p) -> IF plays = 0 THEN 1 ELSE 2
                         [] OTHER               -> plays
           /\ stale' = (stale /\ p.snapped)
    /\ UNCHANGED <<armed, state>>

Next == BeginBlock \/ BypassBlock \/ Sample
Spec == Init /\ [][Next]_vars

-----------------------------------------------------------------------------
(* The deferred recall is acted upon on this sample. *)
Fires == perf.pending # NoNote /\ perf'.pending = NoNote

(* A deferred recall lands on the interval grid to the sample, unless the  *)
(* mode was disarmed or the interval changed while that very note waited:  *)
(* a newer note gets a boundary of its own (Scheduler.cpp:1011-1014,       *)
(* 1059-1088).                                                             *)
UndisturbedRecallOnGrid ==
    [][Fires /\ playing /\ ~stale => ppq % state.interval < PpqPerSample]_vars

(* "Later bank edits can never disturb a pick already sounding"            *)
(* (Scheduler.cpp:1038-1039): as long as no recall is applied, a frozen    *)
(* snapshot that loops is rechained with the same segment and style,       *)
(* whatever happened to its slot.                                          *)
FrozenUndisturbed ==
    [][ /\ left' < left /\ ~perf.focused /\ ~perf.recall /\ ~Fires
        /\ perf.voice.active
        => /\ perf'.voice.slice = perf.voice.slice
           /\ perf'.voice.style = perf.voice.style ]_vars

(* A one-shot sounds once per recall: "loop off goes silent until the next *)
(* note-on" (Scheduler.cpp:1093-1094).                                     *)
OneShotPlaysOnce ==
    ~perf.focused /\ ~perf.recall /\ ~perf.frozen.loop => plays <= 1

-----------------------------------------------------------------------------
(* What the proofs add to make the properties above inductive.             *)

(* A boundary belongs to a note that waits for it.  Unless it is stale it  *)
(* is a point of the grid that the transport, walking towards it, has not  *)
(* passed by a whole sample; a stopped block fires what waits on its first *)
(* sample, so that no boundary outlives one.                               *)
BoundaryInv ==
    /\ perf.pending = NoNote => ~perf.snapped
    /\ perf.snapped /\ ~stale =>
          /\ playing \/ left > 0
          /\ playing => /\ perf.boundary % state.interval = 0
                        /\ ppq < perf.boundary + PpqPerSample

(* What was recalled from the bank is a populated slot, and once it is     *)
(* picked up it is what sounds.                                            *)
FrozenInv ==
    ~perf.focused =>
        /\ perf.recall \/ perf.voice.active => Populated(perf.frozen)
        /\ ~perf.recall /\ perf.voice.active =>
              /\ perf.voice.slice = perf.frozen.segment
              /\ perf.voice.style = perf.frozen.style

=============================================================================
