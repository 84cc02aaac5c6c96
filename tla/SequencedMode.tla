---------------------------- MODULE SequencedMode ----------------------------
(***************************************************************************)
(* Trigger mode Sequenced (VoiceScheduler::runSequenced).  The step grid   *)
(* advances with the playhead; a filled column starts its cell's pick; a   *)
(* cell may be subdivided into retriggers.  MIDI notes recall patterns     *)
(* from a bank, at once or at a later boundary, and an applied recall      *)
(* replaces the working grid.  (It would do so until somebody asks for its *)
(* release, which only tests do: the plug-in's shell never does.)          *)
(*                                                                         *)
(* A pattern is its step length and one cell per column: the row of the    *)
(* filled cell (its slice), its style, its extension in steps and its      *)
(* Subdivide length (0: none).  Columns hold at most one cell, which is    *)
(* the grid's own invariant.                                               *)
(***************************************************************************)
EXTENDS PickRenderer

CONSTANTS
    Patterns,  \* the patterns the working grid may hold
    Bank,      \* [note -> pattern or EmptySlot]: sequencer.patternBank
    Timings,   \* subset of SwitchTimings
    Intervals, \* the lengths patternSwitchIntervalIndex may select
    SliceLists

NoNote == "noNote"       \* pendingPatternNote_ = -1
NoStep == -1             \* sequencedLastStepIndex_ before a boundary

EmptySlot == [step |-> 1, cells |-> <<>>]
EmptyCell == [row |-> 0, style |-> "straight", steps |-> 0, sub |-> 0]
Cells == [row : Nat, style : PlaybackStyles, steps : Nat, sub : Nat]
SwitchTimings == {"immediate", "setInterval", "endOfPattern"}
Notes == DOMAIN Bank

IsPattern(p) ==
    /\ p = [step |-> p.step, cells |-> p.cells]
    /\ p.step \in Nat /\ p.step >= PpqPerSample
    /\ p.cells \in Seq(Cells) \ {<<>>}
    /\ \A c \in DOMAIN p.cells : LET sub == p.cells[c].sub
                                 IN sub = 0 \/ sub >= PpqPerSample

ASSUME SequencedAssumption ==
    /\ \A p \in Patterns : IsPattern(p)
    /\ NoNote \notin Notes
    /\ \A n \in Notes : Bank[n] = EmptySlot \/ IsPattern(Bank[n])
    /\ Timings \subseteq SwitchTimings /\ Timings # {}
    /\ Intervals \subseteq Nat \ {0} /\ Intervals # {}
    /\ SliceLists \subseteq Seq(SliceIds)

VARIABLES
    armed,    \* armedMode_ = ArmedMode::sequenced
    slices,   \* the block's slice list
    timing,   \* the block's patternSwitchTiming
    interval, \* the block's patternSwitchIntervalIndex, as a length
    working,  \* the published working grid
    seq,      \* the scheduler's Sequenced runtime and its voice
    stale,    \* history: since the interval boundary was computed, a block was
              \* bypassed or the switch settings changed
    fresh     \* history: the working grid was edited since the last sample

blockVars == <<slices, timing, interval>>
vars == <<hostVars, armed, blockVars, working, seq, stale, fresh>>

(* A recall that was applied is one of a slot that holds a pattern. *)
Populated == {n \in Notes : Bank[n] # EmptySlot}

Runtimes ==
    [ last       : Nat \cup {NoStep},          \* sequencedLastStepIndex_
      pending    : Notes \cup {NoNote},        \* pendingPatternNote_
      snapped    : BOOLEAN,                    \* patternIntervalArmed_
      boundary   : Int,                        \* patternIntervalBoundaryPpq_
      recalled   : Populated \cup {NoNote},    \* recalledPattern_, by its slot
      subActive  : BOOLEAN,                    \* subdivisionActive_
      subRow     : Nat,                        \* subdivisionRow_ (0: none)
      subTick    : Nat,                        \* subdivisionTickLengthSamples_
      subNext    : Nat,                        \* nextSubdivisionOffsetSamples_
      window     : Nat,                        \* windowLengthHost
      windowAge  : Nat,                        \* samplesSinceWindowStart
      voice      : Voices,
      row        : Nat,        \* history: the row the pick was started from
      shifted    : BOOLEAN ]   \* history: since then, a block had another slice
                               \* in that row

TypeOK ==
    /\ HostTypeOK
    /\ armed \in BOOLEAN
    /\ slices \in SliceLists
    /\ timing \in Timings
    /\ interval \in Intervals
    /\ working \in Patterns
    /\ seq \in Runtimes
    /\ stale \in BOOLEAN
    /\ fresh \in BOOLEAN

Init ==
    /\ HostInit
    /\ armed = FALSE
    /\ slices \in SliceLists
    /\ timing \in Timings
    /\ interval \in Intervals
    /\ working \in Patterns
    /\ seq = [ last |-> NoStep, pending |-> NoNote, snapped |-> FALSE,
               boundary |-> 0, recalled |-> NoNote, subActive |-> FALSE,
               subRow |-> 0, subTick |-> 0, subNext |-> 0, window |-> 0,
               windowAge |-> 0, voice |-> IdleVoice, row |-> 0, shifted |-> FALSE ]
    /\ stale = FALSE
    /\ fresh = FALSE

-----------------------------------------------------------------------------
(* effectiveSequencer: the applied recall, or else the working grid. *)
Effective(s) == IF s.recalled = NoNote THEN working ELSE Bank[s.recalled]

Columns(p) == Len(p.cells)

StepIndex(at, p) == (at \div p.step) % Columns(p)

(***************************************************************************)
(* Phase 1 of a sample: the deferred pattern switch.                       *)
(***************************************************************************)
Snapped(s) ==
    IF timing = "setInterval" /\ ~s.snapped
    THEN [s EXCEPT !.snapped = TRUE, !.boundary = NextBoundary(ppq, interval)]
    ELSE s

(* A slip: "step index happens to be 0" is taken for a wrap. *)
SwitchDueAtStepZero(s) ==
    CASE timing = "immediate"    -> TRUE
      [] timing = "setInterval"  -> ppq >= s.boundary
      [] timing = "endOfPattern" -> StepIndex(ppq, Effective(s)) = 0

(* A slip: the interval is measured from the playhead, not on the grid. *)
SwitchDueEarly(s) ==
    CASE timing = "immediate"    -> TRUE
      [] timing = "setInterval"  -> ppq + interval > s.boundary
      [] timing = "endOfPattern" -> /\ StepIndex(ppq, Effective(s)) = 0
                                    /\ s.last = Columns(Effective(s)) - 1

SwitchDue(s) ==
    CASE timing = "immediate"    -> TRUE
      [] timing = "setInterval"  -> ppq >= s.boundary
      [] timing = "endOfPattern" -> /\ StepIndex(ppq, Effective(s)) = 0
                                    /\ s.last = Columns(Effective(s)) - 1

(* A slip: the step tracker is not re-synchronised. *)
RecalledWithoutResync(s) ==
    LET done == [s EXCEPT !.pending = NoNote, !.snapped = FALSE]
    IN  IF Bank[s.pending] = EmptySlot THEN done
        ELSE [done EXCEPT !.recalled = s.pending]

(* applyPatternRecallFromState: an empty slot only drops the request. *)
Recalled(s) ==
    LET done == [s EXCEPT !.pending = NoNote, !.snapped = FALSE]
    IN  IF Bank[s.pending] = EmptySlot THEN done
        ELSE [done EXCEPT !.recalled = s.pending, !.last = NoStep]

Switched(s) ==
    IF s.pending = NoNote THEN s
    ELSE IF SwitchDue(Snapped(s)) THEN Recalled(Snapped(s)) ELSE Snapped(s)

(***************************************************************************)
(* Phase 2: the step boundary.                                             *)
(***************************************************************************)
Least(a, b) == IF a < b THEN a ELSE b
Most(a, b) == IF a > b THEN a ELSE b

Filled(cell) == cell.row \in DOMAIN slices

(* The declared length: the slice's own length in steps, or the extension. *)
DeclaredLength(p, cell) ==
    LET natural == (2 * SliceLen[slices[cell.row]] + p.step) \div (2 * p.step)
    IN  Most(Most(1, natural), cell.steps) * p.step

(* The time to the next active column anywhere in the grid.                *)
UntilNextActive(p, step) ==
    LET active(d) == Filled(p.cells[((step + d) % Columns(p)) + 1])
        ahead == {d \in 1 .. Columns(p) : active(d)}
        first == IF ahead = {} THEN Columns(p)
                 ELSE CHOOSE d \in ahead : \A e \in ahead : d <= e
    IN  first * p.step

(* The length of the note in a cell, before Subdivide.                     *)
NoteLength(p, cell, step) ==
    Least(IF cell.style = "scratch" THEN ScratchCycle ELSE DeclaredLength(p, cell),
          UntilNextActive(p, step))

(* A slip: a Subdivide schedule keeps the row it first had. *)
SubRowKept(s, cell) == IF s.subRow # 0 THEN s.subRow ELSE cell.row

SubRow(s, cell) == IF cell.sub # 0 THEN cell.row ELSE 0

(* startSequencedPick *)
Started(s, p, step) ==
    LET cell   == p.cells[step + 1]
        length == NoteLength(p, cell, step)
        len    == IF cell.sub = 0 THEN length ELSE Least(length, cell.sub)
        slice  == slices[cell.row]
    IN  [s EXCEPT
           !.window = length, !.windowAge = 0,
           !.subActive = cell.sub # 0,
           !.subRow = SubRow(s, cell),
           !.subTick = IF cell.sub # 0 THEN cell.sub ELSE @,
           !.subNext = IF cell.sub # 0 THEN cell.sub ELSE @,
           !.voice = StartPick(slice, cell.style, len,
                               IF cell.style = "tapeStop" THEN len
                               ELSE SliceLen[slice], TRUE),
           !.row = cell.row, !.shifted = FALSE]

Stepped(s) ==
    LET p    == Effective(s)
        step == StepIndex(ppq, p)
        on   == [s EXCEPT !.last = step]
    IN  IF step = s.last THEN s
        ELSE IF Filled(p.cells[step + 1]) THEN Started(on, p, step)
        ELSE on

(***************************************************************************)
(* Phase 3: the Subdivide retrigger.                                       *)
(***************************************************************************)
(* A slip: the last retrigger is not shortened to the window. *)
RetriggerLengthFull(s) == s.subTick

RetriggerLength(s) == Least(s.subTick, s.window - s.windowAge)

Subdivided(s) ==
    IF /\ s.subActive
       /\ s.subRow \in DOMAIN slices
       /\ s.windowAge < s.window
       /\ s.windowAge >= s.subNext
    THEN [s EXCEPT
            !.voice = Retrigger(s.voice, slices[s.subRow], RetriggerLength(s),
                                IF s.voice.style = "tapeStop"
                                THEN RetriggerLength(s) ELSE s.voice.stop),
            !.subNext = @ + s.subTick]
    ELSE s

(* Phase 4: the window clock moves (it is counted to the end of the        *)
(* window; nothing depends on how far past it is) and the voice sounds.    *)
Rendered(s) ==
    [s EXCEPT !.windowAge = Least(@ + PpqPerSample, s.window),
              !.voice = RenderSample(@)]

(* The pending recall is acted upon on this sample. *)
Fires == seq.pending # NoNote /\ seq'.pending = NoNote

Sample ==
    /\ HostSample
    /\ seq' = Rendered(Subdivided(Stepped(Switched(seq))))
    /\ stale' = (stale /\ seq'.snapped)
    /\ fresh' = FALSE
    /\ UNCHANGED <<armed, blockVars, working>>

-----------------------------------------------------------------------------
(* What every block does first: read the snapshot and route its last       *)
(* note-on.                                                                *)
ReadSnapshot ==
    /\ slices' \in SliceLists
    /\ timing' \in Timings
    /\ interval' \in Intervals

NoteOn(note, s) == IF note = NoNote THEN s ELSE [s EXCEPT !.pending = note]

(* Just entered the mode, or the transport just started. *)
Armed(s) ==
    [s EXCEPT !.last = NoStep, !.subActive = FALSE, !.subRow = 0,
              !.voice = ClearPick(@), !.row = 0]

(* The mode was armed: it goes on over the block's list, in which the row  *)
(* a pick was started from may hold another slice when the trim moved at   *)
(* the left.                                                               *)
GoneOn(s) ==
    LET moved == s.row \in DOMAIN slices' /\ slices'[s.row] # s.voice.slice
    IN  [s EXCEPT !.shifted = @ \/ moved]

BeginBlock ==
    /\ ReadSnapshot
    /\ slices' # <<>>
    /\ \E size \in BlockSizes : HostBlock(TRUE, size, TRUE)
    /\ \E note \in Notes \cup {NoNote} :
        seq' = IF armed THEN GoneOn(NoteOn(note, seq))
               ELSE Armed(NoteOn(note, seq))
    /\ stale' = (stale \/ (seq.snapped /\ <<timing, interval>>' # <<timing, interval>>))
    /\ armed' = TRUE
    /\ UNCHANGED <<working, fresh>>

BypassBlock ==
    /\ ReadSnapshot
    /\ \E play \in BOOLEAN, size \in BlockSizes :
        /\ ~play \/ slices' = <<>>
        /\ HostBlock(play, size, FALSE)
    /\ \E note \in Notes \cup {NoNote} :
        seq' = [NoteOn(note, seq) EXCEPT !.voice = ClearPick(@)]
    /\ stale' = (stale \/ seq.snapped)
    /\ armed' = FALSE
    /\ UNCHANGED <<working, fresh>>

(* The UI thread publishes an edit of the working grid, and that is all it *)
(* does.  Blocks read the published state when they begin, so an edit      *)
(* between blocks stands for one at any moment.                            *)
Edit ==
    /\ left = 0
    /\ working' \in Patterns \ {working}
    /\ fresh' = TRUE
    /\ UNCHANGED <<hostVars, armed, blockVars, seq, stale>>

Next == BeginBlock \/ BypassBlock \/ Sample \/ Edit
Spec == Init /\ [][Next]_vars

-----------------------------------------------------------------------------
(* An edit of the working grid is heard with the first sample after it     *)
(* ("with immutable snapshots, an applied recall must not shadow them",    *)
(* Scheduler.h:140-144, which expects the shell to ask for the release of  *)
(* the recall).  The program does not keep it: nothing asks.               *)
EditsNotShadowed == left > 0 /\ fresh => Effective(seq) = working

(* The playing pattern is not the one the last sample was walked on.       *)
Regridded == fresh /\ seq.recalled = NoNote

(* A recall with Set Interval timing lands on the interval grid, to the    *)
(* sample ("Pattern switching (MIDI recall) defers to Set Interval / End   *)
(* of Pattern boundaries", Scheduler.h:42-44), when since the boundary was *)
(* computed the transport has not stopped and the settings have not        *)
(* changed, however many further notes were received meanwhile             *)
(* (Scheduler.cpp:871-889).                                                *)
UndisturbedRecallOnGrid ==
    [][Fires /\ timing = "setInterval" /\ ~stale =>
           ppq % interval < PpqPerSample]_vars

(* A recall with End of Pattern timing waits for "a genuine wrap of the    *)
(* CURRENTLY playing pattern, not just 'step index happens to be 0'"       *)
(* (Scheduler.cpp:892-894): it comes with the sample that enters step 0.   *)
(* Stated of patterns of more than one column, whose index can wrap, and   *)
(* of a pattern the last sample was walked on already: the code compares   *)
(* the last step of an edited pattern with the columns of the new one.     *)
WrapIsGenuine ==
    [][Fires /\ timing = "endOfPattern" /\ ~Regridded =>
         LET p == Effective(seq)
         IN  Columns(p) > 1 =>
               ppq % (p.step * Columns(p)) < PpqPerSample]_vars

(* A recall is heard on its very sample: the step the playhead is inside   *)
(* is triggered from the new grid (Scheduler.cpp:645-648).                 *)
RecallHeardAtOnce ==
    [][left' < left /\ seq'.recalled # seq.recalled =>
         LET p    == Bank[seq'.recalled]
             cell == p.cells[StepIndex(ppq, p) + 1]
         IN  Filled(cell) =>
               /\ seq'.voice.slice = slices[cell.row]
               /\ seq'.voice.style = cell.style
               /\ seq'.voice.since <= PpqPerSample]_vars

(* A pick, retriggered or not, ends with the window of its step: the last  *)
(* retrigger is shortened to what remains (Scheduler.cpp:957-960).         *)
PickEndsWithWindow ==
    armed /\ ~Finished(seq.voice) =>
        seq.windowAge - seq.voice.since + seq.voice.len <= seq.window

(* "Restart the SAME pick" (Scheduler.cpp:962): a retrigger starts from    *)
(* the slice the pick was committed with, while its row is beyond the list *)
(* of some blocks and inside that of others.  Only a trim that moved at    *)
(* the left under the pick may make it another slice.                      *)
RetriggerKeepsSlice ==
    armed /\ seq.voice.active /\ ~seq.shifted =>
        seq.voice.head = seq.voice.slice

(* An armed mode belongs to a playing transport, and only an armed one     *)
(* walks samples. *)
WalkInv ==
    /\ armed => playing
    /\ left > 0 => armed

(* What makes UndisturbedRecallOnGrid inductive: an undisturbed boundary   *)
(* is a grid point of the interval in force, and the playhead has at most  *)
(* just reached it.                                                        *)
SwitchInv ==
    seq.snapped =>
        /\ seq.pending # NoNote
        /\ ~stale => /\ armed
                     /\ timing = "setInterval"
                     /\ seq.boundary % interval = 0
                     /\ ppq < seq.boundary + PpqPerSample

(* What makes WrapIsGenuine inductive: the step tracker holds the step of  *)
(* the last sample, in the pattern that sample was walked on.              *)
WrapInv ==
    armed /\ ~Regridded /\ seq.last # NoStep =>
        seq.last = StepIndex(ppq - PpqPerSample, Effective(seq))

(* What makes RetriggerKeepsSlice inductive: the schedule's row is that of *)
(* the pick, and means the pick's slice in the list of a block.            *)
PicksItsSlice(s, list) ==
    /\ s.subActive => s.subRow = s.row
    /\ ~s.shifted =>
          /\ s.voice.active => s.voice.head = s.voice.slice
          /\ s.row \in DOMAIN list => list[s.row] = s.voice.slice

(* What PickEndsWithWindow says of a runtime.                              *)
FitsWindow(s) ==
    ~Finished(s.voice) => s.windowAge - s.voice.since + s.voice.len <= s.window

=============================================================================
