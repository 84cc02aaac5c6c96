# A verification project for NeditVST

NeditVST is a sample-slicing VST3 plug-in.  It loads a sample, cuts it into
slices at its transients, and plays one slice at a time, chosen and timed by one
of five *trigger modes*.  What is intricate about it is not the signal it
computes but when a pick starts, what it plays, when it ends, and which of the
many published, deferred and cached values it uses at that moment; and, on the
other side, a document that a mouse, a host and a stream of bytes all write.  This
directory holds TLA+ models of that part of the program, TLC configurations that
check them on small instances, and proofs checked by TLAPS.

Paths below are relative to the repository (`src/` is its source directory:
`engine/Scheduler.cpp` is `src/src/engine/Scheduler.cpp` in PROJECT.json).

## 1. Inventory

### Threads and shared state

Two threads matter.  The *UI thread* owns `uiState_`, edits it, and publishes
immutable snapshots (`SnapshotProvider::publish`, an atomic shared pointer).
The *audio thread* runs `NeditProcessor::process` once per block: it acquires the
snapshot, then the sample slot (`SampleManager`, a second atomic pointer), routes
the host's events, and calls `VoiceScheduler::process`.  Besides the two pointers
there are a few plain atomics: the three of a slice audition, the auto-stop flag,
and `workingPatternReleaseRequested_`, which nothing in the plug-in sets.  The
editor, its idle timer and the host's
calls for the state and the parameters run on the UI thread, one after the other;
what interleaves there are whole callbacks, and views that are brought up to date
only by the timer.

### Components

| component | state it keeps | operations | what makes it correct, what is hard |
|---|---|---|---|
| `VoiceScheduler`, common part | `armedMode_`, one `PickRenderer` | `process`, `stopAndDisarm`, dispatch to a mode | a mode arms when it is entered or the transport starts; nothing of an earlier pass survives |
| Slice Length mode | end of the reset window, the chained pick | reset, chain, bail | no gap, nothing plays across a reset; picks that are over before they begin |
| Clock mode | window end, next tick, the drawn combination | open window, tick | one draw per window, ticks keep pace with the playhead, one slice per window |
| Sequenced mode | last step, recalled grid, pending note and boundary, subdivide schedule | step, retrigger, recall, release (which only a test asks for) | a recall sounds at once and on its boundary; edits are not shadowed (they are, section 5); retriggers stay in their step |
| Performance mode | pending note and boundary, frozen snapshot | recall, defer, rechain | recalls land on the grid; frozen material is immune to later bank edits; a one-shot plays once |
| Control mode | pending note-on, sounding note, active style | note-on, note-off, keyswitch | gate holds, last note wins, a fade never starts over |
| `PickRenderer` | the one monophonic voice | start, retrigger, clear, gate release, render a sample | four ways a pick ends, all of which the schedulers look at |
| `NeditProcessor`, sample document | `uiState_.sample`, slice weights, the grid's dimensions | load, trim, markers, exclusions, detection settings, paint | weights, grid and slices are parallel lists kept in three places and published at different moments |
| `WaveformView` | drag mode, grabbed marker, the paint of the last press | press, move, release, cancel, double click, wheel | the first press of a double click is also an edit; a drag meets slices and markers that its own edits move |
| `SliceBuilder`, `TransientDetector` | none | build, filter, clip, snap | slices tile the trim and keep the user's markers |
| `NeditProcessor`, audition | toggle in the state, slice-audition atomics, two cursors, auto-stop flag | toggle, press and release, render, fold | separate atomics, cursors left inside an older span, a bypassed scheduler |
| `SampleManager` | the slot | load, rebuild slices | one store per operation; the state that belongs to it is published later |
| `SpscCommandQueue` | ring and two cursors | push, pop | wrap-around, stale cursor of the other side |
| Sequencer grid: `SequencerState`, its setters, `SequencerGridView` | cells, overrides, extensions; gesture flags, open slider, open menu | paint, erase, extend, override, resize, clear | one cell per column, sparse data only at filled cells, through interrupted and overlapping gestures |
| `SequenceRandomizer` | none | dimensions, resize, fill | no bar is covered by another, none is cut short |
| Grid viewport (`SequencerGridGeometry.h`) | zoom and origin of two axes, a grabbed knob | wheel, pan, scrollbars, hit tests | what is drawn under a pixel is what a press there edits |
| `PluginState` and serialization | the document; the byte stream, the JSON | read by version, write, sanitize | old and truncated streams; two lists of some seventy fields that must agree |
| `ParameterSurface`, tabs, ribbon, menus | the host's parameter objects, the shown tab | host writes, controls, idle sync | one choice (mode, tab, sub-mode) in three fields, written from four places; hosts that write old values again |
| `GranularStretcher` | grain pool | start, next frame | signal processing |
| Tempo, Fold, Easing; `dsp/` | none, filter state | formulas | numeric; no control |
| Rest of the editor and of the geometry | layout, refresh latches | drawing, file dialog | mostly wiring to the widget library |

They interact as follows.  A gesture or a control of the editor calls a setter of
`NeditProcessor`, which changes `uiState_`, possibly rebuilds the slices (the slot
is stored), and publishes.  The host writes parameters through
`setParamNormalized`, which converts them with `ParameterSurface`, and saves and
restores the document through `getState` and `setState`.  A block reads state and
slot, clips the slices to the trim, and decides between slice audition, audition
and scheduler.  MIDI events are routed before the first sample of the block.  The
scheduler walks the block sample by sample: the mode decides, the renderer renders.

PROJECT.json lists every component with its sources under `components`, and
every hazard with its line under `hazards`.

## 2. Modules

```
Host -- PickRenderer -+- PickRenderer_proofs (used by the modes' proofs)
                      +- SliceLengthMode -- MCSliceLength, SliceLengthMode_proofs
                      +- ClockMode -- MCClock, ClockMode_proofs
                      +- SequencedMode -- MCSequenced, SequencedMode_proofs
                      +- PerformanceMode -- MCPerformance, PerformanceMode_proofs
                      +- ControlMode -- MCControl, ControlMode_proofs
ProcessBlock --------------------------+- MCProcess
CommandFifo <- (implements) - CommandQueue +
SequencerState -- SequencerGrid --+- MCGrid
GridViewport ---------------------+
SliceBuilder -- SampleEditing -- WaveformGestures -- MCSample
SharedState_proofs: ProcessBlock, CommandQueue, SequencerGrid
EditorViews_proofs: WaveformGestures, GridViewport
PluginState -+- StateFormat -- JsonFormat -+- Session -- MCSession
             +- ParameterSurface ----------+
```

**Host** is the timeline.  Musical time is an integer number of ticks; a sample
lasts `PpqPerSample` ticks, so that boundaries also fall between two samples.
`HostBlock` starts a block, `HostSample` consumes a sample.  `Relocates` says
whether the host may jump (loop or seek) while it plays.  Tempo is constant.

**PickRenderer** is the voice as a record with the operations of the class as
operators.  Styles that end alike are one style; playback rate is one.  What is
kept is everything `finished()` and the release fade depend on.

**The five mode modules** have one action per branch of the mode's sample loop,
plus `BeginBlock` (the arming branch, the snapshot the block reads and the MIDI
routed to it) and `BypassBlock` (`stopAndDisarm`).  A weighted draw is a choice
among the entries with a positive weight.  The scheduler's members keep their
names without the underscore or are explained where they are declared.

Some of their variables and fields are history: no action reads them, and the
properties use them to name, as narrowly as possible, the one case the code gets
wrong (section 5), instead of keeping it out of the environment.  `shifted` (Clock,
Sequenced): since the draw, or the start of the pick, a block's list had another
slice at the index that was drawn, or in the pick's row (itself history: `index`
of `drawn`, and `row`, so that no slip in the code's own index can hide).  `stale`
and `fresh` (Sequenced): the switch boundary was computed under other
circumstances, the working grid was edited since the last sample.  `abandoned`
(Slice Length): a block was given up in the middle of a pick.  `user` (Control):
what the player did; its `lapsed` is a release that came before the pick began or
while gate mode was off, its `mute` the keys whose last press found no slice.

**SequencedMode** has no release of an applied recall: nothing in the plug-in asks
for it, and `Edit` is what the setters of the grid do, a publish.

**ProcessBlock** interleaves the UI thread, the audio thread and the idle timer
over the auditions.  `ui_pc` and `pc` stand between the loads and stores that
can be interleaved: the three stores of `startSliceAudition`, the three loads of
the gate, the exchange and the fold of the auto-stop.  A cursor is a place: a frame
and a part of the way to the next one, `Unit` parts to a frame.  It moves by the
sample's rate over the host's, any rate of `Rates`, and where it lies between two
frames both are heard (`FramesRead`, `FramesBlended`), clamped to the sample as in
the code.  The scheduler is reduced to the transport start it armed in.
**MCProcess** runs this module and the command queue in one instance: they share
no state, so a behaviour follows one (`followed`) and leaves the other alone.

**SliceBuilder** holds the slice algorithm as operators: detection with its
holdoff, exclusion with tolerance, quantization, merging, the two ghost rules,
and the clip to the trim.  A sound is data of the instance: the frames above the
threshold of each sensitivity and the silent frames.  **SampleEditing** is the
document around it.  Every edit that rebuilds takes two steps, the store of the
slot and the publish (`Finish`); a block takes two as well, `Acquire` (the state)
and `Clip` (the slot), with up to `MaxMeanwhile` UI steps in between.  A marker
that snaps goes to the loudest frame near it, the loudness of a frame being the
number of sensitivities at which it is detected; among equals any may be the one.

**WaveformGestures** puts the mouse in front of it: one action per branch of
`onMouseDown`, `onMouseMoved`, `onMouseUp` and `onMouseCancel`, in the order in
which the code tries them (trim handle, double click, marker, slice).  A pointer
position is the frame under it.  A behaviour follows either the mouse or the
blocks of the audio thread (`followed`), not both: no gesture reads anything a
block writes, so nothing is lost for the properties here.  In the behaviours that
follow the blocks the edits come in any order, which includes every order the
mouse can bring about.  `clicked` is history: the last press that a double click
may follow, and the weights before it.  Between the two presses of a double click
come only moves over the same slice and the release.

**CommandFifo** is what the command queue promises: a bounded first-in first-out
queue whose calls take one step.  **CommandQueue** is `SpscCommandQueue`: each
call is split where the other thread may run (the load of the cursors, the copy
of the slot, which has a beginning and an end, the store of the own cursor), and
the cursors wrap at `Modulus`.  Its refinement mapping takes the commands between
the cursors, counted from the moment the producer stores `tail_`.  Atomics are
sequentially consistent in the model.  In the plugin only tests use the queue.

**SequencerState** holds the working pattern, its setters, resizing and the
randomizer as operators, over a pattern that keeps only its filled cells.  The
randomizer's weighted choices of slice, style and parameter values are
nondeterministic.  Its passes (up to `kMaxPasses` = 4096, ending with the first that
places nothing) are a sequence of placements, each in the best free span of its
row: a row may come again in any later pass, any attempt may lose its density
roll.  **SequencerGrid** is the state machine of `SequencerGridView`: its gesture flags are independent, as
in the code, so a second button may begin a second gesture, and buttons of the
editor or a reslicing of the sample may change the pattern under a drag.  Its
properties about the bars compare what is drawn (`DrawnEnd`) with the pick
`startSequencedPick` commits (`PlayedSteps`), which is given the list clipped to a
trim (`Clipped`), has no row for a cell beyond that list (`RowsHeard`), and holds
scratch for one cycle of its rate.  The trim is no state: an edit of it rebuilds
nothing, so every trim of `TrimSpans` is asked about in every state.

**GridViewport** is the zoomed and scrolled view in whole numbers: an origin is a
fraction of what can be scrolled and is rounded where the code narrows it to a
float.  **MCGrid** runs it with the cells in one instance; a behaviour follows one
half of the view (`followed`), since they share nothing but the dimensions, and
those change at any time in either.

**PluginState** is the document as one record over the fields of the eight
states, with the values of a new instance, the ranges of `sanitize()` and the
mapping between mode and tab.  **StateFormat** is the versioned chunk word by
word: magic, version, sections with tag and size, a bounded and failing reader.
**JsonFormat** is the document as JSON, object by object; only tests use it.
**ParameterSurface** converts between fields and the host's normalized values.
**Session** is the life of a document over these four: host writes, tabs, ribbon,
tempo switch, sliders, bands, menus, trims, loads, the idle timer, `setState` and
a save and reopening.  Two of its variables are ghosts.  `sound` is FALSE after
the host handed over a chunk that ends before the section with the tab: such a
chunk is accepted, and mode and tab disagree until the next choice of either
(section 5).  `restored` names the chunk the document was read from, for
`ReadWholeSections`.

Definitions called "a slip" in a comment, and others next to a definition with a
similar name, are plausible mistakes in that definition.  No specification uses
them: PROJECT.json (`mutants`) names, for every property, the one that must
break it, which shows that the property does depend on the code.

## 3. Runs

| run | distinct states | what it asks |
|---|---|---|
| `clock` | 829 576 | do ticks keep pace, is there one draw per window, does the window keep its slice |
| `slice_length` | 1 050 317 | does every pick last as long as declared, is anything played across a reset, are cuts anticipated by the declared length, is a window held to its end |
| `sequenced` | 543 496 | does a recall sound at once and on its boundary, is a wrap a real one, do retriggers keep slice and window |
| `performance` | 891 557 | do recalls land on the grid, is frozen material undisturbed, is a one-shot heard once |
| `control` | 92 572 | does the gate hold, does a fade start over, is a note played in the style selected before it |
| `process` | 1 145 696 | does an audition stay inside its span, is a press heard with its own bounds, does the auto-stop reach the state; does the ring implement the FIFO, is a slot written while it is read |
| `sample` | 1 443 227 | do slices tile their trim, are markers and exclusions kept, does paint survive a rebuild, does a double click take back its own paint |
| `grid` | 365 235 | is the pattern monophonic with data only at notes, does a drag keep its role, is a drawn bar what is heard, are random bars whole; does a pixel hit the cell drawn under it, does a zoom keep the point under the pointer |
| `session` | 63 348 | do mode, sub-mode and tab agree, may the host write its values again, does a document survive saving and JSON, is a chunk read by whole sections |
| `sample_torn`, `sequenced_shadowed`, `grid_trimmed` | until the violation | section 5 |

Each passing run explores all its states in about three minutes at most (two
workers, coverage on).

### Bounds, and why they suffice

* `PpqPerSample = 2` with odd and even boundaries: every boundary is met both on
  a sample and between two.  Blocks of 1 and 3 samples (3 for `sequenced`; 1 for
  `process`): a boundary is the first, an inner and the last sample of a block.
  A block of one sample lets a UI step or a note come between any two samples.
* `LastPpq` ends the timeline after at least two windows of every grid in use,
  from entries before, on and after a boundary (and before position zero), so
  every window-to-window transition occurs, with a changed setting in between.
* Slices are shorter than, as long as, and longer than a window or a step; in
  `slice_length` one lasts a single frame.  The slice lists of a block include the
  empty list (which disarms) and, in `clock` and `sequenced`, lists that lose
  their right end or their left end, so that a kept index may be beyond the list,
  back inside it, or name another slice.
* `sequenced`: patterns of two and three columns with empty columns, extensions
  and subdivisions that do not divide their step; a bank with a pattern and an
  empty slot; all three timings.
* `performance`: two keys, one of which may have the focus; four states between
  which the bank slot is rewritten, emptied, the focus moved, the interval
  changed.
* `control`: two keys, the second of which may lose its slice; blocks of one
  sample with up to two events (`MaxEvents`; the theorems hold for any number),
  which may press and release one key; gate mode may change with every block.
* `process`: a sample of three frames, blocks of one sample, a rate of one and a
  half (every other place is between two frames; the theorem holds for every
  rate), overlapping spans of
  which none contains the other, two presses: enough for a cursor outside a new
  span on both sides and for bounds of one press with the flag of the other.
  For the queue four slots and cursors of three bits: both cursors wrap, and full
  and empty have the same slots.
* `sample`: a sound of eight frames with a sliver before its first onset and a
  silent tail, and one of three frames without onsets at one sensitivity; one
  manual point and, while the blocks are followed, one excluded point at a time;
  trim handles at both ends and one inner frame; a row limit of 2, which is
  passed.  Two UI steps between a block's acquires are a whole edit, or the halves
  of two.  The pointer visits three frames (near the start, in the middle, at the
  end) at one zoom, at which handles and markers are hit from one frame away, so
  that a position can be on a handle, a marker, an onset, a slice or nothing.
* `grid`: two slices of different length, of which a reslicing may leave one,
  bars of three ticks, one or two of them in a pattern, and steps of two or three,
  which make grids of one to three columns; two styles, one of them scratch, whose
  parameters have all kinds of menu entries (`option` is a parameter with options
  and also the mode of the swept one); trims that cut nothing, a row, or a part of
  either row; at most one cell that carries overrides or an extension
  (`MaxData`), and one button down at a time (`MaxGestures`), with the slider, the
  menu, the editor's buttons and reslicings besides.  The theorems about the grid
  hold for any number of either, and for all trims.  For the view: grids that
  fit it, one that does not, and one without rows; zooms from a quarter to four,
  wheel notches of two; three pixels on either axis, one of them on a scrollbar.
* `session`: `Unit` 12 for the fractions, with ranges that are not divisors of
  it, so that conversions round; two edits between two restores; two host values,
  the sliders, bands and menus named in the configuration; a saved document in
  which no field is at its default and fields of one range differ (a swap of two
  shows), as a chunk of every version and every beginning of the chunk of the
  current one with a section behind it that a later build might append.

The runs of the four modes that follow the transport keep the host from jumping
(`Relocates` FALSE); which properties need that is said below, and what the modes
do under a host that jumps in section 5.

### Fairness

Only `ProcessBlock` assumes any (in `MCProcess`, where that half is followed);
all other properties are safety. The handlers the UI thread has begun are
finished (weak fairness of the steps inside one), and the idle timer fires again
and again while the editor is open (strong fairness of `PollAuditionAutoStop`:
the timer's message is only taken between handlers, so it is not enabled all the
time). Nothing is assumed of the user, the host or the audio thread.

## 4. Proofs

Eight modules hold proofs.  They state, for every value of the constants, each
safety property of every passing run but `session`, the action properties among
them: 34 of the 39 properties.  A proof module is kept beside the modes one by one;
`SharedState_proofs` has the state that the editor's thread owns or shares with
the audio thread (auditions, queue, grid), `EditorViews_proofs` the two views and
the sample's document behind one of them.

| module | theorem | states | environment assumed |
|---|---|---|---|
| `SliceLengthMode_proofs` | `SliceTypes`, `SliceCuts`, `SliceWindows` | `TypeOK`, `CutsAreAnticipated`, `WindowHeldToItsEnd` | none |
| | `SliceResets`, `SliceLasts` | `NoPickAcrossReset`, `PicksLastAsDeclared` | no relocation |
| `ClockMode_proofs` | `ClockTypes`, `ClockSameSlice` | `TypeOK`, `SameSliceInWindow` | none |
| | `ClockTicks`, `ClockDraws` | `EveryTickRetriggers`, `OneDrawPerWindow` | no relocation |
| `SequencedMode_proofs` | `SequencedTypes`, `SequencedWindows`, `SequencedRetriggers`, `SequencedRecallHeard` | `TypeOK`, `PickEndsWithWindow`, `RetriggerKeepsSlice`, `RecallHeardAtOnce` | none |
| | `SequencedRecallOnGrid`, `SequencedWraps` | `UndisturbedRecallOnGrid`, `WrapIsGenuine` | no relocation |
| `PerformanceMode_proofs` | `PerformanceTypes`, `PerformanceOneShot`, `PerformanceFrozenKept` | `TypeOK`, `OneShotPlaysOnce`, `FrozenUndisturbed` | none |
| | `PerformanceRecallOnGrid` | `UndisturbedRecallOnGrid` | no relocation |
| `ControlMode_proofs` | `ControlTypes`, `GateKept`, `FadesOnce`, `SelectedStyle` | `TypeOK`, `GateHolds`, `FadeNeverRestarts`, `StyleAsSelected` | none |
| `SharedState_proofs` | `ProcessTypes`, `HeardInside`, `PressHeard` | `ProcessTypeOK`, `HeardInsideSpan`, `PressHeardWhole` | none |
| | `QueueRaceFree`, `QueueImplementsFifo` | `RaceFree`, `ImplementsFifo` | none |
| | `GridTypes`, `GridConsistent`, `GridDrags`, `GridBarsHeard`, `GridRandomized` | `TypeOK`, `PatternConsistent`, `DragKeepsRole`, `DrawnBarIsHeard`, `RandomizedBarsWhole` | none |
| `EditorViews_proofs` | `SampleTypes`, `SlicesTile`, `MarkersBound`, `ExclusionsHold`, `NarrowedTrims` | `TypeOK`, `SlicesTileTheirTrim`, `ManualPointsAreBoundaries`, `ExcludedStayOut`, `NarrowedTrimPlayable` | none |
| | `PaintKept`, `DoubleClickRestores` | `PaintSurvives`, `DoubleClickKeepsPaint` | none |
| | `ViewportTypes`, `PixelsHit`, `ZoomAnchored` | `ViewportTypeOK`, `PixelHitsDrawnCell`, `ZoomKeepsPointInPlace` | none |

The type invariants are proved (the queue's as a part of its `IInv`) and take no
place among the properties of the runs.  `PickRenderer_proofs` has only lemmas.

One hypothesis restricts the environment and nothing else: *no relocation*
(`~Relocates`) is a host that plays on without a loop or a seek; section 5 says
what the modes do under one that does.  Everything else the code gets wrong is
exempted in the statement of the property itself, by the histories of section 2.

### The schedulers

The theorems hold for every sample length, block size, set of windows,
subdivisions, patterns, banks, styles, slices and slice lists that satisfies the
named ASSUMEs of `Host`, `PickRenderer` and the mode's module.  The only
assumption with content is that a subdivision and a reset window are at least a
sample long; the code relies on it too, since its loops meet at most one boundary
per sample.

`PickRenderer_proofs` has what the modes share: the types of the timeline and the
voice; what a rendered sample leaves alone; and the arithmetic of `NextBoundary`
(it is ahead by at most a grid step, it lies on the grid, and it is the same for
every position since the grid point before) and of the division that turns a
position into a step.

Clock mode:

* `EveryTickRetriggers` is not inductive: a tick's distance is bounded by the
  window's end.  `TickClockInv` adds that an armed clock belongs to a playing
  transport, that samples are only walked by an armed clock, and that the drawn
  window ends no further ahead than its length.  The lemma `TickPosition` has the
  arithmetic of one tick.
* `OneDrawPerWindow` needs besides it `WindowInv`: the next tick never lies beyond
  the window's end, which is the boundary after the draw.
* `SameSliceInWindow` needs `ComboInv`: the combination in force is the one that
  was drawn, and as long as no block had another slice at its index, the index
  means the drawn slice in the list at hand.

Slice Length mode:

* `CutsAreAnticipated` is inductive by itself; it survives jumps of the host and
  changes of the bar setting.  `WindowHeldToItsEnd` needs only the types.
* `PicksLastAsDeclared` says that what ends a pick (the end of its span, its
  tape-stop duration, its length, the reset) agrees, in every style, with the length
  it was declared to last and its fade is timed by.  `LastInv` (`OnSchedule`) carries
  it: an active pick has run since it was drawn, keeps the length it was drawn with,
  is shorter than its span only because of the reset, and was sounding one sample
  ago.  The exception, `abandoned`, is a pick left in the middle by the bail-out,
  which finds a later block.
* `NoPickAcrossReset` speaks of the grid point after the pick's start, the code
  compares with the window's end; `ResetInv` says that they are the same, because
  the playhead is past the grid point before the window's end when the pick starts.

Sequenced mode, whose sample loop is a composition of operators on one runtime
record; each proof has a lemma per operator:

* `PickEndsWithWindow`: `FitsWindow`, of a runtime, is carried through a retrigger
  (whose length is cut to what is left), a step and a rendered sample.
* `RetriggerKeepsSlice`: `PicksItsSlice` says that the row of the subdivide schedule
  is the pick's, and means the pick's slice in the list at hand, if that has the
  row, as long as no block since the pick had another slice there (`shifted`).
* `UndisturbedRecallOnGrid`: `SwitchInv`, a boundary that was not disturbed is a
  point of the interval in force, and the playhead has at most just reached it;
  `WalkInv` connects arming, the transport and the samples left.
* `WrapIsGenuine`: `WrapInv`, the step tracker holds the step of the sample before
  in the pattern that sample was walked on.  The statement excludes patterns of one
  column and samples on which the pattern has just been exchanged by an edit
  (`Regridded`), because the code does fire without a wrap there (section 5); the
  attempt to prove it without the exception is how that case was found.

Performance mode:

* `OneShotPlaysOnce` is shown with what a recall decides (`SameRecall`,
  `NewRecall`): a pattern is either left as it was or asked for anew, and what is
  asked for is populated.
* `FrozenUndisturbed` needs `FrozenInv`: what was recalled from the bank is a
  populated slot, and once picked up it is what sounds.
* `UndisturbedRecallOnGrid` needs `BoundaryInv`: a boundary belongs to a note that
  waits; unless it is stale it is a grid point the walking transport has not passed
  by a whole sample.  A stopped block fires what waits on its first sample.

Control mode, whose batch of events is a recursive function of the number of
events: what one event keeps is a lemma, and an induction over the events of the
block (`UpTo`) carries it to the block's first sample.

* `StyleAsSelected`: `CInv`, a note that waits for its sample is the newest one, in
  the style that was selected before it (`Follows`).
* `GateHolds`: `GateInv` (`Gated`) says of the pick that sounds and of the note that
  waits that its key is down unless its release lapsed.  A note-off only looks at
  the sounding key, so a release before the first sample of its note is lost: that
  event is where `lapsed` is set, and nothing but it and a release outside gate
  mode is exempted.
* `FadeNeverRestarts`: `FadeInv` says that the key of a pick that is fading is up,
  unless a new note waits for its sample or that key was last pressed without a
  slice (`Fading`), so that a second note-off can name it only after a second press,
  which takes the voice over.

### The auditions

Proved (`SharedState_proofs`) for every length of the sample and of the block, all
trims and slices, and any number of presses.

* `HeardInsideSpan`: the cursor is a recursive function of the samples of a block
  (`Walk`).  That each place it reads lies in the span is an induction over the
  samples, in the form of the least counterexample (`LeastElement`, from the
  library's well-founded induction).  The frame that is blended in is the one after
  a place of the span, hence of the span or the one at its end; the clamp to the
  sample keeps both.
* `PressHeardWhole`: `PressInv`.  `StoredInOrder` says what the atomics hold between
  the three stores of a press: the bounds are those of the press whose flag is
  stored, as long as that press is the newest, and while one is being stored the
  flag is an older one's.  `SeenInOrder` says what the block may have seen between
  its three loads: never a flag newer than the stored one, and with the newest flag
  that press's start, where the cursor is unless the block before played a slice.

### The command queue

Its theorems (`SharedState_proofs`) assume `QueueAssumption`: a capacity that divides the
modulus of the cursors and is smaller than it (in the code both are powers of
two).  Neither theorem depends on how many commands there are.

* `QueueRaceFree`: the invariant `IInv` says what the two loaded cursors may be
  worth: `tail - head` in the cursors' width lies between 0 and the capacity, the
  producer's `head_` may be old, which only makes it refuse too early, and what it
  found free stays free, since only the consumer frees.  The arithmetic of wrapping
  cursors is in lemmas of its own (`UsedAfter`, `SlotAhead`).
* `QueueImplementsFifo`: the refinement of `CommandFifo`.  `StoreTail` maps to
  `Push`, the load that finds the ring full to `RefusePush`, and likewise for
  `Pop`; the rest are stutters.  That a copied command is still the head of the
  queue when it is returned needs `IInv`.

### The step grid

Proved (`SharedState_proofs`) for every set of styles and parameters, slice lists,
resolutions, and bounds, hence also for any number of buttons down at once.

* `GridConsistent`: `PatternConsistent` is inductive once a pattern is known to be a
  record of its five fields (`Good`), which lets replaced fields be told from kept
  ones.  There is a lemma for every operation of the shell.  The one with an
  argument is the randomizer, which writes no data at all besides the bars it
  places, but never checks for two bars in a column: a bar is only placed where
  its span is free, a span holds its own start (`SpanHoldsStart`), so two bars that
  start in one column would overlap (`StartsDiffer`).
* `GridDrags`: a paint that replaces a column's note removes only notes of that
  column and leaves one there; an erase only removes.
* `GridBarsHeard` follows from `Good` and the types alone, for every span of
  `TrimSpans`: where the trim leaves each note a row (`TrimKeeps`), the rows the
  scheduler searches have the same active columns as the grid.  The view looks for the
  least active column to the right of the note, the scheduler counts offsets around
  the pattern's end until it meets one; both are the least element of a set of
  columns (`LeastElement`), and the two sets agree up to the right edge.
* `GridRandomized`: the spans of a run are apart, so the next active column after a
  bar's start, itself the start of a bar, is not inside the bar's span.

### The sample's document and the waveform view

Proved (`EditorViews_proofs`) for all sounds, selections, sensitivities,
tolerances, holdoffs, quantize grids, weights and zooms, and any number of edits,
gestures and UI steps within a block.  The assumptions are named in `SliceBuilder`,
`SampleEditing` and `WaveformGestures`; those with content are that a sound is at
least as long as the minimum gap of the trim handles (section 5) and that there
are finitely many sounds.

The inductive invariant is `EditorInv`:

* `Loaded`: the slot holds what the builder makes of the document `built` that was
  current when it was stored (`slices = SlicesOf(sound, built)`), and both trims
  are proper and inside the sound.
* `Paired`: there are as many weights as slices; an edit under way carries the list
  it found, which is ordered, and the weights of that list.
* `MouseOK`: types of the gesture.  `Restorable`: while a second press may complete
  a double click, the weights are those from before the first press but for one
  slice, which the view remembers with its old weight.  Every action that comes
  between, a paint drag over the same slice included, either keeps this or ends
  the chance of a double click.

The run `sample` was used to check it before it was proved.  The theorems follow:

* The document's edits are alike but for the document they rebuild with, so one
  lemma (`EditsPreserve`) covers them, and one per gesture says which edit it makes.
* The builder's list is a `Chain`: its slices touch, each is longer than nothing, and
  it ends before a silent stretch at most.  `SlicesOfChain` shows it through all
  steps: cutting the trim at an ascending list of starts, joining slivers, dropping
  silent tails.  It also says that every marker inside the trim is a start or the
  end of the chain, and `SlicesOfStarts` where starts come from; this gives
  `SlicesTile`, `MarkersBound` and `ExclusionsHold`.
* An ascending list of a finite set is defined by rank (`Ascending`): the i-th
  element is the one with i elements up to it.  The lemmas on ranks, by
  cardinalities, replace the induction that a sort would need, and the detector is
  a recursive function over frames, of which only its range matters here.
* `NarrowedTrims`: clipping a chain to a piece of its trim covers that piece once
  (`ClippedOnce`).  It holds for the trim of any block, whatever slot it was
  paired with, as long as it lies in the trim the slot was built for.
* `PaintKept`: a slice inside an old one has exactly one old slice over its first
  frame, because the old list is ordered.

### The grid's viewport

Proved (`EditorViews_proofs`) for all views, grids, zooms, origins and pixels.  The
type invariant is inductive, and `PixelsHit` and `ZoomAnchored` follow from it by
arithmetic: the shown zoom is at least the one at which the content fills the view
(`FitFills`), hence a pixel plus the scrolled offset is always inside the content
(`VisibleInside`), and the hit test is the quotient whose remainder the drawn
edges bound.  `ViewportAssumption` demands units fine enough to tell the fit exactly
(the code's quotient is a floating-point number) and a view that is no smaller
than the smallest knob.

### What is model-checked only

* `AutoStopFolded`: liveness under fairness is outside the prover's reach.
* `Session` (`ModeViewsAgree`, `RepushHarmless`, `ReopensAsSaved`,
  `ReadWholeSections`), with the chunk and the JSON: all four are about what is read
  back from a stream, and the readers fold over sequences of words and of fields
  whose meaning depends on what was read before.  What they compute for every
  document would need an induction over data, which the provers do not have.  (An
  induction over numbers can be had from the library, as above.)

## 5. Where the code and its comments disagree

Three disagreements have a run whose expected result is a violation.

* `sample_torn`: a block that acquires the state before an edit publishes and the
  slot after it was stored gives the new slices the old slices' weights, so that a
  muted slice may sound, although NeditProcessor.cpp:1091-1093 says that weights and
  slices stay parallel.
* `sequenced_shadowed`: Scheduler.h:140-144 says that the shell asks for the release
  of an applied recall whenever the sequencer was edited, since the recall "must not
  shadow" the edits.  Nothing in `plugin/` does (the only call is in
  `tests/engine/test_scheduler.cpp`), and an edit after a recall stays unheard.
* `grid_trimmed`: NeditEditor.cpp:2673-2675 computes the bars "so the bars match what
  plays".  They are computed from the whole slice list; the scheduler indexes the
  list clipped to the trim (NeditProcessor.cpp:1095-1098) by the same row.  With a
  trim from the left a row sounds another slice than the one its bar is as long as.
  A second cause is left out of that run: a scratch note is drawn with its declared
  length and held for one cycle of its rate (Scheduler.cpp:776-777).  And a trim that
  cuts a row off lets a note run on past a column whose only note is in that row.
  `DrawnBarIsHeard` states what is true in spite of all three.

The others were met while modelling and have no run.

Schedulers:

* Clock: while the host loops or seeks during playback the mode is not re-armed,
  the absolute next-tick position stays ahead, and ticks fall silent
  (Scheduler.cpp:478 against Scheduler.h:27-28).  A trim from the left shifts the
  slice list under the kept index (484-485, 510).
* Clock and Sequenced: the declared length of a pick started mid-window or
  mid-step is longer than what is left, so the anticipatory fade of
  Scheduler.h:30-31 is not reached (Scheduler.cpp:540, 729-730).
* Sequenced: a stop of the transport keeps `patternIntervalArmed_`, so a pending
  recall fires on an old boundary (873); a left trim between two retriggers restarts
  another slice (962-968); with a pattern of one column every sample counts as a
  wrap, so an End-of-Pattern switch fires in mid-step (892-895).
  The same lines, which speak of a genuine wrap of the pattern that plays now,
  compare a step remembered from the sample before with the columns of the pattern
  of this one.  When an edit changes the working grid between two blocks the two
  may differ: with three columns of two ticks before and two of six after it, the
  remembered step 1 is the last of the new grid while the playhead is still in its
  step 0, and a waiting recall fires there, in mid-step.
* Performance: a recall applied at once does not cancel an older one that waits,
  which then replaces it (1011-1018); a pending recall survives leaving the mode
  (1049-1050).
* Control: a key pressed and released within one block is released before it
  sounds, and its pick plays on in gate mode with its key up (Scheduler.h:57-58
  against Scheduler.cpp:1200); the same holds of a key released while gate mode was
  off.  When the key of a pick that is fading is pressed again after its slice is
  gone, nothing starts (1183-1186), and its second release starts the fade over
  with a jump of the gain (PickRenderer.h:140-144).
  A keyswitch in the block that enters the mode is overwritten by arming (1215).
* Weighted draws: the comparison in `pickWeightedIndex` is `<=`, so a draw of
  exactly zero returns a leading entry of weight zero (100).

Audition:

* NeditProcessor.cpp:1243 wraps a cursor into `[trimStart, trimEnd)`, a comment at
  1100 calls the slice audition a "raw loop of a single slice region"; a place behind
  the last frame of the span is blended with the frame at its end (1249-1263,
  1299-1313), so that the first frame of the next slice is heard a little.
* With the audition on, a stop of the transport never reaches the scheduler; it
  plays on with positions of the earlier pass (NeditProcessor.cpp:1180).  An off
  and on within one block is not seen as an edge.
* When one press of a slice audition ends and another begins within a block,
  bounds of both can be combined (NeditProcessor.h:238-240); a view that is closed
  while the right button is held leaves it on; MIDI note-offs are dropped while
  it is on.

Sample and waveform:

* NeditProcessor.cpp:1086-1088 says that widening the trim reveals hidden slices;
  after an edit made under the narrow trim there are none.
* With Quantize on, the raw onset nearest to a boundary may be another boundary's;
  the boundary stays, and a second double click on it is refused
  (NeditProcessor.cpp:457-459, which says that it cannot be clicked again).
* WaveformView.cpp:546 calls the rebuild of a live marker drag weight-preserving;
  dragged to the left, the slice after the marker starts inside the slice before
  it and takes over that slice's weight, losing its own (NeditProcessor.cpp:909-925).
* `findTrimHandleNear` prefers the start: when both handles are within its radius
  at one place, the end cannot be grabbed without zooming in.  For a sample
  shorter than the minimum gap the trim drags call `std::clamp` with its bounds
  reversed.
* `clampVisibleRange` (745-778): a pan past either end of the sample shrinks the
  visible range instead of stopping.
* A double click whose hand reaches another slice between its presses leaves that
  slice painted; the paint that is taken back names its slice by an index, which
  a load finished in between gives to another sample's slice.
* Loading another file keeps the markers and exclusions of the one before.

Step grid:

* Painting another style over a cell keeps the overrides of the old style; those
  of parameters the new one does not have stay invisible.
* The in-place slider stays open while the grid is cleared or randomized beneath
  it, and then edits another note's cell or none.
* An extension drag that overshoots below zero loses the length it started from:
  the differences of `lastDelta_` are added to a length that was clamped, although
  NeditEditor.cpp:2334 speaks of capturing the cell's base length.  Extensions
  shorter than the slice's own length do nothing (the longer of the two counts).
* A wheel turn while a scrollbar's knob is held leaves the knob's travel stale.
* `sequencerRowFromY` says that a pixel on the edge of two rows belongs to the lower
  one, "same boundary convention as rowFromBottomY" (SequencerGridGeometry.h:305-309).
  `rowFromBottomY` does that (136-145, tests/ui/test_sequencer_geometry.cpp:79), but
  `sequencerRowFromY` truncates `totalRows - v` (318-319), which gives the edge to the
  upper row and makes the topmost edge miss the grid.  The test that compares the two
  (377-379) does so at half a pixel only.  `PixelHitsDrawnCell` takes no side: it allows an edge
  either row, and the topmost edge none.
* Nothing in the plugin writes the pattern bank or the performance bank; they are
  only read and restored.

Document:

* NeditEditor.cpp:5128-5134 says that the host has to learn of a changed mode so
  that it does not later push a stale value; the ribbon's `setGenerateMode`, which
  switches between the two Generate modes, does not tell it (`RepushHarmless` names
  this exception).  A ribbon click that comes before the idle timer has noticed
  that the document left Generate pulls the mode back.
* The latches by which the editor decides which control to refresh (3657-3775)
  compare with the last value they set, so a value that changes and changes back is
  not noticed; `syncStyleProbs` is only called when the tab changes, so small
  sliders do not follow automation, although the comment at 3989-3991 says that
  they converge.
* File dialog: a second click on Load between the end of the thread and the timer's
  tick clears `ready`, and the chosen path is lost (5376-5440).
* `setState` does not load the sample: after a reopening there is no slot (or the
  old sample's), and the first edit that rebuilds wipes weights and grid; loading
  the sample again resets the weights (NeditProcessor.cpp:195).
* Parameter automation is folded into the private copy of one block and is gone
  with the next; document and host do not learn of it (997).
* A stream that ends at the boundary of a section is accepted with defaults for the
  rest; mode and tab may disagree then.  `readUi`'s `if (in.ok())` is meant to make
  the audition flag optional and cannot, since the section's reader checks `ok()`
  afterwards.  Serialization.cpp:447-448 says that older readers skip the newer
  fields harmlessly; they refuse the newer version number.
* Performance trims beyond the end of a shorter sample that was loaded since are
  cut when the document is read again.
* The comment at NeditEditor.cpp:4951 says that a fresh override has a
  `manualBpmOverrideValue` of 0; the default is 120.
* JSON leaves out `auditionEnabled`, never reads `formatVersion`, casts
  enumerations unchecked (`patternSwitchTiming` is not put right by `sanitize`), and
  takes a `workingState` without its flag as populated.

## 6. Not modelled, and the plan

Not modelled, and why:

* One model of all five trigger modes over one voice.  Each module arms and
  disarms as the dispatch does; together they are beyond what TLC can visit in
  minutes.  What a pending recall does across a change of mode is in section 5.
* Parameter automation: no state is left behind by it.
* `GranularStretcher`, `dsp/`, the renderer's interpolation and fades, the analysis
  that computes the onset derivative, `Easing` and `Fold`: signal processing.  What
  the schedulers see of it, the moment a pick ends, is in `PickRenderer`.
* The editor: drawing, layout, the styling and the refresh latches of controls, the
  file dialog, zoom and pan of the waveform (they change the view only; the model
  takes the reach of a handle at any zoom of a set), the geometry of the
  probability bands.
* `setActiveTab` and `setVisibleWindow`, which only tests call.
* WAV decoding, the plugin factory, debug tools and harnesses.

What is worth doing next, in this order:

1. Theorems about the conversions of `ParameterSurface` alone (a field survives the
   way to the host and back), as a first part of `RepushHarmless`.
2. The dispatch between two of the modes at a time.
3. The zoom and pan of the waveform, with `clampVisibleRange`.
