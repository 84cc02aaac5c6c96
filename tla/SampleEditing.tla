---------------------------- MODULE SampleEditing ----------------------------
(***************************************************************************)
(* The sample document between the UI thread and the audio thread: loading *)
(* a sample, moving the trim, painting slice probabilities, adding, moving *)
(* and removing markers, excluding onsets, and the detection settings      *)
(* (NeditProcessor), over the slot SampleManager shares with the audio     *)
(* thread and the state snapshots SnapshotProvider shares.                 *)
(*                                                                         *)
(* A rebuild stores the slot first and publishes the state later; a block  *)
(* acquires the state first and the slot later.                            *)
(***************************************************************************)
EXTENDS SliceBuilder

CONSTANTS
    Sounds,       \* the samples that may be loaded
    Length,       \* a sound's length in frames
    Peaks,        \* Peaks[sound][sensitivity]: frames above the threshold
    Quiet,        \* a sound's silent frames
    Sensitivities,
    MinGap,       \* kMinTrimGapFrames
    Handles,      \* bound: the frames the trim handles are moved to
    Clicks,       \* bound: the frames the user clicks at
    Weights,      \* the slice probabilities the user may paint
    MaxManual,    \* bound: manual points at a time
    MaxExcluded,  \* bound: excluded points
    MaxRows,      \* kMaxSequencerRows
    MaxMeanwhile  \* bound: UI steps between a block's two acquires

NoSound == "none"

ASSUME EditingAssumption ==
    /\ IsFiniteSet(Sounds) /\ NoSound \notin Sounds
    /\ Length \in [Sounds -> Nat] /\ MinGap \in Nat \ {0}
    /\ \A s \in Sounds : Length[s] >= MinGap
    /\ Handles \subseteq Nat /\ Clicks \subseteq Nat
    /\ Weights \subseteq Nat /\ {0, 1} \subseteq Weights
    /\ MaxManual \in Nat /\ MaxExcluded \in Nat /\ MaxRows \in Nat \ {0}
    /\ MaxMeanwhile \in Nat

VARIABLES
    sound,      \* the sound in the slot (its audio and its analysis)
    slices,     \* the slices in the slot
    doc,        \* uiState_.sample
    weights,    \* uiState_.generate.sliceWeights
    rows,       \* uiState_.sequencer.rows (SequencerGrid has the cells)
    published,  \* what the audio thread needs of the published state
    edit,       \* a rebuild between its store and its publish
    block,      \* the state the running block acquired
    built       \* history: the document the slot's slices were built from

vars == <<sound, slices, doc, weights, rows, published, edit, block, built>>

Frames == 0..Max({Length[s] : s \in Sounds})
Edges == Handles \cup {Length[s] : s \in Sounds} \cup {0}
Trims == {t \in [lo : Edges, hi : Edges] : Span(t) >= MinGap}
Selections == {t \in [lo : Frames, hi : Frames] : Span(t) >= MinGap}
NoTrim == [lo |-> 0, hi |-> 0]
Docs == [trim : Selections \cup {NoTrim}, sensitivity : Sensitivities,
         quantize : BOOLEAN,
         manual : UNION {[ids -> Frames] : ids \in SUBSET (1..MaxManual)},
         excluded : SUBSET Frames]

Points(d) == {d.manual[id] : id \in DOMAIN d.manual}

Slices == [lo : Frames, hi : Frames]
NoEdit == [busy |-> FALSE, slices |-> <<>>, weights |-> <<>>]
NoBlock == [in |-> FALSE, trim |-> NoTrim, weights |-> <<>>, of |-> <<>>,
            meanwhile |-> 0]

TypeOK ==
    /\ sound \in Sounds \cup {NoSound}
    /\ slices \in Seq(Slices)
    /\ doc \in Docs /\ built \in Docs
    /\ weights \in Seq(Weights)
    /\ rows \in 0..MaxRows
    /\ published \in [trim : Selections \cup {NoTrim}, weights : Seq(Weights)]
    /\ edit \in [busy : BOOLEAN,
                 slices : Seq(Slices),       \* oldSlices
                 weights : Seq(Weights)]     \* oldWeights
    /\ block \in [in : BOOLEAN, trim : Selections \cup {NoTrim},
                  weights : Seq(Weights),
                  of : Seq(Slices),          \* history: their slices
                  meanwhile : 0..MaxMeanwhile]

Init ==
    /\ sound = NoSound /\ slices = <<>> /\ weights = <<>>
    /\ doc \in {[trim |-> NoTrim, sensitivity |-> v, quantize |-> FALSE,
                 manual |-> <<>>, excluded |-> {}] : v \in Sensitivities}
    /\ built = doc
    /\ rows = 0
    /\ published = [trim |-> NoTrim, weights |-> <<>>]
    /\ edit = NoEdit
    /\ block = NoBlock

-----------------------------------------------------------------------------
Idle == ~edit.busy
Editable == Idle /\ sound # NoSound   \* hasSample()

Publish(d, w) == published' = [trim |-> d.trim, weights |-> w]

\* A step of the UI thread, perhaps between the two acquires of a block.
UIStep ==
    IF block.in
    THEN /\ block.meanwhile < MaxMeanwhile
         /\ block' = [block EXCEPT !.meanwhile = @ + 1]
    ELSE UNCHANGED block

\* resizeSequencerGridForSample, computeSequencerDims
RowsFor(n) == Min({n, MaxRows})

SlicesOf(s, d) ==
    BuildSlices(Peaks[s][d.sensitivity], Quiet[s], Points(d), d.excluded,
                d.quantize, d.trim)

\* The first half of every edit that changes the boundaries: the slot is
\* stored.  The old slices and their weights are kept for the second half.
Store(s, d) ==
    /\ sound' = s
    /\ slices' = SlicesOf(s, d)
    /\ doc' = d /\ built' = d
    /\ UIStep
    /\ UNCHANGED <<weights, rows, published>>

\* requestSampleLoad: the trim is the whole sample; the points, the
\* sensitivity and the quantize setting are those of the sample before.
RequestSampleLoad(s) ==
    /\ Idle
    /\ Store(s, [doc EXCEPT !.trim = [lo |-> 0, hi |-> Length[s]]])
    /\ edit' = [busy |-> TRUE, slices |-> <<>>, weights |-> <<>>]

Rebuild(d) ==
    /\ Store(sound, d)
    /\ edit' = [busy |-> TRUE, slices |-> slices, weights |-> weights]

\* Each new slice inherits the weight of the old slice its start lies in.
RemappedByIndex(old, w, new) ==
    [j \in DOMAIN new |-> IF j \in DOMAIN old /\ j \in DOMAIN w THEN w[j] ELSE 1]
Remapped(old, w, new) ==
    [j \in DOMAIN new |->
        LET parents == {k \in DOMAIN old :
                            old[k].lo <= new[j].lo /\ new[j].lo < old[k].hi}
        IN  IF parents = {} \/ Min(parents) \notin DOMAIN w THEN 1
            ELSE w[Min(parents)]]

\* The second half: the weights are remapped, the grid resized, the state
\* published.
Finish ==
    /\ edit.busy
    /\ weights' = Remapped(edit.slices, edit.weights, slices)
    /\ rows' = RowsFor(Len(slices))
    /\ Publish(doc, weights')
    /\ edit' = NoEdit
    /\ UIStep
    /\ UNCHANGED <<sound, slices, doc, built>>

-----------------------------------------------------------------------------
(* Edits that rebuild.                                                     *)

\* How loud a transient is: at how many sensitivities it is detected.
Loudness(f) == Cardinality({v \in Sensitivities : f \in Peaks[sound][v]})

\* findNearestPeak: the loudest frame within the tolerance and the trim.
LoudestNear(p) ==
    LET near == {q \in doc.trim.lo..(doc.trim.hi - 1) : Apart(p, q) <= Tolerance}
    IN  {q \in near : \A r \in near : Loudness(r) <= Loudness(q)}

\* The frame clamped into the trim, and what it snaps to unless Shift is held.
ResolveManualFrame(f, snap) ==
    LET p == Min({Max({f, doc.trim.lo}), doc.trim.hi - 1})
    IN  IF snap THEN LoudestNear(p) ELSE {p}

AddManualPoint(f, snap) ==
    /\ Editable
    /\ \E id \in 1..MaxManual \ DOMAIN doc.manual, p \in ResolveManualFrame(f, snap) :
          Rebuild([doc EXCEPT !.manual =
                      [i \in DOMAIN @ \cup {id} |-> IF i = id THEN p ELSE @[i]]])

MoveManualPoint(id, f, snap) ==
    /\ Editable
    /\ id \in DOMAIN doc.manual
    /\ \E p \in ResolveManualFrame(f, snap) \ {doc.manual[id]} :
          Rebuild([doc EXCEPT !.manual[id] = p])

RemoveManualPoint(id) ==
    /\ Editable
    /\ id \in DOMAIN doc.manual
    /\ Rebuild([doc EXCEPT !.manual = [i \in DOMAIN @ \ {id} |-> @[i]]])

\* The raw onset nearest to the clicked frame, the earlier one of two.
Nearest(onsets, f) ==
    Min({o \in onsets : \A p \in onsets : Apart(o, f) <= Apart(p, f)})

\* The onsets an exclusion chooses from: never the start of the trim.
Excludable == DetectSlices(Peaks[sound][doc.sensitivity], doc.trim) \ {doc.trim.lo}

ExcludeNearestAutoPoint(f) ==
    /\ Editable
    /\ Excludable # {} /\ ~Excluded(Nearest(Excludable, f), doc.excluded)
    /\ Rebuild([doc EXCEPT !.excluded = @ \cup {Nearest(Excludable, f)}])

\* The boundaries that show and are no manual point (findAutoPointNear).
AutoPoints ==
    {f \in {slices[i].lo : i \in DOMAIN slices} :
        doc.trim.lo < f /\ f < doc.trim.hi /\ f \notin Points(doc)}

SetSensitivity ==
    /\ Editable
    /\ \E v \in Sensitivities : Rebuild([doc EXCEPT !.sensitivity = v])

SetQuantizeTransients ==
    /\ Editable
    /\ \E q \in BOOLEAN : Rebuild([doc EXCEPT !.quantize = q])

-----------------------------------------------------------------------------
(* Edits that publish only.                                                *)

\* Trims are a live selection over the slice list: nothing is rebuilt.
SetTrimFrames(t) ==
    /\ Editable
    /\ t.hi <= Length[sound] /\ t # doc.trim
    /\ doc' = [doc EXCEPT !.trim = t]
    /\ Publish(doc', weights)
    /\ UIStep
    /\ UNCHANGED <<sound, slices, weights, rows, edit, built>>

\* One handle at a time.
OneHandle(t) == t.lo = doc.trim.lo \/ t.hi = doc.trim.hi

\* Only a slice that shows can be painted (getSliceIndexAtX).
Shows(i) == i \in DOMAIN slices /\ Overlaps(slices[i], doc.trim)

SetSliceProbability(i, w) ==
    /\ Editable
    /\ i \in DOMAIN weights /\ weights[i] # w
    /\ weights' = [weights EXCEPT ![i] = w]
    /\ Publish(doc, weights')
    /\ UIStep
    /\ UNCHANGED <<sound, slices, doc, rows, edit, built>>

-----------------------------------------------------------------------------
(* The audio thread: the state is acquired, then the slot is acquired and  *)
(* clipped.  What is clipped is what any state between the two may give.   *)

Acquire ==
    /\ ~block.in
    /\ block' = [in |-> TRUE, trim |-> published.trim,
                 weights |-> published.weights,
                 of |-> IF edit.busy THEN edit.slices ELSE slices,
                 meanwhile |-> 0]
    /\ UNCHANGED <<sound, slices, doc, weights, rows, published, edit, built>>

Clip ==
    /\ block.in
    /\ block' = NoBlock
    /\ UNCHANGED <<sound, slices, doc, weights, rows, published, edit, built>>

Playable == ClipSlicesToTrim(slices, block.trim, block.weights)

-----------------------------------------------------------------------------
Next ==
    \/ \E s \in Sounds : RequestSampleLoad(s)
    \/ \E f \in Clicks, snap \in BOOLEAN : AddManualPoint(f, snap)
    \/ \E id \in DOMAIN doc.manual :
          \/ RemoveManualPoint(id)
          \/ \E f \in Clicks, snap \in BOOLEAN : MoveManualPoint(id, f, snap)
    \/ /\ Cardinality(doc.excluded) < MaxExcluded
       /\ \E f \in AutoPoints : ExcludeNearestAutoPoint(f)
    \/ SetSensitivity \/ SetQuantizeTransients
    \/ Finish
    \/ \E t \in Trims : OneHandle(t) /\ SetTrimFrames(t)
    \/ \E i \in DOMAIN weights, w \in Weights : Shows(i) /\ SetSliceProbability(i, w)
    \/ Acquire \/ Clip

Spec == Init /\ [][Next]_vars

-----------------------------------------------------------------------------
\* Whatever the points, the exclusions, the quantize grid and the two ghost
\* rules did, the slices of a rebuild cover the trim they were built for, one
\* after the other; only a silent tail may be missing (SliceBuilder.cpp:
\* "slices tile the trim").
SlicesTileTheirTrim ==
    sound # NoSound => Tiles(slices, built.trim, Quiet[sound])

\* No rule takes a marker away that the user placed inside the trim: it is a
\* boundary of some slice (filterGhostSlices' guard, SliceBuilder.h:82-84).
ManualPointsAreBoundaries ==
    sound # NoSound =>
        \A m \in Points(built) :
            (built.trim.lo < m /\ m < built.trim.hi) => m \in Boundaries(slices)

\* An excluded onset, and any detected within the tolerance of it, stays out
\* at every sensitivity and trim, unless the trim starts there or the user
\* put a marker there.
ExcludedStayOut ==
    ~built.quantize =>
        \A i \in DOMAIN slices :
            slices[i].lo \in Points(built) \cup {built.trim.lo}
                \/ ~Excluded(slices[i].lo, built.excluded)

\* A painted probability survives a rebuild: a new slice that lies within an
\* old one, the same or a part of it, has the old one's weight
\* (NeditProcessor.h:291-294).
PaintSurvives ==
    [][(edit.busy /\ ~edit'.busy) =>
          \A j \in DOMAIN slices', k \in DOMAIN edit.slices :
              (/\ edit.slices[k].lo <= slices'[j].lo
               /\ slices'[j].hi <= edit.slices[k].hi)
                  => weights'[j] = edit.weights[k]]_vars

CoveredOnce(list, trim, quiet) ==
    \A f \in trim.lo..(trim.hi - 1) :
        LET n == Cardinality({i \in DOMAIN list : list[i].lo <= f /\ f < list[i].hi})
        IN  n = 1 \/ (n = 0 /\ f \in quiet)

\* A trim that was narrowed since the last rebuild is played whole and
\* without overlap, also by a block that acquires its state and the slot on
\* either side of an edit.
NarrowedTrimPlayable ==
    (block.in /\ sound # NoSound /\ built.trim.lo <= block.trim.lo
              /\ block.trim.hi <= built.trim.hi)
        => CoveredOnce(Playable, block.trim, Quiet[sound])

MutedIn(list, w, f) ==
    \E i \in DOMAIN list :
        /\ list[i].lo <= f /\ f < list[i].hi
        /\ i \in DOMAIN w /\ w[i] = 0

\* A frame that is muted before an edit and after it is not playable in a
\* block that runs during the edit: "remap generate.sliceWeights in lockstep
\* [...] so indices stay parallel" (NeditProcessor.cpp:1091-1094).
MutedNotPlayable ==
    (block.in /\ edit.busy) =>
        \A f \in Frames :
            (/\ MutedIn(block.of, block.weights, f)
             /\ MutedIn(slices, Remapped(edit.slices, edit.weights, slices), f))
                => \A i \in DOMAIN Playable :
                        (Playable[i].lo <= f /\ f < Playable[i].hi)
                            => Playable[i].weight = 0
=============================================================================
