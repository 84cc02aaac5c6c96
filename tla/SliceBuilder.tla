---------------------------- MODULE SliceBuilder ----------------------------
(***************************************************************************)
(* engine/SliceBuilder and TransientDetector::detectSlices: how the slices *)
(* of a sample follow from its transients, the trim, and the points the    *)
(* user added or excluded; and clipSlicesToTrim, what a block may play.    *)
(*                                                                         *)
(* A sound is given by its length, the frames at which the derivative      *)
(* passes the threshold of each sensitivity, and its silent frames (an RMS *)
(* below the silence ratio).  A boundary list is a set of frames: sorting  *)
(* and removing duplicates is what makes the list the set's enumeration.   *)
(***************************************************************************)
EXTENDS Integers, SequencesExt

CONSTANTS
    Tolerance,   \* kManualSnapRadiusMs in frames
    SliverMax,   \* kLeadingSliverMaxMs in frames
    HoldoffDiv,  \* the detection holdoff is the trimmed span / HoldoffDiv
    GridDiv      \* the quantize grid is the trimmed span / GridDiv

ASSUME SliceBuilderAssumption ==
    /\ Tolerance \in Nat /\ SliverMax \in Nat
    /\ HoldoffDiv \in Nat \ {0} /\ GridDiv \in Nat \ {0}

Span(t) == t.hi - t.lo
Apart(a, b) == IF a < b THEN b - a ELSE a - b

\* tempo::minimumHoldoffMs: a 32nd note at the tempo the trim implies.
Holdoff(trim) == Span(trim) \div HoldoffDiv

\* detectSlices: the starts it returns.  An onset right at the range start
\* is allowed, and the range start is a boundary whatever is detected.
DetectSlices(peaks, trim) ==
    LET first == Max({1, trim.lo})
        kept[f \in first..(trim.hi - 1)] ==
            /\ f \in peaks
            /\ \A g \in first..(f - 1) : kept[g] => f - g >= Holdoff(trim)
    IN  {trim.lo} \cup {f \in first..(trim.hi - 1) : kept[f]}

Excluded(f, excluded) == \E e \in excluded : Apart(f, e) <= Tolerance

\* tempo::quantizeFrameToGrid, and the clamp into the trim.
Round(num, den) == (2 * num + den) \div (2 * den)
QuantizeFrameToGrid(f, trim) ==
    LET step == Round((f - trim.lo) * GridDiv, Span(trim))
    IN  Min({trim.lo + Round(step * Span(trim), GridDiv), trim.hi - 1})

\* The frames of a set in ascending order.
Ascending(S) ==
    [i \in 1..Cardinality(S) |->
        CHOOSE f \in S : Cardinality({g \in S : g <= f}) = i]

SlicesFrom(starts, end) ==
    LET s == Ascending(starts)
    IN  [i \in DOMAIN s |->
            [lo |-> s[i], hi |-> IF i < Len(s) THEN s[i + 1] ELSE end]]

\* mergeOnsetsIntoSlices: raw onsets are matched against the exclusions, the
\* survivors are quantized, and the manual points are merged as they are.
UnexcludedIgnoringTolerance(autos, excluded, quantize, trim) ==
    LET kept == {f \in autos : f \notin excluded}
    IN  IF quantize THEN {QuantizeFrameToGrid(f, trim) : f \in kept} ELSE kept
AutoOnsets(autos, excluded, quantize, trim) ==
    LET kept == {f \in autos : ~Excluded(f, excluded)}
    IN  IF quantize THEN {QuantizeFrameToGrid(f, trim) : f \in kept} ELSE kept

MergeOnsetsIntoSlices(autos, manual, excluded, quantize, trim) ==
    SlicesFrom({trim.lo}
                 \cup AutoOnsets(autos \ {trim.lo}, excluded, quantize, trim)
                 \cup {m \in manual : trim.lo < m /\ m < trim.hi},
               trim.hi)

\* filterGhostSlices: a leading sliver joins its successor unless a manual
\* point made it, and a silent tail is dropped unless nothing else is left.
PointMadeSliverBefore(manual, trim, end) ==
    \E m \in manual : trim.lo < m /\ m < end
PointMadeSliver(manual, trim, end) == \E m \in manual : trim.lo < m /\ m <= end

HasSliver(slices, manual, trim) ==
    /\ Len(slices) > 1
    /\ Head(slices).hi - Head(slices).lo < SliverMax
    /\ ~PointMadeSliver(manual, trim, Head(slices).hi)

JoinedByDropping(slices, trim) == Tail(slices)
Joined(slices, trim) ==
    <<[lo |-> trim.lo, hi |-> slices[2].hi]>> \o SubSeq(slices, 3, Len(slices))

Silent(s, quiet) == s.lo..(s.hi - 1) \subseteq quiet

FilterGhostSlices(slices, manual, trim, quiet) ==
    LET sliver == HasSliver(slices, manual, trim)
        kept == IF sliver THEN Joined(slices, trim) ELSE slices
    IN  IF Len(kept) > 1 /\ Silent(Last(kept), quiet) /\ ~Silent(trim, quiet)
        THEN Front(kept) ELSE kept

BuildSlices(peaks, quiet, manual, excluded, quantize, trim) ==
    FilterGhostSlices(
        MergeOnsetsIntoSlices(DetectSlices(peaks, trim), manual, excluded,
                              quantize, trim),
        manual, trim, quiet)

\* clipSlicesToTrim: the part of each slice inside the trim, with its weight.
OverlapsOrInside(s, trim) == trim.lo <= s.lo /\ s.hi <= trim.hi
Overlaps(s, trim) == s.hi > trim.lo /\ s.lo < trim.hi

ClipSlicesToTrim(slices, trim, weights) ==
    LET inside == Ascending({i \in DOMAIN slices : Overlaps(slices[i], trim)})
    IN  [j \in DOMAIN inside |->
            LET i == inside[j] IN
            [lo |-> Max({slices[i].lo, trim.lo}),
             hi |-> Min({slices[i].hi, trim.hi}),
             weight |-> IF i \in DOMAIN weights THEN weights[i] ELSE 1]]

-----------------------------------------------------------------------------
\* A reference for what a slice list is: its slices are not empty, they
\* follow each other without a gap from the start of the trim, and what is
\* missing at its end, if anything, is silence.
Tiles(slices, trim, quiet) ==
    /\ slices # <<>> /\ Head(slices).lo = trim.lo
    /\ \A i \in DOMAIN slices : slices[i].lo < slices[i].hi
    /\ \A i \in 1..(Len(slices) - 1) : slices[i].hi = slices[i + 1].lo
    /\ Last(slices).hi <= trim.hi
    /\ Last(slices).hi..(trim.hi - 1) \subseteq quiet

Boundaries(slices) ==
    {slices[i].lo : i \in DOMAIN slices} \cup {slices[i].hi : i \in DOMAIN slices}
=============================================================================
