-------------------------- MODULE WaveformGestures --------------------------
(***************************************************************************)
(* The mouse on the waveform (plugin/WaveformView.cpp): which edit of the  *)
(* sample a press, a move, a release or a double click makes.              *)
(*                                                                         *)
(* A pointer position is the frame under it.  How far away a handle or a   *)
(* marker is hit, in frames, depends on the zoom, which may change between *)
(* any two events.  Panning and zooming change the view only.              *)
(*                                                                         *)
(* In a behaviour either the mouse is followed, or the blocks of the audio *)
(* thread are and edits come in any order, as in SampleEditing.            *)
(***************************************************************************)
EXTENDS SampleEditing

CONSTANTS
    Pointer,    \* bound: the frames the pointer visits
    Zooms       \* how far handles (and snapping), and markers, reach

ASSUME GestureAssumption ==
    /\ Pointer \subseteq Nat
    /\ Zooms \subseteq [handle : Nat, marker : Nat]

VARIABLES
    followed,   \* which of the two is followed: "mouse" or "blocks"
    mouse,      \* the drag of the view, and the paint it may undo
    clicked     \* history: the last press a double click may follow

gestureVars == <<vars, followed, mouse, clicked>>

NoUndo == <<>>
AtRest == [drag |-> "none", marker |-> 0, moved |-> FALSE,
           undo |-> NoUndo,             \* prePaintSliceIdx_, prePaintProb_
           at |-> 0, zoom |-> CHOOSE z \in Zooms : TRUE]
NoClick == [armed |-> FALSE]

GestureInit ==
    /\ Init
    /\ followed \in {"mouse", "blocks"}
    /\ mouse = AtRest /\ clicked = NoClick

Followed == followed = "mouse" /\ Editable
HandlerDone == mouse.drag # "again"

-----------------------------------------------------------------------------
(* Hit tests *)

Closest(points, x) ==
    CHOOSE p \in points : \A q \in points :
        \/ Apart(p, x) < Apart(q, x)
        \/ Apart(p, x) = Apart(q, x) /\ p <= q

\* findTrimHandleNear: the start wins where both are near.
TrimHandleAt(x, z) ==
    IF Apart(x, doc.trim.lo) <= z.handle THEN "trimStart"
    ELSE IF Apart(x, doc.trim.hi) <= z.handle THEN "trimEnd"
    ELSE "none"

Visible(f) == doc.trim.lo < f /\ f < doc.trim.hi

\* findManualPointNear: the ids at the nearest visible marker; empty if none.
ManualPointsAt(x, z) ==
    LET near == {f \in Points(doc) : Visible(f) /\ Apart(x, f) <= z.marker}
    IN  {id \in DOMAIN doc.manual :
            near # {} /\ doc.manual[id] = Closest(near, x)}

\* findAutoPointNear
AutoPointsAt(x, z) ==
    LET near == {f \in AutoPoints : Apart(x, f) <= z.marker}
    IN  IF near = {} THEN {} ELSE {Closest(near, x)}

\* getSliceIndexAtX: a slice outside the trim does not react.
SlicesAt(x) ==
    {i \in DOMAIN slices : /\ slices[i].lo <= x /\ x < slices[i].hi
                           /\ Shows(i)}

\* snapToSliceMarker (Shift held: not)
SnappedTo(x, z) ==
    LET near == {f \in Boundaries(slices) : Apart(x, f) <= z.handle}
    IN  {x} \cup (IF near = {} THEN {} ELSE {Closest(near, x)})

-----------------------------------------------------------------------------
(* The edit an event makes may change nothing. *)

Paint(i, w) ==
    IF i \in DOMAIN weights /\ weights[i] # w
    THEN SetSliceProbability(i, w) ELSE UNCHANGED vars

DragTrim(t) ==
    IF t # doc.trim THEN SetTrimFrames(t) ELSE UNCHANGED vars

DragMarker(id, x, snap) ==
    \/ MoveManualPoint(id, x, snap)
    \/ /\ id \in DOMAIN doc.manual => doc.manual[id] \in ResolveManualFrame(x, snap)
       /\ UNCHANGED vars

-----------------------------------------------------------------------------
(* onMouseDown *)

\* A slip: only a press that paints touches what may be undone.
PressedKeepingUndo(drag, id, undo) ==
    [AtRest EXCEPT !.drag = drag, !.marker = id,
                   !.undo = IF undo = NoUndo THEN mouse.undo ELSE undo]

\* Every press forgets the paint of the one before.
Pressed(drag, id, undo) ==
    [AtRest EXCEPT !.drag = drag, !.marker = id, !.undo = undo]

Click(x, z) == clicked' = [armed |-> TRUE, at |-> x, zoom |-> z, weights |-> weights]

LeftPress ==
    /\ Followed /\ mouse.drag = "none"
    /\ UNCHANGED followed

PressHandle(x, z) ==
    /\ LeftPress
    /\ TrimHandleAt(x, z) # "none"
    /\ mouse' = Pressed(TrimHandleAt(x, z), 0, NoUndo)
    /\ Click(x, z)
    /\ UNCHANGED vars

PressMarker(x, z) ==
    /\ LeftPress
    /\ TrimHandleAt(x, z) = "none"
    /\ \E id \in ManualPointsAt(x, z) : mouse' = Pressed("marker", id, NoUndo)
    /\ Click(x, z)
    /\ UNCHANGED vars

PressSlice(x, z, w) ==
    /\ LeftPress
    /\ TrimHandleAt(x, z) = "none" /\ ManualPointsAt(x, z) = {}
    /\ \E i \in SlicesAt(x) :
          /\ mouse' = Pressed("paint", 0,
                              <<i, IF i \in DOMAIN weights THEN weights[i] ELSE 1>>)
          /\ Paint(i, w)
    /\ Click(x, z)

PressNothing(x, z) ==
    /\ LeftPress
    /\ TrimHandleAt(x, z) = "none" /\ ManualPointsAt(x, z) = {} /\ SlicesAt(x) = {}
    /\ mouse' = Pressed("none", 0, NoUndo)
    /\ Click(x, z)
    /\ UNCHANGED vars

\* The right button auditions a slice, the middle one pans; either may go
\* down while the left one drags.
PressOther ==
    /\ Followed /\ HandlerDone
    /\ \E drag \in {mouse.drag, "pan"} :
          mouse' = [mouse EXCEPT !.drag = drag, !.undo = NoUndo]
    /\ clicked' = NoClick
    /\ UNCHANGED <<vars, followed>>

\* The second press of a double click, no trim handle being near: first the
\* paint of the first press is undone.
PressAgain ==
    /\ LeftPress /\ clicked.armed
    /\ TrimHandleAt(clicked.at, clicked.zoom) = "none"
    /\ \/ ManualPointsAt(clicked.at, clicked.zoom) # {}
       \/ AutoPointsAt(clicked.at, clicked.zoom) # {}
       \/ Cardinality(DOMAIN doc.manual) < MaxManual      \* bound
    /\ IF mouse.undo = NoUndo THEN UNCHANGED vars
       ELSE Paint(mouse.undo[1], mouse.undo[2])
    /\ mouse' = [Pressed("again", 0, NoUndo) EXCEPT
                    !.at = clicked.at, !.zoom = clicked.zoom]
    /\ clicked' = NoClick

\* ... then a marker is removed, an onset excluded or a marker added.
DoubleClick ==
    /\ Followed /\ ~HandlerDone
    /\ LET markers == ManualPointsAt(mouse.at, mouse.zoom)
           onsets  == AutoPointsAt(mouse.at, mouse.zoom)
       IN  \/ \E id \in markers : RemoveManualPoint(id)
           \/ /\ markers = {}
              /\ \E f \in onsets :
                    \/ ExcludeNearestAutoPoint(f)
                    \/ /\ \/ Excludable = {}
                          \/ Excluded(Nearest(Excludable, f), doc.excluded)
                       /\ UNCHANGED vars
           \/ /\ markers = {} /\ onsets = {}
              /\ \E snap \in BOOLEAN : AddManualPoint(mouse.at, snap)
    /\ mouse' = AtRest
    /\ UNCHANGED <<followed, clicked>>

-----------------------------------------------------------------------------
(* onMouseMoved *)

Moving(drag) == Followed /\ mouse.drag = drag /\ UNCHANGED followed

MoveHandle(x, z) ==
    /\ \/ /\ Moving("trimStart")
          /\ \E f \in SnappedTo(x, z) :
                DragTrim([doc.trim EXCEPT !.lo = Min({f, doc.trim.hi - MinGap})])
       \/ /\ Moving("trimEnd")
          /\ \E f \in SnappedTo(x, z) :
                DragTrim([doc.trim EXCEPT
                    !.hi = Min({Max({f, doc.trim.lo + MinGap}), Length[sound]})])
    /\ clicked' = NoClick
    /\ UNCHANGED mouse

\* The hand may shake between the presses of a double click, but it does
\* not reach another slice.
MovePaint(x, w) ==
    /\ Moving("paint")
    /\ \E i \in SlicesAt(x) :
          /\ Paint(i, w)
          /\ clicked' = IF mouse.undo # NoUndo /\ mouse.undo[1] = i
                        THEN clicked ELSE NoClick
    /\ UNCHANGED mouse

MoveMarker(x) ==
    /\ Moving("marker")
    /\ DragMarker(mouse.marker, x, FALSE)
    /\ mouse' = [mouse EXCEPT !.moved = TRUE]
    /\ clicked' = NoClick

\* onMouseUp: a marker that was moved lands where it is let go, or at the
\* transient it snaps to; one that was not moved stays.
Release(x) ==
    /\ Followed /\ HandlerDone /\ mouse.drag # "none"
    /\ IF mouse.drag = "marker" /\ mouse.moved
       THEN \E snap \in BOOLEAN : DragMarker(mouse.marker, x, snap)
       ELSE UNCHANGED vars
    /\ mouse' = [AtRest EXCEPT !.undo = mouse.undo]
    /\ UNCHANGED <<followed, clicked>>

\* onMouseCancel
Cancel ==
    /\ Followed /\ HandlerDone /\ mouse.drag # "none"
    /\ mouse' = [AtRest EXCEPT !.undo = mouse.undo]
    /\ clicked' = NoClick
    /\ UNCHANGED <<vars, followed>>

-----------------------------------------------------------------------------
\* A file that was chosen is loaded, or another control used, at any time.
Elsewhere ==
    /\ followed = "mouse" /\ HandlerDone
    /\ (\E s \in Sounds : RequestSampleLoad(s)) \/ SetSensitivity
           \/ SetQuantizeTransients
    /\ clicked' = NoClick
    /\ UNCHANGED <<followed, mouse>>

GestureNext ==
    \/ \E x \in Pointer, z \in Zooms :
          PressHandle(x, z) \/ PressMarker(x, z) \/ PressNothing(x, z)
    \/ \E x \in Pointer, z \in Zooms, w \in Weights : PressSlice(x, z, w)
    \/ PressOther \/ PressAgain \/ DoubleClick
    \/ \E x \in Pointer, z \in Zooms : MoveHandle(x, z)
    \/ \E x \in Pointer, w \in Weights : MovePaint(x, w)
    \/ \E x \in Pointer : MoveMarker(x) \/ Release(x)
    \/ Cancel \/ Elsewhere
    \/ followed = "mouse" /\ Finish /\ UNCHANGED <<followed, mouse, clicked>>
    \/ followed = "blocks" /\ Next /\ UNCHANGED <<followed, mouse, clicked>>

GestureSpec == GestureInit /\ [][GestureNext]_gestureVars

-----------------------------------------------------------------------------
\* A double click makes its edit on the probabilities that were there before
\* its first press: "Roll the first click's paint back so whichever gesture
\* lands [...] inherits the ORIGINAL probability" (WaveformView.cpp:377-378).
\* Nor does it bring back a probability that an earlier press had found.
DoubleClickKeepsPaint ==
    [][ PressAgain => weights' = clicked.weights ]_gestureVars
=============================================================================
