---------------------------- MODULE GridViewport ----------------------------
(***************************************************************************)
(* The scrolled and zoomed view of the step grid: layout, hit tests and    *)
(* scroll geometry (ui/SequencerGridGeometry.h) and the wheel, pan and     *)
(* scrollbar handlers of SequencerGridView (plugin/NeditEditor.cpp).       *)
(*                                                                         *)
(* The two axes "x" (steps) and "y" (slices, row 0 at the bottom) obey the *)
(* same rules.  A zoom is a whole number of 1/ZoomUnit, an origin (the     *)
(* scrolled fraction of what can be scrolled) of 1/OriginUnit, rounded     *)
(* where the code narrows it to a float; lengths are compared in units of  *)
(* 1/(ZoomUnit * OriginUnit) pixel, where everything is a whole number.    *)
(***************************************************************************)
EXTENDS Integers

CONSTANTS
    View,           \* the grid's extent in pixels, by axis
    Dims,           \* the grids there may be: cells by axis, "y" 0 if none
    MinRowH,        \* kMinSequencerRowH
    ZoomUnit, OriginUnit,
    MinZoom, MaxZoom,
    Notch,          \* the wheel's factor (1.15), a whole number here
    ScrollBar,            \* bounds of the scrollbars: thickness and hit extension
    MinKnob,        \* kSequencerScrollBarMinKnob
    Pointers        \* pixels, along either axis, where events happen

\* A zoom is told in units that divide the fit exactly: where the rows do not
\* fit, so that they fill the view at a whole number of units.
ASSUME ViewportAssumption ==
    /\ View.x \in Nat \ {0} /\ View.y \in Nat \ {0}
    /\ MinRowH \in Nat \ {0} /\ ZoomUnit \in Nat \ {0}
    /\ OriginUnit \in Nat \ {0} /\ Notch \in Nat \ {0}
    /\ MinZoom \in 1..ZoomUnit /\ MaxZoom \in Nat /\ MaxZoom >= ZoomUnit
    /\ MinKnob \in 0..View.x /\ MinKnob \in 0..View.y
    /\ Pointers \subseteq Nat
    /\ \A d \in Dims :
          /\ d.x \in Nat \ {0} /\ d.y \in Nat
          /\ View.x % d.x = 0
          /\ d.y > 0 => IF View.y >= MinRowH * d.y THEN View.y % d.y = 0
                        ELSE (View.y * ZoomUnit) % (MinRowH * d.y) = 0

VARIABLES
    dims,           \* layout_.totalCols, layout_.totalRows
    viewport,       \* the stored SequencerViewport: zoom and origin by axis
    knob            \* barDrag_, or NoDrag

viewportVars == <<dims, viewport, knob>>

Axes == {"x", "y"}
NoDrag == [active |-> FALSE]
Scale == ZoomUnit * OriginUnit

Bounded(n, lo, hi) == IF n < lo THEN lo ELSE IF n > hi THEN hi ELSE n
RoundDiv(a, b) == (2 * a + b) \div (2 * b)

\* A fresh grid opens at its left edge and at its bottom.
ViewportInit ==
    /\ dims \in Dims
    /\ viewport = [x |-> [zoom |-> ZoomUnit, origin |-> 0],
                   y |-> [zoom |-> ZoomUnit, origin |-> OriginUnit]]
    /\ knob = NoDrag

-----------------------------------------------------------------------------
(* Layout *)

\* computeSequencerLayout: cells fill the view, rows down to a minimum.
CellSize(axis) ==
    IF axis = "x" THEN View.x \div dims.x
    ELSE IF dims.y > 0 /\ View.y >= MinRowH * dims.y
         THEN View.y \div dims.y ELSE MinRowH

\* sequencerContentExtent, in 1/ZoomUnit pixel
Content(axis, zoom) == CellSize(axis) * dims[axis] * zoom

\* sequencerMinZoom: where the content just fills the view.
Fit(axis) ==
    IF Content(axis, 1) = 0 THEN MinZoom
    ELSE Bounded((View[axis] * ZoomUnit) \div Content(axis, 1), MinZoom, MaxZoom)

\* A slip: the stored zoom is used as it is.
ShownAsStored == viewport

\* SequencerGridView::viewport(): a zoom stored for a taller grid is raised.
Shown ==
    [a \in Axes |-> [viewport[a] EXCEPT
        !.zoom = IF viewport[a].zoom < Fit(a) THEN Fit(a) ELSE viewport[a].zoom]]

\* sequencerMaxScroll and sequencerOriginPx, the latter in fine units
MaxScroll(axis, v) ==
    LET over == Content(axis, v.zoom) - View[axis] * ZoomUnit
    IN  IF over > 0 THEN over ELSE 0
Offset(axis, v) == v.origin * MaxScroll(axis, v)
Cell(axis, v) == CellSize(axis) * v.zoom * OriginUnit

-----------------------------------------------------------------------------
(* Hit tests and where things are drawn, in fine units from the view's top left *)

\* sequencerColumnFromX
ColumnAt(x) ==
    LET col == (x * Scale + Offset("x", Shown.x)) \div Cell("x", Shown.x)
    IN  IF x >= 0 /\ col < dims.x THEN col ELSE -1

\* A slip: rows counted down from the top of the view, not of the content.
RowAtUnscrolled(y) ==
    LET content == dims.y * Cell("y", Shown.y)
        row == (content - y * Scale) \div Cell("y", Shown.y)
    IN  IF dims.y > 0 /\ y >= 0 /\ y < View.y /\ row < dims.y THEN row ELSE -1

\* sequencerRowFromY.  The quotient gives the edge between two rows to the
\* upper one, and none to the topmost edge; its comment and rowFromBottomY
\* give an edge to the lower one.
RowAt(y) ==
    LET content == dims.y * Cell("y", Shown.y)
        row == (content - (y * Scale + Offset("y", Shown.y)))
                   \div Cell("y", Shown.y)
    IN  IF dims.y > 0 /\ y >= 0 /\ y < View.y /\ row < dims.y THEN row ELSE -1

\* sequencerColumnX, sequencerRowBottom
ColumnLeft(col) == col * Cell("x", Shown.x) - Offset("x", Shown.x)
RowBottom(row) ==
    (dims.y - row) * Cell("y", Shown.y) - Offset("y", Shown.y)

\* sequencerScrollZone: H owns the corner, V the band above it.
Zone(x, y) ==
    IF x >= View.x - ScrollBar.thickness - ScrollBar.extend /\ y < View.y - ScrollBar.thickness
    THEN "verticalBar"
    ELSE IF y >= View.y - ScrollBar.thickness - ScrollBar.extend THEN "horizontalBar"
    ELSE "canvas"

\* computeSequencerScrollBar
Scrollable(axis, v) == View[axis] * ZoomUnit < Content(axis, v.zoom)
KnobLength(axis, v) ==
    Bounded((View[axis] * View[axis] * ZoomUnit) \div Content(axis, v.zoom),
         MinKnob, View[axis])
Travel(axis, v) == View[axis] - KnobLength(axis, v)

-----------------------------------------------------------------------------
(* Handlers.  What they publish starts from the shown viewport. *)

\* zoomSequencerViewport on one axis: the content under the pointer stays.
ZoomedAboutLeft(axis, v, at, zoom) ==
    [v EXCEPT !.zoom = zoom]

Zoomed(axis, v, at, zoom) ==
    LET after == [v EXCEPT !.zoom = zoom]
        offset == ((Offset(axis, v) + at * Scale) * zoom) \div v.zoom - at * Scale
        scroll == MaxScroll(axis, after)
    IN  [after EXCEPT !.origin =
            IF scroll > 0 THEN Bounded(RoundDiv(offset, scroll), 0, OriginUnit)
            ELSE 0]

\* onMouseWheelEvent: both axes, or the one whose scrollbar is below.
Turned(axis, up) ==
    LET zoom == Shown[axis].zoom
    IN  Bounded(IF up THEN zoom * Notch ELSE zoom \div Notch, Fit(axis), MaxZoom)

Wheel(x, y, up) ==
    /\ dims.y > 0
    /\ LET at == [x |-> x, y |-> y]
           locked == CASE Zone(x, y) = "horizontalBar" -> {"y"}
                       [] Zone(x, y) = "verticalBar" -> {"x"}
                       [] OTHER -> {}
           To(a) == IF a \in locked THEN Shown[a].zoom ELSE Turned(a, up)
       IN  viewport' = [a \in Axes |-> Zoomed(a, Shown[a], at[a], To(a))]
    /\ UNCHANGED <<dims, knob>>

\* A middle-button drag of the pointer by d: the content follows it.
Panned(axis, v, d) ==
    IF MaxScroll(axis, v) > 0
    THEN [v EXCEPT !.origin =
            Bounded(v.origin - RoundDiv(d * Scale, MaxScroll(axis, v)),
                 0, OriginUnit)]
    ELSE v

Pan(dx, dy) ==
    /\ viewport' = [x |-> Panned("x", Shown.x, dx), y |-> Panned("y", Shown.y, dy)]
    /\ UNCHANGED <<dims, knob>>

\* clampSequencerViewport of one moved origin
Origin(axis, n) ==
    viewport' = [Shown EXCEPT ![axis].origin = Bounded(n, 0, OriginUnit)]

\* tryScrollbarPress: the knob is grabbed, or the track pages to the press.
KnobStart(axis, v) == RoundDiv(v.origin * Travel(axis, v), OriginUnit)

PressBar(axis, x, y) ==
    LET along == IF axis = "x" THEN x ELSE y
        v == Shown[axis]
        onKnob == along \in KnobStart(axis, v)
                            ..(KnobStart(axis, v) + KnobLength(axis, v) - 1)
    IN  /\ dims.y > 0 /\ ~knob.active
        /\ Zone(x, y) = IF axis = "x" THEN "horizontalBar" ELSE "verticalBar"
        /\ Scrollable(axis, v)
        /\ IF onKnob
           THEN /\ knob' = [active |-> TRUE, axis |-> axis, along |-> along,
                            origin |-> v.origin, travel |-> Travel(axis, v)]
                /\ UNCHANGED viewport
           ELSE /\ Origin(axis, IF Travel(axis, v) = 0 THEN 0
                                ELSE RoundDiv((2 * along - KnobLength(axis, v))
                                                  * OriginUnit,
                                              2 * Travel(axis, v)))
                /\ UNCHANGED knob
        /\ UNCHANGED dims

DragKnob(along) ==
    /\ knob.active
    /\ Origin(knob.axis,
              IF knob.travel = 0 THEN knob.origin
              ELSE knob.origin + RoundDiv((along - knob.along) * OriginUnit,
                                          knob.travel))
    /\ UNCHANGED <<dims, knob>>

ReleaseKnob ==
    /\ knob.active
    /\ knob' = NoDrag
    /\ UNCHANGED <<dims, viewport>>

\* The pattern or the slice list got other dimensions; zoom and origin stay.
Redimension(d) ==
    /\ dims' = d
    /\ UNCHANGED <<viewport, knob>>

ViewportNext ==
    \/ \E x, y \in Pointers, up \in BOOLEAN : Wheel(x, y, up)
    \/ \E dx, dy \in {-3, 0, 3} : Pan(dx, dy)
    \/ \E axis \in Axes, x, y \in Pointers : PressBar(axis, x, y)
    \/ \E along \in Pointers : DragKnob(along)
    \/ ReleaseKnob
    \/ \E d \in Dims : Redimension(d)

ViewportSpec == ViewportInit /\ [][ViewportNext]_viewportVars

-----------------------------------------------------------------------------
ViewportTypeOK ==
    /\ dims \in Dims
    /\ viewport \in [Axes -> [zoom : MinZoom..MaxZoom, origin : 0..OriginUnit]]
    /\ knob \in {NoDrag} \cup
               [active : {TRUE}, axis : Axes, along : Pointers,
                origin : 0..OriginUnit, travel : Nat]

\* Whatever was zoomed, scrolled and resized: a pixel of the view hits the
\* cell that is drawn there, so a press edits the cell under the pointer, and
\* a pixel on the edge of two rows hits one of the two.  Nothing of the view
\* is dead but the line of the topmost edge (there the code and its comment
\* disagree, as they do on which of two rows has an edge).
PixelHitsDrawnCell ==
    dims.y > 0 =>
      /\ \A x \in 0..(View.x - 1) :
            LET col == ColumnAt(x)
            IN  /\ col >= 0
                /\ ColumnLeft(col) <= x * Scale
                /\ x * Scale < ColumnLeft(col + 1)
      /\ \A y \in 0..(View.y - 1) :
            LET row == RowAt(y)
            IN  IF row < 0 THEN y * Scale = RowBottom(dims.y)
                ELSE RowBottom(row + 1) <= y * Scale /\ y * Scale <= RowBottom(row)

\* Wherever the view stands, a turn of the wheel keeps the content under
\* the pointer in place, up to the rounding of the origin, unless the end
\* of the content stops it.
ZoomKeepsPointInPlace ==
    \A a \in Axes, pixel \in Pointers, up \in BOOLEAN :
        LET at == pixel * Scale
            old == Shown[a]
            new == Zoomed(a, old, pixel, Turned(a, up))
            moved == (Offset(a, old) + at) * new.zoom
                         - (Offset(a, new) + at) * old.zoom
            slack == MaxScroll(a, new) * old.zoom
        IN  \/ new.origin = 0 \/ new.origin = OriginUnit
            \/ -slack <= moved /\ moved <= slack
=============================================================================
