---------------------------- MODULE SequencerGrid ----------------------------
(***************************************************************************)
(* The step grid of the Sequence tab: the mouse gestures of                *)
(* SequencerGridView (plugin/NeditEditor.cpp), the buttons beside it and   *)
(* the edits of the sample that change its rows, all on the UI thread.     *)
(*                                                                         *)
(* A pointer position is a cell <<row, column>>, -1 standing for "outside" *)
(* on an axis; how pixels become cells under zoom and scroll is module     *)
(* GridViewport.  The flags of the view are independent, as in the code: a *)
(* second button may start a second gesture before the first one ends.     *)
(* What a flag guards (erase_, grabRow_, ...) is dead while it is off, and *)
(* is kept here only while it is on.                                       *)
(***************************************************************************)
EXTENDS SequencerState

CONSTANTS
    Scratch,        \* the style that plays one cycle of its Rate
    ScratchCycle,   \* the length of that cycle in ticks
    TrimSpans,      \* trims there may be, in ticks of the loaded slices
    MaxData,        \* bound: cells that carry overrides or an extension
    MaxGestures     \* bound: buttons that are down at once

VARIABLES
    slices,         \* the loaded slice list; <<>> without a sample
    resolution,     \* stepResolutionIndex
    bars,           \* patternLengthBarsIndex
    pattern,        \* the working pattern
    drawingStyle,   \* selectedDrawingStyle
    paint,          \* dragging_: [erase, style] of the press, or NoGesture
    extend,         \* extending_: the grabbed cell and lastDelta_
    scrolling,      \* panning_ or barDrag_.active
    slider,         \* edit_: the cell and parameter of the in-place slider
    scrubbing,      \* editDragging_
    menu            \* the cell whose parameter menu is open

gestureVars == <<paint, extend, scrolling, slider, scrubbing, menu>>
vars == <<slices, resolution, bars, pattern, drawingStyle, gestureVars>>

NoGesture == [on |-> FALSE]

ASSUME TrimAssumption ==
    /\ ScratchCycle \in Nat
    /\ TrimSpans \subseteq [lo : Nat, hi : Nat]

Init ==
    /\ slices = <<>>
    /\ resolution \in Resolutions /\ bars \in Lengths
    /\ pattern = Blank(0, 0)
    /\ drawingStyle \in Styles
    /\ paint = NoGesture /\ extend = NoGesture
    /\ scrolling = FALSE
    /\ slider = NoGesture /\ scrubbing = FALSE
    /\ menu = NoGesture

\* Where a pointer event can be: rebuildLayout shows no row without sample.
ShownRows == IF slices = <<>> THEN 0 ELSE pattern.rows
Pointer == (-1..(ShownRows - 1)) \X (-1..(AtLeastOne(pattern.columns) - 1))
OnGrid(cell) == cell[1] >= 0 /\ cell[2] >= 0

\* Bound on the instance, not in the code.
Within(p) ==
    Cardinality(DOMAIN p.overrides \cup DOMAIN p.extensions) <= MaxData

-----------------------------------------------------------------------------
(* applyPaintAt *)

\* What this drag did before its role was fixed at the press.
PaintedToggling(p, gesture, cell) ==
    CellSet(p, cell, IF gesture.erase \/ (Filled(p, cell)
                                          /\ p.notes[cell] = gesture.style)
                     THEN NoStyle ELSE gesture.style)

Painted(p, gesture, cell) ==
    CellSet(p, cell, IF gesture.erase THEN NoStyle ELSE gesture.style)

\* editSliderFromX, whatever value the position stands for.
Scrubbed(p) == Overridden(p, slider.cell, slider.id)

-----------------------------------------------------------------------------
(* onMouseDown, in the order it looks at the press *)

Free == ~menu.on
Down == {g \in {"paint", "extend", "scroll", "scrub"} :
            CASE g = "paint" -> paint.on   [] g = "extend" -> extend.on
              [] g = "scroll" -> scrolling [] g = "scrub" -> scrubbing}
CanPress == Free /\ Cardinality(Down) < MaxGestures

\* The palette strip: the slider closes, a style is chosen.
PressPalette(style) ==
    /\ CanPress
    /\ slider' = NoGesture
    /\ drawingStyle' = style
    /\ UNCHANGED <<slices, resolution, bars, pattern, paint, extend,
                   scrolling, scrubbing, menu>>

\* The middle button, or a scrollbar's knob (its track only pages).
PressToScroll ==
    /\ CanPress
    /\ scrolling' = TRUE
    /\ UNCHANGED <<slices, resolution, bars, pattern, drawingStyle, paint,
                   extend, slider, scrubbing, menu>>

\* A live slider takes every press in the grid.
PressSlider ==
    /\ CanPress /\ ShownRows > 0 /\ slider.on
    /\ scrubbing' = TRUE
    /\ pattern' = Scrubbed(pattern)
    /\ Within(pattern')
    /\ UNCHANGED <<slices, resolution, bars, drawingStyle, paint, extend,
                   scrolling, slider, menu>>

CellPress(cell) ==
    CanPress /\ ShownRows > 0 /\ ~slider.on /\ OnGrid(cell)

PressToExtend(cell) ==
    /\ CellPress(cell) /\ Filled(pattern, cell)
    /\ extend' = [on |-> TRUE, cell |-> cell, delta |-> 0]
    /\ UNCHANGED <<slices, resolution, bars, pattern, drawingStyle, paint,
                   scrolling, slider, scrubbing, menu>>

\* Painting the style that is already there means erasing.
PressToPaint(cell) ==
    /\ CellPress(cell)
    /\ paint' = [on |-> TRUE, style |-> drawingStyle,
                 erase |-> /\ Filled(pattern, cell)
                           /\ pattern.notes[cell] = drawingStyle]
    /\ pattern' = Painted(pattern, paint', cell)
    /\ UNCHANGED <<slices, resolution, bars, drawingStyle, extend, scrolling,
                   slider, scrubbing, menu>>

\* The right button on an empty cell; paintStyle_ is not touched, nor read.
PressToErase(cell) ==
    /\ CellPress(cell) /\ ~Filled(pattern, cell)
    /\ paint' = [on |-> TRUE, style |-> NoStyle, erase |-> TRUE]
    /\ pattern' = Painted(pattern, paint', cell)
    /\ UNCHANGED <<slices, resolution, bars, drawingStyle, extend, scrolling,
                   slider, scrubbing, menu>>

\* The right button on a note: openCellMenu, entries by the note's style.
OpenMenu(cell) ==
    /\ CellPress(cell) /\ Filled(pattern, cell)
    /\ menu' = [on |-> TRUE, cell |-> cell, style |-> pattern.notes[cell]]
    /\ UNCHANGED <<slices, resolution, bars, pattern, drawingStyle, paint,
                   extend, scrolling, slider, scrubbing>>

-----------------------------------------------------------------------------
(* The popup's callbacks.  The host may replace the sample meanwhile. *)

DismissMenu ==
    /\ menu.on
    /\ menu' = NoGesture
    /\ UNCHANGED <<slices, resolution, bars, pattern, drawingStyle, paint,
                   extend, scrolling, slider, scrubbing>>

\* beginEditSlider
SliderFor(cell, id) == [on |-> TRUE, cell |-> cell, id |-> id]

Pick(id) ==
    /\ menu.on
    /\ id \in Applicable[menu.style]
    /\ menu' = NoGesture
    /\ UNCHANGED <<slices, resolution, bars, drawingStyle, paint, extend,
                   scrolling, scrubbing>>

PickSlider(id) ==
    /\ Pick(id) /\ MenuKind[id] = "slider"
    /\ slider' = SliderFor(menu.cell, id)
    /\ UNCHANGED pattern

PickOption(id) ==
    /\ Pick(id) /\ MenuKind[id] = "submenu"
    /\ pattern' = Overridden(pattern, menu.cell, id)
    /\ Within(pattern')
    /\ UNCHANGED slider

PickMode(id) ==
    /\ Pick(id) /\ MenuKind[id] = "modeSubmenu"
    /\ pattern' = Overridden(pattern, menu.cell, ModeOf[id])
    /\ Within(pattern')
    /\ slider' = SliderFor(menu.cell, id)

-----------------------------------------------------------------------------
(* onMouseMoved, shared by Move and Release *)

MoveScrolls == scrolling
MoveScrubs == ~scrolling /\ slider.on /\ scrubbing
MoveExtends == ~scrolling /\ ~slider.on /\ extend.on
MovePaints == ~scrolling /\ ~slider.on /\ ~extend.on /\ paint.on

\* The pattern after the pointer went to a position.
PatternMovedTo(cell) ==
    CASE MoveScrubs -> Scrubbed(pattern)
      [] MoveExtends /\ cell[2] >= 0 ->
            Extended(pattern, extend.cell,
                     cell[2] - extend.cell[2] - extend.delta)
      [] MovePaints /\ OnGrid(cell) -> Painted(pattern, paint, cell)
      [] OTHER -> pattern

\* lastDelta_ follows only if the setter accepted the step.
ExtendMovedTo(cell) ==
    IF MoveExtends /\ cell[2] >= 0 /\ Filled(pattern, extend.cell)
    THEN [extend EXCEPT !.delta = cell[2] - extend.cell[2]] ELSE extend

Move(cell) ==
    /\ Free
    /\ UNCHANGED <<slices, resolution, bars, drawingStyle, paint, scrolling,
                   slider, scrubbing, menu>>
    /\ pattern' = PatternMovedTo(cell)
    /\ Within(pattern')
    /\ extend' = ExtendMovedTo(cell)

\* onMouseUp moves first, then ends every gesture.  The slider closes only
\* if it was scrubbed: the release that picked the menu entry leaves it.
Release(cell) ==
    /\ Free
    /\ UNCHANGED <<slices, resolution, bars, drawingStyle, menu>>
    /\ pattern' = PatternMovedTo(cell)
    /\ Within(pattern')
    /\ slider' = IF scrubbing THEN NoGesture ELSE slider
    /\ paint' = NoGesture /\ extend' = NoGesture
    /\ scrolling' = FALSE /\ scrubbing' = FALSE

\* onMouseCancel
Cancel ==
    /\ paint' = NoGesture /\ extend' = NoGesture
    /\ scrolling' = FALSE /\ scrubbing' = FALSE
    /\ slider' = NoGesture
    /\ UNCHANGED <<slices, resolution, bars, pattern, drawingStyle, menu>>

-----------------------------------------------------------------------------
(* The tab's buttons and selectors; the gesture flags are left as they are *)

\* Everything the randomizer may leave in the grid, with what it reads.
Outcomes ==
    UNION {{[slices |-> list, resolution |-> r, bars |-> n,
             left |-> Randomized(RowsFor(list), ColumnsFor(r, n), run, optedIn)]
              : run \in Placements(list, r, n), optedIn \in SUBSET Styles}
            : list \in SliceLists, r \in Resolutions, n \in Lengths}

\* Without slices, randomizeSequence is clearSequence.
Randomize ==
    /\ CanPress /\ slices # <<>>
    /\ UNCHANGED <<slices, resolution, bars, drawingStyle, gestureVars>>
    /\ \E o \in Outcomes :
          /\ o.slices = slices /\ o.resolution = resolution /\ o.bars = bars
          /\ pattern' = o.left
    /\ Within(pattern')

Clear ==
    /\ CanPress
    /\ pattern' = Blank(pattern.rows, pattern.columns)
    /\ UNCHANGED <<slices, resolution, bars, drawingStyle, gestureVars>>

SetResolution(r) ==
    /\ CanPress /\ resolution # r
    /\ resolution' = r
    /\ pattern' = Resized(pattern, slices, r, bars)
    /\ UNCHANGED <<slices, bars, drawingStyle, gestureVars>>

SetLength(n) ==
    /\ CanPress /\ bars # n
    /\ bars' = n
    /\ pattern' = Resized(pattern, slices, resolution, n)
    /\ UNCHANGED <<slices, resolution, drawingStyle, gestureVars>>

\* A load, or a rebuild of the slices of the loaded sample.
Reslice(list) ==
    /\ slices' = list
    /\ pattern' = Resized(pattern, list, resolution, bars)
    /\ UNCHANGED <<resolution, bars, drawingStyle, gestureVars>>

ClearOverride(cell, id) ==
    /\ pattern' = OverrideCleared(pattern, cell, id)
    /\ UNCHANGED <<slices, resolution, bars, drawingStyle, gestureVars>>

Next ==
    \/ \E style \in Styles : PressPalette(style)
    \/ PressToScroll \/ PressSlider
    \/ \E cell \in Pointer : \/ PressToExtend(cell) \/ PressToPaint(cell)
                             \/ PressToErase(cell) \/ OpenMenu(cell)
                             \/ Move(cell) \/ Release(cell)
    \/ DismissMenu
    \/ \E id \in ParamIds : PickSlider(id) \/ PickOption(id) \/ PickMode(id)
    \/ Cancel
    \/ Randomize \/ Clear
    \/ \E r \in Resolutions : SetResolution(r)
    \/ \E n \in Lengths : SetLength(n)
    \/ \E list \in SliceLists : Reslice(list)
    \/ \E cell \in DOMAIN pattern.overrides, id \in ParamIds :
          ClearOverride(cell, id)

Spec == Init /\ [][Next]_vars

-----------------------------------------------------------------------------
PatternTypes(p) ==
    /\ p.columns \in Nat
    /\ p.notes \in [DOMAIN p.notes -> Styles]
    /\ p.extensions \in [DOMAIN p.extensions -> Nat]

\* The grid has the dimensions its sample and selectors give it; a paint
\* drag that does not erase has a style; an extension drag knows where it
\* started and how far it has come.
TypeOK ==
    /\ slices \in SliceLists \cup {<<>>}
    /\ resolution \in Resolutions /\ bars \in Lengths
    /\ drawingStyle \in Styles
    /\ PatternTypes(pattern)
    /\ pattern.rows = RowsFor(slices)
    /\ slices # <<>> => pattern.columns = ColumnsFor(resolution, bars)
    /\ paint.on /\ ~paint.erase => paint.style \in Styles
    /\ extend.on => extend.cell[2] \in Int /\ extend.delta \in Int
    /\ scrolling \in BOOLEAN /\ scrubbing \in BOOLEAN

\* Whatever gestures, buttons and edits of the sample follow each other:
\* the pattern is monophonic, and overrides and extensions sit at notes
\* inside the grid ("Monophonic: at most one filled row per column").
PatternConsistent == OneCellPerColumn(pattern) /\ DataAtNotes(pattern)

\* The role of a drag is fixed at its press: while a paint drag moves, no
\* column falls silent, and while an erase drag moves, no note appears.
\* The release applies the last position once more and must not undo it.
DragKeepsRole ==
    [][ (MovePaints /\ \E cell \in Pointer : Move(cell) \/ Release(cell)) =>
          IF paint.erase
          THEN DOMAIN pattern'.notes \subseteq DOMAIN pattern.notes
          ELSE ActiveColumns(pattern) \subseteq ActiveColumns(pattern') ]_vars

-----------------------------------------------------------------------------
(* A bar as it is drawn and as it is played *)

\* A slip: only the notes of the bar's own row cut it.
DrawnEndInRow(p, list, cell, r) ==
    LET cuts == {c[2] : c \in {d \in DOMAIN p.notes : d[1] = cell[1]
                                                      /\ d[2] > cell[2]}}
        end == cell[2] + DeclaredSteps(p, list, cell, r)
        ends == cuts \cup {end, p.columns}
    IN  CHOOSE e \in ends : \A f \in ends : e <= f

\* drawBars: to the declared length, the grid's end or the next active
\* column of any row.
DrawnEnd(p, list, cell, r) ==
    LET end == cell[2] + DeclaredSteps(p, list, cell, r)
        ends == {c \in ActiveColumns(p) : c > cell[2]} \cup {end, p.columns}
    IN  CHOOSE e \in ends : \A f \in ends : e <= f

\* clipSlicesToTrim: the list a block plays from.  An edit of the trim
\* rebuilds nothing, so that the trim may be any, whatever the slices are.
Clipped(list, span) ==
    LET Before(i) == SumFunctionOnSet(list, 1..(i - 1))
        Left(i) == Clamp(Before(i + 1), span.lo, span.hi)
                       - Clamp(Before(i), span.lo, span.hi)
    IN  SelectSeq([i \in DOMAIN list |-> Left(i)], LAMBDA ticks : ticks > 0)

\* sequencerTriggerStep's rowsEffective: a block has no row for a cell whose
\* index is beyond its list.
RowsHeard(p, heard) == IF p.rows < Len(heard) THEN p.rows ELSE Len(heard)

\* The pick of a step: to the declared length, for scratch one cycle, or to
\* the next active column, searched around the pattern's end.
PlayedSteps(p, heard, cell, r) ==
    LET active == {c[2] : c \in {d \in DOMAIN p.notes : d[1] < RowsHeard(p, heard)}}
        Active(offset) == (cell[2] + offset) % p.columns \in active
        next == CHOOSE n \in 1..p.columns :
                    Active(n) /\ \A m \in 1..(n - 1) : ~Active(m)
        full == IF p.notes[cell] = Scratch THEN (ScratchCycle + r - 1) \div r
                ELSE DeclaredSteps(p, heard, cell, r)
    IN  IF cell[1] < RowsHeard(p, heard)
        THEN IF full < next THEN full ELSE next ELSE 0

\* A bar covers exactly the steps in which its note is held, up to the right
\* edge of the grid.
BarIsHeard(cell, heard) ==
    LET played == PlayedSteps(pattern, heard, cell, resolution)
        room == pattern.columns - cell[2]
    IN  DrawnEnd(pattern, slices, cell, resolution) - cell[2]
            = IF played < room THEN played ELSE room

\* The trim leaves every note a row, and the cell's row its slice.
TrimKeeps(cell, heard) ==
    /\ \A c \in DOMAIN pattern.notes : c[1] < Len(heard)
    /\ heard[cell[1] + 1] = slices[cell[1] + 1]

\* "so the bars match what plays", under every trim that cuts off no row
\* with a note, of the notes whose slice it leaves whole.  Scratch is left
\* out: it is drawn like any other style and held for one cycle.
DrawnBarIsHeard ==
    \A span \in TrimSpans :
        LET heard == Clipped(slices, span)
        IN  \A cell \in DOMAIN pattern.notes :
               pattern.notes[cell] # Scratch /\ TrimKeeps(cell, heard)
                   => BarIsHeard(cell, heard)

\* The same of every note and trim, as the comment has it.
EveryBarIsHeard ==
    \A span \in TrimSpans, cell \in DOMAIN pattern.notes :
        BarIsHeard(cell, Clipped(slices, span))

\* Randomize never fragments a bar: each one keeps its natural length, or
\* ends at the grid's end.
RandomizedBarsWhole ==
    [][ Randomize =>
          \A cell \in DOMAIN pattern'.notes :
             LET whole == cell[2] + NaturalSteps(slices, cell[1], resolution)
             IN  DrawnEnd(pattern', slices, cell, resolution)
                     = IF whole < pattern.columns THEN whole
                       ELSE pattern.columns ]_vars
=============================================================================
