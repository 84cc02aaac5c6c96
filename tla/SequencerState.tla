--------------------------- MODULE SequencerState ---------------------------
(***************************************************************************)
(* The working pattern of the sequencer (state/SequencerState.h), the      *)
(* setters that edit it (plugin/NeditProcessor.cpp) and the randomizer     *)
(* that fills it (engine/SequenceRandomizer.cpp), as pure operators.       *)
(*                                                                         *)
(* A cell is a pair <<row, column>>: the flat index row * columns + column *)
(* of the code is the same thing, because the grid is wiped whenever its   *)
(* stride changes.  A pattern keeps only its filled cells: notes maps them *)
(* to their style, overrides to the parameters that are overridden there   *)
(* (the values are left out), extensions to a length of at least one step. *)
(***************************************************************************)
EXTENDS Integers, Sequences, FiniteSets, Functions

CONSTANTS
    Styles,         \* style ordinals
    ParamIds,       \* StyleParamId
    Applicable,     \* applicableStyleParams: a style's parameters
    MenuKind,       \* CellOverrideMenuKind of a parameter
    ModeOf,         \* the paired *Mode id of a swept parameter
    NotRolled,      \* Subdivide and Volume, which Randomize leaves alone
    Resolutions,    \* step lengths in ticks, as the index names them
    Lengths,        \* pattern lengths in bars, as the index names them
    BarTicks,       \* ticks of a bar: four beats
    MaxRows,        \* kMaxSequencerRows
    MaxColumns,     \* kMaxSequencerColumns
    MaxExtension,   \* 256
    SliceLists      \* the lists a sample may have: lengths in ticks

NoStyle == "none"   \* no cell plays it

ASSUME PatternAssumption ==
    /\ NoStyle \notin Styles
    /\ Applicable \in [Styles -> SUBSET ParamIds]
    /\ Resolutions \subseteq Nat \ {0} /\ Lengths \subseteq Nat \ {0}
    /\ BarTicks \in Nat /\ MaxRows \in Nat /\ MaxColumns \in Nat
    /\ MaxExtension \in Nat
    /\ SliceLists \subseteq Seq(Nat)

Clamp(x, lo, hi) == IF x < lo THEN lo ELSE IF x > hi THEN hi ELSE x
AtLeastOne(n) == IF n < 1 THEN 1 ELSE n
Round(a, b) == (2 * a + b) \div (2 * b)   \* lround(a / b)

Nothing == [c \in {} |-> NoStyle]

Blank(rows, columns) ==
    [rows |-> rows, columns |-> columns,
     notes |-> Nothing, overrides |-> Nothing, extensions |-> Nothing]

InGrid(p, cell) == cell \in (0..(p.rows - 1)) \X (0..(p.columns - 1))
Filled(p, cell) == InGrid(p, cell) /\ cell \in DOMAIN p.notes

Put(f, c, v) == [x \in DOMAIN f \cup {c} |-> IF x = c THEN v ELSE f[x]]
Without(f, S) == Restrict(f, DOMAIN f \ S)

\* A note goes, and with it what was set at its cell.
Erased(p, S) ==
    [p EXCEPT !.notes = Without(p.notes, S),
              !.overrides = Without(p.overrides, S),
              !.extensions = Without(p.extensions, S)]

-----------------------------------------------------------------------------
(* setSequencerCell *)

\* A slip: only the note of the column's other row is dropped, and what
\* was set at its cell stays behind.
OthersErasedKeepingData(p, cell) ==
    [p EXCEPT !.notes =
        Without(p.notes, {c \in DOMAIN p.notes : c[2] = cell[2] /\ c # cell})]

\* Monophony: every other filled row of the column.
OthersErased(p, cell) ==
    Erased(p, {c \in DOMAIN p.notes : c[2] = cell[2] /\ c # cell})

CellSet(p, cell, style) ==
    IF ~InGrid(p, cell) THEN p
    ELSE IF style = NoStyle
    THEN IF cell \in DOMAIN p.notes THEN Erased(p, {cell}) ELSE p
    ELSE IF cell \in DOMAIN p.notes /\ p.notes[cell] = style THEN p
    ELSE LET alone == OthersErased(p, cell)
         IN  [alone EXCEPT !.notes = Put(alone.notes, cell, style)]

\* setSequencerCellExtension
ExtensionAt(p, cell) ==
    IF cell \in DOMAIN p.extensions THEN p.extensions[cell] ELSE 0

Extended(p, cell, delta) ==
    LET steps == Clamp(ExtensionAt(p, cell) + delta, 0, MaxExtension)
    IN  IF ~Filled(p, cell) THEN p
        ELSE IF steps = 0
        THEN [p EXCEPT !.extensions = Without(p.extensions, {cell})]
        ELSE [p EXCEPT !.extensions = Put(p.extensions, cell, steps)]

\* setSequencerCellOverride
OverridesAt(p, cell) ==
    IF cell \in DOMAIN p.overrides THEN p.overrides[cell] ELSE {}

Overridden(p, cell, id) ==
    IF ~Filled(p, cell) THEN p
    ELSE [p EXCEPT !.overrides =
              Put(p.overrides, cell, OverridesAt(p, cell) \cup {id})]

\* clearSequencerCellOverride (the tests call it, no gesture does)
OverrideCleared(p, cell, id) ==
    LET left == OverridesAt(p, cell) \ {id}
    IN  IF ~InGrid(p, cell) \/ cell \notin DOMAIN p.overrides THEN p
        ELSE IF left = {}
        THEN [p EXCEPT !.overrides = Without(p.overrides, {cell})]
        ELSE [p EXCEPT !.overrides = Put(p.overrides, cell, left)]

-----------------------------------------------------------------------------
(* computeSequencerDims, resizeGrid *)

RowsFor(list) == Clamp(Len(list), 0, MaxRows)
ColumnsFor(step, length) ==
    Clamp(AtLeastOne(Round(BarTicks, step)) * length, 0, MaxColumns)

Resized(p, list, step, length) ==
    LET rows == RowsFor(list)
        columns == ColumnsFor(step, length)
    IN  IF rows = p.rows /\ columns = p.columns THEN p ELSE Blank(rows, columns)

-----------------------------------------------------------------------------
(* How long a note is, in steps: naturalStepsForSlice and the extension. *)

NaturalSteps(list, row, step) ==
    AtLeastOne(Round(list[row + 1], step))

DeclaredSteps(p, list, cell, step) ==
    LET natural == NaturalSteps(list, cell[1], step)
    IN  IF ExtensionAt(p, cell) > natural THEN ExtensionAt(p, cell) ELSE natural

ActiveColumns(p) == {c[2] : c \in DOMAIN p.notes}

-----------------------------------------------------------------------------
(***************************************************************************)
(* The randomizer.  Passes over shuffled rows, a density roll that any     *)
(* attempt may lose and an end after any pass that placed nothing leave    *)
(* every finite sequence of single placements possible, each at the start  *)
(* that is best given the ones before it.                                  *)
(***************************************************************************)
Span(list, columns, step, row, start) ==
    {c \in start..(start + NaturalSteps(list, row, step) - 1) : c < columns}

\* A slip: a bar claims the step it starts on, not its whole span.
ClaimedStartOnly(list, columns, step, b, i) ==
    {b[j].start : j \in 1..(i - 1)}

\* columnOccupied when the i-th bar is placed.
Claimed(list, columns, step, b, i) ==
    UNION {Span(list, columns, step, b[j].row, b[j].start)
              : j \in 1..(i - 1)}

AbsDiff(a, b) == IF a < b THEN b - a ELSE a - b
\* Around the end of the grid, whichever way is shorter.
ColumnDistance(a, b, columns) ==
    IF columns - AbsDiff(a, b) < AbsDiff(a, b)
    THEN columns - AbsDiff(a, b) ELSE AbsDiff(a, b)

\* nearestOccupiedDistance: the box wraps, unlike the span that is claimed.
Gap(occupied, start, length, columns) ==
    IF occupied = {} THEN columns + 1
    ELSE CHOOSE d \in 0..columns :
            /\ \E c \in occupied, k \in 0..(length - 1) :
                   d = ColumnDistance(c, (start + k) % columns, columns)
            /\ \A c \in occupied, k \in 0..(length - 1) :
                   d <= ColumnDistance(c, (start + k) % columns, columns)

\* The first of the free spans that are farthest from every claimed column.
IsBestStart(list, columns, step, occupied, row, start) ==
    LET FreeAt(c) ==
            Span(list, columns, step, row, c) \cap occupied = {}
        GapAt(c) ==
            Gap(occupied, c, NaturalSteps(list, row, step), columns)
    IN  /\ FreeAt(start)
        /\ \A c \in 0..(columns - 1) :
               FreeAt(c) => \/ GapAt(c) < GapAt(start)
                            \/ GapAt(c) = GapAt(start) /\ start <= c

Bar(rows, columns) ==
    [row : 0..(rows - 1), start : 0..(columns - 1), style : Styles]

Placements(list, step, length) ==
    LET rows == RowsFor(list)
        columns == ColumnsFor(step, length)
    IN  UNION {{b \in [1..n -> Bar(rows, columns)] :
                   \A i \in 1..n :
                       IsBestStart(list, columns, step,
                                   Claimed(list, columns, step, b, i),
                                   b[i].row, b[i].start)}
                  : n \in 0..columns}

\* The parameters rolled for a style that opted in, with their modes.
Rolled(style) ==
    LET ids == Applicable[style] \ NotRolled
    IN  ids \cup {ModeOf[id] : id \in {i \in ids : MenuKind[i] = "modeSubmenu"}}

CellOf(bar) == <<bar.row, bar.start>>

\* What a sequence of placements leaves in the wiped grid.
Randomized(rows, columns, b, optedIn) ==
    LET I == DOMAIN b
        At(c) == CHOOSE i \in I : CellOf(b[i]) = c
        Opted == {i \in I : b[i].style \in optedIn /\ Rolled(b[i].style) # {}}
    IN  [Blank(rows, columns) EXCEPT
           !.notes = [c \in {CellOf(b[i]) : i \in I} |-> b[At(c)].style],
           !.overrides = [c \in {CellOf(b[i]) : i \in Opted} |->
                              Rolled(b[At(c)].style)]]

-----------------------------------------------------------------------------
(***************************************************************************)
(* One sounding row per step at most, and nothing set at a cell that has   *)
(* no note (nor outside the grid): data left behind would be inherited by  *)
(* the next note painted there.                                            *)
(***************************************************************************)
OneCellPerColumn(p) ==
    \A c, d \in DOMAIN p.notes : c[2] = d[2] => c = d

DataAtNotes(p) ==
    /\ \A c \in DOMAIN p.notes : InGrid(p, c)
    /\ DOMAIN p.overrides \subseteq DOMAIN p.notes
    /\ DOMAIN p.extensions \subseteq DOMAIN p.notes
=============================================================================
