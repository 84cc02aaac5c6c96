------------------------------- MODULE MCGrid -------------------------------
(***************************************************************************)
(* The two halves of SequencerGridView: what its gestures do to the cells, *)
(* and how pixels become cells under zoom and scroll.  They share no state *)
(* but the dimensions, which the second half lets change at any time, so a *)
(* behaviour follows one half and leaves the other where it starts.        *)
(*                                                                         *)
(* Cells: two rows, up to three steps, two styles, and trims that cut off  *)
(* a row or a part of either.  Pixels: a view of 16 each way, grids that   *)
(* fit it and one that does not.                                           *)
(***************************************************************************)
EXTENDS SequencerGrid, GridViewport

VARIABLE followed   \* "cells" or "pixels"

MCStyles == {"forward", "scratch"}
\* One of each kind of menu entry; "option" is a parameter with options and
\* also the mode of the swept one.
MCParamIds == {"delay", "option", "subdivide"}
MCApplicable == [s \in MCStyles |-> IF s = "forward" THEN {"subdivide"}
                                    ELSE {"delay", "option"}]
MCMenuKind == [delay |-> "modeSubmenu", option |-> "submenu",
               subdivide |-> "slider"]
MCModeOf == [delay |-> "option"]

\* A short and a long slice; a rebuild may leave one of them.
MCSliceLists == {<<2, 5>>, <<5>>}
MCTrimSpans == [lo : {0}, hi : {2, 4, 7}] \cup [lo : {1}, hi : {7}]
MCLeftTrimmed == {[lo |-> 2, hi |-> 7]}

MCView == [x |-> 16, y |-> 16]
MCDims == {[x |-> 4, y |-> 0], [x |-> 4, y |-> 2], [x |-> 8, y |-> 8]}
MCBar == [thickness |-> 2, extend |-> 1]

MCInit ==
    /\ Init /\ ViewportInit
    /\ \/ followed = "cells" /\ dims = CHOOSE d \in Dims : TRUE
       \/ /\ followed = "pixels"
          /\ resolution = CHOOSE r \in Resolutions : TRUE
          /\ bars = CHOOSE n \in Lengths : TRUE
          /\ drawingStyle = CHOOSE s \in Styles : TRUE

MCNext ==
    \/ followed = "cells" /\ Next /\ UNCHANGED <<viewportVars, followed>>
    \/ followed = "pixels" /\ ViewportNext /\ UNCHANGED <<vars, followed>>

MCSpec == MCInit /\ [][MCNext]_<<vars, viewportVars, followed>>
=============================================================================
