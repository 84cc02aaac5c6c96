---------------------------- MODULE MCSliceLength ----------------------------
(* Instances of SliceLengthMode for TLC.  Slice "dot" is a single frame:   *)
(* every straight pick of it is over before it began.                      *)
EXTENDS SliceLengthMode

MCSliceLen == [dot |-> 2, a |-> 7, b |-> 11]
MCLists == {<<>>, <<"dot">>, <<"a", "b">>, <<"dot", "a">>}
MCEntries == {-3, 0, 5}
=============================================================================
