------------------------------- MODULE MCClock -------------------------------
(* Instances of ClockMode for TLC.                                         *)
EXTENDS ClockMode

MCSliceLen == [a |-> 3, b |-> 9]

(* The trim hides slices at the right end, at the left end, or all.        *)
MCTrimmed == {<<>>, <<"a">>, <<"b">>, <<"a", "b">>}

MCEntries == {-3, 0}
=============================================================================
