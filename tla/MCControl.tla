------------------------------ MODULE MCControl ------------------------------
(* Instances of ControlMode for TLC: two keys, the second of which may     *)
(* lose its slice and get it back.                                         *)
EXTENDS ControlMode

MCSliceLen == [a |-> 4, b |-> 6]
MCLists == {<<>>, <<"a">>, <<"a", "b">>}
MCEntries == {0}
=============================================================================
