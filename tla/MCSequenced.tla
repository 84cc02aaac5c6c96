----------------------------- MODULE MCSequenced -----------------------------
(* Instances of SequencedMode for TLC: patterns of two and three columns,  *)
(* with empty columns, subdivided steps, extensions and Tape Stop.         *)
EXTENDS SequencedMode

MCSliceLen == [a |-> 5, b |-> 9]

Sub(row)   == [row |-> row, style |-> "tapeStop", steps |-> 2, sub |-> 3]
Long(row)  == [row |-> row, style |-> "stretch", steps |-> 3, sub |-> 3]
Turn(row)  == [row |-> row, style |-> "scratch", steps |-> 0, sub |-> 0]

Pair   == [step |-> 6, cells |-> <<Long(1), Sub(2)>>]
Gap    == [step |-> 6, cells |-> <<Sub(1), EmptyCell>>]
Triple == [step |-> 4, cells |-> <<Sub(2), EmptyCell, Turn(1)>>]

MCPatterns == {Gap, Triple}
MCBank == [n1 |-> Pair, n2 |-> EmptySlot]

MCTrimmed == {<<>>, <<"a">>, <<"b">>, <<"a", "b">>}
MCEntries == {-3, 9}
=============================================================================
