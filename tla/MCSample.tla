------------------------------ MODULE MCSample ------------------------------
(* Instances of WaveformGestures for TLC: a sound with a sliver before its *)
(* first onset and a silent tail, and a shorter one.                       *)
EXTENDS WaveformGestures

MCLength == [long |-> 8, short |-> 3]
MCPeaks == [long |-> [low |-> {4}, high |-> {1, 4, 6}],
            short |-> [low |-> {}, high |-> {2}]]
MCQuiet == [long |-> {6, 7}, short |-> {}]
MCZooms == {[handle |-> 1, marker |-> 1]}
=============================================================================
