---------------------------- MODULE MCPerformance ----------------------------
(* Instances of PerformanceMode for TLC: two keys; "k2" may have the       *)
(* focus; slot "k1" is rewritten and emptied while it plays or waits.      *)
EXTENDS PerformanceMode

MCSliceLen == [a |-> 4, b |-> 6]
MCKeys == {"k1", "k2"}
MCLoop == [segment |-> "a", style |-> "straight", loop |-> TRUE]
MCOneShot == [segment |-> "b", style |-> "scratch", loop |-> FALSE]
MCSnapshots == {MCLoop, MCOneShot, Unpopulated}

MCState(k1, k2, working, focus, quantize, interval) ==
    [ bank |-> [k1 |-> k1, k2 |-> k2], working |-> working,
      focus |-> focus, quantize |-> quantize, interval |-> interval ]

MCStates ==
    {MCState(MCLoop, MCOneShot, MCLoop, NoNote, TRUE, 7),
     MCState(MCOneShot, MCOneShot, MCLoop, "k2", TRUE, 7),
     MCState(MCLoop, MCOneShot, MCOneShot, NoNote, FALSE, 7),
     MCState(Unpopulated, MCLoop, Unpopulated, "k2", TRUE, 10)}

MCEntries == {-3, 9}
=============================================================================
