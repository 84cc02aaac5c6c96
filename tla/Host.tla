-------------------------------- MODULE Host --------------------------------
(***************************************************************************)
(* The timeline the audio thread lives on.  The host calls                 *)
(* NeditProcessor::process once per block; inside a block every trigger    *)
(* mode of VoiceScheduler walks the block sample by sample and derives the *)
(* musical position of each sample from the block's start.                 *)
(*                                                                         *)
(* Musical time is counted in integer ticks.  A sample lasts PpqPerSample  *)
(* ticks, so a boundary may fall between two samples; every duration of    *)
(* the models is in ticks too.  Positions may be negative (pre-roll).      *)
(***************************************************************************)
EXTENDS Integers, Sequences

CONSTANTS
    PpqPerSample, \* ticks per host sample
    BlockSizes,   \* the sizes (in samples) of the blocks the host may send
    Entries,      \* the positions where the host may start playing
    LastPpq,      \* bound: the timeline ends here
    Relocates     \* may the host jump (loop, seek) while it keeps playing?

ASSUME HostAssumption ==
    /\ PpqPerSample \in Nat \ {0}
    /\ BlockSizes \subseteq Nat \ {0}
    /\ Entries \subseteq Int
    /\ LastPpq \in Int
    /\ \A p \in Entries : p <= LastPpq
    /\ Relocates \in BOOLEAN

VARIABLES
    playing, \* TransportFrame::playing of the current block
    ppq,     \* position of the next sample to be rendered
    left     \* samples of the current block still to be rendered

hostVars == <<playing, ppq, left>>

HostTypeOK ==
    /\ playing \in BOOLEAN
    /\ ppq \in Int
    /\ left \in Nat

HostInit ==
    /\ playing = FALSE
    /\ ppq \in Entries
    /\ left = 0

(***************************************************************************)
(* The "(windowIndex + 1) * windowBeats" shape that every boundary of the  *)
(* scheduler is computed with: the first grid point after p.  The floor of *)
(* the code is p - (p % grid), also for a negative p.                      *)
(***************************************************************************)
NextBoundary(p, grid) == p - (p % grid) + grid

(***************************************************************************)
(* The host starts a block.  "runs" says whether the scheduler will walk   *)
(* the block or bypass it.  While the transport plays the blocks are       *)
(* contiguous unless the host relocates; after a stop it may resume where  *)
(* it stopped or enter somewhere else.  The position of a bypassed block   *)
(* moves on at once.                                                       *)
(***************************************************************************)
HostBlock(play, size, runs) ==
    /\ left = 0
    /\ playing' = play
    /\ \E start \in IF play /\ (~playing \/ Relocates) THEN {ppq} \cup Entries
                   ELSE {ppq} :
        /\ play => start + size * PpqPerSample <= LastPpq
        /\ ppq' = IF play /\ ~runs THEN start + size * PpqPerSample ELSE start
    /\ left' = IF runs THEN size ELSE 0

(* One sample goes by. *)
HostSample ==
    /\ left > 0
    /\ left' = left - 1
    /\ ppq' = IF playing THEN ppq + PpqPerSample ELSE ppq
    /\ UNCHANGED playing

(* The rest of the block is abandoned (bailUntilBlockEnd_): the position   *)
(* still moves to the end of the block.                                    *)
HostBail ==
    /\ left > 0
    /\ left' = 0
    /\ ppq' = IF playing THEN ppq + left * PpqPerSample ELSE ppq
    /\ UNCHANGED playing
=============================================================================
