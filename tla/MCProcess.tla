------------------------------ MODULE MCProcess ------------------------------
(***************************************************************************)
(* The two ways in which the editor's thread and the audio thread meet:    *)
(* the published state with the audition's atomics, and the ring of        *)
(* commands.  They share nothing, so a behaviour follows one of them and   *)
(* leaves the other where it starts.                                       *)
(*                                                                         *)
(* Auditions: a trim inside the sample, two slices of which neither        *)
(* contains the other, and a sample that is played at half again its rate, *)
(* so that every other place lies between frames.  Commands: a ring of     *)
(* four slots with cursors of three bits, which wrap within every few      *)
(* calls.                                                                  *)
(***************************************************************************)
EXTENDS ProcessBlock, CommandQueue

VARIABLE followed   \* "audition" or "queue"

MCTrims == {[lo |-> 1, hi |-> 3]}
MCSlices == {[lo |-> 0, hi |-> 2], [lo |-> 1, hi |-> 3]}
MCRates == {[frame |-> 1, part |-> 1]}

MCInit == ProcessInit /\ QueueInit /\ followed \in {"audition", "queue"}

MCNext ==
    \/ followed = "audition" /\ ProcessNext /\ UNCHANGED <<queueVars, followed>>
    \/ followed = "queue" /\ QueueNext /\ UNCHANGED <<processVars, followed>>

\* Fairness is the audition's: where the queue is followed it asks nothing,
\* since no handler of an audition ever begins.
MCSpec ==
    /\ MCInit /\ [][MCNext]_<<processVars, queueVars, followed>>
    /\ followed = "audition" => Fairness
=============================================================================
