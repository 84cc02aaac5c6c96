---------------------------- MODULE CommandFifo -----------------------------
(***************************************************************************)
(* What the UI->engine side channel promises: a bounded first-in first-out *)
(* queue.  A push appends or is refused because the queue is full, a pop   *)
(* takes the oldest command or finds the queue empty, each in one step.    *)
(* "ret" holds what the last call of either side returned.                 *)
(***************************************************************************)
EXTENDS Naturals, Sequences

CONSTANTS Commands, Capacity

VARIABLES queue, ret

fifoVars == <<queue, ret>>

Results == {"pushed", "full", "empty", "none"} \cup Commands

Init == queue = <<>> /\ ret = [push |-> "none", pop |-> "none"]

Push(c) ==
    /\ Len(queue) < Capacity
    /\ queue' = Append(queue, c)
    /\ ret' = [ret EXCEPT !.push = "pushed"]

RefusePush ==
    /\ Len(queue) = Capacity
    /\ ret' = [ret EXCEPT !.push = "full"]
    /\ UNCHANGED queue

Pop ==
    /\ queue # <<>>
    /\ ret' = [ret EXCEPT !.pop = Head(queue)]
    /\ queue' = Tail(queue)

RefusePop ==
    /\ queue = <<>>
    /\ ret' = [ret EXCEPT !.pop = "empty"]
    /\ UNCHANGED queue

Next == (\E c \in Commands : Push(c)) \/ RefusePush \/ Pop \/ RefusePop

Spec == Init /\ [][Next]_fifoVars
=============================================================================
