---------------------------- MODULE CommandQueue ----------------------------
(***************************************************************************)
(* SpscCommandQueue (engine/CommandQueue.h): one producer, one consumer, a *)
(* ring of Capacity slots and two free-running cursors of a fixed width.   *)
(*                                                                         *)
(* Every call is split where the other thread may run: a cursor is loaded, *)
(* then a slot is copied (a copy of three words has a beginning and an     *)
(* end), then the own cursor is stored.  A load may therefore be as old as *)
(* the other thread likes when it is used.  A slot that is half written    *)
(* holds Torn.                                                             *)
(***************************************************************************)
EXTENDS Integers, Sequences

CONSTANTS
    Commands,   \* EngineCommand
    Capacity,   \* slots_.size()
    Modulus,    \* 2^64: the cursors are std::uint64_t
    Torn        \* a slot between the first and the last word of a copy

ASSUME QueueAssumption ==
    /\ Capacity \in Nat \ {0} /\ Modulus \in Nat
    /\ Modulus > Capacity /\ Modulus % Capacity = 0   \* both powers of two
    /\ Torn \notin Commands \cup {"none"}
    /\ {"pushed", "full", "empty", "none"} \cap Commands = {}

VARIABLES
    slots,       \* slots_
    head, tail,  \* head_, tail_
    producer,    \* where push() is, what it pushes, the head_ it loaded
    consumer,    \* where pop() is, the tail_ it loaded, what it copied
    ret          \* what the last push and the last pop returned

queueVars == <<slots, head, tail, producer, consumer, ret>>

Cursors == 0..(Modulus - 1)
NoCommand == "none"
Idle == [pc |-> "idle", command |-> NoCommand]

QueueInit ==
    /\ slots \in [0..(Capacity - 1) -> {NoCommand}]
    /\ head = 0 /\ tail = 0
    /\ producer = Idle /\ consumer = Idle
    /\ ret = [push |-> "none", pop |-> "none"]

\* tail - head, in the cursors' width, and the slot of a cursor.
Used(t, h) == (t - h + Modulus) % Modulus
Slot(c) == c % Capacity
AfterMasked(c) == (c + 1) % Capacity
After(c) == (c + 1) % Modulus

-----------------------------------------------------------------------------
IsFullOffByOne(t, h) == Used(t, h) = Capacity + 1
IsFull(t, h) == Used(t, h) = Capacity

\* push(): the own cursor and the consumer's are loaded, and the call
\* returns false at once if no slot is free.
BeginPush(c) ==
    /\ producer.pc = "idle"
    /\ IF IsFull(tail, head)
       THEN /\ ret' = [ret EXCEPT !.push = "full"]
            /\ UNCHANGED producer
       ELSE /\ producer' = [pc |-> "write", command |-> c]
            /\ UNCHANGED ret
    /\ UNCHANGED <<slots, head, tail, consumer>>

BeginWrite ==
    /\ producer.pc = "write"
    /\ slots' = [slots EXCEPT ![Slot(tail)] = Torn]
    /\ producer' = [producer EXCEPT !.pc = "writing"]
    /\ UNCHANGED <<head, tail, consumer, ret>>

EndWrite ==
    /\ producer.pc = "writing"
    /\ slots' = [slots EXCEPT ![Slot(tail)] = producer.command]
    /\ producer' = [producer EXCEPT !.pc = "publish"]
    /\ UNCHANGED <<head, tail, consumer, ret>>

StoreTail ==
    /\ producer.pc = "publish"
    /\ tail' = After(tail)
    /\ producer' = Idle
    /\ ret' = [ret EXCEPT !.push = "pushed"]
    /\ UNCHANGED <<slots, head, consumer>>

\* pop(): false at once if the producer's cursor is the own one.
BeginPop ==
    /\ consumer.pc = "idle"
    /\ IF head = tail
       THEN /\ ret' = [ret EXCEPT !.pop = "empty"]
            /\ UNCHANGED consumer
       ELSE /\ consumer' = [consumer EXCEPT !.pc = "read"]
            /\ UNCHANGED ret
    /\ UNCHANGED <<slots, head, tail, producer>>

\* The copy begins and ends with the slot as it is; a copy that met a half
\* written slot, or whose slot changed under it, is torn.
BeginRead ==
    /\ consumer.pc = "read"
    /\ consumer' = [pc |-> "reading", command |-> slots[Slot(head)]]
    /\ UNCHANGED <<slots, head, tail, producer, ret>>

EndRead ==
    /\ consumer.pc = "reading"
    /\ consumer' = [pc |-> "free",
                    command |-> IF consumer.command = slots[Slot(head)]
                                THEN consumer.command ELSE Torn]
    /\ UNCHANGED <<slots, head, tail, producer, ret>>

StoreHead ==
    /\ consumer.pc = "free"
    /\ head' = After(head)
    /\ consumer' = Idle
    /\ ret' = [ret EXCEPT !.pop = consumer.command]
    /\ UNCHANGED <<slots, tail, producer>>

QueueNext ==
    \/ \E c \in Commands : BeginPush(c)
    \/ BeginWrite \/ EndWrite \/ StoreTail
    \/ BeginPop \/ BeginRead \/ EndRead \/ StoreHead

QueueSpec == QueueInit /\ [][QueueNext]_queueVars

-----------------------------------------------------------------------------
Transfers == {NoCommand, Torn} \cup Commands

QueueTypeOK ==
    /\ slots \in [0..(Capacity - 1) -> Transfers]
    /\ head \in Cursors /\ tail \in Cursors
    /\ producer \in [pc : {"idle", "write", "writing", "publish"},
                     command : Commands \cup {NoCommand}]
    /\ consumer \in [pc : {"idle", "read", "reading", "free"},
                     command : Transfers]
    /\ ret \in [push : {"none", "pushed", "full"},
                pop : {"none", "empty", Torn} \cup Commands]

\* "Exactly one thread calls push(), exactly one pop()", and they never
\* touch the same slot at the same time: slots_ is plain memory, and a
\* write that runs beside a copy would be a data race.
RaceFree ==
    (producer.pc = "writing" /\ consumer.pc = "reading")
        => Slot(tail) # Slot(head)

\* The commands between the cursors, oldest first.
Pending ==
    [i \in 1..Used(tail, head) |-> slots[(head + i - 1) % Capacity]]

Fifo == INSTANCE CommandFifo WITH queue <- Pending

\* However the calls of the two threads overlap and wherever the cursors
\* wrap, the ring is a bounded first-in first-out queue: no command is
\* lost, repeated, reordered or torn, push() refuses only a full queue and
\* pop() only an empty one (each at the moment it loaded the other cursor).
ImplementsFifo == Fifo!Spec
=============================================================================
