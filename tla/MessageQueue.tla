---------------------------- MODULE MessageQueue ----------------------------
(***************************************************************************)
(* What a reliable ordered channel promises: a bounded queue of messages,  *)
(* and none accepted any more once one was refused.  What is in the queue  *)
(* when the connection ends is lost.                                       *)
(***************************************************************************)
EXTENDS Naturals, Sequences

CONSTANTS
    Values,         \* messages
    Capacity        \* messages on their way

VARIABLES
    queue,          \* sent and not received
    failed,         \* a message was refused
    open            \* the connection has not ended

QueueType ==
    /\ queue \in Seq(Values) /\ Len(queue) <= Capacity
    /\ failed \in BOOLEAN /\ open \in BOOLEAN
    /\ ~open => queue = <<>>

QueueInit == queue = <<>> /\ failed = FALSE /\ open = TRUE

Send ==
    /\ open /\ ~failed /\ UNCHANGED <<failed, open>>
    /\ Len(queue') \in (Len(queue) + 1)..Capacity
    /\ \E v \in Values : queue' = Append(queue, v)

Receive ==
    /\ open /\ UNCHANGED <<failed, open>>
    /\ Len(queue') < Len(queue)
    /\ queue' = Tail(queue)

Fail == ~failed /\ failed' = TRUE /\ UNCHANGED <<open, queue>>

Close == open /\ open' = FALSE /\ queue' = <<>> /\ UNCHANGED failed

QueueNext == Send \/ Receive \/ Fail \/ Close
QueueSpec == QueueInit /\ [][QueueNext]_<<failed, open, queue>>
=============================================================================
