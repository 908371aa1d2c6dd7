------------------------------ MODULE BoundedQueue ------------------------------
(***************************************************************************)
(* What src/PQueue.c promises to the threads that push and pop: a first-in  *)
(* first-out queue of bounded length.                                       *)
(***************************************************************************)
EXTENDS Naturals, Sequences

CONSTANTS Data, MaxLength

VARIABLES
    queue,      \* the elements, the oldest first
    popped      \* the elements that were delivered, in their order

Init == queue = <<>> /\ popped = <<>>

Push(d) ==
    /\ Len(queue) < MaxLength
    /\ queue' = Append(queue, d)
    /\ UNCHANGED popped

Pop ==
    /\ queue # <<>>
    /\ popped' = Append(popped, Head(queue))
    /\ queue' = Tail(queue)

(* A queue that is cleared and initialised again starts afresh.                *)
Clear == queue' = <<>> /\ popped' = <<>>

Next == (\E d \in Data : Push(d)) \/ Pop \/ Clear

Spec == Init /\ [][Next]_<<queue, popped>>
================================================================================
