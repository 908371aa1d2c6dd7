---------------------------- MODULE MTQueueNodes ----------------------------
(***************************************************************************)
(* MTQueue with its linked list as src/MTQueue.c keeps it: heap-allocated   *)
(* elements, the head and tail pointers and the element counter.  Who waits *)
(* and who is woken is as in module MTQueue, whose specification this one   *)
(* implements with the list read off the pointers.                          *)
(***************************************************************************)
EXTENDS Naturals, Sequences, FiniteSets

CONSTANTS
    Threads, Data,
    Nodes,      \* the addresses ANY_TALLOC may return: at most this many elements
    Null        \* the NULL pointer

VARIABLES
    allocated,      \* the nodes that are allocated and not yet freed
    next, data,     \* the fields of each node
    head, tail,     \* self->head, self->tail
    numElements,    \* self->numElements
    type, quit, popper      \* as in MTQueue

vars == <<allocated, next, data, head, tail, numElements, type, quit, popper>>
list == <<allocated, next, data, head, tail, numElements>>

\* The node `i' steps down the list from the head, starting at 1.
NodeAt[i \in Nat] ==
    IF i <= 1 THEN head
    ELSE LET before == NodeAt[i - 1] IN IF before = Null THEN Null ELSE next[before]

Queue == INSTANCE MTQueue WITH
            elements <- [i \in 1..numElements |-> data[NodeAt[i]]],
            MaxLen   <- Cardinality(Nodes)

TypeOK ==
    /\ allocated \subseteq Nodes
    /\ next \in [Nodes -> Nodes \cup {Null}]
    /\ data \in [Nodes -> Data]
    /\ head \in Nodes \cup {Null}
    /\ tail \in Nodes \cup {Null}
    /\ numElements \in 0..Cardinality(Nodes)
    /\ type \in {"FIFO", "LIFO"}
    /\ quit \in BOOLEAN
    /\ popper \in [Threads -> Queue!PopperState]

Init ==
    /\ allocated = {}
    /\ next = [n \in Nodes |-> Null]
    /\ data \in {[n \in Nodes |-> d] : d \in Data}
    /\ head = Null /\ tail = Null
    /\ numElements = 0
    /\ type \in {"FIFO", "LIFO"}
    /\ quit = FALSE
    /\ popper = [t \in Threads |-> "outside"]

-----------------------------------------------------------------------------
(* MTQueue_addTail: link behind the last node, or start the list *)
AddTail(e, d) ==
    /\ next' = IF tail = Null THEN [next EXCEPT ![e] = Null]
                              ELSE [next EXCEPT ![e] = Null, ![tail] = e]
    /\ head' = IF tail = Null THEN e ELSE head
    /\ tail' = e

\* Mutant: the element goes to the wrong end.
AddHeadBehind(e, d) == AddTail(e, d)

(* MTQueue_addHead: link before the first node, or start the list *)
AddHead(e, d) ==
    /\ next' = [next EXCEPT ![e] = head]
    /\ head' = e
    /\ tail' = IF head = Null THEN e ELSE tail

(* MTQueue_push *)
Push(t, d) ==
    /\ popper[t] = "outside"
    /\ \E e \in Nodes \ allocated :
          /\ allocated' = allocated \cup {e}
          /\ data' = [data EXCEPT ![e] = d]
          /\ IF type = "FIFO" THEN AddTail(e, d) ELSE AddHead(e, d)
    /\ numElements' = numElements + 1
    /\ Queue!SignalPush
    /\ UNCHANGED quit

(* MTQueue_unlockedPop *)
UnlockedPop ==
    \/ /\ numElements > 0
       /\ allocated' = allocated \ {head}
       /\ numElements' = numElements - 1
       /\ head' = IF numElements = 1 THEN Null ELSE next[head]
       /\ tail' = IF numElements = 1 THEN Null ELSE tail
       /\ UNCHANGED <<next, data>>
    \/ /\ numElements = 0
       /\ UNCHANGED list

(* MTQueue_pop *)
Pop(t) ==
    /\ popper[t] = "outside"
    /\ UnlockedPop
    /\ UNCHANGED <<quit, popper>>

(* MTQueue_popWait *)
PopWaitNow(t) ==
    /\ popper[t] = "outside"
    /\ quit \/ numElements > 0
    /\ IF quit THEN UNCHANGED list ELSE UnlockedPop
    /\ UNCHANGED <<quit, popper>>

PopWaitSleep(t) ==
    /\ popper[t] = "outside"
    /\ ~quit
    /\ numElements = 0
    /\ popper' = [popper EXCEPT ![t] = "asleep"]
    /\ UNCHANGED <<list, quit>>

PopWaitResume(t) ==
    /\ popper[t] = "woken"
    /\ UnlockedPop
    /\ popper' = [popper EXCEPT ![t] = "outside"]
    /\ UNCHANGED quit

WakeUnsignalled(t) ==
    /\ popper[t] = "asleep"
    /\ popper' = [popper EXCEPT ![t] = "woken"]
    /\ UNCHANGED <<list, quit>>

SetQuit(status) ==
    /\ quit' = status
    /\ UNCHANGED <<list, popper>>

WakeUpAll ==
    /\ popper' = [t \in Threads |-> IF popper[t] = "asleep" THEN "woken" ELSE popper[t]]
    /\ UNCHANGED <<list, quit>>

NodesStep ==
    \/ \E t \in Threads :
          \/ \E d \in Data : Push(t, d)
          \/ Pop(t)
          \/ PopWaitNow(t)
          \/ PopWaitSleep(t)
          \/ PopWaitResume(t)
          \/ WakeUnsignalled(t)
    \/ \E status \in BOOLEAN : SetQuit(status)
    \/ WakeUpAll

Next == NodesStep /\ UNCHANGED type

Spec == Init /\ [][Next]_vars

-----------------------------------------------------------------------------
(* No pointer dangles: head and tail are NULL exactly when the list is       *)
(* empty, and otherwise the list from head reaches every allocated element   *)
(* once, ends at tail, and tail ends it.  MTQueue_addTail writes through     *)
(* tail and MTQueue_unlockedPop reads through head without a check.          *)
ListWellFormed ==
    /\ Cardinality(allocated) = numElements
    /\ {NodeAt[i] : i \in 1..numElements} = allocated
    /\ IF numElements = 0 THEN head = Null /\ tail = Null
       ELSE tail = NodeAt[numElements] /\ next[tail] = Null

(* The pointers implement the sequence of MTQueue: pushes and pops of the    *)
(* list are pushes and pops of its contents, in FIFO or LIFO order.          *)
ImplementsQueue == Queue!Spec
=============================================================================
