------------------------------- MODULE MTQueue -------------------------------
(***************************************************************************)
(* The multi-threaded queue of src/MTQueue.c: a linked list of elements     *)
(* behind one Mutex, and one Cond (pushCond) that MTQueue_popWait sleeps    *)
(* on.  Everything the code does between MTQueue_lock and MTQueue_unlock    *)
(* is one step here; only Cond_wait, which gives the lock away, splits an   *)
(* operation in two.                                                        *)
(*                                                                          *)
(* The list is modelled by the sequence of its data, head first; module     *)
(* MTQueueNodes models the nodes and pointers and implements this one.      *)
(*                                                                          *)
(* Bound: MaxLen caps the number of elements a state may hold.              *)
(***************************************************************************)
EXTENDS Naturals, Sequences, FiniteSets

CONSTANTS
    Threads,    \* the threads that use the queue
    Data,       \* what is pushed (a data pointer and its user class)
    MaxLen      \* bound on the length of the queue

ASSUME MTQueueAssumption ==
    /\ IsFiniteSet(Threads)
    /\ MaxLen \in Nat

VARIABLES
    type,       \* self->type, MTQUEUE_FIFO or MTQUEUE_LIFO
    elements,   \* the data in the list, head first
    quit,       \* self->quit
    popper      \* where each thread is in MTQueue_popWait

queueVars == <<type, elements, quit, popper>>

\* A thread is outside of popWait, blocked in Cond_wait, or woken from it and
\* waiting for the mutex.
PopperState == {"outside", "asleep", "woken"}

Asleep == {t \in Threads : popper[t] = "asleep"}
Woken  == {t \in Threads : popper[t] = "woken"}

TypeOK ==
    /\ type \in {"FIFO", "LIFO"}
    /\ elements \in Seq(Data)
    /\ quit \in BOOLEAN
    /\ popper \in [Threads -> PopperState]

(* MTQueue_init, for several threads *)
Init ==
    /\ type \in {"FIFO", "LIFO"}
    /\ elements = <<>>
    /\ quit = FALSE
    /\ popper = [t \in Threads |-> "outside"]

-----------------------------------------------------------------------------
\* Mutants of the operations stand before each of them, here and in the
\* other modules: what a plausible slip in the code would do.
AddedAtWrongEnd(d) == IF type = "FIFO" THEN <<d>> \o elements ELSE Append(elements, d)

(* MTQueue_addTail and MTQueue_addHead *)
Added(d) == IF type = "FIFO" THEN Append(elements, d) ELSE <<d>> \o elements

\* Mutant: nobody is woken.
SignalPushForgotten == UNCHANGED popper

(* MTQueue_signalPush: Cond_signal wakes one sleeping thread if there is one *)
SignalPush ==
    \/ Asleep = {} /\ UNCHANGED popper
    \/ \E s \in Asleep : popper' = [popper EXCEPT ![s] = "woken"]

(* MTQueue_push *)
Push(t, d) ==
    /\ popper[t] = "outside"
    /\ Len(elements) < MaxLen
    /\ elements' = Added(d)
    /\ SignalPush
    /\ UNCHANGED quit

(* MTQueue_unlockedPop: the head, or NULL (nothing is removed) *)
UnlockedPop ==
    elements' = IF elements = <<>> THEN <<>> ELSE Tail(elements)

(* MTQueue_pop *)
Pop(t) ==
    /\ popper[t] = "outside"
    /\ UnlockedPop
    /\ UNCHANGED <<quit, popper>>

(* MTQueue_popWait up to its return, when it need not wait *)
PopWaitNow(t) ==
    /\ popper[t] = "outside"
    /\ quit \/ elements # <<>>
    /\ IF quit THEN UNCHANGED elements ELSE UnlockedPop
    /\ UNCHANGED <<quit, popper>>

\* Mutant: quit is not tested.
PopWaitSleepDespiteQuit(t) ==
    /\ popper[t] = "outside"
    /\ elements = <<>>
    /\ popper' = [popper EXCEPT ![t] = "asleep"]
    /\ UNCHANGED <<elements, quit>>

(* MTQueue_popWait up to Cond_wait on the empty queue *)
PopWaitSleep(t) ==
    /\ popper[t] = "outside"
    /\ ~quit
    /\ elements = <<>>
    /\ popper' = [popper EXCEPT ![t] = "asleep"]
    /\ UNCHANGED <<elements, quit>>

(* MTQueue_popWait from the return of Cond_wait on: the code tests neither   *)
(* quit nor numElements again, so it may find the queue empty.               *)
PopWaitResume(t) ==
    /\ popper[t] = "woken"
    /\ UnlockedPop
    /\ popper' = [popper EXCEPT ![t] = "outside"]
    /\ UNCHANGED quit

(* pthread_cond_timedwait runs into its timeout, or the wait ends spuriously *)
WakeUnsignalled(t) ==
    /\ popper[t] = "asleep"
    /\ popper' = [popper EXCEPT ![t] = "woken"]
    /\ UNCHANGED <<elements, quit>>

(* MTQueue_setQuit *)
SetQuit(status) ==
    /\ quit' = status
    /\ UNCHANGED <<elements, popper>>

(* MTQueue_wakeUpAll *)
WakeUpAll ==
    /\ popper' = [t \in Threads |-> IF t \in Asleep THEN "woken" ELSE popper[t]]
    /\ UNCHANGED <<elements, quit>>

QueueStep ==
    \/ \E t \in Threads :
          \/ \E d \in Data : Push(t, d)
          \/ Pop(t)
          \/ PopWaitNow(t)
          \/ PopWaitSleep(t)
          \/ PopWaitResume(t)
          \/ WakeUnsignalled(t)
    \/ \E status \in BOOLEAN : SetQuit(status)
    \/ WakeUpAll

Next == QueueStep /\ UNCHANGED type

Spec == Init /\ [][Next]_queueVars

-----------------------------------------------------------------------------
(* While a thread sleeps in popWait, every element in the queue has a woken *)
(* thread on its way to it: a push never leaves an element behind with all  *)
(* its possible consumers asleep.  Depends on push adding and signalling    *)
(* under one lock and on popWait testing numElements under it.              *)
NoLostWakeup == Asleep # {} => Len(elements) <= Cardinality(Woken)

(* Whoever waits was let in before quit was set: once it is set and all are *)
(* woken, no thread falls asleep until quit is taken back.                  *)
QuitKeepsAwake == [][quit /\ quit' => Asleep' \subseteq Asleep]_queueVars
=============================================================================
