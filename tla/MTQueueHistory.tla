---------------------------- MODULE MTQueueHistory ----------------------------
(***************************************************************************)
(* MTQueue with a history: the data are numbered in the order in which they *)
(* are pushed, and `taken' records them in the order in which they leave.   *)
(*                                                                          *)
(* Bound: MaxPushes caps the number of pushes.                              *)
(***************************************************************************)
EXTENDS MTQueue

CONSTANT MaxPushes

ASSUME HistoryAssumption ==
    /\ MaxPushes \in Nat
    /\ Data = 1..MaxPushes
    /\ MaxLen >= MaxPushes

VARIABLES
    pushes,     \* pushes so far; also the datum pushed last
    taken       \* the data popped so far, in the order of the pops

vars == <<queueVars, pushes, taken>>

HistoryTypeOK ==
    /\ TypeOK
    /\ pushes \in 0..MaxPushes
    /\ taken \in Seq(Data)

HistoryInit ==
    /\ Init
    /\ pushes = 0
    /\ taken = <<>>

\* What left the queue in this step is what one of the pops returned.
Record == taken' = IF Len(elements') < Len(elements)
                   THEN Append(taken, Head(elements)) ELSE taken

PushNumbered(t) ==
    /\ pushes < MaxPushes
    /\ Push(t, pushes + 1)
    /\ pushes' = pushes + 1
    /\ UNCHANGED taken

PopRecorded(t) ==
    /\ Pop(t) \/ PopWaitNow(t) \/ PopWaitResume(t)
    /\ Record
    /\ UNCHANGED pushes

WaitOrWake ==
    /\ \/ \E t \in Threads : PopWaitSleep(t) \/ WakeUnsignalled(t)
       \/ \E status \in BOOLEAN : SetQuit(status)
       \/ WakeUpAll
    /\ UNCHANGED <<pushes, taken>>

HistoryNext ==
    /\ \/ \E t \in Threads : PushNumbered(t) \/ PopRecorded(t)
       \/ WaitOrWake
    /\ UNCHANGED type

HistorySpec == HistoryInit /\ [][HistoryNext]_vars

-----------------------------------------------------------------------------
(* First in, first out, nothing lost and nothing twice: what has been taken, *)
(* followed by what is still queued, is what was pushed, in its order,       *)
(* whichever threads push, pop, wait and are woken meanwhile.                *)
FifoOrder ==
    type = "FIFO" => taken \o elements = [i \in 1..pushes |-> i]

(* Last in, first out: the queue holds its data in the reverse order of their *)
(* pushes, so that the head is the newest, and every datum pushed so far is    *)
(* either queued or taken and never both.                                      *)
LifoOrder ==
    type = "LIFO" =>
        /\ \A i, j \in 1..Len(elements) : i < j => elements[i] > elements[j]
        /\ {taken[i] : i \in 1..Len(taken)} \cup {elements[i] : i \in 1..Len(elements)}
               = 1..pushes
        /\ Len(taken) + Len(elements) = pushes

(* What a queue of either type promises about the order of its data.         *)
PopOrder ==
    /\ FifoOrder
    /\ LifoOrder
=============================================================================
