---------------------------- MODULE MTQueueProofs ----------------------------
(***************************************************************************)
(* Proofs about MTQueue and MTQueueHistory, for any finite set of threads,  *)
(* any data and any bound on the length.                                    *)
(***************************************************************************)
EXTENDS MTQueueHistory, FiniteSetTheorems, SequenceTheorems, TLAPS

\* A set of threads is finite and so has a cardinality.
LEMMA ThreadSetsFinite ==
    /\ IsFiniteSet(Woken) /\ Cardinality(Woken) \in Nat
    /\ IsFiniteSet(Asleep)
<1>1. IsFiniteSet(Threads)
  BY MTQueueAssumption
<1>2. Woken \subseteq Threads /\ Asleep \subseteq Threads
  BY DEF Woken, Asleep
<1> QED
  BY <1>1, <1>2, FS_Subset, FS_CardinalityType

\* What MTQueue_addTail and MTQueue_addHead do to the length, and what
\* MTQueue_unlockedPop does to it.
LEMMA LengthAfterAdd ==
    ASSUME elements \in Seq(Data), NEW d \in Data
    PROVE  Added(d) \in Seq(Data) /\ Len(Added(d)) = Len(elements) + 1
BY DEF Added

LEMMA LengthAfterPop ==
    ASSUME elements \in Seq(Data), UnlockedPop
    PROVE  /\ elements' \in Seq(Data)
           /\ Len(elements') = IF Len(elements) = 0 THEN 0 ELSE Len(elements) - 1
<1>1. CASE elements = <<>>
  BY <1>1 DEF UnlockedPop
<1>2. CASE elements # <<>>
  BY <1>2 DEF UnlockedPop
<1> QED BY <1>1, <1>2

\* The variables keep their types in every step of the queue.
LEMMA TypeStep == TypeOK /\ [Next]_queueVars => TypeOK'
<1> SUFFICES ASSUME TypeOK, [Next]_queueVars PROVE TypeOK'
  OBVIOUS
<1> USE DEF TypeOK, PopperState
<1>0. type' \in {"FIFO", "LIFO"}
  BY DEF Next, queueVars
<1>1. ASSUME NEW t \in Threads, NEW d \in Data, Push(t, d) PROVE TypeOK'
  <2>1. elements' \in Seq(Data)
    BY <1>1, LengthAfterAdd DEF Push
  <2>2. popper' \in [Threads -> PopperState]
    BY <1>1 DEF Push, SignalPush, Asleep
  <2> QED BY <1>0, <1>1, <2>1, <2>2 DEF Push
<1>2. ASSUME NEW t \in Threads, Pop(t) PROVE TypeOK'
  BY <1>0, <1>2, LengthAfterPop DEF Pop
<1>3. ASSUME NEW t \in Threads, PopWaitNow(t) PROVE TypeOK'
  BY <1>0, <1>3, LengthAfterPop DEF PopWaitNow
<1>4. ASSUME NEW t \in Threads, PopWaitSleep(t) PROVE TypeOK'
  BY <1>0, <1>4 DEF PopWaitSleep
<1>5. ASSUME NEW t \in Threads, PopWaitResume(t) PROVE TypeOK'
  BY <1>0, <1>5, LengthAfterPop DEF PopWaitResume
<1>6. ASSUME NEW t \in Threads, WakeUnsignalled(t) PROVE TypeOK'
  BY <1>0, <1>6 DEF WakeUnsignalled
<1>7. ASSUME NEW status \in BOOLEAN, SetQuit(status) PROVE TypeOK'
  BY <1>0, <1>7 DEF SetQuit
<1>8. ASSUME WakeUpAll PROVE TypeOK'
  BY <1>0, <1>8 DEF WakeUpAll, Asleep
<1>9. CASE UNCHANGED queueVars
  BY <1>9 DEF queueVars
<1> QED
  BY <1>1, <1>2, <1>3, <1>4, <1>5, <1>6, <1>7, <1>8, <1>9 DEF Next, QueueStep

\* The queue's variables have their types in every reachable state.
THEOREM QueueTypeCorrect == Spec => []TypeOK
<1>1. Init => TypeOK
  <2>1. <<>> \in Seq(Data)
    OBVIOUS
  <2>2. [t \in Threads |-> "outside"] \in [Threads -> PopperState]
    BY DEF PopperState
  <2> QED BY <2>1, <2>2 DEF Init, TypeOK
<1> QED BY <1>1, TypeStep, PTL DEF Spec

-----------------------------------------------------------------------------
\* A push, a pop, a thread that falls asleep or wakes: none can leave an
\* element in the queue without a woken thread while others sleep.
LEMMA WakeupStep ==
    TypeOK /\ NoLostWakeup /\ [Next]_queueVars => NoLostWakeup'
<1> SUFFICES ASSUME TypeOK, NoLostWakeup, [Next]_queueVars PROVE NoLostWakeup'
  OBVIOUS
<1> USE DEF TypeOK, PopperState, NoLostWakeup
<1>0. /\ IsFiniteSet(Woken) /\ Cardinality(Woken) \in Nat /\ Len(elements) \in Nat
      /\ IsFiniteSet(Woken') /\ Cardinality(Woken') \in Nat
  <2>1. IsFiniteSet(Threads) /\ Woken' \subseteq Threads
    BY MTQueueAssumption DEF Woken
  <2> QED BY <2>1, ThreadSetsFinite, FS_Subset, FS_CardinalityType
<1>1. ASSUME NEW t \in Threads, NEW d \in Data, Push(t, d) PROVE NoLostWakeup'
  <2>1. Len(elements') = Len(elements) + 1
    BY <1>1, LengthAfterAdd DEF Push
  <2>2. CASE Asleep = {} /\ UNCHANGED popper
    BY <2>2 DEF Asleep
  <2>3. ASSUME NEW s \in Asleep, popper' = [popper EXCEPT ![s] = "woken"]
        PROVE  NoLostWakeup'
    <3>1. Woken' = Woken \cup {s} /\ s \notin Woken
      BY <2>3 DEF Woken, Asleep
    <3>2. Cardinality(Woken') = Cardinality(Woken) + 1
      BY <3>1, <1>0, FS_AddElement
    <3> QED BY <2>1, <2>3, <3>2, <1>0
  <2> QED BY <1>1, <2>2, <2>3 DEF Push, SignalPush
<1>2. ASSUME NEW t \in Threads, Pop(t) PROVE NoLostWakeup'
  <2>1. Len(elements') <= Len(elements) /\ Len(elements') \in Nat
    BY <1>2, <1>0, LengthAfterPop DEF Pop
  <2>2. Asleep' = Asleep /\ Woken' = Woken
    BY <1>2 DEF Pop, Asleep, Woken
  <2> QED BY <2>1, <2>2, <1>0
<1>3. ASSUME NEW t \in Threads, PopWaitNow(t) PROVE NoLostWakeup'
  <2>1. Len(elements') <= Len(elements) /\ Len(elements') \in Nat
    BY <1>3, <1>0, LengthAfterPop DEF PopWaitNow
  <2>2. Asleep' = Asleep /\ Woken' = Woken
    BY <1>3 DEF PopWaitNow, Asleep, Woken
  <2> QED BY <2>1, <2>2, <1>0
<1>4. ASSUME NEW t \in Threads, PopWaitSleep(t) PROVE NoLostWakeup'
  <2>1. Len(elements') = 0
    BY <1>4 DEF PopWaitSleep
  <2> QED BY <2>1, <1>0
<1>5. ASSUME NEW t \in Threads, PopWaitResume(t) PROVE NoLostWakeup'
  <2>1. Len(elements') = IF Len(elements) = 0 THEN 0 ELSE Len(elements) - 1
    BY <1>5, LengthAfterPop DEF PopWaitResume
  <2>2. Woken' = Woken \ {t} /\ t \in Woken /\ Asleep' = Asleep
    BY <1>5 DEF PopWaitResume, Woken, Asleep
  <2>3. Cardinality(Woken') = Cardinality(Woken) - 1
    BY <2>2, <1>0, FS_RemoveElement
  <2> QED BY <2>1, <2>2, <2>3, <1>0
<1>6. ASSUME NEW t \in Threads, WakeUnsignalled(t) PROVE NoLostWakeup'
  <2>1. Woken' = Woken \cup {t} /\ t \notin Woken /\ t \in Asleep
    BY <1>6 DEF WakeUnsignalled, Woken, Asleep
  <2>2. Cardinality(Woken') = Cardinality(Woken) + 1
    BY <2>1, <1>0, FS_AddElement
  <2>3. elements' = elements
    BY <1>6 DEF WakeUnsignalled
  <2> QED BY <2>1, <2>2, <2>3, <1>0
<1>7. ASSUME NEW status \in BOOLEAN, SetQuit(status) PROVE NoLostWakeup'
  BY <1>7 DEF SetQuit, Asleep, Woken
<1>8. ASSUME WakeUpAll PROVE NoLostWakeup'
  <2>1. Asleep' = {}
    BY <1>8 DEF WakeUpAll, Asleep
  <2> QED BY <2>1
<1>9. CASE UNCHANGED queueVars
  BY <1>9 DEF queueVars, Asleep, Woken
<1> QED
  BY <1>1, <1>2, <1>3, <1>4, <1>5, <1>6, <1>7, <1>8, <1>9 DEF Next, QueueStep

\* No push is lost on the sleepers: while a thread sleeps in MTQueue_popWait,
\* there are at least as many woken threads as queued elements.
THEOREM QueueLosesNoWakeup == Spec => []NoLostWakeup
<1>1. Init => NoLostWakeup
  BY DEF Init, NoLostWakeup, Asleep
<1> QED BY <1>1, QueueTypeCorrect, WakeupStep, PTL DEF Spec

-----------------------------------------------------------------------------
\* A step that finds and leaves quit set puts no thread to sleep.
LEMMA QuitStep ==
    TypeOK /\ Next => (quit /\ quit' => Asleep' \subseteq Asleep)
<1> SUFFICES ASSUME TypeOK, Next, quit, quit', NEW u \in Asleep'
             PROVE  u \in Asleep
  OBVIOUS
<1> USE DEF TypeOK, PopperState, Asleep
<1>1. ASSUME NEW t \in Threads, NEW d \in Data, Push(t, d) PROVE u \in Asleep
  BY <1>1 DEF Push, SignalPush
<1>2. ASSUME NEW t \in Threads,
             Pop(t) \/ PopWaitNow(t) \/ PopWaitResume(t) \/ WakeUnsignalled(t)
      PROVE  u \in Asleep
  BY <1>2 DEF Pop, PopWaitNow, PopWaitResume, WakeUnsignalled
<1>3. ASSUME NEW t \in Threads, PopWaitSleep(t) PROVE u \in Asleep
  BY <1>3 DEF PopWaitSleep
<1>4. CASE WakeUpAll
  BY <1>4 DEF WakeUpAll
<1>5. ASSUME NEW status \in BOOLEAN, SetQuit(status) PROVE u \in Asleep
  BY <1>5 DEF SetQuit
<1> QED BY <1>1, <1>2, <1>3, <1>4, <1>5 DEF Next, QueueStep

\* Once MTQueue_setQuit( self, true ) has been called, nobody falls asleep.
THEOREM QuitIsFinal == Spec => QuitKeepsAwake
<1>1. TypeOK /\ [Next]_queueVars
        => [quit /\ quit' => Asleep' \subseteq Asleep]_queueVars
  BY QuitStep
<1> QED BY <1>1, QueueTypeCorrect, PTL DEF Spec, QuitKeepsAwake

-----------------------------------------------------------------------------
\* The history invariant behind FifoOrder, element by element.
FifoInv ==
    /\ pushes \in 0..MaxPushes
    /\ taken \in Seq(Data)
    /\ Len(taken) + Len(elements) = pushes
    /\ type = "FIFO" =>
          /\ \A i \in 1..Len(taken) : taken[i] = i
          /\ \A i \in 1..Len(elements) : elements[i] = Len(taken) + i

\* Popping takes the next number, or nothing.
LEMMA FifoPop ==
    ASSUME TypeOK, FifoInv, UnlockedPop \/ UNCHANGED elements, Record, UNCHANGED <<pushes, type>>
    PROVE  FifoInv'
<1> USE DEF TypeOK, FifoInv
<1>1. CASE Len(elements') = Len(elements)
  <2>1. elements' = elements
    BY <1>1, LengthAfterPop DEF UnlockedPop
  <2>2. taken' = taken
    BY <1>1 DEF Record
  <2> QED BY <2>1, <2>2
<1>2. CASE Len(elements') # Len(elements)
  <2>1. elements # <<>> /\ elements' = Tail(elements)
    BY <1>2 DEF UnlockedPop
  <2>2. taken' = Append(taken, Head(elements))
    BY <2>1 DEF Record
  <2>3. /\ Len(elements) > 0 /\ Head(elements) \in Data
        /\ type = "FIFO" => Head(elements) = Len(taken) + 1
    BY <2>1
  <2>4. /\ elements' \in Seq(Data) /\ Len(elements') = Len(elements) - 1
        /\ \A i \in 1..Len(elements') : elements'[i] = elements[i + 1]
    BY <2>1, <2>3
  <2>5. /\ taken' \in Seq(Data) /\ Len(taken') = Len(taken) + 1
        /\ type = "FIFO" => taken'[Len(taken) + 1] = Len(taken) + 1
        /\ \A i \in 1..Len(taken) : taken'[i] = taken[i]
    BY <2>2, <2>3
  <2>6. Len(taken) \in Nat /\ Len(elements) \in Nat
    OBVIOUS
  <2>7. Len(taken') + Len(elements') = pushes'
    <3>1. pushes' = pushes /\ Len(taken) + Len(elements) = pushes
      OBVIOUS
    <3> HIDE DEF TypeOK, FifoInv
    <3> QED BY <3>1, <2>4, <2>5, <2>6
  <2>8. ASSUME type = "FIFO", NEW i \in 1..Len(taken') PROVE taken'[i] = i
    BY <2>5, <2>6, <2>8
  <2>9. ASSUME type = "FIFO", NEW i \in 1..Len(elements')
        PROVE  elements'[i] = Len(taken') + i
    <3>1. i + 1 \in 1..Len(elements)
      BY <2>4, <2>6
    <3>2. elements'[i] = Len(taken) + (i + 1)
      BY <2>9, <3>1, <2>4
    <3> QED BY <3>2, <2>5, <2>6
  <2> QED BY <2>4, <2>5, <2>7, <2>8, <2>9
<1> QED BY <1>1, <1>2

LEMMA FifoStep ==
    TypeOK /\ FifoInv /\ [HistoryNext]_vars => FifoInv'
<1> SUFFICES ASSUME TypeOK, FifoInv, [HistoryNext]_vars PROVE FifoInv'
  OBVIOUS
<1>1. ASSUME NEW t \in Threads, PushNumbered(t) PROVE FifoInv'
  <2>0. pushes + 1 \in Data /\ elements \in Seq(Data)
    BY <1>1, HistoryAssumption DEF PushNumbered, FifoInv, TypeOK
  <2>1. /\ elements' = Added(pushes + 1) /\ Len(elements') = Len(elements) + 1
        /\ pushes' = pushes + 1 /\ taken' = taken /\ pushes < MaxPushes
    BY <1>1, <2>0, LengthAfterAdd DEF PushNumbered, Push
  <2>2. type = "FIFO" =>
          /\ elements'[Len(elements) + 1] = pushes + 1
          /\ \A i \in 1..Len(elements) : elements'[i] = elements[i]
    BY <2>0, <2>1 DEF Added
  <2>3. Len(taken) \in Nat /\ Len(elements) \in Nat
    BY DEF TypeOK, FifoInv
  <2>4. pushes \in Nat /\ MaxPushes \in Nat /\ Len(taken) + Len(elements) = pushes
    BY HistoryAssumption DEF FifoInv
  <2>5. Len(taken') + Len(elements') = pushes'
    BY <2>1, <2>2, <2>3, <2>4
  <2>6. pushes' \in 0..MaxPushes
    BY <2>1, <2>4
  <2>7. ASSUME type = "FIFO", NEW i \in 1..Len(elements')
        PROVE  elements'[i] = Len(taken') + i
    <3>1. CASE i = Len(elements) + 1
      BY <3>1, <2>7, <2>1, <2>2, <2>3, <2>4
    <3>2. CASE i \in 1..Len(elements)
      BY <3>2, <2>7, <2>1, <2>2 DEF FifoInv
    <3> QED BY <3>1, <3>2, <2>1, <2>3
  <2>8. type' = type
    BY DEF HistoryNext, vars, queueVars
  <2> QED BY <2>1, <2>5, <2>6, <2>7, <2>8 DEF FifoInv
<1>2. ASSUME NEW t \in Threads, PopRecorded(t) PROVE FifoInv'
  <2>1. type' = type
    BY DEF HistoryNext, vars, queueVars
  <2> QED BY <1>2, <2>1, FifoPop DEF PopRecorded, Pop, PopWaitNow, PopWaitResume
<1>3. CASE WaitOrWake
  BY <1>3 DEF HistoryNext, vars, queueVars, WaitOrWake, PopWaitSleep, WakeUnsignalled, SetQuit, WakeUpAll, FifoInv
<1>4. CASE UNCHANGED vars
  BY <1>4 DEF vars, queueVars, FifoInv
<1> QED BY <1>1, <1>2, <1>3, <1>4 DEF HistoryNext

\* A step of the history is a step of the queue, so what holds of the queue
\* holds of the queue with a history.
LEMMA HistoryStepsAreQueueSteps ==
    FifoInv /\ [HistoryNext]_vars => [Next]_queueVars
<1>1. FifoInv => (pushes < MaxPushes => pushes + 1 \in Data)
  BY HistoryAssumption DEF FifoInv
<1> QED
  BY <1>1 DEF HistoryNext, PushNumbered, PopRecorded, WaitOrWake, Next, QueueStep, vars

\* A state of the history is a state of the queue, in which FifoInv holds.
LEMMA HistoryStart == HistoryInit => TypeOK /\ FifoInv
<1> SUFFICES ASSUME HistoryInit PROVE TypeOK /\ FifoInv
  OBVIOUS
<1>1. TypeOK
  <2>1. <<>> \in Seq(Data)
    OBVIOUS
  <2>2. [t \in Threads |-> "outside"] \in [Threads -> PopperState]
    BY DEF PopperState
  <2> QED BY <2>1, <2>2 DEF HistoryInit, Init, TypeOK
<1>2. FifoInv
  BY HistoryAssumption DEF HistoryInit, Init, FifoInv
<1> QED BY <1>1, <1>2

LEMMA HistoryKeeps == HistorySpec => [](TypeOK /\ FifoInv)
BY HistoryStart, TypeStep, FifoStep, HistoryStepsAreQueueSteps, PTL DEF HistorySpec

\* The history's variables have their types too.
THEOREM HistoryTypeCorrect == HistorySpec => []HistoryTypeOK
<1>1. TypeOK /\ FifoInv => HistoryTypeOK
  BY DEF FifoInv, HistoryTypeOK
<1> QED BY <1>1, HistoryKeeps, PTL

\* In a FIFO queue, what has been taken followed by what is queued is what was
\* pushed, in the order of the pushes.
THEOREM QueueIsFifo == HistorySpec => []FifoOrder
<1>1. TypeOK /\ FifoInv => FifoOrder
  <2> SUFFICES ASSUME TypeOK, FifoInv, type = "FIFO" PROVE taken \o elements = [i \in 1..pushes |-> i]
    BY DEF FifoOrder
  <2>1. /\ Len(taken) \in Nat /\ Len(elements) \in Nat
        /\ taken \in Seq(Data) /\ elements \in Seq(Data)
    BY DEF TypeOK, FifoInv
  <2>2. /\ taken \o elements \in Seq(Data)
        /\ Len(taken \o elements) = pushes
    BY <2>1, ConcatProperties DEF FifoInv
  <2>3. ASSUME NEW i \in 1..pushes PROVE (taken \o elements)[i] = i
    <3>1. (taken \o elements)[i] = IF i <= Len(taken) THEN taken[i]
                                   ELSE elements[i - Len(taken)]
      BY <2>1, <2>3, ConcatProperties DEF FifoInv
    <3> QED BY <3>1, <2>1, <2>3 DEF FifoInv
  <2>4. DOMAIN (taken \o elements) = 1..pushes
    BY <2>2, LenProperties
  <2>5. taken \o elements = [i \in DOMAIN (taken \o elements) |-> (taken \o elements)[i]]
    BY <2>2, LenProperties
  <2> QED BY <2>3, <2>4, <2>5
<1> QED BY <1>1, HistoryKeeps, PTL

-----------------------------------------------------------------------------
(* The order of a LIFO queue.                                                *)

\* The data a sequence holds.
Elements(s) == {s[i] : i \in 1..Len(s)}

LEMMA ElementsOfAppend ==
    ASSUME NEW S, NEW s \in Seq(S), NEW e \in S
    PROVE  Elements(Append(s, e)) = Elements(s) \cup {e}
<1>1. /\ Len(Append(s, e)) = Len(s) + 1 /\ Len(s) \in Nat
      /\ Append(s, e)[Len(s) + 1] = e
      /\ \A i \in 1..Len(s) : Append(s, e)[i] = s[i]
  OBVIOUS
<1>2. 1..Len(s) + 1 = 1..Len(s) \cup {Len(s) + 1}
  BY <1>1
<1> QED BY <1>1, <1>2 DEF Elements

\* What lies behind the head keeps its order, and the head is no longer there.
LEMMA ElementsOfTail ==
    ASSUME NEW S, NEW s \in Seq(S), s # <<>>
    PROVE  /\ Head(s) = s[1] /\ Head(s) \in S
           /\ Tail(s) \in Seq(S) /\ Len(Tail(s)) = Len(s) - 1 /\ Len(s) \in Nat \ {0}
           /\ \A i \in 1..Len(Tail(s)) : Tail(s)[i] = s[i + 1]
           /\ Elements(s) = {Head(s)} \cup Elements(Tail(s))
<1>1. /\ Head(s) = s[1] /\ Head(s) \in S
      /\ Tail(s) \in Seq(S) /\ Len(Tail(s)) = Len(s) - 1 /\ Len(s) \in Nat \ {0}
      /\ \A i \in 1..Len(Tail(s)) : Tail(s)[i] = s[i + 1]
  OBVIOUS
<1>2. ASSUME NEW i \in 1..Len(s)
      PROVE  s[i] \in {Head(s)} \cup Elements(Tail(s))
  <2>1. CASE i = 1
    BY <2>1, <1>1
  <2>2. CASE i # 1
    <3>1. i - 1 \in 1..Len(Tail(s)) /\ Tail(s)[i - 1] = s[(i - 1) + 1] /\ (i - 1) + 1 = i
      BY <2>2, <1>1
    <3> QED BY <3>1 DEF Elements
  <2> QED BY <2>1, <2>2
<1>3. ASSUME NEW i \in 1..Len(Tail(s)) PROVE Tail(s)[i] \in Elements(s)
  <2>1. i + 1 \in 1..Len(s)
    BY <1>1
  <2> QED BY <1>1, <2>1 DEF Elements
<1>4. Head(s) \in Elements(s)
  BY <1>1 DEF Elements
<1>5. Elements(s) \subseteq {Head(s)} \cup Elements(Tail(s))
  BY <1>2 DEF Elements
<1>6. Elements(Tail(s)) \subseteq Elements(s)
  BY <1>3 DEF Elements
<1> QED BY <1>1, <1>4, <1>5, <1>6

LEMMA ElementsOfPush ==
    ASSUME NEW S, NEW s \in Seq(S), NEW e \in S
    PROVE  /\ <<e>> \o s \in Seq(S) /\ Len(<<e>> \o s) = Len(s) + 1
           /\ (<<e>> \o s)[1] = e
           /\ \A i \in 1..Len(s) : (<<e>> \o s)[i + 1] = s[i]
           /\ Elements(<<e>> \o s) = {e} \cup Elements(s)
<1> DEFINE t == <<e>> \o s
<1>1. /\ t \in Seq(S) /\ Len(t) = Len(s) + 1 /\ t[1] = e
      /\ \A i \in 1..Len(s) : t[i + 1] = s[i]
      /\ t # <<>> /\ Len(s) \in Nat
  OBVIOUS
<1>2. Head(t) = e
  BY <1>1
<1>3. Tail(t) = s
  <2>1. Tail(t) \in Seq(S) /\ Len(Tail(t)) = Len(s)
    BY <1>1, ElementsOfTail
  <2>2. ASSUME NEW i \in 1..Len(s) PROVE Tail(t)[i] = s[i]
    BY <1>1, <2>1, ElementsOfTail
  <2> QED BY <2>1, <2>2, SeqEqual
<1>4. Elements(t) = {Head(t)} \cup Elements(Tail(t))
  BY <1>1, ElementsOfTail
<1> QED BY <1>1, <1>2, <1>3, <1>4

\* A pop moves the newest datum from the queue to what has been taken.
LEMMA LifoPop ==
    ASSUME TypeOK, FifoInv, LifoOrder, type = "LIFO",
           UnlockedPop \/ UNCHANGED elements, Record, UNCHANGED <<pushes, type>>, FifoInv'
    PROVE  LifoOrder'
<1>0. /\ elements \in Seq(Data) /\ taken \in Seq(Data)
      /\ Elements(taken) \cup Elements(elements) = 1..pushes
      /\ \A i, j \in 1..Len(elements) : i < j => elements[i] > elements[j]
  BY DEF TypeOK, FifoInv, LifoOrder, Elements
<1>1. CASE Len(elements') = Len(elements)
  <2>1. elements' = elements
    BY <1>0, <1>1, LengthAfterPop DEF UnlockedPop
  <2>2. taken' = taken
    BY <1>1 DEF Record
  <2> QED BY <2>1, <2>2 DEF LifoOrder
<1>2. CASE Len(elements') # Len(elements)
  <2>1. elements # <<>> /\ elements' = Tail(elements)
    BY <1>2 DEF UnlockedPop
  <2>2. taken' = Append(taken, Head(elements))
    BY <1>0, <2>1, ElementsOfTail DEF Record
  <2>3. Elements(taken') = Elements(taken) \cup {Head(elements)}
    BY <1>0, <2>1, <2>2, ElementsOfTail, ElementsOfAppend
  <2>4. Elements(elements) = {Head(elements)} \cup Elements(elements')
    BY <1>0, <2>1, ElementsOfTail
  <2>5. Elements(taken') \cup Elements(elements') = 1..pushes'
    BY <1>0, <2>3, <2>4
  <2>6. ASSUME NEW i \in 1..Len(elements'), NEW j \in 1..Len(elements'), i < j
        PROVE  elements'[i] > elements'[j]
    <3>1. /\ Len(elements') = Len(elements) - 1 /\ Len(elements) \in Nat
          /\ elements'[i] = elements[i + 1] /\ elements'[j] = elements[j + 1]
      BY <1>0, <2>1, ElementsOfTail
    <3>2. i + 1 \in 1..Len(elements) /\ j + 1 \in 1..Len(elements) /\ i + 1 < j + 1
      BY <2>6, <3>1
    <3> QED BY <1>0, <3>1, <3>2
  <2> QED BY <2>5, <2>6 DEF LifoOrder, FifoInv, Elements
<1> QED BY <1>1, <1>2

LEMMA LifoStep ==
    TypeOK /\ FifoInv /\ LifoOrder /\ [HistoryNext]_vars => LifoOrder'
<1> SUFFICES ASSUME TypeOK, FifoInv, LifoOrder, [HistoryNext]_vars, type' = "LIFO"
             PROVE  LifoOrder'
  BY DEF LifoOrder
<1>0. FifoInv' /\ type = "LIFO"
  BY FifoStep DEF HistoryNext, vars, queueVars
<1>1. ASSUME NEW t \in Threads, PushNumbered(t) PROVE LifoOrder'
  <2>1. /\ pushes + 1 \in Data /\ elements \in Seq(Data) /\ pushes \in Nat
        /\ elements' = <<pushes + 1>> \o elements /\ pushes' = pushes + 1 /\ taken' = taken
    BY <1>0, <1>1, HistoryAssumption DEF PushNumbered, Push, Added, FifoInv, TypeOK
  <2>2. /\ Len(elements') = Len(elements) + 1 /\ Len(elements) \in Nat
        /\ elements'[1] = pushes + 1
        /\ \A i \in 1..Len(elements) : elements'[i + 1] = elements[i]
        /\ Elements(elements') = {pushes + 1} \cup Elements(elements)
    BY <2>1, ElementsOfPush
  <2>3. /\ Elements(taken) \cup Elements(elements) = 1..pushes
        /\ \A i, j \in 1..Len(elements) : i < j => elements[i] > elements[j]
    BY <1>0 DEF LifoOrder, Elements
  <2>4. Elements(taken') \cup Elements(elements') = 1..pushes'
    BY <2>1, <2>2, <2>3
  <2>5. \A i \in 1..Len(elements) : elements[i] \in 1..pushes
    BY <2>3 DEF Elements
  <2>6. ASSUME NEW i \in 1..Len(elements'), NEW j \in 1..Len(elements'), i < j
        PROVE  elements'[i] > elements'[j]
    <3>1. j - 1 \in 1..Len(elements) /\ elements'[j] = elements[j - 1]
      BY <2>2, <2>6
    <3>2. CASE i = 1
      <4>1. elements'[i] = pushes + 1 /\ elements[j - 1] \in 1..pushes
        BY <2>2, <2>5, <3>1, <3>2
      <4> QED BY <3>1, <4>1, <2>1
    <3>3. CASE i # 1
      <4>1. i - 1 \in 1..Len(elements) /\ elements'[i] = elements[i - 1] /\ i - 1 < j - 1
        BY <2>2, <2>6, <3>3
      <4> QED BY <2>3, <3>1, <4>1
    <3> QED BY <3>2, <3>3
  <2> QED BY <1>0, <2>4, <2>6 DEF LifoOrder, FifoInv, Elements
<1>2. ASSUME NEW t \in Threads, PopRecorded(t) PROVE LifoOrder'
  <2>1. type' = type
    BY DEF HistoryNext, vars, queueVars
  <2> QED BY <1>0, <1>2, <2>1, LifoPop DEF PopRecorded, Pop, PopWaitNow, PopWaitResume
<1>3. CASE WaitOrWake
  BY <1>3 DEF HistoryNext, vars, queueVars, WaitOrWake, PopWaitSleep, WakeUnsignalled,
              SetQuit, WakeUpAll, LifoOrder
<1>4. CASE UNCHANGED vars
  BY <1>4 DEF vars, queueVars, LifoOrder
<1> QED BY <1>1, <1>2, <1>3, <1>4 DEF HistoryNext

\* In a LIFO queue the newest datum is the head, and every datum that was
\* pushed is either queued or taken.
THEOREM QueueIsLifo == HistorySpec => []LifoOrder
<1>1. HistoryInit => LifoOrder
  BY HistoryAssumption DEF HistoryInit, Init, LifoOrder
<1> QED BY <1>1, HistoryKeeps, LifoStep, PTL DEF HistorySpec

\* A queue of either type keeps the order it promises.
THEOREM QueueKeepsItsOrder == HistorySpec => []PopOrder
BY QueueIsFifo, QueueIsLifo, PTL DEF PopOrder
=============================================================================
